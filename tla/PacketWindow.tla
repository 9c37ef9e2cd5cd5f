--------------------------- MODULE PacketWindow ---------------------------
(***************************************************************************)
(* What a packet receiver promises about packet numbers, without saying    *)
(* how it remembers them.  Per packet-number space (one key phase of one   *)
(* direction) it keeps the accepted numbers that are at most WindowSize    *)
(* below the highest accepted one, and accepts a number only when it is    *)
(* above the highest or inside that window and not yet accepted.           *)
(***************************************************************************)
EXTENDS Integers

CONSTANTS
    Spaces,         \* packet-number spaces
    PacketNumbers,  \* the numbers a packet may carry
    WindowSize,     \* how far below the highest a number may still arrive
    None            \* the value of an empty space

VARIABLES
    highest,        \* highest[s]: highest accepted number of s, or None
    seen,           \* seen[s]: accepted numbers of s inside the window
    closed          \* the receiver was destroyed

vars == <<highest, seen, closed>>

Fresh(s, n) ==
    \/ highest[s] = None
    \/ n > highest[s]
    \/ /\ highest[s] - n <= WindowSize
       /\ n \notin seen[s]

Init ==
    /\ highest = [s \in Spaces |-> None]
    /\ seen = [s \in Spaces |-> {}]
    /\ closed = FALSE

\* A number is accepted: the window slides up when the number is the highest.
Accept(s, n) ==
    /\ ~closed
    /\ Fresh(s, n)
    /\ LET top == IF highest[s] = None \/ n > highest[s] THEN n ELSE highest[s]
       IN  /\ highest' = [highest EXCEPT ![s] = top]
           /\ seen' = [seen EXCEPT ![s] =
                          {k \in seen[s] \cup {n} : top - k <= WindowSize}]
    /\ UNCHANGED closed

\* The space's keys are gone, and with them what was accepted under them.
Forget(s) ==
    /\ highest' = [highest EXCEPT ![s] = None]
    /\ seen' = [seen EXCEPT ![s] = {}]
    /\ UNCHANGED closed

Close ==
    /\ closed' = TRUE
    /\ highest' = [s \in Spaces |-> None]
    /\ seen' = [s \in Spaces |-> {}]

Next ==
    \/ \E s \in Spaces : \/ \E n \in PacketNumbers : Accept(s, n)
                         \/ Forget(s)
    \/ Close

Spec == Init /\ [][Next]_vars
=============================================================================
