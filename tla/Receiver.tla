----------------------------- MODULE Receiver -----------------------------
(***************************************************************************)
(* packet.Receiver: authenticated opening of packets by several goroutines *)
(* at once.  One mutex guards the replay windows and the cache of          *)
(* protectors (per-phase AEAD state); it is NOT held while a packet is     *)
(* decrypted, so a number is checked before and after decryption and once  *)
(* more when it is committed, and a protector that is replaced, forgotten  *)
(* or destroyed meanwhile is only retired until its last open returns.     *)
(*                                                                         *)
(* Every action is one critical section of the mutex, except Decrypt,      *)
(* which is the AEAD call made between two of them.                        *)
(***************************************************************************)
EXTENDS Integers, FiniteSets

CONSTANTS
    Openers,        \* goroutines opening packets
    Spaces,         \* packet-number spaces (route, hop, direction, phase)
    PacketNumbers,  \* the numbers a packet may carry
    WindowSize,     \* ReceiverConfig.WindowSize after clamping
    Materials,      \* traffic key materials callers present for a space
    Protectors,     \* identities of cached *Protector allocations
    Base,           \* identity of the receiver's own protector (r.protector)
    None            \* nil

ASSUME WindowAssumption == WindowSize \in Nat \ {0}
ASSUME PacketNumberAssumption == PacketNumbers \subseteq Nat
ASSUME NoneAssumption ==
    /\ None \notin Protectors \cup {Base}
    /\ None \notin Materials \cup PacketNumbers
    /\ None \notin [highest : Nat, bits : SUBSET Nat]
ASSUME ProtectorAssumption ==
    /\ Base \notin Protectors
    /\ IsFiniteSet(Openers)

AllProtectors == Protectors \cup {Base}

VARIABLES
    windows,        \* windows[s]: None or [highest, bits], bits the set slots
    cached,         \* cached[s]: the cached protector of s (directionProtectors)
    key,            \* key[p]: material protector p was built from; None if unused
    uses,           \* uses[p]: protectorUses[p], 0 when absent from the map
    retired,        \* retiredProtectors
    erased,         \* protectors whose Destroy ran: key bytes are zero
    destroyed,      \* Receiver.destroyed
    op,             \* op[o]: the open opener o is executing
    accepted        \* history: accepted[s][n], how often n was accepted in s

vars == <<windows, cached, key, uses, retired, erased, destroyed, op, accepted>>

WindowBits == WindowSize + 1

Idle == [pc |-> "idle", space |-> None, pn |-> None, protector |-> None]

\* Program points of one open, in the order of the code.
Points == {"idle", "check", "decrypt", "recheck", "fail", "done", "prepared"}


---------------------------------------------------------------------------
(* The ring bitmap.  Slot n % WindowBits records number n.                 *)

Contains(w, n) == (n % WindowBits) \in w.bits

Set(w, n) == [w EXCEPT !.bits = @ \cup {n % WindowBits}]

\* Slide the window up to n, clearing the slots that newly enter it.
Advance(w, n) ==
    [highest |-> n,
     bits |-> IF n - w.highest >= WindowBits
              THEN {}
              ELSE w.bits \ {k % WindowBits : k \in (w.highest + 1) .. n}]

\* checkPacketNumberKeyLocked: the number may still be accepted.
CheckPacketNumber(s, n) ==
    /\ ~destroyed
    /\ \/ windows[s] = None
       \/ n > windows[s].highest
       \/ /\ windows[s].highest - n <= WindowSize
          /\ ~Contains(windows[s], n)

\* Mutant: the highest number moves and the ring does not slide.
MarkWithoutAdvance(s, n) ==
    IF windows[s] = None THEN Set([highest |-> n, bits |-> {}], n)
    ELSE IF n > windows[s].highest THEN Set([windows[s] EXCEPT !.highest = n], n)
    ELSE Set(windows[s], n)
\* markPacketNumberKeyLocked: the space's window after n is accepted.
Mark(s, n) ==
    IF windows[s] = None THEN Set([highest |-> n, bits |-> {}], n)
    ELSE IF n > windows[s].highest THEN Set(Advance(windows[s], n), n)
    ELSE IF windows[s].highest - n > WindowSize THEN windows[s]
    ELSE Set(windows[s], n)

---------------------------------------------------------------------------
(* Protector ownership.                                                    *)

\* Mutant: erase at once, whoever is still using the protector.
RetireEagerly(P) ==
    /\ erased' = erased \cup P
    /\ retired' = retired
\* retireProtectorLocked for every protector of P: erase it now, or leave it
\* to the last open that still uses it.
Retire(P) ==
    /\ erased' = erased \cup {p \in P : uses[p] = 0}
    /\ retired' = retired \cup {p \in P : uses[p] # 0}

Cached(s) == {cached[s]} \ {None}

\* The cached protector of s was built from material m.
HasProtector(s, m) == cached[s] # None /\ key[cached[s]] = m

Init ==
    /\ windows = [s \in Spaces |-> None]
    /\ cached = [s \in Spaces |-> None]
    /\ key = [p \in Protectors |-> None]
    /\ uses = [p \in AllProtectors |-> 0]
    /\ retired = {}
    /\ erased = {}
    /\ destroyed = FALSE
    /\ op = [o \in Openers |-> Idle]
    /\ accepted = [s \in Spaces |-> [n \in PacketNumbers |-> 0]]

\* acquireProtectorLocked, and the open enters prepareOpenWithProtector.
Acquire(o, s, n, p) ==
    /\ uses' = [uses EXCEPT ![p] = @ + 1]
    /\ op' = [op EXCEPT ![o] = [pc |-> "check", space |-> s, pn |-> n, protector |-> p]]

\* PrepareOpen: pin the receiver's own protector.
AcquireBase(o, s, n) ==
    /\ op[o].pc = "idle"
    /\ ~destroyed
    /\ Acquire(o, s, n, Base)
    /\ UNCHANGED <<windows, cached, key, retired, erased, destroyed, accepted>>

\* directionProtector, first return: the cached protector has this material.
AcquireCached(o, s, n, m) ==
    /\ op[o].pc = "idle"
    /\ ~destroyed
    /\ HasProtector(s, m)
    /\ Acquire(o, s, n, cached[s])
    /\ UNCHANGED <<windows, cached, key, retired, erased, destroyed, accepted>>

\* directionProtector, second return: retire the cached protector, if any,
\* and cache a new allocation p.
AcquireNew(o, s, n, m, p) ==
    /\ op[o].pc = "idle"
    /\ ~destroyed
    /\ ~HasProtector(s, m)
    /\ p \in Protectors
    /\ key[p] = None
    /\ Retire(Cached(s))
    /\ cached' = [cached EXCEPT ![s] = p]
    /\ key' = [key EXCEPT ![p] = m]
    /\ Acquire(o, s, n, p)
    /\ UNCHANGED <<windows, destroyed, accepted>>

\* directionProtector, error return: the material is refused by NewProtector
\* after the cached protector was dropped.
AcquireRefused(o, s, m) ==
    /\ op[o].pc = "idle"
    /\ ~destroyed
    /\ ~HasProtector(s, m)
    /\ Retire(Cached(s))
    /\ cached' = [cached EXCEPT ![s] = None]
    /\ UNCHANGED <<windows, key, uses, destroyed, op, accepted>>

GoTo(o, pc) == op' = [op EXCEPT ![o].pc = pc]

\* First checkPacketNumberLocked of prepareOpenWithProtector.
Check(o) ==
    /\ op[o].pc = "check"
    /\ GoTo(o, IF CheckPacketNumber(op[o].space, op[o].pn) THEN "decrypt" ELSE "fail")
    /\ UNCHANGED <<windows, cached, key, uses, retired, erased, destroyed, accepted>>

\* protector.Open / OpenOwned outside the mutex: authentication may fail.
Decrypt(o) ==
    /\ op[o].pc = "decrypt"
    /\ \E ok \in BOOLEAN : GoTo(o, IF ok THEN "recheck" ELSE "fail")
    /\ UNCHANGED <<windows, cached, key, uses, retired, erased, destroyed, accepted>>

\* Second checkPacketNumberLocked.
Recheck(o) ==
    /\ op[o].pc = "recheck"
    /\ GoTo(o, IF CheckPacketNumber(op[o].space, op[o].pn) THEN "done" ELSE "fail")
    /\ UNCHANGED <<windows, cached, key, uses, retired, erased, destroyed, accepted>>

\* The PreparedOpen returned by prepareOpenWithProtector.
Prepared(o) == [pc |-> "prepared", space |-> op[o].space, pn |-> op[o].pn, protector |-> None]

\* Deferred releaseProtector: the last user of a retired protector erases it.
Release(o) ==
    /\ op[o].pc \in {"fail", "done"}
    /\ LET p == op[o].protector
           last == uses[p] <= 1
       IN  /\ uses' = [uses EXCEPT ![p] = IF last THEN 0 ELSE @ - 1]
           /\ retired' = IF last THEN retired \ {p} ELSE retired
           /\ erased' = IF last /\ p \in retired THEN erased \cup {p} ELSE erased
    /\ op' = [op EXCEPT ![o] = IF op[o].pc = "fail" THEN Idle ELSE Prepared(o)]
    /\ UNCHANGED <<windows, cached, key, destroyed, accepted>>

\* Mutant: trust the check made after decryption.
CommitUnchecked(o) ==
    /\ op[o].pc = "prepared"
    /\ windows' = [windows EXCEPT ![op[o].space] = Mark(op[o].space, op[o].pn)]
    /\ accepted' = [accepted EXCEPT ![op[o].space][op[o].pn] = @ + 1]
    /\ op' = [op EXCEPT ![o] = Idle]
    /\ UNCHANGED <<cached, key, uses, retired, erased, destroyed>>
\* CommitPreparedOpen: check once more and mark in the same critical section.
CommitPreparedOpen(o) ==
    /\ op[o].pc = "prepared"
    /\ LET s == op[o].space
           n == op[o].pn
       IN  IF CheckPacketNumber(s, n)
           THEN /\ windows' = [windows EXCEPT ![s] = Mark(s, n)]
                /\ accepted' = [accepted EXCEPT ![s][n] = @ + 1]
           ELSE UNCHANGED <<windows, accepted>>
    /\ op' = [op EXCEPT ![o] = Idle]
    /\ UNCHANGED <<cached, key, uses, retired, erased, destroyed>>

\* PreparedOpen.Destroy without a commit: the caller gave the packet up.
Abandon(o) ==
    /\ op[o].pc = "prepared"
    /\ op' = [op EXCEPT ![o] = Idle]
    /\ UNCHANGED <<windows, cached, key, uses, retired, erased, destroyed, accepted>>

\* ForgetPacketNumberSpace: the key phase was erased by the caller.
ForgetPacketNumberSpace(s) ==
    /\ Retire(Cached(s))
    /\ cached' = [cached EXCEPT ![s] = None]
    /\ windows' = [windows EXCEPT ![s] = None]
    /\ accepted' = [accepted EXCEPT ![s] = [n \in PacketNumbers |-> 0]]
    /\ UNCHANGED <<key, uses, destroyed, op>>

\* Receiver.Destroy.
Destroy ==
    /\ destroyed' = TRUE
    /\ Retire({Base} \cup UNION {Cached(s) : s \in Spaces})
    /\ cached' = [s \in Spaces |-> None]
    /\ windows' = [s \in Spaces |-> None]
    /\ accepted' = [s \in Spaces |-> [n \in PacketNumbers |-> 0]]
    /\ UNCHANGED <<key, uses, op>>

OpenStep(o) ==
    \/ Check(o)
    \/ Decrypt(o)
    \/ Recheck(o)
    \/ Release(o)
    \/ CommitPreparedOpen(o)
    \/ Abandon(o)

Next ==
    \/ \E o \in Openers :
          \/ OpenStep(o)
          \/ \E s \in Spaces, n \in PacketNumbers :
                \/ AcquireBase(o, s, n)
                \/ \E m \in Materials :
                      \/ AcquireCached(o, s, n, m)
                      \/ AcquireRefused(o, s, m)
                      \/ \E p \in Protectors : AcquireNew(o, s, n, m, p)
    \/ \E s \in Spaces : ForgetPacketNumberSpace(s)
    \/ Destroy

Spec == Init /\ [][Next]_vars

---------------------------------------------------------------------------
(* Properties.                                                             *)

Windows == [highest : PacketNumbers, bits : SUBSET (0 .. WindowSize)]
Opens == [pc : Points, space : Spaces \cup {None}, pn : PacketNumbers \cup {None},
          protector : AllProtectors \cup {None}]
Pinning == {"check", "decrypt", "recheck", "fail", "done"}
Users(p) == {o \in Openers : op[o].pc \in Pinning /\ op[o].protector = p}

\* Type invariant of the receiver's maps and of each open in progress.
TypeOK ==
    /\ windows \in [Spaces -> Windows \cup {None}]
    /\ cached \in [Spaces -> Protectors \cup {None}]
    /\ key \in [Protectors -> Materials \cup {None}]
    /\ uses \in [AllProtectors -> Nat]
    /\ retired \subseteq AllProtectors
    /\ erased \subseteq AllProtectors
    /\ destroyed \in BOOLEAN
    /\ op \in [Openers -> Opens]
    /\ accepted \in [Spaces -> [PacketNumbers -> Nat]]

\* CommitPreparedOpen accepts a packet number of a space at most once for as
\* long as the space's replay state is kept, however the opens interleave and
\* however far the ring has slid since the packet was first checked.
AcceptedOnce == \A s \in Spaces, n \in PacketNumbers : accepted[s][n] <= 1

\* Number k can still be represented in window w.
InWindow(w, k) == k <= w.highest /\ w.highest - k <= WindowSize

\* Window w records exactly the numbers that acc counts as accepted.
Exact(w, acc) ==
    \A k \in PacketNumbers :
        /\ k > w.highest => acc[k] = 0
        /\ InWindow(w, k) => (Contains(w, k) <=> acc[k] = 1)

\* The ring forgets and invents nothing: inside the window a slot is set
\* exactly when its number was accepted, and nothing above it was accepted.
RingExact ==
    \A s \in Spaces :
        IF windows[s] = None THEN \A n \in PacketNumbers : accepted[s][n] = 0
        ELSE Exact(windows[s], accepted[s])

\* AEAD state is never zeroed under an open that is using it: replacing,
\* forgetting or destroying a protector waits for its last releaseProtector.
PinnedNotErased ==
    \A o \in Openers : op[o].pc \in Pinning => op[o].protector \notin erased

\* Traffic keys do not outlive their owner: a protector that is no longer
\* cached is erased, or retired and pinned by an open that will erase it.
NoOrphanedKeys ==
    /\ \A p \in Protectors :
          key[p] # None /\ (\A s \in Spaces : cached[s] # p) => p \in erased \cup retired
    /\ destroyed => Base \in erased \cup retired
    /\ \A p \in retired : Users(p) # {}

\* The ring bitmap implements the abstract window.
RingNumbers(s) ==
    IF windows[s] = None THEN {}
    ELSE {n \in PacketNumbers : InWindow(windows[s], n) /\ Contains(windows[s], n)}

Abstract == INSTANCE PacketWindow WITH
    highest <- [s \in Spaces |-> IF windows[s] = None THEN None ELSE windows[s].highest],
    seen <- [s \in Spaces |-> RingNumbers(s)],
    closed <- destroyed

\* Each step of the receiver is an accept, forget or close of PacketWindow, or
\* leaves the accepted numbers alone.
ImplementsWindow == Abstract!Spec
=============================================================================
