------------------------------ MODULE Scheduler ------------------------------
(***************************************************************************)
(* The priority scheduler of flow/scheduler.go: three queues, realtime     *)
(* before interactive before bulk, and a counter per queue of how often a  *)
(* higher class was served while that queue held data.                     *)
(*                                                                         *)
(* A chunk is its length.  waited is a history variable: how many chunks   *)
(* of the other classes were served since the queue last was served or     *)
(* became non-empty.                                                       *)
(***************************************************************************)
EXTENDS Integers, Sequences, SequencesExt

CONSTANTS
  MaximumPriorityBurst,   \* maximumPriorityBurst
  MaxBufferedBytes,       \* SchedulerOptions.MaxBufferedBytes; 0 is no limit
  Lengths                 \* the chunk lengths callers use

ASSUME SchedulerAssumption ==
  /\ MaximumPriorityBurst \in Nat /\ MaximumPriorityBurst >= 2
  /\ MaxBufferedBytes \in Nat
  /\ Lengths \subseteq Nat \ {0}

VARIABLES queue, bufferedBytes, passedOver, waited

vars == <<queue, bufferedBytes, passedOver, waited>>

\* queueAt: 0 is realtime, 1 interactive, 2 bulk.
Classes == 0..2

Init ==
  /\ queue = [c \in Classes |-> <<>>]
  /\ bufferedBytes = 0
  /\ passedOver = [c \in Classes |-> 0]
  /\ waited = [c \in Classes |-> 0]

Holds(c) == queue[c] # <<>>

\* The buffer limit of Enqueue.
Fits(n) == MaxBufferedBytes = 0 \/ n <= MaxBufferedBytes - bufferedBytes

Enqueue(c, n) ==
  /\ Fits(n)
  /\ queue' = [queue EXCEPT ![c] = Append(@, n)]
  /\ bufferedBytes' = bufferedBytes + n
  /\ UNCHANGED <<passedOver, waited>>

\* nextQueueIndex: the lowest class that is starved, or else the highest class
\* that holds data.
Starved(c) == passedOver[c] >= MaximumPriorityBurst /\ Holds(c)

Highest(c) == Holds(c) /\ \A d \in Classes : d < c => ~Holds(d)

\* Mutant: strict priorities, nobody is ever starved.
StrictPriority(c) == Highest(c)

Serves(c) ==
  IF \E d \in Classes : Starved(d)
  THEN Starved(c) /\ \A d \in Classes : d > c => ~Starved(d)
  ELSE Highest(c)

\* The counters Next leaves: the class served starts again, every lower class that
\* holds data was passed over once more.
Counted(c) ==
  [d \in Classes |-> IF d = c THEN 0
                     ELSE IF d > c /\ Holds(d) THEN passedOver[d] + 1
                     ELSE passedOver[d]]

\* Next of the scheduler, serving class c.
Dequeue(c) ==
  /\ Serves(c)
  /\ queue' = [queue EXCEPT ![c] = Tail(@)]
  /\ bufferedBytes' = bufferedBytes - Head(queue[c])
  /\ passedOver' = Counted(c)
  /\ waited' = [d \in Classes |-> IF d = c \/ ~Holds(d) THEN 0 ELSE waited[d] + 1]

Next ==
  \/ \E c \in Classes, n \in Lengths : Enqueue(c, n)
  \/ \E c \in Classes : Dequeue(c)

Spec == Init /\ [][Next]_vars

(***************************************************************************)
(* Properties                                                              *)
(***************************************************************************)
\* The state stays within its types, and the buffer within its limit.
TypeOK ==
  /\ queue \in [Classes -> Seq(Lengths)]
  /\ bufferedBytes \in Int
  /\ MaxBufferedBytes > 0 => bufferedBytes <= MaxBufferedBytes
  /\ passedOver \in [Classes -> Nat]
  /\ waited \in [Classes -> Nat]

\* No class is shut out (nextQueueIndex): data at the head of a queue waits for at
\* most a burst of higher classes; interactive data may also wait for two claims
\* of bulk, realtime data for one claim of each lower class.
NoStarvation ==
  /\ waited[0] <= 2
  /\ waited[1] <= MaximumPriorityBurst + 2
  /\ waited[2] <= MaximumPriorityBurst
=============================================================================
