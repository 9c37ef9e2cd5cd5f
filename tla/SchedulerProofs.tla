-------------------------- MODULE SchedulerProofs --------------------------
(***************************************************************************)
(* The scheduler starves no class, for every burst length of at least two, *)
(* every buffer limit and every chunk length.                              *)
(*                                                                         *)
(* NoStarvation bounds waited, which no action looks at, so it is not      *)
(* inductive.  Waiting ties waited to the counters the scheduler decides   *)
(* by.  For interactive data the difference waited - passedOver counts the *)
(* claims of bulk: after the first one bulk trails interactive, so that a  *)
(* second claim means interactive is itself due next.                      *)
(***************************************************************************)
EXTENDS Scheduler, SequenceTheorems, TLAPS

\* An empty queue has nothing waiting and nothing passed over.
EmptyIsFresh ==
  \A c \in Classes : ~Holds(c) => passedOver[c] = 0 /\ waited[c] = 0

\* No class is passed over more often than a burst.
BurstBounded ==
  \A c \in Classes : passedOver[c] <= MaximumPriorityBurst

RealtimeWaits ==
  \/ waited[0] = 0
  \/ waited[0] = 1 /\ (passedOver[1] = 0 \/ passedOver[2] = 0)
  \/ waited[0] = 2 /\ passedOver[1] = 0 /\ passedOver[2] <= 1

InteractiveWaits ==
  \/ waited[1] = passedOver[1]
  \/ waited[1] = passedOver[1] + 1 /\ passedOver[2] <= passedOver[1]
  \/ /\ waited[1] = passedOver[1] + 2
     /\ passedOver[1] = MaximumPriorityBurst /\ passedOver[2] = 0

BulkWaits == waited[2] = passedOver[2]

Waiting == RealtimeWaits /\ InteractiveWaits /\ BulkWaits

Inv == TypeOK /\ EmptyIsFresh /\ BurstBounded /\ Waiting

\* The initial queues are empty.
LEMMA InitInv == Init => Inv
  BY SchedulerAssumption
     DEF Init, Inv, TypeOK, EmptyIsFresh, BurstBounded, Waiting, RealtimeWaits,
         InteractiveWaits, BulkWaits, Classes, Holds

\* Enqueue changes no counter and empties no queue.
LEMMA EnqueueInv ==
    ASSUME Inv, NEW c \in Classes, NEW n \in Lengths, Enqueue(c, n)
    PROVE  Inv'
  <1> USE SchedulerAssumption DEF Inv, Enqueue
  <1>1. TypeOK'
    BY DEF TypeOK, Fits
  <1>2. \A d \in Classes : ~Holds(d)' => ~Holds(d)
    BY DEF TypeOK, Holds
  <1>3. EmptyIsFresh'
    BY <1>2 DEF EmptyIsFresh
  <1>4. BurstBounded' /\ Waiting'
    BY DEF BurstBounded, Waiting, RealtimeWaits, InteractiveWaits, BulkWaits
  <1> QED
    BY <1>1, <1>3, <1>4

\* Serving a class: the counters stay within the burst, and the waits follow them.
LEMMA DequeueInv ==
    ASSUME Inv, NEW c \in Classes, Dequeue(c)
    PROVE  Inv'
  <1> USE SchedulerAssumption DEF Inv
  <1>1. Holds(c)
    BY DEF Dequeue, Serves, Starved, Highest
  <1>2. Head(queue[c]) \in Nat /\ Tail(queue[c]) \in Seq(Lengths)
    <2>1. queue[c] \in Seq(Lengths) /\ queue[c] # << >>
      BY <1>1 DEF TypeOK, Holds
    <2>2. Head(queue[c]) \in Lengths /\ Tail(queue[c]) \in Seq(Lengths)
      BY <2>1, HeadTailProperties
    <2> QED
      BY <2>2, Zenon
  <1>3. /\ passedOver' = Counted(c)
        /\ waited' = [d \in Classes |-> IF d = c \/ ~Holds(d) THEN 0 ELSE waited[d] + 1]
        /\ queue' = [queue EXCEPT ![c] = Tail(@)]
        /\ bufferedBytes' = bufferedBytes - Head(queue[c])
    BY DEF Dequeue
  <1>4. passedOver' \in [Classes -> Nat] /\ waited' \in [Classes -> Nat]
    BY <1>3 DEF TypeOK, Counted
  <1>5. queue' \in [Classes -> Seq(Lengths)]
    BY <1>2, <1>3 DEF TypeOK
  <1>6. bufferedBytes' \in Int /\ bufferedBytes' <= bufferedBytes
    BY <1>2, <1>3 DEF TypeOK
  <1>7. TypeOK'
    BY <1>4, <1>5, <1>6 DEF TypeOK
  <1>8. \A d \in Classes : d # c => (Holds(d)' <=> Holds(d))
    BY <1>3 DEF TypeOK, Holds
  <1>9. \A d \in Classes :
          /\ passedOver'[d] = IF d = c THEN 0
                              ELSE IF d > c /\ Holds(d) THEN passedOver[d] + 1
                              ELSE passedOver[d]
          /\ waited'[d] = IF d = c \/ ~Holds(d) THEN 0 ELSE waited[d] + 1
    BY <1>3 DEF Counted
  <1>10. EmptyIsFresh'
    BY <1>8, <1>9 DEF TypeOK, EmptyIsFresh
  <1>11. \A d \in Classes : d > c /\ Holds(d) => passedOver[d] < MaximumPriorityBurst
    <2>1. Serves(c)
      BY DEF Dequeue
    <2>2. \A d \in Classes : d > c => ~Starved(d)
      BY <2>1 DEF Serves
    <2> QED
      BY <2>2 DEF TypeOK, Starved
  <1>12. BurstBounded'
    BY <1>9, <1>11 DEF TypeOK, BurstBounded, Classes
  <1>13. \A d \in Classes : d < c /\ Holds(d) => passedOver[c] = MaximumPriorityBurst
    <2> SUFFICES ASSUME NEW d \in Classes, d < c, Holds(d)
                 PROVE  passedOver[c] = MaximumPriorityBurst
      OBVIOUS
    <2>1. ~Highest(c)
      BY DEF Highest
    <2>2. Starved(c)
      BY <2>1 DEF Dequeue, Serves
    <2> QED
      BY <2>2 DEF Starved, TypeOK, BurstBounded
  <1>14. \A d \in Classes :
           /\ passedOver[d] \in Nat /\ waited[d] \in Nat
           /\ passedOver[d] <= MaximumPriorityBurst
           /\ ~Holds(d) => passedOver[d] = 0 /\ waited[d] = 0
    BY DEF TypeOK, BurstBounded, EmptyIsFresh
  <1>15. 0 \in Classes /\ 1 \in Classes /\ 2 \in Classes
    BY DEF Classes
  <1> HIDE DEF Inv
  <1>16. Waiting
    BY DEF Inv
  <1>17. CASE c = 0
    <2>1. /\ passedOver'[0] = 0
          /\ passedOver'[1] = IF Holds(1) THEN passedOver[1] + 1 ELSE passedOver[1]
          /\ passedOver'[2] = IF Holds(2) THEN passedOver[2] + 1 ELSE passedOver[2]
          /\ waited'[0] = 0
          /\ waited'[1] = IF Holds(1) THEN waited[1] + 1 ELSE 0
          /\ waited'[2] = IF Holds(2) THEN waited[2] + 1 ELSE 0
      BY <1>9, <1>15, <1>17
    <2>2. RealtimeWaits'
      BY <2>1, <1>11, <1>13, <1>14, <1>15, <1>16, <1>17
         DEF Waiting, RealtimeWaits
    <2>3. InteractiveWaits'
      BY <2>1, <1>11, <1>13, <1>14, <1>15, <1>16, <1>17
         DEF Waiting, InteractiveWaits
    <2>4. BulkWaits'
      BY <2>1, <1>11, <1>14, <1>15, <1>16, <1>17 DEF Waiting, BulkWaits
    <2> QED
      BY <2>2, <2>3, <2>4, <1>7, <1>10, <1>12 DEF Inv, Waiting
  <1>18. CASE c = 1
    <2>1. /\ passedOver'[0] = passedOver[0]
          /\ passedOver'[1] = 0
          /\ passedOver'[2] = IF Holds(2) THEN passedOver[2] + 1 ELSE passedOver[2]
          /\ waited'[0] = IF Holds(0) THEN waited[0] + 1 ELSE 0
          /\ waited'[1] = 0
          /\ waited'[2] = IF Holds(2) THEN waited[2] + 1 ELSE 0
      BY <1>9, <1>15, <1>18
    <2>2. RealtimeWaits'
      BY <2>1, <1>11, <1>13, <1>14, <1>15, <1>16, <1>18
         DEF Waiting, RealtimeWaits
    <2>3. InteractiveWaits'
      BY <2>1, <1>11, <1>13, <1>14, <1>15, <1>16, <1>18
         DEF Waiting, InteractiveWaits
    <2>4. BulkWaits'
      BY <2>1, <1>11, <1>14, <1>15, <1>16, <1>18 DEF Waiting, BulkWaits
    <2> QED
      BY <2>2, <2>3, <2>4, <1>7, <1>10, <1>12 DEF Inv, Waiting
  <1>19. CASE c = 2
    <2>1. /\ passedOver'[0] = passedOver[0]
          /\ passedOver'[1] = passedOver[1]
          /\ passedOver'[2] = 0
          /\ waited'[0] = IF Holds(0) THEN waited[0] + 1 ELSE 0
          /\ waited'[1] = IF Holds(1) THEN waited[1] + 1 ELSE 0
          /\ waited'[2] = 0
      BY <1>9, <1>15, <1>19
    <2>2. RealtimeWaits'
      BY <2>1, <1>11, <1>13, <1>14, <1>15, <1>16, <1>19
         DEF Waiting, RealtimeWaits
    <2>3. InteractiveWaits'
      BY <2>1, <1>11, <1>13, <1>14, <1>15, <1>16, <1>19
         DEF Waiting, InteractiveWaits
    <2>4. BulkWaits'
      BY <2>1, <1>11, <1>14, <1>15, <1>16, <1>19 DEF Waiting, BulkWaits
    <2> QED
      BY <2>2, <2>3, <2>4, <1>7, <1>10, <1>12 DEF Inv, Waiting
  <1> QED
    BY <1>17, <1>18, <1>19 DEF Classes

\* Inv is inductive.
THEOREM Invariance == Spec => []Inv
  <1>1. Inv /\ [Next]_vars => Inv'
    <2> SUFFICES ASSUME Inv, [Next]_vars PROVE Inv'
      OBVIOUS
    <2>1. CASE UNCHANGED vars
      BY <2>1 DEF vars, Inv, TypeOK, EmptyIsFresh, BurstBounded, Waiting, RealtimeWaits,
                  InteractiveWaits, BulkWaits, Holds
    <2>2. CASE Next
      BY <2>2, EnqueueInv, DequeueInv DEF Next
    <2> QED
      BY <2>1, <2>2
  <1> QED
    BY <1>1, InitInv, PTL DEF Spec

\* The buffer limit of Enqueue holds in every reachable state.
THEOREM TypeCorrect == Spec => []TypeOK
  BY Invariance, PTL DEF Inv

\* Next serves every class that holds data within the bounds of NoStarvation,
\* whatever is enqueued in the meantime (nextQueueIndex).
THEOREM StarvationFree == Spec => []NoStarvation
  <1>1. Inv => NoStarvation
    BY SchedulerAssumption
       DEF Inv, TypeOK, BurstBounded, Waiting, RealtimeWaits, InteractiveWaits,
           BulkWaits, NoStarvation, Classes
  <1> QED
    BY <1>1, Invariance, PTL
=============================================================================
