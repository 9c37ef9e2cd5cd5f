-------------------------- MODULE ReceiverProofs --------------------------
(***************************************************************************)
(* Proofs about Receiver, for every window size, every set of packet       *)
(* numbers and every number of concurrent opens.                           *)
(*                                                                         *)
(* Part 1: a packet number is accepted at most once.  The invariant that   *)
(* makes this inductive is RingExact, that the ring bitmap says exactly    *)
(* what was accepted inside the window; it rests on SlotUnique, that two   *)
(* numbers less than WindowBits apart never share a slot.                  *)
(* Part 2: traffic keys are erased neither too early nor never.  The       *)
(* invariant counts, for every protector, the opens that hold it.          *)
(* Part 3: the receiver implements PacketWindow.  Because the ring is      *)
(* exact, the numbers it records are the accepted ones (RecordedAccepted). *)
(***************************************************************************)
EXTENDS Receiver, FiniteSetTheorems, TLAPS

---------------------------------------------------------------------------
(* The slots of the ring.                                                  *)

\* A slot number is below the modulus (the index computed in contains, set
\* and advance).
LEMMA SlotRange ==
    ASSUME NEW a \in Nat, NEW B \in Nat \ {0}
    PROVE  a % B \in 0 .. (B - 1)
  OBVIOUS

\* Two multiples of B less than B apart are the same multiple.
LEMMA SameMultiple ==
    ASSUME NEW B \in Nat \ {0}, NEW q \in Int, NEW r \in Int,
           B * q - B * r >= 0, B * q - B * r < B
    PROVE  q = r
  <1>1. CASE q >= r + 1
    <2>1. B * q >= B * (r + 1)
      BY <1>1
    <2> QED
      BY <2>1, <1>1
  <1>2. CASE q <= r - 1
    <2>1. B * q <= B * (r - 1)
      BY <1>2
    <2> QED
      BY <2>1, <1>2
  <1> QED
    BY <1>1, <1>2

\* Two numbers less than B apart share a slot only when they are equal: the
\* reason a ring of WindowSize + 1 slots can stand for the window.
LEMMA SlotUnique ==
    ASSUME NEW a \in Nat, NEW b \in Nat, NEW B \in Nat \ {0},
           a % B = b % B, a >= b, a - b < B
    PROVE  a = b
  <1> DEFINE q == a \div B
             r == b \div B
  <1>1. q \in Int /\ r \in Int
    OBVIOUS
  <1>2. a = B * q + (a % B) /\ b = B * r + (b % B)
    OBVIOUS
  <1>3. a % B \in Int
    BY SlotRange
  <1> HIDE DEF q, r
  <1>4. B * q \in Int /\ B * r \in Int
    BY <1>1
  <1>5. B * q - B * r = a - b
    BY <1>2, <1>3, <1>4
  <1>6. q = r
    BY <1>5, <1>1, SameMultiple
  <1> QED
    BY <1>2, <1>3, <1>6

\* The same for the receiver's modulus, in either order.
LEMMA RingSlots ==
    ASSUME NEW a \in Nat, NEW b \in Nat,
           a % WindowBits = b % WindowBits, a - b <= WindowSize, b - a <= WindowSize
    PROVE  a = b
  <1>1. WindowBits \in Nat \ {0} /\ WindowBits = WindowSize + 1
    BY WindowAssumption DEF WindowBits
  <1>2. CASE a >= b
    <2>1. a - b < WindowBits
      BY <1>1, <1>2, WindowAssumption
    <2> QED
      BY <1>1, <1>2, <2>1, SlotUnique
  <1>3. CASE b >= a
    <2>1. b - a < WindowBits
      BY <1>1, <1>3, WindowAssumption
    <2> QED
      BY <1>1, <1>3, <2>1, SlotUnique
  <1> QED
    BY <1>2, <1>3

---------------------------------------------------------------------------
(* Part 1.  Replay.                                                        *)

\* An open that has begun carries a space, a number and, while it pins one,
\* a protector.
OpOK ==
    \A o \in Openers :
        /\ op[o].pc # "idle" => op[o].space \in Spaces /\ op[o].pn \in PacketNumbers
        /\ op[o].pc \in Pinning => op[o].protector \in AllProtectors

Typed == TypeOK /\ OpOK

\* The window after an accept is well formed.
LEMMA MarkTyped ==
    ASSUME Typed, NEW s \in Spaces, NEW n \in PacketNumbers
    PROVE  Mark(s, n) \in Windows
  <1> USE WindowAssumption, PacketNumberAssumption
  <1>1. \A k \in Nat : k % WindowBits \in 0 .. WindowSize
    BY SlotRange DEF WindowBits
  <1>2. ASSUME NEW w \in Windows PROVE Set(w, n) \in Windows
    BY <1>1 DEF Set, Windows
  <1>3. ASSUME NEW w \in Windows PROVE Advance(w, n) \in Windows
    BY DEF Advance, Windows
  <1>4. [highest |-> n, bits |-> {}] \in Windows
    BY DEF Windows
  <1>5. windows[s] \in Windows \cup {None}
    BY DEF Typed, TypeOK
  <1> QED
    BY <1>2, <1>3, <1>4, <1>5 DEF Mark

\* A window is not nil.
LEMMA WindowNotNone ==
    ASSUME NEW w \in Windows PROVE w # None
  <1>1. w \in [highest : PacketNumbers, bits : SUBSET (0 .. WindowSize)]
    BY DEF Windows
  <1>2. PacketNumbers \subseteq Nat /\ SUBSET (0 .. WindowSize) \subseteq SUBSET Nat
    BY PacketNumberAssumption, WindowAssumption
  <1>3. w \in [highest : Nat, bits : SUBSET Nat]
    BY <1>1, <1>2, Zenon
  <1> QED
    BY <1>3, NoneAssumption

\* Typed is an invariant of the receiver.
THEOREM TypedInvariant == Spec => []Typed
  <1> USE WindowAssumption, PacketNumberAssumption, NoneAssumption, ProtectorAssumption
  <1>1. Init => Typed
    <2> SUFFICES ASSUME Init PROVE TypeOK /\ OpOK
      BY DEF Typed
    <2>1. TypeOK
      BY Zenon DEF Init, TypeOK, Idle, Opens, Points, AllProtectors
    <2>2. OpOK
      BY DEF Init, OpOK, Idle, Pinning
    <2> QED
      BY <2>1, <2>2
  <1>2. Typed /\ [Next]_vars => Typed'
    <2> SUFFICES ASSUME Typed, [Next]_vars PROVE Typed'
      OBVIOUS
    <2> USE DEF Typed, TypeOK, OpOK
    <2>1. ASSUME NEW o \in Openers, NEW s \in Spaces, NEW n \in PacketNumbers, AcquireBase(o, s, n)
          PROVE  Typed'
      BY <2>1 DEF AcquireBase, Acquire, AllProtectors, Opens, Points, Pinning
    <2>2. ASSUME NEW o \in Openers, NEW s \in Spaces, NEW n \in PacketNumbers,
                 NEW m \in Materials, AcquireCached(o, s, n, m)
          PROVE  Typed'
      BY <2>2 DEF AcquireCached, HasProtector, Acquire, AllProtectors, Opens, Points, Pinning
    <2>3. ASSUME NEW o \in Openers, NEW s \in Spaces, NEW n \in PacketNumbers,
                 NEW m \in Materials, NEW p \in Protectors, AcquireNew(o, s, n, m, p)
          PROVE  Typed'
      BY <2>3 DEF AcquireNew, Retire, Cached, Acquire, AllProtectors, Opens, Points, Pinning
    <2>4. ASSUME NEW o \in Openers, NEW s \in Spaces, NEW m \in Materials, AcquireRefused(o, s, m)
          PROVE  Typed'
      BY <2>4 DEF AcquireRefused, Retire, Cached, AllProtectors
    <2>5. ASSUME NEW o \in Openers, Check(o) PROVE Typed'
      BY <2>5 DEF Check, GoTo, Opens, Points, Pinning
    <2>6. ASSUME NEW o \in Openers, Decrypt(o) PROVE Typed'
      BY <2>6 DEF Decrypt, GoTo, Opens, Points, Pinning
    <2>7. ASSUME NEW o \in Openers, Recheck(o) PROVE Typed'
      BY <2>7 DEF Recheck, GoTo, Opens, Points, Pinning
    <2>8. ASSUME NEW o \in Openers, Release(o) PROVE Typed'
      <3>1. op[o].protector \in AllProtectors /\ op[o].pc \in {"fail", "done"}
        BY <2>8 DEF Release, Pinning
      <3>2. uses' \in [AllProtectors -> Nat]
        BY <2>8, <3>1 DEF Release
      <3>3. retired' \subseteq AllProtectors /\ erased' \subseteq AllProtectors
        BY <2>8, <3>1 DEF Release
      <3>4. op' \in [Openers -> Opens]
        <4>1. Idle \in Opens
          BY DEF Idle, Opens, Points
        <4>2. Prepared(o) \in Opens
          BY DEF Prepared, Opens, Points
        <4> QED
          BY <2>8, <4>1, <4>2 DEF Release
      <3>5. OpOK'
        <4>1. \A q \in Openers : q # o => op'[q] = op[q]
          BY <2>8 DEF Release
        <4>2. op'[o].pc \in {"idle", "prepared"} /\ (op'[o].pc # "idle" =>
                 op'[o].space = op[o].space /\ op'[o].pn = op[o].pn)
          BY <2>8, <3>1 DEF Release, Idle, Prepared
        <4> QED
          BY <3>1, <4>1, <4>2 DEF Pinning
      <3> QED
        BY <2>8, <3>2, <3>3, <3>4, <3>5 DEF Release
    <2>9. ASSUME NEW o \in Openers, CommitPreparedOpen(o) PROVE Typed'
      <3> DEFINE s == op[o].space
                 n == op[o].pn
      <3>1. s \in Spaces /\ n \in PacketNumbers
        BY <2>9 DEF CommitPreparedOpen
      <3>3. Mark(s, n) \in Windows
        BY <3>1, MarkTyped
      <3>4. windows' \in [Spaces -> Windows \cup {None}]
        BY <2>9, <3>1, <3>3 DEF CommitPreparedOpen
      <3>5. accepted' \in [Spaces -> [PacketNumbers -> Nat]]
        BY <2>9, <3>1 DEF CommitPreparedOpen
      <3> QED
        BY <2>9, <3>4, <3>5 DEF CommitPreparedOpen, Idle, Opens, Points, Pinning
    <2>10. ASSUME NEW o \in Openers, Abandon(o) PROVE Typed'
      BY <2>10 DEF Abandon, Idle, Opens, Points, Pinning
    <2>11. ASSUME NEW s \in Spaces, ForgetPacketNumberSpace(s) PROVE Typed'
      BY <2>11 DEF ForgetPacketNumberSpace, Retire, Cached, AllProtectors
    <2>12. CASE Destroy
      BY <2>12 DEF Destroy, Retire, Cached, AllProtectors
    <2>13. CASE UNCHANGED vars
      BY <2>13 DEF vars
    <2> QED
      BY <2>1, <2>2, <2>3, <2>4, <2>5, <2>6, <2>7, <2>8, <2>9, <2>10, <2>11, <2>12, <2>13, Zenon
      DEF Next, OpenStep
  <1> QED
    BY <1>1, <1>2, PTL DEF Spec

\* The first number of a space: a fresh window with one slot set.
LEMMA MarkFirst ==
    ASSUME NEW n \in PacketNumbers, NEW acc, acc \in [PacketNumbers -> Nat],
           \A k \in PacketNumbers : acc[k] = 0
    PROVE  Exact(Set([highest |-> n, bits |-> {}], n), [acc EXCEPT ![n] = @ + 1])
  <1> USE PacketNumberAssumption, WindowAssumption
  <1> DEFINE w == Set([highest |-> n, bits |-> {}], n)
             next == [acc EXCEPT ![n] = @ + 1]
  <1>1. w.highest = n /\ w.bits = {n % WindowBits}
    BY DEF Set
  <1>2. \A k \in PacketNumbers : next[k] = IF k = n THEN 1 ELSE 0
    OBVIOUS
  <1>3. ASSUME NEW k \in PacketNumbers, InWindow(w, k), k % WindowBits = n % WindowBits
        PROVE  k = n
    <2>1. n - k <= WindowSize /\ k - n <= WindowSize
      BY <1>1, <1>3 DEF InWindow
    <2> QED
      BY <1>3, <2>1, RingSlots
  <1> HIDE DEF w, next
  <1>4. Exact(w, next)
    BY <1>1, <1>2, <1>3 DEF Exact, Contains
  <1> QED
    BY <1>4 DEF w, next

\* A number above the highest one: advance clears exactly the slots that
\* newly enter the window, so the older numbers keep their marks.
LEMMA MarkAbove ==
    ASSUME NEW w \in Windows, NEW n \in PacketNumbers, n > w.highest,
           NEW acc, acc \in [PacketNumbers -> Nat], Exact(w, acc)
    PROVE  Exact(Set(Advance(w, n), n), [acc EXCEPT ![n] = @ + 1])
  <1> USE PacketNumberAssumption, WindowAssumption
  <1> DEFINE v == Set(Advance(w, n), n)
             next == [acc EXCEPT ![n] = @ + 1]
             cleared == {k % WindowBits : k \in (w.highest + 1) .. n}
             kept == IF n - w.highest >= WindowBits THEN {} ELSE w.bits \ cleared
  <1>1. v.highest = n /\ v.bits = kept \cup {n % WindowBits}
    BY DEF Set, Advance
  <1>2. w.highest \in Nat /\ n \in Nat /\ WindowBits = WindowSize + 1
    BY Zenon DEF Windows, WindowBits
  <1>3. acc[n] = 0
    BY DEF Exact
  <1>4. next[n] = 1 /\ \A k \in PacketNumbers : k # n => next[k] = acc[k]
    BY <1>3
  <1>5. ASSUME NEW k \in PacketNumbers, k > n PROVE next[k] = 0
    <2>1. k > w.highest /\ k # n
      BY <1>2, <1>5
    <2> QED
      BY <1>4, <2>1 DEF Exact
  <1> HIDE DEF v, next
  <1>6. ASSUME NEW k \in PacketNumbers, k <= n, n - k <= WindowSize
        PROVE  k % WindowBits \in v.bits <=> next[k] = 1
    <2>1. CASE k = n
      BY <1>1, <1>4, <2>1
    <2>2. ASSUME k # n PROVE k % WindowBits # n % WindowBits
      <3>1. k - n <= WindowSize
        BY <1>6, <1>2
      <3> QED
        BY <1>6, <2>2, <3>1, RingSlots
    <2>3. CASE k # n /\ k > w.highest
      <3>1. k % WindowBits \notin kept
        <4>1. k \in (w.highest + 1) .. n
          BY <1>2, <1>6, <2>3
        <4> QED
          BY <4>1
      <3>2. acc[k] = 0
        BY <2>3 DEF Exact
      <3> QED
        BY <1>1, <1>4, <2>2, <2>3, <3>1, <3>2
    <2>4. CASE k <= w.highest
      <3>1. InWindow(w, k) /\ n - w.highest < WindowBits /\ k # n
        BY <1>2, <1>6, <2>4 DEF InWindow
      <3>2. k % WindowBits \notin cleared
        <4> SUFFICES ASSUME NEW j \in (w.highest + 1) .. n, j % WindowBits = k % WindowBits
                     PROVE  FALSE
          OBVIOUS
        <4>1. j \in Nat /\ j - k <= WindowSize /\ k - j <= WindowSize /\ j # k
          BY <1>2, <1>6, <2>4
        <4> QED
          BY <4>1, RingSlots
      <3>3. k % WindowBits \in kept <=> acc[k] = 1
        <4>1. kept = w.bits \ cleared
          <5>1. ~(n - w.highest >= WindowBits)
            BY <1>2, <3>1
          <5> QED
            BY <5>1
        <4> HIDE DEF kept, cleared
        <4>2. k % WindowBits \in w.bits <=> acc[k] = 1
          BY <3>1 DEF Exact, Contains
        <4> QED
          BY <4>1, <4>2, <3>2
      <3> QED
        BY <1>1, <1>4, <2>2, <3>1, <3>3, Zenon
    <2>5. k \in Nat
      OBVIOUS
    <2> HIDE DEF kept, cleared
    <2>6. k = n \/ (k # n /\ k > w.highest) \/ k <= w.highest
      BY <1>2, <2>5
    <2> QED
      BY <2>1, <2>3, <2>4, <2>6
  <1> QED
    BY <1>1, <1>2, <1>5, <1>6, Zenon DEF Exact, Contains, InWindow, v, next

\* A number inside the window: one more slot is set and no other is touched.
LEMMA MarkInside ==
    ASSUME NEW w \in Windows, NEW n \in PacketNumbers, InWindow(w, n), ~Contains(w, n),
           NEW acc, acc \in [PacketNumbers -> Nat], Exact(w, acc), acc[n] <= 1
    PROVE  acc[n] = 0 /\ Exact(Set(w, n), [acc EXCEPT ![n] = @ + 1])
  <1> USE PacketNumberAssumption, WindowAssumption
  <1> DEFINE v == Set(w, n)
             next == [acc EXCEPT ![n] = @ + 1]
  <1>1. v.highest = w.highest /\ v.bits = w.bits \cup {n % WindowBits} /\ w.highest \in Nat
    BY DEF Set, Windows
  <1>2. acc[n] = 0
    BY DEF Exact
  <1>3. next[n] = 1 /\ \A k \in PacketNumbers : k # n => next[k] = acc[k]
    BY <1>2
  <1>4. ASSUME NEW k \in PacketNumbers, InWindow(w, k), k # n
        PROVE  k % WindowBits # n % WindowBits
    <2>1. n - k <= WindowSize /\ k - n <= WindowSize
      BY <1>1, <1>4 DEF InWindow
    <2> QED
      BY <1>4, <2>1, RingSlots
  <1> HIDE DEF v, next
  <1>5. ASSUME NEW k \in PacketNumbers, k > w.highest PROVE next[k] = 0
    BY <1>1, <1>3, <1>5 DEF Exact, InWindow
  <1>6. ASSUME NEW k \in PacketNumbers, InWindow(w, k)
        PROVE  k % WindowBits \in v.bits <=> next[k] = 1
    BY <1>1, <1>3, <1>4, <1>6 DEF Exact, Contains
  <1>7. Exact(v, next)
    BY <1>1, <1>5, <1>6 DEF Exact, Contains, InWindow
  <1> QED
    BY <1>2, <1>7 DEF v, next

ReplayInv == Typed /\ RingExact /\ AcceptedOnce

\* CommitPreparedOpen accepts only a number that was not accepted before and
\* leaves the ring exact.
LEMMA CommitExact ==
    ASSUME ReplayInv, NEW s \in Spaces, NEW n \in PacketNumbers, CheckPacketNumber(s, n)
    PROVE  /\ accepted[s][n] = 0
           /\ Exact(Mark(s, n), [accepted[s] EXCEPT ![n] = @ + 1])
  <1> USE PacketNumberAssumption, WindowAssumption DEF ReplayInv, Typed, TypeOK
  <1>1. accepted[s] \in [PacketNumbers -> Nat] /\ accepted[s][n] <= 1
    BY DEF AcceptedOnce
  <1>2. CASE windows[s] = None
    BY <1>1, <1>2, MarkFirst, Zenon DEF RingExact, Mark
  <1>3. CASE windows[s] # None
    <2> HIDE DEF ReplayInv
    <2>1. windows[s] \in Windows /\ Exact(windows[s], accepted[s])
      BY <1>3 DEF RingExact, ReplayInv
    <2>2. CASE n > windows[s].highest
      BY <1>1, <1>3, <2>1, <2>2, MarkAbove DEF Mark, Exact
    <2>3. CASE ~(n > windows[s].highest)
      <3>1. windows[s].highest - n <= WindowSize /\ ~Contains(windows[s], n)
        BY <1>3, <2>3 DEF CheckPacketNumber
      <3>2. InWindow(windows[s], n) /\ ~(windows[s].highest - n > WindowSize)
        <4>1. windows[s].highest \in Nat /\ n \in Nat
          BY <2>1 DEF Windows
        <4> QED
          BY <2>3, <3>1, <4>1 DEF InWindow
      <3>3. Mark(s, n) = Set(windows[s], n)
        BY <1>3, <2>3, <3>2 DEF Mark
      <3> QED
        BY <1>1, <2>1, <3>1, <3>2, <3>3, MarkInside
    <2> QED
      BY <2>2, <2>3
  <1> QED
    BY <1>2, <1>3

\* A packet number of a space is accepted at most once while the space's
\* replay state is kept, and the ring bitmap never loses or invents a number:
\* checkPacketNumberKeyLocked and markPacketNumberKeyLocked under one lock.
THEOREM ReplaySafe == Spec => [](AcceptedOnce /\ RingExact)
  <1> USE PacketNumberAssumption, WindowAssumption, NoneAssumption
  <1>1. Init => RingExact /\ AcceptedOnce
    BY DEF Init, RingExact, AcceptedOnce
  <1>2. ReplayInv /\ [Next]_vars => (RingExact /\ AcceptedOnce)'
    <2> SUFFICES ASSUME ReplayInv, [Next]_vars PROVE (RingExact /\ AcceptedOnce)'
      OBVIOUS
    <2>1. CASE UNCHANGED <<windows, accepted>>
      BY <2>1 DEF ReplayInv, RingExact, AcceptedOnce, Exact, InWindow, Contains
    <2>2. ASSUME NEW o \in Openers, CommitPreparedOpen(o)
          PROVE  (RingExact /\ AcceptedOnce)'
      <3> DEFINE s == op[o].space
                 n == op[o].pn
      <3>1. s \in Spaces /\ n \in PacketNumbers
        BY <2>2 DEF CommitPreparedOpen, ReplayInv, Typed, OpOK
      <3>2. CASE ~CheckPacketNumber(s, n)
        BY <2>1, <2>2, <3>2 DEF CommitPreparedOpen
      <3>3. CASE CheckPacketNumber(s, n)
        <4>1. accepted[s][n] = 0 /\ Exact(Mark(s, n), [accepted[s] EXCEPT ![n] = @ + 1])
          BY <3>1, <3>3, CommitExact, Zenon
        <4>2. /\ windows' = [windows EXCEPT ![s] = Mark(s, n)]
              /\ accepted' = [accepted EXCEPT ![s] = [accepted[s] EXCEPT ![n] = @ + 1]]
          BY <2>2, <3>3 DEF CommitPreparedOpen
        <4>3. /\ windows \in [Spaces -> Windows \cup {None}]
              /\ accepted \in [Spaces -> [PacketNumbers -> Nat]]
          BY DEF ReplayInv, Typed, TypeOK
        <4>4. /\ windows'[s] = Mark(s, n)
              /\ accepted'[s] = [accepted[s] EXCEPT ![n] = @ + 1]
              /\ \A t \in Spaces : t # s => windows'[t] = windows[t] /\ accepted'[t] = accepted[t]
          BY <3>1, <4>2, <4>3
        <4>5. Mark(s, n) # None
          BY <3>1, MarkTyped, WindowNotNone DEF ReplayInv
        <4>6. RingExact'
          <5>1. ASSUME NEW t \in Spaces, t # s
                PROVE  IF windows'[t] = None THEN \A k \in PacketNumbers : accepted'[t][k] = 0
                       ELSE Exact(windows'[t], accepted'[t])
            BY <4>4, <5>1 DEF ReplayInv, RingExact
          <5>2. windows'[s] # None /\ Exact(windows'[s], accepted'[s])
            BY <4>1, <4>4, <4>5
          <5>3. \A t \in Spaces :
                   IF windows'[t] = None THEN \A k \in PacketNumbers : accepted'[t][k] = 0
                   ELSE Exact(windows'[t], accepted'[t])
            BY <5>1, <5>2, Zenon
          <5> QED
            BY <5>3 DEF RingExact, Exact, InWindow, Contains
        <4>7. AcceptedOnce'
          <5>1. ASSUME NEW k \in PacketNumbers PROVE accepted'[s][k] <= 1
            BY <3>1, <4>1, <4>3, <4>4 DEF ReplayInv, AcceptedOnce
          <5> QED
            BY <4>4, <5>1, Zenon DEF ReplayInv, AcceptedOnce
        <4> QED
          BY <4>5, <4>6, <4>7
      <3> QED
        BY <3>2, <3>3
    <2>3. ASSUME NEW s \in Spaces, ForgetPacketNumberSpace(s)
          PROVE  (RingExact /\ AcceptedOnce)'
      BY <2>3 DEF ForgetPacketNumberSpace, ReplayInv, Typed, TypeOK, RingExact, AcceptedOnce,
                  Exact, InWindow, Contains
    <2>4. CASE Destroy
      BY <2>4 DEF Destroy, RingExact, AcceptedOnce
    <2>5. ASSUME NEW o \in Openers,
                 Check(o) \/ Decrypt(o) \/ Recheck(o) \/ Release(o) \/ Abandon(o)
          PROVE  (RingExact /\ AcceptedOnce)'
      BY <2>1, <2>5 DEF Check, Decrypt, Recheck, Release, Abandon
    <2>6. ASSUME NEW o \in Openers, NEW s \in Spaces, NEW n \in PacketNumbers, AcquireBase(o, s, n)
          PROVE  (RingExact /\ AcceptedOnce)'
      BY <2>1, <2>6 DEF AcquireBase
    <2>7. ASSUME NEW o \in Openers, NEW s \in Spaces, NEW n \in PacketNumbers, NEW m \in Materials,
                 AcquireCached(o, s, n, m) \/ (\E p \in Protectors : AcquireNew(o, s, n, m, p))
                 \/ AcquireRefused(o, s, m)
          PROVE  (RingExact /\ AcceptedOnce)'
      BY <2>1, <2>7 DEF AcquireCached, AcquireNew, AcquireRefused
    <2>8. CASE UNCHANGED vars
      BY <2>1, <2>8 DEF vars
    <2> QED
      BY <2>2, <2>3, <2>4, <2>5, <2>6, <2>7, <2>8, Zenon DEF Next, OpenStep
  <1> QED
    BY <1>1, <1>2, TypedInvariant, PTL DEF Spec, ReplayInv

\* The receiver's maps and the opens in progress are always well typed.
THEOREM TypeCorrect == Spec => []TypeOK
  BY TypedInvariant, PTL DEF Typed

---------------------------------------------------------------------------
(* Part 2.  Ownership of traffic keys.                                     *)

\* protectorUses counts the opens that hold a protector.
PinCount == \A p \in AllProtectors : uses[p] = Cardinality(Users(p))

\* Where a protector can be: cached by one space and live, or retired and in
\* use, or erased and unused; one never allocated is none of these.
Ownership ==
    /\ \A s \in Spaces : cached[s] # None =>
          key[cached[s]] # None /\ cached[s] \notin erased \cup retired
    /\ \A s, t \in Spaces : cached[s] # None /\ cached[s] = cached[t] => s = t
    /\ \A p \in retired : uses[p] # 0 /\ p \notin erased
    /\ \A p \in erased : uses[p] = 0
    /\ \A p \in Protectors : key[p] = None => p \notin erased \cup retired /\ uses[p] = 0
    /\ \A p \in Protectors : key[p] # None /\ (\A s \in Spaces : cached[s] # p) =>
          p \in erased \cup retired
    /\ destroyed <=> Base \in erased \cup retired

KeyInv == Typed /\ PinCount /\ Ownership

\* The opens holding a protector are finitely many.
LEMMA UsersFinite ==
    ASSUME NEW p PROVE IsFiniteSet(Users(p)) /\ Cardinality(Users(p)) \in Nat
  <1>1. Users(p) \subseteq Openers /\ IsFiniteSet(Openers)
    BY ProtectorAssumption DEF Users
  <1>2. IsFiniteSet(Users(p))
    BY <1>1, FS_Subset
  <1> QED
    BY <1>2, FS_CardinalityType

\* acquireProtectorLocked adds one holder and counts it.
LEMMA AcquireCounts ==
    ASSUME Typed, PinCount, NEW o \in Openers, NEW s \in Spaces, NEW n \in PacketNumbers,
           NEW p \in AllProtectors, op[o].pc = "idle", Acquire(o, s, n, p)
    PROVE  PinCount'
  <1> SUFFICES ASSUME NEW q \in AllProtectors PROVE uses'[q] = Cardinality(Users(q)')
    BY DEF PinCount
  <1>1. op'[o].pc = "check" /\ op'[o].protector = p /\ \A r \in Openers : r # o => op'[r] = op[r]
    BY DEF Acquire, Typed, TypeOK
  <1>2. uses[q] = Cardinality(Users(q)) /\ uses'[q] = IF q = p THEN uses[q] + 1 ELSE uses[q]
    BY DEF Acquire, Typed, TypeOK, PinCount
  <1>3. o \notin Users(q)
    BY DEF Users, Pinning
  <1>4. CASE q = p
    <2>1. Users(q)' = Users(q) \cup {o}
      BY <1>1, <1>4 DEF Users, Pinning
    <2>2. Cardinality(Users(q) \cup {o}) = Cardinality(Users(q)) + 1
      BY <1>3, UsersFinite, FS_AddElement, Zenon
    <2> QED
      BY <1>2, <1>4, <2>1, <2>2
  <1>5. CASE q # p
    <2>1. Users(q)' = Users(q)
      BY <1>1, <1>3, <1>5 DEF Users, Pinning
    <2> QED
      BY <1>2, <1>5, <2>1
  <1> QED
    BY <1>4, <1>5

\* A step that moves an open between program points that hold, or between
\* points that do not, changes no count.
LEMMA MoveCounts ==
    ASSUME PinCount, uses' = uses, NEW o \in Openers,
           \A r \in Openers : r # o => op'[r] = op[r],
           op'[o].pc \in Pinning <=> op[o].pc \in Pinning,
           op[o].pc \in Pinning => op'[o].protector = op[o].protector
    PROVE  PinCount'
  <1>1. ASSUME NEW q PROVE Users(q)' = Users(q)
    BY DEF Users, Pinning
  <1> QED
    BY <1>1 DEF PinCount

\* releaseProtector removes one holder and uncounts it.
LEMMA ReleaseCounts ==
    ASSUME Typed, PinCount, NEW o \in Openers, Release(o)
    PROVE  /\ op[o].protector \in AllProtectors
           /\ uses[op[o].protector] \in Nat \ {0}
           /\ PinCount'
  <1> DEFINE p == op[o].protector
  <1>1. p \in AllProtectors /\ o \in Users(p) /\ uses \in [AllProtectors -> Nat]
    BY DEF Release, Typed, TypeOK, OpOK, Users, Pinning
  <1>2. Cardinality(Users(p)) # 0
    BY <1>1, UsersFinite, FS_EmptySet
  <1>3. uses[p] = Cardinality(Users(p)) /\ uses[p] \in Nat \ {0}
    BY <1>1, <1>2 DEF PinCount
  <1>4. \A q \in AllProtectors : uses'[q] = IF q = p THEN uses[q] - 1 ELSE uses[q]
    BY <1>1, <1>3 DEF Release
  <1>5. op'[o].pc \notin Pinning /\ \A r \in Openers : r # o => op'[r] = op[r]
    BY DEF Release, Typed, TypeOK, Idle, Prepared, Pinning
  <1>6. ASSUME NEW q \in AllProtectors PROVE uses'[q] = Cardinality(Users(q)')
    <2>1. CASE q = p
      <3>1. Users(q)' = Users(q) \ {o}
        BY <1>5, <2>1 DEF Users
      <3>2. Cardinality(Users(q) \ {o}) = Cardinality(Users(q)) - 1
        BY <1>1, <2>1, UsersFinite, FS_RemoveElement, Zenon
      <3> QED
        BY <1>3, <1>4, <2>1, <3>1, <3>2
    <2>2. CASE q # p
      <3>1. Users(q)' = Users(q)
        BY <1>5, <2>2 DEF Users
      <3> QED
        BY <1>4, <2>2, <3>1 DEF PinCount
    <2> QED
      BY <2>1, <2>2
  <1> QED
    BY <1>1, <1>3, <1>6 DEF PinCount

\* Every step of the receiver keeps the counts right.
LEMMA CountStep == Typed /\ PinCount /\ [Next]_vars => PinCount'
  <1> SUFFICES ASSUME Typed, PinCount, [Next]_vars PROVE PinCount'
    OBVIOUS
  <1> USE DEF Pinning
  <1>1. ASSUME NEW o \in Openers, NEW s \in Spaces, NEW n \in PacketNumbers, AcquireBase(o, s, n)
        PROVE  PinCount'
    BY <1>1, AcquireCounts DEF AcquireBase, AllProtectors
  <1>2. ASSUME NEW o \in Openers, NEW s \in Spaces, NEW n \in PacketNumbers,
               NEW m \in Materials, AcquireCached(o, s, n, m)
        PROVE  PinCount'
    <2>1. cached[s] \in AllProtectors
      BY <1>2 DEF AcquireCached, HasProtector, Typed, TypeOK, AllProtectors
    <2> QED
      BY <1>2, <2>1, AcquireCounts DEF AcquireCached
  <1>3. ASSUME NEW o \in Openers, NEW s \in Spaces, NEW n \in PacketNumbers,
               NEW m \in Materials, NEW p \in Protectors, AcquireNew(o, s, n, m, p)
        PROVE  PinCount'
    BY <1>3, AcquireCounts DEF AcquireNew, AllProtectors
  <1>4. ASSUME NEW o \in Openers, Check(o) \/ Decrypt(o) \/ Recheck(o) PROVE PinCount'
    BY <1>4, MoveCounts DEF Check, Decrypt, Recheck, GoTo, Typed, TypeOK, Opens
  <1>5. ASSUME NEW o \in Openers, Release(o) PROVE PinCount'
    BY <1>5, ReleaseCounts
  <1>6. ASSUME NEW o \in Openers, CommitPreparedOpen(o) \/ Abandon(o) PROVE PinCount'
    BY <1>6, MoveCounts DEF CommitPreparedOpen, Abandon, Idle, Typed, TypeOK
  <1>7. CASE UNCHANGED <<uses, op>>
    BY <1>7 DEF PinCount, Users
  <1> QED
    BY <1>1, <1>2, <1>3, <1>4, <1>5, <1>6, <1>7
    DEF Next, OpenStep, vars, AcquireRefused, ForgetPacketNumberSpace, Destroy

\* Every step of the receiver keeps each protector where Ownership puts it.
LEMMA OwnershipStep == KeyInv /\ [Next]_vars => Ownership'
  <1> SUFFICES ASSUME KeyInv, [Next]_vars PROVE Ownership'
    OBVIOUS
  <1>0. /\ cached \in [Spaces -> Protectors \cup {None}]
        /\ key \in [Protectors -> Materials \cup {None}]
        /\ uses \in [AllProtectors -> Nat]
        /\ retired \subseteq AllProtectors /\ erased \subseteq AllProtectors
        /\ destroyed \in BOOLEAN /\ Ownership
    BY SMTT(30) DEF KeyInv, Typed, TypeOK
  <1> USE <1>0, NoneAssumption, ProtectorAssumption DEF AllProtectors
  <1>1. ASSUME NEW o \in Openers, NEW s \in Spaces, NEW n \in PacketNumbers, AcquireBase(o, s, n)
        PROVE  Ownership'
    BY <1>1, SMTT(30) DEF AcquireBase, Acquire, Ownership
  <1>2. ASSUME NEW o \in Openers, NEW s \in Spaces, NEW n \in PacketNumbers,
               NEW m \in Materials, AcquireCached(o, s, n, m)
        PROVE  Ownership'
    BY <1>2, SMTT(30) DEF AcquireCached, HasProtector, Acquire, Ownership
  <1>3. ASSUME NEW o \in Openers, NEW s \in Spaces, NEW n \in PacketNumbers,
               NEW m \in Materials, NEW p \in Protectors, AcquireNew(o, s, n, m, p)
        PROVE  Ownership'
    BY <1>3, SMTT(30) DEF AcquireNew, Retire, Cached, Acquire, Ownership
  <1>4. ASSUME NEW o \in Openers, NEW s \in Spaces, NEW m \in Materials, AcquireRefused(o, s, m)
        PROVE  Ownership'
    BY <1>4 DEF AcquireRefused, Retire, Cached, Ownership
  <1>5. ASSUME NEW o \in Openers, Release(o) PROVE Ownership'
    <2> DEFINE p == op[o].protector
    <2>1. p \in AllProtectors /\ uses[p] \in Nat \ {0}
      BY <1>5, ReleaseCounts DEF KeyInv
    <2>2. UNCHANGED <<cached, key, destroyed>>
      BY <1>5 DEF Release
    <2>3. CASE uses[p] <= 1
      <3>1. /\ uses' = [uses EXCEPT ![p] = 0] /\ retired' = retired \ {p}
            /\ erased' = IF p \in retired THEN erased \cup {p} ELSE erased
        BY <1>5, <2>3 DEF Release
      <3> HIDE DEF p
      <3> QED
        BY <2>1, <2>2, <3>1 DEF Ownership
    <2>4. CASE ~(uses[p] <= 1)
      <3>1. /\ uses' = [uses EXCEPT ![p] = @ - 1] /\ retired' = retired
            /\ erased' = erased
        BY <1>5, <2>4 DEF Release
      <3> HIDE DEF p
      <3> QED
        BY <2>1, <2>2, <2>4, <3>1 DEF Ownership
    <2> QED
      BY <2>3, <2>4
  <1>6. ASSUME NEW s \in Spaces, ForgetPacketNumberSpace(s) PROVE Ownership'
    BY <1>6 DEF ForgetPacketNumberSpace, Retire, Cached, Ownership
  <1>7. CASE Destroy
    BY <1>7 DEF Destroy, Retire, Cached, Ownership
  <1>8. CASE UNCHANGED <<cached, key, uses, retired, erased, destroyed>>
    BY <1>8 DEF Ownership
  <1>9. ASSUME NEW o \in Openers,
               Check(o) \/ Decrypt(o) \/ Recheck(o) \/ CommitPreparedOpen(o) \/ Abandon(o)
        PROVE  Ownership'
    <2>1. UNCHANGED <<cached, key, uses, retired, erased, destroyed>>
      BY <1>9 DEF Check, Decrypt, Recheck, CommitPreparedOpen, Abandon
    <2> QED
      BY <1>8, <2>1
  <1>10. CASE UNCHANGED vars
    BY <1>8, <1>10 DEF vars
  <1> QED
    BY <1>1, <1>2, <1>3, <1>4, <1>5, <1>6, <1>7, <1>9, <1>10, Zenon DEF Next, OpenStep

\* Traffic keys are erased neither under an open that is using them nor left
\* behind: acquireProtectorLocked, retireProtectorLocked and releaseProtector.
THEOREM KeysOwned == Spec => [](PinnedNotErased /\ NoOrphanedKeys)
  <1>1. Init => PinCount /\ Ownership
    <2> SUFFICES ASSUME Init PROVE PinCount /\ Ownership
      OBVIOUS
    <2>1. ASSUME NEW p \in AllProtectors PROVE Users(p) = {}
      BY DEF Init, Users, Idle, Pinning
    <2>2. PinCount
      BY <2>1, FS_EmptySet DEF Init, PinCount
    <2>3. Ownership
      BY NoneAssumption DEF Init, Ownership, AllProtectors
    <2> QED
      BY <2>2, <2>3
  <1>2. KeyInv /\ [Next]_vars => (PinCount /\ Ownership)'
    BY CountStep, OwnershipStep DEF KeyInv
  <1>3. KeyInv => PinnedNotErased /\ NoOrphanedKeys
    <2> SUFFICES ASSUME KeyInv PROVE PinnedNotErased /\ NoOrphanedKeys
      OBVIOUS
    <2>1. ASSUME NEW o \in Openers, op[o].pc \in Pinning PROVE op[o].protector \notin erased
      <3>1. op[o].protector \in AllProtectors /\ o \in Users(op[o].protector)
        BY <2>1 DEF KeyInv, Typed, OpOK, Users
      <3>2. Cardinality(Users(op[o].protector)) # 0
        BY <3>1, UsersFinite, FS_EmptySet
      <3> QED
        BY <3>1, <3>2 DEF KeyInv, PinCount, Ownership
    <2>2. ASSUME NEW p \in retired PROVE Users(p) # {}
      BY <2>2, FS_EmptySet, Zenon DEF KeyInv, Typed, TypeOK, PinCount, Ownership
    <2> QED
      BY <2>1, <2>2 DEF PinnedNotErased, NoOrphanedKeys, KeyInv, Ownership
  <1> QED
    BY <1>1, <1>2, <1>3, TypedInvariant, PTL DEF Spec, KeyInv

---------------------------------------------------------------------------
(* Part 3.  The ring implements the abstract window.                       *)

\* The numbers a window records are the accepted ones it can still represent.
LEMMA RecordedAccepted ==
    ASSUME ReplayInv, NEW s \in Spaces
    PROVE  RingNumbers(s) =
             IF windows[s] = None THEN {}
             ELSE {k \in PacketNumbers : InWindow(windows[s], k) /\ accepted[s][k] = 1}
  BY DEF ReplayInv, RingExact, Exact, RingNumbers

\* markPacketNumberKeyLocked moves the highest number to the one accepted when
\* that is above it, and leaves it alone otherwise.
LEMMA MarkHighest ==
    ASSUME Typed, NEW s \in Spaces, NEW n \in PacketNumbers
    PROVE  Mark(s, n).highest = IF windows[s] = None \/ n > windows[s].highest
                                THEN n ELSE windows[s].highest
  <1>1. windows[s] \in Windows \cup {None}
    BY DEF Typed, TypeOK
  <1> QED
    BY <1>1 DEF Mark, Set, Advance, Windows

\* Marking a number that passed the check is an Accept of the abstract window.
LEMMA CommitAccepts ==
    ASSUME ReplayInv, ReplayInv', NEW s \in Spaces, NEW n \in PacketNumbers,
           CheckPacketNumber(s, n),
           windows' = [windows EXCEPT ![s] = Mark(s, n)],
           accepted' = [accepted EXCEPT ![s] = [accepted[s] EXCEPT ![n] = @ + 1]],
           destroyed' = destroyed
    PROVE  Abstract!Accept(s, n)
  <1> USE PacketNumberAssumption, WindowAssumption, NoneAssumption
  <1> DEFINE high == [t \in Spaces |-> IF windows[t] = None THEN None ELSE windows[t].highest]
             seen == [t \in Spaces |-> RingNumbers(t)]
             top == IF high[s] = None \/ n > high[s] THEN n ELSE high[s]
  <1>1. /\ windows \in [Spaces -> Windows \cup {None}]
        /\ accepted \in [Spaces -> [PacketNumbers -> Nat]]
    BY DEF ReplayInv, Typed, TypeOK
  <1>2. /\ windows'[s] = Mark(s, n)
        /\ accepted'[s] = [accepted[s] EXCEPT ![n] = @ + 1]
        /\ \A t \in Spaces : t # s => windows'[t] = windows[t]
    BY <1>1
  <1>3. Mark(s, n) # None
    BY MarkTyped, WindowNotNone DEF ReplayInv
  <1>4. accepted[s][n] = 0
    BY CommitExact
  <1>5. windows[s] # None => windows[s].highest \in PacketNumbers /\ windows[s].highest # None
    <2>1. ASSUME NEW w \in Windows PROVE w.highest \in PacketNumbers
      BY DEF Windows
    <2> QED
      BY <1>1, <2>1
  <1>6. top = IF windows[s] = None \/ n > windows[s].highest THEN n ELSE windows[s].highest
    BY <1>5
  <1>7. top = Mark(s, n).highest
    BY <1>6, MarkHighest DEF ReplayInv
  <1>8. top \in PacketNumbers /\ n <= top /\ (windows[s] # None => windows[s].highest <= top)
    BY <1>5, <1>6
  <1>9. high' = [high EXCEPT ![s] = top]
    <2> HIDE DEF top
    <2>1. \A t \in Spaces : (IF windows'[t] = None THEN None ELSE windows'[t].highest)
                            = IF t = s THEN top
                              ELSE IF windows[t] = None THEN None ELSE windows[t].highest
      BY <1>2, <1>3, <1>7
    <2> QED
      BY <2>1
  <1>10. RingNumbers(s)' = {k \in RingNumbers(s) \cup {n} : top - k <= WindowSize}
    <2> HIDE DEF top
    <2>1. RingNumbers(s)' = {k \in PacketNumbers : InWindow(windows'[s], k) /\ accepted'[s][k] = 1}
      <3>1. Exact(windows'[s], accepted'[s])
        BY <1>2, <1>3 DEF ReplayInv, RingExact, Exact, InWindow, Contains
      <3>2. RingNumbers(s)' = {k \in PacketNumbers : InWindow(windows'[s], k) /\ Contains(windows'[s], k)}
        BY <1>2, <1>3 DEF RingNumbers, InWindow, Contains
      <3> QED
        BY <3>1, <3>2 DEF Exact
    <2>2. RingNumbers(s) = {k \in PacketNumbers :
                              windows[s] # None /\ InWindow(windows[s], k) /\ accepted[s][k] = 1}
      BY RecordedAccepted
    <2>3. windows'[s].highest = top
      BY <1>2, <1>7
    <2>4. ASSUME NEW k \in PacketNumbers
          PROVE  accepted'[s][k] = 1 <=> (k = n \/ accepted[s][k] = 1)
      BY <1>1, <1>2, <1>4
    <2>5. ASSUME NEW k \in PacketNumbers, accepted[s][k] = 1
          PROVE  windows[s] # None /\ k <= windows[s].highest
      <3>1. windows[s] # None
        BY <2>5 DEF ReplayInv, RingExact
      <3>2. k > windows[s].highest => accepted[s][k] = 0
        BY <3>1 DEF ReplayInv, RingExact, Exact
      <3>3. k \in Nat /\ windows[s].highest \in Nat
        BY <1>5, <3>1
      <3> QED
        BY <2>5, <3>1, <3>2, <3>3
    <2>6. ASSUME NEW k \in PacketNumbers
          PROVE  (InWindow(windows'[s], k) /\ accepted'[s][k] = 1) <=>
                 (k \in RingNumbers(s) \cup {n} /\ top - k <= WindowSize)
      <3>1. top \in Nat /\ k \in Nat /\ n \in Nat
        BY <1>8
      <3>2. CASE k = n
        BY <1>8, <2>3, <2>4, <3>1, <3>2 DEF InWindow
      <3>3. CASE k # n /\ accepted[s][k] = 1
        <4>1. windows[s] # None /\ k <= windows[s].highest
          BY <2>5, <3>3
        <4>2. windows[s].highest \in Nat /\ windows[s].highest <= top
          BY <1>5, <1>8, <4>1
        <4>3. k \in RingNumbers(s) <=> windows[s].highest - k <= WindowSize
          BY <2>2, <3>3, <4>1 DEF InWindow
        <4>4. InWindow(windows'[s], k) <=> top - k <= WindowSize
          BY <2>3, <3>1, <4>1, <4>2 DEF InWindow
        <4> QED
          BY <2>4, <3>1, <3>3, <4>2, <4>3, <4>4
      <3>4. CASE k # n /\ accepted[s][k] # 1
        BY <2>2, <2>4, <3>4
      <3> QED
        BY <3>2, <3>3, <3>4
    <2>7. RingNumbers(s) \cup {n} \subseteq PacketNumbers
      BY <2>2
    <2> QED
      BY <2>1, <2>6, <2>7
  <1>11. seen' = [seen EXCEPT ![s] = {k \in seen[s] \cup {n} : top - k <= WindowSize}]
    <2>1. ASSUME NEW t \in Spaces, t # s PROVE RingNumbers(t)' = RingNumbers(t)
      BY <1>2, <2>1 DEF RingNumbers, InWindow, Contains
    <2> HIDE DEF top
    <2> QED
      BY <1>10, <2>1
  <1>12. Abstract!Fresh(s, n)
    BY <1>5 DEF Abstract!Fresh, CheckPacketNumber, RingNumbers
  <1>13. ~destroyed
    BY DEF CheckPacketNumber
  <1> QED
    BY <1>9, <1>11, <1>12, <1>13, Zenon DEF Abstract!Accept

\* The ring bitmap under its mutex implements the abstract window: whatever the
\* opens, replacements and erasures do, each step accepts a fresh number, forgets
\* a space, closes the receiver, or changes nothing a caller can observe.
THEOREM RingImplementsWindow == Spec => ImplementsWindow
  <1>1. Init => Abstract!Init
    BY DEF Init, Abstract!Init, RingNumbers
  <1>2. ReplayInv /\ ReplayInv' /\ [Next]_vars => [Abstract!Next]_(Abstract!vars)
    <2> SUFFICES ASSUME ReplayInv, ReplayInv', [Next]_vars
                 PROVE  [Abstract!Next]_(Abstract!vars)
      OBVIOUS
    <2>1. CASE UNCHANGED <<windows, destroyed>>
      BY <2>1 DEF Abstract!vars, RingNumbers
    <2>2. ASSUME NEW o \in Openers, CommitPreparedOpen(o)
          PROVE  [Abstract!Next]_(Abstract!vars)
      <3>1. CASE CheckPacketNumber(op[o].space, op[o].pn)
        <4>1. PICK s \in Spaces, n \in PacketNumbers : s = op[o].space /\ n = op[o].pn
          BY <2>2 DEF CommitPreparedOpen, ReplayInv, Typed, OpOK
        <4>2. /\ windows' = [windows EXCEPT ![s] = Mark(s, n)]
              /\ accepted' = [accepted EXCEPT ![s] = [accepted[s] EXCEPT ![n] = @ + 1]]
              /\ destroyed' = destroyed
          BY <2>2, <3>1, <4>1 DEF CommitPreparedOpen
        <4>3. Abstract!Accept(s, n)
          BY <3>1, <4>1, <4>2, CommitAccepts
        <4> QED
          BY <4>3 DEF Abstract!Next
      <3>2. CASE ~CheckPacketNumber(op[o].space, op[o].pn)
        BY <2>1, <2>2, <3>2 DEF CommitPreparedOpen
      <3> QED
        BY <3>1, <3>2
    <2>3. ASSUME NEW s \in Spaces, ForgetPacketNumberSpace(s)
          PROVE  [Abstract!Next]_(Abstract!vars)
      <3>1. windows' = [windows EXCEPT ![s] = None] /\ destroyed' = destroyed
        BY <2>3 DEF ForgetPacketNumberSpace
      <3>2. windows'[s] = None /\ \A t \in Spaces : t # s => windows'[t] = windows[t]
        BY <3>1 DEF ReplayInv, Typed, TypeOK
      <3>3. RingNumbers(s)' = {} /\ \A t \in Spaces : t # s => RingNumbers(t)' = RingNumbers(t)
        BY <3>2 DEF RingNumbers
      <3>4. \A t \in Spaces : (IF windows'[t] = None THEN None ELSE windows'[t].highest)
                              = IF t = s THEN None
                                ELSE IF windows[t] = None THEN None ELSE windows[t].highest
        BY <3>2
      <3>5. \A t \in Spaces : RingNumbers(t)' = IF t = s THEN {} ELSE RingNumbers(t)
        BY <3>3
      <3>6. Abstract!Forget(s)
        BY <3>1, <3>4, <3>5 DEF Abstract!Forget
      <3> QED
        BY <3>6 DEF Abstract!Next
    <2>4. CASE Destroy
      <3>1. Abstract!Close
        BY <2>4 DEF Destroy, Abstract!Close, RingNumbers
      <3> QED
        BY <3>1 DEF Abstract!Next
    <2>5. ASSUME NEW o \in Openers,
                 Check(o) \/ Decrypt(o) \/ Recheck(o) \/ Release(o) \/ Abandon(o)
          PROVE  [Abstract!Next]_(Abstract!vars)
      BY <2>1, <2>5 DEF Check, Decrypt, Recheck, Release, Abandon
    <2>6. ASSUME NEW o \in Openers, NEW s \in Spaces, NEW n \in PacketNumbers, AcquireBase(o, s, n)
          PROVE  [Abstract!Next]_(Abstract!vars)
      BY <2>1, <2>6 DEF AcquireBase
    <2>7. ASSUME NEW o \in Openers, NEW s \in Spaces, NEW n \in PacketNumbers, NEW m \in Materials,
                 AcquireCached(o, s, n, m) \/ (\E p \in Protectors : AcquireNew(o, s, n, m, p))
                 \/ AcquireRefused(o, s, m)
          PROVE  [Abstract!Next]_(Abstract!vars)
      BY <2>1, <2>7 DEF AcquireCached, AcquireNew, AcquireRefused
    <2>8. CASE UNCHANGED vars
      BY <2>1, <2>8 DEF vars
    <2> QED
      BY <2>2, <2>3, <2>4, <2>5, <2>6, <2>7, <2>8, Zenon DEF Next, OpenStep
  <1>3. Spec => []ReplayInv
    BY ReplaySafe, TypedInvariant, PTL DEF ReplayInv
  <1> QED
    BY <1>1, <1>2, <1>3, PTL DEF Spec, ImplementsWindow, Abstract!Spec
=============================================================================
