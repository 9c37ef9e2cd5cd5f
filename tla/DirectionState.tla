-------------------------- MODULE DirectionState --------------------------
(***************************************************************************)
(* packet.DirectionState: the traffic keys of one direction of a session.  *)
(* An update moves the direction to the next key phase; the phase it left  *)
(* stays usable for a bounded drain window, until it is acknowledged, until*)
(* the window elapses, or until the next update.                           *)
(*                                                                         *)
(* Key material is the sequence of the nonces it was derived from: the     *)
(* derivation (HKDF over the old secret and the update's fields) is taken  *)
(* to be injective.  Time is counted in ticks.  until is the time left to  *)
(* the drain deadline, negative when it has passed; age is how many ticks  *)
(* ago the caller read the clock, since handlers carry a `now` across an   *)
(* unlock.                                                                 *)
(***************************************************************************)
EXTENDS Integers, Sequences

CONSTANTS
    MaxDrainWindow, \* ticks of the drain window (10 s in the code)
    MaxKeyPhase,    \* last key phase (255 in the code)
    MaxAge,         \* bound: ticks a handler may hold a clock reading
    None

ASSUME DirectionAssumption ==
    /\ MaxDrainWindow \in Nat
    /\ MaxKeyPhase \in Nat
    /\ MaxAge \in Nat
    /\ None \notin Int

\* The state of a direction before any update.
Established ==
    [phase |-> 0, material |-> <<>>, until |-> None, previous |-> None,
     pending |-> FALSE, last |-> None]

DeriveKeyUpdate(material, frame) == Append(material, frame.nonce)

Draining(d) == d.until # None

\* now.After(DrainUntil) for a clock reading that is age ticks old.
Elapsed(d, age) == d.until + age < 0

ClearDrainState(d) ==
    [d EXCEPT !.until = None, !.previous = None, !.pending = FALSE, !.last = None]

\* expireDrain.
ExpireDrain(d, age) ==
    IF Draining(d) /\ Elapsed(d, age) THEN ClearDrainState(d) ELSE d

DrainActive(d, age) == Draining(d) /\ ~Elapsed(d, age)

\* Mutant: an old phase is opened with the current key.
CurrentMaterial(d, phase) == IF phase <= d.phase THEN d.material ELSE None
\* materialForPacketView: the key for a packet of this phase, or None.
MaterialForPacket(d, phase) ==
    IF phase = d.phase THEN d.material
    ELSE IF DrainActive(d, 0) /\ phase = d.previous.phase THEN d.previous.material
    ELSE None

\* The direction after moving to the phase frame announces.
Rotate(d, frame, age) ==
    [phase |-> frame.old + 1, material |-> DeriveKeyUpdate(d.material, frame),
     until |-> MaxDrainWindow - age,
     previous |-> [phase |-> d.phase, material |-> d.material],
     pending |-> FALSE, last |-> None]

\* PrepareUpdate is refused while an earlier update drains, and past the last phase.
CanPrepareUpdate(d) == ~DrainActive(d, 0) /\ d.phase < MaxKeyPhase

\* PreparedKeyUpdate: the frame and the state it was derived from.
PrepareUpdate(d, nonce) ==
    [frame |-> [old |-> d.phase, nonce |-> nonce], source |-> d.material]

\* CommitPreparedUpdate succeeds only on the state the update was prepared from.
CanCommit(d, prepared) == d.phase = prepared.frame.old /\ d.material = prepared.source
CommitPreparedUpdate(d, prepared) ==
    [Rotate(d, prepared.frame, 0) EXCEPT !.pending = TRUE]

\* Mutant: an acknowledgement after the drain is unsolicited.
NeverCompleted(d, acked) == FALSE
\* AcknowledgesCompletedKeyUpdate.
AcknowledgesCompleted(d, acked) == ~d.pending /\ d.phase # 0 /\ acked = d.phase

\* ApplyKeyUpdateACK, after its expireDrain.
CanApplyACK(d, acked) == d.pending /\ acked = d.phase

\* isDuplicateReceivedUpdate.
IsDuplicateUpdate(d, frame, age) ==
    /\ d.last # None
    /\ DrainActive(d, age)
    /\ frame.old + 1 = d.phase
    /\ d.last = frame

\* ApplyReceivedUpdateAt.
CanApplyUpdate(d, frame, age) == frame.old = d.phase \/ IsDuplicateUpdate(d, frame, age)
ApplyReceivedUpdate(d, frame, age) ==
    IF frame.old # d.phase THEN d
    ELSE [Rotate(d, frame, age) EXCEPT !.last = frame]

\* One tick passes; a deadline long past is not counted any further.
Later(d) ==
    IF Draining(d) /\ d.until > -(MaxAge + 1) THEN [d EXCEPT !.until = @ - 1] ELSE d
=============================================================================
