------------------------------ MODULE Session ------------------------------
(***************************************************************************)
(* Two session.Application endpoints exchanging packets while either may   *)
(* rotate its write keys.  Each endpoint has one mutex (mu); an action is  *)
(* one critical section of it.  Two operations release the mutex while     *)
(* they read entropy, InitiateKeyUpdate and the handling of a received     *)
(* KEY_UPDATE: they appear as two actions, with a queue reservation held   *)
(* in between.  writeUpdateMu and readMu allow one of each per endpoint.   *)
(*                                                                         *)
(* sent[e] is everything e handed to its carrier.  With Ordered, packets   *)
(* arrive in that order (the HTTP/2 carrier); otherwise any packet may     *)
(* arrive at any time, more than once or never.                            *)
(***************************************************************************)
EXTENDS DirectionState, FiniteSets

CONSTANTS
    Endpoints,
    Nonces,                 \* entropy read for an update
    ControlReservedPackets, \* Limits
    MaxBurst,               \* maximumHighPriorityBurst
    Settings                \* the sessions considered: see settings

ASSUME SessionAssumption ==
    /\ Cardinality(Endpoints) = 2
    /\ ControlReservedPackets \in Nat /\ 2 <= ControlReservedPackets
    /\ MaxBurst \in Nat
    /\ \A c \in Settings :
          /\ c.maxQueued \in Nat /\ ControlReservedPackets < c.maxQueued
          /\ c.maxPackets \in Nat
          /\ c.priorities \subseteq BOOLEAN
          /\ c.updates \in [Endpoints -> 0 .. MaxKeyPhase]
          /\ c.ordered \in BOOLEAN
          /\ c.senders \subseteq Endpoints /\ c.closers \subseteq Endpoints

VARIABLES
    settings,       \* the session's parameters and bounds, which never change
    terminal,       \* terminal[e]: None, "closed", or the step that failed
    wr, rd,         \* writeState (and the write protector), readState
    nextPN,         \* writePacketNumbers
    queue,          \* queued packets
    burst,          \* highPriorityBurst, counted up to MaxBurst
    reserved,       \* reservedPackets
    pendingUpdate,  \* pendingWriteUpdate
    updater,        \* TRUE while InitiateKeyUpdate reads entropy
    reader,         \* the KEY_UPDATE whose handler reads entropy, or None
    wtimer, rtimer, \* a drain timer is armed
    seen,           \* packet numbers in the receiver's replay windows
    sent,           \* packets handed to the carrier
    got,            \* packets taken from the carrier, when Ordered
    accepted        \* history: <<n, k>>, number n was accepted a k-th time (k <= 2)

queueVars == <<nextPN, queue, burst, reserved, pendingUpdate>>
keyVars == <<wr, rd, wtimer, rtimer>>
readVars == <<seen, got, accepted>>
vars == <<settings, terminal, queueVars, keyVars, readVars, updater, reader, sent>>

MaxQueuedPackets == settings.maxQueued  \* Limits
MaxPackets == settings.maxPackets       \* RekeyPolicy.MaxPackets
Priorities == settings.priorities       \* of queued data (TRUE: DNS frames only)
Updates == settings.updates             \* bound: Updates[e], updates e initiates
Ordered == settings.ordered             \* delivery in order, each packet once
Senders == settings.senders             \* bound: who queues data
Closers == settings.closers             \* bound: who may call Close

Peer(e) == CHOOSE f \in Endpoints : f # e
Phases == 0 .. MaxKeyPhase

Init ==
    /\ settings \in Settings
    /\ terminal = [e \in Endpoints |-> None]
    /\ wr = [e \in Endpoints |-> Established]
    /\ rd = [e \in Endpoints |-> Established]
    /\ nextPN = [e \in Endpoints |-> [k \in Phases |-> 0]]
    /\ queue = [e \in Endpoints |-> <<>>]
    /\ burst = [e \in Endpoints |-> 0]
    /\ reserved = [e \in Endpoints |-> 0]
    /\ pendingUpdate = [e \in Endpoints |-> FALSE]
    /\ updater = [e \in Endpoints |-> FALSE]
    /\ reader = [e \in Endpoints |-> None]
    /\ wtimer = [e \in Endpoints |-> FALSE]
    /\ rtimer = [e \in Endpoints |-> FALSE]
    /\ seen = [e \in Endpoints |-> {}]
    /\ sent = [e \in Endpoints |-> <<>>]
    /\ got = [e \in Endpoints |-> 0]
    /\ accepted = [e \in Endpoints |-> {}]

Live(e) == terminal[e] = None

\* terminateLocked: everything owned is destroyed; operations that are reading
\* entropy notice when they take the mutex again.
Terminate(e, why) ==
    /\ terminal' = [terminal EXCEPT ![e] = why]
    /\ wr' = [wr EXCEPT ![e] = Established]
    /\ rd' = [rd EXCEPT ![e] = Established]
    /\ nextPN' = [nextPN EXCEPT ![e] = [k \in Phases |-> 0]]
    /\ queue' = [queue EXCEPT ![e] = <<>>]
    /\ reserved' = [reserved EXCEPT ![e] = 0]
    /\ pendingUpdate' = [pendingUpdate EXCEPT ![e] = FALSE]
    /\ wtimer' = [wtimer EXCEPT ![e] = FALSE]
    /\ rtimer' = [rtimer EXCEPT ![e] = FALSE]
    /\ seen' = [seen EXCEPT ![e] = {}]
    /\ UNCHANGED <<burst, updater, sent, accepted>>

Close(e) ==
    /\ e \in Closers
    /\ Live(e)
    /\ Terminate(e, "closed")
    /\ UNCHANGED <<reader, got>>

---------------------------------------------------------------------------
(* The outbound queue.                                                     *)

\* hasCapacityLocked, with held reservations counted as used.
HasCapacity(e, control, held) ==
    Len(queue[e]) < MaxQueuedPackets - held - (IF control THEN 0 ELSE ControlReservedPackets)

\* sealCurrentWriteBlockLocked: under the current phase, with its next number.
Seal(e, kind, high, update, acked) ==
    [kind |-> kind, high |-> high, update |-> update, acked |-> acked,
     phase |-> wr[e].phase, pn |-> nextPN[e][wr[e].phase], key |-> wr[e].material]

\* Mutant: the number is rolled back although the packet was queued.
AdvanceNot(e) == nextPN' = nextPN
\* writePacketNumbers[phase] = sealedNext, once the sealed packet is queued.
Advance(e) == nextPN' = [nextPN EXCEPT ![e][wr[e].phase] = @ + 1]

First(S) == CHOOSE i \in S : \A j \in S : i <= j

\* enqueueControlBeforeWriteUpdateLocked.
BeforeUpdate(q, p) ==
    LET updates == {i \in DOMAIN q : q[i].kind = "update"}
        i == IF updates = {} THEN Len(q) + 1 ELSE First(updates)
    IN  SubSeq(q, 1, i - 1) \o <<p>> \o SubSeq(q, i, Len(q))

\* nextQueuedPacketIndexLocked: a control packet at the head goes first; data
\* may overtake control packets, but only high-priority data overtakes data.
NextIndex(e) ==
    LET q == queue[e]
        data(high) == {i \in DOMAIN q : q[i].kind = "data" /\ q[i].high = high}
    IN  IF q[1].kind # "data" THEN 1
        ELSE IF data(TRUE) # {} /\ (burst[e] < MaxBurst \/ data(FALSE) = {})
             THEN First(data(TRUE))
             ELSE First(data(FALSE))

Without(q, i) == SubSeq(q, 1, i - 1) \o SubSeq(q, i + 1, Len(q))

\* highPriorityBurst after p is taken.
NextBurst(n, p) ==
    IF p.kind # "data" THEN n
    ELSE IF ~p.high THEN 0
    ELSE IF n < MaxBurst THEN n + 1 ELSE n

\* needsKeyUpdateLocked: the phase used up its packets.  (Its age and byte
\* limits only make QueueFrames refuse earlier.)
NeedsKeyUpdate(e) == nextPN[e][wr[e].phase] >= MaxPackets

\* QueueFrames: application data, refused while an update is queued or due.
\* When one is due it calls InitiateKeyUpdate, below, and changes nothing else.
QueueFrames(e, high) ==
    /\ e \in Senders
    /\ Live(e)
    /\ ~pendingUpdate[e]
    /\ ~NeedsKeyUpdate(e)
    /\ HasCapacity(e, FALSE, reserved[e])
    /\ queue' = [queue EXCEPT ![e] = Append(@, Seal(e, "data", high, None, None))]
    /\ Advance(e)
    /\ UNCHANGED <<terminal, burst, reserved, pendingUpdate, keyVars, readVars, updater, reader, sent>>

\* NextPacket and TryNextPacket: takeNextPacketLocked.  Emitting the update
\* packet is what moves the write direction to its new phase.
NextPacket(e) ==
    /\ Live(e)
    /\ queue[e] # <<>>
    /\ LET i == NextIndex(e)
           p == queue[e][i]
           update == p.kind = "update"
       IN  IF update /\ ~CanCommit(wr[e], p.update)
           THEN Terminate(e, "commit") /\ UNCHANGED <<reader, got>>
           ELSE /\ queue' = [queue EXCEPT ![e] = Without(@, i)]
                /\ sent' = [sent EXCEPT ![e] = Append(@, p)]
                /\ burst' = [burst EXCEPT ![e] = NextBurst(@, p)]
                /\ wr' = [wr EXCEPT ![e] = IF update THEN CommitPreparedUpdate(@, p.update) ELSE @]
                /\ wtimer' = [wtimer EXCEPT ![e] = update \/ @]
                /\ pendingUpdate' = [pendingUpdate EXCEPT ![e] = ~update /\ @]
                /\ UNCHANGED <<terminal, nextPN, reserved, rd, rtimer, readVars, updater, reader>>

---------------------------------------------------------------------------
(* InitiateKeyUpdate.                                                      *)

\* Up to the unlock: reserve queue space for the update packet.
InitiateKeyUpdate(e) ==
    /\ Live(e)
    /\ ~updater[e]
    /\ ~pendingUpdate[e]
    /\ wr[e].phase < Updates[e]
    /\ HasCapacity(e, TRUE, reserved[e])
    /\ reserved' = [reserved EXCEPT ![e] = @ + 1]
    /\ updater' = [updater EXCEPT ![e] = TRUE]
    /\ UNCHANGED <<terminal, nextPN, queue, burst, pendingUpdate, keyVars, readVars, reader, sent>>

\* The session ended meanwhile: terminateLocked already dropped the reservation.
AbandonUpdate(e) ==
    /\ updater[e]
    /\ ~Live(e)
    /\ updater' = [updater EXCEPT ![e] = FALSE]
    /\ UNCHANGED <<terminal, queueVars, keyVars, readVars, reader, sent>>

\* Entropy failed, the context ended, or an earlier update still drains.
RefuseUpdate(e) ==
    /\ updater[e]
    /\ Live(e)
    /\ updater' = [updater EXCEPT ![e] = FALSE]
    /\ reserved' = [reserved EXCEPT ![e] = @ - 1]
    /\ UNCHANGED <<terminal, nextPN, queue, burst, pendingUpdate, keyVars, readVars, reader, sent>>

\* The update is sealed under the old phase and queued.
QueueUpdate(e, nonce) ==
    /\ updater[e]
    /\ Live(e)
    /\ ~pendingUpdate[e]
    /\ CanPrepareUpdate(wr[e])
    /\ HasCapacity(e, TRUE, reserved[e] - 1)
    /\ queue' = [queue EXCEPT ![e] =
                    Append(@, Seal(e, "update", FALSE, PrepareUpdate(wr[e], nonce), None))]
    /\ Advance(e)
    /\ pendingUpdate' = [pendingUpdate EXCEPT ![e] = TRUE]
    /\ reserved' = [reserved EXCEPT ![e] = @ - 1]
    /\ updater' = [updater EXCEPT ![e] = FALSE]
    /\ UNCHANGED <<terminal, burst, keyVars, readVars, reader, sent>>

---------------------------------------------------------------------------
(* Drains.                                                                 *)

\* ForgetPacketNumberSpace for one key phase.
Forget(S, phase) == {x \in S : x[1] # phase}

\* Mutant: the replay window goes as soon as the phase drains.
SeenForgottenEarly(S, d) == IF Draining(d) THEN Forget(S, d.previous.phase) ELSE S
\* The replay state after expireReadDrainLocked on read state d.
SeenAfterExpiry(S, d) ==
    IF Draining(d) /\ Elapsed(d, 0) THEN Forget(S, d.previous.phase) ELSE S

\* The write drain timer fires.  A callback of an older generation does nothing.
WriteDrainTimer(e) ==
    /\ wtimer[e]
    /\ Draining(wr[e]) => Elapsed(wr[e], 0)
    /\ wr' = [wr EXCEPT ![e] = ExpireDrain(@, 0)]
    /\ wtimer' = [wtimer EXCEPT ![e] = FALSE]
    /\ UNCHANGED <<terminal, queueVars, rd, rtimer, readVars, updater, reader, sent>>

\* The read drain timer fires; a handler that pinned the state re-arms it.
ReadDrainTimer(e) ==
    /\ rtimer[e]
    /\ Draining(rd[e]) => Elapsed(rd[e], 0)
    /\ rtimer' = [rtimer EXCEPT ![e] = FALSE]
    /\ IF reader[e] # None THEN UNCHANGED <<rd, seen>>
       ELSE /\ rd' = [rd EXCEPT ![e] = ExpireDrain(@, 0)]
            /\ seen' = [seen EXCEPT ![e] = SeenAfterExpiry(@, rd[e])]
    /\ UNCHANGED <<terminal, queueVars, wr, wtimer, got, accepted, updater, reader, sent>>

\* A tick of the clock.  Bound: entropy is read within MaxAge ticks.
Tick ==
    /\ \A e \in Endpoints : reader[e] # None => reader[e].age < MaxAge
    /\ wr' = [e \in Endpoints |-> Later(wr[e])]
    /\ rd' = [e \in Endpoints |-> Later(rd[e])]
    /\ reader' = [e \in Endpoints |->
                    IF reader[e] = None THEN None ELSE [reader[e] EXCEPT !.age = @ + 1]]
    /\ UNCHANGED <<terminal, queueVars, wtimer, rtimer, readVars, updater, sent>>

---------------------------------------------------------------------------
(* HandlePacket.                                                           *)

\* The carrier may hand packet i of the peer to e, who is not handling another.
Deliverable(e, i) ==
    /\ Live(e)
    /\ reader[e] = None
    /\ i \in DOMAIN sent[Peer(e)]
    /\ Ordered => i = got[e] + 1

Take(e, i) == got' = IF Ordered THEN [got EXCEPT ![e] = i] ELSE got

Number(p) == <<p.phase, p.pn>>

\* PrepareOpen succeeds: the phase has a key, it is the sender's, no replay.
Opens(e, p) == MaterialForPacket(rd[e], p.phase) = p.key /\ Number(p) \notin seen[e]

\* The history after packet p is accepted.
Accept(S, p) == S \cup {<<Number(p), IF <<Number(p), 1>> \in S THEN 2 ELSE 1>>}

\* CommitPreparedOpen, then expireReadDrainLocked as handlePacket returns.
CommitAndExpire(e, p) ==
    /\ seen' = [seen EXCEPT ![e] = SeenAfterExpiry(@ \cup {Number(p)}, rd[e])]
    /\ accepted' = [accepted EXCEPT ![e] = Accept(@, p)]
    /\ rd' = [rd EXCEPT ![e] = ExpireDrain(@, 0)]

HandleData(e, i) ==
    /\ Deliverable(e, i)
    /\ LET p == sent[Peer(e)][i]
       IN  /\ p.kind = "data"
           /\ Opens(e, p)
           /\ CommitAndExpire(e, p)
    /\ Take(e, i)
    /\ UNCHANGED <<terminal, queueVars, wr, wtimer, rtimer, updater, reader, sent>>

\* KEY_UPDATE_ACK: applied to the pending update, dropped when the drain has
\* completed that update already, and otherwise fatal.
HandleAck(e, i) ==
    /\ Deliverable(e, i)
    /\ Take(e, i)
    /\ LET p == sent[Peer(e)][i]
           w == ExpireDrain(wr[e], 0)
           redundant == AcknowledgesCompleted(w, p.acked)
       IN  /\ p.kind = "ack"
           /\ Opens(e, p)
           /\ \/ /\ redundant \/ CanApplyACK(w, p.acked)
                 /\ wr' = [wr EXCEPT ![e] = IF redundant THEN w ELSE ClearDrainState(w)]
                 /\ wtimer' = [wtimer EXCEPT ![e] = redundant /\ Draining(w)]
                 /\ CommitAndExpire(e, p)
                 /\ UNCHANGED <<terminal, queueVars, rtimer, updater, reader, sent>>
              \/ /\ ~redundant
                 /\ ~CanApplyACK(w, p.acked)
                 /\ Terminate(e, "ack")
                 /\ UNCHANGED reader

\* pinReadDrainLocked on the handler's clock reading.
PinRead(e) ==
    /\ rd' = [rd EXCEPT ![e] = ExpireDrain(@, 0)]
    /\ seen' = [seen EXCEPT ![e] = SeenAfterExpiry(@, rd[e])]

\* KEY_UPDATE, up to the unlock: reserve queue space for the acknowledgement.
HandleUpdate(e, i) ==
    /\ Deliverable(e, i)
    /\ LET p == sent[Peer(e)][i]
       IN  /\ p.kind = "update"
           /\ Opens(e, p)
           /\ HasCapacity(e, TRUE, reserved[e])
           /\ reader' = [reader EXCEPT ![e] = [packet |-> p, index |-> i, age |-> 0]]
    /\ reserved' = [reserved EXCEPT ![e] = @ + 1]
    /\ PinRead(e)
    /\ UNCHANGED <<terminal, nextPN, queue, burst, pendingUpdate, wr, wtimer, rtimer,
                   got, accepted, updater, sent>>

\* No room for the acknowledgement: a retryable error, the packet stays unread.
HandleUpdateBusy(e, i) ==
    /\ Deliverable(e, i)
    /\ LET p == sent[Peer(e)][i]
       IN  p.kind = "update" /\ Opens(e, p) /\ ~HasCapacity(e, TRUE, reserved[e])
    /\ PinRead(e)
    /\ rtimer' = [rtimer EXCEPT ![e] = DrainActive(rd[e], 0)]
    /\ UNCHANGED <<terminal, queueVars, wr, wtimer, got, accepted, updater, reader, sent>>

Unread(e) == reader' = [reader EXCEPT ![e] = None]

\* The session ended while the handler read entropy.
AbandonHandle(e) ==
    /\ reader[e] # None
    /\ ~Live(e)
    /\ Unread(e)
    /\ UNCHANGED <<terminal, queueVars, keyVars, readVars, updater, sent>>

\* Mutant: the drain timer is not re-armed when the pin is released.
RetryWithoutTimer(e) ==
    /\ reader[e] # None
    /\ Live(e)
    /\ Unread(e)
    /\ reserved' = [reserved EXCEPT ![e] = @ - 1]
    /\ UNCHANGED <<rd, seen, rtimer, terminal, nextPN, queue, burst, pendingUpdate, wr, wtimer, got, accepted,
                   updater, sent>>
\* Entropy failed: a retryable error; the reservation and the pin are released.
RetryUpdate(e) ==
    /\ reader[e] # None
    /\ Live(e)
    /\ Unread(e)
    /\ reserved' = [reserved EXCEPT ![e] = @ - 1]
    /\ PinRead(e)
    /\ rtimer' = [rtimer EXCEPT ![e] = DrainActive(rd[e], 0)]
    /\ UNCHANGED <<terminal, nextPN, queue, burst, pendingUpdate, wr, wtimer, got, accepted,
                   updater, sent>>

\* The rest of handleKeyControlsLocked: rotate the read direction, queue the
\* acknowledgement ahead of a queued update, forget the phase whose drain the
\* update cut short, and re-arm the timer.
ApplyUpdate(e) ==
    /\ reader[e] # None
    /\ Live(e)
    /\ Unread(e)
    /\ LET p == reader[e].packet
           frame == p.update.frame
           old == rd[e]
           new == ApplyReceivedUpdate(old, frame, reader[e].age)
           forgotten == IF new.phase # old.phase /\ Draining(old)
                        THEN Forget(seen[e] \cup {Number(p)}, old.previous.phase)
                        ELSE seen[e] \cup {Number(p)}
           ok == /\ CanApplyUpdate(old, frame, reader[e].age)
                 /\ Number(p) \notin seen[e]
                 /\ HasCapacity(e, TRUE, reserved[e] - 1)
       IN  IF ok
           THEN /\ queue' = [queue EXCEPT ![e] =
                                BeforeUpdate(@, Seal(e, "ack", FALSE, None, frame.old + 1))]
                /\ Advance(e)
                /\ reserved' = [reserved EXCEPT ![e] = @ - 1]
                /\ rd' = [rd EXCEPT ![e] = ExpireDrain(new, 0)]
                /\ rtimer' = [rtimer EXCEPT ![e] = Draining(ExpireDrain(new, 0))]
                /\ seen' = [seen EXCEPT ![e] = SeenAfterExpiry(forgotten, new)]
                /\ accepted' = [accepted EXCEPT ![e] = Accept(@, p)]
                /\ Take(e, reader[e].index)
                /\ UNCHANGED <<terminal, burst, pendingUpdate, wr, wtimer, updater, sent>>
           ELSE Terminate(e, "update") /\ UNCHANGED got

---------------------------------------------------------------------------

Handle(e) ==
    \E i \in DOMAIN sent[Peer(e)] :
        \/ HandleData(e, i)
        \/ HandleAck(e, i)
        \/ HandleUpdate(e, i)
        \/ HandleUpdateBusy(e, i)

FinishUpdate(e) == AbandonUpdate(e) \/ RefuseUpdate(e) \/ (\E n \in Nonces : QueueUpdate(e, n))

Step ==
    \/ \E e \in Endpoints :
          \/ \E high \in Priorities : QueueFrames(e, high)
          \/ NextPacket(e)
          \/ InitiateKeyUpdate(e)
          \/ FinishUpdate(e)
          \/ Handle(e)
          \/ AbandonHandle(e)
          \/ RetryUpdate(e)
          \/ ApplyUpdate(e)
          \/ WriteDrainTimer(e)
          \/ ReadDrainTimer(e)
          \/ Close(e)
    \/ Tick

Next == Step /\ UNCHANGED settings

Spec == Init /\ [][Next]_vars

---------------------------------------------------------------------------
(* Properties.                                                             *)

Range(q) == {q[i] : i \in DOMAIN q}

Materials == UNION {[1 .. k -> Nonces] : k \in Phases}
Untils == -(MaxAge + 1) .. MaxDrainWindow
Previous == [phase : Phases, material : Materials]
UpdateFrames == [old : Phases, nonce : Nonces]
DirectionStates ==
    [phase : Phases, material : Materials, until : Untils \cup {None},
     previous : Previous \cup {None}, pending : BOOLEAN, last : UpdateFrames \cup {None}]
Prepared == [frame : UpdateFrames, source : Materials]
Packets == [kind : {"data", "ack", "update"}, high : BOOLEAN, update : Prepared \cup {None},
            acked : Phases \cup {None}, phase : Phases, pn : Nat, key : Materials]

\* Type invariant of both endpoints.
TypeOK ==
    /\ terminal \in [Endpoints -> {None, "closed", "ack", "update", "commit"}]
    /\ wr \in [Endpoints -> DirectionStates]
    /\ rd \in [Endpoints -> DirectionStates]
    /\ nextPN \in [Endpoints -> [Phases -> Nat]]
    /\ \A e \in Endpoints : Range(queue[e]) \cup Range(sent[e]) \subseteq Packets
    /\ burst \in [Endpoints -> 0 .. MaxBurst]
    /\ reserved \in [Endpoints -> Nat]
    /\ \A e \in Endpoints : reader[e] # None => reader[e].packet \in Packets
    /\ <<pendingUpdate, updater, wtimer, rtimer>> \in
          [Endpoints -> BOOLEAN] \X [Endpoints -> BOOLEAN] \X [Endpoints -> BOOLEAN]
          \X [Endpoints -> BOOLEAN]

\* An AEAD nonce is never used twice under one key: whatever is queued or was
\* sent has its own packet number within its key phase, although sealing can
\* be rolled back, two goroutines seal concurrently and phases change.
NonceUnique ==
    \A e \in Endpoints :
        LET all == queue[e] \o sent[e]
        IN  \A i, j \in DOMAIN all : Number(all[i]) = Number(all[j]) => i = j

\* Both ends derive the same keys: a packet of a phase the reader holds a key
\* for was sealed with that key, whatever was lost, repeated or reordered.
KeysAgree ==
    \A e \in Endpoints : \A p \in Range(sent[Peer(e)]) :
        Live(e) => MaterialForPacket(rd[e], p.phase) \in {None, p.key}

\* A packet number is accepted once in the life of the session: forgetting the
\* replay window of a phase never lets one of its packets in again.
NoReplay == \A e \in Endpoints : \A x \in accepted[e] : x[2] = 1

\* Between two endpoints running this code, emitting an update and applying a
\* received one never fail; what can end a session is only a late
\* acknowledgement, of an update that a newer one has superseded.
OnlyLateAckFails ==
    [][\A e \in Endpoints : Live(e) /\ ~Live(e)' =>
          \/ terminal'[e] = "closed"
          \/ /\ terminal'[e] = "ack"
             /\ \E i \in DOMAIN sent[Peer(e)] :
                   LET p == sent[Peer(e)][i]
                   IN  p.kind = "ack" /\ Deliverable(e, i) /\ p.acked < wr[e].phase]_vars

\* Old traffic keys have a way out: as long as a direction drains, a timer is
\* armed that ends the drain, or a handler has the state pinned and re-arms it.
\* So also an idle session erases them after the bounded window.
DrainsTimed ==
    \A e \in Endpoints :
        Live(e) => /\ Draining(wr[e]) => wtimer[e]
                   /\ Draining(rd[e]) => rtimer[e] \/ reader[e] # None

\* "A congested carrier can deliver the acknowledgement after the bounded write
\* drain has already completed the update it acknowledges.  The acknowledgement
\* is then redundant rather than a protocol violation": no acknowledgement the
\* peer sent ends the session.
LateAckIsHarmless == \A e \in Endpoints : terminal[e] # "ack"

\* "the ControlReservedPackets/Bytes reserve always covers one pending update
\* plus this acknowledgement, however full the data queue is".  The code does not
\* keep this: control packets queued before may have used the reserve up.
AckAlwaysFits ==
    \A e \in Endpoints : \A i \in DOMAIN sent[Peer(e)] :
        LET p == sent[Peer(e)][i]
        IN  Deliverable(e, i) /\ p.kind = "update" /\ Opens(e, p) => HasCapacity(e, TRUE, reserved[e])
=============================================================================
