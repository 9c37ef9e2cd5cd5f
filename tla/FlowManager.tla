----------------------------- MODULE FlowManager -----------------------------
(***************************************************************************)
(* The flow table of flow/flow.go (type Manager), as operators on its      *)
(* value.  A table maps every flow ID to the FlowState the Manager holds,  *)
(* or to NoFlow.  Each operator stands for one method, which runs under    *)
(* Manager.mu and is therefore one step of whoever calls it.               *)
(*                                                                         *)
(* Of a FlowState only what decides control is kept: the kind, the clocks  *)
(* that expire a UDP association, and the two halves of a close with its   *)
(* drain.  `born' numbers the FLOW_OPEN an entry comes from; the code has  *)
(* no such field, it tells apart two flows that use one ID.                *)
(***************************************************************************)
EXTENDS Naturals

CONSTANTS
  FlowIDs,       \* the flow_id values a peer uses
  TTLSeconds,    \* FlowOptions.TTLSeconds (UDPConfirmTTLSeconds)
  IdleSeconds,   \* FlowOptions.IdleTimeoutSeconds
  DrainSeconds   \* CloseOptions.DrainSeconds (exitCloseDrainSeconds)

ASSUME FlowAssumption ==
  /\ TTLSeconds \in Nat /\ IdleSeconds \in Nat /\ DrainSeconds \in Nat

Kinds == {"tcp", "udp"}

NoFlow == [kind |-> "none", born |-> 0, created |-> 0, active |-> 0,
           localClosed |-> FALSE, peerClosed |-> FALSE, drainUntil |-> 0]

FlowStates(times, births) ==
  {NoFlow} \cup
  [kind : Kinds, born : births, created : times, active : times,
   localClosed : BOOLEAN, peerClosed : BOOLEAN, drainUntil : Nat]

Present(m, f) == m[f] # NoFlow

\* OpenWithOptions: the caller has seen that the ID is free.
Opened(m, f, kind, born, now) ==
  [m EXCEPT ![f] = [NoFlow EXCEPT !.kind = kind, !.born = born,
                                  !.created = now, !.active = now]]

\* FlowState.expired: the TTL from creation, the idle time from the last use.
Expired(s, now) ==
  \/ TTLSeconds > 0 /\ now >= s.created + TTLSeconds
  \/ IdleSeconds > 0 /\ now > s.active + IdleSeconds

\* AcceptDatagramWithOptions: its verdict, and the table it leaves behind.  An
\* expired association is deleted by the datagram that finds it expired.
AcceptsDatagram(m, f, now) ==
  /\ m[f].kind = "udp"
  /\ ~m[f].localClosed /\ ~m[f].peerClosed
  /\ ~Expired(m[f], now)

AfterDatagram(m, f, now) ==
  IF m[f].kind # "udp" \/ m[f].localClosed \/ m[f].peerClosed THEN m
  ELSE [m EXCEPT ![f] = IF Expired(m[f], now) THEN NoFlow
                        ELSE [m[f] EXCEPT !.active = now]]

\* markClose: one more half is closed; a flow closed by both is forgotten.
MarkClose(m, f, local, now) ==
  LET s == [m[f] EXCEPT !.localClosed = @ \/ local, !.peerClosed = @ \/ ~local,
                        !.drainUntil = now + DrainSeconds]
  IN  IF ~Present(m, f) THEN m
      ELSE [m EXCEPT ![f] = IF s.localClosed /\ s.peerClosed THEN NoFlow ELSE s]

PurgeClosed(m, now) ==
  [f \in DOMAIN m |->
     IF (m[f].localClosed \/ m[f].peerClosed) /\ now >= m[f].drainUntil
     THEN NoFlow ELSE m[f]]
=============================================================================
