---------------------------- MODULE SocketEgress ----------------------------
(***************************************************************************)
(* The sockets an exit holds for one session: relay/socket_egress.go.      *)
(*                                                                         *)
(* SocketEgress keeps a map from flow ID to *socketFlow.  Its methods run  *)
(* on the goroutine of the exit session, one read pump runs per socket,    *)
(* and Close runs on a third goroutine; what each does under SocketEgress  *)
(* .mu is one step here.  A socketFlow outlives its place in the map: the  *)
(* pump still holds it, and the same flow ID may meanwhile name another    *)
(* one.  Socket i is therefore the i-th socketFlow ever reserved, and      *)
(* sock[i] its state.                                                      *)
(*                                                                         *)
(* Bytes, addresses and close codes are left out.  That a resolved UDP     *)
(* target expires or a datagram is too large is a refusal that may happen. *)
(* The steps that also touch the validator or the session are completed in *)
(* module ExitSession.                                                     *)
(***************************************************************************)
EXTENDS FlowManager, Sequences, FiniteSets, FiniteSetsExt

CONSTANTS
  TCPReadBufferBytes, UDPBufferBytes,   \* what a flow of each kind reserves
  MaxFlows, MaxBufferedBytes            \* SocketEgressLimits

ASSUME EgressAssumption ==
  /\ TCPReadBufferBytes \in Nat \ {0} /\ UDPBufferBytes \in Nat \ {0}
  /\ MaxFlows \in Nat \ {0}
  /\ MaxBufferedBytes \in Nat
  /\ TCPReadBufferBytes <= MaxBufferedBytes /\ UDPBufferBytes <= MaxBufferedBytes

VARIABLES
  now,         \* the clock, in seconds
  table,       \* SocketEgress.flows: flow ID -> socket, 0 when absent
  sock,        \* every socketFlow, in the order of reservation
  buffered,    \* SocketEgress.buffered
  shut,        \* how far Close has come
  swapped,     \* the sockets Close took out of the map
  cancelled,   \* SocketEgress.ctx is done: Close, or the context it came from
  sinkOpen,    \* FrameSink still accepts frames (the session is not terminated)
  announced    \* history: the sockets whose pump queued a FLOW_CLOSE

egressVars == <<table, sock, buffered, shut, swapped, cancelled, sinkOpen, announced>>

(***************************************************************************)
(* The read pump of a socket: not started; at the head of its loop; in     *)
(* Read; queueing what it read (the last time, when the read also failed); *)
(* about to ask whether the peer aborted; queueing a FLOW_CLOSE; calling   *)
(* the observer; in the deferred closeFlow; returned.                      *)
(***************************************************************************)
PumpStates == {"none", "top", "read", "data", "lastData", "close", "queue",
               "observe", "exit", "done"}

SocketFlow ==
  [id : FlowIDs, kind : Kinds, born : Nat, conn : {"none", "open", "closed"},
   cancelled : BOOLEAN, peerClosed : BOOLEAN, peerAborted : BOOLEAN,
   pump : PumpStates]

Sockets == 1..Len(sock)

BufferBytes(kind) == IF kind = "tcp" THEN TCPReadBufferBytes ELSE UDPBufferBytes

EgressInit ==
  /\ table = [f \in FlowIDs |-> 0] /\ sock = <<>> /\ buffered = 0
  /\ shut = "open" /\ swapped = {} /\ cancelled = FALSE
  /\ sinkOpen = TRUE /\ announced = {}

\* closed || ctx.Err() != nil: what every entry point tests under the mutex.
EgressClosed == shut # "open" \/ cancelled

FlowCancelled(i) == sock[i].cancelled \/ cancelled

(***************************************************************************)
(* reserveFlow                                                             *)
(***************************************************************************)
Reservable(f, kind) ==
  /\ table[f] = 0
  /\ Cardinality({g \in FlowIDs : table[g] # 0}) < MaxFlows
  /\ BufferBytes(kind) <= MaxBufferedBytes - buffered

ReserveFlow(f, kind, born) ==
  /\ sock' = Append(sock, [id |-> f, kind |-> kind, born |-> born, conn |-> "none",
                           cancelled |-> FALSE, peerClosed |-> FALSE,
                           peerAborted |-> FALSE, pump |-> "none"])
  /\ table' = [table EXCEPT ![f] = Len(sock) + 1]
  /\ buffered' = buffered + BufferBytes(kind)

(***************************************************************************)
(* releaseFlow takes a socket out of the map only while the map still holds*)
(* that very socket; after Close, or once the ID names another, it does    *)
(* nothing.  closeFlow cancels, closes the connection once, and releases.  *)
(***************************************************************************)
ReleaseFlow(i) ==
  LET f == sock[i].id
  IN  IF table[f] = i
      THEN /\ table' = [table EXCEPT ![f] = 0]
           /\ buffered' = buffered - BufferBytes(sock[i].kind)
      ELSE UNCHANGED <<table, buffered>>

Shut(s) == [s EXCEPT !.cancelled = TRUE, !.conn = IF @ = "open" THEN "closed" ELSE @]

CloseFlow(i, s) == sock' = [sock EXCEPT ![i] = Shut(s)] /\ ReleaseFlow(i)

(***************************************************************************)
(* The read pump.                                                          *)
(***************************************************************************)
PumpTo(i, state) == sock' = [sock EXCEPT ![i].pump = state]

\* The head of the loop: a cancelled flow ends here, without a FLOW_CLOSE.
PumpLoop(i) ==
  /\ sock[i].pump = "top"
  /\ PumpTo(i, IF FlowCancelled(i) THEN "exit" ELSE "read")
  /\ UNCHANGED <<table, buffered, shut, swapped, cancelled, sinkOpen, announced>>

\* Read returns data, data with an error, or nothing but an end: an error, a
\* timeout, the end of the stream, or more than a datagram may hold.
PumpRead(i) ==
  /\ sock[i].pump = "read"
  /\ \E next \in IF FlowCancelled(i) \/ sock[i].conn # "open" THEN {"close"}
                 ELSE {"data", "lastData", "close"} : PumpTo(i, next)
  /\ UNCHANGED <<table, buffered, shut, swapped, cancelled, sinkOpen, announced>>

\* queueSocketFrames(flow.ctx, data): accepted by the sink, ...
PumpDataQueued(i) ==
  /\ sock[i].pump \in {"data", "lastData"}
  /\ sinkOpen
  /\ PumpTo(i, IF sock[i].pump = "data" THEN "top" ELSE "close")
  /\ UNCHANGED <<table, buffered, shut, swapped, cancelled, sinkOpen, announced>>

\* ... or given up because the flow was cancelled or the sink refused it.
PumpDataDropped(i) ==
  /\ sock[i].pump \in {"data", "lastData"}
  /\ FlowCancelled(i) \/ ~sinkOpen
  /\ PumpTo(i, "close")
  /\ UNCHANGED <<table, buffered, shut, swapped, cancelled, sinkOpen, announced>>

\* queueFlowClose: silent when the peer aborted the flow first.
PumpDecides(i) ==
  /\ sock[i].pump = "close"
  /\ PumpTo(i, IF sock[i].peerAborted THEN "exit" ELSE "queue")
  /\ UNCHANGED <<table, buffered, shut, swapped, cancelled, sinkOpen, announced>>

PumpCloseQueued(i) ==
  /\ sock[i].pump = "queue"
  /\ sinkOpen
  /\ PumpTo(i, "observe")
  /\ announced' = announced \cup {i}
  /\ UNCHANGED <<table, buffered, shut, swapped, cancelled, sinkOpen>>

\* The retries end with the egress context, not with the flow's.
RetryForever(i) ==
  /\ sock[i].pump = "queue"
  /\ ~sinkOpen
  /\ PumpTo(i, "exit")
  /\ UNCHANGED <<table, buffered, shut, swapped, cancelled, sinkOpen, announced>>

PumpCloseDropped(i) ==
  /\ sock[i].pump = "queue"
  /\ cancelled \/ ~sinkOpen
  /\ PumpTo(i, "exit")
  /\ UNCHANGED <<table, buffered, shut, swapped, cancelled, sinkOpen, announced>>

\* The deferred closeFlow, and the pump's share of the wait group.
PumpReturns(i) ==
  /\ sock[i].pump = "exit"
  /\ CloseFlow(i, [sock[i] EXCEPT !.pump = "done"])
  /\ UNCHANGED <<shut, swapped, cancelled, sinkOpen, announced>>

(***************************************************************************)
(* Close: refuse new work and take the map; cancel everything and close    *)
(* the connections it took; wait for the operation in flight and for every *)
(* pump.                                                                   *)
(***************************************************************************)
EgressCloseBegins ==
  /\ shut = "open"
  /\ shut' = "marked"
  /\ swapped' = {table[f] : f \in FlowIDs} \ {0}
  /\ table' = [f \in FlowIDs |-> 0]
  /\ buffered' = 0
  /\ UNCHANGED <<sock, cancelled, sinkOpen, announced>>

EgressCloseCancels ==
  /\ shut = "marked"
  /\ shut' = "waiting"
  /\ cancelled' = TRUE
  /\ sock' = [i \in Sockets |-> IF i \in swapped THEN Shut(sock[i]) ELSE sock[i]]
  /\ UNCHANGED <<table, buffered, swapped, sinkOpen, announced>>

PumpsReturned == \A i \in Sockets : sock[i].pump \in {"none", "done"}

ReturnsWithoutHandler(operations) ==
  /\ shut = "waiting"
  /\ operations \in {0, 1} /\ PumpsReturned
  /\ shut' = "done"
  /\ UNCHANGED <<table, sock, buffered, swapped, cancelled, sinkOpen, announced>>

EgressCloseReturns(operations) ==
  /\ shut = "waiting"
  /\ operations = 0 /\ PumpsReturned
  /\ shut' = "done"
  /\ UNCHANGED <<table, sock, buffered, swapped, cancelled, sinkOpen, announced>>

\* The context the egress was created with is cancelled.
ParentCancelled ==
  /\ ~cancelled
  /\ cancelled' = TRUE
  /\ UNCHANGED <<table, sock, buffered, shut, swapped, sinkOpen, announced>>

\* The session under the sink terminates: frames are refused from now on.
SinkCloses ==
  /\ sinkOpen
  /\ sinkOpen' = FALSE
  /\ UNCHANGED <<table, sock, buffered, shut, swapped, cancelled, announced>>
=============================================================================
