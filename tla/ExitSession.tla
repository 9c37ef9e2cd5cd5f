----------------------------- MODULE ExitSession -----------------------------
(***************************************************************************)
(* One exit session: relay/egress.go (ExitSession), the validator          *)
(* relay/relay.go (ExitFlowHandler) it drives, and its SocketEgress.       *)
(*                                                                         *)
(* ExitSession.mu serialises HandleFrameBlock, so there is one handler; h  *)
(* says what it is doing.  A frame goes through the validator, becomes an  *)
(* event, goes through the egress, and what comes back is queued on the    *)
(* sink.  The pumps call observeLocalClose, which changes the validator's  *)
(* table from their own goroutines, between any two of those steps.  The   *)
(* time of a block is read once, when the block arrives: h.at.             *)
(***************************************************************************)
EXTENDS SocketEgress

CONSTANTS
  WindowSeconds, MaxFlowOpens, MaxBytes,   \* ExitRateLimit; 0 disables a limit
  MaxTime, MaxOpens,                       \* model bounds: clock, FLOW_OPENs
  Disturbances                             \* which of the world's failures happen

ASSUME SessionAssumption ==
  /\ WindowSeconds \in Nat \ {0} /\ MaxFlowOpens \in Nat /\ MaxBytes \in Nat
  /\ MaxTime \in Nat /\ MaxOpens \in Nat
  /\ Disturbances \subseteq {"caller", "parent", "sink"}

VARIABLES
  validator,   \* ExitFlowHandler.flows
  rate,        \* ExitFlowHandler.rateWindow, rateWindowActive
  h,           \* the handler: where it is, for which flow, socket and time
  closing,     \* ExitSession.closing is closed
  ctxDone,     \* the context of the caller of HandleFrameBlock is done
  opens        \* history: FLOW_OPENs the validator has accepted

vars == <<now, table, sock, buffered, shut, swapped, cancelled, sinkOpen,
          announced, validator, rate, h, closing, ctxDone, opens>>

\* Between two frames: the block that arrived at time `at' may have more frames.
Idle(at) == [pc |-> "block", f |-> CHOOSE f \in FlowIDs : TRUE, kind |-> "tcp",
             i |-> 0, born |-> 0, at |-> at, abort |-> FALSE, why |-> "none"]

\* HandleFrameBlock has returned an error, and its caller gives the session up.
Failed(why) == [Idle(0) EXCEPT !.pc = "failed", !.why = why]

\* The operations HandleEvent has in flight: its share of the wait group.
InEgress == h.pc \in {"dialing", "starting", "writing", "resolving"}

HandlerStates == {"idle", "block", "marking", "opening", "dialing", "starting", "active",
                  "writing", "closed", "dns", "resolving", "queue", "failed"}

Init ==
  /\ now = 0 /\ EgressInit
  /\ validator = [f \in FlowIDs |-> NoFlow]
  /\ rate = [active |-> FALSE, start |-> 0, opens |-> 0, bytes |-> 0]
  /\ h = [Idle(0) EXCEPT !.pc = "idle"] /\ closing = FALSE /\ ctxDone = FALSE /\ opens = 0

(***************************************************************************)
(* consumeRateLimit.  A limit of zero is off; its counter is then not kept.*)
(***************************************************************************)
RateWindowExpired(at) == at < rate.start \/ at - rate.start >= WindowSeconds

Window(at) ==
  IF ~rate.active \/ RateWindowExpired(at)
  THEN [active |-> TRUE, start |-> at, opens |-> 0, bytes |-> 0] ELSE rate

WithinRate(at, flowOpens, bytes) ==
  LET w == Window(at)
  IN  /\ MaxFlowOpens = 0 \/ w.opens + flowOpens <= MaxFlowOpens
      /\ MaxBytes = 0 \/ w.bytes + bytes <= MaxBytes

Consumed(at, flowOpens, bytes) ==
  LET w == Window(at)
  IN  IF WithinRate(at, flowOpens, bytes)
      THEN [w EXCEPT !.opens = IF MaxFlowOpens = 0 THEN 0 ELSE @ + flowOpens,
                     !.bytes = IF MaxBytes = 0 THEN 0 ELSE @ + bytes]
      ELSE w

(***************************************************************************)
(* HandleFrameBlock and the validator.  A frame is the first of a block,   *)
(* which reads the clock, or a later one of the block at hand.             *)
(***************************************************************************)
FrameArrives(at) ==
  /\ h.pc \in {"idle", "block"} /\ ~closing /\ ~ctxDone
  /\ at = now \/ (at = h.at /\ h.pc = "block")

\* A block that finds the session closing, or its context done.
HandleFrameBlockRefused ==
  /\ h.pc \in {"idle", "block"} /\ (closing \/ ctxDone)
  /\ h' = Failed("stopped")
  /\ UNCHANGED <<now, egressVars, validator, rate, closing, ctxDone, opens>>

\* The exit policy refuses the target: a FLOW_CLOSE, and no event for the egress.
FlowOpenDenied(f, at) ==
  /\ FrameArrives(at)
  /\ validator' = PurgeClosed(validator, at)
  /\ h' = [Idle(at) EXCEPT !.pc = "queue", !.f = f]
  /\ UNCHANGED <<now, egressVars, rate, closing, ctxDone, opens>>

HandleFlowOpenFrame(f, kind, at) ==
  LET v == PurgeClosed(validator, at)
  IN  /\ FrameArrives(at) /\ opens < MaxOpens
      /\ IF Present(v, f)
         THEN validator' = v /\ h' = Failed("duplicate") /\ UNCHANGED <<rate, opens>>
         ELSE /\ rate' = Consumed(at, 1, 0)
              /\ IF WithinRate(at, 1, 0)
                 THEN /\ opens' = opens + 1
                      /\ validator' = Opened(v, f, kind, opens', at)
                      /\ h' = [Idle(at) EXCEPT !.pc = "opening", !.f = f,
                                               !.kind = kind, !.born = opens']
                 ELSE validator' = v /\ h' = Failed("rate") /\ UNCHANGED opens
      /\ UNCHANGED <<now, egressVars, closing, ctxDone>>

\* STREAM_DATA, or DATAGRAM_DATA, which only a UDP association accepts.
HandleDataFrame(f, datagram, at) ==
  LET v == PurgeClosed(validator, at)
      s == v[f]
      takes == IF s.kind = "tcp" /\ ~datagram THEN ~s.localClosed
               ELSE AcceptsDatagram(v, f, at)
      allowed == WithinRate(at, 0, 1)
  IN  /\ FrameArrives(at)
      /\ rate' = Consumed(at, 0, 1)
      /\ validator' = IF allowed THEN AfterDatagram(v, f, at) ELSE v
      /\ h' = CASE ~allowed -> Failed("rate")
                [] allowed /\ s.peerClosed -> Failed("afterClose")
                [] allowed /\ ~s.peerClosed /\ takes ->
                     [Idle(at) EXCEPT !.pc = "active", !.f = f, !.kind = s.kind,
                                      !.born = s.born]
                [] OTHER -> Idle(at)
      /\ UNCHANGED <<now, egressVars, closing, ctxDone, opens>>

HandleDNSFrame(f, at) ==
  /\ FrameArrives(at)
  /\ validator' = PurgeClosed(validator, at)
  /\ rate' = Consumed(at, 0, 1)
  /\ h' = IF WithinRate(at, 0, 1) THEN [Idle(at) EXCEPT !.pc = "dns", !.f = f]
          ELSE Failed("rate")
  /\ UNCHANGED <<now, egressVars, closing, ctxDone, opens>>

\* handleFlowCloseFrame looks the flow up and marks it in two critical sections.
HandleFlowCloseFrame(f, abort, at) ==
  LET v == PurgeClosed(validator, at)
  IN  /\ FrameArrives(at)
      /\ validator' = v
      /\ h' = IF Present(v, f)
              THEN [Idle(at) EXCEPT !.pc = "marking", !.f = f, !.abort = abort,
                                    !.born = v[f].born]
              ELSE Idle(at)
      /\ UNCHANGED <<now, egressVars, rate, closing, ctxDone, opens>>

MarkPeerClose ==
  /\ h.pc = "marking"
  /\ validator' = MarkClose(validator, h.f, FALSE, h.at)
  /\ h' = IF Present(validator, h.f) THEN [h EXCEPT !.pc = "closed"]
          ELSE Failed("raced")
  /\ UNCHANGED <<now, egressVars, rate, closing, ctxDone, opens>>

(***************************************************************************)
(* The event at the egress.  recoverFlowFailure turns the failure of one   *)
(* flow into a FLOW_CLOSE and the validator's local close, or drops it;    *)
(* every other failure ends HandleFrameBlock.                              *)
(***************************************************************************)
LifecycleError == cancelled \/ ctxDone

FailedEvent == h' = Failed("stopped") /\ UNCHANGED validator

RefusedUnmarked ==
  /\ h' = [h EXCEPT !.pc = "queue"]
  /\ UNCHANGED validator

RefusedOpen ==
  /\ h' = [h EXCEPT !.pc = "queue"]
  /\ validator' = MarkClose(validator, h.f, TRUE, h.at)

\* handleFlowOpened, up to the dial: reserve the ID and the buffer.
HandleFlowOpened ==
  /\ h.pc = "opening"
  /\ IF ctxDone \/ EgressClosed
     THEN FailedEvent /\ UNCHANGED <<table, sock, buffered>>
     ELSE IF Reservable(h.f, h.kind)
     THEN /\ ReserveFlow(h.f, h.kind, h.born)
          /\ h' = [h EXCEPT !.pc = "dialing", !.i = Len(sock')]
          /\ UNCHANGED validator
     ELSE RefusedOpen /\ UNCHANGED <<table, sock, buffered>>
  /\ UNCHANGED <<now, shut, swapped, cancelled, sinkOpen, announced, rate, closing,
                 ctxDone, opens>>

\* The resolver, the policy on its answers or the dialer refuses; a dial that
\* the end of the egress or of the caller's context interrupted is fatal.
DialFails ==
  /\ h.pc = "dialing"
  /\ ReleaseFlow(h.i)
  /\ sock' = [sock EXCEPT ![h.i].cancelled = @ \/ table[h.f] = h.i]
  /\ RefusedOpen \/ (LifecycleError /\ FailedEvent)
  /\ UNCHANGED <<now, shut, swapped, cancelled, sinkOpen, announced, rate, closing,
                 ctxDone, opens>>

InstallUnchecked ==
  /\ h.pc = "dialing"
  /\ sock' = [sock EXCEPT ![h.i].conn = "open"]
  /\ h' = [h EXCEPT !.pc = "starting"]
  /\ UNCHANGED <<now, table, buffered, shut, swapped, cancelled, sinkOpen, announced,
                 validator, rate, closing, ctxDone, opens>>

\* installFlow: the connection is given to the socket, or closed at once.
InstallFlow ==
  /\ h.pc = "dialing"
  /\ IF EgressClosed \/ ctxDone \/ table[h.f] # h.i
     THEN /\ sock' = [sock EXCEPT ![h.i].conn = "closed",
                                  ![h.i].cancelled = @ \/ table[h.f] = h.i]
          /\ ReleaseFlow(h.i)
          /\ FailedEvent
     ELSE /\ sock' = [sock EXCEPT ![h.i].conn = "open"]
          /\ h' = [h EXCEPT !.pc = "starting"]
          /\ UNCHANGED <<table, buffered, validator>>
  /\ UNCHANGED <<now, shut, swapped, cancelled, sinkOpen, announced, rate, closing,
                 ctxDone, opens>>

\* startTCPReadPump, startUDPReadPump; a UDP association is then confirmed.
StartReadPump ==
  /\ h.pc = "starting"
  /\ IF EgressClosed \/ table[h.f] # h.i
     THEN CloseFlow(h.i, sock[h.i]) /\ FailedEvent
     ELSE /\ PumpTo(h.i, "top")
          /\ h' = IF h.kind = "udp" THEN [h EXCEPT !.pc = "queue"] ELSE Idle(h.at)
          /\ UNCHANGED <<table, buffered, validator>>
  /\ UNCHANGED <<now, shut, swapped, cancelled, sinkOpen, announced, rate, closing,
                 ctxDone, opens>>

\* activeFlow: the socket the ID names now.
ActiveFlow ==
  /\ h.pc = "active"
  /\ h' = LET i == table[h.f]
          IN  IF ctxDone \/ EgressClosed THEN Failed("stopped")
              ELSE IF i = 0 THEN Idle(h.at)
              ELSE IF sock[i].conn = "none" \/ sock[i].kind # h.kind THEN Idle(h.at)
              ELSE [h EXCEPT !.pc = "writing", !.i = i]
  /\ UNCHANGED <<now, egressVars, validator, rate, closing, ctxDone, opens>>

\* handleTCPData, handleUDPData: nothing is written to a half-closed flow or for
\* a caller that is gone; otherwise the bytes reach the connection ...
WriteSucceeds ==
  /\ h.pc = "writing"
  /\ sock[h.i].peerClosed \/ ctxDone \/ sock[h.i].conn = "open"
  /\ h' = IF ~sock[h.i].peerClosed /\ ctxDone THEN Failed("stopped") ELSE Idle(h.at)
  /\ UNCHANGED <<now, egressVars, validator, rate, closing, ctxDone, opens>>

\* ... or they do not, and the socket is closed and its ID released, while its
\* pump is still running ...
WriteFails ==
  /\ h.pc = "writing" /\ ~sock[h.i].peerClosed
  /\ CloseFlow(h.i, sock[h.i])
  /\ h' = IF LifecycleError THEN Failed("stopped") ELSE Idle(h.at)
  /\ UNCHANGED <<now, shut, swapped, cancelled, sinkOpen, announced, validator,
                 rate, closing, ctxDone, opens>>

\* ... as they are for a datagram that is too large or whose target expired.
DatagramRefused ==
  /\ h.pc = "writing" /\ sock[h.i].kind = "udp"
  /\ CloseFlow(h.i, sock[h.i])
  /\ h' = Idle(h.at)
  /\ UNCHANGED <<now, shut, swapped, cancelled, sinkOpen, announced, validator,
                 rate, closing, ctxDone, opens>>

\* handleFlowClosed: a normal close of a TCP flow only shuts its writing half,
\* if CloseWrite works; any other close aborts the socket.
HandleFlowClosed ==
  /\ h.pc = "closed"
  /\ IF ctxDone \/ EgressClosed
     THEN h' = Failed("stopped") /\ UNCHANGED <<table, sock, buffered>>
     ELSE /\ h' = Idle(h.at)
          /\ LET i == table[h.f]
             IN IF i = 0 THEN UNCHANGED <<table, sock, buffered>>
                ELSE IF h.abort \/ sock[i].kind # "tcp"
                THEN CloseFlow(i, [sock[i] EXCEPT !.peerAborted = TRUE])
                ELSE \/ /\ sock' = [sock EXCEPT ![i].peerClosed = TRUE]
                        /\ UNCHANGED <<table, buffered>>
                     \/ /\ ~sock[i].peerClosed
                        /\ CloseFlow(i, [sock[i] EXCEPT !.peerClosed = TRUE])
  /\ UNCHANGED <<now, shut, swapped, cancelled, sinkOpen, announced, validator,
                 rate, closing, ctxDone, opens>>

\* handleDNSMessage: malformed, answered, or interrupted.
HandleDNSMessage ==
  /\ h.pc = "dns"
  /\ h' \in IF ctxDone \/ EgressClosed THEN {Failed("stopped")}
            ELSE {Idle(h.at), [h EXCEPT !.pc = "resolving"]}
  /\ UNCHANGED <<now, egressVars, validator, rate, closing, ctxDone, opens>>

DNSAnswered ==
  /\ h.pc = "resolving"
  /\ h' \in {[h EXCEPT !.pc = "queue"]} \cup {x \in {Failed("stopped")} : LifecycleError}
  /\ UNCHANGED <<now, egressVars, validator, rate, closing, ctxDone, opens>>

\* queueFrames: the sink takes the frames, or the wait for room is given up.
FramesQueued ==
  /\ h.pc = "queue" /\ sinkOpen
  /\ h' = Idle(h.at)
  /\ UNCHANGED <<now, egressVars, validator, rate, closing, ctxDone, opens>>

FramesNotQueued ==
  /\ h.pc = "queue" /\ (closing \/ ctxDone \/ ~sinkOpen)
  /\ h' = Failed("stopped")
  /\ UNCHANGED <<now, egressVars, validator, rate, closing, ctxDone, opens>>

(***************************************************************************)
(* The pumps, and their observer: MarkLocalClose, by flow ID.              *)
(***************************************************************************)
ObserveLocalClose(i) ==
  /\ sock[i].pump = "observe"
  /\ validator' = MarkClose(validator, sock[i].id, TRUE, now)
  /\ PumpTo(i, "exit")
  /\ UNCHANGED <<now, table, buffered, shut, swapped, cancelled, sinkOpen, announced,
                 rate, h, closing, ctxDone, opens>>

sessionVars == <<now, validator, rate, h, closing, ctxDone, opens>>

\* What a pump does without waiting for the sink to take a frame.
PumpMoves(i) ==
  \/ PumpLoop(i) /\ UNCHANGED sessionVars
  \/ PumpDataDropped(i) /\ UNCHANGED sessionVars
  \/ PumpDecides(i) /\ UNCHANGED sessionVars
  \/ PumpCloseDropped(i) /\ UNCHANGED sessionVars
  \/ PumpReturns(i) /\ UNCHANGED sessionVars
  \/ ObserveLocalClose(i)

PumpReads(i) == PumpRead(i) /\ UNCHANGED sessionVars

PumpQueues(i) ==
  \/ PumpDataQueued(i) /\ UNCHANGED sessionVars
  \/ PumpCloseQueued(i) /\ UNCHANGED sessionVars

(***************************************************************************)
(* ExitSession.Close and the world around the session.                     *)
(***************************************************************************)
Close ==
  /\ ~closing
  /\ closing' = TRUE
  /\ UNCHANGED <<now, egressVars, validator, rate, h, ctxDone, opens>>

CloseProceeds ==
  /\ closing
  /\ \/ EgressCloseBegins
     \/ EgressCloseCancels
     \/ EgressCloseReturns(IF InEgress THEN 1 ELSE 0)
  /\ UNCHANGED sessionVars

CallerCancelled ==
  /\ "caller" \in Disturbances /\ ~ctxDone
  /\ ctxDone' = TRUE
  /\ UNCHANGED <<now, egressVars, validator, rate, h, closing, opens>>

Tick ==
  /\ now < MaxTime
  /\ now' = now + 1
  /\ UNCHANGED <<egressVars, validator, rate, h, closing, ctxDone, opens>>

World ==
  \/ Close \/ CallerCancelled \/ Tick
  \/ "parent" \in Disturbances /\ ParentCancelled /\ UNCHANGED sessionVars
  \/ "sink" \in Disturbances /\ SinkCloses /\ UNCHANGED sessionVars

Frames ==
  \E f \in FlowIDs, at \in {now, h.at} :
    \/ FlowOpenDenied(f, at)
    \/ \E kind \in Kinds : HandleFlowOpenFrame(f, kind, at)
    \/ \E datagram \in BOOLEAN : HandleDataFrame(f, datagram, at)
    \/ HandleDNSFrame(f, at)
    \/ \E abort \in BOOLEAN : HandleFlowCloseFrame(f, abort, at)

\* The steps of the handler after the frame has arrived.  A dial, a write and a
\* lookup have a timeout, so each of them ends.
HandlerMoves ==
  \/ MarkPeerClose \/ HandleFlowOpened \/ DialFails \/ InstallFlow \/ StartReadPump
  \/ ActiveFlow \/ WriteSucceeds \/ WriteFails \/ DatagramRefused
  \/ HandleFlowClosed \/ HandleDNSMessage \/ DNSAnswered \/ FramesNotQueued
  \/ HandleFrameBlockRefused

Next ==
  \/ World \/ Frames \/ HandlerMoves \/ FramesQueued \/ CloseProceeds
  \/ \E i \in Sockets : PumpMoves(i) \/ PumpReads(i) \/ PumpQueues(i)

Spec == Init /\ [][Next]_vars

(***************************************************************************)
(* Fairness.  Every goroutine that can move does: the pumps (a Read ends   *)
(* at the latest with the idle deadline), the handler, and Close.  Nothing *)
(* is assumed of the sink: it may be full for ever.                        *)
(***************************************************************************)
FairSpec ==
  /\ Spec
  /\ \A i \in 1..MaxOpens : WF_vars(i \in Sockets /\ PumpMoves(i))
                         /\ WF_vars(i \in Sockets /\ PumpReads(i))
  /\ WF_vars(HandlerMoves)
  /\ WF_vars(CloseProceeds)

(***************************************************************************)
(* Properties                                                              *)
(***************************************************************************)
\* The state stays within its types.
TypeOK ==
  /\ now \in 0..MaxTime /\ opens \in 0..MaxOpens
  /\ table \in [FlowIDs -> 0..Len(sock)]
  /\ sock \in Seq(SocketFlow) /\ Len(sock) <= MaxOpens
  /\ buffered \in 0..MaxBufferedBytes
  /\ shut \in {"open", "marked", "waiting", "done"}
  /\ swapped \subseteq Sockets /\ announced \subseteq Sockets
  /\ {cancelled, sinkOpen, closing, ctxDone} \subseteq BOOLEAN
  /\ validator \in [FlowIDs -> FlowStates(0..MaxTime, 0..MaxOpens)]
  /\ h.pc \in HandlerStates

\* A connection that is still open can be found: it is in the map under its own
\* ID, or in the hands of Close.  No release drops an open connection, not even
\* when a pump of an earlier flow with the same ID returns late.
SocketsOwned ==
  \A i \in Sockets :
    sock[i].conn = "open" =>
      \/ table[sock[i].id] = i
      \/ shut = "marked" /\ i \in swapped

\* Bytes a client sends on a flow are written to the socket opened for that flow,
\* never to one an earlier flow with the same ID left behind (activeFlow looks up
\* by ID only; a refused FLOW_OPEN must be closed at the validator too).
DataReachesOwnSocket ==
  h.pc = "writing" => sock[h.i].born = h.born

\* When Close returns there is no open connection, no running pump and no
\* operation in flight.
ShutReleases ==
  shut = "done" => /\ \A i \in Sockets : sock[i].conn # "open"
                   /\ PumpsReturned /\ ~InEgress

\* Close returns, even when the sink never takes another frame.
CloseReturns == closing ~> shut = "done"

\* "Such frames are dropped, not fatal" (errExitFlowUnavailable): a peer close
\* that raced the relay-side close does not end the session.
RacedPeerCloseIsDropped == h.why # "raced"

\* A flow the egress closed on its own, and that the peer did not abort, has been
\* announced with a FLOW_CLOSE by the time its pump returns (queueFlowClose).
\* The code does not keep this: a pump that finds its context cancelled at the
\* head of its loop returns without a word.
EveryCloseAnnounced ==
  \A i \in Sockets :
    sock[i].pump = "done" /\ ~sock[i].peerAborted /\ ~cancelled /\ sinkOpen
      => i \in announced

\* The observer lets the validator drain the flow the relay closed: the entry it
\* marks is the one its socket was opened for.  The code does not keep this: the
\* report names the ID only, and the ID may have been opened again.
ObserverMarksOwnFlow ==
  \A i \in Sockets :
    sock[i].pump = "observe" /\ Present(validator, sock[i].id)
      => validator[sock[i].id].born = sock[i].born
=============================================================================
