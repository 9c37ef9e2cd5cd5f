---------------------------- MODULE ProxyRuntime ----------------------------
(***************************************************************************)
(* client.TCPProxyRuntime: local HTTP CONNECT and SOCKS5 connections over  *)
(* one encrypted session.  Per flow there is the goroutine that serves the *)
(* local connection (serve) and one that writes to it (pump); of a UDP     *)
(* association, serve is its datagram reader and pump the goroutine that   *)
(* waits for its control connection.  One handler takes the relay's frames *)
(* from the read pump of the carrier, and Close may come at any time.      *)
(*                                                                         *)
(* A flow is known in three places that change separately: the runtime's   *)
(* maps (reg), the flow manager of its LocalProxy (mgr), and the flow      *)
(* itself (done).  Flow IDs are not reused, so a flow is its ID.           *)
(*                                                                         *)
(* QueueFrames of the session may refuse with backpressure at any time.    *)
(* The relay is modelled by what it may send: for a flow whose FLOW_OPEN   *)
(* was queued, a UDP confirmation, data, and one FLOW_CLOSE.               *)
(***************************************************************************)
EXTENDS Integers, FiniteSets, Functions

CONSTANTS
    TCPFlows,       \* local TCP connections, one flow each
    UDPFlows,       \* UDP associations, one target each
    Settings,       \* the runtimes considered: see settings
    None

Flows == TCPFlows \cup UDPFlows

ASSUME ProxyAssumption ==
    /\ TCPFlows \cap UDPFlows = {} /\ None \notin Flows
    /\ \A c \in Settings :
          /\ c.flows \subseteq Flows
          /\ {c.maxFlows, c.maxPending, c.maxTotal, c.queueLength} \subseteq Nat \ {0}
          /\ c.maxChunks \in Nat /\ c.ends \in BOOLEAN

VARIABLES
    settings,   \* the runtime's options and the bounds, which never change
    reg,        \* flows in r.flows or r.udpFlows
    mgr,        \* mgr[f]: none, open, local or peer (the half that is closed)
    done,       \* flows whose close() has begun
    conn,       \* open local connections and association sockets
    draining, closeSent,    \* flows with these flags set
    writes,     \* writes[f]: chunks in the flow's channel
    pend,       \* pend[f]: flow.pendingWrites
    total,      \* r.pendingWriteBytes
    shutting,   \* flows whose close() has yet to empty the channel
    serve, pump, hd,        \* where the goroutines are
    closed, doomed,         \* Close has begun; flows it has yet to close
    relay,      \* relay[f]: none, open, confirmed, closed
    confirmed,  \* UDP flows with flow.confirmed
    carrier,    \* up, or why the duplex ended
    sent, closes, accepted, delivered, failed   \* history, per flow

flowVars == <<reg, mgr, done, conn, draining, closeSent, writes, pend, total, shutting>>
peerVars == <<relay, confirmed, carrier>>
history == <<sent, closes, accepted, delivered, failed>>
vars == <<settings, flowVars, serve, pump, hd, closed, doomed, peerVars, history>>

MaxFlows == settings.maxFlows           \* options.MaxFlows
MaxPending == settings.maxPending       \* options.MaxPendingWriteBytes, in chunks
MaxTotal == settings.maxTotal           \* options.MaxTotalPendingWriteBytes, in chunks
QueueLength == settings.queueLength     \* tcpProxyWriteQueueLength
MaxChunks == settings.maxChunks         \* bound: chunks of relay data per flow
Arriving == settings.flows              \* bound: who connects
Ends == settings.ends                   \* bound: whether the carrier is lost or Close called

Idle == [pc |-> "idle", f |-> None]
Zero == [f \in Flows |-> 0]

Init ==
    /\ settings \in Settings
    /\ reg = {} /\ mgr = [f \in Flows |-> "none"] /\ done = {} /\ conn = {}
    /\ draining = {} /\ closeSent = {} /\ writes = Zero /\ pend = Zero /\ total = 0
    /\ shutting = {}
    /\ serve = [f \in Flows |-> "none"] /\ pump = [f \in Flows |-> "none"] /\ hd = Idle
    /\ closed = FALSE /\ doomed = {}
    /\ relay = [f \in Flows |-> "none"] /\ confirmed = {} /\ carrier = "up"
    /\ sent = {} /\ closes = Zero /\ accepted = Zero /\ delivered = Zero /\ failed = {}

At(f, s) == serve' = [serve EXCEPT ![f] = s]
PumpAt(f, s) == pump' = [pump EXCEPT ![f] = s]
Handler(pc, f) == hd' = [pc |-> pc, f |-> f]
Mgr(f, s) == mgr' = [mgr EXCEPT ![f] = s]

\* The session takes a frame while the carrier is up, unless its queue is full.
Queued == carrier = "up"
\* QueueFrames returns an error: backpressure, or the session is gone.
NotQueued == TRUE
-----------------------------------------------------------------------------
(* abortFlow: detach the flow, forget it in the manager, then flow.close.  *)
(* Only who finds the flow in the map goes on.                             *)

Detach(f, found, missing) ==
    /\ reg' = reg \ {f}
    /\ IF f \in reg THEN found ELSE missing
    /\ UNCHANGED <<mgr, done, conn, draining, closeSent, writes, pend, total, shutting>>

Forget(f) ==
    /\ Mgr(f, "none")
    /\ UNCHANGED <<reg, done, conn, draining, closeSent, writes, pend, total, shutting>>

\* closeOnce: the first caller closes done and the connection, others wait for it.
Shut(f, first, again) ==
    \/ /\ f \notin done
       /\ done' = done \cup {f} /\ conn' = conn \ {f} /\ shutting' = shutting \cup {f}
       /\ first
       /\ UNCHANGED <<reg, mgr, draining, closeSent, writes, pend, total>>
    \/ /\ f \in done \ shutting
       /\ again
       /\ UNCHANGED flowVars

Empty(f) ==
    /\ total' = total - writes[f]
    /\ writes' = [writes EXCEPT ![f] = 0]
    /\ shutting' = shutting \ {f}
    /\ UNCHANGED <<reg, mgr, done, conn, draining, closeSent, pend>>

\* serveConnection returns an error: its deferred call closes the connection.
ServeReturns(f) ==
    /\ serve[f] = "failed"
    /\ At(f, "returned") /\ conn' = conn \ {f}
    /\ UNCHANGED <<reg, mgr, done, draining, closeSent, writes, pend, total, shutting,
                   pump, hd, closed, doomed, peerVars, history>>

ServeAborts(f) ==
    /\ \/ serve[f] = "detach" /\ Detach(f, At(f, "forget"), At(f, "failed"))
       \/ serve[f] = "forget" /\ Forget(f) /\ At(f, "shut")
       \/ serve[f] = "shut" /\ Shut(f, At(f, "empty"), At(f, "failed"))
       \/ serve[f] = "empty" /\ Empty(f) /\ At(f, "failed")
    /\ UNCHANGED <<pump, hd, closed, doomed, peerVars, history>>

PumpAborts(f) ==
    /\ f \in TCPFlows
    /\ \/ pump[f] = "detach" /\ Detach(f, PumpAt(f, "forget"), PumpAt(f, "exit"))
       \/ pump[f] = "forget" /\ Forget(f) /\ PumpAt(f, "shut")
       \/ pump[f] = "shut" /\ Shut(f, PumpAt(f, "empty"), PumpAt(f, "exit"))
       \/ pump[f] = "empty" /\ Empty(f) /\ PumpAt(f, "exit")
    /\ UNCHANGED <<serve, hd, closed, doomed, peerVars, history>>

HandlerAborts ==
    LET f == hd.f
    IN  /\ \/ hd.pc = "detach" /\ Detach(f, Handler("forget", f), hd' = Idle)
           \/ hd.pc = "forget" /\ Forget(f) /\ Handler("shut", f)
           \/ hd.pc = "shut" /\ Shut(f, Handler("empty", f), hd' = Idle)
           \/ hd.pc = "empty" /\ Empty(f) /\ hd' = Idle
        /\ UNCHANGED <<serve, pump, closed, doomed, peerVars, history>>
-----------------------------------------------------------------------------
(* serveConnection, for TCP.                                               *)

Pending == {f \in TCPFlows : serve[f] = "handshake"}
HasRoom == Cardinality(reg) < MaxFlows

\* Accept and addPending; a refused connection is closed at once.
Accept(f) ==
    /\ f \in TCPFlows \cap Arriving /\ serve[f] = "none"
    /\ IF closed \/ Cardinality(Pending) >= MaxFlows
       THEN At(f, "returned") /\ UNCHANGED conn
       ELSE At(f, "handshake") /\ conn' = conn \cup {f}
    /\ UNCHANGED <<reg, mgr, done, draining, closeSent, writes, pend, total, shutting,
                   pump, hd, closed, doomed, peerVars, history>>

HandshakeFails(f) ==
    /\ f \in TCPFlows /\ serve[f] = "handshake"
    /\ At(f, "failed")
    /\ UNCHANGED <<flowVars, pump, hd, closed, doomed, peerVars, history>>

\* openFlow registers the flow, ...
OpenFlow(f) ==
    /\ f \in TCPFlows /\ serve[f] = "handshake"
    /\ IF closed \/ ~HasRoom
       THEN At(f, "failed") /\ UNCHANGED reg
       ELSE At(f, "opening") /\ reg' = reg \cup {f}
    /\ UNCHANGED <<mgr, done, conn, draining, closeSent, writes, pend, total, shutting,
                   pump, hd, closed, doomed, peerVars, history>>

\* ... opens it in the manager, ...
OpenTCPFrame(f) ==
    /\ serve[f] = "opening"
    /\ Mgr(f, "open") /\ At(f, "queueing")
    /\ UNCHANGED <<reg, done, conn, draining, closeSent, writes, pend, total, shutting,
                   pump, hd, closed, doomed, peerVars, history>>

\* ... and queues FLOW_OPEN.  The write pump starts.
QueueOpen(f) ==
    /\ f \in TCPFlows /\ serve[f] = "queueing"
    /\ \/ /\ Queued
          /\ sent' = sent \cup {f} /\ relay' = [relay EXCEPT ![f] = "open"]
          /\ PumpAt(f, "select") /\ At(f, "replying")
       \/ NotQueued /\ At(f, "detach") /\ UNCHANGED <<sent, relay, pump>>
    /\ UNCHANGED <<flowVars, hd, closed, doomed, confirmed, carrier, closes, accepted,
                   delivered, failed>>

\* The response to the local client, and the handshake deadline, may fail.
Reply(f) ==
    /\ serve[f] = "replying"
    /\ \/ At(f, "reading") /\ UNCHANGED failed
       \/ At(f, "detach") /\ failed' = failed \cup {f}
    /\ UNCHANGED <<flowVars, pump, hd, closed, doomed, peerVars, sent, closes, accepted,
                   delivered>>

\* Local data: SendTCP looks at the manager, then the frame is queued.
ReadData(f) ==
    /\ f \in TCPFlows /\ serve[f] = "reading"
    /\ At(f, IF mgr[f] \in {"open", "peer"} THEN "sending" ELSE "detach")
    /\ UNCHANGED <<flowVars, pump, hd, closed, doomed, peerVars, history>>

\* The relay's validator ends the session on data of a flow its peer closed,
\* unless the relay has closed it too.
RelayRejects(f) == closes[f] > 0 /\ relay[f] # "closed"

QueueData(f) ==
    /\ f \in TCPFlows /\ serve[f] = "sending"
    /\ \/ /\ Queued /\ At(f, "reading")
          /\ carrier' = IF RelayRejects(f) THEN "afterClose" ELSE carrier
       \/ NotQueued /\ At(f, "detach") /\ UNCHANGED carrier
    /\ UNCHANGED <<flowVars, pump, hd, closed, doomed, relay, confirmed, history>>

ReadFails(f) ==
    /\ f \in TCPFlows /\ serve[f] = "reading"
    /\ At(f, "detach") /\ failed' = failed \cup {f}
    /\ UNCHANGED <<flowVars, pump, hd, closed, doomed, peerVars, sent, closes, accepted,
                   delivered>>

\* GracefulCloseFrame: the local half is closed; both halves delete the flow.
LocalClose(f) == Mgr(f, IF mgr[f] = "peer" THEN "none" ELSE "local")

\* sendLocalFlowClose up to its queue loop.
SendLocalFlowClose(f, first, again, unknown) ==
    IF f \in closeSent
    THEN again /\ UNCHANGED <<closeSent, mgr>>
    ELSE /\ closeSent' = closeSent \cup {f}
         /\ IF mgr[f] = "none" THEN unknown /\ UNCHANGED mgr ELSE first /\ LocalClose(f)

ReadEOF(f) ==
    /\ f \in TCPFlows /\ serve[f] = "reading" /\ f \in conn
    /\ SendLocalFlowClose(f, At(f, "closing"), At(f, "returned"), At(f, "detach"))
    /\ UNCHANGED <<reg, done, conn, draining, writes, pend, total, shutting,
                   pump, hd, closed, doomed, peerVars, history>>

\* queueLocalFlowClose retries on backpressure, and gives up with the carrier
\* or the runtime.
QueueClose(f) ==
    /\ f \in TCPFlows /\ serve[f] = "closing"
    /\ \/ Queued /\ ~closed /\ closes' = [closes EXCEPT ![f] = @ + 1] /\ At(f, "returned")
       \/ (~Queued \/ closed) /\ At(f, "detach") /\ UNCHANGED closes
    /\ UNCHANGED <<flowVars, pump, hd, closed, doomed, peerVars, sent, accepted,
                   delivered, failed>>
-----------------------------------------------------------------------------
(* runLocalWritePump.                                                      *)

PumpTakes(f) ==
    /\ pump[f] = "select" /\ writes[f] > 0
    /\ writes' = [writes EXCEPT ![f] = @ - 1]
    /\ PumpAt(f, "writing")
    /\ UNCHANGED <<reg, mgr, done, conn, draining, closeSent, pend, total, shutting,
                   serve, hd, closed, doomed, peerVars, history>>

PumpStops(f) ==
    /\ pump[f] = "select" /\ f \in done
    /\ PumpAt(f, "exit")
    /\ UNCHANGED <<flowVars, serve, hd, closed, doomed, peerVars, history>>

\* Mutant: the drain is judged before the written chunk is taken off.
LastChunkEarly(f) == f \in draining /\ pend[f] = 2
LastChunk(f) == f \in draining /\ pend[f] = 1

\* The write ends: the chunk is accounted for, and the last one of a drained
\* flow closes it.  A failed or short write aborts the flow.
PumpWrites(f) ==
    /\ pump[f] = "writing"
    /\ pend' = [pend EXCEPT ![f] = @ - 1] /\ total' = total - 1
    /\ \/ /\ f \in conn
          /\ delivered' = [delivered EXCEPT ![f] = @ + 1] /\ UNCHANGED failed
          /\ PumpAt(f, IF LastChunk(f) THEN "shut" ELSE "select")
       \/ failed' = failed \cup {f} /\ UNCHANGED delivered /\ PumpAt(f, "detach")
    /\ UNCHANGED <<reg, mgr, done, conn, draining, closeSent, writes, shutting,
                   serve, hd, closed, doomed, peerVars, sent, closes, accepted>>
-----------------------------------------------------------------------------
(* A UDP association: its reader and its control connection.               *)

\* A SOCKS5 UDP ASSOCIATE request, up to addUDPAssociation.
Associate(f) ==
    /\ f \in UDPFlows \cap Arriving /\ serve[f] = "none" /\ ~closed
    /\ At(f, "listening") /\ PumpAt(f, "control") /\ conn' = conn \cup {f}
    /\ UNCHANGED <<reg, mgr, done, draining, closeSent, writes, pend, total, shutting,
                   hd, closed, doomed, peerVars, history>>

\* A datagram arrives; the reader goes on with it whatever happens meanwhile.
\* One it cannot parse ends the association.
ReadDatagram(f) ==
    /\ f \in UDPFlows /\ serve[f] = "listening" /\ f \in conn
    /\ At(f, "targeting") \/ At(f, "failed")
    /\ UNCHANGED <<flowVars, pump, hd, closed, doomed, peerVars, history>>

\* udpFlowForTarget: the flow of the target, or a new one.  Bound: an
\* association whose FLOW_OPEN was queued gets no second flow ID.
TargetFlow(f) ==
    /\ serve[f] = "targeting"
    /\ IF closed THEN At(f, "failed") /\ UNCHANGED reg
       ELSE IF f \in reg THEN At(f, "known") /\ UNCHANGED reg
       ELSE IF ~HasRoom THEN At(f, "failed") /\ UNCHANGED reg
       ELSE f \notin sent /\ At(f, "new") /\ reg' = reg \cup {f}
    /\ UNCHANGED <<mgr, done, conn, draining, closeSent, writes, pend, total, shutting,
                   pump, hd, closed, doomed, peerVars, history>>

\* HandleSOCKS5UDPDatagramFrames: open the flow in the manager if it is not
\* there, then accept the datagram unless the flow is closed or has expired.
Datagram(f) ==
    /\ serve[f] \in {"new", "known"}
    /\ \/ /\ mgr[f] = "none" /\ Mgr(f, "open")
          /\ At(f, IF serve[f] = "new" THEN "first" ELSE "again")
       \/ mgr[f] = "open" /\ At(f, "more") /\ UNCHANGED mgr
       \/ mgr[f] = "open" /\ At(f, "failed") /\ Mgr(f, "none")
       \/ mgr[f] = "peer" /\ At(f, "failed") /\ UNCHANGED mgr
    /\ UNCHANGED <<reg, done, conn, draining, closeSent, writes, pend, total, shutting,
                   pump, hd, closed, doomed, peerVars, history>>

\* The frames are queued.  What the relay opens a second time, or hears of
\* after its FLOW_CLOSE, ends the session unless the relay has closed it too.
\* Backpressure drops the datagram, and with it a flow not yet announced.
QueueDatagram(f) ==
    /\ f \in UDPFlows /\ serve[f] \in {"first", "more", "again"}
    /\ \/ /\ Queued /\ sent' = sent \cup {f} /\ At(f, "listening")
          /\ relay' = IF serve[f] = "first" THEN [relay EXCEPT ![f] = "open"] ELSE relay
          /\ carrier' = IF serve[f] # "first" /\ RelayRejects(f) THEN "reopened" ELSE carrier
          /\ UNCHANGED <<reg, mgr>>
       \/ /\ NotQueued
          /\ At(f, IF Queued THEN "listening" ELSE "failed")
          /\ IF serve[f] = "first" THEN reg' = reg \ {f} /\ Mgr(f, "none")
             ELSE UNCHANGED <<reg, mgr>>
          /\ UNCHANGED <<sent, relay, carrier>>
    /\ UNCHANGED <<done, conn, draining, closeSent, writes, pend, total, shutting, pump,
                   hd, closed, doomed, confirmed, closes, accepted, delivered, failed>>

\* The reader fails, or finds its socket closed.
ReaderEnds(f) ==
    /\ f \in UDPFlows /\ serve[f] \in {"listening", "failed"}
    /\ serve[f] = "failed" \/ f \notin conn
    /\ At(f, "returned")
    /\ UNCHANGED <<flowVars, pump, hd, closed, doomed, peerVars, history>>

\* The control connection ends, the reader has, or the runtime closes (which
\* closes the socket as well): the deferred calls close the socket, ...
AssociationCloses(f) ==
    /\ f \in UDPFlows /\ pump[f] = "control"
    /\ conn' = conn \ {f} /\ PumpAt(f, "remove")
    /\ UNCHANGED <<reg, mgr, done, draining, closeSent, writes, pend, total, shutting,
                   serve, hd, closed, doomed, peerVars, history>>

\* ... remove the association's flows, ...
RemoveAssociation(f) ==
    /\ pump[f] = "remove"
    /\ reg' = reg \ {f}
    /\ PumpAt(f, IF f \in reg THEN IF closed THEN "forget" ELSE "announce" ELSE "exit")
    /\ UNCHANGED <<mgr, done, conn, draining, closeSent, writes, pend, total, shutting,
                   serve, hd, closed, doomed, peerVars, history>>

\* ... and make their FLOW_CLOSE frames, which are queued like a TCP flow's.
CloseFrame(f) ==
    /\ f \in UDPFlows /\ pump[f] \in {"forget", "announce"}
    /\ Mgr(f, "none")
    /\ PumpAt(f, IF mgr[f] # "none" /\ pump[f] = "announce" THEN "closing" ELSE "exit")
    /\ UNCHANGED <<reg, done, conn, draining, closeSent, writes, pend, total, shutting,
                   serve, hd, closed, doomed, peerVars, history>>

QueueUDPClose(f) ==
    /\ f \in UDPFlows /\ pump[f] = "closing"
    /\ \/ Queued /\ ~closed /\ closes' = [closes EXCEPT ![f] = @ + 1]
       \/ (~Queued \/ closed) /\ UNCHANGED closes
    /\ PumpAt(f, "exit")
    /\ UNCHANGED <<flowVars, serve, hd, closed, doomed, peerVars, sent, accepted,
                   delivered, failed>>
-----------------------------------------------------------------------------
(* HandleFrameBlock, on the read pump.  An error it returns ends the duplex.*)

Ready == hd.pc = "idle" /\ carrier = "up"
Fatal(why) == carrier' = why /\ hd' = Idle
\* The flow was retired locally; after Close there is no flow left to spare.
Retired == IF closed THEN "lost" ELSE "retired"

\* STREAM_DATA for a TCP flow: enqueueLocalWrite looks the flow up and reserves
\* the total budget, ...
ReceiveData(f) ==
    /\ Ready /\ f \in TCPFlows /\ relay[f] = "open" /\ accepted[f] < MaxChunks
    /\ IF f \notin reg THEN UNCHANGED <<hd, total>>
       ELSE IF total + 1 > MaxTotal THEN Handler("refuse", f) /\ UNCHANGED total
       ELSE Handler("enqueue", f) /\ total' = total + 1
    /\ UNCHANGED <<reg, mgr, done, conn, draining, closeSent, writes, pend, shutting,
                   serve, pump, closed, doomed, peerVars, history>>

\* ... and then, under the lock of the flow, finds it closed, full, or open.
Enqueue(f) ==
    IF f \in done
    THEN /\ total' = total - 1 /\ Fatal(Retired)
         /\ UNCHANGED <<writes, pend, accepted>>
    ELSE IF pend[f] + 1 > MaxPending \/ writes[f] >= QueueLength
    THEN /\ total' = total - 1 /\ Handler("refuse", f)
         /\ UNCHANGED <<writes, pend, accepted, carrier>>
    ELSE /\ writes' = [writes EXCEPT ![f] = @ + 1]
         /\ pend' = [pend EXCEPT ![f] = @ + 1]
         /\ accepted' = [accepted EXCEPT ![f] = @ + 1]
         /\ hd' = Idle
         /\ UNCHANGED <<total, carrier>>

EnqueueLocalWrite ==
    /\ hd.pc = "enqueue" /\ carrier = "up"
    /\ Enqueue(hd.f)
    /\ UNCHANGED <<reg, mgr, done, conn, draining, closeSent, shutting, serve, pump,
                   closed, doomed, relay, confirmed, sent, closes, delivered, failed>>

\* refuseFlow: tell the relay, then abort the flow.
RefuseFlow ==
    LET f == hd.f
    IN  /\ hd.pc = "refuse"
        /\ IF f \notin reg THEN hd' = Idle /\ UNCHANGED <<mgr, closeSent, carrier>>
           ELSE SendLocalFlowClose(f, Handler("closing", f) /\ UNCHANGED carrier,
                                      Handler("detach", f) /\ UNCHANGED carrier,
                                      Handler("detach", f) /\ carrier' = IF Queued THEN Retired ELSE carrier)
        /\ UNCHANGED <<reg, done, conn, draining, writes, pend, total, shutting, serve,
                       pump, closed, doomed, relay, confirmed, history>>

QueueRefusal ==
    /\ hd.pc = "closing"
    /\ \/ Queued /\ ~closed /\ closes' = [closes EXCEPT ![hd.f] = @ + 1]
          /\ UNCHANGED carrier
       \/ (~Queued \/ closed) /\ UNCHANGED closes
          /\ carrier' = IF Queued THEN "lost" ELSE carrier
    /\ Handler("detach", hd.f)
    /\ UNCHANGED <<flowVars, serve, pump, closed, doomed, relay, confirmed, sent,
                   accepted, delivered, failed>>

\* FLOW_CLOSE: the runtime looks the flow up, ...
ReceiveClose(f) ==
    /\ Ready /\ relay[f] \in {"open", "confirmed"}
    /\ relay' = [relay EXCEPT ![f] = "closed"]
    /\ IF f \in reg THEN Handler("peerClose", f) ELSE UNCHANGED hd
    /\ UNCHANGED <<flowVars, serve, pump, closed, doomed, confirmed, carrier, history>>

\* ... marks it in the manager, ...
ReceiveFlowCloseFrame ==
    LET f == hd.f
    IN  /\ hd.pc = "peerClose" /\ carrier = "up"
        /\ IF mgr[f] = "none" THEN Fatal(Retired) /\ UNCHANGED mgr
           ELSE Handler("peerDetach", f) /\ Mgr(f, IF mgr[f] = "local" THEN "none" ELSE "peer")
                /\ UNCHANGED carrier
        /\ UNCHANGED <<reg, done, conn, draining, closeSent, writes, pend, total, shutting,
                       serve, pump, closed, doomed, relay, confirmed, history>>

\* ... and detaches it.  Of a UDP flow that is all (removeUDPFlow).
PeerDetach ==
    LET f == hd.f
    IN  /\ hd.pc = "peerDetach"
        /\ reg' = reg \ {f} /\ Mgr(f, "none")
        /\ IF f \in TCPFlows /\ f \in reg THEN Handler("drain", f) ELSE hd' = Idle
        /\ UNCHANGED <<done, conn, draining, closeSent, writes, pend, total, shutting,
                       serve, pump, closed, doomed, peerVars, history>>

\* Mutant: the connection is closed with data still to be written.
DrainAtOnce(f) == Handler("shut", f)
\* drainAndClose: close now, or leave it to the write pump.
Drain(f) == IF pend[f] = 0 THEN Handler("shut", f) ELSE hd' = Idle

DrainAndClose ==
    LET f == hd.f
    IN  /\ hd.pc = "drain"
        /\ IF f \in done THEN hd' = Idle /\ UNCHANGED draining
           ELSE draining' = draining \cup {f} /\ Drain(f)
        /\ UNCHANGED <<reg, mgr, done, conn, closeSent, writes, pend, total, shutting,
                       serve, pump, closed, doomed, peerVars, history>>

\* UDP_TARGET_CONFIRM: looked up, then applied in the manager.
ReceiveConfirm(f) ==
    /\ Ready /\ f \in UDPFlows /\ relay[f] = "open"
    /\ relay' = [relay EXCEPT ![f] = "confirmed"]
    /\ IF f \in reg THEN Handler("confirm", f) ELSE UNCHANGED hd
    /\ UNCHANGED <<flowVars, serve, pump, closed, doomed, confirmed, carrier, history>>

\* handleUDPTargetConfirm under the locks.
Confirm ==
    LET f == hd.f
    IN  /\ hd.pc = "confirm" /\ carrier = "up"
        /\ IF mgr[f] = "none" THEN Fatal(Retired) /\ UNCHANGED confirmed
           ELSE hd' = Idle /\ confirmed' = confirmed \cup {f} /\ UNCHANGED carrier
        /\ UNCHANGED <<flowVars, serve, pump, closed, doomed, relay, history>>

\* Data for a UDP flow is written to the association's socket.
ReceiveDatagram(f) ==
    /\ Ready /\ f \in UDPFlows /\ relay[f] = "confirmed"
    /\ IF f \in reg THEN Handler("datagram", f) ELSE UNCHANGED hd
    /\ UNCHANGED <<flowVars, serve, pump, closed, doomed, peerVars, history>>

WriteDatagram ==
    LET f == hd.f
    IN  /\ hd.pc = "datagram" /\ carrier = "up"
        /\ IF f \in confirmed /\ f \in conn THEN hd' = Idle /\ UNCHANGED carrier
           ELSE Fatal(IF f \in conn THEN "unconfirmed" ELSE Retired)
        /\ UNCHANGED <<flowVars, serve, pump, closed, doomed, relay, confirmed, history>>
-----------------------------------------------------------------------------
(* The carrier and Close.                                                  *)

CarrierFails ==
    /\ Ends
    /\ carrier = "up" /\ carrier' = "lost"
    /\ UNCHANGED <<flowVars, serve, pump, hd, closed, doomed, relay, confirmed, history>>

\* An error of the duplex is returned only once its handler has returned.
DropFrame ==
    /\ carrier # "up" /\ hd.pc \in {"enqueue", "peerClose", "confirm", "datagram"}
    /\ hd' = Idle
    /\ total' = IF hd.pc = "enqueue" THEN total - 1 ELSE total
    /\ UNCHANGED <<reg, mgr, done, conn, draining, closeSent, writes, pend, shutting,
                   serve, pump, closed, doomed, peerVars, history>>

\* Close empties the maps and closes what they held.
Close ==
    /\ Ends
    /\ ~closed /\ closed' = TRUE
    /\ doomed' = reg /\ reg' = {}
    /\ conn' = conn \ Pending
    /\ UNCHANGED <<mgr, done, draining, closeSent, writes, pend, total, shutting,
                   serve, pump, hd, peerVars, history>>

CloseShuts(f) ==
    /\ f \in doomed
    /\ \/ /\ f \in UDPFlows /\ Forget(f) /\ doomed' = doomed \ {f}
       \/ /\ f \in TCPFlows \ done
          /\ Mgr(f, "none")
          /\ done' = done \cup {f} /\ conn' = conn \ {f} /\ shutting' = shutting \cup {f}
          /\ UNCHANGED <<reg, draining, closeSent, writes, pend, total, doomed>>
       \/ f \in shutting /\ Empty(f) /\ doomed' = doomed \ {f}
    /\ UNCHANGED <<serve, pump, hd, closed, peerVars, history>>
-----------------------------------------------------------------------------
Serve(f) ==
    \/ Accept(f) \/ HandshakeFails(f) \/ OpenFlow(f) \/ OpenTCPFrame(f) \/ QueueOpen(f)
    \/ Reply(f) \/ ReadData(f) \/ QueueData(f) \/ ReadFails(f) \/ ReadEOF(f)
    \/ QueueClose(f) \/ (f \in TCPFlows /\ ServeAborts(f)) \/ (f \in TCPFlows /\ ServeReturns(f))

Write(f) == PumpTakes(f) \/ PumpStops(f) \/ PumpWrites(f) \/ PumpAborts(f)

UDP(f) ==
    \/ Associate(f) \/ ReadDatagram(f) \/ TargetFlow(f) \/ Datagram(f) \/ QueueDatagram(f)
    \/ ReaderEnds(f) \/ AssociationCloses(f) \/ RemoveAssociation(f) \/ CloseFrame(f)
    \/ QueueUDPClose(f)

Receive(f) == ReceiveData(f) \/ ReceiveClose(f) \/ ReceiveConfirm(f) \/ ReceiveDatagram(f)

Handle ==
    \/ EnqueueLocalWrite \/ RefuseFlow \/ QueueRefusal \/ ReceiveFlowCloseFrame
    \/ PeerDetach \/ DrainAndClose \/ Confirm \/ WriteDatagram \/ HandlerAborts \/ DropFrame

Step ==
    \/ \E f \in Flows : Serve(f) \/ Write(f) \/ UDP(f) \/ Receive(f) \/ CloseShuts(f)
    \/ Handle \/ CarrierFails \/ Close

Next == Step /\ UNCHANGED settings

Spec == Init /\ [][Next]_vars
-----------------------------------------------------------------------------
\* Types, and the limits of the flow table and of a flow's channel.
TypeOK ==
    /\ reg \subseteq Flows /\ done \subseteq TCPFlows /\ conn \subseteq Flows
    /\ draining \subseteq TCPFlows /\ closeSent \subseteq TCPFlows /\ shutting \subseteq done
    /\ Cardinality(reg) <= MaxFlows
    /\ mgr \in [Flows -> {"none", "open", "local", "peer"}]
    /\ writes \in [Flows -> 0 .. QueueLength] /\ pend \in [Flows -> Nat] /\ total \in Nat
    /\ hd.f \in Flows \cup {None} /\ closed \in BOOLEAN /\ doomed \subseteq Flows
    /\ relay \in [Flows -> {"none", "open", "confirmed", "closed"}]
    /\ carrier \in {"up", "lost", "retired", "afterClose", "reopened", "unconfirmed"}

\* Data the relay sent before its FLOW_CLOSE reaches the local client before
\* the connection is closed, unless the write fails or the flow is aborted
\* (drainAndClose and the write pump hand the closing over to each other).
DrainDelivers ==
    \A f \in draining \cap done :
        f \in failed \/ delivered[f] = accepted[f]

\* A draining flow always has someone who will close it: the write pump, which
\* still has all of its chunks ahead or has just written the last one, or the
\* handler.  So neither leaves the closing to the other, and unless a local
\* write fails the flow ends (pendingWrites and draining, read under one lock).
DrainOwned ==
    \A f \in draining \ (done \cup failed) :
        \/ pend[f] > 0 /\ pump[f] \in {"select", "writing"}
           /\ pend[f] = writes[f] + (IF pump[f] = "writing" THEN 1 ELSE 0)
        \/ pump[f] = "shut" \/ hd = [pc |-> "shut", f |-> f]

\* Goroutines other than the write pump that are about to close a flow.
Closing(f) ==
    \/ f \in doomed \/ hd.f = f
    \/ serve[f] \in {"forget", "shut", "empty"}

\* When the write pump of a flow ends, the flow is closed and its bytes are
\* given back, by it or by who is closing the flow.  The code leaves both out
\* when a write fails after the relay closed the flow: abortFlow does not find
\* the detached flow.
PumpEndReleases ==
    \A f \in TCPFlows :
        pump[f] = "exit" /\ ~Closing(f) => f \in done /\ writes[f] = 0

\* Data the relay sent before its FLOW_CLOSE is not cut off by the proxy while
\* the local connection is sound.  In the code a byte from the local client is
\* enough: SendTCP refuses it and serveConnection closes the connection.
DrainNotCut ==
    \A f \in draining \ (done \cup failed) : delivered[f] < accepted[f] => f \in conn

\* A frame for a flow that was just retired locally never ends the carrier.
\* The code drops it only if the flow has left the runtime's map.
RetiredFramesDropped == carrier # "retired"

\* Refusing one flow leaves the carrier up.  In the code the reader of the
\* flow may have passed SendTCP's check, so its data follows the FLOW_CLOSE,
\* and the relay ends a session that sends data on a closed flow.
RefusalSparesCarrier == carrier # "afterClose"
=============================================================================
