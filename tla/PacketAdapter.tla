----------------------------- MODULE PacketAdapter -----------------------------
(***************************************************************************)
(* client.PacketAdapter: the flow table between a packet device and the    *)
(* encrypted session.  The local network stack's packets come in through   *)
(* Ingress, the relay's frames through HandleFrameBlocks; both run under   *)
(* one mutex that Ingress gives up between its expiry prologue and the     *)
(* packet itself, and, when names are answered locally, around the         *)
(* callback.                                                               *)
(*                                                                         *)
(* A TCP payload is one byte, named by its position in the connection;     *)
(* sequence numbers are taken modulo SequenceModulus.  A relay payload is  *)
(* measured in local packets.  "stack" is the local TCP, which numbers,    *)
(* resends and closes as a TCP does, over a device that does not reorder.  *)
(* "relay" is what was queued for the relay, flow by flow, with a mark     *)
(* where the relay itself ended the flow ("peer") or the proxy's idle      *)
(* timer did ("lapsed"), and without later datagrams.  "inc" tells the     *)
(* connections of a tuple apart; no operation of the adapter reads it.     *)
(***************************************************************************)
EXTENDS Integers, Sequences, FiniteSets, Functions, SequencesExt

CONSTANTS
    Settings,          \* the tuples and queries of a run, whether names are answered by
                       \* the dnsAnswers callback, and how long and how often
    maximumFlows, maximumLocal,
    QueueLimit,        \* the frames the session takes before it refuses
    DNSLifetime, ProxyIdle, UDPIdle,
    SequenceModulus, FirstSequence,
    MaxFlowID,         \* wire.MaxVarint
    MaxOpens

VARIABLES
    setting,
    now,
    table,        \* flowsByID, flowsByTuple, dnsRequests and the proxy's flows
    pending,      \* pendingFlowCloses: flow ids
    local,        \* localPackets
    nextFlowID,
    opens,        \* how many ids were allocated
    closed,
    packet,       \* the packet read from the device, and how far Ingress is with it
    queued,        \* frames the session holds
    stack, relay,
    ended         \* the error that ended the session, "none" while it runs

vars == <<setting, now, table, pending, local, nextFlowID, opens, closed, packet, queued, stack, relay, ended>>

environment == <<setting, now, closed, stack>>

TCPTuples == setting.tcp
UDPTuples == setting.udp

Ids == 1..MaxFlowID
NoPacket == [kind |-> "none", stage |-> "idle"]
Running == ended = "none"
-----------------------------------------------------------------------------
(* The table. *)
Without(f, x) == Restrict(f, DOMAIN f \ {x})
With(f, x, v) == [y \in DOMAIN f \cup {x} |-> IF y = x THEN v ELSE f[y]]

removeFlow(T, id) ==
    [T EXCEPT !.flows = Without(@, id),
              !.byTuple = Without(@, T.flows[id].tuple),
              !.proxy = Without(@, id)]

addFlow(T, id, flow) ==
    [T EXCEPT !.flows = With(@, id, flow), !.byTuple = With(@, flow.tuple, id)]

flowCount(T) == Cardinality(DOMAIN T.flows) + Cardinality(DOMAIN T.dns)

expireDNSRequests(T) == [T EXCEPT !.dns = Restrict(@, {id \in DOMAIN @ : now < @[id]})]

Idle(T) == {id \in DOMAIN T.flows : T.flows[id].kind = "udp" /\ now - T.flows[id].last >= UDPIdle}

(* The next id that neither a flow nor a pending query holds. *)
Following(id) == IF id + 1 > MaxFlowID THEN 1 ELSE id + 1

RECURSIVE FreeFrom(_, _)
FreeFrom(T, id) == IF id \in DOMAIN T.flows \cup DOMAIN T.dns THEN FreeFrom(T, Following(id)) ELSE id

allocateFlowID(T, id) ==
    /\ opens < MaxOpens
    /\ id = FreeFrom(T, nextFlowID)
    /\ nextFlowID' = Following(id)
    /\ opens' = opens + 1

NotAllocating == UNCHANGED <<nextFlowID, opens>>

(* The proxy's view of a flow, a flow.Manager entry. *)
ProxyFlow(kind) == [kind |-> kind, until |-> now + UDPIdle, last |-> now]

ProxyExpired(p) == now >= p.until \/ now > p.last + ProxyIdle

(* Frames for the relay. *)
Room(n) == queued + n <= QueueLimit

Frame(type) == [frame |-> type, inc |-> 0, at |-> 0]

(* A packet for the local stack. *)
enqueueLocalPacket(p) == IF Len(local) >= maximumLocal THEN local ELSE Append(local, p)

tcpSequenceBefore(left, right) == (left - right + SequenceModulus) % SequenceModulus >= SequenceModulus \div 2
-----------------------------------------------------------------------------
Init ==
    /\ setting \in Settings
    /\ now = 0
    /\ table = [flows |-> <<>>, byTuple |-> <<>>, dns |-> <<>>, proxy |-> <<>>]
    /\ pending = <<>> /\ local = <<>>
    /\ nextFlowID = MaxFlowID
    /\ opens = 0
    /\ closed = FALSE /\ packet = NoPacket /\ queued = 0 /\ ended = "none"
    /\ stack = [t \in TCPTuples |-> [state |-> "closed", inc |-> 0, sent |-> 0]]
    /\ relay = [id \in Ids |-> <<>>]

-----------------------------------------------------------------------------
(* The local stack.  It resends what it sent, and a reset ends its side at once. *)
Sequence(inc, at) == (FirstSequence + 3 * inc + at) % SequenceModulus

Segment(t, inc, at, flag, data) ==
    [kind |-> "tcp", stage |-> "read", tuple |-> t, inc |-> inc, seq |-> Sequence(inc, at), at |-> at,
     flag |-> flag, data |-> data]

Sends(t, p, state, inc, sent) ==
    /\ packet' = p
    /\ stack' = [stack EXCEPT ![t] = [state |-> state, inc |-> inc, sent |-> sent]]

StackSends(t) ==
    LET c == stack[t]
        finished == IF c.state = "closewait" THEN "lastack" ELSE "finwait"
    IN  \/ /\ c.state = "closed" /\ c.inc < setting.connections
           /\ Sends(t, Segment(t, c.inc + 1, 0, "SYN", FALSE), "syn", c.inc + 1, 0)
        \/ c.state = "syn" /\ Sends(t, Segment(t, c.inc, 0, "SYN", FALSE), c.state, c.inc, c.sent)
        \/ /\ c.state \in {"open", "closewait"}
           /\ \/ /\ c.sent < setting.bytes
                 /\ \/ Sends(t, Segment(t, c.inc, c.sent + 1, "", TRUE), c.state, c.inc, c.sent + 1)
                    \/ Sends(t, Segment(t, c.inc, c.sent + 1, "FIN", TRUE), finished, c.inc, c.sent + 1)
              \/ Sends(t, Segment(t, c.inc, c.sent + 1, "FIN", FALSE), finished, c.inc, c.sent)
        \/ /\ c.state \in {"open", "closewait", "finwait", "lastack"}
           /\ \/ \E at \in 1..c.sent : Sends(t, Segment(t, c.inc, at, "", TRUE), c.state, c.inc, c.sent)
              \/ Sends(t, Segment(t, c.inc, c.sent + 1, "RST", FALSE), "closed", c.inc, c.sent)
        \/ /\ c.state \in {"finwait", "lastack"}
           /\ Sends(t, Segment(t, c.inc, c.sent + 1, "FIN", FALSE), c.state, c.inc, c.sent)

(* What a packet for the stack does to it. *)
Received(s, p) ==
    IF p.tuple \notin TCPTuples THEN s
    ELSE LET c == s[p.tuple]
         IN  IF c.inc # p.inc THEN s
             ELSE [s EXCEPT ![p.tuple].state =
                     CASE p.flag = "SYN" /\ c.state = "syn"                      -> "open"
                       [] p.flag = "FIN" /\ c.state = "open"                     -> "closewait"
                       [] p.flag = "FIN" /\ c.state = "finwait"                  -> "closed"
                       [] p.flag = "LAST" /\ c.state = "lastack"                 -> "closed"
                       [] p.flag = "RST"                                         -> "closed"
                       [] OTHER                                                  -> c.state]

Deliver(packets) == stack' = FoldLeft(Received, stack, packets)

ToStack(flow, flag) == [tuple |-> flow.tuple, inc |-> flow.inc, flag |-> flag]
-----------------------------------------------------------------------------
(* Ingress. *)
RECURSIVE Flushed(_, _, _)
Flushed(n, room, batch) ==
    CASE n = 0         -> 0
      [] batch <= room -> batch + Flushed(n - batch, room - batch, n - batch)
      [] batch = 1     -> 0
      [] OTHER         -> Flushed(n, room, batch \div 2)

(* The closes "held" that the session takes now, in order; the rest stays. *)
queuePendingFlowCloses(held) ==
    LET n == Flushed(Len(held), QueueLimit - queued, Len(held))
    IN  /\ pending' = SubSeq(held, n + 1, Len(held))
        /\ queued' = queued + n
        /\ relay' = [id \in Ids |-> relay[id] \o
                       [i \in 1..Cardinality({j \in 1..n : held[j] = id}) |-> Frame("close")]]

(* The device hands over the next packet. *)
Read ==
    /\ Running /\ packet = NoPacket
    /\ \/ \E t \in TCPTuples : StackSends(t)
       \/ \E t \in UDPTuples : packet' = [kind |-> "udp", stage |-> "read", tuple |-> t] /\ UNCHANGED stack
       \/ setting.dns /\ packet' = [kind |-> "dns", stage |-> "read"] /\ UNCHANGED stack
    /\ UNCHANGED <<setting, now, table, pending, local, nextFlowID, opens, closed, queued, relay, ended>>

(* The prologue: idle associations go, their closes are queued, and the packet is
   dropped when one of them finds no room. *)
IngressPrologue ==
    LET idle == Idle(table)
    IN  /\ Running /\ packet.stage = "read" /\ ~closed
        /\ table' = [table EXCEPT !.flows = Restrict(@, DOMAIN @ \ idle),
                                  !.byTuple = Restrict(@, {t \in DOMAIN @ : @[t] \notin idle}),
                                  !.proxy = Restrict(@, DOMAIN @ \ idle)]
        /\ queuePendingFlowCloses(pending \o SetToSeq(idle))
        /\ packet' = IF pending' = <<>> THEN [packet EXCEPT !.stage = "inside"] ELSE NoPacket
        /\ UNCHANGED <<environment, local, nextFlowID, opens, ended>>

IngressClosed ==
    /\ Running /\ packet.stage # "idle" /\ closed
    /\ packet' = NoPacket /\ ended' = "closed"
    /\ UNCHANGED <<environment, table, pending, local, nextFlowID, opens, queued, relay>>

Inside(kind) == Running /\ packet.stage = "inside" /\ packet.kind = kind /\ ~closed

Mapped == packet.tuple \in DOMAIN table.byTuple
Mapping == table.byTuple[packet.tuple]
Flow == table.flows[Mapping]

(* The packet is done with, whether it was served or dropped. *)
Finished == packet' = NoPacket /\ UNCHANGED <<environment, ended>>

Fails(error) ==
    /\ packet' = NoPacket /\ ended' = error
    /\ UNCHANGED <<environment, table, pending, local, nextFlowID, opens, queued, relay>>

Queues(id, frames) ==
    /\ queued' = queued + Len(frames)
    /\ relay' = [relay EXCEPT ![id] = @ \o frames]

NothingQueued == UNCHANGED <<queued, relay>>

(* A SYN for a tuple without a flow. *)
OpenTCP ==
    /\ Inside("tcp") /\ packet.flag = "SYN" /\ ~Mapped
    /\ \/ /\ flowCount(table) >= maximumFlows
          /\ local' = enqueueLocalPacket([tuple |-> packet.tuple, inc |-> packet.inc, flag |-> "RST"])
          /\ NotAllocating /\ NothingQueued /\ UNCHANGED table
       \/ /\ flowCount(table) < maximumFlows /\ Len(local) >= maximumLocal
          /\ NotAllocating /\ NothingQueued /\ UNCHANGED <<table, local>>
       \/ /\ flowCount(table) < maximumFlows /\ Len(local) < maximumLocal
          /\ \E id \in Ids :
                LET flow == [tuple |-> packet.tuple, inc |-> packet.inc, kind |-> "tcp", last |-> 0,
                             clientNext |-> (packet.seq + 1) % SequenceModulus, localClosed |-> FALSE, peerClosed |-> FALSE]
                IN  /\ allocateFlowID(table, id)
                    /\ IF Room(1)
                       THEN /\ Queues(id, <<Frame("open")>>)
                            /\ table' = addFlow([table EXCEPT !.proxy = With(@, id, ProxyFlow("tcp"))], id, flow)
                            /\ local' = enqueueLocalPacket(ToStack(flow, "SYN"))
                       ELSE NothingQueued /\ UNCHANGED <<table, local>>
    /\ Finished /\ UNCHANGED pending

(* A SYN for a tuple with a flow: an answer sent again, or a contradiction. *)
RepeatedSYN ==
    /\ Inside("tcp") /\ packet.flag = "SYN" /\ Mapped
    /\ IF Flow.clientNext = (packet.seq + 1) % SequenceModulus
       THEN /\ local' = enqueueLocalPacket(ToStack(Flow, "SYN"))
            /\ Finished /\ NotAllocating /\ NothingQueued /\ UNCHANGED <<table, pending>>
       ELSE Fails("syn")

(* No flow to disturb: the last packets of a connection that is over. *)
StrayTCP ==
    /\ Inside("tcp") /\ packet.flag # "SYN"
    /\ IF Mapped THEN Flow.localClosed ELSE TRUE
    /\ Finished /\ NotAllocating /\ NothingQueued /\ UNCHANGED <<table, pending, local>>

Live == Inside("tcp") /\ packet.flag # "SYN" /\ Mapped /\ ~Flow.localClosed

(* A reset whose frame is lost when it finds no room: for comparison with ResetTCP. *)
ResetForgettingClose ==
    /\ Live /\ packet.flag = "RST"
    /\ IF Room(1) THEN Queues(Mapping, <<Frame("close")>>) /\ UNCHANGED pending
                  ELSE NothingQueued /\ UNCHANGED pending
    /\ table' = removeFlow(table, Mapping)
    /\ Finished /\ NotAllocating /\ UNCHANGED local

(* closeLocalFlow: a reset is committed at once, its frame kept if it finds no room. *)
ResetTCP ==
    /\ Live /\ packet.flag = "RST"
    /\ IF Room(1) THEN Queues(Mapping, <<Frame("close")>>) /\ UNCHANGED pending
                  ELSE pending' = Append(pending, Mapping) /\ NothingQueued
    /\ table' = removeFlow(table, Mapping)
    /\ Finished /\ NotAllocating /\ UNCHANGED local

MisplacedTCP ==
    /\ Live /\ packet.flag # "RST" /\ packet.seq # Flow.clientNext
    /\ IF tcpSequenceBefore(packet.seq, Flow.clientNext)
       THEN /\ local' = enqueueLocalPacket(ToStack(Flow, "ACK"))
            /\ Finished /\ NotAllocating /\ NothingQueued /\ UNCHANGED <<table, pending>>
       ELSE Fails("order")

(* The byte and the close of a segment, in the order they are sent. *)
SegmentFrames ==
    (IF packet.data THEN <<[frame |-> "data", inc |-> packet.inc, at |-> packet.at]>> ELSE <<>>)
    \o (IF packet.flag = "FIN" THEN <<Frame("close")>> ELSE <<>>)

Advanced == (Flow.clientNext + Len(SegmentFrames)) % SequenceModulus

(* The flow after a segment: its own close retires it when the relay closed first. *)
AfterSegment ==
    LET fin  == packet.flag = "FIN"
        flow == [Flow EXCEPT !.clientNext = Advanced, !.localClosed = fin]
        T    == [table EXCEPT !.flows[Mapping] = flow, !.proxy = IF fin THEN Without(@, Mapping) ELSE @]
    IN  IF fin /\ flow.peerClosed THEN removeFlow(T, Mapping) ELSE T

(* The sequence advanced although the session refused the frames: for comparison with SendTCP. *)
SendAdvancing ==
    /\ Live /\ packet.flag # "RST" /\ packet.seq = Flow.clientNext
    /\ IF Room(Len(SegmentFrames)) THEN Queues(Mapping, SegmentFrames) ELSE NothingQueued
    /\ table' = AfterSegment
    /\ local' = enqueueLocalPacket(ToStack(Flow, IF packet.flag = "FIN" THEN "LAST" ELSE "ACK"))
    /\ Finished /\ NotAllocating /\ UNCHANGED pending

SendTCP ==
    /\ Live /\ packet.flag # "RST" /\ packet.seq = Flow.clientNext
    /\ IF Len(local) < maximumLocal /\ Room(Len(SegmentFrames))
       THEN /\ Queues(Mapping, SegmentFrames)
            /\ table' = AfterSegment
            /\ local' = enqueueLocalPacket(ToStack(Flow, IF packet.flag = "FIN" THEN "LAST" ELSE "ACK"))
       ELSE NothingQueued /\ UNCHANGED <<table, local>>
    /\ Finished /\ NotAllocating /\ UNCHANGED pending

(* A datagram for an association the proxy still has. *)
SendUDP ==
    /\ Inside("udp") /\ Mapped /\ ~ProxyExpired(table.proxy[Mapping])
    /\ IF Room(1)
       THEN /\ queued' = queued + 1 /\ UNCHANGED relay
            /\ table' = [table EXCEPT !.proxy[Mapping].last = now, !.flows[Mapping].last = now]
       ELSE NothingQueued /\ table' = [table EXCEPT !.proxy[Mapping].last = now]
    /\ Finished /\ NotAllocating /\ UNCHANGED <<pending, local>>

(* A datagram for a new association, or for one whose proxy flow has run out. *)
OpenUDP ==
    LET T == IF Mapped THEN removeFlow(table, Mapping) ELSE table
        lapsed == IF Mapped THEN [relay EXCEPT ![Mapping] = Append(@, Frame("lapsed"))] ELSE relay
        flow == [tuple |-> packet.tuple, inc |-> 0, kind |-> "udp", last |-> now,
                 clientNext |-> 0, localClosed |-> FALSE, peerClosed |-> FALSE]
    IN  /\ Inside("udp") /\ IF Mapped THEN ProxyExpired(table.proxy[Mapping]) ELSE TRUE
        /\ IF flowCount(T) >= maximumFlows
           THEN table' = T /\ relay' = lapsed /\ NotAllocating /\ UNCHANGED queued
           ELSE \E id \in Ids :
                   /\ allocateFlowID(T, id)
                   /\ IF Room(2)
                      THEN /\ queued' = queued + 2
                           /\ relay' = [lapsed EXCEPT ![id] = Append(@, Frame("open"))]
                           /\ table' = addFlow([T EXCEPT !.proxy = With(@, id, ProxyFlow("udp"))], id, flow)
                      ELSE table' = T /\ relay' = lapsed /\ UNCHANGED queued
        /\ Finished /\ UNCHANGED <<pending, local>>

(* A query for the relay: recorded once its frame is queued. *)
RelayedDNS ==
    LET T == expireDNSRequests(table)
    IN  /\ Inside("dns") /\ ~setting.answers
        /\ IF flowCount(T) >= maximumFlows
           THEN table' = T /\ NotAllocating /\ NothingQueued
           ELSE \E id \in Ids :
                   /\ allocateFlowID(T, id)
                   /\ IF Room(1) THEN /\ Queues(id, <<Frame("dns")>>)
                                      /\ table' = [T EXCEPT !.dns = With(@, id, now + DNSLifetime)]
                                 ELSE table' = T /\ NothingQueued
        /\ Finished /\ UNCHANGED <<pending, local>>

(* A query answered here: the callback runs without the lock, and its answer is
   used under it again.  The id that is allocated names the frame alone. *)
DNSCallback ==
    /\ Inside("dns") /\ setting.answers
    /\ packet' = [packet EXCEPT !.stage = "answered"]
    /\ UNCHANGED <<environment, table, pending, local, nextFlowID, opens, queued, relay, ended>>

AnswerLocalDNS ==
    /\ Running /\ packet.stage = "answered" /\ ~closed
    /\ IF Len(local) >= maximumLocal
       THEN NotAllocating /\ NothingQueued /\ UNCHANGED local
       ELSE \E id \in Ids :
               /\ allocateFlowID(table, id)
               /\ \/ /\ Room(1) /\ Queues(id, <<Frame("dns")>>)
                     /\ local' = enqueueLocalPacket([tuple |-> "resolver", inc |-> 0, flag |-> ""])
                  \/ ~Room(1) /\ NothingQueued /\ UNCHANGED local
                  \/ \* a negative answer has no frame
                     /\ NothingQueued
                     /\ local' = enqueueLocalPacket([tuple |-> "resolver", inc |-> 0, flag |-> ""])
    /\ Finished /\ UNCHANGED <<table, pending>>

Ingress ==
    \/ IngressPrologue \/ IngressClosed
    \/ OpenTCP \/ RepeatedSYN \/ StrayTCP \/ ResetTCP \/ MisplacedTCP \/ SendTCP
    \/ SendUDP \/ OpenUDP \/ RelayedDNS \/ DNSCallback \/ AnswerLocalDNS
-----------------------------------------------------------------------------
(* The relay's frames.  "size" is the payload in local packets for a stream, and
   for a datagram or an answer 2 when it does not fit the device; "code" is the
   close code, and what a confirmation says of the target. *)
FrameTypes ==
    [type : {"stream"}, size : 1..2, code : {""}]
    \cup [type : {"datagram", "dns"}, size : 1..2, code : {""}]
    \cup [type : {"close"}, size : {0}, code : {"normal", "reset"}]
    \cup [type : {"confirm"}, size : {1}, code : {"match", "mismatch"}]

RelayFrames == {[id |-> id, type |-> f.type, size |-> f.size, code |-> f.code] :
                    id \in {i \in Ids : relay[i] # <<>>}, f \in FrameTypes}

Batches == UNION {[1..n -> RelayFrames] : n \in 1..setting.batch}

(* One frame against the table and the packets made so far. *)
Gives(h, T, packets) ==
    IF Len(packets) > maximumLocal - Len(h.out) THEN [h EXCEPT !.error = TRUE, !.table = T]
    ELSE [h EXCEPT !.table = T, !.out = @ \o packets]

Known(h, f) == f.id \in DOMAIN h.table.flows

handleRelayDNS(h, f) ==
    IF f.id \notin DOMAIN h.table.dns THEN h
    ELSE Gives(h, [h.table EXCEPT !.dns = Without(@, f.id)],
               IF now < h.table.dns[f.id] /\ f.size = 1
               THEN <<[tuple |-> "resolver", inc |-> 0, flag |-> ""]>> ELSE <<>>)

handleUDPTargetConfirm(h, f) ==
    IF ~Known(h, f) THEN h
    ELSE IF h.table.flows[f.id].kind # "udp" \/ f.code = "mismatch" THEN [h EXCEPT !.error = TRUE]
    ELSE Gives(h, [h.table EXCEPT !.proxy[f.id].until = IF now + f.size < @ THEN now + f.size ELSE @], <<>>)

handleRelayClose(h, f) ==
    LET T == h.table
        flow == T.flows[f.id]
    IN  IF (IF Known(h, f) THEN flow.peerClosed ELSE TRUE) THEN h
        ELSE IF f.id \notin DOMAIN T.proxy /\ ~flow.localClosed THEN [h EXCEPT !.error = TRUE]
        ELSE IF flow.kind = "udp" THEN Gives(h, removeFlow(T, f.id), <<>>)
        ELSE IF f.code # "normal" THEN Gives(h, removeFlow(T, f.id), <<ToStack(flow, "RST")>>)
        ELSE IF flow.localClosed THEN Gives(h, removeFlow(T, f.id), <<ToStack(flow, "FIN")>>)
        ELSE Gives(h, [T EXCEPT !.flows[f.id].peerClosed = TRUE], <<ToStack(flow, "FIN")>>)

(* A stream frame becomes as many segments as the device's packet size asks for. *)
makeRelayTCPPackets(flow, f) == [i \in 1..f.size |-> ToStack(flow, "")]

handleRelayData(h, f) ==
    LET flow == h.table.flows[f.id]
    IN  IF ~Known(h, f) THEN h
        ELSE IF flow.peerClosed \/ f.type # (IF flow.kind = "tcp" THEN "stream" ELSE "datagram")
             THEN [h EXCEPT !.error = TRUE]
        ELSE IF flow.kind = "tcp" THEN Gives(h, h.table, makeRelayTCPPackets(flow, f))
        ELSE IF f.size > 1 THEN h
        ELSE Gives(h, [h.table EXCEPT !.flows[f.id].last = now], <<ToStack(flow, "")>>)

handleRelayFrame(h, f) ==
    IF h.error THEN h
    ELSE CASE f.type = "dns"     -> handleRelayDNS(h, f)
           [] f.type = "confirm" -> handleUDPTargetConfirm(h, f)
           [] f.type = "close"   -> handleRelayClose(h, f)
           [] OTHER              -> handleRelayData(h, f)

(* The same frame against the shadow of the table that the preflight keeps. *)
Shadowed(s, f) ==
    LET T == table
        retired == f.id \in s.retired
        known == f.id \in DOMAIN T.flows
        flow == T.flows[f.id]
        error == [s EXCEPT !.ok = FALSE]
        add(s2, n) == IF n > maximumLocal - s.count THEN error ELSE [s2 EXCEPT !.count = @ + n]
        data ==
            IF retired \/ ~known THEN s
            ELSE IF flow.peerClosed \/ f.id \in s.peerClosed THEN error
            ELSE IF flow.kind = "tcp" THEN IF f.type = "stream" THEN add(s, f.size) ELSE error
            ELSE IF f.type # "datagram" THEN error
            ELSE IF f.size > 1 THEN s ELSE add(s, 1)
        close ==
            IF retired \/ ~known \/ f.id \in s.peerClosed \/ (known /\ flow.peerClosed) THEN s
            ELSE IF flow.kind = "udp" THEN [s EXCEPT !.retired = @ \cup {f.id}]
            ELSE IF f.code # "normal" \/ flow.localClosed THEN add([s EXCEPT !.retired = @ \cup {f.id}], 1)
            ELSE add([s EXCEPT !.peerClosed = @ \cup {f.id}], 1)
        dns ==
            IF f.id \in s.completed \/ f.id \notin DOMAIN T.dns THEN s
            ELSE IF now >= T.dns[f.id] THEN s
            ELSE IF f.size > 1 THEN [s EXCEPT !.completed = @ \cup {f.id}]
            ELSE add([s EXCEPT !.completed = @ \cup {f.id}], 1)
    IN  IF ~s.ok THEN s
        ELSE CASE f.type = "dns"     -> dns
               [] f.type = "close"   -> close
               [] f.type = "confirm" -> IF ~retired /\ known /\ flow.kind # "udp" THEN error ELSE s
               [] OTHER              -> data

RECURSIVE Run(_, _)
Run(h, batch) == IF batch = <<>> THEN h ELSE LET next == handleRelayFrame(h, Head(batch)) IN Run(next, Tail(batch))

RECURSIVE Shadow(_, _)
Shadow(s, batch) == IF batch = <<>> THEN s ELSE LET next == Shadowed(s, Head(batch)) IN Shadow(next, Tail(batch))

validateRelayLocalPacketLimit(batch) ==
    Shadow([retired |-> {}, peerClosed |-> {}, completed |-> {}, count |-> 0, ok |-> TRUE], batch).ok

(* A batch, all of it under the lock.  The packets it makes go to the device by the
   caller's hand, not through localPackets. *)
HandleFrameBlocks ==
    /\ Running /\ ~closed
    /\ \E batch \in Batches :
          LET T == expireDNSRequests(table)
              h == Run([table |-> T, out |-> <<>>, error |-> FALSE], batch)
          IN  IF ~validateRelayLocalPacketLimit(batch)
              THEN table' = T /\ ended' = "preflight" /\ UNCHANGED stack
              ELSE IF h.error
              THEN table' = h.table /\ UNCHANGED stack
                   /\ ended' = IF \E i \in 1..Len(batch) : batch[i].code = "mismatch" THEN "confirm" ELSE "half"
              ELSE table' = h.table /\ Deliver(h.out) /\ UNCHANGED ended
    /\ relay' = [id \in Ids |-> IF id \in DOMAIN table.flows \ DOMAIN table'.flows
                                THEN Append(relay[id], Frame("peer")) ELSE relay[id]]
    /\ UNCHANGED <<setting, now, pending, local, nextFlowID, opens, closed, packet, queued>>

(* NextEncryptedPacket: what is pending is tried again before a packet is taken. *)
NextEncryptedPacket ==
    /\ Running /\ ~closed /\ pending # <<>>
    /\ queuePendingFlowCloses(pending)
    /\ UNCHANGED <<environment, table, local, nextFlowID, opens, packet, ended>>

(* The session sends what it holds. *)
Transmit ==
    /\ Running /\ queued > 0
    /\ queued' = 0
    /\ UNCHANGED <<environment, table, pending, local, nextFlowID, opens, packet, relay, ended>>

DrainLocalPackets ==
    /\ Running /\ local # <<>>
    /\ local' = <<>> /\ Deliver(local)
    /\ UNCHANGED <<setting, now, table, pending, nextFlowID, opens, closed, packet, queued, relay, ended>>

Close ==
    /\ ~closed
    /\ closed' = TRUE
    /\ table' = [flows |-> <<>>, byTuple |-> <<>>, dns |-> <<>>, proxy |-> <<>>]
    /\ pending' = <<>> /\ local' = <<>>
    /\ UNCHANGED <<setting, now, nextFlowID, opens, packet, queued, stack, relay, ended>>

Tick ==
    /\ Running /\ now < setting.until
    /\ now' = now + 1
    /\ UNCHANGED <<setting, table, pending, local, nextFlowID, opens, closed, packet, queued, stack, relay, ended>>

Next ==
    \/ Read \/ Ingress \/ HandleFrameBlocks \/ NextEncryptedPacket \/ Transmit
    \/ DrainLocalPackets \/ Close \/ Tick

Spec == Init /\ [][Next]_vars
-----------------------------------------------------------------------------
(* Whatever is dropped, resent or refused, the relay is given each connection's bytes
   once and in order, and its close after the last of them. *)
StreamExact ==
    \A id \in Ids :
        LET data == SelectSeq(relay[id], LAMBDA f : f.frame = "data")
            closes == {i \in DOMAIN relay[id] : relay[id][i].frame = "close"}
        IN  /\ \A i \in DOMAIN data : data[i].at = i /\ data[i].inc = data[1].inc
            /\ \A i \in closes, j \in DOMAIN relay[id] : j > i => relay[id][j].frame = "peer"

(* A flow that the relay has and the adapter no longer has is one whose close was
   queued or is kept to be queued, unless the relay or an idle timer ended it: resets
   and expiry lose no close under backpressure.  No flow is closed twice, nor while
   it is still in the table. *)
ClosesOwed ==
    ~closed =>
        \A id \in Ids :
            LET told == {i \in DOMAIN relay[id] : relay[id][i].frame = "close"}
                kept == {i \in DOMAIN pending : pending[i] = id}
                over == \E i \in DOMAIN relay[id] : relay[id][i].frame \in {"peer", "lapsed"}
                opened == \E i \in DOMAIN relay[id] : relay[id][i].frame = "open"
            IN  /\ Cardinality(told) + Cardinality(kept) <= 1
                /\ id \in DOMAIN table.flows => kept = {}
                /\ opened /\ id \notin DOMAIN table.flows => told # {} \/ kept # {} \/ over

(* Packets that are dropped because a queue is full leave the session running. *)
SurvivesBackpressure == ended # "order"
=============================================================================
