---------------------------- MODULE DeviceExchange ----------------------------
(***************************************************************************)
(* server.DevicePacketExchanger: calls of ExchangePacketBatch write their   *)
(* packets to a device and take what a goroutine has read from it, through  *)
(* a queue that keeps the newest packets; Close may come at any time, from  *)
(* another goroutine.  A read or write of the device, and what is done      *)
(* under a mutex, is one step.                                              *)
(***************************************************************************)
EXTENDS Naturals, Sequences, FiniteSets, SequencesExt

CONSTANTS
    Batches,    \* Batches[c]: the packets of call c, by length
    MTU,
    QueuePackets,
    MaxReads    \* bound: packets the device yields, numbered as they come

VARIABLES
    call,       \* call[c]: "idle", "checked", "writing", "failed" or "done"
    sent,       \* sent[c]: packets of c that were written
    writeMu,    \* the call that holds writeMu, or none
    written,    \* what the device received: <<call, position>>
    reader,     \* readDevice: "read", "queue", "queue last", "look", "fail" or "ended"
    reads,      \* packets read so far
    broken,     \* readErr is set
    outbound,   \* the queue
    taken,      \* taken[c]: what call c took from it
    closing     \* Close: "no", "done closed", "device closed" or "over"

vars == <<call, sent, writeMu, written, reader, reads, broken, outbound, taken, closing>>

Calls == DOMAIN Batches

ExchangeInit ==
    /\ call = [c \in Calls |-> "idle"] /\ sent = [c \in Calls |-> 0]
    /\ writeMu = {} /\ written = <<>>
    /\ reader = "read" /\ reads = 0 /\ broken = FALSE
    /\ outbound = <<>> /\ taken = [c \in Calls |-> <<>>]
    /\ closing = "no"

Done == closing # "no"
Goes(c, next) == call' = [call EXCEPT ![c] = next]

-----------------------------------------------------------------------------
(* ExchangePacketBatch                                                      *)

\* e.done, the batch and the read error are looked at before writeMu.
ExchangePacketBatch(c) ==
    /\ call[c] = "idle"
    /\ Goes(c, IF Done \/ broken THEN "failed" ELSE "checked")
    /\ UNCHANGED <<sent, writeMu, written, reader, reads, broken, outbound, taken, closing>>

\* Every packet fits the device.
Preflight(c) == \A i \in DOMAIN Batches[c] : Batches[c][i] <= MTU

\* writeMu is taken; what was looked at is looked at again, and the whole batch
\* is measured before its first packet is written.
LocksWrite(c) ==
    /\ call[c] = "checked" /\ writeMu = {}
    /\ IF Done \/ broken \/ ~ Preflight(c)
       THEN Goes(c, "failed") /\ UNCHANGED writeMu
       ELSE Goes(c, "writing") /\ writeMu' = {c}
    /\ UNCHANGED <<sent, written, reader, reads, broken, outbound, taken, closing>>

\* writeFullPacket; the device refuses a packet that is too long, every packet
\* once it is closed, and others at will.
WritesPacket(c) ==
    /\ call[c] = "writing" /\ sent[c] < Len(Batches[c])
    /\ \/ /\ closing \notin {"device closed", "over"} /\ Batches[c][sent[c] + 1] <= MTU
          /\ written' = Append(written, <<c, sent[c] + 1>>)
          /\ sent' = [sent EXCEPT ![c] = @ + 1]
          /\ UNCHANGED <<call, writeMu>>
       \/ /\ Goes(c, "failed") /\ writeMu' = {}
          /\ UNCHANGED <<written, sent>>
    /\ UNCHANGED <<reader, reads, broken, outbound, taken, closing>>

\* drainOutbound, under outboundMu, and the return with writeMu released.  A batch may
\* hold as many packets as the queue, at its largest.
drainOutbound(c) ==
    /\ call[c] = "writing" /\ sent[c] = Len(Batches[c])
    /\ taken' = [taken EXCEPT ![c] = outbound]
    /\ outbound' = <<>>
    /\ Goes(c, "done") /\ writeMu' = {}
    /\ UNCHANGED <<sent, written, reader, reads, broken, closing>>

-----------------------------------------------------------------------------
(* readDevice                                                               *)

Reader(next) == reader' = next /\ UNCHANGED <<call, sent, writeMu, written, taken, closing>>

\* A read yields a packet, with or without an error beside it, or only an error; an
\* empty read and an impossible length count as errors.
ReadsPacket ==
    /\ reader = "read" /\ reads < MaxReads /\ closing \notin {"device closed", "over"}
    /\ reads' = reads + 1
    /\ \E next \in {"queue", "queue last"} : Reader(next)
    /\ UNCHANGED <<broken, outbound>>
ReadFails == reader = "read" /\ Reader("fail") /\ UNCHANGED <<reads, broken, outbound>>

\* The queue with room for a packet: the oldest one makes it.
Evicted == IF Len(outbound) = QueuePackets THEN Tail(outbound) ELSE outbound

\* Under outboundMu.
queueOutbound ==
    /\ reader \in {"queue", "queue last"}
    /\ outbound' = IF Done THEN outbound ELSE Append(Evicted, reads)
    /\ Reader(IF reader = "queue" THEN "look" ELSE "fail")
    /\ UNCHANGED <<reads, broken>>

ReaderLooks ==
    reader = "look" /\ Reader(IF Done THEN "ended" ELSE "read") /\ UNCHANGED <<reads, broken, outbound>>

\* A Close under way keeps the error from being set.
setReadError ==
    /\ reader = "fail" /\ broken' = (broken \/ ~ Done)
    /\ Reader("ended") /\ UNCHANGED <<reads, outbound>>

-----------------------------------------------------------------------------
(* Close                                                                    *)

CloseDone ==
    /\ closing = "no" /\ closing' = "done closed"
    /\ UNCHANGED <<call, sent, writeMu, written, reader, reads, broken, outbound, taken>>
CloseDevice ==
    /\ closing = "done closed" /\ closing' = "device closed"
    /\ UNCHANGED <<call, sent, writeMu, written, reader, reads, broken, outbound, taken>>
\* zeroQueuedOutbound, under outboundMu.
CloseWipes ==
    /\ closing = "device closed" /\ closing' = "over"
    /\ outbound' = <<>>
    /\ UNCHANGED <<call, sent, writeMu, written, reader, reads, broken, taken>>

-----------------------------------------------------------------------------
ExchangeNext ==
    \/ \E c \in Calls : \/ ExchangePacketBatch(c) \/ LocksWrite(c) \/ WritesPacket(c)
                        \/ drainOutbound(c)
    \/ ReadsPacket \/ ReadFails \/ queueOutbound \/ ReaderLooks \/ setReadError
    \/ CloseDone \/ CloseDevice \/ CloseWipes

ExchangeSpec == ExchangeInit /\ [][ExchangeNext]_vars
-----------------------------------------------------------------------------
Of(c) == SelectSeq(written, LAMBDA w : w[1] = c)

\* The device receives the packets of a batch in order and in one piece, with none
\* of another batch in between, and none of a batch with a packet that does not
\* fit.  What the calls take was read from the device, in that order and once.
\* When Close is over no packet is left in the queue, whenever the reader was.
ExchangeExact ==
    /\ \A c \in Calls :
           /\ Of(c) = [i \in 1 .. sent[c] |-> <<c, i>>]
           /\ \A i, j \in DOMAIN written : \A k \in i .. j :
                  written[i][1] = c /\ written[j][1] = c => written[k][1] = c
           /\ ~ Preflight(c) => sent[c] = 0
    /\ LET all == [c \in Calls |-> ToSet(taken[c])] IN
           /\ \A c, d \in Calls : c # d => all[c] \cap all[d] = {}
           /\ \A c \in Calls : \A i, j \in DOMAIN taken[c] : i < j => taken[c][i] < taken[c][j]
           /\ \A c \in Calls : ToSet(outbound) \cap all[c] = {}
    /\ Len(outbound) <= QueuePackets
    /\ closing = "over" => outbound = <<>>
=============================================================================
