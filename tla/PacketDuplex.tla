---------------------------- MODULE PacketDuplex ----------------------------
(* transport.RunPacketDuplex at both ends of one carrier.  A read pump hands *)
(* packets to the endpoint and its frame blocks to the handler; a write pump *)
(* carries the endpoint's queue; the caller waits for the first thing to end *)
(* and takes the rest down.                                                  *)
EXTENDS Integers, Sequences, SequencesExt

CONSTANTS Client, Relay,
          QueueLimit,  \* packets an endpoint queues
          WireLimit,   \* packets the carrier holds in one direction
          Settings     \* see settings

Ends == {Client, Relay}
Peer(e) == IF e = Client THEN Relay ELSE Client

VARIABLES
    settings,   \* waits: the ends whose frame handler may wait for room in its own
                \* queue; enders: the ends that may end by themselves (bound);
                \* packets[e]: how many packets are queued at e (bound)
    out,        \* out[e]: packets queued at e, by number
    queued,     \* queued[e]: how many packets were ever queued at e
    wire,       \* wire[e]: packets e wrote that the peer has not read
    read,       \* read[e]: where e's read pump is
    write,      \* write[e]: where e's write pump is
    held,       \* held[e]: the packet the write pump took, or 0
    call,       \* call[e]: where RunPacketDuplex is
    cancelled,  \* the ends whose context is cancelled by their caller
    stopped,    \* the ends whose pump context is cancelled
    endpoint,   \* endpoint[e]: "up", "failed" or "closed"
    shut,       \* the ends that closed both directions of the carrier
    handled     \* handled[e]: the packets whose blocks e's handler was given

pumpVars == <<read, write, held>>
callVars == <<call, stopped, shut>>
vars == <<settings, out, queued, wire, pumpVars, callVars, cancelled, endpoint, handled>>

Init ==
    /\ settings \in Settings
    /\ out = [e \in Ends |-> <<>>]
    /\ queued = [e \in Ends |-> 0]
    /\ wire = [e \in Ends |-> <<>>]
    /\ read = [e \in Ends |-> "read"]
    /\ write = [e \in Ends |-> "next"]
    /\ held = [e \in Ends |-> 0]
    /\ call = [e \in Ends |-> "select"]
    /\ cancelled = {}
    /\ stopped = {}
    /\ endpoint = [e \in Ends |-> "up"]
    /\ shut = {}
    /\ handled = [e \in Ends |-> <<>>]

Stopped(e) == e \in stopped \cup cancelled

\* QueueFrames: refused when the queue is full or the endpoint has ended.
HasRoom(e) == endpoint[e] = "up" /\ Len(out[e]) < QueueLimit

Enqueue(e) ==
    /\ HasRoom(e) /\ queued[e] < settings.packets[e]
    /\ queued' = [queued EXCEPT ![e] = @ + 1]
    /\ out' = [out EXCEPT ![e] = Append(@, queued[e] + 1)]
-----------------------------------------------------------------------------
(* The environment of an end.                                              *)

Queue(e) ==
    /\ call[e] # "returned" /\ Enqueue(e)
    /\ UNCHANGED <<settings, wire, pumpVars, callVars, cancelled, endpoint, handled>>

Cancel(e) ==
    /\ e \in settings.enders /\ call[e] # "returned" /\ e \notin cancelled
    /\ cancelled' = cancelled \cup {e}
    /\ UNCHANGED <<settings, out, queued, wire, pumpVars, callVars, endpoint, handled>>

EndpointFails(e) ==
    /\ e \in settings.enders /\ endpoint[e] = "up"
    /\ endpoint' = [endpoint EXCEPT ![e] = "failed"]
    /\ UNCHANGED <<settings, out, queued, wire, pumpVars, callVars, cancelled, handled>>

\* What an end that shut its carrier had written may still be lost.
Reset(e) ==
    /\ e \in shut /\ wire[e] # <<>>
    /\ wire' = [wire EXCEPT ![e] = <<>>]
    /\ UNCHANGED <<settings, out, queued, pumpVars, callVars, cancelled, endpoint, handled>>
-----------------------------------------------------------------------------
(* runPacketReadPump and handlePacketRecord.                               *)

ReadAt(e, pc) == read' = [read EXCEPT ![e] = pc]

\* A record that the endpoint opens, or the end of the carrier, of the context
\* or of the endpoint.
ReadRecord(e) ==
    LET p == Peer(e)
    IN  /\ read[e] = "read"
        /\ \/ /\ e \notin shut /\ wire[p] # <<>>
              /\ wire' = [wire EXCEPT ![p] = Tail(@)]
              /\ IF Stopped(e) \/ endpoint[e] # "up" THEN ReadAt(e, "done") /\ UNCHANGED handled
                 ELSE /\ handled' = [handled EXCEPT ![e] = Append(@, Head(wire[p]))]
                      /\ ReadAt(e, "block")
           \/ /\ e \in shut \/ (wire[p] = <<>> /\ p \in shut)
              /\ ReadAt(e, "done") /\ UNCHANGED <<wire, handled>>
        /\ UNCHANGED <<settings, out, queued, write, held, callVars, cancelled, endpoint>>

\* The frame handler: done, an error, or a reply to be queued.
RunHandler(e) ==
    /\ read[e] = "block"
    /\ \/ (Stopped(e) \/ e \in settings.enders) /\ ReadAt(e, "done")
       \/ ~Stopped(e) /\ ReadAt(e, "read")
       \/ ~Stopped(e) /\ e \in settings.waits /\ ReadAt(e, "reply")
    /\ UNCHANGED <<settings, out, queued, wire, write, held, callVars, cancelled, endpoint, handled>>

\* A reply waits for room until the context or the endpoint ends.
QueueReply(e) ==
    /\ read[e] = "reply"
    /\ \/ Enqueue(e) /\ ReadAt(e, "read")
       \/ HasRoom(e) /\ queued[e] = settings.packets[e] /\ ReadAt(e, "read") /\ UNCHANGED <<out, queued>>
       \/ (Stopped(e) \/ endpoint[e] # "up") /\ ReadAt(e, "done") /\ UNCHANGED <<out, queued>>
    /\ UNCHANGED <<settings, wire, write, held, callVars, cancelled, endpoint, handled>>

ReadPump(e) == ReadRecord(e) \/ RunHandler(e) \/ QueueReply(e)
-----------------------------------------------------------------------------
(* runPacketWritePump.                                                     *)

WriteEnds(e) == write' = [write EXCEPT ![e] = "done"] /\ held' = [held EXCEPT ![e] = 0]

NextPacket(e) ==
    /\ write[e] = "next"
    /\ \/ /\ out[e] # <<>> /\ endpoint[e] = "up"
          /\ out' = [out EXCEPT ![e] = Tail(@)]
          /\ IF Stopped(e) THEN WriteEnds(e)
             ELSE /\ held' = [held EXCEPT ![e] = Head(out[e])]
                  /\ write' = [write EXCEPT ![e] = "write"]
       \/ /\ Stopped(e) \/ endpoint[e] # "up"
          /\ WriteEnds(e) /\ UNCHANGED out
    /\ UNCHANGED <<settings, queued, wire, read, callVars, cancelled, endpoint, handled>>

\* The carrier takes the record when it has room; an end that is shut fails it.
WriteRecord(e) ==
    /\ write[e] = "write"
    /\ \/ /\ e \notin shut /\ Peer(e) \notin shut /\ Len(wire[e]) < WireLimit
          /\ wire' = [wire EXCEPT ![e] = Append(@, held[e])]
          /\ write' = [write EXCEPT ![e] = "next"]
          /\ held' = [held EXCEPT ![e] = 0]
       \/ /\ e \in shut \/ Peer(e) \in shut
          /\ WriteEnds(e) /\ UNCHANGED wire
    /\ UNCHANGED <<settings, out, queued, read, callVars, cancelled, endpoint, handled>>

WritePump(e) == NextPacket(e) \/ WriteRecord(e)
-----------------------------------------------------------------------------
(* RunPacketDuplex itself.                                                 *)

\* The first of the caller's context, the endpoint and the pumps.
Select(e) ==
    /\ call[e] = "select"
    /\ e \in cancelled \/ endpoint[e] # "up" \/ read[e] = "done" \/ write[e] = "done"
    /\ stopped' = stopped \cup {e}
    /\ call' = [call EXCEPT ![e] = "close"]
    /\ UNCHANGED <<settings, out, queued, wire, pumpVars, cancelled, endpoint, shut, handled>>

\* Mutant: the directions of the carrier are left open.
CloseEndpointOnly(e) ==
    /\ call[e] = "close"
    /\ endpoint' = [endpoint EXCEPT ![e] = "closed"]
    /\ call' = [call EXCEPT ![e] = "collect"]
    /\ UNCHANGED <<settings, out, queued, wire, pumpVars, cancelled, stopped, shut, handled>>
\* closePacketDuplex.
ClosePacketDuplex(e) ==
    /\ call[e] = "close"
    /\ endpoint' = [endpoint EXCEPT ![e] = "closed"]
    /\ shut' = shut \cup {e}
    /\ call' = [call EXCEPT ![e] = "collect"]
    /\ UNCHANGED <<settings, out, queued, wire, pumpVars, cancelled, stopped, handled>>

\* Both pumps are waited for.
Collect(e) ==
    /\ call[e] = "collect" /\ read[e] = "done" /\ write[e] = "done"
    /\ call' = [call EXCEPT ![e] = "returned"]
    /\ UNCHANGED <<settings, out, queued, wire, pumpVars, cancelled, stopped, endpoint, shut, handled>>

Call(e) == Select(e) \/ ClosePacketDuplex(e) \/ Collect(e)
-----------------------------------------------------------------------------
Step(e) == ReadPump(e) \/ WritePump(e) \/ Call(e)

Next == \E e \in Ends :
            \/ Queue(e) \/ Cancel(e) \/ EndpointFails(e) \/ Reset(e) \/ Step(e)

\* The pumps and the caller are goroutines; nothing is assumed of the environment.
Fairness == \A e \in Ends : WF_vars(ReadPump(e)) /\ WF_vars(WritePump(e)) /\ WF_vars(Call(e))

Spec == Init /\ [][Next]_vars /\ Fairness
-----------------------------------------------------------------------------
TypeOK ==
    /\ \A e \in Ends :
          /\ Len(out[e]) <= QueueLimit /\ Len(wire[e]) <= WireLimit
          /\ read[e] \in {"read", "block", "reply", "done"}
          /\ write[e] \in {"next", "write", "done"}
          /\ call[e] \in {"select", "close", "collect", "returned"}
          /\ endpoint[e] \in {"up", "failed", "closed"}
    /\ cancelled \cup stopped \cup shut \subseteq Ends

\* A pump waits for something only the other end can give.
Blocked(e) ==
    /\ read[e] = "reply" /\ ~HasRoom(e)
    /\ write[e] = "write" /\ Len(wire[e]) = WireLimit

\* A call whose context is cancelled, or whose endpoint ended, returns, whatever
\* the peer does; and when one end has returned the other returns too.
Returns ==
    \A e \in Ends :
        /\ (e \in cancelled \/ endpoint[e] # "up") ~> (call[e] = "returned")
        /\ (call[e] = "returned") ~> (call[Peer(e)] = "returned")
=============================================================================
