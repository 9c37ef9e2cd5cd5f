------------------------------ MODULE MCCarrier ------------------------------
(* How a session is opened and carried, side by side: the ClientHandshake   *)
(* with two callers of Complete and one of Close, the client's HTTP/2       *)
(* carrier, and the packet duplex over it. `part` is the one that moves in  *)
(* a behaviour.                                                             *)
EXTENDS Naturals, Sequences, FiniteSets

CONSTANTS Client, Relay, QueueLimit, WireLimit

VARIABLES part,
    settings, out, queued, wire, read, write, held, call, cancelled, stopped, endpoint, shut, handled,
    parent, run, trip, tls, results, early, opener, hook, pipe, body, once, stored, closing,
    closed, upgraded, user, mutex,
    pc, connect, done, session, ended, claimed, shutdown, \* of the handshake, as are the next
    marked, proofs, given                                 \* (its closed, results, cancelled)

MCEnds == {Client, Relay}
\* Four packets a way while nothing ends; one or two when a caller may end. The frame
\* handler of one end waits for room in its own queue.
Lasting == {[waits |-> {w}, enders |-> {}, packets |-> [e \in MCEnds |-> 4]] : w \in MCEnds}
Ending == {[waits |-> {w}, enders |-> {x}, packets |-> [e \in MCEnds |-> IF e = x THEN 1 ELSE 2]] :
              w, x \in MCEnds}
DuplexSettings == Lasting \cup Ending

D == INSTANCE PacketDuplex WITH Settings <- DuplexSettings
H == INSTANCE H2Carrier
C == INSTANCE ClientHandshake WITH Completers <- {"c1", "c2"}, Closers <- {"x"},
         closed <- marked, results <- proofs, cancelled <- given

ASSUME C!HandshakeAssumption

dvars == <<settings, out, queued, wire, read, write, held, call, cancelled, stopped, endpoint,
           shut, handled>>
hvars == <<parent, run, trip, tls, results, early, opener, hook, pipe, body, once, stored,
           closing, closed, upgraded, user, mutex>>
cvars == <<pc, connect, done, session, marked, claimed, shutdown, proofs, given, ended>>

Init ==
    /\ part \in {"duplex", "client", "handshake"}
    /\ D!Init /\ H!Init /\ C!Init
    /\ part # "duplex" => settings = CHOOSE s \in DuplexSettings : TRUE

Duplex == part = "duplex" /\ D!Next /\ UNCHANGED <<part, hvars, cvars>>
Opening == part = "client" /\ H!Next /\ UNCHANGED <<part, dvars, cvars>>
Connecting == part = "handshake" /\ C!Next /\ UNCHANGED <<part, dvars, hvars>>

Next == Duplex \/ Opening \/ Connecting

vars == <<part, dvars, hvars, cvars>>

\* The fairness of PacketDuplex, H2Carrier and ClientHandshake, each when it is the part that moves.
Fairness ==
    /\ \A e \in MCEnds : /\ WF_dvars(part = "duplex" /\ D!ReadPump(e))
                         /\ WF_dvars(part = "duplex" /\ D!WritePump(e))
                         /\ WF_dvars(part = "duplex" /\ D!Call(e))
    /\ WF_hvars(part = "client" /\ H!Opener)
    /\ WF_hvars(part = "client" /\ H!Closer)
    /\ WF_hvars(part = "client" /\ H!LoadRoundTripResult)
    /\ WF_hvars(part = "client" /\ run /\ (H!Dial \/ H!RoundTrip))
    /\ \A u \in H!Users \ {"close"} :
          SF_hvars(part = "client" /\ H!Method(u) /\ (user[u] = "io" => run))
    /\ WF_cvars(part = "handshake" /\ C!ConnectStep)
    /\ \A c \in C!Callers : WF_cvars(part = "handshake" /\ C!CallerStep(c))

Spec == Init /\ [][Next]_vars /\ Fairness
-----------------------------------------------------------------------------
\* A failed Open and a finished Close leave no round trip, result, pipe or body.
CarrierReleased == H!CarrierReleased
\* The session a ClientHandshake made belongs to one Complete, or is closed, and
\* no proof outlives its provider (handshake/client_resume.go).
SessionOwned == C!SessionOwned
\* Every call returns: RunPacketDuplex once its context or endpoint ended, and then
\* the other end's; Open and the carrier's methods after a cancellation or a Close;
\* Begin, Complete and Close of a handshake once Connect is over.
Returns == D!Returns /\ H!CarrierReturns /\ (part = "handshake" => C!CallsReturn)
=============================================================================
