------------------------------ MODULE MCDevice -------------------------------
(***************************************************************************)
(* The device side, explored side by side: the packet adapter between a    *)
(* TUN device and a session, its fragment reassembly and fake addresses,   *)
(* the process that owns the device and its routes, the native library's   *)
(* registry of sessions, a server's exchange with its device, and the      *)
(* scheduler that orders what they send. A behaviour is one of one part,   *)
(* and the others stay as they began.                                      *)
(***************************************************************************)
EXTENDS Scheduler

VARIABLES
    part,   \* the part of the program this behaviour is of
    setting, now, table, pending, local, nextFlowID, opens, closed, packet, queued,
    stack, relay, ended, version, sets, made, clock, byName, byIP, negative, seconds,
    handed, opened, pc, attempt, cancelled, changes, todo, cleanup, metric, held,
    serve, carrier, listening, pump, closer, writer, terminal, refused, registered,
    terminals, session, completer, closers, duplex, packetMu, consumer, call, sent,
    writeMu, written, reader, reads, broken, outbound, taken, closing

(* What a device sends: the tuples, whether names are asked and answered here, the
   connections of a tuple and the bytes of one, the frames of a batch, and for how long. *)
Sends(tcp, udp, dns, answers, connections, bytes, batch, until) ==
    [tcp |-> tcp, udp |-> udp, dns |-> dns, answers |-> answers,
     connections |-> connections, bytes |-> bytes, batch |-> batch, until |-> until]
Traffic ==
    {Sends({"t"}, {}, FALSE, FALSE, 2, 1, 1, 0), Sends({"t"}, {}, FALSE, FALSE, 1, 3, 2, 0),
     Sends({"t"}, {"u"}, FALSE, FALSE, 1, 1, 1, 0), Sends({}, {}, TRUE, TRUE, 1, 1, 1, 0),
     Sends({}, {}, TRUE, FALSE, 1, 1, 2, 2), Sends({}, {"u"}, FALSE, FALSE, 1, 1, 1, 3)}

(* The name that a spelling stands for; "." stands for none. *)
CanonicalDomain == ("A" :> "a") @@ ("a." :> "a") @@ ("b" :> "b") @@ ("c" :> "c") @@ ("." :> "")

(* Hosts: the relays, the routes that are there already and the metrics of the host's
   own default routes. *)
Host(mode, relays, foreign, metrics) ==
    [mode |-> mode, relays |-> relays, foreign |-> foreign, metrics |-> metrics]
Hosts ==
    {Host("tun", <<"r1", "r2">>, {}, {100, 200}), Host("tun", <<"r1">>, {"r1"}, {0}),
     Host("tun", <<"r1">>, {"r1"}, {}), Host("proxy", <<>>, {}, {})}

ThreeBatches == [c1 |-> <<1, 1>>, c2 |-> <<1, 2>>, c3 |-> <<1, 1>>]
-----------------------------------------------------------------------------
(* One device and one session whose queue takes two frames: a TCP tuple used
   twice, TCP beside UDP, batches of two frames, and queries answered here or
   by the relay. *)
A == INSTANCE PacketAdapter WITH
    Settings <- Traffic, maximumFlows <- 2, maximumLocal <- 2, QueueLimit <- 2,
    DNSLifetime <- 1, ProxyIdle <- 1, UDPIdle <- 3, SequenceModulus <- 8,
    FirstSequence <- 3, MaxFlowID <- 4, MaxOpens <- 3

(* Two packets in up to three units each, whose fragments come in any order,
   again, and mixed. *)
G == INSTANCE FragmentReassembly WITH
    Keys <- {"k", "l"}, Headers <- {1, 2}, MaxUnits <- 3, maximumPacket <- 4,
    maximumFlows <- 1, maximumFragmentSets <- 2, maximumFragments <- 3,
    Lifetime <- 2, MaxClock <- 2

(* Three names, two of which start probing at the same one of two addresses. *)
N == INSTANCE FakeIP WITH
    Spellings <- {"A", "a.", "b", "c", "."}, Canonical <- CanonicalDomain,
    Hash <- [a |-> 0, b |-> 0, c |-> 1], Usable <- 2,
    AnswerLists <- {<<"", "x">>, <<"y">>, <<"">>}, NegativeTTL <- 1, MaxSeconds <- 2

(* Two attempts of one process: in tunnel mode on a host without and with a
   route of its own to the relay, and in proxy mode. *)
P == INSTANCE ClientProcess WITH
    Settings <- Hosts, MaxAttempts <- 2

(* Two handles where one session may live at a time, the first of which
   delivers two packets to a queue of one. *)
S == INSTANCE NativeSessions WITH
    Handles <- {1, 2}, maximumNativeSessions <- 1,
    maximumNativeLocalPacketQueue <- 1, Packets <- <<2, 0>>

(* Three calls on a device, one with a packet that does not fit, and four
   packets read through a queue of two. *)
X == INSTANCE DeviceExchange WITH
    Batches <- ThreeBatches, MTU <- 1, QueuePackets <- 2, MaxReads <- 4
-----------------------------------------------------------------------------
ASSUME N!FakeAssumption

Unused == "unused"

(* The variables that one part, or several, use; unused in the others. *)
APVars == <<setting>>
APOff == setting = Unused
AVars == <<now, table, pending, local, nextFlowID, opens, closed, packet, queued,
           stack, relay, ended>>
AOff ==
    /\ now = Unused /\ table = Unused /\ pending = Unused /\ local = Unused
    /\ nextFlowID = Unused /\ opens = Unused /\ closed = Unused /\ packet = Unused
    /\ queued = Unused /\ stack = Unused /\ relay = Unused /\ ended = Unused
GVars == <<version, sets, made, clock>>
GOff ==
    /\ version = Unused /\ sets = Unused /\ made = Unused /\ clock = Unused
NVars == <<byName, byIP, negative, seconds, handed, opened>>
NOff ==
    /\ byName = Unused /\ byIP = Unused /\ negative = Unused /\ seconds = Unused
    /\ handed = Unused /\ opened = Unused
PVars == <<pc, attempt, cancelled, changes, todo, cleanup, metric, held, serve,
           carrier, listening, pump, closer, writer, terminal, refused>>
POff ==
    /\ pc = Unused /\ attempt = Unused /\ cancelled = Unused /\ changes = Unused
    /\ todo = Unused /\ cleanup = Unused /\ metric = Unused /\ held = Unused
    /\ serve = Unused /\ carrier = Unused /\ listening = Unused /\ pump = Unused
    /\ closer = Unused /\ writer = Unused /\ terminal = Unused /\ refused = Unused
SVars == <<registered, terminals, session, completer, closers, duplex, packetMu,
           consumer>>
SOff ==
    /\ registered = Unused /\ terminals = Unused /\ session = Unused
    /\ completer = Unused /\ closers = Unused /\ duplex = Unused /\ packetMu = Unused
    /\ consumer = Unused
XVars == <<call, sent, writeMu, written, reader, reads, broken, outbound, taken,
           closing>>
XOff ==
    /\ call = Unused /\ sent = Unused /\ writeMu = Unused /\ written = Unused
    /\ reader = Unused /\ reads = Unused /\ broken = Unused /\ outbound = Unused
    /\ taken = Unused /\ closing = Unused

AInit ==
    /\ part = "adapter"
    /\ A!Init
    /\ Init
    /\ GOff /\ NOff /\ POff /\ SOff /\ XOff
ANext ==
    /\ part = "adapter"
    /\ A!Next
    /\ UNCHANGED vars
    /\ UNCHANGED <<part, GVars, NVars, PVars, SVars, XVars>>

GInit ==
    /\ part = "fragments"
    /\ G!FragmentInit
    /\ Init
    /\ APOff /\ AOff /\ NOff /\ POff /\ SOff /\ XOff
GNext ==
    /\ part = "fragments"
    /\ G!FragmentNext
    /\ UNCHANGED vars
    /\ UNCHANGED <<part, APVars, AVars, NVars, PVars, SVars, XVars>>

NInit ==
    /\ part = "names"
    /\ N!FakeInit
    /\ Init
    /\ APOff /\ AOff /\ GOff /\ POff /\ SOff /\ XOff
NNext ==
    /\ part = "names"
    /\ N!FakeNext
    /\ UNCHANGED vars
    /\ UNCHANGED <<part, APVars, AVars, GVars, PVars, SVars, XVars>>

PInit ==
    /\ part = "process"
    /\ P!Init
    /\ Init
    /\ AOff /\ GOff /\ NOff /\ SOff /\ XOff
PNext ==
    /\ part = "process"
    /\ P!Next
    /\ UNCHANGED vars
    /\ UNCHANGED <<part, AVars, GVars, NVars, SVars, XVars>>

SInit ==
    /\ part = "native"
    /\ S!NativeInit
    /\ Init
    /\ APOff /\ AOff /\ GOff /\ NOff /\ POff /\ XOff
SNext ==
    /\ part = "native"
    /\ S!NativeNext
    /\ UNCHANGED vars
    /\ UNCHANGED <<part, APVars, AVars, GVars, NVars, PVars, XVars>>

XInit ==
    /\ part = "exchange"
    /\ X!ExchangeInit
    /\ Init
    /\ APOff /\ AOff /\ GOff /\ NOff /\ POff /\ SOff
XNext ==
    /\ part = "exchange"
    /\ X!ExchangeNext
    /\ UNCHANGED vars
    /\ UNCHANGED <<part, APVars, AVars, GVars, NVars, PVars, SVars>>

SchedulerInit ==
    /\ part = "scheduler"
    /\ Init
    /\ APOff /\ AOff /\ GOff /\ NOff /\ POff /\ SOff /\ XOff
SchedulerNext ==
    /\ part = "scheduler"
    /\ Next
    /\ UNCHANGED <<part, APVars, AVars, GVars, NVars, PVars, SVars, XVars>>

deviceVars == <<vars, part, APVars, AVars, GVars, NVars, PVars, SVars, XVars>>

DeviceInit == SchedulerInit \/ AInit \/ GInit \/ NInit \/ PInit \/ SInit \/ XInit
DeviceNext == SchedulerNext \/ ANext \/ GNext \/ NNext \/ PNext \/ SNext \/ XNext

DeviceSpec == DeviceInit /\ [][DeviceNext]_deviceVars
-----------------------------------------------------------------------------
(* The relay is given each connection's bytes once and in order, and its close after
   the last of them, whatever the adapter drops, resends or refuses. *)
StreamExact == part = "adapter" => A!StreamExact

(* A flow that the relay has and the adapter no longer has is one whose close is
   queued or kept, once, unless the relay or an idle timer ended it. *)
ClosesOwed == part = "adapter" => A!ClosesOwed

(* "UDP loss is acceptable, so the session must survive instead of the read loop
   terminating" (client/packet_adapter.go:2150-2153): a packet dropped because a
   queue is full does not end the session. *)
SurvivesBackpressure == part = "adapter" => A!SurvivesBackpressure

(* A packet put together from fragments has every unit once, the header of its first
   fragment, and fits the device.  A batch of packets reaches a server's device in one
   piece, and what is read there is taken once, in order, and not kept past Close. *)
Whole ==
    /\ part = "fragments" => G!Whole
    /\ part = "exchange" => X!ExchangeExact

(* An address given out for a name leads to that name for ever. *)
AddressMeansName == part = "names" => N!AddressMeansName

(* While a tunnel default route is in place, the relays are routed around the tunnel,
   the device is open and no default of the host precedes it. *)
Routed == part = "process" => P!Routed

(* An attempt that has returned left nothing open, running or routed, but for routes
   whose removal failed. *)
Released == part = "process" => P!Released

(* An open handshake or session of the native library can be reached by its handle or
   is in the hands of a call that closes or enters it. *)
NothingOrphaned == part = "native" => S!NothingOrphaned
=============================================================================
