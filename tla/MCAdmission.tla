----------------------------- MODULE MCAdmission -----------------------------
(***************************************************************************)
(* How a client gets in, explored side by side: the wallet it takes a      *)
(* credential from, the relay's replay cache on disk, the handshake with   *)
(* the first relay, the client's session around it, the relay's handlers,  *)
(* and the hops of a route. A behaviour is one of one part, and the        *)
(* variables of the others stay unused.                                    *)
(***************************************************************************)
EXTENDS Naturals, Sequences, FiniteSets, TLC

CONSTANTS None, proc1, proc2, inode1, inode2

VARIABLES
    part,   \* the part of the program this behaviour is of
    now, source, disk, survivors, lock, pc, wallet, at, taken, begun, valid, file,
    generation, durable, replaced, up, seen, loaded, admitted, setting, uses, client,
    owned, cancelled, relay, down, sent, broken, spentHints, spentTokens,
    seenBootstraps, expired, restarts, requests, holds, length, response, after,
    deadline, writing, observed, poisoned, active, slots, used, waitGroup, shutdown,
    clock, epochUntil, call, envelope, started, minDeadline, spent, accepted,
    preludeVerified, routeInstanceID, hopIndex, drainingRoutes, genuine, left,
    connect, done, session, closed, claimed, results, ended, stage, shut, completing,
    timer, fate

(* Two attempts at a handshake. *)
OfferOf(minimum, requested, route) ==
    [minimum |-> minimum, requested |-> requested, route |-> route, shape |-> 1, personalities |-> {1}]
Selects(policy, route) ==
    [type |-> "accept", policy |-> policy, route |-> route, shape |-> 1, personality |-> 1]

SameCredential ==
    [credential |-> [a |-> "h1", b |-> "h1"], token |-> [a |-> "t1", b |-> "t1"],
     offer |-> [a |-> OfferOf(1, 2, 1), b |-> OfferOf(1, 2, 1)], selector |-> Selects(2, 1), pq |-> FALSE]
SameToken ==
    [credential |-> [a |-> "h1", b |-> "h2"], token |-> [a |-> "t1", b |-> "t1"],
     offer |-> [a |-> OfferOf(1, 2, 1), b |-> OfferOf(3, 4, 2)], selector |-> Selects(3, 2), pq |-> FALSE]

(* Envelopes a route's relay is handed: sealed by the client or not, their hint genuine or not. *)
Envelope(hint, nonce, sealed, mac) == [hint |-> hint, nonce |-> nonce, sealed |-> sealed, mac |-> mac]
SomeEnvelopes ==
    {Envelope("h", "n1", TRUE, TRUE), Envelope("h", "n2", TRUE, TRUE),
     Envelope("h", "n3", FALSE, TRUE), Envelope("g", "n1", TRUE, FALSE)}

Symmetry == Permutations({proc1, proc2}) \union Permutations({inode1, inode2})
-----------------------------------------------------------------------------
(* Two processes on one wallet whose entries expire one after the other. *)
W == INSTANCE Wallet WITH
    Processes <- {"p", "q"}, Entries <- {"e1", "e2", "e3"},
    Expiry <- [e1 |-> 2, e2 |-> 3, e3 |-> 3], Sources <- {"wallet"},
    Contents <- [wallet |-> <<"e1", "e2", "e3">>], MaxEntries <- 2, MaxTime <- 3,
    None <- None

(* Two processes on one replay cache: two credentials, two compactions, reused
   file identities. *)
Cache == INSTANCE RetentionCache WITH
    Processes <- {proc1, proc2}, Keys <- {"k1", "k2"},
    Expiry <- [k1 |-> 2, k2 |-> 5], Grace <- 1, MaxLag <- 1, MaxTime <- 4,
    MaxGeneration <- 2, Inodes <- {inode1, inode2}

(* Two attempts against one relay: of one credential and token, or of two
   credentials, one token and different offers. *)
H == INSTANCE CoverHandshake WITH
    Attempts <- {"a", "b"}, MaxUses <- 1, Settings <- {SameCredential, SameToken}

(* Two sessions: two streams of one connection, or two connections. *)
F == INSTANCE FirstHop WITH
    MaxSessions <- 2, MaxPreludeBytes <- 1, PendingLimit <- 1,
    Settings <- {{<<"c1", 1>>, <<"c1", 3>>}, {<<"c1", 1>>, <<"c2", 1>>}}

(* Two calls at a relay, with envelopes that share a hint, a nonce, or neither. *)
R == INSTANCE RouteRelay WITH
    Calls <- {"call1", "call2"}, Envelopes <- SomeEnvelopes,
    Expiry <- [h |-> 5, g |-> 3], EpochLength <- 2, Grace <- 1, MaxTime <- 8

(* Three routes of two hops, two of them asked for. *)
L == INSTANCE RouteClient WITH
    Routes <- {1, 2, 3}, Hops <- {1, 2}, Suites <- {"s"}, Drains <- {0, 2},
    MaxTime <- 5, MaxRequests <- 2

(* A provisioned session with two calls of Complete. *)
S == INSTANCE ProvisionedSession WITH
    Completers <- {"c1", "c2"}, Closers <- {"closer"}
-----------------------------------------------------------------------------
ASSUME W!WalletAssumption
ASSUME Cache!RetentionAssumption
ASSUME S!HandshakeAssumption

Unused == "unused"

(* The variables that one part, or several, use; unused in the others. *)
WCacheRLVars == <<now>>
WCacheRLOff == now = Unused
WVars == <<source, disk, survivors, lock, wallet, at, valid>>
WOff ==
    /\ source = Unused /\ disk = Unused /\ survivors = Unused /\ lock = Unused
    /\ wallet = Unused /\ at = Unused /\ valid = Unused
WFSVars == <<pc>>
WFSOff == pc = Unused
WSVars == <<taken>>
WSOff == taken = Unused
WHVars == <<begun>>
WHOff == begun = Unused
CacheVars == <<file, generation, durable, replaced, loaded, admitted>>
CacheOff ==
    /\ file = Unused /\ generation = Unused /\ durable = Unused /\ replaced = Unused
    /\ loaded = Unused /\ admitted = Unused
CacheHVars == <<up>>
CacheHOff == up = Unused
CacheRVars == <<seen>>
CacheROff == seen = Unused
HVars == <<setting, uses, client, owned, relay, down, sent, broken, spentHints,
           spentTokens, seenBootstraps, expired, restarts>>
HOff ==
    /\ setting = Unused /\ uses = Unused /\ client = Unused /\ owned = Unused
    /\ relay = Unused /\ down = Unused /\ sent = Unused /\ broken = Unused
    /\ spentHints = Unused /\ spentTokens = Unused /\ seenBootstraps = Unused
    /\ expired = Unused /\ restarts = Unused
HFSVars == <<cancelled>>
HFSOff == cancelled = Unused
FLVars == <<requests>>
FLOff == requests = Unused
FSVars == <<holds, shutdown>>
FSOff ==
    /\ holds = Unused /\ shutdown = Unused
FVars == <<length, response, after, deadline, writing, observed, poisoned, active,
           slots, used, waitGroup>>
FOff ==
    /\ length = Unused /\ response = Unused /\ after = Unused /\ deadline = Unused
    /\ writing = Unused /\ observed = Unused /\ poisoned = Unused /\ active = Unused
    /\ slots = Unused /\ used = Unused /\ waitGroup = Unused
RVars == <<clock, epochUntil, envelope, started, minDeadline, spent, accepted>>
ROff ==
    /\ clock = Unused /\ epochUntil = Unused /\ envelope = Unused /\ started = Unused
    /\ minDeadline = Unused /\ spent = Unused /\ accepted = Unused
RSVars == <<call>>
RSOff == call = Unused
LVars == <<preludeVerified, routeInstanceID, hopIndex, drainingRoutes, genuine, left>>
LOff ==
    /\ preludeVerified = Unused /\ routeInstanceID = Unused /\ hopIndex = Unused
    /\ drainingRoutes = Unused /\ genuine = Unused /\ left = Unused
SVars == <<connect, done, session, closed, claimed, results, ended, stage, shut,
           completing, timer, fate>>
SOff ==
    /\ connect = Unused /\ done = Unused /\ session = Unused /\ closed = Unused
    /\ claimed = Unused /\ results = Unused /\ ended = Unused /\ stage = Unused
    /\ shut = Unused /\ completing = Unused /\ timer = Unused /\ fate = Unused

WInit ==
    /\ part = "wallet"
    /\ W!Init
    /\ CacheOff /\ CacheHOff /\ CacheROff /\ HOff /\ HFSOff /\ FLOff /\ FSOff /\ FOff
    /\ ROff /\ RSOff /\ LOff /\ SOff
WNext ==
    /\ part = "wallet"
    /\ W!Next
    /\ UNCHANGED <<part, CacheVars, CacheHVars, CacheRVars, HVars, HFSVars, FLVars,
                   FSVars, FVars, RVars, RSVars, LVars, SVars>>

CacheInit ==
    /\ part = "cache"
    /\ Cache!Init
    /\ WOff /\ WFSOff /\ WSOff /\ WHOff /\ HOff /\ HFSOff /\ FLOff /\ FSOff /\ FOff
    /\ ROff /\ RSOff /\ LOff /\ SOff
CacheNext ==
    /\ part = "cache"
    /\ Cache!Next
    /\ UNCHANGED <<part, WVars, WFSVars, WSVars, WHVars, HVars, HFSVars, FLVars,
                   FSVars, FVars, RVars, RSVars, LVars, SVars>>

HInit ==
    /\ part = "handshake"
    /\ H!Init
    /\ WCacheRLOff /\ WOff /\ WFSOff /\ WSOff /\ CacheOff /\ CacheROff /\ FLOff
    /\ FSOff /\ FOff /\ ROff /\ RSOff /\ LOff /\ SOff
HNext ==
    /\ part = "handshake"
    /\ H!Next
    /\ UNCHANGED <<part, WCacheRLVars, WVars, WFSVars, WSVars, CacheVars, CacheRVars,
                   FLVars, FSVars, FVars, RVars, RSVars, LVars, SVars>>

FInit ==
    /\ part = "first hop"
    /\ F!Init
    /\ WCacheRLOff /\ WOff /\ WSOff /\ WHOff /\ CacheOff /\ CacheHOff /\ CacheROff
    /\ HOff /\ ROff /\ RSOff /\ LOff /\ SOff
FNext ==
    /\ part = "first hop"
    /\ F!Next
    /\ UNCHANGED <<part, WCacheRLVars, WVars, WSVars, WHVars, CacheVars, CacheHVars,
                   CacheRVars, HVars, RVars, RSVars, LVars, SVars>>

RInit ==
    /\ part = "route"
    /\ R!Init
    /\ WOff /\ WFSOff /\ WSOff /\ WHOff /\ CacheOff /\ CacheHOff /\ HOff /\ HFSOff
    /\ FLOff /\ FSOff /\ FOff /\ LOff /\ SOff
RNext ==
    /\ part = "route"
    /\ R!Next
    /\ UNCHANGED <<part, WVars, WFSVars, WSVars, WHVars, CacheVars, CacheHVars,
                   HVars, HFSVars, FLVars, FSVars, FVars, LVars, SVars>>

LInit ==
    /\ part = "route client"
    /\ L!Init
    /\ WOff /\ WFSOff /\ WSOff /\ WHOff /\ CacheOff /\ CacheHOff /\ CacheROff /\ HOff
    /\ HFSOff /\ FSOff /\ FOff /\ ROff /\ RSOff /\ SOff
LNext ==
    /\ part = "route client"
    /\ L!Next
    /\ UNCHANGED <<part, WVars, WFSVars, WSVars, WHVars, CacheVars, CacheHVars,
                   CacheRVars, HVars, HFSVars, FSVars, FVars, RVars, RSVars, SVars>>

SInit ==
    /\ part = "provisioned"
    /\ S!SessionInit
    /\ WCacheRLOff /\ WOff /\ WHOff /\ CacheOff /\ CacheHOff /\ CacheROff /\ HOff
    /\ FLOff /\ FOff /\ ROff /\ LOff
SNext ==
    /\ part = "provisioned"
    /\ S!SessionNext
    /\ UNCHANGED <<part, WCacheRLVars, WVars, WHVars, CacheVars, CacheHVars,
                   CacheRVars, HVars, FLVars, FVars, RVars, LVars>>

vars == <<part, WCacheRLVars, WVars, WFSVars, WSVars, WHVars, CacheVars, CacheHVars,
          CacheRVars, HVars, HFSVars, FLVars, FSVars, FVars, RVars, RSVars, LVars,
          SVars>>

Init == WInit \/ CacheInit \/ HInit \/ FInit \/ RInit \/ LInit \/ SInit
Next == WNext \/ CacheNext \/ HNext \/ FNext \/ RNext \/ LNext \/ SNext

Spec == Init /\ [][Next]_vars
-----------------------------------------------------------------------------
(* An entry of the wallet starts at most one session while its access hint is
   valid, whatever processes, crashes and power losses do. *)
UsedOnceWhileValid == part = "wallet" => W!UsedOnceWhileValid

(* A credential is admitted at most once by whatever processes share the
   replay cache, through torn writes, compactions, deaths and power losses. *)
AdmittedOnce == part = "cache" => Cache!AdmittedOnce

(* A client and a relay that finish a handshake did so with each other, with
   the same proof, offer and policy. *)
Agreement == part = "handshake" => H!Agreement

(* A credential begins at most one handshake at the relay, across attempts,
   drivers and restarts of either side. *)
HintBeginsOnce == part = "handshake" => H!HintBeginsOnce

(* The first hop's limiter, budget and wait group count what handlers hold on
   every path, and after a shutdown no session is left. A provisioned session of
   the client that is closed leaves no handshake, session or request behind. *)
SessionsOwned ==
    /\ part = "first hop" => F!SessionsOwned
    /\ part = "provisioned" => S!NothingRetained

(* Cancellation reaches a session of the first hop wherever it is. *)
CancelReaches == part = "first hop" => F!CancelReaches

(* A route's relay accepts a credential once, however often its envelopes are
   replayed while clock, epochs and sweeps move on. *)
CredentialOnce == part = "route" => R!CredentialOnce

=============================================================================
