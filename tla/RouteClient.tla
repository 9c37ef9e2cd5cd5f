----------------------------- MODULE RouteClient -----------------------------
(***************************************************************************)
(* The client's side of a route hop (route.ClientSession): a response to   *)
(* its route prelude is verified before the route becomes active, routes   *)
(* are rotated, and the route that was left is still accepted while it     *)
(* drains.                                                                 *)
(*                                                                         *)
(* A request is the private prelude of one hop; a response repeats its     *)
(* fields and carries two signatures, each over the hop's transcript: what *)
(* was asked and what was answered.  Responses arrive from the next relay, *)
(* for any request it was sent, and one field or one signature of a        *)
(* response may have been changed on the way.                              *)
(***************************************************************************)
EXTENDS Naturals, FiniteSets

CONSTANTS
    Routes,     \* route instance ids
    Hops,       \* hop indexes
    Suites,     \* suites the client offers; the relay supports them and "other"
    Drains,     \* drainSeconds values RotateRoute is called with
    MaxTime,    \* bound: the last second
    MaxRequests \* bound: preludes sent

VARIABLES
    now,
    requests,          \* the private preludes the client has sent
    preludeVerified,   \* ClientSession fields
    routeInstanceID,
    hopIndex,
    drainingRoutes,    \* route -> drainUntilUnix
    genuine,           \* history: every response accepted was the relay's answer to that request
    left               \* history: route -> [at, drain] of when RotateRoute left it

vars == <<now, requests, preludeVerified, routeInstanceID, hopIndex, drainingRoutes, genuine, left>>

Epoch == "current"

Requests == [route : Routes, hop : Hops, suites : {Suites}]

Init ==
    /\ now = 1
    /\ requests = {}
    /\ preludeVerified = FALSE
    /\ routeInstanceID = 0
    /\ hopIndex = 0
    /\ drainingRoutes = << >>
    /\ genuine = TRUE
    /\ left = << >>

Put(f, k, v) == [x \in DOMAIN f \union {k} |-> IF x = k THEN v ELSE f[x]]
Without(f, k) == [x \in DOMAIN f \ {k} |-> f[x]]

(* SealPrivatePrelude: the client asks for a hop. *)
SealPrivatePrelude ==
    \E r \in Requests \ requests :
        /\ Cardinality(requests) < MaxRequests
        /\ requests' = requests \union {r}
        /\ UNCHANGED <<now, preludeVerified, routeInstanceID, hopIndex, drainingRoutes, genuine, left>>

(* HopPreludeTranscriptHash, over the request and the unsigned response. *)
Unsigned(p1) == [route |-> p1.route, hop |-> p1.hop, suite |-> p1.suite, epoch |-> p1.epoch]
Transcript(p0, p1) == <<p0, Unsigned(p1)>>
NoSignature == << >>

(* What the relay answers and signs; any of its supported suites. *)
Honest(p0, suite) ==
    LET p1 == [route |-> p0.route, hop |-> p0.hop, suite |-> suite, epoch |-> Epoch]
    IN [route |-> p0.route, hop |-> p0.hop, suite |-> suite, epoch |-> Epoch,
        classical |-> <<"classical", Transcript(p0, p1)>>, pq |-> <<"pq", Transcript(p0, p1)>>]

(* The response as it arrives: as sent, or with one thing different. *)
Arrivals(p1) ==
    {p1} \union {[p1 EXCEPT !.route = r] : r \in Routes}
         \union {[p1 EXCEPT !.hop = h] : h \in Hops}
         \union {[p1 EXCEPT !.suite = s] : s \in Suites}
         \union {[p1 EXCEPT !.epoch = "past"]}
         \union {[p1 EXCEPT !.classical = NoSignature], [p1 EXCEPT !.pq = NoSignature]}

(* VerifyRoutePrelude1Signatures: the suite was offered, the metadata      *)
(* repeats the request, the epoch is the descriptor's, and both signatures *)
(* are over this hop's transcript.                                         *)
validateRoutePreludeMetadata(p0, p1) == p1.route = p0.route /\ p1.hop = p0.hop


VerifyRoutePrelude1Signatures(p0, p1) ==
    /\ p1.suite \in p0.suites
    /\ validateRoutePreludeMetadata(p0, p1)
    /\ p1.epoch = Epoch
    /\ p1.classical = <<"classical", Transcript(p0, p1)>>
    /\ p1.pq = <<"pq", Transcript(p0, p1)>>

ActivateRoute(route, hop) ==
    /\ preludeVerified' = TRUE
    /\ routeInstanceID' = route
    /\ hopIndex' = hop
    /\ drainingRoutes' = Without(drainingRoutes, route)

(* VerifyRoutePrelude1: a response arrives for a request the client sent.  *)
(* A response that does not verify changes nothing.                        *)
VerifyRoutePrelude1 ==
    \E p0, asked \in requests : \E suite \in Suites \union {"other"} : \E p1 \in Arrivals(Honest(asked, suite)) :
        /\ VerifyRoutePrelude1Signatures(p0, p1)
        /\ ActivateRoute(p1.route, p1.hop)
        /\ genuine' = (genuine /\ p1 = Honest(p0, p1.suite) /\ p0 = asked /\ p1.suite \in Suites)
        /\ left' = Without(left, p1.route)
        /\ UNCHANGED <<now, requests>>

Purged == [r \in {r \in DOMAIN drainingRoutes : now < drainingRoutes[r]} |-> drainingRoutes[r]]

(* RotateRoute: what has drained is dropped; a rotation is refused while a *)
(* route drains, and to the active route.                                  *)

RotateRoute(route, hop, drain) ==
    /\ preludeVerified
    /\ IF Purged # << >> \/ routeInstanceID = route
       THEN drainingRoutes' = Purged /\ UNCHANGED <<routeInstanceID, hopIndex, left>>
       ELSE /\ drainingRoutes' = IF drain > 0 THEN Put(Purged, routeInstanceID, now + drain) ELSE Purged
            /\ routeInstanceID' = route
            /\ hopIndex' = hop
            /\ left' = Put(Without(left, route), routeInstanceID, [at |-> now, drain |-> drain])
    /\ UNCHANGED <<now, requests, preludeVerified, genuine>>

(* AcceptsRouteInstance, which purges what has drained. *)
AcceptsRouteInstance(route) ==
    /\ preludeVerified
    /\ route = routeInstanceID \/ (route \in DOMAIN drainingRoutes /\ now < drainingRoutes[route])

Ask(route) ==
    /\ preludeVerified
    /\ route # routeInstanceID
    /\ drainingRoutes' = Purged
    /\ UNCHANGED <<now, requests, preludeVerified, routeInstanceID, hopIndex, genuine, left>>

Tick ==
    /\ now < MaxTime
    /\ now' = now + 1
    /\ UNCHANGED <<requests, preludeVerified, routeInstanceID, hopIndex, drainingRoutes, genuine, left>>

Next ==
    \/ SealPrivatePrelude
    \/ VerifyRoutePrelude1
    \/ \E route \in Routes, hop \in Hops, drain \in Drains : RotateRoute(route, hop, drain)
    \/ \E route \in Routes : Ask(route)
    \/ Tick

Spec == Init /\ [][Next]_vars
-----------------------------------------------------------------------------
=============================================================================
