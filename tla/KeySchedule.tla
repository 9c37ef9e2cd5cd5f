----------------------------- MODULE KeySchedule -----------------------------
(***************************************************************************)
(* What every key, associated data and replay key of a session is computed *)
(* from: the first hop's binding to its TLS connection, the handshake and  *)
(* application secrets, the capsule and packet associated data, the access *)
(* hint, the token and bootstrap records, and the chaining of a route's    *)
(* next hop.                                                               *)
(*                                                                         *)
(* Hashing, HKDF and MACs are free constructors: a result is the tuple of  *)
(* what went into it, so two results are equal exactly when all their      *)
(* inputs are.  The hash function of a suite is the only thing a suite     *)
(* contributes to a hash; its number reaches a result only where the code  *)
(* writes it.  Encoded records are the tuples of their fields (WireCodec   *)
(* shows that encodings tell records apart).                               *)
(***************************************************************************)
EXTENDS Naturals, Sequences

CONSTANTS
    Suites,   \* the suites compared: a subset of DOMAIN HashOf
    Depth     \* how many inputs are changed, one after the other

VARIABLES
    x,         \* the inputs of a session: a value for every field
    was,       \* the inputs before the last change
    changed,   \* the field changed last, "none" at first
    steps

vars == <<x, was, changed, steps>>

-----------------------------------------------------------------------------
(* Suites and primitives. *)
HashOf ==
    [ suite \in {"768AES", "768P256AES", "768ChaCha", "768P256ChaCha", "1024AES", "1024ChaCha"} |->
        IF suite \in {"1024AES", "1024ChaCha"} THEN "sha512" ELSE "sha384" ]

In(s, f) == <<"in", f, s[f]>>
Text(t) == <<"text", t>>
Zeros == <<"zeros">>
PreHash(parts) == <<"hash", "sha384", parts>>
SuiteHash(suite, parts) == <<"hash", HashOf[suite], parts>>
Extract(hash, secret, salt) == <<"extract", hash, secret, salt>>
ExpandLabel(hash, secret, label, context) == <<"expand", hash, secret, label, context>>
NoContext == <<"none">>
HMACForSuite(suite, key, input) == <<"mac", HashOf[suite], key, input>>
-----------------------------------------------------------------------------
(* The first hop is bound to its TLS connection and its HTTP/2 stream. *)
connectionIDHash(s) == PreHash(<<Text("h2"), In(s, "channelExporter"), Zeros>>)

CoverStreamBinding(s) ==
    PreHash(<<Text("cover stream binding"), In(s, "outerExporter"), Text("h2"), connectionIDHash(s),
              Text("stream"), Text("web h2 stream"), In(s, "authority"), In(s, "pathTemplate"),
              In(s, "requestClass"), In(s, "coverRandom")>>)

FirstHopBindingContext(s) ==
    PreHash(<<Text("first-hop binding context"), In(s, "outerExporter"), CoverStreamBinding(s)>>)

(* The preludes and capsules, with what the later computations read from them. *)
Prelude0(s) == <<"prelude 0", In(s, "clientNonce"), In(s, "coverRandom"), In(s, "clientShares")>>
Prelude1Unsigned(s) == <<"prelude 1", In(s, "suite"), In(s, "relayShares"), In(s, "relayNonce")>>
Capsule1Unsigned(s) ==
    <<"capsule 1", In(s, "offer"), In(s, "transportHints"), In(s, "tokenNonce"), In(s, "replayNonce")>>


PreludeTranscriptHash(s) ==
    SuiteHash(s.suite, <<Text("prelude transcript"), CoverStreamBinding(s), Prelude0(s), Prelude1Unsigned(s)>>)
-----------------------------------------------------------------------------
(* The handshake secrets of one hop: of the first hop, bound to its        *)
(* connection, and of a route hop, bound to the hop before it.             *)
HandshakeSecret(suite, ssPQ, ssClassical, binding) ==
    LET h == HashOf[suite]
        early == Extract(h, Zeros, Zeros)
    IN Extract(h, <<"concat", ssPQ, ssClassical, binding>>, ExpandLabel(h, early, "derived", NoContext))

DeriveHandshakeSecrets(suite, ssPQ, ssClassical, binding, transcript) ==
    LET h == HashOf[suite]
        hs == HandshakeSecret(suite, ssPQ, ssClassical, binding)
        client == ExpandLabel(h, hs, "client hs", transcript)
        server == ExpandLabel(h, hs, "server hs", transcript)
    IN [ clientFinished |-> ExpandLabel(h, client, "finished", NoContext),
         serverFinished |-> ExpandLabel(h, server, "finished", NoContext),
         clientKey |-> ExpandLabel(h, client, "key", NoContext),
         clientIV |-> ExpandLabel(h, client, "iv", NoContext),
         serverKey |-> ExpandLabel(h, server, "key", NoContext),
         serverIV |-> ExpandLabel(h, server, "iv", NoContext) ]

computeClientFinished(suite, key, transcript, capsuleUnsigned) ==
    HMACForSuite(suite, key,
        SuiteHash(suite, <<Text("client finished"), transcript, SuiteHash(suite, <<capsuleUnsigned>>)>>))

computeServerFinished(suite, key, transcript, capsule, accept) ==
    HMACForSuite(suite, key,
        SuiteHash(suite, <<Text("server finished"), transcript, SuiteHash(suite, <<capsule>>),
                           SuiteHash(suite, <<accept>>)>>))

ApplicationTranscript(suite, transcript, capsule, accept, finished) ==
    SuiteHash(suite, <<Text("application transcript"), transcript, SuiteHash(suite, <<capsule>>),
                       SuiteHash(suite, <<accept>>), finished>>)

trafficKeyIV(suite, secret) ==
    [ secret |-> secret,
      key |-> ExpandLabel(HashOf[suite], secret, "key", NoContext),
      iv |-> ExpandLabel(HashOf[suite], secret, "iv", NoContext) ]

DeriveApplicationSecrets(suite, handshakeSecret, transcript) ==
    LET h == HashOf[suite]
        app == Extract(h, Zeros, ExpandLabel(h, handshakeSecret, "derived", NoContext))
    IN [ client |-> trafficKeyIV(suite, ExpandLabel(h, app, "client app", transcript)),
         server |-> trafficKeyIV(suite, ExpandLabel(h, app, "server app", transcript)) ]
-----------------------------------------------------------------------------
(* Associated data. *)
ControlAAD(suite, suiteTerm, type, route, hop, direction, binding, transcript) ==
    SuiteHash(suite, <<Text("control aad"), Text("version"), suiteTerm, Text(type), route, hop,
                       Text(direction), binding, transcript>>)

FirstHopRouteInstanceID(s) ==
    SuiteHash(s.suite, <<Text("first-hop route id"), PreludeTranscriptHash(s), In(s, "descriptor"),
                         FirstHopBindingContext(s), In(s, "clientNonce")>>)

PacketAD(suite, route, hop, direction, phase, number) ==
    SuiteHash(suite, <<Text("packet"), route, hop, Text(direction), phase, number>>)

(* The next generation of a direction's traffic secret. *)
KeyUpdateContext(s, route, direction) ==
    <<"key update", route, In(s, "hop"), Text(direction), In(s, "phase"), In(s, "newPhase"), In(s, "updateNonce")>>

DeriveKeyUpdate(s, secret, route, direction) ==
    trafficKeyIV(s.suite, ExpandLabel(HashOf[s.suite], secret, "traffic upd", KeyUpdateContext(s, route, direction)))
-----------------------------------------------------------------------------
(* The access hint, the token and the bootstrap attempt. *)
HintFields(s) == <<In(s, "hintIssuer"), In(s, "hintBucket"), In(s, "hintEpoch"), In(s, "hintSelector")>>

DeriveHintSecret(s) ==
    ExpandLabel("sha384", Extract("sha384", In(s, "verifierSecret"), Text("hint")), "hint secret",
                <<"context", HintFields(s)>>)

ComputeAccessHint(s) ==
    <<"mac", "sha256", DeriveHintSecret(s),
      <<"access hint", HintFields(s), FirstHopBindingContext(s), In(s, "clientNonce")>>>>

ComputeSpentHintKey(s) == PreHash(<<Text("spent hint credential"), <<"hint", HintFields(s)>>>>)

PolicyOfferHash(s) == PreHash(<<Text("policy offer"), In(s, "offer")>>)

ClientTransportHintsHash(hints) == PreHash(<<Text("client transport hints"), hints>>)

(* A route hop hashes empty hints whatever the client reports: they describe its first hop. *)
AdmissionContextHash(s, descriptor, route, hop, binding, transcript, routeHop) ==
    PreHash(<<Text("admission context"), Text("version"), In(s, "suite"), descriptor, In(s, "template"),
              In(s, "offer"), route, hop, binding, transcript, PolicyOfferHash(s),
              ClientTransportHintsHash(IF routeHop THEN <<"in", "transportHints", "empty">>
                                       ELSE In(s, "transportHints"))>>)

TokenRedemptionHash(s, context) ==
    PreHash(<<Text("token redemption"), In(s, "proofType"), In(s, "tokenIssuer"), In(s, "tokenKey"),
              In(s, "tokenBucket"), In(s, "tokenScope"), In(s, "tokenExpiry"), In(s, "tokenNonce"), context,
              In(s, "tokenMetadata"), In(s, "authenticator"), In(s, "bindingProof")>>)

TokenSpentKey(redemption) == PreHash(<<Text("token spent"), redemption>>)

ReplayContextHash(s, redemption, route, hop, binding, context) ==
    PreHash(<<Text("replay context"), redemption, In(s, "replayNonce"), In(s, "replayEpoch"), route, hop,
              binding, context>>)

BootstrapDedupKey(s, replayContext) ==
    PreHash(<<Text("bootstrap dedup"), replayContext, In(s, "replayWindow")>>)
-----------------------------------------------------------------------------
(* The next hop of a route is chained to the hop before it. *)
RoutePreludeWrapContext(s) ==
    PreHash(<<Text("route prelude wrap context"), FirstHopRouteInstanceID(s), In(s, "nextHop"),
              In(s, "descriptor"), In(s, "nextDescriptor"), <<"hint", HintFields(s)>>, Text("wrap suite"),
              In(s, "wrapNonce")>>)

RoutePreludeWrapKeyIV(s) ==
    LET secret == Extract("sha384", DeriveHintSecret(s), Text("route prelude wrap"))
    IN [ key |-> ExpandLabel("sha384", secret, "key", RoutePreludeWrapContext(s)),
         iv |-> ExpandLabel("sha384", secret, "iv", RoutePreludeWrapContext(s)) ]

RouteWrapAAD(s) == PreHash(<<Text("route prelude envelope aad"), Text("wrap suite"), RoutePreludeWrapContext(s)>>)

routeWrapNonceReplayKey(s) ==
    PreHash(<<Text("route wrap nonce replay"), <<"hint", HintFields(s)>>, In(s, "wrapNonce")>>)

PreviousHopFullTranscriptHash(s, application) ==
    PreHash(<<Text("previous hop full transcript"), In(s, "suite"), application>>)

RouteHopBinding(s, previous) ==
    PreHash(<<Text("route hop binding"), FirstHopRouteInstanceID(s), In(s, "nextHop"), previous,
              In(s, "descriptor"), In(s, "nextDescriptor"), RoutePreludeWrapContext(s), In(s, "hopNonce")>>)

HopPreludeTranscriptHash(s, binding) ==
    SuiteHash(s.suite, <<Text("hop prelude transcript"), binding,
                         <<"hop prelude 0", In(s, "hopNonce"), In(s, "hopShares")>>,
                         <<"hop prelude 1", In(s, "suite"), In(s, "hopRelayShares")>>>>)
-----------------------------------------------------------------------------
(* Everything one session computes, in the order both ends compute it. *)
Session(s) ==
    LET suite == s.suite
        binding == FirstHopBindingContext(s)
        transcript == PreludeTranscriptHash(s)
        pq == In(s, "ssPQ")
        classical == In(s, "ssClassical")
        hs == DeriveHandshakeSecrets(suite, pq, classical, binding, transcript)
        route == FirstHopRouteInstanceID(s)
        context == AdmissionContextHash(s, In(s, "descriptor"), route, In(s, "hop"), binding, transcript, FALSE)
        redemption == TokenRedemptionHash(s, context)
        replay == ReplayContextHash(s, redemption, route, In(s, "hop"), binding, context)
        clientFinished == computeClientFinished(suite, hs.clientFinished, transcript, Capsule1Unsigned(s))
        capsule == <<"sealed capsule 1", Capsule1Unsigned(s), redemption, replay, clientFinished>>
        accept == In(s, "accept")
        serverFinished == computeServerFinished(suite, hs.serverFinished, transcript, capsule, accept)
        application == ApplicationTranscript(suite, transcript, capsule, accept, serverFinished)
        app == DeriveApplicationSecrets(suite, HandshakeSecret(suite, pq, classical, binding), application)
        hopBinding == RouteHopBinding(s, PreviousHopFullTranscriptHash(s, application))
        hopTranscript == HopPreludeTranscriptHash(s, hopBinding)
        hopContext == AdmissionContextHash(s, In(s, "nextDescriptor"), route, In(s, "nextHop"), hopBinding,
                                           hopTranscript, TRUE)
        wrap == RoutePreludeWrapKeyIV(s)
    IN [ clientFinishedKey |-> hs.clientFinished, serverFinishedKey |-> hs.serverFinished,
         clientHSKey |-> hs.clientKey, clientHSIV |-> hs.clientIV,
         serverHSKey |-> hs.serverKey, serverHSIV |-> hs.serverIV,
         clientAppKey |-> app.client.key, clientAppIV |-> app.client.iv,
         serverAppKey |-> app.server.key, serverAppIV |-> app.server.iv,
         clientNextKey |-> DeriveKeyUpdate(s, app.client.secret, route, "client").key,
         serverNextKey |-> DeriveKeyUpdate(s, app.server.secret, route, "server").key,
         wrapKey |-> wrap.key, wrapIV |-> wrap.iv,
         capsule1AAD |-> ControlAAD(suite, In(s, "suite"), "cover capsule 1", route, In(s, "hop"), "client",
                                    binding, transcript),
         capsule2AAD |-> ControlAAD(suite, In(s, "suite"), "cover capsule 2", route, In(s, "hop"), "server",
                                    binding, transcript),
         routeCapsule1AAD |-> ControlAAD(suite, In(s, "suite"), "route capsule 1", route, In(s, "nextHop"),
                                         "client", hopBinding, hopTranscript),
         clientPacketAD |-> PacketAD(suite, route, In(s, "hop"), "client", In(s, "phase"), In(s, "packetNumber")),
         serverPacketAD |-> PacketAD(suite, route, In(s, "hop"), "server", In(s, "phase"), In(s, "packetNumber")),
         wrapAAD |-> RouteWrapAAD(s),
         accessHint |-> ComputeAccessHint(s), spentHint |-> ComputeSpentHintKey(s),
         tokenSpent |-> TokenSpentKey(redemption), bootstrap |-> BootstrapDedupKey(s, replay),
         wrapNonce |-> routeWrapNonceReplayKey(s), hopContext |-> hopContext ]
-----------------------------------------------------------------------------
(* What each result has to depend on, and on nothing else.  The TLS        *)
(* connection and the preludes reach every key; a record of something      *)
(* spent names what is spent and not the connection it is spent on.        *)
Connection == {"outerExporter", "channelExporter", "authority", "pathTemplate", "requestClass", "coverRandom"}
Preludes == {"suite", "clientNonce", "clientShares", "relayShares", "relayNonce"}
Secrets == {"ssPQ", "ssClassical"}
Hint == {"hintIssuer", "hintBucket", "hintEpoch", "hintSelector"}
Token == {"proofType", "tokenIssuer", "tokenKey", "tokenBucket", "tokenScope", "tokenExpiry", "tokenNonce",
          "tokenMetadata", "authenticator", "bindingProof"}
Admission == Token \union {"descriptor", "template", "offer", "transportHints", "hop", "replayNonce", "replayEpoch"}
Route == Connection \union Preludes \union {"descriptor"}
Hop == Hint \union {"nextHop", "nextDescriptor", "wrapNonce", "hopNonce", "hopShares", "hopRelayShares"}

DependsOn(result) ==
    CASE result \in {"clientFinishedKey", "serverFinishedKey", "clientHSKey", "clientHSIV", "serverHSKey",
                     "serverHSIV"} -> Connection \union Preludes \union Secrets
      [] result \in {"clientAppKey", "clientAppIV", "serverAppKey", "serverAppIV"} ->
            Route \union Secrets \union Admission \union {"accept"}
      [] result \in {"clientNextKey", "serverNextKey"} ->
            Route \union Secrets \union Admission \union {"accept", "phase", "newPhase", "updateNonce"}
      [] result \in {"capsule1AAD", "capsule2AAD"} -> Route \union {"hop"}
      [] result \in {"clientPacketAD", "serverPacketAD"} -> Route \union {"hop", "phase", "packetNumber"}
      [] result \in {"wrapKey", "wrapIV"} ->
            Route \union Hint \union {"verifierSecret", "nextHop", "nextDescriptor", "wrapNonce"}
      [] result = "wrapAAD" -> Route \union Hint \union {"nextHop", "nextDescriptor", "wrapNonce"}
      [] result \in {"routeCapsule1AAD", "hopContext"} ->
            Route \union Secrets \union Admission \union Hop \union {"accept"}
      [] result = "accessHint" -> Connection \union Hint \union {"verifierSecret", "clientNonce"}
      [] result = "spentHint" -> Hint
      [] result = "wrapNonce" -> Hint \union {"wrapNonce"}
      [] result = "tokenSpent" ->
            Route \union (Admission \ {"replayNonce", "replayEpoch"})
      [] result = "bootstrap" -> Route \union Admission \union {"replayWindow"}

Fields ==
    Connection \union Preludes \union Secrets \union Hint \union Admission \union Hop \union
    {"accept", "phase", "newPhase", "updateNonce", "packetNumber", "replayWindow", "verifierSecret"}

Values(f) == IF f = "suite" THEN Suites ELSE {"0", "1"}

Init ==
    /\ \E suite \in Suites : x = [f \in Fields |-> IF f = "suite" THEN suite ELSE "0"]
    /\ was = x
    /\ changed = "none"
    /\ steps = 0

(* One input differs: another connection, another packet, another token... *)
Vary(f) ==
    \E v \in Values(f) \ {x[f]} :
        /\ steps < Depth
        /\ x' = [x EXCEPT ![f] = v]
        /\ was' = x
        /\ changed' = f
        /\ steps' = steps + 1

Next == \E f \in Fields : Vary(f)

Spec == Init /\ [][Next]_vars
-----------------------------------------------------------------------------

(* The results of one session are pairwise different: no key serves two    *)
(* directions, two stages or two purposes, and no associated data or       *)
(* replay key of one kind is accepted as another.                          *)
Separated ==
    LET now == Session(x)
    IN \A a, b \in DOMAIN now : a # b => now[a] # now[b]
=============================================================================
