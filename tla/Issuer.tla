------------------------------ MODULE Issuer ------------------------------
(***************************************************************************)
(* issuerd.Service: the token issuer.  A production service signs Blind    *)
(* RSA proofs behind a bounded private backend; a harness service also     *)
(* spends proofs and answers relays that ask whether a VOPRF token was     *)
(* spent before.  Both share one cache of spent tokens.                    *)
(*                                                                         *)
(* Everything the issuer does depends on validity intervals of its signed  *)
(* metadata (the metadata itself, token keys, scopes, origin policies,     *)
(* verifier services) read against a clock that moves between the checks   *)
(* of one request, and on a scope and an origin chosen once at start.      *)
(* Signatures, hashes and field lengths are abstracted: a proof is the     *)
(* record of what its authenticator covers, and is never altered.          *)
(***************************************************************************)
EXTENDS Integers, FiniteSets

CONSTANTS
    Metadatas,   \* issuer metadata: [from, until, keys, scopes, policies, services],
                 \* and (bound) who uses that issuer: active
    Requests,    \* requests to the backend (each with its own token nonce)
    Calls,       \* calls of SpendToken
    Asks,        \* questions of relays to the verifier service
    EpochUntil,  \* EpochUntil[k]: end of the replay epoch token k was made for
    MaxConcurrentIssues,
    Grace,       \* replayCacheRetentionGraceSeconds
    Window,      \* longest life of an answer after its question (300 s)
    Hold,        \* longest life of an answer after it was given (100 s)
    MaxTime      \* bound: the clock

VARIABLES
    now,       \* the clock
    metadata,  \* the metadata the service was given
    service,   \* what the service chose at start, or Off
    backend,   \* backend[r]: where request r is, its expiry, its proof
    cancelled, \* backend requests whose context ended
    slots,     \* signing slots taken
    cache,     \* spent keys and their retention deadlines
    call,      \* call[c]: where a call of SpendToken is
    ask,       \* ask[a]: where a relay's question is
    acks       \* history: <<spent key, time>> of every acknowledged spend

vars == <<now, metadata, service, backend, cancelled, slots, cache, call, ask, acks>>

Times == 1 .. MaxTime
NoProof == [nonce |-> "none"]
Off == [on |-> FALSE, voprf |-> FALSE, scope |-> {}, policy |-> 0, origin |-> "none"]
Within(record, t) == record.from <= t /\ t < record.until
Least(a, b) == IF a < b THEN a ELSE b

---------------------------------------------------------------------------
(* Validity of what the metadata lists                                     *)

\* IssuerTokenKeyRecord.Validate: active and retiring keys may be used.
Usable(key, t) == Within(key, t) /\ key.status \in {"active", "retiring"}

\* The signing key must match exactly one active, current token key.
validateProductionBlindRSAKey(t) ==
    Cardinality({key \in metadata.keys :
        /\ key.type = "rsa" /\ key.status = "active" /\ key.id = "own"
        /\ Usable(key, t)}) = 1

CurrentPolicies(policy, t) ==
    {p \in metadata.policies : p.id = policy /\ Within(p, t)}

validateCurrentIssuanceScope(scope, policy, t) ==
    /\ Within(scope, t)
    /\ policy \in scope.allowed
    /\ Cardinality(CurrentPolicies(policy, t)) = 1

ready(t) ==
    /\ service.on
    /\ Within(metadata, t)
    /\ validateCurrentIssuanceScope(service.scope, service.policy, t)
    /\ validateProductionBlindRSAKey(t)

\* A production issuer advertises Blind RSA alone.
validateProductionBlindRSAMetadata ==
    /\ metadata.services = {}
    /\ \A key \in metadata.keys : key.type = "rsa"

\* Scopes of the bucket that are current and allow the origin policy.
SelectableScopes(bucket, policy, t) ==
    {s \in metadata.scopes : s.bucket = bucket /\ Within(s, t) /\ policy \in s.allowed}

selectProductionIssuanceScope(bucket, policy, t) ==
    /\ Cardinality(SelectableScopes(bucket, policy, t)) = 1
    /\ Cardinality(CurrentPolicies(policy, t)) = 1

---------------------------------------------------------------------------
(* Starting                                                                *)

Started(bucket, policy, voprf) ==
    /\ selectProductionIssuanceScope(bucket, policy, now)
    /\ service' = [on |-> TRUE, voprf |-> voprf, policy |-> policy,
                   scope |-> CHOOSE s \in SelectableScopes(bucket, policy, now) : TRUE,
                   origin |-> (CHOOSE p \in CurrentPolicies(policy, now) : TRUE).origin]

NewProductionBlindRSAService(bucket, policy) ==
    /\ ~service.on
    /\ Within(metadata, now)
    /\ validateProductionBlindRSAMetadata
    /\ validateProductionBlindRSAKey(now)
    /\ Started(bucket, policy, FALSE)
    /\ UNCHANGED <<now, metadata, backend, cancelled, slots, cache, call, ask, acks>>

\* The harness makes metadata that is valid now and lists a verifier service.
NewHarnessService(bucket, policy) ==
    /\ ~service.on
    /\ metadata.services # {}
    /\ Within(metadata, now) /\ validateProductionBlindRSAKey(now)
    /\ Started(bucket, policy, TRUE)
    /\ UNCHANGED <<now, metadata, backend, cancelled, slots, cache, call, ask, acks>>

SetVOPRFVerifierAvailable ==
    /\ service.on /\ metadata.services # {}
    /\ service' = [service EXCEPT !.voprf = ~@]
    /\ UNCHANGED <<now, metadata, backend, cancelled, slots, cache, call, ask, acks>>

---------------------------------------------------------------------------
(* The signing backend                                                     *)

Backend(r, pc) == backend' = [backend EXCEPT ![r].pc = pc]
backendOthers == <<now, metadata, service, cache, call, ask, acks>>

\* An authenticated, well formed request waits for a slot.
ServeHTTP(r) ==
    /\ service.on /\ r \in metadata.active /\ backend[r].pc = "idle"
    /\ \E expiry \in Times :
           backend' = [backend EXCEPT ![r].pc = "waiting", ![r].expiry = expiry]
    /\ UNCHANGED <<cancelled, slots>> /\ UNCHANGED backendOthers

acquireProductionBackendSlot(r) ==
    /\ backend[r].pc = "waiting"
    /\ \/ /\ slots < MaxConcurrentIssues
          /\ slots' = slots + 1
          /\ Backend(r, "holding")
       \/ /\ r \in cancelled
          /\ Backend(r, "failed")
          /\ UNCHANGED slots
    /\ UNCHANGED cancelled /\ UNCHANGED backendOthers

\* The deferred release runs on every way out of the handler.
releaseProductionBackendSlot(pc) == slots' = slots - 1

Leave(r, pc) == Backend(r, pc) /\ releaseProductionBackendSlot(pc)

RecheckReady(r) ==
    /\ backend[r].pc = "holding"
    /\ IF r \notin cancelled /\ ready(now)
       THEN Backend(r, "issuing") /\ UNCHANGED slots
       ELSE Leave(r, "failed")
    /\ UNCHANGED cancelled /\ UNCHANGED backendOthers

MayIssue(expiry, t) ==
    /\ t < expiry /\ expiry <= metadata.until
    /\ validateCurrentIssuanceScope(service.scope, service.policy, t)
    /\ validateProductionBlindRSAKey(t)

\* The proof names key, bucket, scope and origin the service settled on.
IssueBlindRSA2048(r) ==
    /\ backend[r].pc = "issuing"
    /\ IF MayIssue(backend[r].expiry, now)
       THEN /\ backend' = [backend EXCEPT ![r] =
                    [pc |-> "signed", expiry |-> @.expiry,
                     proof |-> [nonce |-> r, expiry |-> @.expiry, key |-> "own",
                                bucket |-> service.scope.bucket,
                                scope |-> service.scope.id,
                                origin |-> service.origin, at |-> now]]]
            /\ UNCHANGED slots
       ELSE Leave(r, "failed")
    /\ UNCHANGED cancelled /\ UNCHANGED backendOthers

\* A proof signed for a request that was cancelled meanwhile is wiped.
Respond(r) ==
    /\ backend[r].pc = "signed"
    /\ IF r \in cancelled THEN Leave(r, "failed") ELSE Leave(r, "answered")
    /\ UNCHANGED cancelled /\ UNCHANGED backendOthers

CancelRequest(r) ==
    /\ r \notin cancelled /\ backend[r].pc # "idle"
    /\ cancelled' = cancelled \cup {r}
    /\ UNCHANGED <<backend, slots>> /\ UNCHANGED backendOthers

---------------------------------------------------------------------------
(* Verifying and spending                                                  *)

\* The key a proof names must be listed once, whatever the status of others.
issuerTokenKeyForProof(proof, t) ==
    LET matches == {key \in metadata.keys : key.type = "rsa" /\ key.id = proof.key}
    IN  Cardinality(matches) = 1 /\ \A key \in matches : Usable(key, t)

originAllowedByScope(scope, origin, t) ==
    \E p \in metadata.policies :
        /\ p.id \in scope.allowed /\ Within(p, t)
        /\ p.origin = origin \/ (origin = "" /\ p.empty)

requireOriginAllowed(proof, t) ==
    \E s \in metadata.scopes :
        /\ s.bucket = proof.bucket /\ s.id = proof.scope /\ Within(s, t)
        /\ originAllowedByScope(s, proof.origin, t)

\* The proof's own expiry is not compared with the clock here.
VerifyBlindRSA2048WithIssuerMetadata(proof, t) ==
    /\ Within(metadata, t)
    /\ issuerTokenKeyForProof(proof, t)
    /\ requireOriginAllowed(proof, t)

RetentionDeadline(base) == base + Grace

\* Insertion sweeps what has expired by the caller's clock.
Swept(t) == {entry \in cache : entry.until > t}
Known(key, t) == \E entry \in Swept(t) : entry.key = key
Insert(key, until, t) ==
    cache' = Swept(t) \cup (IF Known(key, t) THEN {} ELSE {[key |-> key, until |-> until]})

\* The clock is read before the proof is verified, and used for the insertion.
SpendTokenReads(c) ==
    /\ service.on /\ metadata.services # {} /\ c \in metadata.active
    /\ call[c].pc = "idle"
    /\ \E r \in Requests :
           /\ backend[r].pc = "answered"
           /\ call' = [call EXCEPT ![c] = [pc |-> "verified", at |-> now,
                                           proof |-> backend[r].proof]]
           /\ VerifyBlindRSA2048WithIssuerMetadata(backend[r].proof, now)
    /\ UNCHANGED <<now, metadata, service, backend, cancelled, slots, cache, ask, acks>>

SpendToken(c) ==
    LET proof == call[c].proof
        until == RetentionDeadline(proof.expiry)
        at    == call[c].at
    IN  /\ call[c].pc = "verified"
        /\ call' = [call EXCEPT ![c].pc = "returned"]
        /\ IF until <= at
           THEN UNCHANGED <<cache, acks>>
           ELSE /\ Insert(proof.nonce, until, at)
                /\ acks' = IF Known(proof.nonce, at) THEN acks
                           ELSE acks \cup {[key |-> proof.nonce, at |-> now, call |-> c]}
        /\ UNCHANGED <<now, metadata, service, backend, cancelled, slots, ask>>

---------------------------------------------------------------------------
(* The verifier service                                                    *)

Allows(s, bucket, t) ==
    /\ Within(s, t) /\ s.status \in {"active", "retiring"}
    /\ bucket \in s.buckets

hasUsableTokenKey(t) == \E key \in metadata.keys : key.type = "voprf" /\ Usable(key, t)

ServicesFor(question, t) ==
    {s \in metadata.services : s.id = question.service /\ Allows(s, question.bucket, t)}

verifierServiceForRequest(question, t) ==
    /\ ready(t) /\ service.voprf
    /\ hasUsableTokenKey(t)
    /\ Cardinality(ServicesFor(question, t)) = 1

\* A relay asks; its clock may be behind or ahead of the issuer's.
SendQuestion(a) ==
    /\ service.on /\ a \in metadata.active /\ ask[a].pc = "idle"
    /\ \E key \in DOMAIN EpochUntil, time \in {now - 1, now, now + 1} \cap Times,
          s \in metadata.services, bucket \in {"b", "c"} :
           ask' = [ask EXCEPT ![a] = [pc |-> "asked", key |-> key, time |-> time,
                                      service |-> s.id, bucket |-> bucket, until |-> 0,
                                      decision |-> "none"]]
    /\ UNCHANGED <<now, metadata, service, backend, cancelled, slots, cache, call, acks>>

\* The client certificate is authorised for the service selected at this time.
AuthorizeVerifierRequestClient(a) ==
    /\ ask[a].pc = "asked"
    /\ ask' = [ask EXCEPT ![a].pc =
                   IF verifierServiceForRequest(ask[a], now) THEN "authorized" ELSE "refused"]
    /\ UNCHANGED <<now, metadata, service, backend, cancelled, slots, cache, call, acks>>

verifierResponseValidUntil(question, s, t) ==
    Least(Least(question.time + Window, s.until), Least(EpochUntil[question.key], t + Hold))

VerifyIssuerVerifierRequest(a) ==
    LET question == ask[a]
        s        == CHOOSE x \in ServicesFor(question, now) : TRUE
        until    == verifierResponseValidUntil(question, s, now)
        keep     == RetentionDeadline(EpochUntil[question.key])
    IN  /\ question.pc = "authorized"
        /\ IF ~verifierServiceForRequest(question, now) \/ until <= now
           THEN /\ ask' = [ask EXCEPT ![a].pc = "refused"]
                /\ UNCHANGED <<cache, acks>>
           ELSE /\ Insert(question.key, keep, now)
                /\ ask' = [ask EXCEPT ![a].pc = "answered", ![a].until = until,
                               ![a].decision = IF Known(question.key, now)
                                               THEN "spent" ELSE "accept"]
                /\ acks' = IF Known(question.key, now) THEN acks
                           ELSE acks \cup {[key |-> question.key, at |-> now, call |-> a]}
        /\ UNCHANGED <<now, metadata, service, backend, cancelled, slots, call>>
---------------------------------------------------------------------------
Init ==
    /\ now = 1 /\ metadata \in Metadatas /\ service = Off
    /\ backend = [r \in Requests |-> [pc |-> "idle", expiry |-> 0, proof |-> NoProof]]
    /\ cancelled = {} /\ slots = 0 /\ cache = {} /\ acks = {}
    /\ call = [c \in Calls |-> [pc |-> "idle", at |-> 0, proof |-> NoProof]]
    /\ ask = [a \in Asks |-> [pc |-> "idle"]]

Tick ==
    /\ now < MaxTime
    /\ now' = now + 1
    /\ UNCHANGED <<metadata, service, backend, cancelled, slots, cache, call, ask, acks>>

Handle(r) ==
    \/ acquireProductionBackendSlot(r) \/ RecheckReady(r)
    \/ IssueBlindRSA2048(r) \/ Respond(r)

Next ==
    \/ NewProductionBlindRSAService("b", 1) \/ NewHarnessService("b", 1)
    \/ SetVOPRFVerifierAvailable \/ Tick
    \/ \E r \in Requests : ServeHTTP(r) \/ Handle(r) \/ CancelRequest(r)
    \/ \E c \in Calls : SpendTokenReads(c) \/ SpendToken(c)
    \/ \E a \in Asks : SendQuestion(a) \/ AuthorizeVerifierRequestClient(a)
                       \/ VerifyIssuerVerifierRequest(a)

Spec == Init /\ [][Next]_vars
---------------------------------------------------------------------------
(* What the issuer promises                                                *)


===========================================================================
