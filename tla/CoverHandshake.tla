--------------------------- MODULE CoverHandshake ---------------------------
(* The first-hop handshake: ClientDriver.Connect against RelayDriver.Begin   *)
(* and RelayHandshake.Finish, over connections that may break, deliver a     *)
(* record of another connection again, and outlive a restart of either end. *)
(* Cryptography is symbolic: a transcript, a binding or a key is the         *)
(* connection it was made on, and a record opens only under its own.         *)
EXTENDS Integers, FiniteSets

CONSTANTS Attempts,   \* calls of Connect; an attempt names its TLS connection too
          MaxUses,    \* AccessHintCredential.MaxUses
          Settings    \* what the attempts are configured with, see Init

VARIABLES
    setting,      \* credential, token and offer of every attempt, the relay's policy,
                  \* whether it signs its prelude with its post-quantum key too
    uses,         \* uses[c]: clientAccessHintUse of the driver holding credential c
    client,       \* client[a]: pc, committed, proof, accept of Connect
    owned,        \* owned[a]: what Connect has opened and not closed
    cancelled,    \* attempts whose context is cancelled
    relay,        \* relay[a]: pc, proof, offer, accept of the relay's handshake
    up, down,     \* up[a], down[a]: the record under way, or none
    sent,         \* every record ever written
    broken,       \* connections that are gone
    spentHints, spentTokens, seenBootstraps,  \* the relay's durable caches
    begun,        \* connections whose Begin returned a prelude (history)
    expired,      \* descriptor, epochs, credentials and proofs have run out
    restarts      \* restarts so far (bound)

clientVars == <<uses, client, owned, cancelled>>
caches == <<spentHints, spentTokens, seenBootstraps>>
wireVars == <<up, down, sent, broken>>
vars == <<setting, clientVars, relay, wireVars, caches, begun, expired, restarts>>

none == [type |-> "none"]

-----------------------------------------------------------------------------
(* Policy negotiation. *)

FastWeb == 1
AdversarialDPI == 3
Strict == 4
EmergencyWeb == 5
Lab == 127
Fast1 == 1

\* policy.RequiresPQPreludeSignature.
RequiresPQPreludeSignature(policy) == policy \in {AdversarialDPI, Strict, EmergencyWeb}

\* policy.ForbidsFast1Route: the profiles with Fast1Forbidden.
ForbidsFast1Route(policy) == policy \in {Strict, EmergencyWeb}

\* validateClientPolicy: the offers a ClientDriver is constructed with.
validateClientPolicy(offer) ==
    /\ Lab \notin {offer.minimum, offer.requested}
    /\ offer.requested >= offer.minimum
    /\ offer.route = Fast1 =>
           ~ ForbidsFast1Route(offer.minimum) /\ ~ ForbidsFast1Route(offer.requested)

\* NewFixedProxyPolicySelector: the selections a relay is configured with.
NewFixedProxyPolicySelector(accept) ==
    /\ accept.policy # Lab
    /\ ~ (accept.route = Fast1 /\ ForbidsFast1Route(accept.policy))

\* PolicyAccept.ValidateForOffer.
ValidateForOffer(accept, offer) ==
    /\ accept.policy >= offer.minimum
    /\ accept.personality \in offer.personalities

\* FixedProxyPolicySelector.SelectPolicy.
SelectPolicy(selector, offer) == ValidateForOffer(selector, offer)

\* validateClientPolicyAccept, which both ends apply.
validateClientPolicyAccept(accept, offer) ==
    /\ ValidateForOffer(accept, offer)
    /\ accept.policy # Lab
    /\ accept.route = offer.route /\ accept.shape = offer.shape
    /\ ~ (accept.route = Fast1 /\ ForbidsFast1Route(accept.policy))

-----------------------------------------------------------------------------
Credential(a) == setting.credential[a]
Offer(a) == setting.offer[a]
Credentials == {setting.credential[a] : a \in Attempts}

Init ==
    /\ setting \in Settings
    /\ \A a \in Attempts : validateClientPolicy(setting.offer[a])
    /\ NewFixedProxyPolicySelector(setting.selector)
    /\ uses = [c \in Credentials |-> 0]
    /\ client = [a \in Attempts |-> [pc |-> "idle", committed |-> FALSE,
                                     proof |-> none, accept |-> none]]
    /\ owned = [a \in Attempts |-> {}]
    /\ cancelled = {} /\ broken = {}
    /\ relay = [a \in Attempts |-> [pc |-> "idle", proof |-> none, offer |-> none,
                                    accept |-> none]]
    /\ up = [a \in Attempts |-> none] /\ down = [a \in Attempts |-> none]
    /\ sent = {}
    /\ spentHints = {} /\ spentTokens = {} /\ seenBootstraps = {} /\ begun = {}
    /\ expired = FALSE /\ restarts = 0

ClientAt(a, pc) == client[a].pc = pc
ClientTo(a, pc) == client' = [client EXCEPT ![a].pc = pc]

\* releaseAccessHintUse.
Released(c) == IF uses[c] > 0 THEN uses[c] - 1 ELSE 0

\* An error return of Connect: the deferred calls close the streams, the
\* application and the carrier and give the hint use back if it was not sent.
FailConnect(a) ==
    /\ client' = [client EXCEPT ![a].pc = "failed"]
    /\ owned' = [owned EXCEPT ![a] = {}]
    /\ broken' = broken \cup {a}
    /\ uses' = IF client[a].committed THEN uses
               ELSE [uses EXCEPT ![Credential(a)] = Released(Credential(a))]

Unsent == UNCHANGED <<up, down, sent>>
RelayIdle == UNCHANGED <<relay, caches, begun>>
World == UNCHANGED <<setting, expired, restarts>>

Fail(a) == FailConnect(a) /\ Unsent /\ UNCHANGED cancelled /\ RelayIdle /\ World

\* Entry of Connect up to the reservation: an error there gives nothing back.
reserveAccessHintUse(a) ==
    /\ ClientAt(a, "idle")
    /\ LET c == Credential(a)
           refused == a \in cancelled \/ expired \/ uses[c] >= MaxUses
       IN  /\ ClientTo(a, IF refused THEN "refused" ELSE "opening")
           /\ uses' = IF refused THEN uses ELSE [uses EXCEPT ![c] = @ + 1]
    /\ UNCHANGED <<owned, cancelled, wireVars>> /\ RelayIdle /\ World

\* opener.Open returned a carrier whose binding is that of the connection.
Open(a) ==
    /\ ClientAt(a, "opening") /\ a \notin cancelled /\ a \notin broken
    /\ ClientTo(a, "opened")
    /\ owned' = [owned EXCEPT ![a] = {"carrier"}]
    /\ UNCHANGED <<uses, cancelled, wireVars>> /\ RelayIdle /\ World

\* CoverPrelude0 with the access hint computed over the binding, its hint use
\* committed just before the write.
WritePrelude0(a) ==
    /\ ClientAt(a, "opened") /\ a \notin cancelled
    /\ client' = [client EXCEPT ![a].pc = "prelude0", ![a].committed = TRUE]
    /\ up' = [up EXCEPT ![a] = [type |-> "prelude0", binding |-> a,
                                credential |-> Credential(a)]]
    /\ sent' = sent \cup {up'[a]}
    /\ UNCHANGED <<uses, owned, cancelled, down, broken>> /\ RelayIdle /\ World

\* The write fails: the use stays spent.
WritePrelude0Fails(a) ==
    /\ ClientAt(a, "opened") /\ a \in broken
    /\ client' = [client EXCEPT ![a].pc = "failed", ![a].committed = TRUE]
    /\ owned' = [owned EXCEPT ![a] = {}]
    /\ UNCHANGED <<uses, cancelled, wireVars>> /\ RelayIdle /\ World

\* What a reader of a connection may see: its record, or one delivered again.
Arrives(a, waiting) == ({waiting} \cup sent) \ {none}

\* VerifyCoverPrelude1Signatures: the signature covers both preludes and the binding.
VerifyCoverPrelude1(a, record) ==
    record.type = "prelude1" /\ record.binding = a

ReadPrelude1(a) ==
    /\ ClientAt(a, "prelude0") /\ a \notin cancelled /\ a \notin broken
    /\ down[a] # none
    /\ \E record \in Arrives(a, down[a]) :
           /\ VerifyCoverPrelude1(a, record)
           /\ ClientTo(a, "proving")
    /\ down' = [down EXCEPT ![a] = none]
    /\ UNCHANGED <<uses, owned, cancelled, up, sent, broken>> /\ RelayIdle /\ World

\* validateClientProofs: the proof redeems in the admission context of this attempt.
validateClientProofs(a, proof) == proof.context = a /\ ~ expired

\* BuildProofs returns a proof, CoverCapsule1 is sealed and written.
WriteCapsule1(a) ==
    /\ ClientAt(a, "proving") /\ a \notin cancelled /\ a \notin broken
    /\ \E context \in Attempts :
           LET proof == [type |-> "proof", token |-> setting.token[a], context |-> context]
           IN  /\ validateClientProofs(a, proof)
               /\ client' = [client EXCEPT ![a].pc = "capsule1", ![a].proof = proof]
               /\ up' = [up EXCEPT ![a] = [type |-> "capsule1", transcript |-> a,
                                           proof |-> proof, offer |-> Offer(a)]]
    /\ sent' = sent \cup {up'[a]}
    /\ UNCHANGED <<uses, owned, cancelled, down, broken>> /\ RelayIdle /\ World

\* OpenCoverCapsule2 and the server finished, which covers capsule 1 and the accept.
VerifyCoverCapsule2(a, record) ==
    /\ record.type = "capsule2" /\ record.transcript = a
    /\ record.proof = client[a].proof /\ record.offer = Offer(a)

ReadCapsule2(a) ==
    /\ ClientAt(a, "capsule1") /\ a \notin cancelled /\ a \notin broken
    /\ down[a] # none
    /\ \E record \in Arrives(a, down[a]) :
           /\ VerifyCoverCapsule2(a, record)
           /\ IF /\ validateClientPolicyAccept(record.accept, Offer(a))
                 /\ RequiresPQPreludeSignature(record.accept.policy) => setting.pq
              THEN /\ client' = [client EXCEPT ![a].pc = "ready", ![a].accept = record.accept]
                   /\ owned' = [owned EXCEPT ![a] = @ \cup {"application"}]
              ELSE ClientTo(a, "overruled") /\ UNCHANGED owned
    /\ down' = [down EXCEPT ![a] = none]
    /\ UNCHANGED <<uses, cancelled, up, sent, broken>> /\ RelayIdle /\ World

\* ApplicationStreams and the hand-over to the EstablishedSession.
Establish(a) ==
    /\ ClientAt(a, "ready") /\ a \notin cancelled
    /\ ClientTo(a, "established")
    /\ owned' = [owned EXCEPT ![a] = @ \cup {"streams"}]
    /\ UNCHANGED <<uses, cancelled, wireVars>> /\ RelayIdle /\ World

\* ApplicationStreams fails, or the context ends between it and the return.
StreamsFail(a) ==
    /\ ClientAt(a, "ready")
    /\ Fail(a)

\* Any other error return of Connect: the opener, the binding, the proof provider
\* or a check of its proof fails; the context or the carrier ends; a record that
\* does not verify arrives.
ConnectFails(a) ==
    /\ client[a].pc \in {"opening", "opened", "prelude0", "proving", "capsule1", "overruled"}
    /\ \/ a \in cancelled \/ client[a].pc \in {"opening", "proving", "overruled"}
       \/ ClientAt(a, "opened") /\ a \notin broken
       \/ client[a].pc \in {"prelude0", "capsule1"} /\ a \in broken
       \/ ClientAt(a, "prelude0") /\ down[a] # none
              /\ \E record \in Arrives(a, down[a]) : ~ VerifyCoverPrelude1(a, record)
       \/ ClientAt(a, "capsule1") /\ down[a] # none
              /\ \E record \in Arrives(a, down[a]) : ~ VerifyCoverCapsule2(a, record)
    /\ Fail(a)

\* EstablishedSession.Close.
CloseSession(a) ==
    /\ ClientAt(a, "established")
    /\ ClientTo(a, "closed")
    /\ owned' = [owned EXCEPT ![a] = {}]
    /\ broken' = broken \cup {a}
    /\ UNCHANGED <<uses, cancelled>> /\ Unsent /\ RelayIdle /\ World

-----------------------------------------------------------------------------
RelayAt(a, pc) == relay[a].pc = pc
RelayTo(a, pc) == relay' = [relay EXCEPT ![a].pc = pc]
ClientIdle == UNCHANGED clientVars

\* An error return of Begin or Finish, or Close of the handshake: the keys are
\* destroyed and the server closes the connection.
FailRelay(a) == RelayTo(a, "failed") /\ broken' = broken \cup {a}

\* validateRelayPrelude0 and the access hint, a MAC over the relay's own binding.
validateRelayPrelude0(a, record) ==
    record.type = "prelude0" /\ record.binding = a

\* Begin without the relay's spent-hint cache.
BeginUnspent(a, record) ==
    /\ validateRelayPrelude0(a, record) /\ ~ expired
    /\ RelayTo(a, "begun")
    /\ down' = [down EXCEPT ![a] = [type |-> "prelude1", binding |-> a]]
    /\ sent' = sent \cup {down'[a]}
    /\ begun' = begun \cup {a}
    /\ UNCHANGED <<spentHints, broken>>

\* RelayDriver.Begin: the hint is spent, then the prelude is signed and written.
Begin(a, record) ==
    /\ validateRelayPrelude0(a, record) /\ ~ expired
    /\ record.credential \notin spentHints
    /\ spentHints' = spentHints \cup {record.credential}
    /\ RelayTo(a, "begun")
    /\ down' = [down EXCEPT ![a] = [type |-> "prelude1", binding |-> a]]
    /\ sent' = sent \cup {down'[a]}
    /\ begun' = begun \cup {a}
    /\ UNCHANGED broken

\* A refused prelude, a cache error (which may have spent the hint), a lost
\* context or a failed signature.
BeginFails(a, record) ==
    /\ \/ UNCHANGED spentHints
       \/ /\ validateRelayPrelude0(a, record) /\ ~ expired
          /\ spentHints' = spentHints \cup {record.credential}
    /\ FailRelay(a)
    /\ UNCHANGED <<down, sent, begun>>

RelayBegin(a) ==
    /\ RelayAt(a, "idle") /\ up[a] # none
    /\ \E record \in Arrives(a, up[a]) : Begin(a, record) \/ BeginFails(a, record)
    /\ up' = [up EXCEPT ![a] = none]
    /\ ClientIdle /\ UNCHANGED <<spentTokens, seenBootstraps>> /\ World

\* Finish that opens a capsule of any transcript.
OpenAnyCapsule1(a, record) == record.type = "capsule1"

\* OpenCoverCapsule1, the client finished and validateRelayCapsuleProofs.
OpenCoverCapsule1(a, record) ==
    /\ record.type = "capsule1" /\ record.transcript = a
    /\ record.proof.context = a

\* Finish up to VerifyAdmission; the handshake is terminal from its first line.
FinishOpens(a) ==
    /\ RelayAt(a, "begun") /\ up[a] # none
    /\ \E record \in Arrives(a, up[a]) :
           \/ /\ OpenCoverCapsule1(a, record) /\ ~ expired
              /\ relay' = [relay EXCEPT ![a].pc = "token", ![a].proof = record.proof,
                                        ![a].offer = record.offer]
              /\ UNCHANGED broken
           \/ FailRelay(a)
    /\ up' = [up EXCEPT ![a] = none]
    /\ ClientIdle /\ UNCHANGED <<down, sent, caches, begun>> /\ World

\* VerifyAndSpendReplay, the token: its key covers the redemption context.
TokenSpentKey(proof) == <<proof.token, proof.context>>

SpendToken(a) ==
    /\ RelayAt(a, "token")
    /\ LET key == TokenSpentKey(relay[a].proof)
       IN  \/ /\ key \notin spentTokens
              /\ spentTokens' = spentTokens \cup {key}
              /\ RelayTo(a, "bootstrap") /\ UNCHANGED broken
           \/ spentTokens' \in {spentTokens, spentTokens \cup {key}} /\ FailRelay(a)
    /\ ClientIdle /\ UNCHANGED <<up, down, sent, spentHints, seenBootstraps, begun>> /\ World

\* VerifyAndSpendReplay, the bootstrap key; a failure here leaves the token spent.
SpendBootstrap(a) ==
    /\ RelayAt(a, "bootstrap")
    /\ LET key == <<TokenSpentKey(relay[a].proof), a>>
       IN  \/ /\ key \notin seenBootstraps
              /\ seenBootstraps' = seenBootstraps \cup {key}
              /\ RelayTo(a, "select") /\ UNCHANGED broken
           \/ seenBootstraps' \in {seenBootstraps, seenBootstraps \cup {key}} /\ FailRelay(a)
    /\ ClientIdle /\ UNCHANGED <<up, down, sent, spentHints, spentTokens, begun>> /\ World

\* SelectPolicy, capsule 2 and the application, which the server now runs.
FinishSelects(a) ==
    /\ RelayAt(a, "select")
    /\ LET accept == setting.selector
           offer == relay[a].offer
       IN  \/ /\ SelectPolicy(accept, offer) /\ validateClientPolicyAccept(accept, offer)
              /\ relay' = [relay EXCEPT ![a].pc = "finished", ![a].accept = accept]
              /\ down' = [down EXCEPT ![a] = [type |-> "capsule2", transcript |-> a,
                             proof |-> relay[a].proof, offer |-> offer, accept |-> accept]]
              /\ sent' = sent \cup {down'[a]}
              /\ UNCHANGED broken
           \/ FailRelay(a) /\ UNCHANGED <<down, sent>>
    /\ ClientIdle /\ UNCHANGED <<up, caches, begun>> /\ World

\* The stream ends with the handshake under way: RelayHandshake.Close.
RelayCloses(a) ==
    /\ a \in broken
    /\ relay[a].pc \in {"idle", "begun", "token", "bootstrap", "select", "finished"}
    /\ RelayTo(a, "failed")
    /\ ClientIdle /\ UNCHANGED <<wireVars, caches, begun>> /\ World

-----------------------------------------------------------------------------
Cancel(a) ==
    /\ client[a].pc \notin {"established", "failed", "refused", "closed"}
    /\ a \notin cancelled
    /\ cancelled' = cancelled \cup {a}
    /\ UNCHANGED <<uses, client, owned, wireVars>> /\ RelayIdle /\ World

Break(a) ==
    /\ client[a].pc # "idle" /\ a \notin broken
    /\ broken' = broken \cup {a}
    /\ ClientIdle /\ Unsent /\ RelayIdle /\ World

Expire ==
    /\ ~ expired
    /\ expired' = TRUE
    /\ ClientIdle /\ RelayIdle /\ UNCHANGED <<wireVars, setting, restarts>>

\* The client process restarts: its use counters are gone, its connections drop.
RestartClient ==
    /\ restarts = 0
    /\ restarts' = 1
    /\ uses' = [c \in Credentials |-> 0]
    /\ client' = [a \in Attempts |->
           IF ClientAt(a, "idle") THEN client[a] ELSE [client[a] EXCEPT !.pc = "lost"]]
    /\ owned' = [a \in Attempts |-> {}]
    /\ broken' = broken \cup {a \in Attempts : ~ ClientAt(a, "idle")}
    /\ Unsent /\ RelayIdle /\ UNCHANGED <<setting, cancelled, expired>>

\* The relay process restarts: handshakes and sessions are gone, the caches stay.
RestartRelay ==
    /\ restarts = 0
    /\ restarts' = 1
    /\ relay' = [a \in Attempts |->
           IF RelayAt(a, "idle") THEN relay[a] ELSE [relay[a] EXCEPT !.pc = "failed"]]
    /\ broken' = broken \cup {a \in Attempts : ~ RelayAt(a, "idle")}
    /\ ClientIdle /\ Unsent /\ UNCHANGED <<setting, caches, begun, expired>>

ClientStep(a) ==
    \/ reserveAccessHintUse(a) \/ Open(a) \/ WritePrelude0(a) \/ WritePrelude0Fails(a)
    \/ ReadPrelude1(a) \/ WriteCapsule1(a) \/ ReadCapsule2(a) \/ Establish(a)
    \/ StreamsFail(a) \/ ConnectFails(a)

RelayStep(a) ==
    \/ RelayBegin(a) \/ FinishOpens(a) \/ SpendToken(a) \/ SpendBootstrap(a)
    \/ FinishSelects(a) \/ RelayCloses(a)

Next ==
    \/ \E a \in Attempts : ClientStep(a) \/ RelayStep(a) \/ CloseSession(a)
                           \/ Cancel(a) \/ Break(a)
    \/ Expire \/ RestartClient \/ RestartRelay

Spec == Init /\ [][Next]_vars

-----------------------------------------------------------------------------
\* An established client session has a relay that finished, or had finished
\* before it was lost, on the same connection with the same proof, offer and
\* policy; and a relay finishes only with what the client of that connection
\* put into its capsule.  Records of other connections change nothing.
Agreement ==
    \A a \in Attempts :
        /\ client[a].pc \in {"ready", "established"} =>
               /\ relay[a].accept = client[a].accept
               /\ relay[a].proof = client[a].proof /\ relay[a].offer = Offer(a)
        /\ relay[a].proof # none =>
               relay[a].proof = client[a].proof /\ relay[a].offer = Offer(a)

\* A credential begins at most one handshake at the relay, whichever attempts,
\* drivers and restarts it was used by: the client's counter is in memory, the
\* relay's cache is not.
HintBeginsOnce ==
    \A a, b \in begun : Credential(a) = Credential(b) => a = b
=============================================================================
