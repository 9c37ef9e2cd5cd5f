------------------------------ MODULE RouteRelay ------------------------------
(***************************************************************************)
(* How the next relay of a route opens a route prelude envelope            *)
(* (OpenAndVerifyPrivatePreludeWithWrapNonceCache): open it, record its    *)
(* wrap nonce, then verify and spend the access hint it carries.  Several  *)
(* calls run at once, each with the clock value it was started with; an    *)
(* envelope may arrive any number of times.                                *)
(*                                                                         *)
(* An envelope is [hint, nonce, sealed, mac]: the credential it names, its *)
(* wrap nonce, whether the ciphertext opens under that credential to a     *)
(* prelude that repeats the visible fields, and whether the access hint    *)
(* inside matches.                                                         *)
(***************************************************************************)
EXTENDS Naturals, FiniteSets, FiniteSetsExt

CONSTANTS
    Calls,        \* the calls that may run at once
    Envelopes,    \* the envelopes in circulation
    Expiry,       \* [hint -> the second at which the credential expires]
    EpochLength,  \* seconds of a relay epoch
    Grace,        \* replayCacheRetentionGraceSeconds; a call takes less than that
    MaxTime       \* bound: the last second of the clock

Hints == DOMAIN Expiry
Key(e) == <<e.hint, e.nonce>>
Forever == 0
SomeEnvelope == CHOOSE e \in Envelopes : TRUE

VARIABLES
    clock,        \* the relay has a time source
    now,          \* seconds, from 1
    epochUntil,   \* relayEpochValidUntilUnix
    call,         \* per caller: "idle", or what its call does next: "nonce", "hint"
    envelope,     \* per caller: what its call opens
    started,      \* per caller: nowUnix and relayEpochValidUntilUnix of its call
    seen,         \* WrapNonceReplayCache.seen: key -> deadline, Forever if permanent
    minDeadline,  \* WrapNonceReplayCache.minDeadline
    spent,        \* the access hint cache: hint -> deadline
    accepted      \* history: the envelopes that were accepted, with how often

vars == <<clock, now, epochUntil, call, envelope, started, seen, minDeadline, spent, accepted>>

Never == MaxTime + EpochLength + Grace + 1   \* above every deadline (math.MaxUint64)

Init ==
    /\ clock \in BOOLEAN
    /\ now = 1
    /\ epochUntil = 1 + EpochLength
    /\ call = [c \in Calls |-> "idle"]
    /\ envelope = [c \in Calls |-> SomeEnvelope]
    /\ started = [c \in Calls |-> [at |-> 0, epoch |-> 0]]
    /\ seen = << >>
    /\ minDeadline = Never
    /\ spent = << >>
    /\ accepted = [e \in Envelopes |-> 0]

Put(f, k, v) == [x \in DOMAIN f \union {k} |-> IF x = k THEN v ELSE f[x]]

Return(c) ==
    /\ call' = [call EXCEPT ![c] = "idle"]
    /\ envelope' = [envelope EXCEPT ![c] = SomeEnvelope]
    /\ started' = [started EXCEPT ![c] = [at |-> 0, epoch |-> 0]]

Proceed(c) == call' = [call EXCEPT ![c] = "hint"] /\ UNCHANGED <<envelope, started>>

(* MaximumRetentionDeadline of the credential's expiry and the relay epoch. *)
\* As RetentionDeadline, from the earlier of the two times.
EarlyDeadline(e, epoch) == Min({Expiry[e.hint], epoch}) + Grace

RetentionDeadline(e, epoch) == Max({Expiry[e.hint], epoch}) + Grace

(* An envelope arrives and is opened. *)
OpenPrivatePrelude(c) ==
    \E e \in Envelopes :
        /\ call[c] = "idle"
        /\ e.sealed
        /\ call' = [call EXCEPT ![c] = "nonce"]
        /\ envelope' = [envelope EXCEPT ![c] = e]
        /\ started' = [started EXCEPT ![c] = [at |-> IF clock THEN now ELSE 0, epoch |-> epochUntil]]
        /\ UNCHANGED <<clock, now, epochUntil, seen, minDeadline, spent, accepted>>

(* The records whose deadline has passed go, once the earliest has passed. *)
expireLocked(t) ==
    IF minDeadline <= t
    THEN [k \in {k \in DOMAIN seen : seen[k] = Forever \/ seen[k] > t} |-> seen[k]]
    ELSE seen

Earliest(f) == Min({f[k] : k \in {k \in DOMAIN f : f[k] # Forever}} \union {Never})

(* WrapNonceReplayCache.InsertIfAbsent: without a time source a record is permanent. *)
InsertIfAbsent(c) ==
    LET k == Key(envelope[c])
    IN /\ call[c] = "nonce"
       /\ started[c].at = 0
       /\ IF k \in DOMAIN seen
          THEN Return(c) /\ UNCHANGED seen
          ELSE Proceed(c) /\ seen' = Put(seen, k, Forever)
       /\ UNCHANGED <<clock, now, epochUntil, minDeadline, spent, accepted>>

(* WrapNonceReplayCache.InsertIfAbsentUntil. *)
InsertIfAbsentUntil(c) ==
    LET k == Key(envelope[c])
        t == started[c].at
        deadline == RetentionDeadline(envelope[c], started[c].epoch)
        kept == expireLocked(t)
        earliest == IF minDeadline <= t THEN Earliest(kept) ELSE minDeadline
    IN /\ call[c] = "nonce"
       /\ t # 0
       /\ IF deadline <= t
          THEN Return(c) /\ UNCHANGED <<seen, minDeadline>>
          ELSE IF k \in DOMAIN kept /\ (kept[k] = Forever \/ kept[k] > t)
               THEN Return(c) /\ seen' = kept /\ minDeadline' = earliest
               ELSE /\ seen' = Put(kept, k, deadline)
                    /\ minDeadline' = Min({earliest, deadline})
                    /\ Proceed(c)
       /\ UNCHANGED <<clock, now, epochUntil, spent, accepted>>

(* VerifyAndSpendAccessHintAt, with the time the call was started with. *)
HintVerifies(e, t, epoch) ==
    /\ t = 0 \/ t < Expiry[e.hint]
    /\ t = 0 \/ t < epoch
    /\ e.mac

(* The hint is spent in a retention cache, which drops what has expired.   *)
VerifyAndSpendAccessHint(c) ==
    LET e == envelope[c]
        t == started[c].at
        kept == [h \in {h \in DOMAIN spent : spent[h] = Forever \/ spent[h] > t} |-> spent[h]]
    IN /\ call[c] = "hint"
       /\ IF HintVerifies(e, t, started[c].epoch) /\ e.hint \notin DOMAIN kept
          THEN /\ spent' = Put(kept, e.hint, IF t = 0 THEN Forever ELSE RetentionDeadline(e, started[c].epoch))
               /\ accepted' = [accepted EXCEPT ![e] = @ + 1]
          ELSE UNCHANGED <<spent, accepted>>
       /\ Return(c)
       /\ UNCHANGED <<clock, now, epochUntil, seen, minDeadline>>

Tick ==
    /\ now < MaxTime
    /\ \A c \in Calls : started[c].at # 0 => now < started[c].at + Grace
    /\ now' = now + 1
    /\ UNCHANGED <<clock, epochUntil, call, envelope, started, seen, minDeadline, spent, accepted>>

(* The relay publishes its next epoch when the last one is over. *)
NextEpoch ==
    /\ now >= epochUntil
    /\ epochUntil' = now + EpochLength
    /\ UNCHANGED <<clock, now, call, envelope, started, seen, minDeadline, spent, accepted>>

Open(c) == OpenPrivatePrelude(c) \/ InsertIfAbsent(c) \/ InsertIfAbsentUntil(c) \/ VerifyAndSpendAccessHint(c)

Next == Tick \/ NextEpoch \/ \E c \in Calls : Open(c)

Spec == Init /\ [][Next]_vars
-----------------------------------------------------------------------------
(* However often envelopes are replayed and however the calls interleave,  *)
(* a credential is accepted once, even as the clock passes its expiry and  *)
(* the relay's epochs, and the records of both caches are swept.           *)
CredentialOnce ==
    \A h \in Hints :
        LET uses == {e \in Envelopes : e.hint = h /\ accepted[e] > 0}
        IN Cardinality(uses) <= 1 /\ \A e \in uses : accepted[e] = 1
=============================================================================
