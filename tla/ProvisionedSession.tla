------------------------- MODULE ProvisionedSession --------------------------
(***************************************************************************)
(* client.ProvisionedSession over the ClientHandshake it owns: the start    *)
(* with its timer, calls of Complete with the issuer's answer, calls of     *)
(* Close by the application and by the issuer timer, and an application     *)
(* context that may end.  A critical section of s.mu is one step, and so is *)
(* each call made outside it.  At most one Close gets past s.closed, so     *)
(* that one closer of the handshake is enough.                              *)
(***************************************************************************)
EXTENDS ClientHandshake

VARIABLES
    stage,      \* newProvisionedSession: "starting", "late", "abandon", "failed", "ready"
    call,       \* call[t]: where a caller of Complete, the application's or the
                \* timer's Close is
    shut,       \* s.closed
    completing, \* s.completing
    holds,      \* which of handshake, established and request s points to
    taken,      \* what the Close that marked s is to close
    timer,      \* s.issuerTimer: "off", "armed" or "fired"
    fate        \* a session the handshake gave away: "none", "held", "stored", "closed"

svars == <<stage, call, shut, completing, holds, taken, timer, fate>>

Threads == Completers \cup {"close", "timer"}

SessionInit ==
    /\ Init
    /\ stage = "starting"
    /\ call = [t \in Threads |-> "idle"]
    /\ shut = FALSE /\ completing = FALSE
    /\ holds = {} /\ taken = {} /\ timer = "off" /\ fate = "none"

Goes(t, next) == call' = [call EXCEPT ![t] = next]

\* cancel of the session's context: the contexts of Connect and of every
\* deferred.Complete under way are its children.
CancelSession ==
    /\ cancelled' = TRUE
    /\ ended' = ended \cup {"begin"} \cup {t \in Completers : call[t] \in {"checked", "deferred"}}
    /\ UNCHANGED <<pc, connect, done, session, closed, claimed, shutdown, results>>

-----------------------------------------------------------------------------
(* newProvisionedSession                                                    *)

\* The timer of the start fires: it cancels the context.
HandshakeTimerFires ==
    /\ stage = "starting"
    /\ stage' = "late"
    /\ CancelSession
    /\ UNCHANGED <<call, shut, completing, holds, taken, timer, fate>>

\* The start was too late, or no issuer work can be made: the context ends, and
\* the handshake it returned, if any, is closed.
StartFails ==
    /\ stage \in {"starting", "late"} /\ pc["begin"] \in {"returned", "failed"}
    /\ stage' = IF pc["begin"] = "returned" THEN "abandon" ELSE "failed"
    /\ CancelSession
    /\ UNCHANGED <<call, shut, completing, holds, taken, timer, fate>>

CloseAbandoned ==
    /\ stage = "abandon"
    /\ \/ CloseCalled("closer") /\ UNCHANGED stage
       \/ pc["closer"] = "failed" /\ stage' = "failed" /\ UNCHANGED vars
    /\ UNCHANGED <<call, shut, completing, holds, taken, timer, fate>>

newProvisionedSession ==
    /\ stage = "starting" /\ pc["begin"] = "returned"
    /\ stage' = "ready"
    /\ holds' = {"handshake", "request"}
    /\ timer' = "armed"
    /\ UNCHANGED <<call, shut, completing, taken, fate, vars>>

-----------------------------------------------------------------------------
(* Complete                                                                 *)

\* A caller whose context has ended, or with an answer of the wrong size,
\* closes the session.
CompleteCalled(t) ==
    /\ stage = "ready" /\ call[t] = "idle" /\ t \in Completers
    /\ \E next \in {"claim", "close"} : Goes(t, next)
    /\ UNCHANGED <<stage, shut, completing, holds, taken, timer, fate, vars>>

Claims(t) ==
    /\ call[t] = "claim"
    /\ LET waits == ~ shut /\ ~ completing /\ "handshake" \in holds /\ "established" \notin holds
       IN  /\ completing' = (completing \/ waits)
           /\ Goes(t, IF waits THEN "prove" ELSE "refused")
    /\ UNCHANGED <<stage, shut, holds, taken, timer, fate, vars>>

\* The answer holds an unexpired proof for this session's context that verifies
\* against the issuer's metadata.
proofsForIssuerResponse(answer) == answer = "proof for this context"

\* The proofs are made and both contexts looked at.
Proves(t) ==
    /\ call[t] = "prove"
    /\ \E answer \in {"proof for this context", "another"} :
           Goes(t, IF proofsForIssuerResponse(answer) /\ "begin" \notin ended
                   THEN "checked" ELSE "unproved")
    /\ UNCHANGED <<stage, shut, completing, holds, taken, timer, fate, vars>>

\* The completion times out, or the caller's context ends.
CompletionEnds(t) ==
    /\ call[t] \in {"checked", "deferred"} /\ t \in Completers
    /\ ContextEnds(t)
    /\ UNCHANGED svars

CallsDeferred(t) ==
    /\ call[t] = "checked"
    /\ CompleteEnters(t)
    /\ Goes(t, "deferred")
    /\ UNCHANGED <<stage, shut, completing, holds, taken, timer, fate>>

\* deferred.Complete is back, or was never called.
Gained(t) == call[t] = "deferred" /\ pc[t] = "returned"
Lost(t) == call[t] = "unproved" \/ (call[t] = "deferred" /\ pc[t] = "failed")

Stopped == IF timer = "armed" THEN "off" ELSE timer

\* The session is the caller's, and s's, unless s was closed meanwhile; whoever
\* fails closes s.
Settles(t) ==
    /\ Gained(t) \/ Lost(t)
    /\ completing' = FALSE
    /\ IF Gained(t) /\ ~ shut
       THEN /\ holds' = {"established"} /\ timer' = Stopped /\ fate' = "stored"
            /\ Goes(t, "established")
       ELSE /\ fate' = IF Gained(t) THEN "held" ELSE fate
            /\ Goes(t, IF Gained(t) THEN "dispose" ELSE IF shut THEN "refused" ELSE "close")
            /\ UNCHANGED <<holds, timer>>
    /\ UNCHANGED <<stage, shut, taken, vars>>

\* established.Close of a session that came too late.
Disposes(t) ==
    /\ call[t] = "dispose"
    /\ fate' = "closed"
    /\ Goes(t, "refused")
    /\ UNCHANGED <<stage, shut, completing, holds, taken, timer, vars>>

-----------------------------------------------------------------------------
(* Close                                                                    *)

IssuerTimerFires ==
    /\ timer = "armed"
    /\ timer' = "fired"
    /\ Goes("timer", "close")
    /\ UNCHANGED <<stage, shut, completing, holds, taken, fate, vars>>

ApplicationCloses ==
    /\ stage = "ready" /\ call["close"] = "idle"
    /\ Goes("close", "close")
    /\ UNCHANGED <<stage, shut, completing, holds, taken, timer, fate, vars>>

MarksShut(t) ==
    /\ call[t] = "close"
    /\ IF shut
       THEN Goes(t, "refused") /\ UNCHANGED <<shut, holds, taken, timer>>
       ELSE /\ shut' = TRUE
            /\ taken' = holds \ {"request"} /\ holds' = {}
            /\ timer' = Stopped
            /\ Goes(t, "cancel")
    /\ UNCHANGED <<stage, completing, fate, vars>>

Cancels(t) ==
    /\ call[t] = "cancel"
    /\ CancelSession
    /\ Goes(t, IF "handshake" \in taken THEN "join" ELSE "release")
    /\ UNCHANGED <<stage, shut, completing, holds, taken, timer, fate>>

\* deferred.Close is called and comes back.
JoinsHandshake(t) ==
    /\ call[t] = "join"
    /\ \/ CloseCalled("closer") /\ UNCHANGED call
       \/ pc["closer"] = "failed" /\ Goes(t, "release") /\ UNCHANGED vars
    /\ UNCHANGED <<stage, shut, completing, holds, taken, timer, fate>>

\* established.Close.
Releases(t) ==
    /\ call[t] = "release"
    /\ fate' = IF "established" \in taken THEN "closed" ELSE fate
    /\ taken' = {}
    /\ Goes(t, "refused")
    /\ UNCHANGED <<stage, shut, completing, holds, timer, vars>>

-----------------------------------------------------------------------------
SessionStep(t) ==
    \/ Claims(t) \/ Proves(t) \/ CallsDeferred(t) \/ Settles(t) \/ Disposes(t)
    \/ MarksShut(t) \/ Cancels(t) \/ JoinsHandshake(t) \/ Releases(t)
StartStep == StartFails \/ CloseAbandoned \/ newProvisionedSession

HandshakeStep ==
    /\ ConnectStep \/ (\E c \in Callers : CallerStep(c)) \/ ContextEnds("begin")
    /\ UNCHANGED svars

SessionNext ==
    \/ HandshakeStep
    \/ StartStep \/ HandshakeTimerFires \/ IssuerTimerFires \/ ApplicationCloses
    \/ \E t \in Threads : SessionStep(t) \/ CompleteCalled(t) \/ CompletionEnds(t)

allvars == <<svars, vars>>

SessionSpec == SessionInit /\ [][SessionNext]_allvars
-----------------------------------------------------------------------------
Quiet ==
    /\ stage \in {"failed", "ready"}
    /\ \A t \in Threads : call[t] \in {"idle", "refused", "established"}

\* One Complete at most returns a session.  A session that is closed, or that was
\* never published, leaves nothing behind once the calls on it are over: Connect
\* has ended, the session it made is closed, wherever Complete, Close, the timers
\* and the contexts met, and the proof request is erased.
NothingRetained ==
    /\ Cardinality({t \in Completers : call[t] = "established"}) <= 1
    /\ Quiet /\ (shut \/ stage = "failed") =>
           /\ done /\ cancelled
           /\ session # "open" /\ fate \in {"none", "closed"}
           /\ session = "returned" => fate = "closed"
           /\ holds = {}
=============================================================================
