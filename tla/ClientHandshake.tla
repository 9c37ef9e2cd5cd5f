--------------------------- MODULE ClientHandshake ---------------------------
(* handshake.ClientHandshake: Begin runs Connect on a goroutine with a       *)
(* deferredClientProofProvider and returns at its proof request; Complete    *)
(* hands the proofs over and takes the session; Close may come from any      *)
(* goroutine at any time, and contexts may end.                              *)
EXTENDS Integers, FiniteSets

CONSTANTS Completers, Closers   \* goroutines that call Complete and Close

HandshakeAssumption == "begin" \notin Completers \cup Closers /\ Completers \cap Closers = {}

Callers == {"begin"} \cup Completers \cup Closers

VARIABLES
    pc,         \* pc[c]: where caller c is
    connect,    \* where the Connect goroutine is
    done,       \* h.done is closed
    session,    \* "none", "open", "closed" or "returned"
    closed,     \* h.closed
    claimed,    \* h.completionClaimed
    shutdown,   \* provider.shutdown, set with the closing of provider.closed
    results,    \* proofs waiting in provider.results (capacity 1)
    cancelled,  \* connectContext is cancelled
    ended       \* callers whose own context has ended

vars == <<pc, connect, done, session, closed, claimed, shutdown, results, cancelled, ended>>

Init ==
    /\ pc = [c \in Callers |-> IF c = "begin" THEN "select" ELSE "idle"]
    /\ connect = "first" /\ done = FALSE /\ session = "none"
    /\ closed = FALSE /\ claimed = FALSE /\ shutdown = FALSE /\ results = 0
    /\ cancelled = FALSE /\ ended = {}

At(c, next) == pc' = [pc EXCEPT ![c] = next]
Handle == UNCHANGED <<closed, claimed, shutdown, results, cancelled>>

\* EstablishedSession.Close of the stored result, once.
CloseResult == session' = IF session = "open" THEN "closed" ELSE session

-----------------------------------------------------------------------------
(* The Connect goroutine. *)

\* Connect fails before the proofs, or the context has been cancelled.
ConnectFails ==
    /\ connect \in {"first", "second"}
    /\ connect' = "failed"
    /\ UNCHANGED <<pc, done, session, ended>> /\ Handle

ReachesProofs ==
    /\ connect = "first" /\ ~ cancelled
    /\ connect' = "requesting"
    /\ UNCHANGED <<pc, done, session, ended>> /\ Handle

\* BuildProofs hands its request to Begin.
SendRequest ==
    /\ connect = "requesting" /\ pc["begin"] = "select"
    /\ connect' = "awaiting"
    /\ At("begin", "returned")
    /\ UNCHANGED <<done, session, ended>> /\ Handle

\* BuildProofs receives the proofs Complete left.
ReceiveProofs ==
    /\ connect = "awaiting" /\ results = 1
    /\ results' = 0
    /\ connect' = "second"
    /\ UNCHANGED <<pc, done, session, closed, claimed, shutdown, cancelled, ended>>

\* BuildProofs gives up on provider.closed or the context.
AbandonProofs ==
    /\ connect \in {"requesting", "awaiting"} /\ (shutdown \/ cancelled)
    /\ connect' = "failed"
    /\ UNCHANGED <<pc, done, session, ended>> /\ Handle

\* Connect returns a session; the context may end after its last check of it.
Connects ==
    /\ connect = "second"
    /\ connect' = "connected"
    /\ UNCHANGED <<pc, done, session, ended>> /\ Handle

storeResult ==
    /\ connect \in {"failed", "connected"}
    /\ session' = IF connect = "connected" THEN "open" ELSE session
    /\ done' = TRUE
    /\ connect' = "stored"
    /\ UNCHANGED <<pc, ended>> /\ Handle

ConnectStep ==
    \/ ConnectFails \/ ReachesProofs \/ SendRequest \/ ReceiveProofs \/ AbandonProofs
    \/ Connects \/ storeResult

-----------------------------------------------------------------------------
(* Begin, Complete and Close. *)

\* Connect's context is a child of Begin's, which may end at any time.
ContextEnds(c) ==
    /\ c \notin ended /\ (c = "begin" \/ pc[c] # "returned")
    /\ ended' = ended \cup {c}
    /\ cancelled' = (cancelled \/ c = "begin")
    /\ UNCHANGED <<pc, connect, done, session, closed, claimed, shutdown, results>>

\* Begin finds Connect over: markClosed, and an early session is closed.
BeginDone ==
    /\ pc["begin"] = "select" /\ done
    /\ closed' = TRUE
    /\ CloseResult
    /\ At("begin", "failed")
    /\ UNCHANGED <<connect, done, claimed, shutdown, results, cancelled, ended>>

BeginContextDone ==
    /\ pc["begin"] = "select" /\ "begin" \in ended
    /\ At("begin", "close")
    /\ UNCHANGED <<connect, done, session, ended>> /\ Handle

\* Complete is called; an ended context closes the handshake.
CompleteEnters(c) ==
    /\ pc[c] = "idle" /\ c \in Completers /\ pc["begin"] = "returned"
    /\ At(c, IF c \in ended THEN "close" ELSE "claim")
    /\ UNCHANGED <<connect, done, session, ended>> /\ Handle

claimCompletion(c) ==
    /\ pc[c] = "claim"
    /\ claimed' = (claimed \/ ~ closed)
    /\ At(c, IF closed \/ claimed THEN "failed" ELSE "supply")
    /\ UNCHANGED <<connect, done, session, closed, shutdown, results, cancelled, ended>>

\* provider.complete, under stateMu.
complete(c) ==
    /\ pc[c] = "supply"
    /\ LET accepted == ~ shutdown /\ results = 0
       IN  /\ results' = IF accepted THEN 1 ELSE results
           /\ At(c, IF accepted THEN "wait" ELSE "close")
    /\ UNCHANGED <<connect, done, session, closed, claimed, shutdown, cancelled, ended>>

\* Complete that returns the result without looking at closed.
CompleteDoneUnchecked(c) ==
    /\ pc[c] = "wait" /\ done
    /\ closed' = TRUE
    /\ session' = IF session = "open" THEN "returned" ELSE session
    /\ At(c, "returned")
    /\ UNCHANGED <<connect, done, claimed, shutdown, results, cancelled, ended>>

\* Complete finds Connect over: the session is the caller's unless the
\* handshake was closed meanwhile.
CompleteDone(c) ==
    /\ pc[c] = "wait" /\ done
    /\ closed' = TRUE
    /\ IF closed THEN CloseResult
                 ELSE session' = IF session = "open" THEN "returned" ELSE session
    /\ At(c, IF ~ closed /\ session = "open" THEN "returned" ELSE "failed")
    /\ UNCHANGED <<connect, done, claimed, shutdown, results, cancelled, ended>>

CompleteContextDone(c) ==
    /\ pc[c] = "wait" /\ c \in ended
    /\ At(c, "close")
    /\ UNCHANGED <<connect, done, session, ended>> /\ Handle

CloseCalled(c) ==
    /\ pc[c] = "idle" /\ c \in Closers /\ pc["begin"] = "returned"
    /\ At(c, "close")
    /\ UNCHANGED <<connect, done, session, ended>> /\ Handle

\* Close, for whichever caller: idempotent, the first one does the work.
CloseMarks(c) ==
    /\ pc[c] = "close"
    /\ closed' = TRUE
    /\ At(c, IF closed THEN "failed" ELSE "provider")
    /\ UNCHANGED <<connect, done, session, claimed, shutdown, results, cancelled, ended>>

\* provider.close, under stateMu: waiting proofs are wiped.
CloseProvider(c) ==
    /\ pc[c] = "provider"
    /\ shutdown' = TRUE
    /\ results' = 0
    /\ At(c, "cancel")
    /\ UNCHANGED <<connect, done, session, closed, claimed, cancelled, ended>>

CloseCancels(c) ==
    /\ pc[c] = "cancel"
    /\ cancelled' = TRUE
    /\ At(c, "join")
    /\ UNCHANGED <<connect, done, session, closed, claimed, shutdown, results, ended>>

CloseJoins(c) ==
    /\ pc[c] = "join" /\ done
    /\ CloseResult
    /\ At(c, "failed")
    /\ UNCHANGED <<connect, done, ended>> /\ Handle

CallerStep(c) ==
    \/ c = "begin" /\ (BeginDone \/ BeginContextDone)
    \/ claimCompletion(c) \/ complete(c) \/ CompleteDone(c) \/ CompleteContextDone(c)
    \/ CloseMarks(c) \/ CloseProvider(c) \/ CloseCancels(c) \/ CloseJoins(c)

Next ==
    \/ ConnectStep
    \/ \E c \in Callers :
           CallerStep(c) \/ ContextEnds(c) \/ CompleteEnters(c) \/ CloseCalled(c)

Fairness == WF_vars(ConnectStep) /\ \A c \in Callers : WF_vars(CallerStep(c))

Spec == Init /\ [][Next]_vars /\ Fairness

-----------------------------------------------------------------------------
\* The session Connect made belongs to exactly one side: a Complete that
\* returned it (one at most), or the handshake, which closes it before the last
\* caller that ended the handshake is back.  Nor do proofs outlive the provider:
\* whatever order Complete and Close take the lock in, none is left in its
\* channel once it is shut down.
SessionOwned ==
    /\ Cardinality({c \in Completers : pc[c] = "returned"}) <= 1
    /\ (session = "returned") <=> \E c \in Completers : pc[c] = "returned"
    /\ closed /\ (\A c \in Callers : pc[c] \in {"idle", "returned", "failed"}) =>
           done /\ session # "open"
    /\ shutdown => results = 0

\* Every call returns: Begin when the request arrives or the goroutine ends,
\* Complete and Close once Connect is over.
CallsReturn ==
    \A c \in Callers : pc[c] \in {"select", "claim", "close"} ~> pc[c] \in {"returned", "failed"}
=============================================================================
