------------------------------ MODULE H2Carrier ------------------------------
(* transport.HTTP2ClientCarrier: Open races the TLS handshake, the response  *)
(* and the caller's context; the carrier's users race Close, which the       *)
(* caller's context also calls.                                              *)
EXTENDS Naturals, Sequences, FiniteSets

VARIABLES
    parent,    \* the caller's context is cancelled
    run,       \* runContext is cancelled
    trip,      \* the goroutine around RoundTrip
    tls,       \* tlsStates, capacity 1
    results,   \* capacity 1
    early,     \* earlyResult of Open
    opener,    \* the next step of Open, "open" or "failed"
    hook,      \* the AfterFunc that closes the carrier
    pipe,      \* the request pipe is open
    body,      \* the response body: "none", "open" or "closed"
    once,      \* resultOnce
    stored,    \* response or responseErr: "none", "ok" or "err"
    closing,   \* the next step of Close inside closeOnce, "no" or "done"
    closed,    \* the field closed
    upgraded,  \* the field upgraded
    user,      \* user[u]: where the callers of the carrier's methods are
    mutex      \* readMu and writeMu: who holds them

openVars == <<trip, tls, results, early, opener>>
closeVars == <<hook, once, stored, closing, closed>>
ioVars == <<run, pipe, body>>
useVars == <<upgraded, user, mutex>>
vars == <<parent, openVars, closeVars, ioVars, useVars>>

Users == {"read", "write", "app", "close"}
Responses == {"ok", "bad"}      \* as expected, or not: validateHTTP2Response
None == "none"

Init ==
    /\ parent = FALSE /\ run = FALSE
    /\ trip = "dial" /\ tls = <<>> /\ results = <<>> /\ early = None /\ opener = "select"
    /\ hook = "off" /\ pipe = TRUE /\ body = "none" /\ once = "no" /\ stored = None
    /\ closing = "no" /\ closed = FALSE /\ upgraded = FALSE
    /\ user = [u \in Users |-> "idle"]
    /\ mutex = [m \in {"readMu", "writeMu"} |-> None]

ParentCancels ==
    /\ ~parent /\ parent' = TRUE /\ run' = TRUE
    /\ UNCHANGED <<openVars, closeVars, pipe, body, useVars>>
-----------------------------------------------------------------------------
(* RoundTrip, with DialTLSContext inside it.                               *)

\* The dial and the TLS handshake: the state is offered once, unless runContext ends.
Dial ==
    /\ trip = "dial"
    /\ \/ ~run /\ tls' = <<"state">> /\ trip' = "sent" /\ UNCHANGED results
       \/ results' = <<"err">> /\ trip' = "done" /\ UNCHANGED tls
    /\ UNCHANGED <<parent, early, opener, closeVars, ioVars, useVars>>

\* A response, or an error; nothing but an error once runContext is cancelled.
RoundTrip ==
    /\ trip = "sent" /\ trip' = "done"
    /\ \/ \E r \in Responses : ~run /\ results' = <<r>> /\ body' = "open"
       \/ results' = <<"err">> /\ UNCHANGED body
    /\ UNCHANGED <<parent, tls, early, opener, closeVars, run, pipe, useVars>>
-----------------------------------------------------------------------------
(* Open.                                                                   *)

CloseBody == body' = IF body = "open" THEN "closed" ELSE body
Release == run' = TRUE /\ pipe' = FALSE
PutBack == results' = IF early = None THEN results ELSE <<early>>

OpenSelectsTLS ==
    /\ opener = "select" /\ tls # <<>> /\ tls' = <<>>
    /\ PutBack
    /\ \/ opener' = "fail" /\ UNCHANGED hook      \* ctx.Err, or no binding
       \/ ~parent /\ opener' = "peek" /\ hook' = "armed"
    /\ UNCHANGED <<parent, trip, early, once, stored, closing, closed, ioVars, useVars>>

OpenSelectsResult ==
    /\ opener = "select" /\ results # <<>> /\ results' = <<>>
    /\ IF Head(results) = "err"
       THEN opener' = "failed" /\ Release /\ UNCHANGED early
       ELSE early' = Head(results) /\ UNCHANGED <<opener, run, pipe>>
    /\ UNCHANGED <<parent, trip, tls, closeVars, body, useVars>>

OpenSelectsDone ==
    /\ opener = "select" /\ parent
    /\ IF early = None
       THEN opener' = "fail" /\ UNCHANGED ioVars
       ELSE opener' = "failed" /\ Release /\ CloseBody
    /\ UNCHANGED <<parent, trip, tls, results, early, closeVars, useVars>>

\* Mutant: failOpen does not wait for the result.
FailOpenAtOnce ==
    /\ opener = "fail" /\ Release /\ opener' = "failed"
    /\ UNCHANGED <<parent, trip, tls, early, results, body, closeVars, useVars>>
\* failOpen: cancels, then waits for the result and closes its body.
FailOpen ==
    /\ \/ opener = "fail" /\ Release /\ opener' = "drain" /\ UNCHANGED <<results, body>>
       \/ /\ opener = "drain" /\ results # <<>>
          /\ results' = <<>> /\ CloseBody /\ opener' = "failed" /\ UNCHANGED <<run, pipe>>
    /\ UNCHANGED <<parent, trip, tls, early, closeVars, useVars>>

\* A result that is there already is looked at and put back; then the context.
OpenPeeks ==
    /\ \/ opener = "peek"
          /\ opener' = IF early = None /\ results = <<"err">> THEN "close" ELSE "check"
       \/ opener = "check" /\ opener' = IF parent THEN "close" ELSE "open"
       \/ opener = "close" /\ closing = "done" /\ opener' = "failed"
    /\ UNCHANGED <<parent, trip, tls, results, early, closeVars, ioVars, useVars>>
-----------------------------------------------------------------------------
(* Close, called by a user, by Open and by the hook; the first one runs it. *)

HookStarts ==
    /\ hook = "armed" /\ parent /\ hook' = "running"
    /\ UNCHANGED <<parent, openVars, once, stored, closing, closed, ioVars, useVars>>

CloseCalled == hook = "running" \/ opener = "close" \/ user["close"] = "called"

CloseStops ==
    /\ closing = "no" /\ CloseCalled /\ closing' = "mark"
    /\ hook' = IF hook = "armed" /\ ~parent THEN "stopped" ELSE hook
    /\ UNCHANGED <<parent, openVars, once, stored, closed, ioVars, useVars>>

CloseMarks ==
    /\ closing = "mark" /\ closing' = "cancel" /\ closed' = TRUE
    /\ UNCHANGED <<parent, openVars, hook, once, stored, ioVars, useVars>>

CloseCancels ==
    /\ closing = "cancel" /\ closing' = "load" /\ Release
    /\ UNCHANGED <<parent, openVars, hook, once, stored, closed, body, useVars>>

CloseBodyOnce ==
    /\ closing = "load" /\ once = "done" /\ closing' = "done" /\ CloseBody
    /\ UNCHANGED <<parent, openVars, hook, once, stored, closed, run, pipe, useVars>>

\* The waiting callers of Close return.
CloseReturns ==
    /\ closing = "done"
    /\ \/ user["close"] = "called" /\ user' = [user EXCEPT !["close"] = "idle"] /\ UNCHANGED hook
       \/ hook = "running" /\ hook' = "done" /\ UNCHANGED user
    /\ UNCHANGED <<parent, openVars, once, stored, closing, closed, ioVars, upgraded, mutex>>
-----------------------------------------------------------------------------
(* loadRoundTripResult and storeRoundTripResult under resultOnce.           *)

Loading == closing = "load" \/ \E u \in {"read", "app"} : user[u] = "await"

LoadRoundTripResult ==
    /\ once = "no" /\ Loading /\ results # <<>> /\ results' = <<>>
    /\ once' = "done"
    /\ stored' = IF Head(results) = "ok" THEN "ok" ELSE "err"
    /\ IF Head(results) = "bad" THEN CloseBody ELSE UNCHANGED body
    /\ UNCHANGED <<parent, trip, tls, early, opener, hook, closing, closed, run, pipe, useVars>>
-----------------------------------------------------------------------------
(* The methods of an open carrier.                                         *)

Locks(u) == CASE u = "read" -> {"readMu"} [] u = "write" -> {"writeMu"}
              [] u = "app" -> {"readMu", "writeMu"} [] OTHER -> {}

Step(u, next) == user' = [user EXCEPT ![u] = next]
Return(u) ==
    /\ Step(u, "idle")
    /\ mutex' = [m \in DOMAIN mutex |-> IF mutex[m] = u THEN None ELSE mutex[m]]

Call(u) ==
    /\ opener = "open" /\ user[u] = "idle" /\ (u = "close" => closing = "no")
    /\ Step(u, "called")
    /\ UNCHANGED <<parent, openVars, closeVars, ioVars, upgraded, mutex>>

\* readMu before writeMu.
Lock(u) ==
    /\ user[u] = "called" /\ u # "close"
    /\ LET wanted == {m \in Locks(u) : mutex[m] # u}
           m == IF "readMu" \in wanted THEN "readMu" ELSE "writeMu"
       IN  /\ mutex[m] = None /\ mutex' = [mutex EXCEPT ![m] = u]
           /\ Step(u, IF Cardinality(wanted) = 1 THEN "entered" ELSE "called")
    /\ UNCHANGED <<parent, openVars, closeVars, ioVars, upgraded>>

WriteRecord ==
    /\ \/ /\ user["write"] = "entered"
          /\ IF closed \/ upgraded THEN Return("write") ELSE Step("write", "io") /\ UNCHANGED mutex
       \/ user["write"] = "io" /\ Return("write")   \* taken by the transport, or the pipe is closed
    /\ UNCHANGED <<parent, openVars, closeVars, ioVars, upgraded>>

ReadRecord ==
    /\ \/ /\ user["read"] = "entered"
          /\ IF closed \/ upgraded THEN Return("read") ELSE Step("read", "await") /\ UNCHANGED mutex
       \/ /\ user["read"] = "await" /\ once = "done"
          /\ IF stored = "err" \/ closed THEN Return("read") ELSE Step("read", "io") /\ UNCHANGED mutex
       \/ user["read"] = "io" /\ Return("read")     \* a record, or the body is closed
    /\ UNCHANGED <<parent, openVars, closeVars, ioVars, upgraded>>

ApplicationStreams ==
    /\ \/ user["app"] = "entered" /\ Step("app", "await") /\ UNCHANGED <<mutex, upgraded>>
       \/ /\ user["app"] = "await" /\ once = "done"
          /\ Return("app")
          /\ upgraded' = (upgraded \/ (stored = "ok" /\ ~closed))
    /\ UNCHANGED <<parent, openVars, closeVars, ioVars>>
-----------------------------------------------------------------------------
Opener == OpenSelectsTLS \/ OpenSelectsResult \/ OpenSelectsDone \/ FailOpen \/ OpenPeeks
Closer == HookStarts \/ CloseStops \/ CloseMarks \/ CloseCancels \/ CloseBodyOnce \/ CloseReturns
Method(u) == Lock(u) \/ (u = "write" /\ WriteRecord) \/ (u = "read" /\ ReadRecord)
                \/ (u = "app" /\ ApplicationStreams)

Next ==
    \/ ParentCancels \/ Dial \/ RoundTrip \/ Opener \/ Closer \/ LoadRoundTripResult
    \/ \E u \in Users : Call(u) \/ Method(u)

\* Goroutines keep running; a record that is written or awaited may take for
\* ever until the pipe or the context is closed, and so may the network.
Fairness ==
    /\ WF_vars(Opener) /\ WF_vars(Closer) /\ WF_vars(LoadRoundTripResult)
    /\ WF_vars(run /\ (Dial \/ RoundTrip))
    /\ \A u \in Users \ {"close"} : SF_vars(Method(u) /\ (user[u] = "io" => run))

Spec == Init /\ [][Next]_vars /\ Fairness
-----------------------------------------------------------------------------
TypeOK ==
    /\ parent \in BOOLEAN /\ run \in BOOLEAN /\ pipe \in BOOLEAN /\ upgraded \in BOOLEAN
    /\ Len(results) <= 1 /\ Len(tls) <= 1
    /\ opener \in {"select", "fail", "drain", "peek", "check", "close", "open", "failed"}
    /\ closing \in {"no", "mark", "cancel", "load", "done"}

\* When Open has failed, or Close is through, nothing is left behind: the round
\* trip is over, its result consumed, runContext cancelled, the pipe and the
\* response body closed, whatever the order of handshake, response and cancellation.
CarrierReleased ==
    (opener = "failed" \/ closing = "done") =>
        trip = "done" /\ results = <<>> /\ run /\ ~pipe /\ body # "open"

\* A cancelled caller gets Open's answer or a closed carrier, and after a Close or
\* a cancellation every call on the carrier returns.
CarrierReturns ==
    /\ (parent \/ closing # "no") ~> (opener = "failed" \/ closing = "done")
    /\ \A u \in Users \ {"close"} : (closing # "no" /\ user[u] # "idle") ~> user[u] = "idle"
=============================================================================
