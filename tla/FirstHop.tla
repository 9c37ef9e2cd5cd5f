------------------------------ MODULE FirstHop ------------------------------
(* server.FirstHopHandler under an HTTP/2 server: streams of a connection    *)
(* claim it, are admitted and registered, run the relay side of the         *)
(* handshake, commit the response headers and become a packet duplex, while *)
(* the peer, other streams and Shutdown cancel them at any point.           *)
EXTENDS Integers, FiniteSets

CONSTANTS MaxSessions, MaxPreludeBytes, PendingLimit,
          Settings   \* sets of requests; a request is a connection and a stream ID

VARIABLES
    requests,   \* the requests of this behaviour (bound)
    pc,         \* pc[r]: the next step of r's handler
    holds,      \* holds[r]: what the handler has to give back
    length,     \* length[r]: bytes reserved for r's prelude
    response,   \* response[r]: "none", "cover" or "carrier"
    cancelled,  \* the requests whose session context is cancelled
    after,      \* after[r]: the context.AfterFunc of serveCandidate
    deadline,   \* deadline[r]: read and write deadlines of r's stream
    writing,    \* the sessions whose write pump is in a carrier write
    observed,   \* connections whose stream 1 was claimed
    poisoned,   \* connections that saw a stream other than 1
    active,     \* connections with an activeCancel
    slots,      \* permits taken from the session limiter
    used,       \* bytes taken from the prelude budget
    waitGroup,  \* sessionWG
    shutdown    \* "serving", "refusing" (shuttingDown set), "cancelled", "waited" or "closed"

handlerVars == <<pc, holds, length, response>>
ioVars == <<after, deadline, writing>>
connVars == <<observed, poisoned, active>>
serverVars == <<slots, used, waitGroup>>
vars == <<requests, handlerVars, cancelled, ioVars, connVars, serverVars, shutdown>>

Conn(r) == r[1]
Stream(r) == r[2]

\* productionFirstHopPreludeBudgetLimit.
PreludeLimit ==
    IF MaxPreludeBytes > PendingLimit \div MaxSessions THEN PendingLimit
                                                      ELSE MaxSessions * MaxPreludeBytes

Init ==
    /\ requests \in Settings
    /\ pc = [r \in requests |-> "idle"]
    /\ holds = [r \in requests |-> {}]
    /\ length = [r \in requests |-> 0]
    /\ response = [r \in requests |-> "none"]
    /\ cancelled = {}
    /\ after = [r \in requests |-> "off"]
    /\ deadline = [r \in requests |-> [read |-> "none", write |-> "server"]]
    /\ writing = {} /\ observed = {} /\ poisoned = {} /\ active = {}
    /\ slots = 0 /\ used = 0 /\ waitGroup = 0
    /\ shutdown = "serving"

At(r, next) == pc' = [pc EXCEPT ![r] = next]
Take(r, what) == holds' = [holds EXCEPT ![r] = @ \cup {what}]
Drop(r, what) == holds' = [holds EXCEPT ![r] = @ \ {what}]
Deadline(r, which, value) == deadline' = [deadline EXCEPT ![r][which] = value]

\* servePreHeaderFailure and serveCoverRequest, then the deferred calls.
Cover(r, next) == response' = [response EXCEPT ![r] = "cover"] /\ At(r, next)
\* abortFirstHopAfterHeader, then the deferred calls.
Abort(r) == cancelled' = cancelled \cup {r} /\ At(r, "unwind") /\ UNCHANGED response
-----------------------------------------------------------------------------
(* ServeHTTP up to serveCandidate.                                         *)

\* enterStream: only the first stream of a connection is claimed.
EnterStream(r) ==
    /\ pc[r] = "idle"
    /\ LET c == Conn(r)
       IN  \/ /\ Stream(r) # 1
              /\ poisoned' = poisoned \cup {c} /\ active' = active \ {c}
              /\ IF c \in active THEN At(r, "poison") /\ UNCHANGED response ELSE Cover(r, "done")
              /\ UNCHANGED observed
           \/ /\ Stream(r) = 1 /\ c \in observed \cup poisoned
              /\ Cover(r, "done") /\ UNCHANGED <<observed, poisoned, active>>
           \/ /\ Stream(r) = 1 /\ c \notin observed \cup poisoned
              /\ observed' = observed \cup {c} /\ active' = active \cup {c}
              /\ At(r, "admit") /\ UNCHANGED <<poisoned, response>>
    /\ UNCHANGED <<requests, holds, length, cancelled, ioVars, serverVars, shutdown>>

\* The stream that poisoned the connection cancels the session of stream 1.
PriorCancel(r) ==
    /\ pc[r] = "poison"
    /\ cancelled' = cancelled \cup {q \in requests : Conn(q) = Conn(r) /\ Stream(q) = 1}
    /\ Cover(r, "done")
    /\ UNCHANGED <<requests, holds, length, ioVars, connVars, serverVars, shutdown>>

\* productionFirstHopLimiter.acquire never waits.
Acquire(r) ==
    /\ r \notin cancelled /\ slots < MaxSessions
    /\ slots' = slots + 1 /\ Take(r, "permit")

\* Not a candidate, or no permit: cover.
AcquireSessionAdmission(r) ==
    /\ pc[r] = "admit"
    /\ \/ Cover(r, "leave") /\ UNCHANGED <<holds, slots>>
       \/ Acquire(r) /\ At(r, "register") /\ UNCHANGED response
    /\ UNCHANGED <<requests, length, cancelled, ioVars, connVars, used, waitGroup, shutdown>>

\* The head of serveCandidate: the cancellation hook and the read deadline.
ArmHook(r) ==
    /\ after' = [after EXCEPT ![r] = "armed"]
    /\ Deadline(r, "read", "pre")
    /\ At(r, "prelude") /\ UNCHANGED response

\* Mutant: shuttingDown is not looked at.
RegisterAlways(r) ==
    /\ pc[r] = "register"
    /\ waitGroup' = waitGroup + 1 /\ Take(r, "session") /\ ArmHook(r)
    /\ UNCHANGED <<requests, length, cancelled, writing, connVars, slots, used, shutdown>>
RegisterSession(r) ==
    /\ pc[r] = "register"
    /\ \/ /\ shutdown = "serving"
          /\ waitGroup' = waitGroup + 1 /\ Take(r, "session") /\ ArmHook(r)
       \/ /\ shutdown # "serving"
          /\ Cover(r, "leave") /\ UNCHANGED <<holds, waitGroup, after, deadline>>
    /\ UNCHANGED <<requests, length, cancelled, writing, connVars, slots, used, shutdown>>
-----------------------------------------------------------------------------
(* serveCandidate.                                                         *)

\* productionFirstHopPreludeBudget.reserve.
Reserves(n) == n <= PreludeLimit /\ used <= PreludeLimit - n

\* ReadWithReservation: no record, no budget, a body that does not arrive, or a record.
ReadPrelude(r) ==
    /\ pc[r] = "prelude"
    /\ \/ Cover(r, "unwind") /\ UNCHANGED <<holds, length, used>>
       \/ \E n \in 1 .. MaxPreludeBytes :
             /\ Reserves(n)
             /\ used' = used + n /\ length' = [length EXCEPT ![r] = n] /\ Take(r, "budget")
             /\ \/ At(r, "begin") /\ UNCHANGED response
                \/ At(r, "truncated") /\ UNCHANGED response
    /\ UNCHANGED <<requests, cancelled, ioVars, connVars, slots, waitGroup, shutdown>>

ReleaseBudget(r) ==
    /\ used' = used - length[r] /\ length' = [length EXCEPT ![r] = 0]

ReadPreludeFails(r) ==
    /\ pc[r] = "truncated"
    /\ ReleaseBudget(r) /\ Drop(r, "budget") /\ Cover(r, "unwind")
    /\ UNCHANGED <<requests, cancelled, ioVars, connVars, slots, waitGroup, shutdown>>

\* Decode, binding and RelayDriver.Begin; the prelude is released in each case.
Begin(r) ==
    /\ pc[r] = "begin"
    /\ ReleaseBudget(r)
    /\ \/ Cover(r, "unwind") /\ Drop(r, "budget")
       \/ /\ r \notin cancelled
          /\ At(r, "commit") /\ UNCHANGED response
          /\ holds' = [holds EXCEPT ![r] = (@ \ {"budget"}) \cup {"handshake"}]
    /\ UNCHANGED <<requests, cancelled, ioVars, connVars, slots, waitGroup, shutdown>>

\* No room for Prelude1, or the server's write deadline is cleared and a look at
\* the context decides.
PrepareCommit(r) ==
    /\ pc[r] = "commit"
    /\ \/ Cover(r, "unwind") /\ UNCHANGED deadline
       \/ /\ Deadline(r, "write", "none")
          /\ \/ r \in cancelled /\ Cover(r, "unwind")
             \/ r \notin cancelled /\ At(r, "header") /\ UNCHANGED response
    /\ UNCHANGED <<requests, holds, length, cancelled, after, writing, connVars, serverVars, shutdown>>

\* commitFirstHopCarrierHeaders after its last look at the context.
CommitHeaders(r) ==
    /\ pc[r] = "header"
    /\ response' = [response EXCEPT ![r] = "carrier"] /\ At(r, "postRead")
    /\ UNCHANGED <<requests, holds, length, cancelled, ioVars, connVars, serverVars, shutdown>>

\* beginFirstHopPostHeader: each deadline is set after a look at the context.
PostHeader(r) ==
    /\ \/ pc[r] = "postRead" /\ r \notin cancelled /\ Deadline(r, "read", "post")
          /\ At(r, "postWrite") /\ UNCHANGED <<cancelled, response>>
       \/ pc[r] = "postWrite" /\ r \notin cancelled /\ Deadline(r, "write", "post")
          /\ At(r, "posted") /\ UNCHANGED <<cancelled, response>>
       \/ pc[r] = "posted" /\ r \notin cancelled
          /\ At(r, "exchange") /\ UNCHANGED <<cancelled, response, deadline>>
       \/ pc[r] \in {"postRead", "postWrite", "posted"}   \* or a deadline cannot be set
          /\ Abort(r) /\ UNCHANGED deadline
    /\ UNCHANGED <<requests, holds, length, after, writing, connVars, serverVars, shutdown>>

\* Prelude1 is written and Capsule1 read, or the session aborts.
Exchange(r) ==
    /\ pc[r] = "exchange"
    /\ Abort(r) \/ (At(r, "finish") /\ UNCHANGED <<cancelled, response>>)
    /\ UNCHANGED <<requests, holds, length, ioVars, connVars, serverVars, shutdown>>

\* RelayDriver.Finish: an application that comes with an error is closed.
Finish(r) ==
    /\ pc[r] = "finish"
    /\ \/ Abort(r) /\ UNCHANGED holds
       \/ Take(r, "app") /\ At(r, "factory") /\ UNCHANGED <<cancelled, response>>
       \/ Take(r, "app") /\ Abort(r)               \* Capsule2 is too long
    /\ UNCHANGED <<requests, length, ioVars, connVars, serverVars, shutdown>>

\* The session factory, if there is one, hands over the owner of the session's flows.
MakeSession(r) ==
    /\ pc[r] = "factory"
    /\ \/ Abort(r) /\ UNCHANGED holds
       \/ At(r, "capsule") /\ UNCHANGED <<cancelled, response>>
          /\ (Take(r, "owner") \/ UNCHANGED holds)
    /\ UNCHANGED <<requests, length, ioVars, connVars, serverVars, shutdown>>

\* Capsule2 is written before the post-header deadline, or the session aborts.
WriteCapsule(r) ==
    /\ pc[r] = "capsule"
    /\ \/ Abort(r)
       \/ r \notin cancelled /\ At(r, "clearRead") /\ UNCHANGED <<cancelled, response>>
    /\ UNCHANGED <<requests, holds, length, ioVars, connVars, serverVars, shutdown>>

\* The deadlines are cleared without another look at the context.
ClearDeadlines(r) ==
    /\ \/ pc[r] = "clearRead" /\ Deadline(r, "read", "none") /\ At(r, "clearWrite")
          /\ UNCHANGED <<cancelled, response>>
       \/ pc[r] = "clearWrite" /\ Deadline(r, "write", "none") /\ At(r, "duplex")
          /\ UNCHANGED <<cancelled, response>>
       \/ pc[r] \in {"clearRead", "clearWrite"} /\ Abort(r) /\ UNCHANGED deadline
    /\ UNCHANGED <<requests, holds, length, after, writing, connVars, serverVars, shutdown>>
-----------------------------------------------------------------------------
(* The packet duplex, as far as the carrier is concerned.                  *)

\* Mutant: the write pump does not look at its context before a write.
PumpWritesBlindly(r) ==
    /\ pc[r] = "duplex" /\ r \notin writing
    /\ writing' = writing \cup {r}
    /\ UNCHANGED <<requests, handlerVars, cancelled, after, deadline, connVars, serverVars, shutdown>>
\* The write pump looks at its context before each write.
PumpWrites(r) ==
    /\ pc[r] = "duplex" /\ r \notin writing \cup cancelled
    /\ writing' = writing \cup {r}
    /\ UNCHANGED <<requests, handlerVars, cancelled, after, deadline, connVars, serverVars, shutdown>>

\* The peer takes the record, or the deadline is over.
PumpWrote(r) ==
    /\ r \in writing
    /\ writing' = writing \ {r}
    /\ UNCHANGED <<requests, handlerVars, cancelled, after, deadline, connVars, serverVars, shutdown>>

\* A pump, the endpoint or the context ends the duplex; closing it cancels.
EndDuplex(r) ==
    /\ pc[r] = "duplex"
    /\ cancelled' = cancelled \cup {r} /\ At(r, "join")
    /\ UNCHANGED <<requests, holds, length, response, ioVars, connVars, serverVars, shutdown>>

JoinPumps(r) ==
    /\ pc[r] = "join" /\ r \notin writing /\ At(r, "unwind")
    /\ UNCHANGED <<requests, holds, length, response, cancelled, ioVars, connVars, serverVars, shutdown>>
-----------------------------------------------------------------------------
(* Deferred calls, cancellation and shutdown.                              *)

\* serveCandidate: owner, application and handshake are closed, and a running
\* cancellation hook is waited for.
Unwind(r) ==
    /\ pc[r] = "unwind" /\ holds' = [holds EXCEPT ![r] = @ \ {"owner", "app", "handshake"}]
    /\ At(r, "stopHook")
    /\ UNCHANGED <<requests, length, response, cancelled, ioVars, connVars, serverVars, shutdown>>

StopHook(r) ==
    /\ pc[r] = "stopHook"
    /\ \/ after[r] = "armed" /\ r \notin cancelled /\ after' = [after EXCEPT ![r] = "stopped"]
       \/ after[r] = "fired" /\ UNCHANGED after
    /\ At(r, "unregister")
    /\ UNCHANGED <<requests, holds, length, response, cancelled, deadline, writing, connVars,
                   serverVars, shutdown>>

UnregisterSession(r) ==
    /\ pc[r] = "unregister"
    /\ waitGroup' = waitGroup - 1 /\ Drop(r, "session") /\ At(r, "leave")
    /\ UNCHANGED <<requests, length, response, cancelled, ioVars, connVars, slots, used, shutdown>>

\* ServeHTTP: the permit, the context and the claim.
Leave(r) ==
    /\ pc[r] = "leave"
    /\ slots' = IF "permit" \in holds[r] THEN slots - 1 ELSE slots
    /\ Drop(r, "permit")
    /\ cancelled' = cancelled \cup {r}
    /\ active' = active \ {Conn(r)}
    /\ At(r, "done")
    /\ UNCHANGED <<requests, length, response, ioVars, observed, poisoned, used, waitGroup, shutdown>>

\* The request's context ends: reset by the peer, or lost with the connection.
PeerCancels(r) ==
    /\ pc[r] \notin {"idle", "done"} /\ r \notin cancelled
    /\ cancelled' = cancelled \cup {r}
    /\ UNCHANGED <<requests, handlerVars, ioVars, connVars, serverVars, shutdown>>

\* The AfterFunc: the read deadline, and the write deadline once headers are out.
CancellationHook(r) ==
    /\ r \in cancelled
    /\ \/ /\ after[r] = "armed"
          /\ Deadline(r, "read", "past")
          /\ after' = [after EXCEPT ![r] = IF response[r] = "carrier" THEN "write" ELSE "fired"]
       \/ /\ after[r] = "write"
          /\ Deadline(r, "write", "past")
          /\ after' = [after EXCEPT ![r] = "fired"]
    /\ UNCHANGED <<requests, handlerVars, cancelled, writing, connVars, serverVars, shutdown>>

\* FirstHopHandler.shutdown: sessions are refused, then those there are cancelled.
CancelSessions ==
    \/ shutdown = "serving" /\ shutdown' = "refusing" /\ UNCHANGED cancelled
    \/ /\ shutdown = "refusing" /\ shutdown' = "cancelled"
       /\ cancelled' = cancelled \cup {r \in requests : "session" \in holds[r]}

WaitForSessions ==
    shutdown = "cancelled" /\ waitGroup = 0 /\ shutdown' = "waited" /\ UNCHANGED cancelled

\* ProductionFirstHopServer.Shutdown: closes the connections if its time is up.
Shutdown ==
    /\ \/ CancelSessions \/ WaitForSessions
       \/ /\ shutdown = "cancelled" /\ shutdown' = "closed"
          /\ cancelled' = cancelled \cup {r \in requests : pc[r] \notin {"idle", "done"}}
    /\ UNCHANGED <<requests, handlerVars, ioVars, connVars, serverVars>>
-----------------------------------------------------------------------------
Handler(r) ==
    \/ EnterStream(r) \/ PriorCancel(r) \/ AcquireSessionAdmission(r) \/ RegisterSession(r)
    \/ ReadPrelude(r) \/ ReadPreludeFails(r) \/ Begin(r) \/ PrepareCommit(r) \/ CommitHeaders(r)
    \/ PostHeader(r) \/ Exchange(r) \/ Finish(r) \/ MakeSession(r)
    \/ WriteCapsule(r) \/ ClearDeadlines(r)
    \/ PumpWrites(r) \/ PumpWrote(r) \/ EndDuplex(r) \/ JoinPumps(r)
    \/ Unwind(r) \/ StopHook(r) \/ UnregisterSession(r) \/ Leave(r)

Next == Shutdown \/ \E r \in requests : Handler(r) \/ PeerCancels(r) \/ CancellationHook(r)

Spec == Init /\ [][Next]_vars
-----------------------------------------------------------------------------
Holding(what) == {r \in requests : what \in holds[r]}

TypeOK ==
    /\ \A r \in requests : holds[r] \subseteq {"permit", "session", "budget", "handshake", "app", "owner"}
    /\ slots \in 0 .. MaxSessions /\ used \in 0 .. PreludeLimit /\ waitGroup \in 0 .. Cardinality(requests)
    /\ cancelled \cup writing \subseteq requests

\* The limiter, the prelude budget and the wait group count exactly what handlers
\* hold on every path; no permit or budget is held while cover is served to a
\* finished request; once shutdown has waited, no session exists or will.
SessionsOwned ==
    /\ slots = Cardinality(Holding("permit"))
    /\ waitGroup = Cardinality(Holding("session"))
    /\ (Holding("budget") = {}) = (used = 0)
    /\ \A r \in requests : pc[r] = "done" => holds[r] = {}
    /\ \A r \in requests : response[r] = "cover" => "budget" \notin holds[r]
    /\ shutdown = "waited" => Holding("session") \cup Holding("app") \cup Holding("owner") = {}

\* Cancellation reaches a session wherever it is: of a poisoned connection once
\* the poisoning stream is through, of every session once Shutdown has called the
\* cancel functions; and a cancelled session whose hook has run is in no carrier
\* read or write without a deadline.
CancelReaches ==
    /\ \A r \in requests :
          (Conn(r) \in poisoned /\ Stream(r) = 1 /\ "session" \in holds[r]
             /\ \A q \in requests : pc[q] # "poison") => r \in cancelled
    /\ shutdown \in {"cancelled", "waited", "closed"} => Holding("session") \subseteq cancelled
    /\ \A r \in requests : (after[r] = "fired" /\ r \in writing) => deadline[r].write # "none"
    /\ \A r \in requests : pc[r] \in {"exchange", "capsule"} =>
          deadline[r].read # "none" /\ deadline[r].write # "none"
=============================================================================
