--------------------------- MODULE HandshakeProofs ---------------------------
(***************************************************************************)
(* The session a client handshake makes has exactly one owner, for every   *)
(* number of goroutines that call Complete and Close.                      *)
(*                                                                         *)
(* SessionOwned is not inductive.  What it rests on: the first Complete to  *)
(* claim the handshake is the only one past the claim (OneClaim); there is *)
(* no session before its result is stored (StoredOnce); and a handshake    *)
(* that is closed while a session may still come has a caller that will    *)
(* wait for it (Watched).                                                  *)
(***************************************************************************)
EXTENDS ClientHandshake, FiniteSetTheorems, TLAPS

Places ==
    {"select", "idle", "claim", "supply", "wait", "close", "provider", "cancel", "join",
     "returned", "failed"}

Typed ==
    /\ pc \in [Callers -> Places]
    /\ connect \in {"first", "requesting", "awaiting", "second", "failed", "connected", "stored"}
    /\ session \in {"none", "open", "closed", "returned"}
    /\ done \in BOOLEAN /\ closed \in BOOLEAN /\ claimed \in BOOLEAN /\ shutdown \in BOOLEAN

\* At most one Complete is past the claim, and then the claim is taken.
OneClaim ==
    /\ \A c, d \in Completers :
           pc[c] \in {"supply", "wait", "returned"} /\ pc[d] \in {"supply", "wait", "returned"}
           => c = d
    /\ \A c \in Completers : pc[c] \in {"supply", "wait", "returned"} => claimed

\* Only completers wait for the result or are handed it.
CompletersWait ==
    \A c \in Callers : pc[c] \in {"claim", "supply", "wait"} => c \in Completers

StoredOnce ==
    /\ done <=> connect = "stored"
    /\ connect # "stored" => session = "none"

Returned == (session = "returned") <=> \E c \in Completers : pc[c] = "returned"

Watched ==
    closed => \/ done /\ session # "open"
              \/ \E c \in Callers : pc[c] \in {"provider", "cancel", "join"}

Wiped == shutdown => results = 0

Inv == Typed /\ OneClaim /\ CompletersWait /\ StoredOnce /\ Returned /\ Watched /\ Wiped

-----------------------------------------------------------------------------
\* Nothing has happened yet.
LEMMA InitInv == HandshakeAssumption /\ Init => Inv
  BY DEF HandshakeAssumption, Init, Inv, Typed, OneClaim, CompletersWait, StoredOnce, Returned,
         Watched, Wiped, Callers, Places

\* The Connect goroutine moves no caller, but for the Begin that takes its request,
\* and makes the session when it stores its result.
LEMMA ConnectInv ==
    ASSUME HandshakeAssumption, Inv, ConnectStep
    PROVE  Inv'
  <1> USE DEF HandshakeAssumption, Callers
  <1>1. CASE ConnectFails \/ ReachesProofs \/ AbandonProofs \/ Connects
    BY <1>1 DEF Inv, ConnectFails, ReachesProofs, AbandonProofs, Connects, Handle, Typed, OneClaim,
           CompletersWait, StoredOnce, Returned, Watched, Wiped
  <1>2. CASE SendRequest
    <2>1. \A c \in Completers \cup Closers : pc'[c] = pc[c]
      BY <1>2 DEF Inv, Typed, SendRequest, At
    <2>2. pc' \in [Callers -> Places] /\ pc'["begin"] = "returned" /\ pc["begin"] = "select"
      BY <1>2 DEF Inv, Typed, SendRequest, At, Places
    <2> QED
      BY <1>2, <2>1, <2>2 DEF Inv, SendRequest, Handle, Typed, OneClaim, CompletersWait, StoredOnce,
             Returned, Watched, Wiped
  <1>3. CASE ReceiveProofs
    BY <1>3 DEF Inv, ReceiveProofs, Typed, OneClaim, CompletersWait, StoredOnce, Returned, Watched,
           Wiped
  <1>4. CASE storeResult
    BY <1>4 DEF Inv, storeResult, Handle, Typed, OneClaim, CompletersWait, StoredOnce, Returned,
           Watched, Wiped
  <1> QED
    BY <1>1, <1>2, <1>3, <1>4 DEF ConnectStep

\* Begin that finds Connect over, or its context ended.
LEMMA BeginInv ==
    ASSUME HandshakeAssumption, Inv, BeginDone \/ BeginContextDone
    PROVE  Inv'
  <1> USE DEF HandshakeAssumption, Callers
  <1>1. /\ \A c \in Completers \cup Closers : pc'[c] = pc[c]
        /\ pc' \in [Callers -> Places]
        /\ pc["begin"] = "select" /\ pc'["begin"] \in {"failed", "close"}
    BY DEF Inv, Typed, BeginDone, BeginContextDone, At, Places
  <1>2. CASE BeginDone
    BY <1>1, <1>2 DEF Inv, BeginDone, CloseResult, Typed, OneClaim, CompletersWait, StoredOnce,
           Returned, Watched, Wiped
  <1>3. CASE BeginContextDone
    BY <1>1, <1>3 DEF Inv, BeginContextDone, Handle, Typed, OneClaim, CompletersWait, StoredOnce,
           Returned, Watched, Wiped
  <1> QED
    BY <1>2, <1>3

\* A caller that moves leaves the others where they are.
LEMMA Moves ==
    ASSUME Typed, NEW c \in Callers, NEW next \in Places, At(c, next)
    PROVE  /\ pc' \in [Callers -> Places] /\ pc'[c] = next
           /\ \A d \in Callers : d # c => pc'[d] = pc[d]
  BY DEF Typed, At

\* Complete up to the point where it waits.
LEMMA ClaimInv ==
    ASSUME HandshakeAssumption, Inv, NEW c \in Callers,
           claimCompletion(c) \/ complete(c) \/ CompleteEnters(c)
    PROVE  Inv'
  <1> USE DEF HandshakeAssumption, Callers
  <1>1. CASE claimCompletion(c)
    <2> DEFINE next == IF closed \/ claimed THEN "failed" ELSE "supply"
    <2>1. next \in Places /\ At(c, next) /\ pc[c] = "claim"
      BY <1>1 DEF claimCompletion, Places
    <2>2. /\ pc' \in [Callers -> Places] /\ pc'[c] = next
          /\ \A d \in Callers : d # c => pc'[d] = pc[d]
      BY <2>1, Moves DEF Inv
    <2> QED
      BY <1>1, <2>1, <2>2 DEF Inv, claimCompletion, Typed, OneClaim, CompletersWait, StoredOnce,
             Returned, Watched, Wiped
  <1>2. CASE complete(c)
    <2> DEFINE next == IF ~ shutdown /\ results = 0 THEN "wait" ELSE "close"
    <2>1. next \in Places /\ At(c, next) /\ pc[c] = "supply"
      BY <1>2 DEF complete, Places
    <2>2. /\ pc' \in [Callers -> Places] /\ pc'[c] = next
          /\ \A d \in Callers : d # c => pc'[d] = pc[d]
      BY <2>1, Moves DEF Inv
    <2> QED
      BY <1>2, <2>1, <2>2 DEF Inv, complete, Typed, OneClaim, CompletersWait, StoredOnce,
             Returned, Watched, Wiped
  <1>3. CASE CompleteEnters(c)
    <2> DEFINE next == IF c \in ended THEN "close" ELSE "claim"
    <2>1. next \in Places /\ At(c, next) /\ pc[c] = "idle" /\ c \in Completers
      BY <1>3 DEF CompleteEnters, Places
    <2>2. /\ pc' \in [Callers -> Places] /\ pc'[c] = next
          /\ \A d \in Callers : d # c => pc'[d] = pc[d]
      BY <2>1, Moves DEF Inv
    <2> QED
      BY <1>3, <2>1, <2>2 DEF Inv, CompleteEnters, Handle, Typed, OneClaim, CompletersWait,
             StoredOnce, Returned, Watched, Wiped
  <1> QED
    BY <1>1, <1>2, <1>3

\* Complete that is woken by the end of Connect: the session is returned only while
\* nobody has closed the handshake, and closed otherwise.
LEMMA CompleteDoneInv ==
    ASSUME HandshakeAssumption, Inv, NEW c \in Callers, CompleteDone(c)
    PROVE  Inv'
  <1> USE DEF HandshakeAssumption, Callers
  <1> DEFINE next == IF ~ closed /\ session = "open" THEN "returned" ELSE "failed"
  <1>1. next \in Places /\ At(c, next) /\ pc[c] = "wait" /\ c \in Completers
    BY DEF CompleteDone, Places, Inv, CompletersWait
  <1>2. /\ pc' \in [Callers -> Places] /\ pc'[c] = next
        /\ \A d \in Callers : d # c => pc'[d] = pc[d]
    BY <1>1, Moves DEF Inv
  <1>3. done /\ done' /\ connect' = connect /\ closed' = TRUE /\ claimed' = claimed
        /\ shutdown' = shutdown /\ results' = results
    BY DEF CompleteDone
  <1>4. \A d \in Completers : pc[d] # "returned"
    BY <1>1 DEF Inv, OneClaim
  <1>5. CASE ~ closed /\ session = "open"
    <2>1. session' = "returned" /\ pc'[c] = "returned"
      BY <1>2, <1>5 DEF CompleteDone
    <2> QED
      BY <1>1, <1>2, <1>3, <2>1 DEF Inv, Typed, OneClaim, CompletersWait, StoredOnce, Returned,
             Watched, Wiped
  <1>6. CASE ~ (~ closed /\ session = "open")
    <2>1. session' = (IF session = "open" THEN "closed" ELSE session) /\ pc'[c] = "failed"
      BY <1>2, <1>6 DEF CompleteDone, CloseResult
    <2> QED
      BY <1>1, <1>2, <1>3, <1>4, <2>1 DEF Inv, Typed, OneClaim, CompletersWait, StoredOnce,
             Returned, Watched, Wiped
  <1> QED
    BY <1>5, <1>6

\* Close, and the ways into it.
LEMMA CloseInv ==
    ASSUME HandshakeAssumption, Inv, NEW c \in Callers,
           \/ CompleteContextDone(c) \/ CloseCalled(c) \/ CloseMarks(c) \/ CloseProvider(c)
           \/ CloseCancels(c) \/ CloseJoins(c)
    PROVE  Inv'
  <1> USE DEF HandshakeAssumption, Callers
  <1>1. \E next \in Places :
            /\ At(c, next) /\ next \notin {"returned", "supply", "wait", "claim"}
            /\ CompleteContextDone(c) \/ CloseCalled(c) => next = "close"
            /\ CloseMarks(c) => next = IF closed THEN "failed" ELSE "provider"
            /\ CloseProvider(c) => next = "cancel"
            /\ CloseCancels(c) => next = "join"
    <2>1. CASE CompleteContextDone(c) \/ CloseCalled(c)
      BY <2>1 DEF Places, CompleteContextDone, CloseCalled, CloseMarks, CloseProvider, CloseCancels
    <2>2. CASE CloseMarks(c)
      BY <2>2 DEF Places, CompleteContextDone, CloseCalled, CloseMarks, CloseProvider, CloseCancels
    <2>3. CASE CloseProvider(c)
      BY <2>3 DEF Places, CompleteContextDone, CloseCalled, CloseMarks, CloseProvider, CloseCancels
    <2>4. CASE CloseCancels(c)
      BY <2>4 DEF Places, CompleteContextDone, CloseCalled, CloseMarks, CloseProvider, CloseCancels
    <2>5. CASE CloseJoins(c)
      BY <2>5 DEF Places, CompleteContextDone, CloseCalled, CloseMarks, CloseProvider, CloseCancels,
             CloseJoins
    <2> QED
      BY <2>1, <2>2, <2>3, <2>4, <2>5
  <1>2. PICK next \in Places :
            /\ pc' \in [Callers -> Places] /\ pc'[c] = next
            /\ \A d \in Callers : d # c => pc'[d] = pc[d]
            /\ next \notin {"returned", "supply", "wait", "claim"}
            /\ CompleteContextDone(c) \/ CloseCalled(c) => next = "close"
            /\ CloseMarks(c) => next = IF closed THEN "failed" ELSE "provider"
            /\ CloseProvider(c) => next = "cancel"
            /\ CloseCancels(c) => next = "join"
    BY <1>1, Moves DEF Inv
  <1>3. pc[c] # "returned" /\ claimed' = claimed
    BY DEF CompleteContextDone, CloseCalled, CloseMarks, CloseProvider, CloseCancels, CloseJoins,
           Handle
  <1>4. OneClaim' /\ CompletersWait'
    BY <1>2, <1>3 DEF Inv, OneClaim, CompletersWait
  <1>5. connect' = connect /\ done' = done
    BY DEF CompleteContextDone, CloseCalled, CloseMarks, CloseProvider, CloseCancels, CloseJoins,
           Handle
  <1>6. Wiped'
    BY DEF CompleteContextDone, CloseCalled, CloseMarks, CloseProvider, CloseCancels, CloseJoins,
           Handle, Inv, Wiped
  <1>7. closed' \in BOOLEAN /\ shutdown' \in BOOLEAN
    BY DEF CompleteContextDone, CloseCalled, CloseMarks, CloseProvider, CloseCancels, CloseJoins,
           Handle, Inv, Typed
  <1>8. session' = session \/ (session = "open" /\ session' = "closed")
    BY DEF CompleteContextDone, CloseCalled, CloseMarks, CloseProvider, CloseCancels, CloseJoins,
           CloseResult
  <1>9. Typed' /\ StoredOnce'
    BY <1>2, <1>3, <1>5, <1>7, <1>8 DEF Inv, Typed, StoredOnce
  <1>10. Returned'
    BY <1>2, <1>3, <1>8 DEF Inv, Returned
  <1>11. Watched'
    <2>1. CASE CompleteContextDone(c) \/ CloseCalled(c)
      <3>1. pc[c] \in {"wait", "idle"} /\ closed' = closed /\ session' = session
        BY <2>1 DEF CompleteContextDone, CloseCalled, Handle
      <3> QED
        BY <1>2, <1>5, <3>1 DEF Inv, Watched
    <2>2. CASE CloseMarks(c)
      <3>1. /\ pc[c] = "close" /\ pc'[c] = IF closed THEN "failed" ELSE "provider"
            /\ session' = session
        BY <1>2, <2>2 DEF CloseMarks
      <3> QED
        BY <1>2, <1>5, <3>1 DEF Inv, Watched
    <2>3. CASE CloseProvider(c) \/ CloseCancels(c)
      BY <1>2, <2>3 DEF Watched
    <2>4. CASE CloseJoins(c)
      BY <2>4 DEF CloseJoins, CloseResult, Watched
    <2> QED
      BY <2>1, <2>2, <2>3, <2>4
  <1> QED
    BY <1>4, <1>6, <1>9, <1>10, <1>11 DEF Inv

\* Every step keeps the invariant.
LEMMA NextInv ==
    ASSUME HandshakeAssumption, Inv, [Next]_vars
    PROVE  Inv'
  <1>1. CASE ConnectStep
    BY <1>1, ConnectInv
  <1>2. ASSUME NEW c \in Callers, CallerStep(c) PROVE Inv'
    BY <1>2, BeginInv, ClaimInv, CompleteDoneInv, CloseInv DEF CallerStep
  <1>3. ASSUME NEW c \in Callers, ContextEnds(c) PROVE Inv'
    BY <1>3 DEF Inv, ContextEnds, Typed, OneClaim, CompletersWait, StoredOnce, Returned, Watched,
           Wiped
  <1>4. ASSUME NEW c \in Callers, CompleteEnters(c) \/ CloseCalled(c) PROVE Inv'
    BY <1>4, ClaimInv, CloseInv
  <1>5. CASE UNCHANGED vars
    BY <1>5 DEF Inv, vars, Typed, OneClaim, CompletersWait, StoredOnce, Returned, Watched, Wiped
  <1> QED
    BY <1>1, <1>2, <1>3, <1>4, <1>5 DEF Next

\* The invariant gives the property.
LEMMA InvOwned ==
    ASSUME Inv
    PROVE  SessionOwned
  <1> DEFINE back == {c \in Completers : pc[c] = "returned"}
  <1>1. Cardinality(back) <= 1
    <2>1. CASE back = {}
      BY <2>1, FS_EmptySet
    <2>2. CASE back # {}
      <3>1. PICK c : c \in back
        BY <2>2
      <3>2. back = {c}
        BY <3>1 DEF Inv, OneClaim
      <3>3. Cardinality({c}) = 1
        BY FS_Singleton
      <3> QED
        BY <3>2, <3>3
    <2> QED
      BY <2>1, <2>2
  <1>2. closed /\ (\A c \in Callers : pc[c] \in {"idle", "returned", "failed"}) =>
            done /\ session # "open"
    BY DEF Inv, Watched
  <1> QED
    BY <1>1, <1>2 DEF Inv, Returned, Wiped, SessionOwned

\* However many goroutines call Complete and Close, and whenever: the session that
\* Connect made is returned by at most one Complete or is closed by the handshake, and
\* no proofs stay behind in the provider (handshake/client_resume.go).
THEOREM OwnedOnce == HandshakeAssumption => (Spec => []SessionOwned)
  <1> SUFFICES ASSUME HandshakeAssumption PROVE Spec => []SessionOwned
    OBVIOUS
  <1>1. Init => Inv
    BY InitInv
  <1>2. Inv /\ [Next]_vars => Inv'
    BY NextInv
  <1>3. Inv => SessionOwned
    BY InvOwned
  <1> QED
    BY <1>1, <1>2, <1>3, PTL DEF Spec
=============================================================================
