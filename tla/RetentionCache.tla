-------------------------- MODULE RetentionCache --------------------------
(***************************************************************************)
(* admission.RetentionFileReplayCache: the durable set of spent one-time   *)
(* credentials, shared by processes that open the same directory entry.    *)
(* A record is appended and synced before a spend is acknowledged; records *)
(* past their retention deadline, and a record torn by a crash, are        *)
(* removed by rewriting the file.  An operation holds an exclusive file    *)
(* lock, so it is one action; what a failure or a crash inside it leaves   *)
(* behind is the action's outcome.                                         *)
(*                                                                         *)
(* Each process parses only what was appended since its last load.  It     *)
(* recognises a replaced file by its identity, its size and a generation   *)
(* number, since the file system may reuse identities.                     *)
(*                                                                         *)
(* Assumed of the file system: rename is atomic, and syncing a file also   *)
(* persists its directory entry.                                           *)
(***************************************************************************)
EXTENDS Integers, Sequences, FiniteSets

CONSTANTS
    Processes,      \* processes that open the cache
    Keys,           \* spent keys of one-time credentials
    Expiry,         \* Expiry[k]: when the credential of k expires
    Grace,          \* replayCacheRetentionGraceSeconds
    MaxLag,         \* how far a process's clock reading may lag behind
    MaxTime,        \* bound: the clock
    MaxGeneration,  \* the last generation (MaxUint64 in the code)
    Inodes,         \* identities of files
    None

RetentionAssumption ==
    /\ Expiry \in [Keys -> 1 .. MaxTime + 1]
    /\ Grace \in Nat /\ MaxTime \in Nat /\ MaxGeneration \in Nat
    /\ MaxLag \in Nat /\ MaxLag <= Grace
    /\ None \notin Int

VARIABLES
    now,        \* the clock
    file,       \* the data file: identity, terminated records, torn tail
    generation, \* the generation file
    durable,    \* the data file as it was last synced
    replaced,   \* earlier data files a power loss may bring back
    up,         \* processes that have the cache open
    seen,       \* seen[p][k]: deadline resident in p, or None
    loaded,     \* loaded[p]: identity, size and generation p has parsed
    admitted    \* history: admitted[k], how often a spend of k was acknowledged

vars == <<now, file, generation, durable, replaced, up, seen, loaded, admitted>>
diskVars == <<file, generation, durable, replaced>>

Forever == MaxTime + Grace + 2  \* MaxUint64: a record without a deadline
LongPast == 0                   \* a deadline that lost its last digits
Deadlines == 0 .. Forever

\* Mutant: a record is kept only while the credential is valid.
DeadlineWithoutGrace(k) == Expiry[k]
\* RetentionDeadline of the credential's expiry.
Deadline(k) == Expiry[k] + Grace

NoTail == [kind |-> "none", key |-> None, until |-> None]
Garbage == [kind |-> "garbage", key |-> None, until |-> None]

\* What is left of a record whose write was cut: nothing that parses, the key
\* alone, the key with a shortened deadline, or all but the newline.
TornForms(r) ==
    {Garbage} \cup
    {[kind |-> "record", key |-> r.key, until |-> u] : u \in {Forever, LongPast, r.until}}

Unloaded == [id |-> None, size |-> 0, generation |-> 0]
Nothing == [k \in Keys |-> None]

Init ==
    /\ now = 1
    /\ \E i \in Inodes : file = [id |-> i, recs |-> <<>>, torn |-> NoTail, corrupt |-> FALSE]
    /\ generation = 0
    /\ durable = file
    /\ replaced = {}
    /\ up = {}
    /\ seen = [p \in Processes |-> Nothing]
    /\ loaded = [p \in Processes |-> Unloaded]
    /\ admitted = [k \in Keys |-> 0]

\* The clock readings an operation may carry when it gets the lock.
Readings == {r \in 1 .. now : now - r <= MaxLag}

---------------------------------------------------------------------------
(* load.                                                                   *)

\* The file was replaced or truncated behind p's handle.
Replaced(l) ==
    \/ l.id = None
    \/ generation # l.generation
    \/ file.id # l.id
    \/ Len(file.recs) < l.size

Last(S) == CHOOSE i \in S : \A j \in S : j <= i

\* consume: parse the records after the first n, and the torn tail.
Consume(s, n) ==
    [k \in Keys |->
        LET records == {i \in (n + 1) .. Len(file.recs) : file.recs[i].key = k}
        IN  IF file.torn.kind = "record" /\ file.torn.key = k THEN file.torn.until
            ELSE IF records # {} THEN file.recs[Last(records)].until
            ELSE s[k]]

Loaded(p) ==
    IF Replaced(loaded[p]) THEN Consume(Nothing, 0) ELSE Consume(seen[p], loaded[p].size)

\* minDeadline <= nowUnix.
HasExpired(s, r) == \E k \in Keys : s[k] # None /\ s[k] <= r

\* expireLoaded.
ExpireLoaded(s, r) == [k \in Keys |-> IF s[k] # None /\ s[k] <= r THEN None ELSE s[k]]

Torn == file.torn.kind # "none"

\* expired || torn: the file is rewritten rather than appended to.
Compacts(s, r) == HasExpired(s, r) \/ Torn

\* loadedInfo, loadedSize and loadedGeneration after a load.
Current == [id |-> file.id, size |-> Len(file.recs), generation |-> generation]

---------------------------------------------------------------------------
(* append and rewrite, by outcome.                                         *)

Record(k, u) == [key |-> k, until |-> u]

\* append: outcome "ok" after the sync; "unsynced" when the record was written
\* and the sync failed; "torn" when the write was cut; "nothing" before it.
Append1(p, r, outcome) ==
    /\ outcome \in {"ok", "unsynced", "torn", "nothing"}
    /\ \E tail \in IF outcome = "torn" THEN TornForms(r) ELSE {NoTail} :
          file' = IF outcome = "nothing" THEN file
                  ELSE [file EXCEPT !.recs = IF outcome = "torn" THEN @ ELSE Append(@, r),
                                    !.torn = tail,
                                    !.corrupt = @ \/ Torn]
    /\ durable' = IF outcome = "ok" THEN file' ELSE durable
    /\ replaced' = IF outcome = "ok" THEN {} ELSE replaced
    /\ loaded' = [loaded EXCEPT ![p] =
                     [Current EXCEPT !.size = IF outcome = "ok" THEN @ + 1 ELSE @]]
    /\ UNCHANGED generation

\* The records of s, in an order that does not matter: one per key.
Sorted(s) ==
    CHOOSE q \in UNION {[1 .. n -> {Record(k, s[k]) : k \in {j \in Keys : s[j] # None}}] : n \in 0 .. Cardinality(Keys)} :
        /\ Len(q) = Cardinality({k \in Keys : s[k] # None})
        /\ \A i, j \in DOMAIN q : q[i] = q[j] => i = j

\* rewrite: outcome "generation" when it failed after advanceGeneration, and
\* "unsynced" when it failed after the rename.
Rewrite(p, s, outcome) ==
    LET exhausted == generation = MaxGeneration
        advanced == outcome # "nothing" /\ ~exhausted
        renamed == outcome \in {"ok", "unsynced"} /\ ~exhausted
    IN  /\ outcome \in {"ok", "unsynced", "generation", "nothing"}
        /\ generation' = IF advanced THEN generation + 1 ELSE generation
        /\ \E i \in Inodes \ {file.id} :
              file' = IF renamed
                      THEN [id |-> i, recs |-> Sorted(s), torn |-> NoTail, corrupt |-> FALSE]
                      ELSE file
        /\ durable' = IF renamed THEN file' ELSE durable
        /\ replaced' = IF ~renamed THEN replaced
                       ELSE IF outcome = "ok" THEN {} ELSE replaced \cup {durable}
        /\ loaded' = [loaded EXCEPT ![p] =
                         IF renamed THEN [Unloaded EXCEPT !.generation = generation + 1]
                         ELSE Current]

---------------------------------------------------------------------------
(* Operations.                                                             *)

\* NewRetentionFileReplayCacheAt, with nothing to compact.
Open(p, r) ==
    /\ p \notin up
    /\ ~file.corrupt
    /\ LET s == Consume(Nothing, 0)
       IN  /\ ~Compacts(s, r)
           /\ seen' = [seen EXCEPT ![p] = s]
    /\ loaded' = [loaded EXCEPT ![p] = Current]
    /\ up' = up \cup {p}
    /\ replaced' = {}
    /\ UNCHANGED <<now, file, generation, durable, admitted>>

\* NewRetentionFileReplayCacheAt, compacting; an error leaves the cache closed.
OpenCompacting(p, r, outcome) ==
    /\ p \notin up
    /\ ~file.corrupt
    /\ LET s == Consume(Nothing, 0)
       IN  /\ Compacts(s, r)
           /\ Rewrite(p, ExpireLoaded(s, r), outcome)
           /\ IF outcome = "ok" /\ generation # MaxGeneration
              THEN /\ seen' = [seen EXCEPT ![p] = ExpireLoaded(s, r)]
                   /\ up' = up \cup {p}
              ELSE UNCHANGED <<seen, up>>
    /\ UNCHANGED <<now, admitted>>

\* InsertIfAbsentUntil of a key that is resident after the load.
InsertDuplicate(p, k, r) ==
    /\ p \in up
    /\ ~file.corrupt
    /\ r < Expiry[k]
    /\ LET s == ExpireLoaded(Loaded(p), r)
       IN  /\ s[k] # None
           /\ seen' = [seen EXCEPT ![p] = s]
    /\ loaded' = [loaded EXCEPT ![p] = Current]
    /\ UNCHANGED <<now, diskVars, up, admitted>>

\* InsertIfAbsentUntil of a fresh key.  The spend is acknowledged on success
\* only; after an error the key stays resident in this process.
InsertIfAbsentUntil(p, k, r, outcome) ==
    /\ p \in up
    /\ ~file.corrupt
    /\ r < Expiry[k]
    /\ LET old == Loaded(p)
           s == ExpireLoaded(old, r)
           new == [s EXCEPT ![k] = Deadline(k)]
           compact == Compacts(old, r)
       IN  /\ s[k] = None
           /\ seen' = [seen EXCEPT ![p] = new]
           /\ IF compact THEN Rewrite(p, new, outcome) ELSE Append1(p, Record(k, Deadline(k)), outcome)
           /\ admitted' = [admitted EXCEPT ![k] =
                  IF outcome = "ok" /\ ~(compact /\ generation = MaxGeneration) THEN @ + 1 ELSE @]
    /\ UNCHANGED <<now, up>>

\* Close, or the process dies.
Close(p) ==
    /\ p \in up
    /\ up' = up \ {p}
    /\ seen' = [seen EXCEPT ![p] = Nothing]
    /\ loaded' = [loaded EXCEPT ![p] = Unloaded]
    /\ UNCHANGED <<now, diskVars, admitted>>

\* What the data file may hold after a power loss.
Survivors ==
    replaced \cup {durable, file} \cup
    UNION {{[file EXCEPT !.recs = SubSeq(@, 1, n), !.torn = t] : t \in TornForms(file.recs[n + 1])} :
           n \in Len(durable.recs) .. (Len(file.recs) - 1)}

PowerLoss ==
    /\ file' \in Survivors
    /\ durable' = file'
    /\ replaced' = {}
    /\ up' = {}
    /\ seen' = [p \in Processes |-> Nothing]
    /\ loaded' = [p \in Processes |-> Unloaded]
    /\ UNCHANGED <<now, generation, admitted>>

Tick ==
    /\ now < MaxTime
    /\ now' = now + 1
    /\ UNCHANGED <<diskVars, up, seen, loaded, admitted>>

Outcomes == {"ok", "unsynced", "torn", "generation", "nothing"}

Next ==
    \/ \E p \in Processes, r \in Readings :
          \/ Open(p, r)
          \/ \E outcome \in Outcomes : OpenCompacting(p, r, outcome)
          \/ \E k \in Keys :
                \/ InsertDuplicate(p, k, r)
                \/ \E outcome \in Outcomes : InsertIfAbsentUntil(p, k, r, outcome)
    \/ \E p \in Processes : Close(p)
    \/ PowerLoss
    \/ Tick

Spec == Init /\ [][Next]_vars

---------------------------------------------------------------------------
(* Properties.                                                             *)

Records == [key : Keys, until : Deadlines]
Tails == {NoTail, Garbage} \cup [kind : {"record"}, key : Keys, until : Deadlines]
Files == [id : Inodes, recs : Seq(Records), torn : Tails, corrupt : BOOLEAN]

\* Type invariant.
TypeOK ==
    /\ now \in 1 .. MaxTime
    /\ {file, durable} \cup replaced \subseteq Files
    /\ generation \in 0 .. MaxGeneration
    /\ up \subseteq Processes
    /\ seen \in [Processes -> [Keys -> Deadlines \cup {None}]]
    /\ loaded \in [Processes -> [id : Inodes \cup {None}, size : Nat, generation : 0 .. MaxGeneration]]
    /\ admitted \in [Keys -> Nat]

\* A credential is admitted at most once, by whatever processes, across crashes,
\* failed writes, compactions, power losses and the expiry of its record, as
\* long as clock readings do not lag by more than the grace period.
AdmittedOnce == \A k \in Keys : admitted[k] <= 1

\* Key k is found in file f, with a deadline at least as late as its own.
Holds(f, k) ==
    \/ \E i \in DOMAIN f.recs : f.recs[i].key = k /\ f.recs[i].until >= Deadline(k)
=============================================================================
