------------------------------ MODULE Wallet ------------------------------
(***************************************************************************)
(* The provisioning wallet of the Linux client.  A wallet file holds       *)
(* one-time entries; every session attempt of aurorac takes an entry and   *)
(* records it in a state file before anything is sent.  The state file is  *)
(* shared by all processes started with it: a transaction locks, reloads,  *)
(* updates, prunes and replaces it by rename, then syncs the directory.    *)
(* A process re-reads its wallet file only when it starts, and takes the   *)
(* time of an attempt before it waits for the lock.                        *)
(*                                                                         *)
(* The state remembers which wallet file it is about by a digest, and      *)
(* forgets its reservations when a process brings another one.             *)
(*                                                                         *)
(* Assumed of the system: the clock does not go back, rename is atomic, a  *)
(* lock is released when its holder dies, and until the directory is       *)
(* synced a power loss may leave any state renamed into place since.       *)
(***************************************************************************)
EXTENDS Naturals, Sequences, FiniteSets

CONSTANTS
    Processes,      \* runs of aurorac that share the state file
    Entries,        \* spent-hint keys of one-time entries
    Expiry,         \* Expiry[e]: when the access hint of e expires
    Sources,        \* wallet files (identified by their digests)
    Contents,       \* Contents[s]: the entries of wallet file s, in order
    MaxEntries,     \* maximumProvisioningWalletStateEntries
    MaxTime,        \* bound: the clock
    None

WalletAssumption ==
    /\ Expiry \in [Entries -> Nat]
    /\ Contents \in [Sources -> Seq(Entries)]
    /\ MaxEntries \in Nat /\ MaxTime \in Nat
    /\ None \notin Processes \cup Sources \cup Entries

VARIABLES
    now,        \* the clock
    source,     \* the wallet file in place
    disk,       \* the state file in place: its digest and reservations
    survivors,  \* the states a power loss may leave
    lock,       \* the process that holds the lock file
    pc,         \* pc[p]: where p is in its recovery loop
    wallet,     \* wallet[p]: digest and remaining entries p has in memory
    at,         \* at[p]: the time p's attempt started
    taken,      \* taken[p]: the entry p's attempt reserved
    begun,      \* history: begun[e], sessions started with e (2 is "many")
    valid       \* history: those started before e expired

vars == <<now, source, disk, survivors, lock, pc, wallet, at, taken, begun, valid>>
history == <<begun, valid>>

NoWallet == [digest |-> None, left |-> <<>>]
States == [digest : Sources \cup {None}, reserved : SUBSET Entries]

\* A missing file, or one in the format that had no digest.  What an earlier
\* version reserved it has used.
Init ==
    /\ now = 0
    /\ source \in Sources
    /\ disk \in [digest : {None}, reserved : SUBSET Entries]
    /\ Cardinality(disk.reserved) <= MaxEntries
    /\ survivors = {disk}
    /\ lock = None
    /\ pc = [p \in Processes |-> "down"]
    /\ wallet = [p \in Processes |-> NoWallet]
    /\ at = [p \in Processes |-> 0]
    /\ taken = [p \in Processes |-> None]
    /\ begun = [e \in Entries |-> IF e \in disk.reserved THEN 1 ELSE 0]
    /\ valid = begun
-----------------------------------------------------------------------------
(* The state file.                                                         *)

Unexpired(set, t) == {e \in set : Expiry[e] > t}

prune(state, t) == [state EXCEPT !.reserved = Unexpired(@, t)]

\* Mutant: a state without a digest is bound like a foreign one.
BindForgettingLegacy(state, s) ==
    [digest |-> s, reserved |-> IF state.digest # s THEN {} ELSE state.reserved]
bindSourceDigest(state, s) ==
    [digest |-> s,
     reserved |-> IF state.digest \notin {None, s} THEN {} ELSE state.reserved]

HasRoom(state) == Cardinality(state.reserved) < MaxEntries
Add(state, e) == [state EXCEPT !.reserved = @ \cup {e}]
-----------------------------------------------------------------------------
(* One process: load the wallet, then reserve and run sessions until one   *)
(* ends for good.                                                          *)

Down(p) ==
    /\ pc' = [pc EXCEPT ![p] = "down"]
    /\ wallet' = [wallet EXCEPT ![p] = NoWallet]
    /\ at' = [at EXCEPT ![p] = 0]
    /\ taken' = [taken EXCEPT ![p] = None]

Unlock(p) == lock' = IF lock = p THEN None ELSE lock

Start(p) ==
    /\ pc[p] = "down"
    /\ pc' = [pc EXCEPT ![p] = "ready"]
    /\ wallet' = [wallet EXCEPT ![p] = [digest |-> source, left |-> Contents[source]]]
    /\ UNCHANGED <<now, source, disk, survivors, lock, at, taken, history>>

\* The attempt reads the clock, then waits for the lock.
BeginAttempt(p) ==
    /\ pc[p] = "ready"
    /\ pc' = [pc EXCEPT ![p] = "waiting"]
    /\ at' = [at EXCEPT ![p] = now]
    /\ UNCHANGED <<now, source, disk, survivors, lock, wallet, taken, history>>

\* The state the transaction works on.
Loaded(p) == bindSourceDigest(prune(disk, at[p]), wallet[p].digest)

\* Wallet.Reserve may take the i-th remaining entry: it is neither reserved nor
\* expired.  Usable entries before it did not parse.
Usable(p, i) ==
    /\ wallet[p].left[i] \notin Loaded(p).reserved
    /\ Expiry[wallet[p].left[i]] > at[p]

\* Transact up to the rename, under the lock.
Transact(p) ==
    /\ pc[p] = "waiting" /\ lock = None
    /\ \E i \in 1 .. Len(wallet[p].left) :
        LET left == wallet[p].left
            e == left[i]
            state == prune(Add(Loaded(p), e), at[p])
        IN /\ Usable(p, i) /\ HasRoom(Loaded(p))
           /\ disk' = state
           /\ survivors' = survivors \cup {state}
           /\ taken' = [taken EXCEPT ![p] = e]
           /\ wallet' = [wallet EXCEPT ![p].left = SubSeq(left, i + 1, Len(left))]
    /\ lock' = p
    /\ pc' = [pc EXCEPT ![p] = "renamed"]
    /\ UNCHANGED <<now, source, at, history>>

\* No entry is usable, the state is full, or a file operation before the
\* rename fails: the command ends.
ReserveFails(p) ==
    /\ pc[p] = "waiting" /\ lock = None
    /\ Down(p)
    /\ UNCHANGED <<now, source, disk, survivors, lock, history>>

SyncDirectory(p) ==
    /\ pc[p] = "renamed"
    /\ survivors' = {disk}
    /\ lock' = None
    /\ pc' = [pc EXCEPT ![p] = "reserved"]
    /\ UNCHANGED <<now, source, disk, wallet, at, taken, history>>

\* The reservation is in place, but the caller gets an error and drops it.
SyncFails(p) ==
    /\ pc[p] = "renamed"
    /\ lock' = None
    /\ Down(p)
    /\ UNCHANGED <<now, source, disk, survivors, history>>

Counted(n) == IF n = 2 THEN 2 ELSE n + 1

\* The session starts: from here on the entry may have been transmitted.
BeginSession(p) ==
    /\ pc[p] = "reserved"
    /\ pc' = [pc EXCEPT ![p] = "session"]
    /\ begun' = [begun EXCEPT ![taken[p]] = Counted(@)]
    /\ valid' = IF Expiry[taken[p]] > now THEN [valid EXCEPT ![taken[p]] = Counted(@)] ELSE valid
    /\ UNCHANGED <<now, source, disk, survivors, lock, wallet, at, taken>>

\* A carrier failure: after the backoff the loop takes another entry.
SessionLost(p) ==
    /\ pc[p] = "session"
    /\ pc' = [pc EXCEPT ![p] = "ready"]
    /\ at' = [at EXCEPT ![p] = 0]
    /\ taken' = [taken EXCEPT ![p] = None]
    /\ UNCHANGED <<now, source, disk, survivors, lock, wallet, history>>

\* A session that ends for good, and a process that is killed anywhere.
Stop(p) ==
    /\ pc[p] # "down"
    /\ Unlock(p)
    /\ Down(p)
    /\ UNCHANGED <<now, source, disk, survivors, history>>
-----------------------------------------------------------------------------
(* The environment.                                                        *)

PowerLoss ==
    /\ disk' \in survivors
    /\ survivors' = {disk'}
    /\ lock' = None
    /\ pc' = [p \in Processes |-> "down"]
    /\ wallet' = [p \in Processes |-> NoWallet]
    /\ at' = [p \in Processes |-> 0]
    /\ taken' = [p \in Processes |-> None]
    /\ UNCHANGED <<now, source, history>>

\* The operator replenishes the wallet: another file is put in place.
ReplaceSource ==
    /\ source' \in Sources \ {source}
    /\ UNCHANGED <<now, disk, survivors, lock, pc, wallet, at, taken, history>>

Tick ==
    /\ now < MaxTime
    /\ now' = now + 1
    /\ UNCHANGED <<source, disk, survivors, lock, pc, wallet, at, taken, history>>

Step(p) ==
    \/ Start(p) \/ BeginAttempt(p) \/ Transact(p) \/ ReserveFails(p)
    \/ SyncDirectory(p) \/ SyncFails(p) \/ BeginSession(p) \/ SessionLost(p)
    \/ Stop(p)

Next == PowerLoss \/ Tick \/ (\E p \in Processes : Step(p))
Spec == Init /\ [][Next]_vars

\* The same system with an operator who replaces the wallet file.
NextReplaced == Next \/ ReplaceSource
SpecReplaced == Init /\ [][NextReplaced]_vars
-----------------------------------------------------------------------------
\* Types, and the limit of the state file, which its parser enforces: a state
\* above the limit could never be loaded again.
TypeOK ==
    /\ now \in 0 .. MaxTime /\ source \in Sources
    /\ disk \in States /\ survivors \subseteq States /\ disk \in survivors
    /\ \A d \in survivors : Cardinality(d.reserved) <= MaxEntries
    /\ lock \in Processes \cup {None}
    /\ pc \in [Processes -> {"down", "ready", "waiting", "renamed", "reserved", "session"}]
    /\ \A p \in Processes : wallet[p].digest \in Sources \cup {None}
    /\ at \in [Processes -> 0 .. MaxTime]
    /\ taken \in [Processes -> Entries \cup {None}]
    /\ begun \in [Entries -> 0 .. 2] /\ valid \in [Entries -> 0 .. 2]

\* An entry starts at most one session while its access hint is valid, whatever
\* the processes, crashes, power losses and the migration of an old state do
\* (runWithProvisioningWallet over Store.Reserve).
UsedOnceWhileValid == \A e \in Entries : valid[e] <= 1

\* An entry is never used twice at all.  The code allows it: an attempt that
\* read the clock just before an entry expired can get the lock after another
\* process pruned the entry's reservation, and then takes the entry again.
NeverReused == \A e \in Entries : begun[e] <= 1
=============================================================================
