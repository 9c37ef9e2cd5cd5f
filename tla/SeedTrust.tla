------------------------------- MODULE SeedTrust -------------------------------
(***************************************************************************)
(* trust.SignedSeedTrustStore: pinned roots, and the authority keys that   *)
(* seeds signed by an already trusted key promote.  The issuer daemon keeps *)
(* one store for its life; a client makes a fresh one for every bundle it  *)
(* validates (Provisioning).                                               *)
(*                                                                         *)
(* An authority key record has the authority it speaks for ("owner"), the  *)
(* id derived from its public key, the key itself ("material"), a validity *)
(* window, a status and its usages.  A signature is the material that made *)
(* it: it verifies under that key alone.  "name" stands for the hash of a  *)
(* record, which every byte of it decides.                                 *)
(***************************************************************************)
EXTENDS Naturals, FiniteSets, TLAPS

CONSTANTS
    Roots,      \* the pinned bootstrap roots
    Seeds,      \* the signed seeds that are offered
    MaxTime

VARIABLES
    promoted,   \* the keys seeds brought in
    accepted,   \* the names of the seeds accepted so far, by seed id
    now

vars == <<promoted, accepted, now>>
-----------------------------------------------------------------------------
Within(record, time) == record.from <= time /\ time < record.until

Usable(key, time, use) ==
    /\ Within(key, time)
    /\ key.status \in {"active", "retiring"}
    /\ use \subseteq key.uses

AuthorityKeyID(material) == material

validateAuthorityKeyID(key) == key.id = AuthorityKeyID(key.material)

SignerIdentity(key) == key.id
RecordIdentity(key) == <<key.owner, key.id>>

(* Two records of one signer identity. *)
Duplicates(keys) ==
    \E k, l \in keys : k # l /\ SignerIdentity(k) = SignerIdentity(l)

Locate(keys, key) == {k \in keys : RecordIdentity(k) = RecordIdentity(key)}

LocateAuthorityKeyByID(keys, id, time, use) ==
    {k \in keys : k.id = id /\ Usable(k, time, use)}

ValidateStructural(seed, time) ==
    /\ Within(seed, time)
    /\ ~Duplicates(seed.bootstrap)
    /\ ~Duplicates(seed.updates)
    /\ \A k \in seed.bootstrap, l \in seed.updates : SignerIdentity(k) # SignerIdentity(l)

VerifySignedSeedRecord(seed, keys, time) ==
    /\ ValidateStructural(seed, time)
    /\ ~Duplicates(keys)
    /\ \A k \in seed.bootstrap \cup seed.updates : validateAuthorityKeyID(k)
    /\ LET matches == LocateAuthorityKeyByID(keys, seed.signer, time, {"seed"})
       IN  /\ Cardinality(matches) = 1
           /\ \A k \in matches : validateAuthorityKeyID(k) /\ seed.signedBy = k.material

(* What a bootstrap list adds; a listed key that is known must be the same record. *)
BootstrapAgrees(keys, additions) == \A k \in additions : Locate(keys, k) \subseteq {k}

addSignedSeedBootstrapKeys(keys, additions) ==
    keys \cup {k \in additions : Locate(Roots \cup keys, k) = {}}

(* What updates do: they replace what was promoted, and never a pinned root. *)
UpdatesAllowed(updates) == \A k \in updates : Locate(Roots, k) = {}

applySignedSeedAuthorityUpdates(keys, updates) ==
    {k \in keys : Locate(updates, k) = {}} \cup updates

Promotion(keys, seed) ==
    applySignedSeedAuthorityUpdates(addSignedSeedBootstrapKeys(keys, seed.bootstrap), seed.updates)

Promotable(keys, seed, time) ==
    /\ VerifySignedSeedRecord(seed, Roots \cup keys, time)
    /\ BootstrapAgrees(Roots \cup keys, seed.bootstrap)
    /\ UpdatesAllowed(seed.updates)
    /\ ~Duplicates(Roots \cup Promotion(keys, seed))

NewSignedSeedTrustStore == Roots # {} /\ (\A k \in Roots : validateAuthorityKeyID(k)) /\ ~Duplicates(Roots)
-----------------------------------------------------------------------------
Init ==
    /\ NewSignedSeedTrustStore
    /\ promoted = {}
    /\ accepted = {}
    /\ now = 0

(* Accept without the look at what was accepted: for comparison with Accept. *)
AcceptAgain(seed) ==
    /\ Promotable(promoted, seed, now)
    /\ promoted' = Promotion(promoted, seed)
    /\ accepted' = accepted \cup {<<seed.id, seed.name>>}
    /\ UNCHANGED now

(* A call that promotes.  A seed accepted before is answered with success and
   changes nothing; another seed of its id, and whatever fails a check, is
   refused and changes nothing. *)
Accept(seed) ==
    /\ \A pair \in accepted : pair[1] # seed.id
    /\ Promotable(promoted, seed, now)
    /\ promoted' = Promotion(promoted, seed)
    /\ accepted' = accepted \cup {<<seed.id, seed.name>>}
    /\ UNCHANGED now

Tick ==
    /\ now < MaxTime
    /\ now' = now + 1
    /\ UNCHANGED <<promoted, accepted>>

Next ==
    \/ \E seed \in Seeds : Accept(seed)
    \/ Tick

Spec == Init /\ [][Next]_vars
-----------------------------------------------------------------------------
Revoked == {RecordIdentity(k) : k \in {l \in promoted : l.status = "revoked"}}

(* Once a seed has revoked a key, only an update in a seed that was never
   accepted before makes it usable again: neither the bootstrap list of any
   seed nor a replay of the seed that first brought the key does. *)
RevocationKept ==
    \A id \in Revoked \ Revoked' :
        \E seed \in Seeds :
            /\ id \in {RecordIdentity(k) : k \in seed.updates}
            /\ <<seed.id, seed.name>> \in accepted' \ accepted
-----------------------------------------------------------------------------
(* Proofs, for every set of roots and seeds.  A revocation can be undone only
   by a promotion, and a promotion keeps every record its updates do not name. *)

\* A promotion keeps every record but those its updates replace: neither the bootstrap
\* list nor an update for another record touches it.
LEMMA PromotionKeeps ==
    ASSUME NEW keys, NEW seed, NEW k \in keys,
           \A u \in seed.updates : RecordIdentity(u) # RecordIdentity(k)
    PROVE  k \in Promotion(keys, seed)
  BY DEF Promotion, applySignedSeedAuthorityUpdates, addSignedSeedBootstrapKeys, Locate

\* A step that ends a revocation accepts a seed whose updates name the record.
LEMMA AcceptKeeps ==
    ASSUME NEW seed \in Seeds, Accept(seed), NEW id \in Revoked \ Revoked'
    PROVE  /\ id \in {RecordIdentity(k) : k \in seed.updates}
           /\ <<seed.id, seed.name>> \in accepted' \ accepted
  <1>1. PICK k \in promoted : k.status = "revoked" /\ RecordIdentity(k) = id
    BY DEF Revoked
  <1>2. k \notin promoted'
    BY <1>1 DEF Revoked
  <1>3. promoted' = Promotion(promoted, seed)
    BY DEF Accept
  <1>4. \E u \in seed.updates : RecordIdentity(u) = RecordIdentity(k)
    BY <1>2, <1>3, PromotionKeeps
  <1>5. <<seed.id, seed.name>> \notin accepted
    BY DEF Accept
  <1>6. <<seed.id, seed.name>> \in accepted'
    BY DEF Accept
  <1> QED
    BY <1>1, <1>4, <1>5, <1>6

\* Once a signed seed has revoked a key, only an update in a seed that was never
\* accepted before ends the revocation, whatever seeds the store is given and in
\* whatever order (SignedSeedTrustStore.Accept).
THEOREM RevocationStands == Spec => [][RevocationKept]_vars
  <1>1. ASSUME [Next]_vars PROVE [RevocationKept]_vars
    <2>1. CASE \E seed \in Seeds : Accept(seed)
      BY <2>1, AcceptKeeps DEF RevocationKept
    <2>2. CASE Tick
      BY <2>2 DEF Tick, RevocationKept, Revoked
    <2> QED
      BY <1>1, <2>1, <2>2 DEF Next
  <1> QED
    BY <1>1, PTL DEF Spec
=============================================================================
