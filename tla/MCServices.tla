----------------------------- MODULE MCServices ------------------------------
(***************************************************************************)
(* What admission rests on, explored side by side: the encoding of records *)
(* and the padding that brings them into their envelopes, the derivation   *)
(* of keys, the trust in signed seeds and provisioning bundles, and the    *)
(* issuer. The parts share no state: a behaviour is one of one part, and   *)
(* the variables of the others stay unused.                                *)
(***************************************************************************)
EXTENDS Naturals, Sequences, FiniteSets, TLC

VARIABLES
    part,   \* the part of the program this behaviour is of
    message, value, wire, stage, intact, result, x, was, changed, steps, promoted,
    accepted, now, bundle, verified, metadata, service, backend, cancelled, slots,
    cache, call, ask, acks, body, attempt, padding, previous, outcome, length

(* Authority keys and signed seeds. *)
Key(owner, material, status, uses, from, until) ==
    [owner |-> owner, id |-> material, material |-> material, status |-> status, uses |-> uses,
     from |-> from, until |-> until]
Seed(id, name, signer, bootstrap, updates, from, until) ==
    [id |-> id, name |-> name, signer |-> signer, signedBy |-> signer, bootstrap |-> bootstrap,
     updates |-> updates, from |-> from, until |-> until]

SeedRoot == Key("o1", "r", "active", {"seed"}, 0, 9)
Second == Key("o1", "k", "active", {"seed"}, 0, 5)

(* Seeds that bring a second key, revoke it, bring it back, claim it or the root for another
   owner, are signed with it, or carry a signature that does not verify. *)
TenSeeds ==
    {Seed("s1", "s1", "r", {Second}, {}, 0, 4),
     Seed("s2", "s2", "r", {}, {[Second EXCEPT !.status = "revoked"]}, 1, 5),
     Seed("s2", "s2x", "k", {}, {Second}, 1, 5),
     Seed("s3", "s3", "r", {Second}, {}, 0, 5),
     Seed("s4", "s4", "k", {[Second EXCEPT !.owner = "o2"]}, {}, 0, 5),
     Seed("s5", "s5", "k", {}, {Key("o1", "m", "active", {"metadata"}, 1, 4)}, 0, 5),
     Seed("s6", "s6", "r", {}, {[SeedRoot EXCEPT !.owner = "o2"]}, 0, 5),
     Seed("s7", "s7", "k", {}, {Second}, 2, 5),
     [Seed("s8", "s8", "r", {}, {Second}, 0, 5) EXCEPT !.signedBy = "z"],
     Seed("s9", "s9", "r", {SeedRoot}, {Second}, 0, 3)}

(* Two operators who share a root, a template authority, a relay bucket and their dates. *)
Operators == {"red", "blue"}
BundleRoot == Key("o1", "r", "active", {"seed"}, 0, 6)
MetadataAuthority == Key("o1", "a", "active", {"metadata"}, 0, 5)

SeedOf(o) ==
    [operator |-> o, id |-> o, name |-> <<"seed", o>>, signer |-> "r", signedBy |-> "r",
     bootstrap |-> {MetadataAuthority}, updates |-> {}, from |-> 0, until |-> 5,
     metadata |-> <<"meta", o>>, template |-> <<"tmpl", o>>, issuer |-> <<"issuer", o>>]
MetadataOf(o) ==
    [operator |-> o, name |-> <<"meta", o>>, issuer |-> <<"issuer", o>>, signer |-> "a",
     signature |-> "a", from |-> 1, until |-> 4, services |-> {"v"}, proofTypes |-> {"blindRSA"},
     tokenKeys |-> {[type |-> "blindRSA", from |-> 0, until |-> 4]},
     scopes |-> {[bucket |-> "b", from |-> 0, until |-> 9]}]
HintOf(o) == [operator |-> o, issuer |-> <<"issuer", o>>, bucket |-> "b", until |-> 3]
DescriptorOf(o) ==
    [operator |-> o, name |-> <<"desc", o>>, from |-> 0, until |-> 5,
     epoch |-> [from |-> 0, until |-> 4], replayUntil |-> 5,
     longterm |-> [pq |-> FALSE, material |-> <<"lt", o>>],
     longtermPQ |-> [pq |-> TRUE, material |-> <<"ltpq", o>>],
     signature |-> <<"lt", o>>, signaturePQ |-> <<"ltpq", o>>, suites |-> {"768AES"},
     methods |-> {"h2"}, templates |-> {<<"tmpl", o>>}]
TemplateOf(o) ==
    [operator |-> o, name |-> <<"tmpl", o>>, from |-> 2, until |-> 5, commitment |-> "c",
     origin |-> "c", maxRequest |-> 1600, maxResponse |-> 7000, consumesLocally |-> TRUE,
     classes |-> {[id |-> 1, type |-> "gateway", prelude |-> TRUE, capsule |-> TRUE, method |-> "h2"],
                  [id |-> 2, type |-> "passThrough", prelude |-> FALSE, capsule |-> FALSE,
                   method |-> "h2"]},
     familySignature |-> "ta", instanceSignature |-> <<<<"desc", o>>, <<"lt", o>>>>]
Offer == [suites |-> {"768AES", "1024AES"}, methods |-> {"h2"}, policies |-> {"daily"}]

MixedBundles ==
    {[seed |-> SeedOf(s), metadata |-> MetadataOf(m), hint |-> HintOf(h),
      descriptor |-> DescriptorOf(d), descriptorHash |-> <<"desc", p>>, template |-> TemplateOf(t),
      templateKey |-> "ta", class |-> class, suite |-> suite, offer |-> Offer] :
        s \in Operators, m \in Operators, h \in Operators, d \in Operators, p \in Operators,
        t \in Operators, class \in {1, 2}, suite \in {"768AES", "1024AES"}}
BothDeployments == {<<<<"desc", o>>, <<"tmpl", o>>, "ta">> : o \in Operators}

(* Issuer metadata in which the issuer's own key, the relay's scope, or the service ends first. *)
TokenKey(type, id, status, until) ==
    [type |-> type, id |-> id, status |-> status, from |-> 1, until |-> until]
Metadata(keys, scopeUntil, services, active) ==
    [from |-> 1, until |-> 5, keys |-> keys,
     scopes |-> {[bucket |-> "b", id |-> "s", allowed |-> {1}, from |-> 1, until |-> scopeUntil]},
     policies |-> {[id |-> 1, origin |-> "o", empty |-> FALSE, from |-> 1, until |-> 5]},
     services |-> services, active |-> active]
Verifier == [id |-> "v", status |-> "active", buckets |-> {"b"}, from |-> 1, until |-> 4]
BothKeys(until) == {TokenKey("rsa", "own", "active", until), TokenKey("voprf", "w", "active", 5)}

IssuerMetadatas ==
    {Metadata({TokenKey("rsa", "own", "active", 4), TokenKey("rsa", "old", "retiring", 3)}, 3, {},
              {"r1", "r2"}),
     Metadata(BothKeys(5), 5, {Verifier}, {"a1", "a2"}),
     Metadata(BothKeys(3), 3, {Verifier}, {"r1", "c1", "c2", "a1"})}
-----------------------------------------------------------------------------
(* Every record of the program, each field at its boundaries. *)
Codec == INSTANCE WireCodec WITH
    Crowd <- 5, MaxVarint <- 2147483646, MaxFrameBlockFrames <- 4,
    maximumSignedSeedAuthorityKeys <- 3

(* Sessions that differ in two inputs, under three suites. *)
Schedule == INSTANCE KeySchedule WITH
    Suites <- {"768AES", "768ChaCha", "1024AES"}, Depth <- 2

(* A daemon that is handed the ten seeds, in any order and repeatedly. *)
Trust == INSTANCE SeedTrust WITH
    Roots <- {SeedRoot}, Seeds <- TenSeeds, MaxTime <- 5

(* Bundles put together from the objects of two operators. *)
Bundle == INSTANCE Provisioning WITH
    Roots <- {BundleRoot}, Seeds <- {}, MaxTime <- 5, Bundles <- MixedBundles,
    Deployments <- BothDeployments, Skew <- 1

(* An issuer and its verifier service while their metadata runs out. *)
Issue == INSTANCE Issuer WITH
    Metadatas <- IssuerMetadatas, Requests <- {"r1", "r2"}, Calls <- {"c1", "c2"},
    Asks <- {"a1", "a2"}, EpochUntil <- [k |-> 3], MaxConcurrentIssues <- 1,
    Grace <- 1, Window <- 2, Hold <- 1, MaxTime <- 5

(* Every envelope and body of up to nine bytes, with a guard of two. *)
Pad == INSTANCE BootstrapPadding WITH
    Envelopes <- (0 .. 9) \X (0 .. 9), Bases <- 1 .. 10, Shorter <- 0 .. 3,
    maxBootstrapRecordBodyBytes <- 8, maxPaddingAttempts <- 4,
    preludeSignatureSizeGuard <- 2, MaxPadding <- 6
-----------------------------------------------------------------------------
ASSUME Codec!WireAssumption
ASSUME Pad!PaddingAssumption

Unused == "unused"

(* The variables that one part, or several, use; unused in the others. *)
CodecVars == <<message, value, wire, stage, intact, result>>
CodecOff ==
    /\ message = Unused /\ value = Unused /\ wire = Unused /\ stage = Unused
    /\ intact = Unused /\ result = Unused
ScheduleVars == <<x, was, changed, steps>>
ScheduleOff ==
    /\ x = Unused /\ was = Unused /\ changed = Unused /\ steps = Unused
TrustBundleVars == <<promoted, accepted>>
TrustBundleOff ==
    /\ promoted = Unused /\ accepted = Unused
TrustBundleIssueVars == <<now>>
TrustBundleIssueOff == now = Unused
BundleVars == <<bundle, verified>>
BundleOff ==
    /\ bundle = Unused /\ verified = Unused
IssueVars == <<metadata, service, backend, cancelled, slots, cache, call, ask, acks>>
IssueOff ==
    /\ metadata = Unused /\ service = Unused /\ backend = Unused
    /\ cancelled = Unused /\ slots = Unused /\ cache = Unused /\ call = Unused
    /\ ask = Unused /\ acks = Unused
PadVars == <<body, attempt, padding, previous, outcome, length>>
PadOff ==
    /\ body = Unused /\ attempt = Unused /\ padding = Unused /\ previous = Unused
    /\ outcome = Unused /\ length = Unused

CodecInit ==
    /\ part = "codec"
    /\ Codec!Init
    /\ ScheduleOff /\ TrustBundleOff /\ TrustBundleIssueOff /\ BundleOff /\ IssueOff
    /\ PadOff
CodecNext ==
    /\ part = "codec"
    /\ Codec!Next
    /\ UNCHANGED <<part, ScheduleVars, TrustBundleVars, TrustBundleIssueVars,
                   BundleVars, IssueVars, PadVars>>

ScheduleInit ==
    /\ part = "keys"
    /\ Schedule!Init
    /\ CodecOff /\ TrustBundleOff /\ TrustBundleIssueOff /\ BundleOff /\ IssueOff
    /\ PadOff
ScheduleNext ==
    /\ part = "keys"
    /\ Schedule!Next
    /\ UNCHANGED <<part, CodecVars, TrustBundleVars, TrustBundleIssueVars,
                   BundleVars, IssueVars, PadVars>>

TrustInit ==
    /\ part = "seeds"
    /\ Trust!Init
    /\ CodecOff /\ ScheduleOff /\ BundleOff /\ IssueOff /\ PadOff
TrustNext ==
    /\ part = "seeds"
    /\ Trust!Next
    /\ UNCHANGED <<part, CodecVars, ScheduleVars, BundleVars, IssueVars, PadVars>>

BundleInit ==
    /\ part = "bundles"
    /\ Bundle!ProvisioningInit
    /\ CodecOff /\ ScheduleOff /\ IssueOff /\ PadOff
BundleNext ==
    /\ part = "bundles"
    /\ Bundle!ProvisioningNext
    /\ UNCHANGED <<part, CodecVars, ScheduleVars, IssueVars, PadVars>>

IssueInit ==
    /\ part = "issuer"
    /\ Issue!Init
    /\ CodecOff /\ ScheduleOff /\ TrustBundleOff /\ BundleOff /\ PadOff
IssueNext ==
    /\ part = "issuer"
    /\ Issue!Next
    /\ UNCHANGED <<part, CodecVars, ScheduleVars, TrustBundleVars, BundleVars, PadVars>>

PadInit ==
    /\ part = "padding"
    /\ Pad!PaddingInit
    /\ CodecOff /\ ScheduleOff /\ TrustBundleOff /\ TrustBundleIssueOff /\ BundleOff
    /\ IssueOff
PadNext ==
    /\ part = "padding"
    /\ Pad!PaddingNext
    /\ UNCHANGED <<part, CodecVars, ScheduleVars, TrustBundleVars,
                   TrustBundleIssueVars, BundleVars, IssueVars>>

vars == <<part, CodecVars, ScheduleVars, TrustBundleVars, TrustBundleIssueVars,
          BundleVars, IssueVars, PadVars>>

Init == CodecInit \/ ScheduleInit \/ TrustInit \/ BundleInit \/ IssueInit \/ PadInit
Next == CodecNext \/ ScheduleNext \/ TrustNext \/ BundleNext \/ IssueNext \/ PadNext

Spec == Init /\ [][Next]_vars
-----------------------------------------------------------------------------


(* Once a signed seed has revoked a key, only an update in a seed not accepted
   before makes it usable again, whatever seeds the store is given. *)
RevocationHolds == [][part = "seeds" => Trust!RevocationKept]_vars

(* A bundle whose objects were made for different operators never validates. *)
NoMixing == part = "bundles" => Bundle!NoMixing


=============================================================================
