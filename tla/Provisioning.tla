----------------------------- MODULE Provisioning -----------------------------
(***************************************************************************)
(* client/native_provisioning.go and trust/deployment.go: what a client    *)
(* verifies before it uses a provisioning bundle, at parse time and again  *)
(* at every use (the driver's configuration, the carrier opener, a         *)
(* reservation from the wallet).  The bundle's objects come from different *)
(* signers; the roots and the deployments a client trusts come from        *)
(* outside the bundle.                                                     *)
(*                                                                         *)
(* Every object has a ghost "operator": the one it was made for.  No check *)
(* reads it.                                                               *)
(***************************************************************************)
EXTENDS SeedTrust

CONSTANTS
    Bundles,       \* the bundles offered
    Deployments,   \* the trusted <<descriptor, template, template authority key>>
    Skew           \* nativeTemplateFutureSkew

VARIABLES
    bundle,        \* the bundle in hand
    verified       \* what the last validation returned: the time it was made, or Refused

provisioningVars == <<promoted, accepted, now, bundle, verified>>

Refused == 999

ProductionSuites == {"768AES", "768P256AES", "1024AES", "768ChaCha", "768P256ChaCha", "1024ChaCha"}
LargeSuites == {"1024AES", "1024ChaCha"}
ProductionMethods == {"h2", "h1ws", "shadow", "h3", "h3dgram", "masqueIP", "masqueUDP"}

Hash(record) == record.name
-----------------------------------------------------------------------------
(* trust/deployment.go *)
validateDeploymentDescriptor(d, time) ==
    /\ Within(d, time)
    /\ Within(d.epoch, time)
    /\ time < d.replayUntil
    /\ ~d.longterm.pq /\ d.longtermPQ.pq
    /\ d.suites # {} /\ d.methods # {} /\ d.templates # {}

ValidateCoverTemplateTime(t, time) ==
    /\ t.from < t.until
    /\ time + Skew >= t.from
    /\ time < t.until

ValidateRequestClass(class) ==
    /\ class.type \in {"passThrough", "gateway", "sidecar"}
    /\ class.type = "passThrough" => ~class.prelude /\ ~class.capsule

validateDeploymentTemplate(t, suite, time) ==
    /\ ValidateCoverTemplateTime(t, time)
    /\ t.commitment = t.origin
    /\ t.maxRequest >= (IF suite \in LargeSuites THEN 2048 ELSE 1536)
    /\ t.maxResponse >= (IF suite \in LargeSuites THEN 8192 ELSE 6144)
    /\ \A c, e \in t.classes : c # e => c.id # e.id
    /\ \A c \in t.classes :
          /\ ValidateRequestClass(c)
          /\ c.prelude \/ c.capsule => c.method \in ProductionMethods
          /\ c.type = "sidecar" => c.method = "shadow"
          /\ c.capsule /\ c.type \in {"gateway", "sidecar"} => t.consumesLocally

deploymentRequestClass(t, id) ==
    \E c \in t.classes : /\ c.id = id /\ c.type = "gateway"
                         /\ c.prelude /\ c.capsule /\ c.method = "h2"

VerifyRelayDeployment(d, t, trusted, classID, suite, time) ==
    /\ Hash(d) = trusted[1]
    /\ validateDeploymentDescriptor(d, time)
    /\ d.signature = d.longterm.material
    /\ d.signaturePQ = d.longtermPQ.material
    /\ validateDeploymentTemplate(t, suite, time)
    /\ Hash(t) \in d.templates
    /\ deploymentRequestClass(t, classID)
    /\ t.familySignature = trusted[3]
    /\ t.instanceSignature = <<Hash(d), d.longterm.material>>
    /\ suite \in d.suites
    /\ suite \in ProductionSuites
    /\ "h2" \in d.methods
-----------------------------------------------------------------------------
(* trust/issuer.go and the checks of the issuer's metadata *)
ValidateIssuerServiceAuthKeySeparation(m, keys, time) ==
    \A service \in m.services, k \in keys :
        Usable(k, time, {}) => service # k.material

VerifyIssuerMetadataSignature(m, keys, time) ==
    /\ Within(m, time)
    /\ ValidateIssuerServiceAuthKeySeparation(m, keys, time)
    /\ LET matches == LocateAuthorityKeyByID(keys, m.signer, time, {"metadata"})
       IN  Cardinality(matches) = 1 /\ \A k \in matches : m.signature = k.material

validateNativeIssuerMetadata(m, keys, time) ==
    /\ VerifyIssuerMetadataSignature(m, keys, time)
    /\ "blindRSA" \in m.proofTypes
    /\ \E k \in m.tokenKeys : k.type = "blindRSA" /\ Within(k, time)

validateNativeIssuerScope(m, hint, time) ==
    /\ m.issuer = hint.issuer
    /\ \E scope \in m.scopes : scope.bucket = hint.bucket /\ Within(scope, time)

validateNativePolicy(offer, suite) ==
    /\ suite \in offer.suites /\ "h2" \in offer.methods
    /\ offer.suites \subseteq ProductionSuites
    /\ offer.methods \subseteq ProductionMethods
    /\ "lab" \notin offer.policies
-----------------------------------------------------------------------------
(* The seed is accepted into a store that holds the roots alone. *)
verifiedSignedSeedAt(seed, time) == Promotable({}, seed, time)

validateNativeSeedIssuerMetadataBinding(seed, m) == seed.metadata = Hash(m)

authorizeDeployment(d, t, key) ==
    {trusted \in Deployments : trusted = <<Hash(d), Hash(t), key>>}

(* The seed's template commitment not compared: for comparison with authorizedDeployment. *)
AuthorizedWithoutSeed(b) ==
    IF b.descriptorHash = Hash(b.descriptor)
    THEN authorizeDeployment(b.descriptor, b.template, b.templateKey) ELSE {}

authorizedDeployment(b) ==
    IF b.seed.template = Hash(b.template) /\ b.descriptorHash = Hash(b.descriptor)
    THEN authorizeDeployment(b.descriptor, b.template, b.templateKey) ELSE {}

validatedObjectsAndDeploymentAt(b, time, requireUsableAccessHint) ==
    /\ requireUsableAccessHint => time < b.hint.until
    /\ verifiedSignedSeedAt(b.seed, time)
    /\ validateNativeSeedIssuerMetadataBinding(b.seed, b.metadata)
    /\ b.seed.issuer = b.hint.issuer
    /\ authorizedDeployment(b) # {}
    /\ validateNativeIssuerMetadata(b.metadata, Roots \cup Promotion({}, b.seed), time)
    /\ validateNativeIssuerScope(b.metadata, b.hint, time)
    /\ validateNativePolicy(b.offer, b.suite)
    /\ \E trusted \in authorizedDeployment(b) :
          VerifyRelayDeployment(b.descriptor, b.template, trusted, b.class, b.suite, time)
-----------------------------------------------------------------------------
ProvisioningInit ==
    /\ Init
    /\ bundle \in Bundles
    /\ verified = Refused

(* Parse, or any use of the bundle: each verifies all of it again at its own time. *)
Validate(requireUsableAccessHint) ==
    /\ verified' = IF validatedObjectsAndDeploymentAt(bundle, now, requireUsableAccessHint)
                   THEN now ELSE Refused
    /\ UNCHANGED <<promoted, accepted, now, bundle>>

Pass ==
    /\ Tick
    /\ UNCHANGED <<bundle, verified>>

ProvisioningNext ==
    \/ \E required \in BOOLEAN : Validate(required)
    \/ Pass

ProvisioningSpec == ProvisioningInit /\ [][ProvisioningNext]_provisioningVars
-----------------------------------------------------------------------------
(* A bundle whose objects were made for different operators never validates,
   even where the operators share roots, template authority, relay buckets
   and validity windows: the hashes in the seed, the issuer id, the
   deployment trust and the instance signature tie the seed, the issuer's
   metadata, the access hint, the descriptor and the template together. *)
NoMixing ==
    verified # Refused =>
        Cardinality({bundle.seed.operator, bundle.metadata.operator, bundle.hint.operator,
                     bundle.descriptor.operator, bundle.template.operator}) = 1
=============================================================================
