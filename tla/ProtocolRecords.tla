--------------------------- MODULE ProtocolRecords ---------------------------
(***************************************************************************)
(* The messages and signed records of protocol/*.go, each as the list of   *)
(* fields its EncodeTo writes ("enc") and the list its Decode function     *)
(* reads ("dec").  The two are written down separately because they are    *)
(* separate functions in the code: nothing but their agreement makes a     *)
(* message that was sent the message that is received.  WireCodec gives    *)
(* them meaning.                                                           *)
(*                                                                         *)
(* Fields: V a varint, U an unsigned integer of n bytes, B a bool, F an    *)
(* opaque of exactly n bytes, O an opaque with a length of n bytes, VV a   *)
(* vector of varints, FF a vector of n-byte opaques, R a nested record,    *)
(* L a vector of records, P a field after a presence flag.  A decoder      *)
(* refuses a vector of more elements than "min" bytes each would leave     *)
(* room for, or of more than "max".                                        *)
(***************************************************************************)
EXTENDS Naturals

CONSTANTS
    MaxFrameBlockFrames,              \* 4096 in the code
    maximumSignedSeedAuthorityKeys    \* 64 in the code

NoLimit == 1000000

V(name) == [name |-> name, kind |-> "varint"]
U(name, n) == [name |-> name, kind |-> "uint", n |-> n]
B(name) == [name |-> name, kind |-> "bool"]
F(name, n) == [name |-> name, kind |-> "fixed", n |-> n]
O(name, n) == [name |-> name, kind |-> "opaque", n |-> n]
R(name, type) == [name |-> name, kind |-> "record", type |-> type]
P(name, field) == [name |-> name, kind |-> "present", of |-> field]
Vector(name, field, min, max) ==
    [name |-> name, kind |-> "vector", of |-> field, min |-> min, max |-> max]
VV(name) == Vector(name, V(name), 1, NoLimit)
FF(name, n, min) == Vector(name, F(name, n), min, NoLimit)
L(name, type, min) == Vector(name, R(name, type), min, NoLimit)
Limited(name, type, min, max) == Vector(name, R(name, type), min, max)

Message(enc, dec) == [enc |-> enc, dec |-> dec]

(* The smallest encoding of each vector element, as the code states it. *)
ExtensionMinimum == 5
RoutingRecordMinimum == 2 + 1 + 1 + 2 + 1 + 8 + 8
IssuerTokenKeyMinimum == 1 + 32 + 1 + 2 + 8 + 8 + 1
OriginInfoPolicyMinimum == 1 + 2 + 1 + 8 + 8
RelayBucketScopeMinimum == 16 + 16 + 1 + 8 + 8
AuxiliaryBindingMinimum == 1 + 1 + 2 + 1
VerifierServiceMinimum == 16 + 1 + 1 + RoutingRecordMinimum + 1 + 1 + 2 + 1 + 1 + 1 + 8 + 8 + 1
AllowedRelayBucketIDMinimum == 16
SignatureEntryMinimum == 16 + 16 + 1 + 1 + 2
RequestClassMinimum == 1 + 1 + 1 + 16 + 1 + 1 + 1 + 1
PreHashMinimum == 48

(***** types.go: the extension carried by most messages. *****)
Extension == Message(
    <<V("ExtensionType"), B("Critical"), O("Body", 3)>>,
    <<V("ExtensionType"), B("Critical"), O("Body", 3)>>)


(***** records.go: public keys, authority keys, signatures. *****)
PublicKeyRecord == Message(
    <<V("SignatureScheme"), V("KeyEncoding"), O("PublicKey", 2)>>,
    <<V("SignatureScheme"), V("KeyEncoding"), O("PublicKey", 2)>>)

AuthorityKeyRecord == Message(
    <<F("AuthorityID", 16), F("AuthorityKeyID", 16), V("AuthorityRole"),
      R("PublicKey", "PublicKeyRecord"), U("ValidFromUnix", 8), U("ValidUntilUnix", 8),
      U("KeyStatus", 1), U("UsageFlags", 4)>>,
    <<F("AuthorityID", 16), F("AuthorityKeyID", 16), V("AuthorityRole"),
      R("PublicKey", "PublicKeyRecord"), U("ValidFromUnix", 8), U("ValidUntilUnix", 8),
      U("KeyStatus", 1), U("UsageFlags", 4)>>)

ObjectSignature == Message(
    <<F("SignerKeyID", 16), V("SignatureScheme"), V("KeyEncoding"), O("Signature", 2)>>,
    <<F("SignerKeyID", 16), V("SignatureScheme"), V("KeyEncoding"), O("Signature", 2)>>)

TokenVerificationKeyRecord == Message(
    <<V("TokenVerificationKeyScheme"), O("TokenVerificationKey", 2)>>,
    <<V("TokenVerificationKeyScheme"), O("TokenVerificationKey", 2)>>)


(***** signed_seed.go: the seed a client is provisioned with. *****)
SignedSeedRecord == Message(
    <<V("SeedVersion"), F("SeedID", 16), U("ValidFromUnix", 8), U("ValidUntilUnix", 8),
      O("DirectoryConsensusHint", 2), O("BridgeBucketHint", 2), O("TokenIssuerHint", 2),
      F("IssuerMetadataHash", 48), L("BootstrapAuthorityKeys", "AuthorityKeyRecord", 1),
      F("BootstrapCoverTemplateHash", 48), L("AuthorityKeyUpdates", "AuthorityKeyRecord", 1),
      F("NextSeedCommitment", 48), U("SoftwareUpdateEpoch", 8),
      R("SeedSignature", "ObjectSignature")>>,
    <<V("SeedVersion"), F("SeedID", 16), U("ValidFromUnix", 8), U("ValidUntilUnix", 8),
      O("DirectoryConsensusHint", 2), O("BridgeBucketHint", 2), O("TokenIssuerHint", 2),
      F("IssuerMetadataHash", 48),
      Limited("BootstrapAuthorityKeys", "AuthorityKeyRecord", 1, maximumSignedSeedAuthorityKeys),
      F("BootstrapCoverTemplateHash", 48),
      Limited("AuthorityKeyUpdates", "AuthorityKeyRecord", 1, maximumSignedSeedAuthorityKeys),
      F("NextSeedCommitment", 48), U("SoftwareUpdateEpoch", 8),
      R("SeedSignature", "ObjectSignature")>>)


(***** bootstrap.go: the preludes and capsules of the cover and the route handshake. *****)
CoverPrelude0 == Message(
    <<V("MsgType"), V("Version"), VV("SuiteOffers"), F("ClientNonce", 32),
      O("ClientClassicalEphPub", 2), O("ClientMLKEMEncapsulationKey", 2),
      F("RelayDescriptorHash", 48), F("CoverTemplateHash", 48), V("RequestClassID"),
      F("HintIssuerID", 16), F("RelayBucketID", 16), U("HintEpochID", 8), F("HintSelector", 16),
      F("AccessHint", 16), F("ClientCoverRandom", 32), O("Padding", 2),
      L("Extensions", "Extension", 1)>>,
    <<V("MsgType"), V("Version"), VV("SuiteOffers"), F("ClientNonce", 32),
      O("ClientClassicalEphPub", 2), O("ClientMLKEMEncapsulationKey", 2),
      F("RelayDescriptorHash", 48), F("CoverTemplateHash", 48), V("RequestClassID"),
      F("HintIssuerID", 16), F("RelayBucketID", 16), U("HintEpochID", 8), F("HintSelector", 16),
      F("AccessHint", 16), F("ClientCoverRandom", 32), O("Padding", 2),
      L("Extensions", "Extension", ExtensionMinimum)>>)

CoverPrelude1 == Message(
    <<V("MsgType"), V("Version"), V("SelectedSuite"), F("RelayDescriptorHash", 48),
      F("CoverTemplateHash", 48), U("RelayEpochID", 8), F("ServerNonce", 32),
      O("ServerClassicalEphPub", 2), O("ServerMLKEMCiphertextToClient", 2),
      F("SelectedCoverProfileID", 16), F("SelectedBootstrapEnvelopeID", 16),
      O("ServerPreludeSignatureClassical", 2), O("ServerPreludeSignaturePQ", 2),
      O("ResponsePadding", 2), L("Extensions", "Extension", 1)>>,
    <<V("MsgType"), V("Version"), V("SelectedSuite"), F("RelayDescriptorHash", 48),
      F("CoverTemplateHash", 48), U("RelayEpochID", 8), F("ServerNonce", 32),
      O("ServerClassicalEphPub", 2), O("ServerMLKEMCiphertextToClient", 2),
      F("SelectedCoverProfileID", 16), F("SelectedBootstrapEnvelopeID", 16),
      O("ServerPreludeSignatureClassical", 2), O("ServerPreludeSignaturePQ", 2),
      O("ResponsePadding", 2), L("Extensions", "Extension", ExtensionMinimum)>>)

CoverCapsule1Plain == Message(
    <<V("MsgType"), V("RouteInstanceID"), R("AdmissionProof", "AdmissionProof"),
      R("ReplayProof", "ReplayProof"), R("PolicyOffer", "PolicyOffer"),
      R("ClientTransportHints", "ClientTransportHints"), O("ClientFinished", 2), O("Padding", 2),
      L("Extensions", "Extension", 1)>>,
    <<V("MsgType"), V("RouteInstanceID"), R("AdmissionProof", "AdmissionProof"),
      R("ReplayProof", "ReplayProof"), R("PolicyOffer", "PolicyOffer"),
      R("ClientTransportHints", "ClientTransportHints"), O("ClientFinished", 2), O("Padding", 2),
      L("Extensions", "Extension", ExtensionMinimum)>>)

CoverCapsule2Plain == Message(
    <<V("MsgType"), V("RouteInstanceID"), R("PolicyAccept", "PolicyAccept"),
      O("ServerFinished", 2), O("Padding", 2), L("Extensions", "Extension", 1)>>,
    <<V("MsgType"), V("RouteInstanceID"), R("PolicyAccept", "PolicyAccept"),
      O("ServerFinished", 2), O("Padding", 2), L("Extensions", "Extension", ExtensionMinimum)>>)

RouteCapsule1Plain == Message(
    <<V("MsgType"), V("RouteInstanceID"), U("HopIndex", 1), R("AdmissionProof", "AdmissionProof"),
      R("ReplayProof", "ReplayProof"), R("PolicyOffer", "PolicyOffer"), O("ClientFinished", 2),
      O("Padding", 2), L("Extensions", "Extension", 1)>>,
    <<V("MsgType"), V("RouteInstanceID"), U("HopIndex", 1), R("AdmissionProof", "AdmissionProof"),
      R("ReplayProof", "ReplayProof"), R("PolicyOffer", "PolicyOffer"), O("ClientFinished", 2),
      O("Padding", 2), L("Extensions", "Extension", ExtensionMinimum)>>)

RouteCapsule2Plain == Message(
    <<V("MsgType"), V("RouteInstanceID"), U("HopIndex", 1), R("PolicyAccept", "PolicyAccept"),
      O("ServerFinished", 2), O("Padding", 2), L("Extensions", "Extension", 1)>>,
    <<V("MsgType"), V("RouteInstanceID"), U("HopIndex", 1), R("PolicyAccept", "PolicyAccept"),
      O("ServerFinished", 2), O("Padding", 2), L("Extensions", "Extension", ExtensionMinimum)>>)

RoutePrelude1 == Message(
    <<V("MsgType"), V("Version"), V("RouteInstanceID"), U("HopIndex", 1),
      F("PreviousHopRelayDescriptorHash", 48), F("NextRelayDescriptorHash", 48),
      U("NextRelayEpochID", 8), V("SelectedSuite"), F("ServerNonce", 32),
      O("ServerClassicalEphPub", 2), O("ServerMLKEMCiphertextToClient", 2), V("SelectedShapeID"),
      O("ServerPreludeSignatureClassical", 2), O("ServerPreludeSignaturePQ", 2), O("Padding", 2),
      L("Extensions", "Extension", 1)>>,
    <<V("MsgType"), V("Version"), V("RouteInstanceID"), U("HopIndex", 1),
      F("PreviousHopRelayDescriptorHash", 48), F("NextRelayDescriptorHash", 48),
      U("NextRelayEpochID", 8), V("SelectedSuite"), F("ServerNonce", 32),
      O("ServerClassicalEphPub", 2), O("ServerMLKEMCiphertextToClient", 2), V("SelectedShapeID"),
      O("ServerPreludeSignatureClassical", 2), O("ServerPreludeSignaturePQ", 2), O("Padding", 2),
      L("Extensions", "Extension", ExtensionMinimum)>>)


(***** admission.go: what the client offers and proves, and what the relay accepts. *****)
AdmissionProof == Message(
    <<V("ProofVersion"), V("ProofType"), F("IssuerID", 16), F("TokenKeyID", 32),
      F("RelayBucketID", 16), F("TokenScopeID", 16), U("ExpiryUnix", 8), F("TokenNonce", 32),
      F("RedemptionContextHash", 48), O("TokenPublicMetadata", 2), O("TokenAuthenticator", 2),
      O("BindingProof", 2), L("Extensions", "Extension", 1)>>,
    <<V("ProofVersion"), V("ProofType"), F("IssuerID", 16), F("TokenKeyID", 32),
      F("RelayBucketID", 16), F("TokenScopeID", 16), U("ExpiryUnix", 8), F("TokenNonce", 32),
      F("RedemptionContextHash", 48), O("TokenPublicMetadata", 2), O("TokenAuthenticator", 2),
      O("BindingProof", 2), L("Extensions", "Extension", ExtensionMinimum)>>)

AuroraTokenMetadata == Message(
    <<U("RFC9577TokenType", 2), F("RFC9577ChallengeDigest", 32), F("RFC9577TokenKeyID", 32),
      O("IssuerName", 2), O("OriginInfo", 2), F("IssuerMetadataHash", 48)>>,
    <<U("RFC9577TokenType", 2), F("RFC9577ChallengeDigest", 32), F("RFC9577TokenKeyID", 32),
      O("IssuerName", 2), O("OriginInfo", 2), F("IssuerMetadataHash", 48)>>)

ReplayProof == Message(
    <<V("ProofVersion"), U("ReplayEpochID", 8), F("TokenRedemptionHash", 48),
      F("ClientReplayNonce", 32), F("ReplayContextHash", 48), F("ReplayWindowID", 16),
      L("Extensions", "Extension", 1)>>,
    <<V("ProofVersion"), U("ReplayEpochID", 8), F("TokenRedemptionHash", 48),
      F("ClientReplayNonce", 32), F("ReplayContextHash", 48), F("ReplayWindowID", 16),
      L("Extensions", "Extension", ExtensionMinimum)>>)

ClientTransportHints == Message(
    <<U("HintFlags", 2), U("ObservedPathMTUBucket", 1), U("RecentQUICResult", 1),
      U("RecentH2Result", 1), U("CongestionClass", 1), U("MaxDatagramPayloadHint", 2),
      O("NetworkCohortHint", 1), O("Padding", 2), L("Extensions", "Extension", 1)>>,
    <<U("HintFlags", 2), U("ObservedPathMTUBucket", 1), U("RecentQUICResult", 1),
      U("RecentH2Result", 1), U("CongestionClass", 1), U("MaxDatagramPayloadHint", 2),
      O("NetworkCohortHint", 1), O("Padding", 2), L("Extensions", "Extension", ExtensionMinimum)>>)

PolicyOffer == Message(
    <<VV("OfferedVersions"), VV("OfferedSuites"), VV("OfferedMethods"), V("MinimumPolicyID"),
      V("RequestedPolicyID"), V("RequestedRouteModeID"), V("RequestedShapeID"),
      VV("TunnelPersonalityOffers"), U("FlowCapabilities", 8), U("MaxPaddingOverheadPct", 1),
      L("Extensions", "Extension", 1)>>,
    <<VV("OfferedVersions"), VV("OfferedSuites"), VV("OfferedMethods"), V("MinimumPolicyID"),
      V("RequestedPolicyID"), V("RequestedRouteModeID"), V("RequestedShapeID"),
      VV("TunnelPersonalityOffers"), U("FlowCapabilities", 8), U("MaxPaddingOverheadPct", 1),
      L("Extensions", "Extension", ExtensionMinimum)>>)

VirtualAddressAssignment == Message(
    <<F("LeaseID", 16), V("AddressFamily"), O("ClientAddress", 1), U("PrefixLength", 1),
      P("DNSServerHint", O("DNSServerHint", 1)), U("LeaseExpiryUnix", 8)>>,
    <<F("LeaseID", 16), V("AddressFamily"), O("ClientAddress", 1), U("PrefixLength", 1),
      P("DNSServerHint", O("DNSServerHint", 1)), U("LeaseExpiryUnix", 8)>>)

PolicyAccept == Message(
    <<V("SelectedVersion"), V("SelectedSuite"), V("SelectedMethod"), V("SelectedPolicy"),
      V("SelectedRouteModeID"), V("SelectedShape"), V("SelectedTunnelPersonality"),
      VV("FallbackMethods"), V("RetryPolicyID"), V("PathValidationPolicyID"),
      P("VirtualAddressAssignment", R("VirtualAddressAssignment", "VirtualAddressAssignment")),
      L("Extensions", "Extension", 1)>>,
    <<V("SelectedVersion"), V("SelectedSuite"), V("SelectedMethod"), V("SelectedPolicy"),
      V("SelectedRouteModeID"), V("SelectedShape"), V("SelectedTunnelPersonality"),
      VV("FallbackMethods"), V("RetryPolicyID"), V("PathValidationPolicyID"),
      P("VirtualAddressAssignment", R("VirtualAddressAssignment", "VirtualAddressAssignment")),
      L("Extensions", "Extension", ExtensionMinimum)>>)


(***** issuer.go: the issuer's metadata and the online verifier's exchange. *****)
IssuerTokenKeyRecord == Message(
    <<V("ProofType"), F("TokenKeyID", 32),
      R("TokenVerificationKey", "TokenVerificationKeyRecord"), U("ValidFromUnix", 8),
      U("ValidUntilUnix", 8), U("KeyStatus", 1)>>,
    <<V("ProofType"), F("TokenKeyID", 32),
      R("TokenVerificationKey", "TokenVerificationKeyRecord"), U("ValidFromUnix", 8),
      U("ValidUntilUnix", 8), U("KeyStatus", 1)>>)

OriginInfoPolicy == Message(
    <<V("PolicyID"), O("OriginInfo", 2), B("AllowEmptyOriginInfo"), U("ValidFromUnix", 8),
      U("ValidUntilUnix", 8)>>,
    <<V("PolicyID"), O("OriginInfo", 2), B("AllowEmptyOriginInfo"), U("ValidFromUnix", 8),
      U("ValidUntilUnix", 8)>>)

RelayBucketScope == Message(
    <<F("RelayBucketID", 16), F("TokenScopeID", 16), VV("AllowedOriginPolicyID"),
      U("ValidFromUnix", 8), U("ValidUntilUnix", 8)>>,
    <<F("RelayBucketID", 16), F("TokenScopeID", 16), VV("AllowedOriginPolicyID"),
      U("ValidFromUnix", 8), U("ValidUntilUnix", 8)>>)

AuxiliaryBindingPolicy == Message(
    <<V("ProofType"), B("BindingProofRequired"), U("MaxBindingProofLen", 2),
      V("BindingPolicyID")>>,
    <<V("ProofType"), B("BindingProofRequired"), U("MaxBindingProofLen", 2),
      V("BindingPolicyID")>>)

IssuerVerifierServiceRecord == Message(
    <<F("ServiceID", 16), V("ServiceKind"), V("ServiceProtocolID"),
      R("ServiceLocator", "RoutingRecord"), R("ServiceAuthKey", "PublicKeyRecord"),
      VV("AllowedProofTypes"), FF("AllowedRelayBucketIDs", 16, 1), V("RequestAuthPolicyID"),
      U("ValidFromUnix", 8), U("ValidUntilUnix", 8), U("ServiceStatus", 1)>>,
    <<F("ServiceID", 16), V("ServiceKind"), V("ServiceProtocolID"),
      R("ServiceLocator", "RoutingRecord"), R("ServiceAuthKey", "PublicKeyRecord"),
      VV("AllowedProofTypes"), FF("AllowedRelayBucketIDs", 16, AllowedRelayBucketIDMinimum),
      V("RequestAuthPolicyID"), U("ValidFromUnix", 8), U("ValidUntilUnix", 8),
      U("ServiceStatus", 1)>>)

IssuerMetadata == Message(
    <<V("MetadataVersion"), F("IssuerID", 16), U("ValidFromUnix", 8), U("ValidUntilUnix", 8),
      O("IssuerName", 2), VV("SupportedProofTypes"),
      L("TokenKeyMappings", "IssuerTokenKeyRecord", 1),
      L("OriginInfoPolicies", "OriginInfoPolicy", 1),
      L("RelayBucketScopes", "RelayBucketScope", 1),
      L("AuxiliaryBindingPolicies", "AuxiliaryBindingPolicy", 1),
      L("VerifierServices", "IssuerVerifierServiceRecord", 1), F("MetadataSigningKeyID", 16),
      V("SignatureScheme"), V("KeyEncoding"), O("MetadataSignature", 2),
      L("Extensions", "Extension", 1)>>,
    <<V("MetadataVersion"), F("IssuerID", 16), U("ValidFromUnix", 8), U("ValidUntilUnix", 8),
      O("IssuerName", 2), VV("SupportedProofTypes"),
      L("TokenKeyMappings", "IssuerTokenKeyRecord", IssuerTokenKeyMinimum),
      L("OriginInfoPolicies", "OriginInfoPolicy", OriginInfoPolicyMinimum),
      L("RelayBucketScopes", "RelayBucketScope", RelayBucketScopeMinimum),
      L("AuxiliaryBindingPolicies", "AuxiliaryBindingPolicy", AuxiliaryBindingMinimum),
      L("VerifierServices", "IssuerVerifierServiceRecord", VerifierServiceMinimum),
      F("MetadataSigningKeyID", 16), V("SignatureScheme"), V("KeyEncoding"),
      O("MetadataSignature", 2), L("Extensions", "Extension", ExtensionMinimum)>>)

IssuerVerifierRequest == Message(
    <<V("RequestVersion"), F("ServiceID", 16), F("IssuerID", 16), F("IssuerMetadataHash", 48),
      F("RelayDescriptorHash", 48), F("RelayBucketID", 16), V("RouteInstanceID"),
      U("HopIndex", 1), V("ProofType"), F("TokenKeyID", 32), F("TokenNonce", 32),
      F("ChallengeDigest", 32), F("AuthenticatorInputHash", 48), O("TokenAuthenticator", 2),
      F("TokenSpentKey", 48), U("ReplayEpochID", 8), U("ReplayEpochValidUntilUnix", 8),
      F("RequestNonce", 32), U("RequestTimeUnix", 8)>>,
    <<V("RequestVersion"), F("ServiceID", 16), F("IssuerID", 16), F("IssuerMetadataHash", 48),
      F("RelayDescriptorHash", 48), F("RelayBucketID", 16), V("RouteInstanceID"),
      U("HopIndex", 1), V("ProofType"), F("TokenKeyID", 32), F("TokenNonce", 32),
      F("ChallengeDigest", 32), F("AuthenticatorInputHash", 48), O("TokenAuthenticator", 2),
      F("TokenSpentKey", 48), U("ReplayEpochID", 8), U("ReplayEpochValidUntilUnix", 8),
      F("RequestNonce", 32), U("RequestTimeUnix", 8)>>)

IssuerVerifierResponse == Message(
    <<V("ResponseVersion"), F("ServiceID", 16), F("RequestHash", 48), U("Decision", 1),
      U("DecisionDetail", 1), F("TokenSpentKey", 48), U("ValidUntilUnix", 8),
      F("ResponseNonce", 32), O("ServiceSignature", 2)>>,
    <<V("ResponseVersion"), F("ServiceID", 16), F("RequestHash", 48), U("Decision", 1),
      U("DecisionDetail", 1), F("TokenSpentKey", 48), U("ValidUntilUnix", 8),
      F("ResponseNonce", 32), O("ServiceSignature", 2)>>)


(***** directory.go: the consensus, relay descriptors and cover templates. *****)
SignatureEntry == Message(
    <<F("AuthorityID", 16), F("AuthorityKeyID", 16), V("SignatureScheme"), V("KeyEncoding"),
      O("Signature", 2)>>,
    <<F("AuthorityID", 16), F("AuthorityKeyID", 16), V("SignatureScheme"), V("KeyEncoding"),
      O("Signature", 2)>>)

DirectoryConsensus == Message(
    <<V("Version"), U("Epoch", 8), U("ValidFromUnix", 8), U("ValidUntilUnix", 8),
      F("PreviousConsensusHash", 48), F("RelayDescriptorRoot", 48),
      F("CoverTemplateFamilyRoot", 48), F("RevocationRoot", 48), F("PolicyRoot", 48),
      F("BridgeBucketCommitment", 48), F("IssuerMetadataRoot", 48),
      L("AuthoritySignatures", "SignatureEntry", 1)>>,
    <<V("Version"), U("Epoch", 8), U("ValidFromUnix", 8), U("ValidUntilUnix", 8),
      F("PreviousConsensusHash", 48), F("RelayDescriptorRoot", 48),
      F("CoverTemplateFamilyRoot", 48), F("RevocationRoot", 48), F("PolicyRoot", 48),
      F("BridgeBucketCommitment", 48), F("IssuerMetadataRoot", 48),
      L("AuthoritySignatures", "SignatureEntry", SignatureEntryMinimum)>>)

RoutingRecord == Message(
    <<O("RoutingRecordID", 2), V("TransportFamilyID"), V("LocatorType"), O("LocatorBody", 2),
      V("Priority"), U("NotBeforeUnix", 8), U("NotAfterUnix", 8)>>,
    <<O("RoutingRecordID", 2), V("TransportFamilyID"), V("LocatorType"), O("LocatorBody", 2),
      V("Priority"), U("NotBeforeUnix", 8), U("NotAfterUnix", 8)>>)

RelayDescriptor == Message(
    <<V("DescriptorVersion"), F("RelayID", 32), U("RoleFlags", 4), U("ValidFromUnix", 8),
      U("ValidUntilUnix", 8), R("RelayLongtermClassicalKey", "PublicKeyRecord"),
      R("RelayLongtermPQKey", "PublicKeyRecord"), U("EpochID", 8),
      R("EpochAuthClassicalKey", "PublicKeyRecord"), R("EpochAuthPQKey", "PublicKeyRecord"),
      U("EpochValidFromUnix", 8), U("EpochValidUntilUnix", 8), U("ReplayEpochID", 8),
      U("ReplayEpochValidUntilUnix", 8), F("ReplayWindowID", 16), VV("SupportedSuiteIDs"),
      VV("SupportedMethodIDs"), F("SupportedPolicyIDsCommitment", 48),
      F("SupportedShapeIDsCommitment", 48), L("PublicRoutingRecords", "RoutingRecord", 1),
      FF("CoverTemplateInstanceHashes", 48, 1), F("ExitPolicyCommitment", 48),
      F("AbusePolicyCommitment", 48), O("SignatureByLongtermClassical", 2),
      O("SignatureByLongtermPQ", 2)>>,
    <<V("DescriptorVersion"), F("RelayID", 32), U("RoleFlags", 4), U("ValidFromUnix", 8),
      U("ValidUntilUnix", 8), R("RelayLongtermClassicalKey", "PublicKeyRecord"),
      R("RelayLongtermPQKey", "PublicKeyRecord"), U("EpochID", 8),
      R("EpochAuthClassicalKey", "PublicKeyRecord"), R("EpochAuthPQKey", "PublicKeyRecord"),
      U("EpochValidFromUnix", 8), U("EpochValidUntilUnix", 8), U("ReplayEpochID", 8),
      U("ReplayEpochValidUntilUnix", 8), F("ReplayWindowID", 16), VV("SupportedSuiteIDs"),
      VV("SupportedMethodIDs"), F("SupportedPolicyIDsCommitment", 48),
      F("SupportedShapeIDsCommitment", 48),
      L("PublicRoutingRecords", "RoutingRecord", RoutingRecordMinimum),
      FF("CoverTemplateInstanceHashes", 48, PreHashMinimum), F("ExitPolicyCommitment", 48),
      F("AbusePolicyCommitment", 48), O("SignatureByLongtermClassical", 2),
      O("SignatureByLongtermPQ", 2)>>)

RequestClass == Message(
    <<V("ClassID"), V("ClassType"), V("AllowedMethodFamily"), F("PathTemplateID", 16),
      V("BodyPolicyID"), V("ResponsePolicyID"), B("MayCarryPrelude"), B("MayCarryCapsule")>>,
    <<V("ClassID"), V("ClassType"), V("AllowedMethodFamily"), F("PathTemplateID", 16),
      V("BodyPolicyID"), V("ResponsePolicyID"), B("MayCarryPrelude"), B("MayCarryCapsule")>>)

PreludeEnvelope == Message(
    <<V("MinRequestBodySize"), V("MaxRequestBodySize"), F("RequestSizeDistributionID", 16),
      V("MinResponseBodySize"), V("MaxResponseBodySize"), F("ResponseSizeDistributionID", 16),
      V("ContentTypeFamilyID"), V("ChunkingPolicyID"), V("ResponseTimingPolicyID")>>,
    <<V("MinRequestBodySize"), V("MaxRequestBodySize"), F("RequestSizeDistributionID", 16),
      V("MinResponseBodySize"), V("MaxResponseBodySize"), F("ResponseSizeDistributionID", 16),
      V("ContentTypeFamilyID"), V("ChunkingPolicyID"), V("ResponseTimingPolicyID")>>)

CapsuleEnvelope == Message(
    <<F("EnvelopeID", 16), V("MinCapsuleBodySize"), V("MaxCapsuleBodySize"),
      F("BodySizeDistributionID", 16), VV("AllowedContentTypeIDs"), V("ChunkingPolicyID"),
      V("FailureResponseFamilyID"), B("ConsumeFailedBodyLocally")>>,
    <<F("EnvelopeID", 16), V("MinCapsuleBodySize"), V("MaxCapsuleBodySize"),
      F("BodySizeDistributionID", 16), VV("AllowedContentTypeIDs"), V("ChunkingPolicyID"),
      V("FailureResponseFamilyID"), B("ConsumeFailedBodyLocally")>>)

H2CoverProfile == Message(
    <<V("ProfileID"), V("H2SettingsFamilyID"), V("PseudoHeaderOrderFamilyID"),
      V("HPACKBehaviorFamilyID"), V("MaxConcurrentStreamsBucket"), V("InitialWindowBucket"),
      V("RequestGraphFamilyID"), F("RecordSizeDistributionID", 16), V("IdleTimeoutPolicyID")>>,
    <<V("ProfileID"), V("H2SettingsFamilyID"), V("PseudoHeaderOrderFamilyID"),
      V("HPACKBehaviorFamilyID"), V("MaxConcurrentStreamsBucket"), V("InitialWindowBucket"),
      V("RequestGraphFamilyID"), F("RecordSizeDistributionID", 16), V("IdleTimeoutPolicyID")>>)

H3CoverProfile == Message(
    <<V("ProfileID"), V("H3SettingsFamilyID"), V("QPACKBehaviorFamilyID"),
      B("SupportsH3Datagram"), B("SupportsWebTransportH3"), V("WebTransportProfileID"),
      B("QUICDatagramRequired"), B("ResetStreamAtRequired"), V("RequestGraphFamilyID"),
      F("DatagramSizeDistributionID", 16), F("DatagramRateDistributionID", 16),
      V("FallbackMethodID")>>,
    <<V("ProfileID"), V("H3SettingsFamilyID"), V("QPACKBehaviorFamilyID"),
      B("SupportsH3Datagram"), B("SupportsWebTransportH3"), V("WebTransportProfileID"),
      B("QUICDatagramRequired"), B("ResetStreamAtRequired"), V("RequestGraphFamilyID"),
      F("DatagramSizeDistributionID", 16), F("DatagramRateDistributionID", 16),
      V("FallbackMethodID")>>)

WebSocketCoverProfile == Message(
    <<V("ProfileID"), V("UpgradeFamilyID"), V("SubprotocolFamilyID"),
      F("FrameSizeDistributionID", 16), V("PingPolicyID"), V("CloseBehaviorID"),
      V("StreamLifetimePolicyID")>>,
    <<V("ProfileID"), V("UpgradeFamilyID"), V("SubprotocolFamilyID"),
      F("FrameSizeDistributionID", 16), V("PingPolicyID"), V("CloseBehaviorID"),
      V("StreamLifetimePolicyID")>>)

CacheCookiePolicy == Message(
    <<V("PolicyID"), V("CookieBehaviorFamilyID"), V("CacheControlFamilyID"),
      V("ETagBehaviorFamilyID"), V("VaryHeaderFamilyID"), V("RedirectBehaviorFamilyID")>>,
    <<V("PolicyID"), V("CookieBehaviorFamilyID"), V("CacheControlFamilyID"),
      V("ETagBehaviorFamilyID"), V("VaryHeaderFamilyID"), V("RedirectBehaviorFamilyID")>>)

TimingEnvelope == Message(
    <<V("TimingPolicyID"), V("MinResponseDelayMS"), V("MaxResponseDelayMS"),
      F("JitterDistributionID", 16), V("TimeoutFamilyID"), V("RetryFamilyID"),
      V("CloseTimingFamilyID")>>,
    <<V("TimingPolicyID"), V("MinResponseDelayMS"), V("MaxResponseDelayMS"),
      F("JitterDistributionID", 16), V("TimeoutFamilyID"), V("RetryFamilyID"),
      V("CloseTimingFamilyID")>>)

CoverTemplate == Message(
    <<V("TemplateVersion"), O("TemplateID", 2), O("TemplateFamilyID", 2), U("ValidFromUnix", 8),
      U("ValidUntilUnix", 8), F("OriginSPKIHash", 48), F("PublicNameHash", 48),
      F("CoverOriginCommitment", 48), L("RequestClasses", "RequestClass", 1),
      FF("GatewayOwnedSlotCommitments", 48, 1), FF("OriginPassThroughSlotCommitments", 48, 1),
      R("PreludeEnvelope", "PreludeEnvelope"), R("CapsuleEnvelope", "CapsuleEnvelope"),
      R("H2Profile", "H2CoverProfile"), R("H3Profile", "H3CoverProfile"),
      R("WebSocketProfile", "WebSocketCoverProfile"), R("CacheCookiePolicy", "CacheCookiePolicy"),
      R("TimingEnvelope", "TimingEnvelope"), O("TemplateFamilySignature", 2),
      O("TemplateInstanceSignature", 2)>>,
    <<V("TemplateVersion"), O("TemplateID", 2), O("TemplateFamilyID", 2), U("ValidFromUnix", 8),
      U("ValidUntilUnix", 8), F("OriginSPKIHash", 48), F("PublicNameHash", 48),
      F("CoverOriginCommitment", 48), L("RequestClasses", "RequestClass", RequestClassMinimum),
      FF("GatewayOwnedSlotCommitments", 48, PreHashMinimum),
      FF("OriginPassThroughSlotCommitments", 48, PreHashMinimum),
      R("PreludeEnvelope", "PreludeEnvelope"), R("CapsuleEnvelope", "CapsuleEnvelope"),
      R("H2Profile", "H2CoverProfile"), R("H3Profile", "H3CoverProfile"),
      R("WebSocketProfile", "WebSocketCoverProfile"), R("CacheCookiePolicy", "CacheCookiePolicy"),
      R("TimingEnvelope", "TimingEnvelope"), O("TemplateFamilySignature", 2),
      O("TemplateInstanceSignature", 2)>>)


(***** frames.go: frames of an established session. *****)
AuroraFrame == Message(
    <<V("FrameType"), V("FlowID"), V("Flags"), O("Payload", 3)>>,
    <<V("FrameType"), V("FlowID"), V("Flags"), O("Payload", 3)>>)

FrameBlock == Message(
    <<L("Frames", "AuroraFrame", 1)>>,
    <<Limited("Frames", "AuroraFrame", 1, MaxFrameBlockFrames)>>)

KeyUpdate == Message(
    <<V("RouteInstanceID"), U("HopLayer", 1), U("Direction", 1), U("OldKeyPhase", 1),
      U("NewKeyPhase", 1), O("UpdateNonce", 2), B("AckRequired"), V("UpdateReason")>>,
    <<V("RouteInstanceID"), U("HopLayer", 1), U("Direction", 1), U("OldKeyPhase", 1),
      U("NewKeyPhase", 1), O("UpdateNonce", 2), B("AckRequired"), V("UpdateReason")>>)

KeyUpdateACK == Message(
    <<V("RouteInstanceID"), U("HopLayer", 1), U("AckedDirection", 1), U("AckedKeyPhase", 1),
      O("AckNonce", 2)>>,
    <<V("RouteInstanceID"), U("HopLayer", 1), U("AckedDirection", 1), U("AckedKeyPhase", 1),
      O("AckNonce", 2)>>)

KeyUpdateRequest == Message(
    <<V("RouteInstanceID"), U("HopLayer", 1), U("RequestedDirection", 1), O("RequestNonce", 2),
      V("RequestReason")>>,
    <<V("RouteInstanceID"), U("HopLayer", 1), U("RequestedDirection", 1), O("RequestNonce", 2),
      V("RequestReason")>>)

FlowOpen == Message(
    <<V("FlowOpenVersion"), V("FlowID"), U("FlowKind", 1), U("TargetKind", 1), O("TargetHost", 2),
      U("TargetPort", 2), U("UDPFQDNMode", 1), F("NameBindingID", 16), O("OriginalDomainHint", 2),
      F("DNSAnswerSetHash", 48), U("LocalBindingMode", 1), U("PriorityClass", 1),
      L("Extensions", "Extension", 1)>>,
    <<V("FlowOpenVersion"), V("FlowID"), U("FlowKind", 1), U("TargetKind", 1), O("TargetHost", 2),
      U("TargetPort", 2), U("UDPFQDNMode", 1), F("NameBindingID", 16), O("OriginalDomainHint", 2),
      F("DNSAnswerSetHash", 48), U("LocalBindingMode", 1), U("PriorityClass", 1),
      L("Extensions", "Extension", ExtensionMinimum)>>)

UDPTargetConfirm == Message(
    <<V("FlowID"), U("TargetKind", 1), O("SelectedIP", 2), U("SelectedPort", 2),
      F("DNSAnswerSetHash", 48), U("TTLSeconds", 4), U("ResolutionSource", 1),
      L("Extensions", "Extension", 1)>>,
    <<V("FlowID"), U("TargetKind", 1), O("SelectedIP", 2), U("SelectedPort", 2),
      F("DNSAnswerSetHash", 48), U("TTLSeconds", 4), U("ResolutionSource", 1),
      L("Extensions", "Extension", ExtensionMinimum)>>)

FlowClose == Message(
    <<V("FlowID"), V("CloseCode"), P("FinalSequenceHint", U("FinalSequenceHint", 8)),
      O("Reason", 2), L("Extensions", "Extension", 1)>>,
    <<V("FlowID"), V("CloseCode"), P("FinalSequenceHint", U("FinalSequenceHint", 8)),
      O("Reason", 2), L("Extensions", "Extension", ExtensionMinimum)>>)

RouteForwardFrame == Message(
    <<V("RouteInstanceID"), U("HopIndex", 1), F("NextRelayDescriptorHash", 48),
      F("PreviousHopRelayDescriptorHash", 48), O("NextRelayRoutingRecordID", 2),
      V("NextRelayLocatorType"), O("NextRelayLocator", 2), O("OpaqueNextHopPrelude", 3)>>,
    <<V("RouteInstanceID"), U("HopIndex", 1), F("NextRelayDescriptorHash", 48),
      F("PreviousHopRelayDescriptorHash", 48), O("NextRelayRoutingRecordID", 2),
      V("NextRelayLocatorType"), O("NextRelayLocator", 2), O("OpaqueNextHopPrelude", 3)>>)

RoutePreludeEnvelope == Message(
    <<V("RouteInstanceID"), U("HopIndex", 1), F("PreviousHopRelayDescriptorHash", 48),
      F("NextRelayDescriptorHash", 48), F("HintIssuerID", 16), F("RelayBucketID", 16),
      U("HintEpochID", 8), F("HintSelector", 16), V("WrapSuiteID"), F("WrapNonce", 16),
      O("SealedRoutePrelude0", 3)>>,
    <<V("RouteInstanceID"), U("HopIndex", 1), F("PreviousHopRelayDescriptorHash", 48),
      F("NextRelayDescriptorHash", 48), F("HintIssuerID", 16), F("RelayBucketID", 16),
      U("HintEpochID", 8), F("HintSelector", 16), V("WrapSuiteID"), F("WrapNonce", 16),
      O("SealedRoutePrelude0", 3)>>)

(* Every message by its name, for nested records. *)
Schema == [Extension |-> Extension, PublicKeyRecord |-> PublicKeyRecord,
           AuthorityKeyRecord |-> AuthorityKeyRecord, ObjectSignature |-> ObjectSignature,
           TokenVerificationKeyRecord |-> TokenVerificationKeyRecord,
           SignedSeedRecord |-> SignedSeedRecord, CoverPrelude0 |-> CoverPrelude0,
           CoverPrelude1 |-> CoverPrelude1, CoverCapsule1Plain |-> CoverCapsule1Plain,
           CoverCapsule2Plain |-> CoverCapsule2Plain, RouteCapsule1Plain |-> RouteCapsule1Plain,
           RouteCapsule2Plain |-> RouteCapsule2Plain, RoutePrelude1 |-> RoutePrelude1,
           AdmissionProof |-> AdmissionProof, AuroraTokenMetadata |-> AuroraTokenMetadata,
           ReplayProof |-> ReplayProof, ClientTransportHints |-> ClientTransportHints,
           PolicyOffer |-> PolicyOffer, VirtualAddressAssignment |-> VirtualAddressAssignment,
           PolicyAccept |-> PolicyAccept, IssuerTokenKeyRecord |-> IssuerTokenKeyRecord,
           OriginInfoPolicy |-> OriginInfoPolicy, RelayBucketScope |-> RelayBucketScope,
           AuxiliaryBindingPolicy |-> AuxiliaryBindingPolicy,
           IssuerVerifierServiceRecord |-> IssuerVerifierServiceRecord,
           IssuerMetadata |-> IssuerMetadata, IssuerVerifierRequest |-> IssuerVerifierRequest,
           IssuerVerifierResponse |-> IssuerVerifierResponse, SignatureEntry |-> SignatureEntry,
           DirectoryConsensus |-> DirectoryConsensus, RoutingRecord |-> RoutingRecord,
           RelayDescriptor |-> RelayDescriptor, RequestClass |-> RequestClass,
           PreludeEnvelope |-> PreludeEnvelope, CapsuleEnvelope |-> CapsuleEnvelope,
           H2CoverProfile |-> H2CoverProfile, H3CoverProfile |-> H3CoverProfile,
           WebSocketCoverProfile |-> WebSocketCoverProfile,
           CacheCookiePolicy |-> CacheCookiePolicy, TimingEnvelope |-> TimingEnvelope,
           CoverTemplate |-> CoverTemplate, AuroraFrame |-> AuroraFrame,
           FrameBlock |-> FrameBlock, KeyUpdate |-> KeyUpdate, KeyUpdateACK |-> KeyUpdateACK,
           KeyUpdateRequest |-> KeyUpdateRequest, FlowOpen |-> FlowOpen,
           UDPTargetConfirm |-> UDPTargetConfirm, FlowClose |-> FlowClose,
           RouteForwardFrame |-> RouteForwardFrame, RoutePreludeEnvelope |-> RoutePreludeEnvelope]
===============================================================================
