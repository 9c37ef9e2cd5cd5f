---------------------------- MODULE StoredRecords ----------------------------
(***************************************************************************)
(* What is written with the same encoder outside protocol/: the containers *)
(* a client is provisioned from and keeps (client/native_provisioning*.go, *)
(* cmd/aurorac/wallet_state.go, admission/access_hint_codec.go), the       *)
(* encrypted packet (packet/packet.go), the private prelude of a route     *)
(* (route/route.go) and the batch of packets of an exchange                *)
(* (server/packet_exchange.go).  As in ProtocolRecords the encoder's and   *)
(* the decoder's lists of fields are written down separately.              *)
(*                                                                         *)
(* More fields: K the number of a format, which the encoder puts there and *)
(* the decoder insists on; W an integer of n bytes, VL a varint and OL an  *)
(* opaque refused outside lo..hi; C a vector of lo..max items; S one of a  *)
(* collection without an order, written sorted, with no member twice (its  *)
(* value is the sorted listing); N a vector whose count is n bytes long; Q *)
(* a field whose presence the number of the format tells.  The limit on    *)
(* the size of a whole container is left out.                              *)
(***************************************************************************)
EXTENDS ProtocolRecords, TLC

CONSTANT MaxVarint    \* the largest value WriteVarint takes (2^62 - 1 in the code)

K(name, v) == [name |-> name, kind |-> "format", v |-> v]
W(name, n, lo, hi) == [name |-> name, kind |-> "within", n |-> n, lo |-> lo, hi |-> hi]
VL(name, lo, hi) == [name |-> name, kind |-> "ranged", lo |-> lo, hi |-> hi]
OL(name, n, lo, hi) == [name |-> name, kind |-> "limited", n |-> n, lo |-> lo, hi |-> hi]
C(name, field, lo, max) ==
    [name |-> name, kind |-> "bounded", of |-> field, lo |-> lo, max |-> max, distinct |-> FALSE]
S(name, field, lo, max) == [C(name, field, lo, max) EXCEPT !.distinct = TRUE]
N(name, n, field, max) == [name |-> name, kind |-> "counted", n |-> n, of |-> field, max |-> max]
Q(name, without, with, field) ==
    [name |-> name, kind |-> "format or", without |-> without, with |-> with, of |-> field]

(***** native_provisioning.go: what one session needs. *****)
maximumNativeProvisioningBytes == 1048576
maximumNativeProvisioningURLBytes == 2048
maximumNativeProvisioningObjectBytes == 262144
maximumNativeProvisioningPolicyBytes == 32768
maximumNativeProvisioningHintsBytes == 32768
maximumNativeProvisioningHeaderBytes == 65536
maximumNativeProvisioningTrustRootBytes == 65536
maximumNativeProvisioningTrustRoots == 16
maximumNativeProvisioningHeaderEntries == 64
maximumNativeProvisioningHeaderNameBytes == 64
maximumNativeProvisioningHeaderValueBytes == 4096

(* The text and the objects of a bundle, none of them empty; what the objects say is Provisioning's. *)
URL(name) == OL(name, 2, 1, maximumNativeProvisioningURLBytes)
Object(name, n) == OL(name, n, 1, maximumNativeProvisioningObjectBytes)

EncodeNativeProvisioning ==
    <<K("Format", 5), URL("RelayURL"), URL("IssuerURL"), URL("IssuerCarrierPath"),
      Object("IssuerMetadata", 3), Object("SignedSeed", 3), Object("Descriptor", 3),
      F("TrustedDescriptorHash", 48), Object("Template", 3), Object("TemplateAuthorityKey", 2),
      VL("RequestClassID", 1, MaxVarint), VL("Suite", 1, MaxVarint), Object("AccessHint", 2),
      OL("PolicyOffer", 3, 1, maximumNativeProvisioningPolicyBytes),
      OL("TransportHints", 3, 1, maximumNativeProvisioningHintsBytes),
      VL("RelayExpectedStatus", 200, 599),
      OL("RelayRequestHeaders", 2, 1, maximumNativeProvisioningHeaderBytes),
      OL("RelayResponseHeaders", 2, 1, maximumNativeProvisioningHeaderBytes),
      OL("RelayTrustRoots", 3, 1,
         maximumNativeProvisioningTrustRootBytes * maximumNativeProvisioningTrustRoots)>>

parseNativeProvisioningContainer ==
    <<K("Format", 5), OL("RelayURL", 2, 0, maximumNativeProvisioningURLBytes),
      OL("IssuerURL", 2, 0, maximumNativeProvisioningURLBytes),
      OL("IssuerCarrierPath", 2, 0, maximumNativeProvisioningURLBytes),
      OL("IssuerMetadata", 3, 0, maximumNativeProvisioningObjectBytes),
      OL("SignedSeed", 3, 0, maximumNativeProvisioningObjectBytes),
      OL("Descriptor", 3, 0, maximumNativeProvisioningObjectBytes),
      F("TrustedDescriptorHash", 48),
      OL("Template", 3, 0, maximumNativeProvisioningObjectBytes),
      OL("TemplateAuthorityKey", 2, 0, maximumNativeProvisioningObjectBytes),
      V("RequestClassID"), V("Suite"),
      OL("AccessHint", 2, 0, maximumNativeProvisioningObjectBytes),
      OL("PolicyOffer", 3, 0, maximumNativeProvisioningPolicyBytes),
      OL("TransportHints", 3, 0, maximumNativeProvisioningHintsBytes),
      V("RelayExpectedStatus"),
      OL("RelayRequestHeaders", 2, 0, maximumNativeProvisioningHeaderBytes),
      OL("RelayResponseHeaders", 2, 0, maximumNativeProvisioningHeaderBytes),
      OL("RelayTrustRoots", 3, 0,
         maximumNativeProvisioningTrustRootBytes * maximumNativeProvisioningTrustRoots)>>

nativeHeaderField == Message(
    <<OL("name", 1, 1, maximumNativeProvisioningHeaderNameBytes),
      OL("value", 2, 1, maximumNativeProvisioningHeaderValueBytes)>>,
    <<OL("name", 1, 1, maximumNativeProvisioningHeaderNameBytes),
      OL("value", 2, 1, maximumNativeProvisioningHeaderValueBytes)>>)

EncodeNativeHeaders ==
    <<S("fields", R("field", "nativeHeaderField"), 0, maximumNativeProvisioningHeaderEntries)>>
decodeNativeHeaders ==
    <<S("fields", R("field", "nativeHeaderField"), 0, maximumNativeProvisioningHeaderEntries)>>

EncodeNativeTrustRoots ==
    <<S("roots", OL("root", 2, 1, maximumNativeProvisioningTrustRootBytes), 0,
        maximumNativeProvisioningTrustRoots)>>
decodeNativeTrustRoots ==
    <<S("roots", OL("root", 2, 1, maximumNativeProvisioningTrustRootBytes), 0,
        maximumNativeProvisioningTrustRoots)>>

(***** native_provisioning_trust.go: the roots a client is configured with. *****)
maximumNativeProvisioningSignedSeedTrustRoots == 16
maximumNativeProvisioningDeploymentTrusts == 256

NativeProvisioningDeploymentTrust == Message(
    <<F("DescriptorHash", 48), F("CoverTemplateHash", 48), R("TemplateAuthorityKey", "PublicKeyRecord")>>,
    <<F("DescriptorHash", 48), F("CoverTemplateHash", 48), R("TemplateAuthorityKey", "PublicKeyRecord")>>)

EncodeNativeProvisioningTrust ==
    <<K("Format", 2),
      S("roots", R("root", "AuthorityKeyRecord"), 1, maximumNativeProvisioningSignedSeedTrustRoots),
      S("deployments", R("deployment", "NativeProvisioningDeploymentTrust"), 0,
        maximumNativeProvisioningDeploymentTrusts)>>
ParseNativeProvisioningTrust ==
    <<K("Format", 2),
      S("roots", R("root", "AuthorityKeyRecord"), 1, maximumNativeProvisioningSignedSeedTrustRoots),
      S("deployments", R("deployment", "NativeProvisioningDeploymentTrust"), 0,
        maximumNativeProvisioningDeploymentTrusts)>>

(***** native_provisioning_wallet.go: many bundles, none of them expired. *****)
maximumNativeProvisioningWalletEntries == 64

EncodeNativeProvisioningWallet ==
    <<K("Format", 1),
      S("entries", OL("entry", 3, 1, maximumNativeProvisioningBytes), 1,
        maximumNativeProvisioningWalletEntries)>>
ParseNativeProvisioningWalletWithTrust ==
    <<K("Format", 1),
      S("entries", OL("entry", 3, 1, maximumNativeProvisioningBytes), 1,
        maximumNativeProvisioningWalletEntries)>>

(***** wallet_state.go: the reservations a client process remembers. *****)
maximumProvisioningWalletStateEntries == 65536

reservation == Message(
    <<F("key", 48), W("expiryUnix", 8, 1, NoLimit)>>,
    <<F("key", 48), W("expiryUnix", 8, 1, NoLimit)>>)

EncodeWalletState ==
    <<Q("sourceDigest", 1, 2, F("digest", 32)),
      S("reservations", R("reservation", "reservation"), 0, maximumProvisioningWalletStateEntries)>>
parseProvisioningWalletState ==
    <<Q("sourceDigest", 1, 2, F("digest", 32)),
      S("reservations", R("reservation", "reservation"), 0, maximumProvisioningWalletStateEntries)>>

(***** access_hint_codec.go: the one-time credentials of a relay. *****)
maximumAccessHintCredentialSet == 4096

encodeAccessHintCredential ==
    <<F("HintIssuerID", 16), F("RelayBucketID", 16), U("HintEpochID", 8), F("HintSelector", 16),
      F("HintSecret", 32), U("ExpiryUnix", 8), W("MaxUses", 2, 1, 1)>>
decodeAccessHintCredential ==
    <<F("HintIssuerID", 16), F("RelayBucketID", 16), U("HintEpochID", 8), F("HintSelector", 16),
      F("HintSecret", 32), U("ExpiryUnix", 8), W("MaxUses", 2, 1, 1)>>

EncodeAccessHintCredentialSet == 
    <<C("credentials", R("credential", "AccessHintCredential"), 1, maximumAccessHintCredentialSet)>>
DecodeAccessHintCredentialSet ==
    <<C("credentials", R("credential", "AccessHintCredential"), 1, maximumAccessHintCredentialSet)>>

(***** packet.go: an encrypted packet. *****)
EncodeAuroraPacket ==
    <<V("RouteInstanceID"), U("HopLayer", 1), U("Direction", 1), U("KeyPhase", 1),
      V("PacketNumber"), O("Ciphertext", 3), F("AuthTag", 16)>>
decodeAuroraPacket ==
    <<V("RouteInstanceID"), U("HopLayer", 1), U("Direction", 1), U("KeyPhase", 1),
      V("PacketNumber"), O("Ciphertext", 3), F("AuthTag", 16)>>

(***** route.go: the prelude a client seals for a later hop. *****)
EncodePrivatePrelude ==
    <<V("MsgType"), V("Version"), V("RouteInstanceID"), U("HopIndex", 1),
      F("PreviousHopRelayDescriptorHash", 48), F("NextRelayDescriptorHash", 48),
      F("RoutePreludeWrapContext", 48), F("PreviousHopFullTranscriptHash", 48),
      F("ClientNonceForThisHop", 32), VV("OfferedSuites"), O("ClientClassicalEphPub", 2),
      O("ClientMLKEMEncapsulationKey", 2), F("HintIssuerID", 16), F("RelayBucketID", 16),
      U("HintEpochID", 8), F("HintSelector", 16), O("AccessHint", 2), V("RequestedRouteModeID"),
      V("CoverShapeHintID"), O("Padding", 2), L("Extensions", "Extension", ExtensionMinimum)>>
DecodePrivatePrelude ==
    <<V("MsgType"), V("Version"), V("RouteInstanceID"), U("HopIndex", 1),
      F("PreviousHopRelayDescriptorHash", 48), F("NextRelayDescriptorHash", 48),
      F("RoutePreludeWrapContext", 48), F("PreviousHopFullTranscriptHash", 48),
      F("ClientNonceForThisHop", 32), VV("OfferedSuites"), O("ClientClassicalEphPub", 2),
      O("ClientMLKEMEncapsulationKey", 2), F("HintIssuerID", 16), F("RelayBucketID", 16),
      U("HintEpochID", 8), F("HintSelector", 16), O("AccessHint", 2), V("RequestedRouteModeID"),
      V("CoverShapeHintID"), O("Padding", 2), L("Extensions", "Extension", ExtensionMinimum)>>

(***** packet_exchange.go: packets of a device exchange. *****)
maxPacketBatchPackets == 64
maxPacketBytes == 65535

validatePacketBatch == <<U("ProtocolNumber", 2), OL("Packet", 4, 1, maxPacketBytes)>>
validatePacketBatchEncoding == <<U("ProtocolNumber", 2), OL("Packet", 4, 1, maxPacketBytes)>>

EncodePacketBatch == <<N("Packets", 2, R("entry", "packetEntry"), maxPacketBatchPackets)>>
DecodePacketBatch == <<N("Packets", 2, R("entry", "packetEntry"), maxPacketBatchPackets)>>
-----------------------------------------------------------------------------
(* Every record of the program, protocol/'s first. *)
Formats == Schema @@
    [NativeProvisioning |-> Message(EncodeNativeProvisioning, parseNativeProvisioningContainer),
     nativeHeaderField |-> nativeHeaderField,
     NativeHeaders |-> Message(EncodeNativeHeaders, decodeNativeHeaders),
     NativeTrustRoots |-> Message(EncodeNativeTrustRoots, decodeNativeTrustRoots),
     NativeProvisioningDeploymentTrust |-> NativeProvisioningDeploymentTrust,
     NativeProvisioningTrust |-> Message(EncodeNativeProvisioningTrust, ParseNativeProvisioningTrust),
     NativeProvisioningWallet |->
        Message(EncodeNativeProvisioningWallet, ParseNativeProvisioningWalletWithTrust),
     reservation |-> reservation,
     provisioningWalletState |-> Message(EncodeWalletState, parseProvisioningWalletState),
     AccessHintCredential |-> Message(encodeAccessHintCredential, decodeAccessHintCredential),
     AccessHintCredentialSet |->
        Message(EncodeAccessHintCredentialSet, DecodeAccessHintCredentialSet),
     AuroraPacket |-> Message(EncodeAuroraPacket, decodeAuroraPacket),
     PrivatePrelude |-> Message(EncodePrivatePrelude, DecodePrivatePrelude),
     packetEntry |-> Message(validatePacketBatch, validatePacketBatchEncoding),
     PacketBatch |-> Message(EncodePacketBatch, DecodePacketBatch)]
=============================================================================
