---------------------------- MODULE MCReceiver ----------------------------
(* Small instances of Receiver for TLC. *)
EXTENDS Receiver, TLC

CONSTANTS MaxPacketNumber
MCPacketNumbers == 0 .. MaxPacketNumber

Symmetry == Permutations(Openers) \cup Permutations(Protectors) \cup Permutations(Materials)
=============================================================================
