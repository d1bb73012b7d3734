--------------------------- MODULE MCBridgeRunner ---------------------------
(* BridgeRunner for TLC: a few edge addresses, found in one way. *)
EXTENDS BridgeRunner

CONSTANTS a1, a2, a3

OneList == {<<a1, a2>>}
ThreeAddresses == {<<a1, a2, a3>>}
=============================================================================
