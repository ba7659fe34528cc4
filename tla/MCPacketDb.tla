----------------------------- MODULE MCPacketDb -----------------------------
(***************************************************************************)
(* Small instances of PacketDb.                                            *)
(***************************************************************************)
EXTENDS PacketDb

CONSTANTS r1, r2, r3

ThreeRequests == {r1, r2, r3}
=============================================================================
