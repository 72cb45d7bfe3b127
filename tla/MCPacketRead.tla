----------------------------- MODULE MCPacketRead -----------------------------
(* Values of the constants of PacketRead for TLC *)
EXTENDS PacketRead

AllSuites == {"mac", "gcm", "etm"}
ShortAndLong == {1, 14}
=============================================================================
