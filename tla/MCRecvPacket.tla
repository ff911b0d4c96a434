---------------------------- MODULE MCRecvPacket ----------------------------
(* Instances of RecvPacket for TLC. *)
EXTENDS RecvPacket
=============================================================================
