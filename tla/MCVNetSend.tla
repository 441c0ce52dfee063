------------------------------ MODULE MCVNetSend ------------------------------
(* VNetSend for TLC. *)
EXTENDS VNetSend, TLC

MCJackIds == 0 .. 1
=============================================================================
