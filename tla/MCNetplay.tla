----------------------------- MODULE MCNetplay -----------------------------
(* The instance of Netplay for TLC: its constants are plain values. *)
EXTENDS Netplay
=============================================================================
