------------------------------ MODULE MCRcpDma ------------------------------
(* Instances of RcpDma for TLC; the configurations give the constants.     *)
EXTENDS RcpDma
=============================================================================
