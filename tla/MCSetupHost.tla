----------------------------- MODULE MCSetupHost -----------------------------
(* Instances of SetupHost for TLC. *)
EXTENDS SetupHost
=============================================================================
