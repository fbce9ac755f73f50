---------------------------- MODULE MCMightyIPC ----------------------------
(* Instances of MightyIPC for TLC. *)
EXTENDS MightyIPC, TLC

=============================================================================
