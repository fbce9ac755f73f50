--------------------------- MODULE MCSpoolLogger ---------------------------
(* Instances of SpoolLogger for TLC. *)
EXTENDS SpoolLogger, TLC

=============================================================================
