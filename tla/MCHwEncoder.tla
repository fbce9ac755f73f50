---------------------------- MODULE MCHwEncoder ----------------------------
(* Instances of HwEncoder for TLC. *)
EXTENDS HwEncoder, TLC

=============================================================================
