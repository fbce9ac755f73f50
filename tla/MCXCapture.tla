----------------------------- MODULE MCXCapture -----------------------------
(* Instances of XCapture for TLC. *)
EXTENDS XCapture, TLC

=============================================================================
