--------------------------- MODULE MCGPUEncTrans ---------------------------
(* Instances of GPUEncTrans for TLC. *)
EXTENDS GPUEncTrans

=============================================================================
