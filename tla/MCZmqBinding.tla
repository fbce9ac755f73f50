---------------------------- MODULE MCZmqBinding ----------------------------
(* Instances of ZmqBinding for TLC. *)
EXTENDS ZmqBinding, TLC

Perms == Permutations(Contexts) \cup Permutations(Messages)

=============================================================================
