------------------------- MODULE MCPluginInstances -------------------------
(* Instances of PluginInstances for TLC. *)
EXTENDS PluginInstances, TLC

Perms == Permutations(Windows)

=============================================================================
