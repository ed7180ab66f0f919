--------------------------- MODULE MCTunnelManager ---------------------------
(* TunnelManager on small instances. *)
EXTENDS TunnelManager, TLC

Symmetry == Permutations(Objects) \cup Permutations(Names) \cup Permutations(Configs) \cup Permutations(Jobs)

=============================================================================
