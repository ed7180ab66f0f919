--------------------------- MODULE MCWgQuickBackend ---------------------------
(* WgQuickBackend on small instances. *)
EXTENDS WgQuickBackend, TLC

Symmetry == Permutations(Tunnels) \cup Permutations(Configs) \cup Permutations(Calls)

=============================================================================
