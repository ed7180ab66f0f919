----------------------------- MODULE MCGoBackend -----------------------------
(* GoBackend for TLC. *)
EXTENDS GoBackend, TLC

CONSTANTS t1, t2, c1, c2, p1, p2

OneTunnel == {t1}
TwoTunnels == {t1, t2}
OneConfig == {c1}
TwoConfigs == {c1, c2}
OneCaller == {p1}
TwoCallers == {p1, p2}

Symmetry == Permutations(TwoTunnels) \cup Permutations(TwoConfigs)
=============================================================================
