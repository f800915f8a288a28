---------------------------- MODULE MCDarajaRail ----------------------------
(* Small instances of DarajaRail for TLC. *)
EXTENDS DarajaRail, TLC

CONSTANTS j1, j2, d1, d2, r1, k1, k2, p1, p2, a1, a2, h1, s1, s2

Symmetry == Permutations(Rows) \cup Permutations(Checkouts) \cup Permutations(Payers)
=============================================================================
