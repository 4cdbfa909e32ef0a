----------------------------- MODULE MCSessions -----------------------------
(* Sessions for TLC: two accounts, four calls in any order.                *)
EXTENDS Sessions, TLC
CONSTANTS u1, u2, k1, k2, k3, k4
two_Users == {u1, u2}
four_Calls == {k1, k2, k3, k4}
Symmetry == Permutations(four_Calls) \cup Permutations(two_Users)
=============================================================================
