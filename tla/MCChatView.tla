----------------------------- MODULE MCChatView -----------------------------
(* ChatView for TLC: two conversations, some of them not created yet and   *)
(* one maybe with a turn, and every pair of clicks after the first list.   *)
EXTENDS ChatView, TLC
CONSTANTS c1, c2, k1, k2, k0
two_Conversations == {c1, c2}
two_Calls == {k1, k2}
and_Past == two_Calls \cup {k0}
one_Past == {k0}
Symmetry == Permutations(two_Conversations) \cup Permutations(two_Calls)
=============================================================================
