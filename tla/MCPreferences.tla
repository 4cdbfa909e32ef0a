---------------------------- MODULE MCPreferences ----------------------------
(* Preferences for TLC: two fields of two values, up to two memories out   *)
(* of two texts, the same one twice included, a tab and other clients.     *)
EXTENDS Preferences, TLC
CONSTANTS f1, f2, v0, v1, m1, m2, t1, k1, k2, k3
two_Fields == {f1, f2}
two_Values == {v0, v1}
two_Texts == {m1, m2}
one_Tab == {t1}
two_Calls == {k1, k2}
three_Calls == {k1, k2, k3}
some_Patches ==
  {p \in PreferencesUpdate :
     p.memories # None =>
       /\ Len(p.memories) = 2 /\ p.memories[1] = p.memories[2]
       /\ \E f \in Fields : p.settings[f] = None}
Symmetry ==
  Permutations(three_Calls) \cup Permutations(two_Fields) \cup Permutations(two_Texts)
=============================================================================
