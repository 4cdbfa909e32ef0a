----------------------------- MODULE MCAccounts -----------------------------
(* Accounts for TLC: two accounts and addresses, one client at the limit.  *)
EXTENDS Accounts, TLC
CONSTANTS a1, a2, e1, e2, s1, s2, r1, r2, r3, r4, ip
two_Accounts == {a1, a2}
two_Emails == {e1, e2}
two_Tokens == {s1, s2}
four_Calls == {r1, r2, r3, r4}
one_Client == {ip}
Symmetry ==
  Permutations(two_Accounts) \cup Permutations(two_Emails) \cup Permutations(two_Tokens)
    \cup Permutations(four_Calls)
=============================================================================
