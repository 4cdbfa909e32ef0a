---------------------------- MODULE MCChatTurns ----------------------------
(* ChatTurns for TLC: model values for conversations and requests.         *)
EXTENDS ChatTurns, TLC
CONSTANTS c1, r1, r2, r3
const_Conversations == {c1}
two_Requests == {r1, r2}
const_Requests == {r1, r2, r3}
Symmetry == Permutations(const_Requests)
=============================================================================
