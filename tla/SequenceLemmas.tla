--------------------------- MODULE SequenceLemmas ---------------------------
(***************************************************************************)
(* Facts about sequences and the community modules' operators on them that *)
(* the proofs of several modules rest on, and induction in a form that     *)
(* names a set and no predicate: a set of numbers that has 0, and with     *)
(* each number the next, has them all.  With it one shows that a recursive *)
(* function exists and what it returns.                                    *)
(***************************************************************************)
EXTENDS Naturals, Sequences, SequencesExt, SequenceTheorems, WellFoundedInduction, TLAPS

(* Induction: a least number outside the set would be neither 0 nor follow *)
(* one.                                                                    *)
LEMMA SetInduction ==
  ASSUME NEW S, 0 \in S, \A n \in Nat : n \in S => n + 1 \in S
  PROVE  Nat \subseteq S
<1> DEFINE T == Nat \ S
           R == OpToRel(<, Nat)
<1>1. SUFFICES ASSUME T # {} PROVE FALSE
  OBVIOUS
<1>2. IsWellFoundedOn(R, Nat)
  BY NatLessThanWellFounded
<1>3. T \subseteq Nat
  OBVIOUS
<1>4. PICK x \in T : \A y \in T : ~ (<<y, x>> \in R)
  <2> HIDE DEF T, R
  <2> QED BY <1>1, <1>2, <1>3, WFMin
<1>5. x \in Nat /\ x \notin S /\ x # 0
  OBVIOUS
<1>6. x - 1 \in Nat /\ (x - 1) + 1 = x /\ x - 1 < x
  BY <1>5
<1>7. x - 1 \in T
  BY <1>5, <1>6
<1>8. <<x - 1, x>> \in R
  BY <1>5, <1>6 DEF OpToRel
<1> QED
  BY <1>4, <1>7, <1>8

(* The function that FlattenSeq computes exists.                           *)
LEMMA FlattenRecursion ==
  ASSUME NEW S, NEW seqs \in Seq(Seq(S))
  PROVE  \E g : /\ g = [i \in 1..Len(seqs) |-> IF i = 1 THEN seqs[i] ELSE g[i-1] \o seqs[i]]
<1> DEFINE K == {n \in Nat : \E g : g = [i \in 1..n |-> IF i = 1 THEN seqs[i] ELSE g[i-1] \o seqs[i]]}
<1>1. 0 \in K
  <2>1. [i \in 1..0 |-> 0] = [i \in 1..0 |-> IF i = 1 THEN seqs[i] ELSE [j \in 1..0 |-> 0][i-1] \o seqs[i]]
    OBVIOUS
  <2> QED
    BY <2>1
<1>2. ASSUME NEW n \in Nat, n \in K PROVE n + 1 \in K
  <2>1. PICK g : g = [i \in 1..n |-> IF i = 1 THEN seqs[i] ELSE g[i-1] \o seqs[i]]
    BY <1>2
  <2> DEFINE h == [i \in 1..n+1 |-> IF i = 1 THEN seqs[1] ELSE g[i-1] \o seqs[i]]
  <2>2. ASSUME NEW i \in 1..n PROVE g[i] = h[i]
    <3>1. g[i] = IF i = 1 THEN seqs[i] ELSE g[i-1] \o seqs[i]
      BY <2>1
    <3>2. h[i] = IF i = 1 THEN seqs[1] ELSE g[i-1] \o seqs[i]
      OBVIOUS
    <3> QED
      BY <3>1, <3>2
  <2>3. ASSUME NEW i \in 1..n+1
        PROVE  h[i] = IF i = 1 THEN seqs[i] ELSE h[i-1] \o seqs[i]
    <3>1. h[i] = IF i = 1 THEN seqs[1] ELSE g[i-1] \o seqs[i]
      OBVIOUS
    <3>2. i # 1 => i - 1 \in 1..n
      OBVIOUS
    <3> HIDE DEF h
    <3> QED
      BY <2>2, <3>1, <3>2
  <2>4. h = [i \in 1..n+1 |-> IF i = 1 THEN seqs[i] ELSE h[i-1] \o seqs[i]]
    BY <2>3
  <2>5. \E f : f = [i \in 1..n+1 |-> IF i = 1 THEN seqs[i] ELSE f[i-1] \o seqs[i]]
    <3> HIDE DEF h
    <3> QED BY <2>4
  <2>6. n + 1 \in Nat
    OBVIOUS
  <2> HIDE DEF h
  <2> QED
    BY <2>5, <2>6, Zenon
<1>3. Nat \subseteq K
  <2> HIDE DEF K
  <2> QED BY <1>1, <1>2, SetInduction
<1>4. Len(seqs) \in Nat
  OBVIOUS
<1> QED
  BY <1>3, <1>4

(* FlattenSeq has the elements of all the sequences, and no others.        *)
LEMMA FlattenElements ==
  ASSUME NEW S, NEW seqs \in Seq(Seq(S))
  PROVE  /\ FlattenSeq(seqs) \in Seq(S)
         /\ Range(FlattenSeq(seqs)) = UNION {Range(seqs[i]) : i \in 1..Len(seqs)}
<1>1. CASE Len(seqs) = 0
  <2>1. FlattenSeq(seqs) = seqs /\ seqs = <<>>
    BY <1>1, EmptySeq DEF FlattenSeq
  <2> QED
    BY <1>1, <2>1 DEF Range
<1>2. CASE Len(seqs) # 0
  <2> DEFINE flatten == CHOOSE g : g = [i \in 1..Len(seqs) |-> IF i = 1 THEN seqs[i] ELSE g[i-1] \o seqs[i]]
  <2>1. FlattenSeq(seqs) = flatten[Len(seqs)]
    BY <1>2 DEF FlattenSeq
  <2>2. flatten = [i \in 1..Len(seqs) |-> IF i = 1 THEN seqs[i] ELSE flatten[i-1] \o seqs[i]]
    BY FlattenRecursion
  <2> HIDE DEF flatten
  <2> DEFINE Sofar(n) == /\ flatten[n] \in Seq(S)
                         /\ Range(flatten[n]) = UNION {Range(seqs[i]) : i \in 1..n}
             K == {n \in Nat : n \in 1..Len(seqs) => Sofar(n)}
  <2>3. Len(seqs) \in Nat /\ \A i \in 1..Len(seqs) : seqs[i] \in Seq(S)
    OBVIOUS
  <2>4. 0 \in K
    BY <2>3
  <2>5. ASSUME NEW n \in Nat, n \in K PROVE n + 1 \in K
    <3> SUFFICES ASSUME n + 1 \in 1..Len(seqs) PROVE Sofar(n+1)
      BY <2>3
    <3>1. (n + 1) - 1 = n /\ 1..n+1 = (1..n) \cup {n+1} /\ (n # 0 => n \in 1..Len(seqs))
      BY <2>3
    <3>2. seqs[n+1] \in Seq(S)
      BY <2>3
    <3>3. CASE n = 0
      <4>1. flatten[n+1] = seqs[n+1]
        BY <1>2, <2>2, <2>3, <3>3
      <4>2. UNION {Range(seqs[i]) : i \in 1..n+1} = Range(seqs[n+1])
        BY <3>3
      <4> QED
        BY <3>2, <4>1, <4>2
    <3>4. CASE n # 0
      <4>1. Sofar(n)
        BY <2>5, <3>1, <3>4
      <4>2. flatten[n+1] = flatten[n] \o seqs[n+1]
        <5>1. \A i \in 1..Len(seqs) : i # 1 => flatten[i] = flatten[i-1] \o seqs[i]
          BY <2>2
        <5>2. n + 1 # 1
          BY <3>4
        <5>3. flatten[n+1] = flatten[(n+1)-1] \o seqs[n+1]
          BY <5>1, <5>2, Zenon
        <5> QED
          BY <3>1, <5>3
      <4>3. flatten[n+1] \in Seq(S)
        BY <4>1, <4>2, <3>2, ConcatProperties
      <4>4. Range(flatten[n+1]) = Range(flatten[n]) \cup Range(seqs[n+1])
        BY <4>1, <4>2, <3>2, RangeConcatenation
      <4>5. UNION {Range(seqs[i]) : i \in 1..n+1}
              = (UNION {Range(seqs[i]) : i \in 1..n}) \cup Range(seqs[n+1])
        BY <3>1
      <4> QED
        BY <4>1, <4>3, <4>4, <4>5
    <3> QED
      BY <3>3, <3>4
  <2>6. Nat \subseteq K
    <3> HIDE DEF K
    <3> QED BY <2>4, <2>5, SetInduction
  <2>7. Len(seqs) \in 1..Len(seqs)
    BY <1>2, <2>3
  <2> QED
    BY <2>1, <2>3, <2>6, <2>7
<1> QED
  BY <1>1, <1>2

(* What is in the range of a sequence is at one of its places.             *)
LEMMA RangeElements ==
  ASSUME NEW S, NEW s \in Seq(S)
  PROVE  \A x : x \in Range(s) <=> \E i \in 1..Len(s) : s[i] = x
<1>1. DOMAIN s = 1..Len(s)
  OBVIOUS
<1> QED
  BY <1>1, Zenon DEF Range

(* A sequence of one element.                                              *)
LEMMA OneElement ==
  ASSUME NEW S, NEW x \in S
  PROVE  <<x>> \in Seq(S) /\ Len(<<x>>) = 1 /\ <<x>>[1] = x
OBVIOUS

(* A function on the first numbers is a sequence.                          *)
LEMMA FunctionIsSequence ==
  ASSUME NEW S, NEW n \in Nat, NEW f \in [1..n -> S]
  PROVE  f \in Seq(S) /\ Len(f) = n /\ DOMAIN f = 1..n
OBVIOUS

(* The start of a sequence.                                                *)
LEMMA PrefixFacts ==
  ASSUME NEW S, NEW s \in Seq(S), NEW k \in Nat, k <= Len(s)
  PROVE  /\ SubSeq(s, 1, k) \in Seq(S) /\ Len(SubSeq(s, 1, k)) = k
         /\ DOMAIN SubSeq(s, 1, k) = 1..k
         /\ \A m \in 1..k : SubSeq(s, 1, k)[m] = s[m]
<1> DEFINE r == SubSeq(s, 1, k)
<1>1. 1 \in Int /\ k \in Int /\ \A m \in 1..k : s[m] \in S
  OBVIOUS
<1>2. /\ r \in Seq(S) /\ Len(r) = IF 1 <= k THEN k-1+1 ELSE 0
      /\ \A m \in 1..k-1+1 : r[m] = s[1+m-1]
  BY <1>1, SubSeqProperties
<1> HIDE DEF r
<1>3. Len(r) = k
  BY <1>1, <1>2
<1>4. DOMAIN r = 1..k
  BY <1>2, <1>3
<1>5. ASSUME NEW m \in 1..k PROVE r[m] = s[m]
  <2>1. m \in 1..k-1+1 /\ 1+m-1 = m
    BY <1>1
  <2> QED
    BY <1>2, <2>1
<1> QED
  BY <1>2, <1>3, <1>4, <1>5 DEF r

(* What is left of a sequence without one of its elements.                 *)
LEMMA RemoveAtTypes ==
  ASSUME NEW S, NEW s \in Seq(S), NEW i \in DOMAIN s
  PROVE  /\ RemoveAt(s, i) \in Seq(S) /\ Len(RemoveAt(s, i)) = Len(s) - 1
         /\ \A j \in 1..Len(s) - 1 : RemoveAt(s, i)[j] = IF j < i THEN s[j] ELSE s[j + 1]
<1>1. Len(s) \in Nat /\ i \in 1..Len(s) /\ \A j \in 1..Len(s) : s[j] \in S
  OBVIOUS
<1>2. /\ SubSeq(s, 1, i-1) \in Seq(S) /\ Len(SubSeq(s, 1, i-1)) = i - 1
      /\ \A j \in 1..i-1 : SubSeq(s, 1, i-1)[j] = s[j]
  BY <1>1, SubSeqProperties
<1>3. /\ SubSeq(s, i+1, Len(s)) \in Seq(S) /\ Len(SubSeq(s, i+1, Len(s))) = Len(s) - i
      /\ \A j \in 1..Len(s)-i : SubSeq(s, i+1, Len(s))[j] = s[i+j]
  <2>1. i + 1 \in Int /\ Len(s) \in Int /\ \A j \in i+1..Len(s) : s[j] \in S
    BY <1>1
  <2>2. /\ SubSeq(s, i+1, Len(s)) \in Seq(S)
        /\ Len(SubSeq(s, i+1, Len(s))) = IF i+1 <= Len(s) THEN Len(s)-(i+1)+1 ELSE 0
        /\ \A j \in 1..Len(s)-(i+1)+1 : SubSeq(s, i+1, Len(s))[j] = s[(i+1)+j-1]
    BY <2>1, SubSeqProperties
  <2>3. \A j \in 1..Len(s)-i : j \in 1..Len(s)-(i+1)+1 /\ (i+1)+j-1 = i+j
    BY <1>1
  <2> QED
    BY <1>1, <2>2, <2>3
<1>4. /\ RemoveAt(s, i) \in Seq(S) /\ Len(RemoveAt(s, i)) = Len(s) - 1
      /\ \A j \in 1..Len(s) - 1 :
           RemoveAt(s, i)[j] = IF j <= i - 1 THEN SubSeq(s, 1, i-1)[j] ELSE SubSeq(s, i+1, Len(s))[j - (i - 1)]
  <2> DEFINE a == SubSeq(s, 1, i-1)
             b == SubSeq(s, i+1, Len(s))
  <2>1. a \in Seq(S) /\ b \in Seq(S) /\ Len(a) = i - 1 /\ Len(b) = Len(s) - i
    BY <1>2, <1>3
  <2>2. RemoveAt(s, i) = a \o b
    BY DEF RemoveAt
  <2> HIDE DEF a, b
  <2>3. Len(a) + Len(b) = Len(s) - 1
    BY <1>1, <2>1
  <2>4. /\ a \o b \in Seq(S) /\ Len(a \o b) = Len(a) + Len(b)
        /\ \A j \in 1..Len(a) + Len(b) : (a \o b)[j] = IF j <= Len(a) THEN a[j] ELSE b[j - Len(a)]
    BY <2>1, ConcatProperties
  <2>5. /\ RemoveAt(s, i) \in Seq(S) /\ Len(RemoveAt(s, i)) = Len(s) - 1
        /\ \A j \in 1..Len(s) - 1 : RemoveAt(s, i)[j] = IF j <= i - 1 THEN a[j] ELSE b[j - (i - 1)]
    BY <2>1, <2>2, <2>3, <2>4
  <2> QED
    BY <2>5 DEF a, b
<1>5. ASSUME NEW j \in 1..Len(s) - 1 PROVE RemoveAt(s, i)[j] = IF j < i THEN s[j] ELSE s[j + 1]
  <2>1. CASE j < i
    <3>1. j \in 1..i-1
      BY <1>1, <2>1
    <3> QED
      BY <1>1, <1>2, <1>4, <2>1, <3>1
  <2>2. CASE ~(j < i)
    <3>1. j - (i - 1) \in 1..Len(s)-i /\ i + (j - (i - 1)) = j + 1 /\ ~(j <= i - 1)
      BY <1>1, <2>2
    <3> QED
      BY <1>3, <1>4, <2>2, <3>1
  <2> QED
    BY <2>1, <2>2
<1> QED
  BY <1>4, <1>5
=============================================================================
