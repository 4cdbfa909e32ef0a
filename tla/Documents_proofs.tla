-------------------------- MODULE Documents_proofs --------------------------
(***************************************************************************)
(* Proofs that chunks are whole and that the two stores answer alike, for  *)
(* every text, store, setting and search.  What chunk_text and the stores  *)
(* compute is described by functions on positions, segments and sets of    *)
(* summands; that these functions exist, and what they return, is shown by *)
(* induction on how far they have come (SetInduction).                     *)
(***************************************************************************)
EXTENDS Documents, SequenceLemmas, FiniteSetTheorems, Integers

-----------------------------------------------------------------------------
(* Texts and their stretches.                                              *)

(* A text that strip() leaves as it is, and not empty.                     *)
Inked(s) == s \in Seq(Nat) /\ Len(s) >= 1 /\ s[1] \notin White /\ s[Len(s)] \notin White

(* The text t is a stretch of the text s.                                  *)
Has(s, t) == \E at \in 0..Len(s) - Len(t) : \A m \in 1..Len(t) : s[at + m] = t[m]

(* A set of positions that is not empty has a first and a last one.        *)
LEMMA LastExists ==
  ASSUME NEW n \in Nat, NEW T, T \subseteq 1..n, T # {}
  PROVE  Max(T) \in T /\ \A y \in T : Max(T) >= y
<1> DEFINE K == {k \in Nat : \A U \in SUBSET (1..k) : U # {} => \E x \in U : \A y \in U : x >= y}
<1>1. 0 \in K
  <2>1. 1..0 = {} /\ 0 \in Nat
    OBVIOUS
  <2> QED
    BY <2>1, Zenon
<1>2. ASSUME NEW k \in Nat, k \in K PROVE k + 1 \in K
  <2>1. ASSUME NEW U \in SUBSET (1..k+1), U # {} PROVE \E x \in U : \A y \in U : x >= y
    <3>1. CASE k + 1 \in U
      BY <3>1
    <3>2. CASE k + 1 \notin U
      <4>1. U \in SUBSET (1..k)
        BY <3>2
      <4> QED
        BY <1>2, <2>1, <4>1
    <3> QED
      BY <3>1, <3>2
  <2> QED
    BY <2>1
<1>3. Nat \subseteq K
  <2> HIDE DEF K
  <2> QED BY <1>1, <1>2, SetInduction
<1>4. \E x \in T : \A y \in T : x >= y
  BY <1>3
<1> QED
  BY <1>4 DEF Max

(* The first of them.                                                      *)
LEMMA FirstExists ==
  ASSUME NEW n \in Nat, NEW T, T \subseteq 1..n, T # {}
  PROVE  Min(T) \in T /\ \A y \in T : Min(T) =< y
<1> DEFINE K == {k \in Nat : \A U \in SUBSET (1..k) : U # {} => \E x \in U : \A y \in U : x =< y}
<1>1. 0 \in K
  <2>1. 1..0 = {} /\ 0 \in Nat
    OBVIOUS
  <2> QED
    BY <2>1, Zenon
<1>2. ASSUME NEW k \in Nat, k \in K PROVE k + 1 \in K
  <2>1. ASSUME NEW U \in SUBSET (1..k+1), U # {} PROVE \E x \in U : \A y \in U : x =< y
    <3>1. CASE U = {k + 1}
      BY <3>1
    <3>2. CASE U # {k + 1}
      <4>1. U \ {k + 1} \in SUBSET (1..k) /\ U \ {k + 1} # {}
        BY <2>1, <3>2
      <4>2. PICK x \in U \ {k + 1} : \A y \in U \ {k + 1} : x =< y
        BY <1>2, <4>1
      <4>3. \A y \in U : x =< y
        BY <4>1, <4>2
      <4> QED
        BY <4>3
    <3> QED
      BY <3>1, <3>2
  <2> QED
    BY <2>1
<1>3. Nat \subseteq K
  <2> HIDE DEF K
  <2> QED BY <1>1, <1>2, SetInduction
<1>4. \E x \in T : \A y \in T : x =< y
  BY <1>3
<1> QED
  BY <1>4 DEF Min

(* Strip leaves nothing of a text without ink, and else a text that starts *)
(* and ends with ink and has every such stretch of the text.               *)
LEMMA StripFacts ==
  ASSUME NEW s \in Seq(Nat)
  PROVE  /\ Strip(s) = <<>> \/ (Inked(Strip(s)) /\ Len(Strip(s)) <= Len(s))
         /\ \A t : Inked(t) /\ Has(s, t) => Has(Strip(s), t)
<1> DEFINE ink == {i \in DOMAIN s : s[i] \notin White}
<1>1. Len(s) \in Nat /\ DOMAIN s = 1..Len(s) /\ \A i \in 1..Len(s) : s[i] \in Nat
  OBVIOUS
<1>2. ink \subseteq 1..Len(s)
  BY <1>1
<1>3. CASE ink = {}
  <2>1. Strip(s) = <<>>
    BY <1>3 DEF Strip
  <2>2. ASSUME NEW t, Inked(t), Has(s, t) PROVE FALSE
    <3>1. PICK at \in 0..Len(s) - Len(t) : \A m \in 1..Len(t) : s[at + m] = t[m]
      BY <2>2 DEF Has
    <3>2. Len(t) \in Nat /\ Len(t) >= 1 /\ t[1] \notin White
      BY <2>2 DEF Inked
    <3>3. at + 1 \in 1..Len(s) /\ s[at + 1] = t[1]
      BY <1>1, <3>1, <3>2
    <3> QED
      BY <1>1, <1>3, <3>2, <3>3
  <2> QED
    BY <2>1, <2>2
<1>4. CASE ink # {}
  <2> DEFINE a == Min(ink)
             b == Max(ink)
             r == Strip(s)
  <2>1. r = SubSeq(s, a, b)
    BY <1>4 DEF Strip
  <2>2. a \in ink /\ \A y \in ink : a =< y
    <3> HIDE DEF ink
    <3> QED BY <1>1, <1>2, <1>4, FirstExists
  <2>3. b \in ink /\ \A y \in ink : b >= y
    <3> HIDE DEF ink
    <3> QED BY <1>1, <1>2, <1>4, LastExists
  <2> HIDE DEF a, b, r
  <2>4. a \in 1..Len(s) /\ b \in 1..Len(s) /\ a <= b /\ s[a] \notin White /\ s[b] \notin White
    BY <1>1, <2>2, <2>3
  <2>5. /\ r \in Seq(Nat) /\ Len(r) = b - a + 1
        /\ \A i \in 1..b-a+1 : r[i] = s[a+i-1]
    <3>1. a \in Int /\ b \in Int /\ \A i \in a..b : s[i] \in Nat
      BY <1>1, <2>4
    <3> QED
      BY <2>1, <2>4, <3>1, SubSeqProperties
  <2>6. Inked(r) /\ Len(r) <= Len(s)
    <3>1. r[1] = s[a] /\ r[b-a+1] = s[b]
      <4>1. 1 \in 1..b-a+1 /\ a+1-1 = a /\ b-a+1 \in 1..b-a+1 /\ a+(b-a+1)-1 = b
        BY <1>1, <2>4
      <4> QED
        BY <2>5, <4>1
    <3>2. Len(r) >= 1 /\ Len(r) <= Len(s)
      BY <1>1, <2>4, <2>5
    <3> QED
      BY <2>4, <2>5, <3>1, <3>2 DEF Inked
  <2>7. ASSUME NEW t, Inked(t), Has(s, t) PROVE Has(r, t)
    <3>1. PICK at \in 0..Len(s) - Len(t) : \A m \in 1..Len(t) : s[at + m] = t[m]
      BY <2>7 DEF Has
    <3>2. Len(t) \in Nat /\ Len(t) >= 1 /\ t[1] \notin White /\ t[Len(t)] \notin White
      BY <2>7 DEF Inked
    <3>3. at + 1 \in 1..Len(s) /\ s[at + 1] = t[1] /\ at + Len(t) \in 1..Len(s) /\ s[at + Len(t)] = t[Len(t)]
      BY <1>1, <3>1, <3>2
    <3>4. at + 1 \in ink /\ at + Len(t) \in ink
      BY <1>1, <3>2, <3>3
    <3>5. a <= at + 1 /\ at + Len(t) <= b
      BY <2>2, <2>3, <2>4, <3>2, <3>4
    <3>6. at + 1 - a \in 0..Len(r) - Len(t)
      BY <1>1, <2>4, <2>5, <3>1, <3>2, <3>5
    <3>7. ASSUME NEW m \in 1..Len(t) PROVE r[(at + 1 - a) + m] = t[m]
      <4>1. at \in Nat /\ a \in Nat /\ b \in Nat /\ m \in Nat /\ 1 <= m /\ m <= Len(t)
        BY <2>4, <3>2
      <4>2. at + m <= b /\ a <= at + m
        BY <3>2, <3>5, <4>1
      <4>3. (at + 1 - a) + m \in 1..b-a+1 /\ a+((at + 1 - a) + m)-1 = at + m
        BY <3>5, <4>1, <4>2
      <4> QED
        BY <2>5, <3>1, <4>3
    <3> QED
      BY <3>6, <3>7 DEF Has
  <2> QED
    BY <2>6, <2>7 DEF r
<1> QED
  BY <1>3, <1>4

(* What two texts have, the two together have.                             *)
LEMMA HasJoined ==
  ASSUME NEW a \in Seq(Nat), NEW b \in Seq(Nat), NEW t \in Seq(Nat), Has(a, t) \/ Has(b, t)
  PROVE  Has(a \o b, t)
<1>1. /\ Len(a \o b) = Len(a) + Len(b)
      /\ \A i \in 1..Len(a) + Len(b) : (a \o b)[i] = IF i <= Len(a) THEN a[i] ELSE b[i - Len(a)]
  BY ConcatProperties
<1> DEFINE c == a \o b
<1>2. Len(a) \in Nat /\ Len(b) \in Nat /\ Len(t) \in Nat
  OBVIOUS
<1> HIDE DEF c
<1>3. CASE Has(a, t)
  <2>1. PICK at \in 0..Len(a) - Len(t) : \A m \in 1..Len(t) : a[at + m] = t[m]
    BY <1>3 DEF Has
  <2>2. at \in 0..Len(c) - Len(t)
    BY <1>1, <1>2 DEF c
  <2>3. ASSUME NEW m \in 1..Len(t) PROVE c[at + m] = t[m]
    <3>1. at + m \in 1..Len(a) + Len(b) /\ at + m <= Len(a)
      BY <1>2
    <3> QED
      BY <1>1, <2>1, <3>1 DEF c
  <2> QED
    BY <2>2, <2>3 DEF Has, c
<1>4. CASE Has(b, t)
  <2>1. PICK at \in 0..Len(b) - Len(t) : \A m \in 1..Len(t) : b[at + m] = t[m]
    BY <1>4 DEF Has
  <2>2. Len(a) + at \in 0..Len(c) - Len(t)
    BY <1>1, <1>2 DEF c
  <2>3. ASSUME NEW m \in 1..Len(t) PROVE c[(Len(a) + at) + m] = t[m]
    <3>1. (Len(a) + at) + m \in 1..Len(a) + Len(b) /\ ~((Len(a) + at) + m <= Len(a))
          /\ ((Len(a) + at) + m) - Len(a) = at + m
      BY <1>2
    <3> QED
      BY <1>1, <2>1, <3>1 DEF c
  <2> QED
    BY <2>2, <2>3 DEF Has, c
<1> QED
  BY <1>3, <1>4

(* The text itself is a stretch of it.                                     *)
LEMMA HasItself ==
  ASSUME NEW s \in Seq(Nat)
  PROVE  Has(s, s)
<1>1. Len(s) \in Nat /\ 0 \in 0..Len(s) - Len(s) /\ \A m \in 1..Len(s) : s[0 + m] = s[m]
  OBVIOUS
<1> QED
  BY <1>1 DEF Has

(* A stretch is not longer than the text.                                  *)
LEMMA HasRoom ==
  ASSUME NEW s \in Seq(Nat), NEW t \in Seq(Nat), Has(s, t)
  PROVE  Len(t) <= Len(s)
<1>1. PICK at \in 0..Len(s) - Len(t) : \A m \in 1..Len(t) : s[at + m] = t[m]
  BY DEF Has
<1>2. Len(s) \in Nat /\ Len(t) \in Nat
  OBVIOUS
<1> QED
  BY <1>1, <1>2

(* A part of a text is one of its stretches, and of every part around it.  *)
LEMMA PartFacts ==
  ASSUME NEW s \in Seq(Nat), NEW i \in 1..Len(s), NEW j \in i..Len(s)
  PROVE  /\ SubSeq(s, i, j) \in Seq(Nat) /\ Len(SubSeq(s, i, j)) = j - i + 1
         /\ \A m \in 1..j-i+1 : SubSeq(s, i, j)[m] = s[i+m-1]
         /\ s[i] \notin White /\ s[j] \notin White => Inked(SubSeq(s, i, j))
<1>1. Len(s) \in Nat /\ i \in Int /\ j \in Int /\ i <= j /\ \A k \in i..j : s[k] \in Nat
  OBVIOUS
<1>2. /\ SubSeq(s, i, j) \in Seq(Nat) /\ Len(SubSeq(s, i, j)) = j - i + 1
      /\ \A m \in 1..j-i+1 : SubSeq(s, i, j)[m] = s[i+m-1]
  BY <1>1, SubSeqProperties
<1>3. 1 \in 1..j-i+1 /\ i+1-1 = i /\ j-i+1 \in 1..j-i+1 /\ i+(j-i+1)-1 = j
  BY <1>1
<1> QED
  BY <1>1, <1>2, <1>3 DEF Inked

(* A part of a part is a stretch of it.                                    *)
LEMMA HasPart ==
  ASSUME NEW s \in Seq(Nat), NEW a \in 1..Len(s), NEW b \in a..Len(s), NEW i \in a..b, NEW j \in i..b
  PROVE  Has(SubSeq(s, a, b), SubSeq(s, i, j))
<1> DEFINE r == SubSeq(s, a, b)
           t == SubSeq(s, i, j)
<1>0. /\ Len(s) \in Nat /\ a \in Nat /\ b \in Nat /\ i \in Nat /\ j \in Nat
      /\ 1 <= a /\ a <= i /\ i <= j /\ j <= b /\ b <= Len(s)
      /\ i \in 1..Len(s) /\ j \in i..Len(s)
  OBVIOUS
<1>1. Len(r) = b - a + 1 /\ \A m \in 1..b-a+1 : r[m] = s[a+m-1]
  BY PartFacts
<1>2. Len(t) = j - i + 1 /\ \A m \in 1..j-i+1 : t[m] = s[i+m-1]
  BY <1>0, PartFacts
<1> HIDE DEF r, t
<1>3. i - a \in 0..Len(r) - Len(t)
  BY <1>0, <1>1, <1>2
<1>4. ASSUME NEW m \in 1..Len(t) PROVE r[(i - a) + m] = t[m]
  <2>1. (i - a) + m \in 1..b-a+1 /\ a+((i - a) + m)-1 = i+m-1 /\ m \in 1..j-i+1
    BY <1>0, <1>2
  <2> QED
    BY <1>1, <1>2, <2>1
<1> QED
  BY <1>3, <1>4 DEF Has, r, t

-----------------------------------------------------------------------------
(* Windows: _wrap_long_paragraph cuts a paragraph into windows that        *)
(* overlap.                                                                *)

(* The settings under which nothing that fits the overlap is torn.         *)
Fits(max, overlap) == max \in Nat /\ overlap \in Nat /\ overlap < max /\ 2 * overlap <= max

(* A window is cut after more characters than the overlap has.             *)
LEMMA CutFacts ==
  ASSUME NEW max, NEW overlap, Fits(max, overlap),
         NEW window \in Seq(Nat), Len(window) = max
  PROVE  Cut(window, max) \in overlap+1..max
<1> DEFINE late == {i \in DOMAIN window : window[i] = Space /\ i - 1 > max \div 2}
<1>1. max \in Nat /\ overlap \in Nat /\ overlap < max /\ 2 * overlap <= max
  BY DEF Fits
<1>2. DOMAIN window = 1..max
  OBVIOUS
<1>3. overlap <= max \div 2
  BY <1>1
<1>4. CASE late = {}
  BY <1>1, <1>4 DEF Cut
<1>5. CASE late # {}
  <2>1. Cut(window, max) = Max(late)
    BY <1>5 DEF Cut
  <2>2. late \subseteq 1..max
    BY <1>2
  <2>3. Max(late) \in late
    <3> HIDE DEF late
    <3> QED BY <1>1, <1>5, <2>2, LastExists
  <2>4. Max(late) \in 1..max /\ Max(late) - 1 > max \div 2
    BY <1>2, <2>3
  <2>5. max \div 2 \in Nat
    BY <1>1
  <2> QED
    BY <1>1, <1>3, <2>1, <2>4, <2>5
<1> QED
  BY <1>4, <1>5

(* A window ends in the paragraph, and before its end only after more      *)
(* characters than the overlap has.                                        *)
LEMMA WindowFacts ==
  ASSUME NEW max, NEW overlap, Fits(max, overlap),
         NEW paragraph \in Seq(Nat), NEW position \in 0..Len(paragraph) - 1
  PROVE  LET end == WindowEnd(paragraph, position, max)
         IN /\ end \in position+1..Len(paragraph) /\ end - position <= max
            /\ end = Len(paragraph) \/ end - position > overlap
<1> DEFINE end == WindowEnd(paragraph, position, max)
<1>1. max \in Nat /\ overlap \in Nat /\ overlap < max /\ Len(paragraph) \in Nat /\ position \in Nat
      /\ position < Len(paragraph) /\ DOMAIN paragraph = 1..Len(paragraph)
      /\ \A i \in 1..Len(paragraph) : paragraph[i] \in Nat
  BY DEF Fits
<1>2. CASE position + max >= Len(paragraph)
  <2>1. end = Len(paragraph)
    BY <1>2 DEF WindowEnd
  <2> HIDE DEF end
  <2>2. /\ end \in position+1..Len(paragraph) /\ end - position <= max
        /\ end = Len(paragraph) \/ end - position > overlap
    BY <1>1, <1>2, <2>1
  <2> QED
    BY <2>2 DEF end
<1>3. CASE ~(position + max >= Len(paragraph))
  <2> DEFINE window == SubSeq(paragraph, position + 1, position + max)
             cut == Cut(window, max)
  <2>1. end = position + cut
    BY <1>3 DEF WindowEnd
  <2>2. window \in Seq(Nat) /\ Len(window) = max
    <3>1. /\ position + 1 \in Int /\ position + max \in Int /\ position + 1 <= position + max
          /\ \A i \in position + 1..position + max : i \in 1..Len(paragraph)
      BY <1>1, <1>3
    <3>2. \A i \in position + 1..position + max : paragraph[i] \in Nat
      BY <1>1, <3>1
    <3>3. window \in Seq(Nat) /\ Len(window) = (position + max) - (position + 1) + 1
      BY <3>1, <3>2, SubSeqProperties
    <3>4. (position + max) - (position + 1) + 1 = max
      BY <1>1
    <3> QED
      BY <3>3, <3>4
  <2>3. cut \in overlap+1..max
    <3> HIDE DEF window
    <3> QED BY <2>2, CutFacts
  <2> HIDE DEF end, window, cut
  <2>4. /\ end \in position+1..Len(paragraph) /\ end - position <= max
        /\ end = Len(paragraph) \/ end - position > overlap
    <3>1. cut \in Nat /\ overlap < cut /\ cut <= max /\ position + max < Len(paragraph)
      BY <1>1, <1>3, <2>3
    <3>2. Len(paragraph) \in Nat /\ position \in Nat /\ max \in Nat /\ overlap \in Nat
      BY <1>1
    <3>3. end - position = cut /\ end \in Nat /\ position + 1 <= end /\ end <= Len(paragraph)
      BY <2>1, <3>1, <3>2
    <3>4. end \in position+1..Len(paragraph)
      BY <3>2, <3>3
    <3> QED
      BY <3>1, <3>3, <3>4
  <2> QED
    BY <2>4 DEF end
<1> QED
  BY <1>2, <1>3

(* The next window starts further on, and what starts before it and fits   *)
(* the overlap ended in the window before.                                 *)
LEMMA NextFacts ==
  ASSUME NEW max, NEW overlap, Fits(max, overlap), NEW n \in Nat,
         NEW position \in 0..n - 1, NEW end \in position+1..n, end # n, end - position > overlap
  PROVE  LET next == NextPosition(position, end, overlap)
         IN /\ next \in position+1..n
            /\ \A i \in 1..n, j \in 1..n : i <= j /\ j - i <= overlap /\ j > end => i > next
<1> DEFINE next == NextPosition(position, end, overlap)
<1>1. max \in Nat /\ overlap \in Nat /\ position \in Nat /\ end \in Nat /\ position < end /\ end < n
  BY DEF Fits
<1>2. next = end - overlap
  BY <1>1 DEF NextPosition
<1> HIDE DEF next
<1>3. next \in position+1..n
  BY <1>1, <1>2
<1>4. \A i \in 1..n, j \in 1..n : i <= j /\ j - i <= overlap /\ j > end => i > next
  BY <1>1, <1>2
<1> QED
  BY <1>3, <1>4 DEF next

(* What a window leaves has every stretch of the window.                   *)
LEMMA PieceFacts ==
  ASSUME NEW max \in Nat, NEW paragraph \in Seq(Nat), NEW position \in 0..Len(paragraph) - 1,
         NEW end \in position+1..Len(paragraph), end - position <= max
  PROVE  LET piece == Piece(paragraph, position, end)
         IN /\ piece \in Seq(Seq(Nat))
            /\ \A q \in 1..Len(piece) : Inked(piece[q]) /\ Len(piece[q]) <= max
            /\ \A i \in position+1..end : \A j \in i..end :
                 paragraph[i] \notin White /\ paragraph[j] \notin White =>
                   \E q \in 1..Len(piece) : Has(piece[q], SubSeq(paragraph, i, j))
<1> DEFINE window == SubSeq(paragraph, position + 1, end)
           stripped == Strip(window)
           piece == Piece(paragraph, position, end)
<1>1. /\ Len(paragraph) \in Nat /\ position \in Nat /\ end \in Nat
      /\ position + 1 \in 1..Len(paragraph) /\ end \in position + 1..Len(paragraph)
  OBVIOUS
<1>2. window \in Seq(Nat) /\ Len(window) <= max
  <2>1. window \in Seq(Nat) /\ Len(window) = end - (position + 1) + 1
    BY <1>1, PartFacts
  <2>2. end - (position + 1) + 1 = end - position
    BY <1>1
  <2> QED
    BY <2>1, <2>2
<1>3. ASSUME NEW i \in position+1..end, NEW j \in i..end
      PROVE  Has(window, SubSeq(paragraph, i, j))
  BY <1>1, HasPart
<1>4. ASSUME NEW i \in position+1..end, NEW j \in i..end,
             paragraph[i] \notin White, paragraph[j] \notin White
      PROVE  Inked(SubSeq(paragraph, i, j))
  <2>1. i \in 1..Len(paragraph) /\ j \in i..Len(paragraph)
    BY <1>1
  <2> QED
    BY <1>4, <2>1, PartFacts
<1> HIDE DEF window
<1>5. stripped = <<>> \/ (Inked(stripped) /\ Len(stripped) <= Len(window))
  BY <1>2, StripFacts
<1>6. ASSUME NEW i \in position+1..end, NEW j \in i..end,
             paragraph[i] \notin White, paragraph[j] \notin White
      PROVE  Has(stripped, SubSeq(paragraph, i, j))
  <2> DEFINE t == SubSeq(paragraph, i, j)
  <2>1. Inked(t) /\ Has(window, t)
    BY <1>3, <1>4, <1>6
  <2> HIDE DEF t
  <2>2. Has(stripped, t)
    BY <1>2, <2>1, StripFacts
  <2> QED
    BY <2>2 DEF t
<1>7. piece = IF stripped = <<>> THEN <<>> ELSE <<stripped>>
  BY DEF Piece, window
<1> HIDE DEF stripped, piece
<1>8. CASE stripped = <<>>
  <2>1. piece = <<>>
    BY <1>7, <1>8
  <2>2. ASSUME NEW i \in position+1..end, NEW j \in i..end,
               paragraph[i] \notin White, paragraph[j] \notin White
        PROVE  FALSE
    <3> DEFINE t == SubSeq(paragraph, i, j)
    <3>1. Has(stripped, t) /\ Inked(t)
      BY <1>4, <1>6, <2>2
    <3> HIDE DEF t
    <3>2. t \in Seq(Nat) /\ Len(t) >= 1 /\ stripped \in Seq(Nat) /\ Len(stripped) = 0
      BY <1>8, <3>1 DEF Inked
    <3>3. Len(t) <= Len(stripped)
      BY <3>1, <3>2, HasRoom
    <3> QED
      BY <3>2, <3>3
  <2>3. /\ piece \in Seq(Seq(Nat))
        /\ \A q \in 1..Len(piece) : Inked(piece[q]) /\ Len(piece[q]) <= max
        /\ \A i \in position+1..end : \A j \in i..end :
             paragraph[i] \notin White /\ paragraph[j] \notin White =>
               \E q \in 1..Len(piece) : Has(piece[q], SubSeq(paragraph, i, j))
    BY <2>1, <2>2
  <2> QED
    BY <2>3 DEF piece
<1>9. CASE stripped # <<>>
  <2>1. piece = <<stripped>>
    BY <1>7, <1>9
  <2>2. Inked(stripped) /\ stripped \in Seq(Nat) /\ Len(stripped) <= max
    <3>1. Inked(stripped) /\ Len(stripped) <= Len(window)
      BY <1>5, <1>9
    <3>2. stripped \in Seq(Nat)
      BY <3>1 DEF Inked
    <3> QED
      BY <1>2, <3>1, <3>2
  <2>3. piece \in Seq(Seq(Nat)) /\ Len(piece) = 1 /\ piece[1] = stripped
    BY <2>1, <2>2, OneElement
  <2>4. /\ piece \in Seq(Seq(Nat))
        /\ \A q \in 1..Len(piece) : Inked(piece[q]) /\ Len(piece[q]) <= max
        /\ \A i \in position+1..end : \A j \in i..end :
             paragraph[i] \notin White /\ paragraph[j] \notin White =>
               \E q \in 1..Len(piece) : Has(piece[q], SubSeq(paragraph, i, j))
    <3>1. \A q \in 1..Len(piece) : Inked(piece[q]) /\ Len(piece[q]) <= max
      BY <2>2, <2>3
    <3>2. ASSUME NEW i \in position+1..end, NEW j \in i..end,
                 paragraph[i] \notin White, paragraph[j] \notin White
          PROVE  \E q \in 1..Len(piece) : Has(piece[q], SubSeq(paragraph, i, j))
      <4>1. Has(piece[1], SubSeq(paragraph, i, j))
        BY <1>6, <2>3, <3>2
      <4> QED
        BY <2>3, <4>1
    <3> QED
      BY <2>3, <3>1, <3>2
  <2> QED
    BY <2>4 DEF piece
<1> QED
  BY <1>8, <1>9

(* What a fold of the pieces must satisfy at a position.                   *)
Wraps(g, paragraph, max, overlap, position) ==
  g[position] =
    IF position = Len(paragraph) THEN <<>>
    ELSE Piece(paragraph, position, WindowEnd(paragraph, position, max)) \o
         (IF WindowEnd(paragraph, position, max) = Len(paragraph) THEN <<>>
          ELSE g[NextPosition(position, WindowEnd(paragraph, position, max), overlap)])

(* The function Wrap computes exists: from the end of the paragraph back,  *)
(* each position asks for positions further on only.                       *)
LEMMA WrapRecursion ==
  ASSUME NEW max, NEW overlap, Fits(max, overlap), NEW paragraph \in Seq(Nat)
  PROVE  \E g : /\ g = [position \in 0..Len(paragraph) |-> g[position]]
                /\ \A position \in 0..Len(paragraph) : Wraps(g, paragraph, max, overlap, position)
<1> DEFINE n == Len(paragraph)
           W(g, position) == Wraps(g, paragraph, max, overlap, position)
           K == {m \in Nat : m <= n => \E g : g = [position \in 0..n |-> g[position]]
                                              /\ \A position \in n-m..n : W(g, position)}
<1>1. n \in Nat
  OBVIOUS
<1>2. 0 \in K
  <2> DEFINE g == [position \in 0..n |-> <<>>]
  <2>1. g = [position \in 0..n |-> g[position]]
    OBVIOUS
  <2>2. g[n] = <<>>
    BY <1>1
  <2>3. \A position \in n-0..n : position = n
    BY <1>1
  <2>4. W(g, n)
    BY <2>2, Zenon DEF Wraps
  <2> HIDE DEF g, W, n
  <2>5. \A position \in n-0..n : W(g, position)
    BY <2>3, <2>4
  <2>6. 0 \in Nat
    OBVIOUS
  <2> QED
    BY <2>1, <2>5, <2>6
<1>3. ASSUME NEW m \in Nat, m \in K PROVE m + 1 \in K
  <2> SUFFICES ASSUME m + 1 <= n
               PROVE  \E g : g = [position \in 0..n |-> g[position]]
                             /\ \A position \in n-(m+1)..n : W(g, position)
    <3>1. m + 1 \in Nat
      OBVIOUS
    <3> HIDE DEF W, n
    <3> QED
      BY <3>1, Zenon
  <2>1. m <= n
    BY <1>1
  <2>2. PICK g : g = [position \in 0..n |-> g[position]] /\ \A position \in n-m..n : W(g, position)
    BY <1>3, <2>1
  <2> DEFINE here == n - (m + 1)
             end == WindowEnd(paragraph, here, max)
             next == NextPosition(here, end, overlap)
             value == Piece(paragraph, here, end) \o (IF end = n THEN <<>> ELSE g[next])
             h == [g EXCEPT ![here] = value]
  <2>3. here \in 0..n /\ here \in 0..n-1 /\ here # n /\ \A position \in here..n : position = here \/ position \in n-m..n
    BY <1>1
  <2>4. end \in here+1..n /\ (end = n \/ end - here > overlap)
    <3> HIDE DEF here
    <3> QED BY <2>3, WindowFacts
  <2>5. end # n => next \in here+1..n
    <3> HIDE DEF here, end, n
    <3> QED BY <1>1, <2>3, <2>4, NextFacts
  <2>6. h = [position \in 0..n |-> h[position]] /\ h[here] = value
        /\ \A position \in 0..n : position # here => h[position] = g[position]
    <3> HIDE DEF here, value, n
    <3> QED BY <2>2, <2>3
  <2>7. W(h, here)
    <3>1. h[here] = IF here = n THEN <<>> ELSE Piece(paragraph, here, end) \o (IF end = n THEN <<>> ELSE h[next])
      <4>1. end # n => h[next] = g[next]
        <5>1. here \in Nat
          BY <2>3
        <5> HIDE DEF here, end, next, h, n
        <5> QED BY <1>1, <2>3, <2>5, <2>6, <5>1
      <4> HIDE DEF here, end, next, h, n
      <4> QED BY <2>3, <2>6, <4>1
    <3> HIDE DEF here, h
    <3> QED BY <3>1, Zenon DEF Wraps
  <2>8. ASSUME NEW position \in n-m..n PROVE W(h, position)
    <3>1. position \in 0..n /\ position # here
      BY <1>1, <2>3
    <3>2. h[position] = g[position]
      BY <2>6, <3>1
    <3> DEFINE e == WindowEnd(paragraph, position, max)
               x == NextPosition(position, e, overlap)
    <3>3. ASSUME position # n, e # n PROVE h[x] = g[x]
      <4>1. position \in 0..n-1
        BY <1>1, <3>1, <3>3
      <4>2. e \in position+1..n /\ (e = n \/ e - position > overlap)
        BY <4>1, WindowFacts
      <4>3. x \in position+1..n
        <5> HIDE DEF e, n
        <5> QED BY <1>1, <3>3, <4>1, <4>2, NextFacts
      <4> HIDE DEF x, e, n, h
      <4>4. x \in 0..n /\ x # here
        BY <1>1, <4>1, <4>3
      <4> QED
        BY <2>6, <4>4
    <3>4. g[position] = IF position = n THEN <<>> ELSE Piece(paragraph, position, e) \o (IF e = n THEN <<>> ELSE g[x])
      BY <2>2, Zenon DEF Wraps
    <3>5. h[position] = IF position = n THEN <<>> ELSE Piece(paragraph, position, e) \o (IF e = n THEN <<>> ELSE h[x])
      <4> HIDE DEF e, x, n, h
      <4> QED BY <3>2, <3>3, <3>4
    <3> HIDE DEF h
    <3> QED
      BY <3>5, Zenon DEF Wraps
  <2> HIDE DEF h, W, n
  <2>9. \A position \in here..n : W(h, position)
    <3> HIDE DEF here
    <3> QED BY <2>3, <2>7, <2>8
  <2> QED
    BY <2>6, <2>9
<1>4. Nat \subseteq K
  <2> HIDE DEF K
  <2> QED BY <1>2, <1>3, SetInduction
<1>5. n - n = 0 /\ n <= n
  BY <1>1
<1> HIDE DEF W, n
<1>6. PICK g : g = [position \in 0..n |-> g[position]] /\ \A position \in n-n..n : W(g, position)
  BY <1>1, <1>4, <1>5
<1> QED
  BY <1>5, <1>6 DEF W, n

(* What Wrap is made of.                                                   *)
LEMMA WrapPieces ==
  ASSUME NEW max, NEW overlap, Fits(max, overlap), NEW paragraph \in Seq(Nat)
  PROVE  \E g : /\ Wrap(paragraph, max, overlap) = g[0]
                /\ \A position \in 0..Len(paragraph) : Wraps(g, paragraph, max, overlap, position)
<1> DEFINE Body(g, position) ==
             IF position = Len(paragraph) THEN <<>>
             ELSE Piece(paragraph, position, WindowEnd(paragraph, position, max)) \o
                  (IF WindowEnd(paragraph, position, max) = Len(paragraph) THEN <<>>
                   ELSE g[NextPosition(position, WindowEnd(paragraph, position, max), overlap)])
           Pieces == CHOOSE g : g = [position \in 0..Len(paragraph) |-> Body(g, position)]
<1>1. Wrap(paragraph, max, overlap) = Pieces[0]
  BY DEF Wrap
<1>2. PICK f : /\ f = [position \in 0..Len(paragraph) |-> f[position]]
               /\ \A position \in 0..Len(paragraph) : f[position] = Body(f, position)
  BY WrapRecursion, Zenon DEF Wraps
<1> HIDE DEF Body
<1>3. f = [position \in 0..Len(paragraph) |-> Body(f, position)]
  BY <1>2
<1>4. Pieces = [position \in 0..Len(paragraph) |-> Body(Pieces, position)]
  BY <1>3, Zenon
<1> HIDE DEF Pieces
<1>5. \A position \in 0..Len(paragraph) : Pieces[position] = Body(Pieces, position)
  BY <1>4, Zenon
<1>6. \A position \in 0..Len(paragraph) : Wraps(Pieces, paragraph, max, overlap, position)
  BY <1>5, Zenon DEF Wraps, Body
<1> QED
  BY <1>1, <1>6

(* Pieces that start and end with ink, none too long, and among which are  *)
(* the stretches of the paragraph from a position on that fit the overlap. *)
Covers(pieces, paragraph, max, overlap, position) ==
  /\ pieces \in Seq(Seq(Nat))
  /\ \A q \in 1..Len(pieces) : Inked(pieces[q]) /\ Len(pieces[q]) <= max
  /\ \A i \in position+1..Len(paragraph) : \A j \in i..Len(paragraph) :
       j - i <= overlap /\ paragraph[i] \notin White /\ paragraph[j] \notin White =>
         \E q \in 1..Len(pieces) : Has(pieces[q], SubSeq(paragraph, i, j))

(* The pieces of a paragraph that is longer than a chunk: by induction     *)
(* from the end of the paragraph back. A stretch that fits the overlap     *)
(* ends in the window it starts in, or starts after the position of the    *)
(* next one.                                                               *)
LEMMA WrapFacts ==
  ASSUME NEW max, NEW overlap, Fits(max, overlap), NEW paragraph \in Seq(Nat)
  PROVE  Covers(Wrap(paragraph, max, overlap), paragraph, max, overlap, 0)
<1> DEFINE n == Len(paragraph)
<1>1. n \in Nat
  OBVIOUS
<1>2. PICK g : /\ Wrap(paragraph, max, overlap) = g[0]
               /\ \A position \in 0..n : Wraps(g, paragraph, max, overlap, position)
  BY WrapPieces
<1> DEFINE C(position) == Covers(g[position], paragraph, max, overlap, position)
           K == {m \in Nat : \A k \in 0..m : k <= n => C(n - k)}
<1>3. C(n)
  <2>1. n \in 0..n
    BY <1>1
  <2>2. Wraps(g, paragraph, max, overlap, n)
    BY <1>2, <2>1
  <2>3. g[n] = <<>>
    BY <2>2, Zenon DEF Wraps
  <2>4. <<>> \in Seq(Seq(Nat)) /\ Len(<<>>) = 0 /\ 1..0 = {} /\ n+1..n = {}
    BY <1>1, EmptySeq
  <2> HIDE DEF n
  <2> QED
    BY <2>3, <2>4 DEF Covers, n
<1>4. 0 \in K
  <2>1. \A k \in 0..0 : n - k = n
    BY <1>1
  <2> HIDE DEF C, n
  <2> QED BY <1>3, <2>1
<1>5. ASSUME NEW m \in Nat, m \in K PROVE m + 1 \in K
  <2> SUFFICES ASSUME m + 1 <= n PROVE C(n - (m + 1))
    <3>1. m + 1 \in Nat /\ \A k \in 0..m+1 : k \in 0..m \/ k = m + 1
      OBVIOUS
    <3> HIDE DEF C, n
    <3> QED
      BY <1>5, <3>1
  <2> DEFINE here == n - (m + 1)
             end == WindowEnd(paragraph, here, max)
             next == NextPosition(here, end, overlap)
             piece == Piece(paragraph, here, end)
             rest == IF end = n THEN <<>> ELSE g[next]
  <2>1. here \in 0..n /\ here \in 0..n-1 /\ here # n /\ here \in Nat
    BY <1>1
  <2>2. end \in here+1..n /\ end - here <= max /\ (end = n \/ end - here > overlap)
    <3> HIDE DEF here
    <3> QED BY <2>1, WindowFacts
  <2>3. end # n => /\ next \in here+1..n
                   /\ \A i \in 1..n, j \in 1..n : i <= j /\ j - i <= overlap /\ j > end => i > next
    <3> HIDE DEF here, end, n
    <3> QED BY <1>1, <2>1, <2>2, NextFacts
  <2>4. g[here] = piece \o rest
    <3>1. Wraps(g, paragraph, max, overlap, here)
      BY <1>2, <2>1
    <3> HIDE DEF here
    <3> QED BY <2>1, <3>1, Zenon DEF Wraps
  <2>5. /\ piece \in Seq(Seq(Nat))
        /\ \A q \in 1..Len(piece) : Inked(piece[q]) /\ Len(piece[q]) <= max
        /\ \A i \in here+1..end : \A j \in i..end :
             paragraph[i] \notin White /\ paragraph[j] \notin White =>
               \E q \in 1..Len(piece) : Has(piece[q], SubSeq(paragraph, i, j))
    <3>1. max \in Nat
      BY DEF Fits
    <3> HIDE DEF here, end
    <3> QED BY <2>1, <2>2, <3>1, PieceFacts
  <2>6. end # n => C(next)
    <3> SUFFICES ASSUME end # n PROVE C(next)
      OBVIOUS
    <3>1. next \in here+1..n
      BY <2>3
    <3> HIDE DEF next, C
    <3>2. n - next \in 0..m /\ n - next <= n /\ n - (n - next) = next
      BY <1>1, <3>1
    <3> HIDE DEF n
    <3> QED BY <1>5, <3>2
  <2>7. /\ rest \in Seq(Seq(Nat))
        /\ \A q \in 1..Len(rest) : Inked(rest[q]) /\ Len(rest[q]) <= max
    <3>1. CASE end = n
      <4>1. rest = <<>> /\ <<>> \in Seq(Seq(Nat)) /\ Len(<<>>) = 0
        BY <3>1, EmptySeq
      <4> HIDE DEF rest
      <4> QED BY <4>1
    <3>2. CASE end # n
      <4>1. rest = g[next] /\ C(next)
        BY <2>6, <3>2
      <4> HIDE DEF rest, next
      <4> QED BY <4>1 DEF Covers
    <3> QED
      BY <3>1, <3>2
  <2> DEFINE all == piece \o rest
  <2>8. /\ all \in Seq(Seq(Nat)) /\ Len(piece) \in Nat /\ Len(rest) \in Nat
        /\ Len(all) = Len(piece) + Len(rest)
        /\ \A q \in 1..Len(piece) + Len(rest) : all[q] = IF q <= Len(piece) THEN piece[q] ELSE rest[q - Len(piece)]
    <3> HIDE DEF piece, rest
    <3> QED BY <2>5, <2>7, ConcatProperties
  <2> HIDE DEF all, piece, rest
  <2>9. /\ \A q \in 1..Len(piece) : q \in 1..Len(all) /\ all[q] = piece[q]
        /\ \A q \in 1..Len(rest) : Len(piece) + q \in 1..Len(all) /\ all[Len(piece) + q] = rest[q]
    <3>0. Len(piece) \in Nat /\ Len(rest) \in Nat /\ Len(all) = Len(piece) + Len(rest)
      BY <2>8
    <3>1. ASSUME NEW q \in 1..Len(piece) PROVE q \in 1..Len(all) /\ all[q] = piece[q]
      <4>1. q \in 1..Len(all) /\ q \in 1..Len(piece) + Len(rest) /\ q <= Len(piece)
        BY <3>0
      <4> QED
        BY <2>8, <4>1
    <3>2. ASSUME NEW q \in 1..Len(rest) PROVE Len(piece) + q \in 1..Len(all) /\ all[Len(piece) + q] = rest[q]
      <4>1. /\ Len(piece) + q \in 1..Len(all) /\ Len(piece) + q \in 1..Len(piece) + Len(rest)
            /\ ~(Len(piece) + q <= Len(piece)) /\ (Len(piece) + q) - Len(piece) = q
        BY <3>0
      <4> QED
        BY <2>8, <4>1
    <3> QED
      BY <3>1, <3>2
  <2>10. ASSUME NEW q \in 1..Len(all) PROVE Inked(all[q]) /\ Len(all[q]) <= max
    <3>1. CASE q <= Len(piece)
      <4>1. q \in 1..Len(piece)
        BY <2>8, <3>1
      <4>2. all[q] = piece[q]
        BY <2>9, <4>1
      <4> QED
        BY <2>5, <4>1, <4>2
    <3>2. CASE ~(q <= Len(piece))
      <4>1. Len(piece) \in Nat /\ Len(rest) \in Nat /\ Len(all) = Len(piece) + Len(rest) /\ q \in Nat
        BY <2>8
      <4>2. q - Len(piece) \in 1..Len(rest) /\ Len(piece) + (q - Len(piece)) = q
        BY <3>2, <4>1
      <4>3. all[q] = rest[q - Len(piece)]
        BY <2>9, <4>2
      <4> QED
        BY <2>7, <4>2, <4>3
    <3> QED
      BY <3>1, <3>2
  <2>11. ASSUME NEW i \in here+1..n, NEW j \in i..n,
                j - i <= overlap, paragraph[i] \notin White, paragraph[j] \notin White
         PROVE  \E q \in 1..Len(all) : Has(all[q], SubSeq(paragraph, i, j))
    <3> HIDE DEF here, end, n, next
    <3>1. CASE j <= end
      <4>1. i \in here+1..end /\ j \in i..end
        BY <1>1, <2>1, <2>2, <3>1
      <4>2. PICK q \in 1..Len(piece) : Has(piece[q], SubSeq(paragraph, i, j))
        BY <2>5, <2>11, <4>1
      <4>3. q \in 1..Len(all) /\ Has(all[q], SubSeq(paragraph, i, j))
        BY <2>9, <4>2
      <4> QED
        BY <4>3
    <3>2. CASE ~(j <= end)
      <4>1. i \in 1..n /\ j \in 1..n /\ i <= j /\ j > end /\ end # n
        BY <1>1, <2>1, <2>2, <3>2
      <4>2. next \in here+1..n /\ i > next
        BY <2>3, <2>11, <4>1
      <4>3. i \in next+1..n /\ j \in i..n
        BY <1>1, <2>1, <4>1, <4>2
      <4>4. rest = g[next] /\ C(next)
        BY <2>6, <4>1 DEF rest
      <4>5. PICK q \in 1..Len(rest) : Has(rest[q], SubSeq(paragraph, i, j))
        BY <2>11, <4>3, <4>4 DEF Covers, n
      <4>6. Len(piece) + q \in 1..Len(all) /\ Has(all[Len(piece) + q], SubSeq(paragraph, i, j))
        BY <2>9, <4>5
      <4> QED
        BY <4>6
    <3> QED
      BY <3>1, <3>2
  <2>12. Covers(all, paragraph, max, overlap, here)
    <3> HIDE DEF here
    <3> QED BY <2>8, <2>10, <2>11 DEF Covers
  <2> QED
    BY <2>4, <2>12 DEF all
<1>6. Nat \subseteq K
  <2> HIDE DEF K
  <2> QED BY <1>4, <1>5, SetInduction
<1>7. C(0)
  <2>1. n \in 0..n /\ n <= n /\ n - n = 0
    BY <1>1
  <2> HIDE DEF C, n
  <2>2. C(n - n)
    BY <1>1, <1>6, <2>1
  <2> QED BY <2>1, <2>2
<1> QED
  BY <1>2, <1>7

(* The segments of a paragraph, short or long.                             *)
LEMMA SegmentsFacts ==
  ASSUME NEW max, NEW overlap, Fits(max, overlap), NEW paragraph, Inked(paragraph)
  PROVE  Covers(Segments(paragraph, max, overlap), paragraph, max, overlap, 0)
<1>1. paragraph \in Seq(Nat) /\ Len(paragraph) \in Nat /\ Len(paragraph) >= 1 /\ max \in Nat
  BY DEF Inked, Fits
<1>2. CASE Len(paragraph) <= max
  <2> DEFINE r == <<paragraph>>
  <2>1. Segments(paragraph, max, overlap) = r
    BY <1>2 DEF Segments
  <2>2. r \in Seq(Seq(Nat)) /\ Len(r) = 1 /\ r[1] = paragraph
    BY <1>1, OneElement
  <2> HIDE DEF r
  <2>3. \A q \in 1..Len(r) : Inked(r[q]) /\ Len(r[q]) <= max
    BY <1>2, <2>2
  <2>4. ASSUME NEW i \in 1..Len(paragraph), NEW j \in i..Len(paragraph)
        PROVE  \E q \in 1..Len(r) : Has(r[q], SubSeq(paragraph, i, j))
    <3>1. 1 \in 1..Len(paragraph) /\ Len(paragraph) \in 1..Len(paragraph) /\ i \in 1..Len(paragraph) /\ j \in i..Len(paragraph)
      BY <1>1
    <3>2. Has(SubSeq(paragraph, 1, Len(paragraph)), SubSeq(paragraph, i, j))
      BY <1>1, <3>1, HasPart
    <3>3. SubSeq(paragraph, 1, Len(paragraph)) = paragraph
      BY <1>1, SubSeqFull
    <3> DEFINE t == SubSeq(paragraph, i, j)
    <3> HIDE DEF t
    <3>4. Has(paragraph, t)
      BY <3>2, <3>3 DEF t
    <3>5. Has(r[1], t) /\ 1 \in 1..Len(r)
      BY <2>2, <3>4
    <3> QED
      BY <3>5 DEF t
  <2>5. 0 + 1 = 1
    OBVIOUS
  <2> QED
    BY <2>1, <2>2, <2>3, <2>4, <2>5 DEF Covers
<1>3. CASE ~(Len(paragraph) <= max)
  <2>1. Segments(paragraph, max, overlap) = Wrap(paragraph, max, overlap)
    BY <1>3 DEF Segments
  <2> QED
    BY <1>1, <2>1, WrapFacts
<1> QED
  BY <1>2, <1>3

-----------------------------------------------------------------------------
(* Chunks: chunk_text packs segments together.                             *)

(* What chunk_text keeps while it reads segments.                          *)
Packed(state, max) ==
  /\ state \in [chunks : Seq(Seq(Nat)), current : Seq(Nat)]
  /\ \A c \in 1..Len(state.chunks) : Len(state.chunks[c]) \in 1..max
  /\ state.current = <<>> \/ Len(state.current) \in 1..max

(* A stretch that is in one of its chunks.                                 *)
Keeps(state, t) ==
  Has(state.current, t) \/ \E c \in 1..Len(state.chunks) : Has(state.chunks[c], t)

(* One segment more: chunks keep to their size, and have what they had and *)
(* what the segment has.                                                   *)
LEMMA PackFacts ==
  ASSUME NEW max \in Nat, NEW overlap \in Nat, NEW state, Packed(state, max),
         NEW segment, Inked(segment), Len(segment) <= max
  PROVE  /\ Packed(Pack(state, segment, max, overlap), max)
         /\ \A t : Inked(t) /\ (Keeps(state, t) \/ Has(segment, t)) =>
              Keeps(Pack(state, segment, max, overlap), t)
<1> DEFINE current == state.current
           chunks == state.chunks
           joined == (current \o Break) \o segment
           candidate == IF current = <<>> THEN segment ELSE Strip(joined)
           from == IF Len(current) > overlap THEN Len(current) - overlap + 1 ELSE 1
           tail == SubSeq(current, from, Len(current))
           glued == IF Len(tail) + Len(segment) <= max THEN tail \o segment ELSE segment
           after == Pack(state, segment, max, overlap)
<1>1. /\ chunks \in Seq(Seq(Nat)) /\ current \in Seq(Nat)
      /\ state = [chunks |-> chunks, current |-> current]
      /\ \A c \in 1..Len(chunks) : Len(chunks[c]) \in 1..max
      /\ current = <<>> \/ Len(current) \in 1..max
  BY DEF Packed
<1>2. segment \in Seq(Nat) /\ Len(segment) \in 1..max
  <2> HIDE DEF current, chunks, joined, candidate, from, tail, glued, after
  <2>1. segment \in Seq(Nat) /\ Len(segment) >= 1
    BY DEF Inked
  <2>2. Len(segment) \in Nat
    BY <2>1
  <2> QED
    BY <2>1, <2>2
<1>3. after = IF current # <<>> /\ Len(candidate) > max
              THEN [chunks |-> Append(chunks, current), current |-> glued]
              ELSE [state EXCEPT !.current = candidate]
  BY Zenon DEF Pack
<1>4. tail \in Seq(Nat)
  <2> HIDE DEF current, chunks, joined, candidate, tail, glued, after
  <2>1. Len(current) \in Nat /\ \A i \in 1..Len(current) : current[i] \in Nat
    BY <1>1
  <2>2. from \in Int /\ from >= 1
    BY <2>1
  <2> HIDE DEF from
  <2>3. from \in Int /\ Len(current) \in Int /\ \A i \in from..Len(current) : current[i] \in Nat
    BY <2>1, <2>2
  <2> USE DEF tail
  <2> QED
    BY <2>3, SubSeqProperties
<1> HIDE DEF tail, from
<1>5. /\ joined \in Seq(Nat)
      /\ \A t : Inked(t) /\ (Has(current, t) \/ Has(segment, t)) => Has(joined, t)
  <2>1. Break \in Seq(Nat)
    BY DEF Break, LineEnd
  <2> DEFINE front == current \o Break
  <2>2. front \in Seq(Nat)
    BY <1>1, <2>1, ConcatProperties
  <2>3. \A t \in Seq(Nat) : Has(current, t) => Has(front, t)
    BY <1>1, <2>1, HasJoined
  <2> HIDE DEF front
  <2>4. front \o segment \in Seq(Nat)
    BY <1>2, <2>2, ConcatProperties
  <2>5. \A t \in Seq(Nat) : Has(current, t) \/ Has(segment, t) => Has(front \o segment, t)
    BY <1>2, <2>2, <2>3, HasJoined
  <2> QED
    BY <2>4, <2>5 DEF front, Inked
<1>6. /\ candidate \in Seq(Nat) /\ Len(candidate) >= 1
      /\ \A t : Inked(t) /\ (Has(current, t) \/ Has(segment, t)) => Has(candidate, t)
  <2>1. CASE current = <<>>
    <3>1. candidate = segment
      BY <2>1
    <3>2. ASSUME NEW t, Inked(t), Has(current, t) PROVE FALSE
      <4>1. t \in Seq(Nat) /\ Len(t) >= 1 /\ Len(current) = 0
        BY <2>1, <3>2 DEF Inked
      <4>2. Len(t) <= Len(current)
        BY <1>1, <3>2, <4>1, HasRoom
      <4> QED
        BY <4>1, <4>2
    <3> HIDE DEF candidate, current
    <3> QED
      BY <1>2, <3>1, <3>2
  <2>2. CASE current # <<>>
    <3>1. candidate = Strip(joined)
      BY <2>2
    <3> HIDE DEF candidate, joined, current
    <3>2. candidate = <<>> \/ Inked(candidate)
      BY <1>5, <3>1, StripFacts
    <3>3. \A t : Inked(t) /\ (Has(current, t) \/ Has(segment, t)) => Has(candidate, t)
      BY <1>5, <3>1, StripFacts
    <3>4. candidate \in Seq(Nat)
      BY <3>2, EmptySeq DEF Inked
    <3>5. Has(candidate, segment)
      BY <1>2, <3>3, HasItself
    <3>6. Len(segment) <= Len(candidate)
      BY <1>2, <3>4, <3>5, HasRoom
    <3> QED
      BY <1>2, <3>3, <3>4, <3>6
  <2> QED
    BY <2>1, <2>2
<1>7. /\ glued \in Seq(Nat) /\ Len(glued) \in 1..max
      /\ \A t : Inked(t) /\ Has(segment, t) => Has(glued, t)
  <2>1. CASE Len(tail) + Len(segment) <= max
    <3>1. glued = tail \o segment
      BY <2>1
    <3>2. tail \o segment \in Seq(Nat) /\ Len(tail \o segment) = Len(tail) + Len(segment) /\ Len(tail) \in Nat
      BY <1>2, <1>4, ConcatProperties
    <3>3. \A t \in Seq(Nat) : Has(segment, t) => Has(tail \o segment, t)
      BY <1>2, <1>4, HasJoined
    <3> HIDE DEF glued
    <3> QED
      BY <1>2, <2>1, <3>1, <3>2, <3>3 DEF Inked
  <2>2. CASE ~(Len(tail) + Len(segment) <= max)
    <3>1. glued = segment
      BY <2>2
    <3> HIDE DEF glued
    <3> QED
      BY <1>2, <3>1
  <2> QED
    BY <2>1, <2>2
<1> HIDE DEF candidate, glued, after, current, chunks
<1>8. CASE current # <<>> /\ Len(candidate) > max
  <2> DEFINE longer == Append(chunks, current)
  <2>1. after.chunks = longer /\ after.current = glued /\ after = [chunks |-> longer, current |-> glued]
    BY <1>3, <1>8
  <2>2. /\ longer \in Seq(Seq(Nat)) /\ Len(longer) = Len(chunks) + 1 /\ Len(chunks) \in Nat
        /\ \A c \in 1..Len(chunks) : longer[c] = chunks[c]
        /\ longer[Len(chunks) + 1] = current
    BY <1>1, AppendProperties
  <2> HIDE DEF longer
  <2>3. \A c \in 1..Len(longer) : Len(longer[c]) \in 1..max
    <3>1. ASSUME NEW c \in 1..Len(longer) PROVE Len(longer[c]) \in 1..max
      <4>1. c \in 1..Len(chunks) \/ c = Len(chunks) + 1
        BY <2>2
      <4> QED
        BY <1>1, <1>8, <2>2, <4>1
    <3> QED
      BY <3>1
  <2>4. Packed(after, max)
    BY <1>7, <2>1, <2>2, <2>3 DEF Packed
  <2>5. ASSUME NEW t, Inked(t), Keeps(state, t) \/ Has(segment, t) PROVE Keeps(after, t)
    <3>1. CASE Has(segment, t)
      BY <1>7, <2>1, <2>5, <3>1 DEF Keeps
    <3>2. CASE Has(current, t)
      <4>1. Len(chunks) + 1 \in 1..Len(longer) /\ Has(longer[Len(chunks) + 1], t)
        BY <2>2, <3>2
      <4> QED
        BY <2>1, <4>1, Zenon DEF Keeps
    <3>3. CASE \E c \in 1..Len(chunks) : Has(chunks[c], t)
      <4>1. PICK c \in 1..Len(chunks) : Has(chunks[c], t)
        BY <3>3
      <4>2. c \in 1..Len(longer) /\ Has(longer[c], t)
        BY <2>2, <4>1
      <4> QED
        BY <2>1, <4>2, Zenon DEF Keeps
    <3> QED
      BY <2>5, <3>1, <3>2, <3>3 DEF Keeps, current, chunks
  <2> QED
    BY <2>4, <2>5 DEF after
<1>9. CASE ~(current # <<>> /\ Len(candidate) > max)
  <2>1. after = [state EXCEPT !.current = candidate]
    BY <1>3, <1>9
  <2>2. after = [chunks |-> chunks, current |-> candidate] /\ after.chunks = chunks /\ after.current = candidate
    BY <1>1, <2>1
  <2>3. Len(candidate) \in 1..max
    <3>1. current = <<>> => candidate = segment
      BY DEF candidate
    <3>2. Len(candidate) \in Nat
      BY <1>6
    <3> QED
      BY <1>2, <1>6, <1>9, <3>1, <3>2
  <2>4. Packed(after, max)
    BY <1>1, <1>6, <2>2, <2>3 DEF Packed
  <2>5. ASSUME NEW t, Inked(t), Keeps(state, t) \/ Has(segment, t) PROVE Keeps(after, t)
    <3>1. CASE Has(segment, t) \/ Has(current, t)
      BY <1>6, <2>2, <2>5, <3>1 DEF Keeps
    <3>2. CASE \E c \in 1..Len(chunks) : Has(chunks[c], t)
      BY <2>2, <3>2, Zenon DEF Keeps
    <3> QED
      BY <2>5, <3>1, <3>2 DEF Keeps, current, chunks
  <2> QED
    BY <2>4, <2>5 DEF after
<1> QED
  BY <1>8, <1>9

(* What chunk_text starts with.                                            *)
Empty == [chunks |-> <<>>, current |-> <<>>]

(* What a fold of the segments with some positions must satisfy.           *)
Folds(g, n, segments, max, overlap) ==
  \A s \in SUBSET (1..n) :
    g[s] = IF s = {} THEN Empty
           ELSE Pack(g[s \ {Max(s)}], segments[Max(s)], max, overlap)

(* The function that the fold of chunk_text computes exists.               *)
LEMMA PackRecursion ==
  ASSUME NEW max \in Nat, NEW overlap \in Nat, NEW segments \in Seq(Seq(Nat)), NEW n \in Nat
  PROVE  \E g : Folds(g, n, segments, max, overlap)
<1> DEFINE Step(g, s) == IF s = {} THEN Empty
                         ELSE Pack(g[s \ {Max(s)}], segments[Max(s)], max, overlap)
           K == {k \in Nat : \E g : g = [s \in SUBSET (1..k) |-> Step(g, s)]}
<1>1. 0 \in K
  <2> DEFINE g == [s \in SUBSET (1..0) |-> Empty]
  <2>1. \A s \in SUBSET (1..0) : s = {}
    OBVIOUS
  <2>2. \A s \in SUBSET (1..0) : Step(g, s) = Empty
    BY <2>1
  <2> HIDE DEF g, Step
  <2>3. g = [s \in SUBSET (1..0) |-> Step(g, s)]
    BY <2>2 DEF g
  <2>4. 0 \in Nat
    OBVIOUS
  <2> QED
    BY <2>3, <2>4, Zenon
<1>2. ASSUME NEW k \in Nat, k \in K PROVE k + 1 \in K
  <2>1. PICK g : g = [s \in SUBSET (1..k) |-> Step(g, s)]
    BY <1>2
  <2> DEFINE h == [s \in SUBSET (1..k+1) |->
                     IF k + 1 \in s THEN Pack(g[s \ {k + 1}], segments[k + 1], max, overlap) ELSE g[s]]
  <2>2. \A s \in SUBSET (1..k) : s \in SUBSET (1..k+1) /\ k + 1 \notin s
    OBVIOUS
  <2>3. \A s \in SUBSET (1..k) : h[s] = g[s] /\ g[s] = Step(g, s)
    <3>1. \A s \in SUBSET (1..k) : h[s] = g[s]
      BY <2>2
    <3> HIDE DEF Step, h
    <3> QED
      BY <2>1, <3>1
  <2>4. ASSUME NEW s \in SUBSET (1..k+1) PROVE h[s] = Step(h, s)
    <3>1. CASE k + 1 \in s
      <4>1. s # {} /\ s \subseteq 1..k+1 /\ k + 1 \in Nat
        BY <3>1
      <4>2. Max(s) \in s /\ \A y \in s : Max(s) >= y
        BY <4>1, LastExists
      <4>3. Max(s) = k + 1
        <5> HIDE DEF h, Step, K
        <5>1. Max(s) \in 1..k+1 /\ Max(s) >= k + 1
          BY <3>1, <4>1, <4>2
        <5> QED
          BY <5>1
      <4>4. s \ {k + 1} \in SUBSET (1..k)
        OBVIOUS
      <4>5. h[s \ {k + 1}] = g[s \ {k + 1}]
        <5> HIDE DEF h
        <5> QED BY <2>3, <4>4
      <4>6. h[s] = Pack(g[s \ {k + 1}], segments[k + 1], max, overlap)
        BY <3>1
      <4> HIDE DEF h
      <4>7. h[s] = Pack(h[s \ {Max(s)}], segments[Max(s)], max, overlap)
        BY <4>3, <4>5, <4>6
      <4> QED
        BY <4>1, <4>7, Zenon
    <3>2. CASE k + 1 \notin s
      <4>1. s \in SUBSET (1..k)
        BY <3>2
      <4>2. CASE s = {}
        <5> HIDE DEF h
        <5>1. h[s] = g[s] /\ g[s] = Step(g, s)
          BY <2>3, <4>1
        <5> QED BY <4>2, <5>1
      <4>3. CASE s # {}
        <5> HIDE DEF h
        <5>1. s \subseteq 1..k
          BY <4>1
        <5>2. Max(s) \in s
          BY <4>3, <5>1, LastExists
        <5>3. s \ {Max(s)} \in SUBSET (1..k)
          BY <5>1
        <5>4. h[s] = g[s] /\ g[s] = Step(g, s) /\ h[s \ {Max(s)}] = g[s \ {Max(s)}]
          BY <2>3, <4>1, <5>3
        <5>5. g[s] = Pack(g[s \ {Max(s)}], segments[Max(s)], max, overlap)
          BY <4>3, <5>4, Zenon
        <5>6. h[s] = Pack(h[s \ {Max(s)}], segments[Max(s)], max, overlap)
          BY <5>4, <5>5
        <5> QED
          BY <4>3, <5>6, Zenon
      <4> QED
        BY <4>2, <4>3
    <3> QED
      BY <3>1, <3>2
  <2>5. h = [s \in SUBSET (1..k+1) |-> Step(h, s)]
    <3>1. h = [s \in SUBSET (1..k+1) |-> h[s]]
      OBVIOUS
    <3> HIDE DEF h, Step
    <3> QED BY <2>4, <3>1
  <2>6. k + 1 \in Nat
    OBVIOUS
  <2> HIDE DEF h, Step
  <2>7. \E f : f = [s \in SUBSET (1..k+1) |-> Step(f, s)]
    BY <2>5, Zenon
  <2> QED
    BY <2>6, <2>7, Zenon
<1>3. Nat \subseteq K
  <2> HIDE DEF K
  <2> QED BY <1>1, <1>2, SetInduction
<1> HIDE DEF Step
<1>4. PICK g : g = [s \in SUBSET (1..n) |-> Step(g, s)]
  BY <1>3
<1>5. \A s \in SUBSET (1..n) : g[s] = Step(g, s)
  BY <1>4
<1>6. Folds(g, n, segments, max, overlap)
  BY <1>5, Zenon DEF Step, Folds
<1> QED
  BY <1>6

(* The fold of chunk_text.                                                 *)
PackAll(segments, max, overlap) ==
  FoldLeft(LAMBDA state, segment : Pack(state, segment, max, overlap),
           [chunks |-> <<>>, current |-> <<>>], segments)

(* The states of chunk_text after each number of segments.                 *)
Reads(g, segments, max, overlap) ==
  /\ g[0] = Empty
  /\ \A k \in 0..Len(segments) - 1 : g[k + 1] = Pack(g[k], segments[k + 1], max, overlap)

(* The fold of chunk_text reads one segment after the other.               *)
LEMMA FoldFacts ==
  ASSUME NEW max \in Nat, NEW overlap \in Nat, NEW segments \in Seq(Seq(Nat))
  PROVE  \E g : PackAll(segments, max, overlap) = g[Len(segments)] /\ Reads(g, segments, max, overlap)
<1> DEFINE n == Len(segments)
           Step(g, s) == IF s = {} THEN Empty
                         ELSE Pack(g[s \ {Max(s)}], segments[Max(s)], max, overlap)
           iter == CHOOSE g : g = [s \in SUBSET (1..n) |-> Step(g, s)]
           fold == PackAll(segments, max, overlap)
<1>1. n \in Nat /\ DOMAIN segments = 1..n
  OBVIOUS
<1>2. fold = iter[1..n]
  BY <1>1 DEF PackAll, FoldLeft, MapThenFoldSet, Empty
<1>3. iter = [s \in SUBSET (1..n) |-> Step(iter, s)]
  <2>1. \E g : g = [s \in SUBSET (1..n) |-> Step(g, s)]
    <3>0. PICK g : Folds(g, n, segments, max, overlap)
      <4> HIDE DEF n, iter, fold
      <4> QED BY <1>1, PackRecursion
    <3>1. \A s \in SUBSET (1..n) : g[s] = Step(g, s)
      BY <3>0, Zenon DEF Folds
    <3> DEFINE h == [s \in SUBSET (1..n) |-> g[s]]
    <3>2. \A s \in SUBSET (1..n) : h[s] = g[s]
      OBVIOUS
    <3>3. ASSUME NEW s \in SUBSET (1..n) PROVE h[s] = Step(h, s)
      <4>1. CASE s = {}
        <5> HIDE DEF h
        <5>1. g[s] = Step(g, s)
          BY <3>1
        <5> QED
          BY <3>2, <4>1, <5>1
      <4>2. CASE s # {}
        <5> HIDE DEF h
        <5>1. s \ {Max(s)} \in SUBSET (1..n)
          OBVIOUS
        <5>2. h[s] = g[s] /\ g[s] = Step(g, s) /\ h[s \ {Max(s)}] = g[s \ {Max(s)}]
          BY <3>1, <3>2, <5>1
        <5>3. g[s] = Pack(g[s \ {Max(s)}], segments[Max(s)], max, overlap)
          BY <4>2, <5>2, Zenon
        <5>4. h[s] = Pack(h[s \ {Max(s)}], segments[Max(s)], max, overlap)
          BY <5>2, <5>3
        <5> QED
          BY <4>2, <5>4, Zenon
      <4> QED
        BY <4>1, <4>2
    <3> HIDE DEF Step
    <3>4. h = [s \in SUBSET (1..n) |-> Step(h, s)]
      <4>1. h = [s \in SUBSET (1..n) |-> h[s]]
        OBVIOUS
      <4> HIDE DEF h
      <4> QED
        BY <3>3, <4>1
    <3> HIDE DEF h
    <3> QED
      BY <3>4, Zenon
  <2> HIDE DEF n, Step
  <2> QED BY <2>1, Zenon
<1> HIDE DEF fold, iter, n
<1>4. iter[{}] = Empty
  <2>1. {} \in SUBSET (1..n)
    OBVIOUS
  <2> QED
    BY <1>3, <2>1, Zenon
<1>5. ASSUME NEW k \in 0..n - 1
      PROVE  iter[1..k+1] = Pack(iter[1..k], segments[k + 1], max, overlap)
  <2>0. k \in Nat /\ k + 1 \in Nat /\ k + 1 <= n
    BY <1>1
  <2>1. 1..k+1 \in SUBSET (1..n) /\ 1..k+1 # {} /\ k + 1 \in Nat /\ k + 1 \in 1..k+1
    <3>1. \A y \in 1..k+1 : y \in 1..n
      BY <1>1, <2>0
    <3>2. k + 1 \in 1..k+1
      BY <2>0
    <3> QED
      BY <2>0, <3>1, <3>2
  <2>2. Max(1..k+1) \in 1..k+1 /\ \A y \in 1..k+1 : Max(1..k+1) >= y
    BY <2>1, LastExists
  <2>3. Max(1..k+1) = k + 1
    BY <2>1, <2>2
  <2>4. (1..k+1) \ {k + 1} = 1..k
    BY <1>1
  <2>5. iter[1..k+1] = Pack(iter[(1..k+1) \ {Max(1..k+1)}], segments[Max(1..k+1)], max, overlap)
    <3>1. \A s \in SUBSET (1..n) : s # {} => iter[s] = Pack(iter[s \ {Max(s)}], segments[Max(s)], max, overlap)
      BY <1>3, Zenon
    <3> QED
      BY <2>1, <3>1, Zenon
  <2> QED
    BY <2>3, <2>4, <2>5
<1> DEFINE g == [k \in 0..n |-> iter[1..k]]
<1>6. g[0] = Empty
  <2>1. 1..0 = {} /\ 0 \in 0..n
    BY <1>1
  <2> QED
    BY <1>4, <2>1
<1>7. fold = g[n]
  BY <1>1, <1>2
<1>8. ASSUME NEW k \in 0..n - 1 PROVE g[k + 1] = Pack(g[k], segments[k + 1], max, overlap)
  <2>1. k \in 0..n /\ k + 1 \in 0..n
    BY <1>1
  <2>2. g[k] = iter[1..k] /\ g[k + 1] = iter[1..k+1]
    BY <2>1
  <2> HIDE DEF g
  <2> QED
    BY <1>5, <2>2
<1> HIDE DEF g
<1>9. Reads(g, segments, max, overlap)
  BY <1>6, <1>8 DEF Reads, n
<1> QED
  BY <1>7, <1>9 DEF fold, n

(* The chunks of segments that start and end with ink.                     *)
LEMMA FoldKeeps ==
  ASSUME NEW max \in Nat, NEW overlap \in Nat, NEW segments \in Seq(Seq(Nat)),
         \A q \in 1..Len(segments) : Inked(segments[q]) /\ Len(segments[q]) <= max
  PROVE  LET packed == PackAll(segments, max, overlap)
         IN /\ Packed(packed, max)
            /\ \A q \in 1..Len(segments) : \A t : Inked(t) /\ Has(segments[q], t) => Keeps(packed, t)
<1> DEFINE packed == PackAll(segments, max, overlap)
           n == Len(segments)
<1>1. n \in Nat
  OBVIOUS
<1>0. PICK g : packed = g[n] /\ Reads(g, segments, max, overlap)
  BY FoldFacts
<1>2. /\ g[0] = Empty
      /\ \A k \in 0..n - 1 : g[k + 1] = Pack(g[k], segments[k + 1], max, overlap)
  BY <1>0 DEF Reads
<1> HIDE DEF packed, n
<1> DEFINE Good(k) == /\ Packed(g[k], max)
                      /\ \A q \in 1..k : \A t : Inked(t) /\ Has(segments[q], t) => Keeps(g[k], t)
           K == {k \in Nat : k <= n => Good(k)}
<1>3. 0 \in K
  <2>1. g[0] = [chunks |-> <<>>, current |-> <<>>]
    BY <1>2 DEF Empty
  <2>2. <<>> \in Seq(Seq(Nat)) /\ <<>> \in Seq(Nat) /\ 1..Len(<<>>) = {} /\ 1..0 = {} /\ 0 \in Nat
    OBVIOUS
  <2>3. Packed(g[0], max)
    BY <2>1, <2>2 DEF Packed
  <2> QED
    BY <2>2, <2>3
<1>4. ASSUME NEW k \in Nat, k \in K PROVE k + 1 \in K
  <2> SUFFICES ASSUME k + 1 <= n PROVE Good(k + 1)
    <3>1. k + 1 \in Nat
      OBVIOUS
    <3> HIDE DEF Good
    <3> QED BY <3>1
  <2>1. k <= n /\ k \in 0..n - 1 /\ k + 1 \in 1..n /\ \A q \in 1..k+1 : q \in 1..k \/ q = k + 1
    BY <1>1
  <2>2. Good(k)
    BY <1>4, <2>1
  <2>3. g[k + 1] = Pack(g[k], segments[k + 1], max, overlap)
    BY <1>2, <2>1
  <2>4. Inked(segments[k + 1]) /\ Len(segments[k + 1]) <= max
    BY <2>1 DEF n
  <2>5. /\ Packed(g[k + 1], max)
        /\ \A t : Inked(t) /\ (Keeps(g[k], t) \/ Has(segments[k + 1], t)) => Keeps(g[k + 1], t)
    BY <2>2, <2>3, <2>4, PackFacts
  <2>6. ASSUME NEW q \in 1..k+1, NEW t, Inked(t), Has(segments[q], t) PROVE Keeps(g[k + 1], t)
    <3>1. CASE q \in 1..k
      BY <2>2, <2>5, <2>6, <3>1
    <3>2. CASE q = k + 1
      BY <2>5, <2>6, <3>2
    <3> QED
      BY <2>1, <3>1, <3>2
  <2> QED
    BY <2>5, <2>6
<1>5. Nat \subseteq K
  <2> HIDE DEF K
  <2> QED BY <1>3, <1>4, SetInduction
<1>6. Good(n)
  BY <1>1, <1>5
<1> QED
  BY <1>0, <1>6 DEF packed, n

(* A text whose paragraphs start and end with ink.                         *)
Legible(t) == \A p \in 1..Len(t) : Inked(t[p])

(* What chunk_text makes of a text.                                        *)
LEMMA ChunkTextFacts ==
  ASSUME NEW max, NEW overlap, Fits(max, overlap), NEW t \in Seq(Seq(Nat)), Legible(t)
  PROVE  LET chunks == ChunkText(t, max, overlap)
         IN /\ chunks \in Seq(Seq(Nat))
            /\ \A c \in 1..Len(chunks) : Len(chunks[c]) \in 1..max
            /\ \A p \in 1..Len(t) : \A i \in 1..Len(t[p]) : \A j \in i..Len(t[p]) :
                 j - i <= overlap /\ t[p][i] \notin White /\ t[p][j] \notin White =>
                   \E c \in 1..Len(chunks) : Has(chunks[c], SubSeq(t[p], i, j))
<1> DEFINE parts == [p \in DOMAIN t |-> Segments(t[p], max, overlap)]
           segments == FlattenSeq(parts)
           packed == PackAll(segments, max, overlap)
           chunks == ChunkText(t, max, overlap)
<1>1. max \in Nat /\ overlap \in Nat /\ Len(t) \in Nat /\ DOMAIN t = 1..Len(t)
  BY DEF Fits
<1>2. \A p \in 1..Len(t) : Covers(Segments(t[p], max, overlap), t[p], max, overlap, 0)
  BY SegmentsFacts DEF Legible
<1>3. /\ parts \in Seq(Seq(Seq(Nat))) /\ Len(parts) = Len(t)
      /\ \A p \in 1..Len(t) : parts[p] = Segments(t[p], max, overlap)
  <2>1. \A p \in 1..Len(t) : Segments(t[p], max, overlap) \in Seq(Seq(Nat))
    BY <1>2 DEF Covers
  <2>2. parts \in [1..Len(t) -> Seq(Seq(Nat))]
    BY <1>1, <2>1
  <2>3. \A p \in 1..Len(t) : parts[p] = Segments(t[p], max, overlap)
    BY <1>1
  <2> HIDE DEF parts
  <2> QED
    BY <1>1, <2>2, <2>3, FunctionIsSequence
<1>4. chunks = IF packed.current = <<>> THEN packed.chunks ELSE Append(packed.chunks, packed.current)
  BY DEF ChunkText, PackAll
<1> HIDE DEF parts
<1>5. segments \in Seq(Seq(Nat)) /\ Range(segments) = UNION {Range(parts[p]) : p \in 1..Len(t)}
  BY <1>3, FlattenElements
<1> HIDE DEF segments
<1>6. ASSUME NEW q \in 1..Len(segments) PROVE Inked(segments[q]) /\ Len(segments[q]) <= max
  <2>1. segments[q] \in Range(segments)
    BY <1>5, RangeElements
  <2>2. PICK p \in 1..Len(t) : segments[q] \in Range(parts[p])
    BY <1>5, <2>1
  <2>3. Covers(parts[p], t[p], max, overlap, 0)
    BY <1>2, <1>3
  <2>4. PICK k \in 1..Len(parts[p]) : segments[q] = parts[p][k]
    BY <2>2, <2>3, RangeElements DEF Covers
  <2> QED
    BY <2>3, <2>4 DEF Covers
<1>7. /\ Packed(packed, max)
      /\ \A q \in 1..Len(segments) : \A s : Inked(s) /\ Has(segments[q], s) => Keeps(packed, s)
  BY <1>1, <1>5, <1>6, FoldKeeps
<1> HIDE DEF packed, chunks
<1>8. /\ chunks \in Seq(Seq(Nat))
      /\ \A c \in 1..Len(chunks) : Len(chunks[c]) \in 1..max
      /\ \A s : Inked(s) /\ Keeps(packed, s) => \E c \in 1..Len(chunks) : Has(chunks[c], s)
  <2> DEFINE closed == packed.chunks
             current == packed.current
  <2>1. closed \in Seq(Seq(Nat)) /\ current \in Seq(Nat) /\ Len(closed) \in Nat
        /\ \A c \in 1..Len(closed) : Len(closed[c]) \in 1..max
    BY <1>7 DEF Packed
  <2>2. current = <<>> \/ Len(current) \in 1..max
    BY <1>7 DEF Packed
  <2>3. \A s : Keeps(packed, s) <=> Has(current, s) \/ \E c \in 1..Len(closed) : Has(closed[c], s)
    BY Zenon DEF Keeps
  <2>4. chunks = IF current = <<>> THEN closed ELSE Append(closed, current)
    BY <1>4
  <2> HIDE DEF closed, current
  <2>5. CASE current = <<>>
    <3>1. ASSUME NEW s, Inked(s), Has(current, s) PROVE FALSE
      <4>1. s \in Seq(Nat) /\ Len(s) >= 1 /\ Len(current) = 0
        BY <2>5, <3>1 DEF Inked
      <4>2. Len(s) <= Len(current)
        BY <2>1, <3>1, <4>1, HasRoom
      <4> QED
        BY <4>1, <4>2
    <3>2. chunks = closed
      BY <2>4, <2>5
    <3> QED
      BY <2>1, <2>3, <3>1, <3>2
  <2>6. CASE current # <<>>
    <3>1. /\ chunks \in Seq(Seq(Nat)) /\ Len(chunks) = Len(closed) + 1
          /\ \A c \in 1..Len(closed) : chunks[c] = closed[c]
          /\ chunks[Len(closed) + 1] = current
      BY <2>1, <2>4, <2>6, AppendProperties
    <3>2. \A c \in 1..Len(chunks) : c \in 1..Len(closed) \/ c = Len(closed) + 1
      BY <2>1, <3>1
    <3>3. \A c \in 1..Len(chunks) : Len(chunks[c]) \in 1..max
      BY <2>1, <2>2, <2>6, <3>1, <3>2
    <3>4. /\ Len(closed) + 1 \in 1..Len(chunks)
          /\ \A c \in 1..Len(closed) : c \in 1..Len(chunks)
      BY <2>1, <3>1
    <3>5. ASSUME NEW s, Keeps(packed, s) PROVE \E c \in 1..Len(chunks) : Has(chunks[c], s)
      <4>1. CASE Has(current, s)
        BY <3>1, <3>4, <4>1
      <4>2. CASE \E c \in 1..Len(closed) : Has(closed[c], s)
        BY <3>1, <3>4, <4>2
      <4> QED
        BY <2>3, <3>5, <4>1, <4>2
    <3> QED
      BY <3>1, <3>3, <3>5
  <2> QED
    BY <2>5, <2>6
<1>9. ASSUME NEW p \in 1..Len(t), NEW i \in 1..Len(t[p]), NEW j \in i..Len(t[p]),
             j - i <= overlap, t[p][i] \notin White, t[p][j] \notin White
      PROVE  \E c \in 1..Len(chunks) : Has(chunks[c], SubSeq(t[p], i, j))
  <2> DEFINE s == SubSeq(t[p], i, j)
  <2>1. Covers(parts[p], t[p], max, overlap, 0)
    BY <1>2, <1>3
  <2>2. i \in 0+1..Len(t[p])
    OBVIOUS
  <2>3. PICK k \in 1..Len(parts[p]) : Has(parts[p][k], s)
    BY <1>9, <2>1, <2>2 DEF Covers
  <2>4. Inked(s)
    <3>1. t[p] \in Seq(Nat)
      BY <1>1
    <3> QED
      BY <1>9, <3>1, PartFacts
  <2> HIDE DEF s
  <2>5. parts[p][k] \in Range(segments)
    <3>1. parts[p][k] \in Range(parts[p])
      BY <2>1, RangeElements DEF Covers
    <3> QED
      BY <1>5, <3>1
  <2>6. PICK q \in 1..Len(segments) : segments[q] = parts[p][k]
    BY <1>5, <2>5, RangeElements
  <2>7. Keeps(packed, s)
    BY <1>7, <2>3, <2>4, <2>6
  <2>8. \E c \in 1..Len(chunks) : Has(chunks[c], s)
    BY <1>8, <2>4, <2>7
  <2> QED
    BY <2>8 DEF s
<1> QED
  BY <1>8, <1>9 DEF chunks

-----------------------------------------------------------------------------
(* The theorem about chunks.                                               *)

(* A stretch of a chunk is a part of it.                                   *)
LEMMA StretchIsPart ==
  ASSUME NEW c \in Seq(Nat), NEW s \in Seq(Nat), NEW i \in 1..Len(s), NEW j \in i..Len(s),
         Has(c, SubSeq(s, i, j))
  PROVE  \E at \in 0..(Len(c) - (j - i) - 1) :
           SubSeq(c, at + 1, at + 1 + j - i) = SubSeq(s, i, j)
<1> DEFINE t == SubSeq(s, i, j)
<1>1. t \in Seq(Nat) /\ Len(t) = j - i + 1
  BY PartFacts
<1> HIDE DEF t
<1>2. PICK at \in 0..Len(c) - Len(t) : \A m \in 1..Len(t) : c[at + m] = t[m]
  BY DEF Has, t
<1>3. Len(c) \in Nat /\ Len(s) \in Nat /\ i \in Nat /\ j \in Nat /\ i <= j
  OBVIOUS
<1> DEFINE a == at + 1
           b == at + 1 + j - i
<1>4. at \in 0..(Len(c) - (j - i) - 1) /\ a \in 1..Len(c) /\ b \in a..Len(c) /\ b - a + 1 = Len(t)
  BY <1>1, <1>2, <1>3
<1> DEFINE r == SubSeq(c, a, b)
<1>5. r \in Seq(Nat) /\ Len(r) = b - a + 1 /\ \A m \in 1..b-a+1 : r[m] = c[a+m-1]
  <2> HIDE DEF a, b
  <2> QED BY <1>4, PartFacts
<1>6. \A m \in 1..Len(t) : a+m-1 = at + m
  BY <1>1, <1>2, <1>3
<1> HIDE DEF r, a, b
<1>7. Len(r) = Len(t) /\ \A m \in 1..Len(r) : r[m] = t[m]
  <2>1. Len(r) = Len(t)
    BY <1>4, <1>5
  <2>2. ASSUME NEW m \in 1..Len(r) PROVE r[m] = t[m]
    <3>1. m \in 1..Len(t) /\ m \in 1..b-a+1
      BY <1>4, <2>1
    <3> QED
      BY <1>2, <1>5, <1>6, <3>1
  <2> QED
    BY <2>1, <2>2
<1>8. r = t
  BY <1>1, <1>5, <1>7, SeqEqual
<1> QED
  BY <1>4, <1>8 DEF r, t, a, b

(* The inductive invariant: every paragraph that was read starts and ends  *)
(* with ink.                                                               *)
TextInv == text \in Seq(Seq(Nat)) /\ Legible(text) /\ settings \in Settings

(* A paragraph whose characters stand for themselves starts and ends with  *)
(* ink as it did.                                                          *)
LEMMA LetteredFacts ==
  ASSUME text \in Seq(Seq(Nat)), NEW paragraph \in Paragraphs
  PROVE  Inked(Lettered(paragraph))
<1> DEFINE s == Lettered(paragraph)
           n == Len(paragraph)
           base == 100 * (Len(text) + 1)
<1>1. /\ paragraph \in Seq(Nat) /\ paragraph # <<>>
      /\ paragraph[1] \notin White /\ paragraph[n] \notin White
  BY ParagraphsAssumption
<1>2. n \in Nat /\ n >= 1 /\ DOMAIN paragraph = 1..n /\ \A i \in 1..n : paragraph[i] \in Nat
  BY <1>1, EmptySeq
<1>3. base \in Nat /\ base >= 100
  <2>1. Len(text) \in Nat
    OBVIOUS
  <2> QED
    BY <2>1
<1> HIDE DEF base
<1>4. s = [i \in 1..n |-> IF paragraph[i] \in White THEN paragraph[i] ELSE base + i]
  BY <1>2 DEF Lettered, base
<1> HIDE DEF n, s
<1>5. ASSUME NEW i \in 1..n PROVE s[i] \in Nat
  <2>1. s[i] = IF paragraph[i] \in White THEN paragraph[i] ELSE base + i
    BY <1>4
  <2>2. paragraph[i] \in Nat /\ base + i \in Nat
    BY <1>2, <1>3
  <2> QED
    BY <2>1, <2>2
<1>6. s \in Seq(Nat) /\ Len(s) = n
  <2>1. s = [i \in 1..n |-> s[i]]
    BY <1>4
  <2>2. s \in [1..n -> Nat]
    BY <1>5, <2>1
  <2>3. n \in Nat
    BY <1>2
  <2> QED
    BY <2>2, <2>3, FunctionIsSequence
<1>7. \A i \in 1..n : paragraph[i] \notin White => s[i] \notin White
  <2>1. ASSUME NEW i \in 1..n, paragraph[i] \notin White PROVE s[i] \notin White
    <3>1. s[i] = base + i
      BY <1>4, <2>1
    <3>2. s[i] >= 100 /\ s[i] \in Nat
      BY <1>2, <1>3, <3>1
    <3> QED
      BY <3>2 DEF White, Space, LineEnd
  <2> QED
    BY <2>1
<1>8. 1 \in 1..n /\ n \in 1..n
  BY <1>2
<1>9. Inked(s)
  BY <1>1, <1>2, <1>6, <1>7, <1>8 DEF Inked, n
<1> QED
  BY <1>9 DEF s

(* An empty text has no paragraphs.                                        *)
LEMMA TextInvInit == Init => TextInv
<1> SUFFICES ASSUME Init PROVE TextInv
  OBVIOUS
<1>1. text = <<>> /\ settings \in Settings
  BY DEF Init
<1> QED
  BY <1>1 DEF TextInv, Legible

(* What is read is stripped and not empty, and chunks leave the text       *)
(* alone.                                                                  *)
LEMMA TextInvNext == TextInv /\ [Next]_vars => TextInv'
<1> SUFFICES ASSUME TextInv, [Next]_vars PROVE TextInv'
  OBVIOUS
<1>1. ASSUME NEW paragraph \in Paragraphs, Read(paragraph) PROVE TextInv'
  <2> DEFINE s == Lettered(paragraph)
  <2>1. Inked(s) /\ s \in Seq(Nat)
    <3>1. Inked(s)
      BY LetteredFacts DEF TextInv
    <3> QED
      BY <3>1 DEF Inked
  <2>2. text' = Append(text, s) /\ settings' = settings
    BY <1>1 DEF Read
  <2> HIDE DEF s
  <2>3. /\ text' \in Seq(Seq(Nat)) /\ Len(text') = Len(text) + 1 /\ Len(text) \in Nat
        /\ \A p \in 1..Len(text) : text'[p] = text[p]
        /\ text'[Len(text) + 1] = s
    BY <2>1, <2>2, AppendProperties DEF TextInv
  <2>4. ASSUME NEW p \in 1..Len(text') PROVE Inked(text'[p])
    <3>1. p \in 1..Len(text) \/ p = Len(text) + 1
      BY <2>3
    <3> QED
      BY <2>1, <2>3, <3>1 DEF TextInv, Legible
  <2> QED
    BY <2>2, <2>3, <2>4 DEF TextInv, Legible
<1>2. ASSUME NEW chunk \in Chunks, Upsert(chunk) PROVE TextInv'
  BY <1>2 DEF Upsert, TextInv, Legible
<1>3. CASE UNCHANGED vars
  BY <1>3 DEF vars, TextInv, Legible
<1> QED
  BY <1>1, <1>2, <1>3 DEF Next

(* Every setting with an overlap of at most half the size fits.            *)
LEMMA TextInvImplies == TextInv => ChunksAreWhole
<1> SUFFICES ASSUME TextInv, 2 * settings.overlap <= settings.max
             PROVE  KeepsStretches(text, settings.max, settings.overlap)
  BY DEF ChunksAreWhole
<1> DEFINE max == settings.max
           overlap == settings.overlap
           chunks == ChunkText(text, max, overlap)
<1>1. Fits(max, overlap)
  BY SettingsAssumption DEF TextInv, Fits
<1>2. text \in Seq(Seq(Nat)) /\ Legible(text)
  BY DEF TextInv
<1> HIDE DEF max, overlap
<1>3. /\ chunks \in Seq(Seq(Nat))
      /\ \A c \in 1..Len(chunks) : Len(chunks[c]) \in 1..max
      /\ \A p \in 1..Len(text) : \A i \in 1..Len(text[p]) : \A j \in i..Len(text[p]) :
           j - i <= overlap /\ text[p][i] \notin White /\ text[p][j] \notin White =>
             \E c \in 1..Len(chunks) : Has(chunks[c], SubSeq(text[p], i, j))
  BY <1>1, <1>2, ChunkTextFacts
<1> HIDE DEF chunks
<1>4. /\ DOMAIN text = 1..Len(text) /\ DOMAIN chunks = 1..Len(chunks)
      /\ \A p \in 1..Len(text) : text[p] \in Seq(Nat) /\ DOMAIN text[p] = 1..Len(text[p])
      /\ \A c \in 1..Len(chunks) : chunks[c] \in Seq(Nat)
  BY <1>2, <1>3
<1>5. ASSUME NEW p \in DOMAIN text, NEW i \in DOMAIN text[p], NEW j \in i..Len(text[p]),
             j - i <= overlap, text[p][i] \notin White, text[p][j] \notin White
      PROVE  \E c \in DOMAIN chunks : \E at \in 0..(Len(chunks[c]) - (j - i) - 1) :
               SubSeq(chunks[c], at + 1, at + 1 + j - i) = SubSeq(text[p], i, j)
  <2>1. p \in 1..Len(text) /\ i \in 1..Len(text[p]) /\ text[p] \in Seq(Nat)
    BY <1>4
  <2>2. PICK c \in 1..Len(chunks) : Has(chunks[c], SubSeq(text[p], i, j))
    BY <1>3, <1>5, <2>1
  <2>3. chunks[c] \in Seq(Nat) /\ c \in DOMAIN chunks
    BY <1>4
  <2>4. \E at \in 0..(Len(chunks[c]) - (j - i) - 1) :
          SubSeq(chunks[c], at + 1, at + 1 + j - i) = SubSeq(text[p], i, j)
    BY <2>1, <2>2, <2>3, StretchIsPart
  <2> QED
    BY <2>3, <2>4
<1>6. \A c \in DOMAIN chunks : Len(chunks[c]) \in 1..max
  BY <1>3, <1>4
<1> QED
  BY <1>5, <1>6, Zenon DEF KeepsStretches, chunks, max, overlap

(* Whatever the paragraphs and the settings with an overlap of at most     *)
(* half the chunk size: chunks keep to their size, and a stretch of a      *)
(* paragraph that fits the overlap is in one chunk, whole (chunk_text).    *)
THEOREM ChunksStayWhole == Spec => []ChunksAreWhole
<1>1. Init => TextInv
  BY TextInvInit
<1>2. TextInv /\ [Next]_vars => TextInv'
  BY TextInvNext
<1>3. TextInv => ChunksAreWhole
  BY TextInvImplies
<1> QED
  BY <1>1, <1>2, <1>3, PTL DEF Spec

-----------------------------------------------------------------------------
(* Sums.                                                                   *)

(* What a sum of some of n numbers must satisfy.                           *)
Sums(g, n, f) ==
  \A s \in SUBSET (1..n) :
    g[s] = IF s = {} THEN 0 ELSE f[CHOOSE x \in s : TRUE] + g[s \ {CHOOSE x \in s : TRUE}]

(* The function that a sum computes exists: by induction on the number of  *)
(* summands, which are added in an order that nobody knows.                *)
LEMMA SumRecursion ==
  ASSUME NEW n \in Nat, NEW f
  PROVE  \E g : Sums(g, n, f)
<1> DEFINE Pick(s) == CHOOSE x \in s : TRUE
           Step(g, s) == IF s = {} THEN 0 ELSE f[Pick(s)] + g[s \ {Pick(s)}]
           K == {k \in Nat : \E g : \A s \in SUBSET (1..n) : Cardinality(s) <= k => g[s] = Step(g, s)}
<1>1. \A s \in SUBSET (1..n) : IsFiniteSet(s) /\ Cardinality(s) \in Nat /\ Cardinality(s) <= n
  <2>1. IsFiniteSet(1..n) /\ Cardinality(1..n) = n
    BY FS_Interval
  <2> QED
    BY <2>1, FS_Subset, FS_CardinalityType
<1>2. \A s \in SUBSET (1..n) : s # {} =>
        /\ Pick(s) \in s /\ s \ {Pick(s)} \in SUBSET (1..n)
        /\ Cardinality(s \ {Pick(s)}) = Cardinality(s) - 1
  <2>1. \A s \in SUBSET (1..n) : s # {} => Pick(s) \in s
    OBVIOUS
  <2> HIDE DEF Pick
  <2> QED
    BY <1>1, <2>1, FS_RemoveElement
<1> HIDE DEF Pick
<1>3. 0 \in K
  <2> DEFINE g == [s \in SUBSET (1..n) |-> 0]
  <2>1. \A s \in SUBSET (1..n) : Cardinality(s) <= 0 => s = {}
    BY <1>1, FS_EmptySet
  <2>2. ASSUME NEW s \in SUBSET (1..n), Cardinality(s) <= 0 PROVE g[s] = Step(g, s)
    BY <2>1, <2>2
  <2> HIDE DEF g, Step
  <2>3. 0 \in Nat /\ \E h : \A s \in SUBSET (1..n) : Cardinality(s) <= 0 => h[s] = Step(h, s)
    BY <2>2
  <2> QED
    BY <2>3, Zenon
<1>4. ASSUME NEW k \in Nat, k \in K PROVE k + 1 \in K
  <2>1. PICK g : \A s \in SUBSET (1..n) : Cardinality(s) <= k => g[s] = Step(g, s)
    BY <1>4
  <2> DEFINE h == [s \in SUBSET (1..n) |-> IF Cardinality(s) <= k THEN g[s] ELSE Step(g, s)]
  <2>2. \A s \in SUBSET (1..n) : h[s] = IF Cardinality(s) <= k THEN g[s] ELSE Step(g, s)
    OBVIOUS
  <2> HIDE DEF h
  <2>3. ASSUME NEW s \in SUBSET (1..n), Cardinality(s) <= k + 1 PROVE h[s] = Step(h, s)
    <3>1. h[s] = Step(g, s)
      <4> HIDE DEF Step
      <4> QED BY <2>1, <2>2
    <3>2. CASE s = {}
      BY <3>1, <3>2
    <3>3. CASE s # {}
      <4> DEFINE r == s \ {Pick(s)}
      <4>0. /\ r \in SUBSET (1..n) /\ Cardinality(r) = Cardinality(s) - 1
            /\ Cardinality(s) \in Nat /\ Cardinality(s) <= k + 1
        <5> HIDE DEF Step, K
        <5> QED BY <1>1, <1>2, <2>3, <3>3
      <4>1. r \in SUBSET (1..n) /\ Cardinality(r) <= k
        <5> HIDE DEF r, Step, K
        <5> QED BY <4>0
      <4> HIDE DEF r, Step
      <4>2. h[r] = g[r]
        BY <2>2, <4>1
      <4> USE DEF r, Step
      <4>3. Step(h, s) = Step(g, s)
        BY <4>2
      <4> QED
        BY <3>1, <4>3
    <3> QED
      BY <3>2, <3>3
  <2>4. k + 1 \in Nat
    OBVIOUS
  <2> HIDE DEF Step
  <2>5. \E r : \A s \in SUBSET (1..n) : Cardinality(s) <= k + 1 => r[s] = Step(r, s)
    BY <2>3
  <2> QED
    BY <2>4, <2>5, Zenon
<1>5. Nat \subseteq K
  <2> HIDE DEF K
  <2> QED BY <1>3, <1>4, SetInduction
<1> HIDE DEF Step
<1>6. PICK g : \A s \in SUBSET (1..n) : Cardinality(s) <= n => g[s] = Step(g, s)
  BY <1>5
<1>7. \A s \in SUBSET (1..n) : g[s] = Step(g, s)
  BY <1>1, <1>6
<1>8. Sums(g, n, f)
  BY <1>7, Zenon DEF Sums, Step, Pick
<1> QED
  BY <1>8

(* A sum of numbers is a number, and not negative if none of them is.      *)
LEMMA SumFacts ==
  ASSUME NEW n \in Nat, NEW f \in [1..n -> Int]
  PROVE  /\ SumOf(f) \in Int
         /\ (\A i \in 1..n : f[i] >= 0) => SumOf(f) >= 0
<1> DEFINE Pick(s) == CHOOSE x \in s : TRUE
           Step(g, s) == IF s = {} THEN 0 ELSE f[Pick(s)] + g[s \ {Pick(s)}]
           iter == CHOOSE g : g = [s \in SUBSET (1..n) |-> Step(g, s)]
<1>1. DOMAIN f = 1..n
  OBVIOUS
<1>2. SumOf(f) = iter[1..n]
  BY <1>1 DEF SumOf, FoldFunction, FoldFunctionOnSet, MapThenFoldSet
<1>3. \E g : g = [s \in SUBSET (1..n) |-> Step(g, s)]
  <2>1. PICK g : Sums(g, n, f)
    BY SumRecursion
  <2>2. \A s \in SUBSET (1..n) : g[s] = Step(g, s)
    BY <2>1, Zenon DEF Sums
  <2> DEFINE h == [s \in SUBSET (1..n) |-> g[s]]
  <2>3. \A s \in SUBSET (1..n) : h[s] = g[s]
    OBVIOUS
  <2>4. \A s \in SUBSET (1..n) : h[s] = Step(h, s)
    <3> SUFFICES ASSUME NEW s \in SUBSET (1..n) PROVE h[s] = Step(h, s)
      OBVIOUS
    <3>1. h[s \ {Pick(s)}] = g[s \ {Pick(s)}]
      <4> HIDE DEF h, Pick
      <4>1. s \ {Pick(s)} \in SUBSET (1..n)
        OBVIOUS
      <4> QED BY <2>3, <4>1
    <3> HIDE DEF h, Pick
    <3>2. Step(h, s) = Step(g, s)
      BY <3>1
    <3> QED
      BY <2>2, <2>3, <3>2
  <2>5. h = [s \in SUBSET (1..n) |-> h[s]]
    OBVIOUS
  <2> HIDE DEF h, Step
  <2>6. h = [s \in SUBSET (1..n) |-> Step(h, s)]
    BY <2>4, <2>5
  <2> QED
    BY <2>6, Zenon
<1>4. iter = [s \in SUBSET (1..n) |-> Step(iter, s)]
  <2> HIDE DEF Step
  <2> QED BY <1>3, Zenon
<1> HIDE DEF iter, Pick
<1>5. \A s \in SUBSET (1..n) : iter[s] = Step(iter, s)
  BY <1>4, Zenon
<1> DEFINE Fine(s) == /\ iter[s] \in Int
                      /\ (\A i \in 1..n : f[i] >= 0) => iter[s] >= 0
           K == {k \in Nat : \A s \in SUBSET (1..n) : Cardinality(s) = k => Fine(s)}
<1>6. IsFiniteSet(1..n) /\ \A s \in SUBSET (1..n) : IsFiniteSet(s) /\ Cardinality(s) \in Nat
  <2>1. IsFiniteSet(1..n) /\ Cardinality(1..n) = n
    BY FS_Interval
  <2> QED
    BY <2>1, FS_Subset, FS_CardinalityType
<1>7. 0 \in K
  <2>1. \A s \in SUBSET (1..n) : Cardinality(s) = 0 => s = {}
    BY <1>6, FS_EmptySet
  <2>2. iter[{}] = 0
    BY <1>5
  <2>3. Fine({})
    BY <2>2
  <2> HIDE DEF Fine
  <2>4. 0 \in Nat /\ \A s \in SUBSET (1..n) : Cardinality(s) = 0 => Fine(s)
    BY <2>1, <2>3
  <2> QED
    BY <2>4, Zenon
<1>8. ASSUME NEW k \in Nat, k \in K PROVE k + 1 \in K
  <2>1. ASSUME NEW s \in SUBSET (1..n), Cardinality(s) = k + 1 PROVE Fine(s)
    <3> HIDE DEF Step, Fine, K
    <3>1. s # {}
      <4>1. Cardinality({}) = 0 /\ k + 1 # 0
        BY FS_EmptySet
      <4> QED
        BY <2>1, <4>1
    <3>2. Pick(s) \in s
      BY <3>1 DEF Pick
    <3>3. s \ {Pick(s)} \in SUBSET (1..n) /\ Cardinality(s \ {Pick(s)}) = k
      <4>1. IsFiniteSet(s)
        BY <1>6
      <4>2. Cardinality(s \ {Pick(s)}) = Cardinality(s) - 1
        BY <3>2, <4>1, FS_RemoveElement
      <4>3. (k + 1) - 1 = k
        OBVIOUS
      <4> QED
        BY <2>1, <4>2, <4>3
    <3>4. Fine(s \ {Pick(s)})
      BY <1>8, <3>3 DEF K
    <3>5. iter[s] = f[Pick(s)] + iter[s \ {Pick(s)}]
      BY <1>5, <3>1 DEF Step
    <3>6. f[Pick(s)] \in Int /\ ((\A i \in 1..n : f[i] >= 0) => f[Pick(s)] >= 0)
      BY <3>2
    <3> QED
      BY <3>4, <3>5, <3>6 DEF Fine
  <2>2. k + 1 \in Nat
    OBVIOUS
  <2> HIDE DEF Fine
  <2> QED
    BY <2>1, <2>2
<1>9. Nat \subseteq K
  <2> HIDE DEF K
  <2> QED BY <1>7, <1>8, SetInduction
<1> HIDE DEF Fine
<1>10. Fine(1..n)
  BY <1>6, <1>9
<1> QED
  BY <1>2, <1>10 DEF Fine

(* Products and norms are numbers, and norms are not negative.             *)
LEMMA VectorFacts ==
  ASSUME NEW a \in Seq(Int), NEW b \in Seq(Int)
  PROVE  Dot(a, b) \in Int /\ NormSquared(a) \in Nat
<1> DEFINE n == Smaller(Len(a), Len(b))
           products == [i \in 1..n |-> a[i] * b[i]]
           squares == [i \in 1..Len(a) |-> a[i] * a[i]]
<1>1. /\ n \in Nat /\ 1..n \subseteq 1..Len(a) /\ 1..n \subseteq 1..Len(b)
      /\ Len(a) \in Nat /\ DOMAIN a = 1..Len(a)
      /\ \A i \in 1..Len(a) : a[i] \in Int
      /\ \A i \in 1..Len(b) : b[i] \in Int
  <2> HIDE DEF products, squares
  <2>1. Len(a) \in Nat /\ Len(b) \in Nat /\ DOMAIN a = 1..Len(a)
    OBVIOUS
  <2>2. \A i \in 1..Len(a) : a[i] \in Int
    OBVIOUS
  <2>3. \A i \in 1..Len(b) : b[i] \in Int
    OBVIOUS
  <2>4. n \in Nat /\ n <= Len(a) /\ n <= Len(b)
    BY <2>1 DEF Smaller
  <2> HIDE DEF n
  <2>5. 1..n \subseteq 1..Len(a) /\ 1..n \subseteq 1..Len(b)
    BY <2>1, <2>4
  <2> QED
    BY <2>1, <2>2, <2>3, <2>4, <2>5
<1>2. Dot(a, b) \in Int
  <2>1. products \in [1..n -> Int]
    <3>1. \A x \in Int, y \in Int : x * y \in Int
      OBVIOUS
    <3>2. \A i \in 1..n : a[i] \in Int /\ b[i] \in Int
      <4> HIDE DEF n, products, squares
      <4> QED BY <1>1
    <3> HIDE DEF n
    <3>3. \A i \in 1..n : a[i] * b[i] \in Int
      BY <3>1, <3>2
    <3> QED
      BY <3>3
  <2>2. Dot(a, b) = SumOf(products)
    BY DEF Dot
  <2> HIDE DEF products, n
  <2> QED
    BY <1>1, <2>1, <2>2, SumFacts
<1>3. NormSquared(a) \in Nat
  <2>1. \A x \in Int : x * x \in Int /\ x * x >= 0
    OBVIOUS
  <2>2. squares \in [1..Len(a) -> Int] /\ \A i \in 1..Len(a) : squares[i] >= 0
    BY <1>1, <2>1
  <2>3. NormSquared(a) = SumOf(squares)
    BY <1>1 DEF NormSquared
  <2> HIDE DEF squares, products, n
  <2>4. Len(a) \in Nat
    BY <1>1
  <2>5. SumOf(squares) \in Int /\ SumOf(squares) >= 0
    BY <2>2, <2>4, SumFacts
  <2> QED
    BY <2>3, <2>5
<1> QED
  BY <1>2, <1>3

-----------------------------------------------------------------------------
(* Orders.                                                                 *)

(* A relation that puts any two numbers of a set in one order only, and is *)
(* transitive.                                                             *)
Orders(R, T) ==
  /\ \A i \in T : <<i, i>> \notin R
  /\ \A i \in T, j \in T : i # j => <<i, j>> \in R \/ <<j, i>> \in R
  /\ \A i \in T, j \in T, k \in T : <<i, j>> \in R /\ <<j, k>> \in R => <<i, k>> \in R

(* A number of a set that follows all the others.                          *)
IsLast(x, S, R) == x \in S /\ \A y \in S : y # x => <<y, x>> \in R

(* Every part of such a set that is not empty has one.                     *)
LEMMA OrderHasLast ==
  ASSUME NEW n \in Nat, NEW T, T \subseteq 1..n, NEW R, Orders(R, T), NEW S, S \subseteq T, S # {}
  PROVE  \E x : IsLast(x, S, R)
<1> DEFINE HasLast(U) == \E x \in U : \A y \in U : y # x => <<y, x>> \in R
           K == {k \in Nat : \A U \in SUBSET T : U \subseteq 1..k /\ U # {} => HasLast(U)}
<1>1. 0 \in K
  <2>1. 1..0 = {} /\ 0 \in Nat
    OBVIOUS
  <2> HIDE DEF HasLast
  <2> QED
    BY <2>1, Zenon
<1>2. ASSUME NEW k \in Nat, k \in K PROVE k + 1 \in K
  <2>1. ASSUME NEW U \in SUBSET T, U \subseteq 1..k+1, U # {} PROVE HasLast(U)
    <3> DEFINE V == U \ {k + 1}
    <3>1. V \subseteq 1..k /\ V \in SUBSET T
      BY <2>1
    <3>2. CASE k + 1 \notin U
      <4>1. U \subseteq 1..k
        BY <2>1, <3>2
      <4> HIDE DEF HasLast
      <4> QED
        BY <1>2, <2>1, <4>1
    <3>3. CASE k + 1 \in U /\ V = {}
      <4>1. \A y \in U : y = k + 1
        BY <3>3
      <4> QED
        BY <3>3, <4>1
    <3>4. CASE k + 1 \in U /\ V # {}
      <4>1. HasLast(V)
        <5> HIDE DEF HasLast, V
        <5> QED BY <1>2, <3>1, <3>4
      <4>2. PICK x \in V : \A y \in V : y # x => <<y, x>> \in R
        BY <4>1
      <4>3. x \in T /\ k + 1 \in T /\ x # k + 1 /\ x \in U /\ \A y \in U : y \in V \/ y = k + 1
        BY <3>1, <3>4, <4>2
      <4>0. \A y \in U : y \in T
        OBVIOUS
      <4> HIDE DEF V
      <4>4. CASE <<x, k + 1>> \in R
        <5>1. ASSUME NEW y \in U, y # k + 1 PROVE <<y, k + 1>> \in R
          BY <4>2, <4>3, <4>0, <4>4, <5>1 DEF Orders
        <5> QED
          BY <3>4, <5>1
      <4>5. CASE <<k + 1, x>> \in R
        <5>1. ASSUME NEW y \in U, y # x PROVE <<y, x>> \in R
          BY <4>2, <4>3, <4>5, <5>1
        <5> QED
          BY <4>3, <5>1
      <4> QED
        BY <4>3, <4>4, <4>5 DEF Orders
    <3> QED
      BY <3>2, <3>3, <3>4
  <2>2. k + 1 \in Nat
    OBVIOUS
  <2> HIDE DEF HasLast
  <2> QED
    BY <2>1, <2>2
<1>3. Nat \subseteq K
  <2> HIDE DEF K
  <2> QED BY <1>1, <1>2, SetInduction
<1> HIDE DEF HasLast
<1>4. S \in SUBSET T /\ S \subseteq 1..n
  OBVIOUS
<1>5. HasLast(S)
  BY <1>3, <1>4
<1> QED
  BY <1>5 DEF HasLast, IsLast

(* A sequence of all the numbers of a set, in order.                       *)
Sorted(s, T, R) ==
  /\ s \in [1..Cardinality(T) -> T]
  /\ \A m \in 1..Cardinality(T), l \in 1..Cardinality(T) : m < l => <<s[m], s[l]>> \in R

(* A finite set of numbers can be sorted.                                  *)
LEMMA SortExists ==
  ASSUME NEW n \in Nat, NEW T, T \subseteq 1..n, NEW R, Orders(R, T)
  PROVE  \E s : Sorted(s, T, R)
<1> DEFINE Sorts(s, U) == \A m \in 1..Cardinality(U), l \in 1..Cardinality(U) : m < l => <<s[m], s[l]>> \in R
           K == {k \in Nat : \A U \in SUBSET T :
                   Cardinality(U) = k => \E s \in [1..Cardinality(U) -> U] : Sorts(s, U)}
<1>1. \A U \in SUBSET T : IsFiniteSet(U) /\ Cardinality(U) \in Nat
  <2>1. IsFiniteSet(1..n) /\ \A U \in SUBSET T : U \in SUBSET (1..n)
    BY FS_Interval
  <2> QED
    BY <2>1, FS_Subset, FS_CardinalityType
<1>2. 0 \in K
  <2>1. ASSUME NEW U \in SUBSET T, Cardinality(U) = 0 PROVE \E s \in [1..Cardinality(U) -> U] : Sorts(s, U)
    <3> DEFINE s == [i \in 1..0 |-> 0]
    <3>1. s \in [1..Cardinality(U) -> U] /\ 1..Cardinality(U) = {}
      BY <2>1
    <3> HIDE DEF s
    <3> QED
      BY <3>1
  <2> HIDE DEF Sorts
  <2> QED
    BY <2>1
<1>3. ASSUME NEW k \in Nat, k \in K PROVE k + 1 \in K
  <2>1. ASSUME NEW U \in SUBSET T, Cardinality(U) = k + 1
        PROVE  \E s \in [1..Cardinality(U) -> U] : Sorts(s, U)
    <3> HIDE DEF K, Sorts
    <3>1. U # {}
      <4>1. Cardinality({}) = 0 /\ k + 1 # 0
        BY FS_EmptySet
      <4> QED
        BY <2>1, <4>1
    <3>0. PICK x : IsLast(x, U, R)
      <4>1. U \subseteq T /\ T \subseteq 1..n /\ Orders(R, T)
        OBVIOUS
      <4> QED
        BY <3>1, <4>1, OrderHasLast
    <3>2. x \in U /\ \A y \in U : y # x => <<y, x>> \in R
      BY <3>0 DEF IsLast
    <3> DEFINE V == U \ {x}
    <3>3. V \in SUBSET T /\ Cardinality(V) = k
      <4>1. IsFiniteSet(U)
        BY <1>1
      <4>2. Cardinality(V) = Cardinality(U) - 1
        BY <3>2, <4>1, FS_RemoveElement
      <4>3. (k + 1) - 1 = k
        OBVIOUS
      <4> QED
        BY <2>1, <4>2, <4>3
    <3>4. PICK s \in [1..Cardinality(V) -> V] : Sorts(s, V)
      <4> HIDE DEF V
      <4> QED BY <1>3, <3>3 DEF K
    <3> DEFINE r == [i \in 1..k+1 |-> IF i = k + 1 THEN x ELSE s[i]]
    <3>5. /\ \A i \in 1..k : r[i] = s[i] /\ s[i] \in U /\ s[i] # x
          /\ r[k + 1] = x
      <4>1. \A i \in 1..k : s[i] \in V
        <5> HIDE DEF V
        <5> QED BY <3>3, <3>4
      <4>2. \A i \in 1..k : s[i] \in U /\ s[i] # x
        BY <4>1
      <4>3. \A i \in 1..k : i \in 1..k+1 /\ i # k + 1
        OBVIOUS
      <4>4. k + 1 \in 1..k+1
        OBVIOUS
      <4>5. \A i \in 1..k : r[i] = s[i]
        <5> HIDE DEF V
        <5> QED BY <4>3
      <4>6. r[k + 1] = x
        <5> HIDE DEF V
        <5> QED BY <4>4
      <4> HIDE DEF r, V
      <4> QED
        BY <4>2, <4>5, <4>6
    <3>6. r \in [1..k+1 -> U]
      <4>1. \A i \in 1..k+1 : (IF i = k + 1 THEN x ELSE s[i]) \in U
        <5>1. \A i \in 1..k+1 : i = k + 1 \/ i \in 1..k
          OBVIOUS
        <5> HIDE DEF r
        <5> QED BY <3>2, <3>5, <5>1
      <4> QED
        BY <4>1
    <3> HIDE DEF r, V
    <3>7. ASSUME NEW m \in 1..k+1, NEW l \in 1..k+1, m < l PROVE <<r[m], r[l]>> \in R
      <4>1. m \in 1..k /\ (l \in 1..k \/ l = k + 1)
        BY <3>7
      <4>2. CASE l \in 1..k
        <5>1. <<s[m], s[l]>> \in R
          BY <3>3, <3>4, <3>7, <4>1, <4>2 DEF Sorts
        <5> QED
          BY <3>5, <4>1, <4>2, <5>1
      <4>3. CASE l = k + 1
        BY <3>2, <3>5, <4>1, <4>3
      <4> QED
        BY <4>1, <4>2, <4>3
    <3> QED
      BY <2>1, <3>6, <3>7 DEF Sorts
  <2>2. k + 1 \in Nat
    OBVIOUS
  <2> HIDE DEF Sorts
  <2> QED
    BY <2>1, <2>2
<1>4. Nat \subseteq K
  <2> HIDE DEF K
  <2> QED BY <1>2, <1>3, SetInduction
<1> HIDE DEF Sorts
<1>5. \E s \in [1..Cardinality(T) -> T] : Sorts(s, T)
  <2>1. T \in SUBSET T /\ Cardinality(T) \in Nat
    BY <1>1
  <2> QED
    BY <1>4, <2>1
<1> QED
  BY <1>5 DEF Sorts, Sorted

(* Products with a positive number keep the order.                         *)
LEMMA Cancel ==
  ASSUME NEW a \in Int, NEW b \in Int, NEW y \in Nat, y # 0
  PROVE  (a * y > b * y <=> a > b) /\ (a * y >= b * y <=> a >= b)
  OBVIOUS

(* Fractions of positive denominators are transitively ordered.            *)
LEMMA Fractions ==
  ASSUME NEW a \in Int, NEW b \in Int, NEW c \in Int,
         NEW x \in Nat, NEW y \in Nat, NEW z \in Nat, x # 0, y # 0, z # 0
  PROVE  /\ a * y >= b * x /\ b * z >= c * y => a * z >= c * x
         /\ a * y > b * x /\ b * z >= c * y => a * z > c * x
         /\ a * y >= b * x /\ b * z > c * y => a * z > c * x
<1> DEFINE ay == a * y
           bx == b * x
           bz == b * z
           cy == c * y
           az == a * z
           cx == c * x
<1>1. ay \in Int /\ bx \in Int /\ bz \in Int /\ cy \in Int /\ az \in Int /\ cx \in Int
  OBVIOUS
<1>2. ay * z = az * y /\ bx * z = bz * x /\ cy * x = cx * y
  OBVIOUS
<1> HIDE DEF ay, bx, bz, cy, az, cx
<1>3. /\ ay * z > bx * z <=> ay > bx
      /\ ay * z >= bx * z <=> ay >= bx
      /\ bz * x > cy * x <=> bz > cy
      /\ bz * x >= cy * x <=> bz >= cy
      /\ az * y > cx * y <=> az > cx
      /\ az * y >= cx * y <=> az >= cx
  BY <1>1, Cancel
<1>4. /\ ay >= bx /\ bz >= cy => az >= cx
      /\ ay > bx /\ bz >= cy => az > cx
      /\ ay >= bx /\ bz > cy => az > cx
  <2>1. \A p \in Int, q \in Nat : p * q \in Int
    OBVIOUS
  <2> DEFINE A == az * y
             B == bx * z
             C == cx * y
  <2>2. A \in Int /\ B \in Int /\ C \in Int
    BY <1>1, <2>1
  <2>3. /\ A > B <=> ay > bx
        /\ A >= B <=> ay >= bx
        /\ B > C <=> bz > cy
        /\ B >= C <=> bz >= cy
        /\ A > C <=> az > cx
        /\ A >= C <=> az >= cx
    BY <1>2, <1>3
  <2> HIDE DEF A, B, C
  <2> QED
    BY <1>1, <2>2, <2>3
<1> QED
  BY <1>4 DEF ay, bx, bz, cy, az, cx

-----------------------------------------------------------------------------
(* The theorem about searches.                                             *)

(* A chunk and a query that can be compared.                               *)
Comparable(query, c) == c.embedding \in Seq(Int) /\ query \in Seq(Int) /\ Scored(query, c)

(* Scores of comparable chunks are compared in one way only.               *)
LEMMA CloserFacts ==
  ASSUME NEW query, NEW c, NEW d, NEW e,
         Comparable(query, c), Comparable(query, d), Comparable(query, e)
  PROVE  /\ ~(Closer(query, c, d) /\ Closer(query, d, c))
         /\ ~Closer(query, d, c) /\ ~Closer(query, e, d) => ~Closer(query, e, c)
         /\ Closer(query, c, d) /\ ~Closer(query, e, d) => Closer(query, c, e)
         /\ ~Closer(query, d, c) /\ Closer(query, d, e) => Closer(query, c, e)
<1> DEFINE A(k) == Signed(Dot(query, k.embedding))
           N(k) == NormSquared(k.embedding)
           Fine(k) == A(k) \in Int /\ N(k) \in Nat /\ N(k) # 0
<1>1. ASSUME NEW k, Comparable(query, k) PROVE Fine(k)
  <2>1. Dot(query, k.embedding) \in Int /\ N(k) \in Nat
    BY <1>1, VectorFacts DEF Comparable
  <2>2. N(k) # 0
    BY <1>1 DEF Comparable, Scored
  <2>3. \A x \in Int : Signed(x) \in Int
    BY DEF Signed
  <2> QED
    BY <2>1, <2>2, <2>3
<1>2. Fine(c) /\ Fine(d) /\ Fine(e)
  BY <1>1
<1> DEFINE More(k, l) == A(k) * N(l) > A(l) * N(k)
<1>3. \A k, l : Closer(query, k, l) <=> More(k, l)
  BY DEF Closer
<1> HIDE DEF A, N
<1>4. \A x \in Int, y \in Nat : x * y \in Int
  OBVIOUS
<1> DEFINE cd == A(c) * N(d)
           dc == A(d) * N(c)
           de == A(d) * N(e)
           ed == A(e) * N(d)
           ce == A(c) * N(e)
           ec == A(e) * N(c)
<1>5. cd \in Int /\ dc \in Int /\ de \in Int /\ ed \in Int /\ ce \in Int /\ ec \in Int
  BY <1>2, <1>4
<1>6. /\ cd >= dc /\ de >= ed => ce >= ec
      /\ cd > dc /\ de >= ed => ce > ec
      /\ cd >= dc /\ de > ed => ce > ec
  BY <1>2, Fractions
<1>7. /\ More(c, d) <=> cd > dc
      /\ More(d, c) <=> dc > cd
      /\ More(d, e) <=> de > ed
      /\ More(e, d) <=> ed > de
      /\ More(c, e) <=> ce > ec
      /\ More(e, c) <=> ec > ce
  OBVIOUS
<1> HIDE DEF cd, dc, de, ed, ce, ec, More
<1>8. /\ ~(cd > dc /\ dc > cd)
      /\ ~(dc > cd) /\ ~(ed > de) => ~(ec > ce)
      /\ cd > dc /\ ~(ed > de) => ce > ec
      /\ ~(dc > cd) /\ de > ed => ce > ec
  BY <1>5, <1>6
<1> QED
  BY <1>3, <1>7, <1>8

(* The order of the stable sort of the in-memory store.                    *)
StableOrder(st, query, T) ==
  {p \in T \X T : \/ Closer(query, st[p[1]], st[p[2]])
                  \/ ~Closer(query, st[p[2]], st[p[1]]) /\ p[1] < p[2]}

(* It orders the chunks that can be compared, equal scores by their place. *)
LEMMA StableOrderOrders ==
  ASSUME NEW n \in Nat, NEW T, T \subseteq 1..n, NEW st, NEW query,
         \A i \in T : Comparable(query, st[i])
  PROVE  Orders(StableOrder(st, query, T), T)
<1> DEFINE R == StableOrder(st, query, T)
           Nearer(i, j) == Closer(query, st[i], st[j])
           Before(i, j) == Nearer(i, j) \/ (~Nearer(j, i) /\ i < j)
<1>1. \A i \in T, j \in T : <<i, j>> \in R <=> Before(i, j)
  BY DEF StableOrder
<1>2. \A i \in T, j \in T, k \in T :
        /\ ~(Nearer(i, j) /\ Nearer(j, i))
        /\ ~Nearer(j, i) /\ ~Nearer(k, j) => ~Nearer(k, i)
        /\ Nearer(i, j) /\ ~Nearer(k, j) => Nearer(i, k)
        /\ ~Nearer(j, i) /\ Nearer(j, k) => Nearer(i, k)
  BY CloserFacts
<1>3. \A i \in T : i \in Nat
  OBVIOUS
<1> HIDE DEF R, Nearer
<1>4. \A i \in T : ~Before(i, i)
  BY <1>2, <1>3
<1>5. \A i \in T, j \in T : i # j => Before(i, j) \/ Before(j, i)
  BY <1>3
<1>6. ASSUME NEW i \in T, NEW j \in T, NEW k \in T, Before(i, j), Before(j, k) PROVE Before(i, k)
  <2>1. ~Nearer(j, i) /\ ~Nearer(k, j)
    BY <1>2, <1>6
  <2>2. CASE Nearer(i, j) \/ Nearer(j, k)
    BY <1>2, <2>1, <2>2
  <2>3. CASE ~Nearer(i, j) /\ ~Nearer(j, k)
    <3>1. i < j /\ j < k
      BY <1>6, <2>3
    <3>2. i < k
      BY <1>3, <3>1
    <3>3. ~Nearer(k, i)
      BY <1>2, <2>1
    <3> QED
      BY <3>2, <3>3
  <2> QED
    BY <2>2, <2>3
<1> HIDE DEF Before
<1>7. Orders(R, T)
  BY <1>1, <1>4, <1>5, <1>6 DEF Orders
<1> QED
  BY <1>7 DEF R

(* Of a store whose chunks can be compared, the in-memory store returns an *)
(* answer that the SQL may return: it scores the same rows, none is left   *)
(* out or doubled by the sort, and what comes later or is cut off scores   *)
(* no higher.                                                              *)
LEMMA SearchFacts ==
  ASSUME NEW st \in Seq(Chunks), NEW query \in Seq(Int), NEW limit \in Nat, NEW filters
  PROVE  StoresAgree(st, query, limit, filters)
<1> SUFFICES ASSUME \A i \in DOMAIN st :
                      /\ st[i].ready /\ Scored(query, st[i])
                      /\ Matches(st[i], filters) => Len(st[i].embedding) = Len(query)
             PROVE  PostgresMayReturn(InMemoryReturns(st, query, limit, filters), st, query, limit, filters)
  BY Zenon DEF StoresAgree
<1> DEFINE n == Len(st)
           rows == {i \in DOMAIN st :
                      /\ Matches(st[i], filters) /\ st[i].ready
                      /\ HasDot(query, st[i])}
           scored == {i \in DOMAIN st :
                        /\ Matches(st[i], filters)
                        /\ Len(st[i].embedding) = Len(query) /\ Scored(query, st[i])}
           places == 1..Cardinality(scored)
           Before(i, j) == \/ Closer(query, st[i], st[j])
                           \/ ~Closer(query, st[j], st[i]) /\ i < j
           InOrder(s) == s \in [places -> scored] /\ \A m \in places, l \in places : m < l => Before(s[m], s[l])
           sorted == CHOOSE s \in [places -> scored] : \A m, l \in places : m < l => Before(s[m], s[l])
           answer == InMemoryReturns(st, query, limit, filters)
<1>1. n \in Nat /\ DOMAIN st = 1..n /\ \A i \in 1..n : st[i] \in Chunks
  OBVIOUS
<1>2. scored = rows
  BY DEF Scored
<1>3. \A i \in 1..n : Comparable(query, st[i])
  BY <1>1, ChunksAssumption DEF Comparable
<1>4. scored \subseteq 1..n
  BY <1>1
<1>5. IsFiniteSet(scored) /\ Cardinality(scored) \in Nat
  <2>1. IsFiniteSet(1..n)
    BY <1>1, FS_Interval
  <2> HIDE DEF scored, n
  <2> QED BY <1>4, <2>1, FS_Subset, FS_CardinalityType
<1>6. answer = SubSeq(sorted, 1, Smaller(limit, Len(sorted)))
  BY DEF InMemoryReturns
<1> HIDE DEF n, answer
<1> DEFINE R == StableOrder(st, query, scored)
<1>7. Orders(R, scored)
  <2> HIDE DEF scored
  <2> QED BY <1>1, <1>3, <1>4, StableOrderOrders
<1>8. InOrder(sorted)
  <2>1. PICK s : Sorted(s, scored, R)
    <3> HIDE DEF scored, R
    <3> QED BY <1>1, <1>4, <1>7, SortExists
  <2>2. \A i \in scored, j \in scored : <<i, j>> \in R => Before(i, j)
    BY DEF StableOrder
  <2> HIDE DEF scored, R
  <2>3. s \in [places -> scored] /\ \A m \in places, l \in places : m < l => <<s[m], s[l]>> \in R
    BY <2>1 DEF Sorted
  <2>4. \A m \in places : s[m] \in scored
    BY <2>3
  <2> HIDE DEF places, Before
  <2>5. \A m, l \in places : m < l => Before(s[m], s[l])
    BY <2>2, <2>3, <2>4
  <2>6. sorted \in [places -> scored] /\ \A m, l \in places : m < l => Before(sorted[m], sorted[l])
    BY <2>3, <2>5
  <2> HIDE DEF sorted
  <2> QED
    BY <2>6
<1> HIDE DEF sorted, R
<1> DEFINE k == Smaller(limit, Cardinality(scored))
<1>9. /\ sorted \in Seq(scored) /\ Len(sorted) = Cardinality(scored)
      /\ \A m \in places : sorted[m] \in scored
  <2> DEFINE c == Cardinality(scored)
  <2>1. c \in Nat /\ sorted \in [1..c -> scored]
    BY <1>5, <1>8
  <2> HIDE DEF c, scored, Before
  <2>2. sorted \in Seq(scored) /\ Len(sorted) = c /\ \A m \in 1..c : sorted[m] \in scored
    BY <2>1, FunctionIsSequence
  <2> QED
    BY <2>2 DEF c
<1>10. k \in Nat /\ 1..k \subseteq places
  <2> HIDE DEF scored
  <2> QED BY <1>5 DEF Smaller
<1>11. /\ answer \in Seq(scored) /\ Len(answer) = k /\ DOMAIN answer = 1..k
       /\ \A m \in 1..k : answer[m] = sorted[m]
  <2> HIDE DEF scored, k, places
  <2>1. answer = SubSeq(sorted, 1, k)
    BY <1>6, <1>9 DEF k
  <2>2. k <= Len(sorted)
    BY <1>5, <1>9, <1>10 DEF k, Smaller
  <2> QED
    BY <1>9, <1>10, <2>1, <2>2, PrefixFacts
<1>12. \A m \in places, l \in places : m < l =>
         PostgresOrder(query, st[sorted[m]], st[sorted[l]]) /\ sorted[m] # sorted[l]
  <2> SUFFICES ASSUME NEW m \in places, NEW l \in places, m < l
               PROVE  PostgresOrder(query, st[sorted[m]], st[sorted[l]]) /\ sorted[m] # sorted[l]
    OBVIOUS
  <2> DEFINE i == sorted[m]
             j == sorted[l]
  <2>1. i \in 1..n /\ j \in 1..n
    BY <1>4, <1>9
  <2>2. Comparable(query, st[i]) /\ Comparable(query, st[j])
    BY <1>3, <2>1
  <2>3. Before(i, j)
    <3> HIDE DEF Before
    <3> QED BY <1>8
  <2> HIDE DEF i, j
  <2>4. ~Closer(query, st[j], st[i])
    BY <2>2, <2>3, CloserFacts
  <2>5. i # j
    <3>1. ~Closer(query, st[i], st[i])
      BY <2>2, CloserFacts
    <3>2. ~(i < i)
      BY <1>1, <2>1
    <3> QED
      BY <2>3, <3>1, <3>2
  <2>6. Scored(query, st[i])
    BY <2>2 DEF Comparable
  <2> QED
    BY <2>4, <2>5, <2>6 DEF PostgresOrder, i, j
<1>13. \A i \in scored : \E m \in places : sorted[m] = i
  <2>1. \A m \in places, l \in places : m # l => sorted[m] # sorted[l]
    <3>1. \A m \in places, l \in places : m # l => m < l \/ l < m
      BY <1>5
    <3> HIDE DEF places, scored
    <3> QED BY <1>12, <3>1
  <2>2. sorted \in Injection(places, scored)
    <3>1. sorted \in [places -> scored]
      BY <1>8
    <3> HIDE DEF places, scored
    <3> QED BY <2>1, <3>1 DEF Injection, IsInjective
  <2>3. Cardinality(places) = Cardinality(scored)
    <3>1. Cardinality(1..Cardinality(scored)) = IF 1 > Cardinality(scored) THEN 0 ELSE Cardinality(scored) - 1 + 1
      <4>1. 1 \in Int /\ Cardinality(scored) \in Int
        BY <1>5
      <4> HIDE DEF scored, Before, rows
      <4> QED BY <4>1, FS_Interval
    <3> HIDE DEF scored
    <3> QED BY <1>5, <3>1
  <2>4. sorted \in Surjection(places, scored)
    <3> HIDE DEF places, scored
    <3> QED BY <1>5, <2>2, <2>3, FS_Injection
  <2> HIDE DEF places, scored
  <2> QED
    BY <2>4 DEF Surjection
<1> DEFINE left == rows \ ToSet(answer)
<1>14. IsInjective(answer)
  <2>1. \A m \in 1..k, l \in 1..k : m # l => answer[m] # answer[l]
    <3>1. \A m \in 1..k, l \in 1..k : m # l => m < l \/ l < m
      OBVIOUS
    <3> HIDE DEF places, scored, k
    <3> QED BY <1>10, <1>11, <1>12, <3>1
  <2> HIDE DEF places, scored, k
  <2> QED
    BY <1>11, <2>1 DEF IsInjective
<1>15. ToSet(answer) = {answer[m] : m \in 1..k} /\ ToSet(answer) \subseteq rows
  <2>1. \A m \in 1..k : answer[m] \in scored
    <3> HIDE DEF places, scored, k
    <3> QED BY <1>9, <1>10, <1>11
  <2>2. ToSet(answer) = {answer[m] : m \in 1..k}
    BY <1>11 DEF ToSet
  <2> HIDE DEF k, scored, rows
  <2> QED
    BY <1>2, <2>1, <2>2
<1>16. Len(answer) = Smaller(limit, Cardinality(rows))
  BY <1>2, <1>11
<1>17. ASSUME NEW j \in DOMAIN answer, NEW i \in {answer[m] : m \in j + 1..Len(answer)} \cup left
       PROVE  PostgresOrder(query, st[answer[j]], st[i])
  <2>1. j \in 1..k /\ j \in places /\ answer[j] = sorted[j]
    <3> HIDE DEF places, scored, k
    <3> QED BY <1>10, <1>11
  <2>2. \E l \in places : j < l /\ sorted[l] = i
    <3>1. CASE i \in {answer[m] : m \in j + 1..Len(answer)}
      <4> HIDE DEF places, scored, k
      <4>1. PICK m \in j + 1..k : i = answer[m]
        BY <1>11, <3>1
      <4>2. m \in 1..k /\ j < m
        BY <1>10, <2>1
      <4> QED
        BY <1>10, <1>11, <4>1, <4>2
    <3>2. CASE i \in left
      <4>1. i \in scored /\ i \notin ToSet(answer)
        BY <1>2, <3>2
      <4> HIDE DEF scored
      <4>2. PICK l \in places : sorted[l] = i
        BY <1>13, <4>1
      <4>3. l \notin 1..k
        <5> HIDE DEF places, k
        <5> QED BY <1>11, <1>15, <4>1, <4>2
      <4>4. j < l
        <5>1. l \in Nat /\ l >= 1
          BY <1>5
        <5> HIDE DEF places, k
        <5> QED BY <1>10, <2>1, <4>3, <5>1
      <4> QED
        BY <4>2, <4>4
    <3> QED
      BY <3>1, <3>2
  <2> HIDE DEF places
  <2> QED
    BY <1>12, <2>1, <2>2
<1>18. \A j \in DOMAIN answer : \A i \in {answer[m] : m \in j + 1..Len(answer)} \cup left :
         PostgresOrder(query, st[answer[j]], st[i])
  <2> HIDE DEF left
  <2> QED BY <1>17
<1> HIDE DEF scored, k, Before
<1>19. PostgresMayReturn(answer, st, query, limit, filters)
  BY <1>14, <1>15, <1>16, <1>18, Zenon DEF PostgresMayReturn
<1> QED
  BY <1>19 DEF answer

(* The store holds chunks that may be indexed.                             *)
StoreInv == store \in Seq(Chunks)

(* Only Upsert adds to the store.                                          *)
LEMMA StoreInvNext == StoreInv /\ [Next]_vars => StoreInv'
<1> SUFFICES ASSUME StoreInv, [Next]_vars PROVE StoreInv'
  OBVIOUS
<1>1. ASSUME NEW paragraph \in Paragraphs, Read(paragraph) PROVE StoreInv'
  BY <1>1 DEF Read, StoreInv
<1>2. ASSUME NEW chunk \in Chunks, Upsert(chunk) PROVE StoreInv'
  BY <1>2, AppendProperties DEF Upsert, StoreInv
<1>3. CASE UNCHANGED vars
  BY <1>3 DEF vars, StoreInv
<1> QED
  BY <1>1, <1>2, <1>3 DEF Next

(* Whatever ready, comparable chunks are indexed, and whatever is searched *)
(* for: what the in-memory store returns is an answer that                 *)
(* PostgresVectorStore may return (rag/store.py).                          *)
THEOREM StoresAnswerAlike == Spec => []SearchesAgree
<1>1. Init => StoreInv
  BY DEF Init, StoreInv
<1>2. StoreInv /\ [Next]_vars => StoreInv'
  BY StoreInvNext
<1>3. StoreInv => SearchesAgree
  BY SearchFacts, SearchesAssumption DEF StoreInv, SearchesAgree
<1> QED
  BY <1>1, <1>2, <1>3, PTL DEF Spec
=============================================================================
