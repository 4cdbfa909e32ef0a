---------------------------- MODULE MCDocuments ----------------------------
(* Documents for TLC: texts of one or two paragraphs of up to six          *)
(* characters, of which at most one is a line end (and none of the six of  *)
(* a paragraph that long), in chunks of three to five, and stores of up to *)
(* three chunks of two tenants, two bases and two models.                  *)
EXTENDS Documents
small_Settings == {s \in [max : 3..5, overlap : 0..2] : 2 * s.overlap <= s.max}
small_Paragraphs ==
  {s \in UNION {[1..k -> {Space, LineEnd, 2}] : k \in 1..6} :
     /\ s[1] = 2 /\ s[Len(s)] = 2
     /\ Cardinality({i \in DOMAIN s : s[i] = LineEnd}) <= IF Len(s) = 6 THEN 0 ELSE 1}
small_Chunks ==
  {c \in Chunk({1, 2}, {"here", "there"}, {1, 2}, {<<1, 0>>, <<2, 1>>, <<-1, 1>>, <<1>>}) :
     c.ready /\ (c.tenant = 2 => c.base = "there" /\ c.model = 1)}
small_Searches ==
  [query : {<<1, 2>>, <<-1, 0>>}, limit : {1, 2},
   filters : [tenant : {1}, base : {"here", "any"}, model : {1}]]
=============================================================================
