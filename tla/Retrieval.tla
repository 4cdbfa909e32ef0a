----------------------------- MODULE Retrieval -----------------------------
(***************************************************************************)
(* What a search of the vector stores returns (rag/store.py): the SQL that *)
(* PostgreSQL runs, which orders chunks of equal score as it likes, and    *)
(* the loop of the in-memory store that stands in for it in the tests.     *)
(*                                                                         *)
(* Components of vectors are integers.  A cosine is compared without its   *)
(* square roots: for one query, the scores dot / |c| of two chunks stand   *)
(* to each other as the numbers dot * |dot| / |c|^2.                       *)
(***************************************************************************)
EXTENDS Integers, Sequences, SequencesExt, FiniteSetsExt, Functions

Chunk(tenants, bases, models, vectors) ==
  [tenant : tenants, base : bases, model : models, embedding : vectors, ready : BOOLEAN]

Smaller(a, b) == IF a < b THEN a ELSE b
SumOf(f) == FoldFunction(+, 0, f)

(* Over the components that both have: unnest pads the shorter with NULL,  *)
(* and sum() leaves NULL out.                                              *)
Dot(a, b) == SumOf([i \in 1..Smaller(Len(a), Len(b)) |-> a[i] * b[i]])
NormSquared(a) == SumOf([i \in DOMAIN a |-> a[i] * a[i]])
Signed(n) == n * (IF n < 0 THEN -n ELSE n)

(* The score of one chunk is higher than that of another.                  *)
Closer(query, c, d) ==
  Signed(Dot(query, c.embedding)) * NormSquared(d.embedding) >
  Signed(Dot(query, d.embedding)) * NormSquared(c.embedding)

(* The filters, of which no base means every base.                         *)
Matches(c, filters) ==
  /\ c.tenant = filters.tenant /\ c.model = filters.model
  /\ filters.base # c.base => filters.base = "any"

(* There is something to multiply: sum() over no pair, or over pairs with  *)
(* a NULL in each, is NULL.  A missing embedding counts as an empty one.   *)
HasDot(query, c) == Len(query) # 0 /\ Len(c.embedding) # 0

Scored(query, c) ==
  HasDot(query, c) /\ NormSquared(query) # 0 /\ NormSquared(c.embedding) # 0

-----------------------------------------------------------------------------
(* Fault: the best chunks come last.                                       *)
PostgresOrderAscending(query, c, d) == Scored(query, d) => Scored(query, c) /\ ~Closer(query, c, d)

(* ORDER BY score DESC NULLS LAST: what may precede what.                  *)
PostgresOrder(query, c, d) == Scored(query, d) => Scored(query, c) /\ ~Closer(query, d, c)

(* Whether the positions of a store, in this order, are an answer of       *)
(* PostgresVectorStore.search.                                             *)
PostgresMayReturn(answer, store, query, limit, filters) ==
  LET rows == {i \in DOMAIN store :
                 /\ Matches(store[i], filters) /\ store[i].ready
                 /\ HasDot(query, store[i])}
      left == rows \ ToSet(answer)
  IN /\ IsInjective(answer) /\ ToSet(answer) \subseteq rows
     /\ Len(answer) = Smaller(limit, Cardinality(rows))
     /\ \A j \in DOMAIN answer :
          \A k \in {answer[m] : m \in j + 1..Len(answer)} \cup left :
            PostgresOrder(query, store[answer[j]], store[k])

(* InMemoryVectorStore.search: a stable sort, best first.                  *)
InMemoryReturns(store, query, limit, filters) ==
  LET scored == {i \in DOMAIN store :
                   /\ Matches(store[i], filters)
                   /\ Len(store[i].embedding) = Len(query) /\ Scored(query, store[i])}
      Before(i, j) == \/ Closer(query, store[i], store[j])
                      \/ ~Closer(query, store[j], store[i]) /\ i < j
      places == 1..Cardinality(scored)
      sorted == CHOOSE s \in [places -> scored] : \A m, l \in places : m < l => Before(s[m], s[l])
  IN SubSeq(sorted, 1, Smaller(limit, Len(sorted)))

-----------------------------------------------------------------------------
(* Properties                                                              *)

(* What the tests see with the in-memory store is what PostgreSQL may      *)
(* answer, for stores whose chunks are all ready and whose vectors can be  *)
(* compared: no zero vector, and of a tenant and model all of one length.  *)
(* For others the stores differ: the SQL keeps a chunk it cannot compare,  *)
(* at the end or by the components both have.                              *)
StoresAgree(store, query, limit, filters) ==
  (\A i \in DOMAIN store :
     /\ store[i].ready /\ Scored(query, store[i])
     /\ Matches(store[i], filters) => Len(store[i].embedding) = Len(query)) =>
    PostgresMayReturn(InMemoryReturns(store, query, limit, filters), store, query, limit, filters)
=============================================================================
