----------------------------- MODULE Documents -----------------------------
(***************************************************************************)
(* The inputs that the pure parts of retrieval are run on: a text, read    *)
(* paragraph by paragraph, and a store, filled chunk by chunk.  Every      *)
(* state is an input; what chunk_text makes of the text and what the two   *)
(* stores answer is computed in the properties.  Text and store do not     *)
(* meet: either the one or the other grows.                                *)
(***************************************************************************)
EXTENDS Chunking, Retrieval

CONSTANTS
  Settings,    \* pairs of rag_chunk_max_chars and rag_chunk_overlap
  Paragraphs,  \* stripped paragraphs, of which a text has at most MaxParagraphs
  MaxParagraphs,
  Chunks,      \* what may be indexed, at most MaxChunks of them
  MaxChunks,
  Searches     \* queries with their limit and filters

(* Settings refuses an overlap that is not smaller than the chunks.        *)
ASSUME SettingsAssumption ==
  /\ Settings \subseteq [max : Nat, overlap : Nat]
  /\ \A s \in Settings : s.overlap < s.max

(* A paragraph was stripped, and is none if nothing is left of it.         *)
ASSUME ParagraphsAssumption ==
  \A s \in Paragraphs : s \in Seq(Nat) /\ s # <<>> /\ s[1] \notin White /\ s[Len(s)] \notin White

(* Vectors are numbers, and limits count.                                  *)
ASSUME ChunksAssumption == \A c \in Chunks : c.embedding \in Seq(Int)
ASSUME SearchesAssumption == \A s \in Searches : s.query \in Seq(Int) /\ s.limit \in Nat

VARIABLES text, settings, store
vars == <<text, settings, store>>

Init == text = <<>> /\ settings \in Settings /\ store = <<>>

(* The characters of a paragraph stand for themselves: those of different  *)
(* paragraphs differ.                                                      *)
Lettered(paragraph) ==
  [i \in DOMAIN paragraph |-> IF paragraph[i] \in White THEN paragraph[i]
                              ELSE 100 * (Len(text) + 1) + i]

(* One paragraph more of the text.                                         *)
Read(paragraph) ==
  /\ store = <<>> /\ Len(text) < MaxParagraphs
  /\ text' = Append(text, Lettered(paragraph))
  /\ UNCHANGED <<settings, store>>

(* upsert: one chunk more in the store.                                    *)
Upsert(chunk) ==
  /\ text = <<>> /\ Len(store) < MaxChunks
  /\ store' = Append(store, chunk)
  /\ UNCHANGED <<text, settings>>

Next == \/ \E paragraph \in Paragraphs : Read(paragraph)
        \/ \E chunk \in Chunks : Upsert(chunk)

Spec == Init /\ [][Next]_vars

-----------------------------------------------------------------------------
(* Properties                                                              *)

(* However a text is chunked, chunks keep to their size and no stretch of  *)
(* a paragraph that fits into the overlap is torn (for an overlap of at    *)
(* most half the chunk size, which the defaults keep well below).          *)
ChunksAreWhole ==
  2 * settings.overlap <= settings.max => KeepsStretches(text, settings.max, settings.overlap)

(* Over ready chunks whose vectors can be compared with the query, what    *)
(* the fixture of the tests answers is what production may answer, so that *)
(* tests of ranking, filters and limits say something about production.    *)
SearchesAgree == \A s \in Searches : StoresAgree(store, s.query, s.limit, s.filters)
=============================================================================
