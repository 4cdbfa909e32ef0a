------------------------------ MODULE Chunking ------------------------------
(***************************************************************************)
(* How a document's text becomes the chunks that are indexed               *)
(* (ingestion/chunking.py).                                                *)
(*                                                                         *)
(* A character is a number: 0 for a space, 1 for a line end and any other  *)
(* white space, and a number of its own for every other character of the   *)
(* text, so that one can tell in a chunk where its characters come from.   *)
(* A text is the sequence of its paragraphs, each stripped and none empty: *)
(* that is what the paragraph pattern and strip() of chunk_text leave.     *)
(* Two line ends glue chunks together.                                     *)
(***************************************************************************)
EXTENDS Naturals, Sequences, SequencesExt, FiniteSetsExt

Space == 0
LineEnd == 1
White == {Space, LineEnd}
Break == <<LineEnd, LineEnd>>

(* str.strip().                                                            *)
Strip(s) ==
  LET ink == {i \in DOMAIN s : s[i] \notin White}
  IN IF ink = {} THEN <<>> ELSE SubSeq(s, Min(ink), Max(ink))

(* Where a window that does not reach the end of the paragraph is cut: at  *)
(* its last space, if that is in its second half.                          *)
Cut(window, max) ==
  LET late == {i \in DOMAIN window : window[i] = Space /\ i - 1 > max \div 2}
  IN IF late = {} THEN Len(window) ELSE Max(late)

(* Fault: a window starts where the one before it ended.                   *)
NextPositionWithoutOverlap(position, end, overlap) == end

(* The start of the next window, always further on.                        *)
NextPosition(position, end, overlap) ==
  IF end > overlap /\ end - overlap > position + 1 THEN end - overlap ELSE position + 1

(* Where the window that starts at a position ends.  Positions count the   *)
(* characters before them.                                                 *)
WindowEnd(paragraph, position, max) ==
  IF position + max >= Len(paragraph) THEN Len(paragraph)
  ELSE position + Cut(SubSeq(paragraph, position + 1, position + max), max)

(* What a window leaves, if there is ink in it.                            *)
Piece(paragraph, position, end) ==
  LET stripped == Strip(SubSeq(paragraph, position + 1, end))
  IN IF stripped = <<>> THEN <<>> ELSE <<stripped>>

(* _wrap_long_paragraph: the pieces from a position on.                    *)
Wrap(paragraph, max, overlap) ==
  LET Pieces[position \in 0..Len(paragraph)] ==
        IF position = Len(paragraph) THEN <<>>
        ELSE LET end == WindowEnd(paragraph, position, max)
             IN Piece(paragraph, position, end) \o
                (IF end = Len(paragraph) THEN <<>>
                 ELSE Pieces[NextPosition(position, end, overlap)])
  IN Pieces[0]

Segments(paragraph, max, overlap) ==
  IF Len(paragraph) <= max THEN <<paragraph>> ELSE Wrap(paragraph, max, overlap)

(* One segment more: it joins the current chunk, or closes it and starts   *)
(* the next one with the tail of it, if there is room.                     *)
Pack(state, segment, max, overlap) ==
  LET current == state.current
      candidate == IF current = <<>> THEN segment ELSE Strip(current \o Break \o segment)
      tail == SubSeq(current, IF Len(current) > overlap THEN Len(current) - overlap + 1 ELSE 1,
                     Len(current))
  IN IF current # <<>> /\ Len(candidate) > max
     THEN [chunks |-> Append(state.chunks, current),
           current |-> IF Len(tail) + Len(segment) <= max THEN tail \o segment ELSE segment]
     ELSE [state EXCEPT !.current = candidate]

(* chunk_text, without the limit on the number of chunks.                  *)
ChunkText(text, max, overlap) ==
  LET segments == FlattenSeq([p \in DOMAIN text |-> Segments(text[p], max, overlap)])
      packed == FoldLeft(LAMBDA state, segment : Pack(state, segment, max, overlap),
                         [chunks |-> <<>>, current |-> <<>>], segments)
  IN IF packed.current = <<>> THEN packed.chunks ELSE Append(packed.chunks, packed.current)

-----------------------------------------------------------------------------
(* Properties                                                              *)

(* Chunks never exceed the size that the embedding model is given, though  *)
(* segments are glued to tails of chunks; and no stretch of a paragraph    *)
(* that is at most one longer than the overlap is torn apart: it is in one *)
(* chunk, as the module's docstring promises of what is split across       *)
(* boundaries.                                                             *)
KeepsStretches(text, max, overlap) ==
  LET chunks == ChunkText(text, max, overlap) IN
  /\ \A c \in DOMAIN chunks : Len(chunks[c]) \in 1..max
  /\ \A p \in DOMAIN text : \A i \in DOMAIN text[p] : \A j \in i..Len(text[p]) :
       j - i <= overlap /\ text[p][i] \notin White /\ text[p][j] \notin White =>
         \E c \in DOMAIN chunks : \E at \in 0..(Len(chunks[c]) - (j - i) - 1) :
           SubSeq(chunks[c], at + 1, at + 1 + j - i) = SubSeq(text[p], i, j)
=============================================================================
