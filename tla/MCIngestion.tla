---------------------------- MODULE MCIngestion ----------------------------
(* Ingestion for TLC: one knowledge base, two workers, and contents of     *)
(* which one is text and the other a type that is accepted but not parsed. *)
EXTENDS Ingestion
CONSTANTS b1, d1, d2, text, scan, w1, w2
one_Base == {b1}
two_Documents == {d1, d2}
two_Contents == {text, scan}
one_Parseable == {text}
two_Workers == {w1, w2}
=============================================================================
