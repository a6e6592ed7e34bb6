--------------------------- MODULE MCContentIndex ---------------------------
(***************************************************************************)
(* Small instances of ContentIndex: two or three file names, a handful of  *)
(* operations, text of one to three bytes.                                 *)
(***************************************************************************)
EXTENDS ContentIndex, TLC

\* Version v has v bytes of text, so a rewrite grows a file.
GrowingText == [v \in Version |-> v]
\* Every version has one byte of text: no rewrite grows a file.
EqualText == [v \in Version |-> 1]

PathSymmetry == Permutations(Path)
=============================================================================
