---------------------------- MODULE MCJournalFeed ----------------------------
(* Two directory names; the tree changes more often when no client is there, *)
(* and the indexer does not end during a search, which would fail then.      *)
EXTENDS JournalFeed

Ops == [c \in Client |-> IF c = "none" THEN 3 ELSE 2]
Mishaps == [c \in Client |-> IF c = "pager" THEN 0 ELSE 1]
=============================================================================
