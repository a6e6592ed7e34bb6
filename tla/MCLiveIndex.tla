---------------------------- MODULE MCLiveIndex -----------------------------
(***************************************************************************)
(* Small instances of LiveIndex: names are numbers, paths lists of them.   *)
(***************************************************************************)
EXTENDS LiveIndex

\* Two directories and a file in each: a directory that holds a file can be
\* renamed to the other.
FlatPath == {<<1>>, <<1, 1>>, <<2>>, <<2, 1>>}
FlatDir  == {<<1>>, <<2>>}

\* A directory in a directory, beside one that a file fits into.
BothPath == {<<1>>, <<1, 1>>, <<1, 1, 1>>, <<2>>, <<2, 1>>}
BothDir  == {<<1>>, <<1, 1>>, <<2>>}

\* A directory with a file, beside another name.
SmallPath == {<<1>>, <<1, 1>>, <<2>>}
SmallDir  == {<<1>>}

CaseSensitive == [p \in Path |-> p]
\* Names 1 and 2 differ in case only.
SameButCase == [p \in Path |-> [i \in DOMAIN p |-> 1]]
=============================================================================
