--------------------------- MODULE MCDirSizeCache ---------------------------
(***************************************************************************)
(* A directory top with file a and directory sub, which has files b and c; *)
(* an instance may leave out any of them.                                  *)
(***************************************************************************)
EXTENDS DirSizeCache, TLC

CONSTANTS a, b, c, top, sub

Tree  == [n \in File \cup Dir |->
            IF n = top THEN NoDir
            ELSE IF n = a \/ (n = sub /\ top \in Dir) THEN top
            ELSE IF n = sub THEN NoDir ELSE sub]
Files == [d \in Dir |-> IF d = top THEN File ELSE File \ {a}]

\* Jobs and calls are interchangeable.
Symmetry == Permutations(Job) \cup Permutations(Caller)
=============================================================================
