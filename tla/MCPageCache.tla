---------------------------- MODULE MCPageCache ----------------------------
(* Small instances of PageCache for TLC. *)
EXTENDS PageCache, TLC

CONSTANT Large  \* the one URL whose page leaves no room for another

\* Any two of the others fit the byte budgets of the runs.
Sizes == [u \in Urls |-> IF u = Large THEN 3 ELSE 1]

\* Readers are interchangeable, and URLs that nothing tells apart.
Alike == Urls \ (Changing \cup {Large, NoUrl})
Symmetry == Permutations(Readers) \cup Permutations(Alike)
=============================================================================
