------------------------------ MODULE MCStore -------------------------------
(* Small instances of Store for TLC. *)
EXTENDS StoreRefinement, TLC

OneFile == {<<"f">>}
TwoFiles == {<<"f">>, <<"g">>}

\* A directory d with a file d/f, and a file g beside it.
TreeDirs == {<<"d">>}
TreeFiles == {<<"d", "f">>, <<"g">>}

Symmetry == Permutations(Threads)
=============================================================================
