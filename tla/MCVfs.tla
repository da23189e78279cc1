------------------------------- MODULE MCVfs --------------------------------
(* Small instances of CacheVfs for TLC. *)
EXTENDS CacheVfs

Root == {<<>>}
OneFile == {<<"f">>}
TwoFiles == {<<"f">>, <<"g">>}

\* Two names, each a file or a directory with at most one file in it.
RootAndTwo == {<<>>, <<"d">>, <<"e">>}
InTwo == {<<"d", "f">>, <<"e", "f">>}
RootAndOne == {<<>>, <<"d">>}
InOne == {<<"d", "f">>}

\* The directories d and e, and files d/f and e: a file can move out of d, and d
\* can take the name e.
InOneAndBeside == {<<"d", "f">>, <<"e">>}

\* The directories d and x, each with a directory e with a file f in it.
TwoDeep == {<<>>, <<"d">>, <<"x">>, <<"d", "e">>, <<"x", "e">>}
InTwoDeep == {<<"d", "e", "f">>, <<"x", "e", "f">>}
=============================================================================
