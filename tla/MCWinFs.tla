------------------------------ MODULE MCWinFs -------------------------------
(* Small instances of WinFs for TLC. *)
EXTENDS WinFs, TLC

RootOnly == {<<>>}
FlatFiles == {<<n>> : n \in Names}
AtFirst == {<<"f">>, <<"g">>}
NoVals == {}
OnDemand == {"OnDemand"}
Writable == {FALSE}
FoldCase == [n \in Names |-> IF n = "F" THEN "f" ELSE n]

\* Dispatcher threads are alike.
SameThreads == Permutations(Threads)
=============================================================================
