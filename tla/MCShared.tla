------------------------------ MODULE MCShared ------------------------------
(* Small instances of SharedVfs for TLC. *)
EXTENDS SharedVfs

Root == {<<>>}
OneFile == {<<"f">>}
=============================================================================
