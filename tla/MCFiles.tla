------------------------------- MODULE MCFiles -------------------------------
(* Model-checking instance of Files: a tree of three nodes, of which /dev  *)
(* has one, so that the index allocator has to start over.                   *)
EXTENDS Files

DevTty == <<"dev", "tty">>

FewPaths == {<<"a">>, <<"dev">>, <<"a", "b">>}
=============================================================================
