----------------------------- MODULE MCFilesystem -----------------------------
(* Names for model checking: the test file, a directory to fill, one more. *)
EXTENDS Filesystem

MCTest  == <<"test">>
MCPaths == {<<>>, <<"test">>, <<"d">>, <<"d", "x">>, <<"x">>}
===============================================================================
