---------------------------- MODULE MCDabcPages ----------------------------
(* A network of two nodes: one joins before the other, or leaves.          *)
EXTENDS DabcPages

MCNodes == {"n1", "n2"}
MCServerLists == {<<"n1">>, <<"n2", "n1">>}
=============================================================================
