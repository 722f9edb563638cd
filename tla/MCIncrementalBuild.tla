------------------------- MODULE MCIncrementalBuild -------------------------
(* The project of test_dependency_graph in small: a preamble, a chapter     *)
(* that needs it, and a main document that needs both.                      *)
EXTENDS IncrementalBuild

CONSTANTS preamble, chapter, main, bad

MCNodes == {preamble, chapter, main}
MCEdges == {<<chapter, preamble>>, <<main, chapter>>, <<main, preamble>>}
MCFormats == {preamble}
MCFaulty == {bad}
=============================================================================
