----------------------------- MODULE MCPanePool ------------------------------
(***************************************************************************)
(* Small instances of PanePool for TLC.                                    *)
(***************************************************************************)
EXTENDS PanePool, TLC

CONSTANTS s1, s2, s3

TermSymmetry == Permutations(Terms)
=============================================================================
