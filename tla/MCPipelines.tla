---------------------------- MODULE MCPipelines ----------------------------
(***************************************************************************)
(* Two pipelines that fill one table.                                      *)
(***************************************************************************)
EXTENDS Pipelines, TLC

CONSTANTS p1, p2, shared

Pipelines2 == {p1, p2}
OneTable == {shared}
SameTable == [p \in Pipelines2 |-> shared]
Symmetry == Permutations(Pipelines2)
=============================================================================
