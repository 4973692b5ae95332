----------------------------- MODULE MCWorkspace -----------------------------
(***************************************************************************)
(* The instance TLC checks of Workspace.                                   *)
(***************************************************************************)
EXTENDS Workspace, TLC

\* Nothing tells one report from another, and no property is one of liveness.
ReportSymmetry == Permutations(Report)
=============================================================================
