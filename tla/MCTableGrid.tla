---------------------------- MODULE MCTableGrid ----------------------------
(***************************************************************************)
(* The instance TLC checks of TableGrid: three rows, a store of two, one   *)
(* text that keeps the middle row.                                         *)
(***************************************************************************)
EXTENDS TableGrid, TLC

MCTexts == {Keys, {2}}

\* Ascending as stored and when asked, or descending.
MCSorted == [S \in SUBSET Keys |-> [o \in Order |->
    SetToSortSeq(S, LAMBDA a, b : IF o = "desc" THEN a > b ELSE a < b)]]

\* Tabs and tables are alike, and no property is one of liveness.
Alike == Permutations(Tabs) \cup Permutations(Tables)
=============================================================================
