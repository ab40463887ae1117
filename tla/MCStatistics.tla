---------------------------- MODULE MCStatistics ----------------------------
(***************************************************************************)
(* An instance of Statistics: each member records when it is finished.     *)
(***************************************************************************)
EXTENDS Statistics

CONSTANTS f, a

EachRecords == [m \in Members |-> IF m = f THEN 1 ELSE 2]
=============================================================================
