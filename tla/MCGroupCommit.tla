---------------------------- MODULE MCGroupCommit ----------------------------
(* Three writers with batches of different sizes, so that the order in which *)
(* they queue decides who fits into whose group.                             *)
EXTENDS GroupCommit, TLC

CONSTANTS t1, t2, t3

MCBatchSize == t1 :> 1 @@ t2 :> 2 @@ t3 :> 3
MCOneWriter == t1 :> 1

=============================================================================
