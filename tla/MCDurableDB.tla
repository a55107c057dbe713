---------------------------- MODULE MCDurableDB ----------------------------
(* Instances of DurableDB for TLC.  The constants are in the .cfg files. *)
EXTENDS DurableDB
=============================================================================
