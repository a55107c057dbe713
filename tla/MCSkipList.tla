----------------------------- MODULE MCSkipList -----------------------------
(* SkipList on small instances; the constants are in the .cfg file. *)
EXTENDS SkipList

=============================================================================
