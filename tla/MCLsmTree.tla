----------------------------- MODULE MCLsmTree -----------------------------
(* LsmTree on small instances; the constants are in lsm_*.cfg. *)
EXTENDS LsmTree, TLC

\* The names of snapshots are interchangeable.
Symmetry == Permutations(Snaps)

=============================================================================
