----------------------------- MODULE MCReadPath -----------------------------
(***************************************************************************)
(* ReadPath on a few layouts of the tree.                                  *)
(***************************************************************************)
EXTENDS ReadPath

Put(k, s) == [key |-> k, seq |-> s, del |-> FALSE]
Del(k, s) == [key |-> k, seq |-> s, del |-> TRUE]
File(n, b) == [num |-> n, blocks |-> b]

\* A tombstone and an overwrite in level 0 above two files of level 1.
Shadowed ==
    [mems |-> <<<<>>>>,
     l0 |-> <<File(1, <<<<Put(1, 4)>>, <<Del(2, 5)>>>>)>>,
     l1 |-> <<File(2, <<<<Put(1, 1)>>>>), File(3, <<<<Put(2, 2)>>>>)>>]

\* A memtable to be flushed, with a version that no reader needs and one that
\* the snapshot needs, above a file with the versions of one key on both sides
\* of a block boundary.
Flushing ==
    [mems |-> <<<<Put(1, 7)>>, <<Del(2, 6), Put(2, 3), Put(2, 2)>>>>,
     l0 |-> <<>>,
     l1 |-> <<File(1, <<<<Put(1, 5)>>, <<Put(1, 4), Put(2, 1)>>>>)>>]

\* Every kind of child at once, the smallest key behind an inner slot of the
\* heap.
Wide ==
    [mems |-> <<<<Put(2, 7)>>>>,
     l0 |-> <<File(1, <<<<Del(2, 5)>>>>), File(2, <<<<Put(2, 3)>>>>)>>,
     l1 |-> <<File(3, <<<<Put(1, 1)>>>>)>>]

MCLayouts == {Shadowed, Flushing, Wide}
MCReadAt == {4, 7}
OneShard(id) == 1

=============================================================================
