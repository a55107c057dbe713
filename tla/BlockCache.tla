----------------------------- MODULE BlockCache -----------------------------
(***************************************************************************)
(* One shard of the block cache: an LRU list bounded by the bytes it       *)
(* holds.  Every operator is the body of a method under the shard's mutex. *)
(* Source: src/src/cache.cpp, src/include/lsm/cache.h.                     *)
(*                                                                         *)
(* A shard is [order, index, charge]: the entries, most recently used      *)
(* first, the keys of the map, and the running sum of the charges.  An     *)
(* entry is [id, data, charge]: id is <<file number, offset>>.             *)
(***************************************************************************)
EXTENDS Integers, Sequences, FiniteSets
LOCAL INSTANCE SequencesExt

EmptyShard == [order |-> <<>>, index |-> {}, charge |-> 0]

EntryOf(shard, id) ==
    CHOOSE e \in ToSet(shard.order) : e.id = id

\* order.splice to the front.
MoveToFront(shard, id) ==
    [shard EXCEPT !.order = <<EntryOf(shard, id)>>
                              \o SelectSeq(@, LAMBDA e : e.id # id)]

Hit(shard, id) == id \in shard.index

DropVictim(shard) ==
    LET victim == Last(shard.order)
    IN  [order |-> Front(shard.order), index |-> shard.index \ {victim.id},
         charge |-> shard.charge - victim.charge]

\* The eviction loop never takes the entry that was just pushed to the front.
RECURSIVE Evict(_, _)
Evict(shard, capacity) ==
    IF shard.charge > capacity /\ Len(shard.order) > 1
    THEN Evict(DropVictim(shard), capacity)
    ELSE shard

\* Mutant: a block that another reader has put there is put there again.
InsertTwice(shard, e, capacity) ==
    Evict([order |-> <<e>> \o shard.order, index |-> shard.index \cup {e.id},
           charge |-> shard.charge + e.charge], capacity)

\* Insert: of two readers that missed at once the second keeps the first's.
Insert(shard, e, capacity) ==
    IF e.id \in shard.index THEN MoveToFront(shard, e.id)
    ELSE Evict([order |-> <<e>> \o shard.order,
                index |-> shard.index \cup {e.id},
                charge |-> shard.charge + e.charge], capacity)

RECURSIVE SumOfCharges(_)
SumOfCharges(entries) ==
    IF entries = <<>> THEN 0
    ELSE Head(entries).charge + SumOfCharges(Tail(entries))

EraseFile(shard, number) ==
    LET kept == SelectSeq(shard.order, LAMBDA e : e.id[1] # number)
        gone == SelectSeq(shard.order, LAMBDA e : e.id[1] = number)
    IN  [order |-> kept, index |-> shard.index \ {e.id : e \in ToSet(gone)},
         charge |-> shard.charge - SumOfCharges(gone)]

-----------------------------------------------------------------------------
\* What holds of a shard between two calls: the map has exactly the entries
\* of the list, each once, the charge is their sum, and it is within the
\* capacity unless a single block is larger.
ShardConsistent(shard, capacity) ==
    /\ shard.index = {e.id : e \in ToSet(shard.order)}
    /\ Cardinality(shard.index) = Len(shard.order)
    /\ shard.charge = SumOfCharges(shard.order)
    /\ shard.charge <= capacity \/ Len(shard.order) = 1

=============================================================================
