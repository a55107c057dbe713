------------------------------- MODULE Cursors -------------------------------
(***************************************************************************)
(* The reading side of lsm::DB above a block: cursors over one table, over *)
(* one level, over the merge of all sources, and the DBIter that a user    *)
(* sees; the point lookup; and the loop of a compaction.                   *)
(* Source: src/src/sstable.cpp (Table, TableIterator),                     *)
(* src/src/iterator.cpp, src/src/db.cpp.                                   *)
(*                                                                         *)
(* Every operator is a function of "got", the blocks that the call has     *)
(* read so far: block -> [ok, data].  A cursor that comes to a block which *)
(* is not in got stops with that block as its "need"; the call goes on     *)
(* from its start once the block is there.  A read that failed is in got   *)
(* with ok = FALSE.                                                        *)
(*                                                                         *)
(* A table is [num, blocks], a block a nonempty sequence of entries; the   *)
(* searches inside a block and in the index are those of Table.            *)
(***************************************************************************)
EXTENDS Integers, Sequences, FiniteSets
LOCAL INSTANCE SequencesExt

CONSTANTS
    NumKeys,            \* user keys are 1..NumKeys, in order
    FalsePositives      \* keys that every Bloom filter lets pass

Keys == 1..NumKeys
None == <<>>

\* CompareInternalKey(a, b) < 0.
Before(a, b) == a.key < b.key \/ (a.key = b.key /\ a.seq > b.seq)
LookupKey(k, s) == [key |-> k, seq |-> s]

\* The first entry of an ascending sequence that is not before the target.
LowerBound(entries, target) ==
    LET rest == {i \in DOMAIN entries : ~Before(entries[i], target)}
    IN  IF rest = {} THEN Len(entries) + 1
        ELSE CHOOSE i \in rest : \A j \in rest : i <= j

-----------------------------------------------------------------------------
(* A child of the merge: the cursor of a memtable, a table or a level *)

NoTable == [num |-> 0, blocks |-> <<>>]

\* "tables" are the tables it runs over, "at" the one it is in; it holds the
\* bytes of its block.  status is that of the table's cursor, level_status
\* what LevelIterator keeps.
Child(kind, tables, data) ==
    [kind |-> kind, tables |-> tables, at |-> 1, block |-> 0, data |-> data,
     pos |-> 0, valid |-> FALSE, status |-> "ok", level_status |-> "ok",
     need |-> None]

MemTableCursor(entries) == Child("mem", <<>>, entries)
TableCursor(table) == Child("table", <<table>>, <<>>)
LevelCursor(tables) == Child("level", tables, <<>>)

Key(c) == c.data[c.pos]

\* status() of a child; a level that has run out of files has no table cursor.
Status(c) ==
    IF c.level_status # "ok" THEN c.level_status
    ELSE IF c.at > Len(c.tables) THEN "ok" ELSE c.status

CurrentTable(c) ==
    IF c.at <= Len(c.tables) THEN c.tables[c.at] ELSE NoTable

\* Stand at a place of the block that is held, if there is an entry.
Positioned(c, data, pos) ==
    [c EXCEPT !.data = data, !.pos = pos, !.valid = pos <= Len(data)]

\* Mutant: a block that cannot be read is passed over.
FailedBlockSkipped(c) == [c EXCEPT !.valid = FALSE]

FailedBlock(c) == [c EXCEPT !.valid = FALSE, !.status = "error"]

\* TableIterator::LoadBlock from the i-th block on; the target is used in the
\* first block only.
RECURSIVE LoadBlock(_, _, _, _)
LoadBlock(c, got, i, target) ==
    LET table == CurrentTable(c)
        id == <<table.num, i>>
        loaded == [c EXCEPT !.block = i, !.status = "ok"]
        there == Positioned(loaded, got[id].data,
                            IF target = None THEN 1
                            ELSE LowerBound(got[id].data, target[1]))
    IN  IF i > Len(table.blocks)
        THEN [c EXCEPT !.block = i, !.valid = FALSE]
        ELSE IF id \notin DOMAIN got THEN [c EXCEPT !.need = id]
        ELSE IF ~got[id].ok THEN FailedBlock([c EXCEPT !.block = i])
        ELSE IF there.valid THEN there
        ELSE LoadBlock(there, got, i + 1, None)

LastKeys(table) ==
    [i \in DOMAIN table.blocks |-> Last(table.blocks[i])]
Largest(table) == Last(Last(table.blocks))

\* A new TableIterator on the i-th table of the level, or none.
OpenFile(c, i) ==
    [c EXCEPT !.at = i, !.block = 0, !.pos = 0, !.data = <<>>,
              !.valid = FALSE, !.status = "ok"]

\* LevelIterator::SkipEmptyFilesForward.
RECURSIVE SkipEmptyFilesForward(_, _)
SkipEmptyFilesForward(c, got) ==
    IF c.need # None \/ c.at > Len(c.tables) \/ c.valid THEN c
    ELSE IF c.status # "ok" THEN [c EXCEPT !.level_status = c.status]
    ELSE SkipEmptyFilesForward(LoadBlock(OpenFile(c, c.at + 1), got, 1, None),
                               got)

SeekChildToFirst(c, got) ==
    CASE c.kind = "mem" -> Positioned(c, c.data, 1)
      [] c.kind = "table" -> LoadBlock(c, got, 1, None)
      [] c.kind = "level" ->
            SkipEmptyFilesForward(LoadBlock(OpenFile(c, 1), got, 1, None), got)

SeekTable(c, got, target) ==
    LoadBlock(c, got, LowerBound(LastKeys(CurrentTable(c)), target), <<target>>)

SeekChild(c, got, target) ==
    CASE c.kind = "mem" -> Positioned(c, c.data, LowerBound(c.data, target))
      [] c.kind = "table" -> SeekTable(c, got, target)
      [] c.kind = "level" ->
            LET file == LowerBound([i \in DOMAIN c.tables |->
                                      Largest(c.tables[i])], target)
            IN  SkipEmptyFilesForward(SeekTable(OpenFile(c, file), got, target),
                                      got)

\* TableIterator::Next stays in its block while it can.
NextChild(c, got) ==
    LET moved == Positioned(c, c.data, c.pos + 1)
        crossed == IF moved.valid THEN moved
                   ELSE LoadBlock(moved, got, c.block + 1, None)
    IN  CASE c.kind = "mem" -> moved
          [] c.kind = "table" -> crossed
          [] c.kind = "level" -> SkipEmptyFilesForward(crossed, got)

-----------------------------------------------------------------------------
(* MergingIterator: [kids, heap], heap a sequence of places in kids *)

Greater(kids, a, b) ==
    \/ Before(Key(kids[b]), Key(kids[a]))
    \/ ~Before(Key(kids[a]), Key(kids[b])) /\ a > b

\* SiftDown of the slot at pos, counted from one.
RECURSIVE SiftDown(_, _, _)
SiftDown(kids, heap, pos) ==
    LET left == 2 * pos
        right == left + 1
        smallest == IF right <= Len(heap) /\ Greater(kids, heap[left], heap[right])
                    THEN right ELSE left
    IN  IF left > Len(heap) THEN heap
        ELSE IF ~Greater(kids, heap[pos], heap[smallest]) THEN heap
        ELSE SiftDown(kids,
                      [heap EXCEPT ![pos] = heap[smallest],
                                   ![smallest] = heap[pos]], smallest)

\* Floyd's construction: the inner slots from the last to the first.
RECURSIVE Heapify(_, _, _)
Heapify(kids, heap, i) ==
    IF i = 0 THEN heap ELSE Heapify(kids, SiftDown(kids, heap, i), i - 1)

BuildHeap(kids) ==
    LET live == SelectSeq([i \in DOMAIN kids |-> i], LAMBDA i : kids[i].valid)
    IN  [kids |-> kids, heap |-> Heapify(kids, live, Len(live) \div 2)]

Need(m) ==
    LET waiting == {i \in DOMAIN m.kids : m.kids[i].need # None}
    IN  IF waiting = {} THEN None
        ELSE m.kids[CHOOSE i \in waiting : \A j \in waiting : i <= j].need

MergeValid(m) == m.heap # <<>>
Top(m) == Key(m.kids[m.heap[1]])

\* Every child is asked, also one that has dropped out of the heap.
MergeStatus(m) ==
    IF \E i \in DOMAIN m.kids : Status(m.kids[i]) # "ok" THEN "error" ELSE "ok"

MergeSeekToFirst(m, got) ==
    BuildHeap([i \in DOMAIN m.kids |-> SeekChildToFirst(m.kids[i], got)])

MergeSeek(m, got, target) ==
    BuildHeap([i \in DOMAIN m.kids |-> SeekChild(m.kids[i], got, target)])

\* The root moves on; a child that is exhausted, or has failed, is replaced by
\* the last of the heap.
MergeNext(m, got) ==
    LET root == m.heap[1]
        kids == [m.kids EXCEPT ![root] = NextChild(@, got)]
        rest == IF Len(m.heap) = 1 THEN <<>>
                ELSE [Front(m.heap) EXCEPT ![1] = Last(m.heap)]
    IN  [kids |-> kids,
         heap |-> IF kids[root].valid THEN SiftDown(kids, m.heap, 1)
                  ELSE IF rest = <<>> THEN rest
                  ELSE SiftDown(kids, rest, 1)]

-----------------------------------------------------------------------------
(* DBIter: [inner, seq, key, row, valid] *)

DBIter(kids, seq) ==
    [inner |-> [kids |-> kids, heap |-> <<>>], seq |-> seq, key |-> 0,
     row |-> None, valid |-> FALSE]

Running(d) == Need(d.inner) = None /\ MergeValid(d.inner)

RECURSIVE SkipRestOfCurrentKey(_, _)
SkipRestOfCurrentKey(d, got) ==
    IF Running(d) /\ Top(d.inner).key = d.key
    THEN SkipRestOfCurrentKey([d EXCEPT !.inner = MergeNext(@, got)], got)
    ELSE d

RECURSIVE AdvanceToNextLiveKey(_, _)
AdvanceToNextLiveKey(d, got) ==
    LET e == Top(d.inner)
    IN  IF ~Running(d) THEN [d EXCEPT !.valid = FALSE]
        ELSE IF e.seq > d.seq
        THEN AdvanceToNextLiveKey([d EXCEPT !.inner = MergeNext(@, got)], got)
        ELSE IF e.del
        THEN AdvanceToNextLiveKey(
                SkipRestOfCurrentKey([d EXCEPT !.key = e.key], got), got)
        ELSE [d EXCEPT !.key = e.key, !.row = <<e>>, !.valid = TRUE]

IterSeekToFirst(d, got) ==
    AdvanceToNextLiveKey([d EXCEPT !.inner = MergeSeekToFirst(@, got)], got)

IterSeek(d, got, k) ==
    AdvanceToNextLiveKey(
        [d EXCEPT !.inner = MergeSeek(@, got, LookupKey(k, d.seq))], got)

IterNext(d, got) == AdvanceToNextLiveKey(SkipRestOfCurrentKey(d, got), got)

\* NewIterator: one child for each memtable and each table of level 0, one for
\* the level below.
NewIterator(mems, version, seq) ==
    DBIter([i \in DOMAIN mems |-> MemTableCursor(mems[i])]
             \o [i \in DOMAIN version.l0 |-> TableCursor(version.l0[i])]
             \o (IF version.l1 = <<>> THEN <<>>
                 ELSE <<LevelCursor(version.l1)>>), seq)

-----------------------------------------------------------------------------
(* DB::Get and DB::DoCompaction *)

Smallest(table) == table.blocks[1][1]
InRange(table, k) == Smallest(table).key <= k /\ k <= Largest(table).key

HoldsKey(table, k) ==
    \E i \in DOMAIN table.blocks : \E j \in DOMAIN table.blocks[i] :
        table.blocks[i][j].key = k

\* The answer of Get: "next" asks to go on with the next source.
Answer(what, entry) == [what |-> what, entry |-> entry]
Needs(id) == [what |-> "need", entry |-> id]
GoOn == Answer("next", None)
Resolved(e) == IF e.del THEN Answer("missing", None) ELSE Answer("value", <<e>>)

Probe(data, k, seq) ==
    LET i == LowerBound(data, LookupKey(k, seq))
    IN  IF i > Len(data) THEN GoOn
        ELSE IF data[i].key # k THEN GoOn ELSE Resolved(data[i])

\* Mutant: a table whose block cannot be read does not have the key.
UnreadableIsAbsent == GoOn

Unreadable == Answer("error", None)

\* Table::Get.  A block that cannot be read resolves the lookup: an older
\* version behind it must not be returned.
GetInTable(table, got, k, seq) ==
    LET i == LowerBound(LastKeys(table), LookupKey(k, seq))
        id == <<table.num, i>>
    IN  IF ~HoldsKey(table, k) /\ k \notin FalsePositives THEN GoOn
        ELSE IF i > Len(table.blocks) THEN GoOn
        ELSE IF id \notin DOMAIN got THEN Needs(id)
        ELSE IF ~got[id].ok THEN Unreadable
        ELSE Probe(got[id].data, k, seq)

\* The tables that Get asks: those of level 0 whose range has the key, newest
\* first, then the one of the next level that the search for it ends at.
Candidates(version, k) ==
    LET ends == {i \in DOMAIN version.l1 : Largest(version.l1[i]).key >= k}
        below == IF ends = {} THEN <<>>
                 ELSE <<version.l1[CHOOSE i \in ends : \A j \in ends : i <= j]>>
    IN  SelectSeq(version.l0 \o below, LAMBDA t : InRange(t, k))

RECURSIVE AskTables(_, _, _, _)
AskTables(tables, got, k, seq) ==
    IF tables = <<>> THEN Answer("missing", None)
    ELSE LET a == GetInTable(Head(tables), got, k, seq)
         IN  IF a.what = "next" THEN AskTables(Tail(tables), got, k, seq) ELSE a

RECURSIVE Get(_, _, _, _, _)
Get(mems, version, got, k, seq) ==
    IF mems = <<>> THEN AskTables(Candidates(version, k), got, k, seq)
    ELSE LET a == Probe(Head(mems), k, seq)
         IN  IF a.what = "next" THEN Get(Tail(mems), version, got, k, seq)
             ELSE a

\* The loop of DoCompaction over the merge of its inputs: the entries it
\* keeps.  "hidden" is last_sequence_for_key, "key" last_user_key.
RECURSIVE KeptFrom(_, _, _, _, _, _)
KeptFrom(m, got, snapshot, key, hidden, kept) ==
    LET e == Top(m)
        covered == e.key = key /\ hidden <= snapshot
        dropped == covered \/ (e.del /\ e.seq <= snapshot)
    IN  IF Need(m) # None \/ ~MergeValid(m) THEN [inner |-> m, kept |-> kept]
        ELSE KeptFrom(MergeNext(m, got), got, snapshot, e.key, e.seq,
                      IF dropped THEN kept ELSE Append(kept, e))

\* A compaction of level 0 takes all of it and what it overlaps below.
Overlaps(table, tables) ==
    \E t, u \in ToSet(tables) :
        /\ Smallest(t).key <= Largest(table).key
        /\ Smallest(table).key <= Largest(u).key

CompactionInputs(version) ==
    version.l0 \o SelectSeq(version.l1, LAMBDA t : Overlaps(t, version.l0))

Merge(tables, got, snapshot) ==
    LET m == [kids |-> [i \in DOMAIN tables |-> TableCursor(tables[i])],
              heap |-> <<>>]
    IN  KeptFrom(MergeSeekToFirst(m, got), got, snapshot, 0, 0, <<>>)

=============================================================================
