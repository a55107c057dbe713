------------------------------- MODULE ReadPath -------------------------------
(***************************************************************************)
(* Readers and the background thread of lsm::DB at work on the same tables *)
(* through one block cache: cursors and lookups that are open across a     *)
(* flush and a compaction, reads of blocks that fail, blocks that are      *)
(* evicted while a cursor stands in them.                                  *)
(* Source: src/src/sstable.cpp (Table::ReadBlock), src/src/db.cpp          *)
(* (Get, NewIterator, FlushImmutableMemTable, DoCompaction).               *)
(*                                                                         *)
(* A call of a thread is a sequence of block reads, each of them a Lookup  *)
(* in the cache and, on a miss, a pread and an Insert; between them it     *)
(* only computes (Cursors).  What a call shares with others it took under  *)
(* mu_ when it began: the memtables and the version.                       *)
(***************************************************************************)
EXTENDS Cursors, BlockCache
LOCAL INSTANCE SequencesExt
LOCAL INSTANCE TLC

CONSTANTS
    Readers,            \* threads of the user
    Compactor,          \* the background thread
    Layouts,            \* initial contents: [mems, l0, l1]
    ReadAt,             \* sequence numbers of readers: snapshots and the last
    ShardOf(_),         \* the shard of a block
    Shards, Capacity,   \* capacity of a shard, in entries
    BlockEntries,       \* entries of a block of a new table
    TargetEntries,      \* entries after which an output file is cut
    MaxFaults           \* bound: reads, builds and commits that fail

ASSUME ReadPathAssumption ==
    /\ Compactor \notin Readers
    /\ BlockEntries \in Nat \ {0} /\ TargetEntries \in Nat \ {0}
    /\ Capacity \in Nat /\ MaxFaults \in Nat

VARIABLES
    mems,               \* the memtables: mem_, and imm_ while it is there
    version,            \* current_: [l0, l1]
    next_file_number_,
    cache,
    thread,
    faults,             \* reads, builds and commits that have failed
    written             \* every entry ever written, for the properties

vars == <<mems, version, next_file_number_, cache, thread, faults, written>>
Threads == Readers \cup {Compactor}

Flat(table) == FlattenSeq(table.blocks)
Entries(seqs) == UNION {ToSet(seqs[i]) : i \in DOMAIN seqs}
EntriesOf(tables) == UNION {ToSet(Flat(tables[i])) : i \in DOMAIN tables}

NoCall == [op |-> "none", key |-> 1]
NoThread ==
    [pc |-> "idle", call |-> NoCall, mems |-> <<>>,
     version |-> [l0 |-> <<>>, l1 |-> <<>>], seq |-> 0,
     iter |-> DBIter(<<>>, 0), from |-> 0, rows |-> 0, got |-> <<>>,
     want |-> None, answer |-> Answer("none", None)]

Init ==
    \E layout \in Layouts :
        /\ mems = layout.mems
        /\ version = [l0 |-> layout.l0, l1 |-> layout.l1]
        /\ next_file_number_ = Len(layout.l0) + Len(layout.l1) + 1
        /\ cache = [s \in Shards |-> EmptyShard]
        /\ thread = [t \in Threads |-> NoThread]
        /\ faults = 0
        /\ written = Entries(layout.mems)
                       \cup EntriesOf(layout.l0 \o layout.l1)

-----------------------------------------------------------------------------
(* What a call computes from the blocks it has *)

SmallestSnapshot == CHOOSE s \in ReadAt : \A u \in ReadAt : s <= u

\* The cursor after the call, given the blocks read so far.
Moved(t) ==
    LET x == thread[t]
    IN  CASE x.call.op = "first" -> IterSeekToFirst(x.iter, x.got)
          [] x.call.op = "seek" -> IterSeek(x.iter, x.got, x.call.key)
          [] x.call.op = "next" -> IterNext(x.iter, x.got)

Looked(t) ==
    LET x == thread[t]
    IN  Get(x.mems, x.version, x.got, x.call.key, x.seq)

Merged(t) ==
    LET x == thread[t]
    IN  Merge(CompactionInputs(x.version), x.got, SmallestSnapshot)

\* The block that the call asks for next.
Wants(t) ==
    CASE thread[t].call.op = "get" ->
            LET a == Looked(t) IN IF a.what = "need" THEN a.entry ELSE None
      [] thread[t].call.op = "compact" -> Need(Merged(t).inner)
      [] OTHER -> Need(Moved(t).inner)

Pinned(t) == ToSet(thread[t].version.l0 \o thread[t].version.l1)

\* The bytes of a block in the thread's own file.
OnDisk(t, id) ==
    (CHOOSE table \in Pinned(t) : table.num = id[1]).blocks[id[2]]

-----------------------------------------------------------------------------
(* Table::ReadBlock *)

With(t, id, block) == [thread[t] EXCEPT !.got = @ @@ (id :> block)]
Good(data) == [ok |-> TRUE, data |-> data]

\* cache_->Lookup.
Lookup(t) ==
    LET id == Wants(t)
        shard == cache[ShardOf(id)]
    IN  /\ thread[t].pc = "run" /\ id # None
        /\ IF Hit(shard, id)
           THEN /\ cache' = [cache EXCEPT ![ShardOf(id)] = MoveToFront(@, id)]
                /\ thread' = [thread EXCEPT ![t] =
                                 With(t, id, Good(EntryOf(shard, id).data))]
           ELSE /\ thread' = [thread EXCEPT ![t].pc = "miss", ![t].want = id]
                /\ UNCHANGED cache
        /\ UNCHANGED <<mems, version, next_file_number_, faults, written>>

\* Mutant: what Insert leaves in the cache is looked up again.
LoadedAgain(t, id) == [thread[t] EXCEPT !.want = None]

\* The handle that Insert returns.
Loaded(t, id) ==
    [With(t, id, Good(EntryOf(cache'[ShardOf(id)], id).data))
        EXCEPT !.want = None]

\* pread and the checksum succeed, cache_->Insert.
ReadBlock(t) ==
    LET id == thread[t].want
        data == OnDisk(t, id)
        entry == [id |-> id, data |-> data, charge |-> Len(data)]
    IN  /\ thread[t].pc = "miss"
        /\ cache' = [cache EXCEPT ![ShardOf(id)] = Insert(@, entry, Capacity)]
        /\ thread' = [thread EXCEPT ![t] = [Loaded(t, id) EXCEPT !.pc = "run"]]
        /\ UNCHANGED <<mems, version, next_file_number_, faults, written>>

\* pread fails, or the checksum does not match.
ReadFails(t) ==
    LET id == thread[t].want
    IN  /\ thread[t].pc = "miss"
        /\ faults < MaxFaults
        /\ faults' = faults + 1
        /\ thread' = [thread EXCEPT ![t] =
                         [With(t, id, [ok |-> FALSE, data |-> <<>>])
                             EXCEPT !.pc = "run", !.want = None]]
        /\ UNCHANGED <<mems, version, next_file_number_, cache, written>>

-----------------------------------------------------------------------------
(* Calls *)

Begin(t, call) ==
    [thread[t] EXCEPT !.pc = "run", !.call = call, !.got = <<>>]

\* NewIterator.
OpenIterator(t, s) ==
    /\ thread[t].pc = "idle" /\ thread[t].call.op = "none"
    /\ thread' = [thread EXCEPT ![t] =
                     [@ EXCEPT !.call.op = "open", !.seq = s,
                               !.iter = NewIterator(mems, version, s),
                               !.version = version]]
    /\ UNCHANGED <<mems, version, next_file_number_, cache, faults, written>>

HasIterator(t) == thread[t].call.op \in {"open", "first", "seek", "next"}

CallFirst(t) ==
    /\ thread[t].pc = "idle" /\ HasIterator(t)
    /\ thread' = [thread EXCEPT ![t] =
                     [Begin(t, [op |-> "first", key |-> 1])
                         EXCEPT !.from = 1, !.rows = 0]]
    /\ UNCHANGED <<mems, version, next_file_number_, cache, faults, written>>

CallSeek(t, k) ==
    /\ thread[t].pc = "idle" /\ HasIterator(t)
    /\ thread' = [thread EXCEPT ![t] =
                     [Begin(t, [op |-> "seek", key |-> k])
                         EXCEPT !.from = k, !.rows = 0]]
    /\ UNCHANGED <<mems, version, next_file_number_, cache, faults, written>>

CallNext(t) ==
    /\ thread[t].pc = "idle" /\ HasIterator(t) /\ thread[t].iter.valid
    /\ thread' = [thread EXCEPT ![t] = Begin(t, [op |-> "next", key |-> 1])]
    /\ UNCHANGED <<mems, version, next_file_number_, cache, faults, written>>

CallGet(t, k, s) ==
    /\ thread[t].pc = "idle" /\ thread[t].call.op = "none"
    /\ thread' = [thread EXCEPT ![t] =
                     [Begin(t, [op |-> "get", key |-> k])
                         EXCEPT !.mems = mems, !.version = version, !.seq = s]]
    /\ UNCHANGED <<mems, version, next_file_number_, cache, faults, written>>

\* DoCompaction until it releases mu_.  An imm_ that a write rotates in while
\* it runs is there from the start.
CallCompact ==
    /\ thread[Compactor].pc = "idle" /\ thread[Compactor].call.op = "none"
    /\ version.l0 # <<>>
    /\ thread' = [thread EXCEPT ![Compactor] =
                     [Begin(Compactor, [op |-> "compact", key |-> 1])
                         EXCEPT !.version = version]]
    /\ UNCHANGED <<mems, version, next_file_number_, cache, faults, written>>

\* The call has all its blocks: a cursor stands at its row.
ReturnRow(t) ==
    LET iter == Moved(t)
    IN  /\ thread[t].pc = "run"
        /\ thread[t].call.op \in {"first", "seek", "next"}
        /\ Wants(t) = None
        /\ thread' = [thread EXCEPT ![t] =
                         [@ EXCEPT !.pc = "idle", !.iter = iter, !.got = <<>>,
                                   !.rows = @ + 1]]
        /\ UNCHANGED <<mems, version, next_file_number_, cache, faults, written>>

ReturnGet(t) ==
    /\ thread[t].pc = "run" /\ thread[t].call.op = "get"
    /\ Wants(t) = None
    /\ thread' = [thread EXCEPT ![t] =
                     [@ EXCEPT !.pc = "idle", !.answer = Looked(t),
                               !.got = <<>>]]
    /\ UNCHANGED <<mems, version, next_file_number_, cache, faults, written>>

-----------------------------------------------------------------------------
(* Flush and compaction *)

\* TableBuilder cuts the entries into blocks.
Blocks(entries) ==
    [i \in 1..((Len(entries) + BlockEntries - 1) \div BlockEntries) |->
        SubSeq(entries, (i - 1) * BlockEntries + 1,
               IF i * BlockEntries > Len(entries) THEN Len(entries)
               ELSE i * BlockEntries)]

\* Where DoCompaction cuts its output: at a new user key, once the file that
\* is open has reached its size.
RECURSIVE CutFiles(_, _)
CutFiles(entries, open) ==
    IF entries = <<>> THEN IF open = <<>> THEN <<>> ELSE <<open>>
    ELSE LET e == Head(entries)
             full == Len(open) >= TargetEntries /\ Last(open).key # e.key
         IN  IF full THEN <<open>> \o CutFiles(Tail(entries), <<e>>)
             ELSE CutFiles(Tail(entries), Append(open, e))

NewTables(files) ==
    [i \in DOMAIN files |-> [num |-> next_file_number_ + i - 1,
                             blocks |-> Blocks(files[i])]]

\* Mutant: a table takes the next number without moving it on.
TakeNumbersAgain(n) == UNCHANGED next_file_number_

TakeNumbers(n) == next_file_number_' = next_file_number_ + n

\* What a flush keeps: a version goes when the next newer one of its key is
\* visible to every snapshot.
Collapse(imm) ==
    LET Hidden(e) == \E f \in ToSet(imm) :
            f.key = e.key /\ f.seq > e.seq /\ f.seq <= SmallestSnapshot
    IN  SelectSeq(imm, LAMBDA e : ~Hidden(e))

\* bg_error_ stops the background thread.
Stopped == [NoThread EXCEPT !.call.op = "stopped"]
BackgroundFails ==
    /\ faults < MaxFaults
    /\ faults' = faults + 1
    /\ thread' = [thread EXCEPT ![Compactor] = Stopped]

\* FlushImmutableMemTable: the immutable memtable becomes the newest table.  A
\* build that fails leaves imm_ and a used number; a commit that fails comes
\* after the new version is installed.
Flush ==
    /\ Len(mems) = 2
    /\ thread[Compactor].pc = "idle" /\ thread[Compactor].call.op = "none"
    /\ TakeNumbers(1)
    /\ \/ /\ version' = [version EXCEPT !.l0 = NewTables(<<Collapse(mems[2])>>) \o @]
          /\ mems' = <<mems[1]>>
          /\ BackgroundFails \/ UNCHANGED <<thread, faults>>
       \/ BackgroundFails /\ UNCHANGED <<version, mems>>
    /\ UNCHANGED <<cache, written>>

\* Mutant: the loop's own status is taken for that of its inputs.
CompactionStatusOfLoop(m) == "ok"

CompactionStatus(m) == MergeStatus(m)

SortTables(tables) ==
    SortSeq(tables, LAMBDA t, u : Before(Smallest(t), Smallest(u)))

\* The end of DoCompaction: the inputs go, the outputs come one level down.
\* After a failed read nothing is installed and the background thread stops.
ReturnCompact ==
    LET r == Merged(Compactor)
        inputs == ToSet(CompactionInputs(thread[Compactor].version))
        outputs == NewTables(CutFiles(r.kept, <<>>))
        Kept(table) == table \notin inputs
    IN  /\ thread[Compactor].pc = "run"
        /\ Wants(Compactor) = None
        /\ TakeNumbers(Len(outputs))
        /\ version' = IF CompactionStatus(r.inner) # "ok" THEN version
                      ELSE [l0 |-> SelectSeq(version.l0, Kept),
                            l1 |-> SortTables(SelectSeq(version.l1, Kept)
                                                \o outputs)]
        /\ thread' = [thread EXCEPT ![Compactor] =
                         IF CompactionStatus(r.inner) # "ok"
                         THEN Stopped ELSE NoThread]
        /\ UNCHANGED <<mems, cache, faults, written>>

\* BlockCache::EraseFile of a file that is no longer in the version.  The
\* database leaves such blocks to the LRU; the method is part of the cache.
EraseRetired(number) ==
    /\ \A table \in ToSet(version.l0 \o version.l1) : table.num # number
    /\ cache' = [s \in Shards |-> EraseFile(cache[s], number)]
    /\ cache' # cache
    /\ UNCHANGED <<mems, version, next_file_number_, thread, faults, written>>

-----------------------------------------------------------------------------
Reading(t) == Lookup(t) \/ ReadBlock(t) \/ ReadFails(t)

ReaderNext(t) ==
    \/ Reading(t)
    \/ \E s \in ReadAt : OpenIterator(t, s)
    \/ CallFirst(t) \/ CallNext(t)
    \/ \E k \in Keys : CallSeek(t, k)
    \/ \E k \in Keys, s \in ReadAt : CallGet(t, k, s)
    \/ ReturnRow(t) \/ ReturnGet(t)

BackgroundNext ==
    Reading(Compactor) \/ Flush \/ CallCompact \/ ReturnCompact

Next ==
    \/ \E t \in Readers : ReaderNext(t)
    \/ BackgroundNext
    \/ \E n \in 1..(next_file_number_ - 1) : EraseRetired(n)

Spec == Init /\ [][Next]_vars

\* A thread in a call goes on with it: weak fairness of its steps, one of which
\* is enabled exactly when it is in a call.
Continues(t) ==
    []<>(thread[t].pc = "idle") \/ []<><<thread'[t] # thread[t]>>_vars

FairSpec == Spec /\ \A t \in Threads : Continues(t)

-----------------------------------------------------------------------------
(* Properties *)

\* The entry that is visible for k at s, in a set of entries.
VisibleIn(S, k, s) ==
    LET versions == {e \in S : e.key = k /\ e.seq <= s}
    IN  {e \in versions : \A f \in versions : f.seq <= e.seq}

LiveIn(S, k, s) == {e \in VisibleIn(S, k, s) : ~e.del}

\* The rows a scan at s owes its user from a key on.
RowsFrom(from, s) == {k \in from..NumKeys : LiveIn(written, k, s) # {}}

\* DBIter: after every call of a cursor whose status is OK it stands at the
\* row it owes, with the right version, or at the end after the last row: a
\* flush, a compaction, an eviction or the failure of a read, whichever child
\* it strikes, gives no wrong or missing row without an error.
ScanRight ==
    \A t \in Readers :
        LET x == thread[t]
            owed == RowsFrom(x.from, x.seq)
        IN  (x.pc = "idle" /\ x.rows > 0 /\ MergeStatus(x.iter.inner) = "ok") =>
              IF x.iter.valid
              THEN /\ x.iter.row[1] \in LiveIn(written, x.iter.key, x.seq)
                   /\ x.iter.key \in owed
                   /\ Cardinality({k \in owed : k <= x.iter.key}) = x.rows
              ELSE Cardinality(owed) = x.rows - 1

\* DB::Get: a lookup that reports no error reports what is visible; a block
\* that cannot be read never uncovers an older version.
GetRight ==
    \A t \in Readers :
        LET x == thread[t]
            live == LiveIn(written, x.call.key, x.seq)
        IN  CASE x.answer.what = "value" -> x.answer.entry[1] \in live
              [] x.answer.what = "missing" -> live = {}
              [] OTHER -> TRUE

\* DoCompaction: whatever its reads come to, the version and the memtables
\* together keep showing every reader what has been written.
VersionComplete ==
    \A k \in Keys, s \in ReadAt :
        LiveIn(Entries(mems) \cup EntriesOf(version.l0 \o version.l1), k, s)
            = LiveIn(written, k, s)

\* A cached block has the bytes of the block of that name in every table that
\* someone can still read: its key, the file's number, is never given twice.
CacheCoherent ==
    \A s \in Shards : \A e \in ToSet(cache[s].order) :
        \A table \in ToSet(version.l0 \o version.l1)
                       \cup UNION {Pinned(t) : t \in Threads} :
            table.num = e.id[1] =>
                e.id[2] \in DOMAIN table.blocks /\ table.blocks[e.id[2]] = e.data

\* The index, the LRU list and the charge of every shard agree and stay within
\* the budget, however the calls of two readers for the same block interleave.
CacheConsistent == \A s \in Shards : ShardConsistent(cache[s], Capacity)

\* Every call returns, even if the cache is too small for its readers and one
\* throws out what the other has just loaded.
CallsReturn == \A t \in Threads : (thread[t].pc # "idle") ~> (thread[t].pc = "idle")

=============================================================================
