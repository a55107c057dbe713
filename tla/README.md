# A TLA+ model of embedded-lsm-kv

The library is an embedded key-value store: a write-ahead log and a memtable in
front of levels of immutable tables, one background thread, a queue of writers
that commit in groups, and readers that take no lock while they read. This
directory models the parts of it where an order of events, a failure or a
boundary decides whether data is kept, found and answered for. TLC checks the
models on small instances. TLAPS proves for every instance that acknowledged
writes survive a crash and no number is used twice, that the queue of writers is
a serial log, that the levels are a map with snapshots, and that searches and
scans of the memtable beside its writer find what is there.

Paths are relative to the repository, which `PROJECT.json` calls `src/`: its
`src/src/db.cpp` is the file `src/db.cpp` here.

## The system and its models

| Part | Source | Module |
|---|---|---|
| Logs, tables, manifest, recovery | `src/db.cpp`, `src/wal.cpp`, `src/sstable.cpp` | `DurableDB` |
| Queue of writers, maintenance calls, background thread, destructor | `src/db.cpp` | `GroupCommit`, promise in `SerialLog` |
| Levels, flush, compaction, reads, snapshots | `src/db.cpp`, `src/memtable.cpp` | `LsmTree`, promise in `KVStore` |
| Memtable and skip list | `include/lsm/skiplist.h`, `src/memtable.cpp` | `SkipList` |
| Table file: blocks, index, filter, footer | `src/sstable.cpp`, `src/block.cpp`, `src/bloom.cpp` | `Table`, `Bloom` |
| Cursors, merge, lookup, compaction loop | `src/iterator.cpp`, `src/sstable.cpp`, `src/db.cpp` | `Cursors` |
| Block cache | `src/cache.cpp` | `BlockCache` |
| Readers, flush and compaction over one cache | `src/sstable.cpp`, `src/db.cpp` | `ReadPath`, on top of the last two |

Proofs are in `DurabilityTypes`, `DurabilityInv` and `DurabilityProofs` (about
`DurableDB`, with the invariants in `DurabilityInvariants`), `CommitInv`,
`CommitSteps` and `GroupCommitProofs` (about `GroupCommit`), `LsmTreeProofs` and
`SkipListProofs`. `MCDurableDB`, `MCGroupCommit`, `MCLsmTree`, `MCSkipList`,
`MCTable` and `MCReadPath` are the modules TLC runs.

The models are views of the same class `DB`, cut so that each can be explored:
`DurableDB` has one writer and abstract contents, `GroupCommit` many writers and
no contents, `LsmTree` real contents and no files, `ReadPath` real blocks and no
writers. `ReadPath` composes `Cursors` and `BlockCache`, `Table` is built on
`Bloom`; the other models are not composed into one specification. What each
leaves out is covered by another or listed under "Not modelled".

### DurableDB

A write is its sequence number. A log is the sequence of its records, each whole
or torn; a table is the set of writes it accounts for, a dropped version being
accounted for by the table with the version that shadows it. A file's name is
`volatile`, `durable` or `unlinked`, and `survivors` is what MANIFEST may be
after a power loss. A step is what runs between two places where `mu_` is
released or the file system is reached:

- `RecoverLoad`, the flush, `RecoverOpenLog` and a commit are `DB::Recover`;
- `RenameManifest`, `SyncDirectory`, `ListObsolete`, `UnlinkLog`, `UnlinkTable`
  and `CommitDone` are `WriteManifest` and `RemoveObsoleteFiles`;
- `FlushStart`, `CompactStart`, `BuildTable`, `FlushInstall` and
  `CompactInstall` are the background thread;
- `MakeRoomForWrite`, `WriteBegin`, `AddRecord`, `SyncLog` and
  `InsertAndRetire` are the leader of a group; `FlushMemTable` is its namesake;
- the actions that end in `Fails` are the error paths, `Crash` and `PowerFail`
  the end of the process and of the machine. A failure inside `Recover` ends
  `Open` and is a `Crash`.

Abstractions: levels below L0 are one set; a compaction has exactly one output,
where the code may write several, or none when everything is dropped; which
deeper tables it takes is a free choice; rewriting a single table is left out.
A failing `WalWriter::Open` is modelled in `MakeRoomForWrite`, not in
`FlushMemTable`. Except in `durable_flush_race`, `FlushMemTable` runs between
groups.

### GroupCommit and SerialLog

One step per stretch of code between two changes of the owner of `mu_`. The
threads are callers of `Write`; those in `Maintainers` also call
`FlushMemTable`, `CompactAll` and `WaitForBackgroundWork`. `Init` chooses
whether there is a background thread or, with `background_compaction` off,
callers run `DrainBackgroundWork` themselves; `bg` is the loop in both cases. A
batch is its size, a memtable the set of calls it holds.

A condition variable wakes only who was notified, so a missing notification
shows as a thread that never returns; the code rechecks its conditions, so
spurious wake-ups change nothing. The waits of the maintenance calls have a time
limit in the code: in the model such a thread looks again whenever it likes.

Two restrictions are deliberate. `FlushMemTable` rotates only between two
groups, since the other case is the race that `durable_flush_race` shows.
Without a background thread a maintenance call runs alone, as in the tests:
`DrainBackgroundWork` beside another caller's would flush the same memtable
twice. `GroupCommitAssumption` has `EmptySize <= Capacity`: an empty memtable
already owns an arena block, and with a smaller `memtable_size_bytes` the loop
of `MakeRoomForWrite` rotates for ever.

`SerialLog` is what callers are promised: calls take effect in order of arrival
or fail without effect, and each caller is told once, OK if and only if its call
took effect. The mapping keeps of an answer the call and whether its status was
OK (`Told`).

### LsmTree and KVStore

A table is a set of entries (key, sequence number, tombstone or not), a size is
a number of entries, the value of a write is its sequence number. A flush or
compaction decides its output when it starts and installs it later, with writes
and snapshots in between. `Get` and `Scan` are operators over the state.
`KVStore` is a map with snapshots, with one concession to the code: a snapshot
taken while a group is being inserted also receives the rest of that group.
Without the concession the promise fails (run `lsm_snapshot`).

### SkipList

Every load and store of `SkipList::Insert`, `FindGreaterOrEqual` and the
iterator is a step. A location is the sequence of the stores to it; all stores
are the writer's, so one counter orders them. A reader's `view` is the store up
to which it sees everything; a relaxed load may return any store that is not
older than the view allows, and an acquire-load of a release-store raises the
view. This is the C++ memory model for one storing thread. Readers store
nothing, so one reader stands for all. `RandomHeight` is any height. The last
store of an insert and the `fetch_add` of `size_` behind it are one step; only
the `empty()` of `FlushMemTable` could tell, for a write that has not returned.

### Table and Bloom

`AddEntry`, `Finish` and `Abandon` are `TableBuilder`'s operations; a write, the
fsync or the close may fail in each, and `Finish(done)` succeeds in its first
`done` steps. `Init` is the constructor with `Open`. Keys are sequences of
bytes, so that prefixes are shared as in `BlockBuilder::Add`; block offsets count
entries. `SeekInBlock` and `TableGet` are the binary searches of
`BlockReader::Seek` and `Table::Get` on the file that resulted. `BloomHash` is
any function on the keys; `Bloom` keeps the rotation, the double hashing and the
rounding of the number of bits, in words of `WordBits` bits.

### Cursors, BlockCache and ReadPath

A call of a thread is a sequence of block reads, each a `Lookup` and, on a miss,
a `ReadBlock` with its `Insert`, or a `ReadFails`. In between it only computes.
`Cursors` has these computations: the cursors of memtables, tables and levels,
the heap of `MergingIterator`, `DBIter`, `Get` and the loop of `DoCompaction`,
each a function of the blocks read so far. `BlockCache` is one shard. A call
keeps the memtables and the version it took under `mu_` while `Flush` and
`ReturnCompact` replace them. `Flush` drops the versions that no reader can see
any more, and may fail in its build, when `imm_` stays, or in its commit, when
the new version is already installed; either way the background thread stops.

A Bloom filter is here a set of keys that pass besides those in the table. The
merge is in heap order, an index search is its result (`Table` has its steps).
`EraseFile` is an action although only tests call it.

## What is checked

| Run | Checks | Result | States |
|---|---|---|---|
| `durable_crash` | `TypeOK`, `ManifestTablesReadable`, `AckedRecoverable`, `NewestSourceFirst`, `AckedReadable`, `SequencesNotReused`, `FileNumbersFresh`, `ManifestLogAdvances` | pass | 795,504 |
| `durable_power` | `AckedRecoverable`, `ImmFlushed`, `Reopens` | pass | 368,102 |
| `group_commit` | `TypeOK`, `LogAgreesWithMemory`, `SequencesFollowLog`, `SyncHonoured`, `OneLeader`, `AppliedKept`, refinement `Serial`, `FlushWaits`, `EveryCallReturns`, `DestructorReturns` | pass | 254,368 |
| `lsm_tree` | `TypeOK`, `LevelsDisjoint`, `NewerAbove`, `ReadsNewest`, refinement `IsKVStore` | pass | 121,689 |
| `memtable` | `NoDataRace`, `Sorted`, `GetFindsNewest`, `ScanComplete`, `ReadersFinish` | pass | 670,429 |
| `read_path` | `ScanRight`, `GetRight`, `VersionComplete`, `CacheCoherent`, `CacheConsistent`, `CallsReturn` | pass | 118,875 |
| `table_file` | `BlockFaithful`, `NoFalseNegative`, `TableGetFaithful` | pass | 133,992 |
| `durable_new_log` | `AckedRecoverable` | violated | |
| `durable_stale_log` | `AckedNotHidden` | violated | |
| `durable_flush_race` | `AckedRecoverable` | violated | |
| `group_interval` | `IntervalBound` | violated | |
| `lsm_snapshot` | `SnapshotFrozen` | violated | |

The passing runs say:

- `durable_crash`, `durable_power`: with crashes at every step and failing
  calls, an acknowledged write is recoverable and readable, no number is used
  twice, and `MANIFEST` moves forward without passing a log whose records are
  only in memory; with power losses a synced write survives and `Open` succeeds in the
  end.
- `group_commit`: the queue is serial and each caller gets the status of its own
  call; it honours sync requests, loses no memtable;
  `FlushMemTable` waits for its data; every call returns, also after an error,
  and so does the destructor.
- `lsm_tree`: reads find the newest visible version through any sequence of
  flushes and compactions, which no reader can tell from a map with snapshots.
- `memtable`: a reader beside the writer reads only built nodes, misses nothing
  that was there when it began, and is never held up.
- `read_path`: a failing read gives an error and never a wrong or missing row;
  a flush drops nothing that a reader can see and a compaction installs nothing
  it has not read in full, also when a flush or its commit fails; the cache serves the
  right bytes and stays within its budget.
- `table_file`: a file that opens answers every lookup, wherever the builder
  failed, and a table that `Finish` reported as written opens.

Each of these holds under the conditions of its run. In particular
`durable_power` assumes a file system where fsync of a new file makes its name
durable, does not check `NewestSourceFirst`, and has no I/O errors besides
failing unlinks. It also assumes what a power loss leaves of a log: all that was
synced, and of the rest a prefix of whole records, where a last record that was
cut short ends the replay. `WalReader::Replay` has another outcome, a
`Corruption` that makes `Open` fail: for a header of at least full length that is
not the WAL's own (`src/wal.cpp:160`, `:163`), and for a record that passes its
checksum and is shorter than 12 bytes (`:189`) or does not decode (`:202`). A
device that keeps the length of a file and not its bytes could leave that, for
example a tail of zeros, which reads as an empty record with a right checksum.
`AckedRecoverable` and `Reopens` say nothing of such a device. `table_file` takes a file as its writes left it; a table that a
power loss has cut short is in `durable_power`.

### Disagreements between code and text

- **New log without directory fsync** (`durable_new_log`). `README.md` says
  `kEveryWrite` survives power loss, and that a new file needs its directory
  synced. Rotation (`src/db.cpp:631`) does not sync it. This matters only on file
  systems where fsync of a file does not cover its name.
- **Stale log** (`durable_stale_log`). The flush inside `Recover`
  (`src/db.cpp:392`) commits log number 0. After a power loss that undoes an
  unlink, the next recovery replays an obsolete log into the newest L0 table.
  The property is stated for every assignment of keys to writes; the loss is
  visible when the two writes have the same key.
- **FlushMemTable and the leader** (`durable_flush_race`). `FlushMemTable`
  swaps `log_` and `mem_` under a leader that works without the lock. The header
  calls it a test and benchmark hook.
- **kInterval** (`group_interval`). Elapsed time is looked at only by a later
  write, so a quiet database never syncs its last writes. `IntervalBound` allows
  twice the interval.
- **Snapshots** (`lsm_snapshot`). `last_sequence_` is advanced before the
  entries are inserted, so a snapshot taken in between changes afterwards.

These are results about the models. None was reproduced by running the library.

Smaller differences have no run: `README.md:177-179` says that compaction erases
the cache entries of the files it retires, `src/db.cpp:992` says why it does not;
`include/lsm/iterator.h:35` speaks of a linear scan over the children, the code
has a heap; `src/db.cpp:1042` says that `DrainBackgroundWork` serves the
shutdown path, which does not call it; `include/lsm/skiplist.h:215` says that a
node is not reachable yet while its own pointers are set, which holds of the
first level only (`memtable` covers the others).

### Bounds

- `durable_crash`: 3 writes, 2 faults, memtable of one write, every L0 table
  triggers a compaction. Enough for a rotation and a flush racing a commit, a
  compaction over recovered tables, and a crash inside the recovery of a crash.
- `durable_power`: 2 writes and 2 faults, since a power loss branches widely.
- `group_commit`: 3 threads with one call each and batches of sizes 1, 2 and 3,
  one of them a maintainer, one compaction due: groups of one and two, a
  leader with a tail left behind, a stalled leader, a `FlushMemTable` whose
  memtable a leader rotates away. A thread that calls twice is not explored. No
  symmetry, as it is unsound for liveness.
- `lsm_tree`: 2 keys, 3 writes, 3 levels, 2 snapshots, all sizes 1, so that every
  level overflows. Symmetry over the snapshots, sound here because every property
  is a safety property. A larger instance (4 writes, 1 snapshot, 672,596 states)
  passed too and is not kept, as it takes minutes.
- `memtable`: 2 keys, 3 entries, groups of up to 2, 3 levels: a node that is
  linked between two others on several levels, and an older version behind a
  newer. An instance with 4 entries and 2 levels (1,191,917 states) passed too.
- `read_path`: one reader and the background thread, a cache of two blocks, one
  failure (of a read, a flush or its commit), three layouts: a tombstone above two files, a memtable to be
  flushed above a key on both sides of a block boundary, and one with every kind
  of child.
- `table_file`: ten internal keys over five user keys that are prefixes of each
  other, up to four of them in a table, restart intervals 0, 2 and 3, two block
  sizes (tables of one or two blocks), two hashes (one constant), two filter
  sizes.

Deadlock is not checked: with all writes handed out the systems are at rest.

### Fairness

Weak fairness, per thread: the background thread, `Open` and its commit, a
leader that has its numbers, each caller inside `Write` or a maintenance call, a
reader in a search or a scan, and a thread inside a call of `ReadPath`. The
operating system's scheduler gives that to a thread that can run. `ReadPath`
writes it as `Continues(t)`, which is weak fairness of the thread's steps, since
a thread in a call can always take one. Nothing is assumed of clients, of
failures, or of crashes, whose number is bounded. The skip list's reader needs
no fairness of the writer.

## What is proved

The theorems hold for every value of the constants that the `ASSUME` of the
module allows: any number of threads, keys, writes, levels, files and failures.

| Theorem | Statement | Assumes | Module |
|---|---|---|---|
| `Durability` | `[]AckedRecoverable` | `~PowerLoss`, `~FlushRaces` | `DurabilityProofs` |
| `ReadYourWrites` | `[]AckedReadable` | the same | |
| `ManifestReadable` | `[]ManifestTablesReadable` | the same | |
| `FreshFiles` | `[]FileNumbersFresh` | the same | |
| `ManifestMovesForward` | `ManifestLogAdvances` | the same | |
| `SearchesFindNewest` | `[]NewestSourceFirst` | the same, `~UnlinkMayFail` | |
| `SequencesAreNew` | `[]SequencesNotReused` | | |
| `LogNumbersAdvance` | `LogNumberAdvances` | | |
| `TypeCorrect` | `[]TypeOK` | | |
| `WritesAreSerial` | the refinement `Serial` | | `GroupCommitProofs` |
| `OnlyOneLeader`, `WaitersStayQueued` | `[]OneLeader`, `[]WaitersQueued` | | |
| `AppliedStaysOnce` | `[]AppliedKept` | | |
| `LogHoldsMemory`, `LogIsNumbered` | `[]LogAgreesWithMemory`, `[]SequencesFollowLog` | | |
| `SyncsAreHonoured` | `[]SyncHonoured` | | |
| `FlushesWait` | `FlushWaits` | | |
| `CommitTypes` | `[]TypeOK` | | |
| `ImplementsMap` | the refinement `IsKVStore` | | `LsmTreeProofs` |
| `ReadsFindNewest` | `[]ReadsNewest` | | |
| `LevelsStayDisjoint`, `NewerStaysAbove` | `[]LevelsDisjoint`, `[]NewerAbove` | | |
| `TypesHold` | `[]TypeOK` | | |
| `NoRace` | `[]NoDataRace` | | `SkipListProofs` |
| `ListStaysSorted` | `[]Sorted` | | |
| `GetsFindTheNewest`, `ScansAreComplete` | `[]GetFindsNewest`, `[]ScanComplete` | | |

Each rests on an inductive invariant that TLC checked, on instances like those of
the runs, before it was proved.

### DurableDB

The invariants are in `DurabilityInvariants`, which has no proofs. Steps keep
`TypeInv` and `OrderInv` by `DurabilityTypes`, `IInv` by `DurabilityInv`, `SeqInv`
by `DurabilityProofs`, which has the theorems.

`AckedRecoverable` is not inductive: it does not say why a log may be deleted.
`IInv` adds

- `OpenInv`: what is in `mem_` and `imm_` can be replayed from logs that exist
  and that neither the manifest nor the commit in flight has passed, and a log
  that is still appended to has no torn record;
- `CommitInv`: a commit is of `current_`, and what it will unlink is needed by
  neither `current_` nor the manifest;
- `TablesInv`: tables in use are readable, and a finished table covers what it
  was built from;
- `RecoverInv`, `DownInv`: the same for `Recover`, and an empty memory when the
  process is down.

Its two assumptions are needed: dropping `~FlushRaces` gives the violation of
`durable_flush_race`, and power loss that of `durable_new_log`.

`ManifestLogAdvances` has two halves. That what is only in memory can be replayed
from the log `MANIFEST` names follows from `OpenInv`. That the log number grows
needs no assumption, and neither does that it stays at or below the logs of
`mem_` and of a waiting `imm_` (`LogNumberAdvances`) or `SequencesNotReused`: they also
hold through power losses, failing unlinks and the race of `FlushMemTable`.
`SeqInv` has to speak of everything a power loss may bring back. Each manifest
that may survive counts what it leaves behind, that is the logs it is past, the
logs whose unlink may be undone and the tables it names (`ManifestSeq`); the
counters in memory are above everything else (`MemorySeq`); a commit in flight
counts at least as far as the manifest in force (`CommitSeq`); no manifest is
past the log in use (`OpenSeq`).

`NewestSourceFirst` is about the order in which `Get` searches: a source must not
answer with an older write where one searched later has a newer one. The danger
is a log whose writes are already in a table. If the process dies between the
commit and the unlink, and a commit of `Recover` names log 0, such a log is
replayed once more, into a new L0 table that is searched first. `OrderInv` says
why nothing is hidden. Writes that come later have higher numbers
(`OpenOrder`), so the only sources to compare are those that hold the same
writes twice. At most one log is stale in this way, and none is when a table is
built (`StaleOrder`): a commit is over only when the obsolete logs are unlinked,
and a failed one stops the background thread. So what is replayed from log 0, a
stale log and all that came after it, contains every write of the tables that is
newer than its oldest (`ManifestOrder`, `FlushOrder`), and the new log of
`Recover` takes over when there is nothing left to replay (`NewLogOrder`). A flush
or a compaction then keeps the order of the tables (`MemoryOrder`, `BuildOrder`).
Two of the assumptions keep stale logs away: a power loss brings unlinked logs
back, which is the violation of `durable_stale_log`, and an unlink that fails
leaves them; TLC finds the same violation in that instance with `UnlinkMayFail`
in place of `PowerLoss`.

`TypeInv` is `TypeOK` with a bound on all numbers in use, without which the
maxima that `Recover` takes need not exist.

### GroupCommit

`CommitInv` has the queue, `CommitSteps` the group and the log,
`GroupCommitProofs` the maintenance calls, the types, the refinement and the
theorems.

- `LInv`: whoever waits and is not done is in the queue, and the members of a
  group are the front of the queue until `Retire`. Without this a leader that
  retires might take out more than its group.
- `KInv`: a thread is in the queue at most once and then waits or leads; only
  calls that were made are stored; a call that is still to be decided is stored
  nowhere; whoever rotates holds `mu_` since it saw `imm_` free.
- `CInv` adds what happened to each call, and where its record is. A group has no
  outcome before its leader retires it (`Phases`); what a caller is told is what
  happened (`Outcomes`); the log is whole and memory has all of it, or the group's
  record is the last one and memory has all but that, or the group has failed and
  the error is latched (`LogState`); the numbers handed out are those in the log
  and those of the group about to be appended (`Counted`); a wish to sync is passed
  on to the leader, and a synced record is on the device (`Synced`); what a
  `FlushMemTable` was asked to flush is stored, and in `imm_` or in tables once it
  waits (`Flushed`); and who may drain or maintain beside whom (`Alone`, `Rounds`).

`Serial` follows step by step. A `Write` adds its call to the abstract queue; a
group's insertion, its failure, and a leader that fails without a group decide
the front of it; a return answers; everything else is a stutter. The mapped queue
is what is left of `writers_` after the members that have an outcome, and the
lemmas on it say how that changes. That an answer is the right one needs that no
call both took effect and failed: by `Apart` a call waits once, or was applied,
or has failed, and the steps of `SerialLog` keep that.

That `BuildBatchGroup` takes a run from the front, and what `TotalSize` and
`Replay` are, needs the existence of their `CHOOSE`. For the two recursive
functions it is proved by induction over the length of a sequence, for one set
at a time (`CommitSteps`). As in the module, a `FlushMemTable` does not rotate
while a group is being written: that race is the subject of `durable_flush_race`.

### LsmTree

`ReadsNewest` compares reads with `written`, everything that was ever inserted.
Most of that is no longer stored, so the invariant `Inv` says what may be missing:
an entry that is not stored was overwritten before the oldest live snapshot, or
is a tombstone seen by all readers with nothing below it (`Kept`). For that to
survive an install, the output of a job in flight stands for its inputs also with
the snapshots that were taken and released since it started: `SmallestSnapshot`
was read at the start and only grows (`FlushRight`, `CompactRight`). The search
order needs `Layered` (memtables, L0 tables and levels are newer from top to
bottom, key by key) and `Ordered` (below L0 the tables of a level are in the
order of their keys), which are `NewerAbove` and `LevelsDisjoint` in a form that
steps keep; a compaction keeps them because its inputs are whole key ranges.
`Numbered` and `LateSees` say which snapshots see a group that is half inserted.

The refinement maps `LsmTree` to what reads find, now and through each snapshot.
By `ReadsNewest` this depends on `written` only, so rotation, flush and
compaction are stutters, and an insert changes its own key in the present and in
the snapshots taken since its group was numbered.

### SkipList

`NoDataRace`: every store of a pointer is either a release-store made after its
node was built, or a relaxed store in a new node of a pointer to a node built
before (`Stores`). A reader stands at a node it has seen built (`ReaderInv`); by
the first kind of store its view is raised, by the second the node behind was
built before the one it stands at. `Shape`, `BuiltInOrder` and `WriterInv` say
that the locations exist and that the writer has a predecessor on every level.

What a search finds needs the order. `OInv` says that the newest pointers of a
level pass nobody that is linked there (`Chain`) and go only to nodes linked on
that level (`Pointers`); that the place the writer found for its node stays the
right one (`Place`); that a node is linked from the bottom up (`Upwards`). A
reader may load a stale pointer. `Stale` says that a pointer which passes a node
was replaced, by a store that is in the view of whoever knows of that node, so
such a reader can no longer load it. A reader knows everything that was retired when it began
(`Known`), and hence passes none of it (`ReaderKnows`).

### The provers

A leaf that needs arithmetic or sequences goes to SMT and one that only expands
definitions to Zenon, as preparing the larger steps for SMT takes longer than
solving them. Facts that serve one lemma only are steps of it, so that they are
out of sight elsewhere. The lemmas assume that a set of natural numbers has a
least element (`NatWellOrdered`), and `OrderNext` that the empty set has no
elements to count; `LeastNat` and `EmptyCard` prove this beside the theorems, from
the library's theorems on `<` and on finite sets.

### Only model-checked

- Liveness (`EveryCallReturns`, `DestructorReturns`, `ReadersFinish`,
  `CallsReturn`, `ImmFlushed`, `Reopens`): the prover has no `ENABLED`.
- Durability under power loss (`durable_power`): `IInv` assumes that what a
  process wrote stays.
- `Table` and `Bloom`: the binary searches, the encoding of shared prefixes and
  the filter are recursive definitions, and what they compute for every input
  needs induction over data.
- `Cursors`, `BlockCache` and `ReadPath`: the heap, the skipping of shadowed
  versions, the eviction and the loop of `DoCompaction` are recursive too.
- The five violations are counterexamples of TLC.

## Not modelled

- Bytes of logs, batches, footers and index blocks, varints and checksums. A
  record, a block and a footer are good or not. A batch that fails to decode in
  `ForEach` and the tests for truncated entries in `BlockReader` are left out: no
  run of the library alone produces such bytes.
- The arena; its size appears as the memory of a memtable.
- `SkipList::Contains`, which only tests call, and `MaybeSyncWal`, which has no
  caller.
- `FlushMemTable` whose log cannot be opened in `DurableDB` (it is in
  `GroupCommit`), and maintenance calls beside others without a background
  thread.
- Statistics, options parsing, benchmarks and the crash harness.

## Plan

1. A composition of `DurableDB` and `LsmTree`, so that recovery is checked on
   contents and not on sets of writes.
2. Log replay over blocks of bytes.
3. Proofs: durability under power loss.
