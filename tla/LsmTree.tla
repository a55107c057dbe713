------------------------------- MODULE LsmTree -------------------------------
(***************************************************************************)
(* The contents of the tree of lsm::DB and the reads of it: memtables,     *)
(* flush, levelled compaction, snapshots, Get and the scan of DBIter.      *)
(* Source: src/src/db.cpp, with memtable.cpp and iterator.cpp.             *)
(*                                                                         *)
(* A table is the set of its entries, an entry a key, a sequence number    *)
(* and whether it is a tombstone; the value of a write is its sequence     *)
(* number.  A size is a number of entries.  Files, logs and failures are   *)
(* the subject of DurableDB.                                               *)
(***************************************************************************)
EXTENDS Integers, Sequences, FiniteSets, FiniteSetsExt

CONSTANTS
    NumKeys,                  \* user keys are 1..NumKeys, in order
    Snaps,                    \* names of snapshots
    MaxSeq,                   \* bound: sequence numbers handed out
    MaxBatch,                 \* bound: entries of a group
    kNumLevels,
    l0_compaction_trigger,
    max_bytes_for_level_base,
    target_file_size

ASSUME LsmTreeAssumption ==
    /\ NumKeys \in Nat \ {0} /\ MaxSeq \in Nat /\ MaxBatch \in Nat
    /\ kNumLevels \in Nat /\ kNumLevels >= 2
    /\ l0_compaction_trigger \in Nat \ {0}
    /\ max_bytes_for_level_base \in Nat \ {0}
    /\ target_file_size \in Nat

VARIABLES
    mem_,               \* entries of the active memtable
    imm_,               \* those of the one being flushed
    levels,             \* current_: the tables of each level
    compact_pointer_,   \* where the last compaction of each level ended
    last_sequence_,
    snapshots_,         \* the sequence number of each live snapshot
    group,              \* entries the leader has numbered and not inserted
    job,                \* the flush or compaction in flight
    late,               \* history: snapshots taken while group was not empty
    written             \* history: every entry that was ever inserted

tree == <<mem_, imm_, levels, compact_pointer_>>
vars == <<tree, last_sequence_, snapshots_, group, job, late, written>>

Keys == 1..NumKeys
Levels == 0..(kNumLevels - 1)
Entry == [key : Keys, seq : 1..MaxSeq, del : BOOLEAN]

NoJob == [kind |-> "none", level |-> 0, inputs |-> {}, outputs |-> {}]
None == 0

Init ==
    /\ mem_ = {} /\ imm_ = {}
    /\ levels = [l \in Levels |-> <<>>]
    /\ compact_pointer_ = [l \in Levels |-> None]
    /\ last_sequence_ = 0
    /\ snapshots_ = [s \in {} |-> 0]
    /\ group = <<>>
    /\ job = NoJob
    /\ late = {} /\ written = {}

-----------------------------------------------------------------------------
(* Entries, tables and levels *)

Missing == 0

\* The newest version of k that a read at seq can see, in one source.
Versions(S, k, seq) == {e \in S : e.key = k /\ e.seq <= seq}
Newest(S) == CHOOSE e \in S : \A f \in S : f.seq <= e.seq

KeysOf(S) == {e.key : e \in S}
SmallestKey(t) == Min(KeysOf(t))
LargestKey(t) == Max(KeysOf(t))

\* Internal keys as numbers: ascending user keys, descending sequence numbers.
Place(e) == e.key * (MaxSeq + 1) - e.seq
Smallest(t) == Min({Place(e) : e \in t})
Largest(t) == Max({Place(e) : e \in t})

RangesOverlap(t, smallest, largest) ==
    LargestKey(t) >= smallest /\ SmallestKey(t) <= largest

LevelBytes(l) == Cardinality(UNION Range(levels[l]))
MaxBytesForLevel(l) == max_bytes_for_level_base * 10 ^ (l - 1)

-----------------------------------------------------------------------------
(* Reads *)

\* Where a lookup of k probes in one level below L0: the first table whose
\* largest key is not below k.
LowerBound(files, k) ==
    LET found == {i \in DOMAIN files : \E e \in files[i] : e.key >= k}
    IN  IF found = {} THEN {}
        ELSE files[Min(found)]

\* The sources of Get, in the order in which it asks them.
Sources(k) ==
    <<mem_, imm_>> \o levels[0]
        \o [l \in 1..(kNumLevels - 1) |-> LowerBound(levels[l], k)]

\* The first source of s that has a version of the key decides.
FirstHit(s, k, seq) ==
    LET knows == {i \in DOMAIN s : \E e \in s[i] : e.key = k /\ e.seq <= seq}
    IN  IF knows = {} THEN Missing
        ELSE LET e == Newest(Versions(s[Min(knows)], k, seq))
             IN  IF e.del THEN Missing ELSE e.seq

\* (The set makes TLC evaluate the sources once.)
Get(k, seq) ==
    CHOOSE v \in {FirstHit(s, k, seq) : s \in {Sources(k)}} : TRUE

\* What the merge of NewIterator runs over: every entry of every source.
Everything ==
    mem_ \cup imm_ \cup UNION {UNION Range(levels[l]) : l \in Levels}

\* What DBIter shows of k: the newest visible version, unless a tombstone.
Scan(k, seq) ==
    LET v == Versions(Everything, k, seq)
    IN  IF v = {} \/ Newest(v).del THEN Missing ELSE Newest(v).seq

-----------------------------------------------------------------------------
(* Writes *)

\* The leader numbers its group and releases mu_, ...
StartGroup(ops) ==
    /\ group = <<>>
    /\ last_sequence_ + Len(ops) <= MaxSeq
    /\ last_sequence_' = last_sequence_ + Len(ops)
    /\ group' = [i \in DOMAIN ops |->
                   [key |-> ops[i].key, seq |-> last_sequence_ + i,
                    del |-> ops[i].del]]
    /\ UNCHANGED <<tree, snapshots_, job, late, written>>

\* ... and MemTable::Add inserts one entry after the other.
Insert ==
    /\ group # <<>>
    /\ mem_' = mem_ \cup {Head(group)}
    /\ written' = written \cup {Head(group)}
    /\ group' = Tail(group)
    /\ late' = IF group' = <<>> THEN {} ELSE late
    /\ UNCHANGED <<imm_, levels, compact_pointer_, last_sequence_, snapshots_,
                   job>>

\* MakeRoomForWrite or FlushMemTable, between two groups.
Rotate ==
    /\ group = <<>>
    /\ mem_ # {}
    /\ imm_ = {}
    /\ imm_' = mem_
    /\ mem_' = {}
    /\ UNCHANGED <<levels, compact_pointer_, last_sequence_, snapshots_, group,
                   job, late, written>>

-----------------------------------------------------------------------------
(* Snapshots *)

GetSnapshot(s) ==
    /\ s \notin DOMAIN snapshots_
    /\ snapshots_' = [p \in DOMAIN snapshots_ \cup {s} |->
                        IF p = s THEN last_sequence_ ELSE snapshots_[p]]
    /\ late' = IF group # <<>> THEN late \cup {s} ELSE late
    /\ UNCHANGED <<tree, last_sequence_, group, job, written>>

\* Mutant: the snapshots are kept by their numbers.
ReleaseSnapshotEqual(s) ==
    /\ s \in DOMAIN snapshots_
    /\ snapshots_' = [p \in {q \in DOMAIN snapshots_ :
                               snapshots_[q] # snapshots_[s]} |-> snapshots_[p]]
    /\ late' = late \cap DOMAIN snapshots_'
    /\ UNCHANGED <<tree, last_sequence_, group, job, written>>

ReleaseSnapshot(s) ==
    /\ s \in DOMAIN snapshots_
    /\ snapshots_' = [p \in DOMAIN snapshots_ \ {s} |-> snapshots_[p]]
    /\ late' = late \ {s}
    /\ UNCHANGED <<tree, last_sequence_, group, job, written>>

Pinned == {snapshots_[s] : s \in DOMAIN snapshots_}

\* Mutant: the snapshots do not hold anything back.
SmallestSnapshotLast == last_sequence_

SmallestSnapshot == Min(Pinned \cup {last_sequence_})

-----------------------------------------------------------------------------
(* Flush and compaction *)

\* Mutant: a version hides itself.
HiddenFromEveryoneElse(e, S, smallest) ==
    \E f \in S : f.key = e.key /\ f.seq >= e.seq /\ f.seq <= smallest

\* The merge has already written, or dropped, a newer version of e that every
\* live snapshot can see.
HiddenFromEveryone(e, S, smallest) ==
    \E f \in S : f.key = e.key /\ f.seq > e.seq /\ f.seq <= smallest

\* What a flush writes.
Collapse(S, smallest) == {e \in S : ~HiddenFromEveryone(e, S, smallest)}

\* A tombstone that has nothing left to hide.
Droppable(e, bottom_most, smallest) ==
    e.del /\ bottom_most /\ e.seq <= smallest

\* What a compaction writes.
Merge(S, bottom_most, smallest) ==
    {e \in Collapse(S, smallest) : ~Droppable(e, bottom_most, smallest)}

\* Whether a new table is started at k: none is open, or the one that is open
\* has reached its size.
StartsTable(k, S, firsts) ==
    LET open == {e \in S : e.key < k /\ \A b \in firsts : b < k => b <= e.key}
    IN  open = {} \/ Cardinality(open) >= target_file_size

\* Mutant: a table is cut between two versions of a key.
TablesOfOne(S, firsts) == {{e} : e \in S}

\* The tables that start at these keys.
Tables(S, firsts) ==
    {{e \in S : b <= e.key /\ \A c \in firsts : c <= e.key => c <= b} :
        b \in firsts}

\* The merged entries in tables, cut only where a new key starts.
Cuts(S) ==
    {Tables(S, firsts) : firsts \in
        {F \in SUBSET KeysOf(S) :
            \A k \in KeysOf(S) : k \in F <=> StartsTable(k, S, F)}}

FlushStart ==
    /\ job = NoJob
    /\ imm_ # {}
    /\ job' = [NoJob EXCEPT !.kind = "flush",
                   !.outputs = {Collapse(imm_, SmallestSnapshot)}]
    /\ UNCHANGED <<tree, last_sequence_, snapshots_, group, late, written>>

\* Mutant: the new table goes behind the older ones.
L0WithLast(files, t) == files \o <<t>>

L0With(files, t) == <<t>> \o files

FlushInstall ==
    /\ job.kind = "flush"
    /\ \E t \in job.outputs :
          levels' = [levels EXCEPT ![0] = L0With(@, t)]
    /\ imm_' = {}
    /\ job' = NoJob
    /\ UNCHANGED <<mem_, compact_pointer_, last_sequence_, snapshots_, group,
                   late, written>>

\* The level most over its budget, L0 first; none when it is empty.
OverBudget == {l \in 1..(kNumLevels - 2) : LevelBytes(l) > MaxBytesForLevel(l)}
ScoresAbove(a, b) ==
    LevelBytes(a) * MaxBytesForLevel(b) > LevelBytes(b) * MaxBytesForLevel(a)

PickCompactionLevel ==
    IF Len(levels[0]) >= l0_compaction_trigger THEN {0}
    ELSE {l \in OverBudget : \A m \in OverBudget :
             ~ScoresAbove(m, l) /\ (m < l => ScoresAbove(l, m))}

\* The table after the one compacted last, round the level.
Chosen(l) ==
    LET files == levels[l]
        next == {i \in DOMAIN files : Largest(files[i]) > compact_pointer_[l]}
    IN  IF next = {} THEN files[1] ELSE files[Min(next)]

\* The tables of level l that hold keys in the range of S.
Overlapping(l, S) ==
    {t \in Range(levels[l]) : RangesOverlap(t, SmallestKey(S), LargestKey(S))}

BottomMost(l) == \A m \in (l + 2)..(kNumLevels - 1) : levels[m] = <<>>

CompactStart(l) ==
    LET inputs0 == IF l = 0 THEN Range(levels[0]) ELSE {Chosen(l)}
        inputs == inputs0 \cup Overlapping(l + 1, UNION inputs0)
        merged == Merge(UNION inputs, BottomMost(l), SmallestSnapshot)
    IN  /\ job = NoJob
        /\ imm_ = {}
        /\ l \in PickCompactionLevel
        /\ levels[l] # <<>>
        /\ compact_pointer_' =
              IF l = 0 THEN compact_pointer_
              ELSE [compact_pointer_ EXCEPT ![l] = Largest(Chosen(l))]
        /\ \E outputs \in Cuts(merged) :
              job' = [kind |-> "compact", level |-> l, inputs |-> inputs,
                      outputs |-> outputs]
        /\ UNCHANGED <<mem_, imm_, levels, last_sequence_, snapshots_, group,
                       late, written>>

\* The elements of T in the order of their ranks.
InOrder(T, rank) ==
    [n \in 1..Cardinality(T) |->
        CHOOSE t \in T : Cardinality({u \in T : rank[u] <= rank[t]}) = n]

Without(files, inputs) ==
    LET left == {i \in DOMAIN files : files[i] \notin inputs}
        order == InOrder(left, [i \in left |-> i])
    IN  [n \in 1..Cardinality(left) |-> files[order[n]]]

BySmallest(T) == InOrder(T, [t \in T |-> Smallest(t)])

\* The inputs go, the outputs are sorted into the next level.
CompactInstall ==
    /\ job.kind = "compact"
    /\ levels' = [levels EXCEPT
          ![job.level] = Without(@, job.inputs),
          ![job.level + 1] =
              BySmallest(Range(Without(@, job.inputs)) \cup job.outputs)]
    /\ job' = NoJob
    /\ UNCHANGED <<mem_, imm_, compact_pointer_, last_sequence_, snapshots_,
                   group, late, written>>

-----------------------------------------------------------------------------
Background ==
    \/ FlushStart \/ FlushInstall
    \/ \E l \in Levels : CompactStart(l)
    \/ CompactInstall

Ops == [key : Keys, del : BOOLEAN]
Batches == UNION {[1..n -> Ops] : n \in 1..MaxBatch}

Next ==
    \/ \E ops \in Batches : StartGroup(ops)
    \/ Insert
    \/ Rotate
    \/ \E s \in Snaps : GetSnapshot(s) \/ ReleaseSnapshot(s)
    \/ Background

Spec == Init /\ [][Next]_vars

-----------------------------------------------------------------------------
(* Properties *)

\* The types of the variables.
TypeOK ==
    /\ mem_ \subseteq Entry /\ imm_ \subseteq Entry /\ written \subseteq Entry
    /\ \A l \in Levels : \A t \in Range(levels[l]) : t \subseteq Entry /\ t # {}
    /\ last_sequence_ \in 0..MaxSeq
    /\ DOMAIN snapshots_ \subseteq Snaps /\ Pinned \subseteq 0..last_sequence_
    /\ Range(group) \subseteq Entry
    /\ job.kind \in {"none", "flush", "compact"} /\ job.level \in Levels
    /\ late \subseteq DOMAIN snapshots_

\* What a read at seq must find: the newest version ever written up to seq.
Expected(k, seq) ==
    LET v == Versions(written, k, seq)
    IN  IF v = {} \/ Newest(v).del THEN Missing ELSE Newest(v).seq

\* Get, with its search from new to old and its one table per level, and a
\* scan find the newest version of every key, now and through every live
\* snapshot, whatever flushes and compactions dropped or moved.
ReadsNewest ==
    \A k \in Keys : \A seq \in Pinned \cup {last_sequence_} :
        /\ Get(k, seq) = Expected(k, seq)
        /\ Scan(k, seq) = Expected(k, seq)

\* Below L0 the tables of a level are sorted and share no user key, which the
\* binary search of Get and LevelIterator rely on.
LevelsDisjoint ==
    \A l \in Levels \ {0} : \A i, j \in DOMAIN levels[l] :
        i < j => LargestKey(levels[l][i]) < SmallestKey(levels[l][j])

\* For every key, what a source holds is newer than what any later one holds.
NewerAbove ==
    \A k \in Keys :
        LET s == Sources(k)
        IN  \A i, j \in DOMAIN s : i < j =>
               \A e \in s[i], f \in s[j] :
                  (e.key = k /\ f.key = k) => e.seq > f.seq

Promise == INSTANCE KVStore WITH
    Values <- 1..MaxSeq,
    store <- [k \in Keys |-> Get(k, last_sequence_)],
    pins <- [s \in DOMAIN snapshots_ |->
               [k \in Keys |-> Get(k, snapshots_[s])]],
    busy <- group # <<>>

\* The tree implements a map with snapshots: rotation, flush and compaction
\* change no read, and a snapshot changes by no write after its own.
IsKVStore == Promise!Spec

\* db.h of GetSnapshot: "Reads passing this in ReadOptions see the database as
\* of this call, whatever happens afterwards."
SnapshotFrozen ==
    [][\A s \in DOMAIN snapshots_ \cap DOMAIN snapshots_' : \A k \in Keys :
          Get(k, snapshots_[s]) = Get(k, snapshots_[s])']_vars

=============================================================================
