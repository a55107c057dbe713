-------------------------------- MODULE Table --------------------------------
(***************************************************************************)
(* The table file of lsm::DB: what BlockBuilder and TableBuilder lay down, *)
(* with every write that may fail, and what Table::Open, BlockReader and   *)
(* Table::Get find in it.                                                  *)
(* Source: src/src/block.cpp, src/src/sstable.cpp and                      *)
(* src/include/lsm/internal_key.h.                                         *)
(*                                                                         *)
(* An internal key is the sequence of its bytes, the last of which stands  *)
(* for the tag; a value is the number of its entry.  An entry is one unit  *)
(* of a block, so that an offset counts entries; in sizes, each of the     *)
(* three numbers of its header counts one, and so does its value.          *)
(***************************************************************************)
EXTENDS Integers, Sequences, FiniteSets, Bloom
LOCAL INSTANCE SequencesExt

CONSTANTS
    InternalKeys,       \* internal keys that a table may hold
    Intervals,          \* values of block_restart_interval
    BlockSizes,         \* values of block_size_bytes
    Hashes,             \* functions that BloomHash may be on the user keys
    MaxEntries          \* bound: entries of a table

ASSUME TableAssumption ==
    /\ InternalKeys \subseteq Seq(Nat) \ {<<>>}
    /\ Intervals \subseteq Nat /\ BlockSizes \subseteq Nat
    /\ MaxEntries \in Nat

VARIABLES
    options_,           \* [interval, size, bits_per_key]
    BloomHash,
    keys,               \* what the caller has added
    builder,            \* TableBuilder: [pc, block_, index_block_, finished_]
    file                \* the file: [exists, blocks, filter, index, footer]

vars == <<options_, BloomHash, keys, builder, file>>

UserKey(k) == Front(k)
Tag(k) == Last(k)

BytesLess(a, b) ==
    \/ IsStrictPrefix(a, b)
    \/ \E i \in DOMAIN a \cap DOMAIN b :
          a[i] < b[i] /\ SubSeq(a, 1, i - 1) = SubSeq(b, 1, i - 1)

\* CompareInternalKey(a, b) < 0.
KeyLess(a, b) ==
    \/ BytesLess(UserKey(a), UserKey(b))
    \/ UserKey(a) = UserKey(b) /\ Tag(a) > Tag(b)

-----------------------------------------------------------------------------
(* BlockBuilder *)

EmptyBlock == [entries |-> <<>>, restarts |-> <<0>>, last |-> <<>>, since |-> 0]

SharedPrefix(a, b) == Len(LongestCommonPrefix({a, b}))

RestartsNow(b, interval) ==
    b.since >= IF interval < 1 THEN 1 ELSE interval

\* Mutant: an entry at a restart point still shares with the one before it.
AddSharing(b, interval, key, value) ==
    LET shared == SharedPrefix(b.last, key)
        restart == RestartsNow(b, interval)
    IN  [entries |-> Append(b.entries,
                        [shared |-> shared, value |-> value,
                         suffix |-> SubSeq(key, shared + 1, Len(key))]),
         restarts |-> IF restart THEN Append(b.restarts, Len(b.entries))
                      ELSE b.restarts,
         last |-> key, since |-> IF restart THEN 1 ELSE b.since + 1]

\* BlockBuilder::Add.
Add(b, interval, key, value) ==
    LET restart == RestartsNow(b, interval)
        shared == IF restart THEN 0 ELSE SharedPrefix(b.last, key)
    IN  [entries |-> Append(b.entries,
                        [shared |-> shared, value |-> value,
                         suffix |-> SubSeq(key, shared + 1, Len(key))]),
         restarts |-> IF restart THEN Append(b.restarts, Len(b.entries))
                      ELSE b.restarts,
         last |-> key, since |-> IF restart THEN 1 ELSE b.since + 1]

RECURSIVE EntriesSize(_)
EntriesSize(entries) ==
    IF entries = <<>> THEN 0
    ELSE 4 + Len(Head(entries).suffix) + EntriesSize(Tail(entries))

CurrentSizeEstimate(b) == EntriesSize(b.entries) + 4 * (Len(b.restarts) + 1)

-----------------------------------------------------------------------------
(* BlockReader: a cursor [next, key, value, valid, ok] over a block *)

\* The constructor rejects a malformed restart array.
BlockReader(b) ==
    [next |-> 0, key |-> <<>>, value |-> 0, valid |-> FALSE,
     ok |-> /\ b.restarts # <<>>
            /\ \A i \in DOMAIN b.restarts : b.restarts[i] <= Len(b.entries)]

ParseEntryAt(b, c, offset) ==
    IF offset >= Len(b.entries) THEN [c EXCEPT !.valid = FALSE]
    ELSE LET e == b.entries[offset + 1]
         IN  IF e.shared > Len(c.key)
             THEN [c EXCEPT !.valid = FALSE, !.ok = FALSE]
             ELSE [c EXCEPT !.valid = TRUE, !.next = offset + 1,
                            !.key = SubSeq(@, 1, e.shared) \o e.suffix,
                            !.value = e.value]

SeekToRestart(b, c, index) ==
    ParseEntryAt(b, [c EXCEPT !.key = <<>>], b.restarts[index + 1])

NextInBlock(b, c) == IF c.valid THEN ParseEntryAt(b, c, c.next) ELSE c

\* The loop of Seek over the restart points, then the cursor at the one it
\* ends with.
RECURSIVE SeekRestart(_, _, _, _, _)
SeekRestart(b, c, left, right, target) ==
    IF left >= right THEN SeekToRestart(b, c, left)
    ELSE LET mid == left + (right - left + 1) \div 2
             probe == SeekToRestart(b, c, mid)
         IN  IF ~probe.valid THEN probe
             ELSE IF KeyLess(probe.key, target)
             THEN SeekRestart(b, c, mid, right, target)
             ELSE SeekRestart(b, c, left, mid - 1, target)

RECURSIVE WalkTo(_, _, _)
WalkTo(b, c, target) ==
    IF c.valid /\ KeyLess(c.key, target)
    THEN WalkTo(b, NextInBlock(b, c), target)
    ELSE c

SeekInBlock(b, target) ==
    LET c == BlockReader(b)
    IN  IF ~c.ok THEN c
        ELSE WalkTo(b, SeekRestart(b, c, 0, Len(b.restarts) - 1, target), target)

-----------------------------------------------------------------------------
(* TableBuilder *)

EmptyFile == [exists |-> TRUE, blocks |-> <<>>, filter |-> <<>>,
              index |-> <<>>, footer |-> FALSE]

\* The constructor and Open.
Init ==
    /\ options_ \in [interval : Intervals, size : BlockSizes,
                     bits_per_key : BitsPerKey]
    /\ BloomHash \in Hashes
    /\ keys = <<>>
    /\ builder = [pc |-> "open", block_ |-> EmptyBlock, index_block_ |-> <<>>,
                  finished_ |-> FALSE]
    /\ file = EmptyFile

\* Mutant: the index entry of a block is its first key.
IndexEntryFirst(block) == block.entries[1].suffix

\* One index entry for each block: its largest key.
IndexEntry(block) == block.last

\* FlushDataBlock, which writes nothing for an empty block.
BlocksWith(block) ==
    IF block.entries = <<>> THEN file.blocks ELSE Append(file.blocks, block)

IndexWith(block) ==
    IF block.entries = <<>> THEN builder.index_block_
    ELSE Append(builder.index_block_, IndexEntry(block))

\* TableBuilder::Add, of keys in ascending order; the write of a full block
\* may fail.
AddEntry(key) ==
    LET block == Add(builder.block_, options_.interval, key, Len(keys) + 1)
        full == CurrentSizeEstimate(block) >= options_.size
    IN  /\ builder.pc = "open"
        /\ Len(keys) < MaxEntries
        /\ \A i \in DOMAIN keys : KeyLess(keys[i], key)
        /\ keys' = Append(keys, key)
        /\ \/ /\ ~full
              /\ builder' = [builder EXCEPT !.block_ = block]
              /\ UNCHANGED file
           \/ /\ full
              /\ builder' = [builder EXCEPT !.block_ = EmptyBlock,
                                            !.index_block_ = IndexWith(block)]
              /\ file' = [file EXCEPT !.blocks = BlocksWith(block)]
           \/ /\ full
              /\ builder' = [builder EXCEPT !.pc = "failed",
                                            !.block_ = EmptyBlock]
              /\ UNCHANGED file
        /\ UNCHANGED <<options_, BloomHash>>

Filter ==
    BuildFilter(BloomHash, {UserKey(keys[i]) : i \in DOMAIN keys}, Len(keys),
                options_.bits_per_key)

\* TableBuilder::Finish: the last block, the filter, the index, the footer,
\* the fsync and the close, of which the first "done" succeed.
Finish(done) ==
    /\ builder.pc = "open"
    /\ file' = [file EXCEPT
                   !.blocks = IF done >= 1 THEN BlocksWith(builder.block_) ELSE @,
                   !.filter = IF done >= 2 THEN Filter ELSE @,
                   !.index = IF done >= 3 THEN IndexWith(builder.block_) ELSE @,
                   !.footer = done >= 4]
    /\ builder' = [builder EXCEPT !.finished_ = done >= 5,
                       !.pc = IF done = 6 THEN "done" ELSE "failed",
                       !.block_ = EmptyBlock,
                       !.index_block_ = IF done >= 1
                                        THEN IndexWith(builder.block_) ELSE @]
    /\ UNCHANGED <<options_, BloomHash, keys>>

\* TableBuilder::Abandon: after an error of Add or Finish, or when the caller
\* has met one of its own.
Abandon ==
    /\ builder.pc \in {"open", "failed"}
    /\ builder' = [builder EXCEPT !.pc = "abandoned"]
    /\ file' = [file EXCEPT !.exists = builder.finished_]
    /\ UNCHANGED <<options_, BloomHash, keys>>

Next ==
    \/ \E key \in InternalKeys : AddEntry(key)
    \/ \E done \in 0..6 : Finish(done)
    \/ Abandon

Spec == Init /\ [][Next]_vars

-----------------------------------------------------------------------------
(* Table *)

\* Table::Open, which checks the magic of the footer.
Opens == file.exists /\ file.footer

\* The first of the ascending keys that is not before the target, counted from
\* zero: the binary search of Table::Get, TableIterator and LevelIterator.
RECURSIVE FirstNotBefore(_, _, _, _)
FirstNotBefore(lasts, lo, hi, target) ==
    IF lo >= hi THEN lo
    ELSE LET mid == lo + (hi - lo) \div 2
         IN  IF KeyLess(lasts[mid + 1], target)
             THEN FirstNotBefore(lasts, mid + 1, hi, target)
             ELSE FirstNotBefore(lasts, lo, mid, target)

NotHere == [found |-> FALSE]
Found(key, value) == [found |-> TRUE, key |-> key, value |-> value]

\* Table::Get, with every block readable.
TableGet(target) ==
    LET lo == FirstNotBefore(file.index, 0, Len(file.index), target)
        c == SeekInBlock(file.blocks[lo + 1], target)
    IN  IF ~MayContain(file.filter, BloomHash, UserKey(target)) THEN NotHere
        ELSE IF lo >= Len(file.index) THEN NotHere
        ELSE IF ~c.ok THEN Found(<<>>, 0)
        ELSE IF ~c.valid \/ UserKey(c.key) # UserKey(target) THEN NotHere
        ELSE Found(c.key, c.value)

-----------------------------------------------------------------------------
(* Properties *)

RECURSIVE ReadAll(_, _)
ReadAll(b, c) ==
    IF c.valid THEN <<c.key>> \o ReadAll(b, NextInBlock(b, c)) ELSE <<>>

\* The entries of a block that was begun with the first-th one.
KeysOf(b, first) == SubSeq(keys, first, first + Len(b.entries) - 1)

\* A block, whatever its keys share and wherever its restart points fall, is
\* read back entry for entry, and Seek stands at the first entry that is not
\* before the target: the one TableBuilder numbered so.
BlockFaithful ==
    \A b \in (ToSet(file.blocks) \cup {builder.block_}) \ {EmptyBlock} :
        LET first == b.entries[1].value
            own == KeysOf(b, first)
        IN  /\ ReadAll(b, SeekToRestart(b, BlockReader(b), 0)) = own
            /\ \A target \in InternalKeys :
                  LET c == SeekInBlock(b, target)
                      rest == {i \in DOMAIN own : ~KeyLess(own[i], target)}
                      at == c.value - first + 1
                  IN  /\ c.ok
                      /\ c.valid <=> rest # {}
                      /\ c.valid => /\ at \in rest /\ \A i \in rest : at <= i
                                    /\ c.key = own[at]

\* sstable.cpp: "a table is either fully readable or is rejected at open".  In
\* a file that opens, wherever its builder failed, Table::Get finds the newest
\* version of a key that is not newer than the sequence number asked for, in
\* the one block its index search selects: also where the versions of a key
\* fall into two blocks.  What Finish has reported as written opens.
TableGetFaithful ==
    /\ builder.pc = "done" => Opens
    /\ Opens =>
        \A target \in InternalKeys :
            LET got == TableGet(target)
                visible == {i \in DOMAIN keys :
                              /\ UserKey(keys[i]) = UserKey(target)
                              /\ ~KeyLess(keys[i], target)}
            IN  /\ got.found <=> visible # {}
                /\ got.found => /\ got.value \in visible
                                /\ \A i \in visible : got.value <= i

\* bloom.h: "false negatives would be a correctness bug and cannot happen".
\* The filter of a table that opens lets every key of the table pass, whatever
\* the hash function and the size of the filter.
NoFalseNegative ==
    Opens => \A i \in DOMAIN keys :
                MayContain(file.filter, BloomHash, UserKey(keys[i]))

=============================================================================
