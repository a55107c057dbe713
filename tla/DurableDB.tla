------------------------------ MODULE DurableDB ------------------------------
(***************************************************************************)
(* The durability protocol of lsm::DB: what a write leaves in the log, how *)
(* memtables, logs, SSTables and the manifest hand one another            *)
(* responsibility for it, and what Recover() finds after a crash at any    *)
(* point of that hand-over.  Source: src/src/db.cpp, src/src/wal.cpp and   *)
(* the file half of src/src/sstable.cpp.                                   *)
(*                                                                         *)
(* Data.  A write is its sequence number.  A memtable is the set of the    *)
(* writes inserted in it; a log is the sequence of its records; an SSTable *)
(* is the set of writes it accounts for ("covers"): a version that a flush *)
(* or a compaction drops because a newer one shadows it is accounted for   *)
(* by the table that holds the newer one.  Which versions may be dropped   *)
(* is the subject of the module LsmTree.  Levels below L0 are one set of   *)
(* tables, "deep".                                                         *)
(*                                                                         *)
(* Threads.  A step is what runs between two points where mu_ is released  *)
(* or the file system is reached: the leader of the write queue, the       *)
(* background thread (options_.background_compaction is on), and Recover() *)
(* alone before either exists.                                             *)
(***************************************************************************)
EXTENDS Integers, Sequences, FiniteSets

CONSTANTS
    MaxSeq,          \* bound: sequence numbers 1..MaxSeq are handed out
    MaxFile,         \* bound: file numbers stay below MaxFile
    MaxFaults,       \* bound: crashes, failed rotations and failed unlinks
    MaxGroup,        \* bound: entries of one write group
    MemCapacity,     \* entries after which memtable_size_bytes is exceeded
    L0Trigger,       \* options_.l0_compaction_trigger
    SyncPolicy,      \* options_.sync_policy
    IOErrors,        \* whether write, fsync, open and rename may fail
    UnlinkMayFail,   \* whether unlink may fail (its result is not looked at)
    PowerLoss,       \* whether the machine may lose power
    FsyncCoversDir,  \* whether fsync of a file also makes its name durable
    FlushRaces       \* whether FlushMemTable may run while a group is written

ASSUME DurableDBAssumption ==
    /\ MaxSeq \in Nat
    /\ MaxFile \in Nat
    /\ MaxFaults \in Nat
    /\ MaxGroup \in Nat \ {0}
    /\ MemCapacity \in Nat \ {0}
    /\ L0Trigger \in Nat \ {0}
    /\ SyncPolicy \in {"kEveryWrite", "kInterval", "kNever"}
    /\ IOErrors \in BOOLEAN
    /\ UnlinkMayFail \in BOOLEAN
    /\ PowerLoss \in BOOLEAN
    /\ FsyncCoversDir \in BOOLEAN
    /\ FlushRaces \in BOOLEAN

VARIABLES
    \* Memory of the process, lost in every crash.
    status,             \* which part of DB::Open, or of the life after it
    mem_,               \* writes in the active memtable
    imm_,               \* writes in the immutable one; {} is nullptr
    current_,           \* the installed Version
    log_number_,
    imm_log_number_,
    next_file_number_,
    last_sequence_,
    bg_error_,
    leader,             \* the writer at the front of the queue
    job,                \* the flush, compaction or commit in flight
    \* The file system.
    logs,               \* log files, by number
    tables,             \* .sst files, by number
    manifest,           \* what MANIFEST holds for a process that reads it
    survivors,          \* what MANIFEST may hold after a power loss
    \* History, for the properties.
    acked,              \* writes that returned OK and must not be lost
    promised,           \* those of them a power loss must not take either
    faults              \* crashes, failed rotations and unlinks so far

memory == <<status, mem_, imm_, current_, log_number_, imm_log_number_,
            next_file_number_, last_sequence_, bg_error_, leader, job>>
disk == <<logs, tables, manifest, survivors>>
history == <<acked, promised, faults>>
vars == <<memory, disk, history>>

-----------------------------------------------------------------------------
(* Files, versions and manifests *)

\* Whether a file's name is in the directory for good: created and not yet
\* synced, synced, or unlinked and not yet synced.
Entries == {"volatile", "durable", "unlinked"}

Version == [l0 : SUBSET Nat, deep : SUBSET Nat]
Live(v) == v.l0 \cup v.deep

Record == [seqs : SUBSET Nat, ok : BOOLEAN]
LogFile == [recs : Seq(Record), synced : Nat, ent : Entries]
TableFile == [covers : SUBSET Nat, done : BOOLEAN, ent : Entries]
LogFiles(files) ==
    /\ DOMAIN files \in SUBSET Nat
    /\ \A n \in DOMAIN files : files[n] \in LogFile
TableFiles(files) ==
    /\ DOMAIN files \in SUBSET Nat
    /\ \A n \in DOMAIN files : files[n] \in TableFile
Manifest == [version : Version, log : Nat, next : Nat, seq : Nat]

Idle == [pc |-> "idle", seqs |-> {}, sync |-> FALSE]
Leader == [pc : {"idle", "append", "sync", "insert"}, seqs : SUBSET Nat,
           sync : BOOLEAN]

NoVersion == [l0 |-> {}, deep |-> {}]
NoManifest == [version |-> NoVersion, log |-> 0, next |-> 1, seq |-> 0]
NoJob == [kind |-> "none", pc |-> "idle", number |-> 0, target |-> NoManifest,
          doomedLogs |-> {}, doomedTables |-> {}]
Job == [kind : {"none", "flush", "compact", "open"},
        pc : {"idle", "build", "install", "rename", "dirsync", "list",
              "unlink"},
        number : Nat, target : Manifest,
        doomedLogs : SUBSET Nat, doomedTables : SUBSET Nat]

Create(files, n, f) ==
    [m \in DOMAIN files \cup {n} |-> IF m = n THEN f ELSE files[m]]
Without(files, S) == [m \in DOMAIN files \ S |-> files[m]]
Visible(files) == {n \in DOMAIN files : files[n].ent # "unlinked"}
NewLogFile == [recs |-> <<>>, synced |-> 0, ent |-> "volatile"]
NewTableFile == [covers |-> {}, done |-> FALSE, ent |-> "volatile"]

\* A file's entry once the file itself has been fsynced.
Fsynced(ent) == IF FsyncCoversDir THEN "durable" ELSE ent

MaxOf(S) == CHOOSE m \in S : \A n \in S : n <= m

\* The writes WalReader::Replay hands back: every record up to the first one
\* that is cut short or fails its checksum.  Assumed: what is in a log of
\* its header and of all records but such a last one is what was written.
\* Replay's other outcome, a Corruption for a foreign header or for a record
\* that passes its checksum and is no batch, fails Open and is not modelled.
Replay(recs) ==
    UNION {recs[i].seqs : i \in {j \in DOMAIN recs :
                                    \A k \in 1..j : recs[k].ok}}

\* What Recover replays: the logs at or after the one the manifest names.
ReplayFrom(files, n) ==
    UNION {Replay(files[m].recs) : m \in {x \in Visible(files) : x >= n}}

\* A table Table::Open accepts: its name is there and its footer was written.
Readable(files, n) == n \in Visible(files) /\ files[n].done

Covers(files, v) ==
    UNION {files[n].covers : n \in {m \in Live(v) : Readable(files, m)}}

\* What a process that opened the directory now would recover.
Recoverable ==
    Covers(tables, manifest.version) \cup ReplayFrom(logs, manifest.log)

-----------------------------------------------------------------------------
Init ==
    /\ status = "down"
    /\ mem_ = {} /\ imm_ = {}
    /\ current_ = NoVersion
    /\ log_number_ = 0 /\ imm_log_number_ = 0
    /\ next_file_number_ = 1
    /\ last_sequence_ = 0
    /\ bg_error_ = FALSE
    /\ leader = Idle
    /\ job = NoJob
    /\ logs = [n \in {} |-> NewLogFile]
    /\ tables = [n \in {} |-> NewTableFile]
    /\ manifest = NoManifest
    /\ survivors = {NoManifest}
    /\ acked = {} /\ promised = {} /\ faults = 0

-----------------------------------------------------------------------------
(* The commit of a version: DB::WriteManifest, then RemoveObsoleteFiles *)

\* Mutant: names the first log after the ones that are needed.
OldestLiveLogNext(imm, immLog, log) == (IF imm # {} THEN immLog ELSE log) + 1

\* Mutant: an off-by-one, which wraps before the first log exists.
OldestLiveLogLess(imm, immLog, log) == (IF imm # {} THEN immLog ELSE log) - 1

\* DB::OldestLiveLog.
OldestLiveLog(imm, immLog, log) == IF imm # {} THEN immLog ELSE log

\* The commit that CommitVersion, or Recover, starts.
CommitOf(kind, version, log, next) ==
    [NoJob EXCEPT !.kind = kind, !.pc = "rename",
                  !.target = [version |-> version, log |-> log,
                              next |-> next, seq |-> last_sequence_]]

\* The temporary file is written, fsynced and renamed over MANIFEST.
RenameManifest ==
    /\ job.pc = "rename"
    /\ manifest' = job.target
    /\ survivors' = survivors \cup {job.target}
    /\ job' = [job EXCEPT !.pc = "dirsync"]
    /\ UNCHANGED <<status, mem_, imm_, current_, log_number_, imm_log_number_,
                   next_file_number_, last_sequence_, bg_error_, leader,
                   logs, tables, history>>

Settled(files) ==
    [n \in Visible(files) |-> [files[n] EXCEPT !.ent = "durable"]]

\* SyncDirectory: every name created or removed so far is so for good.
SyncDirectory ==
    /\ job.pc = "dirsync"
    /\ survivors' = {manifest}
    /\ logs' = Settled(logs)
    /\ tables' = Settled(tables)
    /\ job' = [job EXCEPT !.pc = "list"]
    /\ UNCHANGED <<status, mem_, imm_, current_, log_number_, imm_log_number_,
                   next_file_number_, last_sequence_, bg_error_, leader,
                   manifest, history>>

\* Mutant: one log too many is thought obsolete.
ObsoleteLogsInclusive(log) == {n \in Visible(logs) : n <= log}

ObsoleteLogs(log) == {n \in Visible(logs) : n < log}

\* Mutant: only L0 is looked up in the version.
ObsoleteTablesL0(version) == {n \in Visible(tables) : n \notin version.l0}

ObsoleteTables(version) == {n \in Visible(tables) : n \notin Live(version)}

\* RemoveObsoleteFiles reads the directory ...
ListObsolete ==
    /\ job.pc = "list"
    /\ job' = [job EXCEPT !.pc = "unlink",
                    !.doomedLogs = ObsoleteLogs(job.target.log),
                    !.doomedTables = ObsoleteTables(job.target.version)]
    /\ UNCHANGED <<status, mem_, imm_, current_, log_number_, imm_log_number_,
                   next_file_number_, last_sequence_, bg_error_, leader, disk,
                   history>>

\* An unlink, whose result is not looked at.
Unlink(files, n) == [files EXCEPT ![n] = [@ EXCEPT !.ent = "unlinked"]]
UnlinkIn(files, files1, n) ==
    \/ files1 = Unlink(files, n) /\ faults' = faults
    \/ /\ UnlinkMayFail /\ files1 = files
       /\ faults < MaxFaults /\ faults' = faults + 1

\* ... and unlinks what it found, in the order the directory gave it.
UnlinkLog(n) ==
    /\ job.pc = "unlink"
    /\ n \in job.doomedLogs
    /\ UnlinkIn(logs, logs', n)
    /\ job' = [job EXCEPT !.doomedLogs = @ \ {n}]
    /\ UNCHANGED <<status, mem_, imm_, current_, log_number_, imm_log_number_,
                   next_file_number_, last_sequence_, bg_error_, leader,
                   tables, manifest, survivors, acked, promised>>

UnlinkTable(n) ==
    /\ job.pc = "unlink"
    /\ n \in job.doomedTables
    /\ UnlinkIn(tables, tables', n)
    /\ job' = [job EXCEPT !.doomedTables = @ \ {n}]
    /\ UNCHANGED <<status, mem_, imm_, current_, log_number_, imm_log_number_,
                   next_file_number_, last_sequence_, bg_error_, leader,
                   logs, manifest, survivors, acked, promised>>

\* Mutant: Recover does not go on after the commit of its flush.
CommitDoneStays ==
    /\ job.pc = "unlink"
    /\ job.doomedLogs = {} /\ job.doomedTables = {}
    /\ job' = NoJob
    /\ status' = IF status = "opening" THEN "open" ELSE status
    /\ UNCHANGED <<mem_, imm_, current_, log_number_, imm_log_number_,
                   next_file_number_, last_sequence_, bg_error_, leader, disk,
                   history>>

\* The committing thread goes on: Recover to its next stage, the background
\* thread to its next pass.
CommitDone ==
    /\ job.pc = "unlink"
    /\ job.doomedLogs = {} /\ job.doomedTables = {}
    /\ job' = NoJob
    /\ status' = CASE status = "flushing" -> "newlog"
                   [] status = "opening" -> "open"
                   [] OTHER -> status
    /\ UNCHANGED <<mem_, imm_, current_, log_number_, imm_log_number_,
                   next_file_number_, last_sequence_, bg_error_, leader, disk,
                   history>>

\* WriteManifest fails in the background thread, before or after the rename.
\* (In Recover a failure ends Open, which is Crash.)
CommitFails ==
    /\ IOErrors
    /\ status = "open"
    /\ job.pc \in {"rename", "dirsync"}
    /\ bg_error_' = TRUE
    /\ job' = NoJob
    /\ UNCHANGED <<status, mem_, imm_, current_, log_number_, imm_log_number_,
                   next_file_number_, last_sequence_, leader, disk, history>>

-----------------------------------------------------------------------------
(* DB::Recover *)

\* Mutant: trusts the manifest alone for the next file number.
NextFileNumberOfManifest == manifest.next

\* Recover bumps next_file_number_ past every file in the directory.
NextFileNumber ==
    MaxOf({manifest.next}
            \cup {n + 1 : n \in Visible(logs) \cup Visible(tables)})

\* Mutant: the sequence number of the manifest, whatever the logs hold.
LastSequenceOfManifest(replayed) == manifest.seq

LastSequence(replayed) == MaxOf({manifest.seq} \cup replayed)

\* LoadManifest opens every table it names, then the logs are replayed.
RecoverLoad ==
    /\ status = "down"
    /\ \A n \in Live(manifest.version) : Readable(tables, n)
    /\ LET replayed == ReplayFrom(logs, manifest.log)
       IN  /\ imm_' = replayed
           /\ last_sequence_' = LastSequence(replayed)
           /\ status' = IF replayed = {} THEN "newlog" ELSE "flushing"
    /\ next_file_number_' = NextFileNumber
    /\ current_' = manifest.version
    /\ UNCHANGED <<mem_, log_number_, imm_log_number_, bg_error_, leader, job,
                   disk, history>>

\* Recover opens a fresh log and starts the commit that names it.
RecoverOpenLog ==
    /\ status = "newlog"
    /\ next_file_number_ < MaxFile
    /\ logs' = Create(logs, next_file_number_, NewLogFile)
    /\ log_number_' = next_file_number_
    /\ next_file_number_' = next_file_number_ + 1
    /\ job' = CommitOf("open", current_,
                       OldestLiveLog(imm_, imm_log_number_, log_number_'),
                       next_file_number_')
    /\ status' = "opening"
    /\ UNCHANGED <<mem_, imm_, current_, imm_log_number_, last_sequence_,
                   bg_error_, leader, tables, manifest, survivors, history>>

-----------------------------------------------------------------------------
(* The background thread: FlushImmutableMemTable and DoCompaction.  The      *)
(* flush also runs in Recover, on what was replayed.                         *)

StartTable(kind, inputs) ==
    /\ next_file_number_ < MaxFile
    /\ job.pc = "idle"
    /\ tables' = Create(tables, next_file_number_, NewTableFile)
    /\ job' = [NoJob EXCEPT !.kind = kind, !.pc = "build",
                            !.number = next_file_number_,
                            !.target.version = inputs]
    /\ next_file_number_' = next_file_number_ + 1
    /\ UNCHANGED <<status, mem_, imm_, current_, log_number_, imm_log_number_,
                   last_sequence_, bg_error_, leader, logs, manifest,
                   survivors, history>>

\* Mutant: HasPendingWork looks for a level to compact and forgets imm_.
FlushStartWhenCompacting ==
    /\ status = "flushing" \/ Cardinality(current_.l0) >= L0Trigger
    /\ ~bg_error_
    /\ imm_ # {}
    /\ StartTable("flush", NoVersion)

FlushStart ==
    /\ status \in {"flushing", "open"}
    /\ ~bg_error_
    /\ imm_ # {}
    /\ StartTable("flush", NoVersion)

\* Mutant: an L0 compaction takes the newest table alone.
CompactStartNewest ==
    /\ status = "open"
    /\ ~bg_error_
    /\ imm_ = {}
    /\ Cardinality(current_.l0) >= L0Trigger
    /\ StartTable("compact", [l0 |-> {MaxOf(current_.l0)},
                              deep |-> current_.deep])

\* BackgroundWorkOnce compacts only when there is nothing to flush.  An L0
\* compaction takes all of L0 and the tables below it overlaps; a deeper one
\* takes tables of a level over its budget, sizes being a choice.  (Rewriting
\* a single table changes no more than its number and is left out.)
CompactStart ==
    /\ status = "open"
    /\ ~bg_error_
    /\ imm_ = {}
    /\ \E below \in SUBSET current_.deep :
          \/ /\ Cardinality(current_.l0) >= L0Trigger
             /\ StartTable("compact", [l0 |-> current_.l0, deep |-> below])
          \/ /\ Cardinality(current_.l0) < L0Trigger
             /\ Cardinality(below) >= 2
             /\ StartTable("compact", [l0 |-> {}, deep |-> below])

\* What the finished table accounts for.
BuiltFrom ==
    IF job.kind = "flush" THEN imm_ ELSE Covers(tables, job.target.version)

Finished(file, covers) ==
    [covers |-> covers, done |-> TRUE, ent |-> Fsynced(file.ent)]

\* TableBuilder::Finish: the footer is written and the file fsynced.
BuildTable ==
    /\ job.pc = "build"
    /\ tables' = [tables EXCEPT ![job.number] = Finished(@, BuiltFrom)]
    /\ job' = [job EXCEPT !.pc = "install"]
    /\ UNCHANGED <<status, mem_, imm_, current_, log_number_, imm_log_number_,
                   next_file_number_, last_sequence_, bg_error_, leader, logs,
                   manifest, survivors, history>>

\* The build fails: Abandon unlinks the table, or its Finish had succeeded
\* and what failed is reopening it.
BuildFails ==
    /\ IOErrors
    /\ status = "open"
    /\ \/ job.pc = "build" /\ tables' = Without(tables, {job.number})
       \/ job.pc = "install" /\ tables' = tables
    /\ bg_error_' = TRUE
    /\ job' = NoJob
    /\ UNCHANGED <<status, mem_, imm_, current_, log_number_, imm_log_number_,
                   next_file_number_, last_sequence_, leader, logs, manifest,
                   survivors, history>>

\* The flush hands imm_ over to the new table and commits the version.
FlushInstall ==
    /\ job.kind = "flush"
    /\ job.pc = "install"
    /\ current_' = [current_ EXCEPT !.l0 = @ \cup {job.number}]
    /\ imm_' = {}
    /\ imm_log_number_' = 0
    /\ job' = CommitOf("flush", current_',
                       OldestLiveLog(imm_', imm_log_number_', log_number_),
                       next_file_number_)
    /\ UNCHANGED <<status, mem_, log_number_, next_file_number_,
                   last_sequence_, bg_error_, leader, disk, history>>

\* Mutant: the inputs go, the output is not installed.
CompactedNoOutput(v, inputs, number) ==
    [l0 |-> v.l0 \ inputs.l0, deep |-> v.deep \ inputs.deep]

\* The version after a compaction: its inputs are replaced by its output.
Compacted(v, inputs, number) ==
    [l0 |-> v.l0 \ inputs.l0, deep |-> (v.deep \ inputs.deep) \cup {number}]

CompactInstall ==
    /\ job.kind = "compact"
    /\ job.pc = "install"
    /\ current_' = Compacted(current_, job.target.version, job.number)
    /\ job' = CommitOf("compact", current_',
                       OldestLiveLog(imm_, imm_log_number_, log_number_),
                       next_file_number_)
    /\ UNCHANGED <<status, mem_, imm_, log_number_, imm_log_number_,
                   next_file_number_, last_sequence_, bg_error_, leader, disk,
                   history>>

-----------------------------------------------------------------------------
(* The write path.  The leader of the queue writes one group at a time.      *)

\* A full memtable becomes immutable and a new log is opened.
SwitchMemTable ==
    /\ next_file_number_ < MaxFile
    /\ imm_ = {}
    /\ logs' = Create(logs, next_file_number_, NewLogFile)
    /\ next_file_number_' = next_file_number_ + 1
    /\ imm_log_number_' = log_number_
    /\ log_number_' = next_file_number_
    /\ imm_' = mem_
    /\ mem_' = {}
    /\ UNCHANGED <<status, current_, last_sequence_, bg_error_, leader, job,
                   tables, manifest, survivors, history>>

MemFull == Cardinality(mem_) >= MemCapacity

\* MakeRoomForWrite, called by the leader before it builds its group; while
\* imm_ is taken the leader waits, holding back the whole queue.
MakeRoomForWrite ==
    /\ status = "open"
    /\ leader.pc = "idle"
    /\ last_sequence_ < MaxSeq
    /\ ~bg_error_
    /\ MemFull
    /\ SwitchMemTable

\* WalWriter::Open of the new log fails, before or after it created the file:
\* the write returns the error.
MakeRoomFails ==
    /\ IOErrors
    /\ status = "open"
    /\ leader.pc = "idle"
    /\ ~bg_error_
    /\ MemFull
    /\ imm_ = {}
    /\ next_file_number_ < MaxFile
    /\ next_file_number_' = next_file_number_ + 1
    /\ \/ logs' = logs
       \/ logs' = Create(logs, next_file_number_, NewLogFile)
    /\ faults < MaxFaults
    /\ faults' = faults + 1
    /\ UNCHANGED <<status, mem_, imm_, current_, log_number_, imm_log_number_,
                   last_sequence_, bg_error_, leader, job, tables, manifest,
                   survivors, acked, promised>>

\* FlushMemTable rotates without joining the queue of writers.
FlushMemTable ==
    /\ status = "open"
    /\ leader.pc = "idle" \/ FlushRaces
    /\ ~bg_error_
    /\ mem_ # {}
    /\ SwitchMemTable

\* What ShouldSyncNow may answer; the clock of kInterval, and the wish of a
\* writer under the other policies, are a choice.
ShouldSyncNow == IF SyncPolicy = "kEveryWrite" THEN {TRUE} ELSE BOOLEAN

\* The leader takes the next sequence numbers and releases mu_.
WriteBegin(n, sync) ==
    /\ status = "open"
    /\ leader.pc = "idle"
    /\ ~bg_error_
    /\ ~MemFull
    /\ last_sequence_ + n <= MaxSeq
    /\ last_sequence_' = last_sequence_ + n
    /\ leader' = [pc |-> "append",
                  seqs |-> (last_sequence_ + 1)..(last_sequence_ + n),
                  sync |-> sync]
    /\ UNCHANGED <<status, mem_, imm_, current_, log_number_, imm_log_number_,
                   next_file_number_, bg_error_, job, disk, history>>

AppendTo(log, seqs, ok) ==
    [log EXCEPT !.recs = Append(@, [seqs |-> seqs, ok |-> ok])]

\* WalWriter::AddRecord.
AddRecord ==
    /\ leader.pc = "append"
    /\ logs' = [logs EXCEPT ![log_number_] = AppendTo(@, leader.seqs, TRUE)]
    /\ leader' = [leader EXCEPT !.pc = IF leader.sync THEN "sync"
                                       ELSE "insert"]
    /\ UNCHANGED <<status, mem_, imm_, current_, log_number_, imm_log_number_,
                   next_file_number_, last_sequence_, bg_error_, job, tables,
                   manifest, survivors, history>>

\* Mutant: the error goes to the writers of the group and is forgotten.
LatchNothing == bg_error_

\* Write: bg_error_ = s, so that nothing follows a torn record.
LatchError == TRUE

\* AddRecord fails part of the way; every writer of the group gets the error.
AddRecordFails ==
    /\ IOErrors
    /\ leader.pc = "append"
    /\ logs' = [logs EXCEPT ![log_number_] = AppendTo(@, leader.seqs, FALSE)]
    /\ bg_error_' = LatchError
    /\ leader' = Idle
    /\ UNCHANGED <<status, mem_, imm_, current_, log_number_, imm_log_number_,
                   next_file_number_, last_sequence_, job, tables, manifest,
                   survivors, history>>

Synced(log) == [log EXCEPT !.synced = Len(log.recs), !.ent = Fsynced(@)]

\* WalWriter::Sync.
SyncLog ==
    /\ leader.pc = "sync"
    /\ logs' = [logs EXCEPT ![log_number_] = Synced(@)]
    /\ leader' = [leader EXCEPT !.pc = "insert"]
    /\ UNCHANGED <<status, mem_, imm_, current_, log_number_, imm_log_number_,
                   next_file_number_, last_sequence_, bg_error_, job, tables,
                   manifest, survivors, history>>

SyncFails ==
    /\ IOErrors
    /\ leader.pc = "sync"
    /\ bg_error_' = LatchError
    /\ leader' = Idle
    /\ UNCHANGED <<status, mem_, imm_, current_, log_number_, imm_log_number_,
                   next_file_number_, last_sequence_, job, disk, history>>

\* The group enters mem_, and its writers return OK.
InsertAndRetire ==
    /\ leader.pc = "insert"
    /\ mem_' = mem_ \cup leader.seqs
    /\ acked' = acked \cup leader.seqs
    /\ promised' = IF leader.sync THEN promised \cup leader.seqs ELSE promised
    /\ leader' = Idle
    /\ UNCHANGED <<status, imm_, current_, log_number_, imm_log_number_,
                   next_file_number_, last_sequence_, bg_error_, job, disk,
                   faults>>

-----------------------------------------------------------------------------
(* Crashes *)

LoseMemory ==
    /\ status' = "down"
    /\ mem_' = {} /\ imm_' = {}
    /\ current_' = NoVersion
    /\ log_number_' = 0 /\ imm_log_number_' = 0
    /\ next_file_number_' = 1
    /\ last_sequence_' = 0
    /\ bg_error_' = FALSE
    /\ leader' = Idle
    /\ job' = NoJob
    /\ faults < MaxFaults
    /\ faults' = faults + 1

\* The process dies; what it handed to the kernel stays.  A record that was
\* being appended may be there in part.
Crash ==
    /\ status # "down"
    /\ LoseMemory
    /\ \/ logs' = logs
       \/ /\ leader.pc = "append"
          /\ logs' = [logs EXCEPT ![log_number_] =
                         AppendTo(@, leader.seqs, FALSE)]
    /\ UNCHANGED <<tables, manifest, survivors, acked, promised>>

CutLog(log, n) ==
    [recs |-> SubSeq(log.recs, 1, n), synced |-> n, ent |-> "durable"]
Certain(files) == {n \in DOMAIN files : files[n].ent = "durable"}

\* The machine dies.  Of a log its synced records stay and any further prefix
\* of it may; a name created or removed since the last directory sync may be
\* there or not; MANIFEST is one of the survivors.  Only writes that were
\* synced are promised to be there.
PowerFail ==
    /\ PowerLoss
    /\ LoseMemory
    /\ \E L \in SUBSET (DOMAIN logs \ Certain(logs)) :
         \E cut \in [Certain(logs) \cup L -> 0..MaxSeq] :
           /\ \A n \in DOMAIN cut :
                 cut[n] \in logs[n].synced..Len(logs[n].recs)
           /\ logs' = [n \in DOMAIN cut |-> CutLog(logs[n], cut[n])]
    /\ \E T \in SUBSET (DOMAIN tables \ Certain(tables)) :
         tables' = [n \in Certain(tables) \cup T |->
                       [tables[n] EXCEPT !.ent = "durable"]]
    /\ \E m \in survivors : manifest' = m /\ survivors' = {m}
    /\ acked' = promised
    /\ promised' = promised

-----------------------------------------------------------------------------
Commit ==
    \/ RenameManifest
    \/ SyncDirectory
    \/ ListObsolete
    \/ \E n \in job.doomedLogs : UnlinkLog(n)
    \/ \E n \in job.doomedTables : UnlinkTable(n)
    \/ CommitDone
    \/ CommitFails

Recover ==
    \/ RecoverLoad
    \/ RecoverOpenLog

Background ==
    \/ FlushStart
    \/ CompactStart
    \/ BuildTable
    \/ BuildFails
    \/ FlushInstall
    \/ CompactInstall

Group ==
    \/ AddRecord
    \/ AddRecordFails
    \/ SyncLog
    \/ SyncFails
    \/ InsertAndRetire

Client ==
    \/ MakeRoomForWrite
    \/ MakeRoomFails
    \/ FlushMemTable
    \/ \E n \in 1..MaxGroup, sync \in ShouldSyncNow : WriteBegin(n, sync)

Next == Commit \/ Recover \/ Background \/ Group \/ Client \/ Crash \/ PowerFail

Spec == Init /\ [][Next]_vars

\* Every thread that has something to do runs on: Open, the background thread
\* and a leader that has taken its sequence numbers.
Fairness ==
    /\ WF_vars(Commit)
    /\ WF_vars(Recover)
    /\ WF_vars(Background)
    /\ WF_vars(Group)

FairSpec == Spec /\ Fairness

-----------------------------------------------------------------------------
(* Properties *)

\* The types of the variables: members, files and history.
TypeOK ==
    /\ status \in {"down", "flushing", "newlog", "opening", "open"}
    /\ mem_ \in SUBSET Nat /\ imm_ \in SUBSET Nat
    /\ current_ \in Version
    /\ log_number_ \in Nat /\ imm_log_number_ \in Nat
    /\ next_file_number_ \in Nat
    /\ last_sequence_ \in Nat
    /\ bg_error_ \in BOOLEAN
    /\ leader \in Leader
    /\ job \in Job
    /\ LogFiles(logs) /\ TableFiles(tables)
    /\ manifest \in Manifest
    /\ survivors \in SUBSET Manifest
    /\ acked \in SUBSET Nat /\ promised \in SUBSET Nat
    /\ faults \in Nat

\* Durability: whatever instant the process dies at, a write that returned OK
\* is in a table the manifest names or in the replayable part of a log that
\* Recover replays.  It rests on OldestLiveLog, on the order of CommitVersion
\* (manifest first, unlink after) and on the latch of bg_error_.
AckedRecoverable == acked \subseteq Recoverable

\* Where Get looks, one source after the other: mem_, imm_, the L0 tables by
\* descending number (the order LoadManifest sorts them in), the deeper ones.
\* A lookup stops at the first source that knows the key, so a write s in a
\* young source hides every t of an older one unless the young one has t too.
Hides(young, old, W) ==
    \E s \in young, t \in old \cap W : t > s /\ t \notin young

SearchHides(W) ==
    LET deep == UNION {tables[n].covers : n \in current_.deep}
        L0(n) == tables[n].covers
    IN  \/ Hides(mem_, imm_, W) \/ Hides(mem_, deep, W) \/ Hides(imm_, deep, W)
        \/ \E n \in current_.l0 :
              \/ Hides(mem_, L0(n), W) \/ Hides(imm_, L0(n), W)
              \/ \E m \in current_.l0 : m < n /\ Hides(L0(n), L0(m), W)
              \/ Hides(L0(n), deep, W)

\* Get's search order is a search from new to old, for every assignment of
\* keys to writes: no write is hidden behind an older one.  Recovery must not
\* land a log in a new L0 table when a later log is already in an older one.
NewestSourceFirst == ~SearchHides(Nat)

\* The same for acknowledged writes only: what returned OK is what Get finds.
AckedNotHidden == ~SearchHides(acked)

\* Once the database is open, no hand-over between memtable, flush and
\* compaction hides an acknowledged write from readers.
AckedReadable ==
    status = "open" =>
        acked \subseteq (mem_ \cup imm_ \cup Covers(tables, current_))

\* The manifest never names a table that is missing or unfinished, so Open
\* does not fail: RemoveObsoleteFiles and Abandon leave live tables alone.
ManifestTablesReadable ==
    \A n \in Live(manifest.version) : Readable(tables, n)

\* A sequence number is handed out once: the next ones are above every one
\* that recovery could bring back, however often a crash discards the counter
\* (Recover takes the maximum of the manifest and of what it replays).
SequencesNotReused ==
    status = "open" =>
        \A s \in Recoverable : s <= last_sequence_

\* A file is never created over an existing one: next_file_number_ is above
\* every number in the directory whenever a thread may use it.
FileNumbersFresh ==
    status # "down" =>
        \A n \in Visible(logs) \cup Visible(tables) : n < next_file_number_

\* Writes that are in the log and in no table yet: in a memtable, or on their
\* way from the leader's append to mem_.
InMemory ==
    mem_ \cup imm_ \cup IF leader.pc \in {"sync", "insert"} THEN leader.seqs ELSE {}

\* While the database is open, the manifest does not go back to a log it no
\* longer needed (as it does to the 0 of Recover's own flush), nor past a log
\* with records that are only in memory: whatever commit, rotation or unlink is
\* next, these can be replayed from the log it names on.  CommitVersion copies
\* OldestLiveLog before it releases mu_, so the copy may be old at the rename.
ManifestLogAdvances ==
    [][(status = "open" /\ status' = "open") =>
          /\ manifest.log <= manifest'.log
          /\ InMemory' \subseteq ReplayFrom(logs', manifest'.log)]_vars

\* An immutable memtable does not stay: its flush ends unless the background
\* error is latched or the process dies.
ImmFlushed ==
    (status = "open" /\ imm_ # {})
        ~> (imm_ = {} \/ bg_error_ \/ status = "down")

\* A database that is down comes up again: neither the order of recovery's
\* steps nor a crash inside recovery leaves a directory Open cannot finish on.
Reopens == (status = "down") ~> (status = "open")

=============================================================================
