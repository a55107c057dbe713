--------------------------- MODULE DurabilityInv ----------------------------
(***************************************************************************)
(* The steps of DurableDB keep IInv, the inductive invariant behind        *)
(* durability under crashes of the process.                                *)
(***************************************************************************)
EXTENDS DurabilityTypes

\* The limit includes the time the prover takes to prepare a step.
USE SMTT(30)

-----------------------------------------------------------------------------
(* What a step keeps of the files *)

\* The logs in S stay, and what can be replayed of them does not shrink.
LogsKept(f, g, S) ==
    \A n \in S \cap Visible(f) :
        n \in Visible(g) /\ Replay(f[n].recs) \subseteq Replay(g[n].recs)

\* The readable tables in S stay readable, with all they cover.
TablesKept(f, g, S) ==
    \A n \in S : Readable(f, n) =>
        Readable(g, n) /\ f[n].covers \subseteq g[n].covers

From(k) == {n \in Nat : n >= k}

-----------------------------------------------------------------------------
(* The first states and every step *)

LEMMA SafeInit == Init => IInv
<1> SUFFICES ASSUME Init PROVE IInv
  OBVIOUS
<1>1. TypeOK
  BY TypeInit DEF TypeInv
<1>2. /\ status = "down" /\ job = NoJob /\ job.pc = "idle" /\ acked = {}
      /\ Live(manifest.version) = {}
  BY DEF Init, NoJob, NoManifest, NoVersion, Live
<1> QED
  BY Zenon, <1>1, <1>2
    DEF IInv, Init, DownInv, TablesInv, AllReadable, CommitInv, Committing,
        Renamed, OpenInv, RecoverInv, FreshInv, FileNumbersFresh,
        AckedRecoverable

LEMMA SafeNext ==
    ASSUME NatWellOrdered, ~PowerLoss, ~FlushRaces
    PROVE  IInv /\ TypeInv /\ TypeInv' /\ [Next]_vars => IInv'
<1>ReplayFromKept.
    ASSUME NEW f, NEW g, NEW k \in Nat, LogFiles(f), LogFiles(g),
           LogsKept(f, g, From(k))
    PROVE  ReplayFrom(f, k) \subseteq ReplayFrom(g, k)
  <2> USE <1>ReplayFromKept
  <2>1. SUFFICES ASSUME NEW s \in ReplayFrom(f, k)
                 PROVE  s \in ReplayFrom(g, k)
    OBVIOUS
  <2>2. PICK n \in Visible(f) : n >= k /\ s \in Replay(f[n].recs)
    BY <2>1 DEF ReplayFrom
  <2>3. n \in From(k)
    BY <2>2 DEF Visible, LogFiles, From
  <2>4. n \in Visible(g) /\ s \in Replay(g[n].recs)
    BY <2>2, <2>3 DEF LogsKept
  <2> QED
    BY <2>2, <2>4 DEF ReplayFrom
<1>CoversKept.
    ASSUME NEW f, NEW g, NEW v, TablesKept(f, g, Live(v))
    PROVE  Covers(f, v) \subseteq Covers(g, v)
  <2> USE <1>CoversKept
  <2>1. SUFFICES ASSUME NEW s \in Covers(f, v) PROVE s \in Covers(g, v)
    OBVIOUS
  <2>2. PICK n \in Live(v) : Readable(f, n) /\ s \in f[n].covers
    BY <2>1 DEF Covers
  <2>3. Readable(g, n) /\ s \in g[n].covers
    BY <2>2 DEF TablesKept
  <2> QED
    BY <2>3 DEF Covers
\* Appending a record loses nothing of what can be replayed, and adds the
\* record's writes when it and all before it are whole.
<1>ReplayAppend.
    ASSUME NEW recs \in Seq(Record), NEW r \in Record
    PROVE  /\ Replay(recs) \subseteq Replay(Append(recs, r))
           /\ AllOk(recs) /\ r.ok =>
                 /\ r.seqs \subseteq Replay(Append(recs, r))
                 /\ AllOk(Append(recs, r))
  <2> USE <1>ReplayAppend
  <2> DEFINE more == Append(recs, r)
  <2>1. /\ DOMAIN recs = 1..Len(recs) /\ Len(recs) \in Nat
        /\ DOMAIN more = 1..(Len(recs) + 1)
        /\ \A i \in 1..Len(recs) : more[i] = recs[i]
        /\ more[Len(recs) + 1] = r
    OBVIOUS
  <2> HIDE DEF more
  <2>2. ASSUME NEW s \in Replay(recs) PROVE s \in Replay(more)
    <3>1. PICK j \in DOMAIN recs :
            s \in recs[j].seqs /\ \A k \in 1..j : recs[k].ok
      BY <2>2 DEF Replay
    <3>2. j \in DOMAIN more /\ s \in more[j].seqs
          /\ \A k \in 1..j : more[k].ok
      BY <2>1, <3>1
    <3> QED
      BY <3>2 DEF Replay
  <2>3. ASSUME AllOk(recs), r.ok
        PROVE  r.seqs \subseteq Replay(more) /\ AllOk(more)
    <3>1. \A i \in DOMAIN more : more[i].ok
      BY <2>1, <2>3 DEF AllOk
    <3>2. Len(recs) + 1 \in DOMAIN more
          /\ \A k \in 1..(Len(recs) + 1) : more[k].ok
      BY <2>1, <3>1
    <3>3. r.seqs \subseteq Replay(more)
      BY <2>1, <3>2 DEF Replay
    <3> QED
      BY <3>1, <3>3 DEF AllOk
  <2> QED
    BY <2>2, <2>3 DEF more
\* A new file under a number that is not in the directory.
<1>CreateKeeps.
    ASSUME NEW files, NEW n, n \notin Visible(files), NEW f,
           f.ent # "unlinked"
    PROVE  LET g == Create(files, n, f)
           IN  /\ Visible(g) = Visible(files) \cup {n}
               /\ g[n] = f
               /\ \A m \in Visible(files) : g[m] = files[m]
  BY <1>CreateKeeps DEF Create, Visible
<1>IInvFacts.
    ASSUME IInv
    PROVE  /\ TypeOK
           /\ LogFiles(logs) /\ TableFiles(tables)
           /\ job \in Job /\ leader \in Leader
           /\ log_number_ \in Nat /\ imm_log_number_ \in Nat
           /\ next_file_number_ \in Nat
           /\ manifest.log \in Nat /\ job.target.log \in Nat
           /\ Visible(logs) \subseteq Nat /\ Visible(tables) \subseteq Nat
  <2> USE <1>IInvFacts
  <2>1. TypeOK
    BY DEF IInv
  <2>2. manifest.log \in Nat /\ job.target.log \in Nat
    BY <2>1, JobFields DEF TypeOK, Manifest
  <2> QED
    BY Zenon, <2>1, <2>2 DEF TypeOK, LogFiles, TableFiles, Visible
\* While the manifest stays, what is acknowledged stays recoverable if no log
\* it names shrinks and no table it names goes.
<1>AckedFrame.
    ASSUME TypeOK, TypeOK', AckedRecoverable,
           acked' = acked, manifest' = manifest,
           LogsKept(logs, logs', From(manifest.log)),
           TablesKept(tables, tables', Live(manifest.version))
    PROVE  AckedRecoverable'
  <2> USE <1>AckedFrame
  <2>1. manifest.log \in Nat /\ LogFiles(logs) /\ LogFiles(logs')
    BY DEF TypeOK, Manifest
  <2>2. ReplayFrom(logs, manifest.log) \subseteq ReplayFrom(logs', manifest.log)
    BY <2>1, <1>ReplayFromKept
  <2>3. Covers(tables, manifest.version)
           \subseteq Covers(tables', manifest.version)
    BY <1>CoversKept
  <2> QED
    BY <2>2, <2>3 DEF AckedRecoverable, Recoverable
\* The same for the invariant of an open database, while memtables and version
\* stay.
<1>OpenFrame.
    ASSUME OpenInv, status' = status, mem_' = mem_, imm_' = imm_,
           current_' = current_, log_number_' = log_number_,
           imm_log_number_' = imm_log_number_, acked' = acked,
           status = "open" =>
              /\ Needed(log_number_) => Needed(log_number_)'
              /\ Needed(imm_log_number_) => Needed(imm_log_number_)'
              /\ LogsKept(logs, logs', {log_number_, imm_log_number_})
              /\ TablesKept(tables, tables', Live(current_))
              /\ (~bg_error_' \/ leader'.pc = "append")
                    => AllOk(logs'[log_number_].recs)
              /\ leader'.pc \in {"sync", "insert"} =>
                    leader'.seqs \subseteq Replay(logs'[log_number_].recs)
    PROVE  OpenInv'
  <2> USE <1>OpenFrame
  <2> SUFFICES ASSUME status = "open"
               PROVE  OpenInv'
    BY Zenon DEF OpenInv
  <2>1. Covers(tables, current_) \subseteq Covers(tables', current_)
    BY <1>CoversKept
  <2>2. log_number_ \in Visible(logs)
    BY Zenon DEF OpenInv, Needed
  <2>3. mem_ \subseteq Replay(logs'[log_number_].recs)
    BY Zenon, <2>2 DEF OpenInv, LogsKept
  <2>4. imm_ # {} => imm_log_number_ \in Visible(logs)
    BY Zenon DEF OpenInv, Needed
  <2>5. imm_ # {} => imm_ \subseteq Replay(logs'[imm_log_number_].recs)
    BY Zenon, <2>4 DEF OpenInv, LogsKept
  <2>6. Needed(log_number_)'
    BY DEF OpenInv
  <2>7. imm_ # {} => Needed(imm_log_number_)' /\ imm_log_number_ < log_number_
    BY DEF OpenInv
  <2>8. acked \subseteq (mem_ \cup imm_ \cup Covers(tables', current_))
    BY Zenon, <2>1 DEF OpenInv
  <2> QED
    BY Zenon, <2>3, <2>5, <2>6, <2>7, <2>8 DEF OpenInv
<1>KeptSame.
    ASSUME NEW f, NEW S
    PROVE  LogsKept(f, f, S) /\ TablesKept(f, f, S)
  BY <1>KeptSame DEF LogsKept, TablesKept
\* A record appended to log n.
<1>AppendKeeps.
    ASSUME LogFiles(logs), NEW n \in Visible(logs),
           NEW W \in SUBSET Nat, NEW ok \in BOOLEAN,
           logs' = [logs EXCEPT ![n] = AppendTo(logs[n], W, ok)]
    PROVE  /\ Visible(logs') = Visible(logs)
           /\ \A S : LogsKept(logs, logs', S)
           /\ AllOk(logs[n].recs) /\ ok =>
                 AllOk(logs'[n].recs) /\ W \subseteq Replay(logs'[n].recs)
  <2> USE <1>AppendKeeps
  <2> DEFINE r == [seqs |-> W, ok |-> ok]
  <2>1. n \in DOMAIN logs /\ logs[n] \in LogFile /\ logs[n].ent # "unlinked"
    BY DEF Visible, LogFiles
  <2>2. logs[n].recs \in Seq(Record) /\ r \in Record /\ r.ok = ok /\ r.seqs = W
    BY <2>1 DEF LogFile, Record
  <2>3. /\ AppendTo(logs[n], W, ok).recs = Append(logs[n].recs, r)
        /\ AppendTo(logs[n], W, ok).ent = logs[n].ent
    BY <2>1 DEF AppendTo, LogFile
  <2> HIDE DEF r
  <2>4. /\ logs'[n].recs = Append(logs[n].recs, r)
        /\ Visible(logs') = Visible(logs)
        /\ \A m \in Visible(logs) : m # n => logs'[m] = logs[m]
    BY Zenon, <2>1, <2>3 DEF Visible
  <2>5. /\ Replay(logs[n].recs) \subseteq Replay(logs'[n].recs)
        /\ AllOk(logs[n].recs) /\ r.ok =>
              /\ r.seqs \subseteq Replay(logs'[n].recs)
              /\ AllOk(logs'[n].recs)
    BY Zenon, <2>2, <2>4, <1>ReplayAppend
  <2>6. \A S : LogsKept(logs, logs', S)
    BY Zenon, <2>4, <2>5 DEF LogsKept
  <2> QED
    BY Zenon, <2>2, <2>4, <2>5, <2>6
<1>ReadableKept.
    ASSUME NEW f, NEW g, NEW S, TablesKept(f, g, S),
           \A n \in S : Readable(f, n)
    PROVE  \A n \in S : Readable(g, n)
  BY <1>ReadableKept DEF TablesKept
\* A group is written only while the database is open.
<1>LeaderOpen.
    ASSUME IInv, leader.pc # "idle"
    PROVE  status = "open"
  BY <1>LeaderOpen DEF IInv, TypeOK, DownInv, RecoverInv, Idle
\* A job runs only while the process is up, and not while Recover is about to
\* open its log.
<1>JobUp.
    ASSUME IInv, job.pc # "idle"
    PROVE  status # "down" /\ status # "newlog"
  <2>1. job # NoJob
    BY <1>JobUp DEF NoJob
  <2> QED
    BY Zenon, <1>JobUp, <2>1 DEF IInv, DownInv, RecoverInv
\* What Recover loads is what was recoverable: the tables the manifest names,
\* and the logs it replays into imm_.
<1>RecoverLoadSafe.
    ASSUME NatWellOrdered, IInv, TypeInv, TypeOK', RecoverLoad
    PROVE  SafeInv'
  <2> USE <1>RecoverLoadSafe
  <2> USE <1>IInvFacts
  <2>1. /\ status = "down" /\ current_' = manifest.version
        /\ imm_' = ReplayFrom(logs, manifest.log)
        /\ next_file_number_' = NextFileNumber
        /\ status' = IF imm_' = {} THEN "newlog" ELSE "flushing"
    BY ONLY RecoverLoad DEF RecoverLoad
  <2>2. UNCHANGED <<mem_, log_number_, imm_log_number_, bg_error_, leader, job,
                    logs, tables, manifest, acked>>
    BY ONLY RecoverLoad DEF RecoverLoad, disk, history
  <2>3. /\ mem_ = {} /\ log_number_ = 0 /\ imm_log_number_ = 0
        /\ bg_error_ = FALSE /\ leader = Idle /\ job = NoJob
    BY <2>1 DEF IInv, DownInv
  <2>4. job'.pc = "idle" /\ job'.kind = "none" /\ ~Committing' /\ ~Renamed'
    BY <2>2, <2>3 DEF NoJob, Committing, Renamed
  <2>5. status' \in {"newlog", "flushing"}
    BY <2>1
  <2>20. DownInv'
    BY ONLY <2>5 DEF DownInv
  <2>21. TablesInv'
    BY Zenon, <2>1, <2>2, <2>4 DEF IInv, TablesInv, AllReadable
  <2>22. CommitInv'
    BY <2>4 DEF CommitInv
  <2>23. OpenInv'
    BY <2>5 DEF OpenInv
  <2>24. RecoverInv'
    <3>1. acked \subseteq (imm_' \cup Covers(tables, current_'))
      BY <2>1 DEF IInv, AckedRecoverable, Recoverable
    <3>2. status' = "newlog" => imm_' = {}
      BY <2>1
    <3> QED
      BY <2>2, <2>3, <2>4, <2>5, <3>1, <3>2 DEF RecoverInv
  <2>25. FreshInv'
    <3>1. PICK b \in Nat : Bounded(b)
      BY DEF TypeInv
    <3>2. \A n \in Visible(logs) \cup Visible(tables) : n < NextFileNumber
      BY <3>1, RecoverMaxima
    <3> QED
      BY Zenon, <2>1, <2>2, <3>2 DEF FreshInv, FileNumbersFresh
  <2>26. AckedRecoverable'
    BY <2>2 DEF IInv, AckedRecoverable, Recoverable
  <2> QED
    BY <2>20, <2>21, <2>22, <2>23, <2>24, <2>25, <2>26 DEF SafeInv
<1>RecoverOpenLogSafe.
    ASSUME IInv, TypeInv, TypeOK', RecoverOpenLog
    PROVE  SafeInv'
  <2> USE <1>RecoverOpenLogSafe
  <2> USE <1>IInvFacts
  <2>1. /\ status = "newlog" /\ status' = "opening"
        /\ logs' = Create(logs, next_file_number_, NewLogFile)
        /\ log_number_' = next_file_number_
        /\ next_file_number_' = next_file_number_ + 1
    BY ONLY RecoverOpenLog DEF RecoverOpenLog
  <2>2. UNCHANGED <<mem_, imm_, current_, imm_log_number_, bg_error_, leader,
                    tables, manifest, acked>>
    BY ONLY RecoverOpenLog DEF RecoverOpenLog, history
  <2>3. /\ mem_ = {} /\ imm_ = {} /\ bg_error_ = FALSE /\ leader = Idle
        /\ acked \subseteq Covers(tables, current_)
    BY Zenon, <2>1 DEF IInv, RecoverInv
  <2>4. /\ job'.pc = "rename" /\ job'.target.version = current_
        /\ job'.target.log = next_file_number_
    BY Zenon, <2>1, <2>3 DEF RecoverOpenLog, CommitOf, OldestLiveLog, NoJob
  <2>5. next_file_number_ \notin Visible(logs)
    BY <2>1 DEF IInv, FreshInv, FileNumbersFresh
  <2>6. /\ Visible(logs') = Visible(logs) \cup {next_file_number_}
        /\ logs'[next_file_number_] = NewLogFile
        /\ \A m \in Visible(logs) : logs'[m] = logs[m]
    BY ONLY SMTT(30), <2>1, <2>5, <1>CreateKeeps DEF NewLogFile
  <2>7. Committing' /\ ~Renamed'
    BY <2>4 DEF Committing, Renamed
  <2>20. DownInv'
    BY ONLY <2>1 DEF DownInv
  <2>21. TablesInv'
    BY Zenon, <2>1, <2>2, <2>4 DEF IInv, TablesInv, AllReadable
  <2>22. CommitInv'
    BY <2>2, <2>4, <2>7 DEF CommitInv
  <2>23. OpenInv'
    BY Zenon, <2>1 DEF OpenInv
  <2>24. RecoverInv'
    <3>2. AllOk(logs'[log_number_'].recs)
      BY ONLY SMTT(30), <2>1, <2>6 DEF AllOk, NewLogFile
    <3> QED
      BY Zenon, <2>1, <2>2, <2>3, <2>4, <2>6, <2>7, <3>2 DEF RecoverInv
  <2>25. FreshInv'
    BY <2>1, <2>2, <2>6 DEF IInv, FreshInv, FileNumbersFresh
  <2>26. AckedRecoverable'
    <3>1. LogsKept(logs, logs', From(manifest.log))
      BY <2>6 DEF LogsKept
    <3> QED
      BY Zenon, <2>2, <3>1, <1>KeptSame, <1>AckedFrame DEF IInv
  <2> QED
    BY <2>20, <2>21, <2>22, <2>23, <2>24, <2>25, <2>26 DEF SafeInv
\* MakeRoomForWrite and FlushMemTable: the old log stays the log of imm_, and
\* the manifest, which is not past it, is not past the new one either.
<1>SwitchMemTableSafe.
    ASSUME IInv, TypeInv, TypeOK', status = "open", leader.pc = "idle",
           ~bg_error_, SwitchMemTable
    PROVE  SafeInv'
  <2> USE <1>SwitchMemTableSafe
  <2> USE <1>IInvFacts
  <2>1. /\ imm_ = {} /\ logs' = Create(logs, next_file_number_, NewLogFile)
        /\ next_file_number_' = next_file_number_ + 1
        /\ imm_log_number_' = log_number_ /\ log_number_' = next_file_number_
        /\ imm_' = mem_ /\ mem_' = {}
    BY ONLY SwitchMemTable DEF SwitchMemTable
  <2>2. UNCHANGED <<status, current_, bg_error_, leader, job, tables, manifest,
                    acked>>
    BY ONLY SwitchMemTable DEF SwitchMemTable, history
  <2>3. next_file_number_ \notin Visible(logs)
    BY DEF IInv, FreshInv, FileNumbersFresh
  <2>4. /\ Visible(logs') = Visible(logs) \cup {next_file_number_}
        /\ logs'[next_file_number_] = NewLogFile
        /\ \A m \in Visible(logs) : logs'[m] = logs[m]
    BY ONLY SMTT(30), <2>1, <2>3, <1>CreateKeeps DEF NewLogFile
  <2>5. Committing' <=> Committing
    BY <2>2 DEF Committing
  <2>6. Needed(log_number_) /\ log_number_ < next_file_number_
    BY Zenon DEF IInv, OpenInv, FreshInv, FileNumbersFresh, Needed
  <2>7. job.pc \in {"build", "install"} => job.kind # "flush"
    BY Zenon, <2>1 DEF IInv, TablesInv
  <2>20. DownInv'
    BY Zenon, <2>2 DEF DownInv
  <2>21. TablesInv'
    BY Zenon, <2>2, <2>7 DEF IInv, TablesInv, AllReadable
  <2>22. CommitInv'
    BY Zenon, <2>2, <2>5 DEF IInv, CommitInv, Renamed
  <2>23. OpenInv'
    <3>1. Needed(imm_log_number_)' /\ imm_log_number_' < log_number_'
      BY Zenon, <2>1, <2>2, <2>4, <2>5, <2>6 DEF Needed
    <3>2. Needed(log_number_)'
      BY <2>1, <2>2, <2>4, <2>5, <2>6 DEF Needed
    <3>3. imm_' \subseteq Replay(logs'[imm_log_number_'].recs)
      BY Zenon, <2>1, <2>4, <2>6 DEF IInv, OpenInv, Needed
    <3>4. AllOk(logs'[log_number_'].recs)
      BY ONLY SMTT(30), <2>1, <2>4 DEF AllOk, NewLogFile
    <3>5. acked \subseteq (mem_' \cup imm_' \cup Covers(tables, current_))
      BY Zenon, <2>1 DEF IInv, OpenInv
    <3> QED
      BY Zenon, <2>1, <2>2, <3>1, <3>2, <3>3, <3>4, <3>5 DEF OpenInv
  <2>24. RecoverInv'
    BY Zenon, <2>2 DEF RecoverInv
  <2>25. FreshInv'
    BY <2>1, <2>2, <2>4 DEF IInv, FreshInv, FileNumbersFresh
  <2>26. AckedRecoverable'
    <3>1. LogsKept(logs, logs', From(manifest.log))
      BY Zenon, <2>4 DEF LogsKept
    <3> QED
      BY Zenon, <2>2, <3>1, <1>KeptSame, <1>AckedFrame DEF IInv
  <2> QED
    BY <2>20, <2>21, <2>22, <2>23, <2>24, <2>25, <2>26 DEF SafeInv
<1>MakeRoomFailsSafe.
    ASSUME IInv, TypeInv, TypeOK', MakeRoomFails
    PROVE  SafeInv'
  <2> USE <1>MakeRoomFailsSafe
  <2> USE <1>IInvFacts
  <2>1. /\ status = "open"
        /\ next_file_number_' = next_file_number_ + 1
        /\ logs' = logs \/ logs' = Create(logs, next_file_number_, NewLogFile)
    BY ONLY MakeRoomFails DEF MakeRoomFails
  <2>2. UNCHANGED <<status, mem_, imm_, current_, log_number_, imm_log_number_,
                    bg_error_, leader, job, tables, manifest, acked>>
    BY ONLY MakeRoomFails DEF MakeRoomFails
  <2>3. next_file_number_ \notin Visible(logs)
    BY <2>1 DEF IInv, FreshInv, FileNumbersFresh
  <2>4. /\ Visible(logs) \subseteq Visible(logs')
        /\ Visible(logs') \subseteq Visible(logs) \cup {next_file_number_}
        /\ \A m \in Visible(logs) : logs'[m] = logs[m]
    BY ONLY SMTT(30), <2>1, <2>3, <1>CreateKeeps DEF NewLogFile
  <2>5. \A S : LogsKept(logs, logs', S)
    BY Zenon, <2>4 DEF LogsKept
  <2>6. Committing' <=> Committing
    BY <2>2 DEF Committing
  <2>20. DownInv'
    BY Zenon, <2>1, <2>2 DEF DownInv
  <2>21. TablesInv'
    BY Zenon, <2>2 DEF IInv, TablesInv, AllReadable
  <2>22. CommitInv'
    BY Zenon, <2>2, <2>6 DEF IInv, CommitInv, Renamed
  <2>23. OpenInv'
    <3>1. ASSUME NEW m, Needed(m) PROVE Needed(m)'
      BY Zenon, <2>2, <2>4, <2>6, <3>1 DEF Needed
    <3>2. log_number_ \in Visible(logs)
      BY Zenon, <2>1 DEF IInv, OpenInv, Needed
    <3>3. /\ (~bg_error_' \/ leader'.pc = "append")
                => AllOk(logs'[log_number_].recs)
          /\ leader'.pc \in {"sync", "insert"} =>
                leader'.seqs \subseteq Replay(logs'[log_number_].recs)
      BY Zenon, <2>1, <2>2, <2>4, <3>2 DEF IInv, OpenInv
    <3> QED
      BY ZenonT(40), <2>2, <2>5, <3>1, <3>3, <1>KeptSame, <1>OpenFrame DEF IInv
  <2>24. RecoverInv'
    BY Zenon, <2>1, <2>2 DEF RecoverInv
  <2>25. FreshInv'
    BY <2>1, <2>2, <2>4 DEF IInv, FreshInv, FileNumbersFresh
  <2>26. AckedRecoverable'
    BY Zenon, <2>2, <2>5, <1>KeptSame, <1>AckedFrame DEF IInv
  <2> QED
    BY <2>20, <2>21, <2>22, <2>23, <2>24, <2>25, <2>26 DEF SafeInv
<1>WriteBeginSafe.
    ASSUME IInv, TypeInv, TypeOK', NEW n, NEW sync, WriteBegin(n, sync)
    PROVE  SafeInv'
  <2> USE <1>WriteBeginSafe
  <2> USE <1>IInvFacts
  <2>1. status = "open" /\ ~bg_error_ /\ leader'.pc = "append"
    BY DEF WriteBegin
  <2>2. UNCHANGED <<status, mem_, imm_, current_, log_number_, imm_log_number_,
                    next_file_number_, bg_error_, job, logs, tables, manifest,
                    acked>>
    BY Zenon DEF WriteBegin, disk, history
  <2>3. Committing' <=> Committing
    BY Zenon, <2>2 DEF Committing
  <2>20. DownInv'
    BY Zenon, <2>1, <2>2 DEF DownInv
  <2>21. TablesInv'
    BY Zenon, <2>2 DEF IInv, TablesInv, AllReadable
  <2>22. CommitInv'
    BY Zenon, <2>2, <2>3 DEF IInv, CommitInv, Renamed
  <2>23. OpenInv'
    <3>1. ASSUME NEW m, Needed(m) PROVE Needed(m)'
      BY Zenon, <2>2, <2>3, <3>1 DEF Needed
    <3> QED
      BY ZenonT(40), <2>1, <2>2, <3>1, <1>KeptSame, <1>OpenFrame DEF IInv, OpenInv
  <2>24. RecoverInv'
    BY Zenon, <2>1, <2>2 DEF RecoverInv
  <2>25. FreshInv'
    BY Zenon, <2>2 DEF IInv, FreshInv, FileNumbersFresh
  <2>26. AckedRecoverable'
    BY Zenon, <2>2 DEF IInv, AckedRecoverable, Recoverable
  <2> QED
    BY <2>20, <2>21, <2>22, <2>23, <2>24, <2>25, <2>26 DEF SafeInv
\* Nothing that was handed to the kernel goes, and a torn record can only be at
\* the end of the log.
<1>CrashSafe.
    ASSUME IInv, TypeInv, TypeOK', Crash
    PROVE  SafeInv'
  <2> USE <1>CrashSafe
  <2> USE <1>IInvFacts
  <2>1. LoseMemory /\ status' = "down" /\ job' = NoJob /\ job'.pc = "idle"
    BY ONLY Zenon, Crash DEF Crash, LoseMemory, NoJob
  <2>2. UNCHANGED <<tables, manifest, acked>>
    BY ONLY Crash DEF Crash
  <2>3. LogsKept(logs, logs', From(manifest.log))
    <3>1. CASE logs' = logs
      BY <3>1, <1>KeptSame
    <3>2. CASE /\ leader.pc = "append"
               /\ logs' = [logs EXCEPT ![log_number_] =
                              AppendTo(logs[log_number_], leader.seqs, FALSE)]
      <4>1. status = "open"
        BY <3>2, <1>LeaderOpen
      <4>2. log_number_ \in Visible(logs)
        BY Zenon, <4>1 DEF IInv, OpenInv, Needed
      <4> QED
        BY Zenon, <3>2, <4>2, <1>AppendKeeps DEF Leader
    <3> QED
      BY Zenon, <3>1, <3>2 DEF Crash
  <2>4. ~Committing' /\ ~Renamed'
    BY <2>1 DEF Committing, Renamed
  <2>20. DownInv'
    BY <2>1 DEF DownInv, LoseMemory
  <2>21. TablesInv'
    BY Zenon, <2>1, <2>2 DEF IInv, TablesInv, AllReadable
  <2>22. CommitInv'
    BY <2>1, <2>4 DEF CommitInv
  <2>23. OpenInv'
    BY <2>1 DEF OpenInv
  <2>24. RecoverInv'
    BY <2>1 DEF RecoverInv
  <2>25. FreshInv'
    BY <2>1 DEF FreshInv, FileNumbersFresh
  <2>26. AckedRecoverable'
    BY Zenon, <2>2, <2>3, <1>KeptSame, <1>AckedFrame DEF IInv
  <2> QED
    BY <2>20, <2>21, <2>22, <2>23, <2>24, <2>25, <2>26 DEF SafeInv
<1>StutterSafe.
    ASSUME IInv, TypeInv, TypeOK', UNCHANGED vars
    PROVE  SafeInv'
  <2> USE <1>StutterSafe
  <2> USE <1>IInvFacts
  <2>1. UNCHANGED <<status, mem_, imm_, current_, log_number_, imm_log_number_,
                    next_file_number_, bg_error_, leader, job, logs, tables,
                    manifest, acked>>
    BY DEF vars, memory, disk, history
  <2>2. Committing' <=> Committing
    BY Zenon, <2>1 DEF Committing
  <2>20. DownInv'
    BY Zenon, <2>1 DEF IInv, DownInv
  <2>21. TablesInv'
    BY Zenon, <2>1 DEF IInv, TablesInv, AllReadable
  <2>22. CommitInv'
    BY Zenon, <2>1, <2>2 DEF IInv, CommitInv, Renamed
  <2>23. OpenInv'
    <3>1. ASSUME NEW m, Needed(m) PROVE Needed(m)'
      BY Zenon, <2>1, <2>2, <3>1 DEF Needed
    <3> QED
      BY ZenonT(40), <2>1, <3>1, <1>KeptSame, <1>OpenFrame DEF IInv, OpenInv
  <2>24. RecoverInv'
    BY Zenon, <2>1, <2>2 DEF IInv, RecoverInv
  <2>25. FreshInv'
    BY Zenon, <2>1 DEF IInv, FreshInv, FileNumbersFresh
  <2>26. AckedRecoverable'
    BY Zenon, <2>1 DEF IInv, AckedRecoverable, Recoverable
  <2> QED
    BY <2>20, <2>21, <2>22, <2>23, <2>24, <2>25, <2>26 DEF SafeInv
<1>CommitSafe.
    ASSUME IInv, TypeInv, TypeOK', Commit
    PROVE  SafeInv'
  <2>UnlinkKeeps.
      ASSUME NEW files, NEW n,
             \/ LogFiles(files)
             \/ TableFiles(files)
      PROVE  LET g == Unlink(files, n)
             IN  /\ Visible(g) = Visible(files) \ {n}
                 /\ \A m \in Visible(files) \ {n} : g[m] = files[m]
    <3> USE <2>UnlinkKeeps
    <3>1. \A m \in DOMAIN files : [files[m] EXCEPT !.ent = "unlinked"].ent
                                     = "unlinked"
      BY DEF LogFiles, TableFiles, LogFile, TableFile
    <3> QED
      BY <3>1 DEF Unlink, Visible
  <2>SettledKeeps.
      ASSUME NEW files
      PROVE  /\ LogFiles(files) =>
                  /\ Visible(Settled(files)) = Visible(files)
                  /\ \A m \in Visible(files) :
                        Settled(files)[m].recs = files[m].recs
             /\ TableFiles(files) =>
                  /\ Visible(Settled(files)) = Visible(files)
                  /\ \A m \in Visible(files) :
                        /\ Settled(files)[m].covers = files[m].covers
                        /\ Settled(files)[m].done = files[m].done
    <3> USE <2>SettledKeeps
    <3>1. ASSUME LogFiles(files), NEW m \in Visible(files)
          PROVE  /\ Settled(files)[m].recs = files[m].recs
                 /\ Settled(files)[m].ent = "durable"
      BY <3>1 DEF Settled, Visible, LogFiles, LogFile
    <3>2. ASSUME TableFiles(files), NEW m \in Visible(files)
          PROVE  /\ Settled(files)[m].covers = files[m].covers
                 /\ Settled(files)[m].done = files[m].done
                 /\ Settled(files)[m].ent = "durable"
      BY <3>2 DEF Settled, Visible, TableFiles, TableFile
    <3>3. DOMAIN Settled(files) = Visible(files)
      BY DEF Settled
    <3> QED
      BY Zenon, <3>1, <3>2, <3>3 DEF Visible
  \* The argument of WriteManifest: all that is acknowledged is in the tables of
  \* current_ or in a log that the new manifest still names.
  <2>RenameManifestSafe.
      ASSUME IInv, TypeInv, TypeOK', RenameManifest
      PROVE  SafeInv'
    <3> USE <2>RenameManifestSafe
    <3> USE <1>IInvFacts
    <3>1. /\ job'.pc = "dirsync" /\ job'.kind = job.kind
          /\ job'.target = job.target /\ job.pc = "rename"
          /\ manifest' = job.target
      BY JobAt DEF RenameManifest
    <3>2. /\ UNCHANGED <<status, mem_, imm_, current_, log_number_,
                         imm_log_number_, next_file_number_, bg_error_, leader,
                         logs, tables, acked>>
      BY ONLY RenameManifest DEF RenameManifest, history
    <3>3. status # "down"
      BY Zenon, <3>1, <1>JobUp
    <3>4. job.target.version = current_
      BY Zenon, <3>1 DEF IInv, CommitInv, Committing
    <3>20. DownInv'
      BY ONLY <3>2, <3>3 DEF DownInv
    <3>21. TablesInv'
      BY Zenon, <3>1, <3>2, <3>3, <3>4 DEF IInv, TablesInv, AllReadable
    <3>22. CommitInv'
      BY Zenon, <3>1, <3>2, <3>4 DEF CommitInv, Committing, Renamed
    <3>23. OpenInv'
      <4>1. ASSUME NEW n, Needed(n) PROVE Needed(n)'
        BY Zenon, <3>1, <3>2, <4>1 DEF Needed, Committing
      <4> QED
        BY ZenonT(40), <3>2, <4>1, <1>KeptSame, <1>OpenFrame DEF IInv, OpenInv
    <3>24. RecoverInv'
      <4>1. Committing /\ Committing'
        BY <3>1 DEF Committing
      <4>2. status = "newlog" => job = NoJob
        BY Zenon DEF IInv, RecoverInv
      <4>3. status # "newlog"
        BY ONLY SMTT(30), <3>1, <4>2 DEF NoJob
      <4> QED
        BY Zenon, <3>1, <3>2, <4>1, <4>3 DEF IInv, RecoverInv
    <3>25. FreshInv'
      BY Zenon, <3>2 DEF IInv, FreshInv, FileNumbersFresh
    <3>26. AckedRecoverable'
      <4>1. CASE status = "open"
        <5>1. /\ acked \subseteq (mem_ \cup imm_ \cup Covers(tables, current_))
              /\ mem_ \subseteq Replay(logs[log_number_].recs)
              /\ imm_ # {} => imm_ \subseteq Replay(logs[imm_log_number_].recs)
          BY Zenon, <4>1 DEF IInv, OpenInv
        <5>2. /\ log_number_ \in Visible(logs) /\ job.target.log <= log_number_
              /\ imm_ # {} => /\ imm_log_number_ \in Visible(logs)
                              /\ job.target.log <= imm_log_number_
          BY Zenon, <3>1, <4>1 DEF IInv, OpenInv, Needed, Committing
        <5>3. mem_ \subseteq ReplayFrom(logs, job.target.log)
          BY Zenon, <5>1, <5>2, ReplayFromContains
        <5>4. imm_ \subseteq ReplayFrom(logs, job.target.log)
          BY Zenon, <5>1, <5>2, ReplayFromContains
        <5> QED
          BY Zenon, <3>1, <3>2, <3>4, <5>1, <5>3, <5>4
            DEF AckedRecoverable, Recoverable
      <4>2. CASE status # "open"
        <5>1. acked \subseteq Covers(tables, current_)
          BY Zenon, <3>1, <3>3, <4>2
            DEF IInv, TypeOK, RecoverInv, Committing, NoJob
        <5> QED
          BY Zenon, <3>1, <3>2, <3>4, <5>1 DEF AckedRecoverable, Recoverable
      <4> QED
        BY <4>1, <4>2
    <3> QED
      BY <3>20, <3>21, <3>22, <3>23, <3>24, <3>25, <3>26 DEF SafeInv
  <2>SyncDirectorySafe.
      ASSUME IInv, TypeInv, TypeOK', SyncDirectory
      PROVE  SafeInv'
    <3> USE <2>SyncDirectorySafe
    <3> USE <1>IInvFacts
    <3>1. /\ job'.pc = "list" /\ job'.kind = job.kind
          /\ job'.target = job.target /\ job.pc = "dirsync"
      BY JobAt DEF SyncDirectory
    <3>2. /\ UNCHANGED <<status, mem_, imm_, current_, log_number_,
                         imm_log_number_, next_file_number_, bg_error_, leader,
                         manifest, acked>>
      BY ONLY SyncDirectory DEF SyncDirectory, history
    <3>3. /\ Visible(logs') = Visible(logs)
          /\ \A m \in Visible(logs) : logs'[m].recs = logs[m].recs
      BY <2>SettledKeeps DEF SyncDirectory
    <3>4. /\ Visible(tables') = Visible(tables)
          /\ \A m \in Visible(tables) :
                tables'[m].covers = tables[m].covers /\ tables'[m].done = tables[m].done
      BY <2>SettledKeeps DEF SyncDirectory
    <3>5. ASSUME NEW S
          PROVE  LogsKept(logs, logs', S) /\ TablesKept(tables, tables', S)
      BY Zenon, <3>3, <3>4 DEF LogsKept, TablesKept, Readable
    <3>6. status # "down" /\ status # "newlog"
      BY Zenon, <3>1, <1>JobUp
    <3>20. DownInv'
      BY ONLY <3>2, <3>6 DEF DownInv
    <3>21. TablesInv'
      <4>1. AllReadable(manifest.version)' /\ AllReadable(current_)'
        <5>1. AllReadable(manifest.version) /\ AllReadable(current_)
          BY Zenon, <3>6 DEF IInv, TablesInv
        <5>2. /\ \A n \in Live(manifest.version) : Readable(tables', n)
              /\ \A n \in Live(current_) : Readable(tables', n)
          BY Zenon, <3>5, <5>1 DEF AllReadable, TablesKept
        <5> QED
          BY Zenon, <3>2, <5>2 DEF AllReadable
      <4> QED
        BY Zenon, <3>1, <4>1 DEF TablesInv
    <3>22. CommitInv'
      BY Zenon, <3>1, <3>2 DEF IInv, CommitInv, Committing, Renamed
    <3>23. OpenInv'
      <4>1. ASSUME NEW n, Needed(n) PROVE Needed(n)'
        BY Zenon, <3>1, <3>2, <3>3, <4>1 DEF Needed, Committing
      <4>2. status = "open" =>
               /\ (~bg_error_' \/ leader'.pc = "append")
                     => AllOk(logs'[log_number_].recs)
               /\ leader'.pc \in {"sync", "insert"} =>
                     leader'.seqs \subseteq Replay(logs'[log_number_].recs)
        BY Zenon, <3>2, <3>3 DEF IInv, OpenInv, Needed
      <4> QED
        BY ZenonT(40), <3>2, <3>5, <4>1, <4>2, <1>OpenFrame DEF IInv
    <3>24. RecoverInv'
      <4>1. Covers(tables, current_) \subseteq Covers(tables', current_)
        BY Zenon, <3>5, <1>CoversKept
      <4>2. Committing /\ Committing'
        BY Zenon, <3>1 DEF Committing
      <4> QED
        BY Zenon, <3>1, <3>2, <3>3, <3>6, <4>1, <4>2 DEF IInv, RecoverInv
    <3>25. FreshInv'
      BY Zenon, <3>2, <3>3, <3>4 DEF IInv, FreshInv, FileNumbersFresh
    <3>26. AckedRecoverable'
      BY Zenon, <3>2, <3>5, <1>AckedFrame DEF IInv
    <3> QED
      BY <3>20, <3>21, <3>22, <3>23, <3>24, <3>25, <3>26 DEF SafeInv
  <2>ListObsoleteSafe.
      ASSUME IInv, TypeInv, TypeOK', ListObsolete
      PROVE  SafeInv'
    <3> USE <2>ListObsoleteSafe
    <3> USE <1>IInvFacts
    <3>1. /\ job'.pc = "unlink" /\ job'.kind = job.kind
          /\ job'.target = job.target /\ job.pc = "list"
          /\ job'.doomedLogs = ObsoleteLogs(job.target.log)
          /\ job'.doomedTables = ObsoleteTables(job.target.version)
      BY JobAt DEF ListObsolete
    <3>2. /\ UNCHANGED <<status, mem_, imm_, current_, log_number_,
                         imm_log_number_, next_file_number_, bg_error_, leader,
                         logs, tables, manifest, acked>>
      BY ONLY ListObsolete DEF ListObsolete, disk, history
    <3>3. status # "down" /\ status # "newlog"
      BY Zenon, <3>1, <1>JobUp
    <3>20. DownInv'
      BY ONLY <3>2, <3>3 DEF DownInv
    <3>21. TablesInv'
      BY Zenon, <3>1, <3>2, <3>3 DEF IInv, TablesInv, AllReadable
    <3>22. CommitInv'
      BY Zenon, <3>1, <3>2 DEF IInv, CommitInv, Committing, Renamed, ObsoleteLogs,
                       ObsoleteTables
    <3>23. OpenInv'
      <4>1. ASSUME NEW n, Needed(n) PROVE Needed(n)'
        BY Zenon, <3>1, <3>2, <4>1 DEF Needed, Committing
      <4> QED
        BY ZenonT(40), <3>2, <4>1, <1>KeptSame, <1>OpenFrame DEF IInv, OpenInv
    <3>24. RecoverInv'
      <4>1. Committing /\ Committing'
        BY Zenon, <3>1 DEF Committing
      <4> QED
        BY Zenon, <3>1, <3>2, <3>3, <4>1 DEF IInv, RecoverInv
    <3>25. FreshInv'
      BY Zenon, <3>2 DEF IInv, FreshInv, FileNumbersFresh
    <3>26. AckedRecoverable'
      BY Zenon, <3>2 DEF IInv, AckedRecoverable, Recoverable
    <3> QED
      BY <3>20, <3>21, <3>22, <3>23, <3>24, <3>25, <3>26 DEF SafeInv
  \* The logs that RemoveObsoleteFiles unlinks are below the one the manifest
  \* names.
  <2>UnlinkLogSafe.
      ASSUME IInv, TypeInv, TypeOK', NEW n \in Nat, UnlinkLog(n)
      PROVE  SafeInv'
    <3> USE <2>UnlinkLogSafe
    <3> USE <1>IInvFacts
    <3>1. /\ job'.pc = "unlink" /\ job'.kind = job.kind
          /\ job'.target = job.target /\ job.pc = "unlink"
          /\ job'.doomedLogs = job.doomedLogs \ {n}
          /\ job'.doomedTables = job.doomedTables
      BY JobAt DEF UnlinkLog
    <3>2. /\ UNCHANGED <<status, mem_, imm_, current_, log_number_,
                         imm_log_number_, next_file_number_, bg_error_, leader,
                         tables, manifest, acked>>
      BY DEF UnlinkLog
    <3>3. n < job.target.log /\ manifest = job.target
      BY Zenon, <3>1 DEF UnlinkLog, IInv, CommitInv, Renamed
    <3>4. logs' = logs \/ logs' = Unlink(logs, n)
      BY DEF UnlinkLog, UnlinkIn
    <3>5. /\ Visible(logs') \subseteq Visible(logs)
          /\ \A m \in Visible(logs) : m # n =>
                m \in Visible(logs') /\ logs'[m] = logs[m]
      BY <3>4, <2>UnlinkKeeps
    <3>6. status # "down"
      BY Zenon, <3>1, <1>JobUp
    <3>7. ASSUME NEW m, Needed(m) PROVE Needed(m)' /\ logs'[m] = logs[m]
      <4>1. m \in Visible(logs) /\ m # n
        BY <3>1, <3>3, <3>7 DEF Needed, Committing
      <4> QED
        BY Zenon, <3>1, <3>2, <3>5, <3>7, <4>1 DEF Needed, Committing
    <3>20. DownInv'
      BY ONLY <3>2, <3>6 DEF DownInv
    <3>21. TablesInv'
      BY Zenon, <3>1, <3>2, <3>6 DEF IInv, TablesInv, AllReadable
    <3>22. CommitInv'
      BY Zenon, <3>1, <3>2 DEF IInv, CommitInv, Committing, Renamed
    <3>23. OpenInv'
      <4>1. status = "open" =>
               /\ Needed(log_number_)
               /\ imm_ # {} => Needed(imm_log_number_)
        BY Zenon DEF IInv, OpenInv
      <4>2. status = "open" =>
               /\ Needed(log_number_)'
               /\ imm_ # {} => Needed(imm_log_number_)'
        BY Zenon, <3>2, <3>7, <4>1
      <4> QED
        BY Zenon, <3>2, <3>7, <4>1, <4>2 DEF IInv, OpenInv
    <3>24. RecoverInv'
      <4>1. status = "newlog" => job = NoJob
        BY Zenon DEF IInv, RecoverInv
      <4>2. status # "newlog"
        BY ONLY SMTT(30), <3>1, <4>1 DEF NoJob
      <4>3. Committing /\ Committing'
        BY <3>1 DEF Committing
      <4>4. status = "opening" =>
               log_number_ \in Visible(logs') /\ logs'[log_number_] = logs[log_number_]
        <5>1. status = "opening" =>
                 log_number_ \in Visible(logs) /\ job.target.log = log_number_
          BY Zenon DEF IInv, RecoverInv
        <5>2. n # job.target.log
          BY ONLY SMTT(30), <3>3, n \in Nat
        <5> QED
          BY Zenon, <3>5, <5>1, <5>2
      <4> QED
        BY Zenon, <3>1, <3>2, <4>2, <4>3, <4>4 DEF IInv, RecoverInv
    <3>25. FreshInv'
      BY Zenon, <3>2, <3>5 DEF IInv, FreshInv, FileNumbersFresh
    <3>26. AckedRecoverable'
      <4>1. LogsKept(logs, logs', From(manifest.log))
        <5>1. n \notin From(manifest.log)
          BY ONLY SMTT(30), <3>3, n \in Nat, <1>IInvFacts, IInv DEF From
        <5> QED
          BY Zenon, <3>5, <5>1 DEF LogsKept
      <4> QED
        BY Zenon, <3>2, <4>1, <1>KeptSame, <1>AckedFrame DEF IInv
    <3> QED
      BY Zenon, <3>20, <3>21, <3>22, <3>23, <3>24, <3>25, <3>26 DEF SafeInv
  \* The tables it unlinks are not those of current_, which the manifest names.
  <2>UnlinkTableSafe.
      ASSUME IInv, TypeInv, TypeOK', NEW n \in Nat, UnlinkTable(n)
      PROVE  SafeInv'
    <3> USE <2>UnlinkTableSafe
    <3> USE <1>IInvFacts
    <3>1. /\ job'.pc = "unlink" /\ job'.kind = job.kind
          /\ job'.target = job.target /\ job.pc = "unlink"
          /\ job'.doomedLogs = job.doomedLogs
          /\ job'.doomedTables = job.doomedTables \ {n}
      BY JobAt DEF UnlinkTable
    <3>2. /\ UNCHANGED <<status, mem_, imm_, current_, log_number_,
                         imm_log_number_, next_file_number_, bg_error_, leader,
                         logs, manifest, acked>>
      BY DEF UnlinkTable
    <3>3. n \notin Live(current_) /\ manifest.version = current_
      BY Zenon, <3>1 DEF UnlinkTable, IInv, CommitInv, Renamed, Committing
    <3>4. tables' = tables \/ tables' = Unlink(tables, n)
      BY DEF UnlinkTable, UnlinkIn
    <3>5. /\ Visible(tables') \subseteq Visible(tables)
          /\ \A m \in Visible(tables) : m # n =>
                m \in Visible(tables') /\ tables'[m] = tables[m]
      BY <3>4, <2>UnlinkKeeps
    <3>6. status # "down"
      BY Zenon, <3>1, <1>JobUp
    <3>7. TablesKept(tables, tables', Live(current_))
      BY Zenon, <3>3, <3>5 DEF TablesKept, Readable
    <3>8. Committing /\ Committing'
      BY <3>1 DEF Committing
    <3>20. DownInv'
      BY ONLY <3>2, <3>6 DEF DownInv
    <3>21. TablesInv'
      <4>1. \A m \in Live(current_) : Readable(tables, m)
        BY Zenon, <3>6 DEF IInv, TablesInv, AllReadable
      <4>2. \A m \in Live(current_) : Readable(tables', m)
        BY Zenon, <3>7, <4>1, <1>ReadableKept
      <4>3. AllReadable(current_)'
        BY Zenon, <3>2, <4>2 DEF AllReadable
      <4> QED
        BY Zenon, <3>1, <3>2, <3>3, <4>3 DEF TablesInv, AllReadable
    <3>22. CommitInv'
      BY Zenon, <3>1, <3>2 DEF IInv, CommitInv, Committing, Renamed
    <3>23. OpenInv'
      <4>1. ASSUME NEW m, Needed(m) PROVE Needed(m)'
        BY Zenon, <3>1, <3>2, <3>8, <4>1 DEF Needed
      <4> QED
        BY ZenonT(40), <3>2, <3>7, <4>1, <1>KeptSame, <1>OpenFrame DEF IInv, OpenInv
    <3>24. RecoverInv'
      <4>1. Covers(tables, current_) \subseteq Covers(tables', current_)
        BY Zenon, <3>7, <1>CoversKept
      <4>2. status = "newlog" => job = NoJob
        BY Zenon DEF IInv, RecoverInv
      <4>3. status # "newlog"
        BY ONLY SMTT(30), <3>1, <4>2 DEF NoJob
      <4> QED
        BY Zenon, <3>1, <3>2, <3>8, <4>1, <4>3 DEF IInv, RecoverInv
    <3>25. FreshInv'
      BY Zenon, <3>2, <3>5 DEF IInv, FreshInv, FileNumbersFresh
    <3>26. AckedRecoverable'
      BY Zenon, <3>2, <3>3, <3>7, <1>KeptSame, <1>AckedFrame DEF IInv
    <3> QED
      BY <3>20, <3>21, <3>22, <3>23, <3>24, <3>25, <3>26 DEF SafeInv
  \* When the commit of the new log is done the database is open, with nothing in
  \* memory: all that is acknowledged is in the tables of current_.
  <2>CommitDoneSafe.
      ASSUME IInv, TypeInv, TypeOK', CommitDone
      PROVE  SafeInv'
    <3> USE <2>CommitDoneSafe
    <3> USE <1>IInvFacts
    <3>1. job.pc = "unlink" /\ job' = NoJob
      BY ONLY CommitDone DEF CommitDone
    <3>2. /\ UNCHANGED <<mem_, imm_, current_, log_number_,
                         imm_log_number_, next_file_number_, bg_error_, leader,
                         logs, tables, manifest, acked>>
      BY ONLY CommitDone DEF CommitDone, disk, history
    <3>3. status # "down" /\ status # "newlog"
      BY Zenon, <3>1, <1>JobUp
    <3>4. \/ status = "flushing" /\ status' = "newlog"
          \/ status = "opening" /\ status' = "open"
          \/ status = "open" /\ status' = "open"
      BY Zenon, <3>3 DEF CommitDone, TypeOK
    <3>5. manifest = job.target /\ Committing /\ ~Committing' /\ ~Renamed'
          /\ job'.pc = "idle"
      BY Zenon, <3>1 DEF IInv, CommitInv, Renamed, Committing, NoJob
    <3>20. DownInv'
      BY ONLY <3>4 DEF DownInv
    <3>21. TablesInv'
      BY Zenon, <3>2, <3>3, <3>5 DEF IInv, TablesInv, AllReadable
    <3>22. CommitInv'
      BY Zenon, <3>5 DEF CommitInv
    <3>23. OpenInv'
      <4>1. CASE status = "opening"
        <5>1. /\ mem_ = {} /\ imm_ = {} /\ leader = Idle
              /\ acked \subseteq Covers(tables, current_)
              /\ log_number_ \in Visible(logs) /\ job.target.log = log_number_
              /\ AllOk(logs[log_number_].recs)
          BY Zenon, <4>1 DEF IInv, RecoverInv
        <5> QED
          <6>1. leader'.pc = "idle"
            BY ONLY SMTT(30), <3>2, <5>1 DEF Idle
          <6>2. Needed(log_number_)'
            BY ONLY SMTT(30), <3>2, <3>5, <5>1, <1>IInvFacts, IInv DEF Needed
          <6> QED
            BY Zenon, <3>2, <5>1, <6>1, <6>2 DEF OpenInv
      <4>2. CASE status = "open" /\ status' = "open"
        <5>1. ASSUME NEW m, Needed(m) PROVE Needed(m)'
          BY Zenon, <3>2, <3>5, <5>1 DEF Needed
        <5> QED
          BY ZenonT(40), <3>2, <4>2, <5>1, <1>KeptSame, <1>OpenFrame DEF IInv, OpenInv
      <4> QED
        BY Zenon, <3>4, <4>1, <4>2 DEF OpenInv
    <3>24. RecoverInv'
      BY Zenon, <3>1, <3>2, <3>4, <3>5 DEF IInv, RecoverInv
    <3>25. FreshInv'
      BY Zenon, <3>2, <3>4 DEF IInv, FreshInv, FileNumbersFresh
    <3>26. AckedRecoverable'
      BY Zenon, <3>2 DEF IInv, AckedRecoverable, Recoverable
    <3> QED
      BY <3>20, <3>21, <3>22, <3>23, <3>24, <3>25, <3>26 DEF SafeInv
  <2>CommitFailsSafe.
      ASSUME IInv, TypeInv, TypeOK', CommitFails
      PROVE  SafeInv'
    <3> USE <2>CommitFailsSafe
    <3> USE <1>IInvFacts
    <3>1. job.pc \in {"rename", "dirsync"} /\ job' = NoJob /\ bg_error_' = TRUE
          /\ status = "open"
      BY ONLY CommitFails DEF CommitFails
    <3>2. /\ UNCHANGED <<status, mem_, imm_, current_, log_number_,
                         imm_log_number_, next_file_number_, leader,
                         logs, tables, manifest, acked>>
      BY ONLY CommitFails DEF CommitFails, disk, history
    <3>3. ~Committing' /\ ~Renamed' /\ job'.pc = "idle"
      BY Zenon, <3>1 DEF Renamed, Committing, NoJob
    <3>20. DownInv'
      BY ONLY <3>1, <3>2 DEF DownInv
    <3>21. TablesInv'
      BY Zenon, <3>1, <3>2, <3>3 DEF IInv, TablesInv, AllReadable
    <3>22. CommitInv'
      BY Zenon, <3>3 DEF CommitInv
    <3>23. OpenInv'
      <4>1. ASSUME NEW m, Needed(m) PROVE Needed(m)'
        BY Zenon, <3>2, <3>3, <4>1 DEF Needed
      <4> QED
        BY ZenonT(40), <3>1, <3>2, <4>1, <1>KeptSame, <1>OpenFrame DEF IInv, OpenInv
    <3>24. RecoverInv'
      BY Zenon, <3>1, <3>2 DEF RecoverInv
    <3>25. FreshInv'
      BY Zenon, <3>2 DEF IInv, FreshInv, FileNumbersFresh
    <3>26. AckedRecoverable'
      BY Zenon, <3>2 DEF IInv, AckedRecoverable, Recoverable
    <3> QED
      BY <3>20, <3>21, <3>22, <3>23, <3>24, <3>25, <3>26 DEF SafeInv
  <2> USE <1>CommitSafe
  <2>1. job.doomedLogs \subseteq Nat /\ job.doomedTables \subseteq Nat
    BY Zenon, JobFields DEF IInv, TypeOK
  <2> QED
    BY Zenon, <2>1, <2>RenameManifestSafe, <2>SyncDirectorySafe, <2>ListObsoleteSafe,
       <2>UnlinkLogSafe, <2>UnlinkTableSafe, <2>CommitDoneSafe, <2>CommitFailsSafe DEF Commit
<1>BackgroundSafe.
    ASSUME IInv, TypeInv, TypeOK', Background
    PROVE  SafeInv'
  <2>CoversContains.
      ASSUME NEW f, NEW v, NEW n \in Live(v), Readable(f, n)
      PROVE  f[n].covers \subseteq Covers(f, v)
    BY <2>CoversContains DEF Covers
  <2>FlushStartSafe.
      ASSUME IInv, TypeInv, TypeOK', FlushStart
      PROVE  SafeInv'
    <3> USE <2>FlushStartSafe
    <3> USE <1>IInvFacts
    <3>1. /\ status \in {"flushing", "open"} /\ imm_ # {} /\ job.pc = "idle"
          /\ tables' = Create(tables, next_file_number_, NewTableFile)
          /\ next_file_number_' = next_file_number_ + 1
      BY ONLY FlushStart DEF FlushStart, StartTable
    <3>2. UNCHANGED <<status, mem_, imm_, current_, log_number_, imm_log_number_,
                      bg_error_, leader, logs, manifest, acked>>
      BY ONLY FlushStart DEF FlushStart, StartTable, history
    <3>3. /\ job'.kind = "flush" /\ job'.pc = "build"
          /\ job'.number = next_file_number_
      BY ONLY FlushStart DEF FlushStart, StartTable, NoJob, NoManifest
    <3>4. next_file_number_ \notin Visible(tables)
      BY <3>1 DEF IInv, FreshInv, FileNumbersFresh
    <3>5. /\ Visible(tables') = Visible(tables) \cup {next_file_number_}
          /\ \A m \in Visible(tables) : tables'[m] = tables[m]
      BY ONLY SMTT(30), <3>1, <3>4, <1>CreateKeeps DEF NewTableFile
    <3>6. \A S : TablesKept(tables, tables', S)
      BY Zenon, <3>5 DEF TablesKept, Readable
    <3>7. ~Committing /\ ~Committing' /\ ~Renamed'
      BY Zenon, <3>1, <3>3 DEF Committing, Renamed
    <3>8. AllReadable(manifest.version) /\ AllReadable(current_)
      BY Zenon, <3>1 DEF IInv, TablesInv
    <3>20. DownInv'
      BY ONLY <3>1, <3>2 DEF DownInv
    <3>21. TablesInv'
      <4>1. AllReadable(manifest.version)' /\ AllReadable(current_)'
        <5>1. /\ TablesKept(tables, tables', Live(manifest.version))
              /\ TablesKept(tables, tables', Live(current_))
          BY Zenon, <3>6
        <5> QED
          BY ONLY SMTT(30), <3>2, <3>8, <5>1, <1>ReadableKept DEF AllReadable
      <4>2. /\ next_file_number_ \notin Live(current_)
            /\ next_file_number_ \notin Live(manifest.version)
        BY Zenon, <3>4, <3>8 DEF AllReadable, Readable
      <4> QED
        BY Zenon, <3>1, <3>2, <3>3, <3>5, <4>1, <4>2 DEF TablesInv
    <3>22. CommitInv'
      BY Zenon, <3>3, <3>7 DEF CommitInv
    <3>23. OpenInv'
      <4>1. ASSUME NEW m, Needed(m) PROVE Needed(m)'
        BY Zenon, <3>2, <3>7, <4>1 DEF Needed
      <4> QED
        BY ZenonT(40), <3>2, <3>6, <4>1, <1>KeptSame, <1>OpenFrame DEF IInv, OpenInv
    <3>24. RecoverInv'
      <4>1. Covers(tables, current_) \subseteq Covers(tables', current_)
        BY Zenon, <3>6, <1>CoversKept
      <4> QED
        BY Zenon, <3>1, <3>2, <3>3, <3>7, <4>1 DEF IInv, RecoverInv
    <3>25. FreshInv'
      <4>1. FileNumbersFresh
        BY Zenon DEF IInv, FreshInv
      <4> QED
        BY ONLY SMTT(30), <3>1, <3>2, <3>5, <4>1, <1>IInvFacts, IInv
           DEF FreshInv, FileNumbersFresh
    <3>26. AckedRecoverable'
      BY Zenon, <3>2, <3>6, <1>KeptSame, <1>AckedFrame DEF IInv
    <3> QED
      BY <3>20, <3>21, <3>22, <3>23, <3>24, <3>25, <3>26 DEF SafeInv
  <2>CompactStartSafe.
      ASSUME IInv, TypeInv, TypeOK', CompactStart
      PROVE  SafeInv'
    <3> USE <2>CompactStartSafe
    <3> USE <1>IInvFacts
    <3>0. PICK inputs \in Version :
            /\ StartTable("compact", inputs)
            /\ inputs.l0 \subseteq current_.l0
            /\ inputs.deep \subseteq current_.deep
      BY Zenon, CompactInputs DEF TypeOK
    <3>1. /\ status = "open" /\ imm_ = {} /\ job.pc = "idle"
          /\ tables' = Create(tables, next_file_number_, NewTableFile)
          /\ next_file_number_' = next_file_number_ + 1
      BY Zenon, <3>0 DEF CompactStart, StartTable
    <3>2. UNCHANGED <<status, mem_, imm_, current_, log_number_, imm_log_number_,
                      bg_error_, leader, logs, manifest, acked>>
      BY <3>0 DEF StartTable, history
    <3>3. /\ job'.kind = "compact" /\ job'.pc = "build"
          /\ job'.number = next_file_number_
          /\ job'.target.version = inputs
      BY <3>0 DEF StartTable, NoJob, NoManifest
    <3>4. next_file_number_ \notin Visible(tables)
      BY <3>1 DEF IInv, FreshInv, FileNumbersFresh
    <3>5. /\ Visible(tables') = Visible(tables) \cup {next_file_number_}
          /\ \A m \in Visible(tables) : tables'[m] = tables[m]
      BY ONLY SMTT(30), <3>1, <3>4, <1>CreateKeeps DEF NewTableFile
    <3>6. \A S : TablesKept(tables, tables', S)
      BY Zenon, <3>5 DEF TablesKept, Readable
    <3>7. ~Committing /\ ~Committing' /\ ~Renamed'
      BY Zenon, <3>1, <3>3 DEF Committing, Renamed
    <3>8. AllReadable(manifest.version) /\ AllReadable(current_)
      BY Zenon, <3>1 DEF IInv, TablesInv
    <3>20. DownInv'
      BY ONLY <3>1, <3>2 DEF DownInv
    <3>21. TablesInv'
      <4>1. AllReadable(manifest.version)' /\ AllReadable(current_)'
        <5>1. /\ TablesKept(tables, tables', Live(manifest.version))
              /\ TablesKept(tables, tables', Live(current_))
          BY Zenon, <3>6
        <5> QED
          BY ONLY SMTT(30), <3>2, <3>8, <5>1, <1>ReadableKept DEF AllReadable
      <4>2. /\ next_file_number_ \notin Live(current_)
            /\ next_file_number_ \notin Live(manifest.version)
        BY Zenon, <3>4, <3>8 DEF AllReadable, Readable
      <4> QED
        BY Zenon, <3>0, <3>1, <3>2, <3>3, <3>5, <4>1, <4>2 DEF TablesInv
    <3>22. CommitInv'
      BY Zenon, <3>3, <3>7 DEF CommitInv
    <3>23. OpenInv'
      <4>1. ASSUME NEW m, Needed(m) PROVE Needed(m)'
        BY Zenon, <3>2, <3>7, <4>1 DEF Needed
      <4> QED
        BY ZenonT(40), <3>2, <3>6, <4>1, <1>KeptSame, <1>OpenFrame DEF IInv, OpenInv
    <3>24. RecoverInv'
      BY Zenon, <3>1, <3>2 DEF RecoverInv
    <3>25. FreshInv'
      <4>1. FileNumbersFresh
        BY Zenon DEF IInv, FreshInv
      <4> QED
        BY ONLY SMTT(30), <3>1, <3>2, <3>5, <4>1, <1>IInvFacts, IInv
           DEF FreshInv, FileNumbersFresh
    <3>26. AckedRecoverable'
      BY Zenon, <3>2, <3>6, <1>KeptSame, <1>AckedFrame DEF IInv
    <3> QED
      BY Zenon, <3>20, <3>21, <3>22, <3>23, <3>24, <3>25, <3>26 DEF SafeInv
  \* The table under construction is in no version, so finishing it disturbs
  \* none; it then covers what the flush or the compaction took for its input.
  <2>BuildTableSafe.
      ASSUME IInv, TypeInv, TypeOK', BuildTable
      PROVE  SafeInv'
    <3> USE <2>BuildTableSafe
    <3> USE <1>IInvFacts
    <3>1. /\ job.pc = "build" /\ job'.pc = "install" /\ job'.kind = job.kind
          /\ job'.number = job.number /\ job'.target = job.target
      BY JobAt DEF BuildTable
    <3>2. UNCHANGED <<status, mem_, imm_, current_, log_number_, imm_log_number_,
                      next_file_number_, bg_error_, leader, logs, manifest, acked>>
      BY ONLY BuildTable DEF BuildTable, history
    <3>3. /\ job.number \in Visible(tables)
          /\ job.number \notin Live(current_)
          /\ job.number \notin Live(manifest.version)
          /\ job.kind \in {"flush", "compact"}
          /\ job.kind = "flush" => imm_ # {}
          /\ job.kind = "compact" =>
                /\ job.target.version.l0 \subseteq current_.l0
                /\ job.target.version.deep \subseteq current_.deep
          /\ AllReadable(manifest.version)
          /\ status # "down" => AllReadable(current_)
      BY Zenon, <3>1 DEF IInv, TablesInv
    <3>4. /\ Visible(tables') = Visible(tables)
          /\ \A m \in Visible(tables) : m # job.number => tables'[m] = tables[m]
          /\ tables'[job.number].done /\ tables'[job.number].covers = BuiltFrom
      <4>1. tables' = [tables EXCEPT ![job.number] =
                          Finished(tables[job.number], BuiltFrom)]
        BY ONLY BuildTable DEF BuildTable
      <4>2. tables[job.number].ent # "unlinked" /\ job.number \in DOMAIN tables
        BY Zenon, <3>3 DEF Visible
      <4>3. Finished(tables[job.number], BuiltFrom).ent # "unlinked"
        BY Zenon, <4>2 DEF Finished, Fsynced
      <4> QED
        BY Zenon, <4>1, <4>2, <4>3 DEF Visible, Finished
    <3>5. \A S : job.number \notin S => TablesKept(tables, tables', S)
      BY Zenon, <3>4 DEF TablesKept, Readable
    <3>6. ~Committing /\ ~Committing' /\ ~Renamed'
      BY Zenon, <3>1 DEF Committing, Renamed
    <3>7. status # "down"
      BY Zenon, <3>1, <1>JobUp
    <3>8. Covers(tables, current_) \subseteq Covers(tables', current_)
      BY Zenon, <3>3, <3>5, <1>CoversKept
    <3>9. job.kind = "compact" =>
             Covers(tables', job.target.version)
                \subseteq Covers(tables, job.target.version)
      <4>1. \A n \in Live(current_) : Readable(tables, n) /\ tables'[n] = tables[n]
        BY Zenon, <3>3, <3>4, <3>7 DEF AllReadable, Readable
      <4>2. job.kind = "compact" => Live(job.target.version) \subseteq Live(current_)
        BY Zenon, <3>3 DEF Live
      <4> QED
        BY Zenon, <4>1, <4>2 DEF Covers
    <3>20. DownInv'
      BY ONLY <3>2, <3>7 DEF DownInv
    <3>21. TablesInv'
      <4>1. AllReadable(manifest.version)' /\ AllReadable(current_)'
        BY ONLY SMTT(30), <3>2, <3>3, <3>5, <3>7, <1>ReadableKept DEF AllReadable
      <4>2. /\ job.kind = "flush" => imm_ \subseteq tables'[job.number].covers
            /\ job.kind = "compact" =>
                  Covers(tables', job.target.version)
                     \subseteq tables'[job.number].covers
        BY Zenon, <3>3, <3>4, <3>9 DEF BuiltFrom
      <4> QED
        BY Zenon, <3>1, <3>2, <3>3, <3>4, <4>1, <4>2 DEF TablesInv
    <3>22. CommitInv'
      BY Zenon, <3>1, <3>6 DEF CommitInv
    <3>23. OpenInv'
      <4>1. ASSUME NEW m, Needed(m) PROVE Needed(m)'
        BY Zenon, <3>2, <3>6, <4>1 DEF Needed
      <4> QED
        BY ZenonT(40), <3>2, <3>3, <3>5, <4>1, <1>KeptSame, <1>OpenFrame DEF IInv, OpenInv
    <3>24. RecoverInv'
      <4>1. status = "newlog" => job = NoJob
        BY Zenon DEF IInv, RecoverInv
      <4>2. status # "newlog" /\ status # "opening"
        BY Zenon, <3>1, <3>6, <1>JobUp DEF IInv, RecoverInv
      <4> QED
        BY Zenon, <3>1, <3>2, <3>6, <3>8, <4>2 DEF IInv, RecoverInv
    <3>25. FreshInv'
      BY Zenon, <3>2, <3>4 DEF IInv, FreshInv, FileNumbersFresh
    <3>26. AckedRecoverable'
      BY Zenon, <3>2, <3>3, <3>5, <1>KeptSame, <1>AckedFrame DEF IInv
    <3> QED
      BY <3>20, <3>21, <3>22, <3>23, <3>24, <3>25, <3>26 DEF SafeInv
  <2>BuildFailsSafe.
      ASSUME IInv, TypeInv, TypeOK', BuildFails
      PROVE  SafeInv'
    <3> USE <2>BuildFailsSafe
    <3> USE <1>IInvFacts
    <3>1. /\ status = "open" /\ job.pc \in {"build", "install"}
          /\ bg_error_' = TRUE /\ job' = NoJob
          /\ tables' = tables \/ tables' = Without(tables, {job.number})
      BY ONLY BuildFails DEF BuildFails
    <3>2. UNCHANGED <<status, mem_, imm_, current_, log_number_, imm_log_number_,
                      next_file_number_, leader, logs, manifest, acked>>
      BY ONLY BuildFails DEF BuildFails, history
    <3>3. /\ job.number \notin Live(current_)
          /\ job.number \notin Live(manifest.version)
          /\ AllReadable(manifest.version) /\ AllReadable(current_)
      BY Zenon, <3>1 DEF IInv, TablesInv
    <3>4. /\ Visible(tables') \subseteq Visible(tables)
          /\ \A m \in Visible(tables) : m # job.number =>
                m \in Visible(tables') /\ tables'[m] = tables[m]
      BY Zenon, <3>1 DEF Without, Visible
    <3>5. \A S : job.number \notin S => TablesKept(tables, tables', S)
      BY Zenon, <3>4 DEF TablesKept, Readable
    <3>6. ~Committing /\ ~Committing' /\ ~Renamed' /\ job'.pc = "idle"
      BY Zenon, <3>1 DEF Committing, Renamed, NoJob
    <3>20. DownInv'
      BY ONLY <3>1, <3>2 DEF DownInv
    <3>21. TablesInv'
      <4>1. AllReadable(manifest.version)' /\ AllReadable(current_)'
        BY ONLY SMTT(30), <3>2, <3>3, <3>5, <1>ReadableKept DEF AllReadable
      <4> QED
        BY Zenon, <3>6, <4>1 DEF TablesInv
    <3>22. CommitInv'
      BY Zenon, <3>6 DEF CommitInv
    <3>23. OpenInv'
      <4>1. ASSUME NEW m, Needed(m) PROVE Needed(m)'
        BY Zenon, <3>2, <3>6, <4>1 DEF Needed
      <4> QED
        BY ZenonT(40), <3>1, <3>2, <3>3, <3>5, <4>1, <1>KeptSame, <1>OpenFrame
          DEF IInv, OpenInv
    <3>24. RecoverInv'
      BY Zenon, <3>1, <3>2 DEF RecoverInv
    <3>25. FreshInv'
      BY Zenon, <3>2, <3>4 DEF IInv, FreshInv, FileNumbersFresh
    <3>26. AckedRecoverable'
      BY Zenon, <3>2, <3>3, <3>5, <1>KeptSame, <1>AckedFrame DEF IInv
    <3> QED
      BY <3>20, <3>21, <3>22, <3>23, <3>24, <3>25, <3>26 DEF SafeInv
  \* The new table covers imm_, so the version that has it stands for imm_ too.
  <2>FlushInstallSafe.
      ASSUME IInv, TypeInv, TypeOK', FlushInstall
      PROVE  SafeInv'
    <3> USE <2>FlushInstallSafe
    <3> USE <1>IInvFacts
    <3>1. /\ job.kind = "flush" /\ job.pc = "install"
          /\ current_' = [current_ EXCEPT !.l0 = @ \cup {job.number}]
          /\ imm_' = {} /\ imm_log_number_' = 0
      BY ONLY FlushInstall DEF FlushInstall
    <3>2. UNCHANGED <<status, mem_, log_number_, next_file_number_, bg_error_,
                      leader, logs, tables, manifest, acked>>
      BY ONLY FlushInstall DEF FlushInstall, disk, history
    <3>3. /\ job'.kind = "flush" /\ job'.pc = "rename"
          /\ job'.target.version = current_' /\ job'.target.log = log_number_
      BY Zenon, <3>1 DEF FlushInstall, CommitOf, OldestLiveLog, NoJob
    <3>4. Committing' /\ ~Renamed'
      BY <3>3 DEF Committing, Renamed
    <3>5. status # "down" /\ status # "newlog" /\ status # "opening"
      BY <3>1 DEF IInv, DownInv, RecoverInv, Committing, NoJob
    <3>6. /\ Readable(tables, job.number)
          /\ imm_ \subseteq tables[job.number].covers
          /\ AllReadable(current_)
      BY Zenon, <3>1, <3>5 DEF IInv, TablesInv, Readable
    <3>7. Live(current_') = Live(current_) \cup {job.number}
      BY <3>1 DEF Live, TypeOK, Version
    <3>8. Covers(tables, current_) \cup imm_ \subseteq Covers(tables, current_')
      <4>1. Covers(tables, current_) \subseteq Covers(tables, current_')
        BY Zenon, <3>7 DEF Covers
      <4>2. tables[job.number].covers \subseteq Covers(tables, current_')
        BY Zenon, <3>6, <3>7, <2>CoversContains
      <4> QED
        BY Zenon, <3>6, <4>1, <4>2
    <3>20. DownInv'
      BY ONLY <3>2, <3>5 DEF DownInv
    <3>21. TablesInv'
      <4>1. \A n \in Live(current_') : Readable(tables, n)
        BY Zenon, <3>6, <3>7 DEF AllReadable
      <4> QED
        BY Zenon, <3>2, <3>3, <4>1 DEF IInv, TablesInv, AllReadable
    <3>22. CommitInv'
      BY Zenon, <3>3, <3>4 DEF CommitInv
    <3>23. OpenInv'
      <4>1. Needed(log_number_) => Needed(log_number_)'
        BY <3>2, <3>3 DEF Needed
      <4> QED
        BY Zenon, <3>1, <3>2, <3>8, <4>1 DEF IInv, OpenInv
    <3>24. RecoverInv'
      BY Zenon, <3>1, <3>2, <3>3, <3>5, <3>8 DEF IInv, RecoverInv
    <3>25. FreshInv'
      BY Zenon, <3>2 DEF IInv, FreshInv, FileNumbersFresh
    <3>26. AckedRecoverable'
      BY Zenon, <3>2 DEF IInv, AckedRecoverable, Recoverable
    <3> QED
      BY <3>20, <3>21, <3>22, <3>23, <3>24, <3>25, <3>26 DEF SafeInv
  \* The output covers every input, and the other tables stay.
  <2>CompactInstallSafe.
      ASSUME IInv, TypeInv, TypeOK', CompactInstall
      PROVE  SafeInv'
    <3> USE <2>CompactInstallSafe
    <3> USE <1>IInvFacts
    <3>1. /\ job.kind = "compact" /\ job.pc = "install"
          /\ current_' = Compacted(current_, job.target.version, job.number)
      BY ONLY CompactInstall DEF CompactInstall
    <3>2. UNCHANGED <<status, mem_, imm_, log_number_, imm_log_number_,
                      next_file_number_, bg_error_, leader, logs, tables,
                      manifest, acked>>
      BY ONLY Zenon, CompactInstall DEF CompactInstall, disk, history
    <3>3. /\ job'.kind = "compact" /\ job'.pc = "rename"
          /\ job'.target.version = current_'
          /\ job'.target.log = IF imm_ # {} THEN imm_log_number_ ELSE log_number_
      BY <3>1 DEF CompactInstall, CommitOf, OldestLiveLog, NoJob
    <3>4. Committing' /\ ~Renamed'
      BY Zenon, <3>3 DEF Committing, Renamed
    <3>5. status = "open"
      <4>1. job # NoJob
        BY ONLY SMTT(30), <3>1 DEF NoJob
      <4>2. status \in {"down", "flushing", "newlog", "opening", "open"}
        BY Zenon DEF IInv, TypeOK
      <4>3. ~Committing
        BY Zenon, <3>1 DEF Committing
      <4> QED
        BY Zenon, <3>1, <4>1, <4>2, <4>3 DEF IInv, DownInv, RecoverInv
    <3>6. /\ Readable(tables, job.number)
          /\ Covers(tables, job.target.version) \subseteq tables[job.number].covers
          /\ AllReadable(current_)
      BY Zenon, <3>1, <3>5 DEF IInv, TablesInv, Readable
    <3>7. /\ Live(current_') \subseteq Live(current_) \cup {job.number}
          /\ Live(current_) \subseteq Live(current_') \cup Live(job.target.version)
          /\ job.number \in Live(current_')
      BY Zenon, <3>1 DEF Live, Compacted
    <3>8. Covers(tables, current_) \subseteq Covers(tables, current_')
      <4>1. tables[job.number].covers \subseteq Covers(tables, current_')
        BY Zenon, <3>6, <3>7, <2>CoversContains
      <4>2. Covers(tables, current_) \subseteq
               Covers(tables, current_') \cup Covers(tables, job.target.version)
        BY Zenon, <3>7 DEF Covers
      <4> QED
        BY Zenon, <3>6, <4>1, <4>2
    <3>20. DownInv'
      BY ONLY <3>2, <3>5 DEF DownInv
    <3>21. TablesInv'
      <4>1. \A n \in Live(current_') : Readable(tables, n)
        BY Zenon, <3>6, <3>7 DEF AllReadable
      <4> QED
        BY Zenon, <3>2, <3>3, <4>1 DEF IInv, TablesInv, AllReadable
    <3>22. CommitInv'
      BY Zenon, <3>3, <3>4 DEF CommitInv
    <3>23. OpenInv'
      <4>1. Needed(log_number_) /\ imm_ # {} => Needed(imm_log_number_)
                                                 /\ imm_log_number_ < log_number_
        BY Zenon, <3>5 DEF IInv, OpenInv
      <4>2. Needed(log_number_)
        BY Zenon, <3>5 DEF IInv, OpenInv
      <4>5. log_number_ \in Nat /\ imm_log_number_ \in Nat /\ manifest.log \in Nat
        BY Zenon
      <4>3. Needed(log_number_)'
        BY ONLY SMTT(30), <3>2, <3>3, <4>1, <4>2, <4>5 DEF Needed
      <4>4. imm_ # {} => Needed(imm_log_number_)'
        BY ONLY SMTT(30), <3>2, <3>3, <4>1, <4>2, <4>5 DEF Needed
      <4> QED
        BY Zenon, <3>2, <3>5, <3>8, <4>1, <4>3, <4>4 DEF IInv, OpenInv
    <3>24. RecoverInv'
      BY Zenon, <3>2, <3>5 DEF RecoverInv
    <3>25. FreshInv'
      BY Zenon, <3>2 DEF IInv, FreshInv, FileNumbersFresh
    <3>26. AckedRecoverable'
      BY Zenon, <3>2 DEF IInv, AckedRecoverable, Recoverable
    <3> QED
      BY <3>20, <3>21, <3>22, <3>23, <3>24, <3>25, <3>26 DEF SafeInv
  <2> USE <1>BackgroundSafe
  <2> QED
    BY <2>FlushStartSafe, <2>CompactStartSafe, <2>BuildTableSafe, <2>BuildFailsSafe,
       <2>FlushInstallSafe, <2>CompactInstallSafe DEF Background
<1>GroupSafe.
    ASSUME IInv, TypeInv, TypeOK', Group
    PROVE  SafeInv'
\* The record is appended to a log whose records are all whole, so it will be
\* replayed.
  <2>AddRecordSafe.
      ASSUME IInv, TypeInv, TypeOK', AddRecord
      PROVE  SafeInv'
    <3> USE <2>AddRecordSafe
    <3> USE <1>IInvFacts
    <3>1. /\ leader.pc = "append" /\ leader'.pc \in {"sync", "insert"}
          /\ leader'.seqs = leader.seqs
          /\ logs' = [logs EXCEPT ![log_number_] =
                         AppendTo(logs[log_number_], leader.seqs, TRUE)]
      BY ONLY AddRecord DEF AddRecord, Leader
    <3>2. UNCHANGED <<status, mem_, imm_, current_, log_number_, imm_log_number_,
                      next_file_number_, bg_error_, job, tables, manifest, acked>>
      BY ONLY AddRecord DEF AddRecord, history
    <3>3. Committing' <=> Committing
      BY Zenon, <3>2 DEF Committing
    <3>4. status = "open"
      BY Zenon, <3>1, <1>LeaderOpen
    <3>5. Needed(log_number_) /\ AllOk(logs[log_number_].recs)
      BY Zenon, <3>1, <3>4 DEF IInv, OpenInv
    <3>6. /\ Visible(logs') = Visible(logs)
          /\ \A S : LogsKept(logs, logs', S)
          /\ AllOk(logs'[log_number_].recs)
          /\ leader.seqs \subseteq Replay(logs'[log_number_].recs)
      BY Zenon, <3>1, <3>5, <1>AppendKeeps DEF Needed, Leader
    <3>20. DownInv'
      BY ONLY <3>4, <3>2 DEF DownInv
    <3>21. TablesInv'
      BY Zenon, <3>2 DEF IInv, TablesInv, AllReadable
    <3>22. CommitInv'
      BY Zenon, <3>2, <3>3 DEF IInv, CommitInv, Renamed
    <3>23. OpenInv'
      <4>1. ASSUME NEW m, Needed(m) PROVE Needed(m)'
        BY Zenon, <3>2, <3>3, <3>6, <4>1 DEF Needed
      <4> QED
        BY ZenonT(40), <3>1, <3>2, <3>6, <4>1, <1>KeptSame, <1>OpenFrame DEF IInv
    <3>24. RecoverInv'
      BY Zenon, <3>2, <3>4 DEF RecoverInv
    <3>25. FreshInv'
      BY Zenon, <3>2, <3>6 DEF IInv, FreshInv, FileNumbersFresh
    <3>26. AckedRecoverable'
      BY Zenon, <3>2, <3>6, <1>KeptSame, <1>AckedFrame DEF IInv
    <3> QED
      BY <3>20, <3>21, <3>22, <3>23, <3>24, <3>25, <3>26 DEF SafeInv
  \* A torn record ends what can be replayed; the latched error is what keeps a
  \* later group from being appended behind it.
  <2>AddRecordFailsSafe.
      ASSUME IInv, TypeInv, TypeOK', AddRecordFails
      PROVE  SafeInv'
    <3> USE <2>AddRecordFailsSafe
    <3> USE <1>IInvFacts
    <3>1. /\ leader.pc = "append" /\ leader' = Idle /\ bg_error_' = TRUE
          /\ logs' = [logs EXCEPT ![log_number_] =
                         AppendTo(logs[log_number_], leader.seqs, FALSE)]
      BY ONLY Zenon, AddRecordFails DEF AddRecordFails, LatchError
    <3>2. UNCHANGED <<status, mem_, imm_, current_, log_number_, imm_log_number_,
                      next_file_number_, job, tables, manifest, acked>>
      BY ONLY AddRecordFails DEF AddRecordFails, history
    <3>3. Committing' <=> Committing
      BY Zenon, <3>2 DEF Committing
    <3>4. status = "open"
      BY Zenon, <3>1, <1>LeaderOpen
    <3>5. Needed(log_number_)
      BY Zenon, <3>1, <3>4 DEF IInv, OpenInv
    <3>6. /\ Visible(logs') = Visible(logs)
          /\ \A S : LogsKept(logs, logs', S)
      BY Zenon, <3>1, <3>5, <1>AppendKeeps DEF Needed, Leader
    <3>20. DownInv'
      BY ONLY <3>4, <3>2 DEF DownInv
    <3>21. TablesInv'
      BY Zenon, <3>2 DEF IInv, TablesInv, AllReadable
    <3>22. CommitInv'
      BY Zenon, <3>2, <3>3 DEF IInv, CommitInv, Renamed
    <3>23. OpenInv'
      <4>1. ASSUME NEW m, Needed(m) PROVE Needed(m)'
        BY Zenon, <3>2, <3>3, <3>6, <4>1 DEF Needed
      <4>2. leader'.pc = "idle"
        BY Zenon, <3>1 DEF Idle
      <4> QED
        BY ZenonT(40), <3>1, <3>2, <3>6, <4>1, <4>2, <1>KeptSame, <1>OpenFrame DEF IInv
    <3>24. RecoverInv'
      BY Zenon, <3>2, <3>4 DEF RecoverInv
    <3>25. FreshInv'
      BY Zenon, <3>2, <3>6 DEF IInv, FreshInv, FileNumbersFresh
    <3>26. AckedRecoverable'
      BY Zenon, <3>2, <3>6, <1>KeptSame, <1>AckedFrame DEF IInv
    <3> QED
      BY <3>20, <3>21, <3>22, <3>23, <3>24, <3>25, <3>26 DEF SafeInv
  <2>SyncLogSafe.
      ASSUME IInv, TypeInv, TypeOK', SyncLog
      PROVE  SafeInv'
    <3> USE <2>SyncLogSafe
    <3> USE <1>IInvFacts
    <3>1. /\ leader.pc = "sync" /\ leader'.pc = "insert"
          /\ leader'.seqs = leader.seqs
          /\ logs' = [logs EXCEPT ![log_number_] = Synced(logs[log_number_])]
      BY ONLY SyncLog DEF SyncLog, Leader
    <3>2. UNCHANGED <<status, mem_, imm_, current_, log_number_, imm_log_number_,
                      next_file_number_, bg_error_, job, tables, manifest, acked>>
      BY ONLY SyncLog DEF SyncLog, history
    <3>3. Committing' <=> Committing
      BY Zenon, <3>2 DEF Committing
    <3>4. status = "open"
      BY Zenon, <3>1, <1>LeaderOpen
    <3>5. Needed(log_number_)
      BY Zenon, <3>4 DEF IInv, OpenInv
    <3>6. /\ Visible(logs') = Visible(logs)
          /\ \A m \in Visible(logs) : logs'[m].recs = logs[m].recs
      <4>1. log_number_ \in DOMAIN logs /\ logs[log_number_] \in LogFile
            /\ logs[log_number_].ent # "unlinked"
        BY Zenon, <3>5 DEF Needed, Visible, LogFiles
      <4>2. /\ Synced(logs[log_number_]).recs = logs[log_number_].recs
            /\ Synced(logs[log_number_]).ent # "unlinked"
        BY <4>1 DEF Synced, Fsynced, LogFile
      <4> QED
        BY Zenon, <3>1, <4>1, <4>2 DEF Visible
    <3>7. \A S : LogsKept(logs, logs', S)
      BY Zenon, <3>6 DEF LogsKept
    <3>20. DownInv'
      BY ONLY <3>4, <3>2 DEF DownInv
    <3>21. TablesInv'
      BY Zenon, <3>2 DEF IInv, TablesInv, AllReadable
    <3>22. CommitInv'
      BY Zenon, <3>2, <3>3 DEF IInv, CommitInv, Renamed
    <3>23. OpenInv'
      <4>1. ASSUME NEW m, Needed(m) PROVE Needed(m)'
        BY Zenon, <3>2, <3>3, <3>6, <4>1 DEF Needed
      <4>2. logs'[log_number_].recs = logs[log_number_].recs
        BY Zenon, <3>5, <3>6 DEF Needed
      <4>3. /\ ~bg_error_ => AllOk(logs[log_number_].recs)
            /\ leader.seqs \subseteq Replay(logs[log_number_].recs)
        BY Zenon, <3>1, <3>4 DEF IInv, OpenInv
      <4> QED
        BY ZenonT(40), <3>1, <3>2, <3>7, <4>1, <4>2, <4>3, <1>KeptSame, <1>OpenFrame DEF IInv
    <3>24. RecoverInv'
      BY Zenon, <3>2, <3>4 DEF RecoverInv
    <3>25. FreshInv'
      BY Zenon, <3>2, <3>6 DEF IInv, FreshInv, FileNumbersFresh
    <3>26. AckedRecoverable'
      BY Zenon, <3>2, <3>7, <1>KeptSame, <1>AckedFrame DEF IInv
    <3> QED
      BY <3>20, <3>21, <3>22, <3>23, <3>24, <3>25, <3>26 DEF SafeInv
  <2>SyncFailsSafe.
      ASSUME IInv, TypeInv, TypeOK', SyncFails
      PROVE  SafeInv'
    <3> USE <2>SyncFailsSafe
    <3> USE <1>IInvFacts
    <3>1. leader.pc = "sync" /\ leader'.pc = "idle" /\ bg_error_' = TRUE
      BY ONLY Zenon, SyncFails DEF SyncFails, LatchError, Idle
    <3>2. UNCHANGED <<status, mem_, imm_, current_, log_number_, imm_log_number_,
                      next_file_number_, job, logs, tables, manifest, acked>>
      BY ONLY SyncFails DEF SyncFails, disk, history
    <3>3. Committing' <=> Committing
      BY Zenon, <3>2 DEF Committing
    <3>4. status = "open"
      BY Zenon, <3>1, <1>LeaderOpen
    <3>20. DownInv'
      BY ONLY <3>4, <3>2 DEF DownInv
    <3>21. TablesInv'
      BY Zenon, <3>2 DEF IInv, TablesInv, AllReadable
    <3>22. CommitInv'
      BY Zenon, <3>2, <3>3 DEF IInv, CommitInv, Renamed
    <3>23. OpenInv'
      <4>1. ASSUME NEW m, Needed(m) PROVE Needed(m)'
        BY Zenon, <3>2, <3>3, <4>1 DEF Needed
      <4> QED
        BY ZenonT(40), <3>1, <3>2, <4>1, <1>KeptSame, <1>OpenFrame DEF IInv
    <3>24. RecoverInv'
      BY Zenon, <3>2, <3>4 DEF RecoverInv
    <3>25. FreshInv'
      BY Zenon, <3>2 DEF IInv, FreshInv, FileNumbersFresh
    <3>26. AckedRecoverable'
      BY Zenon, <3>2 DEF IInv, AckedRecoverable, Recoverable
    <3> QED
      BY <3>20, <3>21, <3>22, <3>23, <3>24, <3>25, <3>26 DEF SafeInv
  \* A group is acknowledged when its record is in the log and it is in mem_.
  <2>InsertAndRetireSafe.
      ASSUME IInv, TypeInv, TypeOK', InsertAndRetire
      PROVE  SafeInv'
    <3> USE <2>InsertAndRetireSafe
    <3> USE <1>IInvFacts
    <3>1. /\ leader.pc = "insert" /\ leader'.pc = "idle"
          /\ mem_' = mem_ \cup leader.seqs /\ acked' = acked \cup leader.seqs
      BY ONLY Zenon, InsertAndRetire DEF InsertAndRetire, Idle
    <3>2. UNCHANGED <<status, imm_, current_, log_number_, imm_log_number_,
                      next_file_number_, bg_error_, job, logs, tables, manifest>>
      BY ONLY Zenon, InsertAndRetire DEF InsertAndRetire, disk
    <3>3. Committing' <=> Committing
      BY Zenon, <3>2 DEF Committing
    <3>4. status = "open"
      BY Zenon, <3>1, <1>LeaderOpen
    <3>5. /\ Needed(log_number_)
          /\ leader.seqs \subseteq Replay(logs[log_number_].recs)
      BY Zenon, <3>1, <3>4 DEF IInv, OpenInv
    <3>20. DownInv'
      BY ONLY <3>4, <3>2 DEF DownInv
    <3>21. TablesInv'
      BY Zenon, <3>2 DEF IInv, TablesInv, AllReadable
    <3>22. CommitInv'
      BY Zenon, <3>2, <3>3 DEF IInv, CommitInv, Renamed
    <3>23. OpenInv'
      <4>1. ASSUME NEW m, Needed(m) PROVE Needed(m)'
        BY Zenon, <3>2, <3>3, <4>1 DEF Needed
      <4>2. Needed(log_number_)' /\ (imm_ # {} => Needed(imm_log_number_)')
        BY Zenon, <3>2, <3>4, <4>1 DEF IInv, OpenInv
      <4> QED
        BY Zenon, <3>1, <3>2, <3>4, <3>5, <4>2 DEF IInv, OpenInv
    <3>24. RecoverInv'
      BY Zenon, <3>2, <3>4 DEF RecoverInv
    <3>25. FreshInv'
      BY Zenon, <3>2 DEF IInv, FreshInv, FileNumbersFresh
    <3>26. AckedRecoverable'
      <4>1. leader.seqs \subseteq ReplayFrom(logs, manifest.log)
        BY Zenon, <3>5, ReplayFromContains DEF Needed
      <4> QED
        BY Zenon, <3>1, <3>2, <4>1 DEF IInv, AckedRecoverable, Recoverable
    <3> QED
      BY <3>20, <3>21, <3>22, <3>23, <3>24, <3>25, <3>26 DEF SafeInv
  <2> USE <1>GroupSafe
  <2> QED
    BY <2>AddRecordSafe, <2>AddRecordFailsSafe, <2>SyncLogSafe, <2>SyncFailsSafe,
       <2>InsertAndRetireSafe DEF Group
<1> SUFFICES ASSUME IInv, TypeInv, TypeInv', [Next]_vars
             PROVE  IInv'
  OBVIOUS
<1>t. TypeOK'
  BY DEF TypeInv
<1> SUFFICES SafeInv'
  BY <1>t DEF IInv, SafeInv
<1>0. IInv /\ TypeInv /\ TypeOK'
  BY <1>t
<1>1. CASE Commit
  BY <1>0, <1>1, <1>CommitSafe
<1>2. CASE Recover
  BY <1>0, <1>2, <1>RecoverLoadSafe, <1>RecoverOpenLogSafe DEF Recover
<1>3. CASE Background
  BY <1>0, <1>3, <1>BackgroundSafe
<1>4. CASE Group
  BY <1>0, <1>4, <1>GroupSafe
<1>5. CASE Client
  <2>1. CASE MakeRoomForWrite
    BY <1>0, <2>1, <1>SwitchMemTableSafe DEF MakeRoomForWrite
  <2>2. CASE MakeRoomFails
    BY <1>0, <2>2, <1>MakeRoomFailsSafe
  <2>3. CASE FlushMemTable
    BY <1>0, <2>3, <1>SwitchMemTableSafe DEF FlushMemTable
  <2>4. ASSUME NEW n \in 1..MaxGroup, NEW sync \in ShouldSyncNow,
               WriteBegin(n, sync)
        PROVE  SafeInv'
    BY <1>0, <2>4, <1>WriteBeginSafe
  <2> QED
    BY <1>5, <2>1, <2>2, <2>3, <2>4 DEF Client
<1>6. CASE Crash
  BY <1>0, <1>6, <1>CrashSafe
<1>7. CASE PowerFail
  BY <1>7 DEF PowerFail
<1>8. CASE UNCHANGED vars
  BY <1>0, <1>8, <1>StutterSafe
<1> QED
  BY <1>1, <1>2, <1>3, <1>4, <1>5, <1>6, <1>7, <1>8 DEF Next

=============================================================================
