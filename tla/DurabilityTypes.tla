-------------------------- MODULE DurabilityTypes ---------------------------
(***************************************************************************)
(* The steps of DurableDB keep TypeInv, whatever the bounds and whatever   *)
(* fails, and OrderInv, beside the other invariants; with the lemmas on    *)
(* files and jobs that the other proofs share.                             *)
(***************************************************************************)
EXTENDS DurabilityInvariants, TLAPS

\* The limit includes the time the prover takes to prepare a step.
USE SMTT(30)

-----------------------------------------------------------------------------
(* Natural numbers *)

\* A set of natural numbers has a least one.  The lemmas assume it; where the
\* theorems are, it is proved.
NatWellOrdered ==
    \A T \in SUBSET Nat : T # {} => \E x \in T : \A y \in T : x <= y

\* The maximum of a set of naturals that has an upper bound.
LEMMA MaxOfBounded ==
    ASSUME NatWellOrdered, NEW S \in SUBSET Nat, S # {},
           NEW b \in Nat, \A n \in S : n <= b
    PROVE  MaxOf(S) \in S /\ \A n \in S : n <= MaxOf(S)
<1> DEFINE U == {u \in Nat : \A n \in S : n <= u}
<1>1. PICK u \in U : \A v \in U : u <= v
  <2>1. b \in U /\ U \in SUBSET Nat
    OBVIOUS
  <2> HIDE DEF U
  <2> QED
    BY Zenon, <2>1 DEF NatWellOrdered
<1>2. u \in S
  <2>1. SUFFICES ASSUME u \notin S PROVE FALSE
    OBVIOUS
  <2>2. PICK m \in S : TRUE
    BY Zenon
  <2>3. u - 1 \in U
    BY <2>1, <2>2
  <2> QED
    BY <1>1, <2>3
<1>3. \E m \in S : \A n \in S : n <= m
  BY <1>1, <1>2
<1> QED
  BY Zenon, <1>3 DEF MaxOf

-----------------------------------------------------------------------------
(* What Recover reads of the files *)

\* What is replayed is a set of sequence numbers.
LEMMA ReplayType ==
    ASSUME TypeOK, NEW k
    PROVE  ReplayFrom(logs, k) \in SUBSET Nat
<1>1. ASSUME NEW recs \in Seq(Record) PROVE Replay(recs) \in SUBSET Nat
  <2>1. \A i \in DOMAIN recs : recs[i] \in Record
    OBVIOUS
  <2>2. \A i \in DOMAIN recs : recs[i].seqs \in SUBSET Nat
    BY <2>1 DEF Record
  <2> QED
    BY <2>2 DEF Replay
<1>2. \A m \in Visible(logs) : logs[m].recs \in Seq(Record)
  BY DEF Visible, TypeOK, LogFiles, LogFile
<1>3. \A m \in Visible(logs) : Replay(logs[m].recs) \in SUBSET Nat
  BY <1>1, <1>2
<1> QED
  BY <1>3 DEF ReplayFrom

LEMMA ReplayBounded ==
    ASSUME TypeOK, NEW b \in Nat, Bounded(b), NEW k,
           NEW s \in ReplayFrom(logs, k)
    PROVE  s <= b
  BY DEF ReplayFrom, Replay, Visible, Bounded, LogsBelow, LogBelow

\* The maxima Recover takes: file numbers and sequence numbers.
LEMMA RecoverMaxima ==
    ASSUME NatWellOrdered, TypeOK, NEW b \in Nat, Bounded(b)
    PROVE  /\ NextFileNumber \in Nat
           /\ NextFileNumber <= b + manifest.next
           /\ \A n \in Visible(logs) \cup Visible(tables) : n < NextFileNumber
           /\ manifest.next <= NextFileNumber
           /\ LastSequence(ReplayFrom(logs, manifest.log)) \in Nat
           /\ LastSequence(ReplayFrom(logs, manifest.log)) <= b + manifest.seq
           /\ manifest.seq <= LastSequence(ReplayFrom(logs, manifest.log))
           /\ \A s \in ReplayFrom(logs, manifest.log) :
                 s <= LastSequence(ReplayFrom(logs, manifest.log))
<1> DEFINE F == {manifest.next}
                   \cup {n + 1 : n \in Visible(logs) \cup Visible(tables)}
           Q == {manifest.seq} \cup ReplayFrom(logs, manifest.log)
<1>1. manifest.next \in Nat /\ manifest.seq \in Nat
  BY DEF TypeOK, Manifest
<1>2. \A n \in Visible(logs) \cup Visible(tables) : n \in Nat /\ n < b
  BY DEF TypeOK, LogFiles, TableFiles, Visible, Bounded, LogsBelow,
         TablesBelow
<1>3. F \in SUBSET Nat /\ F # {} /\ \A n \in F : n <= b + manifest.next
  BY <1>1, <1>2
<1>4. MaxOf(F) \in F /\ \A n \in F : n <= MaxOf(F)
  <2>1. b + manifest.next \in Nat
    BY <1>1
  <2> HIDE DEF F
  <2> QED
    BY ONLY Zenon, NatWellOrdered, <1>3, <2>1, MaxOfBounded
<1>5. Q \in SUBSET Nat /\ Q # {} /\ \A s \in Q : s <= b + manifest.seq
  BY <1>1, ReplayType, ReplayBounded
<1>6. MaxOf(Q) \in Q /\ \A s \in Q : s <= MaxOf(Q)
  <2>1. b + manifest.seq \in Nat
    BY <1>1
  <2> HIDE DEF Q
  <2> QED
    BY ONLY Zenon, NatWellOrdered, <1>5, <2>1, MaxOfBounded
<1>7. NextFileNumber = MaxOf(F)
  BY DEF NextFileNumber
<1>8. LastSequence(ReplayFrom(logs, manifest.log)) = MaxOf(Q)
  BY DEF LastSequence
<1>9. \A n \in Visible(logs) \cup Visible(tables) : n < MaxOf(F)
  <2> TAKE n \in Visible(logs) \cup Visible(tables)
  <2>1. n + 1 \in F
    OBVIOUS
  <2> HIDE DEF F
  <2>2. MaxOf(F) \in Nat /\ n + 1 <= MaxOf(F)
    BY Zenon, <1>3, <1>4, <2>1
  <2>3. n \in Nat
    BY <1>2
  <2> QED
    BY <2>2, <2>3
<1> HIDE DEF F, Q
<1>10. manifest.next <= MaxOf(F)
  BY <1>4 DEF F
<1>11. /\ manifest.seq <= MaxOf(Q)
       /\ \A s \in ReplayFrom(logs, manifest.log) : s <= MaxOf(Q)
  BY Zenon, <1>6 DEF Q
<1> QED
  BY Zenon, <1>3, <1>4, <1>5, <1>6, <1>7, <1>8, <1>9, <1>10, <1>11

LEMMA TypeInit == Init => TypeInv
<1> SUFFICES ASSUME Init PROVE TypeInv
  OBVIOUS
<1>1. TypeOK
  <2>1. NoVersion \in Version
    BY DEF NoVersion, Version
  <2>2. NoManifest \in Manifest
    BY <2>1 DEF NoManifest, Manifest
  <2>3. NoJob \in Job
    BY <2>2 DEF NoJob, Job
  <2>4. Idle \in Leader
    BY DEF Idle, Leader
  <2> QED
    BY Zenon, <2>1, <2>2, <2>3, <2>4 DEF Init, TypeOK, LogFiles, TableFiles
<1>2. Bounded(1)
  BY DEF Init, Bounded, LogsBelow, TablesBelow, Idle
<1> QED
  BY <1>1, <1>2 DEF TypeInv

-----------------------------------------------------------------------------
(* Lemmas on the records of the threads *)

LEMMA IdleTypes ==
    /\ NoVersion \in Version
    /\ NoManifest \in Manifest
    /\ NoJob \in Job
    /\ Idle \in Leader
<1>1. NoVersion \in Version
  BY DEF NoVersion, Version
<1>2. NoManifest \in Manifest
  BY <1>1 DEF NoManifest, Manifest
<1>3. NoJob \in Job
  BY <1>2 DEF NoJob, Job
<1> QED
  BY <1>1, <1>2, <1>3 DEF Idle, Leader

LEMMA JobFields ==
    ASSUME NEW j \in Job
    PROVE  /\ j.number \in Nat
           /\ j.target \in Manifest
           /\ j.target.version \in Version
           /\ j.target.log \in Nat
           /\ j.target.next \in Nat
           /\ j.target.seq \in Nat
           /\ j.doomedLogs \in SUBSET Nat
           /\ j.doomedTables \in SUBSET Nat
  BY DEF Job, Manifest

LEMMA CommitOfType ==
    ASSUME NEW kind \in {"flush", "compact", "open"}, NEW v \in Version,
           NEW log \in Nat, NEW next \in Nat, last_sequence_ \in Nat
    PROVE  /\ CommitOf(kind, v, log, next) \in Job
           /\ CommitOf(kind, v, log, next).kind = kind
           /\ CommitOf(kind, v, log, next).pc = "rename"
           /\ CommitOf(kind, v, log, next).target
                 = [version |-> v, log |-> log, next |-> next,
                    seq |-> last_sequence_]
<1>1. [version |-> v, log |-> log, next |-> next, seq |-> last_sequence_]
         \in Manifest
  BY DEF Manifest
<1>2. NoJob \in Job
  BY IdleTypes
<1> QED
  BY Zenon, <1>1, <1>2 DEF CommitOf, Job

BuildJob(kind, n, inputs) ==
    [NoJob EXCEPT !.kind = kind, !.pc = "build", !.number = n,
                  !.target.version = inputs]

\* The inputs of a compaction are tables of current_.
LEMMA CompactInputs ==
    ASSUME current_ \in Version, CompactStart
    PROVE  \E inputs \in Version :
              /\ StartTable("compact", inputs)
              /\ inputs.l0 \subseteq current_.l0
              /\ inputs.deep \subseteq current_.deep
<1>1. current_.l0 \subseteq Nat /\ current_.deep \subseteq Nat
  BY DEF Version
<1>2. PICK below \in SUBSET current_.deep, top \in SUBSET current_.l0 :
        StartTable("compact", [l0 |-> top, deep |-> below])
  BY Zenon DEF CompactStart
<1>3. [l0 |-> top, deep |-> below] \in Version
  BY <1>1 DEF Version
<1> QED
  BY <1>2, <1>3

LEMMA BuildJobType ==
    ASSUME NEW kind \in {"flush", "compact"}, NEW n \in Nat,
           NEW v \in Version
    PROVE  /\ BuildJob(kind, n, v) \in Job
           /\ BuildJob(kind, n, v).kind = kind
           /\ BuildJob(kind, n, v).pc = "build"
           /\ BuildJob(kind, n, v).number = n
           /\ BuildJob(kind, n, v).target.version = v
<1>1. [NoManifest EXCEPT !.version = v] \in Manifest
      /\ [NoManifest EXCEPT !.version = v].version = v
  BY IdleTypes DEF Manifest
<1>2. NoJob \in Job /\ NoJob.target = NoManifest
  BY IdleTypes DEF NoJob
<1>3. BuildJob(kind, n, v)
        = [NoJob EXCEPT !.kind = kind, !.pc = "build", !.number = n,
                        !.target = [NoManifest EXCEPT !.version = v]]
  BY Zenon, <1>2 DEF BuildJob
<1> QED
  BY Zenon, <1>1, <1>2, <1>3 DEF Job

-----------------------------------------------------------------------------
(* Type correctness of every step *)

\* Every step keeps the types; the new bound allows for the file and the group
\* a step may add, and for what Recover reads from the manifest.
LEMMA TypeNext ==
    ASSUME NatWellOrdered
    PROVE  TypeInv /\ [Next]_vars => TypeInv'
<1>CoversType.
    ASSUME TypeOK, NEW v
    PROVE  Covers(tables, v) \in SUBSET Nat
  BY <1>CoversType DEF Covers, Readable, Visible, TypeOK, TableFiles, TableFile
<1>NewFileTypes.
    /\ NewLogFile \in LogFile
    /\ NewTableFile \in TableFile
  <2>1. <<>> \in Seq(Record)
    OBVIOUS
  <2> QED
    BY <2>1 DEF NewLogFile, NewTableFile, LogFile, TableFile, Entries
<1>FsyncedType.
    ASSUME NEW e \in Entries PROVE Fsynced(e) \in Entries
  BY <1>FsyncedType DEF Fsynced, Entries
<1>AppendToType.
    ASSUME NEW f \in LogFile, NEW S \in SUBSET Nat, NEW ok \in BOOLEAN
    PROVE  AppendTo(f, S, ok) \in LogFile
  <2> USE <1>AppendToType
  <2>1. [seqs |-> S, ok |-> ok] \in Record
    BY DEF Record
  <2>2. f.recs \in Seq(Record)
    BY DEF LogFile
  <2>3. Append(f.recs, [seqs |-> S, ok |-> ok]) \in Seq(Record)
    BY <2>1, <2>2
  <2> QED
    BY Zenon, <2>3 DEF AppendTo, LogFile
<1>SyncedType.
    ASSUME NEW f \in LogFile PROVE Synced(f) \in LogFile
  <2> USE <1>SyncedType
  <2>1. f.recs \in Seq(Record) /\ f.ent \in Entries
    BY DEF LogFile
  <2>2. Len(f.recs) \in Nat
    BY <2>1
  <2> QED
    BY Zenon, <2>1, <2>2, <1>FsyncedType DEF Synced, LogFile
<1>FinishedType.
    ASSUME NEW f \in TableFile, NEW S \in SUBSET Nat
    PROVE  Finished(f, S) \in TableFile
  BY <1>FinishedType, <1>FsyncedType DEF Finished, TableFile
<1>CutLogType.
    ASSUME NEW f \in LogFile, NEW k \in 0..Len(f.recs)
    PROVE  CutLog(f, k) \in LogFile
  <2> USE <1>CutLogType
  <2>1. f.recs \in Seq(Record)
    BY DEF LogFile
  <2>2. SubSeq(f.recs, 1, k) \in Seq(Record)
    BY <2>1
  <2> QED
    BY <2>1, <2>2 DEF CutLog, LogFile, Entries
<1>LogFilesUpdate.
    ASSUME NEW L, LogFiles(L), NEW n \in Nat, NEW f \in LogFile
    PROVE  /\ LogFiles(Create(L, n, f))
           /\ LogFiles([L EXCEPT ![n] = f])
           /\ LogFiles(Settled(L))
           /\ LogFiles(Unlink(L, n))
  <2> USE <1>LogFilesUpdate
  <2>1. LogFiles(Create(L, n, f))
    BY Zenon DEF LogFiles, Create
  <2>2. LogFiles([L EXCEPT ![n] = f])
    BY Zenon DEF LogFiles
  <2>3. \A g \in LogFile, e \in Entries : [g EXCEPT !.ent = e] \in LogFile
    BY DEF LogFile
  <2>4. "durable" \in Entries /\ "unlinked" \in Entries
    BY DEF Entries
  <2>5. LogFiles(Settled(L))
    BY <2>3, <2>4 DEF LogFiles, Settled, Visible
  <2>6. LogFiles(Unlink(L, n))
    BY <2>3, <2>4 DEF LogFiles, Unlink
  <2> QED
    BY <2>1, <2>2, <2>5, <2>6
<1>TableFilesUpdate.
    ASSUME NEW T, TableFiles(T), NEW n \in Nat, NEW f \in TableFile
    PROVE  /\ TableFiles(Create(T, n, f))
           /\ TableFiles([T EXCEPT ![n] = f])
           /\ TableFiles(Settled(T))
           /\ TableFiles(Unlink(T, n))
           /\ TableFiles(Without(T, {n}))
  <2> USE <1>TableFilesUpdate
  <2>1. TableFiles(Create(T, n, f))
    BY DEF TableFiles, Create
  <2>2. TableFiles([T EXCEPT ![n] = f])
    BY DEF TableFiles
  <2>3. \A g \in TableFile, e \in Entries : [g EXCEPT !.ent = e] \in TableFile
    BY DEF TableFile
  <2>4. "durable" \in Entries /\ "unlinked" \in Entries
    BY DEF Entries
  <2>5. TableFiles(Settled(T))
    BY <2>3, <2>4 DEF TableFiles, Settled, Visible
  <2>6. TableFiles(Unlink(T, n))
    BY <2>3, <2>4 DEF TableFiles, Unlink
  <2>7. TableFiles(Without(T, {n}))
    BY DEF TableFiles, Without
  <2> QED
    BY <2>1, <2>2, <2>5, <2>6, <2>7
<1>LogsBelowUpdate.
    ASSUME NEW b \in Nat, NEW c \in Nat, b <= c,
           NEW L, LogFiles(L), LogsBelow(L, b),
           NEW n \in Nat
    PROVE  /\ LogsBelow(L, c)
           /\ LogsBelow(Settled(L), c)
           /\ LogsBelow(Unlink(L, n), c)
           /\ n < c => LogsBelow(Create(L, n, NewLogFile), c)
           /\ LogsBelow([L EXCEPT ![n] = Synced(@)], c)
           /\ \A ok \in BOOLEAN, S \in SUBSET Nat :
                 (\A s \in S : s <= b)
                    => LogsBelow([L EXCEPT ![n] = AppendTo(@, S, ok)], c)
  <2> USE <1>LogsBelowUpdate
  <2>0. \A m \in DOMAIN L : L[m].recs \in Seq(Record)
    BY DEF LogFiles, LogFile
  <2>01. \A m \in DOMAIN L : \A i \in DOMAIN L[m].recs :
            L[m].recs[i].seqs \in SUBSET Nat
    <3>1. \A recs \in Seq(Record) : \A i \in DOMAIN recs : recs[i] \in Record
      OBVIOUS
    <3>2. \A m \in DOMAIN L : \A i \in DOMAIN L[m].recs : L[m].recs[i] \in Record
      BY <2>0, <3>1
    <3> QED
      BY <3>2 DEF Record
  <2>1. LogsBelow(L, c)
    BY <2>01 DEF LogsBelow, LogBelow, LogFiles
  <2>2. LogsBelow(Settled(L), c)
    BY Zenon, <2>1 DEF LogsBelow, LogBelow, Settled, Visible, LogFiles, LogFile
  <2>3. LogsBelow(Unlink(L, n), c)
    BY Zenon, <2>1 DEF LogsBelow, LogBelow, Unlink, LogFiles, LogFile
  <2>4. n < c => LogsBelow(Create(L, n, NewLogFile), c)
    <3>1. LogBelow(NewLogFile, c)
      BY DEF LogBelow, NewLogFile
    <3> QED
      BY <2>1, <3>1 DEF LogsBelow, Create
  <2>5. LogsBelow([L EXCEPT ![n] = Synced(@)], c)
    <3>1. \A m \in DOMAIN L : Synced(L[m]).recs = L[m].recs
      BY DEF Synced, LogFiles, LogFile
    <3> QED
      BY Zenon, <2>1, <3>1 DEF LogsBelow, LogBelow
  <2>6. ASSUME NEW ok \in BOOLEAN, NEW S \in SUBSET Nat, \A s \in S : s <= b
        PROVE  LogsBelow([L EXCEPT ![n] = AppendTo(@, S, ok)], c)
    <3>1. ASSUME NEW m \in DOMAIN L PROVE LogBelow(AppendTo(L[m], S, ok), c)
      <4>1. L[m].recs \in Seq(Record)
        BY <2>0
      <4>2. AppendTo(L[m], S, ok).recs
               = Append(L[m].recs, [seqs |-> S, ok |-> ok])
        BY DEF AppendTo, LogFiles, LogFile
      <4>3. LogBelow(L[m], c)
        BY <2>1 DEF LogsBelow
      <4>4. ASSUME NEW i \in 1..(Len(L[m].recs) + 1)
            PROVE  \A s \in Append(L[m].recs, [seqs |-> S, ok |-> ok])[i].seqs :
                      s <= c
        <5>1. CASE i = Len(L[m].recs) + 1
          <6>1. Append(L[m].recs, [seqs |-> S, ok |-> ok])[i]
                   = [seqs |-> S, ok |-> ok]
            BY <4>1, <5>1
          <6>2. Append(L[m].recs, [seqs |-> S, ok |-> ok])[i].seqs = S
            BY <6>1
          <6>3. \A s \in S : s <= c
            BY <2>6
          <6> QED
            BY Zenon, <6>2, <6>3
        <5>2. CASE i \in DOMAIN L[m].recs
          <6>1. Append(L[m].recs, [seqs |-> S, ok |-> ok])[i] = L[m].recs[i]
            BY <4>1, <5>2
          <6> QED
            BY Zenon, <4>3, <5>2, <6>1 DEF LogBelow
        <5> QED
          BY <4>1, <5>1, <5>2
      <4>5. DOMAIN Append(L[m].recs, [seqs |-> S, ok |-> ok])
               = 1..(Len(L[m].recs) + 1)
        BY <4>1
      <4> QED
        BY Zenon, <4>2, <4>4, <4>5 DEF LogBelow
    <3> QED
      BY <2>1, <3>1 DEF LogsBelow
  <2> QED
    BY Zenon, <2>1, <2>2, <2>3, <2>4, <2>5, <2>6
<1>TablesBelowUpdate.
    ASSUME NEW b \in Nat, NEW c \in Nat, b <= c,
           NEW T, TableFiles(T), TablesBelow(T, b),
           NEW n \in Nat, NEW f
    PROVE  /\ TablesBelow(T, c)
           /\ TablesBelow(Settled(T), c)
           /\ TablesBelow(Unlink(T, n), c)
           /\ TablesBelow(Without(T, {n}), c)
           /\ n < c => TablesBelow(Create(T, n, f), c)
           /\ TablesBelow([T EXCEPT ![n] = f], c)
  BY <1>TablesBelowUpdate DEF TablesBelow, TableFiles, Settled, Visible, Unlink, Without, Create
<1>JobStage.
    ASSUME NEW j \in Job, NEW S \in SUBSET Nat, NEW T \in SUBSET Nat
    PROVE  /\ [j EXCEPT !.pc = "dirsync"] \in Job
           /\ [j EXCEPT !.pc = "list"] \in Job
           /\ [j EXCEPT !.pc = "install"] \in Job
           /\ [j EXCEPT !.pc = "unlink", !.doomedLogs = S,
                        !.doomedTables = T] \in Job
           /\ [j EXCEPT !.doomedLogs = S] \in Job
           /\ [j EXCEPT !.doomedTables = T] \in Job
  BY <1>JobStage, Zenon DEF Job
\* After a power loss the logs are prefixes of what they were.
<1>PowerFailLogs.
    ASSUME TypeOK, NEW b \in Nat, NEW c \in Nat, b <= c, LogsBelow(logs, b),
           PowerFail
    PROVE  LogFiles(logs)' /\ LogsBelow(logs, c)'
  <2> USE <1>PowerFailLogs
  <2>0. PICK L \in SUBSET (DOMAIN logs \ Certain(logs)) :
          \E cut \in [Certain(logs) \cup L -> 0..MaxSeq] :
            /\ \A n \in DOMAIN cut : cut[n] \in logs[n].synced..Len(logs[n].recs)
            /\ logs' = [n \in DOMAIN cut |-> CutLog(logs[n], cut[n])]
    BY Zenon DEF PowerFail
  <2>1. PICK cut \in [Certain(logs) \cup L -> 0..MaxSeq] :
          /\ \A n \in DOMAIN cut : cut[n] \in logs[n].synced..Len(logs[n].recs)
          /\ logs' = [n \in DOMAIN cut |-> CutLog(logs[n], cut[n])]
    BY <2>0
  <2>2. DOMAIN cut \subseteq DOMAIN logs /\ DOMAIN logs' = DOMAIN cut
    BY <2>1 DEF Certain
  <2>3. ASSUME NEW n \in DOMAIN cut
        PROVE  /\ logs'[n] \in LogFile
               /\ n < c /\ LogBelow(logs'[n], c)
    <3>1. logs[n] \in LogFile /\ n \in Nat
      BY <2>2 DEF TypeOK, LogFiles
    <3>2. logs[n].recs \in Seq(Record) /\ logs[n].synced \in Nat
      BY <3>1 DEF LogFile
    <3>3. cut[n] \in 0..Len(logs[n].recs)
      BY <2>1, <3>2
    <3>4. logs'[n] = CutLog(logs[n], cut[n])
      BY <2>1
    <3>5. LogsBelow(logs, c)
      BY Zenon, <1>LogsBelowUpdate, <3>1 DEF TypeOK
    <3>6. LogBelow(logs[n], c) /\ n < c
      BY <2>2, <3>5 DEF LogsBelow
    <3>7. CutLog(logs[n], cut[n]).recs = SubSeq(logs[n].recs, 1, cut[n])
      BY DEF CutLog
    <3>8. DOMAIN SubSeq(logs[n].recs, 1, cut[n]) = 1..cut[n]
      BY <3>2, <3>3
    <3>9. \A i \in 1..cut[n] :
             /\ i \in DOMAIN logs[n].recs
             /\ SubSeq(logs[n].recs, 1, cut[n])[i] = logs[n].recs[i]
      BY <3>2, <3>3
    <3>10. LogBelow(CutLog(logs[n], cut[n]), c)
      BY Zenon, <3>6, <3>7, <3>8, <3>9 DEF LogBelow
    <3> QED
      BY <3>1, <3>3, <3>4, <3>6, <3>10, <1>CutLogType
  <2>4. DOMAIN logs' \in SUBSET Nat
    BY <2>2 DEF TypeOK, LogFiles
  <2> QED
    BY <2>2, <2>3, <2>4 DEF LogFiles, LogsBelow
\* What a process has lost is back at its initial value.
<1>LoseMemoryTypes.
    ASSUME LoseMemory, faults \in Nat
    PROVE  /\ status' \in {"down", "flushing", "newlog", "opening", "open"}
           /\ mem_' \in SUBSET Nat /\ imm_' \in SUBSET Nat
           /\ current_' \in Version
           /\ log_number_' \in Nat /\ imm_log_number_' \in Nat
           /\ next_file_number_' \in Nat
           /\ last_sequence_' \in Nat
           /\ bg_error_' \in BOOLEAN
           /\ leader' \in Leader
           /\ job' \in Job
           /\ faults' \in Nat
  <2> USE <1>LoseMemoryTypes
  <2>1. NoVersion \in Version /\ Idle \in Leader /\ NoJob \in Job
    BY IdleTypes
  <2>2. bg_error_' \in BOOLEAN
    BY Zenon DEF LoseMemory
  <2>3. /\ mem_' \in SUBSET Nat /\ imm_' \in SUBSET Nat
        /\ log_number_' \in Nat /\ imm_log_number_' \in Nat
        /\ next_file_number_' \in Nat /\ last_sequence_' \in Nat
        /\ faults' \in Nat
    BY DEF LoseMemory
  <2>4. status' \in {"down", "flushing", "newlog", "opening", "open"}
    BY DEF LoseMemory
  <2>5. current_' \in Version /\ leader' \in Leader /\ job' \in Job
    BY <2>1 DEF LoseMemory
  <2> QED
    BY <2>2, <2>3, <2>4, <2>5
<1> SUFFICES ASSUME TypeOK, NEW b \in Nat, Bounded(b), [Next]_vars
             PROVE  TypeInv'
  BY DEF TypeInv
<1> USE DurableDBAssumption
<1>b. /\ manifest.version \in Version /\ manifest.log \in Nat
      /\ manifest.next \in Nat /\ manifest.seq \in Nat
  BY DEF TypeOK, Manifest
<1>c. PICK c \in Nat : c = b + 1 + MaxGroup + manifest.next + manifest.seq
  BY <1>b
<1>d. /\ b <= c /\ b + 1 <= c /\ b + MaxGroup <= c
      /\ b + manifest.next <= c /\ b + manifest.seq <= c
  BY <1>b, <1>c
<1>e. /\ LogFiles(logs) /\ LogsBelow(logs, b) /\ LogsBelow(logs, c)
      /\ TableFiles(tables) /\ TablesBelow(tables, b) /\ TablesBelow(tables, c)
      /\ log_number_ \in Nat /\ imm_log_number_ \in Nat
      /\ last_sequence_ \in Nat /\ last_sequence_ <= b
      /\ next_file_number_ \in Nat /\ next_file_number_ <= b
      /\ \A s \in leader.seqs : s <= b
  BY Zenon, <1>d, <1>LogsBelowUpdate, <1>TablesBelowUpdate DEF TypeOK, Bounded
<1>f. /\ leader \in Leader
      /\ leader.seqs \in SUBSET Nat /\ leader.sync \in BOOLEAN
  BY DEF TypeOK, Leader
<1>g. /\ next_file_number_ + 1 <= c /\ next_file_number_ < c
      /\ next_file_number_ <= c /\ last_sequence_ <= c
      /\ \A s \in leader.seqs : s <= c
  BY <1>d, <1>e, <1>f
<1>h. /\ job \in Job /\ current_ \in Version
      /\ job.number \in Nat /\ job.target \in Manifest
      /\ job.target.version \in Version
      /\ job.doomedLogs \in SUBSET Nat /\ job.doomedTables \in SUBSET Nat
  BY JobFields DEF TypeOK
<1>i. /\ NoJob \in Job /\ Idle \in Leader /\ Idle.seqs = {}
      /\ NoVersion \in Version /\ NoManifest \in Manifest
      /\ NewLogFile \in LogFile /\ NewTableFile \in TableFile
  BY IdleTypes, <1>NewFileTypes DEF Idle
<1>j. /\ next_file_number_ + 1 \in Nat /\ faults + 1 \in Nat
      /\ 0 \in Nat /\ 1 \in Nat /\ 0 <= c /\ 1 <= c
  BY <1>b, <1>c, <1>d, <1>e DEF TypeOK
<1> SUFFICES TypeOK' /\ Bounded(c)'
  BY DEF TypeInv
<1> USE <1>b, <1>d, <1>e, <1>f, <1>g, <1>h, <1>i
<1>1. CASE RenameManifest
  <2>1. job' \in Job
    BY Zenon, <1>1, <1>JobStage DEF RenameManifest
  <2>2. manifest' \in Manifest /\ survivors' \in SUBSET Manifest
    BY Zenon, <1>1 DEF RenameManifest, TypeOK
  <2> QED
    BY Zenon, <1>1, <2>1, <2>2
      DEF RenameManifest, TypeOK, Bounded, disk, history
<1>2. CASE SyncDirectory
  <2>1. job' \in Job
    BY Zenon, <1>2, <1>JobStage DEF SyncDirectory
  <2>2. LogFiles(logs)' /\ LogsBelow(logs, c)'
    BY Zenon, <1>2, <1>LogFilesUpdate, <1>LogsBelowUpdate DEF SyncDirectory
  <2>3. TableFiles(tables)' /\ TablesBelow(tables, c)'
    BY Zenon, <1>2, <1>TableFilesUpdate, <1>TablesBelowUpdate DEF SyncDirectory
  <2>4. survivors' \in SUBSET Manifest
    BY Zenon, <1>2 DEF SyncDirectory, TypeOK
  <2> QED
    BY Zenon, <1>2, <2>1, <2>2, <2>3, <2>4
      DEF SyncDirectory, TypeOK, Bounded, disk, history
<1>3. CASE ListObsolete
  <2>1. ObsoleteLogs(job.target.log) \in SUBSET Nat
    BY Zenon, <1>3 DEF ObsoleteLogs, Visible, LogFiles
  <2>2. ObsoleteTables(job.target.version) \in SUBSET Nat
    BY Zenon, <1>3 DEF ObsoleteTables, Visible, TableFiles
  <2>3. job' \in Job
    BY Zenon, <1>3, <1>JobStage, <2>1, <2>2 DEF ListObsolete
  <2> QED
    BY Zenon, <1>3, <2>1, <2>2, <2>3
      DEF ListObsolete, TypeOK, Bounded, disk, history
<1>4. CASE \E n \in job.doomedLogs : UnlinkLog(n)
  <2>1. PICK n \in job.doomedLogs : UnlinkLog(n)
    BY Zenon, <1>4
  <2>2. job.doomedLogs \ {n} \in SUBSET Nat /\ n \in Nat
    BY Zenon, <1>4
  <2>3. job' \in Job
    BY Zenon, <1>4, <2>1, <2>2, <1>JobStage DEF UnlinkLog
  <2>4. logs' = logs \/ logs' = Unlink(logs, n)
    BY Zenon, <1>4, <2>1 DEF UnlinkLog, UnlinkIn
  <2>5. LogFiles(Unlink(logs, n)) /\ LogsBelow(Unlink(logs, n), c)
    BY Zenon, <2>2, <1>LogFilesUpdate, <1>LogsBelowUpdate
  <2>6. LogFiles(logs') /\ LogsBelow(logs', c)
    BY Zenon, <2>4, <2>5
  <2>7. faults' \in Nat
    BY <2>1 DEF UnlinkLog, UnlinkIn, TypeOK
  <2> QED
    BY Zenon, <2>1, <2>3, <2>6, <2>7
      DEF UnlinkLog, TypeOK, Bounded
<1>5. CASE \E n \in job.doomedTables : UnlinkTable(n)
  <2>1. PICK n \in job.doomedTables : UnlinkTable(n)
    BY Zenon, <1>5
  <2>2. job.doomedTables \ {n} \in SUBSET Nat /\ n \in Nat
    BY Zenon, <1>5
  <2>3. job' \in Job
    BY Zenon, <1>5, <2>1, <2>2, <1>JobStage DEF UnlinkTable
  <2>4. tables' = tables \/ tables' = Unlink(tables, n)
    BY Zenon, <1>5, <2>1 DEF UnlinkTable, UnlinkIn
  <2>5. TableFiles(Unlink(tables, n)) /\ TablesBelow(Unlink(tables, n), c)
    BY Zenon, <2>2, <1>TableFilesUpdate, <1>TablesBelowUpdate
  <2>6. TableFiles(tables') /\ TablesBelow(tables', c)
    BY Zenon, <2>4, <2>5
  <2>7. faults' \in Nat
    BY <2>1 DEF UnlinkTable, UnlinkIn, TypeOK
  <2> QED
    BY Zenon, <2>1, <2>3, <2>6, <2>7
      DEF UnlinkTable, TypeOK, Bounded
<1>6. CASE CommitDone
  <2> QED
    BY Zenon, <1>6 DEF CommitDone, TypeOK, Bounded, disk, history
<1>7. CASE CommitFails
  <2> QED
    BY Zenon, <1>7 DEF CommitFails, TypeOK, Bounded, disk, history
<1>8. CASE RecoverLoad
  <2>1. /\ next_file_number_' \in Nat /\ next_file_number_' <= c
        /\ last_sequence_' \in Nat /\ last_sequence_' <= c
    BY <1>8, RecoverMaxima DEF RecoverLoad
  <2>2. imm_' \in SUBSET Nat
    BY Zenon, <1>8, ReplayType DEF RecoverLoad, TypeOK
  <2> QED
    BY Zenon, <1>8, <2>1, <2>2 DEF RecoverLoad, TypeOK, Bounded, disk, history
<1>9. CASE RecoverOpenLog
  <2>1. LogFiles(logs)' /\ LogsBelow(logs, c)'
    BY Zenon, <1>9, <1>LogFilesUpdate, <1>LogsBelowUpdate DEF RecoverOpenLog
  <2>2. job' = CommitOf("open", current_,
                        OldestLiveLog(imm_, imm_log_number_,
                                      next_file_number_),
                        next_file_number_ + 1)
    BY Zenon, <1>9 DEF RecoverOpenLog
  <2>3. /\ OldestLiveLog(imm_, imm_log_number_, next_file_number_) \in Nat
        /\ next_file_number_ + 1 \in Nat
    BY ONLY SMTT(30), <1>e DEF OldestLiveLog
  <2>4. job' \in Job
    BY Zenon, <2>2, <2>3, CommitOfType
  <2> QED
    BY Zenon, <1>9, <1>j, <2>1, <2>4
      DEF RecoverOpenLog, TypeOK, Bounded, disk, history
<1>10. CASE FlushStart
  <2>1. TableFiles(tables)' /\ TablesBelow(tables, c)'
    BY Zenon, <1>10, <1>TableFilesUpdate, <1>TablesBelowUpdate
      DEF FlushStart, StartTable
  <2>2. job' = BuildJob("flush", next_file_number_, NoVersion)
    BY Zenon, <1>10 DEF FlushStart, StartTable, BuildJob
  <2>3. job' \in Job
    BY Zenon, <1>10, <2>2, BuildJobType
  <2> QED
    BY Zenon, <1>10, <1>j, <2>1, <2>2, <2>3
      DEF FlushStart, StartTable, TypeOK, Bounded, disk, history
<1>11. CASE CompactStart
  <2>1. PICK inputs \in Version : StartTable("compact", inputs)
    BY Zenon, <1>11, CompactInputs
  <2>2. TableFiles(tables)' /\ TablesBelow(tables, c)'
    BY Zenon, <2>1, <1>TableFilesUpdate, <1>TablesBelowUpdate DEF StartTable
  <2>3. job' = BuildJob("compact", next_file_number_, inputs)
    BY Zenon, <2>1 DEF StartTable, BuildJob
  <2>4. job' \in Job
    BY Zenon, <2>3, BuildJobType
  <2> QED
    BY <2>1, <2>2, <2>4 DEF StartTable, TypeOK, Bounded, history
<1>12. CASE BuildTable
  <2>1. job' \in Job
    BY Zenon, <1>12, <1>JobStage DEF BuildTable
  <2>2. BuiltFrom \in SUBSET Nat
    BY Zenon, <1>12, <1>CoversType DEF BuiltFrom, TypeOK
  <2>3. TableFiles(tables)'
    BY Zenon, <1>12, <2>2, <1>TableFilesUpdate, <1>FinishedType
      DEF BuildTable, TableFiles
  <2>4. TablesBelow(tables, c)'
    BY Zenon, <1>12 DEF BuildTable, TablesBelow
  <2> QED
    BY Zenon, <1>12, <2>1, <2>2, <2>3, <2>4
      DEF BuildTable, TypeOK, Bounded, disk, history
<1>13. CASE BuildFails
  <2>1. tables' = tables \/ tables' = Without(tables, {job.number})
    BY Zenon, <1>13 DEF BuildFails
  <2>2. /\ TableFiles(Without(tables, {job.number}))
        /\ TablesBelow(Without(tables, {job.number}), c)
    BY Zenon, <1>TableFilesUpdate, <1>TablesBelowUpdate
  <2>3. TableFiles(tables') /\ TablesBelow(tables', c)
    BY Zenon, <2>1, <2>2
  <2> QED
    BY Zenon, <1>13, <2>3 DEF BuildFails, TypeOK, Bounded, disk, history
<1>14. CASE FlushInstall
  <2>1. current_' \in Version
    BY Zenon, <1>14 DEF FlushInstall, Version
  <2>2. job' \in Job
    BY Zenon, <1>14, <2>1, CommitOfType DEF FlushInstall, OldestLiveLog
  <2> QED
    BY Zenon, <1>14, <2>1, <2>2
      DEF FlushInstall, TypeOK, Bounded, disk, history
<1>15. CASE CompactInstall
  <2>1. current_' \in Version
    BY Zenon, <1>15 DEF CompactInstall, Compacted, Version
  <2>2. job' \in Job
    BY Zenon, <1>15, <2>1, CommitOfType DEF CompactInstall, OldestLiveLog
  <2> QED
    BY Zenon, <1>15, <2>1, <2>2
      DEF CompactInstall, TypeOK, Bounded, disk, history
<1>16. CASE AddRecord
  <2>1. LogFiles(logs)'
    BY Zenon, <1>16, <1>LogFilesUpdate, <1>AppendToType DEF AddRecord, LogFiles
  <2>2. LogsBelow(logs, c)'
    BY Zenon, <1>16, <1>LogsBelowUpdate DEF AddRecord
  <2>3. leader' \in Leader
    BY Zenon, <1>16 DEF AddRecord, Leader
  <2>4. leader'.seqs = leader.seqs
    BY Zenon, <1>16 DEF AddRecord, Leader
  <2> QED
    BY Zenon, <1>16, <2>1, <2>2, <2>3, <2>4
      DEF AddRecord, TypeOK, Bounded, disk, history
<1>17. CASE AddRecordFails
  <2>1. LogFiles(logs)'
    BY Zenon, <1>17, <1>LogFilesUpdate, <1>AppendToType DEF AddRecordFails, LogFiles
  <2>2. LogsBelow(logs, c)'
    BY Zenon, <1>17, <1>LogsBelowUpdate DEF AddRecordFails
  <2> QED
    BY Zenon, <1>17, <2>1, <2>2
      DEF AddRecordFails, LatchError, TypeOK, Bounded, disk, history
<1>18. CASE SyncLog
  <2>1. LogFiles(logs)'
    BY Zenon, <1>18, <1>LogFilesUpdate, <1>SyncedType DEF SyncLog, LogFiles
  <2>2. LogsBelow(logs, c)'
    BY Zenon, <1>18, <1>LogsBelowUpdate DEF SyncLog
  <2>3. leader' \in Leader
    BY Zenon, <1>18 DEF SyncLog, Leader
  <2>4. leader'.seqs = leader.seqs
    BY Zenon, <1>18 DEF SyncLog, Leader
  <2> QED
    BY Zenon, <1>18, <2>1, <2>2, <2>3, <2>4
      DEF SyncLog, TypeOK, Bounded, disk, history
<1>19. CASE SyncFails
  <2> QED
    BY Zenon, <1>19 DEF SyncFails, LatchError, TypeOK, Bounded, disk, history
<1>20. CASE InsertAndRetire
  <2> QED
    BY Zenon, <1>20 DEF InsertAndRetire, TypeOK, Bounded, disk, history
<1>21. CASE MakeRoomForWrite
  <2>1. LogFiles(logs)' /\ LogsBelow(logs, c)'
    BY Zenon, <1>21, <1>LogFilesUpdate, <1>LogsBelowUpdate
      DEF MakeRoomForWrite, SwitchMemTable
  <2> QED
    BY Zenon, <1>21, <1>j, <2>1
      DEF MakeRoomForWrite, SwitchMemTable, TypeOK, Bounded, disk, history
<1>22. CASE FlushMemTable
  <2>1. LogFiles(logs)' /\ LogsBelow(logs, c)'
    BY Zenon, <1>22, <1>LogFilesUpdate, <1>LogsBelowUpdate
      DEF FlushMemTable, SwitchMemTable
  <2> QED
    BY Zenon, <1>22, <1>j, <2>1
      DEF FlushMemTable, SwitchMemTable, TypeOK, Bounded, disk, history
<1>23. CASE MakeRoomFails
  <2>1. \/ logs' = logs
        \/ logs' = Create(logs, next_file_number_, NewLogFile)
    BY Zenon, <1>23 DEF MakeRoomFails
  <2>2. /\ LogFiles(Create(logs, next_file_number_, NewLogFile))
        /\ LogsBelow(Create(logs, next_file_number_, NewLogFile), c)
    BY Zenon, <1>LogFilesUpdate, <1>LogsBelowUpdate
  <2>3. LogFiles(logs') /\ LogsBelow(logs', c)
    BY Zenon, <2>1, <2>2
  <2> QED
    BY Zenon, <1>23, <1>j, <2>3 DEF MakeRoomFails, TypeOK, Bounded, disk, history
<1>24. CASE \E n \in 1..MaxGroup, sync \in ShouldSyncNow : WriteBegin(n, sync)
  <2>1. PICK n \in 1..MaxGroup, sync \in ShouldSyncNow : WriteBegin(n, sync)
    BY Zenon, <1>24
  <2>2. sync \in BOOLEAN
    BY Zenon, <1>24 DEF ShouldSyncNow
  <2>3. (last_sequence_ + 1)..(last_sequence_ + n) \in SUBSET Nat
    BY ONLY SMTT(30), <1>e, DurableDBAssumption, n \in 1..MaxGroup
  <2>4. leader' \in Leader
    BY Zenon, <1>24, <2>1, <2>2, <2>3 DEF WriteBegin, Leader
  <2>5. \A s \in leader'.seqs : s <= c
    BY ONLY SMTT(30), <1>d, <1>e, <2>1, DurableDBAssumption, b \in Nat, c \in Nat
       DEF WriteBegin
  <2>6. last_sequence_' \in Nat /\ last_sequence_' <= c
    BY ONLY SMTT(30), <1>d, <1>e, <2>1, DurableDBAssumption, b \in Nat, c \in Nat
       DEF WriteBegin
  <2> QED
    BY Zenon, <1>24, <2>1, <2>2, <2>3, <2>4, <2>5, <2>6
      DEF WriteBegin, TypeOK, Bounded, disk, history
<1>25. CASE Crash
  <2> DEFINE torn == [logs EXCEPT ![log_number_] =
                         AppendTo(@, leader.seqs, FALSE)]
  <2>1. LogFiles(torn)
    BY Zenon, <1>LogFilesUpdate, <1>AppendToType DEF LogFiles
  <2>2. LogsBelow(torn, c)
    BY Zenon, <1>LogsBelowUpdate
  <2>3. logs' = logs \/ logs' = torn
    BY Zenon, <1>25 DEF Crash
  <2> HIDE DEF torn
  <2>4. LogFiles(logs') /\ LogsBelow(logs', c)
    BY Zenon, <2>1, <2>2, <2>3
  <2>5. LoseMemory /\ UNCHANGED <<tables, manifest, survivors, acked, promised>>
    BY Zenon, <1>25 DEF Crash
  <2>6. TypeOK'
    BY Zenon, <2>4, <2>5, <1>LoseMemoryTypes DEF TypeOK
  <2>7. Bounded(c)'
    BY Zenon, <1>j, <2>4, <2>5 DEF LoseMemory, Bounded
  <2> QED
    BY Zenon, <2>6, <2>7
<1>26. CASE PowerFail
  <2>1. LogFiles(logs)' /\ LogsBelow(logs, c)'
    BY Zenon, <1>26, <1>PowerFailLogs
  <2>2. PICK T \in SUBSET (DOMAIN tables \ Certain(tables)) :
          tables' = [n \in Certain(tables) \cup T |->
                        [tables[n] EXCEPT !.ent = "durable"]]
    BY Zenon, <1>26 DEF PowerFail
  <2>3. \A f \in TableFile : [f EXCEPT !.ent = "durable"] \in TableFile
    BY Zenon, <1>26 DEF TableFile, Entries
  <2>4. TableFiles(tables)' /\ TablesBelow(tables, c)'
    BY Zenon, <1>26, <2>2, <2>3 DEF Certain, TableFiles, TablesBelow
  <2>5. manifest' \in Manifest /\ survivors' \in SUBSET Manifest
    BY Zenon, <1>26 DEF PowerFail, TypeOK
  <2>6. LoseMemory /\ acked' = promised /\ promised' = promised
    BY Zenon, <1>26 DEF PowerFail
  <2>7. TypeOK'
    BY Zenon, <2>1, <2>4, <2>5, <2>6, <1>LoseMemoryTypes DEF TypeOK
  <2>8. Bounded(c)'
    BY Zenon, <1>j, <2>1, <2>4, <2>6 DEF LoseMemory, Bounded
  <2> QED
    BY Zenon, <2>7, <2>8
<1>27. CASE UNCHANGED vars
  <2> QED
    BY Zenon, <1>27 DEF vars, memory, TypeOK, Bounded, disk, history
<1> QED
  BY Zenon, <1>1, <1>2, <1>3, <1>4, <1>5, <1>6, <1>7, <1>8, <1>9, <1>10, <1>11,
     <1>12, <1>13, <1>14, <1>15, <1>16, <1>17, <1>18, <1>19, <1>20, <1>21,
     <1>22, <1>23, <1>24, <1>25, <1>26, <1>27
    DEF Next, Commit, Recover, Background, Group, Client

-----------------------------------------------------------------------------
(* Lemmas of the other proofs *)

\* Only the stage and the doomed files of a commit change on its way.
LEMMA JobAt ==
    ASSUME NEW j \in Job, NEW p, NEW S, NEW T
    PROVE  /\ LET k == [j EXCEPT !.pc = p]
              IN  /\ k.pc = p /\ k.kind = j.kind /\ k.number = j.number
                  /\ k.target = j.target
           /\ LET k == [j EXCEPT !.pc = p, !.doomedLogs = S,
                                 !.doomedTables = T]
              IN  /\ k.pc = p /\ k.kind = j.kind /\ k.number = j.number
                  /\ k.target = j.target
                  /\ k.doomedLogs = S /\ k.doomedTables = T
           /\ LET k == [j EXCEPT !.doomedLogs = S]
              IN  /\ k.pc = j.pc /\ k.kind = j.kind /\ k.number = j.number
                  /\ k.target = j.target
                  /\ k.doomedLogs = S /\ k.doomedTables = j.doomedTables
           /\ LET k == [j EXCEPT !.doomedTables = T]
              IN  /\ k.pc = j.pc /\ k.kind = j.kind /\ k.number = j.number
                  /\ k.target = j.target
                  /\ k.doomedTables = T /\ k.doomedLogs = j.doomedLogs
  BY DEF Job

LEMMA ReplayFromContains ==
    ASSUME NEW f, NEW k \in Nat, NEW n \in Visible(f), n >= k
    PROVE  Replay(f[n].recs) \subseteq ReplayFrom(f, k)
  BY DEF ReplayFrom

LEMMA TableCovers ==
    ASSUME NEW f, TableFiles(f), NEW n \in DOMAIN f
    PROVE  f[n].covers \in SUBSET Nat
  BY Zenon DEF TableFiles, TableFile

ManifestNats(m) ==
    /\ m.log \in Nat /\ m.next \in Nat /\ m.seq \in Nat
    /\ m.version \in Version
    /\ Live(m.version) \in SUBSET Nat

LEMMA VersionNats ==
    ASSUME NEW v \in Version
    PROVE  v.l0 \in SUBSET Nat /\ v.deep \in SUBSET Nat /\ Live(v) \in SUBSET Nat
  BY DEF Version, Live

LEMMA SeqTypes ==
    ASSUME TypeOK
    PROVE  /\ LogFiles(logs) /\ TableFiles(tables)
           /\ mem_ \in SUBSET Nat /\ imm_ \in SUBSET Nat
           /\ leader \in Leader /\ leader.seqs \in SUBSET Nat
           /\ last_sequence_ \in Nat /\ next_file_number_ \in Nat
           /\ log_number_ \in Nat /\ imm_log_number_ \in Nat
           /\ current_ \in Version /\ Live(current_) \in SUBSET Nat
           /\ job \in Job /\ job.number \in Nat
           /\ job.doomedLogs \in SUBSET Nat
           /\ ManifestNats(manifest) /\ ManifestNats(job.target)
           /\ \A m \in survivors : ManifestNats(m)
<1>1. \A m \in Manifest : ManifestNats(m)
  <2>1. \A m \in Manifest : /\ m.log \in Nat /\ m.next \in Nat /\ m.seq \in Nat
                            /\ m.version \in Version
    BY DEF Manifest
  <2> QED
    BY <2>1, VersionNats, Zenon DEF ManifestNats
<1>2. leader.seqs \in SUBSET Nat
  BY DEF TypeOK, Leader
<1>3. job.number \in Nat /\ job.target \in Manifest /\ job.doomedLogs \in SUBSET Nat
  BY Zenon, JobFields DEF TypeOK
<1>4. Live(current_) \in SUBSET Nat
  BY VersionNats, Zenon DEF TypeOK
<1> QED
  BY <1>1, <1>2, <1>3, <1>4, Zenon DEF TypeOK

-----------------------------------------------------------------------------
(* The order of the sources *)

\* A younger source with newer writes only hides nothing.
LEMMA AboveNoHide ==
    ASSUME NEW y \in SUBSET Nat, NEW o \in SUBSET Nat, Above(y, o)
    PROVE  NoHide(y, o)
  BY DEF Above, NoHide

LEMMA NoHideOf ==
    ASSUME NEW y, NEW o, NEW p, NoHide(y, o), p \subseteq o
    PROVE  NoHide(y, p)
  BY Zenon DEF NoHide

LEMMA NoHideNone ==
    ASSUME NEW o
    PROVE  NoHide({}, o)
  BY Zenon DEF NoHide

SameLogs(f, h) == \A n \in Nat : Held(h, n) = Held(f, n)
SameTables(g, h, S) == \A n \in S : h[n].covers = g[n].covers

-----------------------------------------------------------------------------
(* What a step leaves as it was *)

\* What the other invariants say of the sources.
SourceTypes ==
    /\ DOMAIN logs \in SUBSET Nat
    /\ mem_ \in SUBSET Nat /\ imm_ \in SUBSET Nat /\ leader.seqs \in SUBSET Nat
    /\ log_number_ \in Nat /\ imm_log_number_ \in Nat /\ Oldest \in Nat
    /\ next_file_number_ \in Nat
    /\ manifest.log \in Nat /\ job.target.log \in Nat
    /\ \A k \in Nat : ReplayFrom(logs, k) \in SUBSET Nat
    /\ CoversOf(tables, manifest.version) \in SUBSET Nat
    /\ Live(manifest.version) \subseteq Visible(tables)
    /\ status # "down" =>
          /\ CoversOf(tables, current_) \in SUBSET Nat
          /\ Live(current_) \subseteq Visible(tables)
          /\ Numbered(Live(current_), next_file_number_)
          /\ Numbered(Live(manifest.version), next_file_number_)
          /\ Numbered(Visible(logs), next_file_number_)

LEMMA CoversNat ==
    ASSUME NEW g, TableFiles(g), NEW v, Live(v) \subseteq Visible(g)
    PROVE  CoversOf(g, v) \in SUBSET Nat
<1>1. \A n \in Live(v) : g[n].covers \in SUBSET Nat
  BY Zenon, TableCovers DEF Visible
<1> QED
  BY <1>1 DEF CoversOf

LEMMA SourcesTyped ==
    ASSUME IInv, SeqInv
    PROVE  SourceTypes
<1>1. TypeOK /\ DownInv /\ TablesInv /\ FreshInv /\ ManifestSeq /\ MemorySeq
  BY Zenon DEF IInv, SeqInv
<1>2. /\ LogFiles(logs) /\ TableFiles(tables)
      /\ mem_ \in SUBSET Nat /\ imm_ \in SUBSET Nat /\ leader.seqs \in SUBSET Nat
      /\ log_number_ \in Nat /\ imm_log_number_ \in Nat /\ next_file_number_ \in Nat
      /\ ManifestNats(manifest) /\ ManifestNats(job.target)
  BY Zenon, <1>1, SeqTypes
<1>3. DOMAIN logs \in SUBSET Nat /\ Oldest \in Nat
      /\ manifest.log \in Nat /\ job.target.log \in Nat
  BY Zenon, <1>2 DEF LogFiles, Oldest, OldestLiveLog, ManifestNats
<1>4. \A k \in Nat : ReplayFrom(logs, k) \in SUBSET Nat
  BY Zenon, <1>1, ReplayType
<1>5. /\ Live(manifest.version) \subseteq Visible(tables)
      /\ status # "down" => Live(current_) \subseteq Visible(tables)
  BY Zenon, <1>1 DEF TablesInv, AllReadable, Readable
<1>6. /\ CoversOf(tables, manifest.version) \in SUBSET Nat
      /\ status # "down" => CoversOf(tables, current_) \in SUBSET Nat
  BY Zenon, <1>2, <1>5, CoversNat
<1>7. ASSUME status # "down"
      PROVE  /\ Numbered(Live(current_), next_file_number_)
             /\ Numbered(Live(manifest.version), next_file_number_)
             /\ Numbered(Visible(logs), next_file_number_)
  <2>1. /\ manifest.next <= next_file_number_
        /\ Numbered(Live(current_), next_file_number_)
    BY Zenon, <1>1, <1>7 DEF MemorySeq
  <2>2. Numbered(Live(manifest.version), manifest.next)
    BY Zenon, <1>1 DEF ManifestSeq, Accounts
  <2>3. /\ Live(manifest.version) \in SUBSET Nat /\ manifest.next \in Nat
    BY Zenon, <1>2 DEF ManifestNats
  <2>4. Numbered(Live(manifest.version), next_file_number_)
    BY ONLY SMTT(30), <1>2, <2>1, <2>2, <2>3 DEF Numbered
  <2>5. Numbered(Visible(logs), next_file_number_)
    BY Zenon, <1>1, <1>7 DEF FreshInv, FileNumbersFresh, Numbered
  <2> QED
    BY <2>1, <2>4, <2>5
<1> QED
  BY Zenon, <1>2, <1>3, <1>4, <1>5, <1>6, <1>7 DEF SourceTypes

SameSources ==
    /\ status' = status /\ imm_' = imm_ /\ imm_log_number_' = imm_log_number_
    /\ log_number_' = log_number_ /\ current_' = current_ /\ manifest' = manifest
    /\ DOMAIN logs' \in SUBSET Nat
    /\ SameLogs(logs, logs')
    /\ SameTables(tables, tables', Live(current_))
    /\ SameTables(tables, tables', Live(manifest.version))

-----------------------------------------------------------------------------
(* The first states and every step *)

LEMMA OrderInit == Init => OrderInv
<1> SUFFICES ASSUME Init PROVE OrderInv
  OBVIOUS
<1>1. NoVersion.l0 = {} /\ NoVersion.deep = {} /\ NoManifest.version = NoVersion
      /\ NoJob.pc = "idle" /\ NoManifest.log = 0
  BY Zenon DEF NoVersion, NoManifest, NoJob
<1>2. /\ status = "down" /\ imm_ = {} /\ current_ = NoVersion /\ job = NoJob
      /\ manifest = NoManifest /\ logs = [n \in {} |-> NewLogFile]
  BY Zenon DEF Init
<1>3. ReplayFrom(logs, 0) = {}
  BY Zenon, <1>2 DEF ReplayFrom, Visible
<1>4. Ordered(tables, NoVersion)
  BY Zenon, <1>1 DEF Ordered
<1>5. ManifestOrder /\ MemoryOrder
  BY Zenon, <1>1, <1>2, <1>3, <1>4, NoHideNone DEF ManifestOrder, MemoryOrder, Restart
<1>6. BuildOrder /\ FlushOrder /\ NewLogOrder /\ OpenOrder /\ StaleOrder
  BY Zenon, <1>1, <1>2 DEF BuildOrder, FlushOrder, NewLogOrder, OpenOrder, StaleOrder
<1> QED
  BY Zenon, <1>5, <1>6 DEF OrderInv

LEMMA OrderNext ==
    ASSUME ~PowerLoss, ~FlushRaces, ~UnlinkMayFail, Cardinality({}) = 0
    PROVE  IInv /\ SeqInv /\ TypeOK' /\ OrderInv /\ [Next]_vars => OrderInv'
\* Newer writes that are added to a source hide nothing.
<1>NoHideMore.
    ASSUME NEW y \in SUBSET Nat, NEW z \in SUBSET Nat, NEW o \in SUBSET Nat,
           NoHide(y, o), Above(z, o)
    PROVE  NoHide(y \cup z, o)
  <2> USE <1>NoHideMore
  <2> SUFFICES ASSUME NEW s \in y \cup z, NEW t \in o, t > s
               PROVE  t \in y \cup z
    BY DEF NoHide
  <2>1. CASE s \in y
    BY <2>1 DEF NoHide
  <2>2. CASE s \in z
    BY <2>2 DEF Above
  <2> QED
    BY <2>1, <2>2
<1>NoHideBoth.
    ASSUME NEW y, NEW o, NEW p, NoHide(y, o), NoHide(y, p)
    PROVE  NoHide(y, o \cup p)
  BY <1>NoHideBoth, Zenon DEF NoHide
<1>NoHideOwn.
    ASSUME NEW y, NEW o, o \subseteq y
    PROVE  NoHide(y, o)
  BY <1>NoHideOwn, Zenon DEF NoHide
<1>AboveOf.
    ASSUME NEW y, NEW o, NEW p, Above(y, o), p \subseteq o
    PROVE  Above(y, p)
  BY <1>AboveOf, Zenon DEF Above
<1>AboveLess.
    ASSUME NEW y, NEW z, NEW o, Above(y, o), z \subseteq y
    PROVE  Above(z, o)
  BY <1>AboveLess, Zenon DEF Above
<1>AboveBoth.
    ASSUME NEW y, NEW o, NEW p, Above(y, o), Above(y, p)
    PROVE  Above(y, o \cup p)
  BY <1>AboveBoth, Zenon DEF Above
<1>AboveJoin.
    ASSUME NEW y, NEW z, NEW o, Above(y, o), Above(z, o)
    PROVE  Above(y \cup z, o)
  BY <1>AboveJoin, Zenon DEF Above
<1>AboveNone.
    ASSUME NEW y
    PROVE  Above({}, y) /\ Above(y, {})
  BY <1>AboveNone, Zenon DEF Above
<1>Zero. 0 \in Nat
  OBVIOUS
\* What is replayed, log by log.
<1>HeldFrom.
    ASSUME NEW f, DOMAIN f \in SUBSET Nat, NEW k \in Nat, NEW s
    PROVE  s \in ReplayFrom(f, k) <=> \E n \in Nat : n >= k /\ s \in Held(f, n)
  BY <1>HeldFrom DEF ReplayFrom, Held, Visible
<1>ReplaySame.
    ASSUME NEW f, NEW h, DOMAIN f \in SUBSET Nat, DOMAIN h \in SUBSET Nat,
           SameLogs(f, h)
    PROVE  /\ \A k \in Nat : ReplayFrom(h, k) = ReplayFrom(f, k)
           /\ \A k, n \in Nat : Stale(h, k, n) <=> Stale(f, k, n)
           /\ \A k \in Nat : OneStale(h, k) <=> OneStale(f, k)
           /\ \A k \in Nat : NoStale(h, k) <=> NoStale(f, k)
           /\ \A k \in Nat : NoneAfter(h, k) <=> NoneAfter(f, k)
           /\ \A k, n \in Nat : NoneBetween(h, k, n) <=> NoneBetween(f, k, n)
  <2> USE <1>ReplaySame
  <2>1. \A k \in Nat : ReplayFrom(h, k) = ReplayFrom(f, k)
    <3> TAKE k \in Nat
    <3>1. ASSUME NEW s PROVE s \in ReplayFrom(h, k) <=> s \in ReplayFrom(f, k)
      <4>1. s \in ReplayFrom(h, k) <=> \E n \in Nat : n >= k /\ s \in Held(h, n)
        BY <1>HeldFrom
      <4>2. s \in ReplayFrom(f, k) <=> \E n \in Nat : n >= k /\ s \in Held(f, n)
        BY <1>HeldFrom
      <4> QED
        BY Zenon, <4>1, <4>2 DEF SameLogs
    <3> QED
      BY Zenon, <3>1
  <2>2. \A k, n \in Nat : Stale(h, k, n) <=> Stale(f, k, n)
    BY Zenon DEF SameLogs, Stale
  <2>3. \A k \in Nat : NoneAfter(h, k) <=> NoneAfter(f, k)
    BY Zenon DEF SameLogs, NoneAfter
  <2>4. \A k, n \in Nat : NoneBetween(h, k, n) <=> NoneBetween(f, k, n)
    BY Zenon DEF SameLogs, NoneBetween
  <2> QED
    BY Zenon, <2>1, <2>2, <2>3, <2>4 DEF OneStale, NoStale
<1>CoversSame.
    ASSUME NEW g, NEW h, NEW v, SameTables(g, h, Live(v))
    PROVE  /\ CoversOf(h, v) = CoversOf(g, v)
           /\ Ordered(g, v) => Ordered(h, v)
  <2> USE <1>CoversSame
  <2>1. CoversOf(h, v) = CoversOf(g, v)
    BY Zenon DEF CoversOf, SameTables
  <2>2. /\ \A n \in v.l0 : h[n].covers = g[n].covers
        /\ \A n \in v.deep : h[n].covers = g[n].covers
    BY Zenon DEF SameTables, Live
  <2>3. ASSUME Ordered(g, v) PROVE Ordered(h, v)
    BY Zenon, <2>2, <2>3 DEF Ordered
  <2> QED
    BY <2>1, <2>3
\* The logs from a higher number on.
<1>ReplayLess.
    ASSUME NEW f, DOMAIN f \in SUBSET Nat, NEW k \in Nat, NEW n \in Nat, k <= n
    PROVE  ReplayFrom(f, n) \subseteq ReplayFrom(f, k)
  BY ONLY SMTT(30), <1>ReplayLess DEF ReplayFrom, Visible
\* How a log is made, synced and appended to.
<1>HeldCreate.
    ASSUME NEW f, NEW k, k \notin Visible(f)
    PROVE  SameLogs(f, Create(f, k, NewLogFile))
  <2> USE <1>HeldCreate
  <2> DEFINE h == Create(f, k, NewLogFile)
  <2>1. Replay(<<>>) = {}
    BY ONLY SMTT(30) DEF Replay
  <2>2. ASSUME NEW n \in Nat PROVE Held(h, n) = Held(f, n)
    <3>1. CASE n = k
      <4>1. h[n] = NewLogFile /\ NewLogFile.recs = <<>>
        BY Zenon, <3>1 DEF Create, NewLogFile
      <4> QED
        BY Zenon, <2>1, <3>1, <4>1 DEF Held
    <3>2. CASE n # k
      <4>1. n \in DOMAIN f => h[n] = f[n]
        BY Zenon, <3>2 DEF Create
      <4>2. n \in DOMAIN h <=> n \in DOMAIN f
        BY <3>2 DEF Create
      <4>3. n \in Visible(h) <=> n \in Visible(f)
        BY Zenon, <4>1, <4>2 DEF Visible
      <4> QED
        BY Zenon, <4>1, <4>3 DEF Held, Visible
    <3> QED
      BY Zenon, <3>1, <3>2
  <2> QED
    BY Zenon, <2>2 DEF SameLogs
\* A file that is replaced by one with the same entry.
<1>HeldReplaced.
    ASSUME NEW k \in Visible(logs), NEW e, e.ent # "unlinked",
           logs' = [logs EXCEPT ![k] = e]
    PROVE  /\ Held(logs', k) = Replay(e.recs)
           /\ \A n \in Nat : n # k => Held(logs', n) = Held(logs, n)
  <2> USE <1>HeldReplaced
  <2>1. DOMAIN logs' = DOMAIN logs /\ k \in DOMAIN logs
    BY DEF Visible
  <2>2. logs'[k] = e /\ \A n \in DOMAIN logs : n # k => logs'[n] = logs[n]
    BY <2>1
  <2>3. Held(logs', k) = Replay(e.recs)
    BY Zenon, <2>1, <2>2 DEF Held, Visible
  <2>4. ASSUME NEW n \in Nat, n # k PROVE Held(logs', n) = Held(logs, n)
    BY Zenon, <2>1, <2>2, <2>4 DEF Held, Visible
  <2> QED
    BY Zenon, <2>3, <2>4
\* A record at the end of a log: a torn one adds nothing.
<1>ReplayRecord.
    ASSUME NEW recs \in Seq(Record), NEW r \in Record
    PROVE  /\ ~r.ok => Replay(Append(recs, r)) = Replay(recs)
           /\ AllOk(recs) /\ r.ok
                 => Replay(Append(recs, r)) = Replay(recs) \cup r.seqs
  <2> USE <1>ReplayRecord
  <2> DEFINE more == Append(recs, r)
             Good(q) == {j \in DOMAIN q : \A k \in 1..j : q[k].ok}
             n == Len(recs) + 1
  <2>1. /\ DOMAIN recs = 1..Len(recs) /\ DOMAIN more = 1..n /\ n \in Nat
        /\ more[n] = r /\ \A i \in DOMAIN recs : more[i] = recs[i]
    OBVIOUS
  <2>2. /\ Replay(recs) = UNION {recs[i].seqs : i \in Good(recs)}
        /\ Replay(more) = UNION {more[i].seqs : i \in Good(more)}
    BY DEF Replay
  <2> HIDE DEF more
  <2>3. \A i \in DOMAIN recs : i \in Good(more) <=> i \in Good(recs)
    BY ONLY SMTT(30), <2>1
  <2>4. ASSUME ~r.ok PROVE Good(more) = Good(recs)
    <3>1. n \notin Good(more)
      BY <2>1, <2>4
    <3> QED
      BY ONLY SMTT(30), <2>1, <2>3, <3>1
  <2>5. ASSUME AllOk(recs), r.ok PROVE Good(more) = Good(recs) \cup {n}
    <3>1. \A k \in 1..n : more[k].ok
      BY <2>1, <2>5 DEF AllOk
    <3>2. n \in Good(more)
      BY ONLY SMTT(30), <2>1, <3>1
    <3> QED
      BY ONLY SMTT(30), <2>1, <2>3, <3>2
  <2> HIDE DEF n
  <2>6. \A i \in Good(recs) : more[i].seqs = recs[i].seqs
    BY <2>1
  <2> HIDE DEF Good
  <2>7. ASSUME ~r.ok PROVE Replay(more) = Replay(recs)
    BY Zenon, <2>2, <2>4, <2>6, <2>7
  <2>8. ASSUME AllOk(recs), r.ok PROVE Replay(more) = Replay(recs) \cup r.seqs
    BY ONLY SMTT(30), <2>1, <2>2, <2>5, <2>6, <2>8
  <2> QED
    BY <2>7, <2>8 DEF more
\* The same sources are in the same order.
<1>SourcesKept.
    ASSUME SourceTypes, OrderInv, SameSources
    PROVE  /\ ManifestOrder' /\ MemoryOrder'
           /\ mem_' = mem_ /\ leader'.seqs \subseteq leader.seqs => OpenOrder'
           /\ (job'.pc \in Stages <=> job.pc \in Stages) => FlushOrder'
           /\ (job'.pc = "unlink" =>
                  job.pc = "unlink" /\ job'.doomedLogs = job.doomedLogs)
                 => NewLogOrder'
           /\ /\ Building' \/ (job'.pc = "idle" /\ ~bg_error_')
                    => Building \/ (job.pc = "idle" /\ ~bg_error_)
              /\ job'.pc \in Stages =>
                    job.pc \in Stages /\ job'.target = job.target
              /\ job'.pc = "unlink" =>
                    job.pc = "unlink" /\ job'.doomedLogs = job.doomedLogs
              => StaleOrder'
  <2> USE <1>SourcesKept
  <2>1. /\ \A k \in Nat : ReplayFrom(logs', k) = ReplayFrom(logs, k)
        /\ \A k, n \in Nat : Stale(logs', k, n) <=> Stale(logs, k, n)
        /\ \A k \in Nat : OneStale(logs', k) <=> OneStale(logs, k)
        /\ \A k \in Nat : NoStale(logs', k) <=> NoStale(logs, k)
        /\ \A k \in Nat : NoneAfter(logs', k) <=> NoneAfter(logs, k)
        /\ \A k, n \in Nat : NoneBetween(logs', k, n) <=> NoneBetween(logs, k, n)
    BY Zenon, <1>ReplaySame DEF SameSources, SourceTypes
  <2>2. /\ CoversOf(tables', current_) = CoversOf(tables, current_)
        /\ Ordered(tables, current_) => Ordered(tables', current_)
        /\ CoversOf(tables', manifest.version) = CoversOf(tables, manifest.version)
        /\ Ordered(tables, manifest.version) => Ordered(tables', manifest.version)
    BY Zenon, <1>CoversSame DEF SameSources
  <2>3. /\ ReplayFrom(logs', manifest.log) = ReplayFrom(logs, manifest.log)
        /\ ReplayFrom(logs', 0) = ReplayFrom(logs, 0)
        /\ ReplayFrom(logs', log_number_) = ReplayFrom(logs, log_number_)
        /\ ReplayFrom(logs', Oldest) = ReplayFrom(logs, Oldest)
    BY Zenon, <2>1, <1>Zero DEF SourceTypes
  <2>4. Oldest' = Oldest
    BY Zenon DEF Oldest, OldestLiveLog, SameSources
  <2>5. ManifestOrder'
    BY Zenon, <2>2, <2>3 DEF OrderInv, ManifestOrder, Restart, SameSources
  <2>6. MemoryOrder'
    BY Zenon, <2>2 DEF OrderInv, MemoryOrder, SameSources
  <2>7. ASSUME mem_' = mem_, leader'.seqs \subseteq leader.seqs, status = "open"
        PROVE  OpenOrder'
    <3>1. /\ Above(leader'.seqs, mem_) /\ Above(leader'.seqs, imm_)
          /\ Above(leader'.seqs, CoversOf(tables, current_))
          /\ Above(leader'.seqs, CoversOf(tables, manifest.version))
      <4>1. /\ Above(leader.seqs, mem_) /\ Above(leader.seqs, imm_)
            /\ Above(leader.seqs, CoversOf(tables, current_))
            /\ Above(leader.seqs, CoversOf(tables, manifest.version))
        BY Zenon, <2>7 DEF OrderInv, OpenOrder
      <4> QED
        BY Zenon, <2>7, <4>1, <1>AboveLess
    <3> QED
      BY Zenon, <2>2, <2>3, <2>4, <2>7, <3>1 DEF OrderInv, OpenOrder, SameSources
  <2>8. ASSUME job'.pc \in Stages <=> job.pc \in Stages
        PROVE  FlushOrder'
    BY Zenon, <2>2, <2>3, <2>8 DEF OrderInv, FlushOrder, SameSources
  <2>9. ASSUME job'.pc = "unlink" =>
                   job.pc = "unlink" /\ job'.doomedLogs = job.doomedLogs
        PROVE  NewLogOrder'
    BY Zenon, <2>3, <2>9 DEF OrderInv, NewLogOrder, SameSources, SameLogs
  <2>10. ASSUME Building' \/ (job'.pc = "idle" /\ ~bg_error_')
                   => Building \/ (job.pc = "idle" /\ ~bg_error_),
                job'.pc \in Stages => job.pc \in Stages /\ job'.target = job.target,
                job'.pc = "unlink" =>
                   job.pc = "unlink" /\ job'.doomedLogs = job.doomedLogs,
                status = "open"
         PROVE  StaleOrder'
    <3>1. /\ OneStale(logs', Oldest)
          /\ Building' \/ (job'.pc = "idle" /\ ~bg_error_') => NoStale(logs', Oldest)
      BY Zenon, <2>1, <2>10 DEF OrderInv, StaleOrder, SourceTypes
    <3>2. /\ job'.pc \in Stages => job'.target.log = Oldest
          /\ job'.pc = "unlink" =>
                \A n \in Nat : Stale(logs', Oldest, n) => n \in job'.doomedLogs
      BY Zenon, <2>1, <2>10 DEF OrderInv, StaleOrder, SourceTypes
    <3>3. /\ NoneAfter(logs', log_number_)
          /\ imm_ # {} => NoneBetween(logs', imm_log_number_, log_number_)
      BY Zenon, <2>1, <2>10 DEF OrderInv, StaleOrder, SourceTypes
    <3> QED
      BY Zenon, <2>4, <3>1, <3>2, <3>3 DEF StaleOrder, SameSources
  <2>11. status # "open" => OpenOrder' /\ StaleOrder'
    BY Zenon DEF OpenOrder, StaleOrder, SameSources
  <2> QED
    BY Zenon, <2>5, <2>6, <2>7, <2>8, <2>9, <2>10, <2>11
\* No step takes a file number out of the natural numbers.
<1>LogsDomain.
    ASSUME TypeOK'
    PROVE  DOMAIN logs' \in SUBSET Nat
  BY <1>LogsDomain, Zenon DEF TypeOK, LogFiles
\* The steps of a write after its numbers are taken, but for the one that
\* appends to the log, keep what is built.
<1>BuildKept.
    ASSUME OrderInv, job' = job, tables' = tables, current_' = current_,
           imm_' = imm_
    PROVE  BuildOrder'
  BY <1>BuildKept, Zenon DEF OrderInv, BuildOrder
\* While a commit is in flight the process is up.
<1>StageFacts.
    ASSUME IInv, SeqInv, job.pc \in Stages
    PROVE  /\ status \in {"flushing", "opening", "open"}
           /\ job.target.version = current_
           /\ job.pc # "rename" => manifest = job.target
           /\ status = "flushing" => job.target.log = 0
           /\ status = "opening" => job.target.log = log_number_
           /\ job.pc = "unlink" => \A n \in job.doomedLogs : n < job.target.log
  <2> USE <1>StageFacts
  <2>1. TypeOK /\ DownInv /\ CommitInv /\ RecoverInv /\ PhaseSeq
    BY Zenon DEF IInv, SeqInv
  <2>2. Committing
    BY Zenon DEF Committing, Stages
  <2>3. job.pc # "rename" => Renamed
    BY Zenon DEF Renamed, Stages
  <2>4. job.pc # "idle"
    BY DEF Stages
  <2>5. status \in {"flushing", "opening", "open"}
    BY Zenon, <2>1, <2>4 DEF PhaseSeq, TypeOK
  <2> QED
    BY Zenon, <2>1, <2>2, <2>3, <2>5 DEF CommitInv, RecoverInv
<1>RenameOrder.
    ASSUME IInv, SeqInv, SourceTypes, OrderInv, RenameManifest
    PROVE  OrderInv'
  <2> USE <1>RenameOrder
  <2>1. /\ job.pc = "rename" /\ job.pc \in Stages
        /\ manifest' = job.target /\ job' = [job EXCEPT !.pc = "dirsync"]
        /\ UNCHANGED <<status, mem_, imm_, current_, log_number_, imm_log_number_,
                       bg_error_, leader, logs, tables>>
    BY Zenon DEF RenameManifest, Stages
  <2>2. /\ job'.pc = "dirsync" /\ job'.target = job.target
    BY <2>1, JobAt DEF IInv, TypeOK
  <2>3. /\ status \in {"flushing", "opening", "open"}
        /\ job.target.version = current_
        /\ status = "flushing" => job.target.log = 0
        /\ status = "opening" => job.target.log = log_number_
    BY Zenon, <2>1, <1>StageFacts
  <2>4. "dirsync" \in Stages /\ "dirsync" # "unlink" /\ "dirsync" # "idle"
        /\ "dirsync" \notin {"build", "install"}
    BY DEF Stages
  <2>5. Restart(logs, tables, job.target)
    <3>1. CASE status = "open"
      <4>1. /\ job.target.log = Oldest
            /\ NoHide(ReplayFrom(logs, 0), CoversOf(tables, current_))
            /\ Above(ReplayFrom(logs, Oldest), CoversOf(tables, current_))
        BY Zenon, <2>1, <3>1 DEF OrderInv, OpenOrder, StaleOrder
      <4>2. NoHide(ReplayFrom(logs, Oldest), CoversOf(tables, current_))
        BY Zenon, <2>3, <4>1, AboveNoHide, <3>1 DEF SourceTypes
      <4> QED
        BY Zenon, <2>3, <4>1, <4>2 DEF Restart
    <3>2. CASE status = "flushing"
      <4>1. NoHide(ReplayFrom(logs, 0), CoversOf(tables, current_))
        BY Zenon, <2>1, <3>2 DEF OrderInv, FlushOrder
      <4> QED
        BY Zenon, <2>3, <3>2, <4>1 DEF Restart
    <3>3. CASE status = "opening"
      <4>1. ReplayFrom(logs, log_number_) = {}
        BY Zenon, <3>3 DEF OrderInv, NewLogOrder
      <4> QED
        BY Zenon, <2>3, <3>3, <4>1, NoHideNone DEF Restart
    <3> QED
      BY Zenon, <2>3, <3>1, <3>2, <3>3
  <2>6. ManifestOrder' /\ MemoryOrder'
    BY Zenon, <2>1, <2>3, <2>5 DEF OrderInv, ManifestOrder, MemoryOrder
  <2>7. BuildOrder'
    BY Zenon, <2>2, <2>4 DEF BuildOrder
  <2>8. FlushOrder' /\ NewLogOrder'
    BY Zenon, <2>1, <2>2, <2>4 DEF OrderInv, FlushOrder, NewLogOrder
  <2>9. Oldest' = Oldest
    BY Zenon, <2>1 DEF Oldest, OldestLiveLog
  <2>10. OpenOrder'
    BY Zenon, <2>1, <2>3, <2>9 DEF OrderInv, OpenOrder
  <2>11. StaleOrder'
    BY Zenon, <2>1, <2>2, <2>4, <2>9 DEF OrderInv, StaleOrder, Building
  <2> QED
    BY Zenon, <2>6, <2>7, <2>8, <2>10, <2>11 DEF OrderInv
<1>SyncDirectoryOrder.
    ASSUME IInv, SeqInv, SourceTypes, OrderInv, TypeOK', SyncDirectory
    PROVE  OrderInv'
  <2> USE <1>SyncDirectoryOrder
  <2>1. /\ job.pc = "dirsync" /\ job' = [job EXCEPT !.pc = "list"]
        /\ logs' = Settled(logs) /\ tables' = Settled(tables)
        /\ UNCHANGED <<status, mem_, imm_, current_, log_number_, imm_log_number_,
                       bg_error_, leader, manifest>>
    BY Zenon DEF SyncDirectory
  <2>2. /\ job'.pc = "list" /\ job'.target = job.target
    BY ONLY SMTT(30), <2>1, JobAt DEF IInv, TypeOK
  <2>3. status # "down"
    BY <2>1, <1>StageFacts DEF Stages
  <2>4. LogFiles(logs) /\ TableFiles(tables)
    BY Zenon DEF IInv, TypeOK
  <2>5. \A n \in Visible(tables) : tables'[n].covers = tables[n].covers
    BY <2>1, <2>4 DEF Settled, Visible, TableFiles, TableFile
  <2>6. /\ DOMAIN logs' = Visible(logs)
        /\ \A n \in Visible(logs) :
              logs'[n].recs = logs[n].recs /\ logs'[n].ent = "durable"
    BY <2>1, <2>4 DEF Settled, Visible, LogFiles, LogFile
  <2>7. Visible(logs') = Visible(logs)
    BY Zenon, <2>6 DEF Visible
  <2>8. SameLogs(logs, logs')
    BY Zenon, <2>6, <2>7 DEF SameLogs, Held
  <2>9. SameSources
    BY Zenon, <2>1, <2>3, <2>5, <2>8, <1>LogsDomain DEF SameSources, SameTables, SourceTypes
  <2>10. /\ job'.pc \in Stages <=> job.pc \in Stages
         /\ job'.pc # "unlink" /\ job'.pc # "idle" /\ job'.pc \notin {"build", "install"}
         /\ job.pc \in Stages
    BY <2>1, <2>2 DEF Stages
  <2>11. BuildOrder' /\ ~Building'
    BY Zenon, <2>10 DEF BuildOrder, Building
  <2>12. leader'.seqs \subseteq leader.seqs
    BY <2>1
  <2> QED
    BY Zenon, <2>1, <2>2, <2>9, <2>10, <2>11, <2>12, <1>SourcesKept DEF OrderInv
<1>ListOrder.
    ASSUME IInv, SeqInv, SourceTypes, OrderInv, ListObsolete
    PROVE  OrderInv'
  <2> USE <1>ListOrder
  <2>1. /\ job.pc = "list" /\ job.pc \in Stages
        /\ job' = [job EXCEPT !.pc = "unlink",
                      !.doomedLogs = ObsoleteLogs(job.target.log),
                      !.doomedTables = ObsoleteTables(job.target.version)]
        /\ UNCHANGED <<status, mem_, imm_, current_, log_number_, imm_log_number_,
                       bg_error_, leader, logs, tables, manifest>>
    BY Zenon DEF ListObsolete, disk, Stages
  <2>2. /\ job'.pc = "unlink" /\ job'.target = job.target
        /\ job'.doomedLogs = ObsoleteLogs(job.target.log)
    BY <2>1, JobAt DEF IInv, TypeOK
  <2>3. /\ "unlink" \in Stages /\ "unlink" # "idle"
        /\ "unlink" \notin {"build", "install"}
    BY DEF Stages
  <2>4. ManifestOrder' /\ MemoryOrder' /\ OpenOrder'
    <3>1. Oldest' = Oldest
      BY Zenon, <2>1 DEF Oldest, OldestLiveLog
    <3> QED
      BY Zenon, <2>1, <3>1 DEF OrderInv, ManifestOrder, MemoryOrder, OpenOrder
  <2>5. BuildOrder' /\ ~Building'
    BY Zenon, <2>2, <2>3 DEF BuildOrder, Building
  <2>6. FlushOrder'
    BY Zenon, <2>1, <2>2, <2>3 DEF OrderInv, FlushOrder
  <2>7. ASSUME NEW n \in Nat, Held(logs, n) # {}, n < job.target.log
        PROVE  n \in job'.doomedLogs
    BY Zenon, <2>2, <2>7 DEF Held, ObsoleteLogs
  <2>8. NewLogOrder'
    <3> SUFFICES ASSUME status = "opening"
                 PROVE  /\ ReplayFrom(logs, log_number_) = {}
                        /\ \A n \in Nat : Held(logs, n) # {} => n \in job'.doomedLogs
      BY Zenon, <2>1 DEF NewLogOrder
    <3>1. job.target.log = log_number_
      BY Zenon, <2>1, <1>StageFacts
    <3>2. ReplayFrom(logs, log_number_) = {}
      BY Zenon DEF OrderInv, NewLogOrder
    <3>3. ASSUME NEW n \in Nat, Held(logs, n) # {} PROVE n < log_number_
      <4>1. PICK s : s \in Held(logs, n)
        BY Zenon, <3>3
      <4>2. DOMAIN logs \in SUBSET Nat /\ log_number_ \in Nat
        BY Zenon DEF SourceTypes
      <4>3. ~(n >= log_number_)
        BY Zenon, <3>2, <4>1, <4>2, <1>HeldFrom
      <4> QED
        BY <4>2, <4>3
    <3> QED
      BY Zenon, <2>7, <3>1, <3>2, <3>3
  <2>9. Oldest' = Oldest
    BY Zenon, <2>1 DEF Oldest, OldestLiveLog
  <2>10. StaleOrder'
    <3> SUFFICES ASSUME status = "open" PROVE StaleOrder'
      BY Zenon, <2>1 DEF StaleOrder
    <3>1. job.target.log = Oldest
      BY Zenon, <2>1 DEF OrderInv, StaleOrder
    <3>2. \A n \in Nat : Stale(logs, Oldest, n) => n \in job'.doomedLogs
      BY Zenon, <2>7, <3>1 DEF Stale
    <3> QED
      BY Zenon, <2>1, <2>2, <2>3, <2>5, <2>9, <3>1, <3>2 DEF OrderInv, StaleOrder
  <2> QED
    BY Zenon, <2>4, <2>5, <2>6, <2>8, <2>10 DEF OrderInv
\* What an unlink takes away can be replayed no more, and nothing else.
<1>HeldUnlink.
    ASSUME NEW f, LogFiles(f), NEW k
    PROVE  /\ Held(Unlink(f, k), k) = {}
           /\ \A n \in Nat : n # k => Held(Unlink(f, k), n) = Held(f, n)
  <2> USE <1>HeldUnlink
  <2> DEFINE h == Unlink(f, k)
  <2>1. DOMAIN h = DOMAIN f
    BY DEF Unlink
  <2>2. \A n \in DOMAIN f : n # k => h[n] = f[n]
    BY DEF Unlink
  <2>3. k \in DOMAIN f => h[k].ent = "unlinked"
    BY DEF Unlink, LogFiles, LogFile
  <2> HIDE DEF h
  <2>4. Held(h, k) = {}
    BY Zenon, <2>1, <2>3 DEF Held, Visible
  <2>5. ASSUME NEW n \in Nat, n # k PROVE Held(h, n) = Held(f, n)
    BY Zenon, <2>1, <2>2, <2>5 DEF Held, Visible
  <2> QED
    BY <2>4, <2>5 DEF h
<1>UnlinkLogOrder.
    ASSUME IInv, SeqInv, SourceTypes, OrderInv, ~UnlinkMayFail, TypeOK',
           NEW k \in job.doomedLogs, UnlinkLog(k)
    PROVE  OrderInv'
  <2> USE <1>UnlinkLogOrder
  <2>1. /\ job.pc = "unlink" /\ job.pc \in Stages
        /\ logs' = Unlink(logs, k)
        /\ job' = [job EXCEPT !.doomedLogs = job.doomedLogs \ {k}]
        /\ UNCHANGED <<status, mem_, imm_, current_, log_number_, imm_log_number_,
                       bg_error_, leader, tables, manifest>>
    BY Zenon DEF UnlinkLog, UnlinkIn, Stages
  <2>2. /\ job'.pc = "unlink" /\ job'.target = job.target
        /\ job'.doomedLogs = job.doomedLogs \ {k}
    BY ONLY SMTT(30), <2>1, JobAt DEF IInv, TypeOK
  <2>3. /\ "unlink" \in Stages /\ "unlink" # "idle" /\ "unlink" # "rename"
        /\ "unlink" \notin {"build", "install"}
    BY DEF Stages
  <2>4. /\ status \in {"flushing", "opening", "open"}
        /\ job.target.version = current_ /\ manifest = job.target
        /\ status = "flushing" => job.target.log = 0
        /\ status = "opening" => job.target.log = log_number_
        /\ k < job.target.log
    BY Zenon, <2>1, <2>3, <1>StageFacts
  <2>5. k \in Nat /\ LogFiles(logs)
    BY Zenon, SeqTypes DEF IInv, TypeOK
  <2>6. /\ Held(logs', k) = {}
        /\ \A n \in Nat : n # k => Held(logs', n) = Held(logs, n)
    BY <2>1, <2>5, <1>HeldUnlink
  <2>7. status # "flushing"
    BY ONLY SMTT(30), <2>4, <2>5
  <2>8. DOMAIN logs \in SUBSET Nat /\ DOMAIN logs' \in SUBSET Nat
    BY Zenon, <1>LogsDomain DEF SourceTypes
  <2>9. ASSUME NEW i \in Nat PROVE ReplayFrom(logs', i) \subseteq ReplayFrom(logs, i)
    <3> SUFFICES ASSUME NEW s \in ReplayFrom(logs', i) PROVE s \in ReplayFrom(logs, i)
      OBVIOUS
    <3>1. PICK n \in Nat : n >= i /\ s \in Held(logs', n)
      BY Zenon, <2>8, <1>HeldFrom
    <3>2. s \in Held(logs, n)
      BY Zenon, <2>6, <3>1
    <3> QED
      BY Zenon, <2>8, <3>1, <3>2, <1>HeldFrom
  <2>10. ASSUME NEW i \in Nat, k < i PROVE ReplayFrom(logs', i) = ReplayFrom(logs, i)
    <3>1. ASSUME NEW s \in ReplayFrom(logs, i) PROVE s \in ReplayFrom(logs', i)
      <4>1. PICK n \in Nat : n >= i /\ s \in Held(logs, n)
        BY Zenon, <2>8, <1>HeldFrom
      <4>2. n # k
        BY ONLY SMTT(30), <2>5, <2>10, <4>1
      <4>3. s \in Held(logs', n)
        BY Zenon, <2>6, <4>1, <4>2
      <4> QED
        BY Zenon, <2>8, <4>1, <4>3, <1>HeldFrom
    <3> QED
      BY Zenon, <2>9, <3>1
  <2>11. ReplayFrom(logs', manifest.log) = ReplayFrom(logs, manifest.log)
    BY Zenon, <2>4, <2>10 DEF SourceTypes
  \* Only one stale log is left, so that none is afterwards.
  <2>12. ASSUME status = "open"
         PROVE  /\ manifest.log = Oldest /\ k < Oldest
                /\ \/ ReplayFrom(logs', 0) = ReplayFrom(logs, 0)
                   \/ ReplayFrom(logs', 0) = ReplayFrom(logs, Oldest)
    <3>1. manifest.log = Oldest /\ OneStale(logs, Oldest) /\ k < Oldest
      BY Zenon, <2>1, <2>4, <2>12 DEF OrderInv, StaleOrder
    <3>2. CASE Held(logs, k) = {}
      <4>1. SameLogs(logs, logs')
        BY Zenon, <2>6, <3>2 DEF SameLogs
      <4>2. ReplayFrom(logs', 0) = ReplayFrom(logs, 0)
        BY ONLY SMTT(30), <2>8, <4>1, <1>ReplaySame
      <4> QED
        BY Zenon, <3>1, <4>2
    <3>3. CASE Held(logs, k) # {}
      <4>1. \A n \in Nat : n # k /\ Held(logs, n) # {} => ~(n < Oldest)
        BY Zenon, <2>5, <3>1, <3>3 DEF OneStale, Stale
      <4>2. Oldest \in Nat
        BY Zenon DEF SourceTypes
      <4>3. ASSUME NEW s \in ReplayFrom(logs', 0) PROVE s \in ReplayFrom(logs', Oldest)
        <5>1. PICK n \in Nat : s \in Held(logs', n)
          BY ONLY SMTT(30), <2>8, <1>HeldFrom
        <5>2. n # k /\ s \in Held(logs, n)
          BY Zenon, <2>6, <5>1
        <5>3. ~(n < Oldest)
          BY Zenon, <4>1, <5>2
        <5>4. n >= Oldest
          BY ONLY SMTT(30), <4>2, <5>3
        <5> QED
          BY Zenon, <2>8, <4>2, <5>1, <5>4, <1>HeldFrom
      <4>4. ReplayFrom(logs', Oldest) \subseteq ReplayFrom(logs', 0)
        BY ONLY SMTT(30), <2>8, <4>2, <1>ReplayLess
      <4>5. ReplayFrom(logs', Oldest) = ReplayFrom(logs, Oldest)
        BY Zenon, <2>10, <3>1, <4>2
      <4>6. ReplayFrom(logs', 0) = ReplayFrom(logs', Oldest)
        BY Zenon, <4>3, <4>4
      <4> QED
        BY Zenon, <3>1, <4>5, <4>6
    <3> QED
      BY Zenon, <3>2, <3>3
  <2>13. ASSUME status = "open"
         PROVE  NoHide(ReplayFrom(logs', 0), CoversOf(tables, current_))
    <3>1. /\ NoHide(ReplayFrom(logs, 0), CoversOf(tables, current_))
          /\ Above(ReplayFrom(logs, Oldest), CoversOf(tables, current_))
      BY Zenon, <2>13 DEF OrderInv, OpenOrder
    <3>2. NoHide(ReplayFrom(logs, Oldest), CoversOf(tables, current_))
      BY Zenon, <2>4, <2>13, <3>1, AboveNoHide DEF SourceTypes
    <3> QED
      BY Zenon, <2>12, <2>13, <3>1, <3>2
  <2>14. ManifestOrder'
    <3>1. NoHide(ReplayFrom(logs, manifest.log), CoversOf(tables, manifest.version))
      BY Zenon DEF OrderInv, ManifestOrder, Restart
    <3>2. ReplayFrom(logs, manifest.log) # {}
             => NoHide(ReplayFrom(logs', 0), CoversOf(tables, manifest.version))
      <4>1. CASE status = "open"
        BY Zenon, <2>4, <2>13, <4>1
      <4>2. CASE status = "opening"
        BY Zenon, <2>4, <4>2 DEF OrderInv, NewLogOrder
      <4> QED
        BY Zenon, <2>4, <2>7, <4>1, <4>2
    <3> QED
      BY Zenon, <2>1, <2>11, <3>1, <3>2 DEF OrderInv, ManifestOrder, Restart
  <2>15. MemoryOrder' /\ FlushOrder' /\ BuildOrder' /\ ~Building'
    BY Zenon, <2>1, <2>2, <2>3, <2>7
       DEF OrderInv, MemoryOrder, FlushOrder, BuildOrder, Building
  <2>16. NewLogOrder'
    <3> SUFFICES ASSUME status = "opening" PROVE NewLogOrder'
      BY Zenon, <2>1 DEF NewLogOrder
    <3>1. /\ ReplayFrom(logs, log_number_) = {}
          /\ \A n \in Nat : Held(logs, n) # {} => n \in job.doomedLogs
      BY Zenon, <2>1 DEF OrderInv, NewLogOrder
    <3>2. ReplayFrom(logs', log_number_) = {}
      BY Zenon, <2>9, <3>1 DEF SourceTypes
    <3>3. \A n \in Nat : Held(logs', n) # {} => n \in job'.doomedLogs
      BY Zenon, <2>2, <2>6, <3>1
    <3> QED
      BY Zenon, <2>1, <3>2, <3>3 DEF NewLogOrder
  <2>17. Oldest' = Oldest
    BY Zenon, <2>1 DEF Oldest, OldestLiveLog
  <2>18. OpenOrder'
    <3> SUFFICES ASSUME status = "open" PROVE OpenOrder'
      BY Zenon, <2>1 DEF OpenOrder
    <3>1. /\ ReplayFrom(logs', log_number_) \subseteq ReplayFrom(logs, log_number_)
          /\ ReplayFrom(logs', Oldest) \subseteq ReplayFrom(logs, Oldest)
      BY Zenon, <2>9 DEF SourceTypes
    <3>2. /\ Above(ReplayFrom(logs', log_number_), imm_)
          /\ Above(ReplayFrom(logs', Oldest), CoversOf(tables, current_))
      <4>1. /\ Above(ReplayFrom(logs, log_number_), imm_)
            /\ Above(ReplayFrom(logs, Oldest), CoversOf(tables, current_))
        BY Zenon DEF OrderInv, OpenOrder
      <4> QED
        BY Zenon, <3>1, <4>1, <1>AboveLess
    <3> QED
      BY Zenon, <2>1, <2>4, <2>13, <2>17, <3>2 DEF OrderInv, OpenOrder
  <2>19. StaleOrder'
    <3> SUFFICES ASSUME status = "open" PROVE StaleOrder'
      BY Zenon, <2>1 DEF StaleOrder
    <3>1. \A n \in Nat : Stale(logs', Oldest, n) => n # k /\ Stale(logs, Oldest, n)
      BY Zenon, <2>6 DEF Stale
    <3>2. OneStale(logs', Oldest)
      BY Zenon, <3>1 DEF OrderInv, StaleOrder, OneStale
    <3>3. \A n \in Nat : Stale(logs', Oldest, n) => n \in job'.doomedLogs
      <4>1. \A n \in Nat : Stale(logs, Oldest, n) => n \in job.doomedLogs
        BY Zenon, <2>1 DEF OrderInv, StaleOrder
      <4> QED
        BY Zenon, <2>2, <3>1, <4>1
    <3>4. /\ NoneAfter(logs', log_number_)
          /\ imm_ # {} => NoneBetween(logs', imm_log_number_, log_number_)
      <4>1. \A n \in Nat : Held(logs, n) = {} => Held(logs', n) = {}
        BY Zenon, <2>6
      <4> QED
        BY Zenon, <4>1 DEF OrderInv, StaleOrder, NoneAfter, NoneBetween
    <3>5. job.target.log = Oldest
      BY Zenon, <2>1 DEF OrderInv, StaleOrder
    <3> QED
      BY Zenon, <2>1, <2>2, <2>3, <2>15, <2>17, <3>2, <3>3, <3>4, <3>5 DEF StaleOrder
  <2> QED
    BY Zenon, <2>14, <2>15, <2>16, <2>18, <2>19 DEF OrderInv
<1>UnlinkTableOrder.
    ASSUME IInv, SeqInv, SourceTypes, OrderInv, TypeOK',
           NEW k \in job.doomedTables, UnlinkTable(k)
    PROVE  OrderInv'
  <2> USE <1>UnlinkTableOrder
  <2>1. /\ job.pc = "unlink" /\ job.pc \in Stages
        /\ tables' = Unlink(tables, k) \/ tables' = tables
        /\ job' = [job EXCEPT !.doomedTables = job.doomedTables \ {k}]
        /\ UNCHANGED <<status, mem_, imm_, current_, log_number_, imm_log_number_,
                       bg_error_, leader, logs, manifest>>
    BY Zenon DEF UnlinkTable, UnlinkIn, Stages
  <2>2. /\ job'.pc = "unlink" /\ job'.target = job.target
        /\ job'.doomedLogs = job.doomedLogs
    BY <2>1, JobAt DEF IInv, TypeOK
  <2>3. /\ "unlink" \in Stages /\ "unlink" # "idle"
        /\ "unlink" \notin {"build", "install"}
    BY DEF Stages
  <2>4. status # "down"
    BY <2>1, <1>StageFacts
  <2>5. \A n \in Visible(tables) : tables'[n].covers = tables[n].covers
    BY <2>1 DEF Unlink, Visible, IInv, TypeOK, TableFiles, TableFile
  <2>6. SameSources
    BY Zenon, <2>1, <2>4, <2>5
       DEF SameSources, SameLogs, SameTables, SourceTypes
  <2>7. BuildOrder' /\ ~Building'
    BY Zenon, <2>2, <2>3 DEF BuildOrder, Building
  <2>8. leader'.seqs \subseteq leader.seqs
    BY <2>1
  <2> QED
    BY Zenon, <2>1, <2>2, <2>3, <2>6, <2>7, <2>8, <1>SourcesKept DEF OrderInv
<1>CommitDoneOrder.
    ASSUME IInv, SeqInv, SourceTypes, OrderInv, CommitDone
    PROVE  OrderInv'
  <2> USE <1>CommitDoneOrder
  <2>1. /\ job.pc = "unlink" /\ job.pc \in Stages /\ job.doomedLogs = {}
        /\ job' = NoJob
        /\ UNCHANGED <<mem_, imm_, current_, log_number_, imm_log_number_,
                       bg_error_, leader, logs, tables, manifest>>
    BY Zenon DEF CommitDone, disk, Stages
  <2>2. /\ NoJob.pc = "idle" /\ "idle" \notin Stages /\ "idle" # "unlink"
        /\ "idle" \notin {"build", "install"}
    BY Zenon DEF NoJob, Stages
  <2>3. status \in {"flushing", "opening", "open"}
    BY Zenon, <2>1, <1>StageFacts
  <2>4. /\ status' \in {"newlog", "open"}
        /\ status' = "open" => status \in {"opening", "open"}
    BY <2>3 DEF CommitDone
  <2>5. ManifestOrder' /\ MemoryOrder'
    BY Zenon, <2>1 DEF OrderInv, ManifestOrder, MemoryOrder
  <2>6. BuildOrder' /\ FlushOrder' /\ NewLogOrder'
    <3>1. status' # "flushing" /\ status' # "opening"
      BY <2>4
    <3> QED
      BY Zenon, <2>1, <2>2, <3>1 DEF BuildOrder, FlushOrder, NewLogOrder
  <2>7. Oldest' = Oldest
    BY Zenon, <2>1 DEF Oldest, OldestLiveLog
  <2>8. CASE status = "open"
    <3>1. status' = "open"
      BY <2>8 DEF CommitDone
    <3>2. OpenOrder'
      BY Zenon, <2>1, <2>7, <2>8 DEF OrderInv, OpenOrder
    <3>3. NoStale(logs, Oldest)
      BY Zenon, <2>1, <2>8 DEF OrderInv, StaleOrder, NoStale
    <3>4. StaleOrder'
      BY Zenon, <2>1, <2>2, <2>7, <2>8, <3>3 DEF OrderInv, StaleOrder
    <3> QED
      BY Zenon, <2>5, <2>6, <3>2, <3>4 DEF OrderInv
  <2>9. CASE status = "opening"
    <3>1. \A n \in Nat : Held(logs, n) = {}
      BY Zenon, <2>1, <2>9 DEF OrderInv, NewLogOrder
    <3>2. \A i \in Nat : ReplayFrom(logs, i) = {}
      <4> SUFFICES ASSUME NEW i \in Nat, NEW s \in ReplayFrom(logs, i) PROVE FALSE
        BY Zenon
      <4>1. DOMAIN logs \in SUBSET Nat
        BY Zenon DEF SourceTypes
      <4> QED
        BY Zenon, <3>1, <4>1, <1>HeldFrom
    <3>3. /\ mem_ = {} /\ leader.seqs = {} /\ imm_ = {}
      <4>1. mem_ = {} /\ leader = Idle /\ imm_ = {}
        BY Zenon, <2>9 DEF IInv, RecoverInv
      <4> QED
        BY ONLY SMTT(30), <4>1 DEF Idle
    <3>4. /\ ReplayFrom(logs, 0) = {} /\ ReplayFrom(logs, log_number_) = {}
          /\ ReplayFrom(logs, Oldest) = {}
      BY Zenon, <3>2, <1>Zero DEF SourceTypes
    <3>5. OpenOrder'
      <4>1. /\ Above({}, {}) /\ Above({}, CoversOf(tables, current_))
            /\ Above({}, CoversOf(tables, manifest.version))
            /\ NoHide({}, CoversOf(tables, current_))
            /\ NoHide({}, CoversOf(tables, manifest.version))
        BY Zenon, <1>AboveNone, NoHideNone
      <4> QED
        BY Zenon, <2>1, <2>7, <3>3, <3>4, <4>1 DEF OpenOrder
    <3>6. StaleOrder'
      BY Zenon, <2>1, <2>2, <2>7, <3>1, <3>3
         DEF StaleOrder, OneStale, NoStale, Stale, NoneAfter, NoneBetween
    <3> QED
      BY Zenon, <2>5, <2>6, <3>5, <3>6 DEF OrderInv
  <2>10. CASE status = "flushing"
    <3>1. status' # "open"
      BY <2>4, <2>10
    <3>2. OpenOrder' /\ StaleOrder'
      BY Zenon, <3>1 DEF OpenOrder, StaleOrder
    <3> QED
      BY Zenon, <2>5, <2>6, <3>2 DEF OrderInv
  <2> QED
    BY <2>3, <2>8, <2>9, <2>10
\* CommitFails and BuildFails: the job is gone and the error is latched.
<1>FailedOrder.
    ASSUME IInv, SeqInv, SourceTypes, OrderInv, SameSources, status = "open",
           mem_' = mem_, leader' = leader, job' = NoJob, bg_error_' = TRUE
    PROVE  OrderInv'
  <2> USE <1>FailedOrder
  <2>1. /\ NoJob.pc = "idle" /\ "idle" \notin Stages /\ "idle" # "unlink"
        /\ "idle" \notin {"build", "install"}
    BY Zenon DEF NoJob, Stages
  <2>2. BuildOrder' /\ ~Building' /\ FlushOrder'
    BY Zenon, <2>1 DEF BuildOrder, Building, FlushOrder, SameSources
  <2>3. leader'.seqs \subseteq leader.seqs
    BY Zenon
  <2> QED
    BY Zenon, <2>1, <2>2, <2>3, <1>SourcesKept DEF OrderInv
<1>RecoverLoadOrder.
    ASSUME IInv, OrderInv, RecoverLoad
    PROVE  OrderInv'
  <2> USE <1>RecoverLoadOrder
  <2>1. /\ status = "down"
        /\ imm_' = ReplayFrom(logs, manifest.log)
        /\ current_' = manifest.version
        /\ UNCHANGED <<job, logs, tables, manifest>>
    BY Zenon DEF RecoverLoad, disk
  <2>2. /\ status' \in {"newlog", "flushing"}
        /\ status' = "flushing" => ReplayFrom(logs, manifest.log) # {}
    BY Zenon DEF RecoverLoad
  <2>3. job' = NoJob
    BY Zenon, <2>1 DEF IInv, DownInv
  <2>4. /\ NoJob.pc = "idle" /\ "idle" \notin Stages
        /\ "idle" \notin {"build", "install"}
    BY Zenon DEF NoJob, Stages
  <2>5. status' # "open" /\ status' # "opening"
    BY <2>2
  <2>6. ManifestOrder' /\ MemoryOrder'
    BY Zenon, <2>1 DEF OrderInv, ManifestOrder, MemoryOrder, Restart
  <2>7. FlushOrder'
    BY Zenon, <2>1, <2>2, <2>3, <2>4 DEF FlushOrder
  <2>8. BuildOrder' /\ NewLogOrder' /\ OpenOrder' /\ StaleOrder'
    BY Zenon, <2>3, <2>4, <2>5 DEF BuildOrder, NewLogOrder, OpenOrder, StaleOrder
  <2> QED
    BY Zenon, <2>6, <2>7, <2>8 DEF OrderInv
\* Whoever makes a log makes an empty one, after all that are there.
<1>NewLog.
    ASSUME SourceTypes, status # "down",
           logs' = Create(logs, next_file_number_, NewLogFile)
    PROVE  SameLogs(logs, logs') /\ ReplayFrom(logs', next_file_number_) = {}
  <2> USE <1>NewLog
  <2>1. /\ DOMAIN logs \in SUBSET Nat /\ next_file_number_ \in Nat
        /\ Numbered(Visible(logs), next_file_number_)
    BY Zenon DEF SourceTypes
  <2>2. \A n \in Visible(logs) : n < next_file_number_ /\ n \in Nat
    BY Zenon, <2>1 DEF Numbered, Visible
  <2>3. next_file_number_ \notin Visible(logs)
    BY <2>1, <2>2
  <2>4. SameLogs(logs, logs')
    BY Zenon, <2>3, <1>HeldCreate
  <2>5. ReplayFrom(logs, next_file_number_) = {}
    BY ONLY SMTT(30), <2>1, <2>2 DEF ReplayFrom
  <2>6. DOMAIN logs' \in SUBSET Nat
    BY Zenon, <2>1 DEF Create
  <2> QED
    BY Zenon, <2>1, <2>4, <2>5, <2>6, <1>ReplaySame
<1>RecoverOpenLogOrder.
    ASSUME IInv, SeqInv, SourceTypes, OrderInv, TypeOK', RecoverOpenLog
    PROVE  OrderInv'
  <2> USE <1>RecoverOpenLogOrder
  <2>1. /\ status = "newlog" /\ status' = "opening"
        /\ logs' = Create(logs, next_file_number_, NewLogFile)
        /\ log_number_' = next_file_number_
        /\ UNCHANGED <<imm_, current_, tables, manifest>>
    BY Zenon DEF RecoverOpenLog
  <2>2. job'.pc = "rename"
    BY DEF RecoverOpenLog, CommitOf, NoJob
  <2>3. SameLogs(logs, logs') /\ ReplayFrom(logs', next_file_number_) = {}
    BY <2>1, <1>NewLog
  <2>4. /\ ReplayFrom(logs', manifest.log) = ReplayFrom(logs, manifest.log)
        /\ ReplayFrom(logs', 0) = ReplayFrom(logs, 0)
    <3>1. DOMAIN logs \in SUBSET Nat /\ DOMAIN logs' \in SUBSET Nat
          /\ manifest.log \in Nat
      BY Zenon, <1>LogsDomain DEF SourceTypes
    <3>2. SameLogs(logs, logs')
      BY Zenon, <2>3
    <3>3. \A k \in Nat : ReplayFrom(logs', k) = ReplayFrom(logs, k)
      BY ONLY SMTT(30), <3>1, <3>2, <1>ReplaySame
    <3> QED
      BY Zenon, <3>1, <3>3, <1>Zero
  <2>5. ManifestOrder' /\ MemoryOrder'
    BY Zenon, <2>1, <2>4 DEF OrderInv, ManifestOrder, MemoryOrder, Restart
  <2>6. BuildOrder' /\ NewLogOrder'
    <3>1. job'.pc \notin {"build", "install"} /\ job'.pc # "install"
          /\ job'.pc # "unlink"
      BY <2>2
    <3> QED
      BY Zenon, <2>1, <2>3, <3>1 DEF BuildOrder, NewLogOrder
  <2>7. FlushOrder' /\ OpenOrder' /\ StaleOrder'
    BY Zenon, <2>1 DEF FlushOrder, OpenOrder, StaleOrder
  <2> QED
    BY Zenon, <2>5, <2>6, <2>7 DEF OrderInv
\* A table is created under the next number, which no version names.
<1>StartTableOrder.
    ASSUME IInv, SeqInv, SourceTypes, OrderInv, TypeOK',
           NEW kind \in {"flush", "compact"}, NEW v \in Version,
           StartTable(kind, v), ~bg_error_,
           status \in {"flushing", "open"},
           kind = "compact" => v.l0 \in {current_.l0, {}}
    PROVE  OrderInv'
  <2> USE <1>StartTableOrder
  <2>1. /\ job.pc = "idle"
        /\ tables' = Create(tables, next_file_number_, NewTableFile)
        /\ job' = BuildJob(kind, next_file_number_, v)
        /\ UNCHANGED <<status, mem_, imm_, current_, log_number_, imm_log_number_,
                       bg_error_, leader, logs, manifest>>
    BY Zenon DEF StartTable, BuildJob
  <2>2. /\ next_file_number_ \in Nat /\ status # "down"
        /\ Numbered(Live(current_), next_file_number_)
        /\ Numbered(Live(manifest.version), next_file_number_)
        /\ Live(current_) \subseteq Visible(tables)
        /\ Live(manifest.version) \subseteq Visible(tables)
    BY Zenon DEF SourceTypes
  <2>3. /\ job'.pc = "build" /\ job'.kind = kind
        /\ job'.number = next_file_number_ /\ job'.target.version = v
    BY ONLY SMTT(30), <2>1, <2>2, BuildJobType
  <2>4. \A n \in Visible(tables) :
           n < next_file_number_ => tables'[n].covers = tables[n].covers
    <3>1. TableFiles(tables)
      BY Zenon DEF IInv, TypeOK
    <3>2. \A n \in Visible(tables) : n \in Nat /\ n \in DOMAIN tables
      BY Zenon, <3>1 DEF TableFiles, Visible
    <3>3. \A n \in Visible(tables) : n < next_file_number_ => tables'[n] = tables[n]
      BY ONLY SMTT(30), <2>1, <2>2, <3>2 DEF Create
    <3> QED
      BY Zenon, <3>3
  <2>5. SameSources
    <3>1. /\ SameTables(tables, tables', Live(current_))
          /\ SameTables(tables, tables', Live(manifest.version))
      BY Zenon, <2>2, <2>4 DEF SameTables, Numbered
    <3> QED
      BY Zenon, <2>1, <3>1 DEF SameSources, SameLogs, SourceTypes
  <2>6. BuildOrder'
    <3>1. job'.pc # "install"
      BY Zenon, <2>3
    <3> QED
      BY Zenon, <2>1, <2>2, <2>3, <3>1 DEF BuildOrder
  <2>7. /\ job'.pc \notin Stages /\ job.pc \notin Stages /\ job'.pc # "unlink"
        /\ Building \/ (job.pc = "idle" /\ ~bg_error_)
    BY Zenon, <2>1, <2>3 DEF Stages
  <2>8. leader'.seqs \subseteq leader.seqs
    BY Zenon, <2>1
  <2> QED
    BY Zenon, <2>1, <2>5, <2>6, <2>7, <2>8, <1>SourcesKept DEF OrderInv
<1>StartOrder.
    ASSUME IInv, SeqInv, SourceTypes, OrderInv, TypeOK', FlushStart \/ CompactStart
    PROVE  OrderInv'
  <2> USE <1>StartOrder
  <2>1. CASE FlushStart
    <3>1. NoVersion \in Version
      BY IdleTypes
    <3>2. /\ status \in {"flushing", "open"} /\ ~bg_error_
          /\ StartTable("flush", NoVersion)
      BY Zenon, <2>1 DEF FlushStart
    <3> QED
      BY Zenon, <3>1, <3>2, <1>StartTableOrder
  <2>2. CASE CompactStart
    <3>1. current_ \in Version
      BY Zenon DEF IInv, TypeOK
    <3>2. current_.l0 \subseteq Nat /\ current_.deep \subseteq Nat
      BY <3>1 DEF Version
    <3>3. PICK below \in SUBSET current_.deep, top \in {current_.l0, {}} :
            StartTable("compact", [l0 |-> top, deep |-> below])
      BY Zenon, <2>2 DEF CompactStart
    <3>4. [l0 |-> top, deep |-> below] \in Version
          /\ [l0 |-> top, deep |-> below].l0 = top
      BY Zenon, <3>2 DEF Version
    <3>5. status \in {"flushing", "open"} /\ ~bg_error_
      BY Zenon, <2>2 DEF CompactStart
    <3> QED
      BY Zenon, <3>3, <3>4, <3>5, <1>StartTableOrder
  <2> QED
    BY <2>1, <2>2
\* A table that is being built is that of no version.
<1>BuildFacts.
    ASSUME IInv, SeqInv, Building
    PROVE  /\ status \in {"flushing", "open"}
           /\ status = "flushing" => job.kind = "flush"
           /\ job.number \in Visible(tables)
           /\ job.number \notin Live(current_)
           /\ job.number \notin Live(manifest.version)
           /\ job.kind \in {"flush", "compact"}
           /\ job.kind = "flush" => imm_ # {}
           /\ job.kind = "compact" =>
                 /\ job.target.version.l0 \subseteq current_.l0
                 /\ job.target.version.deep \subseteq current_.deep
  <2> USE <1>BuildFacts
  <2>1. TypeOK /\ DownInv /\ TablesInv /\ RecoverInv /\ PhaseSeq
    BY Zenon DEF IInv, SeqInv
  <2>2. /\ job.pc \in {"build", "install"} /\ job.pc # "idle"
        /\ ~Committing
    BY DEF Building, Committing
  <2>3. status \in {"flushing", "open"}
    BY Zenon, <2>1, <2>2 DEF PhaseSeq, TypeOK, RecoverInv
  <2>4. status = "flushing" => job.kind # "compact"
    BY Zenon, <2>1 DEF PhaseSeq
  <2> QED
    BY Zenon, <2>1, <2>2, <2>3, <2>4 DEF TablesInv
<1>BuildTableOrder.
    ASSUME IInv, SeqInv, SourceTypes, OrderInv, TypeOK', BuildTable
    PROVE  OrderInv'
  <2> USE <1>BuildTableOrder
  <2>1. /\ job.pc = "build" /\ Building
        /\ tables' = [tables EXCEPT ![job.number]
                                      = Finished(tables[job.number], BuiltFrom)]
        /\ job' = [job EXCEPT !.pc = "install"]
        /\ UNCHANGED <<status, mem_, imm_, current_, log_number_, imm_log_number_,
                       bg_error_, leader, logs, manifest>>
    BY DEF BuildTable, Building
  <2>2. /\ job'.pc = "install" /\ job'.kind = job.kind /\ job'.number = job.number
        /\ job'.target = job.target
    BY ONLY SMTT(30), <2>1, JobAt DEF IInv, TypeOK
  <2>3. /\ status \in {"flushing", "open"}
        /\ job.number \in Visible(tables)
        /\ job.number \notin Live(current_)
        /\ job.number \notin Live(manifest.version)
        /\ job.kind \in {"flush", "compact"}
        /\ job.kind = "compact" =>
              /\ job.target.version.l0 \subseteq current_.l0
              /\ job.target.version.deep \subseteq current_.deep
    BY Zenon, <2>1, <1>BuildFacts
  <2>4. /\ \A n \in DOMAIN tables : n # job.number => tables'[n] = tables[n]
        /\ tables'[job.number].covers = BuiltFrom
    BY <2>1, <2>3 DEF Finished, Visible
  <2>5. status # "down"
    BY Zenon, <2>3
  <2>6. SameSources
    <3>1. /\ SameTables(tables, tables', Live(current_))
          /\ SameTables(tables, tables', Live(manifest.version))
      BY Zenon, <2>3, <2>4, <2>5 DEF SameTables, SourceTypes, Visible
    <3> QED
      BY Zenon, <2>1, <3>1 DEF SameSources, SameLogs, SourceTypes
  <2>7. BuildOrder'
    <3>1. /\ Numbered(Live(current_), job.number)
          /\ job.kind = "compact" => job.target.version.l0 \in {current_.l0, {}}
      BY Zenon, <2>1 DEF OrderInv, BuildOrder, Building
    <3>2. job.kind = "flush" => tables'[job.number].covers \subseteq imm_
      BY Zenon, <2>4 DEF BuiltFrom
    <3>3. ASSUME job.kind = "compact"
          PROVE  tables'[job.number].covers
                    \subseteq CoversOf(tables', job.target.version)
      <4>1. Live(job.target.version) \subseteq Live(current_)
        BY Zenon, <2>3, <3>3 DEF Live
      <4>2. SameTables(tables, tables', Live(job.target.version))
        BY Zenon, <2>6, <4>1 DEF SameSources, SameTables
      <4>3. CoversOf(tables', job.target.version)
               = CoversOf(tables, job.target.version)
        BY ONLY SMTT(30), <4>2, <1>CoversSame
      <4>4. BuiltFrom = Covers(tables, job.target.version)
        BY Zenon, <3>3 DEF BuiltFrom
      <4>5. Covers(tables, job.target.version)
               \subseteq CoversOf(tables, job.target.version)
        BY Zenon DEF Covers, CoversOf
      <4> QED
        BY Zenon, <2>4, <4>3, <4>4, <4>5
    <3> QED
      BY Zenon, <2>1, <2>2, <3>1, <3>2, <3>3 DEF BuildOrder
  <2>8. /\ job'.pc \notin Stages /\ job.pc \notin Stages /\ job'.pc # "unlink"
    BY <2>1, <2>2 DEF Stages
  <2>9. leader'.seqs \subseteq leader.seqs
    BY <2>1
  <2> QED
    BY Zenon, <2>1, <2>6, <2>7, <2>8, <2>9, <1>SourcesKept DEF OrderInv
<1>BuildFailsOrder.
    ASSUME IInv, SeqInv, SourceTypes, OrderInv, BuildFails
    PROVE  OrderInv'
  <2> USE <1>BuildFailsOrder
  <2>1. /\ Building /\ status = "open" /\ bg_error_' = TRUE /\ job' = NoJob
        /\ tables' = tables \/ tables' = Without(tables, {job.number})
        /\ UNCHANGED <<status, mem_, imm_, current_, log_number_, imm_log_number_,
                       leader, logs, manifest>>
    BY Zenon DEF BuildFails, Building
  <2>2. /\ job.number \notin Live(current_)
        /\ job.number \notin Live(manifest.version)
    BY Zenon, <2>1, <1>BuildFacts
  <2>3. \A n \in DOMAIN tables : n # job.number => tables'[n] = tables[n]
    BY Zenon, <2>1 DEF Without
  <2>4. status # "down"
    BY <2>1
  <2>5. SameSources
    <3>1. /\ SameTables(tables, tables', Live(current_))
          /\ SameTables(tables, tables', Live(manifest.version))
      BY Zenon, <2>2, <2>3, <2>4 DEF SameTables, SourceTypes, Visible
    <3> QED
      BY Zenon, <2>1, <3>1 DEF SameSources, SameLogs, SourceTypes
  <2> QED
    BY Zenon, <2>1, <2>5, <1>FailedOrder
<1>CommitFailsOrder.
    ASSUME IInv, SeqInv, SourceTypes, OrderInv, CommitFails
    PROVE  OrderInv'
  <2> USE <1>CommitFailsOrder
  <2>1. /\ status = "open" /\ bg_error_' = TRUE /\ job' = NoJob
        /\ UNCHANGED <<status, mem_, imm_, current_, log_number_, imm_log_number_,
                       leader, logs, tables, manifest>>
    BY Zenon DEF CommitFails, disk
  <2>2. SameSources
    BY Zenon, <2>1 DEF SameSources, SameLogs, SameTables, SourceTypes
  <2> QED
    BY Zenon, <2>1, <2>2, <1>FailedOrder
\* The new table has the writes of imm_, which are newer than all tables.
<1>FlushInstallOrder.
    ASSUME IInv, SeqInv, SourceTypes, OrderInv, FlushInstall
    PROVE  OrderInv'
  <2> USE <1>FlushInstallOrder
  <2> DEFINE X == tables[job.number].covers
             C == CoversOf(tables, current_)
  <2>1. /\ job.kind = "flush" /\ job.pc = "install" /\ Building
        /\ current_' = [current_ EXCEPT !.l0 = current_.l0 \cup {job.number}]
        /\ imm_' = {} /\ imm_log_number_' = 0
        /\ job' = CommitOf("flush", current_',
                           OldestLiveLog(imm_', imm_log_number_', log_number_),
                           next_file_number_)
        /\ UNCHANGED <<status, mem_, log_number_, leader, logs, tables, manifest>>
    BY DEF FlushInstall, Building, disk
  <2>2. OldestLiveLog(imm_', imm_log_number_', log_number_) = log_number_
        /\ Oldest' = log_number_
    BY <2>1 DEF OldestLiveLog, Oldest
  <2>3. /\ job'.pc = "rename" /\ job'.target.log = log_number_
    BY <2>1, <2>2 DEF CommitOf, NoJob
  <2>4. /\ status \in {"flushing", "open"} /\ imm_ # {} /\ status # "down"
    BY <2>1, <1>BuildFacts
  <2>5. /\ X = imm_
        /\ Numbered(Live(current_), job.number)
    <3>1. X \subseteq imm_ /\ Numbered(Live(current_), job.number)
      BY Zenon, <2>1 DEF OrderInv, BuildOrder, Building
    <3>2. imm_ \subseteq X
      BY Zenon, <2>1 DEF IInv, TablesInv
    <3> HIDE DEF X
    <3> QED
      BY Zenon, <3>1, <3>2
  <2>6. /\ current_'.l0 = current_.l0 \cup {job.number}
        /\ current_'.deep = current_.deep
    BY <2>1 DEF IInv, TypeOK, Version
  <2>7. CoversOf(tables, current_') = C \cup imm_
    <3>1. Live(current_') = Live(current_) \cup {job.number}
      BY Zenon, <2>6 DEF Live
    <3> QED
      BY Zenon, <2>5, <3>1 DEF CoversOf
  <2>8. /\ \A m \in current_.l0 : NoHide(X, tables[m].covers)
        /\ \A m \in current_.deep : NoHide(X, tables[m].covers)
    <3>1. NoHide(X, C)
      BY Zenon, <2>5 DEF OrderInv, MemoryOrder
    <3>2. \A m \in Live(current_) : tables[m].covers \subseteq C
      BY Zenon DEF CoversOf
    <3>3. \A m \in Live(current_) : NoHide(X, tables[m].covers)
      BY Zenon, <3>1, <3>2, NoHideOf
    <3> QED
      BY Zenon, <3>3 DEF Live
  <2>9. Ordered(tables, current_')
    <3>1. Ordered(tables, current_)
      BY Zenon DEF OrderInv, MemoryOrder
    <3>2. \A m \in current_.l0 : m < job.number /\ m \in Nat /\ job.number \in Nat
      <4>1. current_ \in Version /\ job \in Job
        BY Zenon DEF IInv, TypeOK
      <4> QED
        BY Zenon, <2>5, <4>1, JobFields, VersionNats DEF Numbered, Live
    <3>3. \A m \in current_.l0 : ~(job.number < m)
      BY ONLY SMTT(30), <3>2
    <3>4. job.number \in Nat
      BY Zenon, SeqTypes DEF IInv
    <3>5. ~(job.number < job.number)
      BY <3>4
    <3> SUFFICES ASSUME NEW n \in current_.l0 \cup {job.number}
                 PROVE  /\ \A m \in current_.l0 \cup {job.number} :
                              m < n => NoHide(tables[n].covers, tables[m].covers)
                        /\ \A m \in current_.deep :
                              NoHide(tables[n].covers, tables[m].covers)
      BY Zenon, <2>6 DEF Ordered
    <3>6. CASE n \in current_.l0
      BY Zenon, <3>1, <3>3, <3>6 DEF Ordered
    <3>7. CASE n = job.number
      BY Zenon, <2>8, <3>5, <3>7
    <3> QED
      BY Zenon, <3>6, <3>7
  <2> HIDE DEF X, C
  <2>10. MemoryOrder'
    BY Zenon, <2>1, <2>9, NoHideNone DEF MemoryOrder
  <2>11. ManifestOrder'
    BY Zenon, <2>1 DEF OrderInv, ManifestOrder
  <2>12. /\ "rename" \in Stages /\ "rename" # "unlink" /\ "rename" # "idle"
         /\ "rename" \notin {"build", "install"} /\ "rename" # "install"
    BY DEF Stages
  <2>13. BuildOrder' /\ ~Building'
    BY Zenon, <2>3, <2>12 DEF BuildOrder, Building
  <2>14. NewLogOrder'
    BY <2>1, <2>4 DEF NewLogOrder
  <2>15. imm_ \subseteq ReplayFrom(logs, 0)
    <3>1. CASE status = "open"
      <4>1. imm_log_number_ \in Visible(logs)
            /\ imm_ \subseteq Replay(logs[imm_log_number_].recs)
        BY Zenon, <2>4, <3>1 DEF IInv, OpenInv, Needed
      <4>2. imm_log_number_ \in Nat /\ imm_log_number_ >= 0
        BY DEF SourceTypes
      <4> QED
        BY ONLY SMTT(30), <4>1, <4>2, ReplayFromContains
    <3>2. CASE status = "flushing"
      <4>1. job.pc \notin Stages
        BY <2>1 DEF Stages
      <4>2. imm_ = ReplayFrom(logs, manifest.log)
        BY Zenon, <3>2, <4>1 DEF OrderInv, FlushOrder
      <4> QED
        <5>1. DOMAIN logs \in SUBSET Nat /\ manifest.log \in Nat
          BY Zenon DEF SourceTypes
        <5>2. 0 <= manifest.log
          BY ONLY SMTT(30), <5>1
        <5> QED
          BY Zenon, <4>2, <5>1, <5>2, <1>Zero, <1>ReplayLess
    <3> QED
      BY <2>4, <3>1, <3>2
  <2>16. NoHide(ReplayFrom(logs, 0), imm_)
    BY Zenon, <2>15, <1>NoHideOwn
  <2>17. NoHide(ReplayFrom(logs, 0), C)
    <3>1. CASE status = "open"
      BY Zenon, <3>1 DEF OrderInv, OpenOrder, C
    <3>2. CASE status = "flushing"
      <4>1. job.pc \notin Stages
        BY <2>1 DEF Stages
      <4>2. /\ current_ = manifest.version
            /\ ReplayFrom(logs, manifest.log) # {}
        BY Zenon, <3>2, <4>1 DEF OrderInv, FlushOrder
      <4> QED
        BY Zenon, <4>2 DEF OrderInv, ManifestOrder, Restart, C
    <3> QED
      BY <2>4, <3>1, <3>2
  <2>18. NoHide(ReplayFrom(logs, 0), CoversOf(tables, current_'))
    <3>1. NoHide(ReplayFrom(logs, 0), C \cup imm_)
      BY Zenon, <2>16, <2>17, <1>NoHideBoth
    <3> QED
      BY Zenon, <2>7, <3>1
  <2>19. FlushOrder'
    BY Zenon, <2>1, <2>3, <2>12, <2>18 DEF FlushOrder
  <2>20. OpenOrder'
    <3> SUFFICES ASSUME status = "open" PROVE OpenOrder'
      BY Zenon, <2>1 DEF OpenOrder
    <3>1. /\ Above(mem_, imm_) /\ Above(mem_, C)
          /\ Above(leader.seqs, mem_) /\ Above(leader.seqs, imm_)
          /\ Above(leader.seqs, C)
          /\ Above(leader.seqs, CoversOf(tables, manifest.version))
          /\ Above(ReplayFrom(logs, log_number_), imm_)
          /\ Above(ReplayFrom(logs, Oldest), C)
          /\ NoHide(ReplayFrom(logs, 0), CoversOf(tables, manifest.version))
      BY Zenon DEF OrderInv, OpenOrder, C
    <3>2. Oldest <= log_number_
      <4>1. Oldest = imm_log_number_
        BY Zenon, <2>4 DEF Oldest, OldestLiveLog
      <4>2. imm_log_number_ < log_number_
        BY Zenon, <2>4 DEF IInv, OpenInv
      <4>3. imm_log_number_ \in Nat /\ log_number_ \in Nat
        BY Zenon DEF SourceTypes
      <4> QED
        BY ONLY SMTT(30), <4>1, <4>2, <4>3
    <3>3. ReplayFrom(logs, log_number_) \subseteq ReplayFrom(logs, Oldest)
      BY Zenon, <3>2, <1>ReplayLess DEF SourceTypes
    <3>4. /\ Above(mem_, C \cup imm_) /\ Above(leader.seqs, C \cup imm_)
          /\ Above(ReplayFrom(logs, log_number_), C)
      BY Zenon, <3>1, <3>3, <1>AboveLess, <1>AboveBoth
    <3>5. Above(ReplayFrom(logs, log_number_), C \cup imm_)
      BY Zenon, <3>1, <3>4, <1>AboveBoth
    <3>6. Above(mem_, {}) /\ Above(leader.seqs, {})
          /\ Above(ReplayFrom(logs, log_number_), {})
      BY Zenon, <1>AboveNone
    <3> QED
      BY Zenon, <2>1, <2>2, <2>7, <2>18, <3>1, <3>4, <3>5, <3>6 DEF OpenOrder
  <2>21. StaleOrder'
    <3> SUFFICES ASSUME status = "open" PROVE StaleOrder'
      BY Zenon, <2>1 DEF StaleOrder
    <3>1. /\ NoStale(logs, imm_log_number_)
          /\ NoneBetween(logs, imm_log_number_, log_number_)
          /\ NoneAfter(logs, log_number_)
      BY Zenon, <2>1, <2>4 DEF OrderInv, StaleOrder, Oldest, OldestLiveLog
    <3>2. imm_log_number_ \in Nat /\ log_number_ \in Nat
      BY Zenon DEF SourceTypes
    <3>3. ASSUME NEW n \in Nat, Stale(logs, log_number_, n) PROVE n = imm_log_number_
      <4>1. n < log_number_ /\ Held(logs, n) # {}
        BY Zenon, <3>3 DEF Stale
      <4>2. ~(n < imm_log_number_)
        BY Zenon, <3>1, <4>1 DEF NoStale, Stale
      <4>3. ~(imm_log_number_ < n)
        BY Zenon, <3>1, <4>1 DEF NoneBetween
      <4> QED
        BY ONLY SMTT(30), <3>2, <4>2, <4>3
    <3>4. OneStale(logs, log_number_)
      BY Zenon, <3>3 DEF OneStale
    <3> QED
      BY Zenon, <2>1, <2>2, <2>3, <2>12, <2>13, <3>1, <3>4 DEF StaleOrder
  <2> QED
    BY Zenon, <2>10, <2>11, <2>13, <2>14, <2>19, <2>20, <2>21 DEF OrderInv
\* A compaction takes all of L0 or none of it, and covers no more than before.
<1>CompactInstallOrder.
    ASSUME IInv, SeqInv, SourceTypes, OrderInv, CompactInstall
    PROVE  OrderInv'
  <2> USE <1>CompactInstallOrder
  <2> DEFINE inputs == job.target.version
             X == tables[job.number].covers
             C == CoversOf(tables, current_)
             D == CoversOf(tables, current_')
  <2>1. /\ job.kind = "compact" /\ job.pc = "install" /\ Building
        /\ current_' = Compacted(current_, inputs, job.number)
        /\ job' = CommitOf("compact", current_', Oldest, next_file_number_)
        /\ UNCHANGED <<status, mem_, imm_, log_number_, imm_log_number_, bg_error_,
                       leader, logs, tables, manifest>>
    BY Zenon DEF CompactInstall, Building, disk, Oldest
  <2>2. /\ job'.pc = "rename" /\ job'.target.log = Oldest
    BY <2>1 DEF CommitOf, NoJob
  <2>3. /\ status = "open"
        /\ inputs.l0 \subseteq current_.l0 /\ inputs.deep \subseteq current_.deep
    BY Zenon, <2>1, <1>BuildFacts
  <2>4. /\ X \subseteq CoversOf(tables, inputs)
        /\ inputs.l0 \in {current_.l0, {}}
    BY Zenon, <2>1 DEF OrderInv, BuildOrder, Building
  <2>5. /\ current_'.l0 = current_.l0 \ inputs.l0
        /\ current_'.deep = (current_.deep \ inputs.deep) \cup {job.number}
    BY Zenon, <2>1 DEF Compacted
  <2>6. D \subseteq C
    <3>1. Live(current_') \subseteq Live(current_) \cup {job.number}
      BY Zenon, <2>5 DEF Live
    <3>2. Live(inputs) \subseteq Live(current_)
      BY Zenon, <2>3 DEF Live
    <3>3. X \subseteq C
      BY Zenon, <2>4, <3>2 DEF CoversOf
    <3> QED
      BY Zenon, <3>1, <3>3 DEF CoversOf
  <2>7. Ordered(tables, current_')
    <3>1. Ordered(tables, current_)
      BY Zenon DEF OrderInv, MemoryOrder
    <3>2. CASE inputs.l0 = current_.l0
      <4>1. current_'.l0 = {}
        BY Zenon, <2>5, <3>2
      <4> QED
        BY Zenon, <4>1 DEF Ordered
    <3>3. CASE inputs.l0 = {}
      <4>1. current_'.l0 = current_.l0
        BY Zenon, <2>5, <3>3
      <4>2. ASSUME NEW n \in current_.l0 PROVE NoHide(tables[n].covers, X)
        <5>1. \A m \in inputs.deep : NoHide(tables[n].covers, tables[m].covers)
          BY Zenon, <2>3, <3>1 DEF Ordered
        <5>2. CoversOf(tables, inputs) = UNION {tables[m].covers : m \in inputs.deep}
          BY Zenon, <3>3 DEF CoversOf, Live
        <5> QED
          BY ONLY SMTT(30), <2>4, <5>1, <5>2 DEF NoHide
      <4>3. \A m \in current_'.deep : m \in current_.deep \/ m = job.number
        BY Zenon, <2>5
      <4> QED
        BY Zenon, <3>1, <4>1, <4>2, <4>3 DEF Ordered
    <3> QED
      BY Zenon, <2>4, <3>2, <3>3
  <2> HIDE DEF inputs, X, C, D
  <2>8. MemoryOrder'
    BY Zenon, <2>1, <2>6, <2>7, NoHideOf DEF OrderInv, MemoryOrder, C, D
  <2>9. ManifestOrder'
    BY Zenon, <2>1 DEF OrderInv, ManifestOrder
  <2>10. /\ "rename" \in Stages /\ "rename" # "unlink" /\ "rename" # "idle"
         /\ "rename" \notin {"build", "install"} /\ "rename" # "install"
    BY DEF Stages
  <2>11. BuildOrder' /\ ~Building'
    BY Zenon, <2>2, <2>10 DEF BuildOrder, Building
  <2>12. FlushOrder' /\ NewLogOrder'
    BY Zenon, <2>1, <2>3 DEF FlushOrder, NewLogOrder
  <2>13. Oldest' = Oldest
    BY Zenon, <2>1 DEF Oldest, OldestLiveLog
  <2>14. OpenOrder'
    <3>1. /\ Above(mem_, D) /\ Above(leader.seqs, D)
          /\ Above(ReplayFrom(logs, Oldest), D)
          /\ NoHide(ReplayFrom(logs, 0), D)
      <4>1. /\ Above(mem_, C) /\ Above(leader.seqs, C)
            /\ Above(ReplayFrom(logs, Oldest), C)
            /\ NoHide(ReplayFrom(logs, 0), C)
        BY Zenon, <2>3 DEF OrderInv, OpenOrder, C
      <4> QED
        BY Zenon, <2>6, <4>1, <1>AboveOf, NoHideOf
    <3> QED
      BY Zenon, <2>1, <2>3, <2>13, <3>1 DEF OrderInv, OpenOrder, D
  <2>15. StaleOrder'
    BY Zenon, <2>1, <2>2, <2>3, <2>10, <2>11, <2>13 DEF OrderInv, StaleOrder
  <2> QED
    BY Zenon, <2>8, <2>9, <2>11, <2>12, <2>14, <2>15 DEF OrderInv
\* A full memtable, or one that FlushMemTable rotates, is not empty.
<1>SwitchOrder.
    ASSUME IInv, SeqInv, SourceTypes, OrderInv, TypeOK', status = "open",
           mem_ # {}, SwitchMemTable
    PROVE  OrderInv'
  <2> USE <1>SwitchOrder
  <2>1. /\ imm_ = {} /\ imm_' = mem_ /\ mem_' = {}
        /\ imm_log_number_' = log_number_ /\ log_number_' = next_file_number_
        /\ logs' = Create(logs, next_file_number_, NewLogFile)
        /\ UNCHANGED <<status, current_, bg_error_, leader, job, tables, manifest>>
    BY Zenon DEF SwitchMemTable
  <2>2. /\ SameLogs(logs, logs') /\ ReplayFrom(logs', next_file_number_) = {}
        /\ DOMAIN logs' \in SUBSET Nat /\ status # "down"
    BY Zenon, <2>1, <1>NewLog, <1>LogsDomain
  <2>3. Oldest = log_number_ /\ Oldest' = log_number_
    BY Zenon, <2>1 DEF Oldest, OldestLiveLog
  <2>4. /\ log_number_ \in Nat /\ manifest.log \in Nat
        /\ next_file_number_ \in Nat /\ DOMAIN logs \in SUBSET Nat
    BY Zenon DEF SourceTypes
  <2>5. /\ ReplayFrom(logs', manifest.log) = ReplayFrom(logs, manifest.log)
        /\ ReplayFrom(logs', 0) = ReplayFrom(logs, 0)
        /\ ReplayFrom(logs', log_number_) = ReplayFrom(logs, log_number_)
        /\ \A n \in Nat : Stale(logs', log_number_, n) <=> Stale(logs, log_number_, n)
        /\ OneStale(logs', log_number_) <=> OneStale(logs, log_number_)
        /\ NoStale(logs', log_number_) <=> NoStale(logs, log_number_)
        /\ NoneAfter(logs', log_number_) <=> NoneAfter(logs, log_number_)
    BY ONLY SMTT(30), <2>2, <2>4, <1>ReplaySame
  <2>6. /\ Above(mem_, CoversOf(tables, current_))
        /\ Above(leader.seqs, mem_)
        /\ Above(leader.seqs, CoversOf(tables, current_))
        /\ Above(leader.seqs, CoversOf(tables, manifest.version))
        /\ Above(ReplayFrom(logs, log_number_), CoversOf(tables, current_))
        /\ NoHide(ReplayFrom(logs, 0), CoversOf(tables, current_))
        /\ NoHide(ReplayFrom(logs, 0), CoversOf(tables, manifest.version))
    BY Zenon, <2>3 DEF OrderInv, OpenOrder
  <2>7. ManifestOrder'
    BY Zenon, <2>1, <2>5 DEF OrderInv, ManifestOrder, Restart
  <2>8. MemoryOrder'
    <3>1. NoHide(mem_, CoversOf(tables, current_))
      BY Zenon, <2>2, <2>6, AboveNoHide DEF SourceTypes
    <3> QED
      BY Zenon, <2>1, <3>1 DEF OrderInv, MemoryOrder
  <2>9. BuildOrder'
    <3>1. Building => job.kind # "flush"
      BY Zenon, <2>1, <1>BuildFacts
    <3>2. job.pc = "install" => Building
      BY Zenon DEF Building
    <3> QED
      BY Zenon, <2>1, <3>1, <3>2 DEF OrderInv, BuildOrder
  <2>10. FlushOrder' /\ NewLogOrder'
    BY Zenon, <2>1 DEF FlushOrder, NewLogOrder
  <2>11. OpenOrder'
    <3>1. /\ Above({}, mem_) /\ Above({}, CoversOf(tables, current_))
          /\ Above(leader.seqs, {})
      BY Zenon, <1>AboveNone
    <3> QED
      BY Zenon, <2>1, <2>2, <2>3, <2>5, <2>6, <3>1 DEF OpenOrder
  <2>12. StaleOrder'
    <3>1. /\ OneStale(logs, log_number_)
          /\ (Building \/ (job.pc = "idle" /\ ~bg_error_))
                => NoStale(logs, log_number_)
          /\ job.pc \in Stages => job.target.log = log_number_
          /\ job.pc = "unlink" =>
                \A n \in Nat : Stale(logs, log_number_, n) => n \in job.doomedLogs
          /\ NoneAfter(logs, log_number_)
      BY Zenon, <2>3 DEF OrderInv, StaleOrder
    <3>2. NoneAfter(logs', next_file_number_)
      <4>1. ASSUME NEW n \in Nat, next_file_number_ < n PROVE Held(logs', n) = {}
        <5>1. n >= next_file_number_
          BY <2>4, <4>1
        <5> QED
          BY Zenon, <2>2, <2>4, <5>1, <1>HeldFrom
      <4> QED
        BY Zenon, <4>1 DEF NoneAfter
    <3>3. NoneBetween(logs', log_number_, next_file_number_)
      BY Zenon, <2>5, <3>1 DEF NoneAfter, NoneBetween
    <3>4. Building' <=> Building
      BY Zenon, <2>1 DEF Building
    <3> QED
      BY Zenon, <2>1, <2>3, <2>5, <3>1, <3>2, <3>3, <3>4 DEF StaleOrder
  <2> QED
    BY Zenon, <2>7, <2>8, <2>9, <2>10, <2>11, <2>12 DEF OrderInv
\* Steps of a write, or of a client, that change what can be replayed or built
\* in no way: OpenOrder is all that is left to show.
<1>QuietOrder.
    ASSUME SourceTypes, OrderInv, SameSources, tables' = tables, job' = job,
           bg_error_ => bg_error_'
    PROVE  /\ OpenOrder' => OrderInv'
           /\ mem_' = mem_ /\ leader'.seqs \subseteq leader.seqs => OrderInv'
  <2> USE <1>QuietOrder
  <2>1. BuildOrder'
    BY Zenon, <1>BuildKept DEF SameSources
  <2>2. Building' <=> Building
    BY Zenon DEF Building
  <2>3. /\ ManifestOrder' /\ MemoryOrder' /\ FlushOrder' /\ NewLogOrder'
        /\ StaleOrder'
        /\ mem_' = mem_ /\ leader'.seqs \subseteq leader.seqs => OpenOrder'
    BY Zenon, <2>2, <1>SourcesKept
  <2> QED
    BY Zenon, <2>1, <2>3 DEF OrderInv
<1>MakeRoomFailsOrder.
    ASSUME IInv, SeqInv, SourceTypes, OrderInv, TypeOK', MakeRoomFails
    PROVE  OrderInv'
  <2> USE <1>MakeRoomFailsOrder
  <2>1. /\ status = "open"
        /\ logs' = logs \/ logs' = Create(logs, next_file_number_, NewLogFile)
        /\ UNCHANGED <<status, mem_, imm_, current_, log_number_, imm_log_number_,
                       bg_error_, leader, job, tables, manifest>>
    BY Zenon DEF MakeRoomFails
  <2>2. SameLogs(logs, logs')
    <3>1. CASE logs' = logs
      BY Zenon, <3>1 DEF SameLogs
    <3>2. CASE logs' = Create(logs, next_file_number_, NewLogFile)
      BY Zenon, <2>1, <3>2, <1>NewLog
    <3> QED
      BY Zenon, <2>1, <3>1, <3>2
  <2>3. SameSources
    BY Zenon, <2>1, <2>2, <1>LogsDomain DEF SameSources, SameTables
  <2>4. leader'.seqs \subseteq leader.seqs
    BY Zenon, <2>1
  <2> QED
    BY Zenon, <2>1, <2>3, <2>4, <1>QuietOrder
\* New numbers are above all that was handed out before.
<1>WriteBeginOrder.
    ASSUME IInv, SeqInv, SourceTypes, OrderInv,
           NEW n \in 1..MaxGroup, NEW sync, WriteBegin(n, sync)
    PROVE  OrderInv'
  <2> USE <1>WriteBeginOrder
  <2>1. /\ status = "open"
        /\ leader'.seqs = (last_sequence_ + 1)..(last_sequence_ + n)
        /\ UNCHANGED <<status, mem_, imm_, current_, log_number_, imm_log_number_,
                       bg_error_, job, logs, tables, manifest>>
    BY Zenon DEF WriteBegin, disk
  <2>2. SameSources
    BY Zenon, <2>1 DEF SameSources, SameLogs, SameTables, SourceTypes
  <2>3. last_sequence_ \in Nat
    BY Zenon DEF IInv, TypeOK
  <2>4. ASSUME NEW S \in SUBSET Nat, Below(S, last_sequence_)
        PROVE  Above(leader'.seqs, S)
    BY ONLY SMTT(30), <2>1, <2>3, <2>4 DEF Below, Above
  <2>5. /\ manifest.seq <= last_sequence_ /\ status # "down"
        /\ Below(mem_, last_sequence_) /\ Below(imm_, last_sequence_)
        /\ TablesUpTo(tables, Live(current_), last_sequence_)
        /\ TablesUpTo(tables, Live(manifest.version), manifest.seq)
    BY Zenon, <2>1 DEF SeqInv, MemorySeq, ManifestSeq, Accounts
  <2>6. Below(CoversOf(tables, current_), last_sequence_)
    BY Zenon, <2>5 DEF Below, CoversOf, TablesUpTo, SourceTypes, Visible
  <2>7. Below(CoversOf(tables, manifest.version), last_sequence_)
    <3>1. Below(CoversOf(tables, manifest.version), manifest.seq)
      BY Zenon, <2>5 DEF Below, CoversOf, TablesUpTo, SourceTypes, Visible
    <3>2. /\ manifest.seq \in Nat
          /\ CoversOf(tables, manifest.version) \in SUBSET Nat
      BY Zenon DEF IInv, TypeOK, Manifest, SourceTypes
    <3> QED
      BY ONLY SMTT(30), <2>3, <2>5, <3>1, <3>2 DEF Below
  <2>8. /\ Above(leader'.seqs, mem_) /\ Above(leader'.seqs, imm_)
        /\ Above(leader'.seqs, CoversOf(tables, current_))
        /\ Above(leader'.seqs, CoversOf(tables, manifest.version))
    BY Zenon, <2>4, <2>5, <2>6, <2>7 DEF SourceTypes
  <2>9. Oldest' = Oldest
    BY Zenon, <2>1 DEF Oldest, OldestLiveLog
  <2>10. OpenOrder'
    BY Zenon, <2>1, <2>8, <2>9 DEF OrderInv, OpenOrder
  <2> QED
    BY Zenon, <2>1, <2>2, <2>10, <1>QuietOrder
\* A leader that has its numbers: the log that it appends to is there.
<1>LeaderFacts.
    ASSUME IInv, SeqInv, leader.pc # "idle"
    PROVE  /\ status = "open"
           /\ log_number_ \in Visible(logs)
           /\ logs[log_number_] \in LogFile
           /\ manifest.log <= log_number_
           /\ leader.pc = "append" => AllOk(logs[log_number_].recs)
  <2> USE <1>LeaderFacts
  <2>1. status = "open"
    BY Zenon DEF SeqInv, PhaseSeq
  <2>2. /\ log_number_ \in Visible(logs) /\ manifest.log <= log_number_
        /\ leader.pc = "append" => AllOk(logs[log_number_].recs)
    BY Zenon, <2>1 DEF IInv, OpenInv, Needed
  <2>3. logs[log_number_] \in LogFile
    BY Zenon, <2>2 DEF IInv, TypeOK, LogFiles, Visible
  <2> QED
    BY Zenon, <2>1, <2>2, <2>3
\* A record of leader.seqs in the log in use.
<1>AppendHeld.
    ASSUME IInv, SeqInv, leader.pc = "append", NEW ok \in BOOLEAN,
           logs' = [logs EXCEPT ![log_number_] =
                       AppendTo(logs[log_number_], leader.seqs, ok)]
    PROVE  /\ \A n \in Nat : n # log_number_ => Held(logs', n) = Held(logs, n)
           /\ ok => Held(logs', log_number_)
                       = Held(logs, log_number_) \cup leader.seqs
           /\ ~ok => Held(logs', log_number_) = Held(logs, log_number_)
  <2> USE <1>AppendHeld
  <2> DEFINE e == AppendTo(logs[log_number_], leader.seqs, ok)
             r == [seqs |-> leader.seqs, ok |-> ok]
  <2>1. /\ log_number_ \in Visible(logs) /\ logs[log_number_] \in LogFile
        /\ AllOk(logs[log_number_].recs)
    BY Zenon, <1>LeaderFacts
  <2>2. /\ e.recs = Append(logs[log_number_].recs, r)
        /\ e.ent = logs[log_number_].ent
        /\ logs[log_number_].recs \in Seq(Record)
    BY Zenon, <2>1 DEF AppendTo, LogFile
  <2>3. r \in Record /\ r.ok = ok /\ r.seqs = leader.seqs
    BY Zenon, SeqTypes DEF Record, IInv
  <2>4. e.ent # "unlinked"
    BY Zenon, <2>1, <2>2 DEF Visible
  <2>5. logs' = [logs EXCEPT ![log_number_] = e]
    OBVIOUS
  <2> HIDE DEF e, r
  <2>6. /\ Held(logs', log_number_) = Replay(e.recs)
        /\ \A n \in Nat : n # log_number_ => Held(logs', n) = Held(logs, n)
    <3>1. log_number_ \in Visible(logs)
      BY Zenon, <2>1
    <3> QED
      BY ONLY Zenon, <2>4, <2>5, <3>1, <1>HeldReplaced
  <2>7. Held(logs, log_number_) = Replay(logs[log_number_].recs)
    BY Zenon, <2>1 DEF Held
  <2>8. /\ ~r.ok => Replay(e.recs) = Replay(logs[log_number_].recs)
        /\ r.ok => Replay(e.recs) = Replay(logs[log_number_].recs) \cup r.seqs
    BY ZenonT(40), <2>1, <2>2, <2>3, <1>ReplayRecord
  <2> QED
    BY Zenon, <2>3, <2>6, <2>7, <2>8
\* A torn record brings nothing.
<1>TornRecord.
    ASSUME IInv, SeqInv, leader.pc = "append",
           logs' = [logs EXCEPT ![log_number_] =
                       AppendTo(logs[log_number_], leader.seqs, FALSE)]
    PROVE  SameLogs(logs, logs')
  <2> USE <1>TornRecord
  <2>1. FALSE \in BOOLEAN
    OBVIOUS
  <2>2. /\ \A n \in Nat : n # log_number_ => Held(logs', n) = Held(logs, n)
        /\ Held(logs', log_number_) = Held(logs, log_number_)
    BY Zenon, <2>1, <1>AppendHeld
  <2> QED
    BY Zenon, <2>2 DEF SameLogs
<1>AddRecordOrder.
    ASSUME IInv, SeqInv, SourceTypes, OrderInv, TypeOK', AddRecord
    PROVE  OrderInv'
  <2> USE <1>AddRecordOrder
  <2> DEFINE L == leader.seqs
  <2>1. /\ leader.pc = "append"
        /\ logs' = [logs EXCEPT ![log_number_] =
                       AppendTo(logs[log_number_], leader.seqs, TRUE)]
        /\ UNCHANGED <<status, mem_, imm_, current_, log_number_, imm_log_number_,
                       bg_error_, job, tables, manifest>>
    BY Zenon DEF AddRecord
  <2>2. leader'.seqs = L
    BY DEF AddRecord, IInv, TypeOK, Leader
  <2>3. status = "open" /\ manifest.log <= log_number_ /\ status # "down"
    BY Zenon, <2>1, <1>LeaderFacts
  <2>4. /\ \A n \in Nat : n # log_number_ => Held(logs', n) = Held(logs, n)
        /\ Held(logs', log_number_) = Held(logs, log_number_) \cup L
    <3>1. TRUE \in BOOLEAN
      OBVIOUS
    <3> QED
      BY Zenon, <2>1, <3>1, <1>AppendHeld
  <2>5. /\ DOMAIN logs \in SUBSET Nat /\ DOMAIN logs' \in SUBSET Nat
        /\ log_number_ \in Nat /\ Oldest \in Nat /\ manifest.log \in Nat
        /\ L \in SUBSET Nat
    BY Zenon, <1>LogsDomain DEF SourceTypes
  <2> HIDE DEF L
  <2>6. ASSUME NEW k \in Nat, k <= log_number_
        PROVE  ReplayFrom(logs', k) = ReplayFrom(logs, k) \cup L
    <3>1. ASSUME NEW s \in ReplayFrom(logs', k) PROVE s \in ReplayFrom(logs, k) \cup L
      <4>1. PICK n \in Nat : n >= k /\ s \in Held(logs', n)
        BY Zenon, <2>5, <1>HeldFrom
      <4>2. s \in Held(logs, n) \/ s \in L
        BY Zenon, <2>4, <4>1
      <4> QED
        BY Zenon, <2>5, <4>1, <4>2, <1>HeldFrom
    <3>2. ASSUME NEW s \in ReplayFrom(logs, k) PROVE s \in ReplayFrom(logs', k)
      <4>1. PICK n \in Nat : n >= k /\ s \in Held(logs, n)
        BY Zenon, <2>5, <1>HeldFrom
      <4>2. s \in Held(logs', n)
        BY Zenon, <2>4, <4>1
      <4> QED
        BY Zenon, <2>5, <4>1, <4>2, <1>HeldFrom
    <3>3. ASSUME NEW s \in L PROVE s \in ReplayFrom(logs', k)
      <4>1. s \in Held(logs', log_number_) /\ log_number_ >= k
        BY Zenon, <2>4, <2>5, <2>6, <3>3
      <4> QED
        BY Zenon, <2>5, <4>1, <1>HeldFrom
    <3> QED
      BY Zenon, <3>1, <3>2, <3>3
  <2>7. Oldest <= log_number_
    <3>1. imm_ # {} => imm_log_number_ < log_number_
      BY Zenon, <2>3 DEF IInv, OpenInv
    <3>2. imm_log_number_ \in Nat
      BY Zenon DEF SourceTypes
    <3> QED
      BY <2>5, <3>1, <3>2 DEF Oldest, OldestLiveLog
  <2>8. /\ ReplayFrom(logs', manifest.log) = ReplayFrom(logs, manifest.log) \cup L
        /\ ReplayFrom(logs', 0) = ReplayFrom(logs, 0) \cup L
        /\ ReplayFrom(logs', Oldest) = ReplayFrom(logs, Oldest) \cup L
        /\ ReplayFrom(logs', log_number_) = ReplayFrom(logs, log_number_) \cup L
    BY ONLY SMTT(30), <2>3, <2>5, <2>6, <2>7
  <2>9. /\ Above(L, mem_) /\ Above(L, imm_)
        /\ Above(L, CoversOf(tables, current_))
        /\ Above(L, CoversOf(tables, manifest.version))
        /\ Above(ReplayFrom(logs, log_number_), imm_)
        /\ Above(ReplayFrom(logs, Oldest), CoversOf(tables, current_))
        /\ NoHide(ReplayFrom(logs, 0), CoversOf(tables, current_))
        /\ NoHide(ReplayFrom(logs, 0), CoversOf(tables, manifest.version))
    BY Zenon, <2>3 DEF OrderInv, OpenOrder, L
  <2>10. /\ CoversOf(tables, current_) \in SUBSET Nat
         /\ CoversOf(tables, manifest.version) \in SUBSET Nat
         /\ ReplayFrom(logs, 0) \in SUBSET Nat
         /\ ReplayFrom(logs, manifest.log) \in SUBSET Nat
    BY Zenon, <2>3, <1>Zero DEF SourceTypes
  <2>11. /\ NoHide(ReplayFrom(logs', 0), CoversOf(tables, current_))
         /\ NoHide(ReplayFrom(logs', 0), CoversOf(tables, manifest.version))
    <3>1. /\ NoHide(ReplayFrom(logs, 0) \cup L, CoversOf(tables, current_))
          /\ NoHide(ReplayFrom(logs, 0) \cup L, CoversOf(tables, manifest.version))
      BY Zenon, <2>5, <2>9, <2>10, <1>NoHideMore
    <3> QED
      BY Zenon, <2>8, <3>1
  <2>12. ManifestOrder'
    <3>1. NoHide(ReplayFrom(logs, manifest.log), CoversOf(tables, manifest.version))
      BY Zenon DEF OrderInv, ManifestOrder, Restart
    <3>2. NoHide(ReplayFrom(logs', manifest.log), CoversOf(tables, manifest.version))
      <4>1. NoHide(ReplayFrom(logs, manifest.log) \cup L,
                   CoversOf(tables, manifest.version))
        BY Zenon, <2>5, <2>9, <2>10, <3>1, <1>NoHideMore
      <4> QED
        BY Zenon, <2>8, <4>1
    <3> QED
      BY Zenon, <2>1, <2>11, <3>2 DEF OrderInv, ManifestOrder, Restart
  <2>13. MemoryOrder'
    BY Zenon, <2>1 DEF OrderInv, MemoryOrder
  <2>14. BuildOrder'
    BY Zenon, <2>1, <1>BuildKept
  <2>15. FlushOrder' /\ NewLogOrder'
    BY Zenon, <2>1, <2>3 DEF FlushOrder, NewLogOrder
  <2>16. Oldest' = Oldest
    BY Zenon, <2>1 DEF Oldest, OldestLiveLog
  <2>17. OpenOrder'
    <3>1. /\ Above(ReplayFrom(logs', log_number_), imm_)
          /\ Above(ReplayFrom(logs', Oldest), CoversOf(tables, current_))
      <4>1. /\ Above(ReplayFrom(logs, log_number_) \cup L, imm_)
            /\ Above(ReplayFrom(logs, Oldest) \cup L, CoversOf(tables, current_))
        BY Zenon, <2>9, <1>AboveJoin
      <4> QED
        BY Zenon, <2>8, <4>1
    <3> QED
      BY Zenon, <2>1, <2>2, <2>3, <2>9, <2>11, <2>16, <3>1 DEF OrderInv, OpenOrder
  <2>18. StaleOrder'
    <3>1. \A n \in Nat : n < Oldest => n # log_number_
      BY <2>5, <2>7
    <3>2. \A n \in Nat : Stale(logs', Oldest, n) <=> Stale(logs, Oldest, n)
      BY Zenon, <2>4, <3>1 DEF Stale
    <3>3. /\ OneStale(logs', Oldest) <=> OneStale(logs, Oldest)
          /\ NoStale(logs', Oldest) <=> NoStale(logs, Oldest)
      BY Zenon, <3>2 DEF OneStale, NoStale
    <3>4. \A n \in Nat : (n < log_number_ => n # log_number_)
                         /\ (log_number_ < n => n # log_number_)
      BY <2>5
    <3>5. /\ NoneAfter(logs, log_number_) => NoneAfter(logs', log_number_)
          /\ NoneBetween(logs, imm_log_number_, log_number_)
                => NoneBetween(logs', imm_log_number_, log_number_)
      BY Zenon, <2>4, <3>4 DEF NoneAfter, NoneBetween
    <3>6. Building' <=> Building
      BY Zenon, <2>1 DEF Building
    <3> QED
      BY Zenon, <2>1, <2>3, <2>16, <3>2, <3>3, <3>5, <3>6 DEF OrderInv, StaleOrder
  <2> QED
    BY Zenon, <2>12, <2>13, <2>14, <2>15, <2>17, <2>18 DEF OrderInv
<1>GroupOrder.
    ASSUME IInv, SeqInv, SourceTypes, OrderInv, TypeOK',
           AddRecordFails \/ SyncLog \/ SyncFails
    PROVE  OrderInv'
  <2> USE <1>GroupOrder
  <2>1. Idle.seqs = {}
    BY Zenon DEF Idle
  <2>2. CASE AddRecordFails
    <3>1. /\ leader.pc = "append" /\ leader' = Idle /\ bg_error_' = LatchError
          /\ logs' = [logs EXCEPT ![log_number_] =
                         AppendTo(logs[log_number_], leader.seqs, FALSE)]
          /\ UNCHANGED <<status, mem_, imm_, current_, log_number_,
                         imm_log_number_, job, tables, manifest>>
      BY Zenon, <2>2 DEF AddRecordFails
    <3>2. SameLogs(logs, logs')
      BY Zenon, <3>1, <1>TornRecord
    <3>3. SameSources
      BY Zenon, <3>1, <3>2, <1>LogsDomain DEF SameSources, SameTables
    <3>4. leader'.seqs \subseteq leader.seqs /\ bg_error_'
      BY Zenon, <2>1, <3>1 DEF LatchError
    <3> QED
      BY Zenon, <3>1, <3>3, <3>4, <1>QuietOrder
  <2>3. CASE SyncLog
    <3>1. /\ leader.pc = "sync" /\ leader' = [leader EXCEPT !.pc = "insert"]
          /\ logs' = [logs EXCEPT ![log_number_] = Synced(logs[log_number_])]
          /\ UNCHANGED <<status, mem_, imm_, current_, log_number_,
                         imm_log_number_, bg_error_, job, tables, manifest>>
      BY Zenon, <2>3 DEF SyncLog
    <3>2. log_number_ \in Visible(logs) /\ logs[log_number_] \in LogFile
      BY <3>1, <1>LeaderFacts
    <3>3. /\ Synced(logs[log_number_]).recs = logs[log_number_].recs
          /\ Synced(logs[log_number_]).ent # "unlinked"
      BY <3>2 DEF Synced, Fsynced, LogFile, Visible
    <3>4. /\ Held(logs', log_number_) = Replay(Synced(logs[log_number_]).recs)
          /\ \A n \in Nat : n # log_number_ => Held(logs', n) = Held(logs, n)
      BY ONLY Zenon, <3>1, <3>2, <3>3, <1>HeldReplaced
    <3>5. SameLogs(logs, logs')
      BY Zenon, <3>2, <3>3, <3>4 DEF SameLogs, Held
    <3>6. SameSources
      BY Zenon, <3>1, <3>5, <1>LogsDomain DEF SameSources, SameTables
    <3>7. leader'.seqs \subseteq leader.seqs
      BY <3>1 DEF IInv, TypeOK, Leader
    <3> QED
      BY Zenon, <3>1, <3>6, <3>7, <1>QuietOrder
  <2>4. CASE SyncFails
    <3>1. /\ leader' = Idle /\ bg_error_' = LatchError
          /\ UNCHANGED <<status, mem_, imm_, current_, log_number_,
                         imm_log_number_, job, logs, tables, manifest>>
      BY Zenon, <2>4 DEF SyncFails, disk
    <3>2. SameSources
      BY Zenon, <3>1 DEF SameSources, SameLogs, SameTables, SourceTypes
    <3>3. leader'.seqs \subseteq leader.seqs /\ bg_error_'
      BY Zenon, <2>1, <3>1 DEF LatchError
    <3> QED
      BY Zenon, <3>1, <3>2, <3>3, <1>QuietOrder
  <2> QED
    BY <2>2, <2>3, <2>4
<1>InsertOrder.
    ASSUME IInv, SeqInv, SourceTypes, OrderInv, InsertAndRetire
    PROVE  OrderInv'
  <2> USE <1>InsertOrder
  <2>1. /\ leader.pc = "insert" /\ leader' = Idle /\ mem_' = mem_ \cup leader.seqs
        /\ UNCHANGED <<status, imm_, current_, log_number_, imm_log_number_,
                       bg_error_, job, logs, tables, manifest>>
    BY Zenon DEF InsertAndRetire, disk
  <2>2. SameSources
    BY Zenon, <2>1 DEF SameSources, SameLogs, SameTables, SourceTypes
  <2>3. leader'.seqs = {}
    BY Zenon, <2>1 DEF Idle
  <2>4. status = "open"
    BY Zenon, <2>1, <1>LeaderFacts
  <2>5. /\ Above(mem_', imm_) /\ Above(mem_', CoversOf(tables, current_))
        /\ Above({}, mem_') /\ Above({}, imm_)
        /\ Above({}, CoversOf(tables, current_))
        /\ Above({}, CoversOf(tables, manifest.version))
    <3>1. /\ Above(mem_, imm_) /\ Above(mem_, CoversOf(tables, current_))
          /\ Above(leader.seqs, imm_)
          /\ Above(leader.seqs, CoversOf(tables, current_))
      BY Zenon, <2>4 DEF OrderInv, OpenOrder
    <3>2. /\ Above(mem_', imm_) /\ Above(mem_', CoversOf(tables, current_))
      BY Zenon, <2>1, <3>1, <1>AboveJoin
    <3> QED
      BY Zenon, <3>2, <1>AboveNone
  <2>6. Oldest' = Oldest
    BY Zenon, <2>1 DEF Oldest, OldestLiveLog
  <2>7. OpenOrder'
    BY Zenon, <2>1, <2>3, <2>4, <2>5, <2>6 DEF OrderInv, OpenOrder
  <2> QED
    BY Zenon, <2>1, <2>2, <2>7, <1>QuietOrder
<1>CrashOrder.
    ASSUME IInv, SeqInv, SourceTypes, OrderInv, TypeOK', Crash
    PROVE  OrderInv'
  <2> USE <1>CrashOrder
  <2>1. /\ status' = "down" /\ imm_' = {} /\ current_' = NoVersion /\ job' = NoJob
        /\ UNCHANGED <<tables, manifest>>
    BY Zenon DEF Crash, LoseMemory
  <2>2. SameLogs(logs, logs')
    <3>1. CASE logs' = logs
      BY Zenon, <3>1 DEF SameLogs
    <3>2. CASE logs' # logs
      <4>1. /\ leader.pc = "append"
            /\ logs' = [logs EXCEPT ![log_number_] =
                           AppendTo(logs[log_number_], leader.seqs, FALSE)]
        BY Zenon, <3>2 DEF Crash
      <4> QED
        BY Zenon, <4>1, <1>TornRecord
    <3> QED
      BY Zenon, <3>1, <3>2
  <2>3. /\ ReplayFrom(logs', manifest.log) = ReplayFrom(logs, manifest.log)
        /\ ReplayFrom(logs', 0) = ReplayFrom(logs, 0)
    <3>1. DOMAIN logs \in SUBSET Nat /\ DOMAIN logs' \in SUBSET Nat
          /\ manifest.log \in Nat
      BY Zenon, <1>LogsDomain DEF SourceTypes
    <3> QED
      BY ZenonT(40), <2>2, <3>1, <1>Zero, <1>ReplaySame
  <2>4. ManifestOrder'
    BY Zenon, <2>1, <2>3 DEF OrderInv, ManifestOrder, Restart
  <2>5. MemoryOrder'
    <3>1. NoVersion.l0 = {}
      BY Zenon DEF NoVersion
    <3>2. Ordered(tables, NoVersion)
      BY Zenon, <3>1 DEF Ordered
    <3> QED
      BY Zenon, <2>1, <3>2, NoHideNone DEF MemoryOrder
  <2>6. NoJob.pc = "idle"
    BY Zenon DEF NoJob
  <2>7. BuildOrder' /\ FlushOrder' /\ NewLogOrder' /\ OpenOrder' /\ StaleOrder'
    BY Zenon, <2>1, <2>6 DEF BuildOrder, FlushOrder, NewLogOrder, OpenOrder, StaleOrder
  <2> QED
    BY Zenon, <2>4, <2>5, <2>7 DEF OrderInv
<1> SUFFICES ASSUME IInv, SeqInv, TypeOK', OrderInv, [Next]_vars
             PROVE  OrderInv'
  OBVIOUS
<1>1. SourceTypes
  BY Zenon, SourcesTyped
<1>2. CASE Commit
  <2>1. CASE \E n \in job.doomedLogs : UnlinkLog(n)
    BY Zenon, <1>1, <2>1, <1>UnlinkLogOrder
  <2>2. CASE \E n \in job.doomedTables : UnlinkTable(n)
    BY Zenon, <1>1, <2>2, <1>UnlinkTableOrder
  <2> QED
    BY Zenon, <1>1, <1>2, <2>1, <2>2, <1>RenameOrder, <1>SyncDirectoryOrder, <1>ListOrder,
       <1>CommitDoneOrder, <1>CommitFailsOrder DEF Commit
<1>3. CASE Recover
  BY Zenon, <1>1, <1>3, <1>RecoverLoadOrder, <1>RecoverOpenLogOrder DEF Recover
<1>4. CASE Background
  BY Zenon, <1>1, <1>4, <1>StartOrder, <1>BuildTableOrder, <1>BuildFailsOrder,
     <1>FlushInstallOrder, <1>CompactInstallOrder DEF Background
<1>5. CASE Group
  BY Zenon, <1>1, <1>5, <1>AddRecordOrder, <1>GroupOrder, <1>InsertOrder DEF Group
<1>6. CASE Client
  <2>1. CASE MakeRoomForWrite
    <3>1. status = "open" /\ MemFull /\ SwitchMemTable
      BY Zenon, <2>1 DEF MakeRoomForWrite
    <3>2. ~(0 >= MemCapacity)
      BY ONLY SMTT(30), DurableDBAssumption
    <3>3. mem_ # {}
      BY Zenon, <3>1, <3>2 DEF MemFull
    <3> QED
      BY Zenon, <1>1, <3>1, <3>3, <1>SwitchOrder
  <2>2. CASE FlushMemTable
    <3>1. status = "open" /\ mem_ # {} /\ SwitchMemTable
      BY Zenon, <2>2 DEF FlushMemTable
    <3> QED
      BY Zenon, <1>1, <3>1, <1>SwitchOrder
  <2>3. CASE \E n \in 1..MaxGroup, sync \in ShouldSyncNow : WriteBegin(n, sync)
    BY Zenon, <1>1, <2>3, <1>WriteBeginOrder
  <2> QED
    BY Zenon, <1>1, <1>6, <2>1, <2>2, <2>3, <1>MakeRoomFailsOrder DEF Client
<1>7. CASE Crash
  BY Zenon, <1>1, <1>7, <1>CrashOrder
<1>8. ~PowerFail
  BY Zenon DEF PowerFail
<1>9. CASE UNCHANGED vars
  <2>1. UNCHANGED <<status, mem_, imm_, current_, log_number_, imm_log_number_,
                    bg_error_, leader, job, logs, tables, manifest>>
    BY Zenon, <1>9 DEF vars, memory, disk
  <2>2. SameSources
    BY Zenon, <1>1, <2>1 DEF SameSources, SameLogs, SameTables, SourceTypes
  <2>3. leader'.seqs \subseteq leader.seqs
    BY Zenon, <2>1
  <2> QED
    BY Zenon, <1>1, <2>1, <2>2, <2>3, <1>QuietOrder
<1> QED
  BY Zenon, <1>2, <1>3, <1>4, <1>5, <1>6, <1>7, <1>8, <1>9 DEF Next

\* The order of the sources is what NewestSourceFirst says.
LEMMA OrderSuffices ==
    ASSUME IInv, SeqInv, OrderInv
    PROVE  NewestSourceFirst
<1>1. SourceTypes
  BY Zenon, SourcesTyped
<1>2. ASSUME NEW y, NEW o, NoHide(y, o) PROVE ~Hides(y, o, Nat)
  BY Zenon, <1>2 DEF NoHide, Hides
<1> DEFINE C == CoversOf(tables, current_)
           deep == UNION {tables[n].covers : n \in current_.deep}
<1>3. NoHide(mem_, imm_) /\ NoHide(mem_, C)
  <2>1. CASE status = "open"
    <3>1. Above(mem_, imm_) /\ Above(mem_, C)
      BY Zenon, <2>1 DEF OrderInv, OpenOrder
    <3>2. mem_ \in SUBSET Nat /\ imm_ \in SUBSET Nat /\ C \in SUBSET Nat
      BY Zenon, <1>1, <2>1 DEF SourceTypes
    <3> QED
      BY Zenon, <3>1, <3>2, AboveNoHide
  <2>2. CASE status # "open"
    <3>1. mem_ = {}
      BY Zenon, <2>2 DEF IInv, TypeOK, DownInv, RecoverInv
    <3> QED
      BY Zenon, <3>1, NoHideNone
  <2> QED
    BY <2>1, <2>2
<1>4. Ordered(tables, current_) /\ NoHide(imm_, C)
  BY Zenon DEF OrderInv, MemoryOrder
<1>5. /\ deep \subseteq C
      /\ \A n \in current_.l0 : tables[n].covers \subseteq C
  BY Zenon DEF CoversOf, Live
<1>6. \A n \in current_.l0 : NoHide(tables[n].covers, deep)
  BY Zenon, <1>4 DEF Ordered, NoHide
<1> HIDE DEF C, deep
<1>7. /\ NoHide(mem_, deep) /\ NoHide(imm_, deep)
      /\ \A n \in current_.l0 :
            NoHide(mem_, tables[n].covers) /\ NoHide(imm_, tables[n].covers)
  BY Zenon, <1>3, <1>4, <1>5, NoHideOf
<1>8. \A n, m \in current_.l0 :
         m < n => NoHide(tables[n].covers, tables[m].covers)
  BY Zenon, <1>4 DEF Ordered
<1>9. ~(Hides(mem_, imm_, Nat) \/ Hides(mem_, deep, Nat) \/ Hides(imm_, deep, Nat))
  BY Zenon, <1>2, <1>3, <1>7
<1>10. ASSUME NEW n \in current_.l0
       PROVE  /\ ~Hides(mem_, tables[n].covers, Nat)
              /\ ~Hides(imm_, tables[n].covers, Nat)
              /\ \A m \in current_.l0 :
                    m < n => ~Hides(tables[n].covers, tables[m].covers, Nat)
              /\ ~Hides(tables[n].covers, deep, Nat)
  BY Zenon, <1>2, <1>6, <1>7, <1>8
<1> QED
  BY Zenon, <1>9, <1>10 DEF NewestSourceFirst, SearchHides, deep

=============================================================================
