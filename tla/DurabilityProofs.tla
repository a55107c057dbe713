-------------------------- MODULE DurabilityProofs --------------------------
(***************************************************************************)
(* The steps of DurableDB keep SeqInv, and what holds of DurableDB for every*)
(* value of its bounds.                                                    *)
(***************************************************************************)
EXTENDS DurabilityInv

\* The limit includes the time the prover takes to prepare a step.
USE SMTT(30)

-----------------------------------------------------------------------------
(* What a step does to the files *)

\* No log gets longer, and none is unlinked.
LogsNoMore(f, g) ==
    \A n \in DOMAIN g :
        \/ Replay(g[n].recs) = {} /\ g[n].ent # "unlinked"
        \/ /\ n \in DOMAIN f
           /\ Replay(g[n].recs) \subseteq Replay(f[n].recs)
           /\ g[n].ent = "unlinked" => f[n].ent = "unlinked"

\* No table covers more than it did.
TablesNoMore(f, g, S) ==
    \A n \in S \cap DOMAIN g :
        \/ g[n].covers = {}
        \/ n \in DOMAIN f /\ g[n].covers \subseteq f[n].covers

QuietFiles == LogsNoMore(logs, logs') /\ TablesNoMore(tables, tables', Nat)

-----------------------------------------------------------------------------
(* The first states and every step *)

LEMMA SeqInit == Init => SeqInv
<1> SUFFICES ASSUME Init PROVE SeqInv
  OBVIOUS
<1>1. /\ status = "down" /\ mem_ = {} /\ log_number_ = 0 /\ next_file_number_ = 1
      /\ leader = Idle /\ job = NoJob /\ manifest = NoManifest
      /\ survivors = {NoManifest} /\ DOMAIN logs = {} /\ imm_ = {}
      /\ DOMAIN tables = {}
  BY DEF Init
<1>2. /\ NoJob.pc = "idle" /\ NoJob.kind = "none" /\ Idle.pc = "idle"
      /\ NoManifest.log = 0 /\ NoManifest.next = 1 /\ NoManifest.seq = 0
      /\ Live(NoManifest.version) = {}
  BY DEF NoJob, Idle, NoManifest, NoVersion, Live
<1>3. ManifestSeq
  <2>1. Accounts(NoManifest, logs, tables)
    BY <1>1, <1>2 DEF Accounts, Numbered, TablesUpTo
  <2>2. NoManifest.seq <= NoManifest.seq /\ NoManifest.next <= NoManifest.next
    BY <1>2
  <2> QED
    BY <1>1, <2>1, <2>2, Zenon DEF ManifestSeq
<1>4. MemorySeq /\ BuildSeq /\ CommitSeq /\ PhaseSeq /\ OpenSeq
  BY <1>1, <1>2 DEF MemorySeq, BuildSeq, CommitSeq, PhaseSeq, OpenSeq, Stages
<1> QED
  BY <1>3, <1>4 DEF SeqInv

LEMMA SeqNext ==
    ASSUME NatWellOrdered
    PROVE  SeqInv /\ TypeInv /\ TypeInv' /\ [Next]_vars => SeqInv'
<1>BelowMore.
    ASSUME NEW S \in SUBSET Nat, NEW b \in Nat, NEW c \in Nat, Below(S, b), b <= c
    PROVE  Below(S, c)
  BY <1>BelowMore DEF Below
<1>ReplayNat.
    ASSUME NEW recs \in Seq(Record)
    PROVE  Replay(recs) \in SUBSET Nat
  <2> USE <1>ReplayNat
  <2>1. \A i \in DOMAIN recs : recs[i].seqs \in SUBSET Nat
    <3>1. \A i \in DOMAIN recs : recs[i] \in Record
      OBVIOUS
    <3> QED
      BY <3>1 DEF Record
  <2> QED
    BY <2>1, Zenon DEF Replay
<1>LogReplays.
    ASSUME NEW f, LogFiles(f), NEW n \in DOMAIN f
    PROVE  f[n].recs \in Seq(Record) /\ Replay(f[n].recs) \in SUBSET Nat
  <2> USE <1>LogReplays
  <2>1. f[n].recs \in Seq(Record)
    BY DEF LogFiles, LogFile
  <2> QED
    BY <2>1, <1>ReplayNat
<1>LogsUpToMore.
    ASSUME NEW f, LogFiles(f), NEW b \in Nat, NEW c \in Nat,
           LogsUpTo(f, b), b <= c
    PROVE  LogsUpTo(f, c)
  BY <1>LogsUpToMore, <1>LogReplays, <1>BelowMore, Zenon DEF LogsUpTo
<1>TablesUpToMore.
    ASSUME NEW f, TableFiles(f), NEW S, NEW b \in Nat, NEW c \in Nat,
           TablesUpTo(f, S, b), b <= c
    PROVE  TablesUpTo(f, S, c)
  BY <1>TablesUpToMore, TableCovers, <1>BelowMore, Zenon DEF TablesUpTo
<1>LogsUpToKept.
    ASSUME NEW f, NEW g, LogsNoMore(f, g), NEW b, LogsUpTo(f, b)
    PROVE  LogsUpTo(g, b)
  BY <1>LogsUpToKept, Zenon DEF LogsNoMore, LogsUpTo, Below
<1>TablesUpToKept.
    ASSUME NEW f, NEW g, NEW S, NEW U, S \subseteq U, TablesNoMore(f, g, U), NEW b,
           TablesUpTo(f, S, b)
    PROVE  TablesUpTo(g, S, b)
  BY <1>TablesUpToKept, Zenon DEF TablesNoMore, TablesUpTo, Below
<1>AccountsKept.
    ASSUME NEW m, NEW f, NEW g, NEW t, NEW u, NEW S, LogsNoMore(f, g),
           Live(m.version) \subseteq S, TablesNoMore(t, u, S), Accounts(m, f, t)
    PROVE  Accounts(m, g, u)
  <2> USE <1>AccountsKept
  <2>1. TablesUpTo(u, Live(m.version), m.seq)
    BY <1>TablesUpToKept, Zenon DEF Accounts
  <2>2. ASSUME NEW n \in DOMAIN g, Left(m, g, n)
        PROVE  Below(Replay(g[n].recs), m.seq)
    <3>1. CASE Replay(g[n].recs) = {}
      BY <3>1, Zenon DEF Below
    <3>2. CASE /\ n \in DOMAIN f
               /\ Replay(g[n].recs) \subseteq Replay(f[n].recs)
               /\ g[n].ent = "unlinked" => f[n].ent = "unlinked"
      BY <2>2, <3>2, Zenon DEF Accounts, Left, Below
    <3> QED
      BY <3>1, <3>2, Zenon DEF LogsNoMore
  <2> QED
    BY <2>1, <2>2, Zenon DEF Accounts
<1>NoMoreSame.
    ASSUME NEW f, NEW S
    PROVE  LogsNoMore(f, f) /\ TablesNoMore(f, f, S)
  BY <1>NoMoreSame, Zenon DEF LogsNoMore, TablesNoMore
<1>ReplayEmpty.
    Replay(<<>>) = {}
  BY DEF Replay
<1>NoMoreCreated.
    ASSUME NEW f, NEW n, NEW S
    PROVE  /\ LogsNoMore(f, Create(f, n, NewLogFile))
           /\ TablesNoMore(f, Create(f, n, NewTableFile), S)
  <2> USE <1>NoMoreCreated
  <2>1. /\ Replay(NewLogFile.recs) = {} /\ NewLogFile.ent # "unlinked"
        /\ NewTableFile.covers = {}
    BY <1>ReplayEmpty DEF NewLogFile, NewTableFile
  <2>2. \A h : /\ DOMAIN Create(f, n, h) = DOMAIN f \cup {n}
               /\ Create(f, n, h)[n] = h
               /\ \A k \in DOMAIN f : k # n => Create(f, n, h)[k] = f[k]
    BY Zenon DEF Create
  <2>3. \A h : \A k \in DOMAIN Create(f, n, h) :
          k = n \/ (k \in DOMAIN f /\ Create(f, n, h)[k] = f[k])
    BY <2>2, Zenon
  <2>4. LogsNoMore(f, Create(f, n, NewLogFile))
    <3>1. /\ Replay(Create(f, n, NewLogFile)[n].recs) = {}
          /\ Create(f, n, NewLogFile)[n].ent # "unlinked"
      BY <2>1, <2>2, Zenon
    <3> QED
      BY <2>3, <3>1, Zenon DEF LogsNoMore
  <2>5. TablesNoMore(f, Create(f, n, NewTableFile), S)
    <3>1. Create(f, n, NewTableFile)[n].covers = {}
      BY <2>1, <2>2, Zenon
    <3> QED
      BY <2>3, <3>1, Zenon DEF TablesNoMore
  <2> QED
    BY <2>4, <2>5
\* A record that is torn, or cut off, gives nothing to replay.
<1>ReplayPrefix.
    ASSUME NEW recs \in Seq(Record), NEW more \in Seq(Record),
           Len(recs) <= Len(more), \A i \in 1..Len(recs) : more[i] = recs[i]
    PROVE  /\ Replay(recs) \subseteq Replay(more)
           /\ (Len(more) = Len(recs) + 1 /\ ~more[Len(more)].ok)
                 => Replay(more) \subseteq Replay(recs)
  <2> USE <1>ReplayPrefix
  <2>1. /\ DOMAIN recs = 1..Len(recs) /\ Len(recs) \in Nat
        /\ DOMAIN more = 1..Len(more) /\ Len(more) \in Nat
    OBVIOUS
  <2>2. ASSUME NEW s \in Replay(recs) PROVE s \in Replay(more)
    <3>1. PICK j \in DOMAIN recs :
            s \in recs[j].seqs /\ \A k \in 1..j : recs[k].ok
      BY <2>2 DEF Replay
    <3>2. j \in DOMAIN more /\ s \in more[j].seqs /\ \A k \in 1..j : more[k].ok
      BY <2>1, <3>1
    <3> QED
      BY <3>2 DEF Replay
  <2>3. ASSUME Len(more) = Len(recs) + 1, ~more[Len(more)].ok,
               NEW s \in Replay(more)
        PROVE  s \in Replay(recs)
    <3>1. PICK j \in DOMAIN more :
            s \in more[j].seqs /\ \A k \in 1..j : more[k].ok
      BY <2>3 DEF Replay
    <3>2. j # Len(more)
      BY <2>1, <2>3, <3>1
    <3>3. j \in DOMAIN recs /\ s \in recs[j].seqs /\ \A k \in 1..j : recs[k].ok
      BY <2>1, <2>3, <3>1, <3>2
    <3> QED
      BY <3>3 DEF Replay
  <2> QED
    BY <2>2, <2>3
<1>NoMoreTorn.
    ASSUME NEW f, LogFiles(f), NEW n, NEW W \in SUBSET Nat
    PROVE  LogsNoMore(f, [f EXCEPT ![n] = AppendTo(f[n], W, FALSE)])
  <2> USE <1>NoMoreTorn
  <2> DEFINE g == [f EXCEPT ![n] = AppendTo(f[n], W, FALSE)]
             r == [seqs |-> W, ok |-> FALSE]
  <2>1. DOMAIN g = DOMAIN f /\ \A k \in DOMAIN f : k # n => g[k] = f[k]
    OBVIOUS
  <2>2. ASSUME n \in DOMAIN f
        PROVE  /\ Replay(g[n].recs) \subseteq Replay(f[n].recs)
               /\ g[n].ent = f[n].ent
    <3>1. f[n] \in LogFile /\ f[n].recs \in Seq(Record)
      BY <2>2 DEF LogFiles, LogFile
    <3>2. g[n].recs = Append(f[n].recs, r) /\ g[n].ent = f[n].ent
      BY <2>2, <3>1 DEF AppendTo, LogFile
    <3>3. r \in Record /\ ~r.ok
      BY DEF Record
    <3> HIDE DEF r, g
    <3>4. /\ g[n].recs \in Seq(Record) /\ Len(g[n].recs) = Len(f[n].recs) + 1
          /\ \A i \in 1..Len(f[n].recs) : g[n].recs[i] = f[n].recs[i]
          /\ g[n].recs[Len(g[n].recs)] = r
      BY <3>1, <3>2, <3>3
    <3>5. Len(f[n].recs) <= Len(g[n].recs)
      BY <3>1, <3>4
    <3>6. ~g[n].recs[Len(g[n].recs)].ok
      BY <3>3, <3>4, Zenon
    <3> QED
      BY <3>1, <3>2, <3>4, <3>5, <3>6, <1>ReplayPrefix, Zenon
  <2> HIDE DEF g
  <2> QED
    BY <2>1, <2>2, Zenon DEF LogsNoMore, g
<1>NoMoreGone.
    ASSUME NEW f, NEW n, NEW S
    PROVE  /\ TablesNoMore(f, Without(f, {n}), S)
           /\ TableFiles(f) => TablesNoMore(f, Unlink(f, n), S)
  <2> USE <1>NoMoreGone
  <2>1. \A k \in DOMAIN Without(f, {n}) : k \in DOMAIN f /\ Without(f, {n})[k] = f[k]
    BY Zenon DEF Without
  <2>2. DOMAIN Unlink(f, n) = DOMAIN f
    BY Zenon DEF Unlink
  <2>3. ASSUME TableFiles(f), NEW k \in DOMAIN f
        PROVE  Unlink(f, n)[k].covers = f[k].covers
    BY <2>3 DEF Unlink, TableFiles, TableFile
  <2> QED
    BY <2>1, <2>2, <2>3, Zenon DEF TablesNoMore
<1>QuietManifest.
    ASSUME TypeOK, ManifestSeq, QuietFiles, manifest' = manifest,
           manifest \in survivors', survivors' \subseteq survivors
    PROVE  ManifestSeq'
  <2> USE <1>QuietManifest
  <2>1. \A m \in survivors : Live(m.version) \subseteq Nat
    BY SeqTypes, Zenon DEF ManifestNats
  <2>2. ASSUME NEW m \in survivors'
        PROVE  /\ Accounts(m, logs', tables')
               /\ m.seq <= manifest.seq /\ m.next <= manifest.next
    <3>1. m \in survivors
      BY <2>2, Zenon
    <3>2. Accounts(m, logs, tables)
      BY <3>1, Zenon DEF ManifestSeq
    <3>3. Accounts(m, logs', tables')
      BY <2>1, <3>1, <3>2, <1>AccountsKept, Zenon DEF QuietFiles
    <3> QED
      BY <3>1, <3>3, Zenon DEF ManifestSeq
  <2> QED
    BY <2>2, Zenon DEF ManifestSeq
<1>QuietMemory.
    ASSUME TypeOK, TypeOK', MemorySeq, QuietFiles, manifest' = manifest,
           current_' = current_, status' # "down" => status # "down",
           last_sequence_ <= last_sequence_',
           next_file_number_ <= next_file_number_',
           status' # "down" =>
              /\ Below(mem_', last_sequence_') /\ Below(imm_', last_sequence_')
              /\ Below(leader'.seqs, last_sequence_')
    PROVE  MemorySeq'
  <2> USE <1>QuietMemory
  <2> SUFFICES ASSUME status' # "down" PROVE MemorySeq'
    BY Zenon DEF MemorySeq
  <2>1. /\ LogFiles(logs) /\ TableFiles(tables) /\ Live(current_) \in SUBSET Nat
        /\ last_sequence_ \in Nat /\ next_file_number_ \in Nat
        /\ manifest.seq \in Nat /\ manifest.next \in Nat
    BY SeqTypes, Zenon DEF ManifestNats
  <2>2. last_sequence_' \in Nat /\ next_file_number_' \in Nat
    BY Zenon DEF TypeOK
  <2>3. /\ manifest.seq <= last_sequence_ /\ manifest.next <= next_file_number_
        /\ LogsUpTo(logs, last_sequence_)
        /\ Numbered(Live(current_), next_file_number_)
        /\ TablesUpTo(tables, Live(current_), last_sequence_)
    BY Zenon DEF MemorySeq
  <2>4. LogsUpTo(logs', last_sequence_')
    BY <2>1, <2>2, <2>3, <1>LogsUpToMore, <1>LogsUpToKept, Zenon DEF QuietFiles
  <2>5. TablesUpTo(tables', Live(current_), last_sequence_')
    <3>1. TablesUpTo(tables, Live(current_), last_sequence_')
      BY <2>1, <2>2, <2>3, <1>TablesUpToMore, Zenon
    <3> QED
      BY <2>1, <3>1, <1>TablesUpToKept, Zenon DEF QuietFiles
  <2>6. Numbered(Live(current_), next_file_number_')
    BY <2>1, <2>2, <2>3 DEF Numbered
  <2>7. manifest.seq <= last_sequence_' /\ manifest.next <= next_file_number_'
    BY <2>1, <2>2, <2>3
  <2> QED
    BY <2>4, <2>5, <2>6, <2>7, Zenon DEF MemorySeq
<1>QuietBuild.
    ASSUME TypeOK, TypeOK', BuildSeq, TablesNoMore(tables, tables', Nat),
           survivors' \subseteq survivors, current_' = current_,
           last_sequence_ <= last_sequence_',
           next_file_number_ <= next_file_number_',
           job'.pc \in {"build", "install"} =>
              /\ job'.pc = job.pc /\ job'.kind = job.kind
              /\ job'.number = job.number /\ job'.target = job.target
    PROVE  BuildSeq'
  <2> USE <1>QuietBuild
  <2> SUFFICES ASSUME job'.pc \in {"build", "install"} PROVE BuildSeq'
    BY DEF BuildSeq
  <2>1. /\ TableFiles(tables) /\ job.number \in Nat
        /\ last_sequence_ \in Nat /\ next_file_number_ \in Nat
    BY SeqTypes, Zenon
  <2>2. last_sequence_' \in Nat /\ next_file_number_' \in Nat
    BY Zenon DEF TypeOK
  <2>3. /\ job'.pc = job.pc /\ job'.kind = job.kind
        /\ job'.number = job.number /\ job'.target = job.target
        /\ job.pc \in {"build", "install"}
    OBVIOUS
  <2>4. job.number < next_file_number_'
    <3>1. job.number < next_file_number_
      BY <2>3, Zenon DEF BuildSeq
    <3> QED
      BY <2>1, <2>2, <3>1
  <2>5. job.pc = "install" => TablesUpTo(tables', {job.number}, last_sequence_')
    <3>1. SUFFICES ASSUME job.pc = "install"
                   PROVE  TablesUpTo(tables', {job.number}, last_sequence_')
      OBVIOUS
    <3>2. TablesUpTo(tables, {job.number}, last_sequence_)
      BY <3>1, Zenon DEF BuildSeq
    <3>3. TablesUpTo(tables, {job.number}, last_sequence_')
      BY <2>1, <2>2, <3>2, <1>TablesUpToMore, Zenon
    <3>4. {job.number} \subseteq Nat
      BY <2>1
    <3> QED
      BY <3>3, <3>4, <1>TablesUpToKept, Zenon
  <2> QED
    BY <2>3, <2>4, <2>5, Zenon DEF BuildSeq
<1>QuietCommit.
    ASSUME TypeOK, TypeOK', CommitSeq, QuietFiles, manifest' = manifest,
           survivors' = survivors \/ survivors' = {manifest},
           last_sequence_ <= last_sequence_',
           next_file_number_ <= next_file_number_',
           log_number_ <= log_number_', status' = "open" => status = "open",
           job'.pc \in Stages =>
              /\ job'.pc = job.pc /\ job'.target = job.target
              /\ job'.doomedLogs \subseteq job.doomedLogs
    PROVE  CommitSeq'
  <2> USE <1>QuietCommit
  <2> SUFFICES ASSUME job'.pc \in Stages PROVE CommitSeq'
    BY Zenon DEF CommitSeq, Stages
  <2>1. /\ last_sequence_ \in Nat /\ next_file_number_ \in Nat /\ log_number_ \in Nat
        /\ ManifestNats(job.target)
    BY SeqTypes, Zenon
  <2>2. /\ last_sequence_' \in Nat /\ next_file_number_' \in Nat
        /\ log_number_' \in Nat
    BY Zenon DEF TypeOK
  <2>3. job'.pc = job.pc /\ job'.target = job.target /\ job.pc \in Stages
        /\ job'.doomedLogs \subseteq job.doomedLogs
    OBVIOUS
  <2>4. job.target.log <= log_number_'
    <3>1. job.target.log <= log_number_
      BY <2>3, Zenon DEF CommitSeq
    <3> QED
      BY <2>1, <2>2, <3>1 DEF ManifestNats
  <2>5. job.pc = "unlink" => Numbered(job'.doomedLogs, job.target.log)
    BY <2>3, Zenon DEF CommitSeq, Numbered
  <2>6. ASSUME job.pc = "rename"
        PROVE  /\ Accounts(job.target, logs', tables')
               /\ job.target.seq <= last_sequence_'
               /\ job.target.next <= next_file_number_'
               /\ manifest.seq <= job.target.seq
               /\ manifest.next <= job.target.next
               /\ status' = "open" => manifest.log <= job.target.log
    <3>1. /\ Accounts(job.target, logs, tables)
          /\ job.target.seq <= last_sequence_
          /\ job.target.next <= next_file_number_
          /\ manifest.seq <= job.target.seq
          /\ manifest.next <= job.target.next
          /\ status = "open" => manifest.log <= job.target.log
      BY <2>6, Zenon DEF CommitSeq
    <3>2. Accounts(job.target, logs', tables')
      BY <2>1, <3>1, <1>AccountsKept, Zenon DEF QuietFiles, ManifestNats
    <3>3. job.target.seq <= last_sequence_' /\ job.target.next <= next_file_number_'
      BY <2>1, <2>2, <3>1 DEF ManifestNats
    <3> QED
      BY <3>1, <3>2, <3>3, Zenon
  <2>7. /\ job.pc \in Stages \ {"rename"} => manifest = job.target
        /\ job.pc \in {"list", "unlink"} => survivors' = {manifest}
    BY Zenon DEF CommitSeq
  <2> QED
    BY <2>3, <2>4, <2>5, <2>6, <2>7, Zenon DEF CommitSeq
<1>QuietOpen.
    ASSUME TypeOK, TypeOK', OpenSeq, LogsNoMore(logs, logs'),
           manifest' = manifest, survivors' \subseteq survivors, imm_' = imm_,
           log_number_' = log_number_, imm_log_number_' = imm_log_number_,
           next_file_number_ <= next_file_number_',
           status' \in {"opening", "open"} =>
              status' = status \/ (status = "opening" /\ imm_ = {}),
           job'.pc \in Stages => job.pc \in Stages /\ job'.target = job.target
    PROVE  OpenSeq'
  <2> USE <1>QuietOpen
  <2>1. /\ next_file_number_ \in Nat /\ log_number_ \in Nat
        /\ next_file_number_' \in Nat
    BY SeqTypes, Zenon DEF TypeOK
  <2>2. log_number_ <= next_file_number_'
    <3>1. log_number_ <= next_file_number_
      BY Zenon DEF OpenSeq
    <3> QED
      BY <2>1, <3>1
  <2>3. ASSUME status' \in {"opening", "open"}
        PROVE  /\ log_number_ \in DOMAIN logs' => logs'[log_number_].ent # "unlinked"
               /\ \A m \in survivors' : m.log <= log_number_
    <3>1. status \in {"opening", "open"}
      BY <2>3
    <3>2. /\ log_number_ \in DOMAIN logs => logs[log_number_].ent # "unlinked"
          /\ \A m \in survivors : m.log <= log_number_
      BY <3>1, Zenon DEF OpenSeq
    <3> QED
      BY <3>2, Zenon DEF LogsNoMore
  <2>4. ASSUME status' = "open", imm_ # {}
        PROVE  /\ manifest.log <= imm_log_number_ /\ imm_log_number_ <= log_number_
               /\ job'.pc \in Stages => job'.target.log <= imm_log_number_
    <3>1. status = "open"
      BY <2>4
    <3> QED
      BY <2>4, <3>1, Zenon DEF OpenSeq
  <2> QED
    BY <2>2, <2>3, <2>4, Zenon DEF OpenSeq
\* A step of a thread that leaves the counters of the files, the manifest and
\* the version alone, or ends the job in flight.
<1>QuietSeq.
    ASSUME SeqInv, TypeOK, TypeOK', QuietFiles, status' = status,
           imm_' = imm_, current_' = current_, log_number_' = log_number_,
           imm_log_number_' = imm_log_number_, manifest' = manifest,
           survivors' = survivors,
           last_sequence_ <= last_sequence_',
           next_file_number_ <= next_file_number_',
           status # "down" => /\ Below(mem_', last_sequence_')
                              /\ Below(leader'.seqs, last_sequence_'),
           status = "down" => mem_' = mem_ /\ leader' = leader,
           leader'.pc # "idle" => status = "open",
           \/ job' = NoJob
           \/ job' = job
           \/ /\ job'.pc = job.pc /\ job'.kind = job.kind
              /\ job'.number = job.number /\ job'.target = job.target
              /\ job'.doomedLogs \subseteq job.doomedLogs
              /\ job.pc # "idle"
    PROVE  SeqInv'
  <2> USE <1>QuietSeq
  <2>1. /\ job'.pc = "idle" /\ job'.kind = "none" /\ job' = NoJob
        \/ /\ job'.pc = job.pc /\ job'.kind = job.kind
           /\ job'.number = job.number /\ job'.target = job.target
           /\ job'.doomedLogs \subseteq job.doomedLogs
    BY DEF NoJob
  <2>2. job'.pc \in Stages \cup {"build", "install"} =>
          /\ job'.pc = job.pc /\ job'.kind = job.kind
          /\ job'.number = job.number /\ job'.target = job.target
          /\ job'.doomedLogs \subseteq job.doomedLogs
    BY <2>1 DEF Stages
  <2>3. Below(imm_', last_sequence_') \/ status = "down"
    <3>1. /\ imm_ \in SUBSET Nat /\ last_sequence_ \in Nat
          /\ last_sequence_' \in Nat
      BY SeqTypes, Zenon DEF TypeOK
    <3> QED
      BY <3>1, <1>BelowMore, Zenon DEF SeqInv, MemorySeq
  <2>4. ManifestSeq'
    BY <1>QuietManifest, Zenon DEF SeqInv, ManifestSeq
  <2>5. MemorySeq'
    BY <2>3, <1>QuietMemory, Zenon DEF SeqInv
  <2>6. BuildSeq'
    BY <2>2, <1>QuietBuild, Zenon DEF SeqInv, QuietFiles
  <2>7. CommitSeq'
    <3>1. log_number_ <= log_number_'
      BY SeqTypes
    <3> QED
      BY <2>2, <3>1, <1>QuietCommit, Zenon DEF SeqInv
  <2>8. OpenSeq'
    BY <2>2, <1>QuietOpen, Zenon DEF SeqInv, QuietFiles
  <2>9. PhaseSeq'
    <3>1. status = "down" => job' = NoJob
      <4>1. status = "down" => job = NoJob
        BY Zenon DEF SeqInv, PhaseSeq
      <4> QED
        BY <4>1 DEF NoJob
    <3>2. PhaseSeq
      BY DEF SeqInv
    <3>3. status = "flushing" => job'.kind # "compact"
      BY <2>1, <3>2 DEF PhaseSeq
    <3>4. status \in {"down", "newlog"} => job'.pc = "idle"
      BY <2>1, <3>2 DEF PhaseSeq
    <3> QED
      BY <2>2, <3>1, <3>2, <3>3, <3>4, Zenon DEF PhaseSeq
  <2> QED
    BY <2>4, <2>5, <2>6, <2>7, <2>8, <2>9 DEF SeqInv
\* Recover takes the maximum of the manifest's sequence number and of what it
\* replays, and so is above what is in the logs it does not replay too.
<1>RecoverLoadSeq.
    ASSUME NatWellOrdered, SeqInv, TypeInv, TypeOK', RecoverLoad
    PROVE  SeqInv'
  <2> USE <1>RecoverLoadSeq
  <2>0. TypeOK
    BY DEF TypeInv
  <2>1. /\ status = "down" /\ status' \in {"newlog", "flushing"}
        /\ imm_' = ReplayFrom(logs, manifest.log)
        /\ status' = "newlog" => imm_' = {}
        /\ last_sequence_' = LastSequence(ReplayFrom(logs, manifest.log))
        /\ next_file_number_' = NextFileNumber
        /\ current_' = manifest.version
        /\ UNCHANGED <<mem_, log_number_, imm_log_number_, leader, job, logs,
                       tables, manifest, survivors>>
    BY DEF RecoverLoad, disk
  <2>2. /\ job = NoJob /\ leader = Idle /\ mem_ = {} /\ log_number_ = 0
        /\ job.pc = "idle" /\ job.kind = "none"
        /\ leader.seqs = {} /\ leader.pc = "idle"
    BY <2>1 DEF SeqInv, PhaseSeq, NoJob, Idle
  <2>3. /\ manifest.seq <= last_sequence_'
        /\ \A s \in ReplayFrom(logs, manifest.log) : s <= last_sequence_'
        /\ manifest.next <= next_file_number_'
    BY <2>0, <2>1, RecoverMaxima, Zenon DEF TypeInv
  <2>4. /\ LogFiles(logs) /\ TableFiles(tables) /\ ManifestNats(manifest)
        /\ last_sequence_' \in Nat /\ next_file_number_' \in Nat
    BY <2>0, SeqTypes, Zenon DEF TypeOK
  <2>5. Accounts(manifest, logs, tables)
    BY Zenon DEF SeqInv, ManifestSeq
  <2>6. LogsUpTo(logs, last_sequence_')
    <3>1. ASSUME NEW n \in DOMAIN logs, Left(manifest, logs, n)
          PROVE  Below(Replay(logs[n].recs), last_sequence_')
      <4>1. Below(Replay(logs[n].recs), manifest.seq)
        BY <2>5, <3>1, Zenon DEF Accounts
      <4>2. Replay(logs[n].recs) \in SUBSET Nat
        BY <2>4, <1>LogReplays, Zenon
      <4> QED
        BY <2>3, <2>4, <4>1, <4>2, <1>BelowMore, Zenon DEF ManifestNats
    <3>2. ASSUME NEW n \in DOMAIN logs, ~Left(manifest, logs, n)
          PROVE  Below(Replay(logs[n].recs), last_sequence_')
      <4>1. n \in Visible(logs) /\ n >= manifest.log
        BY <2>4, <3>2 DEF Left, Visible, LogFiles, ManifestNats
      <4>2. Replay(logs[n].recs) \subseteq ReplayFrom(logs, manifest.log)
        BY <2>4, <4>1, ReplayFromContains, Zenon DEF ManifestNats
      <4> QED
        BY <2>3, <4>2, Zenon DEF Below
    <3> QED
      BY <3>1, <3>2, Zenon DEF LogsUpTo
  <2>7. TablesUpTo(tables, Live(manifest.version), last_sequence_')
    BY <2>3, <2>4, <2>5, <1>TablesUpToMore, Zenon DEF Accounts, ManifestNats
  <2>8. Numbered(Live(manifest.version), next_file_number_')
    <3>1. Numbered(Live(manifest.version), manifest.next)
      BY <2>5, Zenon DEF Accounts
    <3> QED
      BY <2>3, <2>4, <3>1 DEF Numbered, ManifestNats
  <2>9. MemorySeq'
    <3>1. Below(mem_', last_sequence_') /\ Below(leader'.seqs, last_sequence_')
      BY <2>1, <2>2, Zenon DEF Below
    <3>2. Below(imm_', last_sequence_')
      BY <2>1, <2>3, Zenon DEF Below
    <3> QED
      BY <2>1, <2>3, <2>6, <2>7, <2>8, <3>1, <3>2, Zenon DEF MemorySeq
  <2>10. ManifestSeq'
    BY <2>1, Zenon DEF SeqInv, ManifestSeq
  <2>11. BuildSeq' /\ CommitSeq'
    <3>1. job'.pc = "idle"
      BY ONLY <2>1, <2>2
    <3>2. BuildSeq'
      BY ONLY <3>1 DEF BuildSeq
    <3>3. CommitSeq'
      BY ONLY <3>1 DEF CommitSeq, Stages
    <3> QED
      BY ONLY <3>2, <3>3
  <2>12. PhaseSeq'
    BY ONLY <2>1, <2>2 DEF PhaseSeq, Stages
  <2>13. OpenSeq'
    <3>1. log_number_ <= next_file_number_'
      BY <2>2, <2>4
    <3>2. status' \notin {"opening", "open"} /\ status' # "open"
      BY <2>1
    <3> QED
      BY <2>1, <3>1, <3>2, Zenon DEF OpenSeq
  <2> QED
    BY <2>9, <2>10, <2>11, <2>12, <2>13 DEF SeqInv
\* A commit may be started: the counters in memory account for all that the
\* new version and the logs hold.
<1>CommitAccounts.
    ASSUME NEW v, NEW log \in Nat, NEW next \in Nat, NEW seq, NEW f, NEW g,
           log <= next, LogsUpTo(f, seq), Numbered(Live(v), next),
           TablesUpTo(g, Live(v), seq)
    PROVE  Accounts([version |-> v, log |-> log, next |-> next, seq |-> seq], f, g)
  BY <1>CommitAccounts DEF Accounts, LogsUpTo
<1>RecoverOpenLogSeq.
    ASSUME SeqInv, TypeOK, TypeOK', RecoverOpenLog
    PROVE  SeqInv'
  <2> USE <1>RecoverOpenLogSeq
  <2>1. /\ status = "newlog" /\ status' = "opening"
        /\ logs' = Create(logs, next_file_number_, NewLogFile)
        /\ log_number_' = next_file_number_
        /\ next_file_number_' = next_file_number_ + 1
        /\ UNCHANGED <<mem_, imm_, current_, imm_log_number_, last_sequence_,
                       leader, tables, manifest, survivors>>
        /\ imm_ = {}
    BY DEF RecoverOpenLog, SeqInv, PhaseSeq
  <2>2. /\ last_sequence_ \in Nat /\ next_file_number_ \in Nat
        /\ current_ \in Version /\ Live(current_) \in SUBSET Nat
        /\ ManifestNats(manifest) /\ \A m \in survivors : ManifestNats(m)
        /\ next_file_number_ + 1 \in Nat
    BY SeqTypes
  <2>3. /\ job'.pc = "rename" /\ job'.kind = "open"
        /\ job'.target = [version |-> current_, log |-> next_file_number_,
                          next |-> next_file_number_ + 1, seq |-> last_sequence_]
    <3>1. job' = CommitOf("open", current_, next_file_number_, next_file_number_ + 1)
      BY <2>1 DEF RecoverOpenLog, OldestLiveLog
    <3> QED
      BY ONLY SMTT(30), <2>2, <3>1, CommitOfType
  <2>4. /\ manifest.seq <= last_sequence_ /\ manifest.next <= next_file_number_
        /\ Below(mem_, last_sequence_) /\ Below(imm_, last_sequence_)
        /\ Below(leader.seqs, last_sequence_)
        /\ LogsUpTo(logs, last_sequence_)
        /\ Numbered(Live(current_), next_file_number_)
        /\ TablesUpTo(tables, Live(current_), last_sequence_)
    BY Zenon, <2>1 DEF SeqInv, MemorySeq
  <2>5. QuietFiles
    BY <2>1, <1>NoMoreCreated, <1>NoMoreSame, Zenon DEF QuietFiles
  <2>6. LogsUpTo(logs', last_sequence_)
    BY <2>4, <2>5, <1>LogsUpToKept, Zenon DEF QuietFiles
  <2>7. Numbered(Live(current_), next_file_number_ + 1)
    BY <2>2, <2>4 DEF Numbered
  <2>8. /\ last_sequence_ <= last_sequence_'
        /\ next_file_number_ <= next_file_number_'
        /\ next_file_number_ <= next_file_number_ + 1
        /\ manifest.next <= next_file_number_ + 1
    BY ONLY <2>1, <2>2, <2>4 DEF ManifestNats
  <2>9. ManifestSeq'
    BY <2>1, <2>5, <1>QuietManifest, Zenon DEF SeqInv, ManifestSeq
  <2>10. MemorySeq'
    BY <2>1, <2>4, <2>6, <2>7, <2>8, Zenon DEF MemorySeq
  <2>11. BuildSeq'
    BY <2>3 DEF BuildSeq
  <2>12. CommitSeq'
    <3>1. Accounts(job'.target, logs', tables)
      BY <2>2, <2>3, <2>4, <2>6, <2>7, <2>8, <1>CommitAccounts, Zenon
    <3>2. /\ job'.target.seq = last_sequence_
          /\ job'.target.next = next_file_number_ + 1
          /\ job'.target.log = next_file_number_
      BY <2>3
    <3>3. /\ last_sequence_ <= last_sequence_
          /\ next_file_number_ + 1 <= next_file_number_ + 1
          /\ next_file_number_ <= next_file_number_
      BY <2>2
    <3>4. job'.pc \notin {"dirsync", "list", "unlink"} /\ status' # "open"
      BY ONLY <2>1, <2>3
    <3> QED
      BY ONLY Zenon, <2>1, <2>4, <2>8, <3>1, <3>2, <3>3, <3>4 DEF CommitSeq, Stages
  <2>13. PhaseSeq'
    <3>1. leader.pc = "idle"
      BY <2>1 DEF SeqInv, PhaseSeq
    <3> QED
      BY <2>1, <2>3, <3>1 DEF PhaseSeq
  <2>14. OpenSeq'
    <3>1. ASSUME NEW m \in survivors PROVE m.log <= next_file_number_
      <4>1. m.log <= m.next /\ m.next <= manifest.next
        BY Zenon DEF SeqInv, ManifestSeq, Accounts
      <4> QED
        BY ONLY SMTT(30), <2>2, <2>4, <4>1 DEF ManifestNats
    <3>2. logs'[next_file_number_].ent # "unlinked"
      BY <2>1 DEF Create, NewLogFile
    <3>3. status' # "open"
      BY <2>1
    <3> QED
      BY <2>1, <2>8, <3>1, <3>2, <3>3, Zenon DEF OpenSeq
  <2> QED
    BY <2>9, <2>10, <2>11, <2>12, <2>13, <2>14 DEF SeqInv
\* Steps of the background thread and of recovery that only end a job, remove
\* a table or take a number.
<1>EndsSeq.
    ASSUME SeqInv, TypeOK, TypeOK', QuietFiles,
           UNCHANGED <<status, mem_, imm_, current_, log_number_, imm_log_number_,
                       last_sequence_, leader, manifest, survivors>>,
           next_file_number_' \in {next_file_number_, next_file_number_ + 1},
           \/ job' = NoJob
           \/ job' = job
           \/ /\ job'.pc = job.pc /\ job'.kind = job.kind
              /\ job'.number = job.number /\ job'.target = job.target
              /\ job'.doomedLogs \subseteq job.doomedLogs
              /\ job.pc # "idle"
    PROVE  SeqInv'
  <2> USE <1>EndsSeq
  <2>1. last_sequence_ \in Nat /\ next_file_number_ \in Nat
    BY SeqTypes, Zenon
  <2>2. /\ last_sequence_ <= last_sequence_'
        /\ next_file_number_ <= next_file_number_'
    BY <2>1
  <2>3. /\ status # "down" => /\ Below(mem_', last_sequence_')
                              /\ Below(leader'.seqs, last_sequence_')
        /\ leader'.pc # "idle" => status = "open"
    BY Zenon DEF SeqInv, MemorySeq, PhaseSeq
  <2> QED
    BY <2>2, <2>3, <1>QuietSeq, Zenon
\* Steps of the leader of the queue on its group.
<1>LeaderSeq.
    ASSUME SeqInv, TypeOK, TypeOK', leader.pc # "idle",
           LogsNoMore(logs, logs'), mem_' \subseteq mem_ \cup leader.seqs,
           leader'.seqs \subseteq leader.seqs,
           UNCHANGED <<status, imm_, current_, log_number_, imm_log_number_,
                       next_file_number_, last_sequence_, job, tables, manifest,
                       survivors>>
    PROVE  SeqInv'
  <2> USE <1>LeaderSeq
  <2>1. last_sequence_ \in Nat /\ next_file_number_ \in Nat
    BY SeqTypes, Zenon
  <2>2. /\ last_sequence_ <= last_sequence_'
        /\ next_file_number_ <= next_file_number_'
    BY <2>1
  <2>3. status = "open"
    BY Zenon DEF SeqInv, PhaseSeq
  <2>4. status # "down"
    BY <2>3
  <2>5. Below(mem_', last_sequence_') /\ Below(leader'.seqs, last_sequence_')
    <3>1. Below(mem_, last_sequence_) /\ Below(leader.seqs, last_sequence_)
      BY <2>4, Zenon DEF SeqInv, MemorySeq
    <3> QED
      BY <3>1, Zenon DEF Below
  <2>6. QuietFiles
    BY <1>NoMoreSame, Zenon DEF QuietFiles
  <2> QED
    BY <2>2, <2>3, <2>4, <2>5, <2>6, <1>QuietSeq, Zenon
<1>GroupSeq.
    ASSUME SeqInv, TypeOK, TypeOK', Group
    PROVE  SeqInv'
  <2>NoMoreSynced.
      ASSUME NEW f, LogFiles(f), NEW n
      PROVE  LogsNoMore(f, [f EXCEPT ![n] = Synced(f[n])])
    <3> USE <2>NoMoreSynced
    <3> DEFINE g == [f EXCEPT ![n] = Synced(f[n])]
    <3>1. DOMAIN g = DOMAIN f /\ \A k \in DOMAIN f : k # n => g[k] = f[k]
      OBVIOUS
    <3>2. ASSUME n \in DOMAIN f
          PROVE  /\ g[n].recs = f[n].recs
                 /\ g[n].ent = "unlinked" => f[n].ent = "unlinked"
      <4>1. \A h \in LogFile : /\ Synced(h).recs = h.recs
                               /\ Synced(h).ent = Fsynced(h.ent)
        BY DEF Synced, LogFile
      <4>2. g[n] = Synced(f[n]) /\ f[n] \in LogFile
        BY <3>2 DEF LogFiles
      <4>3. \A e : Fsynced(e) = "unlinked" => e = "unlinked"
        BY DEF Fsynced
      <4> QED
        BY <4>1, <4>2, <4>3, Zenon
    <3> HIDE DEF g
    <3>3. LogsNoMore(f, g)
      BY <3>1, <3>2, Zenon DEF LogsNoMore
    <3> QED
      BY <3>3 DEF g
  \* The log a record goes to is one that no manifest is past.
  <2>AddRecordSeq.
      ASSUME SeqInv, TypeOK, TypeOK', AddRecord
      PROVE  SeqInv'
    <3> USE <2>AddRecordSeq
    <3>1. /\ leader.pc = "append"
          /\ logs' = [logs EXCEPT ![log_number_] =
                         AppendTo(logs[log_number_], leader.seqs, TRUE)]
          /\ UNCHANGED <<status, mem_, imm_, current_, log_number_, imm_log_number_,
                         next_file_number_, last_sequence_, job, tables, manifest,
                         survivors>>
      BY Zenon DEF AddRecord
    <3>2. /\ LogFiles(logs) /\ leader \in Leader /\ leader.seqs \in SUBSET Nat
          /\ log_number_ \in Nat /\ ManifestNats(job.target)
          /\ \A m \in survivors : ManifestNats(m)
      BY SeqTypes, Zenon
    <3>3. leader'.seqs = leader.seqs
      BY <3>2 DEF AddRecord, Leader
    <3>4. status = "open"
      BY <3>1 DEF SeqInv, PhaseSeq
    <3>5. /\ DOMAIN logs' = DOMAIN logs
          /\ \A n \in DOMAIN logs : n # log_number_ => logs'[n] = logs[n]
      BY <3>1, Zenon
    <3>6. ASSUME log_number_ \in DOMAIN logs
          PROVE  /\ Replay(logs'[log_number_].recs)
                       \subseteq Replay(logs[log_number_].recs) \cup leader.seqs
                 /\ logs'[log_number_].ent = logs[log_number_].ent
                 /\ logs[log_number_].ent # "unlinked"
      <4> DEFINE r == [seqs |-> leader.seqs, ok |-> TRUE]
      <4>1. logs[log_number_] \in LogFile /\ logs[log_number_].recs \in Seq(Record)
        BY <3>2, <3>6 DEF LogFiles, LogFile
      <4>2. /\ logs'[log_number_].recs = Append(logs[log_number_].recs, r)
            /\ logs'[log_number_].ent = logs[log_number_].ent
        BY Zenon, <3>1, <3>6, <4>1 DEF AppendTo, LogFile
      <4>3. r \in Record /\ r.seqs = leader.seqs
        BY <3>2 DEF Record
      <4> HIDE DEF r
      <4>4. Replay(Append(logs[log_number_].recs, r))
               \subseteq Replay(logs[log_number_].recs) \cup r.seqs
        <5> DEFINE recs == logs[log_number_].recs
                   more == Append(recs, r)
        <5>1. /\ DOMAIN recs = 1..Len(recs) /\ Len(recs) \in Nat
              /\ DOMAIN more = 1..(Len(recs) + 1)
              /\ \A i \in 1..Len(recs) : more[i] = recs[i]
              /\ more[Len(recs) + 1] = r
          BY <4>1, <4>3
        <5> HIDE DEF recs, more
        <5>2. ASSUME NEW s \in Replay(more) PROVE s \in Replay(recs) \cup r.seqs
          <6>1. PICK j \in DOMAIN more :
                  s \in more[j].seqs /\ \A k \in 1..j : more[k].ok
            BY <5>2 DEF Replay
          <6>2. CASE j = Len(recs) + 1
            BY Zenon, <5>1, <6>1, <6>2
          <6>3. CASE j \in 1..Len(recs)
            <7>1. j \in DOMAIN recs /\ s \in recs[j].seqs /\ \A k \in 1..j : recs[k].ok
              BY <5>1, <6>1, <6>3
            <7> QED
              BY <7>1 DEF Replay
          <6> QED
            BY <5>1, <6>1, <6>2, <6>3
        <5> QED
          BY <5>2 DEF recs, more
      <4>5. logs[log_number_].ent # "unlinked"
        BY <3>4, <3>6 DEF SeqInv, OpenSeq
      <4> QED
        BY <4>2, <4>3, <4>4, <4>5, Zenon
    <3>7. ASSUME NEW m, m.log \in Nat, m.log <= log_number_, Accounts(m, logs, tables)
          PROVE  Accounts(m, logs', tables)
      <4>1. ASSUME NEW n \in DOMAIN logs', Left(m, logs', n)
            PROVE  n # log_number_
        BY <3>2, <3>5, <3>6, <3>7, <4>1 DEF Left
      <4> QED
        BY <3>5, <3>7, <4>1, Zenon DEF Accounts, Left
    <3>8. MemorySeq /\ CommitSeq /\ OpenSeq /\ ManifestSeq
      BY DEF SeqInv
    <3>9. /\ LogsUpTo(logs, last_sequence_) /\ Below(leader.seqs, last_sequence_)
          /\ status # "down"
      BY <3>4, <3>8 DEF MemorySeq
    <3>10. LogsUpTo(logs', last_sequence_)
      <4>1. log_number_ \in DOMAIN logs =>
              Below(Replay(logs'[log_number_].recs), last_sequence_)
        BY <3>6, <3>9, Zenon DEF LogsUpTo, Below
      <4> QED
        BY <3>5, <3>9, <4>1, Zenon DEF LogsUpTo
    <3>11. ManifestSeq'
      <4>1. \A m \in survivors : m.log <= log_number_
        BY <3>4, <3>8 DEF OpenSeq
      <4>2. \A m \in survivors : Accounts(m, logs', tables)
        BY <3>2, <3>7, <3>8, <4>1, Zenon DEF ManifestSeq, ManifestNats
      <4> QED
        BY <3>1, <3>8, <4>2, Zenon DEF ManifestSeq
    <3>12. MemorySeq'
      BY <3>1, <3>3, <3>8, <3>9, <3>10, Zenon DEF MemorySeq
    <3>13. BuildSeq'
      BY <3>1, Zenon DEF SeqInv, BuildSeq
    <3>14. CommitSeq'
      <4>1. ASSUME job.pc = "rename" PROVE Accounts(job.target, logs', tables)
        <5>1. job.target.log <= log_number_ /\ Accounts(job.target, logs, tables)
          BY Zenon, <3>8, <4>1 DEF CommitSeq, Stages
        <5> QED
          BY <3>2, <3>7, <5>1, Zenon DEF ManifestNats
      <4> QED
        BY <3>1, <3>8, <4>1, Zenon DEF CommitSeq
    <3>15. PhaseSeq'
      BY <3>1, <3>4 DEF SeqInv, PhaseSeq
    <3>16. OpenSeq'
      BY <3>1, <3>5, <3>6, <3>8, Zenon DEF OpenSeq
    <3> QED
      BY <3>11, <3>12, <3>13, <3>14, <3>15, <3>16 DEF SeqInv
  <2> USE <1>GroupSeq
  <2>1. LogFiles(logs) /\ leader.seqs \in SUBSET Nat /\ leader \in Leader
    BY SeqTypes, Zenon
  <2>2. Idle.seqs = {} /\ {} \subseteq leader.seqs
    BY DEF Idle
  <2>3. CASE AddRecordFails
    <3>1. /\ leader.pc = "append" /\ leader' = Idle /\ mem_' = mem_
          /\ logs' = [logs EXCEPT ![log_number_] =
                         AppendTo(logs[log_number_], leader.seqs, FALSE)]
          /\ UNCHANGED <<status, imm_, current_, log_number_, imm_log_number_,
                         next_file_number_, last_sequence_, job, tables, manifest,
                         survivors>>
      BY <2>3 DEF AddRecordFails
    <3>2. LogsNoMore(logs, logs')
      BY <2>1, <3>1, <1>NoMoreTorn, Zenon
    <3>3. leader.pc # "idle" /\ leader'.seqs \subseteq leader.seqs
      BY Zenon, <2>2, <3>1
    <3> QED
      BY <3>1, <3>2, <3>3, <1>LeaderSeq, Zenon
  <2>4. CASE SyncLog
    <3>1. /\ leader.pc = "sync" /\ leader' = [leader EXCEPT !.pc = "insert"]
          /\ mem_' = mem_
          /\ logs' = [logs EXCEPT ![log_number_] = Synced(logs[log_number_])]
          /\ UNCHANGED <<status, imm_, current_, log_number_, imm_log_number_,
                         next_file_number_, last_sequence_, job, tables, manifest,
                         survivors>>
      BY <2>4 DEF SyncLog
    <3>2. LogsNoMore(logs, logs')
      BY <2>1, <3>1, <2>NoMoreSynced, Zenon
    <3>3. leader.pc # "idle" /\ leader'.seqs \subseteq leader.seqs
      BY <2>1, <3>1 DEF Leader
    <3> QED
      BY <3>1, <3>2, <3>3, <1>LeaderSeq, Zenon
  <2>5. CASE SyncFails
    <3>1. /\ leader.pc = "sync" /\ leader' = Idle /\ mem_' = mem_ /\ logs' = logs
          /\ UNCHANGED <<status, imm_, current_, log_number_, imm_log_number_,
                         next_file_number_, last_sequence_, job, tables, manifest,
                         survivors>>
      BY <2>5 DEF SyncFails, disk
    <3>2. LogsNoMore(logs, logs')
      BY <3>1, <1>NoMoreSame, Zenon
    <3>3. leader.pc # "idle" /\ leader'.seqs \subseteq leader.seqs
      BY <2>2, <3>1
    <3> QED
      BY <3>1, <3>2, <3>3, <1>LeaderSeq, Zenon
  <2>6. CASE InsertAndRetire
    <3>1. /\ leader.pc = "insert" /\ leader' = Idle
          /\ mem_' = mem_ \cup leader.seqs /\ logs' = logs
          /\ UNCHANGED <<status, imm_, current_, log_number_, imm_log_number_,
                         next_file_number_, last_sequence_, job, tables, manifest,
                         survivors>>
      BY <2>6 DEF InsertAndRetire, disk
    <3>2. LogsNoMore(logs, logs')
      BY <3>1, <1>NoMoreSame, Zenon
    <3>3. leader.pc # "idle" /\ leader'.seqs \subseteq leader.seqs
      BY <2>2, <3>1
    <3> QED
      BY <3>1, <3>2, <3>3, <1>LeaderSeq, Zenon
  <2> QED
    BY <2>3, <2>4, <2>5, <2>6, <2>AddRecordSeq, Zenon DEF Group
<1>ClientSeq.
    ASSUME SeqInv, TypeOK, TypeOK', Client
    PROVE  SeqInv'
\* The log that is closed by a rotation becomes that of imm_.
  <2>SwitchMemTableSeq.
      ASSUME SeqInv, TypeOK, TypeOK', SwitchMemTable, status = "open"
      PROVE  SeqInv'
    <3> USE <2>SwitchMemTableSeq
    <3>1. /\ logs' = Create(logs, next_file_number_, NewLogFile)
          /\ next_file_number_' = next_file_number_ + 1
          /\ imm_log_number_' = log_number_ /\ log_number_' = next_file_number_
          /\ imm_' = mem_ /\ mem_' = {}
          /\ UNCHANGED <<status, current_, last_sequence_, leader, job, tables,
                         manifest, survivors>>
      BY Zenon DEF SwitchMemTable
    <3>2. /\ last_sequence_ \in Nat /\ next_file_number_ \in Nat
          /\ log_number_ \in Nat /\ ManifestNats(manifest)
          /\ ManifestNats(job.target) /\ \A m \in survivors : ManifestNats(m)
      BY SeqTypes, Zenon
    <3>3. QuietFiles
      BY <3>1, <1>NoMoreCreated, <1>NoMoreSame, Zenon DEF QuietFiles
    <3>4. /\ \A m \in survivors : m.log <= log_number_
          /\ log_number_ <= next_file_number_
          /\ manifest \in survivors
      BY DEF SeqInv, OpenSeq, ManifestSeq
    <3>5. /\ last_sequence_ <= last_sequence_'
          /\ next_file_number_ <= next_file_number_'
          /\ log_number_ <= log_number_'
      BY <3>1, <3>2, <3>4
    <3>6. ManifestSeq'
      BY <3>1, <3>3, <3>4, <1>QuietManifest, Zenon DEF SeqInv
    <3>7. MemorySeq'
      <4>1. Below(mem_, last_sequence_) /\ Below(leader.seqs, last_sequence_)
        BY Zenon DEF SeqInv, MemorySeq
      <4>2. Below(mem_', last_sequence_)
        BY <3>1, Zenon DEF Below
      <4> QED
        BY <3>1, <3>3, <3>5, <4>1, <4>2, <1>QuietMemory, Zenon DEF SeqInv
    <3>8. BuildSeq'
      BY <3>1, <3>3, <3>5, <1>QuietBuild, Zenon DEF SeqInv, QuietFiles
    <3>9. CommitSeq'
      BY <3>1, <3>3, <3>5, <1>QuietCommit, Zenon DEF SeqInv
    <3>10. PhaseSeq'
      BY Zenon, <3>1 DEF SeqInv, PhaseSeq
    <3>11. OpenSeq'
      <4>1. ASSUME NEW m \in survivors PROVE m.log <= next_file_number_
        BY <3>2, <3>4 DEF ManifestNats
      <4>2. logs'[next_file_number_].ent # "unlinked"
        BY Zenon, <3>1 DEF Create, NewLogFile
      <4>3. job.pc \in Stages => job.target.log <= log_number_
        BY Zenon DEF SeqInv, CommitSeq
      <4> QED
        BY <3>1, <3>4, <3>5, <4>1, <4>2, <4>3, Zenon DEF OpenSeq
    <3> QED
      BY <3>6, <3>7, <3>8, <3>9, <3>10, <3>11 DEF SeqInv
  \* The leader takes its numbers from above the counter.
  <2>WriteBeginSeq.
      ASSUME SeqInv, TypeOK, TypeOK', NEW n \in Nat, NEW sync, WriteBegin(n, sync)
      PROVE  SeqInv'
    <3> USE <2>WriteBeginSeq
    <3>1. /\ status = "open" /\ last_sequence_' = last_sequence_ + n
          /\ leader'.seqs = (last_sequence_ + 1)..(last_sequence_ + n)
          /\ UNCHANGED <<status, mem_, imm_, current_, log_number_, imm_log_number_,
                         next_file_number_, job, logs, tables, manifest, survivors>>
      BY Zenon DEF WriteBegin, disk
    <3>2. /\ last_sequence_ \in Nat /\ next_file_number_ \in Nat
          /\ mem_ \in SUBSET Nat /\ last_sequence_' \in Nat
      BY SeqTypes, Zenon DEF TypeOK
    <3>3. /\ last_sequence_ <= last_sequence_'
          /\ next_file_number_ <= next_file_number_'
      BY ONLY SMTT(30), <3>1, <3>2
    <3>4. status # "down"
      BY <3>1
    <3>5. Below(mem_', last_sequence_')
      <4>1. Below(mem_, last_sequence_)
        BY <3>4, Zenon DEF SeqInv, MemorySeq
      <4> QED
        BY <3>1, <3>2, <3>3, <4>1, <1>BelowMore, Zenon
    <3>6. Below(leader'.seqs, last_sequence_')
      BY <3>1, <3>2 DEF Below
    <3>7. QuietFiles
      BY <3>1, <1>NoMoreSame, Zenon DEF QuietFiles
    <3> QED
      BY <3>1, <3>3, <3>4, <3>5, <3>6, <3>7, <1>QuietSeq, Zenon
  <2> USE <1>ClientSeq
  <2>1. CASE MakeRoomFails
    <3>1. /\ next_file_number_' = next_file_number_ + 1
          /\ logs' = logs \/ logs' = Create(logs, next_file_number_, NewLogFile)
          /\ UNCHANGED <<status, mem_, imm_, current_, log_number_, imm_log_number_,
                         last_sequence_, leader, job, tables, manifest, survivors>>
      BY <2>1, Zenon DEF MakeRoomFails
    <3>2. QuietFiles
      BY <3>1, <1>NoMoreSame, <1>NoMoreCreated, Zenon DEF QuietFiles
    <3> QED
      BY <3>1, <3>2, <1>EndsSeq, Zenon
  <2>2. CASE MakeRoomForWrite
    BY <2>2, <2>SwitchMemTableSeq, Zenon DEF MakeRoomForWrite
  <2>3. CASE FlushMemTable
    BY <2>3, <2>SwitchMemTableSeq, Zenon DEF FlushMemTable
  <2>4. ASSUME NEW n \in 1..MaxGroup, NEW sync \in ShouldSyncNow, WriteBegin(n, sync)
        PROVE  SeqInv'
    <3>1. n \in Nat
      OBVIOUS
    <3> QED
      BY <2>4, <3>1, <2>WriteBeginSeq, Zenon
  <2> QED
    BY <2>1, <2>2, <2>3, <2>4, Zenon DEF Client
<1>CommitsSeq.
    ASSUME SeqInv, TypeOK, TypeOK', Commit
    PROVE  SeqInv'
  <2>NoMoreSettled.
      ASSUME NEW f, NEW S
      PROVE  /\ LogFiles(f) => LogsNoMore(f, Settled(f))
             /\ TableFiles(f) => TablesNoMore(f, Settled(f), S)
    <3> USE <2>NoMoreSettled
    <3>1. DOMAIN Settled(f) = Visible(f) /\ Visible(f) \subseteq DOMAIN f
      BY Zenon DEF Settled, Visible
    <3>2. ASSUME LogFiles(f), NEW m \in Visible(f)
          PROVE  Settled(f)[m].recs = f[m].recs /\ Settled(f)[m].ent = "durable"
      BY <3>2 DEF Settled, Visible, LogFiles, LogFile
    <3>3. ASSUME TableFiles(f), NEW m \in Visible(f)
          PROVE  Settled(f)[m].covers = f[m].covers
      BY <3>3 DEF Settled, Visible, TableFiles, TableFile
    <3>4. "durable" # "unlinked"
      OBVIOUS
    <3> QED
      BY <3>1, <3>2, <3>3, <3>4, Zenon DEF LogsNoMore, TablesNoMore
  <2>RenameManifestSeq.
      ASSUME SeqInv, TypeOK, TypeOK', RenameManifest
      PROVE  SeqInv'
    <3> USE <2>RenameManifestSeq
    <3>1. /\ job.pc = "rename" /\ manifest' = job.target
          /\ survivors' = survivors \cup {job.target}
          /\ UNCHANGED <<status, mem_, imm_, current_, log_number_, imm_log_number_,
                         next_file_number_, last_sequence_, leader, logs, tables>>
      BY Zenon DEF RenameManifest
    <3>2. /\ job'.pc = "dirsync" /\ job'.kind = job.kind /\ job'.target = job.target
      BY JobAt, SeqTypes DEF RenameManifest
    <3>3. /\ \A m \in survivors : ManifestNats(m)
          /\ ManifestNats(manifest) /\ ManifestNats(job.target)
          /\ log_number_ \in Nat /\ imm_log_number_ \in Nat
      BY SeqTypes, Zenon
    <3>4. /\ Accounts(job.target, logs, tables)
          /\ job.target.seq <= last_sequence_
          /\ job.target.next <= next_file_number_
          /\ manifest.seq <= job.target.seq /\ manifest.next <= job.target.next
          /\ job.target.log <= log_number_
      BY Zenon, <3>1 DEF SeqInv, CommitSeq, Stages
    <3>5. ManifestSeq'
      <4>1. ASSUME NEW m \in survivors
            PROVE  m.seq <= job.target.seq /\ m.next <= job.target.next
        <5>1. m.seq <= manifest.seq /\ m.next <= manifest.next
          BY Zenon DEF SeqInv, ManifestSeq
        <5> QED
          BY ONLY SMTT(30), <3>3, <3>4, <5>1 DEF ManifestNats
      <4>2. job.target.seq <= job.target.seq /\ job.target.next <= job.target.next
        BY <3>3 DEF ManifestNats
      <4> QED
        BY <3>1, <3>4, <4>1, <4>2, Zenon DEF SeqInv, ManifestSeq
    <3>6. MemorySeq'
      BY <3>1, <3>4, Zenon DEF SeqInv, MemorySeq
    <3>7. BuildSeq'
      BY Zenon, <3>2 DEF BuildSeq
    <3>8. CommitSeq'
      BY Zenon, <3>1, <3>2, <3>4 DEF CommitSeq, Stages
    <3>9. PhaseSeq'
      <4>1. PhaseSeq /\ job.pc \in Stages /\ job.pc # "idle"
        BY <3>1 DEF SeqInv, Stages
      <4>2. status \notin {"down", "newlog"}
        BY <4>1 DEF PhaseSeq
      <4> QED
        BY <3>1, <3>2, <4>1, <4>2, Zenon DEF PhaseSeq
    <3>10. OpenSeq'
      <4>1. OpenSeq /\ job.pc \in Stages
        BY <3>1 DEF SeqInv, Stages
      <4> QED
        BY <3>1, <3>2, <3>4, <4>1, Zenon DEF OpenSeq
    <3> QED
      BY <3>5, <3>6, <3>7, <3>8, <3>9, <3>10 DEF SeqInv
  \* The two steps of a commit that look at the directory.
  <2>CommitStageSeq.
      ASSUME SeqInv, TypeOK, TypeOK', SyncDirectory \/ ListObsolete
      PROVE  SeqInv'
    <3> USE <2>CommitStageSeq
    <3>1. /\ manifest' = manifest
          /\ UNCHANGED <<status, mem_, imm_, current_, log_number_, imm_log_number_,
                         next_file_number_, last_sequence_, leader>>
          /\ job.pc \in {"dirsync", "list"}
      BY DEF SyncDirectory, ListObsolete, disk
    <3>2. /\ job'.kind = job.kind /\ job'.target = job.target
          /\ \/ job.pc = "dirsync" /\ job'.pc = "list"
             \/ /\ job.pc = "list" /\ job'.pc = "unlink"
                /\ job'.doomedLogs = ObsoleteLogs(job.target.log)
      <4>1. CASE SyncDirectory
        BY <4>1, JobAt, SeqTypes DEF SyncDirectory
      <4>2. CASE ListObsolete
        BY <4>2, JobAt, SeqTypes DEF ListObsolete
      <4> QED
        BY Zenon, <4>1, <4>2
    <3>3. survivors' = {manifest}
      <4>1. CASE SyncDirectory
        BY <4>1, Zenon DEF SyncDirectory
      <4>2. CASE ListObsolete
        <5>1. job.pc = "list" /\ survivors' = survivors
          BY <4>2, Zenon DEF ListObsolete, disk
        <5> QED
          BY Zenon, <5>1 DEF SeqInv, CommitSeq
      <4> QED
        BY <4>1, <4>2
    <3>4. QuietFiles
      <4>1. CASE SyncDirectory
        BY <4>1, <2>NoMoreSettled, SeqTypes, Zenon DEF QuietFiles, SyncDirectory
      <4>2. CASE ListObsolete
        <5>1. logs' = logs /\ tables' = tables
          BY <4>2, Zenon DEF ListObsolete, disk
        <5> QED
          BY <5>1, <1>NoMoreSame, Zenon DEF QuietFiles
      <4> QED
        BY <4>1, <4>2
    <3>5. /\ log_number_ \in Nat /\ last_sequence_ \in Nat
          /\ next_file_number_ \in Nat
      BY SeqTypes, Zenon
    <3>6. /\ last_sequence_ <= last_sequence_'
          /\ next_file_number_ <= next_file_number_'
      BY <3>1, <3>5
    <3>7. manifest \in survivors /\ job.pc \in Stages /\ job'.pc \in Stages
      BY Zenon, <3>1, <3>2 DEF SeqInv, ManifestSeq, Stages
    <3>8. ManifestSeq'
      BY <3>1, <3>3, <3>4, <3>7, <1>QuietManifest, Zenon DEF SeqInv
    <3>9. MemorySeq'
      <4>1. status # "down" =>
              /\ Below(mem_, last_sequence_) /\ Below(imm_, last_sequence_)
              /\ Below(leader.seqs, last_sequence_)
        BY Zenon DEF SeqInv, MemorySeq
      <4> QED
        BY <3>1, <3>4, <3>6, <4>1, <1>QuietMemory, Zenon DEF SeqInv
    <3>10. BuildSeq'
      BY Zenon, <3>2 DEF BuildSeq
    <3>11. CommitSeq'
      <4>1. job.target.log <= log_number_ /\ manifest = job.target
        BY Zenon, <3>1, <3>7 DEF SeqInv, CommitSeq, Stages
      <4>2. Numbered(ObsoleteLogs(job.target.log), job.target.log)
        BY Zenon DEF Numbered, ObsoleteLogs
      <4>3. job'.pc # "rename"
        BY <3>2
      <4> QED
        BY Zenon, <3>1, <3>2, <3>3, <4>1, <4>2, <4>3 DEF CommitSeq
    <3>12. OpenSeq'
      <4>1. status' \in {"opening", "open"} => status' = status
        BY <3>1
      <4>2. survivors' \subseteq survivors
        BY <3>3, <3>7, Zenon
      <4> QED
        BY <3>1, <3>2, <3>4, <3>6, <3>7, <4>1, <4>2, <1>QuietOpen, Zenon
           DEF SeqInv, QuietFiles
    <3>13. PhaseSeq'
      <4>1. PhaseSeq /\ job.pc # "idle"
        BY <3>1 DEF SeqInv
      <4>2. status \notin {"down", "newlog"}
        BY Zenon, <4>1 DEF PhaseSeq
      <4> QED
        BY <3>1, <3>2, <3>7, <4>1, <4>2, Zenon DEF PhaseSeq
    <3> QED
      BY <3>8, <3>9, <3>10, <3>11, <3>12, <3>13 DEF SeqInv
  \* The log that RemoveObsoleteFiles unlinks is one the manifest is past.
  <2>UnlinkLogSeq.
      ASSUME SeqInv, TypeOK, TypeOK', NEW n \in job.doomedLogs, UnlinkLog(n),
             logs' = Unlink(logs, n)
      PROVE  SeqInv'
    <3> USE <2>UnlinkLogSeq
    <3>1. /\ job.pc = "unlink"
          /\ UNCHANGED <<status, mem_, imm_, current_, log_number_, imm_log_number_,
                         next_file_number_, last_sequence_, leader, tables, manifest,
                         survivors>>
      BY Zenon DEF UnlinkLog
    <3>2. /\ job'.pc = job.pc /\ job'.kind = job.kind /\ job'.target = job.target
          /\ job'.doomedLogs = job.doomedLogs \ {n}
      BY JobAt, SeqTypes DEF UnlinkLog
    <3>3. /\ survivors = {manifest} /\ manifest = job.target
          /\ Numbered(job.doomedLogs, job.target.log)
          /\ job.target.log <= log_number_
      BY Zenon, <3>1 DEF SeqInv, CommitSeq, Stages
    <3>4. n < manifest.log
      BY <3>3, Zenon DEF Numbered
    <3>5. /\ DOMAIN logs' = DOMAIN logs
          /\ \A k \in DOMAIN logs : /\ logs'[k].recs = logs[k].recs
                                    /\ k # n => logs'[k] = logs[k]
      <4>1. LogFiles(logs)
        BY SeqTypes, Zenon
      <4>2. \A k \in DOMAIN logs : [logs[k] EXCEPT !.ent = "unlinked"].recs = logs[k].recs
        BY <4>1 DEF LogFiles, LogFile
      <4> QED
        BY <4>2, Zenon DEF Unlink
    <3>6. LogsUpTo(logs', last_sequence_) \/ status = "down"
      BY <3>5, Zenon DEF SeqInv, MemorySeq, LogsUpTo
    <3>7. Accounts(manifest, logs', tables)
      <4>1. Accounts(manifest, logs, tables)
        BY Zenon DEF SeqInv, ManifestSeq
      <4> QED
        BY <3>4, <3>5, <4>1, Zenon DEF Accounts, Left
    <3>8. ManifestSeq'
      BY <3>1, <3>3, <3>7, Zenon DEF SeqInv, ManifestSeq
    <3>9. MemorySeq'
      BY <3>1, <3>6, Zenon DEF SeqInv, MemorySeq
    <3>10. BuildSeq'
      BY Zenon, <3>1, <3>2 DEF BuildSeq
    <3>11. CommitSeq'
      <4>1. Numbered(job'.doomedLogs, job.target.log)
        BY <3>2, <3>3, Zenon DEF Numbered
      <4> QED
        BY Zenon, <3>1, <3>2, <3>3, <4>1 DEF CommitSeq
    <3>12. OpenSeq'
      <4>1. log_number_ # n
        <5>1. manifest.log \in Nat /\ log_number_ \in Nat /\ n \in Nat
          BY SeqTypes, Zenon DEF ManifestNats
        <5> QED
          BY <3>3, <3>4, <5>1
      <4>2. log_number_ \in DOMAIN logs' => logs'[log_number_] = logs[log_number_]
        BY <3>5, <4>1, Zenon
      <4> QED
        BY <3>1, <3>2, <3>5, <4>2, Zenon DEF SeqInv, OpenSeq
    <3>13. PhaseSeq'
      <4>1. PhaseSeq /\ job.pc # "idle"
        BY Zenon, <3>1 DEF SeqInv
      <4>2. status \notin {"down", "newlog"}
        BY Zenon, <4>1 DEF PhaseSeq
      <4> QED
        BY <3>1, <3>2, <4>1, <4>2, Zenon DEF PhaseSeq
    <3> QED
      BY Zenon, <3>8, <3>9, <3>10, <3>11, <3>12, <3>13 DEF SeqInv
  <2>CommitDoneSeq.
      ASSUME SeqInv, TypeOK, TypeOK', CommitDone
      PROVE  SeqInv'
    <3> USE <2>CommitDoneSeq
    <3>1. /\ job.pc = "unlink" /\ job' = NoJob
          /\ UNCHANGED <<mem_, imm_, current_, log_number_, imm_log_number_,
                         next_file_number_, last_sequence_, leader, logs, tables,
                         manifest, survivors>>
      BY Zenon DEF CommitDone, disk
    <3>2. NoJob.pc = "idle" /\ NoJob.kind = "none"
      BY Zenon DEF NoJob
    <3>3. PhaseSeq /\ job.pc # "idle" /\ job.pc \in Stages
      BY Zenon, <3>1 DEF SeqInv, Stages
    <3>4. status \in {"flushing", "opening", "open"}
      BY Zenon, <3>3 DEF PhaseSeq, TypeOK
    <3>5. \/ status = "flushing" /\ status' = "newlog"
          \/ status = "opening" /\ status' = "open"
          \/ status = "open" /\ status' = "open"
      BY <3>4 DEF CommitDone
    <3>6. ManifestSeq'
      BY <3>1, Zenon DEF SeqInv, ManifestSeq
    <3>7. MemorySeq'
      <4>1. status # "down"
        BY <3>4
      <4> QED
        BY <3>1, <4>1, Zenon DEF SeqInv, MemorySeq
    <3>8. BuildSeq' /\ CommitSeq'
      BY Zenon, <3>1, <3>2 DEF BuildSeq, CommitSeq, Stages
    <3>9. PhaseSeq'
      BY Zenon, <3>1, <3>2, <3>3, <3>5 DEF PhaseSeq
    <3>10. OpenSeq'
      <4>1. status' \in {"opening", "open"} => status \in {"opening", "open"}
        BY <3>5
      <4>2. (status' = "open" /\ imm_ # {}) => status = "open"
        BY <3>3, <3>5 DEF PhaseSeq
      <4>3. job'.pc \notin Stages
        BY <3>1, <3>2 DEF Stages
      <4> QED
        BY <3>1, <4>1, <4>2, <4>3, Zenon DEF SeqInv, OpenSeq
    <3> QED
      BY <3>6, <3>7, <3>8, <3>9, <3>10 DEF SeqInv
  <2> USE <1>CommitsSeq
  <2>1. TableFiles(tables)
    BY SeqTypes, Zenon
  <2>2. ASSUME NEW n \in job.doomedLogs, UnlinkLog(n)
        PROVE  SeqInv'
    <3>1. CASE logs' = Unlink(logs, n)
      BY <2>2, <3>1, <2>UnlinkLogSeq, Zenon
    <3>2. CASE logs' = logs
      <4>1. /\ job.pc = "unlink" /\ job' = [job EXCEPT !.doomedLogs = @ \ {n}]
            /\ UNCHANGED <<status, mem_, imm_, current_, log_number_,
                           imm_log_number_, next_file_number_, last_sequence_,
                           leader, tables, manifest, survivors>>
        BY <2>2, Zenon DEF UnlinkLog
      <4>2. /\ job'.pc = job.pc /\ job'.kind = job.kind
            /\ job'.number = job.number /\ job'.target = job.target
            /\ job'.doomedLogs \subseteq job.doomedLogs
            /\ job.pc # "idle"
        BY <4>1 DEF TypeOK, Job
      <4>3. QuietFiles
        BY <3>2, <4>1, <1>NoMoreSame, Zenon DEF QuietFiles
      <4> QED
        BY <4>1, <4>2, <4>3, <1>EndsSeq, Zenon
    <3> QED
      BY <2>2, <3>1, <3>2, Zenon DEF UnlinkLog, UnlinkIn
  <2>3. ASSUME NEW n \in job.doomedTables, UnlinkTable(n)
        PROVE  SeqInv'
    <3>1. /\ job.pc = "unlink" /\ job' = [job EXCEPT !.doomedTables = @ \ {n}]
          /\ tables' = Unlink(tables, n) \/ tables' = tables
          /\ UNCHANGED <<status, mem_, imm_, current_, log_number_, imm_log_number_,
                         next_file_number_, last_sequence_, leader, logs, manifest,
                         survivors>>
      BY <2>3, Zenon DEF UnlinkTable, UnlinkIn
    <3>2. /\ job'.pc = job.pc /\ job'.kind = job.kind
          /\ job'.number = job.number /\ job'.target = job.target
          /\ job'.doomedLogs \subseteq job.doomedLogs
          /\ job.pc # "idle"
      BY <3>1 DEF TypeOK, Job
    <3>3. QuietFiles
      BY <2>1, <3>1, <1>NoMoreSame, <1>NoMoreGone, Zenon DEF QuietFiles
    <3> QED
      BY <3>1, <3>2, <3>3, <1>EndsSeq, Zenon
  <2>4. CASE CommitFails
    <3>1. /\ job' = NoJob
          /\ UNCHANGED <<status, mem_, imm_, current_, log_number_, imm_log_number_,
                         next_file_number_, last_sequence_, leader, logs, tables,
                         manifest, survivors>>
      BY <2>4 DEF CommitFails, disk
    <3>2. QuietFiles
      BY <3>1, <1>NoMoreSame, Zenon DEF QuietFiles
    <3> QED
      BY <3>1, <3>2, <1>EndsSeq, Zenon
  <2> QED
    BY <2>2, <2>3, <2>4, <2>RenameManifestSeq, <2>CommitStageSeq, <2>CommitDoneSeq, Zenon
       DEF Commit
<1>BackgroundSeq.
    ASSUME SeqInv, TypeOK, TypeOK', Background
    PROVE  SeqInv'
\* A table is created under the next file number, above all the manifests know.
  <2>StartTableSeq.
      ASSUME SeqInv, TypeOK, TypeOK', NEW kind \in {"flush", "compact"},
             NEW inputs \in Version, StartTable(kind, inputs),
             status \in {"flushing", "open"}, kind = "compact" =>
                status = "open" /\ Live(inputs) \subseteq Live(current_)
      PROVE  SeqInv'
    <3> USE <2>StartTableSeq
    <3>1. /\ tables' = Create(tables, next_file_number_, NewTableFile)
          /\ job' = BuildJob(kind, next_file_number_, inputs)
          /\ next_file_number_' = next_file_number_ + 1
          /\ UNCHANGED <<status, mem_, imm_, current_, log_number_, imm_log_number_,
                         last_sequence_, leader, logs, manifest, survivors>>
      BY Zenon DEF StartTable, BuildJob
    <3>2. /\ last_sequence_ \in Nat /\ next_file_number_ \in Nat
          /\ Live(current_) \in SUBSET Nat /\ log_number_ \in Nat
          /\ ManifestNats(manifest) /\ \A m \in survivors : ManifestNats(m)
      BY SeqTypes, Zenon
    <3>3. /\ job'.pc = "build" /\ job'.kind = kind
          /\ job'.number = next_file_number_ /\ job'.target.version = inputs
      BY ONLY SMTT(30), <3>1, <3>2, BuildJobType
    <3>4. /\ last_sequence_ <= last_sequence_'
          /\ next_file_number_ <= next_file_number_'
          /\ log_number_ <= log_number_'
      BY <3>1, <3>2
    <3>5. QuietFiles
      BY <3>1, <1>NoMoreCreated, <1>NoMoreSame, Zenon DEF QuietFiles
    <3>6. MemorySeq /\ status # "down"
      BY DEF SeqInv
    <3>7. ManifestSeq'
      BY <3>1, <3>5, <1>QuietManifest, Zenon DEF SeqInv, ManifestSeq
    <3>8. MemorySeq'
      <4>1. /\ Below(mem_, last_sequence_) /\ Below(imm_, last_sequence_)
            /\ Below(leader.seqs, last_sequence_)
        BY <3>6, Zenon DEF MemorySeq
      <4> QED
        BY <3>1, <3>4, <3>5, <3>6, <4>1, <1>QuietMemory, Zenon
    <3>9. BuildSeq'
      <4>1. next_file_number_ \notin Live(current_)
        <5>1. Numbered(Live(current_), next_file_number_)
          BY <3>6, Zenon DEF MemorySeq
        <5> QED
          BY <3>2, <5>1 DEF Numbered
      <4>2. ASSUME NEW m \in survivors PROVE next_file_number_ \notin Live(m.version)
        <5>1. /\ Numbered(Live(m.version), m.next) /\ m.next <= manifest.next
              /\ manifest.next <= next_file_number_
          BY <3>6, Zenon DEF SeqInv, ManifestSeq, MemorySeq, Accounts
        <5> QED
          BY ONLY SMTT(30), <3>2, <5>1 DEF Numbered, ManifestNats
      <4>3. next_file_number_ < next_file_number_'
        BY <3>1, <3>2
      <4>4. job'.pc # "install"
        BY <3>3
      <4> QED
        BY <3>1, <3>3, <4>1, <4>2, <4>3, <4>4, Zenon DEF BuildSeq
    <3>10. CommitSeq'
      BY Zenon, <3>3 DEF CommitSeq, Stages
    <3>11. PhaseSeq'
      <4>1. job'.pc # "idle" /\ job'.pc \notin Stages
        BY <3>3 DEF Stages
      <4>2. status \notin {"down", "newlog", "opening"}
        OBVIOUS
      <4> QED
        BY Zenon, <3>1, <3>3, <4>1, <4>2 DEF SeqInv, PhaseSeq
    <3>12. OpenSeq'
      <4>1. job'.pc \notin Stages
        BY <3>3 DEF Stages
      <4> QED
        BY <3>1, <3>4, <3>5, <4>1, <1>QuietOpen, Zenon DEF SeqInv, QuietFiles
    <3> QED
      BY <3>7, <3>8, <3>9, <3>10, <3>11, <3>12 DEF SeqInv
  \* The finished table covers no more than what it was built from.
  <2>BuildTableSeq.
      ASSUME SeqInv, TypeOK, TypeOK', BuildTable
      PROVE  SeqInv'
    <3> USE <2>BuildTableSeq
    <3>1. /\ job.pc = "build"
          /\ tables' = [tables EXCEPT ![job.number] = Finished(tables[job.number],
                                                              BuiltFrom)]
          /\ UNCHANGED <<status, mem_, imm_, current_, log_number_, imm_log_number_,
                         next_file_number_, last_sequence_, leader, logs, manifest,
                         survivors>>
      BY Zenon DEF BuildTable
    <3>2. /\ job'.pc = "install" /\ job'.kind = job.kind
          /\ job'.number = job.number /\ job'.target = job.target
      BY JobAt, SeqTypes DEF BuildTable
    <3>3. PhaseSeq /\ MemorySeq /\ BuildSeq /\ job.pc # "idle"
          /\ job.pc \in {"build", "install"}
      BY <3>1 DEF SeqInv
    <3>4. status \notin {"down", "newlog"}
      BY <3>3 DEF PhaseSeq
    <3>5. /\ DOMAIN tables' = DOMAIN tables
          /\ \A n \in DOMAIN tables : n # job.number => tables'[n] = tables[n]
          /\ job.number \in DOMAIN tables => tables'[job.number].covers = BuiltFrom
      BY Zenon, <3>1 DEF Finished
    <3>6. /\ job.number \notin Live(current_)
          /\ \A m \in survivors : job.number \notin Live(m.version)
          /\ job.kind = "compact" => Live(job.target.version) \subseteq Live(current_)
      BY <3>3, Zenon DEF BuildSeq
    <3>7. LogsNoMore(logs, logs') /\ TablesNoMore(tables, tables', Nat \ {job.number})
      BY <3>1, <3>5, <1>NoMoreSame, Zenon DEF TablesNoMore
    <3>8. Below(BuiltFrom, last_sequence_)
      <4>1. /\ Below(imm_, last_sequence_)
            /\ TablesUpTo(tables, Live(current_), last_sequence_)
        BY Zenon, <3>3, <3>4 DEF MemorySeq
      <4>2. ASSUME job.kind = "compact"
            PROVE  Below(Covers(tables, job.target.version), last_sequence_)
        <5>1. ASSUME NEW s \in Covers(tables, job.target.version)
              PROVE  s <= last_sequence_
          <6>1. PICK n \in Live(job.target.version) :
                  Readable(tables, n) /\ s \in tables[n].covers
            BY Zenon, <5>1 DEF Covers
          <6>2. n \in Live(current_) \cap DOMAIN tables
            BY <3>6, <4>2, <6>1, Zenon DEF Readable, Visible
          <6> QED
            BY <4>1, <6>1, <6>2, Zenon DEF TablesUpTo, Below
        <5> QED
          BY <5>1, Zenon DEF Below
      <4>3. job.kind \in {"flush", "compact"}
        BY Zenon, <3>3, <3>1 DEF BuildSeq
      <4> QED
        BY <4>1, <4>2, <4>3 DEF BuiltFrom
    <3>9. ManifestSeq'
      <4>1. ASSUME NEW m \in survivors PROVE Accounts(m, logs', tables')
        <5>1. Live(m.version) \subseteq Nat \ {job.number}
          BY <3>6, SeqTypes, Zenon DEF ManifestNats
        <5>2. Accounts(m, logs, tables)
          BY Zenon DEF SeqInv, ManifestSeq
        <5> QED
          BY <3>7, <5>1, <5>2, <1>AccountsKept, Zenon
      <4> QED
        BY <3>1, <4>1, Zenon DEF SeqInv, ManifestSeq
    <3>10. MemorySeq'
      <4>1. Live(current_) \subseteq Nat \ {job.number}
        BY <3>6, SeqTypes, Zenon
      <4>2. status # "down"
        BY <3>4
      <4>3. TablesUpTo(tables', Live(current_), last_sequence_)
        BY <3>3, <3>7, <4>1, <4>2, <1>TablesUpToKept, Zenon DEF MemorySeq
      <4> QED
        BY <3>1, <3>3, <4>2, <4>3, Zenon DEF MemorySeq
    <3>11. BuildSeq'
      <4>1. TablesUpTo(tables', {job.number}, last_sequence_)
        BY <3>5, <3>8, Zenon DEF TablesUpTo
      <4> QED
        BY <3>1, <3>2, <3>3, <4>1, Zenon DEF BuildSeq
    <3>12. CommitSeq'
      BY Zenon, <3>2 DEF CommitSeq, Stages
    <3>13. job'.pc \notin Stages /\ job'.pc # "idle"
      BY Zenon, <3>2 DEF Stages
    <3>14. PhaseSeq'
      BY <3>1, <3>2, <3>3, <3>4, <3>13, Zenon DEF PhaseSeq
    <3>15. OpenSeq'
      BY <3>1, <3>13, Zenon DEF SeqInv, OpenSeq
    <3> QED
      BY <3>9, <3>10, <3>11, <3>12, <3>14, <3>15 DEF SeqInv
  \* A flush or a compaction installs its output, and its commit starts.
  <2>InstallSeq.
      ASSUME SeqInv, TypeOK, TypeOK', job.pc = "install", NEW kind,
             job' = CommitOf(kind, current_', OldestLiveLog(imm_', imm_log_number_',
                                                            log_number_),
                             next_file_number_),
             kind \in {"flush", "compact"}, kind = job.kind,
             Live(current_') \subseteq Live(current_) \cup {job.number},
             imm_' = {} \/ (/\ imm_' = imm_ /\ kind = "compact"
                            /\ imm_log_number_' = imm_log_number_),
             UNCHANGED <<status, mem_, log_number_, next_file_number_,
                         last_sequence_, leader, logs, tables, manifest, survivors>>
      PROVE  SeqInv'
    <3> USE <2>InstallSeq
    <3>1. /\ last_sequence_ \in Nat /\ next_file_number_ \in Nat
          /\ log_number_ \in Nat /\ imm_log_number_ \in Nat
          /\ Live(current_) \in SUBSET Nat /\ job.number \in Nat
      BY SeqTypes, Zenon
    <3>2. current_' \in Version /\ imm_log_number_' \in Nat
      BY Zenon DEF TypeOK
    <3>3. PICK oldest \in Nat : oldest = OldestLiveLog(imm_', imm_log_number_',
                                                       log_number_)
      BY Zenon, <3>1, <3>2 DEF OldestLiveLog
    <3>4. /\ job'.pc = "rename" /\ job'.kind = kind
          /\ job'.target = [version |-> current_', log |-> oldest,
                            next |-> next_file_number_, seq |-> last_sequence_]
      <4>1. job' = CommitOf(kind, current_', oldest, next_file_number_)
        BY <3>3, Zenon
      <4>2. kind \in {"flush", "compact"}
        BY Zenon
      <4> QED
        BY ONLY SMTT(30), <3>1, <3>2, <4>1, <4>2, CommitOfType
    <3>5. /\ job'.target.log = oldest /\ job'.target.next = next_file_number_
          /\ job'.target.seq = last_sequence_
      BY ONLY SMTT(30), <3>4
    <3>6. PhaseSeq /\ OpenSeq /\ MemorySeq /\ BuildSeq /\ job.pc # "idle"
          /\ job.pc \in {"build", "install"}
      BY Zenon DEF SeqInv
    <3>7. status \notin {"down", "newlog"} /\ status # "down"
      BY Zenon, <3>6 DEF PhaseSeq
    <3>8. imm_' # {} => /\ imm_' = imm_ /\ imm_log_number_' = imm_log_number_
                        /\ status = "open"
      <4>1. kind = "compact" => status # "flushing"
        BY Zenon, <3>6 DEF PhaseSeq
      <4>2. status \in {"newlog", "opening"} => imm_ = {}
        BY Zenon, <3>6 DEF PhaseSeq
      <4>3. status \in {"down", "newlog", "flushing", "opening", "open"}
        BY Zenon DEF TypeOK
      <4> QED
        BY Zenon, <3>7, <4>1, <4>2, <4>3
    <3>9. /\ oldest <= log_number_ /\ log_number_ <= next_file_number_
          /\ imm_' # {} => oldest = imm_log_number_
          /\ imm_' = {} => oldest = log_number_
      <4>1. log_number_ <= next_file_number_
        BY <3>6, Zenon DEF OpenSeq
      <4>2. imm_' # {} => imm_log_number_ <= log_number_
        BY <3>6, <3>8, Zenon DEF OpenSeq
      <4> QED
        BY ONLY SMTT(30), <3>1, <3>3, <3>8, <4>1, <4>2 DEF OldestLiveLog
    <3>10. status = "open" => manifest.log <= oldest
      <4>1. SUFFICES ASSUME status = "open" PROVE manifest.log <= oldest
        BY Zenon
      <4>2. manifest \in survivors
        BY Zenon DEF SeqInv, ManifestSeq
      <4>3. manifest.log <= log_number_
        BY Zenon, <3>6, <4>1, <4>2 DEF OpenSeq
      <4>4. imm_' # {} => manifest.log <= imm_log_number_
        BY <3>6, <3>8, <4>1, Zenon DEF OpenSeq
      <4> QED
        BY ONLY <3>9, <4>3, <4>4
    <3>11. /\ manifest.seq <= last_sequence_ /\ manifest.next <= next_file_number_
           /\ LogsUpTo(logs, last_sequence_)
           /\ Numbered(Live(current_), next_file_number_)
           /\ TablesUpTo(tables, Live(current_), last_sequence_)
           /\ TablesUpTo(tables, {job.number}, last_sequence_)
           /\ job.number < next_file_number_
      <4>1. job.pc = "install"
        BY Zenon
      <4> QED
        BY ONLY Zenon, <3>6, <3>7, <4>1 DEF MemorySeq, BuildSeq
    <3>12. Numbered(Live(current_'), next_file_number_)
      BY <3>11, Zenon DEF Numbered
    <3>13. TablesUpTo(tables, Live(current_'), last_sequence_)
      BY <3>11, Zenon DEF TablesUpTo
    <3>14. oldest <= next_file_number_
      BY <3>1, <3>9
    <3>15. ManifestSeq'
      BY Zenon DEF SeqInv, ManifestSeq
    <3>16. MemorySeq'
      <4>1. Below(imm_', last_sequence_)
        BY <3>6, <3>7, <3>8, Zenon DEF MemorySeq, Below
      <4> QED
        BY <3>6, <3>7, <3>12, <3>13, <4>1, Zenon DEF MemorySeq
    <3>17. BuildSeq'
      BY ONLY Zenon, <3>4 DEF BuildSeq
    <3>18. CommitSeq'
      <4>1. Accounts(job'.target, logs, tables)
        <5>1. PICK v \in Version : v = current_'
          BY <3>2, Zenon
        <5>2. PICK m : m = [version |-> v, log |-> oldest, next |-> next_file_number_,
                            seq |-> last_sequence_]
          BY Zenon
        <5>3. /\ Numbered(Live(v), next_file_number_)
              /\ TablesUpTo(tables, Live(v), last_sequence_)
          BY <3>12, <3>13, <5>1, Zenon
        <5>4. Accounts(m, logs, tables)
          BY <3>1, <3>11, <3>14, <5>2, <5>3, <1>CommitAccounts, Zenon
        <5>5. job'.target = m
          BY <3>4, <5>1, <5>2, Zenon
        <5> QED
          BY <5>4, <5>5, Zenon
      <4>2. /\ last_sequence_ <= last_sequence_
            /\ next_file_number_ <= next_file_number_
        BY <3>1
      <4>3. job'.pc \notin {"dirsync", "list", "unlink"}
        BY Zenon, <3>4
      <4>4. UNCHANGED <<status, log_number_, next_file_number_, last_sequence_,
                        logs, tables, manifest>>
        BY Zenon
      <4> QED
        BY ONLY Zenon, <3>4, <3>5, <3>9, <3>10, <3>11, <4>1, <4>2, <4>3, <4>4
           DEF CommitSeq, Stages
    <3>19. PhaseSeq'
      <4>1. status = "flushing" => imm_' = {} /\ kind # "compact"
        BY Zenon, <3>6, <3>8 DEF PhaseSeq
      <4>2. status \in {"newlog", "opening"} => imm_' = {}
        BY Zenon, <3>8
      <4> QED
        BY <3>4, <3>6, <3>7, <4>1, <4>2, Zenon DEF PhaseSeq
    <3>20. OpenSeq'
      <4>1. imm_' # {} => oldest <= imm_log_number_
        BY <3>1, <3>9
      <4> QED
        BY <3>5, <3>6, <3>8, <4>1, Zenon DEF OpenSeq
    <3> QED
      BY Zenon, <3>15, <3>16, <3>17, <3>18, <3>19, <3>20 DEF SeqInv
  <2> USE <1>BackgroundSeq
  <2>1. current_ \in Version
    BY Zenon DEF TypeOK
  <2>2. CASE FlushStart
    <3>1. NoVersion \in Version
      BY Zenon DEF NoVersion, Version
    <3>2. "flush" \in {"flush", "compact"} /\ "flush" # "compact"
      OBVIOUS
    <3> QED
      BY <2>2, <3>1, <3>2, <2>StartTableSeq, Zenon DEF FlushStart
  <2>3. CASE CompactStart
    <3>1. PICK inputs \in Version :
            /\ StartTable("compact", inputs)
            /\ inputs.l0 \subseteq current_.l0 /\ inputs.deep \subseteq current_.deep
      BY <2>1, <2>3, CompactInputs, Zenon
    <3>2. Live(inputs) \subseteq Live(current_)
      BY <3>1, Zenon DEF Live
    <3>3. status = "open" /\ status \in {"flushing", "open"}
      BY <2>3, Zenon DEF CompactStart
    <3> QED
      BY <3>1, <3>2, <3>3, <2>StartTableSeq, Zenon
  <2>4. CASE BuildFails
    <3>1. /\ job' = NoJob
          /\ tables' = Without(tables, {job.number}) \/ tables' = tables
          /\ UNCHANGED <<status, mem_, imm_, current_, log_number_, imm_log_number_,
                         next_file_number_, last_sequence_, leader, logs, manifest,
                         survivors>>
      BY <2>4, Zenon DEF BuildFails
    <3>2. QuietFiles
      BY <3>1, <1>NoMoreSame, <1>NoMoreGone, Zenon DEF QuietFiles
    <3> QED
      BY <3>1, <3>2, <1>EndsSeq, Zenon
  <2>5. CASE FlushInstall
    <3>1. /\ job.kind = "flush" /\ job.pc = "install" /\ imm_' = {}
          /\ current_' = [current_ EXCEPT !.l0 = current_.l0 \cup {job.number}]
          /\ job' = CommitOf("flush", current_',
                             OldestLiveLog(imm_', imm_log_number_', log_number_),
                             next_file_number_)
          /\ UNCHANGED <<status, mem_, log_number_, next_file_number_,
                         last_sequence_, leader, logs, tables, manifest, survivors>>
      BY <2>5 DEF FlushInstall, disk
    <3>2. Live(current_') \subseteq Live(current_) \cup {job.number}
      BY <2>1, <3>1 DEF Live, Version
    <3> QED
      BY <3>1, <3>2, <2>InstallSeq, Zenon
  <2>6. CASE CompactInstall
    <3>1. /\ job.kind = "compact" /\ job.pc = "install"
          /\ imm_' = imm_ /\ imm_log_number_' = imm_log_number_
          /\ current_' = Compacted(current_, job.target.version, job.number)
          /\ job' = CommitOf("compact", current_',
                             OldestLiveLog(imm_', imm_log_number_', log_number_),
                             next_file_number_)
          /\ UNCHANGED <<status, mem_, log_number_, next_file_number_,
                         last_sequence_, leader, logs, tables, manifest, survivors>>
      BY Zenon, <2>6 DEF CompactInstall, disk
    <3>2. Live(current_') \subseteq Live(current_) \cup {job.number}
      BY Zenon, <3>1 DEF Live, Compacted
    <3> QED
      BY <3>1, <3>2, <2>InstallSeq, Zenon
  <2> QED
    BY <2>2, <2>3, <2>4, <2>5, <2>6, <2>BuildTableSeq, Zenon DEF Background
<1>CrashSeq.
    ASSUME SeqInv, TypeOK, TypeOK', Crash \/ PowerFail
    PROVE  SeqInv'
\* After a crash only files are left, and of the manifests one.
  <2>LoseMemorySeq.
      ASSUME SeqInv, TypeOK, TypeOK', LoseMemory, QuietFiles,
             \/ manifest' = manifest /\ survivors' = survivors
             \/ \E m \in survivors : manifest' = m /\ survivors' = {m}
      PROVE  SeqInv'
    <3> USE <2>LoseMemorySeq
    <3>1. /\ status' = "down" /\ mem_' = {} /\ imm_' = {} /\ log_number_' = 0
          /\ next_file_number_' = 1 /\ leader' = Idle /\ job' = NoJob
      BY Zenon DEF LoseMemory
    <3>2. NoJob.pc = "idle" /\ NoJob.kind = "none" /\ Idle.pc = "idle"
      BY Zenon DEF NoJob, Idle
    <3>3. ManifestSeq'
      <4>1. CASE manifest' = manifest /\ survivors' = survivors
        BY <4>1, <1>QuietManifest, Zenon DEF SeqInv, ManifestSeq
      <4>2. ASSUME NEW m \in survivors, manifest' = m, survivors' = {m}
            PROVE  ManifestSeq'
        <5>1. ManifestNats(m) /\ Accounts(m, logs, tables)
          BY SeqTypes, Zenon DEF SeqInv, ManifestSeq
        <5>2. Accounts(m, logs', tables')
          BY <5>1, <1>AccountsKept, Zenon DEF QuietFiles, ManifestNats
        <5>3. m.seq <= m.seq /\ m.next <= m.next
          BY <5>1 DEF ManifestNats
        <5> QED
          BY <4>2, <5>2, <5>3, Zenon DEF ManifestSeq
      <4> QED
        BY <4>1, <4>2, Zenon
    <3>4. MemorySeq' /\ BuildSeq'
      BY ONLY Zenon, <3>1, <3>2 DEF MemorySeq, BuildSeq
    <3>5. CommitSeq'
      BY ONLY Zenon, <3>1, <3>2 DEF CommitSeq, Stages
    <3>6. PhaseSeq'
      BY ONLY <3>1, <3>2 DEF PhaseSeq, Stages
    <3>7. OpenSeq'
      BY ONLY <3>1, <3>2 DEF OpenSeq, Stages
    <3> QED
      BY ONLY <3>3, <3>4, <3>5, <3>6, <3>7 DEF SeqInv
  <2>PowerFailFiles.
      ASSUME TypeOK, PowerFail
      PROVE  QuietFiles
    <3> USE <2>PowerFailFiles
    <3>0. PICK L \in SUBSET (DOMAIN logs \ Certain(logs)) :
            \E cut \in [Certain(logs) \cup L -> 0..MaxSeq] :
              /\ \A n \in DOMAIN cut : cut[n] \in logs[n].synced..Len(logs[n].recs)
              /\ logs' = [n \in DOMAIN cut |-> CutLog(logs[n], cut[n])]
      BY Zenon DEF PowerFail
    <3>1. PICK cut \in [Certain(logs) \cup L -> 0..MaxSeq] :
            /\ \A n \in DOMAIN cut : cut[n] \in logs[n].synced..Len(logs[n].recs)
            /\ logs' = [n \in DOMAIN cut |-> CutLog(logs[n], cut[n])]
      BY Zenon, <3>0
    <3>2. DOMAIN cut \subseteq DOMAIN logs /\ DOMAIN logs' = DOMAIN cut
      BY Zenon, <3>1 DEF Certain
    <3>3. ASSUME NEW n \in DOMAIN cut
          PROVE  /\ Replay(logs'[n].recs) \subseteq Replay(logs[n].recs)
                 /\ logs'[n].ent # "unlinked"
      <4>1. logs[n].recs \in Seq(Record) /\ logs[n].synced \in Nat
        BY Zenon, <3>2 DEF TypeOK, LogFiles, LogFile
      <4>2. cut[n] \in 0..Len(logs[n].recs)
        BY ONLY SMTT(30), <3>1, <4>1
      <4>3. /\ logs'[n].recs = SubSeq(logs[n].recs, 1, cut[n])
            /\ logs'[n].ent # "unlinked"
        BY Zenon, <3>1 DEF CutLog
      <4>4. /\ SubSeq(logs[n].recs, 1, cut[n]) \in Seq(Record)
            /\ Len(SubSeq(logs[n].recs, 1, cut[n])) = cut[n]
            /\ \A i \in 1..cut[n] :
                  SubSeq(logs[n].recs, 1, cut[n])[i] = logs[n].recs[i]
            /\ cut[n] <= Len(logs[n].recs)
        BY ONLY SMTT(30), <4>1, <4>2
      <4>5. Replay(SubSeq(logs[n].recs, 1, cut[n])) \subseteq Replay(logs[n].recs)
        <5>1. PICK recs \in Seq(Record) : recs = SubSeq(logs[n].recs, 1, cut[n])
          BY <4>4, Zenon
        <5>2. /\ Len(recs) <= Len(logs[n].recs)
              /\ \A i \in 1..Len(recs) : logs[n].recs[i] = recs[i]
          BY Zenon, <4>4, <5>1
        <5> QED
          BY <4>1, <5>1, <5>2, <1>ReplayPrefix, Zenon
      <4> QED
        BY <4>3, <4>5, Zenon
    <3>4. LogsNoMore(logs, logs')
      BY <3>2, <3>3, Zenon DEF LogsNoMore
    <3>5. PICK T \in SUBSET (DOMAIN tables \ Certain(tables)) :
            tables' = [n \in Certain(tables) \cup T |->
                          [tables[n] EXCEPT !.ent = "durable"]]
      BY Zenon DEF PowerFail
    <3>6. ASSUME NEW n \in DOMAIN tables'
          PROVE  n \in DOMAIN tables /\ tables'[n].covers = tables[n].covers
      <4>1. n \in DOMAIN tables /\ tables'[n] = [tables[n] EXCEPT !.ent = "durable"]
        BY <3>5, <3>6 DEF Certain
      <4>2. tables[n] \in TableFile
        BY <4>1 DEF TypeOK, TableFiles
      <4> QED
        BY <4>1, <4>2 DEF TableFile
    <3>7. TablesNoMore(tables, tables', Nat)
      BY <3>6, Zenon DEF TablesNoMore
    <3> QED
      BY <3>4, <3>7 DEF QuietFiles
  <2> USE <1>CrashSeq
  <2>1. CASE Crash
    <3>1. /\ LoseMemory /\ UNCHANGED <<tables, manifest, survivors>>
          /\ \/ logs' = logs
             \/ logs' = [logs EXCEPT ![log_number_] =
                            AppendTo(logs[log_number_], leader.seqs, FALSE)]
      BY <2>1, Zenon DEF Crash
    <3>2. LogFiles(logs) /\ leader.seqs \in SUBSET Nat
      BY SeqTypes, Zenon
    <3>3. LogsNoMore(logs, logs')
      <4>1. CASE logs' = logs
        BY ONLY <4>1, <1>NoMoreSame, Zenon
      <4>2. CASE logs' = [logs EXCEPT ![log_number_] =
                             AppendTo(logs[log_number_], leader.seqs, FALSE)]
        BY ONLY <4>2, <3>2, <1>NoMoreTorn, Zenon
      <4> QED
        BY ONLY <3>1, <4>1, <4>2, Zenon
    <3>4. QuietFiles
      BY <3>1, <3>3, <1>NoMoreSame, Zenon DEF QuietFiles
    <3> QED
      BY <3>1, <3>4, <2>LoseMemorySeq, Zenon
  <2>2. CASE PowerFail
    <3>1. LoseMemory /\ \E m \in survivors : manifest' = m /\ survivors' = {m}
      BY <2>2, Zenon DEF PowerFail
    <3> QED
      BY <2>2, <3>1, <2>PowerFailFiles, <2>LoseMemorySeq, Zenon
  <2> QED
    BY <2>1, <2>2
<1> SUFFICES ASSUME SeqInv, TypeInv, TypeInv', [Next]_vars
             PROVE  SeqInv'
  OBVIOUS
<1>1. TypeOK /\ TypeOK'
  BY Zenon DEF TypeInv
<1>2. CASE Recover
  BY <1>1, <1>2, <1>RecoverLoadSeq, <1>RecoverOpenLogSeq, Zenon DEF Recover
<1>3. CASE UNCHANGED vars
  <2>1. UNCHANGED <<status, mem_, imm_, current_, log_number_, imm_log_number_,
                    next_file_number_, last_sequence_, leader, job, logs, tables,
                    manifest, survivors>>
    BY Zenon, <1>3 DEF vars, memory, disk, history
  <2>2. QuietFiles
    BY <2>1, <1>NoMoreSame, Zenon DEF QuietFiles
  <2> QED
    BY <1>1, <2>1, <2>2, <1>EndsSeq, Zenon
<1> QED
  BY <1>1, <1>2, <1>3, <1>CommitsSeq, <1>BackgroundSeq, <1>GroupSeq, <1>ClientSeq, <1>CrashSeq,
     Zenon DEF Next

-----------------------------------------------------------------------------
(* The theorems *)

LOCAL INSTANCE WellFoundedInduction
LOCAL INSTANCE FiniteSetTheorems

\* The least-number principle, from the well-foundedness of < on Nat.
LEMMA LeastNat == NatWellOrdered
<1> SUFFICES ASSUME NEW T \in SUBSET Nat, T # {}
             PROVE  \E x \in T : \A y \in T : x <= y
  BY Zenon DEF NatWellOrdered
<1> DEFINE R == OpToRel(<, Nat)
<1>1. IsWellFoundedOn(R, Nat)
  BY Zenon, NatLessThanWellFounded
<1>2. \A x, y \in Nat : <<y, x>> \in R <=> y < x
  BY Zenon DEF OpToRel
<1> HIDE DEF R
<1>3. PICK x \in T : \A y \in T : ~(<<y, x>> \in R)
  BY Zenon, <1>1, WFMin
<1>4. \A y \in T : ~(y < x)
  BY Zenon, <1>2, <1>3
<1> QED
  BY <1>4

\* The empty memtable has no entries; OrderNext assumes it.
LEMMA EmptyCard == Cardinality({}) = 0
  BY Zenon, FS_EmptySet

\* The variables of DurableDB keep their types: in particular the maxima that
\* Recover computes over the directory and the logs exist, so the counters it
\* hands out are numbers.
THEOREM TypeCorrect == Spec => []TypeOK
<1>1. TypeInv => TypeOK
  BY DEF TypeInv
<1> QED
  BY <1>1, TypeInit, TypeNext, LeastNat, PTL DEF Spec

\* While the machine keeps its power and FlushMemTable is not called from under
\* a group that is being written, every state satisfies the invariant.
THEOREM Safe ==
    ASSUME ~PowerLoss, ~FlushRaces
    PROVE  Spec => []IInv
  BY SafeInit, SafeNext, TypeInit, TypeNext, LeastNat, PTL DEF Spec

\* Durability: whatever instant the process dies at, and however many crashes,
\* failed writes, failed flushes and failed commits came before, a write that
\* returned OK is in what Recover will find (Write, FlushImmutableMemTable,
\* DoCompaction, CommitVersion, RemoveObsoleteFiles, Recover).
THEOREM Durability ==
    ASSUME ~PowerLoss, ~FlushRaces
    PROVE  Spec => []AckedRecoverable
<1>1. IInv => AckedRecoverable
  BY DEF IInv
<1> QED
  BY <1>1, Safe, PTL

\* While the database is open, no hand-over of a memtable to a table, and no
\* compaction, takes an acknowledged write out of what Get searches.
THEOREM ReadYourWrites ==
    ASSUME ~PowerLoss, ~FlushRaces
    PROVE  Spec => []AckedReadable
<1>1. IInv => AckedReadable
  BY Zenon DEF IInv, OpenInv, AckedReadable
<1> QED
  BY <1>1, Safe, PTL

\* Open never meets a manifest that names a table which is not there whole:
\* CommitVersion names only finished tables, RemoveObsoleteFiles unlinks none
\* of them.
THEOREM ManifestReadable ==
    ASSUME ~PowerLoss, ~FlushRaces
    PROVE  Spec => []ManifestTablesReadable
<1>1. IInv => ManifestTablesReadable
  BY Zenon DEF IInv, TablesInv, AllReadable, ManifestTablesReadable
<1> QED
  BY <1>1, Safe, PTL

\* No file is created over an existing one, the leftovers of crashed builds
\* and failed rotations included.
THEOREM FreshFiles ==
    ASSUME ~PowerLoss, ~FlushRaces
    PROVE  Spec => []FileNumbersFresh
<1>1. IInv => FileNumbersFresh
  BY DEF IInv, FreshInv
<1> QED
  BY <1>1, Safe, PTL

\* Sequence numbers are handed out once, with the process killed or the power
\* lost at any instant, any number of times: while the database is open
\* last_sequence_ is at least every number that Recover could bring back from
\* the tables of the manifest and the logs, so a new write never gets the
\* number of one that can reappear.
THEOREM SequencesAreNew == Spec => []SequencesNotReused
<1>1. ASSUME SeqInv, TypeInv PROVE SequencesNotReused
  <2> SUFFICES ASSUME status = "open", NEW s \in Recoverable
               PROVE  s <= last_sequence_
    BY Zenon DEF SequencesNotReused
  <2>1. status # "down"
    OBVIOUS
  <2>2. TypeOK /\ MemorySeq /\ ManifestSeq
    BY <1>1, Zenon DEF SeqInv, TypeInv
  <2>3. last_sequence_ \in Nat /\ TableFiles(tables) /\ LogFiles(logs)
        /\ ManifestNats(manifest)
    BY <2>2, SeqTypes, Zenon
  <2>4. CASE s \in ReplayFrom(logs, manifest.log)
    <3>1. PICK n \in DOMAIN logs : s \in Replay(logs[n].recs)
      BY <2>4, Zenon DEF ReplayFrom, Visible
    <3> QED
      BY <2>1, <2>2, <3>1, Zenon DEF MemorySeq, LogsUpTo, Below
  <2>5. CASE s \in Covers(tables, manifest.version)
    <3>1. PICK n \in Live(manifest.version) \cap DOMAIN tables : s \in tables[n].covers
      BY <2>5, Zenon DEF Covers, Readable, Visible
    <3>2. s <= manifest.seq
      BY <2>2, <3>1, Zenon DEF ManifestSeq, Accounts, TablesUpTo, Below
    <3>3. manifest.seq <= last_sequence_
      BY <2>1, <2>2, Zenon DEF MemorySeq
    <3>4. s \in Nat /\ manifest.seq \in Nat
      BY <2>3, <3>1, TableCovers, Zenon DEF ManifestNats
    <3> QED
      BY <2>3, <3>2, <3>3, <3>4
  <2> QED
    BY <2>4, <2>5, Zenon DEF Recoverable
<1> QED
  BY <1>1, SeqInit, SeqNext, TypeInit, TypeNext, LeastNat, PTL DEF Spec

\* The log number of MANIFEST while the database is open, whatever fails, power
\* losses and the race of FlushMemTable with a leader included: OldestLiveLog
\* never falls behind a number that was committed, and no commit, however old
\* its copy of OldestLiveLog, names a log above that of mem_ or of imm_.
THEOREM LogNumbersAdvance == Spec => LogNumberAdvances
<1>1. ASSUME SeqInv, SeqInv', TypeInv, TypeInv', [Next]_vars
      PROVE  [(status = "open" /\ status' = "open") =>
                 /\ manifest.log <= manifest'.log
                 /\ manifest'.log <= log_number_'
                 /\ imm_' # {} => manifest'.log <= imm_log_number_']_vars
  <2>0. status' = "open" =>
           /\ manifest'.log <= log_number_'
           /\ imm_' # {} => manifest'.log <= imm_log_number_'
    BY <1>1, Zenon DEF SeqInv, OpenSeq, ManifestSeq
  <2> SUFFICES ASSUME Next, status = "open", status' = "open"
               PROVE  manifest.log <= manifest'.log
    BY <1>1, <2>0, Zenon
  <2>1. manifest.log \in Nat
    BY <1>1, SeqTypes, Zenon DEF TypeInv, ManifestNats
  <2>2. CASE RenameManifest
    <3>1. job.pc = "rename" /\ manifest' = job.target
      BY <2>2, Zenon DEF RenameManifest
    <3>2. manifest.log <= job.target.log /\ job.target.log \in Nat
      BY <1>1, <3>1, SeqTypes, Zenon
         DEF SeqInv, CommitSeq, TypeInv, ManifestNats
    <3> QED
      BY Zenon, <2>1, <3>1, <3>2
  <2>3. CASE manifest' = manifest
    BY <2>1, <2>3
  <2>4. ~Crash /\ ~PowerFail /\ ~Recover
    BY DEF Crash, PowerFail, LoseMemory, Recover, RecoverLoad, RecoverOpenLog
  <2>5. Commit => RenameManifest \/ manifest' = manifest
    BY Zenon DEF Commit, SyncDirectory, ListObsolete, UnlinkLog, UnlinkTable,
             CommitDone, CommitFails, disk
  <2>6. Background => manifest' = manifest
    BY Zenon DEF Background, FlushStart, CompactStart, StartTable, BuildTable,
             BuildFails, FlushInstall, CompactInstall, disk
  <2>7. Group => manifest' = manifest
    BY Zenon DEF Group, AddRecord, AddRecordFails, SyncLog, SyncFails,
             InsertAndRetire, disk
  <2>8. Client => manifest' = manifest
    BY Zenon DEF Client, MakeRoomForWrite, MakeRoomFails, FlushMemTable,
             SwitchMemTable, WriteBegin, disk
  <2> QED
    BY <2>2, <2>3, <2>4, <2>5, <2>6, <2>7, <2>8, Zenon DEF Next
<1> QED
  BY <1>1, SeqInit, SeqNext, TypeInit, TypeNext, LeastNat, PTL
     DEF Spec, LogNumberAdvances

\* MANIFEST moves forward, and never past a log whose records are only in
\* memory: at every step of an open database, what is in mem_, in imm_ or between
\* a leader's append and its insert can be replayed from the log that MANIFEST
\* names (CommitVersion, OldestLiveLog, MakeRoomForWrite, RemoveObsoleteFiles).
THEOREM ManifestMovesForward ==
    ASSUME ~PowerLoss, ~FlushRaces
    PROVE  Spec => ManifestLogAdvances
<1>1. ASSUME IInv, status = "open"
      PROVE  InMemory \subseteq ReplayFrom(logs, manifest.log)
  <2>1. OpenInv /\ TypeOK
    BY <1>1, Zenon DEF IInv
  <2>2. ASSUME NEW n, Needed(n)
        PROVE  Replay(logs[n].recs) \subseteq ReplayFrom(logs, manifest.log)
    <3>1. n \in Visible(logs) /\ manifest.log <= n
      BY <2>2, Zenon DEF Needed
    <3>2. n \in Nat /\ manifest.log \in Nat
      BY <2>1, <3>1 DEF TypeOK, LogFiles, Visible, Manifest
    <3>3. n >= manifest.log
      BY <3>1, <3>2
    <3> QED
      BY <3>1, <3>3, Zenon DEF ReplayFrom
  <2>3. mem_ \subseteq ReplayFrom(logs, manifest.log)
    BY <1>1, <2>1, <2>2, Zenon DEF OpenInv
  <2>4. imm_ \subseteq ReplayFrom(logs, manifest.log)
    <3>1. CASE imm_ = {}
      BY <3>1, Zenon
    <3>2. CASE imm_ # {}
      BY <1>1, <2>1, <2>2, <3>2, Zenon DEF OpenInv
    <3> QED
      BY <3>1, <3>2, Zenon
  <2>5. leader.pc \in {"sync", "insert"} =>
           leader.seqs \subseteq ReplayFrom(logs, manifest.log)
    BY <1>1, <2>1, <2>2, Zenon DEF OpenInv
  <2> QED
    BY <2>3, <2>4, <2>5, Zenon DEF InMemory
<1>2. IInv => (status = "open" => InMemory \subseteq ReplayFrom(logs, manifest.log))
  BY <1>1, Zenon
<1>3. (IInv => (status = "open" => InMemory \subseteq ReplayFrom(logs, manifest.log)))'
  BY <1>2, PTL
<1>4. IInv' /\ [(status = "open" /\ status' = "open") =>
                   /\ manifest.log <= manifest'.log
                   /\ manifest'.log <= log_number_'
                   /\ imm_' # {} => manifest'.log <= imm_log_number_']_vars
      => [(status = "open" /\ status' = "open") =>
             /\ manifest.log <= manifest'.log
             /\ InMemory' \subseteq ReplayFrom(logs', manifest'.log)]_vars
  BY <1>3, Zenon
<1> QED
  BY <1>4, LogNumbersAdvance, Safe, PTL DEF ManifestLogAdvances, LogNumberAdvances

\* Get's search from mem_ to imm_, the L0 tables and the deeper levels finds the
\* newest write first, for every assignment of keys to writes, and with crashes
\* and failed commits at every step: a log that Recover replays once more into
\* a new L0 table, after its writes have been flushed, hides nothing newer
\* (Recover, FlushImmutableMemTable, DoCompaction, RemoveObsoleteFiles).  Only
\* one log may be left in that way: with more of them, brought back by a power
\* loss (durable_stale_log) or by unlinks that fail, a write can be hidden.
THEOREM SearchesFindNewest ==
    ASSUME ~PowerLoss, ~FlushRaces, ~UnlinkMayFail
    PROVE  Spec => []NewestSourceFirst
<1>1. IInv /\ SeqInv /\ OrderInv => NewestSourceFirst
  BY Zenon, OrderSuffices
<1>2. IInv => TypeOK
  BY DEF IInv
<1>3. Spec => []SeqInv
  BY SeqInit, SeqNext, TypeInit, TypeNext, LeastNat, PTL DEF Spec
<1> QED
  BY <1>1, <1>2, <1>3, Safe, OrderInit, OrderNext, EmptyCard, PTL DEF Spec

=============================================================================
