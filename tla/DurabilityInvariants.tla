------------------------ MODULE DurabilityInvariants ------------------------
(***************************************************************************)
(* Inductive invariants of DurableDB.  TypeInv and SeqInv hold whatever    *)
(* fails; IInv while the power stays and FlushMemTable does not race;      *)
(* OrderInv if moreover no unlink fails.  That the steps keep them is      *)
(* proved in DurabilityTypes (TypeInv, OrderInv), DurabilityInv (IInv) and *)
(* DurabilityProofs (SeqInv, and the theorems).                            *)
(***************************************************************************)
EXTENDS DurableDB

-----------------------------------------------------------------------------
(* Type correctness *)

\* The numbers in use have an upper bound, so that the maxima Recover computes
\* exist.
LogBelow(log, b) ==
    \A i \in DOMAIN log.recs : \A s \in log.recs[i].seqs : s <= b
LogsBelow(files, b) ==
    \A n \in DOMAIN files : n < b /\ LogBelow(files[n], b)
TablesBelow(files, b) == \A n \in DOMAIN files : n < b

Bounded(b) ==
    /\ LogsBelow(logs, b)
    /\ TablesBelow(tables, b)
    /\ next_file_number_ <= b
    /\ last_sequence_ <= b
    /\ \A s \in leader.seqs : s <= b

TypeInv == TypeOK /\ \E b \in Nat : Bounded(b)

-----------------------------------------------------------------------------
(* Durability *)

\* The stages of a commit, from CommitVersion's snapshot of the counters on,
\* and those of them in which MANIFEST is already the new one.
Committing == job.pc \in {"rename", "dirsync", "list", "unlink"}
Renamed == job.pc \in {"dirsync", "list", "unlink"}

AllOk(recs) == \A i \in DOMAIN recs : recs[i].ok

AllReadable(v) == \A n \in Live(v) : Readable(tables, n)

\* Nothing is in memory when the process is down.
DownInv ==
    status = "down" =>
        /\ mem_ = {} /\ imm_ = {}
        /\ log_number_ = 0 /\ imm_log_number_ = 0
        /\ bg_error_ = FALSE
        /\ leader = Idle
        /\ job = NoJob

\* The tables: those of the manifest and of current_ can be read, the one that
\* is being built is none of them, and a finished one has what it was built
\* from.
TablesInv ==
    /\ AllReadable(manifest.version)
    /\ status # "down" => AllReadable(current_)
    /\ job.pc \in {"build", "install"} =>
        /\ job.number \in Visible(tables)
        /\ job.number \notin Live(current_)
        /\ job.number \notin Live(manifest.version)
        /\ job.kind \in {"flush", "compact"}
        /\ job.kind = "flush" => imm_ # {}
        /\ job.kind = "compact" =>
              /\ job.target.version.l0 \subseteq current_.l0
              /\ job.target.version.deep \subseteq current_.deep
    /\ job.pc = "install" =>
        /\ tables[job.number].done
        /\ job.kind = "flush" => imm_ \subseteq tables[job.number].covers
        /\ job.kind = "compact" =>
              Covers(tables, job.target.version)
                 \subseteq tables[job.number].covers

\* A commit is of current_, and only it changes the manifest; what it unlinks
\* is neither a table of current_ nor a log the manifest needs.
CommitInv ==
    /\ Committing => job.target.version = current_
    /\ Renamed => manifest = job.target
    /\ job.pc = "unlink" =>
        /\ job.doomedTables \cap Live(current_) = {}
        /\ \A n \in job.doomedLogs : n < job.target.log

\* A log that holds writes still in memory is there, and neither the manifest
\* nor the commit in flight has moved past it.
Needed(n) ==
    /\ n \in Visible(logs)
    /\ manifest.log <= n
    /\ Committing => job.target.log <= n

OpenInv ==
    status = "open" =>
        /\ Needed(log_number_)
        /\ mem_ \subseteq Replay(logs[log_number_].recs)
        /\ (~bg_error_ \/ leader.pc = "append")
              => AllOk(logs[log_number_].recs)
        /\ leader.pc \in {"sync", "insert"} =>
              leader.seqs \subseteq Replay(logs[log_number_].recs)
        /\ imm_ # {} =>
              /\ Needed(imm_log_number_)
              /\ imm_log_number_ < log_number_
              /\ imm_ \subseteq Replay(logs[imm_log_number_].recs)
        /\ acked \subseteq (mem_ \cup imm_ \cup Covers(tables, current_))

\* While Recover runs, what was acknowledged is in current_ or in what was
\* replayed, and the flush of the latter commits against log 0.
RecoverInv ==
    status \in {"flushing", "newlog", "opening"} =>
        /\ mem_ = {}
        /\ leader = Idle
        /\ bg_error_ = FALSE
        /\ acked \subseteq (imm_ \cup Covers(tables, current_))
        /\ status = "flushing" =>
              /\ log_number_ = 0 /\ imm_log_number_ = 0
              /\ job.kind \in {"none", "flush"}
              /\ job.kind = "none" => job.pc = "idle"
              /\ Committing => imm_ = {} /\ job.target.log = 0
        /\ status = "newlog" => imm_ = {} /\ job = NoJob
        /\ status = "opening" =>
              /\ imm_ = {}
              /\ Committing
              /\ log_number_ \in Visible(logs)
              /\ job.target.log = log_number_
              /\ AllOk(logs[log_number_].recs)

\* Whichever thread creates a file, it creates a new one.
FreshInv == FileNumbersFresh

IInv ==
    /\ TypeOK
    /\ DownInv
    /\ TablesInv
    /\ CommitInv
    /\ OpenInv
    /\ RecoverInv
    /\ FreshInv
    /\ AckedRecoverable

\* All of it but the types.
SafeInv ==
    /\ DownInv
    /\ TablesInv
    /\ CommitInv
    /\ OpenInv
    /\ RecoverInv
    /\ FreshInv
    /\ AckedRecoverable

-----------------------------------------------------------------------------
(* Sequence numbers and the counters of the manifest, whatever fails *)

Stages == {"rename", "dirsync", "list", "unlink"}

Below(S, b) == \A s \in S : s <= b
LogsUpTo(f, b) == \A n \in DOMAIN f : Below(Replay(f[n].recs), b)
TablesUpTo(f, S, b) == \A n \in S \cap DOMAIN f : Below(f[n].covers, b)
Numbered(S, b) == \A n \in S : n < b

\* A manifest counts what it leaves behind: the logs it is past, the logs that
\* are unlinked and may come back, and the tables it names.
Left(m, f, n) == n < m.log \/ f[n].ent = "unlinked"
Accounts(m, f, g) ==
    /\ m.log <= m.next
    /\ \A n \in DOMAIN f : Left(m, f, n) => Below(Replay(f[n].recs), m.seq)
    /\ Numbered(Live(m.version), m.next)
    /\ TablesUpTo(g, Live(m.version), m.seq)

\* Of the manifests that a power loss may bring back, the one in force has the
\* highest counters.
ManifestSeq ==
    /\ manifest \in survivors
    /\ \A m \in survivors :
          /\ Accounts(m, logs, tables)
          /\ m.seq <= manifest.seq /\ m.next <= manifest.next

\* The counters in memory are above all that memory and the logs hold, and
\* all that the tables in use hold.
MemorySeq ==
    status # "down" =>
        /\ manifest.seq <= last_sequence_ /\ manifest.next <= next_file_number_
        /\ Below(mem_, last_sequence_) /\ Below(imm_, last_sequence_)
        /\ Below(leader.seqs, last_sequence_)
        /\ LogsUpTo(logs, last_sequence_)
        /\ Numbered(Live(current_), next_file_number_)
        /\ TablesUpTo(tables, Live(current_), last_sequence_)

\* A table is built under a number that no manifest knows.
BuildSeq ==
    /\ job.pc \in {"build", "install"} =>
        /\ job.kind \in {"flush", "compact"}
        /\ job.number \notin Live(current_)
        /\ job.number < next_file_number_
        /\ \A m \in survivors : job.number \notin Live(m.version)
        /\ job.kind = "compact" =>
              Live(job.target.version) \subseteq Live(current_)
    /\ job.pc = "install" => TablesUpTo(tables, {job.number}, last_sequence_)

\* The manifest that is about to be renamed counts at least as far as the one
\* in force, and no log it is past is written any more.
CommitSeq ==
    /\ job.pc = "rename" =>
        /\ Accounts(job.target, logs, tables)
        /\ job.target.seq <= last_sequence_
        /\ job.target.next <= next_file_number_
        /\ manifest.seq <= job.target.seq /\ manifest.next <= job.target.next
        /\ status = "open" => manifest.log <= job.target.log
    /\ job.pc \in Stages => job.target.log <= log_number_
    /\ job.pc \in Stages \ {"rename"} => manifest = job.target
    /\ job.pc \in {"list", "unlink"} => survivors = {manifest}
    /\ job.pc = "unlink" => Numbered(job.doomedLogs, job.target.log)

\* Nothing is in memory when the process is down, and which job may run when.
PhaseSeq ==
    /\ status = "down" =>
          mem_ = {} /\ leader = Idle /\ job = NoJob /\ log_number_ = 0
    /\ status \in {"down", "newlog"} => job.pc = "idle"
    /\ status = "flushing" => job.kind # "compact"
    /\ (status = "flushing" /\ job.pc \in Stages) => imm_ = {}
    /\ status \in {"newlog", "opening"} => imm_ = {}
    /\ leader.pc # "idle" => status = "open"

\* No manifest is past the log in use, nor past that of an imm_ that is not
\* flushed yet.
OpenSeq ==
    /\ status \in {"opening", "open"} =>
        /\ log_number_ \in DOMAIN logs => logs[log_number_].ent # "unlinked"
        /\ \A m \in survivors : m.log <= log_number_
    /\ log_number_ <= next_file_number_
    /\ (status = "open" /\ imm_ # {}) =>
        /\ manifest.log <= imm_log_number_ /\ imm_log_number_ <= log_number_
        /\ job.pc \in Stages => job.target.log <= imm_log_number_

SeqInv ==
    ManifestSeq /\ MemorySeq /\ BuildSeq /\ CommitSeq /\ PhaseSeq /\ OpenSeq

\* What SeqInv says of the log number of MANIFEST while the database is open:
\* it grows, and is above neither that of mem_ nor that of an imm_ which waits.
LogNumberAdvances ==
    [][(status = "open" /\ status' = "open") =>
          /\ manifest.log <= manifest'.log
          /\ manifest'.log <= log_number_'
          /\ imm_' # {} => manifest'.log <= imm_log_number_']_vars

-----------------------------------------------------------------------------
(* The order of the sources, while the power stays and no unlink fails *)

\* What the tables of a version cover.
CoversOf(g, v) == UNION {g[n].covers : n \in Live(v)}

\* What can be replayed of a log.
Held(f, n) == IF n \in Visible(f) THEN Replay(f[n].recs) ELSE {}

\* A source y hides nothing that an older source o has, ...
NoHide(y, o) == \A s \in y, t \in o : t > s => t \in y
\* ... as when all it has is newer.
Above(y, o) == \A s \in y, t \in o : t < s

\* The search of a version goes from new to old.
Ordered(g, v) ==
    \A n \in v.l0 :
        /\ \A m \in v.l0 : m < n => NoHide(g[n].covers, g[m].covers)
        /\ \A m \in v.deep : NoHide(g[n].covers, g[m].covers)

\* What Recover replays for a manifest, and lands in a table on top of it,
\* hides nothing; nor does what it replays if it has to start over from log 0,
\* once that table is committed.
Restart(f, g, m) ==
    /\ NoHide(ReplayFrom(f, m.log), CoversOf(g, m.version))
    /\ ReplayFrom(f, m.log) # {} =>
          NoHide(ReplayFrom(f, 0), CoversOf(g, m.version))

ManifestOrder ==
    Ordered(tables, manifest.version) /\ Restart(logs, tables, manifest)

MemoryOrder == Ordered(tables, current_) /\ NoHide(imm_, CoversOf(tables, current_))

\* A table is built from imm_, or from all of L0 or none of it, and its number
\* is the highest.
BuildOrder ==
    /\ job.pc \in {"build", "install"} =>
        /\ Numbered(Live(current_), job.number)
        /\ job.kind = "compact" => job.target.version.l0 \in {current_.l0, {}}
    /\ job.pc = "install" =>
        /\ job.kind = "flush" => tables[job.number].covers \subseteq imm_
        /\ job.kind = "compact" =>
              tables[job.number].covers
                 \subseteq CoversOf(tables, job.target.version)

\* Recover flushes what it replayed, against log 0, and starts a log when
\* there is nothing more to replay from it on.
FlushOrder ==
    status = "flushing" =>
        /\ job.pc \notin Stages =>
              /\ current_ = manifest.version
              /\ imm_ = ReplayFrom(logs, manifest.log) /\ imm_ # {}
        /\ job.pc \in Stages =>
              NoHide(ReplayFrom(logs, 0), CoversOf(tables, current_))
NewLogOrder ==
    status = "opening" =>
        /\ ReplayFrom(logs, log_number_) = {}
        /\ job.pc = "unlink" =>
              \A n \in Nat : Held(logs, n) # {} => n \in job.doomedLogs

\* Once the database is open a log is newer than the tables and memtables that
\* were there before it, and so are mem_ and the group in the making.
Oldest == OldestLiveLog(imm_, imm_log_number_, log_number_)

OpenOrder ==
    status = "open" =>
        /\ Above(mem_, imm_) /\ Above(mem_, CoversOf(tables, current_))
        /\ Above(leader.seqs, mem_) /\ Above(leader.seqs, imm_)
        /\ Above(leader.seqs, CoversOf(tables, current_))
        /\ Above(leader.seqs, CoversOf(tables, manifest.version))
        /\ Above(ReplayFrom(logs, log_number_), imm_)
        /\ Above(ReplayFrom(logs, Oldest), CoversOf(tables, current_))
        /\ NoHide(ReplayFrom(logs, 0), CoversOf(tables, current_))
        /\ NoHide(ReplayFrom(logs, 0), CoversOf(tables, manifest.version))

\* No log between two others, or after one, holds anything.
NoneBetween(f, i, j) == \A n \in Nat : i < n /\ n < j => Held(f, n) = {}
NoneAfter(f, i) == \A n \in Nat : i < n => Held(f, n) = {}

\* A log whose writes have been flushed and that is still there.
Stale(f, oldest, n) == n < oldest /\ Held(f, n) # {}
OneStale(f, oldest) ==
    \A m, n \in Nat : Stale(f, oldest, m) /\ Stale(f, oldest, n) => m = n
NoStale(f, oldest) == \A n \in Nat : ~Stale(f, oldest, n)

\* There is at most one, and none when the next flush is on its way.
Building == job.pc \in {"build", "install"}
StaleOrder ==
    status = "open" =>
        /\ OneStale(logs, Oldest)
        /\ (Building \/ (job.pc = "idle" /\ ~bg_error_)) => NoStale(logs, Oldest)
        /\ job.pc \in Stages => job.target.log = Oldest
        /\ job.pc = "unlink" =>
              \A n \in Nat : Stale(logs, Oldest, n) => n \in job.doomedLogs
        /\ NoneAfter(logs, log_number_)
        /\ imm_ # {} => NoneBetween(logs, imm_log_number_, log_number_)

OrderInv ==
    /\ ManifestOrder /\ MemoryOrder /\ BuildOrder /\ FlushOrder /\ NewLogOrder
    /\ OpenOrder /\ StaleOrder

=============================================================================
