----------------------------- MODULE GroupCommit -----------------------------
(***************************************************************************)
(* The threads of lsm::DB and what they wait for: DB::Write with its queue *)
(* of writers, BuildBatchGroup, ShouldSyncNow and MakeRoomForWrite; the    *)
(* callers of FlushMemTable, CompactAll and WaitForBackgroundWork; the     *)
(* background thread, or DrainBackgroundWork in its place; the destructor. *)
(* Source: src/src/db.cpp.                                                 *)
(*                                                                         *)
(* A step is what a thread does between two points where it takes, or      *)
(* gives up, mu_; a thread that holds mu_ across several steps is the      *)
(* value of the variable mu_.  A condition variable wakes who was          *)
(* notified, and no one else, so that a missing notification shows.        *)
(* A batch is its size: the number of its entries, and its bytes.  A       *)
(* memtable is the set of calls whose batches it holds, and current_ the   *)
(* set of those that are in tables.                                        *)
(***************************************************************************)
EXTENDS Integers, Sequences, FiniteSets, FiniteSetsExt

CONSTANTS
    Threads,         \* callers of the database
    MaxCalls,        \* bound: calls each of them makes
    BatchSize,       \* the size of the batches each of them writes
    Maintainers,     \* those that also call FlushMemTable and the like
    MaxDue,          \* bound: compactions a new table may call for
    SmallBatch,      \* 128 KiB: up to here the group is kept small too
    MaxGroupSize,    \* 1 MiB: what one group may hold
    Capacity,        \* options_.memtable_size_bytes
    EmptySize,       \* the memory of a memtable without entries
    SyncPolicy,      \* options_.sync_policy
    FsyncInterval,   \* options_.fsync_interval_ms
    MaxTime,         \* bound: the clock runs from 0 to MaxTime
    IOErrors,        \* whether log, rotation and flush may fail
    Free             \* the owner of mu_ when there is none

ASSUME GroupCommitAssumption ==
    /\ MaxCalls \in Nat /\ MaxTime \in Nat /\ FsyncInterval \in Nat
    /\ BatchSize \in [Threads -> Nat \ {0}]
    /\ Maintainers \subseteq Threads /\ MaxDue \in Nat
    /\ SmallBatch \in Nat /\ MaxGroupSize \in Nat /\ Capacity \in Nat
    /\ EmptySize \in 0..Capacity  \* else MakeRoomForWrite rotates for ever
    /\ SyncPolicy \in {"kEveryWrite", "kInterval", "kNever"}
    /\ IOErrors \in BOOLEAN
    /\ Free \notin Threads

VARIABLES
    mu_,               \* the thread that holds the lock between steps
    writers_,          \* the queue: threads, the leader in front
    pc,                \* where each thread is in Write
    self,              \* its Writer: batch, sync, done, status
    woken,             \* whether it was notified since it went to sleep
    group,             \* the leader's locals
    mem_,              \* the active memtable
    imm_,              \* the immutable one, {} when there is none
    current_,          \* what is in tables
    due,               \* compactions that current_ calls for
    bg,                \* the background thread, or the loop of a drain
    background_compaction,  \* the option: it never changes
    bg_error_,
    shutting_down_,
    last_sequence_,
    last_sync_time_,
    now,               \* the clock
    \* History, for the properties.
    calls,             \* calls made by each thread
    asked,             \* what was in mem_ when it called FlushMemTable
    log,               \* the records of the log: calls, first sequence, ok
    logStart,          \* where in it the records of log_ start
    durable,           \* its records that are on the device, in log or table
    applied,           \* calls in the order they entered memtables
    failed,            \* calls whose group failed
    answered           \* calls that returned, with the time they did

queueVars == <<mu_, writers_, pc, self, woken, group>>
treeVars == <<mem_, imm_, current_, due>>
bgVars == <<bg, bg_error_, background_compaction, shutting_down_>>
clockVars == <<last_sequence_, last_sync_time_, now>>
memVars == <<treeVars, bgVars, clockVars>>
history == <<calls, asked, log, logStart, durable, applied, failed, answered>>
vars == <<queueVars, memVars, history>>

Calls == Threads \X (1..MaxCalls)
Call(t) == <<t, calls[t]>>
CallsOf(ts) == [i \in DOMAIN ts |-> Call(ts[i])]

NoWriter == [sync |-> FALSE, done |-> FALSE, status |-> "ok",
             waits |-> 0, next |-> "idle"]
NoGroup == [members |-> <<>>, sync |-> FALSE, base |-> 0, status |-> "none"]
Answered == {a.call : a \in answered}

Init ==
    /\ mu_ = Free
    /\ writers_ = <<>>
    /\ pc = [t \in Threads |-> "idle"]
    /\ self = [t \in Threads |-> NoWriter]
    /\ woken = [t \in Threads |-> FALSE]
    /\ group = NoGroup
    /\ mem_ = {} /\ imm_ = {} /\ current_ = {} /\ due = 0
    /\ background_compaction \in BOOLEAN
    /\ bg = IF background_compaction THEN "asleep" ELSE "none"
    /\ bg_error_ = FALSE /\ shutting_down_ = FALSE
    /\ last_sequence_ = 0 /\ last_sync_time_ = 0 /\ now = 0
    /\ calls = [t \in Threads |-> 0] /\ asked = [t \in Threads |-> {}]
    /\ log = <<>> /\ logStart = 0 /\ durable = {}
    /\ applied = <<>> /\ failed = {} /\ answered = {}

-----------------------------------------------------------------------------
(* Entering the queue *)

\* Mutant: only a group that is being written makes a caller wait.
MustWaitForGroup == group.members # <<>>

MustWait == writers_ # <<>>

\* Calls come before the destructor.  Without a background thread a caller of
\* FlushMemTable, CompactAll or WaitForBackgroundWork is alone, as in the tests.
Maintaining(t) == pc[t] \in {"flush", "rotate", "waitbg", "drain"}
Calling(t, alone) ==
    /\ mu_ = Free /\ pc[t] = "idle"
    /\ ~shutting_down_
    /\ calls[t] < MaxCalls
    /\ background_compaction \/ \A u \in Threads :
          IF alone THEN pc[u] = "idle"
          ELSE ~Maintaining(u) \/ self[u].next = "lead"
    /\ calls' = [calls EXCEPT ![t] = @ + 1]

\* Write: the call queues, and leads at once if it is alone.
Write(t, sync) ==
    /\ Calling(t, FALSE)
    /\ self' = [self EXCEPT ![t] = [NoWriter EXCEPT !.sync = sync]]
    /\ writers_' = Append(writers_, t)
    /\ \/ /\ ~MustWait
          /\ pc' = [pc EXCEPT ![t] = "lead"]
          /\ mu_' = t
       \/ /\ MustWait
          /\ pc' = [pc EXCEPT ![t] = "wait"]
          /\ mu_' = mu_
    /\ UNCHANGED <<woken, group, memVars, asked, log, logStart, durable,
                   applied, failed, answered>>

Answer(t, status) ==
    [call |-> Call(t), ok |-> status = "ok", sync |-> self[t].sync, at |-> now]

\* A notified writer whose group is done returns, ...
WakeDone(t) ==
    /\ mu_ = Free
    /\ pc[t] = "wait" /\ woken[t]
    /\ self[t].done
    /\ woken' = [woken EXCEPT ![t] = FALSE]
    /\ pc' = [pc EXCEPT ![t] = "idle"]
    /\ answered' = answered \cup {Answer(t, self[t].status)}
    /\ UNCHANGED <<mu_, writers_, self, group, memVars, calls, asked, log, logStart,
                   durable, applied, failed>>

\* ... and one that has come to the front leads.
WakeLeads(t) ==
    /\ mu_ = Free
    /\ pc[t] = "wait" /\ woken[t]
    /\ ~self[t].done /\ Head(writers_) = t
    /\ woken' = [woken EXCEPT ![t] = FALSE]
    /\ pc' = [pc EXCEPT ![t] = "lead"]
    /\ mu_' = t
    /\ UNCHANGED <<writers_, self, group, memVars, history>>

-----------------------------------------------------------------------------
(* The leader, with mu_ held *)

\* ApproximateMemoryUsage.
MemoryUsage == EmptySize + MapThenSumSet(LAMBDA c : BatchSize[c[1]], mem_)
Full == MemoryUsage > Capacity

\* Who sleeps on bg_cv_: the background thread and a leader without room.
NotifyAll(bgState) ==
    /\ bg' = IF bgState = "asleep" THEN "ready" ELSE bgState
    /\ woken' = [t \in Threads |-> woken[t] \/ pc[t] = "room"]

\* The latched error, or a log that cannot be opened, is the leader's answer.
LeadFails(t) ==
    /\ mu_ = t /\ pc[t] = "lead"
    /\ bg_error_ \/ (IOErrors /\ Full /\ imm_ = {})
    /\ pc' = [pc EXCEPT ![t] = "retire"]
    /\ group' = [NoGroup EXCEPT !.members = <<t>>, !.status = "err"]
    /\ failed' = failed \cup {Call(t)}
    /\ UNCHANGED <<mu_, writers_, self, woken, memVars, calls, asked, log,
                   logStart, durable, applied, answered>>

\* DrainBackgroundWork: the caller itself runs the loop of the background
\* thread and goes on at next.
Drain(t, next, waits) ==
    /\ pc' = [pc EXCEPT ![t] = "drain"]
    /\ self' = [self EXCEPT ![t].next = next, ![t].waits = waits]
    /\ bg' = "ready"
    /\ mu_' = Free

\* MakeRoomForWrite makes the outstanding flush itself, ...
LeadDrains(t) ==
    /\ mu_ = t /\ pc[t] = "lead"
    /\ ~bg_error_
    /\ ~background_compaction
    /\ Full /\ imm_ # {}
    /\ Drain(t, "lead", 0)
    /\ UNCHANGED <<writers_, woken, group, treeVars, bg_error_,
                   background_compaction, shutting_down_, clockVars, history>>

\* ... or waits for the background thread to make it, ...
WaitForRoom(t) ==
    /\ mu_ = t /\ pc[t] = "lead"
    /\ ~bg_error_
    /\ background_compaction
    /\ Full /\ imm_ # {}
    /\ pc' = [pc EXCEPT ![t] = "room"]
    /\ mu_' = Free
    /\ UNCHANGED <<writers_, self, woken, group, memVars, history>>

\* ... looks again when it is told to, ...
RoomWoken(t) ==
    /\ mu_ = Free
    /\ pc[t] = "room" /\ woken[t]
    /\ woken' = [woken EXCEPT ![t] = FALSE]
    /\ pc' = [pc EXCEPT ![t] = "lead"]
    /\ mu_' = t
    /\ UNCHANGED <<writers_, self, group, memVars, history>>

\* A new log, and the memtable becomes the immutable one.
SwapMemTable ==
    /\ imm_' = mem_
    /\ mem_' = {}
    /\ logStart' = Len(log)
    /\ UNCHANGED <<current_, due, bg_error_, background_compaction,
                   shutting_down_, clockVars, calls, asked, log, durable,
                   applied, failed, answered>>

\* ... and rotates; MaybeScheduleCompaction wakes the background thread.
Rotate(t) ==
    /\ mu_ = t /\ pc[t] = "lead"
    /\ ~bg_error_
    /\ Full /\ imm_ = {}
    /\ SwapMemTable
    /\ NotifyAll(bg)
    /\ UNCHANGED <<mu_, writers_, pc, self, group>>

\* The size of the batches of these threads together.
TotalSize(ts) ==
    LET sum[n \in 0..Len(ts)] ==
            IF n = 0 THEN 0 ELSE sum[n - 1] + BatchSize[ts[n]]
    IN  sum[Len(ts)]

Bytes(n) == TotalSize(SubSeq(writers_, 1, n))

Budget(first) ==
    IF first <= SmallBatch THEN first + SmallBatch ELSE MaxGroupSize

\* Mutant: a write that wants to be synced rides with one that does not.
FitsUnsynced(n) == Bytes(n) <= Budget(Bytes(1))

\* Whether the n-th writer may still join the group of the first.
Fits(n) ==
    /\ self[writers_[n]].sync => self[writers_[1]].sync
    /\ Bytes(n) <= Budget(Bytes(1))

\* BuildBatchGroup: the longest run from the front that may join.
BuildBatchGroup ==
    LET last == CHOOSE n \in 1..Len(writers_) :
                   /\ \A i \in 2..n : Fits(i)
                   /\ n < Len(writers_) => ~Fits(n + 1)
    IN  SubSeq(writers_, 1, last)

ShouldSyncNow(wants) ==
    \/ wants
    \/ SyncPolicy = "kEveryWrite"
    \/ SyncPolicy = "kInterval" /\ now - last_sync_time_ >= FsyncInterval

\* Mutant: the followers' entries take no sequence numbers.
LastSequenceOfLeader(members) == last_sequence_ + Bytes(1)

LastSequenceOf(members) == last_sequence_ + Bytes(Len(members))

\* The leader takes the group's sequence numbers and releases the lock.
StartGroup(t) ==
    /\ mu_ = t /\ pc[t] = "lead"
    /\ ~bg_error_
    /\ ~Full
    /\ LET members == BuildBatchGroup
       IN  /\ group' = [members |-> members,
                        sync |-> ShouldSyncNow(self[t].sync),
                        base |-> last_sequence_ + 1, status |-> "none"]
           /\ last_sequence_' = LastSequenceOf(members)
    /\ pc' = [pc EXCEPT ![t] = "append"]
    /\ mu_' = Free
    /\ UNCHANGED <<writers_, self, woken, treeVars, bgVars, last_sync_time_,
                   now, history>>

-----------------------------------------------------------------------------
(* The leader, without the lock *)

RecordOf(ok) ==
    [calls |-> CallsOf(group.members), base |-> group.base,
     count |-> Bytes(Len(group.members)), ok |-> ok]

GroupFails ==
    /\ group' = [group EXCEPT !.status = "err"]
    /\ failed' = failed \cup Range(CallsOf(group.members))

AddRecord(t) ==
    /\ pc[t] = "append"
    /\ log' = Append(log, RecordOf(TRUE))
    /\ pc' = [pc EXCEPT ![t] = IF group.sync THEN "sync" ELSE "insert"]
    /\ UNCHANGED <<mu_, writers_, self, woken, group, memVars, calls, asked, logStart,
                   durable, applied, failed, answered>>

AddRecordFails(t) ==
    /\ IOErrors
    /\ pc[t] = "append"
    /\ log' = Append(log, RecordOf(FALSE))
    /\ pc' = [pc EXCEPT ![t] = "retire"]
    /\ GroupFails
    /\ UNCHANGED <<mu_, writers_, self, woken, memVars, calls, asked, logStart,
                   durable, applied, answered>>

SyncLog(t) ==
    /\ pc[t] = "sync"
    /\ durable' = durable \cup ((logStart + 1)..Len(log))
    /\ pc' = [pc EXCEPT ![t] = "insert"]
    /\ UNCHANGED <<mu_, writers_, self, woken, group, memVars, calls, asked, log,
                   logStart, applied, failed, answered>>

SyncFails(t) ==
    /\ IOErrors
    /\ pc[t] = "sync"
    /\ pc' = [pc EXCEPT ![t] = "retire"]
    /\ GroupFails
    /\ UNCHANGED <<mu_, writers_, self, woken, memVars, calls, asked, log, logStart,
                   durable, applied, answered>>

\* Every entry of the group enters mem_.
InsertGroup(t) ==
    /\ pc[t] = "insert"
    /\ mem_' = mem_ \cup Range(CallsOf(group.members))
    /\ applied' = applied \o CallsOf(group.members)
    /\ group' = [group EXCEPT !.status = "ok"]
    /\ pc' = [pc EXCEPT ![t] = "retire"]
    /\ UNCHANGED <<mu_, writers_, self, woken, imm_, current_, due, bgVars,
                   clockVars, calls, asked, log, logStart, durable, failed,
                   answered>>

-----------------------------------------------------------------------------
(* Retiring the group, with the lock again *)

\* What is left when everyone up to last_writer is popped.
Rest == SubSeq(writers_, Len(group.members) + 1, Len(writers_))

\* Mutant: the writers left in the queue are not told that the leader is gone.
WokenByRetireDone(t, rest) ==
    [u \in Threads |-> woken[u] \/ u \in Range(group.members) \ {t}]

\* The members of the group and the new front of the queue are notified.
WokenByRetire(t, rest) ==
    [u \in Threads |->
        \/ woken[u]
        \/ u \in Range(group.members) \ {t}
        \/ rest # <<>> /\ u = Head(rest)]

\* Mutant: an error goes to the group and is not latched.
LatchedNot(t) == bg_error_

\* bg_error_ = s, only for an error of the group itself.
Latched(t) ==
    bg_error_ \/ (group.status = "err" /\ group.base # 0)

\* Mutant: the time the next sync is due, not that of the last.
SyncTimeDue ==
    IF group.status = "ok" /\ group.sync THEN now + FsyncInterval
    ELSE last_sync_time_

SyncTime ==
    IF group.status = "ok" /\ group.sync THEN now ELSE last_sync_time_

\* Mutant: the followers are done, and are not handed the status.
FinishedOnly(w) == [w EXCEPT !.done = TRUE]

\* ready->status = s, ready->done = true.
Finished(w) == [w EXCEPT !.done = TRUE, !.status = group.status]

Retire(t) ==
    /\ mu_ \in {Free, t}
    /\ mu_' = Free
    /\ pc[t] = "retire"
    /\ writers_' = Rest
    /\ woken' = WokenByRetire(t, Rest)
    /\ self' = [u \in Threads |->
                  IF u \in Range(group.members) \ {t}
                  THEN Finished(self[u])
                  ELSE self[u]]
    /\ bg_error_' = Latched(t)
    /\ last_sync_time_' = SyncTime
    /\ answered' = answered \cup {Answer(t, group.status)}
    /\ pc' = [pc EXCEPT ![t] = "idle"]
    /\ group' = NoGroup
    /\ UNCHANGED <<treeVars, bg, background_compaction, shutting_down_,
                   last_sequence_, now, calls, asked, log, logStart, durable,
                   applied, failed>>

-----------------------------------------------------------------------------
(* FlushMemTable, CompactAll and WaitForBackgroundWork.  Their waits have a *)
(* time limit: a thread that waits looks again whenever it likes.           *)

Pending == imm_ # {} \/ due > 0               \* HasPendingWork
Running == bg \in {"flush", "commit", "compact"}   \* bg_running_

Goto(t, next) == pc' = [pc EXCEPT ![t] = next]
Returns(t, status) ==
    /\ Goto(t, "idle")
    /\ self' = [self EXCEPT ![t].status = status, ![t].waits = 0]

\* WaitForBackgroundWork alone, FlushMemTable, and CompactAll, which is a
\* FlushMemTable and then a WaitForBackgroundWork.
CallMaintenance(t) ==
    /\ Calling(t, TRUE)
    /\ \E at \in {"flush", "waitbg"}, waits \in 0..1 :
          /\ at = "waitbg" => waits = 1
          /\ Goto(t, at)
          /\ self' = [self EXCEPT ![t] = [NoWriter EXCEPT !.waits = waits]]
          /\ asked' = [asked EXCEPT ![t] = IF at = "flush" THEN mem_ ELSE {}]
    /\ UNCHANGED <<mu_, writers_, woken, group, memVars, log, logStart,
                   durable, applied, failed, answered>>

\* Mutant: the outstanding flush is not waited for.
SlotTakenNever == FALSE

\* There is one immutable memtable only.
SlotTaken == imm_ # {}

\* FlushMemTable waits for the flush that is outstanding, or makes it.
FlushLoop(t) ==
    /\ mu_ = Free
    /\ pc[t] = "flush"
    /\ \/ bg_error_ /\ Returns(t, "err") /\ UNCHANGED <<mu_, woken, bg>>
       \/ /\ ~bg_error_ /\ SlotTaken /\ background_compaction
          /\ NotifyAll(bg)
          /\ UNCHANGED <<mu_, pc, self>>
       \/ /\ ~bg_error_ /\ SlotTaken /\ ~background_compaction
          /\ Drain(t, "rotate", self[t].waits)
          /\ UNCHANGED woken
       \/ /\ ~bg_error_ /\ ~SlotTaken
          /\ group = NoGroup  \* else the race of durable_flush_race
          /\ Goto(t, "rotate")
          /\ mu_' = t
          /\ UNCHANGED <<self, woken, bg>>
    /\ UNCHANGED <<writers_, group, treeVars, bg_error_, background_compaction,
                   shutting_down_, clockVars, history>>

\* An empty memtable needs no flush; a log that cannot be opened is an error.
FlushReturns(t) ==
    /\ mu_ = t /\ pc[t] = "rotate"
    /\ mu_' = Free
    /\ \/ mem_ = {} /\ self[t].waits = 0 /\ Returns(t, "ok")
       \/ mem_ = {} /\ self[t].waits > 0 /\ Goto(t, "waitbg") /\ self' = self
       \/ mem_ # {} /\ IOErrors /\ Returns(t, "err")
    /\ UNCHANGED <<writers_, woken, group, memVars, history>>

\* Mutant: FlushMemTable does not wait for the flush.
WaitsOfFlushNone(t) == self[t].waits

\* FlushMemTable ends in a WaitForBackgroundWork of its own.
WaitsOfFlush(t) == self[t].waits + 1

FlushRotate(t) ==
    /\ mu_ = t /\ pc[t] = "rotate"
    /\ mem_ # {}
    /\ SwapMemTable
    /\ IF background_compaction
       THEN /\ NotifyAll(bg)
            /\ mu_' = Free
            /\ IF WaitsOfFlush(t) = 0 THEN Returns(t, "ok")
               ELSE /\ Goto(t, "waitbg")
                    /\ self' = [self EXCEPT ![t].waits = WaitsOfFlush(t)]
       ELSE Drain(t, "waitbg", self[t].waits) /\ UNCHANGED woken
    /\ UNCHANGED <<writers_, group>>

\* WaitForBackgroundWork, and the return of bg_error_ by its callers.
WaitLoop(t) ==
    /\ mu_ = Free
    /\ pc[t] = "waitbg"
    /\ \/ /\ background_compaction
          /\ ~bg_error_ /\ (Running \/ Pending)
          /\ NotifyAll(bg)
          /\ UNCHANGED <<mu_, pc, self>>
       \/ /\ background_compaction
          /\ bg_error_ \/ ~(Running \/ Pending)
          /\ IF bg_error_ THEN Returns(t, "err")
             ELSE IF self[t].waits = 1 THEN Returns(t, "ok")
             ELSE pc' = pc /\ self' = [self EXCEPT ![t].waits = @ - 1]
          /\ UNCHANGED <<mu_, woken, bg>>
       \/ /\ ~background_compaction
          /\ Drain(t, "waitbg", self[t].waits - 1)
          /\ UNCHANGED woken
    /\ UNCHANGED <<writers_, group, treeVars, bg_error_, background_compaction,
                   shutting_down_, clockVars, history>>

\* DrainBackgroundWork has nothing left to do, or met an error.
DrainEnds(t) ==
    /\ mu_ = Free
    /\ pc[t] = "drain" /\ bg = "ready"
    /\ bg_error_ \/ ~Pending
    /\ bg' = "none"
    /\ \/ /\ self[t].next = "lead" \/ (self[t].next = "rotate" /\ ~bg_error_)
          /\ Goto(t, self[t].next)
          /\ mu_' = t /\ self' = self
       \/ /\ self[t].next # "lead" /\ bg_error_
          /\ Returns(t, "err") /\ mu_' = mu_
       \/ /\ self[t].next = "waitbg" /\ ~bg_error_
          /\ IF self[t].waits = 0 THEN Returns(t, "ok")
             ELSE Goto(t, "waitbg") /\ self' = self
          /\ mu_' = mu_
    /\ UNCHANGED <<writers_, woken, group, treeVars, bg_error_,
                   background_compaction, shutting_down_, clockVars, history>>

-----------------------------------------------------------------------------
(* The background thread: BackgroundLoop, or a drain, around               *)
(* BackgroundWorkOnce                                                      *)

\* It flushes imm_ first, else compacts if a level calls for it.
BgWork ==
    /\ mu_ = Free
    /\ bg = "ready" /\ ~shutting_down_
    /\ ~bg_error_ /\ Pending
    /\ bg' = IF imm_ # {} THEN "flush" ELSE "compact"
    /\ UNCHANGED <<queueVars, treeVars, bg_error_, background_compaction,
                   shutting_down_, clockVars, history>>

\* Without work, or after an error, it sleeps; it ends with the database.
BgSleep ==
    /\ mu_ = Free
    /\ bg = "ready" /\ background_compaction
    /\ \/ shutting_down_ /\ bg' = "exited"
       \/ ~shutting_down_ /\ (bg_error_ \/ ~Pending) /\ bg' = "asleep"
    /\ UNCHANGED <<queueVars, treeVars, bg_error_, background_compaction,
                   shutting_down_, clockVars, history>>

\* The table is built: imm_ is given up and the commit starts.
BgFlushBuilt ==
    /\ mu_ = Free
    /\ bg = "flush"
    /\ current_' = current_ \cup imm_
    /\ imm_' = {}
    /\ due' \in due..MaxDue
    /\ bg' = "commit"
    /\ UNCHANGED <<queueVars, mem_, bg_error_, background_compaction,
                   shutting_down_, clockVars, history>>

\* The outputs of a compaction are installed; fewer are left to do.
BgCompacted ==
    /\ mu_ = Free
    /\ bg = "compact"
    /\ due' \in 0..(due - 1)
    /\ bg' = "commit"
    /\ UNCHANGED <<queueVars, mem_, imm_, current_, bg_error_,
                   background_compaction, shutting_down_, clockVars, history>>

\* CommitVersion is done: what current_ holds is on the device.
BgCommitted ==
    /\ mu_ = Free
    /\ bg = "commit"
    /\ durable' = durable \cup
                     {i \in DOMAIN log : Range(log[i].calls) \subseteq current_}
    /\ NotifyAll("ready")
    /\ UNCHANGED <<mu_, writers_, pc, self, group, treeVars, bg_error_,
                   background_compaction, shutting_down_, clockVars, calls,
                   asked, log, logStart, applied, failed, answered>>

\* A build, a merge or a commit fails.
BgFails ==
    /\ mu_ = Free
    /\ Running
    /\ IOErrors
    /\ bg_error_' = TRUE
    /\ NotifyAll("ready")
    /\ UNCHANGED <<mu_, writers_, pc, self, group, treeVars,
                   background_compaction, shutting_down_, clockVars, history>>

\* Mutant: the destructor does not wake the background thread.
CloseSilently ==
    /\ mu_ = Free
    /\ \A t \in Threads : pc[t] = "idle"
    /\ ~shutting_down_ /\ shutting_down_' = TRUE
    /\ UNCHANGED <<queueVars, treeVars, bg, bg_error_, background_compaction,
                   clockVars, history>>

\* The destructor, which no call is left beside, up to its join.
Close ==
    /\ mu_ = Free
    /\ \A t \in Threads : pc[t] = "idle"
    /\ ~shutting_down_ /\ shutting_down_' = TRUE
    /\ NotifyAll(bg)
    /\ UNCHANGED <<mu_, writers_, pc, self, group, treeVars, bg_error_,
                   background_compaction, clockVars, history>>

Tick ==
    /\ now < MaxTime
    /\ now' = now + 1
    /\ UNCHANGED <<queueVars, treeVars, bgVars, last_sequence_,
                   last_sync_time_, history>>

-----------------------------------------------------------------------------
\* The rest of a Write, once it is in the queue.
WriteOn(t) ==
    \/ WakeDone(t) \/ WakeLeads(t) \/ LeadFails(t) \/ LeadDrains(t)
    \/ WaitForRoom(t) \/ RoomWoken(t) \/ Rotate(t)
    \/ StartGroup(t) \/ AddRecord(t) \/ AddRecordFails(t) \/ SyncLog(t)
    \/ SyncFails(t) \/ InsertGroup(t) \/ Retire(t)

\* The rest of a FlushMemTable, a CompactAll or a WaitForBackgroundWork.
MaintenanceOn(t) ==
    \/ FlushLoop(t) \/ FlushReturns(t) \/ FlushRotate(t)
    \/ WaitLoop(t) \/ DrainEnds(t)

Background ==
    \/ BgWork \/ BgSleep
    \/ BgFlushBuilt \/ BgCompacted \/ BgCommitted \/ BgFails

Next ==
    \/ \E t \in Threads :
          \/ \E sync \in BOOLEAN : Write(t, sync)
          \/ WriteOn(t)
    \/ \E t \in Maintainers : CallMaintenance(t)
    \/ \E t \in Threads : MaintenanceOn(t)
    \/ Background
    \/ Close
    \/ Tick

Spec == Init /\ [][Next]_vars

\* The scheduler runs every thread that can go on, the background thread too.
Fairness ==
    /\ WF_vars(Background)
    /\ \A t \in Threads : WF_vars(WriteOn(t) \/ MaintenanceOn(t))

FairSpec == Spec /\ Fairness

-----------------------------------------------------------------------------
(* Properties *)

\* The types of the variables.
TypeOK ==
    /\ mu_ \in Threads \cup {Free}
    /\ Range(writers_) \subseteq Threads
    /\ pc \in [Threads -> {"idle", "wait", "lead", "room", "append", "sync",
                           "insert", "retire", "flush", "rotate", "waitbg",
                           "drain"}]
    /\ self \in [Threads -> [sync : BOOLEAN, done : BOOLEAN,
                             status : {"ok", "err"}, waits : 0..2,
                             next : {"idle", "lead", "rotate", "waitbg"}]]
    /\ woken \in [Threads -> BOOLEAN]
    /\ group.status \in {"none", "ok", "err"} /\ group.base \in Nat
    /\ Range(group.members) \subseteq Threads
    /\ mem_ \cup imm_ \cup current_ \subseteq Calls /\ due \in 0..MaxDue
    /\ bg_error_ \in BOOLEAN /\ shutting_down_ \in BOOLEAN
    /\ bg \in IF background_compaction
             THEN {"asleep", "ready", "flush", "commit", "compact", "exited"}
             ELSE {"none", "ready", "flush", "commit", "compact"}
    /\ last_sequence_ \in Nat
    /\ last_sync_time_ \in 0..now /\ now \in 0..MaxTime
    /\ Range(applied) \subseteq Calls /\ failed \subseteq Calls
    /\ Answered \subseteq Calls

\* The calls that are in the queue and not decided, as the callers see them.
Undecided ==
    LET n == IF group.status = "none" THEN 0 ELSE Len(group.members)
    IN  CallsOf(SubSeq(writers_, n + 1, Len(writers_)))

\* What the callers have been told, without the times.
Told == {[call |-> a.call, ok |-> a.ok] : a \in answered}

Promise == INSTANCE SerialLog WITH
              queue <- Undecided, answered <- Told

\* The queue with its groups implements one call after the other in the order
\* of arrival: no call is applied twice or overtakes another, and the status
\* that Write returns, the leader's own or the one it hands to a follower, is
\* OK if and only if the call was applied.
Serial == Promise!Spec

\* The calls in the first n records of the log, without a torn one.
Replay(records) ==
    LET replay[n \in 0..Len(records)] ==
            IF n = 0 THEN <<>>
            ELSE replay[n - 1] \o IF records[n].ok THEN records[n].calls ELSE <<>>
    IN  replay

\* Replaying the log gives the order of memory: the calls in the memtables are
\* those of the whole records, in the same order; only the last group may be
\* in the log and not in memory, and nothing follows a torn record.
LogAgreesWithMemory ==
    LET replay == Replay(log)
        last == Len(log)
    IN  /\ \A i \in DOMAIN log : ~log[i].ok => i = last
        /\ \/ applied = replay[last]
           \/ last > 0 /\ log[last].ok /\ applied = replay[last - 1]

\* Sequence numbers follow the log: each record starts where the one before
\* ended, however the calls were grouped, so replay can number the entries.
SequencesFollowLog ==
    \A i \in DOMAIN log :
        /\ log[i].base = IF i = 1 THEN 1
                         ELSE log[i - 1].base + log[i - 1].count
        /\ log[i].base + log[i].count <= last_sequence_ + 1

\* A caller that asked for fsync, or a database that syncs every write, has
\* the record on the device when it is told OK, also as a member of the group
\* of someone who did not ask, and also across a rotation.
SyncHonoured ==
    \A a \in answered :
        (a.ok /\ (a.sync \/ SyncPolicy = "kEveryWrite"))
          => \E i \in durable : a.call \in Range(log[i].calls)

\* One leader at a time is outside the lock, and it is the front of the queue:
\* log_ and mem_ have one writer.
OneLeader ==
    \A t \in Threads :
        pc[t] \in {"lead", "room", "append", "sync", "insert", "retire"}
            => writers_ # <<>> /\ Head(writers_) = t

AppliedFound == Range(applied) \subseteq mem_ \cup imm_ \cup current_

\* Every write that is in memory stays where a reader finds it, whoever
\* rotates: imm_ is never replaced or dropped before current_ has it.
AppliedKept ==
    /\ AppliedFound
    /\ mem_ \cap (imm_ \cup current_) = {} /\ imm_ \cap current_ = {}

\* db.h of FlushMemTable, "forces the active memtable to disk and waits for
\* it": when it returns OK, what was in mem_ at the call is in tables, also
\* when a leader rotated that memtable in the meantime.
FlushWaits ==
    [][\A t \in Threads :
         (Maintaining(t) /\ pc'[t] = "idle" /\ self'[t].status = "ok")
            => asked[t] \subseteq current_']_vars

\* Every call returns (they are finitely many, so the callers come to rest):
\* no notification is lost between leaders, followers and the background
\* thread, also after an error is latched, and the waits of FlushMemTable and
\* WaitForBackgroundWork end.
EveryCallReturns ==
    (\E t \in Threads : pc[t] # "idle") ~> (\A t \in Threads : pc[t] = "idle")

\* The join of the destructor returns, whatever the background thread was
\* doing when it was told to end.
DestructorReturns == shutting_down_ ~> bg \in {"exited", "none"}

\* options.h of kInterval: "bounds the window of acknowledged-but-lost writes
\* to roughly fsync_interval" (taken generously, as twice the interval).
IntervalBound ==
    \A a \in answered :
        (a.ok /\ ~\E i \in durable : a.call \in Range(log[i].calls))
            => now - a.at <= 2 * FsyncInterval

=============================================================================
