---------------------------- MODULE CommitSteps -----------------------------
(***************************************************************************)
(* CInv, the inductive invariant of what happened to a call, where its     *)
(* record is and what its caller is told, and the part of it that the steps*)
(* of a group of writes decide.  GroupCommitProofs has the rest.           *)
(***************************************************************************)
EXTENDS CommitInv

-----------------------------------------------------------------------------
(* Recursion over a sequence *)

Record == [calls : Seq(Threads \X Nat), base : Nat, count : Nat, ok : BOOLEAN]
\* Induction up to a bound, for a set.
LEMMA UpTo ==
    ASSUME NatWellOrdered, NEW N \in Nat, NEW S, 0 \in S, \A n \in 1..N : n - 1 \in S => n \in S
    PROVE  \A n \in 0..N : n \in S
<1> DEFINE Bad == {n \in 0..N : n \notin S}
<1> SUFFICES ASSUME Bad # {} PROVE FALSE
  BY Zenon
<1>1. Bad \in SUBSET Nat
  OBVIOUS
<1>2. PICK m \in Bad : \A k \in Bad : m <= k
  <2> HIDE DEF Bad
  <2> QED
    BY <1>1, Zenon DEF NatWellOrdered
<1>3. m \in 1..N /\ m - 1 \in 0..N /\ ~(m <= m - 1)
  BY <1>2
<1>4. m - 1 \in S
  BY <1>2, <1>3
<1> QED
  BY <1>2, <1>3, <1>4

\* f starts with z and goes on by the steps.
Iterates(D, z, N, step, f) ==
    /\ f \in [0..N -> D]
    /\ f[0] = z
    /\ \A n \in 1..N : f[n] = step[n][f[n - 1]]

\* What is defined by recursion over 0..N exists.
LEMMA Recursion ==
    ASSUME NatWellOrdered, NEW D, NEW z \in D, NEW N \in Nat, NEW step \in [1..N -> [D -> D]]
    PROVE  \E f : Iterates(D, z, N, step, f)
<1> DEFINE Upto(m) == \E f : Iterates(D, z, m, step, f)
           S == {m \in 0..N : Upto(m)}
<1>1. Upto(0)
  <2> DEFINE g == [n \in 0..0 |-> z]
  <2>1. g \in [0..0 -> D] /\ g[0] = z /\ \A n \in 1..0 : g[n] = step[n][g[n - 1]]
    OBVIOUS
  <2> QED
    BY <2>1, Zenon DEF Iterates
<1>2. ASSUME NEW m \in 1..N, Upto(m - 1)
      PROVE  Upto(m)
  <2>1. PICK f \in [0..(m - 1) -> D] :
           f[0] = z /\ \A n \in 1..(m - 1) : f[n] = step[n][f[n - 1]]
    BY <1>2, Zenon DEF Iterates
  <2> DEFINE g == [n \in 0..m |-> IF n = m THEN step[m][f[m - 1]] ELSE f[n]]
  <2>2. g \in [0..m -> D]
    OBVIOUS
  <2>3. g[0] = z /\ g[m] = step[m][g[m - 1]]
    BY <2>1
  <2>4. \A n \in 1..(m - 1) : g[n] = step[n][g[n - 1]]
    BY <2>1
  <2>5. \A n \in 1..m : n = m \/ n \in 1..(m - 1)
    OBVIOUS
  <2> HIDE DEF g
  <2>6. \A n \in 1..m : g[n] = step[n][g[n - 1]]
    BY <2>3, <2>4, <2>5
  <2> QED
    BY <2>2, <2>3, <2>6, Zenon DEF Iterates
<1> HIDE DEF Upto
<1>3. 0 \in S /\ N \in 0..N
  BY <1>1
<1>4. ASSUME NEW n \in 1..N, n - 1 \in S
      PROVE  n \in S
  BY <1>2, <1>4
<1> HIDE DEF S
<1>5. N \in S
  BY <1>3, <1>4, UpTo, Zenon
<1> QED
  BY <1>5, Zenon DEF S, Upto

\* The recursion of TotalSize.
Sums(ts, f) ==
    f = [n \in 0..Len(ts) |-> IF n = 0 THEN 0 ELSE f[n - 1] + BatchSize[ts[n]]]

\* The recursion of Replay.
Replays(lg, f) ==
    f = [n \in 0..Len(lg) |-> IF n = 0 THEN <<>> ELSE f[n - 1] \o
                                 IF lg[n].ok THEN lg[n].calls ELSE <<>>]

\* Replay is what its recursion says.
LEMMA ReplayIs ==
    ASSUME NatWellOrdered, NEW D, NEW lg, Len(lg) \in Nat,
           \A n \in 1..Len(lg) : lg[n].ok => lg[n].calls \in Seq(D)
    PROVE  Replays(lg, Replay(lg))
<1> DEFINE N == Len(lg)
           C(n) == IF lg[n].ok THEN lg[n].calls ELSE <<>>
           step == [n \in 1..N |-> [x \in Seq(D) |-> x \o C(n)]]
<1>1. N \in Nat /\ \A n \in 1..N : C(n) \in Seq(D)
  OBVIOUS
<1> HIDE DEF N, C
<1>2. step \in [1..N -> [Seq(D) -> Seq(D)]] /\ <<>> \in Seq(D)
  BY <1>1
<1>3. PICK f \in [0..N -> Seq(D)] :
         f[0] = <<>> /\ \A n \in 1..N : f[n] = step[n][f[n - 1]]
  <2> HIDE DEF step
  <2> DEFINE E == Seq(D)
  <2>1. step \in [1..N -> [E -> E]] /\ <<>> \in E
    BY <1>2
  <2> HIDE DEF E
  <2>2. \E f : Iterates(E, <<>>, N, step, f)
    BY <1>1, <2>1, Recursion, Zenon
  <2> QED
    BY <2>2, Zenon DEF E, Iterates
<1>4. ASSUME NEW n \in 1..N
      PROVE  f[n] = f[n - 1] \o C(n)
  <2>1. n - 1 \in 0..N
    BY <1>1
  <2>2. f[n - 1] \in Seq(D)
    BY <2>1
  <2> QED
    BY <1>3, <2>2, Zenon
<1>5. Replays(lg, f)
  <2>1. f = [n \in 0..N |-> f[n]]
    OBVIOUS
  <2>2. \A n \in 0..N : n = 0 \/ n \in 1..N
    BY <1>1
  <2>3. \A n \in 0..N : f[n] = IF n = 0 THEN <<>> ELSE f[n - 1] \o C(n)
    BY <1>3, <1>4, <2>2, Zenon
  <2> QED
    BY <2>1, <2>3, Zenon DEF Replays, N, C
<1> DEFINE r == CHOOSE g : Replays(lg, g)
<1>6. Replays(lg, r)
  BY <1>5, Zenon
<1>7. Replay(lg) = r
  BY DEF Replay, Replays
<1> QED
  BY <1>6, <1>7, Zenon

-----------------------------------------------------------------------------
(* The inductive invariant *)

WritesGroup(t) == pc[t] \in {"append", "sync", "insert"}

\* The outcome of a group is open until its leader retires it, and there is
\* no group without a leader.
Phases ==
    /\ \A t \in Threads : WritesGroup(t) => group.status = "none" /\ group.base # 0
    /\ \A t \in Threads : pc[t] = "retire" => group.status \in {"ok", "err"}
    /\ (\A t \in Threads : ~HasGroup(t)) => group = NoGroup

InMaintenance(t) == Maintaining(t) /\ ~Leads(t)

\* Without a background thread a caller that maintains is alone, and only then
\* a caller drains; nobody rotates beside a group.
Alone ==
    /\ ~background_compaction =>
          \A t \in Threads : InMaintenance(t) =>
             \A u \in Threads \ {t} : pc[u] = "idle"
    /\ \A t \in Threads : pc[t] = "drain" => ~background_compaction
    /\ \A t \in Threads : pc[t] = "rotate" => group = NoGroup

\* Where a drain goes on, and how many waits a caller has left.
Round(t) ==
    /\ InMaintenance(t) => self[t].next # "lead"
    /\ pc[t] = "drain" => self[t].next \in {"lead", "rotate", "waitbg"}
    /\ self[t].waits \in IF pc[t] = "waitbg" THEN 1..2 ELSE 0..1

Rounds == \A t \in Threads : Round(t)

\* Calls are numbered; one that has not returned is not answered.
Made ==
    /\ calls \in [Threads -> 0..MaxCalls]
    /\ \A t \in Threads : pc[t] # "idle" => calls[t] >= 1 /\ Call(t) \notin Answered
    /\ \A c \in Range(applied) \cup failed \cup Answered :
          c \in Calls /\ c[2] <= calls[c[1]]

\* What a caller is told is what happened to its call.
Outcomes ==
    /\ \A t \in Threads : pc[t] = "wait" /\ self[t].done =>
          Call(t) \in IF self[t].status = "ok" THEN Range(applied) ELSE failed
    /\ \A t \in Threads : pc[t] = "retire" =>
          \A u \in Range(group.members) :
             Call(u) \in IF group.status = "ok" THEN Range(applied) ELSE failed

\* The log is whole and memory has all of it.
Clean ==
    /\ \A i \in DOMAIN log : log[i].ok
    /\ applied = Replay(log)[Len(log)]

\* The record of the group is the last one, and memory has all but that.
Logged ==
    /\ log # <<>>
    /\ \A i \in DOMAIN log : log[i].ok
    /\ log[Len(log)].calls = CallsOf(group.members)
    /\ applied = Replay(log)[Len(log) - 1]

LogState ==
    /\ log \in Seq(Record)
    /\ LogAgreesWithMemory
    /\ \A t \in Threads : pc[t] = "append" => Clean
    /\ \A t \in Threads : pc[t] \in {"sync", "insert"} => Logged
    /\ \/ Clean
       \/ bg_error_
       \/ \E t \in Threads : pc[t] \in {"sync", "insert"}
       \/ \E t \in Threads : pc[t] = "retire" /\ group.status = "err" /\ group.base # 0

\* Where the next record starts.
NextBase == IF log = <<>> THEN 1 ELSE log[Len(log)].base + log[Len(log)].count

\* All numbers that were handed out are in the log, but those of the group
\* that is about to be appended.
Counted ==
    /\ last_sequence_ \in Nat
    /\ SequencesFollowLog
    /\ (\A t \in Threads : pc[t] # "append") => NextBase = last_sequence_ + 1
    /\ \A t \in Threads : pc[t] = "append" =>
          /\ group.base = NextBase
          /\ group.base + TotalSize(group.members) = last_sequence_ + 1

WantsSync(t) == self[t].sync \/ SyncPolicy = "kEveryWrite"

OnDevice(c) == \E i \in durable : c \in Range(log[i].calls)

\* From the wish of a caller to the device.
Synced ==
    /\ durable \subseteq DOMAIN log
    /\ logStart \in 0..Len(log)
    /\ \A t \in Threads :
          WritesGroup(t) \/ (pc[t] = "retire" /\ group.status = "ok") =>
             \A u \in Range(group.members) : WantsSync(u) => group.sync
    /\ \A t \in Threads : pc[t] = "sync" => logStart < Len(log)
    /\ \A t \in Threads : pc[t] = "insert" /\ group.sync => Len(log) \in durable
    /\ \A t \in Threads :
          pc[t] = "retire" /\ group.status = "ok" /\ group.sync =>
             \A u \in Range(group.members) : OnDevice(Call(u))
    /\ \A t \in Threads :
          (pc[t] = "wait" /\ self[t].done /\ self[t].status = "ok" /\ WantsSync(t))
             => OnDevice(Call(t))
    /\ SyncHonoured

\* What FlushMemTable was asked to flush is on its way to the tables.
OnItsWay(t) ==
    /\ t \in DOMAIN asked
    /\ InMaintenance(t) =>
          /\ asked[t] \subseteq Stored
          /\ (pc[t] = "waitbg" \/ (pc[t] = "drain" /\ self[t].next = "waitbg"))
                => asked[t] \subseteq imm_ \cup current_

Flushed == \A t \in Threads : OnItsWay(t)

CInv ==
    /\ KInv /\ Phases /\ Alone /\ Rounds /\ Made /\ Outcomes /\ LogState /\ Counted
    /\ Synced /\ Flushed

-----------------------------------------------------------------------------
(* Steps that decide nothing *)

\* Who is in a group is a thread.
LEMMA MembersAreThreads ==
    ASSUME LInv, NEW t \in Threads, HasGroup(t)
    PROVE  Range(group.members) \subseteq Threads
<1>1. group.members \in Seq(Threads)
  BY Zenon DEF LInv, GroupInFront, FrontOf
<1> QED
  BY <1>1 DEF Range

\* A step that no writer of a group takes and that decides nothing: the queue,
\* the group, the log and the outcomes stay, and who moves was in a call, is no
\* finished waiter, and does not come to write a group.
Moves(u) ==
    /\ pc[u] \notin {"idle", "append", "sync", "insert", "retire"}
    /\ pc[u] = "wait" => ~self[u].done
    /\ pc'[u] \notin {"wait", "append", "sync", "insert", "retire"}

Stays(u) ==
    /\ pc'[u] = pc[u]
    /\ self'[u].done = self[u].done
    /\ self'[u].status = self[u].status

Quiet ==
    /\ UNCHANGED <<writers_, group, calls, log, applied, failed, answered,
                   last_sequence_>>
    /\ \A u \in Threads :
          self'[u].sync = self[u].sync /\ (Stays(u) \/ Moves(u))
    /\ bg_error_ => bg_error_'
    /\ durable \subseteq durable' /\ durable' \subseteq durable \cup DOMAIN log
    /\ \/ logStart' = logStart
       \/ logStart' = Len(log) /\ \A u \in Threads : pc[u] # "sync"

\* A step of one thread that moves.
LEMMA OneMoves ==
    ASSUME LInv, NEW t \in Threads, NEW at, pc' = [pc EXCEPT ![t] = at], Moves(t),
           \A u \in Threads : self'[u].sync = self[u].sync,
           \A u \in Threads \ {t} : self'[u] = self[u]
    PROVE  \A u \in Threads :
              self'[u].sync = self[u].sync /\ (Stays(u) \/ Moves(u))
<1>1. DOMAIN pc = Threads
  BY DEF LInv, Fields
<1>2. \A u \in Threads \ {t} : pc'[u] = pc[u]
  BY <1>1, Zenon
<1> QED
  BY <1>2, Zenon DEF Stays

\* What a thread changes in its Writer while it is not written.
NewFields(t, a, b) ==
    \/ self' = self
    \/ self' = [self EXCEPT ![t].status = a, ![t].waits = b]
    \/ self' = [self EXCEPT ![t].next = a, ![t].waits = b]
    \/ self' = [self EXCEPT ![t].waits = b]

\* Changing those fields of one's Writer leaves its wish to sync.
LEMMA FieldsKeepSync ==
    ASSUME LInv, NEW t \in Threads, NEW a, NEW b, NewFields(t, a, b)
    PROVE  /\ \A u \in Threads : /\ self'[u].sync = self[u].sync
                                 /\ self'[u].done = self[u].done
           /\ \A u \in Threads \ {t} : self'[u] = self[u]
<1>1. DOMAIN self = Threads /\ \A u \in Threads : DOMAIN self[u] = WriterFields
  BY DEF LInv, Fields
<1>2. "sync" \in WriterFields /\ "done" \in WriterFields
  BY DEF WriterFields
<1> QED
  BY <1>1, <1>2 DEF NewFields

\* Nobody syncs beside a leader without a group, or when there is none.
LEMMA NobodySyncs ==
    ASSUME LInv, (\E t \in Threads : Leads(t) /\ ~HasGroup(t)) \/ group = NoGroup
    PROVE  \A u \in Threads : pc[u] # "sync"
<1> SUFFICES ASSUME NEW u \in Threads, pc[u] = "sync" PROVE FALSE
  BY Zenon
<1>1. HasGroup(u) /\ Leads(u)
  BY Zenon DEF HasGroup, Leads
<1>2. CASE group = NoGroup
  <2>1. group.members = <<>>
    BY <1>2 DEF NoGroup
  <2>2. FrontOf(group.members)
    BY <1>1, Zenon DEF LInv, GroupInFront
  <2> QED
    BY <2>1, <2>2 DEF FrontOf, LInv, Fields
<1> QED
  BY <1>1, <1>2, LeaderAlone, Zenon

\* Waiting for the lead, for room and for the flush, and rotating.
LEMMA LeaderQuiet ==
    ASSUME CInv, NEW t \in Threads,
           \/ WakeLeads(t) \/ LeadDrains(t) \/ WaitForRoom(t) \/ RoomWoken(t)
           \/ Rotate(t)
    PROVE  Quiet
<1>1. LInv
  BY Zenon DEF CInv, KInv
<1>2. CASE WakeLeads(t)
  <2>1. /\ pc[t] = "wait" /\ ~self[t].done /\ pc' = [pc EXCEPT ![t] = "lead"]
        /\ UNCHANGED <<writers_, self, group, memVars, history>>
    BY <1>2, Zenon DEF WakeLeads
  <2>2. Moves(t)
    BY <1>1, <2>1 DEF Moves, LInv, Fields
  <2>3. \A u \in Threads : self'[u].sync = self[u].sync /\ (Stays(u) \/ Moves(u))
    BY <1>1, <2>1, <2>2, OneMoves, Zenon
  <2> QED
    BY <2>1, <2>3, Zenon DEF Quiet, memVars, bgVars, clockVars, history
<1>3. CASE LeadDrains(t)
  <2>1. /\ pc[t] = "lead" /\ pc' = [pc EXCEPT ![t] = "drain"]
        /\ self' = [self EXCEPT ![t].next = "lead", ![t].waits = 0]
        /\ UNCHANGED <<writers_, group, bg_error_, clockVars, history>>
    BY <1>3, Zenon DEF LeadDrains, Drain
  <2>2. Moves(t)
    BY <1>1, <2>1 DEF Moves, LInv, Fields
  <2>3. \A u \in Threads : self'[u].sync = self[u].sync /\ (Stays(u) \/ Moves(u))
    <3>1. NewFields(t, "lead", 0)
      BY <2>1, Zenon DEF NewFields
    <3> QED
      BY <1>1, <2>1, <2>2, <3>1, OneMoves, FieldsKeepSync, Zenon
  <2> QED
    BY <2>1, <2>3, Zenon DEF Quiet, clockVars, history
<1>4. CASE WaitForRoom(t)
  <2>1. /\ pc[t] = "lead" /\ pc' = [pc EXCEPT ![t] = "room"]
        /\ UNCHANGED <<writers_, self, group, memVars, history>>
    BY <1>4, Zenon DEF WaitForRoom
  <2>2. Moves(t)
    BY <1>1, <2>1 DEF Moves, LInv, Fields
  <2>3. \A u \in Threads : self'[u].sync = self[u].sync /\ (Stays(u) \/ Moves(u))
    BY <1>1, <2>1, <2>2, OneMoves, Zenon
  <2> QED
    BY <2>1, <2>3, Zenon DEF Quiet, memVars, bgVars, clockVars, history
<1>5. CASE RoomWoken(t)
  <2>1. /\ pc[t] = "room" /\ pc' = [pc EXCEPT ![t] = "lead"]
        /\ UNCHANGED <<writers_, self, group, memVars, history>>
    BY <1>5, Zenon DEF RoomWoken
  <2>2. Moves(t)
    BY <1>1, <2>1 DEF Moves, LInv, Fields
  <2>3. \A u \in Threads : self'[u].sync = self[u].sync /\ (Stays(u) \/ Moves(u))
    BY <1>1, <2>1, <2>2, OneMoves, Zenon
  <2> QED
    BY <2>1, <2>3, Zenon DEF Quiet, memVars, bgVars, clockVars, history
<1>6. CASE Rotate(t)
  <2>1. /\ pc[t] = "lead" /\ logStart' = Len(log)
        /\ UNCHANGED <<pc, self, writers_, group, bg_error_, clockVars, calls, log,
                       durable, applied, failed, answered>>
    BY <1>6, Zenon DEF Rotate, SwapMemTable
  <2>2. Leads(t) /\ ~HasGroup(t)
    BY <2>1 DEF Leads, HasGroup
  <2>3. \A u \in Threads : pc[u] # "sync"
    BY <1>1, <2>2, NobodySyncs, Zenon
  <2> QED
    BY <2>1, <2>3, Zenon DEF Quiet, Stays, clockVars
<1> QED
  BY <1>2, <1>3, <1>4, <1>5, <1>6

\* The background thread, the clock and the destructor.
LEMMA BackgroundQuiet ==
    ASSUME CInv, Background \/ Close \/ Tick \/ UNCHANGED vars
    PROVE  Quiet
<1>1. UNCHANGED <<pc, self, writers_, group, calls, log, applied, failed, answered,
                  last_sequence_, logStart>>
  BY Zenon DEF Background, BgWork, BgSleep, BgFlushBuilt, BgCompacted, BgCommitted,
               BgFails, Close, Tick, vars, memVars, clockVars, queueVars, history
<1>2. bg_error_ => bg_error_'
  BY Zenon DEF Background, BgWork, BgSleep, BgFlushBuilt, BgCompacted, BgCommitted,
               BgFails, Close, Tick, vars, memVars, bgVars
<1>3. durable \subseteq durable' /\ durable' \subseteq durable \cup DOMAIN log
  <2>1. CASE BgCommitted
    BY <2>1 DEF BgCommitted
  <2>2. CASE ~BgCommitted
    BY <2>2, Zenon DEF Background, BgWork, BgSleep, BgFlushBuilt, BgCompacted,
               BgFails, Close, Tick, vars, history
  <2> QED
    BY <2>1, <2>2
<1> QED
  BY <1>1, <1>2, <1>3, Zenon DEF Quiet, Stays

\* The calls of FlushMemTable, CompactAll and WaitForBackgroundWork.
LEMMA MaintenanceQuiet ==
    ASSUME CInv, NEW t \in Threads, MaintenanceOn(t)
    PROVE  Quiet
<1>1. LInv /\ Alone
  BY Zenon DEF CInv, KInv
<1>2. /\ pc[t] \in {"flush", "rotate", "waitbg", "drain"}
      /\ UNCHANGED <<writers_, group, calls, log, applied, failed, answered,
                     last_sequence_, durable, bg_error_>>
  BY Zenon DEF MaintenanceOn, FlushLoop, FlushReturns, FlushRotate, WaitLoop,
               DrainEnds, SwapMemTable, history, memVars, bgVars, clockVars
<1> DEFINE Places ==
              \/ UNCHANGED <<pc, self>>
              \/ pc' = pc /\ self' = [self EXCEPT ![t].waits = @ - 1]
              \/ \E at \in {"idle", "rotate", "waitbg", "drain", "lead"} :
                    pc' = [pc EXCEPT ![t] = at]
<1>3. Places /\ \E a, b : NewFields(t, a, b)
  <2>1. CASE FlushLoop(t)
    <3>1. \/ UNCHANGED <<pc, self>>
          \/ Returns(t, "err")
          \/ Goto(t, "rotate") /\ self' = self
          \/ Drain(t, "rotate", self[t].waits)
      BY <2>1, Zenon DEF FlushLoop
    <3> QED
      BY <3>1, Zenon DEF NewFields, Returns, Goto, Drain
  <2>2. CASE FlushReturns(t)
    <3>1. \/ Returns(t, "ok") \/ Returns(t, "err")
          \/ Goto(t, "waitbg") /\ self' = self
      BY <2>2, Zenon DEF FlushReturns
    <3> QED
      BY <3>1, Zenon DEF NewFields, Returns, Goto
  <2>3. CASE FlushRotate(t)
    <3>1. \/ Returns(t, "ok")
          \/ Goto(t, "waitbg") /\ self' = [self EXCEPT ![t].waits = WaitsOfFlush(t)]
          \/ Drain(t, "waitbg", self[t].waits)
      BY <2>3 DEF FlushRotate
    <3> QED
      BY <3>1, Zenon DEF NewFields, Returns, Goto, Drain
  <2>4. CASE WaitLoop(t)
    <3>1. \/ UNCHANGED <<pc, self>>
          \/ Returns(t, "ok") \/ Returns(t, "err")
          \/ pc' = pc /\ self' = [self EXCEPT ![t].waits = @ - 1]
          \/ Drain(t, "waitbg", self[t].waits - 1)
      BY <2>4, Zenon DEF WaitLoop
    <3> QED
      BY <3>1, Zenon DEF NewFields, Returns, Goto, Drain
  <2>5. CASE DrainEnds(t)
    <3>1. \/ Goto(t, "lead") /\ self' = self
          \/ Goto(t, "rotate") /\ self' = self
          \/ Returns(t, "ok") \/ Returns(t, "err")
          \/ Goto(t, "waitbg") /\ self' = self
      BY <2>5 DEF DrainEnds
    <3> QED
      BY <3>1, Zenon DEF NewFields, Returns, Goto
  <2> QED
    BY <2>1, <2>2, <2>3, <2>4, <2>5, Zenon DEF MaintenanceOn
<1>4. PICK a, b : NewFields(t, a, b)
  BY <1>3, Zenon
<1>5. /\ \A u \in Threads : self'[u].sync = self[u].sync /\ self'[u].done = self[u].done
      /\ \A u \in Threads \ {t} : self'[u] = self[u]
  BY <1>1, <1>4, FieldsKeepSync, Zenon
<1>6. \A u \in Threads : self'[u].sync = self[u].sync /\ (Stays(u) \/ Moves(u))
  <2>1. CASE UNCHANGED <<pc, self>>
    BY <2>1, Zenon DEF Stays
  <2>2. CASE pc' = pc /\ self' = [self EXCEPT ![t].waits = @ - 1]
    <3>1. \A u \in Threads : self'[u].status = self[u].status
      BY <1>1, <2>2 DEF LInv, Fields, WriterFields
    <3> QED
      BY <1>5, <2>2, <3>1, Zenon DEF Stays
  <2>3. CASE \E at \in {"idle", "rotate", "waitbg", "drain", "lead"} :
                pc' = [pc EXCEPT ![t] = at]
    <3>1. PICK at \in {"idle", "rotate", "waitbg", "drain", "lead"} :
             pc' = [pc EXCEPT ![t] = at]
      BY ZenonT(40), <2>3
    <3>2. Moves(t)
      BY <1>1, <1>2, <3>1 DEF Moves, LInv, Fields
    <3> QED
      BY <1>1, <1>5, <3>1, <3>2, OneMoves, Zenon
  <2> QED
    BY <1>3, <2>1, <2>2, <2>3
<1>7. \/ logStart' = logStart
      \/ logStart' = Len(log) /\ \A u \in Threads : pc[u] # "sync"
  <2>1. CASE FlushRotate(t)
    <3>1. pc[t] = "rotate" /\ logStart' = Len(log)
      BY <2>1, Zenon DEF FlushRotate, SwapMemTable
    <3>2. group = NoGroup
      BY <1>1, <3>1, Zenon DEF Alone
    <3> QED
      BY <1>1, <3>1, <3>2, NobodySyncs, Zenon
  <2>2. CASE ~FlushRotate(t)
    BY <2>2, Zenon DEF MaintenanceOn, FlushLoop, FlushReturns, WaitLoop, DrainEnds,
                       history
  <2> QED
    BY <2>1, <2>2
<1> QED
  BY <1>2, <1>5, <1>6, <1>7, Zenon DEF Quiet

-----------------------------------------------------------------------------
(* What a step that decides nothing preserves *)

\* The conjuncts that all of those steps preserve in the same way.
Decided == Phases /\ Made /\ Outcomes /\ LogState /\ Counted /\ Synced

-----------------------------------------------------------------------------
(* Steps of a Write that decide *)

\* The call that a thread is in.
LEMMA CallMade ==
    ASSUME Made, NEW t \in Threads, pc[t] # "idle"
    PROVE  /\ Call(t) \in Calls /\ Call(t) \in Threads \X Nat
           /\ Call(t)[1] = t /\ Call(t)[2] <= calls[Call(t)[1]]
           /\ Call(t) \notin Answered
<1>1. calls[t] \in 1..MaxCalls /\ Call(t) \notin Answered
  BY GroupCommitAssumption DEF Made
<1> QED
  BY <1>1, GroupCommitAssumption DEF Call, Calls

\* The calls of the group.
LEMMA CallsOfGroup ==
    ASSUME KInv, Made, NEW t \in Threads, HasGroup(t)
    PROVE  /\ group.members \in Seq(Threads)
           /\ CallsOf(group.members) \in Seq(Threads \X Nat)
           /\ Range(CallsOf(group.members)) = {Call(u) : u \in Range(group.members)}
           /\ \A u \in Range(group.members) : u \in Threads /\ pc[u] # "idle"
           /\ t \in Range(group.members)
<1>1. /\ FrontOf(group.members) /\ Leads(t) /\ writers_ # <<>> /\ Head(writers_) = t
      /\ writers_ \in Seq(Threads)
  BY GroupOfLeader, Zenon DEF KInv, LInv, GroupInFront, LeadersInFront, Fields
<1>2. PICK m : m = group.members
  BY Zenon
<1>3. /\ m \in Seq(Threads) /\ Len(m) \in Nat /\ Len(m) >= 1 /\ Len(m) <= Len(writers_)
      /\ DOMAIN m = 1..Len(m)
      /\ \A i \in 1..Len(m) : m[i] = writers_[i] /\ m[i] \in Threads
  BY <1>1, <1>2 DEF FrontOf
<1>4. \A i \in 1..Len(m) : pc[m[i]] # "idle"
  <2> SUFFICES ASSUME NEW i \in 1..Len(m) PROVE pc[m[i]] # "idle"
    BY Zenon
  <2>1. i \in DOMAIN writers_ /\ m[i] = writers_[i] /\ m[i] \in Threads
    BY <1>1, <1>3
  <2>2. (pc[m[i]] = "wait" /\ ~self[m[i]].done) \/ Leads(m[i])
    BY <2>1, Zenon DEF KInv, QueuedWaits, Queued
  <2> QED
    BY <2>2 DEF Leads
<1>5. \A u \in Range(m) : u \in Threads /\ pc[u] # "idle"
  BY <1>3, <1>4, Zenon DEF Range
<1>6. t \in Range(m)
  <2>1. m[1] = t /\ 1 \in DOMAIN m
    BY <1>1, <1>3
  <2> QED
    BY <2>1, Zenon DEF Range
<1>7. CallsOf(m) = [i \in 1..Len(m) |-> Call(m[i])]
  BY <1>3, Zenon DEF CallsOf
<1>8. CallsOf(m) \in Seq(Threads \X Nat)
  <2>1. \A i \in 1..Len(m) : Call(m[i]) \in Threads \X Nat
    BY <1>3, <1>4, CallMade, Zenon
  <2> DEFINE S == Threads \X Nat
             c == CallsOf(m)
  <2>2. c = [i \in 1..Len(m) |-> c[i]] /\ \A i \in 1..Len(m) : c[i] \in S
    BY <1>7, <2>1, Zenon
  <2> HIDE DEF S, c
  <2>3. c \in Seq(S)
    BY <1>3, <2>2, SequenceOf, Zenon
  <2> QED
    BY <2>3, Zenon DEF S, c
<1>9. Range(CallsOf(m)) = {Call(u) : u \in Range(m)}
  BY <1>3, <1>7, ZenonT(40) DEF Range
<1> QED
  BY <1>2, <1>3, <1>5, <1>6, <1>8, <1>9, Zenon

\* A thread that is not in a call is in no group.
LEMMA IdleInNoGroup ==
    ASSUME KInv, Made, NEW t \in Threads, pc[t] = "idle", NEW u \in Threads, HasGroup(u),
           NEW v \in Range(group.members)
    PROVE  v # t
BY CallsOfGroup, Zenon

\* What the callers were told stays true.
ToldStays ==
    /\ Made'
    /\ \A u \in Threads : pc'[u] = "wait" /\ self'[u].done =>
          Call(u)' \in IF self'[u].status = "ok" THEN Range(applied') ELSE failed'
    /\ \A u \in Threads :
          (pc'[u] = "wait" /\ self'[u].done /\ self'[u].status = "ok" /\ WantsSync(u)')
             => OnDevice(Call(u))'
    /\ SyncHonoured'
    /\ \A u : Call(u)' = Call(u)
    /\ \A u : WantsSync(u)' <=> WantsSync(u)
    /\ \A c : OnDevice(c) => OnDevice(c)'

\* All steps.
LEMMA NextDecided ==
    ASSUME NatWellOrdered, CInv, [Next]_vars
    PROVE  Decided'
\* It stays within the natural numbers.
<1>SumsTo.
    ASSUME NatWellOrdered, NEW ts \in Seq(Threads), NEW f, Sums(ts, f)
    PROVE  f[Len(ts)] \in Nat
  <2> USE <1>SumsTo
  <2> DEFINE N == Len(ts)
             S == {n \in 0..N : f[n] \in Nat}
  <2>1. N \in Nat /\ N \in 0..N /\ \A n \in 1..N : BatchSize[ts[n]] \in Nat
    BY GroupCommitAssumption
  <2>2. f[0] = 0 /\ \A n \in 1..N : f[n] = f[n - 1] + BatchSize[ts[n]]
    BY <2>1 DEF Sums
  <2> HIDE DEF N
  <2>3. 0 \in S /\ \A n \in 1..N : n - 1 \in S => n \in S
    BY <2>1, <2>2
  <2> HIDE DEF S
  <2>4. N \in S
    BY <2>1, <2>3, UpTo, Zenon
  <2> QED
    BY <2>4, Zenon DEF S, N
\* A group has a size.
<1>TotalSizeIs.
    ASSUME NatWellOrdered, NEW ts \in Seq(Threads)
    PROVE  TotalSize(ts) \in Nat
  <2> USE <1>TotalSizeIs
  <2> DEFINE N == Len(ts)
             step == [n \in 1..N |-> [x \in Nat |-> x + BatchSize[ts[n]]]]
  <2>1. N \in Nat /\ \A n \in 1..N : BatchSize[ts[n]] \in Nat
    BY GroupCommitAssumption
  <2> HIDE DEF N
  <2>2. step \in [1..N -> [Nat -> Nat]] /\ 0 \in Nat
    BY <2>1
  <2>3. PICK f \in [0..N -> Nat] :
           f[0] = 0 /\ \A n \in 1..N : f[n] = step[n][f[n - 1]]
    <3> HIDE DEF step
    <3>1. \E f : Iterates(Nat, 0, N, step, f)
      BY <2>1, <2>2, Recursion, Zenon
    <3> QED
      BY <3>1, Zenon DEF Iterates
  <2>4. ASSUME NEW n \in 1..N
        PROVE  f[n] = f[n - 1] + BatchSize[ts[n]]
    <3>1. n - 1 \in 0..N
      BY <2>1
    <3>2. f[n - 1] \in Nat
      BY <3>1
    <3> QED
      BY <2>3, <3>2, Zenon
  <2>5. Sums(ts, f)
    <3>1. f = [n \in 0..N |-> f[n]]
      OBVIOUS
    <3>2. \A n \in 0..N : n = 0 \/ n \in 1..N
      BY <2>1
    <3>3. \A n \in 0..N : f[n] = IF n = 0 THEN 0 ELSE f[n - 1] + BatchSize[ts[n]]
      BY <2>3, <2>4, <3>2, Zenon
    <3> QED
      BY <3>1, <3>3, Zenon DEF Sums, N
  <2> DEFINE sum == CHOOSE g : Sums(ts, g)
  <2>6. Sums(ts, sum)
    BY <2>5, Zenon
  <2>7. TotalSize(ts) = sum[Len(ts)]
    BY DEF TotalSize, Sums
  <2> QED
    BY <2>6, <2>7, <1>SumsTo, Zenon
\* One more record adds its calls at the end and changes nothing before.
<1>ReplayAppend.
    ASSUME NatWellOrdered, NEW lg \in Seq(Record), NEW r \in Record
    PROVE  LET N == Len(lg)
           IN  /\ \A n \in 0..N : Replay(Append(lg, r))[n] = Replay(lg)[n]
               /\ Replay(Append(lg, r))[N + 1] =
                     Replay(lg)[N] \o IF r.ok THEN r.calls ELSE <<>>
  <2> USE <1>ReplayAppend
  <2> DEFINE N == Len(lg)
             more == Append(lg, r)
             F == Replay(lg)
             G == Replay(more)
             C(l, n) == IF l[n].ok THEN l[n].calls ELSE <<>>
             D == Threads \X Nat
             S == {n \in 0..N : G[n] = F[n]}
  <2>1. /\ N \in Nat /\ Len(more) = N + 1 /\ more[N + 1] = r
        /\ \A n \in 1..N : more[n] = lg[n]
    OBVIOUS
  <2>2. /\ \A n \in 1..N : lg[n].calls \in Seq(D)
        /\ \A n \in 1..(N + 1) : more[n].calls \in Seq(D)
    <3>1. more \in Seq(Record)
      OBVIOUS
    <3>2. \A x \in Record : x.calls \in Seq(D)
      BY DEF Record
    <3>3. /\ \A n \in 1..N : lg[n] \in Record
          /\ \A n \in 1..(N + 1) : more[n] \in Record
      BY <2>1, <3>1
    <3> HIDE DEF N, more, D
    <3> QED
      BY <3>2, <3>3, Zenon
  <2> HIDE DEF N, more, D
  <2>3. Replays(lg, F)
    BY <2>1, <2>2, ReplayIs, Zenon DEF N
  <2>4. Replays(more, G)
    <3>1. Len(more) \in Nat /\ \A n \in 1..Len(more) : more[n].calls \in Seq(D)
      BY <2>1, <2>2
    <3> QED
      BY <3>1, ReplayIs, Zenon
  <2> HIDE DEF F, G
  <2>5. F = [n \in 0..N |-> IF n = 0 THEN <<>> ELSE F[n - 1] \o C(lg, n)]
    BY <2>3, Zenon DEF Replays, N
  <2>6. G = [n \in 0..(N + 1) |-> IF n = 0 THEN <<>> ELSE G[n - 1] \o C(more, n)]
    BY <2>1, <2>4, Zenon DEF Replays
  <2>7. /\ 0 \in 0..N /\ 0 \in 0..(N + 1) /\ N \in 0..N /\ N + 1 \in 0..(N + 1)
        /\ N + 1 # 0 /\ (N + 1) - 1 = N
        /\ \A n \in 1..N : n \in 0..N /\ n \in 0..(N + 1) /\ n # 0 /\ n - 1 \in 0..N
    BY <2>1
  <2>8. F[0] = <<>> /\ \A n \in 1..N : F[n] = F[n - 1] \o C(lg, n)
    BY <2>5, <2>7, Zenon
  <2>9. /\ G[0] = <<>> /\ \A n \in 1..N : G[n] = G[n - 1] \o C(more, n)
        /\ G[N + 1] = G[N] \o C(more, N + 1)
    BY <2>6, <2>7, Zenon
  <2>10. \A n \in 1..N : C(more, n) = C(lg, n)
    BY <2>1, Zenon
  <2>11. C(more, N + 1) = IF r.ok THEN r.calls ELSE <<>>
    BY <2>1, Zenon
  <2> HIDE DEF C
  <2>12. 0 \in S /\ \A n \in 1..N : n - 1 \in S => n \in S
    BY <2>7, <2>8, <2>9, <2>10, Zenon
  <2> HIDE DEF S
  <2>13. \A n \in 0..N : n \in S
    BY <2>1, <2>12, UpTo, Zenon
  <2>14. \A n \in 0..N : G[n] = F[n]
    BY <2>13, Zenon DEF S
  <2> QED
    BY <2>7, <2>9, <2>11, <2>14, Zenon DEF N, F, G, more
<1>QuietDecided.
    ASSUME CInv, Quiet
    PROVE  Decided'
  <2>QuietPlaces.
      ASSUME Quiet, NEW u \in Threads
      PROVE  /\ WritesGroup(u)' <=> WritesGroup(u)
             /\ HasGroup(u)' <=> HasGroup(u)
             /\ pc'[u] = "append" <=> pc[u] = "append"
             /\ pc'[u] = "sync" <=> pc[u] = "sync"
             /\ pc'[u] = "insert" <=> pc[u] = "insert"
             /\ pc'[u] = "retire" <=> pc[u] = "retire"
             /\ pc'[u] # "idle" => pc[u] # "idle"
             /\ pc'[u] = "wait" /\ self'[u].done =>
                   /\ pc[u] = "wait" /\ self[u].done
                   /\ self'[u].status = self[u].status
             /\ self'[u].sync = self[u].sync
    BY <2>QuietPlaces DEF Quiet, Stays, Moves, WritesGroup, HasGroup
  <2> USE <1>QuietDecided
  <2>1. Phases /\ Made /\ Outcomes /\ LogState /\ Counted /\ Synced
    BY Zenon DEF CInv
  <2>2. /\ UNCHANGED <<writers_, group, calls, log, applied, failed, answered,
                       last_sequence_>>
        /\ durable \subseteq durable' /\ durable' \subseteq durable \cup DOMAIN log
        /\ bg_error_ => bg_error_'
    BY Zenon DEF Quiet
  <2>3. \A u \in Threads : Call(u)' = Call(u)
    BY <2>2, Zenon DEF Call
  <2>4. Phases'
    BY <2>1, <2>2, <2>QuietPlaces, Zenon DEF Phases, NoGroup
  <2>5. Made'
    <3>1. Answered' = Answered /\ Range(applied') = Range(applied) /\ failed' = failed
          /\ calls' = calls
      BY <2>2 DEF Answered
    <3> QED
      BY <2>1, <2>3, <3>1, <2>QuietPlaces, Zenon DEF Made
  <2>6. Outcomes'
    <3>1. ASSUME NEW u \in Threads, pc'[u] = "wait", self'[u].done
          PROVE  Call(u)' \in IF self'[u].status = "ok" THEN Range(applied') ELSE failed'
      <4>1. pc[u] = "wait" /\ self[u].done /\ self'[u].status = self[u].status
        BY <3>1, <2>QuietPlaces, Zenon
      <4> QED
        BY <2>1, <2>2, <2>3, <4>1, Zenon DEF Outcomes
    <3>2. ASSUME NEW u \in Threads, pc'[u] = "retire", NEW v \in Range(group'.members)
          PROVE  Call(v)' \in IF group'.status = "ok" THEN Range(applied') ELSE failed'
      <4>1. pc[u] = "retire" /\ group' = group /\ applied' = applied /\ failed' = failed
        BY <2>2, <3>2, <2>QuietPlaces, Zenon
      <4>2. Call(v)' = Call(v)
        BY <2>2, Zenon DEF Call
      <4> QED
        BY <2>1, <3>2, <4>1, <4>2, Zenon DEF Outcomes
    <3> QED
      BY <3>1, <3>2, Zenon DEF Outcomes
  <2>7. LogState'
    <3>1. LogAgreesWithMemory' /\ (log \in Seq(Record))'
      BY <2>1, <2>2 DEF LogState, LogAgreesWithMemory
    <3>2. (Clean' <=> Clean) /\ (Logged' <=> Logged)
      <4>1. CallsOf(group.members)' = CallsOf(group.members)
        BY <2>2, Zenon DEF CallsOf, Call
      <4> QED
        BY <2>2, <4>1 DEF Clean, Logged
    <3> QED
      BY <2>1, <2>2, <3>1, <3>2, <2>QuietPlaces, Zenon DEF LogState
  <2>8. Counted'
    <3>1. SequencesFollowLog' /\ NextBase' = NextBase
          /\ TotalSize(group.members)' = TotalSize(group.members)
      BY <2>1, <2>2, ZenonT(40) DEF Counted, SequencesFollowLog, NextBase, TotalSize
    <3> QED
      BY <2>1, <2>2, <3>1, <2>QuietPlaces, Zenon DEF Counted
  <2>9. Synced'
    <3> USE DEF Synced
    <3>1. durable' \subseteq DOMAIN log'
      BY <2>1, <2>2, Zenon
    <3>2. \A c : OnDevice(c) => OnDevice(c)'
      BY <2>2, Zenon DEF OnDevice
    <3>3. \A u \in Threads : WantsSync(u)' <=> WantsSync(u)
      BY <2>QuietPlaces, ZenonT(40) DEF WantsSync
    <3>4. /\ logStart' \in 0..Len(log')
          /\ \A u \in Threads : pc'[u] = "sync" => logStart' < Len(log')
      <4>1. /\ log \in Seq(Record) /\ logStart \in 0..Len(log)
            /\ \A u \in Threads : pc[u] = "sync" => logStart < Len(log)
        BY <2>1, Zenon DEF LogState, Synced
      <4>2. /\ log' = log
            /\ \/ logStart' = logStart
               \/ logStart' = Len(log) /\ \A u \in Threads : pc[u] # "sync"
        BY Zenon DEF Quiet
      <4>3. \A u \in Threads : pc'[u] = "sync" => pc[u] = "sync"
        BY <2>QuietPlaces, Zenon
      <4>4. Len(log) \in Nat
        BY ONLY <4>1
      <4> QED
        BY ONLY <4>1, <4>2, <4>3, <4>4
    <3>5. SyncHonoured'
      BY <2>1, <2>2, <3>2, Zenon DEF SyncHonoured, OnDevice
    <3>6. ASSUME NEW u \in Threads,
                 WritesGroup(u)' \/ (pc'[u] = "retire" /\ group'.status = "ok"),
                 NEW v \in Range(group'.members), WantsSync(v)'
          PROVE  group'.sync
      <4>1. WantsSync(v)
        <5>1. HasGroup(u)
          BY <3>6, <2>QuietPlaces, Zenon DEF WritesGroup, HasGroup
        <5>2. v \in Threads
          BY <2>2, <3>6, <5>1, MembersAreThreads, Zenon DEF CInv, KInv
        <5> QED
          BY <3>3, <3>6, <5>2, Zenon
      <4> QED
        BY <2>1, <2>2, <3>6, <4>1, <2>QuietPlaces, Zenon
    <3>7. ASSUME NEW u \in Threads, pc'[u] = "insert", group'.sync
          PROVE  Len(log') \in durable'
      BY <2>1, <2>2, <3>7, <2>QuietPlaces, Zenon
    <3>8. ASSUME NEW u \in Threads, pc'[u] = "retire", group'.status = "ok", group'.sync,
                 NEW v \in Range(group'.members)
          PROVE  OnDevice(Call(v))'
      <4>1. OnDevice(Call(v)) /\ Call(v)' = Call(v)
        BY <2>1, <2>2, <3>8, <2>QuietPlaces, Zenon DEF Call
      <4> QED
        BY <2>2, <4>1, Zenon DEF OnDevice
    <3>9. ASSUME NEW u \in Threads, pc'[u] = "wait", self'[u].done,
                 self'[u].status = "ok", WantsSync(u)'
          PROVE  OnDevice(Call(u))'
      <4>1. pc[u] = "wait" /\ self[u].done /\ self[u].status = "ok" /\ WantsSync(u)
        BY <3>3, <3>9, <2>QuietPlaces, Zenon
      <4>2. OnDevice(Call(u)) /\ Call(u)' = Call(u)
        BY <2>1, <2>3, <4>1, Zenon
      <4> QED
        BY <2>2, <4>2, Zenon DEF OnDevice
    <3> QED
      BY <3>1, <3>4, <3>5, <3>6, <3>7, <3>8, <3>9, Zenon
  <2> QED
    BY <2>4, <2>5, <2>6, <2>7, <2>8, <2>9, Zenon DEF Decided
\* A leader that goes on is the only thread that has, or gets, a group.
<1>OnlyLeader.
    ASSUME LInv, NEW t \in Threads, Leads(t), NEW at, pc' = [pc EXCEPT ![t] = at]
    PROVE  /\ pc'[t] = at
           /\ \A u \in Threads \ {t} :
                 pc'[u] = pc[u] /\ ~HasGroup(u) /\ ~HasGroup(u)'
  <2> USE <1>OnlyLeader
  <2>1. pc'[t] = at /\ \A u \in Threads \ {t} : pc'[u] = pc[u]
    BY DEF LInv, Fields
  <2>2. \A u \in Threads \ {t} : ~HasGroup(u)
    BY LeaderAlone, GroupOfLeader, Zenon
  <2> QED
    BY <2>1, <2>2, Zenon DEF HasGroup
\* The calls of two threads differ.
<1>CallsDiffer.
    ASSUME NEW t, NEW u, t # u
    PROVE  Call(t) # Call(u)
  BY <1>CallsDiffer DEF Call
\* A new call, of Write or of FlushMemTable and the like.
<1>CallDecided.
    ASSUME CInv, NEW t \in Threads, NEW at \in {"lead", "wait", "flush", "waitbg"},
           NEW w, ~w.done,
           pc[t] = "idle", calls[t] < MaxCalls,
           calls' = [calls EXCEPT ![t] = @ + 1],
           pc' = [pc EXCEPT ![t] = at], self' = [self EXCEPT ![t] = w],
           UNCHANGED <<group, log, logStart, durable, applied, failed, answered,
                       last_sequence_, bg_error_>>
    PROVE  Decided'
  <2> USE <1>CallDecided
  <2>1. /\ Phases /\ Made /\ Outcomes /\ LogState /\ Counted /\ Synced
        /\ KInv /\ LInv
    BY Zenon DEF CInv, KInv
  <2>2. /\ DOMAIN pc = Threads /\ DOMAIN self = Threads /\ calls \in [Threads -> 0..MaxCalls]
    BY <2>1, Zenon DEF LInv, Fields, Made
  <2>3. /\ pc'[t] = at /\ self'[t] = w
        /\ \A u \in Threads \ {t} : pc'[u] = pc[u] /\ self'[u] = self[u]
    BY <2>2
  <2>4. /\ calls' \in [Threads -> 0..MaxCalls] /\ calls'[t] = calls[t] + 1
        /\ \A u \in Threads \ {t} : calls'[u] = calls[u]
        /\ \A u \in Threads : calls[u] <= calls'[u]
        /\ calls[t] + 1 >= 1
    BY <2>2, GroupCommitAssumption
  <2>5. \A u \in Threads \ {t} : Call(u)' = Call(u)
    BY <2>4, Zenon DEF Call
  <2>6. \A u \in Threads : /\ HasGroup(u)' <=> HasGroup(u)
                           /\ WritesGroup(u)' <=> WritesGroup(u)
    BY <2>3 DEF HasGroup, WritesGroup
  <2>7. \A u \in Threads : HasGroup(u) => u # t /\ pc'[u] = pc[u]
    BY <2>3 DEF HasGroup
  <2>8. ASSUME NEW u \in Threads, HasGroup(u), NEW v \in Range(group.members)
        PROVE  v \in Threads \ {t} /\ Call(v)' = Call(v)
    BY <2>1, <2>5, <2>8, CallsOfGroup, Zenon
  <2>9. \A u \in Threads : pc'[u] = "wait" /\ self'[u].done => u # t
    BY <2>3, Zenon
  <2>10. Phases'
    BY <2>1, <2>6, <2>7, Zenon DEF Phases, HasGroup, WritesGroup
  <2>11. Made'
    <3>1. Answered' = Answered /\ Range(applied') = Range(applied) /\ failed' = failed
      BY Zenon DEF Answered
    <3>2. Call(t)' \notin Answered
      <4>1. Call(t)'[1] = t /\ Call(t)'[2] = calls[t] + 1 /\ ~(calls[t] + 1 <= calls[t])
        BY <2>2, <2>4 DEF Call
      <4> QED
        BY <2>1, <4>1, Zenon DEF Made
    <3>3. \A c \in Calls : c[2] <= calls[c[1]] => c[2] <= calls'[c[1]]
      BY <2>2, <2>4 DEF Calls
    <3>4. \A u \in Threads : pc'[u] # "idle" =>
             calls'[u] >= 1 /\ Call(u)' \notin Answered
      BY <2>1, <2>3, <2>4, <2>5, <3>2, Zenon DEF Made
    <3> QED
      BY <2>1, <2>4, <3>1, <3>3, <3>4, Zenon DEF Made
  <2>12. Outcomes'
    <3>1. ASSUME NEW u \in Threads, pc'[u] = "wait", self'[u].done
          PROVE  Call(u)' \in IF self'[u].status = "ok" THEN Range(applied') ELSE failed'
      BY <2>1, <2>3, <2>5, <2>9, <3>1, ZenonT(30) DEF Outcomes
    <3>2. ASSUME NEW u \in Threads, pc'[u] = "retire", NEW v \in Range(group'.members)
          PROVE  Call(v)' \in IF group'.status = "ok" THEN Range(applied') ELSE failed'
      BY <2>1, <2>6, <2>7, <2>8, <3>2, Zenon DEF Outcomes, HasGroup
    <3> QED
      BY <3>1, <3>2, Zenon DEF Outcomes
  <2>13. LogState'
    <3>1. LogAgreesWithMemory' /\ (log \in Seq(Record))'
      BY <2>1 DEF LogState, LogAgreesWithMemory
    <3>2. Clean' <=> Clean
      BY DEF Clean
    <3>3. ASSUME NEW u \in Threads, HasGroup(u)
          PROVE  CallsOf(group.members)' = CallsOf(group.members)
      <4>1. group.members \in Seq(Threads)
        BY <2>1, <3>3, CallsOfGroup, Zenon
      <4>2. \A i \in DOMAIN group.members : Call(group.members[i])' = Call(group.members[i])
        BY <2>8, <3>3, Zenon DEF Range
      <4> QED
        BY <4>2, Zenon DEF CallsOf
    <3>4. ASSUME NEW u \in Threads, HasGroup(u), Logged
          PROVE  Logged'
      BY <3>3, <3>4 DEF Logged
    <3>5. \A u \in Threads : /\ pc'[u] = "append" <=> pc[u] = "append"
                             /\ pc'[u] = "sync" <=> pc[u] = "sync"
                             /\ pc'[u] = "insert" <=> pc[u] = "insert"
                             /\ pc'[u] = "retire" <=> pc[u] = "retire"
      BY <2>3
    <3> QED
      BY <2>1, <3>1, <3>2, <3>4, <3>5, Zenon DEF LogState, HasGroup
  <2>14. Counted'
    <3>1. SequencesFollowLog' /\ NextBase' = NextBase
          /\ TotalSize(group.members)' = TotalSize(group.members)
      BY <2>1, ZenonT(40) DEF Counted, SequencesFollowLog, NextBase, TotalSize
    <3>2. \A u \in Threads : pc'[u] = "append" <=> pc[u] = "append"
      BY <2>3
    <3> QED
      BY <2>1, <3>1, <3>2, Zenon DEF Counted
  <2>15. Synced'
    <3> USE DEF Synced
    <3>1. \A c : OnDevice(c)' <=> OnDevice(c)
      BY Zenon DEF OnDevice
    <3>2. \A u \in Threads \ {t} : WantsSync(u)' <=> WantsSync(u)
      BY <2>3, Zenon DEF WantsSync
    <3>3. SyncHonoured'
      BY <2>1, Zenon DEF SyncHonoured
    <3>4. ASSUME NEW u \in Threads,
                 WritesGroup(u)' \/ (pc'[u] = "retire" /\ group'.status = "ok"),
                 NEW v \in Range(group'.members), WantsSync(v)'
          PROVE  group'.sync
      <4>1. HasGroup(u) /\ pc'[u] = pc[u]
        BY <2>6, <2>7, <3>4, Zenon DEF HasGroup, WritesGroup
      <4>2. WantsSync(v)
        BY <2>8, <3>2, <3>4, <4>1, Zenon
      <4> QED
        BY <2>1, <2>6, <3>4, <4>1, <4>2, Zenon
    <3>5. ASSUME NEW u \in Threads, pc'[u] = "retire", group'.status = "ok", group'.sync,
                 NEW v \in Range(group'.members)
          PROVE  OnDevice(Call(v))'
      <4>1. HasGroup(u) /\ pc[u] = "retire"
        BY <2>6, <2>7, <3>5, Zenon DEF HasGroup
      <4>2. OnDevice(Call(v)) /\ Call(v)' = Call(v)
        BY <2>1, <2>8, <3>5, <4>1, Zenon
      <4> QED
        BY <4>2, Zenon DEF OnDevice
    <3>6. ASSUME NEW u \in Threads, pc'[u] = "wait", self'[u].done,
                 self'[u].status = "ok", WantsSync(u)'
          PROVE  OnDevice(Call(u))'
      <4>1. OnDevice(Call(u)) /\ Call(u)' = Call(u)
        BY <2>1, <2>3, <2>5, <2>9, <3>2, <3>6, Zenon
      <4> QED
        BY <4>1, Zenon DEF OnDevice
    <3>7. \A u \in Threads : /\ pc'[u] = "sync" => pc[u] = "sync"
                             /\ pc'[u] = "insert" => pc[u] = "insert"
      BY <2>3
    <3> QED
      BY <2>1, <3>3, <3>4, <3>5, <3>6, <3>7, Zenon
  <2> QED
    BY <2>10, <2>11, <2>12, <2>13, <2>14, <2>15, Zenon DEF Decided
<1>WriteDecided.
    ASSUME CInv, NEW t \in Threads, NEW sync \in BOOLEAN, Write(t, sync)
    PROVE  Decided'
  <2> USE <1>WriteDecided
  <2>1. /\ pc[t] = "idle" /\ calls[t] < MaxCalls /\ calls' = [calls EXCEPT ![t] = @ + 1]
        /\ self' = [self EXCEPT ![t] = [NoWriter EXCEPT !.sync = sync]]
        /\ \E at \in {"lead", "wait"} : pc' = [pc EXCEPT ![t] = at]
        /\ UNCHANGED <<group, log, logStart, durable, applied, failed, answered,
                       last_sequence_, bg_error_>>
    BY Zenon DEF Write, Calling, memVars, clockVars, bgVars
  <2>2. PICK w : w = [NoWriter EXCEPT !.sync = sync]
    BY Zenon
  <2>3. ~w.done
    BY <2>2 DEF NoWriter
  <2>4. PICK at \in {"lead", "wait"} : pc' = [pc EXCEPT ![t] = at]
    BY <2>1, Zenon
  <2>5. at \in {"lead", "wait", "flush", "waitbg"}
    BY <2>4
  <2> QED
    BY <2>1, <2>2, <2>3, <2>4, <2>5, <1>CallDecided, Zenon
<1>CallMaintenanceDecided.
    ASSUME CInv, NEW t \in Threads, CallMaintenance(t)
    PROVE  Decided'
  <2> USE <1>CallMaintenanceDecided
  <2>1. /\ pc[t] = "idle" /\ calls[t] < MaxCalls /\ calls' = [calls EXCEPT ![t] = @ + 1]
        /\ \E at \in {"flush", "waitbg"}, waits \in 0..1 :
              /\ pc' = [pc EXCEPT ![t] = at]
              /\ self' = [self EXCEPT ![t] = [NoWriter EXCEPT !.waits = waits]]
        /\ UNCHANGED <<group, log, logStart, durable, applied, failed, answered,
                       last_sequence_, bg_error_>>
    BY Zenon DEF CallMaintenance, Calling, Goto, memVars, clockVars, bgVars
  <2>2. PICK at \in {"flush", "waitbg"}, waits \in 0..1 :
              /\ pc' = [pc EXCEPT ![t] = at]
              /\ self' = [self EXCEPT ![t] = [NoWriter EXCEPT !.waits = waits]]
    BY <2>1, Zenon
  <2>3. PICK w : w = [NoWriter EXCEPT !.waits = waits]
    BY Zenon
  <2>4. ~w.done
    BY <2>3 DEF NoWriter
  <2>5. at \in {"lead", "wait", "flush", "waitbg"}
    BY <2>2
  <2> QED
    BY <2>1, <2>2, <2>3, <2>4, <2>5, <1>CallDecided, Zenon
\* A call that returns, with the outcome that it was told of.
<1>AnswerMade.
    ASSUME Made, NEW t \in Threads, pc[t] # "idle", NEW status,
           pc' = [pc EXCEPT ![t] = "idle"], DOMAIN pc = Threads,
           answered' = answered \cup {Answer(t, status)},
           UNCHANGED <<calls, applied, failed>>
    PROVE  Made' /\ Answered' = Answered \cup {Call(t)}
  <2> USE <1>AnswerMade
  <2>1. Answer(t, status).call = Call(t)
    BY DEF Answer
  <2>2. Answered' = Answered \cup {Call(t)}
    BY <2>1, Zenon DEF Answered
  <2>3. \A u \in Threads : Call(u)' = Call(u)
    BY Zenon DEF Call
  <2>4. \A u \in Threads : pc'[u] # "idle" => u # t /\ pc[u] # "idle"
    BY Zenon
  <2>5. \A u \in Threads : pc'[u] # "idle" => Call(u)' \notin Answered'
    BY <2>2, <2>3, <2>4, <1>CallsDiffer, Zenon DEF Made
  <2>6. Call(t) \in Calls /\ Call(t)[2] <= calls[Call(t)[1]]
    BY CallMade, Zenon
  <2>7. Range(applied') = Range(applied)
    BY Zenon
  <2> QED
    BY <2>2, <2>4, <2>5, <2>6, <2>7, ZenonT(40) DEF Made
\* What was answered before stays; the new answer has its record on the device.
<1>AnswerSynced.
    ASSUME SyncHonoured, NEW t \in Threads, NEW status,
           status = "ok" /\ WantsSync(t) => OnDevice(Call(t)),
           answered' = answered \cup {Answer(t, status)},
           UNCHANGED <<durable, log>>
    PROVE  SyncHonoured'
  <2> USE <1>AnswerSynced
  <2>1. /\ Answer(t, status).call = Call(t)
        /\ Answer(t, status).ok <=> status = "ok"
        /\ Answer(t, status).sync = self[t].sync
    BY Zenon DEF Answer
  <2> QED
    BY <2>1, Zenon DEF SyncHonoured, WantsSync, OnDevice
<1>WakeDoneDecided.
    ASSUME CInv, NEW t \in Threads, WakeDone(t)
    PROVE  Decided'
  <2> USE <1>WakeDoneDecided
  <2>1. /\ Phases /\ Made /\ Outcomes /\ LogState /\ Counted /\ Synced
        /\ KInv /\ LInv
    BY Zenon DEF CInv, KInv
  <2>2. /\ pc[t] = "wait" /\ self[t].done
        /\ pc' = [pc EXCEPT ![t] = "idle"]
        /\ answered' = answered \cup {Answer(t, self[t].status)}
        /\ UNCHANGED <<self, group, calls, log, logStart, durable, applied, failed,
                       last_sequence_, bg_error_>>
    BY Zenon DEF WakeDone, memVars, clockVars, bgVars
  <2>3. DOMAIN pc = Threads
    BY <2>1, Zenon DEF LInv, Fields
  <2>4. pc'[t] = "idle" /\ \A u \in Threads \ {t} : pc'[u] = pc[u]
    BY <2>2, <2>3
  <2>5. \A u \in Threads : /\ HasGroup(u)' <=> HasGroup(u)
                           /\ WritesGroup(u)' <=> WritesGroup(u)
                           /\ pc'[u] = "append" <=> pc[u] = "append"
                           /\ pc'[u] = "sync" <=> pc[u] = "sync"
                           /\ pc'[u] = "insert" <=> pc[u] = "insert"
                           /\ pc'[u] = "retire" <=> pc[u] = "retire"
                           /\ pc'[u] = "wait" => pc[u] = "wait"
    BY <2>2, <2>4 DEF HasGroup, WritesGroup
  <2>6. \A u : Call(u)' = Call(u)
    BY <2>2, Zenon DEF Call
  <2>7. Phases'
    BY <2>1, <2>2, <2>5, Zenon DEF Phases
  <2>8. Made'
    BY <2>1, <2>2, <2>3, <1>AnswerMade, Zenon
  <2>9. Outcomes'
    BY <2>1, <2>2, <2>5, <2>6, Zenon DEF Outcomes
  <2>10. LogState'
    <3>1. LogAgreesWithMemory' /\ (log \in Seq(Record))'
      BY <2>1, <2>2 DEF LogState, LogAgreesWithMemory
    <3>2. CallsOf(group.members)' = CallsOf(group.members)
      BY <2>2, <2>6, Zenon DEF CallsOf
    <3>3. (Clean' <=> Clean) /\ (Logged' <=> Logged)
      BY <2>2, <3>2 DEF Clean, Logged
    <3> QED
      BY <2>1, <2>2, <2>5, <3>1, <3>3, Zenon DEF LogState
  <2>11. Counted'
    <3>1. SequencesFollowLog' /\ NextBase' = NextBase
          /\ TotalSize(group.members)' = TotalSize(group.members)
      BY <2>1, <2>2, ZenonT(30) DEF Counted, SequencesFollowLog, NextBase, TotalSize
    <3> QED
      BY <2>1, <2>2, <2>5, <3>1, Zenon DEF Counted
  <2>12. Synced'
    <3> USE DEF Synced
    <3>1. \A c : OnDevice(c)' <=> OnDevice(c)
      BY <2>2, Zenon DEF OnDevice
    <3>2. \A u : OnDevice(Call(u)) => OnDevice(Call(u))'
      BY <2>2, <2>6, Zenon DEF OnDevice
    <3>3. \A u : WantsSync(u)' <=> WantsSync(u)
      BY <2>2, Zenon DEF WantsSync
    <3>4. SyncHonoured'
      BY <2>1, <2>2, <1>AnswerSynced, Zenon
    <3>5. durable' \subseteq DOMAIN log' /\ logStart' \in 0..Len(log')
      BY <2>1, <2>2, Zenon
    <3> QED
      BY <2>1, <2>2, <2>5, <3>2, <3>3, <3>4, <3>5, Zenon
  <2> QED
    BY <2>7, <2>8, <2>9, <2>10, <2>11, <2>12, Zenon DEF Decided
\* The group is retired: its members are told, and an error is latched.
<1>RetireDecided.
    ASSUME CInv, NEW t \in Threads, Retire(t)
    PROVE  Decided'
  <2> USE <1>RetireDecided
  <2>1. /\ Phases /\ Made /\ Outcomes /\ LogState /\ Counted /\ Synced
        /\ KInv /\ LInv
    BY Zenon DEF CInv, KInv
  <2>2. /\ pc[t] = "retire"
        /\ pc' = [pc EXCEPT ![t] = "idle"] /\ group' = NoGroup
        /\ answered' = answered \cup {Answer(t, group.status)}
        /\ self' = [u \in Threads |->
                      IF u \in Range(group.members) \ {t}
                      THEN [self[u] EXCEPT !.done = TRUE, !.status = group.status]
                      ELSE self[u]]
        /\ bg_error_' = (bg_error_ \/ (group.status = "err" /\ group.base # 0))
        /\ UNCHANGED <<calls, log, logStart, durable, applied, failed, last_sequence_>>
    BY Zenon DEF Retire, Finished, Latched
  <2>3. DOMAIN pc = Threads /\ Leads(t) /\ HasGroup(t)
    BY <2>1, <2>2, Zenon DEF LInv, Fields, Leads, HasGroup
  <2>4. /\ pc'[t] = "idle"
        /\ \A u \in Threads \ {t} : pc'[u] = pc[u] /\ ~HasGroup(u) /\ ~HasGroup(u)'
    BY <2>1, <2>2, <2>3, <1>OnlyLeader, Zenon
  <2>5. \A u \in Threads : /\ ~HasGroup(u)' /\ ~WritesGroup(u)'
                           /\ pc'[u] \notin {"append", "sync", "insert", "retire"}
    BY <2>4 DEF HasGroup, WritesGroup
  <2>6. \A u : Call(u)' = Call(u)
    BY <2>2, ZenonT(30) DEF Call
  <2>7. \A u \in Threads :
           /\ self'[u].sync = self[u].sync
           /\ \/ self'[u] = self[u]
              \/ u \in Range(group.members) /\ self'[u].status = group.status
    <3>1. \A u \in Threads : DOMAIN self[u] = WriterFields
      BY <2>1, Zenon DEF LInv, Fields
    <3> QED
      BY <2>2, <3>1, Zenon DEF WriterFields
  <2>8. group.status \in {"ok", "err"} /\ t \in Range(group.members)
    BY <2>1, <2>2, <2>3, CallsOfGroup, Zenon DEF Phases
  <2>9. \A u \in Range(group.members) :
           Call(u) \in IF group.status = "ok" THEN Range(applied) ELSE failed
    BY <2>1, <2>2, Zenon DEF Outcomes
  <2>10. Phases'
    BY <2>2, <2>5, ZenonT(30) DEF Phases, HasGroup, NoGroup
  <2>11. Made'
    BY <2>1, <2>2, <2>3, <1>AnswerMade, Zenon
  <2>12. Outcomes'
    <3>1. ASSUME NEW u \in Threads, pc'[u] = "wait", self'[u].done
          PROVE  Call(u)' \in IF self'[u].status = "ok" THEN Range(applied') ELSE failed'
      <4>1. pc[u] = "wait"
        BY <2>4, <3>1
      <4>2. CASE self'[u] = self[u]
        BY <2>1, <2>2, <2>6, <3>1, <4>1, <4>2, Zenon DEF Outcomes
      <4>3. CASE u \in Range(group.members) /\ self'[u].status = group.status
        BY <2>2, <2>6, <2>9, <4>3, Zenon
      <4> QED
        BY <2>7, <4>2, <4>3, Zenon
    <3> QED
      BY Zenon, <2>5, <3>1 DEF Outcomes
  <2>13. LogState'
    <3>1. LogAgreesWithMemory' /\ (log \in Seq(Record))'
      BY <2>1, <2>2, ZenonT(30) DEF LogState, LogAgreesWithMemory
    <3>2. Clean' <=> Clean
      BY <2>2, Zenon DEF Clean
    <3>3. Clean \/ bg_error_'
      <4>1. \A u \in Threads : pc[u] \notin {"sync", "insert"}
        BY <2>2, <2>4, Zenon DEF HasGroup
      <4>2. Clean \/ bg_error_ \/ (group.status = "err" /\ group.base # 0)
        BY <2>1, <4>1, ZenonT(30) DEF LogState
      <4> QED
        BY <2>2, <4>2, ZenonT(30)
    <3> QED
      BY <2>5, <3>1, <3>2, <3>3 DEF LogState
  <2>14. Counted'
    <3>1. SequencesFollowLog' /\ NextBase' = NextBase /\ NextBase = last_sequence_ + 1
      <4>1. \A u \in Threads : pc[u] # "append"
        BY <2>2, <2>4, Zenon DEF HasGroup
      <4> QED
        BY <2>1, <2>2, <4>1, Zenon DEF Counted, SequencesFollowLog, NextBase
    <3> QED
      BY <2>1, <2>2, <2>5, <3>1, Zenon DEF Counted
  <2>15. Synced'
    <3> USE DEF Synced
    <3>1. \A u : OnDevice(Call(u)) => OnDevice(Call(u))'
      BY <2>2, <2>6, Zenon DEF OnDevice
    <3>2. ASSUME NEW u \in Range(group.members), u \in Threads, group.status = "ok",
                 WantsSync(u)
          PROVE  OnDevice(Call(u))
      <4>1. group.sync
        BY <2>1, <2>2, <3>2, Zenon
      <4> QED
        BY <2>1, <2>2, <3>2, <4>1, Zenon
    <3>3. SyncHonoured'
      BY <2>1, <2>2, <2>8, <3>2, <1>AnswerSynced, Zenon
    <3>4. ASSUME NEW u \in Threads, pc'[u] = "wait", self'[u].done,
                 self'[u].status = "ok", WantsSync(u)'
          PROVE  OnDevice(Call(u))'
      <4>1. pc[u] = "wait" /\ WantsSync(u)
        BY Zenon, <2>4, <2>7, <3>4 DEF WantsSync
      <4>2. CASE self'[u] = self[u]
        BY <2>1, <3>1, <3>4, <4>1, <4>2, Zenon
      <4>3. CASE u \in Range(group.members) /\ self'[u].status = group.status
        BY <3>1, <3>2, <3>4, <4>1, <4>3, Zenon
      <4> QED
        BY <2>7, <4>2, <4>3, Zenon
    <3>5. durable' \subseteq DOMAIN log' /\ logStart' \in 0..Len(log')
      BY <2>1, <2>2, Zenon
    <3> QED
      BY Zenon, <2>5, <3>3, <3>4, <3>5
  <2> QED
    BY <2>10, <2>11, <2>12, <2>13, <2>14, <2>15, Zenon DEF Decided
\* A step of the leader that answers nobody: the calls it decides are calls
\* that were made.
<1>LeaderGoesOn.
    ASSUME CInv, NEW t \in Threads, Leads(t), pc[t] # "idle",
           NEW at \in {"append", "sync", "insert", "retire"},
           pc' = [pc EXCEPT ![t] = at],
           UNCHANGED <<self, calls, answered>>,
           Range(applied) \subseteq Range(applied'), failed \subseteq failed',
           \A c \in Range(applied') \cup failed' :
              \/ c \in Range(applied) \cup failed
              \/ \E u \in Threads : pc[u] # "idle" /\ c = Call(u),
           durable \subseteq durable', durable \subseteq DOMAIN log,
           \A i \in DOMAIN log : log'[i] = log[i]
    PROVE  ToldStays
  <2> USE <1>LeaderGoesOn
  <2>1. Made /\ Outcomes /\ Synced /\ LInv
    BY Zenon DEF CInv, KInv
  <2>2. /\ pc'[t] = at
        /\ \A u \in Threads \ {t} : pc'[u] = pc[u]
    BY <2>1, <1>OnlyLeader, Zenon
  <2>3. \A u : Call(u)' = Call(u)
    BY Zenon DEF Call
  <2>4. \A u : WantsSync(u)' <=> WantsSync(u)
    BY Zenon DEF WantsSync
  <2>5. \A c : OnDevice(c) => OnDevice(c)'
    BY ZenonT(40) DEF OnDevice
  <2>6. \A u \in Threads : /\ pc'[u] = "wait" => pc[u] = "wait"
                           /\ pc'[u] # "idle" => pc[u] # "idle"
    BY Zenon, <2>2
  <2>7. Made'
    <3>1. Answered' = Answered
      BY Zenon DEF Answered
    <3>2. ASSUME NEW c \in Range(applied') \cup failed' \cup Answered'
          PROVE  c \in Calls /\ c[2] <= calls'[c[1]]
      <4>1. CASE c \in Range(applied) \cup failed \cup Answered
        BY <2>1, <4>1, Zenon DEF Made
      <4>2. CASE \E u \in Threads : pc[u] # "idle" /\ c = Call(u)
        BY <2>1, <4>2, CallMade, Zenon
      <4> QED
        BY <3>1, <3>2, <4>1, <4>2, Zenon
    <3>3. ASSUME NEW u \in Threads, pc'[u] # "idle"
          PROVE  calls'[u] >= 1 /\ Call(u)' \notin Answered'
      BY <2>1, <2>3, <2>6, <3>1, <3>3, Zenon DEF Made
    <3>4. calls' \in [Threads -> 0..MaxCalls]
      BY <2>1, Zenon DEF Made
    <3> QED
      BY <3>2, <3>3, <3>4, Zenon DEF Made
  <2>8. ASSUME NEW u \in Threads, pc'[u] = "wait", self'[u].done
        PROVE  Call(u)' \in IF self'[u].status = "ok" THEN Range(applied') ELSE failed'
    <3>1. Call(u) \in IF self[u].status = "ok" THEN Range(applied) ELSE failed
      BY <2>1, <2>6, <2>8, Zenon DEF Outcomes
    <3> QED
      BY <2>3, <3>1, Zenon
  <2>9. ASSUME NEW u \in Threads, pc'[u] = "wait", self'[u].done, self'[u].status = "ok",
               WantsSync(u)'
        PROVE  OnDevice(Call(u))'
    <3>1. OnDevice(Call(u))
      BY <2>1, <2>4, <2>6, <2>9, Zenon DEF Synced
    <3> QED
      BY <2>3, <3>1, Zenon DEF OnDevice
  <2>10. SyncHonoured'
    <3>1. \A a \in answered :
             (a.ok /\ (a.sync \/ SyncPolicy = "kEveryWrite")) => OnDevice(a.call)
      BY <2>1, Zenon DEF Synced, SyncHonoured, OnDevice
    <3> QED
      BY <2>5, <3>1, Zenon DEF SyncHonoured, OnDevice
  <2> QED
    BY <2>3, <2>4, <2>5, <2>7, <2>8, <2>9, <2>10, Zenon DEF ToldStays
\* Without a group the leader that fails decides its own call only.
<1>LeadFailsDecided.
    ASSUME CInv, NEW t \in Threads, LeadFails(t)
    PROVE  Decided'
  <2> USE <1>LeadFailsDecided
  <2>1. /\ Phases /\ Made /\ Outcomes /\ LogState /\ Counted /\ Synced
        /\ KInv /\ LInv
    BY Zenon DEF CInv, KInv
  <2>2. /\ pc[t] = "lead" /\ pc' = [pc EXCEPT ![t] = "retire"]
        /\ group' = [NoGroup EXCEPT !.members = <<t>>, !.status = "err"]
        /\ failed' = failed \cup {Call(t)}
        /\ UNCHANGED <<self, calls, answered, log, logStart, durable, applied,
                       last_sequence_, bg_error_>>
    BY Zenon DEF LeadFails, memVars, clockVars, bgVars
  <2>3. Leads(t) /\ pc[t] # "idle"
    BY <2>2, Zenon DEF Leads
  <2>4. /\ pc'[t] = "retire"
        /\ \A u \in Threads \ {t} : pc'[u] = pc[u] /\ ~HasGroup(u) /\ ~HasGroup(u)'
    BY <2>1, <2>2, <2>3, <1>OnlyLeader, Zenon
  <2>5. group'.members = <<t>> /\ group'.status = "err"
    BY <2>2 DEF NoGroup
  <2>6. /\ \A u \in Threads : pc[u] \notin {"append", "sync", "insert", "retire"}
        /\ \A u \in Threads : pc'[u] \notin {"append", "sync", "insert"}
    BY <2>2, <2>4 DEF HasGroup
  <2>7. /\ Range(applied) \subseteq Range(applied') /\ failed \subseteq failed'
        /\ \A c \in Range(applied') \cup failed' :
                \/ c \in Range(applied) \cup failed
                \/ \E u \in Threads : pc[u] # "idle" /\ c = Call(u)
        /\ durable \subseteq durable' /\ durable \subseteq DOMAIN log
        /\ \A i \in DOMAIN log : log'[i] = log[i]
    BY <2>1, <2>2, <2>3, Zenon DEF Synced
  <2>8. "retire" \in {"append", "sync", "insert", "retire"}
    OBVIOUS
  <2>9. ToldStays
    BY <2>2, <2>3, <2>7, <2>8, <1>LeaderGoesOn, Zenon
  <2>10. Phases'
    BY <2>4, <2>5, <2>6, Zenon DEF Phases, HasGroup, WritesGroup
  <2>11. Outcomes'
    <3>1. Range(<<t>>) = {t}
      BY DEF Range
    <3>2. \A u \in Range(group'.members) : Call(u)' \in failed'
      BY <2>2, <2>5, <2>9, <3>1, Zenon DEF ToldStays
    <3>3. group'.status # "ok"
      BY <2>5
    <3> QED
      BY <2>9, <3>2, <3>3, Zenon DEF ToldStays, Outcomes
  <2>12. LogState'
    <3>1. LogAgreesWithMemory' /\ (log \in Seq(Record))'
      BY <2>1, <2>2 DEF LogState, LogAgreesWithMemory
    <3>2. Clean' <=> Clean
      BY <2>2, Zenon DEF Clean
    <3>3. Clean \/ bg_error_
      BY <2>1, <2>6, Zenon DEF LogState
    <3> QED
      BY <2>2, <2>6, <3>1, <3>2, <3>3, Zenon DEF LogState
  <2>13. Counted'
    <3>1. SequencesFollowLog' /\ NextBase' = NextBase /\ NextBase = last_sequence_ + 1
      BY <2>1, <2>2, <2>6, Zenon DEF Counted, SequencesFollowLog, NextBase
    <3> QED
      BY <2>1, <2>2, <2>6, <3>1, Zenon DEF Counted
  <2>14. Synced'
    <3>1. durable' \subseteq DOMAIN log' /\ logStart' \in 0..Len(log')
      BY <2>1, <2>2, Zenon DEF Synced
    <3> QED
      BY <2>5, <2>6, <2>9, <3>1, Zenon DEF ToldStays, Synced, WritesGroup
  <2> QED
    BY <2>9, <2>10, <2>11, <2>12, <2>13, <2>14, Zenon DEF ToldStays, Decided
\* The fields of a record.
<1>RecordFields.
    ASSUME log \in Seq(Record), NEW i \in DOMAIN log
    PROVE  /\ log[i].base \in Nat /\ log[i].count \in Nat
           /\ log[i].calls \in Seq(Threads \X Nat) /\ log[i].ok \in BOOLEAN
  <2> USE <1>RecordFields
  <2>1. \A r \in Record : /\ r.base \in Nat /\ r.count \in Nat
                          /\ r.calls \in Seq(Threads \X Nat) /\ r.ok \in BOOLEAN
    BY DEF Record
  <2>2. log[i] \in Record
    OBVIOUS
  <2> QED
    BY <2>1, <2>2, Zenon
\* The leader takes the numbers for its group, with the log whole.
<1>StartGroupDecided.
    ASSUME NatWellOrdered, CInv, NEW t \in Threads, StartGroup(t)
    PROVE  Decided'
\* Who rides in a group that BuildBatchGroup makes does not want more than its
\* leader; the group is as big as its numbers say.
  <2>GroupFits.
      ASSUME NatWellOrdered, writers_ \in Seq(Threads), writers_ # <<>>
      PROVE  LET ms == BuildBatchGroup
             IN  /\ \A u \in Range(ms) : self[u].sync => self[writers_[1]].sync
                 /\ Bytes(Len(ms)) = TotalSize(ms)
    <3> USE <2>GroupFits
    <3> DEFINE Longest(n) == /\ \A i \in 2..n : Fits(i)
                             /\ n < Len(writers_) => ~Fits(n + 1)
               last == CHOOSE n \in 1..Len(writers_) : Longest(n)
               T == {n \in 1..Len(writers_) : n = Len(writers_) \/ ~Fits(n + 1)}
    <3>1. Len(writers_) \in Nat /\ Len(writers_) >= 1
      OBVIOUS
    <3>2. Len(writers_) \in T /\ T \in SUBSET Nat
      BY <3>1
    <3>3. PICK n \in T : \A m \in T : n <= m
      <4> HIDE DEF T
      <4> QED
        BY <3>2, Zenon DEF NatWellOrdered
    <3>4. n \in 1..Len(writers_) /\ (n < Len(writers_) => ~Fits(n + 1))
      BY <3>1, <3>3
    <3>5. ASSUME NEW i \in 2..n
          PROVE  Fits(i)
      <4>1. i - 1 \in 1..Len(writers_) /\ (i - 1) + 1 = i /\ ~(n <= i - 1)
        BY <3>1, <3>4, <3>5
      <4>2. i - 1 \notin T
        BY <3>3, <4>1, Zenon
      <4>3. Fits((i - 1) + 1)
        BY <4>1, <4>2, Zenon
      <4> QED
        BY <4>1, <4>3
    <3>6. Longest(n)
      BY <3>4, <3>5, Zenon
    <3> HIDE DEF Longest
    <3>7. last \in 1..Len(writers_) /\ Longest(last)
      BY <3>4, <3>6, Zenon
    <3>8. BuildBatchGroup = SubSeq(writers_, 1, last)
      BY Zenon DEF BuildBatchGroup, Longest
    <3> HIDE DEF last
    <3>9. PICK ms : ms = SubSeq(writers_, 1, last)
      BY Zenon
    <3>10. /\ Len(ms) = last /\ DOMAIN ms = 1..last
           /\ \A i \in 1..last : ms[i] = writers_[i]
      BY <3>1, <3>7, <3>9
    <3>11. ASSUME NEW u \in Range(ms), self[u].sync
           PROVE  self[writers_[1]].sync
      <4>1. PICK i \in 1..last : u = writers_[i]
        BY <3>10, <3>11, Zenon DEF Range
      <4>2. CASE i = 1
        BY <3>11, <4>1, <4>2, Zenon
      <4>3. CASE i # 1
        <5>1. i \in 2..last
          BY <3>1, <3>7, <4>1, <4>3
        <5>2. Fits(i)
          BY <3>7, <5>1, Zenon DEF Longest
        <5> QED
          BY <3>11, <4>1, <5>2, Zenon DEF Fits
      <4> QED
        BY <4>2, <4>3
    <3>12. Bytes(Len(ms)) = TotalSize(ms)
      BY <3>9, <3>10, Zenon DEF Bytes
    <3> QED
      BY <3>8, <3>9, <3>11, <3>12, Zenon
  <2> USE <1>StartGroupDecided
  <2>1. /\ Phases /\ Made /\ Outcomes /\ LogState /\ Counted /\ Synced
        /\ KInv /\ LInv
    BY Zenon DEF CInv, KInv
  <2>2. /\ pc[t] = "lead" /\ pc' = [pc EXCEPT ![t] = "append"] /\ ~bg_error_
        /\ group' = [members |-> BuildBatchGroup, sync |-> ShouldSyncNow(self[t].sync),
                     base |-> last_sequence_ + 1, status |-> "none"]
        /\ last_sequence_' = last_sequence_ + Bytes(Len(BuildBatchGroup))
        /\ UNCHANGED <<self, calls, answered, log, logStart, durable, applied, failed,
                       bg_error_>>
    BY Zenon DEF StartGroup, LastSequenceOf, bgVars, history
  <2>3. Leads(t) /\ pc[t] # "idle"
    BY <2>2, Zenon DEF Leads
  <2>4. /\ pc'[t] = "append"
        /\ \A u \in Threads \ {t} : pc'[u] = pc[u] /\ ~HasGroup(u) /\ ~HasGroup(u)'
    BY <2>1, <2>2, <2>3, <1>OnlyLeader, Zenon
  <2>5. writers_ # <<>> /\ Head(writers_) = t /\ writers_ \in Seq(Threads)
    BY <2>1, <2>3, Zenon DEF LInv, LeadersInFront, Fields
  <2>6. writers_[1] = t
    BY <2>5
  <2>7. PICK ms : ms = BuildBatchGroup
    BY Zenon
  <2>8. /\ ms \in Seq(Threads) /\ \A u \in Range(ms) : self[u].sync => self[t].sync
        /\ Bytes(Len(ms)) = TotalSize(ms) /\ TotalSize(ms) \in Nat
    <3>1. ms \in Seq(Threads)
      BY <2>5, <2>7, GroupIsFront, Zenon DEF FrontOf
    <3> QED
      BY <2>5, <2>6, <2>7, <3>1, <2>GroupFits, <1>TotalSizeIs, Zenon
  <2>9. /\ group'.members = ms /\ group'.base = last_sequence_ + 1
        /\ group'.status = "none" /\ group'.sync = ShouldSyncNow(self[t].sync)
        /\ last_sequence_' = last_sequence_ + TotalSize(ms)
    BY Zenon, <2>2, <2>7, <2>8
  <2>10. /\ \A u \in Threads : pc[u] \notin {"append", "sync", "insert", "retire"}
         /\ \A u \in Threads : pc'[u] \notin {"sync", "insert", "retire"}
         /\ \A u \in Threads : pc'[u] = "append" => u = t
    BY <2>2, <2>4 DEF HasGroup
  <2>11. ToldStays
    <3>1. /\ Range(applied) \subseteq Range(applied') /\ failed \subseteq failed'
          /\ \A c \in Range(applied') \cup failed' :
                \/ c \in Range(applied) \cup failed
                \/ \E u \in Threads : pc[u] # "idle" /\ c = Call(u)
          /\ durable \subseteq durable' /\ durable \subseteq DOMAIN log
          /\ \A i \in DOMAIN log : log'[i] = log[i]
      BY <2>1, <2>2, Zenon DEF Synced
    <3>2. "append" \in {"append", "sync", "insert", "retire"}
      OBVIOUS
    <3> QED
      BY <2>2, <2>3, <3>1, <3>2, <1>LeaderGoesOn, Zenon
  <2>12. last_sequence_ \in Nat /\ NextBase = last_sequence_ + 1 /\ SequencesFollowLog
    BY <2>1, <2>10, Zenon DEF Counted
  <2>13. Phases'
    <3>1. group'.base # 0
      BY <2>9, <2>12
    <3> QED
      BY <2>4, <2>9, <2>10, <3>1, Zenon DEF Phases, HasGroup
  <2>14. Outcomes'
    BY <2>10, <2>11, Zenon DEF ToldStays, Outcomes
  <2>15. LogState'
    <3>1. LogAgreesWithMemory' /\ (log \in Seq(Record))'
      BY Zenon, <2>1, <2>2 DEF LogState, LogAgreesWithMemory
    <3>2. Clean' <=> Clean
      BY <2>2, Zenon DEF Clean
    <3>3. Clean
      BY <2>1, <2>2, <2>10, Zenon DEF LogState
    <3> QED
      BY <2>2, <2>10, <3>1, <3>2, <3>3, ZenonT(40) DEF LogState
  <2>16. Counted'
    <3>1. NextBase' = NextBase
      BY <2>2, Zenon DEF NextBase
    <3>2. SequencesFollowLog'
      <4>1. \A i \in DOMAIN log : log[i].base \in Nat /\ log[i].count \in Nat
        BY <2>1, <1>RecordFields, Zenon DEF LogState
      <4>2. \A a, b \in Nat : a + b <= last_sequence_ + 1 => a + b <= last_sequence_' + 1
        BY ONLY SMTT(30), <2>8, <2>9, <2>12
      <4> QED
        BY <2>2, <2>12, <4>1, <4>2, Zenon DEF SequencesFollowLog
    <3>3. /\ last_sequence_' \in Nat
          /\ last_sequence_ + 1 + TotalSize(ms) = last_sequence_' + 1
      BY ONLY SMTT(30), <2>8, <2>9, <2>12
    <3> QED
      BY <2>4, <2>9, <2>10, <2>12, <3>1, <3>2, <3>3, Zenon DEF Counted
  <2>17. Synced'
    <3>1. durable' \subseteq DOMAIN log' /\ logStart' \in 0..Len(log')
      BY <2>1, <2>2, Zenon DEF Synced
    <3>2. ASSUME NEW v \in Range(ms), WantsSync(v)'
          PROVE  group'.sync
      <4>1. WantsSync(v)
        BY <2>11, <3>2, Zenon DEF ToldStays
      <4> QED
        BY <2>8, <2>9, <4>1, Zenon DEF WantsSync, ShouldSyncNow
    <3> QED
      BY <2>9, <2>10, <2>11, <3>1, <3>2, Zenon DEF ToldStays, Synced
  <2> QED
    BY <2>11, <2>13, <2>14, <2>15, <2>16, <2>17, Zenon DEF ToldStays, Decided
\* The group is the front of the queue still when its record is made.
<1>GroupBytes.
    ASSUME NatWellOrdered, LInv, NEW t \in Threads, HasGroup(t)
    PROVE  /\ Bytes(Len(group.members)) = TotalSize(group.members)
           /\ TotalSize(group.members) \in Nat
  <2> USE <1>GroupBytes
  <2>1. FrontOf(group.members) /\ writers_ \in Seq(Threads)
    BY Zenon DEF LInv, GroupInFront, Fields
  <2>2. PICK m : m = group.members
    BY Zenon
  <2>3. SubSeq(writers_, 1, Len(m)) = m
    BY <2>1, <2>2 DEF FrontOf
  <2>4. TotalSize(m) \in Nat
    BY <2>1, <2>2, <1>TotalSizeIs, Zenon DEF FrontOf
  <2> QED
    BY <2>2, <2>3, <2>4, Zenon DEF Bytes
\* The record of the group, whole or torn, goes to the end of a log that
\* memory has all of; it starts at the next number.
<1>RecordAppended.
    ASSUME NatWellOrdered, CInv, NEW t \in Threads, pc[t] = "append", NEW ok \in BOOLEAN,
           log' = Append(log, RecordOf(ok)), last_sequence_' = last_sequence_
    PROVE  /\ log' \in Seq(Record) /\ Len(log') = Len(log) + 1 /\ Len(log) \in Nat
           /\ log'[Len(log) + 1] = RecordOf(ok)
           /\ \A i \in DOMAIN log : i \in DOMAIN log' /\ log'[i] = log[i] /\ log[i].ok
           /\ \A i \in DOMAIN log' : i = Len(log) + 1 \/ i \in DOMAIN log
           /\ RecordOf(ok).calls = CallsOf(group.members) /\ RecordOf(ok).ok = ok
           /\ Replay(log')[Len(log)] = applied
           /\ ~ok => Replay(log')[Len(log) + 1] = applied
           /\ SequencesFollowLog' /\ NextBase' = last_sequence_ + 1
  <2> USE <1>RecordAppended
  <2>1. /\ Phases /\ Made /\ LogState /\ Counted /\ KInv /\ LInv
    BY Zenon DEF CInv, KInv
  <2>2. HasGroup(t)
    BY Zenon DEF HasGroup
  <2>3. PICK r : r = RecordOf(ok)
    BY Zenon
  <2>4. /\ r = [calls |-> CallsOf(group.members), base |-> group.base,
                count |-> TotalSize(group.members), ok |-> ok]
        /\ TotalSize(group.members) \in Nat
    BY <2>1, <2>2, <2>3, <1>GroupBytes, Zenon DEF RecordOf
  <2>5. PICK c : c = CallsOf(group.members)
    BY Zenon
  <2>6. /\ c \in Seq(Threads \X Nat) /\ group.base = NextBase
        /\ group.base + TotalSize(group.members) = last_sequence_ + 1
        /\ last_sequence_ \in Nat /\ SequencesFollowLog /\ log \in Seq(Record)
        /\ Clean
    BY <2>1, <2>2, <2>5, CallsOfGroup, Zenon DEF Counted, LogState
  <2>7. \A i \in DOMAIN log : /\ log[i].base \in Nat /\ log[i].count \in Nat
                              /\ log[i].ok
    BY <2>6, <1>RecordFields, Zenon DEF Clean
  <2>8. Len(log) \in Nat /\ DOMAIN log = 1..Len(log) /\ (log = <<>> <=> Len(log) = 0)
    BY <2>6
  <2>9. group.base \in Nat
    <3>1. CASE log = <<>>
      BY <2>6, <3>1 DEF NextBase
    <3>2. CASE log # <<>>
      <4>1. Len(log) \in DOMAIN log
        BY <2>8, <3>2
      <4>2. log[Len(log)].base \in Nat /\ log[Len(log)].count \in Nat
        BY <2>7, <4>1, Zenon
      <4> QED
        BY ONLY SMTT(30), <2>6, <3>2, <4>2 DEF NextBase
    <3> QED
      BY <3>1, <3>2
  <2>10. /\ r.calls = c /\ r.base = group.base /\ r.count = TotalSize(group.members)
         /\ r.ok = ok
    BY <2>4, <2>5
  <2>11. r \in Record
    BY <2>4, <2>5, <2>6, <2>9 DEF Record
  <2>12. /\ log' \in Seq(Record) /\ Len(log') = Len(log) + 1
         /\ log'[Len(log) + 1] = r
         /\ \A i \in 1..Len(log) : log'[i] = log[i]
         /\ DOMAIN log' = 1..(Len(log) + 1)
    <3> HIDE DEF Record
    <3> QED
      BY <2>3, <2>6, <2>8, <2>11
  <2>13. /\ \A i \in DOMAIN log : i \in DOMAIN log' /\ log'[i] = log[i] /\ log[i].ok
         /\ \A i \in DOMAIN log' : i = Len(log) + 1 \/ i \in DOMAIN log
    BY ONLY SMTT(30), <2>7, <2>8, <2>12
  <2>14. /\ Replay(log')[Len(log)] = Replay(log)[Len(log)]
         /\ Replay(log')[Len(log) + 1] = Replay(log)[Len(log)] \o IF ok THEN c ELSE <<>>
    <3>1. Len(log) \in 0..Len(log)
      BY <2>8
    <3> QED
      BY <2>3, <2>6, <2>10, <2>11, <3>1, <1>ReplayAppend, Zenon
  <2>15. /\ Replay(log')[Len(log)] = applied
         /\ ~ok => Replay(log')[Len(log) + 1] = applied
    <3>1. applied = Replay(log)[Len(log)] /\ applied \in Seq(Threads \X Nat)
      BY <2>1, <2>6, Zenon DEF Clean, KInv, Numbered
    <3>2. applied \o <<>> = applied
      BY <3>1
    <3> QED
      BY <2>14, <3>1, <3>2, Zenon
  <2>16. NextBase' = last_sequence_ + 1
    <3>1. log' # <<>>
      BY <2>8, <2>12
    <3> QED
      BY <2>6, <2>10, <2>12, <3>1, Zenon DEF NextBase
  <2>17. SequencesFollowLog'
    <3>1. ASSUME NEW i \in DOMAIN log
          PROVE  /\ log'[i].base = IF i = 1 THEN 1 ELSE log'[i - 1].base + log'[i - 1].count
                 /\ log'[i].base + log'[i].count <= last_sequence_' + 1
      <4>1. /\ log[i].base = IF i = 1 THEN 1 ELSE log[i - 1].base + log[i - 1].count
            /\ log[i].base + log[i].count <= last_sequence_ + 1
        BY <2>6, <3>1, Zenon DEF SequencesFollowLog
      <4>2. i # 1 => i - 1 \in DOMAIN log
        BY <2>8, <3>1
      <4> QED
        BY <2>13, <4>1, <4>2, Zenon
    <3>2. /\ log'[Len(log) + 1].base =
               IF Len(log) + 1 = 1 THEN 1
               ELSE log'[(Len(log) + 1) - 1].base + log'[(Len(log) + 1) - 1].count
          /\ log'[Len(log) + 1].base + log'[Len(log) + 1].count <= last_sequence_' + 1
      <4>1. /\ (Len(log) + 1) - 1 = Len(log) /\ (Len(log) + 1 = 1 <=> log = <<>>)
            /\ log # <<>> => Len(log) \in 1..Len(log)
        <5>1. \A n \in Nat : /\ (n + 1) - 1 = n /\ (n + 1 = 1 <=> n = 0)
                             /\ n # 0 => n \in 1..n
          OBVIOUS
        <5> QED
          BY <2>8, <5>1, Zenon
      <4>2. log # <<>> => log'[Len(log)] = log[Len(log)]
        BY <2>12, <4>1, Zenon
      <4>3. last_sequence_ + 1 <= last_sequence_ + 1
        BY <2>6
      <4> QED
        BY <2>6, <2>10, <2>12, <4>1, <4>2, <4>3, Zenon DEF NextBase
    <3> QED
      BY <2>13, <3>1, <3>2, Zenon DEF SequencesFollowLog
  <2> QED
    BY <2>3, <2>5, <2>8, <2>10, <2>12, <2>13, <2>15, <2>16, <2>17, Zenon
\* The record is in the log; it is the last, and memory has all but that.
<1>AddRecordDecided.
    ASSUME NatWellOrdered, CInv, NEW t \in Threads, AddRecord(t)
    PROVE  Decided'
  <2> USE <1>AddRecordDecided
  <2>1. /\ Phases /\ Made /\ Outcomes /\ LogState /\ Counted /\ Synced
        /\ KInv /\ LInv
    BY Zenon DEF CInv, KInv
  <2>2. /\ pc[t] = "append" /\ log' = Append(log, RecordOf(TRUE))
        /\ pc' = [pc EXCEPT ![t] = IF group.sync THEN "sync" ELSE "insert"]
        /\ UNCHANGED <<self, group, calls, answered, logStart, durable, applied, failed,
                       last_sequence_, bg_error_>>
    BY Zenon DEF AddRecord, memVars, clockVars, bgVars
  <2>3. Leads(t) /\ HasGroup(t) /\ WritesGroup(t) /\ pc[t] # "idle"
    BY <2>2, Zenon DEF Leads, HasGroup, WritesGroup
  <2>4. PICK at : at = IF group.sync THEN "sync" ELSE "insert"
    BY Zenon
  <2>5. /\ pc'[t] = at
        /\ \A u \in Threads \ {t} : pc'[u] = pc[u] /\ ~HasGroup(u) /\ ~HasGroup(u)'
    BY <2>1, <2>2, <2>3, <2>4, <1>OnlyLeader, Zenon
  <2>6. /\ log' \in Seq(Record) /\ Len(log') = Len(log) + 1 /\ Len(log) \in Nat
        /\ log'[Len(log) + 1] = RecordOf(TRUE)
        /\ \A i \in DOMAIN log : i \in DOMAIN log' /\ log'[i] = log[i] /\ log[i].ok
        /\ \A i \in DOMAIN log' : i = Len(log) + 1 \/ i \in DOMAIN log
        /\ RecordOf(TRUE).calls = CallsOf(group.members) /\ RecordOf(TRUE).ok = TRUE
        /\ Replay(log')[Len(log)] = applied
        /\ SequencesFollowLog' /\ NextBase' = last_sequence_ + 1
    BY <2>2, <1>RecordAppended, Zenon
  <2>7. /\ at \in {"sync", "insert"} /\ (at = "insert" => ~group.sync)
        /\ at \in {"append", "sync", "insert", "retire"}
    BY <2>4
  <2>8. /\ \A u \in Threads : HasGroup(u)' => u = t
        /\ \A u \in Threads : pc'[u] \notin {"append", "retire"}
        /\ \A u \in Threads : pc'[u] \in {"sync", "insert"} => u = t
        /\ WritesGroup(t)' /\ HasGroup(t)'
    BY <2>5, <2>7 DEF HasGroup, WritesGroup
  <2>9. ToldStays
    <3>1. /\ Range(applied) \subseteq Range(applied') /\ failed \subseteq failed'
          /\ \A c \in Range(applied') \cup failed' :
                \/ c \in Range(applied) \cup failed
                \/ \E u \in Threads : pc[u] # "idle" /\ c = Call(u)
          /\ durable \subseteq durable' /\ durable \subseteq DOMAIN log
          /\ \A i \in DOMAIN log : log'[i] = log[i]
      BY <2>1, <2>2, <2>6, Zenon DEF Synced
    <3> QED
      BY <2>2, <2>3, <2>4, <2>7, <3>1, <1>LeaderGoesOn, Zenon
  <2>10. Phases'
    <3>1. group.status = "none" /\ group.base # 0
      BY <2>1, <2>3, Zenon DEF Phases
    <3> QED
      BY <2>2, <2>8, <3>1, Zenon DEF Phases
  <2>11. Outcomes'
    BY <2>8, <2>9, Zenon DEF ToldStays, Outcomes
  <2>12. LogState'
    <3>1. (Len(log) + 1) - 1 = Len(log) /\ Len(log') > 0 /\ log' # <<>>
      BY <2>6
    <3>2. \A i \in DOMAIN log' : log'[i].ok
      BY <2>6, Zenon
    <3>3. LogAgreesWithMemory'
      BY <2>2, <2>6, <3>1, <3>2, Zenon DEF LogAgreesWithMemory
    <3>4. CallsOf(group.members)' = CallsOf(group.members)
      BY <2>2, <2>9, Zenon DEF CallsOf, ToldStays
    <3>5. Logged'
      BY <2>2, <2>6, <3>1, <3>2, <3>4, Zenon DEF Logged
    <3>6. pc'[t] \in {"sync", "insert"}
      BY Zenon, <2>5, <2>7
    <3> QED
      BY <2>6, <2>8, <3>3, <3>5, <3>6, Zenon DEF LogState
  <2>13. Counted'
    BY <2>1, <2>2, <2>6, <2>8, Zenon DEF Counted
  <2>14. Synced'
    <3>1. durable' \subseteq DOMAIN log'
      BY <2>1, <2>2, <2>6, ZenonT(40) DEF Synced
    <3>2. logStart' \in 0..Len(log') /\ logStart' < Len(log')
      <4>1. logStart \in 0..Len(log) /\ logStart' = logStart
        BY <2>1, <2>2, Zenon DEF Synced
      <4> QED
        BY ONLY SMTT(30), <2>6, <4>1
    <3>3. ASSUME NEW v \in Range(group'.members), WantsSync(v)'
          PROVE  group'.sync
      BY <2>1, <2>2, <2>3, <2>9, <3>3, Zenon DEF ToldStays, Synced
    <3>4. ~(pc'[t] = "insert" /\ group'.sync)
      BY <2>2, <2>5, <2>7, Zenon
    <3> QED
      BY <2>8, <2>9, <3>1, <3>2, <3>3, <3>4, Zenon DEF ToldStays, Synced
  <2> QED
    BY <2>9, <2>10, <2>11, <2>12, <2>13, <2>14, Zenon DEF ToldStays, Decided
\* A group that fails decides the calls of its members.
<1>FailsMembers.
    ASSUME CInv, NEW t \in Threads, HasGroup(t), GroupFails, applied' = applied
    PROVE  /\ group'.status = "err" /\ group'.members = group.members
           /\ group'.base = group.base /\ group'.sync = group.sync
           /\ Range(applied) \subseteq Range(applied') /\ failed \subseteq failed'
           /\ \A c \in Range(applied') \cup failed' :
                 \/ c \in Range(applied) \cup failed
                 \/ \E u \in Threads : pc[u] # "idle" /\ c = Call(u)
           /\ \A u \in Range(group.members) : Call(u) \in failed'
  <2> USE <1>FailsMembers
  <2>1. Made /\ KInv /\ DOMAIN group = GroupFields
    BY Zenon DEF CInv, KInv, LInv, Fields
  <2>2. /\ group' = [group EXCEPT !.status = "err"]
        /\ failed' = failed \cup Range(CallsOf(group.members))
    BY Zenon DEF GroupFails
  <2>3. /\ group'.status = "err" /\ group'.members = group.members
        /\ group'.base = group.base /\ group'.sync = group.sync
    BY <2>1, <2>2 DEF GroupFields
  <2>4. /\ Range(CallsOf(group.members)) = {Call(u) : u \in Range(group.members)}
        /\ \A u \in Range(group.members) : u \in Threads /\ pc[u] # "idle"
    BY <2>1, CallsOfGroup, Zenon
  <2> QED
    BY <2>2, <2>3, <2>4, Zenon
\* A torn record is the last: the error is latched before anyone appends.
<1>AddRecordFailsDecided.
    ASSUME NatWellOrdered, CInv, NEW t \in Threads, AddRecordFails(t)
    PROVE  Decided'
  <2> USE <1>AddRecordFailsDecided
  <2>1. /\ Phases /\ Made /\ Outcomes /\ LogState /\ Counted /\ Synced
        /\ KInv /\ LInv
    BY Zenon DEF CInv, KInv
  <2>2. /\ pc[t] = "append" /\ log' = Append(log, RecordOf(FALSE))
        /\ pc' = [pc EXCEPT ![t] = "retire"] /\ GroupFails
        /\ UNCHANGED <<self, calls, answered, logStart, durable, applied,
                       last_sequence_, bg_error_>>
    BY Zenon DEF AddRecordFails, memVars, clockVars, bgVars
  <2>3. Leads(t) /\ HasGroup(t) /\ WritesGroup(t) /\ pc[t] # "idle"
    BY <2>2, Zenon DEF Leads, HasGroup, WritesGroup
  <2>4. /\ pc'[t] = "retire"
        /\ \A u \in Threads \ {t} : pc'[u] = pc[u] /\ ~HasGroup(u) /\ ~HasGroup(u)'
    BY <2>1, <2>2, <2>3, <1>OnlyLeader, Zenon
  <2>5. /\ group'.status = "err" /\ group'.members = group.members
        /\ group'.base = group.base
        /\ Range(applied) \subseteq Range(applied') /\ failed \subseteq failed'
        /\ \A c \in Range(applied') \cup failed' :
              \/ c \in Range(applied) \cup failed
              \/ \E u \in Threads : pc[u] # "idle" /\ c = Call(u)
        /\ \A u \in Range(group.members) : Call(u) \in failed'
    BY <2>2, <2>3, <1>FailsMembers, Zenon
  <2>6. /\ log' \in Seq(Record) /\ Len(log') = Len(log) + 1 /\ Len(log) \in Nat
        /\ \A i \in DOMAIN log : i \in DOMAIN log' /\ log'[i] = log[i] /\ log[i].ok
        /\ \A i \in DOMAIN log' : i = Len(log) + 1 \/ i \in DOMAIN log
        /\ Replay(log')[Len(log) + 1] = applied
        /\ SequencesFollowLog' /\ NextBase' = last_sequence_ + 1
    BY <2>2, <1>RecordAppended, Zenon
  <2>7. /\ \A u \in Threads : pc'[u] \notin {"append", "sync", "insert"}
        /\ \A u \in Threads : ~WritesGroup(u)' /\ (HasGroup(u)' => u = t)
        /\ HasGroup(t)'
    BY <2>4 DEF HasGroup, WritesGroup
  <2>8. ToldStays
    <3>1. /\ durable \subseteq durable' /\ durable \subseteq DOMAIN log
          /\ \A i \in DOMAIN log : log'[i] = log[i]
      BY <2>1, <2>2, <2>6, Zenon DEF Synced
    <3>2. "retire" \in {"append", "sync", "insert", "retire"}
      OBVIOUS
    <3> QED
      BY <2>2, <2>3, <2>5, <3>1, <3>2, <1>LeaderGoesOn, Zenon
  <2>9. Phases'
    BY <2>4, <2>5, <2>7, Zenon DEF Phases, HasGroup
  <2>10. Outcomes'
    <3>1. group'.status # "ok"
      BY <2>5
    <3> QED
      BY <2>5, <2>8, <3>1, ZenonT(40) DEF ToldStays, Outcomes
  <2>11. LogState'
    <3>1. LogAgreesWithMemory'
      BY <2>2, <2>6, Zenon DEF LogAgreesWithMemory
    <3>2. group'.base # 0
      BY <2>1, <2>3, <2>5, Zenon DEF Phases
    <3> QED
      BY <2>4, <2>5, <2>6, <2>7, <3>1, <3>2, Zenon DEF LogState
  <2>12. Counted'
    BY <2>1, <2>2, <2>6, <2>7, Zenon DEF Counted
  <2>13. Synced'
    <3>1. durable' \subseteq DOMAIN log'
      BY <2>1, <2>2, <2>6, ZenonT(40) DEF Synced
    <3>2. logStart' \in 0..Len(log')
      <4>1. logStart \in 0..Len(log) /\ logStart' = logStart
        BY <2>1, <2>2, Zenon DEF Synced
      <4> QED
        BY ONLY <2>6, <4>1
    <3>3. group'.status # "ok"
      BY <2>5
    <3> QED
      BY <2>7, <2>8, <3>1, <3>2, <3>3, Zenon DEF ToldStays, Synced
  <2> QED
    BY <2>8, <2>9, <2>10, <2>11, <2>12, <2>13, Zenon DEF ToldStays, Decided
\* The records since the rotation are on the device, the group's among them.
<1>SyncLogDecided.
    ASSUME CInv, NEW t \in Threads, SyncLog(t)
    PROVE  Decided'
  <2> USE <1>SyncLogDecided
  <2>1. /\ Phases /\ Made /\ Outcomes /\ LogState /\ Counted /\ Synced
        /\ KInv /\ LInv
    BY Zenon DEF CInv, KInv
  <2>2. /\ pc[t] = "sync" /\ pc' = [pc EXCEPT ![t] = "insert"]
        /\ durable' = durable \cup ((logStart + 1)..Len(log))
        /\ UNCHANGED <<self, group, calls, answered, log, logStart, applied, failed,
                       last_sequence_, bg_error_>>
    BY Zenon DEF SyncLog, memVars, clockVars, bgVars
  <2>3. Leads(t) /\ HasGroup(t) /\ WritesGroup(t) /\ pc[t] # "idle"
    BY <2>2, Zenon DEF Leads, HasGroup, WritesGroup
  <2>4. /\ pc'[t] = "insert"
        /\ \A u \in Threads \ {t} : pc'[u] = pc[u] /\ ~HasGroup(u) /\ ~HasGroup(u)'
    BY <2>1, <2>2, <2>3, <1>OnlyLeader, Zenon
  <2>5. /\ \A u \in Threads : pc'[u] \notin {"append", "sync", "retire"}
        /\ \A u \in Threads : pc[u] # "append"
        /\ \A u \in Threads : HasGroup(u)' => u = t
        /\ WritesGroup(t)' /\ HasGroup(t)'
    BY <2>2, <2>4 DEF HasGroup, WritesGroup
  <2>6. /\ log \in Seq(Record) /\ durable \subseteq DOMAIN log /\ logStart \in 0..Len(log)
        /\ logStart < Len(log)
    BY <2>1, <2>2, Zenon DEF LogState, Synced
  <2>7. durable' \subseteq DOMAIN log /\ Len(log) \in durable'
    BY <2>2, <2>6
  <2>8. ToldStays
    <3>1. /\ Range(applied) \subseteq Range(applied') /\ failed \subseteq failed'
          /\ \A c \in Range(applied') \cup failed' :
                \/ c \in Range(applied) \cup failed
                \/ \E u \in Threads : pc[u] # "idle" /\ c = Call(u)
          /\ durable \subseteq durable' /\ durable \subseteq DOMAIN log
          /\ \A i \in DOMAIN log : log'[i] = log[i]
      BY <2>2, <2>6, Zenon
    <3>2. "insert" \in {"append", "sync", "insert", "retire"}
      OBVIOUS
    <3> QED
      BY <2>2, <2>3, <3>1, <3>2, <1>LeaderGoesOn, Zenon
  <2>9. Phases'
    <3>1. group.status = "none" /\ group.base # 0
      BY <2>1, <2>3, Zenon DEF Phases
    <3> QED
      BY <2>2, <2>5, <3>1, Zenon DEF Phases
  <2>10. Outcomes'
    BY <2>5, <2>8, Zenon DEF ToldStays, Outcomes
  <2>11. LogState'
    <3>1. LogAgreesWithMemory'
      BY <2>1, <2>2 DEF LogState, LogAgreesWithMemory
    <3>2. CallsOf(group.members)' = CallsOf(group.members)
      BY <2>2, <2>8, Zenon DEF CallsOf, ToldStays
    <3>3. Logged
      BY <2>1, <2>2, Zenon DEF LogState
    <3>4. Logged'
      BY <2>2, <3>2, <3>3, Zenon DEF Logged
    <3>5. pc'[t] \in {"sync", "insert"}
      BY Zenon, <2>4
    <3> QED
      BY <2>2, <2>5, <2>6, <3>1, <3>4, <3>5, ZenonT(40) DEF LogState
  <2>12. Counted'
    <3>1. SequencesFollowLog' /\ NextBase' = NextBase
      BY <2>1, <2>2, Zenon DEF Counted, SequencesFollowLog, NextBase
    <3> QED
      BY <2>1, <2>2, <2>5, <3>1, Zenon DEF Counted
  <2>13. Synced'
    <3>1. ASSUME NEW v \in Range(group'.members), WantsSync(v)'
          PROVE  group'.sync
      BY <2>1, <2>2, <2>3, <2>8, <3>1, Zenon DEF ToldStays, Synced
    <3> QED
      BY <2>2, <2>5, <2>6, <2>7, <2>8, <3>1, Zenon DEF ToldStays, Synced
  <2> QED
    BY <2>8, <2>9, <2>10, <2>11, <2>12, <2>13, Zenon DEF ToldStays, Decided
\* A record that is not synced is in the log and its group fails.
<1>SyncFailsDecided.
    ASSUME CInv, NEW t \in Threads, SyncFails(t)
    PROVE  Decided'
  <2> USE <1>SyncFailsDecided
  <2>1. /\ Phases /\ Made /\ Outcomes /\ LogState /\ Counted /\ Synced
        /\ KInv /\ LInv
    BY Zenon DEF CInv, KInv
  <2>2. /\ pc[t] = "sync" /\ pc' = [pc EXCEPT ![t] = "retire"] /\ GroupFails
        /\ UNCHANGED <<self, calls, answered, log, logStart, durable, applied,
                       last_sequence_, bg_error_>>
    BY Zenon DEF SyncFails, memVars, clockVars, bgVars
  <2>3. Leads(t) /\ HasGroup(t) /\ WritesGroup(t) /\ pc[t] # "idle"
    BY <2>2, Zenon DEF Leads, HasGroup, WritesGroup
  <2>4. /\ pc'[t] = "retire"
        /\ \A u \in Threads \ {t} : pc'[u] = pc[u] /\ ~HasGroup(u) /\ ~HasGroup(u)'
    BY <2>1, <2>2, <2>3, <1>OnlyLeader, Zenon
  <2>5. /\ group'.status = "err" /\ group'.members = group.members
        /\ group'.base = group.base
        /\ Range(applied) \subseteq Range(applied') /\ failed \subseteq failed'
        /\ \A c \in Range(applied') \cup failed' :
              \/ c \in Range(applied) \cup failed
              \/ \E u \in Threads : pc[u] # "idle" /\ c = Call(u)
        /\ \A u \in Range(group.members) : Call(u) \in failed'
    BY <2>2, <2>3, <1>FailsMembers, Zenon
  <2>6. /\ \A u \in Threads : pc'[u] \notin {"append", "sync", "insert"}
        /\ \A u \in Threads : pc[u] # "append"
        /\ \A u \in Threads : ~WritesGroup(u)' /\ (HasGroup(u)' => u = t)
        /\ HasGroup(t)'
    BY <2>2, <2>4 DEF HasGroup, WritesGroup
  <2>7. ToldStays
    <3>1. /\ durable \subseteq durable' /\ durable \subseteq DOMAIN log
          /\ \A i \in DOMAIN log : log'[i] = log[i]
      BY <2>1, <2>2, Zenon DEF Synced
    <3>2. "retire" \in {"append", "sync", "insert", "retire"}
      OBVIOUS
    <3> QED
      BY <2>2, <2>3, <2>5, <3>1, <3>2, <1>LeaderGoesOn, Zenon
  <2>8. Phases'
    BY <2>4, <2>5, <2>6, Zenon DEF Phases, HasGroup
  <2>9. Outcomes'
    <3>1. group'.status # "ok"
      BY Zenon, <2>5
    <3> QED
      BY <2>5, <2>7, <3>1, Zenon DEF ToldStays, Outcomes
  <2>10. LogState'
    <3>1. LogAgreesWithMemory' /\ (log \in Seq(Record))'
      BY Zenon, <2>1, <2>2 DEF LogState, LogAgreesWithMemory
    <3>2. group'.base # 0
      BY <2>1, <2>3, <2>5, Zenon DEF Phases
    <3> QED
      BY <2>4, <2>5, <2>6, <3>1, <3>2, ZenonT(40) DEF LogState
  <2>11. Counted'
    <3>1. SequencesFollowLog' /\ NextBase' = NextBase
      BY <2>1, <2>2, Zenon DEF Counted, SequencesFollowLog, NextBase
    <3> QED
      BY <2>1, <2>2, <2>6, <3>1, Zenon DEF Counted
  <2>12. Synced'
    <3>1. durable' \subseteq DOMAIN log' /\ logStart' \in 0..Len(log')
      BY <2>1, <2>2, Zenon DEF Synced
    <3>2. group'.status # "ok"
      BY <2>5
    <3> QED
      BY <2>6, <2>7, <3>1, <3>2, Zenon DEF ToldStays, Synced
  <2> QED
    BY <2>7, <2>8, <2>9, <2>10, <2>11, <2>12, Zenon DEF ToldStays, Decided
\* Memory has what the log has.
<1>InsertGroupDecided.
    ASSUME NatWellOrdered, CInv, NEW t \in Threads, InsertGroup(t)
    PROVE  Decided'
\* The last record is replayed after those before it.
  <2>ReplayLast.
      ASSUME NatWellOrdered, NEW lg \in Seq(Record), lg # <<>>
      PROVE  LET N == Len(lg)
             IN  Replay(lg)[N] =
                   Replay(lg)[N - 1] \o IF lg[N].ok THEN lg[N].calls ELSE <<>>
    <3> USE <2>ReplayLast
    <3> DEFINE N == Len(lg)
               F == Replay(lg)
               D == Threads \X Nat
    <3>1. N \in Nat /\ N # 0 /\ N \in 0..N
      OBVIOUS
    <3>2. \A n \in 1..N : lg[n].calls \in Seq(D)
      <4>1. \A x \in Record : x.calls \in Seq(D)
        BY DEF Record
      <4>2. \A n \in 1..N : lg[n] \in Record
        OBVIOUS
      <4> HIDE DEF N, D
      <4> QED
        BY <4>1, <4>2, Zenon
    <3> HIDE DEF D
    <3>3. Replays(lg, F)
      BY <3>1, <3>2, ReplayIs, Zenon
    <3> HIDE DEF F
    <3>4. F = [n \in 0..N |-> IF n = 0 THEN <<>> ELSE F[n - 1] \o
                                  IF lg[n].ok THEN lg[n].calls ELSE <<>>]
      BY <3>3, Zenon DEF Replays
    <3> HIDE DEF N
    <3> QED
      BY <3>1, <3>4, Zenon DEF F, N
  \* Both parts of a sequence are in it.
  <2>RangeOfConcat.
      ASSUME NEW S, NEW a \in Seq(S), NEW c \in Seq(S)
      PROVE  Range(a \o c) = Range(a) \cup Range(c)
    <3> USE <2>RangeOfConcat
    <3>1. /\ \A i \in DOMAIN a : i \in DOMAIN (a \o c) /\ (a \o c)[i] = a[i]
          /\ \A i \in DOMAIN c : /\ Len(a) + i \in DOMAIN (a \o c)
                                 /\ (a \o c)[Len(a) + i] = c[i]
      OBVIOUS
    <3>2. Range(a) \cup Range(c) \subseteq Range(a \o c)
      BY <3>1, Zenon DEF Range
    <3> QED
      BY <3>2, RangeConcat, Zenon
  <2> USE <1>InsertGroupDecided
  <2>1. /\ Phases /\ Made /\ Outcomes /\ LogState /\ Counted /\ Synced
        /\ KInv /\ LInv
    BY Zenon DEF CInv, KInv
  <2>2. /\ pc[t] = "insert" /\ pc' = [pc EXCEPT ![t] = "retire"]
        /\ applied' = applied \o CallsOf(group.members)
        /\ group' = [group EXCEPT !.status = "ok"]
        /\ UNCHANGED <<self, calls, answered, log, logStart, durable, failed,
                       last_sequence_, bg_error_>>
    BY Zenon DEF InsertGroup, clockVars, bgVars
  <2>3. Leads(t) /\ HasGroup(t) /\ WritesGroup(t) /\ pc[t] # "idle"
    BY <2>2, Zenon DEF Leads, HasGroup, WritesGroup
  <2>4. /\ pc'[t] = "retire"
        /\ \A u \in Threads \ {t} : pc'[u] = pc[u] /\ ~HasGroup(u) /\ ~HasGroup(u)'
    BY <2>1, <2>2, <2>3, <1>OnlyLeader, Zenon
  <2>5. /\ group'.status = "ok" /\ group'.members = group.members
        /\ group'.sync = group.sync
    <3>1. DOMAIN group = GroupFields
      BY <2>1, Zenon DEF LInv, Fields
    <3> QED
      BY <2>2, <3>1 DEF GroupFields
  <2>6. /\ \A u \in Threads : pc'[u] \notin {"append", "sync", "insert"}
        /\ \A u \in Threads : pc[u] # "append"
        /\ \A u \in Threads : ~WritesGroup(u)' /\ (HasGroup(u)' => u = t)
        /\ HasGroup(t)'
    BY <2>2, <2>4 DEF HasGroup, WritesGroup
  <2>7. PICK c : c = CallsOf(group.members)
    BY Zenon
  <2>8. /\ c \in Seq(Threads \X Nat) /\ Range(c) = {Call(u) : u \in Range(group.members)}
        /\ \A u \in Range(group.members) : u \in Threads /\ pc[u] # "idle"
    BY <2>1, <2>3, <2>7, CallsOfGroup, Zenon
  <2>9. Range(applied') = Range(applied) \cup Range(c)
    <3> DEFINE S == Threads \X Nat
    <3>1. applied \in Seq(S)
      BY <2>1, Zenon DEF KInv, Numbered
    <3>2. c \in Seq(S)
      BY <2>8, Zenon
    <3> HIDE DEF S
    <3> QED
      <4>1. Range(applied \o c) = Range(applied) \cup Range(c)
        BY <3>1, <3>2, <2>RangeOfConcat
      <4>2. applied' = applied \o c
        BY <2>2, <2>7, Zenon
      <4> QED
        BY <4>1, <4>2, Zenon
  <2>10. ToldStays
    <3>1. /\ Range(applied) \subseteq Range(applied') /\ failed \subseteq failed'
          /\ \A d \in Range(applied') \cup failed' :
                \/ d \in Range(applied) \cup failed
                \/ \E u \in Threads : pc[u] # "idle" /\ d = Call(u)
      BY <2>2, <2>8, <2>9, Zenon
    <3>2. /\ durable \subseteq durable' /\ durable \subseteq DOMAIN log
          /\ \A i \in DOMAIN log : log'[i] = log[i]
      BY <2>1, <2>2, Zenon DEF Synced
    <3>3. "retire" \in {"append", "sync", "insert", "retire"}
      OBVIOUS
    <3> QED
      BY <2>2, <2>3, <3>1, <3>2, <3>3, <1>LeaderGoesOn, Zenon
  <2>11. Phases'
    BY <2>4, <2>5, <2>6, Zenon DEF Phases, HasGroup
  <2>12. Outcomes'
    <3>1. \A u \in Range(group'.members) : Call(u)' \in Range(applied')
      BY <2>5, <2>8, <2>9, <2>10, Zenon DEF ToldStays
    <3> QED
      BY <2>5, <2>10, <3>1, Zenon DEF ToldStays, Outcomes
  <2>13. /\ log # <<>> /\ log \in Seq(Record)
         /\ \A i \in DOMAIN log : log[i].ok
         /\ log[Len(log)].calls = c
         /\ applied = Replay(log)[Len(log) - 1]
    BY <2>1, <2>2, <2>7, Zenon DEF LogState, Logged
  <2>14. Len(log) \in DOMAIN log
    BY <2>13
  <2>15. LogState'
    <3>1. applied' = Replay(log)[Len(log)]
      BY <2>2, <2>7, <2>13, <2>14, <2>ReplayLast, Zenon
    <3>2. Clean'
      BY <2>2, <2>13, <3>1, Zenon DEF Clean
    <3>3. LogAgreesWithMemory'
      BY <2>2, <2>13, <3>1, Zenon DEF LogAgreesWithMemory
    <3> QED
      BY <2>2, <2>6, <2>13, <3>2, <3>3, Zenon DEF LogState
  <2>16. Counted'
    <3>1. SequencesFollowLog' /\ NextBase' = NextBase
      BY <2>1, <2>2, Zenon DEF Counted, SequencesFollowLog, NextBase
    <3> QED
      BY <2>1, <2>2, <2>6, <3>1, Zenon DEF Counted
  <2>17. Synced'
    <3>1. durable' \subseteq DOMAIN log' /\ logStart' \in 0..Len(log')
      BY <2>1, <2>2, Zenon DEF Synced
    <3>2. ASSUME NEW v \in Range(group'.members), WantsSync(v)'
          PROVE  group'.sync
      BY <2>1, <2>3, <2>5, <2>10, <3>2, Zenon DEF ToldStays, Synced
    <3>3. ASSUME NEW v \in Range(group'.members), group'.sync
          PROVE  OnDevice(Call(v))'
      <4>1. Len(log) \in durable
        BY <2>1, <2>2, <2>5, <3>3, Zenon DEF Synced
      <4>2. OnDevice(Call(v)) /\ Call(v)' = Call(v)
        BY <2>5, <2>8, <2>10, <2>13, <3>3, <4>1, Zenon DEF OnDevice, ToldStays
      <4> QED
        BY <2>2, <4>2, Zenon DEF OnDevice
    <3> QED
      BY <2>6, <2>10, <3>1, <3>2, <3>3, Zenon DEF ToldStays, Synced
  <2> QED
    BY <2>10, <2>11, <2>12, <2>15, <2>16, <2>17, Zenon DEF ToldStays, Decided
<1>1. ASSUME NEW t \in Threads, NEW sync \in BOOLEAN, Write(t, sync)
      PROVE  Decided'
  BY <1>1, <1>WriteDecided, Zenon
<1>2. ASSUME NEW t \in Threads, WriteOn(t)
      PROVE  Decided'
  <2>1. CASE \/ WakeLeads(t) \/ LeadDrains(t) \/ WaitForRoom(t) \/ RoomWoken(t)
             \/ Rotate(t)
    BY <2>1, LeaderQuiet, <1>QuietDecided, Zenon
  <2>2. CASE \/ WakeDone(t) \/ LeadFails(t) \/ StartGroup(t) \/ Retire(t)
    BY <2>2, <1>WakeDoneDecided, <1>LeadFailsDecided, <1>StartGroupDecided, <1>RetireDecided, Zenon
  <2>3. CASE \/ AddRecord(t) \/ AddRecordFails(t) \/ SyncLog(t) \/ SyncFails(t)
             \/ InsertGroup(t)
    BY <2>3, <1>AddRecordDecided, <1>AddRecordFailsDecided, <1>SyncLogDecided, <1>SyncFailsDecided,
       <1>InsertGroupDecided, Zenon
  <2> QED
    BY <1>2, <2>1, <2>2, <2>3, Zenon DEF WriteOn
<1>3. ASSUME NEW t \in Maintainers, CallMaintenance(t)
      PROVE  Decided'
  BY <1>3, GroupCommitAssumption, <1>CallMaintenanceDecided, Zenon
<1>4. ASSUME NEW t \in Threads, MaintenanceOn(t)
      PROVE  Decided'
  BY <1>4, MaintenanceQuiet, <1>QuietDecided, Zenon
<1>5. ASSUME Background \/ Close \/ Tick \/ UNCHANGED vars
      PROVE  Decided'
  BY <1>5, BackgroundQuiet, <1>QuietDecided, Zenon
<1> QED
  BY <1>1, <1>2, <1>3, <1>4, <1>5, Zenon DEF Next

=============================================================================
