------------------------- MODULE GroupCommitProofs --------------------------
(***************************************************************************)
(* What holds of GroupCommit for any number of threads, calls and batches: *)
(* FlushMemTable, CompactAll and WaitForBackgroundWork beside the writers  *)
(* keep CInv; its types; that it implements SerialLog (the calls of Write  *)
(* take effect one after the other, in the order of arrival); and the      *)
(* theorems.                                                               *)
(***************************************************************************)
EXTENDS CommitSteps

-----------------------------------------------------------------------------
(* Who maintains *)

Maintained == Alone /\ Rounds /\ Flushed

SamePlace(u) ==
    /\ pc'[u] = pc[u] /\ asked'[u] = asked[u] /\ DOMAIN asked' = DOMAIN asked
    /\ self'[u].next = self[u].next /\ self'[u].waits = self[u].waits

\* Nothing that was stored is lost, and what left mem_ stays away.
Grows ==
    /\ Stored \subseteq Stored'
    /\ imm_ \cup current_ \subseteq imm_' \cup current_'

LEMMA NextMaintained ==
    ASSUME CInv, [Next]_vars
    PROVE  Maintained'
\* Who keeps its place keeps what is said of it.
<1>PlaceKept.
    ASSUME CInv, NEW u \in Threads, SamePlace(u), Grows
    PROVE  /\ InMaintenance(u)' <=> InMaintenance(u)
           /\ Round(u)' /\ OnItsWay(u)'
  <2> USE <1>PlaceKept
  <2>1. Round(u) /\ OnItsWay(u)
    BY Zenon DEF CInv, Rounds, Flushed
  <2>2. InMaintenance(u)' <=> InMaintenance(u)
    BY Zenon DEF SamePlace, InMaintenance, Maintaining, Leads
  <2>3. Round(u)'
    BY <2>1, <2>2, Zenon DEF SamePlace, Round
  <2>4. OnItsWay(u)'
    BY <2>1, <2>2, Zenon DEF SamePlace, OnItsWay, Grows
  <2> QED
    BY <2>2, <2>3, <2>4
\* How the tables may move.
<1>MovedGrows.
    ASSUME Moved
    PROVE  Grows
  BY <1>MovedGrows DEF Moved, Grows, Stored
\* A step that no caller takes.
<1>PassiveMaintained.
    ASSUME CInv, Grows, UNCHANGED <<pc, self, group, asked, background_compaction>>
    PROVE  Maintained'
  <2> USE <1>PassiveMaintained
  <2>1. \A u \in Threads : SamePlace(u)
    BY Zenon DEF SamePlace
  <2>2. \A u \in Threads : /\ InMaintenance(u)' <=> InMaintenance(u)
                           /\ Round(u)' /\ OnItsWay(u)'
    BY <2>1, <1>PlaceKept, Zenon
  <2>3. Alone'
    BY <2>2, Zenon DEF CInv, Alone, NoGroup
  <2> QED
    BY <2>2, <2>3, Zenon DEF Maintained, Rounds, Flushed
\* A step of a thread that writes: it does not maintain, before and after, and
\* without a background thread nobody does.
<1>WriterMaintained.
    ASSUME CInv, NEW t \in Threads, Grows,
           UNCHANGED <<background_compaction, asked>>, pc[t] # "idle",
           ~InMaintenance(t), ~InMaintenance(t)',
           \A u \in Threads \ {t} : SamePlace(u),
           pc'[t] \notin {"rotate", "waitbg"}, self'[t].waits \in 0..1,
           pc'[t] = "drain" => ~background_compaction /\ self'[t].next = "lead",
           group' \in {group, NoGroup} \/ \A u \in Threads : pc[u] # "rotate"
    PROVE  Maintained'
  <2> USE <1>WriterMaintained
  <2>1. Alone
    BY Zenon DEF CInv
  <2>2. \A u \in Threads \ {t} : /\ InMaintenance(u)' <=> InMaintenance(u)
                                 /\ Round(u)' /\ OnItsWay(u)'
                                 /\ pc'[u] = pc[u]
    BY <1>PlaceKept, Zenon DEF SamePlace
  <2>3. ~background_compaction => \A u \in Threads : ~InMaintenance(u)
    BY <2>1, Zenon DEF Alone
  <2>4. Alone'
    <3>1. \A u \in Threads : pc'[u] = "rotate" => group' = NoGroup
      BY <2>1, <2>2 DEF Alone
    <3>2. \A u \in Threads : pc'[u] = "drain" => ~background_compaction
      BY <2>1, <2>2, Zenon DEF Alone
    <3>3. ~background_compaction => \A u \in Threads : ~InMaintenance(u)'
      BY <2>2, <2>3, Zenon
    <3> QED
      BY <3>1, <3>2, <3>3, Zenon DEF Alone
  <2>5. Round(t)' /\ OnItsWay(t)'
    BY DEF CInv, Flushed, Round, OnItsWay
  <2> QED
    BY <2>2, <2>4, <2>5, Zenon DEF Maintained, Rounds, Flushed
\* A step of a thread that maintains: it was alone, or there is a background
\* thread.
<1>MaintainerMaintained.
    ASSUME CInv, NEW t \in Threads, Grows, background_compaction' = background_compaction,
           InMaintenance(t), group' = group,
           \A u \in Threads \ {t} : SamePlace(u),
           Round(t)', OnItsWay(t)',
           pc'[t] = "drain" => ~background_compaction,
           pc'[t] = "rotate" => group = NoGroup
    PROVE  Maintained'
  <2> USE <1>MaintainerMaintained
  <2>1. Alone
    BY Zenon DEF CInv
  <2>2. \A u \in Threads \ {t} : /\ InMaintenance(u)' <=> InMaintenance(u)
                                 /\ Round(u)' /\ OnItsWay(u)'
                                 /\ pc'[u] = pc[u]
    BY <1>PlaceKept, Zenon DEF SamePlace
  <2>3. pc[t] # "idle"
    BY DEF InMaintenance, Maintaining
  <2>4. ~background_compaction =>
           /\ \A u \in Threads \ {t} : pc[u] = "idle" /\ ~InMaintenance(u)
    BY <2>1, <2>3, Zenon DEF Alone
  <2>5. Alone'
    <3>1. \A u \in Threads : pc'[u] = "rotate" => group' = NoGroup
      BY <2>1, <2>2, Zenon DEF Alone
    <3>2. \A u \in Threads : pc'[u] = "drain" => ~background_compaction
      BY <2>1, <2>2, Zenon DEF Alone
    <3>3. ~background_compaction =>
             \A u \in Threads : InMaintenance(u)' =>
                \A v \in Threads \ {u} : pc'[v] = "idle"
      BY <2>2, <2>4, Zenon
    <3> QED
      BY <3>1, <3>2, <3>3, Zenon DEF Alone
  <2> QED
    BY <2>2, <2>5, Zenon DEF Maintained, Rounds, Flushed
\* A new Write begins beside no one that maintains alone.
<1>WriteMaintained.
    ASSUME CInv, NEW t \in Threads, NEW sync \in BOOLEAN, Write(t, sync)
    PROVE  Maintained'
  <2> USE <1>WriteMaintained
  <2>1. Alone /\ Rounds /\ LInv
    BY Zenon DEF CInv, KInv
  <2>2. /\ background_compaction \/
              \A u \in Threads : ~Maintaining(u) \/ self[u].next = "lead"
        /\ self' = [self EXCEPT ![t] = [NoWriter EXCEPT !.sync = sync]]
        /\ \E at \in {"lead", "wait"} : pc' = [pc EXCEPT ![t] = at]
        /\ UNCHANGED <<group, mem_, imm_, current_, asked, background_compaction>>
    BY Zenon DEF Write, Calling, memVars, treeVars, bgVars
  <2>3. DOMAIN pc = Threads /\ DOMAIN self = Threads
    BY <2>1, Zenon DEF LInv, Fields
  <2>4. \A u \in Threads \ {t} : SamePlace(u)
    BY <2>2, <2>3 DEF SamePlace
  <2>5. Grows
    BY <2>2, <1>MovedGrows, Zenon DEF Moved
  <2>6. \A u \in Threads \ {t} : /\ InMaintenance(u)' <=> InMaintenance(u)
                                 /\ Round(u)' /\ OnItsWay(u)'
                                 /\ pc'[u] = pc[u]
    BY <2>4, <2>5, <1>PlaceKept, Zenon DEF SamePlace
  <2>7. pc'[t] \in {"lead", "wait"} /\ self'[t] = [NoWriter EXCEPT !.sync = sync]
    BY <2>2, <2>3
  <2>8. self'[t].waits = 0
    BY <2>7 DEF NoWriter
  <2>9. ~InMaintenance(t)' /\ Round(t)' /\ OnItsWay(t)'
    BY <2>2, <2>7, <2>8 DEF CInv, Flushed, InMaintenance, Maintaining, Round, OnItsWay
  <2>10. ~background_compaction => \A u \in Threads : ~InMaintenance(u)
    BY <2>1, <2>2, Zenon DEF Rounds, Round, InMaintenance
  <2>11. Alone'
    <3>1. \A u \in Threads : pc'[u] = "rotate" => group' = NoGroup
      BY <2>1, <2>2, <2>6, <2>7 DEF Alone
    <3>2. \A u \in Threads : pc'[u] = "drain" => ~background_compaction'
      BY <2>1, <2>2, <2>6, <2>7 DEF Alone
    <3>3. ~background_compaction' => \A u \in Threads : ~InMaintenance(u)'
      BY <2>2, <2>6, <2>9, <2>10, Zenon
    <3> QED
      BY <3>1, <3>2, <3>3, Zenon DEF Alone
  <2> QED
    BY <2>6, <2>9, <2>11, Zenon DEF Maintained, Rounds, Flushed
\* Without a background thread the new caller is alone; what it asked for is
\* in mem_.
<1>CallMaintenanceMaintained.
    ASSUME CInv, NEW t \in Threads, CallMaintenance(t)
    PROVE  Maintained'
  <2> USE <1>CallMaintenanceMaintained
  <2>1. Alone /\ Rounds /\ LInv
    BY Zenon DEF CInv, KInv
  <2>2. PICK at \in {"flush", "waitbg"}, waits \in 0..1 :
           /\ at = "waitbg" => waits = 1
           /\ pc' = [pc EXCEPT ![t] = at]
           /\ self' = [self EXCEPT ![t] = [NoWriter EXCEPT !.waits = waits]]
           /\ asked' = [asked EXCEPT ![t] = IF at = "flush" THEN mem_ ELSE {}]
    BY Zenon DEF CallMaintenance, Goto
  <2>3. /\ background_compaction \/ \A u \in Threads : pc[u] = "idle"
        /\ UNCHANGED <<group, mem_, imm_, current_, background_compaction>>
    BY Zenon DEF CallMaintenance, Calling, memVars, treeVars, bgVars
  <2>4. DOMAIN pc = Threads /\ DOMAIN self = Threads
    BY <2>1, Zenon DEF LInv, Fields
  <2>5. \A u \in Threads \ {t} : SamePlace(u)
    BY <2>2, <2>4 DEF SamePlace
  <2>6. Grows
    BY <2>3, <1>MovedGrows, Zenon DEF Moved
  <2>7. \A u \in Threads \ {t} : /\ InMaintenance(u)' <=> InMaintenance(u)
                                 /\ Round(u)' /\ OnItsWay(u)'
                                 /\ pc'[u] = pc[u]
    BY <2>5, <2>6, <1>PlaceKept, Zenon DEF SamePlace
  <2>8. pc'[t] = at /\ self'[t] = [NoWriter EXCEPT !.waits = waits]
    BY <2>2, <2>4
  <2>9. self'[t].waits = waits /\ self'[t].next = "idle"
    BY <2>8 DEF NoWriter
  <2>10. Round(t)'
    BY <2>2, <2>8, <2>9 DEF Round
  <2>11. /\ t \in DOMAIN asked'
         /\ asked'[t] = IF at = "flush" THEN mem_ ELSE {}
    BY <2>2 DEF CInv, Flushed, OnItsWay
  <2>12. OnItsWay(t)'
    BY <2>2, <2>3, <2>8, <2>11 DEF OnItsWay, Stored
  <2>13. Alone'
    <3>1. \A u \in Threads : pc'[u] = "rotate" => group' = NoGroup
      BY <2>1, <2>3, <2>7, <2>8 DEF Alone
    <3>2. \A u \in Threads : pc'[u] = "drain" => ~background_compaction'
      BY <2>1, <2>3, <2>7, <2>8 DEF Alone
    <3>3. ~background_compaction' =>
             \A u \in Threads \ {t} : pc'[u] = "idle" /\ ~InMaintenance(u)'
      BY <2>3, <2>7 DEF InMaintenance, Maintaining
    <3> QED
      BY <3>1, <3>2, <3>3, Zenon DEF Alone
  <2> QED
    BY <2>7, <2>10, <2>12, <2>13, Zenon DEF Maintained, Rounds, Flushed
\* A group is being written: nobody rotates beside it.
<1>NobodyRotates.
    ASSUME CInv, NEW t \in Threads, HasGroup(t) \/ (pc[t] = "lead" /\ mu_ = t)
    PROVE  \A u \in Threads : pc[u] # "rotate"
  <2> USE <1>NobodyRotates
  <2> SUFFICES ASSUME NEW u \in Threads, pc[u] = "rotate" PROVE FALSE
    BY Zenon
  <2>1. LInv /\ RotatorHolds /\ Alone
    BY Zenon DEF CInv, KInv
  <2>2. mu_ = u /\ group = NoGroup
    BY <2>1, Zenon DEF RotatorHolds, Alone
  <2>3. ~HasGroup(t)
    <3> SUFFICES ASSUME HasGroup(t) PROVE FALSE
      BY Zenon
    <3>1. group.members = <<>>
      BY <2>2 DEF NoGroup
    <3>2. FrontOf(group.members)
      BY <2>1, Zenon DEF LInv, GroupInFront
    <3> QED
      BY <2>1, <3>1, <3>2 DEF FrontOf, LInv, Fields
  <2> QED
    BY <2>2, <2>3
\* The steps of a Write.
<1>WriteOnMaintained.
    ASSUME CInv, NEW t \in Threads, WriteOn(t)
    PROVE  Maintained'
  <2> USE <1>WriteOnMaintained
  <2>1. LInv /\ Round(t) /\ DOMAIN pc = Threads /\ DOMAIN self = Threads
    BY Zenon DEF CInv, KInv, LInv, Fields, Rounds
  <2>2. pc[t] \in {"wait", "lead", "room", "append", "sync", "insert", "retire"}
    BY Zenon DEF WriteOn, WakeDone, WakeLeads, LeadFails, LeadDrains, WaitForRoom,
                 RoomWoken, Rotate, StartGroup, AddRecord, AddRecordFails, SyncLog,
                 SyncFails, InsertGroup, Retire
  <2>3. /\ pc[t] # "idle" /\ ~InMaintenance(t) /\ pc[t] # "waitbg"
        /\ self[t].waits \in 0..1
    BY <2>1, <2>2 DEF InMaintenance, Maintaining, Round
  <2>4. UNCHANGED <<background_compaction, asked>>
    BY Zenon DEF WriteOn, WakeDone, WakeLeads, LeadFails, LeadDrains, WaitForRoom,
                 RoomWoken, Rotate, SwapMemTable, StartGroup, AddRecord, AddRecordFails,
                 SyncLog, SyncFails, InsertGroup, Retire, memVars, bgVars, history
  <2>5. Grows
    <3>1. CASE InsertGroup(t)
      <4>1. /\ mem_ \subseteq mem_' /\ imm_' = imm_ /\ current_' = current_
        BY <3>1, Zenon DEF InsertGroup
      <4> QED
        BY <4>1, Zenon DEF Grows, Stored
    <3>2. CASE ~InsertGroup(t)
      <4>1. Moved
        BY <3>2, Zenon DEF WriteOn, WakeDone, WakeLeads, LeadFails, LeadDrains, WaitForRoom,
                 RoomWoken, Rotate, SwapMemTable, StartGroup, AddRecord, AddRecordFails,
                 SyncLog, SyncFails, Retire, memVars, treeVars, Moved
      <4> QED
        BY <4>1, <1>MovedGrows, Zenon
    <3> QED
      BY <3>1, <3>2
  <2>6. group' \in {group, NoGroup} \/ \A u \in Threads : pc[u] # "rotate"
    <3>1. \/ group' \in {group, NoGroup}
          \/ HasGroup(t) \/ (pc[t] = "lead" /\ mu_ = t)
      BY Zenon DEF WriteOn, WakeDone, WakeLeads, LeadFails, LeadDrains, WaitForRoom,
                 RoomWoken, Rotate, StartGroup, AddRecord, AddRecordFails, SyncLog,
                 SyncFails, InsertGroup, Retire, HasGroup
    <3> QED
      BY <3>1, <1>NobodyRotates, Zenon
  <2>7. CASE LeadDrains(t)
    <3>1. /\ pc' = [pc EXCEPT ![t] = "drain"] /\ ~background_compaction
          /\ self' = [self EXCEPT ![t].next = "lead", ![t].waits = 0]
      BY <2>7, Zenon DEF LeadDrains, Drain
    <3>2. /\ pc'[t] = "drain" /\ self'[t].next = "lead" /\ self'[t].waits = 0
          /\ \A u \in Threads \ {t} : pc'[u] = pc[u] /\ self'[u] = self[u]
      BY <2>1, <3>1 DEF LInv, Fields, WriterFields
    <3>3. ~InMaintenance(t)' /\ pc'[t] \notin {"rotate", "waitbg"} /\ self'[t].waits \in 0..1
      BY <3>2 DEF InMaintenance, Leads
    <3>4. \A u \in Threads \ {t} : SamePlace(u)
      BY <2>4, <3>2, Zenon DEF SamePlace
    <3> QED
      BY <2>3, <2>4, <2>5, <2>6, <3>1, <3>2, <3>3, <3>4, <1>WriterMaintained, Zenon
  <2>8. CASE ~LeadDrains(t)
    <3>1. \/ pc' = pc
          \/ \E at \in {"idle", "lead", "room", "append", "sync", "insert", "retire"} :
                pc' = [pc EXCEPT ![t] = at]
      BY <2>8, Zenon DEF WriteOn, WakeDone, WakeLeads, LeadFails, WaitForRoom, RoomWoken,
                 Rotate, StartGroup, AddRecord, AddRecordFails, SyncLog, SyncFails,
                 InsertGroup, Retire
    <3>2. /\ pc'[t] \in {"idle", "wait", "lead", "room", "append", "sync", "insert", "retire"}
          /\ \A u \in Threads \ {t} : pc'[u] = pc[u]
      BY <2>1, <2>2, <3>1
    <3>3. \A u \in Threads : self'[u].next = self[u].next /\ self'[u].waits = self[u].waits
      <4>1. CASE Retire(t)
        <5>1. self' = [u \in Threads |->
                         IF u \in Range(group.members) \ {t}
                         THEN [self[u] EXCEPT !.done = TRUE, !.status = group.status]
                         ELSE self[u]]
          BY <4>1, Zenon DEF Retire, Finished
        <5>2. \A u \in Threads : DOMAIN self[u] = WriterFields
          BY <2>1, Zenon DEF LInv, Fields
        <5> QED
          BY <5>1, <5>2, Zenon DEF WriterFields
      <4>2. CASE ~Retire(t)
        <5>1. self' = self
          BY <2>8, <4>2, Zenon DEF WriteOn, WakeDone, WakeLeads, LeadFails, WaitForRoom,
                 RoomWoken, Rotate, StartGroup, AddRecord, AddRecordFails, SyncLog,
                 SyncFails, InsertGroup
        <5> QED
          BY <5>1
      <4> QED
        BY <4>1, <4>2
    <3>4. /\ ~InMaintenance(t)' /\ pc'[t] \notin {"rotate", "waitbg"} /\ pc'[t] # "drain"
          /\ self'[t].waits \in 0..1
      <4>1. pc'[t] \notin {"flush", "rotate", "waitbg", "drain"}
        BY <3>2
      <4> QED
        BY <2>3, <3>3, <4>1, Zenon DEF InMaintenance, Maintaining
    <3>5. \A u \in Threads \ {t} : SamePlace(u)
      BY <2>4, <3>2, <3>3, Zenon DEF SamePlace
    <3> QED
      BY <2>3, <2>4, <2>5, <2>6, <3>4, <3>5, <1>WriterMaintained, Zenon
  <2> QED
    BY <2>7, <2>8
\* The background thread, the clock and the destructor.
<1>BackgroundMaintained.
    ASSUME CInv, Background \/ Close \/ Tick \/ UNCHANGED vars
    PROVE  Maintained'
  <2> USE <1>BackgroundMaintained
  <2>1. UNCHANGED <<pc, self, group, asked, background_compaction>>
    BY Zenon DEF Background, BgWork, BgSleep, BgFlushBuilt, BgCompacted, BgCommitted,
                 BgFails, Close, Tick, vars, memVars, bgVars, queueVars, history
  <2>2. Moved
    BY Zenon DEF Background, BgWork, BgSleep, BgFlushBuilt, BgCompacted, BgCommitted,
                 BgFails, Close, Tick, vars, memVars, treeVars, Moved
  <2> QED
    BY <2>1, <2>2, <1>MovedGrows, <1>PassiveMaintained, Zenon
\* What a caller that maintains may do, and where it may come to.
<1>MaintainerLands.
    ASSUME CInv, NEW t \in Threads, InMaintenance(t), Grows,
           UNCHANGED <<background_compaction, asked, group>>,
           \A u \in Threads \ {t} : SamePlace(u),
           \/ pc'[t] = "idle" /\ self'[t].waits = 0
           \/ SamePlace(t)
           \/ /\ pc'[t] = "rotate" /\ self'[t].waits \in 0..1
              /\ self'[t].next # "lead" /\ group = NoGroup
           \/ /\ pc'[t] = "waitbg" /\ self'[t].waits \in 1..2
              /\ self'[t].next # "lead" /\ asked[t] \subseteq imm_' \cup current_'
           \/ /\ pc'[t] = "drain" /\ self'[t].waits \in 0..1 /\ ~background_compaction
              /\ \/ self'[t].next = "rotate"
                 \/ self'[t].next = "waitbg" /\ asked[t] \subseteq imm_' \cup current_'
    PROVE  Maintained'
  <2> USE <1>MaintainerLands
  <2>1. Alone /\ Round(t) /\ OnItsWay(t)
    BY Zenon DEF CInv, Rounds, Flushed
  <2>2. Round(t)'
    <3>1. CASE SamePlace(t)
      BY <3>1, <1>PlaceKept, Zenon
    <3>2. CASE ~SamePlace(t)
      <4>1. InMaintenance(t)' => self'[t].next # "lead"
        BY <3>2 DEF InMaintenance, Maintaining
      <4> QED
        BY <3>2, <4>1 DEF Round
    <3> QED
      BY <3>1, <3>2
  <2>3. OnItsWay(t)'
    <3>1. CASE SamePlace(t)
      BY <3>1, <1>PlaceKept, Zenon
    <3>2. CASE ~SamePlace(t)
      <4>1. t \in DOMAIN asked' /\ asked'[t] \subseteq Stored'
        BY <2>1, Zenon DEF OnItsWay, Grows
      <4>2. (pc'[t] = "waitbg" \/ (pc'[t] = "drain" /\ self'[t].next = "waitbg"))
               => asked'[t] \subseteq imm_' \cup current_'
        <5>1. CASE pc'[t] = "idle" \/ pc'[t] = "rotate"
          BY <5>1
        <5>2. CASE pc'[t] = "waitbg"
          BY <3>2, <5>2
        <5>3. CASE pc'[t] = "drain"
          BY <3>2, <5>3
        <5> QED
          BY <3>2, <5>1, <5>2, <5>3, Zenon
      <4> QED
        BY <4>1, <4>2, Zenon DEF OnItsWay
    <3> QED
      BY <3>1, <3>2
  <2>4. pc'[t] = "drain" => ~background_compaction
    BY <2>1 DEF Alone, SamePlace
  <2>5. pc'[t] = "rotate" => group = NoGroup
    BY <2>1 DEF Alone, SamePlace
  <2> QED
    BY <2>2, <2>3, <2>4, <2>5, <1>MaintainerMaintained, Zenon
\* The places and fields after the three moves of a caller.
<1>ReturnsLands.
    ASSUME LInv, NEW t \in Threads, NEW status, Returns(t, status), asked' = asked
    PROVE  /\ pc'[t] = "idle" /\ self'[t].waits = 0 /\ self'[t].status = status
           /\ \A u \in Threads \ {t} : SamePlace(u)
  <2> USE <1>ReturnsLands
  <2>1. DOMAIN pc = Threads /\ DOMAIN self = Threads /\ DOMAIN self[t] = WriterFields
    BY Zenon DEF LInv, Fields
  <2>2. /\ pc' = [pc EXCEPT ![t] = "idle"]
        /\ self' = [self EXCEPT ![t].status = status, ![t].waits = 0]
    BY Zenon DEF Returns, Goto
  <2> QED
    BY <2>1, <2>2 DEF SamePlace, WriterFields
<1>GotoLands.
    ASSUME LInv, NEW t \in Threads, NEW at, Goto(t, at), asked' = asked, self' = self
    PROVE  /\ pc'[t] = at /\ \A u \in Threads \ {t} : SamePlace(u)
  <2> USE <1>GotoLands
  <2>1. DOMAIN pc = Threads
    BY Zenon DEF LInv, Fields
  <2> QED
    BY <2>1, Zenon DEF SamePlace, Goto
<1>WaitsLands.
    ASSUME LInv, NEW t \in Threads, NEW w, asked' = asked,
           pc' = pc \/ Goto(t, "waitbg"), self' = [self EXCEPT ![t].waits = w]
    PROVE  /\ pc' = pc => pc'[t] = pc[t]
           /\ Goto(t, "waitbg") => pc'[t] = "waitbg"
           /\ self'[t].waits = w /\ self'[t].next = self[t].next
           /\ \A u \in Threads \ {t} : SamePlace(u)
  <2> USE <1>WaitsLands
  <2>1. DOMAIN pc = Threads /\ DOMAIN self = Threads /\ DOMAIN self[t] = WriterFields
    BY Zenon DEF LInv, Fields
  <2> QED
    BY <2>1 DEF SamePlace, WriterFields, Goto
<1>DrainLands.
    ASSUME LInv, NEW t \in Threads, NEW next, NEW w, Drain(t, next, w), asked' = asked
    PROVE  /\ pc'[t] = "drain" /\ self'[t].next = next /\ self'[t].waits = w
           /\ \A u \in Threads \ {t} : SamePlace(u)
  <2> USE <1>DrainLands
  <2>1. DOMAIN pc = Threads /\ DOMAIN self = Threads /\ DOMAIN self[t] = WriterFields
    BY Zenon DEF LInv, Fields
  <2>2. /\ pc' = [pc EXCEPT ![t] = "drain"]
        /\ self' = [self EXCEPT ![t].next = next, ![t].waits = w]
    BY Zenon DEF Drain
  <2> QED
    BY <2>1, <2>2 DEF SamePlace, WriterFields
\* FlushMemTable before it rotates, ...
<1>FlushLoopMaintained.
    ASSUME CInv, NEW t \in Threads, FlushLoop(t)
    PROVE  Maintained'
  <2> USE <1>FlushLoopMaintained
  <2>1. LInv /\ Round(t) /\ DOMAIN pc = Threads
    BY Zenon DEF CInv, KInv, LInv, Fields, Rounds
  <2>2. /\ pc[t] = "flush"
        /\ UNCHANGED <<background_compaction, asked, group, mem_, imm_, current_>>
    BY Zenon DEF FlushLoop, treeVars, history
  <2>3. Grows
    BY <2>2, <1>MovedGrows, Zenon DEF Moved
  <2>4. InMaintenance(t)
    BY <2>2 DEF InMaintenance, Maintaining, Leads
  <2>5. self[t].next # "lead" /\ self[t].waits \in 0..1
    BY <2>1, <2>2, <2>4 DEF Round
  <2>6. CASE Returns(t, "err")
    BY <2>1, <2>2, <2>3, <2>4, <2>6, <1>ReturnsLands, <1>MaintainerLands, Zenon
  <2>7. CASE UNCHANGED <<pc, self>>
    <3>1. \A u \in Threads : SamePlace(u)
      BY <2>2, <2>7, Zenon DEF SamePlace
    <3> QED
      BY <2>2, <2>3, <2>4, <3>1, <1>MaintainerLands, Zenon
  <2>8. CASE ~background_compaction /\ Drain(t, "rotate", self[t].waits)
    <3>1. PICK w : w = self[t].waits
      BY Zenon
    <3>2. Drain(t, "rotate", w)
      BY <2>8, <3>1, Zenon
    <3> QED
      BY <2>1, <2>2, <2>3, <2>4, <2>5, <2>8, <3>1, <3>2, <1>DrainLands, <1>MaintainerLands, ZenonT(40)
  <2>9. CASE group = NoGroup /\ Goto(t, "rotate") /\ self' = self
    <3>1. pc'[t] = "rotate" /\ \A u \in Threads \ {t} : SamePlace(u)
      BY <2>1, <2>2, <2>9, <1>GotoLands, Zenon
    <3> QED
      BY <2>2, <2>3, <2>4, <2>5, <2>9, <3>1, <1>MaintainerLands, Zenon
  <2> QED
    BY <2>6, <2>7, <2>8, <2>9, Zenon DEF FlushLoop
\* ... when it has nothing to flush, or cannot, ...
<1>FlushReturnsMaintained.
    ASSUME CInv, NEW t \in Threads, FlushReturns(t)
    PROVE  Maintained'
  <2> USE <1>FlushReturnsMaintained
  <2>1. LInv /\ Round(t) /\ OnItsWay(t) /\ DOMAIN pc = Threads
    BY Zenon DEF CInv, KInv, LInv, Fields, Rounds, Flushed
  <2>2. /\ pc[t] = "rotate"
        /\ UNCHANGED <<background_compaction, asked, group, mem_, imm_, current_>>
    BY Zenon DEF FlushReturns, memVars, treeVars, bgVars, history
  <2>3. Grows
    BY <2>2, <1>MovedGrows, Zenon DEF Moved
  <2>4. InMaintenance(t)
    BY <2>2 DEF InMaintenance, Maintaining, Leads
  <2>5. self[t].next # "lead" /\ self[t].waits \in 0..1
    BY <2>1, <2>2, <2>4 DEF Round
  <2>6. CASE \E status : Returns(t, status)
    BY <2>1, <2>2, <2>3, <2>4, <2>6, <1>ReturnsLands, <1>MaintainerLands, Zenon
  <2>7. CASE mem_ = {} /\ self[t].waits > 0 /\ Goto(t, "waitbg") /\ self' = self
    <3>1. pc'[t] = "waitbg" /\ \A u \in Threads \ {t} : SamePlace(u)
      BY <2>1, <2>2, <2>7, <1>GotoLands, Zenon
    <3>2. self'[t].waits \in 1..2 /\ self'[t].next # "lead"
      BY <2>5, <2>7
    <3>3. asked[t] \subseteq imm_' \cup current_'
      BY <2>1, <2>2, <2>4, <2>7, Zenon DEF OnItsWay, Stored
    <3> QED
      BY <2>2, <2>3, <2>4, <3>1, <3>2, <3>3, <1>MaintainerLands, Zenon
  <2> QED
    BY <2>6, <2>7, Zenon DEF FlushReturns
\* ... and when it rotates.
<1>FlushRotateMaintained.
    ASSUME CInv, NEW t \in Threads, FlushRotate(t)
    PROVE  Maintained'
  <2> USE <1>FlushRotateMaintained
  <2>1. LInv /\ Round(t) /\ OnItsWay(t) /\ RotatorHolds
    BY Zenon DEF CInv, KInv, Rounds, Flushed
  <2>2. /\ pc[t] = "rotate" /\ imm_' = mem_ /\ mem_' = {}
        /\ UNCHANGED <<background_compaction, asked, group, current_>>
    BY Zenon DEF FlushRotate, SwapMemTable
  <2>3. imm_ = {}
    BY <2>1, <2>2, Zenon DEF RotatorHolds
  <2>4. Grows
    BY <2>2, <2>3, <1>MovedGrows, Zenon DEF Moved
  <2>5. InMaintenance(t)
    BY <2>2 DEF InMaintenance, Maintaining, Leads
  <2>6. /\ self[t].next # "lead" /\ self[t].waits \in 0..1
        /\ asked[t] \subseteq imm_' \cup current_'
    BY <2>1, <2>2, <2>3, <2>5 DEF Round, OnItsWay, Stored
  <2>7. CASE Returns(t, "ok")
    BY <2>1, <2>2, <2>4, <2>5, <2>7, <1>ReturnsLands, <1>MaintainerLands, Zenon
  <2>8. CASE /\ Goto(t, "waitbg")
             /\ self' = [self EXCEPT ![t].waits = WaitsOfFlush(t)]
    <3>1. PICK w : w = WaitsOfFlush(t)
      BY Zenon
    <3>2. w \in 1..2
      BY <2>6, <3>1 DEF WaitsOfFlush
    <3>3. self' = [self EXCEPT ![t].waits = w]
      BY <2>8, <3>1, Zenon
    <3>4. /\ pc'[t] = "waitbg" /\ self'[t].waits = w /\ self'[t].next = self[t].next
          /\ \A u \in Threads \ {t} : SamePlace(u)
      BY <2>1, <2>2, <2>8, <3>3, <1>WaitsLands, Zenon
    <3> QED
      BY <2>2, <2>4, <2>5, <2>6, <3>2, <3>4, <1>MaintainerLands, Zenon
  <2>9. CASE ~background_compaction /\ Drain(t, "waitbg", self[t].waits)
    <3>1. PICK w : w = self[t].waits
      BY Zenon
    <3>2. Drain(t, "waitbg", w)
      BY <2>9, <3>1, Zenon
    <3> QED
      BY <2>1, <2>2, <2>4, <2>5, <2>6, <2>9, <3>1, <3>2, <1>DrainLands, <1>MaintainerLands, Zenon
  <2> QED
    BY <2>7, <2>8, <2>9 DEF FlushRotate
\* WaitForBackgroundWork.
<1>WaitLoopMaintained.
    ASSUME CInv, NEW t \in Threads, WaitLoop(t)
    PROVE  Maintained'
  <2> USE <1>WaitLoopMaintained
  <2>1. LInv /\ Round(t) /\ OnItsWay(t)
    BY Zenon DEF CInv, KInv, Rounds, Flushed
  <2>2. /\ pc[t] = "waitbg"
        /\ UNCHANGED <<background_compaction, asked, group, mem_, imm_, current_>>
    BY Zenon DEF WaitLoop, treeVars, history
  <2>3. Grows
    BY <2>2, <1>MovedGrows, Zenon DEF Moved
  <2>4. InMaintenance(t)
    BY <2>2 DEF InMaintenance, Maintaining, Leads
  <2>5. /\ self[t].next # "lead" /\ self[t].waits \in 1..2
        /\ asked[t] \subseteq imm_' \cup current_'
    BY <2>1, <2>2, <2>4 DEF Round, OnItsWay
  <2>6. CASE \E status : Returns(t, status)
    BY <2>1, <2>2, <2>3, <2>4, <2>6, <1>ReturnsLands, <1>MaintainerLands, Zenon
  <2>7. CASE UNCHANGED <<pc, self>>
    <3>1. \A u \in Threads : SamePlace(u)
      BY <2>2, <2>7, Zenon DEF SamePlace
    <3> QED
      BY <2>2, <2>3, <2>4, <3>1, <1>MaintainerLands, Zenon
  <2>8. CASE /\ self[t].waits # 1 /\ pc' = pc
             /\ self' = [self EXCEPT ![t].waits = @ - 1]
    <3>1. PICK w : w = self[t].waits - 1
      BY Zenon
    <3>2. w \in 1..2
      BY <2>5, <2>8, <3>1
    <3>3. self' = [self EXCEPT ![t].waits = w]
      BY <2>8, <3>1, Zenon
    <3>4. /\ pc'[t] = "waitbg" /\ self'[t].waits = w /\ self'[t].next = self[t].next
          /\ \A u \in Threads \ {t} : SamePlace(u)
      BY <2>1, <2>2, <2>8, <3>3, <1>WaitsLands, ZenonT(40)
    <3> QED
      BY <2>2, <2>3, <2>4, <2>5, <3>2, <3>4, <1>MaintainerLands, Zenon
  <2>9. CASE ~background_compaction /\ Drain(t, "waitbg", self[t].waits - 1)
    <3>1. PICK w : w = self[t].waits - 1
      BY Zenon
    <3>2. Drain(t, "waitbg", w)
      BY <2>9, <3>1, Zenon
    <3>3. w \in 0..1
      BY <2>5, <3>1
    <3> QED
      BY <2>1, <2>2, <2>3, <2>4, <2>5, <2>9, <3>2, <3>3, <1>DrainLands, <1>MaintainerLands, Zenon
  <2> QED
    BY <2>6, <2>7, <2>8, <2>9, Zenon DEF WaitLoop
\* The end of a drain, of a leader or of a caller that maintains.
<1>DrainEndsMaintained.
    ASSUME CInv, NEW t \in Threads, DrainEnds(t)
    PROVE  Maintained'
  <2> USE <1>DrainEndsMaintained
  <2>1. LInv /\ Round(t) /\ OnItsWay(t) /\ Alone /\ Phases
    BY Zenon DEF CInv, KInv, Rounds, Flushed
  <2>2. /\ pc[t] = "drain"
        /\ UNCHANGED <<background_compaction, asked, group, mem_, imm_, current_>>
    BY Zenon DEF DrainEnds, treeVars, history
  <2>3. Grows
    BY <2>2, <1>MovedGrows, Zenon DEF Moved
  <2>4. ~background_compaction /\ self[t].waits \in 0..1 /\ pc[t] # "idle"
    BY <2>1, <2>2 DEF Round, Alone
  <2>5. CASE self[t].next = "lead"
    <3>1. Goto(t, "lead") /\ self' = self
      BY <2>5 DEF DrainEnds
    <3>2. pc'[t] = "lead" /\ \A u \in Threads \ {t} : SamePlace(u)
      BY <2>1, <2>2, <3>1, <1>GotoLands, Zenon
    <3>3. ~InMaintenance(t) /\ ~InMaintenance(t)'
      BY <2>2, <2>5, <3>2 DEF InMaintenance, Maintaining, Leads
    <3>4. pc'[t] \notin {"rotate", "waitbg"} /\ pc'[t] # "drain" /\ self'[t].waits \in 0..1
      BY <2>4, <3>1, <3>2
    <3>5. group' \in {group, NoGroup}
      BY <2>2
    <3> QED
      BY <2>2, <2>3, <2>4, <3>2, <3>3, <3>4, <3>5, <1>WriterMaintained, Zenon
  <2>6. CASE self[t].next # "lead"
    <3>1. InMaintenance(t)
      BY <2>2, <2>6 DEF InMaintenance, Maintaining, Leads
    <3>2. CASE \E status : Returns(t, status)
      BY <2>1, <2>2, <2>3, <3>1, <3>2, <1>ReturnsLands, <1>MaintainerLands, Zenon
    <3>3. CASE self[t].next = "rotate" /\ Goto(t, "rotate") /\ self' = self
      <4>1. pc'[t] = "rotate" /\ \A u \in Threads \ {t} : SamePlace(u)
        BY <2>1, <2>2, <3>3, <1>GotoLands, Zenon
      <4>2. group = NoGroup
        <5>1. \A u \in Threads \ {t} : pc[u] = "idle"
          BY <2>1, <2>4, <3>1, Zenon DEF Alone
        <5>2. \A u \in Threads : ~HasGroup(u)
          BY <2>2, <5>1 DEF HasGroup
        <5> QED
          BY <2>1, <5>2, Zenon DEF Phases
      <4> QED
        BY <2>2, <2>3, <2>4, <2>6, <3>1, <3>3, <4>1, <4>2, <1>MaintainerLands, Zenon
    <3>4. CASE /\ self[t].next = "waitbg" /\ self[t].waits # 0
               /\ Goto(t, "waitbg") /\ self' = self
      <4>1. pc'[t] = "waitbg" /\ \A u \in Threads \ {t} : SamePlace(u)
        BY <2>1, <2>2, <3>4, <1>GotoLands, Zenon
      <4>2. self'[t].waits \in 1..2 /\ asked[t] \subseteq imm_' \cup current_'
        BY <2>1, <2>2, <2>4, <3>1, <3>4 DEF OnItsWay
      <4> QED
        BY <2>2, <2>3, <2>6, <3>1, <3>4, <4>1, <4>2, <1>MaintainerLands, Zenon
    <3> QED
      BY <2>6, <3>2, <3>3, <3>4 DEF DrainEnds
  <2> QED
    BY <2>5, <2>6
<1>1. ASSUME NEW t \in Threads, NEW sync \in BOOLEAN, Write(t, sync)
      PROVE  Maintained'
  BY <1>1, <1>WriteMaintained, Zenon
<1>2. ASSUME NEW t \in Threads, WriteOn(t)
      PROVE  Maintained'
  BY <1>2, <1>WriteOnMaintained, Zenon
<1>3. ASSUME NEW t \in Maintainers, CallMaintenance(t)
      PROVE  Maintained'
  BY <1>3, GroupCommitAssumption, <1>CallMaintenanceMaintained, Zenon
<1>4. ASSUME NEW t \in Threads, MaintenanceOn(t)
      PROVE  Maintained'
  BY <1>4, <1>FlushLoopMaintained, <1>FlushReturnsMaintained, <1>FlushRotateMaintained,
     <1>WaitLoopMaintained, <1>DrainEndsMaintained, Zenon DEF MaintenanceOn
<1>5. ASSUME Background \/ Close \/ Tick \/ UNCHANGED vars
      PROVE  Maintained'
  BY <1>5, <1>BackgroundMaintained, Zenon
<1> QED
  BY <1>1, <1>2, <1>3, <1>4, <1>5, Zenon DEF Next

LEMMA CInit ==
    ASSUME NatWellOrdered, Init
    PROVE  CInv
<1>1. /\ writers_ = <<>> /\ pc = [t \in Threads |-> "idle"] /\ group = NoGroup
      /\ self = [t \in Threads |-> NoWriter] /\ asked = [t \in Threads |-> {}]
      /\ calls = [t \in Threads |-> 0] /\ log = <<>> /\ logStart = 0 /\ durable = {}
      /\ applied = <<>> /\ failed = {} /\ answered = {} /\ last_sequence_ = 0
  BY Zenon DEF Init
<1>2. \A t \in Threads : pc[t] = "idle"
  BY <1>1, Zenon
<1>3. \A t \in Threads : ~InMaintenance(t) /\ ~HasGroup(t) /\ ~WritesGroup(t)
  BY <1>2 DEF InMaintenance, Maintaining, HasGroup, WritesGroup
<1>4. Phases /\ Alone /\ Outcomes
  BY <1>1, <1>2, <1>3 DEF Phases, Alone, Outcomes
<1>5. Rounds
  <2>1. \A t \in Threads : self[t].waits = 0
    BY <1>1 DEF NoWriter
  <2> QED
    BY <1>2, <1>3, <2>1 DEF Rounds, Round
<1>6. Made
  <2>1. Range(applied) = {} /\ Answered = {}
    BY <1>1 DEF Range, Answered
  <2>2. calls \in [Threads -> 0..MaxCalls]
    BY <1>1, GroupCommitAssumption
  <2> QED
    BY <1>1, <1>2, <2>1, <2>2 DEF Made
<1>7. Flushed
  BY <1>1, <1>3, Zenon DEF Flushed, OnItsWay
<1>8. /\ DOMAIN log = {} /\ Len(log) = 0 /\ log \in Seq(Record)
  BY <1>1
<1>9. Clean
  <2>1. \A n \in 1..Len(log) : log[n].ok => log[n].calls \in Seq(Threads \X Nat)
    BY <1>8
  <2>2. Replays(log, Replay(log))
    <3> DEFINE D == Threads \X Nat
    <3> HIDE DEF D
    <3>1. Len(log) \in Nat /\ \A n \in 1..Len(log) : log[n].ok => log[n].calls \in Seq(D)
      BY <1>8
    <3> QED
      BY <3>1, ReplayIs, Zenon
  <2>3. PICK f : f = Replay(log)
    BY Zenon
  <2>4. f = [n \in 0..Len(log) |-> IF n = 0 THEN <<>> ELSE f[n - 1] \o
                                     IF log[n].ok THEN log[n].calls ELSE <<>>]
    BY <2>2, <2>3, Zenon DEF Replays
  <2>5. f[0] = <<>>
    <3>1. 0 \in 0..Len(log)
      BY <1>8
    <3> QED
      BY <2>4, <3>1, Zenon
  <2> QED
    BY <1>1, <1>8, <2>3, <2>5, Zenon DEF Clean
<1>10. LogState
  <2>1. LogAgreesWithMemory
    BY <1>8, <1>9 DEF Clean, LogAgreesWithMemory
  <2> QED
    BY <1>2, <1>8, <1>9, <2>1, Zenon DEF LogState
<1>11. Counted
  BY <1>1, <1>2, <1>8 DEF Counted, SequencesFollowLog, NextBase
<1>12. Synced
  <2>1. durable \subseteq DOMAIN log /\ logStart \in 0..Len(log) /\ SyncHonoured
    BY <1>1, <1>8 DEF SyncHonoured
  <2>2. \A t \in Threads : pc[t] \notin {"sync", "insert", "retire", "wait"}
    BY <1>2
  <2> QED
    BY <1>3, <2>1, <2>2, Zenon DEF Synced
<1> QED
  BY <1>4, <1>5, <1>6, <1>7, <1>10, <1>11, <1>12, KInit, Zenon DEF CInv

LEMMA CNext ==
    ASSUME NatWellOrdered, CInv, [Next]_vars
    PROVE  CInv'
<1>1. KInv'
  BY KNext, Zenon DEF CInv
<1> QED
  BY <1>1, NextDecided, NextMaintained, Zenon DEF Decided, Maintained, CInv

-----------------------------------------------------------------------------
(* What FlushMemTable returns *)

\* Nobody but the caller itself makes a FlushMemTable or the like return.
LEMMA ReturnsItself ==
    ASSUME CInv, [Next]_vars, NEW t \in Threads, Maintaining(t), pc'[t] = "idle"
    PROVE  MaintenanceOn(t)
<1>1. DOMAIN pc = Threads
  BY Zenon DEF CInv, KInv, LInv, Fields
<1>2. pc'[t] # pc[t] /\ pc[t] \in {"flush", "rotate", "waitbg", "drain"}
  BY DEF Maintaining
<1>3. ASSUME NEW u \in Threads, NEW at, pc' = [pc EXCEPT ![u] = at]
      PROVE  u = t
  BY <1>1, <1>2, <1>3, Zenon
<1>4. ASSUME NEW u \in Threads, NEW sync \in BOOLEAN, Write(u, sync)
      PROVE  FALSE
  <2>1. pc[u] = "idle" /\ \E at : pc' = [pc EXCEPT ![u] = at]
    BY <1>4, Zenon DEF Write, Calling
  <2> QED
    BY <1>2, <1>3, <2>1
<1>5. ASSUME NEW u \in Threads, WriteOn(u)
      PROVE  FALSE
  <2>1. pc[u] \in {"wait", "lead", "room", "append", "sync", "insert", "retire"}
    BY ZenonT(40), <1>5 DEF WriteOn, WakeDone, WakeLeads, LeadFails, LeadDrains, WaitForRoom, RoomWoken,
       Rotate, StartGroup, AddRecord, AddRecordFails, SyncLog, SyncFails, InsertGroup,
       Retire
  <2>2. pc' = pc \/ \E at : pc' = [pc EXCEPT ![u] = at]
    BY <1>5, Zenon DEF WriteOn, WakeDone, WakeLeads, LeadFails, LeadDrains, WaitForRoom,
       RoomWoken, Rotate, StartGroup, AddRecord, AddRecordFails, SyncLog, SyncFails,
       InsertGroup, Retire, Drain
  <2> QED
    BY <1>2, <1>3, <2>1, <2>2
<1>6. ASSUME NEW u \in Maintainers, CallMaintenance(u)
      PROVE  FALSE
  <2>1. u \in Threads /\ pc[u] = "idle" /\ \E at : pc' = [pc EXCEPT ![u] = at]
    BY <1>6, GroupCommitAssumption, Zenon DEF CallMaintenance, Calling, Goto
  <2> QED
    BY <1>2, <1>3, <2>1
<1>7. ASSUME NEW u \in Threads, MaintenanceOn(u)
      PROVE  u = t
  <2>1. pc' = pc \/ \E at : pc' = [pc EXCEPT ![u] = at]
    BY <1>7, Zenon DEF MaintenanceOn, FlushLoop, FlushReturns, FlushRotate, WaitLoop,
       DrainEnds, Drain, Goto, Returns
  <2> QED
    BY <1>2, <1>3, <2>1
<1>8. ASSUME Background \/ Close \/ Tick \/ UNCHANGED vars
      PROVE  FALSE
  <2>1. pc' = pc
    BY <1>8, Zenon DEF Background, BgWork, BgSleep, BgFlushBuilt, BgCompacted, BgCommitted,
       BgFails, Close, Tick, vars, queueVars
  <2> QED
    BY <1>2, <2>1
<1> QED
  BY <1>4, <1>5, <1>6, <1>7, <1>8, Zenon DEF Next

\* What a call that returns OK was asked to flush is in tables.
LEMMA FlushReturned ==
    ASSUME CInv, NEW t \in Threads, MaintenanceOn(t), Maintaining(t),
           pc'[t] = "idle", self'[t].status = "ok"
    PROVE  asked[t] \subseteq current_'
<1>1. /\ LInv /\ Round(t) /\ OnItsWay(t) /\ RotatorHolds
      /\ DOMAIN pc = Threads /\ DOMAIN self = Threads
      /\ DOMAIN self[t] = WriterFields
  BY Zenon DEF CInv, KInv, LInv, Fields, Rounds, Flushed
<1>2. pc[t] # "idle" /\ "status" \in WriterFields
  BY DEF Maintaining, WriterFields
<1>3. ~Returns(t, "err")
  BY <1>1, <1>2 DEF Returns
<1>4. \A at : Goto(t, at) => at = "idle"
  BY <1>1, Zenon DEF Goto
<1>5. \A at, w : ~Drain(t, at, w)
  BY <1>1, Zenon DEF Drain
<1>6. CASE FlushLoop(t)
  <2>1. pc[t] = "flush" /\ (pc' = pc \/ Goto(t, "rotate"))
    BY <1>3, <1>5, <1>6, Zenon DEF FlushLoop
  <2> QED
    BY <1>2, <1>4, <2>1
<1>7. CASE FlushReturns(t)
  <2>1. pc[t] = "rotate" /\ mem_ = {} /\ current_' = current_
    BY <1>3, <1>7, Zenon DEF FlushReturns, memVars, treeVars
  <2>2. imm_ = {} /\ InMaintenance(t)
    BY <1>1, <2>1 DEF RotatorHolds, InMaintenance, Maintaining, Leads
  <2> QED
    BY <1>1, <2>1, <2>2 DEF OnItsWay, Stored
<1>8. CASE FlushRotate(t)
  <2>1. pc[t] = "rotate" /\ (WaitsOfFlush(t) = 0 \/ Goto(t, "waitbg"))
    BY <1>5, <1>8 DEF FlushRotate
  <2>2. WaitsOfFlush(t) # 0
    BY <1>1, <2>1 DEF Round, WaitsOfFlush
  <2> QED
    BY <1>4, <2>1, <2>2
<1>9. CASE WaitLoop(t)
  <2>1. pc[t] = "waitbg" /\ current_' = current_ /\ (pc' = pc \/ ~Pending)
    BY <1>3, <1>5, <1>9 DEF WaitLoop, treeVars
  <2>2. imm_ = {} /\ InMaintenance(t)
    BY <1>2, <2>1 DEF Pending, InMaintenance, Maintaining, Leads
  <2> QED
    BY <1>1, <2>1, <2>2 DEF OnItsWay
<1>10. CASE DrainEnds(t)
  <2>1. /\ pc[t] = "drain" /\ current_' = current_ /\ (bg_error_ \/ ~Pending)
        /\ self[t].next = "waitbg" /\ ~bg_error_
    <3>1. ~Goto(t, "lead") /\ ~Goto(t, "rotate")
      BY <1>4
    <3> QED
      BY <1>3, <1>10, <3>1 DEF DrainEnds, treeVars
  <2>2. imm_ = {} /\ InMaintenance(t)
    BY <1>2, <2>1 DEF Pending, InMaintenance, Maintaining, Leads
  <2> QED
    BY <1>1, <2>1, <2>2 DEF OnItsWay
<1> QED
  BY <1>6, <1>7, <1>8, <1>9, <1>10, Zenon DEF MaintenanceOn

-----------------------------------------------------------------------------
(* The queue of undecided calls *)

\* How many of the queue have an outcome.
Gone == IF group.status = "none" THEN 0 ELSE Len(group.members)

\* The calls of the queue ws after the first n.
Left(ws, cs, n) == [i \in 1..(Len(ws) - n) |-> <<ws[n + i], cs[ws[n + i]]>>]

LEMMA SameSequence ==
    ASSUME NEW S, NEW a \in Seq(S), NEW b \in Seq(S), Len(a) = Len(b),
           \A i \in 1..Len(a) : a[i] = b[i]
    PROVE  a = b
OBVIOUS

LEMMA LeftIs ==
    ASSUME NEW ws \in Seq(Threads), NEW cs \in [Threads -> Nat], NEW n \in 0..Len(ws)
    PROVE  /\ Left(ws, cs, n) \in Seq(Threads \X Nat)
           /\ Len(Left(ws, cs, n)) = Len(ws) - n
           /\ \A i \in 1..(Len(ws) - n) :
                 n + i \in 1..Len(ws) /\ Left(ws, cs, n)[i] = <<ws[n + i], cs[ws[n + i]]>>
<1> DEFINE M == Len(ws) - n
           f == Left(ws, cs, n)
<1>1. M \in Nat /\ \A i \in 1..M : n + i \in 1..Len(ws)
  OBVIOUS
<1>2. \A i \in 1..M : ws[n + i] \in Threads /\ cs[ws[n + i]] \in Nat
  BY <1>1
<1> HIDE DEF M
<1>3. f = [i \in 1..M |-> f[i]] /\ \A i \in 1..M : f[i] = <<ws[n + i], cs[ws[n + i]]>>
  BY Zenon DEF M, Left
<1> HIDE DEF f
<1>4. \A i \in 1..M : f[i] \in Threads \X Nat
  <2> SUFFICES ASSUME NEW i \in 1..M PROVE f[i] \in Threads \X Nat
    BY Zenon
  <2>1. PICK a \in Threads, b \in Nat : a = ws[n + i] /\ b = cs[ws[n + i]]
    BY <1>2, Zenon
  <2>2. f[i] = <<a, b>>
    BY <1>3, <2>1, Zenon
  <2> QED
    BY <2>2
<1>5. f \in Seq(Threads \X Nat)
  <2> DEFINE S == Threads \X Nat
  <2> HIDE DEF S
  <2>1. \A i \in 1..M : f[i] \in S
    BY <1>4, Zenon DEF S
  <2>2. f \in Seq(S)
    BY <1>1, <1>3, <2>1, SequenceOf, Zenon
  <2> QED
    BY <2>2, Zenon DEF S
<1>6. Len(f) = M
  <2>1. DOMAIN f = 1..M
    BY <1>3, Zenon
  <2> QED
    BY <1>1, <1>5, <2>1
<1> QED
  BY <1>1, <1>3, <1>5, <1>6, Zenon DEF f, M

CallsIn(s, cs) == [i \in DOMAIN s |-> <<s[i], cs[s[i]]>>]

\* CallsOf of what is left of a queue.
LEMMA CallsLeft ==
    ASSUME NEW ws \in Seq(Threads), NEW cs, NEW n \in 0..Len(ws), NEW s,
           s = SubSeq(ws, n + 1, Len(ws))
    PROVE  CallsIn(s, cs) = Left(ws, cs, n)
<1> DEFINE M == Len(ws) - n
<1>1. DOMAIN s = 1..M /\ \A i \in 1..M : s[i] = ws[n + i]
  OBVIOUS
<1> HIDE DEF M
<1> QED
  BY <1>1, Zenon DEF M, Left, CallsIn

\* The queue as the callers see it, before and after a step.
LEMMA UndecidedLeft ==
    ASSUME writers_ \in Seq(Threads), writers_' \in Seq(Threads),
           Gone \in 0..Len(writers_), Gone' \in 0..Len(writers_')
    PROVE  /\ Undecided = Left(writers_, calls, Gone)
           /\ Undecided' = Left(writers_', calls', Gone')
<1>1. PICK s : s = SubSeq(writers_, Gone + 1, Len(writers_))
  BY Zenon
<1>2. Undecided = CallsIn(s, calls)
  BY <1>1, Zenon DEF Undecided, Gone, CallsOf, Call, CallsIn
<1>3. PICK r : r = SubSeq(writers_', Gone' + 1, Len(writers_'))
  BY Zenon
<1>4. Undecided' = CallsIn(r, calls')
  BY <1>3, Zenon DEF Undecided, Gone, CallsOf, Call, CallsIn
<1>5. Undecided = Left(writers_, calls, Gone)
  BY <1>1, <1>2, CallsLeft, Zenon
<1>6. Undecided' = Left(writers_', calls', Gone')
  BY <1>3, <1>4, CallsLeft, Zenon
<1> QED
  BY <1>5, <1>6

LEMMA GoneIs ==
    ASSUME CInv
    PROVE  /\ Gone \in 0..Len(writers_) /\ writers_ \in Seq(Threads)
           /\ calls \in [Threads -> Nat]
<1>1. writers_ \in Seq(Threads) /\ calls \in [Threads -> Nat] /\ LInv /\ Phases
  BY Zenon DEF CInv, KInv, LInv, Fields, Numbered
<1>2. CASE \E t \in Threads : HasGroup(t)
  <2>1. FrontOf(group.members)
    BY <1>1, <1>2, Zenon DEF LInv, GroupInFront
  <2> QED
    BY <1>1, <2>1 DEF FrontOf, Gone
<1>3. CASE ~\E t \in Threads : HasGroup(t)
  <2>1. group = NoGroup
    BY <1>1, <1>3, Zenon DEF Phases
  <2>2. Gone = 0
    BY <2>1 DEF Gone, NoGroup
  <2> QED
    BY <1>1, <2>2
<1> QED
  BY <1>2, <1>3

FirstIn(ws, cs, k) == [i \in 1..k |-> <<ws[i], cs[ws[i]]>>]

\* The first k of the queue get their outcome together.
LEMMA FirstOf ==
    ASSUME NEW ws \in Seq(Threads), NEW cs \in [Threads -> Nat], NEW k \in 1..Len(ws),
           NEW q, q = Left(ws, cs, 0)
    PROVE  /\ k \in 1..Len(q)
           /\ SubSeq(q, k + 1, Len(q)) = Left(ws, cs, k)
           /\ SubSeq(q, 1, k) = FirstIn(ws, cs, k)
<1> DEFINE S == Threads \X Nat
           N == Len(ws)
           r == Left(ws, cs, k)
<1>1. N \in Nat /\ k \in 1..N /\ N - k \in Nat
  OBVIOUS
<1>2. q \in Seq(S) /\ Len(q) = N /\ \A i \in 1..N : q[i] = <<ws[i], cs[ws[i]]>>
  <2>1. 0 \in 0..Len(ws)
    BY <1>1
  <2>2. /\ q \in Seq(Threads \X Nat) /\ Len(q) = Len(ws) - 0
        /\ \A i \in 1..(Len(ws) - 0) :
              0 + i \in 1..Len(ws) /\ q[i] = <<ws[0 + i], cs[ws[0 + i]]>>
    BY <2>1, LeftIs, Zenon
  <2>3. N - 0 = N /\ \A i \in 1..N : 0 + i = i
    BY <1>1
  <2> QED
    BY <2>2, <2>3, Zenon
<1>3. r \in Seq(S) /\ Len(r) = N - k
      /\ \A i \in 1..(N - k) : k + i \in 1..N /\ r[i] = <<ws[k + i], cs[ws[k + i]]>>
  <2>1. k \in 0..Len(ws)
    OBVIOUS
  <2> QED
    BY <2>1, LeftIs, Zenon
<1> HIDE DEF S, N, r
<1>4. SubSeq(q, k + 1, N) = r
  <2>1. /\ SubSeq(q, k + 1, N) \in Seq(S) /\ Len(SubSeq(q, k + 1, N)) = N - k
        /\ \A i \in 1..(N - k) : SubSeq(q, k + 1, N)[i] = q[k + i]
    BY <1>1, <1>2
  <2>2. \A i \in 1..(N - k) : SubSeq(q, k + 1, N)[i] = r[i]
    BY <1>2, <1>3, <2>1, Zenon
  <2> QED
    BY <1>3, <2>1, <2>2, SameSequence, Zenon
<1>5. SubSeq(q, 1, k) = [i \in 1..k |-> <<ws[i], cs[ws[i]]>>]
  <2>1. SubSeq(q, 1, k) = [i \in 1..k |-> q[i]]
    BY <1>1, <1>2
  <2>2. \A i \in 1..k : i \in 1..N
    BY <1>1
  <2> QED
    BY <1>2, <2>1, <2>2, Zenon
<1> QED
  BY <1>1, <1>2, <1>4, <1>5, Zenon DEF N, r, FirstIn

-----------------------------------------------------------------------------
(* The types *)

Where == {"idle", "wait", "lead", "room", "append", "sync", "insert", "retire",
          "flush", "rotate", "waitbg", "drain"}
Statuses == {"ok", "err"}
Nexts == {"idle", "lead", "rotate", "waitbg"}
Writer == [sync : BOOLEAN, done : BOOLEAN, status : Statuses, waits : 0..2, next : Nexts]

\* The threads, ...
Places ==
    /\ mu_ \in Threads \cup {Free}
    /\ pc \in [Threads -> Where]
    /\ self \in [Threads -> Writer]
    /\ woken \in [Threads -> BOOLEAN]

\* ... what they write, ...
Contents == group.base \in Nat /\ Stored \subseteq Calls

\* ... and the rest of the database.
Stages ==
    IF background_compaction
    THEN {"asleep", "ready", "flush", "commit", "compact", "exited"}
    ELSE {"none", "ready", "flush", "commit", "compact"}

Surroundings ==
    /\ due \in 0..MaxDue
    /\ bg_error_ \in BOOLEAN /\ shutting_down_ \in BOOLEAN
    /\ bg \in Stages
    /\ last_sync_time_ \in 0..now /\ now \in 0..MaxTime

Typed == Places /\ Contents /\ Surroundings

\* What the types say is in the invariant already, but for these.
LEMMA TypedIsTypeOK ==
    ASSUME CInv, Typed
    PROVE  TypeOK
<1>1. LInv /\ Phases /\ Made /\ Counted
  BY Zenon DEF CInv, KInv
<1>2. Range(writers_) \subseteq Threads
  BY <1>1 DEF LInv, Fields, Range
<1>3. Range(group.members) \subseteq Threads /\ group.status \in {"none", "ok", "err"}
  <2>1. CASE \E t \in Threads : HasGroup(t)
    <3>1. PICK t \in Threads : HasGroup(t)
      BY <2>1, Zenon
    <3>2. WritesGroup(t) \/ pc[t] = "retire"
      BY <3>1 DEF HasGroup, WritesGroup
    <3>3. group.status \in {"none", "ok", "err"}
      BY <1>1, <3>2 DEF Phases
    <3> QED
      BY <1>1, <3>1, <3>3, MembersAreThreads, Zenon
  <2>2. CASE ~\E t \in Threads : HasGroup(t)
    <3>1. group = NoGroup
      BY <1>1, <2>2, Zenon DEF Phases
    <3> QED
      BY <3>1 DEF NoGroup, Range
  <2> QED
    BY <2>1, <2>2, Zenon
<1>4. last_sequence_ \in Nat
  BY <1>1, Zenon DEF Counted
<1>5. Range(applied) \subseteq Calls /\ failed \subseteq Calls /\ Answered \subseteq Calls
  BY <1>1, Zenon DEF Made
<1>6. /\ mu_ \in Threads \cup {Free}
      /\ pc \in [Threads -> {"idle", "wait", "lead", "room", "append", "sync",
                             "insert", "retire", "flush", "rotate", "waitbg", "drain"}]
      /\ self \in [Threads -> [sync : BOOLEAN, done : BOOLEAN, status : {"ok", "err"},
                               waits : 0..2, next : {"idle", "lead", "rotate", "waitbg"}]]
      /\ woken \in [Threads -> BOOLEAN]
  BY Zenon DEF Typed, Places, Where, Writer, Statuses, Nexts
<1>7. group.base \in Nat /\ mem_ \cup imm_ \cup current_ \subseteq Calls
  BY Zenon DEF Typed, Contents, Stored
<1>8. /\ due \in 0..MaxDue
      /\ bg_error_ \in BOOLEAN /\ shutting_down_ \in BOOLEAN
      /\ bg \in IF background_compaction
                THEN {"asleep", "ready", "flush", "commit", "compact", "exited"}
                ELSE {"none", "ready", "flush", "commit", "compact"}
      /\ last_sync_time_ \in 0..now /\ now \in 0..MaxTime
  BY Zenon DEF Typed, Surroundings, Stages
<1> QED
  BY <1>2, <1>3, <1>4, <1>5, <1>6, <1>7, <1>8, Zenon DEF TypeOK

\* One thread goes on, with mu_ or without, and keeps its Writer's type.
GoesTo(t, at) == at \in Where /\ (pc' = pc \/ pc' = [pc EXCEPT ![t] = at])

NewWriter(t, a, b, w) ==
    /\ a \in Statuses /\ b \in Nexts /\ w \in 0..2
    /\ \/ self' = self
       \/ self' = [self EXCEPT ![t].status = a, ![t].waits = w]
       \/ self' = [self EXCEPT ![t].next = b, ![t].waits = w]
       \/ self' = [self EXCEPT ![t].waits = w]

Renews(t) == \E a, b, w : NewWriter(t, a, b, w)

LEMMA WriterTyped ==
    ASSUME Places, NEW t \in Threads, NEW a, NEW b, NEW w, NewWriter(t, a, b, w)
    PROVE  self' \in [Threads -> Writer]
<1>1. self \in [Threads -> Writer]
  BY Zenon DEF Places
<1>2. a \in Statuses /\ b \in Nexts /\ w \in 0..2
  BY Zenon DEF NewWriter
<1> USE <1>1, <1>2
<1>3. CASE self' = self
  BY <1>3, Zenon
<1>4. CASE self' = [self EXCEPT ![t].status = a, ![t].waits = w]
  BY ZenonT(40), <1>4 DEF Writer
<1>5. CASE self' = [self EXCEPT ![t].next = b, ![t].waits = w]
  BY ZenonT(40), <1>5 DEF Writer
<1>6. CASE self' = [self EXCEPT ![t].waits = w]
  BY <1>6 DEF Writer
<1> QED
  BY <1>3, <1>4, <1>5, <1>6, Zenon DEF NewWriter

\* The Writer of a new call.
LEMMA FreshWriter ==
    /\ NoWriter \in Writer
    /\ [NoWriter EXCEPT !.sync = TRUE] \in Writer
    /\ [NoWriter EXCEPT !.sync = FALSE] \in Writer
    /\ \A w \in 0..1 : [NoWriter EXCEPT !.waits = w] \in Writer
<1>1. "ok" \in Statuses /\ "idle" \in Nexts /\ 0 \in 0..2 /\ \A w \in 0..1 : w \in 0..2
  BY DEF Statuses, Nexts
<1>2. NoWriter \in Writer
  BY <1>1, Zenon DEF Writer, NoWriter
<1>3. \A r \in Writer : /\ [r EXCEPT !.sync = TRUE] \in Writer
                       /\ [r EXCEPT !.sync = FALSE] \in Writer
  BY ZenonT(40) DEF Writer
<1>4. \A r \in Writer : \A w \in 0..2 : [r EXCEPT !.waits = w] \in Writer
  BY DEF Writer
<1> QED
  BY <1>1, <1>2, <1>3, <1>4, Zenon

\* Notifications are set or cleared.
LEMMA NotifyTyped ==
    ASSUME NEW b, NotifyAll(b)
    PROVE  woken' \in [Threads -> BOOLEAN]
BY Zenon DEF NotifyAll

LEMMA PlaceTyped ==
    ASSUME Places, NEW t \in Threads, NEW at, GoesTo(t, at), mu_' \in {mu_, Free, t},
           self' \in [Threads -> Writer],
           \/ woken' \in {woken, [woken EXCEPT ![t] = FALSE]}
           \/ woken' \in [Threads -> BOOLEAN]
    PROVE  Places'
<1>1. pc' \in [Threads -> Where]
  BY DEF Places, GoesTo
<1>2. mu_' \in Threads \cup {Free}
  BY DEF Places
<1>3. woken' \in [Threads -> BOOLEAN]
  BY ZenonT(40) DEF Places
<1> QED
  BY <1>1, <1>2, <1>3, Zenon DEF Places

LEMMA WritePlaces ==
    ASSUME CInv, Places, NEW t \in Threads,
           (\E sync \in BOOLEAN : Write(t, sync)) \/ WriteOn(t)
    PROVE  Places'
<1>1. mu_' \in {mu_, Free, t}
  BY Zenon DEF Write, WriteOn, WakeDone, WakeLeads, LeadFails, LeadDrains, WaitForRoom,
     RoomWoken, Rotate, StartGroup, AddRecord, AddRecordFails, SyncLog, SyncFails,
     InsertGroup, Retire, Drain
<1>2. \E at : GoesTo(t, at)
  <2>1. pc' = pc \/ \E at \in Where : pc' = [pc EXCEPT ![t] = at]
    <3> DEFINE W == Where
    <3>1. /\ "idle" \in W /\ "wait" \in W /\ "lead" \in W /\ "room" \in W /\ "append" \in W
          /\ "sync" \in W /\ "insert" \in W /\ "retire" \in W /\ "drain" \in W
      BY DEF Where
    <3> HIDE DEF W
    <3>2. pc' = pc \/ \E at \in W : pc' = [pc EXCEPT ![t] = at]
      BY <3>1, ZenonT(30) DEF Write, WriteOn, WakeDone, WakeLeads, LeadFails, LeadDrains,
         WaitForRoom, RoomWoken, Rotate, StartGroup, AddRecord, AddRecordFails, SyncLog,
         SyncFails, InsertGroup, Retire, Drain
    <3> QED
      BY <3>2, Zenon DEF W
  <2>2. "idle" \in Where
    BY DEF Where
  <2> QED
    BY <2>1, <2>2, Zenon DEF GoesTo
<1>3. self' \in [Threads -> Writer]
  <2>1. ASSUME NEW sync \in BOOLEAN, Write(t, sync)
        PROVE  self' \in [Threads -> Writer]
    <3>1. self' = [self EXCEPT ![t] = [NoWriter EXCEPT !.sync = sync]]
      BY <2>1, Zenon DEF Write
    <3>2. [NoWriter EXCEPT !.sync = sync] \in Writer
      <4>1. CASE sync = TRUE
        BY <4>1, FreshWriter, Zenon
      <4>2. CASE sync = FALSE
        BY <4>2, FreshWriter, Zenon
      <4> QED
        BY <4>1, <4>2, Zenon
    <3> QED
      BY <3>1, <3>2 DEF Places
  <2>2. CASE LeadDrains(t)
    <3>1. NewWriter(t, "ok", "lead", 0)
      BY <2>2 DEF LeadDrains, Drain, NewWriter, Statuses, Nexts
    <3> QED
      BY <3>1, WriterTyped, Zenon
  <2>3. CASE Retire(t)
    <3>1. group.status \in Statuses
      BY <2>3, Zenon DEF Retire, CInv, Phases, Statuses
    <3>2. \A u \in Threads : [self[u] EXCEPT !.done = TRUE, !.status = group.status] \in Writer
      BY ZenonT(40), <3>1 DEF Places, Writer
    <3>3. \A u \in Threads : self'[u] \in Writer
      BY ZenonT(40), <2>3, <3>2 DEF Retire, Finished, Places
    <3>4. self' = [u \in Threads |-> self'[u]]
      BY <2>3, Zenon DEF Retire
    <3> QED
      BY <3>3, <3>4, Zenon
  <2>4. CASE WriteOn(t) /\ ~LeadDrains(t) /\ ~Retire(t)
    <3>1. self' = self
      BY <2>4, Zenon DEF WriteOn, WakeDone, WakeLeads, LeadFails, WaitForRoom, RoomWoken,
         Rotate, StartGroup, AddRecord, AddRecordFails, SyncLog, SyncFails, InsertGroup
    <3> QED
      BY <3>1, Zenon DEF Places
  <2> QED
    BY <2>1, <2>2, <2>3, <2>4, Zenon
<1>4. \/ woken' \in {woken, [woken EXCEPT ![t] = FALSE]}
      \/ woken' \in [Threads -> BOOLEAN]
  <2>1. CASE Retire(t)
    BY <2>1, Zenon DEF Retire, WokenByRetire
  <2>2. CASE Rotate(t)
    BY <2>2, NotifyTyped, Zenon DEF Rotate
  <2>3. CASE ~Retire(t) /\ ~Rotate(t)
    BY <2>3, Zenon DEF Write, WriteOn, WakeDone, WakeLeads, LeadFails, LeadDrains,
       WaitForRoom, RoomWoken, StartGroup, AddRecord, AddRecordFails, SyncLog, SyncFails,
       InsertGroup
  <2> QED
    BY <2>1, <2>2, <2>3
<1> QED
  BY <1>1, <1>2, <1>3, <1>4, PlaceTyped, Zenon

SetsWaits(t, w) == self' = [self EXCEPT ![t].waits = w]

\* Only an insertion stores what was not stored before.
StoresNothing ==
    \/ UNCHANGED <<mem_, imm_, current_>>
    \/ imm_' = mem_ /\ mem_' = {} /\ current_' = current_
    \/ current_' = current_ \cup imm_ /\ imm_' = {} /\ mem_' = mem_

\* The group of a step, but for the one that starts it.
SameBase ==
    \/ group' = group
    \/ group' = NoGroup
    \/ \E ms : group' = [NoGroup EXCEPT !.members = ms, !.status = "err"]
    \/ \E st : group' = [group EXCEPT !.status = st]

\* Without a step of the background thread its stage changes as it is notified,
\* or as a caller starts and ends a drain.
Restaged ==
    \/ bg' = bg
    \/ bg' = "ready"
    \/ bg' = "none" /\ ~background_compaction

LEMMA TypedInit ==
    ASSUME Init
    PROVE  Typed
<1>1. Places
  <2>1. mu_ \in Threads \cup {Free} /\ woken \in [Threads -> BOOLEAN]
    BY DEF Init
  <2>2. pc \in [Threads -> Where]
    BY DEF Init, Where
  <2>3. self \in [Threads -> Writer]
    BY FreshWriter, Zenon DEF Init
  <2> QED
    BY <2>1, <2>2, <2>3, Zenon DEF Places
<1>2. Contents
  BY DEF Init, Contents, NoGroup, Stored
<1>3. Surroundings
  <2>1. bg \in Stages
    <3>1. CASE background_compaction
      BY <3>1 DEF Init, Stages
    <3>2. CASE ~background_compaction
      BY <3>2 DEF Init, Stages
    <3> QED
      BY <3>1, <3>2
  <2>2. due = 0 /\ ~bg_error_ /\ ~shutting_down_ /\ last_sync_time_ = 0 /\ now = 0
    BY Zenon DEF Init
  <2>3. bg_error_ \in BOOLEAN /\ shutting_down_ \in BOOLEAN
    BY Zenon DEF Init
  <2>4. due \in 0..MaxDue /\ last_sync_time_ \in 0..now /\ now \in 0..MaxTime
    BY <2>2, GroupCommitAssumption
  <2> QED
    BY <2>1, <2>3, <2>4, Zenon DEF Surroundings
<1> QED
  BY <1>1, <1>2, <1>3, Zenon DEF Typed

LEMMA TypedNext ==
    ASSUME CInv, Typed, [Next]_vars
    PROVE  Typed'
<1>MaintenancePlaces.
    ASSUME CInv, Places, NEW t \in Threads, CallMaintenance(t) \/ MaintenanceOn(t)
    PROVE  Places'
  <2> USE <1>MaintenancePlaces
  <2>1. mu_' \in {mu_, Free, t}
    BY Zenon DEF CallMaintenance, MaintenanceOn, FlushLoop, FlushReturns, FlushRotate, WaitLoop,
       DrainEnds, Drain
  <2>2. \E at : GoesTo(t, at)
    <3>1. pc' = pc \/ \E at \in Where : pc' = [pc EXCEPT ![t] = at]
      <4>1. CASE DrainEnds(t)
        <5>1. \/ pc' = [pc EXCEPT ![t] = "lead"] \/ pc' = [pc EXCEPT ![t] = "rotate"]
              \/ pc' = [pc EXCEPT ![t] = "waitbg"] \/ pc' = [pc EXCEPT ![t] = "idle"]
          BY <4>1, Zenon DEF DrainEnds, Goto, Returns
        <5> QED
          BY <5>1 DEF Where
      <4>2. CASE CallMaintenance(t)
        <5>1. pc' = [pc EXCEPT ![t] = "flush"] \/ pc' = [pc EXCEPT ![t] = "waitbg"]
          BY <4>2, Zenon DEF CallMaintenance, Goto
        <5> QED
          BY <5>1 DEF Where
      <4>3. CASE FlushLoop(t) \/ FlushReturns(t) \/ FlushRotate(t) \/ WaitLoop(t)
        <5>1. \/ pc' = pc \/ pc' = [pc EXCEPT ![t] = "rotate"]
              \/ pc' = [pc EXCEPT ![t] = "waitbg"] \/ pc' = [pc EXCEPT ![t] = "idle"]
              \/ pc' = [pc EXCEPT ![t] = "drain"]
          BY <4>3, Zenon DEF FlushLoop, FlushReturns, FlushRotate, WaitLoop, Goto, Returns,
             Drain
        <5> QED
          BY <5>1 DEF Where
      <4> QED
        BY <4>1, <4>2, <4>3, Zenon DEF MaintenanceOn
    <3>2. "idle" \in Where
      BY DEF Where
    <3> QED
      BY <3>1, <3>2, Zenon DEF GoesTo
  <2>3. self' \in [Threads -> Writer]
    <3>1. CASE CallMaintenance(t)
      <4>1. PICK waits \in 0..1 : self' = [self EXCEPT ![t] = [NoWriter EXCEPT !.waits = waits]]
        BY <3>1, Zenon DEF CallMaintenance
      <4>2. [NoWriter EXCEPT !.waits = waits] \in Writer
        BY FreshWriter, Zenon
      <4> QED
        BY <4>1, <4>2 DEF Places
    <3>2. CASE MaintenanceOn(t)
      <4>1. Round(t) /\ self[t].waits \in 0..2
        BY Zenon DEF CInv, Rounds, Places, Writer
      <4>2. /\ "ok" \in Statuses /\ "err" \in Statuses /\ "rotate" \in Nexts
            /\ "waitbg" \in Nexts /\ 0 \in 0..2
        BY DEF Statuses, Nexts
      <4>3. Renews(t)
        <5>4. self' = self => Renews(t)
          BY <4>2, Zenon DEF Renews, NewWriter
        <5>5. Returns(t, "ok") \/ Returns(t, "err") => Renews(t)
          BY <4>2, Zenon DEF Renews, NewWriter, Returns
        <5>6. \A w \in 0..2 :
                 /\ Drain(t, "rotate", w) => Renews(t)
                 /\ Drain(t, "waitbg", w) => Renews(t)
                 /\ SetsWaits(t, w) => Renews(t)
          <6> SUFFICES ASSUME NEW w \in 0..2
                       PROVE  /\ Drain(t, "rotate", w) => Renews(t)
                              /\ Drain(t, "waitbg", w) => Renews(t)
                              /\ SetsWaits(t, w) => Renews(t)
            BY Zenon
          <6>1. Drain(t, "rotate", w) => NewWriter(t, "ok", "rotate", w)
            BY <4>2, Zenon DEF Renews, NewWriter, Drain
          <6>2. Drain(t, "waitbg", w) => NewWriter(t, "ok", "waitbg", w)
            BY <4>2, Zenon DEF Renews, NewWriter, Drain
          <6>3. SetsWaits(t, w) => NewWriter(t, "ok", "rotate", w)
            BY <4>2, Zenon DEF Renews, NewWriter, SetsWaits
          <6> QED
            BY <6>1, <6>2, <6>3, Zenon DEF Renews
        <5>1. CASE FlushLoop(t) \/ FlushReturns(t) \/ DrainEnds(t)
          <6>1. \/ self' = self \/ Returns(t, "ok") \/ Returns(t, "err")
                \/ Drain(t, "rotate", self[t].waits)
            BY <5>1, Zenon DEF FlushLoop, FlushReturns, DrainEnds
          <6> QED
            BY <4>1, <5>4, <5>5, <5>6, <6>1, Zenon
        <5>2. CASE FlushRotate(t)
          <6>1. PICK w : w = WaitsOfFlush(t)
            BY Zenon
          <6>2. w \in 0..2
            BY <4>1, <5>2, <6>1 DEF FlushRotate, Round, WaitsOfFlush
          <6>3. \/ Returns(t, "ok") \/ Drain(t, "waitbg", self[t].waits)
                \/ SetsWaits(t, w)
            BY <5>2, <6>1, Zenon DEF FlushRotate, SetsWaits
          <6> QED
            BY <4>1, <5>5, <5>6, <6>2, <6>3, Zenon
        <5>3. CASE WaitLoop(t)
          <6>1. PICK w : w = self[t].waits - 1
            BY Zenon
          <6>2. w \in 0..2
            BY <4>1, <5>3, <6>1 DEF WaitLoop, Round
          <6>3. \/ self' = self \/ Returns(t, "ok") \/ Returns(t, "err")
                \/ Drain(t, "waitbg", w)
                \/ SetsWaits(t, w)
            BY <5>3, <6>1, Zenon DEF WaitLoop, SetsWaits
          <6> QED
            BY <5>4, <5>5, <5>6, <6>2, <6>3, Zenon
        <5> QED
          BY <3>2, <5>1, <5>2, <5>3, Zenon DEF MaintenanceOn
      <4> QED
        BY <4>3, WriterTyped, Zenon DEF Renews
    <3> QED
      BY <3>1, <3>2
  <2>4. woken' = woken \/ woken' \in [Threads -> BOOLEAN]
    BY NotifyTyped, Zenon DEF CallMaintenance, MaintenanceOn, FlushLoop, FlushReturns,
       FlushRotate, WaitLoop, DrainEnds
  <2> QED
    BY <2>1, <2>2, <2>3, <2>4, PlaceTyped, Zenon
<1>OutsidePlaces.
    ASSUME Places, Background \/ Close \/ Tick \/ UNCHANGED vars
    PROVE  Places'
  <2> USE <1>OutsidePlaces
  <2>1. UNCHANGED <<mu_, pc, self>>
    BY Zenon DEF Background, BgWork, BgSleep, BgFlushBuilt, BgCompacted, BgCommitted,
       BgFails, Close, Tick, vars, queueVars
  <2>2. woken' = woken \/ woken' \in [Threads -> BOOLEAN]
    BY NotifyTyped, Zenon DEF Background, BgWork, BgSleep, BgFlushBuilt, BgCompacted,
       BgCommitted, BgFails, Close, Tick, vars, queueVars
  <2> QED
    BY <2>1, <2>2, Zenon DEF Places
<1>ContentsKept.
    ASSUME CInv, Contents, StoresNothing, SameBase
    PROVE  Contents'
  <2> USE <1>ContentsKept
  <2>1. Stored' \subseteq Calls
    BY DEF Contents, StoresNothing, Stored
  <2>2. DOMAIN group = GroupFields
    BY Zenon DEF CInv, KInv, LInv, Fields
  <2>3. group'.base \in Nat
    <3>1. group.base \in Nat /\ NoGroup.base = 0
      BY DEF Contents, NoGroup
    <3>2. \A ms : [NoGroup EXCEPT !.members = ms, !.status = "err"].base = 0
      BY DEF NoGroup
    <3>3. \A st : [group EXCEPT !.status = st].base = group.base
      BY <2>2 DEF GroupFields
    <3>4. group'.base = group.base \/ group'.base = 0
      BY <3>1, <3>2, <3>3, Zenon DEF SameBase
    <3> QED
      BY <3>1, <3>4
  <2> QED
    BY <2>1, <2>3, Zenon DEF Contents
<1>WriteContents.
    ASSUME CInv, Contents, NEW t \in Threads,
           (\E sync \in BOOLEAN : Write(t, sync)) \/ WriteOn(t)
    PROVE  Contents'
  <2> USE <1>WriteContents
  <2>1. CASE InsertGroup(t)
    <3>1. /\ pc[t] = "insert" /\ group' = [group EXCEPT !.status = "ok"]
          /\ mem_' = mem_ \cup Range(CallsOf(group.members))
          /\ UNCHANGED <<imm_, current_>>
      BY <2>1, Zenon DEF InsertGroup
    <3>2. KInv /\ Made /\ HasGroup(t) /\ DOMAIN group = GroupFields
      BY <3>1, Zenon DEF CInv, KInv, LInv, Fields, HasGroup
    <3>3. \A c \in Range(CallsOf(group.members)) : c \in Calls
      <4>1. /\ Range(CallsOf(group.members)) = {Call(u) : u \in Range(group.members)}
            /\ \A u \in Range(group.members) : u \in Threads /\ pc[u] # "idle"
        BY <3>2, CallsOfGroup, Zenon
      <4>2. \A u \in Range(group.members) : Call(u) \in Calls
        BY <3>2, <4>1, CallMade, Zenon
      <4> QED
        BY <4>1, <4>2, Zenon
    <3>4. group'.base = group.base
      BY <3>1, <3>2 DEF GroupFields
    <3>5. Stored' \subseteq Calls
      BY <3>1, <3>3, Zenon DEF Contents, Stored
    <3> QED
      BY <3>4, <3>5, Zenon DEF Contents
  <2>2. CASE StartGroup(t)
    <3>1. UNCHANGED <<mem_, imm_, current_>>
      BY <2>2, Zenon DEF StartGroup, treeVars
    <3>2. group'.base = last_sequence_ + 1
      BY <2>2 DEF StartGroup
    <3>3. last_sequence_ \in Nat
      BY Zenon DEF CInv, Counted
    <3>4. Stored' \subseteq Calls
      BY <3>1, Zenon DEF Contents, Stored
    <3>5. group'.base \in Nat
      BY <3>2, <3>3
    <3> QED
      BY <3>4, <3>5, Zenon DEF Contents
  <2>3. CASE ~InsertGroup(t) /\ ~StartGroup(t)
    <3>1. StoresNothing
      BY <2>3, Zenon DEF Write, WriteOn, WakeDone, WakeLeads, LeadFails, LeadDrains,
         WaitForRoom, RoomWoken, Rotate, AddRecord, AddRecordFails, SyncLog, SyncFails,
         Retire, SwapMemTable, memVars, treeVars, StoresNothing
    <3>2. SameBase
      BY <2>3, Zenon DEF Write, WriteOn, WakeDone, WakeLeads, LeadFails, LeadDrains,
         WaitForRoom, RoomWoken, Rotate, AddRecord, AddRecordFails, SyncLog, SyncFails,
         Retire, GroupFails, SameBase
    <3> QED
      BY <3>1, <3>2, <1>ContentsKept
  <2> QED
    BY <2>1, <2>2, <2>3
<1>OtherContents.
    ASSUME CInv, Contents,
           \/ \E t \in Threads : CallMaintenance(t) \/ MaintenanceOn(t)
           \/ Background \/ Close \/ Tick \/ UNCHANGED vars
    PROVE  Contents'
  <2> USE <1>OtherContents
  <2>1. StoresNothing
    BY ZenonT(40) DEF CallMaintenance, MaintenanceOn, FlushLoop, FlushReturns, FlushRotate, WaitLoop,
       DrainEnds, SwapMemTable, Background, BgWork, BgSleep, BgFlushBuilt, BgCompacted,
       BgCommitted, BgFails, Close, Tick, vars, memVars, treeVars, StoresNothing
  <2>2. group' = group
    BY Zenon DEF CallMaintenance, MaintenanceOn, FlushLoop, FlushReturns, FlushRotate, WaitLoop,
       DrainEnds, Background, BgWork, BgSleep, BgFlushBuilt, BgCompacted,
       BgCommitted, BgFails, Close, Tick, vars, queueVars
  <2> QED
    BY <2>1, <2>2, <1>ContentsKept, Zenon DEF SameBase
<1>NotifyRestages.
    ASSUME NEW b, NotifyAll(b)
    PROVE  bg' = b \/ bg' = "ready"
  BY <1>NotifyRestages, Zenon DEF NotifyAll
<1>RestagedKept.
    ASSUME Surroundings, Restaged,
           UNCHANGED <<due, bg_error_, shutting_down_, background_compaction,
                       last_sync_time_, now>>
    PROVE  Surroundings'
  <2> USE <1>RestagedKept
  <2>1. bg' \in Stages'
    BY DEF Surroundings, Stages, Restaged
  <2> QED
    BY <2>1, Zenon DEF Surroundings
<1>WriteSurroundings.
    ASSUME CInv, Surroundings, NEW t \in Threads,
           (\E sync \in BOOLEAN : Write(t, sync)) \/ WriteOn(t)
    PROVE  Surroundings'
  <2> USE <1>WriteSurroundings
  <2>1. CASE Retire(t)
    <3>1. /\ UNCHANGED <<due, bg, shutting_down_, background_compaction, now>>
          /\ bg_error_' = Latched(t) /\ last_sync_time_' = SyncTime
      BY <2>1, Zenon DEF Retire, treeVars
    <3>2. bg_error_' \in BOOLEAN
      BY <3>1, Zenon DEF Latched
    <3>3. last_sync_time_' \in 0..now
      BY <3>1, GroupCommitAssumption DEF SyncTime, Surroundings
    <3> QED
      BY <3>1, <3>2, <3>3, Zenon DEF Surroundings, Stages
  <2>2. CASE ~Retire(t)
    <3>1. Restaged
      BY <2>2, <1>NotifyRestages, Zenon DEF Write, WriteOn, WakeDone, WakeLeads, LeadFails,
         LeadDrains, WaitForRoom, RoomWoken, Rotate, StartGroup, AddRecord, AddRecordFails,
         SyncLog, SyncFails, InsertGroup, Drain, memVars, bgVars, Restaged
    <3>2. UNCHANGED <<due, bg_error_, shutting_down_, background_compaction,
                      last_sync_time_, now>>
      BY <2>2, Zenon DEF Write, WriteOn, WakeDone, WakeLeads, LeadFails,
         LeadDrains, WaitForRoom, RoomWoken, Rotate, StartGroup, AddRecord, AddRecordFails,
         SyncLog, SyncFails, InsertGroup, SwapMemTable, memVars, bgVars, treeVars, clockVars
    <3> QED
      BY <3>1, <3>2, <1>RestagedKept
  <2> QED
    BY <2>1, <2>2
<1>MaintenanceSurroundings.
    ASSUME CInv, Surroundings, NEW t \in Threads, CallMaintenance(t) \/ MaintenanceOn(t)
    PROVE  Surroundings'
  <2> USE <1>MaintenanceSurroundings
  <2>1. Restaged
    <3>1. CASE DrainEnds(t)
      <4>1. pc[t] = "drain" /\ bg' = "none"
        BY <3>1, Zenon DEF DrainEnds
      <4>2. ~background_compaction
        BY <4>1, Zenon DEF CInv, Alone
      <4> QED
        BY <4>1, <4>2 DEF Restaged
    <3>2. CASE ~DrainEnds(t)
      BY <3>2, <1>NotifyRestages, Zenon DEF CallMaintenance, MaintenanceOn, FlushLoop,
         FlushReturns, FlushRotate, WaitLoop, Drain, memVars, bgVars, Restaged
    <3> QED
      BY <3>1, <3>2
  <2>2. UNCHANGED <<due, bg_error_, shutting_down_, background_compaction,
                    last_sync_time_, now>>
    BY Zenon DEF CallMaintenance, MaintenanceOn, FlushLoop, FlushReturns, FlushRotate,
       WaitLoop, DrainEnds, SwapMemTable, memVars, bgVars, treeVars, clockVars
  <2> QED
    BY <2>1, <2>2, <1>RestagedKept
<1>BackgroundSurroundings.
    ASSUME Surroundings, Background \/ Close \/ Tick \/ UNCHANGED vars
    PROVE  Surroundings'
  <2> USE <1>BackgroundSurroundings
  <2>1. background_compaction' = background_compaction
    BY Zenon DEF Background, BgWork, BgSleep, BgFlushBuilt, BgCompacted, BgCommitted,
       BgFails, Close, Tick, vars, memVars, bgVars
  <2>2. Stages' = Stages
    BY <2>1, Zenon DEF Stages
  <2>3. CASE BgWork \/ BgSleep
    <3>1. UNCHANGED <<due, bg_error_, shutting_down_, last_sync_time_, now>>
      BY <2>3, Zenon DEF BgWork, BgSleep, treeVars, clockVars
    <3>2. bg' \in Stages
      BY <2>3 DEF BgWork, BgSleep, Stages
    <3> QED
      BY <2>2, <3>1, <3>2, Zenon DEF Surroundings
  <2>4. CASE BgFlushBuilt \/ BgCompacted
    <3>1. UNCHANGED <<bg_error_, shutting_down_, last_sync_time_, now>>
      BY <2>4, Zenon DEF BgFlushBuilt, BgCompacted, clockVars
    <3>2. bg' \in Stages
      BY <2>4 DEF BgFlushBuilt, BgCompacted, Stages
    <3>3. due' \in 0..MaxDue
      BY <2>4, GroupCommitAssumption DEF BgFlushBuilt, BgCompacted, Surroundings
    <3> QED
      BY <2>2, <3>1, <3>2, <3>3, Zenon DEF Surroundings
  <2>5. CASE BgCommitted \/ BgFails \/ Close
    <3>1. UNCHANGED <<due, last_sync_time_, now>>
      BY <2>5, Zenon DEF BgCommitted, BgFails, Close, treeVars, clockVars
    <3>2. bg' = bg \/ bg' = "ready"
      BY <2>5, <1>NotifyRestages, Zenon DEF BgCommitted, BgFails, Close
    <3>3. bg' \in Stages
      BY <3>2 DEF Stages, Surroundings
    <3>4. bg_error_' \in BOOLEAN /\ shutting_down_' \in BOOLEAN
      BY <2>5, Zenon DEF BgCommitted, BgFails, Close, Surroundings
    <3> QED
      BY <2>2, <3>1, <3>3, <3>4, Zenon DEF Surroundings
  <2>6. CASE Tick
    <3>1. UNCHANGED <<due, bg, bg_error_, shutting_down_, last_sync_time_>>
      BY <2>6, Zenon DEF Tick, treeVars, bgVars
    <3>2. now' \in 0..MaxTime /\ last_sync_time_ \in 0..now'
      BY <2>6, GroupCommitAssumption DEF Tick, Surroundings
    <3> QED
      BY <2>2, <3>1, <3>2, Zenon DEF Surroundings
  <2>7. CASE UNCHANGED vars
    BY <2>2, <2>7, Zenon DEF vars, memVars, treeVars, bgVars, clockVars, Surroundings
  <2> QED
    BY <2>3, <2>4, <2>5, <2>6, <2>7, Zenon DEF Background
<1>1. Places /\ Contents /\ Surroundings
  BY Zenon DEF Typed
<1>2. ASSUME NEW t \in Threads, (\E sync \in BOOLEAN : Write(t, sync)) \/ WriteOn(t)
      PROVE  Typed'
  BY <1>1, <1>2, WritePlaces, <1>WriteContents, <1>WriteSurroundings, Zenon DEF Typed
<1>3. ASSUME NEW t \in Threads, CallMaintenance(t) \/ MaintenanceOn(t)
      PROVE  Typed'
  BY <1>1, <1>3, <1>MaintenancePlaces, <1>OtherContents, <1>MaintenanceSurroundings, Zenon DEF Typed
<1>4. ASSUME Background \/ Close \/ Tick \/ UNCHANGED vars
      PROVE  Typed'
  BY <1>1, <1>4, <1>OutsidePlaces, <1>OtherContents, <1>BackgroundSurroundings, Zenon DEF Typed
<1> QED
  BY <1>2, <1>3, <1>4, GroupCommitAssumption, Zenon DEF Next

-----------------------------------------------------------------------------
(* Every step is one of SerialLog *)

PromiseStep == Promise!Next \/ UNCHANGED Promise!vars

\* A call is in one place only: it waits for its outcome, once, or it has been
\* applied, or it has failed.
Separate(q, a, f) ==
    /\ q \in Seq(Calls) /\ a \in Seq(Calls)
    /\ \A i, j \in 1..Len(q) : q[i] = q[j] => i = j
    /\ \A i \in 1..Len(q) : q[i] \notin f
    /\ \A i \in 1..Len(q), j \in 1..Len(a) : a[j] # q[i]
    /\ \A j \in 1..Len(a) : a[j] \notin f

Apart == Separate(Undecided, applied, failed)

Says(a) == [call |-> a.call, ok |-> a.ok]

\* One more answer is one more thing told.
LEMMA ToldOneMore ==
    ASSUME NEW A, NEW x
    PROVE  {Says(a) : a \in A \cup {x}} = {Says(a) : a \in A} \cup {Says(x)}
  BY Zenon

LEMMA ApplyOrFail ==
    ASSUME Apart
    PROVE  Range(applied) \cap failed = {}
<1>1. DOMAIN applied = 1..Len(applied)
  BY DEF Apart, Separate
<1> QED
  BY <1>1, Zenon DEF Apart, Separate, Range

\* The steps of SerialLog leave the places apart.
LEMMA ApartSteps ==
    ASSUME NEW q, NEW a, NEW f, Separate(q, a, f)
    PROVE  /\ \A c \in Calls : c \notin Range(q) \cup Range(a) \cup f =>
                 Separate(Append(q, c), a, f)
           /\ \A n \in 1..Len(q) :
                 /\ Separate(SubSeq(q, n + 1, Len(q)), a \o SubSeq(q, 1, n), f)
                 /\ Separate(SubSeq(q, n + 1, Len(q)), a, f \cup Range(SubSeq(q, 1, n)))
<1>0. /\ q \in Seq(Calls) /\ a \in Seq(Calls)
      /\ \A i, j \in 1..Len(q) : q[i] = q[j] => i = j
      /\ \A i \in 1..Len(q) : q[i] \notin f
      /\ \A i \in 1..Len(q), j \in 1..Len(a) : a[j] # q[i]
      /\ \A j \in 1..Len(a) : a[j] \notin f
  BY Zenon DEF Separate
<1>1. ASSUME NEW c \in Calls, c \notin Range(q) \cup Range(a) \cup f
      PROVE  Separate(Append(q, c), a, f)
  <2>1. PICK r : r = Append(q, c)
    OBVIOUS
  <2>2. /\ r \in Seq(Calls) /\ Len(r) = Len(q) + 1 /\ r[Len(q) + 1] = c
        /\ \A i \in 1..Len(q) : r[i] = q[i]
    BY <1>0, <2>1
  <2>3. /\ \A i \in 1..Len(q) : q[i] # c
        /\ \A j \in 1..Len(a) : a[j] # c
        /\ c \notin f
    <3>1. DOMAIN q = 1..Len(q) /\ DOMAIN a = 1..Len(a)
      BY <1>0
    <3> QED
      BY <1>1, <3>1, Zenon DEF Range
  <2>4. \A i \in 1..Len(r) : i \in 1..Len(q) \/ (i = Len(q) + 1 /\ r[i] = c)
    BY <1>0, <2>2
  <2>5. \A i \in 1..Len(r) : r[i] \notin f /\ \A j \in 1..Len(a) : a[j] # r[i]
    BY <1>0, <2>2, <2>3, <2>4, Zenon
  <2>6. \A i, j \in 1..Len(r) : r[i] = r[j] => i = j
    BY <1>0, <2>2, <2>3, <2>4, Zenon
  <2> QED
    BY <1>0, <2>1, <2>2, <2>5, <2>6, Zenon DEF Separate
<1>2. ASSUME NEW n \in 1..Len(q)
      PROVE  /\ Separate(SubSeq(q, n + 1, Len(q)), a \o SubSeq(q, 1, n), f)
             /\ Separate(SubSeq(q, n + 1, Len(q)), a, f \cup Range(SubSeq(q, 1, n)))
  <2>1. PICK p, r : p = SubSeq(q, 1, n) /\ r = SubSeq(q, n + 1, Len(q))
    BY Zenon
  <2>2. /\ p \in Seq(Calls) /\ Len(p) = n /\ DOMAIN p = 1..n
        /\ \A i \in 1..n : p[i] = q[i]
    BY <1>0, <2>1
  <2>3. /\ r \in Seq(Calls) /\ Len(r) = Len(q) - n
        /\ \A i \in 1..(Len(q) - n) : r[i] = q[n + i]
    BY <1>0, <2>1
  <2>4. \A i \in 1..Len(r) : n + i \in 1..Len(q) /\ r[i] = q[n + i]
    BY <1>0, <2>3
  <2>5. \A i \in 1..n : i \in 1..Len(q)
    BY <1>0
  <2>Front. \A i \in 1..n : p[i] \notin f /\ \A j \in 1..Len(a) : a[j] # p[i]
    BY ONLY SMTT(30), <1>0, <2>2, <2>5
  <2>6. \A i, j \in 1..Len(r) : r[i] = r[j] => i = j
    <3>1. \A i, j \in 1..Len(r) : r[i] = r[j] => n + i = n + j
      BY <1>0, <2>4, Zenon
    <3>2. \A i, j \in 1..Len(r) : n + i = n + j => i = j
      BY <1>0, <2>3
    <3> QED
      BY <3>1, <3>2, Zenon
  <2>7. \A i \in 1..Len(r), j \in 1..n : p[j] # r[i]
    <3> SUFFICES ASSUME NEW i \in 1..Len(r), NEW j \in 1..n
                 PROVE  p[j] # r[i]
      BY Zenon
    <3>1. n + i # j
      BY <1>0, <2>3
    <3>2. p[j] = q[j] /\ r[i] = q[n + i] /\ j \in 1..Len(q) /\ n + i \in 1..Len(q)
      BY <2>2, <2>4, <2>5, Zenon
    <3> QED
      BY ONLY <1>0, <3>1, <3>2, Zenon
  <2>8. \A i \in 1..Len(r) : r[i] \notin f /\ \A j \in 1..Len(a) : a[j] # r[i]
    <3> SUFFICES ASSUME NEW i \in 1..Len(r)
                 PROVE  r[i] \notin f /\ \A j \in 1..Len(a) : a[j] # r[i]
      BY Zenon
    <3>1. n + i \in 1..Len(q) /\ r[i] = q[n + i]
      BY <2>4, Zenon
    <3>2. q[n + i] \notin f /\ \A j \in 1..Len(a) : a[j] # q[n + i]
      BY ONLY <1>0, <3>1, Zenon
    <3> QED
      BY ONLY <3>1, <3>2, Zenon
  <2>9. Separate(r, a \o p, f)
    <3>1. PICK b : b = a \o p
      OBVIOUS
    <3>2. /\ b \in Seq(Calls)
          /\ \A j \in 1..Len(b) :
                \/ j \in 1..Len(a) /\ b[j] = a[j]
                \/ \E k \in 1..n : b[j] = p[k]
      <4>1. b \in Seq(Calls) /\ Len(b) = Len(a) + n
        BY <1>0, <2>2, <3>1
      <4>2. \A j \in 1..Len(a) : b[j] = a[j]
        BY <1>0, <2>2, <3>1
      <4>3. \A k \in 1..n : b[Len(a) + k] = p[k]
        BY <1>0, <2>2, <3>1
      <4>4. \A j \in 1..Len(b) : j \in 1..Len(a) \/ \E k \in 1..n : j = Len(a) + k
        <5> SUFFICES ASSUME NEW j \in 1..Len(b), j \notin 1..Len(a)
                     PROVE  \E k \in 1..n : j = Len(a) + k
          BY Zenon
        <5>1. j - Len(a) \in 1..n /\ j = Len(a) + (j - Len(a))
          BY <1>0, <4>1
        <5> QED
          BY <5>1, Zenon
      <4> QED
        BY <4>1, <4>2, <4>3, <4>4, Zenon
    <3>3. \A j \in 1..Len(b) : b[j] \notin f
      BY <1>0, <2>Front, <3>2, Zenon
    <3>4. \A i \in 1..Len(r), j \in 1..Len(b) : b[j] # r[i]
      BY <2>7, <2>8, <3>2, Zenon
    <3> QED
      BY <2>3, <2>6, <2>8, <3>1, <3>2, <3>3, <3>4, Zenon DEF Separate
  <2>10. Separate(r, a, f \cup Range(p))
    <3>1. Range(p) = {p[i] : i \in 1..n}
      BY <2>2, Zenon DEF Range
    <3>2. \A i \in 1..Len(r) : r[i] \notin f \cup Range(p)
      BY <2>7, <2>8, <3>1, Zenon
    <3>3. \A j \in 1..Len(a) : a[j] \notin f \cup Range(p)
      BY <1>0, <2>Front, <3>1, Zenon
    <3> QED
      BY <1>0, <2>3, <2>6, <2>8, <3>2, <3>3, Zenon DEF Separate
  <2> QED
    BY <2>1, <2>9, <2>10, Zenon
<1> QED
  BY <1>1, <1>2, Zenon

LEMMA ApartNext ==
    ASSUME Apart, PromiseStep
    PROVE  Apart'
<1>1. PICK q, a, f : q = Undecided /\ a = applied /\ f = failed
  BY Zenon
<1>2. PICK r, b, g : r = Undecided' /\ b = applied' /\ g = failed'
  BY Zenon
<1>3. Separate(q, a, f)
  BY <1>1, Zenon DEF Apart
<1>4. SUFFICES Separate(r, b, g)
  BY <1>2, Zenon DEF Apart, Separate
<1>5. \A s : Promise!Elements(s) = Range(s)
  BY Zenon DEF Promise!Elements, Range
<1>6. CASE UNCHANGED Promise!vars
  BY <1>1, <1>2, <1>3, <1>6, Zenon DEF Promise!vars
<1>7. ASSUME NEW c \in Calls, Promise!Submit(c)
      PROVE  Separate(r, b, g)
  <2>1. c \notin Range(q) \cup Range(a) \cup f /\ r = Append(q, c) /\ b = a /\ g = f
    BY <1>1, <1>2, <1>5, <1>7, Zenon DEF Promise!Submit
  <2> QED
    BY <1>3, <2>1, ApartSteps, Zenon
<1>8. ASSUME NEW c \in Calls, Promise!Answer(c)
      PROVE  Separate(r, b, g)
  BY <1>1, <1>2, <1>3, <1>8, Zenon DEF Promise!Answer
<1>9. ASSUME NEW n \in 1..Len(q), Promise!Apply(n) \/ Promise!Fail(n)
      PROVE  Separate(r, b, g)
  <2>1. CASE Promise!Apply(n)
    <3>1. r = SubSeq(q, n + 1, Len(q)) /\ b = a \o SubSeq(q, 1, n) /\ g = f
      BY <1>1, <1>2, <2>1, Zenon DEF Promise!Apply
    <3> QED
      BY <1>3, <3>1, ApartSteps, Zenon
  <2>2. CASE Promise!Fail(n)
    <3>1. /\ r = SubSeq(q, n + 1, Len(q)) /\ b = a
          /\ g = f \cup Range(SubSeq(q, 1, n))
      BY <1>1, <1>2, <1>5, <2>2, Zenon DEF Promise!Fail
    <3> QED
      BY <1>3, <3>1, ApartSteps, Zenon
  <2> QED
    BY <1>9, <2>1, <2>2, Zenon
<1> QED
  BY <1>1, <1>6, <1>7, <1>8, <1>9, Zenon DEF PromiseStep, Promise!Next

\* Who is not in a call is not in the queue.
LEMMA IdleNotQueued ==
    ASSUME CInv, NEW t \in Threads, pc[t] = "idle"
    PROVE  \A i \in 1..Len(writers_) : writers_[i] # t
<1>1. QueuedWaits /\ writers_ \in Seq(Threads)
  BY Zenon DEF CInv, KInv, LInv, Fields
<1>2. ~Leads(t) /\ pc[t] # "wait"
  BY DEF Leads
<1>3. ~Queued(t)
  BY <1>1, <1>2, NotQueued, Zenon
<1>4. DOMAIN writers_ = 1..Len(writers_)
  BY <1>1
<1> QED
  BY <1>3, <1>4, Zenon DEF Queued

\* A call of a thread changes the number of that thread only.
LEMMA NewNumber ==
    ASSUME CInv, NEW t \in Threads, NEW alone, Calling(t, alone)
    PROVE  /\ calls' \in [Threads -> Nat] /\ Call(t)' = <<t, calls[t] + 1>>
           /\ Call(t)' \in Calls
           /\ \A u \in Threads \ {t} : calls'[u] = calls[u]
<1>1. /\ calls' = [calls EXCEPT ![t] = @ + 1] /\ calls[t] < MaxCalls
      /\ calls \in [Threads -> 0..MaxCalls]
  BY Zenon DEF Calling, CInv, Made
<1>2. calls' \in [Threads -> Nat] /\ calls'[t] = calls[t] + 1 /\ calls'[t] \in 1..MaxCalls
  BY <1>1, GroupCommitAssumption
<1>3. \A u \in Threads \ {t} : calls'[u] = calls[u]
  BY <1>1, Zenon
<1>4. Call(t)' = <<t, calls[t] + 1>>
  BY <1>2, Zenon DEF Call
<1>5. Call(t)' \in Calls
  BY <1>2, <1>4 DEF Calls
<1> QED
  BY <1>2, <1>3, <1>4, <1>5

\* A Write adds its call at the end of the queue, ...
LEMMA SubmitStep ==
    ASSUME CInv, NEW t \in Threads, NEW sync \in BOOLEAN, Write(t, sync)
    PROVE  Promise!Submit(Call(t)') /\ Call(t)' \in Calls
<1>1. /\ pc[t] = "idle" /\ Calling(t, FALSE) /\ writers_' = Append(writers_, t)
      /\ UNCHANGED <<group, applied, failed, answered>>
  BY Zenon DEF Write, Calling
<1>2. PICK ws, cs, n : ws = writers_ /\ cs = calls /\ n = Gone
  BY Zenon
<1>3. /\ n \in 0..Len(ws) /\ ws \in Seq(Threads) /\ cs \in [Threads -> Nat]
      /\ Len(ws) \in Nat
  BY <1>2, GoneIs
<1>4. PICK vs, ds, c : vs = writers_' /\ ds = calls' /\ c = Call(t)'
  BY Zenon
<1>5. /\ vs = Append(ws, t) /\ vs \in Seq(Threads) /\ Len(vs) = Len(ws) + 1
      /\ vs[Len(ws) + 1] = t /\ \A i \in 1..Len(ws) : vs[i] = ws[i]
  BY <1>1, <1>2, <1>3, <1>4
<1>6. /\ ds \in [Threads -> Nat] /\ c = <<t, cs[t] + 1>> /\ c = <<t, ds[t]>>
      /\ c \in Calls /\ \A u \in Threads \ {t} : ds[u] = cs[u]
  BY <1>1, <1>2, <1>4, NewNumber, Zenon DEF Call
<1>7. \A i \in 1..Len(ws) : ws[i] # t /\ ws[i] \in Threads
  BY <1>1, <1>2, <1>3, IdleNotQueued
<1>8. Gone' = n /\ n \in 0..Len(vs)
  BY <1>1, <1>2, <1>3, <1>5 DEF Gone
<1>9. Undecided = Left(ws, cs, n) /\ Undecided' = Left(vs, ds, n)
  BY <1>2, <1>3, <1>4, <1>5, <1>8, UndecidedLeft, Zenon
<1>10. Left(vs, ds, n) = Append(Left(ws, cs, n), c)
  <2> DEFINE S == Threads \X Nat
             a == Left(ws, cs, n)
             b == Left(vs, ds, n)
             M == Len(ws) - n
  <2>1. /\ a \in Seq(S) /\ Len(a) = M
        /\ \A i \in 1..M : n + i \in 1..Len(ws) /\ a[i] = <<ws[n + i], cs[ws[n + i]]>>
    BY <1>3, LeftIs, Zenon
  <2>2. /\ b \in Seq(S) /\ Len(b) = Len(vs) - n
        /\ \A i \in 1..(Len(vs) - n) : b[i] = <<vs[n + i], ds[vs[n + i]]>>
    BY <1>5, <1>6, <1>8, LeftIs, Zenon
  <2>3. M \in Nat /\ Len(vs) - n = M + 1 /\ n + (M + 1) = Len(ws) + 1
    BY <1>3, <1>5
  <2>4. c \in S
    BY <1>6
  <2> HIDE DEF S, a, b, M
  <2>5. b[M + 1] = c
    <3>1. M + 1 \in 1..(Len(vs) - n)
      BY <2>3
    <3>2. b[M + 1] = <<vs[n + (M + 1)], ds[vs[n + (M + 1)]]>>
      BY <2>2, <3>1, Zenon
    <3> QED
      BY <1>5, <1>6, <2>3, <3>2, Zenon
  <2>6. \A i \in 1..M : b[i] = a[i]
    <3> SUFFICES ASSUME NEW i \in 1..M PROVE b[i] = a[i]
      BY Zenon
    <3>1. i \in 1..(Len(vs) - n)
      BY <2>3
    <3>2. n + i \in 1..Len(ws)
      BY <2>1, Zenon
    <3>3. vs[n + i] = ws[n + i] /\ ds[ws[n + i]] = cs[ws[n + i]]
      BY <1>5, <1>6, <1>7, <3>2, Zenon
    <3> QED
      BY <2>1, <2>2, <3>1, <3>3, Zenon
  <2>7. /\ Append(a, c) \in Seq(S) /\ Len(Append(a, c)) = M + 1
        /\ Append(a, c)[M + 1] = c /\ \A i \in 1..M : Append(a, c)[i] = a[i]
    BY <2>1, <2>3, <2>4
  <2>8. \A i \in 1..(M + 1) : i \in 1..M \/ i = M + 1
    BY <2>3
  <2>9. \A i \in 1..(M + 1) : b[i] = Append(a, c)[i]
    BY <2>5, <2>6, <2>7, <2>8, Zenon
  <2>10. b = Append(a, c)
    BY <2>2, <2>3, <2>7, <2>9, SameSequence, Zenon
  <2> QED
    BY <2>10, Zenon DEF a, b
<1>11. c \notin Promise!Elements(Undecided)
  <2>1. PICK q : q = Undecided
    BY Zenon
  <2>2. /\ q \in Seq(Threads \X Nat) /\ Len(q) = Len(ws) - n
        /\ \A i \in 1..(Len(ws) - n) : n + i \in 1..Len(ws) /\ q[i] = <<ws[n + i], cs[ws[n + i]]>>
    BY <1>3, <1>9, <2>1, LeftIs, Zenon
  <2>3. DOMAIN q = 1..(Len(ws) - n)
    BY <2>2
  <2>4. \A i \in DOMAIN q : q[i] # c
    <3> SUFFICES ASSUME NEW i \in DOMAIN q PROVE q[i] # c
      BY Zenon
    <3>1. ws[n + i] # t /\ q[i] = <<ws[n + i], cs[ws[n + i]]>>
      BY <1>7, <2>2, <2>3, Zenon
    <3> QED
      BY <1>6, <3>1
  <2> QED
    BY <2>1, <2>4, Zenon DEF Promise!Elements
<1>12. c \notin Promise!Elements(applied) \cup failed
  <2>1. \A d \in Range(applied) \cup failed : d[2] <= calls[d[1]]
    BY Zenon DEF CInv, Made
  <2>2. c[1] = t /\ ~(c[2] <= calls[c[1]])
    BY <1>2, <1>3, <1>6
  <2>3. c \notin Range(applied) \cup failed
    BY <2>1, <2>2, Zenon
  <2> QED
    BY <2>3, Zenon DEF Promise!Elements, Range
<1>13. Told' = Told
  BY <1>1, Zenon DEF Told
<1>14. Undecided' = Append(Undecided, c)
  BY <1>9, <1>10, Zenon
<1> QED
  BY <1>1, <1>4, <1>6, <1>11, <1>12, <1>13, <1>14, Zenon DEF Promise!Submit

FirstCalls(k) == [i \in 1..k |-> Call(writers_[i])]

\* All steps.
LEMMA NextPromise ==
    ASSUME CInv, Apart, [Next]_vars
    PROVE  PromiseStep
\* A step that decides nothing and lets nobody in or out.
<1>SilentStep.
    ASSUME UNCHANGED <<writers_, group, calls, applied, failed, answered>>
    PROVE  PromiseStep
  <2> USE <1>SilentStep
  <2>1. Undecided' = Undecided /\ Told' = Told
    BY Zenon DEF Undecided, CallsOf, Call, Told
  <2> QED
    BY <2>1, Zenon DEF PromiseStep, Promise!vars
\* ... and a FlushMemTable adds none.
<1>MaintenanceSilent.
    ASSUME CInv, NEW t \in Threads, CallMaintenance(t)
    PROVE  PromiseStep
  <2> USE <1>MaintenanceSilent
  <2>1. /\ pc[t] = "idle" /\ Calling(t, TRUE)
        /\ UNCHANGED <<writers_, group, applied, failed, answered>>
    BY Zenon DEF CallMaintenance, Calling
  <2>2. PICK ws, cs, n : ws = writers_ /\ cs = calls /\ n = Gone
    BY Zenon
  <2>3. n \in 0..Len(ws) /\ ws \in Seq(Threads) /\ cs \in [Threads -> Nat] /\ Len(ws) \in Nat
    BY <2>2, GoneIs
  <2>4. PICK ds : ds = calls'
    BY Zenon
  <2>5. \A u \in Threads \ {t} : ds[u] = cs[u]
    BY <2>1, <2>2, <2>4, NewNumber, Zenon
  <2>6. \A i \in 1..Len(ws) : ws[i] # t /\ ws[i] \in Threads
    BY <2>1, <2>2, <2>3, IdleNotQueued
  <2>7. Gone' = n /\ writers_' = ws
    BY <2>1, <2>2, Zenon DEF Gone
  <2>8. Undecided = Left(ws, cs, n) /\ Undecided' = Left(ws, ds, n)
    BY <2>2, <2>3, <2>4, <2>7, UndecidedLeft, Zenon
  <2>9. \A i \in 1..(Len(ws) - n) : ds[ws[n + i]] = cs[ws[n + i]]
    <3>1. \A i \in 1..(Len(ws) - n) : n + i \in 1..Len(ws)
      BY <2>3
    <3> QED
      BY <2>5, <2>6, <3>1, Zenon
  <2>10. Left(ws, ds, n) = Left(ws, cs, n)
    BY <2>9, Zenon DEF Left
  <2>11. Undecided' = Undecided /\ Told' = Told
    BY <2>1, <2>8, <2>10, Zenon DEF Told
  <2> QED
    BY <2>1, <2>11, Zenon DEF PromiseStep, Promise!vars
\* Before a leader has built its group there is none.
<1>NoGroupYet.
    ASSUME CInv, NEW t \in Threads, pc[t] = "lead"
    PROVE  /\ group.status = "none" /\ Leads(t)
           /\ 1 \in 1..Len(writers_) /\ writers_[1] = t
  <2> USE <1>NoGroupYet
  <2>1. LInv /\ Phases /\ writers_ \in Seq(Threads)
    BY Zenon DEF CInv, KInv, LInv, Fields
  <2>2. Leads(t) /\ ~HasGroup(t)
    BY DEF Leads, HasGroup
  <2>3. \A u \in Threads : ~HasGroup(u)
    BY <2>1, <2>2, LeaderAlone, GroupOfLeader, Zenon
  <2>4. group = NoGroup
    BY <2>1, <2>3, Zenon DEF Phases
  <2>5. group.status = "none"
    BY <2>4 DEF NoGroup
  <2>6. writers_ # <<>> /\ Head(writers_) = t
    BY <2>1, <2>2, Zenon DEF LInv, LeadersInFront
  <2>7. 1 \in 1..Len(writers_) /\ writers_[1] = t
    BY <2>1, <2>6
  <2> QED
    BY <2>2, <2>5, <2>7
\* A new group has no outcome.
<1>StartGroupSilent.
    ASSUME CInv, NEW t \in Threads, StartGroup(t)
    PROVE  PromiseStep
  <2> USE <1>StartGroupSilent
  <2>1. pc[t] = "lead" /\ UNCHANGED <<writers_, calls, applied, failed, answered>>
    BY Zenon DEF StartGroup, history
  <2>2. group'.status = "none"
    BY DEF StartGroup
  <2>3. group.status = "none"
    BY <2>1, <1>NoGroupYet, Zenon
  <2>4. Undecided' = Undecided /\ Told' = Told
    BY <2>1, <2>2, <2>3, Zenon DEF Undecided, CallsOf, Call, Told
  <2> QED
    BY <2>1, <2>4, Zenon DEF PromiseStep, Promise!vars
\* The first k of the queue get their outcome.
<1>FirstDecided.
    ASSUME CInv, group.status = "none", NEW k \in 1..Len(writers_), Gone' = k,
           UNCHANGED <<writers_, calls>>
    PROVE  /\ k \in 1..Len(Undecided)
           /\ Undecided' = SubSeq(Undecided, k + 1, Len(Undecided))
           /\ SubSeq(Undecided, 1, k) = FirstCalls(k)
  <2> USE <1>FirstDecided
  <2>1. PICK ws, cs, q : ws = writers_ /\ cs = calls /\ q = Undecided
    BY Zenon
  <2>2. ws \in Seq(Threads) /\ cs \in [Threads -> Nat] /\ k \in 1..Len(ws)
    BY <2>1, GoneIs, Zenon
  <2>3. k \in 0..Len(ws) /\ 0 \in 0..Len(ws)
    BY <2>2
  <2>4. Gone = 0
    BY DEF Gone
  <2>5. q = Left(ws, cs, 0) /\ Undecided' = Left(ws, cs, k)
    BY <2>1, <2>2, <2>3, <2>4, UndecidedLeft, Zenon
  <2>6. /\ k \in 1..Len(q) /\ SubSeq(q, k + 1, Len(q)) = Left(ws, cs, k)
        /\ SubSeq(q, 1, k) = FirstIn(ws, cs, k)
    BY <2>2, <2>5, FirstOf, Zenon
  <2>7. SubSeq(q, 1, k) = FirstCalls(k)
    BY <2>1, <2>6, Zenon DEF FirstCalls, FirstIn, Call
  <2> QED
    BY <2>1, <2>5, <2>6, <2>7, Zenon
\* The leader fails before there is a group: its call fails alone.
<1>LeadFailsStep.
    ASSUME CInv, NEW t \in Threads, LeadFails(t)
    PROVE  PromiseStep
  <2> USE <1>LeadFailsStep
  <2>1. /\ pc[t] = "lead" /\ group' = [NoGroup EXCEPT !.members = <<t>>, !.status = "err"]
        /\ failed' = failed \cup {Call(t)}
        /\ UNCHANGED <<writers_, calls, applied, answered>>
    BY Zenon DEF LeadFails
  <2>2. group.status = "none" /\ 1 \in 1..Len(writers_) /\ writers_[1] = t
    BY <2>1, <1>NoGroupYet, Zenon
  <2>3. Gone' = 1
    BY <2>1 DEF Gone, NoGroup
  <2>4. PICK q : q = Undecided
    BY Zenon
  <2>5. /\ 1 \in 1..Len(q) /\ Undecided' = SubSeq(q, 1 + 1, Len(q))
        /\ SubSeq(q, 1, 1) = FirstCalls(1)
    BY <2>1, <2>2, <2>3, <2>4, <1>FirstDecided, Zenon
  <2>6. \A i : i \in 1..1 <=> i = 1
    OBVIOUS
  <2>7. Promise!Elements(FirstCalls(1)) = {Call(t)}
    BY <2>2, <2>6, Zenon DEF Promise!Elements, FirstCalls
  <2>8. Told' = Told
    BY <2>1, Zenon DEF Told
  <2>9. Promise!Fail(1)
    BY <2>1, <2>4, <2>5, <2>7, <2>8, Zenon DEF Promise!Fail
  <2> QED
    BY <2>4, <2>5, <2>9, Zenon DEF PromiseStep, Promise!Next
\* The group that is being written is the front of the queue.
<1>GroupDecided.
    ASSUME CInv, NEW t \in Threads, WritesGroup(t), NEW status \in {"ok", "err"},
           group' = [group EXCEPT !.status = status], UNCHANGED <<writers_, calls>>
    PROVE  \E k \in 1..Len(Undecided) :
              /\ Undecided' = SubSeq(Undecided, k + 1, Len(Undecided))
              /\ SubSeq(Undecided, 1, k) = CallsOf(group.members)
  <2> USE <1>GroupDecided
  <2>1. LInv /\ Phases /\ DOMAIN group = GroupFields
    BY Zenon DEF CInv, KInv, LInv, Fields
  <2>2. HasGroup(t)
    BY DEF WritesGroup, HasGroup
  <2>3. group.status = "none" /\ FrontOf(group.members)
    BY <2>1, <2>2, Zenon DEF Phases, LInv, GroupInFront
  <2>4. PICK m, k : m = group.members /\ k = Len(m)
    BY Zenon
  <2>5. k \in 1..Len(writers_) /\ DOMAIN m = 1..k /\ \A i \in 1..k : m[i] = writers_[i]
    BY <2>3, <2>4 DEF FrontOf
  <2>6. group'.status = status /\ group'.members = m
    BY <2>1, <2>4 DEF GroupFields
  <2>7. Gone' = k
    BY <2>4, <2>6 DEF Gone
  <2>8. CallsOf(m) = FirstCalls(k)
    BY <2>5, Zenon DEF CallsOf, FirstCalls
  <2> QED
    BY <2>3, <2>4, <2>5, <2>7, <2>8, <1>FirstDecided, Zenon
\* The record or its fsync fails: the group fails, ...
<1>GroupFailsStep.
    ASSUME CInv, NEW t \in Threads, AddRecordFails(t) \/ SyncFails(t)
    PROVE  PromiseStep
  <2> USE <1>GroupFailsStep
  <2>1. /\ WritesGroup(t) /\ group' = [group EXCEPT !.status = "err"]
        /\ failed' = failed \cup Range(CallsOf(group.members))
        /\ UNCHANGED <<writers_, calls, applied, answered>>
    BY Zenon DEF AddRecordFails, SyncFails, GroupFails, WritesGroup
  <2>2. PICK k \in 1..Len(Undecided) :
           /\ Undecided' = SubSeq(Undecided, k + 1, Len(Undecided))
           /\ SubSeq(Undecided, 1, k) = CallsOf(group.members)
    <3>1. "err" \in {"ok", "err"}
      OBVIOUS
    <3> QED
      BY <2>1, <3>1, <1>GroupDecided, Zenon
  <2>3. \A s : Promise!Elements(s) = Range(s)
    BY Zenon DEF Promise!Elements, Range
  <2>4. Told' = Told
    BY <2>1, Zenon DEF Told
  <2>5. Promise!Fail(k)
    BY <2>1, <2>2, <2>3, <2>4, Zenon DEF Promise!Fail
  <2> QED
    BY <2>5, Zenon DEF PromiseStep, Promise!Next
\* ... or it enters the memtable.
<1>InsertGroupStep.
    ASSUME CInv, NEW t \in Threads, InsertGroup(t)
    PROVE  PromiseStep
  <2> USE <1>InsertGroupStep
  <2>1. /\ WritesGroup(t) /\ group' = [group EXCEPT !.status = "ok"]
        /\ applied' = applied \o CallsOf(group.members)
        /\ UNCHANGED <<writers_, calls, failed, answered>>
    BY Zenon DEF InsertGroup, WritesGroup
  <2>2. PICK k \in 1..Len(Undecided) :
           /\ Undecided' = SubSeq(Undecided, k + 1, Len(Undecided))
           /\ SubSeq(Undecided, 1, k) = CallsOf(group.members)
    <3>1. "ok" \in {"ok", "err"}
      OBVIOUS
    <3> QED
      BY <2>1, <3>1, <1>GroupDecided, Zenon
  <2>3. Told' = Told
    BY <2>1, Zenon DEF Told
  <2>4. Promise!Apply(k)
    BY <2>1, <2>2, <2>3, Zenon DEF Promise!Apply
  <2> QED
    BY <2>4, Zenon DEF PromiseStep, Promise!Next
\* A caller is told once what happened to its call.
<1>AnswerStep.
    ASSUME CInv, Apart, NEW t \in Threads, pc[t] # "idle", NEW status,
           Call(t) \in IF status = "ok" THEN Range(applied) ELSE failed,
           answered' = answered \cup {Answer(t, status)}, Undecided' = Undecided,
           UNCHANGED <<applied, failed>>
    PROVE  PromiseStep
  <2> USE <1>AnswerStep
  <2>1. Call(t) \in Calls /\ Call(t) \notin Answered
    BY CallMade, Zenon DEF CInv
  <2>2. Answer(t, status).call = Call(t) /\ Answer(t, status).ok = (status = "ok")
    BY DEF Answer
  <2>3. \A s : Promise!Elements(s) = Range(s)
    BY Zenon DEF Promise!Elements, Range
  <2>4. Call(t) \in Promise!Elements(applied) \cup failed
    BY <2>3, Zenon
  <2>5. Call(t) \in Promise!Elements(applied) <=> status = "ok"
    BY <2>3, ApplyOrFail, Zenon
  <2>6. Told = {Says(a) : a \in answered} /\ Told' = {Says(a) : a \in answered'}
    BY Zenon DEF Told, Says
  <2>7. Told' = Told \cup {[call |-> Call(t), ok |-> Call(t) \in Promise!Elements(applied)]}
    <3>1. Told' = Told \cup {Says(Answer(t, status))}
      BY <2>6, ToldOneMore, Zenon
    <3>2. (status = "ok") = (Call(t) \in Promise!Elements(applied))
      BY ONLY SMTT(30), <2>5
    <3>3. Says(Answer(t, status)) =
             [call |-> Call(t), ok |-> Call(t) \in Promise!Elements(applied)]
      BY ONLY SMTT(30), <2>2, <3>2 DEF Says
    <3> QED
      BY ONLY <3>1, <3>3, Zenon
  <2>8. \A a \in Told : a.call # Call(t)
    <3> SUFFICES ASSUME NEW a \in answered
                 PROVE  Says(a).call # Call(t)
      BY <2>6, Zenon
    <3>1. Says(a).call = a.call
      BY DEF Says
    <3> QED
      BY <2>1, <3>1, Zenon DEF Answered
  <2>9. Promise!Answer(Call(t))
    BY <2>4, <2>7, <2>8, Zenon DEF Promise!Answer
  <2> QED
    BY <2>1, <2>9, Zenon DEF PromiseStep, Promise!Next
<1>WakeDoneStep.
    ASSUME CInv, Apart, NEW t \in Threads, WakeDone(t)
    PROVE  PromiseStep
  <2> USE <1>WakeDoneStep
  <2>1. /\ pc[t] = "wait" /\ self[t].done
        /\ answered' = answered \cup {Answer(t, self[t].status)}
        /\ UNCHANGED <<writers_, group, calls, applied, failed>>
    BY Zenon DEF WakeDone
  <2>2. Call(t) \in IF self[t].status = "ok" THEN Range(applied) ELSE failed
    BY <2>1, Zenon DEF CInv, Outcomes
  <2>3. Undecided' = Undecided
    BY <2>1, Zenon DEF Undecided, CallsOf, Call
  <2>4. pc[t] # "idle"
    BY <2>1
  <2> QED
    BY <2>1, <2>2, <2>3, <2>4, <1>AnswerStep, Zenon
\* The leader takes out those that have an outcome, and no other.
<1>RetireAnswers.
    ASSUME CInv, Apart, NEW t \in Threads, Retire(t)
    PROVE  PromiseStep
  <2> USE <1>RetireAnswers
  <2>1. /\ pc[t] = "retire" /\ answered' = answered \cup {Answer(t, group.status)}
        /\ writers_' = Rest /\ group' = NoGroup /\ UNCHANGED <<calls, applied, failed>>
    BY Zenon DEF Retire
  <2>2. HasGroup(t) /\ pc[t] # "idle"
    BY <2>1 DEF HasGroup
  <2>3. /\ group.status \in {"ok", "err"} /\ t \in Range(group.members)
        /\ Call(t) \in IF group.status = "ok" THEN Range(applied) ELSE failed
    BY <2>1, <2>2, CallsOfGroup, Zenon DEF CInv, Phases, Outcomes
  <2>4. PICK s : s = SubSeq(writers_, Len(group.members) + 1, Len(writers_))
    BY Zenon
  <2>5. s \in Seq(Threads)
    <3>1. FrontOf(group.members) /\ writers_ \in Seq(Threads)
      BY <2>2, Zenon DEF CInv, KInv, LInv, GroupInFront, Fields
    <3> QED
      BY <2>4, <3>1 DEF FrontOf
  <2>6. group.status # "none" /\ group'.status = "none"
    BY <2>1, <2>3 DEF NoGroup
  <2>7. Undecided = CallsIn(s, calls)
    BY <2>4, <2>6, Zenon DEF Undecided, CallsOf, Call, CallsIn
  <2>8. SubSeq(s, 0 + 1, Len(s)) = s
    BY <2>5
  <2>9. writers_' = s
    BY <2>1, <2>4, Zenon DEF Rest
  <2>10. Undecided' = CallsIn(s, calls)
    <3>1. Undecided' = CallsIn(SubSeq(writers_', 0 + 1, Len(writers_')), calls')
      BY <2>6, Zenon DEF Undecided, CallsOf, Call, CallsIn
    <3> QED
      BY <2>1, <2>8, <2>9, <3>1, Zenon
  <2> QED
    BY <2>1, <2>2, <2>3, <2>7, <2>10, <1>AnswerStep, Zenon
<1>1. ASSUME Quiet PROVE PromiseStep
  BY <1>1, <1>SilentStep, Zenon DEF Quiet
<1>2. ASSUME NEW t \in Threads, NEW sync \in BOOLEAN, Write(t, sync)
      PROVE  PromiseStep
  BY <1>2, SubmitStep, Zenon DEF PromiseStep, Promise!Next
<1>3. ASSUME NEW t \in Threads, WriteOn(t)
      PROVE  PromiseStep
  <2>1. CASE \/ WakeLeads(t) \/ LeadDrains(t) \/ WaitForRoom(t) \/ RoomWoken(t)
             \/ Rotate(t)
    BY <1>1, <2>1, LeaderQuiet, Zenon
  <2>2. CASE \/ WakeDone(t) \/ LeadFails(t) \/ StartGroup(t) \/ Retire(t)
    BY <2>2, <1>WakeDoneStep, <1>LeadFailsStep, <1>StartGroupSilent, <1>RetireAnswers, Zenon
  <2>3. CASE AddRecord(t) \/ SyncLog(t)
    BY <2>3, <1>SilentStep, Zenon DEF AddRecord, SyncLog
  <2>4. CASE \/ AddRecordFails(t) \/ SyncFails(t) \/ InsertGroup(t)
    BY <2>4, <1>GroupFailsStep, <1>InsertGroupStep, Zenon
  <2> QED
    BY <1>3, <2>1, <2>2, <2>3, <2>4, Zenon DEF WriteOn
<1>4. ASSUME NEW t \in Maintainers, CallMaintenance(t)
      PROVE  PromiseStep
  BY <1>4, GroupCommitAssumption, <1>MaintenanceSilent, Zenon
<1>5. ASSUME NEW t \in Threads, MaintenanceOn(t)
      PROVE  PromiseStep
  BY <1>1, <1>5, MaintenanceQuiet, Zenon
<1>6. ASSUME Background \/ Close \/ Tick \/ UNCHANGED vars
      PROVE  PromiseStep
  BY <1>1, <1>6, BackgroundQuiet, Zenon
<1> QED
  BY <1>2, <1>3, <1>4, <1>5, <1>6, Zenon DEF Next

LEMMA InitPromise ==
    ASSUME Init
    PROVE  Promise!Init /\ Apart
<1>1. writers_ = <<>> /\ group.status = "none"
  BY DEF Init, NoGroup
<1>2. SubSeq(<<>>, 0 + 1, Len(<<>>)) = <<>>
  OBVIOUS
<1>3. Undecided = CallsOf(<<>>)
  BY <1>1, <1>2, Zenon DEF Undecided
<1>4. CallsOf(<<>>) = <<>>
  BY DEF CallsOf
<1>5. applied = <<>> /\ failed = {} /\ Told = {}
  BY Zenon DEF Init, Told
<1>6. Separate(<<>>, <<>>, {})
  BY DEF Separate
<1> QED
  BY <1>3, <1>4, <1>5, <1>6, Zenon DEF Promise!Init, Apart

-----------------------------------------------------------------------------
(* The theorems *)

LOCAL INSTANCE WellFoundedInduction

\* The least-number principle, from the well-foundedness of < on Nat.
LEMMA LeastNat == NatWellOrdered
<1> SUFFICES ASSUME NEW T \in SUBSET Nat, T # {}
             PROVE  \E x \in T : \A y \in T : x <= y
  BY Zenon DEF NatWellOrdered
<1> DEFINE R == OpToRel(<, Nat)
<1>1. IsWellFoundedOn(R, Nat)
  BY NatLessThanWellFounded, ZenonT(30)
<1>2. \A x, y \in Nat : <<y, x>> \in R <=> y < x
  BY SMTT(30) DEF OpToRel
<1> HIDE DEF R
<1>3. PICK x \in T : \A y \in T : ~(<<y, x>> \in R)
  BY <1>1, WFMin, ZenonT(30)
<1>4. \A y \in T : ~(y < x)
  BY <1>2, <1>3, ZenonT(30)
<1> QED
  BY <1>4, SMTT(30)

\* db.cpp of Write: "only the leader runs at a time, so log_ and mem_ have no
\* other writer".  With any number of threads, whatever their batches, however
\* leaders wait for room, drain, fail and retire, whoever is between the front
\* of the queue and the end of its group is the front of the queue: there is
\* one such thread at a time.
THEOREM OnlyOneLeader ==
    Spec => []OneLeader
<1>1. LInv => OneLeader
  BY ZenonT(30) DEF LInv, LeadersInFront, Leads, OneLeader
<1> QED
  BY <1>1, LeaderInit, LeaderNext, LeastNat, PTL DEF Spec

\* Whoever waits for its turn is in the queue, so that a leader that retires
\* finds it there: no caller of Write is forgotten by the groups of others.
THEOREM WaitersStayQueued ==
    Spec => []WaitersQueued
<1>1. LInv => WaitersQueued
  BY ZenonT(30) DEF LInv
<1> QED
  BY <1>1, LeaderInit, LeaderNext, LeastNat, PTL DEF Spec

\* With any number of threads and calls, whoever rotates the memtable (the
\* leader in MakeRoomForWrite or a caller of FlushMemTable) and whenever the
\* background thread gives imm_ up: a write that a group has inserted is in
\* mem_, in imm_ or in the tables, and never in two of them.  (FlushMemTable
\* rotates between groups here, not beside one.)
THEOREM AppliedStaysOnce ==
    Spec => []AppliedKept
<1>1. KInv => AppliedKept
  BY DEF KInv
<1> QED
  BY <1>1, KInit, KNext, LeastNat, PTL DEF Spec

\* With any number of threads and calls, replaying the log gives what is in
\* memory in the same order (RecoverWalFile after a crash sees the order that
\* readers saw): but for the record of a group that is between log_->AddRecord
\* and its insertion or that failed to sync, and a torn record is the last.
THEOREM LogHoldsMemory ==
    Spec => []LogAgreesWithMemory
<1>1. CInv => LogAgreesWithMemory
  BY Zenon DEF CInv, LogState
<1> QED
  BY <1>1, CInit, CNext, LeastNat, PTL DEF Spec

\* With any number of threads and batches of any size, a record of the log
\* starts with the number after the last one of the record before, and no
\* record has a number that last_sequence_ has not reached.
THEOREM LogIsNumbered ==
    Spec => []SequencesFollowLog
<1>1. CInv => SequencesFollowLog
  BY Zenon DEF CInv, Counted
<1> QED
  BY <1>1, CInit, CNext, LeastNat, PTL DEF Spec

\* With any number of threads, whoever leads and whichever batches ride
\* together: a Write that asked for sync, or any under kEveryWrite, that
\* returned OK has its record on the device, in the log or in a table.
THEOREM SyncsAreHonoured ==
    Spec => []SyncHonoured
<1>1. CInv => SyncHonoured
  BY Zenon DEF CInv, Synced
<1> QED
  BY <1>1, CInit, CNext, LeastNat, PTL DEF Spec

\* With any number of threads, a FlushMemTable or CompactAll that returns OK
\* leaves in tables all that was in mem_ when it was called, also when a
\* leader rotated that memtable and the background thread was flushing another
\* when the call began.
THEOREM FlushesWait ==
    Spec => FlushWaits
<1>1. ASSUME CInv, [Next]_vars
      PROVE  [\A t \in Threads :
                (Maintaining(t) /\ pc'[t] = "idle" /\ self'[t].status = "ok")
                   => asked[t] \subseteq current_']_vars
  BY <1>1, ReturnsItself, FlushReturned, Zenon
<1> QED
  BY <1>1, CInit, CNext, LeastNat, PTL DEF Spec, FlushWaits

\* The types, for any constants: among them that the wait count of a caller
\* stays in 0..2, that a drain runs only without a background thread, and that
\* last_sync_time_ is never in the future.
THEOREM CommitTypes ==
    Spec => []TypeOK
<1>1. CInv /\ Typed => TypeOK
  BY TypedIsTypeOK, Zenon
<1>2. CInv /\ Typed /\ [Next]_vars => (CInv /\ Typed)'
  BY CNext, LeastNat, TypedNext, Zenon
<1> QED
  BY <1>1, <1>2, CInit, LeastNat, TypedInit, PTL DEF Spec

\* The writers queue with its groups implements SerialLog, for any threads,
\* batch sizes and policy: calls take effect one after the other in the order
\* in which Write queued them, each once, or fail, and the status that Write
\* returns is OK if and only if the call took effect.
THEOREM WritesAreSerial ==
    Spec => Serial
<1>1. CInv /\ Apart /\ [Next]_vars => [Promise!Next]_(Promise!vars)
  BY NextPromise, Zenon DEF PromiseStep
<1>2. CInv /\ Apart /\ [Next]_vars => CInv' /\ Apart'
  BY CNext, LeastNat, NextPromise, ApartNext, Zenon
<1>3. Init => Promise!Init /\ Apart
  BY InitPromise, Zenon
<1> QED
  BY <1>1, <1>2, <1>3, CInit, LeastNat, PTL DEF Spec, Serial, Promise!Spec

=============================================================================
