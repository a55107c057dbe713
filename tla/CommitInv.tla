----------------------------- MODULE CommitInv ------------------------------
(***************************************************************************)
(* Two inductive invariants of the queue of writers, for any number of     *)
(* threads, calls and batches, and that every step keeps them: LInv (who   *)
(* leads) and KInv (an applied write is in one of mem_, imm_ and the       *)
(* tables).                                                                *)
(***************************************************************************)
EXTENDS GroupCommit, TLAPS

\* A set of natural numbers has a least one.  The lemmas assume it; where the
\* theorems are, it is proved.
NatWellOrdered ==
    \A T \in SUBSET Nat : T # {} => \E x \in T : \A y \in T : x <= y

-----------------------------------------------------------------------------
(* The inductive invariant *)

WriterFields == {"sync", "done", "status", "waits", "next"}
GroupFields == {"members", "sync", "base", "status"}

\* A leader also leads while it makes the outstanding flush itself.
Leads(t) ==
    \/ pc[t] \in {"lead", "room", "append", "sync", "insert", "retire"}
    \/ pc[t] = "drain" /\ self[t].next = "lead"

HasGroup(t) == pc[t] \in {"append", "sync", "insert", "retire"}

Queued(t) == \E i \in DOMAIN writers_ : writers_[i] = t

\* The members of a group are the front of the queue until it is retired.
FrontOf(members) ==
    /\ members \in Seq(Threads)
    /\ Len(members) \in 1..Len(writers_)
    /\ \A i \in 1..Len(members) : members[i] = writers_[i]

LeadersInFront == \A t \in Threads : Leads(t) => writers_ # <<>> /\ Head(writers_) = t

\* Whoever waits for its turn is in the queue: a leader that retires its group
\* tells everyone it takes out.
WaitersQueued ==
    \A t \in Threads : pc[t] = "wait" /\ ~self[t].done => Queued(t)

GroupInFront == \A t \in Threads : HasGroup(t) => FrontOf(group.members)

Fields ==
    /\ DOMAIN pc = Threads /\ DOMAIN self = Threads
    /\ \A t \in Threads : DOMAIN self[t] = WriterFields
    /\ DOMAIN group = GroupFields
    /\ writers_ \in Seq(Threads)

LInv == Fields /\ LeadersInFront /\ WaitersQueued /\ GroupInFront

-----------------------------------------------------------------------------
(* Steps that leave the queue alone *)

\* Two leaders would both be the front of the queue.
LEMMA LeaderAlone ==
    ASSUME LInv, NEW t \in Threads, NEW u \in Threads, Leads(t), Leads(u)
    PROVE  t = u
BY ZenonT(30) DEF LInv, LeadersInFront

\* A leader that has built its group still leads.
LEMMA GroupOfLeader ==
    ASSUME NEW t \in Threads, HasGroup(t)
    PROVE  Leads(t)
BY ZenonT(30) DEF HasGroup, Leads

-----------------------------------------------------------------------------
(* The actions of a Write *)

\* BuildBatchGroup takes a run from the front of the queue.
LEMMA GroupIsFront ==
    ASSUME NatWellOrdered, writers_ \in Seq(Threads), writers_ # <<>>
    PROVE  FrontOf(BuildBatchGroup)
<1> DEFINE Longest(n) == /\ \A i \in 2..n : Fits(i)
                         /\ n < Len(writers_) => ~Fits(n + 1)
           last == CHOOSE n \in 1..Len(writers_) : Longest(n)
           T == {n \in 1..Len(writers_) : n = Len(writers_) \/ ~Fits(n + 1)}
<1>1. Len(writers_) \in Nat /\ Len(writers_) >= 1
  BY SMTT(30)
<1>2. Len(writers_) \in T /\ T \in SUBSET Nat
  BY <1>1, SMTT(30)
<1>3. PICK n \in T : \A m \in T : n <= m
  BY <1>2, ZenonT(30) DEF NatWellOrdered
<1>4. n \in 1..Len(writers_) /\ (n < Len(writers_) => ~Fits(n + 1))
  BY <1>1, <1>3, SMTT(30)
<1>5. ASSUME NEW i \in 2..n
      PROVE  Fits(i)
  <2>1. i - 1 \in 1..Len(writers_) /\ (i - 1) + 1 = i /\ ~(n <= i - 1)
    BY <1>1, <1>4, <1>5, SMTT(30)
  <2>2. i - 1 \notin T
    BY <1>3, <2>1, ZenonT(30)
  <2>3. Fits((i - 1) + 1)
    BY <2>1, <2>2, ZenonT(30)
  <2> QED
    BY <2>1, <2>3, ZenonT(30)
<1>6. Longest(n)
  BY <1>4, <1>5, ZenonT(30)
<1> HIDE DEF Longest
<1>7. last \in 1..Len(writers_)
  BY <1>4, <1>6, ZenonT(30)
<1>8. BuildBatchGroup = SubSeq(writers_, 1, last)
  BY ZenonT(30) DEF BuildBatchGroup, Longest
<1> HIDE DEF last
<1>9. FrontOf(SubSeq(writers_, 1, last))
  BY <1>1, <1>7, SMTT(30) DEF FrontOf
<1> QED
  BY <1>8, <1>9, ZenonT(30)

-----------------------------------------------------------------------------
(* The whole system *)

LEMMA LeaderInit ==
    ASSUME Init
    PROVE  LInv
<1>1. /\ writers_ = <<>> /\ group = NoGroup
      /\ pc = [t \in Threads |-> "idle"] /\ self = [t \in Threads |-> NoWriter]
  BY ZenonT(30) DEF Init
<1>2. /\ DOMAIN pc = Threads /\ DOMAIN self = Threads
      /\ \A t \in Threads : pc[t] = "idle" /\ self[t] = NoWriter
  BY <1>1, ZenonT(30)
<1>3. DOMAIN NoWriter = WriterFields /\ DOMAIN NoGroup = GroupFields
  BY ZenonT(30) DEF NoWriter, NoGroup, WriterFields, GroupFields
<1>4. writers_ \in Seq(Threads)
  BY <1>1, SMTT(30)
<1>5. \A t \in Threads : ~Leads(t) /\ ~HasGroup(t) /\ pc[t] # "wait"
  BY <1>2, ZenonT(30) DEF Leads, HasGroup
<1> QED
  BY <1>1, <1>2, <1>3, <1>4, <1>5, ZenonT(30)
     DEF LInv, Fields, LeadersInFront, WaitersQueued, GroupInFront

LEMMA LeaderNext ==
    ASSUME NatWellOrdered, LInv, [Next]_vars
    PROVE  LInv'
\* The invariant reads nothing but the queue, the places and the group.
<1>QueueUnchanged.
    ASSUME LInv, UNCHANGED <<writers_, pc, self, group>>
    PROVE  LInv'
  BY <1>QueueUnchanged, ZenonT(30) DEF LInv, Fields, LeadersInFront, WaitersQueued, GroupInFront, Leads,
               HasGroup, Queued, FrontOf
\* A step of one thread, without a change of the queue: it may go on leading
\* if it is in front, and may change the group if it leads.
<1>OneThread.
    ASSUME LInv, NEW t \in Threads,
           writers_' = writers_,
           DOMAIN pc' = Threads, DOMAIN self' = Threads,
           \A u \in Threads \ {t} : pc'[u] = pc[u] /\ self'[u] = self[u],
           DOMAIN self'[t] = WriterFields,
           DOMAIN group' = GroupFields,
           pc'[t] # "wait",
           Leads(t)' => writers_ # <<>> /\ Head(writers_) = t,
           HasGroup(t)' => FrontOf(group.members)',
           group'.members = group.members \/ Leads(t)
    PROVE  LInv'
  <2> USE <1>OneThread
  <2>1. Fields'
    BY ZenonT(30) DEF LInv, Fields
  <2>2. LeadersInFront'
    <3> SUFFICES ASSUME NEW u \in Threads, Leads(u)'
                 PROVE  writers_ # <<>> /\ Head(writers_) = u
      BY ZenonT(30) DEF LeadersInFront
    <3>1. CASE u = t
      BY <3>1, ZenonT(30)
    <3>2. CASE u # t
      <4>1. Leads(u)
        BY <3>2, ZenonT(30) DEF Leads
      <4> QED
        BY <4>1, ZenonT(30) DEF LInv, LeadersInFront
    <3> QED
      BY <3>1, <3>2, ZenonT(30)
  <2>3. WaitersQueued'
    <3> SUFFICES ASSUME NEW u \in Threads, pc'[u] = "wait", ~self'[u].done
                 PROVE  Queued(u)'
      BY ZenonT(30) DEF WaitersQueued
    <3>1. u # t
      BY ZenonT(30)
    <3>2. pc[u] = "wait" /\ ~self[u].done
      BY <3>1, ZenonT(30)
    <3> QED
      BY <3>2, ZenonT(30) DEF LInv, WaitersQueued, Queued
  <2>4. GroupInFront'
    <3> SUFFICES ASSUME NEW u \in Threads, HasGroup(u)'
                 PROVE  FrontOf(group.members)'
      BY ZenonT(30) DEF GroupInFront
    <3>1. CASE u = t
      BY <3>1, ZenonT(30)
    <3>2. CASE u # t
      <4>1. HasGroup(u)
        BY <3>2, ZenonT(30) DEF HasGroup
      <4>2. ~Leads(t)
        BY <3>2, <4>1, GroupOfLeader, LeaderAlone, ZenonT(30)
      <4>3. FrontOf(group.members) /\ group'.members = group.members
        BY <4>1, <4>2, ZenonT(30) DEF LInv, GroupInFront
      <4> QED
        BY <4>3, ZenonT(30) DEF FrontOf
    <3> QED
      BY <3>1, <3>2, ZenonT(30)
  <2> QED
    BY <2>1, <2>2, <2>3, <2>4, ZenonT(30) DEF LInv
\* Who changes its place only.
<1>PlaceOnly.
    ASSUME LInv, NEW t \in Threads, NEW at,
           pc' = [pc EXCEPT ![t] = at], at # "wait", at # "drain",
           UNCHANGED <<writers_, self, group>>,
           at \in {"lead", "room", "append", "sync", "insert", "retire"} => Leads(t),
           at \in {"append", "sync", "insert", "retire"} => HasGroup(t)
    PROVE  LInv'
  <2> USE <1>PlaceOnly
  <2>1. /\ DOMAIN pc' = Threads /\ pc'[t] = at
        /\ \A u \in Threads \ {t} : pc'[u] = pc[u]
    BY ZenonT(30) DEF LInv, Fields
  <2>2. Leads(t)' => writers_ # <<>> /\ Head(writers_) = t
    BY <2>1, ZenonT(30) DEF LInv, LeadersInFront, Leads
  <2>3. HasGroup(t)' => FrontOf(group.members)'
    BY <2>1, ZenonT(30) DEF LInv, GroupInFront, HasGroup, FrontOf
  <2> QED
    BY <2>1, <2>2, <2>3, <1>OneThread, ZenonT(30) DEF LInv, Fields
\* Who has no part in the queue, before the step or after it.
<1>OutsideQueue.
    ASSUME LInv, NEW t \in Threads,
           UNCHANGED <<writers_, group>>,
           DOMAIN pc' = Threads, DOMAIN self' = Threads,
           \A u \in Threads \ {t} : pc'[u] = pc[u] /\ self'[u] = self[u],
           DOMAIN self'[t] = WriterFields,
           \/ pc'[t] \in {"idle", "flush", "rotate", "waitbg"}
           \/ pc'[t] = "drain" /\ self'[t].next # "lead"
    PROVE  LInv'
  <2> USE <1>OutsideQueue
  <2>1. pc'[t] # "wait" /\ ~Leads(t)' /\ ~HasGroup(t)'
    BY ZenonT(30) DEF Leads, HasGroup
  <2> QED
    BY <2>1, <1>OneThread, ZenonT(30) DEF LInv, Fields
<1>WriteInv.
    ASSUME LInv, NEW t \in Threads, NEW sync \in BOOLEAN, Write(t, sync)
    PROVE  LInv'
  <2> USE <1>WriteInv
  <2> USE DEF LInv, Fields
  <2>1. /\ pc[t] = "idle" /\ writers_' = Append(writers_, t) /\ group' = group
        /\ \/ writers_ = <<>> /\ pc' = [pc EXCEPT ![t] = "lead"]
           \/ writers_ # <<>> /\ pc' = [pc EXCEPT ![t] = "wait"]
        /\ self' = [self EXCEPT ![t] = [NoWriter EXCEPT !.sync = sync]]
    BY ZenonT(30) DEF Write, Calling, MustWait
  <2>2. /\ DOMAIN pc' = Threads /\ DOMAIN self' = Threads
        /\ \A u \in Threads \ {t} : pc'[u] = pc[u] /\ self'[u] = self[u]
        /\ self'[t] = [NoWriter EXCEPT !.sync = sync]
        /\ \/ writers_ = <<>> /\ pc'[t] = "lead"
           \/ writers_ # <<>> /\ pc'[t] = "wait"
    BY <2>1, ZenonT(30)
  <2>3. DOMAIN self'[t] = WriterFields
    BY <2>2, ZenonT(30) DEF NoWriter, WriterFields
  <2>4. /\ writers_' \in Seq(Threads) /\ Len(writers_') = Len(writers_) + 1
        /\ writers_' # <<>>
        /\ \A i \in 1..Len(writers_) : writers_'[i] = writers_[i]
        /\ writers_'[Len(writers_) + 1] = t
        /\ writers_ # <<>> => Head(writers_') = Head(writers_)
        /\ writers_ = <<>> => Head(writers_') = t
    BY <2>1, SMTT(30)
  <2>5. Fields'
    BY <2>1, <2>2, <2>3, <2>4, ZenonT(30)
  <2>6. LeadersInFront'
    <3> SUFFICES ASSUME NEW u \in Threads, Leads(u)'
                 PROVE  Head(writers_') = u
      BY <2>4, ZenonT(30) DEF LeadersInFront
    <3>1. CASE u = t
      BY <2>2, <2>4, <3>1, ZenonT(30) DEF Leads
    <3>2. CASE u # t
      <4>1. Leads(u)
        BY <2>2, <3>2, ZenonT(30) DEF Leads
      <4> QED
        BY <2>4, <4>1, ZenonT(30) DEF LeadersInFront
    <3> QED
      BY <3>1, <3>2, ZenonT(30)
  <2>7. WaitersQueued'
    <3> SUFFICES ASSUME NEW u \in Threads, pc'[u] = "wait", ~self'[u].done
                 PROVE  \E i \in DOMAIN writers_' : writers_'[i] = u
      BY ZenonT(30) DEF WaitersQueued, Queued
    <3>1. CASE u = t
      <4>1. Len(writers_) + 1 \in DOMAIN writers_'
        BY <2>4, SMTT(30)
      <4> QED
        BY <2>4, <3>1, <4>1, ZenonT(30)
    <3>2. CASE u # t
      <4>1. PICK i \in DOMAIN writers_ : writers_[i] = u
        BY <2>2, <3>2, ZenonT(30) DEF WaitersQueued, Queued
      <4>2. i \in DOMAIN writers_' /\ writers_'[i] = u
        BY <2>4, <4>1, SMTT(30)
      <4> QED
        BY <4>2, ZenonT(30)
    <3> QED
      BY <3>1, <3>2, ZenonT(30)
  <2>8. GroupInFront'
    <3> SUFFICES ASSUME NEW u \in Threads, HasGroup(u)'
                 PROVE  FrontOf(group.members)'
      BY ZenonT(30) DEF GroupInFront
    <3>1. HasGroup(u)
      BY <2>2, ZenonT(30) DEF HasGroup
    <3>2. FrontOf(group.members)
      BY <3>1, ZenonT(30) DEF GroupInFront
    <3> QED
      BY <2>1, <2>4, <3>2, SMTT(30) DEF FrontOf
  <2> QED
    BY <2>5, <2>6, <2>7, <2>8, ZenonT(30)
\* Coming to the front, waiting for room and the writes to the log.
<1>LeaderMovesInv.
    ASSUME LInv, NEW t \in Threads,
           \/ WakeDone(t) \/ WakeLeads(t) \/ WaitForRoom(t) \/ RoomWoken(t)
           \/ AddRecord(t) \/ SyncLog(t)
    PROVE  LInv'
  <2> USE <1>LeaderMovesInv
  <2>1. CASE WakeDone(t)
    <3>1. pc' = [pc EXCEPT ![t] = "idle"] /\ UNCHANGED <<writers_, self, group>>
      BY <2>1, ZenonT(30) DEF WakeDone
    <3> QED
      BY <3>1, <1>PlaceOnly, ZenonT(30)
  <2>2. CASE WakeLeads(t)
    <3>1. /\ pc' = [pc EXCEPT ![t] = "lead"] /\ UNCHANGED <<writers_, self, group>>
          /\ pc[t] = "wait" /\ ~self[t].done /\ Head(writers_) = t
      BY <2>2, ZenonT(30) DEF WakeLeads
    <3>2. PICK i \in DOMAIN writers_ : writers_[i] = t
      BY <3>1, ZenonT(30) DEF LInv, WaitersQueued, Queued
    <3>3. writers_ # <<>>
      BY <3>2, SMTT(30)
    <3>4. /\ DOMAIN pc' = Threads /\ pc'[t] = "lead"
          /\ \A u \in Threads \ {t} : pc'[u] = pc[u]
      BY <3>1, ZenonT(30) DEF LInv, Fields
    <3>5. ~HasGroup(t)'
      BY <3>4, ZenonT(30) DEF HasGroup
    <3> QED
      BY <3>1, <3>3, <3>4, <3>5, <1>OneThread, ZenonT(30) DEF LInv, Fields
  <2>3. CASE WaitForRoom(t)
    <3>1. /\ pc[t] = "lead" /\ pc' = [pc EXCEPT ![t] = "room"]
          /\ UNCHANGED <<writers_, self, group>>
      BY <2>3, ZenonT(30) DEF WaitForRoom
    <3> QED
      BY <3>1, <1>PlaceOnly, ZenonT(30) DEF Leads
  <2>4. CASE RoomWoken(t)
    <3>1. /\ pc[t] = "room" /\ pc' = [pc EXCEPT ![t] = "lead"]
          /\ UNCHANGED <<writers_, self, group>>
      BY <2>4, ZenonT(30) DEF RoomWoken
    <3> QED
      BY <3>1, <1>PlaceOnly, ZenonT(30) DEF Leads
  <2>5. CASE AddRecord(t)
    <3>1. PICK at \in {"sync", "insert"} : pc' = [pc EXCEPT ![t] = at]
      BY <2>5, ZenonT(30) DEF AddRecord
    <3>2. pc[t] = "append" /\ UNCHANGED <<writers_, self, group>>
      BY <2>5, ZenonT(30) DEF AddRecord
    <3> QED
      BY <3>1, <3>2, <1>PlaceOnly, ZenonT(30) DEF Leads, HasGroup
  <2>6. CASE SyncLog(t)
    <3>1. /\ pc[t] = "sync" /\ pc' = [pc EXCEPT ![t] = "insert"]
          /\ UNCHANGED <<writers_, self, group>>
      BY <2>6, ZenonT(30) DEF SyncLog
    <3> QED
      BY <3>1, <1>PlaceOnly, ZenonT(30) DEF Leads, HasGroup
  <2> QED
    BY <2>1, <2>2, <2>3, <2>4, <2>5, <2>6, ZenonT(30)
\* The two ways to get a group.
<1>NewGroupInv.
    ASSUME NatWellOrdered, LInv, NEW t \in Threads, LeadFails(t) \/ StartGroup(t)
    PROVE  LInv'
  <2> USE <1>NewGroupInv
  <2>1. /\ pc[t] = "lead" /\ UNCHANGED <<writers_, self>>
        /\ \E at \in {"append", "retire"} : pc' = [pc EXCEPT ![t] = at]
    BY ZenonT(30) DEF LeadFails, StartGroup
  <2>2. /\ DOMAIN pc' = Threads /\ pc'[t] # "wait"
        /\ \A u \in Threads \ {t} : pc'[u] = pc[u]
    BY <2>1, ZenonT(30) DEF LInv, Fields
  <2>3. Leads(t) /\ writers_ # <<>> /\ Head(writers_) = t
    BY <2>1, ZenonT(30) DEF LInv, LeadersInFront, Leads
  <2>4. DOMAIN group' = GroupFields /\ FrontOf(group'.members)
    <3>1. CASE LeadFails(t)
      <4>1. group' = [NoGroup EXCEPT !.members = <<t>>, !.status = "err"]
        BY <3>1, ZenonT(30) DEF LeadFails
      <4>2. DOMAIN group' = GroupFields /\ group'.members = <<t>>
        BY <4>1, SMTT(30) DEF NoGroup, GroupFields
      <4>3. FrontOf(<<t>>)
        BY <2>3, SMTT(30) DEF FrontOf, LInv, Fields
      <4> QED
        BY <4>2, <4>3, ZenonT(30)
    <3>2. CASE StartGroup(t)
      <4>1. group' = [members |-> BuildBatchGroup,
                      sync |-> ShouldSyncNow(self[t].sync),
                      base |-> last_sequence_ + 1, status |-> "none"]
        BY <3>2, ZenonT(30) DEF StartGroup
      <4>2. DOMAIN group' = GroupFields /\ group'.members = BuildBatchGroup
        BY <4>1, SMTT(30) DEF GroupFields
      <4> QED
        BY <2>3, <4>2, GroupIsFront, ZenonT(30) DEF LInv, Fields
    <3> QED
      BY <3>1, <3>2, ZenonT(30)
  <2>5. FrontOf(group.members)'
    BY <2>1, <2>4, ZenonT(30) DEF FrontOf
  <2> QED
    BY <2>1, <2>2, <2>3, <2>4, <2>5, <1>OneThread, ZenonT(30) DEF LInv, Fields
\* The three ways a group gets its outcome.
<1>OutcomeInv.
    ASSUME LInv, NEW t \in Threads,
           AddRecordFails(t) \/ SyncFails(t) \/ InsertGroup(t)
    PROVE  LInv'
  <2> USE <1>OutcomeInv
  <2>1. /\ HasGroup(t) /\ UNCHANGED <<writers_, self>>
        /\ pc' = [pc EXCEPT ![t] = "retire"]
        /\ \E status \in {"ok", "err"} : group' = [group EXCEPT !.status = status]
    BY ZenonT(30) DEF AddRecordFails, SyncFails, InsertGroup, GroupFails, HasGroup
  <2>2. /\ DOMAIN pc' = Threads /\ pc'[t] # "wait"
        /\ \A u \in Threads \ {t} : pc'[u] = pc[u]
    BY <2>1, ZenonT(30) DEF LInv, Fields
  <2>3. DOMAIN group' = GroupFields /\ group'.members = group.members
    BY <2>1, ZenonT(30) DEF LInv, Fields, GroupFields
  <2>4. writers_ # <<>> /\ Head(writers_) = t
    BY <2>1, GroupOfLeader, ZenonT(30) DEF LInv, LeadersInFront
  <2>5. FrontOf(group.members)'
    BY <2>1, <2>3, ZenonT(30) DEF LInv, GroupInFront, FrontOf
  <2> QED
    BY <2>1, <2>2, <2>3, <2>4, <2>5, <1>OneThread, ZenonT(30) DEF LInv, Fields
<1>LeadDrainsInv.
    ASSUME LInv, NEW t \in Threads, LeadDrains(t)
    PROVE  LInv'
  <2> USE <1>LeadDrainsInv
  <2>1. /\ pc[t] = "lead" /\ UNCHANGED <<writers_, group>>
        /\ pc' = [pc EXCEPT ![t] = "drain"]
        /\ self' = [self EXCEPT ![t].next = "lead", ![t].waits = 0]
    BY ZenonT(30) DEF LeadDrains, Drain
  <2>2. /\ DOMAIN pc' = Threads /\ pc'[t] = "drain"
        /\ \A u \in Threads \ {t} : pc'[u] = pc[u]
    BY <2>1, ZenonT(30) DEF LInv, Fields
  <2>3. /\ DOMAIN self' = Threads /\ DOMAIN self'[t] = WriterFields
        /\ \A u \in Threads \ {t} : self'[u] = self[u]
    BY <2>1, SMTT(30) DEF LInv, Fields
  <2>4. writers_ # <<>> /\ Head(writers_) = t
    BY <2>1, ZenonT(30) DEF LInv, LeadersInFront, Leads
  <2>5. pc'[t] # "wait" /\ ~HasGroup(t)'
    BY <2>2, ZenonT(30) DEF HasGroup
  <2> QED
    BY <2>1, <2>2, <2>3, <2>4, <2>5, <1>OneThread, ZenonT(30) DEF LInv, Fields
\* Retire takes the leader and its group out of the queue and tells them so;
\* who still waits is behind them, and no one leads for the moment.
<1>RetireInv.
    ASSUME LInv, NEW t \in Threads, Retire(t)
    PROVE  LInv'
  <2> USE <1>RetireInv
  <2>1. /\ pc[t] = "retire" /\ writers_' = Rest /\ group' = NoGroup
        /\ pc' = [pc EXCEPT ![t] = "idle"]
        /\ self' = [u \in Threads |->
                      IF u \in Range(group.members) \ {t}
                      THEN [self[u] EXCEPT !.done = TRUE, !.status = group.status]
                      ELSE self[u]]
    BY ZenonT(30) DEF Retire, Finished
  <2>2. /\ DOMAIN pc' = Threads /\ pc'[t] = "idle"
        /\ \A u \in Threads \ {t} : pc'[u] = pc[u]
    BY <2>1, ZenonT(30) DEF LInv, Fields
  <2>3. HasGroup(t) /\ Leads(t)
    BY <2>1, ZenonT(30) DEF HasGroup, Leads
  <2>4. FrontOf(group.members)
    BY <2>3, ZenonT(30) DEF LInv, GroupInFront
  <2>5. PICK n \in Nat : n = Len(group.members)
    BY <2>4, SMTT(30) DEF FrontOf
  <2>6. /\ writers_ \in Seq(Threads) /\ n <= Len(writers_)
        /\ \A i \in 1..n : group.members[i] = writers_[i]
        /\ DOMAIN group.members = 1..n
    BY <2>4, <2>5, SMTT(30) DEF LInv, Fields, FrontOf
  <2>7. writers_' = SubSeq(writers_, n + 1, Len(writers_))
    BY <2>1, <2>5, ZenonT(30) DEF Rest
  <2>8. /\ writers_' \in Seq(Threads) /\ Len(writers_') = Len(writers_) - n
        /\ \A i \in 1..(Len(writers_) - n) : writers_'[i] = writers_[i + n]
    BY <2>6, <2>7, SMTT(30)
  <2>9. ASSUME NEW u \in Threads
         PROVE  DOMAIN self'[u] = WriterFields /\ self'[u].next = self[u].next
    <3>1. DOMAIN self[u] = WriterFields /\ "next" \in DOMAIN self[u]
      BY ZenonT(30) DEF LInv, Fields, WriterFields
    <3>2. CASE u \in Range(group.members) \ {t}
      <4>1. self'[u] = [self[u] EXCEPT !.done = TRUE, !.status = group.status]
        BY <2>1, <3>2, ZenonT(30)
      <4> QED
        BY <3>1, <4>1, ZenonT(30)
    <3>3. CASE u \notin Range(group.members) \ {t}
      <4>1. self'[u] = self[u]
        BY <2>1, <3>3, ZenonT(30)
      <4> QED
        BY <3>1, <4>1, ZenonT(30)
    <3> QED
      BY <3>2, <3>3, ZenonT(30)
  <2>10. ~\E u \in Threads : Leads(u)'
    <3> SUFFICES ASSUME NEW u \in Threads, Leads(u)'
                 PROVE  FALSE
      BY ZenonT(30)
    <3>1. CASE u = t
      BY <2>2, <3>1, ZenonT(30) DEF Leads
    <3>2. CASE u # t
      <4>1. pc'[u] = pc[u]
        BY <2>2, <3>2, ZenonT(30)
      <4>2. ~Leads(u)
        BY <2>3, <3>2, LeaderAlone, ZenonT(30)
      <4>3. pc[u] = "drain" /\ self'[u].next = "lead"
        BY <4>1, <4>2, ZenonT(30) DEF Leads
      <4>4. self'[u].next = self[u].next
        BY <2>9, ZenonT(30)
      <4> QED
        BY <4>2, <4>3, <4>4, ZenonT(30) DEF Leads
    <3> QED
      BY <3>1, <3>2, ZenonT(30)
  <2>11. Fields'
    <3>1. DOMAIN self' = Threads
      BY <2>1, ZenonT(30)
    <3>2. \A u \in Threads : DOMAIN self'[u] = WriterFields
      BY <2>9, ZenonT(30)
    <3>3. DOMAIN group' = GroupFields
      BY <2>1, ZenonT(30) DEF NoGroup, GroupFields
    <3> QED
      BY <2>2, <2>8, <3>1, <3>2, <3>3, ZenonT(30) DEF Fields
  <2>12. WaitersQueued'
    <3> SUFFICES ASSUME NEW u \in Threads, pc'[u] = "wait", ~self'[u].done
                 PROVE  \E i \in DOMAIN writers_' : writers_'[i] = u
      BY ZenonT(30) DEF WaitersQueued, Queued
    <3>1. u # t /\ pc[u] = "wait"
      BY <2>2, ZenonT(30)
    <3>2. u \notin Range(group.members)
      <4> SUFFICES ASSUME u \in Range(group.members)
                   PROVE  FALSE
        BY SMTT(30)
      <4>1. self'[u] = [self[u] EXCEPT !.done = TRUE, !.status = group.status]
        BY <2>1, <3>1, ZenonT(30)
      <4>2. self'[u].done = TRUE
        BY <4>1, SMTT(30) DEF LInv, Fields, WriterFields
      <4> QED
        BY <4>2, ZenonT(30)
    <3>3. ~self[u].done
      BY <2>1, <3>2, ZenonT(30)
    <3>4. PICK i \in DOMAIN writers_ : writers_[i] = u
      BY <3>1, <3>3, ZenonT(30) DEF LInv, WaitersQueued, Queued
    <3>5. i \notin 1..n
      BY <2>6, <3>2, <3>4, ZenonT(30) DEF Range
    <3>6. i - n \in DOMAIN writers_' /\ writers_'[i - n] = u
      <4>1. i \in 1..Len(writers_) /\ Len(writers_) \in Nat
        BY ONLY <2>6, <3>4, SMTT(30)
      <4>2. i - n \in 1..(Len(writers_) - n) /\ (i - n) + n = i
        BY ONLY n \in Nat, <3>5, <4>1, SMTT(30)
      <4>3. DOMAIN writers_' = 1..(Len(writers_) - n)
        BY ONLY <2>8, SMTT(30)
      <4> QED
        BY <2>8, <3>4, <4>2, <4>3, ZenonT(30)
    <3> QED
      BY <3>6, ZenonT(30)
  <2> QED
    BY <2>10, <2>11, <2>12, GroupOfLeader, ZenonT(30)
       DEF LInv, LeadersInFront, GroupInFront, HasGroup, Leads
<1>CallMaintenanceInv.
    ASSUME LInv, NEW t \in Threads, CallMaintenance(t)
    PROVE  LInv'
  <2> USE <1>CallMaintenanceInv
  <2>1. PICK at \in {"flush", "waitbg"}, waits \in 0..1 :
           /\ pc' = [pc EXCEPT ![t] = at]
           /\ self' = [self EXCEPT ![t] = [NoWriter EXCEPT !.waits = waits]]
    BY ZenonT(30) DEF CallMaintenance, Goto
  <2>2. UNCHANGED <<writers_, group>>
    BY ZenonT(30) DEF CallMaintenance
  <2>3. /\ DOMAIN pc' = Threads /\ DOMAIN self' = Threads
        /\ \A u \in Threads \ {t} : pc'[u] = pc[u] /\ self'[u] = self[u]
        /\ pc'[t] = at /\ self'[t] = [NoWriter EXCEPT !.waits = waits]
    BY <2>1, ZenonT(30) DEF LInv, Fields
  <2>4. DOMAIN self'[t] = WriterFields
    BY <2>3, ZenonT(30) DEF NoWriter, WriterFields
  <2> QED
    BY <2>2, <2>3, <2>4, <1>OutsideQueue, ZenonT(30)
\* What a maintenance call may do to its own place and its own Writer.
<1>MaintenanceStep.
    ASSUME LInv, NEW t \in Threads, UNCHANGED <<writers_, group>>,
           \/ UNCHANGED <<pc, self>>
           \/ \E status : Returns(t, status)
           \/ \E at \in {"rotate", "waitbg"} : Goto(t, at) /\ self' = self
           \/ \E waits : /\ Goto(t, "waitbg")
                         /\ self' = [self EXCEPT ![t].waits = waits]
           \/ \E at \in {"rotate", "waitbg"} : \E waits : Drain(t, at, waits)
    PROVE  LInv'
  <2> USE <1>MaintenanceStep
  <2> DEFINE OthersKept ==
                /\ DOMAIN pc' = Threads /\ DOMAIN self' = Threads
                /\ \A u \in Threads \ {t} : pc'[u] = pc[u] /\ self'[u] = self[u]
             Outside == \/ pc'[t] \in {"idle", "flush", "rotate", "waitbg"}
                        \/ pc'[t] = "drain" /\ self'[t].next # "lead"
  <2>1. CASE UNCHANGED <<pc, self>>
    BY <2>1, <1>QueueUnchanged, ZenonT(30)
  <2>2. CASE \E status : Returns(t, status)
    <3>1. OthersKept /\ pc'[t] = "idle" /\ DOMAIN self'[t] = WriterFields
      BY <2>2, ZenonT(30) DEF Returns, Goto, LInv, Fields
    <3> QED
      BY <3>1, <1>OutsideQueue, ZenonT(30)
  <2>3. CASE \E at \in {"rotate", "waitbg"} : Goto(t, at) /\ self' = self
    <3>1. OthersKept /\ Outside /\ DOMAIN self'[t] = WriterFields
      BY <2>3, ZenonT(30) DEF Goto, LInv, Fields
    <3> QED
      BY <3>1, <1>OutsideQueue, ZenonT(30)
  <2>4. CASE \E waits : Goto(t, "waitbg") /\ self' = [self EXCEPT ![t].waits = waits]
    <3>1. OthersKept /\ pc'[t] = "waitbg" /\ DOMAIN self'[t] = WriterFields
      BY <2>4, SMTT(30) DEF Goto, LInv, Fields
    <3> QED
      BY <3>1, <1>OutsideQueue, ZenonT(30)
  <2>5. CASE \E at \in {"rotate", "waitbg"} : \E waits : Drain(t, at, waits)
    <3>1. PICK at \in {"rotate", "waitbg"} : \E waits : Drain(t, at, waits)
      BY <2>5, ZenonT(30)
    <3>2. PICK waits : Drain(t, at, waits)
      BY <3>1, ZenonT(30)
    <3>3. /\ pc' = [pc EXCEPT ![t] = "drain"]
          /\ self' = [self EXCEPT ![t].next = at, ![t].waits = waits]
      BY <3>2, ZenonT(30) DEF Drain
    <3>4. OthersKept /\ pc'[t] = "drain" /\ DOMAIN self'[t] = WriterFields
      BY <3>3, SMTT(30) DEF LInv, Fields
    <3>5. self'[t].next = at
      BY <3>3, SMTT(30) DEF LInv, Fields, WriterFields
    <3>6. self'[t].next # "lead"
      BY <3>5, ZenonT(30)
    <3> QED
      BY <3>4, <3>6, <1>OutsideQueue, ZenonT(30)
  <2> QED
    BY <2>1, <2>2, <2>3, <2>4, <2>5, ZenonT(30)
<1>FlushInv.
    ASSUME LInv, NEW t \in Threads,
           FlushLoop(t) \/ FlushReturns(t) \/ FlushRotate(t)
    PROVE  LInv'
  <2> USE <1>FlushInv
  <2>1. UNCHANGED <<writers_, group>>
    BY ZenonT(30) DEF FlushLoop, FlushReturns, FlushRotate
  <2>2. CASE FlushLoop(t)
    <3>1. \/ UNCHANGED <<pc, self>>
          \/ Returns(t, "err")
          \/ Goto(t, "rotate") /\ self' = self
          \/ Drain(t, "rotate", self[t].waits)
      BY <2>2, ZenonT(30) DEF FlushLoop
    <3> QED
      BY <2>1, <3>1, <1>MaintenanceStep, ZenonT(30)
  <2>3. CASE FlushReturns(t)
    <3>1. \/ Returns(t, "ok")
          \/ Returns(t, "err")
          \/ Goto(t, "waitbg") /\ self' = self
      BY <2>3, ZenonT(30) DEF FlushReturns
    <3> QED
      BY <2>1, <3>1, <1>MaintenanceStep, ZenonT(30)
  <2>4. CASE FlushRotate(t)
    <3>1. \/ Returns(t, "ok")
          \/ Goto(t, "waitbg") /\ self' = [self EXCEPT ![t].waits = WaitsOfFlush(t)]
          \/ Drain(t, "waitbg", self[t].waits)
      BY <2>4, ZenonT(30) DEF FlushRotate
    <3> QED
      BY <2>1, <3>1, <1>MaintenanceStep, ZenonT(30)
  <2> QED
    BY <2>2, <2>3, <2>4, ZenonT(30)
\* A wait that is over leaves its caller where it was, with one wait less.
<1>WaitLoopInv.
    ASSUME LInv, NEW t \in Threads, WaitLoop(t)
    PROVE  LInv'
  <2> USE <1>WaitLoopInv
  <2>1. UNCHANGED <<writers_, group>> /\ pc[t] = "waitbg"
    BY ZenonT(30) DEF WaitLoop
  <2>2. \/ UNCHANGED <<pc, self>>
        \/ \E status : Returns(t, status)
        \/ pc' = pc /\ self' = [self EXCEPT ![t].waits = @ - 1]
        \/ Drain(t, "waitbg", self[t].waits - 1)
    BY ZenonT(30) DEF WaitLoop
  <2>3. CASE pc' = pc /\ self' = [self EXCEPT ![t].waits = @ - 1]
    <3>1. /\ DOMAIN self' = Threads /\ DOMAIN self'[t] = WriterFields
          /\ \A u \in Threads \ {t} : self'[u] = self[u]
      BY <2>3, ZenonT(30) DEF LInv, Fields
    <3> QED
      BY <2>1, <2>3, <3>1, <1>OutsideQueue, ZenonT(30) DEF LInv, Fields
  <2> QED
    BY <2>1, <2>2, <2>3, <1>MaintenanceStep, ZenonT(30)
<1>DrainEndsInv.
    ASSUME LInv, NEW t \in Threads, DrainEnds(t)
    PROVE  LInv'
  <2> USE <1>DrainEndsInv
  <2>1. UNCHANGED <<writers_, group>> /\ pc[t] = "drain"
    BY ZenonT(30) DEF DrainEnds
  <2>2. \/ self[t].next = "lead" /\ Goto(t, "lead") /\ self' = self
        \/ Goto(t, "rotate") /\ self' = self
        \/ \E status : Returns(t, status)
        \/ Goto(t, "waitbg") /\ self' = self
    BY ZenonT(30) DEF DrainEnds
  <2>3. CASE self[t].next = "lead" /\ Goto(t, "lead") /\ self' = self
    BY <2>1, <2>3, <1>PlaceOnly, ZenonT(30) DEF Goto, Leads
  <2> QED
    BY <2>1, <2>2, <2>3, <1>MaintenanceStep, ZenonT(30)
<1>1. ASSUME NEW t \in Threads, NEW sync \in BOOLEAN, Write(t, sync)
      PROVE  LInv'
  BY <1>1, <1>WriteInv, ZenonT(30)
<1>2. ASSUME NEW t \in Threads, WriteOn(t)
      PROVE  LInv'
  <2>1. CASE Rotate(t)
    <3>1. UNCHANGED <<writers_, pc, self, group>>
      BY <2>1, ZenonT(30) DEF Rotate
    <3> QED
      BY <3>1, <1>QueueUnchanged, ZenonT(30)
  <2> QED
    BY <1>2, <2>1, <1>LeaderMovesInv, <1>NewGroupInv, <1>OutcomeInv, <1>LeadDrainsInv,
       <1>RetireInv, ZenonT(30) DEF WriteOn
<1>3. ASSUME NEW t \in Maintainers, CallMaintenance(t)
      PROVE  LInv'
  BY <1>3, GroupCommitAssumption, <1>CallMaintenanceInv, ZenonT(30)
<1>4. ASSUME NEW t \in Threads, MaintenanceOn(t)
      PROVE  LInv'
  BY <1>4, <1>FlushInv, <1>WaitLoopInv, <1>DrainEndsInv, ZenonT(30) DEF MaintenanceOn
<1>5. CASE Background \/ Close \/ Tick \/ UNCHANGED vars
  <2>1. CASE Background
    BY <2>1, <1>QueueUnchanged, ZenonT(30)
       DEF Background, BgWork, BgSleep, BgFlushBuilt, BgCompacted, BgCommitted,
           BgFails, queueVars
  <2>2. CASE Close \/ Tick \/ UNCHANGED vars
    BY <2>2, <1>QueueUnchanged, ZenonT(30) DEF Close, Tick, vars, queueVars
  <2> QED
    BY <1>5, <2>1, <2>2, ZenonT(30)
<1> QED
  BY <1>1, <1>2, <1>3, <1>4, <1>5, ZenonT(30) DEF Next

-----------------------------------------------------------------------------
(* The inductive invariant of AppliedKept: whoever rotates, flushes or     *)
(* compacts, what has been applied is in one of mem_, imm_ and the tables. *)

\* FlushMemTable rotates with mu_ held since it saw that imm_ is free.
RotatorHolds == \A t \in Threads : pc[t] = "rotate" => mu_ = t /\ imm_ = {}

\* A thread is in the queue once, and then it waits for its turn or leads.
OnceQueued ==
    \A i, j \in DOMAIN writers_ : writers_[i] = writers_[j] => i = j

QueuedWaits ==
    \A t \in Threads :
        Queued(t) => (pc[t] = "wait" /\ ~self[t].done) \/ Leads(t)

Stored == mem_ \cup imm_ \cup current_

\* Calls are numbered, and only those that were made are stored.
Numbered ==
    /\ calls \in [Threads -> Nat]
    /\ applied \in Seq(Threads \X Nat)
    /\ \A c \in Stored : c \in Threads \X Nat /\ c[2] <= calls[c[1]]

\* The i-th of the queue is still to be decided: it is not of a group that is
\* being retired.
Waits(i) == \A t \in Threads : pc[t] = "retire" => i > Len(group.members)

Fresh == \A i \in DOMAIN writers_ : Waits(i) => Call(writers_[i]) \notin Stored

KInv ==
    /\ LInv /\ RotatorHolds
    /\ OnceQueued /\ QueuedWaits
    /\ Numbered /\ Fresh
    /\ AppliedKept

-----------------------------------------------------------------------------
(* The queue *)

LEMMA NotQueued ==
    ASSUME QueuedWaits, NEW t \in Threads, ~Leads(t),
           pc[t] # "wait" \/ self[t].done
    PROVE  ~Queued(t)
BY DEF QueuedWaits

-----------------------------------------------------------------------------
(* The writes that are stored *)

\* What is stored may move between the three places, each write as a whole.
Moved ==
    \/ UNCHANGED <<mem_, imm_, current_>>
    \/ imm_ = {} /\ imm_' = mem_ /\ mem_' = {} /\ current_' = current_
    \/ current_' = current_ \cup imm_ /\ imm_' = {} /\ mem_' = mem_

KeepsData == OnceQueued /\ QueuedWaits /\ Numbered /\ Fresh /\ AppliedKept

LEMMA SequenceOf ==
    ASSUME NEW S, NEW n \in Nat, NEW c, c = [i \in 1..n |-> c[i]],
           \A i \in 1..n : c[i] \in S
    PROVE  c \in Seq(S)
<1>1. c \in [1..n -> S]
  OBVIOUS
<1> QED
  BY <1>1, SMTT(30)

LEMMA RangeConcat ==
    ASSUME NEW S, NEW a \in Seq(S), NEW c \in Seq(S)
    PROVE  Range(a \o c) \subseteq Range(a) \cup Range(c)
<1>1. \A i \in DOMAIN (a \o c) :
         \/ \E j \in DOMAIN a : (a \o c)[i] = a[j]
         \/ \E j \in DOMAIN c : (a \o c)[i] = c[j]
  BY SMTT(30)
<1> QED
  BY <1>1 DEF Range

-----------------------------------------------------------------------------
(* The whole system *)

LEMMA KInit ==
    ASSUME Init
    PROVE  KInv
<1>1. /\ writers_ = <<>> /\ mem_ = {} /\ imm_ = {} /\ current_ = {}
      /\ applied = <<>> /\ calls = [t \in Threads |-> 0]
      /\ pc = [t \in Threads |-> "idle"]
  BY DEF Init
<1>2. DOMAIN writers_ = {} /\ DOMAIN applied = {} /\ applied \in Seq(Threads \X Nat)
  BY <1>1, SMTT(30)
<1>3. \A t \in Threads : pc[t] # "rotate"
  BY <1>1
<1>4. calls \in [Threads -> Nat]
  BY <1>1, SMTT(30)
<1>5. RotatorHolds /\ OnceQueued /\ QueuedWaits /\ Fresh
  BY <1>2, <1>3 DEF RotatorHolds, OnceQueued, QueuedWaits, Queued, Fresh
<1>6. Numbered
  BY <1>1, <1>2, <1>4 DEF Numbered, Stored
<1>7. AppliedKept
  BY <1>1, <1>2 DEF AppliedKept, AppliedFound, Range
<1> QED
  BY <1>5, <1>6, <1>7, LeaderInit DEF KInv

LEMMA KNext ==
    ASSUME NatWellOrdered, KInv, [Next]_vars
    PROVE  KInv'
\* Without mu_ no step lets anyone rotate, and imm_ is at most given up.
<1>WithoutLock.
    ASSUME RotatorHolds, mu_' = mu_, imm_' = imm_ \/ imm_' = {},
           \A u \in Threads : pc'[u] = "rotate" => pc[u] = "rotate"
    PROVE  RotatorHolds'
  BY <1>WithoutLock DEF RotatorHolds
\* Whoever takes or has mu_ is alone with it.
<1>WithLock.
    ASSUME RotatorHolds, NEW t \in Threads, mu_ \in {Free, t},
           \A u \in Threads \ {t} : pc'[u] = pc[u],
           pc'[t] = "rotate" => mu_' = t /\ imm_' = {}
    PROVE  RotatorHolds'
  <2> USE <1>WithLock
  <2> SUFFICES ASSUME NEW u \in Threads, pc'[u] = "rotate"
               PROVE  mu_' = u /\ imm_' = {}
    BY DEF RotatorHolds
  <2>1. CASE u = t
    BY <2>1
  <2>2. CASE u # t
    <3>1. mu_ = u
      BY <2>2 DEF RotatorHolds
    <3> QED
      BY <2>2, <3>1, GroupCommitAssumption
  <2> QED
    BY <2>1, <2>2
<1>WriteOnHolds.
    ASSUME KInv, NEW t \in Threads,
           WriteOn(t) \/ \E sync \in BOOLEAN : Write(t, sync)
    PROVE  RotatorHolds'
  <2> USE <1>WriteOnHolds
  <2>1. RotatorHolds /\ DOMAIN pc = Threads
    BY DEF KInv, LInv, Fields
  <2>2. CASE \/ AddRecord(t) \/ AddRecordFails(t) \/ SyncLog(t) \/ SyncFails(t)
             \/ InsertGroup(t)
    <3>1. /\ mu_' = mu_ /\ imm_' = imm_
          /\ \E at \in {"sync", "insert", "retire"} : pc' = [pc EXCEPT ![t] = at]
      BY <2>2, ZenonT(30) DEF AddRecord, AddRecordFails, SyncLog, SyncFails, InsertGroup,
                  memVars, treeVars
    <3>2. \A u \in Threads : pc'[u] = "rotate" => pc[u] = "rotate"
      BY <2>1, <3>1
    <3> QED
      BY <2>1, <3>1, <3>2, <1>WithoutLock
  <2>3. CASE Rotate(t)
    <3>1. mu_ = t /\ pc[t] = "lead" /\ pc' = pc
      BY <2>3 DEF Rotate
    <3> QED
      BY <2>1, <3>1, <1>WithLock
  <2>4. CASE \/ WakeDone(t) \/ WakeLeads(t) \/ LeadFails(t) \/ LeadDrains(t)
             \/ WaitForRoom(t) \/ RoomWoken(t) \/ StartGroup(t) \/ Retire(t)
             \/ \E sync \in BOOLEAN : Write(t, sync)
    <3>1. /\ mu_ \in {Free, t}
          /\ \E at \in {"idle", "wait", "lead", "room", "append", "retire", "drain"} :
                pc' = [pc EXCEPT ![t] = at]
      BY <2>4, ZenonT(30) DEF WakeDone, WakeLeads, LeadFails, LeadDrains, Drain, WaitForRoom,
                  RoomWoken, StartGroup, Retire, Write, Calling
    <3>2. pc'[t] # "rotate" /\ \A u \in Threads \ {t} : pc'[u] = pc[u]
      BY <2>1, <3>1
    <3> QED
      BY <2>1, <3>1, <3>2, <1>WithLock
  <2> QED
    BY <2>2, <2>3, <2>4 DEF WriteOn
<1>MaintenanceHolds.
    ASSUME KInv, NEW t \in Threads, MaintenanceOn(t) \/ CallMaintenance(t)
    PROVE  RotatorHolds'
  <2> USE <1>MaintenanceHolds
  <2>1. RotatorHolds /\ DOMAIN pc = Threads
    BY DEF KInv, LInv, Fields
  <2>2. mu_ \in {Free, t}
    BY Zenon DEF MaintenanceOn, FlushLoop, FlushReturns, FlushRotate, WaitLoop,
           DrainEnds, CallMaintenance, Calling
  <2>3. \/ pc' = pc /\ pc[t] # "rotate"
        \/ \E at \in {"idle", "flush", "waitbg", "drain", "lead"} :
              pc' = [pc EXCEPT ![t] = at]
        \/ pc' = [pc EXCEPT ![t] = "rotate"] /\ mu_' = t /\ imm_' = {}
    <3>1. CASE FlushLoop(t)
      BY <3>1 DEF FlushLoop, Returns, Goto, Drain, SlotTaken, treeVars
    <3>2. CASE FlushReturns(t)
      BY <3>2 DEF FlushReturns, Returns, Goto
    <3>3. CASE FlushRotate(t)
      BY <3>3 DEF FlushRotate, Returns, Goto, Drain
    <3>4. CASE WaitLoop(t)
      BY <3>4 DEF WaitLoop, Returns, Goto, Drain
    <3>5. CASE DrainEnds(t)
      BY <3>5 DEF DrainEnds, Returns, Goto, Pending, treeVars
    <3>6. CASE CallMaintenance(t)
      BY <3>6, ZenonT(30) DEF CallMaintenance, Goto
    <3> QED
      BY Zenon, <3>1, <3>2, <3>3, <3>4, <3>5, <3>6 DEF MaintenanceOn
  <2>4. /\ \A u \in Threads \ {t} : pc'[u] = pc[u]
        /\ pc'[t] = "rotate" => mu_' = t /\ imm_' = {}
    BY <2>1, <2>3
  <2> QED
    BY <2>1, <2>2, <2>4, <1>WithLock
<1>BackgroundHolds.
    ASSUME KInv, Background \/ Close \/ Tick \/ UNCHANGED vars
    PROVE  RotatorHolds'
  <2> USE <1>BackgroundHolds
  <2>1. mu_' = mu_ /\ pc' = pc /\ (imm_' = imm_ \/ imm_' = {})
    BY Zenon DEF Background, BgWork, BgSleep, BgFlushBuilt, BgCompacted, BgCommitted,
           BgFails, Close, Tick, vars, queueVars, memVars, treeVars
  <2> QED
    BY <2>1, <1>WithoutLock DEF KInv
\* A step of one thread that leaves the queue alone: if it is in the queue it
\* leads afterwards.
<1>QueueOneThread.
    ASSUME OnceQueued, QueuedWaits, NEW t \in Threads,
           writers_' = writers_,
           \A u \in Threads \ {t} : pc'[u] = pc[u] /\ self'[u] = self[u],
           ~Queued(t) \/ Leads(t)'
    PROVE  OnceQueued' /\ QueuedWaits'
  <2> USE <1>QueueOneThread
  <2>1. OnceQueued'
    BY Zenon DEF OnceQueued
  <2>2. QueuedWaits'
    <3> SUFFICES ASSUME NEW u \in Threads, Queued(u)'
                 PROVE  (pc'[u] = "wait" /\ ~self'[u].done) \/ Leads(u)'
      BY Zenon DEF QueuedWaits
    <3>1. Queued(u)
      BY Zenon DEF Queued
    <3>2. CASE u = t
      BY <3>1, <3>2
    <3>3. CASE u # t
      <4>1. (pc[u] = "wait" /\ ~self[u].done) \/ Leads(u)
        BY Zenon, <3>1 DEF QueuedWaits
      <4> QED
        BY <3>3, <4>1 DEF Leads
    <3> QED
      BY <3>2, <3>3
  <2> QED
    BY <2>1, <2>2
<1>QueueFrame.
    ASSUME OnceQueued, QueuedWaits, UNCHANGED <<writers_, pc, self>>
    PROVE  OnceQueued' /\ QueuedWaits'
  BY Zenon, <1>QueueFrame DEF OnceQueued, QueuedWaits, Queued, Leads
\* A caller of Write was not in the queue.
<1>QueueWrite.
    ASSUME KInv, NEW t \in Threads, NEW sync \in BOOLEAN, Write(t, sync)
    PROVE  OnceQueued' /\ QueuedWaits'
  <2> USE <1>QueueWrite
  <2>1. /\ pc[t] = "idle" /\ writers_' = Append(writers_, t)
        /\ \/ pc' = [pc EXCEPT ![t] = "lead"]
           \/ pc' = [pc EXCEPT ![t] = "wait"]
        /\ self' = [self EXCEPT ![t] = [NoWriter EXCEPT !.sync = sync]]
    BY DEF Write, Calling
  <2>2. /\ DOMAIN pc = Threads /\ DOMAIN self = Threads /\ writers_ \in Seq(Threads)
        /\ OnceQueued /\ QueuedWaits
    BY Zenon DEF KInv, LInv, Fields
  <2>3. /\ \A u \in Threads \ {t} : pc'[u] = pc[u] /\ self'[u] = self[u]
        /\ pc'[t] \in {"lead", "wait"}
        /\ self'[t] = [NoWriter EXCEPT !.sync = sync]
    BY <2>1, <2>2
  <2>4. self'[t].done = FALSE
    BY <2>3 DEF NoWriter
  <2>5. ~Leads(t)
    BY <2>1 DEF Leads
  <2>6. ~Queued(t)
    BY <2>1, <2>2, <2>5, NotQueued
  <2>7. \A i \in DOMAIN writers_ : writers_[i] # t
    BY <2>6 DEF Queued
  <2>8. \A i \in DOMAIN writers_' :
           \/ i \in DOMAIN writers_ /\ writers_'[i] = writers_[i]
           \/ i = Len(writers_) + 1 /\ writers_'[i] = t
    BY <2>1, <2>2, SMTT(30)
  <2>9. OnceQueued'
    BY <2>2, <2>7, <2>8 DEF OnceQueued
  <2>10. QueuedWaits'
    <3> SUFFICES ASSUME NEW u \in Threads, Queued(u)'
                 PROVE  (pc'[u] = "wait" /\ ~self'[u].done) \/ Leads(u)'
      BY Zenon DEF QueuedWaits
    <3>1. CASE u = t
      BY <2>3, <2>4, <3>1, ZenonT(30) DEF Leads
    <3>2. CASE u # t
      <4>1. Queued(u)
        BY <2>8, <3>2 DEF Queued
      <4>2. (pc[u] = "wait" /\ ~self[u].done) \/ Leads(u)
        BY <2>2, <4>1 DEF QueuedWaits
      <4> QED
        BY <2>3, <3>2, <4>2 DEF Leads
    <3> QED
      BY <3>1, <3>2
  <2> QED
    BY <2>9, <2>10
\* Retire leaves those behind the group, who are no members of it.
<1>QueueRetire.
    ASSUME KInv, NEW t \in Threads, Retire(t)
    PROVE  /\ OnceQueued' /\ QueuedWaits'
           /\ \A i \in DOMAIN writers_' :
                 \E j \in DOMAIN writers_ :
                    j > Len(group.members) /\ writers_'[i] = writers_[j]
  <2> USE <1>QueueRetire
  <2>1. /\ pc[t] = "retire" /\ writers_' = Rest
        /\ pc' = [pc EXCEPT ![t] = "idle"]
        /\ self' = [u \in Threads |->
                      IF u \in Range(group.members) \ {t}
                      THEN [self[u] EXCEPT !.done = TRUE, !.status = group.status]
                      ELSE self[u]]
    BY ZenonT(30) DEF Retire, Finished
  <2>2. /\ LInv /\ OnceQueued /\ QueuedWaits /\ writers_ \in Seq(Threads)
        /\ DOMAIN pc = Threads
    BY DEF KInv, LInv, Fields
  <2>3. FrontOf(group.members) /\ writers_ # <<>> /\ Head(writers_) = t
    BY <2>1, <2>2, ZenonT(30) DEF LInv, GroupInFront, LeadersInFront, HasGroup, Leads
  <2>4. PICK n \in Nat : n = Len(group.members)
    BY <2>3, SMTT(30) DEF FrontOf
  <2>5. /\ n >= 1 /\ n <= Len(writers_) /\ DOMAIN group.members = 1..n
        /\ \A i \in 1..n : i \in DOMAIN writers_ /\ group.members[i] = writers_[i]
        /\ 1 \in DOMAIN writers_ /\ writers_[1] = t
    BY <2>2, <2>3, <2>4, SMTT(30) DEF FrontOf
  <2>6. writers_' = SubSeq(writers_, n + 1, Len(writers_))
    BY <2>1, <2>4, ZenonT(30) DEF Rest
  <2>7. \A i \in DOMAIN writers_' :
           /\ i \in Nat /\ i + n \in DOMAIN writers_ /\ i + n > n
           /\ writers_'[i] = writers_[i + n]
    BY ONLY SMTT(30), <2>2, <2>5, <2>6, SMTT(30)
  <2>8. OnceQueued'
    <3> SUFFICES ASSUME NEW i \in DOMAIN writers_', NEW j \in DOMAIN writers_',
                        writers_'[i] = writers_'[j]
                 PROVE  i = j
      BY DEF OnceQueued
    <3>1. i + n = j + n
      BY <2>2, <2>7 DEF OnceQueued
    <3> QED
      BY <2>7, <3>1, SMTT(30)
  <2>9. QueuedWaits'
    <3> SUFFICES ASSUME NEW u \in Threads, NEW i \in DOMAIN writers_',
                        writers_'[i] = u
                 PROVE  (pc'[u] = "wait" /\ ~self'[u].done) \/ Leads(u)'
      BY DEF QueuedWaits, Queued
    <3>1. i + n \in DOMAIN writers_ /\ writers_[i + n] = u
      BY <2>7
    <3>2. i + n \notin 1..n
      BY <2>4, <2>7, SMTT(30)
    <3>3. \A j \in 1..n : writers_[j] # u
      BY Zenon, <2>2, <2>5, <3>1, <3>2 DEF OnceQueued
    <3>4. 1 \in 1..n
      BY <2>4, <2>5, SMTT(30)
    <3>5. u # t
      BY <2>5, <3>3, <3>4
    <3>6. u \notin Range(group.members)
      BY Zenon, <2>5, <3>3 DEF Range
    <3>7. pc'[u] = pc[u] /\ self'[u] = self[u]
      BY <2>1, <2>2, <3>5, <3>6, ZenonT(30)
    <3>8. Queued(u)
      BY <3>1 DEF Queued
    <3>9. (pc[u] = "wait" /\ ~self[u].done) \/ Leads(u)
      BY <2>2, <3>8 DEF QueuedWaits
    <3> QED
      BY <3>7, <3>9 DEF Leads
  <2> QED
    BY <2>4, <2>7, <2>8, <2>9
\* While a leader has no outcome, everyone in the queue is undecided.
<1>NoOneRetires.
    ASSUME LInv, NEW t \in Threads, Leads(t), pc[t] # "retire"
    PROVE  \A i : Waits(i)
  <2> USE <1>NoOneRetires
  <2>1. \A u \in Threads : pc[u] = "retire" => Leads(u)
    BY DEF Leads
  <2>2. \A u \in Threads : pc[u] # "retire"
    BY <2>1, LeaderAlone
  <2> QED
    BY <2>2 DEF Waits
\* No step but a Retire makes someone undecided.
<1>WaitsBefore.
    ASSUME LInv, NEW t \in Threads, pc[t] # "retire",
           \A u \in Threads \ {t} : pc'[u] = pc[u],
           group'.members = group.members \/ Leads(t),
           NEW i, Waits(i)'
    PROVE  Waits(i)
  <2> USE <1>WaitsBefore
  <2>1. CASE Leads(t)
    BY <2>1, <1>NoOneRetires
  <2>2. CASE group'.members = group.members
    BY <2>2 DEF Waits
  <2> QED
    BY <2>1, <2>2
<1>MovedKept.
    ASSUME AppliedKept, Moved, applied' = applied
    PROVE  AppliedKept' /\ Stored' = Stored
  BY <1>MovedKept DEF AppliedKept, AppliedFound, Moved, Stored, Range
\* A step of one thread that makes no call, inserts nothing and retires no one.
<1>ThreadStep.
    ASSUME KInv, NEW t \in Threads, pc[t] # "retire",
           UNCHANGED <<writers_, calls, applied>>, Moved,
           \A u \in Threads \ {t} : pc'[u] = pc[u] /\ self'[u] = self[u],
           group'.members = group.members \/ Leads(t),
           ~Queued(t) \/ Leads(t)'
    PROVE  KeepsData'
  <2> USE <1>ThreadStep
  <2>1. OnceQueued' /\ QueuedWaits'
    BY <1>QueueOneThread DEF KInv
  <2>2. AppliedKept' /\ Stored' = Stored
    BY <1>MovedKept DEF KInv
  <2>3. Numbered'
    BY <2>2 DEF KInv, Numbered
  <2>4. Fresh'
    <3> SUFFICES ASSUME NEW i \in DOMAIN writers_, Waits(i)'
                 PROVE  Call(writers_[i]) \notin Stored
      BY <2>2 DEF Fresh, Call
    <3>1. Waits(i)
      BY Zenon, <1>WaitsBefore DEF KInv
    <3> QED
      BY Zenon, <3>1 DEF KInv, Fresh
  <2> QED
    BY <2>1, <2>2, <2>3, <2>4 DEF KeepsData
\* A step of the background thread, of the destructor or of the clock.
<1>OutsideStep.
    ASSUME KInv, Background \/ Close \/ Tick \/ UNCHANGED vars
    PROVE  KeepsData'
  <2> USE <1>OutsideStep
  <2>1. UNCHANGED <<writers_, pc, self, group, calls, applied>>
    BY ZenonT(30) DEF Background, BgWork, BgSleep, BgFlushBuilt, BgCompacted, BgCommitted,
           BgFails, Close, Tick, vars, queueVars, history
  <2>2. Moved
    BY Zenon DEF Background, BgWork, BgSleep, BgFlushBuilt, BgCompacted, BgCommitted,
           BgFails, Close, Tick, vars, memVars, treeVars, Moved
  <2>3. OnceQueued' /\ QueuedWaits'
    BY <2>1, <1>QueueFrame DEF KInv
  <2>4. AppliedKept' /\ Stored' = Stored
    BY <2>1, <2>2, <1>MovedKept DEF KInv
  <2>5. Numbered'
    BY <2>1, <2>4 DEF KInv, Numbered
  <2>6. Fresh'
    BY <2>1, <2>4 DEF KInv, Fresh, Call, Waits
  <2> QED
    BY <2>3, <2>4, <2>5, <2>6 DEF KeepsData
\* A new call of t changes the number of t only, and t is not in the queue.
<1>CallsMore.
    ASSUME KInv, NEW t \in Threads, pc[t] = "idle",
           calls' = [calls EXCEPT ![t] = @ + 1],
           UNCHANGED <<mem_, imm_, current_, applied, group>>,
           \A u \in Threads \ {t} : pc'[u] = pc[u]
    PROVE  /\ Numbered' /\ AppliedKept'
           /\ Call(t)' \notin Stored'
           /\ \A i \in DOMAIN writers_ :
                 Waits(i)' => <<writers_[i], calls'[writers_[i]]>> \notin Stored'
  <2> USE <1>CallsMore
  <2>1. /\ calls \in [Threads -> Nat] /\ writers_ \in Seq(Threads)
        /\ \A c \in Stored : c \in Threads \X Nat /\ c[2] <= calls[c[1]]
    BY DEF KInv, Numbered, LInv, Fields
  <2>2. Stored' = Stored
    BY DEF Stored
  <2>3. /\ calls' \in [Threads -> Nat] /\ calls'[t] = calls[t] + 1
        /\ \A u \in Threads \ {t} : calls'[u] = calls[u]
        /\ \A u \in Threads : calls[u] <= calls'[u]
    BY <2>1, SMTT(30)
  <2>4. ASSUME NEW c \in Stored
        PROVE  c \in Threads \X Nat /\ c[2] <= calls'[c[1]]
    <3>1. PICK u \in Threads, n \in Nat : c = <<u, n>>
      BY <2>1
    <3>2. n <= calls[u] /\ calls[u] <= calls'[u]
      BY Zenon, <2>1, <2>3, <3>1
    <3> QED
      BY <2>1, <2>3, <3>1, <3>2, SMTT(30)
  <2>5. Numbered'
    BY <2>2, <2>3, <2>4 DEF KInv, Numbered
  <2>6. AppliedKept'
    BY Zenon, <1>MovedKept DEF KInv, Moved
  <2>7. <<t, calls[t] + 1>> \notin Stored
    <3> SUFFICES ASSUME <<t, calls[t] + 1>> \in Stored
                 PROVE  FALSE
      OBVIOUS
    <3>1. calls[t] + 1 <= calls[t]
      BY <2>1
    <3> QED
      BY <2>1, <3>1, SMTT(30)
  <2>8. ASSUME NEW i \in DOMAIN writers_, Waits(i)'
        PROVE  <<writers_[i], calls'[writers_[i]]>> \notin Stored'
    <3>1. ~Leads(t)
      BY Zenon DEF Leads
    <3>2. ~Queued(t)
      BY <3>1, NotQueued DEF KInv
    <3>3. writers_[i] # t /\ writers_[i] \in Threads
      BY <2>1, <3>2 DEF Queued
    <3>4. Waits(i)
      BY Zenon, <2>8, <1>WaitsBefore DEF KInv
    <3>5. <<writers_[i], calls[writers_[i]]>> \notin Stored
      BY Zenon, <3>4 DEF KInv, Fresh, Call
    <3> QED
      BY Zenon, <2>2, <2>3, <3>3, <3>5
  <2> QED
    BY Zenon, <2>2, <2>3, <2>5, <2>6, <2>7, <2>8 DEF Call
<1>WriteStep.
    ASSUME KInv, NEW t \in Threads, NEW sync \in BOOLEAN, Write(t, sync)
    PROVE  KeepsData'
  <2> USE <1>WriteStep
  <2>1. /\ pc[t] = "idle" /\ writers_' = Append(writers_, t)
        /\ calls' = [calls EXCEPT ![t] = @ + 1]
        /\ \/ pc' = [pc EXCEPT ![t] = "lead"]
           \/ pc' = [pc EXCEPT ![t] = "wait"]
        /\ UNCHANGED <<mem_, imm_, current_, applied, group>>
    BY DEF Write, Calling, memVars, treeVars
  <2>2. DOMAIN pc = Threads /\ writers_ \in Seq(Threads)
    BY DEF KInv, LInv, Fields
  <2>3. \A u \in Threads \ {t} : pc'[u] = pc[u]
    BY <2>1, <2>2
  <2>4. /\ Numbered' /\ AppliedKept'
        /\ Call(t)' \notin Stored'
        /\ \A i \in DOMAIN writers_ :
              Waits(i)' => <<writers_[i], calls'[writers_[i]]>> \notin Stored'
    BY <2>1, <2>3, <1>CallsMore, ZenonT(30)
  <2>5. \A i \in DOMAIN writers_' :
           \/ i \in DOMAIN writers_ /\ writers_'[i] = writers_[i]
           \/ writers_'[i] = t
    BY ONLY SMTT(30), <2>1, <2>2, SMTT(30)
  <2>6. Fresh'
    BY Zenon, <2>4, <2>5 DEF Fresh, Call
  <2> QED
    BY Zenon, <2>4, <2>6, <1>QueueWrite DEF KeepsData
<1>CallMaintenanceStep.
    ASSUME KInv, NEW t \in Threads, CallMaintenance(t)
    PROVE  KeepsData'
  <2> USE <1>CallMaintenanceStep
  <2>1. /\ pc[t] = "idle" /\ writers_' = writers_
        /\ calls' = [calls EXCEPT ![t] = @ + 1]
        /\ UNCHANGED <<mem_, imm_, current_, applied, group>>
    BY DEF CallMaintenance, Calling, memVars, treeVars
  <2>2. PICK at \in {"flush", "waitbg"}, waits \in 0..1 :
           /\ pc' = [pc EXCEPT ![t] = at]
           /\ self' = [self EXCEPT ![t] = [NoWriter EXCEPT !.waits = waits]]
    BY ZenonT(30) DEF CallMaintenance, Goto
  <2>3. \A u \in Threads \ {t} : pc'[u] = pc[u] /\ self'[u] = self[u]
    BY <2>2 DEF KInv, LInv, Fields
  <2>4. /\ Numbered' /\ AppliedKept'
        /\ \A i \in DOMAIN writers_ :
              Waits(i)' => <<writers_[i], calls'[writers_[i]]>> \notin Stored'
    BY <2>1, <2>3, <1>CallsMore, ZenonT(30)
  <2>5. Fresh'
    BY Zenon, <2>1, <2>4 DEF Fresh, Call
  <2>6. ~Leads(t)
    BY Zenon, <2>1 DEF Leads
  <2>7. ~Queued(t)
    BY Zenon, <2>1, <2>6, NotQueued DEF KInv
  <2>8. OnceQueued' /\ QueuedWaits'
    BY Zenon, <2>1, <2>3, <2>7, <1>QueueOneThread DEF KInv
  <2> QED
    BY <2>4, <2>5, <2>8 DEF KeepsData
\* What a group adds to the history it adds to mem_, and it was nowhere yet.
<1>InsertStep.
    ASSUME KInv, NEW t \in Threads, InsertGroup(t)
    PROVE  KeepsData'
  <2> USE <1>InsertStep
  <2> DEFINE c == CallsOf(group.members)
  <2>1. /\ pc[t] = "insert" /\ mem_' = mem_ \cup Range(c) /\ applied' = applied \o c
        /\ group' = [group EXCEPT !.status = "ok"]
        /\ pc' = [pc EXCEPT ![t] = "retire"]
        /\ UNCHANGED <<writers_, self, imm_, current_, calls>>
    BY DEF InsertGroup
  <2>2. /\ LInv /\ OnceQueued /\ QueuedWaits /\ Numbered /\ Fresh /\ AppliedKept
        /\ DOMAIN pc = Threads /\ writers_ \in Seq(Threads)
        /\ calls \in [Threads -> Nat] /\ applied \in Seq(Threads \X Nat)
        /\ DOMAIN group = GroupFields
    BY Zenon DEF KInv, LInv, Fields, Numbered
  <2>3. Leads(t) /\ HasGroup(t)
    BY <2>1 DEF Leads, HasGroup
  <2>4. FrontOf(group.members) /\ group'.members = group.members
    BY <2>1, <2>2, <2>3 DEF LInv, GroupInFront, GroupFields
  <2>5. PICK n \in Nat : n = Len(group.members)
    BY <2>4, SMTT(30) DEF FrontOf
  <2>6. /\ DOMAIN group.members = 1..n
        /\ \A i \in 1..n : i \in DOMAIN writers_ /\ group.members[i] = writers_[i]
        /\ \A i \in DOMAIN writers_ : writers_[i] \in Threads
    BY ONLY SMTT(30), <2>2, <2>4, <2>5, SMTT(30) DEF FrontOf
  <2>7. /\ DOMAIN c = 1..n
        /\ \A i \in 1..n : i \in DOMAIN writers_ /\ c[i] = <<writers_[i], calls[writers_[i]]>>
    BY Zenon, <2>6 DEF CallsOf, Call
  <2>8. c \in Seq(Threads \X Nat)
    <3>1. c = [i \in 1..n |-> c[i]]
      BY <2>6 DEF CallsOf
    <3> HIDE DEF c
    <3>2. ASSUME NEW i \in 1..n
          PROVE  c[i] \in Threads \X Nat
      <4>1. PICK u \in Threads : u = writers_[i]
        BY <2>6
      <4>2. c[i] = <<u, calls[u]>> /\ calls[u] \in Nat
        BY Zenon, <2>2, <2>7, <4>1
      <4> QED
        BY <4>2
    <3> QED
      BY <2>5, <3>1, <3>2, SequenceOf, ZenonT(30)
  <2> HIDE DEF c
  <2>9. \A i : Waits(i)
    BY <2>1, <2>2, <2>3, <1>NoOneRetires, ZenonT(30)
  <2>10. \A i \in DOMAIN writers_ : <<writers_[i], calls[writers_[i]]>> \notin Stored
    BY <2>2, <2>9, ZenonT(30) DEF Fresh, Call
  <2>11. Range(c) \cap Stored = {}
    BY <2>7, <2>10, ZenonT(30) DEF Range
  <2>12. Stored' = Stored \cup Range(c)
    BY <2>1 DEF Stored
  <2>13. OnceQueued' /\ QueuedWaits'
    <3>1. pc'[t] = "retire" /\ \A u \in Threads \ {t} : pc'[u] = pc[u] /\ self'[u] = self[u]
      BY <2>1, <2>2
    <3>2. Leads(t)'
      BY <3>1 DEF Leads
    <3> QED
      BY <2>1, <2>2, <3>1, <3>2, <1>QueueOneThread
  <2>14. Numbered'
    <3>1. applied' \in Seq(Threads \X Nat)
      BY <2>1, <2>2, <2>8, SMTT(30)
    <3>2. \A d \in Range(c) : d \in Threads \X Nat /\ d[2] <= calls[d[1]]
      <4> SUFFICES ASSUME NEW i \in 1..n
                   PROVE  c[i] \in Threads \X Nat /\ c[i][2] <= calls[c[i][1]]
        BY Zenon, <2>7 DEF Range
      <4>1. PICK u \in Threads : u = writers_[i]
        BY <2>6
      <4>2. c[i] = <<u, calls[u]>>
        BY Zenon, <2>7, <4>1
      <4>3. calls[u] \in Nat
        BY <2>2
      <4> QED
        BY <4>2, <4>3, SMTT(30)
    <3> QED
      BY <2>1, <2>2, <2>12, <3>1, <3>2 DEF Numbered
  <2>15. Fresh'
    <3> SUFFICES ASSUME NEW i \in DOMAIN writers_, Waits(i)'
                 PROVE  <<writers_[i], calls[writers_[i]]>> \notin Range(c)
      BY <2>1, <2>10, <2>12 DEF Fresh, Call
    <3>1. pc'[t] = "retire"
      BY <2>1, <2>2
    <3>2. i > n
      BY <2>4, <2>5, <3>1 DEF Waits
    <3>3. i \notin 1..n
      BY <2>5, <3>2, SMTT(30)
    <3>4. \A j \in 1..n : writers_[j] # writers_[i]
      BY Zenon, <2>2, <2>6, <3>3 DEF OnceQueued
    <3>5. \A j \in 1..n : c[j] # <<writers_[i], calls[writers_[i]]>>
      BY ONLY SMTT(30), <2>7, <3>4
    <3> QED
      BY Zenon, <2>7, <3>5 DEF Range
  <2>16. AppliedKept'
    <3>1. Range(applied \o c) \subseteq Range(applied) \cup Range(c)
      BY <2>2, <2>8, RangeConcat
    <3>2. AppliedFound'
      BY <2>1, <2>2, <3>1 DEF AppliedKept, AppliedFound
    <3> QED
      BY <2>1, <2>2, <2>11, <3>2 DEF AppliedKept, Stored
  <2> QED
    BY <2>13, <2>14, <2>15, <2>16 DEF KeepsData
\* Those behind a group are undecided while it is retired, and stay so.
<1>RetireStep.
    ASSUME KInv, NEW t \in Threads, Retire(t)
    PROVE  KeepsData'
  <2> USE <1>RetireStep
  <2>1. pc[t] = "retire" /\ UNCHANGED <<mem_, imm_, current_, calls, applied>>
    BY ZenonT(30) DEF Retire, treeVars
  <2>2. AppliedKept' /\ Stored' = Stored
    BY <2>1, <1>MovedKept DEF KInv, Moved
  <2>3. Numbered'
    BY <2>1, <2>2 DEF KInv, Numbered
  <2>4. /\ OnceQueued' /\ QueuedWaits'
        /\ \A i \in DOMAIN writers_' :
              \E j \in DOMAIN writers_ :
                 j > Len(group.members) /\ writers_'[i] = writers_[j]
    BY <1>QueueRetire
  <2>5. \A j \in DOMAIN writers_ :
           j > Len(group.members) => Call(writers_[j]) \notin Stored
    BY DEF KInv, Fresh, Waits
  <2>6. Fresh'
    BY Zenon, <2>1, <2>2, <2>4, <2>5 DEF Fresh, Call
  <2> QED
    BY <2>2, <2>3, <2>4, <2>6 DEF KeepsData
\* The steps of a leader up to its outcome, other than an insertion.
<1>LeaderSteps.
    ASSUME KInv, NEW t \in Threads,
           \/ WakeLeads(t) \/ LeadFails(t) \/ WaitForRoom(t) \/ RoomWoken(t)
           \/ Rotate(t) \/ StartGroup(t) \/ AddRecord(t) \/ AddRecordFails(t)
           \/ SyncLog(t) \/ SyncFails(t)
    PROVE  KeepsData'
  <2> USE <1>LeaderSteps
  <2>1. DOMAIN pc = Threads /\ DOMAIN group = GroupFields
    BY ZenonT(40) DEF KInv, LInv, Fields
  <2>2. UNCHANGED <<writers_, self, calls, applied>>
    BY ZenonT(30) DEF WakeLeads, LeadFails, WaitForRoom, RoomWoken, Rotate, SwapMemTable,
           StartGroup, AddRecord, AddRecordFails, SyncLog, SyncFails, history
  <2>3. Moved
    BY ZenonT(30) DEF WakeLeads, LeadFails, WaitForRoom, RoomWoken, Rotate, SwapMemTable,
           StartGroup, AddRecord, AddRecordFails, SyncLog, SyncFails, memVars,
           treeVars, Moved
  <2>4. /\ pc[t] \in {"wait", "lead", "room", "append", "sync"}
        /\ \/ pc' = pc /\ pc[t] = "lead"
           \/ \E at \in {"lead", "room", "append", "sync", "insert", "retire"} :
                 pc' = [pc EXCEPT ![t] = at]
    BY ZenonT(30) DEF WakeLeads, LeadFails, WaitForRoom, RoomWoken, Rotate,
           StartGroup, AddRecord, AddRecordFails, SyncLog, SyncFails
  <2>5. group' = group \/ Leads(t)
    BY ZenonT(30) DEF WakeLeads, LeadFails, WaitForRoom, RoomWoken, Rotate, StartGroup,
           AddRecord, AddRecordFails, SyncLog, SyncFails, Leads
  <2>6. Leads(t)' /\ \A u \in Threads \ {t} : pc'[u] = pc[u]
    BY Zenon, <2>1, <2>4 DEF Leads
  <2>7. pc[t] # "retire" /\ (group'.members = group.members \/ Leads(t))
    BY <2>4, <2>5
  <2> QED
    BY ZenonT(40), <2>2, <2>3, <2>6, <2>7, <1>ThreadStep
<1>WriteOnStep.
    ASSUME KInv, NEW t \in Threads, WriteOn(t)
    PROVE  KeepsData'
  <2> USE <1>WriteOnStep
  <2>1. CASE WakeDone(t)
    <3>1. /\ pc[t] = "wait" /\ self[t].done /\ pc' = [pc EXCEPT ![t] = "idle"]
          /\ UNCHANGED <<writers_, self, group, calls, applied, mem_, imm_, current_>>
      BY Zenon, <2>1 DEF WakeDone, memVars, treeVars
    <3>2. ~Leads(t)
      BY Zenon, <3>1 DEF Leads
    <3>3. ~Queued(t)
      BY Zenon, <3>1, <3>2, NotQueued DEF KInv
    <3>4. \A u \in Threads \ {t} : pc'[u] = pc[u]
      BY <3>1 DEF KInv, LInv, Fields
    <3>5. Moved /\ pc[t] # "retire"
      BY <3>1 DEF Moved
    <3> QED
      BY Zenon, <3>1, <3>3, <3>4, <3>5, <1>ThreadStep
  <2>2. CASE LeadDrains(t)
    <3>1. /\ pc[t] = "lead" /\ pc' = [pc EXCEPT ![t] = "drain"]
          /\ self' = [self EXCEPT ![t].next = "lead", ![t].waits = 0]
          /\ UNCHANGED <<writers_, group, calls, applied, mem_, imm_, current_>>
      BY <2>2 DEF LeadDrains, Drain, treeVars, history
    <3>2. /\ pc'[t] = "drain"
          /\ \A u \in Threads \ {t} : pc'[u] = pc[u] /\ self'[u] = self[u]
      BY <3>1, SMTT(30) DEF KInv, LInv, Fields
    <3>3. self'[t].next = "lead"
      BY <3>1, SMTT(30) DEF KInv, LInv, Fields, WriterFields
    <3>4. Leads(t)'
      BY Zenon, <3>2, <3>3 DEF Leads
    <3>5. Moved /\ pc[t] # "retire"
      BY <3>1 DEF Moved
    <3> QED
      BY <3>1, <3>2, <3>4, <3>5, <1>ThreadStep, ZenonT(30)
  <2> QED
    BY <2>1, <2>2, <1>LeaderSteps, <1>InsertStep, <1>RetireStep DEF WriteOn
\* A caller of FlushMemTable and the rest is not in the queue, except a leader
\* that drains, which leads again.
<1>MaintenanceOnStep.
    ASSUME KInv, NEW t \in Threads, MaintenanceOn(t)
    PROVE  KeepsData'
  <2> USE <1>MaintenanceOnStep
  <2>1. DOMAIN pc = Threads /\ DOMAIN self = Threads /\ QueuedWaits /\ RotatorHolds
    BY Zenon DEF KInv, LInv, Fields
  <2>2. /\ pc[t] \in {"flush", "rotate", "waitbg", "drain"}
        /\ UNCHANGED <<writers_, group, calls, applied>>
    BY Zenon DEF MaintenanceOn, FlushLoop, FlushReturns, FlushRotate, WaitLoop,
           DrainEnds, SwapMemTable, history
  <2>3. Moved
    <3>1. CASE FlushRotate(t)
      <4>1. /\ pc[t] = "rotate" /\ imm_' = mem_ /\ mem_' = {}
            /\ current_' = current_
        BY <3>1 DEF FlushRotate, SwapMemTable
      <4> QED
        BY Zenon, <2>1, <4>1 DEF RotatorHolds, Moved
    <3>2. CASE \/ FlushLoop(t) \/ FlushReturns(t) \/ WaitLoop(t) \/ DrainEnds(t)
      BY Zenon, <3>2 DEF FlushLoop, FlushReturns, WaitLoop, DrainEnds, memVars,
                  treeVars, Moved
    <3> QED
      BY <3>1, <3>2 DEF MaintenanceOn
  <2>4. \A u \in Threads \ {t} : pc'[u] = pc[u] /\ self'[u] = self[u]
    <3>1. \/ pc' = pc
          \/ \E at \in {"idle", "rotate", "waitbg", "drain", "lead"} :
                pc' = [pc EXCEPT ![t] = at]
      BY ZenonT(30) DEF MaintenanceOn, FlushLoop, FlushReturns, FlushRotate, WaitLoop,
             DrainEnds, Returns, Goto, Drain
    <3>2. \A u \in Threads \ {t} : self'[u] = self[u]
      <4>1. CASE FlushLoop(t) \/ FlushReturns(t) \/ FlushRotate(t)
        BY Zenon, <2>1, <4>1 DEF FlushLoop, FlushReturns, FlushRotate, Returns, Drain
      <4>2. CASE WaitLoop(t) \/ DrainEnds(t)
        BY Zenon, <2>1, <4>2 DEF WaitLoop, DrainEnds, Returns, Drain
      <4> QED
        BY Zenon, <4>1, <4>2 DEF MaintenanceOn
    <3> QED
      BY <2>1, <3>1, <3>2
  <2>5. ~Queued(t) \/ Leads(t)'
    <3>1. CASE Leads(t)
      <4>1. pc[t] = "drain" /\ self[t].next = "lead"
        BY Zenon, <2>2, <3>1 DEF Leads
      <4>2. DrainEnds(t)
        BY Zenon, <4>1 DEF MaintenanceOn, FlushLoop, FlushReturns, FlushRotate, WaitLoop
      <4>3. pc' = [pc EXCEPT ![t] = "lead"]
        BY Zenon, <4>1, <4>2 DEF DrainEnds, Goto
      <4> QED
        BY Zenon, <2>1, <4>3 DEF Leads
    <3>2. CASE ~Leads(t)
      BY Zenon, <2>1, <2>2, <3>2, NotQueued
    <3> QED
      BY <3>1, <3>2
  <2> QED
    BY Zenon, <2>2, <2>3, <2>4, <2>5, <1>ThreadStep
<1>1. LInv'
  BY LeaderNext DEF KInv
<1>2. ASSUME NEW t \in Threads, NEW sync \in BOOLEAN, Write(t, sync)
      PROVE  RotatorHolds' /\ KeepsData'
  BY <1>2, <1>WriteOnHolds, <1>WriteStep
<1>3. ASSUME NEW t \in Threads, WriteOn(t)
      PROVE  RotatorHolds' /\ KeepsData'
  BY <1>3, <1>WriteOnHolds, <1>WriteOnStep
<1>4. ASSUME NEW t \in Maintainers, CallMaintenance(t)
      PROVE  RotatorHolds' /\ KeepsData'
  BY <1>4, GroupCommitAssumption, <1>MaintenanceHolds, <1>CallMaintenanceStep
<1>5. ASSUME NEW t \in Threads, MaintenanceOn(t)
      PROVE  RotatorHolds' /\ KeepsData'
  BY <1>5, <1>MaintenanceHolds, <1>MaintenanceOnStep
<1>6. ASSUME Background \/ Close \/ Tick \/ UNCHANGED vars
      PROVE  RotatorHolds' /\ KeepsData'
  BY <1>6, <1>BackgroundHolds, <1>OutsideStep
<1>7. RotatorHolds' /\ KeepsData'
  BY Zenon, <1>2, <1>3, <1>4, <1>5, <1>6 DEF Next
<1> QED
  BY <1>1, <1>7 DEF KInv, KeepsData

=============================================================================
