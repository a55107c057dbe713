------------------------------ MODULE SkipList ------------------------------
(***************************************************************************)
(* The memtable of lsm::DB while it is read and written at once: one       *)
(* writer, the leader of a group, links nodes into a skip list level by    *)
(* level; readers walk it without a lock.                                  *)
(* Source: src/include/lsm/skiplist.h, src/src/memtable.cpp and            *)
(* the places of src/src/db.cpp where the two sides take mu_.              *)
(*                                                                         *)
(* Memory.  All stores are the writer's, so "time", their number, orders   *)
(* them.  A location is the sequence of the stores to it.  A thread sees   *)
(* every store up to its own view and may see, of each location, any later *)
(* one; an acquire-load of a release-store raises the view to that store,  *)
(* taking mu_ raises it to what was stored when mu_ was last released.     *)
(* Readers store nothing, so that one reader stands for all of them, and   *)
(* one operation for all that it makes.                                    *)
(*                                                                         *)
(* A node is named by its sequence number; values are left out.            *)
(***************************************************************************)
EXTENDS Integers, Sequences, FiniteSets

CONSTANTS
    NumKeys,        \* user keys are 1..NumKeys, in order
    MaxSeq,         \* bound: entries the writer inserts
    MaxGroup,       \* bound: entries of one group
    kMaxHeight

ASSUME SkipListAssumption ==
    /\ NumKeys \in Nat \ {0} /\ MaxSeq \in Nat /\ MaxGroup \in Nat
    /\ kMaxHeight \in Nat \ {0}

VARIABLES
    time,           \* the number of stores so far
    next,           \* the stores to each next pointer
    max_height_,    \* the stores to the height of the list
    node,           \* the nodes that NewNode has built
    size_,
    last_sequence_,
    writer,         \* the writer in Insert
    retired,        \* the entries whose group has been retired
    unlocked,       \* the time at which mu_ was last released
    reader

list == <<time, next, max_height_, node, size_>>
vars == <<list, last_sequence_, writer, retired, unlocked, reader>>

Keys == 1..NumKeys
Levels == 0..(kMaxHeight - 1)
head_ == 0
Null == -1
Nodes == DOMAIN node

Store(to, at, release) == [to |-> to, at |-> at, release |-> release]
NoWriter == [pc |-> "idle", prev |-> <<>>, level |-> 0, left |-> 0]
NoReader == [pc |-> "idle", key |-> 1, seq |-> 0, x |-> Null, level |-> 0,
             view |-> 0, sure |-> 0, first |-> Null, visited |-> {}]

\* The constructor: a head of full height, height 1.
Init ==
    /\ time = 0
    /\ next = [x \in {head_} |-> [l \in Levels |-> <<Store(Null, 0, FALSE)>>]]
    /\ max_height_ = <<[to |-> 1, at |-> 0]>>
    /\ node = <<>>
    /\ size_ = 0
    /\ last_sequence_ = 0
    /\ writer = NoWriter
    /\ retired = 0 /\ unlocked = 0
    /\ reader = NoReader

-----------------------------------------------------------------------------
(* Order and memory *)

\* CompareInternalKey(n, <<k, s>>) < 0: of equal keys the newest comes first.
Precedes(n, k, s) ==
    node[n].key < k \/ (node[n].key = k /\ n > s)

Newest(location) == location[Len(location)]

\* What a load can return to a thread with this view.
Readable(location, view) ==
    {location[i] : i \in {j \in DOMAIN location :
        \A m \in (j + 1)..Len(location) : location[m].at > view}}

\* The view after the load.
ViewAfter(view, store) ==
    IF store.release /\ store.at > view THEN store.at ELSE view

-----------------------------------------------------------------------------
(* The writer *)

\* The leader takes numbers for its group under mu_ and releases it.
StartGroup(n) ==
    /\ writer.pc = "idle"
    /\ last_sequence_ + n <= MaxSeq
    /\ last_sequence_' = last_sequence_ + n
    /\ writer' = [NoWriter EXCEPT !.pc = "insert", !.left = n]
    /\ unlocked' = time
    /\ UNCHANGED <<list, retired, reader>>

Linked(l) == {n \in Nodes : node[n].height > l}

\* The last of a set of nodes in the order of the list, or the head.
LastOf(S) ==
    IF S = {} THEN head_
    ELSE CHOOSE n \in S : \A m \in S : m = n \/ Precedes(m, node[n].key, n)

\* Mutant: the search passes over older versions of the same key.
PrevByUserKey(k, s, l) == LastOf({n \in Linked(l) : node[n].key <= k})

\* Where FindGreaterOrEqual leaves level l: the last node before the new one.
Prev(k, s, l) == LastOf({n \in Linked(l) : Precedes(n, k, s)})

Height == Newest(max_height_).to

\* Insert up to NewNode: the splice points are found, the height is raised,
\* and the node is built, not yet reachable.
InsertStart(k, h) ==
    LET s == Len(node) + 1
        raised == h > Height
        built == time + IF raised THEN 2 ELSE 1
    IN  /\ writer.pc = "insert"
        /\ writer' = [writer EXCEPT !.pc = "link", !.level = 0,
                         !.prev = [l \in 0..(h - 1) |->
                                     IF l < Height THEN Prev(k, s, l)
                                     ELSE head_]]
        /\ max_height_' = IF raised
                          THEN Append(max_height_,
                                      [to |-> h, at |-> time + 1])
                          ELSE max_height_
        /\ node' = Append(node, [key |-> k, height |-> h, at |-> built])
        /\ next' = [x \in DOMAIN next \cup {s} |->
                      IF x = s
                      THEN [l \in 0..(h - 1) |-> <<Store(Null, built, FALSE)>>]
                      ELSE next[x]]
        /\ time' = built
        /\ UNCHANGED <<size_, last_sequence_, retired, unlocked, reader>>

StoreAt(x, l, to, release) ==
    /\ next' = [next EXCEPT ![x][l] = Append(@, Store(to, time + 1, release))]
    /\ time' = time + 1

NoBarrierSetNext(x, l, to) == StoreAt(x, l, to, FALSE)

\* Mutant: the store that publishes the node is relaxed too.
SetNextRelaxed(x, l, to) == StoreAt(x, l, to, FALSE)

SetNext(x, l, to) == StoreAt(x, l, to, TRUE)

NewestNode == Len(node)
Splice == writer.prev[writer.level]

\* node->NoBarrierSetNext(i, prev[i]->NoBarrierNext(i)).
LinkNode ==
    /\ writer.pc = "link"
    /\ NoBarrierSetNext(NewestNode, writer.level,
                        Newest(next[Splice][writer.level]).to)
    /\ writer' = [writer EXCEPT !.pc = "publish"]
    /\ UNCHANGED <<max_height_, node, size_, last_sequence_, retired, unlocked,
                   reader>>

AllLinked == writer.level + 1 = node[NewestNode].height

\* size_.fetch_add after the loop.
Counted == IF AllLinked THEN size_ + 1 ELSE size_

\* prev[i]->SetNext(i, node), a release-store; size_ counts the node with the
\* store to its last level.  In the code its fetch_add comes after that store;
\* only FlushMemTable's empty() can tell, for an entry whose Write has not
\* returned.
PublishNode ==
    /\ writer.pc = "publish"
    /\ SetNext(Splice, writer.level, NewestNode)
    /\ writer' = IF ~AllLinked
                 THEN [writer EXCEPT !.pc = "link", !.level = @ + 1]
                 ELSE IF writer.left > 1
                 THEN [NoWriter EXCEPT !.pc = "insert",
                                       !.left = writer.left - 1]
                 ELSE [NoWriter EXCEPT !.pc = "retire"]
    /\ size_' = Counted
    /\ UNCHANGED <<max_height_, node, last_sequence_, retired, unlocked, reader>>

\* The leader takes mu_ again, retires its group and releases mu_.
Retire ==
    /\ writer.pc = "retire"
    /\ writer' = NoWriter
    /\ retired' = last_sequence_
    /\ unlocked' = time
    /\ UNCHANGED <<list, last_sequence_, reader>>

-----------------------------------------------------------------------------
(* A reader *)

\* Get and NewIterator take mu_ for the number they read at, then Seek.  The
\* height is loaded without ordering.
Seek(k, s, h) ==
    /\ reader.pc = "idle"
    /\ h \in {m.to : m \in Readable(max_height_, unlocked)}
    /\ reader' = [NoReader EXCEPT
                     !.pc = "find", !.key = k, !.seq = s, !.x = head_,
                     !.level = h - 1, !.view = unlocked, !.sure = retired]
    /\ UNCHANGED <<list, last_sequence_, writer, retired, unlocked>>

\* The cursor stands at n, or at the end.
At(n) == [reader EXCEPT !.pc = "at", !.x = n]

\* The cursor stands at n for the first time.
FoundAt(n) == [At(n) EXCEPT !.first = n, !.visited = {n} \ {Null}]

KeyIsAfterNode(n) == n # Null /\ Precedes(n, reader.key, reader.seq)

\* Mutant: the search ends on the level where it first overshoots.
TurnWithoutDescent(n) ==
    IF KeyIsAfterNode(n) THEN [reader EXCEPT !.x = n] ELSE FoundAt(n)

\* Mutant: the search never leaves a level.
TurnOnOneLevel(n) ==
    IF KeyIsAfterNode(n) THEN [reader EXCEPT !.x = n]
    ELSE IF reader.level > 0 THEN reader ELSE FoundAt(n)

\* One turn of the loop of FindGreaterOrEqual, which has loaded n.
Turn(n) ==
    IF KeyIsAfterNode(n) THEN [reader EXCEPT !.x = n]
    ELSE IF reader.level > 0 THEN [reader EXCEPT !.level = @ - 1]
    ELSE FoundAt(n)

FindStep ==
    /\ reader.pc = "find"
    /\ \E m \in Readable(next[reader.x][reader.level], reader.view) :
          reader' = [Turn(m.to) EXCEPT !.view = ViewAfter(reader.view, m)]
    /\ UNCHANGED <<list, last_sequence_, writer, retired, unlocked>>

\* SeekToFirst: the flush and scans start at the head's lowest pointer.
SeekToFirst ==
    /\ reader.pc = "idle"
    /\ \E m \in Readable(next[head_][0], unlocked) :
          reader' = [FoundAt(m.to) EXCEPT !.key = 0, !.sure = retired,
                                          !.view = ViewAfter(unlocked, m)]
    /\ UNCHANGED <<list, last_sequence_, writer, retired, unlocked>>

\* Mutant: the iterator follows the topmost pointer of its node.
StepLevelTop == node[reader.x].height - 1

StepLevel == 0

\* Iterator::Next.
NextEntry ==
    /\ reader.pc = "at"
    /\ reader.x # Null
    /\ \E m \in Readable(next[reader.x][StepLevel], reader.view) :
          reader' = [At(m.to) EXCEPT
                        !.view = ViewAfter(reader.view, m),
                        !.visited = @ \cup ({m.to} \ {Null})]
    /\ UNCHANGED <<list, last_sequence_, writer, retired, unlocked>>

-----------------------------------------------------------------------------
Write ==
    \/ \E n \in 1..MaxGroup : StartGroup(n)
    \/ \E k \in Keys, h \in 1..kMaxHeight : InsertStart(k, h)
    \/ LinkNode \/ PublishNode \/ Retire

Read ==
    \/ \E k \in Keys, s \in 0..last_sequence_, h \in 1..kMaxHeight :
          Seek(k, s, h)
    \/ FindStep \/ SeekToFirst \/ NextEntry

Next == Write \/ Read

Spec == Init /\ [][Next]_vars

\* A reader never waits for the writer: its own steps are enough to finish.
FairSpec == Spec /\ WF_vars(FindStep \/ NextEntry)

-----------------------------------------------------------------------------
(* Properties *)

\* skiplist.h: "a reader either sees the fully-built node or does not see it
\* at all".  Whatever pointer a reader loads next, the plain stores of NewNode
\* to the node behind it happened before the load.
NoDataRace ==
    reader.pc = "find" \/ (reader.pc = "at" /\ reader.x # Null) =>
        LET level == IF reader.pc = "find" THEN reader.level ELSE 0
        IN  \A m \in Readable(next[reader.x][level], reader.view) :
               m.to # Null => node[m.to].at <= ViewAfter(reader.view, m)

\* At every instant every level is in order and a sublist of the one below,
\* whatever part of a node is linked, and size_, which tells FlushMemTable an
\* empty memtable, counts the nodes that are in the list for good.
Sorted ==
    /\ \A x \in DOMAIN next : \A l \in DOMAIN next[x] :
          LET n == Newest(next[x][l]).to
          IN  n # Null =>
                /\ x # head_ => Precedes(x, node[n].key, n)
                /\ node[n].height > l
                /\ l > 0 => \E y \in DOMAIN next :
                      /\ l - 1 \in DOMAIN next[y]
                      /\ Newest(next[y][l - 1]).to = n
    /\ size_ = Len(node) - IF writer.pc \in {"link", "publish"} THEN 1 ELSE 0

Versions(k, s) == {n \in Nodes : node[n].key = k /\ n <= s}

\* MemTable::Get: a lookup of k at s that starts when "sure" entries are
\* retired finds a version of k, none newer than s, and none older than the
\* newest retired one.  A stale height, a stale pointer or a node that is
\* being linked never hides an entry that was there.
GetFindsNewest ==
    (reader.pc = "at" /\ reader.key # 0) =>
        LET hit == reader.first # Null /\ node[reader.first].key = reader.key
        IN  /\ hit => reader.first <= reader.seq
            /\ \A n \in Versions(reader.key, reader.seq) :
                  n <= reader.sure => hit /\ n <= reader.first

\* A scan that has come to its end has met every entry from its start key on
\* that was retired when it began, while the writer went on beside it.
ScanComplete ==
    (reader.pc = "at" /\ reader.x = Null) =>
        {n \in 1..reader.sure : reader.key = 0 \/
            ~Precedes(n, reader.key, reader.seq)} \subseteq reader.visited

\* A reader that has started comes to the end of its search and of its scan
\* whatever the writer does.
ReadersFinish == (reader.pc # "idle") ~> (reader.pc = "at" /\ reader.x = Null)

=============================================================================
