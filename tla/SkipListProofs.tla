--------------------------- MODULE SkipListProofs ---------------------------
(***************************************************************************)
(* The skip list under one writer and any readers, for any number of keys, *)
(* entries, groups and levels: a reader never meets a node that is not     *)
(* built, every level stays in order while a node is linked into it, and   *)
(* neither a lookup nor a scan misses an entry that was retired when it    *)
(* began.                                                                  *)
(***************************************************************************)
EXTENDS SkipList, TLAPS

\* The limit includes the time the prover takes to prepare a step.
USE SMTT(30)

-----------------------------------------------------------------------------
(* The inductive invariant *)

StoreRecord == [to : Int, at : Nat, release : BOOLEAN]
NodeRecord == [key : Keys, height : 1..kMaxHeight, at : Nat]

HeightOf(x) == IF x = head_ THEN kMaxHeight ELSE node[x].height

\* The head and every node have a location for each of their levels.
Shape ==
    /\ time \in Nat /\ unlocked \in Nat
    /\ node \in Seq(NodeRecord)
    /\ DOMAIN next = {head_} \cup Nodes
    /\ \A x \in DOMAIN next :
          /\ DOMAIN next[x] = 0..(HeightOf(x) - 1)
          /\ \A l \in DOMAIN next[x] : next[x][l] \in Seq(StoreRecord) \ {<<>>}

\* Nodes are built one after the other.
BuiltInOrder ==
    \A n \in Nodes : node[n].at <= time /\ node[n].at <= node[NewestNode].at

\* What a store to level l of x may be: null, a release-store of a node that
\* was built before it, or a relaxed store in a node x, of a node built before
\* x.
GoodStore(x, l, m) ==
    m.to # Null =>
        /\ m.to \in Nodes /\ node[m.to].height > l
        /\ m.release => node[m.to].at <= m.at
        /\ ~m.release => x \in Nodes /\ node[m.to].at <= node[x].at

Stores ==
    \A x \in DOMAIN next : \A l \in DOMAIN next[x] :
        \A i \in DOMAIN next[x][l] : GoodStore(x, l, next[x][l][i])

\* While it links a node the writer has a place to link it on every level.
WriterInv ==
    /\ DOMAIN writer = {"pc", "prev", "level", "left"}
    /\ writer.pc \in {"link", "publish"} =>
          /\ NewestNode > 0
          /\ writer.level \in 0..(node[NewestNode].height - 1)
          /\ \A l \in 0..(node[NewestNode].height - 1) :
                /\ writer.prev[l] \in DOMAIN next
                /\ l \in DOMAIN next[writer.prev[l]]

\* A reader stands at a node it has seen built.
ReaderInv ==
    /\ DOMAIN reader = {"pc", "key", "seq", "x", "level", "view", "sure",
                        "first", "visited"}
    /\ reader.view \in Nat
    /\ reader.pc \in {"find", "at"} =>
          /\ reader.x \in {head_, Null} \cup Nodes
          /\ reader.x \in Nodes => node[reader.x].at <= reader.view
    /\ reader.pc = "find" =>
          reader.x # Null /\ reader.level \in 0..(HeightOf(reader.x) - 1)
    /\ reader.pc = "at" => reader.x # head_

IInv == Shape /\ BuiltInOrder /\ Stores /\ WriterInv /\ ReaderInv

-----------------------------------------------------------------------------
(* Where the writer links *)

\* What the order of the nodes rests on: a set of numbers has a least one.
NatWellOrdered == \A T \in SUBSET Nat : T # {} => \E x \in T : \A y \in T : x <= y

LEMMA AppendedSeq ==
    ASSUME NEW S, NEW q \in Seq(S), NEW e \in S
    PROVE  /\ Append(q, e) \in Seq(S) /\ Append(q, e) # <<>>
           /\ Len(Append(q, e)) = Len(q) + 1
           /\ \A i \in 1..Len(q) : Append(q, e)[i] = q[i]
           /\ Append(q, e)[Len(q) + 1] = e
OBVIOUS

LEMMA NodeTypes ==
    ASSUME node \in Seq(NodeRecord)
    PROVE  /\ Nodes = 1..Len(node) /\ Len(node) \in Nat
           /\ \A n \in Nodes :
                 /\ n \in Nat /\ n # head_ /\ n # Null
                 /\ node[n].key \in Int /\ node[n].key <= NumKeys
                 /\ node[n].height \in Nat /\ node[n].height > 0
                 /\ node[n].height <= kMaxHeight
                 /\ node[n].at \in Nat
<1>1. Nodes = 1..Len(node) /\ Len(node) \in Nat
  BY DEF Nodes
<1>2. \A n \in Nodes : node[n] \in NodeRecord
  BY <1>1
<1>3. \A r \in NodeRecord :
          /\ r.key \in Int /\ r.key <= NumKeys
          /\ r.height \in Nat /\ r.height > 0 /\ r.height <= kMaxHeight
          /\ r.at \in Nat
  BY SkipListAssumption DEF NodeRecord, Keys
<1> QED
  BY <1>1, <1>2, <1>3 DEF head_, Null

\* A set of nodes has a last one: of those with the largest key, the oldest.
LEMMA LastOfNodes ==
    ASSUME NatWellOrdered, Shape, NEW S \in SUBSET Nodes
    PROVE  /\ LastOf(S) \in S \cup {head_}
           /\ S # {} => /\ LastOf(S) \in S
                        /\ \A m \in S : m = LastOf(S) \/
                              Precedes(m, node[LastOf(S)].key, LastOf(S))
<1>1. CASE S = {}
  BY <1>1 DEF LastOf
<1>2. CASE S # {}
  <2> DEFINE Gaps == {NumKeys - node[n].key : n \in S}
  <2>1. \A n \in S : n \in Nat /\ node[n].key \in Int /\ node[n].key <= NumKeys
    BY NodeTypes DEF Shape
  <2>2. Gaps \in SUBSET Nat /\ Gaps # {}
    BY <1>2, <2>1, SkipListAssumption
  <2>3. PICK g \in Gaps : \A h \in Gaps : g <= h
    <3> HIDE DEF Gaps
    <3> QED
      BY <2>2, Zenon DEF NatWellOrdered
  <2> DEFINE T == {n \in S : NumKeys - node[n].key = g}
  <2>4. T \in SUBSET Nat /\ T # {}
    BY <2>1, <2>3
  <2>5. PICK n \in T : \A m \in T : n <= m
    <3> HIDE DEF T
    <3> QED
      BY <2>4, Zenon DEF NatWellOrdered
  <2>6. \A m \in S : m = n \/ Precedes(m, node[n].key, n)
    <3> SUFFICES ASSUME NEW m \in S PROVE m = n \/ Precedes(m, node[n].key, n)
      OBVIOUS
    <3>1. /\ n \in Nat /\ m \in Nat /\ node[n].key \in Int /\ node[m].key \in Int
          /\ NumKeys - node[n].key = g /\ NumKeys \in Nat
      BY <2>1, <2>5, SkipListAssumption
    <3>2. g <= NumKeys - node[m].key
      BY <2>3
    <3>3. NumKeys - node[m].key = g => n <= m
      BY <2>5
    <3> HIDE DEF Gaps, T
    <3> QED
      BY <3>1, <3>2, <3>3 DEF Precedes
  <2>7. \E u \in S : \A m \in S : m = u \/ Precedes(m, node[u].key, u)
    BY <2>5, <2>6
  <2> QED
    BY <1>2, <2>7, Zenon DEF LastOf
<1> QED
  BY <1>1, <1>2

-----------------------------------------------------------------------------
(* What a reader loads *)

\* Whoever has seen x built and loads one of its pointers has seen the node
\* behind it built when the load is done.
LEMMA LoadIsSafe ==
    ASSUME Shape, Stores, NEW x \in DOMAIN next, NEW l \in DOMAIN next[x],
           NEW view \in Nat, x \in Nodes => node[x].at <= view,
           NEW m \in Readable(next[x][l], view)
    PROVE  /\ ViewAfter(view, m) \in Nat /\ view <= ViewAfter(view, m)
           /\ m.to # Null =>
                 /\ m.to \in Nodes /\ node[m.to].height > l
                 /\ node[m.to].at <= ViewAfter(view, m)
<1>1. PICK i \in DOMAIN next[x][l] : m = next[x][l][i]
  BY DEF Readable
<1>2. m \in StoreRecord
  BY <1>1 DEF Shape
<1>3. GoodStore(x, l, m)
  BY <1>1 DEF Stores
<1>4. ViewAfter(view, m) \in Nat /\ view <= ViewAfter(view, m)
      /\ (m.release => m.at <= ViewAfter(view, m))
  BY <1>2 DEF ViewAfter, StoreRecord
<1>5. \A n \in Nodes : node[n].at \in Nat
  BY NodeTypes DEF Shape
<1> QED
  BY <1>2, <1>3, <1>4, <1>5 DEF GoodStore, StoreRecord

-----------------------------------------------------------------------------
(* Initial states and steps *)

LEMMA Appended ==
    ASSUME NEW S, NEW q \in Seq(S), NEW e \in S
    PROVE  /\ Append(q, e) \in Seq(S) \ {<<>>}
           /\ \A i \in DOMAIN Append(q, e) :
                 \/ Append(q, e)[i] = e
                 \/ i \in DOMAIN q /\ Append(q, e)[i] = q[i]
<1> DEFINE a == Append(q, e)
<1>1. /\ a \in Seq(S) \ {<<>>}
      /\ \A i \in 1..Len(q) : a[i] = q[i]
      /\ a[Len(q) + 1] = e
  BY AppendedSeq
<1>2. DOMAIN a = 1..(Len(q) + 1) /\ DOMAIN q = 1..Len(q) /\ Len(q) \in Nat
  OBVIOUS
<1> HIDE DEF a
<1>3. \A i \in DOMAIN a : a[i] = e \/ (i \in DOMAIN q /\ a[i] = q[i])
  <2> SUFFICES ASSUME NEW i \in DOMAIN a
               PROVE  a[i] = e \/ (i \in DOMAIN q /\ a[i] = q[i])
    OBVIOUS
  <2>1. i = Len(q) + 1 \/ i \in DOMAIN q
    BY <1>2
  <2>2. i \in DOMAIN q => a[i] = q[i]
    BY <1>1, <1>2, Zenon
  <2> QED
    BY <1>1, <2>1, <2>2, Zenon
<1> QED
  BY <1>1, <1>3, Zenon DEF a

LEMMA Singleton ==
    ASSUME NEW S, NEW e \in S
    PROVE  <<e>> \in Seq(S) \ {<<>>} /\ \A i \in DOMAIN <<e>> : <<e>>[i] = e
<1>1. Len(<<e>>) = 1 /\ Len(<<>>) = 0
  OBVIOUS
<1>2. <<e>> # <<>>
  BY <1>1
<1>3. <<e>> \in Seq(S)
  OBVIOUS
<1>4. \A i \in DOMAIN <<e>> : <<e>>[i] = e
  OBVIOUS
<1> QED
  BY <1>2, <1>3, <1>4

LEMMA InitInv == Init => IInv
<1> SUFFICES ASSUME Init PROVE IInv
  OBVIOUS
<1>1. Nodes = {} /\ node \in Seq(NodeRecord)
  BY DEF Init, Nodes
<1>2. DOMAIN next = {head_} /\ DOMAIN next[head_] = 0..(kMaxHeight - 1)
      /\ \A l \in DOMAIN next[head_] : next[head_][l] = <<Store(Null, 0, FALSE)>>
  BY Zenon DEF Init, Levels
<1>3. Store(Null, 0, FALSE) \in StoreRecord /\ Store(Null, 0, FALSE).to = Null
  BY DEF Store, StoreRecord, Null
<1>4. Shape
  <2>1. <<Store(Null, 0, FALSE)>> \in Seq(StoreRecord) \ {<<>>}
    BY <1>3, Singleton, Zenon
  <2>2. time \in Nat /\ unlocked \in Nat
    BY DEF Init
  <2>3. HeightOf(head_) = kMaxHeight
    BY DEF HeightOf
  <2> QED
    BY <1>1, <1>2, <2>1, <2>2, <2>3, Zenon DEF Shape
<1>5. BuiltInOrder
  BY <1>1 DEF BuiltInOrder
<1>6. Stores
  <2>1. \A l : GoodStore(head_, l, Store(Null, 0, FALSE))
    BY <1>3, Zenon DEF GoodStore
  <2>2. \A l \in DOMAIN next[head_] : \A i \in DOMAIN next[head_][l] :
            next[head_][l][i] = Store(Null, 0, FALSE)
    BY <1>2, <1>3, Singleton, Zenon
  <2> QED
    BY <1>2, <2>1, <2>2, Zenon DEF Stores
<1>7. WriterInv
  BY DEF Init, WriterInv, NoWriter
<1>8. ReaderInv
  BY DEF Init, ReaderInv, NoReader
<1> QED
  BY <1>4, <1>5, <1>6, <1>7, <1>8 DEF IInv

\* Steps that leave the list alone.
LEMMA ListUnchanged ==
    ASSUME IInv, UNCHANGED list, unlocked' \in {unlocked, time}
    PROVE  /\ Shape' /\ BuiltInOrder' /\ Stores'
           /\ UNCHANGED writer => WriterInv'
           /\ UNCHANGED reader => ReaderInv'
<1>1. time' = time /\ next' = next /\ node' = node
  BY DEF list
<1>2. Shape'
  BY <1>1 DEF IInv, Shape, Nodes, HeightOf
<1>3. BuiltInOrder'
  BY <1>1, Zenon DEF IInv, BuiltInOrder, Nodes, NewestNode
<1>4. Stores'
  <2>1. \A x, l, m : GoodStore(x, l, m)' <=> GoodStore(x, l, m)
    BY <1>1, Zenon DEF GoodStore, Nodes
  <2> QED
    BY <1>1, <2>1, Zenon DEF IInv, Stores
<1>5. UNCHANGED writer => WriterInv'
  BY <1>1, Zenon DEF IInv, WriterInv, NewestNode
<1>6. UNCHANGED reader => ReaderInv'
  BY <1>1, Zenon DEF IInv, ReaderInv, Nodes, HeightOf
<1> QED
  BY <1>2, <1>3, <1>4, <1>5, <1>6

\* A good store to one of the locations.
LEMMA StoreInv ==
    ASSUME IInv, NEW x \in DOMAIN next, NEW l \in DOMAIN next[x],
           NEW to \in Int, NEW release \in BOOLEAN,
           StoreAt(x, l, to, release), UNCHANGED <<node, unlocked, reader>>,
           GoodStore(x, l, Store(to, time + 1, release))
    PROVE  /\ Shape' /\ BuiltInOrder' /\ Stores' /\ ReaderInv'
           /\ DOMAIN next' = DOMAIN next
           /\ \A y \in DOMAIN next : DOMAIN next'[y] = DOMAIN next[y]
<1> DEFINE m == Store(to, time + 1, release)
<1>1. m \in StoreRecord
  BY DEF Store, StoreRecord, IInv, Shape
<1>2. time' = time + 1 /\ time \in Nat /\ node' = node /\ Nodes' = Nodes
  BY DEF StoreAt, IInv, Shape, Nodes
<1>3. /\ DOMAIN next' = DOMAIN next
      /\ \A y \in DOMAIN next : DOMAIN next'[y] = DOMAIN next[y]
      /\ next'[x][l] = Append(next[x][l], m)
      /\ \A y \in DOMAIN next : \A k \in DOMAIN next[y] :
            ~(y = x /\ k = l) => next'[y][k] = next[y][k]
  BY DEF StoreAt
<1>4. next[x][l] \in Seq(StoreRecord)
  BY Zenon DEF IInv, Shape
<1> HIDE DEF m
<1>5. /\ next'[x][l] \in Seq(StoreRecord) \ {<<>>}
      /\ \A i \in DOMAIN next'[x][l] :
            \/ next'[x][l][i] = m
            \/ i \in DOMAIN next[x][l] /\ next'[x][l][i] = next[x][l][i]
  BY <1>1, <1>3, <1>4, Appended
<1>6. Shape'
  <2>1. \A y : HeightOf(y)' = HeightOf(y)
    BY <1>2, Zenon DEF HeightOf
  <2>2. \A y \in DOMAIN next' : DOMAIN next'[y] = 0..(HeightOf(y)' - 1)
    BY <1>3, <2>1, Zenon DEF IInv, Shape
  <2>3. \A y \in DOMAIN next' : \A k \in DOMAIN next'[y] :
            next'[y][k] \in Seq(StoreRecord) \ {<<>>}
    <3> SUFFICES ASSUME NEW y \in DOMAIN next, NEW k \in DOMAIN next[y]
                 PROVE  next'[y][k] \in Seq(StoreRecord) \ {<<>>}
      BY <1>3, Zenon
    <3>1. next[y][k] \in Seq(StoreRecord) \ {<<>>}
      BY Zenon DEF IInv, Shape
    <3> QED
      BY <1>3, <1>5, <3>1, Zenon
  <2>4. /\ time' \in Nat /\ unlocked' \in Nat /\ node' \in Seq(NodeRecord)
        /\ DOMAIN next' = {head_} \cup Nodes'
    <3>1. /\ time' \in Nat /\ unlocked' \in Nat
      BY <1>2 DEF IInv, Shape
    <3> QED
      BY <3>1, <1>2, <1>3, Zenon DEF IInv, Shape
  <2> QED
    BY <2>2, <2>3, <2>4, Zenon DEF Shape
<1>7. BuiltInOrder'
  <2>1. \A n \in Nodes : node[n].at \in Nat
    BY NodeTypes DEF IInv, Shape
  <2> QED
    BY <1>2, <2>1 DEF IInv, BuiltInOrder, NewestNode
<1>8. Stores'
  <2>1. \A y, k, u : GoodStore(y, k, u)' <=> GoodStore(y, k, u)
    BY <1>2, Zenon DEF GoodStore
  <2>2. GoodStore(x, l, m)
    BY DEF m
  <2>3. \A y \in DOMAIN next : \A k \in DOMAIN next[y] :
            \A i \in DOMAIN next'[y][k] : GoodStore(y, k, next'[y][k][i])
    <3> SUFFICES ASSUME NEW y \in DOMAIN next, NEW k \in DOMAIN next[y],
                        NEW i \in DOMAIN next'[y][k]
                 PROVE  GoodStore(y, k, next'[y][k][i])
      OBVIOUS
    <3>1. \A j \in DOMAIN next[y][k] : GoodStore(y, k, next[y][k][j])
      BY Zenon DEF IInv, Stores
    <3>2. CASE y = x /\ k = l
      BY <1>5, <2>2, <3>1, <3>2, Zenon
    <3>3. CASE ~(y = x /\ k = l)
      BY <1>3, <3>1, <3>3, Zenon
    <3> QED
      BY <3>2, <3>3, Zenon
  <2> QED
    BY <1>3, <2>1, <2>3, Zenon DEF Stores
<1>9. ReaderInv'
  BY <1>2, Zenon DEF IInv, ReaderInv, HeightOf
<1> QED
  BY <1>3, <1>6, <1>7, <1>8, <1>9

\* The node that the writer links is at every level built last.
LEMMA WriterPlaces ==
    ASSUME IInv, writer.pc \in {"link", "publish"}
    PROVE  /\ NewestNode \in Nodes /\ NewestNode \in DOMAIN next
           /\ writer.level \in Nat /\ writer.level < node[NewestNode].height
           /\ writer.level \in DOMAIN next[NewestNode]
           /\ Splice \in DOMAIN next /\ writer.level \in DOMAIN next[Splice]
           /\ node[NewestNode].height \in Nat
           /\ NewestNode \in Int /\ NewestNode # Null
<1>1. /\ NewestNode > 0
      /\ writer.level \in 0..(node[NewestNode].height - 1)
      /\ \A l \in 0..(node[NewestNode].height - 1) :
            /\ writer.prev[l] \in DOMAIN next
            /\ l \in DOMAIN next[writer.prev[l]]
  BY Zenon DEF IInv, WriterInv
<1>2. NewestNode \in Nodes
  BY <1>1, NodeTypes DEF IInv, Shape, NewestNode
<1>3. /\ node[NewestNode].height \in Nat
      /\ NewestNode \in Int /\ NewestNode # Null /\ NewestNode # head_
  BY <1>2, NodeTypes DEF IInv, Shape
<1>4. NewestNode \in DOMAIN next
  BY <1>2, Zenon DEF IInv, Shape
<1>5. HeightOf(NewestNode) = node[NewestNode].height
  BY <1>3, Zenon DEF HeightOf
<1>6. DOMAIN next[NewestNode] = 0..(node[NewestNode].height - 1)
  BY <1>4, <1>5, Zenon DEF IInv, Shape
<1>7. Splice \in DOMAIN next /\ writer.level \in DOMAIN next[Splice]
  BY <1>1, Zenon DEF Splice
<1> QED
  BY <1>1, <1>2, <1>3, <1>4, <1>6, <1>7

LEMMA LinkNodeInv == ASSUME IInv, LinkNode PROVE IInv'
<1> DEFINE at == next[Splice][writer.level]
           to == Newest(at).to
           l == writer.level
<1>1. writer.pc = "link" /\ writer.pc \in {"link", "publish"}
      /\ StoreAt(NewestNode, l, to, FALSE)
      /\ UNCHANGED <<node, unlocked, reader>>
      /\ writer' = [writer EXCEPT !.pc = "publish"]
  BY Zenon DEF LinkNode, NoBarrierSetNext
<1>2. at \in Seq(StoreRecord) \ {<<>>}
  BY <1>1, WriterPlaces, Zenon DEF IInv, Shape
<1>3. Len(at) \in DOMAIN at /\ at[Len(at)] \in StoreRecord
  <2> HIDE DEF at
  <2> QED
    BY <1>2
<1>4. GoodStore(Splice, l, Newest(at))
  BY <1>1, <1>3, WriterPlaces, Zenon DEF IInv, Stores, Newest
<1>5. to \in Int
  BY <1>3 DEF Newest, StoreRecord
<1>6. GoodStore(NewestNode, l, Store(to, time + 1, FALSE))
  <2> HIDE DEF at, l
  <2>1. Store(to, time + 1, FALSE).to = to /\ ~Store(to, time + 1, FALSE).release
    BY DEF Store
  <2>2. to # Null => to \in Nodes /\ node[to].height > l
    BY <1>4, Zenon DEF GoodStore
  <2>3. \A n \in Nodes : node[n].at <= node[NewestNode].at
    BY Zenon DEF IInv, BuiltInOrder
  <2>4. NewestNode \in Nodes
    BY <1>1, WriterPlaces, Zenon
  <2> HIDE DEF to
  <2> QED
    BY <2>1, <2>2, <2>3, <2>4, Zenon DEF GoodStore
<1>7. /\ Shape' /\ BuiltInOrder' /\ Stores' /\ ReaderInv'
      /\ DOMAIN next' = DOMAIN next
      /\ \A y \in DOMAIN next : DOMAIN next'[y] = DOMAIN next[y]
  <2>1. NewestNode \in DOMAIN next /\ l \in DOMAIN next[NewestNode]
    BY <1>1, WriterPlaces, Zenon
  <2> HIDE DEF at, to, l
  <2> QED
    BY <1>1, <1>5, <1>6, <2>1, StoreInv, Zenon
<1>8. WriterInv'
  <2>1. /\ writer'.level = writer.level /\ writer'.prev = writer.prev
        /\ writer'.pc = "publish"
        /\ DOMAIN writer' = {"pc", "prev", "level", "left"}
    <3>1. DOMAIN writer = {"pc", "prev", "level", "left"}
      BY Zenon DEF IInv, WriterInv
    <3> QED
      BY <1>1, <3>1
  <2>2. node' = node /\ NewestNode' = NewestNode
    BY <1>1 DEF NewestNode
  <2>3. WriterInv
    BY DEF IInv
  <2> QED
    BY <1>1, <1>7, <2>1, <2>2, <2>3, Zenon DEF WriterInv
<1> QED
  BY <1>7, <1>8, Zenon DEF IInv

LEMMA PublishNodeInv == ASSUME IInv, PublishNode PROVE IInv'
<1> DEFINE l == writer.level
<1>1. writer.pc = "publish" /\ writer.pc \in {"link", "publish"}
      /\ StoreAt(Splice, l, NewestNode, TRUE)
      /\ UNCHANGED <<node, unlocked, reader>>
  BY Zenon DEF PublishNode, SetNext
<1>2. GoodStore(Splice, l, Store(NewestNode, time + 1, TRUE))
  <2>1. /\ Store(NewestNode, time + 1, TRUE).to = NewestNode
        /\ Store(NewestNode, time + 1, TRUE).release
        /\ Store(NewestNode, time + 1, TRUE).at = time + 1
    BY DEF Store
  <2>2. NewestNode \in Nodes /\ node[NewestNode].height > l
    BY <1>1, WriterPlaces
  <2>3. node[NewestNode].at \in Nat /\ time \in Nat
    BY <2>2, NodeTypes DEF IInv, Shape
  <2>4. node[NewestNode].at <= time
    BY <2>2, Zenon DEF IInv, BuiltInOrder
  <2>5. node[NewestNode].at <= time + 1
    BY <2>3, <2>4
  <2> HIDE DEF l
  <2> QED
    BY <2>1, <2>2, <2>5, Zenon DEF GoodStore
<1>3. /\ Shape' /\ BuiltInOrder' /\ Stores' /\ ReaderInv'
      /\ DOMAIN next' = DOMAIN next
      /\ \A y \in DOMAIN next : DOMAIN next'[y] = DOMAIN next[y]
  <2>1. Splice \in DOMAIN next /\ l \in DOMAIN next[Splice] /\ NewestNode \in Int
    BY <1>1, WriterPlaces, Zenon
  <2> HIDE DEF l
  <2> QED
    BY <1>1, <1>2, <2>1, StoreInv, Zenon
<1>4. WriterInv'
  <2>1. node' = node /\ NewestNode' = NewestNode
    BY <1>1 DEF NewestNode
  <2>2. DOMAIN writer = {"pc", "prev", "level", "left"}
    BY Zenon DEF IInv, WriterInv
  <2>3. CASE AllLinked
    <3>1. /\ DOMAIN writer' = {"pc", "prev", "level", "left"}
          /\ writer'.pc \in {"insert", "retire"}
      <4>1. PICK left :
              \/ writer' = [NoWriter EXCEPT !.pc = "insert", !.left = left]
              \/ writer' = [NoWriter EXCEPT !.pc = "retire"]
        BY <2>3, Zenon DEF PublishNode
      <4>2. DOMAIN NoWriter = {"pc", "prev", "level", "left"}
        BY DEF NoWriter
      <4>3. CASE writer' = [NoWriter EXCEPT !.pc = "insert", !.left = left]
        BY <4>2, <4>3
      <4>4. CASE writer' = [NoWriter EXCEPT !.pc = "retire"]
        BY <4>2, <4>4
      <4> QED
        BY <4>1, <4>3, <4>4
    <3> QED
      BY <3>1 DEF WriterInv
  <2>4. CASE ~AllLinked
    <3>1. /\ DOMAIN writer' = {"pc", "prev", "level", "left"}
          /\ writer'.level = writer.level + 1 /\ writer'.prev = writer.prev
      <4>1. writer' = [writer EXCEPT !.pc = "link", !.level = @ + 1]
        BY <2>4, Zenon DEF PublishNode
      <4> QED
        BY <2>2, <4>1
    <3>2. writer'.level \in 0..(node[NewestNode].height - 1)
      BY <1>1, <2>4, <3>1, WriterPlaces DEF AllLinked
    <3>3. NewestNode > 0 /\ \A i \in 0..(node[NewestNode].height - 1) :
              writer.prev[i] \in DOMAIN next /\ i \in DOMAIN next[writer.prev[i]]
      BY <1>1, Zenon DEF IInv, WriterInv
    <3> QED
      BY <1>3, <2>1, <3>1, <3>2, <3>3, Zenon DEF WriterInv
  <2> QED
    BY <2>3, <2>4
<1> QED
  BY <1>3, <1>4, Zenon DEF IInv

LEMMA InsertStartInv ==
    ASSUME NatWellOrdered, IInv, NEW k \in Keys, NEW h \in 1..kMaxHeight,
           InsertStart(k, h)
    PROVE  IInv'
<1> PICK s : s = Len(node) + 1
  OBVIOUS
<1> PICK built : built = time'
  OBVIOUS
<1> DEFINE new == [key |-> k, height |-> h, at |-> built]
           empty == Store(Null, built, FALSE)
<1> PICK one : one = <<empty>>
  BY Zenon
<1>1. /\ node' = Append(node, new)
      /\ next' = [x \in DOMAIN next \cup {s} |->
                    IF x = s THEN [l \in 0..(h - 1) |-> one] ELSE next[x]]
      /\ UNCHANGED <<unlocked, reader>>
  BY Zenon DEF InsertStart
<1>2. built \in Nat /\ time < built /\ time \in Nat
  BY DEF InsertStart, IInv, Shape
<1>3. /\ Nodes = 1..Len(node) /\ Len(node) \in Nat /\ node \in Seq(NodeRecord)
      /\ \A n \in Nodes : node[n].at \in Nat /\ n # head_
  BY NodeTypes DEF IInv, Shape
<1>4. new \in NodeRecord
  BY <1>2 DEF NodeRecord
<1>5. /\ node' \in Seq(NodeRecord) /\ Len(node') = s
      /\ node'[s] = new /\ \A n \in Nodes : node'[n] = node[n]
  <2> HIDE DEF new
  <2> QED
    BY <1>1, <1>3, <1>4, AppendedSeq
<1>6. /\ Nodes' = Nodes \cup {s} /\ s \notin Nodes /\ s # head_ /\ NewestNode' = s
      /\ s \in Nat /\ s > 0
  BY <1>3, <1>5 DEF Nodes, head_, NewestNode
<1>7. /\ DOMAIN next' = DOMAIN next \cup {s} /\ s \notin DOMAIN next
      /\ DOMAIN next'[s] = 0..(h - 1)
      /\ \A l \in 0..(h - 1) : next'[s][l] = one
      /\ \A x \in DOMAIN next : next'[x] = next[x]
  <2>1. s \notin DOMAIN next
    BY <1>6, Zenon DEF IInv, Shape
  <2> HIDE DEF empty
  <2> QED
    BY <1>1, <2>1, Zenon
<1>8. /\ new.height = h /\ new.at = built /\ empty \in StoreRecord
      /\ empty.to = Null
  BY <1>2 DEF Store, StoreRecord, Null
<1>9. one \in Seq(StoreRecord) \ {<<>>} /\ \A i \in DOMAIN one : one[i] = empty
  <2> HIDE DEF empty
  <2> QED
    BY <1>8, Singleton, Zenon
<1>10. /\ \A x \in DOMAIN next : HeightOf(x)' = HeightOf(x)
       /\ HeightOf(s)' = h
       /\ DOMAIN next = {head_} \cup Nodes
  <2>1. DOMAIN next = {head_} \cup Nodes
    BY Zenon DEF IInv, Shape
  <2> HIDE DEF new
  <2>2. ASSUME NEW x \in DOMAIN next
        PROVE  HeightOf(x)' = HeightOf(x)
    <3>1. CASE x = head_
      BY <3>1, Zenon DEF HeightOf
    <3>2. CASE x # head_
      <4>1. node'[x] = node[x]
        BY <1>5, <2>1, <3>2, Zenon
      <4> QED
        BY <3>2, <4>1, Zenon DEF HeightOf
    <3> QED
      BY <3>1, <3>2, Zenon
  <2>3. HeightOf(s)' = h
    <3>1. node'[s].height = h
      BY <1>5, <1>8, Zenon
    <3> QED
      BY <1>6, <3>1 DEF HeightOf
  <2> QED
    BY <2>1, <2>2, <2>3, Zenon
<1>11. \A n \in Nodes : node[n].at <= time
  BY Zenon DEF IInv, BuiltInOrder
<1> HIDE DEF new, empty
<1>12. Shape'
  <2>1. time' \in Nat /\ unlocked' \in Nat /\ node' \in Seq(NodeRecord)
    <3>1. unlocked' = unlocked /\ unlocked \in Nat
      BY <1>1 DEF IInv, Shape
    <3> QED
      BY <1>2, <1>5, <3>1
  <2>2. DOMAIN next' = {head_} \cup Nodes'
    BY <1>6, <1>7, <1>10, Zenon
  <2>3. ASSUME NEW x \in DOMAIN next'
        PROVE  /\ DOMAIN next'[x] = 0..(HeightOf(x)' - 1)
               /\ \A l \in DOMAIN next'[x] :
                     next'[x][l] \in Seq(StoreRecord) \ {<<>>}
    <3>1. CASE x = s
      BY <1>7, <1>9, <1>10, <3>1, Zenon
    <3>2. CASE x \in DOMAIN next
      <4>1. /\ DOMAIN next[x] = 0..(HeightOf(x) - 1)
            /\ \A l \in DOMAIN next[x] :
                  next[x][l] \in Seq(StoreRecord) \ {<<>>}
        BY <3>2, Zenon DEF IInv, Shape
      <4> QED
        BY <1>7, <1>10, <3>2, <4>1, Zenon
    <3> QED
      BY <1>7, <3>1, <3>2, Zenon
  <2> QED
    BY <2>1, <2>2, <2>3, Zenon DEF Shape
<1>13. BuiltInOrder'
  <2>1. \A n \in Nodes' : node'[n].at <= built
    BY ONLY SMTT(30), <1>2, <1>3, <1>5, <1>6, <1>8, <1>11
  <2> QED
    BY <1>5, <1>6, <1>8, <2>1, Zenon DEF BuiltInOrder
<1>14. Stores'
  <2>1. \A x, l, m : GoodStore(x, l, m) => GoodStore(x, l, m)'
    BY <1>5, <1>6, Zenon DEF GoodStore
  <2>2. \A x, l : GoodStore(x, l, empty)'
    BY <1>8, Zenon DEF GoodStore
  <2>3. \A x \in DOMAIN next : \A l \in DOMAIN next[x] :
            \A i \in DOMAIN next[x][l] : GoodStore(x, l, next[x][l][i])
    BY Zenon DEF IInv, Stores
  <2>4. \A l \in DOMAIN next'[s] : \A i \in DOMAIN next'[s][l] :
            next'[s][l][i] = empty
    <3> SUFFICES ASSUME NEW l \in 0..(h - 1), NEW i \in DOMAIN next'[s][l]
                 PROVE  next'[s][l][i] = empty
      BY <1>7, Zenon
    <3>1. next'[s][l] = one
      BY <1>7, Zenon
    <3> QED
      BY <1>9, <3>1, Zenon
  <2>5. ASSUME NEW x \in DOMAIN next', NEW l \in DOMAIN next'[x],
               NEW i \in DOMAIN next'[x][l], NEW m, m = next'[x][l][i]
        PROVE  GoodStore(x, l, m)'
    <3>1. CASE x = s
      BY <2>2, <2>4, <2>5, <3>1, Zenon
    <3>2. CASE x \in DOMAIN next
      BY <1>7, <2>1, <2>3, <2>5, <3>2, Zenon
    <3> QED
      BY <1>7, <3>1, <3>2, Zenon
  <2> QED
    BY <2>5, Zenon DEF Stores
<1>15. WriterInv'
  <2> DEFINE prev == [l \in 0..(h - 1) |->
                        IF l < Height THEN Prev(k, s, l) ELSE head_]
  <2>1. writer' = [writer EXCEPT !.pc = "link", !.level = 0, !.prev = prev]
    BY Zenon DEF InsertStart
  <2>2. DOMAIN writer = {"pc", "prev", "level", "left"}
    BY Zenon DEF IInv, WriterInv
  <2>3. ASSUME NEW l \in 0..(h - 1)
        PROVE  prev[l] \in DOMAIN next /\ l \in DOMAIN next[prev[l]]
    <3> DEFINE S == {n \in Linked(l) : Precedes(n, k, s)}
    <3>1. S \in SUBSET Nodes /\ \A n \in S : node[n].height > l
      BY DEF Linked
    <3>2. prev[l] \in S \cup {head_}
      <4> HIDE DEF S
      <4>1. LastOf(S) \in S \cup {head_}
        BY <3>1, LastOfNodes, Zenon DEF IInv
      <4>2. prev[l] = LastOf(S) \/ prev[l] = head_
        BY Zenon DEF Prev, S
      <4> QED
        BY <4>1, <4>2, Zenon
    <3>3. DOMAIN next[head_] = 0..(kMaxHeight - 1) /\ head_ \in DOMAIN next
      BY <1>10, Zenon DEF IInv, Shape, HeightOf
    <3>4. l \in 0..(kMaxHeight - 1)
      BY SkipListAssumption
    <3>5. \A n \in S : l \in DOMAIN next[n] /\ n \in DOMAIN next
      <4> SUFFICES ASSUME NEW n \in S
                   PROVE  l \in DOMAIN next[n] /\ n \in DOMAIN next
        OBVIOUS
      <4>1. n \in Nodes /\ node[n].height > l /\ n # head_ /\ n \in DOMAIN next
        BY <1>3, <1>10, <3>1, Zenon
      <4>2. DOMAIN next[n] = 0..(node[n].height - 1) /\ node[n].height \in Nat
        <5>1. DOMAIN next[n] = 0..(HeightOf(n) - 1)
          BY <4>1, Zenon DEF IInv, Shape
        <5>2. node[n].height \in Nat
          BY <1>3, <4>1, NodeTypes, Zenon
        <5> QED
          BY <4>1, <5>1, <5>2, Zenon DEF HeightOf
      <4> QED
        BY <4>1, <4>2
    <3> HIDE DEF S, prev
    <3> QED
      BY <3>2, <3>3, <3>4, <3>5, Zenon
  <2> HIDE DEF prev
  <2>4. /\ DOMAIN writer' = {"pc", "prev", "level", "left"}
        /\ writer'.level = 0 /\ writer'.prev = prev
    BY <2>1, <2>2
  <2>5. node'[NewestNode'].height = h /\ NewestNode' > 0 /\ 0 \in 0..(h - 1)
    BY <1>5, <1>6, <1>8
  <2>6. \A l \in 0..(h - 1) :
            prev[l] \in DOMAIN next' /\ l \in DOMAIN next'[prev[l]]
    BY <1>7, <2>3, Zenon
  <2> QED
    BY <2>4, <2>5, <2>6, Zenon DEF WriterInv
<1>16. ReaderInv'
  <2>1. ReaderInv
    BY DEF IInv
  <2>2. reader.pc \in {"find", "at"} => reader.x # s
    <3>1. s # Null
      BY <1>6 DEF Null
    <3> QED
      BY <1>6, <2>1, <3>1, Zenon DEF ReaderInv
  <2>3. reader.pc = "find" => HeightOf(reader.x)' = HeightOf(reader.x)
    BY <1>1, <1>10, <2>1, Zenon DEF ReaderInv
  <2> QED
    BY <1>1, <1>5, <1>6, <2>1, <2>2, <2>3, Zenon DEF ReaderInv
<1> QED
  BY <1>12, <1>13, <1>14, <1>15, <1>16, Zenon DEF IInv

LEMMA GroupInv ==
    ASSUME IInv, (\E n \in 1..MaxGroup : StartGroup(n)) \/ Retire
    PROVE  IInv'
<1>1. UNCHANGED list /\ UNCHANGED reader /\ unlocked' \in {unlocked, time}
  BY Zenon DEF StartGroup, Retire
<1>2. PICK n : \/ writer' = [NoWriter EXCEPT !.pc = "insert", !.left = n]
               \/ writer' = NoWriter
  BY Zenon DEF StartGroup, Retire
<1>3. DOMAIN NoWriter = {"pc", "prev", "level", "left"} /\ NoWriter.pc = "idle"
  BY DEF NoWriter
<1>4. /\ DOMAIN writer' = {"pc", "prev", "level", "left"}
      /\ writer'.pc \notin {"link", "publish"}
  <2>1. CASE writer' = [NoWriter EXCEPT !.pc = "insert", !.left = n]
    BY <1>3, <2>1
  <2>2. CASE writer' = NoWriter
    BY <1>3, <2>2
  <2> QED
    BY <1>2, <2>1, <2>2, Zenon
<1>5. WriterInv'
  BY <1>4, Zenon DEF WriterInv
<1> QED
  BY <1>1, <1>5, ListUnchanged, Zenon DEF IInv

\* A reader step leaves the rest alone and comes to stand where it has seen
\* what it needs.
LEMMA ReaderStepInv ==
    ASSUME IInv, UNCHANGED <<list, last_sequence_, writer, retired, unlocked>>,
           DOMAIN reader' = DOMAIN reader,
           reader'.view \in Nat, reader'.pc \in {"find", "at"},
           reader'.x \in {head_, Null} \cup Nodes,
           reader'.x \in Nodes => node[reader'.x].at <= reader'.view,
           reader'.pc = "find" =>
              reader'.x # Null /\ reader'.level \in 0..(HeightOf(reader'.x) - 1),
           reader'.pc = "at" => reader'.x # head_
    PROVE  IInv'
<1>1. node' = node /\ Nodes' = Nodes /\ UNCHANGED list
      /\ UNCHANGED writer /\ unlocked' \in {unlocked, time}
  BY Zenon DEF list, Nodes
<1>2. DOMAIN reader = {"pc", "key", "seq", "x", "level", "view", "sure",
                       "first", "visited"}
  BY Zenon DEF IInv, ReaderInv
<1>3. ReaderInv'
  BY <1>1, <1>2, Zenon DEF ReaderInv, HeightOf
<1> QED
  BY <1>1, <1>3, ListUnchanged, Zenon DEF IInv

\* A reader in the list stands at a location that it may load from.
LEMMA ReaderPlace ==
    ASSUME IInv, reader.pc = "find" \/ (reader.pc = "at" /\ reader.x # Null),
           NEW l, reader.pc = "find" => l = reader.level,
           reader.pc = "at" => l = 0
    PROVE  /\ reader.x \in DOMAIN next /\ l \in DOMAIN next[reader.x]
           /\ l \in 0..(HeightOf(reader.x) - 1)
           /\ reader.view \in Nat
           /\ reader.x \in Nodes => node[reader.x].at <= reader.view
<1>1. /\ reader.x \in {head_} \cup Nodes
      /\ reader.view \in Nat
      /\ reader.x \in Nodes => node[reader.x].at <= reader.view
  BY Zenon DEF IInv, ReaderInv
<1>2. reader.pc = "at" => HeightOf(reader.x) \in Nat /\ HeightOf(reader.x) > 0
  BY <1>1, NodeTypes DEF IInv, ReaderInv, Shape, HeightOf
<1>3. reader.pc = "find" => reader.level \in 0..(HeightOf(reader.x) - 1)
  BY Zenon DEF IInv, ReaderInv
<1>4. l \in 0..(HeightOf(reader.x) - 1)
  BY <1>2, <1>3
<1>5. reader.x \in DOMAIN next
  BY <1>1, Zenon DEF IInv, Shape
<1>6. l \in DOMAIN next[reader.x]
  BY <1>4, <1>5, Zenon DEF IInv, Shape
<1> QED
  BY <1>1, <1>4, <1>5, <1>6, Zenon

LEMMA SeekInv ==
    ASSUME IInv, NEW k \in Keys, NEW s, NEW h \in 1..kMaxHeight, Seek(k, s, h)
    PROVE  IInv'
<1>1. /\ UNCHANGED <<list, last_sequence_, writer, retired, unlocked>>
      /\ reader' = [NoReader EXCEPT
                      !.pc = "find", !.key = k, !.seq = s, !.x = head_,
                      !.level = h - 1, !.view = unlocked, !.sure = retired]
  BY Zenon DEF Seek
<1>2. DOMAIN NoReader = {"pc", "key", "seq", "x", "level", "view", "sure",
                         "first", "visited"}
  BY DEF NoReader
<1>3. /\ DOMAIN reader' = DOMAIN NoReader /\ reader'.view = unlocked
      /\ reader'.pc = "find" /\ reader'.x = head_ /\ reader'.level = h - 1
  BY <1>1, <1>2
<1>4. DOMAIN reader' = DOMAIN reader
  BY <1>2, <1>3, Zenon DEF IInv, ReaderInv
<1>5. reader'.view \in Nat /\ head_ \notin Nodes /\ head_ # Null
  BY <1>3, NodeTypes DEF IInv, Shape, head_, Null
<1>6. HeightOf(head_) = kMaxHeight
  BY DEF HeightOf
<1>7. reader'.level \in 0..(kMaxHeight - 1)
  BY <1>3, SkipListAssumption
<1> QED
  BY <1>1, <1>3, <1>4, <1>5, <1>6, <1>7, ReaderStepInv, Zenon

LEMMA FindStepInv == ASSUME IInv, FindStep PROVE IInv'
<1>1. reader.pc = "find"
      /\ UNCHANGED <<list, last_sequence_, writer, retired, unlocked>>
  BY Zenon DEF FindStep
<1>2. PICK m \in Readable(next[reader.x][reader.level], reader.view) :
          reader' = [Turn(m.to) EXCEPT !.view = ViewAfter(reader.view, m)]
  BY Zenon DEF FindStep
<1> PICK n : n = m.to
  OBVIOUS
<1> PICK v : v = ViewAfter(reader.view, m)
  OBVIOUS
<1>3. /\ reader.x \in DOMAIN next /\ reader.level \in DOMAIN next[reader.x]
      /\ reader.level \in 0..(HeightOf(reader.x) - 1)
      /\ reader.view \in Nat
      /\ reader.x \in Nodes => node[reader.x].at <= reader.view
  BY <1>1, ReaderPlace, Zenon
<1>4. /\ v \in Nat /\ reader.view <= v
      /\ n # Null => n \in Nodes /\ node[n].height > reader.level
                     /\ node[n].at <= v
  BY <1>3, LoadIsSafe, Zenon DEF IInv
<1>5. DOMAIN reader = {"pc", "key", "seq", "x", "level", "view", "sure",
                       "first", "visited"}
  BY Zenon DEF IInv, ReaderInv
<1>6. reader.x \in {head_} \cup Nodes /\ reader.x # Null
  BY <1>1, Zenon DEF IInv, ReaderInv
<1>7. head_ # Null /\ \A u \in Nodes : u # head_ /\ u # Null
         /\ node[u].at \in Nat /\ node[u].height \in Nat
  BY NodeTypes DEF IInv, Shape, head_, Null
<1>8. CASE KeyIsAfterNode(n)
  <2>1. n # Null
    BY <1>8, Zenon DEF KeyIsAfterNode
  <2>2. reader' = [[reader EXCEPT !.x = n] EXCEPT !.view = v]
    BY <1>2, <1>8, Zenon DEF Turn
  <2>3. /\ DOMAIN reader' = DOMAIN reader /\ reader'.view = v
        /\ reader'.pc = "find" /\ reader'.x = n /\ reader'.level = reader.level
    BY <1>1, <1>5, <2>2
  <2>4. HeightOf(n) = node[n].height
    BY <1>4, <1>7, <2>1, Zenon DEF HeightOf
  <2>5. reader.level \in 0..(HeightOf(n) - 1)
    BY <1>3, <1>4, <1>7, <2>1, <2>4
  <2> QED
    BY <1>1, <1>4, <2>1, <2>3, <2>5, ReaderStepInv, Zenon
<1>9. CASE ~KeyIsAfterNode(n) /\ reader.level > 0
  <2>1. reader' = [[reader EXCEPT !.level = @ - 1] EXCEPT !.view = v]
    BY <1>2, <1>9, Zenon DEF Turn
  <2>2. /\ DOMAIN reader' = DOMAIN reader /\ reader'.view = v
        /\ reader'.pc = "find" /\ reader'.x = reader.x
        /\ reader'.level = reader.level - 1
    BY <1>1, <1>5, <2>1
  <2>3. reader.level - 1 \in 0..(HeightOf(reader.x) - 1)
    <3>1. HeightOf(reader.x) \in Nat
      BY <1>6, <1>7, SkipListAssumption DEF HeightOf
    <3> QED
      BY <1>3, <1>9, <3>1
  <2>4. reader.x \in Nodes => node[reader.x].at <= v
    BY <1>3, <1>4, <1>7
  <2> QED
    BY <1>1, <1>4, <1>6, <2>2, <2>3, <2>4, ReaderStepInv, Zenon
<1>10. CASE ~KeyIsAfterNode(n) /\ ~(reader.level > 0)
  <2>1. reader' = [FoundAt(n) EXCEPT !.view = v]
    BY <1>2, <1>10, Zenon DEF Turn
  <2>2. /\ DOMAIN reader' = DOMAIN reader /\ reader'.view = v
        /\ reader'.pc = "at" /\ reader'.x = n
    BY <1>5, <2>1 DEF FoundAt, At
  <2> QED
    BY <1>1, <1>4, <1>7, <2>2, ReaderStepInv, Zenon
<1> QED
  BY <1>8, <1>9, <1>10, Zenon

LEMMA SeekToFirstInv == ASSUME IInv, SeekToFirst PROVE IInv'
<1>1. UNCHANGED <<list, last_sequence_, writer, retired, unlocked>>
  BY Zenon DEF SeekToFirst
<1>2. PICK m \in Readable(next[head_][0], unlocked) :
          reader' = [FoundAt(m.to) EXCEPT !.key = 0, !.sure = retired,
                                          !.view = ViewAfter(unlocked, m)]
  BY Zenon DEF SeekToFirst
<1> PICK n : n = m.to
  OBVIOUS
<1> PICK v : v = ViewAfter(unlocked, m)
  OBVIOUS
<1>3. head_ \in DOMAIN next /\ DOMAIN next[head_] = 0..(kMaxHeight - 1)
      /\ unlocked \in Nat
  BY Zenon DEF IInv, Shape, HeightOf
<1>4. 0 \in DOMAIN next[head_]
  BY <1>3, SkipListAssumption
<1>5. head_ # Null /\ \A u \in Nodes : u # head_ /\ u # Null
  BY NodeTypes DEF IInv, Shape, head_, Null
<1>6. v \in Nat /\ (n # Null => n \in Nodes /\ node[n].at <= v)
  BY <1>3, <1>4, <1>5, LoadIsSafe, Zenon DEF IInv
<1>7. DOMAIN reader = {"pc", "key", "seq", "x", "level", "view", "sure",
                       "first", "visited"}
  BY Zenon DEF IInv, ReaderInv
<1>8. /\ DOMAIN reader' = DOMAIN reader /\ reader'.view = v
      /\ reader'.pc = "at" /\ reader'.x = n
  BY <1>2, <1>7 DEF FoundAt, At
<1> QED
  BY <1>1, <1>5, <1>6, <1>8, ReaderStepInv, Zenon

LEMMA NextEntryInv == ASSUME IInv, NextEntry PROVE IInv'
<1>1. reader.pc = "at" /\ reader.x # Null
      /\ UNCHANGED <<list, last_sequence_, writer, retired, unlocked>>
  BY Zenon DEF NextEntry
<1>2. PICK m \in Readable(next[reader.x][0], reader.view) :
          reader' = [At(m.to) EXCEPT
                        !.view = ViewAfter(reader.view, m),
                        !.visited = @ \cup ({m.to} \ {Null})]
  BY Zenon DEF NextEntry, StepLevel
<1> PICK n : n = m.to
  OBVIOUS
<1> PICK v : v = ViewAfter(reader.view, m)
  OBVIOUS
<1>3. /\ reader.x \in DOMAIN next /\ 0 \in DOMAIN next[reader.x]
      /\ reader.view \in Nat
      /\ reader.x \in Nodes => node[reader.x].at <= reader.view
  BY <1>1, ReaderPlace
<1>4. head_ # Null /\ \A u \in Nodes : u # head_ /\ u # Null
  BY NodeTypes DEF IInv, Shape, head_, Null
<1>5. v \in Nat /\ (n # Null => n \in Nodes /\ node[n].at <= v)
  BY <1>3, LoadIsSafe, Zenon DEF IInv
<1>6. DOMAIN reader = {"pc", "key", "seq", "x", "level", "view", "sure",
                       "first", "visited"}
  BY Zenon DEF IInv, ReaderInv
<1>7. /\ DOMAIN reader' = DOMAIN reader /\ reader'.view = v
      /\ reader'.pc = "at" /\ reader'.x = n
  BY <1>1, <1>2, <1>6 DEF At
<1> QED
  BY <1>1, <1>4, <1>5, <1>7, ReaderStepInv, Zenon

-----------------------------------------------------------------------------
(* The theorem *)

LEMMA RaceFree == IInv => NoDataRace
<1> SUFFICES ASSUME IInv,
                    reader.pc = "find" \/ (reader.pc = "at" /\ reader.x # Null)
             PROVE  LET level == IF reader.pc = "find" THEN reader.level ELSE 0
                    IN  \A m \in Readable(next[reader.x][level], reader.view) :
                          m.to # Null =>
                             node[m.to].at <= ViewAfter(reader.view, m)
  BY DEF NoDataRace
<1> DEFINE level == IF reader.pc = "find" THEN reader.level ELSE 0
<1>1. /\ reader.pc = "find" => level = reader.level
      /\ reader.pc = "at" => level = 0
  OBVIOUS
<1> HIDE DEF level
<1>2. \A m \in Readable(next[reader.x][level], reader.view) :
          m.to # Null => node[m.to].at <= ViewAfter(reader.view, m)
  BY <1>1, ReaderPlace, LoadIsSafe, Zenon DEF IInv
<1> QED
  BY <1>2 DEF level

LEMMA NextInv == ASSUME NatWellOrdered, IInv, [Next]_vars PROVE IInv'
<1>1. CASE Write
  BY <1>1, GroupInv, InsertStartInv, LinkNodeInv, PublishNodeInv, Zenon DEF Write
<1>2. CASE Read
  BY <1>2, SeekInv, FindStepInv, SeekToFirstInv, NextEntryInv, Zenon DEF Read
<1>3. CASE UNCHANGED vars
  <2>1. /\ UNCHANGED list /\ UNCHANGED writer /\ UNCHANGED reader
        /\ unlocked' \in {unlocked, time}
    BY <1>3, Zenon DEF vars
  <2> QED
    BY <2>1, ListUnchanged, Zenon DEF IInv
<1> QED
  BY <1>1, <1>2, <1>3, Zenon DEF Next

-----------------------------------------------------------------------------
(* The list and its order *)

Writing == writer.pc \in {"link", "publish"}

\* Those that are linked on level l: all of its nodes but the one that the
\* writer has not published there yet.
In(l) == {n \in Linked(l) : Writing /\ n = NewestNode => l < writer.level}
Placed(l) == {head_} \cup In(l)

Before(x, y) == Precedes(x, node[y].key, y)
Follows(y, x) == x = head_ \/ Before(x, y)

\* To follow the pointer m from x is to pass y.
Skips(x, m, y) == Follows(y, x) /\ (m.to = Null \/ Before(y, m.to))

\* The height of the list, and what has been counted.
Counts ==
    /\ max_height_ \in Seq([to : 1..kMaxHeight, at : Nat]) \ {<<>>}
    /\ \A n \in Nodes : node[n].height <= Height
    /\ writer.pc \in {"idle", "insert", "link", "publish", "retire"}
    /\ writer.left \in Nat /\ last_sequence_ \in Nat /\ retired \in Nat
    /\ writer.pc \in {"insert", "link", "publish"} => writer.left > 0
    /\ last_sequence_ = Len(node) + (IF writer.pc = "insert" THEN writer.left
                                     ELSE IF Writing THEN writer.left - 1 ELSE 0)
    /\ size_ = Len(node) - IF Writing THEN 1 ELSE 0
    /\ retired <= size_ /\ unlocked <= time

\* Every pointer, old or new, goes to a node that is linked on that level and
\* was linked before the pointer was stored.
GoodPointer(x, l, i, m) ==
    /\ m.at <= time
    /\ m.to # Null =>
          /\ m.to \in In(l) /\ Follows(m.to, x)
          /\ 2 \in DOMAIN next[m.to][l] /\ next[m.to][l][2].at <= m.at
          /\ ~m.release => i = 2 /\ x # head_

Pointers ==
    \A x \in DOMAIN next : \A l \in DOMAIN next[x] : \A i \in DOMAIN next[x][l] :
        GoodPointer(x, l, i, next[x][l][i])

\* A node gets its own pointers from the bottom up.
Upwards ==
    \A x \in Nodes : \A l \in DOMAIN next[x] :
        /\ x \in In(l) => 2 \in DOMAIN next[x][l]
        /\ 2 \in DOMAIN next[x][l] =>
              \A k \in 0..l : 2 \in DOMAIN next[x][k] /\ next[x][k][2].at <= next[x][l][2].at

\* The newest pointers pass nobody.
Chain ==
    \A l \in Levels : \A x \in Placed(l), y \in In(l) : ~Skips(x, Newest(next[x][l]), y)

\* Where the node that is being linked belongs.
Place ==
    Writing =>
        /\ \A l \in writer.level..(node[NewestNode].height - 1) :
              LET p == writer.prev[l]
              IN  /\ p \in Placed(l) /\ Follows(NewestNode, p)
                  /\ \A y \in In(l) : ~(Follows(y, p) /\ Before(y, NewestNode))
                  /\ Len(next[NewestNode][l]) =
                        IF writer.pc = "publish" /\ l = writer.level THEN 2 ELSE 1
        /\ writer.pc = "publish" =>
              Newest(next[NewestNode][writer.level]).to = Newest(next[Splice][writer.level]).to

\* Whoever has this view knows that y is linked on level l.
Seen(view, y, l) ==
    \E x \in DOMAIN next : l \in DOMAIN next[x] /\ \E i \in DOMAIN next[x][l] :
        LET m == next[x][l][i] IN m.to = y /\ m.release /\ m.at <= view

SeenUpTo(view, n) == \A y \in 1..n : \A l \in 0..(node[y].height - 1) : Seen(view, y, l)

\* A stale pointer that passes y is known to be stale to whoever knows y.
StaleAt(x, y, l, i, location) ==
    (x = head_ \/ i >= 2) /\ Skips(x, location[i], y) =>
        \A view \in Nat : Seen(view, y, l) =>
            i + 1 \in DOMAIN location /\ location[i + 1].at <= view

Stale ==
    \A l \in Levels : \A x \in Placed(l), y \in In(l) : \A i \in DOMAIN next[x][l] :
        StaleAt(x, y, l, i, next[x][l])

Known ==
    /\ \A l \in Levels : \A y \in In(l) : Seen(time, y, l)
    /\ SeenUpTo(unlocked, retired)

Ready(x, l) == x \in In(l) /\ 2 \in DOMAIN next[x][l] /\ next[x][l][2].at <= reader.view

ReaderKnows ==
    reader.pc \in {"find", "at"} =>
       /\ reader.sure \in 0..retired /\ SeenUpTo(reader.view, reader.sure)
       /\ reader.key \in 0..NumKeys /\ (reader.key # 0 => reader.seq \in Int)
       /\ reader.pc = "find" => reader.key # 0 /\
             (reader.x # head_ => Ready(reader.x, reader.level) /\
                                  Precedes(reader.x, reader.key, reader.seq))
       /\ reader.pc = "at" =>
             /\ reader.x # Null => Ready(reader.x, 0)
             /\ \A y \in 1..reader.sure :
                   (reader.key = 0 \/ ~Precedes(y, reader.key, reader.seq)) =>
                       y \in reader.visited \/ (reader.x # Null /\ Before(reader.x, y))
             /\ reader.first \in Nodes \cup {Null}
             /\ GetFindsNewest

OInv == Counts /\ Pointers /\ Upwards /\ Chain /\ Place /\ Stale /\ Known /\ ReaderKnows

-----------------------------------------------------------------------------
(* The order of the nodes *)

LEMMA KeysAreNumbers ==
    ASSUME Shape
    PROVE  \A n \in Nodes : n \in Nat /\ node[n].key \in Int /\ n # head_ /\ n # Null
BY NodeTypes, Zenon DEF Shape

\* Before is a total order of the nodes, ...
LEMMA BeforeOrders ==
    ASSUME Shape, NEW a \in Nodes, NEW b \in Nodes, NEW c \in Nodes
    PROVE  /\ ~Before(a, a)
           /\ ~(Before(a, b) /\ Before(b, a))
           /\ Before(a, b) /\ Before(b, c) => Before(a, c)
           /\ a = b \/ Before(a, b) \/ Before(b, a)
BY KeysAreNumbers DEF Before, Precedes

\* ... and the position of a search cuts it in two.
LEMMA PrecedesCuts ==
    ASSUME Shape, NEW a \in Nodes, NEW b \in Nodes, NEW k \in Int, NEW s \in Int
    PROVE  /\ Precedes(a, k, s) /\ ~Precedes(b, k, s) => Before(a, b)
           /\ Precedes(b, k, s) /\ Before(a, b) => Precedes(a, k, s)
           /\ ~Precedes(b, k, s) /\ Before(b, a) => ~Precedes(a, k, s)
BY KeysAreNumbers DEF Before, Precedes

\* What follows a place, in the words of the order.
LEMMA FollowsOrders ==
    ASSUME Shape, NEW x \in {head_} \cup Nodes, NEW y \in Nodes, NEW z \in Nodes
    PROVE  /\ Follows(y, x) /\ Before(y, z) => Follows(z, x)
           /\ ~Follows(x, x) \/ x = head_
           /\ x # head_ => x \in Nodes /\ (Follows(y, x) <=> Before(x, y))
           /\ ~Follows(y, x) => x \in Nodes /\ (x = y \/ Before(y, x))
<1>1. x = head_ \/ x \in Nodes
  OBVIOUS
<1>2. x \in Nodes => x # head_
  BY KeysAreNumbers
<1> QED
  BY <1>1, <1>2, BeforeOrders, Zenon DEF Follows

-----------------------------------------------------------------------------
(* Places and locations *)

LEMMA InNodes ==
    ASSUME Shape, NEW l \in Levels
    PROVE  /\ In(l) \subseteq Nodes
           /\ \A n \in In(l) : n # head_ /\ n # Null /\ node[n].height > l
           /\ \A n \in Nodes : node[n].height > l /\ (Writing /\ n = NewestNode => l < writer.level)
                 => n \in In(l)
           /\ \A n \in In(l) : Writing /\ n = NewestNode => l < writer.level
BY KeysAreNumbers, Zenon DEF In, Linked

\* A place on level l has a location there.
LEMMA PlacedAt ==
    ASSUME Shape, NEW l \in Levels, NEW x \in Placed(l)
    PROVE  /\ x \in DOMAIN next /\ l \in DOMAIN next[x]
           /\ x \in {head_} \cup Nodes
           /\ next[x][l] \in Seq(StoreRecord) \ {<<>>}
<1>1. x \in {head_} \cup Nodes /\ (x # head_ => x \in Nodes /\ node[x].height > l)
  BY InNodes, Zenon DEF Placed
<1>2. x \in DOMAIN next
  BY <1>1, Zenon DEF Shape
<1>3. DOMAIN next[x] = 0..(HeightOf(x) - 1)
  BY <1>2, Zenon DEF Shape
<1>4. HeightOf(x) \in Nat /\ HeightOf(x) > l
  <2>1. CASE x = head_
    BY <2>1, SkipListAssumption DEF HeightOf, Levels
  <2>2. CASE x # head_
    BY <1>1, <2>2, NodeTypes DEF Shape, HeightOf
  <2> QED
    BY <2>1, <2>2
<1>5. l \in DOMAIN next[x]
  BY <1>3, <1>4 DEF Levels
<1> QED
  BY <1>1, <1>2, <1>5, Zenon DEF Shape

\* The levels of a location are levels of the list.
LEMMA LevelsOf ==
    ASSUME Shape, NEW x \in DOMAIN next, NEW l \in DOMAIN next[x]
    PROVE  /\ l \in Levels /\ x \in {head_} \cup Nodes
           /\ l < HeightOf(x) /\ HeightOf(x) \in Nat
           /\ next[x][l] \in Seq(StoreRecord) \ {<<>>}
           /\ \A k \in 0..l : k \in DOMAIN next[x]
<1>1. x \in {head_} \cup Nodes /\ DOMAIN next[x] = 0..(HeightOf(x) - 1)
  BY Zenon DEF Shape
<1>2. HeightOf(x) \in Nat /\ HeightOf(x) <= kMaxHeight
  <2>1. CASE x = head_
    BY <2>1, SkipListAssumption DEF HeightOf
  <2>2. CASE x # head_
    BY <1>1, <2>2, NodeTypes DEF Shape, HeightOf
  <2> QED
    BY <2>1, <2>2
<1>3. l \in Levels /\ l < HeightOf(x) /\ \A k \in 0..l : k \in DOMAIN next[x]
  BY <1>1, <1>2, SkipListAssumption DEF Levels
<1> QED
  BY <1>1, <1>2, <1>3, Zenon DEF Shape

-----------------------------------------------------------------------------
(* What a reader knows stays true *)

\* Nodes do not change and stores are not taken back.
Kept ==
    /\ \A n \in Nodes : n \in Nodes' /\ node'[n] = node[n]
    /\ \A x \in DOMAIN next : x \in DOMAIN next' /\ \A l \in DOMAIN next[x] :
          l \in DOMAIN next'[x] /\ \A i \in DOMAIN next[x][l] :
             i \in DOMAIN next'[x][l] /\ next'[x][l][i] = next[x][l][i]

LEMMA KeptOrder ==
    ASSUME Kept
    PROVE  /\ \A a \in Nodes : \A k, s : Precedes(a, k, s)' <=> Precedes(a, k, s)
           /\ \A a, b \in Nodes : Before(a, b)' <=> Before(a, b)
BY Zenon DEF Kept, Before, Precedes

LEMMA KeptSeen ==
    ASSUME Kept, NEW view, NEW y, NEW l, Seen(view, y, l)
    PROVE  Seen(view, y, l)'
<1>1. PICK x \in DOMAIN next : l \in DOMAIN next[x] /\ \E i \in DOMAIN next[x][l] :
         next[x][l][i].to = y /\ next[x][l][i].release /\ next[x][l][i].at <= view
  BY Zenon DEF Seen
<1>2. PICK i \in DOMAIN next[x][l] :
         next[x][l][i].to = y /\ next[x][l][i].release /\ next[x][l][i].at <= view
  BY <1>1, Zenon
<1>3. /\ x \in DOMAIN next' /\ l \in DOMAIN next'[x] /\ i \in DOMAIN next'[x][l]
      /\ next'[x][l][i] = next[x][l][i]
  BY <1>1, <1>2, Zenon DEF Kept
<1> QED
  BY <1>2, <1>3, Zenon DEF Seen

LEMMA KeptSeenUpTo ==
    ASSUME Shape, Kept, NEW view, NEW n \in Nat, n <= Len(node), SeenUpTo(view, n)
    PROVE  SeenUpTo(view, n)'
<1> SUFFICES ASSUME NEW y \in 1..n, NEW l \in 0..(node'[y].height - 1)
             PROVE  Seen(view, y, l)'
  BY Zenon DEF SeenUpTo
<1>1. y \in Nodes
  BY NodeTypes DEF Shape
<1>2. node'[y] = node[y]
  BY <1>1, Zenon DEF Kept
<1>3. Seen(view, y, l)
  BY <1>2, Zenon DEF SeenUpTo
<1> QED
  BY <1>3, KeptSeen, Zenon

\* Whoever sees more knows more.
LEMMA SeenGrows ==
    ASSUME Shape, NEW v \in Nat, NEW w \in Nat, v <= w, NEW y, NEW l, Seen(v, y, l)
    PROVE  Seen(w, y, l)
<1>1. PICK x \in DOMAIN next : l \in DOMAIN next[x] /\ \E i \in DOMAIN next[x][l] :
         next[x][l][i].to = y /\ next[x][l][i].release /\ next[x][l][i].at <= v
  BY Zenon DEF Seen
<1>2. PICK i \in DOMAIN next[x][l] :
         next[x][l][i].to = y /\ next[x][l][i].release /\ next[x][l][i].at <= v
  BY <1>1, Zenon
<1>3. next[x][l] \in Seq(StoreRecord)
  BY <1>1, Zenon DEF Shape
<1>4. PICK m : m = next[x][l][i]
  BY Zenon
<1>5. m \in StoreRecord
  BY <1>2, <1>3, <1>4
<1>6. m.at <= w
  BY <1>2, <1>4, <1>5 DEF StoreRecord
<1> QED
  BY <1>1, <1>2, <1>4, <1>6, Zenon DEF Seen

LEMMA SeenUpToGrows ==
    ASSUME Shape, NEW v \in Nat, NEW w \in Nat, v <= w, NEW n, SeenUpTo(v, n)
    PROVE  SeenUpTo(w, n)
BY SeenGrows, Zenon DEF SeenUpTo

\* The number of entries that are there for good.
LEMMA SureAreNodes ==
    ASSUME Shape, Counts
    PROVE  /\ retired \in Nat /\ retired <= Len(node) /\ 1..retired \subseteq Nodes
           /\ \A y \in 1..retired : Writing => y # NewestNode
<1>1. Len(node) \in Nat /\ Nodes = 1..Len(node)
  BY NodeTypes DEF Shape
<1>2. retired \in Nat /\ retired <= size_ /\ size_ = Len(node) - IF Writing THEN 1 ELSE 0
  BY Zenon DEF Counts
<1>3. CASE Writing
  BY <1>1, <1>2, <1>3 DEF NewestNode
<1>4. CASE ~Writing
  BY <1>1, <1>2, <1>4
<1> QED
  BY <1>3, <1>4

\* No step of the writer takes anything from what a reader knows.
LEMMA ReaderKept ==
    ASSUME IInv, IInv', Counts, ReaderKnows, Kept, reader' = reader,
           retired' \in Nat, retired <= retired',
           \A l \in Levels : In(l) \subseteq In(l)'
    PROVE  ReaderKnows'
<1> SUFFICES ASSUME reader.pc \in {"find", "at"}
             PROVE  /\ reader.sure \in 0..retired' /\ SeenUpTo(reader.view, reader.sure)'
                    /\ reader.key \in 0..NumKeys /\ (reader.key # 0 => reader.seq \in Int)
                    /\ reader.pc = "find" => reader.key # 0 /\
                          (reader.x # head_ => Ready(reader.x, reader.level)' /\
                                  Precedes(reader.x, reader.key, reader.seq)')
                    /\ reader.pc = "at" =>
                         /\ reader.x # Null => Ready(reader.x, 0)'
                         /\ \A y \in 1..reader.sure :
                              (reader.key = 0 \/ ~Precedes(y, reader.key, reader.seq)') =>
                                 y \in reader.visited \/ (reader.x # Null /\ Before(reader.x, y)')
                         /\ reader.first \in Nodes' \cup {Null}
                         /\ GetFindsNewest'
  BY Zenon DEF ReaderKnows
<1> PICK r : r = reader
  BY Zenon
<1>1. /\ r.sure \in 0..retired /\ SeenUpTo(r.view, r.sure)
      /\ r.key \in 0..NumKeys /\ (r.key # 0 => r.seq \in Int)
      /\ r.pc = "find" => r.key # 0 /\
            (r.x # head_ => Ready(r.x, r.level) /\ Precedes(r.x, r.key, r.seq))
      /\ r.pc = "at" =>
            /\ r.x # Null => Ready(r.x, 0)
            /\ \A y \in 1..r.sure :
                 (r.key = 0 \/ ~Precedes(y, r.key, r.seq)) =>
                    y \in r.visited \/ (r.x # Null /\ Before(r.x, y))
            /\ r.first \in Nodes \cup {Null}
            /\ GetFindsNewest
  BY Zenon DEF ReaderKnows
<1>2. /\ retired \in Nat /\ retired <= Len(node) /\ Len(node) \in Nat
      /\ Nodes = 1..Len(node) /\ Shape
  BY SureAreNodes, NodeTypes DEF IInv, Shape
<1>3. r.sure \in 0..retired' /\ r.sure \in Nat /\ r.sure <= Len(node)
      /\ 1..r.sure \subseteq Nodes
  BY <1>1, <1>2
<1>4. SeenUpTo(r.view, r.sure)'
  <2>1. PICK v, n : v = r.view /\ n = r.sure
    BY Zenon
  <2>2. SeenUpTo(v, n)'
    BY <1>1, <1>2, <1>3, <2>1, KeptSeenUpTo, Zenon
  <2> QED
    BY <2>1, <2>2, Zenon
<1>5. 0 \in Levels /\ (r.pc = "find" => r.level \in Levels)
  <2>1. 0 \in Levels
    BY SkipListAssumption DEF Levels
  <2>2. r.pc = "find" => reader.x \in DOMAIN next /\ r.level \in DOMAIN next[reader.x]
    BY ReaderPlace, Zenon
  <2> QED
    BY <1>2, <2>1, <2>2, LevelsOf, Zenon
<1>6. ASSUME NEW l \in Levels, Ready(r.x, l)
      PROVE  Ready(r.x, l)'
  <2>1. r.x \in In(l) /\ 2 \in DOMAIN next[r.x][l] /\ next[r.x][l][2].at <= reader.view
    BY <1>6, Zenon DEF Ready
  <2>2. r.x \in DOMAIN next /\ l \in DOMAIN next[r.x]
    BY <1>2, <2>1, PlacedAt, Zenon DEF Placed
  <2>3. /\ r.x \in In(l)' /\ 2 \in DOMAIN next'[r.x][l]
        /\ next'[r.x][l][2] = next[r.x][l][2]
    BY <2>1, <2>2, Zenon DEF Kept
  <2> QED
    BY <2>1, <2>3, Zenon DEF Ready
<1>7. /\ \A l \in Levels : Ready(r.x, l) => r.x \in Nodes
      /\ \A a \in Nodes : \A k, s : Precedes(a, k, s)' <=> Precedes(a, k, s)
      /\ \A a, b \in Nodes : Before(a, b)' <=> Before(a, b)
  BY <1>2, KeptOrder, InNodes, Zenon DEF Ready
<1>8. r.pc = "find" /\ r.x # head_ =>
         Ready(r.x, r.level)' /\ Precedes(r.x, r.key, r.seq)'
  BY <1>1, <1>5, <1>6, <1>7, Zenon
<1>9. ASSUME r.pc = "at"
      PROVE  /\ r.x # Null => Ready(r.x, 0)'
             /\ \A y \in 1..r.sure :
                  (r.key = 0 \/ ~Precedes(y, r.key, r.seq)') =>
                     y \in r.visited \/ (r.x # Null /\ Before(r.x, y)')
             /\ r.first \in Nodes' \cup {Null}
  <2>1. r.x # Null => Ready(r.x, 0)'
    BY <1>1, <1>5, <1>6, <1>9, Zenon
  <2>2. \A y \in 1..r.sure :
                  (r.key = 0 \/ ~Precedes(y, r.key, r.seq)') =>
                     y \in r.visited \/ (r.x # Null /\ Before(r.x, y)')
    BY <1>1, <1>3, <1>5, <1>7, <1>9, Zenon
  <2>3. r.first \in Nodes' \cup {Null}
    BY <1>1, <1>9, Zenon DEF Kept
  <2> QED
    BY <2>1, <2>2, <2>3
<1>10. ASSUME r.pc = "at", r.key # 0
       PROVE  LET hit == r.first # Null /\ node'[r.first].key = r.key
              IN  /\ hit => r.first <= r.seq
                  /\ \A n \in Versions(r.key, r.seq)' : n <= r.sure => hit /\ n <= r.first
  <2> DEFINE hit == r.first # Null /\ node[r.first].key = r.key
  <2>1. /\ hit => r.first <= r.seq
        /\ \A n \in Versions(r.key, r.seq) : n <= r.sure => hit /\ n <= r.first
    BY <1>1, <1>10, Zenon DEF GetFindsNewest
  <2>2. r.first # Null => node'[r.first] = node[r.first]
    BY <1>1, <1>10, Zenon DEF Kept
  <2>3. ASSUME NEW n \in Versions(r.key, r.seq)', n <= r.sure
        PROVE  n \in Versions(r.key, r.seq)
    <3>1. n \in Nodes' /\ node'[n].key = r.key /\ n <= r.seq
      BY Zenon DEF Versions
    <3>2. n \in Nat /\ n # 0
      <4>1. node' \in Seq(NodeRecord)
        BY Zenon DEF IInv, Shape
      <4> QED
        BY <3>1, <4>1 DEF Nodes
    <3>3. n \in Nodes
      BY <1>2, <1>3, <2>3, <3>2
    <3>4. node'[n] = node[n]
      BY <3>3, Zenon DEF Kept
    <3> QED
      BY <3>1, <3>3, <3>4, Zenon DEF Versions
  <2> QED
    BY <2>1, <2>2, <2>3, Zenon
<1>11. r.pc = "at" => GetFindsNewest'
  BY <1>10, Zenon DEF GetFindsNewest
<1> QED
  BY <1>1, <1>3, <1>4, <1>8, <1>9, <1>11, Zenon

-----------------------------------------------------------------------------
(* What a load passes *)

LEMMA Locations ==
    ASSUME Shape, NEW x \in DOMAIN next, NEW l \in DOMAIN next[x]
    PROVE  /\ next[x][l] \in Seq(StoreRecord) \ {<<>>}
           /\ DOMAIN next[x][l] = 1..Len(next[x][l]) /\ Len(next[x][l]) \in Nat \ {0}
           /\ \A i \in DOMAIN next[x][l] :
                 /\ i \in Nat /\ next[x][l][i] \in StoreRecord
                 /\ next[x][l][i].at \in Nat /\ next[x][l][i].to \in Int
<1> PICK q : q = next[x][l]
  BY Zenon
<1>1. q \in Seq(StoreRecord) \ {<<>>}
  BY Zenon DEF Shape
<1>2. \A m \in StoreRecord : m.at \in Nat /\ m.to \in Int
  BY DEF StoreRecord
<1>3. DOMAIN q = 1..Len(q) /\ Len(q) \in Nat \ {0} /\ \A i \in DOMAIN q : i \in Nat /\ q[i] \in StoreRecord
  BY <1>1
<1> QED
  BY <1>1, <1>2, <1>3, Zenon

\* A reader stands at a place whose own pointer it has seen.
Stands(x, l, view) ==
    /\ x \in Placed(l)
    /\ x # head_ => 2 \in DOMAIN next[x][l] /\ next[x][l][2].at <= view

\* A load leads on to such a place, and passes nobody the reader knows of.
LEMMA LoadPasses ==
    ASSUME IInv, Pointers, Stale, NEW l \in Levels, NEW x, NEW view \in Nat,
           Stands(x, l, view), NEW m \in Readable(next[x][l], view)
    PROVE  /\ m.to # Null => Stands(m.to, l, ViewAfter(view, m)) /\ m.to \in In(l)
           /\ \A y \in In(l) : Seen(view, y, l) => ~Skips(x, m, y)
<1>1. x \in Placed(l) /\ x \in DOMAIN next /\ l \in DOMAIN next[x] /\ Shape
  BY PlacedAt, Zenon DEF Stands, IInv
<1>2. PICK q : q = next[x][l]
  BY Zenon
<1>3. /\ DOMAIN q = 1..Len(q) /\ Len(q) \in Nat
      /\ \A i \in DOMAIN q : i \in Nat /\ q[i].at \in Nat /\ q[i] \in StoreRecord
  BY <1>1, <1>2, Locations, Zenon
<1>4. PICK j \in DOMAIN q : m = q[j] /\ \A i \in (j + 1)..Len(q) : q[i].at > view
  BY <1>2, Zenon DEF Readable
<1>5. \A i \in DOMAIN q : i >= j + 1 => ~(q[i].at <= view)
  BY <1>3, <1>4
<1>6. x # head_ => j >= 2
  <2>1. x # head_ => 2 \in DOMAIN q /\ q[2].at <= view
    BY <1>2, Zenon DEF Stands
  <2> QED
    BY <1>3, <1>5, <2>1
<1>7. ASSUME m.to # Null
      PROVE  Stands(m.to, l, ViewAfter(view, m)) /\ m.to \in In(l)
  <2>1. /\ m.to \in In(l) /\ 2 \in DOMAIN next[m.to][l] /\ next[m.to][l][2].at <= m.at
        /\ ~m.release => j = 2 /\ x # head_
    BY <1>1, <1>2, <1>4, <1>7, Zenon DEF Pointers, GoodPointer
  <2>2. ~m.release => m.at <= view
    BY <1>2, <1>4, <2>1, Zenon DEF Stands
  <2>3. m.at \in Nat /\ m \in StoreRecord
    BY <1>3, <1>4
  <2>4. m.at <= ViewAfter(view, m) /\ ViewAfter(view, m) \in Nat
    BY <2>2, <2>3 DEF ViewAfter
  <2>5. next[m.to][l][2].at \in Nat
    BY <1>1, <2>1, PlacedAt, Locations, Zenon DEF Placed
  <2>6. next[m.to][l][2].at <= ViewAfter(view, m)
    BY <2>1, <2>3, <2>4, <2>5
  <2> QED
    BY <2>1, <2>6, Zenon DEF Stands, Placed
<1>8. ASSUME NEW y \in In(l), Seen(view, y, l), Skips(x, m, y)
      PROVE  FALSE
  <2>1. j + 1 \in DOMAIN q /\ q[j + 1].at <= view
    BY <1>1, <1>2, <1>4, <1>6, <1>8, Zenon DEF Stale, StaleAt
  <2> QED
    BY <1>3, <1>5, <2>1
<1> QED
  BY <1>7, <1>8, Zenon

\* What was there for good when the reader started.
LEMMA SureIsIn ==
    ASSUME IInv, Counts, NEW view, NEW sure \in 0..retired, SeenUpTo(view, sure),
           NEW y \in 1..sure
    PROVE  y \in Nodes /\ y \in In(0) /\ Seen(view, y, 0) /\ 0 \in Levels
<1>1. Shape /\ retired \in Nat /\ 1..retired \subseteq Nodes
      /\ \A z \in 1..retired : Writing => z # NewestNode
  BY SureAreNodes, Zenon DEF IInv
<1>2. y \in 1..retired /\ 0 \in Levels
  BY <1>1, SkipListAssumption DEF Levels
<1>3. y \in Nodes /\ node[y].height > 0 /\ node[y].height \in Nat
  BY <1>1, <1>2, NodeTypes DEF Shape
<1>4. y \in In(0)
  BY <1>1, <1>2, <1>3, InNodes, Zenon
<1>5. 0 \in 0..(node[y].height - 1)
  BY <1>3
<1> QED
  BY <1>2, <1>3, <1>4, <1>5, Zenon DEF SeenUpTo

\* A load on the lowest level leads to the next of those, or to something
\* newer before it.
LEMMA LoadFinds ==
    ASSUME IInv, Counts, Pointers, Stale, NEW x, NEW view \in Nat, Stands(x, 0, view),
           NEW sure \in 0..retired, SeenUpTo(view, sure),
           NEW m \in Readable(next[x][0], view), NEW y \in 1..sure, Follows(y, x)
    PROVE  m.to # Null /\ (m.to = y \/ Before(m.to, y))
<1>1. y \in Nodes /\ y \in In(0) /\ Seen(view, y, 0) /\ 0 \in Levels /\ Shape
  BY SureIsIn, Zenon DEF IInv
<1>2. ~Skips(x, m, y) /\ (m.to # Null => m.to \in In(0))
  BY <1>1, LoadPasses, Zenon
<1>3. m.to # Null /\ ~Before(y, m.to)
  BY <1>2, Zenon DEF Skips
<1>4. m.to \in Nodes
  BY <1>1, <1>2, <1>3, InNodes, Zenon
<1> QED
  BY <1>1, <1>3, <1>4, BeforeOrders, Zenon

-----------------------------------------------------------------------------
(* Steps that leave the list alone *)

LEMMA SameOrder ==
    ASSUME node' = node, next' = next
    PROVE  /\ Nodes' = Nodes /\ NewestNode' = NewestNode
           /\ \A x, k, s : Precedes(x, k, s)' <=> Precedes(x, k, s)
           /\ \A x, y : Before(x, y)' <=> Before(x, y)
           /\ \A x, y : Follows(y, x)' <=> Follows(y, x)
           /\ \A x, m, y : Skips(x, m, y)' <=> Skips(x, m, y)
           /\ \A v, y, l : Seen(v, y, l)' <=> Seen(v, y, l)
           /\ \A v, n : SeenUpTo(v, n)' <=> SeenUpTo(v, n)
           /\ \A l : Linked(l)' = Linked(l)
<1>1. Nodes' = Nodes /\ NewestNode' = NewestNode
  BY Zenon DEF Nodes, NewestNode
<1>2. \A x, k, s : Precedes(x, k, s)' <=> Precedes(x, k, s)
  BY Zenon DEF Precedes
<1>3. \A x, y : Before(x, y)' <=> Before(x, y)
  BY Zenon DEF Before, Precedes
<1>4. \A x, y : Follows(y, x)' <=> Follows(y, x)
  BY <1>3, Zenon DEF Follows
<1>5. \A x, m, y : Skips(x, m, y)' <=> Skips(x, m, y)
  BY <1>3, <1>4, Zenon DEF Skips
<1>6. \A v, y, l : Seen(v, y, l)' <=> Seen(v, y, l)
  BY ZenonT(40) DEF Seen
<1>7. \A v, n : SeenUpTo(v, n)' <=> SeenUpTo(v, n)
  BY <1>6, Zenon DEF SeenUpTo
<1>8. \A l : Linked(l)' = Linked(l)
  BY <1>1, Zenon DEF Linked
<1> QED
  BY <1>1, <1>2, <1>3, <1>4, <1>5, <1>6, <1>7, <1>8

LEMMA SamePlaces ==
    ASSUME node' = node, next' = next, writer' = writer \/ (~Writing /\ ~Writing')
    PROVE  \A l : In(l)' = In(l) /\ Placed(l)' = Placed(l)
<1>1. /\ NewestNode' = NewestNode
      /\ \A l : Linked(l)' = Linked(l)
  BY SameOrder, Zenon
<1>2. ASSUME NEW l PROVE In(l)' = In(l)
  <2>1. CASE writer' = writer
    BY <1>1, <2>1, Zenon DEF In, Writing
  <2>2. CASE ~Writing /\ ~Writing'
    BY <1>1, <2>2, Zenon DEF In
  <2> QED
    BY <2>1, <2>2
<1> QED
  BY <1>2, Zenon DEF Placed

LEMMA SameList ==
    ASSUME OInv, UNCHANGED list, writer' = writer \/ (~Writing /\ ~Writing')
    PROVE  /\ Pointers' /\ Upwards' /\ Chain' /\ Place' /\ Stale'
           /\ \A l \in Levels : \A y \in In(l)' : Seen(time, y, l)'
<1>1. node' = node /\ next' = next /\ time' = time
  BY Zenon DEF list
<1>2. /\ Nodes' = Nodes /\ NewestNode' = NewestNode
      /\ \A x, y : Before(x, y)' <=> Before(x, y)
      /\ \A x, y : Follows(y, x)' <=> Follows(y, x)
      /\ \A x, m, y : Skips(x, m, y)' <=> Skips(x, m, y)
      /\ \A v, y, l : Seen(v, y, l)' <=> Seen(v, y, l)
      /\ \A l : In(l)' = In(l) /\ Placed(l)' = Placed(l)
  BY <1>1, SameOrder, SamePlaces, Zenon
<1>3. Pointers'
  <2>1. ASSUME NEW x \in DOMAIN next, NEW l \in DOMAIN next[x], NEW i \in DOMAIN next[x][l],
               NEW m, m = next[x][l][i]
        PROVE  GoodPointer(x, l, i, m)'
    <3>1. GoodPointer(x, l, i, m)
      BY <2>1, Zenon DEF OInv, Pointers
    <3> QED
      BY <1>1, <1>2, <3>1, Zenon DEF GoodPointer
  <2> QED
    BY <1>1, <2>1, Zenon DEF Pointers
<1>4. Upwards'
  BY <1>1, <1>2, Zenon DEF OInv, Upwards
<1>5. Chain'
  BY <1>1, <1>2, Zenon DEF OInv, Chain
<1>6. Place'
  <2>1. CASE writer' = writer
    <3>1. /\ Writing' <=> Writing
          /\ Splice' = Splice
      BY <2>1, Zenon DEF Writing, Splice
    <3>2. SUFFICES ASSUME Writing
                   PROVE  Place'
      BY <3>1, Zenon DEF Place
    <3>3. /\ \A l \in writer.level..(node[NewestNode].height - 1) :
              LET p == writer.prev[l]
              IN  /\ p \in Placed(l) /\ Follows(NewestNode, p)
                  /\ \A y \in In(l) : ~(Follows(y, p) /\ Before(y, NewestNode))
                  /\ Len(next[NewestNode][l]) =
                        IF writer.pc = "publish" /\ l = writer.level THEN 2 ELSE 1
          /\ writer.pc = "publish" =>
              Newest(next[NewestNode][writer.level]).to = Newest(next[Splice][writer.level]).to
      BY <3>2, Zenon DEF OInv, Place
    <3> QED
      BY <1>1, <1>2, <2>1, <3>1, <3>3, Zenon DEF Place
  <2>2. CASE ~Writing'
    BY <2>2, Zenon DEF Place
  <2> QED
    BY <2>1, <2>2
<1>7. Stale'
  <2>1. ASSUME NEW x, NEW y, NEW l, NEW i, NEW q, q = next[x][l], StaleAt(x, y, l, i, q)
        PROVE  StaleAt(x, y, l, i, q)'
    BY <1>1, <1>2, <2>1, Zenon DEF StaleAt
  <2> QED
    BY <1>1, <1>2, <2>1, Zenon DEF OInv, Stale
<1>8. \A l \in Levels : \A y \in In(l)' : Seen(time, y, l)'
  BY <1>1, <1>2, Zenon DEF OInv, Known
<1> QED
  BY <1>3, <1>4, <1>5, <1>6, <1>7, <1>8

LEMMA KeptList ==
    ASSUME UNCHANGED list
    PROVE  Kept
<1>1. node' = node /\ next' = next
  BY Zenon DEF list
<1>2. Nodes' = Nodes
  BY <1>1, Zenon DEF Nodes
<1> QED
  BY <1>1, <1>2, Zenon DEF Kept

-----------------------------------------------------------------------------
(* The steps of a reader *)

\* What a reader with the record r knows, in the words of ReaderKnows.
FindKnows(r) ==
    r.key # 0 /\ (r.x # head_ => /\ r.x \in In(r.level) /\ Stands(r.x, r.level, r.view)
                                /\ Precedes(r.x, r.key, r.seq))

Finds(r) ==
    r.key # 0 =>
        LET hit == r.first # Null /\ node[r.first].key = r.key
        IN  /\ hit => r.first <= r.seq
            /\ \A n \in Versions(r.key, r.seq) : n <= r.sure => hit /\ n <= r.first

AtKnows(r) ==
    /\ r.x # Null => r.x \in In(0) /\ Stands(r.x, 0, r.view)
    /\ \A y \in 1..r.sure :
          (r.key = 0 \/ ~Precedes(y, r.key, r.seq)) =>
              y \in r.visited \/ (r.x # Null /\ Before(r.x, y))
    /\ r.first \in Nodes \cup {Null}
    /\ Finds(r)

Knows(r) ==
    /\ r.sure \in 0..retired /\ SeenUpTo(r.view, r.sure)
    /\ r.key \in 0..NumKeys /\ (r.key # 0 => r.seq \in Int)
    /\ r.pc = "find" => FindKnows(r)
    /\ r.pc = "at" => AtKnows(r)

LEMMA KnowsOf ==
    ASSUME IInv, ReaderKnows, reader.pc \in {"find", "at"}
    PROVE  Knows(reader)
<1>1. \A l \in Levels : \A x \in In(l) : x # head_ /\ x # Null
  BY InNodes, Zenon DEF IInv
<1>2. 0 \in Levels /\ (reader.pc = "find" => reader.level \in Levels)
  <2>1. 0 \in Levels
    BY SkipListAssumption DEF Levels
  <2>2. reader.pc = "find" => reader.x \in DOMAIN next /\ reader.level \in DOMAIN next[reader.x]
    BY ReaderPlace, Zenon
  <2> QED
    BY <2>1, <2>2, LevelsOf, Zenon DEF IInv
<1>3. \A l \in Levels : Ready(reader.x, l) => reader.x \in In(l) /\ Stands(reader.x, l, reader.view)
  BY Zenon DEF Ready, Stands, Placed
<1>4. reader.pc = "find" => FindKnows(reader)
  BY <1>2, <1>3, Zenon DEF ReaderKnows, FindKnows
<1>5. reader.pc = "at" => AtKnows(reader)
  BY <1>2, <1>3, Zenon DEF ReaderKnows, AtKnows, GetFindsNewest, Finds
<1> QED
  BY <1>4, <1>5, Zenon DEF ReaderKnows, Knows

LEMMA KnowsNext ==
    ASSUME IInv, UNCHANGED <<list, last_sequence_, writer, retired, unlocked>>,
           NEW r, r = reader', Knows(r), r.pc \in {"find", "at"},
           r.pc = "find" => r.level \in Levels
    PROVE  ReaderKnows'
<1>1. node' = node /\ next' = next /\ writer' = writer /\ retired' = retired
  BY Zenon DEF list
<1>2. /\ Nodes' = Nodes
      /\ \A x, k, s : Precedes(x, k, s)' <=> Precedes(x, k, s)
      /\ \A x, y : Before(x, y)' <=> Before(x, y)
      /\ \A v, n : SeenUpTo(v, n)' <=> SeenUpTo(v, n)
      /\ \A l : In(l)' = In(l)
  BY <1>1, SameOrder, SamePlaces, Zenon
<1>3. \A l \in Levels : \A x \in In(l) : x # head_ /\ x # Null
  BY InNodes, Zenon DEF IInv
<1>4. 0 \in Levels
  BY SkipListAssumption DEF Levels
<1>5. ASSUME NEW l \in Levels, r.x \in In(l), Stands(r.x, l, r.view)
      PROVE  Ready(r.x, l)'
  BY <1>1, <1>2, <1>3, <1>5, Zenon DEF Ready, Stands
<1>6. /\ r.sure \in 0..retired' /\ SeenUpTo(r.view, r.sure)'
      /\ r.key \in 0..NumKeys /\ (r.key # 0 => r.seq \in Int)
  BY <1>1, <1>2, Zenon DEF Knows
<1>7. r.pc = "find" => r.key # 0 /\
         (r.x # head_ => Ready(r.x, r.level)' /\ Precedes(r.x, r.key, r.seq)')
  BY <1>2, <1>5, Zenon DEF Knows, FindKnows
<1>8. ASSUME r.pc = "at"
      PROVE  /\ r.x # Null => Ready(r.x, 0)'
             /\ \A y \in 1..r.sure :
                   (r.key = 0 \/ ~Precedes(y, r.key, r.seq)') =>
                       y \in r.visited \/ (r.x # Null /\ Before(r.x, y)')
             /\ r.first \in Nodes' \cup {Null}
  BY <1>2, <1>4, <1>5, <1>8, Zenon DEF Knows, AtKnows
<1>9. r.pc = "at" => GetFindsNewest'
  <2>1. \A k, s : Versions(k, s)' = Versions(k, s)
    BY <1>1, <1>2, Zenon DEF Versions
  <2>2. r.pc = "at" => Finds(r)
    BY Zenon DEF Knows, AtKnows
  <2> QED
    BY <1>1, <2>1, <2>2, Zenon DEF Finds, GetFindsNewest
<1> QED
  BY <1>6, <1>7, <1>8, <1>9, Zenon DEF ReaderKnows

LEMMA SeekKnows ==
    ASSUME IInv, OInv, NEW k \in Keys, NEW s \in 0..last_sequence_,
           NEW h \in 1..kMaxHeight, Seek(k, s, h)
    PROVE  ReaderKnows'
<1> PICK r : r = reader'
  BY Zenon
<1>1. /\ UNCHANGED <<list, last_sequence_, writer, retired, unlocked>>
      /\ r = [NoReader EXCEPT
                      !.pc = "find", !.key = k, !.seq = s, !.x = head_,
                      !.level = h - 1, !.view = unlocked, !.sure = retired]
  BY Zenon DEF Seek
<1>2. /\ r.pc = "find" /\ r.key = k /\ r.seq = s /\ r.x = head_
      /\ r.level = h - 1 /\ r.view = unlocked /\ r.sure = retired
  BY <1>1 DEF NoReader
<1>3. h - 1 \in Levels /\ k \in 0..NumKeys /\ k # 0 /\ s \in Int
  BY SkipListAssumption DEF Levels, Keys, OInv, Counts
<1>4. retired \in 0..retired
  BY DEF OInv, Counts
<1>5. Knows(r)
  BY <1>2, <1>3, <1>4, Zenon DEF Knows, FindKnows, OInv, Known
<1> QED
  BY <1>1, <1>2, <1>3, <1>5, KnowsNext, Zenon

LEMMA FindStepKnows ==
    ASSUME IInv, OInv, FindStep
    PROVE  ReaderKnows'
<1> PICK r : r = reader'
  BY Zenon
<1> PICK x, l, w : x = reader.x /\ l = reader.level /\ w = reader.view
  BY Zenon
<1>1. reader.pc = "find"
      /\ UNCHANGED <<list, last_sequence_, writer, retired, unlocked>>
  BY Zenon DEF FindStep
<1>2. PICK m \in Readable(next[x][l], w) :
          r = [Turn(m.to) EXCEPT !.view = ViewAfter(w, m)]
  BY Zenon DEF FindStep
<1> PICK n : n = m.to
  OBVIOUS
<1> PICK v : v = ViewAfter(w, m)
  OBVIOUS
<1> PICK key, seq, sure : key = reader.key /\ seq = reader.seq /\ sure = reader.sure
  BY Zenon
<1>3. /\ x \in DOMAIN next /\ l \in DOMAIN next[x] /\ w \in Nat
      /\ x \in Nodes => node[x].at <= w
  BY <1>1, ReaderPlace, Zenon
<1>4. l \in Levels /\ Shape /\ x \in {head_} \cup Nodes /\ \A k \in 0..l : k \in DOMAIN next[x]
  BY <1>3, LevelsOf, Zenon DEF IInv
<1>5. v \in Nat /\ w <= v
  BY <1>3, LoadIsSafe, Zenon DEF IInv
<1>6. Knows(reader)
  BY <1>1, KnowsOf, Zenon DEF OInv
<1>7. /\ sure \in 0..retired /\ SeenUpTo(w, sure) /\ key \in 0..NumKeys /\ seq \in Int
      /\ key # 0
      /\ x # head_ => x \in In(l) /\ Stands(x, l, w) /\ Precedes(x, key, seq)
  BY <1>1, <1>6, Zenon DEF Knows, FindKnows
<1>8. Stands(x, l, w)
  BY <1>7, Zenon DEF Stands, Placed
<1>9. n # Null => Stands(n, l, v) /\ n \in In(l)
  BY <1>3, <1>4, <1>8, LoadPasses, Zenon DEF OInv
<1>10. SeenUpTo(v, sure)
  BY <1>3, <1>4, <1>5, <1>7, SeenUpToGrows, Zenon
<1>11. DOMAIN reader = {"pc", "key", "seq", "x", "level", "view", "sure",
                       "first", "visited"}
  BY Zenon DEF IInv, ReaderInv
<1>12. CASE KeyIsAfterNode(n)
  <2>1. n # Null /\ Precedes(n, key, seq)
    BY <1>12, Zenon DEF KeyIsAfterNode
  <2>2. r = [[reader EXCEPT !.x = n] EXCEPT !.view = v]
    BY <1>2, <1>12, Zenon DEF Turn
  <2>3. /\ r.pc = "find" /\ r.x = n /\ r.level = l /\ r.view = v
        /\ r.key = key /\ r.seq = seq /\ r.sure = sure
    BY <1>1, <1>11, <2>2
  <2>4. Knows(r)
    BY <1>7, <1>9, <1>10, <2>1, <2>3, Zenon DEF Knows, FindKnows
  <2> QED
    BY <1>1, <1>4, <2>3, <2>4, KnowsNext, Zenon
<1>13. CASE ~KeyIsAfterNode(n) /\ reader.level > 0
  <2>1. r = [[reader EXCEPT !.level = @ - 1] EXCEPT !.view = v]
    BY <1>2, <1>13, Zenon DEF Turn
  <2>2. /\ r.pc = "find" /\ r.x = x /\ r.level = l - 1 /\ r.view = v
        /\ r.key = key /\ r.seq = seq /\ r.sure = sure
    BY <1>1, <1>11, <2>1
  <2>3. l - 1 \in Levels /\ l - 1 \in 0..l /\ l \in Nat
    BY <1>4, <1>13, SkipListAssumption DEF Levels
  <2>4. ASSUME x # head_
        PROVE  x \in In(l - 1) /\ Stands(x, l - 1, v)
    <3>1. x \in In(l) /\ 2 \in DOMAIN next[x][l] /\ next[x][l][2].at <= w /\ x \in Nodes
      BY <1>4, <1>7, <2>4, Zenon DEF Stands
    <3>2. 2 \in DOMAIN next[x][l - 1] /\ next[x][l - 1][2].at <= next[x][l][2].at
      BY <1>3, <2>3, <3>1, Zenon DEF OInv, Upwards
    <3>3. next[x][l - 1][2].at \in Nat /\ next[x][l][2].at \in Nat
      BY <1>3, <1>4, <2>3, <3>1, <3>2, Locations, Zenon
    <3>4. next[x][l - 1][2].at <= v
      BY <1>3, <1>5, <3>1, <3>2, <3>3
    <3>5. node[x].height > l /\ (Writing /\ x = NewestNode => l < writer.level)
      BY <1>4, <3>1, InNodes, Zenon
    <3>6. node[x].height > l - 1 /\ (Writing /\ x = NewestNode => l - 1 < writer.level)
      <4>1. node[x].height \in Nat
        BY <1>4, <3>1, NodeTypes, Zenon DEF Shape
      <4>2. Writing => writer.level \in Nat
        BY WriterPlaces, Zenon DEF Writing
      <4> QED
        BY <2>3, <3>5, <4>1, <4>2
    <3>7. x \in In(l - 1)
      BY <1>4, <2>3, <3>1, <3>6, InNodes, Zenon
    <3> QED
      BY <3>2, <3>4, <3>7, Zenon DEF Stands, Placed
  <2>5. Knows(r)
    BY <1>7, <1>10, <2>2, <2>4, Zenon DEF Knows, FindKnows
  <2> QED
    BY <1>1, <2>2, <2>3, <2>5, KnowsNext, Zenon
<1>14. CASE ~KeyIsAfterNode(n) /\ ~(reader.level > 0)
  <2>1. r = [FoundAt(n) EXCEPT !.view = v]
    BY <1>2, <1>14, Zenon DEF Turn
  <2>2. /\ r.pc = "at" /\ r.x = n /\ r.view = v /\ r.first = n
        /\ r.visited = {n} \ {Null}
        /\ r.key = key /\ r.seq = seq /\ r.sure = sure
    BY <1>11, <2>1 DEF FoundAt, At
  <2>3. l = 0
    BY <1>4, <1>14 DEF Levels
  <2>4. ASSUME NEW y \in 1..sure, ~Precedes(y, key, seq)
        PROVE  n # Null /\ (n = y \/ Before(n, y))
    <3>1. y \in Nodes
      BY <1>7, SureIsIn, Zenon DEF OInv
    <3>2. key \in Int
      BY <1>7
    <3>3. Follows(y, x)
      BY <1>4, <1>7, <2>4, <3>1, <3>2, PrecedesCuts, Zenon DEF Follows
    <3>4. Stands(x, 0, w) /\ m \in Readable(next[x][0], w)
      BY <1>2, <1>8, <2>3, Zenon
    <3> QED
      BY <1>3, <1>7, <3>3, <3>4, LoadFinds, Zenon DEF OInv
  <2>5. n # Null => n \in Nodes /\ ~Precedes(n, key, seq)
    BY <1>4, <1>9, <1>14, InNodes, Zenon DEF KeyIsAfterNode
  <2>6. Finds(r)
    <3> DEFINE hit == n # Null /\ node[n].key = key
    <3>1. \A u \in Nodes : u \in Nat /\ node[u].key \in Int
      BY <1>4, KeysAreNumbers, Zenon
    <3>2. hit => n <= seq
      BY <1>7, <2>5, <3>1 DEF Precedes
    <3>3. ASSUME NEW u \in Versions(key, seq), u <= sure
          PROVE  hit /\ u <= n
      <4>1. u \in Nodes /\ node[u].key = key /\ u <= seq
        BY DEF Versions
      <4>2. u \in 1..sure /\ ~Precedes(u, key, seq)
        BY ONLY SMTT(30), <1>4, <1>7, <3>1, <3>3, <4>1, NodeTypes DEF Precedes, Shape
      <4>3. n # Null /\ (n = u \/ Before(n, u))
        BY Zenon, <2>4, <4>2
      <4> QED
        BY <1>7, <2>5, <3>1, <4>1, <4>3 DEF Before, Precedes
    <3> HIDE DEF hit
    <3>4. /\ hit => n <= seq
          /\ \A u \in Versions(key, seq) : u <= sure => hit /\ u <= n
      BY <3>2, <3>3, Zenon
    <3> QED
      BY <2>2, <3>4, Zenon DEF Finds, hit
  <2>7. AtKnows(r)
    <3>1. \A y \in 1..sure : (key = 0 \/ ~Precedes(y, key, seq)) =>
             y \in r.visited \/ (n # Null /\ Before(n, y))
      BY <1>7, <2>2, <2>4, Zenon
    <3> QED
      BY <1>9, <2>2, <2>3, <2>5, <2>6, <3>1, Zenon DEF AtKnows
  <2>8. Knows(r)
    BY <1>7, <1>10, <2>2, <2>7, Zenon DEF Knows
  <2> QED
    BY <1>1, <2>2, <2>8, KnowsNext, Zenon
<1> QED
  BY <1>12, <1>13, <1>14, Zenon

LEMMA SeekToFirstKnows ==
    ASSUME IInv, OInv, SeekToFirst
    PROVE  ReaderKnows'
<1> PICK r : r = reader'
  BY Zenon
<1>1. UNCHANGED <<list, last_sequence_, writer, retired, unlocked>>
  BY Zenon DEF SeekToFirst
<1>2. PICK m \in Readable(next[head_][0], unlocked) :
          r = [FoundAt(m.to) EXCEPT !.key = 0, !.sure = retired,
                                    !.view = ViewAfter(unlocked, m)]
  BY Zenon DEF SeekToFirst
<1> PICK n : n = m.to
  OBVIOUS
<1> PICK v : v = ViewAfter(unlocked, m)
  OBVIOUS
<1>3. 0 \in Levels /\ Shape /\ unlocked \in Nat /\ retired \in 0..retired
  BY SkipListAssumption DEF Levels, IInv, Shape, OInv, Counts
<1>4. Stands(head_, 0, unlocked)
  BY DEF Stands, Placed
<1>5. SeenUpTo(unlocked, retired)
  BY DEF OInv, Known
<1>6. n # Null => Stands(n, 0, v) /\ n \in In(0)
  BY <1>3, <1>4, LoadPasses, Zenon DEF OInv
<1>7. head_ \in DOMAIN next /\ 0 \in DOMAIN next[head_] /\ head_ \notin Nodes
  <2>1. head_ \in Placed(0)
    BY DEF Placed
  <2> QED
    BY <1>3, <2>1, PlacedAt, KeysAreNumbers, Zenon
<1>8. v \in Nat /\ unlocked <= v
  BY <1>3, <1>7, LoadIsSafe, Zenon DEF IInv
<1>9. DOMAIN reader = {"pc", "key", "seq", "x", "level", "view", "sure",
                       "first", "visited"}
  BY Zenon DEF IInv, ReaderInv
<1>10. /\ r.pc = "at" /\ r.x = n /\ r.view = v /\ r.first = n
       /\ r.visited = {n} \ {Null}
       /\ r.key = 0 /\ r.sure = retired /\ r.seq = reader.seq
  BY <1>2, <1>9 DEF FoundAt, At
<1>11. \A y \in 1..retired : n # Null /\ (n = y \/ Before(n, y))
  BY <1>3, <1>4, <1>5, LoadFinds, Zenon DEF OInv, Follows
<1>12. SeenUpTo(v, retired)
  BY <1>3, <1>5, <1>8, SeenUpToGrows, Zenon
<1>13. AtKnows(r)
  <2>1. n \in Nodes \cup {Null}
    BY <1>3, <1>6, InNodes, Zenon
  <2>2. \A y \in 1..retired : y \in r.visited \/ (n # Null /\ Before(n, y))
    BY <1>10, <1>11, Zenon
  <2> QED
    BY <1>6, <1>10, <2>1, <2>2, Zenon DEF AtKnows, Finds
<1>14. 0 \in 0..NumKeys
  BY SkipListAssumption
<1>15. Knows(r)
  BY <1>3, <1>10, <1>12, <1>13, <1>14, Zenon DEF Knows
<1> QED
  BY <1>1, <1>10, <1>15, KnowsNext, Zenon

LEMMA NextEntryKnows ==
    ASSUME IInv, OInv, NextEntry
    PROVE  ReaderKnows'
<1> PICK r : r = reader'
  BY Zenon
<1> PICK x, w : x = reader.x /\ w = reader.view
  BY Zenon
<1>1. reader.pc = "at" /\ x # Null
      /\ UNCHANGED <<list, last_sequence_, writer, retired, unlocked>>
  BY Zenon DEF NextEntry
<1>2. PICK m \in Readable(next[x][0], w) :
          r = [At(m.to) EXCEPT !.view = ViewAfter(w, m),
                               !.visited = @ \cup ({m.to} \ {Null})]
  BY Zenon DEF NextEntry, StepLevel
<1> PICK n : n = m.to
  OBVIOUS
<1> PICK v : v = ViewAfter(w, m)
  OBVIOUS
<1>3. /\ x \in DOMAIN next /\ 0 \in DOMAIN next[x] /\ w \in Nat
      /\ x \in Nodes => node[x].at <= w
  BY <1>1, ReaderPlace
<1>4. 0 \in Levels /\ Shape
  BY <1>3, LevelsOf, Zenon DEF IInv
<1>5. v \in Nat /\ w <= v
  BY <1>3, LoadIsSafe, Zenon DEF IInv
<1>6. Knows(reader)
  BY <1>1, KnowsOf, Zenon DEF OInv
<1>7. /\ reader.sure \in 0..retired /\ SeenUpTo(w, reader.sure)
      /\ AtKnows(reader) /\ Stands(x, 0, w)
  BY <1>1, <1>6, Zenon DEF Knows, AtKnows
<1>8. n # Null => Stands(n, 0, v) /\ n \in In(0)
  BY <1>3, <1>4, <1>7, LoadPasses, Zenon DEF OInv
<1>9. SeenUpTo(v, reader.sure)
  BY <1>3, <1>4, <1>5, <1>7, SeenUpToGrows, Zenon
<1>10. DOMAIN reader = {"pc", "key", "seq", "x", "level", "view", "sure",
                       "first", "visited"}
  BY Zenon DEF IInv, ReaderInv
<1>11. /\ r.pc = "at" /\ r.x = n /\ r.view = v /\ r.first = reader.first
       /\ r.visited = reader.visited \cup ({n} \ {Null})
       /\ r.key = reader.key /\ r.sure = reader.sure /\ r.seq = reader.seq
  BY <1>1, <1>2, <1>10 DEF At
<1>12. \A y \in 1..reader.sure : x # head_ /\ Before(x, y) => n # Null /\ (n = y \/ Before(n, y))
  BY <1>3, <1>7, LoadFinds, Zenon DEF OInv, Follows
<1>13. x # head_
  BY <1>1, Zenon DEF IInv, ReaderInv
<1>14. \A y \in 1..reader.sure : (reader.key = 0 \/ ~Precedes(y, reader.key, reader.seq)) =>
          y \in r.visited \/ (n # Null /\ Before(n, y))
  BY <1>7, <1>11, <1>12, <1>13, Zenon DEF AtKnows
<1>15. AtKnows(r)
  BY <1>7, <1>8, <1>11, <1>14, Zenon DEF AtKnows, Finds
<1>16. Knows(r)
  BY <1>6, <1>9, <1>11, <1>15, Zenon DEF Knows
<1> QED
  BY <1>1, <1>11, <1>16, KnowsNext, Zenon

-----------------------------------------------------------------------------
(* A store *)

\* The store of to in x on level l, as a relation of two states of next.
Adds(x, l, to, release) ==
    /\ time' = time + 1 /\ node' = node /\ Nodes' = Nodes
    /\ DOMAIN next' = DOMAIN next
    /\ \A y \in DOMAIN next : DOMAIN next'[y] = DOMAIN next[y]
    /\ \A y \in DOMAIN next : \A k \in DOMAIN next[y] :
          ~(y = x /\ k = l) => next'[y][k] = next[y][k]
    /\ Len(next'[x][l]) = Len(next[x][l]) + 1
    /\ DOMAIN next'[x][l] = DOMAIN next[x][l] \cup {Len(next[x][l]) + 1}
    /\ \A i \in DOMAIN next[x][l] : next'[x][l][i] = next[x][l][i]
    /\ next'[x][l][Len(next[x][l]) + 1] = Store(to, time + 1, release)
    /\ Newest(next'[x][l]) = Store(to, time + 1, release)

LEMMA Stored ==
    ASSUME Shape, NEW x \in DOMAIN next, NEW l \in DOMAIN next[x], NEW to \in Int,
           NEW release \in BOOLEAN, StoreAt(x, l, to, release), node' = node
    PROVE  Adds(x, l, to, release)
<1> DEFINE m == Store(to, time + 1, release)
<1>1. m \in StoreRecord
  BY DEF Store, StoreRecord, Shape
<1>2. time' = time + 1 /\ node' = node /\ Nodes' = Nodes
  BY DEF StoreAt, Nodes
<1>3. /\ DOMAIN next' = DOMAIN next
      /\ \A y \in DOMAIN next : DOMAIN next'[y] = DOMAIN next[y]
      /\ next'[x][l] = Append(next[x][l], m)
      /\ \A y \in DOMAIN next : \A k \in DOMAIN next[y] :
            ~(y = x /\ k = l) => next'[y][k] = next[y][k]
  BY DEF StoreAt
<1>4. next[x][l] \in Seq(StoreRecord)
  BY Zenon DEF Shape
<1> HIDE DEF m
<1> PICK q, p : q = next[x][l] /\ p = next'[x][l]
  BY Zenon
<1>5. q \in Seq(StoreRecord) /\ p = Append(q, m)
  BY <1>3, <1>4
<1>6. /\ Len(p) = Len(q) + 1 /\ DOMAIN p = DOMAIN q \cup {Len(q) + 1}
      /\ p[Len(q) + 1] = m
  BY <1>1, <1>5
<1>7. \A i \in DOMAIN q : p[i] = q[i]
  BY <1>1, <1>5, AppendedSeq
<1>8. Newest(p) = m
  BY <1>6 DEF Newest
<1> QED
  BY <1>2, <1>3, <1>6, <1>7, <1>8, Zenon DEF Adds, m

\* Every store was there before or is the new one.
AddsOnly(x, l, to, release) ==
    \A y \in DOMAIN next : \A k \in DOMAIN next[y] : \A i \in DOMAIN next'[y][k] :
        \/ i \in DOMAIN next[y][k] /\ next'[y][k][i] = next[y][k][i]
        \/ /\ y = x /\ k = l /\ i = Len(next[x][l]) + 1
           /\ next'[y][k][i] = Store(to, time + 1, release)

LEMMA AddsKept ==
    ASSUME Shape, NEW x \in DOMAIN next, NEW l \in DOMAIN next[x], NEW to, NEW release,
           Adds(x, l, to, release)
    PROVE  Kept /\ AddsOnly(x, l, to, release)
<1>1. ASSUME NEW y \in DOMAIN next, NEW k \in DOMAIN next[y]
      PROVE  /\ \A i \in DOMAIN next[y][k] : i \in DOMAIN next'[y][k] /\ next'[y][k][i] = next[y][k][i]
             /\ \A i \in DOMAIN next'[y][k] :
                 \/ i \in DOMAIN next[y][k] /\ next'[y][k][i] = next[y][k][i]
                 \/ /\ y = x /\ k = l /\ i = Len(next[x][l]) + 1
                    /\ next'[y][k][i] = Store(to, time + 1, release)
  <2>1. CASE y = x /\ k = l
    BY <2>1, Zenon DEF Adds
  <2>2. CASE ~(y = x /\ k = l)
    BY <2>2, Zenon DEF Adds
  <2> QED
    BY <2>1, <2>2, Zenon
<1> QED
  BY <1>1, Zenon DEF Kept, Adds, AddsOnly

\* Only a release-store makes anything known.
Tells(l, to, release, v, y, k) == release /\ y = to /\ k = l /\ time + 1 <= v

LEMMA AddsSeen ==
    ASSUME Shape, NEW x \in DOMAIN next, NEW l \in DOMAIN next[x], NEW to, NEW release,
           Adds(x, l, to, release), NEW v, NEW y, NEW k, Seen(v, y, k)'
    PROVE  Seen(v, y, k) \/ Tells(l, to, release, v, y, k)
<1>1. PICK z \in DOMAIN next' : k \in DOMAIN next'[z] /\ \E i \in DOMAIN next'[z][k] :
         next'[z][k][i].to = y /\ next'[z][k][i].release /\ next'[z][k][i].at <= v
  BY Zenon DEF Seen
<1>2. PICK i \in DOMAIN next'[z][k] :
         next'[z][k][i].to = y /\ next'[z][k][i].release /\ next'[z][k][i].at <= v
  BY <1>1, Zenon
<1>3. z \in DOMAIN next /\ k \in DOMAIN next[z]
  BY <1>1, Zenon DEF Adds
<1>4. \/ i \in DOMAIN next[z][k] /\ next'[z][k][i] = next[z][k][i]
      \/ k = l /\ next'[z][k][i] = Store(to, time + 1, release)
  <2>1. AddsOnly(x, l, to, release)
    BY AddsKept, Zenon
  <2> QED
    BY <1>2, <1>3, <2>1, Zenon DEF AddsOnly
<1>5. CASE i \in DOMAIN next[z][k] /\ next'[z][k][i] = next[z][k][i]
  BY <1>2, <1>3, <1>5, Zenon DEF Seen
<1>6. CASE k = l /\ next'[z][k][i] = Store(to, time + 1, release)
  <2>1. PICK m : m = next'[z][k][i]
    BY Zenon
  <2>2. m.to = to /\ m.release = release /\ m.at = time + 1
    BY <1>6, <2>1 DEF Store
  <2> QED
    BY <1>2, <1>6, <2>1, <2>2, Zenon DEF Tells
<1> QED
  BY <1>4, <1>5, <1>6, Zenon

\* What is known stays known as time goes on.
LEMMA KeptKnown ==
    ASSUME Shape, Shape', Kept, time <= time', NEW y, NEW l, Seen(time, y, l)
    PROVE  Seen(time, y, l)'
<1> PICK v, w : v = time /\ w = time'
  BY Zenon
<1>1. v \in Nat /\ w \in Nat /\ v <= w
  BY Zenon DEF Shape
<1>2. Seen(v, y, l)
  BY Zenon
<1>3. Seen(w, y, l)
  BY <1>1, <1>2, SeenGrows, Zenon
<1>4. Seen(w, y, l)'
  BY <1>3, KeptSeen, Zenon
<1> QED
  BY <1>4, Zenon DEF Seen

-----------------------------------------------------------------------------
(* Groups *)

LEMMA GroupOrder ==
    ASSUME IInv, OInv, IInv', (\E n \in 1..MaxGroup : StartGroup(n)) \/ Retire
    PROVE  OInv'
<1>1. UNCHANGED list /\ UNCHANGED reader /\ unlocked' = time
  BY Zenon DEF StartGroup, Retire
<1>2. node' = node /\ next' = next /\ time' = time /\ size_' = size_ /\ max_height_' = max_height_
  BY <1>1, Zenon DEF list
<1>3. /\ Nodes' = Nodes /\ \A v, n : SeenUpTo(v, n)' <=> SeenUpTo(v, n)
  BY <1>2, SameOrder, Zenon
<1>4. PICK n : \/ n \in 1..MaxGroup /\ StartGroup(n)
               \/ Retire
  BY Zenon
<1>5. /\ Len(node) \in Nat /\ Nodes = 1..Len(node) /\ time \in Nat /\ unlocked \in Nat /\ Shape
  BY NodeTypes DEF IInv, Shape
<1>6. /\ writer.pc \in {"idle", "retire"} /\ ~Writing /\ ~Writing'
      /\ last_sequence_ = Len(node) /\ size_ = Len(node)
      /\ retired \in Nat /\ retired <= size_ /\ unlocked <= time
      /\ SeenUpTo(unlocked, retired)
      /\ \A l \in Levels : \A y \in In(l) : Seen(time, y, l)
  <2>1. writer.pc \in {"idle", "retire"}
    BY <1>4, Zenon DEF StartGroup, Retire
  <2>2. ~Writing
    BY <2>1 DEF Writing
  <2>3. last_sequence_ = Len(node) /\ size_ = Len(node)
    BY <1>5, <2>1, <2>2 DEF OInv, Counts
  <2>4. ~Writing'
    <3>1. CASE n \in 1..MaxGroup /\ StartGroup(n)
      BY <3>1, Zenon DEF StartGroup, NoWriter, Writing
    <3>2. CASE Retire
      BY <3>2 DEF Retire, NoWriter, Writing
    <3> QED
      BY <1>4, <3>1, <3>2
  <2> QED
    BY <2>1, <2>2, <2>3, <2>4, Zenon DEF OInv, Counts, Known
<1>7. /\ Pointers' /\ Upwards' /\ Chain' /\ Place' /\ Stale'
      /\ \A l \in Levels : \A y \in In(l)' : Seen(time, y, l)'
  BY <1>1, <1>6, SameList, Zenon
<1>8. /\ retired' \in Nat /\ retired <= retired' /\ retired' <= Len(node)
      /\ SeenUpTo(time, retired')
  <2>1. CASE UNCHANGED retired
    BY <1>5, <1>6, <2>1, SeenUpToGrows
  <2>2. CASE retired' = last_sequence_
    <3>1. SeenUpTo(time, Len(node))
      <4> SUFFICES ASSUME NEW y \in Nodes, NEW l \in 0..(node[y].height - 1)
                   PROVE  Seen(time, y, l)
        BY <1>5, Zenon DEF SeenUpTo
      <4>1. l \in Levels /\ node[y].height > l
        BY ONLY SMTT(30), <1>5, NodeTypes, SkipListAssumption DEF Shape, Levels
      <4>2. y \in In(l)
        BY <1>5, <1>6, <4>1, InNodes, Zenon
      <4> QED
        BY <1>6, <4>1, <4>2, Zenon
    <3> QED
      BY <1>5, <1>6, <2>2, <3>1
  <2> QED
    BY <1>4, <2>1, <2>2, Zenon DEF StartGroup, Retire
<1>9. Known'
  BY <1>1, <1>3, <1>7, <1>8, Zenon DEF Known
<1>10. Counts'
  <2>1. /\ max_height_' \in Seq([to : 1..kMaxHeight, at : Nat]) \ {<<>>}
        /\ \A x \in Nodes' : node'[x].height <= Height'
    BY <1>2, <1>3, Zenon DEF OInv, Counts, Height
  <2>2. /\ writer'.pc \in {"idle", "insert", "link", "publish", "retire"}
        /\ writer'.left \in Nat /\ last_sequence_' \in Nat
        /\ writer'.pc \in {"insert", "link", "publish"} => writer'.left > 0
        /\ last_sequence_' = Len(node) + (IF writer'.pc = "insert" THEN writer'.left ELSE 0)
    <3>1. CASE n \in 1..MaxGroup /\ StartGroup(n)
      <4>1. writer' = [NoWriter EXCEPT !.pc = "insert", !.left = n]
            /\ last_sequence_' = last_sequence_ + n
        BY <3>1, Zenon DEF StartGroup
      <4>2. writer'.pc = "insert" /\ writer'.left = n
        BY <4>1 DEF NoWriter
      <4>3. n \in Nat /\ n > 0
        BY <3>1, SkipListAssumption
      <4> QED
        BY <1>5, <1>6, <4>1, <4>2, <4>3
    <3>2. CASE Retire
      BY <1>5, <1>6, <3>2 DEF Retire, NoWriter
    <3> QED
      BY <1>4, <3>1, <3>2
  <2>3. /\ size_' = Len(node') - IF Writing' THEN 1 ELSE 0
        /\ retired' <= size_' /\ unlocked' <= time'
        /\ last_sequence_' = Len(node') + (IF writer'.pc = "insert" THEN writer'.left
                                     ELSE IF Writing' THEN writer'.left - 1 ELSE 0)
    BY <1>1, <1>2, <1>5, <1>6, <1>8, <2>2
  <2> QED
    BY <1>8, <2>1, <2>2, <2>3, Zenon DEF Counts
<1>11. ReaderKnows'
  <2>1. \A l \in Levels : In(l) \subseteq In(l)'
    BY <1>2, <1>6, SamePlaces, Zenon
  <2> QED
    BY <1>1, <1>8, <2>1, KeptList, ReaderKept, Zenon DEF OInv
<1> QED
  BY <1>7, <1>9, <1>10, <1>11, Zenon DEF OInv

-----------------------------------------------------------------------------
(* Linking *)

\* p is where n belongs on level l.
Fits(n, p, l) ==
    /\ p \in Placed(l) /\ Follows(n, p)
    /\ \A y \in In(l) : ~(Follows(y, p) /\ Before(y, n))

LEMMA WriterAt ==
    ASSUME IInv, Place, Writing, NEW n, n = NewestNode, NEW p, p = Splice,
           NEW l, l = writer.level
    PROVE  /\ l \in Levels /\ n \in Nodes /\ n # head_ /\ n # Null /\ n \in Int
           /\ n \notin In(l) /\ p # n /\ Fits(n, p, l)
           /\ n \in DOMAIN next /\ l \in DOMAIN next[n]
           /\ p \in DOMAIN next /\ l \in DOMAIN next[p]
           /\ Len(next[n][l]) = IF writer.pc = "publish" THEN 2 ELSE 1
           /\ node[n].height > l /\ l \in Nat /\ node[n].height \in Nat
<1>1. /\ n \in Nodes /\ n \in DOMAIN next /\ l \in Nat /\ l < node[n].height
      /\ l \in DOMAIN next[n] /\ p \in DOMAIN next /\ l \in DOMAIN next[p]
      /\ node[n].height \in Nat /\ n \in Int /\ n # Null
  BY WriterPlaces, Zenon DEF Writing
<1>2. l \in Levels /\ Shape
  BY <1>1, LevelsOf, Zenon DEF IInv
<1>3. n # head_
  BY <1>1, <1>2, KeysAreNumbers, Zenon
<1>4. ~(l < l)
  BY <1>1
<1>5. n \notin In(l)
  BY <1>2, <1>4, InNodes, Zenon
<1>6. l \in writer.level..(node[NewestNode].height - 1)
  BY <1>1
<1>7. Fits(n, p, l) /\ Len(next[n][l]) = IF writer.pc = "publish" THEN 2 ELSE 1
  BY <1>6, Zenon DEF Place, Fits, Splice
<1>8. p # n
  BY <1>3, <1>5, <1>7, Zenon DEF Fits, Placed
<1>9. node[n].height > l
  BY <1>1
<1> QED
  BY <1>1, <1>2, <1>3, <1>5, <1>7, <1>8, <1>9, Zenon

\* The newest pointer of a place.
LEMMA NewestStore ==
    ASSUME Shape, NEW x \in DOMAIN next, NEW l \in DOMAIN next[x]
    PROVE  /\ Len(next[x][l]) \in DOMAIN next[x][l]
           /\ Newest(next[x][l]) = next[x][l][Len(next[x][l])]
           /\ Newest(next[x][l]).to \in Int
<1>1. Len(next[x][l]) \in DOMAIN next[x][l]
  BY Locations
<1> QED
  BY <1>1, Locations, Zenon DEF Newest

\* The order is a matter of the nodes.
LEMMA NodeOrder ==
    ASSUME node' = node
    PROVE  /\ Nodes' = Nodes /\ NewestNode' = NewestNode
           /\ \A x, y : Before(x, y)' <=> Before(x, y)
           /\ \A x, y : Follows(y, x)' <=> Follows(y, x)
           /\ \A x, m, y : Skips(x, m, y)' <=> Skips(x, m, y)
           /\ \A l : Linked(l)' = Linked(l)
<1>1. Nodes' = Nodes /\ NewestNode' = NewestNode
  BY Zenon DEF Nodes, NewestNode
<1>2. \A x, y : Before(x, y)' <=> Before(x, y)
  BY Zenon DEF Before, Precedes
<1>3. \A x, y : Follows(y, x)' <=> Follows(y, x)
  BY <1>2, Zenon DEF Follows
<1>4. \A x, m, y : Skips(x, m, y)' <=> Skips(x, m, y)
  BY <1>2, <1>3, Zenon DEF Skips
<1>5. \A l : Linked(l)' = Linked(l)
  BY <1>1, Zenon DEF Linked
<1> QED
  BY <1>1, <1>2, <1>3, <1>4, <1>5

\* What was seen when mu_ was last released stays seen.
LEMMA UnlockedKept ==
    ASSUME Shape, Counts, Known, Kept, unlocked' = unlocked, retired' = retired
    PROVE  SeenUpTo(unlocked, retired)'
<1> PICK v, n : v = unlocked /\ n = retired
  BY Zenon
<1>1. n \in Nat /\ n <= Len(node) /\ SeenUpTo(v, n)
  BY SureAreNodes, Zenon DEF Known
<1>2. SeenUpTo(v, n)'
  BY <1>1, KeptSeenUpTo, Zenon
<1> QED
  BY <1>2, Zenon DEF SeenUpTo, Seen

LEMMA LinkOrder == ASSUME IInv, OInv, IInv', LinkNode PROVE OInv'
<1> PICK n, p, l : n = NewestNode /\ p = Splice /\ l = writer.level
  BY Zenon
<1> PICK to : to = Newest(next[p][l]).to
  BY Zenon
<1>1. /\ writer.pc = "link" /\ Writing
      /\ StoreAt(n, l, to, FALSE) /\ node' = node
      /\ writer' = [writer EXCEPT !.pc = "publish"]
      /\ UNCHANGED <<max_height_, size_, last_sequence_, retired, unlocked, reader>>
  BY Zenon DEF LinkNode, NoBarrierSetNext, Writing
<1>2. /\ l \in Levels /\ n \in Nodes /\ n # head_ /\ n # Null /\ n \in Int
      /\ n \notin In(l) /\ p # n /\ Fits(n, p, l)
      /\ n \in DOMAIN next /\ l \in DOMAIN next[n]
      /\ p \in DOMAIN next /\ l \in DOMAIN next[p]
      /\ Len(next[n][l]) = 1 /\ node[n].height > l /\ l \in Nat /\ Shape
  BY <1>1, WriterAt DEF OInv, IInv
<1>3. /\ Len(next[p][l]) \in DOMAIN next[p][l]
      /\ Newest(next[p][l]) = next[p][l][Len(next[p][l])] /\ to \in Int
  BY <1>2, NewestStore, Zenon
<1>4. Adds(n, l, to, FALSE)
  BY <1>1, <1>2, <1>3, Stored, Zenon
<1>5. Kept /\ AddsOnly(n, l, to, FALSE)
  BY <1>2, <1>4, AddsKept, Zenon
<1>6. /\ writer'.pc = "publish" /\ writer'.level = writer.level
      /\ writer'.prev = writer.prev /\ writer'.left = writer.left
      /\ Writing' /\ Splice' = Splice
  <2>1. DOMAIN writer = {"pc", "prev", "level", "left"}
    BY Zenon DEF IInv, WriterInv
  <2>2. /\ writer'.pc = "publish" /\ writer'.level = writer.level
        /\ writer'.prev = writer.prev /\ writer'.left = writer.left
    BY <1>1, <2>1
  <2> QED
    BY <2>2, Zenon DEF Writing, Splice
<1>7. /\ Nodes' = Nodes /\ NewestNode' = NewestNode
      /\ \A x, y : Before(x, y)' <=> Before(x, y)
      /\ \A x, y : Follows(y, x)' <=> Follows(y, x)
      /\ \A x, m, y : Skips(x, m, y)' <=> Skips(x, m, y)
  BY <1>1, NodeOrder, Zenon
<1>8. \A k : In(k)' = In(k) /\ Placed(k)' = Placed(k)
  <2>1. \A k : Linked(k)' = Linked(k)
    BY <1>1, NodeOrder, Zenon
  <2> QED
    BY <1>1, <1>6, <1>7, <2>1, Zenon DEF In, Placed
<1>9. \A k \in Levels : \A x \in Placed(k) :
         x \in DOMAIN next /\ k \in DOMAIN next[x] /\ next'[x][k] = next[x][k]
  <2> SUFFICES ASSUME NEW k \in Levels, NEW x \in Placed(k)
               PROVE  x \in DOMAIN next /\ k \in DOMAIN next[x] /\ next'[x][k] = next[x][k]
    BY Zenon
  <2>1. x \in DOMAIN next /\ k \in DOMAIN next[x]
    BY <1>2, PlacedAt, Zenon
  <2>2. ~(x = n /\ k = l)
    BY <1>2, Zenon DEF Placed
  <2> QED
    BY <1>4, <2>1, <2>2, Zenon DEF Adds
<1>10. \A v, y, k : Seen(v, y, k)' => Seen(v, y, k)
  <2> SUFFICES ASSUME NEW v, NEW y, NEW k, Seen(v, y, k)'
               PROVE  Seen(v, y, k)
    BY Zenon
  <2>1. Seen(v, y, k) \/ Tells(l, to, FALSE, v, y, k)
    BY <1>2, <1>4, AddsSeen, Zenon
  <2> QED
    BY <2>1, Zenon DEF Tells
<1>11. time' = time + 1 /\ time \in Nat
  BY Zenon, <1>2, <1>4 DEF Adds, Shape
<1>12. GoodPointer(p, l, Len(next[p][l]), Newest(next[p][l]))
  BY <1>2, <1>3, Zenon DEF OInv, Pointers
<1>13. Pointers'
  <2>1. ASSUME NEW x \in DOMAIN next, NEW k \in DOMAIN next[x], NEW i \in DOMAIN next[x][k],
               NEW m, m = next[x][k][i]
        PROVE  GoodPointer(x, k, i, m)'
    <3>1. GoodPointer(x, k, i, m)
      BY <2>1, Zenon DEF OInv, Pointers
    <3>2. k \in Levels /\ m.at \in Nat
      BY <1>2, <2>1, LevelsOf, Locations, Zenon
    <3>3. m.at <= time'
      BY <1>11, <3>1, <3>2 DEF GoodPointer
    <3>4. ASSUME m.to # Null
          PROVE  /\ m.to \in In(k)' /\ Follows(m.to, x)'
                 /\ 2 \in DOMAIN next'[m.to][k] /\ next'[m.to][k][2].at <= m.at
                 /\ ~m.release => i = 2 /\ x # head_
      <4>1. /\ m.to \in In(k) /\ Follows(m.to, x)
            /\ 2 \in DOMAIN next[m.to][k] /\ next[m.to][k][2].at <= m.at
            /\ ~m.release => i = 2 /\ x # head_
        BY <3>1, <3>4, Zenon DEF GoodPointer
      <4>2. next'[m.to][k] = next[m.to][k]
        BY <1>9, <3>2, <4>1, Zenon DEF Placed
      <4> QED
        BY <1>7, <1>8, <4>1, <4>2, Zenon
    <3> QED
      BY <3>3, <3>4, Zenon DEF GoodPointer
  <2>2. ASSUME NEW m, m = Store(to, time + 1, FALSE)
        PROVE  GoodPointer(n, l, 2, m)'
    <3>1. m.to = to /\ m.at = time + 1
      BY <2>2 DEF Store
    <3>2. ASSUME to # Null
          PROVE  /\ to \in In(l) /\ Follows(to, n)
                 /\ 2 \in DOMAIN next[to][l] /\ next[to][l][2].at <= time + 1
      <4>1. /\ to \in In(l) /\ Follows(to, p) /\ 2 \in DOMAIN next[to][l]
            /\ next[to][l][2].at <= Newest(next[p][l]).at /\ Newest(next[p][l]).at <= time
        BY <1>12, <3>2, Zenon DEF GoodPointer
      <4>2. to \in Nodes /\ to # n
        BY <1>2, <4>1, InNodes, Zenon
      <4>3. ~Before(to, n)
        BY <1>2, <4>1, Zenon DEF Fits
      <4>4. Before(n, to)
        BY <1>2, <4>2, <4>3, BeforeOrders, Zenon
      <4>5. next[to][l][2].at \in Nat /\ Newest(next[p][l]).at \in Nat
        <5>1. to \in DOMAIN next /\ l \in DOMAIN next[to]
          BY <1>2, <4>1, PlacedAt, Zenon DEF Placed
        <5>2. next[to][l][2].at \in Nat
          BY <1>2, <4>1, <5>1, Locations, Zenon
        <5>3. Newest(next[p][l]).at \in Nat
          <6>1. next[p][l][Len(next[p][l])].at \in Nat
            BY <1>2, <1>3, Locations, Zenon
          <6> QED
            BY <1>3, <6>1, Zenon
        <5> QED
          BY <5>2, <5>3, Zenon
      <4>6. next[to][l][2].at <= time + 1
        <5>1. PICK a, b : a = next[to][l][2].at /\ b = Newest(next[p][l]).at
          BY Zenon
        <5>2. a <= b /\ b <= time /\ a \in Nat /\ b \in Nat
          BY <4>1, <4>5, <5>1, Zenon
        <5>3. a <= time + 1
          BY <1>11, <5>2
        <5> QED
          BY <5>1, <5>3, Zenon
      <4> QED
        BY <4>1, <4>4, <4>6, Zenon DEF Follows
    <3>3. to # Null => next'[to][l] = next[to][l]
      BY <1>2, <1>9, <3>2, Zenon DEF Placed
    <3>4. time + 1 <= time'
      BY <1>11
    <3> QED
      BY <1>2, <1>7, <1>8, <3>1, <3>2, <3>3, <3>4, Zenon DEF GoodPointer
  <2>3. Len(next[n][l]) + 1 = 2
    BY <1>2
  <2>4. ASSUME NEW x \in DOMAIN next', NEW k \in DOMAIN next'[x], NEW i \in DOMAIN next'[x][k],
               NEW m, m = next'[x][k][i]
        PROVE  GoodPointer(x, k, i, m)'
    <3>1. x \in DOMAIN next /\ k \in DOMAIN next[x]
      BY <1>4, Zenon DEF Adds
    <3>2. \/ i \in DOMAIN next[x][k] /\ m = next[x][k][i]
          \/ x = n /\ k = l /\ i = 2 /\ m = Store(to, time + 1, FALSE)
      BY <1>5, <2>3, <2>4, <3>1, Zenon DEF AddsOnly
    <3> QED
      BY <2>1, <2>2, <3>1, <3>2, Zenon
  <2> QED
    BY <2>4, Zenon DEF Pointers
<1>14. Upwards'
  <2>1. ASSUME NEW x \in Nodes, NEW k \in DOMAIN next[x], x # n \/ k # l
        PROVE  /\ x \in In(k) => 2 \in DOMAIN next'[x][k]
               /\ 2 \in DOMAIN next'[x][k] =>
                    \A j \in 0..k : 2 \in DOMAIN next'[x][j] /\ next'[x][j][2].at <= next'[x][k][2].at
    <3>1. x \in DOMAIN next /\ next'[x][k] = next[x][k] /\ k \in Levels
          /\ \A j \in 0..k : j \in DOMAIN next[x]
      <4>1. x \in DOMAIN next
        BY <1>2, Zenon DEF Shape
      <4> QED
        BY <1>2, <1>4, <2>1, <4>1, LevelsOf, ZenonT(40) DEF Adds
    <3>2. /\ x \in In(k) => 2 \in DOMAIN next[x][k]
          /\ 2 \in DOMAIN next[x][k] =>
               \A j \in 0..k : 2 \in DOMAIN next[x][j] /\ next[x][j][2].at <= next[x][k][2].at
      BY Zenon DEF OInv, Upwards
    <3>3. \A j \in 0..k : 2 \in DOMAIN next[x][j] => 2 \in DOMAIN next'[x][j] /\ next'[x][j][2] = next[x][j][2]
      BY <1>5, <3>1, Zenon DEF Kept
    <3> QED
      BY <3>1, <3>2, <3>3, Zenon
  <2>2. \A j \in 0..l : 2 \in DOMAIN next'[n][j] /\ next'[n][j][2].at <= next'[n][l][2].at
    <3> SUFFICES ASSUME NEW j \in 0..l
                 PROVE  2 \in DOMAIN next'[n][j] /\ next'[n][j][2].at <= next'[n][l][2].at
      OBVIOUS
    <3>1. next'[n][l][2] = Store(to, time + 1, FALSE) /\ 2 \in DOMAIN next'[n][l]
      <4>1. Len(next[n][l]) + 1 = 2
        BY <1>2
      <4> QED
        BY <1>4, <4>1, Zenon DEF Adds
    <3>2. PICK m : m = next'[n][l][2]
      BY Zenon
    <3>3. m.at = time + 1
      BY ONLY SMTT(30), <3>1, <3>2 DEF Store
    <3>4. CASE j = l
      <4>1. m.at <= m.at
        BY <1>11, <3>3
      <4> QED
        BY <3>1, <3>2, <3>4, <4>1, Zenon
    <3>5. CASE j # l
      <4>1. j \in Levels /\ j < l /\ node[n].height > j /\ j \in DOMAIN next[n]
        <5>1. j \in Levels /\ j < l
          BY <1>2, <3>5, SkipListAssumption DEF Levels
        <5>2. node[n].height \in Nat
          BY Zenon, <1>2, NodeTypes DEF Shape
        <5> QED
          BY ONLY SMTT(30), <1>2, <5>1, <5>2, LevelsOf
      <4>2. n \in In(j)
        BY <1>2, <4>1, InNodes, Zenon
      <4>3. 2 \in DOMAIN next[n][j]
        BY <1>2, <4>1, <4>2, Zenon DEF OInv, Upwards
      <4>4. next'[n][j] = next[n][j]
        BY <1>2, <1>4, <3>5, <4>1, Zenon DEF Adds
      <4>5. next[n][j][2].at <= time /\ next[n][j][2].at \in Nat
        <5>1. GoodPointer(n, j, 2, next[n][j][2])
          BY <1>2, <4>1, <4>3, Zenon DEF OInv, Pointers
        <5> QED
          BY <1>2, <4>1, <4>3, <5>1, Locations, Zenon DEF GoodPointer
      <4> QED
        BY <1>11, <3>2, <3>3, <4>3, <4>4, <4>5
    <3> QED
      BY <3>4, <3>5
  <2>3. DOMAIN next' = DOMAIN next /\ \A x \in Nodes : DOMAIN next'[x] = DOMAIN next[x]
    BY <1>2, <1>4, Zenon DEF Adds, Shape
  <2>4. n \notin In(l)
    BY <1>2
  <2>5. ASSUME NEW x \in Nodes, NEW k \in DOMAIN next[x]
        PROVE  /\ x \in In(k) => 2 \in DOMAIN next'[x][k]
               /\ 2 \in DOMAIN next'[x][k] =>
                    \A j \in 0..k : 2 \in DOMAIN next'[x][j] /\ next'[x][j][2].at <= next'[x][k][2].at
    BY <2>1, <2>2, <2>4, Zenon
  <2> QED
    BY <1>7, <1>8, <2>3, <2>5, Zenon DEF Upwards
<1>15. Chain'
  BY <1>7, <1>8, <1>9, Zenon DEF OInv, Chain
<1>16. Stale'
  <2>1. ASSUME NEW k, NEW x, NEW y, NEW i, NEW q, StaleAt(x, y, k, i, q)
        PROVE  StaleAt(x, y, k, i, q)'
    BY <1>7, <1>10, <2>1, Zenon DEF StaleAt
  <2> QED
    BY <1>8, <1>9, <2>1, Zenon DEF OInv, Stale
<1>17. Place'
  <2>1. ASSUME NEW k \in l..(node[n].height - 1)
        PROVE  /\ writer.prev[k] \in Placed(k) /\ Follows(n, writer.prev[k])
               /\ \A y \in In(k) : ~(Follows(y, writer.prev[k]) /\ Before(y, n))
               /\ Len(next'[n][k]) = IF k = l THEN 2 ELSE 1
    <3>1. /\ writer.prev[k] \in Placed(k) /\ Follows(n, writer.prev[k])
          /\ \A y \in In(k) : ~(Follows(y, writer.prev[k]) /\ Before(y, n))
          /\ Len(next[n][k]) = IF writer.pc = "publish" /\ k = writer.level THEN 2 ELSE 1
      BY <1>1, Zenon DEF OInv, Place
    <3>2. Len(next[n][k]) = 1
      BY <1>1, <3>1
    <3>3. CASE k = l
      <4>1. Len(next'[n][l]) = Len(next[n][l]) + 1
        BY <1>4, Zenon DEF Adds
      <4>2. Len(next'[n][k]) = 2
        <5>1. Len(next'[n][k]) = 1 + 1
          BY <3>2, <3>3, <4>1, Zenon
        <5> QED
          BY <5>1
      <4> QED
        BY <3>1, <3>3, <4>2, Zenon
    <3>4. CASE k # l
      <4>1. k \in DOMAIN next[n]
        <5>1. DOMAIN next[n] = 0..(HeightOf(n) - 1) /\ HeightOf(n) = node[n].height
          BY <1>2, Zenon DEF Shape, HeightOf
        <5> QED
          BY <1>2, <5>1
      <4>2. next'[n][k] = next[n][k]
        BY <1>2, <1>4, <3>4, <4>1, Zenon DEF Adds
      <4> QED
        BY <3>1, <3>2, <3>4, <4>2
    <3> QED
      BY Zenon, <3>3, <3>4
  <2>2. Newest(next'[n][l]).to = Newest(next'[p][l]).to
    <3>1. next'[p][l] = next[p][l]
      BY <1>2, <1>9, Zenon DEF Fits
    <3>2. Newest(next'[n][l]) = Store(to, time + 1, FALSE)
      BY <1>4, Zenon DEF Adds
    <3>3. Newest(next'[n][l]).to = to
      BY <3>2 DEF Store
    <3> QED
      BY <3>1, <3>3, Zenon
  <2> QED
    BY <1>1, <1>6, <1>7, <1>8, <2>1, <2>2, ZenonT(40) DEF Place
<1>18. Known'
  <2>1. \A k \in Levels : \A y \in In(k)' : Seen(time, y, k)'
    <3>1. time <= time'
      BY <1>11
    <3> QED
      BY <1>2, <1>5, <1>8, <3>1, KeptKnown, Zenon DEF OInv, Known, IInv
  <2>2. SeenUpTo(unlocked, retired)'
    BY <1>1, <1>2, <1>5, UnlockedKept, Zenon DEF OInv
  <2> QED
    BY <2>1, <2>2, Zenon DEF Known
<1>19. Counts'
  <2>1. max_height_' = max_height_ /\ Height' = Height
    BY <1>1, Zenon DEF Height
  <2>2. /\ max_height_ \in Seq([to : 1..kMaxHeight, at : Nat]) \ {<<>>}
        /\ \A x \in Nodes : node[x].height <= Height
        /\ writer.left \in Nat /\ last_sequence_ \in Nat /\ retired \in Nat /\ writer.left > 0
        /\ last_sequence_ = Len(node) + (writer.left - 1)
        /\ size_ = Len(node) - 1
        /\ retired <= size_ /\ unlocked <= time
    BY <1>1, Zenon DEF OInv, Counts
  <2>3. unlocked <= time'
    BY <1>2, <1>11, <2>2 DEF Shape
  <2> QED
    BY <1>1, <1>6, <1>7, <2>1, <2>2, <2>3, Zenon DEF Counts
<1>20. ReaderKnows'
  <2>1. retired' \in Nat /\ retired <= retired'
    BY <1>1 DEF OInv, Counts
  <2> QED
    BY <1>1, <1>5, <1>8, <2>1, ReaderKept, Zenon DEF OInv
<1> QED
  BY <1>13, <1>14, <1>15, <1>16, <1>17, <1>18, <1>19, <1>20, Zenon DEF OInv

-----------------------------------------------------------------------------
(* Publishing *)

\* A node between its splice point and what came after it is passed by nobody,
\* and passes nobody.
LEMMA PublishPasses ==
    ASSUME Shape, Pointers, Chain, NEW l \in Levels, NEW n \in Nodes, n \notin In(l),
           NEW p, Fits(n, p, l), NEW m, m.to = Newest(next[p][l]).to
    PROVE  /\ \A y \in In(l) : ~Skips(n, m, y)
           /\ \A x \in Placed(l) : x # p => ~Skips(x, Newest(next[x][l]), n)
<1>1. p \in Placed(l) /\ Follows(n, p) /\ \A y \in In(l) : ~(Follows(y, p) /\ Before(y, n))
  BY Zenon DEF Fits
<1>2. p \in {head_} \cup Nodes /\ n # head_
  BY <1>1, PlacedAt, KeysAreNumbers, Zenon
<1>3. ASSUME NEW y \in In(l), Skips(n, m, y)
      PROVE  FALSE
  <2>1. y \in Nodes
    BY InNodes, Zenon
  <2>2. Before(n, y) /\ (m.to = Null \/ Before(y, m.to))
    BY <1>2, <1>3, Zenon DEF Skips, Follows
  <2>3. Follows(y, p)
    BY <1>1, <1>2, <2>1, <2>2, FollowsOrders, Zenon
  <2>4. Skips(p, Newest(next[p][l]), y)
    BY <2>2, <2>3, Zenon DEF Skips
  <2> QED
    BY <1>1, <2>4, Zenon DEF Chain
<1>4. ASSUME NEW x \in Placed(l), x # p, Skips(x, Newest(next[x][l]), n)
      PROVE  FALSE
  <2> PICK w : w = Newest(next[x][l])
    BY Zenon
  <2>1. x \in {head_} \cup Nodes /\ x \in DOMAIN next /\ l \in DOMAIN next[x]
    BY PlacedAt, Zenon
  <2>2. w.to # Null => w.to \in Nodes
    <3>1. GoodPointer(x, l, Len(next[x][l]), w)
      BY <2>1, NewestStore, Zenon DEF Pointers
    <3> QED
      BY <3>1, InNodes, Zenon DEF GoodPointer
  <2>3. Follows(n, x) /\ (w.to = Null \/ Before(n, w.to))
    BY <1>4, Zenon DEF Skips
  <2>4. CASE x # head_ /\ Follows(x, p)
    <3>1. x \in In(l) /\ Before(x, n)
      BY <2>3, <2>4, Zenon DEF Placed, Follows
    <3> QED
      BY <1>1, <2>4, <3>1, Zenon
  <2>5. CASE ~(x # head_ /\ Follows(x, p))
    <3>1. p # head_ /\ p \in Nodes /\ p \in In(l)
      <4>1. p # head_
        BY <1>4, <2>5, Zenon DEF Follows
      <4> QED
        BY <1>1, <1>2, <4>1, Zenon DEF Placed
    <3>2. Follows(p, x)
      <4>1. CASE x = head_
        BY <4>1, Zenon DEF Follows
      <4>2. CASE x # head_
        <5>1. x \in Nodes /\ ~Before(p, x)
          BY <2>1, <2>5, <4>2, Zenon DEF Follows
        <5>2. Before(x, p)
          BY <1>4, <3>1, <5>1, BeforeOrders, Zenon
        <5> QED
          BY <5>2, Zenon DEF Follows
      <4> QED
        BY <4>1, <4>2
    <3>3. Before(p, n)
      BY <1>1, <3>1, Zenon DEF Follows
    <3>4. w.to = Null \/ Before(p, w.to)
      BY <2>2, <2>3, <3>1, <3>3, BeforeOrders, Zenon
    <3>5. Skips(x, w, p)
      BY <3>2, <3>4, Zenon DEF Skips
    <3> QED
      BY <3>1, <3>5, Zenon DEF Chain
  <2> QED
    BY <2>4, <2>5
<1> QED
  BY <1>3, <1>4, Zenon

\* What becomes of the writer.
LEMMA PublishWriter ==
    ASSUME IInv, PublishNode, NEW n, n = NewestNode, NEW l, l = writer.level
    PROVE  /\ NewestNode' = n /\ writer.pc = "publish" /\ Writing
           /\ ~AllLinked => /\ Writing' /\ writer'.pc = "link" /\ writer'.level = l + 1
                            /\ writer'.prev = writer.prev /\ writer'.left = writer.left
           /\ AllLinked => /\ ~Writing'
                           /\ \/ /\ writer.left > 1 /\ writer'.pc = "insert"
                                 /\ writer'.left = writer.left - 1
                              \/ ~(writer.left > 1) /\ writer'.pc = "retire" /\ writer'.left = 0
<1>1. NewestNode' = n /\ writer.pc = "publish" /\ Writing
  <2>1. writer.pc = "publish" /\ node' = node
    BY Zenon DEF PublishNode
  <2> QED
    BY <2>1, Zenon DEF NewestNode, Writing
<1>2. CASE ~AllLinked
  <2>1. writer' = [writer EXCEPT !.pc = "link", !.level = @ + 1]
    BY <1>2, Zenon DEF PublishNode
  <2>2. DOMAIN writer = {"pc", "prev", "level", "left"}
    BY Zenon DEF IInv, WriterInv
  <2>3. /\ writer'.pc = "link" /\ writer'.level = l + 1
        /\ writer'.prev = writer.prev /\ writer'.left = writer.left
    BY <2>1, <2>2
  <2> QED
    BY <1>1, <1>2, <2>3, Zenon DEF Writing
<1>3. CASE AllLinked /\ writer.left > 1
  <2>1. writer' = [NoWriter EXCEPT !.pc = "insert", !.left = writer.left - 1]
    BY <1>3, Zenon DEF PublishNode
  <2>2. writer'.pc = "insert" /\ writer'.left = writer.left - 1
    BY <2>1 DEF NoWriter
  <2>3. ~Writing'
    BY <2>2, Zenon DEF Writing
  <2> QED
    BY <1>1, <1>3, <2>2, <2>3
<1>4. CASE AllLinked /\ ~(writer.left > 1)
  <2>1. writer' = [NoWriter EXCEPT !.pc = "retire"]
    BY <1>4, Zenon DEF PublishNode
  <2>2. writer'.pc = "retire" /\ writer'.left = 0
    BY <2>1 DEF NoWriter
  <2>3. ~Writing'
    BY <2>2, Zenon DEF Writing
  <2> QED
    BY <1>1, <1>4, <2>2, <2>3
<1> QED
  BY <1>2, <1>3, <1>4, Zenon

\* The node is linked on one level more.
LEMMA PublishPlaces ==
    ASSUME IInv, Place, PublishNode, NEW n, n = NewestNode, NEW l, l = writer.level
    PROVE  /\ In(l)' = In(l) \cup {n} /\ Placed(l)' = Placed(l) \cup {n}
           /\ \A k \in Levels : k # l => In(k)' = In(k) /\ Placed(k)' = Placed(k)
<1>1. /\ NewestNode' = n /\ writer.pc = "publish" /\ Writing
      /\ ~AllLinked => Writing' /\ writer'.level = l + 1
      /\ AllLinked => ~Writing'
  BY PublishWriter, Zenon
<1>2. /\ l \in Levels /\ n \in Nodes /\ node[n].height > l
      /\ l \in Nat /\ node[n].height \in Nat
  BY <1>1, WriterAt, Zenon
<1>3. node' = node /\ \A k : Linked(k)' = Linked(k)
  <2>1. node' = node
    BY Zenon DEF PublishNode
  <2> QED
    BY <2>1, NodeOrder, Zenon
<1>4. AllLinked <=> node[n].height = l + 1
  BY Zenon DEF AllLinked
<1>5. \A k \in Levels : In(k)' = {x \in Linked(k) : x = n => k <= l}
  <2> SUFFICES ASSUME NEW k \in Levels
               PROVE  In(k)' = {x \in Linked(k) : x = n => k <= l}
    BY Zenon
  <2>1. k \in Nat
    BY DEF Levels
  <2>2. CASE ~AllLinked
    <3>1. k < l + 1 <=> k <= l
      BY <1>2, <2>1
    <3> QED
      BY <1>1, <1>3, <2>2, <3>1, Zenon DEF In
  <2>3. CASE AllLinked
    <3>1. \A x \in Linked(k) : x = n => k <= l
      <4>1. \A x \in Linked(k) : node[x].height > k
        BY DEF Linked
      <4> QED
        BY <1>2, <1>4, <2>1, <2>3, <4>1
    <3> QED
      BY <1>1, <1>3, <2>3, <3>1, Zenon DEF In
  <2> QED
    BY <2>2, <2>3
<1>6. \A k \in Levels : In(k) = {x \in Linked(k) : x = n => k < l}
  BY <1>1, Zenon DEF In
<1>7. In(l)' = In(l) \cup {n}
  <2>1. n \in Linked(l)
    BY <1>2 DEF Linked
  <2>2. l <= l /\ ~(l < l)
    BY <1>2
  <2> QED
    BY <1>2, <1>5, <1>6, <2>1, <2>2, ZenonT(40)
<1>8. ASSUME NEW k \in Levels, k # l PROVE In(k)' = In(k)
  <2>1. k <= l <=> k < l
    BY <1>2, <1>8 DEF Levels
  <2> QED
    BY <1>5, <1>6, <2>1, Zenon
<1> QED
  BY <1>7, <1>8, Zenon DEF Placed

LEMMA PublishOrder == ASSUME IInv, OInv, IInv', PublishNode PROVE OInv'
<1> PICK n, p, l : n = NewestNode /\ p = Splice /\ l = writer.level
  BY Zenon
<1>1. /\ StoreAt(p, l, n, TRUE) /\ node' = node
      /\ UNCHANGED <<max_height_, last_sequence_, retired, unlocked, reader>>
      /\ size_' = Counted
  BY Zenon DEF PublishNode, SetNext
<1>2. /\ writer.pc = "publish" /\ Writing /\ NewestNode' = n
      /\ ~AllLinked => /\ Writing' /\ writer'.pc = "link" /\ writer'.level = l + 1
                       /\ writer'.prev = writer.prev /\ writer'.left = writer.left
      /\ AllLinked => /\ ~Writing'
                      /\ \/ /\ writer.left > 1 /\ writer'.pc = "insert"
                            /\ writer'.left = writer.left - 1
                         \/ ~(writer.left > 1) /\ writer'.pc = "retire" /\ writer'.left = 0
  BY PublishWriter, Zenon
<1>3. /\ l \in Levels /\ n \in Nodes /\ n # head_ /\ n # Null /\ n \in Int
      /\ n \notin In(l) /\ p # n /\ Fits(n, p, l)
      /\ n \in DOMAIN next /\ l \in DOMAIN next[n]
      /\ p \in DOMAIN next /\ l \in DOMAIN next[p]
      /\ Len(next[n][l]) = 2 /\ node[n].height > l /\ l \in Nat /\ node[n].height \in Nat
      /\ Shape
  BY Zenon, <1>2, WriterAt DEF OInv, IInv
<1>4. Adds(p, l, n, TRUE)
  BY <1>1, <1>3, Stored, Zenon
<1>5. Kept /\ AddsOnly(p, l, n, TRUE)
  BY <1>3, <1>4, AddsKept, Zenon
<1>6. /\ Nodes' = Nodes
      /\ \A x, y : Before(x, y)' <=> Before(x, y)
      /\ \A x, y : Follows(y, x)' <=> Follows(y, x)
      /\ \A x, m, y : Skips(x, m, y)' <=> Skips(x, m, y)
  BY <1>1, NodeOrder, Zenon
<1>7. /\ In(l)' = In(l) \cup {n} /\ Placed(l)' = Placed(l) \cup {n}
      /\ \A k \in Levels : k # l => In(k)' = In(k) /\ Placed(k)' = Placed(k)
  BY PublishPlaces, Zenon DEF OInv
<1>8. \A k \in Levels : In(k) \subseteq In(k)' /\ Placed(k) \subseteq Placed(k)'
  BY <1>7, Zenon
<1>9. time' = time + 1 /\ time \in Nat
  BY Zenon, <1>3, <1>4 DEF Adds, Shape
<1>10. PICK new : new = Store(n, time + 1, TRUE)
  BY Zenon
<1>11. new.to = n /\ new.at = time + 1 /\ new.release
  BY <1>10 DEF Store
<1>12. 2 \in DOMAIN next[n][l] /\ next[n][l][2].at <= time /\ next[n][l][2].at \in Nat
       /\ Newest(next[n][l]) = next[n][l][2] /\ DOMAIN next[n][l] = 1..2
  <2>1. DOMAIN next[n][l] = 1..2
    BY <1>3, Locations
  <2>2. 2 \in DOMAIN next[n][l]
    BY <2>1
  <2>3. GoodPointer(n, l, 2, next[n][l][2])
    BY <1>3, <2>2, Zenon DEF OInv, Pointers
  <2>4. next[n][l][2].at \in Nat
    BY <1>3, <2>2, Locations, Zenon
  <2> QED
    BY <1>3, <2>1, <2>2, <2>3, <2>4, Zenon DEF GoodPointer, Newest
<1>13. next[n][l][2].to = Newest(next[p][l]).to
  BY <1>2, <1>12, Zenon DEF OInv, Place
<1>14. \A v, y, k : Seen(v, y, k)' => Seen(v, y, k) \/ (y = n /\ k = l /\ time + 1 <= v)
  <2> SUFFICES ASSUME NEW v, NEW y, NEW k, Seen(v, y, k)'
               PROVE  Seen(v, y, k) \/ (y = n /\ k = l /\ time + 1 <= v)
    BY Zenon
  <2>1. Seen(v, y, k) \/ Tells(l, n, TRUE, v, y, k)
    BY <1>3, <1>4, AddsSeen, Zenon
  <2> QED
    BY <2>1, Zenon DEF Tells
<1>15. \A v : ~Seen(v, n, l)
  <2> SUFFICES ASSUME NEW v, Seen(v, n, l) PROVE FALSE
    BY Zenon
  <2>1. PICK x \in DOMAIN next : l \in DOMAIN next[x] /\ \E i \in DOMAIN next[x][l] : next[x][l][i].to = n
    BY Zenon DEF Seen
  <2>2. PICK i \in DOMAIN next[x][l] : next[x][l][i].to = n
    BY <2>1, Zenon
  <2>3. GoodPointer(x, l, i, next[x][l][i])
    BY <2>1, <2>2, Zenon DEF OInv, Pointers
  <2> QED
    BY <1>3, <2>2, <2>3, Zenon DEF GoodPointer
<1>16. Pointers'
  <2>1. ASSUME NEW x \in DOMAIN next, NEW k \in DOMAIN next[x], NEW i \in DOMAIN next[x][k],
               NEW m, m = next[x][k][i]
        PROVE  GoodPointer(x, k, i, m)'
    <3>1. GoodPointer(x, k, i, m)
      BY <2>1, Zenon DEF OInv, Pointers
    <3>2. k \in Levels /\ m.at \in Nat
      BY <1>3, <2>1, LevelsOf, Locations, Zenon
    <3>3. m.at <= time'
      BY <1>9, <3>1, <3>2 DEF GoodPointer
    <3>4. ASSUME m.to # Null
          PROVE  /\ m.to \in In(k)' /\ Follows(m.to, x)'
                 /\ 2 \in DOMAIN next'[m.to][k] /\ next'[m.to][k][2].at <= m.at
                 /\ ~m.release => i = 2 /\ x # head_
      <4>1. /\ m.to \in In(k) /\ Follows(m.to, x)
            /\ 2 \in DOMAIN next[m.to][k] /\ next[m.to][k][2].at <= m.at
            /\ ~m.release => i = 2 /\ x # head_
        BY <3>1, <3>4, Zenon DEF GoodPointer
      <4>2. m.to \in DOMAIN next /\ k \in DOMAIN next[m.to]
        BY <1>3, <3>2, <4>1, PlacedAt, Zenon DEF Placed
      <4>3. 2 \in DOMAIN next'[m.to][k] /\ next'[m.to][k][2] = next[m.to][k][2]
        BY <1>5, <4>1, <4>2, Zenon DEF Kept
      <4> QED
        BY <1>6, <1>8, <3>2, <4>1, <4>3, Zenon
    <3> QED
      BY <3>3, <3>4, Zenon DEF GoodPointer
  <2>2. ASSUME NEW i PROVE GoodPointer(p, l, i, new)'
    <3>1. time + 1 <= time' /\ next[n][l][2].at <= time + 1
      BY <1>9, <1>12
    <3>2. next'[n][l] = next[n][l]
      BY <1>3, <1>4, Zenon DEF Adds
    <3>3. Follows(n, p) /\ n \in In(l)'
      BY <1>3, <1>7, Zenon DEF Fits
    <3> QED
      BY <1>6, <1>11, <1>12, <3>1, <3>2, <3>3, Zenon DEF GoodPointer
  <2>3. ASSUME NEW x \in DOMAIN next', NEW k \in DOMAIN next'[x], NEW i \in DOMAIN next'[x][k],
               NEW m, m = next'[x][k][i]
        PROVE  GoodPointer(x, k, i, m)'
    <3>1. x \in DOMAIN next /\ k \in DOMAIN next[x]
      BY <1>4, Zenon DEF Adds
    <3>2. \/ i \in DOMAIN next[x][k] /\ m = next[x][k][i]
          \/ x = p /\ k = l /\ m = new
      BY <1>5, <1>10, <2>3, <3>1, ZenonT(40) DEF AddsOnly
    <3> QED
      BY <2>1, <2>2, <3>1, <3>2, Zenon
  <2> QED
    BY <2>3, Zenon DEF Pointers
<1>17. Upwards'
  <2>1. ASSUME NEW x \in Nodes, NEW k \in DOMAIN next[x]
        PROVE  /\ x \in In(k)' => 2 \in DOMAIN next'[x][k]
               /\ 2 \in DOMAIN next'[x][k] =>
                    \A j \in 0..k : 2 \in DOMAIN next'[x][j] /\ next'[x][j][2].at <= next'[x][k][2].at
    <3>1. x \in DOMAIN next /\ k \in Levels /\ \A j \in 0..k : j \in DOMAIN next[x]
      <4>1. x \in DOMAIN next
        BY <1>3, Zenon DEF Shape
      <4> QED
        BY <1>3, <4>1, LevelsOf, Zenon
    <3>2. /\ x \in In(k) => 2 \in DOMAIN next[x][k]
          /\ 2 \in DOMAIN next[x][k] =>
               \A j \in 0..k : 2 \in DOMAIN next[x][j] /\ next[x][j][2].at <= next[x][k][2].at
      BY Zenon DEF OInv, Upwards
    <3>3. \A j \in 0..k : 2 \in DOMAIN next[x][j] => 2 \in DOMAIN next'[x][j] /\ next'[x][j][2] = next[x][j][2]
      BY <1>5, <3>1, Zenon DEF Kept
    <3>4. 2 \in DOMAIN next[x][k] => 2 \in DOMAIN next'[x][k] /\ next'[x][k][2] = next[x][k][2]
      BY <1>5, <3>1, Zenon DEF Kept
    <3>5. 2 \in DOMAIN next'[x][k] => 2 \in DOMAIN next[x][k]
      <4>1. CASE x = p /\ k = l
        <5>1. x \in In(k)
          BY <1>3, <4>1, KeysAreNumbers, Zenon DEF Fits, Placed
        <5> QED
          BY <3>2, <5>1, Zenon
      <4>2. CASE ~(x = p /\ k = l)
        BY <1>4, <3>1, <4>2, Zenon DEF Adds
      <4> QED
        BY <4>1, <4>2, Zenon
    <3>6. x \in In(k)' => 2 \in DOMAIN next[x][k]
      BY <1>7, <1>12, <3>1, <3>2, Zenon
    <3> QED
      BY <3>2, <3>3, <3>4, <3>5, <3>6, Zenon
  <2>2. DOMAIN next' = DOMAIN next /\ \A x \in Nodes : DOMAIN next'[x] = DOMAIN next[x]
    BY <1>3, <1>4, Zenon DEF Adds, Shape
  <2> QED
    BY <1>6, <2>1, <2>2, Zenon DEF Upwards
<1>18. /\ \A y \in In(l) : ~Skips(n, next[n][l][2], y)
       /\ \A x \in Placed(l) : x # p => ~Skips(x, Newest(next[x][l]), n)
  BY <1>3, <1>13, PublishPasses, Zenon DEF OInv
<1>19. ~Skips(n, next[n][l][2], n) /\ \A y \in In(l)' : ~Skips(p, new, y)
  <2>1. ~Follows(n, n) /\ ~Before(n, n)
    BY <1>3, BeforeOrders, Zenon DEF Follows
  <2>2. ~Skips(n, next[n][l][2], n) /\ ~Skips(p, new, n)
    BY <1>3, <1>11, <2>1, Zenon DEF Skips
  <2>3. \A y \in In(l) : ~Skips(p, new, y)
    BY <1>3, <1>11, Zenon DEF Skips, Fits
  <2> QED
    BY <1>7, <2>2, <2>3, Zenon
<1>20. /\ next'[n][l] = next[n][l] /\ Newest(next'[p][l]) = new
       /\ \A k \in Levels : \A x \in Placed(k) : ~(x = p /\ k = l) => next'[x][k] = next[x][k]
  <2>1. next'[n][l] = next[n][l] /\ Newest(next'[p][l]) = new
    BY <1>3, <1>4, <1>10, Zenon DEF Adds
  <2>2. \A k \in Levels : \A x \in Placed(k) : x \in DOMAIN next /\ k \in DOMAIN next[x]
    BY <1>3, PlacedAt, Zenon
  <2> QED
    BY <1>4, <2>1, <2>2, Zenon DEF Adds
<1>21. Chain'
  <2>1. ASSUME NEW k \in Levels, NEW x \in Placed(k)', NEW y \in In(k)'
        PROVE  ~Skips(x, Newest(next'[x][k]), y)
    <3>1. CASE k # l
      BY <1>7, <1>20, <3>1, Zenon DEF OInv, Chain
    <3>2. CASE k = l /\ x = p
      BY <1>19, <1>20, <3>2, Zenon
    <3>3. CASE k = l /\ x = n
      BY <1>7, <1>12, <1>18, <1>19, <1>20, <3>3, Zenon
    <3>4. CASE k = l /\ x # p /\ x # n
      BY <1>7, <1>18, <1>20, <3>4, ZenonT(40) DEF OInv, Chain
    <3> QED
      BY <3>1, <3>2, <3>3, <3>4, Zenon
  <2> QED
    BY <1>6, <2>1, Zenon DEF Chain
<1>22. Stale'
  <2>1. ASSUME NEW k \in Levels, NEW x \in Placed(k), NEW y \in In(k), ~(k = l /\ y = n),
               NEW i \in DOMAIN next[x][k], StaleAt(x, y, k, i, next[x][k]),
               NEW q, q = next'[x][k]
        PROVE  StaleAt(x, y, k, i, q)'
    <3>1. x \in DOMAIN next /\ k \in DOMAIN next[x]
      BY <1>3, PlacedAt, Zenon
    <3>2. /\ q[i] = next[x][k][i]
          /\ i + 1 \in DOMAIN next[x][k] => i + 1 \in DOMAIN q /\ q[i + 1] = next[x][k][i + 1]
      BY <1>5, <2>1, <3>1, Zenon DEF Kept
    <3>3. ASSUME NEW v, Seen(v, y, k)'
          PROVE  Seen(v, y, k)
      <4>1. Seen(v, y, k) \/ (y = n /\ k = l /\ time + 1 <= v)
        BY <1>14, <3>3, Zenon
      <4> QED
        BY <2>1, <4>1, Zenon
    <3> QED
      BY <1>6, <2>1, <3>2, <3>3, Zenon DEF StaleAt
  <2>2. ASSUME NEW x \in Placed(l), NEW i \in DOMAIN next[x][l], NEW v \in Nat,
               Seen(v, n, l)', Skips(x, next[x][l][i], n)
        PROVE  i + 1 \in DOMAIN next'[x][l] /\ next'[x][l][i + 1].at <= v
    <3>1. x \in DOMAIN next /\ l \in DOMAIN next[x]
      BY <1>3, PlacedAt, Zenon
    <3>2. time + 1 <= v
      BY <1>14, <1>15, <2>2, Zenon
    <3>3. /\ i \in Nat /\ Len(next[x][l]) \in Nat /\ DOMAIN next[x][l] = 1..Len(next[x][l])
          /\ \A j \in DOMAIN next[x][l] : next[x][l][j].at \in Nat
      BY Zenon, <1>3, <3>1, Locations
    <3>4. CASE i = Len(next[x][l])
      <4>1. x = p
        BY <1>18, <2>2, <3>4, Zenon DEF Newest
      <4>2. i + 1 \in DOMAIN next'[x][l] /\ next'[x][l][i + 1] = new
        BY <1>4, <1>10, <3>4, <4>1, Zenon DEF Adds
      <4> QED
        BY <1>11, <3>2, <4>2, Zenon
    <3>5. CASE i # Len(next[x][l])
      <4>1. i + 1 \in DOMAIN next[x][l]
        BY ONLY SMTT(30), <3>3, <3>5
      <4>2. i + 1 \in DOMAIN next'[x][l] /\ next'[x][l][i + 1] = next[x][l][i + 1]
        BY <1>5, <3>1, <4>1, Zenon DEF Kept
      <4>3. next[x][l][i + 1].at <= time
        BY <3>1, <4>1, Zenon DEF OInv, Pointers, GoodPointer
      <4>4. next[x][l][i + 1].at <= v
        BY ONLY SMTT(30), <1>9, <3>2, <3>3, <4>1, <4>3
      <4> QED
        BY <4>2, <4>4, Zenon
    <3> QED
      BY <3>4, <3>5
  <2>3. ASSUME NEW k \in Levels, NEW x \in Placed(k)', NEW y \in In(k)',
               NEW q, q = next'[x][k], NEW i \in DOMAIN q
        PROVE  StaleAt(x, y, k, i, q)'
    <3>1. CASE k # l
      <4>1. x \in Placed(k) /\ y \in In(k)
        BY <1>7, <3>1, Zenon
      <4>2. i \in DOMAIN next[x][k]
        BY <1>20, <2>3, <3>1, <4>1, Zenon
      <4>3. StaleAt(x, y, k, i, next[x][k])
        BY <4>1, <4>2, Zenon DEF OInv, Stale
      <4> QED
        BY <2>1, <2>3, <3>1, <4>1, <4>2, <4>3, Zenon
    <3>2. CASE k = l /\ x = n
      <4>1. i >= 2 => i = 2
        <5>1. i \in 1..2
          BY <1>12, <1>20, <2>3, <3>2, Zenon
        <5> QED
          BY <5>1
      <4>2. i >= 2 => ~Skips(x, q[i], y)
        BY <1>7, <1>18, <1>19, <1>20, <2>3, <3>2, <4>1, Zenon
      <4> QED
        BY <1>3, <1>6, <3>2, <4>2, Zenon DEF StaleAt
    <3>3. CASE k = l /\ x # n
      <4>1. x \in Placed(l) /\ x \in DOMAIN next /\ l \in DOMAIN next[x]
        BY <1>3, <1>7, <3>3, PlacedAt, Zenon
      <4>2. \/ i \in DOMAIN next[x][l] /\ q[i] = next[x][l][i]
            \/ x = p /\ q[i] = new
        BY <1>5, <1>10, <2>3, <3>3, <4>1, Zenon DEF AddsOnly
      <4>3. CASE x = p /\ q[i] = new
        BY <1>6, <1>19, <3>3, <4>3, Zenon DEF StaleAt
      <4>4. CASE i \in DOMAIN next[x][l] /\ q[i] = next[x][l][i] /\ y = n
        <5> SUFFICES ASSUME Skips(x, next[x][l][i], n), NEW v \in Nat, Seen(v, n, l)'
                     PROVE  i + 1 \in DOMAIN q /\ q[i + 1].at <= v
          BY <1>6, <3>3, <4>4, Zenon DEF StaleAt
        <5> QED
          BY <2>2, <2>3, <3>3, <4>1, <4>4, Zenon
      <4>5. CASE i \in DOMAIN next[x][l] /\ q[i] = next[x][l][i] /\ y # n
        <5>1. y \in In(l)
          BY <1>7, <3>3, <4>5, Zenon
        <5>2. StaleAt(x, y, l, i, next[x][l])
          BY <1>3, <4>1, <4>5, <5>1, Zenon DEF OInv, Stale
        <5>3. StaleAt(x, y, l, i, q)'
          BY <1>3, <2>1, <2>3, <3>3, <4>1, <4>5, <5>1, <5>2, Zenon
        <5> QED
          BY <3>3, <5>3, Zenon
      <4> QED
        BY <4>2, <4>3, <4>4, <4>5, Zenon
    <3> QED
      BY <3>1, <3>2, <3>3, Zenon
  <2> QED
    BY <2>3, Zenon DEF Stale
<1>23. Place'
  <2>1. CASE AllLinked
    BY <1>2, <2>1, Zenon DEF Place
  <2>2. CASE ~AllLinked
    <3>1. ASSUME NEW k \in (l + 1)..(node[n].height - 1)
          PROVE  /\ writer.prev[k] \in Placed(k)' /\ Follows(n, writer.prev[k])
                 /\ \A y \in In(k)' : ~(Follows(y, writer.prev[k]) /\ Before(y, n))
                 /\ Len(next'[n][k]) = 1
      <4>1. k \in l..(node[n].height - 1) /\ k # l
        BY <1>3
      <4>2. /\ writer.prev[k] \in Placed(k) /\ Follows(n, writer.prev[k])
            /\ \A y \in In(k) : ~(Follows(y, writer.prev[k]) /\ Before(y, n))
            /\ Len(next[n][k]) = IF writer.pc = "publish" /\ k = writer.level THEN 2 ELSE 1
        BY <1>2, <4>1, Zenon DEF OInv, Place
      <4>3. k \in DOMAIN next[n]
        <5>1. DOMAIN next[n] = 0..(HeightOf(n) - 1) /\ HeightOf(n) = node[n].height
          BY <1>3, Zenon DEF Shape, HeightOf
        <5> QED
          BY <1>3, <5>1
      <4>4. k \in Levels
        BY <1>3, <4>3, LevelsOf, Zenon
      <4>5. next'[n][k] = next[n][k]
        BY <1>3, <1>4, <4>1, <4>3, Zenon DEF Adds
      <4> QED
        BY <1>7, <4>1, <4>2, <4>4, <4>5, Zenon
    <3>2. writer'.level = l + 1 /\ writer'.prev = writer.prev /\ writer'.pc = "link"
      BY <1>2, <2>2
    <3> QED
      BY <1>1, <1>2, <1>6, <3>1, <3>2, Zenon DEF Place
  <2> QED
    BY <2>1, <2>2
<1>24. Known'
  <2>1. ASSUME NEW k \in Levels, NEW y \in In(k)' PROVE Seen(time, y, k)'
    <3>1. CASE y \in In(k)
      <4>1. time <= time'
        BY <1>9
      <4> QED
        BY <1>3, <1>5, <3>1, <4>1, KeptKnown, Zenon DEF OInv, Known, IInv
    <3>2. CASE y = n /\ k = l
      <4>1. PICK j : j = Len(next[p][l]) + 1
        BY Zenon
      <4>2. p \in DOMAIN next' /\ l \in DOMAIN next'[p] /\ j \in DOMAIN next'[p][l] /\ next'[p][l][j] = new
        BY <1>3, <1>4, <1>10, <4>1, Zenon DEF Adds
      <4>3. new.at <= time'
        BY <1>9, <1>11
      <4>4. next'[p][l][j].to = n /\ next'[p][l][j].release /\ next'[p][l][j].at <= time'
        BY <1>11, <4>2, <4>3, Zenon
      <4>5. \E i \in DOMAIN next'[p][l] :
               next'[p][l][i].to = n /\ next'[p][l][i].release /\ next'[p][l][i].at <= time'
        BY <4>2, <4>4, Zenon
      <4>6. \E x \in DOMAIN next' : k \in DOMAIN next'[x] /\ \E i \in DOMAIN next'[x][k] :
               next'[x][k][i].to = y /\ next'[x][k][i].release /\ next'[x][k][i].at <= time'
        BY <3>2, <4>2, <4>5, Zenon
      <4> QED
        BY <4>6, Zenon DEF Seen
    <3>3. y \in In(k) \/ (y = n /\ k = l)
      <4>1. CASE k # l
        BY <1>7, <4>1, Zenon
      <4>2. CASE k = l
        <5>1. y \in In(l)' /\ In(l)' = In(l) \cup {n}
          BY <1>7, <4>2, Zenon
        <5>2. y \in In(l) \/ y = n
          BY <5>1, Zenon
        <5> QED
          BY <4>2, <5>2, Zenon
      <4> QED
        BY <4>1, <4>2, Zenon
    <3> QED
      BY <3>1, <3>2, <3>3, Zenon
  <2>2. SeenUpTo(unlocked, retired)'
    BY <1>1, <1>3, <1>5, UnlockedKept, Zenon DEF OInv
  <2> QED
    BY <2>1, <2>2, Zenon DEF Known
<1>25. Counts'
  <2>1. max_height_' = max_height_ /\ Height' = Height
    BY <1>1, Zenon DEF Height
  <2>2. /\ max_height_ \in Seq([to : 1..kMaxHeight, at : Nat]) \ {<<>>}
        /\ \A x \in Nodes : node[x].height <= Height
        /\ writer.left \in Nat /\ last_sequence_ \in Nat /\ retired \in Nat /\ writer.left > 0
        /\ last_sequence_ = Len(node) + (IF writer.pc = "insert" THEN writer.left ELSE writer.left - 1)
        /\ size_ = Len(node) - 1
        /\ retired <= size_ /\ unlocked <= time
    BY <1>2, Zenon DEF OInv, Counts
  <2>3. unlocked <= time' /\ Len(node) \in Nat
    BY ONLY SMTT(30), <1>3, <1>9, <2>2, NodeTypes DEF Shape
  <2>4. /\ writer'.pc \in {"idle", "insert", "link", "publish", "retire"}
        /\ writer'.left \in Nat
        /\ writer'.pc \in {"insert", "link", "publish"} => writer'.left > 0
        /\ last_sequence_ = Len(node) + (IF writer'.pc = "insert" THEN writer'.left
                                     ELSE IF Writing' THEN writer'.left - 1 ELSE 0)
        /\ size_' = Len(node) - IF Writing' THEN 1 ELSE 0
        /\ retired <= size_'
    <3>1. CASE ~AllLinked
      <4>1. size_' = size_
        BY <1>1, <3>1, Zenon DEF Counted
      <4>2. Writing' /\ writer'.pc = "link" /\ writer'.left = writer.left
        BY <1>2, <3>1, Zenon
      <4> QED
        BY Zenon, <1>2, <2>2, <2>3, <4>1, <4>2
    <3>2. CASE AllLinked
      <4>1. size_' = size_ + 1
        BY <1>1, <3>2, Zenon DEF Counted
      <4>2. /\ ~Writing'
            /\ \/ writer.left > 1 /\ writer'.pc = "insert" /\ writer'.left = writer.left - 1
               \/ ~(writer.left > 1) /\ writer'.pc = "retire" /\ writer'.left = 0
        BY <1>2, <3>2, Zenon
      <4>3. last_sequence_ = Len(node) + (writer.left - 1)
        BY <1>2, <2>2
      <4>4. size_' = Len(node) - 0 /\ retired <= size_'
        BY <2>2, <2>3, <4>1
      <4>5. CASE writer.left > 1 /\ writer'.pc = "insert" /\ writer'.left = writer.left - 1
        BY <2>2, <2>3, <4>2, <4>3, <4>4, <4>5
      <4>6. CASE ~(writer.left > 1) /\ writer'.pc = "retire" /\ writer'.left = 0
        BY ONLY SMTT(30), <2>2, <2>3, <4>2, <4>3, <4>4, <4>6
      <4> QED
        BY <4>2, <4>5, <4>6, Zenon
    <3> QED
      BY <3>1, <3>2
  <2> QED
    BY <1>1, <1>6, <2>1, <2>2, <2>3, <2>4, Zenon DEF Counts
<1>26. ReaderKnows'
  <2>1. retired' \in Nat /\ retired <= retired'
    BY <1>1 DEF OInv, Counts
  <2> QED
    BY <1>1, <1>5, <1>8, <2>1, ReaderKept, Zenon DEF OInv
<1> QED
  BY <1>16, <1>17, <1>21, <1>22, <1>23, <1>24, <1>25, <1>26, Zenon DEF OInv

-----------------------------------------------------------------------------
(* A new node *)

\* What NewNode builds: a node with the number s that no pointer goes to and
\* whose own pointers are null.
Builds(s, k, h) ==
    /\ s \in Nat /\ s > 0 /\ s \notin Nodes /\ s # head_ /\ s \notin DOMAIN next
    /\ Nodes' = Nodes \cup {s} /\ NewestNode' = s /\ Len(node') = s
    /\ node'[s].key = k /\ node'[s].height = h
    /\ \A n \in Nodes : node'[n] = node[n]
    /\ DOMAIN next' = DOMAIN next \cup {s} /\ DOMAIN next'[s] = 0..(h - 1)
    /\ \A l \in 0..(h - 1) : next'[s][l] = <<Store(Null, time', FALSE)>>
    /\ \A x \in DOMAIN next : next'[x] = next[x]
    /\ time < time' /\ time' \in Nat

LEMMA Built ==
    ASSUME Shape, NEW k \in Keys, NEW h \in 1..kMaxHeight, InsertStart(k, h),
           NEW s, s = Len(node) + 1
    PROVE  Builds(s, k, h)
<1> PICK built : built = time'
  OBVIOUS
<1> DEFINE new == [key |-> k, height |-> h, at |-> built]
<1> PICK one : one = <<Store(Null, built, FALSE)>>
  BY Zenon
<1>1. /\ node' = Append(node, new)
      /\ next' = [x \in DOMAIN next \cup {s} |->
                    IF x = s THEN [l \in 0..(h - 1) |-> one] ELSE next[x]]
  BY Zenon DEF InsertStart
<1>2. built \in Nat /\ time < built /\ time \in Nat
  BY DEF InsertStart, Shape
<1>3. /\ Nodes = 1..Len(node) /\ Len(node) \in Nat /\ node \in Seq(NodeRecord)
  BY NodeTypes DEF Shape
<1>4. new \in NodeRecord /\ new.key = k /\ new.height = h
  BY <1>2 DEF NodeRecord
<1>5. /\ node' \in Seq(NodeRecord) /\ Len(node') = s
      /\ node'[s] = new /\ \A n \in Nodes : node'[n] = node[n]
  <2> HIDE DEF new
  <2> QED
    BY <1>1, <1>3, <1>4, AppendedSeq
<1> HIDE DEF new
<1>6. /\ Nodes' = Nodes \cup {s} /\ s \notin Nodes /\ s # head_ /\ NewestNode' = s
      /\ s \in Nat /\ s > 0
  BY <1>3, <1>5 DEF Nodes, head_, NewestNode
<1>7. s \notin DOMAIN next
  BY <1>6, Zenon DEF Shape
<1>8. /\ DOMAIN next' = DOMAIN next \cup {s}
      /\ DOMAIN next'[s] = 0..(h - 1)
      /\ \A l \in 0..(h - 1) : next'[s][l] = one
      /\ \A x \in DOMAIN next : next'[x] = next[x]
  BY <1>1, <1>7, Zenon
<1> QED
  BY <1>2, <1>4, <1>5, <1>6, <1>7, <1>8, Zenon DEF Builds

\* The order of the other nodes stays as it is, and the new one is where the
\* search puts it.
LEMMA BuiltOrder ==
    ASSUME Shape, NEW s, NEW k, NEW h, Builds(s, k, h)
    PROVE  /\ \A a, b \in Nodes : Before(a, b)' <=> Before(a, b)
           /\ \A a \in Nodes : Before(a, s)' <=> Precedes(a, k, s)
           /\ \A y \in Nodes : \A x \in {head_} \cup Nodes : Follows(y, x)' <=> Follows(y, x)
           /\ \A y \in Nodes : \A x \in {head_} \cup Nodes : \A m :
                 m.to = Null \/ m.to \in Nodes => (Skips(x, m, y)' <=> Skips(x, m, y))
<1>1. \A n \in Nodes : node'[n] = node[n] /\ n # head_
  BY KeysAreNumbers, Zenon DEF Builds
<1>2. \A a, b \in Nodes : Before(a, b)' <=> Before(a, b)
  BY <1>1, Zenon DEF Before, Precedes
<1>3. \A a \in Nodes : Before(a, s)' <=> Precedes(a, k, s)
  BY <1>1, Zenon DEF Before, Precedes, Builds
<1>4. \A y \in Nodes : \A x \in {head_} \cup Nodes : Follows(y, x)' <=> Follows(y, x)
  BY <1>1, <1>2, Zenon DEF Follows
<1>5. \A y \in Nodes : \A x \in {head_} \cup Nodes : \A m :
         m.to = Null \/ m.to \in Nodes => (Skips(x, m, y)' <=> Skips(x, m, y))
  BY <1>2, <1>4, Zenon DEF Skips
<1> QED
  BY <1>2, <1>3, <1>4, <1>5

\* The stores that there are.
\* The pointers of the new node: its own stores of null.
Unlinked(s, h) ==
    \A l \in 0..(h - 1) :
        /\ DOMAIN next'[s][l] = {1} /\ Len(next'[s][l]) = 1
        /\ next'[s][l][1].to = Null /\ next'[s][l][1].at = time'

LEMMA BuiltStores ==
    ASSUME Shape, NEW s, NEW k, NEW h, Builds(s, k, h)
    PROVE  /\ Kept /\ Unlinked(s, h)
           /\ \A v, l : \A y \in Nodes : Seen(v, y, l)' => Seen(v, y, l)
<1>1. Kept
  <2>1. \A n \in Nodes : n \in Nodes' /\ node'[n] = node[n]
    BY Zenon DEF Builds
  <2>2. \A x \in DOMAIN next : x \in DOMAIN next' /\ next'[x] = next[x]
    BY Zenon DEF Builds
  <2> QED
    BY <2>1, <2>2, Zenon DEF Kept
<1>2. ASSUME NEW l \in 0..(h - 1)
      PROVE  /\ DOMAIN next'[s][l] = {1} /\ Len(next'[s][l]) = 1
             /\ next'[s][l][1].to = Null /\ next'[s][l][1].at = time'
  <2>1. PICK e, q : e = Store(Null, time', FALSE) /\ q = <<e>>
    BY Zenon
  <2>2. e.to = Null /\ e.at = time'
    BY <2>1 DEF Store
  <2>3. DOMAIN q = {1} /\ Len(q) = 1 /\ q[1] = e
    BY <2>1
  <2>4. next'[s][l] = q
    BY <2>1, Zenon DEF Builds
  <2> QED
    BY <2>2, <2>3, <2>4, Zenon
<1>3. ASSUME NEW v, NEW l, NEW y \in Nodes, Seen(v, y, l)'
      PROVE  Seen(v, y, l)
  <2>1. PICK x \in DOMAIN next' : l \in DOMAIN next'[x] /\ \E i \in DOMAIN next'[x][l] :
           next'[x][l][i].to = y /\ next'[x][l][i].release /\ next'[x][l][i].at <= v
    BY <1>3, Zenon DEF Seen
  <2>2. PICK i \in DOMAIN next'[x][l] :
           next'[x][l][i].to = y /\ next'[x][l][i].release /\ next'[x][l][i].at <= v
    BY <2>1, Zenon
  <2>3. y # Null
    BY KeysAreNumbers, Zenon
  <2>4. ASSUME x = s PROVE FALSE
    <3>1. l \in 0..(h - 1)
      BY <2>1, <2>4, Zenon DEF Builds
    <3>2. DOMAIN next'[s][l] = {1} /\ next'[s][l][1].to = Null
      BY <1>2, <3>1, Zenon
    <3>3. i = 1
      BY <2>2, <2>4, <3>2, Zenon
    <3> QED
      BY <2>2, <2>3, <2>4, <3>2, <3>3, Zenon
  <2>5. x \in DOMAIN next /\ next'[x] = next[x]
    BY <2>1, <2>4, Zenon DEF Builds
  <2> QED
    BY <2>1, <2>2, <2>5, Zenon DEF Seen
<1> QED
  BY <1>1, <1>2, <1>3, Zenon DEF Unlinked

LEMMA HeightType ==
    ASSUME max_height_ \in Seq([to : 1..kMaxHeight, at : Nat]) \ {<<>>}
    PROVE  Height \in 1..kMaxHeight /\ Height \in Nat
<1> DEFINE R == [to : 1..kMaxHeight, at : Nat]
<1>1. \A r \in R : r.to \in 1..kMaxHeight
  OBVIOUS
<1> HIDE DEF R
<1>2. max_height_ \in Seq(R) \ {<<>>}
  BY DEF R
<1>3. max_height_[Len(max_height_)] \in R
  BY <1>2
<1>4. Height \in 1..kMaxHeight
  BY <1>1, <1>3, Zenon DEF Height, Newest
<1> QED
  BY <1>4

\* The height of the list is at least that of the new node.
LEMMA HeightRaised ==
    ASSUME Shape, max_height_ \in Seq([to : 1..kMaxHeight, at : Nat]) \ {<<>>},
           NEW k, NEW h \in 1..kMaxHeight, InsertStart(k, h)
    PROVE  /\ max_height_' \in Seq([to : 1..kMaxHeight, at : Nat]) \ {<<>>}
           /\ Height' \in Nat /\ Height \in Nat /\ Height <= Height' /\ h <= Height'
<1> PICK e : e = [to |-> h, at |-> time + 1]
  BY Zenon
<1>1. max_height_' = IF h > Height THEN Append(max_height_, e) ELSE max_height_
  BY Zenon DEF InsertStart
<1>2. Height \in Nat
  BY HeightType
<1> PICK R : R = [to : 1..kMaxHeight, at : Nat]
  BY Zenon
<1>3. e \in R /\ e.to = h
  BY DEF Shape
<1>4. max_height_ \in Seq(R) \ {<<>>}
  BY Zenon
<1>5. CASE h > Height
  <2>1. max_height_' = Append(max_height_, e)
    BY <1>1, <1>5
  <2>2. max_height_' \in Seq(R) \ {<<>>} /\ max_height_'[Len(max_height_')] = e
    BY ONLY SMTT(30), <1>3, <1>4, <2>1
  <2>3. Height' = h
    BY <1>3, <2>2, Zenon DEF Height, Newest
  <2> QED
    BY <1>2, <1>5, <2>2, <2>3
<1>6. CASE ~(h > Height)
  <2>1. max_height_' = max_height_
    BY <1>1, <1>6
  <2>2. Height' = Height
    BY <2>1, Zenon DEF Height
  <2> QED
    BY <1>2, <1>6, <2>1, <2>2
<1> QED
  BY <1>5, <1>6

LEMMA InsertOrder ==
    ASSUME NatWellOrdered, IInv, OInv, IInv', NEW k \in Keys, NEW h \in 1..kMaxHeight,
           InsertStart(k, h)
    PROVE  OInv'
<1> PICK s : s = Len(node) + 1
  BY Zenon
<1>1. Shape /\ Builds(s, k, h)
  BY Built, Zenon DEF IInv
<1>2. /\ writer.pc = "insert" /\ ~Writing
      /\ UNCHANGED <<size_, last_sequence_, retired, unlocked, reader>>
  <2>1. /\ writer.pc = "insert"
        /\ UNCHANGED <<size_, last_sequence_, retired, unlocked, reader>>
    BY Zenon DEF InsertStart
  <2> QED
    BY <2>1, Zenon DEF Writing
<1> PICK prev : prev = [l \in 0..(h - 1) |-> IF l < Height THEN Prev(k, s, l) ELSE head_]
  BY Zenon
<1>3. /\ writer'.pc = "link" /\ writer'.level = 0 /\ writer'.prev = prev
      /\ writer'.left = writer.left /\ Writing'
  <2>1. DOMAIN writer = {"pc", "prev", "level", "left"}
    BY Zenon DEF IInv, WriterInv
  <2>2. writer' = [writer EXCEPT !.pc = "link", !.level = 0, !.prev = prev]
    BY Zenon DEF InsertStart
  <2>3. /\ writer'.pc = "link" /\ writer'.level = 0 /\ writer'.prev = prev
        /\ writer'.left = writer.left
    BY <2>1, <2>2
  <2> QED
    BY <2>3, Zenon DEF Writing
<1>4. /\ s \in Nat /\ s > 0 /\ s \notin Nodes /\ s # head_ /\ s \notin DOMAIN next
      /\ Nodes' = Nodes \cup {s} /\ NewestNode' = s /\ Len(node') = s
      /\ node'[s].key = k /\ node'[s].height = h
      /\ \A n \in Nodes : node'[n] = node[n]
      /\ DOMAIN next' = DOMAIN next \cup {s} /\ DOMAIN next'[s] = 0..(h - 1)
      /\ \A x \in DOMAIN next : next'[x] = next[x]
      /\ time < time' /\ time' \in Nat /\ time \in Nat
  BY <1>1, Zenon DEF Builds, Shape
<1>5. /\ \A a, b \in Nodes : Before(a, b)' <=> Before(a, b)
      /\ \A a \in Nodes : Before(a, s)' <=> Precedes(a, k, s)
      /\ \A y \in Nodes : \A x \in {head_} \cup Nodes : Follows(y, x)' <=> Follows(y, x)
      /\ \A y \in Nodes : \A x \in {head_} \cup Nodes : \A m :
            m.to = Null \/ m.to \in Nodes => (Skips(x, m, y)' <=> Skips(x, m, y))
  BY <1>1, BuiltOrder, Zenon
<1>6. /\ Kept
      /\ \A l \in 0..(h - 1) :
            /\ DOMAIN next'[s][l] = {1} /\ Len(next'[s][l]) = 1
            /\ next'[s][l][1].to = Null /\ next'[s][l][1].at = time'
      /\ \A v, l : \A y \in Nodes : Seen(v, y, l)' => Seen(v, y, l)
  <2>1. /\ Kept /\ Unlinked(s, h)
        /\ \A v, l : \A y \in Nodes : Seen(v, y, l)' => Seen(v, y, l)
    BY <1>1, BuiltStores, Zenon
  <2> QED
    BY <2>1, Zenon DEF Unlinked
<1>7. \A l \in Levels : /\ In(l)' = In(l) /\ Placed(l)' = Placed(l)
                        /\ In(l) \subseteq Nodes /\ Placed(l) \subseteq {head_} \cup Nodes
  <2> SUFFICES ASSUME NEW l \in Levels
               PROVE  In(l)' = In(l) /\ Placed(l)' = Placed(l) /\ In(l) \subseteq Nodes
    BY Zenon DEF Placed
  <2>1. In(l) = {n \in Nodes : node[n].height > l}
    BY <1>2, Zenon DEF In, Linked
  <2>2. In(l)' = {n \in Nodes' : node'[n].height > l /\ (n = s => l < 0)}
    BY <1>3, <1>4, Zenon DEF In, Linked
  <2>3. ~(l < 0)
    BY DEF Levels
  <2>4. In(l)' = In(l)
    BY <1>4, <2>1, <2>2, <2>3, ZenonT(40)
  <2> QED
    BY <2>1, <2>4, Zenon DEF Placed
<1>8. \A l \in Levels : \A x \in Placed(l) : x \in DOMAIN next /\ l \in DOMAIN next[x] /\ next'[x][l] = next[x][l]
  BY <1>1, <1>4, PlacedAt, Zenon
<1>9. Pointers'
  <2>1. ASSUME NEW x \in DOMAIN next, NEW l \in DOMAIN next[x], NEW i \in DOMAIN next[x][l],
               NEW m, m = next[x][l][i]
        PROVE  GoodPointer(x, l, i, m)'
    <3>1. GoodPointer(x, l, i, m)
      BY <2>1, Zenon DEF OInv, Pointers
    <3>2. l \in Levels /\ m.at \in Nat /\ x \in {head_} \cup Nodes
      BY <1>1, <2>1, LevelsOf, Locations, Zenon
    <3>3. m.at <= time'
      BY ONLY SMTT(30), <1>4, <3>1, <3>2 DEF GoodPointer
    <3>4. ASSUME m.to # Null
          PROVE  /\ m.to \in In(l)' /\ Follows(m.to, x)'
                 /\ 2 \in DOMAIN next'[m.to][l] /\ next'[m.to][l][2].at <= m.at
                 /\ ~m.release => i = 2 /\ x # head_
      <4>1. /\ m.to \in In(l) /\ Follows(m.to, x)
            /\ 2 \in DOMAIN next[m.to][l] /\ next[m.to][l][2].at <= m.at
            /\ ~m.release => i = 2 /\ x # head_
        BY <3>1, <3>4, Zenon DEF GoodPointer
      <4>2. next'[m.to][l] = next[m.to][l]
        BY <1>8, <3>2, <4>1, Zenon DEF Placed
      <4>3. m.to \in Nodes
        BY <1>7, <3>2, <4>1, Zenon
      <4> QED
        BY <1>5, <1>7, <3>2, <4>1, <4>2, <4>3, Zenon
    <3> QED
      BY <3>3, <3>4, Zenon DEF GoodPointer
  <2>2. ASSUME NEW l \in 0..(h - 1), NEW i \in DOMAIN next'[s][l], NEW m, m = next'[s][l][i]
        PROVE  GoodPointer(s, l, i, m)'
    <3>1. m.to = Null /\ m.at = time'
      <4>1. DOMAIN next'[s][l] = {1} /\ next'[s][l][1].to = Null /\ next'[s][l][1].at = time'
        BY <1>6, <2>2, Zenon
      <4>2. i = 1
        BY <2>2, <4>1, Zenon
      <4> QED
        BY <2>2, <4>1, <4>2, Zenon
    <3>2. m.at <= time'
      BY <1>4, <3>1
    <3> QED
      BY <3>1, <3>2, Zenon DEF GoodPointer
  <2>3. ASSUME NEW x \in DOMAIN next', NEW l \in DOMAIN next'[x], NEW i \in DOMAIN next'[x][l],
               NEW m, m = next'[x][l][i]
        PROVE  GoodPointer(x, l, i, m)'
    <3>1. CASE x = s
      BY <1>4, <2>2, <2>3, <3>1, Zenon
    <3>2. CASE x # s
      <4>1. x \in DOMAIN next /\ next'[x] = next[x]
        BY <1>4, <3>2, Zenon
      <4> QED
        BY <2>1, <2>3, <4>1, Zenon
    <3> QED
      BY <3>1, <3>2
  <2> QED
    BY <2>3, Zenon DEF Pointers
<1>10. Upwards'
  <2>1. ASSUME NEW x \in Nodes', NEW l \in DOMAIN next'[x]
        PROVE  /\ x \in In(l)' => 2 \in DOMAIN next'[x][l]
               /\ 2 \in DOMAIN next'[x][l] =>
                    \A j \in 0..l : 2 \in DOMAIN next'[x][j] /\ next'[x][j][2].at <= next'[x][l][2].at
    <3>1. CASE x = s
      <4>1. l \in 0..(h - 1) /\ l \in Levels
        <5>1. l \in 0..(h - 1)
          BY <1>4, <3>1, Zenon
        <5> QED
          BY <5>1, SkipListAssumption DEF Levels
      <4>2. DOMAIN next'[x][l] = {1} /\ 2 # 1
        BY ONLY SMTT(30), <1>6, <3>1, <4>1
      <4>3. x \notin In(l)'
        BY <1>4, <1>7, <3>1, <4>1, Zenon
      <4> QED
        BY <4>2, <4>3, Zenon
    <3>2. CASE x # s
      <4>1. x \in Nodes
        BY <1>4, <3>2, Zenon
      <4>2. x \in DOMAIN next /\ next'[x] = next[x]
        BY <1>1, <1>4, <4>1, Zenon DEF Shape
      <4>3. l \in Levels
        BY <1>1, <4>2, LevelsOf, Zenon
      <4>4. In(l)' = In(l) /\ l \in DOMAIN next[x]
        BY <1>7, <4>2, <4>3, Zenon
      <4>5. /\ x \in In(l) => 2 \in DOMAIN next[x][l]
            /\ 2 \in DOMAIN next[x][l] =>
                 \A j \in 0..l : 2 \in DOMAIN next[x][j] /\ next[x][j][2].at <= next[x][l][2].at
        BY <4>1, <4>4, Zenon DEF OInv, Upwards
      <4> QED
        BY <4>2, <4>4, <4>5, Zenon
    <3> QED
      BY Zenon, <3>1, <3>2
  <2> QED
    BY <2>1, Zenon DEF Upwards
<1>11. \A l \in Levels : \A x \in Placed(l) : \A i \in DOMAIN next[x][l] :
          next[x][l][i].to = Null \/ next[x][l][i].to \in Nodes
  <2> SUFFICES ASSUME NEW l \in Levels, NEW x \in Placed(l), NEW i \in DOMAIN next[x][l]
               PROVE  next[x][l][i].to = Null \/ next[x][l][i].to \in Nodes
    BY Zenon
  <2>1. GoodPointer(x, l, i, next[x][l][i])
    BY <1>8, Zenon DEF OInv, Pointers
  <2> QED
    BY <1>7, <2>1, Zenon DEF GoodPointer
<1>12. Chain'
  <2>1. ASSUME NEW l \in Levels, NEW x \in Placed(l), NEW y \in In(l), NEW m, m = Newest(next[x][l])
        PROVE  ~Skips(x, m, y)'
    <3>1. m.to = Null \/ m.to \in Nodes
      <4>1. Len(next[x][l]) \in DOMAIN next[x][l] /\ m = next[x][l][Len(next[x][l])]
        BY <1>1, <1>8, <2>1, NewestStore, Zenon
      <4> QED
        BY <1>11, <4>1, Zenon
    <3>2. ~Skips(x, m, y)
      BY <2>1, Zenon DEF OInv, Chain
    <3>3. x \in {head_} \cup Nodes /\ y \in Nodes
      BY <1>7, Zenon
    <3> QED
      BY <1>5, <3>1, <3>2, <3>3, Zenon
  <2> QED
    BY <1>7, <1>8, <2>1, Zenon DEF Chain
<1>13. Stale'
  <2>1. ASSUME NEW l \in Levels, NEW x \in Placed(l), NEW y \in In(l), NEW i, NEW q, q = next[x][l],
               i \in DOMAIN q
        PROVE  StaleAt(x, y, l, i, q)'
    <3>1. x \in {head_} \cup Nodes /\ y \in Nodes
      BY <1>7, Zenon
    <3>2. q[i].to = Null \/ q[i].to \in Nodes
      BY <1>11, <2>1, Zenon
    <3>3. StaleAt(x, y, l, i, q)
      BY <2>1, Zenon DEF OInv, Stale
    <3>4. PICK m : m = q[i]
      BY Zenon
    <3>5. Skips(x, m, y)' => Skips(x, m, y)
      BY <1>5, <3>1, <3>2, <3>4, Zenon
    <3>6. ASSUME NEW v, Seen(v, y, l)'
          PROVE  Seen(v, y, l)
      BY <1>6, <3>1, <3>6, Zenon
    <3> QED
      BY <3>3, <3>4, <3>5, <3>6, Zenon DEF StaleAt
  <2> QED
    BY <1>7, <1>8, <2>1, Zenon DEF Stale
<1>14. Place'
  <2>1. ASSUME NEW l \in 0..(h - 1), NEW p, p = prev[l]
        PROVE  /\ p \in Placed(l)' /\ Follows(s, p)'
               /\ \A y \in In(l)' : ~(Follows(y, p)' /\ Before(y, s)')
               /\ Len(next'[s][l]) = 1
    <3>1. l \in Levels /\ l \in Nat
      BY SkipListAssumption DEF Levels
    <3>2. In(l) = Linked(l)
      BY <1>2, Zenon DEF In
    <3>3. CASE l < Height
      <4> PICK S : S = {n \in Linked(l) : Precedes(n, k, s)}
        BY Zenon
      <4>1. p = LastOf(S) /\ S \in SUBSET Nodes /\ S \subseteq In(l)
            /\ \A y \in S : Precedes(y, k, s)
        BY <2>1, <3>2, <3>3, Zenon DEF Prev, Linked
      <4>2. CASE S = {}
        <5>1. p = head_
          BY <4>1, <4>2, Zenon DEF LastOf
        <5>2. \A y \in In(l) : y \in Nodes /\ ~Precedes(y, k, s)
          BY <1>7, <3>1, <3>2, <4>2, Zenon
        <5> QED
          BY <1>5, <1>6, <1>7, <3>1, <5>1, <5>2, Zenon DEF Placed, Follows
      <4>3. CASE S # {}
        <5>1. p \in S /\ \A m \in S : m = p \/ Before(m, p)
          BY <1>1, <4>1, <4>3, LastOfNodes, Zenon DEF Before
        <5>2. p \in Nodes /\ p \in In(l) /\ p # head_ /\ Precedes(p, k, s)
          BY <1>1, <4>1, <5>1, KeysAreNumbers, Zenon
        <5>3. p \in Placed(l)' /\ Follows(s, p)'
          BY <1>5, <1>7, <3>1, <5>2, Zenon DEF Placed, Follows
        <5>4. ASSUME NEW y \in In(l), Follows(y, p)', Before(y, s)'
              PROVE  FALSE
          <6>1. y \in Nodes /\ Precedes(y, k, s) /\ Before(p, y)
            BY <1>5, <1>7, <3>1, <5>2, <5>4, Zenon DEF Follows
          <6>2. y \in S
            BY <3>2, <6>1, Zenon
          <6>3. y = p \/ Before(y, p)
            BY <5>1, <6>2, Zenon
          <6> QED
            BY <1>1, <5>2, <6>1, <6>3, BeforeOrders, Zenon
        <5> QED
          BY <1>6, <1>7, <3>1, <5>3, <5>4, Zenon
      <4> QED
        BY <4>2, <4>3
    <3>4. CASE ~(l < Height)
      <4>1. p = head_
        BY <2>1, <3>4, Zenon
      <4>2. \A n \in Nodes : ~(node[n].height > l)
        <5>1. Height \in Nat
          <6>1. max_height_ \in Seq([to : 1..kMaxHeight, at : Nat]) \ {<<>>}
            BY Zenon DEF OInv, Counts
          <6> QED
            BY <6>1, HeightType, Zenon
        <5>2. \A n \in Nodes : node[n].height <= Height /\ node[n].height \in Nat
          BY <1>1, NodeTypes, Zenon DEF OInv, Counts, Shape
        <5> QED
          BY <3>1, <3>4, <5>1, <5>2
      <4>3. In(l) = {}
        BY <3>2, <4>2, Zenon DEF Linked
      <4> QED
        BY <1>6, <1>7, <3>1, <4>1, <4>3, Zenon DEF Placed, Follows
    <3> QED
      BY <3>3, <3>4
  <2>2. writer'.pc # "publish"
    BY <1>3
  <2> QED
    BY <1>3, <1>4, <2>1, <2>2, Zenon DEF Place
<1>15. Known'
  <2>1. \A l \in Levels : \A y \in In(l)' : Seen(time, y, l)'
    <3>1. time <= time'
      BY <1>4
    <3> QED
      BY <1>1, <1>6, <1>7, <3>1, KeptKnown, Zenon DEF OInv, Known, IInv
  <2>2. SeenUpTo(unlocked, retired)'
    BY <1>1, <1>2, <1>6, UnlockedKept, Zenon DEF OInv
  <2> QED
    BY <2>1, <2>2, Zenon DEF Known
<1>16. Counts'
  <2>1. /\ max_height_ \in Seq([to : 1..kMaxHeight, at : Nat]) \ {<<>>}
        /\ \A x \in Nodes : node[x].height <= Height
        /\ writer.left \in Nat /\ last_sequence_ \in Nat /\ retired \in Nat /\ writer.left > 0
        /\ last_sequence_ = Len(node) + writer.left
        /\ size_ = Len(node) - 0
        /\ retired <= size_ /\ unlocked <= time
    BY <1>2, Zenon DEF OInv, Counts
  <2>2. /\ max_height_' \in Seq([to : 1..kMaxHeight, at : Nat]) \ {<<>>}
        /\ Height' \in Nat /\ Height \in Nat /\ Height <= Height' /\ h <= Height'
    BY <1>1, <2>1, HeightRaised, Zenon
  <2>3. \A x \in Nodes' : node'[x].height <= Height'
    <3>1. \A x \in Nodes : node[x].height \in Nat
      BY <1>1, NodeTypes, Zenon DEF Shape
    <3>2. ASSUME NEW x \in Nodes PROVE node[x].height <= Height'
      <4>1. /\ node[x].height <= Height /\ node[x].height \in Nat
            /\ Height' \in Nat /\ Height \in Nat /\ Height <= Height'
        BY <2>1, <2>2, <3>1, Zenon
      <4> QED
        BY <4>1
    <3> QED
      BY <1>4, <2>2, <3>2, Zenon
  <2>4. Len(node) \in Nat /\ unlocked <= time'
    BY ONLY SMTT(30), <1>1, <1>4, <2>1, NodeTypes DEF Shape
  <2>5. /\ last_sequence_ = Len(node') + (writer.left - 1) /\ size_ = Len(node') - 1
    <3>1. Len(node') = Len(node) + 1
      BY <1>4, Zenon
    <3>2. /\ last_sequence_ = Len(node) + writer.left /\ size_ = Len(node) - 0
          /\ Len(node) \in Nat /\ writer.left \in Nat
      BY <2>1, <2>4, Zenon
    <3> QED
      BY <3>1, <3>2
  <2> QED
    BY <1>2, <1>3, <2>1, <2>2, <2>3, <2>4, <2>5, Zenon DEF Counts
<1>17. ReaderKnows'
  <2>1. retired' \in Nat /\ retired <= retired'
    BY <1>2 DEF OInv, Counts
  <2>2. \A l \in Levels : In(l) \subseteq In(l)'
    BY <1>7, Zenon
  <2> QED
    BY <1>2, <1>6, <2>1, <2>2, ReaderKept, Zenon DEF OInv
<1> QED
  BY <1>9, <1>10, <1>12, <1>13, <1>14, <1>15, <1>16, <1>17, Zenon DEF OInv

-----------------------------------------------------------------------------
(* The order of the list is kept *)

LEMMA InitOrder == Init => OInv
<1> SUFFICES ASSUME Init PROVE OInv
  OBVIOUS
<1>1. /\ Nodes = {} /\ Len(node) = 0
      /\ Shape
  <2>1. IInv
    BY InitInv
  <2>2. node = <<>>
    BY Zenon DEF Init
  <2> QED
    BY <2>1, <2>2 DEF Nodes, IInv
<1>2. \A l : In(l) = {} /\ Placed(l) = {head_}
  <2>1. \A l : In(l) = {}
    BY <1>1, Zenon DEF In, Linked
  <2> QED
    BY <2>1, Zenon DEF Placed
<1>3. ~Writing /\ writer.pc = "idle" /\ writer.left = 0 /\ reader.pc = "idle"
  BY Zenon DEF Init, NoWriter, NoReader, Writing
<1>4. Counts
  <2>1. max_height_ = <<[to |-> 1, at |-> 0]>> /\ 1 \in 1..kMaxHeight
    BY SkipListAssumption DEF Init
  <2>2. max_height_ \in Seq([to : 1..kMaxHeight, at : Nat]) \ {<<>>}
    BY <2>1
  <2>3. /\ size_ = 0 /\ last_sequence_ = 0 /\ retired = 0 /\ unlocked = 0 /\ time = 0
    BY Zenon DEF Init
  <2>4. /\ last_sequence_ = Len(node) + 0 /\ size_ = Len(node) - 0
        /\ retired <= size_ /\ unlocked <= time /\ writer.left \in Nat
        /\ last_sequence_ \in Nat /\ retired \in Nat
    BY <1>1, <1>3, <2>3
  <2>5. writer.pc \notin {"insert", "link", "publish"} /\ writer.pc # "insert"
    BY <1>3
  <2> QED
    BY <1>1, <1>3, <2>2, <2>4, <2>5, Zenon DEF Counts
<1>5. Pointers
  <2> SUFFICES ASSUME NEW x \in DOMAIN next, NEW l \in DOMAIN next[x], NEW i \in DOMAIN next[x][l]
               PROVE  GoodPointer(x, l, i, next[x][l][i])
    BY Zenon DEF Pointers
  <2>1. next = [y \in {head_} |-> [j \in Levels |-> <<Store(Null, 0, FALSE)>>]] /\ time = 0
    BY Zenon DEF Init
  <2>2. next[x][l] = <<Store(Null, 0, FALSE)>>
    BY <2>1, Zenon
  <2>3. i = 1 /\ next[x][l][i] = Store(Null, 0, FALSE)
    <3> PICK m : m = Store(Null, 0, FALSE)
      BY Zenon
    <3>1. next[x][l] = <<m>>
      BY <2>2, Zenon
    <3>2. i \in DOMAIN <<m>>
      BY <3>1, Zenon
    <3>3. i = 1 /\ <<m>>[1] = m
      BY <3>2
    <3> QED
      BY <3>1, <3>3, Zenon
  <2>4. next[x][l][i].to = Null /\ next[x][l][i].at <= time
    BY <2>1, <2>3 DEF Store
  <2> QED
    BY <2>4, Zenon DEF GoodPointer
<1>6. Upwards /\ Chain /\ Stale
  BY <1>1, <1>2, Zenon DEF Upwards, Chain, Stale
<1>7. Place
  BY <1>3, Zenon DEF Place
<1>8. Known
  <2>1. retired = 0
    BY Zenon DEF Init
  <2>2. 1..0 = {}
    OBVIOUS
  <2> QED
    BY <1>2, <2>1, <2>2, Zenon DEF Known, SeenUpTo
<1>9. ReaderKnows
  BY Zenon, <1>3 DEF ReaderKnows
<1> QED
  BY <1>4, <1>5, <1>6, <1>7, <1>8, <1>9, Zenon DEF OInv

\* A reader stores nothing: what it leaves behind is the list as it was.
LEMMA ReadOrder ==
    ASSUME IInv, OInv, ReaderKnows', UNCHANGED <<list, last_sequence_, writer, retired, unlocked>>
    PROVE  OInv'
<1>1. /\ UNCHANGED list /\ writer' = writer /\ retired' = retired /\ unlocked' = unlocked
      /\ last_sequence_' = last_sequence_
  BY Zenon
<1>2. /\ node' = node /\ next' = next /\ time' = time /\ size_' = size_ /\ max_height_' = max_height_
  BY <1>1, Zenon DEF list
<1>3. /\ Pointers' /\ Upwards' /\ Chain' /\ Place' /\ Stale'
      /\ \A l \in Levels : \A y \in In(l)' : Seen(time, y, l)'
  BY <1>1, SameList, Zenon
<1>4. Counts'
  <2>1. Counts
    BY Zenon DEF OInv
  <2> QED
    BY <1>1, <1>2, <2>1, Zenon DEF Counts, Height, Writing, Nodes
<1>5. SeenUpTo(unlocked, retired)'
  <2>1. \A v, n : SeenUpTo(v, n)' <=> SeenUpTo(v, n)
    BY <1>2, SameOrder, Zenon
  <2>2. SeenUpTo(unlocked, retired)
    BY Zenon DEF OInv, Known
  <2> QED
    BY <1>1, <2>1, <2>2, Zenon DEF SeenUpTo
<1>6. Known'
  BY <1>3, <1>5, Zenon DEF Known
<1> QED
  BY <1>3, <1>4, <1>6, Zenon DEF OInv

LEMMA NextOrder ==
    ASSUME NatWellOrdered, IInv, OInv, IInv', [Next]_vars
    PROVE  OInv'
<1>1. CASE Write
  BY <1>1, GroupOrder, InsertOrder, LinkOrder, PublishOrder, Zenon DEF Write
<1>2. CASE Read
  <2>1. ReaderKnows'
    BY <1>2, SeekKnows, FindStepKnows, SeekToFirstKnows, NextEntryKnows, Zenon DEF Read
  <2>2. UNCHANGED <<list, last_sequence_, writer, retired, unlocked>>
    BY <1>2, Zenon DEF Read, Seek, FindStep, SeekToFirst, NextEntry
  <2> QED
    BY <2>1, <2>2, ReadOrder, Zenon
<1>3. CASE UNCHANGED vars
  <2>1. UNCHANGED <<list, last_sequence_, writer, retired, unlocked>> /\ reader' = reader
    BY <1>3, Zenon DEF vars
  <2>2. UNCHANGED list /\ retired' = retired /\ writer' = writer
    BY <2>1, Zenon
  <2>3. Kept
    BY <2>2, KeptList
  <2>4. \A l \in Levels : In(l) \subseteq In(l)'
    <3>1. node' = node
      BY <2>2, Zenon DEF list
    <3> QED
      BY <2>2, <3>1, Zenon DEF In, Linked, Nodes, NewestNode, Writing
  <2>5. retired' \in Nat /\ retired <= retired'
    BY <2>2 DEF OInv, Counts
  <2>6. ReaderKnows'
    BY <2>1, <2>3, <2>4, <2>5, ReaderKept, Zenon DEF OInv
  <2> QED
    BY <2>1, <2>6, ReadOrder, Zenon
<1> QED
  BY <1>1, <1>2, <1>3, Zenon DEF Next

\* The node that is in front of n on a level points to it.
LEMMA OnLevel ==
    ASSUME NatWellOrdered, IInv, OInv, NEW k \in Levels, NEW n \in In(k)
    PROVE  \E y \in DOMAIN next :
              k \in DOMAIN next[y] /\ Newest(next[y][k]).to = n
<1>1. Shape
  BY Zenon DEF IInv
<1>2. In(k) \subseteq Nodes
  BY <1>1, InNodes, Zenon
<1> PICK S : S = {y \in In(k) : Before(y, n)}
  BY Zenon
<1> PICK p : p = LastOf(S)
  BY Zenon
<1>3. S \in SUBSET Nodes
  BY <1>2, Zenon
<1>4. /\ p \in S \cup {head_}
      /\ S # {} => p \in S /\ \A y \in S : y = p \/ Before(y, p)
  BY <1>1, <1>3, LastOfNodes, Zenon DEF Before
<1>5. p \in Placed(k) /\ Follows(n, p)
  BY <1>4, Zenon DEF Placed, Follows
<1>6. p \in DOMAIN next /\ k \in DOMAIN next[p]
  BY <1>1, <1>5, PlacedAt, Zenon
<1> PICK m : m = Newest(next[p][k])
  BY Zenon
<1>7. ~Skips(p, m, n)
  BY <1>1, <1>5, Zenon DEF OInv, Chain
<1>8. m.to # Null /\ ~Before(n, m.to)
  BY <1>5, <1>7, Zenon DEF Skips
<1>9. m.to \in In(k) /\ Follows(m.to, p)
  <2>1. Len(next[p][k]) \in DOMAIN next[p][k] /\ m = next[p][k][Len(next[p][k])]
    BY <1>1, <1>6, NewestStore, Zenon
  <2>2. GoodPointer(p, k, Len(next[p][k]), m)
    BY <1>6, <2>1, Zenon DEF OInv, Pointers
  <2> QED
    BY <1>8, <2>2, Zenon DEF GoodPointer
<1>10. ASSUME Before(m.to, n) PROVE FALSE
  <2>1. m.to \in S
    BY <1>9, <1>10, Zenon
  <2>2. p \in Nodes /\ (m.to = p \/ Before(m.to, p))
    BY <1>3, <1>4, <2>1, Zenon
  <2>3. p # head_
    BY <1>1, <2>2, KeysAreNumbers, Zenon
  <2>4. Before(p, m.to)
    BY <1>9, <2>3, Zenon DEF Follows
  <2> QED
    BY <1>1, <1>2, <1>9, <2>2, <2>4, BeforeOrders, Zenon
<1>11. m.to = n
  BY <1>1, <1>2, <1>8, <1>9, <1>10, BeforeOrders, Zenon
<1> QED
  BY <1>6, <1>11, Zenon

Pointed(k, n) == \E y \in DOMAIN next : k \in DOMAIN next[y] /\ Newest(next[y][k]).to = n

LEMMA InOrder == ASSUME NatWellOrdered, IInv, OInv PROVE Sorted
<1>1. ASSUME NEW x \in DOMAIN next, NEW l \in DOMAIN next[x], NEW n, n = Newest(next[x][l]).to,
             n # Null
      PROVE  /\ x # head_ => Precedes(x, node[n].key, n)
             /\ node[n].height > l
             /\ l > 0 => Pointed(l - 1, n)
  <2>1. Shape /\ l \in Levels
    BY LevelsOf, Zenon DEF IInv
  <2>2. n \in In(l) /\ Follows(n, x)
    <3> PICK m : m = Newest(next[x][l])
      BY Zenon
    <3>1. Len(next[x][l]) \in DOMAIN next[x][l] /\ m = next[x][l][Len(next[x][l])]
      BY <2>1, NewestStore, Zenon
    <3>2. GoodPointer(x, l, Len(next[x][l]), m)
      BY <3>1, Zenon DEF OInv, Pointers
    <3> QED
      BY <1>1, <3>2, Zenon DEF GoodPointer
  <2>3. node[n].height > l /\ n \in Nodes
    BY <2>1, <2>2, InNodes, Zenon
  <2>4. ASSUME l > 0 PROVE l - 1 \in Levels /\ n \in In(l - 1)
    <3>1. n \in Linked(l) /\ (Writing /\ n = NewestNode => l < writer.level)
      BY <2>2, Zenon DEF In
    <3>2. l - 1 \in Levels /\ l - 1 < l
      BY <2>1, <2>4, SkipListAssumption DEF Levels
    <3>3. n \in Linked(l - 1)
      <4>1. node[n].height \in Nat
        BY <2>1, <2>3, NodeTypes, Zenon DEF Shape
      <4>2. node[n].height > l - 1
        BY <2>1, <2>3, <4>1 DEF Levels
      <4> QED
        BY <2>3, <4>2, Zenon DEF Linked
    <3>4. ASSUME Writing, n = NewestNode PROVE l - 1 < writer.level
      <4>1. writer.level \in Int
        <5>1. writer.level \in 0..(node[NewestNode].height - 1)
          BY <3>4, Zenon DEF IInv, WriterInv, Writing
        <5> QED
          BY <5>1
      <4> QED
        BY <2>1, <3>1, <3>4, <4>1 DEF Levels
    <3> QED
      BY <3>2, <3>3, <3>4, Zenon DEF In
  <2>5. l > 0 => Pointed(l - 1, n)
    BY <2>4, OnLevel, Zenon DEF Pointed
  <2> QED
    BY <2>2, <2>3, <2>5, Zenon DEF Follows, Before
<1>2. size_ = Len(node) - IF writer.pc \in {"link", "publish"} THEN 1 ELSE 0
  BY Zenon DEF OInv, Counts, Writing
<1>3. ASSUME NEW x \in DOMAIN next, NEW l \in DOMAIN next[x], Newest(next[x][l]).to # Null
      PROVE  LET n == Newest(next[x][l]).to
             IN  /\ x # head_ => Precedes(x, node[n].key, n)
                 /\ node[n].height > l
                 /\ l > 0 => Pointed(l - 1, n)
  <2> DEFINE n == Newest(next[x][l]).to
  <2>1. n = Newest(next[x][l]).to /\ n # Null
    BY <1>3, Zenon
  <2> HIDE DEF n
  <2>2. /\ x # head_ => Precedes(x, node[n].key, n)
        /\ node[n].height > l
        /\ l > 0 => Pointed(l - 1, n)
    BY ONLY SMTT(30), <1>1, <2>1
  <2> QED
    BY <2>2, Zenon DEF n
<1> QED
  BY <1>2, <1>3, Zenon DEF Sorted, Pointed

LEMMA ScansMeetAll == OInv => ScanComplete
<1> SUFFICES ASSUME OInv, reader.pc = "at", reader.x = Null
             PROVE  {n \in 1..reader.sure : reader.key = 0 \/
                        ~Precedes(n, reader.key, reader.seq)} \subseteq reader.visited
  BY Zenon DEF ScanComplete
<1>1. \A y \in 1..reader.sure :
         (reader.key = 0 \/ ~Precedes(y, reader.key, reader.seq)) =>
             y \in reader.visited \/ (reader.x # Null /\ Before(reader.x, y))
  BY Zenon DEF OInv, ReaderKnows
<1> QED
  BY <1>1, Zenon

LEMMA GetsFindNewest == OInv => GetFindsNewest
BY Zenon DEF OInv, ReaderKnows, GetFindsNewest

-----------------------------------------------------------------------------
(* The theorems *)

LOCAL INSTANCE WellFoundedInduction

\* The least-number principle, from the well-foundedness of < on Nat.
LEMMA LeastNat == NatWellOrdered
<1> SUFFICES ASSUME NEW T \in SUBSET Nat, T # {}
             PROVE  \E x \in T : \A y \in T : x <= y
  BY Zenon DEF NatWellOrdered
<1> DEFINE R == OpToRel(<, Nat)
<1>1. IsWellFoundedOn(R, Nat)
  BY Zenon, NatLessThanWellFounded
<1>2. \A x, y \in Nat : <<y, x>> \in R <=> y < x
  BY DEF OpToRel
<1> HIDE DEF R
<1>3. PICK x \in T : \A y \in T : ~(<<y, x>> \in R)
  BY Zenon, <1>1, WFMin
<1>4. \A y \in T : ~(y < x)
  BY Zenon, <1>2, <1>3
<1> QED
  BY <1>4

\* skiplist.h: "a reader either sees the fully-built node or does not see it at
\* all".  Whatever the number of keys, entries, groups and levels, and whatever
\* a reader loads at any moment of an insert, the construction of the node it
\* comes to happened before the load: the release-store of SetNext, and for the
\* relaxed stores of NoBarrierSetNext the order in which nodes are built, are
\* enough.
THEOREM NoRace == Spec => []NoDataRace
<1>1. Init => IInv
  BY InitInv
<1>2. IInv /\ [Next]_vars => IInv'
  BY NextInv, LeastNat
<1>3. IInv => NoDataRace
  BY RaceFree
<1> QED
  BY <1>1, <1>2, <1>3, PTL DEF Spec

LEMMA OrderKept == Spec => [](IInv /\ OInv)
<1>1. Init => IInv /\ OInv
  BY InitInv, InitOrder
<1>2. (IInv /\ OInv) /\ [Next]_vars => (IInv /\ OInv)'
  BY NextInv, NextOrder, LeastNat, Zenon
<1> QED
  BY <1>1, <1>2, PTL DEF Spec

\* Insert, level by level, keeps the skip list sorted at every store: each
\* level is in the order of CompareInternalKey and a sublist of the one below,
\* also while a node is linked on some of its levels only, and size_ counts the
\* nodes whose Insert has returned.
THEOREM ListStaysSorted == Spec => []Sorted
<1>1. IInv /\ OInv => Sorted
  BY InOrder, LeastNat
<1> QED
  BY <1>1, OrderKept, PTL

\* MemTable::Get, without a lock, beside a writer: a lookup of a key at a
\* sequence number finds the newest version that was retired when it began, or
\* one that is newer and within the number, whatever stale height and stale
\* pointers FindGreaterOrEqual loads on its way down.
THEOREM GetsFindTheNewest == Spec => []GetFindsNewest
<1>1. OInv => GetFindsNewest
  BY GetsFindNewest
<1> QED
  BY <1>1, OrderKept, PTL

\* A scan, of a flush or of an iterator, that comes to the end of the list has
\* met every entry from its start on that was retired when it began, whatever
\* the writer has linked in beside it.
THEOREM ScansAreComplete == Spec => []ScanComplete
<1>1. OInv => ScanComplete
  BY ScansMeetAll
<1> QED
  BY <1>1, OrderKept, PTL

=============================================================================
