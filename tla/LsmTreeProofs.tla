---------------------------- MODULE LsmTreeProofs ----------------------------
(***************************************************************************)
(* Proofs about LsmTree, for every number of keys, levels, snapshots and   *)
(* entries: the reads of DB::Get and of a scan find the newest version of  *)
(* every key whatever flush and compaction moved or dropped, and the tree  *)
(* implements the map with snapshots of KVStore.                           *)
(*                                                                         *)
(* The core of the inductive invariant is that the sources of a key are    *)
(* layered from new to old (Layered), that what was written and is no      *)
(* longer stored is not missed by anybody (Kept), and that a flush or a    *)
(* compaction in flight, which runs without mu_, is still right when its   *)
(* result is installed (FlushRight, CompactRight).                         *)
(***************************************************************************)
EXTENDS LsmTree, FiniteSetTheorems, TLAPS

-----------------------------------------------------------------------------
(* The inductive invariant *)

\* Every key of S is below every key of T; one is below the other.
Below(S, T) == \A e \in S : \A f \in T : e.key < f.key
Apart(S, T) == Below(S, T) \/ Below(T, S)

\* What S has of a key is newer than what T has of it.
Newer(S, T) == \A e \in S : \A f \in T : e.key = f.key => e.seq > f.seq

EntriesOf(l) == UNION Range(levels[l])

Types ==
    /\ mem_ \subseteq Entry /\ imm_ \subseteq Entry /\ written \subseteq Entry
    /\ levels \in [Levels -> Seq(SUBSET Entry)]
    /\ \A l \in Levels : {} \notin Range(levels[l])
    /\ last_sequence_ \in 0..MaxSeq
    /\ DOMAIN snapshots_ \subseteq Snaps
    /\ Pinned \subseteq 0..last_sequence_
    /\ group \in Seq(Entry)
    /\ late \subseteq DOMAIN snapshots_

\* A sequence number names one entry, and a group is numbered in order, above
\* everything that was inserted before it.
Numbered ==
    /\ Everything \subseteq written
    /\ \A e \in written : e.seq <= last_sequence_
    /\ \A e \in written : \A f \in written : e.seq = f.seq => e = f
    /\ \A i \in DOMAIN group : group[i].seq <= last_sequence_
    /\ \A i \in DOMAIN group : \A e \in written : e.seq < group[i].seq
    /\ \A i \in DOMAIN group : \A j \in DOMAIN group :
          i < j => group[i].seq < group[j].seq

\* The snapshots taken since the group was numbered see all of it, the older
\* ones nothing.
LateSees ==
    /\ group = <<>> => late = {}
    /\ \A s \in DOMAIN snapshots_ : \A i \in DOMAIN group :
          IF s \in late THEN group[i].seq <= snapshots_[s]
          ELSE group[i].seq > snapshots_[s]

\* Below L0 the tables of a level are in the order of their keys.
Ordered ==
    \A l \in Levels \ {0} : \A i \in DOMAIN levels[l] :
        \A j \in DOMAIN levels[l] :
            i < j => Below(levels[l][i], levels[l][j])

\* The memtables, the tables of L0 and the levels below, from new to old.
Layered ==
    /\ Newer(mem_, imm_)
    /\ \A l \in Levels : Newer(mem_, EntriesOf(l)) /\ Newer(imm_, EntriesOf(l))
    /\ \A i \in DOMAIN levels[0] : \A j \in DOMAIN levels[0] :
          i < j => Newer(levels[0][i], levels[0][j])
    /\ \A l \in Levels : \A m \in Levels :
          l < m => Newer(EntriesOf(l), EntriesOf(m))

\* e is a tombstone all readers see, and S has nothing of the key for it to
\* hide.
Erased(e, S, smallest) ==
    /\ e.del /\ e.seq <= smallest
    /\ \A g \in S : g.key = e.key => g.seq > e.seq

\* An entry that is no longer stored was overwritten before every live
\* snapshot, or is a tombstone with nothing below it.
Kept ==
    \A e \in written \ Everything :
        \/ HiddenFromEveryone(e, written, SmallestSnapshot)
        \/ Erased(e, Everything, SmallestSnapshot)

\* The table a flush has written stands for imm_, for the snapshots that are
\* live by now: SmallestSnapshot was read when the flush started and has only
\* grown since.
FlushRight ==
    job.kind = "flush" =>
        \E t \in SUBSET imm_ :
            /\ job.outputs = {t} /\ t # {}
            /\ \A e \in imm_ \ t :
                  HiddenFromEveryone(e, imm_, SmallestSnapshot)

\* The same for the outputs of a compaction: the inputs are still in their two
\* levels, the tables of the next level that stay share no key with them, and
\* a tombstone was only dropped when no deeper level holds anything.
CompactRight ==
    LET l == job.level
        from == UNION job.inputs
        to == UNION job.outputs
    IN job.kind = "compact" =>
        /\ l \in Levels /\ l + 1 \in Levels
        /\ job.inputs \subseteq Range(levels[l]) \cup Range(levels[l + 1])
        /\ l = 0 => Range(levels[0]) \subseteq job.inputs
        /\ \A u \in Range(levels[l + 1]) \ job.inputs : Apart(u, from)
        /\ to \subseteq from
        /\ {} \notin job.outputs
        /\ \A t \in job.outputs : \A u \in job.outputs : t # u => Apart(t, u)
        /\ \A e \in from \ to :
              \/ HiddenFromEveryone(e, from, SmallestSnapshot)
              \/ Erased(e, to, SmallestSnapshot) /\ BottomMost(l)

JobOK ==
    /\ job.kind \in {"none", "flush", "compact"}
    /\ job.kind = "none" => job = NoJob
    /\ job.level \in Levels

Inv ==
    /\ Types /\ Numbered /\ LateSees /\ Ordered /\ Layered /\ Kept
    /\ JobOK /\ FlushRight /\ CompactRight

-----------------------------------------------------------------------------
(* Numbers, orders and sequences *)

\* Every set of natural numbers that is not empty has a least element.
LEMMA LeastNat ==
    ASSUME NEW T \in SUBSET Nat, T # {}
    PROVE  \E x \in T : \A y \in T : x <= y
<1> DEFINE R == OpToRel(<, Nat)
<1>1. IsWellFoundedOn(R, Nat)
  BY NatLessThanWellFounded
<1>2. \A x, y \in Nat : <<y, x>> \in R <=> y < x
  BY DEF OpToRel
<1> HIDE DEF R
<1>3. PICK x \in T : \A y \in T : ~(<<y, x>> \in R)
  BY <1>1, WFMin, Zenon
<1>4. \A y \in T : ~(y < x)
  BY <1>2, <1>3, Zenon
<1> QED
  BY <1>4

\* Min finds it.
LEMMA MinIsLeast ==
    ASSUME NEW T \in SUBSET Nat, T # {}
    PROVE  Min(T) \in T /\ \A y \in T : Min(T) <= y
  BY LeastNat, Zenon DEF Min

\* Max finds the greatest element of a set with an upper bound.
LEMMA MaxIsGreatest ==
    ASSUME NEW T \in SUBSET Nat, T # {}, NEW b \in Nat, \A y \in T : y <= b
    PROVE  Max(T) \in T /\ \A y \in T : y <= Max(T)
<1> DEFINE U == {b - y : y \in T}
<1>1. \A y \in T : b - y \in Nat
  OBVIOUS
<1>2. PICK u \in U : \A v \in U : u <= v
  <2>1. U \in SUBSET Nat /\ U # {}
    BY <1>1, Zenon
  <2> QED
    BY <2>1, LeastNat, Zenon
<1>3. PICK x \in T : u = b - x
  BY <1>2
<1>4. \A y \in T : y <= x
  BY ONLY SMTT(30), <1>2, <1>3
<1> QED
  BY ZenonT(40), <1>4 DEF Max

-----------------------------------------------------------------------------
(* Entries and tables *)

\* The fields of an entry.
LEMMA EntryFields ==
    ASSUME NEW e \in Entry
    PROVE  /\ e.key \in Nat /\ e.key \in Keys /\ e.key >= 1 /\ e.key <= NumKeys
           /\ e.seq \in Nat /\ e.seq >= 1 /\ e.seq <= MaxSeq
           /\ e.del \in BOOLEAN
  BY LsmTreeAssumption DEF Entry, Keys

\* The first and the last key of a table.
LEMMA KeyRange ==
    ASSUME NEW S \in SUBSET Entry, S # {}
    PROVE  /\ SmallestKey(S) \in Nat /\ LargestKey(S) \in Nat
           /\ \E e \in S : e.key = SmallestKey(S)
           /\ \E e \in S : e.key = LargestKey(S)
           /\ \A e \in S : SmallestKey(S) <= e.key /\ e.key <= LargestKey(S)
<1>1. KeysOf(S) \in SUBSET Nat /\ KeysOf(S) # {}
      /\ \A k \in KeysOf(S) : k <= NumKeys
  BY EntryFields DEF KeysOf
<1>2. NumKeys \in Nat
  BY LsmTreeAssumption
<1>3. Min(KeysOf(S)) \in KeysOf(S) /\ \A k \in KeysOf(S) : Min(KeysOf(S)) <= k
  BY <1>1, MinIsLeast, Zenon
<1>4. Max(KeysOf(S)) \in KeysOf(S) /\ \A k \in KeysOf(S) : k <= Max(KeysOf(S))
  BY <1>1, <1>2, MaxIsGreatest, Zenon
<1> QED
  BY <1>1, <1>3, <1>4, Zenon DEF SmallestKey, LargestKey, KeysOf

\* The newest of some entries.
LEMMA NewestIsLast ==
    ASSUME NEW S \in SUBSET Entry, S # {}
    PROVE  Newest(S) \in S /\ \A f \in S : f.seq <= Newest(S).seq
<1> DEFINE Q == {e.seq : e \in S}
<1>1. Q \in SUBSET Nat /\ Q # {} /\ (\A q \in Q : q <= MaxSeq) /\ MaxSeq \in Nat
  BY EntryFields, LsmTreeAssumption
<1>2. Max(Q) \in Q /\ \A q \in Q : q <= Max(Q)
  BY <1>1, MaxIsGreatest, Zenon
<1>3. \E e \in S : \A f \in S : f.seq <= e.seq
  BY <1>2, Zenon
<1> QED
  BY <1>3, Zenon DEF Newest

-----------------------------------------------------------------------------
(* What the invariant says of the reads *)

\* The tables of a level are sets of entries, none of them empty.
LEMMA LevelTables ==
    ASSUME Types, NEW l \in Levels
    PROVE  /\ levels[l] \in Seq(SUBSET Entry)
           /\ Len(levels[l]) \in Nat /\ DOMAIN levels[l] = 1..Len(levels[l])
           /\ \A i \in DOMAIN levels[l] :
                 /\ levels[l][i] \in SUBSET Entry /\ levels[l][i] # {}
                 /\ levels[l][i] \in Range(levels[l])
                 /\ levels[l][i] \subseteq EntriesOf(l)
           /\ EntriesOf(l) \subseteq Entry
           /\ EntriesOf(l) \subseteq Everything
           /\ Range(levels[l]) \in SUBSET (SUBSET Entry)
<1>1. levels[l] \in Seq(SUBSET Entry)
  BY Zenon DEF Types
<1>2. Len(levels[l]) \in Nat /\ DOMAIN levels[l] = 1..Len(levels[l])
      /\ \A i \in DOMAIN levels[l] : levels[l][i] \in SUBSET Entry
  BY <1>1
<1>3. \A i \in DOMAIN levels[l] : levels[l][i] \in Range(levels[l])
  BY Zenon DEF Range
<1>4. \A i \in DOMAIN levels[l] : levels[l][i] # {}
  BY <1>3, Zenon DEF Types
<1>5. EntriesOf(l) \subseteq Entry
  BY <1>2, Zenon DEF EntriesOf, Range
<1>6. EntriesOf(l) \subseteq Everything
  BY Zenon DEF EntriesOf, Everything
<1> QED
  BY <1>1, <1>2, <1>3, <1>4, <1>5, <1>6, Zenon DEF EntriesOf, Range

\* TypeOK follows from the types of the induction.
LEMMA InvTypes == Inv => TypeOK
<1> SUFFICES ASSUME Inv PROVE TypeOK
  OBVIOUS
<1>1. Types /\ JobOK
  BY DEF Inv
<1>2. \A l \in Levels : \A t \in Range(levels[l]) : t \subseteq Entry /\ t # {}
  BY <1>1, LevelTables, Zenon DEF Range
<1>3. Range(group) \subseteq Entry
  BY <1>1 DEF Types, Range
<1> QED
  BY <1>1, <1>2, <1>3 DEF TypeOK, Types, JobOK

\* Tables in order have separate ranges of keys.
LEMMA InvDisjoint == Inv => LevelsDisjoint
<1> SUFFICES ASSUME Inv, NEW l \in Levels \ {0}, NEW i \in DOMAIN levels[l],
                    NEW j \in DOMAIN levels[l], i < j
             PROVE  LargestKey(levels[l][i]) < SmallestKey(levels[l][j])
  BY Zenon DEF LevelsDisjoint
<1>1. Types /\ Ordered
  BY DEF Inv
<1>2. /\ levels[l][i] \in SUBSET Entry /\ levels[l][i] # {}
      /\ levels[l][j] \in SUBSET Entry /\ levels[l][j] # {}
  BY <1>1, LevelTables, Zenon
<1>3. Below(levels[l][i], levels[l][j])
  BY <1>1, Zenon DEF Ordered
<1>4. PICK e \in levels[l][i] : e.key = LargestKey(levels[l][i])
  BY <1>2, KeyRange, Zenon
<1>5. PICK f \in levels[l][j] : f.key = SmallestKey(levels[l][j])
  BY <1>2, KeyRange, Zenon
<1> QED
  BY <1>3, <1>4, <1>5, Zenon DEF Below

\* The one table of a level that Get looks at holds all that the level knows
\* of the key.
LEMMA LowerBoundFinds ==
    ASSUME NEW files \in Seq(SUBSET Entry), NEW k \in Keys,
           \A i \in DOMAIN files : \A j \in DOMAIN files :
              i < j => Below(files[i], files[j])
    PROVE  /\ LowerBound(files, k) \subseteq UNION Range(files)
           /\ \A e \in UNION Range(files) :
                 e.key = k => e \in LowerBound(files, k)
<1> DEFINE found == {i \in DOMAIN files : \E e \in files[i] : e.key >= k}
           LB == LowerBound(files, k)
<1>1. LB = IF found = {} THEN {} ELSE files[Min(found)]
  BY Zenon DEF LowerBound
<1>2. found \in SUBSET Nat /\ k \in Nat
  BY LsmTreeAssumption DEF Keys
<1>3. found # {} => /\ Min(found) \in found
                    /\ \A i \in found : Min(found) <= i
  BY <1>2, MinIsLeast, Zenon
<1>4. LB \subseteq UNION Range(files)
  BY <1>1, <1>3, Zenon DEF Range
<1>5. ASSUME NEW e \in UNION Range(files), e.key = k
      PROVE  e \in LB
  <2>1. PICK i \in DOMAIN files : e \in files[i]
    BY Zenon DEF Range
  <2>2. i \in found
    BY <1>2, <1>5, <2>1
  <2>3. LB = files[Min(found)] /\ Min(found) \in found /\ Min(found) <= i
    BY <1>1, <1>3, <2>2, Zenon
  <2>4. PICK f \in files[Min(found)] : f.key >= k
    BY <2>3, Zenon
  <2>5. f \in Entry /\ f.key \in Nat
    BY <2>3, <2>4, EntryFields
  <2>6. ~(Min(found) < i)
    <3>1. ASSUME Min(found) < i
          PROVE  FALSE
      <4>1. Below(files[Min(found)], files[i])
        BY <2>2, <2>3, <3>1, Zenon
      <4>2. f.key < k
        BY <1>5, <2>1, <2>4, <4>1, Zenon DEF Below
      <4> QED
        BY <1>2, <2>4, <2>5, <4>2
    <3> QED
      BY <3>1
  <2>7. Min(found) = i
    BY <1>2, <2>2, <2>3, <2>6
  <2> QED
    BY <2>1, <2>3, <2>7, Zenon
<1> QED
  BY <1>4, <1>5, Zenon

\* A function on 1..n is a sequence.
LEMMA FunctionIsSeq ==
    ASSUME NEW S, NEW n \in Nat, NEW r \in [1..n -> S]
    PROVE  r \in Seq(S) /\ Len(r) = n
  OBVIOUS

\* The elements of a sequence that is put together from two elements and two
\* sequences.
LEMMA ThreeParts ==
    ASSUME NEW S, NEW a \in S, NEW b \in S, NEW q \in Seq(S), NEW r \in Seq(S),
           NEW s, s = <<a, b>> \o q \o r
    PROVE  /\ DOMAIN s = 1..(2 + Len(q) + Len(r))
           /\ s[1] = a /\ s[2] = b
           /\ \A i \in 1..Len(q) : s[2 + i] = q[i]
           /\ \A i \in 1..Len(r) : s[2 + Len(q) + i] = r[i]
  OBVIOUS

\* The sources of a read: the memtables, the tables of L0, one table of each
\* further level.
LEMMA SourcesAre ==
    ASSUME Types, NEW k \in Keys
    PROVE  LET s == Sources(k)
               n == Len(levels[0])
           IN  /\ n \in Nat
               /\ DOMAIN s = 1..(2 + n + (kNumLevels - 1))
               /\ s[1] = mem_ /\ s[2] = imm_
               /\ \A i \in 1..n : s[2 + i] = levels[0][i]
               /\ \A l \in 1..(kNumLevels - 1) :
                     s[2 + n + l] = LowerBound(levels[l], k)
<1> DEFINE r == [l \in 1..(kNumLevels - 1) |-> LowerBound(levels[l], k)]
<1>1. 0 \in Levels /\ kNumLevels - 1 \in Nat /\ 1..(kNumLevels - 1) \subseteq Levels
  BY LsmTreeAssumption DEF Levels
<1>2. ASSUME NEW l \in 1..(kNumLevels - 1)
      PROVE  LowerBound(levels[l], k) \in SUBSET Entry
  <2>1. levels[l] \in Seq(SUBSET Entry)
    BY <1>1, LevelTables, Zenon
  <2> DEFINE found == {i \in DOMAIN levels[l] : \E e \in levels[l][i] : e.key >= k}
  <2>2. LowerBound(levels[l], k) = IF found = {} THEN {} ELSE levels[l][Min(found)]
    BY Zenon DEF LowerBound
  <2>3. found # {} => Min(found) \in DOMAIN levels[l]
    <3>1. found \in SUBSET Nat
      BY <2>1
    <3> QED
      BY <3>1, MinIsLeast, Zenon
  <2>4. \A i \in DOMAIN levels[l] : levels[l][i] \in SUBSET Entry
    BY <1>1, LevelTables, Zenon
  <2> QED
    BY <2>2, <2>3, <2>4, Zenon
<1>3. r \in Seq(SUBSET Entry) /\ Len(r) = kNumLevels - 1
  <2>1. r \in [1..(kNumLevels - 1) -> SUBSET Entry]
    BY <1>2, Zenon
  <2> QED
    BY <1>1, <2>1, FunctionIsSeq, ZenonT(40)
<1>4. levels[0] \in Seq(SUBSET Entry) /\ Len(levels[0]) \in Nat
  BY <1>1, LevelTables, Zenon
<1>5. mem_ \in SUBSET Entry /\ imm_ \in SUBSET Entry
  BY DEF Types
<1>6. Sources(k) = <<mem_, imm_>> \o levels[0] \o r
  BY DEF Sources
<1>7. \A l \in 1..(kNumLevels - 1) : r[l] = LowerBound(levels[l], k)
  BY Zenon
<1> HIDE DEF r
<1>8. /\ DOMAIN Sources(k) = 1..(2 + Len(levels[0]) + Len(r))
      /\ Sources(k)[1] = mem_ /\ Sources(k)[2] = imm_
      /\ \A i \in 1..Len(levels[0]) : Sources(k)[2 + i] = levels[0][i]
      /\ \A i \in 1..Len(r) : Sources(k)[2 + Len(levels[0]) + i] = r[i]
  <2> DEFINE s == Sources(k)
             q == levels[0]
  <2>1. q \in Seq(SUBSET Entry) /\ s = <<mem_, imm_>> \o q \o r
    BY <1>4, <1>6, Zenon
  <2> HIDE DEF s, q
  <2>2. /\ DOMAIN s = 1..(2 + Len(q) + Len(r))
        /\ s[1] = mem_ /\ s[2] = imm_
        /\ \A i \in 1..Len(q) : s[2 + i] = q[i]
        /\ \A i \in 1..Len(r) : s[2 + Len(q) + i] = r[i]
    BY <1>3, <1>5, <2>1, ThreeParts
  <2> QED
    BY <2>2, Zenon DEF s, q
<1> QED
  BY <1>3, <1>4, <1>7, <1>8

\* A source is newer than the ones behind it.
LEMMA InvNewer == Inv => NewerAbove
<1> SUFFICES ASSUME Inv, NEW k \in Keys
             PROVE  \A i \in DOMAIN Sources(k) : \A j \in DOMAIN Sources(k) :
                       i < j => Newer(Sources(k)[i], Sources(k)[j])
  BY Zenon DEF NewerAbove, Newer
<1> DEFINE s == Sources(k)
           n == Len(levels[0])
           h == kNumLevels - 1
<1>1. Types /\ Ordered /\ Layered
  BY DEF Inv
<1>2. /\ n \in Nat
      /\ DOMAIN s = 1..(2 + n + h)
      /\ s[1] = mem_ /\ s[2] = imm_
      /\ \A i \in 1..n : s[2 + i] = levels[0][i]
      /\ \A l \in 1..h : s[2 + n + l] = LowerBound(levels[l], k)
  BY <1>1, SourcesAre, Zenon
<1>3. 0 \in Levels /\ 1..h \subseteq Levels \ {0} /\ h \in Nat
  BY LsmTreeAssumption DEF Levels
<1>4. DOMAIN levels[0] = 1..n
      /\ \A i \in 1..n : levels[0][i] \subseteq EntriesOf(0)
  BY <1>1, <1>3, LevelTables, Zenon
<1>5. ASSUME NEW l \in 1..h
      PROVE  LowerBound(levels[l], k) \subseteq EntriesOf(l)
  <2>1. /\ levels[l] \in Seq(SUBSET Entry)
        /\ \A i \in DOMAIN levels[l] : \A j \in DOMAIN levels[l] :
              i < j => Below(levels[l][i], levels[l][j])
    BY <1>1, <1>3, LevelTables, Zenon DEF Ordered
  <2> QED
    BY <2>1, LowerBoundFinds, Zenon DEF EntriesOf
<1> HIDE DEF s, n, h
<1>6. ASSUME NEW i \in DOMAIN s
      PROVE  \/ i = 1 /\ s[i] = mem_
             \/ i = 2 /\ s[i] = imm_
             \/ i > 2 /\ i - 2 \in 1..n /\ s[i] = levels[0][i - 2]
             \/ i > 2 + n /\ i - 2 - n \in 1..h
                /\ s[i] = LowerBound(levels[i - 2 - n], k)
  <2>1. \A x \in 1..(2 + n + h) :
           x \in Nat /\ (x = 1 \/ x = 2 \/ x - 2 \in 1..n \/ x - 2 - n \in 1..h)
    BY <1>2, <1>3
  <2>2. i - 2 \in 1..n => i > 2 /\ 2 + (i - 2) = i
    BY ONLY <1>2, <1>3, <1>6, SMTT(30)
  <2>3. i - 2 - n \in 1..h => i > 2 + n /\ 2 + n + (i - 2 - n) = i
    <3>1. i \in Nat /\ n \in Nat /\ h \in Nat
      BY <1>2, <1>3, <1>6, <2>1, Zenon
    <3>2. \A x, a, b \in Nat :
             x - 2 - a \in 1..b => x > 2 + a /\ 2 + a + (x - 2 - a) = x
      BY ONLY SMT
    <3> QED
      BY ONLY <3>1, <3>2, Zenon
  <2> QED
    BY <1>2, <2>1, <2>2, <2>3, Zenon
<1>7. /\ Newer(mem_, imm_)
      /\ \A l \in Levels : Newer(mem_, EntriesOf(l)) /\ Newer(imm_, EntriesOf(l))
      /\ \A i \in 1..n : \A j \in 1..n :
            i < j => Newer(levels[0][i], levels[0][j])
      /\ \A l \in Levels : \A m \in Levels :
            l < m => Newer(EntriesOf(l), EntriesOf(m))
  BY <1>1, <1>4, Zenon DEF Layered
<1>8. \A S, T, U, V : Newer(S, T) /\ U \subseteq S /\ V \subseteq T => Newer(U, V)
  BY Zenon DEF Newer
<1>9. ASSUME NEW i \in DOMAIN s, NEW j \in DOMAIN s, i < j
      PROVE  Newer(s[i], s[j])
  <2>1. i \in Nat /\ j \in Nat /\ i >= 1
    BY <1>2, <1>3
  <2>2. CASE j = 2
    <3>1. i = 1
      BY <1>9, <2>1, <2>2
    <3> QED
      BY <1>2, <1>7, <2>2, <3>1, Zenon
  <2>3. CASE j - 2 \in 1..n /\ s[j] = levels[0][j - 2]
    <3>1. s[j] \subseteq EntriesOf(0)
      BY <1>4, <2>3, Zenon
    <3>2. CASE i = 1 \/ i = 2
      <4>1. Newer(s[i], EntriesOf(0))
        BY <1>2, <1>3, <1>7, <3>2, Zenon
      <4> QED
        BY <1>8, <3>1, <4>1, Zenon
    <3>3. CASE i - 2 \in 1..n /\ s[i] = levels[0][i - 2]
      <4>1. i - 2 < j - 2
        BY <1>9, <2>1
      <4> QED
        BY <1>7, <2>3, <3>3, <4>1, Zenon
    <3>4. ~(i - 2 - n \in 1..h)
      BY <1>2, <1>9, <2>1, <2>3
    <3> QED
      BY <1>6, <3>2, <3>3, <3>4, Zenon
  <2>4. CASE j - 2 - n \in 1..h /\ s[j] = LowerBound(levels[j - 2 - n], k)
    <3>1. s[j] \subseteq EntriesOf(j - 2 - n) /\ j - 2 - n \in Levels
      BY <1>3, <1>5, <2>4, Zenon
    <3>2. CASE i = 1 \/ i = 2
      <4>1. Newer(s[i], EntriesOf(j - 2 - n))
        BY <1>2, <1>7, <3>1, <3>2, Zenon
      <4> QED
        BY <1>8, <3>1, <4>1, Zenon
    <3>3. CASE i - 2 \in 1..n /\ s[i] = levels[0][i - 2]
      <4>1. s[i] \subseteq EntriesOf(0)
        BY <1>4, <3>3, Zenon
      <4>2. 0 < j - 2 - n
        BY <1>2, <2>4
      <4>3. Newer(EntriesOf(0), EntriesOf(j - 2 - n))
        BY <1>3, <1>7, <3>1, <4>2, Zenon
      <4> QED
        BY <3>1, <4>1, <4>3, Zenon DEF Newer
    <3>4. CASE i - 2 - n \in 1..h /\ s[i] = LowerBound(levels[i - 2 - n], k)
      <4>1. s[i] \subseteq EntriesOf(i - 2 - n) /\ i - 2 - n \in Levels
        BY <1>3, <1>5, <3>4, Zenon
      <4>2. i - 2 - n < j - 2 - n
        BY <1>2, <1>9, <2>1
      <4>3. Newer(EntriesOf(i - 2 - n), EntriesOf(j - 2 - n))
        BY <1>7, <3>1, <4>1, <4>2, Zenon
      <4> QED
        BY <1>8, <3>1, <4>1, <4>3, Zenon
    <3> QED
      BY <1>6, <3>2, <3>3, <3>4, Zenon
  <2>5. j # 1
    BY <1>9, <2>1
  <2> QED
    BY <1>6, <2>2, <2>3, <2>4, <2>5, Zenon
<1> QED
  BY <1>9, Zenon DEF s

\* The oldest state that a live snapshot can ask for.
LEMMA SmallestIsLeast ==
    ASSUME Types
    PROVE  /\ SmallestSnapshot \in Nat
           /\ SmallestSnapshot <= last_sequence_
           /\ \A n \in Pinned \cup {last_sequence_} : SmallestSnapshot <= n
           /\ last_sequence_ \in Nat /\ Pinned \cup {last_sequence_} \subseteq Nat
<1>1. last_sequence_ \in Nat /\ Pinned \cup {last_sequence_} \in SUBSET Nat
  BY LsmTreeAssumption DEF Types
<1> QED
  BY <1>1, MinIsLeast, Zenon DEF SmallestSnapshot

\* Reads find the newest version, now and through every live snapshot.
LEMMA InvReads ==
    Inv => ReadsNewest
\* Every entry of the tree that a read of k may want is in a source, and the
\* sources hold nothing else.
<1>SourcesComplete.
    ASSUME Types, Ordered, NEW k \in Keys
    PROVE  /\ \A i \in DOMAIN Sources(k) : Sources(k)[i] \subseteq Everything
           /\ \A e \in Everything : e.key = k =>
                 \E i \in DOMAIN Sources(k) : e \in Sources(k)[i]
  <2> USE <1>SourcesComplete
  <2> DEFINE s == Sources(k)
             n == Len(levels[0])
  <2>1. /\ n \in Nat
        /\ DOMAIN s = 1..(2 + n + (kNumLevels - 1))
        /\ s[1] = mem_ /\ s[2] = imm_
        /\ \A i \in 1..n : s[2 + i] = levels[0][i]
        /\ \A l \in 1..(kNumLevels - 1) : s[2 + n + l] = LowerBound(levels[l], k)
    BY SourcesAre, Zenon
  <2>2. /\ 0 \in Levels /\ kNumLevels - 1 \in Nat
        /\ \A l : l \in Levels <=> l = 0 \/ l \in 1..(kNumLevels - 1)
    BY LsmTreeAssumption DEF Levels
  <2>3. ASSUME NEW l \in 1..(kNumLevels - 1)
        PROVE  /\ LowerBound(levels[l], k) \subseteq EntriesOf(l)
               /\ \A e \in EntriesOf(l) :
                     e.key = k => e \in LowerBound(levels[l], k)
    <3>1. l \in Levels /\ l # 0
      BY <2>2
    <3>2. /\ levels[l] \in Seq(SUBSET Entry)
          /\ \A i \in DOMAIN levels[l] : \A j \in DOMAIN levels[l] :
                i < j => Below(levels[l][i], levels[l][j])
      BY <3>1, LevelTables, Zenon DEF Ordered
    <3> QED
      BY <3>2, LowerBoundFinds, Zenon DEF EntriesOf
  <2>4. DOMAIN levels[0] = 1..n
    BY <2>2, LevelTables, Zenon
  <2> HIDE DEF s, n
  <2>5. ASSUME NEW i \in DOMAIN s
        PROVE  s[i] \subseteq Everything
    <3>1. CASE i = 1 \/ i = 2
      BY <2>1, <3>1, Zenon DEF Everything
    <3>2. CASE i - 2 \in 1..n
      <4>1. s[i] = levels[0][i - 2]
        BY <2>1, <3>2
      <4> QED
        BY <2>2, <2>4, <3>2, <4>1, LevelTables, Zenon
    <3>3. CASE i - 2 - n \in 1..(kNumLevels - 1)
      <4> DEFINE l == i - 2 - n
      <4>1. s[i] = LowerBound(levels[l], k)
        BY <2>1, <3>3
      <4> HIDE DEF l
      <4> QED
        BY <2>2, <2>3, <3>3, <4>1, LevelTables, Zenon DEF l
    <3> QED
      BY ONLY SMTT(30), <2>1, <2>2, <3>1, <3>2, <3>3
  <2>6. ASSUME NEW e \in Everything, e.key = k
        PROVE  \E i \in DOMAIN s : e \in s[i]
    <3>1. CASE e \in mem_ \/ e \in imm_
      <4>1. 1 \in DOMAIN s /\ 2 \in DOMAIN s
        BY <2>1, <2>2
      <4> QED
        BY <2>1, <3>1, <4>1, Zenon
    <3>2. CASE e \in EntriesOf(0)
      <4>1. PICK i \in 1..n : e \in levels[0][i]
        BY <2>4, <3>2, Zenon DEF EntriesOf, Range
      <4>2. 2 + i \in DOMAIN s
        BY <2>1, <2>2
      <4> QED
        BY <2>1, <4>1, <4>2, Zenon
    <3>3. CASE \E l \in 1..(kNumLevels - 1) : e \in EntriesOf(l)
      <4>1. PICK l \in 1..(kNumLevels - 1) : e \in EntriesOf(l)
        BY <3>3
      <4>2. 2 + n + l \in DOMAIN s
        BY <2>1, <2>2
      <4> QED
        BY <2>1, <2>3, <2>6, <4>1, <4>2, Zenon
    <3> QED
      BY <2>2, <3>1, <3>2, <3>3, Zenon DEF Everything, EntriesOf
  <2> QED
    BY <2>5, <2>6, Zenon DEF s
\* Get finds what a scan of the whole tree finds.
<1>GetIsScan.
    ASSUME Inv, NEW k \in Keys, NEW seq \in Nat
    PROVE  Get(k, seq) = Scan(k, seq)
  <2> USE <1>GetIsScan
  <2> DEFINE s == Sources(k)
             knows == {i \in DOMAIN s : \E e \in s[i] : e.key = k /\ e.seq <= seq}
             V == Versions(Everything, k, seq)
  <2>1. Types /\ Ordered /\ Numbered
    BY DEF Inv
  <2>2. Everything \subseteq Entry /\ Everything \subseteq written
    BY <2>1, Zenon DEF Types, Numbered
  <2>3. /\ \A i \in DOMAIN s : s[i] \subseteq Everything
        /\ \A e \in Everything : e.key = k => \E i \in DOMAIN s : e \in s[i]
    BY <2>1, <1>SourcesComplete, Zenon
  <2>4. \A i \in DOMAIN s : \A j \in DOMAIN s : i < j =>
           \A e \in s[i], f \in s[j] : (e.key = k /\ f.key = k) => e.seq > f.seq
    BY InvNewer, Zenon DEF NewerAbove
  <2>5. knows \in SUBSET Nat
    <3>1. DOMAIN s \in SUBSET Nat
      BY <2>1, SourcesAre, LsmTreeAssumption
    <3> QED
      BY <3>1, Zenon
  <2>6. Get(k, seq) = FirstHit(s, k, seq)
    BY Zenon DEF Get
  <2>7. CASE knows = {}
    <3>1. V = {}
      BY <2>3, <2>7, Zenon DEF Versions
    <3> QED
      BY <2>6, <2>7, <3>1, Zenon DEF FirstHit, Scan
  <2>8. CASE knows # {}
    <3> DEFINE i == Min(knows)
               e == Newest(Versions(s[i], k, seq))
    <3>1. i \in knows /\ \A j \in knows : i <= j
      BY <2>5, <2>8, MinIsLeast, Zenon
    <3>2. Versions(s[i], k, seq) # {} /\ Versions(s[i], k, seq) \in SUBSET Entry
      BY <2>2, <2>3, <3>1, Zenon DEF Versions
    <3>3. /\ e \in Versions(s[i], k, seq)
          /\ \A f \in Versions(s[i], k, seq) : f.seq <= e.seq
      BY <3>2, NewestIsLast, Zenon
    <3>4. FirstHit(s, k, seq) = IF e.del THEN Missing ELSE e.seq
      BY <2>8, Zenon DEF FirstHit
    <3> HIDE DEF i, e, knows
    <3>5. e \in V
      BY <2>3, <3>1, <3>3, Zenon DEF Versions, knows
    <3>6. ASSUME NEW f \in V
          PROVE  f.seq <= e.seq
      <4>1. f \in Everything /\ f.key = k /\ f.seq <= seq
        BY DEF Versions
      <4>2. PICK j \in DOMAIN s : f \in s[j]
        BY <2>3, <4>1, Zenon
      <4>3. j \in knows /\ i <= j
        BY <3>1, <4>1, <4>2, Zenon DEF knows
      <4>4. e \in s[i] /\ e.key = k /\ i \in DOMAIN s
        BY <3>1, <3>3, Zenon DEF Versions, knows
      <4>5. e.seq \in Nat /\ f.seq \in Nat
        BY <2>2, <2>3, <4>1, <4>4, EntryFields, Zenon
      <4>6. CASE i = j
        BY <3>3, <4>1, <4>2, <4>6, Zenon DEF Versions
      <4>7. CASE i < j
        <5>1. e.seq > f.seq
          BY <2>4, <4>1, <4>2, <4>4, <4>7, Zenon
        <5> QED
          BY <4>5, <5>1
      <4> QED
        BY <2>5, <3>1, <4>3, <4>6, <4>7
    <3>7. V \in SUBSET Entry /\ V # {}
      BY <2>2, <3>5, Zenon DEF Versions
    <3>8. Newest(V) \in V /\ \A f \in V : f.seq <= Newest(V).seq
      BY <3>7, NewestIsLast, Zenon
    <3>9. Newest(V).seq = e.seq
      <4>1. Newest(V) \in Entry /\ e \in Entry
        BY <3>5, <3>7, <3>8, Zenon
      <4>2. Newest(V).seq \in Nat /\ e.seq \in Nat
        BY <4>1, EntryFields, Zenon
      <4>3. Newest(V).seq <= e.seq /\ e.seq <= Newest(V).seq
        BY <3>5, <3>6, <3>8, Zenon
      <4> QED
        BY <4>2, <4>3
    <3>10. Newest(V) = e
      BY <2>1, <2>2, <3>5, <3>8, <3>9, Zenon DEF Numbered, Versions
    <3> QED
      BY <2>6, <3>4, <3>7, <3>10, Zenon DEF Scan
  <2> QED
    BY <2>7, <2>8, Zenon
\* A scan finds the newest version that was ever written.
<1>ScanIsExpected.
    ASSUME Inv, NEW k \in Keys, NEW seq \in Nat, SmallestSnapshot <= seq
    PROVE  Scan(k, seq) = Expected(k, seq)
  <2> USE <1>ScanIsExpected
  <2> DEFINE V == Versions(Everything, k, seq)
             W == Versions(written, k, seq)
             n == Newest(W)
  <2>1. Types /\ Numbered /\ Kept
    BY DEF Inv
  <2>2. written \subseteq Entry /\ Everything \subseteq written
    BY <2>1, Zenon DEF Types, Numbered
  <2>3. V \subseteq W /\ W \in SUBSET Entry /\ V \in SUBSET Entry
    BY <2>2, Zenon DEF Versions
  <2>4. SmallestSnapshot \in Nat
    BY <2>1, SmallestIsLeast, Zenon
  <2>5. CASE W = {}
    <3>1. V = {}
      BY <2>3, <2>5
    <3> QED
      BY <2>5, <3>1, Zenon DEF Scan, Expected
  <2>6. CASE W # {}
    <3>1. n \in W /\ \A f \in W : f.seq <= n.seq
      BY <2>3, <2>6, NewestIsLast, Zenon
    <3> HIDE DEF n
    <3>2. /\ n \in written /\ n \in Entry /\ n.key = k /\ n.seq <= seq
          /\ n.seq \in Nat /\ \A f \in W : f.seq \in Nat
      BY <2>3, <3>1, EntryFields, Zenon DEF Versions
    <3>3. CASE n \in Everything
      <4>1. n \in V
        BY <3>2, <3>3, Zenon DEF Versions
      <4>2. Newest(V) \in V /\ \A f \in V : f.seq <= Newest(V).seq
        BY <2>3, <4>1, NewestIsLast, Zenon
      <4>3. Newest(V).seq <= n.seq /\ n.seq <= Newest(V).seq
        BY <2>3, <3>1, <4>1, <4>2, Zenon
      <4>4. Newest(V).seq \in Nat
        BY <2>3, <3>2, <4>2, Zenon
      <4>5. Newest(V).seq = n.seq
        BY <3>2, <4>3, <4>4
      <4>6. Newest(V) = n
        BY <2>1, <2>2, <3>2, <4>2, <4>5, Zenon DEF Numbered, Versions
      <4> QED
        BY <2>6, <4>1, <4>6, Zenon DEF Scan, Expected, n
    <3>4. CASE n \notin Everything
      <4>1. \/ HiddenFromEveryone(n, written, SmallestSnapshot)
            \/ Erased(n, Everything, SmallestSnapshot)
        BY <2>1, <3>2, <3>4, Zenon DEF Kept
      <4>2. ~HiddenFromEveryone(n, written, SmallestSnapshot)
        <5>1. ASSUME NEW f \in written, f.key = n.key, f.seq > n.seq,
                     f.seq <= SmallestSnapshot
              PROVE  FALSE
          <6>1. f.seq \in Nat
            BY <2>2, EntryFields, Zenon
          <6>2. f.seq <= seq
            BY <2>4, <5>1, <6>1
          <6>3. f \in W
            BY <3>2, <5>1, <6>2, Zenon DEF Versions
          <6>4. f.seq <= n.seq
            BY <3>1, <6>3, Zenon
          <6> QED
            BY <3>2, <5>1, <6>1, <6>4
        <5> QED
          BY <5>1, Zenon DEF HiddenFromEveryone
      <4>3. n.del /\ \A g \in Everything : g.key = n.key => g.seq > n.seq
        BY <4>1, <4>2, Zenon DEF Erased
      <4>4. V = {}
        <5>1. ASSUME NEW g \in V
              PROVE  FALSE
          <6>1. g \in Everything /\ g.key = n.key /\ g \in W
            BY <2>3, <3>2, Zenon DEF Versions
          <6>2. g.seq > n.seq /\ g.seq <= n.seq
            BY <3>1, <4>3, <6>1, Zenon
          <6> QED
            BY <3>2, <6>1, <6>2
        <5> QED
          BY <5>1
      <4> QED
        BY <4>3, <4>4, Zenon DEF Scan, Expected, n
    <3> QED
      BY <3>3, <3>4
  <2> QED
    BY <2>5, <2>6
<1> SUFFICES ASSUME Inv, NEW k \in Keys, NEW seq \in Pinned \cup {last_sequence_}
             PROVE  Get(k, seq) = Expected(k, seq) /\ Scan(k, seq) = Expected(k, seq)
  BY Zenon DEF ReadsNewest
<1>1. seq \in Nat /\ SmallestSnapshot <= seq
  BY SmallestIsLeast, Zenon DEF Inv
<1> QED
  BY <1>1, <1>GetIsScan, <1>ScanIsExpected, Zenon

-----------------------------------------------------------------------------
(* The invariant holds at the start *)

\* The invariant holds in the empty database.
LEMMA InvInit == Init => Inv
<1> SUFFICES ASSUME Init PROVE Inv
  OBVIOUS
<1>1. 0 \in Levels /\ DOMAIN <<>> = {} /\ <<>> \in Seq(SUBSET Entry)
      /\ <<>> \in Seq(Entry) /\ 0 \in 0..MaxSeq
  BY LsmTreeAssumption DEF Levels
<1>2. levels \in [Levels -> Seq(SUBSET Entry)] /\ \A l \in Levels : levels[l] = <<>>
  BY <1>1, Zenon DEF Init
<1>3. \A l \in Levels : Range(levels[l]) = {}
  BY <1>1, <1>2, Zenon DEF Range
<1>4. Everything = {} /\ \A l \in Levels : EntriesOf(l) = {}
  BY <1>3, Zenon DEF Init, Everything, EntriesOf
<1>5. Types
  <2>1. DOMAIN snapshots_ = {} /\ Pinned = {}
    BY DEF Init, Pinned
  <2> QED
    BY <1>1, <1>2, <1>3, <2>1 DEF Types, Init
<1>6. Numbered /\ LateSees
  BY <1>1, <1>4 DEF Numbered, LateSees, Init
<1>7. Ordered /\ Layered
  BY <1>1, <1>2, <1>4, Zenon DEF Ordered, Layered, Newer, Init
<1>8. Kept /\ JobOK /\ FlushRight /\ CompactRight
  BY <1>1 DEF Kept, JobOK, FlushRight, CompactRight, NoJob, Init
<1> QED
  BY <1>5, <1>6, <1>7, <1>8 DEF Inv

-----------------------------------------------------------------------------
(* The theorems *)

\* Every step keeps the invariant.
LEMMA InvNext ==
    Inv /\ [Next]_vars => Inv'
\* The tables a compaction writes hold what it merged, in separate key ranges.
<1>CutsApart.
    ASSUME NEW S \in SUBSET Entry, NEW O \in Cuts(S)
    PROVE  /\ UNION O = S
           /\ {} \notin O
           /\ \A t \in O : \A u \in O : t # u => Apart(t, u)
  <2> USE <1>CutsApart
  <2> DEFINE tab(F, b) == {e \in S : b <= e.key /\ \A c \in F : c <= e.key => c <= b}
  <2>1. PICK F \in SUBSET KeysOf(S) :
            /\ O = {tab(F, b) : b \in F}
            /\ \A k \in KeysOf(S) : k \in F <=> StartsTable(k, S, F)
    BY Zenon DEF Cuts, Tables
  <2>2. F \in SUBSET Nat /\ \A b \in F : b <= NumKeys
    BY EntryFields DEF KeysOf
  <2>3. ASSUME NEW e \in S
        PROVE  \E b \in F : e \in tab(F, b)
    <3> DEFINE k == SmallestKey(S)
               U == {b \in F : b <= e.key}
    <3>1. k \in KeysOf(S) /\ k <= e.key /\ \A f \in S : ~(f.key < k)
      BY KeyRange, EntryFields DEF KeysOf
    <3>2. StartsTable(k, S, F)
      BY <3>1 DEF StartsTable
    <3>3. k \in U
      BY <2>1, <3>1, <3>2
    <3>4. PICK b \in U : \A c \in U : c <= b
      <4>1. U \in SUBSET Nat /\ U # {} /\ (\A c \in U : c <= NumKeys)
            /\ NumKeys \in Nat
        BY <2>2, <3>3, LsmTreeAssumption, Zenon
      <4> QED
        BY <4>1, MaxIsGreatest, Zenon
    <3> QED
      BY <3>4
  <2>4. ASSUME NEW b \in F
        PROVE  tab(F, b) # {}
    <3>1. PICK e \in S : e.key = b
      BY DEF KeysOf
    <3>2. e \in tab(F, b)
      BY <2>2, <3>1
    <3> QED
      BY <3>2
  <2>5. ASSUME NEW b \in F, NEW c \in F, b < c
        PROVE  Below(tab(F, b), tab(F, c))
    <3>1. ASSUME NEW e \in tab(F, b), NEW f \in tab(F, c)
          PROVE  e.key < f.key
      <4>1. e.key \in Nat /\ f.key \in Nat
        BY EntryFields
      <4> QED
        BY <2>2, <2>5, <4>1
    <3> QED
      BY <3>1 DEF Below
  <2> HIDE DEF tab
  <2>6. UNION O = S
    <3>1. \A b : tab(F, b) \subseteq S
      BY Zenon DEF tab
    <3> QED
      BY <2>1, <2>3, <3>1, Zenon
  <2>7. ASSUME NEW t \in O, NEW u \in O, t # u
        PROVE  Apart(t, u)
    <3>1. PICK b \in F : t = tab(F, b)
      BY <2>1, Zenon
    <3>2. PICK c \in F : u = tab(F, c)
      BY <2>1, Zenon
    <3>3. b < c \/ c < b
      BY <2>2, <2>7, <3>1, <3>2
    <3> QED
      BY <2>5, <3>1, <3>2, <3>3 DEF Apart
  <2> QED
    BY <2>1, <2>4, <2>6, <2>7, Zenon
\* The newest version of a set is always kept.
<1>CollapseKeepsNewest.
    ASSUME NEW S \in SUBSET Entry, S # {}, NEW n \in Nat
    PROVE  Collapse(S, n) # {}
  <2> USE <1>CollapseKeepsNewest
  <2>1. Newest(S) \in S /\ \A f \in S : f.seq <= Newest(S).seq
    BY NewestIsLast, Zenon
  <2>2. \A f \in S : f.seq \in Nat
    BY EntryFields
  <2>3. ~HiddenFromEveryone(Newest(S), S, n)
    BY <2>1, <2>2 DEF HiddenFromEveryone
  <2> QED
    BY <2>1, <2>3 DEF Collapse
\* What a compaction leaves out is hidden, or is a tombstone of the bottom
\* level below which nothing is left.
<1>MergeDrops.
    ASSUME NEW S \in SUBSET Entry, NEW bottom, NEW n \in Nat,
           \A e \in S : \A f \in S : e.seq = f.seq => e = f,
           NEW e \in S, e \notin Merge(S, bottom, n)
    PROVE  \/ HiddenFromEveryone(e, S, n)
           \/ /\ e.del /\ bottom /\ e.seq <= n
              /\ \A g \in Merge(S, bottom, n) : g.key = e.key => g.seq > e.seq
  <2> USE <1>MergeDrops
  <2>1. CASE HiddenFromEveryone(e, S, n)
    BY <2>1
  <2>2. CASE ~HiddenFromEveryone(e, S, n)
    <3>1. e.del /\ bottom /\ e.seq <= n
      BY <2>2 DEF Merge, Collapse, Droppable
    <3>2. ASSUME NEW g \in Merge(S, bottom, n), g.key = e.key
          PROVE  g.seq > e.seq
      <4>1. g \in S /\ ~HiddenFromEveryone(g, S, n) /\ g # e
        BY DEF Merge, Collapse
      <4>2. ~(e.seq > g.seq)
        BY <3>1, <3>2, <4>1 DEF HiddenFromEveryone
      <4>3. g.seq # e.seq /\ g.seq \in Nat /\ e.seq \in Nat
        BY <4>1, EntryFields
      <4> QED
        BY <4>2, <4>3
    <3> QED
      BY <3>1, <3>2, Zenon
  <2> QED
    BY <2>1, <2>2
\* More readers gone and more written: what was superseded stays so.
<1>HiddenGrows.
    ASSUME NEW S \in SUBSET Entry, NEW T, S \subseteq T,
           NEW m \in Nat, NEW n \in Nat, m <= n,
           NEW e, HiddenFromEveryone(e, S, m)
    PROVE  HiddenFromEveryone(e, T, n)
  <2> USE <1>HiddenGrows
  <2>1. PICK f \in S : f.key = e.key /\ f.seq > e.seq /\ f.seq <= m
    BY Zenon DEF HiddenFromEveryone
  <2>2. f.seq \in Nat
    BY EntryFields, Zenon
  <2>3. f.seq <= n
    BY <2>1, <2>2
  <2> QED
    BY <2>1, <2>3, Zenon DEF HiddenFromEveryone
\* An erased tombstone stays erased while its readers move on and nothing
\* older of its key appears.
<1>ErasedGrows.
    ASSUME NEW e \in Entry, NEW S, NEW T,
           NEW m \in Nat, NEW n \in Nat, m <= n,
           \A g \in T : g.key = e.key => (g \in S \/ g.seq > e.seq),
           Erased(e, S, m)
    PROVE  Erased(e, T, n)
  <2> USE <1>ErasedGrows
  <2>1. e.seq \in Nat
    BY EntryFields, Zenon
  <2>2. e.seq <= n
    BY <2>1 DEF Erased
  <2> QED
    BY <2>2, Zenon DEF Erased
\* SmallestSnapshot never falls.
<1>SmallestGrows.
    ASSUME Types, Types',
           \A n \in (Pinned \cup {last_sequence_})' :
              n \in Pinned \cup {last_sequence_} \/ n >= last_sequence_
    PROVE  /\ SmallestSnapshot \in Nat /\ SmallestSnapshot' \in Nat
           /\ SmallestSnapshot <= SmallestSnapshot'
  <2> USE <1>SmallestGrows
  <2> DEFINE P == Pinned' \cup {last_sequence_'}
  <2>1. P \in SUBSET Nat
    BY LsmTreeAssumption DEF Types
  <2>2. SmallestSnapshot' = Min(P)
    BY DEF SmallestSnapshot
  <2>3. Min(P) \in P
    BY <2>1, MinIsLeast, Zenon
  <2>4. /\ SmallestSnapshot \in Nat /\ SmallestSnapshot <= last_sequence_
        /\ \A n \in Pinned \cup {last_sequence_} : SmallestSnapshot <= n
        /\ last_sequence_ \in Nat
    BY SmallestIsLeast, Zenon
  <2>5. Min(P) \in Pinned \cup {last_sequence_} \/ Min(P) >= last_sequence_
    BY <2>3
  <2>6. Min(P) \in Nat
    BY <2>1, <2>3, Zenon
  <2> HIDE DEF P
  <2>7. Min(P) >= last_sequence_ => SmallestSnapshot <= Min(P)
    BY <2>4, <2>6
  <2>8. SmallestSnapshot <= Min(P)
    BY <2>4, <2>5, <2>7, Zenon
  <2> QED
    BY <2>2, <2>4, <2>6, <2>8, Zenon
\* What the invariant says of the tree holds as long as the tree stays.
<1>TreeStays.
    ASSUME UNCHANGED <<mem_, imm_, levels>>
    PROVE  /\ Everything' = Everything
           /\ \A l : EntriesOf(l)' = EntriesOf(l)
           /\ Ordered => Ordered'
           /\ Layered => Layered'
           /\ \A l : BottomMost(l)' = BottomMost(l)
  <2> USE <1>TreeStays
  <2>1. Everything' = Everything
    BY DEF Everything
  <2>2. \A l : EntriesOf(l)' = EntriesOf(l)
    BY DEF EntriesOf
  <2>3. Ordered => Ordered'
    BY DEF Ordered
  <2>4. Layered => Layered'
    BY <2>2, Zenon DEF Layered
  <2>5. \A l : BottomMost(l)' = BottomMost(l)
    BY DEF BottomMost
  <2> QED
    BY <2>1, <2>2, <2>3, <2>4, <2>5, Zenon
\* The jobs stay right when snapshots come and go and numbers are given out.
<1>ReadersMove.
    ASSUME Inv, Types', UNCHANGED <<mem_, imm_, levels, job, written>>,
           SmallestSnapshot \in Nat, SmallestSnapshot' \in Nat,
           SmallestSnapshot <= SmallestSnapshot'
    PROVE  Ordered' /\ Layered' /\ Kept' /\ JobOK' /\ FlushRight' /\ CompactRight'
  <2> USE <1>ReadersMove
  <2>1. /\ Types /\ Numbered /\ Ordered /\ Layered /\ Kept
        /\ JobOK /\ FlushRight /\ CompactRight
    BY DEF Inv
  <2>2. /\ Everything' = Everything
        /\ \A l : BottomMost(l)' = BottomMost(l)
        /\ Ordered' /\ Layered'
    BY <2>1, <1>TreeStays, Zenon
  <2> DEFINE m == SmallestSnapshot
             n == SmallestSnapshot'
  <2>3. m \in Nat /\ n \in Nat /\ m <= n
    OBVIOUS
  <2>4. written \in SUBSET Entry /\ imm_ \in SUBSET Entry
    BY <2>1 DEF Types
  <2> HIDE DEF m, n
  <2>5. Kept'
    <3>1. ASSUME NEW e \in written \ Everything
          PROVE  HiddenFromEveryone(e, written, n) \/ Erased(e, Everything, n)
      <4>1. HiddenFromEveryone(e, written, m) \/ Erased(e, Everything, m)
        BY <2>1, Zenon DEF Kept, m
      <4>2. HiddenFromEveryone(e, written, m) => HiddenFromEveryone(e, written, n)
        BY <2>3, <2>4, <1>HiddenGrows, Zenon
      <4>3. e \in Entry
        BY <2>4
      <4>4. Erased(e, Everything, m) => Erased(e, Everything, n)
        BY <2>3, <4>3, <1>ErasedGrows, Zenon
      <4> QED
        BY <4>1, <4>2, <4>4
    <3> QED
      BY <2>2, <3>1, Zenon DEF Kept, n
  <2>6. JobOK'
    BY <2>1 DEF JobOK
  <2>7. FlushRight'
    <3>1. ASSUME job.kind = "flush"
          PROVE  \E t \in SUBSET imm_ :
                    /\ job.outputs = {t} /\ t # {}
                    /\ \A e \in imm_ \ t : HiddenFromEveryone(e, imm_, n)
      <4>1. PICK t \in SUBSET imm_ :
               /\ job.outputs = {t} /\ t # {}
               /\ \A e \in imm_ \ t : HiddenFromEveryone(e, imm_, m)
        BY <2>1, <3>1, Zenon DEF FlushRight, m
      <4>2. \A e \in imm_ \ t : HiddenFromEveryone(e, imm_, n)
        BY <2>3, <2>4, <4>1, <1>HiddenGrows, Zenon
      <4> QED
        BY <4>1, <4>2, Zenon
    <3> QED
      BY <3>1, Zenon DEF FlushRight, n
  <2>8. CompactRight'
    <3> DEFINE l == job.level
               from == UNION job.inputs
               to == UNION job.outputs
    <3>1. ASSUME job.kind = "compact"
          PROVE  /\ l \in Levels /\ l + 1 \in Levels
                 /\ job.inputs \subseteq Range(levels[l]) \cup Range(levels[l + 1])
                 /\ l = 0 => Range(levels[0]) \subseteq job.inputs
                 /\ \A u \in Range(levels[l + 1]) \ job.inputs : Apart(u, from)
                 /\ to \subseteq from
                 /\ {} \notin job.outputs
                 /\ \A t \in job.outputs : \A u \in job.outputs :
                       t # u => Apart(t, u)
                 /\ \A e \in from \ to :
                       \/ HiddenFromEveryone(e, from, m)
                       \/ Erased(e, to, m) /\ BottomMost(l)
      BY <2>1, <3>1, Zenon DEF CompactRight, m
    <3>2. ASSUME job.kind = "compact", NEW e \in from \ to
          PROVE  \/ HiddenFromEveryone(e, from, n)
                 \/ Erased(e, to, n) /\ BottomMost(l)
      <4>1. from \in SUBSET Entry
        <5>1. Range(levels[l]) \in SUBSET (SUBSET Entry)
              /\ Range(levels[l + 1]) \in SUBSET (SUBSET Entry)
          BY <2>1, <3>1, <3>2, LevelTables, Zenon
        <5> QED
          BY <3>1, <3>2, <5>1, Zenon
      <4>2. HiddenFromEveryone(e, from, m) => HiddenFromEveryone(e, from, n)
        BY <2>3, <4>1, <1>HiddenGrows, Zenon
      <4>3. e \in Entry
        BY <4>1
      <4>4. Erased(e, to, m) => Erased(e, to, n)
        BY <2>3, <4>3, <1>ErasedGrows, Zenon
      <4> QED
        BY <3>1, <3>2, <4>2, <4>4, Zenon
    <3> QED
      BY <2>2, <3>1, <3>2, Zenon DEF CompactRight, n
  <2> QED
    BY <2>2, <2>5, <2>6, <2>7, <2>8
\* The leader numbers a group: above everything written and every snapshot.
<1>StartGroupStep.
    ASSUME Inv, NEW ops \in Batches, StartGroup(ops)
    PROVE  Inv'
  <2> USE <1>StartGroupStep
  <2>1. Types /\ Numbered /\ LateSees
    BY DEF Inv
  <2>2. PICK n \in 1..MaxBatch : ops \in [1..n -> Ops]
    BY Zenon DEF Batches
  <2>3. n \in Nat /\ n >= 1 /\ Len(ops) = n /\ DOMAIN ops = 1..n
    BY <2>2, LsmTreeAssumption
  <2>4. /\ group = <<>> /\ last_sequence_ + n <= MaxSeq
        /\ last_sequence_' = last_sequence_ + n
        /\ group' = [i \in 1..n |-> [key |-> ops[i].key, seq |-> last_sequence_ + i,
                                     del |-> ops[i].del]]
        /\ UNCHANGED <<mem_, imm_, levels, compact_pointer_, snapshots_, job, late,
                       written>>
    BY <2>3 DEF StartGroup, tree
  <2>5. last_sequence_ \in Nat /\ last_sequence_' \in 0..MaxSeq
        /\ last_sequence_ <= last_sequence_'
    BY <2>1, <2>3, <2>4, LsmTreeAssumption DEF Types
  <2>6. ASSUME NEW i \in 1..n
        PROVE  /\ group'[i] \in Entry
               /\ group'[i].seq = last_sequence_ + i
               /\ last_sequence_ + i \in 1..MaxSeq
               /\ last_sequence_ + i <= last_sequence_'
               /\ last_sequence_ < last_sequence_ + i
    <3>1. ops[i] \in Ops
      BY <2>2
    <3>2. last_sequence_ + i \in 1..MaxSeq /\ last_sequence_ + i <= last_sequence_'
          /\ last_sequence_ < last_sequence_ + i
      BY <2>3, <2>4, <2>5, LsmTreeAssumption
    <3>3. group'[i] = [key |-> ops[i].key, seq |-> last_sequence_ + i,
                       del |-> ops[i].del]
      BY <2>4, Zenon
    <3> QED
      BY <3>1, <3>2, <3>3 DEF Ops, Entry
  <2>7. group' \in Seq(Entry) /\ DOMAIN group' = 1..n /\ group' # <<>>
    <3>1. group' \in [1..n -> Entry] /\ DOMAIN group' = 1..n
      BY <2>4, <2>6, Zenon
    <3>2. group' \in Seq(Entry) /\ Len(group') = n
      BY <2>3, <3>1, FunctionIsSeq, ZenonT(40)
    <3> QED
      BY <2>3, <3>1, <3>2
  <2>8. Pinned' = Pinned /\ Pinned \subseteq 0..last_sequence_
    BY <2>1, <2>4 DEF Pinned, Types
  <2>9. Types'
    <3>1. Pinned' \subseteq 0..last_sequence_'
      BY <2>5, <2>8
    <3> QED
      BY <2>1, <2>4, <2>5, <2>7, <3>1 DEF Types
  <2>10. Everything' = Everything
    BY <2>4, <1>TreeStays, Zenon
  <2>11. ASSUME NEW e \in written
         PROVE  e.seq \in Nat /\ e.seq <= last_sequence_
    BY <2>1, EntryFields, Zenon DEF Types, Numbered
  <2>12. Numbered'
    <3>1. \A e \in written : e.seq <= last_sequence_'
      BY <2>5, <2>11
    <3>2. \A i \in 1..n : group'[i].seq <= last_sequence_'
      BY <2>6
    <3>3. \A i \in 1..n : \A e \in written : e.seq < group'[i].seq
      BY <2>5, <2>6, <2>11
    <3>4. \A i \in 1..n : \A j \in 1..n : i < j => group'[i].seq < group'[j].seq
      BY <2>5, <2>6
    <3> QED
      BY <2>1, <2>4, <2>7, <2>10, <3>1, <3>2, <3>3, <3>4, Zenon DEF Numbered
  <2>13. LateSees'
    <3>1. late = {}
      BY <2>1, <2>4 DEF LateSees
    <3>2. \A s \in DOMAIN snapshots_ : snapshots_[s] \in Nat
                                       /\ snapshots_[s] <= last_sequence_
      BY <2>5, <2>8 DEF Pinned
    <3>3. \A s \in DOMAIN snapshots_ : \A i \in 1..n :
             group'[i].seq > snapshots_[s]
      BY <2>5, <2>6, <3>2
    <3> QED
      BY <2>4, <2>7, <3>1, <3>3, Zenon DEF LateSees
  <2>14. \A x \in (Pinned \cup {last_sequence_})' :
            x \in Pinned \cup {last_sequence_} \/ x >= last_sequence_
    BY <2>5, <2>8
  <2>15. /\ SmallestSnapshot \in Nat /\ SmallestSnapshot' \in Nat
         /\ SmallestSnapshot <= SmallestSnapshot'
    BY <2>1, <2>9, <2>14, <1>SmallestGrows, Zenon
  <2>16. Ordered' /\ Layered' /\ Kept' /\ JobOK' /\ FlushRight' /\ CompactRight'
    BY <2>4, <2>9, <2>15, <1>ReadersMove
  <2> QED
    BY <2>9, <2>12, <2>13, <2>16 DEF Inv
\* A new snapshot pins the last number, so SmallestSnapshot stays.
<1>GetSnapshotStep.
    ASSUME Inv, NEW s \in Snaps, GetSnapshot(s)
    PROVE  Inv'
  <2> USE <1>GetSnapshotStep
  <2>1. Types /\ Numbered /\ LateSees
    BY DEF Inv
  <2>2. /\ s \notin DOMAIN snapshots_
        /\ snapshots_' = [p \in DOMAIN snapshots_ \cup {s} |->
                            IF p = s THEN last_sequence_ ELSE snapshots_[p]]
        /\ late' = IF group # <<>> THEN late \cup {s} ELSE late
        /\ UNCHANGED <<mem_, imm_, levels, compact_pointer_, last_sequence_, group,
                       job, written>>
    BY Zenon DEF GetSnapshot, tree
  <2>3. /\ DOMAIN snapshots_' = DOMAIN snapshots_ \cup {s}
        /\ snapshots_'[s] = last_sequence_
        /\ \A p \in DOMAIN snapshots_ : snapshots_'[p] = snapshots_[p]
    BY <2>2, Zenon
  <2>4. Pinned' \subseteq Pinned \cup {last_sequence_}
    <3>1. ASSUME NEW p \in DOMAIN snapshots_'
          PROVE  snapshots_'[p] \in Pinned \cup {last_sequence_}
      BY <2>3, Zenon DEF Pinned
    <3> QED
      BY <3>1, Zenon DEF Pinned
  <2>5. last_sequence_ \in Nat /\ last_sequence_ \in 0..last_sequence_
    BY <2>1, LsmTreeAssumption DEF Types
  <2>6. Types'
    <3>1. Pinned' \subseteq 0..last_sequence_'
      BY <2>1, <2>2, <2>4, <2>5, Zenon DEF Types
    <3>2. late' \subseteq DOMAIN snapshots_' /\ DOMAIN snapshots_' \subseteq Snaps
      BY <2>1, <2>2, <2>3, Zenon DEF Types
    <3> QED
      BY <2>1, <2>2, <3>1, <3>2 DEF Types
  <2>7. Numbered'
    <3>1. Everything' = Everything
      BY <2>2, <1>TreeStays, Zenon
    <3> QED
      BY <2>1, <2>2, <3>1 DEF Numbered
  <2>8. LateSees'
    <3>1. group = <<>> => late' = {}
      BY <2>1, <2>2 DEF LateSees
    <3>2. ASSUME NEW p \in DOMAIN snapshots_', NEW i \in DOMAIN group
          PROVE  IF p \in late' THEN group[i].seq <= snapshots_'[p]
                 ELSE group[i].seq > snapshots_'[p]
      <4>1. group # <<>>
        OBVIOUS
      <4>2. late' = late \cup {s}
        BY <2>2, <4>1
      <4>3. CASE p = s
        BY <2>1, <2>3, <4>2, <4>3, Zenon DEF Numbered
      <4>4. CASE p # s
        BY <2>1, <2>3, <4>2, <4>4, Zenon DEF LateSees
      <4> QED
        BY <4>3, <4>4
    <3> QED
      BY <2>2, <3>1, <3>2, Zenon DEF LateSees
  <2>9. \A x \in (Pinned \cup {last_sequence_})' :
           x \in Pinned \cup {last_sequence_} \/ x >= last_sequence_
    BY <2>2, <2>4, Zenon
  <2>10. /\ SmallestSnapshot \in Nat /\ SmallestSnapshot' \in Nat
         /\ SmallestSnapshot <= SmallestSnapshot'
    BY <2>1, <2>6, <2>9, <1>SmallestGrows, Zenon
  <2>11. Ordered' /\ Layered' /\ Kept' /\ JobOK' /\ FlushRight' /\ CompactRight'
    BY <2>2, <2>6, <2>10, <1>ReadersMove
  <2> QED
    BY <2>6, <2>7, <2>8, <2>11 DEF Inv
\* A released snapshot lets SmallestSnapshot rise.
<1>ReleaseSnapshotStep.
    ASSUME Inv, NEW s \in Snaps, ReleaseSnapshot(s)
    PROVE  Inv'
  <2> USE <1>ReleaseSnapshotStep
  <2>1. Types /\ Numbered /\ LateSees
    BY DEF Inv
  <2>2. /\ snapshots_' = [p \in DOMAIN snapshots_ \ {s} |-> snapshots_[p]]
        /\ late' = late \ {s}
        /\ UNCHANGED <<mem_, imm_, levels, compact_pointer_, last_sequence_, group,
                       job, written>>
    BY Zenon DEF ReleaseSnapshot, tree
  <2>3. /\ DOMAIN snapshots_' = DOMAIN snapshots_ \ {s}
        /\ \A p \in DOMAIN snapshots_' : snapshots_'[p] = snapshots_[p]
    BY <2>2, Zenon
  <2>4. Pinned' \subseteq Pinned
    BY <2>3, Zenon DEF Pinned
  <2>5. Types'
    <3>1. Pinned' \subseteq 0..last_sequence_'
      BY <2>1, <2>2, <2>4, Zenon DEF Types
    <3>2. late' \subseteq DOMAIN snapshots_' /\ DOMAIN snapshots_' \subseteq Snaps
      BY <2>1, <2>2, <2>3, Zenon DEF Types
    <3> QED
      BY <2>1, <2>2, <3>1, <3>2 DEF Types
  <2>6. Numbered'
    <3>1. Everything' = Everything
      BY <2>2, <1>TreeStays, Zenon
    <3> QED
      BY <2>1, <2>2, <3>1 DEF Numbered
  <2>7. LateSees'
    <3>1. group = <<>> => late' = {}
      BY <2>1, <2>2 DEF LateSees
    <3>2. ASSUME NEW p \in DOMAIN snapshots_', NEW i \in DOMAIN group
          PROVE  IF p \in late' THEN group[i].seq <= snapshots_'[p]
                 ELSE group[i].seq > snapshots_'[p]
      BY <2>1, <2>2, <2>3, Zenon DEF LateSees
    <3> QED
      BY <2>2, <3>1, <3>2, Zenon DEF LateSees
  <2>8. \A x \in (Pinned \cup {last_sequence_})' :
           x \in Pinned \cup {last_sequence_} \/ x >= last_sequence_
    BY <2>2, <2>4, Zenon
  <2>9. /\ SmallestSnapshot \in Nat /\ SmallestSnapshot' \in Nat
        /\ SmallestSnapshot <= SmallestSnapshot'
    BY <2>1, <2>5, <2>8, <1>SmallestGrows, Zenon
  <2>10. Ordered' /\ Layered' /\ Kept' /\ JobOK' /\ FlushRight' /\ CompactRight'
    BY <2>2, <2>5, <2>9, <1>ReadersMove
  <2> QED
    BY <2>5, <2>6, <2>7, <2>10 DEF Inv
\* The jobs stay right while what they read stays.
<1>JobsStay.
    ASSUME UNCHANGED <<levels, job, snapshots_, last_sequence_>>
    PROVE  /\ SmallestSnapshot' = SmallestSnapshot
           /\ JobOK => JobOK'
           /\ FlushRight /\ imm_' = imm_ => FlushRight'
           /\ CompactRight => CompactRight'
  <2> USE <1>JobsStay
  <2>1. SmallestSnapshot' = SmallestSnapshot
    BY DEF SmallestSnapshot, Pinned
  <2>2. \A l : BottomMost(l)' = BottomMost(l)
    BY DEF BottomMost
  <2>3. JobOK => JobOK'
    BY DEF JobOK
  <2>4. FlushRight /\ imm_' = imm_ => FlushRight'
    BY <2>1 DEF FlushRight
  <2>5. CompactRight => CompactRight'
    BY <2>1, <2>2, Zenon DEF CompactRight
  <2> QED
    BY <2>1, <2>3, <2>4, <2>5
\* An insert is newer than all that was inserted before it.
<1>InsertStep.
    ASSUME Inv, Insert
    PROVE  Inv'
  <2> USE <1>InsertStep
  <2> DEFINE x == Head(group)
  <2>1. /\ Types /\ Numbered /\ LateSees /\ Ordered /\ Layered /\ Kept
        /\ JobOK /\ FlushRight /\ CompactRight
    BY DEF Inv
  <2>2. /\ group # <<>>
        /\ mem_' = mem_ \cup {x} /\ written' = written \cup {x}
        /\ group' = Tail(group)
        /\ late' = IF group' = <<>> THEN {} ELSE late
        /\ UNCHANGED <<imm_, levels, compact_pointer_, last_sequence_, snapshots_,
                       job>>
    BY Zenon DEF Insert
  <2>3. group \in Seq(Entry)
    BY <2>1 DEF Types
  <2>4. x = group[1] /\ 1 \in DOMAIN group /\ x \in Entry
    BY <2>2, <2>3
  <2>5. /\ group' \in Seq(Entry)
        /\ \A i \in DOMAIN group' :
              i \in Nat /\ i + 1 \in DOMAIN group /\ group'[i] = group[i + 1]
        /\ group = <<>> => group' = <<>>
    BY <2>2, <2>3
  <2>6. \A i \in DOMAIN group' : 1 < i + 1
    BY <2>3, <2>5
  <2> HIDE DEF x
  <2>7. /\ x.seq <= last_sequence_ /\ x.seq \in Nat
        /\ \A e \in written : e.seq < x.seq /\ e.seq \in Nat
        /\ \A i \in DOMAIN group' : x.seq < group'[i].seq
    <3>1. x.seq <= last_sequence_ /\ \A e \in written : e.seq < x.seq
      BY <2>1, <2>4, Zenon DEF Numbered
    <3>2. x.seq \in Nat /\ \A e \in written : e.seq \in Nat
      BY <2>1, <2>4, EntryFields, Zenon DEF Types
    <3>3. \A i \in DOMAIN group' : x.seq < group'[i].seq
      BY <2>1, <2>4, <2>5, <2>6, Zenon DEF Numbered
    <3> QED
      BY <3>1, <3>2, <3>3, Zenon
  <2>8. Everything' = Everything \cup {x} /\ \A l : EntriesOf(l)' = EntriesOf(l)
    <3>1. \A l : Range(levels[l])' = Range(levels[l])
      BY <2>2, Zenon
    <3> QED
      BY <2>2, <3>1 DEF Everything, EntriesOf
  <2>9. Everything \subseteq written /\ written \subseteq Entry
    BY <2>1, Zenon DEF Numbered, Types
  <2>10. Types'
    <3>1. mem_' \subseteq Entry /\ written' \subseteq Entry
      BY <2>1, <2>2, <2>4, Zenon DEF Types
    <3>2. Pinned' = Pinned
      BY <2>2 DEF Pinned
    <3>3. late' \subseteq DOMAIN snapshots_'
      BY <2>1, <2>2 DEF Types
    <3> QED
      BY <2>1, <2>2, <2>5, <3>1, <3>2, <3>3 DEF Types
  <2>11. Numbered'
    <3>1. Everything' \subseteq written'
      BY <2>2, <2>8, <2>9, Zenon
    <3>2. \A e \in written' : e.seq <= last_sequence_'
      BY <2>1, <2>2, <2>7, Zenon DEF Numbered
    <3>3. \A e \in written' : \A f \in written' : e.seq = f.seq => e = f
      <4>1. \A e \in written : e.seq # x.seq
        BY <2>7
      <4> QED
        BY <2>1, <2>2, <4>1, Zenon DEF Numbered
    <3>4. \A i \in DOMAIN group' : group'[i].seq <= last_sequence_'
      BY <2>1, <2>2, <2>5, Zenon DEF Numbered
    <3>5. \A i \in DOMAIN group' : \A e \in written' : e.seq < group'[i].seq
      BY <2>1, <2>2, <2>5, <2>7, Zenon DEF Numbered
    <3>6. ASSUME NEW i \in DOMAIN group', NEW j \in DOMAIN group', i < j
          PROVE  group'[i].seq < group'[j].seq
      <4>1. i + 1 < j + 1
        BY <2>5, <3>6
      <4> QED
        BY <2>1, <2>5, <4>1, Zenon DEF Numbered
    <3> QED
      BY <3>1, <3>2, <3>3, <3>4, <3>5, <3>6, Zenon DEF Numbered
  <2>12. LateSees'
    <3>1. ASSUME NEW s \in DOMAIN snapshots_, NEW i \in DOMAIN group'
          PROVE  IF s \in late' THEN group'[i].seq <= snapshots_[s]
                 ELSE group'[i].seq > snapshots_[s]
      <4>1. group' # <<>>
        OBVIOUS
      <4>2. late' = late
        BY <2>2, <4>1, Zenon
      <4> QED
        BY <2>1, <2>5, <4>2, Zenon DEF LateSees
    <3> QED
      BY <2>2, <3>1, Zenon DEF LateSees
  <2>13. Ordered'
    BY <2>1, <2>2 DEF Ordered
  <2>14. Layered'
    <3>1. \A S : S \subseteq written => Newer({x}, S)
      BY <2>7 DEF Newer
    <3>2. imm_ \subseteq written /\ \A l \in Levels : EntriesOf(l) \subseteq written
      BY <2>9, Zenon DEF Everything, EntriesOf
    <3>3. \A S : Newer(mem_, S) /\ Newer({x}, S) => Newer(mem_ \cup {x}, S)
      BY Zenon DEF Newer
    <3>4. /\ Newer(mem_ \cup {x}, imm_)
          /\ \A l \in Levels : Newer(mem_ \cup {x}, EntriesOf(l))
      BY <2>1, <3>1, <3>2, <3>3, Zenon DEF Layered
    <3> QED
      BY <2>1, <2>2, <2>8, <3>4, Zenon DEF Layered
  <2>15. /\ SmallestSnapshot' = SmallestSnapshot
         /\ JobOK' /\ FlushRight' /\ CompactRight'
    BY <2>1, <2>2, <1>JobsStay, Zenon
  <2>16. Kept'
    <3>1. ASSUME NEW e \in written' \ Everything'
          PROVE  \/ HiddenFromEveryone(e, written', SmallestSnapshot)
                 \/ Erased(e, Everything', SmallestSnapshot)
      <4>1. e \in written \ Everything /\ e \in Entry
        BY <2>2, <2>8, <2>9, Zenon
      <4>2. \/ HiddenFromEveryone(e, written, SmallestSnapshot)
            \/ Erased(e, Everything, SmallestSnapshot)
        BY <2>1, <4>1, Zenon DEF Kept
      <4>3. SmallestSnapshot \in Nat /\ SmallestSnapshot <= SmallestSnapshot
        BY <2>1, SmallestIsLeast
      <4>4. HiddenFromEveryone(e, written, SmallestSnapshot)
               => HiddenFromEveryone(e, written', SmallestSnapshot)
        BY <2>2, <2>9, <4>3, <1>HiddenGrows, Zenon
      <4>5. \A g \in Everything' : g.key = e.key => (g \in Everything \/ g.seq > e.seq)
        BY <2>7, <2>8, <4>1
      <4>6. Erased(e, Everything, SmallestSnapshot)
               => Erased(e, Everything', SmallestSnapshot)
        BY <4>1, <4>3, <4>5, <1>ErasedGrows, Zenon
      <4> QED
        BY <4>2, <4>4, <4>6
    <3> QED
      BY <2>15, <3>1, Zenon DEF Kept
  <2> QED
    BY <2>10, <2>11, <2>12, <2>13, <2>14, <2>15, <2>16 DEF Inv
\* The memtable moves behind an empty one.
<1>RotateStep.
    ASSUME Inv, Rotate
    PROVE  Inv'
  <2> USE <1>RotateStep
  <2>1. /\ Types /\ Numbered /\ LateSees /\ Ordered /\ Layered /\ Kept
        /\ JobOK /\ FlushRight /\ CompactRight
    BY DEF Inv
  <2>2. /\ imm_ = {} /\ imm_' = mem_ /\ mem_' = {}
        /\ UNCHANGED <<levels, compact_pointer_, last_sequence_, snapshots_, group,
                       job, late, written>>
    BY DEF Rotate
  <2>3. Everything' = Everything /\ \A l : EntriesOf(l)' = EntriesOf(l)
    <3>1. \A l : Range(levels[l])' = Range(levels[l])
      BY <2>2, Zenon
    <3> QED
      BY <2>2, <3>1 DEF Everything, EntriesOf
  <2>4. Types'
    <3>1. Pinned' = Pinned
      BY <2>2 DEF Pinned
    <3> QED
      BY <2>1, <2>2, <3>1 DEF Types
  <2>5. Numbered' /\ LateSees'
    BY <2>1, <2>2, <2>3 DEF Numbered, LateSees
  <2>6. Ordered'
    BY <2>1, <2>2 DEF Ordered
  <2>7. Layered'
    <3>1. \A S : Newer({}, S)
      BY DEF Newer
    <3> QED
      BY <2>1, <2>2, <2>3, <3>1, Zenon DEF Layered
  <2>8. SmallestSnapshot' = SmallestSnapshot /\ JobOK' /\ CompactRight'
    BY <2>1, <2>2, <1>JobsStay, Zenon
  <2>9. FlushRight'
    <3>1. job.kind # "flush"
      BY <2>1, <2>2 DEF FlushRight
    <3> QED
      BY <2>2, <3>1 DEF FlushRight
  <2>10. Kept'
    BY <2>1, <2>2, <2>3, <2>8, Zenon DEF Kept
  <2> QED
    BY <2>4, <2>5, <2>6, <2>7, <2>8, <2>9, <2>10 DEF Inv
\* A flush collapses imm_ for the snapshots of the moment.
<1>FlushStartStep.
    ASSUME Inv, FlushStart
    PROVE  Inv'
  <2> USE <1>FlushStartStep
  <2> DEFINE t == Collapse(imm_, SmallestSnapshot)
  <2>1. /\ Types /\ Numbered /\ LateSees /\ Ordered /\ Layered /\ Kept
    BY DEF Inv
  <2>2. /\ imm_ # {}
        /\ job' = [NoJob EXCEPT !.kind = "flush", !.outputs = {t}]
        /\ UNCHANGED <<mem_, imm_, levels, compact_pointer_, last_sequence_,
                       snapshots_, group, late, written>>
    BY Zenon DEF FlushStart, tree
  <2> HIDE DEF t
  <2>3. job'.kind = "flush" /\ job'.level = 0 /\ job'.outputs = {t}
    BY <2>2 DEF NoJob
  <2>4. Everything' = Everything /\ Ordered' /\ Layered'
    BY <2>1, <2>2, <1>TreeStays, Zenon
  <2>5. SmallestSnapshot' = SmallestSnapshot /\ Pinned' = Pinned
    BY <2>2 DEF SmallestSnapshot, Pinned
  <2>6. Types'
    BY <2>1, <2>2, <2>5 DEF Types
  <2>7. Numbered' /\ LateSees'
    BY <2>1, <2>2, <2>4 DEF Numbered, LateSees
  <2>8. Kept'
    BY <2>1, <2>2, <2>4, <2>5, Zenon DEF Kept
  <2>9. JobOK' /\ CompactRight'
    BY <2>3, LsmTreeAssumption DEF JobOK, CompactRight, Levels
  <2>10. FlushRight'
    <3>1. t \in SUBSET imm_
          /\ \A e \in imm_ \ t : HiddenFromEveryone(e, imm_, SmallestSnapshot)
      BY Zenon DEF t, Collapse
    <3>2. t # {}
      <4>1. imm_ \in SUBSET Entry /\ SmallestSnapshot \in Nat
        BY <2>1, SmallestIsLeast, Zenon DEF Types
      <4> QED
        BY <2>2, <4>1, <1>CollapseKeepsNewest, Zenon DEF t
    <3> QED
      BY <2>2, <2>3, <2>5, <3>1, <3>2, Zenon DEF FlushRight
  <2> QED
    BY <2>4, <2>6, <2>7, <2>8, <2>9, <2>10 DEF Inv
\* The flushed table goes in front of L0, and what it lacks nobody can read.
<1>FlushInstallStep.
    ASSUME Inv, FlushInstall
    PROVE  Inv'
\* The first table of a sequence with one put in front.
  <2>InFront.
      ASSUME NEW S, NEW t \in S, NEW q \in Seq(S),
             NEW r, r = L0With(q, t)
      PROVE  /\ r \in Seq(S)
             /\ Range(r) = {t} \cup Range(q)
             /\ \A i \in DOMAIN r :
                   \/ i = 1 /\ r[i] = t
                   \/ i > 1 /\ i - 1 \in DOMAIN q /\ r[i] = q[i - 1]
    <3> USE <2>InFront
    <3>1. /\ r \in Seq(S) /\ r[1] = t /\ Len(r) = Len(q) + 1
          /\ DOMAIN r = 1..Len(r) /\ DOMAIN q = 1..Len(q) /\ Len(q) \in Nat
          /\ \A i \in DOMAIN q : r[i + 1] = q[i]
      BY DEF L0With
    <3>2. ASSUME NEW i \in DOMAIN r
          PROVE  \/ i = 1 /\ r[i] = t
                 \/ i > 1 /\ i - 1 \in DOMAIN q /\ r[i] = q[i - 1]
      <4>1. i = 1 \/ (i > 1 /\ i - 1 \in DOMAIN q /\ (i - 1) + 1 = i)
        BY <3>1
      <4> QED
        BY <3>1, <4>1
    <3>3. 1 \in DOMAIN r /\ \A i \in DOMAIN q : i + 1 \in DOMAIN r
      BY <3>1
    <3>4. Range(r) = {t} \cup Range(q)
      <4>1. ASSUME NEW x \in Range(r)
            PROVE  x \in {t} \cup Range(q)
        BY <3>2, Zenon DEF Range
      <4>2. ASSUME NEW x \in Range(q)
            PROVE  x \in Range(r)
        BY <3>1, <3>3 DEF Range
      <4>3. t \in Range(r)
        BY <3>1, <3>3, Zenon DEF Range
      <4> QED
        BY <4>1, <4>2, <4>3, Zenon
    <3> QED
      BY <3>1, <3>2, <3>4
  <2> USE <1>FlushInstallStep
  <2>1. /\ Types /\ Numbered /\ LateSees /\ Ordered /\ Layered /\ Kept
        /\ FlushRight
    BY DEF Inv
  <2>2. PICK t \in job.outputs : levels' = [levels EXCEPT ![0] = L0With(levels[0], t)]
    BY Zenon DEF FlushInstall
  <2>3. /\ job.kind = "flush" /\ imm_' = {} /\ job' = NoJob
        /\ UNCHANGED <<mem_, compact_pointer_, last_sequence_, snapshots_, group,
                       late, written>>
    BY Zenon DEF FlushInstall
  <2>4. /\ t \subseteq imm_ /\ t # {}
        /\ \A e \in imm_ \ t : HiddenFromEveryone(e, imm_, SmallestSnapshot)
    BY <2>1, <2>2, <2>3, Zenon DEF FlushRight
  <2>5. imm_ \in SUBSET Entry /\ t \in SUBSET Entry /\ 0 \in Levels
        /\ written \in SUBSET Entry /\ levels \in [Levels -> Seq(SUBSET Entry)]
    BY <2>1, <2>4, LsmTreeAssumption DEF Types, Levels
  <2>6. /\ levels'[0] = L0With(levels[0], t)
        /\ \A l \in Levels \ {0} : levels'[l] = levels[l]
    BY <2>2, <2>5
  <2>7. levels[0] \in Seq(SUBSET Entry)
    BY <2>5
  <2>8. /\ levels'[0] \in Seq(SUBSET Entry)
        /\ Range(levels'[0]) = {t} \cup Range(levels[0])
        /\ \A i \in DOMAIN levels'[0] :
              \/ i = 1 /\ levels'[0][i] = t
              \/ i > 1 /\ i - 1 \in DOMAIN levels[0]
                 /\ levels'[0][i] = levels[0][i - 1]
    <3> DEFINE S == SUBSET Entry
    <3>1. levels'[0] = L0With(levels[0], t) /\ levels[0] \in Seq(S) /\ t \in S
      BY <2>5, <2>6, <2>7, Zenon
    <3> HIDE DEF S
    <3>2. levels'[0] \in Seq(S)
      BY <3>1, <2>InFront, Zenon
    <3>3. Range(levels'[0]) = {t} \cup Range(levels[0])
      BY <3>1, <2>InFront
    <3>4. \A i \in DOMAIN levels'[0] :
              \/ i = 1 /\ levels'[0][i] = t
              \/ i > 1 /\ i - 1 \in DOMAIN levels[0]
                 /\ levels'[0][i] = levels[0][i - 1]
      BY <3>1, <2>InFront
    <3> QED
      BY <3>2, <3>3, <3>4, Zenon DEF S
  <2>9. levels' \in [Levels -> Seq(SUBSET Entry)]
    <3>1. \A l \in Levels : levels'[l] \in Seq(SUBSET Entry)
      BY <2>5, <2>6, <2>8, Zenon
    <3>2. levels' = [l \in Levels |-> levels'[l]]
      BY ZenonT(40), <2>2, <2>5
    <3> QED
      BY <3>1, <3>2, Zenon
  <2>10. /\ EntriesOf(0)' = t \cup EntriesOf(0)
         /\ \A l \in Levels \ {0} : EntriesOf(l)' = EntriesOf(l)
    <3>1. \A l \in Levels : EntriesOf(l)' = UNION Range(levels'[l])
      BY DEF EntriesOf, Range
    <3>2. EntriesOf(0)' = t \cup EntriesOf(0)
      BY <2>5, <2>8, <3>1, Zenon DEF EntriesOf
    <3>3. \A l \in Levels \ {0} : EntriesOf(l)' = EntriesOf(l)
      BY <2>6, <3>1, Zenon DEF EntriesOf
    <3> QED
      BY <3>2, <3>3
  <2>11. Everything = mem_ \cup imm_ \cup UNION {EntriesOf(l) : l \in Levels}
    BY Zenon DEF Everything, EntriesOf
  <2>12. Everything' = mem_ \cup UNION {EntriesOf(l)' : l \in Levels}
    BY <2>3, Zenon DEF Everything, EntriesOf
  <2>13. Everything' \subseteq Everything /\ Everything \ Everything' \subseteq imm_ \ t
    <3>1. ASSUME NEW e \in Everything'
          PROVE  e \in Everything
      <4>1. CASE e \in mem_
        BY <2>11, <4>1, Zenon
      <4>2. CASE \E l \in Levels : e \in EntriesOf(l)'
        <5>1. PICK l \in Levels : e \in EntriesOf(l)'
          BY <4>2
        <5>2. CASE l = 0
          BY <2>4, <2>5, <2>10, <2>11, <5>1, <5>2, Zenon
        <5>3. CASE l # 0
          BY <2>10, <2>11, <5>1, <5>3, Zenon
        <5> QED
          BY <5>2, <5>3
      <4> QED
        BY <2>12, <4>1, <4>2, Zenon
    <3>2. ASSUME NEW e \in Everything, e \notin Everything'
          PROVE  e \in imm_ \ t
      <4>1. e \notin mem_ /\ \A l \in Levels : e \notin EntriesOf(l)'
        BY <2>12, <3>2, Zenon
      <4>2. e \notin t /\ \A l \in Levels : e \notin EntriesOf(l)
        BY <2>5, <2>10, <4>1, Zenon
      <4> QED
        BY <2>11, <4>1, <4>2, Zenon
    <3> QED
      BY <3>1, <3>2, Zenon
  <2>14. SmallestSnapshot' = SmallestSnapshot /\ Pinned' = Pinned
    BY <2>3 DEF SmallestSnapshot, Pinned
  <2>15. Types'
    <3>1. \A l \in Levels : {} \notin Range(levels'[l])
      BY <2>1, <2>4, <2>6, <2>8, Zenon DEF Types
    <3>2. \A l \in Levels : {} \notin Range(levels[l])'
      BY <3>1 DEF Range
    <3> QED
      BY <2>1, <2>3, <2>9, <2>14, <3>2 DEF Types
  <2>16. Numbered' /\ LateSees'
    <3>1. Everything' \subseteq written
      BY <2>1, <2>13, Zenon DEF Numbered
    <3> QED
      BY Zenon, <2>1, <2>3, <3>1 DEF Numbered, LateSees
  <2>17. Ordered'
    <3>1. \A l \in Levels \ {0} : levels[l]' = levels[l]
      BY <2>6
    <3> QED
      BY <2>1, <3>1, Zenon DEF Ordered
  <2>18. Layered'
    <3>1. \A S : Newer({}, S) /\ Newer(S, {})
      BY DEF Newer
    <3>2. ASSUME NEW l \in Levels
          PROVE  Newer(mem_, EntriesOf(l)')
      BY <2>1, <2>4, <2>10, Zenon DEF Layered, Newer
    <3>3. ASSUME NEW i \in DOMAIN levels'[0], NEW j \in DOMAIN levels'[0], i < j
          PROVE  Newer(levels'[0][i], levels'[0][j])
      <4>1. i \in Nat /\ j \in Nat /\ i >= 1 /\ j - 1 \in DOMAIN levels[0]
            /\ levels'[0][j] = levels[0][j - 1]
        BY <2>8, <3>3
      <4>2. CASE i = 1
        <5>1. levels[0][j - 1] \subseteq EntriesOf(0)
          BY <2>1, <2>5, <4>1, LevelTables, Zenon
        <5>2. Newer(imm_, EntriesOf(0))
          BY <2>1, <2>5, Zenon DEF Layered
        <5>3. levels'[0][i] = t
          BY <2>8, <4>2
        <5> QED
          BY <2>4, <4>1, <5>1, <5>2, <5>3, Zenon DEF Newer
      <4>3. CASE i # 1
        <5>1. i - 1 \in DOMAIN levels[0] /\ levels'[0][i] = levels[0][i - 1]
              /\ i - 1 < j - 1
          BY ONLY SMTT(30), <2>8, <3>3, <4>1, <4>3
        <5> QED
          BY <2>1, <4>1, <5>1, Zenon DEF Layered
      <4> QED
        BY <4>2, <4>3
    <3>4. ASSUME NEW l \in Levels, NEW m \in Levels, l < m
          PROVE  Newer(EntriesOf(l)', EntriesOf(m)')
      <4>1. m # 0 /\ EntriesOf(m)' = EntriesOf(m)
        <5>1. m # 0
          BY <3>4 DEF Levels
        <5> QED
          BY <2>10, <5>1, Zenon
      <4>2. Newer(EntriesOf(l), EntriesOf(m)) /\ Newer(imm_, EntriesOf(m))
        BY <2>1, <3>4, Zenon DEF Layered
      <4> QED
        BY <2>4, <2>10, <4>1, <4>2, Zenon DEF Newer
    <3> QED
      BY <2>3, <3>1, <3>2, <3>3, <3>4, Zenon DEF Layered
  <2>19. Kept'
    <3>1. ASSUME NEW e \in written \ Everything'
          PROVE  \/ HiddenFromEveryone(e, written, SmallestSnapshot)
                 \/ Erased(e, Everything', SmallestSnapshot)
      <4>1. SmallestSnapshot \in Nat /\ SmallestSnapshot <= SmallestSnapshot
        BY <2>1, SmallestIsLeast
      <4>2. CASE e \in Everything
        <5>1. HiddenFromEveryone(e, imm_, SmallestSnapshot)
          BY <2>4, <2>13, <4>2, Zenon
        <5>2. imm_ \subseteq written
          BY <2>1, <2>11, Zenon DEF Numbered
        <5> QED
          BY <2>5, <4>1, <5>1, <5>2, <1>HiddenGrows, Zenon
      <4>3. CASE e \notin Everything
        <5>1. \/ HiddenFromEveryone(e, written, SmallestSnapshot)
              \/ Erased(e, Everything, SmallestSnapshot)
          BY <2>1, <4>3, Zenon DEF Kept
        <5>2. Erased(e, Everything, SmallestSnapshot)
                 => Erased(e, Everything', SmallestSnapshot)
          BY <2>5, <2>13, <4>1, <1>ErasedGrows, ZenonT(40)
        <5> QED
          BY <5>1, <5>2
      <4> QED
        BY <4>2, <4>3
    <3> QED
      BY <2>3, <2>14, <3>1, Zenon DEF Kept
  <2>20. JobOK' /\ FlushRight' /\ CompactRight'
    BY Zenon, <2>3, <2>5 DEF JobOK, FlushRight, CompactRight, NoJob
  <2> QED
    BY <2>15, <2>16, <2>17, <2>18, <2>19, <2>20 DEF Inv
\* A table that a compaction leaves in the next level lies before all the
\* inputs or behind all of them.
<1>ApartFromInputs.
    ASSUME NEW u \in SUBSET Entry, u # {}, NEW S \in SUBSET Entry, S # {},
           NEW V \in SUBSET (SUBSET Entry), {} \notin V,
           ~RangesOverlap(u, SmallestKey(S), LargestKey(S)),
           \A v \in V : RangesOverlap(v, SmallestKey(S), LargestKey(S)),
           \A v \in V : Apart(u, v)
    PROVE  Apart(u, S \cup UNION V)
  <2> USE <1>ApartFromInputs
  <2> DEFINE lo == SmallestKey(S)
             hi == LargestKey(S)
  <2>1. \A T \in SUBSET Entry : \A e \in T : e.key \in Nat
    BY EntryFields, Zenon
  <2>2. /\ lo \in Nat /\ hi \in Nat
        /\ \A e \in S : lo <= e.key /\ e.key <= hi
    BY KeyRange, Zenon
  <2>3. \A T \in SUBSET Entry : T # {} =>
           /\ SmallestKey(T) \in Nat /\ LargestKey(T) \in Nat
           /\ \E e \in T : e.key = SmallestKey(T)
           /\ \E e \in T : e.key = LargestKey(T)
           /\ \A e \in T : SmallestKey(T) <= e.key /\ e.key <= LargestKey(T)
    BY KeyRange, Zenon
  <2>4. LargestKey(u) < lo \/ SmallestKey(u) > hi
    <3>1. ~(LargestKey(u) >= lo /\ SmallestKey(u) <= hi)
      BY Zenon DEF RangesOverlap
    <3> HIDE DEF lo, hi
    <3> QED
      BY <2>2, <2>3, <3>1
  <2>5. \A v \in V : /\ \E g \in v : g.key >= lo /\ g.key \in Nat
                     /\ \E g \in v : g.key <= hi /\ g.key \in Nat
    <3>1. ASSUME NEW v \in V
          PROVE  /\ \E g \in v : g.key >= lo /\ g.key \in Nat
                 /\ \E g \in v : g.key <= hi /\ g.key \in Nat
      <4>1. v \in SUBSET Entry /\ v # {}
        BY Zenon
      <4>2. LargestKey(v) >= lo /\ SmallestKey(v) <= hi
        BY Zenon DEF RangesOverlap
      <4>3. PICK g \in v : g.key = LargestKey(v)
        BY <2>3, <4>1, Zenon
      <4>4. PICK h \in v : h.key = SmallestKey(v)
        BY <2>3, <4>1, Zenon
      <4>5. g.key \in Nat /\ h.key \in Nat
        BY <2>1, <4>1, <4>3, <4>4, Zenon
      <4>6. g.key >= lo /\ h.key <= hi
        BY <4>2, <4>3, <4>4
      <4> QED
        BY <4>5, <4>6, Zenon
    <3> QED
      BY <3>1, Zenon
  <2> HIDE DEF lo, hi
  <2>6. PICK f \in u : TRUE
    OBVIOUS
  <2>7. f.key \in Nat /\ SmallestKey(u) \in Nat /\ LargestKey(u) \in Nat
        /\ SmallestKey(u) <= f.key /\ f.key <= LargestKey(u)
    BY <2>1, <2>3, <2>6, Zenon
  <2>8. CASE LargestKey(u) < lo
    <3>1. \A g \in u : g.key \in Nat /\ g.key < lo
      BY <2>1, <2>2, <2>3, <2>8
    <3>2. Below(u, S)
      BY <2>1, <2>2, <3>1 DEF Below
    <3>3. ASSUME NEW v \in V
          PROVE  Below(u, v)
      <4>1. PICK g \in v : g.key >= lo /\ g.key \in Nat
        BY <2>5, Zenon
      <4>2. ~(g.key < f.key)
        BY <2>2, <2>6, <3>1, <4>1
      <4>3. ~Below(v, u)
        BY <2>6, <4>1, <4>2, Zenon DEF Below
      <4> QED
        BY <4>3, Zenon DEF Apart
    <3> QED
      BY <3>2, <3>3, Zenon DEF Apart, Below
  <2>9. CASE SmallestKey(u) > hi
    <3>1. \A g \in u : g.key \in Nat /\ hi < g.key
      BY <2>1, <2>2, <2>3, <2>9
    <3>2. Below(S, u)
      BY <2>1, <2>2, <3>1 DEF Below
    <3>3. ASSUME NEW v \in V
          PROVE  Below(v, u)
      <4>1. PICK g \in v : g.key <= hi /\ g.key \in Nat
        BY <2>5, Zenon
      <4>2. ~(f.key < g.key)
        BY <2>2, <2>6, <3>1, <4>1
      <4>3. ~Below(u, v)
        BY <2>6, <4>1, <4>2, Zenon DEF Below
      <4> QED
        BY <4>3, Zenon DEF Apart
    <3> QED
      BY <3>2, <3>3, ZenonT(40) DEF Apart, Below
  <2> QED
    BY <2>4, <2>8, <2>9
\* Two tables of one level below L0.
<1>TablesApart.
    ASSUME Types, Ordered, NEW l \in Levels \ {0},
           NEW t \in Range(levels[l]), NEW u \in Range(levels[l]), t # u
    PROVE  Apart(t, u)
  <2> USE <1>TablesApart
  <2>1. PICK i \in DOMAIN levels[l] : levels[l][i] = t
    BY Zenon DEF Range
  <2>2. PICK j \in DOMAIN levels[l] : levels[l][j] = u
    BY Zenon DEF Range
  <2>3. DOMAIN levels[l] \subseteq Nat
    BY LevelTables
  <2>4. i < j \/ j < i
    BY <2>1, <2>2, <2>3
  <2> QED
    BY <2>1, <2>2, <2>4, Zenon DEF Apart, Ordered
\* The table that a compaction starts from is one of the level.
<1>ChosenInLevel.
    ASSUME Types, NEW l \in Levels, levels[l] # <<>>
    PROVE  Chosen(l) \in Range(levels[l])
  <2> USE <1>ChosenInLevel
  <2> DEFINE files == levels[l]
             next == {i \in DOMAIN files : Largest(files[i]) > compact_pointer_[l]}
  <2>1. /\ DOMAIN files \in SUBSET Nat /\ 1 \in DOMAIN files
        /\ \A i \in DOMAIN files : files[i] \in Range(levels[l])
    <3>1. /\ files \in Seq(SUBSET Entry) /\ DOMAIN files = 1..Len(files)
          /\ \A i \in DOMAIN files : files[i] \in Range(levels[l])
      BY LevelTables, Zenon
    <3> QED
      BY <3>1
  <2>2. next # {} => Min(next) \in next
    <3>1. next \in SUBSET Nat
      BY <2>1, Zenon
    <3> QED
      BY <3>1, MinIsLeast, Zenon
  <2>3. Chosen(l) = IF next = {} THEN files[1] ELSE files[Min(next)]
    BY Zenon DEF Chosen
  <2> QED
    BY <2>1, <2>2, <2>3, Zenon
\* A compaction reads whole key ranges and writes what readers still need.
<1>CompactStartStep.
    ASSUME Inv, NEW l \in Levels, CompactStart(l)
    PROVE  Inv'
  <2> USE <1>CompactStartStep
  <2> DEFINE inputs0 == IF l = 0 THEN Range(levels[0]) ELSE {Chosen(l)}
             V == Overlapping(l + 1, UNION inputs0)
             inputs == inputs0 \cup V
             from == UNION inputs
             n == SmallestSnapshot
             merged == Merge(from, BottomMost(l), n)
  <2>1. /\ Types /\ Numbered /\ LateSees /\ Ordered /\ Layered /\ Kept
    BY DEF Inv
  <2>2. /\ l \in PickCompactionLevel /\ levels[l] # <<>>
        /\ \E outputs \in Cuts(merged) :
              job' = [kind |-> "compact", level |-> l, inputs |-> inputs,
                      outputs |-> outputs]
        /\ UNCHANGED <<mem_, imm_, levels, last_sequence_, snapshots_, group,
                       late, written>>
    BY Zenon DEF CompactStart
  <2>3. PICK to \in Cuts(merged) :
           job' = [kind |-> "compact", level |-> l, inputs |-> inputs,
                   outputs |-> to]
    BY <2>2, ZenonT(40)
  <2>4. l + 1 \in Levels /\ l + 1 # 0
    <3>1. l \in PickCompactionLevel
      BY <2>2, ZenonT(40)
    <3> QED
      BY ONLY SMTT(30), <3>1, LsmTreeAssumption DEF PickCompactionLevel, OverBudget, Levels
  <2>5. /\ inputs0 \in SUBSET Range(levels[l]) /\ inputs0 # {}
        /\ l = 0 => Range(levels[0]) \subseteq inputs0
    <3>1. Chosen(l) \in Range(levels[l])
      BY <2>1, <2>2, <1>ChosenInLevel, Zenon
    <3> QED
      BY <3>1, Zenon
  <2>6. /\ Range(levels[l]) \in SUBSET (SUBSET Entry)
        /\ Range(levels[l + 1]) \in SUBSET (SUBSET Entry)
        /\ {} \notin Range(levels[l]) /\ {} \notin Range(levels[l + 1])
    BY <2>1, <2>4, LevelTables, Zenon DEF Types
  <2>7. V \in SUBSET Range(levels[l + 1])
        /\ \A v \in Range(levels[l + 1]) : v \in V <=>
              RangesOverlap(v, SmallestKey(UNION inputs0), LargestKey(UNION inputs0))
    BY Zenon DEF Overlapping
  <2> HIDE DEF inputs0, V
  <2>8. UNION inputs0 \in SUBSET Entry /\ UNION inputs0 # {}
    <3>1. \A t \in inputs0 : t \in SUBSET Entry /\ t # {}
      BY <2>5, <2>6, Zenon
    <3>2. PICK t \in inputs0 : TRUE
      BY <2>5, Zenon
    <3>3. PICK e \in t : TRUE
      BY <3>1, <3>2, Zenon
    <3>4. e \in UNION inputs0 /\ \A d \in UNION inputs0 : d \in Entry
      BY <3>1, <3>2, <3>3, Zenon
    <3> QED
      BY <3>4, Zenon
  <2>9. from \in SUBSET Entry /\ from = (UNION inputs0) \cup UNION V
    <3>1. from = (UNION inputs0) \cup UNION V
      OBVIOUS
    <3>2. \A e \in UNION V : e \in Entry
      BY <2>6, <2>7, Zenon
    <3>3. \A e \in from : e \in Entry
      BY <2>8, <3>1, <3>2, Zenon
    <3> QED
      BY <3>1, <3>3, Zenon
  <2>10. ASSUME NEW u \in Range(levels[l + 1]) \ inputs
         PROVE  Apart(u, from)
    <3>1. u \notin V /\ u \in SUBSET Entry /\ u # {}
      BY <2>6, Zenon
    <3>2. ~RangesOverlap(u, SmallestKey(UNION inputs0), LargestKey(UNION inputs0))
      BY <2>7, <3>1, Zenon
    <3>3. V \in SUBSET (SUBSET Entry) /\ {} \notin V
      BY <2>6, <2>7, Zenon
    <3>4. \A v \in V : Apart(u, v)
      BY <2>1, <2>4, <2>7, <3>1, <1>TablesApart, Zenon
    <3>5. Apart(u, (UNION inputs0) \cup UNION V)
      <4> DEFINE S == UNION inputs0
      <4>1. S \in SUBSET Entry /\ S # {}
            /\ ~RangesOverlap(u, SmallestKey(S), LargestKey(S))
            /\ \A v \in V : RangesOverlap(v, SmallestKey(S), LargestKey(S))
        BY <2>7, <2>8, <3>2, Zenon
      <4> HIDE DEF S
      <4>2. Apart(u, S \cup UNION V)
        BY <3>1, <3>3, <3>4, <4>1, <1>ApartFromInputs, Zenon
      <4> QED
        BY <4>2, Zenon DEF S
    <3> QED
      BY <2>9, <3>5, Zenon
  <2>11. n \in Nat
    BY <2>1, SmallestIsLeast, Zenon
  <2>12. from \subseteq Everything
    <3>1. EntriesOf(l) \subseteq Everything /\ EntriesOf(l + 1) \subseteq Everything
      BY <2>1, <2>4, LevelTables, Zenon
    <3>2. UNION inputs0 \subseteq EntriesOf(l) /\ UNION V \subseteq EntriesOf(l + 1)
      BY <2>5, <2>7, Zenon DEF EntriesOf
    <3> QED
      BY <2>9, <3>1, <3>2
  <2>13. inputs \subseteq Range(levels[l]) \cup Range(levels[l + 1])
         /\ (l = 0 => Range(levels[0]) \subseteq inputs)
    BY <2>5, <2>7, Zenon
  <2> HIDE DEF inputs, from, n
  <2>14. merged \subseteq from
    BY Zenon DEF Merge, Collapse
  <2>15. ASSUME NEW e \in from \ merged
         PROVE  \/ HiddenFromEveryone(e, from, n)
                \/ Erased(e, merged, n) /\ BottomMost(l)
    <3>1. \A d \in from : \A f \in from : d.seq = f.seq => d = f
      BY <2>1, <2>12, Zenon DEF Numbered
    <3> DEFINE bottom == BottomMost(l)
    <3> HIDE DEF bottom
    <3>2. merged = Merge(from, bottom, n)
      BY DEF bottom
    <3>3. \/ HiddenFromEveryone(e, from, n)
          \/ /\ e.del /\ bottom /\ e.seq <= n
             /\ \A g \in Merge(from, bottom, n) : g.key = e.key => g.seq > e.seq
      BY <2>9, <2>11, <3>1, <3>2, <1>MergeDrops, Zenon
    <3> QED
      BY <3>2, <3>3, Zenon DEF Erased, bottom
  <2> HIDE DEF merged
  <2>16. /\ UNION to = merged
         /\ {} \notin to
         /\ \A t \in to : \A u \in to : t # u => Apart(t, u)
    <3>1. merged \in SUBSET Entry
      BY <2>9, <2>14, Zenon
    <3> QED
      BY <2>3, <3>1, <1>CutsApart, Zenon
  <2>17. job'.kind = "compact" /\ job'.level = l /\ job'.inputs = inputs
         /\ job'.outputs = to
    BY <2>3
  <2>18. /\ Everything' = Everything /\ Ordered' /\ Layered'
         /\ BottomMost(l)' = BottomMost(l)
    BY <2>1, <2>2, <1>TreeStays, Zenon
  <2>19. SmallestSnapshot' = n /\ Pinned' = Pinned
    BY Zenon, <2>2 DEF SmallestSnapshot, Pinned, n
  <2>20. Types'
    BY <2>1, <2>2, <2>19 DEF Types
  <2>21. Numbered' /\ LateSees'
    BY Zenon, <2>1, <2>2, <2>18 DEF Numbered, LateSees
  <2>22. Kept'
    BY <2>1, <2>2, <2>18, <2>19, Zenon DEF Kept, n
  <2>23. JobOK' /\ FlushRight'
    BY <2>17 DEF JobOK, FlushRight
  <2>24. CompactRight'
    <3>1. levels' = levels
      BY Zenon, <2>2
    <3>2. UNION job'.inputs = from /\ UNION job'.outputs = merged
      BY <2>16, <2>17, Zenon DEF from
    <3>3. /\ l \in Levels /\ l + 1 \in Levels
          /\ inputs \subseteq Range(levels[l]) \cup Range(levels[l + 1])
          /\ l = 0 => Range(levels[0]) \subseteq inputs
          /\ \A u \in Range(levels[l + 1]) \ inputs : Apart(u, from)
          /\ merged \subseteq from
          /\ {} \notin to
          /\ \A t \in to : \A u \in to : t # u => Apart(t, u)
          /\ \A e \in from \ merged :
                \/ HiddenFromEveryone(e, from, n)
                \/ Erased(e, merged, n) /\ BottomMost(l)
      BY <2>4, <2>10, <2>13, <2>14, <2>15, <2>16, ZenonT(40)
    <3> QED
      BY <2>17, <2>18, <2>19, <3>1, <3>2, <3>3, ZenonT(40) DEF CompactRight
  <2> QED
    BY <2>18, <2>20, <2>21, <2>22, <2>23, <2>24 DEF Inv
\* The inputs are replaced by the outputs; the order of the levels, and what
\* readers find, stay.
<1>CompactInstallStep.
    ASSUME Inv, CompactInstall
    PROVE  Inv'
\* InOrder lists every element once, by ascending ranks.
  <2>InOrderSorts.
      ASSUME NEW T, IsFiniteSet(T), NEW rank \in [T -> Nat],
             \A t \in T : \A u \in T : rank[t] = rank[u] => t = u,
             NEW s, s = InOrder(T, rank)
      PROVE  /\ s \in Seq(T)
             /\ Range(s) = T
             /\ \A i \in DOMAIN s : \A j \in DOMAIN s :
                   i < j => rank[s[i]] < rank[s[j]]
    <3> USE <2>InOrderSorts
    <3> DEFINE N == Cardinality(T)
               upto(t) == {u \in T : rank[u] <= rank[t]}
               place == [t \in T |-> Cardinality(upto(t))]
    <3>1. N \in Nat
      BY FS_CardinalityType
    <3>2. ASSUME NEW t \in T
          PROVE  IsFiniteSet(upto(t)) /\ Cardinality(upto(t)) \in 1..N
      <4>1. upto(t) \in SUBSET T /\ upto(t) # {}
        OBVIOUS
      <4>2. IsFiniteSet(upto(t)) /\ Cardinality(upto(t)) <= N
        BY <4>1, FS_Subset
      <4>3. Cardinality(upto(t)) \in Nat /\ Cardinality(upto(t)) # 0
        BY <4>1, <4>2, FS_CardinalityType, FS_EmptySet
      <4> QED
        BY <3>1, <4>2, <4>3
    <3>3. ASSUME NEW t \in T, NEW u \in T, rank[t] < rank[u]
          PROVE  place[t] < place[u]
      <4>1. upto(t) \in SUBSET upto(u) /\ u \in upto(u) /\ u \notin upto(t)
        BY <3>3
      <4>2. Cardinality(upto(t)) <= Cardinality(upto(u))
            /\ Cardinality(upto(t)) # Cardinality(upto(u))
        BY ZenonT(40), <3>2, <4>1, FS_Subset
      <4> QED
        BY <3>2, <4>2
    <3>4. place \in [T -> 1..N]
      BY <3>2, Zenon
    <3>5. ASSUME NEW t \in T, NEW u \in T, place[t] = place[u]
          PROVE  t = u
      <4>1. ~(place[t] < place[u]) /\ ~(place[u] < place[t])
        BY <3>4, <3>5
      <4>2. ~(rank[t] < rank[u]) /\ ~(rank[u] < rank[t])
        BY <3>3, <4>1, Zenon
      <4> QED
        BY <4>2
    <3>6. place \in Injection(T, 1..N)
      BY <3>4, <3>5, Zenon DEF Injection, IsInjective
    <3>7. IsFiniteSet(1..N) /\ Cardinality(1..N) = N
      BY <3>1, FS_Interval
    <3>8. place \in Surjection(T, 1..N)
      BY <3>6, <3>7, FS_Injection
    <3>9. \A n \in 1..N : \E t \in T : place[t] = n
      BY <3>8, Zenon DEF Surjection
    <3>10. s = [n \in 1..N |->
                 CHOOSE t \in T : Cardinality({u \in T : rank[u] <= rank[t]}) = n]
      BY Zenon DEF InOrder
    <3>11. ASSUME NEW n \in 1..N
           PROVE  s[n] \in T /\ place[s[n]] = n
      <4>1. \E t \in T : Cardinality({u \in T : rank[u] <= rank[t]}) = n
        BY <3>9, Zenon
      <4>2. s[n] \in T /\ Cardinality({u \in T : rank[u] <= rank[s[n]]}) = n
        BY <3>10, <4>1, Zenon
      <4> QED
        BY <4>2, Zenon
    <3> HIDE DEF place, N
    <3>12. DOMAIN s = 1..N /\ s \in [1..N -> T]
      BY <3>10, <3>11, Zenon
    <3>13. s \in Seq(T)
      BY <3>1, <3>12
    <3>14. Range(s) = T
      <4>1. ASSUME NEW t \in T
            PROVE  \E n \in DOMAIN s : s[n] = t
        <5>1. place[t] \in 1..N /\ place[s[place[t]]] = place[t]
          BY <3>4, <3>11
        <5>2. s[place[t]] = t
          BY <3>5, <3>11, <5>1
        <5> QED
          BY <3>12, <5>1, <5>2
      <4> QED
        BY <3>11, <3>12, <4>1 DEF Range
    <3>15. ASSUME NEW i \in DOMAIN s, NEW j \in DOMAIN s, i < j
           PROVE  rank[s[i]] < rank[s[j]]
      <4>1. s[i] \in T /\ s[j] \in T /\ place[s[i]] = i /\ place[s[j]] = j
        BY <3>11, <3>12, Zenon
      <4>2. ~(rank[s[j]] < rank[s[i]])
        BY <3>1, <3>3, <3>12, <3>15, <4>1
      <4>3. rank[s[j]] # rank[s[i]]
        BY <3>12, <3>15, <4>1
      <4> QED
        BY <4>1, <4>2, <4>3
    <3> QED
      BY <3>13, <3>14, <3>15
  \* Without takes out the given tables and keeps the order of the others.
  <2>WithoutKeeps.
      ASSUME NEW S, NEW files \in Seq(S), NEW gone,
             NEW s, s = Without(files, gone)
      PROVE  /\ s \in Seq(S)
             /\ Range(s) = Range(files) \ gone
             /\ \A i \in DOMAIN s : \A j \in DOMAIN s : i < j =>
                   \E m \in DOMAIN files : \E n \in DOMAIN files :
                      m < n /\ s[i] = files[m] /\ s[j] = files[n]
    <3> USE <2>WithoutKeeps
    <3> DEFINE left == {i \in DOMAIN files : files[i] \notin gone}
               rank == [i \in left |-> i]
               order == InOrder(left, rank)
    <3>1. /\ Len(files) \in Nat /\ DOMAIN files = 1..Len(files)
          /\ left \in SUBSET (1..Len(files))
      OBVIOUS
    <3>2. IsFiniteSet(left)
      <4>1. IsFiniteSet(1..Len(files))
        BY <3>1, FS_Interval
      <4> QED
        BY <3>1, <4>1, FS_Subset, Zenon
    <3>3. rank \in [left -> Nat]
      BY <3>1
    <3>4. \A t \in left : \A u \in left : rank[t] = rank[u] => t = u
      OBVIOUS
    <3>5. /\ order \in Seq(left)
          /\ Range(order) = left
          /\ \A i \in DOMAIN order : \A j \in DOMAIN order :
                i < j => rank[order[i]] < rank[order[j]]
      BY <3>2, <3>3, <3>4, <2>InOrderSorts, Zenon
    <3>6. DOMAIN order = 1..Cardinality(left) /\ Cardinality(left) \in Nat
      BY <3>2, FS_CardinalityType DEF InOrder
    <3>7. s = [n \in 1..Cardinality(left) |-> files[order[n]]]
      BY DEF Without
    <3> HIDE DEF order
    <3>8. \A n \in 1..Cardinality(left) : order[n] \in left
      BY <3>5, <3>6 DEF Range
    <3>9. \A n \in 1..Cardinality(left) : s[n] = files[order[n]] /\ s[n] \in S
      BY <3>7, <3>8
    <3>10. DOMAIN s = 1..Cardinality(left) /\ s \in Seq(S)
      BY ONLY SMTT(30), <3>6, <3>7, <3>9
    <3>11. Range(s) = Range(files) \ gone
      <4>1. ASSUME NEW x \in Range(s)
            PROVE  x \in Range(files) \ gone
        BY Zenon, <3>8, <3>9, <3>10 DEF Range
      <4>2. ASSUME NEW x \in Range(files) \ gone
            PROVE  x \in Range(s)
        <5>1. PICK i \in DOMAIN files : files[i] = x
          BY DEF Range
        <5>2. i \in left
          BY <5>1
        <5>3. PICK n \in DOMAIN order : order[n] = i
          BY Zenon, <3>5, <5>2 DEF Range
        <5> QED
          BY <3>6, <3>9, <3>10, <5>1, <5>3, Zenon DEF Range
      <4> QED
        BY <4>1, <4>2
    <3>12. ASSUME NEW i \in DOMAIN s, NEW j \in DOMAIN s, i < j
           PROVE  \E m \in DOMAIN files : \E n \in DOMAIN files :
                     m < n /\ s[i] = files[m] /\ s[j] = files[n]
      <4>1. order[i] \in left /\ order[j] \in left
            /\ rank[order[i]] < rank[order[j]]
        BY <3>5, <3>6, <3>8, <3>10, <3>12, Zenon
      <4> QED
        BY Zenon, <3>9, <3>10, <4>1
    <3> QED
      BY <3>10, <3>11, <3>12
  \* There are finitely many entries, so a level has finitely many tables.
  <2>TablesFinite.
      ASSUME NEW T \in SUBSET (SUBSET Entry)
      PROVE  IsFiniteSet(T)
    <3> USE <2>TablesFinite
    <3> DEFINE P == (Keys \X (1..MaxSeq)) \X BOOLEAN
               f == [p \in P |-> [key |-> p[1][1], seq |-> p[1][2], del |-> p[2]]]
    <3>1. IsFiniteSet(Keys) /\ IsFiniteSet(1..MaxSeq)
      BY LsmTreeAssumption, FS_Interval DEF Keys
    <3>2. IsFiniteSet({TRUE}) /\ IsFiniteSet({TRUE} \cup {FALSE})
      BY FS_Singleton, FS_AddElement, Zenon
    <3>3. IsFiniteSet(BOOLEAN)
      <4>1. BOOLEAN = {TRUE} \cup {FALSE}
        BY ZenonT(40)
      <4> QED
        BY <3>2, <4>1, Zenon
    <3>4. IsFiniteSet(Keys \X (1..MaxSeq))
      BY <3>1, FS_Product, Zenon
    <3>5. IsFiniteSet(P)
      BY <3>3, <3>4, FS_Product, Zenon
    <3>6. f \in Surjection(P, Entry)
      <4>1. \A p \in P : f[p] \in Entry
        BY DEF Entry
      <4>2. ASSUME NEW e \in Entry
            PROVE  \E p \in P : f[p] = e
        <5>1. <<<<e.key, e.seq>>, e.del>> \in P
          BY DEF Entry
        <5>2. f[<<<<e.key, e.seq>>, e.del>>] = e
          BY <5>1 DEF Entry
        <5> QED
          BY <5>1, <5>2
      <4> QED
        BY <4>1, <4>2, Zenon DEF Surjection
    <3>7. IsFiniteSet(Entry)
      BY <3>5, <3>6, FS_Surjection, Zenon
    <3>8. IsFiniteSet(SUBSET Entry)
      BY <3>7, FS_SUBSET, Zenon
    <3> QED
      BY <3>8, FS_Subset, Zenon
  \* A smaller user key comes first, whatever the sequence numbers.
  <2>PlaceByKey.
      ASSUME NEW e \in Entry
      PROVE  /\ Place(e) \in Nat
             /\ \A f \in Entry : e.key < f.key => Place(e) < Place(f)
    <3> USE <2>PlaceByKey
    <3> DEFINE W == MaxSeq + 1
    <3>1. W \in Nat /\ W > MaxSeq
      BY LsmTreeAssumption
    <3>2. e.key * W \in Nat /\ e.key * W >= W
      <4>1. /\ \A a \in Nat : a * W \in Nat
            /\ \A a \in Nat : (a + 1) * W = a * W + W
        BY <3>1
      <4>2. e.key - 1 \in Nat /\ (e.key - 1) + 1 = e.key
        BY EntryFields
      <4> HIDE DEF W
      <4>3. e.key * W = (e.key - 1) * W + W
        BY <4>1, <4>2
      <4>4. (e.key - 1) * W \in Nat
        BY <4>1, <4>2
      <4> QED
        BY <3>1, <4>3, <4>4
    <3>3. \A f \in Entry : Place(f) = f.key * W - f.seq
      BY DEF Place
    <3>4. \A f \in Entry : f.key \in Nat /\ f.seq \in Nat /\ f.seq < W
      BY <3>1, EntryFields, LsmTreeAssumption
    <3> HIDE DEF W
    <3>5. Place(e) \in Nat
      <4>1. \A a, b \in Nat : (a >= W /\ b < W) => a - b \in Nat
        BY <3>1
      <4> QED
        BY <3>2, <3>3, <3>4, <4>1, Zenon
    <3>6. ASSUME NEW f \in Entry, e.key < f.key
          PROVE  Place(e) < Place(f)
      <4> DEFINE d == f.key - e.key - 1
      <4>1. e.key \in Nat /\ f.key \in Nat /\ d \in Nat /\ f.key = e.key + 1 + d
        BY <3>4, <3>6
      <4>2. f.key * W = e.key * W + W + d * W /\ d * W \in Nat /\ e.key * W \in Nat
        BY <3>1, <4>1
      <4>3. \A a, b, x, y \in Nat : \A p, q :
               (x < W /\ y < W /\ p = a - x /\ q = (a + W + b) - y) => p < q
        BY <3>1
      <4> HIDE DEF d
      <4>4. Place(e) = e.key * W - e.seq /\ Place(f) = f.key * W - f.seq
        BY <3>3, Zenon
      <4>5. Place(f) = (e.key * W + W + d * W) - f.seq
        BY <4>2, <4>4, Zenon
      <4> QED
        BY <3>4, <4>2, <4>3, <4>4, <4>5, Zenon
    <3> QED
      BY <3>5, <3>6
  \* Tables that do not overlap are put in the order of their keys.
  <2>BySmallestSorts.
      ASSUME NEW T \in SUBSET (SUBSET Entry), {} \notin T,
             \A t \in T : \A u \in T : t # u => Apart(t, u),
             NEW s, s = BySmallest(T)
      PROVE  /\ s \in Seq(T)
             /\ Range(s) = T
             /\ \A i \in DOMAIN s : \A j \in DOMAIN s :
                   i < j => Below(s[i], s[j])
    <3> USE <2>BySmallestSorts
    <3> DEFINE rank == [t \in T |-> Smallest(t)]
    <3>1. ASSUME NEW t \in T
          PROVE  /\ Smallest(t) \in Nat
                 /\ \E e \in t : Smallest(t) = Place(e)
                 /\ \A e \in t : Smallest(t) <= Place(e)
      <4>1. t # {} /\ \A e \in t : Place(e) \in Nat
        BY <2>PlaceByKey, Zenon
      <4>2. {Place(e) : e \in t} \in SUBSET Nat /\ {Place(e) : e \in t} # {}
        BY <4>1, Zenon
      <4>3. /\ Smallest(t) \in {Place(e) : e \in t}
            /\ \A y \in {Place(e) : e \in t} : Smallest(t) <= y
        BY <4>2, MinIsLeast, Zenon DEF Smallest
      <4> QED
        BY <4>2, <4>3, Zenon
    <3>2. ASSUME NEW t \in T, NEW u \in T, Below(t, u)
          PROVE  Smallest(t) < Smallest(u)
      <4>1. PICK e \in t : Smallest(t) = Place(e)
        BY <3>1
      <4>2. PICK f \in u : Smallest(u) = Place(f)
        BY <3>1
      <4>3. e \in Entry /\ f \in Entry /\ e.key < f.key
        BY <3>2, <4>1, <4>2 DEF Below
      <4> QED
        BY <4>1, <4>2, <4>3, <2>PlaceByKey
    <3>3. \A t \in T : \A u \in T : rank[t] = rank[u] => t = u
      <4>1. \A t \in T : \A u \in T : Smallest(t) = Smallest(u) => t = u
        BY <3>1, <3>2 DEF Apart
      <4> QED
        BY <4>1
    <3>4. rank \in [T -> Nat]
      BY <3>1, Zenon
    <3>5. s = InOrder(T, rank)
      BY DEF BySmallest
    <3>6. /\ s \in Seq(T) /\ Range(s) = T
          /\ \A i \in DOMAIN s : \A j \in DOMAIN s :
                i < j => rank[s[i]] < rank[s[j]]
      BY <3>3, <3>4, <3>5, <2>InOrderSorts, <2>TablesFinite, Zenon
    <3>7. ASSUME NEW i \in DOMAIN s, NEW j \in DOMAIN s, i < j
          PROVE  Below(s[i], s[j])
      <4>1. s[i] \in T /\ s[j] \in T
        BY <3>6, Zenon DEF Range
      <4>2. Smallest(s[i]) < Smallest(s[j])
        BY <3>6, <3>7, <4>1, Zenon
      <4> QED
        BY <3>1, <3>2, <4>1, <4>2 DEF Apart
    <3> QED
      BY Zenon, <3>6, <3>7
  <2> USE <1>CompactInstallStep
  <2> PICK l : l = job.level
    OBVIOUS
  <2> DEFINE inputs == job.inputs
             outputs == job.outputs
             from == UNION inputs
             to == UNION outputs
             n == SmallestSnapshot
             rest(m) == Range(levels[m]) \ inputs
  <2>1. /\ Types /\ Numbered /\ LateSees /\ Ordered /\ Layered /\ Kept
        /\ CompactRight
    BY DEF Inv
  <2>2. /\ job.kind = "compact" /\ job' = NoJob
        /\ levels' = [levels EXCEPT
              ![l] = Without(@, inputs),
              ![l + 1] = BySmallest(Range(Without(@, inputs)) \cup outputs)]
        /\ UNCHANGED <<mem_, imm_, compact_pointer_, last_sequence_, snapshots_,
                       group, late, written>>
    BY Zenon DEF CompactInstall
  <2>3. /\ l \in Levels /\ l + 1 \in Levels
        /\ inputs \subseteq Range(levels[l]) \cup Range(levels[l + 1])
        /\ l = 0 => Range(levels[0]) \subseteq inputs
        /\ \A u \in rest(l + 1) : Apart(u, from)
        /\ to \subseteq from
        /\ {} \notin outputs
        /\ \A t \in outputs : \A u \in outputs : t # u => Apart(t, u)
        /\ \A e \in from \ to :
              \/ HiddenFromEveryone(e, from, n)
              \/ Erased(e, to, n) /\ BottomMost(l)
    BY <2>1, <2>2, Zenon DEF CompactRight
  <2>4. levels \in [Levels -> Seq(SUBSET Entry)] /\ written \in SUBSET Entry
    BY <2>1 DEF Types
  <2>5. l \in Nat /\ l + 1 # 0 /\ l # l + 1 /\ \A m \in Levels : m \in Nat
    BY ONLY SMTT(30), <2>3 DEF Levels
  <2> HIDE DEF inputs, outputs, n
  <2>6. /\ levels'[l] = Without(levels[l], inputs)
        /\ levels'[l + 1] =
              BySmallest(Range(Without(levels[l + 1], inputs)) \cup outputs)
        /\ \A m \in Levels \ {l, l + 1} : levels'[m] = levels[m]
        /\ levels' = [m \in Levels |-> levels'[m]]
    BY <2>2, <2>3, <2>4, <2>5, Zenon
  <2>7. \A m \in Levels :
           /\ levels[m] \in Seq(SUBSET Entry)
           /\ Range(levels[m]) \in SUBSET (SUBSET Entry)
           /\ {} \notin Range(levels[m])
           /\ EntriesOf(m) \subseteq Entry /\ EntriesOf(m) \subseteq Everything
    BY <2>1, LevelTables, Zenon DEF Types
  <2>8. /\ levels'[l] \in Seq(SUBSET Entry)
        /\ Range(levels'[l]) = rest(l)
        /\ \A i \in DOMAIN levels'[l] : \A j \in DOMAIN levels'[l] : i < j =>
              \E p \in DOMAIN levels[l] : \E q \in DOMAIN levels[l] :
                 /\ p < q /\ levels'[l][i] = levels[l][p]
                 /\ levels'[l][j] = levels[l][q]
    <3> DEFINE S == SUBSET Entry
    <3>1. levels[l] \in Seq(S)
      BY <2>3, <2>7, Zenon
    <3> HIDE DEF S
    <3>2. /\ levels'[l] \in Seq(S)
          /\ Range(levels'[l]) = Range(levels[l]) \ inputs
      BY <2>6, <3>1, <2>WithoutKeeps
    <3>3. \A i \in DOMAIN levels'[l] : \A j \in DOMAIN levels'[l] : i < j =>
              \E p \in DOMAIN levels[l] : \E q \in DOMAIN levels[l] :
                 /\ p < q /\ levels'[l][i] = levels[l][p]
                 /\ levels'[l][j] = levels[l][q]
      BY ONLY SMTT(30), <2>6, <3>1, <2>WithoutKeeps
    <3> QED
      BY <3>2, <3>3, Zenon DEF S
  <2> DEFINE T == rest(l + 1) \cup outputs
  <2>9. levels'[l + 1] = BySmallest(T)
    <3>1. Range(Without(levels[l + 1], inputs)) = rest(l + 1)
      <4> DEFINE S == SUBSET Entry
      <4>1. levels[l + 1] \in Seq(S)
        BY <2>3, <2>7, Zenon
      <4> HIDE DEF S
      <4> QED
        BY <4>1, <2>WithoutKeeps
    <3> QED
      BY <2>6, <3>1
  <2>10. from \in SUBSET Entry /\ to \in SUBSET Entry
         /\ from \subseteq EntriesOf(l) \cup EntriesOf(l + 1)
    <3>1. \A e \in from : e \in EntriesOf(l) \/ e \in EntriesOf(l + 1)
      BY <2>3, Zenon DEF EntriesOf
    <3>2. \A e \in from : e \in Entry
      BY <2>3, <2>7, <3>1, Zenon
    <3> QED
      BY <2>3, <3>1, <3>2, Zenon
  <2>11. /\ T \in SUBSET (SUBSET Entry) /\ {} \notin T
         /\ \A t \in T : \A u \in T : t # u => Apart(t, u)
    <3>1. \A t \in outputs : t \subseteq from /\ t \in SUBSET Entry
      BY <2>3, <2>10, Zenon
    <3>2. T \in SUBSET (SUBSET Entry) /\ {} \notin T
      BY <2>3, <2>7, <3>1, Zenon
    <3>3. \A t \in rest(l + 1) : \A u \in rest(l + 1) : t # u => Apart(t, u)
      BY <2>1, <2>3, <2>5, <1>TablesApart, Zenon
    <3>4. \A u \in rest(l + 1) : \A t \in outputs : Apart(u, t) /\ Apart(t, u)
      BY <2>3, <3>1, Zenon DEF Apart, Below
    <3> HIDE DEF rest
    <3>5. \A t \in T : \A u \in T : t # u => Apart(t, u)
      BY <2>3, <3>3, <3>4, Zenon
    <3> QED
      BY <3>2, <3>5
  <2>12. /\ levels'[l + 1] \in Seq(T)
         /\ Range(levels'[l + 1]) = T
         /\ \A i \in DOMAIN levels'[l + 1] : \A j \in DOMAIN levels'[l + 1] :
               i < j => Below(levels'[l + 1][i], levels'[l + 1][j])
    <3> HIDE DEF T
    <3> QED
      BY Zenon, <2>9, <2>11, <2>BySmallestSorts
  <2> HIDE DEF rest
  <2>13. levels' \in [Levels -> Seq(SUBSET Entry)]
         /\ \A m \in Levels : {} \notin Range(levels'[m])
    <3>1. levels'[l + 1] \in Seq(SUBSET Entry)
      <4> HIDE DEF T
      <4> QED
        BY <2>11, <2>12
    <3>2. \A m \in Levels : levels'[m] \in Seq(SUBSET Entry)
      BY <2>6, <2>7, <2>8, <3>1, Zenon
    <3>3. ASSUME NEW m \in Levels
          PROVE  {} \notin Range(levels'[m])
      <4>1. CASE m = l
        BY <2>3, <2>7, <2>8, <4>1, Zenon DEF rest
      <4>2. CASE m = l + 1
        BY <2>11, <2>12, <4>2, Zenon
      <4>3. CASE m \notin {l, l + 1}
        BY <2>6, <2>7, <4>3, Zenon
      <4> QED
        BY <4>1, <4>2, <4>3, Zenon
    <3> QED
      BY <2>6, <3>2, <3>3, Zenon
  <2>14. /\ EntriesOf(l)' = UNION rest(l)
         /\ EntriesOf(l + 1)' = (UNION rest(l + 1)) \cup to
         /\ \A m \in Levels \ {l, l + 1} : EntriesOf(m)' = EntriesOf(m)
    <3>1. \A m : EntriesOf(m)' = UNION Range(levels'[m])
      BY DEF EntriesOf, Range
    <3>2. EntriesOf(l)' = UNION rest(l)
      <4>1. UNION Range(levels'[l]) = UNION rest(l)
        BY Zenon, <2>8
      <4> QED
        BY <3>1, <4>1, Zenon
    <3>3. EntriesOf(l + 1)' = (UNION rest(l + 1)) \cup to
      <4>1. UNION Range(levels'[l + 1]) = (UNION rest(l + 1)) \cup to
        BY <2>12, Zenon
      <4> QED
        BY <3>1, <4>1, Zenon
    <3>4. \A m \in Levels \ {l, l + 1} : EntriesOf(m)' = EntriesOf(m)
      BY <2>6, <3>1, Zenon DEF EntriesOf
    <3> QED
      BY <3>2, <3>3, <3>4
  <2>15. Everything = mem_ \cup imm_ \cup UNION {EntriesOf(m) : m \in Levels}
    BY Zenon DEF Everything, EntriesOf
  <2>16. Everything' = mem_ \cup imm_ \cup UNION {EntriesOf(m)' : m \in Levels}
    BY <2>2, Zenon DEF Everything, EntriesOf
  <2>17. /\ EntriesOf(l)' \subseteq EntriesOf(l)
         /\ EntriesOf(l + 1)' \subseteq EntriesOf(l) \cup EntriesOf(l + 1)
         /\ \A m \in Levels : m # l + 1 => EntriesOf(m)' \subseteq EntriesOf(m)
    <3>1. UNION rest(l) \subseteq EntriesOf(l)
          /\ UNION rest(l + 1) \subseteq EntriesOf(l + 1)
      BY Zenon DEF rest, EntriesOf
    <3>2. to \subseteq EntriesOf(l) \cup EntriesOf(l + 1)
      BY <2>3, <2>10, Zenon
    <3>3. EntriesOf(l)' \subseteq EntriesOf(l)
      BY <2>14, <3>1, Zenon
    <3>4. EntriesOf(l + 1)' \subseteq EntriesOf(l) \cup EntriesOf(l + 1)
      BY <2>14, <3>1, <3>2, Zenon
    <3>5. \A m \in Levels : m # l + 1 => EntriesOf(m)' \subseteq EntriesOf(m)
      BY <2>14, <3>3, Zenon
    <3> QED
      BY <3>3, <3>4, <3>5
  <2> HIDE DEF from, to
  <2>18. Everything' \subseteq Everything
    <3>1. ASSUME NEW m \in Levels, NEW e \in EntriesOf(m)'
          PROVE  \E k \in Levels : e \in EntriesOf(k)
      BY <2>3, <2>17, <3>1, Zenon
    <3> QED
      BY <2>15, <2>16, <3>1, Zenon
  <2>19. Everything \ Everything' \subseteq from \ to
    <3>1. ASSUME NEW e \in Everything, e \notin Everything'
          PROVE  e \in from \ to
      <4>1. e \notin mem_ /\ e \notin imm_ /\ \A m \in Levels : e \notin EntriesOf(m)'
        BY <2>16, <3>1, Zenon
      <4>2. PICK m \in Levels : e \in EntriesOf(m)
        BY <2>15, <4>1, Zenon
      <4>3. m = l \/ m = l + 1
        BY <2>14, <4>1, <4>2, Zenon
      <4>4. e \notin UNION rest(m) /\ e \notin to
        BY <2>3, <2>14, <4>1, <4>3, Zenon
      <4>5. PICK t \in Range(levels[m]) : e \in t
        BY <4>2, Zenon DEF EntriesOf
      <4>6. t \in inputs
        BY <4>4, <4>5, Zenon DEF rest
      <4> QED
        BY <4>4, <4>5, <4>6, Zenon DEF from
    <3> QED
      BY <3>1, Zenon
  <2>20. SmallestSnapshot' = n /\ Pinned' = Pinned
    BY <2>2 DEF SmallestSnapshot, Pinned, n
  <2>21. Types'
    <3>1. \A m \in Levels : {} \notin Range(levels[m])'
      BY <2>13 DEF Range
    <3> QED
      BY <2>1, <2>2, <2>13, <2>20, <3>1, Zenon DEF Types
  <2>22. Numbered' /\ LateSees'
    <3>1. Everything' \subseteq written
      BY <2>1, <2>18, Zenon DEF Numbered
    <3> QED
      BY Zenon, <2>1, <2>2, <3>1 DEF Numbered, LateSees
  <2>23. Ordered'
    <3>1. ASSUME NEW m \in Levels \ {0}, NEW i \in DOMAIN levels'[m],
                 NEW j \in DOMAIN levels'[m], i < j
          PROVE  Below(levels'[m][i], levels'[m][j])
      <4>1. CASE m = l
        <5>1. PICK p \in DOMAIN levels[l] : \E q \in DOMAIN levels[l] :
                 p < q /\ levels'[l][i] = levels[l][p] /\ levels'[l][j] = levels[l][q]
          BY <2>8, <3>1, <4>1, ZenonT(40)
        <5> QED
          BY <2>1, <4>1, <5>1, Zenon DEF Ordered
      <4>2. CASE m = l + 1
        BY <2>12, <3>1, <4>2, Zenon
      <4>3. CASE m \notin {l, l + 1}
        BY <2>1, <2>6, <3>1, <4>3, Zenon DEF Ordered
      <4> QED
        BY <4>1, <4>2, <4>3, Zenon
    <3> QED
      BY <3>1, Zenon DEF Ordered
  \* Of the keys of the inputs, nothing is left in level l, nor in the tables
  \* that stay in the next one.
  <2>24. ASSUME NEW g \in UNION rest(l), NEW e \in from, g.key = e.key
         PROVE  e \in EntriesOf(l + 1)
    <3>1. PICK p \in Range(levels[l]) : p \notin inputs /\ g \in p
      BY Zenon DEF rest
    <3>2. PICK q \in inputs : e \in q
      BY Zenon DEF from
    <3>3. l # 0 /\ p # q
      BY <2>3, <3>1, <3>2, Zenon
    <3>4. ASSUME q \in Range(levels[l])
          PROVE  FALSE
      <4>1. Apart(p, q)
        BY <2>1, <2>3, <3>1, <3>3, <3>4, <1>TablesApart, Zenon
      <4>2. g.key < e.key \/ e.key < g.key
        BY <3>1, <3>2, <4>1, Zenon DEF Apart, Below
      <4>3. e.key \in Nat
        BY <2>10, EntryFields, Zenon
      <4> QED
        BY <2>24, <4>2, <4>3
    <3>5. q \in Range(levels[l + 1])
      BY <2>3, <3>2, <3>4, Zenon
    <3> QED
      BY <3>2, <3>5, Zenon DEF EntriesOf
  <2>25. ASSUME NEW g \in UNION rest(l + 1), NEW e \in from
         PROVE  g.key # e.key
    <3>1. PICK u \in rest(l + 1) : g \in u
      BY Zenon
    <3>2. Apart(u, from)
      BY <2>3, <3>1, Zenon
    <3>3. g.key < e.key \/ e.key < g.key
      BY <3>1, <3>2, Zenon DEF Apart, Below
    <3>4. e.key \in Nat
      BY <2>10, EntryFields, Zenon
    <3> QED
      BY <3>3, <3>4
  <2>26. Layered'
    <3>1. \A A, B, C : Newer(A, B) /\ C \subseteq B => Newer(A, C)
      BY Zenon DEF Newer
    <3>2. \A A, B, C : Newer(A, B) /\ Newer(A, C) => Newer(A, B \cup C)
      BY Zenon DEF Newer
    <3>3. \A A, B, C : Newer(A, B) /\ C \subseteq A => Newer(C, B)
      BY Zenon DEF Newer
    <3>4. \A A, B, C : Newer(A, C) /\ Newer(B, C) => Newer(A \cup B, C)
      BY Zenon DEF Newer
    <3>5. ASSUME NEW S, \A m \in Levels : Newer(S, EntriesOf(m))
          PROVE  \A m \in Levels : Newer(S, EntriesOf(m)')
      <4>1. Newer(S, EntriesOf(l) \cup EntriesOf(l + 1))
        BY <2>3, <3>2, <3>5, Zenon
      <4>2. Newer(S, EntriesOf(l + 1)')
        BY <2>17, <3>1, <4>1, Zenon
      <4>3. ASSUME NEW m \in Levels, m # l + 1
            PROVE  Newer(S, EntriesOf(m)')
        BY <2>17, <3>1, <3>5, <4>3, Zenon
      <4> QED
        BY <4>2, <4>3, Zenon
    <3>6. \A m \in Levels : Newer(mem_, EntriesOf(m)') /\ Newer(imm_, EntriesOf(m)')
      BY <2>1, <3>5, Zenon DEF Layered
    <3>7. ASSUME NEW i \in DOMAIN levels'[0], NEW j \in DOMAIN levels'[0], i < j
          PROVE  Newer(levels'[0][i], levels'[0][j])
      <4>1. CASE l = 0
        <5>1. Range(levels'[0]) = {}
          BY <2>3, <2>8, <4>1, Zenon DEF rest
        <5> QED
          BY <5>1, Zenon DEF Range
      <4>2. CASE l # 0
        <5>1. 0 \in Levels \ {l, l + 1}
          BY <2>5, <4>2, LsmTreeAssumption DEF Levels
        <5>2. levels'[0] = levels[0]
          BY <2>6, <5>1, Zenon
        <5> QED
          BY <2>1, <3>7, <5>2, Zenon DEF Layered
      <4> QED
        BY <4>1, <4>2
    <3>8. ASSUME NEW a \in Levels, NEW b \in Levels, a < b
          PROVE  Newer(EntriesOf(a)', EntriesOf(b)')
      <4>1. Newer(EntriesOf(a), EntriesOf(b))
        BY <2>1, <3>8, Zenon DEF Layered
      <4>2. a \in Nat /\ b \in Nat
        BY <2>5
      <4>3. CASE a # l + 1 /\ b # l + 1
        <5>1. EntriesOf(a)' \subseteq EntriesOf(a) /\ EntriesOf(b)' \subseteq EntriesOf(b)
          BY <2>17, <4>3, Zenon
        <5>2. Newer(EntriesOf(a), EntriesOf(b)')
          BY <3>1, <4>1, <5>1, Zenon
        <5> QED
          BY <3>3, <5>1, <5>2, Zenon
      <4>4. CASE a = l + 1
        <5>1. l < b /\ b # l + 1
          BY <2>5, <3>8, <4>2, <4>4
        <5>2. EntriesOf(b)' \subseteq EntriesOf(b)
          BY <2>17, <5>1, Zenon
        <5>3. Newer(EntriesOf(l), EntriesOf(b))
          BY <2>1, <2>3, <5>1, Zenon DEF Layered
        <5>4. Newer(EntriesOf(l) \cup EntriesOf(l + 1), EntriesOf(b))
          BY <3>4, <4>1, <4>4, <5>3, Zenon
        <5>5. Newer(EntriesOf(l + 1)', EntriesOf(b))
          BY <2>17, <3>3, <5>4, Zenon
        <5> QED
          BY <3>1, <4>4, <5>2, <5>5, Zenon
      <4>5. CASE b = l + 1 /\ a # l
        <5>1. a < l /\ a # l + 1
          BY <2>5, <3>8, <4>2, <4>5
        <5>2. Newer(EntriesOf(a), EntriesOf(l))
          BY <2>1, <2>3, <5>1, Zenon DEF Layered
        <5>3. Newer(EntriesOf(a), EntriesOf(l) \cup EntriesOf(l + 1))
          BY <3>2, <4>1, <4>5, <5>2, Zenon
        <5>4. Newer(EntriesOf(a), EntriesOf(l + 1)')
          BY <2>17, <3>1, <5>3, Zenon
        <5>5. EntriesOf(a)' \subseteq EntriesOf(a)
          BY <2>17, <5>1, Zenon
        <5> QED
          BY <3>3, <4>5, <5>4, <5>5, Zenon
      <4>6. CASE b = l + 1 /\ a = l
        <5>1. Newer(EntriesOf(l), EntriesOf(l + 1))
          BY <4>1, <4>6, Zenon
        <5>2. ASSUME NEW g \in UNION rest(l), NEW e \in EntriesOf(l + 1)',
                     g.key = e.key
              PROVE  g.seq > e.seq
          <6>1. g \in EntriesOf(l)
            BY <2>14, <2>17, Zenon
          <6>2. e \in EntriesOf(l + 1)
            <7>1. CASE e \in to
              <8>1. e \in from
                BY <2>3, <7>1, Zenon DEF from, to
              <8> QED
                BY <2>24, <5>2, <8>1, Zenon
            <7>2. CASE e \in UNION rest(l + 1)
              BY <7>2, Zenon DEF rest, EntriesOf
            <7> QED
              BY <2>14, <5>2, <7>1, <7>2, Zenon
          <6> QED
            BY <5>1, <5>2, <6>1, <6>2, Zenon DEF Newer
        <5> QED
          BY <2>14, <4>6, <5>2, Zenon DEF Newer
      <4> QED
        BY <4>3, <4>4, <4>5, <4>6
    <3> QED
      BY <2>1, <2>2, <3>6, <3>7, <3>8, Zenon DEF Layered
  <2>27. Kept'
    <3>1. n \in Nat /\ n <= n
      BY <2>1, SmallestIsLeast DEF n
    <3>2. ASSUME NEW e \in written \ Everything'
          PROVE  HiddenFromEveryone(e, written, n) \/ Erased(e, Everything', n)
      <4>1. CASE e \notin Everything
        <5>1. HiddenFromEveryone(e, written, n) \/ Erased(e, Everything, n)
          BY <2>1, <3>2, <4>1, Zenon DEF Kept, n
        <5>2. Erased(e, Everything, n) => Erased(e, Everything', n)
          BY <2>4, <2>18, <3>1, <1>ErasedGrows, Zenon
        <5> QED
          BY <5>1, <5>2
      <4>2. CASE e \in Everything
        <5>1. e \in from /\ e \notin to
          BY <2>19, <3>2, <4>2, Zenon
        <5>2. \/ HiddenFromEveryone(e, from, n)
              \/ Erased(e, to, n) /\ BottomMost(l)
          BY <2>3, <5>1, Zenon DEF from, to
        <5>3. CASE HiddenFromEveryone(e, from, n)
          <6>1. from \subseteq written
            <7>1. EntriesOf(l) \subseteq written /\ EntriesOf(l + 1) \subseteq written
              BY <2>1, <2>3, <2>7, Zenon DEF Numbered
            <7> QED
              BY <2>10, <7>1
          <6> QED
            BY <2>10, <3>1, <5>3, <6>1, <1>HiddenGrows, Zenon
        <5>4. CASE Erased(e, to, n) /\ BottomMost(l)
          <6>1. e \in EntriesOf(l) \/ e \in EntriesOf(l + 1)
            BY <2>10, <5>1, Zenon
          <6>2. ASSUME NEW S, Newer(S, EntriesOf(l)), Newer(S, EntriesOf(l + 1)),
                       NEW g \in S, g.key = e.key
                PROVE  g.seq > e.seq
            BY <6>1, <6>2, Zenon DEF Newer
          <6>3. ASSUME NEW g \in Everything', g.key = e.key
                PROVE  g \in to \/ g.seq > e.seq
            <7>1. CASE g \in mem_ \/ g \in imm_
              BY <2>1, <2>3, <6>2, <6>3, <7>1, Zenon DEF Layered
            <7>2. ASSUME NEW m \in Levels, g \in EntriesOf(m)'
                  PROVE  g \in to \/ g.seq > e.seq
              <8>1. CASE m = l
                <9>1. g \in UNION rest(l) /\ g \in EntriesOf(l)
                  BY <2>14, <2>17, <7>2, <8>1, Zenon
                <9>2. e \in EntriesOf(l + 1)
                  BY <2>24, <5>1, <6>3, <9>1, Zenon
                <9>3. Newer(EntriesOf(l), EntriesOf(l + 1))
                  <10>1. l < l + 1
                    BY <2>5
                  <10> QED
                    BY <2>1, <2>3, <10>1, Zenon DEF Layered
                <9> QED
                  BY <6>3, <9>1, <9>2, <9>3, Zenon DEF Newer
              <8>2. CASE m = l + 1
                BY <2>14, <2>25, <5>1, <6>3, <7>2, <8>2, Zenon
              <8>3. CASE m \notin {l, l + 1} /\ m < l
                <9>1. m < l + 1 /\ g \in EntriesOf(m)
                  <10>1. m < l + 1
                    BY <2>5, <8>3
                  <10> QED
                    BY <2>14, <7>2, <8>3, <10>1, Zenon
                <9> QED
                  BY <2>1, <2>3, <6>2, <6>3, <8>3, <9>1, Zenon DEF Layered
              <8>4. CASE m \notin {l, l + 1} /\ ~(m < l)
                <9>1. m \in (l + 2)..(kNumLevels - 1)
                  BY <2>5, <8>4, LsmTreeAssumption DEF Levels
                <9>2. levels[m] = <<>>
                  BY <5>4, <9>1, Zenon DEF BottomMost
                <9>3. EntriesOf(m) = {}
                  BY <9>2 DEF EntriesOf, Range
                <9> QED
                  BY <2>14, <7>2, <8>4, <9>3, ZenonT(40)
              <8> QED
                BY <8>1, <8>2, <8>3, <8>4, Zenon
            <7> QED
              BY <2>16, <7>1, <7>2, Zenon
          <6>4. e \in Entry
            BY <2>4
          <6> QED
            BY <3>1, <5>4, <6>3, <6>4, <1>ErasedGrows, Zenon
        <5> QED
          BY <5>2, <5>3, <5>4
      <4> QED
        BY <4>1, <4>2
    <3> QED
      BY <2>2, <2>20, <3>2, Zenon DEF Kept
  <2>28. JobOK' /\ FlushRight' /\ CompactRight'
    <3>1. job' = NoJob
      BY <2>2
    <3>2. job'.kind = "none" /\ job'.level = 0 /\ 0 \in Levels
      BY <3>1, LsmTreeAssumption DEF NoJob, Levels
    <3> QED
      BY Zenon, <3>1, <3>2 DEF JobOK, FlushRight, CompactRight
  <2> QED
    BY <2>21, <2>22, <2>23, <2>26, <2>27, <2>28 DEF Inv
<1> SUFFICES ASSUME Inv, [Next]_vars PROVE Inv'
  OBVIOUS
<1>1. CASE UNCHANGED vars
  <2>1. UNCHANGED <<mem_, imm_, levels, compact_pointer_, last_sequence_,
                    snapshots_, group, job, late, written>>
    BY <1>1 DEF vars, tree
  <2>2. SmallestSnapshot' = SmallestSnapshot /\ Pinned' = Pinned
    BY <2>1 DEF SmallestSnapshot, Pinned
  <2>3. /\ Everything' = Everything /\ (Ordered => Ordered')
        /\ (Layered => Layered')
    BY <2>1, <1>TreeStays, Zenon
  <2>4. Types => Types'
    BY <2>1, <2>2 DEF Types
  <2>5. (Numbered => Numbered') /\ (LateSees => LateSees')
    BY Zenon, <2>1, <2>3 DEF Numbered, LateSees
  <2>6. Kept => Kept'
    BY <2>1, <2>2, <2>3, Zenon DEF Kept
  <2>7. (JobOK => JobOK') /\ (FlushRight => FlushRight')
        /\ (CompactRight => CompactRight')
    BY <2>1, <1>JobsStay, Zenon
  <2> QED
    BY <2>3, <2>4, <2>5, <2>6, <2>7 DEF Inv
<1>2. ASSUME NEW ops \in Batches, StartGroup(ops)
      PROVE  Inv'
  BY <1>2, <1>StartGroupStep
<1>3. CASE Insert
  BY <1>3, <1>InsertStep
<1>4. CASE Rotate
  BY <1>4, <1>RotateStep
<1>5. ASSUME NEW s \in Snaps, GetSnapshot(s) \/ ReleaseSnapshot(s)
      PROVE  Inv'
  BY <1>5, <1>GetSnapshotStep, <1>ReleaseSnapshotStep
<1>6. CASE FlushStart
  BY <1>6, <1>FlushStartStep
<1>7. CASE FlushInstall
  BY <1>7, <1>FlushInstallStep
<1>8. ASSUME NEW l \in Levels, CompactStart(l)
      PROVE  Inv'
  BY <1>8, <1>CompactStartStep
<1>9. CASE CompactInstall
  BY <1>9, <1>CompactInstallStep
<1> QED
  BY <1>1, <1>2, <1>3, <1>4, <1>5, <1>6, <1>7, <1>8, <1>9, Zenon
     DEF Next, Background

\* The invariant holds in every state.
LEMMA Invariance == Spec => []Inv
  BY InvInit, InvNext, PTL DEF Spec

\* The variables of the tree keep their types: no table of a level is ever
\* empty, and no snapshot is above last_sequence_ (db.cpp).
THEOREM TypesHold ==
    Spec => []TypeOK
  BY Invariance, InvTypes, PTL

\* Below L0 the tables of a level stay sorted and share no user key, through
\* every compaction (DB::DoCompaction), so that the
\* binary search of DB::Get over a level finds the only candidate.
THEOREM LevelsStayDisjoint ==
    Spec => []LevelsDisjoint
  BY Invariance, InvDisjoint, PTL

\* For every key the sources DB::Get asks one after the other stay ordered from
\* new to old, so that the first hit is the newest.
THEOREM NewerStaysAbove ==
    Spec => []NewerAbove
  BY Invariance, InvNewer, PTL

\* DB::Get and a scan find the newest version of every key, now and through
\* every live snapshot, whatever flush and compaction dropped or moved.
THEOREM ReadsFindNewest ==
    Spec => []ReadsNewest
  BY Invariance, InvReads, PTL

-----------------------------------------------------------------------------
(* The tree implements the map with snapshots *)

\* What reads at seq find when W was written.
ReadsAt(W, seq) ==
    [k \in Keys |->
        LET v == Versions(W, k, seq)
        IN  IF v = {} \/ Newest(v).del THEN Missing ELSE Newest(v).seq]

\* What reads find now, and what they find through each snapshot.
Now == ReadsAt(written, last_sequence_)
Through == [s \in DOMAIN snapshots_ |-> ReadsAt(written, snapshots_[s])]

\* Get finds what was written.
LEMMA GetsAre ==
    Inv => /\ [k \in Keys |-> Get(k, last_sequence_)] = Now
           /\ [s \in DOMAIN snapshots_ |->
                 [k \in Keys |-> Get(k, snapshots_[s])]] = Through
<1> SUFFICES ASSUME Inv
    PROVE  /\ [k \in Keys |-> Get(k, last_sequence_)] = Now
           /\ [s \in DOMAIN snapshots_ |->
                 [k \in Keys |-> Get(k, snapshots_[s])]] = Through
  OBVIOUS
<1>1. ASSUME NEW seq \in Pinned \cup {last_sequence_}
      PROVE  [k \in Keys |-> Get(k, seq)] = ReadsAt(written, seq)
  <2>1. \A k \in Keys : Get(k, seq) = Expected(k, seq)
    BY InvReads, Zenon DEF ReadsNewest
  <2> QED
    BY <2>1, Zenon DEF ReadsAt, Expected
<1>2. \A s \in DOMAIN snapshots_ : snapshots_[s] \in Pinned
  BY Zenon DEF Pinned
<1>3. \A s \in DOMAIN snapshots_ :
         [k \in Keys |-> Get(k, snapshots_[s])] = ReadsAt(written, snapshots_[s])
  BY <1>1, <1>2, Zenon
<1> QED
  BY <1>1, <1>3, Zenon DEF Now, Through

\* A step of the tree is a step of the map, or changes no read.
LEMMA MapStep ==
    ASSUME Inv, Inv', [Next]_vars
    PROVE  [Promise!Next]_(Promise!vars)
\* A number above every version reads as well as any other.
<1>ReadsLater.
    ASSUME NEW W \in SUBSET Entry, NEW a \in Nat, NEW b \in Nat,
           \A e \in W : e.seq <= a /\ e.seq <= b
    PROVE  ReadsAt(W, a) = ReadsAt(W, b)
  <2> USE <1>ReadsLater
  <2>1. \A k \in Keys : Versions(W, k, a) = Versions(W, k, b)
    BY DEF Versions
  <2> QED
    BY <2>1, Zenon DEF ReadsAt
\* A new version above seq is not read at seq.
<1>ReadsBelow.
    ASSUME NEW W, NEW x \in Entry, NEW a \in Nat, x.seq > a
    PROVE  ReadsAt(W \cup {x}, a) = ReadsAt(W, a)
  <2> USE <1>ReadsBelow
  <2>1. ~(x.seq <= a)
    BY EntryFields
  <2>2. \A k \in Keys : Versions(W \cup {x}, k, a) = Versions(W, k, a)
    BY <2>1 DEF Versions
  <2> QED
    BY <2>2, Zenon DEF ReadsAt
\* A new version changes what is read of its own key only.
<1>ReadsTouched.
    ASSUME NEW W \in SUBSET Entry, NEW x \in Entry, NEW a \in Nat
    PROVE  LET v == ReadsAt(W \cup {x}, a)[x.key]
           IN  /\ v \in 1..MaxSeq \cup {Missing}
               /\ ReadsAt(W \cup {x}, a) = [ReadsAt(W, a) EXCEPT ![x.key] = v]
  <2> USE <1>ReadsTouched
  <2> DEFINE F == ReadsAt(W \cup {x}, a)
             G == ReadsAt(W, a)
             V(S, k) == Versions(S, k, a)
  <2>1. x.key \in Keys
    BY EntryFields
  <2>2. F[x.key] \in 1..MaxSeq \cup {Missing}
    <3> DEFINE S == V(W \cup {x}, x.key)
    <3>1. F[x.key] = IF S = {} \/ Newest(S).del THEN Missing ELSE Newest(S).seq
      BY <2>1, Zenon DEF ReadsAt
    <3>2. S \in SUBSET Entry
      BY Zenon DEF Versions
    <3>3. S # {} => Newest(S) \in Entry
      BY <3>2, NewestIsLast, Zenon
    <3>4. S # {} => Newest(S).seq \in 1..MaxSeq
      BY <3>3 DEF Entry
    <3> HIDE DEF S, F
    <3> QED
      BY <3>1, <3>4, Zenon
  <2>3. ASSUME NEW k \in Keys, k # x.key
        PROVE  F[k] = G[k]
    <3>1. V(W \cup {x}, k) = V(W, k)
      BY <2>3 DEF Versions
    <3> QED
      BY <3>1, Zenon DEF ReadsAt
  <2>4. /\ F = [k \in Keys |-> F[k]] /\ G = [k \in Keys |-> G[k]]
        /\ DOMAIN F = Keys /\ DOMAIN G = Keys
    BY Zenon DEF ReadsAt
  <2> HIDE DEF F, G
  <2>5. F = [G EXCEPT ![x.key] = F[x.key]]
    BY <2>1, <2>3, <2>4, Zenon
  <2> QED
    BY <2>2, <2>5, Zenon DEF F, G
\* Inserting an entry sets its key, now and for the snapshots that were taken
\* since the group was numbered.
<1>InsertSets.
    ASSUME Inv, Insert
    PROVE  LET k == Head(group).key
           IN  /\ k \in Keys
               /\ Now'[k] \in 1..MaxSeq \cup {Missing}
               /\ Now' = [Now EXCEPT ![k] = Now'[k]]
               /\ Through' = [s \in DOMAIN Through |->
                     IF s \in late THEN [Through[s] EXCEPT ![k] = Now'[k]]
                     ELSE Through[s]]
  <2> USE <1>InsertSets
  <2> DEFINE x == Head(group)
  <2>1. Types /\ Numbered /\ LateSees
    BY DEF Inv
  <2>2. /\ group # <<>> /\ written' = written \cup {x}
        /\ UNCHANGED <<last_sequence_, snapshots_>>
    BY Zenon DEF Insert
  <2>3. group \in Seq(Entry)
    BY <2>1 DEF Types
  <2>4. x = group[1] /\ 1 \in DOMAIN group /\ x \in Entry
    BY <2>2, <2>3
  <2> HIDE DEF x
  <2>5. x.key \in Keys /\ x.seq \in Nat /\ x.seq <= last_sequence_
    BY <2>1, <2>4, EntryFields, Zenon DEF Numbered
  <2>6. /\ written \in SUBSET Entry
        /\ \A e \in written : e.seq < x.seq
    BY <2>1, <2>4, Zenon DEF Types, Numbered
  <2>7. \A e \in written' : e.seq \in Nat /\ e.seq <= x.seq
    BY <2>2, <2>5, <2>6, EntryFields
  <2>8. last_sequence_ \in Nat /\ Now' = ReadsAt(written \cup {x}, last_sequence_)
    BY <2>1, <2>2, LsmTreeAssumption DEF Types, Now
  <2>9. /\ Now'[x.key] \in 1..MaxSeq \cup {Missing}
        /\ Now' = [Now EXCEPT ![x.key] = Now'[x.key]]
    <3> DEFINE R == ReadsAt(written \cup {x}, last_sequence_)
    <3>1. /\ R[x.key] \in 1..MaxSeq \cup {Missing}
          /\ R = [Now EXCEPT ![x.key] = R[x.key]]
      BY <2>4, <2>6, <2>8, <1>ReadsTouched, Zenon DEF Now
    <3>2. Now' = R
      BY <2>8
    <3> HIDE DEF R
    <3> QED
      BY <3>1, <3>2, Zenon
  <2>10. ASSUME NEW s \in DOMAIN snapshots_
         PROVE  ReadsAt(written', snapshots_[s]) =
                   IF s \in late THEN [Through[s] EXCEPT ![x.key] = Now'[x.key]]
                   ELSE Through[s]
    <3>1. snapshots_[s] \in Nat
      BY <2>1, LsmTreeAssumption DEF Types, Pinned
    <3>2. Through[s] = ReadsAt(written, snapshots_[s])
      BY Zenon DEF Through
    <3>3. CASE s \in late
      <4>1. x.seq <= snapshots_[s]
        BY <2>1, <2>4, <3>3, Zenon DEF LateSees
      <4>2. \A e \in written' : e.seq <= last_sequence_ /\ e.seq <= snapshots_[s]
        BY <2>5, <2>7, <2>8, <3>1, <4>1
      <4>3. written' \in SUBSET Entry
        BY <2>2, <2>4, <2>6
      <4>4. ReadsAt(written', snapshots_[s]) = Now'
        BY <2>2, <2>8, <3>1, <4>2, <4>3, <1>ReadsLater, Zenon DEF Now
      <4>5. ReadsAt(written \cup {x}, snapshots_[s]) =
              [ReadsAt(written, snapshots_[s]) EXCEPT ![x.key] =
                  ReadsAt(written \cup {x}, snapshots_[s])[x.key]]
        BY <2>4, <2>6, <3>1, <1>ReadsTouched, Zenon
      <4> HIDE DEF Now, Through
      <4> QED
        BY <2>2, <3>2, <3>3, <4>4, <4>5, Zenon
    <3>4. CASE s \notin late
      <4>1. x.seq > snapshots_[s]
        BY <2>1, <2>4, <3>4, Zenon DEF LateSees
      <4> QED
        BY <2>2, <2>4, <3>1, <3>2, <3>4, <4>1, <1>ReadsBelow, Zenon
    <3> QED
      BY Zenon, <3>3, <3>4
  <2>11. DOMAIN Through = DOMAIN snapshots_
    BY Zenon DEF Through
  <2>12. Through' = [s \in DOMAIN snapshots_ |-> ReadsAt(written', snapshots_[s])]
    BY <2>2, Zenon DEF Through
  <2>13. Through' = [s \in DOMAIN Through |->
                       IF s \in late THEN [Through[s] EXCEPT ![x.key] = Now'[x.key]]
                       ELSE Through[s]]
    BY <2>10, <2>11, <2>12, Zenon
  <2> QED
    BY <2>5, <2>9, <2>13, Zenon DEF x
\* The steps of the tree, as the readers see them.
<1>ReadersSee.
    ASSUME Inv, [Next]_vars
    PROVE  \/ UNCHANGED <<Now, Through, group # <<>>, late>>
           \/ /\ group = <<>> /\ group' # <<>>
              /\ UNCHANGED <<Now, Through, late>>
           \/ \E k \in Keys :
                 /\ group # <<>>
                 /\ late' = IF group' # <<>> THEN late ELSE {}
                 /\ Now'[k] \in 1..MaxSeq \cup {Missing}
                 /\ Now' = [Now EXCEPT ![k] = Now'[k]]
                 /\ Through' = [s \in DOMAIN Through |->
                       IF s \in late THEN [Through[s] EXCEPT ![k] = Now'[k]]
                       ELSE Through[s]]
           \/ \E s \in Snaps :
                 /\ s \notin DOMAIN Through
                 /\ late' = IF group # <<>> THEN late \cup {s} ELSE late
                 /\ DOMAIN Through' = DOMAIN Through \cup {s}
                 /\ Through' = [p \in DOMAIN Through' |->
                                  IF p = s THEN Now ELSE Through[p]]
                 /\ UNCHANGED <<group, Now>>
           \/ \E s \in Snaps :
                 /\ s \in DOMAIN Through
                 /\ late' = late \ {s}
                 /\ DOMAIN Through' = DOMAIN Through \ {s}
                 /\ Through' = [p \in DOMAIN Through' |-> Through[p]]
                 /\ UNCHANGED <<group, Now>>
  <2> USE <1>ReadersSee
  <2>1. Types /\ Numbered
    BY DEF Inv
  <2>2. DOMAIN Through = DOMAIN snapshots_
    BY Zenon DEF Through
  <2>3. ASSUME UNCHANGED <<written, last_sequence_, snapshots_>>
        PROVE  UNCHANGED <<Now, Through>>
    BY <2>3, Zenon DEF Now, Through
  <2>4. ASSUME UNCHANGED <<written, last_sequence_, snapshots_, group, late>>
        PROVE  UNCHANGED <<Now, Through, group # <<>>, late>>
    BY <2>3, <2>4
  <2>5. CASE UNCHANGED vars
    BY <2>4, <2>5, Zenon DEF vars
  <2>6. ASSUME NEW ops \in Batches, StartGroup(ops)
        PROVE  /\ group = <<>> /\ group' # <<>>
               /\ UNCHANGED <<Now, Through, late>>
    <3>1. /\ group = <<>> /\ UNCHANGED <<written, snapshots_, late>>
          /\ last_sequence_' = last_sequence_ + Len(ops)
          /\ DOMAIN group' = DOMAIN ops
      BY <2>6, Zenon DEF StartGroup
    <3>2. PICK m \in 1..MaxBatch : ops \in [1..m -> Ops]
      BY <2>6, Zenon DEF Batches
    <3>3. Len(ops) = m /\ 1 \in DOMAIN ops /\ m \in Nat
      BY <3>2, LsmTreeAssumption
    <3>4. group' # <<>>
      BY <3>1, <3>3
    <3>5. last_sequence_ \in Nat /\ last_sequence_' \in Nat
          /\ last_sequence_ <= last_sequence_'
      BY <2>1, <3>1, <3>3, LsmTreeAssumption DEF Types
    <3>6. /\ written \in SUBSET Entry
          /\ \A e \in written : e.seq <= last_sequence_ /\ e.seq \in Nat
      BY <2>1, EntryFields, Zenon DEF Types, Numbered
    <3>7. \A e \in written : e.seq <= last_sequence_ /\ e.seq <= last_sequence_'
      BY <3>5, <3>6
    <3>8. ReadsAt(written, last_sequence_) = ReadsAt(written, last_sequence_')
      BY <3>5, <3>6, <3>7, <1>ReadsLater, Zenon
    <3>9. Now' = Now /\ Through' = Through
      BY <3>1, <3>8, Zenon DEF Now, Through
    <3> QED
      BY <3>1, <3>4, <3>9
  <2>7. ASSUME Insert
        PROVE  \E k \in Keys :
                   /\ group # <<>>
                   /\ late' = IF group' # <<>> THEN late ELSE {}
                   /\ Now'[k] \in 1..MaxSeq \cup {Missing}
                   /\ Now' = [Now EXCEPT ![k] = Now'[k]]
                   /\ Through' = [s \in DOMAIN Through |->
                         IF s \in late THEN [Through[s] EXCEPT ![k] = Now'[k]]
                         ELSE Through[s]]
    <3>1. group # <<>> /\ late' = IF group' # <<>> THEN late ELSE {}
      BY <2>7 DEF Insert
    <3> QED
      BY <2>7, <3>1, <1>InsertSets, Zenon
  <2>8. CASE Rotate
    BY <2>4, <2>8, Zenon DEF Rotate
  <2>9. ASSUME NEW s \in Snaps, GetSnapshot(s)
        PROVE  /\ s \notin DOMAIN Through
               /\ late' = IF group # <<>> THEN late \cup {s} ELSE late
               /\ DOMAIN Through' = DOMAIN Through \cup {s}
               /\ Through' = [p \in DOMAIN Through' |->
                                IF p = s THEN Now ELSE Through[p]]
               /\ UNCHANGED <<group, Now>>
    <3>1. /\ s \notin DOMAIN snapshots_
          /\ snapshots_' = [p \in DOMAIN snapshots_ \cup {s} |->
                              IF p = s THEN last_sequence_ ELSE snapshots_[p]]
          /\ late' = IF group # <<>> THEN late \cup {s} ELSE late
          /\ UNCHANGED <<last_sequence_, group, written>>
      BY <2>9, Zenon DEF GetSnapshot
    <3>2. DOMAIN snapshots_' = DOMAIN snapshots_ \cup {s}
      BY <3>1, Zenon
    <3>3. \A p \in DOMAIN snapshots_' : snapshots_'[p] =
             IF p = s THEN last_sequence_ ELSE snapshots_[p]
      BY <3>1, <3>2, Zenon
    <3>4. Through' = [p \in DOMAIN snapshots_' |-> ReadsAt(written, snapshots_'[p])]
      BY <3>1, Zenon DEF Through
    <3>5. DOMAIN Through' = DOMAIN snapshots_'
      BY <3>4, Zenon
    <3>6. ASSUME NEW p \in DOMAIN snapshots_'
          PROVE  ReadsAt(written, snapshots_'[p]) =
                    IF p = s THEN Now ELSE Through[p]
      <4>1. CASE p = s
        BY <3>3, <3>6, <4>1, Zenon DEF Now
      <4>2. CASE p # s
        <5>1. p \in DOMAIN snapshots_
          BY <3>2, <3>6, <4>2, Zenon
        <5>2. Through[p] = ReadsAt(written, snapshots_[p])
          BY <5>1, Zenon DEF Through
        <5> QED
          BY <3>3, <3>6, <4>2, <5>2, Zenon
      <4> QED
        BY Zenon, <4>1, <4>2
    <3>7. Through' = [p \in DOMAIN Through' |-> IF p = s THEN Now ELSE Through[p]]
      BY <3>4, <3>5, <3>6, Zenon
    <3>8. Now' = Now
      BY <3>1, Zenon DEF Now
    <3> QED
      BY <2>2, <3>1, <3>2, <3>5, <3>7, <3>8, Zenon
  <2>10. ASSUME NEW s \in Snaps, ReleaseSnapshot(s)
         PROVE  /\ s \in DOMAIN Through
                /\ late' = late \ {s}
                /\ DOMAIN Through' = DOMAIN Through \ {s}
                /\ Through' = [p \in DOMAIN Through' |-> Through[p]]
                /\ UNCHANGED <<group, Now>>
    <3>1. /\ s \in DOMAIN snapshots_
          /\ snapshots_' = [p \in DOMAIN snapshots_ \ {s} |-> snapshots_[p]]
          /\ late' = late \ {s}
          /\ UNCHANGED <<last_sequence_, group, written>>
      BY <2>10, Zenon DEF ReleaseSnapshot
    <3>2. DOMAIN snapshots_' = DOMAIN snapshots_ \ {s}
      BY <3>1, Zenon
    <3>3. \A p \in DOMAIN snapshots_' :
             snapshots_'[p] = snapshots_[p] /\ p \in DOMAIN snapshots_
      BY <3>1, <3>2, Zenon
    <3>4. Through' = [p \in DOMAIN snapshots_' |-> ReadsAt(written, snapshots_'[p])]
      BY <3>1, Zenon DEF Through
    <3>5. DOMAIN Through' = DOMAIN snapshots_'
      BY <3>4, Zenon
    <3>6. \A p \in DOMAIN snapshots_' :
             ReadsAt(written, snapshots_'[p]) = Through[p]
      BY <3>3, Zenon DEF Through
    <3>7. Through' = [p \in DOMAIN Through' |-> Through[p]]
      BY <3>4, <3>5, <3>6, Zenon
    <3>8. Now' = Now
      BY <3>1, Zenon DEF Now
    <3> QED
      BY <2>2, <3>1, <3>2, <3>5, <3>7, <3>8, Zenon
  <2>11. CASE FlushStart
    BY <2>4, <2>11, Zenon DEF FlushStart
  <2>12. CASE FlushInstall
    BY <2>4, <2>12, Zenon DEF FlushInstall
  <2>13. ASSUME NEW l \in Levels, CompactStart(l)
         PROVE  UNCHANGED <<Now, Through, group # <<>>, late>>
    BY <2>4, <2>13, Zenon DEF CompactStart
  <2>14. CASE CompactInstall
    BY <2>4, <2>14, Zenon DEF CompactInstall
  <2> QED
    BY <2>5, <2>6, <2>7, <2>8, <2>9, <2>10, <2>11, <2>12, <2>13, <2>14, Zenon
       DEF Next, Background
\* The same after a step.
<1>GetsAreNext.
    Inv' => (/\ [k \in Keys |-> Get(k, last_sequence_)] = Now
             /\ [s \in DOMAIN snapshots_ |->
                   [k \in Keys |-> Get(k, snapshots_[s])]] = Through)'
  BY GetsAre, PTL
<1> DEFINE store == [k \in Keys |-> Get(k, last_sequence_)]
           pins == [s \in DOMAIN snapshots_ |->
                      [k \in Keys |-> Get(k, snapshots_[s])]]
<1>1. store = Now /\ pins = Through
  BY GetsAre, Zenon
<1>2. store' = Now' /\ pins' = Through'
  BY <1>GetsAreNext, Zenon
<1> HIDE DEF store, pins
<1>3. CASE UNCHANGED <<Now, Through, group # <<>>, late>>
  <2>1. store' = store /\ pins' = pins /\ (group # <<>>)' = (group # <<>>)
        /\ late' = late
    BY <1>1, <1>2, <1>3
  <2> QED
    BY <2>1, Zenon DEF Promise!vars, store, pins
<1>4. CASE /\ group = <<>> /\ group' # <<>>
           /\ UNCHANGED <<Now, Through, late>>
  <2>1. store' = store /\ pins' = pins /\ late' = late
    BY <1>1, <1>2, <1>4
  <2>2. Promise!Begin
    BY Zenon, <1>4, <2>1 DEF Promise!Begin, store, pins
  <2> QED
    BY <2>2 DEF Promise!Next
<1>5. ASSUME NEW k \in Keys,
             group # <<>>,
             late' = IF group' # <<>> THEN late ELSE {},
             Now'[k] \in 1..MaxSeq \cup {Missing},
             Now' = [Now EXCEPT ![k] = Now'[k]],
             Through' = [s \in DOMAIN Through |->
                   IF s \in late THEN [Through[s] EXCEPT ![k] = Now'[k]]
                   ELSE Through[s]]
      PROVE  Promise!Next
  <2>1. /\ store'[k] \in 1..MaxSeq \cup {Missing}
        /\ store' = [store EXCEPT ![k] = store'[k]]
    BY <1>1, <1>2, <1>5, Zenon
  <2>2. store' \in {[store EXCEPT ![k] = v] : v \in 1..MaxSeq \cup {Missing}}
    BY <2>1, Zenon
  <2>3. pins' = [s \in DOMAIN pins |->
                   IF s \in late THEN [pins[s] EXCEPT ![k] = store'[k]]
                   ELSE pins[s]]
    BY <1>1, <1>2, <1>5, Zenon
  <2>4. (group # <<>>)' \in BOOLEAN
    OBVIOUS
  <2>5. Promise!Set(k)
    BY <1>5, <2>2, <2>3, <2>4, Zenon DEF Promise!Set, store, pins
  <2> QED
    BY <2>5, Zenon DEF Promise!Next
<1>6. ASSUME NEW s \in Snaps,
             s \notin DOMAIN Through,
             late' = IF group # <<>> THEN late \cup {s} ELSE late,
             DOMAIN Through' = DOMAIN Through \cup {s},
             Through' = [p \in DOMAIN Through' |->
                              IF p = s THEN Now ELSE Through[p]],
             UNCHANGED <<group, Now>>
      PROVE  Promise!Next
  <2>1. /\ s \notin DOMAIN pins
        /\ DOMAIN pins' = DOMAIN pins \cup {s}
        /\ pins' = [p \in DOMAIN pins' |-> IF p = s THEN store ELSE pins[p]]
        /\ store' = store
    BY <1>1, <1>2, <1>6, Zenon
  <2>2. Promise!Pin(s)
    BY <1>6, <2>1, Zenon DEF Promise!Pin, store, pins
  <2> QED
    BY <2>2, Zenon DEF Promise!Next
<1>7. ASSUME NEW s \in Snaps,
             s \in DOMAIN Through,
             late' = late \ {s},
             DOMAIN Through' = DOMAIN Through \ {s},
             Through' = [p \in DOMAIN Through' |-> Through[p]],
             UNCHANGED <<group, Now>>
      PROVE  Promise!Next
  <2>1. /\ s \in DOMAIN pins
        /\ DOMAIN pins' = DOMAIN pins \ {s}
        /\ pins' = [p \in DOMAIN pins' |-> pins[p]]
        /\ store' = store
    BY <1>1, <1>2, <1>7, Zenon
  <2>2. Promise!Unpin(s)
    BY <1>7, <2>1, Zenon DEF Promise!Unpin, store, pins
  <2> QED
    BY <2>2, Zenon DEF Promise!Next
<1> QED
  BY <1>3, <1>4, <1>5, <1>6, <1>7, <1>ReadersSee, Zenon

\* The tree starts as an empty map without snapshots.
LEMMA MapInit == Init => Promise!Init
<1> SUFFICES ASSUME Init PROVE Promise!Init
  OBVIOUS
<1>1. /\ [k \in Keys |-> Get(k, last_sequence_)] = Now
      /\ [s \in DOMAIN snapshots_ |->
            [k \in Keys |-> Get(k, snapshots_[s])]] = Through
  BY InvInit, GetsAre, Zenon
<1>2. written = {} /\ snapshots_ = [s \in {} |-> 0] /\ group = <<>> /\ late = {}
  BY DEF Init
<1>3. Now = [k \in Keys |-> Missing]
  <2>1. \A k \in Keys : Versions(written, k, last_sequence_) = {}
    BY <1>2, Zenon DEF Versions
  <2> QED
    BY <2>1, Zenon DEF Now, ReadsAt
<1>4. Through = [s \in {} |-> Now]
  BY <1>2 DEF Through
<1> QED
  BY <1>1, <1>2, <1>3, <1>4 DEF Promise!Init

\* The tree implements a map with snapshots: a read changes only by the insert
\* of its key, a snapshot by nothing written after its group, and rotation,
\* flush and compaction change no read at all.
THEOREM ImplementsMap ==
    Spec => IsKVStore
<1>1. Inv /\ Inv' /\ [Next]_vars => [Promise!Next]_(Promise!vars)
  BY MapStep
<1> QED
  BY <1>1, MapInit, Invariance, PTL DEF Spec, IsKVStore, Promise!Spec

=============================================================================
