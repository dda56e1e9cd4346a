-------------------------- MODULE CompactionProofs --------------------------
(***************************************************************************)
(* No file in use is ever deleted, for every value of the constants.       *)
(*                                                                         *)
(* FilesPresent is not inductive: that the version of a reader is alive    *)
(* follows from its reference count, and what the count says only from     *)
(* who holds a reference.  IInv therefore has each count equal to the      *)
(* number of holders: the readers that hold the version, current_ and the  *)
(* compaction at work (VersionsOK).  Besides, what is pending is on disk,  *)
(* the output of a flush and those of a compaction are pending and are     *)
(* not the same, and whatever PickCompaction, CompactRange, a seek charged *)
(* by a read or a flush picks is a level that exists and files of it.      *)
(* That the sorted lists of files and entries exist at all rests on the    *)
(* lemmas about ranks in finite strict orders.                             *)
(***************************************************************************)
EXTENDS Compaction, TLAPS, FiniteSetTheorems, SequenceTheorems

-----------------------------------------------------------------------------
(* Finite orders.                                                          *)

\* below[x] is what comes before x in a strict order of S; every rank is somebody's.
LEMMA RankTaken ==
  ASSUME NEW S, IsFiniteSet(S), NEW below \in [S -> SUBSET S],
         \A x \in S : x \notin below[x],
         \A x, y \in S : x \in below[y] => below[x] \subseteq below[y],
         \A x, y \in S : x # y => x \in below[y] \/ y \in below[x],
         NEW i \in 1 .. Cardinality(S)
  PROVE  \E x \in S : Cardinality(below[x]) = i - 1
<1> DEFINE n == Cardinality(S)
           rank == [x \in S |-> Cardinality(below[x])]
<1>1. n \in Nat
  BY FS_CardinalityType
<1>2. ASSUME NEW x \in S
      PROVE  IsFiniteSet(below[x]) /\ Cardinality(below[x]) \in 0 .. n - 1
  <2>1. below[x] \in SUBSET S /\ below[x] # S
    OBVIOUS
  <2>2. /\ IsFiniteSet(below[x]) /\ Cardinality(below[x]) <= n
        /\ n = Cardinality(below[x]) => S = below[x]
    BY <2>1, FS_Subset
  <2>3. Cardinality(below[x]) \in Nat
    BY <2>2, FS_CardinalityType
  <2>4. QED
    BY <1>1, <2>1, <2>2, <2>3
<1>3. ASSUME NEW x \in S, NEW y \in S, x \in below[y]
      PROVE  rank[x] # rank[y]
  <2>1. below[x] \in SUBSET below[y] /\ below[x] # below[y]
    BY <1>3
  <2>2. Cardinality(below[y]) = Cardinality(below[x]) => below[y] = below[x]
    BY <1>2, <2>1, FS_Subset
  <2>3. QED
    BY <2>1, <2>2
<1>4. rank \in [S -> 0 .. n - 1]
  BY <1>2
<1>5. rank \in Injection(S, 0 .. n - 1)
  <2>1. \A x, y \in S : rank[x] = rank[y] => x = y
    BY <1>3
  <2>2. QED
    BY <1>4, <2>1 DEF Injection, IsInjective
<1>6. IsFiniteSet(0 .. n - 1) /\ Cardinality(0 .. n - 1) = n
  <2>1. 0 \in Int /\ n - 1 \in Int
    BY <1>1
  <2>2. /\ IsFiniteSet(0 .. n - 1)
        /\ Cardinality(0 .. n - 1) = IF 0 > n - 1 THEN 0 ELSE (n - 1) - 0 + 1
    BY <2>1, FS_Interval
  <2>3. QED
    BY <1>1, <2>2
<1>7. rank \in Surjection(S, 0 .. n - 1)
  <2>1. Cardinality(S) = Cardinality(0 .. n - 1) <=> rank \in Surjection(S, 0 .. n - 1)
    BY <1>5, <1>6, FS_Injection
  <2>2. QED
    BY <1>6, <2>1
<1>8. i - 1 \in 0 .. n - 1
  BY <1>1
<1>9. PICK x \in S : rank[x] = i - 1
  BY <1>7, <1>8 DEF Surjection
<1>10. QED
  BY <1>9

\* The same for all ranks.
LEMMA RanksTaken ==
  ASSUME NEW S, IsFiniteSet(S), NEW below \in [S -> SUBSET S],
         \A x \in S : x \notin below[x],
         \A x, y \in S : x \in below[y] => below[x] \subseteq below[y],
         \A x, y \in S : x # y => x \in below[y] \/ y \in below[x]
  PROVE  \A i \in 1 .. Cardinality(S) : \E x \in S : Cardinality(below[x]) = i - 1
BY RankTaken

\* Something comes first.
LEMMA FirstTaken ==
  ASSUME NEW S, IsFiniteSet(S), S # {}, NEW below \in [S -> SUBSET S],
         \A x \in S : x \notin below[x],
         \A x, y \in S : x \in below[y] => below[x] \subseteq below[y],
         \A x, y \in S : x # y => x \in below[y] \/ y \in below[x]
  PROVE  \E x \in S : below[x] = {}
<1>1. Cardinality(S) \in Nat /\ Cardinality(S) # 0
  BY FS_CardinalityType, FS_EmptySet
<1>2. 1 \in 1 .. Cardinality(S)
  BY <1>1
<1>3. \E x \in S : Cardinality(below[x]) = 1 - 1
  BY <1>2, RankTaken
<1>4. PICK x \in S : Cardinality(below[x]) = 0
  BY <1>3
<1>5. IsFiniteSet(below[x])
  BY FS_Subset
<1>6. QED
  BY <1>4, <1>5, FS_EmptySet

\* A finite set of numbers that is not empty has a least and a greatest one.
LEMMA LeastExists ==
  ASSUME NEW S \in SUBSET Nat, IsFiniteSet(S), S # {}
  PROVE  \E x \in S : \A y \in S : x <= y
<1> DEFINE below == [x \in S |-> {y \in S : y < x}]
<1>1. \A x \in S : below[x] = {y \in S : y < x}
  OBVIOUS
<1>2. below \in [S -> SUBSET S]
  OBVIOUS
<1> HIDE DEF below
<1>3. \A x \in S : x \notin below[x]
  BY <1>1
<1>4. \A x, y \in S : x # y => x \in below[y] \/ y \in below[x]
  BY <1>1
<1>5. \A x, y \in S : x \in below[y] => below[x] \subseteq below[y]
  <2>1. ASSUME NEW x \in S, NEW y \in S, x \in below[y], NEW z \in below[x]
        PROVE  z \in below[y]
    <3>1. x \in Nat /\ y \in Nat /\ z \in Nat /\ z \in S
      BY <1>1, <1>2
    <3>2. QED
      BY <1>1, <2>1, <3>1
  <2>2. QED
    BY <2>1
<1>6. PICK x \in S : below[x] = {}
  BY <1>2, <1>3, <1>4, <1>5, FirstTaken
<1>7. ASSUME NEW y \in S
      PROVE  x <= y
  <2>1. y \notin below[x] /\ x \in Nat /\ y \in Nat
    BY <1>6
  <2>2. QED
    BY <1>1, <2>1
<1>8. QED
  BY <1>7

\* A finite set of numbers that is not empty has a greatest one.
LEMMA GreatestExists ==
  ASSUME NEW S \in SUBSET Nat, IsFiniteSet(S), S # {}
  PROVE  \E x \in S : \A y \in S : x >= y
<1> DEFINE below == [x \in S |-> {y \in S : y > x}]
<1>1. \A x \in S : below[x] = {y \in S : y > x}
  OBVIOUS
<1>2. below \in [S -> SUBSET S]
  OBVIOUS
<1> HIDE DEF below
<1>3. \A x \in S : x \notin below[x]
  BY <1>1
<1>4. \A x, y \in S : x # y => x \in below[y] \/ y \in below[x]
  BY <1>1
<1>5. \A x, y \in S : x \in below[y] => below[x] \subseteq below[y]
  <2>1. ASSUME NEW x \in S, NEW y \in S, x \in below[y], NEW z \in below[x]
        PROVE  z \in below[y]
    <3>1. x \in Nat /\ y \in Nat /\ z \in Nat /\ z \in S
      BY <1>1, <1>2
    <3>2. QED
      BY <1>1, <2>1, <3>1
  <2>2. QED
    BY <2>1
<1>6. PICK x \in S : below[x] = {}
  BY <1>2, <1>3, <1>4, <1>5, FirstTaken
<1>7. ASSUME NEW y \in S
      PROVE  x >= y
  <2>1. y \notin below[x] /\ x \in Nat /\ y \in Nat
    BY <1>6
  <2>2. QED
    BY <1>1, <2>1
<1>8. QED
  BY <1>7

-----------------------------------------------------------------------------
(* Internal keys and the files of a level.                                 *)

Entry == 1 .. LastSequence
HistoryOK == history \in Seq([key : Key, del : BOOLEAN])
TableType == [entries : SUBSET Nat, smallest : Nat, largest : Nat]
TablesOK ==
  /\ DOMAIN table \subseteq Nat
  /\ \A n \in DOMAIN table :
       /\ table[n] \in TableType
       /\ table[n].entries \subseteq Entry /\ table[n].entries # {}
       /\ table[n].smallest \in Entry /\ table[n].largest \in Entry

\* What the proofs use of the constants.
LEMMA ConstantTypes ==
  /\ Key \subseteq Nat /\ NumLevels \in Nat /\ NumLevels >= 2
  /\ MaxMemCompactLevel \in 0 .. NumLevels - 1
  /\ L0Trigger \in Nat /\ L0Trigger > 0 /\ LevelLimit \in Nat /\ LevelLimit > 0
  /\ MaxSeq \in Nat /\ MaxFile \in Nat
  /\ IsFiniteSet(Reader)
  /\ None \notin Nat /\ None \notin Held /\ None \notin Job
BY ConstantsAssumption

\* Entries are finitely many, and each has a user key.
LEMMA EntryFinite ==
  ASSUME HistoryOK, NEW S \in SUBSET Entry
  PROVE  IsFiniteSet(S) /\ Cardinality(S) \in Nat /\ \A e \in S : UserKey(e) \in Nat
<1>1. LastSequence \in Nat /\ \A e \in Entry : UserKey(e) \in Nat
  <2>1. ASSUME NEW e \in Entry
        PROVE  history[e] \in [key : Key, del : BOOLEAN]
    BY ElementOfSeq DEF HistoryOK, LastSequence, Entry
  <2>2. LastSequence \in Nat
    BY DEF HistoryOK, LastSequence
  <2>3. ASSUME NEW e \in Entry
        PROVE  UserKey(e) \in Nat
    BY <2>1, ConstantTypes DEF UserKey
  <2>4. QED
    BY <2>2, <2>3
<1>2. IsFiniteSet(Entry)
  BY <1>1, FS_Interval DEF Entry
<1>3. IsFiniteSet(S) /\ Cardinality(S) \in Nat
  BY <1>2, FS_Subset, FS_CardinalityType
<1>4. QED
  BY <1>1, <1>3

\* Internal keys are in a strict order.
LEMMA BeforeOrders ==
  ASSUME HistoryOK, NEW S \in SUBSET Entry,
         NEW below, below = [x \in S |-> {y \in S : y # x /\ Before(y, x)}]
  PROVE  /\ below \in [S -> SUBSET S]
         /\ \A x \in S : x \notin below[x]
         /\ \A x, y \in S : x \in below[y] => below[x] \subseteq below[y]
         /\ \A x, y \in S : x # y => x \in below[y] \/ y \in below[x]
<1> USE DEF Entry
<1>1. \A e \in S : e \in Nat /\ UserKey(e) \in Nat
  BY EntryFinite
<1>2. \A x, y, z \in S : Before(x, y) /\ Before(y, z) => x # z /\ Before(x, z)
  BY <1>1 DEF Before
<1>3. \A x, y \in S : x # y => Before(x, y) \/ Before(y, x)
  BY <1>1 DEF Before
<1>4. \A x \in S : below[x] = {y \in S : y # x /\ Before(y, x)}
  OBVIOUS
<1>5. below \in [S -> SUBSET S]
  OBVIOUS
<1>6. \A x, y \in S : x \in below[y] <=> x # y /\ Before(x, y)
  BY <1>4
<1>7. \A x, y \in S : x \in below[y] => below[x] \subseteq below[y]
  BY <1>2, <1>4
<1>8. QED
  BY <1>3, <1>5, <1>6, <1>7

\* A table has a smallest and a largest entry.
LEMMA FirstFinal ==
  ASSUME HistoryOK, NEW S \in SUBSET Entry, S # {}
  PROVE  First(S) \in S /\ Final(S) \in S
<1> DEFINE below == [x \in S |-> {y \in S : y # x /\ Before(y, x)}]
<1>1. /\ below \in [S -> SUBSET S]
      /\ \A x \in S : x \notin below[x]
      /\ \A x, y \in S : x \in below[y] => below[x] \subseteq below[y]
      /\ \A x, y \in S : x # y => x \in below[y] \/ y \in below[x]
  BY BeforeOrders
<1>2. \A x \in S : below[x] = {y \in S : y # x /\ Before(y, x)}
  OBVIOUS
<1> HIDE DEF below
<1>3. IsFiniteSet(S) /\ Cardinality(S) \in Nat /\ Cardinality(S) # 0
  BY EntryFinite, FS_EmptySet
<1>4. \E x \in S : \A y \in S : x = y \/ Before(x, y)
  <2>1. PICK x \in S : below[x] = {}
    BY <1>1, <1>3, FirstTaken
  <2>2. \A y \in S : x # y => x \in below[y]
    BY <1>1, <2>1
  <2>3. QED
    BY <1>2, <2>2
<1>5. \E x \in S : \A y \in S : x = y \/ Before(y, x)
  <2>1. Cardinality(S) \in 1 .. Cardinality(S)
    BY <1>3
  <2>2. PICK x \in S : Cardinality(below[x]) = Cardinality(S) - 1
    BY <1>1, <1>3, <2>1, RankTaken
  <2>3. IsFiniteSet(S \ {x}) /\ Cardinality(S \ {x}) = Cardinality(S) - 1
    BY <1>3, FS_RemoveElement
  <2>4. below[x] \in SUBSET (S \ {x})
    BY <1>1
  <2>5. below[x] = S \ {x}
    BY <2>2, <2>3, <2>4, FS_Subset
  <2>6. QED
    BY <1>2, <2>5
<1>6. First(S) \in S
  BY <1>4 DEF First
<1>7. Final(S) \in S
  BY <1>5 DEF Final
<1>8. QED
  BY <1>6, <1>7

\* The entries a compaction keeps, in the order of internal keys.
LEMMA SortedEntries ==
  ASSUME HistoryOK, NEW S \in SUBSET Entry
  PROVE  Sorted(S, Before) \in Seq(S) /\ Len(Sorted(S, Before)) = Cardinality(S)
<1> DEFINE below == [x \in S |-> {y \in S : y # x /\ Before(y, x)}]
           n == Cardinality(S)
<1>1. /\ below \in [S -> SUBSET S]
      /\ \A x \in S : x \notin below[x]
      /\ \A x, y \in S : x \in below[y] => below[x] \subseteq below[y]
      /\ \A x, y \in S : x # y => x \in below[y] \/ y \in below[x]
  BY BeforeOrders
<1>2. \A x \in S : below[x] = {y \in S : y # x /\ Before(y, x)}
  OBVIOUS
<1> HIDE DEF below
<1>3. IsFiniteSet(S) /\ n \in Nat
  BY EntryFinite
<1>4. ASSUME NEW i \in 1 .. n
      PROVE  (CHOOSE x \in S : Cardinality({y \in S : y # x /\ Before(y, x)}) = i - 1) \in S
  <2>1. PICK x \in S : Cardinality(below[x]) = i - 1
    BY <1>1, <1>3, RankTaken
  <2>2. \E z \in S : Cardinality({y \in S : y # z /\ Before(y, z)}) = i - 1
    BY <1>2, <2>1
  <2>3. QED
    BY <2>2
<1>5. Sorted(S, Before) \in [1 .. n -> S]
  BY <1>4 DEF Sorted
<1>6. QED
  BY <1>3, <1>5, SeqDef, LenProperties

\* Files are in a strict order of their smallest key, and number.
LEMMA FilesOrdered ==
  ASSUME HistoryOK, TablesOK, NEW S \in SUBSET DOMAIN table,
         NEW below, below = [x \in S |-> {y \in S : y # x /\ BySmallestKey(y, x)}]
  PROVE  /\ below \in [S -> SUBSET S]
         /\ \A x \in S : x \notin below[x]
         /\ \A x, y \in S : x \in below[y] => below[x] \subseteq below[y]
         /\ \A x, y \in S : x # y => x \in below[y] \/ y \in below[x]
<1>1. \A n \in S : n \in Nat /\ Smallest(n) \in Nat /\ UserKey(Smallest(n)) \in Nat
  <2>1. ASSUME NEW n \in S
        PROVE  n \in Nat /\ Smallest(n) \in Entry
    BY DEF TablesOK, Smallest
  <2>2. Entry \in SUBSET Entry /\ Entry \subseteq Nat
    BY DEF Entry
  <2>3. \A e \in Entry : UserKey(e) \in Nat
    BY <2>2, EntryFinite
  <2>4. QED
    BY <2>1, <2>2, <2>3
<1>2. \A x, y, z \in S : BySmallestKey(x, y) /\ BySmallestKey(y, z) => x # z /\ BySmallestKey(x, z)
  BY <1>1 DEF BySmallestKey, Before
<1>3. \A x, y \in S : x # y => BySmallestKey(x, y) \/ BySmallestKey(y, x)
  BY <1>1 DEF BySmallestKey, Before
<1>4. \A x \in S : below[x] = {y \in S : y # x /\ BySmallestKey(y, x)}
  OBVIOUS
<1>5. below \in [S -> SUBSET S]
  OBVIOUS
<1>6. \A x, y \in S : x \in below[y] <=> x # y /\ BySmallestKey(x, y)
  BY <1>4
<1>7. \A x, y \in S : x \in below[y] => below[x] \subseteq below[y]
  BY <1>2, <1>4
<1>8. QED
  BY <1>3, <1>5, <1>6, <1>7

\* The files of a level, in the order of their smallest keys.
LEMMA SortedFiles ==
  ASSUME HistoryOK, TablesOK, NEW S \in SUBSET DOMAIN table, IsFiniteSet(S)
  PROVE  /\ Sorted(S, BySmallestKey) \in Seq(S)
         /\ Len(Sorted(S, BySmallestKey)) = Cardinality(S)
<1> DEFINE below == [x \in S |-> {y \in S : y # x /\ BySmallestKey(y, x)}]
           n == Cardinality(S)
<1>1. /\ below \in [S -> SUBSET S]
      /\ \A x \in S : x \notin below[x]
      /\ \A x, y \in S : x \in below[y] => below[x] \subseteq below[y]
      /\ \A x, y \in S : x # y => x \in below[y] \/ y \in below[x]
  BY FilesOrdered
<1>2. \A x \in S : below[x] = {y \in S : y # x /\ BySmallestKey(y, x)}
  OBVIOUS
<1> HIDE DEF below
<1>3. n \in Nat
  BY FS_CardinalityType
<1>4. ASSUME NEW i \in 1 .. n
      PROVE  (CHOOSE x \in S : Cardinality({y \in S : y # x /\ BySmallestKey(y, x)}) = i - 1) \in S
  <2>1. PICK x \in S : Cardinality(below[x]) = i - 1
    BY <1>1, <1>3, RankTaken
  <2>2. \E z \in S : Cardinality({y \in S : y # z /\ BySmallestKey(y, z)}) = i - 1
    BY <1>2, <2>1
  <2>3. QED
    BY <2>2
<1>5. Sorted(S, BySmallestKey) \in [1 .. n -> S]
  BY <1>4 DEF Sorted
<1>6. QED
  BY <1>3, <1>5, SeqDef, LenProperties

\* Numbers in descending order.
LEMMA SortedDown ==
  ASSUME NEW S \in SUBSET Nat, IsFiniteSet(S)
  PROVE  \A i \in 1 .. Cardinality(S) : Sorted(S, >)[i] \in S
<1> DEFINE below == [x \in S |-> {y \in S : y # x /\ y > x}]
           n == Cardinality(S)
<1>1. \A x \in S : below[x] = {y \in S : y # x /\ y > x}
  OBVIOUS
<1>2. below \in [S -> SUBSET S]
  OBVIOUS
<1> HIDE DEF below
<1>3. \A x, y \in S : x \in below[y] <=> x > y
  BY <1>1
<1>4. \A x \in S : x \notin below[x]
  BY <1>3
<1>5. \A x, y \in S : x # y => x \in below[y] \/ y \in below[x]
  BY <1>3
<1>6. ASSUME NEW x \in S, NEW y \in S, x \in below[y], NEW z \in below[x]
      PROVE  z \in below[y]
  <2>1. x \in Nat /\ y \in Nat /\ z \in Nat /\ z \in S
    BY <1>1, <1>2
  <2>2. QED
    BY <1>3, <1>6, <2>1
<1>7. \A x, y \in S : x \in below[y] => below[x] \subseteq below[y]
  BY <1>6
<1>8. ASSUME NEW i \in 1 .. n
      PROVE  \E x \in S : Cardinality({y \in S : y # x /\ y > x}) = i - 1
  <2>1. \A k \in 1 .. n : \E x \in S : Cardinality(below[x]) = k - 1
    BY <1>2, <1>4, <1>5, <1>7, RanksTaken
  <2>2. \E x \in S : Cardinality(below[x]) = i - 1
    BY <2>1
  <2>3. QED
    BY <1>1, <2>2
<1>9. QED
  BY <1>8 DEF Sorted

\* In ascending order: the first one is the least.
LEMMA SortedUp ==
  ASSUME NEW S \in SUBSET Nat, IsFiniteSet(S)
  PROVE  /\ \A i \in 1 .. Cardinality(S) : Sorted(S, <)[i] \in S
         /\ Cardinality(S) >= 1 => \A y \in S : Sorted(S, <)[1] <= y
<1> DEFINE below == [x \in S |-> {y \in S : y # x /\ y < x}]
           n == Cardinality(S)
<1>1. \A x \in S : below[x] = {y \in S : y # x /\ y < x}
  OBVIOUS
<1>2. below \in [S -> SUBSET S]
  OBVIOUS
<1> HIDE DEF below
<1>3. \A x, y \in S : x \in below[y] <=> x < y
  BY <1>1
<1>4. \A x \in S : x \notin below[x]
  BY <1>3
<1>5. \A x, y \in S : x # y => x \in below[y] \/ y \in below[x]
  BY <1>3
<1>6. ASSUME NEW x \in S, NEW y \in S, x \in below[y], NEW z \in below[x]
      PROVE  z \in below[y]
  <2>1. x \in Nat /\ y \in Nat /\ z \in Nat /\ z \in S
    BY <1>1, <1>2
  <2>2. QED
    BY <1>3, <1>6, <2>1
<1>7. \A x, y \in S : x \in below[y] => below[x] \subseteq below[y]
  BY <1>6
<1>8. ASSUME NEW i \in 1 .. n
      PROVE  \E x \in S : Cardinality({y \in S : y # x /\ y < x}) = i - 1
  <2>1. \A k \in 1 .. n : \E x \in S : Cardinality(below[x]) = k - 1
    BY <1>2, <1>4, <1>5, <1>7, RanksTaken
  <2>2. \E x \in S : Cardinality(below[x]) = i - 1
    BY <2>1
  <2>3. QED
    BY <1>1, <2>2
<1>9. \A i \in 1 .. n : \E x \in S :
        x = Sorted(S, <)[i] /\ Cardinality({y \in S : y # x /\ y < x}) = i - 1
  BY <1>8 DEF Sorted
<1>10. ASSUME n >= 1, NEW y \in S
       PROVE  Sorted(S, <)[1] <= y
  <2>1. n \in Nat /\ 1 \in 1 .. n
    BY <1>10, FS_CardinalityType
  <2>2. PICK x \in S : x = Sorted(S, <)[1] /\ Cardinality({z \in S : z # x /\ z < x}) = 1 - 1
    BY <1>9, <2>1
  <2>3. Cardinality(below[x]) = 1 - 1
    BY <1>1, <2>2
  <2>4. Cardinality(below[x]) = 0 /\ IsFiniteSet(below[x])
    BY <1>2, <2>3, FS_Subset
  <2>5. below[x] = {}
    BY <2>4, FS_EmptySet
  <2>6. x <= y
    <3>1. x \in Nat /\ y \in Nat
      OBVIOUS
    <3>2. ~(y < x)
      BY <1>3, <2>5
    <3>3. QED
      BY <3>1, <3>2
  <2>7. QED
    BY <2>2, <2>6
<1>11. QED
  BY <1>9, <1>10

-----------------------------------------------------------------------------
(* Versions and who counts for their references.                           *)

Place == [level : Nat, number : Nat]
FileMap == [Level -> Seq(Nat)]
Version == [files : FileMap, refs : Nat, seek : {None} \cup Place]

SeekIn(files, seek) ==
  seek # None => seek.level \in 0 .. NumLevels - 2 /\ seek.number \in ToSet(files[seek.level])

\* The versions that are alive are those somebody holds; refs says how many do.
VersionsOK(vs, count, files) ==
  /\ count \in [Nat -> Nat]
  /\ DOMAIN vs \subseteq Nat /\ vs = [v \in DOMAIN vs |-> vs[v]]
  /\ \A v \in DOMAIN vs :
       /\ vs[v] \in Version /\ vs[v].refs = count[v] /\ count[v] > 0
       /\ FilesOf(vs[v].files) \subseteq files
       /\ SeekIn(vs[v].files, vs[v].seek)
  /\ \A v \in Nat : v \notin DOMAIN vs => count[v] = 0

\* Version::Ref: one holder more.
LEMMA RefCounted ==
  ASSUME NEW vs, NEW count, NEW files, VersionsOK(vs, count, files), NEW v \in DOMAIN vs
  PROVE  /\ VersionsOK(Ref(vs, v), [count EXCEPT ![v] = @ + 1], files)
         /\ DOMAIN Ref(vs, v) = DOMAIN vs
<1> DEFINE ws == Ref(vs, v)
           more == [count EXCEPT ![v] = @ + 1]
<1>1. /\ count \in [Nat -> Nat] /\ v \in Nat /\ DOMAIN vs \subseteq Nat
      /\ \A u \in DOMAIN vs : vs[u] \in Version
      /\ \A u \in Nat : u \notin DOMAIN vs => count[u] = 0
  BY DEF VersionsOK
<1>2. more \in [Nat -> Nat] /\ \A u \in Nat : more[u] = IF u = v THEN count[u] + 1 ELSE count[u]
  BY <1>1
<1>3. DOMAIN ws = DOMAIN vs /\ ws = [u \in DOMAIN ws |-> ws[u]]
  BY DEF Ref
<1>4. ASSUME NEW u \in DOMAIN vs
      PROVE  /\ ws[u] \in Version /\ ws[u].refs = more[u] /\ more[u] > 0
             /\ FilesOf(ws[u].files) \subseteq files /\ SeekIn(ws[u].files, ws[u].seek)
  <2>1. /\ vs[u] \in Version /\ vs[u].refs = count[u] /\ count[u] > 0
        /\ FilesOf(vs[u].files) \subseteq files /\ SeekIn(vs[u].files, vs[u].seek)
    BY DEF VersionsOK
  <2>2. ws[u] = IF u = v THEN [vs[u] EXCEPT !.refs = @ + 1] ELSE vs[u]
    BY DEF Ref
  <2>3. ws[u] \in Version /\ ws[u].files = vs[u].files /\ ws[u].seek = vs[u].seek
    BY <2>1, <2>2 DEF Version
  <2>4. ws[u].refs = more[u] /\ more[u] > 0
    BY <1>1, <1>2, <2>1, <2>2 DEF Version
  <2>5. QED
    BY <2>1, <2>3, <2>4
<1> HIDE DEF ws, more
<1>5. VersionsOK(ws, more, files)
  BY <1>1, <1>2, <1>3, <1>4 DEF VersionsOK
<1>6. QED
  BY <1>3, <1>5 DEF ws, more

\* Version::Unref: one holder less, and the version goes with the last one.
LEMMA UnrefCounted ==
  ASSUME NEW vs, NEW count, NEW files, VersionsOK(vs, count, files),
         NEW v \in Nat, count[v] > 0
  PROVE  /\ VersionsOK(Unref(vs, v), [count EXCEPT ![v] = @ - 1], files)
         /\ DOMAIN Unref(vs, v) \subseteq DOMAIN vs
<1> DEFINE ws == Unref(vs, v)
           less == [count EXCEPT ![v] = @ - 1]
<1>1. /\ count \in [Nat -> Nat] /\ v \in DOMAIN vs /\ DOMAIN vs \subseteq Nat
      /\ vs[v].refs = count[v]
      /\ \A u \in Nat : u \notin DOMAIN vs => count[u] = 0
  BY DEF VersionsOK
<1>2. less \in [Nat -> Nat] /\ \A u \in Nat : less[u] = IF u = v THEN count[u] - 1 ELSE count[u]
  BY <1>1
<1>3. /\ DOMAIN ws = IF count[v] = 1 THEN DOMAIN vs \ {v} ELSE DOMAIN vs
      /\ ws = [u \in DOMAIN ws |-> ws[u]]
  BY <1>1 DEF Unref
<1>4. ASSUME NEW u \in DOMAIN ws
      PROVE  /\ ws[u] \in Version /\ ws[u].refs = less[u] /\ less[u] > 0
             /\ FilesOf(ws[u].files) \subseteq files /\ SeekIn(ws[u].files, ws[u].seek)
  <2>0. u \in DOMAIN vs /\ (u = v => count[v] # 1)
    BY <1>3
  <2>1. /\ vs[u] \in Version /\ vs[u].refs = count[u] /\ count[u] > 0
        /\ FilesOf(vs[u].files) \subseteq files /\ SeekIn(vs[u].files, vs[u].seek)
    BY <2>0 DEF VersionsOK
  <2>2. ws[u] = IF u = v THEN [vs[u] EXCEPT !.refs = @ - 1] ELSE vs[u]
    BY <1>1, <2>0 DEF Unref
  <2>3. vs[u].refs - 1 \in Nat
    BY <1>1, <2>0, <2>1
  <2>4. ws[u] \in Version /\ ws[u].files = vs[u].files /\ ws[u].seek = vs[u].seek
    BY <2>1, <2>2, <2>3 DEF Version
  <2>5. ws[u].refs = less[u] /\ less[u] > 0
    BY <1>1, <1>2, <2>0, <2>1, <2>2 DEF Version
  <2>6. QED
    BY <2>1, <2>4, <2>5
<1>5. ASSUME NEW u \in Nat, u \notin DOMAIN ws
      PROVE  less[u] = 0
  BY <1>1, <1>2, <1>3, <1>5
<1>6. DOMAIN ws \subseteq DOMAIN vs
  BY <1>3
<1> HIDE DEF ws, less
<1>7. VersionsOK(ws, less, files)
  BY <1>1, <1>2, <1>3, <1>4, <1>5, <1>6 DEF VersionsOK
<1>8. QED
  BY <1>6, <1>7 DEF ws, less

\* UpdateStats changes no reference.
LEMMA StatsCounted ==
  ASSUME NEW vs, NEW count, NEW files, VersionsOK(vs, count, files), NEW v \in DOMAIN vs,
         NEW seek \in Place, SeekIn(vs[v].files, seek)
  PROVE  /\ VersionsOK(UpdateStats(vs, v, seek), count, files)
         /\ DOMAIN UpdateStats(vs, v, seek) = DOMAIN vs
<1> DEFINE ws == UpdateStats(vs, v, seek)
<1>1. DOMAIN ws = DOMAIN vs /\ ws = [u \in DOMAIN ws |-> ws[u]]
  BY DEF UpdateStats, VersionsOK
<1>2. ASSUME NEW u \in DOMAIN vs
      PROVE  /\ ws[u] \in Version /\ ws[u].refs = count[u] /\ count[u] > 0
             /\ FilesOf(ws[u].files) \subseteq files /\ SeekIn(ws[u].files, ws[u].seek)
  <2>1. /\ vs[u] \in Version /\ vs[u].refs = count[u] /\ count[u] > 0
        /\ FilesOf(vs[u].files) \subseteq files /\ SeekIn(vs[u].files, vs[u].seek)
    BY DEF VersionsOK
  <2>2. ws[u] = vs[u] \/ (u = v /\ ws[u] = [vs[u] EXCEPT !.seek = seek])
    BY DEF UpdateStats
  <2>3. CASE ws[u] = vs[u]
    BY <2>1, <2>3
  <2>4. CASE u = v /\ ws[u] = [vs[u] EXCEPT !.seek = seek]
    <3>1. ws[u] \in Version /\ ws[u].files = vs[u].files /\ ws[u].seek = seek /\ ws[u].refs = vs[u].refs
      BY <2>1, <2>4 DEF Version
    <3>2. QED
      BY <2>1, <2>4, <3>1
  <2>5. QED
    BY <2>2, <2>3, <2>4
<1> HIDE DEF ws
<1>3. VersionsOK(ws, count, files)
  BY <1>1, <1>2 DEF VersionsOK
<1>4. QED
  BY <1>1, <1>3 DEF ws

\* The new version is current, the old one is not any more.
LEMMA AppendCounted ==
  ASSUME NEW count, NEW files, VersionsOK(versions, count, files),
         current \in DOMAIN versions, \A v \in DOMAIN versions : v <= current,
         NEW map \in FileMap, FilesOf(map) \subseteq files
  PROVE  /\ VersionsOK(AppendVersion(versions, map),
                       [count EXCEPT ![current + 1] = 1, ![current] = @ - 1], files)
         /\ DOMAIN AppendVersion(versions, map) \subseteq DOMAIN versions \cup {current + 1}
<1> DEFINE v == current + 1
           ws == [u \in DOMAIN versions \cup {v} |->
                    IF u = v THEN [files |-> map, refs |-> 1, seek |-> None] ELSE versions[u]]
           one == [count EXCEPT ![v] = 1]
<1>1. /\ count \in [Nat -> Nat] /\ DOMAIN versions \subseteq Nat
      /\ \A u \in Nat : u \notin DOMAIN versions => count[u] = 0
  BY DEF VersionsOK
<1>2. v \in Nat /\ v \notin DOMAIN versions /\ v # current /\ current \in Nat
  BY <1>1
<1>3. one \in [Nat -> Nat] /\ \A u \in Nat : one[u] = IF u = v THEN 1 ELSE count[u]
  BY <1>1, <1>2
<1>4. DOMAIN ws = DOMAIN versions \cup {v} /\ ws = [u \in DOMAIN ws |-> ws[u]]
  OBVIOUS
<1>5. ASSUME NEW u \in DOMAIN ws
      PROVE  /\ ws[u] \in Version /\ ws[u].refs = one[u] /\ one[u] > 0
             /\ FilesOf(ws[u].files) \subseteq files /\ SeekIn(ws[u].files, ws[u].seek)
  <2>1. CASE u = v
    <3>1. ws[u] = [files |-> map, refs |-> 1, seek |-> None]
      BY <2>1
    <3>2. ws[u] \in Version
      BY <3>1 DEF Version
    <3>3. one[u] = 1
      BY <1>2, <1>3, <2>1
    <3>4. QED
      BY <3>1, <3>2, <3>3 DEF SeekIn
  <2>2. CASE u # v
    <3>1. u \in DOMAIN versions /\ ws[u] = versions[u] /\ one[u] = count[u]
      BY <1>1, <1>3, <1>4, <2>2
    <3>2. /\ versions[u] \in Version /\ versions[u].refs = count[u] /\ count[u] > 0
          /\ FilesOf(versions[u].files) \subseteq files
          /\ SeekIn(versions[u].files, versions[u].seek)
      BY <3>1 DEF VersionsOK
    <3>3. QED
      BY <3>1, <3>2
  <2>3. QED
    BY <2>1, <2>2
<1>6. AppendVersion(versions, map) = Unref(ws, current)
  BY DEF AppendVersion
<1>7. [count EXCEPT ![v] = 1, ![current] = @ - 1] = [one EXCEPT ![current] = @ - 1]
  BY <1>1, <1>2
<1>8. \A u \in Nat : u \notin DOMAIN ws => one[u] = 0
  BY <1>1, <1>3, <1>4
<1>9. DOMAIN ws \subseteq Nat
  BY <1>1, <1>2, <1>4
<1> HIDE DEF ws, one
<1>10. VersionsOK(ws, one, files)
  BY <1>3, <1>4, <1>5, <1>8, <1>9 DEF VersionsOK
<1>11. one[current] > 0
  BY <1>2, <1>3 DEF VersionsOK
<1>12. VersionsOK(Unref(ws, current), [one EXCEPT ![current] = @ - 1], files)
       /\ DOMAIN Unref(ws, current) \subseteq DOMAIN ws
  BY <1>2, <1>10, <1>11, UnrefCounted
<1>13. QED
  BY <1>4, <1>6, <1>7, <1>12

-----------------------------------------------------------------------------
(* What is picked to be read, compacted and built.                         *)

\* A function on 1 .. n is a sequence.
LEMMA FunctionIsSequence ==
  ASSUME NEW n \in Nat, NEW T, NEW f \in [1 .. n -> T]
  PROVE  f \in Seq(T) /\ Len(f) = n
BY SeqDef, LenProperties

\* The levels a compaction reads and writes exist.
LEMMA LevelTypes ==
  /\ \A level \in 0 .. NumLevels - 2 : level \in Level /\ level + 1 \in Level /\ level \in Nat
  /\ \A level \in 0 .. MaxMemCompactLevel : level \in Level
  /\ 0 \in Level /\ 0 \in 0 .. NumLevels - 2 /\ Level \subseteq Nat
BY ConstantTypes DEF Level

\* The files of a level are finitely many.
LEMMA FilesFinite ==
  ASSUME NEW files \in Seq(Nat)
  PROVE  /\ IsFiniteSet(DOMAIN files) /\ IsFiniteSet(ToSet(files)) /\ ToSet(files) \subseteq Nat
         /\ DOMAIN files = 1 .. Len(files) /\ Len(files) \in Nat
         /\ \A i \in DOMAIN files : files[i] \in ToSet(files)
<1>1. DOMAIN files = 1 .. Len(files) /\ Len(files) \in Nat
  OBVIOUS
<1>2. IsFiniteSet(DOMAIN files)
  BY <1>1, FS_Interval
<1>3. /\ \A i \in DOMAIN files : files[i] \in ToSet(files)
      /\ ToSet(files) \subseteq Nat
  BY DEF ToSet
<1>4. files \in Surjection(DOMAIN files, ToSet(files))
  BY DEF Surjection, ToSet
<1>5. IsFiniteSet(ToSet(files))
  BY <1>2, <1>4, FS_Surjection
<1>6. QED
  BY <1>1, <1>2, <1>3, <1>5

\* FindFile returns an index, past the end if there is no such file.
LEMMA FindFileIsIndex ==
  ASSUME NEW files \in Seq(Nat), NEW k, NEW s
  PROVE  FindFile(files, k, s) \in Nat /\ FindFile(files, k, s) >= 1
<1> DEFINE before == {i \in DOMAIN files : \/ LargeKey(files[i]) < k
                                           \/ LargeKey(files[i]) = k /\ Largest(files[i]) > s}
<1>1. IsFiniteSet(before)
  BY FilesFinite, FS_Subset
<1>2. Cardinality(before) \in Nat
  BY <1>1, FS_CardinalityType
<1>3. FindFile(files, k, s) = Cardinality(before) + 1
  BY DEF FindFile
<1> HIDE DEF before
<1>4. QED
  BY <1>2, <1>3

\* Two files are looked at: the first one is of a level that can be compacted.
LEMMA FirstOverlapping ==
  ASSUME NEW files \in FileMap, NEW k, NEW s, Len(ForEachOverlapping(files, k, s)) >= 2
  PROVE  /\ ForEachOverlapping(files, k, s)[1] \in Place
         /\ SeekIn(files, ForEachOverlapping(files, k, s)[1])
<1> DEFINE level0 == {n \in ToSet(files[0]) : Overlaps(n, k, k)}
           index(level) == FindFile(files[level], k, s)
           deeper == {level \in 1 .. NumLevels - 1 :
                        /\ index(level) <= Len(files[level])
                        /\ SmallKey(files[level][index(level)]) <= k}
           upper == [i \in 1 .. Cardinality(level0) |->
                       [level |-> 0, number |-> Sorted(level0, >)[i]]]
           lower == [i \in 1 .. Cardinality(deeper) |->
                       [level |-> Sorted(deeper, <)[i],
                        number |-> files[Sorted(deeper, <)[i]][index(Sorted(deeper, <)[i])]]]
<1>1. ForEachOverlapping(files, k, s) = upper \o lower
  BY DEF ForEachOverlapping
<1>2. \A level \in Level : files[level] \in Seq(Nat)
  BY DEF FileMap
<1>3. IsFiniteSet(level0) /\ level0 \in SUBSET Nat /\ Cardinality(level0) \in Nat
  <2>1. IsFiniteSet(ToSet(files[0])) /\ ToSet(files[0]) \subseteq Nat
    BY <1>2, LevelTypes, FilesFinite
  <2>2. level0 \in SUBSET ToSet(files[0])
    OBVIOUS
  <2>3. QED
    BY <2>1, <2>2, FS_Subset, FS_CardinalityType
<1>4. IsFiniteSet(deeper) /\ deeper \in SUBSET Nat /\ Cardinality(deeper) \in Nat
  <2>1. IsFiniteSet(1 .. NumLevels - 1) /\ 1 .. NumLevels - 1 \subseteq Nat
    BY ConstantTypes, FS_Interval
  <2>2. deeper \in SUBSET (1 .. NumLevels - 1)
    OBVIOUS
  <2>3. QED
    BY <2>1, <2>2, FS_Subset, FS_CardinalityType
<1>5. \A level \in deeper : /\ level \in Level /\ level >= 1 /\ index(level) \in DOMAIN files[level]
  <2>1. ASSUME NEW level \in deeper
        PROVE  /\ level \in Level /\ level >= 1 /\ index(level) \in DOMAIN files[level]
    <3>1. level \in Level /\ level >= 1 /\ index(level) <= Len(files[level])
      BY ConstantTypes DEF Level
    <3>2. files[level] \in Seq(Nat)
      BY <1>2, <3>1
    <3>3. index(level) \in Nat /\ index(level) >= 1
      BY <3>2, FindFileIsIndex
    <3>4. QED
      BY <3>1, <3>2, <3>3, FilesFinite
  <2>2. QED
    BY <2>1
<1>6. ASSUME NEW i \in 1 .. Cardinality(level0)
      PROVE  upper[i] \in Place /\ SeekIn(files, upper[i])
  <2>1. upper[i] = [level |-> 0, number |-> Sorted(level0, >)[i]]
    OBVIOUS
  <2>2. Sorted(level0, >)[i] \in level0
    BY <1>3, SortedDown
  <2>3. upper[i].level = 0 /\ upper[i].number \in ToSet(files[0]) /\ upper[i].number \in Nat
    BY <1>3, <2>1, <2>2
  <2>4. QED
    BY <2>1, <2>3, LevelTypes DEF Place, SeekIn
<1>7. ASSUME NEW i \in 1 .. Cardinality(deeper)
      PROVE  /\ lower[i] \in Place
             /\ lower[i].level = Sorted(deeper, <)[i] /\ lower[i].level \in deeper
             /\ lower[i].number \in ToSet(files[lower[i].level])
  <2>1. Sorted(deeper, <)[i] \in deeper
    BY <1>4, SortedUp
  <2>2. PICK level \in deeper : level = Sorted(deeper, <)[i]
    BY <2>1
  <2>3. lower[i] = [level |-> level, number |-> files[level][index(level)]]
    BY <2>2
  <2>4. level \in Level /\ level \in Nat /\ index(level) \in DOMAIN files[level]
    BY <1>4, <1>5
  <2>5. files[level][index(level)] \in ToSet(files[level]) /\ ToSet(files[level]) \subseteq Nat
    BY <1>2, <2>4, FilesFinite
  <2>6. QED
    BY <2>2, <2>3, <2>4, <2>5 DEF Place
<1>8. Cardinality(deeper) >= 1 => \A other \in deeper : Sorted(deeper, <)[1] <= other
  BY <1>4, SortedUp
<1>9. upper \in [1 .. Cardinality(level0) -> Place]
  BY <1>6
<1>10. lower \in [1 .. Cardinality(deeper) -> Place]
  BY <1>7
<1>11. \A level \in deeper : level \in 1 .. NumLevels - 1
  OBVIOUS
<1> HIDE DEF upper, lower, level0, deeper, index
<1>12. upper \in Seq(Place) /\ Len(upper) = Cardinality(level0)
  BY <1>3, <1>9, FunctionIsSequence
<1>13. lower \in Seq(Place) /\ Len(lower) = Cardinality(deeper)
  BY <1>4, <1>10, FunctionIsSequence
<1>14. Len(upper \o lower) = Cardinality(level0) + Cardinality(deeper)
  <2>1. Len(upper \o lower) = Len(upper) + Len(lower)
    BY <1>12, <1>13, ConcatProperties
  <2>2. QED
    BY <1>12, <1>13, <2>1
<1>15. CASE Cardinality(level0) >= 1
  <2>1. 1 \in 1 .. Cardinality(level0)
    BY <1>3, <1>15
  <2>2. (upper \o lower)[1] = upper[1]
    BY <1>12, <1>13, <2>1, ConcatProperties
  <2>3. QED
    BY <1>1, <1>6, <2>1, <2>2
<1>16. CASE Cardinality(level0) = 0
  <2>1. Cardinality(deeper) >= 2
    <3>1. Len(upper \o lower) >= 2
      BY <1>1
    <3>2. QED
      BY <1>4, <1>14, <1>16, <3>1
  <2>2. 1 \in 1 .. Cardinality(deeper)
    BY <1>4, <2>1
  <2>3. (upper \o lower)[1] = lower[1]
    BY <1>12, <1>13, <1>16, <2>2, ConcatProperties
  <2>4. /\ lower[1] \in Place /\ lower[1].level \in deeper
        /\ lower[1].number \in ToSet(files[lower[1].level])
        /\ lower[1].level = Sorted(deeper, <)[1]
    BY <1>7, <2>2
  <2>5. PICK other \in deeper : other # lower[1].level
    <3>1. Cardinality({lower[1].level}) = 1
      BY FS_Singleton
    <3>2. Cardinality(deeper) # 1
      BY <1>4, <2>1
    <3>3. deeper # {lower[1].level}
      BY Zenon, <3>1, <3>2
    <3>4. QED
      BY <2>4, <3>3
  <2>6. lower[1].level <= other
    <3>1. Cardinality(deeper) >= 1
      BY <1>4, <2>1
    <3>2. QED
      BY Zenon, <1>8, <2>4, <3>1
  <2>7. lower[1].level \in 0 .. NumLevels - 2
    <3>1. other \in 1 .. NumLevels - 1 /\ lower[1].level \in 1 .. NumLevels - 1
      BY <1>11, <2>4
    <3>2. NumLevels \in Nat
      BY ConstantTypes
    <3>3. QED
      BY <2>5, <2>6, <3>1, <3>2
  <2>8. QED
    BY <1>1, <2>3, <2>4, <2>7 DEF SeekIn
<1>17. QED
  BY <1>3, <1>15, <1>16

\* The inputs of a compaction are files of the level.
LEMMA InputsOverlap ==
  ASSUME NEW files, NEW level, NEW lo, NEW hi
  PROVE  GetOverlappingInputs(files, level, lo, hi) \subseteq ToSet(files[level])
BY DEF GetOverlappingInputs

TreeOK ==
  /\ HistoryOK /\ TablesOK
  /\ Files \in FileMap /\ FilesOf(Files) \subseteq DOMAIN table

\* The files of a level of the current version are on disk.
LEMMA LevelFiles ==
  ASSUME TreeOK, NEW level \in Level
  PROVE  /\ Files[level] \in Seq(Nat) /\ ToSet(Files[level]) \subseteq DOMAIN table
         /\ IsFiniteSet(ToSet(Files[level]))
<1>1. Files[level] \in Seq(Nat)
  BY DEF TreeOK, FileMap
<1>2. ToSet(Files[level]) \subseteq DOMAIN table
  BY DEF TreeOK, FilesOf
<1>3. QED
  BY <1>1, <1>2, FilesFinite

\* TotalFileSize is a number, 0 for no file.
LEMMA SizeIsNumber ==
  ASSUME HistoryOK, TablesOK, NEW ns \in SUBSET DOMAIN table, IsFiniteSet(ns)
  PROVE  TotalFileSize(ns) \in Nat /\ (ns = {} => TotalFileSize(ns) = 0)
<1> DEFINE pairs(n) == {n} \X table[n].entries
           all == {pairs(n) : n \in ns}
<1>1. \A n \in ns : IsFiniteSet(pairs(n))
  <2>1. ASSUME NEW n \in ns
        PROVE  IsFiniteSet(pairs(n))
    <3>1. table[n].entries \in SUBSET Entry
      BY DEF TablesOK
    <3>2. IsFiniteSet(table[n].entries) /\ IsFiniteSet({n})
      BY <3>1, EntryFinite, FS_Singleton
    <3>3. QED
      BY <3>2, FS_Product
  <2>2. QED
    BY <2>1
<1>2. IsFiniteSet(all)
  <2>1. [n \in ns |-> pairs(n)] \in Surjection(ns, all)
    BY DEF Surjection
  <2>2. QED
    BY <2>1, FS_Surjection
<1>3. \A T \in all : IsFiniteSet(T)
  BY <1>1
<1>4. IsFiniteSet(UNION all)
  <2> HIDE DEF all
  <2>1. QED
    BY <1>2, <1>3, FS_UNION
<1>5. Cardinality(UNION all) \in Nat
  BY <1>4, FS_CardinalityType
<1>6. TotalFileSize(ns) = Cardinality(UNION all)
  BY DEF TotalFileSize
<1>7. ns = {} => UNION all = {}
  OBVIOUS
<1> HIDE DEF all
<1>8. QED
  BY <1>5, <1>6, <1>7, FS_EmptySet

\* Finalize: a level without files has the score 0.
LEMMA ScoreIsNumber ==
  ASSUME TreeOK, NEW level \in 0 .. NumLevels - 2
  PROVE  Score(level) \in Nat /\ (Score(level) > 0 => Files[level] # << >>)
<1>1. level \in Level /\ 0 \in Level
  BY LevelTypes
<1>2. L0Trigger \in Nat /\ LevelLimit \in Nat
  BY ConstantTypes
<1>3. \A a \in Nat : 0 * a = 0
  OBVIOUS
<1>4. \A a, b \in Nat : a * b \in Nat
  OBVIOUS
<1>5. CASE level = 0
  <2>1. Files[0] \in Seq(Nat) /\ Len(Files[0]) \in Nat
    BY <1>1, LevelFiles
  <2>2. Score(level) = Len(Files[0]) * LevelLimit
    BY <1>5 DEF Score
  <2>3. Files[0] = << >> => Len(Files[0]) = 0
    OBVIOUS
  <2>4. QED
    BY <1>2, <1>3, <1>4, <1>5, <2>1, <2>2, <2>3
<1>6. CASE level # 0
  <2> DEFINE size == TotalFileSize(ToSet(Files[level]))
  <2>1. size \in Nat /\ (ToSet(Files[level]) = {} => size = 0)
    BY <1>1, LevelFiles, SizeIsNumber DEF TreeOK
  <2>2. Score(level) = size * L0Trigger
    BY <1>6 DEF Score
  <2>3. Files[level] = << >> => ToSet(Files[level]) = {}
    BY DEF ToSet
  <2> HIDE DEF size
  <2>4. QED
    BY <1>2, <1>3, <1>4, <2>1, <2>2, <2>3
<1>7. QED
  BY <1>5, <1>6

\* Some level has the best score.
LEMMA CompactionLevelFound ==
  ASSUME TreeOK
  PROVE  CompactionLevel \in 0 .. NumLevels - 2
<1> DEFINE S == 0 .. NumLevels - 2
           Better(l, m) == Score(l) > Score(m) \/ (Score(l) = Score(m) /\ l < m)
           below == [m \in S |-> {l \in S : Better(l, m)}]
<1>1. S \subseteq Nat /\ IsFiniteSet(S) /\ S # {}
  <2>1. NumLevels - 2 \in Nat
    BY ConstantTypes
  <2>2. QED
    BY <2>1, FS_Interval
<1>2. \A m \in S : m \in Nat /\ Score(m) \in Nat
  BY <1>1, ScoreIsNumber
<1>3. \A m \in S : below[m] = {l \in S : Better(l, m)}
  OBVIOUS
<1>4. below \in [S -> SUBSET S]
  OBVIOUS
<1>5. \A l, m, n \in S : Better(l, m) /\ Better(m, n) => Better(l, n)
  <2>1. ASSUME NEW l \in S, NEW m \in S, NEW n \in S, Better(l, m), Better(m, n)
        PROVE  Better(l, n)
    <3>1. /\ l \in Nat /\ m \in Nat /\ n \in Nat
          /\ Score(l) \in Nat /\ Score(m) \in Nat /\ Score(n) \in Nat
      BY <1>2
    <3>2. QED
      BY <2>1, <3>1
  <2>2. QED
    BY <2>1
<1>6. \A m \in S : ~Better(m, m)
  BY <1>2
<1>7. \A l, m \in S : l # m => Better(l, m) \/ Better(m, l)
  BY <1>2
<1>8. \A l, m \in S : ~Better(m, l) => Score(l) > Score(m) \/ (Score(l) = Score(m) /\ l <= m)
  BY <1>2
<1> HIDE DEF S, below, Better
<1>9. \A m \in S : m \notin below[m]
  BY <1>3, <1>6
<1>10. \A l, m \in S : l \in below[m] => below[l] \subseteq below[m]
  BY <1>3, <1>5
<1>11. \A l, m \in S : l # m => l \in below[m] \/ m \in below[l]
  BY <1>3, <1>7
<1>12. PICK l \in S : below[l] = {}
  BY <1>1, <1>4, <1>9, <1>10, <1>11, FirstTaken
<1>13. \A m \in S : ~Better(m, l)
  BY <1>3, <1>12
<1>14. \E x \in S : \A m \in S : Score(x) > Score(m) \/ (Score(x) = Score(m) /\ x <= m)
  BY <1>8, <1>13
<1>15. QED
  BY <1>14 DEF CompactionLevel, S

\* PickCompaction takes a file of the level.
LEMMA PickedFileIn ==
  ASSUME TreeOK, SeekIn(Files, versions[current].seek), PickedFile # None
  PROVE  PickedFile.level \in 0 .. NumLevels - 2 /\ PickedFile.number \in ToSet(Files[PickedFile.level])
<1>1. CASE ~SizeCompaction
  <2>1. PickedFile = versions[current].seek
    BY <1>1 DEF PickedFile
  <2>2. QED
    BY <2>1 DEF SeekIn
<1>2. CASE SizeCompaction
  <2> DEFINE level == CompactionLevel
             files == Files[level]
             after == {i \in DOMAIN files :
                         \/ compactPointer[level] = 0
                         \/ Before(compactPointer[level], Largest(files[i]))}
             first == CHOOSE i \in after : \A j \in after : i <= j
  <2>1. level \in 0 .. NumLevels - 2 /\ level \in Level
    BY CompactionLevelFound, LevelTypes
  <2>2. Score(level) > 0
    <3>1. L0Trigger * LevelLimit > 0 /\ L0Trigger * LevelLimit \in Nat
      <4>1. \A a, b \in Nat : a > 0 /\ b > 0 => a * b > 0 /\ a * b \in Nat
        OBVIOUS
      <4>2. QED
        BY <4>1, ConstantTypes
    <3>2. Score(level) >= L0Trigger * LevelLimit /\ Score(level) \in Nat
      BY <1>2, <2>1, ScoreIsNumber DEF SizeCompaction
    <3>3. QED
      BY <3>1, <3>2
  <2>3. files \in Seq(Nat) /\ files # << >>
    BY <2>1, <2>2, LevelFiles, ScoreIsNumber
  <2>4. 1 \in DOMAIN files /\ \A i \in DOMAIN files : files[i] \in ToSet(files)
    BY <2>3, FilesFinite
  <2>5. after # {} => first \in DOMAIN files
    <3>1. IsFiniteSet(DOMAIN files) /\ DOMAIN files \subseteq Nat
      BY <2>3, FilesFinite
    <3>2. after \in SUBSET Nat /\ IsFiniteSet(after) /\ after \subseteq DOMAIN files
      BY <3>1, FS_Subset
    <3> HIDE DEF after
    <3>3. after # {} => \E i \in after : \A j \in after : i <= j
      BY <3>2, LeastExists
    <3>4. after # {} => first \in after
      BY <3>3
    <3>5. QED
      BY <3>2, <3>4
  <2>6. PickedFile = [level |-> level, number |-> IF after = {} THEN files[1] ELSE files[first]]
    BY <1>2 DEF PickedFile
  <2> HIDE DEF after, first, files, level
  <2>7. PickedFile.level = level /\ PickedFile.number \in ToSet(files)
    BY <2>4, <2>5, <2>6
  <2>8. QED
    BY <2>1, <2>7 DEF files
<1>3. QED
  BY <1>1, <1>2

\* PickCompaction: what it starts with is of the level it picked.
LEMMA PickedInputsIn ==
  ASSUME NEW p, p.number \in ToSet(Files[p.level])
  PROVE  PickedInputs(p) \subseteq ToSet(Files[p.level])
BY InputsOverlap DEF PickedInputs

\* CompactRange: what it cuts off is of the level asked for.
LEMMA RangeInputsIn ==
  ASSUME TreeOK, NEW m, m.level \in Level
  PROVE  RangeInputs(m) \subseteq ToSet(Files[m.level])
<1> DEFINE inputs == GetOverlappingInputs(Files, m.level, m.begin, m.end)
           found == Sorted(inputs, BySmallestKey)
           enough == {i \in DOMAIN found :
                        TotalFileSize({found[j] : j \in 1 .. i}) >= TargetFileSize}
           least == CHOOSE i \in enough : \A j \in enough : i <= j
           cut == IF m.level = 0 \/ enough = {} THEN Len(found) ELSE least
<1>1. inputs \subseteq ToSet(Files[m.level])
  BY InputsOverlap
<1>2. inputs \in SUBSET DOMAIN table /\ IsFiniteSet(inputs)
  BY <1>1, LevelFiles, FS_Subset
<1>3. found \in Seq(inputs)
  BY <1>2, SortedFiles DEF TreeOK
<1>4. DOMAIN found = 1 .. Len(found) /\ Len(found) \in Nat
  BY <1>3
<1>5. enough # {} => least \in DOMAIN found
  <2>1. IsFiniteSet(DOMAIN found) /\ DOMAIN found \subseteq Nat
    BY <1>4, FS_Interval
  <2>2. enough \in SUBSET Nat /\ IsFiniteSet(enough) /\ enough \subseteq DOMAIN found
    BY <2>1, FS_Subset
  <2> HIDE DEF enough
  <2>3. enough # {} => \E i \in enough : \A j \in enough : i <= j
    BY <2>2, LeastExists
  <2>4. enough # {} => least \in enough
    BY <2>3
  <2>5. QED
    BY <2>2, <2>4
<1>6. RangeInputs(m) = {found[i] : i \in 1 .. cut}
  BY DEF RangeInputs
<1> HIDE DEF inputs, found, enough, least
<1>7. cut \in 0 .. Len(found)
  BY <1>4, <1>5
<1> HIDE DEF cut
<1>8. \A i \in 1 .. cut : found[i] \in inputs
  BY <1>3, <1>4, <1>7
<1>9. QED
  BY <1>1, <1>6, <1>8

\* SetupOtherInputs: the inputs are files of the level and of the next.
LEMMA OtherInputsIn ==
  ASSUME NEW level, NEW in0, in0 \subseteq ToSet(Files[level])
  PROVE  /\ SetupOtherInputs(level, in0).in0 \subseteq ToSet(Files[level])
         /\ SetupOtherInputs(level, in0).in1 \subseteq ToSet(Files[level + 1])
BY InputsOverlap DEF SetupOtherInputs

\* Builder: the files of a level are those of the base, and the added ones.
LEMMA SavedFiles ==
  ASSUME TreeOK, NEW del, NEW add,
         \A level \in Level, n \in FileNo : <<level, n>> \in add => n \in DOMAIN table
  PROVE  SaveTo(Files, del, add) \in FileMap /\ FilesOf(SaveTo(Files, del, add)) \subseteq DOMAIN table
<1> DEFINE kept(level) == {n \in ToSet(Files[level]) : <<level, n>> \notin del}
           added(level) == {n \in FileNo : <<level, n>> \in add}
           map == SaveTo(Files, del, add)
<1>1. map = [level \in Level |-> Sorted(kept(level) \cup added(level), BySmallestKey)]
  BY DEF SaveTo
<1>2. ASSUME NEW level \in Level
      PROVE  map[level] \in Seq(DOMAIN table)
  <2>1. kept(level) \in SUBSET ToSet(Files[level]) /\ added(level) \in SUBSET FileNo
    OBVIOUS
  <2>2. IsFiniteSet(FileNo)
    BY ConstantTypes, FS_Interval DEF FileNo
  <2>3. /\ IsFiniteSet(kept(level)) /\ IsFiniteSet(added(level))
        /\ kept(level) \subseteq DOMAIN table /\ added(level) \subseteq DOMAIN table
    BY <2>1, <2>2, LevelFiles, FS_Subset
  <2> DEFINE S == kept(level) \cup added(level)
  <2>4. S \in SUBSET DOMAIN table /\ IsFiniteSet(S)
    BY <2>3, FS_Union
  <2>5. map[level] = Sorted(S, BySmallestKey)
    BY <1>1
  <2> HIDE DEF S, map
  <2>6. Sorted(S, BySmallestKey) \in Seq(S)
    BY <2>4, SortedFiles DEF TreeOK
  <2>7. QED
    BY <2>4, <2>5, <2>6
<1>3. DOMAIN map = Level /\ map = [level \in Level |-> map[level]]
  BY <1>1
<1> HIDE DEF map
<1>4. DOMAIN table \subseteq Nat
  BY DEF TreeOK, TablesOK
<1>5. \A level \in Level : map[level] \in Seq(Nat) /\ ToSet(map[level]) \subseteq DOMAIN table
  BY <1>2, <1>4 DEF ToSet
<1>6. map \in FileMap
  BY <1>3, <1>5 DEF FileMap
<1>7. FilesOf(map) \subseteq DOMAIN table
  BY <1>5 DEF FilesOf
<1>8. QED
  BY <1>6, <1>7 DEF map

-----------------------------------------------------------------------------
(* The inductive invariant.                                                *)

Holding(readers, v) == {r \in Reader : readers[r] # None /\ readers[r].version = v}
One(b) == IF b THEN 1 ELSE 0
CountsOf(readers, cur, job) ==
  [v \in Nat |-> Cardinality(Holding(readers, v)) + One(cur = v)
                   + One(job # None /\ job.version = v)]
Counts == CountsOf(reader, current, compact)
Readers == [Reader -> {None} \cup Held]

DataOK ==
  /\ HistoryOK /\ LastSequence <= MaxSeq
  /\ mem \subseteq Entry /\ imm \subseteq Entry
  /\ snapshots \in Seq(0 .. LastSequence)

\* What is pending is on disk: the output of a flush, and of the compaction.
FileOK ==
  /\ nextFile \in 1 .. MaxFile + 1 /\ DOMAIN table \subseteq 1 .. nextFile - 1
  /\ TablesOK
  /\ pending \subseteq DOMAIN table
  /\ flush \in Nat /\ (flush # 0 => flush \in pending)

\* The references of a version are the readers that hold it, current_ and the compaction.
HolderTypes ==
  reader \in Readers /\ compact \in {None} \cup Job /\ current \in Nat
HolderOK ==
  /\ HolderTypes
  /\ \A v \in DOMAIN versions : v <= current
  /\ VersionsOK(versions, Counts, DOMAIN table)

ManualShape ==
  manual = [level |-> manual.level, begin |-> manual.begin, end |-> manual.end,
            first |-> manual.first, installed |-> manual.installed, levels |-> manual.levels]
CompactOK ==
  compact # None =>
    /\ compact.level \in 0 .. NumLevels - 2
    /\ compact.outs \subseteq pending /\ flush \notin compact.outs
    /\ compact.rest \in Seq(Entry)
    /\ compact.manual => manual # None /\ manual.installed
ManualOK ==
  manual # None =>
    /\ ManualShape
    /\ manual.levels \in 1 .. NumLevels - 1 /\ manual.level \in -1 .. manual.levels - 1
    /\ manual.installed => manual.level >= 0

IInv == DataOK /\ FileOK /\ HolderOK /\ CompactOK /\ ManualOK

\* The number of holders of a version.
LEMMA CountsAre ==
  ASSUME NEW readers \in Readers, NEW cur, NEW job
  PROVE  /\ \A v \in Nat : IsFiniteSet(Holding(readers, v)) /\ Cardinality(Holding(readers, v)) \in Nat
         /\ CountsOf(readers, cur, job) \in [Nat -> Nat]
         /\ \A v \in Nat : CountsOf(readers, cur, job)[v] =
              Cardinality(Holding(readers, v)) + One(cur = v) + One(job # None /\ job.version = v)
<1>1. ASSUME NEW v \in Nat
      PROVE  IsFiniteSet(Holding(readers, v)) /\ Cardinality(Holding(readers, v)) \in Nat
  <2>1. Holding(readers, v) \in SUBSET Reader /\ IsFiniteSet(Reader)
    BY ConstantTypes DEF Holding
  <2>2. QED
    BY <2>1, FS_Subset, FS_CardinalityType
<1>2. \A b : One(b) \in Nat
  BY DEF One
<1>3. QED
  BY <1>1, <1>2 DEF CountsOf

\* A reader takes, or lets go, a version.
LEMMA ReaderTakes ==
  ASSUME NEW readers \in Readers, NEW r \in Reader, readers[r] = None, NEW h \in Held,
         NEW cur, NEW job
  PROVE  /\ [readers EXCEPT ![r] = h] \in Readers
         /\ CountsOf([readers EXCEPT ![r] = h], cur, job)
              = [CountsOf(readers, cur, job) EXCEPT ![h.version] = @ + 1]
<1> DEFINE more == [readers EXCEPT ![r] = h]
<1>1. more \in Readers /\ h.version \in Nat /\ h # None
  BY ConstantTypes DEF Readers, Held
<1>2. more[r] = h /\ \A q \in Reader : q # r => more[q] = readers[q]
  BY DEF Readers
<1> HIDE DEF more
<1>3. ASSUME NEW v \in Nat
      PROVE  Holding(more, v) = IF v = h.version THEN Holding(readers, v) \cup {r} ELSE Holding(readers, v)
  BY <1>1, <1>2 DEF Holding
<1>4. \A v : r \notin Holding(readers, v)
  BY DEF Holding
<1>5. ASSUME NEW v \in Nat
      PROVE  Cardinality(Holding(more, v))
               = IF v = h.version THEN Cardinality(Holding(readers, v)) + 1
                                  ELSE Cardinality(Holding(readers, v))
  <2>1. IsFiniteSet(Holding(readers, v))
    BY CountsAre
  <2>2. Cardinality(Holding(readers, v) \cup {r}) = Cardinality(Holding(readers, v)) + 1
    BY <1>4, <2>1, FS_AddElement
  <2>3. QED
    BY <1>3, <2>2
<1> DEFINE old == CountsOf(readers, cur, job)
           new == CountsOf(more, cur, job)
<1>6. /\ old \in [Nat -> Nat] /\ new \in [Nat -> Nat]
      /\ \A v \in Nat : /\ old[v] = Cardinality(Holding(readers, v)) + One(cur = v)
                                      + One(job # None /\ job.version = v)
                        /\ new[v] = Cardinality(Holding(more, v)) + One(cur = v)
                                      + One(job # None /\ job.version = v)
  BY <1>1, CountsAre
<1>7. \A v \in Nat : Cardinality(Holding(readers, v)) \in Nat /\ One(cur = v) \in Nat
                       /\ One(job # None /\ job.version = v) \in Nat
  BY CountsAre DEF One
<1> HIDE DEF old, new
<1>8. ASSUME NEW v \in Nat
      PROVE  new[v] = IF v = h.version THEN old[v] + 1 ELSE old[v]
  <2> DEFINE a == Cardinality(Holding(readers, v))
             b == One(cur = v)
             c == One(job # None /\ job.version = v)
  <2>1. a \in Nat /\ b \in Nat /\ c \in Nat
    BY <1>7
  <2>2. old[v] = a + b + c /\ new[v] = Cardinality(Holding(more, v)) + b + c
    BY <1>6
  <2>3. Cardinality(Holding(more, v)) = IF v = h.version THEN a + 1 ELSE a
    BY <1>5
  <2> HIDE DEF a, b, c
  <2>4. QED
    BY <2>1, <2>2, <2>3
<1>9. new = [old EXCEPT ![h.version] = @ + 1]
  BY <1>1, <1>6, <1>8
<1>10. QED
  BY <1>1, <1>9 DEF more, old, new

\* The same for a reader that ends.
LEMMA ReaderDrops ==
  ASSUME NEW readers \in Readers, NEW r \in Reader, readers[r] # None, NEW cur, NEW job
  PROVE  /\ [readers EXCEPT ![r] = None] \in Readers
         /\ CountsOf([readers EXCEPT ![r] = None], cur, job)
              = [CountsOf(readers, cur, job) EXCEPT ![readers[r].version] = @ - 1]
<1> DEFINE less == [readers EXCEPT ![r] = None]
           h == readers[r]
<1>1. less \in Readers /\ h.version \in Nat /\ h \in Held /\ h # None
  BY ConstantTypes DEF Readers, Held
<1>2. less[r] = None /\ \A q \in Reader : q # r => less[q] = readers[q]
  BY DEF Readers
<1>3. r \in Holding(readers, h.version) /\ \A v : v # h.version => r \notin Holding(readers, v)
  BY <1>1 DEF Holding
<1> HIDE DEF less, h
<1>4. ASSUME NEW v \in Nat
      PROVE  Holding(less, v) = Holding(readers, v) \ {r}
  BY <1>1, <1>2 DEF Holding
<1>5. ASSUME NEW v \in Nat
      PROVE  Cardinality(Holding(less, v))
               = IF v = h.version THEN Cardinality(Holding(readers, v)) - 1
                                  ELSE Cardinality(Holding(readers, v))
  <2>1. IsFiniteSet(Holding(readers, v))
    BY CountsAre
  <2>2. Cardinality(Holding(readers, v) \ {r})
          = IF r \in Holding(readers, v) THEN Cardinality(Holding(readers, v)) - 1
                                         ELSE Cardinality(Holding(readers, v))
    BY <2>1, FS_RemoveElement
  <2>3. QED
    BY <1>3, <1>4, <2>2
<1> DEFINE old == CountsOf(readers, cur, job)
           new == CountsOf(less, cur, job)
<1>6. /\ old \in [Nat -> Nat] /\ new \in [Nat -> Nat]
      /\ \A v \in Nat : /\ old[v] = Cardinality(Holding(readers, v)) + One(cur = v)
                                      + One(job # None /\ job.version = v)
                        /\ new[v] = Cardinality(Holding(less, v)) + One(cur = v)
                                      + One(job # None /\ job.version = v)
  BY <1>1, CountsAre
<1>7. \A v \in Nat : Cardinality(Holding(readers, v)) \in Nat /\ One(cur = v) \in Nat
                       /\ One(job # None /\ job.version = v) \in Nat
  BY CountsAre DEF One
<1> HIDE DEF old, new
<1>8. ASSUME NEW v \in Nat
      PROVE  new[v] = IF v = h.version THEN old[v] - 1 ELSE old[v]
  <2> DEFINE a == Cardinality(Holding(readers, v))
             b == One(cur = v)
             c == One(job # None /\ job.version = v)
  <2>1. a \in Nat /\ b \in Nat /\ c \in Nat
    BY <1>7
  <2>2. old[v] = a + b + c /\ new[v] = Cardinality(Holding(less, v)) + b + c
    BY <1>6
  <2>3. Cardinality(Holding(less, v)) = IF v = h.version THEN a - 1 ELSE a
    BY <1>5
  <2> HIDE DEF a, b, c
  <2>4. QED
    BY <2>1, <2>2, <2>3
<1>9. new = [old EXCEPT ![h.version] = @ - 1]
  BY <1>1, <1>6, <1>8
<1>10. QED
  BY <1>1, <1>9 DEF less, old, new, h

\* A holder of a version keeps it alive.
LEMMA HeldAlive ==
  ASSUME HolderOK
  PROVE  /\ current \in DOMAIN versions
         /\ compact # None => compact.version \in DOMAIN versions /\ Counts[compact.version] > 0
         /\ \A r \in Reader : reader[r] # None =>
              reader[r].version \in DOMAIN versions /\ Counts[reader[r].version] > 0
         /\ Counts[current] > 0
<1>1. \A v \in Nat : Counts[v] > 0 => v \in DOMAIN versions
  BY DEF HolderOK, VersionsOK
<1>2. HolderTypes
  BY DEF HolderOK
<1>3. /\ \A v \in Nat : Cardinality(Holding(reader, v)) \in Nat
      /\ \A v \in Nat : IsFiniteSet(Holding(reader, v))
      /\ \A v \in Nat : Counts[v] = Cardinality(Holding(reader, v)) + One(current = v)
                                      + One(compact # None /\ compact.version = v)
  BY <1>2, CountsAre DEF HolderTypes, Counts
<1>4. Counts[current] > 0
  BY <1>2, <1>3 DEF One, HolderTypes
<1>5. compact # None => compact.version \in Nat /\ Counts[compact.version] > 0
  <2>1. compact # None => compact.version \in Nat
    BY <1>2 DEF HolderTypes, Job
  <2>2. QED
    BY <1>3, <2>1 DEF One
<1>6. ASSUME NEW r \in Reader, reader[r] # None
      PROVE  reader[r].version \in Nat /\ Counts[reader[r].version] > 0
  <2>1. reader[r].version \in Nat
    BY <1>2, <1>6 DEF HolderTypes, Held, Readers
  <2>2. r \in Holding(reader, reader[r].version)
    BY <1>6 DEF Holding
  <2>3. Cardinality(Holding(reader, reader[r].version)) # 0
    BY <1>3, <2>1, <2>2, FS_EmptySet
  <2>4. QED
    BY <1>3, <2>1, <2>3 DEF One
<1>7. QED
  BY <1>1, <1>2, <1>4, <1>5, <1>6 DEF HolderTypes

\* The compaction takes, or lets go, its version.
LEMMA JobHolds ==
  ASSUME NEW readers \in Readers, NEW cur, NEW job \in Job
  PROVE  /\ CountsOf(readers, cur, job)
              = [CountsOf(readers, cur, None) EXCEPT ![job.version] = @ + 1]
         /\ CountsOf(readers, cur, None)
              = [CountsOf(readers, cur, job) EXCEPT ![job.version] = @ - 1]
<1> DEFINE without == CountsOf(readers, cur, None)
           with == CountsOf(readers, cur, job)
<1>1. job # None /\ job.version \in Nat
  BY ConstantTypes DEF Job
<1>2. /\ without \in [Nat -> Nat] /\ with \in [Nat -> Nat]
      /\ \A v \in Nat : /\ without[v] = Cardinality(Holding(readers, v)) + One(cur = v)
                                          + One(None # None /\ None.version = v)
                        /\ with[v] = Cardinality(Holding(readers, v)) + One(cur = v)
                                       + One(job # None /\ job.version = v)
  BY CountsAre
<1>3. \A v \in Nat : Cardinality(Holding(readers, v)) \in Nat
  BY CountsAre
<1> HIDE DEF with, without
<1>4. ASSUME NEW v \in Nat
      PROVE  with[v] = IF v = job.version THEN without[v] + 1 ELSE without[v]
  <2> DEFINE a == Cardinality(Holding(readers, v))
             b == One(cur = v)
             c == One(job # None /\ job.version = v)
  <2>1. a \in Nat /\ b \in Nat
    BY <1>3 DEF One
  <2>2. c = IF v = job.version THEN 1 ELSE 0
    BY <1>1 DEF One
  <2>3. One(None # None /\ None.version = v) = 0
    BY DEF One
  <2>4. with[v] = a + b + c /\ without[v] = a + b + 0
    BY <1>2, <2>3
  <2> HIDE DEF a, b, c
  <2>5. QED
    BY <2>1, <2>2, <2>4
<1>5. with = [without EXCEPT ![job.version] = @ + 1]
  BY <1>1, <1>2, <1>4
<1>6. without = [with EXCEPT ![job.version] = @ - 1]
  BY <1>1, <1>2, <1>4
<1>7. QED
  BY <1>5, <1>6 DEF with, without

\* current_ lets go one version for the next.
LEMMA CurrentMoves ==
  ASSUME NEW readers \in Readers, NEW cur \in Nat, NEW job,
         CountsOf(readers, cur, job)[cur + 1] = 0
  PROVE  CountsOf(readers, cur + 1, job)
           = [CountsOf(readers, cur, job) EXCEPT ![cur + 1] = 1, ![cur] = @ - 1]
<1> DEFINE old == CountsOf(readers, cur, job)
           new == CountsOf(readers, cur + 1, job)
<1>1. /\ old \in [Nat -> Nat] /\ new \in [Nat -> Nat]
      /\ \A v \in Nat : /\ old[v] = Cardinality(Holding(readers, v)) + One(cur = v)
                                      + One(job # None /\ job.version = v)
                        /\ new[v] = Cardinality(Holding(readers, v)) + One(cur + 1 = v)
                                      + One(job # None /\ job.version = v)
  BY CountsAre
<1>2. \A v \in Nat : Cardinality(Holding(readers, v)) \in Nat
  BY CountsAre
<1>3. old[cur + 1] = 0
  OBVIOUS
<1> HIDE DEF old, new
<1>4. ASSUME NEW v \in Nat
      PROVE  new[v] = IF v = cur THEN old[v] - 1 ELSE IF v = cur + 1 THEN 1 ELSE old[v]
  <2> DEFINE a == Cardinality(Holding(readers, v))
             c == One(job # None /\ job.version = v)
  <2>1. a \in Nat /\ c \in Nat
    BY <1>2 DEF One
  <2>2. /\ One(cur = v) = IF v = cur THEN 1 ELSE 0
        /\ One(cur + 1 = v) = IF v = cur + 1 THEN 1 ELSE 0
    BY DEF One
  <2>3. /\ old[v] = a + (IF v = cur THEN 1 ELSE 0) + c
        /\ new[v] = a + (IF v = cur + 1 THEN 1 ELSE 0) + c
    BY <1>1, <2>2
  <2> HIDE DEF a, c
  <2>4. QED
    BY <1>3, <2>1, <2>3
<1>5. new = [old EXCEPT ![cur + 1] = 1, ![cur] = @ - 1]
  BY <1>1, <1>4
<1>6. QED
  BY <1>5 DEF old, new

-----------------------------------------------------------------------------
(* Steps.                                                                  *)

\* The invariant gives what the lemmas about the tree need.
LEMMA TreeThere ==
  ASSUME IInv
  PROVE  TreeOK /\ SeekIn(Files, versions[current].seek)
<1>1. current \in DOMAIN versions
  BY HeldAlive DEF IInv
<1>2. /\ versions[current] \in Version /\ FilesOf(versions[current].files) \subseteq DOMAIN table
      /\ SeekIn(versions[current].files, versions[current].seek)
  BY <1>1 DEF IInv, HolderOK, VersionsOK
<1>3. QED
  BY <1>2 DEF IInv, DataOK, FileOK, TreeOK, Files, Version

\* AddLiveFiles finds only files on disk.
LEMMA LiveFiles ==
  ASSUME NEW vs, NEW count, NEW files, VersionsOK(vs, count, files)
  PROVE  AddLiveFiles(vs) \subseteq files
BY DEF VersionsOK, AddLiveFiles

\* Nothing is wrong with fewer files as long as the live ones are among them.
LEMMA LiveFilesStay ==
  ASSUME NEW vs, NEW count, NEW files, VersionsOK(vs, count, files),
         NEW fewer, AddLiveFiles(vs) \subseteq fewer
  PROVE  VersionsOK(vs, count, fewer)
<1>1. \A v \in DOMAIN vs : FilesOf(vs[v].files) \subseteq fewer
  BY DEF AddLiveFiles
<1>2. QED
  BY <1>1 DEF VersionsOK

\* DeleteObsoleteFiles keeps what is pending or in a version.
LEMMA TablesKept ==
  ASSUME NEW vs, NEW v, NEW pend, pend \cup AddLiveFiles(vs) \subseteq DOMAIN table,
         NEW tab, tab = KeptTables(table, vs, v, pend)
  PROVE  /\ DOMAIN tab \subseteq DOMAIN table /\ \A n \in DOMAIN tab : tab[n] = table[n]
         /\ pend \cup AddLiveFiles(vs) \subseteq DOMAIN tab
BY DEF KeptTables

\* A version is installed.
LEMMA InstallWorks ==
  ASSUME IInv, NEW map \in FileMap, FilesOf(map) \subseteq DOMAIN table,
         NEW pend \in SUBSET DOMAIN table, NEW delete, NEW unref,
         unref = None \/ (compact # None /\ unref = compact.version),
         Install(map, unref, pend, delete)
  PROVE  /\ current' = current + 1 /\ pending' = pend
         /\ DOMAIN table' \subseteq DOMAIN table /\ \A n \in DOMAIN table' : table'[n] = table[n]
         /\ pend \subseteq DOMAIN table'
         /\ \A v \in DOMAIN versions' : v <= current'
         /\ VersionsOK(versions', CountsOf(reader, current + 1, IF unref = None THEN compact ELSE None),
                       DOMAIN table')
<1> DEFINE appended == AppendVersion(versions, map)
           vs == IF unref = None THEN appended ELSE Unref(appended, unref)
           moved == CountsOf(reader, current + 1, compact)
           count == CountsOf(reader, current + 1, IF unref = None THEN compact ELSE None)
<1>1. /\ VersionsOK(versions, Counts, DOMAIN table) /\ HolderTypes
      /\ \A v \in DOMAIN versions : v <= current
      /\ current \in DOMAIN versions /\ current \in Nat /\ DOMAIN versions \subseteq Nat
  BY HeldAlive DEF IInv, HolderOK, VersionsOK, HolderTypes
<1>2. reader \in Readers /\ compact \in {None} \cup Job
  BY <1>1 DEF HolderTypes
<1>3. Counts[current + 1] = 0
  BY <1>1 DEF VersionsOK
<1>4. moved = [Counts EXCEPT ![current + 1] = 1, ![current] = @ - 1]
  BY <1>1, <1>2, <1>3, CurrentMoves DEF Counts
<1>5. /\ VersionsOK(appended, moved, DOMAIN table)
      /\ DOMAIN appended \subseteq DOMAIN versions \cup {current + 1}
  BY <1>1, <1>4, AppendCounted
<1>6. VersionsOK(vs, count, DOMAIN table) /\ DOMAIN vs \subseteq DOMAIN versions \cup {current + 1}
  <2>1. CASE unref = None
    BY <1>5, <2>1
  <2>2. CASE unref # None
    <3>1. compact \in Job /\ unref = compact.version /\ unref \in Nat
      BY <1>2, <2>2 DEF Job
    <3>2. moved[unref] > 0
      <4>1. \A v \in Nat : moved[v] = Cardinality(Holding(reader, v)) + One(current + 1 = v)
                                        + One(compact # None /\ compact.version = v)
        BY <1>2, CountsAre
      <4>2. Cardinality(Holding(reader, unref)) \in Nat /\ One(current + 1 = unref) \in Nat
        BY <1>2, <3>1, CountsAre DEF One
      <4>3. One(compact # None /\ compact.version = unref) = 1
        BY <3>1, ConstantTypes DEF One
      <4> HIDE DEF moved
      <4>4. QED
        BY <3>1, <4>1, <4>2, <4>3
    <3>3. count = [moved EXCEPT ![unref] = @ - 1]
      BY <1>2, <2>2, <3>1, JobHolds
    <3> HIDE DEF moved, appended
    <3>4. /\ VersionsOK(Unref(appended, unref), [moved EXCEPT ![unref] = @ - 1], DOMAIN table)
          /\ DOMAIN Unref(appended, unref) \subseteq DOMAIN appended
      BY <1>5, <3>1, <3>2, UnrefCounted
    <3>5. QED
      BY <1>5, <2>2, <3>3, <3>4
  <2>3. QED
    BY <2>1, <2>2
<1>7. /\ versions' = vs /\ current' = current + 1 /\ pending' = pend
      /\ table' = IF delete THEN KeptTables(table, vs, current + 1, pend) ELSE table
  BY DEF Install
<1> HIDE DEF vs, count
<1>8. pend \cup AddLiveFiles(vs) \subseteq DOMAIN table
  BY <1>6, LiveFiles
<1>9. /\ DOMAIN table' \subseteq DOMAIN table /\ \A n \in DOMAIN table' : table'[n] = table[n]
      /\ pend \cup AddLiveFiles(vs) \subseteq DOMAIN table'
  <2>1. CASE delete
    BY <1>7, <1>8, <2>1, TablesKept
  <2>2. CASE ~delete
    BY <1>7, <1>8, <2>2
  <2>3. QED
    BY <2>1, <2>2
<1>10. VersionsOK(versions', count, DOMAIN table')
  BY <1>6, <1>7, <1>9, LiveFilesStay
<1>11. \A v \in DOMAIN versions' : v <= current'
  BY <1>1, <1>6, <1>7
<1>12. QED
  BY <1>7, <1>9, <1>10, <1>11 DEF count

\* A sequence over a set is one over a larger set.
LEMMA SeqGrows ==
  ASSUME NEW S, NEW T, S \subseteq T, NEW q \in Seq(S)
  PROVE  q \in Seq(T)
<1>1. Len(q) \in Nat /\ q \in [1 .. Len(q) -> S]
  BY LenProperties
<1>2. q \in [1 .. Len(q) -> T]
  BY <1>1
<1>3. QED
  BY <1>1, <1>2, FunctionIsSequence

\* History only grows.
LEMMA DataStep ==
  ASSUME DataOK, [Next]_vars
  PROVE  DataOK' /\ Entry \subseteq Entry'
<1>1. /\ history \in Seq([key : Key, del : BOOLEAN]) /\ LastSequence \in Nat
      /\ mem \subseteq Entry /\ imm \subseteq Entry /\ LastSequence <= MaxSeq
      /\ snapshots \in Seq(0 .. LastSequence)
  BY DEF DataOK, HistoryOK, LastSequence
<1>2. ASSUME NEW k \in Key, NEW del \in BOOLEAN, Write(k, del)
      PROVE  DataOK' /\ Entry \subseteq Entry'
  <2>1. history' = Append(history, [key |-> k, del |-> del])
    BY <1>2 DEF Write
  <2>2. HistoryOK' /\ LastSequence' = LastSequence + 1
    BY <1>1, <2>1 DEF HistoryOK, LastSequence
  <2>3. LastSequence' <= MaxSeq
    BY <1>1, <1>2, <2>2, ConstantTypes DEF Write
  <2>4. Entry \subseteq Entry' /\ LastSequence + 1 \in Entry' /\ 0 .. LastSequence \subseteq 0 .. LastSequence'
    BY <1>1, <2>2 DEF Entry
  <2>5. mem' = mem \cup {LastSequence + 1} /\ imm' = imm /\ snapshots' = snapshots
    BY <1>2 DEF Write, clientVars
  <2>6. snapshots' \in Seq(0 .. LastSequence')
    BY <1>1, <2>4, <2>5, SeqGrows
  <2>7. QED
    BY <1>1, <2>2, <2>3, <2>4, <2>5, <2>6 DEF DataOK
<1>3. ASSUME history' = history, mem' \subseteq Entry, imm' \subseteq Entry,
             snapshots' \in Seq(0 .. LastSequence)
      PROVE  DataOK' /\ Entry \subseteq Entry'
  BY <1>1, <1>3 DEF DataOK, HistoryOK, LastSequence, Entry
<1>4. ASSUME UNCHANGED dataVars, UNCHANGED snapshots
      PROVE  DataOK' /\ Entry \subseteq Entry'
  BY <1>1, <1>3, <1>4 DEF dataVars
<1>5. CASE SwitchMemTable
  BY <1>1, <1>3, <1>5 DEF SwitchMemTable, clientVars
<1>6. CASE GetSnapshot
  <2>1. snapshots' \in Seq(0 .. LastSequence)
    BY <1>1, <1>6 DEF GetSnapshot
  <2>2. QED
    BY <1>1, <1>3, <1>6, <2>1 DEF GetSnapshot, dataVars
<1>7. ASSUME NEW i \in DOMAIN snapshots, ReleaseSnapshot(i)
      PROVE  DataOK' /\ Entry \subseteq Entry'
  <2>1. i \in 1 .. Len(snapshots) /\ Len(snapshots) \in Nat
    BY <1>1
  <2>2. /\ SubSeq(snapshots, 1, i - 1) \in Seq(0 .. LastSequence)
        /\ SubSeq(snapshots, i + 1, Len(snapshots)) \in Seq(0 .. LastSequence)
    BY <1>1, <2>1
  <2>3. snapshots' \in Seq(0 .. LastSequence)
    BY <1>1, <1>7, <2>1, <2>2, ConcatProperties DEF ReleaseSnapshot, RemoveAt
  <2>4. QED
    BY <1>1, <1>3, <1>7, <2>3 DEF ReleaseSnapshot, dataVars
<1>8. ASSUME NEW r \in Reader, NEW s \in 0 .. MaxSeq, BeginRead(r, s)
      PROVE  DataOK' /\ Entry \subseteq Entry'
  BY <1>4, <1>8 DEF BeginRead
<1>9. ASSUME NEW r \in Reader, NEW k \in Key, EndGet(r, k)
      PROVE  DataOK' /\ Entry \subseteq Entry'
  BY <1>4, <1>9 DEF EndGet
<1>10. ASSUME NEW r \in Reader, EndRead(r)
       PROVE  DataOK' /\ Entry \subseteq Entry'
  BY <1>4, <1>10 DEF EndRead
<1>11. ASSUME NEW e \in 1 .. LastSequence, RecordReadSample(e)
       PROVE  DataOK' /\ Entry \subseteq Entry'
  BY <1>4, <1>11 DEF RecordReadSample, clientVars
<1>12. ASSUME NEW lo \in RangeBegin, NEW hi \in RangeEnd, CompactRange(lo, hi)
       PROVE  DataOK' /\ Entry \subseteq Entry'
  BY <1>1, <1>3, <1>12 DEF CompactRange
<1>13. CASE InstallManual
  BY <1>4, <1>13 DEF InstallManual, clientVars
<1>14. CASE BeginFlush
  BY <1>4, <1>14 DEF BeginFlush, clientVars
<1>15. CASE EndFlush
  BY <1>1, <1>3, <1>15 DEF EndFlush, clientVars
<1>16. CASE AutomaticCompaction
  BY <1>4, <1>16 DEF AutomaticCompaction, StartCompaction, clientVars
<1>17. CASE ManualCompaction
  BY <1>4, <1>17 DEF ManualCompaction, StartCompaction, clientVars
<1>18. CASE ManualDone
  BY <1>4, <1>18 DEF ManualDone, clientVars
<1>19. ASSUME NEW cut \in DOMAIN compact.rest, CompactionOutput(cut)
       PROVE  DataOK' /\ Entry \subseteq Entry'
  BY <1>4, <1>19 DEF CompactionOutput, clientVars
<1>20. CASE CompactionDone
  BY <1>4, <1>20 DEF CompactionDone, clientVars
<1>21. CASE FlushFails
  BY <1>4, <1>21 DEF FlushFails
<1>22. CASE CompactionFails
  BY <1>4, <1>22 DEF CompactionFails
<1>23. CASE UNCHANGED vars
  BY <1>4, <1>23 DEF vars, dataVars
<1>24. QED
  BY <1>2, <1>5, <1>6, <1>7, <1>8, <1>9, <1>10, <1>11, <1>12, <1>13, <1>14, <1>15, <1>16, <1>17,
     <1>18, <1>19, <1>20, <1>21, <1>22, <1>23 DEF Next, Background

\* Tables do not change.
LEMMA TablesSame ==
  ASSUME TablesOK, Entry \subseteq Entry', DOMAIN table' \subseteq DOMAIN table,
         \A n \in DOMAIN table' : table'[n] = table[n]
  PROVE  TablesOK'
BY DEF TablesOK, TableType

\* A table is made of entries.
LEMMA TableMade ==
  ASSUME DataOK, FileOK, NEW S \in SUBSET Entry, S # {}, nextFile <= MaxFile,
         nextFile' = nextFile + 1, UNCHANGED history,
         table' = TablesWith(S), pending' = pending \cup {nextFile}
  PROVE  /\ nextFile' \in 1 .. MaxFile + 1 /\ nextFile \in FileNo /\ nextFile \notin pending
         /\ DOMAIN table' = DOMAIN table \cup {nextFile} /\ DOMAIN table' \subseteq 1 .. nextFile' - 1
         /\ TablesOK' /\ pending' \subseteq DOMAIN table'
<1>1. /\ nextFile \in 1 .. MaxFile + 1 /\ DOMAIN table \subseteq 1 .. nextFile - 1
      /\ MaxFile \in Nat /\ TablesOK /\ pending \subseteq DOMAIN table
  BY ConstantTypes DEF FileOK
<1>2. nextFile \in Nat /\ nextFile \notin DOMAIN table
  BY <1>1
<1>3. /\ DOMAIN table' = DOMAIN table \cup {nextFile}
      /\ \A n \in DOMAIN table' : table'[n] = IF n = nextFile THEN Table(S) ELSE table[n]
  BY DEF TablesWith
<1>4. First(S) \in S /\ Final(S) \in S
  BY FirstFinal DEF DataOK
<1>5. S \subseteq Nat /\ Entry' = Entry
  BY DEF Entry, LastSequence, DataOK, HistoryOK
<1>6. /\ Table(S) \in TableType /\ Table(S).entries = S
      /\ Table(S).smallest \in Entry /\ Table(S).largest \in Entry
  BY <1>4, <1>5 DEF Table, TableType
<1>7. TablesOK'
  <2>1. DOMAIN table' \subseteq Nat
    BY <1>2, <1>3 DEF TablesOK, FileOK
  <2>2. ASSUME NEW n \in DOMAIN table'
        PROVE  /\ table'[n] \in TableType
               /\ table'[n].entries \subseteq Entry' /\ table'[n].entries # {}
               /\ table'[n].smallest \in Entry' /\ table'[n].largest \in Entry'
    <3>1. CASE n = nextFile
      BY <1>3, <1>5, <1>6, <3>1
    <3>2. CASE n # nextFile
      BY <1>1, <1>3, <1>5, <3>2 DEF TablesOK
    <3>3. QED
      BY <3>1, <3>2
  <2>3. QED
    BY <2>1, <2>2 DEF TablesOK, TableType
<1>8. QED
  BY <1>1, <1>2, <1>3, <1>7 DEF FileNo

\* What an action leaves alone.
LEMMA FilesQuiet ==
  ASSUME FileOK, Entry \subseteq Entry', UNCHANGED <<table, nextFile, pending, flush>>
  PROVE  FileOK'
<1>1. TablesOK'
  BY TablesSame DEF FileOK
<1>2. QED
  BY <1>1 DEF FileOK

\* Likewise for the holders of versions,
LEMMA HoldersQuiet ==
  ASSUME HolderOK, UNCHANGED <<table, versions, current, reader, compact>>
  PROVE  HolderOK'
<1>1. Counts' = Counts /\ HolderTypes'
  BY DEF Counts, HolderOK, HolderTypes
<1>2. QED
  BY <1>1 DEF HolderOK

\* for the compaction,
LEMMA CompactQuiet ==
  ASSUME CompactOK, Entry \subseteq Entry', UNCHANGED <<pending, flush, compact, manual>>
  PROVE  CompactOK'
<1>1. compact # None => compact.rest \in Seq(Entry')
  BY SeqGrows DEF CompactOK
<1>2. QED
  BY <1>1 DEF CompactOK

\* and for the manual compaction.
LEMMA ManualQuiet ==
  ASSUME ManualOK, UNCHANGED manual
  PROVE  ManualOK'
BY DEF ManualOK, ManualShape

\* Writes and snapshots do not touch files.
LEMMA WritesQuiet ==
  ASSUME IInv, DataOK', Entry \subseteq Entry',
         UNCHANGED <<table, versions, current, nextFile, pending, reader, flush, compact, manual>>
  PROVE  IInv'
<1>1. FileOK' /\ HolderOK' /\ CompactOK' /\ ManualOK'
  BY FilesQuiet, HoldersQuiet, CompactQuiet, ManualQuiet DEF IInv
<1>2. QED
  BY <1>1 DEF IInv

\* What a step of a reader does: it changes references.
LEMMA ReadersStep ==
  ASSUME IInv, DataOK', Entry \subseteq Entry',
         UNCHANGED <<table, current, nextFile, pending, flush, compact, manual>>,
         reader' \in Readers,
         DOMAIN versions' \subseteq DOMAIN versions,
         VersionsOK(versions', CountsOf(reader', current, compact), DOMAIN table)
  PROVE  IInv'
<1>1. FileOK' /\ CompactOK' /\ ManualOK'
  BY FilesQuiet, CompactQuiet, ManualQuiet DEF IInv
<1>2. HolderTypes'
  BY DEF HolderTypes, HolderOK, IInv, Readers
<1>3. \A v \in DOMAIN versions' : v <= current'
  BY DEF HolderOK, IInv
<1>4. VersionsOK(versions', Counts', DOMAIN table')
  BY DEF Counts
<1>5. HolderOK'
  BY <1>2, <1>3, <1>4 DEF HolderOK
<1>6. QED
  BY <1>1, <1>5 DEF IInv

\* A read or an iterator takes the current version.
LEMMA BeginReadStep ==
  ASSUME IInv, DataOK', Entry \subseteq Entry', NEW r \in Reader, NEW s \in 0 .. MaxSeq,
         BeginRead(r, s)
  PROVE  IInv'
<1> DEFINE h == [seq |-> s, mem |-> mem, imm |-> imm, version |-> current]
<1>1. /\ current \in DOMAIN versions /\ HolderTypes
      /\ VersionsOK(versions, Counts, DOMAIN table)
  BY HeldAlive DEF IInv, HolderOK
<1>2. h \in Held /\ h.version = current
  <2>1. mem \subseteq Nat /\ imm \subseteq Nat
    BY DEF IInv, DataOK, Entry
  <2>2. current \in Nat /\ s \in Nat
    BY <1>1, ConstantTypes DEF HolderTypes
  <2>3. QED
    BY <2>1, <2>2 DEF Held
<1>3. /\ reader[r] = None /\ reader' = [reader EXCEPT ![r] = h]
      /\ versions' = Ref(versions, current)
      /\ UNCHANGED <<table, current, nextFile, pending, flush, compact, manual>>
  BY DEF BeginRead, fileVars
<1> HIDE DEF h
<1>4. reader \in Readers
  BY <1>1 DEF HolderTypes
<1>5. /\ reader' \in Readers
      /\ CountsOf(reader', current, compact) = [Counts EXCEPT ![current] = @ + 1]
  <2>1. /\ [reader EXCEPT ![r] = h] \in Readers
        /\ CountsOf([reader EXCEPT ![r] = h], current, compact)
             = [CountsOf(reader, current, compact) EXCEPT ![h.version] = @ + 1]
    <3>1. reader[r] = None /\ h \in Held
      BY <1>2, <1>3
    <3>2. QED
      BY <1>4, <3>1, ReaderTakes
  <2>2. QED
    BY <1>2, <1>3, <2>1 DEF Counts
<1>6. /\ VersionsOK(versions', [Counts EXCEPT ![current] = @ + 1], DOMAIN table)
      /\ DOMAIN versions' = DOMAIN versions
  BY <1>1, <1>3, RefCounted
<1>7. QED
  BY <1>3, <1>5, <1>6, ReadersStep

\* It lets go of it,
LEMMA EndReadStep ==
  ASSUME IInv, DataOK', Entry \subseteq Entry', NEW r \in Reader, EndRead(r)
  PROVE  IInv'
<1> DEFINE v == reader[r].version
<1>1. HolderTypes /\ VersionsOK(versions, Counts, DOMAIN table)
  BY DEF IInv, HolderOK
<1>2. /\ reader[r] # None /\ reader' = [reader EXCEPT ![r] = None]
      /\ versions' = Unref(versions, v)
      /\ UNCHANGED <<table, current, nextFile, pending, flush, compact, manual>>
  BY DEF EndRead, fileVars
<1>3. v \in DOMAIN versions /\ Counts[v] > 0
  BY <1>2, HeldAlive DEF IInv
<1>4. v \in Nat
  BY <1>1, <1>3 DEF VersionsOK
<1>5. /\ reader' \in Readers
      /\ CountsOf(reader', current, compact) = [Counts EXCEPT ![v] = @ - 1]
  BY <1>1, <1>2, ReaderDrops DEF Counts, HolderTypes
<1> HIDE DEF v
<1>6. /\ VersionsOK(versions', [Counts EXCEPT ![v] = @ - 1], DOMAIN table)
      /\ DOMAIN versions' \subseteq DOMAIN versions
  BY <1>1, <1>2, <1>3, <1>4, UnrefCounted
<1>7. QED
  BY <1>2, <1>5, <1>6, ReadersStep

\* having charged a seek to a file of that version or not.
LEMMA EndGetStep ==
  ASSUME IInv, DataOK', Entry \subseteq Entry', NEW r \in Reader, NEW k \in Key, EndGet(r, k)
  PROVE  IInv'
<1> DEFINE v == reader[r].version
           files == versions[v].files
           seek == SeekFile(files, k, reader[r].seq)
           charged == UpdateStats(versions, v, seek)
<1>1. HolderTypes /\ VersionsOK(versions, Counts, DOMAIN table)
  BY DEF IInv, HolderOK
<1>2. /\ reader[r] # None /\ reader' = [reader EXCEPT ![r] = None]
      /\ versions' = Unref(charged, v) /\ seek # None
      /\ UNCHANGED <<table, current, nextFile, pending, flush, compact, manual>>
  BY DEF EndGet, fileVars
<1>3. v \in DOMAIN versions /\ Counts[v] > 0
  BY <1>2, HeldAlive DEF IInv
<1>4. v \in Nat /\ files \in FileMap
  BY <1>1, <1>3 DEF VersionsOK, Version
<1>5. seek \in Place /\ SeekIn(files, seek)
  <2> DEFINE seq == ForEachOverlapping(files, k, reader[r].seq)
  <2>1. Len(seq) >= 2 /\ seek = seq[1]
    BY <1>2 DEF SeekFile
  <2> HIDE DEF seek, files
  <2>2. QED
    BY <1>4, <2>1, FirstOverlapping
<1> HIDE DEF seek
<1>6. VersionsOK(charged, Counts, DOMAIN table) /\ DOMAIN charged = DOMAIN versions
  BY <1>1, <1>3, <1>5, StatsCounted
<1>7. /\ reader' \in Readers
      /\ CountsOf(reader', current, compact) = [Counts EXCEPT ![v] = @ - 1]
  BY <1>1, <1>2, ReaderDrops DEF Counts, HolderTypes
<1> HIDE DEF v, charged, files
<1>8. /\ VersionsOK(versions', [Counts EXCEPT ![v] = @ - 1], DOMAIN table)
      /\ DOMAIN versions' \subseteq DOMAIN versions
  BY <1>2, <1>3, <1>4, <1>6, UnrefCounted
<1>9. QED
  BY <1>2, <1>7, <1>8, ReadersStep

\* RecordReadSample charges one to a file of the current version.
LEMMA SampleStep ==
  ASSUME IInv, DataOK', Entry \subseteq Entry', NEW e, RecordReadSample(e)
  PROVE  IInv'
<1> DEFINE seq == ForEachOverlapping(Files, UserKey(e), e)
<1>1. /\ current \in DOMAIN versions /\ HolderTypes
      /\ VersionsOK(versions, Counts, DOMAIN table)
  BY HeldAlive DEF IInv, HolderOK
<1>2. /\ Len(seq) >= 2 /\ versions' = UpdateStats(versions, current, seq[1])
      /\ UNCHANGED <<reader, table, current, nextFile, pending, flush, compact, manual>>
  BY DEF RecordReadSample, fileVars, clientVars
<1>3. Files \in FileMap
  BY <1>1 DEF VersionsOK, Version, Files
<1>4. seq[1] \in Place /\ SeekIn(versions[current].files, seq[1])
  BY <1>2, <1>3, FirstOverlapping DEF Files
<1> HIDE DEF seq
<1>5. VersionsOK(versions', Counts, DOMAIN table) /\ DOMAIN versions' = DOMAIN versions
  BY <1>1, <1>2, <1>4, StatsCounted
<1>6. reader' \in Readers /\ CountsOf(reader', current, compact) = Counts
  BY <1>1, <1>2 DEF HolderTypes, Counts
<1>7. QED
  BY <1>2, <1>5, <1>6, ReadersStep

\* CompactRange finds levels to compact.
LEMMA CompactRangeStep ==
  ASSUME IInv, DataOK', Entry \subseteq Entry', NEW lo, NEW hi, CompactRange(lo, hi)
  PROVE  IInv'
<1> DEFINE reach == {1} \cup {level \in Level \ {0} : OverlapInLevel(Files, level, lo, hi)}
           last == CHOOSE level \in reach : \A l \in reach : level >= l
<1>1. /\ manual = None
      /\ manual' = [level |-> -1, begin |-> lo, end |-> hi, first |-> lo, installed |-> FALSE,
                    levels |-> last]
      /\ UNCHANGED <<table, versions, current, nextFile, pending, reader, flush, compact>>
  BY DEF CompactRange, treeVars, fileVars
<1>2. 1 \in reach /\ reach \subseteq 1 .. NumLevels - 1
  BY ConstantTypes DEF Level
<1>3. last \in 1 .. NumLevels - 1
  <2> HIDE DEF reach
  <2>1. IsFiniteSet(1 .. NumLevels - 1) /\ 1 .. NumLevels - 1 \subseteq Nat
    BY ConstantTypes, FS_Interval
  <2>2. IsFiniteSet(reach) /\ reach \in SUBSET Nat
    BY <1>2, <2>1, FS_Subset
  <2>3. last \in reach
    BY <1>2, <2>2, GreatestExists
  <2>4. QED
    BY <1>2, <2>3
<1> HIDE DEF last
<1>4. ManualOK'
  BY <1>1, <1>3 DEF ManualOK, ManualShape
<1>5. CompactOK'
  <2>1. compact # None => ~compact.manual /\ compact.rest \in Seq(Entry')
    BY <1>1, SeqGrows DEF IInv, CompactOK
  <2>2. QED
    BY <1>1, <2>1 DEF IInv, CompactOK
<1>6. FileOK' /\ HolderOK'
  BY <1>1, FilesQuiet, HoldersQuiet DEF IInv
<1>7. QED
  BY <1>4, <1>5, <1>6 DEF IInv

\* A manual compaction goes on to a level that has one below it, or ends.
LEMMA NextLevelOK ==
  ASSUME ManualOK, manual # None, manual' = NextLevel(manual)
  PROVE  ManualOK'
<1>1. /\ ManualShape
      /\ manual.levels \in 1 .. NumLevels - 1 /\ manual.level \in -1 .. manual.levels - 1
  BY DEF ManualOK
<1>2. CASE manual.level + 1 = manual.levels
  BY <1>2 DEF NextLevel, ManualOK
<1>3. CASE manual.level + 1 # manual.levels
  <2>1. manual' = [level |-> manual.level + 1, begin |-> manual.first, end |-> manual.end,
                   first |-> manual.first, installed |-> TRUE, levels |-> manual.levels]
    BY <1>1, <1>3 DEF NextLevel, ManualShape
  <2>2. manual.level + 1 \in 0 .. manual.levels - 1
    BY <1>1, <1>3, ConstantTypes
  <2>3. QED
    BY <1>1, <2>1, <2>2 DEF ManualOK, ManualShape
<1>4. QED
  BY <1>2, <1>3

\* TEST_CompactRange installs its ManualCompaction.
LEMMA InstallManualStep ==
  ASSUME IInv, DataOK', Entry \subseteq Entry', InstallManual
  PROVE  IInv'
<1>1. /\ manual # None /\ ~manual.installed
      /\ UNCHANGED <<table, versions, current, nextFile, pending, reader, flush, compact>>
  BY DEF InstallManual, treeVars, fileVars, clientVars
<1>2. ManualOK'
  <2>1. CASE manual.level = -1
    BY <1>1, <2>1, NextLevelOK DEF InstallManual, IInv
  <2>2. CASE manual.level # -1
    <3>1. manual' = [manual EXCEPT !.installed = TRUE]
      BY <2>2 DEF InstallManual
    <3>2. /\ ManualShape
          /\ manual.levels \in 1 .. NumLevels - 1 /\ manual.level \in -1 .. manual.levels - 1
      BY <1>1 DEF IInv, ManualOK
    <3>3. manual' = [level |-> manual.level, begin |-> manual.begin, end |-> manual.end,
                     first |-> manual.first, installed |-> TRUE, levels |-> manual.levels]
      BY <3>1, <3>2 DEF ManualShape
    <3>4. manual.level >= 0
      BY <2>2, <3>2, ConstantTypes
    <3>5. QED
      BY <3>2, <3>3, <3>4 DEF ManualOK, ManualShape
  <2>3. QED
    BY <2>1, <2>2
<1>3. CompactOK'
  <2>1. compact # None => ~compact.manual /\ compact.rest \in Seq(Entry')
    BY <1>1, SeqGrows DEF IInv, CompactOK
  <2>2. QED
    BY <1>1, <2>1 DEF IInv, CompactOK
<1>4. FileOK' /\ HolderOK'
  BY <1>1, FilesQuiet, HoldersQuiet DEF IInv
<1>5. QED
  BY <1>2, <1>3, <1>4 DEF IInv

\* A manual compaction finds nothing more at its level.
LEMMA ManualDoneStep ==
  ASSUME IInv, DataOK', Entry \subseteq Entry', ManualDone
  PROVE  IInv'
<1>1. /\ manual # None /\ manual' = NextLevel(manual) /\ compact = None
      /\ UNCHANGED <<table, versions, current, nextFile, pending, reader, flush, compact>>
  BY DEF ManualDone, Idle, ManualInstalled, treeVars, fileVars, clientVars
<1>2. ManualOK'
  BY <1>1, NextLevelOK DEF IInv
<1>3. CompactOK'
  BY <1>1 DEF CompactOK
<1>4. FileOK' /\ HolderOK'
  BY <1>1, FilesQuiet, HoldersQuiet DEF IInv
<1>5. QED
  BY <1>2, <1>3, <1>4 DEF IInv

\* A table is written: the versions do not know it yet.
LEMMA TableWritten ==
  ASSUME IInv, DataOK', Entry' = Entry, NEW S \in SUBSET Entry, S # {}, nextFile <= MaxFile,
         nextFile' = nextFile + 1, UNCHANGED <<history, versions, current, reader>>,
         table' = TablesWith(S), pending' = pending \cup {nextFile},
         flush' = flush \/ flush' = nextFile,
         HolderTypes', Counts' = Counts
  PROVE  FileOK' /\ HolderOK'
<1>1. /\ nextFile' \in 1 .. MaxFile + 1 /\ nextFile \in FileNo /\ nextFile \notin pending
      /\ DOMAIN table' = DOMAIN table \cup {nextFile} /\ DOMAIN table' \subseteq 1 .. nextFile' - 1
      /\ TablesOK' /\ pending' \subseteq DOMAIN table'
  BY TableMade DEF IInv
<1>2. flush' \in Nat /\ (flush' # 0 => flush' \in pending')
  BY <1>1 DEF IInv, FileOK, FileNo
<1>3. FileOK'
  BY <1>1, <1>2 DEF FileOK
<1>4. VersionsOK(versions, Counts, DOMAIN table) /\ \A v \in DOMAIN versions : v <= current
  BY DEF IInv, HolderOK
<1>5. AddLiveFiles(versions) \subseteq DOMAIN table'
  BY <1>1, <1>4, LiveFiles
<1>6. VersionsOK(versions, Counts, DOMAIN table')
  BY <1>4, <1>5, LiveFilesStay
<1>7. HolderOK'
  BY <1>4, <1>6 DEF HolderOK
<1>8. QED
  BY <1>3, <1>7

\* A flush writes its table: pending, so nothing deletes it.
LEMMA BeginFlushStep ==
  ASSUME IInv, DataOK', Entry \subseteq Entry', BeginFlush
  PROVE  IInv'
<1>1. /\ imm # {} /\ flush = 0 /\ nextFile <= MaxFile
      /\ flush' = nextFile /\ nextFile' = nextFile + 1
      /\ table' = TablesWith(imm) /\ pending' = pending \cup {nextFile}
      /\ UNCHANGED <<history, versions, current, reader, compact, manual>>
  BY DEF BeginFlush, dataVars, clientVars
<1>2. HolderTypes' /\ Counts' = Counts /\ Entry' = Entry
  BY <1>1 DEF IInv, HolderOK, HolderTypes, Counts, Entry, LastSequence
<1>3. FileOK' /\ HolderOK'
  BY <1>1, <1>2, TableWritten DEF IInv, DataOK
<1>4. ManualOK'
  BY <1>1, ManualQuiet DEF IInv
<1>5. CompactOK'
  <2>1. nextFile \notin pending
    BY ConstantTypes DEF IInv, FileOK
  <2>2. compact # None => nextFile \notin compact.outs /\ compact.outs \subseteq pending'
    BY <1>1, <2>1 DEF IInv, CompactOK
  <2>3. QED
    BY <1>1, <1>2, <2>2 DEF IInv, CompactOK
<1>6. QED
  BY <1>3, <1>4, <1>5 DEF IInv

\* A compaction writes an output.
LEMMA CompactionOutputStep ==
  ASSUME IInv, DataOK', Entry \subseteq Entry', NEW cut \in DOMAIN compact.rest,
         CompactionOutput(cut)
  PROVE  IInv'
<1> DEFINE first == SubSeq(compact.rest, 1, cut)
           rest == SubSeq(compact.rest, cut + 1, Len(compact.rest))
<1>1. /\ compact # None /\ flush = 0 /\ nextFile <= MaxFile
      /\ nextFile' = nextFile + 1
      /\ table' = TablesWith(ToSet(first)) /\ pending' = pending \cup {nextFile}
      /\ compact' = [compact EXCEPT !.outs = @ \cup {nextFile}, !.rest = SubSeq(@, cut + 1, Len(@))]
      /\ UNCHANGED <<history, versions, current, reader, flush, manual>>
  BY DEF CompactionOutput, dataVars, clientVars
<1>2. /\ compact \in Job /\ compact.level \in 0 .. NumLevels - 2
      /\ compact.outs \subseteq pending /\ flush \notin compact.outs
      /\ compact.rest \in Seq(Entry)
      /\ compact.manual => manual # None /\ manual.installed
  BY <1>1 DEF IInv, HolderOK, HolderTypes, CompactOK
<1>3. cut \in 1 .. Len(compact.rest) /\ Len(compact.rest) \in Nat
  BY <1>2
<1>4. first \in Seq(Entry) /\ rest \in Seq(Entry) /\ Len(first) = cut
  BY <1>2, <1>3
<1>5. ToSet(first) \in SUBSET Entry /\ ToSet(first) # {}
  <2>1. DOMAIN first = 1 .. cut
    BY <1>4
  <2>2. 1 \in DOMAIN first
    BY <1>3, <2>1
  <2>3. \A i \in DOMAIN first : first[i] \in Entry
    BY <1>4, ElementOfSeq
  <2> HIDE DEF first
  <2>4. QED
    BY <2>2, <2>3 DEF ToSet
<1>6. /\ compact'.outs = compact.outs \cup {nextFile} /\ compact'.rest = rest
      /\ compact'.level = compact.level /\ compact'.version = compact.version
      /\ compact'.manual = compact.manual
  BY <1>1, <1>2 DEF Job
<1> HIDE DEF first, rest
<1>7. nextFile \in Nat /\ nextFile > 0 /\ nextFile \notin pending
  BY ConstantTypes DEF IInv, FileOK
<1>8. compact' \in Job
  <2>1. rest \in Seq(Nat)
    <3>1. Entry \subseteq Nat
      BY DEF Entry
    <3>2. QED
      BY <1>4, <3>1, SeqGrows
  <2>2. compact' = [level |-> compact.level, in0 |-> compact.in0, in1 |-> compact.in1,
                    version |-> compact.version, snapshot |-> compact.snapshot,
                    manual |-> compact.manual, outs |-> compact.outs \cup {nextFile},
                    rest |-> rest]
    BY <1>1, <1>2 DEF Job, rest
  <2>3. QED
    BY <1>2, <1>7, <2>1, <2>2 DEF Job
<1>9. compact' # None
  BY <1>8, ConstantsAssumption
<1>10. HolderTypes' /\ Counts' = Counts /\ Entry' = Entry
  BY <1>1, <1>6, <1>8, <1>9 DEF IInv, HolderOK, HolderTypes, Readers, Counts, CountsOf, Holding, Entry, LastSequence
<1>11. FileOK' /\ HolderOK'
  BY <1>1, <1>5, <1>10, TableWritten
<1>12. ManualOK'
  BY <1>1, ManualQuiet DEF IInv
<1>13. CompactOK'
  BY <1>1, <1>2, <1>4, <1>6, <1>7, <1>10 DEF CompactOK
<1>14. QED
  BY <1>11, <1>12, <1>13 DEF IInv

\* The state after a version was installed.
LEMMA Installed ==
  ASSUME IInv, Entry \subseteq Entry', UNCHANGED <<nextFile, reader>>,
         current' = current + 1,
         DOMAIN table' \subseteq DOMAIN table, \A n \in DOMAIN table' : table'[n] = table[n],
         pending' \subseteq DOMAIN table', flush' \in Nat, flush' # 0 => flush' \in pending',
         \A v \in DOMAIN versions' : v <= current',
         compact' \in {None} \cup Job,
         VersionsOK(versions', CountsOf(reader, current + 1, compact'), DOMAIN table')
  PROVE  FileOK' /\ HolderOK'
<1>1. TablesOK'
  BY TablesSame DEF IInv, FileOK
<1>2. FileOK'
  BY <1>1 DEF IInv, FileOK
<1>3. HolderTypes'
  BY DEF IInv, HolderOK, HolderTypes, Readers
<1>4. VersionsOK(versions', Counts', DOMAIN table')
  BY DEF Counts
<1>5. QED
  BY <1>2, <1>3, <1>4 DEF HolderOK

\* The table of a flush is in the new version when it stops being pending.
LEMMA EndFlushStep ==
  ASSUME IInv, DataOK', Entry \subseteq Entry', EndFlush
  PROVE  IInv'
<1> DEFINE level == PickLevelForMemTableOutput(SmallKey(flush), LargeKey(flush))
           add == {<<level, flush>>}
           map == SaveTo(Files, {}, add)
           pend == pending \ {flush}
<1>1. /\ flush # 0 /\ flush' = 0
      /\ Install(map, None, pend, TRUE)
      /\ UNCHANGED <<nextFile, reader, compact, manual>>
  BY DEF EndFlush, clientVars
<1>2. pending \subseteq DOMAIN table /\ flush \in DOMAIN table
  BY <1>1 DEF IInv, FileOK
<1>3. map \in FileMap /\ FilesOf(map) \subseteq DOMAIN table
  <2>1. \A l \in Level, n \in FileNo : <<l, n>> \in add => n \in DOMAIN table
    BY <1>2
  <2> HIDE DEF add
  <2>2. QED
    BY <2>1, TreeThere, SavedFiles
<1>4. pend \in SUBSET DOMAIN table
  BY <1>2
<1> HIDE DEF map, pend
<1>5. /\ current' = current + 1 /\ pending' = pend
      /\ DOMAIN table' \subseteq DOMAIN table /\ \A n \in DOMAIN table' : table'[n] = table[n]
      /\ pend \subseteq DOMAIN table'
      /\ \A v \in DOMAIN versions' : v <= current'
      /\ VersionsOK(versions', CountsOf(reader, current + 1, compact), DOMAIN table')
  BY <1>1, <1>3, <1>4, InstallWorks
<1>6. FileOK' /\ HolderOK'
  <2>1. compact' \in {None} \cup Job
    BY <1>1 DEF IInv, HolderOK, HolderTypes
  <2>2. VersionsOK(versions', CountsOf(reader, current + 1, compact'), DOMAIN table')
    BY <1>1, <1>5
  <2>3. QED
    BY <1>1, <1>5, <2>1, <2>2, Installed
<1>7. CompactOK'
  <2>1. compact # None => /\ compact.outs \subseteq pend /\ 0 \notin compact.outs
                          /\ compact.rest \in Seq(Entry')
    <3>1. 0 \notin pending
      BY ConstantTypes DEF IInv, FileOK
    <3>2. QED
      BY <3>1, SeqGrows DEF IInv, CompactOK, pend
  <2>2. QED
    BY <1>1, <1>5, <2>1 DEF IInv, CompactOK
<1>8. ManualOK'
  BY <1>1, ManualQuiet DEF IInv
<1>9. QED
  BY <1>6, <1>7, <1>8 DEF IInv

\* Likewise for the outputs of a compaction, which lets its own version go.
LEMMA CompactionDoneStep ==
  ASSUME IInv, DataOK', Entry \subseteq Entry', CompactionDone
  PROVE  IInv'
<1> DEFINE add == {compact.level + 1} \X compact.outs
           map == SaveTo(Files, AddInputDeletions(compact), add)
           pend == pending \ compact.outs
           unref == compact.version
<1>1. /\ compact # None /\ flush = 0 /\ compact' = None
      /\ Install(map, unref, pend, TRUE)
      /\ UNCHANGED <<nextFile, reader, flush>>
      /\ manual' = IF ~compact.manual THEN manual
                   ELSE IF bgError THEN None
                   ELSE [manual EXCEPT !.begin = ManualEnd, !.installed = FALSE]
  BY DEF CompactionDone, clientVars
<1>2. pending \subseteq DOMAIN table /\ compact.outs \subseteq DOMAIN table
  BY <1>1 DEF IInv, FileOK, CompactOK
<1>3. map \in FileMap /\ FilesOf(map) \subseteq DOMAIN table
  <2>1. \A l \in Level, n \in FileNo : <<l, n>> \in add => n \in DOMAIN table
    BY <1>2
  <2> HIDE DEF add
  <2>2. QED
    BY <2>1, TreeThere, SavedFiles
<1>4. pend \in SUBSET DOMAIN table
  BY <1>2
<1>5. unref \in Nat /\ unref # None
  BY <1>1, ConstantsAssumption DEF IInv, HolderOK, HolderTypes, Job
<1> HIDE DEF map, pend
<1>6. /\ current' = current + 1 /\ pending' = pend
      /\ DOMAIN table' \subseteq DOMAIN table /\ \A n \in DOMAIN table' : table'[n] = table[n]
      /\ pend \subseteq DOMAIN table'
      /\ \A v \in DOMAIN versions' : v <= current'
      /\ VersionsOK(versions', CountsOf(reader, current + 1, None), DOMAIN table')
  BY <1>1, <1>3, <1>4, <1>5, InstallWorks
<1>7. FileOK' /\ HolderOK'
  <2>1. VersionsOK(versions', CountsOf(reader, current + 1, compact'), DOMAIN table')
    BY <1>1, <1>6
  <2>2. QED
    BY <1>1, <1>6, <2>1, Installed
<1>8. CompactOK'
  BY <1>1 DEF CompactOK
<1>9. ManualOK'
  <2>1. CASE compact.manual /\ ~bgError
    <3>1. /\ manual # None /\ manual' = [manual EXCEPT !.begin = ManualEnd, !.installed = FALSE]
      BY <1>1, <2>1 DEF IInv, CompactOK
    <3>2. /\ ManualShape
          /\ manual.levels \in 1 .. NumLevels - 1 /\ manual.level \in -1 .. manual.levels - 1
      BY <3>1 DEF IInv, ManualOK
    <3>3. manual' = [level |-> manual.level, begin |-> ManualEnd, end |-> manual.end,
                     first |-> manual.first, installed |-> FALSE, levels |-> manual.levels]
      BY <3>1, <3>2 DEF ManualShape
    <3>4. QED
      BY <3>2, <3>3 DEF ManualOK, ManualShape
  <2>2. CASE ~compact.manual
    BY <1>1, <2>2, ManualQuiet DEF IInv
  <2>3. CASE compact.manual /\ bgError
    BY <1>1, <2>3 DEF ManualOK
  <2>4. QED
    BY <2>1, <2>2, <2>3
<1>10. QED
  BY <1>7, <1>8, <1>9 DEF IInv

\* A flush that fails leaves its table behind, and the compaction around it as it is.
LEMMA FlushFailsStep ==
  ASSUME IInv, DataOK', Entry \subseteq Entry', FlushFails
  PROVE  IInv'
<1>1. /\ flush' = 0 /\ pending' = pending \ {flush}
      /\ manual' = IF compact # None /\ compact.manual THEN manual ELSE None
      /\ UNCHANGED <<table, versions, current, nextFile, reader, compact>>
  BY DEF FlushFails, treeVars
<1>2. FileOK'
  <2>1. TablesOK'
    BY <1>1, TablesSame DEF IInv, FileOK
  <2>2. QED
    BY <1>1, <2>1 DEF IInv, FileOK
<1>3. HolderOK'
  BY <1>1 DEF IInv, HolderOK, HolderTypes, Counts
<1>4. CompactOK'
  <2>1. 0 \notin pending
    BY ConstantTypes DEF IInv, FileOK
  <2>2. compact # None => /\ compact.outs \subseteq pending' /\ 0 \notin compact.outs
                          /\ compact.rest \in Seq(Entry')
    BY <1>1, <2>1, SeqGrows DEF IInv, CompactOK
  <2>3. compact # None /\ compact.manual => manual' = manual
    BY <1>1
  <2>4. QED
    BY <1>1, <2>2, <2>3 DEF IInv, CompactOK
<1>5. ManualOK'
  <2>1. CASE manual' = manual
    BY <2>1, ManualQuiet DEF IInv
  <2>2. CASE manual' = None
    BY <2>2 DEF ManualOK
  <2>3. QED
    BY <1>1, <2>1, <2>2
<1>6. QED
  BY <1>2, <1>3, <1>4, <1>5 DEF IInv

\* A compaction that fails lets its version go.
LEMMA CompactionFailsStep ==
  ASSUME IInv, DataOK', Entry \subseteq Entry', CompactionFails
  PROVE  IInv'
<1> DEFINE v == compact.version
<1>1. /\ compact # None /\ flush = 0 /\ flush' = 0 /\ compact' = None
      /\ pending' \subseteq pending /\ manual' = None
      /\ versions' = Unref(versions, v)
      /\ UNCHANGED <<table, current, nextFile, reader>>
  BY DEF CompactionFails
<1>2. HolderTypes /\ VersionsOK(versions, Counts, DOMAIN table) /\ \A u \in DOMAIN versions : u <= current
  BY DEF IInv, HolderOK
<1>3. FileOK'
  <2>1. TablesOK'
    BY <1>1, TablesSame DEF IInv, FileOK
  <2>2. QED
    BY <1>1, <2>1 DEF IInv, FileOK
<1>4. HolderTypes'
  BY <1>1, <1>2 DEF HolderTypes, Readers
<1>5. compact \in Job /\ v \in Nat /\ Counts[v] > 0
  BY <1>1, <1>2, HeldAlive DEF IInv, HolderTypes, Job
<1>6. CountsOf(reader, current, None) = [Counts EXCEPT ![v] = @ - 1]
  BY <1>2, <1>5, JobHolds DEF Counts, HolderTypes
<1> HIDE DEF v
<1>7. /\ VersionsOK(versions', [Counts EXCEPT ![v] = @ - 1], DOMAIN table)
      /\ DOMAIN versions' \subseteq DOMAIN versions
  BY <1>1, <1>2, <1>5, UnrefCounted
<1>8. Counts' = CountsOf(reader, current, None)
  BY <1>1 DEF Counts
<1>9. HolderOK'
  BY <1>1, <1>2, <1>4, <1>6, <1>7, <1>8 DEF HolderOK
<1>10. CompactOK' /\ ManualOK'
  BY <1>1 DEF CompactOK, ManualOK
<1>11. QED
  BY <1>3, <1>9, <1>10 DEF IInv

\* What a compaction keeps of its inputs is entries, in order.
LEMMA KeptSorted ==
  ASSUME IInv, NEW ns, ns \subseteq DOMAIN table, NEW job
  PROVE  Sorted(Kept(job, Entries(ns)), Before) \in Seq(Entry)
<1> DEFINE kept == Kept(job, Entries(ns))
<1>1. Entries(ns) \subseteq Entry
  BY DEF Entries, IInv, FileOK, TablesOK
<1>2. kept \in SUBSET Entry
  BY <1>1 DEF Kept
<1> HIDE DEF kept
<1>3. Sorted(kept, Before) \in Seq(kept)
  BY <1>2, SortedEntries DEF IInv, DataOK
<1>4. Sorted(kept, Before) \in Seq(Entry)
  BY <1>2, <1>3, SeqGrows
<1>5. QED
  BY <1>4 DEF kept

\* The oldest snapshot is a sequence number.
LEMMA SmallestSnapshotType ==
  ASSUME DataOK
  PROVE  SmallestSnapshot \in Nat
<1>1. LastSequence \in Nat /\ snapshots \in Seq(0 .. LastSequence)
  BY DEF DataOK, HistoryOK, LastSequence
<1>2. CASE snapshots = << >>
  BY <1>1, <1>2 DEF SmallestSnapshot
<1>3. CASE snapshots # << >>
  <2>1. Head(snapshots) \in 0 .. LastSequence
    BY <1>1, <1>3
  <2>2. QED
    BY <1>1, <1>3, <2>1 DEF SmallestSnapshot
<1>4. QED
  BY <1>2, <1>3

\* A file goes one level down as it is.
LEMMA TrivialMoveStep ==
  ASSUME IInv, DataOK', Entry \subseteq Entry', NEW level \in 0 .. NumLevels - 2,
         NEW n \in ToSet(Files[level]), 
         Install(SaveTo(Files, {<<level, n>>}, {<<level + 1, n>>}), None, pending, FALSE),
         UNCHANGED <<nextFile, reader, flush, compact, manual>>
  PROVE  IInv'
<1> DEFINE add == {<<level + 1, n>>}
           map == SaveTo(Files, {<<level, n>>}, add)
<1>1. level \in Level /\ TreeOK
  BY LevelTypes, TreeThere
<1>2. n \in DOMAIN table
  BY <1>1, LevelFiles
<1>3. map \in FileMap /\ FilesOf(map) \subseteq DOMAIN table
  <2>1. \A l \in Level, m \in FileNo : <<l, m>> \in add => m \in DOMAIN table
    BY <1>2
  <2> HIDE DEF add
  <2>2. QED
    BY <1>1, <2>1, SavedFiles
<1>4. pending \in SUBSET DOMAIN table
  BY DEF IInv, FileOK
<1>5. Install(map, None, pending, FALSE)
  OBVIOUS
<1> HIDE DEF map
<1>6. /\ current' = current + 1 /\ pending' = pending
      /\ DOMAIN table' \subseteq DOMAIN table /\ \A m \in DOMAIN table' : table'[m] = table[m]
      /\ pending \subseteq DOMAIN table'
      /\ \A v \in DOMAIN versions' : v <= current'
      /\ VersionsOK(versions', CountsOf(reader, current + 1, compact), DOMAIN table')
  BY <1>3, <1>4, <1>5, InstallWorks
<1>7. FileOK' /\ HolderOK'
  <2>1. compact' \in {None} \cup Job /\ flush' \in Nat /\ (flush' # 0 => flush' \in pending')
    BY <1>6 DEF IInv, HolderOK, HolderTypes, FileOK
  <2>2. VersionsOK(versions', CountsOf(reader, current + 1, compact'), DOMAIN table')
    BY <1>6
  <2>3. QED
    BY <1>6, <2>1, <2>2, Installed
<1>8. CompactOK'
  BY <1>6, CompactQuiet DEF IInv
<1>9. ManualOK'
  BY ManualQuiet DEF IInv
<1>10. QED
  BY <1>7, <1>8, <1>9 DEF IInv

\* A compaction starts, with a version of its own reference.
LEMMA StartCompactionStep ==
  ASSUME IInv, DataOK', Entry \subseteq Entry', Idle, NEW level \in 0 .. NumLevels - 2,
         NEW c, c.in0 \subseteq ToSet(Files[level]), c.in1 \subseteq ToSet(Files[level + 1]),
         NEW isManual \in BOOLEAN, isManual => ManualInstalled,
         StartCompaction(level, c, isManual), UNCHANGED manual
  PROVE  IInv'
<1>1. UNCHANGED <<history, nextFile, reader, flush>> /\ compact = None /\ flush = 0
  BY DEF StartCompaction, dataVars, clientVars, Idle
<1>2. /\ TreeOK /\ level \in Level /\ level + 1 \in Level /\ level \in Nat
      /\ current \in DOMAIN versions
  BY TreeThere, LevelTypes, HeldAlive DEF IInv
<1>3. c.in0 \subseteq DOMAIN table /\ c.in1 \subseteq DOMAIN table /\ DOMAIN table \subseteq Nat
  BY <1>2, LevelFiles DEF TreeOK, TablesOK
<1>4. CASE ~isManual /\ IsTrivialMove(level, c)
  <2> DEFINE n == CHOOSE n \in c.in0 : TRUE
  <2>1. Cardinality(c.in0) = 1
    BY <1>4 DEF IsTrivialMove
  <2>2. c.in0 # {}
    BY <2>1, FS_EmptySet
  <2>3. n \in ToSet(Files[level])
    BY <2>2
  <2>4. /\ Install(SaveTo(Files, {<<level, n>>}, {<<level + 1, n>>}), None, pending, FALSE)
        /\ UNCHANGED compact
    BY <1>4 DEF StartCompaction
  <2> HIDE DEF n
  <2>5. QED
    BY <1>1, <2>3, <2>4, TrivialMoveStep
<1>5. CASE ~(~isManual /\ IsTrivialMove(level, c))
  <2> DEFINE job == [level |-> level, in0 |-> c.in0, in1 |-> c.in1, version |-> current,
                     snapshot |-> SmallestSnapshot, manual |-> isManual, outs |-> {},
                     rest |-> << >>]
             rest == Sorted(Kept(job, Entries(c.in0 \cup c.in1)), Before)
  <2>1. /\ versions' = Ref(versions, current)
        /\ compact' = [job EXCEPT !.rest = rest]
        /\ UNCHANGED <<current, pending, table>>
    BY <1>5 DEF StartCompaction
  <2>2. rest \in Seq(Entry)
    BY <1>3, KeptSorted
  <2> HIDE DEF rest
  <2>3. rest \in Seq(Nat)
    <3>1. Entry \subseteq Nat
      BY DEF Entry
    <3>2. QED
      BY <2>2, <3>1, SeqGrows
  <2>4. compact' = [level |-> level, in0 |-> c.in0, in1 |-> c.in1, version |-> current,
                    snapshot |-> SmallestSnapshot, manual |-> isManual, outs |-> {},
                    rest |-> rest]
    BY <2>1
  <2>5. SmallestSnapshot \in Nat /\ current \in Nat
    BY SmallestSnapshotType DEF IInv, HolderOK, HolderTypes
  <2>6. compact' \in Job /\ compact'.version = current
    BY <1>2, <1>3, <2>3, <2>4, <2>5 DEF Job
  <2>7. compact' # None
    BY <2>6, ConstantsAssumption
  <2>8. /\ HolderTypes /\ VersionsOK(versions, Counts, DOMAIN table)
        /\ \A v \in DOMAIN versions : v <= current
    BY DEF IInv, HolderOK
  <2> DEFINE newJob == compact'
  <2>9. Counts' = [Counts EXCEPT ![current] = @ + 1]
    <3>1. Counts = CountsOf(reader, current, None) /\ Counts' = CountsOf(reader, current, newJob)
      BY <1>1, <2>1 DEF Counts
    <3>2. newJob \in Job /\ newJob.version = current
      BY <2>6
    <3> HIDE DEF newJob
    <3>3. CountsOf(reader, current, newJob)
            = [CountsOf(reader, current, None) EXCEPT ![newJob.version] = @ + 1]
      BY <2>8, <3>2, JobHolds DEF HolderTypes
    <3>4. QED
      BY <3>1, <3>2, <3>3
  <2>10. VersionsOK(versions', Counts', DOMAIN table') /\ DOMAIN versions' = DOMAIN versions
    BY <1>2, <2>1, <2>8, <2>9, RefCounted
  <2>11. HolderTypes'
    BY <1>1, <2>1, <2>6, <2>8 DEF HolderTypes, Readers
  <2>12. HolderOK'
    BY <2>1, <2>8, <2>10, <2>11 DEF HolderOK
  <2>13. FileOK'
    BY <1>1, <2>1, FilesQuiet DEF IInv
  <2>14. CompactOK'
    <3>1. rest \in Seq(Entry')
      BY <2>2, SeqGrows
    <3>2. /\ compact'.level = level /\ compact'.outs = {} /\ compact'.rest = rest
          /\ compact'.manual = isManual
      BY <2>4
    <3>3. isManual => manual' # None /\ manual'.installed
      BY DEF ManualInstalled
    <3>4. QED
      BY <3>1, <3>2, <3>3 DEF CompactOK
  <2>15. ManualOK'
    BY ManualQuiet DEF IInv
  <2>16. QED
    BY <2>12, <2>13, <2>14, <2>15 DEF IInv
<1>6. QED
  BY <1>4, <1>5

\* PickCompaction starts one,
LEMMA AutomaticCompactionStep ==
  ASSUME IInv, DataOK', Entry \subseteq Entry', AutomaticCompaction
  PROVE  IInv'
<1> DEFINE p == PickedFile
           c == SetupOtherInputs(p.level, PickedInputs(p))
<1>1. /\ Idle /\ p # None /\ StartCompaction(p.level, c, FALSE) /\ UNCHANGED manual
  BY DEF AutomaticCompaction
<1>2. p.level \in 0 .. NumLevels - 2 /\ p.number \in ToSet(Files[p.level])
  BY <1>1, TreeThere, PickedFileIn
<1> HIDE DEF p
<1>3. PickedInputs(p) \subseteq ToSet(Files[p.level])
  BY <1>2, PickedInputsIn
<1>4. c.in0 \subseteq ToSet(Files[p.level]) /\ c.in1 \subseteq ToSet(Files[p.level + 1])
  BY <1>3, OtherInputsIn
<1> HIDE DEF c
<1>5. QED
  BY <1>1, <1>2, <1>4, StartCompactionStep

\* and so does a ManualCompaction.
LEMMA ManualCompactionStep ==
  ASSUME IInv, DataOK', Entry \subseteq Entry', ManualCompaction
  PROVE  IInv'
<1> DEFINE level == manual.level
           c == SetupOtherInputs(level, RangeInputs(manual))
<1>1. /\ Idle /\ ManualInstalled /\ StartCompaction(level, c, TRUE) /\ UNCHANGED manual
  BY DEF ManualCompaction
<1>2. level \in 0 .. NumLevels - 2
  BY <1>1, ConstantTypes DEF ManualInstalled, IInv, ManualOK
<1>3. level \in Level /\ TreeOK
  BY <1>2, LevelTypes, TreeThere
<1>4. RangeInputs(manual) \subseteq ToSet(Files[level])
  BY <1>3, RangeInputsIn
<1> HIDE DEF level
<1>5. c.in0 \subseteq ToSet(Files[level]) /\ c.in1 \subseteq ToSet(Files[level + 1])
  BY <1>4, OtherInputsIn
<1> HIDE DEF c
<1>6. QED
  BY <1>1, <1>2, <1>5, StartCompactionStep

-----------------------------------------------------------------------------
(* The theorems.                                                           *)

\* A new database has one version, which current_ holds.
LEMMA InitHolds ==
  ASSUME Init
  PROVE  IInv
<1>1. history = << >> /\ mem = {} /\ imm = {} /\ snapshots = << >> /\ table = << >>
  BY DEF Init
<1>2. DataOK
  BY <1>1, ConstantTypes DEF DataOK, HistoryOK, LastSequence, Entry
<1>3. DOMAIN table = {}
  BY <1>1
<1>4. FileOK
  BY <1>3, ConstantTypes DEF Init, FileOK, TablesOK
<1>5. CompactOK /\ ManualOK
  BY DEF Init, CompactOK, ManualOK
<1>6. reader \in Readers /\ compact = None /\ current = 0 /\ \A r \in Reader : reader[r] = None
  BY DEF Init, Readers
<1>7. HolderTypes
  BY <1>6 DEF HolderTypes
<1>8. \A v \in Nat : Counts[v] = IF v = 0 THEN 1 ELSE 0
  <2>1. \A v \in Nat : Holding(reader, v) = {}
    BY <1>6 DEF Holding
  <2>2. \A v \in Nat : Counts[v] = Cardinality(Holding(reader, v)) + One(current = v)
                                     + One(compact # None /\ compact.version = v)
    BY <1>6, CountsAre DEF Counts
  <2>3. ASSUME NEW v \in Nat
        PROVE  Counts[v] = IF v = 0 THEN 1 ELSE 0
    <3>1. Cardinality(Holding(reader, v)) = 0
      BY <2>1, FS_EmptySet
    <3>2. One(current = v) = (IF v = 0 THEN 1 ELSE 0) /\ One(compact # None /\ compact.version = v) = 0
      BY <1>6 DEF One
    <3>3. QED
      BY <2>2, <3>1, <3>2
  <2>4. QED
    BY <2>3
<1>9. Counts \in [Nat -> Nat]
  BY <1>6, CountsAre DEF Counts
<1> DEFINE files == [level \in Level |-> << >>]
<1>10. /\ DOMAIN versions = {0} /\ versions = [v \in DOMAIN versions |-> versions[v]]
       /\ versions[0] = [files |-> files, refs |-> 1, seek |-> None]
  BY DEF Init
<1>11. files \in FileMap /\ FilesOf(files) = {}
  <2>1. \A level \in Level : ToSet(files[level]) = {}
    BY DEF ToSet
  <2>2. QED
    BY <2>1 DEF FileMap, FilesOf
<1> HIDE DEF files
<1>12. versions[0] \in Version /\ FilesOf(versions[0].files) \subseteq DOMAIN table
       /\ SeekIn(versions[0].files, versions[0].seek) /\ versions[0].refs = 1
  BY <1>10, <1>11 DEF Version, SeekIn
<1>13. VersionsOK(versions, Counts, DOMAIN table)
  BY <1>8, <1>9, <1>10, <1>12 DEF VersionsOK
<1>14. HolderOK
  BY <1>6, <1>7, <1>10, <1>13 DEF HolderOK
<1>15. QED
  BY <1>2, <1>4, <1>5, <1>14 DEF IInv

\* Every step keeps the invariant.
LEMMA StepKeeps ==
  ASSUME IInv, [Next]_vars
  PROVE  IInv'
<1>1. DataOK' /\ Entry \subseteq Entry'
  BY DataStep DEF IInv
<1>2. ASSUME UNCHANGED <<table, versions, current, nextFile, pending, reader, flush, compact, manual>>
      PROVE  IInv'
  BY <1>1, <1>2, WritesQuiet
<1>3. ASSUME NEW k \in Key, NEW del \in BOOLEAN, Write(k, del)
      PROVE  IInv'
  BY <1>2, <1>3 DEF Write, treeVars, fileVars, clientVars
<1>4. CASE SwitchMemTable
  BY <1>2, <1>4 DEF SwitchMemTable, treeVars, fileVars, clientVars
<1>5. CASE GetSnapshot
  BY <1>2, <1>5 DEF GetSnapshot, treeVars, fileVars
<1>6. ASSUME NEW i \in DOMAIN snapshots, ReleaseSnapshot(i)
      PROVE  IInv'
  BY <1>2, <1>6 DEF ReleaseSnapshot, treeVars, fileVars
<1>7. ASSUME NEW r \in Reader, NEW s \in 0 .. MaxSeq, BeginRead(r, s)
      PROVE  IInv'
  BY <1>1, <1>7, BeginReadStep
<1>8. ASSUME NEW r \in Reader, NEW k \in Key, EndGet(r, k)
      PROVE  IInv'
  BY <1>1, <1>8, EndGetStep
<1>9. ASSUME NEW r \in Reader, EndRead(r)
      PROVE  IInv'
  BY <1>1, <1>9, EndReadStep
<1>10. ASSUME NEW e \in 1 .. LastSequence, RecordReadSample(e)
       PROVE  IInv'
  BY <1>1, <1>10, SampleStep
<1>11. ASSUME NEW lo \in RangeBegin, NEW hi \in RangeEnd, CompactRange(lo, hi)
       PROVE  IInv'
  BY <1>1, <1>11, CompactRangeStep
<1>12. CASE InstallManual
  BY <1>1, <1>12, InstallManualStep
<1>13. CASE BeginFlush
  BY <1>1, <1>13, BeginFlushStep
<1>14. CASE EndFlush
  BY <1>1, <1>14, EndFlushStep
<1>15. CASE AutomaticCompaction
  BY <1>1, <1>15, AutomaticCompactionStep
<1>16. CASE ManualCompaction
  BY <1>1, <1>16, ManualCompactionStep
<1>17. CASE ManualDone
  BY <1>1, <1>17, ManualDoneStep
<1>18. ASSUME NEW cut \in DOMAIN compact.rest, CompactionOutput(cut)
       PROVE  IInv'
  BY <1>1, <1>18, CompactionOutputStep
<1>19. CASE CompactionDone
  BY <1>1, <1>19, CompactionDoneStep
<1>20. CASE FlushFails
  BY <1>1, <1>20, FlushFailsStep
<1>21. CASE CompactionFails
  BY <1>1, <1>21, CompactionFailsStep
<1>22. CASE UNCHANGED vars
  BY <1>2, <1>22 DEF vars
<1>23. QED
  BY <1>3, <1>4, <1>5, <1>6, <1>7, <1>8, <1>9, <1>10, <1>11, <1>12, <1>13, <1>14, <1>15, <1>16,
     <1>17, <1>18, <1>19, <1>20, <1>21, <1>22 DEF Next, Background

\* The references of a version are its holders (the readers, current_ and the
\* compaction), every file of a live version and every pending one is on disk, and
\* what the compaction and the manual compaction point to exists.
THEOREM InvariantHolds == Spec => []IInv
<1>1. Init => IInv
  BY InitHolds
<1>2. IInv /\ [Next]_vars => IInv'
  BY StepKeeps
<1>3. QED
  BY <1>1, <1>2, PTL DEF Spec

\* No reader and no compaction ever loses its version, and DeleteObsoleteFiles
\* takes no table of a live version and no output that is not installed yet.
THEOREM FilesStayPresent == Spec => []FilesPresent
<1>1. IInv => FilesPresent
  <2> SUFFICES ASSUME IInv
               PROVE  FilesPresent
    OBVIOUS
  <2>1. \A r \in Reader : reader[r] # None => reader[r].version \in DOMAIN versions
    BY HeldAlive DEF IInv
  <2>2. compact # None => compact.version \in DOMAIN versions
    BY HeldAlive DEF IInv
  <2>3. compact # None => compact.outs \subseteq DOMAIN table
    BY DEF IInv, CompactOK, FileOK
  <2>4. AddLiveFiles(versions) \subseteq DOMAIN table
    BY LiveFiles DEF IInv, HolderOK
  <2>5. QED
    BY <2>1, <2>2, <2>3, <2>4 DEF FilesPresent
<1>2. QED
  BY <1>1, InvariantHolds, PTL

\* A version that nobody holds is not kept: the list of versions holds current_,
\* and those of readers and of the compaction.
VersionsHeld ==
  \A v \in DOMAIN versions :
    \/ v = current
    \/ compact # None /\ v = compact.version
    \/ \E r \in Reader : reader[r] # None /\ v = reader[r].version

\* No version leaks, whatever order its holders let go in: the files of a version
\* that nobody holds are obsolete.
THEOREM NoVersionLeaks == Spec => []VersionsHeld
<1>1. ASSUME IInv
      PROVE  VersionsHeld
  <2>1. HolderTypes /\ VersionsOK(versions, Counts, DOMAIN table)
    BY <1>1 DEF IInv, HolderOK
  <2>2. ASSUME NEW v \in DOMAIN versions, v # current,
               ~(compact # None /\ v = compact.version), Holding(reader, v) = {}
        PROVE  FALSE
    <3>1. v \in Nat /\ Counts[v] > 0
      BY <2>1 DEF VersionsOK
    <3>2. Counts[v] = Cardinality(Holding(reader, v)) + One(current = v)
                        + One(compact # None /\ compact.version = v)
      BY <2>1, <3>1, CountsAre DEF HolderTypes, Counts
    <3>3. Cardinality(Holding(reader, v)) = 0
      BY <2>2, FS_EmptySet
    <3>4. One(current = v) = 0 /\ One(compact # None /\ compact.version = v) = 0
      BY <2>2 DEF One
    <3>5. QED
      BY <3>1, <3>2, <3>3, <3>4
  <2>3. \A v \in DOMAIN versions :
          Holding(reader, v) # {} => \E r \in Reader : reader[r] # None /\ v = reader[r].version
    BY DEF Holding
  <2>4. QED
    BY <2>2, <2>3 DEF VersionsHeld
<1>2. QED
  BY <1>1, InvariantHolds, PTL

\* The state has its types for every value of the constants.
THEOREM TypeCorrect == Spec => []TypeOK
<1>1. IInv => TypeOK
  <2> SUFFICES ASSUME IInv
               PROVE  TypeOK
    OBVIOUS
  <2>1. /\ history \in Seq([key : Key, del : BOOLEAN]) /\ LastSequence <= MaxSeq
        /\ LastSequence \in Nat /\ MaxSeq \in Nat
    BY ConstantTypes DEF IInv, DataOK, HistoryOK, LastSequence
  <2>2. mem \subseteq SeqNo /\ imm \subseteq SeqNo
    BY <2>1 DEF IInv, DataOK, Entry, SeqNo
  <2>3. \A i \in DOMAIN snapshots : snapshots[i] \in 0 .. LastSequence
    <3>1. snapshots \in Seq(0 .. LastSequence)
      BY DEF IInv, DataOK
    <3>2. DOMAIN snapshots = 1 .. Len(snapshots)
      BY <3>1
    <3>3. QED
      BY <3>1, <3>2, ElementOfSeq
  <2>4. DOMAIN table \subseteq FileNo /\ pending \subseteq FileNo
    BY ConstantTypes DEF IInv, FileOK, FileNo
  <2>5. current \in DOMAIN versions
    BY HeldAlive DEF IInv
  <2>6. QED
    BY <2>1, <2>2, <2>3, <2>4, <2>5 DEF TypeOK
<1>2. QED
  BY <1>1, InvariantHolds, PTL
=============================================================================
