-------------------------- MODULE TableCacheProofs --------------------------
(***************************************************************************)
(* Proofs about TableCache, for any clients, capacity and number of files: *)
(* handles stay valid, reference counts and lists agree, the number of     *)
(* open tables is bounded, and no table outlives its file.                 *)
(*                                                                         *)
(* The shard is dealt with first, one operation after the other and        *)
(* without the clients: count says how many handles there are on each      *)
(* entry.  Then the clients, whose handles these are, and the files that   *)
(* they pin.                                                               *)
(***************************************************************************)
EXTENDS TableCache, TLAPS, FiniteSetTheorems

-----------------------------------------------------------------------------
(* The inductive invariant.                                                *)

\* The shard in its parts (the entries E, the hash table T, lru_ q, in_use_ U
\* and usage_ n) when entry x is no longer in the hash table and its reference not
\* yet dropped, as between table_.Remove or table_.Insert and FinishErase; x is
\* None at all other times.
In(q, h) == \E i \in DOMAIN q : q[i] = h
Filled(T) == {n \in File : T[n] # None}

TypesOK(E, T, q, U, n, count, x) ==
  /\ E \in [Handle -> LRUHandle] /\ T \in [File -> Handle \cup {None}]
  /\ q \in Seq(Handle) /\ U \subseteq Handle /\ n \in Int
  /\ count \in [Handle -> Nat] /\ x \in Handle \cup {None}

TableOK(E, T, x) ==
  /\ \A n \in File : T[n] # None => T[n] # x /\ E[T[n]].key = n /\ E[T[n]].in_cache
  /\ \A h \in Handle : E[h].in_cache => E[h].key # 0 /\ (h = x \/ T[E[h].key] = h)
  /\ x # None => E[x].in_cache

CountsOK(E, count) ==
  \A h \in Handle : /\ E[h].refs = count[h] + (IF E[h].in_cache THEN 1 ELSE 0)
                    /\ E[h].key = 0 <=> E[h].refs = 0

Distinct(q) == \A i, j \in DOMAIN q : q[i] = q[j] => i = j
ListsOK(E, q, U) ==
  /\ Distinct(q)
  /\ \A h \in Handle : In(q, h) <=> (E[h].in_cache /\ E[h].refs = 1)
  /\ \A h \in Handle : h \in U <=> (E[h].in_cache /\ E[h].refs >= 2)

UsageOK(T, n, x) == n = IF x = None THEN Cardinality(Filled(T)) ELSE Cardinality(Filled(T)) + 1

Parts(E, T, q, U, n, count, x) ==
  /\ TypesOK(E, T, q, U, n, count, x) /\ TableOK(E, T, x) /\ CountsOK(E, count)
  /\ ListsOK(E, q, U) /\ UsageOK(T, n, x)

Shard(s, count, x) ==
  s \in CacheType /\ Parts(s.entry, s.table, s.lru, s.in_use, s.usage, count, x)

\* The handles the clients have.
Count == [h \in Handle |-> Cardinality(Holders(h))]

\* A client wants a file that it pins, and the handle it has is that file's.
Wants(c) == client[c].pc \in {"miss", "opened", "evicting", "using", "failed"}
ControlOK(c) ==
  /\ client[c].pc = "idle" => client[c] = Resting
  /\ Wants(c) => client[c].want \in client[c].pins
  /\ client[c].pc \in {"evicting", "using"} => client[c].handle \in Handle
  /\ client[c].pc = "evicting" <=> mutex = c

KeyOK(c) ==
  client[c].pc \in {"evicting", "using"} => cache.entry[client[c].handle].key = client[c].want

HandleOK(c) == ControlOK(c) /\ KeyOK(c)

\* What is built is nobody else's, and in no cache before its builder puts it there.
OwnOK(c) ==
  client[c].build # 0 =>
    /\ client[c].build \in client[c].pins
    /\ client[c].build \notin live
    /\ \A d \in Client \ {c} : client[c].build \notin client[d].pins

FreshOK(c) ==
  /\ client[c].build # 0 /\ client[c].want = client[c].build
  /\ client[c].pc \in {"miss", "opened", "failed"}
  => cache.table[client[c].build] = None

BuildOK(c) == OwnOK(c) /\ FreshOK(c)

ClientsOK == \A c \in Client : HandleOK(c) /\ BuildOK(c)

\* The files: what is going to be deleted is not pinned, nor cached once evicted.
PinsOK ==
  /\ live \subseteq disk /\ \A n \in disk : n < next
  /\ obsolete \cap live = {}
  /\ \A c \in Client : client[c].pins \subseteq disk /\ obsolete \cap client[c].pins = {}

EvictedOK == evicted # 0 => evicted \in obsolete /\ cache.table[evicted] = None

FilesOK == PinsOK /\ EvictedOK /\ OpenTablesExist

\* After the end.
ClosedOK ==
  closed => /\ \A c \in Client : client[c].pc = "idle"
            /\ obsolete = {} /\ evicted = 0 /\ Allocated = {}

IInv ==
  /\ TypeOK /\ Shard(cache, Count, None)
  /\ ClientsOK /\ FilesOK /\ ClosedOK /\ OpenTablesBounded

-----------------------------------------------------------------------------
(* The shard.                                                              *)

\* Taking one element out of a list that has it once.
LEMMA ListWithout ==
  ASSUME NEW q \in Seq(Handle), NEW k \in DOMAIN q,
         \A i, j \in DOMAIN q : q[i] = q[j] => i = j
  PROVE  /\ RemoveAt(q, k) \in Seq(Handle)
         /\ \A i, j \in DOMAIN RemoveAt(q, k) : RemoveAt(q, k)[i] = RemoveAt(q, k)[j] => i = j
         /\ \A h : (\E i \in DOMAIN RemoveAt(q, k) : RemoveAt(q, k)[i] = h)
                     <=> (\E i \in DOMAIN q : q[i] = h) /\ h # q[k]
<1> DEFINE n == Len(q)
           r == [i \in 1 .. n - 1 |-> IF i < k THEN q[i] ELSE q[i + 1]]
<1>1. n \in Nat /\ DOMAIN q = 1 .. n /\ k \in 1 .. n /\ \A i \in 1 .. n : q[i] \in Handle
  OBVIOUS
<1>2. RemoveAt(q, k) = r
  <2> DEFINE a == SubSeq(q, 1, k - 1)
             b == SubSeq(q, k + 1, n)
  <2>1. a \in Seq(Handle) /\ Len(a) = k - 1 /\ \A i \in 1 .. k - 1 : a[i] = q[i]
    BY <1>1
  <2>2. b \in Seq(Handle) /\ Len(b) = n - k /\ \A i \in 1 .. n - k : b[i] = q[k + i]
    BY <1>1
  <2>3. RemoveAt(q, k) = a \o b
    BY DEF RemoveAt
  <2> HIDE DEF a, b
  <2>4. a \o b \in Seq(Handle) /\ Len(a \o b) = n - 1
    <3>1. a \o b \in Seq(Handle) /\ Len(a \o b) = Len(a) + Len(b)
      BY <2>1, <2>2
    <3> QED  BY <1>1, <2>1, <2>2, <3>1
  <2>5. ASSUME NEW i \in 1 .. n - 1 PROVE (a \o b)[i] = r[i]
    <3>1. CASE i < k
      BY <1>1, <2>1, <2>2, <3>1
    <3>2. CASE ~(i < k)
      <4>1. i - (k - 1) \in 1 .. n - k /\ k + (i - (k - 1)) = i + 1 /\ i > Len(a) /\ i \in 1 .. Len(a) + Len(b)
        BY <1>1, <2>1, <2>2, <3>2
      <4>2. (a \o b)[i] = b[i - Len(a)]
        BY <2>1, <2>2, <4>1
      <4>3. b[i - Len(a)] = q[i + 1]
        BY <2>1, <2>2, <4>1
      <4> QED  BY <3>2, <4>2, <4>3
    <3> QED  BY <3>1, <3>2
  <2> DEFINE p == a \o b
  <2>6. p \in Seq(Handle) /\ Len(p) = n - 1 /\ \A i \in 1 .. n - 1 : p[i] = r[i]
    BY <2>4, <2>5
  <2> HIDE DEF p
  <2>7. p = r
    BY <1>1, <2>6
  <2> QED  BY <2>3, <2>7 DEF p
<1>3. r \in Seq(Handle) /\ DOMAIN r = 1 .. n - 1
  BY <1>1
<1>4. ASSUME NEW i \in 1 .. n - 1, NEW j \in 1 .. n - 1, r[i] = r[j] PROVE i = j
  BY <1>1, <1>4
<1>5. ASSUME NEW h PROVE (\E i \in 1 .. n - 1 : r[i] = h) <=> (\E i \in 1 .. n : q[i] = h) /\ h # q[k]
  <2>1. ASSUME NEW i \in 1 .. n - 1, r[i] = h PROVE (\E j \in 1 .. n : q[j] = h) /\ h # q[k]
    BY <1>1, <2>1
  <2>2. ASSUME NEW i \in 1 .. n, q[i] = h, h # q[k] PROVE \E j \in 1 .. n - 1 : r[j] = h
    <3>1. CASE i < k
      BY <1>1, <2>2, <3>1
    <3>2. CASE i > k
      <4>1. i - 1 \in 1 .. n - 1 /\ r[i - 1] = q[i]
        BY <1>1, <3>2
      <4> QED  BY <2>2, <4>1
    <3>3. i < k \/ i > k
      BY <1>1, <2>2
    <3> QED  BY <3>1, <3>2, <3>3
  <2> QED  BY <2>1, <2>2
<1> HIDE DEF r
<1> QED  BY <1>1, <1>2, <1>3, <1>4, <1>5

\* Putting an element behind a list that does not have it.
LEMMA ListAppended ==
  ASSUME NEW q \in Seq(Handle), NEW h \in Handle,
         \A i, j \in DOMAIN q : q[i] = q[j] => i = j,
         \A i \in DOMAIN q : q[i] # h
  PROVE  /\ Append(q, h) \in Seq(Handle)
         /\ \A i, j \in DOMAIN Append(q, h) : Append(q, h)[i] = Append(q, h)[j] => i = j
         /\ \A g : (\E i \in DOMAIN Append(q, h) : Append(q, h)[i] = g)
                     <=> (\E i \in DOMAIN q : q[i] = g) \/ g = h
<1> DEFINE n == Len(q)
           r == Append(q, h)
<1>1. n \in Nat /\ DOMAIN q = 1 .. n
  OBVIOUS
<1>2. r \in Seq(Handle) /\ DOMAIN r = 1 .. n + 1 /\ r[n + 1] = h /\ \A i \in 1 .. n : r[i] = q[i]
  OBVIOUS
<1> HIDE DEF r, n
<1>3. \A i \in 1 .. n + 1 : i \in 1 .. n \/ i = n + 1
  BY <1>1
<1>4. ASSUME NEW i \in 1 .. n + 1, NEW j \in 1 .. n + 1, r[i] = r[j] PROVE i = j
  BY <1>1, <1>2, <1>3, <1>4
<1>5. n + 1 \in 1 .. n + 1 /\ \A i \in 1 .. n : i \in 1 .. n + 1
  BY <1>1
<1>6. \A g : (\E i \in DOMAIN r : r[i] = g) <=> (\E i \in DOMAIN q : q[i] = g) \/ g = h
  BY <1>1, <1>2, <1>3, <1>5
<1> QED  BY <1>2, <1>4, <1>6 DEF r


\* Putting a shard together.
LEMMA ShardMade ==
  ASSUME NEW E, NEW T, NEW q, NEW U, NEW n, NEW count, NEW x, Parts(E, T, q, U, n, count, x)
  PROVE  Shard([entry |-> E, table |-> T, lru |-> q, in_use |-> U, usage |-> n], count, x)
<1> DEFINE s == [entry |-> E, table |-> T, lru |-> q, in_use |-> U, usage |-> n]
<1>1. s.entry = E /\ s.table = T /\ s.lru = q /\ s.in_use = U /\ s.usage = n
  OBVIOUS
<1>2. s \in CacheType
  BY DEF Parts, TypesOK, CacheType
<1> HIDE DEF s
<1>3. Shard(s, count, x)
  BY <1>1, <1>2 DEF Shard
<1> QED  BY <1>3 DEF s

\* ... and taking it apart.
LEMMA ShardIs ==
  ASSUME NEW s, NEW count, NEW x, Shard(s, count, x)
  PROVE  /\ s = [entry |-> s.entry, table |-> s.table, lru |-> s.lru, in_use |-> s.in_use,
                 usage |-> s.usage]
         /\ Parts(s.entry, s.table, s.lru, s.in_use, s.usage, count, x)
BY DEF Shard, CacheType

\* LRU_Remove takes an entry off its list.
LEMMA UnlinkedIs ==
  ASSUME NEW s \in CacheType, Distinct(s.lru), NEW h \in Handle
  PROVE  \E r \in Seq(Handle) :
           /\ Unlinked(s, h) = [entry |-> s.entry, table |-> s.table, lru |-> r,
                                in_use |-> s.in_use \ {h}, usage |-> s.usage]
           /\ Distinct(r)
           /\ \A g : In(r, g) <=> In(s.lru, g) /\ g # h
<1> DEFINE q == s.lru
           k == CHOOSE i \in DOMAIN q : q[i] = h
           r == IF In(q, h) THEN RemoveAt(q, k) ELSE q
<1>1. Unlinked(s, h) = [entry |-> s.entry, table |-> s.table, lru |-> r,
                        in_use |-> s.in_use \ {h}, usage |-> s.usage]
  <2>1. s = [entry |-> s.entry, table |-> s.table, lru |-> q, in_use |-> s.in_use,
             usage |-> s.usage]
    BY DEF CacheType
  <2>2. Unlinked(s, h) = [s EXCEPT !.lru = r, !.in_use = s.in_use \ {h}]
    BY DEF Unlinked, In
  <2> HIDE DEF r
  <2> QED  BY <2>1, <2>2
<1>3. q \in Seq(Handle) /\ Distinct(q)
  BY DEF CacheType
<1> HIDE DEF q
<1>2. r \in Seq(Handle) /\ Distinct(r) /\ \A g : In(r, g) <=> In(q, g) /\ g # h
  <2>1. CASE ~In(q, h)
    BY <1>3, <2>1
  <2>2. CASE In(q, h)
    <3>1. k \in DOMAIN q /\ q[k] = h
      BY <2>2 DEF In
    <3> HIDE DEF k
    <3> DEFINE p == RemoveAt(q, k)
    <3>2. /\ p \in Seq(Handle)
          /\ \A i, j \in DOMAIN p : p[i] = p[j] => i = j
          /\ \A g : (\E i \in DOMAIN p : p[i] = g) <=> (\E i \in DOMAIN q : q[i] = g) /\ g # q[k]
      BY <1>3, <3>1, ListWithout DEF Distinct
    <3>3. r = p
      BY <2>2
    <3> HIDE DEF p, r
    <3> QED  BY <3>1, <3>2, <3>3 DEF In, Distinct
  <2> QED  BY <2>1, <2>2
<1> HIDE DEF r
<1> QED  BY <1>1, <1>2 DEF q

\* Ref gives out one more handle on an entry of the hash table.
LEMMA RefOK ==
  ASSUME NEW s, NEW count, Shard(s, count, None), NEW h \in Handle, s.entry[h].in_cache
  PROVE  /\ Shard(Ref(s, h), [count EXCEPT ![h] = @ + 1], None)
         /\ Ref(s, h).table = s.table
         /\ \A g \in Handle : Ref(s, h).entry[g].key = s.entry[g].key
<1> DEFINE E == s.entry  T == s.table  q == s.lru  U == s.in_use  n == s.usage
           e == E[h]
           f == [e EXCEPT !.refs = @ + 1]
           F == [E EXCEPT ![h].refs = @ + 1]
           d == [count EXCEPT ![h] = @ + 1]
<1>1. s = [entry |-> E, table |-> T, lru |-> q, in_use |-> U, usage |-> n]
      /\ Parts(E, T, q, U, n, count, None)
  BY ShardIs
<1>0. \E r \in Seq(Handle) :
        /\ Unlinked(s, h) = [entry |-> E, table |-> T, lru |-> r, in_use |-> U \ {h}, usage |-> n]
        /\ Distinct(r)
        /\ \A g : In(r, g) <=> In(q, g) /\ g # h
  BY <1>1, UnlinkedIs DEF Shard, Parts, ListsOK
<1> HIDE DEF E, T, q, U, n
<1>2. TypesOK(E, T, q, U, n, count, None) /\ TableOK(E, T, None) /\ CountsOK(E, count)
      /\ ListsOK(E, q, U) /\ UsageOK(T, n, None)
  BY <1>1 DEF Parts
<1>3. e \in LRUHandle /\ e.in_cache /\ count[h] \in Nat /\ e.refs = count[h] + 1
  BY <1>2 DEF TypesOK, CountsOK, E
<1>4. f \in LRUHandle /\ F \in [Handle -> LRUHandle] /\ d \in [Handle -> Nat]
  <2>1. f \in LRUHandle
    BY <1>3 DEF LRUHandle
  <2>2. F = [E EXCEPT ![h] = f]
    OBVIOUS
  <2> HIDE DEF f, F
  <2> QED  BY <1>2, <1>3, <2>1, <2>2 DEF TypesOK
<1>5. ASSUME NEW g \in Handle
      PROVE  /\ F[g].key = E[g].key /\ F[g].in_cache = E[g].in_cache
             /\ F[g].refs = IF g = h THEN e.refs + 1 ELSE E[g].refs
             /\ d[g] = IF g = h THEN count[h] + 1 ELSE count[g]
  BY <1>2, <1>3 DEF TypesOK, LRUHandle
<1>6. \E r \in Seq(Handle) :
        /\ Ref(s, h) = [entry |-> F, table |-> T, lru |-> r, in_use |-> U \cup {h}, usage |-> n]
        /\ Distinct(r) /\ \A g \in Handle : In(r, g) <=> In(q, g) /\ g # h
  <2>1. CASE e.refs = 1
    <3>1. PICK r \in Seq(Handle) :
            /\ Unlinked(s, h) = [entry |-> E, table |-> T, lru |-> r, in_use |-> U \ {h},
                                 usage |-> n]
            /\ Distinct(r)
            /\ \A g : In(r, g) <=> In(q, g) /\ g # h
      BY <1>0
    <3>2. (U \ {h}) \cup {h} = U \cup {h}
      OBVIOUS
    <3> DEFINE u == [Unlinked(s, h) EXCEPT !.in_use = @ \cup {h}]
    <3>3. u = [entry |-> E, table |-> T, lru |-> r, in_use |-> U \cup {h}, usage |-> n]
      <4> DEFINE w == Unlinked(s, h)
      <4>1. w = [entry |-> E, table |-> T, lru |-> r, in_use |-> U \ {h}, usage |-> n]
        BY <3>1
      <4> HIDE DEF w
      <4>2. w.in_use \cup {h} = U \cup {h}
        BY <4>1, <3>2
      <4>3. \A V : [w EXCEPT !.in_use = V]
                     = [entry |-> E, table |-> T, lru |-> r, in_use |-> V, usage |-> n]
        <5> DEFINE W == U \ {h}
        <5> HIDE DEF W
        <5>1. w = [entry |-> E, table |-> T, lru |-> r, in_use |-> W, usage |-> n]
          BY <4>1 DEF W
        <5> QED  BY <5>1
      <4> QED  BY <4>2, <4>3 DEF w
    <3>4. Ref(s, h) = [u EXCEPT !.entry[h].refs = @ + 1]
      BY <1>3, <2>1 DEF Ref, E
    <3> HIDE DEF u
    <3>5. Ref(s, h) = [entry |-> F, table |-> T, lru |-> r, in_use |-> U \cup {h}, usage |-> n]
      BY <3>3, <3>4
    <3> QED  BY <3>1, <3>5
  <2>2. CASE e.refs # 1
    <3>1. U \cup {h} = U /\ ~In(q, h)
      BY <1>2, <1>3, <2>2 DEF ListsOK
    <3>2. Ref(s, h) = [s EXCEPT !.entry[h].refs = @ + 1]
      BY <1>3, <2>2 DEF Ref, E
    <3>3. Ref(s, h) = [entry |-> F, table |-> T, lru |-> q, in_use |-> U \cup {h}, usage |-> n]
      BY <1>1, <3>1, <3>2
    <3>4. \A g \in Handle : In(q, g) <=> In(q, g) /\ g # h
      BY <3>1
    <3> QED  BY <1>2, <3>3, <3>4 DEF TypesOK, ListsOK
  <2> QED  BY <2>1, <2>2
<1>7. PICK r \in Seq(Handle) :
        /\ Ref(s, h) = [entry |-> F, table |-> T, lru |-> r, in_use |-> U \cup {h}, usage |-> n]
        /\ Distinct(r) /\ \A g \in Handle : In(r, g) <=> In(q, g) /\ g # h
  BY <1>6
<1> HIDE DEF F, d
<1>8. TypesOK(F, T, r, U \cup {h}, n, d, None)
  BY <1>2, <1>4 DEF TypesOK
<1>9. TableOK(F, T, None)
  <2>1. \A m \in File : T[m] # None => T[m] \in Handle
    BY <1>2 DEF TypesOK
  <2> QED  BY <1>2, <1>5, <2>1 DEF TableOK
<1>10. CountsOK(F, d)
  <2> SUFFICES ASSUME NEW g \in Handle
               PROVE  /\ F[g].refs = d[g] + (IF F[g].in_cache THEN 1 ELSE 0)
                      /\ F[g].key = 0 <=> F[g].refs = 0
    BY DEF CountsOK
  <2>1. CASE g = h
    BY <1>2, <1>3, <1>5, <2>1 DEF CountsOK, TableOK
  <2>2. CASE g # h
    BY <1>2, <1>5, <2>2 DEF CountsOK
  <2> QED  BY <2>1, <2>2
<1>11. ListsOK(F, r, U \cup {h})
  BY <1>2, <1>3, <1>5, <1>7 DEF ListsOK
<1>12. Shard([entry |-> F, table |-> T, lru |-> r, in_use |-> U \cup {h}, usage |-> n], d, None)
  BY <1>2, <1>8, <1>9, <1>10, <1>11, ShardMade DEF Parts
<1> QED  BY <1>5, <1>7, <1>12 DEF d, T, E

\* Unref takes a handle back; the last reference frees the entry.
LEMMA UnrefOK ==
  ASSUME NEW s, NEW count, Shard(s, count, None), NEW h \in Handle, count[h] > 0
  PROVE  /\ Shard(Unref(s, h), [count EXCEPT ![h] = @ - 1], None)
         /\ Unref(s, h).table = s.table
         /\ \A g \in Handle : Unref(s, h).entry[g].key \in {0, s.entry[g].key}
<1> DEFINE E == s.entry  T == s.table  q == s.lru  U == s.in_use  n == s.usage
           e == E[h]
           f == [e EXCEPT !.refs = @ - 1]
           D == [E EXCEPT ![h].refs = @ - 1]
           d == [count EXCEPT ![h] = @ - 1]
           Result(F, r, V) ==
             /\ Unref(s, h) = [entry |-> F, table |-> T, lru |-> r, in_use |-> V, usage |-> n]
             /\ Distinct(r)
             /\ \A g \in Handle \ {h} : F[g] = E[g] /\ (In(r, g) <=> In(q, g)) /\ (g \in V <=> g \in U)
             /\ F[h].refs = e.refs - 1 /\ (F[h].in_cache <=> e.in_cache)
             /\ F[h].key = IF e.refs = 1 THEN 0 ELSE e.key
             /\ In(r, h) <=> e.in_cache /\ e.refs = 2
             /\ h \in V <=> e.in_cache /\ e.refs >= 3
<1>1. s = [entry |-> E, table |-> T, lru |-> q, in_use |-> U, usage |-> n]
      /\ Parts(E, T, q, U, n, count, None)
  BY ShardIs
<1> DEFINE t == [s EXCEPT !.entry[h].refs = @ - 1]
<1> HIDE DEF E, T, q, U, n
<1>2. TypesOK(E, T, q, U, n, count, None) /\ TableOK(E, T, None) /\ CountsOK(E, count)
      /\ ListsOK(E, q, U) /\ UsageOK(T, n, None)
  BY <1>1 DEF Parts
<1>3. /\ e \in LRUHandle /\ e.refs \in Int /\ e.in_cache \in BOOLEAN /\ count[h] \in Nat
      /\ e.refs = count[h] + (IF e.in_cache THEN 1 ELSE 0)
  BY <1>2 DEF TypesOK, CountsOK, LRUHandle
<1>4. f \in LRUHandle /\ D \in [Handle -> LRUHandle] /\ d \in [Handle -> Nat]
  <2>1. f \in LRUHandle
    BY <1>3 DEF LRUHandle
  <2>2. D = [E EXCEPT ![h] = f]
    OBVIOUS
  <2>3. count[h] - 1 \in Nat /\ count \in [Handle -> Nat]
    BY <1>2, <1>3 DEF TypesOK
  <2> HIDE DEF f, D
  <2>4. D \in [Handle -> LRUHandle]
    BY <1>2, <2>1, <2>2 DEF TypesOK
  <2> QED  BY <2>1, <2>3, <2>4
<1>5. ASSUME NEW g \in Handle
      PROVE  /\ D[g].key = E[g].key /\ D[g].in_cache = E[g].in_cache
             /\ D[g].refs = IF g = h THEN e.refs - 1 ELSE E[g].refs
             /\ g # h => D[g] = E[g]
             /\ d[g] = IF g = h THEN count[h] - 1 ELSE count[g]
  BY <1>2, <1>3 DEF TypesOK, LRUHandle
<1>6. t = [entry |-> D, table |-> T, lru |-> q, in_use |-> U, usage |-> n]
  BY <1>1
<1> HIDE DEF t
<1>7. \E F \in [Handle -> LRUHandle], r \in Seq(Handle), V \in SUBSET Handle : Result(F, r, V)
  <2>0. /\ q \in Seq(Handle) /\ Distinct(q) /\ U \subseteq Handle
        /\ In(q, h) <=> e.in_cache /\ e.refs = 1
        /\ h \in U <=> e.in_cache /\ e.refs >= 2
    BY <1>2 DEF TypesOK, ListsOK
  <2>1. CASE e.refs = 1
    <3> DEFINE F == [D EXCEPT ![h] = Free]
    <3>1. Unref(s, h) = [t EXCEPT !.entry[h] = Free]
      BY <2>1 DEF Unref, t, E
    <3>2. [t EXCEPT !.entry[h] = Free] = [entry |-> F, table |-> T, lru |-> q, in_use |-> U, usage |-> n]
      BY <1>6
    <3>3. Free \in LRUHandle
      BY DEF Free, LRUHandle
    <3>4. F \in [Handle -> LRUHandle] /\ F[h] = Free /\ \A g \in Handle \ {h} : F[g] = E[g]
      BY <1>4, <1>5, <3>3
    <3>5. ~e.in_cache
      BY <1>3, <2>1
    <3>6. F[h].refs = 0 /\ ~F[h].in_cache /\ F[h].key = 0
      BY <3>4 DEF Free
    <3> HIDE DEF F
    <3>7. Result(F, q, U)
      <4>1. F[h].refs = e.refs - 1 /\ (F[h].in_cache <=> e.in_cache)
            /\ F[h].key = IF e.refs = 1 THEN 0 ELSE e.key
        BY <1>3, <2>1, <3>5, <3>6
      <4>2. ~In(q, h) /\ h \notin U
        BY <2>0, <3>5
      <4> QED  BY <2>0, <3>1, <3>2, <3>4, <3>5, <4>1, <4>2
    <3> QED  BY <2>0, <3>4, <3>7
  <2>2. CASE e.refs = 2 /\ e.in_cache
    <3> DEFINE w == Unlinked(t, h)
    <3>1. t \in CacheType /\ Distinct(t.lru)
      BY <1>2, <1>4, <1>6, <2>0 DEF CacheType, TypesOK
    <3>2. PICK r \in Seq(Handle) :
            /\ Unlinked(t, h) = [entry |-> t.entry, table |-> t.table, lru |-> r,
                                 in_use |-> t.in_use \ {h}, usage |-> t.usage]
            /\ Distinct(r)
            /\ \A g : In(r, g) <=> In(t.lru, g) /\ g # h
      BY <3>1, UnlinkedIs
    <3>3. Unref(s, h) = [w EXCEPT !.lru = Append(@, h)]
      BY <1>3, <2>2 DEF Unref, t, E
    <3> DEFINE V == U \ {h}
               p == Append(r, h)
    <3>4. w = [entry |-> D, table |-> T, lru |-> r, in_use |-> V, usage |-> n]
      BY <1>6, <3>2
    <3>5. [w EXCEPT !.lru = Append(@, h)]
            = [entry |-> D, table |-> T, lru |-> p, in_use |-> V, usage |-> n]
      <4> HIDE DEF w, V, D
      <4>1. Append(w.lru, h) = p
        BY <3>4
      <4> HIDE DEF p
      <4>2. [w EXCEPT !.lru = p] = [entry |-> D, table |-> T, lru |-> p, in_use |-> V, usage |-> n]
        BY <3>4
      <4> QED  BY <4>1, <4>2
    <3> HIDE DEF w
    <3>6. p \in Seq(Handle) /\ Distinct(p) /\ \A g : In(p, g) <=> In(r, g) \/ g = h
      BY <3>2, ListAppended DEF Distinct, In
    <3> HIDE DEF p
    <3>7. \A g : In(r, g) <=> In(q, g) /\ g # h
      BY <1>6, <3>2
    <3>8. D[h].refs = e.refs - 1 /\ (D[h].in_cache <=> e.in_cache) /\ D[h].key = e.key
      BY <1>5
    <3>9. Result(D, p, V)
      <4>1. \A g \in Handle \ {h} : D[g] = E[g]
        BY <1>5
      <4>2. In(p, h) /\ h \notin V /\ \A g \in Handle \ {h} : (In(p, g) <=> In(q, g)) /\ (g \in V <=> g \in U)
        BY <3>6, <3>7
      <4>3. ~(e.refs >= 3) /\ e.key = IF e.refs = 1 THEN 0 ELSE e.key
        BY <2>2
      <4> HIDE DEF D, V
      <4> QED  BY <2>2, <3>3, <3>5, <3>6, <3>8, <4>1, <4>2, <4>3
    <3>10. V \in SUBSET Handle
      BY <2>0 DEF V
    <3> QED  BY <1>4, <3>6, <3>9, <3>10
  <2>3. CASE ~(e.refs = 1) /\ ~(e.refs = 2 /\ e.in_cache)
    <3>1. Unref(s, h) = t
      BY <2>3 DEF Unref, t, E
    <3>2. D[h].refs = e.refs - 1 /\ (D[h].in_cache <=> e.in_cache) /\ D[h].key = e.key
      BY <1>5
    <3>3. In(q, h) <=> e.in_cache /\ e.refs = 2
      BY <2>0, <2>3
    <3>4. h \in U <=> e.in_cache /\ e.refs >= 3
      BY <1>3, <2>0, <2>3
    <3>5. Result(D, q, U)
      BY <1>5, <1>6, <2>0, <2>3, <3>1, <3>2, <3>3, <3>4
    <3> QED  BY <1>4, <2>0, <3>5
  <2> QED  BY <2>1, <2>2, <2>3
<1>8. PICK F \in [Handle -> LRUHandle], r \in Seq(Handle), V \in SUBSET Handle : Result(F, r, V)
  BY <1>7
<1> HIDE DEF D, d
<1>9. TypesOK(F, T, r, V, n, d, None)
  BY <1>2, <1>4, <1>8 DEF TypesOK
<1>10. CountsOK(F, d)
  <2> SUFFICES ASSUME NEW g \in Handle
               PROVE  /\ F[g].refs = d[g] + (IF F[g].in_cache THEN 1 ELSE 0)
                      /\ F[g].key = 0 <=> F[g].refs = 0
    BY DEF CountsOK
  <2>1. CASE g = h
    BY <1>2, <1>3, <1>5, <1>8, <2>1 DEF CountsOK
  <2>2. CASE g # h
    BY <1>2, <1>5, <1>8, <2>2 DEF CountsOK
  <2> QED  BY <2>1, <2>2
<1>11. TableOK(F, T, None)
  <2>1. \A m \in File : T[m] # None => T[m] \in Handle
    BY <1>2 DEF TypesOK
  <2>2. ASSUME NEW g \in Handle, E[g].in_cache PROVE F[g].key = E[g].key /\ F[g].in_cache
    BY <1>3, <1>8, <2>2
  <2>3. ASSUME NEW g \in Handle, F[g].in_cache PROVE E[g].in_cache
    BY <1>8, <2>3
  <2> QED  BY <1>2, <2>1, <2>2, <2>3 DEF TableOK
<1>12. ListsOK(F, r, V)
  <2> SUFFICES ASSUME NEW g \in Handle
               PROVE  /\ In(r, g) <=> (F[g].in_cache /\ F[g].refs = 1)
                      /\ g \in V <=> (F[g].in_cache /\ F[g].refs >= 2)
    BY <1>8 DEF ListsOK
  <2>1. CASE g = h
    BY <1>3, <1>8, <2>1
  <2>2. CASE g # h
    BY <1>2, <1>8, <2>2 DEF ListsOK
  <2> QED  BY <2>1, <2>2
<1>13. Shard([entry |-> F, table |-> T, lru |-> r, in_use |-> V, usage |-> n], d, None)
  BY <1>2, <1>9, <1>10, <1>11, <1>12, ShardMade DEF Parts
<1>14. Unref(s, h).table = T /\ Unref(s, h).entry = F
  BY <1>8
<1>15. \A g \in Handle : F[g].key \in {0, E[g].key}
  BY <1>8
<1> QED  BY <1>8, <1>13, <1>14, <1>15 DEF d, T, E

\* FinishErase drops the cache's own reference on an entry out of the hash table.
LEMMA FinishEraseOK ==
  ASSUME NEW s, NEW count, NEW x \in Handle, x # None, Shard(s, count, x)
  PROVE  /\ Shard(FinishErase(s, x), count, None)
         /\ FinishErase(s, x).table = s.table
         /\ \A g \in Handle : FinishErase(s, x).entry[g].key \in {0, s.entry[g].key}
<1> DEFINE E == s.entry  T == s.table  q == s.lru  U == s.in_use  n == s.usage
           e == E[x]
           f == [e EXCEPT !.in_cache = FALSE]
           D == [E EXCEPT ![x].in_cache = FALSE]
           d == [count EXCEPT ![x] = @ + 1]
           t == [Unlinked(s, x) EXCEPT !.entry[x].in_cache = FALSE, !.usage = @ - 1]
<1>1. s = [entry |-> E, table |-> T, lru |-> q, in_use |-> U, usage |-> n]
      /\ Parts(E, T, q, U, n, count, x)
  BY ShardIs
<1>0. \E r \in Seq(Handle) :
        /\ Unlinked(s, x) = [entry |-> E, table |-> T, lru |-> r, in_use |-> U \ {x}, usage |-> n]
        /\ Distinct(r)
        /\ \A g : In(r, g) <=> In(q, g) /\ g # x
  BY <1>1, UnlinkedIs DEF Shard, Parts, ListsOK
<1> HIDE DEF E, T, q, U, n
<1>2. TypesOK(E, T, q, U, n, count, x) /\ TableOK(E, T, x) /\ CountsOK(E, count)
      /\ ListsOK(E, q, U) /\ UsageOK(T, n, x)
  BY <1>1 DEF Parts
<1>3. /\ e \in LRUHandle /\ e.refs \in Int /\ e.in_cache /\ count[x] \in Nat
      /\ e.refs = count[x] + 1
  BY <1>2 DEF TypesOK, TableOK, CountsOK, LRUHandle
<1>4. f \in LRUHandle /\ D \in [Handle -> LRUHandle] /\ d \in [Handle -> Nat]
  <2>1. f \in LRUHandle
    BY <1>3 DEF LRUHandle
  <2>2. D = [E EXCEPT ![x] = f]
    OBVIOUS
  <2>3. count[x] + 1 \in Nat /\ count \in [Handle -> Nat]
    BY <1>2, <1>3 DEF TypesOK
  <2> HIDE DEF f, D
  <2>4. D \in [Handle -> LRUHandle]
    BY <1>2, <2>1, <2>2 DEF TypesOK
  <2> QED  BY <2>1, <2>3, <2>4
<1>5. ASSUME NEW g \in Handle
      PROVE  /\ D[g].key = E[g].key /\ D[g].refs = E[g].refs
             /\ D[g].in_cache <=> (g # x /\ E[g].in_cache)
             /\ d[g] = IF g = x THEN count[x] + 1 ELSE count[g]
  BY <1>2, <1>3 DEF TypesOK, LRUHandle
<1>6. PICK r \in Seq(Handle) :
        /\ Unlinked(s, x) = [entry |-> E, table |-> T, lru |-> r, in_use |-> U \ {x}, usage |-> n]
        /\ Distinct(r)
        /\ \A g : In(r, g) <=> In(q, g) /\ g # x
  BY <1>0
<1> DEFINE V == U \ {x}
           m == n - 1
<1>7. t = [entry |-> D, table |-> T, lru |-> r, in_use |-> V, usage |-> m]
  <2> DEFINE w == Unlinked(s, x)
  <2>1. w = [entry |-> E, table |-> T, lru |-> r, in_use |-> V, usage |-> n]
    BY <1>6
  <2>2. w.usage - 1 = m /\ w.entry = E
    BY <2>1
  <2>3. t = [w EXCEPT !.entry = D, !.usage = m]
    BY <2>2
  <2> HIDE DEF w, D, V, m, t
  <2> QED  BY <2>1, <2>3
<1> HIDE DEF D, d, t, V, m
<1>8. TypesOK(D, T, r, V, m, d, None)
  BY <1>2, <1>4 DEF TypesOK, V, m
<1>9. TableOK(D, T, None)
  <2>1. \A k \in File : T[k] # None => T[k] \in Handle
    BY <1>2 DEF TypesOK
  <2> QED  BY <1>2, <1>5, <2>1 DEF TableOK
<1>10. CountsOK(D, d)
  <2> SUFFICES ASSUME NEW g \in Handle
               PROVE  /\ D[g].refs = d[g] + (IF D[g].in_cache THEN 1 ELSE 0)
                      /\ D[g].key = 0 <=> D[g].refs = 0
    BY DEF CountsOK
  <2>1. CASE g = x
    BY <1>2, <1>3, <1>5, <2>1 DEF CountsOK
  <2>2. CASE g # x
    BY <1>2, <1>5, <2>2 DEF CountsOK
  <2> QED  BY <2>1, <2>2
<1>11. ListsOK(D, r, V)
  BY <1>2, <1>5, <1>6 DEF ListsOK, V
<1>12. UsageOK(T, m, None)
  <2>1. n \in Int /\ n = Cardinality(Filled(T)) + 1
    BY <1>2 DEF UsageOK, TypesOK
  <2>2. Cardinality(Filled(T)) \in Nat
    <3>1. IsFiniteSet(File)
      BY TableCacheAssumption, FS_Interval DEF File
    <3> QED  BY <3>1, FS_Subset, FS_CardinalityType DEF Filled
  <2> QED  BY <2>1, <2>2 DEF UsageOK, m
<1>13. Shard(t, d, None)
  BY <1>7, <1>8, <1>9, <1>10, <1>11, <1>12, ShardMade DEF Parts
<1>14. FinishErase(s, x) = Unref(t, x)
  BY DEF FinishErase, t
<1>15. d[x] > 0 /\ [d EXCEPT ![x] = @ - 1] = count
  <2>1. d = [count EXCEPT ![x] = count[x] + 1] /\ count \in [Handle -> Nat]
    BY <1>2 DEF d, TypesOK
  <2>2. d[x] - 1 = count[x] /\ d[x] > 0
    <3>1. d[x] = count[x] + 1
      BY <1>5
    <3> QED  BY <1>3, <3>1
  <2>3. [d EXCEPT ![x] = count[x]] = count
    BY <2>1
  <2> QED  BY <2>2, <2>3
<1>16. /\ Shard(Unref(t, x), [d EXCEPT ![x] = @ - 1], None)
       /\ Unref(t, x).table = t.table
       /\ \A g \in Handle : Unref(t, x).entry[g].key \in {0, t.entry[g].key}
  BY <1>13, <1>15, UnrefOK
<1>17. t.table = T /\ t.entry = D
  BY <1>7
<1>18. \A g \in Handle : D[g].key = E[g].key
  BY <1>5
<1> QED  BY <1>14, <1>15, <1>16, <1>17, <1>18 DEF T, E

\* How many slots of the hash table are filled.
LEMMA FilledBy ==
  ASSUME NEW T \in [File -> Handle \cup {None}], NEW n \in File, NEW h \in Handle \cup {None},
         None \notin Handle
  PROVE  /\ Cardinality(Filled(T)) \in Nat
         /\ T[n] # None =>
              Cardinality(Filled(T)) = Cardinality(Filled([T EXCEPT ![n] = None])) + 1
         /\ T[n] = None /\ h # None =>
              Cardinality(Filled([T EXCEPT ![n] = h])) = Cardinality(Filled(T)) + 1
         /\ T[n] # None /\ h # None => Filled([T EXCEPT ![n] = h]) = Filled(T)
<1>1. IsFiniteSet(File)
  BY TableCacheAssumption, FS_Interval DEF File
<1>2. IsFiniteSet(Filled(T)) /\ Cardinality(Filled(T)) \in Nat
  BY <1>1, FS_Subset, FS_CardinalityType DEF Filled
<1>3. Filled([T EXCEPT ![n] = None]) = Filled(T) \ {n}
  BY DEF Filled
<1>4. h # None => Filled([T EXCEPT ![n] = h]) = Filled(T) \cup {n}
  BY DEF Filled
<1>5. n \in Filled(T) <=> T[n] # None
  BY DEF Filled
<1> DEFINE S == Filled(T)
<1> HIDE DEF S
<1>6. IsFiniteSet(S) /\ Cardinality(S) \in Nat
  BY <1>2 DEF S
<1>7. n \in S => S \cup {n} = S
  OBVIOUS
<1>8. n \notin S => Cardinality(S \cup {n}) = Cardinality(S) + 1
  BY <1>6, FS_AddElement
<1>9. n \in S => Cardinality(S) = Cardinality(S \ {n}) + 1
  <2>1. n \in S => Cardinality(S \ {n}) = Cardinality(S) - 1
    BY <1>6, FS_RemoveElement
  <2> QED  BY <1>6, <2>1
<1> QED  BY <1>2, <1>3, <1>4, <1>5, <1>7, <1>8, <1>9 DEF S

\* Erase takes a table out of the cache.
LEMMA ErasedOK ==
  ASSUME NEW s, NEW count, Shard(s, count, None), NEW n \in File
  PROVE  /\ Shard(Erased(s, n), count, None)
         /\ Erased(s, n).table = [s.table EXCEPT ![n] = None]
         /\ \A g \in Handle : Erased(s, n).entry[g].key \in {0, s.entry[g].key}
<1> DEFINE E == s.entry  T == s.table  q == s.lru  U == s.in_use  u == s.usage
           S == [T EXCEPT ![n] = None]
           x == T[n]
           t == [s EXCEPT !.table[n] = None]
<1>1. s = [entry |-> E, table |-> T, lru |-> q, in_use |-> U, usage |-> u]
      /\ Parts(E, T, q, U, u, count, None)
  BY ShardIs
<1>2. Erased(s, n) = FinishErase(t, x)
  BY DEF Erased
<1> HIDE DEF E, T, q, U, u
<1>3. TypesOK(E, T, q, U, u, count, None) /\ TableOK(E, T, None) /\ CountsOK(E, count)
      /\ ListsOK(E, q, U) /\ UsageOK(T, u, None)
  BY <1>1 DEF Parts
<1>4. t = [entry |-> E, table |-> S, lru |-> q, in_use |-> U, usage |-> u]
  BY <1>1
<1>5. T \in [File -> Handle \cup {None}] /\ x \in Handle \cup {None}
  BY <1>3 DEF TypesOK
<1> HIDE DEF t, x
<1>6. S \in [File -> Handle \cup {None}] /\ \A k \in File : S[k] = IF k = n THEN None ELSE T[k]
  BY <1>5
<1> HIDE DEF S
<1>7. CASE x = None
  <2>1. S = T
    BY <1>5, <1>7 DEF S, x
  <2>2. FinishErase(t, x) = t /\ t = s
    BY <1>1, <1>4, <1>7, <2>1 DEF FinishErase
  <2> QED  BY <1>2, <2>1, <2>2 DEF S, T
<1>8. CASE x # None
  <2>1. TypesOK(E, S, q, U, u, count, x)
    BY <1>3, <1>5, <1>6 DEF TypesOK
  <2>2. TableOK(E, S, x)
    <3>1. E[x].in_cache /\ E[x].key = n
      BY <1>3, <1>8 DEF TableOK, x
    <3>2. ASSUME NEW k \in File, S[k] # None PROVE S[k] # x /\ E[S[k]].key = k /\ E[S[k]].in_cache
      BY <1>3, <1>6, <3>1, <3>2 DEF TableOK
    <3>3. ASSUME NEW h \in Handle, E[h].in_cache PROVE E[h].key # 0 /\ (h = x \/ S[E[h].key] = h)
      <4>1. E[h].key # 0 /\ T[E[h].key] = h /\ E[h].key \in File \cup {0}
        BY <1>3, <3>3, TableCacheAssumption DEF TableOK, TypesOK, LRUHandle
      <4> QED  BY <1>6, <4>1 DEF x
    <3> QED  BY <3>1, <3>2, <3>3 DEF TableOK
  <2>3. UsageOK(S, u, x)
    <3>1. Cardinality(Filled(T)) = Cardinality(Filled(S)) + 1
      BY <1>5, <1>8, FilledBy, TableCacheAssumption DEF S, x
    <3>2. u = Cardinality(Filled(T))
      BY <1>3 DEF UsageOK
    <3> QED  BY <1>8, <3>1, <3>2 DEF UsageOK
  <2>4. Shard(t, count, x)
    BY <1>3, <1>4, <2>1, <2>2, <2>3, ShardMade DEF Parts
  <2>5. x \in Handle
    BY <1>5, <1>8
  <2>6. /\ Shard(FinishErase(t, x), count, None)
        /\ FinishErase(t, x).table = t.table
        /\ \A g \in Handle : FinishErase(t, x).entry[g].key \in {0, t.entry[g].key}
    BY <1>8, <2>4, <2>5, FinishEraseOK
  <2>7. t.table = S /\ t.entry = E
    BY <1>4
  <2> QED  BY <1>2, <2>6, <2>7 DEF S, T, E
<1> QED  BY <1>7, <1>8

\* Insert makes an entry with one handle on it, and takes the old one of the same key out.
LEMMA InsertedOK ==
  ASSUME NEW s, NEW count, Shard(s, count, None), NEW h \in Handle, s.entry[h] = Free, NEW n \in File
  PROVE  /\ Shard(Inserted(s, h, n), [count EXCEPT ![h] = @ + 1], None)
         /\ Inserted(s, h, n).table = IF Capacity = 0 THEN s.table ELSE [s.table EXCEPT ![n] = h]
         /\ \A g \in Handle :
              Inserted(s, h, n).entry[g].key \in {0, IF g = h THEN n ELSE s.entry[g].key}
<1> DEFINE E == s.entry  T == s.table  q == s.lru  U == s.in_use  u == s.usage
           d == [count EXCEPT ![h] = @ + 1]
<1>1. s = [entry |-> E, table |-> T, lru |-> q, in_use |-> U, usage |-> u]
      /\ Parts(E, T, q, U, u, count, None)
  BY ShardIs
<1>2. E[h].key = 0 /\ E[h].refs = 0 /\ ~E[h].in_cache
  BY DEF Free
<1> HIDE DEF E, T, q, U, u
<1>3. TypesOK(E, T, q, U, u, count, None) /\ TableOK(E, T, None) /\ CountsOK(E, count)
      /\ ListsOK(E, q, U) /\ UsageOK(T, u, None)
  BY <1>1 DEF Parts
<1>4. /\ E \in [Handle -> LRUHandle] /\ T \in [File -> Handle \cup {None}]
      /\ q \in Seq(Handle) /\ U \subseteq Handle /\ u \in Int
      /\ count \in [Handle -> Nat] /\ None \notin Handle
  BY <1>3, TableCacheAssumption DEF TypesOK
<1>5. count[h] = 0
  <2>1. 0 = count[h] + 0
    BY <1>2, <1>3 DEF CountsOK
  <2> QED  BY <1>4, <2>1
<1>6. d \in [Handle -> Nat] /\ \A g \in Handle : d[g] = IF g = h THEN 1 ELSE count[g]
  BY <1>4, <1>5
<1> HIDE DEF d
<1>7. n # 0 /\ n \in File \cup {0}
  BY DEF File
<1>8. /\ \A g \in Handle : E[g].in_cache => E[g].key # 0 /\ T[E[g].key] = g /\ g # h
      /\ \A k \in File : T[k] # None => T[k] \in Handle /\ T[k] # h /\ E[T[k]].key = k /\ E[T[k]].in_cache
  BY <1>2, <1>3, <1>4 DEF TableOK
<1>9. ~In(q, h) /\ h \notin U
  BY <1>2, <1>3 DEF ListsOK
<1>10. ASSUME NEW e \in LRUHandle, e.key = n, e.refs = IF e.in_cache THEN 2 ELSE 1
       PROVE  LET F == [E EXCEPT ![h] = e] IN
              /\ F \in [Handle -> LRUHandle] /\ F[h] = e /\ \A g \in Handle \ {h} : F[g] = E[g]
              /\ CountsOK(F, d)
              /\ ListsOK(F, q, IF e.in_cache THEN U \cup {h} ELSE U)
  <2> DEFINE F == [E EXCEPT ![h] = e]
             V == IF e.in_cache THEN U \cup {h} ELSE U
  <2>1. F \in [Handle -> LRUHandle] /\ F[h] = e /\ \A g \in Handle \ {h} : F[g] = E[g]
    BY <1>4
  <2> HIDE DEF F
  <2>2. CountsOK(F, d)
    BY <1>3, <1>6, <1>7, <1>10, <2>1 DEF CountsOK
  <2>3. ListsOK(F, q, V)
    BY <1>3, <1>9, <1>10, <2>1 DEF ListsOK
  <2> QED  BY <2>1, <2>2, <2>3 DEF F
<1>11. CASE Capacity = 0
  <2> DEFINE e == [key |-> n, refs |-> 1, in_cache |-> FALSE]
             F == [E EXCEPT ![h] = e]
  <2>1. e \in LRUHandle /\ e.key = n /\ e.refs = 1 /\ ~e.in_cache
    BY <1>7 DEF LRUHandle
  <2>2. Inserted(s, h, n) = [entry |-> F, table |-> T, lru |-> q, in_use |-> U, usage |-> u]
    BY <1>1, <1>11 DEF Inserted
  <2> HIDE DEF e
  <2>3. /\ F \in [Handle -> LRUHandle] /\ F[h] = e /\ \A g \in Handle \ {h} : F[g] = E[g]
        /\ CountsOK(F, d) /\ ListsOK(F, q, U)
    BY <1>10, <2>1
  <2> HIDE DEF F
  <2>4. TypesOK(F, T, q, U, u, d, None)
    BY <1>4, <1>6, <2>3 DEF TypesOK
  <2>5. TableOK(F, T, None)
    BY <1>8, <2>1, <2>3 DEF TableOK
  <2>6. Shard([entry |-> F, table |-> T, lru |-> q, in_use |-> U, usage |-> u], d, None)
    BY <1>3, <2>3, <2>4, <2>5, ShardMade DEF Parts
  <2>7. Inserted(s, h, n).table = T /\ Inserted(s, h, n).entry = F
    BY <2>2
  <2>8. \A g \in Handle : F[g].key \in {0, IF g = h THEN n ELSE E[g].key}
    BY <2>1, <2>3
  <2> QED  BY <1>11, <2>2, <2>6, <2>7, <2>8 DEF d, T, E
<1>12. CASE Capacity # 0
  <2> DEFINE e == [key |-> n, refs |-> 2, in_cache |-> TRUE]
             F == [E EXCEPT ![h] = e]
             S == [T EXCEPT ![n] = h]
             V == U \cup {h}
             m == u + 1
             x == T[n]
             t == [s EXCEPT !.entry[h] = e, !.in_use = @ \cup {h}, !.usage = @ + 1, !.table[n] = h]
  <2>1. e \in LRUHandle /\ e.key = n /\ e.refs = 2 /\ e.in_cache
    BY <1>7 DEF LRUHandle
  <2>2. Inserted(s, h, n) = FinishErase(t, x)
    BY <1>12 DEF Inserted, T
  <2>3. t = [entry |-> F, table |-> S, lru |-> q, in_use |-> V, usage |-> m]
    <3>1. s.in_use \cup {h} = V /\ s.usage + 1 = m /\ s.entry = E /\ s.table = T
      BY <1>1
    <3>2. t = [s EXCEPT !.entry = F, !.in_use = V, !.usage = m, !.table = S]
      BY <3>1
    <3> HIDE DEF t, F, V, m, S
    <3> QED  BY <1>1, <3>2
  <2> HIDE DEF e, t
  <2>4. /\ F \in [Handle -> LRUHandle] /\ F[h] = e /\ \A g \in Handle \ {h} : F[g] = E[g]
        /\ CountsOK(F, d) /\ ListsOK(F, q, V)
    BY <1>10, <2>1
  <2>5. S \in [File -> Handle \cup {None}] /\ \A k \in File : S[k] = IF k = n THEN h ELSE T[k]
    BY <1>4
  <2>6. x \in Handle \cup {None} /\ x # h
    BY <1>4, <1>8
  <2> HIDE DEF F, x
  <2>7. TypesOK(F, S, q, V, m, d, x)
    BY <1>4, <1>6, <2>4, <2>5, <2>6 DEF TypesOK
  <2>8. TableOK(F, S, x)
    <3>1. ASSUME NEW k \in File, S[k] # None PROVE S[k] # x /\ F[S[k]].key = k /\ F[S[k]].in_cache
      <4>1. CASE k = n
        BY <2>1, <2>4, <2>5, <2>6, <4>1
      <4>2. CASE k # n
        <5>1. S[k] = T[k] /\ T[k] \in Handle \ {h} /\ E[T[k]].key = k /\ E[T[k]].in_cache
          BY <1>8, <2>5, <3>1, <4>2
        <5>2. x # None => E[x].key = n
          BY <1>8 DEF x
        <5> QED  BY <1>4, <2>4, <4>2, <5>1, <5>2
      <4> QED  BY <4>1, <4>2
    <3>2. ASSUME NEW g \in Handle, F[g].in_cache PROVE F[g].key # 0 /\ (g = x \/ S[F[g].key] = g)
      <4>1. CASE g = h
        BY <1>7, <2>1, <2>4, <2>5, <4>1
      <4>2. CASE g # h
        <5>1. F[g] = E[g] /\ E[g].key # 0 /\ T[E[g].key] = g /\ E[g].key \in File \cup {0}
          BY <1>4, <1>8, <2>4, <3>2, <4>2 DEF LRUHandle
        <5> QED  BY <2>5, <5>1 DEF x
      <4> QED  BY <4>1, <4>2
    <3>3. x # None => F[x].in_cache
      BY <1>8, <2>4, <2>6 DEF x
    <3> QED  BY <3>1, <3>2, <3>3 DEF TableOK
  <2>9. UsageOK(S, m, x)
    <3>1. /\ Cardinality(Filled(T)) \in Nat
          /\ x = None => Cardinality(Filled(S)) = Cardinality(Filled(T)) + 1
          /\ x # None => Filled(S) = Filled(T)
      BY <1>4, FilledBy DEF x
    <3>2. u = Cardinality(Filled(T))
      BY <1>3 DEF UsageOK
    <3> QED  BY <3>1, <3>2 DEF UsageOK
  <2>10. Shard(t, d, x)
    BY <2>3, <2>4, <2>7, <2>8, <2>9, ShardMade DEF Parts
  <2>11. t.table = S /\ t.entry = F
    BY <2>3
  <2>12. \A g \in Handle : F[g].key = IF g = h THEN n ELSE E[g].key
    BY <2>1, <2>4
  <2>13. CASE x = None
    <3>1. FinishErase(t, x) = t
      BY <2>13 DEF FinishErase
    <3> QED  BY <1>12, <2>2, <2>10, <2>11, <2>12, <2>13, <3>1 DEF d, T, E
  <2>14. CASE x # None
    <3>1. x \in Handle
      BY <2>6, <2>14
    <3>2. /\ Shard(FinishErase(t, x), d, None)
          /\ FinishErase(t, x).table = t.table
          /\ \A g \in Handle : FinishErase(t, x).entry[g].key \in {0, t.entry[g].key}
      BY <2>10, <2>14, <3>1, FinishEraseOK
    <3> QED  BY <1>12, <2>2, <2>11, <2>12, <3>2 DEF d, T, E
  <2> QED  BY <2>13, <2>14
<1> QED  BY <1>11, <1>12

\* What a shard says of a slot and of an entry.
LEMMA ShardFacts ==
  ASSUME NEW s, NEW count, Shard(s, count, None)
  PROVE  /\ s \in CacheType
         /\ \A n \in File : s.table[n] # None =>
              /\ s.table[n] \in Handle
              /\ s.entry[s.table[n]].key = n /\ s.entry[s.table[n]].in_cache
         /\ \A h \in Handle :
              /\ s.entry[h] \in LRUHandle
              /\ s.entry[h].refs = count[h] + (IF s.entry[h].in_cache THEN 1 ELSE 0)
              /\ count[h] \in Nat
              /\ s.entry[h].in_cache =>
                   s.entry[h].key \in File /\ s.table[s.entry[h].key] = h
              /\ s.entry[h].key = 0 <=> s.entry[h].refs = 0
              /\ s.entry[h].key = 0 <=> s.entry[h] = Free
              /\ In(s.lru, h) <=> (s.entry[h].in_cache /\ s.entry[h].refs = 1)
              /\ h \in s.in_use <=> (s.entry[h].in_cache /\ s.entry[h].refs >= 2)
<1> DEFINE E == s.entry  T == s.table  q == s.lru  U == s.in_use
<1>1. s \in CacheType /\ TypesOK(E, T, q, U, s.usage, count, None) /\ TableOK(E, T, None)
      /\ CountsOK(E, count) /\ ListsOK(E, q, U)
  BY DEF Shard, Parts
<1> HIDE DEF E, T, q, U
<1>2. ASSUME NEW n \in File, T[n] # None
      PROVE  T[n] \in Handle /\ E[T[n]].key = n /\ E[T[n]].in_cache
  BY <1>1, <1>2 DEF TypesOK, TableOK
<1>3. ASSUME NEW h \in Handle
      PROVE  /\ E[h] \in LRUHandle
             /\ E[h].refs = count[h] + (IF E[h].in_cache THEN 1 ELSE 0)
             /\ count[h] \in Nat
             /\ E[h].in_cache => E[h].key \in File /\ T[E[h].key] = h
             /\ E[h].key = 0 <=> E[h].refs = 0
             /\ E[h].key = 0 <=> E[h] = Free
             /\ In(q, h) <=> (E[h].in_cache /\ E[h].refs = 1)
             /\ h \in U <=> (E[h].in_cache /\ E[h].refs >= 2)
  <2> DEFINE e == E[h]
  <2>1. e \in LRUHandle /\ e.key \in File \cup {0} /\ e.refs \in Int /\ e.in_cache \in BOOLEAN /\ count[h] \in Nat
    BY <1>1 DEF TypesOK, LRUHandle
  <2>2. /\ e.refs = count[h] + (IF e.in_cache THEN 1 ELSE 0)
        /\ e.key = 0 <=> e.refs = 0
    BY <1>1 DEF CountsOK
  <2>3. e.in_cache => e.key # 0 /\ T[e.key] = h
    BY <1>1, TableCacheAssumption DEF TableOK
  <2>4. (In(q, h) <=> (e.in_cache /\ e.refs = 1)) /\ (h \in U <=> (e.in_cache /\ e.refs >= 2))
    BY <1>1 DEF ListsOK
  <2>5. e.key = 0 => e = Free
    <3>1. e = [key |-> e.key, refs |-> e.refs, in_cache |-> e.in_cache]
      BY <2>1 DEF LRUHandle
    <3>2. e.key = 0 => e.refs = 0 /\ e.in_cache = FALSE
      BY <2>1, <2>2, <2>3
    <3> HIDE DEF e
    <3>3. e.key = 0 => e = [key |-> 0, refs |-> 0, in_cache |-> FALSE]
      BY <3>1, <3>2
    <3> QED  BY <3>3 DEF Free
  <2>6. e = Free => e.key = 0
    BY DEF Free
  <2> HIDE DEF e
  <2>7. e \in LRUHandle /\ (e.in_cache => e.key \in File /\ T[e.key] = h) /\ (e.key = 0 <=> e = Free)
    BY <2>1, <2>3, <2>5, <2>6
  <2> QED  BY <2>1, <2>2, <2>4, <2>7 DEF e
<1> QED  BY <1>1, <1>2, <1>3 DEF E, T, q, U

\* An empty shard.
LEMMA EmptyOK ==
  ASSUME NEW count \in [Handle -> Nat], \A h \in Handle : count[h] = 0
  PROVE  Shard([entry |-> [h \in Handle |-> Free], table |-> [n \in File |-> None],
                lru |-> <<>>, in_use |-> {}, usage |-> 0], count, None)
<1> DEFINE E == [h \in Handle |-> Free]
           T == [n \in File |-> None]
<1>1. Free \in LRUHandle /\ Free.key = 0 /\ Free.refs = 0 /\ ~Free.in_cache
  BY DEF Free, LRUHandle
<1>2. TypesOK(E, T, <<>>, {}, 0, count, None)
  BY <1>1 DEF TypesOK
<1>3. TableOK(E, T, None) /\ CountsOK(E, count)
  BY <1>1 DEF TableOK, CountsOK
<1>4. ListsOK(E, <<>>, {})
  BY <1>1 DEF ListsOK, Distinct, In
<1>5. UsageOK(T, 0, None)
  <2>1. Filled(T) = {}
    BY DEF Filled
  <2> QED  BY <2>1, FS_EmptySet DEF UsageOK
<1> HIDE DEF E, T
<1>6. Parts(E, T, <<>>, {}, 0, count, None)
  BY <1>2, <1>3, <1>4, <1>5 DEF Parts
<1>7. Shard([entry |-> E, table |-> T, lru |-> <<>>, in_use |-> {}, usage |-> 0], count, None)
  BY <1>6, ShardMade
<1> QED  BY <1>7 DEF E, T

-----------------------------------------------------------------------------
(* The clients' handles.                                                   *)

\* How a step changes the number of handles.
OthersKeep(c, h) ==
  \A d \in Client, g \in Handle : (d # c \/ g # h) => (Holds(d, g)' <=> Holds(d, g))

\* The count follows the clients: nobody takes or drops a handle ...
LEMMA CountSame ==
  ASSUME \A c \in Client, h \in Handle : Holds(c, h)' <=> Holds(c, h)
  PROVE  Count' = Count
<1>1. \A h \in Handle : Holders(h)' = Holders(h)
  BY DEF Holders
<1> QED  BY <1>1 DEF Count

\* ... one client takes one ...
LEMMA CountMore ==
  ASSUME NEW c \in Client, NEW h \in Handle, ~Holds(c, h), Holds(c, h)', OthersKeep(c, h)
  PROVE  Count' = [Count EXCEPT ![h] = @ + 1]
<1>1. IsFiniteSet(Holders(h)) /\ (c \in Holders(h) <=> Holds(c, h)) /\ Holders(h)' = Holders(h) \cup {c}
  <2>1. Holders(h) \subseteq Client /\ (c \in Holders(h) <=> Holds(c, h))
        /\ Holders(h)' = Holders(h) \cup {c}
    BY DEF Holders, OthersKeep
  <2> QED  BY <2>1, TableCacheAssumption, FS_Subset
<1>2. \A g \in Handle \ {h} : Holders(g)' = Holders(g)
  BY DEF Holders, OthersKeep
<1>3. Cardinality(Holders(h)') = Cardinality(Holders(h)) + 1
  BY <1>1, FS_AddElement
<1> QED  BY <1>2, <1>3 DEF Count

\* ... one drops its own.
LEMMA CountLess ==
  ASSUME NEW c \in Client, NEW h \in Handle, Holds(c, h), ~Holds(c, h)', OthersKeep(c, h)
  PROVE  Count' = [Count EXCEPT ![h] = @ - 1]
<1>1. IsFiniteSet(Holders(h)) /\ (c \in Holders(h) <=> Holds(c, h)) /\ Holders(h)' = Holders(h) \ {c}
  <2>1. Holders(h) \subseteq Client /\ (c \in Holders(h) <=> Holds(c, h))
        /\ Holders(h)' = Holders(h) \ {c}
    BY DEF Holders, OthersKeep
  <2> QED  BY <2>1, TableCacheAssumption, FS_Subset
<1>2. \A g \in Handle \ {h} : Holders(g)' = Holders(g)
  BY DEF Holders, OthersKeep
<1>3. Cardinality(Holders(h)') = Cardinality(Holders(h)) - 1
  BY <1>1, FS_RemoveElement
<1> QED  BY <1>2, <1>3 DEF Count

\* What somebody holds is counted.
LEMMA CountType ==
  /\ Count \in [Handle -> Nat] /\ Count' \in [Handle -> Nat]
  /\ \A c \in Client, h \in Handle : (Holds(c, h) => Count[h] > 0) /\ (Holds(c, h)' => Count'[h] > 0)
<1>1. ASSUME NEW S \in SUBSET Client, NEW c \in Client
      PROVE  Cardinality(S) \in Nat /\ (c \in S => Cardinality(S) > 0)
  <2>1. IsFiniteSet(S) /\ Cardinality(S) \in Nat
    BY TableCacheAssumption, FS_Subset, FS_CardinalityType
  <2>2. c \in S => Cardinality(S) # 0
    BY <2>1, FS_EmptySet
  <2> QED  BY <2>1, <2>2
<1>2. \A S \in SUBSET Client : Cardinality(S) \in Nat
  BY TableCacheAssumption, FS_Subset, FS_CardinalityType
<1>3. \A h \in Handle : Holders(h) \in SUBSET Client /\ Holders(h)' \in SUBSET Client
  BY DEF Holders
<1>4. Count \in [Handle -> Nat] /\ Count' \in [Handle -> Nat]
  BY <1>2, <1>3 DEF Count
<1>5. ASSUME NEW c \in Client, NEW h \in Handle
      PROVE  (Holds(c, h) => Count[h] > 0) /\ (Holds(c, h)' => Count'[h] > 0)
  <2>1. (Holds(c, h) <=> c \in Holders(h)) /\ (Holds(c, h)' <=> c \in Holders(h)')
    BY DEF Holders
  <2>2. (c \in Holders(h) => Cardinality(Holders(h)) > 0)
        /\ (c \in Holders(h)' => Cardinality(Holders(h)') > 0)
    BY <1>1, <1>3
  <2>3. Count[h] = Cardinality(Holders(h)) /\ Count'[h] = Cardinality(Holders(h)')
    BY DEF Count
  <2> QED  BY <2>1, <2>2, <2>3
<1> QED  BY <1>4, <1>5

-----------------------------------------------------------------------------
(* The inductive step.                                                     *)

\* An entry keeps its key until it is freed; only Insert gives a key out.
KeysKept ==
  \A h \in Handle :
    \/ cache'.entry[h].key \in {0, cache.entry[h].key}
    \/ \E c \in Client : /\ Insert(c) /\ client'[c].handle = h
                         /\ cache'.entry[h].key \in {0, client[c].want}

\* Every action leaves the shard consistent with the handles of the clients.
LEMMA ShardStep ==
  ASSUME IInv, Next
  PROVE  Shard(cache', Count', None) /\ KeysKept
<1>0. Shard(cache, Count, None) /\ TypeOK /\ ClientsOK /\ FilesOK
  BY DEF IInv
<1>1. /\ Count \in [Handle -> Nat] /\ Count' \in [Handle -> Nat]
      /\ \A c \in Client, h \in Handle : (Holds(c, h) => Count[h] > 0) /\ (Holds(c, h)' => Count'[h] > 0)
  BY CountType
<1>2. client \in [Client -> ClientType] /\ None \notin Client \cup Handle
  BY <1>0, TableCacheAssumption DEF TypeOK
<1>3. /\ cache \in CacheType
      /\ \A n \in File : cache.table[n] # None =>
           /\ cache.table[n] \in Handle
           /\ cache.entry[cache.table[n]].key = n /\ cache.entry[cache.table[n]].in_cache
      /\ \A h \in Handle :
           /\ cache.entry[h] \in LRUHandle
           /\ cache.entry[h].refs = Count[h] + (IF cache.entry[h].in_cache THEN 1 ELSE 0)
           /\ Count[h] \in Nat
           /\ cache.entry[h].in_cache =>
                cache.entry[h].key \in File /\ cache.table[cache.entry[h].key] = h
           /\ cache.entry[h].key = 0 <=> cache.entry[h].refs = 0
           /\ cache.entry[h].key = 0 <=> cache.entry[h] = Free
           /\ In(cache.lru, h) <=> (cache.entry[h].in_cache /\ cache.entry[h].refs = 1)
           /\ h \in cache.in_use <=> (cache.entry[h].in_cache /\ cache.entry[h].refs >= 2)
  BY <1>0, ShardFacts
<1> DEFINE Same == \A c \in Client, h \in Handle : Holds(c, h)' <=> Holds(c, h)
<1>4. ASSUME Same, UNCHANGED cache PROVE Shard(cache', Count', None) /\ KeysKept
  BY <1>0, <1>4, CountSame DEF KeysKept
<1>5. ASSUME NEW c \in Client, BeginRead(c) PROVE Same /\ UNCHANGED cache
  BY <1>2, <1>5 DEF BeginRead, Holds, Resting
<1>6. ASSUME NEW c \in Client, BeginBuild(c) PROVE Same /\ UNCHANGED cache
  BY <1>2, <1>6 DEF BeginBuild, Holds, Resting
<1>7. ASSUME NEW c \in Client, Lookup(c) PROVE Shard(cache', Count', None) /\ KeysKept
  <2>1. PICK n \in client[c].pins : Hit(c, n) \/ Miss(c, n)
    BY <1>7 DEF Lookup
  <2>2. n \in File /\ client[c].pc = "pinned"
    BY <1>2, <1>7 DEF Lookup, ClientType
  <2>3. CASE Miss(c, n)
    <3>1. Same /\ UNCHANGED cache
      BY <1>2, <2>2, <2>3 DEF Holds, Miss
    <3> QED  BY <1>4, <3>1
  <2>4. CASE Hit(c, n)
    <3>0. PICK h \in Handle : h = cache.table[n]
      BY <1>3, <2>2, <2>4 DEF Hit
    <3>1. cache.entry[h].in_cache
      BY <1>3, <2>2, <2>4, <3>0 DEF Hit
    <3>2. cache' = Ref(cache, h)
          /\ client' = [client EXCEPT ![c] = [@ EXCEPT !.pc = "using", !.want = n, !.handle = h]]
      BY <2>4, <3>0 DEF Hit
    <3>3. ~Holds(c, h) /\ Holds(c, h)' /\ OthersKeep(c, h)
      <4>1. client'[c].pc = "using" /\ client'[c].handle = h /\ \A d \in Client \ {c} : client'[d] = client[d]
        BY <1>2, <3>2 DEF ClientType
      <4> QED  BY <2>2, <4>1 DEF Holds, OthersKeep
    <3>4. Count' = [Count EXCEPT ![h] = @ + 1]
      BY <3>1, <3>3, CountMore
    <3>5. /\ Shard(Ref(cache, h), [Count EXCEPT ![h] = @ + 1], None)
          /\ Ref(cache, h).table = cache.table
          /\ \A g \in Handle : Ref(cache, h).entry[g].key = cache.entry[g].key
      BY <1>0, <3>1, RefOK
    <3> QED  BY <3>2, <3>4, <3>5 DEF KeysKept
  <2> QED  BY <2>1, <2>3, <2>4
<1>8. ASSUME NEW c \in Client, OpenTable(c) PROVE Same /\ UNCHANGED cache
  BY <1>2, <1>8 DEF OpenTable, Holds
<1>9. ASSUME NEW c \in Client, OpenFails(c) PROVE Same /\ UNCHANGED cache
  BY <1>2, <1>9 DEF OpenFails, Holds
<1>10. ASSUME NEW c \in Client, Insert(c) PROVE Shard(cache', Count', None) /\ KeysKept
  <2>0. PICK h \in Handle : InsertEntry(c, h)
    BY <1>10 DEF Insert
  <2>1. /\ cache.entry[h] = Free
        /\ cache' = Inserted(cache, h, client[c].want)
        /\ client' = [client EXCEPT ![c] = [@ EXCEPT !.pc = "evicting", !.handle = h]]
    BY <2>0 DEF InsertEntry
  <2>2. client[c].want \in File /\ client[c].pc = "opened"
    BY <1>0, <1>2, <1>10 DEF Insert, ClientsOK, HandleOK, ControlOK, Wants, ClientType
  <2>3. ~Holds(c, h) /\ Holds(c, h)' /\ client'[c].handle = h /\ OthersKeep(c, h)
    <3>1. client'[c].pc = "evicting" /\ client'[c].handle = h /\ \A d \in Client \ {c} : client'[d] = client[d]
      BY <1>2, <2>1 DEF ClientType
    <3> QED  BY <2>2, <3>1 DEF Holds, OthersKeep
  <2>4. Count' = [Count EXCEPT ![h] = @ + 1]
    BY <2>3, CountMore
  <2> DEFINE n == client[c].want
  <2>5. /\ Shard(Inserted(cache, h, n), [Count EXCEPT ![h] = @ + 1], None)
        /\ Inserted(cache, h, n).table = IF Capacity = 0 THEN cache.table ELSE [cache.table EXCEPT ![n] = h]
        /\ \A g \in Handle :
             Inserted(cache, h, n).entry[g].key \in {0, IF g = h THEN n ELSE cache.entry[g].key}
    BY <1>0, <2>1, <2>2, InsertedOK
  <2>6. ASSUME NEW g \in Handle
        PROVE  \/ cache'.entry[g].key \in {0, cache.entry[g].key}
               \/ /\ Insert(c) /\ client'[c].handle = g
                  /\ cache'.entry[g].key \in {0, client[c].want}
    BY <1>10, <2>1, <2>3, <2>5
  <2> QED  BY <2>1, <2>4, <2>5, <2>6 DEF KeysKept
<1>11. ASSUME NEW n \in File, cache' = Erased(cache, n), Same PROVE Shard(cache', Count', None) /\ KeysKept
  <2>1. /\ Shard(Erased(cache, n), Count, None)
        /\ Erased(cache, n).table = [cache.table EXCEPT ![n] = None]
        /\ \A g \in Handle : Erased(cache, n).entry[g].key \in {0, cache.entry[g].key}
    BY <1>0, ErasedOK
  <2> QED  BY <1>11, <2>1, CountSame DEF KeysKept
<1>12. ASSUME NEW c \in Client, EvictOldest(c) PROVE Shard(cache', Count', None) /\ KeysKept
  <2> DEFINE h == Head(cache.lru)
  <2>1. cache.lru \in Seq(Handle) /\ cache.lru # <<>>
    BY <1>3, <1>12 DEF EvictOldest, Overfull, CacheType
  <2>2. h \in Handle /\ In(cache.lru, h)
    <3>1. 1 \in DOMAIN cache.lru /\ h = cache.lru[1] /\ h \in Handle
      BY <2>1
    <3> QED  BY <3>1 DEF In
  <2>3. cache.entry[h].key \in File
    BY <1>3, <2>2
  <2>4. Same /\ cache' = Erased(cache, cache.entry[h].key)
    BY <1>12 DEF EvictOldest, Holds
  <2> QED  BY <1>11, <2>3, <2>4
<1>13. ASSUME NEW c \in Client, InsertDone(c) PROVE Same /\ UNCHANGED cache
  BY <1>2, <1>13 DEF InsertDone, Holds
<1>14. ASSUME NEW c \in Client, Release(c) PROVE Shard(cache', Count', None) /\ KeysKept
  <2>0. PICK h \in Handle : h = client[c].handle
    BY <1>0, <1>14 DEF Release, ClientsOK, HandleOK, ControlOK
  <2>1. client[c].pc = "using" /\ cache' = Unref(cache, h)
        /\ client' = [client EXCEPT ![c] = [@ EXCEPT !.pc = "pinned", !.want = 0, !.handle = None]]
    BY <1>14, <2>0 DEF Release
  <2>2. Holds(c, h) /\ ~Holds(c, h)' /\ OthersKeep(c, h)
    <3>1. client'[c].pc = "pinned" /\ \A d \in Client \ {c} : client'[d] = client[d]
      BY <1>2, <2>1 DEF ClientType
    <3> QED  BY <2>0, <2>1, <3>1 DEF Holds, OthersKeep
  <2>3. Count' = [Count EXCEPT ![h] = @ - 1] /\ Count[h] > 0
    BY <1>1, <2>1, <2>2, CountLess
  <2>4. /\ Shard(Unref(cache, h), [Count EXCEPT ![h] = @ - 1], None)
        /\ Unref(cache, h).table = cache.table
        /\ \A g \in Handle : Unref(cache, h).entry[g].key \in {0, cache.entry[g].key}
    BY <1>0, <2>1, <2>3, UnrefOK
  <2> QED  BY <2>1, <2>3, <2>4 DEF KeysKept
<1>15. ASSUME NEW c \in Client, EndRead(c) PROVE Same /\ UNCHANGED cache
  BY <1>2, <1>15 DEF EndRead, Holds, Resting
<1>16. ASSUME NEW c \in Client, Install(c) PROVE Same /\ UNCHANGED cache
  BY <1>2, <1>16 DEF Install, Holds, Resting
<1>17. ASSUME NEW c \in Client, Abandon(c) PROVE Same /\ UNCHANGED cache
  BY <1>2, <1>17 DEF Abandon, Holds, Resting
<1>18. CASE EvictFile
  <2>1. PICK n \in obsolete : cache' = Erased(cache, n)
    BY <1>18 DEF EvictFile
  <2>2. n \in File /\ Same
    BY <1>0, <1>18 DEF EvictFile, TypeOK, Holds
  <2> QED  BY <1>11, <2>1, <2>2
<1>19. CASE DeleteFile
  <2>1. Same /\ UNCHANGED cache
    BY <1>19 DEF DeleteFile, Holds
  <2> QED  BY <1>4, <2>1
<1>20. CASE Close
  <2>1. Same /\ \A c \in Client, h \in Handle : ~Holds(c, h)'
    BY <1>20 DEF Close, Holds
  <2>2. Count' = Count /\ \A h \in Handle : Count'[h] = 0
    <3>1. \A h \in Handle : Holders(h)' = {}
      BY <2>1 DEF Holders
    <3>2. \A h \in Handle : Count'[h] = Cardinality({})
      BY <3>1 DEF Count
    <3> QED  BY <2>1, <3>2, CountSame, FS_EmptySet
  <2>3. ASSUME NEW h \in Handle
        PROVE  (~In(cache.lru, h) => cache.entry[h] = Free) /\ h \notin cache.in_use
    <3>1. cache.entry[h].refs = IF cache.entry[h].in_cache THEN 1 ELSE 0
      BY <1>3, <2>2
    <3> QED  BY <1>3, <3>1
  <2>4. cache.in_use = {} /\ [h \in Handle |-> IF In(cache.lru, h) THEN Free ELSE cache.entry[h]]
                               = [h \in Handle |-> Free]
    <3>1. cache.in_use \subseteq Handle
      BY <1>3 DEF CacheType
    <3> QED  BY <2>3, <3>1
  <2>5. cache' = [entry |-> [h \in Handle |-> Free], table |-> [n \in File |-> None],
                  lru |-> <<>>, in_use |-> {}, usage |-> 0]
    BY <1>20, <2>4 DEF Close, In
  <2>6. Shard(cache', Count', None)
    BY <1>1, <2>2, <2>5, EmptyOK
  <2>7. \A h \in Handle : cache'.entry[h].key = 0
    BY <2>5 DEF Free
  <2> QED  BY <2>6, <2>7 DEF KeysKept
<1> HIDE DEF Same
<1> QED
  BY <1>4, <1>5, <1>6, <1>7, <1>8, <1>9, <1>10, <1>12, <1>13, <1>14, <1>15, <1>16, <1>17,
     <1>18, <1>19, <1>20 DEF Next

\* What a step makes of the client that takes it, field by field.
Becomes(c, pc, pins, build, want, handle) ==
  /\ client' \in [Client -> ClientType]
  /\ \A d \in Client \ {c} : client'[d] = client[d]
  /\ client'[c].pc = pc /\ client'[c].pins = pins /\ client'[c].build = build
  /\ client'[c].want = want /\ client'[c].handle = handle

\* What each action makes of the client that takes it.
LEMMA Moves ==
  ASSUME TypeOK, ClientsOK, NEW c \in Client
  PROVE  LET r == client[c] IN
         /\ BeginRead(c) => Becomes(c, "pinned", live, 0, 0, None)
         /\ BeginBuild(c) =>
              next \in File /\ \E pins \in {{next}, live \cup {next}} : Becomes(c, "pinned", pins, next, 0, None)
         /\ Lookup(c) =>
              \E n \in File : /\ n \in r.pins
                 /\ \/ Hit(c, n) /\ Becomes(c, "using", r.pins, r.build, n, cache.table[n])
                    \/ Miss(c, n) /\ Becomes(c, "miss", r.pins, r.build, n, r.handle)
         /\ OpenTable(c) => Becomes(c, "opened", r.pins, r.build, r.want, r.handle)
         /\ OpenFails(c) =>
              \E pc \in {"pinned", "failed"} : Becomes(c, pc, r.pins, r.build, r.want, r.handle)
         /\ Insert(c) =>
              \E h \in Handle : InsertEntry(c, h) /\ Becomes(c, "evicting", r.pins, r.build, r.want, h)
         /\ EvictOldest(c) => client' = client
         /\ InsertDone(c) => Becomes(c, "using", r.pins, r.build, r.want, r.handle)
         /\ Release(c) => Becomes(c, "pinned", r.pins, r.build, 0, None)
         /\ EndRead(c) \/ Install(c) \/ Abandon(c) =>
              Becomes(c, "idle", {}, 0, 0, None) /\ client'[c] = Resting
<1> DEFINE r == client[c]
<1>1. client \in [Client -> ClientType] /\ live \in SUBSET File
      /\ \A n \in File : cache.table[n] \in Handle \cup {None}
  BY DEF TypeOK, CacheType
<1>2. /\ r \in ClientType
      /\ r.pc \in {"idle", "pinned", "miss", "opened", "evicting", "using", "failed"}
      /\ r.pins \in SUBSET File /\ r.build \in File \cup {0} /\ r.want \in File \cup {0}
      /\ r.handle \in Handle \cup {None}
  BY <1>1 DEF ClientType
<1>3. ASSUME BeginRead(c) PROVE Becomes(c, "pinned", live, 0, 0, None)
  <2> DEFINE s == [Resting EXCEPT !.pc = "pinned", !.pins = live]
  <2>1. /\ s \in ClientType
       /\ s.pc = "pinned" /\ s.pins = live /\ s.build = 0 /\ s.want = 0
       /\ s.handle = None
    BY <1>1, <1>2 DEF ClientType, Resting
  <2>2. client' = [client EXCEPT ![c] = s]
    BY <1>3 DEF BeginRead
  <2> HIDE DEF s
  <2> QED  BY <1>1, <2>1, <2>2 DEF Becomes
<1>4. ASSUME BeginBuild(c)
      PROVE  next \in File /\ \E pins \in {{next}, live \cup {next}} : Becomes(c, "pinned", pins, next, 0, None)
  <2>1. next \in File
    BY <1>4 DEF BeginBuild, TypeOK, File
  <2>2. PICK pins \in {{next}, live \cup {next}} :
          client' = [client EXCEPT ![c] = [Resting EXCEPT !.pc = "pinned", !.pins = pins, !.build = next]]
    BY <1>4 DEF BeginBuild
  <2> DEFINE s == [Resting EXCEPT !.pc = "pinned", !.pins = pins, !.build = next]
  <2>3. pins \in SUBSET File
    BY <1>1, <2>1
  <2>4. /\ s \in ClientType
        /\ s.pc = "pinned" /\ s.pins = pins /\ s.build = next /\ s.want = 0 /\ s.handle = None
    BY <2>1, <2>3 DEF Resting, ClientType
  <2> HIDE DEF s
  <2>5. client' = [client EXCEPT ![c] = s]
    BY <2>2 DEF s
  <2>6. Becomes(c, "pinned", pins, next, 0, None)
    BY <1>1, <2>4, <2>5 DEF Becomes
  <2> QED  BY <2>1, <2>6
<1>5. ASSUME Lookup(c)
      PROVE  \E n \in File : /\ n \in r.pins
                 /\ \/ Hit(c, n) /\ Becomes(c, "using", r.pins, r.build, n, cache.table[n])
                    \/ Miss(c, n) /\ Becomes(c, "miss", r.pins, r.build, n, r.handle)
  <2>1. PICK n \in r.pins : Hit(c, n) \/ Miss(c, n)
    BY <1>5 DEF Lookup
  <2>2. n \in File
    BY <1>2
  <2>3. ASSUME Hit(c, n) PROVE Becomes(c, "using", r.pins, r.build, n, cache.table[n])
    <3> DEFINE s == [r EXCEPT !.pc = "using", !.want = n, !.handle = cache.table[n]]
    <3>1. /\ s \in ClientType
         /\ s.pc = "using" /\ s.pins = r.pins /\ s.build = r.build /\ s.want = n
         /\ s.handle = cache.table[n]
      BY <1>1, <1>2, <2>2 DEF ClientType
    <3>2. client' = [client EXCEPT ![c] = s]
      BY <2>3 DEF Hit
    <3> HIDE DEF s
    <3> QED  BY <1>1, <3>1, <3>2 DEF Becomes
  <2>4. ASSUME Miss(c, n) PROVE Becomes(c, "miss", r.pins, r.build, n, r.handle)
    <3> DEFINE s == [r EXCEPT !.pc = "miss", !.want = n]
    <3>1. /\ s \in ClientType
         /\ s.pc = "miss" /\ s.pins = r.pins /\ s.build = r.build /\ s.want = n
         /\ s.handle = r.handle
      BY <1>1, <1>2, <2>2 DEF ClientType
    <3>2. client' = [client EXCEPT ![c] = s]
      BY <2>4 DEF Miss
    <3> HIDE DEF s
    <3> QED  BY <1>1, <3>1, <3>2 DEF Becomes
  <2> QED  BY <2>1, <2>2, <2>3, <2>4
<1>6. ASSUME OpenTable(c) PROVE Becomes(c, "opened", r.pins, r.build, r.want, r.handle)
  <2> DEFINE s == [r EXCEPT !.pc = "opened"]
  <2>1. /\ s \in ClientType
       /\ s.pc = "opened" /\ s.pins = r.pins /\ s.build = r.build /\ s.want = r.want
       /\ s.handle = r.handle
    BY <1>1, <1>2 DEF ClientType
  <2>2. client' = [client EXCEPT ![c] = s]
    BY <1>6 DEF OpenTable
  <2> HIDE DEF s
  <2> QED  BY <1>1, <2>1, <2>2 DEF Becomes
<1>7. ASSUME OpenFails(c)
      PROVE  \E pc \in {"pinned", "failed"} : Becomes(c, pc, r.pins, r.build, r.want, r.handle)
  <2>1. PICK pc \in {"pinned", "failed"} : client' = [client EXCEPT ![c].pc = pc]
    BY <1>7 DEF OpenFails
  <2> DEFINE s == [r EXCEPT !.pc = pc]
  <2>2. /\ s \in ClientType
        /\ s.pc = pc /\ s.pins = r.pins /\ s.build = r.build /\ s.want = r.want /\ s.handle = r.handle
    BY <1>1, <1>2 DEF ClientType
  <2>3. client' = [client EXCEPT ![c] = s]
    BY <2>1
  <2> HIDE DEF s
  <2> QED  BY <1>1, <2>2, <2>3 DEF Becomes
<1>8. ASSUME Insert(c)
      PROVE  \E h \in Handle : InsertEntry(c, h) /\ Becomes(c, "evicting", r.pins, r.build, r.want, h)
  <2>1. PICK h \in Handle : InsertEntry(c, h)
    BY <1>8 DEF Insert
  <2>2. ASSUME InsertEntry(c, h) PROVE Becomes(c, "evicting", r.pins, r.build, r.want, h)
    <3> DEFINE s == [r EXCEPT !.pc = "evicting", !.handle = h]
    <3>1. /\ s \in ClientType
         /\ s.pc = "evicting" /\ s.pins = r.pins /\ s.build = r.build /\ s.want = r.want
         /\ s.handle = h
      BY <1>1, <1>2 DEF ClientType
    <3>2. client' = [client EXCEPT ![c] = s]
      BY <2>2 DEF InsertEntry
    <3> HIDE DEF s
    <3> QED  BY <1>1, <3>1, <3>2 DEF Becomes
  <2> QED  BY <2>1, <2>2
<1>9. ASSUME InsertDone(c) PROVE Becomes(c, "using", r.pins, r.build, r.want, r.handle)
  <2> DEFINE s == [r EXCEPT !.pc = "using"]
  <2>1. /\ s \in ClientType
       /\ s.pc = "using" /\ s.pins = r.pins /\ s.build = r.build /\ s.want = r.want
       /\ s.handle = r.handle
    BY <1>1, <1>2 DEF ClientType
  <2>2. client' = [client EXCEPT ![c] = s]
    BY <1>9 DEF InsertDone
  <2> HIDE DEF s
  <2> QED  BY <1>1, <2>1, <2>2 DEF Becomes
<1>10. ASSUME Release(c) PROVE Becomes(c, "pinned", r.pins, r.build, 0, None)
  <2> DEFINE s == [r EXCEPT !.pc = "pinned", !.want = 0, !.handle = None]
  <2>1. /\ s \in ClientType
       /\ s.pc = "pinned" /\ s.pins = r.pins /\ s.build = r.build /\ s.want = 0
       /\ s.handle = None
    BY <1>1, <1>2 DEF ClientType
  <2>2. client' = [client EXCEPT ![c] = s]
    BY <1>10 DEF Release
  <2> HIDE DEF s
  <2> QED  BY <1>1, <2>1, <2>2 DEF Becomes
<1>11. ASSUME EndRead(c) \/ Install(c) \/ Abandon(c)
       PROVE  Becomes(c, "idle", {}, 0, 0, None) /\ client'[c] = Resting
  <2>1. Resting \in ClientType /\ Resting.pc = "idle" /\ Resting.pins = {} /\ Resting.build = 0
        /\ Resting.want = 0 /\ Resting.handle = None
    BY DEF Resting, ClientType
  <2>2. client' = [client EXCEPT ![c] = Resting]
    BY <1>11 DEF EndRead, Install, Abandon
  <2> QED  BY <1>1, <2>1, <2>2 DEF Becomes
<1>12. EvictOldest(c) => client' = client
  BY DEF EvictOldest
<1> QED  BY <1>3, <1>4, <1>5, <1>6, <1>7, <1>8, <1>9, <1>10, <1>11, <1>12

\* Every action keeps the types.
LEMMA TypeStep ==
  ASSUME IInv, Next
  PROVE  TypeOK'
<1>0. TypeOK /\ ClientsOK /\ client \in [Client -> ClientType]
  BY DEF IInv, TypeOK
<1>1. cache' \in CacheType
  BY ShardStep DEF Shard
<1>2. client' \in [Client -> ClientType]
  <2>1. ASSUME NEW c \in Client,
               BeginRead(c) \/ BeginBuild(c) \/ Lookup(c) \/ OpenTable(c) \/ OpenFails(c)
               \/ Insert(c) \/ EvictOldest(c) \/ InsertDone(c) \/ Release(c) \/ EndRead(c)
               \/ Install(c) \/ Abandon(c)
        PROVE  client' \in [Client -> ClientType]
    BY <1>0, <2>1, Moves DEF Becomes
  <2>2. EvictFile \/ DeleteFile \/ Close => client' = client
    BY DEF EvictFile, DeleteFile, Close
  <2> QED  BY <1>0, <2>1, <2>2 DEF Next
<1> DEFINE Rest == /\ mutex' \in Client \cup {None}
                   /\ live' \subseteq File /\ disk' \subseteq File /\ obsolete' \subseteq File
                   /\ next' \in Nat \ {0} /\ evicted' \in File \cup {0}
                   /\ bg_error' \in BOOLEAN /\ closed' \in BOOLEAN
<1>BeginRead. ASSUME NEW c \in Client, BeginRead(c) PROVE Rest
  BY <1>0, <1>BeginRead DEF BeginRead, TypeOK
<1>BeginBuild. ASSUME NEW c \in Client, BeginBuild(c) PROVE Rest
  <2>1. next \in File
    BY <1>0, <1>BeginBuild, Moves
  <2>2. next' \in Nat \ {0}
    BY <1>0, <1>BeginBuild DEF BeginBuild, TypeOK
  <2> QED  BY <1>0, <1>BeginBuild, <2>1, <2>2 DEF BeginBuild, TypeOK
<1>Lookup. ASSUME NEW c \in Client, Lookup(c) PROVE Rest
  BY <1>0, <1>Lookup DEF Lookup, TypeOK
<1>OpenTable. ASSUME NEW c \in Client, OpenTable(c) PROVE Rest
  BY <1>0, <1>OpenTable DEF OpenTable, TypeOK
<1>OpenFails. ASSUME NEW c \in Client, OpenFails(c) PROVE Rest
  BY <1>0, <1>OpenFails DEF OpenFails, TypeOK
<1>Insert. ASSUME NEW c \in Client, Insert(c) PROVE Rest
  BY <1>0, <1>Insert DEF Insert, TypeOK
<1>EvictOldest. ASSUME NEW c \in Client, EvictOldest(c) PROVE Rest
  BY <1>0, <1>EvictOldest DEF EvictOldest, TypeOK
<1>InsertDone. ASSUME NEW c \in Client, InsertDone(c) PROVE Rest
  BY <1>0, <1>InsertDone DEF InsertDone, TypeOK
<1>Release. ASSUME NEW c \in Client, Release(c) PROVE Rest
  BY <1>0, <1>Release DEF Release, TypeOK
<1>EndRead. ASSUME NEW c \in Client, EndRead(c) PROVE Rest
  BY <1>0, <1>EndRead DEF EndRead, TypeOK
<1>Install. ASSUME NEW c \in Client, Install(c) PROVE Rest
  BY <1>0, <1>Install DEF Install, TypeOK, ClientType
<1>Abandon. ASSUME NEW c \in Client, Abandon(c) PROVE Rest
  BY <1>0, <1>Abandon DEF Abandon, TypeOK
<1>EvictFile. EvictFile => Rest
  BY <1>0 DEF EvictFile, TypeOK
<1>DeleteFile. DeleteFile => Rest
  BY <1>0 DEF DeleteFile, TypeOK
<1>Close. Close => Rest
  BY <1>0 DEF Close, TypeOK
<1> HIDE DEF Rest
<1>3. Rest
  BY <1>BeginRead, <1>BeginBuild, <1>Lookup, <1>OpenTable, <1>OpenFails, <1>Insert,
     <1>EvictOldest, <1>InsertDone, <1>Release, <1>EndRead, <1>Install, <1>Abandon, <1>EvictFile,
     <1>DeleteFile, <1>Close DEF Next
<1> QED  BY <1>1, <1>2, <1>3 DEF TypeOK, Rest

\* Every action keeps where each client is, what it wants and who holds the mutex.
LEMMA ControlStep ==
  ASSUME IInv, Next, NEW d \in Client
  PROVE  ControlOK(d)'
<1>0. TypeOK /\ ClientsOK /\ client \in [Client -> ClientType] /\ None \notin Client
      /\ \A e \in Client : ControlOK(e)
  BY TableCacheAssumption DEF IInv, TypeOK, ClientsOK, HandleOK
<1>BeginRead. ASSUME NEW c \in Client, BeginRead(c) PROVE ControlOK(d)'
  <2>1. Becomes(c, "pinned", live, 0, 0, None)
    BY <1>0, <1>BeginRead, Moves
  <2>2. CASE d = c
    BY <1>0, <1>BeginRead, <2>1, <2>2 DEF BeginRead, Becomes, ControlOK, Wants
  <2>3. CASE d # c
    BY <1>0, <1>BeginRead, <2>1, <2>3 DEF BeginRead, Becomes, ControlOK, Wants
  <2> QED  BY <2>2, <2>3
<1>BeginBuild. ASSUME NEW c \in Client, BeginBuild(c) PROVE ControlOK(d)'
  <2>1. next \in File /\ \E pins \in {{next}, live \cup {next}} : Becomes(c, "pinned", pins, next, 0, None)
    BY <1>0, <1>BeginBuild, Moves
  <2>2. CASE d = c
    BY <1>0, <1>BeginBuild, <2>1, <2>2 DEF BeginBuild, Becomes, ControlOK, Wants
  <2>3. CASE d # c
    BY <1>0, <1>BeginBuild, <2>1, <2>3 DEF BeginBuild, Becomes, ControlOK, Wants
  <2> QED  BY <2>2, <2>3
<1>Lookup. ASSUME NEW c \in Client, Lookup(c) PROVE ControlOK(d)'
  <2>1. \E n \in File : /\ n \in client[c].pins
                 /\ \/ Hit(c, n) /\ Becomes(c, "using", client[c].pins, client[c].build, n, cache.table[n])
                    \/ Miss(c, n) /\ Becomes(c, "miss", client[c].pins, client[c].build, n, client[c].handle)
    BY <1>0, <1>Lookup, Moves
  <2>2. CASE d = c
    BY <1>0, <1>Lookup, <2>1, <2>2 DEF Lookup, Becomes, ControlOK, Wants, Hit, Miss, ClientType, TypeOK, CacheType
  <2>3. CASE d # c
    BY <1>0, <1>Lookup, <2>1, <2>3 DEF Lookup, Becomes, ControlOK, Wants
  <2> QED  BY <2>2, <2>3
<1>OpenTable. ASSUME NEW c \in Client, OpenTable(c) PROVE ControlOK(d)'
  <2>1. Becomes(c, "opened", client[c].pins, client[c].build, client[c].want, client[c].handle)
    BY <1>0, <1>OpenTable, Moves
  <2>2. CASE d = c
    BY <1>0, <1>OpenTable, <2>1, <2>2 DEF OpenTable, Becomes, ControlOK, Wants
  <2>3. CASE d # c
    BY <1>0, <1>OpenTable, <2>1, <2>3 DEF OpenTable, Becomes, ControlOK, Wants
  <2> QED  BY <2>2, <2>3
<1>OpenFails. ASSUME NEW c \in Client, OpenFails(c) PROVE ControlOK(d)'
  <2>1. \E pc \in {"pinned", "failed"} : Becomes(c, pc, client[c].pins, client[c].build, client[c].want, client[c].handle)
    BY <1>0, <1>OpenFails, Moves
  <2>2. CASE d = c
    BY <1>0, <1>OpenFails, <2>1, <2>2 DEF OpenFails, Becomes, ControlOK, Wants
  <2>3. CASE d # c
    BY <1>0, <1>OpenFails, <2>1, <2>3 DEF OpenFails, Becomes, ControlOK, Wants
  <2> QED  BY <2>2, <2>3
<1>Insert. ASSUME NEW c \in Client, Insert(c) PROVE ControlOK(d)'
  <2>1. \E h \in Handle : InsertEntry(c, h) /\ Becomes(c, "evicting", client[c].pins, client[c].build, client[c].want, h)
    BY <1>0, <1>Insert, Moves
  <2>2. CASE d = c
    BY <1>0, <1>Insert, <2>1, <2>2 DEF Insert, Becomes, ControlOK, Wants, ClientType, TypeOK, CacheType
  <2>3. CASE d # c
    BY <1>0, <1>Insert, <2>1, <2>3 DEF Insert, Becomes, ControlOK, Wants
  <2> QED  BY <2>2, <2>3
<1>InsertDone. ASSUME NEW c \in Client, InsertDone(c) PROVE ControlOK(d)'
  <2>1. Becomes(c, "using", client[c].pins, client[c].build, client[c].want, client[c].handle)
    BY <1>0, <1>InsertDone, Moves
  <2>2. CASE d = c
    BY <1>0, <1>InsertDone, <2>1, <2>2 DEF InsertDone, Becomes, ControlOK, Wants
  <2>3. CASE d # c
    BY <1>0, <1>InsertDone, <2>1, <2>3 DEF InsertDone, Becomes, ControlOK, Wants
  <2> QED  BY <2>2, <2>3
<1>Release. ASSUME NEW c \in Client, Release(c) PROVE ControlOK(d)'
  <2>1. Becomes(c, "pinned", client[c].pins, client[c].build, 0, None)
    BY <1>0, <1>Release, Moves
  <2>2. CASE d = c
    BY <1>0, <1>Release, <2>1, <2>2 DEF Release, Becomes, ControlOK, Wants
  <2>3. CASE d # c
    BY <1>0, <1>Release, <2>1, <2>3 DEF Release, Becomes, ControlOK, Wants
  <2> QED  BY <2>2, <2>3
<1>EndRead. ASSUME NEW c \in Client, EndRead(c) PROVE ControlOK(d)'
  <2>1. Becomes(c, "idle", {}, 0, 0, None) /\ client'[c] = Resting
    BY <1>0, <1>EndRead, Moves
  <2>2. CASE d = c
    BY <1>0, <1>EndRead, <2>1, <2>2 DEF EndRead, Becomes, ControlOK, Wants
  <2>3. CASE d # c
    BY <1>0, <1>EndRead, <2>1, <2>3 DEF EndRead, Becomes, ControlOK, Wants
  <2> QED  BY <2>2, <2>3
<1>Install. ASSUME NEW c \in Client, Install(c) PROVE ControlOK(d)'
  <2>1. Becomes(c, "idle", {}, 0, 0, None) /\ client'[c] = Resting
    BY <1>0, <1>Install, Moves
  <2>2. CASE d = c
    BY <1>0, <1>Install, <2>1, <2>2 DEF Install, Becomes, ControlOK, Wants
  <2>3. CASE d # c
    BY <1>0, <1>Install, <2>1, <2>3 DEF Install, Becomes, ControlOK, Wants
  <2> QED  BY <2>2, <2>3
<1>Abandon. ASSUME NEW c \in Client, Abandon(c) PROVE ControlOK(d)'
  <2>1. Becomes(c, "idle", {}, 0, 0, None) /\ client'[c] = Resting
    BY <1>0, <1>Abandon, Moves
  <2>2. CASE d = c
    BY <1>0, <1>Abandon, <2>1, <2>2 DEF Abandon, Becomes, ControlOK, Wants
  <2>3. CASE d # c
    BY <1>0, <1>Abandon, <2>1, <2>3 DEF Abandon, Becomes, ControlOK, Wants
  <2> QED  BY <2>2, <2>3
<1>EvictOldest. ASSUME NEW c \in Client, EvictOldest(c) PROVE ControlOK(d)'
  BY <1>0, <1>EvictOldest DEF EvictOldest, ControlOK, Wants
<1>EvictFile. EvictFile => ControlOK(d)'
  BY <1>0 DEF EvictFile, ControlOK, Wants
<1>DeleteFile. DeleteFile => ControlOK(d)'
  BY <1>0 DEF DeleteFile, ControlOK, Wants
<1>Close. Close => ControlOK(d)'
  BY <1>0 DEF Close, ControlOK, Wants
<1> QED
  BY <1>BeginRead, <1>BeginBuild, <1>Lookup, <1>OpenTable, <1>OpenFails, <1>Insert,
     <1>EvictOldest, <1>InsertDone, <1>Release, <1>EndRead, <1>Install, <1>Abandon, <1>EvictFile,
     <1>DeleteFile, <1>Close DEF Next

\* Who has a handle has kept it, or was given it by the lookup or by Insert.
LEMMA HolderFrom ==
  ASSUME IInv, Next, NEW d \in Client, NEW h \in Handle, Holds(d, h)'
  PROVE  \/ Holds(d, h) /\ client'[d].want = client[d].want
         \/ \E n \in File : /\ cache.table[n] # None /\ h = cache.table[n] /\ client'[d].want = n
         \/ Insert(d) /\ cache.entry[h] = Free
<1>0. TypeOK /\ ClientsOK /\ client \in [Client -> ClientType]
  BY DEF IInv, TypeOK
<1> DEFINE Goal == \/ Holds(d, h) /\ client'[d].want = client[d].want
                   \/ \E n \in File : /\ cache.table[n] # None /\ h = cache.table[n] /\ client'[d].want = n
                   \/ Insert(d) /\ cache.entry[h] = Free
<1>1. client'[d] = client[d] => Goal
  BY DEF Holds
<1>BeginRead. ASSUME NEW c \in Client, BeginRead(c) PROVE Goal
  <2>1. Becomes(c, "pinned", live, 0, 0, None)
    BY <1>0, <1>BeginRead, Moves
  <2>2. CASE d = c
    BY <1>0, <1>BeginRead, <2>1, <2>2 DEF BeginRead, Becomes, Holds
  <2>3. CASE d # c
    BY <1>1, <2>1, <2>3 DEF Becomes
  <2> QED  BY <2>2, <2>3
<1>BeginBuild. ASSUME NEW c \in Client, BeginBuild(c) PROVE Goal
  <2>1. next \in File /\ \E pins \in {{next}, live \cup {next}} : Becomes(c, "pinned", pins, next, 0, None)
    BY <1>0, <1>BeginBuild, Moves
  <2>2. CASE d = c
    BY <1>0, <1>BeginBuild, <2>1, <2>2 DEF BeginBuild, Becomes, Holds
  <2>3. CASE d # c
    BY <1>1, <2>1, <2>3 DEF Becomes
  <2> QED  BY <2>2, <2>3
<1>Lookup. ASSUME NEW c \in Client, Lookup(c) PROVE Goal
  <2>1. \E n \in File : /\ n \in client[c].pins
                 /\ \/ Hit(c, n) /\ Becomes(c, "using", client[c].pins, client[c].build, n, cache.table[n])
                    \/ Miss(c, n) /\ Becomes(c, "miss", client[c].pins, client[c].build, n, client[c].handle)
    BY <1>0, <1>Lookup, Moves
  <2>2. CASE d = c
    BY <1>0, <1>Lookup, <2>1, <2>2 DEF Lookup, Becomes, Holds, Hit, Miss, InsertEntry
  <2>3. CASE d # c
    BY <1>1, <2>1, <2>3 DEF Becomes
  <2> QED  BY <2>2, <2>3
<1>OpenTable. ASSUME NEW c \in Client, OpenTable(c) PROVE Goal
  <2>1. Becomes(c, "opened", client[c].pins, client[c].build, client[c].want, client[c].handle)
    BY <1>0, <1>OpenTable, Moves
  <2>2. CASE d = c
    BY <1>0, <1>OpenTable, <2>1, <2>2 DEF OpenTable, Becomes, Holds
  <2>3. CASE d # c
    BY <1>1, <2>1, <2>3 DEF Becomes
  <2> QED  BY <2>2, <2>3
<1>OpenFails. ASSUME NEW c \in Client, OpenFails(c) PROVE Goal
  <2>1. \E pc \in {"pinned", "failed"} : Becomes(c, pc, client[c].pins, client[c].build, client[c].want, client[c].handle)
    BY <1>0, <1>OpenFails, Moves
  <2>2. CASE d = c
    BY <1>0, <1>OpenFails, <2>1, <2>2 DEF OpenFails, Becomes, Holds
  <2>3. CASE d # c
    BY <1>1, <2>1, <2>3 DEF Becomes
  <2> QED  BY <2>2, <2>3
<1>Insert. ASSUME NEW c \in Client, Insert(c) PROVE Goal
  <2>1. \E g \in Handle : InsertEntry(c, g) /\ Becomes(c, "evicting", client[c].pins, client[c].build, client[c].want, g)
    BY <1>0, <1>Insert, Moves
  <2>2. CASE d = c
    <3>1. PICK g \in Handle : cache.entry[g] = Free /\ client'[c].handle = g
      BY <2>1 DEF Becomes, InsertEntry
    <3>2. g = h
      BY <2>2, <3>1 DEF Holds
    <3> QED  BY <1>Insert, <2>2, <3>1, <3>2
  <2>3. CASE d # c
    BY <1>1, <2>1, <2>3 DEF Becomes
  <2> QED  BY <2>2, <2>3
<1>InsertDone. ASSUME NEW c \in Client, InsertDone(c) PROVE Goal
  <2>1. Becomes(c, "using", client[c].pins, client[c].build, client[c].want, client[c].handle)
    BY <1>0, <1>InsertDone, Moves
  <2>2. CASE d = c
    BY <1>0, <1>InsertDone, <2>1, <2>2 DEF InsertDone, Becomes, Holds
  <2>3. CASE d # c
    BY <1>1, <2>1, <2>3 DEF Becomes
  <2> QED  BY <2>2, <2>3
<1>Release. ASSUME NEW c \in Client, Release(c) PROVE Goal
  <2>1. Becomes(c, "pinned", client[c].pins, client[c].build, 0, None)
    BY <1>0, <1>Release, Moves
  <2>2. CASE d = c
    BY <1>0, <1>Release, <2>1, <2>2 DEF Release, Becomes, Holds
  <2>3. CASE d # c
    BY <1>1, <2>1, <2>3 DEF Becomes
  <2> QED  BY <2>2, <2>3
<1>EndRead. ASSUME NEW c \in Client, EndRead(c) PROVE Goal
  <2>1. Becomes(c, "idle", {}, 0, 0, None) /\ client'[c] = Resting
    BY <1>0, <1>EndRead, Moves
  <2>2. CASE d = c
    BY <1>0, <1>EndRead, <2>1, <2>2 DEF EndRead, Becomes, Holds
  <2>3. CASE d # c
    BY <1>1, <2>1, <2>3 DEF Becomes
  <2> QED  BY <2>2, <2>3
<1>Install. ASSUME NEW c \in Client, Install(c) PROVE Goal
  <2>1. Becomes(c, "idle", {}, 0, 0, None) /\ client'[c] = Resting
    BY <1>0, <1>Install, Moves
  <2>2. CASE d = c
    BY <1>0, <1>Install, <2>1, <2>2 DEF Install, Becomes, Holds
  <2>3. CASE d # c
    BY <1>1, <2>1, <2>3 DEF Becomes
  <2> QED  BY <2>2, <2>3
<1>Abandon. ASSUME NEW c \in Client, Abandon(c) PROVE Goal
  <2>1. Becomes(c, "idle", {}, 0, 0, None) /\ client'[c] = Resting
    BY <1>0, <1>Abandon, Moves
  <2>2. CASE d = c
    BY <1>0, <1>Abandon, <2>1, <2>2 DEF Abandon, Becomes, Holds
  <2>3. CASE d # c
    BY <1>1, <2>1, <2>3 DEF Becomes
  <2> QED  BY <2>2, <2>3
<1>EvictOldest. ASSUME NEW c \in Client, EvictOldest(c) PROVE Goal
  BY <1>1, <1>EvictOldest DEF EvictOldest
<1>EvictFile. EvictFile => Goal
  BY <1>1 DEF EvictFile
<1>DeleteFile. DeleteFile => Goal
  BY <1>1 DEF DeleteFile
<1>Close. Close => Goal
  BY <1>1 DEF Close
<1> HIDE DEF Goal
<1>2. Goal
  BY <1>BeginRead, <1>BeginBuild, <1>Lookup, <1>OpenTable, <1>OpenFails, <1>Insert,
     <1>EvictOldest, <1>InsertDone, <1>Release, <1>EndRead, <1>Install, <1>Abandon, <1>EvictFile,
     <1>DeleteFile, <1>Close DEF Next
<1> QED  BY <1>2 DEF Goal

\* No action takes an entry away from the client that has a handle on it.
LEMMA KeyStep ==
  ASSUME IInv, Next, NEW d \in Client
  PROVE  KeyOK(d)'
<1> SUFFICES ASSUME client'[d].pc \in {"evicting", "using"}
             PROVE  cache'.entry[client'[d].handle].key = client'[d].want
  BY DEF KeyOK
<1>0. Shard(cache, Count, None) /\ \A e \in Client : KeyOK(e)
  BY DEF IInv, ClientsOK, HandleOK
<1>1. PICK h \in Handle : h = client'[d].handle
  BY ControlStep DEF ControlOK
<1>2. Holds(d, h)'
  BY <1>1 DEF Holds
<1>3. cache'.entry[h].key # 0 /\ KeysKept
  <2>1. Shard(cache', Count', None) /\ KeysKept
    BY ShardStep
  <2>2. Count'[h] > 0
    BY <1>2, CountType
  <2>3. /\ cache'.entry[h] \in LRUHandle
        /\ cache'.entry[h].refs = Count'[h] + (IF cache'.entry[h].in_cache THEN 1 ELSE 0)
        /\ Count'[h] \in Nat
        /\ cache'.entry[h].key = 0 <=> cache'.entry[h].refs = 0
    BY <2>1, ShardFacts
  <2> QED  BY <2>1, <2>2, <2>3
<1>4. ASSUME cache.entry[h] = Free PROVE \A e \in Client : ~Holds(e, h)
  <2>1. /\ cache.entry[h].refs = Count[h] + (IF cache.entry[h].in_cache THEN 1 ELSE 0)
        /\ Count[h] \in Nat
    BY <1>0, ShardFacts
  <2>2. Count[h] = 0
    BY <1>4, <2>1 DEF Free
  <2> QED  BY <2>2, CountType
<1>5. CASE cache'.entry[h].key \in {0, cache.entry[h].key}
  <2>1. cache'.entry[h].key = cache.entry[h].key
    BY <1>3, <1>5
  <2>2. \/ Holds(d, h) /\ client'[d].want = client[d].want
        \/ \E n \in File : /\ cache.table[n] # None /\ h = cache.table[n] /\ client'[d].want = n
        \/ Insert(d) /\ cache.entry[h] = Free
    BY <1>2, HolderFrom
  <2>3. cache.entry[h].key # 0
    BY <1>3, <2>1
  <2>4. cache.entry[h] # Free
    BY <2>3 DEF Free
  <2>5. \A n \in File : cache.table[n] # None => cache.entry[cache.table[n]].key = n
    BY <1>0, ShardFacts
  <2>6. Holds(d, h) => cache.entry[h].key = client[d].want
    BY <1>0 DEF Holds, KeyOK
  <2> QED  BY <1>1, <2>1, <2>2, <2>4, <2>5, <2>6
<1>6. ASSUME NEW c \in Client, Insert(c), client'[c].handle = h,
             cache'.entry[h].key \in {0, client[c].want}
      PROVE  cache'.entry[h].key = client'[d].want
  <2>1. PICK g \in Handle :
          InsertEntry(c, g) /\ Becomes(c, "evicting", client[c].pins, client[c].build, client[c].want, g)
    BY <1>6, Moves DEF IInv
  <2>2. g = h /\ cache.entry[h] = Free
    BY <1>6, <2>1 DEF Becomes, InsertEntry
  <2>3. d = c
    <3>1. d # c => client'[d] = client[d]
      BY <2>1 DEF Becomes
    <3>2. client'[d] = client[d] => Holds(d, h)
      BY <1>1 DEF Holds
    <3> QED  BY <1>4, <2>2, <3>1, <3>2
  <2> QED  BY <1>3, <1>6, <2>1, <2>3 DEF Becomes
<1> QED  BY <1>1, <1>3, <1>5, <1>6 DEF KeysKept

\* Only Insert puts an entry into the hash table, for what its client wants.
LEMMA TableStep ==
  ASSUME IInv, Next, NEW n \in File, cache'.table[n] # None
  PROVE  \/ cache.table[n] # None
         \/ \E c \in Client : Insert(c) /\ client[c].want = n
<1>0. Shard(cache, Count, None) /\ TypeOK /\ ClientsOK
  BY DEF IInv
<1>1. cache \in CacheType
  BY <1>0 DEF TypeOK
<1> DEFINE Goal == \/ cache.table[n] # None
                   \/ \E c \in Client : Insert(c) /\ client[c].want = n
<1>2. cache'.table = cache.table => Goal
  OBVIOUS
<1>3. ASSUME NEW m \in File, cache' = Erased(cache, m) PROVE Goal
  <2>1. Erased(cache, m).table = [cache.table EXCEPT ![m] = None]
    BY <1>0, ErasedOK
  <2> QED  BY <1>1, <1>3, <2>1 DEF CacheType
<1>Lookup. ASSUME NEW c \in Client, Lookup(c) PROVE Goal
  <2>1. PICK m \in File : /\ m \in client[c].pins
          /\ \/ Hit(c, m) /\ Becomes(c, "using", client[c].pins, client[c].build, m, cache.table[m])
             \/ Miss(c, m) /\ Becomes(c, "miss", client[c].pins, client[c].build, m, client[c].handle)
    BY <1>0, <1>Lookup, Moves
  <2>2. CASE Miss(c, m)
    BY <1>2, <2>2 DEF Miss
  <2>3. CASE Hit(c, m)
    <3>1. PICK h \in Handle : h = cache.table[m] /\ cache.entry[h].in_cache
      BY <1>0, <2>3, ShardFacts DEF Hit
    <3>2. Ref(cache, h).table = cache.table
      BY <1>0, <3>1, RefOK
    <3> QED  BY <1>2, <2>3, <3>1, <3>2 DEF Hit
  <2> QED  BY <2>1, <2>2, <2>3
<1>Insert. ASSUME NEW c \in Client, Insert(c) PROVE Goal
  <2>1. PICK h \in Handle :
          InsertEntry(c, h) /\ Becomes(c, "evicting", client[c].pins, client[c].build, client[c].want, h)
    BY <1>0, <1>Insert, Moves
  <2>2. client[c].want \in File
    <3>1. client[c].want \in client[c].pins /\ client[c].pins \subseteq File
      BY <1>0, <1>Insert DEF Insert, ClientsOK, HandleOK, ControlOK, Wants, TypeOK, ClientType
    <3> QED  BY <3>1
  <2>3. cache.entry[h] = Free /\ cache' = Inserted(cache, h, client[c].want)
    BY <2>1 DEF InsertEntry
  <2> DEFINE w == client[c].want
  <2>4. /\ Shard(Inserted(cache, h, w), [Count EXCEPT ![h] = @ + 1], None)
        /\ Inserted(cache, h, w).table = IF Capacity = 0 THEN cache.table ELSE [cache.table EXCEPT ![w] = h]
        /\ \A g \in Handle :
             Inserted(cache, h, w).entry[g].key \in {0, IF g = h THEN w ELSE cache.entry[g].key}
    BY <1>0, <2>2, <2>3, InsertedOK
  <2>5. n # w => cache'.table[n] = cache.table[n]
    BY <1>1, <2>2, <2>3, <2>4 DEF CacheType
  <2> QED  BY <1>Insert, <2>5
<1>EvictOldest. ASSUME NEW c \in Client, EvictOldest(c) PROVE Goal
  <2>1. cache.lru \in Seq(Handle) /\ cache.lru # <<>>
    BY <1>1, <1>EvictOldest DEF EvictOldest, Overfull, CacheType
  <2>2. PICK h \in Handle : h = Head(cache.lru) /\ In(cache.lru, h)
    <3>1. 1 \in DOMAIN cache.lru /\ Head(cache.lru) = cache.lru[1] /\ Head(cache.lru) \in Handle
      BY <2>1
    <3> QED  BY <3>1 DEF In
  <2>3. cache.entry[h].key \in File
    BY <1>0, <2>2, ShardFacts
  <2>4. cache' = Erased(cache, cache.entry[h].key)
    BY <1>EvictOldest, <2>2 DEF EvictOldest
  <2> QED  BY <1>3, <2>3, <2>4
<1>Release. ASSUME NEW c \in Client, Release(c) PROVE Goal
  <2>1. PICK h \in Handle : h = client[c].handle /\ client[c].pc = "using" /\ cache' = Unref(cache, h)
    BY <1>0, <1>Release DEF Release, ClientsOK, HandleOK, ControlOK
  <2>2. Count[h] > 0
    BY <2>1, CountType DEF Holds
  <2>3. Unref(cache, h).table = cache.table
    BY <1>0, <2>2, UnrefOK
  <2> QED  BY <1>2, <2>1, <2>3
<1>EvictFile. EvictFile => Goal
  <2>1. ASSUME EvictFile PROVE \E m \in File : cache' = Erased(cache, m)
    BY <1>0, <2>1 DEF EvictFile, TypeOK
  <2> QED  BY <1>3, <2>1
<1>Close. Close => Goal
  BY DEF Close
<1>4. ASSUME UNCHANGED cache PROVE Goal
  BY <1>2, <1>4
<1> HIDE DEF Goal
<1>5. ASSUME NEW c \in Client,
             BeginRead(c) \/ BeginBuild(c) \/ OpenTable(c) \/ OpenFails(c) \/ InsertDone(c)
             \/ EndRead(c) \/ Install(c) \/ Abandon(c)
      PROVE  Goal
  BY <1>4, <1>5 DEF BeginRead, BeginBuild, OpenTable, OpenFails, InsertDone, EndRead, Install, Abandon
<1>6. DeleteFile => Goal
  BY <1>4 DEF DeleteFile
<1>7. Goal
  BY <1>5, <1>6, <1>Lookup, <1>Insert, <1>EvictOldest, <1>Release, <1>EvictFile, <1>Close DEF Next
<1> QED  BY <1>7 DEF Goal

\* What is being built stays its builder's own.
LEMMA OwnStep ==
  ASSUME IInv, Next, NEW d \in Client
  PROVE  OwnOK(d)'
<1>0. /\ TypeOK /\ ClientsOK /\ client \in [Client -> ClientType]
      /\ \A e \in Client : OwnOK(e) /\ client[e].pins \subseteq disk
      /\ live \subseteq disk /\ disk \subseteq Nat /\ next \in Nat /\ \A n \in disk : n < next
  BY DEF IInv, TypeOK, ClientsOK, HandleOK, BuildOK, FilesOK, PinsOK, File
<1>1. next \notin disk
  BY <1>0
<1>BeginRead. ASSUME NEW c \in Client, BeginRead(c) PROVE OwnOK(d)'
  <2>1. Becomes(c, "pinned", live, 0, 0, None)
    BY <1>0, <1>BeginRead, Moves
  <2>2. CASE d = c
    BY <1>0, <1>1, <1>BeginRead, <2>1, <2>2 DEF BeginRead, Becomes, OwnOK
  <2>3. CASE d # c
    BY <1>0, <1>1, <1>BeginRead, <2>1, <2>3 DEF BeginRead, Becomes, OwnOK
  <2> QED  BY <2>2, <2>3
<1>BeginBuild. ASSUME NEW c \in Client, BeginBuild(c) PROVE OwnOK(d)'
  <2>1. next \in File /\ \E pins \in {{next}, live \cup {next}} : Becomes(c, "pinned", pins, next, 0, None)
    BY <1>0, <1>BeginBuild, Moves
  <2>2. CASE d = c
    BY <1>0, <1>1, <1>BeginBuild, <2>1, <2>2 DEF BeginBuild, Becomes, OwnOK
  <2>3. CASE d # c
    BY <1>0, <1>1, <1>BeginBuild, <2>1, <2>3 DEF BeginBuild, Becomes, OwnOK
  <2> QED  BY <2>2, <2>3
<1>Lookup. ASSUME NEW c \in Client, Lookup(c) PROVE OwnOK(d)'
  <2>1. \E n \in File : /\ n \in client[c].pins
                 /\ \/ Hit(c, n) /\ Becomes(c, "using", client[c].pins, client[c].build, n, cache.table[n])
                    \/ Miss(c, n) /\ Becomes(c, "miss", client[c].pins, client[c].build, n, client[c].handle)
    BY <1>0, <1>Lookup, Moves
  <2>2. CASE d = c
    BY <1>0, <1>1, <1>Lookup, <2>1, <2>2 DEF Lookup, Becomes, OwnOK
  <2>3. CASE d # c
    BY <1>0, <1>1, <1>Lookup, <2>1, <2>3 DEF Lookup, Becomes, OwnOK
  <2> QED  BY <2>2, <2>3
<1>OpenTable. ASSUME NEW c \in Client, OpenTable(c) PROVE OwnOK(d)'
  <2>1. Becomes(c, "opened", client[c].pins, client[c].build, client[c].want, client[c].handle)
    BY <1>0, <1>OpenTable, Moves
  <2>2. CASE d = c
    BY <1>0, <1>1, <1>OpenTable, <2>1, <2>2 DEF OpenTable, Becomes, OwnOK
  <2>3. CASE d # c
    BY <1>0, <1>1, <1>OpenTable, <2>1, <2>3 DEF OpenTable, Becomes, OwnOK
  <2> QED  BY <2>2, <2>3
<1>OpenFails. ASSUME NEW c \in Client, OpenFails(c) PROVE OwnOK(d)'
  <2>1. \E pc \in {"pinned", "failed"} : Becomes(c, pc, client[c].pins, client[c].build, client[c].want, client[c].handle)
    BY <1>0, <1>OpenFails, Moves
  <2>2. CASE d = c
    BY <1>0, <1>1, <1>OpenFails, <2>1, <2>2 DEF OpenFails, Becomes, OwnOK
  <2>3. CASE d # c
    BY <1>0, <1>1, <1>OpenFails, <2>1, <2>3 DEF OpenFails, Becomes, OwnOK
  <2> QED  BY <2>2, <2>3
<1>Insert. ASSUME NEW c \in Client, Insert(c) PROVE OwnOK(d)'
  <2>1. \E h \in Handle : InsertEntry(c, h) /\ Becomes(c, "evicting", client[c].pins, client[c].build, client[c].want, h)
    BY <1>0, <1>Insert, Moves
  <2>2. CASE d = c
    BY <1>0, <1>1, <1>Insert, <2>1, <2>2 DEF Insert, Becomes, OwnOK
  <2>3. CASE d # c
    BY <1>0, <1>1, <1>Insert, <2>1, <2>3 DEF Insert, Becomes, OwnOK
  <2> QED  BY <2>2, <2>3
<1>InsertDone. ASSUME NEW c \in Client, InsertDone(c) PROVE OwnOK(d)'
  <2>1. Becomes(c, "using", client[c].pins, client[c].build, client[c].want, client[c].handle)
    BY <1>0, <1>InsertDone, Moves
  <2>2. CASE d = c
    BY <1>0, <1>1, <1>InsertDone, <2>1, <2>2 DEF InsertDone, Becomes, OwnOK
  <2>3. CASE d # c
    BY <1>0, <1>1, <1>InsertDone, <2>1, <2>3 DEF InsertDone, Becomes, OwnOK
  <2> QED  BY <2>2, <2>3
<1>Release. ASSUME NEW c \in Client, Release(c) PROVE OwnOK(d)'
  <2>1. Becomes(c, "pinned", client[c].pins, client[c].build, 0, None)
    BY <1>0, <1>Release, Moves
  <2>2. CASE d = c
    BY <1>0, <1>1, <1>Release, <2>1, <2>2 DEF Release, Becomes, OwnOK
  <2>3. CASE d # c
    BY <1>0, <1>1, <1>Release, <2>1, <2>3 DEF Release, Becomes, OwnOK
  <2> QED  BY <2>2, <2>3
<1>EndRead. ASSUME NEW c \in Client, EndRead(c) PROVE OwnOK(d)'
  <2>1. Becomes(c, "idle", {}, 0, 0, None) /\ client'[c] = Resting
    BY <1>0, <1>EndRead, Moves
  <2>2. CASE d = c
    BY <1>0, <1>1, <1>EndRead, <2>1, <2>2 DEF EndRead, Becomes, OwnOK
  <2>3. CASE d # c
    BY <1>0, <1>1, <1>EndRead, <2>1, <2>3 DEF EndRead, Becomes, OwnOK
  <2> QED  BY <2>2, <2>3
<1>Install. ASSUME NEW c \in Client, Install(c) PROVE OwnOK(d)'
  <2>1. Becomes(c, "idle", {}, 0, 0, None) /\ client'[c] = Resting
    BY <1>0, <1>Install, Moves
  <2>2. CASE d = c
    BY <1>0, <1>1, <1>Install, <2>1, <2>2 DEF Install, Becomes, OwnOK
  <2>3. CASE d # c
    BY <1>0, <1>1, <1>Install, <2>1, <2>3 DEF Install, Becomes, OwnOK
  <2> QED  BY <2>2, <2>3
<1>Abandon. ASSUME NEW c \in Client, Abandon(c) PROVE OwnOK(d)'
  <2>1. Becomes(c, "idle", {}, 0, 0, None) /\ client'[c] = Resting
    BY <1>0, <1>Abandon, Moves
  <2>2. CASE d = c
    BY <1>0, <1>1, <1>Abandon, <2>1, <2>2 DEF Abandon, Becomes, OwnOK
  <2>3. CASE d # c
    BY <1>0, <1>1, <1>Abandon, <2>1, <2>3 DEF Abandon, Becomes, OwnOK
  <2> QED  BY <2>2, <2>3
<1>EvictOldest. ASSUME NEW c \in Client, EvictOldest(c) PROVE OwnOK(d)'
  BY <1>0, <1>EvictOldest DEF EvictOldest, OwnOK
<1>EvictFile. EvictFile => OwnOK(d)'
  BY <1>0 DEF EvictFile, OwnOK
<1>DeleteFile. DeleteFile => OwnOK(d)'
  BY <1>0 DEF DeleteFile, OwnOK
<1>Close. Close => OwnOK(d)'
  BY <1>0 DEF Close, OwnOK
<1> QED
  BY <1>BeginRead, <1>BeginBuild, <1>Lookup, <1>OpenTable, <1>OpenFails, <1>Insert,
     <1>EvictOldest, <1>InsertDone, <1>Release, <1>EndRead, <1>Install, <1>Abandon, <1>EvictFile,
     <1>DeleteFile, <1>Close DEF Next

\* A table that is being built comes into the cache by its builder alone.
LEMMA FreshStep ==
  ASSUME IInv, Next, NEW d \in Client
  PROVE  FreshOK(d)'
<1> SUFFICES ASSUME client'[d].build # 0, client'[d].want = client'[d].build,
                    client'[d].pc \in {"miss", "opened", "failed"},
                    cache'.table[client'[d].build] # None
             PROVE  FALSE
  BY DEF FreshOK
<1>0. /\ TypeOK /\ ClientsOK /\ client \in [Client -> ClientType]
      /\ \A e \in Client : OwnOK(e) /\ FreshOK(e) /\ ControlOK(e)
  BY DEF IInv, TypeOK, ClientsOK, HandleOK, BuildOK
<1>1. PICK b \in File : b = client'[d].build
  BY TypeStep DEF TypeOK, ClientType
<1>2. cache.table[b] # None \/ \E c \in Client : Insert(c) /\ client[c].want = b
  BY <1>1, TableStep
<1>3. ASSUME NEW c \in Client, Insert(c), client[c].want = b PROVE FALSE
  <2>1. \E h \in Handle :
          InsertEntry(c, h) /\ Becomes(c, "evicting", client[c].pins, client[c].build, client[c].want, h)
    BY <1>0, <1>3, Moves
  <2>2. client'[c].pc = "evicting" /\ \A e \in Client \ {c} : client'[e] = client[e]
    BY <2>1 DEF Becomes
  <2>3. b \in client[c].pins
    BY <1>0, <1>3 DEF Insert, ControlOK, Wants
  <2> QED  BY <1>0, <1>1, <2>2, <2>3 DEF OwnOK
<1>4. ASSUME cache.table[b] # None PROVE FALSE
  <2>1. client'[d] # client[d]
    BY <1>0, <1>1, <1>4 DEF FreshOK
  <2>BeginRead. ASSUME NEW c \in Client, BeginRead(c) PROVE FALSE
    <3>1. Becomes(c, "pinned", live, 0, 0, None)
      BY <1>0, <2>BeginRead, Moves
    <3>2. d = c
      BY <2>1, <3>1 DEF Becomes
    <3> QED  BY <1>0, <1>1, <1>4, <2>BeginRead, <3>1, <3>2 DEF BeginRead, Becomes, FreshOK
  <2>BeginBuild. ASSUME NEW c \in Client, BeginBuild(c) PROVE FALSE
    <3>1. next \in File /\ \E pins \in {{next}, live \cup {next}} : Becomes(c, "pinned", pins, next, 0, None)
      BY <1>0, <2>BeginBuild, Moves
    <3>2. d = c
      BY <2>1, <3>1 DEF Becomes
    <3> QED  BY <1>0, <1>1, <1>4, <2>BeginBuild, <3>1, <3>2 DEF BeginBuild, Becomes, FreshOK
  <2>Lookup. ASSUME NEW c \in Client, Lookup(c) PROVE FALSE
    <3>1. \E n \in File : /\ n \in client[c].pins
                   /\ \/ Hit(c, n) /\ Becomes(c, "using", client[c].pins, client[c].build, n, cache.table[n])
                      \/ Miss(c, n) /\ Becomes(c, "miss", client[c].pins, client[c].build, n, client[c].handle)
      BY <1>0, <2>Lookup, Moves
    <3>2. d = c
      BY <2>1, <3>1 DEF Becomes
    <3> QED  BY <1>0, <1>1, <1>4, <2>Lookup, <3>1, <3>2 DEF Lookup, Becomes, FreshOK, Miss
  <2>OpenTable. ASSUME NEW c \in Client, OpenTable(c) PROVE FALSE
    <3>1. Becomes(c, "opened", client[c].pins, client[c].build, client[c].want, client[c].handle)
      BY <1>0, <2>OpenTable, Moves
    <3>2. d = c
      BY <2>1, <3>1 DEF Becomes
    <3> QED  BY <1>0, <1>1, <1>4, <2>OpenTable, <3>1, <3>2 DEF OpenTable, Becomes, FreshOK
  <2>OpenFails. ASSUME NEW c \in Client, OpenFails(c) PROVE FALSE
    <3>1. \E pc \in {"pinned", "failed"} : Becomes(c, pc, client[c].pins, client[c].build, client[c].want, client[c].handle)
      BY <1>0, <2>OpenFails, Moves
    <3>2. d = c
      BY <2>1, <3>1 DEF Becomes
    <3> QED  BY <1>0, <1>1, <1>4, <2>OpenFails, <3>1, <3>2 DEF OpenFails, Becomes, FreshOK
  <2>InsertDone. ASSUME NEW c \in Client, InsertDone(c) PROVE FALSE
    <3>1. Becomes(c, "using", client[c].pins, client[c].build, client[c].want, client[c].handle)
      BY <1>0, <2>InsertDone, Moves
    <3>2. d = c
      BY <2>1, <3>1 DEF Becomes
    <3> QED  BY <1>0, <1>1, <1>4, <2>InsertDone, <3>1, <3>2 DEF InsertDone, Becomes, FreshOK
  <2>Release. ASSUME NEW c \in Client, Release(c) PROVE FALSE
    <3>1. Becomes(c, "pinned", client[c].pins, client[c].build, 0, None)
      BY <1>0, <2>Release, Moves
    <3>2. d = c
      BY <2>1, <3>1 DEF Becomes
    <3> QED  BY <1>0, <1>1, <1>4, <2>Release, <3>1, <3>2 DEF Release, Becomes, FreshOK
  <2>EndRead. ASSUME NEW c \in Client, EndRead(c) PROVE FALSE
    <3>1. Becomes(c, "idle", {}, 0, 0, None) /\ client'[c] = Resting
      BY <1>0, <2>EndRead, Moves
    <3>2. d = c
      BY <2>1, <3>1 DEF Becomes
    <3> QED  BY <1>0, <1>1, <1>4, <2>EndRead, <3>1, <3>2 DEF EndRead, Becomes, FreshOK
  <2>Install. ASSUME NEW c \in Client, Install(c) PROVE FALSE
    <3>1. Becomes(c, "idle", {}, 0, 0, None) /\ client'[c] = Resting
      BY <1>0, <2>Install, Moves
    <3>2. d = c
      BY <2>1, <3>1 DEF Becomes
    <3> QED  BY <1>0, <1>1, <1>4, <2>Install, <3>1, <3>2 DEF Install, Becomes, FreshOK
  <2>Abandon. ASSUME NEW c \in Client, Abandon(c) PROVE FALSE
    <3>1. Becomes(c, "idle", {}, 0, 0, None) /\ client'[c] = Resting
      BY <1>0, <2>Abandon, Moves
    <3>2. d = c
      BY <2>1, <3>1 DEF Becomes
    <3> QED  BY <1>0, <1>1, <1>4, <2>Abandon, <3>1, <3>2 DEF Abandon, Becomes, FreshOK
  <2>Insert. ASSUME NEW c \in Client, Insert(c) PROVE FALSE
    <3>1. \E h \in Handle :
            InsertEntry(c, h) /\ Becomes(c, "evicting", client[c].pins, client[c].build, client[c].want, h)
      BY <1>0, <2>Insert, Moves
    <3> QED  BY <2>1, <3>1 DEF Becomes
  <2>EvictOldest. ASSUME NEW c \in Client, EvictOldest(c) PROVE FALSE
    BY <2>1, <2>EvictOldest DEF EvictOldest
  <2>2. ~EvictFile /\ ~DeleteFile /\ ~Close
    BY <2>1 DEF EvictFile, DeleteFile, Close
  <2> QED
    BY <2>2, <2>BeginRead, <2>BeginBuild, <2>Lookup, <2>OpenTable, <2>OpenFails, <2>Insert,
       <2>EvictOldest, <2>InsertDone, <2>Release, <2>EndRead, <2>Install, <2>Abandon DEF Next
<1> QED  BY <1>2, <1>3, <1>4

\* Nothing that is going to be deleted is live, or pinned by anybody.
LEMMA PinsStep ==
  ASSUME IInv, Next
  PROVE  PinsOK'
<1>0. /\ TypeOK /\ ClientsOK /\ client \in [Client -> ClientType] /\ PinsOK /\ EvictedOK
      /\ \A e \in Client : OwnOK(e)
      /\ disk \subseteq Nat /\ next \in Nat
  BY DEF IInv, TypeOK, ClientsOK, BuildOK, FilesOK, File
<1>BeginRead. ASSUME NEW c \in Client, BeginRead(c) PROVE PinsOK'
  <2>1. Becomes(c, "pinned", live, 0, 0, None)
    BY <1>0, <1>BeginRead, Moves
  <2> QED  BY <1>0, <1>BeginRead, <2>1 DEF BeginRead, Becomes, PinsOK, OwnOK, DBMutexFree
<1>BeginBuild. ASSUME NEW c \in Client, BeginBuild(c) PROVE PinsOK'
  <2>1. next \in File /\ \E pins \in {{next}, live \cup {next}} : Becomes(c, "pinned", pins, next, 0, None)
    BY <1>0, <1>BeginBuild, Moves
  <2> QED  BY <1>0, <1>BeginBuild, <2>1 DEF BeginBuild, Becomes, PinsOK, OwnOK, DBMutexFree
<1>Lookup. ASSUME NEW c \in Client, Lookup(c) PROVE PinsOK'
  <2>1. \E n \in File : /\ n \in client[c].pins
                 /\ \/ Hit(c, n) /\ Becomes(c, "using", client[c].pins, client[c].build, n, cache.table[n])
                    \/ Miss(c, n) /\ Becomes(c, "miss", client[c].pins, client[c].build, n, client[c].handle)
    BY <1>0, <1>Lookup, Moves
  <2> QED  BY <1>0, <1>Lookup, <2>1 DEF Lookup, Becomes, PinsOK, OwnOK, DBMutexFree
<1>OpenTable. ASSUME NEW c \in Client, OpenTable(c) PROVE PinsOK'
  <2>1. Becomes(c, "opened", client[c].pins, client[c].build, client[c].want, client[c].handle)
    BY <1>0, <1>OpenTable, Moves
  <2> QED  BY <1>0, <1>OpenTable, <2>1 DEF OpenTable, Becomes, PinsOK, OwnOK, DBMutexFree
<1>OpenFails. ASSUME NEW c \in Client, OpenFails(c) PROVE PinsOK'
  <2>1. \E pc \in {"pinned", "failed"} : Becomes(c, pc, client[c].pins, client[c].build, client[c].want, client[c].handle)
    BY <1>0, <1>OpenFails, Moves
  <2> QED  BY <1>0, <1>OpenFails, <2>1 DEF OpenFails, Becomes, PinsOK, OwnOK, DBMutexFree
<1>Insert. ASSUME NEW c \in Client, Insert(c) PROVE PinsOK'
  <2>1. \E h \in Handle : InsertEntry(c, h) /\ Becomes(c, "evicting", client[c].pins, client[c].build, client[c].want, h)
    BY <1>0, <1>Insert, Moves
  <2> QED  BY <1>0, <1>Insert, <2>1 DEF Insert, Becomes, PinsOK, OwnOK, DBMutexFree
<1>InsertDone. ASSUME NEW c \in Client, InsertDone(c) PROVE PinsOK'
  <2>1. Becomes(c, "using", client[c].pins, client[c].build, client[c].want, client[c].handle)
    BY <1>0, <1>InsertDone, Moves
  <2> QED  BY <1>0, <1>InsertDone, <2>1 DEF InsertDone, Becomes, PinsOK, OwnOK, DBMutexFree
<1>Release. ASSUME NEW c \in Client, Release(c) PROVE PinsOK'
  <2>1. Becomes(c, "pinned", client[c].pins, client[c].build, 0, None)
    BY <1>0, <1>Release, Moves
  <2> QED  BY <1>0, <1>Release, <2>1 DEF Release, Becomes, PinsOK, OwnOK, DBMutexFree
<1>EndRead. ASSUME NEW c \in Client, EndRead(c) PROVE PinsOK'
  <2>1. Becomes(c, "idle", {}, 0, 0, None) /\ client'[c] = Resting
    BY <1>0, <1>EndRead, Moves
  <2> QED  BY <1>0, <1>EndRead, <2>1 DEF EndRead, Becomes, PinsOK, OwnOK, DBMutexFree
<1>Install. ASSUME NEW c \in Client, Install(c) PROVE PinsOK'
  <2>1. Becomes(c, "idle", {}, 0, 0, None) /\ client'[c] = Resting
    BY <1>0, <1>Install, Moves
  <2>2. PICK del \in SUBSET (live \cap client[c].pins) : live' = (live \ del) \cup {client[c].build}
    BY <1>Install DEF Install
  <2>3. live' \subseteq disk /\ disk' = disk /\ next' = next
    <3>1. client[c].build \in client[c].pins /\ client[c].pins \subseteq disk /\ live \subseteq disk
      BY <1>0, <1>Install DEF Install, OwnOK, PinsOK
    <3>2. disk' = disk /\ next' = next
      BY <1>Install DEF Install
    <3> QED  BY <2>2, <3>1, <3>2
  <2>4. obsolete' = {} \/ obsolete' = disk \ (live' \cup PinnedBy(Client \ {c}))
    BY <1>Install DEF Install
  <2>5. ASSUME NEW e \in Client
        PROVE  client'[e].pins \subseteq disk /\ obsolete' \cap client'[e].pins = {}
    <3>1. CASE e = c
      BY <2>1, <3>1 DEF Becomes
    <3>2. CASE e # c
      <4>1. client'[e].pins = client[e].pins /\ client[e].pins \subseteq disk
        BY <1>0, <2>1, <3>2 DEF Becomes, PinsOK
      <4>2. client[e].pins \subseteq PinnedBy(Client \ {c})
        BY <3>2 DEF PinnedBy
      <4> QED  BY <2>4, <4>1, <4>2
    <3> QED  BY <3>1, <3>2
  <2>6. obsolete' \cap live' = {}
    BY <2>4
  <2> QED  BY <1>0, <2>3, <2>5, <2>6 DEF PinsOK
<1>Abandon. ASSUME NEW c \in Client, Abandon(c) PROVE PinsOK'
  <2>1. Becomes(c, "idle", {}, 0, 0, None) /\ client'[c] = Resting
    BY <1>0, <1>Abandon, Moves
  <2> QED  BY <1>0, <1>Abandon, <2>1 DEF Abandon, Becomes, PinsOK, OwnOK, DBMutexFree
<1>EvictOldest. ASSUME NEW c \in Client, EvictOldest(c) PROVE PinsOK'
  BY <1>0, <1>EvictOldest DEF EvictOldest, PinsOK
<1>EvictFile. EvictFile => PinsOK'
  BY <1>0 DEF EvictFile, PinsOK, EvictedOK
<1>DeleteFile. DeleteFile => PinsOK'
  BY <1>0 DEF DeleteFile, PinsOK, EvictedOK
<1>Close. Close => PinsOK'
  BY <1>0 DEF Close, PinsOK, EvictedOK
<1> QED
  BY <1>BeginRead, <1>BeginBuild, <1>Lookup, <1>OpenTable, <1>OpenFails, <1>Insert,
     <1>EvictOldest, <1>InsertDone, <1>Release, <1>EndRead, <1>Install, <1>Abandon, <1>EvictFile,
     <1>DeleteFile, <1>Close DEF Next

\* What DeleteObsoleteFiles evicted stays out of the cache until it is deleted.
LEMMA EvictedStep ==
  ASSUME IInv, Next
  PROVE  EvictedOK'
<1>0. /\ TypeOK /\ ClientsOK /\ Shard(cache, Count, None) /\ PinsOK /\ EvictedOK
      /\ \A e \in Client : ControlOK(e)
  BY DEF IInv, ClientsOK, HandleOK, FilesOK
<1>1. CASE EvictFile
  <2>1. PICK n \in obsolete : cache' = Erased(cache, n) /\ evicted' = n
    BY <1>1 DEF EvictFile
  <2>2. n \in File /\ obsolete' = obsolete
    BY <1>0, <1>1 DEF TypeOK, EvictFile
  <2>3. Erased(cache, n).table = [cache.table EXCEPT ![n] = None]
    BY <1>0, <2>2, ErasedOK
  <2>4. cache.table \in [File -> Handle \cup {None}]
    BY <1>0 DEF TypeOK, CacheType
  <2>5. cache'.table[n] = None
    BY <2>1, <2>2, <2>3, <2>4
  <2> QED  BY <2>1, <2>2, <2>5 DEF EvictedOK
<1>2. CASE DeleteFile
  BY <1>2 DEF DeleteFile, EvictedOK
<1>3. CASE ~EvictFile /\ ~DeleteFile
  <2>1. evicted' = evicted /\ (evicted # 0 => obsolete' = obsolete)
    <3>1. ASSUME NEW c \in Client, Install(c) PROVE evicted = 0 /\ evicted' = evicted
      BY <1>0, <3>1 DEF Install, DBMutexFree, EvictedOK
    <3>2. ASSUME NEW c \in Client,
                 BeginRead(c) \/ BeginBuild(c) \/ Lookup(c) \/ OpenTable(c) \/ OpenFails(c)
                 \/ Insert(c) \/ EvictOldest(c) \/ InsertDone(c) \/ Release(c) \/ EndRead(c)
                 \/ Abandon(c)
          PROVE  evicted' = evicted /\ obsolete' = obsolete
      BY <3>2 DEF BeginRead, BeginBuild, Lookup, OpenTable, OpenFails, Insert, EvictOldest,
                  InsertDone, Release, EndRead, Abandon
    <3>3. Close => evicted' = evicted /\ obsolete' = obsolete
      BY DEF Close
    <3> QED  BY <1>3, <3>1, <3>2, <3>3 DEF Next
  <2>2. ASSUME evicted # 0, cache'.table[evicted] # None PROVE FALSE
    <3>1. evicted \in File /\ evicted \in obsolete /\ cache.table[evicted] = None
      BY <1>0, <2>2 DEF TypeOK, EvictedOK
    <3>2. \E c \in Client : Insert(c) /\ client[c].want = evicted
      BY <2>2, <3>1, TableStep
    <3> QED  BY <1>0, <3>1, <3>2 DEF Insert, ControlOK, Wants, PinsOK
  <2> QED  BY <1>0, <2>1, <2>2 DEF EvictedOK
<1> QED  BY <1>1, <1>2, <1>3

\* An entry of the table n is in the hash table, or somebody has a handle on it.
LEMMA EntryUsed ==
  ASSUME IInv, NEW h \in Handle, cache.entry[h].key # 0
  PROVE  \/ cache.table[cache.entry[h].key] = h
         \/ \E e \in Client : Holds(e, h) /\ cache.entry[h].key \in client[e].pins
<1>0. Shard(cache, Count, None) /\ \A e \in Client : ControlOK(e) /\ KeyOK(e)
  BY DEF IInv, ClientsOK, HandleOK
<1>1. /\ cache.entry[h].refs = Count[h] + (IF cache.entry[h].in_cache THEN 1 ELSE 0)
      /\ Count[h] \in Nat
      /\ cache.entry[h].in_cache =>
           cache.entry[h].key \in File /\ cache.table[cache.entry[h].key] = h
      /\ cache.entry[h].key = 0 <=> cache.entry[h].refs = 0
  BY <1>0, ShardFacts
<1>2. CASE cache.entry[h].in_cache
  BY <1>1, <1>2
<1>3. CASE ~cache.entry[h].in_cache
  <2>1. Count[h] # 0
    BY <1>1, <1>3
  <2>2. Holders(h) # {}
    BY <2>1, FS_EmptySet DEF Count
  <2>3. PICK e \in Client : Holds(e, h)
    BY <2>2 DEF Holders
  <2>4. cache.entry[h].key \in client[e].pins
    BY <1>0, <2>3 DEF Holds, ControlOK, KeyOK, Wants
  <2> QED  BY <2>3, <2>4
<1> QED  BY <1>2, <1>3

\* The file of an open table is deleted by no action.
LEMMA ExistStep ==
  ASSUME IInv, Next
  PROVE  OpenTablesExist'
<1>0. /\ TypeOK /\ ClientsOK /\ Shard(cache, Count, None) /\ PinsOK /\ EvictedOK /\ OpenTablesExist
      /\ \A e \in Client : ControlOK(e) /\ OwnOK(e) /\ FreshOK(e)
  BY DEF IInv, ClientsOK, HandleOK, BuildOK, FilesOK
<1>1. \A c \in Client : client'[c].pins \subseteq disk'
  BY PinsStep DEF PinsOK
<1>2. ASSUME NEW h \in Handle, cache'.entry[h] # Free PROVE cache'.entry[h].key \in disk'
  <2>1. Shard(cache', Count', None) /\ KeysKept
    BY ShardStep
  <2>2. cache'.entry[h].key # 0
    BY <1>2, <2>1, ShardFacts
  <2>3. CASE cache'.entry[h].key \in {0, cache.entry[h].key}
    <3> DEFINE n == cache.entry[h].key
    <3>1. cache'.entry[h].key = n /\ n # 0
      BY <2>2, <2>3
    <3>2. n \in disk
      <4>1. cache.entry[h] # Free
        BY <3>1 DEF Free
      <4> QED  BY <1>0, <4>1 DEF OpenTablesExist, Allocated
    <3>3. \/ cache.table[n] = h
          \/ \E e \in Client : Holds(e, h) /\ n \in client[e].pins
      BY <3>1, EntryUsed
    <3>4. h # None
      BY TableCacheAssumption
    <3> HIDE DEF n
    <3>5. CASE disk \subseteq disk'
      BY <3>1, <3>2, <3>5
    <3>6. CASE DeleteFile
      <4>1. n # evicted
        BY <1>0, <3>3, <3>4, <3>6 DEF DeleteFile, EvictedOK, PinsOK
      <4> QED  BY <3>1, <3>2, <3>6, <4>1 DEF DeleteFile
    <3>7. ASSUME NEW c \in Client, Abandon(c), client[c].pc = "failed", client[c].pins = {client[c].build}
          PROVE  n \in disk'
      <4>1. client[c].want = client[c].build
        BY <1>0, <3>7 DEF ControlOK, Wants
      <4>2. client[c].build # 0 /\ disk' \in {disk, disk \ {client[c].build}}
        BY <3>7 DEF Abandon
      <4>3. cache.table[client[c].build] = None
        BY <1>0, <3>7, <4>1, <4>2 DEF FreshOK
      <4>4. \A e \in Client : client[c].build \in client[e].pins => e = c
        BY <1>0, <4>2 DEF OwnOK
      <4>5. ~Holds(c, h)
        BY <3>7 DEF Holds
      <4>6. n # client[c].build
        BY <3>3, <3>4, <4>3, <4>4, <4>5
      <4> QED  BY <3>2, <4>2, <4>6
    <3>8. \/ disk \subseteq disk' \/ DeleteFile
          \/ \E c \in Client : Abandon(c) /\ client[c].pc = "failed" /\ client[c].pins = {client[c].build}
      <4>1. ASSUME NEW c \in Client,
                   BeginRead(c) \/ BeginBuild(c) \/ Lookup(c) \/ OpenTable(c) \/ OpenFails(c)
                   \/ Insert(c) \/ EvictOldest(c) \/ InsertDone(c) \/ Release(c) \/ EndRead(c)
                   \/ Install(c)
            PROVE  disk \subseteq disk'
        BY <4>1 DEF BeginRead, BeginBuild, Lookup, OpenTable, OpenFails, Insert, EvictOldest,
                    InsertDone, Release, EndRead, Install
      <4>2. ASSUME NEW c \in Client, Abandon(c)
            PROVE  disk \subseteq disk' \/ (client[c].pc = "failed" /\ client[c].pins = {client[c].build})
        BY <4>2 DEF Abandon
      <4>3. EvictFile \/ Close => disk \subseteq disk'
        BY DEF EvictFile, Close
      <4> QED  BY <4>1, <4>2, <4>3 DEF Next
    <3> QED  BY <3>1, <3>5, <3>6, <3>7, <3>8
  <2>4. ASSUME NEW c \in Client, Insert(c), cache'.entry[h].key \in {0, client[c].want}
        PROVE  cache'.entry[h].key \in disk'
    <3>1. client[c].want \in client[c].pins /\ disk' = disk
      BY <1>0, <2>4 DEF Insert, ControlOK, Wants
    <3> QED  BY <1>0, <2>2, <2>4, <3>1 DEF PinsOK
  <2> QED  BY <2>1, <2>3, <2>4 DEF KeysKept
<1> QED  BY <1>1, <1>2 DEF OpenTablesExist, Allocated

\* Once the database is closed nothing is open any more.
LEMMA ClosedStep ==
  ASSUME IInv, Next
  PROVE  ClosedOK'
<1>0. TypeOK /\ ClosedOK /\ EvictedOK
  BY DEF IInv, FilesOK
<1>1. CASE closed
  <2>1. (\A c \in Client : client[c].pc = "idle") /\ obsolete = {} /\ evicted = 0
    BY <1>0, <1>1 DEF ClosedOK
  <2>2. \A c \in Client :
          /\ ~BeginRead(c) /\ ~BeginBuild(c) /\ ~EndRead(c) /\ ~Install(c) /\ ~Abandon(c)
          /\ ~Lookup(c) /\ ~OpenTable(c) /\ ~OpenFails(c) /\ ~Insert(c) /\ ~EvictOldest(c)
          /\ ~InsertDone(c) /\ ~Release(c)
    <3> TAKE c \in Client
    <3>1. client[c].pc = "idle" /\ ~DBMutexFree
      BY <1>1, <2>1 DEF DBMutexFree
    <3>2. ~BeginRead(c) /\ ~BeginBuild(c) /\ ~EndRead(c) /\ ~Install(c) /\ ~Abandon(c)
      BY <3>1 DEF BeginRead, BeginBuild, EndRead, Install, Abandon
    <3>3. ~Lookup(c) /\ ~OpenTable(c) /\ ~OpenFails(c) /\ ~Insert(c) /\ ~EvictOldest(c)
          /\ ~InsertDone(c) /\ ~Release(c)
      BY <3>1 DEF Lookup, OpenTable, OpenFails, Insert, EvictOldest, InsertDone, Release
    <3> QED  BY <3>2, <3>3
  <2>3. ~EvictFile /\ ~DeleteFile /\ ~Close
    BY <1>1, <2>1 DEF EvictFile, DeleteFile, Close, DBMutexFree
  <2> QED  BY <2>2, <2>3 DEF Next
<1>2. CASE ~closed /\ ~Close
  <2>1. ~closed'
    <3>1. ASSUME NEW c \in Client,
                 BeginRead(c) \/ BeginBuild(c) \/ Lookup(c) \/ OpenTable(c) \/ OpenFails(c)
                 \/ Insert(c) \/ EvictOldest(c) \/ InsertDone(c) \/ Release(c) \/ EndRead(c)
                 \/ Install(c) \/ Abandon(c)
          PROVE  closed' = closed
      BY <3>1 DEF BeginRead, BeginBuild, Lookup, OpenTable, OpenFails, Insert, EvictOldest,
                  InsertDone, Release, EndRead, Install, Abandon
    <3>2. EvictFile \/ DeleteFile => closed' = closed
      BY DEF EvictFile, DeleteFile
    <3> QED  BY <1>2, <3>1, <3>2 DEF Next
  <2> QED  BY <2>1 DEF ClosedOK
<1>3. CASE Close
  <2>1. /\ \A c \in Client : client'[c].pc = "idle"
        /\ obsolete' = {} /\ evicted' = 0
    BY <1>0, <1>3 DEF Close, DBMutexFree, EvictedOK
  <2>2. ASSUME NEW h \in Handle PROVE cache'.entry[h] = Free
    <3>1. Shard(cache', Count', None)
      BY ShardStep
    <3>2. /\ cache'.entry[h].refs = Count'[h] + (IF cache'.entry[h].in_cache THEN 1 ELSE 0)
          /\ cache'.entry[h].in_cache =>
               cache'.entry[h].key \in File /\ cache'.table[cache'.entry[h].key] = h
          /\ cache'.entry[h].key = 0 <=> cache'.entry[h].refs = 0
          /\ cache'.entry[h].key = 0 <=> cache'.entry[h] = Free
      BY <3>1, ShardFacts
    <3>3. Count'[h] = 0
      <4>1. Holders(h)' = {}
        BY <2>1 DEF Holders, Holds
      <4> QED  BY <4>1, FS_EmptySet DEF Count
    <3>4. ~cache'.entry[h].in_cache
      <4>1. \A n \in File : cache'.table[n] = None
        BY <1>3 DEF Close
      <4> QED  BY <3>2, <4>1, TableCacheAssumption
    <3> QED  BY <3>2, <3>3, <3>4
  <2> QED  BY <2>1, <2>2 DEF ClosedOK, Allocated
<1> QED  BY <1>1, <1>2, <1>3

\* What is allocated is in the hash table or in somebody's hands.
LEMMA Bound ==
  ASSUME TypeOK, Shard(cache, Count, None)
  PROVE  /\ IsFiniteSet(Allocated)
         /\ Cardinality(Allocated) <= cache.usage + Cardinality(Client)
         /\ cache.lru = <<>> => Cardinality(Allocated) <= Cardinality(Client)
<1> DEFINE S == Filled(cache.table)
           t == [n \in S |-> cache.table[n]]
           A == {h \in Handle : \E n \in S : t[n] = h}
           k == [c \in Client |-> client[c].handle]
           B == {h \in Handle \cup {None} : \E c \in Client : k[c] = h}
<1>0. cache \in CacheType /\ client \in [Client -> ClientType]
  BY DEF TypeOK
<1>1. IsFiniteSet(S) /\ cache.usage = Cardinality(S) /\ Cardinality(S) \in Nat
  <2>1. IsFiniteSet(File)
    BY TableCacheAssumption, FS_Interval DEF File
  <2>2. cache.usage = Cardinality(S)
    BY DEF Shard, Parts, UsageOK
  <2> QED  BY <2>1, <2>2, FS_Subset, FS_CardinalityType DEF Filled
<1>2. IsFiniteSet(A) /\ Cardinality(A) <= Cardinality(S)
  <2>1. t \in Surjection(S, A)
    <3>1. \A n \in S : cache.table[n] \in Handle
      BY ShardFacts DEF Filled
    <3> QED  BY <3>1 DEF Surjection
  <2> QED  BY <1>1, <2>1, FS_Surjection
<1>3. IsFiniteSet(B) /\ Cardinality(B) <= Cardinality(Client)
  <2>1. k \in Surjection(Client, B)
    BY <1>0 DEF Surjection, ClientType
  <2> QED  BY <2>1, TableCacheAssumption, FS_Surjection
<1>4. ASSUME NEW h \in Allocated
      PROVE  /\ h \in A \/ h \in B
             /\ cache.lru = <<>> => h \in B
  <2>0. h \in Handle /\ cache.entry[h] # Free
    BY DEF Allocated
  <2>1. /\ cache.entry[h].refs = Count[h] + (IF cache.entry[h].in_cache THEN 1 ELSE 0)
        /\ Count[h] \in Nat
        /\ cache.entry[h].in_cache =>
             cache.entry[h].key \in File /\ cache.table[cache.entry[h].key] = h
        /\ cache.entry[h].key = 0 <=> cache.entry[h].refs = 0
        /\ cache.entry[h].key = 0 <=> cache.entry[h] = Free
        /\ In(cache.lru, h) <=> (cache.entry[h].in_cache /\ cache.entry[h].refs = 1)
    BY <2>0, ShardFacts
  <2>2. Count[h] # 0 => h \in B
    <3>1. Count[h] # 0 => Holders(h) # {}
      BY <2>0, FS_EmptySet DEF Count
    <3> QED  BY <2>0, <3>1 DEF Holders, Holds
  <2>3. CASE cache.entry[h].in_cache
    <3>1. h \in A
      BY <2>0, <2>1, <2>3, TableCacheAssumption DEF Filled
    <3>2. cache.lru = <<>> => ~In(cache.lru, h)
      BY DEF In
    <3>3. cache.lru = <<>> => Count[h] # 0
      BY <2>1, <2>3, <3>2
    <3> QED  BY <2>2, <3>1, <3>3
  <2>4. CASE ~cache.entry[h].in_cache
    <3>1. Count[h] # 0
      BY <2>0, <2>1, <2>4
    <3> HIDE DEF A, B
    <3> QED  BY <2>2, <3>1
  <2> QED  BY <2>3, <2>4
<1> HIDE DEF A, B, S
<1>5. Allocated \subseteq A \cup B /\ IsFiniteSet(A \cup B)
      /\ Cardinality(A \cup B) <= Cardinality(A) + Cardinality(B)
  <2>1. /\ IsFiniteSet(A \cup B)
        /\ Cardinality(A \cup B) = Cardinality(A) + Cardinality(B) - Cardinality(A \cap B)
    BY <1>2, <1>3, FS_Union
  <2>2. Cardinality(A \cap B) \in Nat /\ Cardinality(A) \in Nat /\ Cardinality(B) \in Nat
    <3>1. IsFiniteSet(A \cap B)
      BY <1>2, FS_Subset
    <3> QED  BY <1>2, <1>3, <3>1, FS_CardinalityType
  <2>3. Cardinality(A \cup B) <= Cardinality(A) + Cardinality(B)
    BY <2>1, <2>2
  <2> QED  BY <1>4, <2>1, <2>3
<1>6. IsFiniteSet(Allocated) /\ Cardinality(Allocated) <= Cardinality(A \cup B)
  BY <1>5, FS_Subset
<1>7. Cardinality(A) \in Nat /\ Cardinality(B) \in Nat /\ Cardinality(Client) \in Nat
      /\ Cardinality(Allocated) \in Nat /\ Cardinality(A \cup B) \in Nat
  BY <1>2, <1>3, <1>5, <1>6, TableCacheAssumption, FS_CardinalityType
<1>8. cache.lru = <<>> => Cardinality(Allocated) <= Cardinality(B)
  <2>1. cache.lru = <<>> => Allocated \subseteq B
    BY <1>4
  <2> QED  BY <1>3, <2>1, FS_Subset
<1> QED  BY <1>1, <1>2, <1>3, <1>5, <1>6, <1>7, <1>8

\* Tables come into the cache in Insert alone, whose loop runs until the limit is met
\* or every entry is in use, by a client each.
LEMMA BoundStep ==
  ASSUME IInv, Next
  PROVE  OpenTablesBounded'
<1>0. /\ TypeOK /\ ClientsOK /\ Shard(cache, Count, None) /\ OpenTablesBounded
      /\ None \notin Client
  BY TableCacheAssumption DEF IInv
<1>1. Shard(cache', Count', None) /\ KeysKept
  BY ShardStep
<1>2. closed' => Allocated' = {}
  BY ClosedStep DEF ClosedOK
<1>3. /\ IsFiniteSet(Allocated)
      /\ Cardinality(Allocated) <= cache.usage + Cardinality(Client)
      /\ cache.lru = <<>> => Cardinality(Allocated) <= Cardinality(Client)
  BY <1>0, Bound
<1>4. ASSUME mutex = None, mutex' = None
      PROVE  Cardinality(Allocated') <= Capacity + Cardinality(Client)
  <2>1. ASSUME NEW c \in Client PROVE ~Insert(c)
    BY <1>0, <1>4, <2>1 DEF Insert
  <2>2. Allocated' \subseteq Allocated
    <3>1. ASSUME NEW h \in Handle, cache.entry[h] = Free PROVE cache'.entry[h] = Free
      <4>1. cache'.entry[h].key = 0
        BY <1>1, <2>1, <3>1 DEF KeysKept, Free
      <4> QED  BY <1>1, <4>1, ShardFacts
    <3> QED  BY <3>1 DEF Allocated
  <2>3. /\ Cardinality(Allocated') \in Nat /\ Cardinality(Allocated) \in Nat
        /\ Cardinality(Allocated') <= Cardinality(Allocated)
    <3>1. IsFiniteSet(Allocated') /\ Cardinality(Allocated') <= Cardinality(Allocated)
      BY <1>3, <2>2, FS_Subset
    <3> QED  BY <1>3, <3>1, FS_CardinalityType
  <2>4. Cardinality(Allocated) <= Capacity + Cardinality(Client)
    BY <1>0, <1>4 DEF OpenTablesBounded
  <2>5. Capacity + Cardinality(Client) \in Nat
    BY TableCacheAssumption, FS_CardinalityType
  <2> QED  BY <2>3, <2>4, <2>5
<1>5. ASSUME mutex # None, mutex' = None
      PROVE  Cardinality(Allocated') <= Capacity + Cardinality(Client)
  <2>1. PICK c \in Client : InsertDone(c)
    <3>1. ASSUME NEW c \in Client,
                 BeginRead(c) \/ BeginBuild(c) \/ Lookup(c) \/ OpenTable(c) \/ OpenFails(c)
          PROVE  mutex' = mutex
      BY <3>1 DEF BeginRead, BeginBuild, Lookup, OpenTable, OpenFails
    <3>2. ASSUME NEW c \in Client,
                 EvictOldest(c) \/ Release(c) \/ EndRead(c) \/ Install(c) \/ Abandon(c)
          PROVE  mutex' = mutex
      BY <3>2 DEF EvictOldest, Release, EndRead, Install, Abandon
    <3>3. ASSUME NEW c \in Client, Insert(c) PROVE mutex' # None
      BY <1>0, <3>3 DEF Insert
    <3>4. EvictFile \/ DeleteFile \/ Close => mutex' = mutex
      BY DEF EvictFile, DeleteFile, Close
    <3> QED  BY <1>5, <3>1, <3>2, <3>3, <3>4 DEF Next
  <2>2. ~Overfull(cache) /\ cache' = cache
    BY <2>1 DEF InsertDone
  <2>3. Allocated' = Allocated
    BY <2>2 DEF Allocated
  <2>4. /\ cache.usage \in Int /\ Capacity \in Nat /\ Cardinality(Client) \in Nat
        /\ Cardinality(Allocated) \in Nat
    BY <1>0, <1>3, TableCacheAssumption, FS_CardinalityType DEF TypeOK, CacheType
  <2>5. cache.usage <= Capacity \/ cache.lru = <<>>
    BY <2>2, <2>4 DEF Overfull
  <2> QED  BY <1>3, <2>3, <2>4, <2>5
<1> QED  BY <1>2, <1>4, <1>5 DEF OpenTablesBounded

-----------------------------------------------------------------------------
(* The theorems.                                                           *)

\* A database that was just opened.
LEMMA Initially ==
  ASSUME Init
  PROVE  IInv
<1>1. TypeOK
  <2>1. cache \in CacheType
    BY DEF Init, CacheType, LRUHandle, Free
  <2>2. client \in [Client -> ClientType]
    BY DEF Init, Resting, ClientType
  <2>3. next \in Nat \ {0}
    BY TableCacheAssumption DEF Init
  <2> QED  BY <2>1, <2>2, <2>3 DEF Init, TypeOK
<1>2. \A c \in Client : client[c] = Resting /\ client[c].pc = "idle" /\ client[c].pins = {}
                        /\ client[c].build = 0
  BY DEF Init, Resting
<1>3. \A h \in Handle : Holders(h) = {}
  BY <1>2 DEF Holders, Holds
<1>4. Count \in [Handle -> Nat] /\ \A h \in Handle : Count[h] = 0
  BY <1>3, FS_EmptySet DEF Count
<1>5. Shard(cache, Count, None)
  <2>1. cache = [entry |-> [h \in Handle |-> Free], table |-> [n \in File |-> None],
                 lru |-> <<>>, in_use |-> {}, usage |-> 0]
    BY DEF Init
  <2> QED  BY <1>4, <2>1, EmptyOK
<1>6. mutex = None /\ None \notin Client
  BY TableCacheAssumption DEF Init
<1>7. ClientsOK
  BY <1>2, <1>6 DEF ClientsOK, HandleOK, ControlOK, KeyOK, BuildOK, OwnOK, FreshOK, Wants
<1>8. Allocated = {}
  BY DEF Init, Allocated
<1>9. FilesOK
  <2>1. \A n \in disk : n < next
    BY TableCacheAssumption DEF Init, File
  <2> QED  BY <1>2, <1>8, <2>1 DEF FilesOK, PinsOK, EvictedOK, OpenTablesExist, Init
<1>10. ClosedOK
  BY DEF Init, ClosedOK
<1>11. OpenTablesBounded
  <2>1. Cardinality(Client) \in Nat
    BY TableCacheAssumption, FS_CardinalityType
  <2>2. Cardinality(Allocated) = 0
    BY <1>8, FS_EmptySet
  <2> QED  BY <1>8, <2>1, <2>2, TableCacheAssumption DEF OpenTablesBounded
<1> QED  BY <1>1, <1>5, <1>7, <1>9, <1>10, <1>11 DEF IInv

\* One step, whatever it is.
LEMMA Step ==
  ASSUME IInv, [Next]_vars
  PROVE  IInv'
<1>1. CASE Next
  <2>1. TypeOK' /\ Shard(cache', Count', None)
    BY <1>1, TypeStep, ShardStep
  <2>2. ASSUME NEW d \in Client PROVE ControlOK(d)' /\ KeyOK(d)' /\ OwnOK(d)' /\ FreshOK(d)'
    BY <1>1, ControlStep, KeyStep, OwnStep, FreshStep
  <2>3. ClientsOK'
    BY <2>2 DEF ClientsOK, HandleOK, BuildOK
  <2>4. FilesOK'
    BY <1>1, PinsStep, EvictedStep, ExistStep DEF FilesOK
  <2>5. ClosedOK' /\ OpenTablesBounded'
    BY <1>1, ClosedStep, BoundStep
  <2> QED  BY <2>1, <2>3, <2>4, <2>5 DEF IInv
<1>2. CASE UNCHANGED vars
  <2>1. /\ cache' = cache /\ mutex' = mutex /\ client' = client /\ live' = live
        /\ disk' = disk /\ next' = next /\ obsolete' = obsolete /\ evicted' = evicted
        /\ bg_error' = bg_error /\ closed' = closed
    BY <1>2 DEF vars
  <2>2. TypeOK'
    BY <2>1 DEF IInv, TypeOK
  <2>3. Count' = Count /\ Allocated' = Allocated
    BY <2>1 DEF Count, Holders, Holds, Allocated
  <2>4. Shard(cache', Count', None)
    BY <2>1, <2>3 DEF IInv
  <2>5. ASSUME NEW d \in Client PROVE ControlOK(d)' /\ KeyOK(d)' /\ OwnOK(d)' /\ FreshOK(d)'
    <3>1. ControlOK(d) /\ KeyOK(d) /\ OwnOK(d) /\ FreshOK(d)
      BY DEF IInv, ClientsOK, HandleOK, BuildOK
    <3> QED  BY <2>1, <3>1 DEF ControlOK, Wants, KeyOK, OwnOK, FreshOK
  <2>6. ClientsOK'
    BY <2>5 DEF ClientsOK, HandleOK, BuildOK
  <2>7. FilesOK'
    BY <2>1, <2>3 DEF IInv, FilesOK, PinsOK, EvictedOK, OpenTablesExist
  <2>8. ClosedOK' /\ OpenTablesBounded'
    BY <2>1, <2>3 DEF IInv, ClosedOK, OpenTablesBounded
  <2> QED  BY <2>2, <2>4, <2>6, <2>7, <2>8 DEF IInv
<1> QED  BY <1>1, <1>2

\* What the invariant says of the cache, in the words of the specification.
LEMMA Consistent ==
  ASSUME IInv
  PROVE  CacheConsistent
<1>1. HandlesValid
  BY DEF IInv, ClientsOK, HandleOK, KeyOK, HandlesValid
<1>2. ListsAgree
  <2> SUFFICES ASSUME NEW h \in Handle
               PROVE  LET e == cache.entry[h] IN
                      /\ e.refs = Cardinality(Holders(h)) + (IF e.in_cache THEN 1 ELSE 0)
                      /\ (\E i \in DOMAIN cache.lru : cache.lru[i] = h) <=> (e.in_cache /\ e.refs = 1)
                      /\ h \in cache.in_use <=> (e.in_cache /\ e.refs >= 2)
                      /\ e.in_cache <=> (e # Free /\ cache.table[e.key] = h)
                      /\ e = Free <=> e.refs = 0
    BY DEF ListsAgree
  <2>1. /\ Parts(cache.entry, cache.table, cache.lru, cache.in_use, cache.usage, Count, None)
        /\ Shard(cache, Count, None) /\ cache.entry[h] \in LRUHandle
    BY DEF IInv, Shard, Parts, TypesOK
  <2>2. Count[h] = Cardinality(Holders(h))
    BY DEF Count
  <2>3. /\ cache.entry[h].refs = Count[h] + (IF cache.entry[h].in_cache THEN 1 ELSE 0)
        /\ cache.entry[h].key = 0 <=> cache.entry[h].refs = 0
    BY <2>1 DEF Parts, CountsOK
  <2>4. /\ In(cache.lru, h) <=> (cache.entry[h].in_cache /\ cache.entry[h].refs = 1)
        /\ h \in cache.in_use <=> (cache.entry[h].in_cache /\ cache.entry[h].refs >= 2)
    BY <2>1 DEF Parts, ListsOK
  <2>5. cache.entry[h] = Free <=> cache.entry[h].key = 0
    BY <2>1, ShardFacts DEF Free
  <2>6. cache.entry[h].in_cache
          <=> (cache.entry[h] # Free /\ cache.table[cache.entry[h].key] = h)
    <3>1. CASE cache.entry[h].in_cache
      <4>1. cache.entry[h].key # 0 /\ cache.table[cache.entry[h].key] = h
        BY <2>1, <3>1, TableCacheAssumption DEF Parts, TableOK
      <4> QED  BY <2>5, <3>1, <4>1
    <3>2. CASE cache.entry[h] # Free /\ cache.table[cache.entry[h].key] = h
      <4>1. cache.entry[h].key \in File
        BY <2>1, <2>5, <3>2 DEF LRUHandle
      <4> QED  BY <2>1, <3>2, <4>1, TableCacheAssumption DEF Parts, TableOK
    <3> QED  BY <3>1, <3>2
  <2> QED  BY <2>2, <2>3, <2>4, <2>5, <2>6 DEF In
<1> QED  BY <1>1, <1>2 DEF CacheConsistent

\* The parts of the invariant hold one another up: handles and counts are right as long
\* as files are pinned, and files are while nobody opens what is about to be deleted.
THEOREM Invariance == Spec => []IInv
<1>1. Init => IInv
  BY Initially
<1>2. IInv /\ [Next]_vars => IInv'
  BY Step
<1> QED  BY <1>1, <1>2, PTL DEF Spec

\* The shard, what the clients do and the files are always of the types declared
\* for them: no list of the cache and no handle of FindTable is anything but an entry.
THEOREM TypeCorrect == Spec => []TypeOK
<1>1. IInv => TypeOK
  BY DEF IInv
<1> QED  BY <1>1, Invariance, PTL

\* LRUCache (util/cache.cc): whoever has a handle reads the table it asked for, and
\* refs, in_cache, the hash table and the two lists always agree, with the holders
\* being those that FindTable gave the handle to.
THEOREM CacheIsConsistent == Spec => []CacheConsistent
<1>1. IInv => CacheConsistent
  BY Consistent
<1> QED  BY <1>1, Invariance, PTL

\* LRUCache::Insert: between two operations no more tables are open than the
\* capacity and one for each client, and none once the database was closed.
THEOREM OpenTablesAreBounded == Spec => []OpenTablesBounded
<1>1. IInv => OpenTablesBounded
  BY DEF IInv
<1> QED  BY <1>1, Invariance, PTL

\* DBImpl::DeleteObsoleteFiles: no table that is open, or that anybody may still
\* open, has lost its file, however reads run between the eviction and the deletion.
THEOREM OpenTablesHaveFiles == Spec => []OpenTablesExist
<1>1. IInv => OpenTablesExist
  BY DEF IInv, FilesOK
<1> QED  BY <1>1, Invariance, PTL
=============================================================================
