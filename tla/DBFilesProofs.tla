---------------------------- MODULE DBFilesProofs ----------------------------
(***************************************************************************)
(* Proofs about DBFiles, for any batches, bounds and faults, power         *)
(* failures included: the inductive invariant, and that its first half,    *)
(* which files there are and what they say of each other, holds.           *)
(*                                                                         *)
(* What a crash leaves is decided by how many records of the manifest that *)
(* CURRENT names are read back, its Outcomes.  Every outcome has its       *)
(* tables (ManifestOK); between Recover and SetCurrentFile the version in  *)
(* memory is the last outcome, and the tables built so far have what the   *)
(* logs that were replayed had (OpeningOK); while the database runs there  *)
(* is one outcome as long as nothing is being applied and there was no     *)
(* error (SyncedOK), and the tables that are being written are in none     *)
(* (BackgroundOK).                                                         *)
(***************************************************************************)
EXTENDS DBFiles, FiniteSetTheorems, SequenceTheorems, TLAPS

-----------------------------------------------------------------------------
(* The types, in the groups in which they are proved.                      *)

Typed(fs, T) == DOMAIN fs \subseteq Nat /\ \A n \in DOMAIN fs : fs[n] \in T
LogType == Typed(log, File(Entry))
ManifestType == Typed(manifest, File(Edit))
TableType == Typed(table, {Garbage} \cup SUBSET Entry)
NumberType ==
  /\ current \in Nat /\ logfile_number \in Nat /\ log_number \in Nat /\ manifest_number \in Nat
  /\ next_file \in Nat /\ last_sequence \in Nat
  /\ version \subseteq Nat /\ todo \subseteq Nat /\ inputs \subseteq Nat /\ pending \subseteq Nat
DataType ==
  /\ mem \subseteq Entry /\ imm \subseteq Entry
  /\ writing = <<>> \/ \E w \in [entry: Entry, sync: BOOLEAN, todo: BOOLEAN] : writing = <<w>>
  /\ acked \subseteq Batch /\ safe \subseteq Batch /\ doubt \subseteq Batch /\ created \in BOOLEAN
ControlType == phase \in Phase /\ bg_error \in BOOLEAN /\ edit \in Edit /\ bgpc \in BGPC
Types ==
  LogType /\ ManifestType /\ TableType /\ NumberType /\ DataType /\ ControlType

-----------------------------------------------------------------------------
(* The inductive invariant.                                                *)

OnDisk(ts) == \A t \in ts : t \in DOMAIN table /\ table[t] # Garbage

\* The manifest that CURRENT names, and how many of its records a crash may
\* leave for Recover to read.
Named == manifest[current]
Records == Named.recs
Outcomes(f) == {k \in 1..Whole(f.recs) : f.durable <= k \/ k = Whole(f.recs)}

\* What is recovered from the first k records of a manifest and from the logs.
LogsFrom(logs, n) == UNION {Intact(logs[l].recs) : l \in {x \in DOMAIN logs : x >= n}}
LogsBetween(logs, m, n) == UNION {Intact(logs[l].recs) : l \in {x \in DOMAIN logs : m <= x /\ x < n}}
At(f, k, logs) == TableEntries(Tables(f.recs, k)) \cup LogsFrom(logs, f.recs[k].log)

\* The same when the power fails and takes what was not synced.
Synced(f) == Intact(SubSeq(f.recs, 1, f.durable))
SyncedFrom(logs, n) == UNION {Synced(logs[l]) : l \in {x \in DOMAIN logs : x >= n}}
SyncedAt(f, k, logs) == TableEntries(Tables(f.recs, k)) \cup SyncedFrom(logs, f.recs[k].log)

Opening == phase \in {"logs", "manifest", "sync", "current"}
Live == phase \in {"cleanup", "open"}
Applying == bgpc \in {"sync", "install"}
Edited == bgpc \in {"add", "sync", "install"}
Written == {writing[i].entry : i \in 1..Len(writing)}

\* Without a running database there is no state in memory.
BlankOK ==
  /\ phase \notin {"cleanup", "open"} =>
       /\ mem = {} /\ imm = {} /\ writing = <<>> /\ inputs = {} /\ pending = {}
       /\ bgpc = "idle" /\ ~bg_error /\ edit.del = {}
  /\ phase \in {"down", "newdb", "recover", "corrupt"} =>
       edit = NoEdit /\ version = {} /\ todo = {}
  /\ current = 0 =>
       /\ phase \in {"down", "newdb"} /\ DOMAIN log = {} /\ ~created
       /\ acked = {} /\ safe = {}
  /\ phase = "newdb" =>
       /\ current = 0 /\ 1 \in DOMAIN manifest
       /\ manifest[1] = [recs |-> <<[NoEdit EXCEPT !.next = 2]>>, durable |-> 0]

\* The manifest that CURRENT names: each of its outcomes has its tables, and
\* no number it leaves free is in use.
ManifestOK ==
  current # 0 =>
    /\ current \in DOMAIN manifest
    /\ \A i \in DOMAIN Records : Records[i] # Torn =>
         /\ current < Records[i].next /\ Records[i].log < Records[i].next
         /\ \A t \in Records[i].add : t < Records[i].next
         /\ \A j \in 1..i : Records[j] # Torn => Records[j].next <= Records[i].next
    /\ \A k \in Outcomes(Named) : OnDisk(Tables(Records, k))
    /\ Named.durable = 0 =>
         /\ acked = {} /\ safe = {} /\ ~created
         /\ \A n \in DOMAIN log : log[n].recs = <<>>
         /\ \A i \in DOMAIN Records : Records[i] # Torn /\ Records[i].add = {}
    /\ Named.durable > 0 => Whole(Records) > 0

\* DB::Open between Recover and SetCurrentFile.
OpeningOK ==
  Opening =>
    /\ current # 0 /\ Whole(Records) > 0
    /\ version = Tables(Records, Whole(Records))
    /\ log_number = Records[Whole(Records)].log
    /\ manifest_number = Records[Whole(Records)].next /\ manifest_number < next_file
    /\ OnDisk(edit.add) /\ \A t \in edit.add : manifest_number < t /\ t < next_file
    /\ todo \subseteq {l \in DOMAIN log : l >= log_number}
    /\ \A l \in DOMAIN log : l >= next_file => l \in todo
    /\ TableEntries(edit.add) =
         UNION {LogEntries(l) : l \in {x \in DOMAIN log : x >= log_number} \ todo}
    /\ phase # "logs" =>
         /\ todo = {}
         /\ edit.log = logfile_number /\ logfile_number < next_file
         /\ logfile_number \in DOMAIN log /\ log[logfile_number] = EmptyFile
         /\ \A l \in DOMAIN log : l <= logfile_number
    /\ phase \in {"sync", "current"} =>
         /\ manifest_number \in DOMAIN manifest
         /\ manifest[manifest_number] =
              [recs |-> <<[log |-> edit.log, next |-> next_file, last |-> last_sequence,
                           add |-> edit.add \cup version, del |-> {}]>>,
               durable |-> IF phase = "sync" THEN 0 ELSE 1]

\* The database from then on.
LiveOK ==
  Live =>
    /\ current # 0 /\ manifest_number = current /\ Named.durable > 0
    /\ logfile_number \in DOMAIN log /\ logfile_number < next_file
    /\ log_number <= logfile_number /\ \A l \in DOMAIN log : l <= logfile_number
    /\ todo = {}
    /\ OnDisk(version) /\ \A t \in version \cup pending : t < next_file
    /\ inputs \subseteq version
    /\ current < next_file
    /\ \A i \in DOMAIN Records : Records[i] # Torn =>
         Records[i].next <= next_file /\ Records[i].log <= logfile_number
    /\ phase = "cleanup" =>
         /\ bgpc = "idle" /\ ~bg_error /\ mem = {} /\ imm = {} /\ writing = <<>>
         /\ log[logfile_number] = EmptyFile /\ edit = NoEdit /\ inputs = {} /\ pending = {}

\* The tables that the background thread is writing are in no version.
Unused(x) == /\ x \notin version
             /\ \A i \in DOMAIN Records : Records[i] # Torn => x \notin Records[i].add

BackgroundOK ==
  Live =>
    /\ pending \subseteq DOMAIN table /\ (inputs = {} => pending \subseteq edit.add)
    /\ bgpc = "idle" => inputs = {} /\ pending = {} /\ edit = NoEdit
    /\ bgpc = "compact" => inputs # {} /\ edit = NoEdit
    /\ bgpc = "cleanup" => edit = NoEdit /\ ~bg_error
    /\ bgpc = "build" => /\ edit.add \subseteq pending /\ edit.del = {} /\ imm # {}
                         /\ edit.add # {}
    /\ edit.del = {} => \A x \in pending : Unused(x)
    /\ Edited =>
         /\ OnDisk(edit.add)
         /\ edit.next <= next_file /\ \A t \in edit.add : t < edit.next
         /\ \A i \in DOMAIN Records : Records[i] # Torn => Records[i].next <= edit.next
         /\ current < edit.next
         /\ edit.log < edit.next /\ edit.log <= logfile_number /\ log_number <= edit.log
         /\ edit.del = {} => /\ edit.log = logfile_number /\ TableEntries(edit.add) = imm
                             /\ imm # {} /\ edit.add \cap pending = {}
         /\ edit.del # {} => /\ edit.del = inputs /\ edit.log = log_number
                             /\ TableEntries(edit.add) = TableEntries(inputs)

\* The version and what the manifest says of it.
SyncedOK ==
  Live =>
    /\ ~bg_error =>
         /\ Whole(Records) = Len(Records)
         /\ IF Applying
            THEN /\ Tables(Records, Len(Records)) = (version \ edit.del) \cup edit.add
                 /\ Records[Len(Records)].log = edit.log
                 /\ bgpc = "sync" => Named.durable = Len(Records) - 1
                 /\ bgpc = "install" => Named.durable = Len(Records)
            ELSE /\ Tables(Records, Len(Records)) = version
                 /\ Records[Len(Records)].log = log_number
                 /\ Named.durable = Len(Records)
    /\ (bgpc # "idle" /\ Whole(Records) = Len(Records)) =>
         IF Applying
         THEN /\ (version \ edit.del) \cup edit.add \subseteq Tables(Records, Len(Records))
              /\ edit.log <= Records[Len(Records)].log
         ELSE /\ version \subseteq Tables(Records, Len(Records))
              /\ log_number <= Records[Len(Records)].log

\* The entries that a crash may bring back, ...
Recoverable == UNION {At(Named, k, log) : k \in IF current = 0 THEN {} ELSE Outcomes(Named)}

\* ... those that have their number, and all there are.
Settled == mem \cup imm \cup TableEntries(version) \cup TableEntries(edit.add)
Known == Settled \cup Written \cup Recoverable \cup (IF Live THEN LogsFrom(log, log_number) ELSE {})

SequenceOK ==
  /\ \A e, f \in Known : e.seq = f.seq => e = f
  /\ current # 0 =>
       \A k \in Outcomes(Named) : \A e \in TableEntries(Tables(Records, k)) : e.seq <= Records[k].last
  /\ Opening => \A e \in TableEntries(version \cup edit.add) : e.seq <= last_sequence
  /\ Live =>
       /\ \A e \in Known : e.seq <= last_sequence \/ e \in Written
       /\ \A e \in Settled : e.seq <= last_sequence
       /\ \A e \in Written : e.seq = last_sequence + 1
       /\ \A i \in DOMAIN Records : Records[i] # Torn => Records[i].last <= last_sequence
       /\ Edited => /\ \A i \in DOMAIN Records : Records[i] # Torn => Records[i].last <= edit.last
                    /\ edit.last <= last_sequence
                    /\ \A e \in TableEntries(edit.add) : e.seq <= edit.last

\* As long as no write was torn ...
NoLoss == doubt = {} \/ "append" \notin Faults

\* ... the logs hold what is not in tables,
NoneTorn == \A n \in DOMAIN log : \A i \in DOMAIN log[n].recs : log[n].recs[i] # Torn
LogLive ==
  /\ mem \cup Written \subseteq LogEntries(logfile_number)
  /\ \A e \in LogEntries(logfile_number) : e \in mem \cup Written \/ (bg_error /\ e.batch \in doubt)
  /\ imm = LogsBetween(log, log_number, logfile_number)
  /\ writing # <<>> /\ writing[1].sync /\ ~writing[1].todo =>
       writing[1].entry \in Synced(log[logfile_number])
LogOK == NoLoss => NoneTorn /\ (Live => LogLive)

\* ... and every outcome has what was promised, and nothing else.
DurableOK ==
  NoLoss =>
    /\ Live => acked \subseteq Batches(Visible)
    /\ current # 0 => \A k \in Outcomes(Named) :
         /\ safe \subseteq Batches(SyncedAt(Named, k, log))
         /\ Live => /\ Visible \cup Written \subseteq At(Named, k, log)
                    /\ \A e \in At(Named, k, log) : e \in Visible \cup Written \/ e.batch \in doubt
         /\ ~Live => /\ acked \subseteq Batches(At(Named, k, log))
                     /\ \A j \in Outcomes(Named) : \A e \in At(Named, j, log) :
                          e \in At(Named, k, log) \/ e.batch \in doubt

\* Which files there are and what they say of each other, ...
Structure == /\ Types /\ BlankOK /\ ManifestOK /\ OpeningOK /\ LiveOK /\ BackgroundOK /\ SyncedOK

\* ... and what is in them.
IInv == Structure /\ SequenceOK /\ LogOK /\ DurableOK

-----------------------------------------------------------------------------
(* Least and greatest elements.                                            *)

\* A finite set of naturals that is not empty has a greatest element.
LEMMA GreatestNat ==
  ASSUME NEW X, X \subseteq Nat, X # {}, IsFiniteSet(X)
  PROVE  \E x \in X : \A y \in X : y <= x
<1> DEFINE Bad == {T \in SUBSET X : T # {} /\ ~\E x \in T : \A y \in T : y <= x}
<1>1. SUFFICES ASSUME Bad # {} PROVE FALSE
  OBVIOUS
<1>2. Bad \subseteq FiniteSubsetsOf(X)
  BY FS_Subset DEF FiniteSubsetsOf
<1>3. PICK T \in Bad : \A U \in Bad : <<U, T>> \notin StrictSubsetOrdering(X)
  BY <1>1, <1>2, FS_StrictSubsetOrderingWellFounded, WFMin
<1>4. PICK x \in T : TRUE
  BY <1>3
<1>5. T \ {x} \notin Bad
  BY <1>3, <1>4 DEF StrictSubsetOrdering
<1>6. CASE T \ {x} = {}
  BY <1>3, <1>4, <1>6
<1>7. CASE T \ {x} # {}
  <2>1. PICK z \in T \ {x} : \A y \in T \ {x} : y <= z
    BY <1>3, <1>5, <1>7
  <2>2. x \in Nat /\ z \in Nat /\ \A y \in T : y \in Nat
    BY <1>3, <1>4, <2>1
  <2>3. \A y \in T : y <= IF x <= z THEN z ELSE x
    BY <2>1, <2>2
  <2>4. (IF x <= z THEN z ELSE x) \in T
    BY <1>4, <2>1
  <2> QED  BY <1>3, <2>3, <2>4
<1> QED  BY <1>6, <1>7

\* A set of naturals that is not empty has a least element.
LEMMA LeastNat ==
  ASSUME NEW T, T \subseteq Nat, T # {}
  PROVE  \E x \in T : \A y \in T : x <= y
<1>1. PICK n \in T : TRUE
  OBVIOUS
<1> DEFINE Gap == {m \in 0..n : n - m \in T}
<1>2. IsFiniteSet(0..n)
  BY <1>1, 0 \in Int, n \in Int, FS_Interval
<1>3. IsFiniteSet(Gap)
  BY <1>2, FS_Subset, Gap \in SUBSET (0..n)
<1>4. Gap \subseteq Nat /\ 0 \in Gap
  BY <1>1
<1>5. PICK g \in Gap : \A m \in Gap : m <= g
  <2> HIDE DEF Gap
  <2> QED  BY <1>3, <1>4, GreatestNat
<1>6. n - g \in T /\ g \in 0..n
  BY <1>5
<1>7. ASSUME NEW y \in T PROVE n - g <= y
  <2>1. CASE y <= n
    <3>1. n - y \in Gap
      BY <1>1, <2>1
    <3> QED  BY <1>1, <1>5, <1>6, <3>1
  <2>2. CASE ~(y <= n)
    BY <1>1, <1>6, <2>2
  <2> QED  BY <2>1, <2>2
<1> QED  BY <1>6, <1>7

-----------------------------------------------------------------------------
(* The records of a log or a manifest.                                     *)

\* Whole counts the records in front of the first torn one.
LEMMA WholeDef ==
  ASSUME NEW R, NEW recs \in Seq(R)
  PROVE  /\ Whole(recs) \in 0..Len(recs)
         /\ \A j \in 1..Whole(recs) : recs[j] # Torn
         /\ Whole(recs) < Len(recs) => recs[Whole(recs) + 1] = Torn
<1> DEFINE J == {j \in 1..Len(recs) : \A k \in 1..j : recs[k] # Torn}
           T == {j \in 1..Len(recs) : recs[j] = Torn}
<1>1. Len(recs) \in Nat
  BY LenProperties
<1>2. Whole(recs) = Cardinality(J)
  BY DEF Whole
<1>5. \A n \in Nat : Cardinality(1..n) = n
  BY FS_Interval
<1>3. CASE T = {}
  <2>1. J = 1..Len(recs)
    BY <1>1, <1>3
  <2>2. Cardinality(1..Len(recs)) = Len(recs)
    BY <1>1, <1>5
  <2>3. \A j \in 1..Len(recs) : recs[j] # Torn
    BY <1>3
  <2> HIDE DEF J, T
  <2> QED  BY <1>1, <1>2, <2>1, <2>2, <2>3
<1>4. CASE T # {}
  <2>1. T \subseteq Nat
    BY <1>1
  <2>2. PICK x \in T : \A y \in T : x <= y
    <3> HIDE DEF T
    <3> QED  BY <1>4, <2>1, LeastNat
  <2>3. x \in 1..Len(recs) /\ recs[x] = Torn /\ \A j \in 1..Len(recs) : recs[j] = Torn => x <= j
    BY <2>2
  <2>4. J = 1..(x - 1)
    BY <1>1, <2>3
  <2>5. x - 1 \in Nat
    BY <1>1, <2>3
  <2>6. Cardinality(1..(x - 1)) = x - 1
    BY <2>5, <1>5
  <2> HIDE DEF J, T
  <2> QED  BY <1>1, <1>2, <2>3, <2>4, <2>5, <2>6
<1> QED  BY <1>3, <1>4

\* Whole is determined by where the first torn record is.
LEMMA WholeIs ==
  ASSUME NEW R, NEW recs \in Seq(R), NEW n \in 0..Len(recs),
         \A j \in 1..n : recs[j] # Torn,
         n < Len(recs) => recs[n + 1] = Torn
  PROVE  Whole(recs) = n
<1>1. Whole(recs) \in Nat /\ n \in Nat /\ Len(recs) \in Nat
  BY WholeDef, LenProperties
<1>2. CASE Whole(recs) < n
  <2>1. Whole(recs) + 1 \in 1..n /\ recs[Whole(recs) + 1] = Torn
    BY <1>1, <1>2, WholeDef
  <2> QED  BY <2>1
<1>3. CASE n < Whole(recs)
  <2>1. n + 1 \in 1..Whole(recs) /\ n < Len(recs)
    BY <1>1, <1>3, WholeDef
  <2> QED  BY <2>1, WholeDef
<1> QED  BY <1>1, <1>2, <1>3

\* One more record counts unless it is torn or comes after a torn one.
LEMMA WholeAppend ==
  ASSUME NEW R, NEW recs \in Seq(R), NEW r \in R
  PROVE  Whole(Append(recs, r)) =
           IF Whole(recs) = Len(recs) /\ r # Torn THEN Len(recs) + 1 ELSE Whole(recs)
<1> DEFINE w == Whole(recs)
           a == Append(recs, r)
           n == IF w = Len(recs) /\ r # Torn THEN Len(recs) + 1 ELSE w
<1>1. w \in 0..Len(recs) /\ Len(recs) \in Nat
  BY WholeDef, LenProperties
<1>2. /\ a \in Seq(R) /\ Len(a) = Len(recs) + 1 /\ a[Len(recs) + 1] = r
      /\ \A j \in 1..Len(recs) : a[j] = recs[j]
  BY AppendProperties
<1>3. n \in 0..Len(a)
  BY <1>1, <1>2
<1>4. \A j \in 1..n : a[j] # Torn
  BY <1>1, <1>2, WholeDef
<1>5. n < Len(a) => a[n + 1] = Torn
  BY <1>1, <1>2, WholeDef
<1> HIDE DEF n, a
<1>6. Whole(a) = n
  BY <1>2, <1>3, <1>4, <1>5, WholeIs
<1> QED  BY <1>6 DEF n, a

\* A prefix has the whole records that are in it.
LEMMA WholePrefix ==
  ASSUME NEW R, NEW recs \in Seq(R), NEW k \in 0..Len(recs)
  PROVE  Whole(SubSeq(recs, 1, k)) = IF k <= Whole(recs) THEN k ELSE Whole(recs)
<1> DEFINE w == Whole(recs)
           a == SubSeq(recs, 1, k)
           n == IF k <= w THEN k ELSE w
<1>1. w \in 0..Len(recs) /\ Len(recs) \in Nat
  BY WholeDef, LenProperties
<1>2. a \in Seq(R) /\ Len(a) = k /\ \A j \in 1..k : a[j] = recs[j]
  BY <1>1
<1>3. n \in 0..Len(a)
  BY <1>1, <1>2
<1>4. \A j \in 1..n : a[j] # Torn
  BY <1>1, <1>2, WholeDef
<1>5. n < Len(a) => a[n + 1] = Torn
  BY <1>1, <1>2, WholeDef
<1> HIDE DEF n, a
<1>6. Whole(a) = n
  BY <1>2, <1>3, <1>4, <1>5, WholeIs
<1> QED  BY <1>6 DEF n, a

\* Tables looks at the records it is asked for, and the next one takes tables
\* away and adds others.
LEMMA TablesPrefix ==
  ASSUME NEW r1, NEW r2, NEW k \in Nat, \A i \in 1..k : r1[i] = r2[i]
  PROVE  Tables(r1, k) = Tables(r2, k)
BY DEF Tables

\* One more record deletes and adds tables.
LEMMA TablesAppend ==
  ASSUME NEW R, NEW recs \in Seq(R), NEW r \in R
  PROVE  Tables(Append(recs, r), Len(recs) + 1) = (Tables(recs, Len(recs)) \ r.del) \cup r.add
<1> DEFINE n == Len(recs)
           a == Append(recs, r)
<1>1. n \in Nat
  BY LenProperties
<1>2. a[n + 1] = r /\ \A j \in 1..n : a[j] = recs[j]
  BY AppendProperties
<1> HIDE DEF a, n
<1>3. ASSUME NEW t PROVE t \in Tables(a, n + 1) <=> t \in (Tables(recs, n) \ r.del) \cup r.add
  <2>1. t \in Tables(a, n + 1) <=> \E i \in 1..(n + 1) : t \in a[i].add /\ \A j \in (i + 1)..(n + 1) : t \notin a[j].del
    BY DEF Tables
  <2>2. t \in Tables(recs, n) <=> \E i \in 1..n : t \in recs[i].add /\ \A j \in (i + 1)..n : t \notin recs[j].del
    BY DEF Tables
  <2>3. ASSUME NEW i \in 1..(n + 1), t \in a[i].add, \A j \in (i + 1)..(n + 1) : t \notin a[j].del
        PROVE  t \in (Tables(recs, n) \ r.del) \cup r.add
    <3>1. CASE i = n + 1
      BY <1>2, <2>3, <3>1
    <3>2. CASE i # n + 1
      <4>1. i \in 1..n /\ n + 1 \in (i + 1)..(n + 1)
        BY <1>1, <3>2
      <4>2. \A j \in (i + 1)..n : j \in 1..n /\ j \in (i + 1)..(n + 1)
        BY <1>1, <4>1
      <4>3. t \in recs[i].add /\ (\A j \in (i + 1)..n : t \notin recs[j].del) /\ t \notin r.del
        BY <1>2, <2>3, <4>1, <4>2
      <4> QED  BY <2>2, <4>1, <4>3
    <3> QED  BY <3>1, <3>2
  <2>4. ASSUME t \in r.add PROVE t \in Tables(a, n + 1)
    <3>1. n + 1 \in 1..(n + 1) /\ (n + 1 + 1)..(n + 1) = {}
      BY <1>1
    <3> QED  BY <1>2, <2>1, <2>4, <3>1
  <2>5. ASSUME t \in Tables(recs, n), t \notin r.del PROVE t \in Tables(a, n + 1)
    <3>1. PICK i \in 1..n : t \in recs[i].add /\ \A j \in (i + 1)..n : t \notin recs[j].del
      BY <2>2, <2>5
    <3>2. i \in 1..(n + 1) /\ t \in a[i].add
      BY <1>1, <1>2, <3>1
    <3>3. \A j \in (i + 1)..(n + 1) : j = n + 1 \/ (j \in (i + 1)..n /\ j \in 1..n)
      BY <1>1, <3>1
    <3>4. \A j \in (i + 1)..(n + 1) : t \notin a[j].del
      BY <1>2, <2>5, <3>1, <3>3
    <3> QED  BY <2>1, <3>2, <3>4
  <2> QED  BY <2>1, <2>3, <2>4, <2>5
<1> QED  BY <1>3 DEF a, n

\* A table of a manifest was added by one of its records.
LEMMA TablesAdded ==
  ASSUME NEW recs, NEW k \in Nat, NEW t \in Tables(recs, k)
  PROVE  \E i \in 1..k : t \in recs[i].add
BY DEF Tables

\* A manifest of one record describes what it adds.
LEMMA TablesOfOne ==
  ASSUME NEW r
  PROVE  Tables(<<r>>, 1) = r.add
<1>1. \A i \in 1..1 : i = 1 /\ (i + 1)..1 = {}
  OBVIOUS
<1>2. 1 \in 1..1 /\ <<r>>[1] = r
  OBVIOUS
<1> QED  BY <1>1, <1>2 DEF Tables

\* What log::Reader returns: never more than what was written, everything if
\* nothing is torn, and no less of a longer file.
LEMMA IntactType ==
  ASSUME NEW R, NEW recs \in Seq(R \cup {Torn})
  PROVE  Intact(recs) \subseteq R
BY DEF Intact

\* A record is intact if none in front of it is torn.
LEMMA IntactMember ==
  ASSUME NEW recs, NEW e
  PROVE  e \in Intact(recs) <=>
           \E i \in 1..Len(recs) : e = recs[i] /\ \A k \in 1..i : recs[k] # Torn
BY DEF Intact

\* A longer prefix has all that is intact in a shorter one.
LEMMA IntactPrefix ==
  ASSUME NEW R, NEW recs \in Seq(R), NEW j \in 0..Len(recs), NEW k \in 0..Len(recs), j <= k
  PROVE  Intact(SubSeq(recs, 1, j)) \subseteq Intact(SubSeq(recs, 1, k))
<1>0. Len(recs) \in Nat /\ j \in Nat /\ k \in Nat
  BY LenProperties
<1> DEFINE a == SubSeq(recs, 1, j)
           b == SubSeq(recs, 1, k)
<1>1. Len(a) = j /\ \A i \in 1..j : a[i] = recs[i]
  BY <1>0
<1>2. Len(b) = k /\ \A i \in 1..k : b[i] = recs[i]
  BY <1>0
<1> HIDE DEF a, b
<1>3. ASSUME NEW e \in Intact(a) PROVE e \in Intact(b)
  <2>1. PICK i \in 1..j : e = a[i] /\ \A l \in 1..i : a[l] # Torn
    BY <1>1, IntactMember
  <2>2. i \in 1..k /\ \A l \in 1..i : l \in 1..j /\ l \in 1..k
    BY <1>0, <2>1
  <2>3. e = b[i] /\ \A l \in 1..i : b[l] # Torn
    BY <1>1, <1>2, <2>1, <2>2
  <2> QED  BY <1>2, <2>2, <2>3, IntactMember
<1> QED  BY <1>3 DEF a, b

\* The whole of a file is a prefix of it.
LEMMA SubSeqAll ==
  ASSUME NEW R, NEW recs \in Seq(R)
  PROVE  SubSeq(recs, 1, Len(recs)) = recs
BY SubSeqFull

\* An append keeps what is intact, and adds its record if nothing is torn.
LEMMA IntactAppend ==
  ASSUME NEW R, NEW recs \in Seq(R), NEW r \in R
  PROVE  /\ Intact(recs) \subseteq Intact(Append(recs, r))
         /\ Intact(Append(recs, r)) \subseteq Intact(recs) \cup ({r} \ {Torn})
         /\ (\A i \in DOMAIN recs : recs[i] # Torn) /\ r # Torn => r \in Intact(Append(recs, r))
<1> DEFINE n == Len(recs)
           a == Append(recs, r)
<1>1. n \in Nat /\ DOMAIN recs = 1..n
  BY LenProperties
<1>2. Len(a) = n + 1 /\ a[n + 1] = r /\ \A j \in 1..n : a[j] = recs[j]
  BY AppendProperties
<1> HIDE DEF a, n
<1>3. ASSUME NEW e \in Intact(recs) PROVE e \in Intact(a)
  <2>1. PICK i \in 1..n : e = recs[i] /\ \A l \in 1..i : recs[l] # Torn
    BY IntactMember DEF n
  <2>2. i \in 1..(n + 1) /\ \A l \in 1..i : l \in 1..n
    BY <1>1, <2>1
  <2> QED  BY <1>2, <2>1, <2>2, IntactMember
<1>4. ASSUME NEW e \in Intact(a) PROVE e \in Intact(recs) \cup ({r} \ {Torn})
  <2>1. PICK i \in 1..(n + 1) : e = a[i] /\ \A l \in 1..i : a[l] # Torn
    BY <1>2, IntactMember
  <2>2. CASE i = n + 1
    <3>1. i \in 1..i
      BY <1>1, <2>2
    <3> QED  BY <1>2, <2>1, <2>2, <3>1
  <2>3. CASE i # n + 1
    <3>1. i \in 1..n /\ \A l \in 1..i : l \in 1..n
      BY <1>1, <2>1, <2>3
    <3> QED  BY <1>2, <2>1, <3>1, IntactMember DEF n
  <2> QED  BY <2>2, <2>3
<1>5. ASSUME \A i \in DOMAIN recs : recs[i] # Torn, r # Torn PROVE r \in Intact(a)
  <2>1. n + 1 \in 1..(n + 1) /\ \A l \in 1..(n + 1) : l = n + 1 \/ l \in 1..n
    BY <1>1
  <2> QED  BY <1>1, <1>2, <1>5, <2>1, IntactMember
<1> QED  BY <1>3, <1>4, <1>5 DEF a, n

\* A finite set of entries has a greatest sequence number.
LEMMA IntactFinite ==
  ASSUME NEW R, NEW recs \in Seq(R)
  PROVE  IsFiniteSet({e.seq : e \in Intact(recs)})
<1> DEFINE I == {i \in 1..Len(recs) : \A k \in 1..i : recs[k] # Torn}
           f == [i \in I |-> recs[i].seq]
           T == {e.seq : e \in Intact(recs)}
<1>1. \A n \in Nat : IsFiniteSet(1..n)
  BY FS_Interval
<1>2. IsFiniteSet(1..Len(recs)) /\ I \in SUBSET (1..Len(recs))
  BY <1>1, LenProperties
<1>3. IsFiniteSet(I)
  <2> HIDE DEF I
  <2> QED  BY <1>2, FS_Subset
<1>4. f \in Surjection(I, T)
  <2>1. \A i \in I : recs[i] \in Intact(recs)
    BY DEF Intact
  <2>2. \A e \in Intact(recs) : \E i \in I : e = recs[i]
    BY DEF Intact
  <2> HIDE DEF I
  <2> QED  BY <2>1, <2>2 DEF Surjection
<1> HIDE DEF f, T, I
<1> QED  BY <1>3, <1>4, FS_Surjection DEF T

-----------------------------------------------------------------------------
(* Files.                                                                  *)

\* AppendTo changes the records of one file, ...
LEMMA AppendedFile ==
  ASSUME NEW R, NEW fs, NEW n \in DOMAIN fs, fs[n] \in File(R), NEW r \in R \cup {Torn}
  PROVE  /\ DOMAIN AppendTo(fs, n, r) = DOMAIN fs
         /\ \A m \in DOMAIN fs : m # n => AppendTo(fs, n, r)[m] = fs[m]
         /\ AppendTo(fs, n, r)[n].recs = Append(fs[n].recs, r)
         /\ AppendTo(fs, n, r)[n].durable = fs[n].durable
         /\ AppendTo(fs, n, r)[n] \in File(R)
<1>1. fs[n].recs \in Seq(R \cup {Torn}) /\ fs[n].durable \in Nat /\ fs[n].durable <= Len(fs[n].recs)
  BY DEF File
<1>2. fs[n] = [recs |-> fs[n].recs, durable |-> fs[n].durable]
  BY DEF File
<1> DEFINE a == Append(fs[n].recs, r)
<1>3. a \in Seq(R \cup {Torn}) /\ Len(a) = Len(fs[n].recs) + 1 /\ Len(fs[n].recs) \in Nat
  BY <1>1, AppendProperties, LenProperties
<1>4. AppendTo(fs, n, r)[n] = [recs |-> a, durable |-> fs[n].durable]
  BY <1>2 DEF AppendTo
<1>5. DOMAIN AppendTo(fs, n, r) = DOMAIN fs /\ \A m \in DOMAIN fs : m # n => AppendTo(fs, n, r)[m] = fs[m]
  BY DEF AppendTo
<1>6. fs[n].durable <= Len(a)
  BY <1>1, <1>3
<1> HIDE DEF a
<1>7. [recs |-> a, durable |-> fs[n].durable] \in File(R)
  BY <1>1, <1>3, <1>6 DEF File
<1> QED  BY <1>4, <1>5, <1>7 DEF a

\* ... SyncFile how many of them are durable, ...
LEMMA SyncedFile ==
  ASSUME NEW R, NEW fs, NEW n \in DOMAIN fs, fs[n] \in File(R)
  PROVE  /\ DOMAIN SyncFile(fs, n) = DOMAIN fs
         /\ \A m \in DOMAIN fs : m # n => SyncFile(fs, n)[m] = fs[m]
         /\ SyncFile(fs, n)[n].recs = fs[n].recs
         /\ SyncFile(fs, n)[n].durable = Len(fs[n].recs)
         /\ SyncFile(fs, n)[n] \in File(R)
<1>1. fs[n].recs \in Seq(R \cup {Torn}) /\ Len(fs[n].recs) \in Nat
  BY LenProperties DEF File
<1>2. fs[n] = [recs |-> fs[n].recs, durable |-> fs[n].durable]
  BY DEF File
<1>3. SyncFile(fs, n)[n] = [recs |-> fs[n].recs, durable |-> Len(fs[n].recs)]
  BY <1>2 DEF SyncFile
<1>4. DOMAIN SyncFile(fs, n) = DOMAIN fs /\ \A m \in DOMAIN fs : m # n => SyncFile(fs, n)[m] = fs[m]
  BY DEF SyncFile
<1> QED  BY <1>1, <1>3, <1>4 DEF File

\* Every file is cut somewhere behind what was synced of it.
LEMMA CutFile ==
  ASSUME NEW R, NEW fs, NEW gs \in AfterPowerLoss(fs), \A n \in DOMAIN fs : fs[n] \in File(R)
  PROVE  /\ DOMAIN gs = DOMAIN fs
         /\ \A n \in DOMAIN fs :
              /\ gs[n] \in File(R)
              /\ gs[n].durable \in fs[n].durable..Len(fs[n].recs)
              /\ gs[n].recs = SubSeq(fs[n].recs, 1, gs[n].durable)
              /\ Len(gs[n].recs) = gs[n].durable
<1>1. DOMAIN gs = DOMAIN fs /\ \A n \in DOMAIN fs : gs[n] \in Prefixes(fs[n])
  BY DEF AfterPowerLoss
<1>2. ASSUME NEW n \in DOMAIN fs
      PROVE  /\ gs[n] \in File(R)
             /\ gs[n].durable \in fs[n].durable..Len(fs[n].recs)
             /\ gs[n].recs = SubSeq(fs[n].recs, 1, gs[n].durable)
             /\ Len(gs[n].recs) = gs[n].durable
  <2>1. PICK k \in fs[n].durable..Len(fs[n].recs) :
          gs[n] = [recs |-> SubSeq(fs[n].recs, 1, k), durable |-> k]
    BY <1>1, <1>2 DEF Prefixes
  <2>2. fs[n].recs \in Seq(R \cup {Torn}) /\ fs[n].durable \in Nat /\ Len(fs[n].recs) \in Nat
    BY <1>2, LenProperties DEF File
  <2>3. k \in Nat /\ k \in 0..Len(fs[n].recs)
    BY <2>1, <2>2
  <2> DEFINE c == SubSeq(fs[n].recs, 1, k)
  <2>4. c \in Seq(R \cup {Torn}) /\ Len(c) = k
    BY <2>2, <2>3
  <2> HIDE DEF c
  <2>5. [recs |-> c, durable |-> k] \in File(R)
    BY <2>3, <2>4 DEF File
  <2> QED  BY <2>1, <2>4, <2>5 DEF c
<1> QED  BY <1>1, <1>2

\* ... Create and ...
LEMMA CreatedFile ==
  ASSUME NEW fs, NEW n, NEW c
  PROVE  /\ DOMAIN Create(fs, n, c) = DOMAIN fs \cup {n}
         /\ Create(fs, n, c)[n] = c
         /\ \A m \in DOMAIN fs : m # n => Create(fs, n, c)[m] = fs[m]
BY DEF Create

\* ... Remove which files there are.
LEMMA RemovedFile ==
  ASSUME NEW fs, NEW n
  PROVE  /\ DOMAIN Remove(fs, n) = DOMAIN fs \ {n}
         /\ \A m \in DOMAIN fs : m # n => Remove(fs, n)[m] = fs[m]
BY DEF Remove

\* A new log is a file.
LEMMA EmptyFileType == ASSUME NEW R PROVE EmptyFile \in File(R)
BY DEF EmptyFile, File

-----------------------------------------------------------------------------
(* The steps.                                                              *)

\* Which actions change a variable.
LEMMA Changes ==
  ASSUME [Next]_vars
  PROVE
    /\ log' = log \/ OpenLog \/ DeleteObsoleteFile
          \/ (\E b \in Batch, sync \in BOOLEAN : AddRecord(b, sync)) \/ SyncLog \/ Switch
          \/ PowerLoss
    /\ manifest' = manifest \/ NewDB \/ OpenManifest \/ OpenSync \/ OpenCurrent
          \/ DeleteObsoleteFile \/ ApplyAdd \/ ApplySync \/ PowerLoss
    /\ table' = table \/ RecoverLogFile \/ DeleteObsoleteFile \/ FlushStart \/ FlushBuilt
          \/ CompactOutput \/ CompactBuilt
    /\ current' = current \/ NewDBCurrent \/ OpenCurrent
    /\ phase' = phase \/ NewDB \/ NewDBCurrent \/ OpenExisting \/ Recover
          \/ RecoverLogFile \/ OpenLog \/ OpenManifest \/ OpenSync \/ OpenCurrent \/ OpenDone
          \/ ProcessCrash \/ PowerLoss
    /\ mem' = mem \/ RecoverLogFile \/ OpenLog \/ OpenSync \/ OpenCurrent \/ FinishWrite
          \/ Switch \/ ProcessCrash \/ PowerLoss
    /\ imm' = imm \/ RecoverLogFile \/ OpenLog \/ OpenSync \/ OpenCurrent \/ Switch
          \/ ApplyInstall \/ ProcessCrash \/ PowerLoss
    /\ logfile_number' = logfile_number \/ RecoverLogFile \/ OpenLog \/ OpenSync
          \/ OpenCurrent \/ Switch \/ ProcessCrash \/ PowerLoss
    /\ log_number' = log_number \/ Recover \/ RecoverLogFile \/ OpenLog \/ OpenSync
          \/ OpenCurrent \/ ApplyInstall \/ ProcessCrash \/ PowerLoss
    /\ next_file' = next_file \/ Recover \/ RecoverLogFile \/ OpenLog \/ OpenSync
          \/ OpenCurrent \/ Switch \/ FlushStart \/ CompactOutput \/ ProcessCrash \/ PowerLoss
    /\ manifest_number' = manifest_number \/ Recover \/ RecoverLogFile \/ OpenLog
          \/ OpenSync \/ OpenCurrent \/ ProcessCrash \/ PowerLoss
    /\ version' = version \/ Recover \/ RecoverLogFile \/ OpenLog \/ OpenSync
          \/ OpenCurrent \/ ApplyInstall \/ ProcessCrash \/ PowerLoss
    /\ last_sequence' = last_sequence \/ Recover \/ RecoverLogFile \/ OpenLog \/ OpenSync
          \/ OpenCurrent \/ (\E b \in Batch, sync \in BOOLEAN : AddRecord(b, sync)) \/ SyncLog
          \/ FinishWrite \/ ProcessCrash \/ PowerLoss
    /\ bg_error' = bg_error \/ RecoverLogFile \/ OpenLog \/ OpenSync \/ OpenCurrent
          \/ SyncLog \/ FlushBuilt \/ CompactBuilt \/ ApplyAdd \/ ApplySync \/ ProcessCrash
          \/ PowerLoss
    /\ writing' = writing \/ RecoverLogFile \/ OpenLog \/ OpenSync \/ OpenCurrent
          \/ (\E b \in Batch, sync \in BOOLEAN : AddRecord(b, sync)) \/ SyncLog \/ FinishWrite
          \/ ProcessCrash \/ PowerLoss
    /\ todo' = todo \/ Recover \/ RecoverLogFile \/ OpenLog \/ OpenSync \/ OpenCurrent
          \/ ProcessCrash \/ PowerLoss
    /\ edit' = edit \/ RecoverLogFile \/ OpenLog \/ OpenSync \/ OpenCurrent \/ FlushStart
          \/ FlushBuilt \/ CompactBuilt \/ ApplyAdd \/ ApplySync \/ ApplyInstall \/ ProcessCrash
          \/ PowerLoss
    /\ bgpc' = bgpc \/ RecoverLogFile \/ OpenLog \/ OpenSync \/ OpenCurrent \/ FlushStart
          \/ FlushBuilt \/ CompactStart \/ CompactBuilt \/ ApplyAdd \/ ApplySync \/ ApplyInstall
          \/ CleanupDone \/ ProcessCrash \/ PowerLoss
    /\ inputs' = inputs \/ RecoverLogFile \/ OpenLog \/ OpenSync \/ OpenCurrent
          \/ CompactStart \/ CompactBuilt \/ ApplyAdd \/ ApplySync \/ ApplyInstall
          \/ ProcessCrash \/ PowerLoss
    /\ pending' = pending \/ RecoverLogFile \/ OpenLog \/ OpenSync \/ OpenCurrent
          \/ FlushStart \/ FlushBuilt \/ CompactOutput \/ CompactBuilt \/ ApplyAdd \/ ApplySync
          \/ ApplyInstall \/ ProcessCrash \/ PowerLoss
    /\ acked' = acked \/ FinishWrite \/ PowerLoss
    /\ safe' = safe \/ FinishWrite
    /\ doubt' = doubt \/ (\E b \in Batch, sync \in BOOLEAN : AddRecord(b, sync))
          \/ SyncLog
    /\ created' = created \/ OpenDone
<1>NewDB. CASE NewDB
  BY <1>NewDB DEF NewDB, memory, history
<1>NewDBCurrent. CASE NewDBCurrent
  BY <1>NewDBCurrent DEF NewDBCurrent, memory, history
<1>OpenExisting. CASE OpenExisting
  BY <1>OpenExisting DEF OpenExisting, disk, memory, history, counters
<1>Recover. CASE Recover
  BY <1>Recover DEF Recover, disk, memory, history, counters
<1>RecoverLogFile. CASE RecoverLogFile
  BY <1>RecoverLogFile DEF RecoverLogFile, history, Forget
<1>OpenLog. CASE OpenLog
  BY <1>OpenLog DEF OpenLog, history, Forget
<1>OpenManifest. CASE OpenManifest
  BY <1>OpenManifest DEF OpenManifest, memory, history, counters
<1>OpenSync. CASE OpenSync
  BY <1>OpenSync DEF OpenSync, memory, history, Forget
<1>OpenCurrent. CASE OpenCurrent
  BY <1>OpenCurrent DEF OpenCurrent, history, Forget
<1>DeleteObsoleteFile. CASE DeleteObsoleteFile
  BY <1>DeleteObsoleteFile DEF DeleteObsoleteFile, memory, history, counters
<1>OpenDone. CASE OpenDone
  <2>1. UNCHANGED <<disk, memory, acked, safe, doubt>>
    BY <1>OpenDone DEF OpenDone
  <2> QED  BY <1>OpenDone, <2>1 DEF disk, memory
<1>AddRecord. CASE \E b \in Batch, sync \in BOOLEAN : AddRecord(b, sync)
  BY <1>AddRecord DEF AddRecord
<1>SyncLog. CASE SyncLog
  BY <1>SyncLog DEF SyncLog
<1>FinishWrite. CASE FinishWrite
  BY <1>FinishWrite DEF FinishWrite, disk, counters
<1>Switch. CASE Switch
  BY <1>Switch DEF Switch, history, counters
<1>SwitchFails. CASE SwitchFails
  BY <1>SwitchFails DEF SwitchFails, disk, memory, history
<1>FlushStart. CASE FlushStart
  BY <1>FlushStart DEF FlushStart, history, counters
<1>FlushBuilt. CASE FlushBuilt
  BY <1>FlushBuilt DEF FlushBuilt, history
<1>CompactStart. CASE CompactStart
  BY <1>CompactStart DEF CompactStart, disk, history
<1>CompactOutput. CASE CompactOutput
  BY <1>CompactOutput DEF CompactOutput, history, counters
<1>CompactBuilt. CASE CompactBuilt
  BY <1>CompactBuilt DEF CompactBuilt, history
<1>ApplyAdd. CASE ApplyAdd
  BY <1>ApplyAdd DEF ApplyAdd, history, ApplyFailed
<1>ApplySync. CASE ApplySync
  BY <1>ApplySync DEF ApplySync, history, ApplyFailed
<1>ApplyInstall. CASE ApplyInstall
  BY <1>ApplyInstall DEF ApplyInstall, disk, history, counters
<1>CleanupDone. CASE CleanupDone
  BY <1>CleanupDone DEF CleanupDone, disk, history, counters
<1>ProcessCrash. CASE ProcessCrash
  BY <1>ProcessCrash DEF ProcessCrash, disk, history, Forget
<1>PowerLoss. CASE PowerLoss
  BY <1>PowerLoss DEF PowerLoss, Forget
<1>Stutter. CASE UNCHANGED vars
  BY <1>Stutter DEF vars, memory, disk, history, counters
<1> QED
  BY <1>NewDB, <1>NewDBCurrent, <1>OpenExisting, <1>Recover, <1>RecoverLogFile, <1>OpenLog, <1>OpenManifest, <1>OpenSync, <1>OpenCurrent, <1>DeleteObsoleteFile, <1>OpenDone, <1>AddRecord, <1>SyncLog, <1>FinishWrite, <1>Switch, <1>SwitchFails, <1>FlushStart, <1>FlushBuilt, <1>CompactStart, <1>CompactOutput, <1>CompactBuilt, <1>ApplyAdd, <1>ApplySync, <1>ApplyInstall, <1>CleanupDone, <1>ProcessCrash, <1>PowerLoss, <1>Stutter DEF Next

-----------------------------------------------------------------------------
(* The types.                                                              *)

\* Files keep their type when one is created or removed, ...
LEMMA TypedChange ==
  ASSUME NEW T, NEW fs, Typed(fs, T), NEW n
  PROVE  /\ Typed(Remove(fs, n), T)
         /\ n \in Nat => \A c \in T : Typed(Create(fs, n, c), T)
BY DEF Typed, Remove, Create

\* ... synced or appended to, and after a power failure.
LEMMA TypedFile ==
  ASSUME NEW R, NEW fs, Typed(fs, File(R))
  PROVE  /\ \A n \in DOMAIN fs : /\ Typed(SyncFile(fs, n), File(R))
                                /\ \A r \in R \cup {Torn} : Typed(AppendTo(fs, n, r), File(R))
         /\ \A gs \in AfterPowerLoss(fs) : Typed(gs, File(R))
<1>1. ASSUME NEW n \in DOMAIN fs PROVE Typed(SyncFile(fs, n), File(R))
  <2> DEFINE g == SyncFile(fs, n)
  <2>1. fs[n] \in File(R)
    BY <1>1 DEF Typed
  <2>2. DOMAIN g = DOMAIN fs /\ (\A m \in DOMAIN fs : m # n => g[m] = fs[m]) /\ g[n] \in File(R)
    BY <1>1, <2>1, SyncedFile
  <2> HIDE DEF g
  <2>3. Typed(g, File(R))
    BY <2>2 DEF Typed
  <2> QED  BY <2>3 DEF g
<1>2. ASSUME NEW n \in DOMAIN fs, NEW r \in R \cup {Torn} PROVE Typed(AppendTo(fs, n, r), File(R))
  BY <1>2, AppendedFile DEF Typed
<1>3. ASSUME NEW gs \in AfterPowerLoss(fs) PROVE Typed(gs, File(R))
  BY <1>3, CutFile DEF Typed
<1> QED  BY <1>1, <1>2, <1>3

\* The logs keep their type.
LEMMA LogTypeStep ==
  ASSUME Types, BlankOK, OpeningOK, LiveOK, [Next]_vars
  PROVE  LogType'
<1> USE DEF Types
<1>OpenLog. CASE OpenLog
  BY <1>OpenLog, TypedChange, EmptyFileType DEF OpenLog, LogType, NumberType
<1>DeleteObsoleteFile. CASE DeleteObsoleteFile
  <2>1. log' = log \/ \E n \in DOMAIN log : log' = Remove(log, n)
    BY <1>DeleteObsoleteFile DEF DeleteObsoleteFile
  <2> QED  BY <2>1, TypedChange DEF LogType
<1>AddRecord. ASSUME NEW b \in Batch, NEW sync \in BOOLEAN, AddRecord(b, sync) PROVE LogType'
  <2> DEFINE e == [batch |-> b, seq |-> last_sequence + 1]
  <2>1. e \in Entry
    BY DEF Entry, NumberType
  <2>2. logfile_number \in DOMAIN log
    BY <1>AddRecord DEF AddRecord, Unlocked, Running, LiveOK, Live
  <2>3. log' = log \/ \E x \in {e, Torn} : log' = AppendTo(log, logfile_number, x)
    BY <1>AddRecord DEF AddRecord, FailedAppend
  <2> HIDE DEF e
  <2> QED  BY <2>1, <2>2, <2>3, TypedFile DEF LogType
<1>SyncLog. CASE SyncLog
  <2>1. logfile_number \in DOMAIN log
    BY <1>SyncLog DEF SyncLog, Running, LiveOK, Live
  <2>2. log' = log \/ log' = SyncFile(log, logfile_number)
    BY <1>SyncLog DEF SyncLog
  <2> QED  BY <2>1, <2>2, TypedFile DEF LogType
<1>Switch. CASE Switch
  BY <1>Switch, TypedChange, EmptyFileType DEF Switch, LogType, NumberType
<1>PowerLoss. CASE PowerLoss
  <2>1. log' \in AfterPowerLoss(log)
    BY <1>PowerLoss DEF PowerLoss
  <2> QED  BY <2>1, TypedFile DEF LogType
<1> QED
  BY <1>OpenLog, <1>DeleteObsoleteFile, <1>AddRecord, <1>SyncLog, <1>Switch, <1>PowerLoss, Changes
     DEF LogType

\* The edits NewDB and the background thread start from.
LEMMA NoEditType == NoEdit \in Edit /\ [NoEdit EXCEPT !.next = 2] \in Edit
BY DEF NoEdit, Edit

\* The manifests keep their type.
LEMMA ManifestTypeStep ==
  ASSUME Types, BlankOK, ManifestOK, OpeningOK, LiveOK, [Next]_vars
  PROVE  ManifestType'
<1> USE DEF Types
<1>NewDB. CASE NewDB
  <2>1. <<[NoEdit EXCEPT !.next = 2]>> \in Seq(Edit \cup {Torn}) /\ Len(<<[NoEdit EXCEPT !.next = 2]>>) = 1
    BY NoEditType
  <2>2. [recs |-> <<[NoEdit EXCEPT !.next = 2]>>, durable |-> 0] \in File(Edit)
    BY <2>1 DEF File
  <2>3. manifest' = Create(manifest, 1, [recs |-> <<[NoEdit EXCEPT !.next = 2]>>, durable |-> 0])
        \/ manifest' = Remove(manifest, 1)
    BY <1>NewDB DEF NewDB
  <2> QED  BY <2>2, <2>3, TypedChange DEF ManifestType
<1>OpenManifest. CASE OpenManifest
  <2> DEFINE r == [edit EXCEPT !.next = next_file, !.last = last_sequence, !.add = @ \cup version]
  <2>1. r \in Edit
    BY DEF Edit, NumberType, ControlType
  <2>2. manifest' = Create(manifest, manifest_number, [recs |-> <<r>>, durable |-> 0])
    BY <1>OpenManifest DEF OpenManifest
  <2> HIDE DEF r
  <2>3. <<r>> \in Seq(Edit \cup {Torn}) /\ Len(<<r>>) = 1
    BY <2>1
  <2>4. [recs |-> <<r>>, durable |-> 0] \in File(Edit)
    BY <2>3 DEF File
  <2> QED  BY <2>2, <2>4, TypedChange DEF ManifestType, NumberType
<1>OpenSync. CASE OpenSync
  <2>1. manifest_number \in DOMAIN manifest
    BY <1>OpenSync DEF OpenSync, Opening, OpeningOK, ManifestType
  <2>2. manifest' = SyncFile(manifest, manifest_number) \/ manifest' = Remove(manifest, manifest_number)
    BY <1>OpenSync DEF OpenSync
  <2> QED  BY <2>1, <2>2, TypedFile, TypedChange DEF ManifestType
<1>OpenCurrent. CASE OpenCurrent
  <2>1. manifest' = manifest \/ manifest' = Remove(manifest, manifest_number)
    BY <1>OpenCurrent DEF OpenCurrent
  <2> QED  BY <2>1, TypedChange DEF ManifestType
<1>DeleteObsoleteFile. CASE DeleteObsoleteFile
  <2>1. manifest' = manifest \/ \E n \in DOMAIN manifest : manifest' = Remove(manifest, n)
    BY <1>DeleteObsoleteFile DEF DeleteObsoleteFile
  <2> QED  BY <2>1, TypedChange DEF ManifestType
<1>ApplyAdd. CASE ApplyAdd
  <2>1. manifest_number \in DOMAIN manifest
    BY <1>ApplyAdd DEF ApplyAdd, Running, Live, LiveOK, ManifestOK, ManifestType
  <2>2. edit \in Edit
    BY DEF ControlType
  <2>3. manifest' = manifest \/ \E x \in {edit, Torn} : manifest' = AppendTo(manifest, manifest_number, x)
    BY <1>ApplyAdd DEF ApplyAdd, FailedAppend
  <2> QED  BY <2>1, <2>2, <2>3, TypedFile DEF ManifestType
<1>ApplySync. CASE ApplySync
  <2>1. manifest_number \in DOMAIN manifest
    BY <1>ApplySync DEF ApplySync, Running, Live, LiveOK, ManifestOK, ManifestType
  <2>2. manifest' = manifest \/ manifest' = SyncFile(manifest, manifest_number)
    BY <1>ApplySync DEF ApplySync
  <2> QED  BY <2>1, <2>2, TypedFile DEF ManifestType
<1>PowerLoss. CASE PowerLoss
  <2>1. manifest' \in AfterPowerLoss(manifest)
    BY <1>PowerLoss DEF PowerLoss
  <2> QED  BY <2>1, TypedFile DEF ManifestType
<1> QED
  BY <1>NewDB, <1>OpenManifest, <1>OpenSync, <1>OpenCurrent, <1>DeleteObsoleteFile, <1>ApplyAdd,
     <1>ApplySync, <1>PowerLoss, Changes
     DEF ManifestType

\* The entries of the tables ts when the table files are tb.
EntriesIn(tb, ts) == UNION {tb[t] : t \in {x \in ts : x \in DOMAIN tb /\ tb[x] # Garbage}}

\* The entries of tables that did not change, ...
LEMMA EntriesSame ==
  ASSUME NEW a, NEW b, NEW ts, \A t \in ts : t \in DOMAIN a /\ t \in DOMAIN b /\ b[t] = a[t]
  PROVE  EntriesIn(b, ts) = EntriesIn(a, ts)
<1>1. {x \in ts : x \in DOMAIN b /\ b[x] # Garbage} = {x \in ts : x \in DOMAIN a /\ a[x] # Garbage}
  OBVIOUS
<1> QED  BY <1>1 DEF EntriesIn

\* ... of two sets of tables, ...
LEMMA EntriesUnion ==
  ASSUME NEW a, NEW ts, NEW us
  PROVE  EntriesIn(a, ts \cup us) = EntriesIn(a, ts) \cup EntriesIn(a, us)
BY DEF EntriesIn

\* ... and of one table.
LEMMA EntriesOne ==
  ASSUME NEW a, NEW n \in DOMAIN a, a[n] # Garbage
  PROVE  EntriesIn(a, {n}) = a[n]
BY DEF EntriesIn

\* The entries of the logs ns when the log files are logs.
LogsIn(logs, ns) == UNION {Intact(logs[l].recs) : l \in ns}

\* The records of logs that did not change, ...
LEMMA LogsSame ==
  ASSUME NEW a, NEW b, NEW ns, \A l \in ns : b[l].recs = a[l].recs
  PROVE  LogsIn(b, ns) = LogsIn(a, ns)
BY DEF LogsIn

\* ... of one log more, ...
LEMMA LogsOneMore ==
  ASSUME NEW a, NEW ns, NEW l
  PROVE  LogsIn(a, ns \cup {l}) = LogsIn(a, ns) \cup Intact(a[l].recs)
BY DEF LogsIn

\* ... and of an empty log.
LEMMA EmptyLog ==
  ASSUME NEW a, NEW l, a[l].recs = <<>>
  PROVE  Intact(a[l].recs) = {}
BY DEF Intact

\* What tables hold are entries, ...
LEMMA TableEntriesType ==
  ASSUME TableType, NEW ts
  PROVE  TableEntries(ts) \subseteq Entry
BY DEF TableEntries, TableType, Typed

\* ... and so is what logs hold.
LEMMA LogEntriesType ==
  ASSUME LogType, NEW l \in DOMAIN log
  PROVE  LogEntries(l) \subseteq Entry
<1>1. log[l].recs \in Seq(Entry \cup {Torn})
  BY DEF LogType, Typed, File
<1> QED  BY <1>1, IntactType DEF LogEntries

\* The tables keep their type.
LEMMA TableTypeStep ==
  ASSUME Types, OpeningOK, [Next]_vars
  PROVE  TableType'
<1> USE DEF Types
<1>RecoverLogFile. CASE RecoverLogFile
  <2>1. todo # {} /\ todo \subseteq DOMAIN log /\ todo \subseteq Nat
    BY <1>RecoverLogFile DEF RecoverLogFile, OpeningOK, Opening, NumberType
  <2>2. \E l \in todo : \A y \in todo : l <= y
    BY <2>1, LeastNat
  <2>3. Min(todo) \in todo
    BY <2>2 DEF Min
  <2> DEFINE es == LogEntries(Min(todo))
  <2>4. es \subseteq Entry
    BY <2>1, <2>3, LogEntriesType
  <2>5. table' = table \/ table' = Create(table, next_file, es) \/ table' = Remove(table, next_file)
    BY <1>RecoverLogFile DEF RecoverLogFile
  <2> HIDE DEF es
  <2>6. es \in {Garbage} \cup SUBSET Entry /\ next_file \in Nat
    BY <2>4 DEF NumberType
  <2> DEFINE T == {Garbage} \cup SUBSET Entry
  <2>7. Typed(table, T)
    BY DEF TableType
  <2>8. es \in T
    BY <2>6
  <2> HIDE DEF T
  <2>9. Typed(Create(table, next_file, es), T) /\ Typed(Remove(table, next_file), T)
    BY <2>6, <2>7, <2>8, TypedChange
  <2> QED  BY <2>5, <2>7, <2>9 DEF TableType, T
<1>DeleteObsoleteFile. CASE DeleteObsoleteFile
  <2>1. table' = table \/ \E n \in DOMAIN table : table' = Remove(table, n)
    BY <1>DeleteObsoleteFile DEF DeleteObsoleteFile
  <2> QED  BY <2>1, TypedChange DEF TableType
<1>FlushStart. CASE FlushStart
  <2>1. table' = Create(table, next_file, Garbage)
    BY <1>FlushStart DEF FlushStart
  <2> QED  BY <2>1, TypedChange DEF TableType, NumberType
<1>FlushBuilt. CASE FlushBuilt
  BY <1>FlushBuilt DEF FlushBuilt, TableType, Typed, DataType
<1>CompactOutput. CASE CompactOutput
  <2>1. table' = Create(table, next_file, Garbage)
    BY <1>CompactOutput DEF CompactOutput
  <2> QED  BY <2>1, TypedChange DEF TableType, NumberType
<1>CompactBuilt. CASE CompactBuilt
  BY <1>CompactBuilt, TableEntriesType DEF CompactBuilt, TableType, Typed
<1> QED
  BY <1>RecoverLogFile, <1>DeleteObsoleteFile, <1>FlushStart, <1>FlushBuilt, <1>CompactOutput,
     <1>CompactBuilt, Changes
     DEF TableType

\* The records of a manifest.
LEMMA RecordType ==
  ASSUME ManifestType, NEW m \in DOMAIN manifest
  PROVE  /\ manifest[m].recs \in Seq(Edit \cup {Torn})
         /\ Len(manifest[m].recs) \in Nat /\ DOMAIN manifest[m].recs = 1..Len(manifest[m].recs)
         /\ Whole(manifest[m].recs) \in 0..Len(manifest[m].recs)
         /\ \A i \in 1..Len(manifest[m].recs) : manifest[m].recs[i] # Torn => manifest[m].recs[i] \in Edit
         /\ \A i \in 1..Whole(manifest[m].recs) : manifest[m].recs[i] # Torn /\ manifest[m].recs[i] \in Edit
         /\ manifest[m].durable \in 0..Len(manifest[m].recs)
<1> DEFINE recs == manifest[m].recs
<1>1. recs \in Seq(Edit \cup {Torn}) /\ manifest[m].durable \in Nat /\ manifest[m].durable <= Len(recs)
  BY DEF ManifestType, Typed, File
<1> HIDE DEF recs
<1>2. Len(recs) \in Nat /\ DOMAIN recs = 1..Len(recs) /\ \A i \in 1..Len(recs) : recs[i] \in Edit \cup {Torn}
  BY <1>1, LenProperties, ElementOfSeq
<1>3. Whole(recs) \in 0..Len(recs) /\ \A i \in 1..Whole(recs) : recs[i] # Torn
  BY <1>1, WholeDef
<1>4. \A i \in 1..Whole(recs) : i \in 1..Len(recs)
  BY <1>2, <1>3
<1> QED  BY <1>1, <1>2, <1>3, <1>4 DEF recs

\* The numbers of tables are numbers of files.
LEMMA TablesType ==
  ASSUME ManifestType, NEW m \in DOMAIN manifest, NEW k \in 0..Whole(manifest[m].recs)
  PROVE  Tables(manifest[m].recs, k) \subseteq Nat
<1>1. k \in Nat /\ \A i \in 1..k : i \in 1..Whole(manifest[m].recs)
  BY RecordType
<1>2. \A i \in 1..k : manifest[m].recs[i].add \subseteq Nat
  BY <1>1, RecordType DEF Edit
<1> QED  BY <1>1, <1>2, TablesAdded

\* After the replay of a log no entry of it has a later number.
LEMMA SequenceRecovered ==
  ASSUME LogType, NEW l \in DOMAIN log, last_sequence \in Nat
  PROVE  /\ RecoveredSequence(LogEntries(l)) \in Nat
         /\ last_sequence <= RecoveredSequence(LogEntries(l))
         /\ \A e \in LogEntries(l) : e.seq <= RecoveredSequence(LogEntries(l))
<1> DEFINE Q == {e.seq : e \in LogEntries(l)}
           X == {last_sequence} \cup Q
<1>1. log[l].recs \in Seq(Entry \cup {Torn})
  BY DEF LogType, Typed, File
<1>2. IsFiniteSet(Q)
  BY <1>1, IntactFinite DEF LogEntries
<1>3. Q \subseteq Nat
  BY LogEntriesType DEF Entry
<1>4. \A e \in LogEntries(l) : e.seq \in Q
  OBVIOUS
<1>5. RecoveredSequence(LogEntries(l)) = Max(X)
  BY DEF RecoveredSequence
<1> HIDE DEF Q
<1>6. IsFiniteSet(X)
  BY <1>2, FS_Singleton, FS_Union
<1>7. X \subseteq Nat /\ X # {} /\ last_sequence \in X /\ Q \subseteq X
  BY <1>3
<1> HIDE DEF X
<1>8. Max(X) \in X /\ \A y \in X : y <= Max(X)
  <2>1. \E x \in X : \A y \in X : x >= y
    BY <1>6, <1>7, GreatestNat
  <2> QED  BY <1>7, <2>1 DEF Max
<1> QED  BY <1>4, <1>5, <1>7, <1>8

\* The oldest log that is left.
LEMMA OldestLog ==
  ASSUME NumberType, OpeningOK, phase = "logs", todo # {}
  PROVE  /\ Min(todo) \in todo /\ Min(todo) \in DOMAIN log /\ Min(todo) \in Nat
         /\ \A x \in todo : Min(todo) <= x
<1>1. todo \subseteq DOMAIN log /\ todo \subseteq Nat
  BY DEF OpeningOK, Opening, NumberType
<1>2. \E l \in todo : \A y \in todo : l <= y
  BY <1>1, LeastNat
<1> QED  BY <1>1, <1>2 DEF Min

\* File and sequence numbers keep their type.
LEMMA NumberTypeStep ==
  ASSUME Types, OpeningOK, LiveOK, BackgroundOK, ManifestOK, BlankOK, [Next]_vars
  PROVE  NumberType'
<1> USE DEF Types
<1>1. edit.log \in Nat /\ edit.add \subseteq Nat
  BY DEF ControlType, Edit
<1>2. current' \in Nat
  BY Changes DEF NewDBCurrent, OpenCurrent, NumberType
<1>3. CASE Forget /\ current' \in Nat
  BY <1>3 DEF Forget, NumberType
<1>Recover. CASE Recover
  <2>1. current \in DOMAIN manifest
    BY <1>Recover DEF Recover, ManifestOK, BlankOK
  <2> DEFINE recs == manifest[current].recs
  <2>2. Whole(recs) \in Nat /\ \A i \in 1..Whole(recs) : recs[i].log \in Nat /\ recs[i].next \in Nat /\ recs[i].last \in Nat
    BY <2>1, RecordType DEF Edit
  <2>3. Tables(recs, Whole(recs)) \subseteq Nat
    BY <2>1, <2>2, TablesType
  <2> HIDE DEF recs
  <2>4. CASE UNCHANGED memory
    BY <1>2, <2>4 DEF memory, NumberType
  <2>5. CASE ~UNCHANGED memory
    <3>1. /\ Whole(recs) > 0
          /\ version' = Tables(recs, Whole(recs)) /\ log_number' = recs[Whole(recs)].log
          /\ manifest_number' = recs[Whole(recs)].next /\ next_file' = recs[Whole(recs)].next + 1
          /\ last_sequence' = recs[Whole(recs)].last
          /\ todo' = {l \in DOMAIN log : l >= recs[Whole(recs)].log}
          /\ UNCHANGED <<logfile_number, inputs, pending>>
      BY <1>Recover, <2>5 DEF Recover, recs
    <3>2. Whole(recs) \in 1..Whole(recs)
      BY <2>2, <3>1
    <3> QED  BY <1>2, <2>2, <2>3, <3>1, <3>2 DEF NumberType, LogType, Typed
  <2> QED  BY <2>4, <2>5
<1>RecoverLogFile. CASE RecoverLogFile
  <2>1. CASE Forget
    BY <1>2, <1>3, <2>1
  <2>2. CASE ~Forget
    <3> DEFINE l == Min(todo)
               n == next_file + (IF LogEntries(l) = {} THEN 0 ELSE 1)
    <3>1. l \in todo /\ l \in DOMAIN log /\ l \in Nat
      BY <1>RecoverLogFile, OldestLog DEF RecoverLogFile
    <3>2. RecoveredSequence(LogEntries(l)) \in Nat
      BY <3>1, SequenceRecovered DEF NumberType
    <3> HIDE DEF l
    <3>3. n \in Nat
      BY DEF NumberType
    <3>4. /\ todo' = todo \ {l} /\ next_file' = MarkFileNumberUsed(n, l)
          /\ last_sequence' = RecoveredSequence(LogEntries(l))
          /\ UNCHANGED <<logfile_number, log_number, manifest_number, version, inputs, pending>>
      BY <1>RecoverLogFile, <2>2 DEF RecoverLogFile, l
    <3> HIDE DEF n
    <3>5. next_file' \in Nat
      BY <3>1, <3>3, <3>4 DEF MarkFileNumberUsed
    <3> QED  BY <1>2, <3>2, <3>4, <3>5 DEF NumberType
  <2> QED  BY <2>1, <2>2
<1>OpenLog. CASE OpenLog
  BY <1>2, <1>3, <1>OpenLog DEF OpenLog, NumberType
<1>OpenSync. CASE OpenSync
  BY <1>2, <1>3, <1>OpenSync DEF OpenSync, NumberType, memory
<1>OpenCurrent. CASE OpenCurrent
  BY <1>1, <1>2, <1>3, <1>OpenCurrent DEF OpenCurrent, NumberType
<1>AddRecord. ASSUME NEW b \in Batch, NEW sync \in BOOLEAN, AddRecord(b, sync) PROVE NumberType'
  BY <1>AddRecord DEF AddRecord, NumberType
<1>SyncLog. CASE SyncLog
  BY <1>SyncLog DEF SyncLog, NumberType
<1>FinishWrite. CASE FinishWrite
  <2>1. writing[1].entry.seq \in Nat
    BY <1>FinishWrite DEF FinishWrite, DataType, Entry
  <2> QED  BY <1>2, <2>1, <1>FinishWrite DEF FinishWrite, NumberType
<1>Switch. CASE Switch
  BY <1>Switch DEF Switch, NumberType
<1>FlushStart. CASE FlushStart
  BY <1>FlushStart DEF FlushStart, NumberType
<1>FlushBuilt. CASE FlushBuilt
  BY <1>FlushBuilt DEF FlushBuilt, NumberType
<1>CompactStart. CASE CompactStart
  BY <1>CompactStart DEF CompactStart, NumberType, disk
<1>CompactOutput. CASE CompactOutput
  BY <1>CompactOutput DEF CompactOutput, NumberType
<1>CompactBuilt. CASE CompactBuilt
  BY <1>CompactBuilt DEF CompactBuilt, NumberType
<1>ApplyAdd. CASE ApplyAdd
  BY <1>ApplyAdd DEF ApplyAdd, ApplyFailed, NumberType
<1>ApplySync. CASE ApplySync
  BY <1>ApplySync DEF ApplySync, ApplyFailed, NumberType
<1>ApplyInstall. CASE ApplyInstall
  BY <1>1, <1>ApplyInstall DEF ApplyInstall, NumberType, disk
<1>ProcessCrash. CASE ProcessCrash
  BY <1>2, <1>3, <1>ProcessCrash DEF ProcessCrash
<1>PowerLoss. CASE PowerLoss
  BY <1>2, <1>3, <1>PowerLoss DEF PowerLoss
<1>same. CASE UNCHANGED <<logfile_number, log_number, manifest_number, next_file, last_sequence,
                          version, todo, inputs, pending>>
  BY <1>2, <1>same DEF NumberType
<1> QED
  BY Changes, <1>Recover, <1>RecoverLogFile, <1>OpenLog, <1>OpenSync, <1>OpenCurrent, <1>AddRecord,
     <1>SyncLog, <1>FinishWrite, <1>Switch, <1>FlushStart, <1>FlushBuilt, <1>CompactStart,
     <1>CompactOutput, <1>CompactBuilt, <1>ApplyAdd, <1>ApplySync, <1>ApplyInstall,
     <1>ProcessCrash, <1>PowerLoss, <1>same

\* So do the memtables, the write in progress and the history, ...
LEMMA DataTypeStep ==
  ASSUME Types, [Next]_vars
  PROVE  DataType'
<1> USE DEF Types
<1>1. CASE Forget /\ acked' \in {acked, safe} /\ UNCHANGED <<safe, doubt, created>>
  BY <1>1 DEF Forget, DataType
<1>RecoverLogFile. CASE RecoverLogFile
  BY <1>1, <1>RecoverLogFile DEF RecoverLogFile, DataType, history
<1>OpenLog. CASE OpenLog
  BY <1>1, <1>OpenLog DEF OpenLog, DataType, history
<1>OpenSync. CASE OpenSync
  BY <1>1, <1>OpenSync DEF OpenSync, DataType, history, memory
<1>OpenCurrent. CASE OpenCurrent
  BY <1>1, <1>OpenCurrent DEF OpenCurrent, DataType, history
<1>OpenDone. CASE OpenDone
  BY <1>OpenDone DEF OpenDone, DataType, memory
<1>AddRecord. ASSUME NEW b \in Batch, NEW sync \in BOOLEAN, AddRecord(b, sync) PROVE DataType'
  <2> DEFINE w == [entry |-> [batch |-> b, seq |-> last_sequence + 1], sync |-> sync, todo |-> sync]
  <2>1. w \in [entry: Entry, sync: BOOLEAN, todo: BOOLEAN]
    BY DEF Entry, NumberType
  <2>2. writing' = writing \/ writing' = <<w>>
    BY <1>AddRecord DEF AddRecord
  <2>3. doubt' \subseteq Batch /\ UNCHANGED <<mem, imm, acked, safe, created>>
    BY <1>AddRecord DEF AddRecord, DataType
  <2> HIDE DEF w
  <2> QED  BY <2>1, <2>2, <2>3 DEF DataType
<1>SyncLog. CASE SyncLog
  <2>1. PICK w \in [entry: Entry, sync: BOOLEAN, todo: BOOLEAN] : writing = <<w>>
    BY <1>SyncLog DEF SyncLog, DataType
  <2>2. writing[1] = w /\ w.entry.batch \in Batch /\ [w EXCEPT !.todo = FALSE] \in [entry: Entry, sync: BOOLEAN, todo: BOOLEAN]
    BY <2>1 DEF Entry
  <2>3. writing' = <<[w EXCEPT !.todo = FALSE]>> \/ writing' = <<>>
    BY <1>SyncLog, <2>2 DEF SyncLog
  <2>4. doubt' \subseteq Batch /\ UNCHANGED <<mem, imm, acked, safe, created>>
    BY <1>SyncLog, <2>2 DEF SyncLog, DataType
  <2> QED  BY <2>2, <2>3, <2>4 DEF DataType
<1>FinishWrite. CASE FinishWrite
  <2>1. writing[1].entry \in Entry /\ writing[1].entry.batch \in Batch
    BY <1>FinishWrite DEF FinishWrite, DataType, Entry
  <2> QED  BY <2>1, <1>FinishWrite DEF FinishWrite, DataType
<1>Switch. CASE Switch
  BY <1>Switch DEF Switch, DataType, history
<1>ApplyInstall. CASE ApplyInstall
  BY <1>ApplyInstall DEF ApplyInstall, DataType, history
<1>ProcessCrash. CASE ProcessCrash
  BY <1>1, <1>ProcessCrash DEF ProcessCrash, history
<1>PowerLoss. CASE PowerLoss
  BY <1>1, <1>PowerLoss DEF PowerLoss
<1>same. CASE UNCHANGED <<mem, imm, writing, acked, safe, doubt, created>>
  BY <1>same DEF DataType
<1> QED
  BY Changes, <1>RecoverLogFile, <1>OpenLog, <1>OpenSync, <1>OpenCurrent, <1>OpenDone, <1>AddRecord,
     <1>SyncLog, <1>FinishWrite, <1>Switch, <1>ApplyInstall, <1>ProcessCrash, <1>PowerLoss, <1>same

\* ... and the state of the threads.
LEMMA ControlTypeStep ==
  ASSUME Types, [Next]_vars
  PROVE  ControlType'
<1> USE DEF Types
<1>1. phase' \in Phase
  <2>NewDB. CASE NewDB
      BY <2>NewDB DEF NewDB, Phase
  <2>NewDBCurrent. CASE NewDBCurrent
      BY <2>NewDBCurrent DEF NewDBCurrent, Phase
  <2>OpenExisting. CASE OpenExisting
      BY <2>OpenExisting DEF OpenExisting, Phase
  <2>Recover. CASE Recover
      BY <2>Recover DEF Recover, Phase
  <2>RecoverLogFile. CASE RecoverLogFile
      BY <2>RecoverLogFile DEF RecoverLogFile, Phase
  <2>OpenLog. CASE OpenLog
      BY <2>OpenLog DEF OpenLog, Phase
  <2>OpenManifest. CASE OpenManifest
      BY <2>OpenManifest DEF OpenManifest, Phase
  <2>OpenSync. CASE OpenSync
      BY <2>OpenSync DEF OpenSync, Phase
  <2>OpenCurrent. CASE OpenCurrent
      BY <2>OpenCurrent DEF OpenCurrent, Phase
  <2>OpenDone. CASE OpenDone
      BY <2>OpenDone DEF OpenDone, Phase
  <2>ProcessCrash. CASE ProcessCrash
      BY <2>ProcessCrash DEF ProcessCrash, Phase
  <2>PowerLoss. CASE PowerLoss
      BY <2>PowerLoss DEF PowerLoss, Phase
  <2>same. CASE phase' = phase
    BY <2>same DEF ControlType
  <2> QED
    BY Changes, <2>NewDB, <2>NewDBCurrent, <2>OpenExisting, <2>Recover, <2>RecoverLogFile, <2>OpenLog, <2>OpenManifest, <2>OpenSync, <2>OpenCurrent, <2>OpenDone, <2>ProcessCrash, <2>PowerLoss, <2>same
<1>2. bg_error' \in BOOLEAN
  BY Changes DEF RecoverLogFile, OpenLog, OpenSync, OpenCurrent, SyncLog, FlushBuilt, CompactBuilt,
                 ApplyAdd, ApplySync, ApplyFailed, ProcessCrash, PowerLoss, Forget, ControlType, memory
<1>3. bgpc' \in BGPC
  <2>RecoverLogFile. CASE RecoverLogFile
      BY <2>RecoverLogFile DEF RecoverLogFile, Forget, ControlType, BGPC
  <2>OpenLog. CASE OpenLog
      BY <2>OpenLog DEF OpenLog, Forget, ControlType, BGPC
  <2>OpenSync. CASE OpenSync
      BY <2>OpenSync DEF OpenSync, Forget, memory, ControlType, BGPC
  <2>OpenCurrent. CASE OpenCurrent
      BY <2>OpenCurrent DEF OpenCurrent, Forget, ControlType, BGPC
  <2>FlushStart. CASE FlushStart
      BY <2>FlushStart DEF FlushStart, ControlType, BGPC
  <2>FlushBuilt. CASE FlushBuilt
      BY <2>FlushBuilt DEF FlushBuilt, Resume, ControlType, BGPC
  <2>CompactStart. CASE CompactStart
      BY <2>CompactStart DEF CompactStart, ControlType, BGPC
  <2>CompactBuilt. CASE CompactBuilt
      BY <2>CompactBuilt DEF CompactBuilt, ControlType, BGPC
  <2>ApplyAdd. CASE ApplyAdd
      BY <2>ApplyAdd DEF ApplyAdd, ApplyFailed, Resume, ControlType, BGPC
  <2>ApplySync. CASE ApplySync
      BY <2>ApplySync DEF ApplySync, ApplyFailed, Resume, ControlType, BGPC
  <2>ApplyInstall. CASE ApplyInstall
      BY <2>ApplyInstall DEF ApplyInstall, ControlType, BGPC
  <2>CleanupDone. CASE CleanupDone
      BY <2>CleanupDone DEF CleanupDone, Resume, ControlType, BGPC
  <2>ProcessCrash. CASE ProcessCrash
      BY <2>ProcessCrash DEF ProcessCrash, Forget, ControlType, BGPC
  <2>PowerLoss. CASE PowerLoss
      BY <2>PowerLoss DEF PowerLoss, Forget, ControlType, BGPC
  <2>same. CASE bgpc' = bgpc
    BY <2>same DEF ControlType
  <2> QED
    BY Changes, <2>RecoverLogFile, <2>OpenLog, <2>OpenSync, <2>OpenCurrent, <2>FlushStart, <2>FlushBuilt, <2>CompactStart, <2>CompactBuilt, <2>ApplyAdd, <2>ApplySync, <2>ApplyInstall, <2>CleanupDone, <2>ProcessCrash, <2>PowerLoss, <2>same
<1>4. edit' \in Edit
  <2>1. CASE edit' = edit \/ edit' = NoEdit
    BY <2>1, NoEditType DEF ControlType
  <2>2. next_file \in Nat /\ log_number \in Nat /\ logfile_number \in Nat /\ last_sequence \in Nat
        /\ pending \subseteq Nat /\ inputs \subseteq Nat
    BY DEF NumberType
  <2>4. CASE RecoverLogFile
    <3>1. edit' = edit \/ edit' = NoEdit \/ edit' = [edit EXCEPT !.add = @ \cup {next_file}]
      BY <2>4 DEF RecoverLogFile, Forget
    <3>2. [edit EXCEPT !.add = @ \cup {next_file}] \in Edit
      BY <2>2 DEF ControlType, Edit
    <3> QED  BY <2>1, <3>1, <3>2
  <2>5. CASE OpenLog
    <3>1. edit' = edit \/ edit' = NoEdit \/ edit' = [edit EXCEPT !.log = next_file]
      BY <2>5 DEF OpenLog, Forget
    <3>2. [edit EXCEPT !.log = next_file] \in Edit
      BY <2>2 DEF ControlType, Edit
    <3> QED  BY <2>1, <3>1, <3>2
  <2>6. CASE FlushStart
    <3>1. edit' = [NoEdit EXCEPT !.add = {next_file}]
      BY <2>6 DEF FlushStart
    <3>2. [NoEdit EXCEPT !.add = {next_file}] \in Edit
      BY <2>2 DEF NoEdit, Edit
    <3> QED  BY <3>1, <3>2
  <2>7. CASE FlushBuilt
    <3>1. edit' = NoEdit
          \/ edit' = [edit EXCEPT !.log = FlushedLogNumber, !.next = next_file, !.last = last_sequence]
      BY <2>7 DEF FlushBuilt
    <3>2. [edit EXCEPT !.log = FlushedLogNumber, !.next = next_file, !.last = last_sequence] \in Edit
      BY <2>2 DEF ControlType, Edit, FlushedLogNumber
    <3> QED  BY <2>1, <3>1, <3>2
  <2>8. CASE CompactBuilt
    <3>1. edit' = edit \/ edit' = [log |-> log_number, next |-> next_file, last |-> last_sequence,
                                   add |-> pending, del |-> inputs]
      BY <2>8 DEF CompactBuilt
    <3>2. [log |-> log_number, next |-> next_file, last |-> last_sequence,
           add |-> pending, del |-> inputs] \in Edit
      BY <2>2 DEF Edit
    <3> QED  BY <2>1, <3>1, <3>2
  <2>OpenSync. CASE OpenSync
    BY <2>1, <2>OpenSync DEF OpenSync, Forget, memory
  <2>OpenCurrent. CASE OpenCurrent
    BY <2>1, <2>OpenCurrent DEF OpenCurrent, Forget
  <2>ApplyAdd. CASE ApplyAdd
    BY <2>1, <2>ApplyAdd DEF ApplyAdd, ApplyFailed
  <2>ApplySync. CASE ApplySync
    BY <2>1, <2>ApplySync DEF ApplySync, ApplyFailed
  <2>ApplyInstall. CASE ApplyInstall
    BY <2>1, <2>ApplyInstall DEF ApplyInstall
  <2>ProcessCrash. CASE ProcessCrash
    BY <2>1, <2>ProcessCrash DEF ProcessCrash, Forget
  <2>PowerLoss. CASE PowerLoss
    BY <2>1, <2>PowerLoss DEF PowerLoss, Forget
  <2> QED
    BY Changes, <2>1, <2>4, <2>5, <2>6, <2>7, <2>8, <2>OpenSync, <2>OpenCurrent, <2>ApplyAdd, <2>ApplySync, <2>ApplyInstall, <2>ProcessCrash, <2>PowerLoss
<1> QED  BY <1>1, <1>2, <1>3, <1>4 DEF ControlType

\* All types are kept.
LEMMA TypesStep ==
  ASSUME Types, BlankOK, ManifestOK, OpeningOK, LiveOK, BackgroundOK, [Next]_vars
  PROVE  Types'
BY LogTypeStep, ManifestTypeStep, TableTypeStep, NumberTypeStep, DataTypeStep, ControlTypeStep DEF Types

-----------------------------------------------------------------------------
(* The steps of DB::Open that go on, and the ways a database is closed: by *)
(* a failing call or the end of the process, which leave the files as they *)
(* are but for a table or a manifest that was being written, or by a power *)
(* failure.                                                                *)

Replay == RecoverLogFile /\ phase' = "logs"
NewLog == OpenLog /\ phase' = "manifest"
NewManifestSynced == OpenSync /\ phase' = "current"
NewCurrent == OpenCurrent /\ phase' = "cleanup"

Closed == phase' = "down" /\ Forget /\ UNCHANGED <<current, safe, doubt, created>>
Quit == Closed /\ phase # "down" /\ UNCHANGED <<log, manifest, table, acked>>
DropTable ==
  Closed /\ phase = "logs" /\ table' = Remove(table, next_file) /\ UNCHANGED <<log, manifest, acked>>
DropManifest ==
  /\ Closed /\ phase \in {"sync", "current"} /\ manifest' = Remove(manifest, manifest_number)
  /\ UNCHANGED <<log, table, acked>>

\* Nothing but the count of failures changes: SwitchFails, or no step at all.
Idles == UNCHANGED <<disk, phase, memory, history>>

\* The steps, with those of DB::Open that failed and the end of the process
\* apart.
LEMMA Steps ==
  ASSUME [Next]_vars
  PROVE  \/ NewDB \/ NewDBCurrent \/ OpenExisting \/ Recover \/ Replay \/ NewLog \/ OpenManifest
         \/ NewManifestSynced \/ NewCurrent \/ DeleteObsoleteFile \/ OpenDone
         \/ (\E b \in Batch, sync \in BOOLEAN : AddRecord(b, sync))
         \/ SyncLog \/ FinishWrite \/ Switch \/ FlushStart \/ FlushBuilt \/ CompactStart
         \/ CompactOutput \/ CompactBuilt \/ ApplyAdd \/ ApplySync \/ ApplyInstall \/ CleanupDone
         \/ Quit \/ DropTable \/ DropManifest \/ PowerLoss \/ Idles
<1>1. CASE RecoverLogFile
  BY <1>1 DEF RecoverLogFile, Replay, DropTable, Closed, history
<1>2. CASE OpenLog
  BY <1>2 DEF OpenLog, NewLog, Quit, Closed, history
<1>3. CASE OpenSync
  BY <1>3 DEF OpenSync, NewManifestSynced, DropManifest, Closed, history
<1>4. CASE OpenCurrent
  BY <1>4 DEF OpenCurrent, NewCurrent, DropManifest, Closed, history
<1>5. CASE ProcessCrash
  BY <1>5 DEF ProcessCrash, Crash, Quit, Closed, disk, history
<1>6. CASE SwitchFails \/ UNCHANGED vars
  BY <1>6 DEF SwitchFails, vars, Idles
<1> QED  BY <1>1, <1>2, <1>3, <1>4, <1>5, <1>6 DEF Next

\* Which of them change the files.
LEMMA FileChanges ==
  ASSUME [Next]_vars
  PROVE
    /\ log' = log \/ NewLog \/ DeleteObsoleteFile \/
            (\E b \in Batch, sync \in BOOLEAN : AddRecord(b, sync)) \/ SyncLog \/ Switch \/ PowerLoss
    /\ manifest' = manifest \/ NewDB \/ OpenManifest \/ NewManifestSynced \/ DeleteObsoleteFile \/
            ApplyAdd \/ ApplySync \/ DropManifest \/ PowerLoss
    /\ table' = table \/ Replay \/ DeleteObsoleteFile \/ FlushStart \/ FlushBuilt \/ CompactOutput \/
            CompactBuilt \/ DropTable
    /\ current' = current \/ NewDBCurrent \/ NewCurrent
<1>NewDB. CASE NewDB
  BY <1>NewDB DEF NewDB
<1>NewDBCurrent. CASE NewDBCurrent
  BY <1>NewDBCurrent DEF NewDBCurrent
<1>OpenExisting. CASE OpenExisting
  BY <1>OpenExisting DEF OpenExisting, disk
<1>Recover. CASE Recover
  BY <1>Recover DEF Recover, disk
<1>Replay. CASE Replay
  BY <1>Replay DEF Replay, RecoverLogFile
<1>NewLog. CASE NewLog
  BY <1>NewLog DEF NewLog, OpenLog
<1>OpenManifest. CASE OpenManifest
  BY <1>OpenManifest DEF OpenManifest
<1>NewManifestSynced. CASE NewManifestSynced
  BY <1>NewManifestSynced DEF NewManifestSynced, OpenSync
<1>NewCurrent. CASE NewCurrent
  BY <1>NewCurrent DEF NewCurrent, OpenCurrent
<1>DeleteObsoleteFile. CASE DeleteObsoleteFile
  BY <1>DeleteObsoleteFile DEF DeleteObsoleteFile
<1>OpenDone. CASE OpenDone
  BY <1>OpenDone DEF OpenDone, disk
<1>AddRecord. CASE \E b \in Batch, sync \in BOOLEAN : AddRecord(b, sync)
  BY <1>AddRecord DEF AddRecord
<1>SyncLog. CASE SyncLog
  BY <1>SyncLog DEF SyncLog
<1>FinishWrite. CASE FinishWrite
  BY <1>FinishWrite DEF FinishWrite, disk
<1>Switch. CASE Switch
  BY <1>Switch DEF Switch
<1>FlushStart. CASE FlushStart
  BY <1>FlushStart DEF FlushStart
<1>FlushBuilt. CASE FlushBuilt
  BY <1>FlushBuilt DEF FlushBuilt
<1>CompactStart. CASE CompactStart
  BY <1>CompactStart DEF CompactStart, disk
<1>CompactOutput. CASE CompactOutput
  BY <1>CompactOutput DEF CompactOutput
<1>CompactBuilt. CASE CompactBuilt
  BY <1>CompactBuilt DEF CompactBuilt
<1>ApplyAdd. CASE ApplyAdd
  BY <1>ApplyAdd DEF ApplyAdd
<1>ApplySync. CASE ApplySync
  BY <1>ApplySync DEF ApplySync
<1>ApplyInstall. CASE ApplyInstall
  BY <1>ApplyInstall DEF ApplyInstall, disk
<1>CleanupDone. CASE CleanupDone
  BY <1>CleanupDone DEF CleanupDone, disk
<1>Quit. CASE Quit
  BY <1>Quit DEF Quit, Closed
<1>DropTable. CASE DropTable
  BY <1>DropTable DEF DropTable, Closed
<1>DropManifest. CASE DropManifest
  BY <1>DropManifest DEF DropManifest, Closed
<1>PowerLoss. CASE PowerLoss
  BY <1>PowerLoss DEF PowerLoss
<1>Stutter. CASE Idles
  BY <1>Stutter DEF Idles, disk
<1> QED
  BY Steps, <1>NewDB, <1>NewDBCurrent, <1>OpenExisting, <1>Recover, <1>Replay, <1>NewLog,
     <1>OpenManifest, <1>NewManifestSynced, <1>NewCurrent,
     <1>DeleteObsoleteFile, <1>OpenDone, <1>AddRecord, <1>SyncLog,
     <1>FinishWrite, <1>Switch, <1>FlushStart, <1>FlushBuilt, <1>CompactStart, <1>CompactOutput,
     <1>CompactBuilt, <1>ApplyAdd, <1>ApplySync, <1>ApplyInstall, <1>CleanupDone, <1>Quit,
     <1>DropTable, <1>DropManifest, <1>PowerLoss, <1>Stutter

-----------------------------------------------------------------------------
(* The manifest that CURRENT names.                                        *)

\* What is known of the manifest that CURRENT names.
LEMMA NamedType ==
  ASSUME Types, ManifestOK, current # 0
  PROVE  /\ current \in DOMAIN manifest /\ Named \in File(Edit)
         /\ Records \in Seq(Edit \cup {Torn}) /\ Len(Records) \in Nat
         /\ DOMAIN Records = 1..Len(Records)
         /\ Whole(Records) \in 0..Len(Records)
         /\ \A i \in 1..Len(Records) : Records[i] # Torn => Records[i] \in Edit
         /\ \A i \in 1..Whole(Records) : Records[i] # Torn /\ Records[i] \in Edit
         /\ Named.durable \in 0..Len(Records)
         /\ Outcomes(Named) \subseteq 1..Whole(Records)
<1>1. current \in DOMAIN manifest
  BY DEF ManifestOK
<1>2. manifest[current] \in File(Edit)
  BY <1>1 DEF Types, ManifestType, Typed
<1> QED  BY <1>1, <1>2, RecordType DEF Types, Named, Records, Outcomes

\* The numbers of a database that is being opened.
LEMMA OpeningNumbers ==
  ASSUME Types, ManifestOK, OpeningOK, Opening
  PROVE  /\ current # 0 /\ current \in DOMAIN manifest
         /\ Whole(Records) \in 1..Len(Records) /\ Whole(Records) \in Outcomes(Named)
         /\ current < manifest_number /\ log_number < manifest_number
         /\ manifest_number < next_file
<1>1. /\ current # 0 /\ Whole(Records) > 0 /\ log_number = Records[Whole(Records)].log
      /\ manifest_number = Records[Whole(Records)].next /\ manifest_number < next_file
  BY DEF OpeningOK
<1>2. Whole(Records) \in 1..Len(Records) /\ Whole(Records) \in 1..Whole(Records)
      /\ Records[Whole(Records)] # Torn
  BY <1>1, NamedType
<1>3. Whole(Records) \in DOMAIN Records
  BY <1>1, <1>2, NamedType
<1>4. current < manifest_number /\ log_number < manifest_number
  BY <1>1, <1>2, <1>3 DEF ManifestOK
<1> QED  BY <1>1, <1>2, <1>4, NamedType DEF Outcomes, Records

-----------------------------------------------------------------------------
(* Without a running database there is no state in memory.                 *)

\* Without a running database there stays no state in memory.
LEMMA BlankStep ==
  ASSUME Types, BlankOK, ManifestOK, OpeningOK, LiveOK, [Next]_vars
  PROVE  BlankOK'
<1>NewDB. CASE NewDB
  BY <1>NewDB, CreatedFile DEF NewDB, memory, history, BlankOK, Live, LiveOK, Create, Remove
<1>NewDBCurrent. CASE NewDBCurrent
  BY <1>NewDBCurrent DEF NewDBCurrent, memory, history, BlankOK, Live, LiveOK
<1>OpenExisting. CASE OpenExisting
  BY <1>OpenExisting DEF OpenExisting, disk, memory, history, BlankOK, Live, LiveOK
<1>Recover. CASE Recover
  BY <1>Recover DEF Recover, disk, memory, history, BlankOK, Live, LiveOK
<1>Replay. CASE Replay
  BY <1>Replay DEF Replay, RecoverLogFile, history, BlankOK, Live, LiveOK, Types, ControlType,
     Edit
<1>NewLog. CASE NewLog
  BY <1>NewLog DEF NewLog, OpenLog, history, BlankOK, Live, LiveOK, Types, ControlType, Edit
<1>OpenManifest. CASE OpenManifest
  BY <1>OpenManifest DEF OpenManifest, memory, history, BlankOK, Live, LiveOK
<1>NewManifestSynced. CASE NewManifestSynced
  BY <1>NewManifestSynced DEF NewManifestSynced, OpenSync, memory, history, BlankOK, Live,
     LiveOK
<1>NewCurrent. CASE NewCurrent
  <2>1. manifest_number # 0
    BY <1>NewCurrent, OpeningNumbers DEF NewCurrent, OpenCurrent, Opening, Types, NumberType
  <2> QED  BY <1>NewCurrent, <2>1 DEF NewCurrent, OpenCurrent, BlankOK, Live, LiveOK, history
<1>DeleteObsoleteFile. CASE DeleteObsoleteFile
  BY <1>DeleteObsoleteFile DEF DeleteObsoleteFile, memory, history, BlankOK, Live, LiveOK
<1>OpenDone. CASE OpenDone
  BY <1>OpenDone DEF OpenDone, disk, memory, BlankOK, Live, LiveOK
<1>AddRecord. ASSUME NEW b \in Batch, NEW sync \in BOOLEAN, AddRecord(b, sync) PROVE BlankOK'
  BY <1>AddRecord DEF AddRecord, Unlocked, Running, BlankOK, Live, LiveOK
<1>SyncLog. CASE SyncLog
  BY <1>SyncLog DEF SyncLog, Unlocked, Running, BlankOK, Live, LiveOK
<1>FinishWrite. CASE FinishWrite
  BY <1>FinishWrite DEF FinishWrite, disk, Unlocked, Running, BlankOK, Live, LiveOK
<1>Switch. CASE Switch
  BY <1>Switch DEF Switch, history, Unlocked, Running, BlankOK, Live, LiveOK
<1>FlushStart. CASE FlushStart
  BY <1>FlushStart DEF FlushStart, history, Running, BlankOK, Live, LiveOK
<1>FlushBuilt. CASE FlushBuilt
  BY <1>FlushBuilt DEF FlushBuilt, history, Running, BlankOK, Live, LiveOK
<1>CompactStart. CASE CompactStart
  BY <1>CompactStart DEF CompactStart, disk, history, Running, BlankOK, Live, LiveOK
<1>CompactOutput. CASE CompactOutput
  BY <1>CompactOutput DEF CompactOutput, history, Running, BlankOK, Live, LiveOK
<1>CompactBuilt. CASE CompactBuilt
  BY <1>CompactBuilt DEF CompactBuilt, history, Running, BlankOK, Live, LiveOK
<1>ApplyAdd. CASE ApplyAdd
  BY <1>ApplyAdd DEF ApplyAdd, history, ApplyFailed, Running, BlankOK, Live, LiveOK
<1>ApplySync. CASE ApplySync
  BY <1>ApplySync DEF ApplySync, history, ApplyFailed, Running, BlankOK, Live, LiveOK
<1>ApplyInstall. CASE ApplyInstall
  BY <1>ApplyInstall DEF ApplyInstall, disk, history, Running, BlankOK, Live, LiveOK
<1>CleanupDone. CASE CleanupDone
  BY <1>CleanupDone DEF CleanupDone, disk, history, Running, BlankOK, Live, LiveOK
<1>Quit. CASE Quit
  BY <1>Quit DEF Quit, Closed, Forget, BlankOK, Live, LiveOK, NoEdit
<1>DropTable. CASE DropTable
  BY <1>DropTable DEF DropTable, Closed, Forget, BlankOK, Live, LiveOK, NoEdit
<1>DropManifest. CASE DropManifest
  BY <1>DropManifest DEF DropManifest, Closed, Forget, BlankOK, Live, LiveOK, NoEdit
<1>PowerLoss. CASE PowerLoss
  <2>1. DOMAIN log' = DOMAIN log
    BY <1>PowerLoss DEF PowerLoss, AfterPowerLoss
  <2> QED  BY <1>PowerLoss, <2>1 DEF PowerLoss, Crash, Forget, BlankOK, Live, LiveOK, NoEdit
<1>Stutter. CASE Idles
  BY <1>Stutter DEF Idles, disk, memory, history, BlankOK, Live, LiveOK
<1> QED
  BY Steps, <1>NewDB, <1>NewDBCurrent, <1>OpenExisting, <1>Recover, <1>Replay, <1>NewLog,
     <1>OpenManifest, <1>NewManifestSynced, <1>NewCurrent, <1>DeleteObsoleteFile, <1>OpenDone,
     <1>AddRecord, <1>SyncLog, <1>FinishWrite, <1>Switch, <1>FlushStart, <1>FlushBuilt,
     <1>CompactStart, <1>CompactOutput, <1>CompactBuilt, <1>ApplyAdd, <1>ApplySync,
     <1>ApplyInstall, <1>CleanupDone, <1>Quit, <1>DropTable, <1>DropManifest, <1>PowerLoss,
     <1>Stutter

\* The steps that change the manifest CURRENT names, or let it name another.
LEMMA NamedSame ==
  ASSUME Types, BlankOK, ManifestOK, OpeningOK, LiveOK, [Next]_vars, current # 0
  PROVE  \/ current' = current /\ current \in DOMAIN manifest' /\ Named' = Named
         \/ NewCurrent \/ ApplyAdd \/ ApplySync \/ PowerLoss
<1> DEFINE Same == current' = current /\ current \in DOMAIN manifest' /\ Named' = Named
<1>1. current \in DOMAIN manifest
  BY DEF ManifestOK
<1>NewDB. CASE NewDB
  BY <1>NewDB, <1>1 DEF NewDB, memory, history, Named
<1>NewDBCurrent. CASE NewDBCurrent
  BY <1>NewDBCurrent, <1>1 DEF NewDBCurrent, memory, history, Named, BlankOK
<1>OpenExisting. CASE OpenExisting
  BY <1>OpenExisting, <1>1 DEF OpenExisting, disk, memory, history, Named
<1>Recover. CASE Recover
  BY <1>Recover, <1>1 DEF Recover, disk, memory, history, Named
<1>Replay. CASE Replay
  BY <1>Replay, <1>1 DEF Replay, RecoverLogFile, history, Named
<1>NewLog. CASE NewLog
  BY <1>NewLog, <1>1 DEF NewLog, OpenLog, history, Named
<1>OpenManifest. CASE OpenManifest
  <2>1. manifest_number # current
    BY <1>OpenManifest, OpeningNumbers DEF OpenManifest, Opening, Types, NumberType
  <2>2. PICK c : manifest' = Create(manifest, manifest_number, c) /\ current' = current
    BY <1>OpenManifest DEF OpenManifest
  <2>3. current \in DOMAIN manifest' /\ manifest'[current] = manifest[current]
    BY <1>1, <2>1, <2>2 DEF Create
  <2> QED  BY <2>2, <2>3 DEF Named
<1>NewManifestSynced. CASE NewManifestSynced
  <2>1. manifest_number # current
    BY <1>NewManifestSynced, OpeningNumbers DEF NewManifestSynced, OpenSync, Opening, Types, NumberType
  <2>2. manifest' = SyncFile(manifest, manifest_number) /\ current' = current
    BY <1>NewManifestSynced DEF NewManifestSynced, OpenSync
  <2> QED  BY <1>1, <2>1, <2>2 DEF SyncFile, Named
<1>DeleteObsoleteFile. CASE DeleteObsoleteFile
  <2>1. manifest_number = current
    BY <1>DeleteObsoleteFile DEF DeleteObsoleteFile, LiveOK, Live, BlankOK
  <2>2. manifest' = manifest \/ \E n \in DOMAIN manifest : ~(n >= manifest_number) /\ manifest' = Remove(manifest, n)
    BY <1>DeleteObsoleteFile DEF DeleteObsoleteFile, KeepManifest
  <2>3. current' = current /\ current >= current
    BY <1>DeleteObsoleteFile DEF DeleteObsoleteFile, Types, NumberType
  <2>4. CASE manifest' = manifest
    BY <1>1, <2>3, <2>4 DEF Named
  <2>5. ASSUME NEW n \in DOMAIN manifest, ~(n >= manifest_number), manifest' = Remove(manifest, n)
        PROVE  Same
    <3>1. n # current
      BY <2>1, <2>3, <2>5
    <3> QED  BY <1>1, <2>3, <2>5, <3>1, RemovedFile DEF Named
  <2> QED  BY <2>2, <2>4, <2>5
<1>OpenDone. CASE OpenDone
  BY <1>OpenDone, <1>1 DEF OpenDone, disk, memory, Named
<1>AddRecord. ASSUME NEW b \in Batch, NEW sync \in BOOLEAN, AddRecord(b, sync) PROVE Same
  BY <1>AddRecord, <1>1 DEF AddRecord, Unlocked, Running, Named
<1>SyncLog. CASE SyncLog
  BY <1>SyncLog, <1>1 DEF SyncLog, Unlocked, Running, Named
<1>FinishWrite. CASE FinishWrite
  BY <1>FinishWrite, <1>1 DEF FinishWrite, disk, Unlocked, Running, Named
<1>Switch. CASE Switch
  BY <1>Switch, <1>1 DEF Switch, history, Unlocked, Running, Named
<1>FlushStart. CASE FlushStart
  BY <1>FlushStart, <1>1 DEF FlushStart, history, Running, Named
<1>FlushBuilt. CASE FlushBuilt
  BY <1>FlushBuilt, <1>1 DEF FlushBuilt, history, Running, Named
<1>CompactStart. CASE CompactStart
  BY <1>CompactStart, <1>1 DEF CompactStart, disk, history, Running, Named
<1>CompactOutput. CASE CompactOutput
  BY <1>CompactOutput, <1>1 DEF CompactOutput, history, Running, Named
<1>CompactBuilt. CASE CompactBuilt
  BY <1>CompactBuilt, <1>1 DEF CompactBuilt, history, Running, Named
<1>ApplyInstall. CASE ApplyInstall
  BY <1>ApplyInstall, <1>1 DEF ApplyInstall, disk, history, Running, Named
<1>CleanupDone. CASE CleanupDone
  BY <1>CleanupDone, <1>1 DEF CleanupDone, disk, history, Running, Named
<1>Quit. CASE Quit
  BY <1>Quit, <1>1 DEF Quit, Closed, Forget, Named
<1>DropTable. CASE DropTable
  BY <1>DropTable, <1>1 DEF DropTable, Closed, Forget, Named
<1>DropManifest. CASE DropManifest
  <2>1. manifest_number # current
    BY <1>DropManifest, OpeningNumbers DEF DropManifest, Opening, Types, NumberType
  <2>2. manifest' = Remove(manifest, manifest_number) /\ current' = current
    BY <1>DropManifest DEF DropManifest, Closed
  <2> QED  BY <1>1, <2>1, <2>2, RemovedFile DEF Named
<1>Stutter. CASE Idles
  BY <1>Stutter, <1>1 DEF Idles, disk, memory, history, Named
<1> QED
  BY Steps, <1>NewDB, <1>NewDBCurrent, <1>OpenExisting, <1>Recover, <1>Replay, <1>NewLog,
     <1>OpenManifest, <1>NewManifestSynced, <1>DeleteObsoleteFile, <1>OpenDone, <1>AddRecord,
     <1>SyncLog, <1>FinishWrite, <1>Switch, <1>FlushStart, <1>FlushBuilt, <1>CompactStart,
     <1>CompactOutput, <1>CompactBuilt, <1>ApplyInstall, <1>CleanupDone, <1>Quit, <1>DropTable,
     <1>DropManifest, <1>Stutter

\* The tables of an outcome were added by whole records, ...
LEMMA Recorded ==
  ASSUME Types, ManifestOK, current # 0, NEW k \in Outcomes(Named), NEW t \in Tables(Records, k)
  PROVE  \E i \in 1..Whole(Records) :
           i \in DOMAIN Records /\ Records[i] # Torn /\ t \in Records[i].add
<1>1. k \in 1..Whole(Records) /\ Whole(Records) \in 0..Len(Records) /\ Len(Records) \in Nat
      /\ DOMAIN Records = 1..Len(Records)
  BY NamedType
<1>2. PICK i \in 1..k : t \in Records[i].add
  BY <1>1, TablesAdded
<1>3. i \in 1..Whole(Records) /\ i \in DOMAIN Records
  BY <1>1, <1>2
<1> QED  BY <1>2, <1>3, NamedType

\* ... and their numbers are not given out again.
LEMMA FreshFile ==
  ASSUME Types, ManifestOK, OpeningOK, LiveOK, Opening \/ Live, NEW k \in Outcomes(Named)
  PROVE  current # 0 /\ next_file \notin Tables(Records, k)
<1>1. current # 0
  BY DEF OpeningOK, LiveOK
<1>2. SUFFICES ASSUME next_file \in Tables(Records, k) PROVE FALSE
  BY <1>1
<1>3. PICK i \in 1..Whole(Records) :
        i \in DOMAIN Records /\ Records[i] # Torn /\ next_file \in Records[i].add
  BY <1>1, <1>2, Recorded
<1>4. next_file < Records[i].next /\ next_file \in Nat /\ Records[i].next \in Nat
  BY <1>1, <1>3, NamedType DEF ManifestOK, Types, NumberType, Edit
<1>5. CASE Live
  BY <1>3, <1>4, <1>5 DEF LiveOK
<1>6. CASE Opening
  <2> DEFINE w == Whole(Records)
  <2>1. w \in 1..Len(Records) /\ manifest_number < next_file /\ w \in 1..w
        /\ manifest_number = Records[w].next /\ manifest_number \in Nat
    BY <1>1, <1>6, OpeningNumbers, NamedType DEF OpeningOK, Types, NumberType
  <2>2. w \in DOMAIN Records /\ Records[w] # Torn
    BY <1>1, <2>1, NamedType
  <2>3. Records[i].next <= Records[w].next
    BY <1>1, <1>3, <2>2 DEF ManifestOK
  <2> HIDE DEF w
  <2> QED  BY <1>4, <2>1, <2>3
<1> QED  BY <1>5, <1>6

\* The tables of the version, of every outcome of the manifest, and of an edit
\* that is ready.
Used ==
  version \cup (IF Opening \/ Edited THEN edit.add ELSE {})
    \cup UNION {Tables(Records, k) : k \in IF current = 0 THEN {} ELSE Outcomes(Named)}

\* All tables in use are on the disk, ...
LEMMA UsedOnDisk ==
  ASSUME Types, BlankOK, ManifestOK, OpeningOK, LiveOK, BackgroundOK
  PROVE  OnDisk(Used)
<1>1. \A k \in Outcomes(Named) : current # 0 => OnDisk(Tables(Records, k))
  BY DEF ManifestOK
<1>2. OnDisk(version)
  <2>1. CASE Live
    BY <2>1 DEF LiveOK
  <2>2. CASE Opening
    BY <1>1, <2>2, OpeningNumbers DEF OpeningOK
  <2>3. CASE phase \in {"down", "newdb", "recover", "corrupt"}
    BY <2>3 DEF BlankOK, OnDisk
  <2> QED  BY <2>1, <2>2, <2>3 DEF Live, Opening, Types, ControlType, Phase
<1>3. Opening \/ Edited => OnDisk(edit.add)
  BY DEF OpeningOK, BackgroundOK, BlankOK, Live, Edited
<1> QED  BY <1>1, <1>2, <1>3 DEF Used, OnDisk

\* ... and the number the next table gets is not in use.
LEMMA FreshTable ==
  ASSUME Types, BlankOK, ManifestOK, OpeningOK, LiveOK, BackgroundOK, Opening \/ (Live /\ ~Edited)
  PROVE  next_file \notin Used
<1>1. current # 0 /\ \A k \in Outcomes(Named) : next_file \notin Tables(Records, k)
  BY FreshFile DEF OpeningOK, LiveOK
<1>2. next_file \in Nat /\ ~(next_file < next_file)
  BY DEF Types, NumberType
<1>3. CASE Live /\ ~Edited
  <2>1. ~Opening
    BY <1>3 DEF Live, Opening
  <2> QED  BY <1>1, <1>2, <1>3, <2>1 DEF Used, LiveOK
<1>4. CASE Opening
  BY <1>1, <1>2, <1>4, OpeningNumbers DEF Used, OpeningOK
<1> QED  BY <1>3, <1>4

\* The tables the background thread is writing are not in use.
LEMMA UnusedTable ==
  ASSUME Types, ManifestOK, BackgroundOK, LiveOK, Live, ~Edited, edit.del = {}
  PROVE  \A t \in Used : t \notin pending
<1>1. \A x \in pending : Unused(x)
  BY DEF BackgroundOK
<1>2. current # 0 /\ ~Opening
  BY DEF LiveOK, Live, Opening
<1>3. \A k \in Outcomes(Named) : \A t \in Tables(Records, k) : t \notin pending
  BY <1>1, <1>2, Recorded DEF Unused
<1> QED  BY <1>1, <1>2, <1>3 DEF Used, Unused

\* Unless there was an error the manifest has one outcome, the version.
LEMMA OnlyVersion ==
  ASSUME Types, ManifestOK, LiveOK, SyncedOK, Live, ~bg_error, ~Applying
  PROVE  /\ current # 0 /\ Whole(Records) = Len(Records) /\ Len(Records) \in Nat \ {0}
         /\ Named.durable = Len(Records)
         /\ Outcomes(Named) = {Len(Records)}
         /\ \A k \in Outcomes(Named) : Tables(Records, k) = version /\ Records[k].log = log_number
<1>1. current # 0 /\ Named.durable > 0 /\ Whole(Records) = Len(Records) /\ Named.durable = Len(Records)
      /\ Tables(Records, Len(Records)) = version /\ Records[Len(Records)].log = log_number
  BY DEF LiveOK, SyncedOK
<1>2. Len(Records) \in Nat
  BY <1>1, NamedType
<1>3. Outcomes(Named) = {Len(Records)}
  BY <1>1, <1>2 DEF Outcomes, Records
<1> QED  BY <1>1, <1>2, <1>3

\* No step changes a table that is in use.
LEMMA TablesKept ==
  ASSUME Types, BlankOK, ManifestOK, OpeningOK, LiveOK, BackgroundOK, SyncedOK, [Next]_vars
  PROVE  \A t \in Used : t \in DOMAIN table /\ t \in DOMAIN table' /\ table'[t] = table[t]
<1> DEFINE Kept == \A t \in Used : t \in DOMAIN table /\ t \in DOMAIN table' /\ table'[t] = table[t]
<1>1. \A t \in Used : t \in DOMAIN table
  BY UsedOnDisk DEF OnDisk
<1>2. CASE table' = table
  BY <1>1, <1>2
<1>Replay. CASE Replay
  <2>1. next_file \notin Used
    BY <1>Replay, FreshTable DEF Replay, RecoverLogFile, Opening
  <2>2. table' = table \/ \E c : table' = Create(table, next_file, c)
    BY <1>Replay DEF Replay, RecoverLogFile
  <2> QED  BY <1>1, <2>1, <2>2 DEF Create
<1>DeleteObsoleteFile. CASE DeleteObsoleteFile
  <2>1. /\ Live /\ ~Opening /\ ~Edited /\ ~Applying /\ ~bg_error
    BY <1>DeleteObsoleteFile DEF DeleteObsoleteFile, BlankOK, Live, Opening, Edited, Applying, LiveOK, BackgroundOK
  <2>2. Used \subseteq version
    BY <2>1, OnlyVersion DEF Used
  <2>3. table' = table \/ \E n \in DOMAIN table : n \notin version /\ table' = Remove(table, n)
    BY <1>DeleteObsoleteFile DEF DeleteObsoleteFile, KeepTable
  <2> QED  BY <1>1, <2>2, <2>3 DEF Remove
<1>FlushStart. CASE FlushStart
  <2>1. next_file \notin Used
    BY <1>FlushStart, FreshTable DEF FlushStart, Running, Live, Edited
  <2>2. table' = Create(table, next_file, Garbage)
    BY <1>FlushStart DEF FlushStart
  <2> QED  BY <1>1, <2>1, <2>2 DEF Create
<1>FlushBuilt. CASE FlushBuilt
  <2>1. Live /\ ~Edited /\ edit.add \subseteq pending /\ edit.del = {}
    BY <1>FlushBuilt DEF FlushBuilt, Running, Live, Edited, BackgroundOK
  <2>2. \A t \in Used : t \notin edit.add
    BY <2>1, UnusedTable
  <2>3. \/ table' = [t \in DOMAIN table |-> IF t \in edit.add THEN imm ELSE table[t]]
        \/ table' = [t \in DOMAIN table \ edit.add |-> table[t]]
    BY <1>FlushBuilt DEF FlushBuilt
  <2> QED  BY <1>1, <2>2, <2>3
<1>CompactOutput. CASE CompactOutput
  <2>1. next_file \notin Used
    BY <1>CompactOutput, FreshTable DEF CompactOutput, Running, Live, Edited
  <2>2. table' = Create(table, next_file, Garbage)
    BY <1>CompactOutput DEF CompactOutput
  <2> QED  BY <1>1, <2>1, <2>2 DEF Create
<1>CompactBuilt. CASE CompactBuilt
  <2>1. Live /\ ~Edited /\ edit.del = {}
    BY <1>CompactBuilt DEF CompactBuilt, Running, Live, Edited, BackgroundOK, NoEdit
  <2>2. \A t \in Used : t \notin pending
    BY <2>1, UnusedTable
  <2>3. \/ table' = [t \in DOMAIN table |-> IF t \in pending THEN TableEntries(inputs) ELSE table[t]]
        \/ table' = table
    BY <1>CompactBuilt DEF CompactBuilt
  <2> QED  BY <1>1, <2>2, <2>3
<1>DropTable. CASE DropTable
  <2>1. next_file \notin Used
    BY <1>DropTable, FreshTable DEF DropTable, Opening
  <2>2. table' = Remove(table, next_file)
    BY <1>DropTable DEF DropTable
  <2> QED  BY <1>1, <2>1, <2>2 DEF Remove
<1> QED
  BY Steps, FileChanges, <1>2, <1>Replay, <1>DeleteObsoleteFile, <1>FlushStart, <1>FlushBuilt, <1>CompactOutput, <1>CompactBuilt, <1>DropTable

\* What a crash may leave of a manifest, after a record was appended, ...
LEMMA OutcomesAppend ==
  ASSUME NEW f \in File(Edit), NEW g \in File(Edit), NEW r \in Edit \cup {Torn},
         g.recs = Append(f.recs, r), g.durable = f.durable
  PROVE  /\ \A k \in Outcomes(f) : Tables(g.recs, k) = Tables(f.recs, k) /\ g.recs[k] = f.recs[k]
         /\ \A k \in Outcomes(g) :
              \/ k \in Outcomes(f)
              \/ /\ r # Torn /\ Whole(f.recs) = Len(f.recs) /\ k = Len(f.recs) + 1 /\ g.recs[k] = r
                 /\ Tables(g.recs, k) = (Tables(f.recs, Len(f.recs)) \ r.del) \cup r.add
         /\ Whole(f.recs) <= Whole(g.recs)
         /\ r = Torn => Whole(g.recs) = Whole(f.recs)
<1> DEFINE R == Edit \cup {Torn}
           recs == f.recs
           n == Len(recs)
           w == Whole(recs)
<1>1. recs \in Seq(R) /\ f.durable \in Nat /\ r \in R
  BY DEF File
<1>2. n \in Nat /\ w \in 0..n
  BY <1>1, LenProperties, WholeDef
<1>3. \A i \in 1..n : g.recs[i] = recs[i]
  BY <1>1, AppendProperties
<1>4. g.recs[n + 1] = r
  BY <1>1, AppendProperties
<1>5. Whole(g.recs) = IF w = n /\ r # Torn THEN n + 1 ELSE w
  BY <1>1, WholeAppend
<1>6. Tables(g.recs, n + 1) = (Tables(recs, n) \ r.del) \cup r.add
  BY <1>1, TablesAppend
<1>7. \A k \in 1..n : Tables(g.recs, k) = Tables(recs, k)
  <2> TAKE k \in 1..n
  <2>1. k \in Nat /\ \A i \in 1..k : i \in 1..n
    BY <1>2
  <2>2. \A i \in 1..k : g.recs[i] = recs[i]
    BY <1>3, <2>1
  <2> HIDE DEF recs
  <2> QED  BY <2>1, <2>2, TablesPrefix
<1>8. \A k \in Outcomes(f) : k \in 1..n /\ k \in 1..w /\ (f.durable <= k \/ k = w)
  BY <1>2 DEF Outcomes
<1>9. \A k \in 1..w : (f.durable <= k \/ k = w) => k \in Outcomes(f)
  BY DEF Outcomes
<1>10. ASSUME NEW k \in Outcomes(g)
       PROVE  \/ k \in Outcomes(f)
              \/ r # Torn /\ w = n /\ k = n + 1
  <2>1. k \in 1..Whole(g.recs) /\ (f.durable <= k \/ k = Whole(g.recs))
    BY <1>10 DEF Outcomes
  <2>2. f.durable <= n
    BY DEF File
  <2> HIDE DEF n, w, recs
  <2> QED  BY <1>1, <1>2, <1>5, <1>9, <2>1, <2>2
<1>11. w <= Whole(g.recs) /\ (r = Torn => Whole(g.recs) = w)
  <2> HIDE DEF n, w, recs
  <2> QED  BY <1>2, <1>5
<1>12. ASSUME NEW k \in Outcomes(f) PROVE Tables(g.recs, k) = Tables(f.recs, k) /\ g.recs[k] = f.recs[k]
  BY <1>3, <1>7, <1>8, <1>12
<1> QED  BY <1>4, <1>6, <1>10, <1>11, <1>12

\* ... after it was synced, ...
LEMMA OutcomesSync ==
  ASSUME NEW f \in File(Edit), NEW g, g.recs = f.recs, g.durable = Len(f.recs)
  PROVE  Outcomes(g) \subseteq Outcomes(f)
<1>1. f.recs \in Seq(Edit \cup {Torn})
  BY DEF File
<1>2. Len(f.recs) \in Nat /\ Whole(f.recs) \in 0..Len(f.recs)
  BY <1>1, LenProperties, WholeDef
<1> QED  BY <1>2 DEF Outcomes

\* ... and after a power failure.
LEMMA OutcomesCut ==
  ASSUME NEW f \in File(Edit), NEW g \in File(Edit), g.durable \in f.durable..Len(f.recs),
         g.recs = SubSeq(f.recs, 1, g.durable)
  PROVE  /\ Outcomes(g) \subseteq Outcomes(f)
         /\ \A k \in Outcomes(g) : /\ Tables(g.recs, k) = Tables(f.recs, k) /\ g.recs[k] = f.recs[k]
                                   /\ k = Whole(g.recs)
         /\ Whole(g.recs) = IF g.durable <= Whole(f.recs) THEN g.durable ELSE Whole(f.recs)
<1> DEFINE recs == f.recs
           n == Len(recs)
           w == Whole(recs)
           d == g.durable
<1>1. recs \in Seq(Edit \cup {Torn}) /\ f.durable \in Nat
  BY DEF File
<1>2. n \in Nat /\ w \in 0..n /\ d \in 0..n /\ f.durable <= d
  BY <1>1, LenProperties, WholeDef
<1>3. Whole(g.recs) = IF d <= w THEN d ELSE w
  <2> HIDE DEF recs, d
  <2> QED  BY <1>1, <1>2, WholePrefix DEF recs, d
<1>4. \A i \in 1..d : g.recs[i] = recs[i]
  <2> HIDE DEF recs, d
  <2>1. g.recs = SubSeq(recs, 1, d)
    BY DEF recs, d
  <2> QED  BY <1>1, <1>2, <2>1, SubSeqProperties
<1>5. ASSUME NEW k \in Outcomes(g) PROVE k \in Outcomes(f) /\ k \in 1..d /\ k = Whole(g.recs)
  <2>1. k \in 1..Whole(g.recs) /\ (d <= k \/ k = Whole(g.recs))
    BY <1>5 DEF Outcomes
  <2>2. k = Whole(g.recs) /\ k \in 1..w /\ k \in 1..d /\ (f.durable <= k \/ k = w)
    <3> HIDE DEF recs, d, n, w
    <3> QED  BY <1>1, <1>2, <1>3, <2>1
  <2> QED  BY <2>2 DEF Outcomes
<1>6. ASSUME NEW k \in 1..d PROVE Tables(g.recs, k) = Tables(recs, k) /\ g.recs[k] = recs[k]
  <2>1. k \in Nat /\ \A i \in 1..k : i \in 1..d
    BY <1>2
  <2>2. \A i \in 1..k : g.recs[i] = recs[i]
    BY <1>4, <2>1
  <2> HIDE DEF recs
  <2> QED  BY <1>4, <2>1, <2>2, TablesPrefix
<1> QED  BY <1>3, <1>5, <1>6

\* A manifest with one record has one outcome.
LEMMA OneRecord ==
  ASSUME NEW r \in Edit, NEW f, f.recs = <<r>>
  PROVE  /\ Whole(f.recs) = 1 /\ Len(f.recs) = 1 /\ DOMAIN f.recs = {1} /\ f.recs[1] = r
         /\ Outcomes(f) = {1} /\ Tables(f.recs, 1) = r.add
<1>1. f.recs \in Seq(Edit) /\ Len(f.recs) = 1 /\ f.recs[1] = r /\ r # Torn /\ DOMAIN f.recs = 1..1
  BY ConstantsAssumption
<1>2. Whole(f.recs) = 1
  <2>1. \A j \in 1..1 : f.recs[j] # Torn
    BY <1>1
  <2>2. 1 \in 0..Len(f.recs) /\ ~(1 < Len(f.recs))
    BY <1>1
  <2> QED  BY <1>1, <2>1, <2>2, WholeIs
<1> QED  BY <1>1, <1>2, TablesOfOne DEF Outcomes

\* The steps that change the manifest that CURRENT names.
LEMMA NamedAppended ==
  ASSUME Types, ManifestOK, LiveOK, ApplyAdd
  PROVE  /\ Live /\ Edited /\ ~Applying /\ current # 0 /\ current' = current /\ current \in DOMAIN manifest'
         /\ \/ Named' = Named /\ ApplyFailed
            \/ \E r \in {edit, Torn} :
                 /\ r \in Edit \cup {Torn} /\ Named' \in File(Edit)
                 /\ Records' = Append(Records, r) /\ (Named.durable)' = Named.durable
                 /\ ApplyFailed \/ (r = edit /\ bgpc' = "sync" /\ UNCHANGED <<bg_error, edit, inputs, pending>>)
<1>1. Live /\ Edited /\ ~Applying /\ current # 0 /\ current' = current /\ manifest_number = current
  BY DEF ApplyAdd, Running, Live, Edited, Applying, LiveOK
<1>2. current \in DOMAIN manifest /\ manifest[current] \in File(Edit) /\ edit \in Edit
  BY <1>1, NamedType DEF Named, Types, ControlType
<1>3. ASSUME NEW r \in {edit, Torn}, manifest' = AppendTo(manifest, current, r)
      PROVE  /\ r \in Edit \cup {Torn} /\ Named' \in File(Edit) /\ current \in DOMAIN manifest'
             /\ Records' = Append(Records, r) /\ (Named.durable)' = Named.durable
  <2>1. r \in Edit \cup {Torn}
    BY <1>2
  <2> QED  BY <1>1, <1>2, <1>3, <2>1, AppendedFile DEF Named, Records
<1>4. CASE ApplyFailed
  <2>1. manifest' = manifest \/ \E r \in {edit, Torn} : manifest' = AppendTo(manifest, current, r)
    BY <1>1, <1>4 DEF ApplyAdd, FailedAppend, ApplyFailed, Resume
  <2> QED  BY <1>1, <1>2, <1>3, <1>4, <2>1 DEF Named
<1>5. CASE ~ApplyFailed
  <2>1. manifest' = AppendTo(manifest, current, edit) /\ bgpc' = "sync" /\ UNCHANGED <<bg_error, edit, inputs, pending>>
    BY <1>1, <1>5 DEF ApplyAdd
  <2> QED  BY <1>1, <1>3, <2>1
<1> QED  BY <1>4, <1>5

\* What ApplySync does to the manifest that CURRENT names, ...
LEMMA NamedSynced ==
  ASSUME Types, ManifestOK, LiveOK, ApplySync
  PROVE  /\ Live /\ Edited /\ Applying /\ current # 0 /\ current' = current /\ current \in DOMAIN manifest'
         /\ \/ Named' = Named /\ ApplyFailed
            \/ /\ Named' \in File(Edit) /\ Records' = Records /\ (Named.durable)' = Len(Records)
               /\ bgpc' = "install" /\ UNCHANGED <<bg_error, edit, inputs, pending>>
<1>1. Live /\ Edited /\ Applying /\ current # 0 /\ current' = current /\ manifest_number = current
  BY DEF ApplySync, Running, Live, Edited, Applying, LiveOK
<1>2. current \in DOMAIN manifest /\ manifest[current] \in File(Edit)
  BY <1>1, NamedType DEF Named
<1>3. CASE manifest' = SyncFile(manifest, current) /\ bgpc' = "install" /\ UNCHANGED <<bg_error, edit, inputs, pending>>
  <2> DEFINE g == SyncFile(manifest, current)
  <2>1. /\ current \in DOMAIN g /\ g[current] \in File(Edit) /\ g[current].recs = manifest[current].recs
        /\ g[current].durable = Len(manifest[current].recs)
    BY <1>2, SyncedFile
  <2>2. manifest' = g
    BY <1>3
  <2> HIDE DEF g
  <2> QED  BY <1>1, <1>3, <2>1, <2>2 DEF Named, Records
<1>4. CASE manifest' = manifest /\ ApplyFailed
  BY <1>1, <1>2, <1>4 DEF Named
<1> QED  BY <1>1, <1>3, <1>4 DEF ApplySync

\* ... what PowerLoss does, ...
LEMMA NamedCut ==
  ASSUME Types, ManifestOK, PowerLoss, current # 0
  PROVE  /\ current' = current /\ current \in DOMAIN manifest'
         /\ Named' \in File(Edit) /\ (Named.durable)' \in Named.durable..Len(Records)
         /\ Records' = SubSeq(Records, 1, (Named.durable)')
<1>1. manifest' \in AfterPowerLoss(manifest) /\ current' = current
  BY DEF PowerLoss
<1>2. current \in DOMAIN manifest /\ \A n \in DOMAIN manifest : manifest[n] \in File(Edit)
  BY NamedType DEF Types, ManifestType, Typed
<1> QED  BY <1>1, <1>2, CutFile DEF Named, Records

\* ... and what SetCurrentFile makes of it.
LEMMA NamedNew ==
  ASSUME Types, ManifestOK, OpeningOK, NewCurrent
  PROVE  /\ current' = manifest_number /\ current' # 0 /\ current' \in DOMAIN manifest'
         /\ UNCHANGED <<log, table, next_file, last_sequence, logfile_number, manifest_number>>
         /\ version' = version \cup edit.add /\ log_number' = edit.log
         /\ Named' = [recs |-> <<[log |-> edit.log, next |-> next_file, last |-> last_sequence,
                                  add |-> edit.add \cup version, del |-> {}]>>, durable |-> 1]
         /\ [log |-> edit.log, next |-> next_file, last |-> last_sequence,
             add |-> edit.add \cup version, del |-> {}] \in Edit
<1>1. Opening /\ phase = "current"
  BY DEF NewCurrent, OpenCurrent, Opening
<1>2. /\ current' = manifest_number /\ manifest' = manifest
      /\ UNCHANGED <<log, table, next_file, last_sequence, logfile_number, manifest_number>>
      /\ version' = version \cup edit.add /\ log_number' = edit.log
  BY DEF NewCurrent, OpenCurrent
<1>3. manifest_number \in DOMAIN manifest
      /\ manifest[manifest_number] = [recs |-> <<[log |-> edit.log, next |-> next_file, last |-> last_sequence,
                           add |-> edit.add \cup version, del |-> {}]>>, durable |-> 1]
  BY <1>1 DEF OpeningOK
<1>4. manifest_number # 0
  BY <1>1, OpeningNumbers DEF Types, NumberType
<1>5. edit.log \in Nat /\ next_file \in Nat /\ last_sequence \in Nat /\ edit.add \subseteq Nat /\ version \subseteq Nat
  BY DEF Types, NumberType, ControlType, Edit
<1> QED  BY <1>2, <1>3, <1>4, <1>5 DEF Named, Edit

\* Every outcome of the manifest keeps its tables.
LEMMA ManifestStep ==
  ASSUME Types, Types', BlankOK, ManifestOK, OpeningOK, LiveOK, BackgroundOK, SyncedOK, [Next]_vars
  PROVE  ManifestOK'
<1>1. \A t \in Used : t \in DOMAIN table /\ table[t] # Garbage /\ t \in DOMAIN table' /\ table'[t] = table[t]
  BY UsedOnDisk, TablesKept DEF OnDisk
<1> DEFINE Stays(ts) == \A t \in ts : t \in DOMAIN table' /\ table'[t] # Garbage
<1>2. \A ts : ts \subseteq Used => Stays(ts)
  BY <1>1
<1>0. (\A k \in Outcomes(Named') : Stays(Tables(Records', k)))
        => (\A k \in Outcomes(Named) : OnDisk(Tables(Records, k)))'
  BY DEF OnDisk
<1> HIDE DEF Stays
<1>3. ASSUME current # 0, NEW k \in Outcomes(Named) PROVE Tables(Records, k) \subseteq Used
  BY <1>3 DEF Used
<1>4. ASSUME current # 0, Named.durable = 0, \A n \in DOMAIN log : log[n].recs = <<>>
      PROVE  /\ acked' = {} /\ safe' = {} /\ ~created'
             /\ \A n \in DOMAIN log' : log'[n].recs = <<>>
  <2>1. ~Live /\ acked = {} /\ safe = {} /\ ~created
    BY <1>4 DEF LiveOK, ManifestOK
  <2>2. acked' = {} /\ safe' = {} /\ ~created'
    <3>1. ~FinishWrite /\ ~OpenDone
      BY <2>1 DEF FinishWrite, Unlocked, Running, Live, OpenDone
    <3>2. PowerLoss => UNCHANGED <<safe, created>> /\ acked' = safe
      BY DEF PowerLoss
    <3> QED  BY <2>1, <3>1, <3>2, Changes
  <2>3. CASE log' = log
    BY <1>4, <2>2, <2>3
  <2>4. CASE NewLog
    <3>1. log' = Create(log, next_file, EmptyFile)
      BY <2>4 DEF NewLog, OpenLog
    <3> QED  BY <1>4, <2>2, <3>1 DEF Create, EmptyFile
  <2>5. CASE PowerLoss
    <3>1. DOMAIN log' = DOMAIN log /\ \A n \in DOMAIN log : log'[n].recs = SubSeq(log[n].recs, 1, log'[n].durable)
      BY <2>5, CutFile DEF PowerLoss, Types, LogType, Typed
    <3>2. \A n \in DOMAIN log : log'[n].durable \in log[n].durable..Len(log[n].recs) /\ log[n] \in File(Entry)
      BY <2>5, CutFile DEF PowerLoss, Types, LogType, Typed
    <3>3. \A n \in DOMAIN log : log'[n].durable = 0
      BY <1>4, <3>2 DEF File
    <3> QED  BY <1>4, <2>2, <3>1, <3>3
  <2>6. ~DeleteObsoleteFile /\ (\A b \in Batch, sync \in BOOLEAN : ~AddRecord(b, sync)) /\ ~SyncLog /\ ~Switch
    BY <2>1, <1>4 DEF DeleteObsoleteFile, AddRecord, SyncLog, Switch, Unlocked, Running, Live, BlankOK
  <2> QED  BY <2>2, <2>3, <2>4, <2>5, <2>6, FileChanges
<1>same. CASE current # 0 /\ current' = current /\ current \in DOMAIN manifest' /\ Named' = Named
  <2>1. Records' = Records /\ Outcomes(Named)' = Outcomes(Named)
    BY <1>same DEF Records, Outcomes
  <2>2. (\A k \in Outcomes(Named) : OnDisk(Tables(Records, k)))'
    BY <1>same, <1>2, <1>3, <2>1, <1>0
  <2>3. (Named.durable)' = 0 => /\ acked' = {} /\ safe' = {} /\ ~created'
                               /\ \A n \in DOMAIN log' : log'[n].recs = <<>>
    BY <1>same, <1>4 DEF ManifestOK
  <2> QED  BY <1>same, <2>1, <2>2, <2>3 DEF ManifestOK
<1>none. CASE current = 0 /\ current' = 0
  BY <1>none DEF ManifestOK
<1>NewDBCurrent. CASE NewDBCurrent /\ current' # 0
  <2> DEFINE r == [NoEdit EXCEPT !.next = 2]
  <2>1. current' = 1 /\ 1 \in DOMAIN manifest' /\ Named' = [recs |-> <<r>>, durable |-> 0]
        /\ UNCHANGED <<log, acked, safe, created>>
        /\ acked = {} /\ safe = {} /\ ~created /\ DOMAIN log = {}
    BY <1>NewDBCurrent DEF NewDBCurrent, BlankOK, Named, history
  <2>2. r \in Edit /\ r # Torn /\ r.log = 0 /\ r.next = 2 /\ r.add = {}
    BY ConstantsAssumption DEF NoEdit, Edit
  <2> HIDE DEF r
  <2>3. Records' = <<r>>
    BY <2>1 DEF Records
  <2>4. Whole(Records)' = 1 /\ Outcomes(Named)' = {1} /\ Tables(Records, 1)' = {} /\ (DOMAIN Records)' = {1}
        /\ Records'[1] = r
    BY <2>1, <2>2, <2>3, OneRecord
  <2>5. (\A k \in Outcomes(Named) : OnDisk(Tables(Records, k)))'
    BY <2>4 DEF OnDisk
  <2> QED  BY <2>1, <2>2, <2>4, <2>5 DEF ManifestOK
<1>NewCurrent. CASE NewCurrent
  <2> DEFINE r == [log |-> edit.log, next |-> next_file, last |-> last_sequence,
                   add |-> edit.add \cup version, del |-> {}]
  <2>1. /\ current' = manifest_number /\ current' # 0 /\ current' \in DOMAIN manifest'
        /\ Named' = [recs |-> <<r>>, durable |-> 1] /\ r \in Edit
    BY <1>NewCurrent, NamedNew
  <2>2. r # Torn /\ r.log = edit.log /\ r.next = next_file /\ r.add = edit.add \cup version
    BY <2>1, ConstantsAssumption
  <2> HIDE DEF r
  <2>3. Records' = <<r>> /\ (Named.durable)' = 1
    BY <2>1 DEF Records
  <2>4. Whole(Records)' = 1 /\ Outcomes(Named)' = {1} /\ Tables(Records, 1)' = r.add /\ (DOMAIN Records)' = {1}
        /\ Records'[1] = r
    BY <2>1, <2>3, OneRecord
  <2>5. Opening /\ phase = "current"
    BY <1>NewCurrent DEF NewCurrent, OpenCurrent, Opening
  <2>6. manifest_number < next_file /\ edit.log < next_file /\ next_file \in Nat
    BY <2>5 DEF OpeningOK, Types, NumberType
  <2>7. \A t \in version : t < next_file
    <3> DEFINE w == Whole(Records)
    <3>1. w \in Outcomes(Named) /\ version = Tables(Records, w) /\ manifest_number = Records[w].next /\ current # 0
          /\ w \in 1..Len(Records)
      BY <2>5, OpeningNumbers DEF OpeningOK
    <3>2. w \in DOMAIN Records /\ Records[w] # Torn /\ w \in 1..w
      BY <3>1, NamedType
    <3> HIDE DEF w
    <3>3. ASSUME NEW t \in version PROVE t < manifest_number
      <4>1. PICK i \in 1..w : i \in DOMAIN Records /\ Records[i] # Torn /\ t \in Records[i].add
        BY <3>1, <3>3, Recorded DEF w
      <4>2. t < Records[i].next /\ Records[i].next <= Records[w].next
        BY <3>1, <3>2, <4>1 DEF ManifestOK
      <4>3. t \in Nat /\ manifest_number \in Nat /\ Records[i].next \in Nat /\ Records[w].next \in Nat
        BY <3>1, <3>2, <3>3, <4>1, NamedType DEF Types, NumberType, Edit, w
      <4>4. manifest_number = Records[w].next
        BY <3>1
      <4> QED  BY <4>2, <4>3, <4>4
    <3>4. manifest_number \in Nat /\ version \subseteq Nat
      BY DEF Types, NumberType
    <3> QED  BY <2>6, <3>3, <3>4
  <2>8. \A t \in edit.add : t < next_file
    BY <2>5 DEF OpeningOK
  <2>9. (\A k \in Outcomes(Named) : OnDisk(Tables(Records, k)))'
    <3>1. r.add \subseteq Used
      BY <2>2, <2>5 DEF Used
    <3> QED  BY <1>0, <1>2, <2>4, <3>1
  <2>10. r.next <= r.next
    BY <2>2, <2>6
  <2> QED  BY <2>1, <2>2, <2>3, <2>4, <2>6, <2>7, <2>8, <2>9, <2>10 DEF ManifestOK
<1>add. CASE ApplyAdd /\ Named' # Named
  <2>1. PICK r \in {edit, Torn} :
           /\ r \in Edit \cup {Torn} /\ Named' \in File(Edit)
           /\ Records' = Append(Records, r) /\ (Named.durable)' = Named.durable
    BY <1>add, NamedAppended
  <2>2. Live /\ Edited /\ current # 0 /\ current' = current /\ current \in DOMAIN manifest'
    BY <1>add, NamedAppended
  <2> DEFINE n == Len(Records)
  <2>3. n \in Nat /\ DOMAIN Records = 1..n /\ Records \in Seq(Edit \cup {Torn}) /\ Named \in File(Edit)
        /\ Whole(Records) \in 0..n /\ Named.durable \in 0..n
    BY <2>2, NamedType
  <2>4. (DOMAIN Records)' = 1..(n + 1) /\ Records'[n + 1] = r /\ \A i \in 1..n : Records'[i] = Records[i]
    BY <2>1, <2>3, AppendProperties
  <2>5. Named.durable > 0 /\ Whole(Records) > 0
    BY <2>2 DEF LiveOK, ManifestOK
  <2> DEFINE f == Named
             g == Named'
  <2>6a. /\ f \in File(Edit) /\ g \in File(Edit) /\ r \in Edit \cup {Torn}
         /\ g.recs = Append(f.recs, r) /\ g.durable = f.durable
         /\ Records = f.recs /\ Records' = g.recs
    BY <2>1, <2>3 DEF Records
  <2>6. /\ \A k \in Outcomes(Named) : Tables(Records', k) = Tables(Records, k)
        /\ \A k \in Outcomes(Named') :
              \/ k \in Outcomes(Named)
              \/ /\ r # Torn /\ Whole(Records) = n /\ k = n + 1
                 /\ Tables(Records', k) = (Tables(Records, n) \ r.del) \cup r.add
        /\ Whole(Records) <= Whole(Records')
    <3> HIDE DEF f, g
    <3>1. /\ \A k \in Outcomes(f) : Tables(g.recs, k) = Tables(f.recs, k) /\ g.recs[k] = f.recs[k]
          /\ \A k \in Outcomes(g) :
              \/ k \in Outcomes(f)
              \/ /\ r # Torn /\ Whole(f.recs) = Len(f.recs) /\ k = Len(f.recs) + 1 /\ g.recs[k] = r
                 /\ Tables(g.recs, k) = (Tables(f.recs, Len(f.recs)) \ r.del) \cup r.add
          /\ Whole(f.recs) <= Whole(g.recs)
          /\ r = Torn => Whole(g.recs) = Whole(f.recs)
      BY <2>6a, OutcomesAppend
    <3> QED  BY <2>6a, <3>1 DEF f, g
  <2>7. ASSUME NEW k \in Outcomes(Named') PROVE Stays(Tables(Records', k))
    <3>1. CASE k \in Outcomes(Named)
      BY <1>2, <1>3, <2>2, <2>6, <3>1
    <3>2. CASE r # Torn /\ Whole(Records) = n /\ Tables(Records', k) = (Tables(Records, n) \ r.del) \cup r.add
      <4>1. n \in Outcomes(Named)
        BY <2>3, <2>5, <3>2 DEF Outcomes, Records
      <4>2. r.add \subseteq Used
        BY <2>1, <2>2, <3>2 DEF Used
      <4>3. Tables(Records', k) \subseteq Used
        BY <1>3, <2>2, <3>2, <4>1, <4>2
      <4> QED  BY <1>2, <4>3
    <3> QED  BY <2>6, <2>7, <3>1, <3>2
  <2>8. ASSUME NEW i \in 1..(n + 1), Records'[i] # Torn
        PROVE  /\ current < Records'[i].next /\ Records'[i].log < Records'[i].next
               /\ \A t \in Records'[i].add : t < Records'[i].next
               /\ \A j \in 1..i : Records'[j] # Torn => Records'[j].next <= Records'[i].next
    <3>1. CASE i \in 1..n
      <4>1. Records[i] # Torn /\ i \in DOMAIN Records /\ \A j \in 1..i : j \in 1..n
        BY <2>3, <2>4, <2>8, <3>1
      <4> QED  BY <2>2, <2>4, <3>1, <4>1 DEF ManifestOK
    <3>2. CASE i = n + 1
      <4>1. r = edit /\ Records'[i] = edit
        BY <2>4, <2>8, <3>2
      <4>2. /\ current < edit.next /\ edit.log < edit.next /\ \A t \in edit.add : t < edit.next
            /\ \A j \in 1..n : Records[j] # Torn => Records[j].next <= edit.next
        BY <2>2, <2>3 DEF BackgroundOK
      <4>3. edit.next <= edit.next
        BY DEF Types, ControlType, Edit
      <4>4. \A j \in 1..i : j \in 1..n \/ j = i
        BY <2>3, <3>2
      <4> QED  BY <2>4, <4>1, <4>2, <4>3, <4>4
    <3> QED  BY <2>3, <3>1, <3>2
  <2>9. Whole(Records)' > 0 /\ (Named.durable)' # 0
    <3>1. Records' \in Seq(Edit \cup {Torn}) /\ Len(Records') \in Nat
      BY <2>6a, LenProperties DEF File
    <3>2. Whole(Records') \in Nat
      BY <3>1, WholeDef
    <3> QED  BY <2>1, <2>3, <2>5, <2>6, <3>2
  <2>10. (\A k \in Outcomes(Named) : OnDisk(Tables(Records, k)))'
    BY <1>0, <2>7
  <2> QED  BY <2>2, <2>4, <2>8, <2>9, <2>10 DEF ManifestOK
<1>sync. CASE ApplySync /\ Named' # Named
  <2>1. /\ Live /\ current # 0 /\ current' = current /\ current \in DOMAIN manifest'
        /\ Records' = Records /\ (Named.durable)' = Len(Records)
    BY <1>sync, NamedSynced
  <2>2. Outcomes(Named') \subseteq Outcomes(Named)
    BY <2>1, NamedType, OutcomesSync DEF Records
  <2>3. (\A k \in Outcomes(Named) : OnDisk(Tables(Records, k)))'
    BY <1>0, <1>2, <1>3, <2>1, <2>2
  <2>4. Whole(Records) > 0 /\ Len(Records) # 0
    BY <2>1, NamedType DEF LiveOK, ManifestOK
  <2> QED  BY <2>1, <2>3, <2>4 DEF ManifestOK
<1>cut. CASE PowerLoss /\ current # 0
  <2> DEFINE d == (Named.durable)'
  <2>1. /\ current' = current /\ current \in DOMAIN manifest' /\ Named \in File(Edit)
        /\ Named' \in File(Edit) /\ d \in Named.durable..Len(Records)
        /\ Records' = SubSeq(Records, 1, d)
    BY <1>cut, NamedCut, NamedType
  <2>2. /\ Outcomes(Named') \subseteq Outcomes(Named)
        /\ \A k \in Outcomes(Named') : Tables(Records', k) = Tables(Records, k)
        /\ Whole(Records') = IF d <= Whole(Records) THEN d ELSE Whole(Records)
    <3> DEFINE f == Named
               g == Named'
    <3>1. /\ f \in File(Edit) /\ g \in File(Edit) /\ g.durable = d /\ Records = f.recs /\ Records' = g.recs
          /\ g.durable \in f.durable..Len(f.recs) /\ g.recs = SubSeq(f.recs, 1, g.durable)
      BY <2>1 DEF Records
    <3> HIDE DEF f, g, d
    <3>2. /\ Outcomes(g) \subseteq Outcomes(f)
          /\ \A k \in Outcomes(g) : /\ Tables(g.recs, k) = Tables(f.recs, k) /\ g.recs[k] = f.recs[k]
                                    /\ k = Whole(g.recs)
          /\ Whole(g.recs) = IF g.durable <= Whole(f.recs) THEN g.durable ELSE Whole(f.recs)
      BY <3>1, OutcomesCut
    <3> QED  BY <3>1, <3>2 DEF f, g
  <2>3. (\A k \in Outcomes(Named) : OnDisk(Tables(Records, k)))'
    BY <1>0, <1>2, <1>3, <1>cut, <2>2
  <2>4. /\ Records \in Seq(Edit \cup {Torn}) /\ Len(Records) \in Nat /\ Named.durable \in 0..Len(Records)
        /\ Whole(Records) \in 0..Len(Records) /\ DOMAIN Records = 1..Len(Records)
    BY <1>cut, NamedType
  <2> HIDE DEF d
  <2>5. d \in 0..Len(Records)
    BY <2>1, <2>4
  <2>6. (DOMAIN Records)' = 1..d /\ \A i \in 1..d : Records'[i] = Records[i]
    BY <2>1, <2>4, <2>5, SubSeqProperties
  <2>7. \A i \in 1..d : i \in DOMAIN Records /\ \A j \in 1..i : j \in 1..d
    BY <2>4, <2>5
  <2>8. ASSUME NEW i \in 1..d, Records'[i] # Torn
        PROVE  /\ current < Records'[i].next /\ Records'[i].log < Records'[i].next
               /\ \A t \in Records'[i].add : t < Records'[i].next
               /\ \A j \in 1..i : Records'[j] # Torn => Records'[j].next <= Records'[i].next
    <3>1. Records[i] # Torn /\ i \in DOMAIN Records /\ \A j \in 1..i : j \in 1..d
      BY <2>6, <2>7, <2>8
    <3> QED  BY <1>cut, <2>6, <3>1 DEF ManifestOK
  <2>9. d = 0 => /\ acked' = {} /\ safe' = {} /\ ~created'
                 /\ \A n \in DOMAIN log' : log'[n].recs = <<>>
    <3>1. d = 0 => Named.durable = 0
      BY <2>1, <2>4
    <3> QED  BY <1>cut, <1>4, <3>1 DEF ManifestOK
  <2>10. d > 0 => Whole(Records') > 0
    <3>1. CASE Named.durable = 0
      <4>1. \A i \in 1..Len(Records) : Records[i] # Torn
        BY <1>cut, <2>4, <3>1 DEF ManifestOK
      <4>2. Len(Records) \in 0..Len(Records)
        BY <2>4
      <4>3. Whole(Records) = Len(Records)
        BY <2>4, <4>1, <4>2, WholeIs
      <4> QED  BY <2>2, <2>4, <2>5, <4>3
    <3>2. CASE Named.durable # 0
      <4>1. Whole(Records) > 0
        BY <1>cut, <2>4, <3>2 DEF ManifestOK
      <4> QED  BY <2>2, <2>4, <2>5, <4>1
    <3> QED  BY <3>1, <3>2
  <2>12. d = (Named.durable)'
    BY DEF d
  <2>13. d = 0 => \A i \in 1..d : FALSE
    BY <2>4
  <2> QED  BY <2>1, <2>6, <2>8, <2>9, <2>10, <2>3, <2>12, <2>13 DEF ManifestOK
<1> QED
  <2>1. CASE current # 0
    BY <2>1, NamedSame, <1>same, <1>NewCurrent, <1>add, <1>sync, <1>cut, NamedAppended, NamedSynced
  <2>2. CASE current = 0
    <3>1. current' = 0 \/ NewDBCurrent \/ NewCurrent
      BY <2>2, Changes DEF OpenCurrent, NewCurrent
    <3> QED  BY <2>2, <3>1, <1>none, <1>NewDBCurrent, <1>NewCurrent
  <2> QED  BY <2>1, <2>2

\* The steps of DB::Open before CURRENT names the new manifest.
LEMMA OpeningSteps ==
  ASSUME BlankOK, BackgroundOK, [Next]_vars, Opening'
  PROVE  \/ (Recover /\ phase' = "logs") \/ Replay \/ NewLog \/ OpenManifest \/ NewManifestSynced
         \/ Idles
<1>NewDB. ASSUME NewDB PROVE FALSE
  BY <1>NewDB DEF NewDB, Opening
<1>NewDBCurrent. ASSUME NewDBCurrent PROVE FALSE
  BY <1>NewDBCurrent DEF NewDBCurrent, Opening
<1>OpenExisting. ASSUME OpenExisting PROVE FALSE
  BY <1>OpenExisting DEF OpenExisting, Opening
<1>NewCurrent. ASSUME NewCurrent PROVE FALSE
  BY <1>NewCurrent DEF NewCurrent, Opening, OpenCurrent
<1>DeleteObsoleteFile. ASSUME DeleteObsoleteFile PROVE FALSE
  BY <1>DeleteObsoleteFile DEF DeleteObsoleteFile, Opening, BlankOK
<1>OpenDone. ASSUME OpenDone PROVE FALSE
  BY <1>OpenDone DEF OpenDone, Opening
<1>AddRecord. ASSUME NEW b \in Batch, NEW sync \in BOOLEAN, AddRecord(b, sync) PROVE FALSE
  BY <1>AddRecord DEF AddRecord, Opening, Unlocked, Running
<1>SyncLog. ASSUME SyncLog PROVE FALSE
  BY <1>SyncLog DEF SyncLog, Opening, Unlocked, Running
<1>FinishWrite. ASSUME FinishWrite PROVE FALSE
  BY <1>FinishWrite DEF FinishWrite, Opening, Unlocked, Running
<1>Switch. ASSUME Switch PROVE FALSE
  BY <1>Switch DEF Switch, Opening, Unlocked, Running
<1>FlushStart. ASSUME FlushStart PROVE FALSE
  BY <1>FlushStart DEF FlushStart, Opening, Running
<1>FlushBuilt. ASSUME FlushBuilt PROVE FALSE
  BY <1>FlushBuilt DEF FlushBuilt, Opening, Running
<1>CompactStart. ASSUME CompactStart PROVE FALSE
  BY <1>CompactStart DEF CompactStart, Opening, Running
<1>CompactOutput. ASSUME CompactOutput PROVE FALSE
  BY <1>CompactOutput DEF CompactOutput, Opening, Running
<1>CompactBuilt. ASSUME CompactBuilt PROVE FALSE
  BY <1>CompactBuilt DEF CompactBuilt, Opening, Running
<1>ApplyAdd. ASSUME ApplyAdd PROVE FALSE
  BY <1>ApplyAdd DEF ApplyAdd, Opening, Running
<1>ApplySync. ASSUME ApplySync PROVE FALSE
  BY <1>ApplySync DEF ApplySync, Opening, Running
<1>ApplyInstall. ASSUME ApplyInstall PROVE FALSE
  BY <1>ApplyInstall DEF ApplyInstall, Opening, Running
<1>CleanupDone. ASSUME CleanupDone PROVE FALSE
  BY <1>CleanupDone DEF CleanupDone, Opening, Running
<1>Quit. ASSUME Quit PROVE FALSE
  BY <1>Quit DEF Quit, Opening, Closed
<1>DropTable. ASSUME DropTable PROVE FALSE
  BY <1>DropTable DEF DropTable, Opening, Closed
<1>DropManifest. ASSUME DropManifest PROVE FALSE
  BY <1>DropManifest DEF DropManifest, Opening, Closed
<1>PowerLoss. ASSUME PowerLoss PROVE FALSE
  BY <1>PowerLoss DEF PowerLoss, Opening
<1>Recover. ASSUME Recover PROVE phase' = "logs"
  BY <1>Recover DEF Recover, Opening
<1> QED
  BY Steps, <1>NewDB, <1>NewDBCurrent, <1>OpenExisting, <1>NewCurrent, <1>DeleteObsoleteFile,
     <1>OpenDone, <1>AddRecord, <1>SyncLog, <1>FinishWrite, <1>Switch, <1>FlushStart,
     <1>FlushBuilt, <1>CompactStart, <1>CompactOutput, <1>CompactBuilt, <1>ApplyAdd,
     <1>ApplySync, <1>ApplyInstall, <1>CleanupDone, <1>Quit, <1>DropTable, <1>DropManifest,
     <1>PowerLoss, <1>Recover

\* DB::Open goes on to hold what the manifest and the logs say.
LEMMA OpeningStep ==
  ASSUME Types, Types', BlankOK, ManifestOK, OpeningOK, LiveOK, BackgroundOK, SyncedOK, [Next]_vars
  PROVE  OpeningOK'
<1> SUFFICES ASSUME Opening' PROVE OpeningOK'
  BY DEF OpeningOK
<1>Recover. CASE Recover /\ phase' = "logs"
  <2>1. current # 0 /\ phase = "recover" /\ edit = NoEdit /\ edit' = NoEdit
    BY <1>Recover DEF Recover, BlankOK
  <2> DEFINE w == Whole(Records)
  <2>2. /\ w > 0 /\ version' = Tables(Records, w) /\ log_number' = Records[w].log
        /\ manifest_number' = Records[w].next /\ next_file' = Records[w].next + 1
        /\ last_sequence' = Records[w].last /\ todo' = {l \in DOMAIN log : l >= Records[w].log}
        /\ UNCHANGED <<log, manifest, table, current>>
    BY <1>Recover DEF Recover, Records, Named, disk
  <2>3. w \in 1..Len(Records) /\ w \in DOMAIN Records /\ Records[w] \in Edit /\ Records[w] # Torn
        /\ w \in Outcomes(Named)
    BY <2>1, <2>2, NamedType DEF Outcomes, Records
  <2>4. Records' = Records
    BY <2>2 DEF Records, Named
  <2>5. Records[w].log < Records[w].next /\ Records[w].log \in Nat /\ Records[w].next \in Nat
    BY <2>1, <2>3 DEF ManifestOK, Edit
  <2>8. \A l \in DOMAIN log : l \in Nat
    BY DEF Types, LogType, Typed
  <2> HIDE DEF w
  <2>9. \A l \in DOMAIN log : l >= next_file' => l \in todo'
    BY <2>2, <2>5, <2>8
  <2>10. TableEntries(edit.add)' = {} /\ OnDisk(edit.add)' /\ edit'.add = {}
    BY <2>1 DEF TableEntries, NoEdit, OnDisk
  <2>11. UNION {LogEntries(l)' : l \in {x \in DOMAIN log' : x >= log_number'} \ todo'} = {}
    BY <2>2
  <2>12. manifest_number' < next_file'
    BY <2>2, <2>5
  <2> QED
    BY <1>Recover, <2>1, <2>2, <2>4, <2>9, <2>10, <2>11, <2>12 DEF OpeningOK, w
<1>Replay. CASE Replay
  <2> DEFINE l == Min(todo)
             es == LogEntries(l)
  <2>1. Opening /\ phase = "logs" /\ phase' = "logs"
    BY <1>Replay DEF Replay, RecoverLogFile, Opening
  <2>2. l \in todo /\ l \in DOMAIN log /\ l \in Nat /\ \A x \in todo : l <= x
    BY <1>Replay, OldestLog DEF Replay, RecoverLogFile, Types
  <2>3. /\ todo' = todo \ {l}
        /\ table' = IF es = {} THEN table ELSE Create(table, next_file, es)
        /\ edit' = IF es = {} THEN edit ELSE [edit EXCEPT !.add = @ \cup {next_file}]
        /\ next_file' = MarkFileNumberUsed(next_file + (IF es = {} THEN 0 ELSE 1), l)
        /\ last_sequence' = RecoveredSequence(es)
        /\ UNCHANGED <<log, manifest, current, log_number, manifest_number, version>>
    BY <1>Replay DEF Replay, RecoverLogFile
  <2>4. es \subseteq Entry /\ es # Garbage
    <3>1. es \subseteq Entry
      BY <2>2, LogEntriesType DEF Types
    <3> QED  BY <3>1, ConstantsAssumption DEF Garbage
  <2>5. /\ RecoveredSequence(es) \in Nat /\ last_sequence <= RecoveredSequence(es)
        /\ \A e \in es : e.seq <= RecoveredSequence(es)
    BY <2>2, SequenceRecovered DEF Types, NumberType
  <2>6. next_file \notin Used
    BY <2>1, FreshTable
  <2>7. edit'.add = IF es = {} THEN edit.add ELSE edit.add \cup {next_file}
    BY <2>3 DEF Types, ControlType, Edit
  <2>8. \A t \in Used : t \in DOMAIN table /\ t \in DOMAIN table' /\ table'[t] = table[t] /\ table[t] # Garbage
    BY TablesKept, UsedOnDisk DEF OnDisk
  <2>9. version \subseteq Used /\ edit.add \subseteq Used
    BY <2>1 DEF Used
  <2> HIDE DEF es
  <2>10. next_file' \in Nat /\ next_file <= next_file' /\ l < next_file' /\ next_file \in Nat
         /\ (es # {} => next_file < next_file')
    BY <2>2, <2>3 DEF MarkFileNumberUsed, Types, NumberType
  <2>11. OnDisk(edit.add)'
    BY <2>3, <2>4, <2>7, <2>8, <2>9 DEF OnDisk, Create
  <2>c. /\ EntriesIn(table', edit.add) = EntriesIn(table, edit.add)
        /\ EntriesIn(table', version) = EntriesIn(table, version)
    BY <2>8, <2>9, EntriesSame
  <2>12. EntriesIn(table', edit'.add) = EntriesIn(table, edit.add) \cup es
    <3>1. CASE es = {}
      BY <2>7, <2>c, <3>1
    <3>2. CASE es # {}
      <4>1. next_file \in DOMAIN table' /\ table'[next_file] = es
        BY <2>3, <3>2 DEF Create
      <4>2. EntriesIn(table', {next_file}) = es
        BY <2>4, <4>1, EntriesOne
      <4> QED  BY <2>7, <2>c, <3>2, <4>2, EntriesUnion
    <3> QED  BY <3>1, <3>2
  <2> DEFINE L(td) == {x \in DOMAIN log : x >= log_number} \ td
  <2>14. l \in L(todo') /\ l >= log_number /\ L(todo') = L(todo) \cup {l}
    BY <2>1, <2>2, <2>3 DEF OpeningOK
  <2>15. EntriesIn(table, edit.add) = LogsIn(log, L(todo))
    BY <2>1 DEF OpeningOK, TableEntries, EntriesIn, LogsIn, LogEntries
  <2>16. (TableEntries(edit.add) = LogsIn(log, {x \in DOMAIN log : x >= log_number} \ todo))'
    <3>1. (TableEntries(edit.add))' = EntriesIn(table', edit'.add)
      BY DEF TableEntries, EntriesIn
    <3>2. {x \in DOMAIN log' : x >= log_number'} \ todo' = L(todo')
      BY <2>3 DEF L
    <3>3. LogsIn(log, L(todo')) = LogsIn(log, L(todo)) \cup es
      <4> HIDE DEF L
      <4> QED  BY <2>14, LogsOneMore DEF es, LogEntries
    <3> HIDE DEF L
    <3> QED  BY <2>3, <2>12, <2>15, <3>1, <3>2, <3>3
  <2>18. (TableEntries(edit.add) = UNION {LogEntries(ll) : ll \in {x \in DOMAIN log : x >= log_number} \ todo})'
    BY <2>16 DEF LogsIn, LogEntries
  <2>20. \A t \in edit'.add : manifest_number < t /\ t < next_file'
    <3>1. ASSUME NEW t \in edit.add PROVE manifest_number < t /\ t < next_file'
      <4>1. t \in Nat /\ t < next_file /\ manifest_number < t
        BY <2>1 DEF OpeningOK, Types, ControlType, Edit
      <4> QED  BY <2>10, <4>1
    <3>2. manifest_number < next_file
      BY <2>1 DEF OpeningOK
    <3> QED  BY <2>7, <2>10, <3>1, <3>2
  <2>21. \A x \in DOMAIN log : x >= next_file' => x \in todo'
    <3>1. ASSUME NEW x \in DOMAIN log, x >= next_file' PROVE x \in todo'
      <4>1. x \in Nat
        BY DEF Types, LogType, Typed
      <4>2. x >= next_file /\ x # l
        BY <2>2, <2>10, <3>1, <4>1
      <4> QED  BY <2>1, <2>3, <4>2 DEF OpeningOK
    <3> QED  BY <3>1
  <2>22. manifest_number < next_file'
    BY <2>1, <2>10 DEF OpeningOK, Types, NumberType
  <2>23. Records' = Records
    BY <2>3 DEF Records, Named
  <2> HIDE DEF l
  <2> QED
    BY <2>1, <2>3, <2>11, <2>18, <2>20, <2>21, <2>22, <2>23 DEF OpeningOK
<1>NewLog. CASE NewLog
  <2>1. /\ Opening /\ phase = "logs" /\ phase' = "manifest" /\ todo = {} /\ todo' = {}
        /\ log' = Create(log, next_file, EmptyFile) /\ logfile_number' = next_file
        /\ next_file' = next_file + 1 /\ edit' = [edit EXCEPT !.log = next_file]
        /\ UNCHANGED <<manifest, table, current, version, log_number, manifest_number, last_sequence>>
    BY <1>NewLog DEF NewLog, OpenLog, Opening
  <2>2. edit'.log = next_file /\ edit'.add = edit.add
    BY <2>1 DEF Types, ControlType, Edit
  <2>3. next_file \in Nat /\ \A x \in DOMAIN log : x \in Nat /\ x < next_file
    BY <2>1 DEF OpeningOK, Types, NumberType, LogType, Typed
  <2>4. DOMAIN log' = DOMAIN log \cup {next_file} /\ log'[next_file] = EmptyFile
        /\ \A x \in DOMAIN log : log'[x] = log[x]
    BY <2>1, <2>3 DEF Create
  <2>5. (TableEntries(edit.add) = UNION {LogEntries(x) : x \in {x \in DOMAIN log : x >= log_number} \ todo})'
    <3> DEFINE D == {x \in DOMAIN log : x >= log_number}
    <3>1. TableEntries(edit.add)' = TableEntries(edit.add)
      BY <2>1, <2>2 DEF TableEntries
    <3>2. TableEntries(edit.add) = LogsIn(log, D)
      BY <2>1 DEF OpeningOK, LogsIn, LogEntries
    <3>3. log_number < next_file /\ log_number \in Nat
      <4>1. log_number < manifest_number /\ manifest_number < next_file
        BY <2>1, OpeningNumbers
      <4> QED  BY <2>3, <4>1 DEF Types, NumberType
    <3>4. {x \in DOMAIN log' : x >= log_number'} \ todo' = D \cup {next_file}
      BY <2>1, <2>3, <2>4, <3>3
    <3>5. LogsIn(log', D) = LogsIn(log, D)
      BY <2>4, LogsSame
    <3>6. Intact(log'[next_file].recs) = {}
      BY <2>4, EmptyLog DEF EmptyFile
    <3> HIDE DEF D
    <3>7. LogsIn(log', D \cup {next_file}) = LogsIn(log, D)
      <4>1. LogsIn(log', D \cup {next_file}) = LogsIn(log', D) \cup Intact(log'[next_file].recs)
        BY DEF LogsIn
      <4> QED  BY <3>5, <3>6, <4>1
    <3>8. UNION {Intact(log'[x].recs) : x \in {x \in DOMAIN log' : x >= log_number'} \ todo'}
            = LogsIn(log', D \cup {next_file})
      BY <3>4 DEF LogsIn
    <3> QED  BY <3>1, <3>2, <3>7, <3>8 DEF LogEntries
  <2>6. OnDisk(edit.add)' /\ Records' = Records
    BY <2>1, <2>2 DEF OpeningOK, OnDisk, TableEntries, Records, Named
  <2>7. \A t \in edit'.add : manifest_number < t /\ t < next_file'
    <3>1. ASSUME NEW t \in edit.add PROVE manifest_number < t /\ t < next_file'
      <4>1. t \in Nat /\ t < next_file /\ manifest_number < t
        BY <2>1 DEF OpeningOK, Types, ControlType, Edit
      <4> QED  BY <2>1, <2>3, <4>1
    <3> QED  BY <2>2, <3>1
  <2>8. manifest_number < next_file' /\ logfile_number' < next_file' /\ (\A x \in DOMAIN log' : x <= logfile_number')
    BY <2>1, <2>3, <2>4 DEF OpeningOK, Types, NumberType
  <2>9. \A x \in DOMAIN log' : ~(x >= next_file')
    BY <2>1, <2>3, <2>4
  <2>10. logfile_number' \in DOMAIN log' /\ log'[logfile_number'] = EmptyFile
    BY <2>1, <2>4
  <2>11. edit'.log = logfile_number' /\ edit'.add = edit.add
    BY <2>1, <2>2
  <2> QED
    BY <2>1, <2>5, <2>6, <2>7, <2>8, <2>9, <2>10, <2>11 DEF OpeningOK
<1>OpenManifest. CASE OpenManifest
  <2>1. /\ Opening /\ phase = "manifest" /\ phase' = "sync" /\ current' = current /\ current # 0
        /\ UNCHANGED <<log, table, version, log_number, logfile_number, manifest_number, next_file,
                       last_sequence, todo, edit>>
        /\ manifest' = Create(manifest, manifest_number,
             [recs |-> <<[edit EXCEPT !.next = next_file, !.last = last_sequence,
                                      !.add = @ \cup version]>>, durable |-> 0])
    BY <1>OpenManifest, OpeningNumbers DEF OpenManifest, Opening, memory
  <2>2. [edit EXCEPT !.next = next_file, !.last = last_sequence, !.add = @ \cup version]
          = [log |-> edit.log, next |-> next_file, last |-> last_sequence,
             add |-> edit.add \cup version, del |-> {}]
    <3>1. edit.del = {}
      BY <2>1 DEF BlankOK
    <3>2. edit \in Edit
      BY DEF Types, ControlType
    <3>3. next_file \in Nat /\ last_sequence \in Nat /\ version \in SUBSET Nat
      BY DEF Types, NumberType
    <3> DEFINE x == [edit EXCEPT !.next = next_file, !.last = last_sequence, !.add = @ \cup version]
    <3>4. x \in Edit
      BY <3>2, <3>3 DEF Edit
    <3>5. x.log = edit.log /\ x.next = next_file /\ x.last = last_sequence
          /\ x.add = edit.add \cup version /\ x.del = {}
      BY <3>1, <3>2, <3>3 DEF Edit
    <3> HIDE DEF x
    <3>6. x = [log |-> x.log, next |-> x.next, last |-> x.last, add |-> x.add, del |-> x.del]
      BY <3>4 DEF Edit
    <3>7. x = [log |-> edit.log, next |-> next_file, last |-> last_sequence,
               add |-> edit.add \cup version, del |-> {}]
      BY <3>5, <3>6
    <3> QED  BY <3>7 DEF x
  <2>3. Named' = Named
    <3>1. manifest_number # current
      BY <2>1, OpeningNumbers DEF Types, NumberType
    <3> QED  BY <2>1, <3>1, OpeningNumbers DEF Named, Create
  <2>4. Records' = Records /\ (\A x : LogEntries(x)' = LogEntries(x))
        /\ \A ts : OnDisk(ts)' = OnDisk(ts) /\ TableEntries(ts)' = TableEntries(ts)
    BY <2>1, <2>3 DEF Records, LogEntries, OnDisk, TableEntries
  <2>5. /\ manifest_number' \in DOMAIN manifest'
        /\ manifest'[manifest_number'] =
              [recs |-> <<[log |-> edit'.log, next |-> next_file', last |-> last_sequence',
                           add |-> edit'.add \cup version', del |-> {}]>>, durable |-> 0]
    BY <2>1, <2>2 DEF Create
  <2> QED  BY <2>1, <2>4, <2>5 DEF OpeningOK
<1>NewManifestSynced. CASE NewManifestSynced
  <2>1. /\ Opening /\ phase = "sync" /\ phase' = "current" /\ current' = current /\ current # 0
        /\ UNCHANGED <<log, table, version, log_number, logfile_number, manifest_number, next_file,
                       last_sequence, todo, edit>>
        /\ manifest' = SyncFile(manifest, manifest_number)
    BY <1>NewManifestSynced, OpeningNumbers DEF NewManifestSynced, OpenSync, Opening, memory
  <2> DEFINE r == [log |-> edit.log, next |-> next_file, last |-> last_sequence,
                   add |-> edit.add \cup version, del |-> {}]
  <2>2. manifest_number \in DOMAIN manifest /\ manifest[manifest_number] = [recs |-> <<r>>, durable |-> 0]
    BY <2>1 DEF OpeningOK
  <2>3. Named' = Named
    <3>1. manifest_number # current
      BY <2>1, OpeningNumbers DEF Types, NumberType
    <3> QED  BY <2>1, <3>1, OpeningNumbers DEF Named, SyncFile
  <2>4. Records' = Records /\ (\A x : LogEntries(x)' = LogEntries(x))
        /\ \A ts : OnDisk(ts)' = OnDisk(ts) /\ TableEntries(ts)' = TableEntries(ts)
    BY <2>1, <2>3 DEF Records, LogEntries, OnDisk, TableEntries
  <2>5. manifest_number \in DOMAIN manifest' /\ manifest'[manifest_number] = [recs |-> <<r>>, durable |-> 1]
    <3> HIDE DEF r
    <3>1. Len(<<r>>) = 1
      OBVIOUS
    <3> QED  BY <2>1, <2>2, <3>1 DEF SyncFile
  <2> QED  BY <2>1, <2>4, <2>5 DEF OpeningOK
<1>Stutter. CASE Idles
  <2>1. UNCHANGED <<log, manifest, table, current, phase, version, log_number, logfile_number, manifest_number, next_file,
                    last_sequence, todo, edit>>
    BY <1>Stutter DEF Idles, disk, memory
  <2>2. Records' = Records /\ (\A x : LogEntries(x)' = LogEntries(x))
        /\ \A ts : OnDisk(ts)' = OnDisk(ts) /\ TableEntries(ts)' = TableEntries(ts)
    BY <2>1 DEF Records, Named, LogEntries, OnDisk, TableEntries
  <2> QED  BY <2>1, <2>2 DEF OpeningOK, Opening
<1> QED
  BY OpeningSteps, <1>Recover, <1>Replay, <1>NewLog, <1>OpenManifest, <1>NewManifestSynced, <1>Stutter

\* The steps of a running database.
LEMMA LiveSteps ==
  ASSUME BlankOK, [Next]_vars, Live'
  PROVE  \/ NewCurrent
         \/ /\ Live
            /\ phase' = phase \/ OpenDone
            /\ \/ DeleteObsoleteFile \/ OpenDone
               \/ (\E b \in Batch, sync \in BOOLEAN : AddRecord(b, sync))
               \/ SyncLog \/ FinishWrite \/ Switch \/ FlushStart \/ FlushBuilt \/ CompactStart
               \/ CompactOutput \/ CompactBuilt \/ ApplyAdd \/ ApplySync \/ ApplyInstall
               \/ CleanupDone \/ Idles
<1>NewDB. ASSUME NewDB PROVE FALSE
  BY <1>NewDB DEF NewDB, Live
<1>NewDBCurrent. ASSUME NewDBCurrent PROVE FALSE
  BY <1>NewDBCurrent DEF NewDBCurrent, Live
<1>OpenExisting. ASSUME OpenExisting PROVE FALSE
  BY <1>OpenExisting DEF OpenExisting, Live
<1>Recover. ASSUME Recover PROVE FALSE
  BY <1>Recover DEF Recover, Live
<1>Replay. ASSUME Replay PROVE FALSE
  BY <1>Replay DEF Replay, RecoverLogFile, Live
<1>NewLog. ASSUME NewLog PROVE FALSE
  BY <1>NewLog DEF NewLog, OpenLog, Live
<1>OpenManifest. ASSUME OpenManifest PROVE FALSE
  BY <1>OpenManifest DEF OpenManifest, Live
<1>NewManifestSynced. ASSUME NewManifestSynced PROVE FALSE
  BY <1>NewManifestSynced DEF NewManifestSynced, OpenSync, Live
<1>Quit. ASSUME Quit PROVE FALSE
  BY <1>Quit DEF Quit, Closed, Live
<1>DropTable. ASSUME DropTable PROVE FALSE
  BY <1>DropTable DEF DropTable, Closed, Live
<1>DropManifest. ASSUME DropManifest PROVE FALSE
  BY <1>DropManifest DEF DropManifest, Closed, Live
<1>PowerLoss. ASSUME PowerLoss PROVE FALSE
  BY <1>PowerLoss DEF PowerLoss, Live
<1>DeleteObsoleteFile. ASSUME DeleteObsoleteFile PROVE Live /\ phase' = phase
  BY <1>DeleteObsoleteFile DEF DeleteObsoleteFile, Live, BlankOK
<1>OpenDone. ASSUME OpenDone PROVE Live
  BY <1>OpenDone DEF OpenDone, Live
<1>AddRecord. ASSUME NEW b \in Batch, NEW sync \in BOOLEAN, AddRecord(b, sync) PROVE Live /\ phase' = phase
  BY <1>AddRecord DEF AddRecord, Unlocked, Running, Live
<1>SyncLog. ASSUME SyncLog PROVE Live /\ phase' = phase
  BY <1>SyncLog DEF SyncLog, Unlocked, Running, Live
<1>FinishWrite. ASSUME FinishWrite PROVE Live /\ phase' = phase
  BY <1>FinishWrite DEF FinishWrite, Unlocked, Running, Live
<1>Switch. ASSUME Switch PROVE Live /\ phase' = phase
  BY <1>Switch DEF Switch, Unlocked, Running, Live
<1>FlushStart. ASSUME FlushStart PROVE Live /\ phase' = phase
  BY <1>FlushStart DEF FlushStart, Running, Live
<1>FlushBuilt. ASSUME FlushBuilt PROVE Live /\ phase' = phase
  BY <1>FlushBuilt DEF FlushBuilt, Running, Live
<1>CompactStart. ASSUME CompactStart PROVE Live /\ phase' = phase
  BY <1>CompactStart DEF CompactStart, Running, Live
<1>CompactOutput. ASSUME CompactOutput PROVE Live /\ phase' = phase
  BY <1>CompactOutput DEF CompactOutput, Running, Live
<1>CompactBuilt. ASSUME CompactBuilt PROVE Live /\ phase' = phase
  BY <1>CompactBuilt DEF CompactBuilt, Running, Live
<1>ApplyAdd. ASSUME ApplyAdd PROVE Live /\ phase' = phase
  BY <1>ApplyAdd DEF ApplyAdd, Running, Live
<1>ApplySync. ASSUME ApplySync PROVE Live /\ phase' = phase
  BY <1>ApplySync DEF ApplySync, Running, Live
<1>ApplyInstall. ASSUME ApplyInstall PROVE Live /\ phase' = phase
  BY <1>ApplyInstall DEF ApplyInstall, Running, Live
<1>CleanupDone. ASSUME CleanupDone PROVE Live /\ phase' = phase
  BY <1>CleanupDone DEF CleanupDone, Running, Live
<1>Stutter. ASSUME Idles PROVE Live /\ phase' = phase
  BY <1>Stutter DEF Idles, Live
<1> QED
  BY Steps, <1>NewDB, <1>NewDBCurrent, <1>OpenExisting, <1>Recover, <1>Replay, <1>NewLog,
     <1>OpenManifest, <1>NewManifestSynced, <1>Quit, <1>DropTable, <1>DropManifest, <1>PowerLoss,
     <1>DeleteObsoleteFile, <1>OpenDone, <1>AddRecord, <1>SyncLog, <1>FinishWrite, <1>Switch,
     <1>FlushStart, <1>FlushBuilt, <1>CompactStart, <1>CompactOutput, <1>CompactBuilt,
     <1>ApplyAdd, <1>ApplySync, <1>ApplyInstall, <1>CleanupDone, <1>Stutter

\* What they change.
LEMMA LiveChanges ==
  ASSUME BlankOK, [Next]_vars, Live', ~NewCurrent
  PROVE
    /\ UNCHANGED <<current, manifest_number, todo>>
    /\ log' = log \/ DeleteObsoleteFile
          \/ (\E b \in Batch, sync \in BOOLEAN : AddRecord(b, sync)) \/ SyncLog \/ Switch
    /\ manifest' = manifest \/ DeleteObsoleteFile \/ ApplyAdd \/ ApplySync
    /\ table' = table \/ DeleteObsoleteFile \/ FlushStart \/ FlushBuilt \/ CompactOutput
          \/ CompactBuilt
    /\ mem' = mem \/ FinishWrite \/ Switch
    /\ imm' = imm \/ Switch \/ ApplyInstall
    /\ logfile_number' = logfile_number \/ Switch
    /\ log_number' = log_number \/ ApplyInstall
    /\ version' = version \/ ApplyInstall
    /\ next_file' = next_file \/ Switch \/ FlushStart \/ CompactOutput
    /\ last_sequence' = last_sequence \/ (\E b \in Batch, sync \in BOOLEAN : AddRecord(b, sync))
          \/ SyncLog \/ FinishWrite
    /\ bg_error' = bg_error \/ SyncLog \/ FlushBuilt \/ CompactBuilt \/ ApplyAdd \/ ApplySync
    /\ writing' = writing \/ (\E b \in Batch, sync \in BOOLEAN : AddRecord(b, sync)) \/ SyncLog
          \/ FinishWrite
    /\ edit' = edit \/ FlushStart \/ FlushBuilt \/ CompactBuilt \/ ApplyAdd \/ ApplySync
          \/ ApplyInstall
    /\ bgpc' = bgpc \/ FlushStart \/ FlushBuilt \/ CompactStart \/ CompactBuilt \/ ApplyAdd
          \/ ApplySync \/ ApplyInstall \/ CleanupDone
    /\ inputs' = inputs \/ CompactStart \/ CompactBuilt \/ ApplyAdd \/ ApplySync \/ ApplyInstall
    /\ pending' = pending \/ FlushStart \/ FlushBuilt \/ CompactOutput \/ CompactBuilt
          \/ ApplyAdd \/ ApplySync \/ ApplyInstall
    /\ acked' = acked \/ FinishWrite
    /\ safe' = safe \/ FinishWrite
    /\ doubt' = doubt \/ (\E b \in Batch, sync \in BOOLEAN : AddRecord(b, sync)) \/ SyncLog
    /\ created' = created \/ OpenDone
<1>DeleteObsoleteFile. CASE DeleteObsoleteFile
  BY <1>DeleteObsoleteFile DEF DeleteObsoleteFile, memory, history
<1>OpenDone. CASE OpenDone
  <2>1. UNCHANGED <<disk, memory, acked, safe, doubt>>
    BY <1>OpenDone DEF OpenDone
  <2> QED  BY <1>OpenDone, <2>1 DEF disk, memory
<1>AddRecord. CASE \E b \in Batch, sync \in BOOLEAN : AddRecord(b, sync)
  BY <1>AddRecord DEF AddRecord
<1>SyncLog. CASE SyncLog
  BY <1>SyncLog DEF SyncLog
<1>FinishWrite. CASE FinishWrite
  BY <1>FinishWrite DEF FinishWrite, disk
<1>Switch. CASE Switch
  BY <1>Switch DEF Switch, history
<1>FlushStart. CASE FlushStart
  BY <1>FlushStart DEF FlushStart, history
<1>FlushBuilt. CASE FlushBuilt
  BY <1>FlushBuilt DEF FlushBuilt, history
<1>CompactStart. CASE CompactStart
  BY <1>CompactStart DEF CompactStart, disk, history
<1>CompactOutput. CASE CompactOutput
  BY <1>CompactOutput DEF CompactOutput, history
<1>CompactBuilt. CASE CompactBuilt
  BY <1>CompactBuilt DEF CompactBuilt, history
<1>ApplyAdd. CASE ApplyAdd
  BY <1>ApplyAdd DEF ApplyAdd, history, ApplyFailed
<1>ApplySync. CASE ApplySync
  BY <1>ApplySync DEF ApplySync, history, ApplyFailed
<1>ApplyInstall. CASE ApplyInstall
  BY <1>ApplyInstall DEF ApplyInstall, disk, history
<1>CleanupDone. CASE CleanupDone
  BY <1>CleanupDone DEF CleanupDone, disk, history
<1>Stutter. CASE Idles
  BY <1>Stutter DEF Idles, disk, memory, history
<1> QED
  BY LiveSteps, <1>DeleteObsoleteFile, <1>OpenDone, <1>AddRecord, <1>SyncLog, <1>FinishWrite,
     <1>Switch, <1>FlushStart, <1>FlushBuilt, <1>CompactStart, <1>CompactOutput, <1>CompactBuilt,
     <1>ApplyAdd, <1>ApplySync, <1>ApplyInstall, <1>CleanupDone, <1>Stutter

\* The open database keeps its files.
LEMMA LiveStep ==
  ASSUME Types, Types', BlankOK, ManifestOK, OpeningOK, LiveOK, BackgroundOK, SyncedOK, [Next]_vars
  PROVE  LiveOK'
<1> SUFFICES ASSUME Live' PROVE LiveOK'
  BY DEF LiveOK
<1>NewCurrent. CASE NewCurrent
  <2> DEFINE r == [log |-> edit.log, next |-> next_file, last |-> last_sequence,
                   add |-> edit.add \cup version, del |-> {}]
  <2>1. /\ current' = manifest_number /\ current' # 0 /\ manifest_number' = manifest_number
        /\ Named' = [recs |-> <<r>>, durable |-> 1] /\ r \in Edit
        /\ UNCHANGED <<log, table, next_file, logfile_number>>
        /\ version' = version \cup edit.add /\ log_number' = edit.log
    BY <1>NewCurrent, NamedNew
  <2>2. r.log = edit.log /\ r.next = next_file
    OBVIOUS
  <2>3. /\ Opening /\ phase = "current" /\ phase' = "cleanup" /\ edit' = NoEdit
        /\ UNCHANGED <<mem, imm, bg_error, writing, todo, bgpc, inputs, pending>>
    BY <1>NewCurrent DEF NewCurrent, OpenCurrent, Opening
  <2>4. /\ mem = {} /\ imm = {} /\ writing = <<>> /\ inputs = {} /\ pending = {}
        /\ bgpc = "idle" /\ ~bg_error
    BY <2>3 DEF BlankOK
  <2> HIDE DEF r
  <2>5. Records' = <<r>> /\ (Named.durable)' = 1
    BY <2>1 DEF Records
  <2>6. (DOMAIN Records)' = {1} /\ Records'[1] = r
    BY <2>5
  <2>7. /\ manifest_number < next_file /\ edit.log = logfile_number /\ logfile_number < next_file
        /\ logfile_number \in DOMAIN log /\ log[logfile_number] = EmptyFile
        /\ \A l \in DOMAIN log : l <= logfile_number
        /\ todo = {} /\ \A t \in edit.add : t < next_file
    BY <2>3 DEF OpeningOK
  <2>8. next_file <= next_file /\ logfile_number <= logfile_number
    BY DEF Types, NumberType
  <2>9. OnDisk(version)'
    <3>1. OnDisk(version \cup edit.add)
      BY <2>3, UsedOnDisk DEF Used, OnDisk
    <3> QED  BY <2>1, <3>1 DEF OnDisk
  <2>10. \A t \in version : t < next_file
    <3>1. current # 0 /\ Whole(Records) \in Outcomes(Named) /\ version = Tables(Records, Whole(Records))
      BY <2>3, OpeningNumbers DEF OpeningOK
    <3>2. ASSUME NEW t \in version PROVE t < next_file
      <4>1. PICK i \in 1..Whole(Records) : i \in DOMAIN Records /\ Records[i] # Torn /\ t \in Records[i].add
        BY <3>1, <3>2, Recorded
      <4>2. Whole(Records) \in DOMAIN Records /\ Records[Whole(Records)] # Torn /\ i \in 1..Whole(Records)
            /\ Records[i] \in Edit /\ Records[Whole(Records)] \in Edit
        BY <2>3, <3>1, <4>1, NamedType, OpeningNumbers
      <4>3. t < Records[i].next /\ Records[i].next <= Records[Whole(Records)].next
        BY <3>1, <4>1, <4>2 DEF ManifestOK
      <4>4. manifest_number = Records[Whole(Records)].next
        BY <2>3 DEF OpeningOK
      <4>5. t \in Nat /\ manifest_number \in Nat /\ next_file \in Nat /\ Records[i].next \in Nat
            /\ Records[Whole(Records)].next \in Nat
        BY <3>2, <4>2 DEF Types, NumberType, Edit
      <4> QED  BY <2>7, <4>3, <4>4, <4>5
    <3> QED  BY <3>2
  <2> QED
    BY <2>1, <2>2, <2>3, <2>4, <2>5, <2>6, <2>7, <2>8, <2>9, <2>10 DEF LiveOK
<1>run. CASE Live /\ (phase' = phase \/ OpenDone) /\ ~NewCurrent
  <2>1. /\ current # 0 /\ manifest_number = current /\ Named.durable > 0
        /\ logfile_number \in DOMAIN log /\ logfile_number < next_file
        /\ log_number <= logfile_number /\ \A l \in DOMAIN log : l <= logfile_number
        /\ todo = {} /\ OnDisk(version) /\ \A t \in version \cup pending : t < next_file
        /\ inputs \subseteq version /\ current < next_file
        /\ \A i \in DOMAIN Records : Records[i] # Torn =>
             Records[i].next <= next_file /\ Records[i].log <= logfile_number
    BY <1>run DEF LiveOK
  <2>2. current' = current /\ manifest_number' = current' /\ current' # 0
    BY <1>run, <2>1, LiveChanges
  <2>closed. ~PowerLoss
    BY DEF PowerLoss, Live
  <2>4. logfile_number' \in DOMAIN log' /\ \A l \in DOMAIN log' : l <= logfile_number'
    <3>1. ASSUME NEW b \in Batch, NEW sync \in BOOLEAN, AddRecord(b, sync)
          PROVE  logfile_number' \in DOMAIN log' /\ \A l \in DOMAIN log' : l <= logfile_number'
      BY <2>1, <3>1 DEF AddRecord, AppendTo, FailedAppend
    <3>2. CASE SyncLog
      BY <2>1, <3>2 DEF SyncLog, SyncFile
    <3>3. CASE Switch
      <4>1. \A l \in DOMAIN log : l \in Nat
        BY DEF Types, LogType, Typed
      <4>2. next_file \in Nat /\ logfile_number \in Nat
        BY DEF Types, NumberType
      <4>3. log' = Create(log, next_file, EmptyFile) /\ logfile_number' = next_file
        BY <3>3 DEF Switch
      <4> QED  BY <2>1, <4>1, <4>2, <4>3 DEF Create
    <3>4. CASE DeleteObsoleteFile
      <4>1. log' = log \/ \E n \in DOMAIN log : ~(n >= log_number) /\ log' = Remove(log, n)
        BY <3>4 DEF DeleteObsoleteFile, KeepLog
      <4>2. logfile_number' = logfile_number /\ logfile_number >= log_number
        BY <2>1, <3>4 DEF DeleteObsoleteFile, memory, Types, NumberType
      <4> QED  BY <2>1, <4>1, <4>2 DEF Remove
    <3>5. CASE log' = log /\ logfile_number' = logfile_number
      BY <2>1, <3>5
    <3>6. log' # log => \/ DeleteObsoleteFile \/ (\E b \in Batch, sync \in BOOLEAN : AddRecord(b, sync))
                        \/ SyncLog \/ Switch
      BY <1>run, LiveChanges
    <3>7. logfile_number' = logfile_number \/ Switch
      BY <1>run, LiveChanges
    <3> QED  BY <3>1, <3>2, <3>3, <3>4, <3>5, <3>6, <3>7
  <2>num. next_file \in Nat /\ logfile_number \in Nat /\ log_number \in Nat /\ current \in Nat
    BY DEF Types, NumberType
  <2>5. logfile_number' < next_file' /\ next_file <= next_file' /\ logfile_number <= logfile_number'
    <3>1. CASE Switch
      <4>1. logfile_number' = next_file /\ next_file' = next_file + 1
        BY <3>1 DEF Switch
      <4> QED  BY <2>1, <2>num, <4>1
    <3>2. CASE FlushStart
      <4>1. next_file' = next_file + 1 /\ logfile_number' = logfile_number
        BY <3>2 DEF FlushStart
      <4> QED  BY <2>1, <2>num, <4>1
    <3>3. CASE CompactOutput
      <4>1. next_file' = next_file + 1 /\ logfile_number' = logfile_number
        BY <3>3 DEF CompactOutput
      <4> QED  BY <2>1, <2>num, <4>1
    <3>4. CASE UNCHANGED <<logfile_number, next_file>>
      BY <2>1, <2>num, <3>4
    <3> QED  BY <1>run, LiveChanges, <3>1, <3>2, <3>3, <3>4
  <2>num2. next_file' \in Nat /\ logfile_number' \in Nat
    BY DEF Types, NumberType
  <2>6. log_number' <= logfile_number' /\ todo' = {}
    <3>1. CASE ApplyInstall
      <4>1. log_number' = edit.log /\ logfile_number' = logfile_number /\ Edited
        BY <3>1 DEF ApplyInstall, Edited
      <4> QED  BY <1>run, <2>1, <4>1, LiveChanges DEF BackgroundOK
    <3>2. CASE log_number' = log_number
      <4>1. todo' = {}
        BY <1>run, <2>1, LiveChanges
      <4> QED  BY <2>1, <2>5, <2>num, <2>num2, <3>2, <4>1
    <3> QED  BY <1>run, <2>1, <3>1, <3>2, LiveChanges
  <2>7. OnDisk(version)' /\ inputs' \subseteq version'
    <3>1. CASE version' = version
      <4>1. OnDisk(version)'
        BY <3>1, UsedOnDisk, TablesKept DEF OnDisk, Used
      <4>2. CASE CompactStart
        BY <2>1, <3>1, <4>1, <4>2 DEF CompactStart
      <4>3. CASE CompactBuilt
        BY <2>1, <3>1, <4>1, <4>3 DEF CompactBuilt
      <4>4. CASE ApplyAdd \/ ApplySync
        BY <2>1, <3>1, <4>1, <4>4 DEF ApplyAdd, ApplySync, ApplyFailed
      <4>5. CASE ApplyInstall
        BY <2>1, <3>1, <4>1, <4>5 DEF ApplyInstall
      <4> QED  BY <1>run, <2>1, <3>1, <4>1, <4>2, <4>3, <4>4, <4>5, LiveChanges
    <3>2. CASE ApplyInstall
      <4>1. version' = (version \ edit.del) \cup edit.add /\ Edited
            /\ (inputs' = {} \/ (inputs' = inputs /\ edit.del = {}))
        BY <3>2 DEF ApplyInstall, Edited
      <4>2. version' \subseteq Used
        BY <4>1 DEF Used
      <4>3. OnDisk(version)'
        BY <4>2, UsedOnDisk, TablesKept DEF OnDisk
      <4> QED  BY <2>1, <4>1, <4>3
    <3> QED  BY <1>run, <3>1, <3>2, LiveChanges
  <2>8. \A t \in version' \cup pending' : t < next_file'
    <3>1. \A t \in version \cup pending : t < next_file'
      <4>1. version \cup pending \subseteq Nat
        BY DEF Types, NumberType
      <4> QED  BY <2>1, <2>5, <2>num, <2>num2, <4>1
    <3>2. CASE ApplyInstall
      <4>1. version' \subseteq version \cup edit.add /\ pending' \subseteq pending /\ next_file' = next_file
        BY <3>2 DEF ApplyInstall
      <4>2. \A t \in edit.add : t < edit.next /\ edit.next <= next_file
        BY <1>run, <3>2 DEF BackgroundOK, Edited, ApplyInstall
      <4>3. edit.next \in Nat /\ edit.add \subseteq Nat
        BY DEF Types, ControlType, Edit
      <4>4. \A t \in edit.add : t < next_file'
        BY <2>num, <4>1, <4>2, <4>3
      <4> QED  BY <3>1, <4>1, <4>4
    <3>3. CASE FlushStart
      <4>1. pending' = pending \cup {next_file} /\ version' = version /\ next_file' = next_file + 1
        BY <3>3 DEF FlushStart
      <4> QED  BY <2>num, <3>1, <4>1
    <3>4. CASE CompactOutput
      <4>1. pending' = {next_file} /\ version' = version /\ next_file' = next_file + 1
        BY <3>4 DEF CompactOutput
      <4> QED  BY <2>num, <3>1, <4>1
    <3>5. CASE version' = version /\ pending' \subseteq pending
      BY <3>1, <3>5
    <3>6. CASE FlushBuilt
      BY <3>5, <3>6 DEF FlushBuilt
    <3>7. CASE CompactBuilt
      BY <3>5, <3>7 DEF CompactBuilt
    <3>8. CASE ApplyAdd \/ ApplySync
      BY <3>5, <3>8 DEF ApplyAdd, ApplySync, ApplyFailed
    <3> QED  BY <1>run, <3>2, <3>3, <3>4, <3>5, <3>6, <3>7, <3>8, LiveChanges
  <2>9. /\ (Named.durable)' > 0
        /\ \A i \in (DOMAIN Records)' : Records'[i] # Torn =>
             Records'[i].next <= next_file' /\ Records'[i].log <= logfile_number'
    <3>1. ASSUME NEW i \in DOMAIN Records, Records[i] # Torn
          PROVE  Records[i].next <= next_file' /\ Records[i].log <= logfile_number'
      <4>1. Records[i].next \in Nat /\ Records[i].log \in Nat
        BY <2>1, <3>1, NamedType DEF Edit
      <4>2. Records[i].next <= next_file /\ Records[i].log <= logfile_number
        BY <2>1, <3>1
      <4> QED  BY <2>5, <2>num, <2>num2, <4>1, <4>2
    <3>2. CASE Named' = Named
      BY <2>1, <3>1, <3>2 DEF Records
    <3>3. CASE ApplyAdd /\ Named' # Named
      <4>1. PICK r \in {edit, Torn} : Records' = Append(Records, r) /\ (Named.durable)' = Named.durable
        BY <3>3, NamedAppended
      <4>2. Records \in Seq(Edit \cup {Torn}) /\ Len(Records) \in Nat /\ DOMAIN Records = 1..Len(Records)
        BY <2>1, NamedType
      <4>3. Records' = Append(Records, r) /\ r \in Edit \cup {Torn}
        BY <4>1 DEF Types, ControlType
      <4>4. (DOMAIN Records)' = 1..(Len(Records) + 1) /\ Records'[Len(Records) + 1] = r
            /\ \A i \in 1..Len(Records) : Records'[i] = Records[i]
        BY <4>2, <4>3, AppendProperties
      <4>5. edit.next <= next_file /\ edit.log <= logfile_number /\ edit.next \in Nat /\ edit.log \in Nat
        BY <1>run, <3>3, NamedAppended DEF BackgroundOK, Types, ControlType, Edit
      <4>6. edit.next <= next_file' /\ edit.log <= logfile_number'
        BY <2>5, <2>num, <2>num2, <4>5
      <4>7. ASSUME NEW i \in 1..(Len(Records) + 1), Records'[i] # Torn
            PROVE  Records'[i].next <= next_file' /\ Records'[i].log <= logfile_number'
        <5>1. CASE i \in 1..Len(Records)
          BY <3>1, <4>2, <4>4, <4>7, <5>1
        <5>2. CASE i = Len(Records) + 1
          <6>1. Records'[i] = edit
            BY <4>1, <4>4, <4>7, <5>2
          <6> QED  BY <4>6, <6>1
        <5> QED  BY <4>2, <5>1, <5>2
      <4> QED  BY <2>1, <4>1, <4>4, <4>7
    <3>4. CASE ApplySync /\ Named' # Named
      <4>1. Records' = Records /\ (Named.durable)' = Len(Records)
        BY <3>4, NamedSynced
      <4>2. Len(Records) > 0
        <5>1. Whole(Records) > 0
          BY <2>1 DEF ManifestOK
        <5> QED  BY <2>1, <5>1, NamedType
      <4> QED  BY <3>1, <4>1, <4>2
    <3> QED  BY <1>run, <2>1, <2>closed, <3>2, <3>3, <3>4, NamedSame
  <2>10. phase' = "cleanup" =>
         /\ bgpc' = "idle" /\ ~bg_error' /\ mem' = {} /\ imm' = {} /\ writing' = <<>>
         /\ log'[logfile_number'] = EmptyFile /\ edit' = NoEdit /\ inputs' = {} /\ pending' = {}
    <3>1. SUFFICES ASSUME phase' = "cleanup"
          PROVE  /\ bgpc' = "idle" /\ ~bg_error' /\ mem' = {} /\ imm' = {} /\ writing' = <<>>
                 /\ log'[logfile_number'] = EmptyFile /\ edit' = NoEdit /\ inputs' = {} /\ pending' = {}
      OBVIOUS
    <3>2. phase = "cleanup"
      BY <1>run, <3>1 DEF OpenDone
    <3>3. DeleteObsoleteFile \/ Idles
      <4>1. ~OpenDone /\ ~SyncLog /\ ~FinishWrite /\ ~Switch /\ ~FlushStart /\ ~FlushBuilt /\ ~CompactStart
            /\ ~CompactOutput /\ ~CompactBuilt
        BY <3>1, <3>2 DEF OpenDone, SyncLog, FinishWrite, Switch, FlushStart, FlushBuilt, CompactStart,
                          CompactOutput, CompactBuilt, Running, Unlocked
      <4>2. ~ApplyAdd /\ ~ApplySync /\ ~ApplyInstall /\ ~CleanupDone
            /\ ~\E b \in Batch, sync \in BOOLEAN : AddRecord(b, sync)
        BY <3>1, <3>2 DEF AddRecord, Unlocked, ApplyAdd, ApplySync, ApplyInstall, CleanupDone, Running
      <4> QED  BY <1>run, <4>1, <4>2, LiveSteps
    <3>4. UNCHANGED <<bgpc, bg_error, mem, imm, writing, logfile_number, edit, inputs, pending>>
      BY <3>3 DEF DeleteObsoleteFile, Idles, memory
    <3>5. log'[logfile_number] = log[logfile_number]
      <4>1. CASE Idles
        BY <4>1 DEF Idles, disk
      <4>2. CASE DeleteObsoleteFile
        <5>1. log' = log \/ \E n \in DOMAIN log : log' = Remove(log, n)
          BY <4>2 DEF DeleteObsoleteFile
        <5>2. logfile_number \in DOMAIN log'
          BY <2>4, <3>4
        <5> QED  BY <2>1, <5>1, <5>2 DEF Remove
      <4> QED  BY <3>3, <4>1, <4>2
    <3> QED  BY <3>2, <3>4, <3>5 DEF LiveOK, Live
  <2>11. current' < next_file'
    BY <2>1, <2>2, <2>5, <2>num, <2>num2
  <2> QED
    BY <2>2, <2>4, <2>5, <2>6, <2>7, <2>8, <2>9, <2>10, <2>11 DEF LiveOK
<1> QED  BY LiveSteps, <1>NewCurrent, <1>run

\* A running database adds only its edit to the manifest.
LEMMA RecordsKept ==
  ASSUME Types, BlankOK, ManifestOK, OpeningOK, LiveOK, [Next]_vars, Live', ~NewCurrent
  PROVE  /\ Live /\ current # 0 /\ current' = current
         /\ \A i \in (DOMAIN Records)' : Records'[i] # Torn =>
              \/ i \in DOMAIN Records /\ Records'[i] = Records[i]
              \/ ApplyAdd /\ Records'[i] = edit
<1>1. Live
  BY LiveSteps
<1>2. current # 0 /\ current' = current /\ ~PowerLoss
  BY <1>1, LiveChanges DEF LiveOK, PowerLoss, Live
<1>3. CASE Named' = Named
  BY <1>1, <1>2, <1>3 DEF Records
<1>4. CASE ApplyAdd /\ Named' # Named
  <2>1. PICK r \in {edit, Torn} : Records' = Append(Records, r) /\ (Named.durable)' = Named.durable
    BY <1>4, NamedAppended
  <2>2. Records \in Seq(Edit \cup {Torn}) /\ Len(Records) \in Nat /\ DOMAIN Records = 1..Len(Records)
    BY <1>2, NamedType
  <2>3. r \in Edit \cup {Torn}
    BY <2>1 DEF Types, ControlType
  <2>4. (DOMAIN Records)' = 1..(Len(Records) + 1) /\ Records'[Len(Records) + 1] = r
        /\ \A i \in 1..Len(Records) : Records'[i] = Records[i]
    BY <2>1, <2>2, <2>3, AppendProperties
  <2>5. ASSUME NEW i \in 1..(Len(Records) + 1), Records'[i] # Torn
        PROVE  (i \in DOMAIN Records /\ Records'[i] = Records[i]) \/ Records'[i] = edit
    <3>1. i \in 1..Len(Records) \/ i = Len(Records) + 1
      BY <2>2, <2>5
    <3> QED  BY <2>1, <2>2, <2>4, <2>5, <3>1
  <2> QED  BY <1>1, <1>2, <1>4, <2>4, <2>5
<1>5. CASE ApplySync /\ Named' # Named
  <2>1. Records' = Records
    BY <1>5, NamedSynced
  <2> QED  BY <1>1, <1>2, <2>1
<1> QED  BY <1>2, <1>3, <1>4, <1>5, NamedSame

\* What the background thread is working on.
LEMMA BackgroundStep ==
  ASSUME Types, Types', BlankOK, ManifestOK, OpeningOK, LiveOK, BackgroundOK, SyncedOK, [Next]_vars
  PROVE  BackgroundOK'
<1> SUFFICES ASSUME Live' PROVE BackgroundOK'
  BY DEF BackgroundOK
<1>blank. NoEdit.add = {} /\ NoEdit.del = {}
  BY DEF NoEdit
<1>NewCurrent. CASE NewCurrent
  <2>1. phase = "current" /\ edit' = NoEdit /\ UNCHANGED <<bg_error, bgpc, inputs, pending>>
    BY <1>NewCurrent DEF NewCurrent, OpenCurrent
  <2>2. inputs' = {} /\ pending' = {} /\ bgpc' = "idle" /\ ~bg_error'
    BY <2>1 DEF BlankOK
  <2> QED  BY <1>blank, <2>1, <2>2 DEF BackgroundOK, Edited
<1>run. CASE Live /\ (phase' = phase \/ OpenDone) /\ ~NewCurrent
  <2>1. /\ pending \subseteq DOMAIN table /\ (inputs = {} => pending \subseteq edit.add)
        /\ bgpc = "idle" => inputs = {} /\ pending = {} /\ edit = NoEdit
        /\ bgpc = "compact" => inputs # {} /\ edit = NoEdit
        /\ bgpc = "cleanup" => edit = NoEdit /\ ~bg_error
        /\ bgpc = "build" => edit.add \subseteq pending /\ edit.del = {} /\ imm # {} /\ edit.add # {}
        /\ edit.del = {} => \A x \in pending : Unused(x)
    BY <1>run DEF BackgroundOK
  <2>e. Edited =>
         /\ OnDisk(edit.add)
         /\ edit.next <= next_file /\ \A t \in edit.add : t < edit.next
         /\ \A i \in DOMAIN Records : Records[i] # Torn => Records[i].next <= edit.next
         /\ current < edit.next
         /\ edit.log < edit.next /\ edit.log <= logfile_number /\ log_number <= edit.log
         /\ edit.del = {} => /\ edit.log = logfile_number /\ TableEntries(edit.add) = imm
                             /\ imm # {} /\ edit.add \cap pending = {}
         /\ edit.del # {} => /\ edit.del = inputs /\ edit.log = log_number
                             /\ TableEntries(edit.add) = TableEntries(inputs)
    BY <1>run DEF BackgroundOK
  <2>2. /\ OnDisk(version) /\ \A t \in version \cup pending : t < next_file
        /\ inputs \subseteq version /\ current < next_file /\ current # 0
        /\ logfile_number < next_file /\ log_number <= logfile_number
        /\ \A i \in DOMAIN Records : Records[i] # Torn => Records[i].next <= next_file
    BY <1>run DEF LiveOK
  <2>num. /\ next_file \in Nat /\ logfile_number \in Nat /\ log_number \in Nat /\ current \in Nat
          /\ version \subseteq Nat /\ pending \subseteq Nat /\ last_sequence \in Nat /\ inputs \subseteq Nat
          /\ edit \in Edit /\ bgpc \in BGPC
    BY DEF Types, NumberType, ControlType
  <2>recs. /\ current # 0 /\ current' = current
           /\ \A i \in (DOMAIN Records)' : Records'[i] # Torn =>
                (i \in DOMAIN Records /\ Records'[i] = Records[i]) \/ (ApplyAdd /\ Records'[i] = edit)
    BY <1>run, RecordsKept
  <2>p. inputs = {} /\ edit.add \cap pending = {} => pending = {}
    BY <2>1
  <2>q. Edited /\ edit.del = {} => edit.add \cap pending = {}
    BY <2>e
  <2>failed. ASSUME ApplyFailed, Edited
             PROVE  /\ edit' = NoEdit /\ bg_error'
                    /\ \/ bgpc' = "idle" /\ inputs' = {} /\ pending' = {}
                       \/ bgpc' = "compact" /\ inputs' # {}
                    /\ pending' = {} \/ (pending' = pending /\ inputs' = inputs /\ edit.del = {})
    <3>1. CASE edit.del # {}
      BY <2>failed, <3>1 DEF ApplyFailed
    <3>2. CASE edit.del = {}
      <4>1. edit' = NoEdit /\ bg_error' /\ bgpc' = Resume /\ inputs' = inputs /\ pending' = pending
        BY <2>failed, <3>2 DEF ApplyFailed
      <4>2. inputs = {} => pending = {}
        BY <2>failed, <2>p, <2>q, <3>2
      <4> QED  BY <3>2, <4>1, <4>2 DEF Resume
    <3> QED  BY <3>1, <3>2
  <2>resume. Resume \in {"idle", "compact"} /\ (Resume = "idle" <=> inputs = {})
    BY DEF Resume
  <2>apply. ASSUME ApplyAdd \/ ApplySync
            PROVE  /\ Edited /\ (ApplyFailed \/ (Edited' /\ UNCHANGED <<bg_error, edit, inputs, pending>>))
                   /\ UNCHANGED <<imm, logfile_number, log_number, next_file, version, table>>
    <3>1. CASE ApplyAdd
      <4>1. Edited /\ (ApplyFailed \/ (bgpc' = "sync" /\ UNCHANGED <<bg_error, edit, inputs, pending>>))
        BY <3>1 DEF ApplyAdd, Edited
      <4>2. UNCHANGED <<imm, logfile_number, log_number, next_file, version, table>>
        BY <3>1 DEF ApplyAdd
      <4> QED  BY <4>1, <4>2 DEF Edited
    <3>2. CASE ApplySync
      <4>1. Edited /\ (ApplyFailed \/ (bgpc' = "install" /\ UNCHANGED <<bg_error, edit, inputs, pending>>))
        BY <3>2 DEF ApplySync, Edited
      <4>2. UNCHANGED <<imm, logfile_number, log_number, next_file, version, table>>
        BY <3>2 DEF ApplySync
      <4> QED  BY <4>1, <4>2 DEF Edited
    <3> QED  BY <2>apply, <3>1, <3>2
  <2>3. pending' \subseteq DOMAIN table' /\ (inputs' = {} => pending' \subseteq edit'.add)
    <3>1. CASE DeleteObsoleteFile
      <4>1. table' = table \/ \E n \in DOMAIN table : n \notin pending /\ table' = Remove(table, n)
        BY <3>1 DEF DeleteObsoleteFile, KeepTable
      <4>2. UNCHANGED <<edit, inputs, pending>>
        BY <3>1 DEF DeleteObsoleteFile, memory
      <4> QED  BY <2>1, <4>1, <4>2 DEF Remove
    <3>2. CASE FlushStart
      <4>1. /\ table' = Create(table, next_file, Garbage) /\ pending' = pending \cup {next_file}
            /\ inputs' = inputs /\ edit' = [NoEdit EXCEPT !.add = {next_file}]
            /\ bgpc = "idle" \/ bgpc = "compact"
        BY <3>2 DEF FlushStart
      <4>2. edit'.add = {next_file} /\ (inputs = {} => pending = {})
        BY <2>1, <4>1 DEF NoEdit
      <4> QED  BY <2>1, <4>1, <4>2 DEF Create
    <3>3. CASE FlushBuilt
      <4>1. /\ pending' = pending \ edit.add /\ inputs' = inputs
            /\ \/ table' = [t \in DOMAIN table |-> IF t \in edit.add THEN imm ELSE table[t]]
               \/ table' = [t \in DOMAIN table \ edit.add |-> table[t]]
        BY <3>3 DEF FlushBuilt
      <4> QED  BY <2>1, <4>1
    <3>4. CASE CompactStart
      <4>1. table' = table /\ pending' = pending /\ edit' = edit /\ pending = {}
        BY <2>1, <3>4 DEF CompactStart, disk
      <4> QED  BY <2>1, <4>1
    <3>5. CASE CompactOutput
      <4>1. table' = Create(table, next_file, Garbage) /\ pending' = {next_file} /\ inputs' # {}
        BY <2>1, <3>5 DEF CompactOutput
      <4> QED  BY <2>1, <4>1 DEF Create
    <3>6. CASE CompactBuilt
      <4>1. \/ /\ table' = [t \in DOMAIN table |-> IF t \in pending THEN TableEntries(inputs) ELSE table[t]]
               /\ pending' = pending /\ inputs' = inputs /\ inputs # {}
            \/ pending' = {}
        BY <2>1, <3>6 DEF CompactBuilt
      <4> QED  BY <2>1, <4>1
    <3>7. CASE ApplyAdd \/ ApplySync
      <4>1. ApplyFailed => pending' \subseteq pending /\ (inputs' = {} => pending' = {})
        BY <2>1, <2>apply, <2>failed, <3>7
      <4> QED  BY <2>1, <2>apply, <3>7, <4>1
    <3>8. CASE ApplyInstall
      <4>1. table' = table /\ (pending' = {} \/ (pending' = pending /\ inputs' = inputs /\ edit.del = {})) /\ Edited
        BY <3>8 DEF ApplyInstall, disk, Edited
      <4>2. edit.del = {} /\ inputs = {} => pending = {}
        BY <2>p, <2>q, <4>1
      <4> QED  BY <2>1, <4>1, <4>2
    <3>9. CASE UNCHANGED <<table, pending, edit, inputs>>
      BY <2>1, <3>9
    <3> QED
      BY <1>run, LiveChanges, <3>1, <3>2, <3>3, <3>4, <3>5, <3>6, <3>7, <3>8, <3>9
  <2>4. /\ bgpc' = "idle" => inputs' = {} /\ pending' = {} /\ edit' = NoEdit
        /\ bgpc' = "compact" => inputs' # {} /\ edit' = NoEdit
        /\ bgpc' = "cleanup" => edit' = NoEdit /\ ~bg_error'
        /\ bgpc' = "build" => edit'.add \subseteq pending' /\ edit'.del = {} /\ imm' # {} /\ edit'.add # {}
    <3>2. CASE FlushStart
      <4>1. /\ pending' = pending \cup {next_file} /\ bgpc' = "build" /\ imm' = imm /\ imm # {}
            /\ edit' = [NoEdit EXCEPT !.add = {next_file}]
        BY <3>2 DEF FlushStart
      <4>2. edit'.add = {next_file} /\ edit'.del = {}
        BY <4>1 DEF NoEdit
      <4> QED  BY <4>1, <4>2
    <3>3. CASE FlushBuilt
      <4>1. /\ pending' = pending \ edit.add /\ inputs' = inputs /\ bgpc = "build"
            /\ bgpc' = "add" \/ (bgpc' = Resume /\ edit' = NoEdit)
        BY <3>3 DEF FlushBuilt
      <4> QED  BY <2>1, <2>resume, <4>1
    <3>4. CASE CompactStart
      <4>1. pending' = pending /\ edit' = edit /\ edit = NoEdit /\ bgpc' = "compact" /\ inputs' # {}
        BY <2>1, <3>4 DEF CompactStart
      <4> QED  BY <4>1
    <3>5. CASE CompactOutput
      <4>1. bgpc' = "compact" /\ inputs' = inputs /\ edit' = edit /\ bgpc = "compact"
        BY <3>5 DEF CompactOutput
      <4> QED  BY <2>1, <4>1
    <3>6. CASE CompactBuilt
      <4>1. \/ bgpc' = "add"
            \/ bgpc' = "idle" /\ inputs' = {} /\ pending' = {} /\ edit' = edit /\ bgpc = "compact"
        BY <3>6 DEF CompactBuilt
      <4> QED  BY <2>1, <4>1
    <3>7. CASE ApplyAdd \/ ApplySync
      <4>1. Edited' => bgpc' # "idle" /\ bgpc' # "compact" /\ bgpc' # "cleanup" /\ bgpc' # "build"
        BY DEF Edited
      <4> QED  BY <2>1, <2>apply, <2>failed, <3>7, <4>1
    <3>8. CASE ApplyInstall
      <4>1. /\ edit' = NoEdit /\ bg_error' = bg_error /\ Edited
            /\ bgpc' = IF ~bg_error THEN "cleanup" ELSE IF inputs' = {} THEN "idle" ELSE "compact"
            /\ pending' = {} \/ (pending' = pending /\ inputs' = inputs /\ edit.del = {})
        BY <3>8 DEF ApplyInstall, Edited
      <4>2. edit.del = {} /\ inputs = {} => pending = {}
        BY <2>p, <2>q, <4>1
      <4> QED  BY <4>1, <4>2
    <3>9. CASE CleanupDone
      <4>1. bgpc = "cleanup" /\ bgpc' = Resume /\ UNCHANGED <<inputs, pending, edit>>
        BY <3>9 DEF CleanupDone
      <4> QED  BY <2>1, <2>resume, <4>1, <1>blank
    <3>10. CASE SyncLog
      <4>1. /\ UNCHANGED <<bgpc, inputs, pending, edit, imm>>
            /\ bgpc # "cleanup" \/ bg_error' = bg_error
        BY <3>10 DEF SyncLog, Unlocked
      <4> QED  BY <2>1, <4>1
    <3>11. CASE UNCHANGED <<bgpc, inputs, pending, edit, bg_error>> /\ (imm' = imm \/ Switch)
      <4>1. Switch => imm = {}
        BY DEF Switch
      <4> QED  BY <2>1, <3>11, <4>1
    <3> QED
      BY <1>run, LiveChanges, <3>2, <3>3, <3>4, <3>5, <3>6, <3>7, <3>8, <3>9, <3>10, <3>11
  <2>5. edit'.del = {} => \A x \in pending' : Unused(x)'
    <3>0. ASSUME NEW x, x \notin version', x \notin edit.add,
                 \A i \in DOMAIN Records : Records[i] # Torn => x \notin Records[i].add
          PROVE  Unused(x)'
      BY <2>recs, <3>0 DEF Unused
    <3>1. ASSUME NEW x \in pending, edit.del = {}, x \notin edit.add \/ ~ApplyAdd, version' = version
          PROVE  Unused(x)'
      BY <2>1, <2>recs, <3>1 DEF Unused
    <3>new. ASSUME ~ApplyAdd, version' = version, NEW n, n = next_file PROVE  Unused(n)'
      <4>1. n \notin version /\ n \in Nat
        <5>1. next_file \notin version
          <6>1. ~(next_file < next_file)
            BY <2>num
          <6> QED  BY <2>2, <6>1
        <5> QED  BY <2>num, <3>new, <5>1
      <4>2. ASSUME NEW i \in DOMAIN Records, Records[i] # Torn PROVE n \notin Records[i].add
        <5>1. Records[i] \in Edit /\ Records[i].next \in Nat
          BY <2>2, <4>2, NamedType DEF Edit
        <5>2. Records[i].next <= next_file /\ \A t \in Records[i].add : t < Records[i].next
          BY <2>2, <4>2 DEF ManifestOK
        <5>3. ~(n < Records[i].next)
          BY <2>num, <3>new, <5>1, <5>2
        <5> QED  BY <5>2, <5>3
      <4> QED  BY <2>recs, <3>new, <4>1, <4>2 DEF Unused
    <3>2. CASE FlushStart
      <4>1. /\ pending' = pending \cup {next_file} /\ version' = version
            /\ bgpc = "idle" \/ bgpc = "compact"
        BY <3>2 DEF FlushStart
      <4>2. ~ApplyAdd
        BY <4>1 DEF ApplyAdd
      <4>3. edit.del = {}
        BY <2>1, <4>1, <1>blank
      <4> QED  BY <3>1, <3>new, <4>1, <4>2, <4>3
    <3>3. CASE FlushBuilt
      <4>1. pending' = pending \ edit.add /\ version' = version /\ bgpc = "build"
        BY <3>3 DEF FlushBuilt
      <4> QED  BY <2>1, <3>1, <4>1 DEF ApplyAdd
    <3>4. CASE CompactStart
      <4>1. pending' = pending /\ pending = {}
        BY <2>1, <3>4 DEF CompactStart
      <4> QED  BY <4>1
    <3>5. CASE CompactOutput
      <4>1. pending' = {next_file} /\ version' = version /\ bgpc = "compact"
        BY <3>5 DEF CompactOutput
      <4>2. ~ApplyAdd
        BY <4>1 DEF ApplyAdd
      <4> QED  BY <3>new, <4>1, <4>2
    <3>6. CASE CompactBuilt
      <4>1. \/ edit' = [log |-> log_number, next |-> next_file, last |-> last_sequence,
                        add |-> pending, del |-> inputs]
            \/ pending' = {}
        BY <3>6 DEF CompactBuilt
      <4>2. inputs # {}
        BY <2>1, <3>6 DEF CompactBuilt
      <4> QED  BY <4>1, <4>2
    <3>7. CASE ApplyAdd \/ ApplySync
      <4>1. ASSUME NEW x \in pending, edit.del = {} PROVE Unused(x)'
        BY <2>apply, <2>q, <3>1, <3>7, <4>1
      <4> QED  BY <2>apply, <2>failed, <3>7, <4>1
    <3>8. CASE ApplyInstall
      <4>1. /\ version' = (version \ edit.del) \cup edit.add /\ Edited /\ bgpc = "install"
            /\ pending' = {} \/ (pending' = pending /\ edit.del = {})
        BY <3>8 DEF ApplyInstall, Edited
      <4>2. ASSUME NEW x \in pending, edit.del = {} PROVE Unused(x)'
        <5>1. x \notin edit.add /\ Unused(x)
          BY <2>1, <2>q, <4>1, <4>2
        <5> QED  BY <3>0, <4>1, <5>1 DEF Unused
      <4> QED  BY <4>1, <4>2
    <3>9. CASE UNCHANGED <<version, pending, edit>> /\ ~ApplyAdd
      BY <3>1, <3>9
    <3> QED
      BY <1>run, LiveChanges, <3>2, <3>3, <3>4, <3>5, <3>6, <3>7, <3>8, <3>9
  <2>6. Edited' =>
         /\ OnDisk(edit.add)'
         /\ edit'.next <= next_file' /\ \A t \in edit'.add : t < edit'.next
         /\ \A i \in (DOMAIN Records)' : Records'[i] # Torn => Records'[i].next <= edit'.next
         /\ current' < edit'.next
         /\ edit'.log < edit'.next /\ edit'.log <= logfile_number' /\ log_number' <= edit'.log
         /\ edit'.del = {} => /\ edit'.log = logfile_number' /\ TableEntries(edit.add)' = imm'
                              /\ imm' # {} /\ edit'.add \cap pending' = {}
         /\ edit'.del # {} => /\ edit'.del = inputs' /\ edit'.log = log_number'
                              /\ TableEntries(edit.add)' = TableEntries(inputs)'
    <3>whole. \A es : es \subseteq Entry => es # Garbage
      BY ConstantsAssumption DEF Garbage
    <3>in. /\ TableEntries(edit.add)' = EntriesIn(table', edit'.add)
           /\ TableEntries(inputs)' = EntriesIn(table', inputs')
           /\ TableEntries(edit.add) = EntriesIn(table, edit.add)
           /\ TableEntries(inputs) = EntriesIn(table, inputs)
      BY DEF TableEntries, EntriesIn
    <3>inputs. EntriesIn(table', inputs) = EntriesIn(table, inputs)
      <4>1. \A t \in inputs : t \in DOMAIN table /\ t \in DOMAIN table' /\ table'[t] = table[t]
        BY <2>2, TablesKept DEF Used
      <4> DEFINE a == table
                 b == table'
      <4>2. \A t \in inputs : t \in DOMAIN a /\ t \in DOMAIN b /\ b[t] = a[t]
        BY <4>1
      <4> HIDE DEF a, b
      <4>3. EntriesIn(b, inputs) = EntriesIn(a, inputs)
        BY <4>2, EntriesSame
      <4> QED  BY <4>3 DEF a, b
    <3>next. next_file \in Nat /\ next_file' \in Nat /\ logfile_number' \in Nat
      BY DEF Types, NumberType
    <3>2. CASE FlushBuilt /\ Edited'
      <4>1. /\ bgpc = "build" /\ pending' = pending \ edit.add
            /\ UNCHANGED <<current, imm, logfile_number, log_number, next_file, manifest, inputs>>
            /\ \/ /\ table' = [t \in DOMAIN table |-> IF t \in edit.add THEN imm ELSE table[t]]
                  /\ edit' = [edit EXCEPT !.log = logfile_number, !.next = next_file, !.last = last_sequence]
               \/ bgpc' = Resume
        BY <3>2 DEF FlushBuilt, FlushedLogNumber
      <4>2. bgpc' # Resume
        BY <2>resume, <3>2 DEF Edited
      <4>3. edit'.log = logfile_number /\ edit'.next = next_file /\ edit'.add = edit.add /\ edit'.del = edit.del
        BY <2>num, <4>1, <4>2 DEF Edit
      <4>4. edit.add \subseteq DOMAIN table /\ edit.add \subseteq pending /\ edit.del = {} /\ imm # {} /\ edit.add # {}
        BY <2>1, <4>1
      <4>5. imm # Garbage
        BY <3>whole DEF Types, DataType
      <4>6. \A t \in edit.add : t \in DOMAIN table' /\ table'[t] = imm
        BY <4>1, <4>2, <4>4
      <4>7. EntriesIn(table', edit.add) = imm
        BY <4>4, <4>5, <4>6 DEF EntriesIn
      <4>8. OnDisk(edit.add)'
        BY <4>3, <4>5, <4>6 DEF OnDisk
      <4>9. next_file <= next_file /\ logfile_number <= logfile_number
        BY <2>num
      <4>10. \A i \in (DOMAIN Records)' : Records'[i] # Torn => Records'[i].next <= next_file
        BY <2>2, <2>recs, <4>1 DEF ApplyAdd
      <4>11. edit'.add \cap pending' = {}
        BY <4>1, <4>3
      <4>12. TableEntries(edit.add)' = imm'
        BY <3>in, <4>1, <4>3, <4>7
      <4> QED  BY <2>2, <4>1, <4>3, <4>4, <4>8, <4>9, <4>10, <4>11, <4>12
    <3>3. CASE CompactBuilt /\ Edited'
      <4>1. /\ bgpc = "compact"
            /\ UNCHANGED <<current, imm, logfile_number, log_number, next_file, manifest, inputs, pending>>
            /\ table' = [t \in DOMAIN table |-> IF t \in pending THEN TableEntries(inputs) ELSE table[t]]
            /\ edit' = [log |-> log_number, next |-> next_file, last |-> last_sequence,
                        add |-> pending, del |-> inputs]
            /\ pending # {}
        BY <3>3 DEF CompactBuilt, Edited
      <4>3. edit'.log = log_number /\ edit'.next = next_file /\ edit'.add = pending /\ edit'.del = inputs
        BY <4>1
      <4>4. inputs # {} /\ pending \subseteq DOMAIN table
        BY <2>1, <4>1
      <4>5. TableEntries(inputs) # Garbage
        BY <3>whole, TableEntriesType DEF Types
      <4>6. \A t \in pending : t \in DOMAIN table' /\ table'[t] = TableEntries(inputs)
        BY <4>1, <4>4
      <4>7. EntriesIn(table', pending) = TableEntries(inputs)
        BY <4>1, <4>5, <4>6 DEF EntriesIn
      <4>8. OnDisk(edit.add)'
        BY <4>3, <4>5, <4>6 DEF OnDisk
      <4>9. next_file <= next_file /\ log_number < next_file /\ log_number <= log_number
        BY <2>2, <2>num
      <4>10. \A i \in (DOMAIN Records)' : Records'[i] # Torn => Records'[i].next <= next_file
        BY <2>2, <2>recs, <4>1 DEF ApplyAdd
      <4>11. TableEntries(edit.add)' = TableEntries(inputs)'
        BY <3>in, <3>inputs, <4>1, <4>3, <4>7
      <4>12. current' < edit'.next /\ \A t \in edit'.add : t < edit'.next
        BY <2>2, <4>1, <4>3
      <4> QED  BY <2>2, <4>1, <4>3, <4>4, <4>8, <4>9, <4>10, <4>11, <4>12
    <3>4. CASE Edited /\ Edited' /\ UNCHANGED <<edit, inputs, pending, log_number, version>>
               /\ ((imm' = imm /\ logfile_number' = logfile_number) \/ Switch)
      <4>1. OnDisk(edit.add)' /\ EntriesIn(table', edit.add) = EntriesIn(table, edit.add)
        <5>1. \A t \in edit.add : t \in DOMAIN table /\ t \in DOMAIN table' /\ table'[t] = table[t]
          BY <3>4, TablesKept DEF Used
        <5> DEFINE a == table
                   b == table'
                   ts == edit.add
        <5>2. \A t \in ts : t \in DOMAIN a /\ t \in DOMAIN b /\ b[t] = a[t]
          BY <5>1
        <5> HIDE DEF a, b, ts
        <5>3. EntriesIn(b, ts) = EntriesIn(a, ts)
          BY <5>2, EntriesSame
        <5>4. OnDisk(edit.add)'
          BY <2>e, <3>4, <5>1 DEF OnDisk
        <5> QED  BY <5>3, <5>4 DEF a, b, ts
      <4>2. edit.next \in Nat /\ edit.log \in Nat
        BY <2>num DEF Edit
      <4>3. \A i \in (DOMAIN Records)' : Records'[i] # Torn => Records'[i].next <= edit.next
        <5>1. edit.next <= edit.next
          BY <4>2
        <5> QED  BY <2>e, <2>recs, <3>4, <5>1
      <4>4. next_file <= next_file' /\ logfile_number <= logfile_number'
        <5>1. next_file' = next_file \/ next_file' = next_file + 1
          BY <1>run, LiveChanges DEF Switch, FlushStart, CompactOutput
        <5>2. logfile_number' = logfile_number \/ logfile_number' = next_file
          BY <3>4 DEF Switch
        <5>3. logfile_number < next_file
          BY <2>2
        <5> QED  BY <2>num, <5>1, <5>2, <5>3
      <4>5. edit.next <= next_file' /\ edit.log <= logfile_number'
        <5>1. edit.next <= next_file /\ edit.log <= logfile_number
          BY <2>e, <3>4
        <5> QED  BY <2>num, <3>next, <4>2, <4>4, <5>1
      <4>6. edit.del = {} => imm' = imm /\ logfile_number' = logfile_number
        <5>1. edit.del = {} => imm # {}
          BY <2>e, <3>4
        <5> QED  BY <3>4, <5>1 DEF Switch
      <4>7. /\ edit.del = {} => edit.log = logfile_number /\ TableEntries(edit.add) = imm
                                 /\ imm # {} /\ edit.add \cap pending = {}
            /\ edit.del # {} => edit.del = inputs /\ edit.log = log_number
                                 /\ TableEntries(edit.add) = TableEntries(inputs)
            /\ \A t \in edit.add : t < edit.next
            /\ current < edit.next /\ edit.log < edit.next /\ log_number <= edit.log
        BY <2>e, <3>4
      <4>8. /\ edit'.del = {} => TableEntries(edit.add)' = imm'
            /\ edit'.del # {} => TableEntries(edit.add)' = TableEntries(inputs)'
        BY <3>4, <3>in, <3>inputs, <4>1, <4>6, <4>7
      <4> QED  BY <2>recs, <3>4, <4>1, <4>3, <4>5, <4>6, <4>7, <4>8
    <3>5. CASE ApplyAdd \/ ApplySync
      <4>1. ApplyFailed => ~Edited'
        BY <2>apply, <2>failed, <3>5 DEF Edited
      <4>2. log_number' = log_number /\ version' = version /\ imm' = imm /\ logfile_number' = logfile_number
        BY <2>apply, <3>5
      <4> QED  BY <2>apply, <3>4, <3>5, <4>1, <4>2
    <3>6. CASE ApplyInstall \/ FlushStart \/ CompactStart \/ CleanupDone
      <4>1. ApplyInstall => bgpc' \in {"cleanup", "idle", "compact"}
        BY DEF ApplyInstall
      <4>2. FlushStart => bgpc' = "build"
        BY DEF FlushStart
      <4>3. CompactStart => bgpc' = "compact"
        BY DEF CompactStart
      <4>4. CleanupDone => bgpc' \in {"idle", "compact"}
        BY <2>resume DEF CleanupDone
      <4>5. ~Edited'
        BY <3>6, <4>1, <4>2, <4>3, <4>4 DEF Edited
      <4> QED  BY <4>5
    <3>7. CASE UNCHANGED <<bgpc, edit, inputs, log_number, version>>
               /\ ((imm' = imm /\ logfile_number' = logfile_number) \/ Switch)
               /\ (pending' = pending \/ CompactOutput)
      <4>1. Edited' => Edited
        BY <3>7 DEF Edited
      <4>2. Edited => ~CompactOutput
        BY DEF Edited, CompactOutput
      <4> QED  BY <3>4, <3>7, <4>1, <4>2
    <3> QED
      BY <1>run, LiveChanges, <3>2, <3>3, <3>5, <3>6, <3>7
  <2> QED  BY <2>3, <2>4, <2>5, <2>6 DEF BackgroundOK
<1> QED  BY LiveSteps, <1>NewCurrent, <1>run

\* The manifest and the version.
LEMMA SyncedStep ==
  ASSUME Types, Types', BlankOK, ManifestOK, OpeningOK, LiveOK, BackgroundOK, SyncedOK, [Next]_vars
  PROVE  SyncedOK'
<1> SUFFICES ASSUME Live' PROVE SyncedOK'
  BY DEF SyncedOK
<1> DEFINE n == Len(Records)
           last == Records[n].log
           tables == Tables(Records, n)
           after == (version \ edit.del) \cup edit.add
<1>NewCurrent. CASE NewCurrent
  <2> DEFINE r == [log |-> edit.log, next |-> next_file, last |-> last_sequence,
                   add |-> edit.add \cup version, del |-> {}]
             f == [recs |-> <<r>>, durable |-> 1]
  <2>1. /\ Named' = f /\ r \in Edit /\ version' = version \cup edit.add /\ log_number' = edit.log
    BY <1>NewCurrent, NamedNew
  <2>2. phase = "current" /\ bgpc' = bgpc
    BY <1>NewCurrent DEF NewCurrent, OpenCurrent
  <2>3. bgpc' = "idle"
    BY <2>2 DEF BlankOK
  <2>4. f.recs = <<r>> /\ f.durable = 1 /\ r.log = edit.log /\ r.add = edit.add \cup version
    OBVIOUS
  <2> HIDE DEF r, f
  <2>5. /\ Whole(f.recs) = 1 /\ Len(f.recs) = 1 /\ f.recs[1] = r /\ Tables(f.recs, 1) = r.add
    BY <2>1, <2>4, OneRecord
  <2>6. Records' = f.recs /\ (Named.durable)' = 1
    BY <2>1, <2>4 DEF Records
  <2> QED  BY <2>1, <2>3, <2>4, <2>5, <2>6 DEF SyncedOK, Applying
<1>run. CASE Live /\ (phase' = phase \/ OpenDone) /\ ~NewCurrent
  <2>1. /\ current # 0 /\ Records \in Seq(Edit \cup {Torn}) /\ n \in Nat /\ DOMAIN Records = 1..n
        /\ Whole(Records) \in 1..n /\ Named.durable \in Nat
    <3>1. current # 0 /\ Named.durable > 0
      BY <1>run DEF LiveOK
    <3>2. Whole(Records) > 0
      BY <3>1 DEF ManifestOK
    <3> QED  BY <3>1, <3>2, NamedType
  <2>2. /\ ~bg_error =>
             /\ Whole(Records) = n
             /\ Applying => /\ tables = after /\ last = edit.log
                            /\ bgpc = "sync" => Named.durable = n - 1
                            /\ bgpc = "install" => Named.durable = n
             /\ ~Applying => tables = version /\ last = log_number /\ Named.durable = n
        /\ (bgpc # "idle" /\ Whole(Records) = n) =>
             /\ Applying => after \subseteq tables /\ edit.log <= last
             /\ ~Applying => version \subseteq tables /\ log_number <= last
    BY <1>run DEF SyncedOK
  <2>3. Edited => log_number <= edit.log
    BY <1>run DEF BackgroundOK
  <2>num. log_number \in Nat /\ edit.log \in Nat /\ edit \in Edit
    BY DEF Types, NumberType, ControlType, Edit
  <2>last. Whole(Records) = n => last \in Nat
    <3>1. n \in DOMAIN Records
      BY <2>1
    <3>2. Whole(Records) = n => n \in 1..Whole(Records) /\ Records[n] # Torn
      BY <2>1, NamedType
    <3> QED  BY <2>1, <3>1, <3>2 DEF Edit
  <2>error. bg_error => bg_error'
    BY <1>run, LiveChanges DEF SyncLog, FlushBuilt, CompactBuilt, ApplyAdd, ApplySync, ApplyFailed
  <2> HIDE DEF n, last, tables, after
  <2>add. CASE ApplyAdd /\ Named' # Named
    <3>1. PICK r \in {edit, Torn} :
             /\ r \in Edit \cup {Torn}
             /\ Records' = Append(Records, r) /\ (Named.durable)' = Named.durable
             /\ ApplyFailed \/ (r = edit /\ bgpc' = "sync" /\ UNCHANGED <<bg_error, edit, inputs, pending>>)
      BY <2>add, NamedAppended
    <3>2. bgpc = "add" /\ UNCHANGED <<version, log_number>>
      BY <2>add DEF ApplyAdd
    <3>3. Len(Records') = n + 1 /\ Records'[n + 1] = r
          /\ Tables(Records', n + 1) = (tables \ r.del) \cup r.add
          /\ Whole(Records') = IF Whole(Records) = n /\ r # Torn THEN n + 1 ELSE Whole(Records)
      <4>1. Records \in Seq(Edit \cup {Torn})
        BY <2>1
      <4> QED  BY <3>1, <4>1, AppendProperties, TablesAppend, WholeAppend DEF n, tables
    <3>4. ~Applying /\ Edited /\ log_number <= edit.log
      BY <2>3, <3>2 DEF Applying, Edited
    <3>5. CASE ~ApplyFailed
      <4>1. r = edit /\ bgpc' = "sync" /\ bg_error' = bg_error /\ edit' = edit /\ Applying'
        BY <3>1, <3>5 DEF Applying
      <4>2. edit # Torn /\ edit.log <= edit.log
        BY <2>num, ConstantsAssumption
      <4>3. ~bg_error => Whole(Records') = n + 1 /\ tables = version /\ Named.durable = (n + 1) - 1
        BY <2>1, <2>2, <3>3, <3>4, <4>1, <4>2
      <4>4. Whole(Records') = n + 1 => version \subseteq tables
        BY <2>1, <2>2, <3>2, <3>3, <3>4, <4>1, <4>2
      <4> QED  BY <3>1, <3>2, <3>3, <4>1, <4>2, <4>3, <4>4 DEF SyncedOK
    <3>6. CASE ApplyFailed
      <4>1. bg_error' /\ (bgpc' = "idle" \/ (edit.del = {} /\ bgpc' = "compact"))
        BY <3>6 DEF ApplyFailed, Resume
      <4>2. ~Applying' /\ ~(n + 1 <= n)
        BY <2>1, <4>1 DEF Applying
      <4>3. Whole(Records') = n + 1 => Whole(Records) = n /\ r = edit
        BY <2>1, <3>3, <4>2
      <4>4. Whole(Records') = n + 1 /\ edit.del = {} => version \subseteq Tables(Records', n + 1)
        BY <2>2, <3>2, <3>3, <3>4, <4>3
      <4> QED  BY <3>2, <3>3, <3>4, <4>1, <4>2, <4>3, <4>4 DEF SyncedOK
    <3> QED  BY <3>5, <3>6
  <2>sync. CASE ApplySync
    <3>1. /\ bgpc = "sync" /\ Applying /\ Edited /\ UNCHANGED <<version, log_number>> /\ Records' = Records
          /\ \/ ApplyFailed
             \/ (Named.durable)' = n /\ bgpc' = "install" /\ UNCHANGED <<bg_error, edit, inputs, pending>>
      BY <2>sync, NamedSynced DEF ApplySync, Applying, Edited, Records, n
    <3>2. CASE ApplyFailed
      <4>1. bg_error' /\ (bgpc' = "idle" \/ (edit.del = {} /\ bgpc' = "compact"))
        BY <3>2 DEF ApplyFailed, Resume
      <4>2. ~Applying'
        BY <4>1 DEF Applying
      <4>3. Whole(Records) = n /\ edit.del = {} => version \subseteq tables /\ log_number <= last
        <5>1. SUFFICES ASSUME Whole(Records) = n, edit.del = {} PROVE version \subseteq tables /\ log_number <= last
          OBVIOUS
        <5>2. after \subseteq tables /\ edit.log <= last /\ log_number <= edit.log
          BY <2>2, <2>3, <3>1, <5>1
        <5>3. log_number <= last
          BY <2>last, <2>num, <5>1, <5>2
        <5> QED  BY <5>1, <5>2, <5>3 DEF after
      <4> QED  BY <3>1, <4>1, <4>2, <4>3 DEF SyncedOK, n, tables, last
    <3>3. CASE ~ApplyFailed
      <4>1. Applying' /\ bgpc' = "install" /\ (Named.durable)' = n /\ bg_error' = bg_error /\ edit' = edit
        BY <3>1, <3>3 DEF Applying
      <4> QED  BY <2>2, <3>1, <4>1 DEF SyncedOK, n, tables, last, after
    <3> QED  BY <3>2, <3>3
  <2>install. CASE ApplyInstall
    <3>1. /\ version' = after /\ log_number' = edit.log /\ manifest' = manifest /\ current' = current
          /\ bgpc = "install" /\ bgpc' \in {"cleanup", "idle", "compact"} /\ bg_error' = bg_error
      BY <2>install DEF ApplyInstall, disk, after
    <3>2. Records' = Records /\ (Named.durable)' = Named.durable
      BY <3>1 DEF Records, Named
    <3>3. Applying /\ ~Applying'
      BY <3>1 DEF Applying
    <3> QED  BY <2>2, <3>1, <3>2, <3>3 DEF SyncedOK, n, tables, last
  <2>apply. CASE UNCHANGED <<version, log_number, edit, bgpc>> /\ Named' = Named
    <3>1. Records' = Records /\ (Named.durable)' = Named.durable
      BY <2>apply DEF Records
    <3> QED  BY <2>2, <2>apply, <2>error, <3>1 DEF SyncedOK, n, tables, last, after, Applying
  <2>same. CASE /\ UNCHANGED <<version, log_number>> /\ Named' = Named /\ ~Applying /\ ~Applying'
                /\ bgpc' # "idle" => bgpc # "idle" \/ ~bg_error
    <3>1. Records' = Records /\ (Named.durable)' = Named.durable
      BY <2>same DEF Records
    <3>2. log_number <= log_number
      BY <2>num
    <3> QED  BY <2>2, <2>same, <2>error, <3>1, <3>2 DEF SyncedOK, n, tables, last
  <2>failed. CASE ApplyAdd /\ Named' = Named
    <3>1. bgpc = "add" /\ UNCHANGED <<version, log_number>> /\ ~Applying
      BY <2>failed DEF ApplyAdd, Applying
    <3>2. CASE ApplyFailed
      <4>1. bgpc' \in {"idle", "compact"}
        BY <3>2 DEF ApplyFailed, Resume
      <4> QED  BY <2>failed, <2>same, <3>1, <4>1 DEF Applying
    <3>3. CASE ~ApplyFailed
      <4>1. Records' = Append(Records, edit)
        BY <2>failed, <3>3, NamedAppended
      <4>2. Len(Records') = n + 1 /\ Records' = Records
        <5>1. Records \in Seq(Edit \cup {Torn}) /\ edit \in Edit \cup {Torn}
          BY <2>1, <2>num
        <5> QED  BY <2>failed, <4>1, <5>1, AppendProperties DEF n, Records
      <4> QED  BY <2>1, <4>2 DEF n
    <3> QED  BY <3>2, <3>3
  <2>named. Named' = Named \/ ApplyAdd \/ ApplySync
    BY <1>run, <2>1, NamedSame DEF PowerLoss, Live
  <2>others. CASE Named' = Named /\ ~ApplyAdd /\ ~ApplySync /\ ~ApplyInstall
    <3>1. version' = version /\ log_number' = log_number
      BY <1>run, <2>others, LiveChanges
    <3>2. CASE FlushStart
      <4>1. /\ (bgpc = "idle" /\ ~bg_error) \/ bgpc = "compact"
            /\ bgpc' = "build"
        BY <3>2 DEF FlushStart
      <4> QED  BY <2>others, <2>same, <3>1, <4>1 DEF Applying
    <3>3. CASE FlushBuilt
      <4>1. bgpc = "build" /\ bgpc' \in {"add", "idle", "compact"}
        BY <3>3 DEF FlushBuilt, Resume
      <4> QED  BY <2>others, <2>same, <3>1, <4>1 DEF Applying
    <3>4. CASE CompactStart
      <4>1. bgpc = "idle" /\ ~bg_error /\ bgpc' = "compact"
        BY <3>4 DEF CompactStart
      <4> QED  BY <2>others, <2>same, <3>1, <4>1 DEF Applying
    <3>5. CASE CompactBuilt
      <4>1. bgpc = "compact" /\ bgpc' \in {"add", "idle"}
        BY <3>5 DEF CompactBuilt
      <4> QED  BY <2>others, <2>same, <3>1, <4>1 DEF Applying
    <3>6. CASE CleanupDone
      <4>1. bgpc = "cleanup" /\ bgpc' \in {"compact", "idle"}
        BY <3>6 DEF CleanupDone, Resume
      <4> QED  BY <2>others, <2>same, <3>1, <4>1 DEF Applying
    <3>7. CASE bgpc' = bgpc /\ edit' = edit
      BY <2>apply, <2>others, <3>1, <3>7
    <3> QED  BY <1>run, <2>others, LiveChanges, <3>2, <3>3, <3>4, <3>5, <3>6, <3>7
  <2> QED
    BY <2>add, <2>sync, <2>install, <2>failed, <2>named, <2>others
       DEF ApplyInstall, ApplyAdd, ApplySync
<1> QED  BY LiveSteps, <1>NewCurrent, <1>run

\* Nothing is there in the initial state.
LEMMA StructureInit == ASSUME Init PROVE Structure
<1>1. /\ log = <<>> /\ manifest = <<>> /\ table = <<>> /\ current = 0 /\ phase = "down"
      /\ DOMAIN log = {} /\ DOMAIN manifest = {} /\ DOMAIN table = {}
      /\ edit = NoEdit /\ bgpc = "idle" /\ bg_error = FALSE /\ created = FALSE
  BY DEF Init
<1>2. Types
  <2>1. LogType /\ ManifestType /\ TableType
    BY <1>1 DEF LogType, ManifestType, TableType, Typed
  <2>2. NumberType
    BY DEF Init, NumberType
  <2>3. DataType
    BY DEF Init, DataType
  <2>4. ControlType
    BY <1>1, NoEditType DEF ControlType, Phase, BGPC
  <2> QED  BY <2>1, <2>2, <2>3, <2>4 DEF Types
<1>3. BlankOK
  BY <1>1 DEF BlankOK, Init, NoEdit
<1>4. ~Opening /\ ~Live
  BY <1>1 DEF Opening, Live
<1> QED
  BY <1>1, <1>2, <1>3, <1>4 DEF Structure, ManifestOK, OpeningOK, LiveOK, BackgroundOK, SyncedOK

\* All of the structure is kept.
LEMMA StructureStep == ASSUME Structure, [Next]_vars PROVE Structure'
<1>1. Types'
  BY TypesStep DEF Structure
<1> QED
  BY <1>1, BlankStep, ManifestStep, OpeningStep, LiveStep, BackgroundStep, SyncedStep DEF Structure

\* The files always fit together.
THEOREM StructureHolds == Spec => []Structure
<1>1. Init => Structure
  BY StructureInit
<1>2. Structure /\ [Next]_vars => Structure'
  BY StructureStep
<1> QED  BY <1>1, <1>2, PTL DEF Spec

\* Every variable keeps its type, no file is longer on the disk than it is,
\* and the open database writes to files that exist.
THEOREM TypeCorrect == Spec => []TypeOK
<1>1. ASSUME Structure PROVE TypeOK
  <2>1. /\ LogType /\ ManifestType /\ TableType /\ NumberType /\ DataType /\ ControlType
    BY <1>1 DEF Structure, Types
  <2>2. writing \in Seq([entry: Entry, sync: BOOLEAN, todo: BOOLEAN]) /\ Len(writing) <= 1
    <3>1. CASE writing = <<>>
      BY <3>1
    <3>2. ASSUME NEW w \in [entry: Entry, sync: BOOLEAN, todo: BOOLEAN], writing = <<w>>
          PROVE  writing \in Seq([entry: Entry, sync: BOOLEAN, todo: BOOLEAN]) /\ Len(writing) <= 1
      BY <3>2
    <3> QED  BY <2>1, <3>1, <3>2 DEF DataType
  <2>3. phase = "open" => /\ logfile_number \in DOMAIN log /\ log_number \in 0..logfile_number
                          /\ manifest_number \in DOMAIN manifest /\ manifest_number = current
    BY <1>1, <2>1 DEF Structure, LiveOK, Live, ManifestOK, NumberType
  <2>4. \A n \in DOMAIN table : table[n] = Garbage \/ table[n] \subseteq Entry
    BY <2>1 DEF TableType, Typed
  <2> QED
    BY <2>1, <2>2, <2>3, <2>4
       DEF TypeOK, LogType, ManifestType, TableType, Typed, NumberType, DataType, ControlType
<1> QED  BY <1>1, StructureHolds, PTL

\* No step of DB::Open, of DeleteObsoleteFiles or of the background thread, no
\* failing call and no crash takes away a table that the version names, or lets
\* the version name one that is not finished: LiveOK says so, because a file is
\* created under a number that no record of the manifest and no version has
\* (FreshTable), and DeleteObsoleteFiles runs only when the manifest has no
\* outcome but the version (OnlyVersion).
THEOREM NoTableLost == Spec => []TablesPresent
<1>1. Structure => TablesPresent
  BY DEF Structure, LiveOK, OnDisk, Live, TablesPresent
<1> QED  BY <1>1, StructureHolds, PTL
=============================================================================
