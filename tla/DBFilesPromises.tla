--------------------------- MODULE DBFilesPromises --------------------------
(***************************************************************************)
(* The second half of the inductive invariant of DBFilesProofs: what is in *)
(* the files.  All entries that the running database or any crash can show *)
(* have numbers of their own (SequenceOK); the logs from log_number_ on    *)
(* hold what is not in tables, the synced part of it within what is        *)
(* durable (LogOK); so every outcome of a crash has what was promised and  *)
(* nothing but writes that were begun (DurableOK).  At the end, what a     *)
(* user of the database relies on: a database that was opened once can be  *)
(* opened again, and the files implement the abstract Store.               *)
(***************************************************************************)
EXTENDS DBFilesProofs

-----------------------------------------------------------------------------
(* What is in the files.                                                   *)

NewEntry(b) == [batch |-> b, seq |-> last_sequence + 1]
Fresh(e) == \E b \in Batch, sync \in BOOLEAN : AddRecord(b, sync) /\ e = NewEntry(b)

\* A log is created empty; it is synced, cut by a power failure, or gets the
\* record of a write.
LEMMA LogChanges ==
  ASSUME Types, OpeningOK, LiveOK, [Next]_vars, NEW l \in DOMAIN log'
  PROVE  \/ log'[l] = EmptyFile /\ l \notin DOMAIN log
         \/ /\ l \in DOMAIN log
            /\ \/ /\ log'[l].recs = log[l].recs
                  /\ log'[l].durable = log[l].durable \/ log'[l].durable = Len(log[l].recs)
               \/ /\ PowerLoss /\ log'[l].durable \in log[l].durable..Len(log[l].recs)
                  /\ log'[l].recs = SubSeq(log[l].recs, 1, log'[l].durable)
               \/ \E b \in Batch, sync \in BOOLEAN, r \in Entry \cup {Torn} :
                    /\ AddRecord(b, sync) /\ r \in {NewEntry(b), Torn}
                    /\ l = logfile_number
                    /\ log'[l].recs = Append(log[l].recs, r)
                    /\ log'[l].durable = log[l].durable
<1>type. \A n \in DOMAIN log : n \in Nat /\ log[n] \in File(Entry)
  BY DEF Types, LogType, Typed
<1>num. next_file \in Nat /\ logfile_number \in Nat /\ last_sequence \in Nat
  BY DEF Types, NumberType
<1>1. CASE log' = log
  BY <1>1
<1>2. CASE NewLog \/ Switch
  <2>1. log' = Create(log, next_file, EmptyFile)
    BY <1>2 DEF NewLog, OpenLog, Switch
  <2>2. next_file \notin DOMAIN log
    <3>1. CASE NewLog
      <4>1. Opening /\ todo = {}
        BY <3>1 DEF NewLog, OpenLog, Opening
      <4>2. next_file >= next_file
        BY <1>num
      <4> QED  BY <4>1, <4>2 DEF OpeningOK
    <3>2. CASE Switch
      <4>1. Live
        BY <3>2 DEF Switch, Unlocked, Running, Live
      <4>2. logfile_number < next_file /\ \A x \in DOMAIN log : x <= logfile_number
        BY <4>1 DEF LiveOK
      <4>3. ~(next_file <= logfile_number)
        BY <1>num, <4>2
      <4> QED  BY <4>2, <4>3
    <3> QED  BY <1>2, <3>1, <3>2
  <2> QED  BY <2>1, <2>2 DEF Create
<1>3. CASE DeleteObsoleteFile
  <2>1. log' = log \/ \E n \in DOMAIN log : log' = Remove(log, n)
    BY <1>3 DEF DeleteObsoleteFile
  <2> QED  BY <2>1 DEF Remove
<1>4. ASSUME NEW b \in Batch, NEW sync \in BOOLEAN, AddRecord(b, sync)
      PROVE  \/ log'[l].recs = log[l].recs /\ log'[l].durable = log[l].durable /\ l \in DOMAIN log
             \/ \E r \in Entry \cup {Torn} :
                    /\ r \in {NewEntry(b), Torn} /\ l \in DOMAIN log
                    /\ l = logfile_number
                    /\ log'[l].recs = Append(log[l].recs, r)
                    /\ log'[l].durable = log[l].durable
  <2>1. logfile_number \in DOMAIN log
    BY <1>4 DEF AddRecord, Unlocked, Running, LiveOK, Live
  <2>2. log' = log \/ \E r \in {NewEntry(b), Torn} : log' = AppendTo(log, logfile_number, r)
    BY <1>4 DEF AddRecord, FailedAppend, NewEntry
  <2>3. ASSUME NEW r \in {NewEntry(b), Torn}, log' = AppendTo(log, logfile_number, r)
        PROVE  \/ log'[l].recs = log[l].recs /\ log'[l].durable = log[l].durable /\ l \in DOMAIN log
               \/ /\ r \in Entry \cup {Torn} /\ l \in DOMAIN log
                  /\ l = logfile_number
                  /\ log'[l].recs = Append(log[l].recs, r)
                  /\ log'[l].durable = log[l].durable
    <3>1. NewEntry(b) \in Entry
      BY <1>num DEF NewEntry, Entry
    <3>2. r \in Entry \cup {Torn}
      BY <3>1
    <3> DEFINE g == AppendTo(log, logfile_number, r)
    <3>3. /\ DOMAIN g = DOMAIN log
          /\ \A m \in DOMAIN log : m # logfile_number => g[m] = log[m]
          /\ g[logfile_number].recs = Append(log[logfile_number].recs, r)
          /\ g[logfile_number].durable = log[logfile_number].durable
      BY <1>type, <2>1, <3>2, AppendedFile
    <3>4. log' = g
      BY <2>3
    <3> HIDE DEF g
    <3> QED  BY <3>2, <3>3, <3>4
  <2> QED  BY <1>type, <2>1, <2>2, <2>3 DEF AppendTo
<1>5. CASE SyncLog
  <2>1. logfile_number \in DOMAIN log
    BY <1>5 DEF SyncLog, Running, LiveOK, Live
  <2>2. log' = log \/ log' = SyncFile(log, logfile_number)
    BY <1>5 DEF SyncLog
  <2> DEFINE g == SyncFile(log, logfile_number)
  <2>3. /\ DOMAIN g = DOMAIN log
        /\ \A m \in DOMAIN log : m # logfile_number => g[m] = log[m]
        /\ g[logfile_number].recs = log[logfile_number].recs
        /\ g[logfile_number].durable = Len(log[logfile_number].recs)
    BY <1>type, <2>1, SyncedFile
  <2> HIDE DEF g
  <2>4. log' = log \/ log' = g
    BY <2>2 DEF g
  <2> QED  BY <2>3, <2>4
<1>6. CASE PowerLoss
  <2>1. log' \in AfterPowerLoss(log)
    BY <1>6 DEF PowerLoss
  <2> DEFINE g == log'
  <2>2. g \in AfterPowerLoss(log) /\ \A n \in DOMAIN log : log[n] \in File(Entry)
    BY <1>type, <2>1
  <2> HIDE DEF g
  <2>3. DOMAIN g = DOMAIN log
         /\ \A n \in DOMAIN log :
              /\ g[n] \in File(Entry)
              /\ g[n].durable \in log[n].durable..Len(log[n].recs)
              /\ g[n].recs = SubSeq(log[n].recs, 1, g[n].durable)
              /\ Len(g[n].recs) = g[n].durable
    BY <2>2, CutFile
  <2> QED  BY <1>6, <2>3 DEF g
<1> QED  BY <1>1, <1>2, <1>3, <1>4, <1>5, <1>6, FileChanges

\* So only a write brings a record into a log.
LEMMA EntriesLogged ==
  ASSUME Types, OpeningOK, LiveOK, [Next]_vars, NEW l \in DOMAIN log', NEW e \in Intact(log'[l].recs)
  PROVE  \/ l \in DOMAIN log /\ e \in Intact(log[l].recs)
         \/ Fresh(e) /\ l = logfile_number
<1>type. \A n \in DOMAIN log : log[n].recs \in Seq(Entry \cup {Torn})
  BY DEF Types, LogType, Typed, File
<1>1. CASE log'[l] = EmptyFile
  BY <1>1 DEF EmptyFile, Intact
<1>2. CASE l \in DOMAIN log /\ log'[l].recs = log[l].recs
  BY <1>2
<1>3. CASE /\ l \in DOMAIN log /\ PowerLoss /\ log'[l].durable \in log[l].durable..Len(log[l].recs)
           /\ log'[l].recs = SubSeq(log[l].recs, 1, log'[l].durable)
  <2> DEFINE recs == log[l].recs
             k == log'[l].durable
             n == Len(recs)
  <2>1. recs \in Seq(Entry \cup {Torn}) /\ k \in log[l].durable..n /\ log[l].durable \in Nat
        /\ log'[l].recs = SubSeq(recs, 1, k)
    BY <1>3, <1>type DEF Types, LogType, Typed, File
  <2>2. k \in 0..n /\ n \in 0..n /\ k <= n
    <3>1. n \in Nat
      BY <2>1, LenProperties
    <3> HIDE DEF n, k, recs
    <3> QED  BY <2>1, <3>1
  <2> HIDE DEF k, recs
  <2>3. Intact(SubSeq(recs, 1, k)) \subseteq Intact(SubSeq(recs, 1, Len(recs)))
    BY <2>1, <2>2, IntactPrefix
  <2>4. SubSeq(recs, 1, Len(recs)) = recs
    BY <2>1, SubSeqAll
  <2> QED  BY <1>3, <2>1, <2>3, <2>4 DEF recs
<1>4. ASSUME l \in DOMAIN log, NEW b \in Batch, NEW sync \in BOOLEAN, NEW r \in Entry \cup {Torn},
             AddRecord(b, sync), r \in {NewEntry(b), Torn}, l = logfile_number, log'[l].recs = Append(log[l].recs, r)
      PROVE  e \in Intact(log[l].recs) \/ e = NewEntry(b)
  <2>1. Intact(Append(log[l].recs, r)) \subseteq Intact(log[l].recs) \cup ({r} \ {Torn})
    BY <1>4, <1>type, IntactAppend
  <2> QED  BY <1>4, <2>1
<1> QED  BY <1>1, <1>2, <1>3, <1>4, LogChanges DEF Fresh

\* The logs get no record but that of a write.
LEMMA LogsFromLogged ==
  ASSUME Types, OpeningOK, LiveOK, [Next]_vars, NEW n, NEW e \in LogsFrom(log', n)
  PROVE  \/ e \in LogsFrom(log, n)
         \/ Fresh(e)
<1>1. PICK l \in DOMAIN log' : l >= n /\ e \in Intact(log'[l].recs)
  BY DEF LogsFrom
<1>2. \/ l \in DOMAIN log /\ e \in Intact(log[l].recs)
      \/ Fresh(e)
  BY <1>1, EntriesLogged
<1> QED  BY <1>1, <1>2 DEF LogsFrom

\* Every outcome of the manifest after a step was one before, or is the first
\* record of a new manifest, or the edit that was added.
LEMMA OutcomeStep ==
  ASSUME Types, Types', BlankOK, ManifestOK, OpeningOK, LiveOK, BackgroundOK, SyncedOK, [Next]_vars,
         current' # 0, NEW k \in Outcomes(Named')
  PROVE  \/ /\ current # 0 /\ current' = current /\ k \in Outcomes(Named)
            /\ Tables(Records', k) = Tables(Records, k) /\ Records'[k] = Records[k] /\ ~NewCurrent
         \/ /\ NewDBCurrent /\ k = 1 /\ DOMAIN log = {}
            /\ Tables(Records', k) = {} /\ Records'[k] = [NoEdit EXCEPT !.next = 2]
         \/ /\ NewCurrent /\ k = 1 /\ (DOMAIN Records)' = {1}
            /\ Tables(Records', k) = edit.add \cup version
            /\ Records'[k] = [log |-> edit.log, next |-> next_file, last |-> last_sequence,
                              add |-> edit.add \cup version, del |-> {}]
         \/ /\ ApplyAdd /\ current # 0 /\ k = Len(Records) + 1 /\ Whole(Records) = Len(Records)
            /\ Len(Records) \in Outcomes(Named)
            /\ Tables(Records', k) = (Tables(Records, Len(Records)) \ edit.del) \cup edit.add
            /\ Records'[k] = edit
<1>recs. Records' = Named'.recs
  BY DEF Records
<1>1. CASE current = 0
  <2>1. phase \in {"down", "newdb"} /\ DOMAIN log = {}
    BY <1>1 DEF BlankOK
  <2>2. ~NewCurrent /\ ~ApplyAdd /\ ~ApplySync
    BY <2>1 DEF NewCurrent, OpenCurrent, ApplyAdd, ApplySync, Running
  <2>3. NewDBCurrent /\ current' = 1
    <3>1. current' = current \/ NewDBCurrent \/ NewCurrent
      BY FileChanges
    <3>2. NewDBCurrent
      BY <1>1, <2>2, <3>1
    <3> QED  BY <1>1, <3>2 DEF NewDBCurrent
  <2>4. manifest' = manifest /\ phase = "newdb"
    BY <2>3 DEF NewDBCurrent
  <2> DEFINE r == [NoEdit EXCEPT !.next = 2]
             f == Named'
  <2>5. f.recs = <<r>> /\ r \in Edit
    <3>1. manifest[1].recs = <<r>>
      BY <2>4 DEF BlankOK
    <3> QED  BY <2>3, <2>4, <3>1, NoEditType DEF Named
  <2>6. r.add = {}
    BY DEF NoEdit
  <2> HIDE DEF r, f
  <2>7. f.recs[1] = r /\ Outcomes(f) = {1} /\ Tables(f.recs, 1) = r.add
    BY <2>5, OneRecord
  <2> QED  BY <1>recs, <2>1, <2>3, <2>6, <2>7 DEF f, r
<1>2. CASE current # 0 /\ NewCurrent
  <2> DEFINE r == [log |-> edit.log, next |-> next_file, last |-> last_sequence,
                   add |-> edit.add \cup version, del |-> {}]
             f == Named'
  <2>1. f.recs = <<r>> /\ r \in Edit /\ r.add = edit.add \cup version
    BY <1>2, NamedNew
  <2> HIDE DEF r, f
  <2>2. f.recs[1] = r /\ Outcomes(f) = {1} /\ Tables(f.recs, 1) = r.add /\ DOMAIN f.recs = {1}
    BY <2>1, OneRecord
  <2> QED  BY <1>recs, <1>2, <2>1, <2>2 DEF r, f
<1>3. CASE current # 0 /\ ~NewCurrent /\ Named' = Named /\ current' = current
  BY <1>3 DEF Records
<1>4. CASE current # 0 /\ ApplyAdd /\ Named' # Named
  <2>1. current' = current /\ Live
    BY <1>4, NamedAppended
  <2>2. PICK r \in {edit, Torn} :
                 /\ r \in Edit \cup {Torn} /\ Named' \in File(Edit)
                 /\ Records' = Append(Records, r) /\ (Named.durable)' = Named.durable
    BY <1>4, NamedAppended
  <2> DEFINE f == Named
             g == Named'
  <2>3. f \in File(Edit) /\ g \in File(Edit) /\ r \in Edit \cup {Torn}
        /\ g.recs = Append(f.recs, r) /\ g.durable = f.durable /\ k \in Outcomes(g)
    BY <1>4, <1>recs, <2>2, NamedType DEF Records
  <2>4. Records = f.recs /\ Records' = g.recs
    BY <1>recs DEF Records
  <2>5. Len(Records) \in Nat /\ Named.durable \in 0..Len(Records) /\ Whole(Records) \in 0..Len(Records)
        /\ Named.durable > 0
    BY <1>4, <2>1, NamedType DEF LiveOK
  <2>6. ~NewCurrent
    BY <1>4 DEF NewCurrent, OpenCurrent, ApplyAdd, Running
  <2> HIDE DEF f, g
  <2>7. /\ \A j \in Outcomes(f) : Tables(g.recs, j) = Tables(f.recs, j) /\ g.recs[j] = f.recs[j]
        /\ \A j \in Outcomes(g) :
              \/ j \in Outcomes(f)
              \/ /\ r # Torn /\ Whole(f.recs) = Len(f.recs) /\ j = Len(f.recs) + 1 /\ g.recs[j] = r
                 /\ Tables(g.recs, j) = (Tables(f.recs, Len(f.recs)) \ r.del) \cup r.add
    BY <2>3, OutcomesAppend
  <2>8. CASE k \in Outcomes(f)
    BY <1>4, <2>1, <2>4, <2>6, <2>7, <2>8 DEF f
  <2>9. CASE /\ r # Torn /\ Whole(f.recs) = Len(f.recs) /\ k = Len(f.recs) + 1 /\ g.recs[k] = r
             /\ Tables(g.recs, k) = (Tables(f.recs, Len(f.recs)) \ r.del) \cup r.add
    <3>1. r = edit
      BY <2>2, <2>9
    <3>2. Len(Records) \in Outcomes(Named)
      <4>1. Whole(Records) = Len(Records) /\ Len(Records) \in 1..Len(Records)
        BY <2>4, <2>5, <2>9
      <4> QED  BY <4>1 DEF Outcomes, Records
    <3> QED  BY <1>4, <2>4, <2>9, <3>1, <3>2
  <2> QED  BY <2>3, <2>7, <2>8, <2>9
<1>5. CASE current # 0 /\ ApplySync
  <2>1. current' = current /\ (Named' = Named \/ (Records' = Records /\ (Named.durable)' = Len(Records)))
    BY <1>5, NamedSynced
  <2>2. ~NewCurrent
    BY <1>5 DEF NewCurrent, OpenCurrent, ApplySync, Running
  <2>3. Outcomes(Named') \subseteq Outcomes(Named)
    <3>1. CASE Named' = Named
      BY <3>1
    <3>2. CASE Records' = Records /\ (Named.durable)' = Len(Records)
      <4> DEFINE f == Named
                 g == Named'
      <4>1. f \in File(Edit) /\ g.recs = f.recs /\ g.durable = Len(f.recs)
        BY <1>5, <3>2, NamedType DEF Records
      <4> HIDE DEF f, g
      <4>2. Outcomes(g) \subseteq Outcomes(f)
        BY <4>1, OutcomesSync
      <4> QED  BY <4>2 DEF f, g
    <3> QED  BY <2>1, <3>1, <3>2
  <2>4. Records' = Records
    BY <2>1 DEF Records
  <2> QED  BY <1>5, <2>1, <2>2, <2>3, <2>4
<1>6. CASE current # 0 /\ PowerLoss
  <2> DEFINE f == Named
             g == Named'
  <2>1. /\ current' = current /\ g \in File(Edit) /\ f \in File(Edit)
        /\ g.durable \in f.durable..Len(f.recs) /\ g.recs = SubSeq(f.recs, 1, g.durable)
    BY <1>6, NamedCut, NamedType DEF Records
  <2>2. ~NewCurrent
    BY <1>6 DEF NewCurrent, PowerLoss
  <2>3. Records = f.recs /\ Records' = g.recs /\ k \in Outcomes(g)
    BY <1>recs DEF Records
  <2> HIDE DEF f, g
  <2>4. /\ Outcomes(g) \subseteq Outcomes(f)
        /\ \A j \in Outcomes(g) : /\ Tables(g.recs, j) = Tables(f.recs, j) /\ g.recs[j] = f.recs[j]
                                  /\ j = Whole(g.recs)
        /\ Whole(g.recs) = IF g.durable <= Whole(f.recs) THEN g.durable ELSE Whole(f.recs)
    BY <2>1, OutcomesCut
  <2> QED  BY <1>6, <2>1, <2>2, <2>3, <2>4 DEF f
<1> QED  BY <1>1, <1>2, <1>3, <1>4, <1>5, <1>6, NamedSame, NamedAppended

\* The tables in use keep their entries.
LEMMA EntriesKept ==
  ASSUME Types, BlankOK, ManifestOK, OpeningOK, LiveOK, BackgroundOK, SyncedOK, [Next]_vars,
         NEW ts, ts \subseteq Used
  PROVE  EntriesIn(table', ts) = EntriesIn(table, ts)
<1> DEFINE a == table
           b == table'
<1>1. \A t \in ts : t \in DOMAIN a /\ t \in DOMAIN b /\ b[t] = a[t]
  BY TablesKept
<1> HIDE DEF a, b
<1>2. EntriesIn(b, ts) = EntriesIn(a, ts)
  BY <1>1, EntriesSame
<1> QED  BY <1>2 DEF a, b

\* A crash brings back only what is there, or was just written.
LEMMA RecoverableStep ==
  ASSUME Types, Types', BlankOK, ManifestOK, OpeningOK, LiveOK, BackgroundOK, SyncedOK, [Next]_vars,
         NEW e \in Recoverable'
  PROVE  e \in Known \/ Fresh(e)
<1>1. PICK k : k \in Outcomes(Named') /\ current' # 0
               /\ e \in EntriesIn(table', Tables(Records', k)) \cup LogsFrom(log', Records'[k].log)
  BY DEF Recoverable, At, TableEntries, EntriesIn, Records
<1>2. \A j : j \in Outcomes(Named) /\ current # 0 =>
               /\ EntriesIn(table, Tables(Records, j)) \subseteq Known
               /\ LogsFrom(log, Records[j].log) \subseteq Known
               /\ Tables(Records, j) \subseteq Used
  BY DEF Recoverable, At, TableEntries, EntriesIn, Records, Known, Used
<1>3. /\ EntriesIn(table, version) \subseteq Known /\ EntriesIn(table, edit.add) \subseteq Known
      /\ version \subseteq Used /\ (Opening \/ Edited => edit.add \subseteq Used)
  BY DEF Known, Settled, TableEntries, EntriesIn, Used
<1>4. CASE e \in EntriesIn(table', Tables(Records', k))
  <2>1. PICK t \in Tables(Records', k) : e \in EntriesIn(table', {t})
    BY <1>4 DEF EntriesIn
  <2>2. t \in Used /\ (e \in EntriesIn(table, {t}) => e \in Known)
    <3>1. \A ts : t \in ts /\ e \in EntriesIn(table, {t}) => e \in EntriesIn(table, ts)
      BY DEF EntriesIn
    <3>2. CASE current # 0 /\ k \in Outcomes(Named) /\ Tables(Records', k) = Tables(Records, k)
      BY <1>2, <2>1, <3>1, <3>2
    <3>3. CASE NewCurrent /\ Tables(Records', k) = edit.add \cup version
      <4>1. Opening
        BY <3>3 DEF NewCurrent, OpenCurrent, Opening
      <4> QED  BY <1>3, <2>1, <3>1, <3>3, <4>1
    <3>4. CASE /\ ApplyAdd /\ current # 0 /\ Len(Records) \in Outcomes(Named)
               /\ Tables(Records', k) = (Tables(Records, Len(Records)) \ edit.del) \cup edit.add
      <4>1. Edited
        BY <3>4 DEF ApplyAdd, Edited
      <4> QED  BY <1>2, <1>3, <2>1, <3>1, <3>4, <4>1
    <3>5. CASE Tables(Records', k) = {}
      BY <2>1, <3>5
    <3> QED  BY <1>1, <3>2, <3>3, <3>4, <3>5, OutcomeStep
  <2>3. EntriesIn(table', {t}) = EntriesIn(table, {t})
    BY <2>2, EntriesKept
  <2> QED  BY <2>1, <2>2, <2>3
<1>5. CASE e \in LogsFrom(log', Records'[k].log)
  <2>1. e \in LogsFrom(log, Records'[k].log) \/ Fresh(e)
    BY <1>5, LogsFromLogged
  <2>2. CASE current # 0 /\ k \in Outcomes(Named) /\ Records'[k] = Records[k]
    BY <1>2, <2>1, <2>2
  <2>3. CASE DOMAIN log = {}
    BY <2>1, <2>3 DEF LogsFrom
  <2>4. CASE NewCurrent /\ Records'[k].log = edit.log
    <3>1. /\ Opening /\ phase = "current" /\ log' = log
      BY <2>4 DEF NewCurrent, OpenCurrent, Opening
    <3>2. /\ edit.log = logfile_number /\ log[logfile_number] = EmptyFile
          /\ \A l \in DOMAIN log : l <= logfile_number
      BY <3>1 DEF OpeningOK
    <3>3. PICK l \in DOMAIN log : l >= edit.log /\ e \in Intact(log[l].recs)
      BY <1>5, <2>4, <3>1 DEF LogsFrom
    <3>4. l = logfile_number
      BY <3>2, <3>3 DEF Types, NumberType, LogType, Typed
    <3> QED  BY <3>2, <3>3, <3>4 DEF EmptyFile, Intact
  <2>5. CASE ApplyAdd /\ Records'[k] = edit
    <3>1. Live /\ Edited
      BY <2>5 DEF ApplyAdd, Edited, Running, Live
    <3>2. log_number <= edit.log /\ log_number \in Nat /\ edit.log \in Nat
      BY <3>1 DEF BackgroundOK, Types, NumberType, ControlType, Edit
    <3>3. \A l \in DOMAIN log : l \in Nat
      BY DEF Types, LogType, Typed
    <3>4. LogsFrom(log, edit.log) \subseteq LogsFrom(log, log_number)
      BY <3>2, <3>3 DEF LogsFrom
    <3> QED  BY <2>1, <2>5, <3>1, <3>4 DEF Known
  <2>6. CASE NewCurrent /\ Records'[k] = [log |-> edit.log, next |-> next_file, last |-> last_sequence,
                                          add |-> edit.add \cup version, del |-> {}]
    BY <2>4, <2>6
  <2> QED  BY <1>1, <2>2, <2>3, <2>5, <2>6, OutcomeStep
<1> QED  BY <1>1, <1>4, <1>5

\* At most one write is in progress.
LEMMA WrittenOne ==
  ASSUME DataType
  PROVE  /\ writing = <<>> => Written = {}
         /\ writing # <<>> => /\ Written = {writing[1].entry} /\ Len(writing) = 1
                              /\ writing[1] \in [entry: Entry, sync: BOOLEAN, todo: BOOLEAN]
                              /\ \A w : writing = <<w>> => writing[1] = w
<1>1. CASE writing = <<>>
  BY <1>1 DEF Written
<1>2. ASSUME NEW w \in [entry: Entry, sync: BOOLEAN, todo: BOOLEAN], writing = <<w>>
      PROVE  /\ Written = {writing[1].entry} /\ Len(writing) = 1 /\ writing # <<>>
             /\ writing[1] \in [entry: Entry, sync: BOOLEAN, todo: BOOLEAN]
             /\ \A v : writing = <<v>> => writing[1] = v
  <2>1. Len(writing) = 1 /\ writing[1] = w
    BY <1>2
  <2>2. 1..Len(writing) = {1}
    BY <2>1
  <2>3. Written = {writing[1].entry}
    BY <2>2 DEF Written
  <2> QED  BY <1>2, <2>1, <2>3
<1> QED  BY <1>1, <1>2 DEF DataType

\* In a running database an entry gets into memory from the log only.
LEMMA SettledLive ==
  ASSUME Types, BlankOK, ManifestOK, OpeningOK, LiveOK, BackgroundOK, SyncedOK, [Next]_vars,
         Live', NEW e \in Settled'
  PROVE  e \in Settled \/ (FinishWrite /\ e \in Written)
<1>blank. NoEdit.add = {} /\ \A tb : EntriesIn(tb, {}) = {}
  BY DEF NoEdit, EntriesIn
<1>in. \A x : x \in Settled <=> x \in mem \cup imm \cup EntriesIn(table, version) \cup EntriesIn(table, edit.add)
  BY DEF Settled, TableEntries, EntriesIn
<1>1. e \in mem' \cup imm' \cup EntriesIn(table', version') \cup EntriesIn(table', edit'.add)
  BY DEF Settled, TableEntries, EntriesIn
<1>2. version \subseteq Used /\ (Opening \/ Edited => edit.add \subseteq Used)
  BY DEF Used
<1>3. CASE NewCurrent
  <2>1. /\ Opening /\ UNCHANGED <<mem, imm>> /\ version' = version \cup edit.add /\ edit' = NoEdit
    BY <1>3 DEF NewCurrent, OpenCurrent, Opening
  <2>2. EntriesIn(table', version \cup edit.add) = EntriesIn(table, version \cup edit.add)
    BY <1>2, <2>1, EntriesKept
  <2> QED  BY <1>blank, <1>in, <1>1, <2>1, <2>2, EntriesUnion
<1>4. CASE ~NewCurrent
  <2>0. Live
    BY <1>4, LiveSteps
  <2>1. CASE e \in mem'
    <3>1. CASE FinishWrite
      <4>1. mem' = mem \cup {writing[1].entry} /\ writing # <<>>
        BY <3>1 DEF FinishWrite
      <4>2. Written = {writing[1].entry}
        BY <4>1, WrittenOne DEF Types
      <4> QED  BY <1>in, <2>1, <3>1, <4>1, <4>2
    <3>2. CASE Switch
      BY <2>1, <3>2 DEF Switch
    <3> QED  BY <1>4, <1>in, <2>1, <3>1, <3>2, LiveChanges
  <2>2. CASE e \in imm'
    <3>1. CASE Switch
      BY <1>in, <2>2, <3>1 DEF Switch
    <3>2. CASE ApplyInstall
      BY <1>in, <2>2, <3>2 DEF ApplyInstall
    <3> QED  BY <1>4, <1>in, <2>2, <3>1, <3>2, LiveChanges
  <2>3. CASE e \in EntriesIn(table', version')
    <3>1. CASE ApplyInstall
      <4>1. /\ version' = (version \ edit.del) \cup edit.add /\ table' = table
        BY <3>1 DEF ApplyInstall, disk
      <4> QED  BY <1>in, <2>3, <4>1 DEF EntriesIn
    <3>2. CASE version' = version
      BY <1>in, <1>2, <2>3, <3>2, EntriesKept
    <3> QED  BY <1>4, <3>1, <3>2, LiveChanges
  <2>4. CASE e \in EntriesIn(table', edit'.add)
    <3>1. CASE FlushStart
      <4>1. /\ table' = Create(table, next_file, Garbage) /\ edit' = [NoEdit EXCEPT !.add = {next_file}]
        BY <3>1 DEF FlushStart
      <4>2. edit'.add = {next_file} /\ table'[next_file] = Garbage
        BY <4>1 DEF NoEdit, Create
      <4> QED  BY <2>4, <4>2 DEF EntriesIn
    <3>2. CASE FlushBuilt
      <4>1. \/ edit' = NoEdit
            \/ /\ table' = [t \in DOMAIN table |-> IF t \in edit.add THEN imm ELSE table[t]]
               /\ edit' = [edit EXCEPT !.log = logfile_number, !.next = next_file, !.last = last_sequence]
        BY <3>2 DEF FlushBuilt, FlushedLogNumber
      <4>2. edit' = NoEdit \/ edit'.add = edit.add
        BY <4>1 DEF Types, ControlType, Edit
      <4> QED  BY <1>blank, <1>in, <2>4, <4>1, <4>2 DEF EntriesIn
    <3>3. CASE CompactBuilt
      <4>1. \/ edit' = edit /\ bgpc = "compact"
            \/ /\ table' = [t \in DOMAIN table |-> IF t \in pending THEN TableEntries(inputs) ELSE table[t]]
               /\ edit'.add = pending
        BY <3>3 DEF CompactBuilt
      <4>2. bgpc = "compact" => edit = NoEdit
        BY <2>0 DEF BackgroundOK
      <4>3. EntriesIn(table, inputs) \subseteq EntriesIn(table, version)
        BY <2>0 DEF LiveOK, EntriesIn
      <4>4. edit' = NoEdit \/ e \in TableEntries(inputs)
        BY <2>4, <4>1, <4>2 DEF EntriesIn
      <4> QED  BY <1>blank, <1>in, <2>4, <4>3, <4>4 DEF TableEntries, EntriesIn
    <3>4. CASE edit' = NoEdit
      BY <1>blank, <2>4, <3>4
    <3>5. CASE edit' = edit /\ ~FlushStart /\ ~FlushBuilt /\ ~CompactBuilt
      <4>1. CASE Edited
        BY <1>in, <1>2, <2>4, <3>5, <4>1, EntriesKept
      <4>2. CASE bgpc \in {"idle", "compact", "cleanup"}
        BY <1>blank, <2>0, <2>4, <3>5, <4>2 DEF BackgroundOK
      <4>3. CASE bgpc = "build"
        <5>1. ~DeleteObsoleteFile /\ ~CompactOutput
          BY <2>0, <4>3 DEF DeleteObsoleteFile, CompactOutput, LiveOK
        <5>2. table' = table
          BY <1>4, <3>5, <5>1, LiveChanges
        <5> QED  BY <1>in, <2>4, <3>5, <5>2
      <4> QED  BY <4>1, <4>2, <4>3 DEF Types, ControlType, BGPC, Edited
    <3>6. CASE ApplyAdd \/ ApplySync
      <4>1. edit' = edit \/ edit' = NoEdit
        BY <3>6 DEF ApplyAdd, ApplySync, ApplyFailed
      <4>2. ~FlushStart /\ ~FlushBuilt /\ ~CompactBuilt
        BY <3>6 DEF ApplyAdd, ApplySync, FlushStart, FlushBuilt, CompactBuilt
      <4> QED  BY <3>4, <3>5, <4>1, <4>2
    <3>7. CASE ApplyInstall
      BY <3>4, <3>7 DEF ApplyInstall
    <3> QED  BY <1>4, <3>1, <3>2, <3>3, <3>5, <3>6, <3>7, LiveChanges
  <2> QED  BY <1>1, <2>1, <2>2, <2>3, <2>4
<1> QED  BY <1>3, <1>4

\* What DB::Open has in tables comes from the manifest and from the logs.
LEMMA OpeningEntries ==
  ASSUME Types, BlankOK, ManifestOK, OpeningOK, LiveOK, BackgroundOK, SyncedOK, [Next]_vars,
         Opening', NEW e \in TableEntries(version \cup edit.add)'
  PROVE  \/ /\ current # 0 /\ Whole(Records) \in Outcomes(Named)
            /\ e \in TableEntries(Tables(Records, Whole(Records)))
            /\ last_sequence' = Records[Whole(Records)].last
         \/ Opening /\ e \in TableEntries(version \cup edit.add) /\ last_sequence <= last_sequence'
         \/ /\ Opening /\ e.seq <= last_sequence'
            /\ e \in LogsFrom(log, Records[Whole(Records)].log)
<1>in. TableEntries(version \cup edit.add) = EntriesIn(table, version \cup edit.add)
  BY DEF TableEntries, EntriesIn
<1>1. e \in EntriesIn(table', version' \cup edit'.add)
  BY DEF TableEntries, EntriesIn
<1>num. last_sequence \in Nat /\ last_sequence <= last_sequence
  BY DEF Types, NumberType
<1>2. CASE Recover /\ phase' = "logs"
  <2>1. /\ phase = "recover" /\ edit' = edit /\ table' = table
        /\ version' = Tables(Records, Whole(Records)) /\ last_sequence' = Records[Whole(Records)].last
        /\ Whole(Records) > 0
    BY <1>2 DEF Recover, Records, Named, disk
  <2>2. edit = NoEdit /\ current # 0
    BY <2>1 DEF BlankOK
  <2>3. Whole(Records) \in Outcomes(Named)
    <3>1. Whole(Records) \in 0..Len(Records) /\ Len(Records) \in Nat
      BY <2>2, NamedType
    <3>2. Whole(Records) \in 1..Whole(Records)
      BY <2>1, <3>1
    <3> QED  BY <3>2 DEF Outcomes, Records
  <2>4. e \in TableEntries(Tables(Records, Whole(Records)))
    BY <1>1, <2>1, <2>2 DEF TableEntries, EntriesIn, NoEdit
  <2> QED  BY <2>1, <2>2, <2>3, <2>4
<1>3. CASE Replay
  <2> DEFINE l == Min(todo)
             es == LogEntries(l)
  <2>1. Opening /\ phase = "logs"
    BY <1>3 DEF Replay, RecoverLogFile, Opening
  <2>2. l \in todo /\ l \in DOMAIN log
    BY <1>3, OldestLog DEF Replay, RecoverLogFile, Types
  <2>3. /\ table' = IF es = {} THEN table ELSE Create(table, next_file, es)
        /\ edit' = IF es = {} THEN edit ELSE [edit EXCEPT !.add = @ \cup {next_file}]
        /\ last_sequence' = RecoveredSequence(es) /\ version' = version
    BY <1>3 DEF Replay, RecoverLogFile
  <2>4. last_sequence <= RecoveredSequence(es) /\ \A x \in es : x.seq <= RecoveredSequence(es)
    BY <2>2, SequenceRecovered DEF Types, NumberType
  <2>5. version \cup edit.add \subseteq Used
    BY <2>1 DEF Used
  <2>6. edit'.add = IF es = {} THEN edit.add ELSE edit.add \cup {next_file}
    BY <2>3 DEF Types, ControlType, Edit
  <2>7. EntriesIn(table', version \cup edit.add) = EntriesIn(table, version \cup edit.add)
    BY <2>5, EntriesKept
  <2>8. l \in {x \in DOMAIN log : x >= Records[Whole(Records)].log}
    BY <2>1, <2>2 DEF OpeningOK
  <2>9. es \subseteq LogsFrom(log, Records[Whole(Records)].log)
    BY <2>8 DEF LogsFrom, LogEntries
  <2> HIDE DEF es
  <2>10. e \in EntriesIn(table', version \cup edit.add) \/ e \in es
    <3>1. CASE es = {}
      BY <1>1, <2>3, <2>6, <3>1
    <3>2. CASE es # {}
      <4>1. table'[next_file] = es
        BY <2>3, <3>2 DEF Create
      <4>2. e \in EntriesIn(table', version \cup edit.add \cup {next_file})
        BY <1>1, <2>3, <2>6, <3>2 DEF EntriesIn
      <4> QED  BY <4>1, <4>2 DEF EntriesIn
    <3> QED  BY <3>1, <3>2
  <2> QED  BY <1>in, <2>1, <2>3, <2>4, <2>7, <2>9, <2>10
<1>4. CASE NewLog
  <2>1. Opening /\ UNCHANGED <<table, version, last_sequence>> /\ edit' = [edit EXCEPT !.log = next_file]
    BY <1>4 DEF NewLog, OpenLog, Opening
  <2>2. edit'.add = edit.add
    BY <2>1 DEF Types, ControlType, Edit
  <2> QED  BY <1>in, <1>num, <1>1, <2>1, <2>2
<1>5. CASE OpenManifest \/ NewManifestSynced \/ Idles
  <2>1. UNCHANGED <<table, version, last_sequence, edit>>
    BY <1>5 DEF OpenManifest, NewManifestSynced, OpenSync, memory, Idles, disk
  <2>2. Opening
    BY <1>5 DEF OpenManifest, NewManifestSynced, OpenSync, Opening, Idles
  <2> QED  BY <1>in, <1>num, <1>1, <2>1, <2>2
<1> QED  BY <1>2, <1>3, <1>4, <1>5, OpeningSteps

\* A step is the write of one batch.
LEMMA OneWrite ==
  ASSUME Types, NEW b \in Batch, NEW sync \in BOOLEAN, AddRecord(b, sync)
  PROVE  /\ Live /\ writing = <<>>
         /\ \/ writing' = <<[entry |-> NewEntry(b), sync |-> sync, todo |-> sync]>> /\ Written' = {NewEntry(b)}
               /\ UNCHANGED <<doubt, last_sequence>>
            \/ /\ writing' = <<>> /\ Written' = {}
               /\ last_sequence' = last_sequence + 1 /\ b \in doubt' /\ "append" \in Faults
         /\ \A c \in Batch, s \in BOOLEAN : AddRecord(c, s) => c = b
<1>1. Live /\ writing = <<>>
  BY DEF AddRecord, Unlocked, Running, Live
<1>2. ASSUME NEW c \in Batch, NEW s \in BOOLEAN, AddRecord(c, s)
      PROVE  \/ writing' = <<[entry |-> NewEntry(c), sync |-> s, todo |-> s]>>
                /\ UNCHANGED <<doubt, last_sequence>>
             \/ /\ writing' = <<>> /\ last_sequence' = last_sequence + 1 /\ doubt' = doubt \cup {c}
                /\ c \notin doubt /\ "append" \in Faults
  BY <1>2 DEF AddRecord, NewEntry, Fault
<1>3. ASSUME writing' = <<>> PROVE Written' = {}
  BY <1>3 DEF Written
<1>4. ASSUME NEW w, writing' = <<w>> PROVE Written' = {w.entry}
  <2>1. Len(writing') = 1 /\ writing'[1] = w
    BY <1>4
  <2>2. 1..Len(writing') = {1}
    BY <2>1
  <2> QED  BY <2>1, <2>2 DEF Written
<1>5. ASSUME NEW c \in Batch, NEW s \in BOOLEAN, AddRecord(c, s) PROVE c = b
  <2> DEFINE w(x, y) == [entry |-> NewEntry(x), sync |-> y, todo |-> y]
  <2>1. CASE writing' = <<>>
    <3>1. \A x, y : <<w(x, y)>> # <<>>
      OBVIOUS
    <3>2. doubt' = doubt \cup {b} /\ b \notin doubt /\ doubt' = doubt \cup {c} /\ c \notin doubt
      BY <1>2, <1>5, <2>1, <3>1
    <3> QED  BY <3>2
  <2>2. CASE writing' # <<>>
    <3>1. writing' = <<w(b, sync)>> /\ writing' = <<w(c, s)>>
      BY <1>2, <1>5, <2>2
    <3>2. w(b, sync) = w(c, s)
      BY <3>1
    <3>3. NewEntry(b) = NewEntry(c)
      BY <3>2
    <3> QED  BY <3>3 DEF NewEntry
  <2> QED  BY <2>1, <2>2
<1>6. CASE writing' = <<>>
  BY <1>1, <1>2, <1>3, <1>5, <1>6
<1>7. CASE writing' # <<>>
  <2>1. writing' = <<[entry |-> NewEntry(b), sync |-> sync, todo |-> sync]>> /\ UNCHANGED <<doubt, last_sequence>>
    BY <1>2, <1>7
  <2>2. Written' = {NewEntry(b)}
    BY <1>4, <2>1
  <2> QED  BY <1>1, <1>5, <2>1, <2>2
<1> QED  BY <1>6, <1>7

\* The new manifest of DB::Open needs none of the old logs.
LEMMA NoLogLeft ==
  ASSUME Types, OpeningOK, NewCurrent
  PROVE  Opening /\ log' = log /\ LogsFrom(log, edit.log) = {} /\ edit.log = logfile_number
<1>1. /\ Opening /\ phase = "current" /\ log' = log
  BY DEF NewCurrent, OpenCurrent, Opening
<1>2. /\ edit.log = logfile_number /\ log[logfile_number] = EmptyFile
      /\ \A l \in DOMAIN log : l <= logfile_number
  BY <1>1 DEF OpeningOK
<1>3. \A l \in DOMAIN log : l >= edit.log => l = logfile_number
  BY <1>2 DEF Types, NumberType, LogType, Typed
<1> QED  BY <1>1, <1>2, <1>3 DEF LogsFrom, EmptyFile, Intact

\* The record of a write stays the same until the write ends.
LEMMA WrittenStep ==
  ASSUME Types, Types', BlankOK, BlankOK', [Next]_vars, NEW e \in Written'
  PROVE  Live' /\ (e \in Written \/ Fresh(e))
<1>1. CASE ~Live'
  <2>1. writing' = <<>>
    BY <1>1 DEF BlankOK, Live
  <2> QED  BY <2>1 DEF Written
<1>2. CASE Live' /\ NewCurrent
  <2>1. writing' = writing
    BY <1>2 DEF NewCurrent, OpenCurrent
  <2> QED  BY <1>2, <2>1 DEF Written
<1>3. CASE Live' /\ ~NewCurrent
  <2>1. ASSUME NEW b \in Batch, NEW sync \in BOOLEAN, AddRecord(b, sync) PROVE Fresh(e)
    <3>1. e = NewEntry(b)
      BY <2>1, OneWrite
    <3> QED  BY <2>1, <3>1 DEF Fresh
  <2>2. CASE SyncLog
    <3>1. writing # <<>> /\ (writing' = <<>> \/ writing' = <<[writing[1] EXCEPT !.todo = FALSE]>>)
      BY <2>2 DEF SyncLog
    <3>2. Written = {writing[1].entry} /\ writing[1] \in [entry: Entry, sync: BOOLEAN, todo: BOOLEAN]
      BY <3>1, WrittenOne DEF Types
    <3> DEFINE w == [writing[1] EXCEPT !.todo = FALSE]
    <3>3. w.entry = writing[1].entry
      BY <3>2
    <3> HIDE DEF w
    <3>4. writing' = <<w>>
      <4>1. writing' # <<>>
        BY DEF Written
      <4> QED  BY <3>1, <4>1 DEF w
    <3>5. Len(writing') = 1 /\ writing'[1] = w
      BY <3>4
    <3>6. 1..Len(writing') = {1}
      BY <3>5
    <3>7. Written' = {w.entry}
      BY <3>5, <3>6 DEF Written
    <3> QED  BY <1>3, <3>2, <3>3, <3>7
  <2>3. CASE FinishWrite
    <3>1. writing' = <<>>
      BY <2>3 DEF FinishWrite
    <3> QED  BY <3>1 DEF Written
  <2>4. CASE writing' = writing
    BY <1>3, <2>4 DEF Written
  <2> QED  BY <1>3, <2>1, <2>2, <2>3, <2>4, LiveChanges
<1> QED  BY <1>1, <1>2, <1>3

\* Only a write brings in an entry that was not there.
LEMMA KnownStep ==
  ASSUME Types, Types', BlankOK, BlankOK', ManifestOK, OpeningOK, LiveOK, BackgroundOK, SyncedOK,
         [Next]_vars, NEW e \in Known'
  PROVE  e \in Known \/ Fresh(e)
<1>1. CASE e \in Written'
  BY <1>1, WrittenStep DEF Known
<1>2. CASE e \in Recoverable'
  BY <1>2, RecoverableStep
<1>3. CASE e \in Settled'
  <2>1. CASE Live'
    BY <1>3, <2>1, SettledLive DEF Known
  <2>2. CASE Opening'
    <3>1. mem' = {} /\ imm' = {}
      BY <2>2 DEF BlankOK, Opening
    <3>2. e \in TableEntries(version \cup edit.add)'
      BY <1>3, <3>1 DEF Settled, TableEntries
    <3>3. Opening => current # 0 /\ Whole(Records) \in Outcomes(Named)
      BY OpeningNumbers
    <3>4. current # 0 /\ Whole(Records) \in Outcomes(Named) =>
            /\ TableEntries(Tables(Records, Whole(Records))) \subseteq Recoverable
            /\ LogsFrom(log, Records[Whole(Records)].log) \subseteq Recoverable
      BY DEF Recoverable, At, Records
    <3>5. TableEntries(version \cup edit.add) \subseteq Settled
      BY DEF Settled, TableEntries
    <3> QED  BY <2>2, <3>2, <3>3, <3>4, <3>5, OpeningEntries DEF Known
  <2>3. CASE ~Live' /\ ~Opening'
    <3>1. mem' = {} /\ imm' = {} /\ version' = {} /\ edit' = NoEdit
      BY <2>3 DEF BlankOK, Live, Opening, Types, ControlType, Phase
    <3> QED  BY <1>3, <3>1 DEF Settled, TableEntries, NoEdit
  <2> QED  BY <2>1, <2>2, <2>3
<1>4. CASE Live' /\ e \in LogsFrom(log', log_number')
  <2>1. CASE NewCurrent
    <3>1. log_number' = edit.log /\ log' = log /\ LogsFrom(log, edit.log) = {}
      BY <2>1, NoLogLeft DEF NewCurrent, OpenCurrent
    <3> QED  BY <1>4, <3>1
  <2>2. CASE ~NewCurrent
    <3>1. Live /\ (log_number' = log_number \/ ApplyInstall)
      BY <1>4, <2>2, LiveChanges, LiveSteps
    <3>2. ASSUME ApplyInstall PROVE log' = log /\ log_number' = edit.log /\ log_number <= edit.log
      BY <3>1, <3>2 DEF ApplyInstall, disk, BackgroundOK, Edited
    <3>3. \A l \in DOMAIN log : l \in Nat
      BY DEF Types, LogType, Typed
    <3>4. log_number \in Nat /\ edit.log \in Nat
      BY DEF Types, NumberType, ControlType, Edit
    <3>5. log_number <= edit.log => LogsFrom(log, edit.log) \subseteq LogsFrom(log, log_number)
      BY <3>3, <3>4 DEF LogsFrom
    <3>6. e \in LogsFrom(log, log_number) \/ Fresh(e)
      BY <1>4, <3>1, <3>2, <3>5, LogsFromLogged
    <3> QED  BY <3>1, <3>6 DEF Known
  <2> QED  BY <2>1, <2>2
<1> QED  BY <1>1, <1>2, <1>3, <1>4 DEF Known

\* What a crash may bring back was once written.
LEMMA KnownType ==
  ASSUME Types, ManifestOK
  PROVE  Known \subseteq Entry
<1>1. Settled \subseteq Entry
  BY TableEntriesType DEF Settled, Types, DataType
<1>2. Written \subseteq Entry
  <2>1. CASE writing = <<>>
    BY <2>1 DEF Written
  <2>2. CASE writing # <<>>
    BY <2>2, WrittenOne DEF Types
  <2> QED  BY <2>1, <2>2
<1>3. \A n : LogsFrom(log, n) \subseteq Entry
  BY LogEntriesType DEF LogsFrom, LogEntries, Types
<1>4. Recoverable \subseteq Entry
  BY <1>3, TableEntriesType DEF Recoverable, At, Types
<1> QED  BY <1>1, <1>2, <1>3, <1>4 DEF Known

\* The entry a write appends has a number that nothing else has.
LEMMA FreshEntry ==
  ASSUME Types, NEW e, Fresh(e)
  PROVE  /\ Live /\ e \in Entry /\ e.seq = last_sequence + 1 /\ Written = {}
         /\ e \in Written' \/ last_sequence' = last_sequence + 1
         /\ \A f : Fresh(f) => f = e
<1>1. PICK b \in Batch, sync \in BOOLEAN : AddRecord(b, sync) /\ e = NewEntry(b)
  BY DEF Fresh
<1>2. /\ Live /\ writing = <<>>
      /\ \/ writing' = <<[entry |-> NewEntry(b), sync |-> sync, todo |-> sync]>> /\ Written' = {NewEntry(b)}
            /\ UNCHANGED <<doubt, last_sequence>>
         \/ /\ writing' = <<>> /\ Written' = {}
            /\ last_sequence' = last_sequence + 1 /\ b \in doubt' /\ "append" \in Faults
      /\ \A c \in Batch, s \in BOOLEAN : AddRecord(c, s) => c = b
  BY <1>1, OneWrite
<1>3. Written = {}
  BY <1>2 DEF Written
<1>4. last_sequence + 1 \in Nat
  BY DEF Types, NumberType
<1>5. e.seq = last_sequence + 1 /\ e \in Entry
  BY <1>1, <1>4 DEF NewEntry, Entry
<1> QED  BY <1>1, <1>2, <1>3, <1>5 DEF Fresh

\* So no two entries have the same sequence number.
LEMMA DistinctStep ==
  ASSUME Types, Types', BlankOK, BlankOK', ManifestOK, OpeningOK, LiveOK, BackgroundOK, SyncedOK,
         SequenceOK, [Next]_vars, NEW e \in Known', NEW f \in Known', e.seq = f.seq
  PROVE  e = f
<1>1. (e \in Known \/ Fresh(e)) /\ (f \in Known \/ Fresh(f))
  BY KnownStep
<1>2. ASSUME NEW x, NEW y, Fresh(x), y \in Known, x.seq = y.seq PROVE FALSE
  <2>1. Live /\ x.seq = last_sequence + 1 /\ Written = {}
    BY <1>2, FreshEntry
  <2>2. y.seq <= last_sequence /\ last_sequence \in Nat
    BY <1>2, <2>1 DEF SequenceOK, Types, NumberType
  <2>3. ~(last_sequence + 1 <= last_sequence)
    BY <2>2
  <2> QED  BY <1>2, <2>1, <2>2, <2>3
<1>3. CASE e \in Known /\ f \in Known
  BY <1>3 DEF SequenceOK
<1>4. CASE Fresh(e) /\ Fresh(f)
  BY <1>4, FreshEntry
<1> QED  BY <1>1, <1>2, <1>3, <1>4

\* An outcome of the manifest knows the numbers of the entries in its tables.
LEMMA OutcomeSequence ==
  ASSUME Types, Types', BlankOK, BlankOK', ManifestOK, OpeningOK, LiveOK, BackgroundOK, SyncedOK,
         SequenceOK, [Next]_vars, current' # 0, NEW k \in Outcomes(Named'),
         NEW e \in EntriesIn(table', Tables(Records', k))
  PROVE  e.seq <= Records'[k].last
<1>1. \A j : current # 0 /\ j \in Outcomes(Named) =>
        /\ \A x \in EntriesIn(table, Tables(Records, j)) : x.seq <= Records[j].last
        /\ Tables(Records, j) \subseteq Used
  BY DEF SequenceOK, TableEntries, EntriesIn, Used
<1>2. CASE /\ current # 0 /\ k \in Outcomes(Named)
           /\ Tables(Records', k) = Tables(Records, k) /\ Records'[k] = Records[k]
  <2>1. EntriesIn(table', Tables(Records, k)) = EntriesIn(table, Tables(Records, k))
    BY <1>1, <1>2, EntriesKept
  <2> QED  BY <1>1, <1>2, <2>1
<1>3. CASE Tables(Records', k) = {}
  BY <1>3 DEF EntriesIn
<1>4. CASE /\ NewCurrent /\ Tables(Records', k) = edit.add \cup version
           /\ Records'[k] = [log |-> edit.log, next |-> next_file, last |-> last_sequence,
                             add |-> edit.add \cup version, del |-> {}]
  <2>1. Opening
    BY <1>4, NoLogLeft
  <2>2. edit.add \cup version \subseteq Used
    BY <2>1 DEF Used
  <2>3. EntriesIn(table', edit.add \cup version) = EntriesIn(table, edit.add \cup version)
    BY <2>2, EntriesKept
  <2>4. e \in TableEntries(version \cup edit.add)
    BY <1>4, <2>3 DEF TableEntries, EntriesIn
  <2>5. e.seq <= last_sequence
    BY <2>1, <2>4 DEF SequenceOK
  <2> QED  BY <1>4, <2>5
<1>5. CASE /\ ApplyAdd /\ current # 0 /\ Whole(Records) = Len(Records) /\ Len(Records) \in Outcomes(Named)
           /\ Tables(Records', k) = (Tables(Records, Len(Records)) \ edit.del) \cup edit.add
           /\ Records'[k] = edit
  <2> DEFINE n == Len(Records)
  <2>1. Live /\ Edited /\ table' = table
    BY <1>5 DEF ApplyAdd, Running, Live, Edited
  <2>2. e \in EntriesIn(table, Tables(Records, n)) \/ e \in TableEntries(edit.add)
    BY <1>5, <2>1 DEF EntriesIn, TableEntries
  <2>3. n \in DOMAIN Records /\ Records[n] # Torn /\ Records[n] \in Edit
    <3>1. n \in 1..Whole(Records) /\ DOMAIN Records = 1..Len(Records)
      BY <1>5, NamedType
    <3> QED  BY <1>5, <3>1, NamedType
  <2>4. Records[n].last <= edit.last /\ \A x \in TableEntries(edit.add) : x.seq <= edit.last
    BY <2>1, <2>3 DEF SequenceOK
  <2>5. Records[n].last \in Nat /\ edit.last \in Nat
    BY <2>3 DEF Types, ControlType, Edit
  <2>6. CASE e \in EntriesIn(table, Tables(Records, n))
    <3>1. e.seq <= Records[n].last
      BY <1>1, <1>5, <2>6
    <3>2. e.seq \in Nat
      <4>1. e \in Entry
        BY <2>6, TableEntriesType DEF TableEntries, EntriesIn, Types
      <4> QED  BY <4>1 DEF Entry
    <3> HIDE DEF n
    <3>3. e.seq <= edit.last
      BY <2>4, <2>5, <3>1, <3>2
    <3> QED  BY <1>5, <3>3
  <2>7. CASE e \in TableEntries(edit.add)
    BY <1>5, <2>4, <2>7
  <2> QED  BY <2>2, <2>6, <2>7
<1> QED  BY <1>2, <1>3, <1>4, <1>5, OutcomeStep

\* DB::Open knows the numbers of what it recovered so far.
LEMMA OpeningSequence ==
  ASSUME Types, Types', BlankOK, BlankOK', ManifestOK, OpeningOK, LiveOK, BackgroundOK, SyncedOK,
         SequenceOK, [Next]_vars, Opening', NEW e \in TableEntries(version \cup edit.add)'
  PROVE  e.seq <= last_sequence'
<1>1. CASE /\ current # 0 /\ Whole(Records) \in Outcomes(Named)
           /\ e \in TableEntries(Tables(Records, Whole(Records)))
           /\ last_sequence' = Records[Whole(Records)].last
  BY <1>1 DEF SequenceOK
<1>2. CASE Opening /\ e \in TableEntries(version \cup edit.add) /\ last_sequence <= last_sequence'
  <2>1. e.seq <= last_sequence
    BY <1>2 DEF SequenceOK
  <2>2. e \in Entry
    BY <1>2, TableEntriesType DEF Types
  <2>3. e.seq \in Nat /\ last_sequence \in Nat /\ last_sequence' \in Nat
    BY <2>2 DEF Entry, Types, NumberType
  <2> QED  BY <1>2, <2>1, <2>3
<1> QED  BY <1>1, <1>2, OpeningEntries

\* The last sequence number of a running database never falls, and a record
\* that was being written keeps its number or is done.
LEMMA LastSequence ==
  ASSUME Types, Types', BlankOK, SequenceOK, [Next]_vars, Live', ~NewCurrent
  PROVE  /\ Live /\ last_sequence <= last_sequence'
         /\ \A e \in Written : \/ e \in Written' /\ last_sequence' = last_sequence
                               \/ Written' = {} /\ last_sequence' = last_sequence + 1
         /\ SyncLog \/ FinishWrite => Written' = {} \/ (Written' = Written /\ last_sequence' = last_sequence)
<1>live. Live
  BY LiveSteps
<1>num. last_sequence \in Nat /\ last_sequence' \in Nat
        /\ last_sequence <= last_sequence /\ last_sequence <= last_sequence + 1
  BY DEF Types, NumberType
<1>1. ASSUME NEW b \in Batch, NEW sync \in BOOLEAN, AddRecord(b, sync)
      PROVE  Written = {} /\ (last_sequence' = last_sequence \/ last_sequence' = last_sequence + 1)
             /\ ~SyncLog /\ ~FinishWrite
  <2>1. writing = <<>> /\ (last_sequence' = last_sequence \/ last_sequence' = last_sequence + 1)
    BY <1>1, OneWrite
  <2> QED  BY <2>1 DEF Written, SyncLog, FinishWrite
<1>2. CASE SyncLog
  <2>1. writing # <<>>
        /\ \/ writing' = <<[writing[1] EXCEPT !.todo = FALSE]>> /\ last_sequence' = last_sequence
           \/ writing' = <<>> /\ last_sequence' = last_sequence + 1
    BY <1>2 DEF SyncLog
  <2>2. Written = {writing[1].entry} /\ writing[1] \in [entry: Entry, sync: BOOLEAN, todo: BOOLEAN]
    BY <2>1, WrittenOne DEF Types
  <2>3. CASE writing' = <<>>
    <3>1. \A w : <<w>> # <<>>
      OBVIOUS
    <3>2. Written' = {} /\ last_sequence' = last_sequence + 1
      BY <2>1, <2>3, <3>1 DEF Written
    <3> QED  BY <1>live, <1>num, <3>2
  <2>4. CASE writing' # <<>>
    <3> DEFINE w == [writing[1] EXCEPT !.todo = FALSE]
    <3>1. w.entry = writing[1].entry
      BY <2>2
    <3> HIDE DEF w
    <3>2. writing' = <<w>> /\ last_sequence' = last_sequence
      BY <2>1, <2>4 DEF w
    <3>3. Len(writing') = 1 /\ writing'[1] = w
      BY <3>2
    <3>4. 1..Len(writing') = {1}
      BY <3>3
    <3>5. Written' = {w.entry}
      BY <3>3, <3>4 DEF Written
    <3> QED  BY <1>live, <1>num, <2>2, <3>1, <3>2, <3>5
  <2> QED  BY <2>3, <2>4
<1>3. CASE FinishWrite
  <2>1. writing # <<>> /\ writing' = <<>> /\ last_sequence' = writing[1].entry.seq
    BY <1>3 DEF FinishWrite
  <2>2. Written = {writing[1].entry} /\ Written' = {}
    <3>1. Written = {writing[1].entry}
      BY <2>1, WrittenOne DEF Types
    <3>2. Written' = {}
      BY <2>1 DEF Written
    <3> QED  BY <3>1, <3>2
  <2>3. last_sequence' = last_sequence + 1
    BY <1>live, <2>1, <2>2 DEF SequenceOK
  <2> QED  BY <1>live, <1>num, <2>2, <2>3
<1>4. CASE writing' = writing /\ last_sequence' = last_sequence /\ ~SyncLog /\ ~FinishWrite
  BY <1>live, <1>num, <1>4 DEF Written
<1> QED  BY <1>live, <1>num, <1>1, <1>2, <1>3, <1>4, LiveChanges

\* When DB::Open installs its manifest, what it knows of is in tables.
LEMMA NewCurrentKnown ==
  ASSUME Types, Types', BlankOK, BlankOK', ManifestOK, OpeningOK, LiveOK, BackgroundOK, SyncedOK,
         [Next]_vars, NewCurrent, NEW e \in Known'
  PROVE  /\ Opening /\ e \in TableEntries(version \cup edit.add) /\ Written' = {}
         /\ last_sequence' = last_sequence
<1>1. Opening /\ log' = log /\ LogsFrom(log, edit.log) = {}
  BY NoLogLeft
<1>2. /\ mem = {} /\ imm = {} /\ writing = <<>>
  BY <1>1 DEF BlankOK, Opening
<1>3. /\ version' = version \cup edit.add /\ log_number' = edit.log /\ edit' = NoEdit
      /\ UNCHANGED <<mem, imm, writing, last_sequence, table>> /\ current' = manifest_number
  BY DEF NewCurrent, OpenCurrent
<1>4. /\ Written' = {} /\ last_sequence' = last_sequence
  BY <1>2, <1>3 DEF Written
<1>5. LogsFrom(log', log_number') = {}
  BY <1>1, <1>3
<1>6. CASE e \in Settled'
  <2>1. Settled' = EntriesIn(table, version \cup edit.add) \cup EntriesIn(table, {})
    BY <1>2, <1>3 DEF Settled, TableEntries, EntriesIn, NoEdit
  <2> QED  BY <1>1, <1>4, <1>6, <2>1 DEF TableEntries, EntriesIn
<1>7. CASE e \in Recoverable'
  <2>1. PICK k : k \in Outcomes(Named') /\ current' # 0
                 /\ e \in EntriesIn(table', Tables(Records', k)) \cup LogsFrom(log', Records'[k].log)
    BY <1>7 DEF Recoverable, At, TableEntries, EntriesIn, Records
  <2>2. ~NewDBCurrent /\ ~ApplyAdd
    BY DEF NewCurrent, OpenCurrent, NewDBCurrent, ApplyAdd, Running
  <2>3. Tables(Records', k) = edit.add \cup version /\ Records'[k].log = edit.log
    BY <2>1, <2>2, OutcomeStep
  <2>4. e \in EntriesIn(table, edit.add \cup version)
    BY <1>1, <1>3, <2>1, <2>3
  <2> QED  BY <1>1, <1>4, <2>4 DEF TableEntries, EntriesIn
<1> QED  BY <1>4, <1>5, <1>6, <1>7 DEF Known

\* A running database gives out a number that is new.
LEMMA LiveSequence ==
  ASSUME Types, Types', BlankOK, BlankOK', ManifestOK, OpeningOK, LiveOK, BackgroundOK, SyncedOK,
         SequenceOK, [Next]_vars, Live'
  PROVE  /\ \A e \in Known' : e.seq <= last_sequence' \/ e \in Written'
         /\ \A e \in Settled' : e.seq <= last_sequence'
         /\ \A e \in Written' : e.seq = last_sequence' + 1
<1>1. CASE NewCurrent
  <2>1. ASSUME NEW e \in Known' PROVE e.seq <= last_sequence' /\ Written' = {}
    BY <1>1, <2>1, NewCurrentKnown DEF SequenceOK
  <2> QED  BY <2>1 DEF Known
<1>2. CASE ~NewCurrent
  <2>num. last_sequence \in Nat /\ last_sequence' \in Nat
    BY DEF Types, NumberType
  <2>1. /\ Live /\ last_sequence <= last_sequence'
        /\ \A e \in Written : \/ e \in Written' /\ last_sequence' = last_sequence
                              \/ Written' = {} /\ last_sequence' = last_sequence + 1
        /\ SyncLog \/ FinishWrite => Written' = {} \/ (Written' = Written /\ last_sequence' = last_sequence)
    BY <1>2, LastSequence
  <2>up. ASSUME NEW x \in Nat, x <= last_sequence PROVE x <= last_sequence'
    BY <2>num, <2>1, <2>up
  <2>2. \A e \in Written : e \in Entry /\ e.seq = last_sequence + 1
    <3>1. Written \subseteq Entry
      <4>1. CASE writing = <<>>
        BY <4>1 DEF Written
      <4>2. CASE writing # <<>>
        BY <4>2, WrittenOne DEF Types
      <4> QED  BY <4>1, <4>2
    <3> QED  BY <2>1, <3>1 DEF SequenceOK
  <2>3. ASSUME NEW e \in Known' PROVE e.seq <= last_sequence' \/ e \in Written'
    <3>1. CASE Fresh(e)
      <4>1. e.seq = last_sequence + 1 /\ (e \in Written' \/ last_sequence' = last_sequence + 1)
        BY <3>1, FreshEntry
      <4> QED  BY <2>num, <4>1
    <3>2. CASE e \in Known /\ e \in Written
      <4>1. e.seq = last_sequence + 1
        BY <2>2, <3>2
      <4>2. e \in Written' \/ last_sequence' = last_sequence + 1
        BY <2>1, <3>2
      <4> QED  BY <2>num, <4>1, <4>2
    <3>3. CASE e \in Known /\ e \notin Written
      <4>1. e.seq <= last_sequence
        BY <2>1, <3>3 DEF SequenceOK
      <4>2. e.seq \in Nat
        BY <3>3, KnownType DEF Entry
      <4> QED  BY <2>up, <4>1, <4>2
    <3> QED  BY <3>1, <3>2, <3>3, KnownStep
  <2>4. ASSUME NEW e \in Settled' PROVE e.seq <= last_sequence'
    <3>1. CASE e \in Settled
      <4>1. e.seq <= last_sequence
        BY <2>1, <3>1 DEF SequenceOK
      <4>2. e.seq \in Nat
        BY <3>1, KnownType DEF Entry, Known
      <4> QED  BY <2>up, <4>1, <4>2
    <3>2. CASE FinishWrite /\ e \in Written
      <4>1. writing' = <<>>
        BY <3>2 DEF FinishWrite
      <4>2. Written' = {}
        BY <4>1 DEF Written
      <4>3. last_sequence' = last_sequence + 1 /\ e.seq = last_sequence + 1
        BY <2>1, <2>2, <3>2, <4>2
      <4> QED  BY <2>num, <4>3
    <3> QED  BY <3>1, <3>2, SettledLive
  <2>5. ASSUME NEW e \in Written' PROVE e.seq = last_sequence' + 1
    <3>1. CASE Fresh(e)
      <4>1. PICK b \in Batch, sync \in BOOLEAN : AddRecord(b, sync) /\ e = NewEntry(b)
        BY <3>1 DEF Fresh
      <4>2. last_sequence' = last_sequence
        BY <4>1, OneWrite
      <4> QED  BY <3>1, <4>2, FreshEntry
    <3>2. CASE e \in Written
      <4>1. last_sequence' = last_sequence
        BY <2>1, <2>5, <3>2
      <4> QED  BY <2>2, <3>2, <4>1
    <3> QED  BY <3>1, <3>2, WrittenStep
  <2> QED  BY <2>3, <2>4, <2>5
<1> QED  BY <1>1, <1>2

\* Where the edit of a running database comes from.
LEMMA EditedSteps ==
  ASSUME Types, BlankOK, LiveOK, BackgroundOK, [Next]_vars, Live', Edited'
  PROVE  /\ Live /\ ~NewCurrent
         /\ \/ Edited /\ edit' = edit
            \/ /\ FlushBuilt \/ CompactBuilt
               /\ ~Edited /\ edit'.last = last_sequence /\ last_sequence' = last_sequence
               /\ manifest' = manifest
<1>1. ~NewCurrent
  <2>1. ASSUME NewCurrent PROVE bgpc' = bgpc /\ bgpc = "idle"
    BY <2>1 DEF NewCurrent, OpenCurrent, BlankOK
  <2> QED  BY <2>1 DEF Edited
<1>2. Live
  BY <1>1, LiveSteps
<1>3. CASE FlushBuilt
  <2>1. \/ /\ edit' = [edit EXCEPT !.log = FlushedLogNumber, !.next = next_file, !.last = last_sequence]
           /\ bgpc' = "add"
        \/ bgpc' = Resume
    BY <1>3 DEF FlushBuilt
  <2>2. bgpc' # Resume
    BY DEF Resume, Edited
  <2>3. edit'.last = last_sequence
    BY <2>1, <2>2 DEF Types, ControlType, Edit
  <2> QED  BY <1>1, <1>2, <1>3, <2>3 DEF FlushBuilt, Edited
<1>4. CASE CompactBuilt
  <2>1. \/ edit'.last = last_sequence
        \/ bgpc' = "idle"
    BY <1>4 DEF CompactBuilt
  <2> QED  BY <1>1, <1>2, <1>4, <2>1 DEF CompactBuilt, Edited
<1>5. CASE ApplyAdd \/ ApplySync
  <2>1. \/ edit' = edit
        \/ bgpc' = Resume \/ bgpc' = "idle"
    BY <1>5 DEF ApplyAdd, ApplySync, ApplyFailed
  <2> QED  BY <1>1, <1>2, <1>5, <2>1 DEF Resume, Edited, ApplyAdd, ApplySync
<1>6. CASE FlushStart \/ CompactStart \/ ApplyInstall \/ CleanupDone
  <2>1. bgpc' \in {"build", "compact", "idle", "cleanup"}
    BY <1>6 DEF FlushStart, CompactStart, ApplyInstall, CleanupDone, Resume
  <2> QED  BY <2>1 DEF Edited
<1>7. CASE edit' = edit /\ bgpc' = bgpc
  BY <1>1, <1>2, <1>7 DEF Edited
<1> QED  BY <1>1, <1>3, <1>4, <1>5, <1>6, <1>7, LiveChanges

\* The manifest of a running database is not ahead of it, and an edit knows
\* the numbers of the entries in its tables.
LEMMA RecordSequence ==
  ASSUME Types, Types', BlankOK, BlankOK', ManifestOK, OpeningOK, LiveOK, BackgroundOK, SyncedOK,
         SequenceOK, [Next]_vars, Live'
  PROVE  /\ \A i \in (DOMAIN Records)' : Records'[i] # Torn => Records'[i].last <= last_sequence'
         /\ Edited' =>
              /\ \A i \in (DOMAIN Records)' : Records'[i] # Torn => Records'[i].last <= edit'.last
              /\ edit'.last <= last_sequence'
              /\ \A e \in EntriesIn(table', edit'.add) : e.seq <= edit'.last
<1>num. last_sequence \in Nat /\ last_sequence' \in Nat
  BY DEF Types, NumberType
<1>1. CASE NewCurrent
  <2> DEFINE r == [log |-> edit.log, next |-> next_file, last |-> last_sequence,
                   add |-> edit.add \cup version, del |-> {}]
             f == Named'
  <2>1. f.recs = <<r>> /\ r.last = last_sequence
    BY <1>1, NamedNew
  <2> HIDE DEF r, f
  <2>2. DOMAIN f.recs = {1} /\ f.recs[1] = r
    BY <2>1
  <2>3. Records' = f.recs
    BY DEF Records, f
  <2>4. last_sequence' = last_sequence
    BY <1>1 DEF NewCurrent, OpenCurrent
  <2>5. ~Edited'
    BY <1>1, EditedSteps
  <2>6. last_sequence <= last_sequence
    BY <1>num
  <2> QED  BY <2>1, <2>2, <2>3, <2>4, <2>5, <2>6
<1>2. CASE ~NewCurrent
  <2>1. Live /\ last_sequence <= last_sequence'
    BY <1>2, LastSequence
  <2>2. current # 0 /\ \A i \in (DOMAIN Records)' : Records'[i] # Torn =>
              \/ i \in DOMAIN Records /\ Records'[i] = Records[i]
              \/ ApplyAdd /\ Records'[i] = edit
    BY <1>2, RecordsKept
  <2>3. \A i \in DOMAIN Records : Records[i] # Torn =>
          Records[i].last <= last_sequence /\ Records[i].last \in Nat
    BY <2>1, <2>2, NamedType DEF SequenceOK, Edit
  <2>4. edit.last \in Nat
    BY DEF Types, ControlType, Edit
  <2>5. ApplyAdd => Edited
    BY DEF ApplyAdd, Edited
  <2>6. Edited => edit.last <= last_sequence
    BY <2>1 DEF SequenceOK
  <2>up. ASSUME NEW x \in Nat, x <= last_sequence PROVE x <= last_sequence'
    BY <1>num, <2>1, <2>up
  <2>7. ASSUME NEW i \in (DOMAIN Records)', Records'[i] # Torn PROVE Records'[i].last <= last_sequence'
    <3>1. CASE i \in DOMAIN Records /\ Records'[i] = Records[i]
      BY <2>3, <2>7, <2>up, <3>1
    <3>2. CASE ApplyAdd /\ Records'[i] = edit
      BY <2>4, <2>5, <2>6, <2>up, <3>2
    <3> QED  BY <2>2, <2>7, <3>1, <3>2
  <2>8. CASE Edited' /\ Edited /\ edit' = edit
    <3>1. edit.add \subseteq Used
      BY <2>8 DEF Used
    <3>2. EntriesIn(table', edit.add) = EntriesIn(table, edit.add)
      BY <3>1, EntriesKept
    <3>3. \A e \in EntriesIn(table, edit.add) : e.seq <= edit.last
      BY <2>1, <2>8 DEF SequenceOK, EntriesIn, TableEntries
    <3>4. \A i \in DOMAIN Records : Records[i] # Torn => Records[i].last <= edit.last
      BY <2>1, <2>8 DEF SequenceOK
    <3>5. edit.last <= edit.last
      BY <2>4
    <3>6. edit.last <= last_sequence'
      BY <2>4, <2>6, <2>8, <2>up
    <3> QED  BY <2>2, <2>7, <2>8, <3>2, <3>3, <3>4, <3>5, <3>6
  <2>9. CASE /\ Edited'
             /\ FlushBuilt \/ CompactBuilt
             /\ ~Edited /\ edit'.last = last_sequence /\ last_sequence' = last_sequence
    <3>1. EntriesIn(table', edit'.add) \subseteq Settled'
      BY DEF Settled, TableEntries, EntriesIn
    <3>2. \A e \in EntriesIn(table', edit'.add) : e.seq <= last_sequence'
      BY <3>1, LiveSequence
    <3>3. last_sequence <= last_sequence
      BY <1>num
    <3> QED  BY <2>7, <2>9, <3>2, <3>3
  <2> QED  BY <2>7, <2>8, <2>9, EditedSteps
<1> QED  BY <1>1, <1>2

\* Sequence numbers stay distinct.
LEMMA SequenceStep ==
  ASSUME Types, Types', BlankOK, BlankOK', ManifestOK, OpeningOK, LiveOK, BackgroundOK, SyncedOK,
         SequenceOK, [Next]_vars
  PROVE  SequenceOK'
<1>1. \A e, f \in Known' : e.seq = f.seq => e = f
  BY DistinctStep
<1>2. ASSUME current' # 0
      PROVE  \A k \in Outcomes(Named)' : \A e \in TableEntries(Tables(Records, k))' : e.seq <= Records'[k].last
  <2>1. ASSUME NEW k, k \in Outcomes(Named') PROVE TableEntries(Tables(Records, k))' = EntriesIn(table', Tables(Records', k))
    BY DEF TableEntries, EntriesIn
  <2> QED  BY <1>2, <2>1, OutcomeSequence
<1>3. Opening' => \A e \in TableEntries(version \cup edit.add)' : e.seq <= last_sequence'
  BY OpeningSequence
<1>4. Live' =>
        /\ \A e \in Known' : e.seq <= last_sequence' \/ e \in Written'
        /\ \A e \in Settled' : e.seq <= last_sequence'
        /\ \A e \in Written' : e.seq = last_sequence' + 1
  BY LiveSequence
<1>5. TableEntries(edit.add)' = EntriesIn(table', edit'.add)
  BY DEF TableEntries, EntriesIn
<1>6. Live' =>
        /\ \A i \in (DOMAIN Records)' : Records'[i] # Torn => Records'[i].last <= last_sequence'
        /\ Edited' =>
             /\ \A i \in (DOMAIN Records)' : Records'[i] # Torn => Records'[i].last <= edit'.last
             /\ edit'.last <= last_sequence'
             /\ \A e \in EntriesIn(table', edit'.add) : e.seq <= edit'.last
  BY RecordSequence
<1> QED  BY <1>1, <1>2, <1>3, <1>4, <1>5, <1>6 DEF SequenceOK

\* The numbers are distinct at first: there are none.
LEMMA SequenceInit == ASSUME Init PROVE SequenceOK
<1>1. /\ mem = {} /\ imm = {} /\ version = {} /\ edit.add = {} /\ writing = <<>> /\ current = 0
      /\ ~Live /\ ~Opening
  BY DEF Init, NoEdit, Live, Opening
<1>2. Written = {}
  BY <1>1 DEF Written
<1>3. TableEntries({}) = {}
  BY DEF TableEntries
<1>4. Recoverable = {}
  BY <1>1 DEF Recoverable
<1>5. Known = {}
  BY <1>1, <1>2, <1>3, <1>4 DEF Known, Settled
<1> QED  BY <1>1, <1>5 DEF SequenceOK

\* No entry of the database, of its logs or of anything a crash may bring back
\* shares its sequence number with another.
THEOREM SequenceHolds == Spec => [](Structure /\ SequenceOK)
<1>1. Init => Structure /\ SequenceOK
  BY StructureInit, SequenceInit
<1>2. Structure /\ SequenceOK /\ [Next]_vars => Structure' /\ SequenceOK'
  <2>1. ASSUME Structure, SequenceOK, [Next]_vars PROVE Structure' /\ SequenceOK'
    <3>1. Structure'
      BY <2>1, StructureStep
    <3> QED  BY <2>1, <3>1, SequenceStep DEF Structure
  <2> QED  BY <2>1
<1> QED  BY <1>1, <1>2, PTL DEF Spec

\* No two batches of the database have the same sequence number, and the next
\* one that Write gives out is new, whatever was lost and replayed: every entry
\* that memory, a table, a log or an outcome of the manifest holds has a number
\* of its own (KnownStep: only AddRecord brings in a new one), and what DB::Open
\* takes for the last number is not below any of them.
THEOREM NumbersDistinct == Spec => []SequencesDistinct
<1>1. Structure /\ SequenceOK => SequencesDistinct
  <2>1. ASSUME SequenceOK, phase = "open" PROVE SequencesDistinct
    <3>1. Live /\ Visible \subseteq Settled /\ Settled \subseteq Known
      BY <2>1 DEF Live, Visible, Settled, Known
    <3> QED  BY <2>1, <3>1 DEF SequenceOK, SequencesDistinct
  <2> QED  BY <2>1 DEF SequencesDistinct
<1> QED  BY <1>1, SequenceHolds, PTL

-----------------------------------------------------------------------------
(* What is promised.                                                       *)

\* Files that agree as far as one of them goes have its intact records in
\* common.
LEMMA IntactAgree ==
  ASSUME NEW R, NEW a \in Seq(R), NEW b \in Seq(R), Len(a) <= Len(b), \A i \in 1..Len(a) : a[i] = b[i]
  PROVE  Intact(a) \subseteq Intact(b)
<1>1. Len(a) \in Nat /\ Len(b) \in Nat
  BY LenProperties
<1>2. ASSUME NEW e \in Intact(a) PROVE e \in Intact(b)
  <2>1. PICK i \in 1..Len(a) : e = a[i] /\ \A k \in 1..i : a[k] # Torn
    BY <1>2, IntactMember
  <2>2. i \in 1..Len(b) /\ \A k \in 1..i : k \in 1..Len(a)
    BY <1>1, <2>1
  <2>3. e = b[i] /\ \A k \in 1..i : b[k] # Torn
    BY <2>1, <2>2
  <2> QED  BY <2>2, <2>3, IntactMember
<1> QED  BY <1>2

\* What is on the disk of a file is a part of it, and of what it will be.
LEMMA SyncedGrows ==
  ASSUME NEW R, NEW f \in File(R), NEW g \in File(R), f.durable <= g.durable,
         \/ g.recs = f.recs
         \/ \E r \in R \cup {Torn} : g.recs = Append(f.recs, r)
         \/ g.recs = SubSeq(f.recs, 1, g.durable) /\ g.durable <= Len(f.recs)
  PROVE  /\ Synced(f) \subseteq Synced(g)
         /\ Synced(f) \subseteq Intact(f.recs)
<1>1. /\ f.recs \in Seq(R \cup {Torn}) /\ g.recs \in Seq(R \cup {Torn})
      /\ f.durable \in Nat /\ g.durable \in Nat
      /\ f.durable <= Len(f.recs) /\ g.durable <= Len(g.recs)
      /\ Len(f.recs) \in Nat /\ Len(g.recs) \in Nat
  BY LenProperties DEF File
<1> DEFINE a == SubSeq(f.recs, 1, f.durable)
           b == SubSeq(g.recs, 1, g.durable)
           T == R \cup {Torn}
<1>2. a \in Seq(T) /\ Len(a) = f.durable /\ \A i \in 1..f.durable : a[i] = f.recs[i]
  BY <1>1
<1>3. b \in Seq(T) /\ Len(b) = g.durable /\ \A i \in 1..g.durable : b[i] = g.recs[i]
  BY <1>1
<1>4. \A i \in 1..f.durable : i \in 1..g.durable /\ i \in 1..Len(f.recs)
  BY <1>1
<1>5. \A i \in 1..f.durable : g.recs[i] = f.recs[i]
  <2>1. CASE g.recs = f.recs
    BY <2>1
  <2>2. ASSUME NEW r \in T, g.recs = Append(f.recs, r) PROVE \A i \in 1..Len(f.recs) : g.recs[i] = f.recs[i]
    BY <1>1, <2>2, AppendProperties
  <2>3. CASE g.recs = SubSeq(f.recs, 1, g.durable) /\ g.durable <= Len(f.recs)
    BY <1>1, <1>4, <2>3
  <2> QED  BY <1>4, <2>1, <2>2, <2>3
<1> HIDE DEF a, b, T
<1>6. Intact(a) \subseteq Intact(b)
  <2>1. Len(a) <= Len(b) /\ \A i \in 1..Len(a) : a[i] = b[i]
    BY <1>2, <1>3, <1>4, <1>5
  <2> QED  BY <1>2, <1>3, <2>1, IntactAgree
<1>7. Intact(a) \subseteq Intact(f.recs)
  <2>1. Len(a) <= Len(f.recs) /\ \A i \in 1..Len(a) : a[i] = f.recs[i]
    BY <1>1, <1>2
  <2>2. f.recs \in Seq(T)
    BY <1>1 DEF T
  <2> QED  BY <1>2, <2>1, <2>2, IntactAgree
<1> QED  BY <1>6, <1>7 DEF a, b, Synced

\* A log disappears only when it is obsolete.
LEMMA LogKept ==
  ASSUME Types, OpeningOK, LiveOK, [Next]_vars, NEW l \in DOMAIN log
  PROVE  l \in DOMAIN log' \/ (DeleteObsoleteFile /\ l < log_number)
<1>type. \A n \in DOMAIN log : n \in Nat
  BY DEF Types, LogType, Typed
<1>num. log_number \in Nat
  BY DEF Types, NumberType
<1>1. CASE log' = log
  BY <1>1
<1>2. CASE NewLog \/ Switch
  <2>1. log' = Create(log, next_file, EmptyFile)
    BY <1>2 DEF NewLog, OpenLog, Switch
  <2> QED  BY <2>1 DEF Create
<1>3. CASE DeleteObsoleteFile
  <2>1. log' = log \/ \E n \in DOMAIN log : ~KeepLog(n) /\ log' = Remove(log, n)
    BY <1>3 DEF DeleteObsoleteFile
  <2>2. \A n \in DOMAIN log : ~KeepLog(n) => n < log_number
    BY <1>type, <1>num DEF KeepLog
  <2> QED  BY <1>3, <2>1, <2>2 DEF Remove
<1>4. ASSUME NEW b \in Batch, NEW sync \in BOOLEAN, AddRecord(b, sync) PROVE l \in DOMAIN log'
  <2>1. log' = log \/ \E r : log' = AppendTo(log, logfile_number, r)
    BY <1>4 DEF AddRecord, FailedAppend
  <2> QED  BY <2>1 DEF AppendTo
<1>5. CASE SyncLog
  <2>1. log' = log \/ log' = SyncFile(log, logfile_number)
    BY <1>5 DEF SyncLog
  <2> QED  BY <2>1 DEF SyncFile
<1>6. CASE PowerLoss
  <2>1. log' \in AfterPowerLoss(log)
    BY <1>6 DEF PowerLoss
  <2> QED  BY <2>1 DEF AfterPowerLoss
<1> QED  BY <1>1, <1>2, <1>3, <1>4, <1>5, <1>6, FileChanges

\* What is in a log stays there, and what is on the disk also in a power failure.
LEMMA LogFileStep ==
  ASSUME Types, Types', OpeningOK, LiveOK, [Next]_vars, NEW l \in DOMAIN log, l \in DOMAIN log'
  PROVE  /\ Synced(log[l]) \subseteq Synced(log'[l])
         /\ Synced(log[l]) \subseteq Intact(log[l].recs)
         /\ ~PowerLoss => Intact(log[l].recs) \subseteq Intact(log'[l].recs)
<1> DEFINE f == log[l]
           g == log'[l]
<1>1. f \in File(Entry) /\ g \in File(Entry)
  BY DEF Types, LogType, Typed
<1>2. /\ f.recs \in Seq(Entry \cup {Torn}) /\ Len(f.recs) \in Nat
      /\ f.durable \in Nat /\ f.durable <= Len(f.recs) /\ f.durable <= f.durable
      /\ g.durable \in Nat
  BY <1>1, LenProperties DEF File
<1>3. \/ /\ g.recs = f.recs
         /\ g.durable = f.durable \/ g.durable = Len(f.recs)
      \/ /\ PowerLoss /\ g.durable \in f.durable..Len(f.recs)
         /\ g.recs = SubSeq(f.recs, 1, g.durable)
      \/ /\ \E r \in Entry \cup {Torn} : g.recs = Append(f.recs, r)
         /\ g.durable = f.durable
  BY LogChanges
<1> HIDE DEF f, g
<1>4. f.durable <= g.durable
  BY <1>2, <1>3
<1>5. \/ g.recs = f.recs
      \/ \E r \in Entry \cup {Torn} : g.recs = Append(f.recs, r)
      \/ g.recs = SubSeq(f.recs, 1, g.durable) /\ g.durable <= Len(f.recs)
  <2>1. g.durable \in f.durable..Len(f.recs) => g.durable <= Len(f.recs)
    BY <1>2
  <2> QED  BY <1>3, <2>1
<1>6. Synced(f) \subseteq Synced(g) /\ Synced(f) \subseteq Intact(f.recs)
  BY <1>1, <1>4, <1>5, SyncedGrows
<1>7. ASSUME NEW r \in Entry \cup {Torn}, g.recs = Append(f.recs, r)
      PROVE  Intact(f.recs) \subseteq Intact(g.recs)
  BY <1>2, <1>7, IntactAppend
<1> QED  BY <1>3, <1>6, <1>7 DEF f, g

\* The logs lose nothing but by a power failure, and then nothing that was
\* synced.
LEMMA LogsFromStep ==
  ASSUME Types, Types', OpeningOK, LiveOK, [Next]_vars, NEW n \in Nat,
         DeleteObsoleteFile => log_number <= n
  PROVE  /\ ~PowerLoss => LogsFrom(log, n) \subseteq LogsFrom(log', n)
         /\ SyncedFrom(log, n) \subseteq SyncedFrom(log', n)
         /\ SyncedFrom(log, n) \subseteq LogsFrom(log, n)
<1>type. log_number \in Nat /\ \A l \in DOMAIN log : l \in Nat /\ log[l] \in File(Entry)
  BY DEF Types, NumberType, LogType, Typed
<1>1. ASSUME NEW l \in DOMAIN log, l >= n PROVE l \in DOMAIN log'
  <2>1. ~(l < log_number) \/ ~DeleteObsoleteFile
    BY <1>type, <1>1
  <2> QED  BY <2>1, LogKept
<1>2. ASSUME NEW l \in DOMAIN log, l >= n
      PROVE  /\ l \in DOMAIN log'
             /\ Synced(log[l]) \subseteq Synced(log'[l])
             /\ Synced(log[l]) \subseteq Intact(log[l].recs)
             /\ ~PowerLoss => Intact(log[l].recs) \subseteq Intact(log'[l].recs)
  <2>1. l \in DOMAIN log'
    BY <1>1, <1>2
  <2> QED  BY <2>1, LogFileStep
<1> QED  BY <1>2 DEF LogsFrom, SyncedFrom

\* Doubts stay, so what holds only without a loss is lost for good.
LEMMA LossStep ==
  ASSUME [Next]_vars
  PROVE  /\ doubt \subseteq doubt' /\ (NoLoss' => NoLoss)
         /\ acked' = acked \/ FinishWrite \/ PowerLoss
         /\ safe' = safe \/ FinishWrite
<1>NewDB. CASE NewDB
  BY <1>NewDB DEF NewDB, history, NoLoss
<1>NewDBCurrent. CASE NewDBCurrent
  BY <1>NewDBCurrent DEF NewDBCurrent, history, NoLoss
<1>OpenExisting. CASE OpenExisting
  BY <1>OpenExisting DEF OpenExisting, history, NoLoss
<1>Recover. CASE Recover
  BY <1>Recover DEF Recover, history, NoLoss
<1>Replay. CASE Replay
  BY <1>Replay DEF Replay, RecoverLogFile, history, NoLoss
<1>NewLog. CASE NewLog
  BY <1>NewLog DEF NewLog, OpenLog, history, NoLoss
<1>OpenManifest. CASE OpenManifest
  BY <1>OpenManifest DEF OpenManifest, history, NoLoss
<1>NewManifestSynced. CASE NewManifestSynced
  BY <1>NewManifestSynced DEF NewManifestSynced, OpenSync, history, NoLoss
<1>NewCurrent. CASE NewCurrent
  BY <1>NewCurrent DEF NewCurrent, OpenCurrent, history, NoLoss
<1>DeleteObsoleteFile. CASE DeleteObsoleteFile
  BY <1>DeleteObsoleteFile DEF DeleteObsoleteFile, history, NoLoss
<1>OpenDone. CASE OpenDone
  BY <1>OpenDone DEF OpenDone, history, NoLoss
<1>AddRecord. CASE \E b \in Batch, sync \in BOOLEAN : AddRecord(b, sync)
  BY <1>AddRecord DEF AddRecord, NoLoss
<1>SyncLog. CASE SyncLog
  BY <1>SyncLog DEF SyncLog, NoLoss
<1>FinishWrite. CASE FinishWrite
  BY <1>FinishWrite DEF FinishWrite, NoLoss
<1>Switch. CASE Switch
  BY <1>Switch DEF Switch, history, NoLoss
<1>FlushStart. CASE FlushStart
  BY <1>FlushStart DEF FlushStart, history, NoLoss
<1>FlushBuilt. CASE FlushBuilt
  BY <1>FlushBuilt DEF FlushBuilt, history, NoLoss
<1>CompactStart. CASE CompactStart
  BY <1>CompactStart DEF CompactStart, history, NoLoss
<1>CompactOutput. CASE CompactOutput
  BY <1>CompactOutput DEF CompactOutput, history, NoLoss
<1>CompactBuilt. CASE CompactBuilt
  BY <1>CompactBuilt DEF CompactBuilt, history, NoLoss
<1>ApplyAdd. CASE ApplyAdd
  BY <1>ApplyAdd DEF ApplyAdd, history, NoLoss
<1>ApplySync. CASE ApplySync
  BY <1>ApplySync DEF ApplySync, history, NoLoss
<1>ApplyInstall. CASE ApplyInstall
  BY <1>ApplyInstall DEF ApplyInstall, history, NoLoss
<1>CleanupDone. CASE CleanupDone
  BY <1>CleanupDone DEF CleanupDone, history, NoLoss
<1>Quit. CASE Quit
  BY <1>Quit DEF Quit, Closed, NoLoss
<1>DropTable. CASE DropTable
  BY <1>DropTable DEF DropTable, Closed, NoLoss
<1>DropManifest. CASE DropManifest
  BY <1>DropManifest DEF DropManifest, Closed, NoLoss
<1>PowerLoss. CASE PowerLoss
  BY <1>PowerLoss DEF PowerLoss, NoLoss
<1>Stutter. CASE Idles
  BY <1>Stutter DEF Idles, history, NoLoss
<1> QED
  BY Steps, <1>NewDB, <1>NewDBCurrent, <1>OpenExisting, <1>Recover, <1>Replay, <1>NewLog,
     <1>OpenManifest, <1>NewManifestSynced, <1>NewCurrent, <1>DeleteObsoleteFile, <1>OpenDone,
     <1>AddRecord, <1>SyncLog, <1>FinishWrite, <1>Switch, <1>FlushStart, <1>FlushBuilt,
     <1>CompactStart, <1>CompactOutput, <1>CompactBuilt, <1>ApplyAdd, <1>ApplySync,
     <1>ApplyInstall, <1>CleanupDone, <1>Quit, <1>DropTable, <1>DropManifest, <1>PowerLoss,
     <1>Stutter

\* Without a loss the record of a write reaches its log.
LEMMA LosslessWrite ==
  ASSUME Types, LiveOK, NoLoss', NEW b \in Batch, NEW sync \in BOOLEAN, AddRecord(b, sync)
  PROVE  /\ log' = AppendTo(log, logfile_number, NewEntry(b))
         /\ writing' = <<[entry |-> NewEntry(b), sync |-> sync, todo |-> sync]>>
         /\ logfile_number \in DOMAIN log /\ NewEntry(b) \in Entry /\ NewEntry(b) # Torn
         /\ DOMAIN log' = DOMAIN log
         /\ \A m \in DOMAIN log : m # logfile_number => log'[m] = log[m]
         /\ log'[logfile_number].recs = Append(log[logfile_number].recs, NewEntry(b))
<1>1. log' = AppendTo(log, logfile_number, NewEntry(b))
      /\ writing' = <<[entry |-> NewEntry(b), sync |-> sync, todo |-> sync]>>
  <2>1. "append" \in Faults /\ doubt' = doubt \cup {b} => ~NoLoss'
    BY DEF NoLoss
  <2> QED  BY <2>1 DEF AddRecord, NewEntry, Fault
<1>2. logfile_number \in DOMAIN log
  BY DEF AddRecord, Unlocked, Running, LiveOK, Live
<1>3. NewEntry(b) \in Entry /\ NewEntry(b) # Torn
  BY ConstantsAssumption DEF Types, NumberType, NewEntry, Entry
<1>4. log[logfile_number] \in File(Entry)
  BY <1>2 DEF Types, LogType, Typed
<1> DEFINE g == AppendTo(log, logfile_number, NewEntry(b))
<1>5. /\ DOMAIN g = DOMAIN log
      /\ \A m \in DOMAIN log : m # logfile_number => g[m] = log[m]
      /\ g[logfile_number].recs = Append(log[logfile_number].recs, NewEntry(b))
  BY <1>2, <1>3, <1>4, AppendedFile
<1>6. log' = g
  BY <1>1
<1> HIDE DEF g
<1> QED  BY <1>1, <1>2, <1>3, <1>5, <1>6

\* Without a failed append no record is torn.
LEMMA NoneTornStep ==
  ASSUME Types, Types', OpeningOK, LiveOK, [Next]_vars, NoLoss', NoneTorn
  PROVE  NoneTorn'
<1> SUFFICES ASSUME NEW l \in DOMAIN log', NEW i \in DOMAIN log'[l].recs PROVE log'[l].recs[i] # Torn
  BY DEF NoneTorn
<1>1. CASE log'[l] = EmptyFile
  BY <1>1 DEF EmptyFile
<1>2. CASE l \in DOMAIN log /\ log'[l].recs = log[l].recs
  BY <1>2 DEF NoneTorn
<1>3. CASE /\ l \in DOMAIN log /\ log'[l].durable \in log[l].durable..Len(log[l].recs)
           /\ log'[l].recs = SubSeq(log[l].recs, 1, log'[l].durable)
  <2> DEFINE recs == log[l].recs
             k == log'[l].durable
  <2>1. recs \in Seq(Entry \cup {Torn}) /\ k \in log[l].durable..Len(recs) /\ log[l].durable \in Nat
        /\ log'[l].recs = SubSeq(recs, 1, k) /\ DOMAIN recs = 1..Len(recs) /\ Len(recs) \in Nat
        /\ i \in DOMAIN SubSeq(recs, 1, k)
    BY <1>3, LenProperties DEF Types, LogType, Typed, File
  <2> HIDE DEF k, recs
  <2>2. DOMAIN SubSeq(recs, 1, k) = 1..k /\ \A x \in 1..k : SubSeq(recs, 1, k)[x] = recs[x] /\ x \in 1..Len(recs)
    BY <2>1
  <2>3. \A x \in DOMAIN recs : recs[x] # Torn
    BY <1>3 DEF NoneTorn, recs
  <2> QED  BY <2>1, <2>2, <2>3
<1>4. ASSUME l \in DOMAIN log, NEW b \in Batch, NEW sync \in BOOLEAN, AddRecord(b, sync), l = logfile_number
      PROVE  log'[l].recs[i] # Torn
  <2> DEFINE recs == log[l].recs
             r == NewEntry(b)
  <2>1. log'[l].recs = Append(recs, r) /\ r # Torn /\ r \in Entry
    BY <1>4, LosslessWrite
  <2>2. recs \in Seq(Entry \cup {Torn}) /\ DOMAIN recs = 1..Len(recs) /\ Len(recs) \in Nat
    BY <1>4, LenProperties DEF Types, LogType, Typed, File
  <2>3. \A x \in DOMAIN recs : recs[x] # Torn
    BY <1>4 DEF NoneTorn
  <2> HIDE DEF recs, r
  <2>4. DOMAIN Append(recs, r) = 1..(Len(recs) + 1) /\ Append(recs, r)[Len(recs) + 1] = r
        /\ \A x \in 1..Len(recs) : Append(recs, r)[x] = recs[x]
    BY <2>1, <2>2, AppendProperties
  <2>5. i \in 1..Len(recs) \/ i = Len(recs) + 1
    BY <2>1, <2>2, <2>4
  <2> QED  BY <2>1, <2>2, <2>3, <2>4, <2>5
<1> QED  BY <1>1, <1>2, <1>3, <1>4, LogChanges

\* A background error stays until the database is closed.
LEMMA ErrorStays ==
  ASSUME BlankOK, [Next]_vars, Live', ~NewCurrent, bg_error
  PROVE  bg_error'
BY LiveChanges DEF SyncLog, FlushBuilt, CompactBuilt, ApplyAdd, ApplySync, ApplyFailed

\* Steps that change nothing in the log and nothing of what is in memory.
LEMMA LogLiveSame ==
  ASSUME Types, LiveOK, Live, LogLive, UNCHANGED <<mem, imm, logfile_number, log_number, writing, doubt>>,
         bg_error => bg_error',
         \A l \in DOMAIN log' : l \in DOMAIN log /\ log'[l] = log[l],
         \A l \in DOMAIN log : l \in DOMAIN log' \/ l < log_number
  PROVE  LogLive'
<1>type. log_number \in Nat /\ logfile_number \in Nat /\ \A l \in DOMAIN log : l \in Nat
  BY DEF Types, NumberType, LogType, Typed
<1>1. logfile_number \in DOMAIN log' /\ log'[logfile_number] = log[logfile_number]
  <2>1. logfile_number \in DOMAIN log /\ log_number <= logfile_number
    BY DEF LiveOK
  <2>2. ~(logfile_number < log_number)
    BY <1>type, <2>1
  <2> QED  BY <2>1, <2>2
<1>2. Written' = Written
  BY DEF Written
<1>3. LogEntries(logfile_number)' = LogEntries(logfile_number)
  BY <1>1 DEF LogEntries
<1>4. LogsBetween(log', log_number, logfile_number) = LogsBetween(log, log_number, logfile_number)
  <2>1. \A l \in DOMAIN log : log_number <= l => l \in DOMAIN log' /\ log'[l] = log[l]
    <3>1. ASSUME NEW l \in DOMAIN log, log_number <= l PROVE ~(l < log_number)
      BY <1>type, <3>1
    <3> QED  BY <3>1
  <2> QED  BY <2>1 DEF LogsBetween
<1> QED  BY <1>1, <1>2, <1>3, <1>4 DEF LogLive

\* A record is appended, ...
LEMMA LogLiveWrite ==
  ASSUME Types, LiveOK, NoneTorn, LogLive, NoLoss', NEW b \in Batch, NEW sync \in BOOLEAN, AddRecord(b, sync)
  PROVE  LogLive'
<1> DEFINE e == NewEntry(b)
           w == [entry |-> e, sync |-> sync, todo |-> sync]
           f == log[logfile_number]
           g == log'[logfile_number]
<1>1. /\ writing' = <<w>> /\ logfile_number \in DOMAIN log /\ e \in Entry /\ e # Torn
      /\ DOMAIN log' = DOMAIN log
      /\ \A m \in DOMAIN log : m # logfile_number => log'[m] = log[m]
      /\ g.recs = Append(f.recs, e)
  BY LosslessWrite
<1>2. /\ UNCHANGED <<mem, imm, logfile_number, log_number, bg_error>> /\ doubt \subseteq doubt'
      /\ writing = <<>>
  BY DEF AddRecord
<1>3. w.entry = e /\ w.sync = sync /\ w.todo = sync
  OBVIOUS
<1>4. f.recs \in Seq(Entry \cup {Torn}) /\ \A i \in DOMAIN f.recs : f.recs[i] # Torn
  BY <1>1 DEF Types, LogType, Typed, File, NoneTorn
<1> HIDE DEF e, w
<1>5. Len(writing') = 1 /\ writing'[1] = w
  BY <1>1
<1>6. 1..Len(writing') = {1}
  BY <1>5
<1>7. Written' = {e} /\ Written = {}
  BY <1>2, <1>3, <1>5, <1>6 DEF Written
<1>8. Intact(g.recs) = Intact(f.recs) \cup {e}
  <2> HIDE DEF f, g
  <2>1. /\ Intact(f.recs) \subseteq Intact(Append(f.recs, e))
        /\ Intact(Append(f.recs, e)) \subseteq Intact(f.recs) \cup ({e} \ {Torn})
        /\ (\A i \in DOMAIN f.recs : f.recs[i] # Torn) /\ e # Torn => e \in Intact(Append(f.recs, e))
    BY <1>1, <1>4, IntactAppend
  <2> QED  BY <1>1, <1>4, <2>1
<1>9. LogEntries(logfile_number) = Intact(f.recs) /\ LogEntries(logfile_number)' = Intact(g.recs)
  BY <1>2 DEF LogEntries
<1>10. LogsBetween(log', log_number, logfile_number) = LogsBetween(log, log_number, logfile_number)
  <2>1. ~(logfile_number < logfile_number)
    BY DEF Types, NumberType
  <2> QED  BY <1>1, <2>1 DEF LogsBetween
<1>11. mem' \cup Written' \subseteq LogEntries(logfile_number)'
  BY <1>2, <1>7, <1>8, <1>9 DEF LogLive
<1>12. \A x \in LogEntries(logfile_number)' : x \in mem' \cup Written' \/ (bg_error' /\ x.batch \in doubt')
  BY <1>2, <1>7, <1>8, <1>9 DEF LogLive
<1>13. imm' = LogsBetween(log', log_number', logfile_number')
  BY <1>2, <1>10 DEF LogLive
<1>14. ~(writing'[1].sync /\ ~writing'[1].todo)
  BY <1>3, <1>5
<1> QED  BY <1>11, <1>12, <1>13, <1>14 DEF LogLive

\* ... synced, ...
LEMMA LogLiveSync ==
  ASSUME Types, LiveOK, Live, LogLive, SyncLog
  PROVE  LogLive'
<1> DEFINE w == [writing[1] EXCEPT !.todo = FALSE]
           f == log[logfile_number]
           g == log'[logfile_number]
<1>0. logfile_number \in DOMAIN log
  BY DEF LiveOK
<1>1. /\ UNCHANGED <<mem, imm, logfile_number, log_number>> /\ writing # <<>>
      /\ \/ /\ log' = SyncFile(log, logfile_number) /\ writing' = <<w>>
            /\ UNCHANGED <<bg_error, doubt>>
         \/ /\ log' = log /\ writing' = <<>> /\ bg_error'
            /\ doubt' = doubt \cup {writing[1].entry.batch}
  BY DEF SyncLog
<1>2. Written = {writing[1].entry} /\ writing[1] \in [entry: Entry, sync: BOOLEAN, todo: BOOLEAN]
  BY <1>1, WrittenOne DEF Types
<1>3. w.entry = writing[1].entry
  BY <1>2
<1>4. f \in File(Entry)
  BY <1>0 DEF Types, LogType, Typed
<1> HIDE DEF w
<1>5. /\ DOMAIN log' = DOMAIN log
      /\ \A m \in DOMAIN log : log'[m].recs = log[m].recs
  <2> DEFINE h == SyncFile(log, logfile_number)
  <2>1. /\ DOMAIN h = DOMAIN log
        /\ \A m \in DOMAIN log : m # logfile_number => h[m] = log[m]
        /\ h[logfile_number].recs = log[logfile_number].recs
        /\ h[logfile_number].durable = Len(log[logfile_number].recs)
        /\ h[logfile_number] \in File(Entry)
    BY <1>0, <1>4, SyncedFile
  <2>2. log' = h \/ log' = log
    BY <1>1
  <2> HIDE DEF h
  <2> QED  BY <1>0, <2>1, <2>2
<1>6. LogEntries(logfile_number)' = LogEntries(logfile_number)
      /\ LogsBetween(log', log_number, logfile_number) = LogsBetween(log, log_number, logfile_number)
  BY <1>0, <1>1, <1>5 DEF LogEntries, LogsBetween
<1>7. CASE log' = log /\ writing' = <<>> /\ bg_error' /\ doubt' = doubt \cup {writing[1].entry.batch}
  <2>1. Written' = {}
    BY <1>7 DEF Written
  <2>2. \A x \in LogEntries(logfile_number)' : x \in mem' \cup Written' \/ (bg_error' /\ x.batch \in doubt')
    BY <1>1, <1>2, <1>6, <1>7 DEF LogLive
  <2> QED  BY <1>1, <1>6, <1>7, <2>1, <2>2 DEF LogLive
<1>8. CASE log' = SyncFile(log, logfile_number) /\ writing' = <<w>> /\ UNCHANGED <<bg_error, doubt>>
  <2>1. Len(writing') = 1 /\ writing'[1] = w
    BY <1>8
  <2>2. 1..Len(writing') = {1}
    BY <2>1
  <2>3. Written' = Written
    BY <1>2, <1>3, <2>1, <2>2 DEF Written
  <2>4. writing[1].entry \in LogEntries(logfile_number)
    BY <1>2 DEF LogLive
  <2>5. Synced(g) = Intact(f.recs)
    <3>1. g.recs = f.recs /\ g.durable = Len(f.recs)
      BY <1>0, <1>4, <1>8, SyncedFile
    <3>2. SubSeq(f.recs, 1, Len(f.recs)) = f.recs
      <4>1. f.recs \in Seq(Entry \cup {Torn})
        BY <1>4 DEF File
      <4> HIDE DEF f
      <4> QED  BY <4>1, SubSeqAll
    <3> HIDE DEF f, g
    <3> QED  BY <3>1, <3>2 DEF Synced
  <2>6. writing'[1].entry \in Synced(log'[logfile_number'])
    BY <1>1, <1>3, <2>1, <2>4, <2>5 DEF LogEntries
  <2> QED  BY <1>1, <1>6, <1>8, <2>3, <2>6 DEF LogLive
<1> QED  BY <1>1, <1>7, <1>8

\* ... and put into the memtable.
LEMMA LogLiveFinish ==
  ASSUME Types, LogLive, FinishWrite
  PROVE  LogLive'
<1>1. /\ UNCHANGED <<log, imm, logfile_number, log_number, bg_error, doubt>> /\ writing # <<>>
      /\ writing' = <<>> /\ mem' = mem \cup {writing[1].entry}
  BY DEF FinishWrite, disk
<1>2. Written = {writing[1].entry}
  BY <1>1, WrittenOne DEF Types
<1>3. Written' = {}
  BY <1>1 DEF Written
<1>4. mem' \cup Written' = mem \cup Written
  BY <1>1, <1>2, <1>3
<1>5. LogEntries(logfile_number)' = LogEntries(logfile_number)
      /\ LogsBetween(log', log_number', logfile_number') = LogsBetween(log, log_number, logfile_number)
  BY <1>1 DEF LogEntries
<1> QED  BY <1>1, <1>4, <1>5 DEF LogLive

\* A full memtable has its own logs.
LEMMA LogLiveSwitch ==
  ASSUME Types, LiveOK, LogLive, Switch
  PROVE  LogLive'
<1>1. /\ log' = Create(log, next_file, EmptyFile)
      /\ logfile_number' = next_file /\ log_number' = log_number
      /\ imm = {} /\ imm' = mem /\ mem' = {} /\ writing = <<>> /\ writing' = <<>> /\ ~bg_error
  BY DEF Switch
<1>2. Live
  BY DEF Switch, Unlocked, Running, Live
<1>3. /\ logfile_number \in DOMAIN log /\ logfile_number < next_file
      /\ log_number <= logfile_number /\ \A l \in DOMAIN log : l <= logfile_number
  BY <1>2 DEF LiveOK
<1>type. /\ next_file \in Nat /\ logfile_number \in Nat /\ log_number \in Nat
         /\ \A l \in DOMAIN log : l \in Nat
  BY DEF Types, NumberType, LogType, Typed
<1>4. Written = {} /\ Written' = {}
  BY <1>1 DEF Written
<1>5. LogEntries(logfile_number) = mem
  BY <1>1, <1>4 DEF LogLive
<1>6. LogEntries(logfile_number)' = {}
  BY <1>1 DEF LogEntries, Create, EmptyFile, Intact
<1>7. LogsBetween(log', log_number, next_file) = LogsBetween(log, log_number, logfile_number) \cup LogEntries(logfile_number)
  <2>1. ~(next_file < next_file) /\ next_file \notin DOMAIN log
    BY <1>type, <1>3
  <2>2. DOMAIN log' = DOMAIN log \cup {next_file} /\ \A l \in DOMAIN log : log'[l] = log[l]
    BY <1>1, <2>1 DEF Create
  <2>3. \A l \in DOMAIN log : l < next_file /\ (l < logfile_number \/ l = logfile_number)
    BY <1>type, <1>3
  <2>4. {x \in DOMAIN log' : log_number <= x /\ x < next_file} =
          {x \in DOMAIN log : log_number <= x /\ x < logfile_number} \cup {logfile_number}
    BY <1>3, <2>1, <2>2, <2>3
  <2>5. \A l \in {x \in DOMAIN log' : log_number <= x /\ x < next_file} : log'[l] = log[l]
    BY <1>3, <2>2, <2>4
  <2> QED  BY <2>4, <2>5 DEF LogsBetween, LogEntries
<1>8. imm' = LogsBetween(log', log_number', logfile_number')
  BY <1>1, <1>5, <1>7 DEF LogLive
<1> QED  BY <1>1, <1>4, <1>6, <1>8 DEF LogLive

\* What was flushed needs its logs no longer.
LEMMA LogLiveInstall ==
  ASSUME Types, LiveOK, BackgroundOK, LogLive, ApplyInstall
  PROVE  LogLive'
<1>1. /\ UNCHANGED <<log, mem, logfile_number, bg_error, doubt, writing>> /\ log_number' = edit.log
      /\ \/ edit.del = {} /\ imm' = {}
         \/ edit.del # {} /\ imm' = imm
  BY DEF ApplyInstall, disk, history
<1>2. Live /\ Edited
  BY DEF ApplyInstall, Running, Live, Edited
<1>3. LogEntries(logfile_number)' = LogEntries(logfile_number) /\ Written' = Written
  BY <1>1 DEF LogEntries, Written
<1>4. imm' = LogsBetween(log', log_number', logfile_number')
  <2>1. CASE edit.del = {}
    <3>1. edit.log = logfile_number
      BY <1>2, <2>1 DEF BackgroundOK
    <3>2. \A x \in DOMAIN log : ~(logfile_number <= x /\ x < logfile_number)
      BY DEF Types, NumberType, LogType, Typed
    <3> QED  BY <1>1, <2>1, <3>1, <3>2 DEF LogsBetween
  <2>2. CASE edit.del # {}
    <3>1. edit.log = log_number
      BY <1>2, <2>2 DEF BackgroundOK
    <3> QED  BY <1>1, <2>2, <3>1 DEF LogLive
  <2> QED  BY <2>1, <2>2
<1> QED  BY <1>1, <1>3, <1>4 DEF LogLive

\* When the database is open its log is empty.
LEMMA LogLiveOpened ==
  ASSUME Types, BlankOK, OpeningOK, NewCurrent
  PROVE  LogLive'
<1>1. /\ Opening /\ phase = "current" /\ log' = log /\ logfile_number' = logfile_number
      /\ log_number' = edit.log /\ UNCHANGED <<mem, imm, writing>>
  BY DEF NewCurrent, OpenCurrent, Opening
<1>2. edit.log = logfile_number /\ log[logfile_number] = EmptyFile
  BY <1>1 DEF OpeningOK
<1>3. mem = {} /\ imm = {} /\ writing = <<>>
  BY <1>1 DEF BlankOK, Opening
<1>4. Written' = {}
  BY <1>1, <1>3 DEF Written
<1>5. LogEntries(logfile_number)' = {}
  BY <1>1, <1>2 DEF LogEntries, EmptyFile, Intact
<1>6. LogsBetween(log', log_number', logfile_number') = {}
  <2>1. \A x \in DOMAIN log : ~(logfile_number <= x /\ x < logfile_number)
    BY DEF Types, NumberType, LogType, Typed
  <2> QED  BY <1>1, <1>2, <2>1 DEF LogsBetween
<1> QED  BY <1>1, <1>3, <1>4, <1>5, <1>6 DEF LogLive

\* The logs keep what is not in tables.
LEMMA LogStep ==
  ASSUME Types, Types', BlankOK, OpeningOK, LiveOK, BackgroundOK, LogOK, [Next]_vars
  PROVE  LogOK'
<1> SUFFICES ASSUME NoLoss' PROVE NoneTorn' /\ (Live' => LogLive')
  BY DEF LogOK
<1>1. NoneTorn /\ (Live => LogLive)
  BY LossStep DEF LogOK
<1>2. NoneTorn'
  BY <1>1, NoneTornStep
<1>3. ASSUME Live' PROVE LogLive'
  <2>1. CASE NewCurrent
    BY <2>1, LogLiveOpened
  <2>2. CASE ~NewCurrent
    <3>1. Live /\ LogLive
      BY <1>1, <1>3, <2>2, LiveSteps
    <3>2. ASSUME NEW b \in Batch, NEW sync \in BOOLEAN, AddRecord(b, sync) PROVE LogLive'
      BY <1>1, <3>1, <3>2, LogLiveWrite
    <3>3. CASE SyncLog
      BY <3>1, <3>3, LogLiveSync
    <3>4. CASE FinishWrite
      BY <3>1, <3>4, LogLiveFinish
    <3>5. CASE Switch
      BY <3>1, <3>5, LogLiveSwitch
    <3>6. CASE ApplyInstall
      BY <3>1, <3>6, LogLiveInstall
    <3>7. CASE /\ log' = log \/ DeleteObsoleteFile
               /\ UNCHANGED <<mem, imm, logfile_number, log_number, writing, doubt>>
      <4>1. bg_error => bg_error'
        BY <1>3, <2>2, ErrorStays
      <4>2. \A l \in DOMAIN log' : l \in DOMAIN log /\ log'[l] = log[l]
        BY <3>7 DEF DeleteObsoleteFile, Remove
      <4>3. \A l \in DOMAIN log : l \in DOMAIN log' \/ l < log_number
        BY LogKept
      <4> QED  BY <3>1, <3>7, <4>1, <4>2, <4>3, LogLiveSame
    <3> QED  BY <1>3, <2>2, <3>2, <3>3, <3>4, <3>5, <3>6, <3>7, LiveChanges
  <2> QED  BY <2>1, <2>2
<1> QED  BY <1>2, <1>3

-----------------------------------------------------------------------------
(* What a crash may bring back.                                            *)

AtIn(tb, recs, k, logs) == EntriesIn(tb, Tables(recs, k)) \cup LogsFrom(logs, recs[k].log)
SyncedIn(tb, recs, k, logs) == EntriesIn(tb, Tables(recs, k)) \cup SyncedFrom(logs, recs[k].log)

\* What is synced in a log is in the log.
LEMMA SyncedBelow ==
  ASSUME NEW logs, Typed(logs, File(Entry)), NEW n
  PROVE  SyncedFrom(logs, n) \subseteq LogsFrom(logs, n)
<1>1. ASSUME NEW l \in DOMAIN logs PROVE Synced(logs[l]) \subseteq Intact(logs[l].recs)
  <2> DEFINE f == logs[l]
  <2>1. f \in File(Entry)
    BY <1>1 DEF Typed
  <2>2. f.durable <= f.durable
    BY <2>1 DEF File
  <2> HIDE DEF f
  <2>3. Synced(f) \subseteq Synced(f) /\ Synced(f) \subseteq Intact(f.recs)
    BY <2>1, <2>2, SyncedGrows
  <2> QED  BY <2>3 DEF f
<1> QED  BY <1>1 DEF SyncedFrom, LogsFrom

\* What an outcome of the manifest brings back changes with the logs only.
LEMMA SameOutcome ==
  ASSUME Types, Types', BlankOK, BlankOK', ManifestOK, OpeningOK, LiveOK, BackgroundOK, SyncedOK,
         [Next]_vars, current # 0, NEW k, k \in Outcomes(Named),
         Tables(Records', k) = Tables(Records, k), Records'[k] = Records[k]
  PROVE  /\ ~PowerLoss => AtIn(table, Records, k, log) \subseteq AtIn(table', Records', k, log')
         /\ SyncedIn(table, Records, k, log) \subseteq SyncedIn(table', Records', k, log')
         /\ SyncedIn(table', Records', k, log') \subseteq AtIn(table', Records', k, log')
         /\ \A e \in AtIn(table', Records', k, log') : e \in AtIn(table, Records, k, log) \/ Fresh(e)
<1> DEFINE n == Records[k].log
           ts == Tables(Records, k)
<1>1. n \in Nat
  <2>1. k \in 1..Whole(Records)
    BY NamedType
  <2>2. Records[k] \in Edit
    BY <2>1, NamedType
  <2> QED  BY <2>2 DEF Edit
<1>2. DeleteObsoleteFile => log_number <= n
  <2>1. ASSUME DeleteObsoleteFile PROVE log_number <= n
    <3>1. Live /\ ~Applying /\ ~bg_error
      BY <2>1 DEF DeleteObsoleteFile, BlankOK, Live, Applying, LiveOK, BackgroundOK
    <3>2. n = log_number
      BY <3>1, OnlyVersion
    <3> QED  BY <1>1, <3>2
  <2> QED  BY <2>1
<1>3. EntriesIn(table', ts) = EntriesIn(table, ts)
  <2>1. ts \subseteq Used
    BY DEF Used
  <2> QED  BY <2>1, EntriesKept
<1> HIDE DEF n
<1>4. /\ ~PowerLoss => LogsFrom(log, n) \subseteq LogsFrom(log', n)
      /\ SyncedFrom(log, n) \subseteq SyncedFrom(log', n)
      /\ SyncedFrom(log, n) \subseteq LogsFrom(log, n)
  BY <1>1, <1>2, LogsFromStep
<1>5. \A e \in LogsFrom(log', n) : e \in LogsFrom(log, n) \/ Fresh(e)
  BY LogsFromLogged
<1>6. SyncedFrom(log', n) \subseteq LogsFrom(log', n)
  <2> DEFINE logs == log'
  <2>1. Typed(logs, File(Entry))
    BY DEF Types, LogType
  <2> HIDE DEF logs
  <2>2. SyncedFrom(logs, n) \subseteq LogsFrom(logs, n)
    BY <2>1, SyncedBelow
  <2> QED  BY <2>2 DEF logs
<1>7. /\ AtIn(table, Records, k, log) = EntriesIn(table, ts) \cup LogsFrom(log, n)
      /\ AtIn(table', Records', k, log') = EntriesIn(table', ts) \cup LogsFrom(log', n)
      /\ SyncedIn(table, Records, k, log) = EntriesIn(table, ts) \cup SyncedFrom(log, n)
      /\ SyncedIn(table', Records', k, log') = EntriesIn(table', ts) \cup SyncedFrom(log', n)
  BY DEF AtIn, SyncedIn, n
<1> HIDE DEF ts
<1> QED  BY <1>3, <1>4, <1>5, <1>6, <1>7

\* Only a write that ends changes what a reader sees.
LEMMA VisibleStep ==
  ASSUME Types, Types', BlankOK, BlankOK', ManifestOK, OpeningOK, LiveOK, BackgroundOK, SyncedOK,
         [Next]_vars, Live', ~NewCurrent
  PROVE  /\ FinishWrite => Visible' = Visible \cup Written
         /\ ~FinishWrite => Visible' = Visible
<1>in. /\ Visible = mem \cup imm \cup EntriesIn(table, version)
       /\ Visible' = mem' \cup imm' \cup EntriesIn(table', version')
  BY DEF Visible, TableEntries, EntriesIn
<1>live. Live
  BY LiveSteps
<1>1. EntriesIn(table', version) = EntriesIn(table, version)
  <2>1. version \subseteq Used
    BY DEF Used
  <2> QED  BY <2>1, EntriesKept
<1>2. CASE FinishWrite
  <2>1. mem' = mem \cup {writing[1].entry} /\ imm' = imm /\ version' = version /\ writing # <<>>
    BY <1>2 DEF FinishWrite
  <2>2. Written = {writing[1].entry}
    BY <2>1, WrittenOne DEF Types
  <2> QED  BY <1>in, <1>1, <1>2, <2>1, <2>2
<1>3. CASE Switch
  <2>1. imm' = mem /\ mem' = {} /\ imm = {} /\ version' = version /\ ~FinishWrite
    BY <1>3 DEF Switch, FinishWrite, Unlocked
  <2> QED  BY <1>in, <1>1, <2>1
<1>4. CASE ApplyInstall
  <2>1. /\ version' = (version \ edit.del) \cup edit.add /\ table' = table /\ mem' = mem /\ Edited
        /\ \/ edit.del = {} /\ imm' = {}
           \/ edit.del # {} /\ imm' = imm
    BY <1>4 DEF ApplyInstall, disk, Edited
  <2>2. ~FinishWrite
    <3>1. writing' = writing
      BY <1>4 DEF ApplyInstall
    <3>2. FinishWrite => writing # <<>> /\ writing' = <<>>
      BY DEF FinishWrite
    <3> QED  BY <3>1, <3>2
  <2>3. CASE edit.del = {}
    <3>1. TableEntries(edit.add) = imm
      BY <1>live, <2>1, <2>3 DEF BackgroundOK
    <3>2. EntriesIn(table, version') = EntriesIn(table, version) \cup imm
      BY <2>1, <2>3, <3>1 DEF EntriesIn, TableEntries
    <3> QED  BY <1>in, <2>1, <2>2, <2>3, <3>2
  <2>4. CASE edit.del # {}
    <3>1. edit.del = inputs /\ TableEntries(edit.add) = TableEntries(inputs) /\ inputs \subseteq version
      BY <1>live, <2>1, <2>4 DEF BackgroundOK, LiveOK
    <3>2. EntriesIn(table, version') = EntriesIn(table, version \ inputs) \cup EntriesIn(table, inputs)
      BY <2>1, <3>1 DEF EntriesIn, TableEntries
    <3>3. EntriesIn(table, version) = EntriesIn(table, version \ inputs) \cup EntriesIn(table, inputs)
      BY <3>1 DEF EntriesIn
    <3> QED  BY <1>in, <2>1, <2>2, <2>4, <3>2, <3>3
  <2> QED  BY <2>3, <2>4
<1>5. CASE mem' = mem /\ imm' = imm /\ version' = version
  <2>1. CASE ~FinishWrite
    BY <1>in, <1>1, <1>5, <2>1
  <2> QED  BY <1>2, <2>1
<1> QED  BY <1>2, <1>3, <1>4, <1>5, LiveChanges

\* A write ends in one of two ways.
LEMMA WrittenKept ==
  ASSUME Types, BlankOK, [Next]_vars, Live', ~NewCurrent, NEW e \in Written
  PROVE  e \in Written' \/ FinishWrite \/ e.batch \in doubt'
<1>1. writing # <<>>
  BY DEF Written
<1>2. Written = {writing[1].entry} /\ writing[1] \in [entry: Entry, sync: BOOLEAN, todo: BOOLEAN]
  BY <1>1, WrittenOne DEF Types
<1>3. ASSUME NEW b \in Batch, NEW sync \in BOOLEAN, AddRecord(b, sync) PROVE FALSE
  BY <1>1, <1>3 DEF AddRecord
<1>4. CASE SyncLog
  <2> DEFINE w == [writing[1] EXCEPT !.todo = FALSE]
  <2>1. writing' = <<w>> \/ writing[1].entry.batch \in doubt'
    BY <1>4 DEF SyncLog
  <2>2. w.entry = writing[1].entry
    BY <1>2
  <2> HIDE DEF w
  <2>3. CASE writing' = <<w>>
    <3>1. Len(writing') = 1 /\ writing'[1] = w
      BY <2>3
    <3>2. 1..Len(writing') = {1}
      BY <3>1
    <3> QED  BY <1>2, <2>2, <3>1, <3>2 DEF Written
  <2> QED  BY <1>2, <2>1, <2>3
<1>5. CASE writing' = writing
  BY <1>5 DEF Written
<1> QED  BY <1>3, <1>4, <1>5, LiveChanges

\* What DurableOK says of an outcome.
LEMMA OutcomeKnows ==
  ASSUME DurableOK, NoLoss, current # 0, NEW k, k \in Outcomes(Named)
  PROVE  /\ safe \subseteq Batches(SyncedIn(table, Records, k, log))
         /\ Live => /\ Visible \cup Written \subseteq AtIn(table, Records, k, log)
                    /\ \A e \in AtIn(table, Records, k, log) : e \in Visible \cup Written \/ e.batch \in doubt
         /\ ~Live => /\ acked \subseteq Batches(AtIn(table, Records, k, log))
                     /\ \A j \in Outcomes(Named) : \A e \in AtIn(table, Records, j, log) :
                          e \in AtIn(table, Records, k, log) \/ e.batch \in doubt
<1>1. \A j : /\ At(Named, j, log) = AtIn(table, Records, j, log)
             /\ SyncedAt(Named, j, log) = SyncedIn(table, Records, j, log)
  BY DEF At, SyncedAt, AtIn, SyncedIn, TableEntries, EntriesIn, Records
<1> QED  BY <1>1 DEF DurableOK

\* The logs of a running database hold what is in memory.
LEMMA LogsAre ==
  ASSUME Types, LiveOK, Live, LogLive
  PROVE  /\ \A l \in DOMAIN log : log_number <= l =>
              l = logfile_number \/ (Intact(log[l].recs) \subseteq imm /\ Synced(log[l]) \subseteq imm)
         /\ \A e \in LogEntries(logfile_number) : e \in mem \cup Written \/ e.batch \in doubt
         /\ logfile_number \in DOMAIN log /\ log_number <= logfile_number
         /\ \A l \in DOMAIN log : l >= logfile_number => l = logfile_number
         /\ mem \cup Written \subseteq LogEntries(logfile_number)
<1>type. /\ logfile_number \in Nat /\ log_number \in Nat
         /\ \A l \in DOMAIN log : l \in Nat /\ log[l] \in File(Entry)
  BY DEF Types, NumberType, LogType, Typed
<1>1. logfile_number \in DOMAIN log /\ log_number <= logfile_number /\ \A l \in DOMAIN log : l <= logfile_number
  BY DEF LiveOK
<1>2. ASSUME NEW l \in DOMAIN log, log_number <= l, l # logfile_number
      PROVE  Intact(log[l].recs) \subseteq imm /\ Synced(log[l]) \subseteq imm
  <2>1. l < logfile_number
    BY <1>type, <1>1, <1>2
  <2>2. Intact(log[l].recs) \subseteq LogsBetween(log, log_number, logfile_number)
    BY <1>2, <2>1 DEF LogsBetween
  <2> DEFINE f == log[l]
  <2>3. f \in File(Entry)
    BY <1>type
  <2>4. f.durable <= f.durable
    BY <2>3 DEF File
  <2> HIDE DEF f
  <2>5. Synced(f) \subseteq Synced(f) /\ Synced(f) \subseteq Intact(f.recs)
    BY <2>3, <2>4, SyncedGrows
  <2> QED  BY <2>2, <2>5 DEF LogLive, f
<1>3. \A l \in DOMAIN log : l >= logfile_number => l = logfile_number
  BY <1>type, <1>1
<1> QED  BY <1>1, <1>2, <1>3 DEF LogLive

\* An outcome of the manifest of a running database has what a reader sees.
LEMMA LiveOutcome ==
  ASSUME Types, Types', BlankOK, BlankOK', ManifestOK, OpeningOK, LiveOK, BackgroundOK, SyncedOK,
         LiveOK', LogOK, LogOK', DurableOK, [Next]_vars, NoLoss', Live', ~NewCurrent,
         current # 0, NEW k, k \in Outcomes(Named), Tables(Records', k) = Tables(Records, k),
         Records'[k] = Records[k]
  PROVE  /\ safe' \subseteq Batches(SyncedIn(table', Records', k, log'))
         /\ Visible' \cup Written' \subseteq AtIn(table', Records', k, log')
         /\ \A e \in AtIn(table', Records', k, log') : e \in Visible' \cup Written' \/ e.batch \in doubt'
<1> DEFINE A == AtIn(table, Records, k, log)
           B == AtIn(table', Records', k, log')
           C == SyncedIn(table, Records, k, log)
           D == SyncedIn(table', Records', k, log')
           n == Records[k].log
<1>1. Live /\ ~PowerLoss
  <2>1. ~PowerLoss
    BY DEF PowerLoss, Live
  <2> QED  BY <2>1, LiveSteps
<1>2. NoLoss /\ doubt \subseteq doubt'
  BY LossStep
<1>3. /\ safe \subseteq Batches(C) /\ Visible \cup Written \subseteq A
      /\ \A e \in A : e \in Visible \cup Written \/ e.batch \in doubt
  BY <1>1, <1>2, OutcomeKnows
<1>4. A \subseteq B /\ C \subseteq D /\ D \subseteq B /\ \A e \in B : e \in A \/ Fresh(e)
  BY <1>1, SameOutcome
<1>5. /\ FinishWrite => Visible' = Visible \cup Written
      /\ ~FinishWrite => Visible' = Visible
  BY VisibleStep
<1>6. n \in Nat /\ n <= logfile_number
  <2>1. k \in 1..Whole(Records) /\ k \in DOMAIN Records
    BY NamedType
  <2>2. Records[k] \in Edit /\ Records[k] # Torn
    BY <2>1, NamedType
  <2> QED  BY <1>1, <2>1, <2>2 DEF LiveOK, Edit
<1>7. LogLive /\ LogLive'
  BY <1>1, <1>2 DEF LogOK
<1>8. Written' \subseteq B
  <2>1. n <= logfile_number' /\ logfile_number' \in DOMAIN log'
    <3>1. logfile_number' = logfile_number \/ logfile_number' = next_file
      BY LiveChanges DEF Switch
    <3>2. logfile_number < next_file /\ logfile_number \in Nat /\ next_file \in Nat
      BY <1>1 DEF LiveOK, Types, NumberType
    <3>3. n <= logfile_number'
      BY <1>6, <3>1, <3>2
    <3> QED  BY <3>3 DEF LiveOK
  <2>2. Written' \subseteq Intact(log'[logfile_number'].recs)
    BY <1>7 DEF LogLive, LogEntries
  <2>3. Intact(log'[logfile_number'].recs) \subseteq LogsFrom(log', n)
    BY <2>1 DEF LogsFrom
  <2> QED  BY <2>2, <2>3 DEF AtIn
<1>9. safe' \subseteq Batches(D)
  <2>1. safe \subseteq Batches(D)
    BY <1>3, <1>4 DEF Batches
  <2>2. CASE FinishWrite
    <3>1. /\ safe' = safe \/ (safe' = safe \cup {writing[1].entry.batch} /\ writing[1].sync)
          /\ writing # <<>> /\ ~writing[1].todo
      BY <2>2 DEF FinishWrite
    <3>2. writing[1].sync => writing[1].entry \in Synced(log[logfile_number])
      BY <1>7, <3>1 DEF LogLive
    <3>3. Synced(log[logfile_number]) \subseteq SyncedFrom(log, n)
      BY <1>1, <1>6 DEF SyncedFrom, LiveOK
    <3>4. writing[1].sync => writing[1].entry \in D
      BY <1>4, <3>2, <3>3 DEF SyncedIn
    <3> HIDE DEF D
    <3> QED  BY <2>1, <3>1, <3>4 DEF Batches
  <2> QED  BY <1>1, <2>1, <2>2, LossStep
<1>10. ASSUME NEW e \in B PROVE e \in Visible' \cup Written' \/ e.batch \in doubt'
  <2>1. CASE Fresh(e)
    <3>1. PICK b \in Batch, sync \in BOOLEAN : AddRecord(b, sync) /\ e = NewEntry(b)
      BY <2>1 DEF Fresh
    <3>2. writing' # <<>>
      <4> DEFINE w == [entry |-> NewEntry(b), sync |-> sync, todo |-> sync]
      <4>1. writing' = <<w>>
        BY <3>1, LosslessWrite
      <4> HIDE DEF w
      <4> QED  BY <4>1
    <3>3. Written' = {NewEntry(b)}
      BY <3>1, <3>2, OneWrite
    <3> QED  BY <3>1, <3>3
  <2>2. CASE e \in Written
    BY <1>5, <2>2, WrittenKept
  <2> QED  BY <1>2, <1>3, <1>4, <1>5, <2>1, <2>2
<1> HIDE DEF A, B, C, D
<1>11. Visible' \subseteq B
  BY <1>3, <1>4, <1>5
<1> QED  BY <1>8, <1>9, <1>10, <1>11 DEF B, D

\* So does the one that the edit of the background thread adds: a flush needs
\* the earlier logs no longer, a compaction moves entries.
LEMMA AddedOutcome ==
  ASSUME Types, Types', BlankOK, BlankOK', ManifestOK, OpeningOK, LiveOK, BackgroundOK, SyncedOK,
         LogOK, DurableOK, [Next]_vars, NoLoss', ApplyAdd, NEW k,
         current # 0, Whole(Records) = Len(Records), Len(Records) \in Outcomes(Named),
         Tables(Records', k) = (Tables(Records, Len(Records)) \ edit.del) \cup edit.add,
         Records'[k] = edit
  PROVE  /\ safe' \subseteq Batches(SyncedIn(table', Records', k, log'))
         /\ Visible' \cup Written' \subseteq AtIn(table', Records', k, log')
         /\ \A e \in AtIn(table', Records', k, log') : e \in Visible' \cup Written' \/ e.batch \in doubt'
<1> DEFINE m == Len(Records)
           T == Tables(Records, m)
           A == AtIn(table, Records, m, log)
           C == SyncedIn(table, Records, m, log)
           U == (T \ edit.del) \cup edit.add
           n == Records[m].log
<1>1. Live /\ Edited /\ bgpc = "add" /\ ~Applying
  BY DEF ApplyAdd, Running, Live, Edited, Applying
<1>2. /\ UNCHANGED <<table, log, mem, imm, version, writing, safe, doubt>>
  BY DEF ApplyAdd, history
<1>3. Visible' = Visible /\ Written' = Written
  BY <1>2 DEF Visible, TableEntries, Written
<1>4. NoLoss /\ LogLive
  BY <1>1, LossStep DEF LogOK
<1>5. /\ safe \subseteq Batches(C) /\ Visible \cup Written \subseteq A
      /\ \A e \in A : e \in Visible \cup Written \/ e.batch \in doubt
  BY <1>1, <1>4, OutcomeKnows
<1>6. version \subseteq T /\ log_number <= n
  BY <1>1 DEF SyncedOK
<1>type. /\ n \in Nat /\ log_number \in Nat /\ logfile_number \in Nat /\ \A l \in DOMAIN log : l \in Nat
  <2>1. m \in 1..Whole(Records)
    BY NamedType
  <2>2. Records[m] \in Edit
    BY <2>1, NamedType
  <2> QED  BY <2>2 DEF Edit, Types, NumberType, LogType, Typed
<1>7. Visible = mem \cup imm \cup EntriesIn(table, version)
  BY DEF Visible, TableEntries, EntriesIn
<1>8. A = EntriesIn(table, T) \cup LogsFrom(log, n) /\ C = EntriesIn(table, T) \cup SyncedFrom(log, n)
  BY DEF AtIn, SyncedIn
<1>9. /\ AtIn(table', Records', k, log') = EntriesIn(table, U) \cup LogsFrom(log, edit.log)
      /\ SyncedIn(table', Records', k, log') = EntriesIn(table, U) \cup SyncedFrom(log, edit.log)
  BY <1>2 DEF AtIn, SyncedIn
<1>10. TableEntries(edit.add) = EntriesIn(table, edit.add) /\ TableEntries(inputs) = EntriesIn(table, inputs)
  BY DEF TableEntries, EntriesIn
<1>11. /\ \A l \in DOMAIN log : log_number <= l =>
              l = logfile_number \/ (Intact(log[l].recs) \subseteq imm /\ Synced(log[l]) \subseteq imm)
       /\ \A e \in LogEntries(logfile_number) : e \in mem \cup Written \/ e.batch \in doubt
       /\ logfile_number \in DOMAIN log /\ log_number <= logfile_number
       /\ \A l \in DOMAIN log : l >= logfile_number => l = logfile_number
       /\ mem \cup Written \subseteq LogEntries(logfile_number)
  BY <1>1, <1>4, LogsAre
<1>up. \A l \in DOMAIN log : l >= n => log_number <= l
  BY <1>type, <1>6
<1>12. EntriesIn(table, version) \subseteq EntriesIn(table, T)
  BY <1>6 DEF EntriesIn
<1> DEFINE X == EntriesIn(table, U) \cup LogsFrom(log, edit.log)
           Y == EntriesIn(table, U) \cup SyncedFrom(log, edit.log)
<1>13. CASE edit.del = {}
  <2>1. edit.log = logfile_number /\ EntriesIn(table, edit.add) = imm
    BY <1>1, <1>10, <1>13 DEF BackgroundOK
  <2>2. EntriesIn(table, U) = EntriesIn(table, T) \cup imm
    BY <1>13, <2>1 DEF EntriesIn
  <2>3. LogsFrom(log, edit.log) = LogEntries(logfile_number) /\ Synced(log[logfile_number]) \subseteq SyncedFrom(log, edit.log)
    <3>1. logfile_number >= logfile_number
      BY <1>type
    <3>2. {x \in DOMAIN log : x >= logfile_number} = {logfile_number}
      BY <1>11, <3>1
    <3> QED  BY <2>1, <3>2 DEF LogsFrom, SyncedFrom, LogEntries
  <2>4. SyncedFrom(log, n) \subseteq imm \cup Synced(log[logfile_number])
    BY <1>11, <1>up DEF SyncedFrom
  <2>5. C \subseteq Y
    BY <1>8, <2>2, <2>3, <2>4
  <2>6. Visible \cup Written \subseteq X
    BY <1>7, <1>11, <1>12, <2>2, <2>3
  <2>7. \A e \in X : e \in Visible \cup Written \/ e.batch \in doubt
    BY <1>5, <1>7, <1>8, <1>11, <2>2, <2>3
  <2>8. safe \subseteq Batches(Y)
    BY <1>5, <2>5 DEF Batches
  <2> HIDE DEF X, Y
  <2> QED  BY <1>2, <1>3, <1>9, <2>6, <2>7, <2>8 DEF X, Y
<1>14. CASE edit.del # {}
  <2>1. /\ edit.log = log_number /\ EntriesIn(table, edit.add) = EntriesIn(table, inputs)
        /\ edit.del = inputs /\ inputs \subseteq version
    BY <1>1, <1>10, <1>14 DEF BackgroundOK, LiveOK
  <2>2. EntriesIn(table, U) = EntriesIn(table, T) \cup EntriesIn(table, inputs)
    <3>1. EntriesIn(table, U) = EntriesIn(table, T \ inputs) \cup EntriesIn(table, inputs)
      BY <2>1 DEF EntriesIn
    <3> QED  BY <3>1 DEF EntriesIn
  <2>3. LogsFrom(log, n) \subseteq LogsFrom(log, edit.log) /\ SyncedFrom(log, n) \subseteq SyncedFrom(log, edit.log)
    <3>1. \A l \in DOMAIN log : log_number <= l => l >= log_number
      BY <1>type
    <3> QED  BY <1>up, <2>1, <3>1 DEF LogsFrom, SyncedFrom
  <2>4. LogsFrom(log, edit.log) \subseteq imm \cup LogEntries(logfile_number)
    <3>1. \A l \in DOMAIN log : l >= log_number => log_number <= l
      BY <1>type
    <3> QED  BY <1>11, <2>1, <3>1 DEF LogsFrom, LogEntries
  <2>5. EntriesIn(table, inputs) \subseteq EntriesIn(table, version)
    BY <2>1 DEF EntriesIn
  <2>6. C \subseteq Y /\ A \subseteq X
    BY <1>8, <2>2, <2>3
  <2>7. \A e \in X : e \in Visible \cup Written \/ e.batch \in doubt
    BY <1>5, <1>7, <1>8, <1>11, <2>2, <2>4, <2>5
  <2>8. safe \subseteq Batches(Y)
    BY <1>5, <2>6 DEF Batches
  <2> HIDE DEF X, Y, A, C
  <2> QED  BY <1>2, <1>3, <1>5, <1>9, <2>6, <2>7, <2>8 DEF X, Y
<1> QED  BY <1>13, <1>14

\* The manifest that DB::Open wrote has what the old one and its logs had.
LEMMA OpenedOutcome ==
  ASSUME Types, Types', BlankOK, BlankOK', ManifestOK, OpeningOK, LiveOK, BackgroundOK, SyncedOK,
         DurableOK, [Next]_vars, NoLoss', NewCurrent, NEW k,
         Tables(Records', k) = edit.add \cup version, Records'[k].log = edit.log
  PROVE  /\ safe' \subseteq Batches(SyncedIn(table', Records', k, log'))
         /\ Written' = {} /\ Visible' = AtIn(table', Records', k, log')
         /\ acked' \subseteq Batches(Visible')
<1> DEFINE w == Whole(Records)
           A == AtIn(table, Records, w, log)
           X == EntriesIn(table, edit.add \cup version)
<1>1. Opening /\ phase = "current" /\ log' = log /\ LogsFrom(log, edit.log) = {} /\ ~Live
  BY NoLogLeft DEF NewCurrent, OpenCurrent, Live
<1>2. /\ version' = version \cup edit.add /\ UNCHANGED <<table, mem, imm, writing, acked, safe>>
  BY DEF NewCurrent, OpenCurrent, history
<1>3. mem = {} /\ imm = {} /\ writing = <<>>
  BY <1>1 DEF BlankOK
<1>4. current # 0 /\ w \in Outcomes(Named)
  BY <1>1, OpeningNumbers
<1>5. version = Tables(Records, w) /\ log_number = Records[w].log /\ todo = {}
      /\ TableEntries(edit.add) = UNION {LogEntries(l) : l \in {x \in DOMAIN log : x >= log_number} \ todo}
  BY <1>1 DEF OpeningOK
<1>6. NoLoss
  BY LossStep
<1>7. safe \subseteq Batches(SyncedIn(table, Records, w, log)) /\ acked \subseteq Batches(A)
  BY <1>1, <1>4, <1>6, OutcomeKnows
<1>8. A = X
  <2>1. EntriesIn(table, edit.add) = LogsFrom(log, log_number)
    BY <1>5 DEF TableEntries, EntriesIn, LogsFrom, LogEntries
  <2>2. X = EntriesIn(table, edit.add) \cup EntriesIn(table, version)
    BY DEF EntriesIn
  <2>3. A = EntriesIn(table, version) \cup LogsFrom(log, log_number)
    BY <1>5 DEF AtIn
  <2> HIDE DEF A, X
  <2> QED  BY <2>1, <2>2, <2>3
<1>9. SyncedIn(table, Records, w, log) \subseteq A
  <2>1. SyncedFrom(log, Records[w].log) \subseteq LogsFrom(log, Records[w].log)
    BY SyncedBelow DEF Types, LogType
  <2> QED  BY <2>1 DEF AtIn, SyncedIn
<1>10. AtIn(table', Records', k, log') = X
  BY <1>1, <1>2 DEF AtIn
<1>11. X \subseteq SyncedIn(table', Records', k, log')
  BY <1>1, <1>2 DEF SyncedIn
<1>12. Visible' = X
  BY <1>2, <1>3 DEF Visible, TableEntries, EntriesIn
<1>13. Written' = {}
  BY <1>2, <1>3 DEF Written
<1> HIDE DEF A, X
<1>14. safe' \subseteq Batches(SyncedIn(table', Records', k, log'))
  BY <1>2, <1>7, <1>8, <1>9, <1>11 DEF Batches
<1>15. acked' \subseteq Batches(X)
  BY <1>2, <1>7, <1>8
<1> QED  BY <1>10, <1>12, <1>13, <1>14, <1>15

\* When the database is down every outcome has what was promised.
LEMMA DownOutcome ==
  ASSUME Types, Types', BlankOK, BlankOK', ManifestOK, OpeningOK, LiveOK, BackgroundOK, SyncedOK,
         DurableOK, [Next]_vars, NoLoss', ~Live', current' # 0, NEW k, k \in Outcomes(Named')
  PROVE  /\ safe' \subseteq Batches(SyncedIn(table', Records', k, log'))
         /\ acked' \subseteq Batches(AtIn(table', Records', k, log'))
         /\ \A j \in Outcomes(Named') : \A e \in AtIn(table', Records', j, log') :
              e \in AtIn(table', Records', k, log') \/ e.batch \in doubt'
<1> DEFINE Same(j) == /\ current # 0 /\ current' = current /\ j \in Outcomes(Named)
                      /\ Tables(Records', j) = Tables(Records, j) /\ Records'[j] = Records[j]
           A(j) == AtIn(table, Records, j, log)
           B(j) == AtIn(table', Records', j, log')
           D(j) == SyncedIn(table', Records', j, log')
<1>live. ~NewCurrent /\ ~ApplyAdd /\ ~FinishWrite /\ \A e : ~Fresh(e)
  BY DEF NewCurrent, ApplyAdd, FinishWrite, Fresh, AddRecord, Unlocked, Running, Live
<1>loss. NoLoss /\ doubt \subseteq doubt' /\ safe' = safe /\ (acked' = acked \/ PowerLoss)
  BY <1>live, LossStep
<1>new. ASSUME NEW j, j \in Outcomes(Named')
        PROVE  \/ Same(j)
               \/ NewDBCurrent /\ DOMAIN log = {} /\ Tables(Records', j) = {}
  BY <1>live, <1>new, OutcomeStep
<1>1. CASE NewDBCurrent
  <2>1. current = 0 /\ log' = log /\ UNCHANGED <<acked, safe>>
    BY <1>1 DEF NewDBCurrent, BlankOK, history
  <2>2. acked = {} /\ safe = {}
    BY <2>1 DEF BlankOK
  <2>3. ASSUME NEW j, j \in Outcomes(Named') PROVE B(j) = {}
    <3>1. DOMAIN log = {} /\ Tables(Records', j) = {}
      BY <1>new, <2>1, <2>3
    <3> QED  BY <2>1, <3>1 DEF AtIn, EntriesIn, LogsFrom
  <2> HIDE DEF B
  <2>4. \A j \in Outcomes(Named') : \A e \in B(j) : e \in B(k) \/ e.batch \in doubt'
    BY <2>3
  <2> QED  BY <2>1, <2>2, <2>4 DEF B
<1>2. CASE ~NewDBCurrent
  <2>1. \A j \in Outcomes(Named') : Same(j)
    BY <1>2, <1>new
  <2>2. Same(k)
    BY <2>1
  <2>3. ASSUME NEW j, j \in Outcomes(Named')
        PROVE  /\ ~PowerLoss => A(j) \subseteq B(j)
               /\ SyncedIn(table, Records, j, log) \subseteq D(j)
               /\ D(j) \subseteq B(j)
               /\ \A e \in B(j) : e \in A(j)
    <3>1. Same(j)
      BY <2>1, <2>3
    <3>2. /\ ~PowerLoss => AtIn(table, Records, j, log) \subseteq AtIn(table', Records', j, log')
          /\ SyncedIn(table, Records, j, log) \subseteq SyncedIn(table', Records', j, log')
          /\ SyncedIn(table', Records', j, log') \subseteq AtIn(table', Records', j, log')
          /\ \A e \in AtIn(table', Records', j, log') : e \in AtIn(table, Records, j, log) \/ Fresh(e)
      BY <3>1, SameOutcome
    <3> QED  BY <1>live, <3>2
  <2>4. /\ safe \subseteq Batches(SyncedIn(table, Records, k, log))
        /\ Live => /\ Visible \cup Written \subseteq A(k)
                   /\ \A e \in A(k) : e \in Visible \cup Written \/ e.batch \in doubt
        /\ ~Live => /\ acked \subseteq Batches(A(k))
                    /\ \A j \in Outcomes(Named) : \A e \in A(j) :
                         e \in A(k) \/ e.batch \in doubt
    BY <1>loss, <2>2, OutcomeKnows
  <2>5. Live => \A j \in Outcomes(Named) : \A e \in A(j) : e \in A(k) \/ e.batch \in doubt
    <3>1. ASSUME Live, NEW j \in Outcomes(Named), NEW e \in A(j)
          PROVE  e \in Visible \cup Written \/ e.batch \in doubt
      BY <1>loss, <2>2, <3>1, OutcomeKnows
    <3> QED  BY <2>4, <3>1
  <2>6. Live => acked \subseteq Batches(A(k))
    <3>1. Live => acked \subseteq Batches(Visible)
      BY <1>loss DEF DurableOK
    <3> QED  BY <2>4, <3>1 DEF Batches
  <2>7. safe' \subseteq Batches(D(k))
    BY <1>loss, <2>3, <2>4 DEF Batches
  <2>8. CASE PowerLoss
    <3>1. acked' = safe
      BY <2>8 DEF PowerLoss
    <3>2. acked' \subseteq Batches(B(k))
      BY <1>loss, <2>3, <2>7, <3>1 DEF Batches
    <3>3. \A j \in Outcomes(Named') : j = Whole(Records')
      <4> DEFINE f == Named
                 g == Named'
      <4>1. f \in File(Edit) /\ g \in File(Edit)
            /\ g.durable \in f.durable..Len(f.recs) /\ g.recs = SubSeq(f.recs, 1, g.durable)
        BY <2>2, <2>8, NamedCut, NamedType DEF Records
      <4>2. Records' = g.recs
        BY DEF Records
      <4> HIDE DEF f, g
      <4>3. /\ Outcomes(g) \subseteq Outcomes(f)
            /\ \A j \in Outcomes(g) : /\ Tables(g.recs, j) = Tables(f.recs, j) /\ g.recs[j] = f.recs[j]
                                      /\ j = Whole(g.recs)
            /\ Whole(g.recs) = IF g.durable <= Whole(f.recs) THEN g.durable ELSE Whole(f.recs)
        BY <4>1, OutcomesCut
      <4> QED  BY <4>2, <4>3 DEF g
    <3>4. \A j \in Outcomes(Named') : j = k
      BY <3>3
    <3> HIDE DEF B, D
    <3>5. \A j \in Outcomes(Named') : \A e \in B(j) : e \in B(k) \/ e.batch \in doubt'
      BY <3>4
    <3> QED  BY <2>7, <3>2, <3>5 DEF B, D
  <2>9. CASE ~PowerLoss
    <3> HIDE DEF A, B, D
    <3>1. acked' \subseteq Batches(B(k))
      BY <1>loss, <2>3, <2>4, <2>6, <2>9 DEF Batches
    <3>2. ASSUME NEW j \in Outcomes(Named'), NEW e \in B(j) PROVE e \in B(k) \/ e.batch \in doubt'
      <4>1. e \in A(j) /\ j \in Outcomes(Named)
        BY <2>1, <2>3, <3>2
      <4>2. e \in A(k) \/ e.batch \in doubt
        BY <2>4, <2>5, <4>1
      <4> QED  BY <1>loss, <2>3, <2>9, <4>2
    <3> QED  BY <2>7, <3>1, <3>2 DEF B, D
  <2> QED  BY <2>8, <2>9
<1> QED  BY <1>1, <1>2

\* So what was promised is found again.
LEMMA DurableStep ==
  ASSUME Types, Types', BlankOK, BlankOK', ManifestOK, OpeningOK, LiveOK, BackgroundOK, SyncedOK,
         LiveOK', LogOK, LogOK', DurableOK, [Next]_vars
  PROVE  DurableOK'
<1> SUFFICES ASSUME NoLoss' PROVE
      /\ Live' => acked' \subseteq Batches(Visible')
      /\ current' # 0 => \A k \in Outcomes(Named') :
           /\ safe' \subseteq Batches(SyncedIn(table', Records', k, log'))
           /\ Live' => /\ Visible' \cup Written' \subseteq AtIn(table', Records', k, log')
                       /\ \A e \in AtIn(table', Records', k, log') : e \in Visible' \cup Written' \/ e.batch \in doubt'
           /\ ~Live' => /\ acked' \subseteq Batches(AtIn(table', Records', k, log'))
                        /\ \A j \in Outcomes(Named') : \A e \in AtIn(table', Records', j, log') :
                             e \in AtIn(table', Records', k, log') \/ e.batch \in doubt'
  <2>1. \A j : /\ At(Named, j, log)' = AtIn(table', Records', j, log')
               /\ SyncedAt(Named, j, log)' = SyncedIn(table', Records', j, log')
    BY DEF At, SyncedAt, AtIn, SyncedIn, TableEntries, EntriesIn, Records
  <2>2. Batches(Visible)' = Batches(Visible')
    OBVIOUS
  <2> QED  BY <2>1 DEF DurableOK
<1>live. Live' => current' # 0
  BY DEF LiveOK
<1>down. ASSUME ~Live', current' # 0, NEW k \in Outcomes(Named')
         PROVE /\ safe' \subseteq Batches(SyncedIn(table', Records', k, log'))
               /\ acked' \subseteq Batches(AtIn(table', Records', k, log'))
               /\ \A j \in Outcomes(Named') : \A e \in AtIn(table', Records', j, log') :
                    e \in AtIn(table', Records', k, log') \/ e.batch \in doubt'
  BY <1>down, DownOutcome
<1>open. CASE Live' /\ NewCurrent
  <2>1. ~NewDBCurrent /\ ~ApplyAdd
    BY <1>open DEF NewCurrent, OpenCurrent, NewDBCurrent, ApplyAdd, Running
  <2>2. ASSUME NEW k, k \in Outcomes(Named')
        PROVE  Tables(Records', k) = edit.add \cup version /\ Records'[k].log = edit.log
    BY <1>live, <1>open, <2>1, <2>2, OutcomeStep
  <2>3. ASSUME NEW k \in Outcomes(Named')
        PROVE  /\ safe' \subseteq Batches(SyncedIn(table', Records', k, log'))
               /\ Written' = {} /\ Visible' = AtIn(table', Records', k, log')
               /\ acked' \subseteq Batches(Visible')
    BY <1>open, <2>2, OpenedOutcome
  <2>4. \E k : k \in Outcomes(Named')
    <3> DEFINE r == [log |-> edit.log, next |-> next_file, last |-> last_sequence,
                     add |-> edit.add \cup version, del |-> {}]
               f == Named'
    <3>1. f.recs = <<r>> /\ r \in Edit /\ r.add = edit.add \cup version
      BY <1>open, NamedNew
    <3> HIDE DEF r, f
    <3>2. f.recs[1] = r /\ Outcomes(f) = {1} /\ Tables(f.recs, 1) = r.add /\ DOMAIN f.recs = {1}
      BY <3>1, OneRecord
    <3> QED  BY <3>2 DEF f
  <2>5. acked' \subseteq Batches(Visible')
    BY <2>3, <2>4
  <2> QED  BY <1>open, <2>3, <2>5
<1>run. CASE Live' /\ ~NewCurrent
  <2>1. Live /\ NoLoss /\ current # 0 /\ ~PowerLoss /\ ~NewDBCurrent
    <3>1. Live
      BY <1>run, LiveSteps
    <3>2. current # 0 /\ ~PowerLoss /\ ~NewDBCurrent
      BY <1>run, <3>1 DEF LiveOK, PowerLoss, NewDBCurrent, Live
    <3> QED  BY <3>1, <3>2, LossStep
  <2>2. ASSUME NEW k, k \in Outcomes(Named')
        PROVE  /\ safe' \subseteq Batches(SyncedIn(table', Records', k, log'))
               /\ Visible' \cup Written' \subseteq AtIn(table', Records', k, log')
               /\ \A e \in AtIn(table', Records', k, log') : e \in Visible' \cup Written' \/ e.batch \in doubt'
    <3>1. CASE /\ current # 0 /\ current' = current /\ k \in Outcomes(Named)
               /\ Tables(Records', k) = Tables(Records, k) /\ Records'[k] = Records[k]
      BY <1>run, <3>1, LiveOutcome
    <3>2. CASE /\ ApplyAdd /\ current # 0 /\ k = Len(Records) + 1 /\ Whole(Records) = Len(Records)
               /\ Len(Records) \in Outcomes(Named)
               /\ Tables(Records', k) = (Tables(Records, Len(Records)) \ edit.del) \cup edit.add
               /\ Records'[k] = edit
      BY <1>run, <3>2, AddedOutcome
    <3> QED  BY <1>live, <1>run, <2>1, <2>2, <3>1, <3>2, OutcomeStep
  <2>3. acked' \subseteq Batches(Visible')
    <3>1. acked \subseteq Batches(Visible)
      BY <2>1 DEF DurableOK
    <3>2. CASE FinishWrite
      <4>1. acked' = acked \cup {writing[1].entry.batch} /\ writing # <<>>
        BY <3>2 DEF FinishWrite
      <4>2. Written = {writing[1].entry}
        BY <4>1, WrittenOne DEF Types
      <4>3. Visible' = Visible \cup Written
        BY <1>run, <3>2, VisibleStep
      <4> QED  BY <3>1, <4>1, <4>2, <4>3 DEF Batches
    <3>3. CASE ~FinishWrite
      <4>1. Visible' = Visible /\ acked' = acked
        BY <1>run, <2>1, <3>3, VisibleStep, LossStep
      <4> QED  BY <3>1, <4>1
    <3> QED  BY <3>2, <3>3
  <2> QED  BY <1>run, <2>2, <2>3
<1> QED  BY <1>down, <1>open, <1>run

\* At first nothing is promised.
LEMMA PromiseInit == ASSUME Init PROVE LogOK /\ DurableOK
<1>1. DOMAIN log = {} /\ current = 0 /\ ~Live
  BY DEF Init, Live
<1> QED  BY <1>1 DEF LogOK, NoneTorn, DurableOK

\* Every state that a crash may leave has what was promised, as long as no
\* write was torn.
THEOREM Promises == Spec => []IInv
<1>1. Init => IInv
  BY StructureInit, SequenceInit, PromiseInit DEF IInv
<1>2. IInv /\ [Next]_vars => IInv'
  <2>1. ASSUME IInv, [Next]_vars PROVE IInv'
    <3>1. Structure /\ SequenceOK /\ LogOK /\ DurableOK
      BY <2>1 DEF IInv
    <3>2. Structure'
      BY <2>1, <3>1, StructureStep
    <3>3. SequenceOK'
      BY <2>1, <3>1, <3>2, SequenceStep DEF Structure
    <3>4. LogOK'
      BY <2>1, <3>1, <3>2, LogStep DEF Structure
    <3>5. DurableOK'
      BY <2>1, <3>1, <3>2, <3>4, DurableStep DEF Structure
    <3> QED  BY <3>2, <3>3, <3>4, <3>5 DEF IInv
  <2> QED  BY <2>1
<1> QED  BY <1>1, <1>2, PTL DEF Spec

\* As long as no write failed, whatever happened to the manifest, to tables and
\* to CURRENT, and wherever the process or the power failed: what Write answered
\* with OK is there when the database is open (after a power failure, what it
\* answered with sync).  Each outcome of the manifest has the promises together
\* with the logs from its log number on: a flush lets go of a log only with the
\* record that adds its table, and DeleteObsoleteFiles waits until that record
\* is the only outcome.
THEOREM NothingAckedIsLost == Spec => []OnlyDoubtLoses
<1>1. IInv => OnlyDoubtLoses
  BY DEF IInv, DurableOK, NoLoss, Live, OnlyDoubtLoses
<1> QED  BY <1>1, Promises, PTL

\* If no append to a log tears, the same holds whatever failed: a failed Sync of
\* the log, of a table or of the manifest loses nothing that was promised.
THEOREM AckedStaysVisible == ASSUME "append" \notin Faults PROVE Spec => []AckedVisible
<1>1. IInv => AckedVisible
  BY DEF IInv, DurableOK, NoLoss, Live, AckedVisible
<1> QED  BY <1>1, Promises, PTL

-----------------------------------------------------------------------------
(* A database that was opened can be opened again.                         *)

\* A record of the manifest is torn only if none follows it: nothing is
\* applied to a manifest after a failed append.
TornLast ==
  /\ compactions \in Nat
  /\ MaxCompactions = 0 => inputs = {}
  /\ current # 0 => \A i \in DOMAIN Records :
       Records[i] = Torn => i = Len(Records) /\ bgpc = "idle" /\ "manifest" \in Faults

\* The background thread does not start again after an error.
LEMMA IdleStays ==
  ASSUME Structure, TornLast, [Next]_vars, MaxCompactions = 0, current # 0,
         NEW i \in DOMAIN Records, Records[i] = Torn
  PROVE  bgpc' = "idle"
<1>1. i \in 1..Len(Records) /\ ~(Whole(Records) = Len(Records))
  BY NamedType DEF Structure
<1>2. bgpc = "idle"
  BY DEF TornLast
<1>3. Live => bg_error
  BY <1>1 DEF Structure, SyncedOK
<1>4. CASE Live' /\ ~NewCurrent
  <2>1. Live
    BY <1>4, LiveSteps DEF Structure
  <2>2. bgpc' = bgpc \/ FlushStart \/ FlushBuilt \/ CompactStart \/ CompactBuilt \/ ApplyAdd
          \/ ApplySync \/ ApplyInstall \/ CleanupDone
    BY <1>4, LiveChanges DEF Structure
  <2>3. ~FlushStart
    BY <1>2, <1>3, <2>1 DEF FlushStart
  <2>4. ~CompactStart
    BY <1>2, <1>3, <2>1 DEF CompactStart
  <2>5. ~FlushBuilt /\ ~CompactBuilt /\ ~ApplyAdd /\ ~ApplySync /\ ~ApplyInstall /\ ~CleanupDone
    BY <1>2 DEF FlushBuilt, CompactBuilt, ApplyAdd, ApplySync, ApplyInstall, CleanupDone
  <2> QED  BY <1>2, <2>2, <2>3, <2>4, <2>5
<1>5. CASE NewCurrent
  BY <1>2, <1>5 DEF NewCurrent, OpenCurrent, Forget
<1>6. CASE ~Live'
  BY <1>6, StructureStep DEF Structure, BlankOK, Live
<1> QED  BY <1>4, <1>5, <1>6

\* Without compactions nothing is ever compacted.
LEMMA NoInputs ==
  ASSUME TornLast, [Next]_vars
  PROVE  compactions' \in Nat /\ (MaxCompactions = 0 => inputs' = {})
<1> DEFINE Bounded ==
  /\ compactions' = compactions \/ compactions' = compactions + 1
  /\ inputs' \in {inputs, {}} \/ ~(MaxCompactions = 0)
<1>1. SUFFICES Bounded
  BY DEF TornLast
<1>NewDB. CASE NewDB
  BY <1>NewDB DEF NewDB, memory
<1>NewDBCurrent. CASE NewDBCurrent
  BY <1>NewDBCurrent DEF NewDBCurrent, memory
<1>OpenExisting. CASE OpenExisting
  BY <1>OpenExisting DEF OpenExisting, memory, counters
<1>Recover. CASE Recover
  BY <1>Recover DEF Recover, memory, counters
<1>RecoverLogFile. CASE RecoverLogFile
  BY <1>RecoverLogFile DEF RecoverLogFile, Forget
<1>OpenLog. CASE OpenLog
  BY <1>OpenLog DEF OpenLog, Forget
<1>OpenManifest. CASE OpenManifest
  BY <1>OpenManifest DEF OpenManifest, memory, counters
<1>OpenSync. CASE OpenSync
  BY <1>OpenSync DEF OpenSync, memory, Forget
<1>OpenCurrent. CASE OpenCurrent
  BY <1>OpenCurrent DEF OpenCurrent, memory, Forget
<1>DeleteObsoleteFile. CASE DeleteObsoleteFile
  BY <1>DeleteObsoleteFile DEF DeleteObsoleteFile, memory, counters
<1>OpenDone. CASE OpenDone
  BY <1>OpenDone DEF OpenDone, memory, counters
<1>AddRecord. ASSUME NEW b \in Batch, NEW sync \in BOOLEAN, AddRecord(b, sync) PROVE Bounded
  BY <1>AddRecord DEF AddRecord
<1>SyncLog. CASE SyncLog
  BY <1>SyncLog DEF SyncLog
<1>FinishWrite. CASE FinishWrite
  BY <1>FinishWrite DEF FinishWrite, counters
<1>Switch. CASE Switch
  BY <1>Switch DEF Switch, counters
<1>SwitchFails. CASE SwitchFails
  BY <1>SwitchFails DEF SwitchFails, memory
<1>FlushStart. CASE FlushStart
  BY <1>FlushStart DEF FlushStart, counters
<1>FlushBuilt. CASE FlushBuilt
  BY <1>FlushBuilt DEF FlushBuilt
<1>CompactStart. CASE CompactStart
  BY <1>CompactStart, ConstantsAssumption DEF CompactStart, TornLast
<1>CompactOutput. CASE CompactOutput
  BY <1>CompactOutput DEF CompactOutput, counters
<1>CompactBuilt. CASE CompactBuilt
  BY <1>CompactBuilt DEF CompactBuilt
<1>ApplyAdd. CASE ApplyAdd
  BY <1>ApplyAdd DEF ApplyAdd, ApplyFailed
<1>ApplySync. CASE ApplySync
  BY <1>ApplySync DEF ApplySync, ApplyFailed
<1>ApplyInstall. CASE ApplyInstall
  BY <1>ApplyInstall DEF ApplyInstall, counters
<1>CleanupDone. CASE CleanupDone
  BY <1>CleanupDone DEF CleanupDone, counters
<1>ProcessCrash. CASE ProcessCrash
  BY <1>ProcessCrash DEF ProcessCrash, Forget, Crash
<1>PowerLoss. CASE PowerLoss
  BY <1>PowerLoss DEF PowerLoss, Forget
<1>Stutter. CASE UNCHANGED vars
  BY <1>Stutter DEF vars, memory, counters
<1> HIDE DEF Bounded
<1> QED
  BY <1>NewDB, <1>NewDBCurrent, <1>OpenExisting, <1>Recover, <1>RecoverLogFile, <1>OpenLog,
     <1>OpenManifest, <1>OpenSync, <1>OpenCurrent, <1>DeleteObsoleteFile, <1>OpenDone,
     <1>AddRecord, <1>SyncLog, <1>FinishWrite, <1>Switch, <1>SwitchFails, <1>FlushStart, <1>FlushBuilt,
     <1>CompactStart, <1>CompactOutput, <1>CompactBuilt, <1>ApplyAdd, <1>ApplySync,
     <1>ApplyInstall, <1>CleanupDone, <1>ProcessCrash, <1>PowerLoss, <1>Stutter DEF Next

\* The manifest keeps this shape.
LEMMA TornLastStep ==
  ASSUME Structure, TornLast, [Next]_vars, "manifest" \notin Faults \/ MaxCompactions = 0
  PROVE  TornLast'
<1> USE DEF Structure
<1>0. Structure'
  BY StructureStep
<1>1. SUFFICES ASSUME current' # 0, NEW i \in (DOMAIN Records)', Records'[i] = Torn
               PROVE  i = Len(Records') /\ bgpc' = "idle" /\ "manifest" \in Faults
  BY NoInputs DEF TornLast
<1>2. NoEdit \in Edit /\ [NoEdit EXCEPT !.next = 2] \in Edit /\ Torn \notin Edit
  BY NoEditType, ConstantsAssumption
<1>3. CASE NewDBCurrent
  <2>1. phase = "newdb" /\ current' = 1 /\ manifest' = manifest
    BY <1>1, <1>3, <1>0 DEF NewDBCurrent, BlankOK
  <2>2. Records' = <<[NoEdit EXCEPT !.next = 2]>>
    BY <2>1 DEF BlankOK, Records, Named
  <2> QED  BY <1>1, <1>2, <2>2
<1>4. CASE NewCurrent
  <2> DEFINE r == [log |-> edit.log, next |-> next_file, last |-> last_sequence,
                   add |-> edit.add \cup version, del |-> {}]
  <2>1. Records' = <<r>> /\ r \in Edit
    BY <1>4, NamedNew DEF Records
  <2> HIDE DEF r
  <2> QED  BY <1>1, <1>2, <2>1
<1>5. CASE current # 0 /\ ~NewCurrent
  <2>1. DOMAIN Records = 1..Len(Records) /\ Len(Records) \in Nat
    BY <1>5, NamedType
  <2>2. (\E j \in DOMAIN Records : Records[j] = Torn) => bgpc = "idle" /\ bgpc' = "idle" /\ "manifest" \in Faults
    BY <1>5, IdleStays, <1>1 DEF TornLast
  <2>3. \A j \in DOMAIN Records : Records[j] = Torn => j = Len(Records)
    BY <1>5 DEF TornLast
  <2>4. CASE Records' = Records
    BY <1>1, <2>2, <2>3, <2>4
  <2>5. CASE ApplyAdd
    <3>1. bgpc = "add"
      BY <2>5 DEF ApplyAdd
    <3>2. \A j \in DOMAIN Records : Records[j] # Torn
      BY <2>2, <3>1
    <3>3. CASE Records' = Records
      BY <1>1, <3>2, <3>3
    <3>4. ASSUME NEW r \in {edit, Torn}, Records' = Append(Records, r),
                 ApplyFailed \/ r = edit
          PROVE  i = Len(Records') /\ bgpc' = "idle" /\ "manifest" \in Faults
      <4>0. Records \in Seq(Edit \cup {Torn}) /\ edit \in Edit
        BY <1>5, NamedType DEF Types, ControlType
      <4>1. i \in 1..Len(Records) + 1 /\ Len(Records') = Len(Records) + 1
        BY <1>1, <2>1, <3>4, <4>0
      <4>2. i = Len(Records) + 1 /\ r = Torn
        BY <1>1, <2>1, <3>2, <3>4, <4>0, <4>1
      <4>3. r # edit
        BY <1>2, <4>0, <4>2
      <4>4. ApplyFailed /\ "manifest" \in Faults
        <5>1. ApplyFailed
          BY <3>4, <4>3
        <5>2. CASE "manifest" \in Faults
          BY <5>1, <5>2
        <5>3. CASE "manifest" \notin Faults
          <6>1. manifest' = AppendTo(manifest, manifest_number, edit)
            BY <2>5, <5>3 DEF ApplyAdd, Fault
          <6>2. manifest_number = current /\ current \in DOMAIN manifest /\ manifest[current] \in File(Edit)
            BY <1>5, <2>5, NamedAppended, NamedType DEF LiveOK, Named
          <6>3. Records' = Append(Records, edit)
            <7> DEFINE n == manifest_number
            <7>1. AppendTo(manifest, n, edit)[n].recs = Append(manifest[n].recs, edit)
              BY <6>2, <4>0, AppendedFile
            <7>2. current' = current
              BY <2>5, NamedAppended
            <7> QED  BY <6>1, <6>2, <7>1, <7>2 DEF Records, Named
          <6> QED  BY <3>4, <4>0, <4>1, <4>2, <6>3, <4>3, <2>1
        <5> QED  BY <5>2, <5>3
      <4>5. inputs = {}
        BY <4>4 DEF TornLast
      <4> QED  BY <4>1, <4>2, <4>4, <4>5 DEF ApplyFailed, Resume
    <3>5. \/ Named' = Named
          \/ \E r \in {edit, Torn} : Records' = Append(Records, r) /\ (ApplyFailed \/ r = edit)
      BY <2>5, NamedAppended
    <3>6. Named' = Named => Records' = Records
      BY DEF Records
    <3> QED  BY <3>3, <3>4, <3>5, <3>6
  <2>6. CASE ApplySync
    BY <2>4, <2>6, NamedSynced DEF Records
  <2>7. CASE PowerLoss
    <3>1. (Named.durable)' \in Named.durable..Len(Records) /\ Records' = SubSeq(Records, 1, (Named.durable)')
      BY <1>5, <2>7, NamedCut
    <3> DEFINE d == (Named.durable)'
    <3>2. d \in 0..Len(Records)
      BY <3>1, <1>5, NamedType
    <3>3. Records \in Seq(Edit \cup {Torn})
      BY <1>5, NamedType
    <3> HIDE DEF d
    <3>4. Len(SubSeq(Records, 1, d)) = d /\ DOMAIN SubSeq(Records, 1, d) = 1..d
          /\ \A j \in 1..d : SubSeq(Records, 1, d)[j] = Records[j]
      BY <3>2, <3>3
    <3>5. Records' = SubSeq(Records, 1, d)
      BY <3>1 DEF d
    <3>6. i \in 1..d /\ Records[i] = Torn
      BY <1>1, <3>4, <3>5
    <3>7. i \in DOMAIN Records /\ i = Len(Records)
      BY <2>1, <2>3, <3>2, <3>6
    <3>8. i = Len(Records')
      <4>1. Len(Records') = d
        BY <3>4, <3>5, Zenon
      <4>2. \A L, c \in Nat : i \in 1..c /\ i = L /\ c \in 0..L => i = c
        OBVIOUS
      <4>3. i \in 1..d /\ i = Len(Records) /\ d \in 0..Len(Records) /\ d \in Nat
        BY <2>1, <3>2, <3>6, <3>7
      <4>4. i = d
        BY <2>1, <4>2, <4>3, Zenon
      <4> QED  BY <4>1, <4>4
    <3> QED  BY <2>2, <3>6, <3>7, <3>8
  <2>8. Named' = Named => Records' = Records
    BY DEF Records
  <2> QED  BY <1>5, NamedSame, <2>4, <2>5, <2>6, <2>7, <2>8
<1>6. CASE current = 0 /\ ~NewDBCurrent /\ ~NewCurrent
  BY <1>1, <1>6, FileChanges
<1> QED  BY <1>3, <1>4, <1>5, <1>6

\* Only Recover finds a corruption.
LEMMA ToCorrupt ==
  ASSUME BlankOK, [Next]_vars, phase' = "corrupt"
  PROVE  Recover \/ Idles
<1>NewDB. ASSUME NewDB PROVE FALSE
  BY <1>NewDB DEF NewDB
<1>NewDBCurrent. ASSUME NewDBCurrent PROVE FALSE
  BY <1>NewDBCurrent DEF NewDBCurrent
<1>OpenExisting. ASSUME OpenExisting PROVE FALSE
  BY <1>OpenExisting DEF OpenExisting
<1>Replay. ASSUME Replay PROVE FALSE
  BY <1>Replay DEF Replay
<1>NewLog. ASSUME NewLog PROVE FALSE
  BY <1>NewLog DEF NewLog
<1>OpenManifest. ASSUME OpenManifest PROVE FALSE
  BY <1>OpenManifest DEF OpenManifest
<1>NewManifestSynced. ASSUME NewManifestSynced PROVE FALSE
  BY <1>NewManifestSynced DEF NewManifestSynced
<1>NewCurrent. ASSUME NewCurrent PROVE FALSE
  BY <1>NewCurrent DEF NewCurrent
<1>DeleteObsoleteFile. ASSUME DeleteObsoleteFile PROVE FALSE
  BY <1>DeleteObsoleteFile DEF DeleteObsoleteFile, BlankOK
<1>OpenDone. ASSUME OpenDone PROVE FALSE
  BY <1>OpenDone DEF OpenDone
<1>AddRecord. ASSUME NEW b \in Batch, NEW sync \in BOOLEAN, AddRecord(b, sync) PROVE FALSE
  BY <1>AddRecord DEF AddRecord, Unlocked, Running
<1>SyncLog. ASSUME SyncLog PROVE FALSE
  BY <1>SyncLog DEF SyncLog, Running, Unlocked
<1>FinishWrite. ASSUME FinishWrite PROVE FALSE
  BY <1>FinishWrite DEF FinishWrite, Unlocked, Running
<1>Switch. ASSUME Switch PROVE FALSE
  BY <1>Switch DEF Switch, Unlocked, Running
<1>FlushStart. ASSUME FlushStart PROVE FALSE
  BY <1>FlushStart DEF FlushStart, Running
<1>FlushBuilt. ASSUME FlushBuilt PROVE FALSE
  BY <1>FlushBuilt DEF FlushBuilt, Running
<1>CompactStart. ASSUME CompactStart PROVE FALSE
  BY <1>CompactStart DEF CompactStart, Running
<1>CompactOutput. ASSUME CompactOutput PROVE FALSE
  BY <1>CompactOutput DEF CompactOutput, Running
<1>CompactBuilt. ASSUME CompactBuilt PROVE FALSE
  BY <1>CompactBuilt DEF CompactBuilt, Running
<1>ApplyAdd. ASSUME ApplyAdd PROVE FALSE
  BY <1>ApplyAdd DEF ApplyAdd, Running
<1>ApplySync. ASSUME ApplySync PROVE FALSE
  BY <1>ApplySync DEF ApplySync, Running
<1>ApplyInstall. ASSUME ApplyInstall PROVE FALSE
  BY <1>ApplyInstall DEF ApplyInstall, Running
<1>CleanupDone. ASSUME CleanupDone PROVE FALSE
  BY <1>CleanupDone DEF CleanupDone, Running
<1>Quit. ASSUME Quit PROVE FALSE
  BY <1>Quit DEF Quit, Closed
<1>DropTable. ASSUME DropTable PROVE FALSE
  BY <1>DropTable DEF DropTable, Closed
<1>DropManifest. ASSUME DropManifest PROVE FALSE
  BY <1>DropManifest DEF DropManifest, Closed
<1>PowerLoss. ASSUME PowerLoss PROVE FALSE
  BY <1>PowerLoss DEF PowerLoss
<1> QED
  BY Steps, <1>NewDB, <1>NewDBCurrent, <1>OpenExisting, <1>Replay, <1>NewLog, <1>OpenManifest,
     <1>NewManifestSynced, <1>NewCurrent, <1>DeleteObsoleteFile, <1>OpenDone, <1>AddRecord,
     <1>SyncLog, <1>FinishWrite, <1>Switch, <1>FlushStart, <1>FlushBuilt, <1>CompactStart,
     <1>CompactOutput, <1>CompactBuilt, <1>ApplyAdd, <1>ApplySync, <1>ApplyInstall,
     <1>CleanupDone, <1>Quit, <1>DropTable, <1>DropManifest, <1>PowerLoss

\* A database that was opened once opens again, unless a failed append to the
\* manifest in the middle of a compaction is followed by others: of Recover's
\* tests of the manifest and of the tables that it names none fails.
THEOREM CreatedReopens ==
  ASSUME "manifest" \notin Faults \/ MaxCompactions = 0
  PROVE  Spec => []Reopens
<1>1. ASSUME Init PROVE TornLast
  BY <1>1 DEF Init, TornLast
<1>2. ASSUME Structure, TornLast, Reopens, [Next]_vars PROVE Reopens'
  <2> USE DEF Structure
  <2>1. SUFFICES ASSUME phase' = "corrupt", created' PROVE FALSE
    BY DEF Reopens
  <2>2. Recover \/ Idles
    BY <1>2, <2>1, ToCorrupt
  <2>3. CASE Idles
    BY <1>2, <2>1, <2>3 DEF Idles, history, Reopens
  <2>4. CASE Recover
    <3>1. created /\ current # 0
      BY <1>2, <2>1, <2>4 DEF Recover, history, BlankOK
    <3> DEFINE n == Whole(Records)
    <3>2. /\ Records \in Seq(Edit \cup {Torn}) /\ Len(Records) \in Nat /\ n \in 0..Len(Records)
          /\ DOMAIN Records = 1..Len(Records) /\ Named.durable \in 0..Len(Records)
      BY <1>2, <3>1, NamedType
    <3>3. n > 0
      BY <1>2, <3>1, <3>2 DEF ManifestOK, Reopens
    <3>4. ~(n + 1 < Len(Records))
      <4>1. SUFFICES ASSUME n + 1 < Len(Records) PROVE FALSE
        OBVIOUS
      <4>2. n < Len(Records) => Records[n + 1] = Torn
        BY <3>2, WholeDef
      <4>3. n + 1 \in DOMAIN Records /\ Records[n + 1] = Torn
        BY <3>2, <4>1, <4>2
      <4>4. n + 1 = Len(Records)
        BY <1>2, <3>1, <4>3 DEF TornLast
      <4> QED  BY <3>2, <4>1, <4>4
    <3>5. n \in Outcomes(Named)
      BY <3>2, <3>3 DEF Outcomes, Records
    <3>6. OnDisk(Tables(Records, n))
      BY <1>2, <3>1, <3>5 DEF ManifestOK
    <3>7. \A t \in Tables(Records, n) : t \in DOMAIN table
      BY <3>6 DEF OnDisk
    <3>8. ~MaybeCorrupt(Records)
      BY <3>2, <3>3, <3>4 DEF MaybeCorrupt
    <3>9. phase' = "logs"
      BY <2>4, <3>7, <3>8 DEF Recover, Records, Named
    <3> QED  BY <2>1, <3>9
  <2> QED  BY <2>2, <2>3, <2>4
<1>3. Init => Reopens
  BY DEF Init, Reopens
<1> QED  BY <1>1, <1>2, <1>3, StructureHolds, TornLastStep, PTL DEF Spec

-----------------------------------------------------------------------------
(* What the store promises: the refinement of module Store.                *)

\* The batches of the abstract store, and the one that it is writing.
Contents == Batches(IF phase = "open" THEN Visible ELSE Recovered)
Outages == crashes.power
Pending == {writing[i].entry.batch : i \in 1..Len(writing)}

\* What DB::Open would find is what the last whole record of the manifest and
\* the logs say.
LEMMA RecoveredIs ==
  /\ Recovered = IF current = 0 \/ Whole(Records) = 0 THEN {}
                 ELSE AtIn(table, Records, Whole(Records), log)
  /\ Recovered' = IF current' = 0 \/ Whole(Records') = 0 THEN {}
                  ELSE AtIn(table', Records', Whole(Records'), log')
<1>1. Recovered = IF current = 0 \/ Whole(Records) = 0 THEN {}
                  ELSE AtIn(table, Records, Whole(Records), log)
  BY DEF Recovered, AtIn, EntriesIn, TableEntries, LogsFrom, LogEntries, Records, Named
<1>2. Recovered' = IF current' = 0 \/ Whole(Records') = 0 THEN {}
                   ELSE AtIn(table', Records', Whole(Records'), log')
  BY DEF Recovered, AtIn, EntriesIn, TableEntries, LogsFrom, LogEntries, Records, Named
<1> QED  BY <1>1, <1>2

\* The last whole record is one of the outcomes of a crash.
LEMMA LastOutcome ==
  ASSUME Types, ManifestOK, current # 0, Whole(Records) # 0
  PROVE  Whole(Records) \in Outcomes(Named)
BY NamedType DEF Outcomes, Records

\* When DB::Open is about to return, the tables have all that it found.
LEMMA OpenedContents ==
  ASSUME IInv, NoLoss, phase = "cleanup"
  PROVE  Recovered = Visible /\ Written = {} /\ current # 0
<1> USE DEF IInv, Structure
<1>1. Live /\ ~bg_error /\ ~Applying /\ mem = {} /\ imm = {} /\ writing = <<>>
      /\ log[logfile_number] = EmptyFile
  BY DEF Live, LiveOK, Applying
<1> DEFINE n == Len(Records)
<1>2. /\ current # 0 /\ Whole(Records) = n /\ n \in Nat \ {0} /\ n \in Outcomes(Named)
      /\ Tables(Records, n) = version /\ Records[n].log = log_number
  BY <1>1, OnlyVersion
<1>3. LogLive
  BY <1>1 DEF LogOK
<1>4. Intact(log[logfile_number].recs) = {}
  <2>1. log[logfile_number].recs = <<>>
    BY <1>1 DEF EmptyFile
  <2> QED  BY <2>1, EmptyLog
<1>5. \A l \in DOMAIN log : log_number <= l => Intact(log[l].recs) = {}
  BY <1>1, <1>3, <1>4, LogsAre
<1>6. LogsFrom(log, log_number) = {}
  <2>1. \A l \in DOMAIN log : l >= log_number => log_number <= l
    BY DEF Types, LogType, Typed, NumberType
  <2> QED  BY <1>5, <2>1 DEF LogsFrom
<1>7. Recovered = AtIn(table, Records, n, log)
  BY <1>2, RecoveredIs
<1>8. AtIn(table, Records, n, log) = EntriesIn(table, version)
  BY <1>2, <1>6 DEF AtIn
<1>9. Visible = EntriesIn(table, version)
  BY <1>1 DEF Visible, TableEntries, EntriesIn
<1>10. Written = {}
  BY <1>1 DEF Written
<1> HIDE DEF n
<1> QED  BY <1>2, <1>7, <1>8, <1>9, <1>10

\* A record is only written to an open database.
LEMMA NoFresh ==
  ASSUME [Next]_vars, phase # "open" \/ phase' # "open", NEW e
  PROVE  ~Fresh(e)
BY DEF Fresh, AddRecord, Unlocked, Running

\* No step of DB::Open changes what a crash in the middle of it would recover.
LEMMA DownContents ==
  ASSUME IInv, IInv', NoLoss', [Next]_vars, ~PowerLoss, phase # "open" \/ Quit, phase' # "open"
  PROVE  Recovered' = Recovered
<1> USE DEF IInv, Structure
<1> DEFINE w == Whole(Records)
<1>1. CASE NewDBCurrent
  <2>1. phase = "newdb" /\ current = 0 /\ DOMAIN log = {} /\ UNCHANGED <<log, manifest, table>>
    BY <1>1 DEF NewDBCurrent, BlankOK
  <2>2. Recovered = {}
    BY <2>1, RecoveredIs
  <2>3. CASE current' = 0
    BY <2>2, <2>3, RecoveredIs
  <2>4. CASE current' # 0
    <3>1. current' = 1
      BY <1>1, <2>1, <2>4 DEF NewDBCurrent
    <3> DEFINE r == [NoEdit EXCEPT !.next = 2]
               g == [recs |-> <<r>>, durable |-> 0]
    <3>2. Named' = g
      BY <2>1, <3>1 DEF BlankOK, Named
    <3>3. r \in Edit /\ r.add = {}
      BY NoEditType DEF NoEdit
    <3>4. Whole(g.recs) = 1 /\ Tables(g.recs, 1) = r.add
      <4> HIDE DEF r
      <4> QED  BY <3>3, OneRecord
    <3>5. Records' = g.recs
      BY <3>2 DEF Records
    <3> HIDE DEF g
    <3>6. Recovered' = AtIn(table', Records', 1, log')
      BY <2>4, <3>4, <3>5, RecoveredIs
    <3>7. EntriesIn(table', Tables(Records', 1)) = {}
      BY <3>3, <3>4, <3>5 DEF EntriesIn
    <3>8. LogsFrom(log', Records'[1].log) = {}
      BY <2>1 DEF LogsFrom
    <3> QED  BY <2>2, <3>6, <3>7, <3>8 DEF AtIn
  <2> QED  BY <2>3, <2>4
<1>2. CASE NewCurrent
  <2>1. Opening /\ phase = "current" /\ log' = log /\ LogsFrom(log, edit.log) = {} /\ ~Live
    BY <1>2, NoLogLeft DEF NewCurrent, OpenCurrent, Live
  <2>2. version = Tables(Records, w) /\ log_number = Records[w].log /\ todo = {}
        /\ TableEntries(edit.add) = UNION {LogEntries(l) : l \in {x \in DOMAIN log : x >= log_number} \ todo}
    BY <2>1 DEF OpeningOK
  <2>3. current # 0 /\ w # 0
    BY <2>1, OpeningNumbers
  <2> DEFINE r == [log |-> edit.log, next |-> next_file, last |-> last_sequence,
                   add |-> edit.add \cup version, del |-> {}]
             g == [recs |-> <<r>>, durable |-> 1]
  <2>4. Named' = g /\ r \in Edit /\ current' # 0 /\ table' = table
    BY <1>2, NamedNew
  <2>5. r.log = edit.log /\ r.add = edit.add \cup version
    OBVIOUS
  <2> HIDE DEF r
  <2>6. Whole(g.recs) = 1 /\ Tables(g.recs, 1) = r.add /\ g.recs[1] = r
    BY <2>4, OneRecord
  <2>7. Records' = g.recs
    BY <2>4 DEF Records
  <2> HIDE DEF g
  <2>8. Recovered' = AtIn(table', Records', 1, log')
    BY <2>4, <2>6, <2>7, RecoveredIs
  <2>9. AtIn(table', Records', 1, log') = EntriesIn(table, edit.add \cup version)
    BY <2>1, <2>4, <2>5, <2>6, <2>7 DEF AtIn
  <2>10. EntriesIn(table, edit.add \cup version) = EntriesIn(table, edit.add) \cup EntriesIn(table, version)
    BY EntriesUnion
  <2>11. EntriesIn(table, edit.add) = LogsFrom(log, log_number)
    BY <2>2 DEF TableEntries, EntriesIn, LogsFrom, LogEntries
  <2>12. Recovered = AtIn(table, Records, w, log)
    BY <2>3, RecoveredIs
  <2>13. AtIn(table, Records, w, log) = EntriesIn(table, version) \cup LogsFrom(log, log_number)
    BY <2>2 DEF AtIn
  <2> HIDE DEF w
  <2> QED  BY <2>8, <2>9, <2>10, <2>11, <2>12, <2>13
<1>3. CASE current = 0 /\ ~NewDBCurrent /\ ~NewCurrent
  <2>1. current' = 0
    BY <1>3, FileChanges
  <2> QED  BY <1>3, <2>1, RecoveredIs
<1>4. CASE current # 0 /\ ~NewDBCurrent /\ ~NewCurrent
  <2>1. ~ApplyAdd /\ ~ApplySync
    <3>1. CASE phase # "open"
      BY <3>1 DEF ApplyAdd, ApplySync, Running
    <3>2. CASE phase = "open"
      BY <3>2 DEF ApplyAdd, ApplySync, Running
    <3> QED  BY <3>1, <3>2
  <2>2. current' = current /\ Named' = Named
    BY <1>4, <2>1, NamedSame
  <2>3. Records' = Records
    BY <2>2 DEF Records
  <2>4. CASE w = 0
    BY <1>4, <2>2, <2>3, <2>4, RecoveredIs
  <2>5. CASE w # 0
    <3>1. w \in Outcomes(Named)
      BY <1>4, <2>5, LastOutcome
    <3>2. Tables(Records', w) = Tables(Records, w) /\ Records'[w] = Records[w]
      BY <2>3
    <3> DEFINE k == w
    <3>3. k \in Outcomes(Named) /\ Tables(Records', k) = Tables(Records, k) /\ Records'[k] = Records[k]
      BY <3>1, <3>2
    <3> HIDE DEF k
    <3>4. /\ ~PowerLoss => AtIn(table, Records, k, log) \subseteq AtIn(table', Records', k, log')
          /\ SyncedIn(table, Records, k, log) \subseteq SyncedIn(table', Records', k, log')
          /\ SyncedIn(table', Records', k, log') \subseteq AtIn(table', Records', k, log')
          /\ \A e \in AtIn(table', Records', k, log') : e \in AtIn(table, Records, k, log) \/ Fresh(e)
      BY <1>4, <3>3, SameOutcome
    <3>5. AtIn(table', Records', k, log') = AtIn(table, Records, k, log)
      BY <3>4, NoFresh
    <3>6. Recovered = AtIn(table, Records, k, log)
      BY <1>4, <2>5, RecoveredIs DEF k
    <3>7. Recovered' = AtIn(table', Records', k, log')
      BY <1>4, <2>2, <2>3, <2>5, RecoveredIs DEF k
    <3> QED  BY <3>5, <3>6, <3>7
  <2> QED  BY <2>4, <2>5
<1> QED  BY <1>1, <1>2, <1>3, <1>4

\* Only a power failure is counted as one.
LEMMA OutagesCounted ==
  ASSUME [Next]_vars
  PROVE  Outages' = Outages \/ PowerLoss
<1>1. SUFFICES crashes' = crashes \/ ProcessCrash \/ PowerLoss
  BY DEF ProcessCrash, Outages
<1>2. CASE NewDB \/ NewDBCurrent \/ OpenExisting \/ Recover \/ RecoverLogFile \/ OpenLog
  BY <1>2 DEF NewDB, NewDBCurrent, OpenExisting, Recover, RecoverLogFile, OpenLog, counters
<1>3. CASE OpenManifest \/ OpenSync \/ OpenCurrent \/ DeleteObsoleteFile \/ OpenDone \/ SyncLog
  BY <1>3 DEF OpenManifest, OpenSync, OpenCurrent, DeleteObsoleteFile, OpenDone, SyncLog, counters
<1>4. CASE FinishWrite \/ Switch \/ SwitchFails \/ FlushStart \/ FlushBuilt \/ CompactStart
  BY <1>4 DEF FinishWrite, Switch, SwitchFails, FlushStart, FlushBuilt, CompactStart, counters
<1>5. CASE CompactOutput \/ CompactBuilt \/ ApplyAdd \/ ApplySync \/ ApplyInstall \/ CleanupDone
  BY <1>5 DEF CompactOutput, CompactBuilt, ApplyAdd, ApplySync, ApplyInstall, CleanupDone,
     counters
<1>6. CASE (\E b \in Batch, sync \in BOOLEAN : AddRecord(b, sync)) \/ UNCHANGED vars
  BY <1>6 DEF AddRecord, vars, counters
<1> QED  BY <1>2, <1>3, <1>4, <1>5, <1>6 DEF Next

\* What the steps do to the database as its user sees it.
LEMMA StoreSteps ==
  ASSUME [Next]_vars
  PROVE  \/ PowerLoss \/ OpenDone \/ (Quit /\ phase = "open")
         \/ phase = "open" /\ phase' = "open"
         \/ phase # "open" /\ phase' # "open" /\ UNCHANGED <<safe, doubt>>
<1>NewDB. CASE NewDB
  BY <1>NewDB DEF NewDB, history
<1>NewDBCurrent. CASE NewDBCurrent
  BY <1>NewDBCurrent DEF NewDBCurrent, history
<1>OpenExisting. CASE OpenExisting
  BY <1>OpenExisting DEF OpenExisting, history
<1>Recover. CASE Recover
  BY <1>Recover DEF Recover, history
<1>Replay. CASE Replay
  BY <1>Replay DEF Replay, RecoverLogFile, history
<1>NewLog. CASE NewLog
  BY <1>NewLog DEF NewLog, OpenLog, history
<1>OpenManifest. CASE OpenManifest
  BY <1>OpenManifest DEF OpenManifest, history
<1>NewManifestSynced. CASE NewManifestSynced
  BY <1>NewManifestSynced DEF NewManifestSynced, OpenSync, history
<1>NewCurrent. CASE NewCurrent
  BY <1>NewCurrent DEF NewCurrent, OpenCurrent, history
<1>DeleteObsoleteFile. CASE DeleteObsoleteFile
  BY <1>DeleteObsoleteFile DEF DeleteObsoleteFile, history
<1>AddRecord. ASSUME NEW b \in Batch, NEW sync \in BOOLEAN, AddRecord(b, sync) PROVE phase = "open" /\ phase' = "open"
  BY <1>AddRecord DEF AddRecord, Running, Unlocked
<1>SyncLog. CASE SyncLog
  BY <1>SyncLog DEF SyncLog, Running, Unlocked
<1>FinishWrite. CASE FinishWrite
  BY <1>FinishWrite DEF FinishWrite, Running, Unlocked
<1>Switch. CASE Switch
  BY <1>Switch DEF Switch, Running, Unlocked
<1>FlushStart. CASE FlushStart
  BY <1>FlushStart DEF FlushStart, Running
<1>FlushBuilt. CASE FlushBuilt
  BY <1>FlushBuilt DEF FlushBuilt, Running
<1>CompactStart. CASE CompactStart
  BY <1>CompactStart DEF CompactStart, Running
<1>CompactOutput. CASE CompactOutput
  BY <1>CompactOutput DEF CompactOutput, Running
<1>CompactBuilt. CASE CompactBuilt
  BY <1>CompactBuilt DEF CompactBuilt, Running
<1>ApplyAdd. CASE ApplyAdd
  BY <1>ApplyAdd DEF ApplyAdd, Running
<1>ApplySync. CASE ApplySync
  BY <1>ApplySync DEF ApplySync, Running
<1>ApplyInstall. CASE ApplyInstall
  BY <1>ApplyInstall DEF ApplyInstall, Running
<1>CleanupDone. CASE CleanupDone
  BY <1>CleanupDone DEF CleanupDone, Running
<1>Quit. CASE Quit
  BY <1>Quit DEF Quit, Closed
<1>DropTable. CASE DropTable
  BY <1>DropTable DEF DropTable, Closed
<1>DropManifest. CASE DropManifest
  BY <1>DropManifest DEF DropManifest, Closed
<1>Stutter. CASE Idles
  BY <1>Stutter DEF Idles, history, memory
<1> QED
  BY Steps, <1>NewDB, <1>NewDBCurrent, <1>OpenExisting, <1>Recover, <1>Replay, <1>NewLog,
     <1>OpenManifest, <1>NewManifestSynced, <1>NewCurrent, <1>DeleteObsoleteFile, <1>AddRecord,
     <1>SyncLog, <1>FinishWrite, <1>Switch, <1>FlushStart, <1>FlushBuilt, <1>CompactStart,
     <1>CompactOutput, <1>CompactBuilt, <1>ApplyAdd, <1>ApplySync, <1>ApplyInstall,
     <1>CleanupDone, <1>Quit, <1>DropTable, <1>DropManifest, <1>Stutter

\* The batch being written.
LEMMA PendingIs ==
  /\ Pending = Batches(Written) /\ (writing = <<>> => Pending = {})
  /\ Pending' = Batches(Written') /\ (writing' = <<>> => Pending' = {})
<1>1. Pending = Batches(Written) /\ (writing = <<>> => Pending = {})
  <2>1. Pending = Batches(Written)
    BY DEF Pending, Batches, Written
  <2>2. writing = <<>> => Pending = {}
    BY DEF Pending
  <2> QED  BY <2>1, <2>2
<1>2. Pending' = Batches(Written') /\ (writing' = <<>> => Pending' = {})
  <2>1. Pending' = Batches(Written')
    BY DEF Pending, Batches, Written
  <2>2. writing' = <<>> => Pending' = {}
    BY DEF Pending
  <2> QED  BY <2>1, <2>2
<1> QED  BY <1>1, <1>2

\* DB::Open returning is the store's Open.
LEMMA StoreOpens ==
  ASSUME IInv, NoLoss, OpenDone
  PROVE  S!Open
<1>1. phase = "cleanup" /\ phase' = "open" /\ UNCHANGED <<mem, imm, table, version, writing, safe, doubt>>
  BY DEF OpenDone, disk, memory
<1>2. Recovered = Visible
  BY <1>1, OpenedContents
<1>3. Visible' = Visible
  BY <1>1 DEF Visible, TableEntries
<1>4. Contents' = Contents
  BY <1>1, <1>2, <1>3 DEF Contents
<1>5. Pending' = Pending
  BY <1>1 DEF Pending
<1>6. Outages' = Outages
  BY DEF OpenDone, counters, Outages
<1> QED  BY <1>1, <1>4, <1>5, <1>6 DEF S!Open, Contents, Pending, Outages

\* What an open database shows changes when a write is answered with OK.
LEMMA OpenVisible ==
  ASSUME IInv, IInv', [Next]_vars, phase = "open", phase' = "open"
  PROVE  /\ Contents = Batches(Visible)
         /\ FinishWrite => Contents' = Contents \cup Batches(Written)
         /\ ~FinishWrite => Contents' = Contents
         /\ safe' = safe \/ FinishWrite
         /\ writing' = writing \/ SyncLog \/ FinishWrite \/ \E b \in Batch, sync \in BOOLEAN : AddRecord(b, sync)
         /\ doubt' = doubt \/ SyncLog \/ \E b \in Batch, sync \in BOOLEAN : AddRecord(b, sync)
<1> USE DEF IInv, Structure
<1>1. Live' /\ ~NewCurrent
  BY DEF Live, NewCurrent
<1>2. /\ FinishWrite => Visible' = Visible \cup Written
      /\ ~FinishWrite => Visible' = Visible
  BY <1>1, VisibleStep
<1>3. Contents = Batches(Visible) /\ Contents' = Batches(Visible')
  BY DEF Contents
<1>4. \A x, y : Batches(x \cup y) = Batches(x) \cup Batches(y)
  BY DEF Batches
<1>5. /\ safe' = safe \/ FinishWrite
      /\ writing' = writing \/ (\E b \in Batch, sync \in BOOLEAN : AddRecord(b, sync)) \/ SyncLog
          \/ FinishWrite
      /\ doubt' = doubt \/ (\E b \in Batch, sync \in BOOLEAN : AddRecord(b, sync)) \/ SyncLog
  BY <1>1, LiveChanges
<1> QED  BY <1>2, <1>3, <1>4, <1>5

\* AddRecord begins a write.
LEMMA StoreBegins ==
  ASSUME IInv, IInv', [Next]_vars, "append" \notin Faults, NEW b \in Batch, NEW sync \in BOOLEAN,
         AddRecord(b, sync)
  PROVE  S!Begin
<1>1. /\ phase = "open" /\ phase' = "open" /\ writing = <<>> /\ safe' = safe
      /\ b \notin doubt /\ b \notin Batches(Visible)
  BY DEF AddRecord, Unlocked, Running
<1>2. Written' = {NewEntry(b)} /\ doubt' = doubt
  BY OneWrite DEF IInv, Structure
<1>3. Contents = Batches(Visible) /\ Contents' = Contents
  <2>1. ~FinishWrite
    BY <1>1 DEF FinishWrite
  <2> QED  BY <1>1, <2>1, OpenVisible
<1>4. Pending = {} /\ Pending' = {b}
  <2>1. Pending = {}
    BY <1>1, PendingIs
  <2>2. Pending' = Batches({NewEntry(b)})
    BY <1>2, PendingIs
  <2>3. NewEntry(b).batch = b
    BY DEF NewEntry
  <2>4. Batches({NewEntry(b)}) = {b}
    BY <2>3 DEF Batches
  <2> QED  BY <2>1, <2>2, <2>4
<1>5. b \in Batch \ (Contents \cup doubt)
  BY <1>1, <1>3
<1>6. Outages' = Outages
  BY DEF AddRecord, Outages
<1> QED  BY <1>1, <1>2, <1>3, <1>4, <1>5, <1>6 DEF S!Begin, Contents, Pending, Outages

\* SyncLog does nothing that a user sees, or fails the write.
LEMMA StoreSyncs ==
  ASSUME IInv, IInv', [Next]_vars, SyncLog
  PROVE  S!Fail \/ UNCHANGED S!vars
<1>1. phase = "open" /\ phase' = "open" /\ safe' = safe /\ writing # <<>>
  BY DEF SyncLog, Running
<1>2. Contents' = Contents
  <2>1. ~FinishWrite
    BY DEF SyncLog, FinishWrite
  <2> QED  BY <1>1, <2>1, OpenVisible
<1> DEFINE w == writing[1]
           v == [w EXCEPT !.todo = FALSE]
<1>3. /\ Written = {w.entry} /\ Len(writing) = 1 /\ w \in [entry: Entry, sync: BOOLEAN, todo: BOOLEAN]
  BY <1>1, WrittenOne DEF IInv, Structure, Types
<1>4. Pending = {w.entry.batch}
  <2> HIDE DEF w
  <2>1. Pending = Batches({w.entry})
    BY <1>3, PendingIs
  <2> QED  BY <2>1 DEF Batches
<1>out. Outages' = Outages
  BY DEF SyncLog, Outages
<1>5. CASE writing' = <<>>
  <2>1. doubt' = doubt \cup {w.entry.batch}
    BY <1>5 DEF SyncLog
  <2>2. Pending' = {}
    BY <1>5, PendingIs
  <2> HIDE DEF w
  <2>3. doubt' = doubt \cup Pending /\ Pending # {}
    BY <1>4, <2>1
  <2>4. S!Fail
    BY <1>1, <1>2, <1>out, <2>2, <2>3 DEF S!Fail, Contents, Pending, Outages
  <2> QED  BY <2>4
<1>6. CASE writing' # <<>>
  <2>1. writing' = <<v>> /\ doubt' = doubt
    BY <1>6 DEF SyncLog
  <2>2. v.entry = w.entry
    BY <1>3
  <2> HIDE DEF w, v
  <2>3. Len(writing') = 1 /\ writing'[1] = v
    BY <2>1
  <2>4. 1..Len(writing') = {1}
    BY <2>3
  <2>5. Pending' = {w.entry.batch}
    BY <2>2, <2>3, <2>4 DEF Pending
  <2>6. Pending' = Pending
    BY <1>4, <2>5
  <2>7. UNCHANGED S!vars
    BY <1>1, <1>2, <1>out, <2>1, <2>6 DEF S!vars, Contents, Pending, Outages
  <2> QED  BY <2>7
<1> QED  BY <1>5, <1>6

\* FinishWrite commits it.
LEMMA StoreCommits ==
  ASSUME IInv, IInv', [Next]_vars, FinishWrite
  PROVE  S!Commit
<1>1. phase = "open" /\ phase' = "open" /\ doubt' = doubt /\ writing # <<>> /\ writing' = <<>>
  BY DEF FinishWrite, Unlocked, Running
<1>2. Contents' = Contents \cup Pending
  BY <1>1, OpenVisible, PendingIs
<1> DEFINE w == writing[1]
<1>3. Written = {w.entry}
  BY <1>1, WrittenOne DEF IInv, Structure, Types
<1>4. safe' \in {safe, safe \cup {w.entry.batch}}
  BY DEF FinishWrite
<1> HIDE DEF w
<1>5. Pending = {w.entry.batch}
  <2>1. Pending = Batches({w.entry})
    BY <1>3, PendingIs
  <2> QED  BY <2>1 DEF Batches
<1>6. Pending' = {}
  BY <1>1, PendingIs
<1>7. Pending # {} /\ safe' \in {safe, safe \cup Pending}
  BY <1>4, <1>5
<1>8. Outages' = Outages
  BY DEF FinishWrite, counters, Outages
<1> QED  BY <1>1, <1>2, <1>6, <1>7, <1>8 DEF S!Commit, Contents, Pending, Outages

\* When the process ends, all that was committed will be found.
LEMMA StoreCrashes ==
  ASSUME IInv, IInv', NoLoss', [Next]_vars, Quit, ~PowerLoss, phase = "open"
  PROVE  S!ProcessCrash
<1> USE DEF IInv, Structure
<1>1. /\ phase' = "down" /\ writing' = <<>> /\ safe' = safe /\ doubt' = doubt
      /\ UNCHANGED <<log, manifest, table, current>>
  BY DEF Quit, Closed, Forget
<1>2. Live /\ current # 0 /\ Whole(Records) # 0
  <2>1. Live /\ current # 0 /\ Named.durable > 0
    BY DEF Live, LiveOK
  <2>2. Whole(Records) > 0
    BY <2>1 DEF ManifestOK
  <2> QED  BY <2>1, <2>2
<1>3. Recovered' = Recovered
  BY <1>1 DEF Recovered, TableEntries, LogEntries
<1> DEFINE k == Whole(Records)
           A == AtIn(table, Records, k, log)
<1>4. k \in Outcomes(Named) /\ Recovered = A /\ NoLoss
  BY <1>2, LastOutcome, RecoveredIs, LossStep
<1>5. Visible \cup Written \subseteq A /\ \A e \in A : e \in Visible \cup Written \/ e.batch \in doubt
  BY <1>2, <1>4, OutcomeKnows
<1> HIDE DEF k, A
<1>6. Contents = Batches(Visible) /\ Contents' = Batches(Recovered') /\ Pending = Batches(Written) /\ Pending' = {}
  BY <1>1, PendingIs DEF Contents
<1>7. Contents' = Batches(A)
  BY <1>3, <1>4, <1>6
<1>8. Contents \subseteq Contents' /\ Contents' \subseteq Contents \cup Pending \cup doubt
  BY <1>5, <1>6, <1>7 DEF Batches
<1>9. Outages' = Outages
  BY OutagesCounted
<1> QED  BY <1>1, <1>6, <1>8, <1>9 DEF S!ProcessCrash, Contents, Pending, Outages

\* What a power failure leaves is one of the outcomes.
LEMMA CutOutcome ==
  ASSUME Types, ManifestOK, PowerLoss, current # 0
  PROVE  /\ current' = current
         /\ Whole(Records') = 0 => Named.durable = 0
         /\ Whole(Records') # 0 =>
              \E k \in Outcomes(Named) :
                /\ k = Whole(Records')
                /\ Tables(Records', k) = Tables(Records, k) /\ Records'[k] = Records[k]
<1>1. /\ current' = current /\ Named' \in File(Edit) /\ (Named.durable)' \in Named.durable..Len(Records)
      /\ Records' = SubSeq(Records, 1, (Named.durable)')
  BY NamedCut
<1> DEFINE f == Named
           g == Named'
           w == Whole(g.recs)
<1>2. f \in File(Edit) /\ f.durable \in Nat
  BY NamedType DEF File
<1>3. /\ g \in File(Edit) /\ g.durable \in f.durable..Len(f.recs)
      /\ g.recs = SubSeq(f.recs, 1, g.durable)
  BY <1>1 DEF Records
<1>4. Records' = g.recs /\ Records = f.recs
  BY DEF Records
<1>5. f.durable > 0 => Whole(f.recs) > 0
  BY <1>4 DEF ManifestOK
<1>6. Whole(f.recs) \in Nat /\ Whole(g.recs) \in Nat
  <2>1. f.recs \in Seq(Edit \cup {Torn}) /\ g.recs \in Seq(Edit \cup {Torn})
    BY <1>2, <1>3 DEF File
  <2> HIDE DEF f, g
  <2>2. Whole(f.recs) \in 0..Len(f.recs) /\ Whole(g.recs) \in 0..Len(g.recs)
    BY <2>1, WholeDef
  <2> QED  BY <2>2
<1> HIDE DEF f, g
<1>7. /\ Outcomes(g) \subseteq Outcomes(f)
      /\ \A k \in Outcomes(g) : /\ Tables(g.recs, k) = Tables(f.recs, k) /\ g.recs[k] = f.recs[k]
                                /\ k = Whole(g.recs)
      /\ Whole(g.recs) = IF g.durable <= Whole(f.recs) THEN g.durable ELSE Whole(f.recs)
  BY <1>2, <1>3, OutcomesCut
<1>8. w = 0 => f.durable = 0
  BY <1>2, <1>3, <1>5, <1>6, <1>7
<1>9. w # 0 => w \in Outcomes(g)
  BY <1>6 DEF Outcomes
<1> QED  BY <1>1, <1>4, <1>7, <1>8, <1>9 DEF f

\* When the power fails what was written with sync will be found.
LEMMA StoreLoses ==
  ASSUME IInv, IInv', NoLoss', [Next]_vars, PowerLoss
  PROVE  S!PowerLoss
<1> USE DEF IInv, Structure
<1>1. phase' = "down" /\ phase # "down" /\ writing' = <<>> /\ safe' = safe /\ doubt' = doubt
  BY DEF PowerLoss, Forget, Crash
<1>2. NoLoss /\ Contents' = Batches(Recovered') /\ Pending = Batches(Written) /\ Pending' = {}
  BY <1>1, LossStep, PendingIs DEF Contents
<1>3. \A x, y : x \subseteq y => Batches(x) \subseteq Batches(y)
  BY DEF Batches
<1>out. Power /\ Outages' = Outages + 1
  BY DEF PowerLoss, Outages
<1>4. SUFFICES safe \subseteq Batches(Recovered') /\ Batches(Recovered') \subseteq Contents \cup Pending \cup doubt
  BY <1>1, <1>2, <1>out DEF S!PowerLoss, Contents, Pending, Outages
<1>5. CASE current = 0
  <2>1. current' = 0 /\ safe = {}
    BY <1>5 DEF PowerLoss, BlankOK
  <2>2. Recovered' = {}
    BY <2>1, RecoveredIs
  <2> QED  BY <2>1, <2>2 DEF Batches
<1>6. CASE current # 0 /\ Whole(Records') = 0
  <2>1. Named.durable = 0
    BY <1>6, CutOutcome
  <2>2. safe = {}
    BY <1>6, <2>1 DEF ManifestOK
  <2>3. Recovered' = {}
    BY <1>6, RecoveredIs
  <2> QED  BY <2>2, <2>3 DEF Batches
<1>7. CASE current # 0 /\ Whole(Records') # 0
  <2>1. current' = current
    BY <1>7, CutOutcome
  <2>2. PICK k \in Outcomes(Named) :
                /\ k = Whole(Records')
                /\ Tables(Records', k) = Tables(Records, k) /\ Records'[k] = Records[k]
    BY <1>7, CutOutcome
  <2>3. /\ ~PowerLoss => AtIn(table, Records, k, log) \subseteq AtIn(table', Records', k, log')
        /\ SyncedIn(table, Records, k, log) \subseteq SyncedIn(table', Records', k, log')
        /\ SyncedIn(table', Records', k, log') \subseteq AtIn(table', Records', k, log')
        /\ \A e \in AtIn(table', Records', k, log') : e \in AtIn(table, Records, k, log) \/ Fresh(e)
    BY <1>7, <2>2, SameOutcome
  <2> DEFINE A == AtIn(table, Records, k, log)
             R == AtIn(table', Records', k, log')
  <2>4. R \subseteq A /\ SyncedIn(table, Records, k, log) \subseteq R
    BY <1>1, <2>3, NoFresh
  <2>5. Recovered' = R
    BY <1>7, <2>1, <2>2, RecoveredIs
  <2>6. /\ safe \subseteq Batches(SyncedIn(table, Records, k, log))
        /\ Live => /\ Visible \cup Written \subseteq AtIn(table, Records, k, log)
                   /\ \A e \in AtIn(table, Records, k, log) : e \in Visible \cup Written \/ e.batch \in doubt
        /\ ~Live => /\ acked \subseteq Batches(AtIn(table, Records, k, log))
                    /\ \A j \in Outcomes(Named) : \A e \in AtIn(table, Records, j, log) :
                         e \in AtIn(table, Records, k, log) \/ e.batch \in doubt
    BY <1>2, <1>7, <2>2, OutcomeKnows
  <2>7. safe \subseteq Batches(Recovered')
    BY <1>3, <2>4, <2>5, <2>6
  <2>8. CASE Live
    <3>1. Contents = Batches(Visible)
      BY <1>2, <2>8, OpenedContents DEF Live, Contents
    <3>2. \A e \in R : e \in Visible \cup Written \/ e.batch \in doubt
      BY <2>4, <2>6, <2>8
    <3> HIDE DEF R
    <3>3. Batches(R) \subseteq Batches(Visible) \cup Batches(Written) \cup doubt
      BY <3>2 DEF Batches
    <3> QED  BY <1>2, <2>5, <2>7, <3>1, <3>3
  <2>9. CASE ~Live
    <3> DEFINE j == Whole(Records)
               B == AtIn(table, Records, j, log)
    <3>1. j # 0
      <4>1. j \in Nat /\ k \in 1..j
        BY <1>7, <2>2, NamedType
      <4> QED  BY <4>1
    <3>2. j \in Outcomes(Named) /\ Recovered = B
      BY <1>7, <3>1, LastOutcome, RecoveredIs
    <3>3. Contents = Batches(B)
      BY <2>9, <3>2 DEF Live, Contents
    <3>4. \A e \in A : e \in B \/ e.batch \in doubt
      <4>1. ASSUME NEW i \in Outcomes(Named)
            PROVE  \A e \in AtIn(table, Records, k, log) : e \in AtIn(table, Records, i, log) \/ e.batch \in doubt
        BY <1>2, <1>7, <2>2, <2>9, OutcomeKnows
      <4> QED  BY <3>2, <4>1
    <3> HIDE DEF A, B, R
    <3>5. Batches(R) \subseteq Batches(B) \cup doubt
      BY <2>4, <3>4 DEF Batches
    <3> QED  BY <2>5, <2>7, <3>3, <3>5
  <2> QED  BY <2>8, <2>9
<1> QED  BY <1>5, <1>6, <1>7

\* The steps of the open database.
LEMMA StoreRuns ==
  ASSUME IInv, IInv', [Next]_vars, "append" \notin Faults, ~PowerLoss, phase = "open", phase' = "open"
  PROVE  S!Begin \/ S!Fail \/ S!Commit \/ UNCHANGED S!vars
<1>1. CASE \E b \in Batch, sync \in BOOLEAN : AddRecord(b, sync)
  BY <1>1, StoreBegins
<1>2. CASE SyncLog
  BY <1>2, StoreSyncs
<1>3. CASE FinishWrite
  BY <1>3, StoreCommits
<1>4. CASE /\ ~SyncLog /\ ~FinishWrite
           /\ ~\E b \in Batch, sync \in BOOLEAN : AddRecord(b, sync)
  <2>1. Contents' = Contents /\ safe' = safe /\ doubt' = doubt /\ writing' = writing
    BY <1>4, OpenVisible
  <2>2. Pending' = Pending
    BY <2>1 DEF Pending
  <2>3. Outages' = Outages
    BY OutagesCounted
  <2> QED  BY <2>1, <2>2, <2>3 DEF S!vars, Contents, Pending, Outages
<1> QED  BY <1>1, <1>2, <1>3, <1>4

\* DB::Open until it returns.
LEMMA StoreRests ==
  ASSUME IInv, IInv', NoLoss', [Next]_vars, ~PowerLoss, phase # "open", phase' # "open",
         UNCHANGED <<safe, doubt>>
  PROVE  UNCHANGED S!vars
<1>1. Contents' = Contents
  BY DownContents DEF Contents
<1>2. ASSUME phase # "open", IInv PROVE writing = <<>>
  BY <1>2 DEF IInv, Structure, BlankOK, LiveOK, Live
<1>3. Pending = {} /\ Pending' = {}
  <2>1. writing = <<>>
    BY <1>2
  <2>2. writing' = <<>>
    BY DEF IInv, Structure, BlankOK, LiveOK, Live
  <2> QED  BY <2>1, <2>2, PendingIs
<1>4. Outages' = Outages
  BY OutagesCounted
<1> QED  BY <1>1, <1>3, <1>4 DEF S!vars, Contents, Pending, Outages

\* The files implement the store if no append to a log fails: whatever is
\* flushed, compacted and deleted, and wherever DB::Open is interrupted, the end
\* of the process loses no write that returned OK, with sync or without, and no
\* step of DB::Open changes what will be found; a power failure, and nothing
\* else, loses writes, none of them written with sync; and nothing is brought
\* back but writes that failed or did not return.
THEOREM ImplementsStore ==
  ASSUME "append" \notin Faults
  PROVE  Spec => Implements
<1>1. ASSUME Init PROVE S!Init
  <2>1. /\ phase # "open" /\ current = 0 /\ safe = {} /\ doubt = {} /\ writing = <<>>
        /\ Outages = 0
    BY <1>1 DEF Init, Outages
  <2>2. Recovered = {} /\ Pending = {}
    BY <2>1, RecoveredIs, PendingIs
  <2>3. Contents = {}
    BY <2>1, <2>2 DEF Contents, Batches
  <2> QED  BY <2>1, <2>2, <2>3 DEF S!Init, Contents, Pending, Outages
<1>2. ASSUME IInv, IInv', [Next]_vars PROVE [S!Next]_(S!vars)
  <2>1. NoLoss /\ NoLoss'
    BY DEF NoLoss
  <2>2. CASE PowerLoss
    BY <1>2, <2>1, <2>2, StoreLoses DEF S!Next
  <2>3. CASE OpenDone
    BY <1>2, <2>1, <2>3, StoreOpens DEF S!Next
  <2>4. CASE ~PowerLoss /\ Quit /\ phase = "open"
    BY <1>2, <2>1, <2>4, StoreCrashes DEF S!Next
  <2>5. CASE ~PowerLoss /\ phase = "open" /\ phase' = "open"
    BY <1>2, <2>5, StoreRuns DEF S!Next
  <2>6. CASE ~PowerLoss /\ phase # "open" /\ phase' # "open" /\ UNCHANGED <<safe, doubt>>
    BY <1>2, <2>1, <2>6, StoreRests DEF S!Next
  <2> QED  BY <1>2, <2>2, <2>3, <2>4, <2>5, <2>6, StoreSteps
<1> QED  BY <1>1, <1>2, Promises, PTL DEF Spec, Implements, S!Spec
=============================================================================
