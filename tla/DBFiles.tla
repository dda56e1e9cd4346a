------------------------------- MODULE DBFiles ------------------------------
(***************************************************************************)
(* The files of a leveldb database and what is left of them after a crash: *)
(* logs, tables, manifests and CURRENT, as db_impl.cc and version_set.cc   *)
(* write them and DB::Open reads them back.                                *)
(*                                                                         *)
(* One writer at a time appends to the log (module DBImpl shows why one is *)
(* enough) while the background thread flushes a memtable or compacts      *)
(* tables; every system call after which a crash would find different      *)
(* files is a step of its own.  ProcessCrash keeps what was handed to the  *)
(* operating system; PowerLoss keeps of each file a prefix that includes   *)
(* what was synced.  Creating, renaming and deleting a file is assumed to  *)
(* be ordered and durable, as a journalling file system does it.           *)
(*                                                                         *)
(* A log record is one batch with its sequence number.  The merge a        *)
(* compaction computes keeps everything here.  options_.reuse_logs is off. *)
(***************************************************************************)
EXTENDS Naturals, Sequences, FiniteSets, FiniteSetsExt

CONSTANTS
  Batch,            \* write batches; each is written at most once
  Torn,             \* a record of which only a part is in the file
  WriteBufferSize,  \* batches a memtable may hold before it is switched
  Faults,           \* which system calls may fail, a subset of FaultKind
  Power,            \* whether the power may fail, or only the process
  MaxFile,          \* bound on file numbers
  MaxFaults,        \* bound on failing calls
  MaxCrashes,       \* bound on crashes
  MaxCompactions    \* bound on compactions

FaultKind == {"append", "sync", "log", "table", "manifest", "open"}

\* A batch as the log has it, and the records of a manifest.
Entry == [batch: Batch, seq: Nat]
Edit == [log: Nat, next: Nat, last: Nat, add: SUBSET Nat, del: SUBSET Nat]

ASSUME ConstantsAssumption ==
  /\ WriteBufferSize \in Nat /\ MaxFile \in Nat
  /\ Faults \subseteq FaultKind
  /\ Power \in BOOLEAN
  /\ MaxFaults \in Nat /\ MaxCrashes \in Nat /\ MaxCompactions \in Nat
  /\ Torn \notin Entry /\ Torn \notin Edit

VARIABLES
  log,             \* log files by number: records and how many are durable
  manifest,        \* manifest files likewise
  table,           \* table files by number: the entries in it, or Garbage
  current,         \* the manifest CURRENT names, 0 without a CURRENT
  phase,           \* of the process, see Phase
  mem, imm,        \* mem_ and imm_; imm is empty when imm_ is NULL
  logfile_number,  \* logfile_number_
  log_number,      \* VersionSet::log_number_
  next_file,       \* VersionSet::next_file_number_
  manifest_number, \* VersionSet::manifest_file_number_
  version,         \* the tables of VersionSet::current_
  last_sequence,   \* VersionSet::last_sequence_
  bg_error,        \* ~bg_error_.ok()
  writing,         \* the write in progress: a sequence of at most one record
  todo,            \* logs DB::Open still has to replay
  edit,            \* the VersionEdit being put together or applied
  bgpc,            \* where the background thread is, see BGPC
  inputs, pending, \* tables being compacted, pending_outputs_
  acked, safe,     \* history: batches answered with OK; those with sync
  doubt,           \* history: batches answered with an error
  created,         \* history: DB::Open returned OK once
  compactions, faults, \* what the bounds count
  crashes          \* likewise: process crashes and power failures

disk == <<log, manifest, table, current>>
memory == <<mem, imm, logfile_number, log_number, next_file, manifest_number,
            version, last_sequence, bg_error, writing, todo, edit, bgpc, inputs, pending>>
history == <<acked, safe, doubt, created>>
counters == <<compactions, faults, crashes>>
vars == <<disk, phase, memory, history, counters>>

\* "newdb": NewDB wrote its manifest.  "recover": CURRENT exists.  "logs":
\* replaying.  "manifest", "current": in LogAndApply of DB::Open.  "cleanup":
\* in its DeleteObsoleteFiles.  "corrupt": DB::Open reports a corruption.
Phase == {"down", "newdb", "recover", "logs", "manifest", "sync", "current",
          "cleanup", "open", "corrupt"}

\* "build": in BuildTable for imm_.  "compact": in DoCompactionWork.  "add",
\* "sync", "install": in LogAndApply.  "cleanup": in DeleteObsoleteFiles.
BGPC == {"idle", "build", "compact", "add", "sync", "install", "cleanup"}

EmptyFile == [recs |-> <<>>, durable |-> 0]

\* The contents of a table that is not finished.
Garbage == {Torn}

\* f with file n created, or truncated if it is there.
Create(f, n, contents) == [m \in DOMAIN f \cup {n} |-> IF m = n THEN contents ELSE f[m]]
Remove(f, n) == [m \in DOMAIN f \ {n} |-> f[m]]
AppendTo(f, n, r) == [f EXCEPT ![n].recs = Append(@, r)]
SyncFile(f, n) == [f EXCEPT ![n].durable = Len(f[n].recs)]

\* What a file can be after an append that failed: nothing, part or all of
\* the record got there.
FailedAppend(f, n, r) == {f, AppendTo(f, n, Torn), AppendTo(f, n, r)}

\* The records log::Reader returns: it loses what shares a block with a torn one.
Intact(recs) ==
  {recs[i] : i \in {j \in 1..Len(recs) : \A k \in 1..j : recs[k] # Torn}}
LogEntries(n) == Intact(log[n].recs)

Batches(es) == {e.batch : e \in es}
TableEntries(ts) == UNION {table[t] : t \in {x \in ts : x \in DOMAIN table /\ table[x] # Garbage}}

\* What a reader of the open database sees.
Visible == mem \cup imm \cup TableEntries(version)

Fault(k) == k \in Faults /\ faults < MaxFaults /\ faults' = faults + 1

-----------------------------------------------------------------------------
(* The manifest.                                                           *)

\* The first n records of a manifest describe these tables.
Tables(recs, n) ==
  {t \in UNION {recs[i].add : i \in 1..n} :
     \E i \in 1..n : t \in recs[i].add /\ \A j \in i + 1..n : t \notin recs[j].del}

\* The number of records before a torn one.
Whole(recs) == Cardinality({j \in 1..Len(recs) : \A k \in 1..j : recs[k] # Torn})

\* A torn record in front of others is a corruption, or looks like the end.
MaybeCorrupt(recs) == Whole(recs) = 0 \/ Whole(recs) + 1 < Len(recs)

NoEdit == [log |-> 0, next |-> 0, last |-> 0, add |-> {}, del |-> {}]

-----------------------------------------------------------------------------
Init ==
  /\ log = << >> /\ manifest = << >> /\ table = << >> /\ current = 0
  /\ phase = "down"
  /\ mem = {} /\ imm = {} /\ logfile_number = 0 /\ log_number = 0
  /\ next_file = 2 /\ manifest_number = 0 /\ version = {}
  /\ last_sequence = 0 /\ bg_error = FALSE /\ writing = <<>>
  /\ todo = {} /\ edit = NoEdit
  /\ bgpc = "idle" /\ inputs = {} /\ pending = {}
  /\ acked = {} /\ safe = {} /\ doubt = {} /\ created = FALSE
  /\ compactions = 0 /\ faults = 0 /\ crashes = [process |-> 0, power |-> 0]

\* The DBImpl object is gone.
Forget ==
  /\ mem' = {} /\ imm' = {} /\ logfile_number' = 0 /\ log_number' = 0
  /\ next_file' = 2 /\ manifest_number' = 0 /\ version' = {}
  /\ last_sequence' = 0 /\ bg_error' = FALSE /\ writing' = <<>>
  /\ todo' = {} /\ edit' = NoEdit
  /\ bgpc' = "idle" /\ inputs' = {} /\ pending' = {}

-----------------------------------------------------------------------------
(* DB::Open.                                                               *)

\* Recover creates the database if there is no CURRENT.  NewDB closes its
\* manifest without syncing it, and deletes it if writing it failed.
NewDB ==
  /\ phase = "down" /\ current = 0
  /\ \/ /\ manifest' = Create(manifest, 1, [recs |-> <<[NoEdit EXCEPT !.next = 2]>>, durable |-> 0])
        /\ phase' = "newdb"
        /\ UNCHANGED faults
     \/ /\ Fault("open")
        /\ manifest' = Remove(manifest, 1)
        /\ UNCHANGED phase
  /\ UNCHANGED <<log, table, current, memory, history, compactions, crashes>>

\* SetCurrentFile(1): a synced temporary file is renamed.
NewDBCurrent ==
  /\ phase = "newdb"
  /\ \/ /\ current' = 1
        /\ phase' = "recover"
        /\ UNCHANGED faults
     \/ /\ Fault("open")
        /\ phase' = "down"
        /\ UNCHANGED current
  /\ UNCHANGED <<log, manifest, table, memory, history, compactions, crashes>>

OpenExisting ==
  /\ phase = "down" /\ current # 0
  /\ phase' = "recover"
  /\ UNCHANGED <<disk, memory, history, counters>>

\* VersionSet::Recover reads the manifest; Recover then looks for the tables
\* it names and collects the logs to replay.
Recover ==
  /\ phase = "recover"
  /\ LET recs == manifest[current].recs
         n == Whole(recs)
         live == Tables(recs, n)
     IN \/ /\ \/ MaybeCorrupt(recs)
              \/ \E t \in live : t \notin DOMAIN table \cup DOMAIN log \cup DOMAIN manifest
           /\ phase' = "corrupt"
           /\ UNCHANGED memory
        \/ /\ n > 0
           /\ \A t \in live : t \in DOMAIN table \cup DOMAIN log \cup DOMAIN manifest
           /\ phase' = "logs"
           /\ version' = live
           /\ log_number' = recs[n].log
           /\ manifest_number' = recs[n].next
           /\ next_file' = recs[n].next + 1
           /\ last_sequence' = recs[n].last
           /\ todo' = {l \in DOMAIN log : l >= recs[n].log}
           /\ UNCHANGED <<mem, imm, logfile_number, bg_error, writing, edit, bgpc,
                          inputs, pending>>
  /\ UNCHANGED <<disk, history, counters>>

\* MarkFileNumberUsed(n) after next was the next file number.
MarkFileNumberUsed(next, n) == IF next <= n THEN n + 1 ELSE next

\* Mutation: the sequence numbers found in the log are not given back.
RecoveredSequenceStale(es) == last_sequence

\* The last sequence number once the records es were replayed.
RecoveredSequence(es) == Max({last_sequence} \cup {e.seq : e \in es})

\* Mutation: a log is deleted as soon as it is replayed, before the manifest
\* names the table it became.
RecoverLogFileDeletes ==
  /\ phase = "logs" /\ todo # {}
  /\ LET l == Min(todo)
         es == LogEntries(l)
         n == next_file + (IF es = {} THEN 0 ELSE 1)
     IN /\ n <= MaxFile
        /\ todo' = todo \ {l} /\ log' = Remove(log, l)
        /\ table' = IF es = {} THEN table ELSE Create(table, next_file, es)
        /\ edit' = IF es = {} THEN edit ELSE [edit EXCEPT !.add = @ \cup {next_file}]
        /\ next_file' = MarkFileNumberUsed(n, l)
        /\ last_sequence' = RecoveredSequence(es)
  /\ UNCHANGED <<phase, manifest, current, mem, imm, logfile_number, log_number, manifest_number,
                 version, bg_error, writing, bgpc, inputs, pending, history, counters>>

\* RecoverLogFile of the oldest log left: its records become a table.
RecoverLogFile ==
  /\ phase = "logs" /\ todo # {}
  /\ LET l == Min(todo)
         es == LogEntries(l)
         n == next_file + (IF es = {} THEN 0 ELSE 1)
     IN \/ /\ n <= MaxFile
           /\ todo' = todo \ {l}
           /\ table' = IF es = {} THEN table ELSE Create(table, next_file, es)
           /\ edit' = IF es = {} THEN edit ELSE [edit EXCEPT !.add = @ \cup {next_file}]
           /\ next_file' = MarkFileNumberUsed(n, l)
           /\ last_sequence' = RecoveredSequence(es)
           /\ UNCHANGED <<phase, faults, mem, imm, logfile_number, log_number, manifest_number,
                          version, bg_error, writing, bgpc, inputs, pending>>
        \/ /\ es # {} /\ Fault("open")       \* BuildTable deletes what it wrote
           /\ phase' = "down"
           /\ table' = Remove(table, next_file)
           /\ Forget
  /\ UNCHANGED <<log, manifest, current, history, compactions, crashes>>

\* DB::Open creates the new log.
OpenLog ==
  /\ phase = "logs" /\ todo = {}
  /\ \/ /\ next_file < MaxFile
        /\ log' = Create(log, next_file, EmptyFile)
        /\ logfile_number' = next_file
        /\ next_file' = next_file + 1
        /\ edit' = [edit EXCEPT !.log = next_file]
        /\ phase' = "manifest"
        /\ UNCHANGED <<mem, imm, log_number, manifest_number, version, last_sequence, bg_error,
                       writing, todo, bgpc, inputs, pending, faults>>
     \/ /\ Fault("open")
        /\ phase' = "down" /\ Forget
        /\ UNCHANGED log
  /\ UNCHANGED <<manifest, table, current, history, compactions, crashes>>

\* LogAndApply in DB::Open: a new manifest with a snapshot and the edit.
OpenManifest ==
  /\ phase = "manifest"
  /\ manifest' = Create(manifest, manifest_number,
       [recs |-> <<[edit EXCEPT !.next = next_file, !.last = last_sequence,
                                !.add = @ \cup version]>>, durable |-> 0])
  /\ phase' = "sync"
  /\ UNCHANGED <<log, table, current, memory, history, counters>>

\* Mutation: CURRENT is set to a manifest that was not synced.
OpenSyncSkipped ==
  /\ phase = "sync"
  /\ phase' = "current"
  /\ UNCHANGED <<disk, memory, history, counters>>

\* It is synced, or deleted when that fails.
OpenSync ==
  /\ phase = "sync"
  /\ \/ /\ manifest' = SyncFile(manifest, manifest_number)
        /\ phase' = "current"
        /\ UNCHANGED <<memory, faults>>
     \/ /\ Fault("open")
        /\ manifest' = Remove(manifest, manifest_number)
        /\ phase' = "down" /\ Forget
  /\ UNCHANGED <<log, table, current, history, compactions, crashes>>

\* SetCurrentFile, and the new version is installed.
OpenCurrent ==
  /\ phase = "current"
  /\ \/ /\ current' = manifest_number
        /\ version' = version \cup edit.add
        /\ log_number' = edit.log
        /\ edit' = NoEdit
        /\ phase' = "cleanup"
        /\ UNCHANGED <<manifest, faults, mem, imm, logfile_number, next_file, manifest_number,
                       last_sequence, bg_error, writing, todo, bgpc, inputs, pending>>
     \/ /\ Fault("open")
        /\ manifest' = Remove(manifest, manifest_number)
        /\ phase' = "down" /\ Forget
        /\ UNCHANGED current
  /\ UNCHANGED <<log, table, history, compactions, crashes>>

-----------------------------------------------------------------------------
(* DeleteObsoleteFiles, one file per step.                                 *)

\* Mutation: tables being written are not spared.
KeepTableUnprotected(n) == n \in version

KeepLog(n) == n >= log_number
KeepManifest(n) == n >= manifest_number
KeepTable(n) == n \in version \cup pending

Obsolete == \/ \E n \in DOMAIN log : ~KeepLog(n)
            \/ \E n \in DOMAIN manifest : ~KeepManifest(n)
            \/ \E n \in DOMAIN table : ~KeepTable(n)

DeleteObsoleteFile ==
  /\ phase = "cleanup" \/ bgpc = "cleanup"
  /\ \/ \E n \in DOMAIN log : ~KeepLog(n) /\ log' = Remove(log, n) /\ UNCHANGED <<manifest, table>>
     \/ \E n \in DOMAIN manifest : /\ ~KeepManifest(n) /\ manifest' = Remove(manifest, n)
                                   /\ UNCHANGED <<log, table>>
     \/ \E n \in DOMAIN table : ~KeepTable(n) /\ table' = Remove(table, n) /\ UNCHANGED <<log, manifest>>
  /\ UNCHANGED <<current, phase, memory, history, counters>>

\* DB::Open returns OK.
OpenDone ==
  /\ phase = "cleanup" /\ ~Obsolete
  /\ phase' = "open"
  /\ created' = TRUE
  /\ UNCHANGED <<disk, memory, acked, safe, doubt, counters>>

-----------------------------------------------------------------------------
(* Write.                                                                  *)

Running == phase = "open"
Unlocked == Running /\ bgpc # "cleanup"     \* mutex_ is free
HaveRoom == Cardinality(mem) <= WriteBufferSize

\* AddRecord: the record reaches the operating system, or the write fails.
AddRecord(b, sync) ==
  /\ Unlocked /\ ~bg_error /\ writing = <<>> /\ HaveRoom
  /\ b \notin acked \cup doubt \cup Batches(Visible)
  /\ LET e == [batch |-> b, seq |-> last_sequence + 1]
     IN \/ /\ log' = AppendTo(log, logfile_number, e)
           /\ writing' = <<[entry |-> e, sync |-> sync, todo |-> sync]>>
           /\ UNCHANGED <<doubt, last_sequence, faults>>
        \/ /\ Fault("append")
           /\ log' \in FailedAppend(log, logfile_number, e)
           /\ doubt' = doubt \cup {b}
           /\ last_sequence' = last_sequence + 1
           /\ UNCHANGED writing
  /\ UNCHANGED <<manifest, table, current, phase, mem, imm, logfile_number, log_number, next_file,
                 manifest_number, version, bg_error, todo, edit, bgpc, inputs, pending, acked,
                 safe, created, compactions, crashes>>

\* Mutation: Sync returns before the record is on the disk.
SyncLogEarly ==
  /\ Running /\ writing # <<>> /\ writing[1].todo
  /\ writing' = <<[writing[1] EXCEPT !.todo = FALSE]>>
  /\ UNCHANGED <<disk, phase, mem, imm, logfile_number, log_number, next_file, manifest_number,
                 version, last_sequence, bg_error, todo, edit, bgpc, inputs, pending,
                 history, counters>>

\* Sync of the log; a failure is a background error.
SyncLog ==
  /\ Running /\ writing # <<>> /\ writing[1].todo
  /\ \/ /\ log' = SyncFile(log, logfile_number)
        /\ writing' = <<[writing[1] EXCEPT !.todo = FALSE]>>
        /\ UNCHANGED <<bg_error, doubt, last_sequence, faults>>
     \/ /\ Unlocked /\ Fault("sync")
        /\ bg_error' = TRUE
        /\ doubt' = doubt \cup {writing[1].entry.batch}
        /\ last_sequence' = last_sequence + 1
        /\ writing' = <<>>
        /\ UNCHANGED log
  /\ UNCHANGED <<manifest, table, current, phase, mem, imm, logfile_number, log_number, next_file,
                 manifest_number, version, todo, edit, bgpc, inputs, pending, acked, safe,
                 created, compactions, crashes>>

\* InsertInto, SetLastSequence, and Write returns OK.
FinishWrite ==
  /\ Unlocked /\ writing # <<>> /\ ~writing[1].todo
  /\ mem' = mem \cup {writing[1].entry}
  /\ last_sequence' = writing[1].entry.seq
  /\ acked' = acked \cup {writing[1].entry.batch}
  /\ safe' = IF writing[1].sync THEN safe \cup {writing[1].entry.batch} ELSE safe
  /\ writing' = <<>>
  /\ UNCHANGED <<disk, phase, imm, logfile_number, log_number, next_file, manifest_number, version,
                 bg_error, todo, edit, bgpc, inputs, pending, doubt, created, counters>>

\* MakeRoomForWrite switches to a new memtable and a new log.
Switch ==
  /\ Unlocked /\ ~bg_error /\ writing = <<>> /\ ~HaveRoom /\ imm = {}
  /\ next_file <= MaxFile
  /\ log' = Create(log, next_file, EmptyFile)
  /\ logfile_number' = next_file
  /\ next_file' = next_file + 1
  /\ imm' = mem /\ mem' = {}
  /\ UNCHANGED <<manifest, table, current, phase, log_number, manifest_number, version,
                 last_sequence, bg_error, writing, todo, edit, bgpc, inputs, pending,
                 history, counters>>

\* ... or the new log cannot be created: its number is given back, and the
\* write, whose batch never got near a file, returns the error.
SwitchFails ==
  /\ Unlocked /\ ~bg_error /\ writing = <<>> /\ ~HaveRoom /\ imm = {}
  /\ Fault("log")
  /\ UNCHANGED <<disk, phase, memory, history, compactions, crashes>>

-----------------------------------------------------------------------------
(* The background thread.                                                  *)

\* Back in DoCompactionWork, or done.
Resume == IF inputs = {} THEN "idle" ELSE "compact"

\* CompactMemTable starts, also in the middle of a compaction.
FlushStart ==
  /\ Running
  /\ imm # {} /\ next_file <= MaxFile
  /\ (bgpc = "idle" /\ ~bg_error) \/ bgpc = "compact"
  /\ table' = Create(table, next_file, Garbage)
  /\ pending' = pending \cup {next_file}
  /\ edit' = [NoEdit EXCEPT !.add = {next_file}]
  /\ next_file' = next_file + 1
  /\ bgpc' = "build"
  /\ UNCHANGED <<log, manifest, current, phase, mem, imm, logfile_number, log_number,
                 manifest_number, version, last_sequence, bg_error, writing, todo, inputs,
                 history, counters>>

\* edit.SetLogNumber: earlier logs are no longer needed.
FlushedLogNumber == logfile_number

\* WriteLevel0Table ends, and the edit is ready for LogAndApply.
FlushBuilt ==
  /\ Running /\ bgpc = "build"
  /\ pending' = pending \ edit.add
  /\ \/ /\ table' = [t \in DOMAIN table |-> IF t \in edit.add THEN imm ELSE table[t]]
        /\ edit' = [edit EXCEPT !.log = FlushedLogNumber, !.next = next_file, !.last = last_sequence]
        /\ bgpc' = "add"
        /\ UNCHANGED <<bg_error, faults>>
     \/ /\ Fault("table")
        /\ table' = [t \in DOMAIN table \ edit.add |-> table[t]]
        /\ bg_error' = TRUE
        /\ edit' = NoEdit
        /\ bgpc' = Resume
  /\ UNCHANGED <<log, manifest, current, phase, mem, imm, logfile_number, log_number, next_file,
                 manifest_number, version, last_sequence, writing, todo, inputs, history,
                 compactions, crashes>>

\* BackgroundCompaction picks some tables.
CompactStart ==
  /\ Running /\ bgpc = "idle" /\ ~bg_error /\ imm = {}
  /\ compactions < MaxCompactions /\ compactions' = compactions + 1
  /\ inputs' \in (SUBSET version) \ {{}}
  /\ bgpc' = "compact"
  /\ UNCHANGED <<disk, phase, mem, imm, logfile_number, log_number, next_file, manifest_number,
                 version, last_sequence, bg_error, writing, todo, edit, pending, history,
                 faults, crashes>>

\* OpenCompactionOutputFile; one output is enough here.
CompactOutput ==
  /\ Running /\ bgpc = "compact" /\ pending = {}
  /\ next_file <= MaxFile
  /\ table' = Create(table, next_file, Garbage)
  /\ pending' = {next_file}
  /\ next_file' = next_file + 1
  /\ UNCHANGED <<log, manifest, current, phase, mem, imm, logfile_number, log_number,
                 manifest_number, version, last_sequence, bg_error, writing, todo, edit, bgpc,
                 inputs, history, counters>>

\* The output is finished and synced, and InstallCompactionResults has its
\* edit; or the compaction fails and leaves the file behind.
CompactBuilt ==
  /\ Running /\ bgpc = "compact" /\ pending # {}
  /\ \/ /\ table' = [t \in DOMAIN table |-> IF t \in pending THEN TableEntries(inputs) ELSE table[t]]
        /\ edit' = [log |-> log_number, next |-> next_file, last |-> last_sequence,
                    add |-> pending, del |-> inputs]
        /\ bgpc' = "add"
        /\ UNCHANGED <<inputs, pending, bg_error, faults>>
     \/ /\ Fault("table")
        /\ bg_error' = TRUE
        /\ inputs' = {} /\ pending' = {}
        /\ bgpc' = "idle"
        /\ UNCHANGED <<table, edit>>
  /\ UNCHANGED <<log, manifest, current, phase, mem, imm, logfile_number, log_number, next_file,
                 manifest_number, version, last_sequence, writing, todo, history,
                 compactions, crashes>>

\* Mutation: the failed LogAndApply of a flush is not remembered.
ApplyFailedQuietly ==
  /\ UNCHANGED <<bg_error, inputs, pending>>
  /\ edit' = NoEdit
  /\ bgpc' = Resume

\* LogAndApply failed: a background error.  A failed compaction is over; a
\* flush in the middle of one is tried again at the next key.
ApplyFailed ==
  /\ bg_error' = TRUE
  /\ edit' = NoEdit
  /\ IF edit.del # {}
     THEN inputs' = {} /\ pending' = {} /\ bgpc' = "idle"
     ELSE bgpc' = Resume /\ UNCHANGED <<inputs, pending>>

\* LogAndApply, without mutex_: AddRecord to the manifest ...
ApplyAdd ==
  /\ Running /\ bgpc = "add"
  /\ \/ /\ manifest' = AppendTo(manifest, manifest_number, edit)
        /\ bgpc' = "sync"
        /\ UNCHANGED <<bg_error, edit, inputs, pending, faults>>
     \/ /\ Fault("manifest")
        /\ manifest' \in FailedAppend(manifest, manifest_number, edit)
        /\ ApplyFailed
  /\ UNCHANGED <<log, table, current, phase, mem, imm, logfile_number, log_number, next_file,
                 manifest_number, version, last_sequence, writing, todo, history,
                 compactions, crashes>>

\* ... and Sync.
ApplySync ==
  /\ Running /\ bgpc = "sync"
  /\ \/ /\ manifest' = SyncFile(manifest, manifest_number)
        /\ bgpc' = "install"
        /\ UNCHANGED <<bg_error, edit, inputs, pending, faults>>
     \/ /\ Fault("manifest")
        /\ ApplyFailed
        /\ UNCHANGED manifest
  /\ UNCHANGED <<log, table, current, phase, mem, imm, logfile_number, log_number, next_file,
                 manifest_number, version, last_sequence, writing, todo, history,
                 compactions, crashes>>

\* With mutex_ again: the new version is installed, imm_ dropped after a
\* flush, and obsolete files are deleted unless there was an error.
ApplyInstall ==
  /\ Running /\ bgpc = "install"
  /\ version' = (version \ edit.del) \cup edit.add
  /\ log_number' = edit.log
  /\ edit' = NoEdit
  /\ \/ /\ edit.del = {}
        /\ imm' = {}
        /\ UNCHANGED <<inputs, pending>>
     \/ /\ edit.del # {}
        /\ inputs' = {} /\ pending' = {}
        /\ UNCHANGED imm
  /\ bgpc' = IF ~bg_error THEN "cleanup" ELSE IF inputs' = {} THEN "idle" ELSE "compact"
  /\ UNCHANGED <<disk, phase, mem, logfile_number, next_file, manifest_number, last_sequence,
                 bg_error, writing, todo, history, counters>>

CleanupDone ==
  /\ Running /\ bgpc = "cleanup" /\ ~Obsolete
  /\ bgpc' = Resume
  /\ UNCHANGED <<disk, phase, mem, imm, logfile_number, log_number, next_file, manifest_number,
                 version, last_sequence, bg_error, writing, todo, edit, inputs, pending,
                 history, counters>>

-----------------------------------------------------------------------------
(* Crashes (external).                                                     *)

Crash == phase # "down" /\ crashes.process + crashes.power < MaxCrashes

ProcessCrash ==
  /\ Crash
  /\ crashes' = [process |-> crashes.process + 1, power |-> crashes.power]
  /\ phase' = "down" /\ Forget
  /\ UNCHANGED <<disk, history, compactions, faults>>

\* What the power failure may leave of the file f: a prefix of it.
Prefixes(f) ==
  {[recs |-> SubSeq(f.recs, 1, k), durable |-> k] : k \in f.durable..Len(f.recs)}
AfterPowerLoss(files) ==
  {g \in [DOMAIN files -> UNION {Prefixes(files[n]) : n \in DOMAIN files}] :
     \A n \in DOMAIN files : g[n] \in Prefixes(files[n])}

PowerLoss ==
  /\ Power /\ Crash
  /\ crashes' = [process |-> crashes.process, power |-> crashes.power + 1]
  /\ log' \in AfterPowerLoss(log)
  /\ manifest' \in AfterPowerLoss(manifest)
  /\ acked' = safe
  /\ phase' = "down" /\ Forget
  /\ UNCHANGED <<table, current, safe, doubt, created, compactions, faults>>

Next ==
  \/ NewDB \/ NewDBCurrent \/ OpenExisting \/ Recover \/ RecoverLogFile
  \/ OpenLog \/ OpenManifest \/ OpenSync \/ OpenCurrent \/ DeleteObsoleteFile \/ OpenDone
  \/ (\E b \in Batch, sync \in BOOLEAN : AddRecord(b, sync))
  \/ SyncLog \/ FinishWrite \/ Switch \/ SwitchFails
  \/ FlushStart \/ FlushBuilt \/ CompactStart \/ CompactOutput \/ CompactBuilt
  \/ ApplyAdd \/ ApplySync \/ ApplyInstall \/ CleanupDone
  \/ ProcessCrash \/ PowerLoss

Spec == Init /\ [][Next]_vars

-----------------------------------------------------------------------------
(* Properties.                                                             *)

File(r) == {f \in [recs: Seq(r \cup {Torn}), durable: Nat] : f.durable <= Len(f.recs)}

\* Every variable keeps its type, no file is longer on the disk than it is,
\* and the open database writes to files that exist.
TypeOK ==
  /\ DOMAIN log \subseteq Nat /\ \A n \in DOMAIN log : log[n] \in File(Entry)
  /\ DOMAIN manifest \subseteq Nat /\ \A n \in DOMAIN manifest : manifest[n] \in File(Edit)
  /\ DOMAIN table \subseteq Nat
  /\ \A n \in DOMAIN table : table[n] = Garbage \/ table[n] \subseteq Entry
  /\ current \in Nat /\ phase \in Phase
  /\ mem \subseteq Entry /\ imm \subseteq Entry
  /\ logfile_number \in Nat /\ log_number \in Nat /\ manifest_number \in Nat
  /\ next_file \in Nat
  /\ version \subseteq Nat /\ todo \subseteq Nat
  /\ inputs \subseteq Nat /\ pending \subseteq Nat
  /\ last_sequence \in Nat /\ bg_error \in BOOLEAN
  /\ writing \in Seq([entry: Entry, sync: BOOLEAN, todo: BOOLEAN]) /\ Len(writing) <= 1
  /\ edit \in Edit /\ bgpc \in BGPC
  /\ acked \subseteq Batch /\ safe \subseteq Batch /\ doubt \subseteq Batch
  /\ created \in BOOLEAN
  /\ phase = "open" =>
       /\ logfile_number \in DOMAIN log /\ log_number \in 0..logfile_number
       /\ manifest_number \in DOMAIN manifest /\ manifest_number = current

\* Nothing that was promised is missing from the open database: writes that
\* returned OK are there after any number of process crashes, and after a power
\* failure those with sync.
AckedVisible == phase = "open" => acked \subseteq Batches(Visible)

\* The same as long as no write failed, whatever happened to the manifest.
OnlyDoubtLoses == (phase = "open" /\ doubt = {}) => acked \subseteq Batches(Visible)

\* The tables of the version are on the disk, whole.
TablesPresent ==
  phase = "open" => \A t \in version : t \in DOMAIN table /\ table[t] # Garbage

\* No two batches of the database have the same sequence number, and the next
\* one to be given out is new, whatever was lost and replayed.
SequencesDistinct ==
  phase = "open" =>
    /\ \A e, f \in Visible : e.seq = f.seq => e = f
    /\ \A e \in Visible : e.seq <= last_sequence

\* A database that was opened once can be opened again.
Reopens == phase = "corrupt" => ~created

\* A database whose creation was interrupted can be opened again, too: the code
\* does not keep this through a power failure (see the README).
CreationCommitted == phase # "corrupt"

-----------------------------------------------------------------------------
(* The abstract store.  While the database is not open its contents are    *)
(* what DB::Open will find on the disk.                                    *)

Recovered ==
  IF current = 0 THEN {}
  ELSE LET recs == manifest[current].recs
           n == Whole(recs)
       IN IF n = 0 THEN {}
          ELSE TableEntries(Tables(recs, n))
                 \cup UNION {LogEntries(l) : l \in {x \in DOMAIN log : x >= recs[n].log}}

S == INSTANCE Store WITH
       up <- phase = "open",
       contents <- Batches(IF phase = "open" THEN Visible ELSE Recovered),
       safe <- safe,
       pending <- {writing[i].entry.batch : i \in 1..Len(writing)},
       doubt <- doubt,
       outages <- crashes.power

\* The files implement the store: the end of the process takes no batch from
\* the open database, no step of DB::Open changes what a crash in the middle of
\* it would recover, and a power failure takes none that was written with sync.
Implements == S!Spec
=============================================================================
