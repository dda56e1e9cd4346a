# Verification of breakpoint

TLA+ models of the breakpoint app and of the libraries it is built with from
source, TLC configurations that check them on small instances, and TLAPS proofs
of what matters most for every instance. `PROJECT.json` lists the components,
the runs, what each definition models (file and lines), the hazards behind the
properties, the findings and the theorems.

## The system

breakpoint is an iOS app on top of Firebase. The repository holds three kinds of
code:

* the app itself (`src/breakpoint/breakpoint/`): a few small Swift classes;
* pods that are compiled from source (`src/breakpoint/Pods/`): leveldb (the
  database Firebase keeps on the device), GTMSessionFetcher (its HTTP client),
  nanopb (its protocol buffers) and GoogleToolboxForMac;
* Firebase itself, as binaries with headers. Only its use by the app is
  modelled, and marked external.

### Inventory

| Component | State | Operations | What is hard | What makes it correct |
|---|---|---|---|---|
| AuthService, DataService, AppDelegate | accounts and profiles on the servers; queued writes, pending handlers and the current user on each device | `registerUser`, `loginUser`, their handlers, `createDBUser`, launch and end of the process | two stores without a transaction, lost answers, late requests, repeated writes, a killed process | one winner per address, a profile belongs to its account, a reported registration keeps its profile |
| leveldb `DBImpl` threads | `writers_`, `mem_`, `imm_`, `bg_error_`, `bg_compaction_scheduled_`, `manual_compaction_` under one mutex and two kinds of condition variables | `Write`, `MakeRoomForWrite`, `BuildBatchGroup`, `CompactRange`, `BackgroundCall`, `~DBImpl` | lock released in the middle of operations, group commit, signals, errors recorded by other threads | no lost wake-up, truthful answers, sync honoured, sticky errors, bounded level 0, everybody returns |
| leveldb files and recovery | logs, tables, manifests, CURRENT; file numbers, sequence numbers, log number | creation, write, memtable switch, flush, compaction, `LogAndApply`, `DeleteObsoleteFiles`, `DB::Open` | crash or failure between any two system calls, crashes during recovery | acknowledged writes survive, the database opens again, no file lost, sequence numbers unique |
| leveldb versions and compaction | levels, file ranges, live versions, snapshots, pending outputs | `PickCompaction`, `SetupOtherInputs`, `CompactRange`, `DoCompactionWork`, `Builder`, `PickLevelForMemTableOutput` | which entries may be dropped, files kept for readers, flushes in the middle | reads unchanged by a compaction, levels above 0 disjoint, no file deleted in use |
| leveldb log format | 32 KiB blocks of fragments | `AddRecord`, `ReadRecord` | block trailers, reopening for append, resynchronisation after damage | what was written whole is read back in order; damage costs only its blocks |
| leveldb tables and iterators | blocks with restart points, index, filters; positions and directions of a stack of iterators | `TableBuilder`, `Table::InternalGet`, `Block::Iter`, `TwoLevelIterator`, `MergingIterator`, `DBIter` | direction changes, shortened separators, concurrent insertions, unreadable blocks | an iterator is a cursor in the sorted snapshot; errors are not forgotten; a filter hides nothing |
| leveldb `TableCache`, `LRUCache` | hash table, `lru_`, `in_use_`, reference counts; tables on disk and what pins them | `FindTable`, `Insert`, `Lookup`, `Release`, `Evict`, `DeleteObsoleteFiles` | two misses that race, entries erased while used, eviction before deletion | a handle stays the table asked for, counts and lists agree, open tables are bounded and have their files |
| GTMSessionFetcherService, GTMSessionFetcher | running and delayed fetchers per host, shared session, semaphore, discard timer; retry state and callbacks of each fetcher | `beginFetch`, `fetcherShouldBeginFetching:`, `fetcherDidStop:`, retry, `stopFetching`, `stopAllFetchers` | two threads calling each other out of locks, stop racing a late answer or a retry | limit per host, one completion per fetch, usable sessions, nobody starves |
| GTMSessionUploadFetcher | upload location, offset, granularity, chunk fetcher, pause and stop flags | initial request, chunks, offset queries, pause, resume, cancel, relaunch | lost answers, partial chunks, rounding to granularity, termination of the app | success means stored, chunks inside the data, one answer, uploads end |
| nanopb | input and output streams, the structure being filled | `pb_encode`, `pb_decode` and their variants | substreams, two-pass submessages, merging, truncated or foreign bytes | what was encoded is decoded; what is accepted is sound |
| views, logging, GoogleToolboxForMac, leveldb utilities | none or local | drawing, text, stateless conversions | little | not modelled |

The components interact as follows. `AuthService` calls Firebase and, in the
completion handler of that request, `DataService`. Firebase's SDKs talk to their
servers through GTMSessionFetcher, encode messages with nanopb and store local
data in leveldb. In leveldb, `Write` and the background thread of `DBImpl` share
the memtables under `mutex_`; both write files through `Env`, in the log format
and the table format; `DB::Open` reads back what they left; readers hold a version
and walk its tables without the mutex.

## Modules

| Module | What it is |
|---|---|
| `Registration` | the app: registration and sign-in on several devices |
| `RegistrationProofs` | proofs about it |
| `DBImpl` | the threads of leveldb's `DBImpl` |
| `DBImplProofs` | proofs about it |
| `DBFiles` | the files of a leveldb database, crashes and recovery |
| `DBFilesProofs` | proofs about it: which files there are and what they say of each other |
| `DBFilesPromises` | the same for what is in them: sequence numbers, acknowledged writes; proofs that a database opens again and that `DBFiles` implements `Store` |
| `Store` | what leveldb promises about crashes: the abstract specification of `DBFiles` |
| `Compaction` | the data: memtables, versions, flushes, compactions, snapshots, readers |
| `CompactionProofs` | proofs about it: versions and files in use |
| `LogFormat` | writer and reader of logs and manifests |
| `Iterators` | tables and the stack of iterators that reads them |
| `TableCache` | the cache of open tables, its users, and the deletion of tables |
| `TableCacheProofs` | proofs about it |
| `FetcherService` | fetchers that share a service, on two threads |
| `FetcherServiceProofs` | proofs about it |
| `UploadFetcher` | a resumable upload against its server |
| `UploadFetcherProofs` | proofs about it |
| `Nanopb` | encoder and decoder |
| `MCDBFiles`, `MCFetcherService`, `MCNanopb`, `MCIterators`, `MCTableCache` | symmetry sets and constants for TLC |

Operators whose comment begins with "Mutation:" are altered forms of the
operator below them. No specification uses them; they document that the
properties notice the bug they stand for.

The leveldb modules look at one system from different sides and rely on each
other where they abstract: `DBImpl` takes a memtable for a set of calls and level
0 for a number of files; `DBFiles` takes group commit (shown by `DBImpl`) for one
write at a time, a torn record for what `LogFormat` shows a reader to make of it,
and a compaction for a merge that keeps everything; `Compaction` shows what the
merge may drop; `Iterators` takes the tables as given and shows that reading them
is what `Compaction` calls the newest entry of a key. `TableCache` lets a compaction
replace any tables and shows that a reader's table is there when it is opened.

### Registration

Each call of `registerUser` or `loginUser` is made once, on one device, and goes
from "idle" to "waiting" (the request is with the client library), "answered"
(the completion handler is queued) and "succeeded" or "failed" (the handler
called the completion); "gone" is a call whose process died first. The handlers
are one action each, guards in the order of the Swift code: no user means the
failure is reported and nothing else happens; otherwise `createDBUser` queues the
profile and success is reported at once. External steps are the servers'
answers, network errors before or after the request was carried out, the
delivery, repetition and refusal of queued profile writes, and the end of a
process, which loses handlers and queued writes because the life-cycle callbacks
of AppDelegate are empty. The order of the writes queued on a device is kept.

### DBImpl

An action is one critical section, or one stretch without `mutex_`. `pc` says
where each caller is; `mutex` names the caller that keeps the lock from one
iteration of `MakeRoomForWrite`'s loop to the next. Waiting threads run only
after a signal. A batch is identified with its call, a memtable with the set of
calls in it, level 0 with its number of files. `deeper` stands for the score and
seek conditions of all other levels; one compaction settles it. Any of the I/O
calls may fail, `MaxFaults` times in all. `TEST_CompactRange` and
`TEST_CompactMemTable` are modelled as `CompactRange` uses them. Reads take no
part in what is modelled, except that `Get` may schedule a seek compaction, which
is left to `Compaction`.

### DBFiles

Every system call after which a crash would find different files is a step. A
log holds batches with sequence numbers, a manifest version edits, a table the
set of its entries. Each log and manifest knows how much of it was synced:

* `ProcessCrash` keeps the files as they are;
* `PowerLoss` keeps of each log and manifest any prefix that includes what was
  synced. Tables are synced before they are used. Creation, renaming and deletion
  of files are assumed ordered and durable, as a journalling file system makes
  them, so the model is on the safe side for findings and relies on the file
  system for the rest.

The calls that may fail are named by `Faults`: an append to the log or to the
manifest, a Sync of the log, the creation of a new log (whose number is given back),
the writing of a table, and the steps of `DB::Open`. A failing append leaves
nothing, a part (`Torn`) or all of the record. A reader
of a log returns what is in front of a torn record, as `log::Reader` drops the
rest of the block. A torn record at the end of a manifest is its end; one in the
middle may be reported as a corruption or be taken for the end.

One write is in progress at a time (`DBImpl` shows the group commit is one).
A compaction has one output and keeps everything it reads, replaying a log gives
one table, `reuse_logs` is off, and a trivial move (which changes a level and no
file) does not appear.

`Store` is a set of batches: a committed batch survives the end of the process, a
batch committed with sync also a power failure, and one whose write did not
return, or failed, may or may not appear. `DBFiles` maps to it with the contents
of the open database being what a reader sees, and the contents of one that is
not open being what `DB::Open` will find. `Store` counts the power failures
(`outages`), and `DBFiles` maps its own count to that, so a step may only be read
as a power failure of `Store` when the power did fail; `ProcessCrash` of `Store` is
for an open database. What remains for every other step, each step of the recovery
and the end of the process in its middle included, is to leave the contents
alone: none of them may change what a crash at that point would recover. The
mutation of `Implements` is one that a power failure would have explained:
`RecoverLogFile` deleting a log it replayed before a manifest names the table.

### Compaction

An entry is its sequence number; `history` says which key it wrote or deleted. A
table is its set of entries, and its size their number. Versions are a list with
reference counts, held by readers and by the compaction at work. A flush is two
steps (write the table, install it at the level `PickLevelForMemTableOutput`
chose), a compaction one step per output and one to install them; writes,
memtable switches, snapshots, readers and nested flushes come in between. Inputs
come from the size score, from seeks that used up a file's allowance, or from
`CompactRange`; `SetupOtherInputs` grows them under `ExpandLimit`; outputs end at
`TargetFileSize` or at the grandparents' limit; a lone input with little below it
is moved. `DeleteObsoleteFiles` runs where the code calls it. A flush may fail
(`FlushFails`); a compaction around it goes on, flushes `imm_` again before its
next entry and is installed, as `DoCompactionWork` does not look at what became of
`CompactMemTable`. A compaction that fails itself (`CompactionFails`) gives up its
outputs. Two constants choose
behaviours of the code that break a property (see below): `CutInsideKey` lets an
output end between two entries of one key, `FlushDuringManual` a flush run inside
a manual compaction.

### LogFormat

A file is a sequence of bytes that know what they are, so a reader that is out of
step reads nonsense as it would in a file. `EmitPhysicalRecord` writes one
fragment; an append may fail after any byte of its trailer and of its fragment
(`EmitFails`: the record is given up, the place in the block has moved on all the
same, and the next record is written behind it); the writer may die after any byte,
be reopened behind what is there (at any offset in a block), and a byte may be
damaged. `ReadRecord` is one action per physical record, with the
resynchronisation, the traces of crashes it takes for the end, and the drops it
reports; reading a block may fail, which ends the log there (`ReadFails`).

### Iterators

`TableBuilder` is followed entry by entry: shared prefixes, restart points,
shortened separators in the index, filters by file offset. The iterators are
records that nest as the objects do; `Seek`, `Next`, `Prev` dispatch on the kind.
Any one block, index or filter may be unreadable. Insertions into the memtable
come between any two moves. `Expected` is what the same call on the sorted map of
the snapshot returns.

### TableCache

A client is a read, an iterator or a builder of a table. It pins files (those of
the version it reads, or the output it builds), wants one of them, and goes
through `FindTable`: `Lookup`, opening the file on a miss, `Insert` and the loop
that removes the oldest entries, use of the handle, `Release`. The shard is a
record with a field for each member of `LRUCache`; `Ref`, `Unref`, `Unlinked` and
`FinishErase` are the code's helpers as functions of it. Each operation of the cache holds
the shard's mutex and is one action, except `Insert`, whose loop is one action
per turn (`mutex` names who is in it). `DBImpl`'s mutex is held from `Install`,
which computes what `DeleteObsoleteFiles` removes, until the last file is gone;
for each file `Evict` comes before `DeleteFile`, and clients that are past the
lookup of their version go on meanwhile. A freed `LRUHandle` may be reused for the
next entry, so a stale handle would show another table's key.

### FetcherService

The main thread and the sessions' delegate queue each have a stack of frames; a
step runs the top frame up to where the code lets go of its locks, and pushes the
calls it makes. The network, the timers and the authoriser are external: a task
ends with a success, an error that is retried or one that is not. With `LateHost`
a thread may be overtaken between leaving the service's lock and writing
`serviceHost`.

### UploadFetcher

Every method runs on the main queue, so a handler is one action. Flights are the
fetchers the upload makes (start, chunk, query, cancel); a flight whose fetcher
was stopped may still reach the server. The server is external: it takes a chunk
whose offset is what it has, keeps a multiple of the granularity of one whose
connection breaks, and finalises. It may also refuse an upload, by an answer
without a location or with a status that is not "active". `Relaunch` ends the process; a chunk in its
background session survives with the metadata it was started with.

### Nanopb

A wire is a sequence of bytes, a stream a position with the bytes left, a message
a function from field keys to values, and the field tables a constant, so that
the code is followed field by field: varints with their widths (`Word` and `Long`
stand for 32 and 64 bits), zig-zag, fixed sizes, strings, packed arrays,
submessages with their two passes, oneofs, extensions and callbacks, defaults and
required fields. Callbacks and extensions are linked into the structure by the
client; a submessage of a oneof is zeroed before it is decoded, so there they are
not (`linked`), and their fields are skipped. An extension that is linked is
encoded whether it was found or not. `Seen` says what of a message arrives,
which is how `RoundTrip` is stated: everything but the values of callbacks in a
submessage of a oneof.

## Runs

TLC explores the whole state space of every passing run.

| Run | Checks | Instance | Shows |
|---|---|---|---|
| `registration` | `SuccessKeepsProfile`, `ExclusiveRegistration`, `ProfileBelongsToAccount`, `ProfileArrives` | 2 calls, 2 devices, 2 addresses, 2 passwords, 2 uids; 179,968 states | what registration guarantees in spite of failures, and that a reported profile arrives unless dropped |
| `dbimpl` | `SleepersAreLed`, `WaitersAreServed`, `AnsweredMeansApplied`, `SyncMeansSynced`, `ErrorsAreSticky`, `Level0Bounded`, `CallsReturn`, `CloseEnds` | 3 calls of `Write` (sync or not) or `CompactRange`, the destructor, one I/O error, level 0 full after one flush; 391,510 states | callers, background thread and destructor cooperate, and everybody returns |
| `dbfiles_power` | `AckedVisible`, `TablesPresent`, `SequencesDistinct`, `Reopens`, `Implements` | 2 batches, 2 crashes or power failures, one failing call (log Sync, creation of a log, table, `DB::Open`), a compaction; 1,260,042 states | acknowledged writes survive, errors are survived, and `DBFiles` implements `Store`: only power failures take writes away, and only those without sync |
| `dbfiles_manifest_fault` | `OnlyDoubtLoses` | 3 batches, two failing appends (log or manifest), a crash, no compaction; 83,328 states | acknowledged writes are lost only when a write had failed before. It says nothing about what a failed append to the log costs; that is `ReadBack` of `logformat` and the disagreement below |
| `compaction` | `GetSeesHistory`, `ScanSeesHistory`, `LevelsDisjoint`, `FilesPresent` | 2 keys, 3 levels, 3 entries of which one may be a deletion, a reader, 2 snapshots, reads, calls of `CompactRange` or failing flushes and compactions; 403,107 states | reads see the history through flushes, compactions and their failures |
| `logformat` | `ReadBack`, `ReaderEnds` | blocks of 5 bytes, headers of 2, up to 3 records of 0, 2 or 7 bytes, one damaged byte or failing append, any read of a block failing, initial offsets 0, 4 and 6; 695,536 states | logs are read back, damage and failures stay local |
| `fetcher_service` | `AnsweredOnce`, `ConnectionLimit`, `SessionsUsable`, `FetchEnds` | 3 fetchers of one host that runs one at a time, two priorities, one retry, one authoriser, one refused request, one stop or expiry of the discard timer; 362,126 states | fetches are answered once and nobody starves |
| `upload` | `SuccessMeansStored`, `ChunksInRange`, `OneAnswer`, `UploadEnds` | 7 bytes, standard chunk size, demand buffer of 3, granularity 2, two faults or refusals, a pause, a termination; 162,172 states | the upload protocol is sound and ends |
| `nanopb` | `RoundTrip`, `DecodedIsSound` | a schema with every label, kind and allocation, some 25 messages, two at a time, two sizes of the output buffer, and 14 byte values on foreign wires; 56,382 states | encoder and decoder agree; what is accepted is sound |
| `iterators` | `ReadsAgree`, `ErrorsStay` | 4 databases of 8 entries over 3 keys, 2 snapshots, any one unreadable block, one concurrent insertion; 16,350 states | the stack of iterators is a cursor in a sorted map |
| `table_cache` | `CacheConsistent`, `OpenTablesBounded`, `OpenTablesExist` | 2 clients, 4 places in memory, a capacity of 1, one table at the start, 4 file numbers; 228,401 states | handles stay valid, counts and lists agree, open tables are bounded and have their files |
| `compaction_boundary` | `GetSeesHistory`, violated | 1 key, 3 entries, a snapshot | see below |

### Bounds

* `Registration`: the properties relate at most two calls, so two calls on one or
  two devices, for one or two addresses, are every case of them: two
  registrations racing for an address, a registration and a sign-in, a second
  try after a failed one. The theorems cover any number of calls. Uids are as
  many as addresses, as an address never gets a second account.
* `DBImpl`: `WriteBufferSize` 0 makes every write but the first switch the
  memtable, so `imm_`, level 0 and the waits fill at once. Level-0 limits of 1
  reach slow-down, stop and compaction with three calls; three writers are a
  leader, a follower in its group, and one that joins while the log is written.
  One key per compaction gives each a nested flush; one I/O error is enough for
  every error path, as the error stays. One level and one extra round exercise
  both loops of `CompactRange`; that the database is closed at any moment is part of
  the run.
* `DBFiles`: `WriteBufferSize` 0 makes every batch its own memtable, so that log,
  `imm_` and tables fill at once. Two crashes include one during the recovery from
  the other. `MaxFile` cuts off the longest behaviours: 11 numbers are enough
  for two batches, their flushes, a compaction and two recoveries, not for all of
  these in one behaviour. These runs do
  not check deadlock: the model stops once batches and crashes are used up.
* `Compaction`: limits of one or two entries make every level overflow at once, so
  three entries pass through flush, level 0, level 1 and level 2; two entries of
  one key with a snapshot between them are the smallest case in which dropping
  matters, and the third is a deletion or the other key. `MaxFile` = 7 tables are a
  table for each flush and the outputs of three compactions. `MaxOps` counts the
  snapshots, reads, calls of `CompactRange` (for all keys) and I/O errors of one
  behaviour: two of any kinds, so a flush may fail twice within one compaction,
  or once next to a reader or a snapshot. Read samples that use up a file's seeks
  are not counted.
* `LogFormat`: a block of 5 with headers of 2 gives every relation the code
  distinguishes: a trailer shorter than a header, exactly a header and no payload,
  a record in one block, in two and in three. 0, 2 and 7 are the payloads that
  reach them from every offset. Initial offsets 0, 4 and 6 are the start, the
  last byte of the first block and a place inside the second. One byte or one append
  is bad in one behaviour (`MaxDamage`).
* `Iterators`: see the comment of `MCIterators`; blocks, restart intervals and
  filter base are chosen so that a block has two restart points, a table two blocks
  and two filters, and the versions of a key lie in two blocks.
* `TableCache`: with a capacity of 1 every second table evicts; two clients can miss
  the same table, use one the other inserted over, and evict each other's. 4 file
  numbers are two builds behind the table that was there and one that is replaced
  again. No run checks deadlock: the bound on file numbers may be used up.
* `FetcherService`: one slot and three fetchers are a runner and two that wait, so
  that who is next matters; one stop reaches each of them in each of its stages. A stop and an expiry of the
  discard timer share the bound `MaxEvents`; 2 of them have been checked for two
  fetchers.
* `UploadFetcher`: the chunk size is the standard one, larger than the file, so
  that a file goes whole first; data that are no file, and a file after its first
  failure, go in chunks of the demand buffer, 3 rounded to 2 as soon as the
  granularity is known. 7 bytes are then more than two chunks and a last one of odd
  length; two faults are a failed chunk and a failed query.
* `Nanopb`: 10 and 18 bits keep the difference between the two widths and of both
  from a whole number of 7-bit groups. Foreign wires begin with the
  required field (`Opening`), so that they can be accepted, and go on with bytes up
  to the length `MaxWire` of 6, over tags of most fields, lengths,
  terminators and continuation bytes. An output buffer of 14 bytes
  has room for little more than the smallest message, one of 56 for two.

Runs without a deadlock check are those whose system may stop: a client that has
made its calls, an upload that is answered, bounds that are used up.

### Fairness

* `Registration`: the client library times out requests, runs queued handlers
  while the process lives and keeps sending queued writes; the servers owe no
  answer, users no call, and a process may die at any time.
* `DBImpl`: a thread that is not waiting on a condition variable continues. That
  is weak fairness for each call that was made, for the background thread and for
  a destructor that was woken. The leader of the queue is the only one competing
  for long, so no strong fairness of the mutex is needed. Calls may be cut short by
  the destructor, so both properties are about a database that is alive.
* `LogFormat`: the reader goes on reading (it is a loop without waits).
* `FetcherService`: threads run, timers fire, tasks end (an NSURLSession task has a
  time-out) and the authoriser answers; the client owes nothing.
* `UploadFetcher`: the main queue runs its blocks, a chunk's data is produced and a
  request is answered or fails; the client owes nothing.
* `DBFiles`, `Compaction`, `Iterators`, `TableCache` and `Nanopb` state safety only.

## Disagreements with the documentation

`compaction_boundary` is kept as a run: with a snapshot between two entries of a
key, `DoCompactionWork` may end an output between them, as the size limit does not
look at user keys. The next size compaction takes the first of the two files, with
the newer entry, down a level; `SetupOtherInputs` does not add its neighbour. `Get`,
which stops at the first level that has the key, then returns the older entry,
although `version_set.cc:346` says "We can search level-by-level since entries
never hop across levels." `ScanSeesHistory` still holds: iterators merge all levels.

The others can be reproduced by changing a passing run as stated. The passing
runs leave these cases out for that reason:

| Module, property | Change | What TLC shows | The source says |
|---|---|---|---|
| `DBImpl`, `ManualCompactionPresent` | check it in `DBImpl.cfg` | a `Sync` that fails in `Write` while a manual compaction runs wakes the caller of `TEST_CompactRange`, which withdraws `manual_compaction_`; the background thread then follows the null pointer (`db_impl.cc:757`) | "a mode where all future writes fail" (`db_impl.cc:1239`) |
| `DBImpl`, `CompactMemTableFlushes` | check it in `DBImpl.cfg` with `MaxFaults = 0` and `WriteBufferSize = 1` | the null batch of `TEST_CompactMemTable`, waiting behind another writer, is taken into that writer's group, and nothing is forced out of the memtable (`db_impl.cc:1311`) | "Force current memtable contents to be compacted." (`db_impl.h:50`) |
| `DBFiles`, `CreationCommitted` | check it in `MCDBFilesPower.cfg` | a power failure after `SetCurrentFile(1)` leaves an empty manifest, as `NewDB` did not sync it; the database cannot be opened or created any more (`db_impl.cc:196`) | "the creation of the DB is committed only when the descriptor is created" (`db_impl.cc:277`) |
| `DBFiles`, `Reopens` | `MCDBFilesPower.cfg` with `Faults = {"manifest"}` and 3 batches | a flush nested in a compaction tears a manifest record; the compaction goes on and appends behind it (`db_impl.cc:922`) | "No more background work after a background error." (`db_impl.cc:673`) |
| `DBFiles`, `AckedVisible` | `MCDBFilesPower.cfg` with `Faults = {"append"}` | a log append that fails half-way is reported to its writer only; later acknowledged writes behind it are not replayed (`db_impl.cc:1224`) | "if it is just the process that crashes (i.e., the machine does not reboot), no writes will be lost even if sync==false" (`options.h:195`) |
| `Compaction`, `LevelsDisjoint` | `Compaction.cfg` with `FlushDuringManual = TRUE`, three keys, `RangeEnd = {3}`, `L0Trigger = 3`, `LevelLimit = 3`, `MaxSeq = 5`, `MaxDeletes = 0`, `MaxOps = 1` and no reader | a manual compaction joins two disjoint level-0 files into one output; a flush of a key between them goes to the level the output goes to | the assertion "Must not overlap" (`version_set.cc:765`) |
| `FetcherService`, `FetchEnds` | `MCFetcherService.cfg` with `LateHost = TRUE` | a fetcher that stops between the service's lock and the write of `serviceHost` keeps its slot for ever | "to avoid any chance of the underlying request changing, stranding the fetcher in the wrong array" (`GTMSessionFetcherService.m:364`) |
| `FetcherService`, `StopIsFinal` | check it in `MCFetcherService.cfg` | a fetcher that is stopped while it is being authorised or waits for the session is started all the same | `GTMSessionFetcher.h`, `stopFetching`: "Cancel the fetch of the request that's currently in progress." |
| `UploadFetcher`, `UploadEnds` | `UploadFetcher.cfg` with `KeepsLastByte = TRUE` and `Length = 6` | the server holds every byte of an upload it has not finalised; the client queries it again and again and never sends the finalize command (`GTMSessionUploadFetcher.m:1085`) | "Handle we're done" (`GTMSessionUploadFetcher.m:1086`) |
| `UploadFetcher`, `ChunksInRange` and, with `ChunkSize = 3`, `SuccessMeansStored` | `UploadFetcher.cfg` with `PauseAnytime = TRUE` | a pause and resume while a query or the start request is in flight leaves two requests that both go on, or none | no document covers it |
| `UploadFetcher`, `ChunksInRange` | `UploadFetcher.cfg` with `Length = 13`, `ChunkSize = 7`, `DemandBuffer = 7`, `Granularity = 4`, `Slack = 0`, no faults, no pauses and two terminations | a relaunched upload does not know the granularity and asks for a chunk of 7, of which the server keeps 4; the second relaunch takes the later offset of the session's metadata with the length of an earlier chunk, and a chunk of negative length is asked for | the assertion "offset %lld exceeds data length %lld" (`GTMSessionUploadFetcher.m:1611`) |

Details of nanopb that are reproduced as they are:

* the check of required fields shifts by the width of a word when their number is a
  multiple of 32; the tables of the run have other numbers;
* a field of a known tag is decoded without looking at its wire type;
* a submessage of a oneof is zeroed before it is decoded (`pb_decode.c:421`), so its
  callback fields are skipped whatever the client had put there. It is the one
  loss `RoundTrip` allows. For the same reason a second submessage of the same
  oneof replaces the first, where protocol buffers merge the two;
* `found` of an extension is not looked at by the encoder (`pb_encode.c:412`, and
  `pb.h:362` says so), so a message that was read without an extension is written
  with it. `DecodedIsSound` compares what is read again with that.

## Proofs

All theorems hold for every value of the constants that satisfies the named
assumption of the module.

`RegistrationProofs` (from `NoneAssumption`). `TypeCorrect`, `ProfileKept`,
`ProfileOwnership`, `Exclusion`. The properties are not
inductive: that the profile stored is the account's needs that what is queued is,
which needs that the handler was given the uid the server created for its call.
`IInv` adds where accounts, answers, handlers' users and queued writes come from
(`AccountOrigin`, `AnswerOrigin`, `HandlerOrigin`, `QueueOrigin`), that uids are
not given out twice (`UidsDistinct`) and that a call that has not progressed has
no answer (`CallProgress`). Its part about accounts and its part about profiles
are shown to be kept separately, action by action.

`DBImplProofs` (from `ConstantsAssumption`). `TypeCorrect`, `NoLostWakeUp`,
`SyncHonoured`, `NoWriteAfterError`, `Level0Limit`, `BackgroundWorkServed`,
`WriteTellsTheTruth`, for any number of callers,
any triggers, any number of faults. `IInv` adds

* `QueueOK`: the callers in the queue are distinct, only its head is past the
  wait, everyone behind it sleeps undecided;
* `GroupOK`: the leader's group is a prefix of the queue without a sync write
  behind a leader without sync, and an OK of a sync leader means the group is
  synced;
* `LateOK`: a call counts as late only after an error;
* `FlushOK`: a flush has its memtable, a compaction's level-0 inputs are there,
  and the bound counts `imm_` as the file it will be, which is what makes it
  inductive: `MakeRoomForWrite` checks level 0 long before the table is added;
* `JobOK`: a manual compaction at work has its `ManualCompaction` unless there was
  an error.

* `AppliedOK`: a batch that is stored and undecided belongs to the group of a leader
  that has written its log and not yet finished;
* `ServedOK`: work for the background thread that is there is scheduled, and the
  thread is busy exactly when something is scheduled.

The hardest step is `FinishWrite`, which takes the group off the queue and wakes
the new head.

`DBFilesProofs` and `DBFilesPromises` (from `ConstantsAssumption`), for any number of batches, crashes, failing calls and
compactions, with or without power failures. The argument is about *outcomes*: a
crash leaves some number of whole records of the manifest that CURRENT names, at
least those that were synced, and everything else follows from how many. `IInv`
says, of every outcome at once,

* `ManifestOK`: its tables are on the disk and whole, and file numbers it leaves
  free are free;
* `OpeningOK`: between `Recover` and `SetCurrentFile`, memory is the last
  outcome, and the tables built so far hold what the replayed logs held;
* `SyncedOK`: while the database runs without an error and applies nothing, there is
  one outcome and it is the version in memory; while it applies an edit, one with
  and one without it;
* `BackgroundOK`: tables under construction are in no outcome and in no version;
* `SequenceOK`: entries that the database, or any outcome, can show and that have
  the same sequence number are the same entry;
* `LogOK` and `DurableOK`: logs from an outcome's log number on, with its tables,
  hold everything acknowledged (after a power failure: everything synced) and
  nothing but writes that were begun.

None of these holds without the others: that recovery finds every acknowledged
write needs that the tables of each outcome exist, which needs that
`DeleteObsoleteFiles` keeps what any outcome names, which needs that there is one
outcome when it runs. Proved from it: `NoTableLost`, `NumbersDistinct`,
`NothingAckedIsLost`; `AckedStaysVisible` and `ImplementsStore` under the hypothesis
`"append" \notin Faults`; `CreatedReopens` under the hypothesis that manifest appends
do not fail or there are no compactions. Both hypotheses are needed, and are the
two disagreements of `DBFiles` listed above: a torn record of a log hides the
acknowledged ones behind it, and a flush nested in a compaction makes the
compaction append behind a torn record of the manifest. `ImplementsStore` is proved
step by step: a write commits when
`FinishWrite` has put it into the memtable, an abstract power failure is a concrete
one (`OutagesCounted`: nothing else counts one), the end of the process is
`ProcessCrash` when the database is open and a stutter when `DB::Open` is at work,
and everything else, all of recovery, flushes, compactions and deletions included,
is a stutter, because what a crash would recover does not change.

`UploadFetcherProofs` (from `UploadAssumption`). `TypeCorrect` and
`AnsweredAtMostOnce`: `invokeFinalCallback` is reached from a dozen handlers and by
several ways out of one handler. `AnswerOK` adds that the handler is gone once an
answer is on its way; `HandlerOK` carries that through the record a handler
passes from method to method. `UploadIsStored` and `ChunksStayInRange` have two
hypotheses. Without the first TLC refutes both properties, without the second
`ChunksInRange` (see the disagreements above):

* `~PauseAnytime`: the client does not pause during an offset query, or while a
  chunk's data is generated, and does not resume during the initial request;
* `WholeChunks`: a chunk that is not the last one is a multiple of the granularity
  also when the granularity is not known, as after a relaunch. With the standard
  chunk size and the granularity of 256 KB that `GTMSessionUploadFetcher.m:1520`
  names, it holds: the file goes whole, and the demand buffer, 10 or 100 MB, is a
  multiple. A chunk size the app sets may break it. The instance of the run is
  outside it, so that the rounding shows; there both properties hold with one
  relaunch.

What makes them inductive is `Sound`. The server has a beginning of
the data, a multiple of the granularity until it finalises (`ServerSound`). The
client's offset and the offset of every chunk are multiples too and not ahead of
the server's, and a chunk lies inside the data (`OffsetSound`, `ChunkSound`): this
holds also of a chunk the client gave up, and of the offset in the metadata of its
session, which a relaunch goes on from. An acknowledged chunk is on the server, and
an offset the server told is not behind the client's, which only `retryBlock` and a
relaunch take back (`QuerySound`). At most one chunk or query is under way
(`OneBusy`), none while the upload is paused, and during an initial request, which
empties the server if it is repeated, nothing has been uploaded (`Fresh`). `Fine` is
what the record of a handler keeps of this between two methods, and `Ready` what it
has when the next request may be sent.

`TableCacheProofs` (from `TableCacheAssumption`), for any number of clients, any
capacity and any number of files. `TypeCorrect`, `CacheIsConsistent`,
`OpenTablesAreBounded`, `OpenTablesHaveFiles`. The operations of the shard are
proved once, as lemmas about functions of a shard that any action may call. What
they keep is `Shard`: the hash table names an entry that is in the cache under its
own key; an entry's `refs` is the number of its holders and one for the cache; the
two lists are what the comment at `cache.cc:27` says, without an entry twice;
`usage` is the number of entries in the table. In the middle of an operation one
entry may be out of the table and still counted, which is a parameter of
`Shard`. `IInv` adds

* `ClientsOK`: a client's handle has the key it wants, the one in `Insert`'s loop
  has the mutex, a table that is built is in no version, pinned by nobody else, and
  not cached before its builder puts it there;
* `FilesOK`: what is going to be deleted is in no version and pinned by no
  client, and what was evicted is not in the cache again, because no client may want it;
* `ClosedOK`: nothing is left after the end.

That open tables have their files needs all of it: an entry outlives its table's
deletion only if somebody still uses it, and then it pins the file.

`FetcherServiceProofs` (from `FetcherServiceAssumption`), for any fetchers, hosts,
priorities and limits, any number of retries and stops, also with `LateHost`.
`TypeCorrect`, `HandlerCalledOnce`, `HostsAreBounded`, `SessionsStayUsable`. The argument follows a fetch from
place to place: not begun, a frame of a thread, an event of the delegate queue, a
retry timer or the block that arms it, a task, the list of delayed fetchers, the
authoriser. `Inv` says

* `Places`: a fetch is never at two places, which is why two of its answers cannot
  overtake each other; every step takes it from one place to one other or leaves it;
* `Owners`: a task, and the event of its end, belong to one fetcher, and the delayed
  fetchers of a host are fetchers for that host;
* `Answers`: a call of the handler that was made, or is in the main queue, is the only
  one, and the handler is gone, or is about to be taken away by the stop that follows it
  while the fetch is nowhere;
* `Slots`: a fetch that nobody stopped and that is under way, or will be without
  asking again, is in `runningFetchersByHost`; a fetch that is being stopped goes on
  only after the stop (`Parked`), as `retryFetch` has it.

The limit then is a counting argument: `owner` maps the host's tasks one to one into
its running fetchers. A fetcher that the client stopped while it was being authorised
is outside of it, see `StopIsFinal` above.

`SessionsStayUsable` needs more, as a fetcher keeps the session it was given while
other threads create, reset and discard sessions. `Sessions` adds to `Inv`

* `FramesOK`, `CreatorOK`: a call that creates or hands out a session is the innermost
  one of its thread, and the only thread that creates one holds the semaphore;
* `SessionOK`: a fetcher that has a session has begun and waits for no authoriser; if
  it still waits to begin, it is about to let the session go; between being given a
  session and using it, what it has is the dispatcher's;
* `DiscardOK`: when the discard timer has fired for the timer that is set, no fetcher
  of the delegate queue is about to use the session;
* `NumbersOK`: sessions and timers are numbered in the order of their creation, so
  neither comes back after it was invalidated.

It rests on one assumption about time, in the guard of `DiscardTimerFired`: the discard
interval, a minute, is longer than what `beginFetch` takes from the session to
the task. Without it two hosts and `LateHost` are enough to violate the property.

`CompactionProofs` (from `ConstantsAssumption`: finitely many readers, at least two
levels, and `None` is no job and no reader's hold), for any keys, levels, triggers,
limits and numbers of readers, also when outputs end inside a key and when flushes are
nested in a manual compaction. `FilesStayPresent`, `NoVersionLeaks`, `TypeCorrect`.
That the version a reader holds is alive is not inductive: the version goes when its
count reaches 0, and what the count means is known only from everybody who holds a
reference. `IInv` therefore says

* `HolderOK`: `refs_` of every version in the list is the number of readers that hold
  it, one for `current_` and one for the compaction at work, and is not 0; the files of
  the version are on disk; `file_to_compact_` is a file of that version, at a level that
  has one below it;
* `FileOK`: pending outputs are on disk and have numbers that were given out; the
  table of a flush is pending;
* `CompactOK`, `ManualOK`: the outputs of the compaction are pending and not the
  flush's, what is left to merge are entries, and a manual compaction works at a level
  that has one below it.

With that `DeleteObsoleteFiles` keeps what is used: a table goes from pending to a
version in the step that installs the version, and leaves when the last holder of the
last version with it has gone. `NoVersionLeaks` is the other direction of the count.
The lists of files and entries in order are chosen by rank (the element with `i - 1`
before it), so that they exist at all is a lemma about finite strict orders
(`RankTaken`), used for files, entries, file numbers and levels.

The type invariants are proved and need no run; that of `LogFormat` states the types
for the reader.

Only model-checked:

* all liveness properties: the prover has no support for fairness and ENABLED;
* the properties of `Iterators` and `Nanopb`, which are built of recursive operators
  over nested structures, and of `LogFormat`, which are about what a loop over the
  bytes of a file computes: induction over data is out of the prover's reach;
* `SuccessMeansStored` and `ChunksInRange` of `UploadFetcher` outside the two
  hypotheses named above;
* `GetSeesHistory`, `ScanSeesHistory` and `LevelsDisjoint` of `Compaction`. They do not
  hold for every value of the constants: with outputs that end inside a key
  (`CutInsideKey`) a read goes wrong, with flushes inside a manual compaction
  (`FlushDuringManual`) a level overlaps, both of which the code does; and
  `GetOverlappingInputs`, on which they rest, is a recursion whose end would have
  to be proved by induction over data.

## Plan

Done: `Registration`, `DBImpl`, `DBFiles` with `Store`, `Compaction`, `LogFormat`,
`Iterators`, `TableCache`, `FetcherService`, `UploadFetcher`, `Nanopb`, and the proofs
above. Next: several outputs of one compaction in `DBFiles`, which is what
`MarkFileNumberUsed` is for.

## Not modelled

* Views and empty view controllers: appearance only.
* Firebase's binaries beyond their use by the app.
* leveldb: the block cache and `Prune`, the links of the skip list (an insertion is
  one step);
  checksums, compression and the hashing of Bloom filters (a filter matches its
  keys and, by chance, others); `ApproximateOffsetOf`, properties, the C wrapper,
  the offline repairer, `reuse_logs`.
* GTMSessionFetcher: downloads to files, authentication challenges, redirects,
  cookies, streams, logging, test blocks, `waitForCompletion`.
* nanopb: pointer fields and `pb_release` (not in this build), custom streams.
* GoogleToolboxForMac: stateless string and compression helpers.

`PROJECT.json` gives the reason for each component.
