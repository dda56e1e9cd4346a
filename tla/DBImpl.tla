------------------------------- MODULE DBImpl -------------------------------
(***************************************************************************)
(* The threads of leveldb's DBImpl (Pods/leveldb-library/db/db_impl.cc):   *)
(* callers of Write and CompactRange, the one background thread, and the   *)
(* destructor, sharing mutex_, the writers_ queue and the condition        *)
(* variables of the queue and of background work (bg_cv_).                 *)
(*                                                                         *)
(* An action is one critical section or one stretch of code run without    *)
(* mutex_.  MakeRoomForWrite goes round its loop with mutex_ held, so the   *)
(* variable mutex names the caller that keeps it between two actions.  A   *)
(* thread in a wait only runs again after a signal: there are no spurious  *)
(* wake-ups to repair a signal that is missing.                            *)
(*                                                                         *)
(* A memtable is the set of calls whose batch it holds.  What the files    *)
(* hold, and what is left of them after a crash, is module DBFiles.        *)
(***************************************************************************)
EXTENDS Naturals, Sequences, FiniteSets

CONSTANTS
  Call,             \* calls of Write and CompactRange; each is made once
  Kind,             \* what a call may be, a subset of {"sync", "async", "compact"}
  None,             \* NULL
  WriteBufferSize,  \* options_.write_buffer_size, in batches
  L0Compaction,     \* kL0_CompactionTrigger
  L0Slowdown,       \* kL0_SlowdownWritesTrigger
  L0Stop,           \* kL0_StopWritesTrigger
  ManualLevels,     \* max_level_with_files of CompactRange
  ManualRounds,     \* compactions one TEST_CompactRange needs
  MaxKeys,          \* keys of a compaction's input, at each of which it looks at imm_
  MaxFaults         \* bound on I/O errors

ASSUME ConstantsAssumption ==
  /\ Kind \subseteq {"sync", "async", "compact"}
  /\ None \notin Call
  /\ WriteBufferSize \in Nat
  /\ L0Compaction \in Nat /\ L0Slowdown \in Nat /\ L0Stop \in Nat
  /\ 0 < L0Compaction /\ L0Compaction <= L0Slowdown /\ L0Slowdown <= L0Stop
  /\ ManualLevels \in Nat \ {0} /\ ManualRounds \in Nat
  /\ MaxKeys \in Nat /\ MaxFaults \in Nat

VARIABLES
  kind,          \* what each call is
  pc,            \* where each call is, see PC
  status,        \* w.done and w.status: "none" until the call's write is decided
  mutex,         \* the call holding mutex_ between two actions, or None
  writers,       \* writers_
  force, allow_delay,  \* the locals of MakeRoomForWrite
  group,         \* the writers BuildBatchGroup put together, the leader first
  result,        \* the leader's status
  sync_error,    \* its sync_error
  mem, imm,      \* mem_, imm_: the calls whose batch is in there
  has_imm,       \* has_imm_: imm_ is not NULL; without it imm is empty
  flushed,       \* calls whose batch is in a table
  synced,        \* history: calls covered by a Sync that succeeded
  l0,            \* NumLevelFiles(0)
  deeper,        \* a level above 0 needs compaction
  bg_error,      \* ~bg_error_.ok()
  scheduled,     \* bg_compaction_scheduled_
  bgpc,          \* where the background thread is, see BGPC
  job, inputs,   \* the compaction it works on, and its number of level-0 inputs
  keys,          \* keys that compaction has left to read
  manual,        \* manual_compaction_: the call it belongs to, or None
  done,          \* calls whose ManualCompaction is done
  rounds,        \* compactions the call's ManualCompaction still needs
  level,         \* the level the call's TEST_CompactRange is at
  closing,       \* the destructor: see CloseState; shutting_down_ is closing # "open"
  faults,        \* I/O errors so far
  alive,         \* FALSE once the background thread followed a null pointer
  late,          \* history: calls that entered Write after a background error
  before         \* history: per CompactRange, the batches in memory when it was called

writeVars == <<status, mutex, writers, force, allow_delay, group, result, sync_error>>
tableVars == <<mem, imm, has_imm, flushed, synced, l0, deeper>>
bgVars == <<bg_error, scheduled, bgpc, job, inputs, keys, manual, done, rounds>>
restVars == <<level, closing, faults, alive, late, before>>
vars == <<kind, pc, writeVars, tableVars, bgVars, restVars>>

(***************************************************************************)
(* A call is "idle" before it is made and "returned" after.  In Write:     *)
(* "queued" waits on w.cv, "woken" was signalled; "room" is at the top of  *)
(* MakeRoomForWrite's loop with mutex_, "delay" sleeps 1ms, "roomwait"     *)
(* waits on bg_cv_, "roomwoken" was signalled; "log" is past               *)
(* BuildBatchGroup without mutex_, "relock" wants it back; "finish" has an *)
(* outcome and mutex_.  In TEST_CompactMemTable: "memcheck" is at the top  *)
(* of its loop, "memwait" waits on bg_cv_; in TEST_CompactRange "manual"   *)
(* and "manualwait" likewise.                                              *)
(***************************************************************************)
PC == {"idle", "queued", "woken", "room", "delay", "roomwait", "roomwoken", "log",
       "relock", "finish", "memcheck", "memwait", "manual", "manualwait", "returned"}

\* "start": scheduled with Env::Schedule.  "flush": in CompactMemTable.
\* "compact": in DoCompactionWork.  "nestedflush": in CompactMemTable called
\* from DoCompactionWork.
BGPC == {"idle", "start", "flush", "compact", "nestedflush"}

CloseState == {"open", "waiting", "woken", "closed"}

Members(s) == {s[i] : i \in 1..Len(s)}
HasBatch(c) == kind[c] # "compact"      \* CompactRange writes a NULL batch
InMemory == mem \cup imm

\* bg_cv_.SignalAll(), applied to the callers' program counters p.
SignalAll(p) ==
  [c \in Call |-> CASE p[c] = "roomwait"   -> "roomwoken"
                    [] p[c] = "memwait"    -> "memcheck"
                    [] p[c] = "manualwait" -> "manual"
                    [] OTHER               -> p[c]]
WakeDestructor == closing' = IF closing = "waiting" THEN "woken" ELSE closing

\* versions_->NeedsCompaction() of a version with l level-0 files.
NeedsCompaction(l, d) == l >= L0Compaction \/ d

\* MaybeScheduleCompaction finds something to schedule, given the values the
\* step leaves in imm_, manual_compaction_, the version and bg_error_.
Schedulable(i, m, l, d, err) ==
  /\ closing = "open"
  /\ ~err
  /\ i \/ m # None \/ NeedsCompaction(l, d)

MaybeScheduleCompaction(i, m, l, d, err) ==
  /\ scheduled' = (scheduled \/ Schedulable(i, m, l, d, err))
  /\ bgpc' = IF ~scheduled /\ Schedulable(i, m, l, d, err) THEN "start" ELSE bgpc

-----------------------------------------------------------------------------
Init ==
  /\ kind \in [Call -> Kind]
  /\ pc = [c \in Call |-> "idle"]
  /\ status = [c \in Call |-> "none"]
  /\ mutex = None
  /\ writers = <<>>
  /\ force = FALSE /\ allow_delay = FALSE
  /\ group = <<>> /\ result = "ok" /\ sync_error = FALSE
  /\ mem = {} /\ imm = {} /\ has_imm = FALSE /\ flushed = {} /\ synced = {}
  /\ l0 = 0 /\ deeper = FALSE
  /\ bg_error = FALSE
  /\ scheduled = FALSE /\ bgpc = "idle"
  /\ job = "none" /\ inputs = 0 /\ keys = 0
  /\ manual = None /\ done = {}
  /\ rounds = [c \in Call |-> ManualRounds]
  /\ level = [c \in Call |-> 0]
  /\ closing = "open"
  /\ faults = 0 /\ alive = TRUE
  /\ late = {} /\ before = [c \in Call |-> {}]

-----------------------------------------------------------------------------
(* Write: the queue.                                                       *)

\* The call finds itself at the front of writers_ and enters MakeRoomForWrite
\* with mutex_ held; p is the program counters so far.
BecomeLeader(c, p) ==
  /\ pc' = [p EXCEPT ![c] = "room"]
  /\ mutex' = c
  /\ force' = ~HasBatch(c)
  /\ allow_delay' = HasBatch(c)

\* Write up to its first wait: lock mutex_ and join the queue.
Write(c) ==
  /\ alive /\ closing = "open" /\ mutex = None
  /\ pc[c] = "idle"
  /\ writers' = Append(writers, c)
  /\ late' = IF bg_error THEN late \cup {c} ELSE late
  /\ before' = IF HasBatch(c) THEN before ELSE [before EXCEPT ![c] = InMemory]
  /\ \/ writers = <<>> /\ BecomeLeader(c, pc)
     \/ /\ writers # <<>>
        /\ pc' = [pc EXCEPT ![c] = "queued"]
        /\ UNCHANGED <<mutex, force, allow_delay>>
  /\ UNCHANGED <<kind, status, group, result, sync_error, tableVars, bgVars,
                 level, closing, faults, alive>>

\* What a caller does when Write returns st.  CompactRange ignores the status
\* of TEST_CompactMemTable, which only waits for the flush after an OK.
AfterWrite(c, st) ==
  IF HasBatch(c) THEN "returned" ELSE IF st = "ok" THEN "memcheck" ELSE "manual"

\* The wait on w.cv is over: return if done, lead if at the front.
WakeUp(c) ==
  /\ alive /\ mutex = None
  /\ pc[c] = "woken"
  /\ \/ /\ status[c] # "none"
        /\ pc' = [pc EXCEPT ![c] = AfterWrite(c, status[c])]
        /\ UNCHANGED <<mutex, force, allow_delay>>
     \/ /\ status[c] = "none"
        /\ Head(writers) = c
        /\ BecomeLeader(c, pc)
  /\ UNCHANGED <<kind, status, writers, group, result, sync_error, tableVars,
                 bgVars, restVars>>

-----------------------------------------------------------------------------
(* MakeRoomForWrite, run by the leader.                                    *)

InRoom(c) == alive /\ mutex = c /\ pc[c] = "room"

\* if (!bg_error_.ok()): yield the previous error.
RoomError(c) ==
  /\ InRoom(c)
  /\ bg_error
  /\ pc' = [pc EXCEPT ![c] = "finish"]
  /\ group' = <<c>> /\ result' = "error"
  /\ UNCHANGED <<kind, status, mutex, writers, force, allow_delay, sync_error,
                 tableVars, bgVars, restVars>>

\* Near the hard limit a write is delayed once, without mutex_.
MustDelay == allow_delay /\ l0 >= L0Slowdown

RoomDelay(c) ==
  /\ InRoom(c)
  /\ ~bg_error
  /\ MustDelay
  /\ pc' = [pc EXCEPT ![c] = "delay"]
  /\ mutex' = None
  /\ UNCHANGED <<kind, status, writers, force, allow_delay, group, result,
                 sync_error, tableVars, bgVars, restVars>>

\* mutex_ is taken again after the delay or after a wait on bg_cv_.
RoomAgain(c) ==
  /\ alive /\ mutex = None
  /\ pc[c] \in {"delay", "roomwoken"}
  /\ pc' = [pc EXCEPT ![c] = "room"]
  /\ mutex' = c
  /\ allow_delay' = (allow_delay /\ pc[c] # "delay")
  /\ UNCHANGED <<kind, status, writers, force, group, result, sync_error,
                 tableVars, bgVars, restVars>>

HaveRoom == ~force /\ Cardinality(mem) <= WriteBufferSize

\* Mutation: a sync write is taken into the group of a non-sync leader.
GroupEndsIgnoringSync(i) == i < Len(writers) => HasBatch(writers[i + 1])

\* BuildBatchGroup may stop before writer i + 1: at the end of the queue, at a
\* sync write behind a non-sync leader, or at a batch that would make the group
\* too large.  Null batches add nothing and always join.
GroupEnds(i) ==
  /\ \A j \in 2..i : kind[writers[j]] # "sync" \/ kind[writers[1]] = "sync"
  /\ i < Len(writers) => HasBatch(writers[i + 1])

\* Mutation: the loop of MakeRoomForWrite finds room before it looks for errors.
RoomFoundDespiteError(c) ==
  /\ InRoom(c)
  /\ ~MustDelay
  /\ HaveRoom
  /\ result' = "ok"
  /\ HasBatch(c)
  /\ \E i \in 1..Len(writers) : GroupEnds(i) /\ group' = SubSeq(writers, 1, i)
  /\ pc' = [pc EXCEPT ![c] = "log"]
  /\ mutex' = None
  /\ UNCHANGED <<kind, status, writers, force, allow_delay, sync_error,
                 tableVars, bgVars, restVars>>

\* There is room: build the group and let go of mutex_, or, for the null batch
\* of CompactRange, finish at once.
RoomFound(c) ==
  /\ InRoom(c)
  /\ ~bg_error /\ ~MustDelay
  /\ HaveRoom
  /\ result' = "ok"
  /\ \/ /\ HasBatch(c)
        /\ \E i \in 1..Len(writers) : GroupEnds(i) /\ group' = SubSeq(writers, 1, i)
        /\ pc' = [pc EXCEPT ![c] = "log"]
        /\ mutex' = None
     \/ /\ ~HasBatch(c)
        /\ group' = <<c>>
        /\ pc' = [pc EXCEPT ![c] = "finish"]
        /\ UNCHANGED mutex
  /\ UNCHANGED <<kind, status, writers, force, allow_delay, sync_error,
                 tableVars, bgVars, restVars>>

\* Mutation: the previous memtable is not waited for.
MustWaitForLevel0Only == l0 >= L0Stop

\* Mutation: level 0 may grow without limit.
MustWaitForImmOnly == has_imm

\* The previous memtable is still being compacted, or level 0 is full.
MustWait == has_imm \/ l0 >= L0Stop

RoomWait(c) ==
  /\ InRoom(c)
  /\ ~bg_error /\ ~MustDelay /\ ~HaveRoom
  /\ MustWait
  /\ pc' = [pc EXCEPT ![c] = "roomwait"]
  /\ mutex' = None
  /\ UNCHANGED <<kind, status, writers, force, allow_delay, group, result,
                 sync_error, tableVars, bgVars, restVars>>

Fault == faults < MaxFaults /\ faults' = faults + 1

\* Switch to a new memtable and log file, or fail to create the log file.
RoomSwitch(c) ==
  /\ InRoom(c)
  /\ ~bg_error /\ ~MustDelay /\ ~HaveRoom /\ ~MustWait
  /\ \/ /\ imm' = mem /\ has_imm' = TRUE /\ mem' = {}
        /\ force' = FALSE
        /\ MaybeScheduleCompaction(TRUE, manual, l0, deeper, bg_error)
        /\ UNCHANGED <<pc, group, result, faults>>
     \/ /\ Fault
        /\ pc' = [pc EXCEPT ![c] = "finish"]
        /\ group' = <<c>> /\ result' = "error"
        /\ UNCHANGED <<mem, imm, has_imm, force, scheduled, bgpc>>
  /\ UNCHANGED <<kind, status, mutex, writers, allow_delay, sync_error, flushed,
                 synced, l0, deeper, bg_error, job, inputs, keys, manual, done,
                 rounds, level, closing, alive, late, before>>

-----------------------------------------------------------------------------
(* Write: the leader's log write and the end of the call.                  *)

\* Without mutex_: AddRecord, Sync if the leader asked for it, InsertInto.
WriteLog(c) ==
  /\ alive
  /\ pc[c] = "log"
  /\ \/ /\ mem' = mem \cup {w \in Members(group) : HasBatch(w)}
        /\ synced' = IF kind[c] = "sync" THEN synced \cup Members(group) ELSE synced
        /\ UNCHANGED <<result, sync_error, faults>>
     \/ /\ Fault                              \* AddRecord fails
        /\ result' = "error"
        /\ UNCHANGED <<mem, synced, sync_error>>
     \/ /\ kind[c] = "sync" /\ Fault          \* Sync fails
        /\ result' = "error" /\ sync_error' = TRUE
        /\ UNCHANGED <<mem, synced>>
  /\ pc' = [pc EXCEPT ![c] = "relock"]
  /\ UNCHANGED <<kind, status, mutex, writers, force, allow_delay, group, imm,
                 has_imm, flushed, l0, deeper, bgVars, level, closing, alive, late, before>>

\* Mutation: the new head of the queue is not notified.
NewHeadNotNotified(q) == {}

\* The writer to notify when q is what is left of the queue.
NewHead(q) == IF q = <<>> THEN {} ELSE {Head(q)}

\* With mutex_: record a sync error, take the group off the queue giving each
\* member the leader's status, and notify the new head.
FinishWrite(c) ==
  /\ alive
  /\ \/ pc[c] = "relock" /\ mutex = None
     \/ pc[c] = "finish" /\ mutex = c
  /\ LET rest == SubSeq(writers, Len(group) + 1, Len(writers))
         woken == Members(group) \cup NewHead(rest)
         told == [x \in Call |-> IF x = c THEN AfterWrite(c, result)
                                 ELSE IF x \in woken THEN "woken" ELSE pc[x]]
     IN /\ writers' = rest
        /\ pc' = IF sync_error /\ ~bg_error THEN SignalAll(told) ELSE told
  /\ status' = [x \in Call |-> IF x \in Members(group) THEN result ELSE status[x]]
  /\ bg_error' = (bg_error \/ sync_error)
  /\ mutex' = None
  /\ group' = <<>> /\ result' = "ok" /\ sync_error' = FALSE
  /\ force' = FALSE /\ allow_delay' = FALSE
  /\ UNCHANGED <<kind, tableVars, scheduled, bgpc, job, inputs, keys, manual,
                 done, rounds, restVars>>

-----------------------------------------------------------------------------
(* CompactRange after its null write.                                      *)

\* TEST_CompactMemTable waits until imm_ is flushed or an error is recorded.
CompactMemTableWait(c) ==
  /\ alive /\ mutex = None
  /\ pc[c] = "memcheck"
  /\ pc' = [pc EXCEPT ![c] = IF has_imm /\ ~bg_error THEN "memwait" ELSE "manual"]
  /\ UNCHANGED <<kind, writeVars, tableVars, bgVars, restVars>>

InstallManual(c) ==
  /\ manual' = c
  /\ MaybeScheduleCompaction(has_imm, manual', l0, deeper, bg_error)

\* TEST_CompactRange leaves its loop.
ManualEnds(c) == c \in done \/ bg_error

\* One pass of TEST_CompactRange's loop, up to its next wait or its end.  At
\* the end the call withdraws its ManualCompaction and goes on to the next level.
ManualCompactionLoop(c) ==
  /\ alive /\ mutex = None
  /\ pc[c] = "manual"
  /\ \/ /\ ManualEnds(c)
        /\ manual' = IF manual = c THEN None ELSE manual
        /\ level' = [level EXCEPT ![c] = @ + 1]
        /\ pc' = [pc EXCEPT ![c] = IF level[c] + 1 < ManualLevels THEN "manual" ELSE "returned"]
        /\ done' = done \ {c}
        /\ rounds' = [rounds EXCEPT ![c] = ManualRounds]
        /\ UNCHANGED <<scheduled, bgpc>>
     \/ /\ ~ManualEnds(c)
        /\ pc' = [pc EXCEPT ![c] = "manualwait"]
        /\ \/ manual = None /\ InstallManual(c)
           \/ manual # None /\ UNCHANGED <<manual, scheduled, bgpc>>
        /\ UNCHANGED <<level, done, rounds>>
  /\ UNCHANGED <<kind, writeVars, tableVars, bg_error, job, inputs, keys, closing,
                 faults, alive, late, before>>

-----------------------------------------------------------------------------
(* The background thread.                                                  *)

\* Mutation: the end of the background call wakes nobody.
BackgroundCallEndQuiet(p, i, m, l, d, err) ==
  /\ scheduled' = Schedulable(i, m, l, d, err)
  /\ bgpc' = IF scheduled' THEN "start" ELSE "idle"
  /\ pc' = p
  /\ UNCHANGED closing

\* Mutation: the background call does not look for more work.
BackgroundCallEndIdle(p, i, m, l, d, err) ==
  /\ scheduled' = FALSE
  /\ bgpc' = "idle"
  /\ pc' = SignalAll(p)
  /\ WakeDestructor

\* The end of BackgroundCall: reschedule if there is more to do, then
\* bg_cv_.SignalAll().
BackgroundCallEnd(p, i, m, l, d, err) ==
  /\ scheduled' = Schedulable(i, m, l, d, err)
  /\ bgpc' = IF scheduled' THEN "start" ELSE "idle"
  /\ pc' = SignalAll(p)
  /\ WakeDestructor

\* BackgroundCall has nothing to do: shutdown, an earlier error, a manual
\* compaction with no files left.
BackgroundNothing ==
  /\ alive /\ mutex = None
  /\ bgpc = "start"
  /\ \/ /\ closing # "open" \/ bg_error
        /\ UNCHANGED <<manual, done>>
     \/ /\ closing = "open" /\ ~bg_error /\ ~has_imm
        /\ manual # None
        /\ rounds[manual] = 0
        /\ done' = done \cup {manual}
        /\ manual' = None
  /\ BackgroundCallEnd(pc, has_imm, manual', l0, deeper, bg_error)
  /\ UNCHANGED <<kind, writeVars, tableVars, bg_error, job, inputs, keys, rounds,
                 level, faults, alive, late, before>>

\* BackgroundCall starts CompactMemTable or picks a compaction.
BackgroundStart ==
  /\ alive /\ mutex = None
  /\ bgpc = "start" /\ closing = "open" /\ ~bg_error
  /\ \/ /\ has_imm
        /\ bgpc' = "flush"
        /\ UNCHANGED <<job, inputs, keys>>
     \/ /\ ~has_imm /\ manual # None
        /\ rounds[manual] > 0
        /\ bgpc' = "compact" /\ job' = "manual"
        /\ inputs' \in 0..l0 /\ keys' = MaxKeys
     \/ /\ ~has_imm /\ manual = None
        /\ bgpc' = "compact" /\ keys' = MaxKeys
        /\ \/ l0 >= L0Compaction /\ job' = "level0" /\ inputs' \in 1..l0
           \/ deeper /\ job' = "deeper" /\ inputs' = 0
  /\ UNCHANGED <<kind, pc, writeVars, tableVars, bg_error, scheduled, manual, done,
                 rounds, restVars>>

\* DoCompactionWork notices imm_ between two keys and calls CompactMemTable.
NestedFlush ==
  /\ alive /\ mutex = None
  /\ bgpc = "compact" /\ keys > 0
  /\ has_imm
  /\ keys' = keys - 1
  /\ bgpc' = "nestedflush"
  /\ UNCHANGED <<kind, pc, writeVars, tableVars, bg_error, scheduled, job, inputs,
                 manual, done, rounds, restVars>>

\* CompactMemTable ends.  The table goes to level 0 or below; an empty memtable
\* makes no table.  WriteLevel0Table or LogAndApply may fail, and shutdown
\* counts as a failure.
FlushDone ==
  /\ alive /\ mutex = None
  /\ bgpc \in {"flush", "nestedflush"}
  /\ \/ /\ flushed' = flushed \cup imm
        /\ imm' = {} /\ has_imm' = FALSE
        /\ \/ UNCHANGED <<l0, deeper>>
           \/ imm # {} /\ l0' = l0 + 1 /\ UNCHANGED deeper
           \/ imm # {} /\ deeper' = TRUE /\ UNCHANGED l0
        /\ UNCHANGED <<bg_error, faults>>
     \/ /\ IF closing = "open" THEN Fault ELSE UNCHANGED faults
        /\ bg_error' = TRUE
        /\ UNCHANGED <<imm, has_imm, flushed, l0, deeper>>
  /\ \/ /\ bgpc = "flush"
        /\ BackgroundCallEnd(pc, has_imm', manual, l0', deeper', bg_error')
     \/ /\ bgpc = "nestedflush"
        /\ bgpc' = "compact"
        /\ pc' = SignalAll(pc)
        /\ WakeDestructor
        /\ UNCHANGED scheduled
  /\ UNCHANGED <<kind, writeVars, mem, synced, job, inputs, keys, manual, done, rounds,
                 level, alive, late, before>>

\* DoCompactionWork ends with or without an error; the error is recorded.
CompactionResult(ok) ==
  IF ok
  THEN /\ l0' = l0 - inputs
       /\ deeper' \in (IF job = "deeper" THEN {FALSE} ELSE {deeper, TRUE})
       /\ UNCHANGED <<bg_error, faults>>
  ELSE /\ IF closing = "open" THEN Fault ELSE UNCHANGED faults
       /\ bg_error' = TRUE
       /\ UNCHANGED <<l0, deeper>>

\* The end of BackgroundCompaction.  A manual compaction is brought up to date
\* through manual_compaction_, which its caller may have withdrawn meanwhile.
CompactionDone ==
  /\ alive /\ mutex = None
  /\ bgpc = "compact"
  /\ \E ok \in BOOLEAN :
       /\ CompactionResult(ok)
       /\ \/ /\ job = "manual" /\ manual = None         \* m->done with m == NULL
             /\ alive' = FALSE
             /\ UNCHANGED <<pc, scheduled, bgpc, manual, done, rounds, closing>>
          \/ /\ job = "manual" /\ manual # None
             /\ rounds' = IF ok THEN [rounds EXCEPT ![manual] = @ - 1] ELSE rounds
             /\ done' = IF ok THEN done ELSE done \cup {manual}
             /\ manual' = None
             /\ BackgroundCallEnd(pc, has_imm, None, l0', deeper', bg_error')
             /\ UNCHANGED alive
          \/ /\ job # "manual"
             /\ BackgroundCallEnd(pc, has_imm, manual, l0', deeper', bg_error')
             /\ UNCHANGED <<manual, done, rounds, alive>>
  /\ job' = "none" /\ inputs' = 0 /\ keys' = 0
  /\ UNCHANGED <<kind, writeVars, mem, imm, has_imm, flushed, synced, level, late,
                 before>>

-----------------------------------------------------------------------------
(* The destructor, which the user calls when no other call is running.     *)

Close ==
  /\ alive /\ mutex = None
  /\ closing \in {"open", "woken"}
  /\ \A c \in Call : pc[c] \in {"idle", "returned"}
  /\ closing' = IF scheduled THEN "waiting" ELSE "closed"
  /\ UNCHANGED <<kind, pc, writeVars, tableVars, bgVars, level, faults, alive,
                 late, before>>

Terminated == (closing = "closed" \/ ~alive) /\ UNCHANGED vars

CallStep(c) ==
  \/ Write(c) \/ WakeUp(c)
  \/ RoomError(c) \/ RoomDelay(c) \/ RoomAgain(c) \/ RoomFound(c) \/ RoomWait(c)
  \/ RoomSwitch(c) \/ WriteLog(c) \/ FinishWrite(c)
  \/ CompactMemTableWait(c) \/ ManualCompactionLoop(c)

BackgroundStep ==
  BackgroundNothing \/ BackgroundStart \/ NestedFlush \/ FlushDone \/ CompactionDone

Next == (\E c \in Call : CallStep(c)) \/ BackgroundStep \/ Close \/ Terminated

\* Every thread keeps running while it is not waiting; nobody is obliged to
\* make a call or to close the database.
Fairness ==
  /\ \A c \in Call : WF_vars(CallStep(c) /\ pc[c] # "idle")
  /\ WF_vars(BackgroundStep)
  /\ WF_vars(Close /\ closing = "woken")

Spec == Init /\ [][Next]_vars /\ Fairness

-----------------------------------------------------------------------------
(* Properties.                                                             *)

TypeWrite ==
  /\ kind \in [Call -> Kind]
  /\ pc \in [Call -> PC]
  /\ status \in [Call -> {"none", "ok", "error"}]
  /\ mutex \in Call \cup {None}
  /\ writers \in Seq(Call)
  /\ force \in BOOLEAN /\ allow_delay \in BOOLEAN
  /\ group \in Seq(Call)
  /\ result \in {"ok", "error"} /\ sync_error \in BOOLEAN

TypeTables ==
  /\ mem \subseteq Call
  /\ imm \subseteq Call /\ has_imm \in BOOLEAN
  /\ flushed \subseteq Call /\ synced \subseteq Call
  /\ l0 \in Nat /\ deeper \in BOOLEAN

TypeBackground ==
  /\ bg_error \in BOOLEAN
  /\ scheduled \in BOOLEAN /\ bgpc \in BGPC
  /\ job \in {"none", "manual", "level0", "deeper"}
  /\ inputs \in Nat /\ keys \in Nat
  /\ manual \in Call \cup {None}
  /\ done \subseteq Call
  /\ rounds \in [Call -> Nat]

TypeRest ==
  /\ level \in [Call -> Nat]
  /\ closing \in CloseState
  /\ faults \in Nat /\ alive \in BOOLEAN
  /\ late \subseteq Call /\ before \in [Call -> SUBSET Call]

\* Every variable keeps its type; in particular no compaction takes more files
\* away from level 0 than there are.
TypeOK == TypeWrite /\ TypeTables /\ TypeBackground /\ TypeRest

\* No lost wake-up on w.cv: a writer asleep in the queue is never its head, so
\* somebody else is there to decide its write or to pass the lead on.
SleepersAreLed ==
  \A c \in Call : pc[c] = "queued" =>
    /\ c \in Members(writers)
    /\ c # Head(writers)

\* No lost wake-up on bg_cv_: whoever waits for background work waits for work
\* that is scheduled or running, the destructor included.
WaitersAreServed ==
  /\ \A c \in Call : pc[c] \in {"roomwait", "memwait", "manualwait"} => scheduled
  /\ closing = "waiting" => scheduled

\* Write tells the truth: a batch is in a memtable or a table exactly when its
\* call has been, or is about to be, answered with OK, whoever led its group.
AnsweredMeansApplied ==
  \A c \in Call : status[c] # "none" /\ HasBatch(c) =>
    (status[c] = "ok" <=> c \in InMemory \cup flushed)

\* A write with sync that is answered with OK was covered by a Sync, also when
\* another call led its group.
SyncMeansSynced ==
  \A c \in Call : status[c] = "ok" /\ kind[c] = "sync" => c \in synced

\* After a background error all future writes fail, as the comment in Write
\* promises for a failed Sync: a call made later is never answered with OK.
ErrorsAreSticky == \A c \in late : status[c] # "ok"

\* Level 0 never holds more than kL0_StopWritesTrigger files, counting the one
\* the memtable being flushed may still become.
Level0Bounded == l0 + (IF has_imm THEN 1 ELSE 0) <= L0Stop

\* The end of a manual compaction finds the ManualCompaction it worked for, so
\* the background thread never follows a null manual_compaction_.  A failing
\* Sync breaks this (see the README).
ManualCompactionPresent == alive

\* TEST_CompactMemTable forces the memtable's contents out: what was in memory
\* when CompactRange was called is in tables once it is past the flush.  The code
\* does not keep this (see the README).
CompactMemTableFlushes ==
  \A c \in Call :
    (pc[c] \in {"manual", "manualwait"} /\ status[c] = "ok" /\ ~bg_error)
      => before[c] \subseteq flushed

\* Every call of Write and CompactRange returns, whatever fails in the log, in
\* the tables or in a compaction, unless the process ends on the null
\* manual_compaction_ that ManualCompactionPresent is about.  A call is made once,
\* so this says that from some state on none is under way.
CallsReturn == <>[](alive => \A c \in Call : pc[c] \in {"idle", "returned"})

\* The destructor ends once it waits for the background call, also when that
\* call is cut short by the shutdown.
CloseEnds == closing = "waiting" ~> closing = "closed" \/ ~alive
=============================================================================
