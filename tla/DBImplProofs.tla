---------------------------- MODULE DBImplProofs ----------------------------
(***************************************************************************)
(* Proofs about DBImpl, for any number of callers, any memtable size and   *)
(* any level-0 limits.                                                     *)
(*                                                                         *)
(* The write queue works because its head is awake and everybody behind it *)
(* sleeps (QueueOK), and because the leader's group is a prefix of the     *)
(* queue that it put together before letting go of mutex_ (GroupOK).       *)
(* Level 0 is bounded because a flush only runs with imm_ set, and imm_ is *)
(* only set below the limit (FlushOK).  An answer tells the truth because  *)
(* a group is applied before any of its members is told (AppliedOK), and   *)
(* nobody waits in vain because the background thread is scheduled         *)
(* whenever it has something to do for a waiter (ServedOK).                *)
(***************************************************************************)
EXTENDS DBImpl, TLAPS, SequenceTheorems

\* The states of the call at the head of the queue, except "woken".
Leading == {"room", "delay", "roomwait", "roomwoken", "log", "relock", "finish"}

\* The head of the queue is awake or waits for room; everyone behind it sleeps
\* on w.cv with nothing decided.
QueueOK ==
  /\ \A i, j \in 1..Len(writers) : writers[i] = writers[j] => i = j
  /\ \A i \in 1..Len(writers) : i > 1 => pc[writers[i]] = "queued"
  /\ \A i \in 1..Len(writers) : i = 1 => pc[writers[i]] \in Leading \cup {"woken"}
  /\ \A i \in 1..Len(writers) : status[writers[i]] = "none"
  /\ \A c \in Call : pc[c] \in Leading \cup {"queued"} => c \in Members(writers)
  /\ \A c \in Call : pc[c] = "woken" /\ status[c] = "none" => c \in Members(writers)
  /\ \A c \in Call : pc[c] = "idle" => status[c] = "none"

\* What the leader knows of its group g with outcome r.
LeaderOK(c) ==
  /\ Len(group) \in 1..Len(writers)
  /\ \A i \in 1..Len(group) : group[i] = writers[i]
  /\ pc[c] = "finish" => Len(group) = 1 /\ (result = "ok" => kind[c] # "sync")
  /\ kind[c] # "sync" => \A i \in 1..Len(group) : kind[group[i]] # "sync"
  /\ pc[c] = "relock" /\ result = "ok" /\ kind[c] = "sync" => Members(group) \subseteq synced
  /\ result = "ok" => Members(group) \cap late = {}

\* The leader's group, while it has one.
GroupOK ==
  \A c \in Call : pc[c] \in {"log", "relock", "finish"} => LeaderOK(c)

\* Nobody is late without an error to be late for.
LateOK == late # {} => bg_error

\* A flush has a memtable to flush, a compaction has its inputs.
FlushOK ==
  /\ bgpc \in {"flush", "nestedflush"} => has_imm
  /\ inputs <= l0
  /\ Level0Bounded

\* A manual compaction at work has its ManualCompaction unless an error made
\* the caller withdraw it.
JobOK ==
  /\ manual # None => manual \notin done
  /\ bgpc \in {"compact", "nestedflush"} /\ job = "manual" =>
       IF manual = None THEN bg_error ELSE rounds[manual] > 0

\* The batches that reads find.
Stored == InMemory \cup flushed

\* What Write answers against what the tables hold: only a leader that has
\* written its log and not yet finished has batches stored that are undecided.
AppliedOK ==
  /\ AnsweredMeansApplied
  /\ has_imm \/ imm = {}
  /\ \A c \in Call : HasBatch(c) /\ status[c] = "none" /\ c \in Stored =>
       \E l \in Call : pc[l] = "relock" /\ result = "ok" /\ c \in Members(group)
  /\ \A l \in Call : pc[l] = "log" => result = "ok"
  /\ \A l \in Call : pc[l] = "relock" /\ result = "ok" =>
       \A w \in Members(group) : HasBatch(w) => w \in Stored
  /\ \A l \in Call : pc[l] = "finish" /\ result = "ok" => ~HasBatch(l)

\* Whoever could wait for background work waits for work that is scheduled:
\* MaybeScheduleCompaction has always been called since there was any.
ServedOK ==
  /\ scheduled <=> bgpc # "idle"
  /\ Schedulable(has_imm, manual, l0, deeper, bg_error) => scheduled
  /\ closing # "open" => \A c \in Call : pc[c] \in {"idle", "returned"}
  /\ WaitersAreServed

\* The inductive invariant.
IInv ==
  /\ TypeOK
  /\ QueueOK /\ GroupOK
  /\ LateOK /\ FlushOK /\ JobOK
  /\ SyncMeansSynced /\ ErrorsAreSticky
  /\ AppliedOK /\ ServedOK

-----------------------------------------------------------------------------
(* Signals.                                                                *)

\* bg_cv_.SignalAll moves nobody in or out of the write queue.
LEMMA SignalKeeps ==
  ASSUME NEW p \in [Call -> PC]
  PROVE  /\ SignalAll(p) \in [Call -> PC]
         /\ \A c \in Call : SignalAll(p)[c] \in Leading <=> p[c] \in Leading
         /\ \A c \in Call :
              \A s \in {"queued", "woken", "log", "relock", "finish", "idle", "returned"} :
                SignalAll(p)[c] = s <=> p[c] = s
BY DEF SignalAll, PC, Leading

\* A queue or a group of calls has calls for members.
LEMMA MembersType ==
  ASSUME NEW q \in Seq(Call) PROVE Members(q) \subseteq Call
BY DEF Members

\* Only the empty queue has length zero.
LEMMA EmptyLength == ASSUME NEW q \in Seq(Call) PROVE Len(q) = 0 <=> q = <<>>
OBVIOUS

-----------------------------------------------------------------------------
(* Types.                                                                  *)

\* The error count stays a number.
LEMMA FaultType ==
  ASSUME faults \in Nat, UNCHANGED faults \/ Fault PROVE faults' \in Nat
BY DEF Fault

\* A group of one is a sequence of calls.
LEMMA Singleton == ASSUME NEW c \in Call PROVE <<c>> \in Seq(Call)
OBVIOUS

\* A new DBImpl has the types TypeOK asks for.
LEMMA TypeInit == Init => TypeOK
<1> SUFFICES ASSUME Init PROVE TypeOK
  OBVIOUS
<1>1. TypeWrite
  <2>1. pc \in [Call -> PC] /\ status \in [Call -> {"none", "ok", "error"}] /\ kind \in [Call -> Kind]
    BY DEF Init, PC
  <2>2. <<>> \in Seq(Call)
    OBVIOUS
  <2> QED
    BY <2>1, <2>2 DEF Init, TypeWrite
<1>2. TypeTables
  BY DEF Init, TypeTables
<1>3. TypeBackground
  BY ConstantsAssumption DEF Init, TypeBackground, BGPC
<1>4. TypeRest
  BY DEF Init, TypeRest, CloseState
<1> QED
  BY <1>1, <1>2, <1>3, <1>4 DEF TypeOK

\* The end of BackgroundCall keeps the types of what it assigns.
LEMMA EndTypes ==
  ASSUME TypeOK,
         NEW i \in BOOLEAN, NEW m \in Call \cup {None}, NEW l, NEW d \in BOOLEAN, NEW e \in BOOLEAN,
         BackgroundCallEnd(pc, i, m, l, d, e)
  PROVE  /\ scheduled' \in BOOLEAN
         /\ bgpc' \in {"start", "idle"}
         /\ pc' = SignalAll(pc)
         /\ pc' \in [Call -> PC]
         /\ closing' \in CloseState
<1>1. scheduled' \in BOOLEAN /\ bgpc' \in {"start", "idle"}
  BY DEF BackgroundCallEnd, Schedulable
<1>2. pc' = SignalAll(pc) /\ pc' \in [Call -> PC]
  BY SignalKeeps DEF BackgroundCallEnd, TypeOK, TypeWrite
<1>3. closing' \in CloseState
  BY DEF BackgroundCallEnd, WakeDestructor, CloseState, TypeOK, TypeRest
<1> QED
  BY <1>1, <1>2, <1>3

\* Every step keeps the types, given what FlushOK and JobOK say of the
\* compaction in progress.
LEMMA TypeStep == TypeOK /\ FlushOK /\ JobOK /\ [Next]_vars => TypeOK'
<1> SUFFICES ASSUME TypeOK, FlushOK, JobOK, [Next]_vars PROVE TypeOK'
  OBVIOUS
<1> USE DEF TypeOK
<1>1. ASSUME NEW c \in Call, Write(c) PROVE TypeOK'
  <2>1. TypeWrite'
    <3>1. pc' \in [Call -> PC]
      BY <1>1 DEF Write, BecomeLeader, TypeWrite, PC
    <3>2. writers' \in Seq(Call) /\ mutex' \in Call \cup {None}
      BY <1>1 DEF Write, BecomeLeader, TypeWrite
    <3>3. force' \in BOOLEAN /\ allow_delay' \in BOOLEAN
      BY <1>1 DEF Write, BecomeLeader, TypeWrite, HasBatch
    <3> QED
      BY <1>1, <3>1, <3>2, <3>3 DEF Write, TypeWrite
  <2>2. TypeTables' /\ TypeBackground'
    BY <1>1 DEF Write, tableVars, bgVars, TypeTables, TypeBackground
  <2>3. TypeRest'
    BY <1>1 DEF Write, InMemory, TypeTables, TypeRest
  <2> QED
    BY <2>1, <2>2, <2>3
<1>2. ASSUME NEW c \in Call, WakeUp(c) PROVE TypeOK'
  <2>1. TypeWrite'
    <3>1. pc' \in [Call -> PC]
      BY <1>2 DEF WakeUp, BecomeLeader, AfterWrite, TypeWrite, PC
    <3>2. mutex' \in Call \cup {None} /\ force' \in BOOLEAN /\ allow_delay' \in BOOLEAN
      BY <1>2 DEF WakeUp, BecomeLeader, TypeWrite, HasBatch
    <3> QED
      BY <1>2, <3>1, <3>2 DEF WakeUp, TypeWrite
  <2> QED
    BY <1>2, <2>1
       DEF WakeUp, tableVars, bgVars, restVars, TypeTables, TypeBackground, TypeRest
<1>3. ASSUME NEW c \in Call, RoomError(c) \/ RoomDelay(c) \/ RoomAgain(c) \/ RoomWait(c)
      PROVE  TypeOK'
  <2>1. TypeWrite'
    <3>1. pc' \in [Call -> PC]
      BY <1>3 DEF RoomError, RoomDelay, RoomAgain, RoomWait, TypeWrite, PC
    <3>2. group' \in Seq(Call) /\ result' \in {"ok", "error"}
      BY <1>3, Singleton DEF RoomError, RoomDelay, RoomAgain, RoomWait, TypeWrite
    <3>3. mutex' \in Call \cup {None} /\ allow_delay' \in BOOLEAN
      BY <1>3 DEF RoomError, RoomDelay, RoomAgain, RoomWait, TypeWrite
    <3> QED
      BY <1>3, <3>1, <3>2, <3>3 DEF RoomError, RoomDelay, RoomAgain, RoomWait, TypeWrite
  <2>2. TypeTables' /\ TypeBackground' /\ TypeRest'
    BY <1>3 DEF RoomError, RoomDelay, RoomAgain, RoomWait, tableVars, bgVars, restVars,
                TypeTables, TypeBackground, TypeRest
  <2> QED
    BY <2>1, <2>2
<1>4. ASSUME NEW c \in Call, RoomFound(c) PROVE TypeOK'
  <2>1. group' \in Seq(Call)
    <3>1. ASSUME NEW i \in 1..Len(writers) PROVE SubSeq(writers, 1, i) \in Seq(Call)
      <4>1. \A j \in 1..i : writers[j] \in Call
        BY DEF TypeWrite
      <4> QED
        BY <4>1, SubSeqProperties
    <3> QED
      BY <1>4, <3>1, Singleton DEF RoomFound
  <2>2. pc' \in [Call -> PC] /\ mutex' \in Call \cup {None}
    BY <1>4 DEF RoomFound, TypeWrite, PC
  <2>3. TypeWrite'
    BY <1>4, <2>1, <2>2 DEF RoomFound, TypeWrite
  <2> QED
    BY <1>4, <2>3
       DEF RoomFound, tableVars, bgVars, restVars, TypeTables, TypeBackground, TypeRest
<1>5. ASSUME NEW c \in Call, RoomSwitch(c) PROVE TypeOK'
  <2>1. pc' \in [Call -> PC] /\ group' \in Seq(Call) /\ result' \in {"ok", "error"}
          /\ force' \in BOOLEAN
    <3>1. pc' \in [Call -> PC]
      BY <1>5 DEF RoomSwitch, TypeWrite, PC
    <3> QED
      BY <1>5, <3>1, Singleton DEF RoomSwitch, TypeWrite
  <2>2. TypeWrite'
    BY <1>5, <2>1 DEF RoomSwitch, TypeWrite
  <2>3. TypeTables'
    BY <1>5 DEF RoomSwitch, TypeTables
  <2>4. scheduled' \in BOOLEAN /\ bgpc' \in BGPC
    BY <1>5 DEF RoomSwitch, MaybeScheduleCompaction, Schedulable, TypeBackground, BGPC
  <2>5. TypeBackground'
    BY <1>5, <2>4 DEF RoomSwitch, TypeBackground
  <2>6. TypeRest'
    <3>1. UNCHANGED faults \/ Fault
      BY <1>5 DEF RoomSwitch
    <3>2. faults' \in Nat
      BY <3>1, FaultType DEF TypeRest
    <3> QED
      BY <1>5, <3>2 DEF RoomSwitch, TypeRest
  <2> QED
    BY <2>2, <2>3, <2>5, <2>6
<1>6. ASSUME NEW c \in Call, WriteLog(c) PROVE TypeOK'
  <2>1. pc' \in [Call -> PC] /\ result' \in {"ok", "error"} /\ sync_error' \in BOOLEAN
    BY <1>6 DEF WriteLog, TypeWrite, PC
  <2>2. TypeWrite'
    BY <1>6, <2>1 DEF WriteLog, TypeWrite
  <2>3. TypeTables'
    BY <1>6, MembersType DEF WriteLog, TypeTables, TypeWrite
  <2>4. TypeBackground' /\ TypeRest'
    BY <1>6 DEF WriteLog, Fault, bgVars, TypeBackground, TypeRest
  <2> QED
    BY <2>2, <2>3, <2>4
<1>7. ASSUME NEW c \in Call, FinishWrite(c) PROVE TypeOK'
  <2> DEFINE rest == SubSeq(writers, Len(group) + 1, Len(writers))
             woken == Members(group) \cup NewHead(rest)
             told == [x \in Call |-> IF x = c THEN AfterWrite(c, result)
                                     ELSE IF x \in woken THEN "woken" ELSE pc[x]]
  <2>1. rest \in Seq(Call)
    <3>1. \A j \in (Len(group) + 1)..Len(writers) : writers[j] \in Call
      BY DEF TypeWrite
    <3> QED
      BY <3>1, SubSeqProperties DEF TypeWrite
  <2>2. told \in [Call -> PC]
    BY DEF AfterWrite, TypeWrite, PC
  <2>3. pc' \in [Call -> PC]
    <3>1. pc' = told \/ pc' = SignalAll(told)
      BY <1>7 DEF FinishWrite
    <3> QED
      BY <2>2, <3>1, SignalKeeps
  <2>4. status' \in [Call -> {"none", "ok", "error"}]
    BY <1>7 DEF FinishWrite, TypeWrite
  <2>5. TypeWrite'
    <3>1. writers' = rest /\ mutex' = None /\ group' = <<>> /\ result' = "ok"
            /\ sync_error' = FALSE /\ force' = FALSE /\ allow_delay' = FALSE /\ UNCHANGED kind
      BY <1>7 DEF FinishWrite
    <3>2. <<>> \in Seq(Call)
      OBVIOUS
    <3> QED
      BY <2>1, <2>3, <2>4, <3>1, <3>2 DEF TypeWrite
  <2>6. TypeTables' /\ TypeBackground' /\ TypeRest'
    BY <1>7 DEF FinishWrite, tableVars, restVars, TypeTables, TypeBackground, TypeRest, TypeWrite
  <2> QED
    BY <2>5, <2>6
<1>8. ASSUME NEW c \in Call, CompactMemTableWait(c) PROVE TypeOK'
  <2>1. pc' \in [Call -> PC]
    BY <1>8 DEF CompactMemTableWait, TypeWrite, PC
  <2> QED
    BY <1>8, <2>1 DEF CompactMemTableWait, writeVars, tableVars, bgVars, restVars,
                      TypeWrite, TypeTables, TypeBackground, TypeRest
<1>9. ASSUME NEW c \in Call, ManualCompactionLoop(c) PROVE TypeOK'
  <2>1. pc' \in [Call -> PC]
    BY <1>9 DEF ManualCompactionLoop, TypeWrite, PC
  <2>2. manual' \in Call \cup {None} /\ done' \subseteq Call
    BY <1>9 DEF ManualCompactionLoop, InstallManual, TypeBackground
  <2>3. scheduled' \in BOOLEAN /\ bgpc' \in BGPC
    BY <1>9 DEF ManualCompactionLoop, InstallManual, MaybeScheduleCompaction, Schedulable,
                TypeBackground, BGPC
  <2>4. rounds' \in [Call -> Nat] /\ level' \in [Call -> Nat]
    BY <1>9, ConstantsAssumption DEF ManualCompactionLoop, TypeBackground, TypeRest
  <2> QED
    BY <1>9, <2>1, <2>2, <2>3, <2>4
       DEF ManualCompactionLoop, writeVars, tableVars, TypeWrite, TypeTables, TypeBackground, TypeRest
<1>10. CASE BackgroundNothing
  <2>1. manual' \in Call \cup {None} /\ done' \subseteq Call
    BY <1>10 DEF BackgroundNothing, TypeBackground
  <2>2. BackgroundCallEnd(pc, has_imm, manual', l0, deeper, bg_error)
    BY <1>10 DEF BackgroundNothing
  <2>3. scheduled' \in BOOLEAN /\ bgpc' \in {"start", "idle"} /\ pc' \in [Call -> PC]
          /\ closing' \in CloseState
    BY <2>1, <2>2, EndTypes DEF TypeTables, TypeBackground
  <2> QED
    BY <1>10, <2>1, <2>3 DEF BackgroundNothing, writeVars, tableVars, BGPC,
                             TypeWrite, TypeTables, TypeBackground, TypeRest
<1>11. CASE BackgroundStart
  <2>1. TypeBackground'
    BY <1>11, ConstantsAssumption DEF BackgroundStart, TypeBackground, TypeTables, BGPC
  <2> QED
    BY <1>11, <2>1 DEF BackgroundStart, writeVars, tableVars, restVars,
                       TypeWrite, TypeTables, TypeRest
<1>12. CASE NestedFlush
  <2>1. TypeBackground'
    BY <1>12 DEF NestedFlush, TypeBackground, BGPC
  <2> QED
    BY <1>12, <2>1 DEF NestedFlush, writeVars, tableVars, restVars,
                       TypeWrite, TypeTables, TypeRest
<1>13. CASE FlushDone
  <2>1. TypeTables' /\ bg_error' \in BOOLEAN /\ faults' \in Nat
    <3>1. faults' \in Nat /\ bg_error' \in BOOLEAN
      <4>1. UNCHANGED faults \/ Fault
        BY <1>13 DEF FlushDone
      <4> QED
        BY <1>13, <4>1, FaultType DEF FlushDone, TypeBackground, TypeRest
    <3>2. l0' \in Nat /\ deeper' \in BOOLEAN
      <4>1. l0' = l0 \/ l0' = l0 + 1
        BY <1>13 DEF FlushDone
      <4>2. deeper' \in BOOLEAN
        BY <1>13 DEF FlushDone, TypeTables
      <4> QED
        BY <4>1, <4>2 DEF TypeTables
    <3>3. imm' \subseteq Call /\ has_imm' \in BOOLEAN /\ flushed' \subseteq Call
      BY <1>13 DEF FlushDone, TypeTables
    <3> QED
      BY <1>13, <3>1, <3>2, <3>3 DEF FlushDone, TypeTables
  <2>2. scheduled' \in BOOLEAN /\ bgpc' \in BGPC /\ pc' \in [Call -> PC] /\ closing' \in CloseState
    <3>1. CASE BackgroundCallEnd(pc, has_imm', manual, l0', deeper', bg_error')
      BY <2>1, <3>1, EndTypes DEF TypeTables, TypeBackground, BGPC
    <3>2. CASE /\ bgpc' = "compact" /\ pc' = SignalAll(pc)
               /\ WakeDestructor /\ UNCHANGED scheduled
      BY <3>2, SignalKeeps DEF TypeWrite, TypeBackground, TypeRest, WakeDestructor, CloseState, BGPC
    <3> QED
      BY <1>13, <3>1, <3>2 DEF FlushDone
  <2> QED
    BY <1>13, <2>1, <2>2 DEF FlushDone, writeVars, TypeWrite, TypeBackground, TypeRest
<1>14. CASE CompactionDone
  <2>1. PICK ok \in BOOLEAN : /\ CompactionResult(ok)
                              /\ done' = done \/ (manual # None /\ done' = done \cup {manual})
                              /\ rounds' = rounds \/ (/\ job = "manual" /\ manual # None
                                                      /\ rounds' = [rounds EXCEPT ![manual] = @ - 1])
    BY <1>14 DEF CompactionDone
  <2>2. bg_error' \in BOOLEAN /\ faults' \in Nat
    <3>1. UNCHANGED faults \/ Fault
      BY <2>1 DEF CompactionResult
    <3> QED
      BY <2>1, <3>1, FaultType DEF CompactionResult, TypeBackground, TypeRest
  <2>3. l0' \in Nat
    <3>1. l0' = l0 \/ l0' = l0 - inputs
      BY <2>1 DEF CompactionResult
    <3> QED
      BY <3>1 DEF FlushOK, TypeTables, TypeBackground
  <2>4. deeper' \in BOOLEAN
    BY <2>1 DEF CompactionResult, TypeTables
  <2>5. TypeTables'
    BY <1>14, <2>3, <2>4 DEF CompactionDone, TypeTables
  <2>6. manual' \in {manual, None} /\ done' \subseteq Call /\ alive' \in BOOLEAN
    BY <1>14, <2>1 DEF CompactionDone, TypeBackground, TypeRest
  <2>7. rounds' \in [Call -> Nat]
    <3>1. ASSUME job = "manual", manual # None PROVE manual \in Call /\ rounds[manual] - 1 \in Nat
      BY <1>14, <3>1 DEF CompactionDone, JobOK, TypeBackground
    <3> QED
      BY <2>1, <3>1 DEF TypeBackground
  <2>8. /\ scheduled' \in BOOLEAN /\ bgpc' \in BGPC
        /\ pc' \in [Call -> PC] /\ closing' \in CloseState
    <3>1. CASE UNCHANGED <<pc, scheduled, bgpc, closing>>
      BY <3>1 DEF TypeWrite, TypeBackground, TypeRest
    <3>2. ASSUME NEW m \in {manual, None}, BackgroundCallEnd(pc, has_imm, m, l0', deeper', bg_error')
          PROVE  /\ scheduled' \in BOOLEAN /\ bgpc' \in BGPC
                 /\ pc' \in [Call -> PC] /\ closing' \in CloseState
      BY <2>2, <2>4, <3>2, EndTypes DEF TypeTables, TypeBackground, BGPC
    <3> QED
      BY <1>14, <3>1, <3>2 DEF CompactionDone
  <2>9. TypeBackground'
    BY <1>14, <2>2, <2>6, <2>7, <2>8 DEF CompactionDone, TypeBackground
  <2> QED
    BY <1>14, <2>2, <2>5, <2>6, <2>8, <2>9 DEF CompactionDone, writeVars, TypeWrite, TypeRest
<1>15. CASE Close
  BY <1>15 DEF Close, writeVars, tableVars, bgVars, TypeWrite, TypeTables, TypeBackground,
               TypeRest, CloseState
<1>16. CASE UNCHANGED vars
  BY <1>16 DEF vars, writeVars, tableVars, bgVars, restVars,
               TypeWrite, TypeTables, TypeBackground, TypeRest
<1> QED
  BY <1>1, <1>2, <1>3, <1>4, <1>5, <1>6, <1>7, <1>8, <1>9, <1>10, <1>11, <1>12, <1>13,
     <1>14, <1>15, <1>16
     DEF Next, CallStep, BackgroundStep, Terminated

-----------------------------------------------------------------------------
(* Level 0 and the compaction in progress.                                 *)

\* Every step keeps the bound on level 0: a table is only added for the imm_
\* that was counted when MakeRoomForWrite set it.
LEMMA FlushStep == TypeOK /\ FlushOK /\ [Next]_vars => FlushOK'
<1> SUFFICES ASSUME TypeOK, FlushOK, [Next]_vars PROVE FlushOK'
  OBVIOUS
<1>t. /\ l0 \in Nat /\ inputs \in Nat /\ L0Stop \in Nat
      /\ has_imm \in BOOLEAN
  BY ConstantsAssumption DEF TypeOK, TypeTables, TypeBackground
<1>1. ASSUME UNCHANGED <<l0, inputs, has_imm, bgpc>> PROVE FlushOK'
  BY <1>1 DEF FlushOK, Level0Bounded
<1>2. ASSUME NEW c \in Call, CallStep(c), ~RoomSwitch(c), ~ManualCompactionLoop(c) PROVE FlushOK'
  BY <1>1, <1>2 DEF CallStep, Write, WakeUp, RoomError, RoomDelay, RoomAgain, RoomFound, RoomWait,
                    WriteLog, FinishWrite, CompactMemTableWait, tableVars, bgVars
<1>3. ASSUME NEW c \in Call, RoomSwitch(c) PROVE FlushOK'
  <2>1. UNCHANGED <<l0, inputs>> /\ bgpc' \in {bgpc, "start"}
    BY <1>3 DEF RoomSwitch, MaybeScheduleCompaction
  <2>2. CASE UNCHANGED has_imm
    BY <1>t, <2>1, <2>2 DEF FlushOK, Level0Bounded
  <2>3. CASE ~MustWait /\ has_imm' = TRUE
    <3>1. l0 < L0Stop /\ l0' = l0
      BY <1>t, <2>1, <2>3 DEF MustWait
    <3> QED
      BY <1>t, <2>1, <2>3, <3>1 DEF FlushOK, Level0Bounded
  <2> QED
    BY <1>3, <2>2, <2>3 DEF RoomSwitch
<1>4. ASSUME NEW c \in Call, ManualCompactionLoop(c) PROVE FlushOK'
  <2>1. UNCHANGED <<l0, inputs, has_imm>> /\ bgpc' \in {bgpc, "start"}
    BY <1>4 DEF ManualCompactionLoop, InstallManual, MaybeScheduleCompaction, tableVars
  <2> QED
    BY <2>1 DEF FlushOK, Level0Bounded
<1>5. CASE BackgroundNothing
  BY <1>5 DEF BackgroundNothing, BackgroundCallEnd, tableVars, FlushOK, Level0Bounded
<1>6. CASE BackgroundStart
  <2>1. UNCHANGED <<l0, has_imm>> /\ ((bgpc' = "flush" /\ has_imm) \/ bgpc' = "compact")
    BY <1>6 DEF BackgroundStart, tableVars
  <2>2. inputs' <= l0
    BY <1>t, <1>6 DEF BackgroundStart, FlushOK
  <2> QED
    BY <2>1, <2>2 DEF FlushOK, Level0Bounded
<1>7. CASE NestedFlush
  BY <1>7 DEF NestedFlush, tableVars, FlushOK, Level0Bounded
<1>8. CASE FlushDone
  <2>1. /\ has_imm
        /\ inputs' = inputs
        /\ bgpc' \in {"start", "idle", "compact"}
    BY <1>8 DEF FlushDone, BackgroundCallEnd, FlushOK
  <2>2. \/ UNCHANGED <<l0, has_imm>>
        \/ has_imm' = FALSE /\ l0' = l0
        \/ has_imm' = FALSE /\ l0' = l0 + 1
    BY <1>8 DEF FlushDone
  <2>3. l0 + 1 <= L0Stop /\ inputs <= l0
    BY <1>t, <2>1 DEF FlushOK, Level0Bounded
  <2>4. inputs' <= l0'
    <3>1. inputs' = inputs /\ (l0' = l0 \/ l0' = l0 + 1)
      BY <2>1, <2>2
    <3>2. l0 \in Nat /\ inputs \in Nat /\ inputs <= l0
      BY <1>t, <2>3
    <3> QED
      BY <3>1, <3>2
  <2>5. l0' <= L0Stop /\ (has_imm' => l0' + 1 <= L0Stop)
    BY <1>t, <2>2, <2>3
  <2>6. l0' \in Nat
    BY <1>t, <2>2
  <2>7. Level0Bounded'
    BY <2>5, <2>6 DEF Level0Bounded
  <2> QED
    BY <2>1, <2>4, <2>7 DEF FlushOK
<1>9. CASE CompactionDone
  <2>1. /\ UNCHANGED has_imm /\ inputs' = 0
        /\ bgpc = "compact" /\ bgpc' \in {"start", "idle", "compact"}
    BY <1>9 DEF CompactionDone, BackgroundCallEnd
  <2>2. l0' = l0 \/ l0' = l0 - inputs
    BY <1>9 DEF CompactionDone, CompactionResult
  <2> QED
    BY <1>t, <2>1, <2>2 DEF FlushOK, Level0Bounded
<1>10. CASE Close \/ UNCHANGED vars
  BY <1>1, <1>10 DEF Close, vars, tableVars, bgVars
<1> QED
  BY <1>2, <1>3, <1>4, <1>5, <1>6, <1>7, <1>8, <1>9, <1>10 DEF Next, BackgroundStep, Terminated

\* Every step keeps the manual compaction consistent: only an error lets the
\* caller of TEST_CompactRange withdraw it while it runs.
LEMMA JobStep == TypeOK /\ JobOK /\ [Next]_vars => JobOK'
<1> SUFFICES ASSUME TypeOK, JobOK, [Next]_vars PROVE JobOK'
  OBVIOUS
<1>t. /\ bg_error \in BOOLEAN /\ done \subseteq Call /\ manual \in Call \cup {None}
      /\ rounds \in [Call -> Nat] /\ None \notin Call
  BY ConstantsAssumption DEF TypeOK, TypeBackground
<1>1. ASSUME UNCHANGED <<manual, done, job, rounds>>, bgpc' \in {bgpc, "start", "idle"},
             bg_error => bg_error'
      PROVE  JobOK'
  BY <1>1 DEF JobOK
<1>2. ASSUME NEW c \in Call, CallStep(c), ~ManualCompactionLoop(c) PROVE JobOK'
  <2>1. UNCHANGED <<manual, done, job, rounds>> /\ bgpc' \in {bgpc, "start"}
    BY <1>2 DEF CallStep, Write, WakeUp, RoomError, RoomDelay, RoomAgain, RoomFound, RoomWait,
                RoomSwitch, MaybeScheduleCompaction, WriteLog, FinishWrite, CompactMemTableWait,
                bgVars
  <2>2. bg_error => bg_error'
    BY <1>2 DEF CallStep, Write, WakeUp, RoomError, RoomDelay, RoomAgain, RoomFound, RoomWait,
                RoomSwitch, WriteLog, FinishWrite, CompactMemTableWait, bgVars
  <2> QED
    BY <1>1, <2>1, <2>2
<1>3. ASSUME NEW c \in Call, ManualCompactionLoop(c) PROVE JobOK'
  <2>1. UNCHANGED <<job, bg_error>> /\ bgpc' \in {bgpc, "start"}
    BY <1>3 DEF ManualCompactionLoop, InstallManual, MaybeScheduleCompaction
  <2>2. CASE ManualEnds(c)
    <3>1. /\ manual' = IF manual = c THEN None ELSE manual
          /\ done' = done \ {c}
          /\ rounds' = [rounds EXCEPT ![c] = ManualRounds]
      BY <1>3, <2>2 DEF ManualCompactionLoop
    <3>2. manual = c => bg_error
      BY <1>t, <2>2 DEF ManualEnds, JobOK
    <3>3. manual # c /\ manual # None => rounds'[manual] = rounds[manual]
      BY <1>t, <3>1
    <3> QED
      BY <1>t, <2>1, <3>1, <3>2, <3>3 DEF JobOK
  <2>3. CASE ~ManualEnds(c)
    <3>1. /\ UNCHANGED <<done, rounds>>
          /\ manual' = manual \/ (manual = None /\ manual' = c)
      <4>1. /\ UNCHANGED <<done, rounds>>
            /\ (manual = None /\ InstallManual(c)) \/ UNCHANGED manual
        BY <1>3, <2>3 DEF ManualCompactionLoop
      <4> QED
        BY <4>1 DEF InstallManual
    <3>2. c \notin done /\ ~bg_error
      BY <2>3 DEF ManualEnds
    <3> QED
      BY <1>t, <2>1, <3>1, <3>2 DEF JobOK
  <2> QED
    BY <2>2, <2>3
<1>4. CASE BackgroundNothing
  <2>1. bgpc' \in {"start", "idle"} /\ (manual' = None \/ UNCHANGED <<manual, done>>)
    BY <1>4 DEF BackgroundNothing, BackgroundCallEnd
  <2> QED
    BY <2>1 DEF JobOK
<1>5. CASE BackgroundStart
  <2>1. UNCHANGED <<manual, done, rounds, bg_error>>
    BY <1>5 DEF BackgroundStart
  <2>2. bgpc' = "flush" \/ (bgpc' = "compact" /\ (job' = "manual" => manual # None /\ rounds[manual] > 0))
    BY <1>5 DEF BackgroundStart
  <2> QED
    BY <2>1, <2>2 DEF JobOK
<1>6. CASE NestedFlush
  BY <1>6 DEF NestedFlush, JobOK
<1>7. CASE FlushDone
  <2>1. UNCHANGED <<manual, done, job, rounds>> /\ (bg_error => bg_error')
    BY <1>7 DEF FlushDone
  <2>2. bgpc' \in {"start", "idle"} \/ (bgpc = "nestedflush" /\ bgpc' = "compact")
    BY <1>7 DEF FlushDone, BackgroundCallEnd
  <2> QED
    BY <2>1, <2>2 DEF JobOK
<1>8. CASE CompactionDone
  <2>1. job' = "none"
    BY <1>8 DEF CompactionDone
  <2>2. manual' = None \/ UNCHANGED <<manual, done>>
    BY <1>8 DEF CompactionDone
  <2> QED
    BY <2>1, <2>2 DEF JobOK
<1>9. CASE Close \/ UNCHANGED vars
  BY <1>1, <1>9 DEF Close, vars, bgVars
<1> QED
  BY <1>2, <1>3, <1>4, <1>5, <1>6, <1>7, <1>8, <1>9 DEF Next, BackgroundStep, Terminated

-----------------------------------------------------------------------------
(* The write queue.                                                        *)

\* The part of IInv about the write queue.
QueueInv == QueueOK /\ GroupOK /\ LateOK /\ SyncMeansSynced /\ ErrorsAreSticky

\* A call in MakeRoomForWrite or past it is the head of the queue.
LEMMA HeadLeads ==
  ASSUME TypeOK, QueueOK, NEW c \in Call, pc[c] \in Leading
  PROVE  1 \in 1..Len(writers) /\ writers[1] = c
<1>1. PICK i \in 1..Len(writers) : writers[i] = c
  BY DEF QueueOK, Members
<1>2. Len(writers) \in Nat
  BY DEF TypeOK, TypeWrite
<1>3. i = 1
  BY <1>1, <1>2 DEF QueueOK, Leading
<1> QED
  BY <1>1, <1>2, <1>3

\* A step that leaves the queue, the outcome of the group and the history
\* alone, and moves nobody in or out of the states the invariant speaks of.
LEMMA QueueStable ==
  ASSUME QueueInv,
         UNCHANGED <<kind, status, writers, group, result, late>>,
         synced \subseteq synced', bg_error => bg_error',
         \A c \in Call : pc'[c] \in Leading <=> pc[c] \in Leading,
         \A c \in Call : \A s \in {"queued", "woken", "log", "relock", "finish", "idle"} :
           pc'[c] = s <=> pc[c] = s,
         writers \in Seq(Call)
  PROVE  QueueInv'
<1> USE DEF QueueInv
<1>1. QueueOK'
  <2>1. \A i \in 1..Len(writers) : writers[i] \in Call
    OBVIOUS
  <2> QED
    BY <2>1 DEF QueueOK, Members
<1>2. GroupOK'
  <2> SUFFICES ASSUME NEW c \in Call, pc'[c] \in {"log", "relock", "finish"} PROVE LeaderOK(c)'
    BY DEF GroupOK
  <2>1. LeaderOK(c)
    BY DEF GroupOK
  <2> QED
    BY <2>1 DEF LeaderOK, Members
<1>3. LateOK' /\ SyncMeansSynced' /\ ErrorsAreSticky'
  BY DEF LateOK, SyncMeansSynced, ErrorsAreSticky
<1> QED
  BY <1>1, <1>2, <1>3

\* A new DBImpl has an empty queue.
LEMMA QueueInit == Init => QueueInv
<1> SUFFICES ASSUME Init PROVE QueueInv
  OBVIOUS
<1>1. writers = <<>> /\ Len(writers) = 0 /\ late = {}
  BY DEF Init
<1>2. \A c \in Call : pc[c] = "idle" /\ status[c] = "none"
  BY DEF Init
<1> QED
  BY <1>1, <1>2 DEF QueueInv, QueueOK, GroupOK, LateOK, SyncMeansSynced, ErrorsAreSticky, Leading

\* Joining the queue in Write keeps the queue invariant.
LEMMA QueueWrite ==
  ASSUME TypeOK, QueueInv, NEW c \in Call, Write(c) PROVE QueueInv'
<1> USE DEF QueueInv
<1>1. pc[c] = "idle" /\ status[c] = "none"
  BY DEF Write, QueueOK
<1>2. writers \in Seq(Call) /\ Len(writers) \in Nat /\ group \in Seq(Call) /\ pc \in [Call -> PC]
  BY DEF TypeOK, TypeWrite
<1>3. c \notin Members(writers)
  BY <1>1, <1>2 DEF QueueOK, Members, Leading
<1>4. /\ Len(writers') = Len(writers) + 1
      /\ writers'[Len(writers) + 1] = c
      /\ \A i \in 1..Len(writers) : writers'[i] = writers[i]
  BY <1>2 DEF Write
<1>5. /\ \A x \in Call : x # c => pc'[x] = pc[x]
      /\ Len(writers) = 0 => pc'[c] = "room"
      /\ Len(writers) # 0 => pc'[c] = "queued"
      /\ UNCHANGED <<kind, status, group, result, synced, bg_error>>
      /\ late' \in {late, late \cup {c}} /\ (late' # late => bg_error)
  <2>1. UNCHANGED <<kind, status, group, result, synced, bg_error>>
    BY DEF Write, tableVars, bgVars
  <2>2. late' \in {late, late \cup {c}} /\ (late' # late => bg_error)
    BY DEF Write
  <2>3. (writers = <<>> /\ pc' = [pc EXCEPT ![c] = "room"])
          \/ (writers # <<>> /\ pc' = [pc EXCEPT ![c] = "queued"])
    BY DEF Write, BecomeLeader
  <2>4. writers = <<>> <=> Len(writers) = 0
    BY <1>2
  <2> QED
    BY <1>2, <2>1, <2>2, <2>3, <2>4
<1>6. \A i \in 1..Len(writers) : writers[i] \in Call /\ writers[i] # c
  BY <1>2, <1>3 DEF Members
<1>7. QueueOK'
  <2>1. \A i, j \in 1..Len(writers') : writers'[i] = writers'[j] => i = j
    BY <1>2, <1>4, <1>6 DEF QueueOK
  <2>2. \A i \in 1..Len(writers') : i > 1 => pc'[writers'[i]] = "queued"
    BY <1>2, <1>4, <1>5, <1>6 DEF QueueOK
  <2>3. \A i \in 1..Len(writers') : i = 1 => pc'[writers'[i]] \in Leading \cup {"woken"}
    BY <1>2, <1>4, <1>5, <1>6 DEF QueueOK, Leading
  <2>4. \A i \in 1..Len(writers') : status'[writers'[i]] = "none"
    BY <1>1, <1>2, <1>4, <1>5, <1>6 DEF QueueOK
  <2>5. \A x \in Members(writers) \cup {c} : x \in Members(writers')
    BY <1>2, <1>4 DEF Members
  <2>6. \A x \in Call : pc'[x] \in Leading \cup {"queued"} => x \in Members(writers')
    BY <1>5, <2>5 DEF QueueOK
  <2>7. \A x \in Call : pc'[x] = "woken" /\ status'[x] = "none" => x \in Members(writers')
    BY <1>5, <2>5 DEF QueueOK
  <2>8. \A x \in Call : pc'[x] = "idle" => status'[x] = "none"
    BY <1>1, <1>5 DEF QueueOK
  <2> QED
    BY <2>1, <2>2, <2>3, <2>4, <2>6, <2>7, <2>8 DEF QueueOK
<1>8. GroupOK'
  <2> SUFFICES ASSUME NEW x \in Call, pc'[x] \in {"log", "relock", "finish"} PROVE LeaderOK(x)'
    BY DEF GroupOK
  <2>1. x # c /\ pc'[x] = pc[x]
    BY <1>5
  <2>2. LeaderOK(x)
    BY <2>1 DEF GroupOK
  <2>3. Len(group') \in 1..Len(writers') /\ \A i \in 1..Len(group') : group'[i] = writers'[i]
    BY <1>2, <1>4, <1>5, <2>2 DEF LeaderOK
  <2>4. c \notin Members(group)
    BY <1>2, <1>6, <2>2 DEF LeaderOK, Members
  <2> QED
    BY <1>5, <2>1, <2>2, <2>3, <2>4 DEF LeaderOK, Members
<1>9. LateOK' /\ SyncMeansSynced' /\ ErrorsAreSticky'
  BY <1>1, <1>5 DEF LateOK, SyncMeansSynced, ErrorsAreSticky
<1> QED
  BY <1>7, <1>8, <1>9

\* Leaving the wait on w.cv keeps the queue invariant.
LEMMA QueueWakeUp ==
  ASSUME TypeOK, QueueInv, NEW c \in Call, WakeUp(c) PROVE QueueInv'
<1> USE DEF QueueInv
<1>1. writers \in Seq(Call) /\ Len(writers) \in Nat /\ pc \in [Call -> PC] /\ pc[c] = "woken"
  BY DEF TypeOK, TypeWrite, WakeUp
<1>2. UNCHANGED <<kind, status, writers, group, result, synced, bg_error, late>>
  BY DEF WakeUp, tableVars, bgVars, restVars
<1>3. /\ \A x \in Call : x # c => pc'[x] = pc[x]
      /\ \/ status[c] # "none" /\ pc'[c] \in {"returned", "memcheck", "manual"}
         \/ status[c] = "none" /\ pc'[c] = "room"
  BY <1>1 DEF WakeUp, BecomeLeader, AfterWrite
<1>4. \A i \in 1..Len(writers) : writers[i] \in Call
  BY <1>1
<1>5. QueueOK'
  <2>1. \A i \in 1..Len(writers) : writers[i] = c => i = 1 /\ status[c] = "none"
    BY <1>1 DEF QueueOK
  <2>2. \A i \in 1..Len(writers) : i > 1 => pc'[writers[i]] = "queued"
    BY <1>3, <1>4, <2>1 DEF QueueOK
  <2>3. \A i \in 1..Len(writers) : i = 1 => pc'[writers[i]] \in Leading \cup {"woken"}
    BY <1>3, <1>4, <2>1 DEF QueueOK, Leading
  <2>4. \A x \in Call : pc'[x] \in Leading \cup {"queued"} => x \in Members(writers)
    BY <1>1, <1>3 DEF QueueOK, Leading
  <2>5. \A x \in Call : pc'[x] = "woken" /\ status[x] = "none" => x \in Members(writers)
    BY <1>3 DEF QueueOK
  <2>6. \A x \in Call : pc'[x] = "idle" => status[x] = "none"
    BY <1>3 DEF QueueOK
  <2> QED
    BY <1>2, <2>2, <2>3, <2>4, <2>5, <2>6 DEF QueueOK, Members
<1>6. GroupOK'
  <2> SUFFICES ASSUME NEW x \in Call, pc'[x] \in {"log", "relock", "finish"} PROVE LeaderOK(x)'
    BY DEF GroupOK
  <2>1. pc'[x] = pc[x]
    BY <1>3
  <2>2. LeaderOK(x)
    BY <2>1 DEF GroupOK
  <2> QED
    BY <1>2, <2>1, <2>2 DEF LeaderOK, Members
<1>7. LateOK' /\ SyncMeansSynced' /\ ErrorsAreSticky'
  BY <1>2 DEF LateOK, SyncMeansSynced, ErrorsAreSticky
<1> QED
  BY <1>5, <1>6, <1>7

\* The leader gets its outcome in MakeRoomForWrite: c goes from "room" to "log"
\* with a group of writers from the front of the queue, or to "finish" alone.
LEMMA QueueRoom ==
  ASSUME TypeOK, QueueInv, NEW c \in Call, pc[c] = "room",
         UNCHANGED <<kind, status, writers, synced, bg_error, late>>,
         NEW s \in {"log", "finish"}, pc' = [pc EXCEPT ![c] = s],
         NEW n \in 1..Len(writers),
         Len(group') = n, \A i \in 1..n : group'[i] = writers[i],
         s = "finish" => n = 1 /\ (result' = "ok" => kind[c] # "sync"),
         kind[c] # "sync" => \A i \in 1..n : kind[writers[i]] # "sync",
         result' = "ok" => late = {}
  PROVE  QueueInv'
<1> USE DEF QueueInv
<1>1. writers[1] = c
  BY HeadLeads DEF Leading
<1>2. /\ \A x \in Call : x # c => pc'[x] = pc[x]
      /\ pc'[c] = s
      /\ \A i \in 1..Len(writers) : writers[i] \in Call
  BY DEF TypeOK, TypeWrite
<1>3. QueueOK'
  <2>1. \A i \in 1..Len(writers) : i > 1 => pc'[writers[i]] = "queued"
    BY <1>1, <1>2 DEF QueueOK
  <2>2. \A i \in 1..Len(writers) : i = 1 => pc'[writers[i]] \in Leading \cup {"woken"}
    BY <1>1, <1>2 DEF Leading
  <2>3. \A x \in Call : pc'[x] \in Leading \cup {"queued"} => x \in Members(writers)
    BY <1>2 DEF QueueOK, Leading
  <2>4. \A x \in Call : pc'[x] = "woken" /\ status[x] = "none" => x \in Members(writers)
    BY <1>2 DEF QueueOK
  <2>5. \A x \in Call : pc'[x] = "idle" => status[x] = "none"
    BY <1>2 DEF QueueOK
  <2> QED
    BY <2>1, <2>2, <2>3, <2>4, <2>5 DEF QueueOK, Members
<1>4. GroupOK'
  <2> SUFFICES ASSUME NEW x \in Call, pc'[x] \in {"log", "relock", "finish"} PROVE LeaderOK(x)'
    BY DEF GroupOK
  <2>1. x = c
    <3>1. x # c => pc[x] \in Leading
      BY <1>2 DEF Leading
    <3> QED
      BY <1>1, <3>1, HeadLeads
  <2>2. Len(group') \in 1..Len(writers')
    OBVIOUS
  <2>3. \A i \in 1..Len(group') : group'[i] = writers'[i]
    OBVIOUS
  <2>4. pc'[x] = s /\ s # "relock"
    BY <1>2, <2>1
  <2>5. kind'[x] # "sync" => \A i \in 1..Len(group') : kind'[group'[i]] # "sync"
    BY <2>1
  <2>6. pc'[x] = "finish" => Len(group') = 1 /\ (result' = "ok" => kind'[x] # "sync")
    BY <2>1, <2>4
  <2>7. result' = "ok" => Members(group)' \cap late' = {}
    OBVIOUS
  <2> QED
    BY <2>2, <2>3, <2>4, <2>5, <2>6, <2>7 DEF LeaderOK
<1>5. LateOK' /\ SyncMeansSynced' /\ ErrorsAreSticky'
  BY DEF LateOK, SyncMeansSynced, ErrorsAreSticky
<1> QED
  BY <1>3, <1>4, <1>5

\* MakeRoomForWrite ends for the leader alone, in an error or for the null
\* batch of CompactRange.
LEMMA QueueRoomFails ==
  ASSUME TypeOK, QueueInv, NEW c \in Call, pc[c] = "room",
         UNCHANGED <<kind, status, writers, synced, bg_error, late>>,
         pc' = [pc EXCEPT ![c] = "finish"],
         group' = <<c>>, result' = "ok" => late = {} /\ kind[c] # "sync"
  PROVE  QueueInv'
<1>1. 1 \in 1..Len(writers) /\ writers[1] = c
  BY HeadLeads DEF Leading, QueueInv
<1>2. Len(group') = 1 /\ \A i \in 1..1 : group'[i] = writers[i]
  BY <1>1
<1>3. kind[c] # "sync" => \A i \in 1..1 : kind[writers[i]] # "sync"
  BY <1>1
<1> QED
  BY <1>1, <1>2, <1>3, QueueRoom

\* BuildBatchGroup keeps the queue invariant: it takes a prefix of the queue,
\* and no sync write behind a non-sync leader.
LEMMA QueueRoomFound ==
  ASSUME TypeOK, QueueInv, NEW c \in Call, RoomFound(c) PROVE QueueInv'
<1>1. /\ UNCHANGED <<kind, status, writers, synced, bg_error, late>>
      /\ pc[c] = "room" /\ result' = "ok"
  BY DEF RoomFound, InRoom, tableVars, bgVars, restVars
<1>2. late = {}
  BY DEF RoomFound, QueueInv, LateOK
<1>3. CASE ~HasBatch(c)
  <2>1. group' = <<c>> /\ pc' = [pc EXCEPT ![c] = "finish"]
    BY <1>3 DEF RoomFound
  <2>2. kind[c] # "sync"
    BY <1>3 DEF HasBatch
  <2> QED
    BY <1>1, <1>2, <2>1, <2>2, QueueRoomFails
<1>4. CASE HasBatch(c)
  <2>1. PICK n \in 1..Len(writers) : GroupEnds(n) /\ group' = SubSeq(writers, 1, n)
    BY <1>4 DEF RoomFound
  <2>2. pc' = [pc EXCEPT ![c] = "log"]
    BY <1>4 DEF RoomFound
  <2>3. 1 \in 1..Len(writers) /\ writers[1] = c
    BY <1>1, HeadLeads DEF Leading, QueueInv
  <2>4. Len(group') = n /\ \A i \in 1..n : group'[i] = writers[i]
    <3>1. writers \in Seq(Call) /\ Len(writers) \in Nat
      BY DEF TypeOK, TypeWrite
    <3> QED
      BY <2>1, <3>1, SubSeqProperties
  <2>5. kind[c] # "sync" => \A i \in 1..n : kind[writers[i]] # "sync"
    BY <2>1, <2>3 DEF GroupEnds
  <2> QED
    BY <1>1, <1>2, <2>2, <2>4, <2>5, QueueRoom
<1> QED
  BY <1>3, <1>4

\* The log write keeps the queue invariant: an OK of a sync leader covers its
\* whole group.
LEMMA QueueWriteLog ==
  ASSUME TypeOK, QueueInv, NEW c \in Call, WriteLog(c) PROVE QueueInv'
<1> USE DEF QueueInv
<1>1. /\ UNCHANGED <<kind, status, writers, group, bg_error, late>>
      /\ pc[c] = "log" /\ pc' = [pc EXCEPT ![c] = "relock"]
      /\ synced \subseteq synced'
  BY DEF WriteLog, bgVars
<1>2. \/ result' = result /\ (kind[c] = "sync" => synced' = synced \cup Members(group))
      \/ result' = "error"
  BY DEF WriteLog
<1>3. writers[1] = c
  BY <1>1, HeadLeads DEF Leading
<1>4. /\ \A x \in Call : x # c => pc'[x] = pc[x]
      /\ pc'[c] = "relock"
      /\ \A i \in 1..Len(writers) : writers[i] \in Call
  BY <1>1 DEF TypeOK, TypeWrite
<1>5. QueueOK'
  <2>1. \A i \in 1..Len(writers) : i > 1 => pc'[writers[i]] = "queued"
    BY <1>1, <1>3, <1>4 DEF QueueOK
  <2>2. \A i \in 1..Len(writers) : i = 1 => pc'[writers[i]] \in Leading \cup {"woken"}
    BY <1>3, <1>4 DEF Leading
  <2>3. \A x \in Call : pc'[x] \in Leading \cup {"queued"} => x \in Members(writers)
    BY <1>1, <1>4 DEF QueueOK, Leading
  <2>4. \A x \in Call : pc'[x] = "woken" /\ status[x] = "none" => x \in Members(writers)
    BY <1>4 DEF QueueOK
  <2>5. \A x \in Call : pc'[x] = "idle" => status[x] = "none"
    BY <1>4 DEF QueueOK
  <2> QED
    BY <1>1, <2>1, <2>2, <2>3, <2>4, <2>5 DEF QueueOK, Members
<1>6. GroupOK'
  <2> SUFFICES ASSUME NEW x \in Call, pc'[x] \in {"log", "relock", "finish"} PROVE LeaderOK(x)'
    BY DEF GroupOK
  <2>1. x = c
    <3>1. x # c => pc[x] \in Leading
      BY <1>4 DEF Leading
    <3> QED
      BY <1>3, <3>1, HeadLeads
  <2>2. LeaderOK(c)
    BY <1>1 DEF GroupOK
  <2>3. Members(group)' = Members(group)
    BY <1>1 DEF Members
  <2>4. result' = "ok" => result = "ok" /\ (kind[c] = "sync" => Members(group) \subseteq synced')
    BY <1>2
  <2> QED
    BY <1>1, <1>4, <2>1, <2>2, <2>3, <2>4 DEF LeaderOK
<1>7. LateOK' /\ SyncMeansSynced' /\ ErrorsAreSticky'
  BY <1>1 DEF LateOK, SyncMeansSynced, ErrorsAreSticky
<1> QED
  BY <1>5, <1>6, <1>7

\* Taking the group off the queue keeps the queue invariant: the new head is
\* woken and everyone behind it still sleeps with nothing decided.
LEMMA QueueFinishWrite ==
  ASSUME TypeOK, QueueInv, NEW c \in Call, FinishWrite(c) PROVE QueueInv'
<1> USE DEF QueueInv
<1> DEFINE g == Len(group)
           n == Len(writers)
           rest == SubSeq(writers, g + 1, n)
           woken == Members(group) \cup NewHead(rest)
           told == [x \in Call |-> IF x = c THEN AfterWrite(c, result)
                                   ELSE IF x \in woken THEN "woken" ELSE pc[x]]
<1>1. /\ writers \in Seq(Call) /\ n \in Nat /\ group \in Seq(Call) /\ g \in Nat
      /\ pc \in [Call -> PC] /\ result \in {"ok", "error"}
      /\ \A i \in 1..n : writers[i] \in Call
  BY DEF TypeOK, TypeWrite
<1>2. pc[c] \in {"relock", "finish"} /\ LeaderOK(c)
  BY DEF FinishWrite, GroupOK
<1>3. writers[1] = c
  BY <1>2, HeadLeads DEF Leading
<1>4. g \in 1..n /\ Members(group) = {writers[i] : i \in 1..g}
  BY <1>1, <1>2 DEF LeaderOK, Members
<1>5. /\ writers' = rest /\ Len(rest) = n - g
      /\ \A i \in 1..(n - g) : rest[i] = writers[g + i]
  <2>1. writers' = rest
    BY DEF FinishWrite
  <2>2. \A i \in (g + 1)..n : writers[i] \in Call
    BY <1>1
  <2>3. Len(rest) = n - g
    BY <1>1, <1>4, <2>2, SubSeqProperties
  <2>4. \A i \in 1..(n - g) : rest[i] = writers[g + i]
    BY <1>1, <1>4, <2>2, <2>3, SubSeqProperties
  <2> QED
    BY <2>1, <2>3, <2>4
<1>6. /\ told \in [Call -> PC]
      /\ pc' = told \/ pc' = SignalAll(told)
  <2>1. told \in [Call -> PC]
    BY <1>1 DEF AfterWrite, PC
  <2>2. pc' = told \/ pc' = SignalAll(told)
    BY DEF FinishWrite
  <2> QED
    BY <2>1, <2>2
<1>7. \A x \in Call : /\ pc'[x] \in Leading <=> told[x] \in Leading
                      /\ \A s \in {"queued", "woken", "log", "relock", "finish", "idle", "returned"} :
                           pc'[x] = s <=> told[x] = s
  <2> HIDE DEF told
  <2> QED
    BY <1>6, SignalKeeps
<1>8. AfterWrite(c, result) \notin Leading \cup {"queued", "woken", "idle"}
  BY DEF AfterWrite, Leading
<1>9. /\ \A x \in Call : status'[x] = IF x \in Members(group) THEN result ELSE status[x]
      /\ UNCHANGED <<kind, synced, late>>
      /\ bg_error => bg_error'
  BY DEF FinishWrite, tableVars, restVars
<1>10. \A i \in 1..(n - g) : writers[g + i] \notin Members(group) /\ writers[g + i] # c
  <2>1. \A i, j \in 1..n : writers[i] = writers[j] => i = j
    BY DEF QueueOK
  <2> QED
    BY <1>1, <1>3, <1>4, <2>1
<1>11. \A x \in Call : x \in Members(writers) /\ x \notin Members(group) => x \in Members(rest)
  <2> SUFFICES ASSUME NEW x \in Call, x \in Members(writers), x \notin Members(group)
               PROVE  x \in Members(rest)
    OBVIOUS
  <2>1. PICK k \in 1..n : writers[k] = x
    BY DEF Members
  <2>2. k > g
    BY <1>1, <1>4, <2>1
  <2>3. k - g \in 1..(n - g) /\ g + (k - g) = k
    BY <1>1, <2>2
  <2>4. rest[k - g] = x
    BY <1>5, <2>1, <2>3
  <2> QED
    BY <1>5, <2>3, <2>4 DEF Members
<1>12. Len(rest) = 0 <=> rest = <<>>
  <2>1. \A i \in (g + 1)..n : writers[i] \in Call
    BY <1>1
  <2>2. rest \in Seq(Call)
    BY <1>1, <2>1, SubSeqProperties
  <2> HIDE DEF rest
  <2> QED
    BY <2>2, EmptyLength
<1>13. /\ \A x \in NewHead(rest) : x = rest[1] /\ x \in Members(rest)
       /\ n - g > 0 => rest[1] \in NewHead(rest)
  <2>1. CASE rest = <<>>
    BY <1>5, <1>12, <2>1 DEF NewHead
  <2>2. CASE rest # <<>>
    <3>1. NewHead(rest) = {rest[1]}
      BY <2>2 DEF NewHead
    <3>2. 1 \in 1..Len(rest)
      BY <1>1, <1>4, <1>5, <1>12, <2>2
    <3> QED
      BY <3>1, <3>2 DEF Members
  <2> QED
    BY <2>1, <2>2
<1>14. QueueOK'
  <2>1. \A i, j \in 1..Len(writers') : writers'[i] = writers'[j] => i = j
    <3> SUFFICES ASSUME NEW i \in 1..(n - g), NEW j \in 1..(n - g), writers[g + i] = writers[g + j]
                 PROVE  i = j
      BY <1>5
    <3>1. g + i \in 1..n /\ g + j \in 1..n
      BY <1>1, <1>4
    <3>2. g + i = g + j
      BY <3>1 DEF QueueOK
    <3> QED
      BY <1>1, <3>2
  <2>2. \A i \in 1..Len(writers') : i > 1 => pc'[writers'[i]] = "queued"
    <3> SUFFICES ASSUME NEW i \in 1..(n - g), i > 1 PROVE pc'[rest[i]] = "queued"
      BY <1>5
    <3>1. g + i \in 1..n /\ g + i > 1 /\ 1 \in 1..(n - g) /\ g + 1 \in 1..n
      BY <1>1, <1>4
    <3>2. pc[writers[g + i]] = "queued"
      BY <3>1 DEF QueueOK
    <3>3. writers[g + i] # writers[g + 1]
      BY <1>1, <3>1 DEF QueueOK
    <3>4. writers[g + i] \notin NewHead(rest)
      BY <1>5, <1>13, <3>1, <3>3
    <3>5. told[writers[g + i]] = "queued" /\ writers[g + i] \in Call
      BY <1>1, <1>10, <3>1, <3>2, <3>4
    <3> QED
      BY <1>5, <1>7, <3>5
  <2>3. \A i \in 1..Len(writers') : i = 1 => pc'[writers'[i]] \in Leading \cup {"woken"}
    <3> SUFFICES ASSUME 1 \in 1..(n - g) PROVE pc'[rest[1]] = "woken"
      BY <1>5
    <3>1. rest[1] \in NewHead(rest) /\ rest[1] = writers[g + 1] /\ g + 1 \in 1..n
      BY <1>1, <1>4, <1>5, <1>13
    <3>2. told[rest[1]] = "woken" /\ rest[1] \in Call
      BY <1>1, <1>10, <3>1
    <3> QED
      BY <1>7, <3>2
  <2>4. \A i \in 1..Len(writers') : status'[writers'[i]] = "none"
    <3>1. \A i \in 1..(n - g) : status'[writers[g + i]] = "none"
      <4> SUFFICES ASSUME NEW i \in 1..(n - g) PROVE status'[writers[g + i]] = "none"
        OBVIOUS
      <4>1. g + i \in 1..n
        BY <1>1, <1>4
      <4> QED
        BY <1>1, <1>9, <1>10, <4>1 DEF QueueOK
    <3>2. Len(writers') = n - g /\ \A i \in 1..(n - g) : writers'[i] = writers[g + i]
      BY <1>5
    <3> HIDE DEF g, n, rest, woken, told
    <3> QED
      BY <3>1, <3>2
  <2>5. \A x \in Call : pc'[x] \in Leading \cup {"queued"} => x \in Members(rest)
    <3> SUFFICES ASSUME NEW x \in Call, pc'[x] \in Leading \cup {"queued"} PROVE x \in Members(rest)
      OBVIOUS
    <3>1. told[x] \in Leading \cup {"queued"}
      BY <1>7
    <3>2. x # c /\ x \notin woken /\ pc[x] \in Leading \cup {"queued"}
      BY <1>8, <3>1 DEF Leading
    <3> QED
      BY <1>11, <3>2 DEF QueueOK
  <2>6. \A x \in Call : pc'[x] = "woken" /\ status'[x] = "none" => x \in Members(rest)
    <3> SUFFICES ASSUME NEW x \in Call, pc'[x] = "woken", status'[x] = "none" PROVE x \in Members(rest)
      OBVIOUS
    <3>1. told[x] = "woken"
      BY <1>7
    <3>2. x \notin Members(group) /\ status[x] = "none"
      BY <1>1, <1>9
    <3>3. x # c
      BY <1>8, <3>1
    <3>4. x \in NewHead(rest) \/ pc[x] = "woken"
      BY <3>1, <3>2, <3>3
    <3> QED
      BY <1>11, <1>13, <3>2, <3>4 DEF QueueOK
  <2>7. \A x \in Call : pc'[x] = "idle" => status'[x] = "none"
    <3> SUFFICES ASSUME NEW x \in Call, pc'[x] = "idle" PROVE status'[x] = "none"
      OBVIOUS
    <3>1. told[x] = "idle"
      BY <1>7
    <3>2. x \notin woken /\ pc[x] = "idle"
      BY <1>8, <3>1
    <3> QED
      BY <1>9, <3>2 DEF QueueOK
  <2>8. Members(writers)' = Members(rest)
    BY <1>5 DEF Members
  <2> HIDE DEF told, rest, woken, n, g
  <2> QED
    BY <2>1, <2>2, <2>3, <2>4, <2>5, <2>6, <2>7, <2>8 DEF QueueOK
<1>15. GroupOK'
  <2> SUFFICES ASSUME NEW x \in Call, pc'[x] \in {"log", "relock", "finish"} PROVE FALSE
    BY DEF GroupOK
  <2>1. told[x] \in {"log", "relock", "finish"}
    BY <1>7
  <2>2. x # c /\ x \notin woken /\ pc[x] \in Leading
    BY <1>8, <2>1 DEF Leading
  <2> QED
    BY <1>3, <2>2, HeadLeads
<1>16. SyncMeansSynced'
  <2> SUFFICES ASSUME NEW x \in Call, status'[x] = "ok", kind[x] = "sync" PROVE x \in synced
    BY <1>9 DEF SyncMeansSynced
  <2>1. CASE x \notin Members(group)
    BY <1>9, <2>1 DEF SyncMeansSynced
  <2>2. CASE x \in Members(group)
    <3>1. result = "ok"
      BY <1>9, <2>2
    <3>2. kind[c] = "sync"
      BY <1>2, <2>2 DEF LeaderOK, Members
    <3>3. pc[c] = "relock"
      BY <1>2, <3>1, <3>2 DEF LeaderOK
    <3> QED
      BY <1>2, <2>2, <3>1, <3>2, <3>3 DEF LeaderOK
  <2> QED
    BY <2>1, <2>2
<1>17. LateOK' /\ ErrorsAreSticky'
  <2>1. LateOK'
    BY <1>9 DEF LateOK
  <2>2. ErrorsAreSticky'
    BY <1>2, <1>9 DEF ErrorsAreSticky, LeaderOK, TypeOK, TypeRest
  <2> QED
    BY <2>1, <2>2
<1> QED
  BY <1>14, <1>15, <1>16, <1>17

\* Every step keeps the queue invariant.
LEMMA QueueStep == TypeOK /\ QueueInv /\ [Next]_vars => QueueInv'
<1> SUFFICES ASSUME TypeOK, QueueInv, [Next]_vars PROVE QueueInv'
  OBVIOUS
<1>t. pc \in [Call -> PC] /\ writers \in Seq(Call)
  BY DEF TypeOK, TypeWrite
<1>1. ASSUME NEW c \in Call, Write(c) \/ WakeUp(c) \/ RoomFound(c) \/ WriteLog(c) \/ FinishWrite(c)
      PROVE  QueueInv'
  BY <1>1, QueueWrite, QueueWakeUp, QueueRoomFound, QueueWriteLog, QueueFinishWrite
<1>2. ASSUME NEW c \in Call, RoomError(c) PROVE QueueInv'
  <2>1. /\ pc[c] = "room" /\ pc' = [pc EXCEPT ![c] = "finish"]
        /\ group' = <<c>> /\ result' = "error"
        /\ UNCHANGED <<kind, status, writers, synced, bg_error, late>>
    BY <1>2 DEF RoomError, InRoom, tableVars, bgVars, restVars
  <2> QED
    BY <2>1, QueueRoomFails
\* c moves between two states of the leader, or of a call past its write.
<1>3. ASSUME NEW c \in Call, NEW s, pc' = [pc EXCEPT ![c] = s],
             \/ pc[c] \in {"room", "delay", "roomwoken"} /\ s \in {"room", "delay", "roomwait"}
             \/ pc[c] \in {"memcheck", "manual"}
                  /\ s \in {"memwait", "manual", "manualwait", "returned"},
             UNCHANGED <<kind, status, writers, group, result, synced, bg_error, late>>
      PROVE  QueueInv'
  <2>1. \A x \in Call : pc'[x] \in Leading <=> pc[x] \in Leading
    BY <1>t, <1>3 DEF Leading
  <2>2. \A x \in Call : \A r \in {"queued", "woken", "log", "relock", "finish", "idle"} :
          pc'[x] = r <=> pc[x] = r
    BY <1>t, <1>3
  <2> QED
    BY <1>t, <1>3, <2>1, <2>2, QueueStable
<1>4. ASSUME NEW c \in Call, RoomDelay(c) \/ RoomAgain(c) \/ RoomWait(c) PROVE QueueInv'
  <2>1. UNCHANGED <<kind, status, writers, group, result, synced, bg_error, late>>
    BY <1>4 DEF RoomDelay, RoomAgain, RoomWait, tableVars, bgVars, restVars
  <2>2. PICK s \in {"room", "delay", "roomwait"} : pc' = [pc EXCEPT ![c] = s]
    BY <1>4 DEF RoomDelay, RoomAgain, RoomWait
  <2>3. pc[c] \in {"room", "delay", "roomwoken"}
    BY <1>4 DEF RoomDelay, RoomAgain, RoomWait, InRoom
  <2> QED
    BY <1>3, <2>1, <2>2, <2>3
<1>5. ASSUME NEW c \in Call, RoomSwitch(c) PROVE QueueInv'
  <2>1. UNCHANGED <<kind, status, writers, synced, bg_error, late>> /\ pc[c] = "room"
    BY <1>5 DEF RoomSwitch, InRoom
  <2>2. CASE UNCHANGED <<pc, group, result>>
    BY <1>t, <2>1, <2>2, QueueStable
  <2>3. CASE pc' = [pc EXCEPT ![c] = "finish"] /\ group' = <<c>> /\ result' = "error"
    BY <2>1, <2>3, QueueRoomFails
  <2> QED
    BY <1>5, <2>2, <2>3 DEF RoomSwitch
<1>6. ASSUME NEW c \in Call, CompactMemTableWait(c) \/ ManualCompactionLoop(c) PROVE QueueInv'
  <2>1. UNCHANGED <<kind, status, writers, group, result, synced, bg_error, late>>
    BY <1>6 DEF CompactMemTableWait, ManualCompactionLoop, writeVars, tableVars, bgVars, restVars
  <2>2. PICK s \in {"memwait", "manual", "manualwait", "returned"} : pc' = [pc EXCEPT ![c] = s]
    BY <1>6 DEF CompactMemTableWait, ManualCompactionLoop
  <2>3. pc[c] \in {"memcheck", "manual"}
    BY <1>6 DEF CompactMemTableWait, ManualCompactionLoop
  <2> QED
    BY <1>3, <2>1, <2>2, <2>3
\* The background thread and the destructor.
<1>7. ASSUME pc' \in {pc, SignalAll(pc)}, UNCHANGED <<kind, writeVars, synced, late>>,
             bg_error => bg_error'
      PROVE  QueueInv'
  <2>1. \A x \in Call : pc'[x] \in Leading <=> pc[x] \in Leading
    BY <1>t, <1>7, SignalKeeps
  <2>2. \A x \in Call : \A r \in {"queued", "woken", "log", "relock", "finish", "idle"} :
          pc'[x] = r <=> pc[x] = r
    BY <1>t, <1>7, SignalKeeps
  <2>3. UNCHANGED <<kind, status, writers, group, result, late>> /\ synced \subseteq synced'
    BY <1>7 DEF writeVars
  <2> QED
    BY <1>t, <1>7, <2>1, <2>2, <2>3, QueueStable
<1>8. ASSUME BackgroundStep PROVE QueueInv'
  <2>1. pc' \in {pc, SignalAll(pc)}
    BY <1>8 DEF BackgroundStep, BackgroundNothing, BackgroundStart, NestedFlush, FlushDone,
                CompactionDone, BackgroundCallEnd
  <2>2. UNCHANGED <<kind, writeVars, synced, late>>
    BY <1>8 DEF BackgroundStep, BackgroundNothing, BackgroundStart, NestedFlush, FlushDone,
                CompactionDone, tableVars, restVars
  <2>3. bg_error => bg_error'
    BY <1>8 DEF BackgroundStep, BackgroundNothing, BackgroundStart, NestedFlush, FlushDone,
                CompactionDone, CompactionResult
  <2> QED
    BY <1>7, <2>1, <2>2, <2>3
<1>9. CASE Close \/ UNCHANGED vars
  BY <1>7, <1>9 DEF Close, vars, tableVars, bgVars, restVars
<1> QED
  BY <1>1, <1>2, <1>4, <1>5, <1>6, <1>8, <1>9 DEF Next, CallStep, Terminated

-----------------------------------------------------------------------------
(* What is stored and what is answered.                                    *)

\* A step that stores nothing, decides nothing and moves no leader.
LEMMA AppliedStable ==
  ASSUME AppliedOK,
         UNCHANGED <<kind, status, group, result>>, Stored' = Stored,
         has_imm' \/ imm' = {},
         \A c \in Call : \A s \in {"log", "relock", "finish"} : pc'[c] = s <=> pc[c] = s
  PROVE  AppliedOK'
<1>1. Members(group)' = Members(group) /\ \A c : HasBatch(c)' <=> HasBatch(c)
  BY DEF Members, HasBatch
<1>2. AnsweredMeansApplied'
  BY <1>1 DEF AppliedOK, AnsweredMeansApplied, Stored
<1>3. \A c \in Call : HasBatch(c)' /\ status'[c] = "none" /\ c \in Stored' =>
        \E l \in Call : pc'[l] = "relock" /\ result' = "ok" /\ c \in Members(group)'
  BY <1>1 DEF AppliedOK
<1>4. \A l \in Call : pc'[l] = "log" => result' = "ok"
  BY DEF AppliedOK
<1>5. \A l \in Call : pc'[l] = "relock" /\ result' = "ok" =>
        \A w \in Members(group)' : HasBatch(w)' => w \in Stored'
  BY <1>1 DEF AppliedOK
<1>6. \A l \in Call : pc'[l] = "finish" /\ result' = "ok" => ~HasBatch(l)'
  BY <1>1 DEF AppliedOK
<1> QED
  BY <1>2, <1>3, <1>4, <1>5, <1>6 DEF AppliedOK

\* There is one leader: whoever is in MakeRoomForWrite or past it.
LEMMA OneLeader ==
  ASSUME TypeOK, QueueOK, NEW c \in Call, pc[c] \in Leading, NEW l \in Call, pc[l] \in Leading
  PROVE  l = c
BY HeadLeads

\* MakeRoomForWrite stores nothing, and gives its outcome to the leader alone.
LEMMA AppliedRoom ==
  ASSUME TypeOK, QueueOK, AppliedOK, NEW c \in Call, pc[c] = "room",
         UNCHANGED <<kind, status, mem, imm, has_imm, flushed>>,
         NEW s \in {"log", "finish"}, pc' = [pc EXCEPT ![c] = s],
         s = "log" => result' = "ok",
         s = "finish" /\ result' = "ok" => ~HasBatch(c)
  PROVE  AppliedOK'
<1>1. Stored' = Stored /\ \A x : HasBatch(x)' <=> HasBatch(x)
  BY DEF Stored, InMemory, HasBatch
<1>2. \A x \in Call : pc'[x] = IF x = c THEN s ELSE pc[x]
  BY DEF TypeOK, TypeWrite
<1>3. \A l \in Call : pc[l] \notin {"log", "relock", "finish"}
  BY OneLeader DEF Leading
<1>4. AnsweredMeansApplied'
  BY <1>1 DEF AppliedOK, AnsweredMeansApplied, Stored
<1>5. \A x \in Call : HasBatch(x)' /\ status'[x] = "none" => x \notin Stored'
  BY <1>1, <1>3 DEF AppliedOK
<1>6. \A l \in Call : pc'[l] # "relock" /\ (pc'[l] \in {"log", "finish"} => l = c /\ pc'[l] = s)
  BY <1>2, <1>3
<1> QED
  BY <1>1, <1>4, <1>5, <1>6 DEF AppliedOK

\* A group's members are in the queue, with nothing decided.
LEMMA GroupUndecided ==
  ASSUME TypeOK, QueueInv, NEW c \in Call, pc[c] \in {"log", "relock", "finish"}
  PROVE  \A x \in Members(group) : x \in Call /\ status[x] = "none"
<1>1. LeaderOK(c)
  BY DEF QueueInv, GroupOK
<1>2. writers \in Seq(Call) /\ Len(writers) \in Nat /\ group \in Seq(Call) /\ Len(group) \in Nat
  BY DEF TypeOK, TypeWrite
<1>3. \A i \in 1..Len(group) : i \in 1..Len(writers) /\ group[i] = writers[i]
  BY <1>1, <1>2 DEF LeaderOK
<1>4. \A i \in 1..Len(group) : group[i] \in Call /\ status[group[i]] = "none"
  BY <1>2, <1>3 DEF QueueInv, QueueOK
<1> QED
  BY <1>4 DEF Members

\* The leader's log write stores its group's batches or fails.
LEMMA AppliedWriteLog ==
  ASSUME TypeOK, QueueInv, AppliedOK, NEW c \in Call, WriteLog(c) PROVE AppliedOK'
<1>1. /\ pc[c] = "log" /\ pc' = [pc EXCEPT ![c] = "relock"]
      /\ UNCHANGED <<kind, status, group, imm, has_imm, flushed>>
  BY DEF WriteLog
<1>2. \A x \in Call : pc'[x] = IF x = c THEN "relock" ELSE pc[x]
  BY <1>1 DEF TypeOK, TypeWrite
<1>3. \A l \in Call : pc[l] \in {"log", "relock", "finish"} => l = c
  BY <1>1, OneLeader DEF Leading, QueueInv
<1>4. \A x : HasBatch(x)' <=> HasBatch(x)
  BY <1>1 DEF HasBatch
<1>5. Members(group)' = Members(group)
  BY <1>1 DEF Members
<1>6. \A x \in Call : HasBatch(x) /\ status[x] = "none" => x \notin Stored
  BY <1>1, <1>3 DEF AppliedOK
<1>7. \A l \in Call : pc'[l] \notin {"log", "finish"} /\ (pc'[l] = "relock" => l = c)
  BY <1>2, <1>3
<1>8. CASE mem' = mem \cup {w \in Members(group) : HasBatch(w)} /\ UNCHANGED result
  <2>1. result' = "ok"
    BY <1>1, <1>8 DEF AppliedOK
  <2>2. Stored' = Stored \cup {w \in Members(group) : HasBatch(w)}
    BY <1>1, <1>8 DEF Stored, InMemory
  <2>3. \A x \in Members(group) : status[x] = "none"
    BY <1>1, GroupUndecided
  <2>4. AnsweredMeansApplied'
    <3> SUFFICES ASSUME NEW x \in Call, status[x] # "none", HasBatch(x)
                 PROVE  status[x] = "ok" <=> x \in Stored'
      BY <1>1, <1>4 DEF AnsweredMeansApplied, Stored
    <3>1. x \in Stored' <=> x \in Stored
      BY <2>2, <2>3
    <3> QED
      BY <3>1 DEF AppliedOK, AnsweredMeansApplied, Stored
  <2>5. \A x \in Call : HasBatch(x)' /\ status'[x] = "none" /\ x \in Stored' =>
          pc'[c] = "relock" /\ result' = "ok" /\ x \in Members(group)'
    BY <1>1, <1>2, <1>4, <1>5, <1>6, <2>1, <2>2
  <2>6. \A w \in Members(group)' : HasBatch(w)' => w \in Stored'
    BY <1>4, <1>5, <2>2
  <2>7. has_imm' \/ imm' = {}
    BY <1>1 DEF AppliedOK
  <2> QED
    BY <1>7, <2>1, <2>4, <2>5, <2>6, <2>7 DEF AppliedOK
<1>9. CASE mem' = mem /\ result' = "error"
  <2>1. Stored' = Stored
    BY <1>1, <1>9 DEF Stored, InMemory
  <2>2. AnsweredMeansApplied'
    BY <1>1, <1>4, <2>1 DEF AppliedOK, AnsweredMeansApplied, Stored
  <2>3. \A x \in Call : HasBatch(x)' /\ status'[x] = "none" => x \notin Stored'
    BY <1>1, <1>4, <1>6, <2>1
  <2>4. has_imm' \/ imm' = {}
    BY <1>1 DEF AppliedOK
  <2> QED
    BY <1>7, <1>9, <2>2, <2>3, <2>4 DEF AppliedOK
<1> QED
  BY <1>8, <1>9 DEF WriteLog

\* The end of Write leaves no leader behind: the next one is only woken.
LEMMA FinishLeaves ==
  ASSUME TypeOK, QueueInv, NEW c \in Call, FinishWrite(c)
  PROVE  \A x \in Call : pc'[x] \notin {"log", "relock", "finish"}
<1> DEFINE rest == SubSeq(writers, Len(group) + 1, Len(writers))
           woken == Members(group) \cup NewHead(rest)
           told == [x \in Call |-> IF x = c THEN AfterWrite(c, result)
                                   ELSE IF x \in woken THEN "woken" ELSE pc[x]]
<1>1. pc[c] \in {"relock", "finish"}
  BY DEF FinishWrite
<1>2. \A x \in Call : x # c => pc[x] \notin {"log", "relock", "finish"}
  BY <1>1, OneLeader DEF Leading, QueueInv
<1>3. AfterWrite(c, result) \in {"returned", "memcheck", "manual"}
  BY DEF AfterWrite
<1>4. \A x \in Call : told[x] \notin {"log", "relock", "finish"}
  BY <1>2, <1>3
<1>5. told \in [Call -> PC]
  BY <1>3 DEF PC, TypeOK, TypeWrite
<1>6. pc' = told \/ pc' = SignalAll(told)
  BY DEF FinishWrite
<1> HIDE DEF told
<1> QED
  BY <1>4, <1>5, <1>6, SignalKeeps

\* The answer given to every member of the group is the truth about its batch.
LEMMA AppliedFinishWrite ==
  ASSUME TypeOK, QueueInv, AppliedOK, NEW c \in Call, FinishWrite(c) PROVE AppliedOK'
<1>1. pc[c] \in {"relock", "finish"} /\ LeaderOK(c)
  BY DEF FinishWrite, QueueInv, GroupOK
<1>2. /\ UNCHANGED <<kind, mem, imm, has_imm, flushed>>
      /\ \A x \in Call : status'[x] = IF x \in Members(group) THEN result ELSE status[x]
  BY DEF FinishWrite, tableVars
<1>3. Stored' = Stored /\ \A x : HasBatch(x)' <=> HasBatch(x)
  BY <1>2 DEF Stored, InMemory, HasBatch
<1>4. \A x \in Members(group) : x \in Call /\ status[x] = "none"
  BY <1>1, GroupUndecided
<1>5. \A x \in Members(group) : HasBatch(x) => (result = "ok" <=> x \in Stored)
  <2> SUFFICES ASSUME NEW x \in Members(group), HasBatch(x) PROVE result = "ok" <=> x \in Stored
    OBVIOUS
  <2>1. x \in Stored => result = "ok"
    BY <1>4 DEF AppliedOK
  <2>2. ASSUME result = "ok" PROVE x \in Stored
    <3>1. CASE pc[c] = "relock"
      BY <2>2, <3>1 DEF AppliedOK
    <3>2. CASE pc[c] = "finish"
      <4>1. Len(group) = 1 /\ group[1] = writers[1]
        BY <1>1, <3>2 DEF LeaderOK
      <4>2. writers[1] = c
        BY <3>2, HeadLeads DEF Leading, QueueInv
      <4>3. x = c
        BY <4>1, <4>2 DEF Members
      <4> QED
        BY <2>2, <3>2, <4>3 DEF AppliedOK
    <3> QED
      BY <1>1, <3>1, <3>2
  <2> QED
    BY <2>1, <2>2
<1>6. result \in {"ok", "error"}
  BY DEF TypeOK, TypeWrite
<1>7. AnsweredMeansApplied'
  <2> SUFFICES ASSUME NEW x \in Call, status'[x] # "none", HasBatch(x)
               PROVE  status'[x] = "ok" <=> x \in Stored
    BY <1>3 DEF AnsweredMeansApplied, Stored
  <2>1. CASE x \in Members(group)
    BY <1>2, <1>5, <2>1
  <2>2. CASE x \notin Members(group)
    BY <1>2, <2>2 DEF AppliedOK, AnsweredMeansApplied, Stored
  <2> QED
    BY <2>1, <2>2
<1>8. \A x \in Call : HasBatch(x)' /\ status'[x] = "none" => x \notin Stored'
  <2> SUFFICES ASSUME NEW x \in Call, HasBatch(x), status'[x] = "none", x \in Stored PROVE FALSE
    BY <1>3
  <2>1. x \notin Members(group) /\ status[x] = "none"
    BY <1>2, <1>6
  <2> QED
    BY <2>1 DEF AppliedOK
<1>9. \A x \in Call : pc'[x] \notin {"log", "relock", "finish"}
  BY FinishLeaves
<1> QED
  BY <1>2, <1>7, <1>8, <1>9 DEF AppliedOK

\* Every step keeps the answers of Write true.
LEMMA AppliedStep == TypeOK /\ QueueInv /\ AppliedOK /\ [Next]_vars => AppliedOK'
<1> SUFFICES ASSUME TypeOK, QueueInv, AppliedOK, [Next]_vars PROVE AppliedOK'
  OBVIOUS
<1>t. pc \in [Call -> PC] /\ QueueOK
  BY DEF TypeOK, TypeWrite, QueueInv
<1>1. ASSUME NEW c \in Call, WriteLog(c) \/ FinishWrite(c) PROVE AppliedOK'
  BY <1>1, AppliedWriteLog, AppliedFinishWrite
\* A call moves outside the stretch between its outcome and its end.
<1>2. ASSUME NEW c \in Call, NEW s, pc' = [pc EXCEPT ![c] = s],
             {pc[c], s} \cap {"log", "relock", "finish"} = {},
             UNCHANGED <<kind, status, group, result, mem, imm, has_imm, flushed>>
      PROVE  AppliedOK'
  <2>1. Stored' = Stored /\ (has_imm' \/ imm' = {})
    BY <1>2 DEF Stored, InMemory, AppliedOK
  <2>2. \A x \in Call : \A r \in {"log", "relock", "finish"} : pc'[x] = r <=> pc[x] = r
    BY <1>t, <1>2
  <2> QED
    BY <1>2, <2>1, <2>2, AppliedStable
<1>3. ASSUME NEW c \in Call, Write(c) PROVE AppliedOK'
  <2>1. PICK s \in {"room", "queued"} : pc' = [pc EXCEPT ![c] = s]
    BY <1>3 DEF Write, BecomeLeader
  <2>2. pc[c] = "idle" /\ UNCHANGED <<kind, status, group, result, mem, imm, has_imm, flushed>>
    BY <1>3 DEF Write, tableVars
  <2> QED
    BY <1>2, <2>1, <2>2
<1>4. ASSUME NEW c \in Call, WakeUp(c) PROVE AppliedOK'
  <2>1. PICK s \in {"room", "returned", "memcheck", "manual"} : pc' = [pc EXCEPT ![c] = s]
    BY <1>4 DEF WakeUp, BecomeLeader, AfterWrite
  <2>2. pc[c] = "woken" /\ UNCHANGED <<kind, status, group, result, mem, imm, has_imm, flushed>>
    BY <1>4 DEF WakeUp, tableVars
  <2> QED
    BY <1>2, <2>1, <2>2
<1>5. ASSUME NEW c \in Call, RoomDelay(c) \/ RoomAgain(c) \/ RoomWait(c) PROVE AppliedOK'
  <2>1. PICK s \in {"room", "delay", "roomwait"} : pc' = [pc EXCEPT ![c] = s]
    BY <1>5 DEF RoomDelay, RoomAgain, RoomWait
  <2>2. /\ pc[c] \in {"room", "delay", "roomwoken"}
        /\ UNCHANGED <<kind, status, group, result, mem, imm, has_imm, flushed>>
    BY <1>5 DEF RoomDelay, RoomAgain, RoomWait, InRoom, tableVars
  <2> QED
    BY <1>2, <2>1, <2>2
<1>6. ASSUME NEW c \in Call, CompactMemTableWait(c) \/ ManualCompactionLoop(c) PROVE AppliedOK'
  <2>1. PICK s \in {"memwait", "manual", "manualwait", "returned"} : pc' = [pc EXCEPT ![c] = s]
    BY <1>6 DEF CompactMemTableWait, ManualCompactionLoop
  <2>2. /\ pc[c] \in {"memcheck", "manual"}
        /\ UNCHANGED <<kind, status, group, result, mem, imm, has_imm, flushed>>
    BY <1>6 DEF CompactMemTableWait, ManualCompactionLoop, writeVars, tableVars
  <2> QED
    BY <1>2, <2>1, <2>2
<1>7. ASSUME NEW c \in Call, RoomError(c) PROVE AppliedOK'
  <2>1. /\ pc[c] = "room" /\ pc' = [pc EXCEPT ![c] = "finish"] /\ result' = "error"
        /\ UNCHANGED <<kind, status, mem, imm, has_imm, flushed>>
    BY <1>7 DEF RoomError, InRoom, tableVars
  <2> QED
    BY <1>t, <2>1, AppliedRoom
<1>8. ASSUME NEW c \in Call, RoomFound(c) PROVE AppliedOK'
  <2>1. /\ pc[c] = "room" /\ result' = "ok"
        /\ UNCHANGED <<kind, status, mem, imm, has_imm, flushed>>
    BY <1>8 DEF RoomFound, InRoom, tableVars
  <2>2. \/ pc' = [pc EXCEPT ![c] = "log"]
        \/ ~HasBatch(c) /\ pc' = [pc EXCEPT ![c] = "finish"]
    BY <1>8 DEF RoomFound
  <2> QED
    BY <1>t, <2>1, <2>2, AppliedRoom
<1>9. ASSUME NEW c \in Call, RoomSwitch(c) PROVE AppliedOK'
  <2>1. pc[c] = "room" /\ UNCHANGED <<kind, status, flushed>> /\ ~has_imm
    BY <1>9 DEF RoomSwitch, InRoom, MustWait
  <2>2. CASE imm' = mem /\ has_imm' = TRUE /\ mem' = {} /\ UNCHANGED <<pc, group, result>>
    <3>1. imm = {}
      BY <2>1 DEF AppliedOK
    <3>2. Stored' = Stored
      BY <2>1, <2>2, <3>1 DEF Stored, InMemory
    <3> QED
      BY <2>1, <2>2, <3>2, AppliedStable
  <2>3. CASE /\ pc' = [pc EXCEPT ![c] = "finish"] /\ result' = "error"
             /\ UNCHANGED <<mem, imm, has_imm>>
    BY <1>t, <2>1, <2>3, AppliedRoom
  <2> QED
    BY <1>9, <2>2, <2>3 DEF RoomSwitch
\* The background thread and the destructor move a memtable at most.
<1>10. ASSUME pc' \in {pc, SignalAll(pc)}, UNCHANGED <<kind, writeVars>>,
              Stored' = Stored, has_imm' \/ imm' = {}
       PROVE  AppliedOK'
  <2>1. \A x \in Call : \A r \in {"log", "relock", "finish"} : pc'[x] = r <=> pc[x] = r
    BY <1>t, <1>10, SignalKeeps
  <2> QED
    BY <1>10, <2>1, AppliedStable DEF writeVars
<1>11. ASSUME BackgroundStep PROVE AppliedOK'
  <2>1. pc' \in {pc, SignalAll(pc)}
    BY <1>11 DEF BackgroundStep, BackgroundNothing, BackgroundStart, NestedFlush, FlushDone,
                 CompactionDone, BackgroundCallEnd
  <2>2. UNCHANGED <<kind, writeVars>>
    BY <1>11 DEF BackgroundStep, BackgroundNothing, BackgroundStart, NestedFlush, FlushDone,
                 CompactionDone
  <2>3. Stored' = Stored /\ (has_imm' \/ imm' = {})
    <3>1. CASE FlushDone
      BY <3>1 DEF FlushDone, Stored, InMemory, AppliedOK
    <3>2. CASE ~FlushDone
      <4>1. UNCHANGED <<mem, imm, has_imm, flushed>>
        BY <1>11, <3>2 DEF BackgroundStep, BackgroundNothing, BackgroundStart, NestedFlush,
                           CompactionDone, tableVars
      <4> QED
        BY <4>1 DEF Stored, InMemory, AppliedOK
    <3> QED
      BY <3>1, <3>2
  <2> QED
    BY <1>10, <2>1, <2>2, <2>3
<1>12. CASE Close \/ UNCHANGED vars
  <2>1. UNCHANGED <<kind, pc, writeVars, mem, imm, has_imm, flushed>>
    BY <1>12 DEF Close, vars, tableVars
  <2> QED
    BY <1>10, <2>1 DEF Stored, InMemory, AppliedOK
<1> QED
  BY <1>1, <1>3, <1>4, <1>5, <1>6, <1>7, <1>8, <1>9, <1>11, <1>12 DEF Next, CallStep, Terminated

-----------------------------------------------------------------------------
(* Waiting for background work.                                            *)

\* The states in which a call waits on bg_cv_.
Waiting == {"roomwait", "memwait", "manualwait"}

\* SignalAll leaves nobody waiting on bg_cv_.
LEMMA SignalWakes ==
  ASSUME NEW p \in [Call -> PC]
  PROVE  /\ \A c \in Call : SignalAll(p)[c] \notin Waiting
         /\ \A c \in Call : p[c] \in {"idle", "returned"} => SignalAll(p)[c] = p[c]
BY DEF SignalAll, PC, Waiting

\* A step of a caller that leaves the background thread alone and starts no wait.
LEMMA ServedCaller ==
  ASSUME ServedOK, UNCHANGED <<has_imm, l0, deeper, scheduled, bgpc, closing>>,
         bg_error => bg_error', manual' \in {manual, None},
         \A c \in Call : pc'[c] \in Waiting => pc[c] \in Waiting,
         closing = "open" \/ pc' = pc
  PROVE  ServedOK'
<1>1. Schedulable(has_imm, manual, l0, deeper, bg_error)' =>
        Schedulable(has_imm, manual, l0, deeper, bg_error)
  BY DEF Schedulable, NeedsCompaction
<1>2. \A c \in Call : pc'[c] \in Waiting => scheduled
  BY DEF ServedOK, WaitersAreServed, Waiting
<1> QED
  BY <1>1, <1>2 DEF ServedOK, WaitersAreServed, Waiting

\* A caller that finds work to wait for finds it scheduled.
LEMMA ServedWait ==
  ASSUME TypeOK, ServedOK, UNCHANGED <<has_imm, l0, deeper, bg_error, closing>>,
         NEW c \in Call, NEW s, pc' = [pc EXCEPT ![c] = s], closing = "open",
         scheduled', (scheduled' = scheduled /\ bgpc' = bgpc) \/ bgpc' # "idle"
  PROVE  ServedOK'
BY DEF ServedOK, WaitersAreServed

\* The end of the background call wakes everyone, and reschedules itself if
\* there is more to do.
LEMMA ServedEnd ==
  ASSUME TypeOK, ServedOK, bgpc # "idle",
         BackgroundCallEnd(pc, has_imm', manual', l0', deeper', bg_error')
  PROVE  ServedOK'
<1>1. /\ scheduled' = Schedulable(has_imm', manual', l0', deeper', bg_error')
      /\ bgpc' = IF scheduled' THEN "start" ELSE "idle"
      /\ pc' = SignalAll(pc)
      /\ WakeDestructor
  BY DEF BackgroundCallEnd
<1>2. closing' # "waiting" /\ (closing' = "open" <=> closing = "open")
  BY <1>1 DEF WakeDestructor
<1>3. pc \in [Call -> PC]
  BY DEF TypeOK, TypeWrite
<1>4. scheduled' = Schedulable(has_imm, manual, l0, deeper, bg_error)'
  BY <1>1, <1>2 DEF Schedulable, NeedsCompaction
<1>5. \A c \in Call : pc'[c] \notin Waiting
  BY <1>1, <1>3, SignalWakes
<1>6. closing' # "open" => \A c \in Call : pc'[c] \in {"idle", "returned"}
  BY <1>1, <1>2, <1>3, SignalWakes DEF ServedOK
<1>7. scheduled' <=> bgpc' # "idle"
  BY <1>1
<1> QED
  BY <1>2, <1>4, <1>5, <1>6, <1>7 DEF ServedOK, WaitersAreServed, Waiting

\* The background thread goes on with its work.
LEMMA ServedWork ==
  ASSUME TypeOK, ServedOK, bgpc # "idle", bgpc' # "idle", UNCHANGED scheduled,
         \/ UNCHANGED <<pc, closing>>
         \/ pc' = SignalAll(pc) /\ WakeDestructor
  PROVE  ServedOK'
<1>1. scheduled' /\ pc \in [Call -> PC]
  BY DEF ServedOK, TypeOK, TypeWrite
<1>2. closing' # "open" => closing # "open"
  BY DEF WakeDestructor
<1>3. closing' # "open" => \A c \in Call : pc'[c] \in {"idle", "returned"}
  BY <1>1, <1>2, SignalWakes DEF ServedOK
<1> QED
  BY <1>1, <1>3 DEF ServedOK, WaitersAreServed

\* Every step keeps the work somebody waits for scheduled.
LEMMA ServedStep == TypeOK /\ ServedOK /\ [Next]_vars => ServedOK'
<1> SUFFICES ASSUME TypeOK, ServedOK, [Next]_vars PROVE ServedOK'
  OBVIOUS
<1>t. pc \in [Call -> PC]
  BY DEF TypeOK, TypeWrite
<1>o. ASSUME NEW c \in Call, pc[c] \notin {"idle", "returned"} PROVE closing = "open"
  BY <1>o DEF ServedOK
\* A caller moves without waiting on bg_cv_.
<1>1. ASSUME NEW c \in Call, NEW s, pc' = [pc EXCEPT ![c] = s], s \notin Waiting, closing = "open",
             UNCHANGED <<has_imm, l0, deeper, bg_error, scheduled, bgpc, closing>>,
             manual' \in {manual, None}
      PROVE  ServedOK'
  <2>1. \A x \in Call : pc'[x] \in Waiting => pc[x] \in Waiting
    BY <1>t, <1>1
  <2> QED
    BY <1>1, <2>1, ServedCaller
<1>2. ASSUME NEW c \in Call, Write(c) PROVE ServedOK'
  <2>1. PICK s \in {"room", "queued"} : pc' = [pc EXCEPT ![c] = s]
    BY <1>2 DEF Write, BecomeLeader
  <2>2. /\ closing = "open"
        /\ UNCHANGED <<has_imm, l0, deeper, bg_error, scheduled, bgpc, manual, closing>>
    BY <1>2 DEF Write, tableVars, bgVars
  <2> QED
    BY <1>1, <2>1, <2>2 DEF Waiting
<1>3. ASSUME NEW c \in Call, WakeUp(c) PROVE ServedOK'
  <2>1. PICK s \in {"room", "returned", "memcheck", "manual"} : pc' = [pc EXCEPT ![c] = s]
    BY <1>3 DEF WakeUp, BecomeLeader, AfterWrite
  <2>2. UNCHANGED <<has_imm, l0, deeper, bg_error, scheduled, bgpc, manual, closing>>
    BY <1>3 DEF WakeUp, tableVars, bgVars, restVars
  <2>3. closing = "open"
    BY <1>3, <1>o DEF WakeUp
  <2> QED
    BY <1>1, <2>1, <2>2, <2>3 DEF Waiting
<1>4. ASSUME NEW c \in Call, RoomError(c) \/ RoomDelay(c) \/ RoomAgain(c) \/ RoomFound(c) PROVE ServedOK'
  <2>1. PICK s \in {"room", "delay", "log", "finish"} : pc' = [pc EXCEPT ![c] = s]
    BY <1>4 DEF RoomError, RoomDelay, RoomAgain, RoomFound
  <2>2. UNCHANGED <<has_imm, l0, deeper, bg_error, scheduled, bgpc, manual, closing>>
    BY <1>4 DEF RoomError, RoomDelay, RoomAgain, RoomFound, tableVars, bgVars, restVars
  <2>3. closing = "open"
    BY <1>4, <1>o DEF RoomError, RoomDelay, RoomAgain, RoomFound, InRoom
  <2> QED
    BY <1>1, <2>1, <2>2, <2>3 DEF Waiting
<1>5. ASSUME NEW c \in Call, RoomWait(c) PROVE ServedOK'
  <2>1. /\ pc' = [pc EXCEPT ![c] = "roomwait"] /\ pc[c] = "room"
        /\ ~bg_error /\ (has_imm \/ l0 >= L0Stop)
        /\ UNCHANGED <<has_imm, l0, deeper, bg_error, scheduled, bgpc, manual, closing>>
    BY <1>5 DEF RoomWait, InRoom, MustWait, tableVars, bgVars, restVars
  <2>2. closing = "open"
    BY <1>o, <2>1
  <2>3. l0 >= L0Stop => l0 >= L0Compaction
    BY ConstantsAssumption DEF TypeOK, TypeTables
  <2>4. scheduled
    BY <2>1, <2>2, <2>3 DEF ServedOK, Schedulable, NeedsCompaction
  <2> QED
    BY <2>1, <2>2, <2>4, ServedWait
<1>6. ASSUME NEW c \in Call, RoomSwitch(c) PROVE ServedOK'
  <2>1. /\ pc[c] = "room" /\ ~bg_error
        /\ UNCHANGED <<l0, deeper, bg_error, manual, closing>>
    BY <1>6 DEF RoomSwitch, InRoom
  <2>2. closing = "open"
    BY <1>o, <2>1
  <2>3. CASE UNCHANGED pc /\ MaybeScheduleCompaction(TRUE, manual, l0, deeper, bg_error)
    <3>1. scheduled' /\ bgpc' # "idle"
      BY <2>1, <2>2, <2>3 DEF MaybeScheduleCompaction, Schedulable, ServedOK
    <3> QED
      BY <2>1, <2>2, <2>3, <3>1 DEF ServedOK, WaitersAreServed
  <2>4. CASE pc' = [pc EXCEPT ![c] = "finish"] /\ UNCHANGED <<has_imm, scheduled, bgpc>>
    BY <1>1, <2>1, <2>2, <2>4 DEF Waiting
  <2> QED
    BY <1>6, <2>3, <2>4 DEF RoomSwitch
<1>7. ASSUME NEW c \in Call, WriteLog(c) PROVE ServedOK'
  <2>1. /\ pc' = [pc EXCEPT ![c] = "relock"] /\ pc[c] = "log"
        /\ UNCHANGED <<has_imm, l0, deeper, bg_error, scheduled, bgpc, manual, closing>>
    BY <1>7 DEF WriteLog, bgVars
  <2> QED
    BY <1>1, <1>o, <2>1 DEF Waiting
<1>8. ASSUME NEW c \in Call, FinishWrite(c) PROVE ServedOK'
  <2> DEFINE rest == SubSeq(writers, Len(group) + 1, Len(writers))
             woken == Members(group) \cup NewHead(rest)
             told == [x \in Call |-> IF x = c THEN AfterWrite(c, result)
                                     ELSE IF x \in woken THEN "woken" ELSE pc[x]]
  <2>1. /\ pc[c] \in {"relock", "finish"}
        /\ bg_error' = (bg_error \/ sync_error)
        /\ UNCHANGED <<has_imm, l0, deeper, scheduled, bgpc, manual, closing>>
    BY <1>8 DEF FinishWrite, tableVars, restVars
  <2>2. closing = "open"
    BY <1>o, <2>1
  <2>3. AfterWrite(c, result) \in PC \ Waiting
    BY DEF AfterWrite, Waiting, PC
  <2>4. told \in [Call -> PC] /\ \A x \in Call : told[x] \in Waiting => pc[x] \in Waiting
    BY <1>t, <2>3 DEF Waiting, PC
  <2>5. pc' = told \/ pc' = SignalAll(told)
    BY <1>8 DEF FinishWrite
  <2> HIDE DEF told
  <2>6. \A x \in Call : pc'[x] \in Waiting => pc[x] \in Waiting
    BY <2>4, <2>5, SignalWakes
  <2> QED
    BY <2>1, <2>2, <2>6, ServedCaller
<1>9. ASSUME NEW c \in Call, CompactMemTableWait(c) PROVE ServedOK'
  <2>1. /\ pc[c] = "memcheck"
        /\ UNCHANGED <<has_imm, l0, deeper, bg_error, scheduled, bgpc, manual, closing>>
    BY <1>9 DEF CompactMemTableWait, tableVars, bgVars, restVars
  <2>2. closing = "open"
    BY <1>o, <2>1
  <2>3. CASE has_imm /\ ~bg_error
    <3>1. pc' = [pc EXCEPT ![c] = "memwait"]
      BY <1>9, <2>3 DEF CompactMemTableWait
    <3>2. scheduled
      BY <2>2, <2>3 DEF ServedOK, Schedulable
    <3> QED
      BY <2>1, <2>2, <3>1, <3>2, ServedWait
  <2>4. CASE ~(has_imm /\ ~bg_error)
    <3>1. pc' = [pc EXCEPT ![c] = "manual"]
      BY <1>9, <2>4 DEF CompactMemTableWait
    <3> QED
      BY <1>1, <2>1, <2>2, <3>1 DEF Waiting
  <2> QED
    BY <2>3, <2>4
<1>10. ASSUME NEW c \in Call, ManualCompactionLoop(c) PROVE ServedOK'
  <2>1. /\ pc[c] = "manual"
        /\ UNCHANGED <<has_imm, l0, deeper, bg_error, closing>>
    BY <1>10 DEF ManualCompactionLoop, tableVars
  <2>2. closing = "open"
    BY <1>o, <2>1
  <2>3. CASE ManualEnds(c)
    <3>1. PICK s \in {"manual", "returned"} : pc' = [pc EXCEPT ![c] = s]
      BY <1>10, <2>3 DEF ManualCompactionLoop
    <3>2. manual' \in {manual, None} /\ UNCHANGED <<scheduled, bgpc>>
      BY <1>10, <2>3 DEF ManualCompactionLoop
    <3> QED
      BY <1>1, <2>1, <2>2, <3>1, <3>2 DEF Waiting
  <2>4. CASE ~ManualEnds(c)
    <3>1. pc' = [pc EXCEPT ![c] = "manualwait"] /\ ~bg_error
      BY <1>10, <2>4 DEF ManualCompactionLoop, ManualEnds
    <3>2. CASE manual = None /\ InstallManual(c)
      <4>1. c # None /\ manual' = c
        BY <3>2, ConstantsAssumption DEF InstallManual
      <4>2. scheduled' /\ bgpc' # "idle"
        BY <2>2, <3>1, <3>2, <4>1 DEF InstallManual, MaybeScheduleCompaction, Schedulable, ServedOK
      <4> QED
        BY <2>1, <2>2, <3>1, <4>2, ServedWait
    <3>3. CASE manual # None /\ UNCHANGED <<manual, scheduled, bgpc>>
      <4>1. scheduled
        BY <2>2, <3>1, <3>3 DEF ServedOK, Schedulable
      <4> QED
        BY <2>1, <2>2, <3>1, <3>3, <4>1, ServedWait
    <3> QED
      BY <1>10, <2>4, <3>2, <3>3 DEF ManualCompactionLoop
  <2> QED
    BY <2>3, <2>4
<1>11. CASE BackgroundNothing
  <2>1. UNCHANGED <<has_imm, l0, deeper, bg_error>> /\ bgpc # "idle"
    BY <1>11 DEF BackgroundNothing, tableVars
  <2>2. BackgroundCallEnd(pc, has_imm, manual', l0, deeper, bg_error)
    BY <1>11 DEF BackgroundNothing
  <2>3. BackgroundCallEnd(pc, has_imm', manual', l0', deeper', bg_error')
    BY <2>1, <2>2
  <2> QED
    BY <2>1, <2>3, ServedEnd
<1>12. CASE BackgroundStart \/ NestedFlush
  <2>1. bgpc # "idle" /\ bgpc' # "idle" /\ UNCHANGED <<scheduled, pc, closing>>
    BY <1>12 DEF BackgroundStart, NestedFlush, restVars
  <2> QED
    BY <2>1, ServedWork
<1>13. CASE FlushDone
  <2>1. bgpc # "idle" /\ UNCHANGED manual
    BY <1>13 DEF FlushDone
  <2>2. CASE BackgroundCallEnd(pc, has_imm', manual, l0', deeper', bg_error')
    <3>1. BackgroundCallEnd(pc, has_imm', manual', l0', deeper', bg_error')
      BY <2>1, <2>2
    <3> QED
      BY <2>1, <3>1, ServedEnd
  <2>3. CASE bgpc' = "compact" /\ pc' = SignalAll(pc) /\ WakeDestructor /\ UNCHANGED scheduled
    BY <2>1, <2>3, ServedWork
  <2> QED
    BY <1>13, <2>2, <2>3 DEF FlushDone
<1>14. CASE CompactionDone
  <2>1. bgpc # "idle" /\ UNCHANGED has_imm
    BY <1>14 DEF CompactionDone
  <2>2. CASE UNCHANGED <<pc, scheduled, bgpc, closing>>
    BY <2>1, <2>2, ServedWork
  <2>3. CASE manual' = None /\ BackgroundCallEnd(pc, has_imm, None, l0', deeper', bg_error')
    <3>1. BackgroundCallEnd(pc, has_imm', manual', l0', deeper', bg_error')
      BY <2>1, <2>3
    <3> QED
      BY <2>1, <3>1, ServedEnd
  <2>4. CASE manual' = manual /\ BackgroundCallEnd(pc, has_imm, manual, l0', deeper', bg_error')
    <3>1. BackgroundCallEnd(pc, has_imm', manual', l0', deeper', bg_error')
      BY <2>1, <2>4
    <3> QED
      BY <2>1, <3>1, ServedEnd
  <2> QED
    BY <1>14, <2>2, <2>3, <2>4 DEF CompactionDone
<1>15. CASE Close
  <2>1. /\ closing' = IF scheduled THEN "waiting" ELSE "closed"
        /\ \A c \in Call : pc[c] \in {"idle", "returned"}
        /\ UNCHANGED <<pc, has_imm, l0, deeper, bg_error, scheduled, bgpc, manual>>
    BY <1>15 DEF Close, tableVars, bgVars
  <2> QED
    BY <2>1 DEF ServedOK, WaitersAreServed, Schedulable
<1>16. CASE UNCHANGED vars
  <2>1. UNCHANGED <<pc, has_imm, l0, deeper, bg_error, scheduled, bgpc, manual, closing>>
    BY <1>16 DEF vars, tableVars, bgVars, restVars
  <2> QED
    BY <2>1 DEF ServedOK, WaitersAreServed, Schedulable, NeedsCompaction
<1> QED
  BY <1>2, <1>3, <1>4, <1>5, <1>6, <1>7, <1>8, <1>9, <1>10, <1>11, <1>12, <1>13, <1>14, <1>15, <1>16
     DEF Next, CallStep, BackgroundStep, Terminated

-----------------------------------------------------------------------------
(* The theorems.                                                           *)

\* The inductive invariant holds of a new DBImpl.
LEMMA InitInv == Init => IInv
<1> SUFFICES ASSUME Init PROVE IInv
  OBVIOUS
<1>1. TypeOK
  BY TypeInit
<1>2. QueueInv
  BY QueueInit
<1>3. FlushOK
  <2>1. l0 = 0 /\ inputs = 0 /\ has_imm = FALSE /\ bgpc = "idle"
    BY DEF Init
  <2>2. L0Stop \in Nat
    BY ConstantsAssumption
  <2> QED
    BY <2>1, <2>2 DEF FlushOK, Level0Bounded
<1>4. JobOK
  BY DEF Init, JobOK
<1>5. AppliedOK
  BY DEF Init, AppliedOK, AnsweredMeansApplied, Stored, InMemory
<1>6. ServedOK
  <2>1. ~NeedsCompaction(l0, deeper)
    BY ConstantsAssumption DEF Init, NeedsCompaction
  <2> QED
    BY <2>1 DEF Init, ServedOK, WaitersAreServed, Schedulable
<1> QED
  BY <1>1, <1>2, <1>3, <1>4, <1>5, <1>6 DEF IInv, QueueInv

\* IInv is an invariant of the threads of DBImpl.
THEOREM Invariance == Spec => []IInv
<1>1. IInv /\ [Next]_vars => IInv'
  BY TypeStep, QueueStep, FlushStep, JobStep, AppliedStep, ServedStep DEF IInv, QueueInv
<1> QED
  BY InitInv, <1>1, PTL DEF Spec

\* Every variable of DBImpl keeps its type, whatever the callers do and
\* whatever fails: in particular no compaction takes from level 0 more files
\* than the version it is applied to has there.
THEOREM TypeCorrect == Spec => []TypeOK
<1>1. IInv => TypeOK
  BY DEF IInv
<1> QED
  BY Invariance, <1>1, PTL

\* The hand-over of the lead in Write loses no wake-up: a caller asleep on its
\* condition variable is in the queue behind another one.
THEOREM NoLostWakeUp == Spec => []SleepersAreLed
<1>1. IInv => SleepersAreLed
  <2> SUFFICES ASSUME IInv, NEW c \in Call, pc[c] = "queued"
               PROVE  c \in Members(writers) /\ c # Head(writers)
    BY DEF SleepersAreLed
  <2>1. c \in Members(writers)
    BY DEF IInv, QueueOK
  <2>2. writers \in Seq(Call) /\ 1 \in 1..Len(writers)
    BY <2>1 DEF Members, IInv, TypeOK, TypeWrite
  <2>3. pc[writers[1]] # "queued"
    BY <2>2 DEF IInv, QueueOK, Leading
  <2>4. Head(writers) = writers[1]
    BY <2>2
  <2> QED
    BY <2>1, <2>3, <2>4
<1> QED
  BY Invariance, <1>1, PTL

\* No wake-up is lost on bg_cv_ either: a writer waiting for room, a CompactRange
\* waiting for its flush or its compaction, and the destructor only ever wait for
\* a background call that MaybeScheduleCompaction has scheduled.
THEOREM BackgroundWorkServed == Spec => []WaitersAreServed
<1>1. IInv => WaitersAreServed
  BY DEF IInv, ServedOK
<1> QED
  BY Invariance, <1>1, PTL

\* Write tells the truth: whoever led its group, a batch is in a memtable or a
\* table exactly when its call is answered with OK.
THEOREM WriteTellsTheTruth == Spec => []AnsweredMeansApplied
<1>1. IInv => AnsweredMeansApplied
  BY DEF IInv, AppliedOK
<1> QED
  BY Invariance, <1>1, PTL

\* A write with sync that Write answers with OK was covered by a Sync that
\* succeeded, whoever led the group it was written with.
THEOREM SyncHonoured == Spec => []SyncMeansSynced
<1>1. IInv => SyncMeansSynced
  BY DEF IInv
<1> QED
  BY Invariance, <1>1, PTL

\* A call that enters Write after a background error is never answered with OK.
THEOREM NoWriteAfterError == Spec => []ErrorsAreSticky
<1>1. IInv => ErrorsAreSticky
  BY DEF IInv
<1> QED
  BY Invariance, <1>1, PTL

\* Level 0 never grows past kL0_StopWritesTrigger files, with the memtable
\* being flushed counted as one of them.
THEOREM Level0Limit == Spec => []Level0Bounded
<1>1. IInv => Level0Bounded
  BY DEF IInv, FlushOK
<1> QED
  BY Invariance, <1>1, PTL
=============================================================================
