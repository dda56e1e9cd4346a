----------------------------- MODULE Compaction -----------------------------
(***************************************************************************)
(* The data of a leveldb database: memtables, the versions of the tree of  *)
(* tables, flushes, compactions and what readers see through them          *)
(* (db/version_set.cc, db/snapshot.h and the part of db/db_impl.cc that    *)
(* moves data).  How the threads wait for each other is DBImpl, what the   *)
(* files survive is DBFiles.                                               *)
(*                                                                         *)
(* An entry is its sequence number; history says which user key it wrote   *)
(* and whether it deleted it.  A table is its set of entries, its size     *)
(* their number, its smallest and largest key follow from them.  Only the  *)
(* background thread changes versions: a flush is two steps, a compaction  *)
(* one per output and one to install them, with everything the others do,  *)
(* and nested flushes, in between.                                         *)
(***************************************************************************)
EXTENDS Integers, Sequences, FiniteSets, SequencesExt

CONSTANTS
  None,
  Key,                \* the user keys, a range of numbers
  NumLevels,          \* config::kNumLevels
  MaxMemCompactLevel, \* config::kMaxMemCompactLevel
  L0Trigger,          \* config::kL0_CompactionTrigger
  LevelLimit,         \* MaxBytesForLevel, the same for every level
  TargetFileSize,     \* options->max_file_size
  GrandparentLimit,   \* MaxGrandParentOverlapBytes
  ExpandLimit,        \* ExpandedCompactionByteSizeLimit
  Reader,             \* reads and iterators in progress
  RangeBegin,         \* where the ranges of CompactRange begin,
  RangeEnd,           \* and where they end
  MaxSeq,             \* bound: entries written
  MaxDeletes,         \* bound: deletions among them
  MaxOps,             \* bound: snapshots, reads, calls of CompactRange and
                      \* I/O errors
  MaxFile,            \* bound: tables ever made
  CutInsideKey,       \* whether an output may end between entries of one key
  FlushDuringManual   \* whether a flush may run inside a manual compaction

\* What a reader holds, and CompactionState.
Held == [seq : Nat, mem : SUBSET Nat, imm : SUBSET Nat, version : Nat]
Job == [level : Nat, in0 : SUBSET Nat, in1 : SUBSET Nat, version : Nat, snapshot : Nat,
        manual : BOOLEAN, outs : SUBSET Nat, rest : Seq(Nat)]

ASSUME ConstantsAssumption ==
  /\ Key \subseteq Nat /\ Key # {} /\ RangeBegin \cup RangeEnd \subseteq Key
  /\ NumLevels \in Nat /\ NumLevels >= 2 /\ MaxMemCompactLevel \in 0 .. NumLevels - 1
  /\ {L0Trigger, LevelLimit} \subseteq Nat \ {0}
  /\ {TargetFileSize, GrandparentLimit, ExpandLimit, MaxSeq,
      MaxDeletes, MaxOps, MaxFile} \subseteq Nat
  /\ {CutInsideKey, FlushDuringManual} \subseteq BOOLEAN
  /\ IsFiniteSet(Reader)
  /\ None \notin Nat \cup Held \cup Job

VARIABLES
  history,        \* every entry written, by sequence number
  mem, imm,       \* entries of the memtables; imm is {} when imm_ is NULL
  snapshots,      \* SnapshotList, oldest first
  table,          \* the tables on disk: file number -> entries
  versions,       \* the list of live versions: id -> files per level, refs_,
                  \* and file_to_compact_ with its level
  current,        \* the id of current_
  nextFile,       \* next_file_number_
  compactPointer, \* compact_pointer_: level -> entry, 0 when empty
  pending,        \* pending_outputs_
  flush,          \* the table a flush has written, 0 when there is no flush
  compact,        \* the compaction at work, or None
  manual,         \* the ManualCompaction of a caller, or None
  ops,            \* how many of them so far
  bgError,        \* ~bg_error_.ok()
  reader          \* what each reader holds: sequence, memtables, version

vars == <<history, mem, imm, snapshots, table, versions, current, nextFile,
          compactPointer, pending, flush, compact, manual, ops, bgError, reader>>
dataVars == <<history, mem, imm>>
treeVars == <<table, versions, current>>
fileVars == <<nextFile, compactPointer, pending>>
clientVars == <<snapshots, reader, ops>>

Level == 0 .. NumLevels - 1
SeqNo == 1 .. MaxSeq
FileNo == 1 .. MaxFile
LastSequence == Len(history)
UserKey(e) == history[e].key

-----------------------------------------------------------------------------
(* Internal keys: user key up, sequence number down.                       *)

Before(e, f) == \/ UserKey(e) < UserKey(f)
                \/ UserKey(e) = UserKey(f) /\ e > f

First(S) == CHOOSE e \in S : \A f \in S : e = f \/ Before(e, f)
Final(S) == CHOOSE e \in S : \A f \in S : e = f \/ Before(f, e)

\* FileMetaData: smallest and largest, and the contents that give the size.
Table(S) == [entries |-> S, smallest |-> First(S), largest |-> Final(S)]

Entries(ns) == UNION {table[n].entries : n \in ns}
Smallest(n) == table[n].smallest
Largest(n)  == table[n].largest
SmallKey(n) == UserKey(Smallest(n))
LargeKey(n) == UserKey(Largest(n))

TotalFileSize(ns) == Cardinality(UNION {{n} \X table[n].entries : n \in ns})

BySmallestKey(m, n) == \/ Before(Smallest(m), Smallest(n))
                       \/ Smallest(m) = Smallest(n) /\ m < n

\* A set in the order of op: the element with i - 1 others before it is the i-th.
Sorted(S, op(_, _)) ==
  [i \in 1 .. Cardinality(S) |->
     CHOOSE x \in S : Cardinality({y \in S : y # x /\ op(y, x)}) = i - 1]

\* The first file of a sorted level that ends at or after (k, s).
FindFile(files, k, s) ==
  Cardinality({i \in DOMAIN files : \/ LargeKey(files[i]) < k
                                    \/ LargeKey(files[i]) = k /\ Largest(files[i]) > s}) + 1

Overlaps(n, lo, hi) == SmallKey(n) <= hi /\ lo <= LargeKey(n)

SomeFileOverlapsRange(disjoint, files, lo, hi) ==
  IF disjoint
    THEN LET index == FindFile(files, lo, MaxSeq)
         IN  index <= Len(files) /\ SmallKey(files[index]) <= hi
    ELSE \E n \in ToSet(files) : Overlaps(n, lo, hi)

OverlapInLevel(files, level, lo, hi) ==
  SomeFileOverlapsRange(level > 0, files[level], lo, hi)

\* On level 0 a file that reaches out of the range widens it, and the search
\* starts again.
GetOverlappingInputs(files, level, lo, hi) ==
  LET in(r) == {n \in ToSet(files[level]) : Overlaps(n, r[1], r[2])}
      widened[r \in Key \X Key] ==
        IF \E n \in in(r) : SmallKey(n) < r[1] \/ LargeKey(n) > r[2]
          THEN LET n == CHOOSE n \in in(r) : SmallKey(n) < r[1] \/ LargeKey(n) > r[2]
               IN  widened[<<IF SmallKey(n) < r[1] THEN SmallKey(n) ELSE r[1],
                             IF LargeKey(n) > r[2] THEN LargeKey(n) ELSE r[2]>>]
          ELSE r
  IN  in(IF level = 0 THEN widened[<<lo, hi>>] ELSE <<lo, hi>>)

\* The files that may hold k as of s, in the order a read looks at them.
ForEachOverlapping(files, k, s) ==
  LET level0 == {n \in ToSet(files[0]) : Overlaps(n, k, k)}
      index(level) == FindFile(files[level], k, s)
      deeper == {level \in 1 .. NumLevels - 1 :
                   /\ index(level) <= Len(files[level])
                   /\ SmallKey(files[level][index(level)]) <= k}
  IN  [i \in 1 .. Cardinality(level0) |->
         [level |-> 0, number |-> Sorted(level0, >)[i]]]
        \o [i \in 1 .. Cardinality(deeper) |->
              LET level == Sorted(deeper, <)[i]
              IN  [level |-> level, number |-> files[level][index(level)]]]

\* The newest entry for k that is not newer than s, 0 if there is none.
Newest(S, k, s) ==
  LET seen == {e \in S : UserKey(e) = k /\ e <= s}
  IN  IF seen = {} THEN 0 ELSE CHOOSE e \in seen : \A f \in seen : e >= f

\* What a read found, as its caller sees it: a deletion is no value.
Value(e) == IF e = 0 \/ history[e].del THEN None ELSE e

\* Version::Get stops at the first file that has an entry for k.
GetFrom(files, k, s) ==
  LET seq  == ForEachOverlapping(files, k, s)
      hits == {i \in DOMAIN seq : Newest(table[seq[i].number].entries, k, s) # 0}
  IN  IF hits = {} THEN 0
      ELSE Newest(table[seq[CHOOSE i \in hits : \A j \in hits : i <= j].number].entries, k, s)

Get(m, i, files, k, s) ==
  IF Newest(m, k, s) # 0 THEN Newest(m, k, s)
  ELSE IF Newest(i, k, s) # 0 THEN Newest(i, k, s)
  ELSE GetFrom(files, k, s)

\* The first file read, when a read had to look at a second one.
SeekFile(files, k, s) ==
  LET seq == ForEachOverlapping(files, k, s)
  IN  IF Len(seq) >= 2 /\ Newest(table[seq[1].number].entries, k, s) = 0 THEN seq[1] ELSE None

-----------------------------------------------------------------------------
(* Versions and their reference counts.                                    *)

Ref(vs, v) == [vs EXCEPT ![v].refs = @ + 1]

Unref(vs, v) ==
  IF vs[v].refs = 1 THEN [u \in DOMAIN vs \ {v} |-> vs[u]]
                    ELSE [vs EXCEPT ![v].refs = @ - 1]

FilesOf(files) == UNION {ToSet(files[level]) : level \in Level}

AddLiveFiles(vs) == UNION {FilesOf(vs[v].files) : v \in DOMAIN vs}

\* Builder: del and add are sets of <<level, file number>>.
SaveTo(base, del, add) ==
  [level \in Level |->
     Sorted({n \in ToSet(base[level]) : <<level, n>> \notin del}
                    \cup {n \in FileNo : <<level, n>> \in add}, BySmallestKey)]

\* AppendVersion, and the version it replaces losing the reference of current_.
AppendVersion(vs, files) ==
  LET v == current + 1
      appended == [u \in DOMAIN vs \cup {v} |->
                     IF u = v THEN [files |-> files, refs |-> 1, seek |-> None] ELSE vs[u]]
  IN  Unref(appended, current)

Files == versions[current].files

\* Finalize: the level that most needs a compaction, the first of equals, and
\* whether its score reaches 1.  Scores are compared over a common denominator.
Score(level) == IF level = 0 THEN Len(Files[0]) * LevelLimit
                             ELSE TotalFileSize(ToSet(Files[level])) * L0Trigger
CompactionLevel ==
  CHOOSE level \in 0 .. NumLevels - 2 :
    \A other \in 0 .. NumLevels - 2 :
      Score(level) > Score(other) \/ (Score(level) = Score(other) /\ level <= other)
SizeCompaction == Score(CompactionLevel) >= L0Trigger * LevelLimit

\* Mutation: the level the table leaves is looked at, not the one it goes to.
PickLevelForMemTableOutputOffByOne(lo, hi) ==
  LET reach == {level \in 0 .. MaxMemCompactLevel :
                  \A l \in 0 .. level - 1 : ~OverlapInLevel(Files, l, lo, hi)}
  IN  CHOOSE level \in reach : \A l \in reach : level >= l

\* A flushed table goes down while nothing overlaps it there and it does not
\* overlap too much one level further.
PickLevelForMemTableOutput(lo, hi) ==
  LET ok(level) == /\ ~OverlapInLevel(Files, level + 1, lo, hi)
                   /\ level + 2 < NumLevels =>
                        TotalFileSize(GetOverlappingInputs(Files, level + 2, lo, hi))
                          <= GrandparentLimit
      reach == {level \in 0 .. MaxMemCompactLevel : \A l \in 0 .. level - 1 : ok(l)}
  IN  IF OverlapInLevel(Files, 0, lo, hi) THEN 0
      ELSE CHOOSE level \in reach : \A l \in reach : level >= l

-----------------------------------------------------------------------------
(* Compactions.                                                            *)

LoKey(ns) == UserKey(First(Entries(ns)))
HiKey(ns) == UserKey(Final(Entries(ns)))

\* SetupOtherInputs: the files of the next level, and more of this one if that
\* costs nothing there.
SetupOtherInputs(level, in0) ==
  LET in1 == GetOverlappingInputs(Files, level + 1, LoKey(in0), HiKey(in0))
      expanded0 == GetOverlappingInputs(Files, level, LoKey(in0 \cup in1), HiKey(in0 \cup in1))
      expanded1 == GetOverlappingInputs(Files, level + 1, LoKey(expanded0), HiKey(expanded0))
      grow == /\ in1 # {}
              /\ Cardinality(expanded0) > Cardinality(in0)
              /\ TotalFileSize(in1) + TotalFileSize(expanded0) < ExpandLimit
              /\ Cardinality(expanded1) = Cardinality(in1)
  IN  IF grow THEN [in0 |-> expanded0, in1 |-> expanded1] ELSE [in0 |-> in0, in1 |-> in1]

\* PickCompaction: the level and the file it starts with, or None.
PickedFile ==
  IF SizeCompaction
    THEN LET files == Files[CompactionLevel]
             after == {i \in DOMAIN files :
                         \/ compactPointer[CompactionLevel] = 0
                         \/ Before(compactPointer[CompactionLevel], Largest(files[i]))}
         IN  [level |-> CompactionLevel,
              number |-> IF after = {} THEN files[1]
                         ELSE files[CHOOSE i \in after : \A j \in after : i <= j]]
    ELSE versions[current].seek

PickedInputs(p) ==
  IF p.level = 0 THEN GetOverlappingInputs(Files, 0, SmallKey(p.number), LargeKey(p.number))
                 ELSE {p.number}

\* CompactRange: the first files of the range, up to the size of a file.
RangeInputs(m) ==
  LET found == Sorted(GetOverlappingInputs(Files, m.level, m.begin, m.end), BySmallestKey)
      enough == {i \in DOMAIN found :
                   TotalFileSize({found[j] : j \in 1 .. i}) >= TargetFileSize}
      cut == IF m.level = 0 \/ enough = {} THEN Len(found)
             ELSE CHOOSE i \in enough : \A j \in enough : i <= j
  IN  {found[i] : i \in 1 .. cut}

IsTrivialMove(level, c) ==
  /\ Cardinality(c.in0) = 1 /\ c.in1 = {}
  /\ \/ level + 2 >= NumLevels
     \/ TotalFileSize(GetOverlappingInputs(Files, level + 2, LoKey(c.in0), HiKey(c.in0)))
          <= GrandparentLimit

\* No file further down may hold k.
IsBaseLevelForKey(c, k) ==
  \A level \in Level : level >= c.level + 2 =>
    ~\E n \in ToSet(versions[c.version].files[level]) : Overlaps(n, k, k)

\* Mutation: snapshots are not looked at.
SmallestSnapshotIgnored == LastSequence

SmallestSnapshot == IF snapshots = << >> THEN LastSequence ELSE Head(snapshots)

\* The entries DoCompactionWork does not drop.
Kept(c, S) ==
  {e \in S :
     /\ ~\E f \in S : UserKey(f) = UserKey(e) /\ f > e /\ f <= c.snapshot
     /\ ~(history[e].del /\ e <= c.snapshot /\ IsBaseLevelForKey(c, UserKey(e)))}

\* Mutation: only the inputs of the compaction's own level are deleted.
AddInputDeletionsOfLevel(c) == {c.level} \X c.in0

AddInputDeletions(c) == ({c.level} \X c.in0) \cup ({c.level + 1} \X c.in1)

\* Where the next output may end: when it is big enough or overlaps too many
\* grandparents, here anywhere, and at the end.
Cuts(rest) == {i \in DOMAIN rest : \/ i = Len(rest) \/ CutInsideKey
                                   \/ UserKey(rest[i]) # UserKey(rest[i + 1])}

\* Mutation: only the current version counts.
KeptTablesOfCurrent(tab, vs, v, pend) ==
  [n \in {n \in DOMAIN tab : n \in pend \cup FilesOf(vs[v].files)} |-> tab[n]]

\* DeleteObsoleteFiles, as far as tables are concerned.
KeptTables(tab, vs, v, pend) ==
  IF bgError THEN tab
  ELSE [n \in {n \in DOMAIN tab : n \in pend \cup AddLiveFiles(vs)} |-> tab[n]]

-----------------------------------------------------------------------------
Init ==
  /\ history = << >> /\ mem = {} /\ imm = {}
  /\ snapshots = << >>
  /\ table = << >>
  /\ versions = [v \in {0} |-> [files |-> [level \in Level |-> << >>], refs |-> 1, seek |-> None]]
  /\ current = 0
  /\ nextFile = 1
  /\ compactPointer = [level \in Level |-> 0]
  /\ pending = {}
  /\ flush = 0 /\ compact = None
  /\ manual = None /\ ops = 0
  /\ bgError = FALSE
  /\ reader = [r \in Reader |-> None]

\* A write, as WriteBatch::InsertInto files it.
Write(k, del) ==
  /\ LastSequence < MaxSeq
  /\ del => Cardinality({e \in 1 .. LastSequence : history[e].del}) < MaxDeletes
  /\ history' = Append(history, [key |-> k, del |-> del])
  /\ mem' = mem \cup {LastSequence + 1}
  /\ UNCHANGED <<treeVars, fileVars, clientVars, imm, flush, compact, manual, bgError>>

\* MakeRoomForWrite, or TEST_CompactMemTable.
SwitchMemTable ==
  /\ imm = {} /\ mem # {} /\ ~bgError
  /\ imm' = mem /\ mem' = {}
  /\ UNCHANGED <<treeVars, fileVars, clientVars, history, flush, compact, manual,
                 bgError>>

GetSnapshot ==
  /\ ops < MaxOps /\ ops' = ops + 1
  /\ snapshots' = Append(snapshots, LastSequence)
  /\ UNCHANGED <<dataVars, treeVars, fileVars, flush, compact, manual, bgError, reader>>

ReleaseSnapshot(i) ==
  /\ snapshots' = RemoveAt(snapshots, i)
  /\ UNCHANGED <<dataVars, treeVars, fileVars, flush, compact, manual, ops, bgError,
                 reader>>

\* Get up to the release of mutex_, or NewInternalIterator.
BeginRead(r, s) ==
  /\ reader[r] = None
  /\ ops < MaxOps /\ ops' = ops + 1
  /\ s \in ToSet(snapshots) \cup {LastSequence}
  /\ reader' = [reader EXCEPT ![r] = [seq |-> s, mem |-> mem, imm |-> imm, version |-> current]]
  /\ versions' = Ref(versions, current)
  /\ UNCHANGED <<dataVars, fileVars, snapshots, table, current, flush, compact,
                 manual, bgError>>

\* UpdateStats, when the file's allowed_seeks are used up.
UpdateStats(vs, v, seek) ==
  IF vs[v].seek = None THEN [vs EXCEPT ![v].seek = seek] ELSE vs

\* Get from where it takes mutex_ again, having looked at two files or more for a
\* key that was not in memory.
EndGet(r, k) ==
  LET h == reader[r]
      seek == SeekFile(versions[h.version].files, k, h.seq)
  IN
  /\ h # None
  /\ Newest(h.mem \cup h.imm, k, h.seq) = 0
  /\ seek # None
  /\ versions' = Unref(UpdateStats(versions, h.version, seek), h.version)
  /\ reader' = [reader EXCEPT ![r] = None]
  /\ UNCHANGED <<dataVars, fileVars, snapshots, table, current, flush, compact,
                 manual, ops, bgError>>

\* An iterator is deleted (CleanupIteratorState), or a Get ends without a seek to charge.
EndRead(r) ==
  /\ reader[r] # None
  /\ versions' = Unref(versions, reader[r].version)
  /\ reader' = [reader EXCEPT ![r] = None]
  /\ UNCHANGED <<dataVars, fileVars, snapshots, table, current, flush, compact,
                 manual, ops, bgError>>

\* An iterator samples a read of entry e, which uses up allowed_seeks of a file of
\* the current version.
RecordReadSample(e) ==
  LET seq == ForEachOverlapping(Files, UserKey(e), e) IN
  /\ \E r \in Reader : reader[r] # None /\ e <= reader[r].seq
  /\ Len(seq) >= 2
  /\ versions[current].seek = None
  /\ versions' = UpdateStats(versions, current, seq[1])
  /\ UNCHANGED <<dataVars, fileVars, clientVars, table, current, flush, compact, manual,
                 bgError>>

\* CompactRange: the levels to compact, and the memtable is sent to imm_.
CompactRange(lo, hi) ==
  LET reach == {1} \cup {level \in Level \ {0} : OverlapInLevel(Files, level, lo, hi)} IN
  /\ manual = None /\ ~bgError
  /\ lo <= hi /\ imm = {}
  /\ imm' = mem /\ mem' = {}
  /\ manual' = [level |-> -1, begin |-> lo, end |-> hi, first |-> lo, installed |-> FALSE,
                levels |-> CHOOSE level \in reach : \A l \in reach : level >= l]
  /\ ops < MaxOps /\ ops' = ops + 1
  /\ UNCHANGED <<treeVars, fileVars, history, snapshots, flush, compact, bgError,
                 reader>>

\* TEST_CompactMemTable has seen imm_ gone, or TEST_CompactRange ended: the next level.
NextLevel(m) ==
  IF m.level + 1 = m.levels THEN None
  ELSE [m EXCEPT !.level = @ + 1, !.begin = m.first, !.installed = TRUE]

\* TEST_CompactRange installs its ManualCompaction, at first or for the rest of its range.
InstallManual ==
  /\ manual # None /\ ~manual.installed /\ ~bgError
  /\ manual.level = -1 => imm = {}
  /\ manual' = IF manual.level = -1 THEN NextLevel(manual) ELSE [manual EXCEPT !.installed = TRUE]
  /\ UNCHANGED <<dataVars, treeVars, fileVars, clientVars, flush, compact, bgError>>

-----------------------------------------------------------------------------
(* The background thread.                                                  *)

\* LogAndApply of an edit that drops a reference besides, and
\* DeleteObsoleteFiles if the caller does that.
Install(files, unref, pend, delete) ==
  LET appended == AppendVersion(versions, files)
      vs == IF unref = None THEN appended ELSE Unref(appended, unref)
  IN  /\ versions' = vs
      /\ current' = current + 1
      /\ pending' = pend
      /\ table' = IF delete THEN KeptTables(table, vs, current + 1, pend) ELSE table

\* A table of the entries S is written, as the next file.
TablesWith(S) ==
  [n \in DOMAIN table \cup {nextFile} |-> IF n = nextFile THEN Table(S) ELSE table[n]]

\* CompactMemTable up to the end of BuildTable: at the start of background work,
\* or between two entries of a compaction.
BeginFlush ==
  /\ imm # {} /\ flush = 0 /\ (bgError => compact # None) /\ nextFile <= MaxFile
  /\ compact # None => compact.rest # << >> /\ (FlushDuringManual \/ ~compact.manual)
  /\ flush' = nextFile
  /\ nextFile' = nextFile + 1
  /\ table' = TablesWith(imm)
  /\ pending' = pending \cup {nextFile}
  /\ UNCHANGED <<dataVars, clientVars, versions, current, compactPointer, compact,
                 manual, bgError>>

EndFlush ==
  LET level == PickLevelForMemTableOutput(SmallKey(flush), LargeKey(flush)) IN
  /\ flush # 0
  /\ Install(SaveTo(Files, {}, {<<level, flush>>}), None, pending \ {flush}, TRUE)
  /\ imm' = {}
  /\ flush' = 0
  /\ UNCHANGED <<clientVars, history, mem, nextFile, compactPointer, compact, manual,
                 bgError>>

\* A flush cannot write its table or the manifest.  A compaction around it goes
\* on, and flushes again before its next entry.  A caller of CompactRange gives
\* up: one whose compaction is at work when that has ended (DBImpl shows what
\* happens when it does so before).
FlushFails ==
  /\ flush # 0
  /\ ops < MaxOps /\ ops' = ops + 1
  /\ bgError' = TRUE
  /\ flush' = 0 /\ pending' = pending \ {flush}
  /\ manual' = IF compact # None /\ compact.manual THEN manual ELSE None
  /\ UNCHANGED <<dataVars, treeVars, snapshots, nextFile, compactPointer, compact, reader>>

\* A compaction cannot write an output or the manifest: CleanupCompaction.
CompactionFails ==
  /\ compact # None /\ flush = 0
  /\ ops < MaxOps /\ ops' = ops + 1
  /\ bgError' = TRUE
  /\ compact' = None
  /\ versions' = Unref(versions, compact.version)
  /\ pending' = pending \ compact.outs
  /\ manual' = None
  /\ UNCHANGED <<dataVars, snapshots, table, current, nextFile, compactPointer, flush, reader>>

\* A trivial move, or the start of DoCompactionWork.
StartCompaction(level, c, isManual) ==
  /\ compactPointer' = [compactPointer EXCEPT ![level] = Final(Entries(c.in0))]
  /\ IF ~isManual /\ IsTrivialMove(level, c)
       THEN LET n == CHOOSE n \in c.in0 : TRUE IN
            /\ Install(SaveTo(Files, {<<level, n>>}, {<<level + 1, n>>}), None, pending, FALSE)
            /\ UNCHANGED compact
       ELSE LET job == [level |-> level, in0 |-> c.in0, in1 |-> c.in1, version |-> current,
                        snapshot |-> SmallestSnapshot, manual |-> isManual, outs |-> {},
                        rest |-> << >>]
                kept == Kept(job, Entries(c.in0 \cup c.in1))
            IN /\ versions' = Ref(versions, current)
               /\ compact' = [job EXCEPT !.rest = Sorted(kept, Before)]
               /\ UNCHANGED <<current, pending, table>>
  /\ UNCHANGED <<dataVars, clientVars, nextFile, flush, bgError>>

\* BackgroundCompaction goes by imm_, then by the manual compaction.
ManualInstalled == manual # None /\ manual.installed
Idle == compact = None /\ flush = 0 /\ imm = {} /\ ~bgError

AutomaticCompaction ==
  LET p == PickedFile IN
  /\ Idle /\ ~ManualInstalled
  /\ p # None
  /\ StartCompaction(p.level, SetupOtherInputs(p.level, PickedInputs(p)), FALSE)
  /\ UNCHANGED manual

ManualCompaction ==
  /\ Idle /\ ManualInstalled
  /\ RangeInputs(manual) # {}
  /\ StartCompaction(manual.level, SetupOtherInputs(manual.level, RangeInputs(manual)), TRUE)
  /\ UNCHANGED manual

ManualDone ==
  /\ Idle /\ ManualInstalled
  /\ RangeInputs(manual) = {}
  /\ manual' = NextLevel(manual)
  /\ UNCHANGED <<dataVars, treeVars, fileVars, clientVars, flush, compact, bgError>>

\* An output is written and closed.
CompactionOutput(cut) ==
  /\ compact # None /\ flush = 0 /\ nextFile <= MaxFile
  /\ cut \in Cuts(compact.rest)
  /\ table' = TablesWith(ToSet(SubSeq(compact.rest, 1, cut)))
  /\ pending' = pending \cup {nextFile}
  /\ nextFile' = nextFile + 1
  /\ compact' = [compact EXCEPT !.outs = @ \cup {nextFile},
                                !.rest = SubSeq(@, cut + 1, Len(@))]
  /\ UNCHANGED <<dataVars, clientVars, versions, current, compactPointer, flush,
                 manual, bgError>>

\* Where a manual compaction says it got to: the end of its last input file.
LastInput(ns) == CHOOSE n \in ns : \A m \in ns : m = n \/ BySmallestKey(m, n)
ManualEnd == LargeKey(LastInput(compact.in0))

\* InstallCompactionResults and what follows it up to the end of BackgroundCompaction.
CompactionDone ==
  /\ compact # None /\ flush = 0 /\ compact.rest = << >>
  /\ Install(SaveTo(Files, AddInputDeletions(compact), {compact.level + 1} \X compact.outs),
             compact.version, pending \ compact.outs, TRUE)
  /\ compact' = None
  /\ manual' = IF ~compact.manual THEN manual
               ELSE IF bgError THEN None
               ELSE [manual EXCEPT !.begin = ManualEnd, !.installed = FALSE]
  /\ UNCHANGED <<dataVars, clientVars, nextFile, compactPointer, flush, bgError>>

Background ==
  \/ BeginFlush \/ EndFlush \/ AutomaticCompaction \/ ManualCompaction \/ ManualDone
  \/ (compact # None /\ \E cut \in DOMAIN compact.rest : CompactionOutput(cut))
  \/ CompactionDone

Next ==
  \/ \E k \in Key, del \in BOOLEAN : Write(k, del)
  \/ SwitchMemTable \/ GetSnapshot
  \/ \E i \in DOMAIN snapshots : ReleaseSnapshot(i)
  \/ \E r \in Reader, s \in 0 .. MaxSeq : BeginRead(r, s)
  \/ \E r \in Reader, k \in Key : EndGet(r, k)
  \/ \E r \in Reader : EndRead(r)
  \/ \E e \in 1 .. LastSequence : RecordReadSample(e)
  \/ \E lo \in RangeBegin, hi \in RangeEnd : CompactRange(lo, hi)
  \/ InstallManual
  \/ Background
  \/ FlushFails \/ CompactionFails

Spec == Init /\ [][Next]_vars

-----------------------------------------------------------------------------
\* The types of the state.
TypeOK ==
  /\ history \in Seq([key : Key, del : BOOLEAN]) /\ LastSequence <= MaxSeq
  /\ mem \subseteq SeqNo /\ imm \subseteq SeqNo
  /\ \A i \in DOMAIN snapshots : snapshots[i] \in 0 .. LastSequence
  /\ DOMAIN table \subseteq FileNo /\ pending \subseteq FileNo
  /\ current \in DOMAIN versions

\* What was written for k as of s.
Written(k, s) == Value(Newest(1 .. LastSequence, k, s))

Visible == ToSet(snapshots) \cup {LastSequence}

\* DBImpl::Get, which stops at the first level that has the key, returns what
\* was written last as of its sequence number: for the newest state, for every
\* snapshot whatever compactions dropped, and for a read that holds an old
\* version while flushes and compactions go on.
GetSeesHistory ==
  \A k \in Key :
    /\ \A s \in Visible : Value(Get(mem, imm, Files, k, s)) = Written(k, s)
    /\ \A r \in Reader : reader[r] # None =>
         Value(Get(reader[r].mem, reader[r].imm, versions[reader[r].version].files,
                   k, reader[r].seq)) = Written(k, reader[r].seq)

\* An iterator, which merges everything, sees the same: DoCompactionWork drops
\* no entry a snapshot needs and no deletion that still hides something.
ScanSeesHistory ==
  \A k \in Key, s \in Visible :
    Value(Newest(mem \cup imm \cup Entries(FilesOf(Files)), k, s)) = Written(k, s)

\* The files of a level above 0 are sorted and do not overlap, as the assertion
\* of Builder::MaybeAddFile has it, also when a flush was nested in a compaction.
LevelsDisjoint ==
  \A v \in DOMAIN versions : \A level \in Level \ {0} :
    LET files == versions[v].files[level] IN
    \A i \in 1 .. Len(files) - 1 : Before(Largest(files[i]), Smallest(files[i + 1]))

\* A version that a reader or the compaction holds is alive, and the tables of
\* every live version and the outputs of the compaction are on disk:
\* DeleteObsoleteFiles takes nothing that is in use.
FilesPresent ==
  /\ \A r \in Reader : reader[r] # None => reader[r].version \in DOMAIN versions
  /\ compact # None => compact.version \in DOMAIN versions /\ compact.outs \subseteq DOMAIN table
  /\ AddLiveFiles(versions) \subseteq DOMAIN table
=============================================================================
