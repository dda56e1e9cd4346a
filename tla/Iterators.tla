----------------------------- MODULE Iterators -----------------------------
(***************************************************************************)
(* Reading a leveldb database at a snapshot: the tables that TableBuilder  *)
(* writes (prefix-compressed blocks with restart points, an index of       *)
(* shortened separators, a filter per range of file offsets) and the stack *)
(* of iterators that reads them back:                                      *)
(*                                                                         *)
(*   DBIter -> MergingIterator -> memtable iterator                        *)
(*                             -> TwoLevelIterator of a level-0 table      *)
(*                             -> TwoLevelIterator over the files of       *)
(*                                level 1, each a TwoLevelIterator over    *)
(*                                the blocks of a table                    *)
(*                                                                         *)
(* A client positions one DBIter and moves it back and forth while another *)
(* thread goes on inserting into the memtable under it.                    *)
(*                                                                         *)
(* Bytes are the digits 0..Top (Top stands for 0xff), a user key is a      *)
(* sequence of them, and an internal key is the user key followed by its   *)
(* 8-byte trailer, here <<type, sequence>>: the same order of bytes as the *)
(* little-endian PackSequenceAndType, so that shared prefixes run into the *)
(* trailer as they do in the code.  The value of an entry is its sequence  *)
(* number.  The offset of an entry in its block is its index.              *)
(***************************************************************************)
EXTENDS Integers, Sequences, FiniteSets, SequencesExt, FiniteSetsExt

CONSTANTS Top,              \* the largest byte
          MaxSequence,      \* kMaxSequenceNumber
          Keys,             \* user keys that are written
          Targets,          \* user keys that are sought
          Contents,         \* databases: [level1, level0, mem], sequences of writes
          CutKey,           \* the files of level 1 are split after this key
          RestartInterval,  \* options.block_restart_interval
          BlockSize,        \* options.block_size
          FilterBase,       \* kFilterBase
          MaxInserts        \* bound: writes while the iterator is open

ASSUME IteratorsAssumption ==
    /\ {Top, MaxSequence, RestartInterval, BlockSize, FilterBase} \subseteq Nat \ {0}
    /\ MaxInserts \in Nat
    /\ Keys \subseteq Seq(0..Top) /\ Targets \subseteq Seq(0..Top)

VARIABLES tables,    \* the table files, by number
          bad,       \* blocks whose ReadBlock fails, as <<file, offset>>;
                     \* <<file, -1>> is the index block, <<file, -2>> the filter
          mem,       \* the internal keys in the memtable
          sequence,  \* the iterator's snapshot
          iter,      \* the DBIter
          op         \* history: the last call and the position it started from

vars == <<tables, bad, mem, sequence, iter, op>>

kTypeDeletion == 0
kTypeValue == 1
kValueTypeForSeek == kTypeValue

-----------------------------------------------------------------------------
(* Keys (db/dbformat.cc, util/comparator.cc)                               *)

BytesLess(a, b) ==
    \/ IsStrictPrefix(a, b)
    \/ \E i \in 1..Len(a) \cap 1..Len(b) :
          a[i] < b[i] /\ \A j \in 1..(i - 1) : a[j] = b[j]

ExtractUserKey(k) == SubSeq(k, 1, Len(k) - 2)
TypeOf(k) == k[Len(k) - 1]
SequenceOf(k) == k[Len(k)]
InternalKey(user, seq, type) == user \o <<type, seq>>

\* InternalKeyComparator::Compare(a, b) < 0: by user key, newest first.
Less(a, b) ==
    LET ua == ExtractUserKey(a)
        ub == ExtractUserKey(b)
    IN  \/ BytesLess(ua, ub)
        \/ ua = ub /\ \/ SequenceOf(a) > SequenceOf(b)
                      \/ SequenceOf(a) = SequenceOf(b) /\ TypeOf(a) > TypeOf(b)

SharedLength(a, b) ==
    Max({0} \cup {i \in 1..Len(a) \cap 1..Len(b) : SubSeq(a, 1, i) = SubSeq(b, 1, i)})

UserSeparator(start, limit) ==
    LET d == SharedLength(start, limit) + 1
    IN  IF d > Len(start) \/ d > Len(limit) \/ start[d] + 1 >= limit[d]
        THEN start
        ELSE Append(SubSeq(start, 1, d - 1), start[d] + 1)

UserSuccessor(key) ==
    LET low == {i \in 1..Len(key) : key[i] # Top}
    IN  IF low = {} THEN key
        ELSE Append(SubSeq(key, 1, Min(low) - 1), key[Min(low)] + 1)

\* The shortened user key replaces the key only if it is shorter and larger.
Shortened(start, tmp) ==
    LET user == ExtractUserKey(start)
    IN  IF Len(tmp) < Len(user) /\ BytesLess(user, tmp)
        THEN InternalKey(tmp, MaxSequence, kValueTypeForSeek)
        ELSE start

FindShortestSeparator(start, limit) ==
    Shortened(start, UserSeparator(ExtractUserKey(start), ExtractUserKey(limit)))

FindShortSuccessor(key) == Shortened(key, UserSuccessor(ExtractUserKey(key)))

-----------------------------------------------------------------------------
(* BlockBuilder (table/block_builder.cc)                                   *)

EmptyBlock == [buffer |-> <<>>, restarts |-> <<0>>, counter |-> 0, last_key |-> <<>>]

\* A buffered entry stores what it does not share with the key before it.
BlockAdd(b, interval, key, value) ==
    LET fresh  == b.counter >= interval
        shared == IF fresh THEN 0 ELSE SharedLength(b.last_key, key)
    IN  [buffer   |-> Append(b.buffer, [shared |-> shared, value |-> value,
                                        rest |-> SubSeq(key, shared + 1, Len(key))]),
         restarts |-> IF fresh THEN Append(b.restarts, Len(b.buffer)) ELSE b.restarts,
         counter  |-> IF fresh THEN 1 ELSE b.counter + 1,
         last_key |-> key]

CurrentSizeEstimate(b) ==
    FoldLeft(LAMBDA n, e : n + Len(e.rest) + 1, Len(b.restarts), b.buffer)

-----------------------------------------------------------------------------
(* FilterBlockBuilder and FilterBlockReader (table/filter_block.cc).  A    *)
(* filter is the set of user keys it was made from: the Bloom filter of    *)
(* util/bloom.cc matches all of these, and others by chance.               *)

GenerateFilter(f) == [keys |-> {}, filters |-> Append(f.filters, f.keys)]

RECURSIVE StartBlock(_, _)
StartBlock(f, offset) ==
    IF offset \div FilterBase > Len(f.filters)
    THEN StartBlock(GenerateFilter(f), offset)
    ELSE f

AddKey(f, key) == [f EXCEPT !.keys = @ \cup {ExtractUserKey(key)}]

FilterFinish(f) == IF f.keys = {} THEN f.filters ELSE GenerateFilter(f).filters

\* chance: the Bloom filter matches a key that was not added.  An empty filter
\* matches nothing; an offset past the last filter matches everything.
KeyMayMatch(filters, offset, key, chance) ==
    LET index == offset \div FilterBase
    IN  index < Len(filters) =>
           /\ filters[index + 1] # {}
           /\ ExtractUserKey(key) \in filters[index + 1] \/ chance

-----------------------------------------------------------------------------
(* TableBuilder (table/table_builder.cc)                                   *)

NewRep == [offset |-> 0, data |-> EmptyBlock, index |-> EmptyBlock, last_key |-> <<>>,
           blocks |-> <<>>, filter |-> [keys |-> {}, filters |-> <<>>],
           pending |-> FALSE, handle |-> 0]

\* WriteBlock of the data block, then the filter of the next offset is begun.
Flush(r) ==
    IF r.data.buffer = <<>> THEN r
    ELSE LET end == r.offset + CurrentSizeEstimate(r.data)
         IN  [r EXCEPT !.blocks  = Append(@, [offset |-> r.offset, block |-> r.data]),
                       !.handle  = r.offset,
                       !.offset  = end,
                       !.data    = EmptyBlock,
                       !.pending = TRUE,
                       !.filter  = StartBlock(@, end)]

\* The index entry of a finished block waits for the first key of the next.
AddPendingIndex(r, separator) ==
    IF r.pending
    THEN [r EXCEPT !.index = BlockAdd(@, 1, separator, r.handle), !.pending = FALSE]
    ELSE r

TableAdd(r, key) ==
    LET i == AddPendingIndex(r, FindShortestSeparator(r.last_key, key))
        a == [i EXCEPT !.filter   = AddKey(@, key),
                       !.last_key = key,
                       !.data     = BlockAdd(@, RestartInterval, key, SequenceOf(key))]
    IN  IF CurrentSizeEstimate(a.data) >= BlockSize THEN Flush(a) ELSE a

TableFinish(r) ==
    LET f == Flush(r)
    IN  [blocks  |-> f.blocks,
         filters |-> FilterFinish(f.filter),
         index   |-> AddPendingIndex(f, FindShortSuccessor(f.last_key)).index]

\* db/builder.cc; "entries" is what went in, for the properties.
BuildTable(entries) ==
    LET r == FoldLeft(TableAdd, NewRep, SetToSortSeq(entries, Less))
    IN  TableFinish(r) @@ [largest |-> r.last_key, entries |-> entries]

-----------------------------------------------------------------------------
(* The iterators' common interface.  An iterator is a record with a kind;  *)
(* Valid, Key, Value, Ok (status().ok()) and the five moves dispatch on it *)
(* as the virtual functions do.  IteratorWrapper's copies of valid and key *)
(* are refreshed by every move and are not kept apart.                     *)

NoIter == [kind |-> "none"]                    \* a NULL data_iter_
NewErrorIterator == [kind |-> "error"]         \* never valid, status not ok

\* A block is named by its file and its offset, the index block by offset -1.
BlockAt(at) ==
    IF at[2] = -1 THEN tables[at[1]].index
    ELSE (CHOOSE b \in Range(tables[at[1]].blocks) : b.offset = at[2]).block

Restarts(it) == Len(BlockAt(it.at).buffer)      \* restarts_: the end of the entries
NumRestarts(it) == Len(BlockAt(it.at).restarts)
GetRestartPoint(it, i) == BlockAt(it.at).restarts[i + 1]

RECURSIVE Valid(_)
Valid(it) ==
    CASE it.kind \in {"none", "error"} -> FALSE
      [] it.kind = "mem"   -> it.node # <<>>
      [] it.kind = "files" -> it.index < Len(it.files)
      [] it.kind = "block" -> it.current < Restarts(it)
      [] it.kind = "two"   -> Valid(it.data)
      [] it.kind = "merge" -> it.current # 0

RECURSIVE Key(_)
Key(it) ==
    CASE it.kind = "mem"   -> it.node
      [] it.kind = "block" -> it.key
      [] it.kind = "two"   -> Key(it.data)
      [] it.kind = "merge" -> Key(it.children[it.current])

RECURSIVE Value(_)
Value(it) ==
    CASE it.kind = "mem"   -> SequenceOf(it.node)
      [] it.kind = "files" -> it.files[it.index + 1]
      [] it.kind = "block" -> BlockAt(it.at).buffer[it.current + 1].value
      [] it.kind = "two"   -> Value(it.data)
      [] it.kind = "merge" -> Value(it.children[it.current])

RECURSIVE Ok(_)
Ok(it) ==
    CASE it.kind = "error" -> FALSE
      [] it.kind = "two"   -> ~it.failed /\ Ok(it.index) /\ Ok(it.data)
      [] it.kind = "merge" -> \A i \in DOMAIN it.children : Ok(it.children[i])
      [] OTHER -> TRUE

RECURSIVE Seek(_, _), SeekToFirst(_), SeekToLast(_), Next(_), Prev(_)

-----------------------------------------------------------------------------
(* The memtable's iterator (db/memtable.cc, db/skiplist.h).  Each move     *)
(* searches the list as it is then, later insertions included.             *)

LeastOf(S) == IF S = {} THEN <<>> ELSE CHOOSE k \in S : \A o \in S : k = o \/ Less(k, o)
GreatestOf(S) == IF S = {} THEN <<>> ELSE CHOOSE k \in S : \A o \in S : k = o \/ Less(o, k)

MemSeek(it, target) == [it EXCEPT !.node = LeastOf({k \in mem : ~Less(k, target)})]
MemSeekToFirst(it) == [it EXCEPT !.node = LeastOf(mem)]
MemSeekToLast(it) == [it EXCEPT !.node = GreatestOf(mem)]
MemNext(it) == [it EXCEPT !.node = LeastOf({k \in mem : Less(it.node, k)})]
MemPrev(it) == [it EXCEPT !.node = GreatestOf({k \in mem : Less(k, it.node)})]

-----------------------------------------------------------------------------
(* Block::Iter (table/block.cc)                                            *)

NewBlockIter(at) ==
    [kind |-> "block", at |-> at, current |-> Len(BlockAt(at).buffer),
     restart_index |-> Len(BlockAt(at).restarts), key |-> <<>>, next |-> 0]

\* next is NextEntryOffset(), the end of value_.
SeekToRestartPoint(it, i) ==
    [it EXCEPT !.key = <<>>, !.restart_index = i, !.next = GetRestartPoint(it, i)]

Exhausted(it) == [it EXCEPT !.current = Restarts(it), !.restart_index = NumRestarts(it)]

ParseNextKey(it) ==
    IF it.next >= Restarts(it) THEN Exhausted(it)
    ELSE LET e == BlockAt(it.at).buffer[it.next + 1]
         IN  [it EXCEPT !.current = it.next,
                        !.key     = SubSeq(@, 1, e.shared) \o e.rest,
                        !.next    = @ + 1,
                        !.restart_index =
                            Max({@} \cup {i \in @..(NumRestarts(it) - 1) :
                                             GetRestartPoint(it, i) < it.next})]

\* Parse on until the entry that ends at or after "end", or the last one.
RECURSIVE ParseUpTo(_, _)
ParseUpTo(it, end) ==
    LET p == ParseNextKey(it)
    IN  IF Valid(p) /\ p.next < end THEN ParseUpTo(p, end) ELSE p

BlockPrev(it) ==
    LET before == {i \in 0..it.restart_index : GetRestartPoint(it, i) < it.current}
    IN  IF before = {} THEN Exhausted(it)
        ELSE ParseUpTo(SeekToRestartPoint(it, Max(before)), it.current)

\* The key at a restart point is stored whole.
RECURSIVE LastRestartBefore(_, _, _, _)
LastRestartBefore(it, target, left, right) ==
    IF left >= right THEN left
    ELSE LET mid == (left + right + 1) \div 2
         IN  IF Less(BlockAt(it.at).buffer[GetRestartPoint(it, mid) + 1].rest, target)
             THEN LastRestartBefore(it, target, mid, right)
             ELSE LastRestartBefore(it, target, left, mid - 1)

RECURSIVE ParseToTarget(_, _)
ParseToTarget(it, target) ==
    LET p == ParseNextKey(it)
    IN  IF Valid(p) /\ Less(p.key, target) THEN ParseToTarget(p, target) ELSE p

BlockSeek(it, target) ==
    ParseToTarget(SeekToRestartPoint(it, LastRestartBefore(it, target, 0, NumRestarts(it) - 1)),
                  target)

BlockSeekToFirst(it) == ParseNextKey(SeekToRestartPoint(it, 0))

BlockSeekToLast(it) == ParseUpTo(SeekToRestartPoint(it, NumRestarts(it) - 1), Restarts(it))

-----------------------------------------------------------------------------
(* LevelFileNumIterator (db/version_set.cc): the files of a level, sorted. *)

FindFile(files, target) ==
    Min({Len(files)} \cup
        {i \in 0..(Len(files) - 1) : ~Less(tables[files[i + 1]].largest, target)})

FilesSeek(it, target) == [it EXCEPT !.index = FindFile(it.files, target)]
FilesPrev(it) == [it EXCEPT !.index = IF @ = 0 THEN Len(it.files) ELSE @ - 1]

-----------------------------------------------------------------------------
(* TwoLevelIterator (table/two_level_iterator.cc)                          *)

NewTwoLevelIterator(index) ==
    [kind |-> "two", index |-> index, data |-> NoIter, handle |-> -1, failed |-> FALSE]

\* Table::Open fails if the index cannot be read; without its filter a table is
\* opened all the same, and then every key may match.
Opens(t) == <<t, -1>> \notin bad
FilterOf(t) == IF <<t, -2>> \in bad THEN <<>> ELSE tables[t].filters

\* TableCache::NewIterator
NewTableIterator(t) ==
    IF Opens(t) THEN NewTwoLevelIterator(NewBlockIter(<<t, -1>>)) ELSE NewErrorIterator

\* Table::BlockReader
BlockReader(t, offset) ==
    IF <<t, offset>> \in bad THEN NewErrorIterator ELSE NewBlockIter(<<t, offset>>)

\* block_function_: GetFileIterator for the files of a level.
BlockFunction(index, handle) ==
    IF index.kind = "files" THEN NewTableIterator(handle)
    ELSE BlockReader(index.at[1], handle)

\* Mutant: the status is that of the iterator replaced last.
SetDataIteratorLatest(it, data) == [it EXCEPT !.data = data, !.failed = ~Ok(it.data)]

SetDataIterator(it, data) == [it EXCEPT !.data = data, !.failed = @ \/ ~Ok(it.data)]

\* The data iterator of a block, unless it is there already.
UseBlock(it, handle) ==
    IF it.data.kind # "none" /\ handle = it.handle THEN it
    ELSE SetDataIterator([it EXCEPT !.handle = handle], BlockFunction(it.index, handle))

InitDataBlock(it) ==
    IF ~Valid(it.index) THEN SetDataIterator(it, NoIter)
    ELSE UseBlock(it, Value(it.index))

RECURSIVE SkipEmptyDataBlocksForward(_)
SkipEmptyDataBlocksForward(it) ==
    CASE Valid(it.data)   -> it
      [] ~Valid(it.index) -> SetDataIterator(it, NoIter)
      [] OTHER -> LET i == InitDataBlock([it EXCEPT !.index = Next(@)])
                  IN  SkipEmptyDataBlocksForward([i EXCEPT !.data = SeekToFirst(@)])

RECURSIVE SkipEmptyDataBlocksBackward(_)
SkipEmptyDataBlocksBackward(it) ==
    CASE Valid(it.data)   -> it
      [] ~Valid(it.index) -> SetDataIterator(it, NoIter)
      [] OTHER -> LET i == InitDataBlock([it EXCEPT !.index = Prev(@)])
                  IN  SkipEmptyDataBlocksBackward([i EXCEPT !.data = SeekToLast(@)])

TwoSeek(it, target) ==
    LET i == InitDataBlock([it EXCEPT !.index = Seek(@, target)])
    IN  SkipEmptyDataBlocksForward([i EXCEPT !.data = Seek(@, target)])

TwoSeekToFirst(it) ==
    LET i == InitDataBlock([it EXCEPT !.index = SeekToFirst(@)])
    IN  SkipEmptyDataBlocksForward([i EXCEPT !.data = SeekToFirst(@)])

TwoSeekToLast(it) ==
    LET i == InitDataBlock([it EXCEPT !.index = SeekToLast(@)])
    IN  SkipEmptyDataBlocksBackward([i EXCEPT !.data = SeekToLast(@)])

TwoNext(it) == SkipEmptyDataBlocksForward([it EXCEPT !.data = Next(@)])
TwoPrev(it) == SkipEmptyDataBlocksBackward([it EXCEPT !.data = Prev(@)])

-----------------------------------------------------------------------------
(* MergingIterator (table/merger.cc)                                       *)

ValidChildren(it) == {i \in DOMAIN it.children : Valid(it.children[i])}

\* Of equal keys the first child; of equal largest keys the last one.
FindSmallest(it) ==
    LET v == ValidChildren(it)
        k(i) == Key(it.children[i])
    IN  [it EXCEPT !.current = IF v = {} THEN 0
            ELSE CHOOSE i \in v : \A j \in v \ {i} : Less(k(i), k(j)) \/ (k(i) = k(j) /\ i < j)]

FindLargest(it) ==
    LET v == ValidChildren(it)
        k(i) == Key(it.children[i])
    IN  [it EXCEPT !.current = IF v = {} THEN 0
            ELSE CHOOSE i \in v : \A j \in v \ {i} : Less(k(j), k(i)) \/ (k(i) = k(j) /\ i > j)]

MergeSeek(it, target) ==
    FindSmallest([it EXCEPT !.children = [i \in DOMAIN @ |-> Seek(@[i], target)],
                            !.direction = "forward"])

MergeSeekToFirst(it) ==
    FindSmallest([it EXCEPT !.children = [i \in DOMAIN @ |-> SeekToFirst(@[i])],
                            !.direction = "forward"])

MergeSeekToLast(it) ==
    FindLargest([it EXCEPT !.children = [i \in DOMAIN @ |-> SeekToLast(@[i])],
                           !.direction = "reverse"])

\* Mutant: the other children stay where the reverse scan left them.
TurnForwardOnly(it) == [it EXCEPT !.direction = "forward"]

\* On a change of direction the other children, which stand at or behind key()
\* after a Seek, are brought past it.
Past(child, key) == IF Valid(child) /\ Key(child) = key THEN Next(child) ELSE child
Short(child) == IF Valid(child) THEN Prev(child) ELSE SeekToLast(child)

TurnForward(it) ==
    [it EXCEPT !.direction = "forward",
               !.children  = [i \in DOMAIN @ |-> IF i = it.current THEN @[i]
                                                 ELSE Past(Seek(@[i], Key(it)), Key(it))]]

TurnReverse(it) ==
    [it EXCEPT !.direction = "reverse",
               !.children  = [i \in DOMAIN @ |-> IF i = it.current THEN @[i]
                                                 ELSE Short(Seek(@[i], Key(it)))]]

CurrentNext(it) == [it EXCEPT !.children[it.current] = Next(@)]
CurrentPrev(it) == [it EXCEPT !.children[it.current] = Prev(@)]

MergeNext(it) ==
    FindSmallest(CurrentNext(IF it.direction = "forward" THEN it ELSE TurnForward(it)))

MergePrev(it) ==
    FindLargest(CurrentPrev(IF it.direction = "reverse" THEN it ELSE TurnReverse(it)))

-----------------------------------------------------------------------------
(* The dispatch of the five moves (include/leveldb/iterator.h)             *)

Seek(it, target) ==
    CASE it.kind \in {"none", "error"} -> it
      [] it.kind = "mem"   -> MemSeek(it, target)
      [] it.kind = "files" -> FilesSeek(it, target)
      [] it.kind = "block" -> BlockSeek(it, target)
      [] it.kind = "two"   -> TwoSeek(it, target)
      [] it.kind = "merge" -> MergeSeek(it, target)

SeekToFirst(it) ==
    CASE it.kind \in {"none", "error"} -> it
      [] it.kind = "mem"   -> MemSeekToFirst(it)
      [] it.kind = "files" -> [it EXCEPT !.index = 0]
      [] it.kind = "block" -> BlockSeekToFirst(it)
      [] it.kind = "two"   -> TwoSeekToFirst(it)
      [] it.kind = "merge" -> MergeSeekToFirst(it)

SeekToLast(it) ==
    CASE it.kind \in {"none", "error"} -> it
      [] it.kind = "mem"   -> MemSeekToLast(it)
      [] it.kind = "files" -> [it EXCEPT !.index = Len(it.files) - 1]
      [] it.kind = "block" -> BlockSeekToLast(it)
      [] it.kind = "two"   -> TwoSeekToLast(it)
      [] it.kind = "merge" -> MergeSeekToLast(it)

Next(it) ==
    CASE it.kind = "mem"   -> MemNext(it)
      [] it.kind = "files" -> [it EXCEPT !.index = @ + 1]
      [] it.kind = "block" -> ParseNextKey(it)
      [] it.kind = "two"   -> TwoNext(it)
      [] it.kind = "merge" -> MergeNext(it)

Prev(it) ==
    CASE it.kind = "mem"   -> MemPrev(it)
      [] it.kind = "files" -> FilesPrev(it)
      [] it.kind = "block" -> BlockPrev(it)
      [] it.kind = "two"   -> TwoPrev(it)
      [] it.kind = "merge" -> MergePrev(it)

-----------------------------------------------------------------------------
(* DBIter (db/db_iter.cc)                                                  *)

NewDBIterator(internal) ==
    [iter |-> internal, direction |-> "forward", valid |-> FALSE,
     saved_key |-> <<>>, saved_value |-> 0]

\* key() and value(), or no position at all.
Nowhere == <<>>
Position(d) ==
    IF ~d.valid THEN Nowhere
    ELSE IF d.direction = "forward" THEN <<ExtractUserKey(Key(d.iter)), Value(d.iter)>>
    ELSE <<d.saved_key, d.saved_value>>

AtEnd(d) == [d EXCEPT !.valid = FALSE, !.saved_key = <<>>]

Visible(k) == SequenceOf(k) <= sequence
IsDeletion(k) == Visible(k) /\ TypeOf(k) = kTypeDeletion

\* saved_key is the key to skip while skipping; k is the entry the iterator is at.
RECURSIVE FindNextUserEntry(_, _)
SkipEntry(d, k, skipping) ==
    LET after == [d EXCEPT !.iter = Next(@),
                           !.saved_key = IF IsDeletion(k) THEN ExtractUserKey(k) ELSE @]
    IN  FindNextUserEntry(after, skipping \/ IsDeletion(k))
NextUserEntryAt(d, k, skipping) ==
    IF /\ Visible(k) /\ ~IsDeletion(k)
       /\ ~skipping \/ BytesLess(d.saved_key, ExtractUserKey(k))
    THEN [d EXCEPT !.valid = TRUE, !.saved_key = <<>>]
    ELSE SkipEntry(d, k, skipping)
FindNextUserEntry(d, skipping) ==
    IF Valid(d.iter) THEN NextUserEntryAt(d, Key(d.iter), skipping) ELSE AtEnd(d)

\* type is the type of the newest entry kept so far (kTypeDeletion: none).
RECURSIVE FindPrevUserEntryFrom(_, _)
KeepEntry(d, k) ==
    IF TypeOf(k) = kTypeDeletion
    THEN [d EXCEPT !.saved_key = <<>>, !.saved_value = 0]
    ELSE [d EXCEPT !.saved_key = ExtractUserKey(k), !.saved_value = Value(d.iter)]
PrevUserEntryAt(d, k, type) ==
    IF Visible(k) /\ type # kTypeDeletion /\ BytesLess(ExtractUserKey(k), d.saved_key)
    THEN [d EXCEPT !.valid = TRUE]
    ELSE FindPrevUserEntryFrom([(IF Visible(k) THEN KeepEntry(d, k) ELSE d) EXCEPT !.iter = Prev(@)],
                               IF Visible(k) THEN TypeOf(k) ELSE type)
FindPrevUserEntryFrom(d, type) ==
    IF Valid(d.iter) THEN PrevUserEntryAt(d, Key(d.iter), type)
    ELSE IF type # kTypeDeletion THEN [d EXCEPT !.valid = TRUE]
    ELSE [AtEnd(d) EXCEPT !.saved_value = 0, !.direction = "forward"]

FindPrevUserEntry(d) == FindPrevUserEntryFrom(d, kTypeDeletion)

FindFirst(d) == IF Valid(d.iter) THEN FindNextUserEntry(d, FALSE) ELSE [d EXCEPT !.valid = FALSE]

DBSeek(d, target) ==
    LET k == InternalKey(target, sequence, kValueTypeForSeek)
    IN  FindFirst([d EXCEPT !.direction = "forward", !.saved_key = k,
                            !.saved_value = 0, !.iter = Seek(@, k)])

DBSeekToFirst(d) ==
    FindFirst([d EXCEPT !.direction = "forward", !.saved_value = 0, !.iter = SeekToFirst(@)])

DBSeekToLast(d) ==
    FindPrevUserEntry([d EXCEPT !.direction = "reverse", !.saved_value = 0,
                                !.iter = SeekToLast(@)])

\* In reverse the internal iterator is before the entries of saved_key.
DBNext(d) ==
    IF d.direction = "forward"
    THEN FindNextUserEntry([d EXCEPT !.saved_key = ExtractUserKey(Key(d.iter))], TRUE)
    ELSE FindNextUserEntry([d EXCEPT !.direction = "forward",
                                     !.iter = IF Valid(@) THEN Next(@) ELSE SeekToFirst(@)],
                           TRUE)

\* Back over the entries of the current key before searching in reverse.
RECURSIVE BackOver(_)
BackFrom(d) ==
    IF Valid(d.iter) /\ ~BytesLess(ExtractUserKey(Key(d.iter)), d.saved_key)
    THEN BackOver(d)
    ELSE d
BackOver(d) == BackFrom([d EXCEPT !.iter = Prev(@)])

PrevFrom(d) ==
    IF Valid(d.iter) THEN FindPrevUserEntry([d EXCEPT !.direction = "reverse"])
    ELSE [AtEnd(d) EXCEPT !.saved_value = 0]

DBPrev(d) ==
    IF d.direction = "reverse" THEN FindPrevUserEntry(d)
    ELSE PrevFrom(BackOver([d EXCEPT !.saved_key = ExtractUserKey(Key(d.iter))]))

-----------------------------------------------------------------------------
(* TableCache::Get and Table::InternalGet (table/table.cc): the entry      *)
(* handed to the saver, or nothing.                                        *)

InternalGet(t, k, chance) ==
    LET index == BlockSeek(NewBlockIter(<<t, -1>>), k)
        block == Seek(BlockReader(t, Value(index)), k)
    IN  CASE ~Opens(t) -> [ok |-> FALSE, key |-> <<>>]
          [] Opens(t) /\ Valid(index) /\ KeyMayMatch(FilterOf(t), Value(index), k, chance) ->
                [ok |-> Ok(block), key |-> IF Valid(block) THEN Key(block) ELSE <<>>]
          [] OTHER -> [ok |-> TRUE, key |-> <<>>]

-----------------------------------------------------------------------------
(* The system: a database as earlier writes and compactions left it, an    *)
(* iterator opened on it, its client's calls and a writer's insertions.    *)

\* The entries of a run of writes [key, type], numbered on from "last".
Entries(writes, last) ==
    {InternalKey(writes[i].key, last + i, writes[i].type) : i \in DOMAIN writes}

\* DBImpl::NewInternalIterator and Version::AddIterators: file 0 is in level 0,
\* files 1 and 2 are the level below.
NewInternalIterator ==
    LET level1 == SetToSortSeq(DOMAIN tables \ {0}, <)
        two    == [kind |-> "files", files |-> level1, index |-> Len(level1)]
    IN  [kind |-> "merge", current |-> 0, direction |-> "forward",
         children |-> <<[kind |-> "mem", node |-> <<>>]>>
             \o (IF 0 \in DOMAIN tables THEN <<NewTableIterator(0)>> ELSE <<>>)
             \o (IF level1 # <<>> THEN <<NewTwoLevelIterator(two)>> ELSE <<>>)]

OffsetsOf(table) == {b.offset : b \in Range(table.blocks)}

AllEntries == mem \cup UNION {tables[t].entries : t \in DOMAIN tables}
LastSequence == Max({0} \cup {SequenceOf(k) : k \in AllEntries})

Init ==
    /\ \E c \in Contents :
          LET one   == Entries(c.level1, 0)
              low   == {k \in one : ~BytesLess(CutKey, ExtractUserKey(k))}
              files == <<low, one \ low>>
              zero  == Entries(c.level0, Len(c.level1))
              In(t) == IF t = 0 THEN zero ELSE files[t]
          IN  /\ tables = [t \in {f \in 0..2 : In(f) # {}} |-> BuildTable(In(t))]
              /\ mem = Entries(c.mem, Len(c.level1) + Len(c.level0))
    /\ sequence \in {LastSequence - 1, LastSequence}
    /\ bad \in {{}} \cup UNION {{{<<t, o>>} : o \in {-1, -2} \cup OffsetsOf(tables[t])} :
                                 t \in DOMAIN tables}
    /\ iter = NewDBIterator(NewInternalIterator)
    /\ op = [call |-> "NewIterator", target |-> <<>>, from |-> Nowhere]

Call(name, target, d) ==
    /\ iter' = d
    /\ op' = [call |-> name, target |-> target, from |-> Position(iter)]
    /\ UNCHANGED <<tables, bad, mem, sequence>>

CallSeek == \E k \in Targets : Call("Seek", k, DBSeek(iter, k))
CallSeekToFirst == Call("SeekToFirst", <<>>, DBSeekToFirst(iter))
CallSeekToLast == Call("SeekToLast", <<>>, DBSeekToLast(iter))
CallNext == iter.valid /\ Call("Next", <<>>, DBNext(iter))
CallPrev == iter.valid /\ Call("Prev", <<>>, DBPrev(iter))

\* SkipList::Insert: readers see the node once the lowest list links it.
SkipListInsert(m, k) == m \cup {k}

\* MemTable::Add by a writer, with the next sequence number.
Insert ==
    \E k \in Keys, type \in {kTypeDeletion, kTypeValue} :
      /\ LastSequence < sequence + MaxInserts
      /\ mem' = SkipListInsert(mem, InternalKey(k, LastSequence + 1, type))
      /\ UNCHANGED <<tables, bad, sequence, iter, op>>

Calls == CallSeek \/ CallSeekToFirst \/ CallSeekToLast \/ CallNext \/ CallPrev \/ Insert

Spec == Init /\ [][Calls]_vars

-----------------------------------------------------------------------------
(* What the client is promised: the sorted map of the snapshot.            *)

Newest(user) ==
    LeastOf({k \in AllEntries : ExtractUserKey(k) = user /\ SequenceOf(k) <= sequence})

\* The pairs <<key, value>> visible in the snapshot.
Listing ==
    {<<ExtractUserKey(k), SequenceOf(k)>> :
        k \in {e \in AllEntries : TypeOf(e) = kTypeValue /\ e = Newest(ExtractUserKey(e))}}

Smallest(S) == IF S = {} THEN Nowhere ELSE CHOOSE p \in S : \A q \in S : ~BytesLess(q[1], p[1])
Largest(S) == IF S = {} THEN Nowhere ELSE CHOOSE p \in S : \A q \in S : ~BytesLess(p[1], q[1])

Expected ==
    CASE op.call = "NewIterator" -> Nowhere
      [] op.call = "Seek"        -> Smallest({p \in Listing : ~BytesLess(p[1], op.target)})
      [] op.call = "SeekToFirst" -> Smallest(Listing)
      [] op.call = "SeekToLast"  -> Largest(Listing)
      [] op.call = "Next"        -> Smallest({p \in Listing : BytesLess(op.from[1], p[1])})
      [] op.call = "Prev"        -> Largest({p \in Listing : BytesLess(p[1], op.from[1])})

(* After every call the iterator stands where the same call on the sorted  *)
(* map of its snapshot would, and stays there while the writer inserts,    *)
(* unless status() reports an error: DBIter, MergingIterator,              *)
(* TwoLevelIterator and Block::Iter, in any mix of directions.             *)
AnswersAgree == Ok(iter.iter) => Position(iter) = Expected

(* An error met on the way is never forgotten: a block that could not be   *)
(* read is skipped, and status() goes on saying so after every later call  *)
(* (TwoLevelIterator::SaveError).                                          *)
ErrorsStay == [][~Ok(iter.iter) => ~Ok(iter.iter)']_vars

(* A point lookup in a table finds the newest entry at or below the        *)
(* sequence asked for, whatever the filter matches by chance: neither the  *)
(* filter nor the index separator hides a key that is there.               *)
GetAgrees ==
    op.call = "NewIterator" =>
       \A t \in DOMAIN tables, user \in Keys, seq \in 0..LastSequence, chance \in BOOLEAN :
          LET k   == InternalKey(user, seq, kValueTypeForSeek)
              hit == LeastOf({e \in tables[t].entries : ~Less(e, k)})
              got == InternalGet(t, k, chance)
          IN  \/ ~got.ok
              \/ hit # <<>> /\ ExtractUserKey(hit) = user /\ got.key = hit
              \/ (hit = <<>> \/ ExtractUserKey(hit) # user)
                    /\ (got.key = <<>> \/ ExtractUserKey(got.key) # user)

(* Iterators and point lookups together: what reading answers is what the *)
(* sorted map answers.                                                     *)
ReadsAgree == AnswersAgree /\ GetAgrees

=============================================================================
