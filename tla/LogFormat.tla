------------------------------ MODULE LogFormat ------------------------------
(***************************************************************************)
(* The log format of leveldb: log::Writer cuts records into fragments that *)
(* do not cross blocks, log::Reader puts them together again and finds its *)
(* way after damage (db/log_writer.cc, db/log_reader.cc, db/log_format.h). *)
(*                                                                         *)
(* A file is a sequence of bytes.  A header byte knows its place in the    *)
(* header, and type, length and record of its fragment; a payload byte its *)
(* record and place in it.  A checksum tells every damaged byte.           *)
(* The writer writes a fragment per step; an append may fail.  It may die, *)
(* which leaves any prefix of the file; bytes may be damaged; then a       *)
(* reader reads, one physical record per step, from the start or from an   *)
(* initial offset, until a read fails or the file ends.                    *)
(***************************************************************************)
EXTENDS Integers, Sequences, FiniteSets, SequencesExt

CONSTANTS
  BlockSize,   \* kBlockSize
  HeaderSize,  \* kHeaderSize
  Sizes,       \* payload sizes of the records
  MaxRecords,  \* bound: records written
  MaxDamage,   \* bound: bytes damaged and appends that fail
  Offsets      \* initial offsets of the reader

ASSUME ConstantsAssumption ==
  /\ BlockSize \in Nat /\ HeaderSize \in Nat \ {0} /\ HeaderSize < BlockSize
  /\ Sizes \subseteq Nat /\ MaxRecords \in Nat /\ MaxDamage \in Nat /\ Offsets \subseteq Nat

VARIABLES
  file,     \* the bytes written, some of them damaged
  size,     \* payload sizes of the records given to AddRecord
  start,    \* where the first fragment of each record begins
  stop,     \* where the last fragment of each record ends, 0 if it failed
  writer,   \* block_offset_, and begin and left of an AddRecord that is not done
  damaged,  \* places of damaged bytes
  lengthDamaged, \* one of them held a length and type
  torn,     \* the first record that could not be appended, 0 if all could
  reader,   \* the state of a reader, or the offset it will start from
  out,      \* the records it returned
  reports   \* corruptions it reported

written == <<file, size, start, stop, writer>>
damage == <<damaged, lengthDamaged, torn>>
answers == <<out, reports>>
vars == <<written, damage, reader, answers>>

Damaged == [kind |-> "damaged"]
Zero    == [kind |-> "zero"]
Header(i, t, len, r) == [kind |-> "header", place |-> i, type |-> t, len |-> len, rec |-> r]
Payload(r, i)        == [kind |-> "payload", rec |-> r, place |-> i]
Record(r) == [i \in 1 .. size[r] |-> Payload(r, i)]

Init ==
  /\ file = << >> /\ size = << >> /\ start = << >> /\ stop = << >>
  /\ writer = [offset |-> 0, begin |-> TRUE, left |-> 0, busy |-> FALSE]
  /\ damaged = {} /\ lengthDamaged = FALSE /\ torn = 0
  /\ reader \in {[phase |-> "none", initial |-> o] : o \in Offsets}
  /\ out = << >> /\ reports = 0

-----------------------------------------------------------------------------
(* The writer.                                                             *)

AddRecord(n) ==
  /\ reader.phase = "none" /\ ~writer.busy /\ Len(size) < MaxRecords
  /\ size' = Append(size, n)
  /\ writer' = [writer EXCEPT !.begin = TRUE, !.left = n, !.busy = TRUE]
  /\ UNCHANGED <<file, start, stop, damage, reader, answers>>

RecordType(begin, end) == CASE begin /\ end -> "full"
                            [] begin /\ ~end -> "first"
                            [] ~begin /\ end -> "last"
                            [] OTHER -> "middle"

\* A block whose rest cannot hold a header is filled up and left.
LeavesBlock(leftover) == leftover < HeaderSize

\* What one turn of AddRecord's loop appends, in the order of its calls.
Turn ==
  LET leftover == BlockSize - writer.offset
      switch == LeavesBlock(leftover)
      offset == IF switch THEN 0 ELSE writer.offset
      avail == BlockSize - offset - HeaderSize
      n == IF writer.left < avail THEN writer.left ELSE avail
      end == writer.left = n
      r == Len(size)
  IN  [trailer  |-> IF switch THEN [i \in 1 .. leftover |-> Zero] ELSE << >>,
       fragment |-> [i \in 1 .. HeaderSize |-> Header(i, RecordType(writer.begin, end), n, r)]
                      \o [i \in 1 .. n |-> Payload(r, size[r] - writer.left + i)],
       next     |-> [offset |-> offset + HeaderSize + n, begin |-> FALSE,
                     left |-> writer.left - n, busy |-> ~end]]

\* The turn's first i bytes of the trailer and k of the fragment get to the file.
Emit(turn, i, k) ==
  /\ file' = file \o SubSeq(turn.trailer, 1, i) \o SubSeq(turn.fragment, 1, k)
  /\ start' = IF writer.begin THEN Append(start, Len(file) + i) ELSE start
  /\ UNCHANGED <<size, damaged, lengthDamaged, reader, answers>>

\* One turn of AddRecord's loop, with EmitPhysicalRecord.
EmitPhysicalRecord ==
  /\ writer.busy /\ reader.phase = "none"
  /\ Emit(Turn, Len(Turn.trailer), Len(Turn.fragment))
  /\ writer' = Turn.next
  /\ stop' = IF Turn.next.busy THEN stop ELSE Append(stop, Len(file'))
  /\ UNCHANGED torn

\* Append or Flush fails: AddRecord gives up, but the block has moved on.  The
\* status of the trailer is not looked at.
EmitFails(i, k) ==
  /\ writer.busy /\ reader.phase = "none"
  /\ torn = 0 /\ MaxDamage > 0
  /\ Emit(Turn, i, k)
  /\ writer' = [Turn.next EXCEPT !.busy = FALSE]
  /\ stop' = Append(stop, 0)
  /\ torn' = Len(size)

OffsetInBlock(length) == length % BlockSize

\* Writer::Writer(dest, dest_length): the log is closed and opened for appending.
Reopen ==
  /\ reader.phase = "none" /\ ~writer.busy
  /\ writer' = [writer EXCEPT !.offset = OffsetInBlock(Len(file))]
  /\ UNCHANGED <<file, size, start, stop, damage, reader, answers>>

-----------------------------------------------------------------------------
(* What happens to the file.                                               *)

\* The writer dies; the file ends wherever the system had got to.  Records that
\* left nothing in it are forgotten.
Crash(k) ==
  LET begun == Cardinality({r \in DOMAIN start : start[r] < k})
      ended == Cardinality({r \in DOMAIN stop : r <= begun /\ stop[r] <= k})
  IN
  /\ reader.phase = "none"
  /\ file' = SubSeq(file, 1, k)
  /\ size' = SubSeq(size, 1, begun)
  /\ start' = SubSeq(start, 1, begun) /\ stop' = SubSeq(stop, 1, ended)
  /\ torn' = IF torn <= begun THEN torn ELSE 0
  /\ writer' = [offset |-> 0, begin |-> TRUE, left |-> 0, busy |-> FALSE]
  /\ reader' = [phase |-> "closed", initial |-> reader.initial]
  /\ UNCHANGED <<damaged, lengthDamaged, answers>>

Damage(i) ==
  /\ reader.phase = "closed"
  /\ Cardinality(damaged) + (IF torn = 0 THEN 0 ELSE 1) < MaxDamage
  /\ file' = [file EXCEPT ![i] = Damaged]
  /\ damaged' = damaged \cup {i}
  /\ lengthDamaged' = (lengthDamaged \/ (file[i].kind = "header" /\ file[i].place = HeaderSize))
  /\ UNCHANGED <<size, start, stop, writer, torn, reader, answers>>

-----------------------------------------------------------------------------
(* The reader.  buffer_ is the part of file from at + 1 to end.  When it   *)
(* is done it has seen the file up to "upto", where a read may have failed.*)

Done(upto) == [phase |-> "done", initial |-> reader.initial, upto |-> upto, failed |-> FALSE]

\* SkipToInitialBlock
InitialBlock(o) ==
  LET inBlock == o % BlockSize
  IN  o - inBlock + (IF inBlock > BlockSize - (HeaderSize - 1) THEN BlockSize ELSE 0)

OpenReader ==
  LET o == reader.initial IN
  /\ reader.phase = "closed"
  /\ IF InitialBlock(o) > Len(file)
       THEN reader' = Done(Len(file))
       ELSE reader' = [phase |-> "reading", initial |-> o, at |-> InitialBlock(o),
                       end |-> InitialBlock(o), eof |-> FALSE, resyncing |-> o > 0,
                       fragmented |-> FALSE, scratch |-> << >>]
  /\ UNCHANGED <<written, damage, answers>>

\* Mutation: a read that comes up short is not taken for the end of the file.
ShortReadUnnoticed(n) == FALSE

ShortRead(n) == n < BlockSize

\* ReadPhysicalRecord reads the next block when less than a header is left.
ReadBlock ==
  /\ reader.phase = "reading" /\ reader.end - reader.at < HeaderSize /\ ~reader.eof
  /\ LET n == IF Len(file) - reader.end < BlockSize THEN Len(file) - reader.end ELSE BlockSize
     IN  reader' = [reader EXCEPT !.at = reader.end, !.end = @ + n, !.eof = ShortRead(n)]
  /\ UNCHANGED <<written, damage, answers>>

\* A read that fails after n bytes ends the log there; where it would have ended
\* is computed without a sign, and may wrap around.
ReadFails(n) ==
  LET from == reader.end + n - BlockSize IN
  /\ reader.phase = "reading" /\ reader.end - reader.at < HeaderSize /\ ~reader.eof
  /\ n <= BlockSize /\ reader.end + n <= Len(file)
  /\ reader' = [Done(reader.end) EXCEPT !.failed = TRUE]
  /\ reports' = reports + (IF from \in 0 .. reader.initial - 1 THEN 0 ELSE 1)
  /\ UNCHANGED <<written, damage, out>>

\* The bytes at the start of buffer_ are a header, or a fragment, as written.
IsHeader(head) ==
  LET last == head[HeaderSize] IN
  last.kind = "header" /\ \A i \in DOMAIN head : head[i] = [last EXCEPT !.place = i]
IsFragment(head, data) ==
  IsHeader(head) /\ \A i \in DOMAIN data : data[i].kind = "payload" /\ data[i].rec = head[1].rec

\* What the header at the start of buffer_ is taken for, how many bytes go, and
\* how many are reported.  The last byte of the header stands for length and
\* type: anything else in its place may point behind the buffer, which at the end
\* of the file is taken for a record that was being written, or look like a zero
\* record.
Physical ==
  LET head == SubSeq(file, reader.at + 1, reader.at + HeaderSize)
      last == head[HeaderSize]
      left == reader.end - reader.at
      data == SubSeq(file, reader.at + HeaderSize + 1, reader.at + HeaderSize + last.len)
      bad == [type |-> "bad", drop |-> left, data |-> << >>, report |-> TRUE]
      silent == [bad EXCEPT !.report = FALSE]
      eof == [silent EXCEPT !.type = "eof"]
      used(t, d) == [type |-> t, drop |-> HeaderSize + last.len, data |-> d, report |-> FALSE]
  IN  CASE left < HeaderSize -> {eof}
        [] left >= HeaderSize /\ last = Zero -> {silent}
        [] left >= HeaderSize /\ last # Zero /\ ~(last.kind = "header" /\ last.place = HeaderSize) ->
             {bad, silent} \cup (IF reader.eof THEN {eof} ELSE {})
        [] OTHER ->
             {CASE HeaderSize + last.len > left -> IF reader.eof THEN eof ELSE bad
                [] HeaderSize + last.len <= left /\ ~IsFragment(head, data) -> bad
                [] OTHER -> IF reader.at < reader.initial THEN used("bad", << >>)
                                                          ELSE used(last.type, data)}

\* ReportDrop keeps quiet about bytes before the initial offset.
Reported(p, bytes) == reader.at + p.drop - bytes >= reader.initial

\* A turn of ReadRecord's loop: resyncing, then the switch over the type.
Skips(t) == reader.resyncing /\ t \in {"middle", "last"}

\* Mutation: a fragment that follows a dropped one is taken for its continuation.
TakesUnchecked(t) == t \in {"middle", "last"}

\* The fragment continues the record that is being put together.
Takes(t) == t \in {"middle", "last"} /\ reader.fragmented

ReadPhysicalRecord(p) ==
  LET t == p.type
      lost == Len(reader.scratch)
      skipped == Skips(t)
      returned == CASE skipped -> << >>
                    [] t = "full" -> <<p.data>>
                    [] t = "last" /\ Takes(t) -> <<reader.scratch \o p.data>>
                    [] OTHER -> << >>
      unfinished == reader.fragmented /\ t \in {"full", "first", "bad"}
                      /\ (lost > 0 \/ t = "bad")
      stray == t \in {"middle", "last"} /\ ~Takes(t) /\ ~skipped
  IN
  /\ out' = out \o returned
  /\ reports' = reports + (IF p.report /\ Reported(p, p.drop) THEN 1 ELSE 0)
                      + (IF unfinished /\ Reported(p, lost) THEN 1 ELSE 0)
                      + (IF stray /\ Reported(p, Len(p.data)) THEN 1 ELSE 0)
  /\ reader' = IF t = "eof" THEN Done(Len(file))
               ELSE [reader EXCEPT
                  !.at = @ + p.drop,
                  !.resyncing = @ /\ t = "middle",
                  !.fragmented = IF skipped THEN @ ELSE t = "first" \/ (t = "middle" /\ Takes(t)),
                  !.scratch = CASE skipped -> @
                                [] t = "first" -> p.data
                                [] t = "middle" /\ Takes(t) -> @ \o p.data
                                [] OTHER -> << >>]
  /\ UNCHANGED <<written, damage>>

Read ==
  \/ OpenReader \/ ReadBlock
  \/ /\ reader.phase = "reading" /\ (reader.end - reader.at >= HeaderSize \/ reader.eof)
     /\ \E p \in Physical : ReadPhysicalRecord(p)

Next ==
  \/ \E n \in Sizes : AddRecord(n)
  \/ EmitPhysicalRecord \/ Reopen
  \/ \E i \in 0 .. Len(Turn.trailer), k \in 0 .. Len(Turn.fragment) : EmitFails(i, k)
  \/ \E k \in 0 .. Len(file) : Crash(k)
  \/ \E i \in DOMAIN file : Damage(i)
  \/ Read
  \/ \E n \in 0 .. BlockSize : ReadFails(n)

Spec == Init /\ [][Next]_vars /\ WF_vars(Read)

-----------------------------------------------------------------------------
(* Properties.                                                             *)

\* The types of the state.
TypeOK ==
  /\ \A i \in DOMAIN file : file[i].kind \in {"damaged", "zero", "header", "payload"}
  /\ size \in Seq(Sizes) /\ Len(start) <= Len(size) /\ Len(stop) <= Len(start)
  /\ writer.offset \in 0 .. BlockSize
  /\ reader.phase \in {"none", "closed", "reading", "done"}
  /\ reports \in Nat

\* The records that were seen with all their fragments.
Whole == {r \in DOMAIN stop : stop[r] \in 1 .. reader.upto /\ start[r] >= reader.initial}
Blocks(r) == (start[r] \div BlockSize) .. ((stop[r] - 1) \div BlockSize)
DamagedBlocks == {(i - 1) \div BlockSize : i \in damaged}

\* A log nobody damaged is read back exactly, up to its end or a read that fails:
\* every record that got to the file as a whole and starts at or behind the
\* initial offset, in order, nothing of a record the writer died in, and read
\* from the start nothing is reported but a failed read, for all fits of the
\* fragments into the blocks and after reopening for append.
UndamagedLogIsReadBack ==
  reader.phase = "done" /\ damaged = {} /\ torn = 0 =>
    /\ out = [i \in 1 .. Cardinality(Whole) |-> Record(SetToSortSeq(Whole, <)[i])]
    /\ reader.initial = 0 => reports = IF reader.failed THEN 1 ELSE 0

\* Damage costs the records of the damaged blocks and no others, a failed append
\* none of the records before it, and neither is passed on: what is returned is
\* whole records in the order written.  Losses are reported to who reads from the
\* start unless a length or type is damaged or not where it should be (zero
\* records and a length behind the end are taken for traces of a crash).
DamageIsLocal ==
  reader.phase = "done" =>
    \E ids \in [DOMAIN out -> DOMAIN size] :
      LET lost == Whole \ {ids[i] : i \in DOMAIN out} IN
      /\ \A i \in DOMAIN out : out[i] = Record(ids[i])
      /\ \A i, j \in DOMAIN out : i < j => ids[i] < ids[j]
      /\ \A r \in lost : Blocks(r) \cap DamagedBlocks # {} \/ torn \in 1 .. r - 1
      /\ lost # {} /\ reports = 0 => lengthDamaged \/ torn # 0 \/ reader.initial > 0

\* What a reader makes of a file, damaged or not.
ReadBack == UndamagedLogIsReadBack /\ DamageIsLocal

\* Reading a log ends: after the writer is gone a reader that is scheduled comes
\* to the end of the file whatever it finds there.
ReaderEnds == reader.phase = "closed" ~> reader.phase = "done"
=============================================================================
