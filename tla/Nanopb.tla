------------------------------- MODULE Nanopb -------------------------------
(***************************************************************************)
(* nanopb: pb_encode writes a message to a stream, pb_decode reads one     *)
(* back, both driven by the field tables of the message types.  Built      *)
(* without PB_ENABLE_MALLOC, as this application builds it.                *)
(*                                                                         *)
(* A message is a function from field keys to values; a wire is a sequence *)
(* of bytes, and an input stream a position in it with the bytes left.     *)
(* Integers keep their structure at a smaller scale: Word stands for the   *)
(* 32 bits of uint32_t, Long for the 64 bits of uint64_t.                  *)
(***************************************************************************)
EXTENDS Integers, Sequences, FiniteSets, TLC, SequencesExt

CONSTANTS
  Types,      \* the field tables: type name -> sequence of fields
  Root,       \* the type of the messages exchanged
  Word, Long, \* bits of uint32_t and of uint64_t
  Message,    \* messages the clients send
  Opening,    \* what wires that no encoder wrote begin with
  Byte,       \* bytes of wires that no encoder wrote
  MaxWire,    \* bound: length of such a wire
  MaxSize     \* sizes of the output buffers

ASSUME NanopbAssumption ==
  /\ Root \in DOMAIN Types
  /\ Word \in Nat /\ Long \in Nat /\ 8 < Word /\ Word < Long
  /\ Byte \subseteq 0 .. 255 /\ Opening \in Seq(0 .. 255) /\ MaxWire \in Nat /\ MaxSize \subseteq Nat

VARIABLES
  phase,   \* "send", "full" (an encoder failed), "cut" or "noise"
  framing, \* "plain": messages are concatenated; "delimited"
  sent,    \* messages encoded so far
  limit,   \* max_size of the output stream
  wire     \* bytes on the wire

vars == <<phase, framing, sent, limit, wire>>

----------------------------------------------------------------------------
(* Field tables.                                                           *)

Field(t) == ToSet(Types[t])

\* The members of a oneof share their place in the structure.
Key(f) == IF f.label = "oneof" THEN f.group ELSE f.tag

\* pb_field_iter_find and find_extension_field.
Find(t, tag) == {f \in Field(t) : f.tag = tag /\ f.kind # "extension"}
ExtensionField(t) == {f \in Field(t) : f.kind = "extension"}

Packable(f) == f.kind \in {"int", "uint", "sint", "fixed32", "fixed64"}
WireType(f) ==
  CASE f.kind \in {"int", "uint", "sint"} -> 0
    [] f.kind = "fixed64" -> 1
    [] f.kind = "fixed32" -> 5
    [] OTHER -> 2

FixedSize(f) == ((IF f.kind = "fixed32" THEN Word ELSE Long) + 7) \div 8

Zeros(n) == [k \in 1 .. n |-> 0]

\* pb_message_set_to_defaults.  A callback field is the values its callback
\* writes in the two passes, or was given.  The client's callbacks and extensions
\* are linked, and stay as they are, unless the structure was zeroed before.
RECURSIVE SetToDefaults(_, _)
Zero(f, linked) ==
  CASE f.kind = "message" -> SetToDefaults(f.type, linked)
    [] f.kind = "fixedbytes" -> Zeros(f.size)
    [] f.kind \in {"bytes", "string"} -> <<>>
    [] OTHER -> 0

SetToDefault(f, linked) ==
  CASE f.kind = "extension" ->
         [k \in 1 .. IF linked THEN Len(f.extensions) ELSE 0 |->
            [found |-> FALSE, v |-> Zero(f.extensions[k], linked)]]
    [] f.kind # "extension" /\ f.alloc = "callback" ->
         [linked |-> linked, size |-> <<>>, write |-> <<>>]
    [] f.kind # "extension" /\ f.alloc = "static" ->
         CASE f.label = "optional" -> [has |-> FALSE, v |-> Zero(f, linked)]
           [] f.label = "repeated" -> <<>>
           [] f.label = "oneof" -> <<>>
           [] OTHER -> Zero(f, linked)

SetToDefaults(t, linked) ==
  [k \in {Key(f) : f \in Field(t)} |-> SetToDefault(CHOOSE f \in Field(t) : Key(f) = k, linked)]

----------------------------------------------------------------------------
(* Encoding.                                                               *)

RECURSIVE EncodeVarint(_)
EncodeVarint(n) == IF n <= 127 THEN <<n>> ELSE <<128 + (n % 128)>> \o EncodeVarint(n \div 128)

EncodeTag(tag, wireType) == EncodeVarint(8 * tag + wireType)

EncodeFixed(n, size) == [k \in 1 .. size |-> (n \div 256 ^ (k - 1)) % 256]

\* pb_encode_svarint.
ZigZag(n) == IF n < 0 THEN -2 * n - 1 ELSE 2 * n

\* The characters of a buffer before its terminator.
Chars(buf) == LET nul == {k \in DOMAIN buf : buf[k] = 0}
              IN IF nul = {} THEN buf ELSE SubSeq(buf, 1, (CHOOSE k \in nul : \A j \in nul : k <= j) - 1)

EncodeString(buf) == EncodeVarint(Len(buf)) \o buf

Failed == [ok |-> FALSE, out |-> <<>>]
Wrote(out) == [ok |-> TRUE, out |-> out]
Then(a, b) == IF a.ok /\ b.ok THEN Wrote(a.out \o b.out) ELSE Failed
All(parts) == FoldLeft(Then, Wrote(<<>>), parts)

\* pb_check_proto3_default_value.
IsDefault(f, v) ==
  CASE f.kind = "bytes" -> Len(v) = 0
    [] f.kind = "string" -> Chars(v) = <<>>
    [] f.kind = "fixedbytes" -> f.size = 0
    [] OTHER -> v = Zero(f, FALSE)

RECURSIVE Encode(_, _, _)

\* Mutation: what the second pass writes is not compared with the size of the first.
SubmessageUnchecked(sizing, out, pass) ==
  IF ~sizing.ok \/ ~out.ok THEN Failed
  ELSE Wrote(EncodeVarint(Len(sizing.out)) \o IF pass = "size" THEN sizing.out ELSE out.out)

\* pb_encode_submessage: sized first, then written into a substream of that size.
Submessage(sizing, out, pass) ==
  IF ~sizing.ok THEN Failed
  ELSE IF pass = "size" THEN Wrote(EncodeVarint(Len(sizing.out)) \o sizing.out)
  ELSE IF ~out.ok \/ Len(out.out) # Len(sizing.out) THEN Failed
  ELSE Wrote(EncodeVarint(Len(sizing.out)) \o out.out)

\* PB_ENCODERS.
EncodeItem(f, v, pass) ==
  CASE f.kind = "int" -> Wrote(EncodeVarint(v % (2 ^ Long)))
    [] f.kind = "uint" -> Wrote(EncodeVarint(v))
    [] f.kind = "sint" -> Wrote(EncodeVarint(ZigZag(v)))
    [] f.kind \in {"fixed32", "fixed64"} -> Wrote(EncodeFixed(v, FixedSize(f)))
    [] f.kind = "bytes" -> IF Len(v) > f.size THEN Failed ELSE Wrote(EncodeString(v))
    [] f.kind = "string" -> Wrote(EncodeString(Chars(v)))
    [] f.kind = "fixedbytes" -> Wrote(EncodeString(v))
    [] f.kind = "message" -> Submessage(Encode(f.type, v, "size"), Encode(f.type, v, pass), pass)

Tagged(f, v, pass) == Then(Wrote(EncodeTag(f.tag, WireType(f))), EncodeItem(f, v, pass))

\* encode_array: packed where the type allows it.
EncodeArray(f, items, pass) ==
  IF items = <<>> THEN Wrote(<<>>)
  ELSE IF Len(items) > f.max THEN Failed
  ELSE IF Packable(f)
  THEN LET data == All([k \in DOMAIN items |-> EncodeItem(f, items[k], pass)])
       IN IF data.ok THEN Wrote(EncodeTag(f.tag, 2) \o EncodeString(data.out)) ELSE Failed
  ELSE All([k \in DOMAIN items |-> Tagged(f, items[k], pass)])

\* encode_callback_field: the client's callback writes tags and varints itself
\* (external); without a callback nothing is written.
EncodeCallback(f, v, pass) ==
  IF ~v.linked THEN Wrote(<<>>)
  ELSE All([k \in DOMAIN v[pass] |-> Wrote(EncodeTag(f.tag, 0) \o EncodeVarint(v[pass][k]))])

\* encode_field and encode_basic_field.
EncodeField(f, v, pass) ==
  CASE f.alloc = "callback" -> EncodeCallback(f, v, pass)
    [] f.alloc # "callback" /\ f.label = "required" -> Tagged(f, v, pass)
    [] f.alloc # "callback" /\ f.label = "optional" -> IF v.has THEN Tagged(f, v.v, pass) ELSE Wrote(<<>>)
    [] f.alloc # "callback" /\ f.label = "singular" ->
         IF IsDefault(f, v) THEN Wrote(<<>>) ELSE Tagged(f, v, pass)
    [] f.alloc # "callback" /\ f.label = "repeated" -> EncodeArray(f, v, pass)
    [] f.alloc # "callback" /\ f.label = "oneof" ->
         IF f.tag \in DOMAIN v THEN Tagged(f, v[f.tag], pass) ELSE Wrote(<<>>)

\* encode_extension_field: every linked extension, found or not.
EncodeExtensions(f, v, pass) ==
  All([k \in DOMAIN v |-> EncodeField(f.extensions[k], v[k].v, pass)])

Encode(t, m, pass) ==
  All([k \in DOMAIN Types[t] |->
         LET f == Types[t][k]
         IN IF f.kind = "extension" THEN EncodeExtensions(f, m[Key(f)], pass)
            ELSE EncodeField(f, m[Key(f)], pass)])

\* pb_write on a stream of limited size.
PbEncode(m, max) ==
  LET r == Encode(Root, m, "write") IN IF Len(r.out) > max THEN Failed ELSE r

----------------------------------------------------------------------------
(* Decoding.  A decoder returns whether it succeeded, the stream it leaves *)
(* and the value.                                                          *)

Bad(s) == [ok |-> FALSE, s |-> s, v |-> 0]
Good(s, v) == [ok |-> TRUE, s |-> s, v |-> v]
With(r, v) == [r EXCEPT !.v = v]
OnSuccess(r, F(_)) == IF r.ok THEN F(r) ELSE r

PbRead(w, s, n) ==
  IF s.left < n THEN Bad(s)
  ELSE Good([pos |-> s.pos + n, left |-> s.left - n], SubSeq(w, s.pos + 1, s.pos + n))

\* pb_decode_varint32 and pb_decode_varint: bits past the width are lost.
RECURSIVE DecodeVarint(_, _, _, _, _)
DecodeVarint(w, s, bits, bitpos, result) ==
  IF bitpos >= bits THEN Bad(s)
  ELSE OnSuccess(PbRead(w, s, 1), LAMBDA r :
         LET n == (result + (r.v[1] % 128) * 2 ^ bitpos) % (2 ^ bits)
         IN IF r.v[1] >= 128 THEN DecodeVarint(w, r.s, bits, bitpos + 7, n) ELSE With(r, n))

Varint32(w, s) == DecodeVarint(w, s, Word, 0, 0)
Varint(w, s) == DecodeVarint(w, s, Long, 0, 0)

RECURSIVE SkipVarint(_, _)
SkipVarint(w, s) ==
  OnSuccess(PbRead(w, s, 1), LAMBDA r : IF r.v[1] >= 128 THEN SkipVarint(w, r.s) ELSE r)

SkipString(w, s) == OnSuccess(Varint32(w, s), LAMBDA r : PbRead(w, r.s, r.v))

SkipField(w, s, wireType) ==
  CASE wireType = 0 -> SkipVarint(w, s)
    [] wireType = 1 -> PbRead(w, s, FixedSize([kind |-> "fixed64"]))
    [] wireType = 2 -> SkipString(w, s)
    [] wireType = 5 -> PbRead(w, s, FixedSize([kind |-> "fixed32"]))
    [] OTHER -> Bad(s)

\* pb_make_string_substream: r.s is what the parent keeps, r.v the substream.
MakeSubstream(w, s) ==
  OnSuccess(Varint32(w, s), LAMBDA r :
    IF r.s.left < r.v THEN Bad(r.s)
    ELSE Good([r.s EXCEPT !.left = @ - r.v], [r.s EXCEPT !.left = r.v]))

\* Mutation: the parent's place is not taken from the substream.
CloseSubstreamInPlace(s, sub) == s

\* pb_close_string_substream: what is left is skipped, the parent goes on from there.
CloseSubstream(s, sub) == [s EXCEPT !.pos = sub.pos + sub.left]

\* Decode a substream with D and go on in the parent behind it.
Closed(s, r) == [r EXCEPT !.s = CloseSubstream(s, r.s)]
InSubstream(w, s, D(_)) ==
  OnSuccess(MakeSubstream(w, s), LAMBDA sub : Closed(sub.s, D(sub.v)))

Signed(n, bits) == LET u == n % (2 ^ bits) IN IF u >= 2 ^ (bits - 1) THEN u - 2 ^ bits ELSE u

\* pb_dec_varint, pb_dec_uvarint, pb_dec_svarint: "integer too large".
Widened(n, f) ==
  CASE f.kind = "uint" -> n
    [] f.kind = "int" -> Signed(n, IF f.size = Long THEN Long ELSE Word)
    [] f.kind = "sint" -> IF n % 2 = 1 THEN -(n \div 2) - 1 ELSE n \div 2
Clamped(n, f) == IF f.kind = "uint" THEN n % (2 ^ f.size) ELSE Signed(n, f.size)

DecodeInteger(w, s, f) ==
  OnSuccess(Varint(w, s), LAMBDA r :
    IF Widened(r.v, f) = Clamped(Widened(r.v, f), f) THEN With(r, Widened(r.v, f)) ELSE Bad(r.s))

DecodeFixed(w, s, f) ==
  OnSuccess(PbRead(w, s, FixedSize(f)), LAMBDA r :
    With(r, FoldLeft(LAMBDA n, k : n + r.v[k] * 256 ^ (k - 1), 0, [k \in DOMAIN r.v |-> k])))

\* A string needs room for its terminator.
Room(f) == IF f.kind = "string" THEN f.size - 1 ELSE f.size

\* pb_dec_bytes, pb_dec_string.
DecodeBytes(w, s, f) ==
  OnSuccess(Varint32(w, s), LAMBDA r : IF r.v > Room(f) THEN Bad(r.s) ELSE PbRead(w, r.s, r.v))

\* pb_dec_fixed_length_bytes: nothing stands for zeros.
DecodeFixedLengthBytes(w, s, f) ==
  OnSuccess(Varint32(w, s), LAMBDA r :
    IF r.v = 0 THEN With(r, Zeros(f.size))
    ELSE IF r.v # f.size THEN Bad(r.s)
    ELSE PbRead(w, r.s, r.v))

RECURSIVE DecodeNoinit(_, _, _, _, _)

\* pb_dec_submessage into what is already there.
DecodeSubmessage(w, s, f, old) ==
  InSubstream(w, s, LAMBDA sub : DecodeNoinit(w, sub, f.type, old, {}))

\* PB_DECODERS.
DecodeItem(w, s, f, old) ==
  CASE f.kind \in {"int", "uint", "sint"} -> DecodeInteger(w, s, f)
    [] f.kind \in {"fixed32", "fixed64"} -> DecodeFixed(w, s, f)
    [] f.kind \in {"bytes", "string"} -> DecodeBytes(w, s, f)
    [] f.kind = "fixedbytes" -> DecodeFixedLengthBytes(w, s, f)
    [] f.kind = "message" -> DecodeSubmessage(w, s, f, old)

\* The loop over a packed array: what follows a full array is an overflow.
RECURSIVE Unpack(_, _, _, _)
Unpack(w, s, f, items) ==
  IF s.left = 0 THEN Good(s, items)
  ELSE IF Len(items) >= f.max THEN Bad(s)
  ELSE OnSuccess(DecodeItem(w, s, f, 0), LAMBDA r : Unpack(w, r.s, f, Append(items, r.v)))

\* decode_static_field: a submessage of a oneof is zeroed, callbacks and all, and
\* starts from its defaults.  (No table has a repeated submessage in one that a
\* oneof holds: the entries' callbacks are linked.)
DecodeStatic(w, s, wireType, f, old) ==
  CASE f.label \in {"required", "singular"} -> DecodeItem(w, s, f, old)
    [] f.label = "optional" ->
         OnSuccess(DecodeItem(w, s, f, old.v), LAMBDA r : With(r, [has |-> TRUE, v |-> r.v]))
    [] f.label = "oneof" ->
         OnSuccess(DecodeItem(w, s, f, Zero(f, FALSE)), LAMBDA r : With(r, f.tag :> r.v))
    [] f.label = "repeated" /\ wireType = 2 /\ Packable(f) ->
         InSubstream(w, s, LAMBDA sub : Unpack(w, sub, f, old))
    [] f.label = "repeated" /\ ~(wireType = 2 /\ Packable(f)) ->
         IF Len(old) >= f.max THEN Bad(s)
         ELSE OnSuccess(DecodeItem(w, s, f, Zero(f, TRUE)), LAMBDA r : With(r, Append(old, r.v)))

\* decode_callback_field: the client's callback reads one varint a call (external).
RECURSIVE CallBack(_, _, _)
CallBack(w, s, items) ==
  OnSuccess(Varint(w, s), LAMBDA r :
    IF r.s.left = 0 THEN Good(r.s, Append(items, r.v)) ELSE CallBack(w, r.s, Append(items, r.v)))

\* Without a callback the field is skipped; anything but a string is read ahead
\* and given to the callback as a stream of its own.
DecodeCallback(w, s, wireType, old) ==
  IF ~old.linked THEN With(SkipField(w, s, wireType), old)
  ELSE OnSuccess(IF wireType = 2 THEN InSubstream(w, s, LAMBDA sub : CallBack(w, sub, <<>>))
                 ELSE OnSuccess(SkipField(w, s, wireType), LAMBDA raw :
                        OnSuccess(Varint(w, [s EXCEPT !.left = raw.s.pos - s.pos]), LAMBDA one :
                          Good(raw.s, <<one.v>>))),
                 LAMBDA r : With(r, [old EXCEPT !.size = @ \o r.v, !.write = @ \o r.v]))

DecodeField(w, s, wireType, f, old) ==
  IF f.alloc = "callback" THEN DecodeCallback(w, s, wireType, old)
  ELSE DecodeStatic(w, s, wireType, f, old)

\* The required fields that were not seen; their number is no multiple of the 32
\* bits of a word of fields_seen, where the last shift would be undefined.
Missing(t, seen) == \E f \in Field(t) : f.label = "required" /\ f.tag \notin seen

\* decode_extension: the extensions linked into m, from the placeholder's tag on.
Extension(t, m, tag) ==
  {<<e, k>> \in ExtensionField(t) \X (1 .. 4) :
     tag >= e.tag /\ k <= Len(m[Key(e)]) /\ e.extensions[k].tag = tag}

\* A field of the table, of an extension, or one to skip; then the rest.
DecodeTagged(w, r, t, m, seen) ==
  LET tag == r.v \div 8
      wt  == r.v % 8
  IN CASE Find(t, tag) # {} ->
            LET f == CHOOSE g \in Find(t, tag) : TRUE
            IN OnSuccess(DecodeField(w, r.s, wt, f, m[Key(f)]), LAMBDA d :
                 DecodeNoinit(w, d.s, t, [m EXCEPT ![Key(f)] = d.v], seen \cup {tag}))
       [] Find(t, tag) = {} /\ Extension(t, m, tag) # {} ->
            LET x == CHOOSE y \in Extension(t, m, tag) : TRUE
                e == Key(x[1])
                k == x[2]
            IN OnSuccess(DecodeField(w, r.s, wt, x[1].extensions[k], m[e][k].v), LAMBDA d :
                 DecodeNoinit(w, d.s, t, [m EXCEPT ![e][k] = [found |-> TRUE, v |-> d.v]], seen))
       [] OTHER -> OnSuccess(SkipField(w, r.s, wt), LAMBDA d : DecodeNoinit(w, d.s, t, m, seen))

\* pb_decode_noinit: fields in any order until the bytes or a zero tag end the message.
DecodeNext(w, s, r, t, m, seen) ==
  LET end(z) == IF Missing(t, seen) THEN Bad(z) ELSE Good(z, m)
  IN IF s.left = 0 THEN end(s)
     ELSE IF ~r.ok THEN IF r.s.left = 0 THEN end(r.s) ELSE r
     ELSE IF r.v = 0 THEN end(r.s)
     ELSE DecodeTagged(w, r, t, m, seen)
DecodeNoinit(w, s, t, m, seen) == DecodeNext(w, s, Varint32(w, s), t, m, seen)

PbDecode(w) == DecodeNoinit(w, [pos |-> 0, left |-> Len(w)], Root, SetToDefaults(Root, TRUE), {})

\* pb_decode_delimited on a stream of messages: what was read until one fails.
RECURSIVE DecodeDelimited(_, _)
DecodeDelimited(w, s) ==
  LET r == InSubstream(w, s, LAMBDA sub : DecodeNoinit(w, sub, Root, SetToDefaults(Root, TRUE), {}))
  IN IF s.left = 0 \/ ~r.ok THEN <<>> ELSE <<r.v>> \o DecodeDelimited(w, r.s)

----------------------------------------------------------------------------
(* An exchange: messages are written to one stream; then the stream may be *)
(* cut short, or what follows was written by nobody (external).            *)

Init ==
  /\ phase = "send" /\ sent = <<>> /\ wire = <<>>
  /\ framing \in {"plain", "delimited"}
  /\ limit \in MaxSize

\* Before a message the stream may hold a field of a newer schema.
Send(m, unknown) ==
  /\ phase = "send" /\ Len(sent) < 2
  /\ framing = "plain" \/ unknown = <<>>
  /\ LET r == IF framing = "plain" THEN PbEncode(m, limit - Len(wire))
              ELSE LET z == Submessage(Encode(Root, m, "size"), Encode(Root, m, "write"), "write")
                   IN IF Len(z.out) > limit - Len(wire) THEN Failed ELSE z
     IN IF r.ok
        THEN wire' = wire \o unknown \o r.out /\ sent' = Append(sent, m) /\ UNCHANGED phase
        ELSE phase' = "full" /\ UNCHANGED <<wire, sent>>
  /\ UNCHANGED <<framing, limit>>

\* The encoder's stream is closed (limit 0) once its bytes are on their way.
Cut(k) ==
  /\ phase = "send" /\ framing = "plain" /\ Len(sent) = 1
  /\ phase' = "cut" /\ wire' = SubSeq(wire, 1, k)
  /\ limit' = 0 /\ UNCHANGED <<framing, sent>>

Receive(b) ==
  /\ framing = "plain"
  /\ \/ phase = "send" /\ sent = <<>> /\ wire' = Append(Opening, b)
     \/ phase = "noise" /\ Len(wire) < MaxWire /\ wire' = Append(wire, b)
  /\ phase' = "noise"
  /\ limit' = 0 /\ UNCHANGED <<framing, sent>>

Unknown == {<<>>, EncodeTag(15, 0) \o <<128, 1>>, EncodeTag(15, 2) \o <<2, 8, 8>>,
            EncodeTag(9, 5) \o Zeros(FixedSize([kind |-> "fixed32"])),
            EncodeTag(9, 1) \o Zeros(FixedSize([kind |-> "fixed64"]))}

Next ==
  \/ \E m \in Message, u \in Unknown : Send(m, u)
  \/ \E k \in 0 .. Len(wire) : Cut(k)
  \/ \E b \in Byte : Receive(b)

Spec == Init /\ [][Next]_vars

----------------------------------------------------------------------------
(* Properties.                                                             *)

\* What a client sees of a message it has ("got"): strings end at their
\* terminator, a callback field is the values its callback was given, an extension
\* is there when it was found.  What the receiver will see of one it sends
\* ("sent"): all its extensions, but in a submessage of a oneof ("zeroed") neither
\* extensions nor callback fields.
RECURSIVE Seen(_, _, _)
SeenItem(f, v, how) ==
  CASE f.kind = "string" -> Chars(v)
    [] f.kind = "message" -> Seen(f.type, v, how)
    [] OTHER -> v
SeenExtensions(f, v, how) ==
  [k \in {j \in DOMAIN v : how = "sent" \/ (how = "got" /\ v[j].found)} |->
     SeenItem(f.extensions[k], v[k].v, how)]
SeenField(f, v, how) ==
  CASE f.kind = "extension" -> SeenExtensions(f, v, how)
    [] f.kind # "extension" /\ f.alloc = "callback" -> IF how = "zeroed" THEN <<>> ELSE v.write
    [] f.kind # "extension" /\ f.alloc = "static" ->
         CASE f.label = "optional" -> IF v.has THEN <<SeenItem(f, v.v, how)>> ELSE <<>>
           [] f.label = "repeated" -> [k \in DOMAIN v |-> SeenItem(f, v[k], how)]
           [] f.label = "oneof" ->
                IF f.tag \in DOMAIN v
                THEN <<SeenItem(f, v[f.tag], IF how = "sent" THEN "zeroed" ELSE how)>>
                ELSE <<>>
           [] OTHER -> SeenItem(f, v, how)
Seen(t, m, how) == [f \in Field(t) |-> SeenField(f, m[Key(f)], how)]

\* Two messages decoded into one structure: scalars, oneofs and extensions of the
\* later one win, repeated fields are concatenated.  (Protocol buffers would merge
\* two submessages of one oneof field; here the second takes the place of the first.)
MergedField(f, a, b) ==
  CASE f.kind = "extension" -> b
    [] f.kind # "extension" /\ f.alloc = "callback" -> [a EXCEPT !.size = @ \o b.size, !.write = @ \o b.write]
    [] f.kind # "extension" /\ f.alloc = "static" ->
         CASE f.label = "required" -> b
           [] f.label = "optional" -> IF b.has THEN b ELSE a
           [] f.label = "singular" -> IF IsDefault(f, b) THEN a ELSE b
           [] f.label = "repeated" -> a \o b
           [] f.label = "oneof" -> IF b = <<>> THEN a ELSE b
Merged(a, b) ==
  [k \in DOMAIN a |-> LET f == CHOOSE g \in Field(Root) : Key(g) = k IN MergedField(f, a[k], b[k])]
Overflows(m) == \E f \in Field(Root) : f.label = "repeated" /\ f.alloc = "static" /\ Len(m[Key(f)]) > f.max
InBounds(m) ==
  /\ ~Overflows(m)
  /\ \A f \in Field(Root) : f.label = "singular" /\ f.kind = "string" => Len(m[f.tag]) < f.size

\* What the encoder wrote is read back: one message as it was, two messages
\* merged (or refused when an array overflows), delimited ones one by one; fields
\* the table does not know change nothing.  All extensions arrive, whether the
\* sender had found them or not; the callback fields of a submessage in a oneof
\* do not (decode_static_field clears their callbacks), and nothing else is lost.
RoundTrip ==
  phase = "send" /\ sent # <<>> =>
    IF framing = "delimited"
    THEN LET got == DecodeDelimited(wire, [pos |-> 0, left |-> Len(wire)])
         IN [k \in DOMAIN got |-> Seen(Root, got[k], "got")] = [k \in DOMAIN sent |-> Seen(Root, sent[k], "sent")]
    ELSE LET m == IF Len(sent) = 1 THEN sent[1] ELSE Merged(sent[1], sent[2])
             r == PbDecode(wire)
         IN IF Overflows(m) THEN ~r.ok ELSE r.ok /\ Seen(Root, r.v, "got") = Seen(Root, m, "sent")

\* A message cut short is refused, or read without its last fields: no field
\* and no extension has a value that was not sent, and no required field is missing.
CutIsPartial ==
  phase = "cut" /\ PbDecode(wire).ok =>
    LET got  == PbDecode(wire).v
        full == sent[1]
    IN \A f \in Field(Root) :
         LET a == SeenField(f, got[Key(f)], "got")
             b == SeenField(f, full[Key(f)], "sent")
         IN \/ a = b
            \/ f.label = "repeated" /\ IsPrefix(a, b)
            \/ f.kind = "extension" /\ \A k \in DOMAIN a : k \in DOMAIN b /\ a[k] = b[k]
            \/ f.label # "required" /\ got[Key(f)] = SetToDefault(f, TRUE)

\* Whatever bytes the decoder accepts, it stays in step with the stream and in
\* the bounds of the structure, and the message it returns can be encoded and
\* decoded again: nothing has changed but that every extension is now found.
AcceptedIsSound ==
  phase = "noise" =>
    LET r == PbDecode(wire)
        e == Encode(Root, r.v, "write")
        again == PbDecode(e.out)
    IN r.ok => /\ r.s.pos + r.s.left = Len(wire)
               /\ InBounds(r.v)
               /\ e.ok /\ again.ok /\ Seen(Root, again.v, "got") = Seen(Root, r.v, "sent")

\* Wires that no encoder finished, or wrote: nothing is made up of a message cut
\* short, and what is accepted of foreign bytes is a message.
DecodedIsSound == CutIsPartial /\ AcceptedIsSound
=============================================================================
