------------------------ MODULE UploadFetcherProofs ------------------------
(***************************************************************************)
(* Proofs about UploadFetcher, for any length, chunk size and granularity, *)
(* and any number of faults, pauses and terminations.                      *)
(*                                                                         *)
(* A handler is built from steps on a record of up, net and the callbacks  *)
(* it leaves pending.  HandlerOK says of such a record what every step     *)
(* keeps: its types, and that a pending callback has taken the client's    *)
(* handler away.  Types and callbacks are right whenever the client pauses *)
(* and resumes.                                                            *)
(*                                                                         *)
(* That the data arrive needs a client that does not pause during an offset*)
(* query or resume during the initial request, and chunks the server can   *)
(* keep whole (WholeChunks); Sound is what the client and the server then  *)
(* know of each other, and Fine what a handler's record keeps of it.       *)
(***************************************************************************)
EXTENDS UploadFetcher, TLAPS, FiniteSetTheorems, SequenceTheorems

\* The record a handler works on has its types.
RecordOK(s) ==
  /\ s = [up |-> s.up, net |-> s.net, pending |-> s.pending]
  /\ s.up \in Upload
  /\ NetOK(s.net)
  /\ s.pending \in Seq(Answer)

\* The handler has called the client back at most once, and only if nobody had
\* done so before.
CallbackOK(s) ==
  /\ s.up.due = up.due
  /\ Len(s.pending) <= 1
  /\ s.up.handler => up.handler /\ s.pending = <<>>
  /\ s.pending # <<>> => up.handler

HandlerOK(s) == RecordOK(s) /\ CallbackOK(s)

\* The handler is gone once the client has, or is about to get, its answer.
AnswerOK ==
  /\ OneAnswer
  /\ up.handler => answers = <<>> /\ up.due = <<>>

\* The inductive invariant.
IInv == TypeOK /\ AnswerOK

----------------------------------------------------------------------------
(* Flights.                                                                *)

\* NewSlot names a slot that is free.
LEMMA NewSlotFree ==
  ASSUME NEW n, NetOK(n) PROVE NewSlot(n) \in Nat \ {0} /\ NewSlot(n) \notin DOMAIN n
<1> DEFINE k == Cardinality(DOMAIN n)
           S == 1 .. k + 1
<1>1. IsFiniteSet(DOMAIN n) /\ k \in Nat
  BY FS_CardinalityType DEF NetOK
<1>2. IsFiniteSet(S) /\ Cardinality(S) = k + 1
  <2> HIDE DEF k
  <2>1. 1 \in Int /\ k + 1 \in Int /\ ~(1 > k + 1) /\ k + 1 - 1 + 1 = k + 1
    BY <1>1
  <2>2. IsFiniteSet(1 .. (k + 1)) /\ Cardinality(1 .. (k + 1)) = IF 1 > k + 1 THEN 0 ELSE k + 1 - 1 + 1
    BY <2>1, FS_Interval
  <2> QED
    BY <2>1, <2>2
<1>3. ~(S \subseteq DOMAIN n)
  <2>1. ASSUME S \subseteq DOMAIN n PROVE FALSE
    <3>1. Cardinality(S) <= k
      BY <1>1, <2>1, FS_Subset
    <3> QED
      BY <1>1, <1>2, <3>1
  <2> QED
    BY <2>1
<1>4. \E i \in S : i \notin DOMAIN n
  BY <1>3
<1>5. NewSlot(n) \in S /\ NewSlot(n) \notin DOMAIN n
  BY <1>4 DEF NewSlot
<1> QED
  BY <1>1, <1>5

\* A flight more keeps the flights typed.
LEMMA WithOK ==
  ASSUME NEW n, NetOK(n), NEW i \in Nat \ {0}, NEW f \in Flights
  PROVE  NetOK(With(n, i, f)) /\ DOMAIN With(n, i, f) = DOMAIN n \cup {i}
<1>1. IsFiniteSet(DOMAIN n \cup {i})
  BY FS_AddElement DEF NetOK
<1> QED
  BY <1>1 DEF NetOK, With

\* Fewer flights are still flights.
LEMMA WithoutOK ==
  ASSUME NEW n, NetOK(n), NEW I PROVE NetOK(Without(n, I))
<1>1. IsFiniteSet(DOMAIN n \ I)
  BY FS_Subset DEF NetOK
<1> QED
  BY <1>1 DEF NetOK, Without

\* A flight replaced in its slot.
LEMMA ReplaceOK ==
  ASSUME NEW n, NetOK(n), NEW i \in DOMAIN n, NEW f \in Flights
  PROVE  NetOK([n EXCEPT ![i] = f])
BY DEF NetOK

\* stopFetching leaves flights.
LEMMA StopFlightOK ==
  ASSUME NEW n, NetOK(n), NEW i PROVE NetOK(StopFlight(n, i))
<1>1. CASE i \notin DOMAIN n
  BY <1>1 DEF StopFlight
<1>2. CASE i \in DOMAIN n /\ n[i].stage = "sent"
  <2> DEFINE f == [n[i] EXCEPT !.live = FALSE]
  <2>1. n[i] \in Flights
    BY <1>2 DEF NetOK
  <2>2. f \in Flights
    BY <2>1 DEF Flights
  <2>3. StopFlight(n, i) = [n EXCEPT ![i] = f]
    BY <1>2 DEF StopFlight
  <2> HIDE DEF f
  <2> QED
    BY <1>2, <2>2, <2>3 DEF NetOK
<1>3. CASE i \in DOMAIN n /\ n[i].stage # "sent"
  BY <1>3, WithoutOK DEF StopFlight
<1> QED
  BY <1>1, <1>2, <1>3

\* A new fetcher, and a fetcher that has begun, are flights.
LEMMA FlightType ==
  ASSUME NEW u \in Upload, NEW kind \in {"start", "query", "cancel", "chunk"}
  PROVE  Flight(u, kind) \in Flights
BY DEF Flight, Flights, Upload, NoReply, Reply

\* Beginning a fetcher gives a flight.
LEMMA BegunType == ASSUME NEW f \in Flights PROVE Begun(f) \in Flights
BY DEF Begun, Flights, Unsent, Reply

\* The size and place of a chunk are numbers.
LEMMA ChunkForType ==
  ASSUME NEW u \in Upload, NEW offset \in Int
  PROVE  ChunkFor(u, offset).at \in Int /\ ChunkFor(u, offset).len \in Int
<1>1. u.granularity \in Nat /\ Length \in Int /\ ChunkSize \in Int /\ BufferedSize \in Int
  BY UploadAssumption DEF Upload, BufferedSize
<1>2. \A n \in Int : RoundDown(n, u.granularity) \in Int
  BY <1>1 DEF RoundDown
<1>3. RoundedChunkSize(u, offset) \in Int
  BY <1>1, <1>2 DEF RoundedChunkSize
<1> QED
  BY <1>1, <1>2, <1>3 DEF ChunkFor

----------------------------------------------------------------------------
(* The steps of a handler.                                                 *)

\* A step that changes the flights only.
LEMMA NetStep ==
  ASSUME NEW s, HandlerOK(s), NEW n, NetOK(n)
  PROVE  HandlerOK([s EXCEPT !.net = n])
BY DEF HandlerOK, RecordOK, CallbackOK

\* A step that changes what of up is neither its callbacks nor its handler.
LEMMA UpStep ==
  ASSUME NEW s, HandlerOK(s), NEW u \in Upload, u.due = s.up.due, u.handler => s.up.handler
  PROVE  HandlerOK([s EXCEPT !.up = u])
BY DEF HandlerOK, RecordOK, CallbackOK

\* destroyChunkFetcher.
LEMMA DestroyOK == ASSUME NEW s, HandlerOK(s) PROVE HandlerOK(DestroyChunkFetcher(s))
<1> DEFINE n == StopFlight(s.net, s.up.chunk)
           u == [s.up EXCEPT !.chunk = None]
<1>1. NetOK(n)
  BY StopFlightOK DEF HandlerOK, RecordOK
<1>2. u \in Upload /\ u.due = s.up.due /\ u.handler = s.up.handler
  BY DEF HandlerOK, RecordOK, Upload
<1>3. HandlerOK([s EXCEPT !.net = n])
  BY <1>1, NetStep
<1>4. [s EXCEPT !.net = n].up = s.up
  BY DEF HandlerOK, RecordOK
<1>5. HandlerOK([[s EXCEPT !.net = n] EXCEPT !.up = u])
  BY <1>2, <1>3, <1>4, UpStep
<1>6. DestroyChunkFetcher(s) = [[s EXCEPT !.net = n] EXCEPT !.up = u]
  BY DEF DestroyChunkFetcher, HandlerOK, RecordOK
<1> QED
  BY <1>5, <1>6

\* invokeFinalCallbackWithData calls the handler if there still is one, and
\* takes it away.
LEMMA FinalOK ==
  ASSUME NEW s, HandlerOK(s), NEW a \in Answer, NEW invalidate \in BOOLEAN
  PROVE  HandlerOK(FinalCallback(s, a, invalidate))
<1> DEFINE u == [s.up EXCEPT !.location = @ /\ ~invalidate, !.handler = FALSE]
           p == IF s.up.handler THEN Append(s.pending, a) ELSE s.pending
<1>1. u \in Upload /\ u.due = s.up.due /\ u.handler = FALSE
  BY DEF HandlerOK, RecordOK, Upload
<1>2. p \in Seq(Answer) /\ Len(p) <= 1 /\ (p # <<>> => up.handler)
  BY DEF HandlerOK, RecordOK, CallbackOK
<1>3. FinalCallback(s, a, invalidate) = [up |-> u, net |-> s.net, pending |-> p]
  BY DEF FinalCallback
<1> HIDE DEF u, p
<1>4. RecordOK([up |-> u, net |-> s.net, pending |-> p])
  BY <1>1, <1>2 DEF HandlerOK, RecordOK
<1>5. CallbackOK([up |-> u, net |-> s.net, pending |-> p])
  BY <1>1, <1>2 DEF HandlerOK, CallbackOK
<1> QED
  BY <1>3, <1>4, <1>5 DEF HandlerOK

\* A fetcher is created.
LEMMA AddOK ==
  ASSUME NEW s, HandlerOK(s), NEW f \in Flights
  PROVE  /\ HandlerOK(AddFlight(s, f))
         /\ NewSlot(s.net) \in DOMAIN AddFlight(s, f).net
<1>1. NetOK(s.net)
  BY DEF HandlerOK, RecordOK
<1>2. NewSlot(s.net) \in Nat \ {0}
  BY <1>1, NewSlotFree
<1>3. NetOK(With(s.net, NewSlot(s.net), f)) /\ NewSlot(s.net) \in DOMAIN With(s.net, NewSlot(s.net), f)
  <2> DEFINE n == s.net  i == NewSlot(n)
  <2>1. NetOK(n) /\ i \in Nat \ {0}
    BY <1>1, <1>2
  <2> HIDE DEF n, i
  <2>2. NetOK(With(n, i, f)) /\ DOMAIN With(n, i, f) = DOMAIN n \cup {i}
    BY <2>1, WithOK
  <2>3. NetOK(With(n, i, f)) /\ i \in DOMAIN With(n, i, f)
    BY <2>2
  <2> QED
    BY <2>3 DEF n, i
<1>4. AddFlight(s, f) = [s EXCEPT !.net = With(s.net, NewSlot(s.net), f)]
  BY DEF AddFlight
<1>5. AddFlight(s, f).net = With(s.net, NewSlot(s.net), f)
  BY <1>4 DEF HandlerOK, RecordOK
<1> QED
  BY <1>3, <1>4, <1>5, NetStep

\* sendQueryForUploadOffset and the cancel request.
LEMMA SendOK ==
  ASSUME NEW s, HandlerOK(s) PROVE HandlerOK(SendQuery(s)) /\ HandlerOK(SendCancel(s))
<1>1. s.up \in Upload
  BY DEF HandlerOK, RecordOK
<1>2. Begun(Flight(s.up, "query")) \in Flights /\ Begun(Flight(s.up, "cancel")) \in Flights
  BY <1>1, FlightType, BegunType
<1> QED
  BY <1>2, AddOK DEF SendQuery, SendCancel

\* beginChunkFetcher.
LEMMA BeginChunkOK ==
  ASSUME NEW s, HandlerOK(s), NEW i \in DOMAIN s.net
  PROVE  HandlerOK(BeginChunkFetcher(s, i))
<1>1. s.net[i] \in Flights /\ i \in Nat
  BY DEF HandlerOK, RecordOK, NetOK
<1> DEFINE n == [s.net EXCEPT ![i] = Begun(s.net[i])]
           u == [s.up EXCEPT !.offset = s.net[i].from, !.chunk = i]
<1>2. NetOK(n)
  BY <1>1, BegunType, ReplaceOK DEF HandlerOK, RecordOK
<1>3. u \in Upload /\ u.due = s.up.due /\ u.handler = s.up.handler
  BY <1>1 DEF HandlerOK, RecordOK, Upload, Flights
<1>4. BeginChunkFetcher(s, i) = [up |-> u, net |-> n, pending |-> s.pending]
  BY DEF BeginChunkFetcher
<1> HIDE DEF u, n
<1> QED
  BY <1>2, <1>3, <1>4 DEF HandlerOK, RecordOK, CallbackOK

\* uploadNextChunkWithOffset.
LEMMA UploadNextOK ==
  ASSUME NEW s, HandlerOK(s), NEW offset \in Int PROVE HandlerOK(UploadNext(s, offset))
<1>1. s.up \in Upload
  BY DEF HandlerOK, RecordOK
<1> DEFINE c == ChunkFor(s.up, offset)
           f == [Flight(s.up, "chunk") EXCEPT
                   !.cmd = IF c.final THEN "finalize" ELSE "upload",
                   !.at = c.at, !.from = offset,
                   !.len = c.len, !.known = c.len > 0]
<1>2. c.at \in Int /\ c.len \in Int
  BY <1>1, ChunkForType
<1> HIDE DEF c
<1>3. f \in Flights
  <2> DEFINE g == Flight(s.up, "chunk")
             b == c.len > 0
             x == IF c.final THEN "finalize" ELSE "upload"
  <2>1. g \in Flights
    BY <1>1, FlightType
  <2>2. b \in BOOLEAN /\ x \in {"finalize", "upload"}
    OBVIOUS
  <2> HIDE DEF g, b, x
  <2>3. [g EXCEPT !.cmd = x, !.at = c.at, !.from = offset, !.len = c.len, !.known = b] \in Flights
    BY <1>2, <2>1, <2>2 DEF Flights
  <2> QED
    BY <2>3 DEF g, b, x
<1> HIDE DEF f
<1>4. HandlerOK(AddFlight(s, f)) /\ NewSlot(s.net) \in DOMAIN AddFlight(s, f).net
  BY <1>3, AddOK
<1>5. HandlerOK(BeginChunkFetcher(AddFlight(s, f), NewSlot(s.net)))
  BY <1>4, BeginChunkOK
<1>6. UploadNext(s, offset) \in {AddFlight(s, f), BeginChunkFetcher(AddFlight(s, f), NewSlot(s.net))}
  BY DEF UploadNext, f, c
<1> QED
  BY <1>4, <1>5, <1>6

\* chunkFetcher:finishedWithData:error:.
LEMMA ChunkFinishedOK ==
  ASSUME NEW s, HandlerOK(s), NEW f \in Flights, NEW error
  PROVE  HandlerOK(ChunkFinished(s, f, error))
<1>1. s.up \in Upload /\ s = [up |-> s.up, net |-> s.net, pending |-> s.pending]
  BY DEF HandlerOK, RecordOK
<1>2. HandlerOK([s EXCEPT !.up.query = FALSE])
  <2>1. [s.up EXCEPT !.query = FALSE] \in Upload
    BY <1>1 DEF Upload
  <2>2. HandlerOK([s EXCEPT !.up = [s.up EXCEPT !.query = FALSE]])
    BY <1>1, <2>1, UpStep DEF Upload
  <2> QED
    BY <1>1, <2>2
<1>3. HandlerOK(SendQuery(DestroyChunkFetcher([s EXCEPT !.up.query = FALSE])))
  BY <1>2, DestroyOK, SendOK
<1>4. \A a \in Answer, b \in BOOLEAN : HandlerOK(DestroyChunkFetcher(FinalCallback(s, a, b)))
  BY FinalOK, DestroyOK
<1>5. HandlerOK(UploadNext(DestroyChunkFetcher([s EXCEPT !.up.offset = s.up.offset + f.len]),
                           s.up.offset + f.len))
  <2>1. s.up.offset + f.len \in Int
    BY <1>1 DEF Upload, Flights
  <2>2. [s.up EXCEPT !.offset = s.up.offset + f.len] \in Upload
    BY <1>1, <2>1 DEF Upload
  <2>3. HandlerOK([s EXCEPT !.up = [s.up EXCEPT !.offset = s.up.offset + f.len]])
    BY <1>1, <2>2, UpStep DEF Upload
  <2>4. HandlerOK([s EXCEPT !.up.offset = s.up.offset + f.len])
    BY <1>1, <2>3
  <2> QED
    BY <2>1, <2>4, DestroyOK, UploadNextOK
<1> QED
  BY <1>3, <1>4, <1>5 DEF ChunkFinished, Answer

\* The completion of an offset query.
LEMMA QueryFinishedOK ==
  ASSUME NEW s, HandlerOK(s), NEW f \in Flights PROVE HandlerOK(QueryFinished(s, f))
<1>1. s.up \in Upload /\ s = [up |-> s.up, net |-> s.net, pending |-> s.pending]
  BY DEF HandlerOK, RecordOK
<1>2. [s.up EXCEPT !.granularity = Granularity] \in Upload
  BY <1>1, UploadAssumption DEF Upload
<1>3. HandlerOK([s EXCEPT !.up = [s.up EXCEPT !.granularity = Granularity]])
  BY <1>1, <1>2, UpStep DEF Upload
<1>4. HandlerOK([s EXCEPT !.up.granularity = Granularity])
  BY <1>1, <1>3
<1>5. f.reply.received \in Int
  BY DEF Flights, Reply
<1>6. HandlerOK(UploadNext([s EXCEPT !.up.granularity = Granularity], f.reply.received))
  BY <1>4, <1>5, UploadNextOK
<1>7. \A error : HandlerOK(ChunkFinished(s, f, error))
  BY ChunkFinishedOK
<1> QED
  BY <1>6, <1>7 DEF QueryFinished

\* The completion of the initial request.
LEMMA StartFinishedOK ==
  ASSUME NEW s, HandlerOK(s), NEW f \in Flights PROVE HandlerOK(StartFinished(s, f))
<1>1. s.up \in Upload /\ s = [up |-> s.up, net |-> s.net, pending |-> s.pending]
  BY DEF HandlerOK, RecordOK
<1> DEFINE u == [s.up EXCEPT !.granularity = Granularity, !.location = TRUE]
           t == [s EXCEPT !.up.granularity = Granularity, !.up.location = TRUE]
<1>2. u \in Upload /\ u.due = s.up.due /\ u.handler = s.up.handler
  BY <1>1, UploadAssumption DEF Upload
<1>3. t = [s EXCEPT !.up = u]
  BY <1>1
<1>4. HandlerOK(t)
  BY <1>2, <1>3, UpStep
<1> HIDE DEF t
<1>5. HandlerOK(UploadNext(t, 0))
  BY <1>4, UploadNextOK
<1>6. HandlerOK(FinalCallback(s, "error", TRUE))
  BY FinalOK DEF Answer
<1> QED
  BY <1>4, <1>5, <1>6 DEF StartFinished, t

----------------------------------------------------------------------------
(* The server.                                                             *)

\* The bytes of a chunk are a sequence of numbers.
LEMMA SliceType == ASSUME NEW a \in Int, NEW n \in Int PROVE Slice(a, n) \in Seq(Int)
<1>1. CASE n \in Nat
  BY <1>1 DEF Slice
<1>2. CASE n \notin Nat
  <2>1. 1 .. n = 1 .. 0
    BY <1>2
  <2>2. Slice(a, n) \in [1 .. 0 -> Int]
    BY <2>1 DEF Slice
  <2> QED
    BY <2>2
<1> QED
  BY <1>1, <1>2

\* The type of the server.
Servers == [state : {"none", "active", "final", "cancelled"}, content : Seq(Int)]

\* What the server keeps of a chunk leaves it typed.
LEMMA KeptType ==
  ASSUME server \in Servers, NEW f \in Flights, NEW n \in Int
  PROVE  Kept(f, n) \in Servers
<1>1. Slice(f.from, n) \in Seq(Int)
  BY SliceType DEF Flights
<1>2. server.content \o Slice(f.from, n) \in Seq(Int)
  BY <1>1 DEF Servers
<1> QED
  BY <1>2 DEF Kept, Servers

\* Every request leaves the server typed.
LEMMA ProcessedType ==
  ASSUME server \in Servers, NEW f \in Flights
  PROVE  /\ Processed(f).sv \in Servers
         /\ Processed(f).error \in {"none", "4xx"}
<1>1. RoundDown(f.len, Granularity) \in Int
  BY UploadAssumption DEF RoundDown, Flights
<1>2. Kept(f, RoundDown(f.len, Granularity)) \in Servers
  BY <1>1, KeptType
<1>3. [Kept(f, f.len) EXCEPT !.state = "final"] \in Servers
  <2>1. Kept(f, f.len) \in Servers
    BY KeptType DEF Flights
  <2> QED
    BY <2>1 DEF Servers
<1>4. [server EXCEPT !.state = IF @ = "active" THEN "cancelled" ELSE @] \in Servers
  BY DEF Servers
<1>5. [state |-> "active", content |-> <<>>] \in Servers
  BY DEF Servers
<1> QED
  BY <1>2, <1>3, <1>4, <1>5 DEF Processed

----------------------------------------------------------------------------
(* The steps.                                                              *)

\* Before a handler runs nothing is pending.
LEMMA StateOK == ASSUME TypeOK PROVE HandlerOK(State) /\ State.up = up /\ State.net = net
<1>1. State.up = up /\ State.net = net /\ State.pending = <<>>
  BY DEF State
<1>2. RecordOK(State)
  BY <1>1 DEF RecordOK, State, TypeOK
<1>3. CallbackOK(State)
  BY <1>1 DEF CallbackOK
<1> QED
  BY <1>1, <1>2, <1>3 DEF HandlerOK

\* A handler built from the steps above keeps the invariant.
LEMMA HandleOK ==
  ASSUME IInv, NEW s, HandlerOK(s), Handle(s),
         UNCHANGED budget \/ (\E k \in {"fault", "pause", "crash"} : Budget(k))
  PROVE  IInv'
<1>1. s.up \in Upload /\ NetOK(s.net) /\ s.pending \in Seq(Answer) /\ up \in Upload
  BY DEF HandlerOK, RecordOK, IInv, TypeOK
<1>2. /\ up' = [s.up EXCEPT !.due = s.up.due \o s.pending]
      /\ net' = s.net /\ UNCHANGED <<server, answers>>
  BY DEF Handle
<1>3. s.up.due = up.due /\ up.due \in Seq(Answer) /\ s.up.due \o s.pending \in Seq(Answer)
  BY <1>1 DEF HandlerOK, CallbackOK, Upload
<1>4. up' \in Upload /\ up'.due = s.up.due \o s.pending /\ up'.handler = s.up.handler
  BY <1>1, <1>2, <1>3 DEF Upload
<1>5. budget' \in [{"fault", "pause", "crash"} -> Nat]
  BY DEF Budget, IInv, TypeOK
<1>6. TypeOK'
  BY <1>1, <1>2, <1>4, <1>5 DEF TypeOK, NetOK, IInv
<1>7. Len(up'.due) = Len(up.due) + Len(s.pending)
  BY <1>1, <1>3, <1>4
<1>8. answers \in Seq(Answer)
  BY DEF IInv, TypeOK
<1>9. CASE s.pending = <<>>
  <2>1. up'.due = up.due
    BY <1>3, <1>4, <1>9
  <2> QED
    BY <1>2, <1>4, <1>6, <2>1 DEF IInv, AnswerOK, OneAnswer, HandlerOK, CallbackOK
<1>10. CASE s.pending # <<>>
  <2>1. up.handler /\ ~s.up.handler /\ Len(s.pending) <= 1 /\ s.up.handler \in BOOLEAN
    BY <1>1, <1>10 DEF HandlerOK, CallbackOK, Upload
  <2>2. answers = <<>> /\ up.due = <<>>
    BY <2>1 DEF IInv, AnswerOK
  <2>3. Len(answers') + Len(up'.due) <= 1
    <3>1. answers' = answers /\ Len(answers) = 0 /\ Len(up.due) = 0 /\ Len(s.pending) \in Nat
      BY <1>1, <1>2, <2>2
    <3> QED
      BY <1>7, <2>1, <3>1
  <2> QED
    BY <1>4, <1>6, <2>1, <2>3 DEF IInv, AnswerOK, OneAnswer
<1> QED
  BY <1>9, <1>10

\* What a step that only replaces or removes flights, or moves the server, keeps.
LEMMA FlightStep ==
  ASSUME IInv, NetOK(net'), server' \in Servers, UNCHANGED <<up, answers>>,
         UNCHANGED budget \/ (\E k \in {"fault", "pause", "crash"} : Budget(k))
  PROVE  IInv'
<1>1. budget' \in [{"fault", "pause", "crash"} -> Nat]
  BY DEF Budget, IInv, TypeOK
<1> QED
  BY <1>1 DEF IInv, TypeOK, AnswerOK, OneAnswer, Servers, NetOK

\* The answer of the server, or the lack of one, reaches the flight.
LEMMA RepliedOK ==
  ASSUME NEW n, NetOK(n), NEW i \in DOMAIN n, NEW r \in Reply
  PROVE  NetOK(Replied(n, i, r))
<1> DEFINE f == [n[i] EXCEPT !.stage = "replied", !.reply = r]
<1>1. n[i] \in Flights
  BY DEF NetOK
<1>2. f \in Flights
  BY <1>1 DEF Flights
<1>3. Replied(n, i, r) = [n EXCEPT ![i] = f]
  BY DEF Replied
<1> HIDE DEF f
<1>4. NetOK([n EXCEPT ![i] = f])
  BY <1>2, ReplaceOK
<1> QED
  BY <1>3, <1>4

\* The client begins the fetch.
LEMMA BeginFetchInv == ASSUME IInv, BeginFetch PROVE IInv'
<1> DEFINE s == [State EXCEPT !.up.begun = TRUE]
           u == [up EXCEPT !.begun = TRUE]
<1>1. up \in Upload /\ HandlerOK(State) /\ State.up = up
  BY StateOK DEF IInv, TypeOK
<1>2. u \in Upload /\ u.due = up.due /\ u.handler = up.handler
  BY <1>1 DEF Upload
<1>3. s = [State EXCEPT !.up = u]
  BY DEF State
<1>4. HandlerOK(s) /\ s.up \in Upload
  BY <1>1, <1>2, <1>3, UpStep DEF State
<1> HIDE DEF s
<1>5. [Flight(s.up, "start") EXCEPT !.stage = "sent"] \in Flights
  <2>1. Flight(s.up, "start") \in Flights
    BY <1>4, FlightType
  <2> QED
    BY <2>1 DEF Flights
<1>6. HandlerOK(AddFlight(s, [Flight(s.up, "start") EXCEPT !.stage = "sent"])) /\ HandlerOK(SendQuery(s))
  BY <1>4, <1>5, AddOK, SendOK
<1>7. \E t : HandlerOK(t) /\ Handle(t)
  BY <1>4, <1>6 DEF BeginFetch, s
<1> QED
  BY <1>7, HandleOK DEF BeginFetch

\* The retry question leaves the upload typed, its callbacks and handler alone.
LEMMA AskRetryType ==
  ASSUME NEW u \in Upload, NEW f
  PROVE  /\ AskRetry(u, f) \in Upload
         /\ AskRetry(u, f).due = u.due /\ AskRetry(u, f).handler = u.handler
<1> DEFINE v == [u EXCEPT !.offset = 0]
<1>1. v \in Upload /\ v.due = u.due /\ v.handler = u.handler
  BY DEF Upload
<1> HIDE DEF v
<1>2. ASSUME NEW b \in BOOLEAN
      PROVE  LET w == [v EXCEPT !.query = b] IN w \in Upload /\ w.due = v.due /\ w.handler = v.handler
  BY <1>1 DEF Upload
<1>3. AskRetry(u, f) = [v EXCEPT !.query = (f.kind # "query")]
  BY DEF AskRetry, Upload, v
<1> DEFINE q == f.kind # "query"
<1>4. q \in BOOLEAN
  OBVIOUS
<1> HIDE DEF q
<1>5. AskRetry(u, f) = [v EXCEPT !.query = q]
  BY <1>3 DEF q
<1> QED
  BY <1>1, <1>2, <1>4, <1>5

\* The retry question of a chunk, a query or the initial request.
LEMMA RetryInv ==
  ASSUME IInv, NEW i \in DOMAIN net, RetryBlock(i) \/ RetryStart(i) PROVE IInv'
<1>1. up \in Upload /\ NetOK(net) /\ HandlerOK(State) /\ net[i] \in Flights
  BY StateOK DEF IInv, TypeOK, NetOK
<1>2. CASE RetryBlock(i)
  <2> DEFINE u == AskRetry(up, net[i])
             f == [net[i] EXCEPT !.stage = "asked"]
             s == [up |-> u, net |-> [net EXCEPT ![i].stage = "asked"], pending |-> <<>>]
  <2>1. u \in Upload /\ u.due = up.due /\ u.handler = up.handler
    BY <1>1, AskRetryType
  <2>2. f \in Flights
    BY <1>1 DEF Flights
  <2> HIDE DEF u
  <2>3. s = [up |-> u, net |-> [net EXCEPT ![i] = f], pending |-> <<>>]
    OBVIOUS
  <2>4. NetOK([net EXCEPT ![i] = f])
    <3> HIDE DEF f
    <3> QED
      BY <1>1, <2>2, ReplaceOK
  <2> HIDE DEF f, s
  <2>5. HandlerOK(s)
    <3> DEFINE n == [net EXCEPT ![i] = f]
    <3>1. NetOK(n) /\ s = [up |-> u, net |-> n, pending |-> <<>>]
      BY <2>3, <2>4
    <3> HIDE DEF n
    <3> QED
      BY <2>1, <3>1 DEF HandlerOK, RecordOK, CallbackOK
  <2> QED
    BY <1>2, <2>5, HandleOK DEF RetryBlock, s, u
<1>3. CASE RetryStart(i)
  <2> DEFINE f == [net[i] EXCEPT !.stage = "sent", !.reply = NoReply]
             n == [net EXCEPT ![i].stage = "sent", ![i].reply = NoReply]
  <2>1. f \in Flights
    BY <1>1 DEF Flights, NoReply, Reply
  <2>2. n = [net EXCEPT ![i] = f]
    BY <1>1 DEF NetOK
  <2>3. NetOK(n)
    <3> HIDE DEF f, n
    <3>1. NetOK([net EXCEPT ![i] = f])
      BY <1>1, <2>1, ReplaceOK
    <3> QED
      BY <2>2, <3>1
  <2>4. HandlerOK([State EXCEPT !.net = n])
    <3> HIDE DEF n
    <3> QED
      BY <1>1, <2>3, NetStep
  <2> QED
    BY <1>3, <2>4, HandleOK DEF RetryStart
<1> QED
  BY <1>2, <1>3

\* A flight ends and its completion handler runs.
LEMMA FinishedInv == ASSUME IInv, NEW i \in DOMAIN net, Finished(i) PROVE IInv'
<1> DEFINE f == net[i]
           s == [State EXCEPT !.net = Without(net, {i})]
<1>1. NetOK(net) /\ HandlerOK(State) /\ f \in Flights
  BY StateOK DEF IInv, TypeOK, NetOK
<1>2. HandlerOK(s)
  BY <1>1, WithoutOK, NetStep
<1> HIDE DEF s
<1>3. /\ HandlerOK(StartFinished(s, f)) /\ HandlerOK(QueryFinished(s, f))
      /\ HandlerOK(ChunkFinished(s, f, f.reply.error))
  BY <1>1, <1>2, StartFinishedOK, QueryFinishedOK, ChunkFinishedOK
<1>4. /\ Handle(CASE f.kind = "start" -> StartFinished(s, f)
                  [] f.kind = "query" -> QueryFinished(s, f)
                  [] f.kind = "chunk" -> ChunkFinished(s, f, f.reply.error)
                  [] OTHER            -> s)
      /\ UNCHANGED budget
  BY DEF Finished, s
<1>5. \E t : HandlerOK(t) /\ Handle(t)
  BY <1>2, <1>3, <1>4
<1> QED
  BY <1>4, <1>5, HandleOK

\* The data of a chunk is there, or cannot be read.
LEMMA GeneratedInv ==
  ASSUME IInv, NEW i \in DOMAIN net, Generated(i) \/ GenerationFails(i) PROVE IInv'
<1>1. NetOK(net) /\ HandlerOK(State) /\ State.net = net
  BY StateOK DEF IInv, TypeOK
<1>2. CASE Generated(i)
  <2>1. HandlerOK(BeginChunkFetcher(State, i))
    BY <1>1, BeginChunkOK
  <2> QED
    BY <1>2, <2>1, HandleOK DEF Generated
<1>3. CASE GenerationFails(i)
  <2>1. HandlerOK([State EXCEPT !.net = Without(net, {i})])
    BY <1>1, WithoutOK, NetStep
  <2>2. HandlerOK(FinalCallback([State EXCEPT !.net = Without(net, {i})], "error", TRUE))
    BY <2>1, FinalOK DEF Answer
  <2> QED
    BY <1>3, <2>2, HandleOK DEF GenerationFails
<1> QED
  BY <1>2, <1>3

\* The client pauses and resumes.
LEMMA PauseResumeInv == ASSUME IInv, Pause \/ Resume PROVE IInv'
<1>1. up \in Upload /\ HandlerOK(State) /\ State.up = up
  BY StateOK DEF IInv, TypeOK
<1>2. ASSUME NEW b \in BOOLEAN PROVE HandlerOK([State EXCEPT !.up = [up EXCEPT !.paused = b]])
  <2> DEFINE u == [up EXCEPT !.paused = b]
  <2>1. u \in Upload /\ u.due = up.due /\ u.handler = up.handler
    BY <1>1 DEF Upload
  <2> HIDE DEF u
  <2>2. HandlerOK([State EXCEPT !.up = u])
    BY <1>1, <2>1, UpStep
  <2> QED
    BY <2>2 DEF u
<1>3. ASSUME NEW b \in BOOLEAN
      PROVE  [State EXCEPT !.up.paused = b] = [State EXCEPT !.up = [up EXCEPT !.paused = b]]
  BY <1>1
<1>4. /\ HandlerOK(DestroyChunkFetcher([State EXCEPT !.up.paused = TRUE]))
      /\ HandlerOK(SendQuery([State EXCEPT !.up.paused = FALSE]))
  BY <1>2, <1>3, DestroyOK, SendOK
<1>5. CASE Pause
  BY <1>4, <1>5, HandleOK DEF Pause
<1>6. CASE Resume
  BY <1>4, <1>6, HandleOK DEF Resume
<1> QED
  BY <1>5, <1>6

\* The client stops the fetch: the handler goes without having been called.
LEMMA StopInv == ASSUME IInv, StopFetching PROVE IInv'
<1> DEFINE s == DestroyChunkFetcher(State)
           c == IF s.up.location THEN SendCancel(s) ELSE s
           starts == {i \in DOMAIN c.net : c.net[i].kind = "start"}
           u == [c.up EXCEPT !.location = FALSE, !.handler = FALSE, !.stopped = TRUE]
           n == [i \in DOMAIN c.net |-> [c.net[i] EXCEPT !.live = @ /\ i \notin starts]]
           t == [up |-> u, net |-> n, pending |-> c.pending]
<1>1. HandlerOK(s)
  BY StateOK, DestroyOK DEF IInv
<1> HIDE DEF s
<1>2. HandlerOK(c)
  BY <1>1, SendOK
<1>3. Handle(t) /\ UNCHANGED budget
  BY DEF StopFetching, s
<1> HIDE DEF c
<1>4. u \in Upload /\ u.due = c.up.due /\ u.handler = FALSE
  <2>1. c.up \in Upload
    BY <1>2 DEF HandlerOK, RecordOK
  <2> DEFINE v == c.up
  <2>2. v \in Upload
    BY <2>1
  <2> HIDE DEF v
  <2>3. LET x == [v EXCEPT !.location = FALSE, !.handler = FALSE, !.stopped = TRUE]
        IN x \in Upload /\ x.due = v.due /\ x.handler = FALSE
    BY <2>2 DEF Upload
  <2> QED
    BY <2>3 DEF v
<1>5. NetOK(n)
  <2>1. NetOK(c.net)
    BY <1>2 DEF HandlerOK, RecordOK
  <2>2. \A i \in DOMAIN c.net : n[i] \in Flights
    <3> SUFFICES ASSUME NEW i \in DOMAIN c.net PROVE n[i] \in Flights
      OBVIOUS
    <3> DEFINE f == c.net[i]
               b == f.live /\ i \notin starts
    <3>1. f \in Flights /\ b \in BOOLEAN
      BY <2>1 DEF NetOK
    <3>2. n[i] = [f EXCEPT !.live = b]
      OBVIOUS
    <3> HIDE DEF f, b, n
    <3>3. [f EXCEPT !.live = b] \in Flights
      BY <3>1 DEF Flights
    <3> QED
      BY <3>2, <3>3
  <2>3. DOMAIN n = DOMAIN c.net
    OBVIOUS
  <2>4. n \in [DOMAIN c.net -> Flights]
    BY <2>2
  <2> HIDE DEF n
  <2> QED
    BY <2>1, <2>3, <2>4 DEF NetOK
<1> HIDE DEF u, n
<1>6. HandlerOK(t)
  BY <1>2, <1>4, <1>5 DEF HandlerOK, RecordOK, CallbackOK
<1> QED
  BY <1>3, <1>6, HandleOK

\* The callback reaches the client, unless the fetch was stopped meanwhile.
LEMMA DeliverInv == ASSUME IInv, Deliver PROVE IInv'
<1>1. /\ up \in Upload /\ up.due \in Seq(Answer) /\ up.due # <<>>
      /\ answers \in Seq(Answer)
  BY DEF IInv, TypeOK, Upload, Deliver
<1>2. /\ Tail(up.due) \in Seq(Answer) /\ Len(Tail(up.due)) = Len(up.due) - 1 /\ Len(up.due) \in Nat \ {0}
      /\ Head(up.due) \in Answer
  BY <1>1
<1>3. up' = [up EXCEPT !.due = Tail(up.due)] /\ UNCHANGED <<net, server, budget>>
  BY DEF Deliver
<1>4. up' \in Upload /\ up'.due = Tail(up.due) /\ up'.handler = up.handler
  BY <1>1, <1>2, <1>3 DEF Upload
<1>5. answers' \in Seq(Answer) /\ Len(answers') <= Len(answers) + 1 /\ Len(answers') \in Nat /\ Len(answers) \in Nat
  BY <1>1, <1>2 DEF Deliver
<1>6. TypeOK'
  BY <1>3, <1>4, <1>5 DEF IInv, TypeOK, NetOK
<1>7. OneAnswer'
  BY <1>2, <1>4, <1>5 DEF IInv, AnswerOK, OneAnswer
<1>8. ~up.handler
  BY <1>1 DEF IInv, AnswerOK
<1> QED
  BY <1>4, <1>6, <1>7, <1>8 DEF IInv, AnswerOK

\* A request that outlives the app is still a flight.
LEMMA OrphanType ==
  ASSUME NEW f \in Flights, NEW a \in BOOLEAN, NEW known \in BOOLEAN
  PROVE  Orphan(f, a, known) \in Flights
<1> DEFINE b == f.known /\ known
           x == IF f.stage = "asked" THEN "replied" ELSE f.stage
<1>1. b \in BOOLEAN /\ x \in {"generating", "sent", "replied", "asked"}
  BY DEF Flights
<1>2. Orphan(f, a, known) = [f EXCEPT !.live = a, !.retry = FALSE, !.known = b, !.stage = x]
  BY DEF Orphan, Flights
<1> HIDE DEF b, x
<1>3. [f EXCEPT !.live = a, !.retry = FALSE, !.known = b, !.stage = x] \in Flights
  BY <1>1 DEF Flights
<1> QED
  BY <1>2, <1>3

\* The upload fetcher made anew from a session's metadata has nothing to deliver.
LEMMA RestoredType ==
  ASSUME NEW u \in Upload, NEW k \in Nat \cup {None}, NEW o \in Int
  PROVE  Restored(u, k, o) \in Upload /\ Restored(u, k, o).due = <<>>
<1> DEFINE some == k # None
           none == k = None
<1>1. some \in BOOLEAN /\ none \in BOOLEAN
  OBVIOUS
<1>2. Restored(u, k, o) =
        [u EXCEPT !.location = some, !.restarted = TRUE, !.offset = o,
                  !.granularity = 0, !.query = FALSE, !.retry = FALSE, !.chunk = k,
                  !.paused = FALSE, !.handler = some, !.due = <<>>, !.lost = none]
  BY DEF Restored
<1> HIDE DEF some, none
<1>3. Restored(u, k, o) =
        [begun |-> u.begun, restarted |-> TRUE, file |-> u.file, retry |-> FALSE,
         location |-> some, offset |-> o, granularity |-> 0, chunk |-> k,
         paused |-> FALSE, query |-> FALSE, handler |-> some, stopped |-> u.stopped,
         due |-> <<>>, lost |-> none]
  BY <1>2 DEF Upload
<1>4. u.begun \in BOOLEAN /\ u.file \in BOOLEAN /\ u.stopped \in BOOLEAN
  BY DEF Upload
<1> QED
  BY <1>1, <1>3, <1>4 DEF Upload

\* The app is terminated and launched again: a new handler is attached only
\* while the client has no answer.
LEMMA RelaunchInv == ASSUME IInv, Relaunch PROVE IInv'
<1>1. up \in Upload /\ NetOK(net)
  BY DEF IInv, TypeOK
<1>2. answers = <<>> /\ UNCHANGED <<server, answers>> /\ Budget("crash")
  BY DEF Relaunch
<1>3. budget' \in [{"fault", "pause", "crash"} -> Nat]
  BY <1>2 DEF IInv, TypeOK, Budget
<1>4. NetOK(net')
  <2> DEFINE S == {j \in DOMAIN net : net[j].stage = "sent" \/ j \in Persisted}
  <2>1. PICK known \in BOOLEAN : net' = [i \in S |-> Orphan(net[i], i \in Persisted, known)]
    BY DEF Relaunch
  <2>2. ASSUME NEW i \in S PROVE Orphan(net[i], i \in Persisted, known) \in Flights
    <3> DEFINE a == i \in Persisted
    <3>1. net[i] \in Flights /\ a \in BOOLEAN
      BY <1>1 DEF NetOK
    <3> HIDE DEF a
    <3>2. Orphan(net[i], a, known) \in Flights
      BY <3>1, OrphanType
    <3> QED
      BY <3>2 DEF a
  <2>3. S \subseteq DOMAIN net /\ IsFiniteSet(S)
    BY <1>1, FS_Subset DEF NetOK
  <2> HIDE DEF S
  <2>4. DOMAIN net' = S /\ net' \in [S -> Flights]
    BY <2>1, <2>2
  <2> QED
    BY <1>1, <2>3, <2>4 DEF NetOK
<1>5. up' \in Upload /\ up'.due = <<>>
  <2>1. ASSUME NEW i \in Persisted PROVE i \in Nat \cup {None} /\ net[i].meta \in Int
    BY <1>1, <2>1 DEF Persisted, NetOK, Flights
  <2>2. \/ up' = Restored(up, None, 0)
        \/ \E i \in Persisted : up' = Restored(up, i, net[i].meta)
    BY DEF Relaunch
  <2>3. CASE up' = Restored(up, None, 0)
    <3>1. None \in Nat \cup {None} /\ 0 \in Int
      OBVIOUS
    <3>2. Restored(up, None, 0) \in Upload /\ Restored(up, None, 0).due = <<>>
      BY <1>1, <3>1, RestoredType
    <3> QED
      BY <2>3, <3>2
  <2>4. ASSUME NEW i \in Persisted, up' = Restored(up, i, net[i].meta)
        PROVE  up' \in Upload /\ up'.due = <<>>
    <3> DEFINE o == net[i].meta
    <3>1. i \in Nat \cup {None} /\ o \in Int /\ up' = Restored(up, i, o)
      BY <2>1, <2>4
    <3> HIDE DEF o
    <3> QED
      BY <1>1, <3>1, RestoredType
  <2> QED
    BY <2>2, <2>3, <2>4
<1>6. TypeOK'
  BY <1>2, <1>3, <1>4, <1>5 DEF IInv, TypeOK, NetOK
<1> QED
  BY <1>2, <1>5, <1>6 DEF IInv, AnswerOK, OneAnswer

\* An answer that is lost is an error; one that refuses the upload is not, but only
\* an initial request gets it.  Neither says that the upload is finished.
LEMMA BadAnswer ==
  ASSUME NEW f, NEW r \in Lost \cup Refused(f)
  PROVE  r \in Reply /\ r.status # "final" /\ (f.kind # "start" => r.error # "none")
<1>1. CASE r \in Lost
  BY <1>1 DEF Lost, NoReply, Reply
<1>2. CASE r \in Refused(f)
  BY <1>2 DEF Refused, NoReply, Reply
<1> QED
  BY <1>1, <1>2

\* The server answers, the connection breaks, or a request is given up.
LEMMA NetworkInv ==
  ASSUME IInv, NEW i \in DOMAIN net, Serve(i) \/ Fail(i) \/ Drop(i) PROVE IInv'
<1>1. NetOK(net) /\ net[i] \in Flights /\ server \in Servers
  BY DEF IInv, TypeOK, NetOK, Servers
<1>2. Processed(net[i]).sv \in Servers /\ Processed(net[i]).error \in {"none", "4xx"}
  BY <1>1, ProcessedType
<1>3. CASE Serve(i)
  <2> DEFINE p == Processed(net[i])
             r == Result(p.sv, p.error)
  <2>1. r \in Reply
    <3> HIDE DEF p
    <3>1. p.sv \in Servers /\ p.error \in {"none", "4xx"}
      BY <1>2 DEF p
    <3>2. p.sv.state \in {"none", "active", "final", "cancelled"} /\ Len(p.sv.content) \in Nat
      BY <3>1 DEF Servers
    <3> QED
      BY <3>1, <3>2 DEF Result, Reply
  <2>2. /\ server' = p.sv /\ UNCHANGED <<up, answers, budget>>
        /\ \/ net' = Replied(net, i, r)
           \/ net' = Without(net, {i})
    BY <1>3 DEF Serve
  <2> HIDE DEF r
  <2>3. NetOK(net')
    BY <1>1, <2>1, <2>2, RepliedOK, WithoutOK
  <2>4. server' \in Servers
    BY <1>2, <2>2
  <2> QED
    BY <2>2, <2>3, <2>4, FlightStep
<1>4. CASE Fail(i)
  <2>1. \A n \in Int : Kept(net[i], n) \in Servers
    BY <1>1, KeptType
  <2>2. server' \in Servers
    BY <1>1, <1>2, <1>4, <2>1 DEF Fail
  <2>3. PICK r \in Lost \cup Refused(net[i]) : net' = Replied(net, i, r)
    BY <1>4 DEF Fail
  <2>4. r \in Reply
    BY <2>3, BadAnswer
  <2>5. NetOK(net')
    BY <1>1, <2>3, <2>4, RepliedOK
  <2>6. UNCHANGED <<up, answers>> /\ \E k \in {"fault", "pause", "crash"} : Budget(k)
    BY <1>4 DEF Fail
  <2> QED
    BY <2>2, <2>5, <2>6, FlightStep
<1>5. CASE Drop(i)
  <2>1. NetOK(net') /\ UNCHANGED <<up, server, answers, budget>>
    BY <1>1, <1>5, WithoutOK DEF Drop
  <2> QED
    BY <1>1, <2>1, FlightStep
<1> QED
  BY <1>3, <1>4, <1>5

----------------------------------------------------------------------------
(* What the client and the server know of each other.                      *)

\* A multiple of the granularity.
Aligned(n) == Granularity = 0 \/ n % Granularity = 0

\* The upload waits for the flight.
Busy(f) == f.live /\ f.kind # "cancel"

Answered(f) == f.stage \in {"replied", "asked"}

\* A chunk is cut at a place the server has already reached, and what was
\* acknowledged of it is there.
ChunkSound(f, u, sv) ==
  /\ f.meta >= 0 /\ f.meta <= f.from /\ f.from <= Len(sv.content)
  /\ Aligned(f.meta) /\ Aligned(f.from)
  /\ f.at = f.from /\ f.len >= 0 /\ f.from + f.len <= Length
  /\ f.cmd = "finalize" => f.from + f.len = Length
  /\ f.cmd # "finalize" => Aligned(f.len)
  /\ f.live /\ f.stage # "generating" => u.offset <= f.from
  /\ Answered(f) /\ f.reply.error = "none" /\ f.reply.status # "final" =>
       f.cmd # "finalize" /\ f.from + f.len <= Len(sv.content)

\* An offset the server told is not behind the client's own.
QuerySound(f, u, sv) ==
  /\ f.len = 0
  /\ Answered(f) /\ f.reply.error = "none" =>
       /\ u.offset <= f.reply.received /\ f.reply.received <= Len(sv.content)
       /\ f.reply.status # "final" => Aligned(f.reply.received)

FlightSound(f, u, sv) ==
  /\ f.stage = "generating" => f.kind = "chunk"
  /\ ~f.live /\ f.kind # "start" => f.stage = "sent"
  /\ Answered(f) /\ f.reply.status = "final" => sv.state = "final"
  /\ f.kind = "chunk" => ChunkSound(f, u, sv)
  /\ f.kind = "query" => QuerySound(f, u, sv)

\* The server holds a beginning of the data, all of it once it has finalised.
ServerSound(sv) ==
  /\ Len(sv.content) <= Length
  /\ sv.content = Slice(0, Len(sv.content))
  /\ sv.state = "final" => Len(sv.content) = Length
  /\ sv.state # "final" => Aligned(Len(sv.content))

OffsetSound(u, sv) ==
  /\ u.granularity \in {0, Granularity}
  /\ u.offset >= 0 /\ u.offset <= Len(sv.content)
  /\ Aligned(u.offset)

\* While an initial request is under way, which makes the server begin anew,
\* nothing has been uploaded and nothing can be.
Fresh(u, n, sv, i) ==
  /\ ~u.location /\ u.offset = 0 /\ sv.state # "final"
  /\ \A j \in DOMAIN n \ {i} :
       /\ n[j].kind \in {"query", "cancel"}
       /\ n[j].kind = "query" => Answered(n[j]) /\ n[j].reply.error # "none"

Idle(n) == \A i \in DOMAIN n : ~Busy(n[i])
NoStart(n) == \A i \in DOMAIN n : n[i].kind # "start"
OnlyStart(n) == \A i \in DOMAIN n : Busy(n[i]) => n[i].kind = "start"
OneBusy(n) == \A i, j \in DOMAIN n : Busy(n[i]) /\ Busy(n[j]) => i = j

Unbegun(u, n, sv) ==
  DOMAIN n = {} /\ u.location = u.restarted /\ u.offset = 0 /\ sv.state # "final"

NetSound(u, n, sv) ==
  /\ OffsetSound(u, sv)
  /\ \A i \in DOMAIN n : FlightSound(n[i], u, sv)
  /\ OneBusy(n)
  /\ u.paused => OnlyStart(n)
  /\ \A i \in DOMAIN n : n[i].kind = "start" => Fresh(u, n, sv, i)
  /\ ~u.begun => Unbegun(u, n, sv)

\* Success is announced only when the server has finalised.
OkSound(s, sv) == \A k \in 1 .. Len(s) : s[k] = "ok" => sv.state = "final"

Sound ==
  /\ ServerSound(server) /\ NetSound(up, net, server)
  /\ OkSound(up.due, server) /\ OkSound(answers, server)

\* Also while the granularity is not known, a chunk is one the server can keep
\* whole, or the last one.  So it is with the standard chunk size, the largest
\* integer there is, when the granularity divides the demand buffer (10 or 100 MB).
WholeChunks == Granularity = 0 \/ BufferedSize % Granularity = 0 \/ BufferedSize >= Length

----------------------------------------------------------------------------
(* Numbers and bytes.                                                      *)

\* Sums of multiples are multiples.
LEMMA AlignedSum ==
  ASSUME NEW a \in Int, NEW b \in Int, Aligned(a), Aligned(b) PROVE Aligned(a + b)
<1>1. CASE Granularity = 0
  BY <1>1 DEF Aligned
<1>2. CASE Granularity # 0
  <2> DEFINE g == Granularity
  <2>1. g \in Nat \ {0} /\ a % g = 0 /\ b % g = 0
    BY <1>2, UploadAssumption DEF Aligned
  <2> HIDE DEF g
  <2>2. a \div g \in Int /\ a = g * (a \div g)
    BY <2>1
  <2>3. b \div g \in Int /\ b = g * (b \div g)
    BY <2>1
  <2>4. PICK p \in Int, q \in Int : a = g * p /\ b = g * q
    BY <2>2, <2>3
  <2>5. a + b = g * (p + q) /\ p + q \in Int
    BY <2>1, <2>4
  <2>6. \A r \in Int : (g * r) % g = 0
    BY <2>1
  <2>7. (a + b) % g = 0
    BY <2>5, <2>6
  <2> QED
    BY <2>7 DEF g, Aligned
<1> QED
  BY <1>1, <1>2

\* Nothing is a multiple, and so is the granularity itself.
LEMMA AlignedBase == Aligned(0) /\ Aligned(Granularity)
<1>1. ASSUME NEW g \in Nat \ {0} PROVE 0 % g = 0 /\ g % g = 0
  OBVIOUS
<1> QED
  BY <1>1, UploadAssumption DEF Aligned

\* Rounding leaves a multiple alone, and what it leaves alone is a multiple.
LEMMA RoundDownAligned ==
  ASSUME NEW n \in Int PROVE RoundDown(n, Granularity) = n <=> Aligned(n)
<1>1. CASE Granularity = 0
  BY <1>1 DEF Aligned, RoundDown
<1>2. CASE Granularity # 0
  <2>1. Granularity \in Nat \ {0} /\ n % Granularity \in Int
    BY <1>2, UploadAssumption
  <2> QED
    BY <1>2, <2>1 DEF Aligned, RoundDown
<1> QED
  BY <1>1, <1>2

\* Rounding gives a multiple.
LEMMA RoundDownRounds ==
  ASSUME NEW n \in Nat
  PROVE  RoundDown(n, Granularity) \in Nat /\ Aligned(RoundDown(n, Granularity))
<1>1. CASE Granularity = 0
  BY <1>1 DEF Aligned, RoundDown
<1>2. CASE Granularity # 0
  <2>1. ASSUME NEW g \in Nat \ {0} PROVE n - (n % g) \in Nat /\ (n - (n % g)) % g = 0
    <3>1. n = g * (n \div g) + (n % g) /\ n \div g \in Nat /\ n % g \in 0 .. g - 1
      OBVIOUS
    <3>2. n - (n % g) = g * (n \div g)
      BY <3>1
    <3>3. \A q \in Nat : g * q \in Nat /\ (g * q) % g = 0
      OBVIOUS
    <3> QED
      BY <3>1, <3>2, <3>3
  <2> QED
    BY <1>2, <2>1, UploadAssumption DEF Aligned, RoundDown
<1> QED
  BY <1>1, <1>2

\* Bytes appended where the others end.
LEMMA SliceJoin ==
  ASSUME NEW m \in Nat, NEW n \in Nat PROVE Slice(0, m) \o Slice(m, n) = Slice(0, m + n)
<1>1. Slice(0, m) \in Seq(Int) /\ Slice(m, n) \in Seq(Int) /\ Slice(0, m + n) \in Seq(Int)
  <2>1. 0 \in Int /\ m \in Int /\ n \in Int /\ m + n \in Int
    OBVIOUS
  <2> QED
    BY <2>1, SliceType
<1>2. Len(Slice(0, m)) = m /\ Len(Slice(m, n)) = n /\ Len(Slice(0, m + n)) = m + n
  BY DEF Slice
<1>3. \A k \in 1 .. m + n : (Slice(0, m) \o Slice(m, n))[k] = Slice(0, m + n)[k]
  BY <1>1, <1>2 DEF Slice
<1>4. Slice(0, m) \o Slice(m, n) \in Seq(Int) /\ Len(Slice(0, m) \o Slice(m, n)) = m + n
  BY <1>1, <1>2
<1> QED
  BY <1>1, <1>2, <1>3, <1>4, SeqEqual

\* A chunk begins where it should, lies inside the data, and is a multiple of the
\* granularity unless it is the last one.
LEMMA ChunkForSound ==
  ASSUME WholeChunks, NEW u \in Upload, u.granularity \in {0, Granularity},
         NEW offset \in 0 .. Length, Aligned(offset)
  PROVE  LET c == ChunkFor(u, offset)
         IN /\ c.at = offset /\ c.len >= 0 /\ offset + c.len <= Length
            /\ c.final => offset + c.len = Length
            /\ ~c.final => Aligned(c.len)
<1>1. /\ Length \in Nat /\ ChunkSize \in Nat \ {0} /\ Slack \in Nat /\ Granularity \in Nat
      /\ BufferedSize \in Nat \ {0}
  BY UploadAssumption DEF BufferedSize
<1>2. RoundDown(offset, u.granularity) = offset
  BY <1>1, RoundDownAligned DEF RoundDown
<1> DEFINE size == RoundedChunkSize(u, offset)
           bound == IF u.file /\ offset = 0 /\ ChunkSize >= Length THEN ChunkSize ELSE BufferedSize
<1>3. size \in Nat /\ (Aligned(size) \/ size >= Length)
  <2>1. bound \in Nat \ {0} /\ (Granularity = 0 \/ Aligned(bound) \/ bound >= Length)
    BY <1>1 DEF WholeChunks, Aligned
  <2>2. size = IF u.granularity = 0 THEN bound
               ELSE IF bound < u.granularity THEN u.granularity
               ELSE RoundDown(bound, u.granularity)
    BY DEF RoundedChunkSize
  <2> HIDE DEF size, bound
  <2>3. CASE u.granularity = 0
    BY <1>1, <2>1, <2>2, <2>3 DEF Aligned
  <2>4. CASE u.granularity = Granularity /\ Granularity # 0
    <3>1. RoundDown(bound, Granularity) \in Nat /\ Aligned(RoundDown(bound, Granularity))
      BY <2>1, RoundDownRounds
    <3>2. size \in {Granularity, RoundDown(bound, Granularity)}
      BY <2>2, <2>4
    <3> QED
      BY <1>1, <3>1, <3>2, AlignedBase
  <2> QED
    BY <2>3, <2>4
<1> DEFINE left == Length - offset
           final == size >= left \/ left - Slack < size
<1>4. ChunkFor(u, offset) = [at |-> offset, len |-> IF final THEN left ELSE size, final |-> final]
  BY <1>2 DEF ChunkFor
<1>5. left \in Nat /\ offset + left = Length
  BY <1>1
<1> HIDE DEF size, bound
<1> HIDE DEF left
<1>6. CASE final
  <2>1. ChunkFor(u, offset) = [at |-> offset, len |-> left, final |-> TRUE]
    BY <1>4, <1>6
  <2> QED
    BY <1>1, <1>5, <2>1
<1>7. CASE ~final
  <2>1. ChunkFor(u, offset) = [at |-> offset, len |-> size, final |-> FALSE]
    BY <1>4, <1>7
  <2>2. size < left /\ Aligned(size)
    BY <1>1, <1>3, <1>5, <1>7
  <2> QED
    BY <1>1, <1>3, <1>5, <2>1, <2>2
<1> QED
  BY <1>6, <1>7

----------------------------------------------------------------------------
(* Flights come and go.                                                    *)

\* A flight that is still on its way, or an initial request, may lose its fetcher.
LEMMA SilencedSound ==
  ASSUME NEW u, NEW sv, NEW f \in Flights, f.stage = "sent" \/ f.kind = "start",
         FlightSound(f, u, sv), NEW g, g = [f EXCEPT !.live = FALSE]
  PROVE  /\ FlightSound(g, u, sv) /\ ~Busy(g)
         /\ g.kind = f.kind /\ g.stage = f.stage /\ g.reply = f.reply
<1>1. /\ g.kind = f.kind /\ g.cmd = f.cmd /\ g.at = f.at /\ g.from = f.from /\ g.len = f.len
      /\ g.meta = f.meta /\ g.live = FALSE /\ g.stage = f.stage /\ g.reply = f.reply
  BY DEF Flights
<1> QED
  BY <1>1 DEF FlightSound, ChunkSound, QuerySound, Answered, Busy

\* Fewer flights, or flights that lost their fetchers.
LEMMA FewerSound ==
  ASSUME NEW u, NEW sv, NEW n, NetOK(n), NetSound(u, n, sv),
         NEW m, DOMAIN m \subseteq DOMAIN n,
         \A i \in DOMAIN m : \/ m[i] = n[i]
                             \/ /\ n[i].stage = "sent" \/ n[i].kind = "start"
                                /\ m[i] = [n[i] EXCEPT !.live = FALSE]
  PROVE  /\ NetSound(u, m, sv)
         /\ Idle(n) => Idle(m)
         /\ NoStart(n) => NoStart(m)
         /\ OnlyStart(n) => OnlyStart(m)
<1>1. ASSUME NEW i \in DOMAIN m
      PROVE  /\ FlightSound(m[i], u, sv) /\ m[i].kind = n[i].kind
             /\ Busy(m[i]) => Busy(n[i])
             /\ m[i].stage = n[i].stage /\ m[i].reply = n[i].reply
  <2>1. n[i] \in Flights /\ FlightSound(n[i], u, sv)
    BY DEF NetOK, NetSound
  <2>2. CASE m[i] = n[i]
    BY <2>1, <2>2
  <2>3. CASE /\ n[i].stage = "sent" \/ n[i].kind = "start"
             /\ m[i] = [n[i] EXCEPT !.live = FALSE]
    BY <2>1, <2>3, SilencedSound
  <2> QED
    BY <2>2, <2>3
<1>2. (Idle(n) => Idle(m)) /\ (NoStart(n) => NoStart(m)) /\ (OnlyStart(n) => OnlyStart(m))
  BY <1>1 DEF Idle, NoStart, OnlyStart
<1>3. OneBusy(m)
  BY <1>1 DEF NetSound, OneBusy
<1>4. ASSUME NEW i \in DOMAIN m, m[i].kind = "start" PROVE Fresh(u, m, sv, i)
  <2>1. Fresh(u, n, sv, i)
    BY <1>1, <1>4 DEF NetSound
  <2> QED
    BY <1>1, <2>1 DEF Fresh, Answered
<1> QED
  BY <1>1, <1>2, <1>3, <1>4 DEF NetSound, Unbegun

\* A flight that is over leaves the others as they were.
LEMMA WithoutSound ==
  ASSUME NEW u, NEW sv, NEW n, NetOK(n), NetSound(u, n, sv), NEW I
  PROVE  LET m == Without(n, I)
         IN /\ NetSound(u, m, sv)
            /\ Idle(n) => Idle(m)
            /\ NoStart(n) => NoStart(m)
            /\ OnlyStart(n) => OnlyStart(m)
<1>1. DOMAIN Without(n, I) \subseteq DOMAIN n /\ \A i \in DOMAIN Without(n, I) : Without(n, I)[i] = n[i]
  BY DEF Without
<1> QED
  BY <1>1, FewerSound

\* stopFetching of a flight.
LEMMA StopSound ==
  ASSUME NEW u, NEW sv, NEW n, NetOK(n), NetSound(u, n, sv), NEW k
  PROVE  LET m == StopFlight(n, k)
         IN /\ NetSound(u, m, sv)
            /\ Idle(n) => Idle(m)
            /\ NoStart(n) => NoStart(m)
            /\ OnlyStart(n) => OnlyStart(m)
            /\ (\A i \in DOMAIN n \ {k} : Busy(n[i]) => n[i].kind = "start") => OnlyStart(m)
<1> DEFINE m == StopFlight(n, k)
<1>1. /\ DOMAIN m \subseteq DOMAIN n
      /\ \A i \in DOMAIN m : \/ m[i] = n[i] /\ i # k
                             \/ i = k /\ n[i].stage = "sent" /\ m[i] = [n[i] EXCEPT !.live = FALSE]
  <2>1. CASE k \notin DOMAIN n
    BY <2>1 DEF StopFlight
  <2>2. CASE k \in DOMAIN n /\ n[k].stage = "sent"
    BY <2>2 DEF StopFlight, NetOK
  <2>3. CASE k \in DOMAIN n /\ n[k].stage # "sent"
    BY <2>3 DEF StopFlight, Without
  <2> QED
    BY <2>1, <2>2, <2>3
<1> HIDE DEF m
<1>2. NetSound(u, m, sv) /\ (Idle(n) => Idle(m)) /\ (NoStart(n) => NoStart(m)) /\ (OnlyStart(n) => OnlyStart(m))
  BY <1>1, FewerSound
<1>3. ASSUME \A i \in DOMAIN n \ {k} : Busy(n[i]) => n[i].kind = "start" PROVE OnlyStart(m)
  <2> SUFFICES ASSUME NEW i \in DOMAIN m, Busy(m[i]) PROVE m[i].kind = "start"
    BY DEF OnlyStart
  <2>1. n[i] \in Flights /\ i \in DOMAIN n
    BY <1>1 DEF NetOK
  <2>2. CASE m[i] = n[i] /\ i # k
    BY <1>3, <2>1, <2>2
  <2>3. CASE m[i] = [n[i] EXCEPT !.live = FALSE]
    BY <2>1, <2>3 DEF Busy, Flights
  <2> QED
    BY <1>1, <2>2, <2>3
<1> QED
  BY <1>2, <1>3 DEF m

\* A flight more.
LEMMA WithSound ==
  ASSUME NEW u, NEW sv, NEW n, NetSound(u, n, sv), u.begun,
         NEW k, k \notin DOMAIN n, NEW f, FlightSound(f, u, sv), f.kind # "start",
         Busy(f) => Idle(n) /\ ~u.paused,
         NoStart(n) \/ f.kind = "cancel" \/ (f.kind = "query" /\ Answered(f) /\ f.reply.error # "none")
  PROVE  NetSound(u, With(n, k, f), sv) /\ (NoStart(n) => NoStart(With(n, k, f)))
<1> DEFINE m == With(n, k, f)
<1>1. /\ DOMAIN m = DOMAIN n \cup {k} /\ m[k] = f
      /\ \A i \in DOMAIN n : i # k /\ m[i] = n[i]
  BY DEF With
<1> HIDE DEF m
<1>2. \A i \in DOMAIN m : FlightSound(m[i], u, sv)
  BY <1>1 DEF NetSound
<1>3. OneBusy(m)
  BY <1>1 DEF NetSound, OneBusy, Idle
<1>4. u.paused => OnlyStart(m)
  BY <1>1 DEF NetSound, OnlyStart
<1>5. ASSUME NEW i \in DOMAIN m, m[i].kind = "start" PROVE Fresh(u, m, sv, i)
  <2>1. i \in DOMAIN n /\ n[i].kind = "start" /\ Fresh(u, n, sv, i)
    BY <1>1, <1>5 DEF NetSound
  <2>2. ~NoStart(n)
    BY <2>1 DEF NoStart
  <2> QED
    BY <1>1, <2>1, <2>2 DEF Fresh
<1>6. NoStart(n) => NoStart(m)
  BY <1>1 DEF NoStart
<1> QED
  BY <1>2, <1>3, <1>4, <1>5, <1>6 DEF NetSound, m

\* Changes of the upload fetcher itself.
LEMMA UpSound ==
  ASSUME NEW u \in Upload, NEW sv, sv \in Servers, NEW n, NetOK(n), NetSound(u, n, sv), u.begun,
         NEW v \in Upload, v.begun, OffsetSound(v, sv),
         v.offset <= u.offset \/ (Idle(n) /\ NoStart(n)),
         v.location => u.location \/ NoStart(n),
         v.paused => u.paused \/ OnlyStart(n)
  PROVE  NetSound(v, n, sv)
<1>1. u.offset \in Int /\ v.offset \in Int /\ v.offset >= 0
  BY DEF Upload, OffsetSound
<1>2. ASSUME NEW i \in DOMAIN n PROVE FlightSound(n[i], v, sv)
  <2>1. n[i] \in Flights /\ FlightSound(n[i], u, sv)
    BY DEF NetOK, NetSound
  <2>2. n[i].from \in Int /\ n[i].reply.received \in Int
    BY <2>1 DEF Flights, Reply
  <2>3. CASE v.offset <= u.offset
    <3>1. ChunkSound(n[i], u, sv) => ChunkSound(n[i], v, sv)
      BY <1>1, <2>2, <2>3 DEF ChunkSound
    <3>2. QuerySound(n[i], u, sv) => QuerySound(n[i], v, sv)
      BY <1>1, <2>2, <2>3 DEF QuerySound
    <3> QED
      BY <2>1, <3>1, <3>2 DEF FlightSound
  <2>4. CASE Idle(n) /\ NoStart(n)
    <3>1. ~n[i].live \/ n[i].kind = "cancel"
      BY <2>4 DEF Idle, Busy
    <3>2. n[i].kind = "chunk" => ChunkSound(n[i], v, sv)
      BY <2>1, <3>1 DEF FlightSound, ChunkSound
    <3>3. n[i].kind = "query" => QuerySound(n[i], v, sv)
      BY <2>1, <3>1 DEF FlightSound, QuerySound, Answered
    <3> QED
      BY <2>1, <3>2, <3>3 DEF FlightSound
  <2> QED
    BY <2>3, <2>4
<1>3. ASSUME NEW i \in DOMAIN n, n[i].kind = "start" PROVE Fresh(v, n, sv, i)
  <2>1. ~NoStart(n) /\ Fresh(u, n, sv, i)
    BY <1>3 DEF NoStart, NetSound
  <2> QED
    BY <1>1, <2>1 DEF Fresh
<1>4. v.paused => OnlyStart(n)
  BY DEF NetSound
<1> QED
  BY <1>2, <1>3, <1>4 DEF NetSound

----------------------------------------------------------------------------
(* The steps of a handler keep what client and server know of each other.  *)

\* A record a handler of a fetch that has begun may work on.
Fine(s) ==
  /\ HandlerOK(s) /\ s.up.begun
  /\ NetSound(s.up, s.net, server)
  /\ OkSound(s.pending, server)

\* Such a record when the upload waits for nothing.
Ready(s) == Fine(s) /\ Idle(s.net) /\ ~s.up.paused

\* A record stays fine when its upload changes to one whose offset went back, or
\* forward while nothing is under way, and that gained no location during an initial
\* request.
LEMMA FineUp ==
  ASSUME NEW s, Fine(s), server \in Servers,
         NEW v \in Upload, v.due = s.up.due, v.handler => s.up.handler, v.begun,
         OffsetSound(v, server),
         v.offset <= s.up.offset \/ (Idle(s.net) /\ NoStart(s.net)),
         v.location => s.up.location \/ NoStart(s.net),
         v.paused => s.up.paused \/ OnlyStart(s.net)
  PROVE  LET t == [s EXCEPT !.up = v]
         IN Fine(t) /\ t.up = v /\ t.net = s.net /\ t.pending = s.pending
<1> DEFINE t == [s EXCEPT !.up = v]
<1>1. t.up = v /\ t.net = s.net /\ t.pending = s.pending
  BY DEF Fine, HandlerOK, RecordOK
<1>2. HandlerOK(t)
  BY UpStep DEF Fine
<1>3. s.up \in Upload /\ NetOK(s.net)
  BY DEF Fine, HandlerOK, RecordOK
<1>4. NetSound(v, s.net, server)
  BY <1>3, UpSound DEF Fine
<1> QED
  BY <1>1, <1>2, <1>4 DEF Fine

\* A record stays fine with other flights that agree with the server.
LEMMA FineNet ==
  ASSUME NEW s, Fine(s), NEW n, NetOK(n), NetSound(s.up, n, server)
  PROVE  LET t == [s EXCEPT !.net = n]
         IN Fine(t) /\ t.up = s.up /\ t.net = n /\ t.pending = s.pending
<1> DEFINE t == [s EXCEPT !.net = n]
<1>1. t.up = s.up /\ t.net = n /\ t.pending = s.pending
  BY DEF Fine, HandlerOK, RecordOK
<1>2. HandlerOK(t)
  BY NetStep DEF Fine
<1> QED
  BY <1>1, <1>2 DEF Fine

\* What destroyChunkFetcher makes of a record.
LEMMA DestroyForm ==
  ASSUME NEW u, NEW n, NEW p
  PROVE  DestroyChunkFetcher([up |-> u, net |-> n, pending |-> p]) =
           [up |-> [u EXCEPT !.chunk = None], net |-> StopFlight(n, u.chunk), pending |-> p]
<1> DEFINE s == [up |-> u, net |-> n, pending |-> p]
<1>1. s = [up |-> s.up, net |-> s.net, pending |-> s.pending] /\ s.up = u /\ s.net = n /\ s.pending = p
  OBVIOUS
<1> DEFINE m == StopFlight(n, u.chunk)
           v == [u EXCEPT !.chunk = None]
<1>2. DestroyChunkFetcher(s) = [[s EXCEPT !.net = m] EXCEPT !.up = v]
  <2> HIDE DEF s
  <2>1. [s EXCEPT !.net = m].up = u
    BY <1>1
  <2> QED
    BY <1>1, <2>1 DEF DestroyChunkFetcher
<1> DEFINE t == [s EXCEPT !.net = m]
<1> HIDE DEF m, v, s
<1>3. t = [up |-> s.up, net |-> m, pending |-> s.pending]
  BY <1>1
<1>4. t = [up |-> t.up, net |-> t.net, pending |-> t.pending] /\ t.net = m /\ t.pending = p
  BY <1>1, <1>3
<1> HIDE DEF t
<1>5. [t EXCEPT !.up = v] = [up |-> v, net |-> t.net, pending |-> t.pending]
  BY <1>4
<1> QED
  BY <1>2, <1>4, <1>5 DEF s, m, v, t

\* destroyChunkFetcher.
LEMMA DestroySound ==
  ASSUME NEW s, Fine(s), server \in Servers
  PROVE  LET d == DestroyChunkFetcher(s)
         IN /\ Fine(d) /\ (Ready(s) => Ready(d))
            /\ d.up = [s.up EXCEPT !.chunk = None]
            /\ d.net = StopFlight(s.net, s.up.chunk)
            /\ NoStart(s.net) => NoStart(d.net)
<1> DEFINE n == StopFlight(s.net, s.up.chunk)
           v == [s.up EXCEPT !.chunk = None]
           t == [s EXCEPT !.net = n]
<1>1. s.up \in Upload /\ NetOK(s.net) /\ NetSound(s.up, s.net, server)
  BY DEF Fine, HandlerOK, RecordOK
<1>2. NetOK(n) /\ NetSound(s.up, n, server) /\ (Idle(s.net) => Idle(n)) /\ (NoStart(s.net) => NoStart(n))
  BY <1>1, StopFlightOK, StopSound
<1> HIDE DEF n
<1>3. Fine(t) /\ t.up = s.up /\ t.net = n /\ t.pending = s.pending
  BY <1>2, FineNet
<1>4. /\ v \in Upload /\ v.due = t.up.due /\ v.handler = t.up.handler /\ v.begun = t.up.begun
      /\ v.offset = t.up.offset /\ v.granularity = t.up.granularity
      /\ v.location = t.up.location /\ v.paused = t.up.paused
  BY <1>1, <1>3 DEF Upload
<1>5. DestroyChunkFetcher(s) = [t EXCEPT !.up = v]
  BY <1>1 DEF DestroyChunkFetcher, n, Fine, HandlerOK, RecordOK
<1> HIDE DEF t, v
<1>6. OffsetSound(v, server) /\ v.offset <= t.up.offset /\ v.begun
  BY <1>1, <1>3, <1>4 DEF NetSound, OffsetSound, Fine, Upload
<1>7. LET d == [t EXCEPT !.up = v] IN Fine(d) /\ d.up = v /\ d.net = t.net
  BY <1>3, <1>4, <1>6, FineUp
<1>8. v = [s.up EXCEPT !.chunk = None] /\ n = StopFlight(s.net, s.up.chunk)
  BY DEF v, n
<1> QED
  BY <1>2, <1>3, <1>4, <1>5, <1>7, <1>8 DEF Ready

\* invokeFinalCallbackWithData.
LEMMA FinalSound ==
  ASSUME NEW s, Fine(s), server \in Servers, NEW a \in Answer, NEW invalidate \in BOOLEAN,
         a = "ok" => server.state = "final"
  PROVE  Fine(FinalCallback(s, a, invalidate))
<1> DEFINE c == FinalCallback(s, a, invalidate)
<1>1. HandlerOK(c)
  BY FinalOK DEF Fine
<1>2. s.up \in Upload /\ NetOK(s.net) /\ s.pending \in Seq(Answer) /\ NetSound(s.up, s.net, server)
  BY DEF Fine, HandlerOK, RecordOK
<1>3. /\ c.net = s.net
      /\ c.up = [s.up EXCEPT !.location = s.up.location /\ ~invalidate, !.handler = FALSE]
      /\ c.pending = IF s.up.handler THEN Append(s.pending, a) ELSE s.pending
  BY DEF FinalCallback
<1> DEFINE v == c.up
<1>4. v \in Upload
  BY <1>1 DEF HandlerOK, RecordOK
<1>5. /\ v.begun = s.up.begun /\ v.offset = s.up.offset /\ v.granularity = s.up.granularity
      /\ v.paused = s.up.paused /\ (v.location => s.up.location)
  BY <1>2, <1>3 DEF Upload
<1> HIDE DEF v, c
<1>6. OffsetSound(v, server) /\ v.offset <= s.up.offset
  BY <1>2, <1>5 DEF NetSound, OffsetSound, Upload
<1>7. NetSound(v, s.net, server)
  BY <1>2, <1>4, <1>5, <1>6, UpSound DEF Fine
<1>8. OkSound(c.pending, server)
  BY <1>2, <1>3 DEF Fine, OkSound
<1> QED
  BY <1>1, <1>3, <1>5, <1>7, <1>8 DEF Fine, v, c

\* A fetcher is created.
LEMMA AddSound ==
  ASSUME NEW s, Fine(s), NEW f \in Flights, FlightSound(f, s.up, server), f.kind # "start",
         Busy(f) => Idle(s.net) /\ ~s.up.paused,
         \/ NoStart(s.net) \/ f.kind = "cancel"
         \/ f.kind = "query" /\ Answered(f) /\ f.reply.error # "none"
  PROVE  LET t == AddFlight(s, f)
         IN /\ Fine(t) /\ t.up = s.up /\ t.pending = s.pending
            /\ t.net = With(s.net, NewSlot(s.net), f)
            /\ NoStart(s.net) => NoStart(t.net)
<1> DEFINE k == NewSlot(s.net)
           n == With(s.net, k, f)
<1>1. NetOK(s.net) /\ NetSound(s.up, s.net, server) /\ s.up.begun
  BY DEF Fine, HandlerOK, RecordOK
<1>2. k \in Nat \ {0} /\ k \notin DOMAIN s.net
  BY <1>1, NewSlotFree
<1>3. NetOK(n) /\ NetSound(s.up, n, server) /\ (NoStart(s.net) => NoStart(n))
  <2> HIDE DEF k
  <2>1. NetOK(With(s.net, k, f))
    BY <1>1, <1>2, WithOK
  <2>2. NetSound(s.up, With(s.net, k, f), server) /\ (NoStart(s.net) => NoStart(With(s.net, k, f)))
    BY <1>1, <1>2, WithSound
  <2> QED
    BY <2>1, <2>2
<1>4. AddFlight(s, f) = [s EXCEPT !.net = n]
  BY DEF AddFlight
<1>5. n = With(s.net, NewSlot(s.net), f)
  OBVIOUS
<1> HIDE DEF n
<1>6. LET t == [s EXCEPT !.net = n] IN Fine(t) /\ t.up = s.up /\ t.net = n /\ t.pending = s.pending
  BY <1>3, FineNet
<1> QED
  BY <1>3, <1>4, <1>5, <1>6

\* sendQueryForUploadOffset.
LEMMA QuerySent == ASSUME NEW s, Ready(s) PROVE Fine(SendQuery(s))
<1>1. s.up \in Upload /\ NetSound(s.up, s.net, server) /\ Fine(s) /\ Idle(s.net) /\ ~s.up.paused
  BY DEF Ready, Fine, HandlerOK, RecordOK
<1> DEFINE g == Flight(s.up, "query")
           f == Begun(g)
<1>2. g \in Flights /\ f \in Flights
  BY <1>1, FlightType, BegunType
<1>3. g.kind = "query" /\ g.len = 0 /\ g.url = s.up.location /\ g.live
  BY DEF Flight
<1> HIDE DEF g
<1>4. f.kind = "query" /\ f.len = 0 /\ f.live
  BY <1>2, <1>3 DEF Begun, Flights
<1>5. \/ g.url /\ f.stage = "sent"
      \/ ~g.url /\ f.stage = "replied" /\ f.reply = Unsent
  BY <1>2 DEF Begun, Flights
<1>6. FlightSound(f, s.up, server)
  BY <1>4, <1>5 DEF FlightSound, QuerySound, Answered, Unsent
<1>7. s.up.location => NoStart(s.net)
  BY <1>1 DEF NetSound, Fresh, NoStart
<1>8. NoStart(s.net) \/ (Answered(f) /\ f.reply.error # "none")
  BY <1>3, <1>5, <1>7 DEF Answered, Unsent
<1> HIDE DEF f
<1>9. Fine(AddFlight(s, f))
  BY <1>1, <1>2, <1>4, <1>6, <1>8, AddSound
<1> QED
  BY <1>9 DEF SendQuery, f, g

\* The cancel request.
LEMMA CancelSent == ASSUME NEW s, Fine(s), s.up.location PROVE Fine(SendCancel(s))
<1>1. s.up \in Upload
  BY DEF Fine, HandlerOK, RecordOK
<1> DEFINE g == Flight(s.up, "cancel")
           f == Begun(g)
<1>2. g \in Flights /\ f \in Flights
  BY <1>1, FlightType, BegunType
<1>3. g.kind = "cancel" /\ g.url /\ g.live
  BY DEF Flight
<1> HIDE DEF g
<1>4. f.kind = "cancel" /\ f.stage = "sent"
  BY <1>2, <1>3 DEF Begun, Flights
<1>5. FlightSound(f, s.up, server) /\ ~Busy(f)
  BY <1>4 DEF FlightSound, Answered, Busy
<1> HIDE DEF f
<1>6. Fine(AddFlight(s, f))
  BY <1>2, <1>4, <1>5, AddSound
<1> QED
  BY <1>6 DEF SendCancel, f, g

\* beginChunkFetcher, for a chunk whose data is there.
LEMMA ChunkBegun ==
  ASSUME NEW s, Fine(s), server \in Servers, NEW i \in DOMAIN s.net, s.net[i].stage = "generating"
  PROVE  Fine(BeginChunkFetcher(s, i))
<1> DEFINE f == s.net[i]
           g == Begun(f)
           v == [s.up EXCEPT !.offset = f.from, !.chunk = i]
           m == Without(s.net, {i})
           n == [s.net EXCEPT ![i] = g]
<1>1. s.up \in Upload /\ NetOK(s.net) /\ NetSound(s.up, s.net, server) /\ s.up.begun
  BY DEF Fine, HandlerOK, RecordOK
<1>2. f \in Flights /\ FlightSound(f, s.up, server) /\ i \in Nat
  BY <1>1 DEF NetOK, NetSound
<1>3. f.kind = "chunk" /\ f.live /\ ChunkSound(f, s.up, server) /\ Busy(f)
  BY <1>2 DEF FlightSound, Flights, Busy
<1>4. ~s.up.paused /\ NoStart(s.net)
  <2>1. ~OnlyStart(s.net)
    BY <1>3 DEF OnlyStart
  <2>2. \A j \in DOMAIN s.net : ~Fresh(s.up, s.net, server, j) \/ j = i
    BY <1>3 DEF Fresh
  <2> QED
    BY <1>1, <1>3, <2>1, <2>2 DEF NetSound, NoStart
<1>5. Idle(m) /\ NoStart(m) /\ NetOK(m) /\ NetSound(s.up, m, server) /\ i \notin DOMAIN m
  <2>1. NetOK(m) /\ NetSound(s.up, m, server)
    BY <1>1, WithoutOK, WithoutSound
  <2>2. DOMAIN m = DOMAIN s.net \ {i} /\ \A j \in DOMAIN m : m[j] = s.net[j]
    BY DEF Without
  <2>3. Idle(m)
    BY <1>1, <1>3, <2>2 DEF NetSound, OneBusy, Idle
  <2> QED
    BY <1>4, <2>1, <2>2, <2>3 DEF NoStart
<1>6. /\ v \in Upload /\ v.begun = s.up.begun /\ v.offset = f.from /\ v.granularity = s.up.granularity
      /\ v.location = s.up.location /\ v.paused = s.up.paused
  BY <1>1, <1>2 DEF Upload, Flights
<1> HIDE DEF v, m
<1>7. OffsetSound(v, server)
  <2>1. f.from \in Int /\ f.meta \in Int
    BY <1>2 DEF Flights
  <2> QED
    BY <1>1, <1>3, <1>6, <2>1 DEF OffsetSound, ChunkSound, NetSound
<1>8. NetSound(v, m, server)
  BY <1>1, <1>4, <1>5, <1>6, <1>7, UpSound
<1>9. /\ g \in Flights /\ g.kind = "chunk"
      /\ \/ g.stage = "sent"
         \/ g.stage = "replied" /\ g.reply = Unsent
      /\ g.cmd = f.cmd /\ g.at = f.at /\ g.from = f.from /\ g.len = f.len /\ g.meta = f.meta /\ g.live
  BY <1>2, <1>3, BegunType DEF Begun, Flights
<1>10. FlightSound(g, v, server)
  <2>1. f.from \in Int
    BY <1>2 DEF Flights
  <2> HIDE DEF f, g
  <2>2. ChunkSound(g, v, server)
    BY <1>3, <1>6, <1>9, <2>1 DEF ChunkSound, Answered, Unsent
  <2> QED
    BY <1>9, <2>2 DEF FlightSound, Answered, Unsent
<1>11. NetSound(v, With(m, i, g), server)
  <2> HIDE DEF g, f
  <2> QED
    BY <1>1, <1>4, <1>5, <1>6, <1>8, <1>9, <1>10, WithSound
<1>12. With(m, i, g) = n
  <2>1. DOMAIN m \cup {i} = DOMAIN s.net /\ \A j \in DOMAIN s.net \ {i} : m[j] = s.net[j]
    BY DEF Without, m
  <2> QED
    BY <1>1, <2>1 DEF With, NetOK
<1>13. BeginChunkFetcher(s, i) = [up |-> v, net |-> n, pending |-> s.pending]
  BY DEF BeginChunkFetcher, v
<1>14. HandlerOK(BeginChunkFetcher(s, i))
  BY BeginChunkOK DEF Fine
<1>15. NetSound(v, n, server)
  BY <1>11, <1>12
<1> DEFINE b == BeginChunkFetcher(s, i)
<1>16. HandlerOK(b) /\ b.up = v /\ b.net = n /\ b.pending = s.pending
  BY <1>13, <1>14
<1> HIDE DEF n, b
<1>17. Fine(b)
  BY <1>1, <1>6, <1>15, <1>16 DEF Fine
<1> QED
  BY <1>17 DEF b

\* uploadNextChunkWithOffset, at an offset the server has reached.
LEMMA NextChunkSound ==
  ASSUME WholeChunks, NEW s, Ready(s), NoStart(s.net), server \in Servers, ServerSound(server),
         NEW offset \in Int, s.up.offset <= offset, offset <= Received, Aligned(offset)
  PROVE  Fine(UploadNext(s, offset))
<1>1. /\ s.up \in Upload /\ NetSound(s.up, s.net, server)
      /\ Fine(s) /\ Idle(s.net) /\ ~s.up.paused
  BY DEF Ready, Fine, HandlerOK, RecordOK
<1>2. /\ OffsetSound(s.up, server) /\ Received \in Nat /\ Received <= Length /\ Length \in Nat
      /\ s.up.offset \in Int
  BY <1>1, UploadAssumption DEF NetSound, ServerSound, Received, Servers, Upload
<1> DEFINE c == ChunkFor(s.up, offset)
           f == [Flight(s.up, "chunk") EXCEPT
                   !.cmd = IF c.final THEN "finalize" ELSE "upload",
                   !.at = c.at, !.from = offset,
                   !.len = c.len, !.known = c.len > 0]
<1>3. /\ c.at = offset /\ c.len >= 0 /\ offset + c.len <= Length
      /\ c.final => offset + c.len = Length
      /\ ~c.final => Aligned(c.len)
  <2>1. s.up.granularity \in {0, Granularity} /\ offset \in 0 .. Length
    BY <1>2 DEF OffsetSound
  <2> QED
    BY <1>1, <2>1, ChunkForSound
<1>4. c.at \in Int /\ c.len \in Int
  BY <1>1, ChunkForType
<1> HIDE DEF c
<1>5. f \in Flights
  <2> DEFINE g == Flight(s.up, "chunk")
             b == c.len > 0
             x == IF c.final THEN "finalize" ELSE "upload"
  <2>1. g \in Flights
    BY <1>1, FlightType
  <2>2. b \in BOOLEAN /\ x \in {"finalize", "upload"}
    OBVIOUS
  <2> HIDE DEF g, b, x
  <2>3. [g EXCEPT !.cmd = x, !.at = c.at, !.from = offset, !.len = c.len, !.known = b] \in Flights
    BY <1>4, <2>1, <2>2 DEF Flights
  <2> QED
    BY <2>3 DEF g, b, x
<1>6. /\ f.kind = "chunk" /\ f.at = c.at /\ f.from = offset /\ f.len = c.len
      /\ f.meta = s.up.offset /\ f.live /\ f.stage = "generating"
      /\ f.cmd = IF c.final THEN "finalize" ELSE "upload"
  BY DEF Flight
<1> HIDE DEF f
<1>7. FlightSound(f, s.up, server)
  <2>1. ChunkSound(f, s.up, server)
    BY <1>2, <1>3, <1>4, <1>6 DEF ChunkSound, OffsetSound, Answered, Received
  <2> QED
    BY <1>6, <2>1 DEF FlightSound, Answered
<1> DEFINE t == AddFlight(s, f)
           k == NewSlot(s.net)
<1>8. Fine(t) /\ t.net = With(s.net, k, f)
  BY <1>1, <1>5, <1>6, <1>7, AddSound
<1>9. k \in DOMAIN t.net /\ t.net[k] = f
  BY <1>8 DEF With
<1> HIDE DEF t, k
<1>10. Fine(BeginChunkFetcher(t, k))
  BY <1>6, <1>8, <1>9, ChunkBegun
<1>11. UploadNext(s, offset) \in {t, BeginChunkFetcher(t, k)}
  BY DEF UploadNext, f, c, t, k
<1> QED
  BY <1>8, <1>10, <1>11

\* chunkFetcher:finishedWithData:error:, once the flight is taken out.
LEMMA ChunkFinishedSound ==
  ASSUME WholeChunks, NEW s, Ready(s), server \in Servers, ServerSound(server),
         NEW f \in Flights, NEW error,
         error = "none" /\ f.reply.status = "final" => server.state = "final",
         error = "none" /\ ~Stopped(f) =>
           NoStart(s.net) /\ f.len >= 0 /\ Aligned(f.len) /\ s.up.offset + f.len <= Received
  PROVE  Fine(ChunkFinished(s, f, error))
<1>1. /\ s.up \in Upload /\ NetOK(s.net) /\ NetSound(s.up, s.net, server)
      /\ s = [up |-> s.up, net |-> s.net, pending |-> s.pending]
      /\ Fine(s) /\ Idle(s.net) /\ ~s.up.paused /\ s.up.begun
  BY DEF Ready, Fine, HandlerOK, RecordOK
<1>2. /\ OffsetSound(s.up, server) /\ Received \in Nat /\ Received <= Length /\ Length \in Nat
      /\ s.up.offset \in Int /\ f.len \in Int
  BY <1>1, UploadAssumption DEF NetSound, ServerSound, Received, Servers, Upload, Flights
<1>3. Fine(SendQuery(DestroyChunkFetcher([s EXCEPT !.up.query = FALSE])))
  <2> DEFINE v == [s.up EXCEPT !.query = FALSE]
             t == [s EXCEPT !.up = v]
  <2>1. /\ v \in Upload /\ v.due = s.up.due /\ v.handler = s.up.handler /\ v.begun = s.up.begun
        /\ v.offset = s.up.offset /\ v.granularity = s.up.granularity
        /\ v.location = s.up.location /\ v.paused = s.up.paused
    BY <1>1 DEF Upload
  <2>2. t = [s EXCEPT !.up.query = FALSE]
    BY <1>1
  <2> HIDE DEF v
  <2>3. OffsetSound(v, server) /\ v.offset <= s.up.offset
    BY <1>2, <2>1 DEF OffsetSound
  <2>4. Fine(t) /\ t.up = v /\ t.net = s.net
    BY <1>1, <2>1, <2>3, FineUp
  <2>5. Ready(t)
    BY <1>1, <2>1, <2>4 DEF Ready
  <2> HIDE DEF t
  <2>6. Ready(DestroyChunkFetcher(t))
    BY <2>4, <2>5, DestroySound
  <2>7. Fine(SendQuery(DestroyChunkFetcher(t)))
    BY <2>6, QuerySent
  <2> QED
    BY <2>2, <2>7
<1>4. \A b \in BOOLEAN : Fine(DestroyChunkFetcher(FinalCallback(s, "error", b)))
  BY <1>1, FinalSound, DestroySound DEF Answer
<1>5. server.state = "final" => Fine(DestroyChunkFetcher(FinalCallback(s, "ok", TRUE)))
  BY <1>1, FinalSound, DestroySound DEF Answer
<1>6. ASSUME error = "none", ~Stopped(f)
      PROVE  Fine(UploadNext(DestroyChunkFetcher([s EXCEPT !.up.offset = s.up.offset + f.len]),
                             s.up.offset + f.len))
  <2> DEFINE o == s.up.offset + f.len
             v == [s.up EXCEPT !.offset = o]
             t == [s EXCEPT !.up = v]
             d == DestroyChunkFetcher(t)
  <2>1. NoStart(s.net) /\ f.len >= 0 /\ Aligned(f.len) /\ o <= Received /\ o \in Int /\ o >= 0
    BY <1>2, <1>6 DEF OffsetSound
  <2>2. Aligned(o)
    BY <1>2, <2>1, AlignedSum DEF OffsetSound
  <2> HIDE DEF o
  <2>3. /\ v \in Upload /\ v.due = s.up.due /\ v.handler = s.up.handler /\ v.begun = s.up.begun
        /\ v.offset = o /\ v.granularity = s.up.granularity
        /\ v.location = s.up.location /\ v.paused = s.up.paused
    BY <1>1, <2>1 DEF Upload
  <2>4. t = [s EXCEPT !.up.offset = o]
    BY <1>1
  <2> HIDE DEF v
  <2>5. OffsetSound(v, server)
    BY <1>2, <2>1, <2>2, <2>3 DEF OffsetSound, Received
  <2>6. Fine(t) /\ t.up = v /\ t.net = s.net
    BY <1>1, <2>1, <2>3, <2>5, FineUp
  <2>7. Ready(t) /\ NoStart(t.net)
    BY <1>1, <2>1, <2>3, <2>6 DEF Ready
  <2> HIDE DEF t
  <2>8. Ready(d) /\ NoStart(d.net) /\ d.up = [t.up EXCEPT !.chunk = None]
    BY <2>6, <2>7, DestroySound
  <2>9. d.up.offset = o
    BY <2>3, <2>6, <2>8 DEF Upload
  <2> HIDE DEF d
  <2>10. Fine(UploadNext(d, o))
    <3>1. o \in Int /\ o <= Received /\ Aligned(o) /\ d.up.offset <= o
      BY <2>1, <2>2, <2>9
    <3>2. Ready(d) /\ NoStart(d.net)
      BY <2>8
    <3> HIDE DEF Received
    <3> QED
      BY <3>1, <3>2, NextChunkSound
  <2> QED
    BY <2>4, <2>10 DEF d, o
<1>7. CASE error # "none" \/ (NeedsQuery(f) /\ f.kind # "query")
  BY <1>3, <1>4, <1>7 DEF ChunkFinished
<1>8. CASE error = "none" /\ ~(NeedsQuery(f) /\ f.kind # "query") /\ Stopped(f)
  <2>1. ChunkFinished(s, f, error) =
          DestroyChunkFetcher(FinalCallback(s, IF f.reply.status = "cancelled" THEN "error" ELSE "ok", TRUE))
    BY <1>8 DEF ChunkFinished
  <2>2. CASE f.reply.status = "cancelled"
    BY <1>4, <2>1, <2>2
  <2>3. CASE f.reply.status # "cancelled"
    BY <1>5, <1>8, <2>1, <2>3 DEF Stopped
  <2> QED
    BY <2>2, <2>3
<1>9. CASE error = "none" /\ ~(NeedsQuery(f) /\ f.kind # "query") /\ ~Stopped(f)
  <2>1. ~(s.up.offset > Length)
    BY <1>2 DEF OffsetSound, Received
  <2>2. ChunkFinished(s, f, error) =
          UploadNext(DestroyChunkFetcher([s EXCEPT !.up.offset = s.up.offset + f.len]), s.up.offset + f.len)
    BY <1>9, <2>1 DEF ChunkFinished
  <2> QED
    BY <1>6, <1>9, <2>2
<1> QED
  BY <1>7, <1>8, <1>9

\* The granularity the server told.
LEMMA GranularitySet ==
  ASSUME NEW s, Fine(s), server \in Servers
  PROVE  LET t == [s EXCEPT !.up.granularity = Granularity]
         IN /\ Fine(t) /\ (Ready(s) => Ready(t)) /\ t.net = s.net
            /\ t.up.offset = s.up.offset /\ t.up.paused = s.up.paused
<1>1. /\ s.up \in Upload /\ NetSound(s.up, s.net, server) /\ s.up.begun
      /\ s = [up |-> s.up, net |-> s.net, pending |-> s.pending]
  BY DEF Fine, HandlerOK, RecordOK
<1> DEFINE v == [s.up EXCEPT !.granularity = Granularity]
           t == [s EXCEPT !.up = v]
<1>2. /\ v \in Upload /\ v.due = s.up.due /\ v.handler = s.up.handler /\ v.begun = s.up.begun
      /\ v.offset = s.up.offset /\ v.granularity = Granularity
      /\ v.location = s.up.location /\ v.paused = s.up.paused
  BY <1>1, UploadAssumption DEF Upload
<1>3. t = [s EXCEPT !.up.granularity = Granularity]
  BY <1>1
<1> HIDE DEF v
<1>4. OffsetSound(v, server) /\ v.offset <= s.up.offset
  BY <1>1, <1>2 DEF NetSound, OffsetSound, Upload
<1>5. Fine(t) /\ t.up = v /\ t.net = s.net
  BY <1>1, <1>2, <1>4, FineUp
<1> HIDE DEF t
<1> QED
  BY <1>2, <1>3, <1>5 DEF Ready

\* The completion of an offset query.
LEMMA QueryFinishedSound ==
  ASSUME WholeChunks, NEW s, Ready(s), server \in Servers, ServerSound(server),
         NEW f \in Flights, f.kind = "query", Answered(f), FlightSound(f, s.up, server),
         f.reply.error = "none" => NoStart(s.net)
  PROVE  Fine(QueryFinished(s, f))
<1>1. /\ s.up \in Upload /\ NetSound(s.up, s.net, server) /\ Fine(s)
  BY DEF Ready, Fine, HandlerOK, RecordOK
<1>2. /\ OffsetSound(s.up, server) /\ Received \in Nat /\ Length \in Nat
      /\ s.up.offset \in Int /\ f.reply.received \in Int
  BY <1>1, UploadAssumption DEF NetSound, Received, Servers, Upload, Flights, Reply
<1>3. /\ f.len = 0 /\ (f.reply.status = "final" => server.state = "final")
      /\ f.reply.error = "none" =>
           /\ s.up.offset <= f.reply.received /\ f.reply.received <= Received
           /\ f.reply.status # "final" => Aligned(f.reply.received)
  BY DEF FlightSound, QuerySound, Received
<1>4. ASSUME NEW error, error = "none" => f.reply.error = "none"
      PROVE  Fine(ChunkFinished(s, f, error))
  <2>1. error = "none" => s.up.offset + f.len <= Received
    BY <1>2, <1>3 DEF OffsetSound, Received
  <2>2. error = "none" => NoStart(s.net) /\ f.len >= 0 /\ Aligned(f.len)
    BY <1>3, <1>4, AlignedBase
  <2> QED
    BY <1>3, <2>1, <2>2, ChunkFinishedSound
<1>5. ASSUME f.reply.error = "none", f.reply.status # "final"
      PROVE  Fine(UploadNext([s EXCEPT !.up.granularity = Granularity], f.reply.received))
  <2> DEFINE t == [s EXCEPT !.up.granularity = Granularity]
  <2>1. Ready(t) /\ t.net = s.net /\ t.up.offset = s.up.offset
    BY <1>1, GranularitySet
  <2> HIDE DEF t
  <2>2. Fine(UploadNext(t, f.reply.received))
    BY <1>2, <1>3, <1>5, <2>1, NextChunkSound
  <2> QED
    BY <2>2 DEF t
<1> DEFINE error == IF f.reply.error = "none" /\ f.reply.status = "cancelled"
                    THEN "failed" ELSE f.reply.error
<1>6. error = "none" => f.reply.error = "none"
  OBVIOUS
<1>7. QueryFinished(s, f) =
        IF error # "none" \/ f.reply.received >= Length \/ f.reply.status = "final"
        THEN ChunkFinished(s, f, error)
        ELSE UploadNext([s EXCEPT !.up.granularity = Granularity], f.reply.received)
  BY DEF QueryFinished
<1> HIDE DEF error
<1> QED
  BY <1>4, <1>5, <1>6, <1>7

\* The completion of the initial request.
LEMMA StartFinishedSound ==
  ASSUME WholeChunks, NEW s, Fine(s), Idle(s.net), NoStart(s.net), s.up.offset = 0,
         server \in Servers, ServerSound(server), NEW f \in Flights
  PROVE  Fine(StartFinished(s, f))
<1>1. /\ s.up \in Upload /\ NetSound(s.up, s.net, server) /\ s.up.begun
      /\ s = [up |-> s.up, net |-> s.net, pending |-> s.pending]
  BY DEF Fine, HandlerOK, RecordOK
<1> DEFINE v == [s.up EXCEPT !.granularity = Granularity, !.location = TRUE]
           t == [s EXCEPT !.up = v]
<1>2. /\ v \in Upload /\ v.due = s.up.due /\ v.handler = s.up.handler /\ v.begun = s.up.begun
      /\ v.offset = 0 /\ v.granularity = Granularity /\ v.paused = s.up.paused
  BY <1>1, UploadAssumption DEF Upload
<1>3. t = [s EXCEPT !.up.granularity = Granularity, !.up.location = TRUE]
  BY <1>1
<1> HIDE DEF v
<1>4. OffsetSound(v, server) /\ v.offset <= s.up.offset /\ Received \in Nat /\ 0 <= Received
  BY <1>1, <1>2, AlignedBase DEF NetSound, OffsetSound, Received, Servers
<1>5. Fine(t) /\ t.up = v /\ t.net = s.net
  BY <1>1, <1>2, <1>4, FineUp
<1> HIDE DEF t
<1>6. ~t.up.paused => Fine(UploadNext(t, 0))
  BY <1>2, <1>4, <1>5, AlignedBase, NextChunkSound DEF Ready
<1>7. Fine(FinalCallback(s, "error", TRUE))
  BY FinalSound DEF Answer
<1> QED
  BY <1>3, <1>5, <1>6, <1>7 DEF StartFinished

----------------------------------------------------------------------------
(* The steps of the client.                                                *)

\* A handler of a fetch that has begun works on what is there.
LEMMA StateFine == ASSUME TypeOK, Sound, up.begun PROVE Fine(State)
<1>1. State.up = up /\ State.net = net /\ State.pending = <<>>
  BY DEF State
<1>2. HandlerOK(State)
  BY StateOK
<1>3. OkSound(<<>>, server)
  BY DEF OkSound
<1> QED
  BY <1>1, <1>2, <1>3 DEF Fine, Sound

\* Callbacks one after the other.
LEMMA OkJoin ==
  ASSUME NEW a \in Seq(Answer), NEW b \in Seq(Answer), NEW sv, OkSound(a, sv), OkSound(b, sv)
  PROVE  OkSound(a \o b, sv)
<1> SUFFICES ASSUME NEW k \in 1 .. Len(a \o b), (a \o b)[k] = "ok" PROVE sv.state = "final"
  BY DEF OkSound
<1>1. Len(a \o b) = Len(a) + Len(b) /\ Len(a) \in Nat /\ Len(b) \in Nat
  OBVIOUS
<1>2. CASE k <= Len(a)
  <2>1. (a \o b)[k] = a[k] /\ k \in 1 .. Len(a)
    BY <1>1, <1>2
  <2> QED
    BY <2>1 DEF OkSound
<1>3. CASE k > Len(a)
  <2>1. (a \o b)[k] = b[k - Len(a)] /\ k - Len(a) \in 1 .. Len(b)
    BY <1>1, <1>3
  <2> QED
    BY <2>1 DEF OkSound
<1> QED
  BY <1>1, <1>2, <1>3

\* The effect of a handler.
LEMMA HandleSound ==
  ASSUME IInv, IInv', Sound, NEW s, Fine(s), Handle(s) PROVE Sound'
<1>1. /\ up' = [s.up EXCEPT !.due = s.up.due \o s.pending] /\ net' = s.net
      /\ server' = server /\ answers' = answers
  BY DEF Handle
<1>2. /\ s.up \in Upload /\ up' \in Upload /\ NetOK(s.net) /\ s.pending \in Seq(Answer)
      /\ server \in Servers /\ s.up.due = up.due /\ up.due \in Seq(Answer)
  BY DEF Fine, HandlerOK, RecordOK, CallbackOK, IInv, TypeOK, Servers, Upload
<1>3. /\ up'.begun = s.up.begun /\ up'.offset = s.up.offset /\ up'.granularity = s.up.granularity
      /\ up'.location = s.up.location /\ up'.paused = s.up.paused /\ up'.due = up.due \o s.pending
  BY <1>1, <1>2 DEF Upload
<1>4. OffsetSound(up', server) /\ up'.offset <= s.up.offset
  BY <1>2, <1>3 DEF Fine, NetSound, OffsetSound, Upload
<1>5. NetSound(up', s.net, server)
  BY <1>2, <1>3, <1>4, UpSound DEF Fine
<1>6. OkSound(up.due \o s.pending, server)
  BY <1>2, OkJoin DEF Fine, Sound
<1>7. OkSound(up'.due, server')
  BY <1>1, <1>3, <1>6
<1> QED
  BY <1>1, <1>5, <1>7 DEF Sound

\* A flight in a slot is replaced by one of its kind.
LEMMA ReplaceSound ==
  ASSUME NEW u, NEW sv, NEW n, NetOK(n), NetSound(u, n, sv), NEW i \in DOMAIN n,
         NEW g, FlightSound(g, u, sv), g.kind = n[i].kind, Busy(g) => Busy(n[i]),
         g.kind = "query" /\ Answered(n[i]) /\ n[i].reply.error # "none"
           => Answered(g) /\ g.reply.error # "none"
  PROVE  NetSound(u, [n EXCEPT ![i] = g], sv)
<1> DEFINE m == [n EXCEPT ![i] = g]
<1>1. DOMAIN m = DOMAIN n /\ m[i] = g /\ \A j \in DOMAIN n \ {i} : m[j] = n[j]
  BY DEF NetOK
<1> HIDE DEF m
<1>2. \A j \in DOMAIN m : FlightSound(m[j], u, sv) /\ m[j].kind = n[j].kind /\ (Busy(m[j]) => Busy(n[j]))
  BY <1>1 DEF NetSound
<1>3. OneBusy(m) /\ (u.paused => OnlyStart(m))
  BY <1>1, <1>2 DEF NetSound, OneBusy, OnlyStart
<1>4. ASSUME NEW j \in DOMAIN m, m[j].kind = "start" PROVE Fresh(u, m, sv, j)
  <2>1. Fresh(u, n, sv, j)
    BY <1>1, <1>2, <1>4 DEF NetSound
  <2> QED
    BY <1>1, <1>2, <2>1 DEF Fresh
<1>5. ~u.begun => Unbegun(u, m, sv)
  BY <1>1 DEF NetSound, Unbegun
<1> QED
  BY <1>2, <1>3, <1>4, <1>5 DEF NetSound, m

\* The client begins the fetch.
LEMMA BeginFetchSound == ASSUME IInv, IInv', Sound, BeginFetch PROVE Sound'
<1> DEFINE s == [State EXCEPT !.up.begun = TRUE]
           u == [up EXCEPT !.begun = TRUE]
<1>1. /\ up \in Upload /\ HandlerOK(State) /\ State.up = up /\ State.net = net /\ State.pending = <<>>
      /\ NetOK(net) /\ server \in Servers
  BY StateOK DEF IInv, TypeOK, State, Servers
<1>2. /\ u \in Upload /\ u.due = up.due /\ u.handler = up.handler /\ u.begun /\ u.offset = up.offset
      /\ u.granularity = up.granularity /\ u.location = up.location /\ u.paused = up.paused
      /\ u.restarted = up.restarted
  BY <1>1 DEF Upload
<1>3. s = [State EXCEPT !.up = u]
  BY DEF State
<1>4. s.up = u /\ s.net = net /\ s.pending = <<>>
  BY <1>1, <1>3 DEF State
<1>5. HandlerOK(s)
  BY <1>1, <1>2, <1>3, UpStep
<1> HIDE DEF s, u
<1>6. DOMAIN net = {} /\ up.location = up.restarted /\ up.offset = 0 /\ server.state # "final"
  BY DEF BeginFetch, Sound, NetSound, Unbegun
<1>7. OffsetSound(u, server)
  BY <1>2 DEF Sound, NetSound, OffsetSound
<1>8. NetSound(u, net, server)
  BY <1>2, <1>6, <1>7 DEF NetSound, OneBusy, OnlyStart
<1>9. Fine(s) /\ Idle(s.net)
  BY <1>2, <1>4, <1>5, <1>6, <1>8 DEF Fine, OkSound, Idle
<1>10. ~u.paused => Fine(SendQuery(s))
  BY <1>4, <1>9, QuerySent DEF Ready
<1> DEFINE f == [Flight(s.up, "start") EXCEPT !.stage = "sent"]
<1>11. ~up.restarted => Fine(AddFlight(s, f))
  <2> SUFFICES ASSUME ~up.restarted PROVE Fine(AddFlight(s, f))
    OBVIOUS
  <2>1. f \in Flights /\ f.kind = "start" /\ f.stage = "sent"
    <3>1. Flight(s.up, "start") \in Flights
      BY <1>2, <1>4, FlightType
    <3> QED
      BY <3>1 DEF Flights, Flight
  <2> HIDE DEF f
  <2> DEFINE k == NewSlot(net)
             n == With(net, k, f)
  <2>2. k \in Nat \ {0}
    BY <1>1, NewSlotFree
  <2>3. NetOK(n) /\ DOMAIN n = {k} /\ n[k] = f
    <3> HIDE DEF k
    <3>1. NetOK(With(net, k, f)) /\ DOMAIN With(net, k, f) = DOMAIN net \cup {k}
      BY <1>1, <2>1, <2>2, WithOK
    <3>2. With(net, k, f)[k] = f
      BY DEF With
    <3> QED
      BY <1>6, <3>1, <3>2
  <2>4. AddFlight(s, f) = [s EXCEPT !.net = n]
    BY <1>4 DEF AddFlight
  <2> HIDE DEF k, n
  <2>5. NetSound(u, n, server)
    <3>1. FlightSound(f, u, server)
      BY <2>1 DEF FlightSound, Answered
    <3>2. Fresh(u, n, server, k)
      BY <1>2, <1>6, <2>3 DEF Fresh
    <3> QED
      BY <1>2, <1>7, <2>1, <2>3, <3>1, <3>2 DEF NetSound, OneBusy, OnlyStart
  <2> QED
    BY <1>4, <1>9, <2>3, <2>4, <2>5, FineNet
<1>12. PICK t : Fine(t) /\ Handle(t)
  BY <1>4, <1>9, <1>10, <1>11, <1>2 DEF BeginFetch, s
<1> QED
  BY <1>12, HandleSound

\* The retry question of a chunk or a query, and the retry of the initial request.
LEMMA RetrySound ==
  ASSUME IInv, IInv', Sound, NEW i \in DOMAIN net, RetryBlock(i) \/ RetryStart(i) PROVE Sound'
<1>1. /\ up \in Upload /\ NetOK(net) /\ HandlerOK(State) /\ net[i] \in Flights /\ server \in Servers
      /\ State.up = up /\ State.net = net /\ State.pending = <<>>
  BY StateOK DEF IInv, TypeOK, NetOK, State, Servers
<1>2. NetSound(up, net, server) /\ up.begun
  BY DEF Sound, NetSound, Unbegun
<1>3. FlightSound(net[i], up, server) /\ Fine(State)
  BY <1>2, StateFine DEF NetSound, IInv
<1>4. CASE RetryBlock(i)
  <2> DEFINE v == AskRetry(up, net[i])
             g == [net[i] EXCEPT !.stage = "asked"]
             n == [net EXCEPT ![i] = g]
             s == [State EXCEPT !.net = n]
  <2>1. /\ v \in Upload /\ v.due = up.due /\ v.handler = up.handler
        /\ v.begun /\ v.offset = 0 /\ v.granularity = up.granularity
        /\ v.location = up.location /\ v.paused = up.paused
    <3> DEFINE q == net[i].kind # "query"
    <3>1. v \in Upload /\ v.due = up.due /\ v.handler = up.handler
      BY <1>1, AskRetryType
    <3>2. v = [up EXCEPT !.query = q, !.offset = 0]
      BY DEF AskRetry
    <3> HIDE DEF q, v
    <3> QED
      BY <1>1, <1>2, <3>1, <3>2 DEF Upload
  <2>2. g.stage = "asked" /\ g.live = net[i].live /\ g.kind = net[i].kind /\ g.reply = net[i].reply
        /\ g.from = net[i].from /\ g.at = net[i].at /\ g.len = net[i].len /\ g.cmd = net[i].cmd
        /\ g.meta = net[i].meta /\ g \in Flights
    BY <1>1 DEF Flights
  <2>3. net[i].stage = "replied" /\ net[i].live /\ net[i].kind # "start"
    BY <1>4 DEF RetryBlock
  <2> HIDE DEF g, v
  <2>4. FlightSound(g, up, server) /\ (Busy(g) => Busy(net[i])) /\ Answered(g)
    BY <1>3, <2>2, <2>3 DEF FlightSound, ChunkSound, QuerySound, Answered, Busy
  <2>5. NetSound(up, n, server) /\ NetOK(n)
    BY <1>1, <1>2, <2>2, <2>4, ReplaceSound, ReplaceOK
  <2> HIDE DEF n
  <2>6. Fine(s) /\ s.up = up /\ s.net = n /\ s.pending = <<>>
    BY <1>1, <1>3, <2>5, FineNet
  <2>7. OffsetSound(v, server) /\ v.offset <= up.offset
    <3>1. Len(server.content) \in Nat
      BY <1>1 DEF Servers
    <3> QED
      BY <1>2, <2>1, <3>1, AlignedBase DEF NetSound, OffsetSound
  <2> HIDE DEF s
  <2> DEFINE t == [s EXCEPT !.up = v]
  <2>8. Fine(t)
    BY <1>1, <2>1, <2>6, <2>7, FineUp
  <2>9. t = [up |-> v, net |-> n, pending |-> <<>>]
    <3>1. s = [up |-> s.up, net |-> s.net, pending |-> s.pending]
      BY <2>6 DEF Fine, HandlerOK, RecordOK
    <3>2. t = [up |-> v, net |-> s.net, pending |-> s.pending]
      BY <3>1
    <3> QED
      BY <2>6, <3>2
  <2>10. Handle([up |-> v, net |-> [net EXCEPT ![i].stage = "asked"], pending |-> <<>>])
    BY <1>4 DEF RetryBlock, v
  <2>11. [net EXCEPT ![i].stage = "asked"] = n
    BY DEF n, g
  <2> HIDE DEF t
  <2> QED
    BY <2>8, <2>9, <2>10, <2>11, HandleSound
<1>5. CASE RetryStart(i)
  <2> DEFINE g == [net[i] EXCEPT !.stage = "sent", !.reply = NoReply]
             n == [net EXCEPT ![i] = g]
             t == [State EXCEPT !.net = n]
  <2>1. g.stage = "sent" /\ g.live = net[i].live /\ g.kind = net[i].kind /\ g.kind = "start" /\ g \in Flights
    BY <1>1, <1>5 DEF Flights, RetryStart, NoReply, Reply
  <2>2. n = [net EXCEPT ![i].stage = "sent", ![i].reply = NoReply]
    BY <1>1 DEF NetOK
  <2> HIDE DEF g
  <2>3. FlightSound(g, up, server) /\ (Busy(g) => Busy(net[i]))
    BY <2>1 DEF FlightSound, Answered, Busy
  <2>4. NetSound(up, n, server) /\ NetOK(n)
    BY <1>1, <1>2, <2>1, <2>3, ReplaceSound, ReplaceOK
  <2> HIDE DEF n
  <2>5. Fine(t)
    BY <1>1, <1>3, <2>4, FineNet
  <2>6. Handle(t)
    BY <1>5, <2>2 DEF RetryStart
  <2> HIDE DEF t
  <2> QED
    BY <2>5, <2>6, HandleSound
<1> QED
  BY <1>4, <1>5

\* A flight ends and its completion handler runs.
LEMMA FinishedSound ==
  ASSUME WholeChunks, IInv, IInv', Sound, NEW i \in DOMAIN net, Finished(i) PROVE Sound'
<1> DEFINE f == net[i]
           m == Without(net, {i})
           s == [State EXCEPT !.net = m]
<1>1. /\ up \in Upload /\ NetOK(net) /\ f \in Flights /\ server \in Servers /\ ServerSound(server)
      /\ State.up = up /\ State.net = net /\ State.pending = <<>>
  BY DEF IInv, TypeOK, NetOK, State, Servers, Sound
<1>2. NetSound(up, net, server) /\ up.begun
  BY DEF Sound, NetSound, Unbegun
<1>3. FlightSound(f, up, server) /\ Fine(State)
  BY <1>2, StateFine DEF NetSound, IInv
<1>4. NetOK(m) /\ NetSound(up, m, server)
  BY <1>1, <1>2, WithoutOK, WithoutSound
<1>5. DOMAIN m = DOMAIN net \ {i} /\ \A j \in DOMAIN m : m[j] = net[j]
  BY DEF Without
<1>6. f.live /\ Answered(f)
  BY DEF Finished, Answered
<1>7. /\ Handle(CASE f.kind = "start" -> StartFinished(s, f)
                  [] f.kind = "query" -> QueryFinished(s, f)
                  [] f.kind = "chunk" -> ChunkFinished(s, f, f.reply.error)
                  [] OTHER            -> s)
  BY DEF Finished
<1> HIDE DEF m
<1>8. Fine(s) /\ s.up = up /\ s.net = m
  BY <1>1, <1>3, <1>4, FineNet
<1> HIDE DEF s
<1>9. f.kind # "cancel" => Idle(m)
  BY <1>2, <1>5, <1>6 DEF NetSound, OneBusy, Busy, Idle
<1>10. f.kind \in {"query", "chunk"} => ~up.paused
  BY <1>2, <1>6 DEF NetSound, OnlyStart, Busy
<1>11. CASE f.kind = "start"
  <2>1. NoStart(m) /\ up.offset = 0
    BY <1>2, <1>5, <1>11 DEF NetSound, Fresh, NoStart
  <2>2. Fine(StartFinished(s, f))
    BY <1>1, <1>8, <1>9, <1>11, <2>1, StartFinishedSound
  <2> QED
    BY <1>7, <1>11, <2>2, HandleSound
<1>12. CASE f.kind = "query"
  <2>1. f.reply.error = "none" => NoStart(m)
    BY <1>2, <1>5, <1>12 DEF NetSound, Fresh, NoStart
  <2>2. Ready(s)
    BY <1>8, <1>9, <1>10, <1>12 DEF Ready
  <2>3. Fine(QueryFinished(s, f))
    <3> HIDE DEF f
    <3> QED
      BY <1>1, <1>3, <1>6, <1>8, <1>12, <2>1, <2>2, QueryFinishedSound
  <2> QED
    BY <1>7, <1>12, <2>3, HandleSound
<1>13. CASE f.kind = "chunk"
  <2>1. NoStart(m)
    BY <1>2, <1>5, <1>13 DEF NetSound, Fresh, NoStart
  <2>2. Ready(s)
    BY <1>8, <1>9, <1>10, <1>13 DEF Ready
  <2>3. /\ f.len \in Int /\ f.from \in Int /\ up.offset \in Int /\ Received \in Nat
        /\ f.reply.status \in {"none", "active", "final", "cancelled"}
    BY <1>1 DEF Flights, Upload, Servers, Received, Reply
  <2> HIDE DEF f
  <2>4. ChunkSound(f, up, server) /\ (f.reply.status = "final" => server.state = "final")
    BY <1>3, <1>6, <1>13 DEF FlightSound
  <2>5. up.offset <= f.from /\ f.len >= 0
    <3>1. f.stage # "generating"
      BY <1>6 DEF Answered
    <3> QED
      BY <1>6, <2>4, <3>1 DEF ChunkSound
  <2>6. ASSUME f.reply.error = "none", ~Stopped(f)
        PROVE  Aligned(f.len) /\ up.offset + f.len <= Received
    <3>1. f.cmd # "finalize" /\ f.from + f.len <= Received /\ Aligned(f.len)
      BY <1>6, <2>4, <2>6 DEF ChunkSound, Stopped, Received
    <3> QED
      BY <2>3, <2>5, <3>1
  <2>7. Fine(ChunkFinished(s, f, f.reply.error))
    BY <1>1, <1>8, <2>1, <2>2, <2>4, <2>5, <2>6, ChunkFinishedSound
  <2> QED
    BY <1>7, <1>13, <2>7, HandleSound DEF f
<1>14. CASE f.kind = "cancel"
  <2>1. Handle(s)
    BY <1>7, <1>14
  <2> QED
    BY <1>8, <2>1, HandleSound
<1>15. f.kind \in {"start", "query", "chunk", "cancel"}
  BY <1>1 DEF Flights
<1> QED
  BY <1>11, <1>12, <1>13, <1>14, <1>15

\* The data of a chunk is there, or cannot be read.
LEMMA GeneratedSound ==
  ASSUME IInv, IInv', Sound, NEW i \in DOMAIN net, Generated(i) \/ GenerationFails(i) PROVE Sound'
<1>1. /\ NetOK(net) /\ server \in Servers
      /\ State.up = up /\ State.net = net /\ State.pending = <<>>
  BY DEF IInv, TypeOK, State, Servers
<1>2. NetSound(up, net, server) /\ up.begun
  BY DEF Sound, NetSound, Unbegun
<1>3. Fine(State)
  BY <1>2, StateFine DEF IInv
<1>4. CASE Generated(i)
  <2>1. Fine(BeginChunkFetcher(State, i))
    BY <1>1, <1>3, <1>4, ChunkBegun DEF Generated
  <2> QED
    BY <1>4, <2>1, HandleSound DEF Generated
<1>5. CASE GenerationFails(i)
  <2> DEFINE m == Without(net, {i})
             s == [State EXCEPT !.net = m]
  <2>1. NetOK(m) /\ NetSound(up, m, server)
    BY <1>1, <1>2, WithoutOK, WithoutSound
  <2> HIDE DEF m
  <2>2. Fine(s)
    BY <1>1, <1>3, <2>1, FineNet
  <2> HIDE DEF s
  <2>3. Fine(FinalCallback(s, "error", TRUE))
    BY <1>1, <2>2, FinalSound DEF Answer
  <2>4. Handle(FinalCallback(s, "error", TRUE))
    BY <1>5 DEF GenerationFails, s, m
  <2> QED
    BY <2>3, <2>4, HandleSound
<1> QED
  BY <1>4, <1>5

\* The client pauses with nothing but a chunk in flight, and resumes when the initial request
\* is through.
LEMMA PauseSound == ASSUME ~PauseAnytime, IInv, IInv', Sound, Pause PROVE Sound'
<1>1. /\ up \in Upload /\ NetOK(net) /\ server \in Servers
      /\ State.up = up /\ State.net = net /\ State.pending = <<>>
  BY DEF IInv, TypeOK, State, Servers
<1> DEFINE d == DestroyChunkFetcher(State)
           v == [d.up EXCEPT !.paused = TRUE]
           t == [d EXCEPT !.up = v]
           p == DestroyChunkFetcher([State EXCEPT !.up.paused = TRUE])
<1>2. Handle(p)
  BY DEF Pause
<1>3. d = [up |-> [up EXCEPT !.chunk = None], net |-> StopFlight(net, up.chunk), pending |-> <<>>]
  BY DestroyForm DEF State
<1>4. d.up = [up EXCEPT !.chunk = None] /\ d.net = StopFlight(net, up.chunk) /\ d.pending = <<>>
  BY <1>3
<1>5. p = t
  <2> DEFINE w == [up EXCEPT !.paused = TRUE]
  <2>1. [State EXCEPT !.up.paused = TRUE] = [up |-> w, net |-> net, pending |-> <<>>]
    <3>1. State = [up |-> State.up, net |-> State.net, pending |-> State.pending]
      BY DEF State
    <3>2. [State EXCEPT !.up.paused = TRUE] = [State EXCEPT !.up = w]
      BY <1>1
    <3> HIDE DEF w
    <3>3. [State EXCEPT !.up = w] = [up |-> w, net |-> State.net, pending |-> State.pending]
      BY <3>1
    <3> QED
      BY <1>1, <3>2, <3>3
  <2>2. w.chunk = up.chunk /\ [w EXCEPT !.chunk = None] = v
    BY <1>1, <1>4 DEF Upload
  <2> HIDE DEF w, v
  <2>3. p = [up |-> [w EXCEPT !.chunk = None], net |-> StopFlight(net, w.chunk), pending |-> <<>>]
    BY <2>1, DestroyForm
  <2>4. t = [up |-> v, net |-> StopFlight(net, up.chunk), pending |-> <<>>]
    BY <1>3
  <2> QED
    BY <2>2, <2>3, <2>4
<1> HIDE DEF d, p
<1>6. d.up \in Upload
  BY <1>1, <1>4 DEF Upload
<1>7. /\ v \in Upload /\ v.due = d.up.due /\ v.handler = d.up.handler /\ v.begun = up.begun
      /\ v.offset = up.offset /\ v.granularity = up.granularity
      /\ v.location = up.location /\ v.paused /\ v.restarted = up.restarted
  BY <1>1, <1>4, <1>6 DEF Upload
<1>8. CASE up.begun
  <2>1. Fine(State)
    BY <1>8, StateFine DEF IInv
  <2>2. Fine(d)
    BY <1>1, <2>1, DestroySound DEF d
  <2>3. OnlyStart(d.net)
    <3>1. \A i \in DOMAIN net \ {up.chunk} : Busy(net[i]) => net[i].kind = "start"
      BY <1>1 DEF Pause, Live, Busy, NetOK, Flights
    <3>2. NetSound(up, net, server)
      BY DEF Sound
    <3> QED
      BY <1>1, <1>4, <3>1, <3>2, StopSound
  <2> HIDE DEF v
  <2>4. OffsetSound(v, server) /\ v.offset <= d.up.offset /\ (v.location => d.up.location)
    BY <1>1, <1>4, <1>7 DEF Sound, NetSound, OffsetSound, Upload
  <2>5. Fine(t)
    BY <1>1, <1>7, <1>8, <2>2, <2>3, <2>4, FineUp
  <2> HIDE DEF t
  <2> QED
    BY <1>2, <1>5, <2>5, HandleSound
<1>9. CASE ~up.begun
  <2>1. NetSound(up, net, server) /\ DOMAIN net = {}
    BY <1>9 DEF Sound, NetSound, Unbegun
  <2>2. StopFlight(net, up.chunk) = net
    BY <2>1 DEF StopFlight
  <2>3. t.up = v /\ t.net = net /\ t.pending = <<>>
    <3>1. d = [up |-> d.up, net |-> d.net, pending |-> d.pending]
      BY <1>3
    <3> HIDE DEF v
    <3> QED
      BY <1>4, <2>2, <3>1
  <2> HIDE DEF t, v
  <2>4. /\ up' = [v EXCEPT !.due = v.due \o <<>>] /\ net' = net
        /\ server' = server /\ answers' = answers
    BY <1>2, <1>5, <2>3 DEF Handle
  <2>5. up.due \in Seq(Answer) /\ v.due = up.due
    BY <1>1, <1>4, <1>7 DEF Upload
  <2>6. v.due \o <<>> = up.due
    BY <2>5
  <2>7. /\ up'.begun = up.begun /\ up'.offset = up.offset /\ up'.granularity = up.granularity
        /\ up'.location = up.location /\ up'.restarted = up.restarted /\ up'.due = up.due
    BY <1>7, <2>4, <2>6 DEF Upload
  <2>8. NetSound(up', net, server)
    BY <2>1, <2>7 DEF NetSound, OffsetSound, OneBusy, OnlyStart, Unbegun
  <2> QED
    BY <2>4, <2>7, <2>8 DEF Sound
<1> QED
  BY <1>8, <1>9

\* The client resumes: with no initial request under way, nothing else is, and the server is asked.
LEMMA ResumeSound == ASSUME ~PauseAnytime, IInv, IInv', Sound, Resume PROVE Sound'
<1>1. /\ up \in Upload /\ NetOK(net) /\ server \in Servers
      /\ State.up = up /\ State.net = net /\ State.pending = <<>>
  BY DEF IInv, TypeOK, State, Servers
<1>2. up.begun /\ up.paused /\ NetSound(up, net, server)
  BY DEF Resume, Sound
<1>3. Fine(State)
  BY <1>2, StateFine DEF IInv
<1>4. Idle(net)
  BY <1>2 DEF NetSound, OnlyStart, Idle, Resume, Live, Busy
<1> DEFINE v == [up EXCEPT !.paused = FALSE]
           t == [State EXCEPT !.up = v]
<1>5. /\ v \in Upload /\ v.due = up.due /\ v.handler = up.handler /\ v.begun = up.begun
      /\ v.offset = up.offset /\ v.granularity = up.granularity
      /\ v.location = up.location /\ ~v.paused
  BY <1>1 DEF Upload
<1>6. Handle(SendQuery(t))
  BY DEF Resume, State
<1> HIDE DEF v
<1>7. OffsetSound(v, server) /\ v.offset <= up.offset
  BY <1>1, <1>2, <1>5 DEF NetSound, OffsetSound, Upload
<1>8. Fine(t) /\ t.up = v /\ t.net = net
  BY <1>1, <1>2, <1>3, <1>5, <1>7, FineUp
<1> HIDE DEF t
<1>9. Fine(SendQuery(t))
  BY <1>4, <1>5, <1>8, QuerySent DEF Ready
<1> QED
  BY <1>6, <1>9, HandleSound

\* The initial requests lose their fetchers.
StartsSilenced(m) ==
  [i \in DOMAIN m |-> [m[i] EXCEPT !.live = @ /\ i \notin {j \in DOMAIN m : m[j].kind = "start"}]]

\* Silencing the initial requests leaves every other flight as it was.
LEMMA StartsStopped ==
  ASSUME NEW m, NetOK(m), NEW n, n = StartsSilenced(m)
  PROVE  /\ NetOK(n) /\ DOMAIN n = DOMAIN m
         /\ \A i \in DOMAIN n : \/ n[i] = m[i]
                                \/ m[i].kind = "start" /\ n[i] = [m[i] EXCEPT !.live = FALSE]
<1>1. DOMAIN n = DOMAIN m
  BY DEF StartsSilenced
<1>2. ASSUME NEW i \in DOMAIN m
      PROVE  /\ n[i] \in Flights
             /\ \/ n[i] = m[i]
                \/ m[i].kind = "start" /\ n[i] = [m[i] EXCEPT !.live = FALSE]
  <2> DEFINE f == m[i]
             b == f.live /\ i \notin {j \in DOMAIN m : m[j].kind = "start"}
  <2>1. f \in Flights /\ b \in BOOLEAN /\ n[i] = [f EXCEPT !.live = b]
    BY DEF NetOK, StartsSilenced
  <2>2. f.kind # "start" => b = f.live
    BY <2>1 DEF Flights
  <2>3. f.kind = "start" => b = FALSE
    OBVIOUS
  <2>4. f = m[i]
    OBVIOUS
  <2> HIDE DEF f, b
  <2>5. [f EXCEPT !.live = b] \in Flights
    BY <2>1 DEF Flights
  <2>6. [f EXCEPT !.live = f.live] = f
    BY <2>1 DEF Flights
  <2> QED
    BY <2>1, <2>2, <2>3, <2>4, <2>5, <2>6
<1>3. n \in [DOMAIN m -> Flights]
  BY <1>2 DEF StartsSilenced
<1> QED
  BY <1>1, <1>2, <1>3 DEF NetOK

\* The client stops the fetch.
LEMMA StopFetchingSound == ASSUME IInv, IInv', Sound, StopFetching PROVE Sound'
<1> DEFINE s == DestroyChunkFetcher(State)
           c == IF s.up.location THEN SendCancel(s) ELSE s
           starts == {i \in DOMAIN c.net : c.net[i].kind = "start"}
           u == [c.up EXCEPT !.location = FALSE, !.handler = FALSE, !.stopped = TRUE]
           n == [i \in DOMAIN c.net |-> [c.net[i] EXCEPT !.live = @ /\ i \notin starts]]
           t == [up |-> u, net |-> n, pending |-> c.pending]
<1>1. server \in Servers /\ up.begun
  BY DEF IInv, TypeOK, Servers, StopFetching
<1>2. Fine(s)
  BY <1>1, StateFine, DestroySound DEF IInv
<1> HIDE DEF s
<1>3. Fine(c)
  BY <1>2, CancelSent
<1>4. Handle(t)
  BY DEF StopFetching, s
<1> HIDE DEF c
<1>5. /\ c.up \in Upload /\ NetOK(c.net) /\ NetSound(c.up, c.net, server)
      /\ c = [up |-> c.up, net |-> c.net, pending |-> c.pending]
  BY <1>3 DEF Fine, HandlerOK, RecordOK
<1>6. /\ NetOK(n) /\ DOMAIN n = DOMAIN c.net
      /\ \A i \in DOMAIN n : \/ n[i] = c.net[i]
                             \/ c.net[i].kind = "start" /\ n[i] = [c.net[i] EXCEPT !.live = FALSE]
  <2> DEFINE m == c.net
  <2>1. NetOK(m) /\ n = StartsSilenced(m)
    BY <1>5 DEF StartsSilenced
  <2> HIDE DEF m, n
  <2>2. /\ NetOK(n) /\ DOMAIN n = DOMAIN m
        /\ \A i \in DOMAIN n : \/ n[i] = m[i]
                               \/ m[i].kind = "start" /\ n[i] = [m[i] EXCEPT !.live = FALSE]
    BY <2>1, StartsStopped
  <2> QED
    BY <2>2 DEF m
<1> HIDE DEF n
<1>7. NetSound(c.up, n, server)
  BY <1>5, <1>6, FewerSound
<1> DEFINE b == [c EXCEPT !.net = n]
<1>8. Fine(b) /\ b.up = c.up /\ b.net = n /\ b.pending = c.pending
  BY <1>3, <1>6, <1>7, FineNet
<1>9. /\ u \in Upload /\ u.due = c.up.due /\ ~u.handler /\ u.begun = c.up.begun
      /\ u.offset = c.up.offset /\ u.granularity = c.up.granularity
      /\ ~u.location /\ u.paused = c.up.paused
  <2> DEFINE v == c.up
  <2>1. v \in Upload
    BY <1>5
  <2> HIDE DEF v
  <2>2. LET x == [v EXCEPT !.location = FALSE, !.handler = FALSE, !.stopped = TRUE]
        IN /\ x \in Upload /\ x.due = v.due /\ ~x.handler /\ x.begun = v.begun
           /\ x.offset = v.offset /\ x.granularity = v.granularity
           /\ ~x.location /\ x.paused = v.paused
    BY <2>1 DEF Upload
  <2> QED
    BY <2>2 DEF v
<1> HIDE DEF u, b
<1>10. OffsetSound(u, server) /\ u.offset <= b.up.offset
  BY <1>5, <1>8, <1>9 DEF NetSound, OffsetSound, Upload
<1>11. Fine([b EXCEPT !.up = u])
  BY <1>1, <1>3, <1>8, <1>9, <1>10, FineUp DEF Fine
<1>12. [b EXCEPT !.up = u] = t
  <2>1. b = [up |-> b.up, net |-> b.net, pending |-> b.pending]
    BY <1>8 DEF Fine, HandlerOK, RecordOK
  <2>2. [b EXCEPT !.up = u] = [up |-> u, net |-> b.net, pending |-> b.pending]
    BY <2>1
  <2> QED
    BY <1>8, <2>2
<1> HIDE DEF t
<1> QED
  BY <1>4, <1>11, <1>12, HandleSound

\* The callback reaches the client.
LEMMA DeliverSound == ASSUME IInv, Sound, Deliver PROVE Sound'
<1>1. /\ up \in Upload /\ up.due \in Seq(Answer) /\ up.due # <<>> /\ answers \in Seq(Answer)
      /\ server \in Servers /\ NetOK(net)
  BY DEF IInv, TypeOK, Upload, Deliver, Servers
<1>2. up' = [up EXCEPT !.due = Tail(up.due)] /\ UNCHANGED <<net, server>>
  BY DEF Deliver
<1>3. /\ up'.due = Tail(up.due) /\ up'.begun = up.begun /\ up'.offset = up.offset
      /\ up'.granularity = up.granularity /\ up'.location = up.location /\ up'.paused = up.paused
      /\ up'.restarted = up.restarted
  BY <1>1, <1>2 DEF Upload
<1>4. NetSound(up', net, server)
  <2>1. \A f : FlightSound(f, up, server) => FlightSound(f, up', server)
    BY <1>3 DEF FlightSound, ChunkSound, QuerySound
  <2>2. \A i \in DOMAIN net : Fresh(up, net, server, i) => Fresh(up', net, server, i)
    BY <1>3 DEF Fresh
  <2> QED
    BY <1>3, <2>1, <2>2 DEF Sound, NetSound, OffsetSound, Unbegun
<1>5. OkSound(up.due, server) /\ OkSound(answers, server)
  BY DEF Sound
<1>6. OkSound(Tail(up.due), server) /\ (Head(up.due) = "ok" => server.state = "final")
  BY <1>1, <1>5 DEF OkSound
<1>7. OkSound(Append(answers, Head(up.due)), server)
  BY <1>1, <1>5, <1>6 DEF OkSound
<1>8. OkSound(answers', server)
  BY <1>5, <1>7 DEF Deliver
<1> QED
  BY <1>2, <1>3, <1>4, <1>6, <1>8 DEF Sound

\* What the upload fetcher is made anew from.
LEMMA RestoredFields ==
  ASSUME NEW u \in Upload, NEW k \in Nat \cup {None}, NEW o \in Int
  PROVE  LET r == Restored(u, k, o)
         IN /\ r.begun = u.begun /\ ~r.paused /\ r.granularity = 0 /\ r.due = <<>>
            /\ r.offset = o /\ (r.location <=> k # None)
<1> DEFINE some == k # None
           none == k = None
<1>1. some \in BOOLEAN /\ (some <=> k # None)
  OBVIOUS
<1>2. Restored(u, k, o) =
        [u EXCEPT !.location = some, !.restarted = TRUE, !.offset = o,
                  !.granularity = 0, !.query = FALSE, !.retry = FALSE, !.chunk = k,
                  !.paused = FALSE, !.handler = some, !.due = <<>>, !.lost = none]
  BY DEF Restored
<1> HIDE DEF some, none
<1>3. Restored(u, k, o) =
        [begun |-> u.begun, restarted |-> TRUE, file |-> u.file, retry |-> FALSE,
         location |-> some, offset |-> o, granularity |-> 0, chunk |-> k,
         paused |-> FALSE, query |-> FALSE, handler |-> some, stopped |-> u.stopped,
         due |-> <<>>, lost |-> none]
  BY <1>2 DEF Upload
<1> QED
  BY <1>1, <1>3

\* The app is terminated and launched again: the chunk in a background session is what the
\* new upload waits for, at the offset its metadata tell.
LEMMA RelaunchSound == ASSUME IInv, IInv', Sound, Relaunch PROVE Sound'
<1>1. /\ up \in Upload /\ NetOK(net) /\ up.begun /\ server \in Servers
      /\ NetSound(up, net, server) /\ UNCHANGED <<server, answers>>
  BY DEF IInv, TypeOK, Sound, Relaunch, Servers
<1> DEFINE S == {j \in DOMAIN net : net[j].stage = "sent" \/ j \in Persisted}
<1>2. PICK known \in BOOLEAN : net' = [i \in S |-> Orphan(net[i], i \in Persisted, known)]
  BY DEF Relaunch
<1>3. ASSUME NEW i \in S
      PROVE  LET f == net[i] g == net'[i]
             IN /\ g.live = (i \in Persisted) /\ g.kind = f.kind /\ g.cmd = f.cmd /\ g.at = f.at
                /\ g.from = f.from /\ g.len = f.len /\ g.meta = f.meta /\ g.reply = f.reply
                /\ g.stage # "generating" /\ (Answered(g) <=> Answered(f))
                /\ i \notin Persisted => g.stage = "sent"
  <2> DEFINE f == net[i]
             g == net'[i]
  <2>1. f \in Flights /\ g = Orphan(f, i \in Persisted, known)
    BY <1>1, <1>2 DEF NetOK
  <2>2. f.stage # "generating" /\ (i \notin Persisted => f.stage = "sent")
    BY DEF Persisted
  <2> DEFINE a == i \in Persisted
             q == f.known /\ known
             x == IF f.stage = "asked" THEN "replied" ELSE f.stage
  <2>3. g = [f EXCEPT !.live = a, !.retry = FALSE, !.known = q, !.stage = x]
    BY <2>1 DEF Orphan
  <2>4. a \in BOOLEAN /\ (a <=> i \in Persisted)
    OBVIOUS
  <2>5. x # "generating" /\ (x \in {"replied", "asked"} <=> f.stage \in {"replied", "asked"})
    BY <2>2
  <2>6. i \notin Persisted => x = "sent"
    BY <2>2
  <2> HIDE DEF f, g, a, q, x
  <2>7. /\ g.live = a /\ g.kind = f.kind /\ g.cmd = f.cmd /\ g.at = f.at
        /\ g.from = f.from /\ g.len = f.len /\ g.meta = f.meta /\ g.reply = f.reply /\ g.stage = x
    BY <2>1, <2>3 DEF Flights
  <2> QED
    BY <2>4, <2>5, <2>6, <2>7 DEF f, g, a, Answered
<1>4. DOMAIN net' = S /\ S \subseteq DOMAIN net
  BY <1>2
<1>5. \A i \in Persisted : i \in S /\ net[i].live /\ net[i].kind = "chunk" /\ net[i].stage # "generating" /\ Busy(net[i])
  BY <1>1 DEF Persisted, Busy
<1> HIDE DEF S
<1>6. \A i, j \in Persisted : i = j
  BY <1>1, <1>4, <1>5 DEF NetSound, OneBusy
<1>7. /\ up'.begun /\ ~up'.paused /\ up'.granularity = 0 /\ up'.due = <<>>
      /\ \/ Persisted = {} /\ ~up'.location /\ up'.offset = 0
         \/ \E i \in Persisted : up'.offset = net[i].meta
  <2>1. None \in Nat \cup {None} /\ 0 \in Int
    OBVIOUS
  <2>2. CASE Persisted = {} /\ up' = Restored(up, None, 0)
    BY <1>1, <2>1, <2>2, RestoredFields
  <2>3. ASSUME NEW i \in Persisted, up' = Restored(up, i, net[i].meta)
        PROVE  /\ up'.begun /\ ~up'.paused /\ up'.granularity = 0 /\ up'.due = <<>>
               /\ up'.offset = net[i].meta
    <3> DEFINE o == net[i].meta
    <3>1. i \in Nat \cup {None} /\ o \in Int /\ up' = Restored(up, i, o)
      BY <1>1, <2>3 DEF Persisted, NetOK, Flights
    <3> HIDE DEF o
    <3>2. /\ up'.begun /\ ~up'.paused /\ up'.granularity = 0 /\ up'.due = <<>>
          /\ up'.offset = o
      BY <1>1, <3>1, RestoredFields
    <3> QED
      BY <3>2 DEF o
  <2> QED
    BY <2>2, <2>3 DEF Relaunch
<1>8. up'.offset \in Int /\ up'.offset >= 0 /\ up'.offset <= Len(server.content) /\ Aligned(up'.offset)
      /\ \A i \in Persisted : up'.offset <= net[i].from
  <2>1. Len(server.content) \in Nat
    BY <1>1 DEF Servers
  <2>2. CASE Persisted = {}
    BY <1>7, <2>1, <2>2, AlignedBase
  <2>3. ASSUME NEW i \in Persisted, up'.offset = net[i].meta
        PROVE  /\ up'.offset \in Int /\ up'.offset >= 0 /\ up'.offset <= Len(server.content)
               /\ Aligned(up'.offset) /\ up'.offset <= net[i].from
    <3>1. net[i] \in Flights /\ ChunkSound(net[i], up, server)
      BY <1>1, <1>4, <1>5 DEF NetOK, NetSound, FlightSound
    <3>2. net[i].meta \in Int /\ net[i].from \in Int
      BY <3>1 DEF Flights
    <3> QED
      BY <2>1, <2>3, <3>1, <3>2 DEF ChunkSound
  <2> QED
    BY <1>6, <1>7, <2>2, <2>3
<1>9. OffsetSound(up', server)
  BY <1>7, <1>8 DEF OffsetSound
<1>10. ASSUME NEW i \in DOMAIN net' PROVE FlightSound(net'[i], up', server)
  <2> DEFINE f == net[i]
             g == net'[i]
  <2>1. /\ g.live = (i \in Persisted) /\ g.kind = f.kind /\ g.cmd = f.cmd /\ g.at = f.at
        /\ g.from = f.from /\ g.len = f.len /\ g.meta = f.meta /\ g.reply = f.reply
        /\ g.stage # "generating" /\ (Answered(g) <=> Answered(f))
        /\ i \notin Persisted => g.stage = "sent"
    BY <1>3, <1>4
  <2>2. FlightSound(f, up, server)
    BY <1>1, <1>4 DEF NetSound
  <2>3. i \in Persisted => f.kind = "chunk" /\ up'.offset <= f.from
    BY <1>5, <1>8
  <2> HIDE DEF f, g
  <2>4. g.kind = "chunk" => ChunkSound(g, up', server)
    BY <2>1, <2>2, <2>3 DEF FlightSound, ChunkSound
  <2>5. g.kind = "query" => QuerySound(g, up', server)
    BY <2>1, <2>2, <2>3 DEF FlightSound, QuerySound, Answered
  <2>6. FlightSound(g, up', server)
    BY <2>1, <2>2, <2>3, <2>4, <2>5 DEF FlightSound
  <2> QED
    BY <2>6 DEF g
<1>11. OneBusy(net')
  BY <1>3, <1>4, <1>6 DEF OneBusy, Busy
<1>12. ASSUME NEW i \in DOMAIN net', net'[i].kind = "start" PROVE Fresh(up', net', server, i)
  <2>1. net[i].kind = "start" /\ i \in DOMAIN net /\ Fresh(up, net, server, i)
    BY <1>1, <1>3, <1>4, <1>12 DEF NetSound
  <2>2. Persisted = {}
    BY <1>4, <1>5, <2>1 DEF Fresh
  <2>3. ~up'.location /\ up'.offset = 0
    BY <1>7, <2>2
  <2>4. ASSUME NEW j \in DOMAIN net' \ {i}
        PROVE  /\ net'[j].kind \in {"query", "cancel"}
               /\ net'[j].kind = "query" => Answered(net'[j]) /\ net'[j].reply.error # "none"
    BY <1>3, <1>4, <2>1 DEF Fresh
  <2> QED
    BY <2>1, <2>3, <2>4 DEF Fresh
<1>13. NetSound(up', net', server)
  BY <1>7, <1>9, <1>10, <1>11, <1>12 DEF NetSound
<1> QED
  BY <1>1, <1>7, <1>13 DEF Sound, OkSound

----------------------------------------------------------------------------
(* The steps of the network and the server.                                *)

\* The server only adds to what it has.
LEMMA MoveSound ==
  ASSUME NEW u \in Upload, NEW sv \in Servers, NEW sv2 \in Servers,
         NEW n, NetOK(n), NetSound(u, n, sv), u.begun,
         Len(sv.content) <= Len(sv2.content), sv.state = "final" => sv2.state = "final",
         NoStart(n) \/ sv2.state # "final"
  PROVE  NetSound(u, n, sv2)
<1>1. u.offset \in Int /\ Len(sv.content) \in Nat /\ Len(sv2.content) \in Nat
  BY DEF Upload, Servers
<1>2. ASSUME NEW i \in DOMAIN n PROVE FlightSound(n[i], u, sv2)
  <2> DEFINE f == n[i]
  <2>1. f \in Flights /\ FlightSound(f, u, sv)
    BY DEF NetOK, NetSound
  <2> HIDE DEF f
  <2>2. f.from \in Int /\ f.len \in Int /\ f.reply.received \in Int
    BY <2>1 DEF Flights, Reply
  <2>3. ChunkSound(f, u, sv) => ChunkSound(f, u, sv2)
    BY <1>1, <2>2 DEF ChunkSound
  <2>4. QuerySound(f, u, sv) => QuerySound(f, u, sv2)
    BY <1>1, <2>2 DEF QuerySound
  <2>5. FlightSound(f, u, sv2)
    BY <2>1, <2>3, <2>4 DEF FlightSound
  <2> QED
    BY <2>5 DEF f
<1>3. OffsetSound(u, sv2)
  BY <1>1 DEF NetSound, OffsetSound
<1>4. ASSUME NEW i \in DOMAIN n, n[i].kind = "start" PROVE Fresh(u, n, sv2, i)
  BY <1>4 DEF NetSound, Fresh, NoStart
<1> QED
  BY <1>2, <1>3, <1>4 DEF NetSound

\* What the server keeps of a chunk continues what it has.
LEMMA KeptSound ==
  ASSUME server \in Servers, ServerSound(server), NEW u, NEW f \in Flights,
         ChunkSound(f, u, server), f.at = Received, NEW k \in Nat, k <= f.len
  PROVE  /\ Kept(f, k) \in Servers /\ Kept(f, k).state = server.state
         /\ Kept(f, k).content = Slice(0, Received + k)
         /\ Len(Kept(f, k).content) = Received + k /\ Received + k <= Length
<1>1. f.from = Received /\ server.content = Slice(0, Received) /\ Received \in Nat /\ f.len \in Int
      /\ f.from + f.len <= Length /\ Length \in Nat
  BY UploadAssumption DEF ChunkSound, ServerSound, Received, Servers, Flights
<1>2. Kept(f, k) \in Servers
  BY KeptType
<1> DEFINE c == server.content \o Slice(f.from, k)
<1>3. c = Slice(0, Received + k)
  <2>1. Slice(0, Received) \o Slice(Received, k) = Slice(0, Received + k)
    BY <1>1, SliceJoin
  <2> QED
    BY <1>1, <2>1
<1>4. Kept(f, k).content = c /\ Kept(f, k).state = server.state
  BY DEF Kept, Servers
<1>5. Len(Slice(0, Received + k)) = Received + k
  BY <1>1 DEF Slice
<1> HIDE DEF c
<1> QED
  BY <1>1, <1>2, <1>3, <1>4, <1>5

\* What holds of the server after a request.
Moved(sv) ==
  /\ sv \in Servers /\ ServerSound(sv) /\ NetSound(up, net, sv)
  /\ server.state = "final" => sv.state = "final"

\* A server that keeps a multiple of the granularity of a chunk.
LEMMA KeptMoved ==
  ASSUME IInv, Sound, NEW i \in DOMAIN net, net[i].kind = "chunk", net[i].at = Received,
         server.state = "active", NEW k \in Nat, k <= net[i].len, Aligned(k)
  PROVE  Moved(Kept(net[i], k)) /\ Len(Kept(net[i], k).content) = Received + k
<1> DEFINE f == net[i]
           sv == Kept(f, k)
<1>1. /\ up \in Upload /\ NetOK(net) /\ server \in Servers /\ ServerSound(server)
      /\ NetSound(up, net, server) /\ up.begun /\ Received \in Nat
  BY DEF IInv, TypeOK, Sound, NetSound, Unbegun, Servers, Received
<1>2. f \in Flights /\ ChunkSound(f, up, server)
  BY <1>1 DEF NetOK, NetSound, FlightSound
<1>3. NoStart(net)
  BY <1>1 DEF NetSound, Fresh, NoStart
<1>4. /\ sv \in Servers /\ sv.state = "active" /\ sv.content = Slice(0, Received + k)
      /\ Len(sv.content) = Received + k /\ Received + k <= Length
  <2> HIDE DEF f
  <2> QED
    BY <1>1, <1>2, KeptSound DEF f
<1> HIDE DEF sv
<1>5. Aligned(Received + k)
  BY <1>1, AlignedSum DEF ServerSound, Received
<1>6. ServerSound(sv)
  BY <1>4, <1>5 DEF ServerSound
<1>7. Len(server.content) <= Len(sv.content)
  BY <1>1, <1>4 DEF Received
<1>8. NetSound(up, net, sv)
  BY <1>1, <1>3, <1>4, <1>7, MoveSound
<1> QED
  BY <1>4, <1>6, <1>8 DEF Moved, sv

\* The server has handled a request; its answer tells the truth.
LEMMA ProcessedSound ==
  ASSUME IInv, Sound, NEW i \in DOMAIN net, net[i].stage = "sent",
         NEW g, g = [net[i] EXCEPT !.stage = "replied",
                                   !.reply = Result(Processed(net[i]).sv, Processed(net[i]).error)]
  PROVE  /\ Moved(Processed(net[i]).sv)
         /\ net[i].live => FlightSound(g, up, Processed(net[i]).sv)
<1> DEFINE f == net[i]
           sv == Processed(f).sv
           error == Processed(f).error
<1>1. /\ up \in Upload /\ NetOK(net) /\ server \in Servers /\ ServerSound(server)
      /\ NetSound(up, net, server) /\ up.begun /\ Received \in Nat
  BY DEF IInv, TypeOK, Sound, NetSound, Unbegun, Servers, Received
<1>2. f \in Flights /\ FlightSound(f, up, server)
  BY <1>1 DEF NetOK, NetSound
<1>3. sv \in Servers /\ error \in {"none", "4xx"}
  BY <1>1, <1>2, ProcessedType
<1>4. /\ g.kind = f.kind /\ g.cmd = f.cmd /\ g.at = f.at /\ g.from = f.from /\ g.len = f.len
      /\ g.meta = f.meta /\ g.live = f.live /\ g.stage = "replied" /\ g.reply = Result(sv, error)
  BY <1>2 DEF Flights
<1>5. g.reply.error = error /\ g.reply.status = sv.state /\ g.reply.received = Len(sv.content)
  BY <1>4 DEF Result
<1>6. f.stage = "sent"
  OBVIOUS
<1>7. ASSUME Moved(sv),
             f.kind = "chunk" /\ error = "none" /\ sv.state # "final" =>
               f.cmd # "finalize" /\ f.from + f.len <= Len(sv.content)
      PROVE  f.live => FlightSound(g, up, sv)
  <2>1. FlightSound(f, up, sv) /\ OffsetSound(up, sv) /\ ServerSound(sv)
    BY <1>7 DEF Moved, NetSound
  <2> HIDE DEF f, sv, error
  <2>2. g.kind = "chunk" => ChunkSound(g, up, sv)
    BY <1>4, <1>5, <1>6, <1>7, <2>1 DEF FlightSound, ChunkSound
  <2>3. Len(sv.content) \in Nat
    BY <1>3 DEF Servers
  <2>4. g.kind = "query" => QuerySound(g, up, sv)
    BY <1>4, <1>5, <2>1, <2>3 DEF FlightSound, QuerySound, OffsetSound, ServerSound
  <2>5. ~Answered(f) /\ Answered(g) /\ g.stage # "generating"
    BY <1>4, <1>6 DEF Answered
  <2> QED
    BY <1>4, <1>5, <2>1, <2>2, <2>4, <2>5 DEF FlightSound
<1>8. CASE f.kind = "start"
  <2>1. sv = [state |-> "active", content |-> <<>>]
    BY <1>8 DEF Processed
  <2>2. Fresh(up, net, server, i)
    BY <1>1, <1>8 DEF NetSound
  <2>3. ServerSound(sv)
    <3>1. Slice(0, 0) = <<>>
      BY DEF Slice
    <3> QED
      BY <2>1, <3>1, UploadAssumption, AlignedBase DEF ServerSound
  <2>4. ASSUME NEW j \in DOMAIN net PROVE FlightSound(net[j], up, sv)
    <3>1. FlightSound(net[j], up, server)
      BY <1>1 DEF NetSound
    <3>2. CASE j = i
      BY <1>6, <1>8, <3>1, <3>2 DEF FlightSound, Answered
    <3>3. CASE j # i
      BY <2>2, <3>1, <3>3 DEF Fresh, FlightSound, QuerySound
    <3> QED
      BY <3>2, <3>3
  <2>5. OffsetSound(up, sv)
    BY <1>1, <2>1, <2>2, AlignedBase DEF NetSound, OffsetSound, Fresh
  <2>6. ASSUME NEW j \in DOMAIN net, net[j].kind = "start" PROVE Fresh(up, net, sv, j)
    BY <1>1, <2>1, <2>6 DEF NetSound, Fresh
  <2>7. NetSound(up, net, sv)
    BY <1>1, <2>4, <2>5, <2>6 DEF NetSound
  <2>8. Moved(sv)
    BY <1>3, <2>2, <2>3, <2>7 DEF Moved, Fresh
  <2> QED
    BY <1>7, <1>8, <2>8
<1>9. CASE f.kind = "query" \/ (f.kind = "chunk" /\ (server.state # "active" \/ f.at # Received))
  <2>1. sv = server /\ (f.kind = "chunk" => error = "4xx")
    BY <1>9 DEF Processed
  <2>2. Moved(sv)
    BY <1>1, <2>1 DEF Moved
  <2> QED
    BY <1>7, <2>1, <2>2
<1>10. CASE f.kind = "cancel"
  <2>1. sv = [server EXCEPT !.state = IF server.state = "active" THEN "cancelled" ELSE server.state]
    BY <1>10 DEF Processed
  <2>2. /\ sv.content = server.content
        /\ sv.state = IF server.state = "active" THEN "cancelled" ELSE server.state
    BY <1>1, <2>1 DEF Servers
  <2>3. NoStart(net) \/ sv.state # "final"
    BY <1>1, <2>2 DEF NetSound, NoStart, Fresh
  <2>4. Len(server.content) <= Len(sv.content) /\ ServerSound(sv)
    BY <1>1, <2>2 DEF ServerSound, Servers
  <2> HIDE DEF sv
  <2>5. NetSound(up, net, sv)
    BY <1>1, <1>3, <2>2, <2>3, <2>4, MoveSound
  <2>6. Moved(sv)
    BY <1>3, <2>2, <2>4, <2>5 DEF Moved
  <2> QED
    BY <1>7, <1>10, <2>6 DEF sv
<1>11. CASE f.kind = "chunk" /\ server.state = "active" /\ f.at = Received
  <2>1. ChunkSound(f, up, server) /\ f.len \in Nat
    BY <1>2, <1>11 DEF FlightSound, ChunkSound, Flights
  <2>2. NoStart(net)
    BY <1>1, <1>11 DEF NetSound, Fresh, NoStart
  <2>3. CASE f.cmd = "finalize"
    <3> DEFINE k == Kept(f, f.len)
    <3>1. sv = [k EXCEPT !.state = "final"]
      BY <1>11, <2>3 DEF Processed
    <3>2. k \in Servers /\ k.content = Slice(0, Received + f.len) /\ Len(k.content) = Received + f.len
      <4> HIDE DEF f
      <4> QED
        BY <1>1, <1>2, <1>11, <2>1, KeptSound
    <3>3. Received + f.len = Length
      BY <1>11, <2>1, <2>3 DEF ChunkSound
    <3> HIDE DEF k, sv
    <3>4. sv.state = "final" /\ sv.content = Slice(0, Length) /\ Len(sv.content) = Length
      BY <3>1, <3>2, <3>3 DEF Servers
    <3>5. ServerSound(sv) /\ Len(server.content) <= Len(sv.content)
      BY <1>1, <3>4, UploadAssumption DEF ServerSound
    <3>6. NetSound(up, net, sv)
      BY <1>1, <1>3, <2>2, <3>4, <3>5, MoveSound
    <3>7. Moved(sv)
      BY <1>3, <3>4, <3>5, <3>6 DEF Moved
    <3> QED
      BY <1>7, <3>4, <3>7 DEF sv
  <2>4. CASE f.cmd # "finalize"
    <3>1. Aligned(f.len)
      BY <2>1, <2>4 DEF ChunkSound
    <3>2. RoundDown(f.len, Granularity) = f.len
      BY <2>1, <3>1, RoundDownAligned
    <3>3. sv = Kept(f, f.len)
      BY <1>11, <2>4, <3>2 DEF Processed
    <3>4. Moved(Kept(net[i], net[i].len)) /\ Len(Kept(net[i], net[i].len).content) = Received + net[i].len
      BY <1>11, <2>1, <3>1, KeptMoved
    <3>5. f.from = Received
      BY <1>11, <2>1 DEF ChunkSound
    <3>6. Moved(sv) /\ f.from + f.len <= Len(sv.content)
      BY <1>1, <2>1, <3>3, <3>4, <3>5
    <3> QED
      BY <1>7, <2>4, <3>6
  <2> QED
    BY <2>3, <2>4
<1>12. f.kind \in {"start", "query", "chunk", "cancel"}
  BY <1>2 DEF Flights
<1>13. Moved(sv) /\ (f.live => FlightSound(g, up, sv))
  BY <1>8, <1>9, <1>10, <1>11, <1>12
<1> QED
  BY <1>13

\* A request that was answered.
LEMMA AnswerArrives ==
  ASSUME NetOK(net), NEW sv, Moved(sv), NEW i \in DOMAIN net, net[i].stage = "sent", NEW r \in Reply,
         NEW g, g = [net[i] EXCEPT !.stage = "replied", !.reply = r], FlightSound(g, up, sv)
  PROVE  NetSound(up, Replied(net, i, r), sv)
<1>1. net[i] \in Flights
  BY DEF NetOK
<1>2. g.kind = net[i].kind /\ (Busy(g) => Busy(net[i])) /\ ~Answered(net[i])
  BY <1>1 DEF Flights, Busy, Answered
<1>3. NetSound(up, [net EXCEPT ![i] = g], sv)
  BY <1>2, ReplaceSound DEF Moved
<1> QED
  BY <1>3 DEF Replied

\* The network and the server: a request answered, failed or given up.
LEMMA NetworkSound ==
  ASSUME IInv, Sound, NEW i \in DOMAIN net, Serve(i) \/ Fail(i) \/ Drop(i) PROVE Sound'
<1> DEFINE f == net[i]
           p == Processed(net[i])
<1>1. /\ up \in Upload /\ NetOK(net) /\ f \in Flights /\ server \in Servers
      /\ ServerSound(server) /\ NetSound(up, net, server) /\ FlightSound(f, up, server)
  BY DEF IInv, TypeOK, Sound, NetSound, NetOK, Servers
<1>2. UNCHANGED <<up, answers>>
  BY DEF Serve, Fail, Drop
<1>3. ASSUME Moved(server'), NetSound(up, net', server') PROVE Sound'
  <2>1. OkSound(up.due, server') /\ OkSound(answers, server')
    BY <1>3 DEF Moved, Sound, OkSound
  <2> QED
    BY <1>2, <1>3, <2>1 DEF Moved, Sound
<1>4. CASE Serve(i)
  <2> DEFINE r == Result(p.sv, p.error)
             g == [net[i] EXCEPT !.stage = "replied", !.reply = r]
  <2>1. f.stage = "sent" /\ server' = p.sv
        /\ net' = IF f.live THEN Replied(net, i, r) ELSE Without(net, {i})
    BY <1>4 DEF Serve
  <2>2. Moved(p.sv) /\ (f.live => FlightSound(g, up, p.sv))
    BY <2>1, ProcessedSound
  <2>3. r \in Reply
    <3>1. p.sv \in Servers /\ p.error \in {"none", "4xx"}
      BY <1>1, ProcessedType
    <3> HIDE DEF p
    <3> QED
      BY <3>1 DEF Result, Servers, Reply
  <2> HIDE DEF p, r
  <2>4. CASE f.live
    BY <1>1, <1>3, <2>1, <2>2, <2>3, <2>4, AnswerArrives
  <2>5. CASE ~f.live
    <3>1. NetSound(up, Without(net, {i}), p.sv)
      BY <1>1, <2>2, WithoutSound DEF Moved
    <3> QED
      BY <1>3, <2>1, <2>2, <2>5, <3>1
  <2> QED
    BY <2>4, <2>5
<1>5. CASE Fail(i)
  <2>1. f.stage = "sent" /\ f.live
    BY <1>5 DEF Fail
  <2>2. PICK r \in Lost \cup Refused(f) : net' = Replied(net, i, r)
    BY <1>5 DEF Fail
  <2> DEFINE g == [net[i] EXCEPT !.stage = "replied", !.reply = r]
  <2>3. r \in Reply /\ r.status # "final" /\ (f.kind # "start" => r.error # "none")
    BY <2>2, BadAnswer
  <2>4. Moved(server')
    <3>1. CASE server' = server
      BY <1>1, <3>1 DEF Moved
    <3>2. CASE server' = Processed(net[i]).sv
      BY <2>1, <3>2, ProcessedSound
    <3>3. CASE /\ f.kind = "chunk" /\ server.state = "active" /\ f.at = Received
               /\ \E n \in 0 .. f.len : n = RoundDown(n, Granularity) /\ server' = Kept(f, n)
      <4>1. PICK n \in 0 .. f.len : n = RoundDown(n, Granularity) /\ server' = Kept(f, n)
        BY <3>3
      <4>2. f.len \in Int
        BY <1>1 DEF Flights
      <4>3. n \in Nat /\ n <= f.len
        BY <4>2
      <4>4. Aligned(n)
        BY <4>1, <4>3, RoundDownAligned
      <4> QED
        BY <3>3, <4>1, <4>3, <4>4, KeptMoved
    <3> QED
      BY <1>5, <3>1, <3>2, <3>3 DEF Fail
  <2>5. FlightSound(f, up, server')
    BY <2>4 DEF Moved, NetSound
  <2>6. FlightSound(g, up, server')
    <3>1. /\ g.kind = f.kind /\ g.cmd = f.cmd /\ g.at = f.at /\ g.from = f.from /\ g.len = f.len
          /\ g.meta = f.meta /\ g.live = f.live /\ g.stage = "replied" /\ g.reply = r
      BY <1>1 DEF Flights
    <3> HIDE DEF f, g
    <3>2. f.kind = "chunk" => ChunkSound(g, up, server')
      BY <2>1, <2>3, <2>5, <3>1 DEF FlightSound, ChunkSound
    <3>3. f.kind = "query" => QuerySound(g, up, server')
      BY <2>3, <2>5, <3>1 DEF FlightSound, QuerySound
    <3> QED
      BY <2>1, <2>3, <3>1, <3>2, <3>3 DEF FlightSound
  <2>7. NetSound(up, Replied(net, i, r), server')
    BY <1>1, <2>1, <2>3, <2>4, <2>6, AnswerArrives
  <2> QED
    BY <1>3, <2>2, <2>4, <2>7
<1>6. CASE Drop(i)
  <2>1. net' = Without(net, {i}) /\ server' = server
    BY <1>6 DEF Drop
  <2>2. NetSound(up, Without(net, {i}), server)
    BY <1>1, WithoutSound
  <2> QED
    BY <1>1, <1>3, <2>1, <2>2 DEF Moved
<1> QED
  BY <1>4, <1>5, <1>6

----------------------------------------------------------------------------
(* The theorems.                                                           *)

\* A new upload fetcher satisfies the invariant.
LEMMA InitInv == Init => IInv
<1> SUFFICES ASSUME Init PROVE IInv
  OBVIOUS
<1>1. PICK retry \in BOOLEAN, file \in BOOLEAN, restarted \in BOOLEAN :
        /\ up = [begun |-> FALSE, restarted |-> restarted, file |-> file, retry |-> retry,
                 location |-> restarted, offset |-> 0, granularity |-> 0, chunk |-> None,
                 paused |-> FALSE, query |-> FALSE, handler |-> TRUE, stopped |-> FALSE,
                 due |-> <<>>, lost |-> FALSE]
        /\ \/ \E n \in 0 .. Length - 1 : server = [state |-> "active", content |-> Slice(0, n)]
           \/ server = [state |-> "none", content |-> <<>>]
  BY DEF Init
<1>2. up \in Upload /\ up.due = <<>>
  BY <1>1 DEF Upload
<1>3. server \in Servers
  <2>1. \A n \in Int : Slice(0, n) \in Seq(Int)
    BY SliceType
  <2>2. \A n \in 0 .. Length - 1 : n \in Int
    BY UploadAssumption
  <2>3. \A n \in 0 .. Length - 1 : [state |-> "active", content |-> Slice(0, n)] \in Servers
    BY <2>1, <2>2 DEF Servers
  <2>4. [state |-> "none", content |-> <<>>] \in Servers
    BY DEF Servers
  <2> QED
    BY <1>1, <2>3, <2>4
<1>4. NetOK(net)
  <2>1. net = <<>> /\ DOMAIN net = {}
    BY DEF Init
  <2>2. IsFiniteSet({})
    BY FS_EmptySet
  <2> QED
    BY <2>1, <2>2 DEF NetOK
<1>5. answers = <<>> /\ answers \in Seq(Answer)
  BY DEF Init
<1>6. budget \in [{"fault", "pause", "crash"} -> Nat]
  BY UploadAssumption DEF Init
<1> QED
  BY <1>2, <1>3, <1>4, <1>5, <1>6 DEF IInv, TypeOK, AnswerOK, OneAnswer, Servers

\* Every step, and one that changes nothing, keeps the invariant.
LEMMA NextInv == IInv /\ [Next]_vars => IInv'
<1> SUFFICES ASSUME IInv, [Next]_vars PROVE IInv'
  OBVIOUS
<1>1. CASE UNCHANGED vars
  BY <1>1 DEF vars, IInv, TypeOK, NetOK, AnswerOK, OneAnswer
<1> QED
  BY <1>1, BeginFetchInv, PauseResumeInv, StopInv, DeliverInv, RelaunchInv, RetryInv,
     FinishedInv, GeneratedInv, NetworkInv DEF Next

\* IInv is an invariant of the upload.
THEOREM Invariance == Spec => []IInv
<1> QED
  BY InitInv, NextInv, PTL DEF Spec

\* Every variable of the upload keeps its type, whatever the network, the
\* client and the system do to it.
THEOREM TypeCorrect == Spec => []TypeOK
<1>1. IInv => TypeOK
  BY DEF IInv
<1> QED
  BY Invariance, <1>1, PTL

\* The client's completion handler is called at most once, whichever of chunk,
\* query, failure, stop and relaunch comes to it first and however they interleave.
THEOREM AnsweredAtMostOnce == Spec => []OneAnswer
<1>1. IInv => OneAnswer
  BY DEF IInv, AnswerOK
<1> QED
  BY Invariance, <1>1, PTL

\* An upload starts with nothing under way; one that is taken up again finds a
\* multiple of the granularity at the server.
LEMMA InitSound == Init => Sound
<1> SUFFICES ASSUME Init PROVE Sound
  OBVIOUS
<1>1. /\ net = <<>> /\ answers = <<>> /\ up.due = <<>> /\ ~up.begun /\ ~up.paused
      /\ up.location = up.restarted /\ up.offset = 0 /\ up.granularity = 0
  BY DEF Init
<1>2. /\ server.state \in {"none", "active"}
      /\ Len(server.content) <= Length /\ Len(server.content) \in Nat
      /\ server.content = Slice(0, Len(server.content)) /\ Aligned(Len(server.content))
  <2>1. CASE server = [state |-> "none", content |-> <<>>]
    <3>1. Slice(0, 0) = <<>>
      BY DEF Slice
    <3> QED
      BY <2>1, <3>1, AlignedBase, UploadAssumption
  <2>2. ASSUME NEW n \in 0 .. Length - 1, n = RoundDown(n, Granularity),
               server = [state |-> "active", content |-> Slice(0, n)]
        PROVE  /\ server.state \in {"none", "active"}
               /\ Len(server.content) <= Length /\ Len(server.content) \in Nat
               /\ server.content = Slice(0, Len(server.content)) /\ Aligned(Len(server.content))
    <3>1. n \in Nat /\ n <= Length
      BY <2>2, UploadAssumption
    <3>2. Len(Slice(0, n)) = n
      BY <3>1 DEF Slice
    <3> QED
      BY <2>2, <3>1, <3>2, RoundDownAligned
  <2> QED
    BY <2>1, <2>2 DEF Init
<1>3. DOMAIN net = {}
  BY <1>1
<1>4. NetSound(up, net, server)
  BY <1>1, <1>2, <1>3, AlignedBase DEF NetSound, OffsetSound, OneBusy, OnlyStart, Unbegun
<1> QED
  BY <1>1, <1>2, <1>4 DEF Sound, ServerSound, OkSound

\* Every step keeps what the client and the server know of each other.
LEMMA NextSound ==
  ASSUME ~PauseAnytime, WholeChunks, IInv, IInv', Sound, [Next]_vars PROVE Sound'
<1>1. CASE UNCHANGED vars
  BY <1>1 DEF vars, Sound, NetSound, FlightSound, ChunkSound, QuerySound, OffsetSound, OneBusy,
              OnlyStart, Fresh, Unbegun, ServerSound, OkSound
<1> QED
  BY <1>1, BeginFetchSound, PauseSound, ResumeSound, StopFetchingSound, DeliverSound,
     RelaunchSound, RetrySound, FinishedSound, GeneratedSound, NetworkSound DEF Next

\* With pauses only around a chunk in flight and a chunk size the server can
\* keep whole, what the client and the server know of each other always agrees.
THEOREM SoundAlways == ASSUME ~PauseAnytime, WholeChunks PROVE Spec => []Sound
<1>1. IInv /\ IInv' /\ Sound /\ [Next]_vars => Sound'
  BY NextSound
<1> QED
  BY InitInv, InitSound, NextInv, <1>1, PTL DEF Spec

\* Success is reported only for an upload the server has finalised and holds
\* byte for byte: for any length, granularity and slack, any retries, faults and
\* relaunches.
THEOREM UploadIsStored == ASSUME ~PauseAnytime, WholeChunks PROVE Spec => []SuccessMeansStored
<1>1. IInv /\ Sound => SuccessMeansStored
  BY DEF Sound, OkSound, ServerSound, SuccessMeansStored
<1> QED
  BY Invariance, SoundAlways, <1>1, PTL

\* Every chunk asked of the data lies inside it, for any length, granularity and
\* slack, whatever the server acknowledges and wherever a relaunch goes on from.
THEOREM ChunksStayInRange == ASSUME ~PauseAnytime, WholeChunks PROVE Spec => []ChunksInRange
<1>1. IInv /\ Sound => ChunksInRange
  <2> SUFFICES ASSUME IInv, Sound, NEW i \in DOMAIN net, net[i].kind = "chunk"
               PROVE  /\ net[i].from \in 0 .. Length /\ net[i].len >= 0
                      /\ net[i].from + net[i].len <= Length
    BY DEF ChunksInRange
  <2>1. ChunkSound(net[i], up, server) /\ net[i].from \in Int /\ net[i].len \in Int
        /\ net[i].meta \in Int
    BY DEF IInv, TypeOK, NetOK, Flights, Sound, NetSound, FlightSound
  <2> QED
    BY <2>1, UploadAssumption DEF ChunkSound
<1> QED
  BY Invariance, SoundAlways, <1>1, PTL
============================================================================
