---------------------------- MODULE UploadFetcher ----------------------------
(***************************************************************************)
(* A resumable upload by GTMSessionUploadFetcher: the initial request      *)
(* obtains a location, the data go there in chunks, and an offset query    *)
(* asks the server what it has after a failed chunk, a resume or a         *)
(* relaunch.  Every method runs on the main queue (the class is documented *)
(* as main-thread only), so a handler is one action; what interleaves are  *)
(* the network, the generation of a chunk's data on a global queue, the    *)
(* retry question a failed chunk asks, the client's pause, resume and stop,*)
(* and the termination of the app, which the background session that       *)
(* carries a chunk survives.                                               *)
(*                                                                         *)
(* A flight is a fetcher the upload created.  The server is external: it   *)
(* appends a chunk whose offset header is what it has, keeps a multiple of *)
(* the granularity of a chunk whose connection breaks, and may do so after *)
(* the client gave the request up.                                         *)
(***************************************************************************)
EXTENDS Integers, Sequences, FiniteSets

CONSTANTS
  None,
  Length,        \* bytes to upload
  ChunkSize,     \* self.chunkSize
  DemandBuffer,  \* kGTMSessionUploadFetcherMaximumDemandBufferSize
  Granularity,   \* X-Goog-Upload-Chunk-Granularity, 0 when the server has none
  Slack,         \* a last chunk may be this much too big (2500 in the code)
  PauseAnytime,  \* pause and resume come at any moment, not only around a chunk in flight
  KeepsLastByte, \* the server may hold every byte of an upload it did not finalise
  MaxFaults, MaxPauses, MaxCrashes   \* bounds

ASSUME UploadAssumption ==
  /\ Length \in Nat /\ {ChunkSize, DemandBuffer} \subseteq Nat \ {0}
  /\ Granularity \in Nat /\ Slack \in Nat
  /\ {PauseAnytime, KeepsLastByte} \subseteq BOOLEAN
  /\ {MaxFaults, MaxPauses, MaxCrashes} \subseteq Nat

VARIABLES
  up,      \* the upload fetcher
  net,     \* its flights, by slot
  server,  \* the upload as the server has it
  answers, \* calls of the client's completion handler, in order
  budget   \* faults, pauses and terminations still allowed

vars == <<up, net, server, answers, budget>>

RoundDown(n, g) == IF g = 0 THEN n ELSE n - (n % g)
Slice(from, len) == [k \in 1 .. len |-> from + k - 1]

----------------------------------------------------------------------------
(* Flights.                                                                *)

NoReply == [error |-> "none", status |-> "none", received |-> 0]
Unsent == [error |-> "failed", status |-> "none", received |-> 0]

\* uploadFetcherWithProperties:isQueryFetch:.  A fetcher's URL, and the offset in
\* the metadata of its session, are the upload's at that moment.
Flight(u, kind) ==
  [kind |-> kind, cmd |-> kind, at |-> 0, from |-> 0, len |-> 0, known |-> FALSE,
   url |-> u.location, meta |-> u.offset, retry |-> u.retry, live |-> TRUE,
   stage |-> "generating", reply |-> NoReply]

\* Without a URL the fetch fails to begin.
Begun(f) == IF f.url THEN [f EXCEPT !.stage = "sent"]
            ELSE [f EXCEPT !.stage = "replied", !.reply = Unsent]

NewSlot(n) == CHOOSE i \in 1 .. Cardinality(DOMAIN n) + 1 : i \notin DOMAIN n
With(n, i, f) == [j \in DOMAIN n \cup {i} |-> IF j = i THEN f ELSE n[j]]
AddFlight(s, f) == [s EXCEPT !.net = With(@, NewSlot(@), f)]
Without(n, I) == [i \in DOMAIN n \ I |-> n[i]]

\* stopFetching of a flight: its callbacks are gone, its request may be on its way.
StopFlight(n, i) ==
  IF i \notin DOMAIN n THEN n
  ELSE IF n[i].stage = "sent" THEN [n EXCEPT ![i].live = FALSE] ELSE Without(n, {i})

----------------------------------------------------------------------------
(* The steps the handlers are made of, on a record of up, net and answers. *)

State == [up |-> up, net |-> net, pending |-> <<>>]

DestroyChunkFetcher(s) ==
  [s EXCEPT !.net = StopFlight(@, s.up.chunk), !.up.chunk = None]

\* Mutation: the handler survives its own call.
FinalCallbackKeepsHandler(s, answer, invalidate) ==
  [s EXCEPT !.up.location = @ /\ ~invalidate,
            !.pending = IF s.up.handler THEN Append(@, answer) ELSE @]

FinalCallback(s, answer, invalidate) ==
  [up |-> [s.up EXCEPT !.location = @ /\ ~invalidate, !.handler = FALSE],
   net |-> s.net,
   pending |-> IF s.up.handler THEN Append(s.pending, answer) ELSE s.pending]

SendQuery(s) == AddFlight(s, Begun(Flight(s.up, "query")))

SendCancel(s) == AddFlight(s, Begun(Flight(s.up, "cancel")))

\* A chunk for which a block of memory is allocated.
BufferedSize == IF ChunkSize > DemandBuffer THEN DemandBuffer ELSE ChunkSize

\* self.chunkSize, bounded unless the file goes whole, as the server's granularity allows it
RoundedChunkSize(u, offset) ==
  LET size == IF u.file /\ offset = 0 /\ ChunkSize >= Length THEN ChunkSize ELSE BufferedSize
  IN IF u.granularity = 0 THEN size
     ELSE IF size < u.granularity THEN u.granularity
     ELSE RoundDown(size, u.granularity)

\* Mutation: the last chunk keeps the size of the others.
ChunkForKeepsSize(u, offset) ==
  LET size  == RoundedChunkSize(u, offset)
      left  == Length - RoundDown(offset, u.granularity)
  IN [at |-> RoundDown(offset, u.granularity), len |-> size,
      final |-> size >= left \/ left - Slack < size]

\* Mutation: only a chunk that fits exactly is the last one.
ChunkForExactOnly(u, offset) ==
  LET size  == RoundedChunkSize(u, offset)
      left  == Length - RoundDown(offset, u.granularity)
  IN [at |-> RoundDown(offset, u.granularity), len |-> size, final |-> size = left]

\* updateChunkFetcher:forChunkAtOffset: the size and the command of a chunk.
ChunkFor(u, offset) ==
  LET size  == RoundedChunkSize(u, offset)
      at    == RoundDown(offset, u.granularity)
      left  == Length - at
      final == size >= left \/ left - Slack < size
  IN [at |-> at, len |-> IF final THEN left ELSE size, final |-> final]

BeginChunkFetcher(s, i) ==
  [up |-> [s.up EXCEPT !.offset = s.net[i].from, !.chunk = i],
   net |-> [s.net EXCEPT ![i] = Begun(s.net[i])],
   pending |-> s.pending]

\* The whole file goes as it is; any other chunk's data is generated first.
UploadNext(s, offset) ==
  LET c     == ChunkFor(s.up, offset)
      whole == s.up.file /\ offset = 0 /\ c.len >= Length
      t     == AddFlight(s, [Flight(s.up, "chunk") EXCEPT
                                !.cmd = IF c.final THEN "finalize" ELSE "upload",
                                !.at = c.at, !.from = offset,
                                !.len = c.len, !.known = c.len > 0])
  IN IF whole THEN BeginChunkFetcher(t, NewSlot(s.net)) ELSE t

----------------------------------------------------------------------------
(* The completion of a chunk or a query.                                   *)

Stopped(f) == f.reply.status \in {"final", "cancelled"}
NeedsQuery(f) == ~f.known /\ ~Stopped(f)

\* A failed or doubtful chunk asks the server for the offset.
AsksOffset(u, f) ==
  \/ u.query
  \/ NeedsQuery(f) /\ f.kind # "query"
  \/ f.reply.error = "4xx" /\ f.reply.status = "active" /\ f.known

\* chunkFetcher:finishedWithData:error:, error after the checks of the caller
ChunkFinished(s, f, error) ==
  IF error # "none" \/ (NeedsQuery(f) /\ f.kind # "query")
  THEN IF AsksOffset(s.up, f)
       THEN SendQuery(DestroyChunkFetcher([s EXCEPT !.up.query = FALSE]))
       ELSE DestroyChunkFetcher(FinalCallback(s, "error", FALSE))
  ELSE IF Stopped(f) \/ (s.up.file /\ Length > 0 /\ s.up.offset > Length)
  THEN DestroyChunkFetcher(
         FinalCallback(s, IF f.reply.status = "cancelled" THEN "error" ELSE "ok", TRUE))
  ELSE LET newOffset == s.up.offset + f.len
       IN UploadNext(DestroyChunkFetcher([s EXCEPT !.up.offset = newOffset]), newOffset)

QueryFinished(s, f) ==
  LET error == IF f.reply.error = "none" /\ f.reply.status = "cancelled"
               THEN "failed" ELSE f.reply.error
  IN IF error # "none" \/ f.reply.received >= Length \/ f.reply.status = "final"
     THEN ChunkFinished(s, f, error)
     ELSE UploadNext([s EXCEPT !.up.granularity = Granularity], f.reply.received)

\* The initial fetch, its own retries included: it yields a location or an error,
\* which an answer without a location, or one that stops the upload early, is too.
StartFinished(s, f) ==
  IF f.reply.error # "none" \/ f.reply.status # "active" THEN FinalCallback(s, "error", TRUE)
  ELSE LET t == [s EXCEPT !.up.granularity = Granularity, !.up.location = TRUE]
       IN IF t.up.paused THEN t ELSE UploadNext(t, 0)

----------------------------------------------------------------------------
(* Actions.                                                                *)

Budget(k) == budget[k] > 0 /\ budget' = [budget EXCEPT ![k] = @ - 1]

\* A handler's effect; its callback goes through the queue the client named.
Handle(s) ==
  /\ up' = [s.up EXCEPT !.due = @ \o s.pending]
  /\ net' = s.net
  /\ UNCHANGED <<server, answers>>

Init ==
  /\ \E retry, file, restarted \in BOOLEAN :
       /\ up = [begun |-> FALSE, restarted |-> restarted, file |-> file, retry |-> retry,
                location |-> restarted, offset |-> 0, granularity |-> 0, chunk |-> None,
                paused |-> FALSE, query |-> FALSE, handler |-> TRUE, stopped |-> FALSE,
                due |-> <<>>, lost |-> FALSE]
       /\ IF restarted
          THEN \E n \in {k \in 0 .. Length - 1 : k = RoundDown(k, Granularity)} :
                 server = [state |-> "active", content |-> Slice(0, n)]
          ELSE server = [state |-> "none", content |-> <<>>]
  /\ net = <<>>
  /\ answers = <<>>
  /\ budget = [fault |-> MaxFaults, pause |-> MaxPauses, crash |-> MaxCrashes]

BeginFetch ==
  /\ ~up.begun /\ ~up.stopped
  /\ LET s == [State EXCEPT !.up.begun = TRUE]
     IN Handle(IF ~up.restarted
               THEN AddFlight(s, [Flight(s.up, "start") EXCEPT !.stage = "sent"])
               ELSE IF up.paused THEN s ELSE SendQuery(s))
  /\ UNCHANGED budget

\* The block that answers the retry question of a failed chunk or query: it is never retried by itself.
AskRetry(u, f) == [u EXCEPT !.query = (f.kind # "query"), !.offset = 0]

RetryBlock(i) ==
  /\ net[i].live /\ net[i].stage = "replied" /\ net[i].retry
  /\ net[i].kind \in {"chunk", "query"} /\ net[i].reply.error = "retry"
  /\ Handle([up |-> AskRetry(up, net[i]), net |-> [net EXCEPT ![i].stage = "asked"],
             pending |-> <<>>])
  /\ UNCHANGED budget

\* The base fetcher repeats an initial request that failed for a passing reason.
RetryStart(i) ==
  /\ net[i].live /\ net[i].stage = "replied" /\ net[i].retry
  /\ net[i].kind = "start" /\ net[i].reply.error = "retry"
  /\ Handle([State EXCEPT !.net = [net EXCEPT ![i].stage = "sent", ![i].reply = NoReply]])
  /\ UNCHANGED budget

Finished(i) ==
  LET f == net[i]
      s == [State EXCEPT !.net = Without(net, {i})]
  IN /\ f.live
     /\ \/ f.stage = "asked"
        \/ f.stage = "replied" /\ (f.retry => f.reply.error # "retry" \/ f.kind = "cancel")
     /\ Handle(CASE f.kind = "start" -> StartFinished(s, f)
                 [] f.kind = "query" -> QueryFinished(s, f)
                 [] f.kind = "chunk" -> ChunkFinished(s, f, f.reply.error)
                 [] OTHER            -> s)
     /\ UNCHANGED budget

\* The chunk's data is there; reading it may fail.
Generated(i) ==
  /\ net[i].stage = "generating"
  /\ Handle(BeginChunkFetcher(State, i))
  /\ UNCHANGED budget

GenerationFails(i) ==
  /\ net[i].stage = "generating"
  /\ Budget("fault")
  /\ Handle(FinalCallback([State EXCEPT !.net = Without(net, {i})], "error", TRUE))

Live(kind) == {i \in DOMAIN net : net[i].live /\ net[i].kind = kind}

Pause ==
  /\ ~up.paused /\ ~up.stopped
  /\ PauseAnytime \/ (Live("query") = {} /\ Live("chunk") \subseteq {up.chunk})
  /\ Budget("pause")
  /\ Handle(DestroyChunkFetcher([State EXCEPT !.up.paused = TRUE]))

\* Mutation: resuming waits for a chunk that is gone.
ResumeWithoutQuery ==
  /\ up.begun /\ up.paused
  /\ PauseAnytime \/ Live("start") = {}
  /\ Handle([State EXCEPT !.up.paused = FALSE])
  /\ UNCHANGED budget

Resume ==
  /\ up.begun /\ up.paused
  /\ PauseAnytime \/ Live("start") = {}
  /\ Handle(SendQuery([State EXCEPT !.up.paused = FALSE]))
  /\ UNCHANGED budget

StopFetching ==
  /\ up.begun /\ ~up.stopped
  /\ LET s == DestroyChunkFetcher(State)
         c == IF s.up.location THEN SendCancel(s) ELSE s
         starts == {i \in DOMAIN c.net : c.net[i].kind = "start"}
     IN Handle([up |-> [c.up EXCEPT !.location = FALSE, !.handler = FALSE, !.stopped = TRUE],
                net |-> [i \in DOMAIN c.net |-> [c.net[i] EXCEPT !.live = @ /\ i \notin starts]],
                pending |-> c.pending])
  /\ UNCHANGED budget

\* invokeOnCallbackQueue: the block runs unless the fetch was stopped meanwhile.
Deliver ==
  /\ up.due # <<>>
  /\ up' = [up EXCEPT !.due = Tail(@)]
  /\ answers' = IF up.stopped THEN answers ELSE Append(answers, Head(up.due))
  /\ UNCHANGED <<net, server, budget>>

\* The app is terminated and launched again.  The chunk in a background session
\* goes on; the upload fetcher is made anew from the session's metadata, with
\* retries off, and the client attaches its handler.  Without such a chunk the
\* upload is gone.  Bound: at most one chunk is in a background session.
Persisted == {i \in DOMAIN net : /\ up.file /\ net[i].live /\ net[i].kind = "chunk"
                                 /\ net[i].stage \in {"sent", "replied", "asked"}}

\* A request that goes on without the app, and the upload fetcher made anew.
Orphan(f, taken, known) ==
  [f EXCEPT !.live = taken, !.retry = FALSE, !.known = @ /\ known,
            !.stage = IF @ = "asked" THEN "replied" ELSE @]

Restored(u, chunk, offset) ==
  [u EXCEPT !.location = chunk # None, !.restarted = TRUE, !.offset = offset,
            !.granularity = 0, !.query = FALSE, !.retry = FALSE, !.chunk = chunk,
            !.paused = FALSE, !.handler = chunk # None, !.due = <<>>, !.lost = chunk = None]

Relaunch ==
  /\ up.begun /\ ~up.lost /\ answers = <<>> /\ ~up.stopped
  /\ Cardinality(Persisted) <= 1
  /\ Budget("crash")
  /\ \E known \in BOOLEAN :
       net' = [i \in {j \in DOMAIN net : net[j].stage = "sent" \/ j \in Persisted} |->
                 Orphan(net[i], i \in Persisted, known)]
  /\ \/ Persisted = {} /\ up' = Restored(up, None, 0)
     \/ \E i \in Persisted : up' = Restored(up, i, net[i].meta)
  /\ UNCHANGED <<server, answers>>

----------------------------------------------------------------------------
(* The network and the server (external).                                  *)

Received == Len(server.content)

\* What the server keeps of a chunk: all of it, or a part when the connection breaks.
Kept(f, n) == [server EXCEPT !.content = @ \o Slice(f.from, n)]

Result(sv, error) == [error |-> error, status |-> sv.state, received |-> Len(sv.content)]

Replied(n, i, r) == [n EXCEPT ![i] = [n[i] EXCEPT !.stage = "replied", !.reply = r]]

Processed(f) ==
  CASE f.kind = "start"  -> [sv |-> [state |-> "active", content |-> <<>>], error |-> "none"]
    [] f.kind = "query"  -> [sv |-> server, error |-> "none"]
    [] f.kind = "cancel" -> [sv |-> [server EXCEPT !.state = IF @ = "active" THEN "cancelled" ELSE @],
                             error |-> "none"]
    [] OTHER ->
         IF server.state # "active" \/ f.at # Received
         THEN [sv |-> server, error |-> "4xx"]
         ELSE IF f.cmd = "finalize"
         THEN [sv |-> [Kept(f, f.len) EXCEPT !.state = "final"], error |-> "none"]
         ELSE [sv |-> Kept(f, RoundDown(f.len, Granularity)), error |-> "none"]

Serve(i) ==
  LET p == Processed(net[i])
  IN /\ net[i].stage = "sent"
     /\ server' = p.sv
     /\ net' = IF net[i].live
               THEN Replied(net, i, Result(p.sv, p.error))
               ELSE Without(net, {i})
     /\ UNCHANGED <<up, answers, budget>>

Lost == {[NoReply EXCEPT !.error = e] : e \in {"retry", "failed"}}
Refused(f) == IF f.kind = "start" THEN {[NoReply EXCEPT !.status = s] : s \in {"none", "cancelled"}}
              ELSE {}

\* The request, a part of its body, or the answer to it is lost; the client
\* sees an error worth a retry, or one that is not.  Or the server refuses an
\* upload: it names no location, or says it is stopped.
Fail(i) ==
  LET f == net[i]
      parts == {n \in 0 .. f.len : /\ n = RoundDown(n, Granularity)
                                   /\ Received + n < Length \/ KeepsLastByte}
      broken == IF f.kind = "chunk" /\ server.state = "active" /\ f.at = Received
                THEN {Kept(f, n) : n \in parts} ELSE {}
  IN /\ f.stage = "sent" /\ f.live
     /\ Budget("fault")
     /\ server' \in {server, Processed(f).sv} \cup broken
     /\ \E r \in Lost \cup Refused(f) : net' = Replied(net, i, r)
     /\ UNCHANGED <<up, answers>>

\* A request the client gave up need not reach the server.
Drop(i) ==
  /\ net[i].stage = "sent" /\ ~net[i].live
  /\ net' = Without(net, {i})
  /\ UNCHANGED <<up, server, answers, budget>>

Next ==
  \/ BeginFetch \/ Pause \/ Resume \/ StopFetching \/ Deliver \/ Relaunch
  \/ \E i \in DOMAIN net : \/ RetryBlock(i) \/ RetryStart(i) \/ Finished(i)
                           \/ Generated(i) \/ GenerationFails(i)
                           \/ Serve(i) \/ Fail(i) \/ Drop(i)

\* The main queue runs its blocks, chunk data is produced, and a request is
\* answered or fails.  The client need not pause, resume, stop or begin.
Progress ==
  \/ Deliver
  \/ \E i \in DOMAIN net : \/ RetryBlock(i) \/ RetryStart(i) \/ Finished(i)
                           \/ Generated(i) \/ Serve(i)

Spec == Init /\ [][Next]_vars /\ WF_vars(Progress)

----------------------------------------------------------------------------
(* Properties.                                                             *)

Answer == {"ok", "error"}

Upload ==
  [begun : BOOLEAN, restarted : BOOLEAN, file : BOOLEAN, retry : BOOLEAN, location : BOOLEAN,
   offset : Int, granularity : Nat, chunk : Nat \cup {None}, paused : BOOLEAN, query : BOOLEAN,
   handler : BOOLEAN, stopped : BOOLEAN, due : Seq(Answer), lost : BOOLEAN]

Reply == [error : {"none", "retry", "failed", "4xx"},
          status : {"none", "active", "final", "cancelled"}, received : Nat]

Flights ==
  [kind : {"start", "query", "cancel", "chunk"},
   cmd : {"start", "query", "cancel", "chunk", "upload", "finalize"},
   at : Int, from : Int, len : Int, known : BOOLEAN, url : BOOLEAN, meta : Int,
   retry : BOOLEAN, live : BOOLEAN, stage : {"generating", "sent", "replied", "asked"},
   reply : Reply]

\* The slots in use are finitely many, and each holds a flight.
NetOK(n) ==
  /\ DOMAIN n \subseteq Nat \ {0} /\ IsFiniteSet(DOMAIN n)
  /\ n \in [DOMAIN n -> Flights]

\* Every variable keeps its type.
TypeOK ==
  /\ up \in Upload
  /\ NetOK(net)
  /\ server \in [state : {"none", "active", "final", "cancelled"}, content : Seq(Int)]
  /\ answers \in Seq(Answer)
  /\ budget \in [{"fault", "pause", "crash"} -> Nat]

\* Success is reported only for an upload the server has finalised and holds
\* byte for byte, whatever was retried, resumed or taken up after a relaunch.
SuccessMeansStored ==
  (\E k \in 1 .. Len(answers) : answers[k] = "ok") =>
    server.state = "final" /\ server.content = Slice(0, Length)

\* Every chunk asked of the data lies inside it, as the assertion of
\* updateChunkFetcher wants: anything else raises a range exception.
ChunksInRange ==
  \A i \in DOMAIN net : net[i].kind = "chunk" =>
    net[i].from \in 0 .. Length /\ net[i].len >= 0 /\ net[i].from + net[i].len <= Length

\* invokeFinalCallbackWithData: takes the handler away, so it is called at most
\* once, whichever of chunk, query, stop and failure comes to it first.
OneAnswer == Len(answers) + Len(up.due) <= 1

\* An upload ends: it is answered unless the client paused or stopped it, or a
\* termination left no chunk in a background session.
UploadEnds == up.begun ~> (answers # <<>> \/ up.paused \/ up.stopped \/ up.lost)
=============================================================================
