------------------------ MODULE FetcherServiceProofs ------------------------
(***************************************************************************)
(* Proofs about FetcherService, for any fetchers, hosts, limits and bounds:*)
(* a completion handler is called at most once, a host never has more than *)
(* maxRunningFetchersPerHost requests under way, and no request is made in *)
(* a session that was invalidated.                                         *)
(*                                                                         *)
(* The argument follows a fetch from place to place: a frame of a thread,  *)
(* an event of the delegate queue, a block of the main queue, a task, the  *)
(* list of delayed fetchers, a timer, the authoriser.  It is never at two. *)
(***************************************************************************)
EXTENDS FetcherService, TLAPS, FiniteSetTheorems, SequenceTheorems

----------------------------------------------------------------------------
(* The inductive invariant.                                                *)

Op == {"begin", "create", "admit", "admitted", "delayed", "launch", "fail", "stop", "didStop",
       "unhost", "again"}
FrameType ==
  [op : Op, f : Fetcher, delay : BOOLEAN, auth : BOOLEAN]
    \cup [op : {"discard"}, f : {None}, delay : Nat, auth : {FALSE}]
EventType == [op : {"complete", "retry"}, f : Fetcher, task : Nat \cup {None},
              outcome : {"ok", "retry", "fail", "cancel", "none"}]
BlockType == [op : {"call", "arm"}, f : Fetcher]
FetcherType ==
  [refused : BOOLEAN, begun : BOOLEAN, stopped : BOOLEAN, barred : BOOLEAN,
   task : Nat \cup {None}, session : Nat \cup {None}, host : BOOLEAN, handler : BOOLEAN,
   timer : BOOLEAN, retries : Nat, asking : BOOLEAN]
TaskMap == UNION {[D -> Fetcher] : D \in SUBSET Nat}

ServiceType ==
  [running : [Host -> SUBSET Fetcher], delayed : [Host -> Seq(Fetcher)], semaphore : BOOLEAN]
DispType == [session : Nat \cup {None}, map : TaskMap, timer : Nat \cup {None}, next : Nat]
NetType == [tasks : TaskMap, next : Nat, invalid : SUBSET Nat, dead : SUBSET Fetcher]
StackType == [Thread -> Seq(FrameType)]

\* Type correctness; no host has more fetchers running than it may.
TypeOK ==
  /\ fetcher \in [Fetcher -> FetcherType]
  /\ service \in ServiceType
  /\ \A h \in Host : Cardinality(service.running[h]) <= MaxRunning
  /\ disp \in DispType /\ net \in NetType /\ stack \in StackType
  /\ delegateQ \in Seq(EventType) /\ mainQ \in Seq(BlockType)
  /\ calls \in [Fetcher -> Nat] /\ events \in Nat

\* The places of a fetch.  Those that have a position are given by one; the others
\* have position 0.
Carries == {"begin", "create", "admit", "admitted", "launch", "again", "fail"}
FrameAt(s, f, t, n) == t \in Thread /\ n \in DOMAIN s[t] /\ s[t][n].f = f /\ s[t][n].op \in Carries
EventAt(q, f, n) == n \in DOMAIN q /\ q[n].f = f
BlockAt(q, op, f, n) == n \in DOMAIN q /\ q[n].f = f /\ q[n].op = op
TaskAt(m, f, n) == n \in DOMAIN m /\ m[n] = f
DelayedAt(d, f, n) == n \in DOMAIN d[HostOf[f]] /\ d[HostOf[f]][n] = f
FlagAt(r, p, n) ==
  /\ n = 0
  /\ (p = "new" /\ ~r.begun) \/ (p = "asking" /\ r.asking) \/ (p = "timer" /\ r.timer)

At(f, p, n) ==
  \/ FrameAt(stack, f, p, n)
  \/ p = "event" /\ EventAt(delegateQ, f, n)
  \/ p = "arm" /\ BlockAt(mainQ, "arm", f, n)
  \/ p = "task" /\ TaskAt(net.tasks, f, n)
  \/ p = "delayed" /\ DelayedAt(service.delayed, f, n)
  \/ FlagAt(fetcher[f], p, n)

Place == Thread \cup {"event", "arm", "task", "delayed", "new", "asking", "timer"}
Nowhere(f) == \A p \in Place, n \in Nat : ~At(f, p, n)

\* A fetch is at one place at most.
OnePlace(f) == \A p, r \in Place, m, n \in Nat : At(f, p, m) /\ At(f, r, n) => p = r /\ m = n
Places == \A f \in Fetcher : OnePlace(f)

\* A task that a fetcher, or an event of the delegate queue, names is the fetcher's;
\* a fetcher waits in the list of its host.
Owner(f, k) == k \in Nat /\ k < net.next /\ (k \in DOMAIN net.tasks => net.tasks[k] = f)
TaskOwned(f) == fetcher[f].task # None => Owner(f, fetcher[f].task)
EventOwned(e) == e.op = "complete" => Owner(e.f, e.task)
ListOwned(h) == \A n \in DOMAIN service.delayed[h] : HostOf[service.delayed[h][n]] = h
TasksNumbered == \A k \in DOMAIN net.tasks : k < net.next
Owners ==
  /\ TasksNumbered
  /\ \A f \in Fetcher : TaskOwned(f)
  /\ \A n \in DOMAIN delegateQ : EventOwned(delegateQ[n])
  /\ \A h \in Host : ListOwned(h)

\* The delegate queue answered the fetch and is about to stop it.
Ending(f) ==
  /\ stack["delegate"] # <<>> /\ Head(stack["delegate"]) = Stop(f, TRUE)
  /\ Nowhere(f)

\* One call of the handler is made or under way, and then there is no handler any more.
CallAt(f, n) == BlockAt(mainQ, "call", f, n)
AnswerOK(f) ==
  /\ calls[f] <= 1
  /\ \A m, n \in Nat : CallAt(f, m) /\ CallAt(f, n) => m = n
  /\ \A n \in Nat : CallAt(f, n) => calls[f] = 0
  /\ (calls[f] = 1 \/ \E n \in Nat : CallAt(f, n)) => ~fetcher[f].handler \/ Ending(f)
Answers == \A f \in Fetcher : AnswerOK(f)

\* A request is under way, or will be without asking for a slot again.
HoldsFrame(x) ==
  \/ x.op \in {"admitted", "launch"}
  \/ x.op \in {"begin", "create", "admit"} /\ ~x.delay
SlotFrame(s, f) == \E t \in Thread, n \in Nat : FrameAt(s, f, t, n) /\ HoldsFrame(s[t][n])
SlotTask(m, f) == \E n \in Nat : TaskAt(m, f, n)
Holds(f) == SlotFrame(stack, f) \/ SlotTask(net.tasks, f) \/ fetcher[f].asking

\* It has its slot.  The slot is given up by a fetch that is over, or is to be
\* tried again after that.
StopAt(f, t, n) == n \in DOMAIN stack[t] /\ stack[t][n].f = f /\ stack[t][n].op \in {"stop", "didStop"}
AgainAt(f, t, n) == FrameAt(stack, f, t, n) /\ stack[t][n].op = "again"
Parked(f, t, n) == Nowhere(f) \/ \E m \in Nat : n < m /\ AgainAt(f, t, m)
Parks(f) == \A t \in Thread, n \in Nat : StopAt(f, t, n) => Parked(f, t, n)
SlotOK(f) ==
  ~fetcher[f].stopped =>
    /\ Holds(f) => f \in service.running[HostOf[f]]
    /\ Parks(f)
Slots == \A f \in Fetcher : SlotOK(f)

\* The inductive invariant, without and with the part about slots.
FetchInv == TypeOK /\ Places /\ Owners /\ Answers
Inv == FetchInv /\ Slots

----------------------------------------------------------------------------
(* How a fetch moves.                                                      *)

\* A queue or a stack, q, gave up its head, and what was there may have gone to position
\* k of d; or the fetch may have gone from position j of q to position k of d.
Follows(f, q, d, k) ==
  \A p \in Place, n \in Nat : At(f, p, n)' =>
    \/ p # q /\ At(f, p, n)
    \/ p = q /\ n >= 1 /\ At(f, q, n + 1)
    \/ p = d /\ n = k /\ At(f, q, 1)
Leaves(f, q) ==
  \A p \in Place, n \in Nat : At(f, p, n)' =>
    \/ p # q /\ At(f, p, n)
    \/ p = q /\ n >= 1 /\ At(f, q, n + 1)
Moves(f, q, j, d, k) ==
  \A p \in Place, n \in Nat : At(f, p, n)' =>
    \/ At(f, p, n) /\ ~(p = q /\ n = j)
    \/ p = d /\ n = k /\ At(f, q, j)

\* The head of q goes to d, or away.
LEMMA Popped ==
  ASSUME NEW f \in Fetcher, OnePlace(f), NEW q \in Place, NEW d \in Place, NEW k \in Nat,
         Follows(f, q, d, k)
  PROVE  OnePlace(f)' /\ (Nowhere(f) => Nowhere(f)')
<1> USE DEF Follows
<1>1. ASSUME NEW p \in Place, NEW r \in Place, NEW m \in Nat, NEW n \in Nat,
             At(f, p, m)', At(f, r, n)'
      PROVE  p = r /\ m = n
  BY <1>1 DEF OnePlace
<1>2. Nowhere(f) => Nowhere(f)'
  BY DEF Nowhere
<1>3. QED
  BY <1>1, <1>2 DEF OnePlace

\* A fetch goes from a position of q to d.
LEMMA Moved ==
  ASSUME NEW f \in Fetcher, OnePlace(f), NEW q \in Place, NEW j \in Nat,
         NEW d \in Place, NEW k \in Nat, Moves(f, q, j, d, k)
  PROVE  OnePlace(f)' /\ (Nowhere(f) => Nowhere(f)')
<1> USE DEF Moves
<1>1. ASSUME NEW p \in Place, NEW r \in Place, NEW m \in Nat, NEW n \in Nat,
             At(f, p, m)', At(f, r, n)'
      PROVE  p = r /\ m = n
  BY <1>1 DEF OnePlace
<1>2. Nowhere(f) => Nowhere(f)'
  BY DEF Nowhere
<1>3. QED
  BY <1>1, <1>2 DEF OnePlace

\* No fetch comes to a place it was not at.
LEMMA Stayed ==
  ASSUME NEW f \in Fetcher, OnePlace(f), \A p \in Place, n \in Nat : At(f, p, n)' => At(f, p, n)
  PROVE  OnePlace(f)' /\ (Nowhere(f) => Nowhere(f)')
<1>1. ASSUME NEW p \in Place, NEW r \in Place, NEW m \in Nat, NEW n \in Nat,
             At(f, p, m)', At(f, r, n)'
      PROVE  p = r /\ m = n
  BY <1>1 DEF OnePlace
<1>2. Nowhere(f) => Nowhere(f)'
  BY DEF Nowhere
<1>3. QED
  BY <1>1, <1>2 DEF OnePlace

----------------------------------------------------------------------------
(* Frames and queues.                                                      *)

\* A sequence with an element more.
LEMMA Appended ==
  ASSUME NEW S, NEW q \in Seq(S), NEW x \in S, NEW r, r = Append(q, x)
  PROVE  /\ r \in Seq(S)
         /\ DOMAIN r = DOMAIN q \cup {Len(q) + 1} /\ r[Len(q) + 1] = x /\ Len(q) \in Nat
         /\ Len(q) + 1 \notin DOMAIN q
         /\ \A n \in DOMAIN q : r[n] = q[n]
<1>1. r \in Seq(S) /\ Len(r) = Len(q) + 1 /\ r[Len(q) + 1] = x /\ \A n \in 1 .. Len(q) : r[n] = q[n]
  BY AppendProperties
<1>2. DOMAIN q = 1 .. Len(q) /\ DOMAIN r = 1 .. Len(r) /\ Len(q) \in Nat
  BY <1>1, LenProperties
<1>3. QED
  BY <1>1, <1>2

\* A sequence without its head.
LEMMA Consumed ==
  ASSUME NEW S, NEW q \in Seq(S), q # <<>>, NEW r, r = Tail(q)
  PROVE  /\ r \in Seq(S) /\ Head(q) = q[1] /\ 1 \in DOMAIN q /\ q[1] \in S
         /\ \A n \in DOMAIN r : n >= 1 /\ n + 1 \in DOMAIN q /\ r[n] = q[n + 1]
<1>1. r \in Seq(S) /\ Len(r) = Len(q) - 1 /\ Head(q) \in S
      /\ \A n \in 1 .. Len(q) - 1 : r[n] = q[n + 1]
  BY HeadTailProperties
<1>2. Len(q) \in Nat \ {0} /\ DOMAIN q = 1 .. Len(q) /\ DOMAIN r = 1 .. Len(r)
  BY <1>1, EmptySeq, LenProperties
<1>3. Head(q) = q[1]
  BY <1>2
<1>4. QED
  BY <1>1, <1>2, <1>3

\* The frame that runs belongs to a fetcher.
Working == [op : Op, f : Fetcher, delay : BOOLEAN, auth : BOOLEAN]
\* The frame a thread runs is of a fetcher.
LEMMA Running ==
  ASSUME TypeOK, NEW t \in Thread, NEW op, Top(t, op), op # "discard"
  PROVE  /\ Head(stack[t]) \in Working /\ Head(stack[t]).op = op
         /\ stack \in StackType /\ stack[t] # <<>> /\ Head(stack[t]) = stack[t][1] /\ 1 \in DOMAIN stack[t]
<1>1. stack[t] \in Seq(FrameType) /\ stack[t] # <<>> /\ Head(stack[t]).op = op
  BY DEF TypeOK, Top, StackType
<1>2. Head(stack[t]) = stack[t][1] /\ 1 \in DOMAIN stack[t] /\ stack[t][1] \in FrameType
  BY <1>1, Consumed
<1>3. QED
  BY <1>1, <1>2 DEF FrameType, Working, StackType, TypeOK

\* setFetcher:forTask: and its inverse keep the type of a task map.
LEMMA MapsKeepTheirType ==
  ASSUME NEW m \in TaskMap
  PROVE  /\ \A k \in Nat, f \in Fetcher : Put(m, k, f) \in TaskMap
         /\ \A S : Drop(m, S) \in TaskMap
         /\ Empty \in TaskMap
         /\ \A k \in DOMAIN m : m[k] \in Fetcher /\ k \in Nat
<1>1. PICK D \in SUBSET Nat : m \in [D -> Fetcher]
  BY DEF TaskMap
<1>2. ASSUME NEW k \in Nat, NEW f \in Fetcher PROVE Put(m, k, f) \in TaskMap
  <2>1. Put(m, k, f) \in [D \cup {k} -> Fetcher]
    BY <1>1 DEF Put
  <2>2. QED
    BY <2>1 DEF TaskMap
<1>3. ASSUME NEW S PROVE Drop(m, S) \in TaskMap
  <2>1. Drop(m, S) \in [D \ S -> Fetcher] /\ D \ S \in SUBSET Nat
    BY <1>1 DEF Drop
  <2>2. QED
    BY <2>1 DEF TaskMap
<1>4. Empty \in [{} -> Fetcher] /\ {} \in SUBSET Nat
  BY DEF Empty
<1>5. Empty \in TaskMap
  BY <1>4 DEF TaskMap
<1>6. QED
  BY <1>1, <1>2, <1>3, <1>5

\* What is in a task map after an entry was made or dropped.
LEMMA TaskMapsAfter ==
  ASSUME NEW m \in TaskMap, NEW g \in Fetcher, NEW n \in Nat
  PROVE  /\ \A k \in Nat, f \in Fetcher : TaskAt(Put(m, k, f), g, n) => TaskAt(m, g, n) \/ (n = k /\ g = f)
         /\ \A S : TaskAt(Drop(m, S), g, n) <=> TaskAt(m, g, n) /\ n \notin S
  BY DEF TaskAt, Put, Drop

----------------------------------------------------------------------------
(* Type correctness.                                                       *)

\* The frame that runs is replaced by another one, or is done.
LEMMA Swap ==
  ASSUME TypeOK, NEW t \in Thread, stack[t] # <<>>, NEW x \in FrameType, Replace(t, <<x>>)
  PROVE  /\ stack' \in StackType
         /\ \A p \in Thread : p # t => stack'[p] = stack[p]
         /\ 1 \in DOMAIN stack[t] /\ DOMAIN stack'[t] = DOMAIN stack[t]
         /\ stack'[t] # <<>> /\ Head(stack'[t]) = x
         /\ \A n \in DOMAIN stack'[t] : stack'[t][n] = IF n = 1 THEN x ELSE stack[t][n]
<1>1. stack[t] \in Seq(FrameType) /\ <<x>> \in Seq(FrameType)
  BY DEF StackType, TypeOK
<1>2. Tail(stack[t]) \in Seq(FrameType) /\ Len(Tail(stack[t])) = Len(stack[t]) - 1
      /\ \A n \in 1 .. Len(stack[t]) - 1 : Tail(stack[t])[n] = stack[t][n + 1]
  BY <1>1, HeadTailProperties
<1>3. stack'[t] = <<x>> \o Tail(stack[t])
  BY DEF StackType, TypeOK, Replace
<1>4. stack'[t] \in Seq(FrameType)
  BY <1>1, <1>2, <1>3, ConcatProperties
<1>5. Len(stack'[t]) = Len(stack[t]) /\ Len(stack[t]) \in Nat \ {0}
  BY <1>1, <1>2, <1>3, ConcatProperties, EmptySeq
<1>6. \A n \in 1 .. Len(stack[t]) : stack'[t][n] = IF n = 1 THEN x ELSE stack[t][n]
  BY <1>1, <1>2, <1>3, <1>5
<1>7. QED
  BY <1>1, <1>4, <1>5, <1>6, LenProperties DEF StackType, TypeOK, Replace

\* A frame ends; those below it move up.
LEMMA Done ==
  ASSUME TypeOK, NEW t \in Thread, stack[t] # <<>>, Replace(t, <<>>)
  PROVE  /\ stack' \in StackType
         /\ \A p \in Thread : p # t => stack'[p] = stack[p]
         /\ \A n \in DOMAIN stack'[t] :
              n >= 1 /\ n + 1 \in DOMAIN stack[t] /\ stack'[t][n] = stack[t][n + 1]
         /\ \A n \in DOMAIN stack[t] : n = 1 \/ n - 1 \in DOMAIN stack'[t]
         /\ 1 \in DOMAIN stack[t]
<1>1. stack[t] \in Seq(FrameType)
  BY DEF StackType, TypeOK
<1>2. Tail(stack[t]) \in Seq(FrameType) /\ Len(Tail(stack[t])) = Len(stack[t]) - 1
      /\ \A n \in 1 .. Len(stack[t]) - 1 : Tail(stack[t])[n] = stack[t][n + 1]
  BY <1>1, HeadTailProperties
<1>3. stack'[t] = Tail(stack[t])
  BY <1>2, ConcatEmptySeq DEF StackType, TypeOK, Replace
<1>4. Len(stack[t]) \in Nat \ {0}
  BY <1>1, EmptySeq
<1>5. QED
  BY <1>1, <1>2, <1>3, <1>4, LenProperties DEF StackType, TypeOK, Replace

\* An idle thread gets a frame.
LEMMA Push ==
  ASSUME TypeOK, NEW t \in Thread, Idle(t), NEW x \in FrameType, stack' = [stack EXCEPT ![t] = <<x>>]
  PROVE  /\ stack' \in StackType
         /\ \A p \in Thread : p # t => stack'[p] = stack[p]
         /\ DOMAIN stack[t] = {} /\ DOMAIN stack'[t] = {1}
         /\ stack'[t] # <<>> /\ Head(stack'[t]) = x /\ stack'[t][1] = x
<1>1. stack'[t] = <<x>> /\ <<x>> \in Seq(FrameType) /\ stack[t] = <<>>
  BY DEF StackType, TypeOK, Idle
<1>2. QED
  BY <1>1 DEF StackType, TypeOK

\* Short lists are sequences.
LEMMA Listed ==
  ASSUME NEW S
  PROVE  <<>> \in Seq(S) /\ \A x, y \in S : <<x>> \in Seq(S) /\ <<x, y>> \in Seq(S)
OBVIOUS

\* The frames the code makes are frames.
LEMMA FrameTypes ==
  /\ \A f \in Fetcher, a, b \in BOOLEAN : Begin(f, a, b) \in Working
  /\ \A f \in Fetcher, op \in Op : Frame(op, f) \in Working
  /\ \A f \in Fetcher, a \in BOOLEAN : Stop(f, a) \in Working
  /\ \A x \in Working, op \in Op : [x EXCEPT !.op = op] \in Working
  /\ Working \subseteq FrameType
BY DEF Begin, Frame, Stop, Working, FrameType, Op

\* The fields of the frames the code makes.
LEMMA FrameFields ==
  /\ \A x \in Working : \A op : [x EXCEPT !.op = op].op = op /\ [x EXCEPT !.op = op].f = x.f
                                 /\ [x EXCEPT !.op = op].delay = x.delay
  /\ \A f, op : Frame(op, f).op = op /\ Frame(op, f).f = f /\ Frame(op, f).delay = FALSE
  /\ \A f, a, b : Begin(f, a, b).op = "begin" /\ Begin(f, a, b).f = f /\ Begin(f, a, b).delay = a
  /\ \A f, a : Stop(f, a).op = "stop" /\ Stop(f, a).f = f /\ Stop(f, a).delay = a
BY DEF Begin, Frame, Stop, Working

\* The callback queue gets blocks.
LEMMA AnsweredType ==
  ASSUME TypeOK, NEW f \in Fetcher
  PROVE  Answered(f) \in Seq(BlockType) /\ \A b \in BOOLEAN : Notified(f, b) \in Seq(BlockType)
<1>1. mainQ \in Seq(BlockType) /\ [op |-> "call", f |-> f] \in BlockType /\ [op |-> "arm", f |-> f] \in BlockType
  BY DEF TypeOK, BlockType
<1>2. Append(mainQ, [op |-> "call", f |-> f]) \in Seq(BlockType) /\ Append(mainQ, [op |-> "arm", f |-> f]) \in Seq(BlockType)
  BY <1>1, AppendProperties
<1>3. QED
  BY <1>1, <1>2 DEF Answered, Notified

\* The steps of beginFetchMayDelay: that need no more than the frame keep the types.
LEMMA BeginningTypes ==
  ASSUME TypeOK, NEW t \in Thread,
         BeginFetch(t) \/ CreateSession(t) \/ NoteHost(t) \/ FailToBegin(t)
           \/ ClearHost(t) \/ BeginForRetry(t)
  PROVE  TypeOK'
<1> DEFINE x == Head(stack[t])
<1>1. CASE BeginFetch(t)
  <2>1. x \in Working /\ stack \in StackType /\ stack[t] # <<>>
    BY <1>1, Running DEF BeginFetch
  <2>2. x.f \in Fetcher /\ fetcher[x.f] \in FetcherType
    BY <2>1 DEF Working, TypeOK
  <2>3. PICK y \in FrameType : Replace(t, <<y>>)
    BY <1>1, <2>1, <2>2, FrameTypes DEF BeginFetch, Op
  <2>4. stack' \in StackType
    BY <2>1, <2>3, Swap
  <2>5. service' \in ServiceType /\ service'.running = service.running
    BY <1>1, <2>2 DEF BeginFetch, TypeOK, ServiceType
  <2>6. disp' \in DispType
    BY <1>1, <2>2, MapsKeepTheirType DEF BeginFetch, TypeOK, DispType
  <2>7. fetcher' \in [Fetcher -> FetcherType]
    <3>1. [fetcher[x.f] EXCEPT !.session = disp.session] \in FetcherType
      BY <2>1, <2>2 DEF FetcherType, Working, TypeOK, DispType, NetType
    <3>2. QED
      BY <1>1, <2>2, <3>1 DEF BeginFetch, TypeOK
  <2>8. QED
    BY <1>1, <2>4, <2>5, <2>6, <2>7 DEF BeginFetch, TypeOK, StackType
<1>2. CASE CreateSession(t)
  <2>1. x \in Working /\ stack \in StackType /\ stack[t] # <<>>
    BY <1>2, Running DEF CreateSession
  <2>2. x.f \in Fetcher /\ fetcher[x.f] \in FetcherType
    BY <2>1 DEF Working, TypeOK
  <2>3. PICK y \in FrameType : Replace(t, <<y>>)
    BY <1>2, <2>1, <2>2, FrameTypes DEF CreateSession, Op
  <2>4. stack' \in StackType
    BY <2>1, <2>3, Swap
  <2>5. service' \in ServiceType /\ service'.running = service.running
    BY <1>2, <2>2 DEF CreateSession, TypeOK, ServiceType
  <2>6. disp' \in DispType
    <3>1. disp \in DispType /\ disp.next \in Nat /\ disp.next + 1 \in Nat
      BY DEF TypeOK, DispType
    <3>2. disp' = [disp EXCEPT !.session = disp.next, !.next = disp.next + 1]
      BY <1>2 DEF CreateSession
    <3>3. QED
      BY <3>1, <3>2 DEF DispType
  <2>7. fetcher' \in [Fetcher -> FetcherType]
    <3>1. [fetcher[x.f] EXCEPT !.session = disp.next] \in FetcherType
      BY <2>1, <2>2 DEF FetcherType, Working, TypeOK, DispType, NetType
    <3>2. QED
      BY <1>2, <2>2, <3>1 DEF CreateSession, TypeOK
  <2>8. QED
    BY <1>2, <2>4, <2>5, <2>6, <2>7 DEF CreateSession, TypeOK, StackType
<1>3. CASE NoteHost(t)
  <2>1. x \in Working /\ stack \in StackType /\ stack[t] # <<>>
    BY <1>3, Running DEF NoteHost
  <2>2. x.f \in Fetcher /\ fetcher[x.f] \in FetcherType
    BY <2>1 DEF Working, TypeOK
  <2>3. (\E y \in FrameType : Replace(t, <<y>>)) \/ Replace(t, <<>>)
    BY <1>3, <2>1, <2>2, FrameTypes DEF NoteHost, Op
  <2>4. stack' \in StackType
    BY <2>1, <2>3, Swap, Done
  <2>5. fetcher' \in [Fetcher -> FetcherType]
    <3>1. [fetcher[x.f] EXCEPT !.host = TRUE, !.session = IF x.op = "delayed" THEN None ELSE @] \in FetcherType
      BY <2>1, <2>2 DEF FetcherType, Working, TypeOK, DispType, NetType
    <3>2. QED
      BY <1>3, <2>2, <3>1 DEF NoteHost, TypeOK
  <2>6. QED
    BY <1>3, <2>4, <2>5 DEF NoteHost, TypeOK, StackType
<1>4. CASE FailToBegin(t)
  <2>1. x \in Working /\ stack \in StackType /\ stack[t] # <<>>
    BY <1>4, Running DEF FailToBegin
  <2>2. x.f \in Fetcher /\ fetcher[x.f] \in FetcherType
    BY <2>1 DEF Working, TypeOK
  <2>3. PICK y \in FrameType : Replace(t, <<y>>)
    BY <1>4, <2>1, <2>2, FrameTypes DEF FailToBegin, Op
  <2>4. stack' \in StackType
    BY <2>1, <2>3, Swap
  <2>5. mainQ' \in Seq(BlockType)
    BY <1>4, <2>2, AnsweredType DEF FailToBegin
  <2>6. fetcher' \in [Fetcher -> FetcherType]
    <3>1. [fetcher[x.f] EXCEPT !.handler = FALSE] \in FetcherType
      BY <2>1, <2>2 DEF FetcherType, Working, TypeOK, DispType, NetType
    <3>2. QED
      BY <1>4, <2>2, <3>1 DEF FailToBegin, TypeOK
  <2>7. QED
    BY <1>4, <2>4, <2>5, <2>6 DEF FailToBegin, TypeOK, StackType
<1>5. CASE ClearHost(t)
  <2>1. x \in Working /\ stack \in StackType /\ stack[t] # <<>>
    BY <1>5, Running DEF ClearHost
  <2>2. x.f \in Fetcher /\ fetcher[x.f] \in FetcherType
    BY <2>1 DEF Working, TypeOK
  <2>4. stack' \in StackType
    BY <1>5, <2>1, Done DEF ClearHost
  <2>5. fetcher' \in [Fetcher -> FetcherType]
    <3>1. [fetcher[x.f] EXCEPT !.host = FALSE] \in FetcherType
      BY <2>1, <2>2 DEF FetcherType, Working, TypeOK, DispType, NetType
    <3>2. QED
      BY <1>5, <2>2, <3>1 DEF ClearHost, TypeOK
  <2>6. QED
    BY <1>5, <2>4, <2>5 DEF ClearHost, TypeOK, StackType
<1>6. CASE BeginForRetry(t)
  <2>1. x \in Working /\ stack \in StackType /\ stack[t] # <<>>
    BY <1>6, Running DEF BeginForRetry
  <2>2. x.f \in Fetcher /\ fetcher[x.f] \in FetcherType
    BY <2>1 DEF Working, TypeOK
  <2>3. PICK y \in FrameType : Replace(t, <<y>>)
    BY <1>6, <2>1, <2>2, FrameTypes DEF BeginForRetry, Op
  <2>4. stack' \in StackType
    BY <2>1, <2>3, Swap
  <2>5. fetcher' \in [Fetcher -> FetcherType]
    <3>1. [fetcher[x.f] EXCEPT !.session = None] \in FetcherType
      BY <2>1, <2>2 DEF FetcherType, Working, TypeOK, DispType, NetType
    <3>2. QED
      BY <1>6, <2>2, <3>1 DEF BeginForRetry, TypeOK
  <2>6. QED
    BY <1>6, <2>4, <2>5 DEF BeginForRetry, TypeOK, StackType
<1>7. QED
  BY <1>1, <1>2, <1>3, <1>4, <1>5, <1>6

\* What a sequence of the members of a set is.
LEMMA SetToSeqsIs ==
  ASSUME NEW S \in SUBSET Fetcher, FetcherServiceAssumption, NEW q \in SetToSeqs(S)
  PROVE  /\ q \in Seq(Fetcher) /\ Len(q) \in Nat /\ DOMAIN q = 1 .. Len(q)
         /\ \A i \in DOMAIN q : q[i] \in S
         /\ \A i, j \in DOMAIN q : q[i] = q[j] => i = j
<1>1. IsFiniteSet(S) /\ Cardinality(S) \in Nat
  BY FS_Subset, FS_CardinalityType DEF FetcherServiceAssumption
<1>2. q \in [1 .. Cardinality(S) -> S] /\ \A i, j \in 1 .. Cardinality(S) : i # j => q[i] # q[j]
  BY DEF SetToSeqs
<1>3. q \in Seq(S) /\ q \in Seq(Fetcher)
  <2>1. q \in Seq(S)
    BY <1>1, <1>2, IsASeq
  <2>2. QED
    BY <2>1, SeqMonotonic
<1>4. QED
  BY <1>2, <1>3, LenProperties

\* A fetcher less runs: there is not less room.
LEMMA SlotFreed ==
  ASSUME NEW S, IsFiniteSet(S), NEW f, NEW n \in Nat, Cardinality(S) <= n
  PROVE  IsFiniteSet(S \ {f}) /\ Cardinality(S \ {f}) \in Nat /\ Cardinality(S \ {f}) <= n /\ n \in Nat
<1> DEFINE r == S \ {f}
<1>1. IsFiniteSet(r) /\ Cardinality(r) <= Cardinality(S)
  BY FS_Subset
<1> HIDE DEF r
<1>2. Cardinality(r) \in Nat /\ Cardinality(S) \in Nat
  BY <1>1, FS_CardinalityType
<1>3. IsFiniteSet(r) /\ Cardinality(r) \in Nat /\ Cardinality(r) <= n
  BY <1>1, <1>2
<1>4. QED
  BY <1>3 DEF r

\* A list of delayed fetchers, sorted or not, has each fetcher at most once.
LEMMA InOrder ==
  ASSUME FetcherServiceAssumption, NEW p, NEW S \in SUBSET Fetcher, NEW q \in Ranked(p, S) \cup Kept(p, S)
  PROVE  /\ q \in Seq(Fetcher) /\ Len(q) \in Nat /\ DOMAIN q = 1 .. Len(q)
         /\ \A i \in DOMAIN q : q[i] \in S
         /\ \A i, j \in DOMAIN q : q[i] = q[j] => i = j
<1>1. q \in SetToSeqs(S)
  BY DEF Ranked, Kept
<1>2. QED
  BY <1>1, SetToSeqsIs

\* fetcherDidStop: of a fetcher with a host: n of the waiting fetchers d take what is
\* free and are begun before serviceHost is cleared; the rest goes on waiting.
Starts(t, f, n, d) ==
  (\A k \in 1 .. n : k \in DOMAIN d) /\ Replace(t, [k \in 1 .. n |-> Begin(d[k], FALSE, TRUE)] \o <<Frame("unhost", f)>>)
Takes(t, f, h, n, d, rest) ==
  /\ n <= Len(d) /\ Len(d) \in Nat
  /\ \A k \in DOMAIN d : d[k] # f /\ \E i \in DOMAIN service.delayed[h] : service.delayed[h][i] = d[k]
  /\ \A i, j \in DOMAIN d : d[i] = d[j] => i = j
  /\ \A k \in DOMAIN rest : /\ rest[k] # f /\ \A j \in 1 .. n : rest[k] # d[j]
                            /\ \E i \in DOMAIN service.delayed[h] : service.delayed[h][i] = rest[k]
  /\ \A i, j \in DOMAIN rest : rest[i] = rest[j] => i = j
  /\ service' = [service EXCEPT !.running[h] = (@ \ {f}) \cup {d[k] : k \in 1 .. n},
                                !.delayed[h] = rest]
  /\ Cardinality((service.running[h] \ {f}) \cup {d[k] : k \in 1 .. n}) <= MaxRunning
  /\ disp' = IF fetcher[f].session # None /\ fetcher[f].session = disp.session
             THEN WithoutFetcher(disp, f) ELSE disp
  /\ Starts(t, f, n, d)
\* What fetcherDidStop: does: n of the delayed fetchers d run, the rest waits on.
LEMMA DidStopDoes ==
  ASSUME FetcherServiceAssumption, TypeOK, NEW t \in Thread, DidStop(t),
         fetcher[Head(stack[t]).f].host
  PROVE  \E n \in Nat, d \in Seq(Fetcher), rest \in Seq(Fetcher) :
           Takes(t, Head(stack[t]).f, HostOf[Head(stack[t]).f], n, d, rest)
<1> PICK f, h : f = Head(stack[t]).f /\ h = HostOf[f]
  OBVIOUS
<1> SUFFICES \E n \in Nat, d \in Seq(Fetcher), rest \in Seq(Fetcher) : Takes(t, f, h, n, d, rest)
  OBVIOUS
<1> DEFINE r == service.running[h] \ {f}
           q == service.delayed[h]
           waiting == ToSet(q) \ {f}
<1>1. f \in Fetcher /\ h \in Host
  BY Zenon, Running DEF DidStop, Working, Host
<1>2. q \in Seq(Fetcher) /\ waiting \subseteq Fetcher /\ service.running[h] \subseteq Fetcher
  <2>1. q \in Seq(Fetcher) /\ service.running[h] \subseteq Fetcher
    BY <1>1 DEF TypeOK, ServiceType
  <2>2. \A i \in DOMAIN q : q[i] \in Fetcher
    BY <2>1, LenProperties, ElementOfSeq
  <2>3. QED
    BY <2>1, <2>2 DEF ToSet
<1>3. IsFiniteSet(r) /\ Cardinality(r) \in Nat /\ Cardinality(r) <= MaxRunning /\ MaxRunning \in Nat
  <2>1. IsFiniteSet(service.running[h])
    BY <1>2, FS_Subset DEF FetcherServiceAssumption
  <2>2. Cardinality(service.running[h]) <= MaxRunning /\ MaxRunning \in Nat
    BY <1>1 DEF TypeOK, FetcherServiceAssumption
  <2>3. QED
    BY <2>1, <2>2, SlotFreed
<1>4. PICK d \in Ranked(q, waiting) :
        LET n == IF Room(r) < Len(d) THEN Room(r) ELSE Len(d)
            picked == {d[k] : k \in 1 .. n}
        IN /\ \E rest \in Kept(q, waiting \ picked) :
                service' = [service EXCEPT !.running[h] = r \cup picked, !.delayed[h] = rest]
           /\ disp' = IF fetcher[f].session # None /\ fetcher[f].session = disp.session
                      THEN WithoutFetcher(disp, f) ELSE disp
           /\ Replace(t, [k \in 1 .. n |-> Begin(d[k], FALSE, TRUE)] \o <<Frame("unhost", f)>>)
  BY Zenon DEF DidStop
<1> DEFINE n == IF Room(r) < Len(d) THEN Room(r) ELSE Len(d)
           picked == {d[k] : k \in 1 .. n}
<1>5. PICK rest \in Kept(q, waiting \ picked) :
        service' = [service EXCEPT !.running[h] = (@ \ {f}) \cup picked, !.delayed[h] = rest]
  BY Zenon, <1>4
<1>6. disp' = (IF fetcher[f].session # None /\ fetcher[f].session = disp.session
                THEN WithoutFetcher(disp, f) ELSE disp)
       /\ Replace(t, [k \in 1 .. n |-> Begin(d[k], FALSE, TRUE)] \o <<Frame("unhost", f)>>)
  BY Zenon, <1>4
<1>7. \A g \in waiting : g # f /\ \E i \in DOMAIN q : q[i] = g
  BY Zenon DEF ToSet
<1> HIDE DEF q, r, waiting
<1>8. /\ d \in Seq(Fetcher) /\ Len(d) \in Nat /\ DOMAIN d = 1 .. Len(d)
      /\ \A i \in DOMAIN d : d[i] \in waiting
      /\ \A i, j \in DOMAIN d : d[i] = d[j] => i = j
  BY <1>2, <1>4, InOrder
<1>9. n \in Nat /\ n <= Len(d) /\ n <= MaxRunning - Cardinality(r) /\ \A k \in 1 .. n : k \in DOMAIN d
  BY <1>3, <1>8 DEF Room
<1> HIDE DEF n
<1>10. /\ rest \in Seq(Fetcher)
       /\ \A i \in DOMAIN rest : rest[i] \in waiting \ picked
       /\ \A i, j \in DOMAIN rest : rest[i] = rest[j] => i = j
  <2> DEFINE others == waiting \ picked
  <2>1. others \in SUBSET Fetcher /\ rest \in Kept(q, others)
    BY <1>2, <1>5
  <2> HIDE DEF others
  <2>2. rest \in Seq(Fetcher) /\ (\A i \in DOMAIN rest : rest[i] \in others)
        /\ \A i, j \in DOMAIN rest : rest[i] = rest[j] => i = j
    BY <2>1, InOrder
  <2>3. QED
    BY <2>2 DEF others
<1>11. Cardinality(r \cup picked) <= MaxRunning
  <2>1. IsFiniteSet(1 .. n) /\ Cardinality(1 .. n) = n
    BY <1>9, FS_Interval
  <2>2. IsFiniteSet(picked) /\ Cardinality(picked) <= n
    <3>1. [k \in 1 .. n |-> d[k]] \in Surjection(1 .. n, picked)
      BY DEF Surjection
    <3> HIDE DEF picked
    <3>2. QED
      BY <2>1, <3>1, FS_Surjection
  <2> HIDE DEF picked
  <2>3. Cardinality(r \cup picked) = Cardinality(r) + Cardinality(picked) - Cardinality(r \cap picked)
    BY <1>3, <2>2, FS_Union
  <2>4. Cardinality(r \cap picked) \in Nat /\ Cardinality(picked) \in Nat
    <3>1. IsFiniteSet(r \cap picked)
      BY <1>3, FS_Intersection
    <3>2. QED
      BY <2>2, <3>1, FS_CardinalityType
  <2>5. QED
    BY <1>3, <1>9, <2>2, <2>3, <2>4
<1>12. /\ \A k \in DOMAIN d : d[k] # f /\ \E i \in DOMAIN q : q[i] = d[k]
       /\ \A k \in DOMAIN rest : /\ rest[k] # f /\ \A j \in 1 .. n : rest[k] # d[j]
                                 /\ \E i \in DOMAIN q : q[i] = rest[k]
  BY <1>7, <1>8, <1>10
<1>13. n \in Nat /\ d \in Seq(Fetcher) /\ rest \in Seq(Fetcher)
  BY <1>8, <1>9, <1>10
<1>14. Takes(t, f, h, n, d, rest)
  BY Zenon, <1>5, <1>6, <1>8, <1>9, <1>10, <1>11, <1>12 DEF q, r, Takes, Starts
<1>15. QED
  BY <1>13, <1>14

\* A list as a sequence.
LEMMA FunctionIsSeq ==
  ASSUME NEW S, NEW n \in Nat, NEW q \in [1 .. n -> S]
  PROVE  q \in Seq(S) /\ Len(q) = n /\ DOMAIN q = 1 .. n
<1>1. q \in Seq(S)
  BY SeqDef
<1>2. QED
  BY <1>1, LenProperties

Cat(a, b) == a \o b
\* The elements of a list after another.
LEMMA Joined ==
  ASSUME NEW S, NEW a \in Seq(S), NEW b \in Seq(S)
  PROVE  /\ Cat(a, b) \in Seq(S) /\ Len(Cat(a, b)) = Len(a) + Len(b)
         /\ DOMAIN Cat(a, b) = 1 .. Len(a) + Len(b)
         /\ \A k \in 1 .. Len(a) + Len(b) : Cat(a, b)[k] = IF k <= Len(a) THEN a[k] ELSE b[k - Len(a)]
<1>1. a \o b \in Seq(S) /\ Len(a \o b) = Len(a) + Len(b)
  BY ConcatProperties
<1>2. \A k \in 1 .. Len(a) + Len(b) : (a \o b)[k] = IF k <= Len(a) THEN a[k] ELSE b[k - Len(a)]
  BY ConcatProperties
<1>3. QED
  BY <1>1, <1>2, LenProperties DEF Cat

\* Where the elements of a list after another come from.
LEMMA JoinedFrom ==
  ASSUME NEW S, NEW a \in Seq(S), NEW b \in Seq(S)
  PROVE  /\ Cat(a, b) \in Seq(S)
         /\ \A k \in DOMAIN Cat(a, b) :
              /\ k \in Nat /\ k >= 1
              /\ (\E i \in DOMAIN a : Cat(a, b)[k] = a[i]) \/ (\E i \in DOMAIN b : Cat(a, b)[k] = b[i])
<1>1. PICK m \in Nat, n \in Nat : m = Len(a) /\ n = Len(b) /\ DOMAIN a = 1 .. m /\ DOMAIN b = 1 .. n
  BY LenProperties
<1> DEFINE z == Cat(a, b)
<1>2. /\ z \in Seq(S) /\ DOMAIN z = 1 .. Len(a) + Len(b)
      /\ \A k \in 1 .. Len(a) + Len(b) : z[k] = IF k <= Len(a) THEN a[k] ELSE b[k - Len(a)]
  BY Joined
<1> HIDE DEF z
<1>3. ASSUME NEW k \in DOMAIN z
      PROVE  /\ k \in Nat /\ k >= 1
             /\ (\E i \in 1 .. m : z[k] = a[i]) \/ (\E i \in 1 .. n : z[k] = b[i])
  <2>1. k \in 1 .. m + n /\ z[k] = IF k <= m THEN a[k] ELSE b[k - m]
    BY <1>1, <1>2
  <2>2. CASE k <= m
    BY <2>1, <2>2
  <2>3. CASE k > m
    <3>1. k - m \in 1 .. n /\ z[k] = b[k - m]
      BY <2>1, <2>3
    <3>2. QED
      BY <2>1, <3>1
  <2>4. k <= m \/ k > m
    BY <2>1
  <2>5. QED
    BY <2>2, <2>3, <2>4
<1>4. QED
  BY <1>1, <1>2, <1>3 DEF z

\* The tail of a list.
LEMMA TailIs ==
  ASSUME NEW S, NEW s \in Seq(S), s # <<>>, NEW m \in Nat, Len(s) = m
  PROVE  /\ Tail(s) \in Seq(S) /\ m >= 1 /\ m - 1 \in Nat /\ Len(Tail(s)) = m - 1
         /\ DOMAIN s = 1 .. m /\ \A k \in 1 .. m - 1 : Tail(s)[k] = s[k + 1]
<1>1. m # 0
  BY EmptySeq
<1>2. Tail(s) \in Seq(S) /\ Len(Tail(s)) = m - 1 /\ \A k \in 1 .. m - 1 : Tail(s)[k] = s[k + 1]
  BY HeadTailProperties
<1>3. QED
  BY <1>1, <1>2, LenProperties

Splice(a, x, s) == Cat(Cat(a, <<x>>), Tail(s))
\* Frames put in place of the top of a stack.
LEMMA Spliced ==
  ASSUME NEW S, NEW a \in Seq(S), NEW x \in S, NEW s \in Seq(S), s # <<>>
  PROVE  /\ Splice(a, x, s) \in Seq(S) /\ Splice(a, x, s) # <<>>
         /\ \A k \in DOMAIN Splice(a, x, s) :
              \/ k \in 1 .. Len(a) /\ Splice(a, x, s)[k] = a[k]
              \/ k = Len(a) + 1 /\ Splice(a, x, s)[k] = x
              \/ /\ k \in Nat /\ k > Len(a) + 1 /\ k - Len(a) \in DOMAIN s
                 /\ Splice(a, x, s)[k] = s[k - Len(a)]
<1>0. PICK n \in Nat : n = Len(a)
  BY LenProperties
<1> DEFINE b == <<x>>
           c == Tail(s)
           ab == Cat(a, b)
           z == Cat(ab, c)
<1>1. b \in Seq(S) /\ Len(b) = 1 /\ b[1] = x
  OBVIOUS
<1>2. PICK m \in Nat : Len(s) = m
  BY LenProperties
<1>3. c \in Seq(S) /\ m >= 1 /\ m - 1 \in Nat /\ Len(c) = m - 1
      /\ DOMAIN s = 1 .. m /\ \A k \in 1 .. m - 1 : c[k] = s[k + 1]
  BY <1>2, TailIs
<1> HIDE DEF b, c
<1>4. ab \in Seq(S) /\ Len(ab) = n + 1 /\ \A k \in 1 .. n + 1 : ab[k] = IF k <= n THEN a[k] ELSE b[k - n]
  <2>1. /\ ab \in Seq(S) /\ Len(ab) = Len(a) + Len(b)
        /\ \A k \in 1 .. Len(a) + Len(b) : ab[k] = IF k <= Len(a) THEN a[k] ELSE b[k - Len(a)]
    BY <1>1, Joined
  <2>2. QED
    BY <1>0, <1>1, <2>1
<1> HIDE DEF ab
<1>5. n + 1 \in Nat /\ (n + 1) + (m - 1) = n + m
  BY <1>3
<1>6. z \in Seq(S) /\ DOMAIN z = 1 .. (n + 1) + (m - 1) /\ Len(z) = (n + 1) + (m - 1)
      /\ \A k \in 1 .. (n + 1) + (m - 1) : z[k] = IF k <= n + 1 THEN ab[k] ELSE c[k - (n + 1)]
  <2>1. /\ z \in Seq(S) /\ Len(z) = Len(ab) + Len(c) /\ DOMAIN z = 1 .. Len(ab) + Len(c)
        /\ \A k \in 1 .. Len(ab) + Len(c) : z[k] = IF k <= Len(ab) THEN ab[k] ELSE c[k - Len(ab)]
    <3>1. ab \in Seq(S) /\ c \in Seq(S)
      BY <1>3, <1>4
    <3>2. QED
      BY <3>1, Joined
  <2>2. QED
    BY <1>3, <1>4, <2>1
<1> HIDE DEF z
<1>7. z \in Seq(S) /\ DOMAIN z = 1 .. n + m /\ Len(z) = n + m
      /\ \A k \in 1 .. n + m : z[k] = IF k <= n + 1 THEN ab[k] ELSE c[k - (n + 1)]
  BY <1>5, <1>6
<1>8. z # <<>>
  BY <1>7, <1>3
<1>9. ASSUME NEW k \in 1 .. n + m
      PROVE  \/ k \in 1 .. n /\ z[k] = a[k]
             \/ k = n + 1 /\ z[k] = x
             \/ k \in Nat /\ k > n + 1 /\ k - n \in 1 .. m /\ z[k] = s[k - n]
  <2>1. CASE k <= n
    BY <2>1, <1>7, <1>4
  <2>2. CASE k = n + 1
    BY <2>2, <1>7, <1>4, <1>1, <1>3
  <2>3. CASE k > n + 1
    <3>1. k - (n + 1) \in 1 .. m - 1 /\ (k - (n + 1)) + 1 = k - n /\ k - n \in 1 .. m
      BY <2>3, <1>3
    <3>2. z[k] = c[k - (n + 1)]
      BY <2>3, <1>7
    <3>3. c[k - (n + 1)] = s[k - n]
      BY <3>1, <1>3
    <3>4. k \in Nat /\ z[k] = s[k - n]
      BY <3>2, <3>3
    <3>5. QED
      BY <2>3, <3>1, <3>4
  <2>4. k <= n \/ k = n + 1 \/ k > n + 1
    OBVIOUS
  <2>5. QED
    BY <2>1, <2>2, <2>3, <2>4
<1>10. z = Splice(a, x, s)
  BY DEF Splice, z, ab, b, c
<1>11. QED
  BY <1>0, <1>3, <1>7, <1>8, <1>9, <1>10

Started(t, f, n, d) ==
  /\ \A p \in Thread : p # t => stack'[p] = stack[p]
  /\ 1 \in DOMAIN stack[t]
  /\ \A k \in DOMAIN stack'[t] :
       \/ k \in 1 .. n /\ stack'[t][k] = Begin(d[k], FALSE, TRUE)
       \/ k = n + 1 /\ stack'[t][k] = Frame("unhost", f)
       \/ /\ k \in Nat /\ k > n + 1 /\ k - n \in DOMAIN stack[t]
          /\ stack'[t][k] = stack[t][k - n]
\* The fetchers that fetcherDidStop: starts, and the one whose serviceHost it clears.
LEMMA Begun ==
  ASSUME TypeOK, NEW t \in Thread, stack[t] # <<>>, NEW f \in Fetcher,
         NEW n \in Nat, NEW d \in Seq(Fetcher), Starts(t, f, n, d)
  PROVE  /\ stack' \in StackType /\ stack'[t] # <<>>
         /\ Started(t, f, n, d)
<1> DEFINE a == [k \in 1 .. n |-> Begin(d[k], FALSE, TRUE)]
           x == Frame("unhost", f)
           z == Splice(a, x, stack[t])
<1>1. \A k \in 1 .. n : d[k] \in Fetcher
  BY ElementOfSeq, LenProperties DEF Starts
<1>2. a \in [1 .. n -> FrameType] /\ \A k \in 1 .. n : a[k] = Begin(d[k], FALSE, TRUE)
  BY <1>1, FrameTypes
<1>3. x \in FrameType
  BY FrameTypes DEF Op
<1>4. stack[t] \in Seq(FrameType) /\ 1 \in DOMAIN stack[t]
  <2>1. stack[t] \in Seq(FrameType)
    BY DEF TypeOK, StackType
  <2>2. QED
    BY <2>1, Consumed
<1>5. stack' = [stack EXCEPT ![t] = z]
  BY DEF Starts, Replace, Cat, Splice
<1> HIDE DEF a, x
<1>6. a \in Seq(FrameType) /\ Len(a) = n
  BY <1>2, FunctionIsSeq
<1>7. /\ z \in Seq(FrameType) /\ z # <<>>
      /\ \A k \in DOMAIN z :
           \/ k \in 1 .. n /\ z[k] = a[k]
           \/ k = n + 1 /\ z[k] = x
           \/ k \in Nat /\ k > n + 1 /\ k - n \in DOMAIN stack[t] /\ z[k] = stack[t][k - n]
  <2>1. stack[t] \in Seq(FrameType)
    BY <1>4
  <2>2. QED
    <3>1. a \in Seq(FrameType)
      BY <1>6
    <3>2. /\ z \in Seq(FrameType) /\ z # <<>>
          /\ \A k \in DOMAIN z :
               \/ k \in 1 .. Len(a) /\ z[k] = a[k]
               \/ k = Len(a) + 1 /\ z[k] = x
               \/ k \in Nat /\ k > Len(a) + 1 /\ k - Len(a) \in DOMAIN stack[t] /\ z[k] = stack[t][k - Len(a)]
      BY <1>3, <2>1, <3>1, Spliced
    <3> HIDE DEF z
    <3>3. QED
      BY <1>6, <3>2
<1> HIDE DEF z
<1>8. stack' \in StackType /\ stack'[t] = z /\ \A p \in Thread : p # t => stack'[p] = stack[p]
  BY <1>5, <1>7 DEF TypeOK, StackType
<1>9. QED
  BY <1>2, <1>4, <1>7, <1>8 DEF x, Started

\* stopAllFetchers: the fetchers of the lists are stopped, and only these.
LEMMA StopAllDoes ==
  ASSUME FetcherServiceAssumption, TypeOK, StopAll
  PROVE  /\ stack' \in StackType /\ stack["main"] = <<>>
         /\ stack'["delegate"] = stack["delegate"]
         /\ \A n \in DOMAIN stack'["main"] :
              n \in Nat /\ n >= 1 /\ \E f \in Fetcher : stack'["main"][n] = Stop(f, TRUE) /\ fetcher'[f].stopped
         /\ \A h \in Host : \A f \in service.running[h] : fetcher'[f].stopped
         /\ fetcher' \in [Fetcher -> FetcherType]
         /\ \A f \in Fetcher : \E stopped, barred \in BOOLEAN :
              /\ fetcher'[f] = [fetcher[f] EXCEPT !.barred = barred, !.stopped = stopped]
              /\ fetcher[f].stopped => stopped
<1> DEFINE delayed == UNION {ToSet(service.delayed[h]) : h \in Host}
           running == UNION {service.running[h] : h \in Host}
<1>1. delayed \in SUBSET Fetcher /\ running \in SUBSET Fetcher
  <2>1. ASSUME NEW h \in Host
        PROVE  service.running[h] \in SUBSET Fetcher /\ ToSet(service.delayed[h]) \in SUBSET Fetcher
    <3>1. service.running[h] \in SUBSET Fetcher /\ service.delayed[h] \in Seq(Fetcher)
      BY DEF TypeOK, ServiceType
    <3>2. QED
      BY <3>1, ElementOfSeq, LenProperties DEF ToSet
  <2>2. QED
    BY <2>1
<1>2. PICK a \in SetToSeqs(delayed), b \in SetToSeqs(running) :
        stack' = [stack EXCEPT !["main"] =
                    [k \in 1 .. Len(a) |-> Stop(a[k], TRUE)] \o [k \in 1 .. Len(b) |-> Stop(b[k], TRUE)]]
  BY Zenon DEF StopAll
<1>3. fetcher' = [f \in Fetcher |-> [fetcher[f] EXCEPT !.barred = @ \/ fetcher[f].begun,
                                                     !.stopped = @ \/ f \in delayed \cup running]]
  BY Zenon DEF StopAll
<1>4. \A f \in delayed \cup running : fetcher'[f].stopped
  <2>1. \A f \in Fetcher : fetcher[f] \in FetcherType
    BY DEF TypeOK
  <2>2. ASSUME NEW f \in delayed \cup running PROVE fetcher'[f].stopped
    <3>1. f \in Fetcher /\ fetcher[f] \in FetcherType
      BY <1>1, <2>1
    <3>2. fetcher'[f] = [fetcher[f] EXCEPT !.barred = @ \/ fetcher[f].begun,
                                          !.stopped = @ \/ f \in delayed \cup running]
      BY Zenon, <1>3, <3>1
    <3>3. (f \in delayed \cup running) = TRUE
      BY <2>2
    <3>4. QED
      BY <3>1, <3>2, <3>3 DEF FetcherType
  <2>3. QED
    BY <2>2
<1>5. ASSUME NEW f \in Fetcher
      PROVE  /\ fetcher'[f] \in FetcherType
             /\ \E stopped, barred \in BOOLEAN :
                  /\ fetcher'[f] = [fetcher[f] EXCEPT !.barred = barred, !.stopped = stopped]
                  /\ fetcher[f].stopped => stopped
  <2> DEFINE s == fetcher[f].stopped \/ f \in delayed \cup running
             b0 == fetcher[f].barred \/ fetcher[f].begun
  <2>1. s \in BOOLEAN /\ b0 \in BOOLEAN /\ fetcher[f] \in FetcherType /\ (fetcher[f].stopped => s)
    BY DEF TypeOK
  <2>2. fetcher'[f] = [fetcher[f] EXCEPT !.barred = b0, !.stopped = s]
    BY Zenon, <1>3
  <2> HIDE DEF s, b0
  <2>3. fetcher'[f] \in FetcherType
    BY <2>1, <2>2 DEF FetcherType
  <2>4. QED
    BY Zenon, <2>1, <2>2, <2>3
<1>6. fetcher' \in [Fetcher -> FetcherType]
  <2>1. fetcher' = [f \in Fetcher |-> fetcher'[f]]
    BY Zenon, <1>3
  <2>2. QED
    BY Zenon, <1>5, <2>1
<1>7. /\ a \in Seq(Fetcher) /\ Len(a) \in Nat /\ (\A i \in 1 .. Len(a) : a[i] \in delayed)
      /\ b \in Seq(Fetcher) /\ Len(b) \in Nat /\ (\A i \in 1 .. Len(b) : b[i] \in running)
  <2> HIDE DEF delayed, running
  <2>1. QED
    BY <1>1, SetToSeqsIs
<1> DEFINE x == [k \in 1 .. Len(a) |-> Stop(a[k], TRUE)]
           y == [k \in 1 .. Len(b) |-> Stop(b[k], TRUE)]
<1> HIDE DEF delayed, running
<1>8. x \in Seq(FrameType) /\ DOMAIN x = 1 .. Len(a) /\ y \in Seq(FrameType) /\ DOMAIN y = 1 .. Len(b)
  <2>1. \A k \in 1 .. Len(a) : Stop(a[k], TRUE) \in FrameType
    BY <1>1, <1>7, FrameTypes
  <2>2. \A k \in 1 .. Len(b) : Stop(b[k], TRUE) \in FrameType
    BY <1>1, <1>7, FrameTypes
  <2>3. x \in [1 .. Len(a) -> FrameType] /\ y \in [1 .. Len(b) -> FrameType]
    BY <2>1, <2>2
  <2> HIDE DEF x, y
  <2>4. QED
    BY <1>7, <2>3, FunctionIsSeq
<1>9. /\ \A k \in 1 .. Len(a) : x[k] = Stop(a[k], TRUE)
      /\ \A k \in 1 .. Len(b) : y[k] = Stop(b[k], TRUE)
  OBVIOUS
<1> HIDE DEF x, y
<1> DEFINE z == Cat(x, y)
<1>10. /\ z \in Seq(FrameType)
       /\ \A k \in DOMAIN z : /\ k \in Nat /\ k >= 1
                              /\ (\E i \in DOMAIN x : z[k] = x[i]) \/ (\E i \in DOMAIN y : z[k] = y[i])
  BY <1>8, JoinedFrom
<1>11. stack["main"] = <<>> /\ stack' = [stack EXCEPT !["main"] = z]
  BY Zenon, <1>2 DEF StopAll, Idle, x, y, Cat
<1> HIDE DEF z
<1>12. stack' \in StackType /\ stack'["delegate"] = stack["delegate"] /\ stack'["main"] = z
  BY <1>10, <1>11 DEF TypeOK, StackType, Thread
<1>13. ASSUME NEW n \in DOMAIN z
       PROVE  n \in Nat /\ n >= 1 /\ \E f \in Fetcher : z[n] = Stop(f, TRUE) /\ fetcher'[f].stopped
  <2>1. CASE \E i \in DOMAIN x : z[n] = x[i]
    <3>1. PICK i \in 1 .. Len(a) : z[n] = Stop(a[i], TRUE)
      BY <2>1, <1>8, <1>9
    <3>2. a[i] \in Fetcher /\ fetcher'[a[i]].stopped
      BY <1>1, <1>4, <1>7
    <3>3. QED
      BY <3>1, <3>2, <1>10
  <2>2. CASE \E i \in DOMAIN y : z[n] = y[i]
    <3>1. PICK i \in 1 .. Len(b) : z[n] = Stop(b[i], TRUE)
      BY <2>2, <1>8, <1>9
    <3>2. b[i] \in Fetcher /\ fetcher'[b[i]].stopped
      BY <1>1, <1>4, <1>7
    <3>3. QED
      BY <3>1, <3>2, <1>10
  <2>3. QED
    BY <2>1, <2>2, <1>10
<1>14. \A h \in Host : \A f \in service.running[h] : fetcher'[f].stopped
  BY <1>4 DEF running
<1>15. QED
  BY Zenon, <1>5, <1>6, <1>11, <1>12, <1>13, <1>14

\* The frames that admit, launch, stop and discard keep the types.
LEMMA RunningTypes ==
  ASSUME FetcherServiceAssumption, TypeOK, NEW t \in Thread,
         Admit(t) \/ Launch(t) \/ StopFetch(t) \/ DidStop(t) \/ DiscardSession(t)
  PROVE  TypeOK'
<1> DEFINE x == Head(stack[t])
           f == x.f
<1>1. CASE Admit(t)
  <2>1. x \in Working /\ stack \in StackType /\ stack[t] # <<>>
    BY Zenon, <1>1, Running DEF Admit
  <2>2. f \in Fetcher /\ HostOf[f] \in Host
    BY <2>1 DEF Working, Host
  <2>3. PICK y \in FrameType : Replace(t, <<y>>)
    BY Zenon, <1>1, <2>1, <2>2, FrameTypes DEF Admit, Op
  <2>4. stack' \in StackType
    BY <2>1, <2>3, Swap
  <2> DEFINE h == HostOf[f]
             r == service.running[h]
             q == service.delayed[h]
  <2>5. service \in ServiceType /\ r \in SUBSET Fetcher /\ q \in Seq(Fetcher)
    BY <2>2 DEF TypeOK, ServiceType
  <2>6. \/ service' = service
        \/ service' = [service EXCEPT !.running[h] = @ \cup {f}]
           /\ (f \in r \/ Cardinality(r) < MaxRunning)
        \/ service' = [service EXCEPT !.delayed[h] = Append(@, f)]
    BY Zenon, <1>1 DEF Admit
  <2>7. Append(q, f) \in Seq(Fetcher)
    BY <2>2, <2>5, AppendProperties
  <2>8. service' \in ServiceType
    <3> DEFINE r1 == r \cup {f}
               q1 == Append(q, f)
    <3>1. r1 \in SUBSET Fetcher /\ q1 \in Seq(Fetcher) /\ h \in Host
      BY <2>2, <2>5, <2>7
    <3>2. \/ service' = service
          \/ service' = [service EXCEPT !.running[h] = r1]
          \/ service' = [service EXCEPT !.delayed[h] = q1]
      BY Zenon, <2>6
    <3>3. service \in ServiceType
      BY <2>5
    <3> HIDE DEF r1, q1, h, r, q
    <3>4. CASE service' = [service EXCEPT !.running[h] = r1]
      BY <3>1, <3>3, <3>4 DEF ServiceType
    <3>5. CASE service' = [service EXCEPT !.delayed[h] = q1]
      BY <3>1, <3>3, <3>5 DEF ServiceType
    <3>6. QED
      BY <3>2, <3>3, <3>4, <3>5
  <2>9. ASSUME NEW i \in Host PROVE Cardinality(service'.running[i]) <= MaxRunning
    <3>1. CASE service'.running = service.running
      BY <3>1 DEF TypeOK
    <3>2. CASE service' = [service EXCEPT !.running[h] = @ \cup {f}] /\ (f \in r \/ Cardinality(r) < MaxRunning)
      <4>1. service'.running[i] = IF i = h THEN r \cup {f} ELSE service.running[i]
        BY <3>2, <2>2, <2>5 DEF ServiceType
      <4>2. Cardinality(r) <= MaxRunning
        BY <2>2 DEF TypeOK
      <4>3. IsFiniteSet(r) /\ MaxRunning \in Nat
        BY <2>5, FS_Subset DEF FetcherServiceAssumption
      <4> HIDE DEF r
      <4>4. Cardinality(r \cup {f}) <= MaxRunning
        <5>1. CASE f \in r
          <6>1. r \cup {f} = r
            BY <5>1
          <6>2. QED
            BY <6>1, <4>2
        <5>2. CASE f \notin r /\ Cardinality(r) < MaxRunning
          <6>1. Cardinality(r \cup {f}) = Cardinality(r) + 1
            BY <4>3, <5>2, FS_AddElement
          <6>2. Cardinality(r) \in Nat
            BY <4>3, FS_CardinalityType
          <6>3. QED
            BY <4>3, <5>2, <6>1, <6>2
        <5>3. QED
          BY <3>2, <5>1, <5>2
      <4>5. QED
        BY <4>1, <4>4 DEF TypeOK
    <3>3. QED
      BY Zenon, <2>5, <2>6, <3>1, <3>2 DEF ServiceType
  <2>10. QED
    BY Zenon, <1>1, <2>4, <2>8, <2>9 DEF Admit, TypeOK
<1>2. CASE Launch(t)
  <2>1. x \in Working /\ stack \in StackType /\ stack[t] # <<>>
    BY <1>2, Running DEF Launch
  <2>2. f \in Fetcher /\ fetcher[f] \in FetcherType
    BY <2>1 DEF Working, TypeOK
  <2>3. (\E y \in FrameType : Replace(t, <<y>>)) \/ Replace(t, <<>>)
    BY <1>2, <2>1, <2>2, FrameTypes DEF Launch, Op
  <2>4. stack' \in StackType
    BY <2>1, <2>3, Swap, Done
  <2>5. disp \in DispType /\ disp.map \in TaskMap /\ net \in NetType /\ net.tasks \in TaskMap
        /\ net.next \in Nat /\ net.next + 1 \in Nat
    BY DEF TypeOK, DispType, NetType
  <2>6. Put(disp.map, net.next, f) \in TaskMap /\ Put(net.tasks, net.next, f) \in TaskMap
    BY <2>2, <2>5, MapsKeepTheirType
  <2>7. disp' \in DispType
    <3>1. disp' = disp \/ disp' = [disp EXCEPT !.map = Put(disp.map, net.next, f), !.timer = None]
      BY <1>2 DEF Launch
    <3>2. QED
      BY Zenon, <3>1, <2>5, <2>6 DEF DispType
  <2>8. net' \in NetType
    <3>1. \/ net' = net \/ net' = [net EXCEPT !.dead = net.dead] \/ net' = [net EXCEPT !.dead = net.dead \cup {f}]
          \/ net' = [net EXCEPT !.next = net.next + 1, !.tasks = Put(net.tasks, net.next, f)]
      BY <1>2 DEF Launch
    <3> DEFINE m == Put(net.tasks, net.next, f)
               dd == net.dead \cup {f}
    <3>2. /\ m \in TaskMap /\ net.dead \in SUBSET Fetcher /\ dd \in SUBSET Fetcher
      BY <2>2, <2>5, <2>6 DEF NetType
    <3>3. \/ net' = net \/ net' = [net EXCEPT !.dead = net.dead] \/ net' = [net EXCEPT !.dead = dd]
          \/ net' = [net EXCEPT !.next = net.next + 1, !.tasks = m]
      BY <3>1
    <3> HIDE DEF m, dd
    <3>4. QED
      BY Zenon, <2>5, <3>2, <3>3 DEF NetType
  <2>9. fetcher' \in [Fetcher -> FetcherType]
    <3>1. /\ [fetcher[f] EXCEPT !.session = None, !.asking = TRUE] \in FetcherType
          /\ [fetcher[f] EXCEPT !.task = net.next] \in FetcherType
      BY <2>2, <2>5 DEF FetcherType
    <3>2. \/ fetcher' = fetcher
          \/ fetcher' = [fetcher EXCEPT ![f] = [fetcher[f] EXCEPT !.session = None, !.asking = TRUE]]
          \/ fetcher' = [fetcher EXCEPT ![f] = [fetcher[f] EXCEPT !.task = net.next]]
      BY Zenon, <1>2, <2>2 DEF Launch, TypeOK
    <3>3. QED
      BY <2>2, <3>1, <3>2 DEF TypeOK
  <2>10. QED
    BY <1>2, <2>4, <2>7, <2>8, <2>9 DEF Launch, TypeOK
<1>3. CASE StopFetch(t)
  <2>1. x \in Working /\ stack \in StackType /\ stack[t] # <<>>
    BY Zenon, <1>3, Running DEF StopFetch
  <2>2. f \in Fetcher /\ fetcher[f] \in FetcherType
    BY <2>1 DEF Working, TypeOK
  <2>3. Frame("didStop", f) \in FrameType /\ Replace(t, <<Frame("didStop", f)>>)
    BY Zenon, <1>3, <2>2, FrameTypes DEF StopFetch, Op
  <2>4. stack' \in StackType
    BY <2>1, <2>3, Swap
  <2>5. net \in NetType /\ net.tasks \in TaskMap /\ fetcher[f].task \in Nat \cup {None}
    BY <2>2 DEF TypeOK, NetType, FetcherType
  <2>6. net' \in NetType
    <3>1. Drop(net.tasks, {fetcher[f].task}) \in TaskMap
      BY <2>5, MapsKeepTheirType
    <3>2. net' = net \/ net' = [net EXCEPT !.tasks = Drop(net.tasks, {fetcher[f].task})]
      BY Zenon, <1>3 DEF StopFetch
    <3>3. QED
      BY <2>5, <3>1, <3>2 DEF NetType
  <2>7. delegateQ' \in Seq(EventType)
    <3> DEFINE e == [op |-> "complete", f |-> f, task |-> fetcher[f].task, outcome |-> "cancel"]
    <3>1. e \in EventType /\ delegateQ \in Seq(EventType)
      BY <2>2, <2>5 DEF EventType, TypeOK
    <3>2. delegateQ' = delegateQ \/ delegateQ' = Append(delegateQ, e)
      BY Zenon, <1>3 DEF StopFetch
    <3>3. QED
      BY <3>1, <3>2, AppendProperties
  <2>8. fetcher' \in [Fetcher -> FetcherType]
    <3>1. [fetcher[f] EXCEPT !.timer = FALSE, !.task = None, !.asking = FALSE,
                             !.handler = @ /\ ~x.delay] \in FetcherType
      BY Zenon, <2>1, <2>2 DEF FetcherType
    <3>2. QED
      BY Zenon, <1>3, <2>2, <3>1 DEF StopFetch, TypeOK
  <2>9. QED
    BY Zenon, <1>3, <2>4, <2>6, <2>7, <2>8 DEF StopFetch, TypeOK
<1>4. CASE DidStop(t)
  <2>1. x \in Working /\ stack \in StackType /\ stack[t] # <<>>
    BY Zenon, <1>4, Running DEF DidStop
  <2>2. f \in Fetcher /\ fetcher[f] \in FetcherType /\ HostOf[f] \in Host
    BY <2>1 DEF Working, TypeOK, Host
  <2>3. CASE ~fetcher[f].host
    <3>1. Replace(t, <<>>) /\ UNCHANGED <<service, disp>>
      BY <1>4, <2>3 DEF DidStop
    <3>2. stack' \in StackType
      BY <2>1, <3>1, Done
    <3>3. QED
      BY Zenon, <1>4, <3>1, <3>2 DEF DidStop, TypeOK
  <2>4. CASE fetcher[f].host
    <3> DEFINE h == HostOf[f]
    <3>0. PICK n \in Nat, d \in Seq(Fetcher), rest \in Seq(Fetcher) : Takes(t, f, h, n, d, rest)
      BY <1>4, <2>4, DidStopDoes
    <3>1. /\ \A k \in 1 .. n : k \in DOMAIN d
          /\ service' = [service EXCEPT !.running[h] = (@ \ {f}) \cup {d[k] : k \in 1 .. n},
                                       !.delayed[h] = rest]
          /\ Cardinality((service.running[h] \ {f}) \cup {d[k] : k \in 1 .. n}) <= MaxRunning
          /\ disp' = IF fetcher[f].session # None /\ fetcher[f].session = disp.session
                     THEN WithoutFetcher(disp, f) ELSE disp
          /\ Starts(t, f, n, d)
      BY Zenon, <3>0 DEF Takes, Starts
    <3>2. stack' \in StackType
      BY <2>1, <2>2, <3>1, Begun
    <3> DEFINE r == (service.running[h] \ {f}) \cup {d[k] : k \in 1 .. n}
    <3>3. service \in ServiceType /\ r \in SUBSET Fetcher
      <4>1. service \in ServiceType /\ service.running[h] \in SUBSET Fetcher
        BY <2>2 DEF TypeOK, ServiceType
      <4>2. \A k \in 1 .. n : d[k] \in Fetcher
        BY <3>1, ElementOfSeq, LenProperties
      <4>3. QED
        BY <4>1, <4>2
    <3>4. service' = [service EXCEPT !.running[h] = r, !.delayed[h] = rest] /\ Cardinality(r) <= MaxRunning
      BY <3>1
    <3> HIDE DEF r
    <3>5. service' \in ServiceType /\ \A i \in Host : service'.running[i] = IF i = h THEN r ELSE service.running[i]
      BY <2>2, <3>3, <3>4 DEF ServiceType
    <3>6. disp' \in DispType
      <4>1. disp \in DispType /\ disp.map \in TaskMap /\ disp.next \in Nat /\ disp.next + 1 \in Nat
        BY DEF TypeOK, DispType
      <4>2. \A S : Drop(disp.map, S) \in TaskMap
        BY <4>1, MapsKeepTheirType
      <4>3. WithoutFetcher(disp, f) \in DispType
        <5> DEFINE m == Drop(disp.map, {k \in DOMAIN disp.map : disp.map[k] = f})
        <5>1. m \in TaskMap
          BY <4>2
        <5>2. \/ WithoutFetcher(disp, f) = [disp EXCEPT !.map = m, !.timer = disp.next, !.next = disp.next + 1]
              \/ WithoutFetcher(disp, f) = [disp EXCEPT !.map = m]
          BY DEF WithoutFetcher
        <5> HIDE DEF m
        <5>3. QED
          BY <4>1, <5>1, <5>2 DEF DispType
      <4>4. QED
        BY <3>1, <4>1, <4>3
    <3>7. QED
      BY Zenon, <1>4, <3>2, <3>4, <3>5, <3>6 DEF DidStop, TypeOK
  <2>5. QED
    BY <2>3, <2>4
<1>5. CASE DiscardSession(t)
  <2>1. stack[t] # <<>> /\ Replace(t, <<>>)
    BY <1>5 DEF DiscardSession, Top
  <2>2. stack' \in StackType
    BY <2>1, Done
  <2>3. disp \in DispType /\ net \in NetType /\ Empty \in TaskMap
    <3>1. disp.map \in TaskMap
      BY DEF TypeOK, DispType
    <3>2. QED
      BY <3>1, MapsKeepTheirType DEF TypeOK
  <2>4. disp' \in DispType
    <3>1. disp' = disp \/ disp' = [disp EXCEPT !.session = None, !.timer = None, !.map = Empty]
      BY <1>5 DEF DiscardSession, Reset
    <3>2. QED
      BY <2>3, <3>1 DEF DispType
  <2>5. net' \in NetType
    <3> DEFINE i == net.invalid \cup ({disp.session} \ {None})
    <3>1. net' = net \/ net' = [net EXCEPT !.invalid = i]
      BY <1>5 DEF DiscardSession
    <3>2. i \in SUBSET Nat
      BY <2>3 DEF DispType, NetType
    <3> HIDE DEF i
    <3>3. QED
      BY <2>3, <3>1, <3>2 DEF NetType
  <2>6. QED
    BY <1>5, <2>2, <2>4, <2>5 DEF DiscardSession, TypeOK
<1>6. QED
  BY <1>1, <1>2, <1>3, <1>4, <1>5

\* The delegate queue, the network and the timers.
LEMMA EventTypes ==
  ASSUME FetcherServiceAssumption, TypeOK,
         TaskCompleted \/ RetryFetch \/ (\E k \in DOMAIN net.tasks : TaskEnds(k))
  PROVE  TypeOK'
<1> USE DEF TypeOK
<1>1. CASE TaskCompleted
  <2> DEFINE e == Head(delegateQ)
             f == e.f
  <2>1. delegateQ \in Seq(EventType) /\ delegateQ # <<>> /\ delegateQ' = Tail(delegateQ) /\ Idle("delegate")
    BY <1>1 DEF TaskCompleted
  <2>2. delegateQ' \in Seq(EventType) /\ e \in EventType
    BY <2>1, Consumed
  <2>3. f \in Fetcher /\ e.task \in Nat \cup {None} /\ fetcher[f] \in FetcherType
    BY <2>2 DEF EventType
  <2>4. CASE e.task \notin DOMAIN disp.map
    BY <1>1, <2>2, <2>4 DEF TaskCompleted
  <2>5. CASE e.task \in DOMAIN disp.map
    <3>1. PICK b \in BOOLEAN :
            /\ disp' = [disp EXCEPT !.map = Drop(@, {e.task})]
            /\ fetcher' = [fetcher EXCEPT ![f].task = e.task]
            /\ mainQ' = Notified(f, b)
            /\ stack' = [stack EXCEPT !["delegate"] = IF b THEN <<>> ELSE <<Stop(f, TRUE)>>]
      <4> DEFINE b == e.outcome = "retry" /\ CanRetry(f)
      <4>1. /\ disp' = [disp EXCEPT !.map = Drop(@, {e.task})]
            /\ fetcher' = [fetcher EXCEPT ![f].task = e.task]
            /\ mainQ' = Notified(f, b)
            /\ stack' = [stack EXCEPT !["delegate"] = IF b THEN <<>> ELSE <<Stop(f, TRUE)>>]
        BY <1>1, <2>5 DEF TaskCompleted
      <4>2. b \in BOOLEAN
        OBVIOUS
      <4> HIDE DEF b
      <4>3. QED
        BY <4>1, <4>2
    <3>2. mainQ' \in Seq(BlockType)
      BY <2>3, <3>1, AnsweredType
    <3>3. stack' \in StackType
      <4>1. <<>> \in Seq(FrameType) /\ <<Stop(f, TRUE)>> \in Seq(FrameType)
        BY <2>3, FrameTypes, Listed
      <4>2. QED
        BY <3>1, <4>1 DEF StackType
    <3>4. disp' \in DispType
      <4>1. disp \in DispType /\ disp.map \in TaskMap
        BY DEF DispType
      <4>2. Drop(disp.map, {e.task}) \in TaskMap
        BY <4>1, MapsKeepTheirType
      <4>3. QED
        BY <3>1, <4>1, <4>2 DEF DispType
    <3>5. fetcher' \in [Fetcher -> FetcherType]
      <4>1. [fetcher[f] EXCEPT !.task = e.task] \in FetcherType
        BY <2>3 DEF FetcherType
      <4>2. QED
        BY <3>1, <2>3, <4>1
    <3>6. QED
      BY <1>1, <2>2, <3>2, <3>3, <3>4, <3>5 DEF TaskCompleted
  <2>6. QED
    BY <2>4, <2>5
<1>2. CASE RetryFetch
  <2> DEFINE f == Head(delegateQ).f
  <2>1. delegateQ \in Seq(EventType) /\ delegateQ # <<>> /\ delegateQ' = Tail(delegateQ)
    BY <1>2 DEF RetryFetch
  <2>2. delegateQ' \in Seq(EventType) /\ Head(delegateQ) \in EventType
    BY <2>1, Consumed
  <2>3. f \in Fetcher
    BY <2>2 DEF EventType
  <2>4. Stop(f, FALSE) \in FrameType /\ Frame("again", f) \in FrameType
    BY <2>3, FrameTypes DEF Op
  <2>5. <<Stop(f, FALSE), Frame("again", f)>> \in Seq(FrameType)
    BY <2>4, Listed
  <2>6. stack' \in StackType
    BY <1>2, <2>5 DEF RetryFetch, StackType
  <2>7. QED
    BY <1>2, <2>2, <2>6 DEF RetryFetch
<1>3. CASE \E k \in DOMAIN net.tasks : TaskEnds(k)
  <2>1. PICK k \in DOMAIN net.tasks : TaskEnds(k)
    BY <1>3
  <2>2. net \in NetType /\ net.tasks \in TaskMap
    BY DEF NetType
  <2>3. net.tasks[k] \in Fetcher /\ k \in Nat /\ Drop(net.tasks, {k}) \in TaskMap
    BY <2>2, MapsKeepTheirType
  <2>4. net' \in NetType
    BY <2>1, <2>2, <2>3 DEF TaskEnds, NetType
  <2>5. delegateQ' \in Seq(EventType)
    <3>1. PICK outcome \in {"ok", "retry", "fail"} :
            delegateQ' = Append(delegateQ, [op |-> "complete", f |-> net.tasks[k], task |-> k, outcome |-> outcome])
      BY <2>1 DEF TaskEnds
    <3>2. [op |-> "complete", f |-> net.tasks[k], task |-> k, outcome |-> outcome] \in EventType
      BY <2>3 DEF EventType
    <3>3. QED
      BY <3>1, <3>2, AppendProperties
  <2>6. QED
    BY <2>1, <2>4, <2>5 DEF TaskEnds
<1>4. QED
  BY <1>1, <1>2, <1>3

\* Timers, blocks, the authoriser and the client on the main thread keep the types.
LEMMA MainTypes ==
  ASSUME FetcherServiceAssumption, TypeOK,
         BeginRetryTimer \/ InvokeHandler \/ StopAll \/ DiscardTimerFired
           \/ \E f \in Fetcher : RetryTimerFired(f) \/ ClientBegin(f) \/ ClientStop(f)
                                   \/ \E ok \in BOOLEAN : AuthorizerFinished(f, ok)
  PROVE  TypeOK'
<1>1. CASE BeginRetryTimer
  <2>1. mainQ \in Seq(BlockType) /\ mainQ # <<>> /\ mainQ' = Tail(mainQ)
    BY <1>1 DEF BeginRetryTimer, TypeOK
  <2>2. mainQ' \in Seq(BlockType) /\ Head(mainQ) \in BlockType
    BY <2>1, Consumed
  <2>3. Head(mainQ).f \in Fetcher /\ fetcher[Head(mainQ).f] \in FetcherType
    BY <2>2 DEF BlockType, TypeOK
  <2>4. [fetcher[Head(mainQ).f] EXCEPT !.timer = TRUE] \in FetcherType
    BY <2>3 DEF FetcherType
  <2>5. fetcher' \in [Fetcher -> FetcherType]
    BY <1>1, <2>3, <2>4 DEF BeginRetryTimer, TypeOK
  <2>6. QED
    BY <1>1, <2>2, <2>5 DEF BeginRetryTimer, TypeOK
<1>2. CASE InvokeHandler
  <2>1. mainQ \in Seq(BlockType) /\ mainQ # <<>> /\ mainQ' = Tail(mainQ)
    BY <1>2 DEF InvokeHandler, TypeOK
  <2>2. mainQ' \in Seq(BlockType)
    BY <2>1, Consumed
  <2>3. calls' \in [Fetcher -> Nat]
    <3>1. calls' = calls \/ calls' = [calls EXCEPT ![Head(mainQ).f] = @ + 1]
      BY <1>2 DEF InvokeHandler
    <3>2. QED
      BY <3>1 DEF TypeOK
  <2>4. QED
    BY <1>2, <2>2, <2>3 DEF InvokeHandler, TypeOK
<1>3. CASE StopAll
  <2>1. stack' \in StackType /\ fetcher' \in [Fetcher -> FetcherType]
    BY Zenon, <1>3, StopAllDoes
  <2>2. service' \in ServiceType /\ \A h \in Host : service'.running[h] = {}
    <3>1. service \in ServiceType /\ [h \in Host |-> {}] \in [Host -> SUBSET Fetcher]
          /\ [h \in Host |-> <<>>] \in [Host -> Seq(Fetcher)]
      BY DEF TypeOK
    <3>2. service' = [service EXCEPT !.running = [h \in Host |-> {}], !.delayed = [h \in Host |-> <<>>]]
      BY Zenon, <1>3 DEF StopAll
    <3>3. QED
      BY <3>1, <3>2 DEF ServiceType
  <2>3. Cardinality({}) = 0 /\ MaxRunning \in Nat
    BY FS_EmptySet DEF FetcherServiceAssumption
  <2>4. \A h \in Host : Cardinality(service'.running[h]) <= MaxRunning
    BY <2>2, <2>3
  <2>5. UNCHANGED <<disp, net, delegateQ, mainQ, calls>> /\ events' = events + 1
    BY Zenon, <1>3 DEF StopAll
  <2>6. events' \in Nat
    BY <2>5 DEF TypeOK
  <2>7. QED
    BY <2>1, <2>2, <2>4, <2>5, <2>6 DEF TypeOK
<1>4. CASE DiscardTimerFired
  <2>1. disp.timer \in Nat
    BY <1>4 DEF DiscardTimerFired, TypeOK, DispType
  <2>2. <<[Frame("discard", None) EXCEPT !.delay = disp.timer]>> \in Seq(FrameType)
    <3>1. [Frame("discard", None) EXCEPT !.delay = disp.timer] \in FrameType
      BY <2>1 DEF Frame, FrameType
    <3>2. QED
      BY <3>1, Listed
  <2>3. stack' \in StackType
    <3>1. \E q \in Seq(FrameType) : stack' = [stack EXCEPT !["main"] = q]
      <4>1. <<>> \in Seq(FrameType)
        BY Listed
      <4>2. QED
        BY <1>4, <2>2, <4>1 DEF DiscardTimerFired
    <3>2. QED
      BY <3>1 DEF StackType, TypeOK
  <2>4. QED
    BY <1>4, <2>3 DEF DiscardTimerFired, TypeOK
<1>5. ASSUME NEW f \in Fetcher, RetryTimerFired(f) PROVE TypeOK'
  <2>1. fetcher[f] \in FetcherType /\ delegateQ \in Seq(EventType)
    BY DEF TypeOK
  <2>2. [fetcher[f] EXCEPT !.timer = FALSE, !.retries = @ + 1] \in FetcherType
    <3>1. PICK n \in Nat : n = fetcher[f].retries + 1
      BY <2>1 DEF FetcherType
    <3>2. [fetcher[f] EXCEPT !.timer = FALSE, !.retries = n] \in FetcherType
      BY <2>1 DEF FetcherType
    <3>3. QED
      BY <3>1, <3>2
  <2>3. fetcher' \in [Fetcher -> FetcherType]
    BY <1>5, <2>2 DEF RetryTimerFired, TypeOK
  <2>4. [op |-> "retry", f |-> f, task |-> None, outcome |-> "none"] \in EventType
    BY DEF EventType
  <2>5. delegateQ' \in Seq(EventType)
    BY <1>5, <2>1, <2>4, AppendProperties DEF RetryTimerFired
  <2>6. QED
    BY <1>5, <2>3, <2>5 DEF RetryTimerFired, TypeOK
<1>6. ASSUME NEW f \in Fetcher, ClientBegin(f) \/ ClientStop(f) PROVE TypeOK'
  <2>1. fetcher[f] \in FetcherType /\ events \in Nat
    BY DEF TypeOK
  <2>2. [fetcher[f] EXCEPT !.begun = TRUE] \in FetcherType /\ [fetcher[f] EXCEPT !.stopped = TRUE] \in FetcherType
    BY <2>1 DEF FetcherType
  <2>3. fetcher' \in [Fetcher -> FetcherType]
    BY <1>6, <2>2 DEF ClientBegin, ClientStop, TypeOK
  <2>4. <<Begin(f, TRUE, TRUE)>> \in Seq(FrameType) /\ <<Stop(f, TRUE)>> \in Seq(FrameType)
    BY FrameTypes, Listed
  <2>5. stack' \in StackType
    BY <1>6, <2>4 DEF ClientBegin, ClientStop, TypeOK, StackType
  <2>6. events' \in Nat
    <3>1. events' = events \/ events' = events + 1
      BY <1>6 DEF ClientBegin, ClientStop
    <3>2. QED
      BY <2>1, <3>1
  <2>7. QED
    BY <1>6, <2>3, <2>5, <2>6 DEF ClientBegin, ClientStop, TypeOK
<1>7. ASSUME NEW f \in Fetcher, NEW ok \in BOOLEAN, AuthorizerFinished(f, ok) PROVE TypeOK'
  <2>1. fetcher[f] \in FetcherType
    BY DEF TypeOK
  <2>2. [fetcher[f] EXCEPT !.asking = FALSE] \in FetcherType
    BY <2>1 DEF FetcherType
  <2>3. fetcher' \in [Fetcher -> FetcherType]
    BY <1>7, <2>2 DEF AuthorizerFinished, TypeOK
  <2>4. <<Begin(f, FALSE, FALSE)>> \in Seq(FrameType) /\ <<Frame("fail", f)>> \in Seq(FrameType)
    BY FrameTypes, Listed DEF Op
  <2>5. stack' \in StackType
    BY <1>7, <2>4 DEF AuthorizerFinished, TypeOK, StackType
  <2>6. QED
    BY <1>7, <2>3, <2>5 DEF AuthorizerFinished, TypeOK
<1>8. QED
  BY <1>1, <1>2, <1>3, <1>4, <1>5, <1>6, <1>7

\* The types hold at first.
LEMMA InitialTypes ==
  FetcherServiceAssumption /\ Init => TypeOK
<1> SUFFICES ASSUME FetcherServiceAssumption, Init PROVE TypeOK
  OBVIOUS
<1>1. PICK refused \in SUBSET Refused : fetcher = [f \in Fetcher |->
       [refused |-> f \in refused, begun |-> FALSE, stopped |-> FALSE, barred |-> FALSE, task |-> None, session |-> None,
        host |-> FALSE, handler |-> TRUE, timer |-> FALSE, retries |-> 0, asking |-> FALSE]]
  BY DEF Init
<1>2. fetcher \in [Fetcher -> FetcherType]
  BY <1>1 DEF FetcherType
<1>3. Empty \in [{} -> Fetcher] /\ {} \in SUBSET Nat
  BY DEF Empty
<1>4. Empty \in TaskMap
  BY <1>3 DEF TaskMap
<1>5. disp \in DispType /\ net \in NetType
  BY <1>4 DEF Init, DispType, NetType
<1>6. service \in ServiceType /\ stack \in StackType
  BY DEF Init, ServiceType, StackType
<1>7. Cardinality({}) = 0 /\ MaxRunning \in Nat
  BY FS_EmptySet DEF FetcherServiceAssumption
<1>8. \A h \in Host : Cardinality(service.running[h]) <= MaxRunning
  BY <1>7 DEF Init
<1>9. delegateQ \in Seq(EventType) /\ mainQ \in Seq(BlockType) /\ calls \in [Fetcher -> Nat] /\ events \in Nat
  BY DEF Init
<1>10. QED
  BY <1>2, <1>5, <1>6, <1>8, <1>9 DEF TypeOK

\* Every variable keeps its type, and fetcherShouldBeginFetching and fetcherDidStop
\* leave no host with more than maxRunningFetchersPerHost running fetchers.
LEMMA TypeStep ==
  FetcherServiceAssumption /\ TypeOK /\ [Next]_vars => TypeOK'
<1> SUFFICES ASSUME FetcherServiceAssumption, TypeOK, [Next]_vars PROVE TypeOK'
  OBVIOUS
<1>1. ASSUME NEW t \in Thread, RunFrame(t) PROVE TypeOK'
  BY <1>1, BeginningTypes, RunningTypes DEF RunFrame
<1>2. CASE UNCHANGED vars
  BY <1>2 DEF vars, TypeOK
<1>3. QED
  BY <1>1, <1>2, EventTypes, MainTypes DEF Next, Work

----------------------------------------------------------------------------
(* Places.                                                                 *)

\* Where a fetch has a frame after a step of its thread.
LEMMA FramesSwapped ==
  ASSUME TypeOK, NEW t \in Thread, stack[t] # <<>>, NEW x \in FrameType, Replace(t, <<x>>),
         x.op \in Carries => stack[t][1].op \in Carries /\ stack[t][1].f = x.f
  PROVE  \A f, p, n : FrameAt(stack', f, p, n) => FrameAt(stack, f, p, n)
<1>1. /\ \A p \in Thread : p # t => stack'[p] = stack[p]
      /\ 1 \in DOMAIN stack[t] /\ DOMAIN stack'[t] = DOMAIN stack[t]
      /\ \A n \in DOMAIN stack'[t] : stack'[t][n] = IF n = 1 THEN x ELSE stack[t][n]
  BY Swap
<1>2. QED
  BY <1>1 DEF FrameAt

\* A frame that ends carries its fetch nowhere; the ones below move up.
LEMMA FramesPopped ==
  ASSUME TypeOK, NEW t \in Thread, stack[t] # <<>>, Replace(t, <<>>)
  PROVE  \A f, p, n : FrameAt(stack', f, p, n) =>
           IF p = t THEN n >= 1 /\ FrameAt(stack, f, t, n + 1) ELSE FrameAt(stack, f, p, n)
<1>1. /\ \A p \in Thread : p # t => stack'[p] = stack[p]
      /\ \A n \in DOMAIN stack'[t] :
              n >= 1 /\ n + 1 \in DOMAIN stack[t] /\ stack'[t][n] = stack[t][n + 1]
  BY Done
<1>2. QED
  BY <1>1 DEF FrameAt

\* The first frame of an idle thread.
LEMMA FramesPushed ==
  ASSUME TypeOK, NEW t \in Thread, Idle(t), NEW x \in FrameType, stack' = [stack EXCEPT ![t] = <<x>>]
  PROVE  \A f, p, n : FrameAt(stack', f, p, n) =>
           FrameAt(stack, f, p, n) \/ (p = t /\ n = 1 /\ x.f = f /\ x.op \in Carries)
<1>1. /\ \A p \in Thread : p # t => stack'[p] = stack[p]
      /\ DOMAIN stack[t] = {} /\ DOMAIN stack'[t] = {1}
      /\ stack'[t][1] = x
  BY Push
<1>2. QED
  BY <1>1 DEF FrameAt

\* What the frames, queues and maps do decides where a fetch is.
LEMMA BeginningPlaces ==
  ASSUME TypeOK, Places, NEW t \in Thread,
         BeginFetch(t) \/ CreateSession(t) \/ FailToBegin(t) \/ ClearHost(t) \/ BeginForRetry(t)
           \/ NoteHost(t) \/ DiscardSession(t),
         NEW g \in Fetcher
  PROVE  OnePlace(g)' /\ (Nowhere(g) => Nowhere(g)')
<1> DEFINE x == Head(stack[t])
<1>0. OnePlace(g) /\ fetcher[g] \in FetcherType /\ stack[t] # <<>>
  BY Zenon DEF Places, TypeOK, BeginFetch, CreateSession, FailToBegin, ClearHost, BeginForRetry, NoteHost,
         DiscardSession, Top
<1>1. /\ UNCHANGED <<delegateQ, service.delayed, net.tasks>>
      /\ fetcher'[g].begun = fetcher[g].begun /\ fetcher'[g].asking = fetcher[g].asking
      /\ fetcher'[g].timer = fetcher[g].timer
  <2>1. fetcher \in [Fetcher -> FetcherType] /\ service \in ServiceType /\ net \in NetType
    BY DEF TypeOK
  <2>2. UNCHANGED <<delegateQ, service.delayed, net.tasks>>
    BY Zenon, <2>1 DEF BeginFetch, CreateSession, FailToBegin, ClearHost, BeginForRetry, NoteHost, DiscardSession,
                ServiceType, NetType
  <2>3. \E f, a, b, c : \/ fetcher' = fetcher
                        \/ fetcher' = [fetcher EXCEPT ![f].session = a]
                        \/ fetcher' = [fetcher EXCEPT ![f].host = b, ![f].session = a]
                        \/ fetcher' = [fetcher EXCEPT ![f].host = b]
                        \/ fetcher' = [fetcher EXCEPT ![f].handler = c]
    BY Zenon DEF BeginFetch, CreateSession, FailToBegin, ClearHost, BeginForRetry, NoteHost, DiscardSession
  <2>4. QED
    BY <2>1, <2>2, <2>3 DEF FetcherType
<1>2. \A n : BlockAt(mainQ', "arm", g, n) => BlockAt(mainQ, "arm", g, n)
  <2>1. mainQ' = mainQ \/ mainQ' = Append(mainQ, [op |-> "call", f |-> x.f])
    BY Zenon DEF BeginFetch, CreateSession, FailToBegin, ClearHost, BeginForRetry, NoteHost, DiscardSession, Answered
  <2>2. CASE mainQ' = Append(mainQ, [op |-> "call", f |-> x.f])
    <3>1. mainQ \in Seq(BlockType)
      BY DEF TypeOK
    <3>2. /\ Len(mainQ) \in Nat /\ DOMAIN mainQ = 1 .. Len(mainQ) /\ DOMAIN mainQ' = 1 .. Len(mainQ) + 1
          /\ \A n \in 1 .. Len(mainQ) : mainQ'[n] = mainQ[n]
          /\ mainQ'[Len(mainQ) + 1] = [op |-> "call", f |-> x.f]
      BY <2>2, <3>1
    <3>3. QED
      BY <3>2 DEF BlockAt
  <2>3. QED
    BY <2>1, <2>2
<1>3. CASE Replace(t, <<>>)
  <2>1. \A f, p, n : FrameAt(stack', f, p, n) =>
           IF p = t THEN n >= 1 /\ FrameAt(stack, f, t, n + 1) ELSE FrameAt(stack, f, p, n)
    BY <1>0, <1>3, FramesPopped
  <2>2. ASSUME NEW p \in Place, NEW n \in Nat, At(g, p, n)'
        PROVE  \/ p # t /\ At(g, p, n)
               \/ p = t /\ n >= 1 /\ At(g, t, n + 1)
    <3>1. CASE p = t
      <4>1. FrameAt(stack', g, p, n)
        BY <2>2, <3>1 DEF At, FlagAt, Thread
      <4>2. QED
        BY <2>1, <3>1, <4>1 DEF At
    <3>2. CASE p # t
      BY <1>1, <1>2, <2>1, <2>2, <3>2 DEF At, FlagAt
    <3>3. QED
      BY <3>1, <3>2
  <2>3. t \in Place /\ 0 \in Nat
    BY DEF Place
  <2>4. Follows(g, t, t, 0)
    BY <2>2 DEF Follows
  <2>5. QED
    BY <1>0, <2>3, <2>4, Popped
<1>4. ASSUME NEW y \in FrameType, Replace(t, <<y>>), y.op \in Carries => x.op \in Carries /\ x.f = y.f
      PROVE  OnePlace(g)' /\ (Nowhere(g) => Nowhere(g)')
  <2>0. x = stack[t][1]
    OBVIOUS
  <2>1. \A f, p, n : FrameAt(stack', f, p, n) => FrameAt(stack, f, p, n)
    BY <1>0, <1>4, <2>0, FramesSwapped
  <2>2. ASSUME NEW p \in Place, NEW n \in Nat, At(g, p, n)'
        PROVE  At(g, p, n)
    BY <1>1, <1>2, <2>1, <2>2 DEF At, FlagAt
  <2>3. QED
    BY <1>0, <2>2, Stayed
<1>5. Replace(t, <<>>) \/ \E y \in FrameType : Replace(t, <<y>>) /\ (y.op \in Carries => x.op \in Carries /\ x.f = y.f)
  <2>1. CASE BeginFetch(t)
    <3>1. x \in Working /\ x.op \in Carries /\ x.f \in Fetcher
      BY <2>1, Running DEF BeginFetch, Carries, Working
    <3>2. PICK y : Replace(t, <<y>>) /\ (y = Frame("fail", x.f) \/ \E op \in {"admit", "create"} : y = [x EXCEPT !.op = op])
      BY <2>1 DEF BeginFetch
    <3>3. y \in Working
      BY <3>1, <3>2, FrameTypes DEF Op
    <3>4. y.f = x.f /\ y \in FrameType
      <4>1. Frame("fail", x.f).f = x.f /\ \A op \in {"admit", "create"} : [x EXCEPT !.op = op].f = x.f
        BY <3>1, FrameFields
      <4>2. QED
        BY <3>2, <3>3, <4>1, FrameTypes
    <3>5. QED
      BY <3>1, <3>2, <3>4
  <2>2. CASE CreateSession(t)
    <3>1. x \in Working /\ x.op \in Carries
      BY <2>2, Running DEF CreateSession, Carries
    <3>2. Replace(t, <<[x EXCEPT !.op = "admit"]>>)
      BY <2>2 DEF CreateSession
    <3>3. [x EXCEPT !.op = "admit"] \in FrameType /\ [x EXCEPT !.op = "admit"].f = x.f
      BY <3>1, FrameTypes, FrameFields DEF Op
    <3>4. QED
      BY <3>1, <3>2, <3>3
  <2>3. CASE FailToBegin(t)
    <3>1. x \in Working /\ x.f \in Fetcher
      BY <2>3, Running DEF FailToBegin, Working
    <3>2. Replace(t, <<Frame("didStop", x.f)>>)
      BY <2>3 DEF FailToBegin
    <3>3. "didStop" \in Op /\ "didStop" \notin Carries
      BY DEF Op, Carries
    <3>4. QED
      BY <3>1, <3>2, <3>3, FrameTypes, FrameFields
  <2>4. CASE BeginForRetry(t)
    <3>1. x \in Working /\ x.op \in Carries /\ x.f \in Fetcher
      BY <2>4, Running DEF BeginForRetry, Carries, Working
    <3>2. Replace(t, <<Begin(x.f, TRUE, TRUE)>>)
      BY <2>4 DEF BeginForRetry
    <3>3. Begin(x.f, TRUE, TRUE) \in FrameType /\ Begin(x.f, TRUE, TRUE).f = x.f
      BY <3>1 DEF Begin, FrameType, Op
    <3>4. QED
      BY <3>1, <3>2, <3>3
  <2>5. CASE NoteHost(t)
    <3>1. x \in Working /\ (x.op = "admitted" \/ x.op = "delayed")
      BY <2>5, Running DEF NoteHost
    <3>2. CASE x.op = "delayed"
      BY <2>5, <3>2 DEF NoteHost
    <3>3. CASE x.op # "delayed"
      <4>1. Replace(t, <<[x EXCEPT !.op = "launch"]>>) /\ x.op \in Carries
        BY <2>5, <3>1, <3>3 DEF NoteHost, Carries
      <4>2. [x EXCEPT !.op = "launch"] \in FrameType /\ [x EXCEPT !.op = "launch"].f = x.f
        BY <3>1, FrameTypes, FrameFields DEF Op
      <4>3. QED
        BY <4>1, <4>2
    <3>4. QED
      BY <3>2, <3>3
  <2>6. QED
    BY <2>1, <2>2, <2>3, <2>4, <2>5 DEF ClearHost, DiscardSession
<1>6. QED
  BY <1>3, <1>4, <1>5

\* What is in a queue with an element more.
LEMMA QueueAppended ==
  ASSUME NEW S, NEW q \in Seq(S), NEW x \in S
  PROVE  /\ Len(q) + 1 \in Nat
         /\ \A f, n : EventAt(Append(q, x), f, n) => EventAt(q, f, n) \/ (n = Len(q) + 1 /\ x.f = f)
         /\ \A op, f, n : BlockAt(Append(q, x), op, f, n) =>
              BlockAt(q, op, f, n) \/ (n = Len(q) + 1 /\ x.f = f /\ x.op = op)
         /\ \A op, f, n : BlockAt(q, op, f, n) => BlockAt(Append(q, x), op, f, n)
<1>1. PICK r : r = Append(q, x)
  OBVIOUS
<1>2. /\ DOMAIN r = DOMAIN q \cup {Len(q) + 1} /\ r[Len(q) + 1] = x /\ Len(q) \in Nat
      /\ \A n \in DOMAIN q : r[n] = q[n]
  BY <1>1, Appended
<1>3. QED
  BY <1>1, <1>2 DEF EventAt, BlockAt

\* What is in a queue without its head.
LEMMA QueueConsumed ==
  ASSUME NEW S, NEW q \in Seq(S), q # <<>>
  PROVE  /\ \A f, n : EventAt(Tail(q), f, n) => n >= 1 /\ EventAt(q, f, n + 1)
         /\ \A op, f, n : BlockAt(Tail(q), op, f, n) => n >= 1 /\ BlockAt(q, op, f, n + 1)
         /\ EventAt(q, Head(q).f, 1) /\ BlockAt(q, Head(q).op, Head(q).f, 1)
         /\ \A n : n \in DOMAIN Tail(q) => n + 1 \in DOMAIN q /\ Tail(q)[n] = q[n + 1]
<1>1. PICK r : r = Tail(q)
  OBVIOUS
<1>2. /\ Head(q) = q[1] /\ 1 \in DOMAIN q
      /\ \A n \in DOMAIN r : n >= 1 /\ n + 1 \in DOMAIN q /\ r[n] = q[n + 1]
  BY <1>1, Consumed
<1>3. QED
  BY <1>1, <1>2 DEF EventAt, BlockAt

Armed(f) == Append(mainQ, [op |-> "arm", f |-> f])
\* What is in the main queue after a retry timer or an answer was sent there.
LEMMA NotifiedBlocks ==
  ASSUME TypeOK, NEW f \in Fetcher
  PROVE  /\ Len(mainQ) + 1 \in Nat
         /\ \A g, n : BlockAt(Armed(f), "arm", g, n) =>
              BlockAt(mainQ, "arm", g, n) \/ (n = Len(mainQ) + 1 /\ g = f)
         /\ \A g, n : BlockAt(Armed(f), "call", g, n) <=> BlockAt(mainQ, "call", g, n)
         /\ \A g, n : BlockAt(Answered(f), "arm", g, n) => BlockAt(mainQ, "arm", g, n)
         /\ \A g, n : BlockAt(Answered(f), "call", g, n) =>
              BlockAt(mainQ, "call", g, n) \/ (fetcher[f].handler /\ n = Len(mainQ) + 1 /\ g = f)
         /\ \A g, n : BlockAt(mainQ, "call", g, n) => BlockAt(Answered(f), "call", g, n)
<1>1. mainQ \in Seq(BlockType) /\ [op |-> "call", f |-> f] \in BlockType /\ [op |-> "arm", f |-> f] \in BlockType
  BY DEF TypeOK, BlockType
<1>2. ASSUME NEW x \in BlockType
      PROVE  /\ Len(mainQ) + 1 \in Nat
             /\ \A op, g, n : BlockAt(Append(mainQ, x), op, g, n) =>
                  BlockAt(mainQ, op, g, n) \/ (n = Len(mainQ) + 1 /\ x.f = g /\ x.op = op)
             /\ \A op, g, n : BlockAt(mainQ, op, g, n) => BlockAt(Append(mainQ, x), op, g, n)
  BY <1>1, QueueAppended
<1> DEFINE c == [op |-> "call", f |-> f]
           a == [op |-> "arm", f |-> f]
<1>3. c.op = "call" /\ c.f = f /\ a.op = "arm" /\ a.f = f /\ c \in BlockType /\ a \in BlockType
  BY <1>1
<1>4. /\ Answered(f) = IF fetcher[f].handler THEN Append(mainQ, c) ELSE mainQ
      /\ Armed(f) = Append(mainQ, a)
  BY DEF Answered, Armed
<1> HIDE DEF a, c
<1>5. /\ \A g, n : BlockAt(Answered(f), "arm", g, n) => BlockAt(mainQ, "arm", g, n)
      /\ \A g, n : BlockAt(Answered(f), "call", g, n) =>
           BlockAt(mainQ, "call", g, n) \/ (fetcher[f].handler /\ n = Len(mainQ) + 1 /\ g = f)
      /\ \A g, n : BlockAt(mainQ, "call", g, n) => BlockAt(Answered(f), "call", g, n)
  <2>1. CASE fetcher[f].handler
    <3>1. Answered(f) = Append(mainQ, c)
      BY <1>4, <2>1
    <3>2. QED
      BY <1>2, <1>3, <2>1, <3>1
  <2>2. CASE ~fetcher[f].handler
    <3>1. Answered(f) = mainQ
      BY <1>4, <2>2
    <3>2. QED
      BY <3>1
  <2>3. QED
    BY <2>1, <2>2
<1>6. /\ \A g, n : BlockAt(Armed(f), "arm", g, n) =>
           BlockAt(mainQ, "arm", g, n) \/ (n = Len(mainQ) + 1 /\ g = f)
      /\ \A g, n : BlockAt(Armed(f), "call", g, n) <=> BlockAt(mainQ, "call", g, n)
  <2>1. \A op, g, n : BlockAt(Append(mainQ, a), op, g, n) =>
          BlockAt(mainQ, op, g, n) \/ (n = Len(mainQ) + 1 /\ f = g /\ "arm" = op)
    BY <1>2, <1>3
  <2>2. \A op, g, n : BlockAt(mainQ, op, g, n) => BlockAt(Append(mainQ, a), op, g, n)
    BY <1>2, <1>3
  <2>3. Armed(f) = Append(mainQ, a)
    BY <1>4
  <2>4. QED
    BY <2>1, <2>2, <2>3
<1>7. QED
  BY <1>1, <1>2, <1>3, <1>4, <1>5, <1>6

\* fetcherShouldBeginFetching: sends the fetch to the next frame or to the delayed ones.
LEMMA AdmitPlaces ==
  ASSUME TypeOK, Places, NEW t \in Thread, Admit(t), NEW g \in Fetcher
  PROVE  OnePlace(g)' /\ (Nowhere(g) => Nowhere(g)')
<1> DEFINE x == Head(stack[t])
           h == HostOf[x.f]
           q == service.delayed[h]
<1>1. OnePlace(g) /\ x \in Working /\ x.f \in Fetcher /\ x.op = "admit" /\ stack[t] # <<>> /\ x = stack[t][1]
  BY Zenon, Running DEF Places, Admit, Working
<1>2. UNCHANGED <<fetcher, net, delegateQ, mainQ>>
  BY Zenon DEF Admit
<1>3. service \in ServiceType /\ h \in Host /\ q \in Seq(Fetcher)
  BY <1>1 DEF TypeOK, ServiceType, Host
<1>4. ASSUME service'.delayed = service.delayed, NEW op \in {"launch", "admitted"},
             Replace(t, <<[x EXCEPT !.op = op]>>)
      PROVE  OnePlace(g)' /\ (Nowhere(g) => Nowhere(g)')
  <2>1. [x EXCEPT !.op = op] \in FrameType /\ [x EXCEPT !.op = op].f = x.f
    BY <1>1, FrameTypes, FrameFields DEF Op
  <2>2. x.op \in Carries
    BY <1>1 DEF Carries
  <2>3. \A f, p, n : FrameAt(stack', f, p, n) => FrameAt(stack, f, p, n)
    BY <1>1, <1>4, <2>1, <2>2, FramesSwapped
  <2>4. ASSUME NEW p \in Place, NEW n \in Nat, At(g, p, n)'
        PROVE  At(g, p, n)
    BY <1>2, <1>4, <2>3, <2>4 DEF At, FlagAt
  <2>5. QED
    BY <1>1, <2>4, Stayed
<1>5. ASSUME service' = [service EXCEPT !.delayed[h] = Append(@, x.f)],
             Replace(t, <<[x EXCEPT !.op = "delayed"]>>)
      PROVE  OnePlace(g)' /\ (Nowhere(g) => Nowhere(g)')
  <2>1. [x EXCEPT !.op = "delayed"] \in FrameType /\ [x EXCEPT !.op = "delayed"].op = "delayed"
    BY <1>1, FrameTypes, FrameFields DEF Op
  <2>2. "delayed" \notin Carries
    BY DEF Carries
  <2>3. \A f, p, n : FrameAt(stack', f, p, n) => FrameAt(stack, f, p, n) /\ ~(p = t /\ n = 1)
    <3>1. \A f, p, n : FrameAt(stack', f, p, n) => FrameAt(stack, f, p, n)
      BY <1>1, <1>5, <2>1, <2>2, FramesSwapped
    <3>2. 1 \in DOMAIN stack'[t] => stack'[t][1].op = "delayed"
      BY <1>1, <1>5, <2>1, Swap
    <3>3. QED
      BY <3>1, <3>2, <2>2 DEF FrameAt
  <2>4. /\ Len(q) + 1 \in Nat
        /\ \A n : DelayedAt(service'.delayed, g, n) =>
             DelayedAt(service.delayed, g, n) \/ (n = Len(q) + 1 /\ g = x.f)
    <3>1. PICK r, y : r = Append(q, y) /\ y = x.f
      BY Zenon
    <3>2. /\ DOMAIN r = DOMAIN q \cup {Len(q) + 1} /\ r[Len(q) + 1] = x.f /\ Len(q) \in Nat
          /\ \A n \in DOMAIN q : r[n] = q[n]
      <4>1. q \in Seq(Fetcher) /\ y \in Fetcher /\ r = Append(q, y)
        BY Zenon, <1>1, <1>3, <3>1
      <4> HIDE DEF q
      <4>2. /\ DOMAIN r = DOMAIN q \cup {Len(q) + 1} /\ r[Len(q) + 1] = y /\ Len(q) \in Nat
            /\ \A n \in DOMAIN q : r[n] = q[n]
        BY <4>1, Appended
      <4>3. QED
        BY <3>1, <4>2
    <3>3. \A i \in Host : service'.delayed[i] = IF i = h THEN r ELSE service.delayed[i]
      BY Zenon, <1>3, <1>5, <3>1 DEF ServiceType
    <3>4. HostOf[g] \in Host
      BY DEF Host
    <3> HIDE DEF h
    <3>5. QED
      BY <3>2, <3>3, <3>4 DEF DelayedAt
  <2>5. g = x.f => At(g, t, 1)
    <3>1. stack[t] \in Seq(FrameType)
      BY DEF TypeOK, StackType
    <3>2. 1 \in DOMAIN stack[t]
      BY <1>1, <3>1, Consumed
    <3>3. QED
      BY <1>1, <3>2 DEF At, FrameAt, Carries
  <2>6. ASSUME NEW p \in Place, NEW n \in Nat, At(g, p, n)'
        PROVE  \/ At(g, p, n) /\ ~(p = t /\ n = 1)
               \/ p = "delayed" /\ n = Len(q) + 1 /\ At(g, t, 1)
    <3>1. CASE FrameAt(stack', g, p, n)
      BY <2>3, <3>1 DEF At
    <3>2. CASE p = "delayed" /\ DelayedAt(service'.delayed, g, n)
      BY <2>4, <2>5, <3>2 DEF At, Thread
    <3>3. QED
      BY <1>2, <2>6, <3>1, <3>2 DEF At, Thread, FlagAt
  <2>7. t \in Place /\ "delayed" \in Place /\ 1 \in Nat
    BY DEF Place
  <2>8. PICK k \in Nat : k = Len(q) + 1
    BY <2>4
  <2>9. Moves(g, t, 1, "delayed", k)
    BY <2>6, <2>8 DEF Moves
  <2>10. QED
    BY <1>1, <2>7, <2>9, Moved
<1>6. \/ /\ service'.delayed = service.delayed
         /\ \E op \in {"launch", "admitted"} : Replace(t, <<[x EXCEPT !.op = op]>>)
      \/ /\ service' = [service EXCEPT !.delayed[h] = Append(@, x.f)]
         /\ Replace(t, <<[x EXCEPT !.op = "delayed"]>>)
  BY Zenon, <1>3 DEF Admit, ServiceType
<1>7. QED
  BY Zenon, <1>4, <1>5, <1>6

\* The fetch becomes a task, asks the authoriser, or fails.
LEMMA LaunchPlaces ==
  ASSUME FetcherServiceAssumption, TypeOK, Places, NEW t \in Thread, Launch(t), NEW g \in Fetcher
  PROVE  OnePlace(g)' /\ (Nowhere(g) => Nowhere(g)')
<1> DEFINE x == Head(stack[t])
           f == x.f
<1>1. OnePlace(g) /\ x \in Working /\ x.op = "launch" /\ stack[t] # <<>> /\ x = stack[t][1] /\ 1 \in DOMAIN stack[t]
  BY Running DEF Places, Launch
<1>2. f \in Fetcher /\ fetcher \in [Fetcher -> FetcherType] /\ fetcher[f] \in FetcherType /\ t \in Place
      /\ x.op \in Carries
  BY <1>1 DEF Working, TypeOK, Place, Carries
<1>3. UNCHANGED <<service, delegateQ, mainQ>>
  BY DEF Launch
<1>4. g = f => At(g, t, 1)
  BY <1>1, <1>2 DEF At, FrameAt
<1>5. CASE /\ fetcher' = [fetcher EXCEPT ![f].session = None, ![f].asking = TRUE]
           /\ Replace(t, <<>>) /\ net' = net
  <2>1. \A h, p, n : FrameAt(stack', h, p, n) =>
           IF p = t THEN n >= 1 /\ FrameAt(stack, h, t, n + 1) ELSE FrameAt(stack, h, p, n)
    BY <1>1, <1>5, FramesPopped
  <2>2. \A p, n : FlagAt(fetcher'[g], p, n) => FlagAt(fetcher[g], p, n) \/ (p = "asking" /\ n = 0 /\ g = f)
    <3>1. g # f => fetcher'[g] = fetcher[g]
      BY <1>5, <1>2
    <3>2. fetcher'[f].begun = fetcher[f].begun /\ fetcher'[f].timer = fetcher[f].timer
      BY <1>5, <1>2 DEF FetcherType
    <3>3. QED
      BY <3>1, <3>2 DEF FlagAt
  <2>3. ASSUME NEW p \in Place, NEW n \in Nat, At(g, p, n)'
        PROVE  \/ p # t /\ At(g, p, n)
               \/ p = t /\ n >= 1 /\ At(g, t, n + 1)
               \/ p = "asking" /\ n = 0 /\ At(g, t, 1)
    <3>1. CASE p = t
      <4>1. FrameAt(stack', g, p, n)
        BY <2>3, <3>1 DEF At, FlagAt, Thread
      <4>2. QED
        BY <2>1, <3>1, <4>1 DEF At
    <3>2. CASE p # t
      BY <1>3, <1>4, <1>5, <2>1, <2>2, <2>3, <3>2 DEF At
    <3>3. QED
      BY <3>1, <3>2
  <2>4. Follows(g, t, "asking", 0) /\ "asking" \in Place /\ 0 \in Nat
    BY <2>3 DEF Follows, Place
  <2>5. QED
    BY <1>1, <1>2, <2>4, Popped
<1>6. CASE Replace(t, <<Frame("fail", f)>>) /\ fetcher' = fetcher /\ net'.tasks = net.tasks
  <2>1. Frame("fail", f) \in FrameType /\ Frame("fail", f).f = f
    BY <1>2, FrameTypes, FrameFields DEF Op
  <2>2. \A h, p, n : FrameAt(stack', h, p, n) => FrameAt(stack, h, p, n)
    BY <1>1, <1>2, <1>6, <2>1, FramesSwapped
  <2>3. ASSUME NEW p \in Place, NEW n \in Nat, At(g, p, n)' PROVE At(g, p, n)
    BY <1>3, <1>6, <2>2, <2>3 DEF At
  <2>4. QED
    BY <1>1, <2>3, Stayed
<1>7. CASE /\ fetcher' = [fetcher EXCEPT ![f].task = net.next]
           /\ net'.tasks = Put(net.tasks, net.next, f)
           /\ Replace(t, <<>>)
  <2>0. net.tasks \in TaskMap /\ net.next \in Nat
    BY DEF TypeOK, NetType
  <2>1. \A h, p, n : FrameAt(stack', h, p, n) =>
           IF p = t THEN n >= 1 /\ FrameAt(stack, h, t, n + 1) ELSE FrameAt(stack, h, p, n)
    BY <1>1, <1>7, FramesPopped
  <2>2. \A p, n : FlagAt(fetcher'[g], p, n) => FlagAt(fetcher[g], p, n)
    <3>1. g # f => fetcher'[g] = fetcher[g]
      BY <1>7, <1>2
    <3>2. fetcher'[f].begun = fetcher[f].begun /\ fetcher'[f].timer = fetcher[f].timer
          /\ fetcher'[f].asking = fetcher[f].asking
      BY <1>7, <1>2 DEF FetcherType
    <3>3. QED
      BY <3>1, <3>2 DEF FlagAt
  <2>3. \A n \in Nat : TaskAt(net'.tasks, g, n) => TaskAt(net.tasks, g, n) \/ (n = net.next /\ g = f)
    BY <1>2, <1>7, <2>0, TaskMapsAfter
  <2>4. ASSUME NEW p \in Place, NEW n \in Nat, At(g, p, n)'
        PROVE  \/ p # t /\ At(g, p, n)
               \/ p = t /\ n >= 1 /\ At(g, t, n + 1)
               \/ p = "task" /\ n = net.next /\ At(g, t, 1)
    <3>1. CASE p = t
      <4>1. FrameAt(stack', g, p, n)
        BY <2>4, <3>1 DEF At, FlagAt, Thread
      <4>2. QED
        BY <2>1, <3>1, <4>1 DEF At
    <3>2. CASE p # t
      BY <1>3, <1>4, <2>1, <2>2, <2>3, <2>4, <3>2 DEF At
    <3>3. QED
      BY <3>1, <3>2
  <2>5. PICK k \in Nat : k = net.next
    BY <2>0
  <2>6. Follows(g, t, "task", k) /\ "task" \in Place
    BY <2>4, <2>5 DEF Follows, Place
  <2>7. QED
    BY <1>1, <1>2, <2>6, Popped
<1>8. \/ /\ fetcher' = [fetcher EXCEPT ![f].session = None, ![f].asking = TRUE]
         /\ Replace(t, <<>>) /\ net' = net
      \/ Replace(t, <<Frame("fail", f)>>) /\ fetcher' = fetcher /\ net'.tasks = net.tasks
      \/ /\ fetcher' = [fetcher EXCEPT ![f].task = net.next]
         /\ net'.tasks = Put(net.tasks, net.next, f)
         /\ Replace(t, <<>>)
  <2>1. net \in NetType
    BY DEF TypeOK
  <2>2. net'.tasks = net.tasks \/ net'.tasks = Put(net.tasks, net.next, f)
    BY Zenon, <2>1 DEF Launch, NetType
  <2>3. QED
    BY <2>1 DEF Launch, NetType
<1>9. QED
  BY <1>5, <1>6, <1>7, <1>8

\* stopFetchReleasingCallbacks: takes the fetch from its task, its timer and the authoriser.
LEMMA StopPlaces ==
  ASSUME FetcherServiceAssumption, TypeOK, Places, Owners, NEW t \in Thread, StopFetch(t), NEW g \in Fetcher
  PROVE  OnePlace(g)' /\ (Nowhere(g) => Nowhere(g)')
<1> DEFINE x == Head(stack[t])
           f == x.f
           k == fetcher[f].task
           e == [op |-> "complete", f |-> f, task |-> k, outcome |-> "cancel"]
<1>1. OnePlace(g) /\ x \in Working /\ x.op = "stop" /\ stack[t] # <<>> /\ x = stack[t][1]
  BY Zenon, Running DEF Places, StopFetch
<1>2. f \in Fetcher /\ fetcher \in [Fetcher -> FetcherType] /\ fetcher[f] \in FetcherType
  BY <1>1 DEF Working, TypeOK
<1>3. UNCHANGED <<service, mainQ>>
  BY Zenon DEF StopFetch
<1>4. \A h, p, n : FrameAt(stack', h, p, n) => FrameAt(stack, h, p, n)
  <2>1. Frame("didStop", f) \in FrameType /\ Frame("didStop", f).op = "didStop"
    BY <1>2, FrameTypes, FrameFields DEF Op
  <2>2. Replace(t, <<Frame("didStop", f)>>) /\ "didStop" \notin Carries
    BY Zenon DEF StopFetch, Carries
  <2>3. QED
    BY <1>1, <2>1, <2>2, FramesSwapped
<1>5. \A p, n : FlagAt(fetcher'[g], p, n) => FlagAt(fetcher[g], p, n)
  <2>1. g # f => fetcher'[g] = fetcher[g]
    BY Zenon, <1>2 DEF StopFetch
  <2>2. fetcher'[f].begun = fetcher[f].begun /\ fetcher'[f].timer = FALSE /\ fetcher'[f].asking = FALSE
    BY Zenon, <1>2 DEF StopFetch, FetcherType
  <2>3. QED
    BY <2>1, <2>2 DEF FlagAt
<1>6. CASE net' = net /\ delegateQ' = delegateQ
  <2>1. ASSUME NEW p \in Place, NEW n \in Nat, At(g, p, n)' PROVE At(g, p, n)
    BY <1>3, <1>4, <1>5, <1>6, <2>1 DEF At
  <2>2. QED
    BY <1>1, <2>1, Stayed
<1>7. CASE k # None /\ k \in DOMAIN net.tasks
  <2>1. net' = [net EXCEPT !.tasks = Drop(@, {k})] /\ delegateQ' = Append(delegateQ, e)
    BY Zenon, <1>7 DEF StopFetch
  <2>2. net \in NetType /\ net.tasks \in TaskMap /\ net.tasks[k] = f /\ k \in Nat
    BY <1>2, <1>7 DEF TypeOK, NetType, FetcherType, Owners, TaskOwned, Owner
  <2>3. e \in EventType /\ delegateQ \in Seq(EventType)
    BY <1>2, <2>2 DEF TypeOK, EventType
  <2>4. PICK j \in Nat : j = Len(delegateQ) + 1
    BY <2>3
  <2>5. \A n : EventAt(delegateQ', g, n) => EventAt(delegateQ, g, n) \/ (n = j /\ g = f)
    <3>1. e.f = f
      OBVIOUS
    <3> HIDE DEF e
    <3>2. QED
      BY <2>1, <2>3, <2>4, <3>1, QueueAppended
  <2>6. \A n \in Nat : TaskAt(net'.tasks, g, n) => TaskAt(net.tasks, g, n) /\ n # k
    <3>1. net'.tasks = Drop(net.tasks, {k})
      BY <2>1, <2>2 DEF NetType
    <3>2. QED
      BY <2>2, <3>1, TaskMapsAfter
  <2>7. g = f => At(g, "task", k)
    BY <1>7, <2>2 DEF At, TaskAt
  <2>8. ASSUME NEW p \in Place, NEW n \in Nat, At(g, p, n)'
        PROVE  \/ At(g, p, n) /\ ~(p = "task" /\ n = k)
               \/ p = "event" /\ n = j /\ At(g, "task", k)
    <3>1. CASE FrameAt(stack', g, p, n)
      BY <1>4, <3>1 DEF At, FrameAt, Thread
    <3>2. CASE p = "event" /\ EventAt(delegateQ', g, n)
      BY <2>5, <2>7, <3>2 DEF At
    <3>3. QED
      BY <1>3, <1>5, <2>6, <2>8, <3>1, <3>2 DEF At, FlagAt
  <2>9. PICK i \in Nat : i = k
    BY <2>2
  <2>10. Moves(g, "task", i, "event", j) /\ "task" \in Place /\ "event" \in Place
    BY <2>8, <2>9 DEF Moves, Place
  <2>11. QED
    BY Zenon, <1>1, <2>10, Moved
<1>8. QED
  BY Zenon, <1>6, <1>7 DEF StopFetch

\* fetcherDidStop: takes the fetches it starts from the delayed ones.
LEMMA DidStopPlaces ==
  ASSUME FetcherServiceAssumption, TypeOK, Places, Owners, NEW t \in Thread, DidStop(t), NEW g \in Fetcher
  PROVE  OnePlace(g)' /\ (Nowhere(g) => Nowhere(g)')
<1> DEFINE x == Head(stack[t])
           f == x.f
           h == HostOf[f]
<1>1. OnePlace(g) /\ x \in Working /\ stack[t] # <<>> /\ x = stack[t][1] /\ t \in Place
  BY Zenon, Running DEF Places, DidStop, Place
<1>2. f \in Fetcher /\ h \in Host /\ HostOf[g] \in Host
  BY <1>1 DEF Working, TypeOK, Host
<1>3. UNCHANGED <<fetcher, net, delegateQ, mainQ>>
  BY Zenon DEF DidStop
<1>4. CASE ~fetcher[f].host
  <2>1. Replace(t, <<>>) /\ service' = service
    BY <1>4 DEF DidStop
  <2>2. \A i, p, n : FrameAt(stack', i, p, n) =>
           IF p = t THEN n >= 1 /\ FrameAt(stack, i, t, n + 1) ELSE FrameAt(stack, i, p, n)
    BY <1>1, <2>1, FramesPopped
  <2>3. ASSUME NEW p \in Place, NEW n \in Nat, At(g, p, n)'
        PROVE  \/ p # t /\ At(g, p, n)
               \/ p = t /\ n >= 1 /\ At(g, t, n + 1)
    <3>1. CASE p = t
      <4>1. FrameAt(stack', g, p, n)
        BY <2>3, <3>1 DEF At, FlagAt, Thread
      <4>2. QED
        BY <2>2, <3>1, <4>1 DEF At
    <3>2. CASE p # t
      BY <1>3, <2>1, <2>2, <2>3, <3>2 DEF At
    <3>3. QED
      BY <3>1, <3>2
  <2>4. Follows(g, t, t, 0) /\ 0 \in Nat
    BY <2>3 DEF Follows
  <2>5. QED
    BY <1>1, <2>4, Popped
<1>5. CASE fetcher[f].host
  <2>1. PICK n \in Nat, d \in Seq(Fetcher), rest \in Seq(Fetcher) : Takes(t, f, h, n, d, rest)
    BY <1>5, DidStopDoes
  <2> HIDE DEF f, h, x
  <2>2. /\ \A k \in 1 .. n : k \in DOMAIN d
        /\ \A k \in DOMAIN d : \E i \in DOMAIN service.delayed[h] : service.delayed[h][i] = d[k]
        /\ \A i, j \in DOMAIN d : d[i] = d[j] => i = j
        /\ \A k \in DOMAIN rest : /\ \A j \in 1 .. n : rest[k] # d[j]
                                  /\ \E i \in DOMAIN service.delayed[h] : service.delayed[h][i] = rest[k]
        /\ \A i, j \in DOMAIN rest : rest[i] = rest[j] => i = j
    BY <2>1 DEF Takes, Starts
  <2>3. /\ \A i \in Host : service'.delayed[i] = IF i = h THEN rest ELSE service.delayed[i]
        /\ Starts(t, f, n, d)
    <3> DEFINE r == (service.running[h] \ {f}) \cup {d[k] : k \in 1 .. n}
    <3>1. service \in ServiceType
      BY DEF TypeOK
    <3>2. service' = [service EXCEPT !.running[h] = r, !.delayed[h] = rest]
      BY <2>1 DEF Takes
    <3> HIDE DEF r
    <3>3. \A i \in Host : service'.delayed[i] = IF i = h THEN rest ELSE service.delayed[i]
      BY <1>2, <3>1, <3>2 DEF ServiceType
    <3>4. QED
      BY <2>1, <3>3 DEF Takes
  <2>4. /\ \A p \in Thread : p # t => stack'[p] = stack[p]
        /\ \A k \in DOMAIN stack'[t] :
              \/ k \in 1 .. n /\ stack'[t][k] = Begin(d[k], FALSE, TRUE)
              \/ k = n + 1 /\ stack'[t][k] = Frame("unhost", f)
              \/ /\ k \in Nat /\ k > n + 1 /\ k - n \in DOMAIN stack[t]
                 /\ stack'[t][k] = stack[t][k - n]
    <3>1. Started(t, f, n, d)
      BY <1>1, <1>2, <2>3, Begun
    <3>2. QED
      BY <3>1 DEF Started
  <2>5. \A p, k : FrameAt(stack', g, p, k) =>
          \/ p # t /\ FrameAt(stack, g, p, k)
          \/ p = t /\ k \in 1 .. n /\ d[k] = g
          \/ p = t /\ k \in Nat /\ k > n + 1 /\ FrameAt(stack, g, t, k - n)
    <3>1. Frame("unhost", f).op = "unhost" /\ "unhost" \notin Carries
          /\ \A k : Begin(d[k], FALSE, TRUE).f = d[k]
      BY DEF Carries, Frame, Begin
    <3>2. ASSUME NEW p, NEW k, FrameAt(stack', g, p, k)
          PROVE  \/ p # t /\ FrameAt(stack, g, p, k)
                 \/ p = t /\ k \in 1 .. n /\ d[k] = g
                 \/ p = t /\ k \in Nat /\ k > n + 1 /\ FrameAt(stack, g, t, k - n)
      <4>1. CASE p # t
        BY <2>4, <3>2, <4>1 DEF FrameAt
      <4>2. CASE p = t
        BY <2>4, <3>1, <3>2, <4>2 DEF FrameAt
      <4>3. QED
        BY <4>1, <4>2
    <3>3. QED
      BY <3>2
  <2>6. \A k : DelayedAt(service'.delayed, g, k) =>
          \/ HostOf[g] # h /\ DelayedAt(service.delayed, g, k)
          \/ k \in DOMAIN rest /\ rest[k] = g
    BY <1>2, <2>3 DEF DelayedAt
  <2> DEFINE Waited == (\E k \in 1 .. n : d[k] = g) \/ (\E k \in DOMAIN rest : rest[k] = g)
  <2>7. CASE Waited
    <3>1. PICK i \in DOMAIN service.delayed[h] : service.delayed[h][i] = g
      BY <2>2, <2>7
    <3>2. HostOf[g] = h
      BY <1>2, <3>1 DEF Owners, ListOwned
    <3>3. At(g, "delayed", i) /\ "delayed" \in Place /\ i \in Nat
      <4>1. service.delayed[h] \in Seq(Fetcher)
        BY <1>2 DEF TypeOK, ServiceType
      <4>2. i \in Nat
        BY <3>1, <4>1, LenProperties
      <4>3. QED
        BY <3>1, <3>2, <4>2 DEF At, DelayedAt, Place
    <3>4. \A p \in Place, k \in Nat : At(g, p, k) => p = "delayed"
      BY <1>1, <3>3 DEF OnePlace
    <3>5. ASSUME NEW p \in Place, NEW k \in Nat, At(g, p, k)'
          PROVE  \/ p = t /\ k \in 1 .. n /\ d[k] = g
                 \/ p = "delayed" /\ k \in DOMAIN rest /\ rest[k] = g
      <4>1. CASE FrameAt(stack', g, p, k)
        <5>1. p # t => ~FrameAt(stack, g, p, k)
          <6>1. FrameAt(stack, g, p, k) => At(g, p, k) /\ p # "delayed"
            BY DEF At, FrameAt, Thread
          <6>2. QED
            BY <3>4, <6>1
        <5>2. k \in Nat /\ k > n + 1 => ~FrameAt(stack, g, t, k - n)
          <6>1. SUFFICES ASSUME k > n + 1, FrameAt(stack, g, t, k - n) PROVE FALSE
            OBVIOUS
          <6>2. k - n \in Nat
            BY <6>1
          <6>3. At(g, t, k - n) /\ t # "delayed"
            BY <6>1 DEF At, Thread
          <6>4. QED
            BY <1>1, <3>4, <6>2, <6>3
        <5>3. QED
          BY <2>5, <4>1, <5>1, <5>2
      <4>2. CASE p = "delayed" /\ DelayedAt(service'.delayed, g, k)
        BY <2>6, <3>2, <4>2
      <4>3. CASE p # "delayed" /\ ~FrameAt(stack', g, p, k)
        <5>1. At(g, p, k)
          BY <1>3, <3>5, <4>3 DEF At
        <5>2. QED
          BY <3>4, <4>3, <5>1
      <4>4. QED
        BY <3>5, <4>1, <4>2, <4>3 DEF At, FlagAt
    <3>6. t # "delayed"
      BY DEF Thread
    <3>7. ASSUME NEW p \in Place, NEW r \in Place, NEW k \in Nat, NEW m \in Nat,
                 At(g, p, k)', At(g, r, m)'
          PROVE  p = r /\ k = m
      <4>1. \/ p = t /\ k \in 1 .. n /\ d[k] = g
            \/ p = "delayed" /\ k \in DOMAIN rest /\ rest[k] = g
        BY <3>5, <3>7
      <4>2. \/ r = t /\ m \in 1 .. n /\ d[m] = g
            \/ r = "delayed" /\ m \in DOMAIN rest /\ rest[m] = g
        BY <3>5, <3>7
      <4>3. QED
        BY <2>2, <4>1, <4>2
    <3>8. ~Nowhere(g)
      BY <3>3 DEF Nowhere
    <3>9. QED
      BY <3>7, <3>8 DEF OnePlace
  <2>8. CASE ~Waited
    <3>1. ASSUME NEW p \in Place, NEW k \in Nat, At(g, p, k)'
          PROVE  \/ p # t /\ At(g, p, k)
                 \/ p = t /\ k > n + 1 /\ k - n \in Nat /\ At(g, t, k - n)
      <4>1. CASE FrameAt(stack', g, p, k)
        BY <2>5, <2>8, <4>1 DEF At
      <4>2. CASE p = "delayed" /\ DelayedAt(service'.delayed, g, k)
        BY <2>6, <2>8, <4>2 DEF At, Thread
      <4>3. CASE p # "delayed" /\ ~FrameAt(stack', g, p, k)
        BY <1>3, <3>1, <4>3 DEF At, FlagAt, Thread
      <4>4. QED
        BY <3>1, <4>1, <4>2, <4>3 DEF At, FlagAt
    <3>2. ASSUME NEW p \in Place, NEW r \in Place, NEW k \in Nat, NEW m \in Nat,
                 At(g, p, k)', At(g, r, m)'
          PROVE  p = r /\ k = m
      <4>1. \/ p # t /\ At(g, p, k)
            \/ p = t /\ k > n + 1 /\ k - n \in Nat /\ At(g, t, k - n)
        BY <3>1, <3>2
      <4>2. \/ r # t /\ At(g, r, m)
            \/ r = t /\ m > n + 1 /\ m - n \in Nat /\ At(g, t, m - n)
        BY <3>1, <3>2
      <4>3. k - n = m - n => k = m
        OBVIOUS
      <4>4. QED
        BY <1>1, <4>1, <4>2, <4>3 DEF OnePlace
    <3>3. Nowhere(g) => Nowhere(g)'
      BY <1>1, <3>1 DEF Nowhere
    <3>4. QED
      BY <3>2, <3>3 DEF OnePlace
  <2>9. QED
    BY <2>7, <2>8
<1>6. QED
  BY <1>4, <1>5

\* didCompleteWithError: sends the fetch to the retry timer or ends it.
LEMMA CompletedPlaces ==
  ASSUME FetcherServiceAssumption, TypeOK, Places, TaskCompleted, NEW g \in Fetcher
  PROVE  /\ OnePlace(g)' /\ (Nowhere(g) => Nowhere(g)')
         /\ mainQ' = Answered(Head(delegateQ).f) => Leaves(g, "event")
<1> DEFINE e == Head(delegateQ)
           f == e.f
<1>1. OnePlace(g) /\ delegateQ \in Seq(EventType) /\ delegateQ # <<>> /\ delegateQ' = Tail(delegateQ)
      /\ Idle("delegate") /\ UNCHANGED <<service, net>>
  BY DEF TaskCompleted, TypeOK, Places
<1>2. e \in EventType
  BY <1>1, Consumed
<1>3. f \in Fetcher /\ fetcher \in [Fetcher -> FetcherType] /\ fetcher[f] \in FetcherType
  BY <1>2 DEF EventType, TypeOK
<1>4. /\ \A n : EventAt(delegateQ', g, n) => n >= 1 /\ EventAt(delegateQ, g, n + 1)
      /\ EventAt(delegateQ, f, 1)
  BY <1>1, QueueConsumed
<1>5. \A p, n : FlagAt(fetcher'[g], p, n) => FlagAt(fetcher[g], p, n)
  <2>1. fetcher' = fetcher \/ fetcher' = [fetcher EXCEPT ![f].task = e.task]
    BY DEF TaskCompleted
  <2>2. fetcher'[g].begun = fetcher[g].begun /\ fetcher'[g].timer = fetcher[g].timer
          /\ fetcher'[g].asking = fetcher[g].asking
    BY <1>3, <2>1 DEF FetcherType
  <2>3. QED
    BY <2>2 DEF FlagAt
<1>6. \A p, n : FrameAt(stack', g, p, n) => FrameAt(stack, g, p, n)
  <2>1. \/ stack' = stack
        \/ stack' = [stack EXCEPT !["delegate"] = <<>>]
        \/ stack' = [stack EXCEPT !["delegate"] = <<Stop(f, TRUE)>>]
    BY DEF TaskCompleted
  <2>2. CASE stack' = [stack EXCEPT !["delegate"] = <<>>]
    BY <1>1, <2>2 DEF Idle, FrameAt, TypeOK, StackType
  <2>3. CASE stack' = [stack EXCEPT !["delegate"] = <<Stop(f, TRUE)>>]
    <3>1. Stop(f, TRUE) \in FrameType /\ Stop(f, TRUE).op = "stop" /\ "delegate" \in Thread /\ "stop" \notin Carries
      BY <1>3 DEF Stop, FrameType, Op, Thread, Carries
    <3>2. PICK y \in FrameType : y.op \notin Carries /\ stack' = [stack EXCEPT !["delegate"] = <<y>>]
      BY <2>3, <3>1
    <3>3. QED
      BY <1>1, <3>1, <3>2, FramesPushed
  <2>4. QED
    BY <2>1, <2>2, <2>3
<1>7. PICK k \in Nat : \A n : BlockAt(mainQ', "arm", g, n) => BlockAt(mainQ, "arm", g, n) \/ (n = k /\ g = f)
  <2>1. mainQ' = mainQ \/ mainQ' = Armed(f) \/ mainQ' = Answered(f)
    BY DEF TaskCompleted, Notified, Armed
  <2>2. PICK k \in Nat : k = Len(mainQ) + 1
    BY <1>3, NotifiedBlocks
  <2>3. \A n : BlockAt(mainQ', "arm", g, n) => BlockAt(mainQ, "arm", g, n) \/ (n = Len(mainQ) + 1 /\ g = f)
    BY <1>3, <2>1, NotifiedBlocks
  <2>4. QED
    BY <2>2, <2>3
<1>8. g = f => At(g, "event", 1)
  BY <1>4 DEF At
<1>9. ASSUME NEW p \in Place, NEW n \in Nat, At(g, p, n)'
      PROVE  \/ p # "event" /\ At(g, p, n)
             \/ p = "event" /\ n >= 1 /\ At(g, "event", n + 1)
             \/ p = "arm" /\ n = k /\ At(g, "event", 1)
  <2>1. CASE p = "event"
    <3>1. EventAt(delegateQ', g, n)
      BY <1>9, <2>1 DEF At, FrameAt, FlagAt, Thread
    <3>2. QED
      BY <1>4, <2>1, <3>1 DEF At
  <2>2. CASE p = "arm" /\ BlockAt(mainQ', "arm", g, n)
    BY <1>7, <1>8, <2>2 DEF At
  <2>3. CASE p # "event" /\ ~(p = "arm" /\ BlockAt(mainQ', "arm", g, n))
    BY <1>1, <1>5, <1>6, <1>9, <2>3 DEF At
  <2>4. QED
    BY <2>1, <2>2, <2>3
<1>10. Follows(g, "event", "arm", k) /\ "event" \in Place /\ "arm" \in Place
  BY <1>9 DEF Follows, Place
<1>11. ASSUME mainQ' = Answered(f), NEW p \in Place, NEW n \in Nat, At(g, p, n)'
       PROVE  \/ p # "event" /\ At(g, p, n)
              \/ p = "event" /\ n >= 1 /\ At(g, "event", n + 1)
  <2>1. CASE p = "event"
    <3>1. EventAt(delegateQ', g, n)
      BY <1>11, <2>1 DEF At, FrameAt, FlagAt, Thread
    <3>2. QED
      BY <1>4, <2>1, <3>1 DEF At
  <2>2. CASE p # "event"
    <3>1. BlockAt(mainQ', "arm", g, n) => BlockAt(mainQ, "arm", g, n)
      BY <1>3, <1>11, NotifiedBlocks
    <3>2. QED
      BY <1>1, <1>5, <1>6, <1>11, <2>2, <3>1 DEF At
  <2>3. QED
    BY <2>1, <2>2
<1>12. mainQ' = Answered(f) => Leaves(g, "event")
  BY <1>11 DEF Leaves
<1>13. QED
  BY <1>1, <1>10, <1>12, Popped

\* retryFetch takes the fetch from the queue to the delegate thread.
LEMMA RetryPlaces ==
  ASSUME FetcherServiceAssumption, TypeOK, Places, RetryFetch, NEW g \in Fetcher
  PROVE  OnePlace(g)' /\ (Nowhere(g) => Nowhere(g)')
<1> DEFINE f == Head(delegateQ).f
           q == <<Stop(f, FALSE), Frame("again", f)>>
<1>1. OnePlace(g) /\ delegateQ \in Seq(EventType) /\ delegateQ # <<>> /\ delegateQ' = Tail(delegateQ)
      /\ Idle("delegate") /\ UNCHANGED <<fetcher, service, net, mainQ>> /\ stack' = [stack EXCEPT !["delegate"] = q]
  BY DEF RetryFetch, TypeOK, Places
<1>2. /\ \A n : EventAt(delegateQ', g, n) => n >= 1 /\ EventAt(delegateQ, g, n + 1)
      /\ EventAt(delegateQ, f, 1)
  BY <1>1, QueueConsumed
<1>3. \A p, n : FrameAt(stack', g, p, n) => (p # "delegate" /\ FrameAt(stack, g, p, n)) \/ (p = "delegate" /\ n = 2 /\ g = f)
  <2>1. stack'["delegate"] = q /\ stack'["main"] = stack["main"]
    BY <1>1 DEF TypeOK, StackType, Thread
  <2>2. DOMAIN q = {1, 2} /\ q[1] = Stop(f, FALSE) /\ q[2] = Frame("again", f)
    OBVIOUS
  <2>3. q[1].op = "stop" /\ "stop" \notin Carries /\ q[2].f = f
    BY <2>2 DEF Stop, Frame, Carries
  <2> HIDE DEF q
  <2>4. QED
    BY <2>1, <2>2, <2>3 DEF FrameAt, Thread
<1>4. g = f => At(g, "event", 1)
  BY <1>2 DEF At
<1>5. ASSUME NEW p \in Place, NEW n \in Nat, At(g, p, n)'
      PROVE  \/ p # "event" /\ At(g, p, n)
             \/ p = "event" /\ n >= 1 /\ At(g, "event", n + 1)
             \/ p = "delegate" /\ n = 2 /\ At(g, "event", 1)
  <2>1. CASE p = "event"
    <3>1. EventAt(delegateQ', g, n)
      BY <1>5, <2>1 DEF At, FrameAt, FlagAt, Thread
    <3>2. QED
      BY <1>2, <2>1, <3>1 DEF At
  <2>2. CASE p # "event"
    BY <1>1, <1>3, <1>4, <1>5, <2>2 DEF At
  <2>3. QED
    BY <2>1, <2>2
<1>6. Follows(g, "event", "delegate", 2) /\ "event" \in Place /\ "delegate" \in Place /\ 2 \in Nat
  BY <1>5 DEF Follows, Place, Thread
<1>7. QED
  BY <1>1, <1>6, Popped

\* A task that ends sends its fetch to the delegate queue.
LEMMA TaskPlaces ==
  ASSUME FetcherServiceAssumption, TypeOK, Places, NEW k \in DOMAIN net.tasks, TaskEnds(k), NEW g \in Fetcher
  PROVE  OnePlace(g)' /\ (Nowhere(g) => Nowhere(g)')
<1>1. OnePlace(g) /\ UNCHANGED <<fetcher, service, stack, mainQ>>
  BY DEF TaskEnds, Places
<1>2. net \in NetType /\ net.tasks \in TaskMap
  BY DEF TypeOK, NetType
<1>3. net.tasks[k] \in Fetcher /\ k \in Nat
  BY <1>2, MapsKeepTheirType
<1>4. PICK e : /\ e \in EventType /\ e.f = net.tasks[k]
               /\ delegateQ' = Append(delegateQ, e)
  <2>1. PICK outcome \in {"ok", "retry", "fail"} :
            delegateQ' = Append(delegateQ, [op |-> "complete", f |-> net.tasks[k], task |-> k, outcome |-> outcome])
    BY DEF TaskEnds
  <2>2. [op |-> "complete", f |-> net.tasks[k], task |-> k, outcome |-> outcome] \in EventType
    BY <1>3 DEF EventType
  <2>3. QED
    BY <2>1, <2>2
<1>5. delegateQ \in Seq(EventType)
  BY DEF TypeOK
<1>6. PICK j \in Nat : j = Len(delegateQ) + 1
  BY <1>5
<1>7. \A n : EventAt(delegateQ', g, n) => EventAt(delegateQ, g, n) \/ (n = j /\ net.tasks[k] = g)
  BY <1>4, <1>5, <1>6, QueueAppended
<1>8. \A n \in Nat : TaskAt(net'.tasks, g, n) => TaskAt(net.tasks, g, n) /\ n # k
  <2>1. net'.tasks = Drop(net.tasks, {k})
    BY <1>2 DEF TaskEnds, NetType
  <2>2. QED
    BY <1>2, <2>1, TaskMapsAfter
<1>9. net.tasks[k] = g => At(g, "task", k)
  BY DEF At, TaskAt
<1>10. ASSUME NEW p \in Place, NEW n \in Nat, At(g, p, n)'
       PROVE  \/ At(g, p, n) /\ ~(p = "task" /\ n = k)
              \/ p = "event" /\ n = j /\ At(g, "task", k)
  <2>1. CASE p = "event" /\ EventAt(delegateQ', g, n)
    BY <1>7, <1>9, <2>1 DEF At
  <2>2. CASE p = "task"
    <3>1. TaskAt(net'.tasks, g, n)
      BY <1>10, <2>2 DEF At, FrameAt, FlagAt, Thread
    <3>2. QED
      BY <1>8, <2>2, <3>1 DEF At
  <2>3. CASE p # "task" /\ ~(p = "event" /\ EventAt(delegateQ', g, n))
    BY <1>1, <1>10, <2>3 DEF At
  <2>4. QED
    BY <2>1, <2>2, <2>3
<1>11. Moves(g, "task", k, "event", j) /\ "task" \in Place /\ "event" \in Place
  BY <1>10 DEF Moves, Place
<1>12. QED
  BY <1>1, <1>3, <1>11, Moved

\* On the main thread a fetch goes from a timer, a block, the authoriser or the client to one place.
LEMMA MainPlaces ==
  ASSUME FetcherServiceAssumption, TypeOK, Places,
         BeginRetryTimer \/ InvokeHandler \/ StopAll \/ DiscardTimerFired
           \/ \E f \in Fetcher : RetryTimerFired(f) \/ ClientBegin(f) \/ ClientStop(f)
                                   \/ \E ok \in BOOLEAN : AuthorizerFinished(f, ok),
         NEW g \in Fetcher
  PROVE  OnePlace(g)' /\ (Nowhere(g) => Nowhere(g)')
<1>0. /\ OnePlace(g) /\ fetcher \in [Fetcher -> FetcherType] /\ fetcher[g] \in FetcherType
      /\ mainQ \in Seq(BlockType) /\ delegateQ \in Seq(EventType)
      /\ "main" \in Thread /\ "main" \in Place /\ "arm" \in Place /\ "timer" \in Place /\ "event" \in Place
      /\ "new" \in Place /\ "asking" \in Place /\ 0 \in Nat /\ 1 \in Nat
  BY DEF TypeOK, Places, Thread, Place
<1>1. CASE BeginRetryTimer
  <2> DEFINE f == Head(mainQ).f
  <2>1. /\ UNCHANGED <<service, net, stack, delegateQ>> /\ mainQ # <<>> /\ Head(mainQ).op = "arm"
        /\ mainQ' = Tail(mainQ) /\ fetcher' = [fetcher EXCEPT ![f].timer = TRUE]
    BY <1>1 DEF BeginRetryTimer
  <2>2. /\ \A n : BlockAt(mainQ', "arm", g, n) => n >= 1 /\ BlockAt(mainQ, "arm", g, n + 1)
        /\ BlockAt(mainQ, "arm", f, 1)
    BY <1>0, <2>1, QueueConsumed
  <2>3. \A p, n : FlagAt(fetcher'[g], p, n) => FlagAt(fetcher[g], p, n) \/ (p = "timer" /\ n = 0 /\ g = f)
    <3>1. g # f => fetcher'[g] = fetcher[g]
      BY <1>0, <2>1
    <3>2. fetcher'[g].begun = fetcher[g].begun /\ fetcher'[g].asking = fetcher[g].asking
      BY <1>0, <2>1 DEF FetcherType
    <3>3. QED
      BY <3>1, <3>2 DEF FlagAt
  <2>4. g = f => At(g, "arm", 1)
    BY <2>2 DEF At
  <2>5. ASSUME NEW p \in Place, NEW n \in Nat, At(g, p, n)'
        PROVE  \/ p # "arm" /\ At(g, p, n)
               \/ p = "arm" /\ n >= 1 /\ At(g, "arm", n + 1)
               \/ p = "timer" /\ n = 0 /\ At(g, "arm", 1)
    <3>1. CASE p = "arm"
      <4>1. BlockAt(mainQ', "arm", g, n)
        BY <2>5, <3>1 DEF At, FrameAt, FlagAt, Thread
      <4>2. QED
        BY <2>2, <3>1, <4>1 DEF At
    <3>2. CASE p # "arm"
      BY <2>1, <2>3, <2>4, <2>5, <3>2 DEF At
    <3>3. QED
      BY <3>1, <3>2
  <2>6. Follows(g, "arm", "timer", 0)
    BY <2>5 DEF Follows
  <2>7. QED
    BY <1>0, <2>6, Popped
<1>2. CASE InvokeHandler
  <2>1. /\ UNCHANGED <<fetcher, service, net, stack, delegateQ>> /\ mainQ # <<>>
        /\ mainQ' = Tail(mainQ)
    BY <1>2 DEF InvokeHandler
  <2>2. \A n : BlockAt(mainQ', "arm", g, n) => n >= 1 /\ BlockAt(mainQ, "arm", g, n + 1)
    BY <1>0, <2>1, QueueConsumed
  <2>5. ASSUME NEW p \in Place, NEW n \in Nat, At(g, p, n)'
        PROVE  \/ p # "arm" /\ At(g, p, n)
               \/ p = "arm" /\ n >= 1 /\ At(g, "arm", n + 1)
    <3>1. CASE p = "arm"
      <4>1. BlockAt(mainQ', "arm", g, n)
        BY <2>5, <3>1 DEF At, FrameAt, FlagAt, Thread
      <4>2. QED
        BY <2>2, <3>1, <4>1 DEF At
    <3>2. CASE p # "arm"
      BY <2>1, <2>5, <3>2 DEF At
    <3>3. QED
      BY <3>1, <3>2
  <2>6. Follows(g, "arm", "arm", 0)
    BY <2>5 DEF Follows
  <2>7. QED
    BY <1>0, <2>6, Popped
<1>3. CASE StopAll
  <2>1. /\ stack["main"] = <<>> /\ stack'["delegate"] = stack["delegate"]
        /\ \A n \in DOMAIN stack'["main"] :
              n \in Nat /\ n >= 1 /\ \E f \in Fetcher : stack'["main"][n] = Stop(f, TRUE) /\ fetcher'[f].stopped
        /\ \A f \in Fetcher : \E stopped, barred \in BOOLEAN :
              /\ fetcher'[f] = [fetcher[f] EXCEPT !.barred = barred, !.stopped = stopped]
              /\ fetcher[f].stopped => stopped
    BY Zenon, <1>3, StopAllDoes
  <2>2. \A p, n : FrameAt(stack', g, p, n) => FrameAt(stack, g, p, n)
    <3>1. ASSUME NEW n \in DOMAIN stack'["main"] PROVE stack'["main"][n].op \notin Carries
      <4>1. PICK f \in Fetcher : stack'["main"][n] = Stop(f, TRUE)
        BY Zenon, <2>1
      <4>2. QED
        BY <4>1 DEF Stop, Carries
    <3>2. QED
      BY Zenon, <2>1, <3>1 DEF FrameAt, Thread
  <2>3. \A p, n : FlagAt(fetcher'[g], p, n) => FlagAt(fetcher[g], p, n)
    <3>1. fetcher'[g].begun = fetcher[g].begun /\ fetcher'[g].asking = fetcher[g].asking
          /\ fetcher'[g].timer = fetcher[g].timer
      <4>1. PICK stopped, barred \in BOOLEAN : fetcher'[g] = [fetcher[g] EXCEPT !.barred = barred, !.stopped = stopped]
        BY Zenon, <2>1
      <4>2. QED
        BY <1>0, <4>1 DEF FetcherType
    <3>2. QED
      BY <3>1 DEF FlagAt
  <2>4. \A n : ~DelayedAt(service'.delayed, g, n)
    <3>1. service'.delayed = [h \in Host |-> <<>>]
      BY Zenon, <1>3 DEF StopAll, TypeOK, ServiceType
    <3>2. HostOf[g] \in Host
      BY DEF Host
    <3>3. QED
      BY <3>1, <3>2 DEF DelayedAt
  <2>5. UNCHANGED <<net, delegateQ, mainQ>>
    BY Zenon, <1>3 DEF StopAll
  <2>6. ASSUME NEW p \in Place, NEW n \in Nat, At(g, p, n)' PROVE At(g, p, n)
    BY <2>2, <2>3, <2>4, <2>5, <2>6 DEF At
  <2>7. QED
    BY <1>0, <2>6, Stayed
<1>4. CASE DiscardTimerFired
  <2>1. UNCHANGED <<fetcher, service, net, delegateQ, mainQ>> /\ Idle("main") /\ disp.timer \in Nat
    BY <1>4 DEF DiscardTimerFired, TypeOK, DispType
  <2>2. stack' = [stack EXCEPT !["main"] = <<[Frame("discard", None) EXCEPT !.delay = disp.timer]>>]
        \/ stack' = [stack EXCEPT !["main"] = <<>>]
    BY <1>4 DEF DiscardTimerFired
  <2>3. \A p, n : FrameAt(stack', g, p, n) => FrameAt(stack, g, p, n)
    <3>1. CASE stack' = [stack EXCEPT !["main"] = <<>>]
      BY <2>1, <3>1 DEF Idle, FrameAt, TypeOK, StackType
    <3>2. CASE stack' = [stack EXCEPT !["main"] = <<[Frame("discard", None) EXCEPT !.delay = disp.timer]>>]
      <4>1. PICK y \in FrameType : y.op \notin Carries /\ stack' = [stack EXCEPT !["main"] = <<y>>]
        BY <2>1, <3>2 DEF Frame, FrameType, Carries
      <4>2. QED
        BY <1>0, <2>1, <4>1, FramesPushed
    <3>3. QED
      BY <2>2, <3>1, <3>2
  <2>4. ASSUME NEW p \in Place, NEW n \in Nat, At(g, p, n)' PROVE At(g, p, n)
    BY <2>1, <2>3, <2>4 DEF At
  <2>5. QED
    BY <1>0, <2>4, Stayed
<1>5. ASSUME NEW f \in Fetcher, RetryTimerFired(f) PROVE OnePlace(g)' /\ (Nowhere(g) => Nowhere(g)')
  <2>1. /\ UNCHANGED <<service, net, stack, mainQ>> /\ fetcher[f].timer
        /\ fetcher' = [fetcher EXCEPT ![f].timer = FALSE, ![f].retries = @ + 1]
    BY <1>5 DEF RetryTimerFired
  <2>2. PICK e \in EventType : e.f = f /\ delegateQ' = Append(delegateQ, e)
    BY <1>5 DEF RetryTimerFired, EventType
  <2>3. PICK j \in Nat : j = Len(delegateQ) + 1
    BY <1>0
  <2>4. \A n : EventAt(delegateQ', g, n) => EventAt(delegateQ, g, n) \/ (n = j /\ g = f)
    BY <1>0, <2>2, <2>3, QueueAppended
  <2>5. \A p, n : FlagAt(fetcher'[g], p, n) => FlagAt(fetcher[g], p, n) /\ ~(p = "timer" /\ g = f)
    <3>1. g # f => fetcher'[g] = fetcher[g]
      BY <1>0, <2>1
    <3>2. fetcher'[g].begun = fetcher[g].begun /\ fetcher'[g].asking = fetcher[g].asking
          /\ fetcher'[f].timer = FALSE
      BY <1>0, <2>1 DEF FetcherType
    <3>3. QED
      BY <3>1, <3>2 DEF FlagAt
  <2>6. g = f => At(g, "timer", 0)
    BY <2>1 DEF At, FlagAt
  <2>7. ASSUME NEW p \in Place, NEW n \in Nat, At(g, p, n)', g = f
        PROVE  \/ At(g, p, n) /\ ~(p = "timer" /\ n = 0)
               \/ p = "event" /\ n = j /\ At(g, "timer", 0)
    BY <2>1, <2>4, <2>5, <2>6, <2>7 DEF At, FrameAt, Thread
  <2>8. ASSUME g = f PROVE Moves(g, "timer", 0, "event", j)
    BY <2>7, <2>8 DEF Moves
  <2>9. ASSUME NEW p \in Place, NEW n \in Nat, At(g, p, n)', g # f
        PROVE  At(g, p, n)
    BY <2>1, <2>4, <2>5, <2>9 DEF At
  <2>10. CASE g = f
    BY <1>0, <2>8, <2>10, Moved
  <2>11. CASE g # f
    BY <1>0, <2>9, <2>11, Stayed
  <2>12. QED
    BY <2>10, <2>11
<1>6. ASSUME NEW f \in Fetcher, ClientStop(f) PROVE OnePlace(g)' /\ (Nowhere(g) => Nowhere(g)')
  <2>1. /\ UNCHANGED <<service, net, delegateQ, mainQ>> /\ Idle("main")
        /\ fetcher' = [fetcher EXCEPT ![f].stopped = TRUE]
    BY <1>6 DEF ClientStop
  <2>2. PICK y \in FrameType : y.op \notin Carries /\ stack' = [stack EXCEPT !["main"] = <<y>>]
    <3>1. Stop(f, TRUE) \in FrameType /\ Stop(f, TRUE).op \notin Carries
      BY DEF Stop, FrameType, Op, Carries
    <3>2. stack' = [stack EXCEPT !["main"] = <<Stop(f, TRUE)>>]
      BY <1>6 DEF ClientStop
    <3>3. QED
      BY <3>1, <3>2
  <2>3. \A p, n : FrameAt(stack', g, p, n) => FrameAt(stack, g, p, n)
    BY <1>0, <2>1, <2>2, FramesPushed
  <2>4. \A p, n : FlagAt(fetcher'[g], p, n) => FlagAt(fetcher[g], p, n)
    <3>1. fetcher'[g].begun = fetcher[g].begun /\ fetcher'[g].asking = fetcher[g].asking
          /\ fetcher'[g].timer = fetcher[g].timer
      BY <1>0, <2>1 DEF FetcherType
    <3>2. QED
      BY <3>1 DEF FlagAt
  <2>5. ASSUME NEW p \in Place, NEW n \in Nat, At(g, p, n)' PROVE At(g, p, n)
    BY <2>1, <2>3, <2>4, <2>5 DEF At
  <2>6. QED
    BY <1>0, <2>5, Stayed
<1>7. ASSUME NEW f \in Fetcher, NEW q \in {"new", "asking"}, Idle("main"), NEW y \in FrameType,
             y.f = f, stack' = [stack EXCEPT !["main"] = <<y>>],
             UNCHANGED <<service, net, delegateQ, mainQ>>, FlagAt(fetcher[f], q, 0),
             \A p, n : FlagAt(fetcher'[g], p, n) => FlagAt(fetcher[g], p, n) /\ ~(p = q /\ g = f)
      PROVE  OnePlace(g)' /\ (Nowhere(g) => Nowhere(g)')
  <2>1. \A p, n : FrameAt(stack', g, p, n) => FrameAt(stack, g, p, n) \/ (p = "main" /\ n = 1 /\ f = g)
    BY <1>0, <1>7, FramesPushed
  <2>2. g = f => At(g, q, 0)
    BY <1>7 DEF At
  <2>3. ASSUME NEW p \in Place, NEW n \in Nat, At(g, p, n)', g = f
        PROVE  \/ At(g, p, n) /\ ~(p = q /\ n = 0)
               \/ p = "main" /\ n = 1 /\ At(g, q, 0)
    <3>1. CASE FrameAt(stack', g, p, n)
      BY <2>1, <2>2, <2>3, <3>1 DEF At, FrameAt, Thread
    <3>2. CASE ~FrameAt(stack', g, p, n)
      BY <1>7, <2>3, <3>2 DEF At
    <3>3. QED
      BY <3>1, <3>2
  <2>4. ASSUME g = f PROVE Moves(g, q, 0, "main", 1)
    BY <2>3, <2>4 DEF Moves
  <2>5. ASSUME NEW p \in Place, NEW n \in Nat, At(g, p, n)', g # f
        PROVE  At(g, p, n)
    BY <1>7, <2>1, <2>5 DEF At
  <2>6. CASE g = f
    BY <1>0, <2>4, <2>6, Moved
  <2>7. CASE g # f
    BY <1>0, <2>5, <2>7, Stayed
  <2>8. QED
    BY <2>6, <2>7
<1>8. ASSUME NEW f \in Fetcher, ClientBegin(f) PROVE OnePlace(g)' /\ (Nowhere(g) => Nowhere(g)')
  <2>1. /\ UNCHANGED <<service, net, delegateQ, mainQ>> /\ Idle("main") /\ ~fetcher[f].begun
        /\ fetcher' = [fetcher EXCEPT ![f].begun = TRUE]
        /\ stack' = [stack EXCEPT !["main"] = <<Begin(f, TRUE, TRUE)>>]
    BY <1>8 DEF ClientBegin
  <2>2. PICK y \in FrameType : y.f = f /\ stack' = [stack EXCEPT !["main"] = <<y>>]
    <3>1. Begin(f, TRUE, TRUE) \in FrameType /\ Begin(f, TRUE, TRUE).f = f
      BY DEF Begin, FrameType, Op
    <3>2. QED
      BY <2>1, <3>1
  <2>3. \A p, n : FlagAt(fetcher'[g], p, n) => FlagAt(fetcher[g], p, n) /\ ~(p = "new" /\ g = f)
    <3>1. g # f => fetcher'[g] = fetcher[g]
      BY <1>0, <2>1
    <3>2. fetcher'[f].begun = TRUE /\ fetcher'[g].asking = fetcher[g].asking /\ fetcher'[g].timer = fetcher[g].timer
      BY <1>0, <2>1 DEF FetcherType
    <3>3. QED
      BY <3>1, <3>2 DEF FlagAt
  <2>4. FlagAt(fetcher[f], "new", 0)
    BY <2>1 DEF FlagAt
  <2>5. QED
    BY <1>7, <2>1, <2>2, <2>3, <2>4
<1>9. ASSUME NEW f \in Fetcher, NEW ok \in BOOLEAN, AuthorizerFinished(f, ok)
      PROVE  OnePlace(g)' /\ (Nowhere(g) => Nowhere(g)')
  <2>1. /\ UNCHANGED <<service, net, delegateQ, mainQ>> /\ Idle("main") /\ fetcher[f].asking
        /\ fetcher' = [fetcher EXCEPT ![f].asking = FALSE]
        /\ \/ stack' = [stack EXCEPT !["main"] = <<Begin(f, FALSE, FALSE)>>]
           \/ stack' = [stack EXCEPT !["main"] = <<Frame("fail", f)>>]
    BY <1>9 DEF AuthorizerFinished
  <2>2. PICK y \in FrameType : y.f = f /\ stack' = [stack EXCEPT !["main"] = <<y>>]
    <3>1. Begin(f, FALSE, FALSE) \in FrameType /\ Begin(f, FALSE, FALSE).f = f
      BY DEF Begin, FrameType, Op
    <3>2. Frame("fail", f) \in FrameType /\ Frame("fail", f).f = f
      BY DEF Frame, FrameType, Op
    <3>3. QED
      BY <2>1, <3>1, <3>2
  <2>3. \A p, n : FlagAt(fetcher'[g], p, n) => FlagAt(fetcher[g], p, n) /\ ~(p = "asking" /\ g = f)
    <3>1. g # f => fetcher'[g] = fetcher[g]
      BY <1>0, <2>1
    <3>2. fetcher'[f].asking = FALSE /\ fetcher'[g].begun = fetcher[g].begun /\ fetcher'[g].timer = fetcher[g].timer
      BY <1>0, <2>1 DEF FetcherType
    <3>3. QED
      BY <3>1, <3>2 DEF FlagAt
  <2>4. FlagAt(fetcher[f], "asking", 0)
    BY <2>1 DEF FlagAt
  <2>5. QED
    BY <1>7, <2>1, <2>2, <2>3, <2>4
<1>10. QED
  BY <1>1, <1>2, <1>3, <1>4, <1>5, <1>6, <1>8, <1>9

\* A fetch is at one place at most, and one that is nowhere stays there.
LEMMA PlacesStep ==
  ASSUME FetcherServiceAssumption, TypeOK, Places, Owners, [Next]_vars, NEW g \in Fetcher
  PROVE  OnePlace(g)' /\ (Nowhere(g) => Nowhere(g)')
<1>1. CASE UNCHANGED vars
  <2>1. ASSUME NEW p \in Place, NEW n \in Nat, At(g, p, n)' PROVE At(g, p, n)
    BY <1>1, <2>1 DEF vars, At
  <2>2. QED
    BY <2>1, Stayed DEF Places
<1>2. ASSUME NEW t \in Thread, RunFrame(t) PROVE OnePlace(g)' /\ (Nowhere(g) => Nowhere(g)')
  BY <1>2, BeginningPlaces, AdmitPlaces, LaunchPlaces, StopPlaces, DidStopPlaces DEF RunFrame
<1>3. ASSUME NEW k \in DOMAIN net.tasks, TaskEnds(k) PROVE OnePlace(g)' /\ (Nowhere(g) => Nowhere(g)')
  BY <1>3, TaskPlaces
<1>4. QED
  BY <1>1, <1>2, <1>3, CompletedPlaces, RetryPlaces, MainPlaces DEF Next, Work

----------------------------------------------------------------------------
(* Owners.                                                                 *)

\* A frame gives a task to its own fetcher only and cancels its own fetcher's task only.
LEMMA OwnersAfterFrames ==
  ASSUME FetcherServiceAssumption, TypeOK, Owners, NEW t \in Thread, RunFrame(t)
  PROVE  Owners'
<1> DEFINE x == Head(stack[t])
           f == x.f
<1>0. /\ fetcher \in [Fetcher -> FetcherType] /\ service \in ServiceType /\ net \in NetType
      /\ net.tasks \in TaskMap /\ net.next \in Nat
      /\ delegateQ \in Seq(EventType)
  BY DEF TypeOK, NetType
<1>1. ASSUME NEW g \in Fetcher, UNCHANGED <<net.tasks, net.next>>,
             fetcher'[g].task = fetcher[g].task \/ fetcher'[g].task = None
      PROVE  TaskOwned(g)'
  BY <1>1 DEF Owners, TaskOwned, Owner
<1>2. ASSUME UNCHANGED <<net.tasks, net.next, delegateQ>>, NEW n \in DOMAIN delegateQ'
      PROVE  EventOwned(delegateQ[n])'
  BY <1>2 DEF Owners, EventOwned, Owner
<1>3. ASSUME service'.delayed = service.delayed, NEW h \in Host
      PROVE  ListOwned(h)'
  BY <1>3 DEF Owners, ListOwned
<1>4. ASSUME UNCHANGED <<net.tasks, net.next>> PROVE TasksNumbered'
  BY <1>4 DEF Owners, TasksNumbered
<1>5. CASE BeginFetch(t) \/ CreateSession(t) \/ FailToBegin(t) \/ ClearHost(t) \/ BeginForRetry(t)
           \/ NoteHost(t) \/ DiscardSession(t)
  <2>1. UNCHANGED <<net.tasks, net.next, delegateQ>> /\ service'.delayed = service.delayed
    BY Zenon, <1>0, <1>5 DEF BeginFetch, CreateSession, FailToBegin, ClearHost, BeginForRetry, NoteHost, DiscardSession,
                      ServiceType, NetType
  <2>2. ASSUME NEW g \in Fetcher PROVE fetcher'[g].task = fetcher[g].task
    <3>1. PICK i, a, b, c : \/ fetcher' = fetcher
                           \/ fetcher' = [fetcher EXCEPT ![i].session = a]
                           \/ fetcher' = [fetcher EXCEPT ![i].host = b, ![i].session = a]
                           \/ fetcher' = [fetcher EXCEPT ![i].host = b]
                           \/ fetcher' = [fetcher EXCEPT ![i].handler = c]
      BY <1>5, Zenon DEF BeginFetch, CreateSession, FailToBegin, ClearHost, BeginForRetry, NoteHost, DiscardSession
    <3>2. fetcher[g] \in FetcherType
      BY <1>0
    <3>3. fetcher'[g] \in {fetcher[g], [fetcher[g] EXCEPT !.session = a], [fetcher[g] EXCEPT !.host = b, !.session = a],
                          [fetcher[g] EXCEPT !.host = b], [fetcher[g] EXCEPT !.handler = c]}
      <4>1. CASE fetcher' = fetcher
        BY <4>1
      <4>2. CASE fetcher' = [fetcher EXCEPT ![i].session = a]
        BY <1>0, <4>2
      <4>3. CASE fetcher' = [fetcher EXCEPT ![i].host = b, ![i].session = a]
        BY <1>0, <4>3
      <4>4. CASE fetcher' = [fetcher EXCEPT ![i].host = b]
        BY <1>0, <4>4
      <4>5. CASE fetcher' = [fetcher EXCEPT ![i].handler = c]
        BY <1>0, <4>5
      <4>6. QED
        BY <3>1, <4>1, <4>2, <4>3, <4>4, <4>5
    <3>4. QED
      BY <3>2, <3>3 DEF FetcherType
  <2>3. QED
    BY <1>1, <1>2, <1>3, <1>4, <2>1, <2>2 DEF Owners
<1>6. CASE Admit(t)
  <2>1. UNCHANGED <<fetcher, net, delegateQ>>
    BY Zenon, <1>6 DEF Admit
  <2>2. x \in Working
    BY Zenon, <1>6, Running DEF Admit
  <2>3. f \in Fetcher
    BY <2>2 DEF Working
  <2> DEFINE h == HostOf[f]
             q == service.delayed[h]
             r == Append(q, f)
  <2>4. h \in Host /\ q \in Seq(Fetcher)
    BY <1>0, <2>3 DEF Host, ServiceType
  <2>5. service'.delayed = service.delayed \/ service' = [service EXCEPT !.delayed[h] = r]
    BY Zenon, <1>0, <1>6 DEF Admit, ServiceType
  <2>6. CASE service' = [service EXCEPT !.delayed[h] = r]
    <3>1. Len(q) \in Nat /\ DOMAIN r = DOMAIN q \cup {Len(q) + 1} /\ r[Len(q) + 1] = f
          /\ \A n \in DOMAIN q : r[n] = q[n]
      <4> HIDE DEF q, f, r
      <4>1. QED
        BY <2>3, <2>4, Appended DEF r
    <3>2. ListOwned(h)
      BY <2>4 DEF Owners
    <3> HIDE DEF r
    <3>3. \A i \in Host : service'.delayed[i] = IF i = h THEN r ELSE service.delayed[i]
      BY <1>0, <2>4, <2>6 DEF ServiceType
    <3>4. \A n \in DOMAIN r : HostOf[r[n]] = h
      BY Zenon, <3>1, <3>2 DEF ListOwned
    <3> HIDE DEF h
    <3>5. \A i \in Host : ListOwned(i)'
      BY <3>3, <3>4 DEF Owners, ListOwned
    <3>6. QED
      BY <1>1, <1>2, <1>4, <2>1, <3>5 DEF Owners
  <2>7. QED
    BY Zenon, <1>1, <1>2, <1>3, <1>4, <2>1, <2>5, <2>6 DEF Owners
<1>7. CASE Launch(t)
  <2>1. UNCHANGED <<service, delegateQ>>
    BY <1>7 DEF Launch
  <2>2. x \in Working
    BY <1>7, Running DEF Launch
  <2>3. f \in Fetcher
    BY <2>2 DEF Working
  <2>4. CASE UNCHANGED <<net.tasks, net.next>> /\ \A g \in Fetcher : fetcher'[g].task = fetcher[g].task
    BY <1>1, <1>2, <1>3, <1>4, <2>1, <2>4 DEF Owners
  <2>5. CASE /\ net'.tasks = Put(net.tasks, net.next, f) /\ net'.next = net.next + 1
             /\ fetcher' = [fetcher EXCEPT ![f].task = net.next]
    <3>1. \A g, k : Owner(g, k) => Owner(g, k)'
      BY <1>0, <2>5 DEF Owner, Put
    <3>2. PICK k, i : k = net.next /\ i = f /\ Owner(i, k)'
      <4>1. PICK k, i : k = net.next /\ i = f
        OBVIOUS
      <4>2. Owner(i, k)'
        BY <1>0, <2>5, <4>1 DEF Owner, Put
      <4>3. QED
        BY <4>1, <4>2
    <3>3. ASSUME NEW g \in Fetcher PROVE TaskOwned(g)'
      <4>1. fetcher'[g].task = IF g = i THEN k ELSE fetcher[g].task
        BY <1>0, <2>3, <2>5, <3>2 DEF FetcherType
      <4>2. QED
        BY <3>1, <3>2, <4>1 DEF Owners, TaskOwned, Owner
    <3>4. ASSUME NEW n \in DOMAIN delegateQ' PROVE EventOwned(delegateQ[n])'
      BY <2>1, <3>1 DEF Owners, EventOwned
    <3>5. TasksNumbered'
      BY <1>0, <2>5, MapsKeepTheirType DEF Owners, TasksNumbered, Put
    <3>6. QED
      BY <1>3, <2>1, <3>3, <3>4, <3>5 DEF Owners
  <2>6. (UNCHANGED <<net.tasks, net.next>> /\ \A g \in Fetcher : fetcher'[g].task = fetcher[g].task)
        \/ (/\ net'.tasks = Put(net.tasks, net.next, f) /\ net'.next = net.next + 1
            /\ fetcher' = [fetcher EXCEPT ![f].task = net.next])
    <3>1. \/ fetcher' = [fetcher EXCEPT ![f].session = None, ![f].asking = TRUE] /\ net' = net
          \/ fetcher' = fetcher /\ \E d : net' = [net EXCEPT !.dead = d]
          \/ fetcher' = [fetcher EXCEPT ![f].task = net.next]
             /\ net' = [net EXCEPT !.next = net.next + 1, !.tasks = Put(net.tasks, net.next, f)]
      BY <1>7 DEF Launch
    <3>2. CASE fetcher' = [fetcher EXCEPT ![f].session = None, ![f].asking = TRUE] /\ net' = net
      BY <1>0, <2>3, <3>2 DEF FetcherType
    <3>3. CASE fetcher' = fetcher /\ \E d : net' = [net EXCEPT !.dead = d]
      BY <1>0, <3>3 DEF NetType
    <3>4. CASE fetcher' = [fetcher EXCEPT ![f].task = net.next]
               /\ net' = [net EXCEPT !.next = net.next + 1, !.tasks = Put(net.tasks, net.next, f)]
      BY <1>0, <3>4 DEF NetType
    <3>5. QED
      BY <3>1, <3>2, <3>3, <3>4
  <2>7. QED
    BY <2>4, <2>5, <2>6
<1>8. CASE StopFetch(t)
  <2>1. UNCHANGED service
    BY Zenon, <1>8 DEF StopFetch
  <2>2. x \in Working
    BY Zenon, <1>8, Running DEF StopFetch
  <2>3. f \in Fetcher
    BY <2>2 DEF Working
  <2> DEFINE k == fetcher[f].task
             e == [op |-> "complete", f |-> f, task |-> k, outcome |-> "cancel"]
  <2>4. ASSUME NEW g \in Fetcher PROVE fetcher'[g].task = fetcher[g].task \/ fetcher'[g].task = None
    <3>0. PICK i : i = f
      OBVIOUS
    <3>1. PICK b : fetcher' = [fetcher EXCEPT ![i] = [fetcher[i] EXCEPT !.timer = FALSE, !.task = None, !.asking = FALSE,
                                                                       !.handler = b]]
      BY Zenon, <1>0, <1>8, <2>3, <3>0 DEF StopFetch
    <3>2. CASE g = f
      <4>1. fetcher'[i] = [fetcher[i] EXCEPT !.timer = FALSE, !.task = None, !.asking = FALSE, !.handler = b]
        BY <1>0, <2>3, <3>0, <3>1
      <4>2. fetcher[i] \in FetcherType
        BY <1>0, <2>3, <3>0
      <4>3. fetcher'[i].task = None
        BY <4>1, <4>2 DEF FetcherType
      <4>4. QED
        BY <3>0, <3>2, <4>3
    <3>3. CASE g # f
      BY <1>0, <3>0, <3>1, <3>3
    <3>4. QED
      BY <3>2, <3>3
  <2>5. CASE net' = net /\ delegateQ' = delegateQ
    BY <1>1, <1>2, <1>3, <1>4, <2>1, <2>4, <2>5 DEF Owners
  <2>6. CASE k # None /\ k \in DOMAIN net.tasks
    <3>1. net'.tasks = Drop(net.tasks, {k}) /\ net'.next = net.next /\ delegateQ' = Append(delegateQ, e)
      BY Zenon, <1>0, <1>8, <2>6 DEF StopFetch, NetType
    <3>2. \A g, j : Owner(g, j) => Owner(g, j)'
      BY <1>0, <3>1 DEF Owner, Drop
    <3>3. Owner(f, k)
      BY <2>3, <2>6 DEF Owners, TaskOwned
    <3>4. ASSUME NEW g \in Fetcher PROVE TaskOwned(g)'
      BY <2>4, <3>2 DEF Owners, TaskOwned
    <3>5. Len(delegateQ) \in Nat /\ DOMAIN delegateQ' = DOMAIN delegateQ \cup {Len(delegateQ) + 1}
          /\ delegateQ'[Len(delegateQ) + 1] = e
          /\ \A n \in DOMAIN delegateQ : delegateQ'[n] = delegateQ[n]
      <4>1. e \in EventType
        BY <2>3, <3>3 DEF EventType, Owner
      <4> HIDE DEF e
      <4>2. QED
        BY <1>0, <3>1, <4>1, Appended
    <3>6. e.f = f /\ e.task = k
      OBVIOUS
    <3> HIDE DEF e, k, f
    <3>7. ASSUME NEW n \in DOMAIN delegateQ' PROVE EventOwned(delegateQ[n])'
      <4>1. CASE n \in DOMAIN delegateQ
        BY <3>2, <3>5, <4>1 DEF Owners, EventOwned
      <4>2. CASE n = Len(delegateQ) + 1
        BY <3>2, <3>3, <3>5, <3>6, <4>2 DEF EventOwned
      <4>3. QED
        BY <3>5, <4>1, <4>2
    <3>8. TasksNumbered'
      BY <3>1 DEF Owners, TasksNumbered, Drop
    <3>9. QED
      BY <1>3, <2>1, <3>4, <3>7, <3>8 DEF Owners
  <2>7. QED
    BY Zenon, <1>8, <2>5, <2>6 DEF StopFetch
<1>9. CASE DidStop(t)
  <2>1. UNCHANGED <<fetcher, net, delegateQ>>
    BY Zenon, <1>9 DEF DidStop
  <2>2. CASE ~fetcher[f].host
    <3>1. service' = service
      BY <1>9, <2>2 DEF DidStop
    <3>2. QED
      BY <1>1, <1>2, <1>3, <1>4, <2>1, <3>1 DEF Owners
  <2>3. CASE fetcher[f].host
    <3> DEFINE h == HostOf[f]
    <3>1. PICK n \in Nat, d \in Seq(Fetcher), rest \in Seq(Fetcher) : Takes(t, f, h, n, d, rest)
      BY <1>9, <2>3, DidStopDoes
    <3>2. f \in Fetcher /\ h \in Host
      BY Zenon, <1>9, Running DEF DidStop, Working, Host
    <3> HIDE DEF h, f
    <3>3. \A i \in Host : service'.delayed[i] = IF i = h THEN rest ELSE service.delayed[i]
      <4> DEFINE r == (service.running[h] \ {f}) \cup {d[k] : k \in 1 .. n}
      <4>1. service' = [service EXCEPT !.running[h] = r, !.delayed[h] = rest]
        BY <3>1 DEF Takes
      <4> HIDE DEF r
      <4>2. QED
        BY <1>0, <3>2, <4>1 DEF ServiceType
    <3>4. ASSUME NEW i \in Host PROVE ListOwned(i)'
      <4>1. \A k \in DOMAIN rest : \E j \in DOMAIN service.delayed[h] : service.delayed[h][j] = rest[k]
        BY <3>1 DEF Takes
      <4>2. ListOwned(h) /\ ListOwned(i)
        BY <3>2 DEF Owners
      <4>3. QED
        BY <3>3, <4>1, <4>2 DEF ListOwned
    <3>5. QED
      BY <1>1, <1>2, <1>4, <2>1, <3>4 DEF Owners
  <2>4. QED
    BY <2>2, <2>3
<1>10. QED
  BY <1>5, <1>6, <1>7, <1>8, <1>9 DEF RunFrame

\* The delegate queue and the network know a task by its fetcher.
LEMMA OwnersAfterQueues ==
  ASSUME FetcherServiceAssumption, TypeOK, Owners,
         TaskCompleted \/ RetryFetch \/ \E k \in DOMAIN net.tasks : TaskEnds(k)
  PROVE  Owners'
<1>0. /\ fetcher \in [Fetcher -> FetcherType] /\ net \in NetType
      /\ net.tasks \in TaskMap /\ net.next \in Nat /\ delegateQ \in Seq(EventType)
  BY DEF TypeOK, NetType
<1>1. \A h \in Host : ListOwned(h)'
  BY DEF TaskCompleted, RetryFetch, TaskEnds, Owners, ListOwned
<1>2. CASE TaskCompleted \/ RetryFetch
  <2> DEFINE e == Head(delegateQ)
  <2>1. delegateQ # <<>> /\ delegateQ' = Tail(delegateQ) /\ net' = net
    BY <1>2 DEF TaskCompleted, RetryFetch
  <2>2. e \in EventType /\ \E n \in DOMAIN delegateQ : e = delegateQ[n]
    BY <1>0, <2>1, Consumed
  <2>3. \A n \in DOMAIN delegateQ' : n + 1 \in DOMAIN delegateQ /\ delegateQ'[n] = delegateQ[n + 1]
    BY <1>0, <2>1, QueueConsumed
  <2>4. \A g, k : Owner(g, k) => Owner(g, k)'
    BY <2>1 DEF Owner
  <2>5. ASSUME NEW n \in DOMAIN delegateQ' PROVE EventOwned(delegateQ[n])'
    BY <2>3, <2>4 DEF Owners, EventOwned
  <2>6. fetcher' = fetcher \/ (e.op = "complete" /\ fetcher' = [fetcher EXCEPT ![e.f].task = e.task])
    BY <1>2 DEF TaskCompleted, RetryFetch
  <2>7. e.op = "complete" => Owner(e.f, e.task)
    BY <2>2 DEF Owners, EventOwned
  <2>8. ASSUME NEW g \in Fetcher PROVE TaskOwned(g)'
    <3>1. fetcher'[g].task = fetcher[g].task \/ (e.op = "complete" /\ g = e.f /\ fetcher'[g].task = e.task)
      BY <1>0, <2>2, <2>6 DEF FetcherType
    <3>2. PICK i, k : i = e.f /\ k = e.task
      OBVIOUS
    <3> HIDE DEF e
    <3>3. QED
      BY <2>4, <2>7, <3>1, <3>2 DEF Owners, TaskOwned
  <2>9. TasksNumbered'
    BY <2>1 DEF Owners, TasksNumbered
  <2>10. QED
    BY <1>1, <2>5, <2>8, <2>9 DEF Owners
<1>3. ASSUME NEW k \in DOMAIN net.tasks, TaskEnds(k) PROVE Owners'
  <2>1. net.tasks[k] \in Fetcher /\ k \in Nat
    BY <1>0, MapsKeepTheirType
  <2>2. PICK e \in EventType : e.f = net.tasks[k] /\ e.task = k /\ delegateQ' = Append(delegateQ, e)
    <3>1. PICK outcome \in {"ok", "retry", "fail"} :
            delegateQ' = Append(delegateQ, [op |-> "complete", f |-> net.tasks[k], task |-> k, outcome |-> outcome])
      BY <1>3 DEF TaskEnds
    <3>2. [op |-> "complete", f |-> net.tasks[k], task |-> k, outcome |-> outcome] \in EventType
      BY <2>1 DEF EventType
    <3>3. QED
      BY <3>1, <3>2
  <2>3. net'.tasks = Drop(net.tasks, {k}) /\ net'.next = net.next /\ fetcher' = fetcher
    BY <1>0, <1>3 DEF TaskEnds, NetType
  <2>4. \A g, j : Owner(g, j) => Owner(g, j)'
    BY <1>0, <2>3 DEF Owner, Drop
  <2>5. k < net.next => Owner(e.f, e.task)'
    BY <2>1, <2>2, <2>3 DEF Owner, Drop
  <2>6. Len(delegateQ) \in Nat /\ DOMAIN delegateQ' = DOMAIN delegateQ \cup {Len(delegateQ) + 1}
          /\ delegateQ'[Len(delegateQ) + 1] = e
          /\ \A n \in DOMAIN delegateQ : delegateQ'[n] = delegateQ[n]
    BY <1>0, <2>2, Appended
  <2>7. k < net.next
    BY DEF Owners, TasksNumbered
  <2>8. ASSUME NEW n \in DOMAIN delegateQ' PROVE EventOwned(delegateQ[n])'
    <3>1. CASE n \in DOMAIN delegateQ
      BY <2>4, <2>6, <3>1 DEF Owners, EventOwned
    <3>2. CASE n = Len(delegateQ) + 1
      BY <2>5, <2>6, <2>7, <3>2 DEF EventOwned
    <3>3. QED
      BY <2>6, <3>1, <3>2
  <2>9. ASSUME NEW g \in Fetcher PROVE TaskOwned(g)'
    BY <2>3, <2>4 DEF Owners, TaskOwned
  <2>10. TasksNumbered'
    BY <2>3 DEF Owners, TasksNumbered, Drop
  <2>11. QED
    BY <1>1, <2>8, <2>9, <2>10 DEF Owners
<1>4. QED
  BY <1>2, <1>3

\* A task has one owner, from its creation to its last event.
LEMMA OwnersStep ==
  ASSUME FetcherServiceAssumption, TypeOK, Owners, [Next]_vars
  PROVE  Owners'
<1>0. /\ fetcher \in [Fetcher -> FetcherType] /\ delegateQ \in Seq(EventType)
  BY DEF TypeOK
<1>1. ASSUME UNCHANGED net, \A g \in Fetcher : fetcher'[g].task = fetcher[g].task,
             service' = service \/ (\A h \in Host : service'.delayed[h] = <<>>),
             \A n \in DOMAIN delegateQ' : \/ n \in DOMAIN delegateQ /\ delegateQ'[n] = delegateQ[n]
                                          \/ delegateQ'[n].op # "complete"
      PROVE  Owners'
  <2>1. \A g, k : Owner(g, k) => Owner(g, k)'
    BY <1>1 DEF Owner
  <2>2. TasksNumbered'
    BY <1>1 DEF TasksNumbered, Owners
  <2>3. ASSUME NEW g \in Fetcher PROVE TaskOwned(g)'
    BY <1>1, <2>1 DEF Owners, TaskOwned
  <2>4. ASSUME NEW n \in DOMAIN delegateQ' PROVE EventOwned(delegateQ[n])'
    BY <1>1, <2>1 DEF Owners, EventOwned
  <2>5. ASSUME NEW h \in Host PROVE ListOwned(h)'
    BY <1>1 DEF Owners, ListOwned
  <2>6. QED
    BY <2>2, <2>3, <2>4, <2>5 DEF Owners
<1>2. CASE BeginRetryTimer
  <2>1. UNCHANGED <<net, service, delegateQ>> /\ fetcher' = [fetcher EXCEPT ![Head(mainQ).f].timer = TRUE]
    BY <1>2 DEF BeginRetryTimer
  <2>2. \A g \in Fetcher : fetcher'[g].task = fetcher[g].task
    BY <1>0, <2>1 DEF FetcherType
  <2>3. QED
    BY <1>1, <2>1, <2>2
<1>3. CASE InvokeHandler \/ DiscardTimerFired \/ UNCHANGED vars
  BY <1>1, <1>3 DEF InvokeHandler, DiscardTimerFired, vars
<1>4. CASE StopAll
  <2>1. UNCHANGED <<net, delegateQ>> /\ service'.delayed = [h \in Host |-> <<>>]
    BY Zenon, <1>4 DEF StopAll, TypeOK, ServiceType
  <2>2. ASSUME NEW g \in Fetcher PROVE fetcher'[g].task = fetcher[g].task
    <3>1. PICK stopped, barred \in BOOLEAN : fetcher'[g] = [fetcher[g] EXCEPT !.barred = barred, !.stopped = stopped]
      BY Zenon, <1>4, StopAllDoes
    <3>2. QED
      BY <1>0, <3>1 DEF FetcherType
  <2>3. QED
    BY <1>1, <2>1, <2>2
<1>5. ASSUME NEW f \in Fetcher, RetryTimerFired(f) PROVE Owners'
  <2>1. /\ UNCHANGED <<net, service>>
        /\ fetcher' = [fetcher EXCEPT ![f].timer = FALSE, ![f].retries = @ + 1]
    BY <1>5 DEF RetryTimerFired
  <2>2. PICK e \in EventType : e.op = "retry" /\ delegateQ' = Append(delegateQ, e)
    BY <1>5 DEF RetryTimerFired, EventType
  <2>3. DOMAIN delegateQ' = DOMAIN delegateQ \cup {Len(delegateQ) + 1}
          /\ delegateQ'[Len(delegateQ) + 1] = e
          /\ \A n \in DOMAIN delegateQ : delegateQ'[n] = delegateQ[n]
    BY <1>0, <2>2, Appended
  <2>4. \A g \in Fetcher : fetcher'[g].task = fetcher[g].task
    BY <1>0, <2>1 DEF FetcherType
  <2>5. QED
    BY <1>1, <2>1, <2>2, <2>3, <2>4
<1>6. ASSUME NEW f \in Fetcher,
             ClientBegin(f) \/ ClientStop(f) \/ \E ok \in BOOLEAN : AuthorizerFinished(f, ok)
      PROVE  Owners'
  <2>1. /\ UNCHANGED <<net, service, delegateQ>>
        /\ \/ fetcher' = [fetcher EXCEPT ![f].begun = TRUE]
           \/ fetcher' = [fetcher EXCEPT ![f].stopped = TRUE]
           \/ fetcher' = [fetcher EXCEPT ![f].asking = FALSE]
    BY <1>6 DEF ClientBegin, ClientStop, AuthorizerFinished
  <2>2. ASSUME NEW g \in Fetcher PROVE fetcher'[g].task = fetcher[g].task
    <3>1. fetcher[g] \in FetcherType
      BY <1>0
    <3>2. CASE g # f
      BY <1>0, <2>1, <3>2
    <3>3. CASE g = f
      <4>1. \/ fetcher'[g] = [fetcher[g] EXCEPT !.begun = TRUE]
            \/ fetcher'[g] = [fetcher[g] EXCEPT !.stopped = TRUE]
            \/ fetcher'[g] = [fetcher[g] EXCEPT !.asking = FALSE]
        BY Zenon, <1>0, <2>1, <3>3
      <4>2. QED
        BY <3>1, <4>1 DEF FetcherType
    <3>4. QED
      BY <3>2, <3>3
  <2>3. QED
    BY <1>1, <2>1, <2>2
<1>7. QED
  BY <1>2, <1>3, <1>4, <1>5, <1>6, OwnersAfterFrames, OwnersAfterQueues DEF Next, Work

----------------------------------------------------------------------------
(* Answers.                                                                *)

\* A thread changes its own frames only.
LEMMA OwnFrames ==
  ASSUME TypeOK, NEW t \in Thread, RunFrame(t)
  PROVE  stack[t] # <<>> /\ \A p \in Thread : p # t => stack'[p] = stack[p]
<1>1. \E q : Replace(t, q)
  BY Zenon DEF RunFrame, BeginFetch, CreateSession, Admit, NoteHost, Launch, FailToBegin, StopFetch, DidStop,
         ClearHost, BeginForRetry, DiscardSession
<1>2. stack[t] # <<>>
  BY Zenon DEF RunFrame, BeginFetch, CreateSession, Admit, NoteHost, Launch, FailToBegin, StopFetch, DidStop,
         ClearHost, BeginForRetry, DiscardSession, Top
<1>3. QED
  BY <1>1, <1>2 DEF Replace, TypeOK, StackType

\* Nothing sets the completion handler of a fetcher again, and a stopped one stays stopped.
LEMMA FieldsLast ==
  ASSUME FetcherServiceAssumption, TypeOK, [Next]_vars, NEW g \in Fetcher
  PROVE  (fetcher'[g].handler => fetcher[g].handler) /\ (fetcher[g].stopped => fetcher'[g].stopped)
<1> DEFINE Lasting == (fetcher'[g].handler => fetcher[g].handler) /\ (fetcher[g].stopped => fetcher'[g].stopped)
<1> SUFFICES Lasting
  OBVIOUS
<1>0. fetcher \in [Fetcher -> FetcherType] /\ fetcher[g] \in FetcherType
  BY DEF TypeOK
<1>1. CASE fetcher' = fetcher
  BY <1>1
<1>2. ASSUME NEW f, NEW a, NEW b \in BOOLEAN,
             \/ fetcher' = [fetcher EXCEPT ![f].session = a]
             \/ fetcher' = [fetcher EXCEPT ![f].host = b, ![f].session = a]
             \/ fetcher' = [fetcher EXCEPT ![f].host = b]
             \/ fetcher' = [fetcher EXCEPT ![f].handler = FALSE]
      PROVE  Lasting
  BY <1>0, <1>2 DEF FetcherType
<1>3. ASSUME NEW f, NEW a, NEW b \in BOOLEAN,
             \/ fetcher' = [fetcher EXCEPT ![f].task = a]
             \/ fetcher' = [fetcher EXCEPT ![f].session = a, ![f].asking = b]
             \/ fetcher' = [fetcher EXCEPT ![f].timer = b]
             \/ fetcher' = [fetcher EXCEPT ![f].timer = b, ![f].retries = a]
      PROVE  Lasting
  BY <1>0, <1>3 DEF FetcherType
<1>4. ASSUME NEW f, NEW b \in BOOLEAN,
             \/ fetcher' = [fetcher EXCEPT ![f].begun = TRUE]
             \/ fetcher' = [fetcher EXCEPT ![f].stopped = TRUE]
             \/ fetcher' = [fetcher EXCEPT ![f].asking = b]
      PROVE  Lasting
  BY <1>0, <1>4 DEF FetcherType
<1>5. CASE StopAll
  <2>1. PICK stopped, barred \in BOOLEAN :
          /\ fetcher'[g] = [fetcher[g] EXCEPT !.barred = barred, !.stopped = stopped]
          /\ fetcher[g].stopped => stopped
    BY Zenon, <1>5, StopAllDoes
  <2>2. QED
    BY <1>0, <2>1 DEF FetcherType
<1>6. ASSUME NEW t \in Thread, StopFetch(t) PROVE Lasting
  <2>0. PICK f : f = Head(stack[t]).f
    OBVIOUS
  <2>1. f \in Fetcher
    BY Zenon, <1>6, <2>0, Running DEF StopFetch, Working
  <2>2. PICK b \in BOOLEAN : /\ b => fetcher[f].handler
                             /\ fetcher' = [fetcher EXCEPT ![f] = [fetcher[f] EXCEPT !.timer = FALSE, !.task = None,
                                                                            !.asking = FALSE, !.handler = b]]
    <3> DEFINE b == fetcher[f].handler /\ ~Head(stack[t]).delay
    <3>2. /\ b => fetcher[f].handler
          /\ fetcher' = [fetcher EXCEPT ![f] = [fetcher[f] EXCEPT !.timer = FALSE, !.task = None,
                                                                  !.asking = FALSE, !.handler = b]]
      BY Zenon, <1>0, <1>6, <2>0, <2>1 DEF StopFetch
    <3>3. b \in BOOLEAN
      OBVIOUS
    <3> HIDE DEF b
    <3>4. QED
      BY Zenon, <3>2, <3>3
  <2>3. CASE f = g
    <3>1. fetcher'[g] = [fetcher[g] EXCEPT !.timer = FALSE, !.task = None, !.asking = FALSE, !.handler = b]
      BY <1>0, <2>2, <2>3
    <3>2. QED
      BY <1>0, <2>2, <2>3, <3>1 DEF FetcherType
  <2>4. CASE f # g
    BY <1>0, <2>2, <2>4
  <2>5. QED
    BY <2>3, <2>4
<1> HIDE DEF Lasting
<1>7. ASSUME NEW t \in Thread, RunFrame(t), ~StopFetch(t) PROVE Lasting
  <2> DEFINE x == Head(stack[t])
  <2>1. CASE BeginFetch(t)
    <3>1. fetcher' = fetcher \/ \E a : fetcher' = [fetcher EXCEPT ![x.f].session = a]
      BY <2>1 DEF BeginFetch
    <3>2. QED
      BY <1>1, <1>2, <3>1 DEF Lasting
  <2>2. CASE CreateSession(t) \/ BeginForRetry(t) \/ FailToBegin(t) \/ ClearHost(t)
    <3>1. \E a : \/ fetcher' = [fetcher EXCEPT ![x.f].session = a]
                 \/ fetcher' = [fetcher EXCEPT ![x.f].host = FALSE]
                 \/ fetcher' = [fetcher EXCEPT ![x.f].handler = FALSE]
      BY <2>2 DEF CreateSession, BeginForRetry, FailToBegin, ClearHost
    <3>2. QED
      BY Zenon, <1>2, <3>1
  <2>3. CASE NoteHost(t)
    <3>1. \E a : fetcher' = [fetcher EXCEPT ![x.f].host = TRUE, ![x.f].session = a]
      BY Zenon, <2>3 DEF NoteHost
    <3>2. QED
      BY Zenon, <1>2, <3>1
  <2>4. CASE Launch(t)
    <3>1. \E a : \/ fetcher' = fetcher
                 \/ fetcher' = [fetcher EXCEPT ![x.f].task = a]
                 \/ fetcher' = [fetcher EXCEPT ![x.f].session = a, ![x.f].asking = TRUE]
      BY Zenon, <2>4 DEF Launch
    <3>2. QED
      BY <1>1, <1>3, <3>1 DEF Lasting
  <2>5. CASE Admit(t) \/ DidStop(t) \/ DiscardSession(t)
    BY Zenon, <1>1, <2>5 DEF Admit, DidStop, DiscardSession, Lasting
  <2>6. QED
    BY <1>7, <2>1, <2>2, <2>3, <2>4, <2>5 DEF RunFrame
<1>8. CASE TaskCompleted
  <2>1. \E f, a : fetcher' = fetcher \/ fetcher' = [fetcher EXCEPT ![f].task = a]
    BY <1>8 DEF TaskCompleted
  <2>2. QED
    BY <1>1, <1>3, <2>1 DEF Lasting
<1>9. CASE BeginRetryTimer \/ \E f \in Fetcher : RetryTimerFired(f)
  <2>1. PICK b \in BOOLEAN : \E f, a : \/ fetcher' = [fetcher EXCEPT ![f].timer = b]
                                         \/ fetcher' = [fetcher EXCEPT ![f].timer = b, ![f].retries = a]
    BY <1>9 DEF BeginRetryTimer, RetryTimerFired
  <2>2. QED
    BY <1>3, <2>1
<1>10. ASSUME NEW f \in Fetcher,
              ClientBegin(f) \/ ClientStop(f) \/ \E ok \in BOOLEAN : AuthorizerFinished(f, ok)
       PROVE  Lasting
  BY <1>4, <1>10 DEF ClientBegin, ClientStop, AuthorizerFinished
<1>11. CASE \/ RetryFetch \/ InvokeHandler \/ DiscardTimerFired \/ UNCHANGED vars
            \/ \E k \in DOMAIN net.tasks : TaskEnds(k)
  BY <1>1, <1>11 DEF RetryFetch, InvokeHandler, DiscardTimerFired, vars, TaskEnds, Lasting
<1>12. CASE Work
  BY <1>6, <1>7, <1>8, <1>9, <1>10, <1>11, <1>12 DEF Work
<1>13. CASE ~Work
  BY <1>5, <1>10, <1>11, <1>13 DEF Next
<1>14. QED
  BY <1>12, <1>13

\* The blocks that call the handler move s towards the head; what answers were made stays.
NoNewCall(f, s) ==
  /\ calls'[f] = calls[f]
  /\ \A n \in Nat : CallAt(f, n)' => CallAt(f, n + s)
  /\ fetcher'[f].handler => fetcher[f].handler
  /\ Ending(f) => Ending(f)' \/ ~fetcher'[f].handler
\* A step that calls no handler and sends off no call.
LEMMA AnswerKept ==
  ASSUME NEW f \in Fetcher, AnswerOK(f), NEW s \in {0, 1}, NoNewCall(f, s)
  PROVE  AnswerOK(f)'
<1>1. /\ calls'[f] = calls[f] /\ \A n \in Nat : CallAt(f, n)' => n + s \in Nat /\ CallAt(f, n + s)
      /\ fetcher'[f].handler => fetcher[f].handler
      /\ Ending(f) => Ending(f)' \/ ~fetcher'[f].handler
  BY DEF NoNewCall
<1>2. \A m, n \in Nat : CallAt(f, m)' /\ CallAt(f, n)' => m = n
  <2>1. ASSUME NEW m \in Nat, NEW n \in Nat, CallAt(f, m)', CallAt(f, n)' PROVE m = n
    <3>1. m + s = n + s
      BY <1>1, <2>1 DEF AnswerOK
    <3>2. QED
      BY <3>1
  <2>2. QED
    BY <2>1
<1>3. \A n \in Nat : CallAt(f, n)' => calls'[f] = 0
  BY <1>1 DEF AnswerOK
<1>4. (calls'[f] = 1 \/ \E n \in Nat : CallAt(f, n)') => ~fetcher'[f].handler \/ Ending(f)'
  <2>1. (calls'[f] = 1 \/ \E n \in Nat : CallAt(f, n)') => ~fetcher[f].handler \/ Ending(f)
    BY <1>1 DEF AnswerOK
  <2>2. QED
    BY <1>1, <2>1
<1>5. calls'[f] <= 1
  BY <1>1 DEF AnswerOK
<1>6. QED
  BY <1>2, <1>3, <1>4, <1>5 DEF AnswerOK

\* The answer of a fetch that still has its handler is the first one.
LEMMA AnswerMade ==
  ASSUME TypeOK, NEW f \in Fetcher, AnswerOK(f), ~Ending(f), mainQ' = Answered(f),
         UNCHANGED calls, ~fetcher[f].handler => ~fetcher'[f].handler,
         Ending(f)' \/ ~fetcher'[f].handler
  PROVE  AnswerOK(f)'
<1>1. CASE ~fetcher[f].handler
  <2>1. \A n : CallAt(f, n)' <=> CallAt(f, n)
    BY <1>1 DEF Answered, CallAt, BlockAt
  <2>2. QED
    BY <1>1, <2>1 DEF AnswerOK
<1>2. CASE fetcher[f].handler
  <2>1. calls[f] = 0 /\ \A n \in Nat : ~CallAt(f, n)
    <3>1. calls[f] # 1 /\ calls[f] <= 1 /\ \A n \in Nat : ~CallAt(f, n)
      BY <1>2 DEF AnswerOK
    <3>2. calls[f] \in Nat
      BY DEF TypeOK
    <3>3. QED
      BY <3>1, <3>2
  <2>2. \A n \in Nat : CallAt(f, n)' => n = Len(mainQ) + 1
    <3>1. \A n : BlockAt(Answered(f), "call", f, n) => BlockAt(mainQ, "call", f, n) \/ n = Len(mainQ) + 1
      BY NotifiedBlocks
    <3>2. QED
      BY <2>1, <3>1 DEF CallAt
  <2>3. PICK k : k = Len(mainQ) + 1
    OBVIOUS
  <2>4. \A m, n \in Nat : CallAt(f, m)' /\ CallAt(f, n)' => m = n
    BY <2>2, <2>3
  <2>5. QED
    BY <2>1, <2>4 DEF AnswerOK
<1>3. QED
  BY <1>1, <1>2

\* A fetch that was answered is stopped next by the delegate queue.
LEMMA EndingStep ==
  ASSUME FetcherServiceAssumption, TypeOK, Places, Owners, [Next]_vars, NEW g \in Fetcher, Ending(g)
  PROVE  Ending(g)' \/ ~fetcher'[g].handler
<1>1. Nowhere(g)' /\ stack["delegate"] # <<>> /\ Head(stack["delegate"]) = Stop(g, TRUE)
  BY PlacesStep DEF Ending, Places
<1>2. CASE stack'["delegate"] = stack["delegate"]
  BY <1>1, <1>2 DEF Ending
<1>3. CASE RunFrame("main")
  BY <1>2, <1>3, OwnFrames DEF Thread
<1>4. CASE RunFrame("delegate")
  <2>1. Head(stack["delegate"]).op = "stop" /\ Head(stack["delegate"]).f = g /\ Head(stack["delegate"]).delay = TRUE
    BY <1>1 DEF Stop
  <2>2. StopFetch("delegate")
    BY Zenon, <1>4, <2>1 DEF RunFrame, BeginFetch, CreateSession, Admit, NoteHost, Launch, FailToBegin, DidStop,
                      ClearHost, BeginForRetry, DiscardSession, Top
  <2>3. fetcher \in [Fetcher -> FetcherType]
    BY DEF TypeOK
  <2>4. fetcher' = [fetcher EXCEPT ![g].timer = FALSE, ![g].task = None, ![g].asking = FALSE,
                                   ![g].handler = @ /\ ~TRUE]
    BY Zenon, <2>1, <2>2 DEF StopFetch
  <2>5. ~fetcher'[g].handler
    BY <2>3, <2>4 DEF FetcherType
  <2>6. QED
    BY <2>5
<1>5. CASE TaskCompleted \/ RetryFetch
  BY <1>1, <1>5 DEF TaskCompleted, RetryFetch, Idle
<1>6. CASE StopAll
  BY Zenon, <1>2, <1>6, StopAllDoes
<1>7. CASE \/ BeginRetryTimer \/ InvokeHandler \/ DiscardTimerFired \/ UNCHANGED vars
           \/ \E k \in DOMAIN net.tasks : TaskEnds(k)
           \/ \E f \in Fetcher : RetryTimerFired(f) \/ ClientBegin(f) \/ ClientStop(f)
           \/ \E f \in Fetcher, ok \in BOOLEAN : AuthorizerFinished(f, ok)
  <2>1. stack' = stack \/ \E q : stack' = [stack EXCEPT !["main"] = q]
    BY <1>7 DEF BeginRetryTimer, InvokeHandler, DiscardTimerFired, vars, TaskEnds, RetryTimerFired,
                ClientBegin, ClientStop, AuthorizerFinished
  <2>2. stack'["delegate"] = stack["delegate"]
    BY <2>1 DEF TypeOK, StackType, Thread
  <2>3. QED
    BY <1>2, <2>2
<1>8. CASE Work
  BY <1>3, <1>4, <1>5, <1>7, <1>8 DEF Work, Thread
<1>9. CASE ~Work
  BY <1>6, <1>7, <1>9 DEF Next
<1>10. QED
  BY <1>8, <1>9

\* A fetch whose completion is answered is over.
LEMMA AnsweredLeaves ==
  ASSUME FetcherServiceAssumption, TypeOK, Places, TaskCompleted, NEW f \in Fetcher, f = Head(delegateQ).f,
         mainQ' = Answered(f)
  PROVE  Nowhere(f)'
<1>1. At(f, "event", 1) /\ "event" \in Place
  <2>1. delegateQ \in Seq(EventType) /\ delegateQ # <<>>
    BY DEF TaskCompleted, TypeOK
  <2>2. EventAt(delegateQ, f, 1)
    BY <2>1, QueueConsumed
  <2>3. QED
    BY <2>2 DEF At, Place
<1>2. Leaves(f, "event") /\ OnePlace(f)
  BY CompletedPlaces DEF Places
<1>3. ASSUME NEW p \in Place, NEW n \in Nat, At(f, p, n)' PROVE FALSE
  <2>1. (p # "event" /\ At(f, p, n)) \/ (p = "event" /\ n >= 1 /\ At(f, "event", n + 1))
    BY <1>2, <1>3 DEF Leaves
  <2>2. QED
    BY <1>1, <1>2, <2>1 DEF OnePlace
<1>4. QED
  BY <1>3 DEF Nowhere

\* Every step keeps a handler from being called twice.
LEMMA AnswersStep ==
  ASSUME FetcherServiceAssumption, FetchInv, [Next]_vars, NEW g \in Fetcher
  PROVE  AnswerOK(g)'
<1>0. TypeOK /\ Places /\ Owners /\ AnswerOK(g) /\ OnePlace(g)
  BY DEF FetchInv, Answers, Places
<1>1. mainQ \in Seq(BlockType) /\ delegateQ \in Seq(EventType) /\ fetcher \in [Fetcher -> FetcherType]
      /\ calls \in [Fetcher -> Nat]
  BY <1>0 DEF TypeOK
<1>2. fetcher'[g].handler => fetcher[g].handler
  BY <1>0, FieldsLast
<1>3. Ending(g) => Ending(g)' \/ ~fetcher'[g].handler
  BY <1>0, EndingStep
<1>4. ASSUME NEW s \in {0, 1}, calls'[g] = calls[g], \A n \in Nat : CallAt(g, n)' => CallAt(g, n + s)
      PROVE  AnswerOK(g)'
  <2>1. NoNewCall(g, s)
    BY <1>2, <1>3, <1>4 DEF NoNewCall
  <2>2. QED
    BY <1>0, <2>1, AnswerKept
<1>5. CASE mainQ' = mainQ /\ calls' = calls
  <2>1. \A n \in Nat : CallAt(g, n)' => CallAt(g, n + 0)
    BY <1>5 DEF CallAt
  <2>2. QED
    BY <1>4, <1>5, <2>1
<1>6. ASSUME mainQ # <<>>, mainQ' = Tail(mainQ), calls'[g] = calls[g] PROVE AnswerOK(g)'
  <2>1. \A n \in Nat : CallAt(g, n)' => CallAt(g, n + 1)
    BY <1>1, <1>6, QueueConsumed DEF CallAt
  <2>2. QED
    BY <1>4, <1>6, <2>1
<1>7. ASSUME NEW f \in Fetcher, mainQ' = Answered(f), UNCHANGED calls, f # g PROVE AnswerOK(g)'
  <2>1. \A n \in Nat : CallAt(g, n)' => CallAt(g, n + 0)
    BY <1>0, <1>7, NotifiedBlocks DEF CallAt
  <2>2. QED
    BY <1>4, <1>7, <2>1
<1>8. CASE BeginRetryTimer
  BY <1>6, <1>8 DEF BeginRetryTimer
<1>9. CASE InvokeHandler
  <2> DEFINE f == Head(mainQ).f
  <2>1. mainQ # <<>> /\ Head(mainQ).op = "call" /\ mainQ' = Tail(mainQ) /\ stack' = stack
    BY <1>9 DEF InvokeHandler
  <2>2. calls' = calls \/ calls' = [calls EXCEPT ![f] = @ + 1]
    BY <1>9 DEF InvokeHandler
  <2>3. CASE f # g \/ calls' = calls
    BY <1>1, <1>6, <2>1, <2>2, <2>3
  <2>4. CASE f = g /\ calls' = [calls EXCEPT ![f] = @ + 1]
    <3>1. CallAt(g, 1)
      BY <1>1, <2>1, <2>4, QueueConsumed DEF CallAt
    <3>2. calls[g] = 0 /\ calls'[g] = 1 /\ (~fetcher[g].handler \/ Ending(g))
      BY <1>0, <1>1, <2>4, <3>1 DEF AnswerOK
    <3>3. ASSUME NEW n \in Nat, CallAt(g, n)' PROVE FALSE
      <4>1. n >= 1 /\ CallAt(g, n + 1)
        BY <1>1, <2>1, <3>3, QueueConsumed DEF CallAt
      <4>2. n + 1 = 1
        BY <1>0, <3>1, <4>1 DEF AnswerOK
      <4>3. QED
        BY <4>1, <4>2
    <3>4. QED
      BY <1>2, <1>3, <3>2, <3>3 DEF AnswerOK
  <2>5. QED
    BY <2>2, <2>3, <2>4
<1>10. ASSUME NEW t \in Thread, FailToBegin(t) PROVE AnswerOK(g)'
  <2>0. PICK f : f = Head(stack[t]).f
    OBVIOUS
  <2>1. f \in Fetcher /\ Head(stack[t]).op = "fail" /\ Head(stack[t]) = stack[t][1] /\ 1 \in DOMAIN stack[t]
    BY <1>0, <1>10, <2>0, Running DEF FailToBegin, Working
  <2>2. mainQ' = Answered(f) /\ fetcher' = [fetcher EXCEPT ![f].handler = FALSE] /\ calls' = calls
    BY <1>10, <2>0 DEF FailToBegin
  <2>3. CASE f # g
    BY <1>7, <2>1, <2>2, <2>3
  <2>4. CASE f = g
    <3>1. FrameAt(stack, g, t, 1)
      BY <2>0, <2>1, <2>4 DEF FrameAt, Carries
    <3>2. ~Ending(g)
      BY <3>1 DEF Ending, Nowhere, At, Place, Thread
    <3>3. ~fetcher'[g].handler
      BY <1>1, <2>2, <2>4 DEF FetcherType
    <3>4. QED
      BY <1>0, <2>2, <2>4, <3>2, <3>3, AnswerMade
  <2>5. QED
    BY <2>3, <2>4
<1>11. CASE TaskCompleted
  <2>0. PICK f : f = Head(delegateQ).f
    OBVIOUS
  <2>1. delegateQ # <<>> /\ calls' = calls
    BY <1>11 DEF TaskCompleted
  <2>2. f \in Fetcher /\ EventAt(delegateQ, f, 1)
    <3>1. EventAt(delegateQ, f, 1)
      BY <1>1, <2>0, <2>1, QueueConsumed
    <3>2. Head(delegateQ) \in EventType
      BY <1>1, <2>1, Consumed
    <3>3. QED
      BY <2>0, <3>1, <3>2 DEF EventType
  <2>3. \/ mainQ' = mainQ
        \/ mainQ' = Armed(f)
        \/ /\ mainQ' = Answered(f) /\ stack' = [stack EXCEPT !["delegate"] = <<Stop(f, TRUE)>>]
           /\ fetcher' = [fetcher EXCEPT ![f].task = Head(delegateQ).task]
    BY <1>11, <2>0 DEF TaskCompleted, Notified, Armed
  <2>4. CASE mainQ' = Armed(f)
    <3>1. \A n \in Nat : CallAt(g, n)' => CallAt(g, n + 0)
      BY <1>0, <2>2, <2>4, NotifiedBlocks DEF CallAt
    <3>2. QED
      BY <1>4, <2>1, <3>1
  <2>5. CASE f # g /\ mainQ' = Answered(f)
    BY <1>7, <2>1, <2>2, <2>5
  <2>6. CASE /\ f = g /\ mainQ' = Answered(f) /\ stack' = [stack EXCEPT !["delegate"] = <<Stop(f, TRUE)>>]
             /\ fetcher' = [fetcher EXCEPT ![f].task = Head(delegateQ).task]
    <3>1. At(g, "event", 1) /\ "event" \in Place
      BY <2>2, <2>6 DEF At, Place
    <3>2. Nowhere(g)'
      BY <1>0, <1>11, <2>0, <2>6, AnsweredLeaves
    <3>3. Ending(g)'
      <4>1. stack'["delegate"] = <<Stop(g, TRUE)>>
        BY <1>0, <2>6 DEF TypeOK, StackType, Thread
      <4>2. stack'["delegate"] # <<>> /\ Head(stack'["delegate"]) = Stop(g, TRUE)
        BY <4>1
      <4>3. QED
        BY <3>2, <4>2 DEF Ending, Stop
    <3>4. ~Ending(g)
      BY Zenon, <3>1 DEF Ending, Nowhere
    <3>5. QED
      BY <1>0, <1>2, <2>1, <2>6, <3>3, <3>4, AnswerMade
  <2>7. QED
    BY <1>5, <2>1, <2>3, <2>4, <2>5, <2>6
<1>12. ASSUME NEW t \in Thread, RunFrame(t), ~FailToBegin(t) PROVE AnswerOK(g)'
  <2>1. mainQ' = mainQ /\ calls' = calls
    BY Zenon, <1>12 DEF RunFrame, BeginFetch, CreateSession, Admit, NoteHost, Launch, StopFetch, DidStop,
                 ClearHost, BeginForRetry, DiscardSession
  <2>2. QED
    BY <1>5, <2>1
<1>13. CASE \/ RetryFetch \/ StopAll \/ DiscardTimerFired \/ UNCHANGED vars
            \/ \E k \in DOMAIN net.tasks : TaskEnds(k)
            \/ \E f \in Fetcher : RetryTimerFired(f) \/ ClientBegin(f) \/ ClientStop(f)
            \/ \E f \in Fetcher, ok \in BOOLEAN : AuthorizerFinished(f, ok)
  BY Zenon, <1>5, <1>13 DEF RetryFetch, StopAll, DiscardTimerFired, vars, TaskEnds, RetryTimerFired,
                     ClientBegin, ClientStop, AuthorizerFinished
<1>14. CASE Work
  BY <1>8, <1>9, <1>10, <1>11, <1>12, <1>13, <1>14 DEF Work
<1>15. CASE ~Work
  BY <1>13, <1>15 DEF Next
<1>16. QED
  BY <1>14, <1>15

\* FetchInv is inductive.
LEMMA FetchInvStep == FetchInv /\ [Next]_vars => FetchInv'
<1> SUFFICES ASSUME FetchInv, [Next]_vars PROVE FetchInv'
  OBVIOUS
<1>1. TypeOK /\ Places /\ Owners
  BY DEF FetchInv
<1>2. TypeOK'
  BY <1>1, FetcherServiceAssumption, TypeStep
<1>3. Places'
  BY <1>1, FetcherServiceAssumption, PlacesStep DEF Places
<1>4. Owners'
  BY <1>1, FetcherServiceAssumption, OwnersStep
<1>5. Answers'
  BY FetcherServiceAssumption, AnswersStep DEF Answers
<1>6. QED
  BY <1>2, <1>3, <1>4, <1>5 DEF FetchInv

\* FetchInv holds at first.
LEMMA FetchInvInitially == Init => FetchInv
<1> SUFFICES ASSUME Init PROVE FetchInv
  OBVIOUS
<1>1. TypeOK
  BY FetcherServiceAssumption, InitialTypes
<1>2. /\ \A t \in Thread : stack[t] = <<>>
      /\ delegateQ = <<>> /\ mainQ = <<>> /\ DOMAIN net.tasks = {}
      /\ \A h \in Host : service.delayed[h] = <<>>
      /\ \A f \in Fetcher : calls[f] = 0
  BY DEF Init, Empty
<1>3. ASSUME NEW f \in Fetcher
      PROVE  ~fetcher[f].asking /\ ~fetcher[f].timer /\ fetcher[f].task = None /\ HostOf[f] \in Host
  BY DEF Init, Host
<1>4. ASSUME NEW f \in Fetcher, NEW p, NEW n, At(f, p, n) PROVE p = "new" /\ n = 0
  BY <1>2, <1>3, <1>4 DEF At, FrameAt, EventAt, BlockAt, TaskAt, DelayedAt, FlagAt
<1>5. Places
  BY <1>4 DEF Places, OnePlace
<1>6. Owners
  BY <1>2, <1>3 DEF Owners, TasksNumbered, TaskOwned, ListOwned
<1>7. Answers
  BY <1>2 DEF Answers, AnswerOK, CallAt, BlockAt
<1>8. QED
  BY <1>1, <1>5, <1>6, <1>7 DEF FetchInv

\* Every variable keeps its type, and fetcherShouldBeginFetching: and fetcherDidStop: let no
\* host have more than maxRunningFetchersPerHost fetchers in runningFetchersByHost.
THEOREM TypeCorrect == Spec => []TypeOK
<1>1. FetchInv => TypeOK
  BY DEF FetchInv
<1>2. QED
  BY <1>1, FetchInvInitially, FetchInvStep, PTL DEF Spec

\* invokeFetchCallbacks: a completion handler is called at most once, however answers, retries,
\* authorisation, stopFetching and stopAllFetchers fall together.
THEOREM HandlerCalledOnce == Spec => []AnsweredOnce
<1>1. FetchInv => AnsweredOnce
  BY DEF FetchInv, Answers, AnswerOK, AnsweredOnce
<1>2. QED
  BY <1>1, FetchInvInitially, FetchInvStep, PTL DEF Spec

----------------------------------------------------------------------------
(* Slots.                                                                  *)

\* s frames take the place of the one that runs.
Shift(t, s) ==
  /\ s \in Nat /\ 1 \in DOMAIN stack[t]
  /\ \A p \in Thread : p # t => stack'[p] = stack[p]
  /\ \A k \in DOMAIN stack[t] : k # 1 => k > 1 /\ (k - 1) + s \in DOMAIN stack'[t] /\ stack'[t][(k - 1) + s] = stack[t][k]
  /\ \A k \in DOMAIN stack'[t] :
       \/ k \in 1 .. s
       \/ k > s /\ (k - s) + 1 \in DOMAIN stack[t] /\ stack'[t][k] = stack[t][(k - s) + 1]
\* Frames put in place of the top shift the ones below it.
LEMMA ShiftOf ==
  ASSUME TypeOK, NEW t \in Thread, stack[t] # <<>>, NEW q \in Seq(FrameType), Replace(t, q),
         NEW s \in Nat, s = Len(q)
  PROVE  Shift(t, s) /\ \A k \in 1 .. s : k \in DOMAIN stack'[t] /\ stack'[t][k] = q[k]
<1>1. PICK m \in Nat : m = Len(stack[t])
  BY LenProperties DEF TypeOK, StackType
<1>2. PICK r : r = Tail(stack[t])
  OBVIOUS
<1>3. /\ r \in Seq(FrameType) /\ m >= 1 /\ m - 1 \in Nat /\ Len(r) = m - 1
      /\ DOMAIN stack[t] = 1 .. m /\ \A k \in 1 .. m - 1 : r[k] = stack[t][k + 1]
  <2>1. stack[t] \in Seq(FrameType)
    BY DEF TypeOK, StackType
  <2>2. QED
    BY <1>1, <1>2, <2>1, TailIs
<1>4. PICK z : z = Cat(q, r)
  OBVIOUS
<1>5. PICK w \in Nat : w = s + (m - 1)
  <2>1. s + (m - 1) \in Nat
    BY <1>3
  <2>2. QED
    BY <2>1
<1>6. DOMAIN z = 1 .. w /\ \A k \in 1 .. w : z[k] = IF k <= s THEN q[k] ELSE r[k - s]
  <2>1. /\ DOMAIN z = 1 .. Len(q) + Len(r)
        /\ \A k \in 1 .. Len(q) + Len(r) : z[k] = IF k <= Len(q) THEN q[k] ELSE r[k - Len(q)]
    BY <1>3, <1>4, Joined
  <2>2. QED
    BY <1>3, <1>5, <2>1
<1>7. stack'[t] = z /\ \A p \in Thread : p # t => stack'[p] = stack[p]
  BY <1>2, <1>4 DEF Replace, Cat, TypeOK, StackType
<1>8. ASSUME NEW k \in DOMAIN stack[t], k # 1
      PROVE  k > 1 /\ (k - 1) + s \in DOMAIN stack'[t] /\ stack'[t][(k - 1) + s] = stack[t][k]
  <2>1. (k - 1) + s \in 1 .. w /\ (k - 1) + s > s /\ ((k - 1) + s) - s = k - 1
        /\ k - 1 \in 1 .. m - 1 /\ (k - 1) + 1 = k /\ k > 1
    BY <1>3, <1>5, <1>8
  <2>2. z[(k - 1) + s] = r[k - 1]
    BY <1>6, <2>1
  <2>3. r[k - 1] = stack[t][k]
    BY <1>3, <2>1
  <2>4. QED
    BY <1>6, <1>7, <2>1, <2>2, <2>3
<1>9. ASSUME NEW k \in DOMAIN stack'[t]
      PROVE  \/ k \in 1 .. s
             \/ k > s /\ (k - s) + 1 \in DOMAIN stack[t] /\ stack'[t][k] = stack[t][(k - s) + 1]
  <2>0. k \in 1 .. w
    BY <1>6, <1>7
  <2>1. CASE k > s
    <3>1. k - s \in 1 .. m - 1 /\ (k - s) + 1 \in 1 .. m
      BY <1>3, <1>5, <2>0, <2>1
    <3>2. stack'[t][k] = r[k - s]
      BY <1>6, <1>7, <2>0, <2>1
    <3>3. QED
      BY <1>3, <2>1, <3>1, <3>2
  <2>2. CASE ~(k > s)
    BY <2>0, <2>2
  <2>3. QED
    BY <2>1, <2>2
<1>10. ASSUME NEW k \in 1 .. s PROVE k \in DOMAIN stack'[t] /\ stack'[t][k] = q[k]
  <2>1. k \in 1 .. w
    BY <1>3, <1>5
  <2>2. QED
    BY <1>6, <1>7, <2>1
<1>11. 1 \in DOMAIN stack[t]
  BY <1>3
<1>12. QED
  BY <1>7, <1>8, <1>9, <1>10, <1>11 DEF Shift

\* Of the frames that a step puts on top of its stack, which end a fetch: stopFetching
\* goes on with fetcherDidStop, and so does a fetch that failed to begin.
Ends(t) ==
  /\ StopFetch(t) \/ FailToBegin(t)
  /\ stack'[t][1].f = stack[t][1].f
\* Every frame shifts the ones below it; a stop it leaves is the only frame it leaves.
LEMMA ShiftStep ==
  ASSUME FetcherServiceAssumption, TypeOK, NEW t \in Thread, RunFrame(t)
  PROVE  \E s \in Nat :
           /\ Shift(t, s)
           /\ \A k \in 1 .. s : stack'[t][k].op \in {"stop", "didStop"} => k = 1 /\ s = 1 /\ Ends(t)
<1> DEFINE x == Head(stack[t])
           Stepped(s) == /\ Shift(t, s)
                         /\ \A k \in 1 .. s : stack'[t][k].op \in {"stop", "didStop"} => k = 1 /\ s = 1 /\ Ends(t)
<1>0. stack[t] # <<>> /\ x = stack[t][1]
  BY OwnFrames
<1>1. ASSUME NEW y \in FrameType, Replace(t, <<y>>),
             y.op \in {"stop", "didStop"} => (StopFetch(t) \/ FailToBegin(t)) /\ y.f = x.f
      PROVE  Stepped(1)
  <2>1. PICK q : q = <<y>>
    OBVIOUS
  <2>2. q \in Seq(FrameType) /\ Len(q) = 1 /\ q[1] = y /\ Replace(t, q)
    BY <1>1, <2>1
  <2>3. Shift(t, 1) /\ \A k \in 1 .. 1 : k \in DOMAIN stack'[t] /\ stack'[t][k] = q[k]
    BY <1>0, <2>2, ShiftOf
  <2>4. \A k \in 1 .. 1 : k = 1
    OBVIOUS
  <2>5. stack'[t][1] = y
    BY <2>2, <2>3
  <2>6. QED
    BY <1>0, <1>1, <2>3, <2>4, <2>5 DEF Ends
<1>2. ASSUME Replace(t, <<>>) PROVE Stepped(0)
  <2>1. <<>> \in Seq(FrameType) /\ Len(<<>>) = 0
    OBVIOUS
  <2>2. Shift(t, 0)
    BY <1>0, <1>2, <2>1, ShiftOf
  <2>3. \A k \in 1 .. 0 : FALSE
    OBVIOUS
  <2>4. QED
    BY <2>2, <2>3
<1>3. CASE DiscardSession(t)
  BY <1>2, <1>3 DEF DiscardSession
<1>4. CASE ~DiscardSession(t)
  <2>1. x \in Working /\ x.f \in Fetcher
    BY Zenon, <1>4, Running DEF RunFrame, BeginFetch, CreateSession, Admit, NoteHost, Launch, FailToBegin, StopFetch,
                         DidStop, ClearHost, BeginForRetry, Working
  <2> HIDE DEF Stepped
  <2>2. ASSUME NEW op \in {"create", "admit", "admitted", "delayed", "launch"}, Replace(t, <<[x EXCEPT !.op = op]>>)
        PROVE  Stepped(1)
    <3>1. PICK y : y = [x EXCEPT !.op = op]
      OBVIOUS
    <3>2. y \in FrameType /\ y.op = op
      BY <2>1, <3>1 DEF Working, FrameType, Op
    <3>3. y.op \notin {"stop", "didStop"}
      BY <3>2
    <3>4. QED
      BY <1>1, <2>2, <3>1, <3>2, <3>3
  <2>3. ASSUME Replace(t, <<Frame("fail", x.f)>>) PROVE Stepped(1)
    <3>1. PICK y : y = Frame("fail", x.f)
      OBVIOUS
    <3>2. y \in FrameType /\ y.op = "fail"
      BY <2>1, <3>1, FrameTypes, FrameFields DEF Op
    <3>3. y.op \notin {"stop", "didStop"}
      BY <3>2
    <3>4. QED
      BY <1>1, <2>3, <3>1, <3>2, <3>3
  <2>4. CASE StopFetch(t) \/ FailToBegin(t)
    <3>1. PICK y : y = Frame("didStop", x.f)
      OBVIOUS
    <3>2. y \in FrameType /\ y.op = "didStop" /\ y.f = x.f
      BY <2>1, <3>1, FrameTypes, FrameFields DEF Op
    <3>3. Replace(t, <<y>>)
      BY Zenon, <2>4, <3>1 DEF StopFetch, FailToBegin
    <3>4. Stepped(1)
      BY <1>1, <2>4, <3>2, <3>3
    <3>5. QED
      BY <3>4 DEF Stepped
  <2>5. CASE BeginForRetry(t)
    <3>1. PICK y : y = Begin(x.f, TRUE, TRUE)
      OBVIOUS
    <3>2. y \in FrameType /\ y.op = "begin"
      BY <2>1, <3>1, FrameTypes DEF Begin
    <3>3. y.op \notin {"stop", "didStop"}
      BY <3>2
    <3>4. Replace(t, <<y>>)
      BY <2>5, <3>1 DEF BeginForRetry
    <3>5. Stepped(1)
      BY <1>1, <3>2, <3>3, <3>4
    <3>6. QED
      BY <3>5 DEF Stepped
  <2>6. CASE BeginFetch(t) \/ CreateSession(t) \/ Admit(t) \/ NoteHost(t) \/ Launch(t) \/ ClearHost(t)
    <3>1. \/ Replace(t, <<>>)
          \/ Replace(t, <<Frame("fail", x.f)>>)
          \/ \E op \in {"create", "admit", "admitted", "delayed", "launch"} : Replace(t, <<[x EXCEPT !.op = op]>>)
      BY Zenon, <2>6 DEF BeginFetch, CreateSession, Admit, NoteHost, Launch, ClearHost
    <3>2. Stepped(0) \/ Stepped(1)
      BY <1>2, <2>2, <2>3, <3>1
    <3>3. QED
      BY <3>2 DEF Stepped
  <2>7. CASE DidStop(t)
    <3>1. CASE ~fetcher[x.f].host
      <4>1. Replace(t, <<>>)
        BY <2>7, <3>1 DEF DidStop
      <4>2. QED
        BY <1>2, <4>1 DEF Stepped
    <3>2. CASE fetcher[x.f].host
      <4>1. PICK n \in Nat, d \in Seq(Fetcher), rest \in Seq(Fetcher) : Takes(t, x.f, HostOf[x.f], n, d, rest)
        BY <2>7, <3>2, DidStopDoes
      <4>2. PICK f : f = x.f
        OBVIOUS
      <4>3. Starts(t, f, n, d) /\ f \in Fetcher
        BY Zenon, <2>1, <4>1, <4>2 DEF Takes
      <4>4. PICK a, b : a = [k \in 1 .. n |-> Begin(d[k], FALSE, TRUE)] /\ b = <<Frame("unhost", f)>>
        OBVIOUS
      <4>5. a \in Seq(FrameType) /\ Len(a) = n
        <5>1. \A k \in 1 .. n : d[k] \in Fetcher
          BY <4>3, ElementOfSeq, LenProperties DEF Starts
        <5>2. a \in [1 .. n -> FrameType]
          BY <4>4, <5>1, FrameTypes
        <5>3. QED
          BY <5>2, FunctionIsSeq
      <4>6. b \in Seq(FrameType) /\ Len(b) = 1
        <5>1. Frame("unhost", f) \in FrameType
          BY <4>3, FrameTypes DEF Op
        <5>2. QED
          BY <4>4, <5>1
      <4>7. PICK q : q = Cat(a, b)
        OBVIOUS
      <4>8. q \in Seq(FrameType) /\ Len(q) = n + 1 /\ Replace(t, q)
        <5>1. q \in Seq(FrameType) /\ Len(q) = n + 1
          BY Zenon, <4>5, <4>6, <4>7, Joined
        <5>2. Replace(t, q)
          BY <4>3, <4>4, <4>7 DEF Starts, Cat
        <5>3. QED
          BY <5>1, <5>2
      <4>9. PICK s \in Nat : s = n + 1
        OBVIOUS
      <4>10. Shift(t, s) /\ \A k \in 1 .. s : k \in DOMAIN stack'[t]
        BY <1>0, <4>8, <4>9, ShiftOf
      <4>11. ASSUME NEW k \in 1 .. s PROVE stack'[t][k].op \in {"begin", "unhost"}
        <5>1. Started(t, f, n, d)
          BY <1>0, <4>3, Begun
        <5>2. stack'[t][k] = Begin(d[k], FALSE, TRUE) \/ stack'[t][k] = Frame("unhost", f)
          <6>1. k \in DOMAIN stack'[t] /\ ~(k > n + 1)
            BY <4>9, <4>10
          <6>2. QED
            BY <5>1, <6>1 DEF Started
        <5>3. QED
          BY <5>2 DEF Begin, Frame
      <4>12. Stepped(s)
        <5>1. \A k \in 1 .. s : stack'[t][k].op \notin {"stop", "didStop"}
          BY <4>11
        <5>2. QED
          BY <4>10, <5>1 DEF Stepped
      <4>13. QED
        BY <4>12 DEF Stepped
    <3>3. QED
      BY <3>1, <3>2
  <2>8. QED
    BY <1>4, <2>4, <2>5, <2>6, <2>7 DEF RunFrame
<1>5. QED
  BY <1>3, <1>4

\* A fetch that failed to begin is over.
LEMMA FailLeaves ==
  ASSUME FetcherServiceAssumption, TypeOK, Places, NEW t \in Thread, FailToBegin(t), NEW f \in Fetcher,
         f = Head(stack[t]).f
  PROVE  Nowhere(f)'
<1>1. OnePlace(f) /\ stack[t] # <<>> /\ Head(stack[t]) = stack[t][1] /\ 1 \in DOMAIN stack[t]
      /\ Head(stack[t]).op = "fail"
  BY Running DEF Places, FailToBegin
<1>2. At(f, t, 1) /\ t \in Place
  BY <1>1 DEF At, FrameAt, Carries, Place
<1>3. PICK y \in FrameType : y.op = "didStop" /\ Replace(t, <<y>>)
  <2>1. PICK y : y = Frame("didStop", f)
    OBVIOUS
  <2>2. y \in FrameType /\ y.op = "didStop"
    BY <2>1, FrameTypes, FrameFields DEF Op
  <2>3. QED
    BY <2>1, <2>2 DEF FailToBegin
<1>4. ASSUME NEW p \in Place, NEW n \in Nat, FrameAt(stack', f, p, n) PROVE FALSE
  <2>1. /\ \A r \in Thread : r # t => stack'[r] = stack[r]
        /\ DOMAIN stack'[t] = DOMAIN stack[t]
        /\ \A m \in DOMAIN stack'[t] : stack'[t][m] = IF m = 1 THEN y ELSE stack[t][m]
    BY <1>1, <1>3, Swap
  <2>2. FrameAt(stack, f, p, n) /\ (p = t => n # 1)
    BY <1>3, <1>4, <2>1 DEF FrameAt, Carries
  <2>3. At(f, p, n)
    BY <2>2 DEF At
  <2>4. QED
    BY <1>1, <1>2, <2>2, <2>3 DEF OnePlace
<1>5. ASSUME NEW p \in Place, NEW n \in Nat, At(f, p, n)', ~FrameAt(stack', f, p, n) PROVE FALSE
  <2>1. UNCHANGED <<service, net, delegateQ>> /\ mainQ' = Answered(f)
    BY DEF FailToBegin
  <2>2. BlockAt(mainQ', "arm", f, n) => BlockAt(mainQ, "arm", f, n)
    BY <2>1, NotifiedBlocks
  <2>3. \A q, m : FlagAt(fetcher'[f], q, m) => FlagAt(fetcher[f], q, m)
    <3>1. fetcher' = [fetcher EXCEPT ![f].handler = FALSE] /\ fetcher \in [Fetcher -> FetcherType]
      BY DEF FailToBegin, TypeOK
    <3>2. fetcher'[f].begun = fetcher[f].begun /\ fetcher'[f].asking = fetcher[f].asking
          /\ fetcher'[f].timer = fetcher[f].timer
      BY <3>1 DEF FetcherType
    <3>3. QED
      BY <3>2 DEF FlagAt
  <2>4. At(f, p, n) /\ p \notin Thread
    BY <1>5, <2>1, <2>2, <2>3 DEF At, FlagAt, Thread
  <2>5. QED
    BY <1>1, <1>2, <2>4 DEF OnePlace
<1>6. QED
  BY <1>4, <1>5 DEF Nowhere

\* A frame keeps a fetch that is being stopped from going on before the stop is done.
LEMMA ParksAfterFrame ==
  ASSUME FetcherServiceAssumption, TypeOK, Places, Owners, NEW t \in Thread, RunFrame(t),
         NEW g \in Fetcher, Parks(g)
  PROVE  Parks(g)'
<1>0. stack \in StackType /\ \A p \in Thread : DOMAIN stack[p] \subseteq Nat
  BY LenProperties DEF TypeOK, StackType
<1>1. PICK s \in Nat :
        /\ Shift(t, s)
        /\ \A k \in 1 .. s : stack'[t][k].op \in {"stop", "didStop"} => k = 1 /\ s = 1 /\ Ends(t)
  BY ShiftStep
<1>2. Nowhere(g) => Nowhere(g)'
  BY PlacesStep DEF Next, Work, Places
<1>3. /\ \A p \in Thread : p # t => stack'[p] = stack[p]
      /\ \A k \in DOMAIN stack[t] : k # 1 => k > 1 /\ (k - 1) + s \in DOMAIN stack'[t] /\ stack'[t][(k - 1) + s] = stack[t][k]
      /\ \A k \in DOMAIN stack'[t] :
           \/ k \in 1 .. s
           \/ k > s /\ (k - s) + 1 \in DOMAIN stack[t] /\ stack'[t][k] = stack[t][(k - s) + 1]
  BY <1>1 DEF Shift
<1>4. ASSUME NEW m \in Nat, AgainAt(g, t, m), m > 1 PROVE (m - 1) + s \in Nat /\ AgainAt(g, t, (m - 1) + s)'
  BY <1>3, <1>4 DEF AgainAt, FrameAt
<1>5. ASSUME NEW p \in Thread, NEW n \in Nat, StopAt(g, p, n)' PROVE Parked(g, p, n)'
  <2>1. CASE p # t
    <3>1. StopAt(g, p, n)
      BY <1>3, <1>5, <2>1 DEF StopAt
    <3>2. \A m : AgainAt(g, p, m) => AgainAt(g, p, m)'
      BY <1>3, <2>1 DEF AgainAt, FrameAt
    <3>3. QED
      BY <1>2, <3>1, <3>2 DEF Parks, Parked
  <2>2. CASE p = t /\ n \notin 1 .. s
    <3>0. PICK k : k = (n - s) + 1
      OBVIOUS
    <3>1. n > s /\ k \in DOMAIN stack[t] /\ stack'[t][n] = stack[t][k]
      BY <1>3, <1>5, <2>2, <3>0 DEF StopAt
    <3>2. k \in Nat /\ k > 1
      BY <3>0, <3>1
    <3>3. Parked(g, t, k)
      BY <1>5, <2>2, <3>1, <3>2 DEF StopAt, Parks
    <3>4. ASSUME NEW m \in Nat, k < m, AgainAt(g, t, m) PROVE Parked(g, p, n)'
      <4>1. n < (m - 1) + s /\ m > 1
        BY <3>0, <3>2, <3>4
      <4>2. QED
        BY <1>4, <2>2, <3>4, <4>1 DEF Parked
    <3>5. QED
      BY <1>2, <3>3, <3>4 DEF Parked
  <2>3. CASE p = t /\ n \in 1 .. s
    <3>1. n = 1 /\ s = 1 /\ Ends(t)
      BY <1>1, <1>5, <2>3 DEF StopAt
    <3>2. stack[t][1].f = g
      BY <1>5, <2>3, <3>1 DEF StopAt, Ends
    <3>3. CASE FailToBegin(t)
      <4>1. Head(stack[t]).f = g
        BY <3>2, <3>3, Running DEF FailToBegin
      <4>2. Nowhere(g)'
        BY <3>3, <4>1, FailLeaves
      <4>3. QED
        BY <4>2 DEF Parked
    <3>4. CASE StopFetch(t)
      <4>1. StopAt(g, t, 1)
        BY Zenon, <3>2, <3>4, Running DEF StopFetch, StopAt
      <4>2. Parked(g, t, 1)
        BY <4>1 DEF Parks
      <4>3. ASSUME NEW m \in Nat, 1 < m, AgainAt(g, t, m) PROVE Parked(g, p, n)'
        <5>1. (m - 1) + s = m
          BY <3>1
        <5>2. AgainAt(g, t, m)'
          BY <1>4, <4>3, <5>1
        <5>3. QED
          BY <2>3, <3>1, <4>3, <5>2 DEF Parked
      <4>4. QED
        BY <1>2, <4>2, <4>3 DEF Parked
    <3>5. QED
      BY <3>1, <3>3, <3>4 DEF Ends
  <2>4. QED
    BY <2>1, <2>2, <2>3
<1>6. QED
  BY <1>5 DEF Parks

\* A fetch that is being stopped goes on only after the stop, as retryFetch has it.
LEMMA ParksStep ==
  ASSUME FetcherServiceAssumption, TypeOK, Places, Owners, [Next]_vars,
         NEW g \in Fetcher, Parks(g), ~fetcher'[g].stopped
  PROVE  Parks(g)'
<1>0. /\ stack \in StackType /\ fetcher \in [Fetcher -> FetcherType]
      /\ "main" \in Thread /\ "delegate" \in Thread /\ 1 \in Nat /\ 2 \in Nat
  BY DEF TypeOK, Thread
<1>1. Nowhere(g) => Nowhere(g)'
  BY PlacesStep DEF Places
<1>2. ASSUME NEW u \in Thread, \A p \in Thread : p # u => stack'[p] = stack[p],
             \A n \in Nat : StopAt(g, u, n)' => Parked(g, u, n)'
      PROVE  Parks(g)'
  <2>1. ASSUME NEW p \in Thread, NEW n \in Nat, StopAt(g, p, n)', p # u PROVE Parked(g, p, n)'
    <3>1. StopAt(g, p, n)
      BY <1>2, <2>1 DEF StopAt
    <3>2. \A m : AgainAt(g, p, m) => AgainAt(g, p, m)'
      BY <1>2, <2>1 DEF AgainAt, FrameAt
    <3>3. QED
      BY <1>1, <3>1, <3>2 DEF Parks, Parked
  <2>2. QED
    BY <1>2, <2>1 DEF Parks
<1>3. CASE stack' = stack
  <2>1. ASSUME NEW n \in Nat, StopAt(g, "main", n)' PROVE Parked(g, "main", n)'
    <3>1. StopAt(g, "main", n)
      BY <1>3, <2>1 DEF StopAt
    <3>2. \A m : AgainAt(g, "main", m) => AgainAt(g, "main", m)'
      BY <1>3 DEF AgainAt, FrameAt
    <3>3. QED
      BY <1>0, <1>1, <3>1, <3>2 DEF Parks, Parked
  <2>2. QED
    BY <1>0, <1>2, <1>3, <2>1
<1>4. ASSUME NEW u \in Thread, NEW q, stack' = [stack EXCEPT ![u] = q],
             \A n \in DOMAIN q : q[n].f = g /\ q[n].op \in {"stop", "didStop"} => Parked(g, u, n)'
      PROVE  Parks(g)'
  <2>1. stack'[u] = q /\ \A p \in Thread : p # u => stack'[p] = stack[p]
    BY <1>0, <1>4 DEF StackType
  <2>2. \A n \in Nat : StopAt(g, u, n)' => Parked(g, u, n)'
    BY <1>4, <2>1 DEF StopAt
  <2>3. QED
    BY <1>2, <2>1, <2>2
<1>5. ASSUME NEW u \in Thread, NEW y, stack' = [stack EXCEPT ![u] = <<y>>],
             y.op \notin {"stop", "didStop"} \/ y.f # g
      PROVE  Parks(g)'
  <2>1. PICK q : q = <<y>>
    OBVIOUS
  <2>2. DOMAIN q = {1} /\ q[1] = y
    BY <2>1
  <2>3. QED
    BY <1>4, <1>5, <2>1, <2>2
<1>6. ASSUME NEW u \in Thread, stack' = [stack EXCEPT ![u] = <<>>] PROVE Parks(g)'
  <2>1. DOMAIN <<>> = {}
    OBVIOUS
  <2>2. QED
    BY <1>4, <1>6, <2>1
<1>7. CASE TaskCompleted
  <2>1. PICK f : f = Head(delegateQ).f
    OBVIOUS
  <2>2. \/ stack' = stack
        \/ stack' = [stack EXCEPT !["delegate"] = <<>>]
        \/ stack' = [stack EXCEPT !["delegate"] = <<Stop(f, TRUE)>>] /\ mainQ' = Answered(f)
    BY <1>7, <2>1 DEF TaskCompleted, Notified
  <2>3. CASE stack' = [stack EXCEPT !["delegate"] = <<Stop(f, TRUE)>>] /\ mainQ' = Answered(f)
    <3>1. PICK q : q = <<Stop(f, TRUE)>>
      OBVIOUS
    <3>2. DOMAIN q = {1} /\ q[1].f = f
      BY <3>1 DEF Stop
    <3>3. f = g => Nowhere(g)'
      BY <1>7, <2>1, <2>3, AnsweredLeaves
    <3>4. \A n \in DOMAIN q : q[n].f = g => Parked(g, "delegate", n)'
      BY <3>2, <3>3 DEF Parked
    <3>5. QED
      BY <1>0, <1>4, <2>3, <3>1, <3>4
  <2>4. QED
    BY <1>0, <1>3, <1>6, <2>2, <2>3
<1>8. CASE RetryFetch
  <2>0. PICK f : f = Head(delegateQ).f
    OBVIOUS
  <2>1. PICK q : q = <<Stop(f, FALSE), Frame("again", f)>> /\ stack' = [stack EXCEPT !["delegate"] = q]
    BY <1>8, <2>0 DEF RetryFetch
  <2>2. DOMAIN q = {1, 2} /\ q[1] = Stop(f, FALSE) /\ q[2] = Frame("again", f)
    BY <2>1
  <2>3. q[1].f = f /\ q[2].f = f /\ q[2].op = "again" /\ stack'["delegate"] = q
    BY <1>0, <2>1, <2>2 DEF Stop, Frame, StackType
  <2>4. f = g => AgainAt(g, "delegate", 2)'
    BY <1>0, <2>2, <2>3 DEF AgainAt, FrameAt, Carries
  <2>5. \A n \in DOMAIN q : q[n].f = g /\ q[n].op \in {"stop", "didStop"} => n = 1 /\ f = g
    BY <2>2, <2>3
  <2>6. f = g => Parked(g, "delegate", 1)'
    BY <2>4 DEF Parked
  <2>7. QED
    BY <1>0, <1>4, <2>1, <2>5, <2>6
<1>9. CASE StopAll
  <2>1. ASSUME NEW n \in Nat, StopAt(g, "main", n)' PROVE FALSE
    <3>1. PICK f \in Fetcher : stack'["main"][n] = Stop(f, TRUE) /\ fetcher'[f].stopped
      BY Zenon, <1>9, <2>1, StopAllDoes DEF StopAt
    <3>2. f = g
      BY <2>1, <3>1 DEF StopAt, Stop
    <3>3. QED
      BY <3>1, <3>2
  <2>2. \A p \in Thread : p # "main" => stack'[p] = stack[p]
    BY Zenon, <1>9, StopAllDoes DEF Thread
  <2>3. QED
    BY <1>0, <1>2, <2>1, <2>2
<1>10. ASSUME NEW f \in Fetcher, ClientStop(f) PROVE Parks(g)'
  <2>1. PICK y : y = Stop(f, TRUE) /\ stack' = [stack EXCEPT !["main"] = <<y>>]
    BY <1>10 DEF ClientStop
  <2>2. fetcher'[f].stopped
    BY <1>0, <1>10 DEF ClientStop, FetcherType
  <2>3. y.f # g
    BY <2>1, <2>2 DEF Stop
  <2>4. QED
    BY <1>0, <1>5, <2>1, <2>3
<1>11. ASSUME NEW f \in Fetcher, ClientBegin(f) \/ \E ok \in BOOLEAN : AuthorizerFinished(f, ok)
       PROVE  Parks(g)'
  <2>1. \E y : stack' = [stack EXCEPT !["main"] = <<y>>] /\ y.op \in {"begin", "fail"}
    <3>1. Begin(f, TRUE, TRUE).op = "begin" /\ Begin(f, FALSE, FALSE).op = "begin" /\ Frame("fail", f).op = "fail"
      BY DEF Begin, Frame
    <3>2. \/ stack' = [stack EXCEPT !["main"] = <<Begin(f, TRUE, TRUE)>>]
          \/ stack' = [stack EXCEPT !["main"] = <<Begin(f, FALSE, FALSE)>>]
          \/ stack' = [stack EXCEPT !["main"] = <<Frame("fail", f)>>]
      BY <1>11 DEF ClientBegin, AuthorizerFinished
    <3>3. PICK a, b, c : a = Begin(f, TRUE, TRUE) /\ b = Begin(f, FALSE, FALSE) /\ c = Frame("fail", f)
      OBVIOUS
    <3>4. QED
      BY <3>1, <3>2, <3>3
  <2>2. QED
    BY <1>0, <1>5, <2>1
<1>12. CASE DiscardTimerFired
  <2>1. PICK y : /\ y = [Frame("discard", None) EXCEPT !.delay = disp.timer]
                 /\ stack' = [stack EXCEPT !["main"] = <<y>>] \/ stack' = [stack EXCEPT !["main"] = <<>>]
    BY <1>12 DEF DiscardTimerFired
  <2>2. y.op = "discard"
    BY <2>1 DEF Frame
  <2>3. QED
    BY <1>0, <1>5, <1>6, <2>1, <2>2
<1>13. CASE \/ BeginRetryTimer \/ InvokeHandler \/ UNCHANGED vars
            \/ \E k \in DOMAIN net.tasks : TaskEnds(k)
            \/ \E f \in Fetcher : RetryTimerFired(f)
  BY <1>3, <1>13 DEF BeginRetryTimer, InvokeHandler, vars, TaskEnds, RetryTimerFired
<1>14. CASE Work
  BY <1>7, <1>8, <1>11, <1>13, <1>14, ParksAfterFrame DEF Work
<1>15. CASE ~Work
  BY <1>9, <1>10, <1>11, <1>12, <1>13, <1>15 DEF Next
<1>16. QED
  BY <1>14, <1>15

\* Which frames hold a slot after a step of their thread.
LEMMA SlotSwapped ==
  ASSUME TypeOK, NEW t \in Thread, stack[t] # <<>>, NEW x \in FrameType, Replace(t, <<x>>), NEW g \in Fetcher
  PROVE  SlotFrame(stack', g) => SlotFrame(stack, g) \/ (x.f = g /\ HoldsFrame(x))
<1>1. /\ \A p \in Thread : p # t => stack'[p] = stack[p]
      /\ DOMAIN stack'[t] = DOMAIN stack[t]
      /\ \A n \in DOMAIN stack'[t] : stack'[t][n] = IF n = 1 THEN x ELSE stack[t][n]
  BY Swap
<1>2. ASSUME NEW p \in Thread, NEW n \in Nat, FrameAt(stack', g, p, n), HoldsFrame(stack'[p][n])
      PROVE  SlotFrame(stack, g) \/ (x.f = g /\ HoldsFrame(x))
  <2>1. CASE p = t /\ n = 1
    BY <1>1, <1>2, <2>1 DEF FrameAt
  <2>2. CASE ~(p = t /\ n = 1)
    <3>1. FrameAt(stack, g, p, n) /\ stack'[p][n] = stack[p][n]
      BY <1>1, <1>2, <2>2 DEF FrameAt
    <3>2. QED
      BY <1>2, <3>1 DEF SlotFrame
  <2>3. QED
    BY <2>1, <2>2
<1>3. QED
  BY <1>2 DEF SlotFrame

\* A frame that ends gives its fetch no slot.
LEMMA SlotPopped ==
  ASSUME TypeOK, NEW t \in Thread, stack[t] # <<>>, Replace(t, <<>>), NEW g \in Fetcher
  PROVE  SlotFrame(stack', g) => SlotFrame(stack, g)
<1>1. /\ \A p \in Thread : p # t => stack'[p] = stack[p]
      /\ \A n \in DOMAIN stack'[t] :
              n >= 1 /\ n + 1 \in DOMAIN stack[t] /\ stack'[t][n] = stack[t][n + 1]
  BY Done
<1>2. ASSUME NEW p \in Thread, NEW n \in Nat, FrameAt(stack', g, p, n), HoldsFrame(stack'[p][n])
      PROVE  SlotFrame(stack, g)
  <2>1. CASE p = t
    <3>1. FrameAt(stack, g, p, n + 1) /\ stack'[p][n] = stack[p][n + 1] /\ n + 1 \in Nat
      BY <1>1, <1>2, <2>1 DEF FrameAt
    <3>2. QED
      BY <1>2, <3>1 DEF SlotFrame
  <2>2. CASE p # t
    <3>1. FrameAt(stack, g, p, n) /\ stack'[p][n] = stack[p][n]
      BY <1>1, <1>2, <2>2 DEF FrameAt
    <3>2. QED
      BY <1>2, <3>1 DEF SlotFrame
  <2>3. QED
    BY <2>1, <2>2
<1>3. QED
  BY <1>2 DEF SlotFrame

\* Frames that hold no slot.
LEMMA SlotLoaded ==
  ASSUME TypeOK, NEW t \in Thread, NEW q, stack' = [stack EXCEPT ![t] = q], NEW g \in Fetcher,
         \A n \in DOMAIN q : ~(q[n].f = g /\ HoldsFrame(q[n]))
  PROVE  SlotFrame(stack', g) => SlotFrame(stack, g)
<1>1. stack'[t] = q /\ \A p \in Thread : p # t => stack'[p] = stack[p]
  BY DEF TypeOK, StackType
<1>2. ASSUME NEW p \in Thread, NEW n \in Nat, FrameAt(stack', g, p, n), HoldsFrame(stack'[p][n])
      PROVE  FrameAt(stack, g, p, n) /\ HoldsFrame(stack[p][n])
  BY <1>1, <1>2 DEF FrameAt
<1>3. QED
  BY <1>2 DEF SlotFrame

\* The first frame of an idle thread and its slot.
LEMMA SlotPushed ==
  ASSUME TypeOK, NEW t \in Thread, NEW x, stack' = [stack EXCEPT ![t] = <<x>>], NEW g \in Fetcher
  PROVE  SlotFrame(stack', g) => SlotFrame(stack, g) \/ (x.f = g /\ HoldsFrame(x))
<1>1. PICK q : q = <<x>>
  OBVIOUS
<1>2. DOMAIN q = {1} /\ q[1] = x
  BY <1>1
<1>3. CASE x.f = g /\ HoldsFrame(x)
  BY <1>3
<1>4. CASE ~(x.f = g /\ HoldsFrame(x))
  <2>1. \A n \in DOMAIN q : ~(q[n].f = g /\ HoldsFrame(q[n]))
    BY <1>2, <1>4
  <2>2. QED
    BY <1>1, <2>1, SlotLoaded
<1>5. QED
  BY <1>3, <1>4

\* The top frame's fetch has its slot if the frame needs one.
LEMMA SlotHead ==
  ASSUME TypeOK, NEW t \in Thread, stack[t] # <<>>, NEW g \in Fetcher, Head(stack[t]).f = g, HoldsFrame(Head(stack[t]))
  PROVE  Holds(g)
<1>1. 1 \in DOMAIN stack[t] /\ Head(stack[t]) = stack[t][1]
  BY Consumed DEF TypeOK, StackType
<1>2. FrameAt(stack, g, t, 1)
  BY <1>1 DEF FrameAt, Carries, HoldsFrame
<1>3. QED
  BY <1>1, <1>2 DEF Holds, SlotFrame

\* A request that is under way has its slot from before, or from fetcherShouldBeginFetching
\* or fetcherDidStop.
Held(g) == Holds(g)' => Holds(g) \/ g \in service'.running[HostOf[g]]
\* After a frame whoever needs a slot had one or is given one.
LEMMA HeldAfterFrame ==
  ASSUME FetcherServiceAssumption, TypeOK, Owners, NEW t \in Thread, RunFrame(t), NEW g \in Fetcher
  PROVE  Held(g)
<1> DEFINE Got == Holds(g) \/ g \in service'.running[HostOf[g]]
<1>0. fetcher \in [Fetcher -> FetcherType] /\ net \in NetType /\ net.tasks \in TaskMap /\ stack[t] # <<>>
      /\ service \in ServiceType
  BY OwnFrames DEF TypeOK, NetType
<1>1. ASSUME SlotFrame(stack', g) => Got, SlotTask(net'.tasks, g) => Got, fetcher'[g].asking => Got
      PROVE  Held(g)
  BY <1>1 DEF Held, Holds
<1>2. SlotFrame(stack, g) \/ SlotTask(net.tasks, g) \/ fetcher[g].asking => Got
  BY DEF Holds
<1>3. PICK x : x = Head(stack[t])
  OBVIOUS
<1>4. x.f = g /\ HoldsFrame(x) => Got
  BY <1>0, <1>3, SlotHead
<1> HIDE DEF Got
<1>5. ASSUME NEW y \in FrameType, Replace(t, <<y>>), y.f = g /\ HoldsFrame(y) => Got
      PROVE  SlotFrame(stack', g) => Got
  BY <1>0, <1>2, <1>5, SlotSwapped
<1>6. ASSUME Replace(t, <<>>) PROVE SlotFrame(stack', g) => Got
  BY <1>0, <1>2, <1>6, SlotPopped
<1>7. CASE DiscardSession(t)
  <2>1. Replace(t, <<>>) /\ fetcher' = fetcher /\ net'.tasks = net.tasks
    BY <1>0, <1>7 DEF DiscardSession, NetType
  <2>2. QED
    BY <1>1, <1>2, <1>6, <2>1
<1>8. CASE ~DiscardSession(t)
  <2>1. x \in Working /\ x.f \in Fetcher
    BY Zenon, <1>3, <1>8, Running DEF RunFrame, BeginFetch, CreateSession, Admit, NoteHost, Launch, FailToBegin, StopFetch,
                         DidStop, ClearHost, BeginForRetry, Working
  <2>2. ASSUME NEW op \in Op, Replace(t, <<[x EXCEPT !.op = op]>>),
               (x.f = g /\ HoldsFrame([x EXCEPT !.op = op])) => Got
        PROVE  SlotFrame(stack', g) => Got
    <3>1. PICK y : y = [x EXCEPT !.op = op]
      OBVIOUS
    <3>2. y \in FrameType /\ y.f = x.f
      BY <2>1, <3>1 DEF Working, FrameType
    <3>3. QED
      BY <1>5, <2>2, <3>1, <3>2
  <2>3. ASSUME NEW op \in Op, op \in {"fail", "didStop"}, Replace(t, <<Frame(op, x.f)>>)
        PROVE  SlotFrame(stack', g) => Got
    <3>1. PICK y : y = Frame(op, x.f)
      OBVIOUS
    <3>2. y \in FrameType /\ y.op = op
      BY <2>1, <3>1 DEF Frame, FrameType
    <3>3. ~HoldsFrame(y)
      BY <2>3, <3>2 DEF HoldsFrame
    <3>4. QED
      BY <1>5, <2>3, <3>1, <3>2, <3>3
  <2>4. \A op : [x EXCEPT !.op = op].op = op /\ [x EXCEPT !.op = op].delay = x.delay
    BY <2>1, FrameFields
  <2>5. CASE BeginFetch(t) \/ CreateSession(t)
    <3>1. x.op \in {"begin", "create"}
      BY <1>3, <2>5 DEF BeginFetch, CreateSession, Top
    <3>2. fetcher'[g].asking = fetcher[g].asking /\ net' = net
      <4>1. \E f, a : fetcher' = fetcher \/ fetcher' = [fetcher EXCEPT ![f].session = a]
        BY <2>5 DEF BeginFetch, CreateSession
      <4>2. QED
        BY <1>0, <2>5, <4>1 DEF BeginFetch, CreateSession, FetcherType
    <3>3. ASSUME NEW op \in {"admit", "create"}, Replace(t, <<[x EXCEPT !.op = op]>>)
          PROVE  SlotFrame(stack', g) => Got
      <4>1. HoldsFrame([x EXCEPT !.op = op]) => HoldsFrame(x)
        BY <2>4, <3>1 DEF HoldsFrame
      <4>2. QED
        BY <1>4, <2>2, <3>3, <4>1 DEF Op
    <3>4. \/ Replace(t, <<Frame("fail", x.f)>>)
          \/ \E op \in {"admit", "create"} : Replace(t, <<[x EXCEPT !.op = op]>>)
      BY <1>3, <2>5 DEF BeginFetch, CreateSession
    <3>5. SlotFrame(stack', g) => Got
      BY <2>3, <3>3, <3>4 DEF Op
    <3>6. QED
      BY <1>1, <1>2, <3>2, <3>5
  <2>6. CASE Admit(t)
    <3>1. x.op = "admit" /\ UNCHANGED <<fetcher, net>>
      BY Zenon, <1>3, <2>6 DEF Admit, Top
    <3>2. CASE ~x.delay
      <4>1. Replace(t, <<[x EXCEPT !.op = "launch"]>>)
        BY <1>3, <2>6, <3>2 DEF Admit
      <4>2. HoldsFrame(x)
        BY <3>1, <3>2 DEF HoldsFrame
      <4>3. SlotFrame(stack', g) => Got
        BY <1>4, <2>2, <4>1, <4>2 DEF Op
      <4>4. QED
        BY <1>1, <1>2, <3>1, <4>3
    <3>3. CASE x.delay
      <4>1. \/ Replace(t, <<[x EXCEPT !.op = "delayed"]>>)
            \/ /\ Replace(t, <<[x EXCEPT !.op = "admitted"]>>)
               /\ service' = [service EXCEPT !.running[HostOf[x.f]] = @ \cup {x.f}]
        BY Zenon, <1>3, <2>6, <3>3 DEF Admit
      <4>2. CASE Replace(t, <<[x EXCEPT !.op = "delayed"]>>)
        <5>1. ~HoldsFrame([x EXCEPT !.op = "delayed"])
          BY <2>4 DEF HoldsFrame
        <5>2. SlotFrame(stack', g) => Got
          BY <2>2, <4>2, <5>1 DEF Op
        <5>3. QED
          BY <1>1, <1>2, <3>1, <5>2
      <4>3. CASE /\ Replace(t, <<[x EXCEPT !.op = "admitted"]>>)
                 /\ service' = [service EXCEPT !.running[HostOf[x.f]] = @ \cup {x.f}]
        <5>1. x.f \in service'.running[HostOf[x.f]]
          BY <1>0, <2>1, <4>3 DEF ServiceType, Host
        <5>2. x.f = g => Got
          BY <5>1 DEF Got
        <5>3. SlotFrame(stack', g) => Got
          BY <2>2, <4>3, <5>2 DEF Op
        <5>4. QED
          BY <1>1, <1>2, <3>1, <5>3
      <4>4. QED
        BY <4>1, <4>2, <4>3
    <3>4. QED
      BY <3>2, <3>3
  <2>7. CASE NoteHost(t)
    <3>1. fetcher'[g].asking = fetcher[g].asking /\ net' = net
      <4>1. \E f, a : fetcher' = [fetcher EXCEPT ![f].host = TRUE, ![f].session = a]
        BY <2>7 DEF NoteHost
      <4>2. QED
        BY <1>0, <2>7, <4>1 DEF NoteHost, FetcherType
    <3>2. Replace(t, <<>>) \/ (x.op = "admitted" /\ Replace(t, <<[x EXCEPT !.op = "launch"]>>))
      BY <1>3, <2>7 DEF NoteHost, Top
    <3>3. x.op = "admitted" => HoldsFrame(x)
      BY DEF HoldsFrame
    <3>4. SlotFrame(stack', g) => Got
      BY <1>4, <1>6, <2>2, <3>2, <3>3 DEF Op
    <3>5. QED
      BY <1>1, <1>2, <3>1, <3>4
  <2>8. CASE Launch(t)
    <3>1. HoldsFrame(x)
      BY <1>3, <2>8 DEF Launch, Top, HoldsFrame
    <3>2. CASE x.f = g
      BY <1>1, <1>4, <3>1, <3>2
    <3>3. CASE x.f # g
      <4>1. fetcher'[g] = fetcher[g]
        BY <1>0, <1>3, <2>1, <2>8, <3>3 DEF Launch
      <4>2. SlotTask(net'.tasks, g) => SlotTask(net.tasks, g)
        <5>1. net'.tasks = net.tasks \/ net'.tasks = Put(net.tasks, net.next, x.f)
          BY <1>0, <1>3, <2>8 DEF Launch, NetType
        <5>2. \A n \in Nat : TaskAt(net'.tasks, g, n) => TaskAt(net.tasks, g, n)
          BY <1>0, <2>1, <3>3, <5>1, TaskMapsAfter DEF NetType
        <5>3. QED
          BY <5>2 DEF SlotTask
      <4>3. SlotFrame(stack', g) => Got
        <5>1. Replace(t, <<>>) \/ Replace(t, <<Frame("fail", x.f)>>)
          BY <1>3, <2>8 DEF Launch
        <5>2. QED
          BY <1>6, <2>3, <5>1 DEF Op
      <4>4. QED
        BY <1>1, <1>2, <4>1, <4>2, <4>3
    <3>4. QED
      BY <3>2, <3>3
  <2>9. CASE FailToBegin(t) \/ StopFetch(t)
    <3>1. Replace(t, <<Frame("didStop", x.f)>>)
      BY Zenon, <1>3, <2>9 DEF FailToBegin, StopFetch
    <3>2. SlotFrame(stack', g) => Got
      BY <2>3, <3>1 DEF Op
    <3>3. fetcher'[g].asking => fetcher[g].asking
      <4>1. g # x.f => fetcher'[g] = fetcher[g]
        BY Zenon, <1>0, <1>3, <2>9 DEF FailToBegin, StopFetch
      <4>2. CASE FailToBegin(t)
        BY <1>0, <4>2 DEF FailToBegin, FetcherType
      <4>3. CASE StopFetch(t)
        <5>1. fetcher'[x.f].asking = FALSE
          BY Zenon, <1>0, <1>3, <2>1, <4>3 DEF StopFetch, FetcherType
        <5>2. QED
          BY <4>1, <5>1
      <4>4. QED
        BY <2>9, <4>2, <4>3
    <3>4. SlotTask(net'.tasks, g) => SlotTask(net.tasks, g)
      <4>1. \E S : net'.tasks = net.tasks \/ net'.tasks = Drop(net.tasks, S)
        <5>1. net' = net \/ net' = [net EXCEPT !.tasks = Drop(@, {fetcher[x.f].task})]
          BY Zenon, <1>3, <2>9 DEF FailToBegin, StopFetch
        <5>2. QED
          BY <1>0, <5>1 DEF NetType
      <4>2. \A n \in Nat : TaskAt(net'.tasks, g, n) => TaskAt(net.tasks, g, n)
        BY <1>0, <4>1, TaskMapsAfter
      <4>3. QED
        BY <4>2 DEF SlotTask
    <3>5. QED
      BY <1>1, <1>2, <3>2, <3>3, <3>4
  <2>10. CASE DidStop(t)
    <3>1. UNCHANGED <<fetcher, net>>
      BY Zenon, <2>10 DEF DidStop
    <3>2. CASE ~fetcher[x.f].host
      <4>1. Replace(t, <<>>)
        BY <1>3, <2>10, <3>2 DEF DidStop
      <4>2. QED
        BY <1>1, <1>2, <1>6, <3>1, <4>1
    <3>3. CASE fetcher[x.f].host
      <4>0. PICK f, h : f = x.f /\ h = HostOf[f]
        OBVIOUS
      <4>1. PICK n \in Nat, d \in Seq(Fetcher), rest \in Seq(Fetcher) : Takes(t, f, h, n, d, rest)
        BY <1>3, <2>10, <3>3, <4>0, DidStopDoes
      <4>2. f \in Fetcher /\ h \in Host
        BY <2>1, <4>0 DEF Host
      <4>3. Starts(t, f, n, d) /\ Started(t, f, n, d)
        <5>1. Starts(t, f, n, d)
          BY <4>1 DEF Takes
        <5>2. QED
          BY <1>0, <4>2, <5>1, Begun
      <4>4. ASSUME NEW k \in 1 .. n, d[k] = g PROVE Got
        <5>1. PICK i \in DOMAIN service.delayed[h] : service.delayed[h][i] = g
          BY <4>1, <4>3, <4>4 DEF Takes, Starts
        <5>2. HostOf[g] = h
          BY <4>2, <5>1 DEF Owners, ListOwned
        <5>3. PICK r : r = (service.running[h] \ {f}) \cup {d[j] : j \in 1 .. n}
          OBVIOUS
        <5>4. service' = [service EXCEPT !.running[h] = r, !.delayed[h] = rest]
          BY <4>1, <5>3 DEF Takes
        <5>5. service'.running[h] = r
          BY <1>0, <4>2, <5>4 DEF ServiceType
        <5>6. QED
          BY <4>4, <5>2, <5>3, <5>5 DEF Got
      <4>5. SlotFrame(stack', g) => Got
        <5>1. ASSUME NEW p \in Thread, NEW m \in Nat, FrameAt(stack', g, p, m), HoldsFrame(stack'[p][m])
              PROVE  Got
          <6>1. CASE p # t
            <7>1. FrameAt(stack, g, p, m) /\ stack'[p][m] = stack[p][m]
              BY <4>3, <5>1, <6>1 DEF Started, FrameAt
            <7>2. QED
              BY <1>2, <5>1, <7>1 DEF SlotFrame
          <6>2. CASE p = t /\ m \in 1 .. n /\ stack'[t][m] = Begin(d[m], FALSE, TRUE)
            <7>1. d[m] = g
              BY <5>1, <6>2 DEF FrameAt, Begin
            <7>2. QED
              BY <4>4, <6>2, <7>1
          <6>3. CASE p = t /\ m = n + 1 /\ stack'[t][m] = Frame("unhost", f)
            BY <5>1, <6>3 DEF Frame, HoldsFrame
          <6>4. CASE p = t /\ m > n + 1 /\ m - n \in DOMAIN stack[t] /\ stack'[t][m] = stack[t][m - n]
            <7>1. FrameAt(stack, g, t, m - n) /\ m - n \in Nat
              BY <5>1, <6>4 DEF FrameAt
            <7>2. QED
              BY <1>2, <5>1, <6>4, <7>1 DEF SlotFrame
          <6>5. QED
            BY <4>3, <5>1, <6>1, <6>2, <6>3, <6>4 DEF Started, FrameAt
        <5>2. QED
          BY <5>1 DEF SlotFrame
      <4>6. QED
        BY <1>1, <1>2, <3>1, <4>5
    <3>4. QED
      BY <3>2, <3>3
  <2>11. CASE ClearHost(t) \/ BeginForRetry(t)
    <3>1. fetcher'[g].asking = fetcher[g].asking /\ net' = net
      <4>1. \E f, a : fetcher' = [fetcher EXCEPT ![f].host = FALSE] \/ fetcher' = [fetcher EXCEPT ![f].session = a]
        BY <2>11 DEF ClearHost, BeginForRetry
      <4>2. net' = net
        BY <2>11 DEF ClearHost, BeginForRetry
      <4>3. QED
        BY <1>0, <4>1, <4>2 DEF FetcherType
    <3>2. SlotFrame(stack', g) => Got
      <4>1. PICK y : y = Begin(x.f, TRUE, TRUE)
        OBVIOUS
      <4>2. y \in FrameType /\ ~HoldsFrame(y)
        BY <2>1, <4>1, FrameTypes DEF Begin, HoldsFrame
      <4>3. Replace(t, <<>>) \/ Replace(t, <<y>>)
        BY <1>3, <2>11, <4>1 DEF ClearHost, BeginForRetry
      <4>4. QED
        BY <1>5, <1>6, <4>2, <4>3
    <3>3. QED
      BY <1>1, <1>2, <3>1, <3>2
  <2>12. QED
    BY <1>8, <2>5, <2>6, <2>7, <2>8, <2>9, <2>10, <2>11 DEF RunFrame
<1>9. QED
  BY <1>7, <1>8

\* After any step whoever needs a slot had one or is given one.
LEMMA HeldStep ==
  ASSUME FetcherServiceAssumption, TypeOK, Owners, [Next]_vars, NEW g \in Fetcher
  PROVE  Held(g)
<1>0. /\ fetcher \in [Fetcher -> FetcherType] /\ net \in NetType /\ net.tasks \in TaskMap
      /\ "main" \in Thread /\ "delegate" \in Thread
  BY DEF TypeOK, NetType, Thread
<1>1. ASSUME SlotFrame(stack', g) => SlotFrame(stack, g) \/ fetcher[g].asking,
             SlotTask(net'.tasks, g) => SlotTask(net.tasks, g), fetcher'[g].asking => fetcher[g].asking
      PROVE  Held(g)
  BY <1>1 DEF Held, Holds
<1>2. CASE TaskCompleted
  <2>1. PICK f, a, y : /\ y = Stop(f, TRUE)
                       /\ fetcher' = fetcher \/ fetcher' = [fetcher EXCEPT ![f].task = a]
                       /\ \/ stack' = stack
                          \/ stack' = [stack EXCEPT !["delegate"] = <<>>]
                          \/ stack' = [stack EXCEPT !["delegate"] = <<y>>]
    BY <1>2 DEF TaskCompleted
  <2>2. ~HoldsFrame(y)
    BY <2>1 DEF HoldsFrame, Stop
  <2>3. CASE stack' = [stack EXCEPT !["delegate"] = <<>>]
    <3>1. PICK q : q = <<>>
      OBVIOUS
    <3>2. \A n \in DOMAIN q : ~(q[n].f = g /\ HoldsFrame(q[n]))
      BY <3>1
    <3>3. SlotFrame(stack', g) => SlotFrame(stack, g)
      BY <1>0, <2>3, <3>1, <3>2, SlotLoaded
    <3>4. fetcher'[g].asking = fetcher[g].asking
      BY <1>0, <2>1 DEF FetcherType
    <3>5. QED
      BY <1>1, <1>2, <3>3, <3>4 DEF TaskCompleted
  <2>4. CASE stack' = [stack EXCEPT !["delegate"] = <<y>>] \/ stack' = stack
    <3>1. SlotFrame(stack', g) => SlotFrame(stack, g)
      BY <1>0, <2>2, <2>4, SlotPushed
    <3>2. fetcher'[g].asking = fetcher[g].asking
      BY <1>0, <2>1 DEF FetcherType
    <3>3. QED
      BY <1>1, <1>2, <3>1, <3>2 DEF TaskCompleted
  <2>5. QED
    BY <2>1, <2>3, <2>4
<1>3. CASE RetryFetch
  <2>1. PICK f, q : q = <<Stop(f, FALSE), Frame("again", f)>> /\ stack' = [stack EXCEPT !["delegate"] = q]
    BY <1>3 DEF RetryFetch
  <2>2. DOMAIN q = {1, 2} /\ q[1] = Stop(f, FALSE) /\ q[2] = Frame("again", f)
    BY <2>1
  <2>3. \A n \in DOMAIN q : ~(q[n].f = g /\ HoldsFrame(q[n]))
    BY <2>2 DEF HoldsFrame, Stop, Frame
  <2>4. SlotFrame(stack', g) => SlotFrame(stack, g)
    BY <1>0, <2>1, <2>3, SlotLoaded
  <2>5. QED
    BY <1>1, <1>3, <2>4 DEF RetryFetch
<1>4. ASSUME NEW k \in DOMAIN net.tasks, TaskEnds(k) PROVE Held(g)
  <2>1. net'.tasks = Drop(net.tasks, {k})
    BY <1>0, <1>4 DEF TaskEnds, NetType
  <2>2. SlotTask(net'.tasks, g) => SlotTask(net.tasks, g)
    BY <1>0, <2>1, TaskMapsAfter DEF SlotTask
  <2>3. QED
    BY <1>1, <1>4, <2>2 DEF TaskEnds
<1>5. CASE BeginRetryTimer \/ \E f \in Fetcher : RetryTimerFired(f)
  <2>1. PICK f, a, b : \/ fetcher' = [fetcher EXCEPT ![f].timer = b]
                       \/ fetcher' = [fetcher EXCEPT ![f].timer = b, ![f].retries = a]
    BY <1>5 DEF BeginRetryTimer, RetryTimerFired
  <2>2. fetcher'[g].asking = fetcher[g].asking
    BY <1>0, <2>1 DEF FetcherType
  <2>3. UNCHANGED <<stack, net>>
    BY <1>5 DEF BeginRetryTimer, RetryTimerFired
  <2>4. QED
    BY <1>1, <2>2, <2>3
<1>6. CASE InvokeHandler \/ UNCHANGED vars
  BY <1>1, <1>6 DEF InvokeHandler, vars
<1>7. CASE StopAll
  <2>1. PICK stopped, barred \in BOOLEAN : fetcher'[g] = [fetcher[g] EXCEPT !.barred = barred, !.stopped = stopped]
    BY Zenon, <1>7, StopAllDoes
  <2>2. fetcher'[g].asking = fetcher[g].asking
    BY <1>0, <2>1 DEF FetcherType
  <2>3. ASSUME NEW p \in Thread, NEW n \in Nat, FrameAt(stack', g, p, n), HoldsFrame(stack'[p][n])
        PROVE  SlotFrame(stack, g)
    <3>1. CASE p = "main"
      <4>1. \E f \in Fetcher : stack'["main"][n] = Stop(f, TRUE)
        BY Zenon, <1>7, <2>3, <3>1, StopAllDoes DEF FrameAt
      <4>2. QED
        BY <2>3, <3>1, <4>1 DEF Stop, HoldsFrame
    <3>2. CASE p = "delegate"
      <4>1. stack'["delegate"] = stack["delegate"]
        BY Zenon, <1>7, StopAllDoes
      <4>2. QED
        BY <2>3, <3>2, <4>1 DEF FrameAt, SlotFrame
    <3>3. QED
      BY <3>1, <3>2 DEF Thread
  <2>4. SlotFrame(stack', g) => SlotFrame(stack, g)
    BY <2>3 DEF SlotFrame
  <2>5. QED
    BY Zenon, <1>1, <1>7, <2>2, <2>4 DEF StopAll
<1>8. ASSUME NEW f \in Fetcher, ClientBegin(f) \/ ClientStop(f) PROVE Held(g)
  <2>1. PICK y : stack' = [stack EXCEPT !["main"] = <<y>>] /\ ~HoldsFrame(y)
    <3>1. PICK a, b : a = Begin(f, TRUE, TRUE) /\ b = Stop(f, TRUE)
      OBVIOUS
    <3>2. ~HoldsFrame(a) /\ ~HoldsFrame(b)
      BY <3>1 DEF Begin, Stop, HoldsFrame
    <3>3. stack' = [stack EXCEPT !["main"] = <<a>>] \/ stack' = [stack EXCEPT !["main"] = <<b>>]
      BY <1>8, <3>1 DEF ClientBegin, ClientStop
    <3>4. QED
      BY <3>2, <3>3
  <2>2. SlotFrame(stack', g) => SlotFrame(stack, g)
    BY <1>0, <2>1, SlotPushed
  <2>3. fetcher'[g].asking = fetcher[g].asking
    <3>1. \/ fetcher' = [fetcher EXCEPT ![f].begun = TRUE]
          \/ fetcher' = [fetcher EXCEPT ![f].stopped = TRUE]
      BY <1>8 DEF ClientBegin, ClientStop
    <3>2. QED
      BY <1>0, <3>1 DEF FetcherType
  <2>4. QED
    BY <1>1, <1>8, <2>2, <2>3 DEF ClientBegin, ClientStop
<1>9. ASSUME NEW f \in Fetcher, NEW ok \in BOOLEAN, AuthorizerFinished(f, ok) PROVE Held(g)
  <2>1. PICK y : stack' = [stack EXCEPT !["main"] = <<y>>] /\ y.f = f
    <3>1. PICK a, b : a = Begin(f, FALSE, FALSE) /\ b = Frame("fail", f)
      OBVIOUS
    <3>2. a.f = f /\ b.f = f
      BY <3>1 DEF Begin, Frame
    <3>3. stack' = [stack EXCEPT !["main"] = <<a>>] \/ stack' = [stack EXCEPT !["main"] = <<b>>]
      BY <1>9, <3>1 DEF AuthorizerFinished
    <3>4. QED
      BY <3>2, <3>3
  <2>2. SlotFrame(stack', g) => SlotFrame(stack, g) \/ f = g
    BY <1>0, <2>1, SlotPushed
  <2>3. fetcher[f].asking /\ (fetcher'[g].asking => fetcher[g].asking)
    BY <1>0, <1>9 DEF AuthorizerFinished, FetcherType
  <2>4. QED
    BY <1>1, <1>9, <2>2, <2>3 DEF AuthorizerFinished
<1>10. CASE DiscardTimerFired
  <2>1. PICK y, q : /\ y = [Frame("discard", None) EXCEPT !.delay = disp.timer] /\ q = <<>>
                    /\ stack' = [stack EXCEPT !["main"] = <<y>>] \/ stack' = [stack EXCEPT !["main"] = q]
    BY <1>10 DEF DiscardTimerFired
  <2>2. ~HoldsFrame(y)
    BY <2>1 DEF Frame, HoldsFrame
  <2>3. \A n \in DOMAIN q : ~(q[n].f = g /\ HoldsFrame(q[n]))
    BY <2>1
  <2>4. SlotFrame(stack', g) => SlotFrame(stack, g)
    BY <1>0, <2>1, <2>2, <2>3, SlotPushed, SlotLoaded
  <2>5. QED
    BY <1>1, <1>10, <2>4 DEF DiscardTimerFired
<1>11. CASE Work
  BY <1>2, <1>3, <1>4, <1>5, <1>6, <1>9, <1>11, HeldAfterFrame DEF Work
<1>12. CASE ~Work
  BY <1>6, <1>7, <1>8, <1>10, <1>12 DEF Next
<1>13. QED
  BY <1>11, <1>12

\* A running fetcher gives its slot up when it did stop, or all fetchers are stopped.
LEMMA RunningStep ==
  ASSUME FetcherServiceAssumption, TypeOK, [Next]_vars, NEW g \in Fetcher,
         g \in service.running[HostOf[g]], ~fetcher'[g].stopped
  PROVE  g \in service'.running[HostOf[g]] \/ \E t \in Thread : DidStop(t) /\ Head(stack[t]).f = g
<1>0. service \in ServiceType /\ HostOf[g] \in Host
  BY DEF TypeOK, Host
<1>1. CASE service'.running = service.running
  BY <1>1
<1>2. CASE StopAll
  BY Zenon, <1>0, <1>2, StopAllDoes
<1>3. ASSUME NEW t \in Thread, Admit(t) PROVE g \in service'.running[HostOf[g]]
  <2>1. PICK h, a, b : \/ service' = service
                       \/ service' = [service EXCEPT !.running[h] = @ \cup {a}]
                       \/ service' = [service EXCEPT !.delayed[h] = b]
    BY Zenon, <1>3 DEF Admit
  <2>2. \/ service'.running = service.running
        \/ service'.running = [service.running EXCEPT ![h] = @ \cup {a}]
    BY <1>0, <2>1 DEF ServiceType
  <2>3. service.running \in [Host -> SUBSET Fetcher]
    BY <1>0 DEF ServiceType
  <2>4. QED
    BY <1>0, <2>2, <2>3
<1>4. ASSUME NEW t \in Thread, DidStop(t), Head(stack[t]).f # g PROVE g \in service'.running[HostOf[g]]
  <2>1. PICK f, h : f = Head(stack[t]).f /\ h = HostOf[f]
    OBVIOUS
  <2>2. CASE ~fetcher[f].host
    <3>1. service' = service
      BY <1>4, <2>1, <2>2 DEF DidStop
    <3>2. QED
      BY <3>1
  <2>3. CASE fetcher[f].host
    <3>1. PICK n \in Nat, d \in Seq(Fetcher), rest \in Seq(Fetcher) : Takes(t, f, h, n, d, rest)
      BY <1>4, <2>1, <2>3, DidStopDoes
    <3>2. PICK r : r = (service.running[h] \ {f}) \cup {d[j] : j \in 1 .. n}
      OBVIOUS
    <3>3. service' = [service EXCEPT !.running[h] = r, !.delayed[h] = rest]
      BY <3>1, <3>2 DEF Takes
    <3>4. HostOf[g] # h => service'.running[HostOf[g]] = service.running[HostOf[g]]
      BY <1>0, <3>3 DEF ServiceType
    <3>5. HostOf[g] = h => service'.running[HostOf[g]] = r
      BY <1>0, <3>3 DEF ServiceType
    <3>6. QED
      BY <1>4, <2>1, <3>2, <3>4, <3>5
  <2>4. QED
    BY <2>2, <2>3
<1>5. ASSUME NEW t \in Thread, BeginFetch(t) \/ CreateSession(t) PROVE service'.running = service.running
  BY <1>0, <1>5 DEF BeginFetch, CreateSession, ServiceType
<1>6. ASSUME NEW t \in Thread, NoteHost(t) \/ Launch(t) \/ FailToBegin(t) \/ StopFetch(t) \/ ClearHost(t)
                                 \/ BeginForRetry(t) \/ DiscardSession(t)
      PROVE  service'.running = service.running
  BY Zenon, <1>6 DEF NoteHost, Launch, FailToBegin, StopFetch, ClearHost, BeginForRetry, DiscardSession
<1>7. CASE \/ TaskCompleted \/ RetryFetch \/ BeginRetryTimer \/ InvokeHandler \/ DiscardTimerFired \/ UNCHANGED vars
           \/ \E k \in DOMAIN net.tasks : TaskEnds(k)
           \/ \E f \in Fetcher : RetryTimerFired(f) \/ ClientBegin(f) \/ ClientStop(f)
           \/ \E f \in Fetcher, ok \in BOOLEAN : AuthorizerFinished(f, ok)
  BY <1>1, <1>7 DEF TaskCompleted, RetryFetch, BeginRetryTimer, InvokeHandler, DiscardTimerFired, vars, TaskEnds,
                    RetryTimerFired, ClientBegin, ClientStop, AuthorizerFinished
<1>8. ASSUME NEW t \in Thread, RunFrame(t)
      PROVE  g \in service'.running[HostOf[g]] \/ (DidStop(t) /\ Head(stack[t]).f = g)
  BY <1>1, <1>3, <1>4, <1>5, <1>6, <1>8 DEF RunFrame
<1>9. CASE Work
  BY <1>7, <1>8, <1>9 DEF Work
<1>10. CASE ~Work
  BY <1>2, <1>7, <1>10 DEF Next
<1>11. QED
  BY <1>9, <1>10

\* Who needs a slot is somewhere, and not about to be tried again.
LEMMA HoldsSomewhere ==
  ASSUME TypeOK, NEW g \in Fetcher, Holds(g)
  PROVE  \E p \in Place, n \in Nat : At(g, p, n) /\ (p \in Thread => stack[p][n].op # "again")
<1>1. CASE SlotFrame(stack, g)
  <2>1. PICK t \in Thread, n \in Nat : FrameAt(stack, g, t, n) /\ HoldsFrame(stack[t][n])
    BY <1>1 DEF SlotFrame
  <2>2. stack[t][n].op # "again" /\ t \in Place /\ At(g, t, n)
    BY <2>1 DEF HoldsFrame, Place, At
  <2>3. QED
    BY <2>2
<1>2. CASE SlotTask(net.tasks, g)
  <2>1. PICK n \in Nat : TaskAt(net.tasks, g, n)
    BY <1>2 DEF SlotTask
  <2>2. At(g, "task", n) /\ "task" \in Place /\ "task" \notin Thread
    BY <2>1 DEF At, Place, Thread
  <2>3. QED
    BY <2>2
<1>3. CASE fetcher[g].asking
  <2>1. At(g, "asking", 0) /\ "asking" \in Place /\ "asking" \notin Thread /\ 0 \in Nat
    BY <1>3 DEF At, FlagAt, Place, Thread
  <2>2. QED
    BY <2>1
<1>4. QED
  BY <1>1, <1>2, <1>3 DEF Holds

\* A fetch that is not stopped and needs a slot has it.
LEMMA SlotsStep ==
  ASSUME FetcherServiceAssumption, TypeOK, Places, Owners, Slots, [Next]_vars, NEW g \in Fetcher
  PROVE  SlotOK(g)'
<1> SUFFICES ASSUME ~fetcher'[g].stopped
             PROVE  (Holds(g)' => g \in service'.running[HostOf[g]]) /\ Parks(g)'
  BY DEF SlotOK
<1>1. ~fetcher[g].stopped
  BY FieldsLast
<1>2. (Holds(g) => g \in service.running[HostOf[g]]) /\ Parks(g)
  BY <1>1 DEF Slots, SlotOK
<1>3. Parks(g)'
  BY <1>2, ParksStep
<1>4. ASSUME NEW t \in Thread, DidStop(t), Head(stack[t]).f = g PROVE ~Holds(g)
  <2>1. StopAt(g, t, 1)
    <3>1. Top(t, "didStop")
      BY Zenon, <1>4 DEF DidStop
    <3>2. QED
      BY <1>4, <3>1, Running DEF StopAt
  <2>2. Parked(g, t, 1)
    BY <1>2, <2>1 DEF Parks
  <2>3. CASE Nowhere(g)
    BY <2>3, HoldsSomewhere DEF Nowhere
  <2>4. ASSUME NEW m \in Nat, AgainAt(g, t, m), Holds(g) PROVE FALSE
    <3>1. PICK p \in Place, n \in Nat : At(g, p, n) /\ (p \in Thread => stack[p][n].op # "again")
      BY <2>4, HoldsSomewhere
    <3>2. At(g, t, m) /\ t \in Place /\ stack[t][m].op = "again"
      BY <2>4 DEF AgainAt, At, Place
    <3>3. p = t /\ n = m
      BY <3>1, <3>2 DEF Places, OnePlace
    <3>4. QED
      BY <3>1, <3>2, <3>3
  <2>5. QED
    BY <2>2, <2>3, <2>4 DEF Parked
<1>5. ASSUME Holds(g)' PROVE g \in service'.running[HostOf[g]]
  <2>1. Holds(g) \/ g \in service'.running[HostOf[g]]
    BY <1>5, HeldStep DEF Held
  <2>2. CASE Holds(g)
    BY <1>2, <1>4, <2>2, RunningStep
  <2>3. QED
    BY <2>1, <2>2
<1>6. QED
  BY <1>3, <1>5

\* At first nobody needs a slot.
LEMMA SlotsInitially == Init => Slots
<1> SUFFICES ASSUME Init, NEW f \in Fetcher PROVE SlotOK(f)
  BY DEF Slots
<1>1. ~fetcher[f].asking /\ DOMAIN net.tasks = {} /\ \A t \in Thread : stack[t] = <<>>
  BY DEF Init, Empty
<1>2. ~Holds(f)
  BY <1>1 DEF Holds, SlotFrame, SlotTask, FrameAt, TaskAt
<1>3. Parks(f)
  BY <1>1 DEF Parks, StopAt
<1>4. QED
  BY <1>2, <1>3 DEF SlotOK

\* Tasks of a host that are not stopped belong to different running fetchers of the host.
LEMMA TasksAreBounded ==
  ASSUME FetcherServiceAssumption, Inv, NEW h \in Host
  PROVE  Cardinality({k \in DOMAIN net.tasks :
                        HostOf[net.tasks[k]] = h /\ ~fetcher[net.tasks[k]].stopped}) <= MaxRunning
<1> DEFINE S == {k \in DOMAIN net.tasks : HostOf[net.tasks[k]] = h /\ ~fetcher[net.tasks[k]].stopped}
           T == service.running[h]
           owner == [k \in S |-> net.tasks[k]]
<1>1. TypeOK /\ Places /\ Slots
  BY DEF Inv, FetchInv
<1>2. T \subseteq Fetcher /\ net.tasks \in TaskMap /\ Cardinality(T) <= MaxRunning
  BY <1>1 DEF TypeOK, ServiceType, NetType
<1>3. IsFiniteSet(T)
  BY <1>2, FS_Subset DEF FetcherServiceAssumption
<1>4. ASSUME NEW k \in S
      PROVE  net.tasks[k] \in T /\ k \in Nat /\ net.tasks[k] \in Fetcher /\ At(net.tasks[k], "task", k)
  <2>1. net.tasks[k] \in Fetcher /\ k \in Nat
    BY <1>2, MapsKeepTheirType
  <2>2. TaskAt(net.tasks, net.tasks[k], k)
    BY DEF TaskAt
  <2>3. Holds(net.tasks[k])
    BY <2>1, <2>2 DEF Holds, SlotTask
  <2>4. net.tasks[k] \in T
    BY <1>1, <2>1, <2>3 DEF Slots, SlotOK
  <2>5. QED
    BY <2>1, <2>2, <2>4 DEF At
<1>5. ASSUME NEW j \in S, NEW k \in S, owner[j] = owner[k] PROVE j = k
  <2>1. PICK f \in Fetcher : f = net.tasks[j] /\ f = net.tasks[k]
    BY <1>4, <1>5
  <2>2. At(f, "task", j) /\ At(f, "task", k) /\ j \in Nat /\ k \in Nat /\ "task" \in Place
    BY <1>4, <2>1 DEF Place
  <2>3. QED
    BY <1>1, <2>2 DEF Places, OnePlace
<1>6. owner \in Injection(S, T)
  <2>1. owner \in [S -> T] /\ DOMAIN owner = S
    BY <1>4
  <2>2. \A j, k \in DOMAIN owner : owner[j] = owner[k] => j = k
    BY <1>5, <2>1
  <2> HIDE DEF owner, S, T
  <2>3. IsInjective(owner)
    BY <2>2 DEF IsInjective
  <2>4. QED
    BY <2>1, <2>3 DEF Injection
<1>7. Cardinality(S) <= Cardinality(T) /\ IsFiniteSet(S)
  BY <1>3, <1>6, FS_Injection
<1>8. Cardinality(S) \in Nat /\ Cardinality(T) \in Nat
  BY <1>3, <1>7, FS_CardinalityType
<1>9. QED
  BY <1>2, <1>7, <1>8 DEF FetcherServiceAssumption

\* Inv is inductive.
LEMMA InvStep == Inv /\ [Next]_vars => Inv'
<1> SUFFICES ASSUME Inv, [Next]_vars PROVE Inv'
  OBVIOUS
<1>1. FetchInv /\ Slots /\ TypeOK /\ Places /\ Owners
  BY DEF Inv, FetchInv
<1>2. FetchInv'
  BY <1>1, FetchInvStep
<1>3. Slots'
  BY <1>1, FetcherServiceAssumption, SlotsStep DEF Slots
<1>4. QED
  BY <1>2, <1>3 DEF Inv

\* fetcherShouldBeginFetching and fetcherDidStop: no host ever has more than
\* maxRunningFetchersPerHost requests of fetchers that nobody stopped under way,
\* whatever retries, authorisations and stops fall together.
THEOREM HostsAreBounded == Spec => []ConnectionLimit
<1>1. Init => Inv
  BY FetchInvInitially, SlotsInitially DEF Inv
<1>2. Inv => ConnectionLimit
  BY FetcherServiceAssumption, TasksAreBounded DEF ConnectionLimit
<1>3. QED
  BY <1>1, <1>2, InvStep, PTL DEF Spec

----------------------------------------------------------------------------
(* Sessions.                                                               *)

\* What a frame between coming for a session and using it is: on top of its stack.
\* The main thread discards a session, for a timer that was set before.
Brings == {"admit", "admitted", "delayed", "launch"}
Briefly == Brings \cup {"create", "discard"}
FrameOK(t, n) ==
  /\ stack[t][n].op \in Briefly => n = 1
  /\ stack[t][n].op = "discard" => t = "main" /\ stack[t][n].delay < disp.next
FramesOK == \A t \in Thread : \A n \in DOMAIN stack[t] : FrameOK(t, n)

\* The thread that makes a session is alone and holds the semaphore.
Creating(t) == Top(t, "create")
CreatorOK ==
  /\ \A t \in Thread : Creating(t) => ~service.semaphore /\ disp.session = None /\ disp.timer = None
  /\ \A t, u \in Thread : Creating(t) /\ Creating(u) => t = u

\* A fetcher that has a session has begun and is not asking its authoriser.  Between coming
\* for a session and using it, or letting it go, a fetcher has the dispatcher's.  One that
\* waits in the service, or was started from there, has none or lets it go.
Has(f, t) == stack[t] # <<>> /\ Head(stack[t]).op \in Brings /\ Head(stack[t]).f = f
Parts(f, t) == Has(f, t) /\ Head(stack[t]).op = "delayed"
BeginAt(f, t, n) == FrameAt(stack, f, t, n) /\ stack[t][n].op = "begin"
Waits(f) ==
  \/ \E n \in Nat : DelayedAt(service.delayed, f, n)
  \/ \E t \in Thread, n \in Nat : BeginAt(f, t, n)
SessionOK(f) ==
  fetcher[f].session # None =>
    /\ fetcher[f].begun /\ ~fetcher[f].asking
    /\ Waits(f) => \E t \in Thread : Parts(f, t)
    /\ (\E t \in Thread : Has(f, t)) => fetcher[f].session = disp.session

\* No fetcher is about to use a session that is to be discarded.
Doomed == Top("main", "discard") /\ Head(stack["main"]).delay = disp.timer
DiscardOK == Doomed => \A f \in Fetcher : Has(f, "delegate") => fetcher[f].session = None

\* Sessions and timers are numbered; the dispatcher's session is not an invalid one.
NumbersOK ==
  /\ \A s \in net.invalid : s < disp.next
  /\ disp.session # None => disp.session < disp.next /\ disp.session \notin net.invalid
  /\ disp.timer # None => disp.timer < disp.next

Sessions ==
  /\ FramesOK /\ CreatorOK /\ DiscardOK /\ NumbersOK /\ SessionsUsable
  /\ \A f \in Fetcher : SessionOK(f)
SessionInv == FetchInv /\ Sessions

\* A step puts no frame of g there that comes for a session, and leaves the one that is to
\* let it go.
Calm(g) ==
  /\ \A t \in Thread : Has(g, t)' => Has(g, t)
  /\ \A t \in Thread, n \in Nat : BeginAt(g, t, n)' => \E m \in Nat : BeginAt(g, t, m)
  /\ \A t \in Thread : Parts(g, t) => Parts(g, t)'

\* The same discard, or none.
SameDiscard(t) ==
  Top("main", "discard")' =>
    t # "main" /\ Top("main", "discard") /\ Head(stack'["main"]) = Head(stack["main"])

\* Thread t has no frame of those any more.
Unbrief(t) ==
  /\ FramesOK'
  /\ \A u \in Thread : Creating(u)' => u # t /\ Creating(u)
  /\ \A g \in Fetcher, u \in Thread : Has(g, u)' => u # t /\ Has(g, u)
  /\ SameDiscard(t)

\* The frame that runs is replaced by another one.
LEMMA SwapFrames ==
  ASSUME TypeOK, FramesOK, disp'.next >= disp.next, disp' \in DispType,
         NEW t \in Thread, stack[t] # <<>>, NEW x \in FrameType, x.op # "discard", Replace(t, <<x>>)
  PROVE  /\ FramesOK'
         /\ \A u \in Thread : Creating(u)' => IF u = t THEN x.op = "create" ELSE Creating(u)
         /\ \A g \in Fetcher, u \in Thread :
              Has(g, u)' <=> IF u = t THEN x.op \in Brings /\ x.f = g ELSE Has(g, u)
         /\ \A g \in Fetcher :
              /\ x.f = g => x.op \notin Brings \cup {"begin"}
              /\ Head(stack[t]).f = g => Head(stack[t]).op # "delayed"
              => Calm(g)
         /\ SameDiscard(t)
<1>1. /\ \A p \in Thread : p # t => stack'[p] = stack[p]
      /\ 1 \in DOMAIN stack[t] /\ DOMAIN stack'[t] = DOMAIN stack[t]
      /\ stack'[t] # <<>> /\ Head(stack'[t]) = x
      /\ \A n \in DOMAIN stack'[t] : stack'[t][n] = IF n = 1 THEN x ELSE stack[t][n]
  BY Swap
<1>2. disp.next \in Nat /\ disp'.next \in Nat /\ \A p \in Thread : \A n \in DOMAIN stack[p] : stack[p][n] \in FrameType
  <2>1. \A p \in Thread : stack[p] \in Seq(FrameType)
    BY DEF TypeOK, StackType
  <2>2. QED
    BY <2>1, LenProperties, ElementOfSeq DEF TypeOK, DispType
<1>3. ASSUME NEW p \in Thread, NEW n \in DOMAIN stack'[p] PROVE FrameOK(p, n)'
  <2>1. CASE p = t /\ n = 1
    BY <1>1, <2>1 DEF FrameOK
  <2>2. CASE ~(p = t /\ n = 1)
    <3>1. n \in DOMAIN stack[p] /\ stack'[p][n] = stack[p][n]
      BY <1>1, <2>2
    <3>2. FrameOK(p, n) /\ stack[p][n] \in FrameType
      BY <1>2, <3>1 DEF FramesOK
    <3>3. stack[p][n].op = "discard" => stack[p][n].delay \in Nat
      BY <3>2 DEF FrameType, Op
    <3>4. QED
      BY <1>2, <3>1, <3>2, <3>3 DEF FrameOK
  <2>3. QED
    BY <2>1, <2>2
<1>4. \A u \in Thread : Creating(u)' => IF u = t THEN x.op = "create" ELSE Creating(u)
  BY <1>1 DEF Creating, Top
<1>5. \A g \in Fetcher, u \in Thread :
              Has(g, u)' <=> IF u = t THEN x.op \in Brings /\ x.f = g ELSE Has(g, u)
  BY <1>1 DEF Has
<1>6. ASSUME NEW g \in Fetcher, x.f = g => x.op \notin Brings \cup {"begin"},
             Head(stack[t]).f = g => Head(stack[t]).op # "delayed"
      PROVE  Calm(g)
  <2>1. \A u \in Thread : Has(g, u)' => Has(g, u)
    BY <1>5, <1>6
  <2>2. \A u \in Thread, n \in Nat : BeginAt(g, u, n)' => BeginAt(g, u, n)
    BY <1>1, <1>6 DEF BeginAt, FrameAt
  <2>3. \A u \in Thread : Parts(g, u) => Parts(g, u)'
    BY <1>1, <1>6 DEF Parts, Has
  <2>4. QED
    BY <2>1, <2>2, <2>3 DEF Calm
<1>7. SameDiscard(t)
  BY <1>1 DEF SameDiscard, Top, Thread
<1>8. QED
  BY <1>3, <1>4, <1>5, <1>6, <1>7 DEF FramesOK

\* A frame that ends, and frames that are put on top, are none of those.
LEMMA DoneFrames ==
  ASSUME TypeOK, FramesOK, disp'.next >= disp.next, disp' \in DispType,
         NEW t \in Thread, stack[t] # <<>>, Replace(t, <<>>)
  PROVE  /\ Unbrief(t)
         /\ \A g \in Fetcher : (Head(stack[t]).f = g => Head(stack[t]).op # "delayed") => Calm(g)
<1>1. /\ \A p \in Thread : p # t => stack'[p] = stack[p]
      /\ \A n \in DOMAIN stack'[t] :
              n >= 1 /\ n + 1 \in DOMAIN stack[t] /\ stack'[t][n] = stack[t][n + 1]
  BY Done
<1>2. /\ disp.next \in Nat /\ disp'.next \in Nat
      /\ \A p \in Thread : \A n \in DOMAIN stack[p] : n \in Nat /\ stack[p][n] \in FrameType
      /\ \A p \in Thread : stack'[p] # <<>> => 1 \in DOMAIN stack'[p] /\ Head(stack'[p]) = stack'[p][1]
      /\ \A p \in Thread : \A n \in DOMAIN stack'[p] : n \in Nat
  <2>1. \A p \in Thread : stack[p] \in Seq(FrameType) /\ stack'[p] \in Seq(FrameType)
    BY Done DEF TypeOK, StackType
  <2>2. QED
    BY <2>1, LenProperties, ElementOfSeq, Consumed DEF TypeOK, DispType
<1>3. ASSUME NEW n \in DOMAIN stack'[t]
      PROVE  stack'[t][n].op \notin Briefly
  <2>1. FrameOK(t, n + 1) /\ n \in Nat /\ n >= 1 /\ stack'[t][n] = stack[t][n + 1]
    BY <1>1, <1>2 DEF FramesOK
  <2>2. QED
    BY <2>1 DEF FrameOK
<1>4. ASSUME NEW p \in Thread, NEW n \in DOMAIN stack'[p] PROVE FrameOK(p, n)'
  <2>1. CASE p = t
    BY <1>3, <2>1 DEF FrameOK, Briefly
  <2>2. CASE p # t
    <3>1. n \in DOMAIN stack[p] /\ stack'[p][n] = stack[p][n]
      BY <1>1, <2>2
    <3>2. FrameOK(p, n) /\ stack[p][n] \in FrameType
      BY <1>2, <3>1 DEF FramesOK
    <3>3. stack[p][n].op = "discard" => stack[p][n].delay \in Nat
      BY <3>2 DEF FrameType, Op
    <3>4. QED
      BY <1>2, <3>1, <3>2, <3>3 DEF FrameOK
  <2>3. QED
    BY <2>1, <2>2
<1>5. stack'[t] # <<>> => Head(stack'[t]).op \notin Briefly
  BY <1>2, <1>3
<1>6. Unbrief(t)
  <2>1. \A u \in Thread : Creating(u)' => u # t /\ Creating(u)
    BY <1>1, <1>5 DEF Creating, Top, Briefly
  <2>2. \A g \in Fetcher, u \in Thread : Has(g, u)' => u # t /\ Has(g, u)
    BY <1>1, <1>5 DEF Has, Briefly
  <2>3. SameDiscard(t)
    BY <1>1, <1>5 DEF SameDiscard, Top, Thread, Briefly
  <2>4. QED
    BY <1>4, <2>1, <2>2, <2>3 DEF Unbrief, FramesOK
<1>7. ASSUME NEW g \in Fetcher, Head(stack[t]).f = g => Head(stack[t]).op # "delayed" PROVE Calm(g)
  <2>1. \A u \in Thread : Has(g, u)' => Has(g, u)
    BY <1>6 DEF Unbrief
  <2>2. ASSUME NEW u \in Thread, NEW n \in Nat, BeginAt(g, u, n)' PROVE \E m \in Nat : BeginAt(g, u, m)
    <3>1. CASE u = t
      <4>1. n + 1 \in Nat /\ BeginAt(g, t, n + 1)
        BY <1>1, <2>2, <3>1 DEF BeginAt, FrameAt
      <4>2. QED
        BY <3>1, <4>1
    <3>2. CASE u # t
      BY <1>1, <2>2, <3>2 DEF BeginAt, FrameAt
    <3>3. QED
      BY <3>1, <3>2
  <2>3. \A u \in Thread : Parts(g, u) => Parts(g, u)'
    BY <1>1, <1>7 DEF Parts, Has
  <2>4. QED
    BY <2>1, <2>2, <2>3 DEF Calm
<1>8. QED
  BY <1>6, <1>7

\* An idle thread gets frames that neither come for a session nor discard it.
LEMMA PushFrames ==
  ASSUME TypeOK, FramesOK, disp'.next >= disp.next, disp' \in DispType, stack' \in StackType,
         NEW t \in Thread, Idle(t), \A p \in Thread : p # t => stack'[p] = stack[p],
         \A n \in DOMAIN stack'[t] : stack'[t][n].op \notin Briefly
  PROVE  /\ Unbrief(t)
         /\ \A g \in Fetcher :
              (\A n \in DOMAIN stack'[t] : stack'[t][n].f = g => stack'[t][n].op # "begin") => Calm(g)
<1>1. stack[t] = <<>> /\ \A p \in Thread : p # t => stack'[p] = stack[p]
  BY DEF Idle
<1>2. /\ disp.next \in Nat /\ disp'.next \in Nat
      /\ \A p \in Thread : \A n \in DOMAIN stack[p] : stack[p][n] \in FrameType
      /\ \A p \in Thread : stack'[p] # <<>> => 1 \in DOMAIN stack'[p] /\ Head(stack'[p]) = stack'[p][1]
  <2>1. \A p \in Thread : stack[p] \in Seq(FrameType) /\ stack'[p] \in Seq(FrameType)
    BY DEF TypeOK, StackType
  <2>2. QED
    BY <2>1, LenProperties, ElementOfSeq, Consumed DEF TypeOK, DispType
<1>4. ASSUME NEW p \in Thread, NEW n \in DOMAIN stack'[p] PROVE FrameOK(p, n)'
  <2>1. CASE p = t
    BY <2>1 DEF FrameOK, Briefly
  <2>2. CASE p # t
    <3>1. n \in DOMAIN stack[p] /\ stack'[p][n] = stack[p][n]
      BY <1>1, <2>2
    <3>2. FrameOK(p, n) /\ stack[p][n] \in FrameType
      BY <1>2, <3>1 DEF FramesOK
    <3>3. stack[p][n].op = "discard" => stack[p][n].delay \in Nat
      BY <3>2 DEF FrameType, Op
    <3>4. QED
      BY <1>2, <3>1, <3>2, <3>3 DEF FrameOK
  <2>3. QED
    BY <2>1, <2>2
<1>5. stack'[t] # <<>> => Head(stack'[t]).op \notin Briefly
  BY <1>2
<1>6. Unbrief(t)
  <2>1. \A u \in Thread : Creating(u)' => u # t /\ Creating(u)
    BY <1>1, <1>5 DEF Creating, Top, Briefly
  <2>2. \A g \in Fetcher, u \in Thread : Has(g, u)' => u # t /\ Has(g, u)
    BY <1>1, <1>5 DEF Has, Briefly
  <2>3. SameDiscard(t)
    BY <1>1, <1>5 DEF SameDiscard, Top, Thread, Briefly
  <2>4. QED
    BY <1>4, <2>1, <2>2, <2>3 DEF Unbrief, FramesOK
<1>7. ASSUME NEW g \in Fetcher,
             \A n \in DOMAIN stack'[t] : stack'[t][n].f = g => stack'[t][n].op # "begin"
      PROVE  Calm(g)
  <2>1. \A u \in Thread : Has(g, u)' => Has(g, u)
    BY <1>6 DEF Unbrief
  <2>2. \A u \in Thread, n \in Nat : BeginAt(g, u, n)' => BeginAt(g, u, n)
    BY <1>1, <1>7 DEF BeginAt, FrameAt
  <2>3. \A u \in Thread : Parts(g, u) => Parts(g, u)'
    BY <1>1 DEF Parts, Has
  <2>4. QED
    BY <2>1, <2>2, <2>3 DEF Calm
<1>8. QED
  BY <1>6, <1>7

\* fetcherDidStop: puts frames of the fetchers it starts, which waited, on top.
LEMMA StartFrames ==
  ASSUME TypeOK, FramesOK, disp'.next >= disp.next, disp' \in DispType,
         NEW t \in Thread, stack[t] # <<>>, Head(stack[t]).op = "didStop", NEW f \in Fetcher,
         NEW n \in Nat, NEW d \in Seq(Fetcher), Starts(t, f, n, d)
  PROVE  /\ Unbrief(t)
         /\ \A g \in Fetcher : (\A k \in 1 .. n : d[k] # g) => Calm(g)
         /\ \A g \in Fetcher, u \in Thread : Parts(g, u) => Parts(g, u)'
<1>1. /\ \A p \in Thread : p # t => stack'[p] = stack[p]
      /\ 1 \in DOMAIN stack[t] /\ stack' \in StackType /\ stack'[t] # <<>>
      /\ \A k \in DOMAIN stack'[t] :
           \/ k \in 1 .. n /\ stack'[t][k] = Begin(d[k], FALSE, TRUE)
           \/ k = n + 1 /\ stack'[t][k] = Frame("unhost", f)
           \/ /\ k \in Nat /\ k > n + 1 /\ k - n \in DOMAIN stack[t]
              /\ stack'[t][k] = stack[t][k - n]
  BY Begun DEF Started
<1>2. /\ disp.next \in Nat /\ disp'.next \in Nat
      /\ \A p \in Thread : \A k \in DOMAIN stack[p] : k \in Nat /\ stack[p][k] \in FrameType
      /\ \A p \in Thread : stack'[p] # <<>> => 1 \in DOMAIN stack'[p] /\ Head(stack'[p]) = stack'[p][1]
  <2>1. \A p \in Thread : stack[p] \in Seq(FrameType) /\ stack'[p] \in Seq(FrameType)
    BY <1>1 DEF TypeOK, StackType
  <2>2. QED
    BY <2>1, LenProperties, ElementOfSeq, Consumed DEF TypeOK, DispType
<1>3. ASSUME NEW k \in DOMAIN stack'[t]
      PROVE  stack'[t][k].op \notin Briefly
  <2>1. \/ k \in 1 .. n /\ stack'[t][k] = Begin(d[k], FALSE, TRUE)
        \/ k = n + 1 /\ stack'[t][k] = Frame("unhost", f)
        \/ k \in Nat /\ k > n + 1 /\ k - n \in DOMAIN stack[t] /\ stack'[t][k] = stack[t][k - n]
    BY Zenon, <1>1
  <2>2. CASE k \in 1 .. n /\ stack'[t][k] = Begin(d[k], FALSE, TRUE)
    BY <2>2 DEF Begin, Briefly, Brings
  <2>3. CASE k = n + 1 /\ stack'[t][k] = Frame("unhost", f)
    BY <2>3, FrameFields DEF Briefly, Brings
  <2>4. CASE k \in Nat /\ k > n + 1 /\ k - n \in DOMAIN stack[t] /\ stack'[t][k] = stack[t][k - n]
    <3>1. k - n # 1 /\ FrameOK(t, k - n)
      BY <2>4 DEF FramesOK
    <3>2. QED
      BY <2>4, <3>1 DEF FrameOK
  <2>5. QED
    BY <2>1, <2>2, <2>3, <2>4
<1>4. ASSUME NEW p \in Thread, NEW k \in DOMAIN stack'[p] PROVE FrameOK(p, k)'
  <2>1. CASE p = t
    BY <1>3, <2>1 DEF FrameOK, Briefly
  <2>2. CASE p # t
    <3>1. k \in DOMAIN stack[p] /\ stack'[p][k] = stack[p][k]
      BY <1>1, <2>2
    <3>2. FrameOK(p, k) /\ stack[p][k] \in FrameType
      BY <1>2, <3>1 DEF FramesOK
    <3>3. stack[p][k].op = "discard" => stack[p][k].delay \in Nat
      BY <3>2 DEF FrameType, Op
    <3>4. QED
      BY <1>2, <3>1, <3>2, <3>3 DEF FrameOK
  <2>3. QED
    BY <2>1, <2>2
<1>5. stack'[t] # <<>> => Head(stack'[t]).op \notin Briefly
  BY <1>2, <1>3
<1>6. Unbrief(t)
  <2>1. \A u \in Thread : Creating(u)' => u # t /\ Creating(u)
    BY <1>1, <1>5 DEF Creating, Top, Briefly
  <2>2. \A g \in Fetcher, u \in Thread : Has(g, u)' => u # t /\ Has(g, u)
    BY <1>1, <1>5 DEF Has, Briefly
  <2>3. SameDiscard(t)
    BY <1>1, <1>5 DEF SameDiscard, Top, Thread, Briefly
  <2>4. QED
    BY <1>4, <2>1, <2>2, <2>3 DEF Unbrief, FramesOK
<1>7. \A g \in Fetcher, u \in Thread : Parts(g, u) => Parts(g, u)'
  BY <1>1 DEF Parts, Has
<1>8. ASSUME NEW g \in Fetcher, \A k \in 1 .. n : d[k] # g PROVE Calm(g)
  <2>1. \A u \in Thread : Has(g, u)' => Has(g, u)
    BY <1>6 DEF Unbrief
  <2>2. ASSUME NEW u \in Thread, NEW k \in Nat, BeginAt(g, u, k)' PROVE \E m \in Nat : BeginAt(g, u, m)
    <3>1. CASE u = t
      <4>0. k \in DOMAIN stack'[t] /\ stack'[t][k].op = "begin" /\ stack'[t][k].f = g
        BY <2>2, <3>1 DEF BeginAt, FrameAt
      <4>1. k - n \in DOMAIN stack[t] /\ stack'[t][k] = stack[t][k - n]
        <5>1. \/ k \in 1 .. n /\ stack'[t][k] = Begin(d[k], FALSE, TRUE)
              \/ k = n + 1 /\ stack'[t][k] = Frame("unhost", f)
              \/ k - n \in DOMAIN stack[t] /\ stack'[t][k] = stack[t][k - n]
          BY Zenon, <1>1, <4>0
        <5>2. k \in 1 .. n /\ stack'[t][k] = Begin(d[k], FALSE, TRUE) => stack'[t][k].f = d[k] /\ d[k] # g
          BY <1>8 DEF Begin
        <5>3. k = n + 1 /\ stack'[t][k] = Frame("unhost", f) => stack'[t][k].op = "unhost"
          BY FrameFields
        <5>4. QED
          BY <4>0, <5>1, <5>2, <5>3
      <4>2. k - n \in Nat /\ BeginAt(g, t, k - n)
        BY <1>2, <4>0, <4>1 DEF BeginAt, FrameAt, Carries
      <4>3. QED
        BY <3>1, <4>2
    <3>2. CASE u # t
      BY <1>1, <2>2, <3>2 DEF BeginAt, FrameAt
    <3>3. QED
      BY <3>1, <3>2
  <2>3. QED
    BY <1>7, <2>1, <2>2 DEF Calm
<1>9. QED
  BY <1>6, <1>7, <1>8

\* A fetcher that nothing happens to keeps its session.
LEMMA SessionKept ==
  ASSUME NEW g \in Fetcher, SessionOK(g), Calm(g),
         fetcher'[g].session = fetcher[g].session, fetcher'[g].begun = fetcher[g].begun,
         fetcher'[g].asking => fetcher[g].asking,
         \A n \in Nat : DelayedAt(service'.delayed, g, n) => \E m \in Nat : DelayedAt(service.delayed, g, m),
         disp.session # None => disp'.session = disp.session
  PROVE  SessionOK(g)'
<1> SUFFICES ASSUME fetcher'[g].session # None
             PROVE  /\ fetcher'[g].begun /\ ~fetcher'[g].asking
                    /\ Waits(g)' => \E t \in Thread : Parts(g, t)'
                    /\ (\E t \in Thread : Has(g, t)') => fetcher'[g].session = disp'.session
  BY DEF SessionOK
<1>1. /\ fetcher[g].begun /\ ~fetcher[g].asking
      /\ Waits(g) => \E t \in Thread : Parts(g, t)
      /\ (\E t \in Thread : Has(g, t)) => fetcher[g].session = disp.session
  BY DEF SessionOK
<1>2. Waits(g)' => Waits(g)
  BY DEF Waits, Calm
<1>3. QED
  BY <1>1, <1>2 DEF Calm

\* No session is to be discarded that was not before.
LEMMA DiscardKept ==
  ASSUME TypeOK, FramesOK, NEW t \in Thread, SameDiscard(t),
         disp'.timer \in {None, disp.timer, disp.next},
         Doomed => \A g \in Fetcher : Has(g, "delegate")' => fetcher'[g].session = None
  PROVE  DiscardOK'
<1> SUFFICES ASSUME Top("main", "discard")', Head(stack'["main"]).delay = disp'.timer PROVE Doomed
  BY DEF DiscardOK, Doomed
<1>1. Top("main", "discard") /\ Head(stack'["main"]) = Head(stack["main"])
  BY DEF SameDiscard
<1>2. stack["main"] \in Seq(FrameType) /\ stack["main"] # <<>> /\ "main" \in Thread
  BY <1>1 DEF TypeOK, StackType, Top, Thread
<1>3. Head(stack["main"]) = stack["main"][1] /\ 1 \in DOMAIN stack["main"] /\ stack["main"][1] \in FrameType
  BY <1>2, Consumed
<1>4. FrameOK("main", 1) /\ stack["main"][1].op = "discard"
  BY <1>1, <1>2, <1>3 DEF FramesOK, Top
<1>5. Head(stack["main"]).delay \in Nat /\ Head(stack["main"]).delay < disp.next
  BY <1>3, <1>4 DEF FrameOK, FrameType, Op
<1>6. disp'.timer = disp.timer
  <2>1. disp.next \in Nat /\ None \notin Nat
    BY FetcherServiceAssumption DEF TypeOK, DispType, FetcherServiceAssumption
  <2>2. QED
    BY <1>1, <1>5, <2>1
<1>7. QED
  BY <1>1, <1>6 DEF Doomed

\* Steps that touch neither the sessions nor those who use them.
Quiet ==
  /\ \A g \in Fetcher :
       /\ fetcher'[g].session = fetcher[g].session /\ fetcher'[g].begun = fetcher[g].begun
       /\ fetcher'[g].asking => fetcher[g].asking
       /\ \A n \in Nat : DelayedAt(service'.delayed, g, n) => DelayedAt(service.delayed, g, n)
  /\ disp'.session = disp.session /\ disp'.timer = disp.timer /\ disp'.next = disp.next
  /\ net'.invalid = net.invalid /\ net'.dead = net.dead /\ service'.semaphore = service.semaphore

\* A quiet step of a thread keeps all that is said about sessions.
LEMMA QuietStep ==
  ASSUME TypeOK, Sessions, Quiet, NEW t \in Thread, Unbrief(t), \A g \in Fetcher : Calm(g)
  PROVE  Sessions'
<1>1. FramesOK /\ CreatorOK /\ DiscardOK /\ NumbersOK /\ SessionsUsable
  BY DEF Sessions
<1>2. FramesOK'
  BY DEF Unbrief
<1>3. CreatorOK'
  BY <1>1 DEF CreatorOK, Unbrief, Quiet
<1>4. NumbersOK' /\ SessionsUsable'
  BY <1>1 DEF NumbersOK, SessionsUsable, Quiet
<1>5. DiscardOK'
  <2>1. Doomed => \A g \in Fetcher : Has(g, "delegate")' => fetcher'[g].session = None
    BY <1>1 DEF DiscardOK, Unbrief, Quiet, Thread
  <2>2. SameDiscard(t) /\ disp'.timer = disp.timer
    BY DEF Unbrief, Quiet
  <2>3. QED
    BY <1>1, <2>1, <2>2, DiscardKept
<1>6. ASSUME NEW g \in Fetcher PROVE SessionOK(g)'
  BY SessionKept DEF Sessions, Quiet
<1>7. QED
  BY <1>2, <1>3, <1>4, <1>5, <1>6 DEF Sessions

\* And so does one that leaves the stacks alone.
LEMMA QuietAlone ==
  ASSUME Sessions, Quiet, stack' = stack
  PROVE  Sessions'
<1>1. FramesOK /\ CreatorOK /\ DiscardOK /\ NumbersOK /\ SessionsUsable
  BY DEF Sessions
<1>2. FramesOK'
  BY <1>1 DEF FramesOK, FrameOK, Quiet
<1>3. CreatorOK'
  BY <1>1 DEF CreatorOK, Creating, Top, Quiet
<1>4. NumbersOK' /\ SessionsUsable'
  BY <1>1 DEF NumbersOK, SessionsUsable, Quiet
<1>5. DiscardOK'
  BY <1>1 DEF DiscardOK, Doomed, Has, Top, Quiet
<1>6. ASSUME NEW g \in Fetcher PROVE SessionOK(g)'
  <2>1. Calm(g)
    BY DEF Calm, Has, Parts, BeginAt, FrameAt
  <2>2. QED
    BY <2>1, SessionKept DEF Sessions, Quiet
<1>7. QED
  BY <1>2, <1>3, <1>4, <1>5, <1>6 DEF Sessions

\* Frames that have nothing to do with sessions.
LEMMA QuietFrames ==
  ASSUME FetcherServiceAssumption, TypeOK, TypeOK', Sessions, NEW t \in Thread,
         FailToBegin(t) \/ StopFetch(t) \/ ClearHost(t) \/ (DidStop(t) /\ ~fetcher[Head(stack[t]).f].host)
  PROVE  Sessions'
<1>1. FramesOK /\ disp \in DispType /\ disp' = disp /\ stack[t] # <<>> /\ Head(stack[t]) \in Working
  <2>0. Top(t, "fail") \/ Top(t, "stop") \/ Top(t, "unhost") \/ Top(t, "didStop")
    BY Zenon DEF FailToBegin, StopFetch, ClearHost, DidStop
  <2>1. PICK op : Top(t, op) /\ op # "discard"
    BY <2>0
  <2>2. disp' = disp
    BY Zenon DEF FailToBegin, StopFetch, ClearHost, DidStop
  <2>3. QED
    BY <2>1, <2>2, Running DEF Sessions, TypeOK
<1>2. Head(stack[t]).op # "delayed" /\ Head(stack[t]).f \in Fetcher
  <2>1. Head(stack[t]).op # "delayed"
    BY Zenon DEF FailToBegin, StopFetch, ClearHost, DidStop, Top
  <2>2. QED
    BY <1>1, <2>1 DEF Working
<1>3. disp'.next >= disp.next /\ disp' \in DispType
  BY <1>1 DEF DispType
<1>4. ASSUME NEW x \in FrameType, Replace(t, <<x>>), x.op = "didStop"
      PROVE  Unbrief(t) /\ \A g \in Fetcher : Calm(g)
  <2>1. /\ FramesOK'
        /\ \A u \in Thread : Creating(u)' => IF u = t THEN x.op = "create" ELSE Creating(u)
        /\ \A g \in Fetcher, u \in Thread :
              Has(g, u)' <=> IF u = t THEN x.op \in Brings /\ x.f = g ELSE Has(g, u)
        /\ \A g \in Fetcher :
              /\ x.f = g => x.op \notin Brings \cup {"begin"}
              /\ Head(stack[t]).f = g => Head(stack[t]).op # "delayed"
              => Calm(g)
        /\ SameDiscard(t)
    BY <1>1, <1>3, <1>4, SwapFrames
  <2>2. x.op \notin Brings \cup {"begin", "create"}
    BY <1>4 DEF Brings
  <2>3. QED
    BY <1>2, <2>1, <2>2 DEF Unbrief
<1>5. Unbrief(t) /\ \A g \in Fetcher : Calm(g)
  <2>1. PICK f \in Fetcher : f = Head(stack[t]).f
    BY <1>2
  <2>2. Replace(t, <<>>) \/ Replace(t, <<Frame("didStop", f)>>)
    BY Zenon, <2>1 DEF FailToBegin, StopFetch, ClearHost, DidStop
  <2>3. Frame("didStop", f) \in FrameType /\ Frame("didStop", f).op = "didStop"
    BY FrameTypes, FrameFields DEF Op
  <2>4. QED
    BY <1>1, <1>2, <1>3, <1>4, <2>2, <2>3, DoneFrames
<1>6. Quiet
  <2>1. \A g \in Fetcher : /\ fetcher'[g].session = fetcher[g].session /\ fetcher'[g].begun = fetcher[g].begun
                           /\ fetcher'[g].asking => fetcher[g].asking
    <3>1. PICK f \in Fetcher : f = Head(stack[t]).f
      BY <1>2
    <3>2. PICK h : \/ fetcher' = fetcher
                   \/ fetcher' = [fetcher EXCEPT ![f].handler = FALSE]
                   \/ fetcher' = [fetcher EXCEPT ![f].host = FALSE]
                   \/ fetcher' = [fetcher EXCEPT ![f].timer = FALSE, ![f].task = None, ![f].asking = FALSE,
                                                 ![f].handler = h]
      <4>1. CASE StopFetch(t)
        BY Zenon, <3>1, <4>1 DEF StopFetch
      <4>2. CASE ~StopFetch(t)
        BY Zenon, <3>1, <4>2 DEF FailToBegin, ClearHost, DidStop
      <4>3. QED
        BY Zenon, <4>1, <4>2
    <3>3. fetcher \in [Fetcher -> FetcherType]
      BY DEF TypeOK
    <3>4. QED
      BY <3>2, <3>3 DEF FetcherType
  <2>2. service' = service
    BY Zenon DEF FailToBegin, StopFetch, ClearHost, DidStop
  <2>3. net'.invalid = net.invalid /\ net'.dead = net.dead
    <3>1. PICK m : net' = net \/ net' = [net EXCEPT !.tasks = m]
      BY Zenon DEF FailToBegin, StopFetch, ClearHost, DidStop
    <3>2. net \in NetType
      BY DEF TypeOK
    <3>3. QED
      BY <3>1, <3>2 DEF NetType
  <2>4. QED
    BY <1>1, <2>1, <2>2, <2>3 DEF Quiet
<1>7. QED
  BY <1>5, <1>6, QuietStep

\* The delegate queue, the network, the timers and stops have nothing to do with sessions.
LEMMA QuietEvents ==
  ASSUME FetcherServiceAssumption, TypeOK, TypeOK', Sessions,
         \/ TaskCompleted \/ RetryFetch \/ BeginRetryTimer \/ InvokeHandler \/ StopAll
         \/ \E k \in DOMAIN net.tasks : TaskEnds(k)
         \/ \E f \in Fetcher : RetryTimerFired(f) \/ ClientStop(f)
  PROVE  Sessions'
<1>0. /\ FramesOK /\ disp \in DispType /\ net \in NetType /\ stack \in StackType /\ stack' \in StackType
      /\ "main" \in Thread /\ "delegate" \in Thread /\ fetcher \in [Fetcher -> FetcherType]
      /\ disp' \in DispType
  BY DEF Sessions, TypeOK, Thread
<1>1. disp'.session = disp.session /\ disp'.timer = disp.timer /\ disp'.next = disp.next
  <2>1. PICK m : disp' = disp \/ disp' = [disp EXCEPT !.map = m]
    BY Zenon DEF TaskCompleted, RetryFetch, BeginRetryTimer, InvokeHandler, StopAll, TaskEnds, RetryTimerFired, ClientStop
  <2>2. QED
    BY <1>0, <2>1 DEF DispType
<1>2. net'.invalid = net.invalid /\ net'.dead = net.dead
  <2>1. PICK m : net' = net \/ net' = [net EXCEPT !.tasks = m]
    BY Zenon DEF TaskCompleted, RetryFetch, BeginRetryTimer, InvokeHandler, StopAll, TaskEnds, RetryTimerFired, ClientStop
  <2>2. QED
    BY <1>0, <2>1 DEF NetType
<1>3. /\ service'.semaphore = service.semaphore
      /\ \A g \in Fetcher, n \in Nat : DelayedAt(service'.delayed, g, n) => DelayedAt(service.delayed, g, n)
  <2>1. CASE service' = service
    BY <2>1
  <2>2. CASE StopAll
    <3>1. service' = [service EXCEPT !.running = [h \in Host |-> {}], !.delayed = [h \in Host |-> <<>>]]
          /\ service \in ServiceType
      BY Zenon, <2>2 DEF StopAll, TypeOK
    <3>2. service'.semaphore = service.semaphore /\ \A h \in Host : service'.delayed[h] = <<>>
      BY <3>1 DEF ServiceType
    <3>3. \A g \in Fetcher : HostOf[g] \in Host
      BY DEF Host
    <3>4. QED
      BY <3>2, <3>3 DEF DelayedAt
  <2>3. service' = service \/ StopAll
    BY Zenon DEF TaskCompleted, RetryFetch, BeginRetryTimer, InvokeHandler, TaskEnds, RetryTimerFired, ClientStop
  <2>4. QED
    BY <2>1, <2>2, <2>3
<1>4. ASSUME NEW g \in Fetcher
      PROVE  /\ fetcher'[g].session = fetcher[g].session /\ fetcher'[g].begun = fetcher[g].begun
             /\ fetcher'[g].asking => fetcher[g].asking
  <2>1. CASE StopAll
    <3>1. PICK stopped, barred \in BOOLEAN : fetcher'[g] = [fetcher[g] EXCEPT !.barred = barred, !.stopped = stopped]
      BY Zenon, <2>1, StopAllDoes
    <3>2. QED
      BY <1>0, <3>1 DEF FetcherType
  <2>2. CASE ~StopAll
    <3>1. PICK f, a : \/ fetcher' = fetcher
                      \/ fetcher' = [fetcher EXCEPT ![f].task = a]
                      \/ fetcher' = [fetcher EXCEPT ![f].timer = a]
                      \/ fetcher' = [fetcher EXCEPT ![f].timer = FALSE, ![f].retries = @ + 1]
                      \/ fetcher' = [fetcher EXCEPT ![f].stopped = TRUE]
      BY Zenon, <2>2 DEF TaskCompleted, RetryFetch, BeginRetryTimer, InvokeHandler, TaskEnds, RetryTimerFired, ClientStop
    <3>2. QED
      BY <1>0, <3>1 DEF FetcherType
  <2>3. QED
    BY <2>1, <2>2
<1>5. Quiet
  BY <1>1, <1>2, <1>3, <1>4 DEF Quiet
<1>6. CASE stack' = stack
  BY <1>5, <1>6, QuietAlone
<1>7. ASSUME NEW t \in Thread, Idle(t), \A p \in Thread : p # t => stack'[p] = stack[p],
             \A n \in DOMAIN stack'[t] : stack'[t][n].op \in {"stop", "again"}
      PROVE  Sessions'
  <2>1. \A n \in DOMAIN stack'[t] : stack'[t][n].op \notin Briefly /\ stack'[t][n].op # "begin"
    BY <1>7 DEF Briefly, Brings
  <2>2. disp'.next >= disp.next
    BY <1>0, <1>1 DEF DispType
  <2>3. Unbrief(t) /\ \A g \in Fetcher : Calm(g)
    BY <1>0, <1>7, <2>1, <2>2, PushFrames
  <2>4. QED
    BY <1>5, <2>3, QuietStep
<1>8. CASE stack' # stack
  <2>1. CASE StopAll
    <3>1. /\ stack["main"] = <<>> /\ stack'["delegate"] = stack["delegate"]
          /\ \A n \in DOMAIN stack'["main"] : \E f \in Fetcher : stack'["main"][n] = Stop(f, TRUE)
      BY Zenon, <2>1, StopAllDoes
    <3>2. \A f : Stop(f, TRUE).op = "stop"
      BY DEF Stop
    <3>3. \A n \in DOMAIN stack'["main"] : stack'["main"][n].op = "stop"
      BY Zenon, <3>1, <3>2
    <3>4. QED
      BY <1>0, <1>7, <3>1, <3>3 DEF Idle, Thread
  <2>2. CASE ~StopAll
    <3>1. PICK f, t : /\ t \in Thread /\ Idle(t)
                      /\ \/ stack' = [stack EXCEPT ![t] = <<Stop(f, TRUE)>>]
                         \/ stack' = [stack EXCEPT ![t] = <<Stop(f, FALSE), Frame("again", f)>>]
      <4>1. CASE TaskCompleted
        <5>1. stack["delegate"] = <<>> /\ \E f : \/ stack' = [stack EXCEPT !["delegate"] = <<Stop(f, TRUE)>>]
                                                 \/ stack' = [stack EXCEPT !["delegate"] = <<>>]
          BY <1>8, <4>1 DEF TaskCompleted, Idle
        <5>2. stack["delegate"] = <<>> => [stack EXCEPT !["delegate"] = <<>>] = stack
          BY <1>0 DEF StackType
        <5>3. QED
          BY Zenon, <1>0, <1>8, <4>1, <5>1, <5>2 DEF TaskCompleted
      <4>2. CASE RetryFetch
        BY Zenon, <1>0, <4>2 DEF RetryFetch
      <4>3. ASSUME NEW f \in Fetcher, ClientStop(f)
            PROVE  /\ "main" \in Thread /\ Idle("main")
                   /\ stack' = [stack EXCEPT !["main"] = <<Stop(f, TRUE)>>]
        BY Zenon, <1>0, <4>3 DEF ClientStop
      <4>4. QED
        BY Zenon, <1>8, <2>2, <4>1, <4>2, <4>3
             DEF BeginRetryTimer, InvokeHandler, TaskEnds, RetryTimerFired
    <3>2. \/ stack'[t] = <<Stop(f, TRUE)>>
          \/ stack'[t] = <<Stop(f, FALSE), Frame("again", f)>>
      BY <1>0, <3>1 DEF StackType
    <3>3. \A n \in DOMAIN stack'[t] : stack'[t][n].op \in {"stop", "again"}
      BY <3>2 DEF Stop, Frame
    <3>4. \A p \in Thread : p # t => stack'[p] = stack[p]
      BY <1>0, <3>1 DEF StackType
    <3>5. QED
      BY <1>7, <3>1, <3>3, <3>4
  <2>3. QED
    BY <2>1, <2>2
<1>9. QED
  BY <1>6, <1>8

\* A fetcher whose frame comes with the dispatcher's session, or comes for one, is nowhere else.
LEMMA SessionGiven ==
  ASSUME NEW g \in Fetcher, OnePlace(g)', NEW t \in Thread, stack' \in StackType, stack'[t] # <<>>,
         Head(stack'[t]).f = g, Head(stack'[t]).op \in {"create", "admit", "admitted", "launch"},
         fetcher'[g].session \in {None, disp'.session}
  PROVE  SessionOK(g)'
<1>1. Head(stack'[t]) = stack'[t][1] /\ 1 \in DOMAIN stack'[t]
  <2>1. stack'[t] \in Seq(FrameType)
    BY DEF StackType
  <2>2. QED
    BY <2>1, Consumed
<1>2. At(g, t, 1)' /\ t \in Place
  BY <1>1 DEF At, FrameAt, Carries, Place
<1>3. t \notin {"new", "asking", "delayed"} /\ {"new", "asking", "delayed"} \subseteq Place
  BY DEF Thread, Place
<1>4. fetcher'[g].begun /\ ~fetcher'[g].asking
  <2>1. ~fetcher'[g].begun => At(g, "new", 0)'
    BY DEF At, FlagAt
  <2>2. fetcher'[g].asking => At(g, "asking", 0)'
    BY DEF At, FlagAt
  <2>3. QED
    BY <1>2, <1>3, <2>1, <2>2 DEF OnePlace
<1>5. ~Waits(g)'
  <2>1. ASSUME NEW n \in Nat, DelayedAt(service'.delayed, g, n) PROVE FALSE
    <3>1. At(g, "delayed", n)'
      BY <2>1 DEF At
    <3>2. QED
      BY <1>2, <1>3, <3>1 DEF OnePlace
  <2>2. ASSUME NEW u \in Thread, NEW n \in Nat, BeginAt(g, u, n)' PROVE FALSE
    <3>1. At(g, u, n)' /\ u \in Place /\ stack'[u][n].op = "begin"
      BY <2>2 DEF BeginAt, At, Place
    <3>2. u = t /\ n = 1
      BY <1>2, <3>1 DEF OnePlace
    <3>3. QED
      BY <1>1, <3>1, <3>2
  <2>3. QED
    BY <2>1, <2>2 DEF Waits
<1>6. QED
  BY <1>4, <1>5 DEF SessionOK

\* The discard that is to come has a timer.
LEMMA DoomedTimer ==
  ASSUME FetcherServiceAssumption, TypeOK, Doomed
  PROVE  disp.timer # None
<1>1. stack["main"] \in Seq(FrameType) /\ stack["main"] # <<>> /\ Head(stack["main"]).op = "discard"
  BY DEF TypeOK, StackType, Doomed, Top, Thread
<1>2. Head(stack["main"]) \in FrameType
  BY <1>1, Consumed
<1>3. Head(stack["main"]).delay \in Nat
  BY <1>1, <1>2 DEF FrameType, Op
<1>4. QED
  BY <1>3 DEF Doomed, FetcherServiceAssumption

\* A frame goes on as another one.
LEMMA Renamed ==
  ASSUME NEW x \in Working, NEW op \in Op
  PROVE  \E y \in Working : y = [x EXCEPT !.op = op] /\ y.op = op /\ y.f = x.f /\ y \in FrameType
<1>1. [x EXCEPT !.op = op] \in Working
  BY FrameTypes
<1>2. [x EXCEPT !.op = op].op = op /\ [x EXCEPT !.op = op].f = x.f
  BY DEF Working
<1>3. [x EXCEPT !.op = op] \in FrameType
  BY <1>1 DEF Working, FrameType
<1>4. QED
  BY <1>1, <1>2, <1>3

\* beginFetchMayDelay: comes for the session.
LEMMA BeginSession ==
  ASSUME FetcherServiceAssumption, TypeOK, TypeOK', Places', Sessions, NEW t \in Thread, BeginFetch(t)
  PROVE  Sessions'
<1> PICK x : x = Head(stack[t])
  OBVIOUS
<1> PICK f : f = x.f
  OBVIOUS
<1>1. /\ x \in Working /\ x.op = "begin" /\ stack[t] # <<>> /\ x = stack[t][1] /\ 1 \in DOMAIN stack[t]
      /\ f \in Fetcher /\ Top(t, "begin") /\ stack' \in StackType
  <2>1. Top(t, "begin")
    BY Zenon DEF BeginFetch
  <2>2. x \in Working /\ x.op = "begin" /\ stack[t] # <<>> /\ x = stack[t][1] /\ 1 \in DOMAIN stack[t]
    BY <2>1, Running
  <2>3. QED
    BY <2>1, <2>2 DEF Working, TypeOK
<1>2. /\ FramesOK /\ CreatorOK /\ DiscardOK /\ NumbersOK /\ SessionsUsable
      /\ \A g \in Fetcher : SessionOK(g)
  BY DEF Sessions
<1>3. /\ disp \in DispType /\ disp' \in DispType /\ fetcher \in [Fetcher -> FetcherType] /\ service \in ServiceType
      /\ net' = net
  BY DEF TypeOK, BeginFetch
<1> DEFINE After(y, op) ==
      /\ y.op = op /\ y.f = f /\ y \in FrameType /\ Replace(t, <<y>>)
<1>4. ASSUME NEW y, NEW op, After(y, op), op # "discard", op # "begin", disp'.next = disp.next
      PROVE  /\ FramesOK'
             /\ \A u \in Thread : Creating(u)' => IF u = t THEN op = "create" ELSE Creating(u)
             /\ \A g \in Fetcher, u \in Thread :
                  Has(g, u)' <=> IF u = t THEN op \in Brings /\ g = f ELSE Has(g, u)
             /\ \A g \in Fetcher : g # f \/ op \notin Brings => Calm(g)
             /\ SameDiscard(t)
             /\ stack'[t] # <<>> /\ Head(stack'[t]) = y
  <2>1. disp'.next >= disp.next
    BY <1>3, <1>4 DEF DispType
  <2>2. /\ FramesOK'
        /\ \A u \in Thread : Creating(u)' => IF u = t THEN y.op = "create" ELSE Creating(u)
        /\ \A g \in Fetcher, u \in Thread :
              Has(g, u)' <=> IF u = t THEN y.op \in Brings /\ y.f = g ELSE Has(g, u)
        /\ \A g \in Fetcher :
              /\ y.f = g => y.op \notin Brings \cup {"begin"}
              /\ Head(stack[t]).f = g => Head(stack[t]).op # "delayed"
              => Calm(g)
        /\ SameDiscard(t)
    BY <1>1, <1>2, <1>3, <1>4, <2>1, SwapFrames
  <2>3. stack'[t] # <<>> /\ Head(stack'[t]) = y
    BY <1>1, <1>4, Swap
  <2>4. QED
    BY <1>1, <1>4, <2>2, <2>3
<1> HIDE DEF After
<1>5. CASE fetcher[f].task # None \/ fetcher[f].refused
  <2>1. Replace(t, <<Frame("fail", f)>>) /\ UNCHANGED <<fetcher, service, disp>>
    BY <1>5 DEF BeginFetch
  <2>2. After(Frame("fail", f), "fail")
    BY <1>1, <2>1, FrameTypes, FrameFields DEF After, Op
  <2>3. Unbrief(t) /\ \A g \in Fetcher : Calm(g)
    BY <1>4, <2>1, <2>2 DEF Unbrief, Brings
  <2>4. Quiet
    BY <1>3, <2>1 DEF Quiet
  <2>5. QED
    BY <2>3, <2>4, QuietStep
<1>6. CASE ~(fetcher[f].task # None \/ fetcher[f].refused) /\ fetcher[f].session # None
  <2>1. Replace(t, <<[x EXCEPT !.op = "admit"]>>) /\ UNCHANGED <<fetcher, service, disp>>
    BY <1>6 DEF BeginFetch
  <2>2. PICK y : After(y, "admit")
    <3>1. PICK y : y = [x EXCEPT !.op = "admit"] /\ y.op = "admit" /\ y.f = f /\ y \in FrameType
      BY <1>1, Renamed DEF Op
    <3>2. QED
      BY <2>1, <3>1 DEF After
  <2>3. /\ FramesOK' /\ SameDiscard(t)
        /\ \A u \in Thread : Creating(u)' => u # t /\ Creating(u)
        /\ \A g \in Fetcher : g # f => Calm(g)
        /\ stack'[t] # <<>> /\ Head(stack'[t]) = y /\ y.f = f /\ y.op = "admit"
    BY <1>4, <2>1, <2>2 DEF After
  <2>4. PICK u \in Thread : Parts(f, u) /\ fetcher[f].session = disp.session
    <3>1. BeginAt(f, t, 1)
      BY <1>1 DEF BeginAt, FrameAt, Carries
    <3>2. Waits(f)
      BY <3>1 DEF Waits
    <3>3. QED
      BY <1>1, <1>2, <1>6, <3>2 DEF SessionOK, Parts
  <2>5. ~Doomed
    BY <1>1, <2>4 DEF Doomed, Parts, Has, Top, Thread
  <2>6. DiscardOK'
    BY <1>2, <2>1, <2>3, <2>5, DiscardKept
  <2>7. SessionOK(f)'
    BY <1>1, <2>1, <2>3, <2>4, SessionGiven DEF Places
  <2>8. \A g \in Fetcher : g # f => SessionOK(g)'
    BY <1>2, <2>1, <2>3, SessionKept
  <2>9. CreatorOK' /\ NumbersOK' /\ SessionsUsable'
    BY <1>2, <1>3, <2>1, <2>3 DEF CreatorOK, NumbersOK, SessionsUsable
  <2>10. QED
    BY <2>3, <2>6, <2>7, <2>8, <2>9 DEF Sessions
<1>7. CASE ~(fetcher[f].task # None \/ fetcher[f].refused) /\ fetcher[f].session = None
  <2>1. /\ service.semaphore
        /\ disp' = [disp EXCEPT !.timer = None]
        /\ IF disp.session # None
           THEN /\ fetcher' = [fetcher EXCEPT ![f].session = disp.session]
                /\ Replace(t, <<[x EXCEPT !.op = "admit"]>>)
                /\ UNCHANGED service
           ELSE /\ service' = [service EXCEPT !.semaphore = FALSE]
                /\ Replace(t, <<[x EXCEPT !.op = "create"]>>)
                /\ UNCHANGED fetcher
    BY <1>7 DEF BeginFetch
  <2>2. disp'.session = disp.session /\ disp'.next = disp.next /\ disp'.timer = None
    BY <1>3, <2>1 DEF DispType
  <2>3. \A u \in Thread : ~Creating(u)
    BY <1>2, <2>1 DEF CreatorOK
  <2>4. NumbersOK' /\ SessionsUsable'
    BY <1>2, <1>3, <2>2 DEF NumbersOK, SessionsUsable
  <2>5. ~Doomed'
    <3>1. ASSUME Top("main", "discard")' PROVE Head(stack'["main"]).delay # disp'.timer
      <4>1. stack'["main"] \in Seq(FrameType) /\ stack'["main"] # <<>> /\ Head(stack'["main"]).op = "discard"
        BY <1>1, <3>1 DEF StackType, Top, Thread
      <4>2. Head(stack'["main"]) \in FrameType
        BY <4>1, Consumed
      <4>3. Head(stack'["main"]).delay \in Nat
        BY <4>1, <4>2 DEF FrameType, Op
      <4>4. QED
        BY <2>2, <4>3 DEF FetcherServiceAssumption
    <3>2. QED
      BY <3>1 DEF Doomed
  <2>6. \A g \in Fetcher, n \in Nat : DelayedAt(service'.delayed, g, n) => DelayedAt(service.delayed, g, n)
    BY <1>3, <2>1 DEF ServiceType
  <2>7. PICK y, op : After(y, op) /\ op \in {"admit", "create"} /\ (op = "create" => disp.session = None)
                     /\ (op = "create" => ~service'.semaphore)
    <3>1. CASE disp.session # None
      <4>1. Replace(t, <<[x EXCEPT !.op = "admit"]>>)
        BY <2>1, <3>1
      <4>2. PICK y : After(y, "admit")
        <5>1. PICK y : y = [x EXCEPT !.op = "admit"] /\ y.op = "admit" /\ y.f = f /\ y \in FrameType
          BY <1>1, Renamed DEF Op
        <5>2. QED
          BY <4>1, <5>1 DEF After
      <4>3. QED
        BY <4>2
    <3>2. CASE disp.session = None
      <4>1. Replace(t, <<[x EXCEPT !.op = "create"]>>) /\ ~service'.semaphore
        BY <1>3, <2>1, <3>2 DEF ServiceType
      <4>2. PICK y : After(y, "create")
        <5>1. PICK y : y = [x EXCEPT !.op = "create"] /\ y.op = "create" /\ y.f = f /\ y \in FrameType
          BY <1>1, Renamed DEF Op
        <5>2. QED
          BY <4>1, <5>1 DEF After
      <4>3. QED
        BY <3>2, <4>1, <4>2
    <3>3. QED
      BY <3>1, <3>2
  <2>8. /\ FramesOK'
        /\ \A u \in Thread : Creating(u)' => u = t /\ op = "create"
        /\ \A g \in Fetcher : g # f => Calm(g)
        /\ stack'[t] # <<>> /\ Head(stack'[t]) = y /\ y.f = f /\ y.op = op
    BY <1>4, <2>2, <2>3, <2>7 DEF After
  <2>9. CreatorOK'
    BY <2>2, <2>7, <2>8 DEF CreatorOK
  <2>10. SessionOK(f)'
    <3>1. fetcher'[f].session = disp.session
      BY <1>1, <1>3, <1>7, <2>1 DEF FetcherType
    <3>2. Head(stack'[t]).op \in {"create", "admit", "admitted", "launch"}
      BY <2>7, <2>8
    <3>3. QED
      BY <1>1, <2>2, <2>8, <3>1, <3>2, SessionGiven DEF Places
  <2>11. ASSUME NEW g \in Fetcher, g # f PROVE SessionOK(g)'
    <3>1. fetcher'[g] = fetcher[g]
      BY <1>3, <2>1, <2>11
    <3>2. QED
      BY <1>2, <2>2, <2>6, <2>8, <2>11, <3>1, SessionKept
  <2>12. QED
    BY <2>4, <2>5, <2>8, <2>9, <2>10, <2>11 DEF Sessions, DiscardOK
<1>8. QED
  BY <1>5, <1>6, <1>7

\* The frame of a fetcher goes on: what others have is not touched.
LEMMA GoesOn ==
  ASSUME TypeOK, TypeOK', FramesOK, disp'.next >= disp.next, NEW t \in Thread, NEW old, Top(t, old),
         old # "discard", NEW op \in Op, Replace(t, <<[Head(stack[t]) EXCEPT !.op = op]>>),
         NEW f, f = Head(stack[t]).f
  PROVE  /\ FramesOK' /\ SameDiscard(t)
         /\ stack' \in StackType /\ stack'[t] # <<>> /\ Head(stack'[t]).op = op /\ Head(stack'[t]).f = f
         /\ \A u \in Thread : Creating(u)' => IF u = t THEN op = "create" ELSE Creating(u)
         /\ \A g \in Fetcher, u \in Thread :
              Has(g, u)' <=> IF u = t THEN op \in Brings /\ g = f ELSE Has(g, u)
         /\ \A g \in Fetcher : g # f => Calm(g)
<1>1. PICK x : x = Head(stack[t])
  OBVIOUS
<1>2. x \in Working /\ stack[t] # <<>> /\ disp' \in DispType
  BY <1>1, Running DEF TypeOK
<1>3. PICK y \in Working : y = [x EXCEPT !.op = op] /\ y.op = op /\ y.f = f /\ y \in FrameType
  BY <1>1, <1>2, Renamed
<1>4. Replace(t, <<y>>) /\ y.op # "discard"
  BY <1>1, <1>3 DEF Op
<1>5. /\ FramesOK'
      /\ \A u \in Thread : Creating(u)' => IF u = t THEN y.op = "create" ELSE Creating(u)
      /\ \A g \in Fetcher, u \in Thread :
            Has(g, u)' <=> IF u = t THEN y.op \in Brings /\ y.f = g ELSE Has(g, u)
      /\ \A g \in Fetcher :
            /\ y.f = g => y.op \notin Brings \cup {"begin"}
            /\ Head(stack[t]).f = g => Head(stack[t]).op # "delayed"
            => Calm(g)
      /\ SameDiscard(t)
  BY <1>2, <1>3, <1>4, SwapFrames
<1>6. stack' \in StackType /\ stack'[t] # <<>> /\ Head(stack'[t]) = y
  BY <1>2, <1>3, <1>4, Swap
<1>7. QED
  BY <1>3, <1>5, <1>6

\* The session is made: nobody had one of the dispatcher before.
LEMMA CreateSessions ==
  ASSUME FetcherServiceAssumption, TypeOK, TypeOK', Places', Sessions, NEW t \in Thread, CreateSession(t)
  PROVE  Sessions'
<1> PICK f : f = Head(stack[t]).f
  OBVIOUS
<1>1. Top(t, "create") /\ f \in Fetcher /\ Replace(t, <<[Head(stack[t]) EXCEPT !.op = "admit"]>>)
  <2>1. Top(t, "create") /\ Replace(t, <<[Head(stack[t]) EXCEPT !.op = "admit"]>>)
    BY Zenon DEF CreateSession
  <2>2. QED
    BY <2>1, Running DEF Working
<1>2. /\ FramesOK /\ CreatorOK /\ DiscardOK /\ NumbersOK /\ SessionsUsable
      /\ \A g \in Fetcher : SessionOK(g)
  BY DEF Sessions
<1>3. /\ disp'.session = disp.next /\ disp'.next = disp.next + 1 /\ disp'.timer = disp.timer
      /\ net' = net /\ disp.next \in Nat /\ service'.delayed = service.delayed
      /\ fetcher'[f].session = disp.next /\ \A g \in Fetcher : g # f => fetcher'[g] = fetcher[g]
  <2>1. /\ fetcher' = [fetcher EXCEPT ![f].session = disp.next]
        /\ disp' = [disp EXCEPT !.session = disp.next, !.next = @ + 1]
        /\ service' = [service EXCEPT !.semaphore = TRUE]
        /\ net' = net
    BY DEF CreateSession
  <2>2. disp \in DispType /\ fetcher \in [Fetcher -> FetcherType] /\ service \in ServiceType
    BY DEF TypeOK
  <2>3. fetcher'[f].session = disp.next /\ \A g \in Fetcher : g # f => fetcher'[g] = fetcher[g]
    BY <1>1, <2>1, <2>2 DEF FetcherType
  <2>4. QED
    BY <2>1, <2>2, <2>3 DEF DispType, ServiceType
<1>4. disp.session = None /\ disp.timer = None
  BY <1>1, <1>2 DEF CreatorOK, Creating
<1>5. disp'.next >= disp.next /\ disp.next # None
  BY <1>3 DEF FetcherServiceAssumption
<1>6. /\ FramesOK' /\ SameDiscard(t)
      /\ stack' \in StackType /\ stack'[t] # <<>> /\ Head(stack'[t]).op = "admit" /\ Head(stack'[t]).f = f
      /\ \A u \in Thread : Creating(u)' => u # t /\ Creating(u)
      /\ \A g \in Fetcher : g # f => Calm(g)
  <2>1. "admit" \in Op
    BY DEF Op
  <2>2. /\ FramesOK' /\ SameDiscard(t)
        /\ stack' \in StackType /\ stack'[t] # <<>> /\ Head(stack'[t]).op = "admit" /\ Head(stack'[t]).f = f
        /\ \A u \in Thread : Creating(u)' => IF u = t THEN "admit" = "create" ELSE Creating(u)
        /\ \A g \in Fetcher : g # f => Calm(g)
    BY <1>1, <1>2, <1>5, <2>1, GoesOn
  <2>3. QED
    BY <2>2
<1>7. CreatorOK'
  <2>1. \A u \in Thread : ~Creating(u)'
    BY <1>1, <1>2, <1>6 DEF CreatorOK, Creating
  <2>2. QED
    BY <2>1 DEF CreatorOK
<1>8. NumbersOK' /\ SessionsUsable'
  <2>1. \A s \in net.invalid : s \in Nat /\ s < disp.next
    BY <1>2 DEF NumbersOK, TypeOK, NetType
  <2>2. (\A s \in net'.invalid : s < disp'.next) /\ disp'.session < disp'.next /\ disp'.session \notin net'.invalid
    BY <1>3, <2>1
  <2>3. QED
    BY <1>2, <1>3, <1>4, <2>2 DEF NumbersOK, SessionsUsable
<1>9. DiscardOK'
  BY <1>2, <1>3, <1>4, <1>6, DoomedTimer, DiscardKept
<1>10. SessionOK(f)'
  BY <1>1, <1>3, <1>6, SessionGiven DEF Places
<1>11. \A g \in Fetcher : g # f => SessionOK(g)'
  BY <1>2, <1>3, <1>4, <1>6, SessionKept
<1>12. QED
  BY <1>6, <1>7, <1>8, <1>9, <1>10, <1>11 DEF Sessions

\* fetcherShouldBeginFetching: a delayed fetcher keeps its session until it noted its host.
LEMMA AdmitSessions ==
  ASSUME FetcherServiceAssumption, TypeOK, TypeOK', Places', Sessions, NEW t \in Thread, Admit(t)
  PROVE  Sessions'
<1> PICK f, h : f = Head(stack[t]).f /\ h = HostOf[f]
  OBVIOUS
<1>1. Top(t, "admit") /\ f \in Fetcher /\ h \in Host /\ Head(stack[t]).op = "admit" /\ stack[t] # <<>>
  <2>1. Top(t, "admit")
    BY Zenon DEF Admit
  <2>2. QED
    BY <2>1, Running DEF Working, Host
<1>2. /\ FramesOK /\ CreatorOK /\ DiscardOK /\ NumbersOK /\ SessionsUsable
      /\ \A g \in Fetcher : SessionOK(g)
  BY DEF Sessions
<1>3. /\ disp' = disp /\ net' = net /\ fetcher' = fetcher /\ disp \in DispType /\ disp'.next >= disp.next
  <2>1. disp' = disp /\ net' = net /\ fetcher' = fetcher
    BY Zenon DEF Admit
  <2>2. QED
    BY <2>1 DEF TypeOK, DispType
<1>4. PICK op \in {"admitted", "delayed", "launch"} :
        /\ Replace(t, <<[Head(stack[t]) EXCEPT !.op = op]>>)
        /\ \/ op # "delayed" /\ service'.delayed = service.delayed
           \/ op = "delayed" /\ service'.delayed = [service.delayed EXCEPT ![h] = Append(@, f)]
        /\ service'.semaphore = service.semaphore
  <2>1. service \in ServiceType
    BY DEF TypeOK
  <2>2. PICK x : x = Head(stack[t]) /\ x.f = f
    OBVIOUS
  <2>3. \/ Replace(t, <<[x EXCEPT !.op = "launch"]>>) /\ service' = service
        \/ /\ service' = [service EXCEPT !.running[h] = @ \cup {f}]
           /\ Replace(t, <<[x EXCEPT !.op = "admitted"]>>)
        \/ /\ service' = [service EXCEPT !.delayed[h] = Append(@, f)]
           /\ Replace(t, <<[x EXCEPT !.op = "delayed"]>>)
    BY Zenon, <2>2 DEF Admit
  <2>4. service' = [service EXCEPT !.running[h] = @ \cup {f}]
          => service'.delayed = service.delayed /\ service'.semaphore = service.semaphore
    BY <2>1 DEF ServiceType
  <2>5. service' = [service EXCEPT !.delayed[h] = Append(@, f)]
          => service'.delayed = [service.delayed EXCEPT ![h] = Append(@, f)] /\ service'.semaphore = service.semaphore
    BY <2>1 DEF ServiceType
  <2>6. QED
    BY Zenon, <2>2, <2>3, <2>4, <2>5
<1>5. /\ FramesOK' /\ SameDiscard(t)
      /\ stack' \in StackType /\ stack'[t] # <<>> /\ Head(stack'[t]).op = op /\ Head(stack'[t]).f = f
      /\ \A u \in Thread : Creating(u)' => Creating(u)
      /\ \A g \in Fetcher, u \in Thread : Has(g, u)' => Has(g, u)
      /\ \A g \in Fetcher : g # f => Calm(g)
  <2>1. op \in Op /\ op \in Brings /\ op # "create"
    BY DEF Op, Brings
  <2>2. /\ FramesOK' /\ SameDiscard(t)
        /\ stack' \in StackType /\ stack'[t] # <<>> /\ Head(stack'[t]).op = op /\ Head(stack'[t]).f = f
        /\ \A u \in Thread : Creating(u)' => IF u = t THEN op = "create" ELSE Creating(u)
        /\ \A g \in Fetcher, u \in Thread :
              Has(g, u)' <=> IF u = t THEN op \in Brings /\ g = f ELSE Has(g, u)
        /\ \A g \in Fetcher : g # f => Calm(g)
    BY <1>1, <1>2, <1>3, <1>4, <2>1, GoesOn
  <2>3. Has(f, t)
    BY <1>1 DEF Has, Brings
  <2>4. QED
    BY <2>1, <2>2, <2>3
<1>6. CreatorOK' /\ NumbersOK' /\ SessionsUsable'
  BY <1>2, <1>3, <1>4, <1>5 DEF CreatorOK, NumbersOK, SessionsUsable
<1>7. DiscardOK'
  BY <1>2, <1>3, <1>5, DiscardKept DEF DiscardOK, Thread
<1>8. Has(f, t) /\ (fetcher[f].session # None => fetcher[f].session = disp.session)
  <2>1. Has(f, t)
    BY <1>1 DEF Has, Brings
  <2>2. QED
    BY <1>1, <1>2, <2>1 DEF SessionOK
<1>9. SessionOK(f)'
  <2>1. CASE op # "delayed"
    BY <1>1, <1>3, <1>5, <1>8, <2>1, SessionGiven DEF Places
  <2>2. CASE op = "delayed"
    <3>1. Parts(f, t)'
      BY <1>5, <2>2 DEF Parts, Has, Brings
    <3>2. QED
      BY <1>1, <1>2, <1>3, <1>8, <3>1 DEF SessionOK
  <2>3. QED
    BY <2>1, <2>2
<1>10. ASSUME NEW g \in Fetcher, g # f PROVE SessionOK(g)'
  <2>1. ASSUME NEW n \in Nat, DelayedAt(service'.delayed, g, n) PROVE DelayedAt(service.delayed, g, n)
    <3>1. CASE service'.delayed = service.delayed
      BY <2>1, <3>1
    <3>2. CASE service'.delayed = [service.delayed EXCEPT ![h] = Append(@, f)] /\ HostOf[g] # h
      <4>1. service'.delayed[HostOf[g]] = service.delayed[HostOf[g]]
        BY <1>1, <3>2 DEF TypeOK, ServiceType, Host
      <4>2. QED
        BY <2>1, <4>1 DEF DelayedAt
    <3>3. CASE service'.delayed = [service.delayed EXCEPT ![h] = Append(@, f)] /\ HostOf[g] = h
      <4>1. service.delayed[h] \in Seq(Fetcher) /\ service'.delayed[h] = Append(service.delayed[h], f)
        BY Zenon, <1>1, <3>3 DEF TypeOK, ServiceType
      <4>2. PICK k : /\ DOMAIN service'.delayed[h] = DOMAIN service.delayed[h] \cup {k}
                     /\ service'.delayed[h][k] = f
                     /\ \A j \in DOMAIN service.delayed[h] : service'.delayed[h][j] = service.delayed[h][j]
        <5>1. PICK q, r : q = service.delayed[h] /\ r = service'.delayed[h]
          OBVIOUS
        <5>2. q \in Seq(Fetcher) /\ r = Append(q, f)
          BY Zenon, <4>1, <5>1
        <5>3. /\ DOMAIN r = DOMAIN q \cup {Len(q) + 1} /\ r[Len(q) + 1] = f
              /\ \A j \in DOMAIN q : r[j] = q[j]
          BY <1>1, <5>2, Appended
        <5>4. QED
          BY Zenon, <5>1, <5>3
      <4>3. QED
        BY Zenon, <1>10, <2>1, <3>3, <4>2 DEF DelayedAt
    <3>4. QED
      BY <1>4, <3>1, <3>2, <3>3
  <2>2. QED
    BY <1>2, <1>3, <1>5, <1>10, <2>1, SessionKept
<1>11. QED
  BY <1>5, <1>6, <1>7, <1>9, <1>10 DEF Sessions

\* A delayed fetcher lets its session go, an admitted one launches its request in it.
LEMMA NoteSessions ==
  ASSUME FetcherServiceAssumption, TypeOK, TypeOK', Places', Sessions, NEW t \in Thread, NoteHost(t)
  PROVE  Sessions'
<1> PICK f : f = Head(stack[t]).f
  OBVIOUS
<1>1. /\ f \in Fetcher /\ stack[t] # <<>> /\ Head(stack[t]).op \in {"admitted", "delayed"}
      /\ Top(t, "admitted") \/ Top(t, "delayed")
  <2>1. Top(t, "admitted") \/ Top(t, "delayed")
    BY Zenon DEF NoteHost
  <2>2. QED
    BY <2>1, Running DEF Working
<1>2. /\ FramesOK /\ CreatorOK /\ DiscardOK /\ NumbersOK /\ SessionsUsable
      /\ \A g \in Fetcher : SessionOK(g)
  BY DEF Sessions
<1>3. /\ disp' = disp /\ net' = net /\ service' = service /\ disp' \in DispType /\ disp'.next >= disp.next
  <2>1. disp' = disp /\ net' = net /\ service' = service
    BY Zenon DEF NoteHost
  <2>2. QED
    BY <2>1 DEF TypeOK, DispType
<1>4. /\ fetcher'[f].session = IF Head(stack[t]).op = "delayed" THEN None ELSE fetcher[f].session
      /\ \A g \in Fetcher : g # f => fetcher'[g] = fetcher[g]
  <2>1. fetcher' = [fetcher EXCEPT ![f].host = TRUE,
                                   ![f].session = IF Head(stack[t]).op = "delayed" THEN None ELSE @]
    BY DEF NoteHost
  <2>2. fetcher \in [Fetcher -> FetcherType]
    BY DEF TypeOK
  <2>3. QED
    BY <1>1, <2>1, <2>2 DEF FetcherType
<1>5. /\ FramesOK' /\ SameDiscard(t)
      /\ \A u \in Thread : Creating(u)' => Creating(u)
      /\ \A g \in Fetcher, u \in Thread : Has(g, u)' => Has(g, u)
      /\ \A g \in Fetcher : g # f => Calm(g)
  <2>1. CASE Head(stack[t]).op = "delayed"
    <3>1. Replace(t, <<>>)
      BY <2>1 DEF NoteHost
    <3>2. Unbrief(t) /\ \A g \in Fetcher : (Head(stack[t]).f = g => Head(stack[t]).op # "delayed") => Calm(g)
      BY <1>1, <1>2, <1>3, <3>1, DoneFrames
    <3>3. QED
      BY <3>2 DEF Unbrief
  <2>2. CASE Head(stack[t]).op = "admitted"
    <3>1. Replace(t, <<[Head(stack[t]) EXCEPT !.op = "launch"]>>) /\ Top(t, "admitted") /\ "launch" \in Op
      BY <1>1, <2>2 DEF NoteHost, Op, Top
    <3>2. /\ FramesOK' /\ SameDiscard(t)
          /\ \A u \in Thread : Creating(u)' => IF u = t THEN "launch" = "create" ELSE Creating(u)
          /\ \A g \in Fetcher, u \in Thread :
               Has(g, u)' <=> IF u = t THEN "launch" \in Brings /\ g = f ELSE Has(g, u)
          /\ \A g \in Fetcher : g # f => Calm(g)
      BY <1>2, <1>3, <3>1, GoesOn
    <3>3. Has(f, t)
      BY <1>1 DEF Has, Brings
    <3>4. QED
      BY <3>2, <3>3
  <2>3. QED
    BY <1>1, <2>1, <2>2
<1>6. CreatorOK' /\ NumbersOK' /\ SessionsUsable'
  BY <1>2, <1>3, <1>5 DEF CreatorOK, NumbersOK, SessionsUsable
<1>7. DiscardOK'
  <2>1. \A g \in Fetcher : fetcher[g].session = None => fetcher'[g].session = None
    BY <1>4
  <2>2. QED
    BY <1>2, <1>3, <1>5, <2>1, DiscardKept DEF DiscardOK, Thread
<1>8. SessionOK(f)'
  <2>1. CASE Head(stack[t]).op = "delayed"
    BY <1>4, <2>1 DEF SessionOK
  <2>2. CASE Head(stack[t]).op = "admitted"
    <3>1. Replace(t, <<[Head(stack[t]) EXCEPT !.op = "launch"]>>) /\ Top(t, "admitted") /\ "launch" \in Op
      BY <1>1, <2>2 DEF NoteHost, Op, Top
    <3>2. stack' \in StackType /\ stack'[t] # <<>> /\ Head(stack'[t]).op = "launch" /\ Head(stack'[t]).f = f
      BY <1>2, <1>3, <3>1, GoesOn
    <3>3. Has(f, t)
      BY <1>1 DEF Has, Brings
    <3>4. fetcher[f].session # None => fetcher[f].session = disp.session
      BY <1>1, <1>2, <3>3 DEF SessionOK
    <3>5. fetcher'[f].session \in {None, disp'.session}
      BY <1>3, <1>4, <2>2, <3>4
    <3>6. QED
      BY <1>1, <3>2, <3>5, SessionGiven DEF Places
  <2>3. QED
    BY <1>1, <2>1, <2>2
<1>9. \A g \in Fetcher : g # f => SessionOK(g)'
  BY <1>2, <1>3, <1>4, <1>5, SessionKept
<1>10. QED
  BY <1>5, <1>6, <1>7, <1>8, <1>9 DEF Sessions

\* The task is created in a session that was not invalidated.
LEMMA LaunchSessions ==
  ASSUME FetcherServiceAssumption, TypeOK, TypeOK', Sessions, NEW t \in Thread, Launch(t)
  PROVE  Sessions'
<1> PICK f, x : x = Head(stack[t]) /\ f = x.f
  OBVIOUS
<1>1. f \in Fetcher /\ x \in Working /\ stack[t] # <<>> /\ x.op = "launch" /\ Top(t, "launch")
  <2>1. Top(t, "launch")
    BY Zenon DEF Launch
  <2>2. QED
    BY <2>1, Running DEF Working
<1>2. /\ FramesOK /\ CreatorOK /\ DiscardOK /\ NumbersOK /\ SessionsUsable
      /\ \A g \in Fetcher : SessionOK(g)
  BY DEF Sessions
<1>3. /\ disp \in DispType /\ disp' \in DispType /\ net \in NetType /\ fetcher \in [Fetcher -> FetcherType]
      /\ service' = service
  BY DEF TypeOK, Launch
<1>4. fetcher[f].session # None => fetcher[f].session = disp.session
  <2>1. Has(f, t)
    BY <1>1 DEF Has, Brings
  <2>2. QED
    BY <1>1, <1>2, <2>1 DEF SessionOK
<1>5. /\ disp'.session = disp.session /\ disp'.next = disp.next /\ disp'.timer \in {None, disp.timer}
  <2>1. PICK m : disp' = disp \/ disp' = [disp EXCEPT !.map = m, !.timer = None]
    BY Zenon DEF Launch
  <2>2. QED
    BY <1>3, <2>1 DEF DispType
<1>6. /\ net'.invalid = net.invalid /\ net'.dead = net.dead
      /\ Replace(t, <<>>) \/ Replace(t, <<Frame("fail", f)>>)
      /\ \/ fetcher' = [fetcher EXCEPT ![f].session = None, ![f].asking = TRUE]
         \/ fetcher' = fetcher
         \/ fetcher' = [fetcher EXCEPT ![f].task = net.next]
  <2>1. CASE x.auth /\ f \in Authorizing
    BY <2>1 DEF Launch
  <2>2. CASE ~(x.auth /\ f \in Authorizing) /\ (fetcher[f].session = None \/ fetcher[f].session \in net.invalid)
    <3>1. fetcher[f].session = None
      BY <1>2, <1>4, <2>2 DEF NumbersOK
    <3>2. net' = [net EXCEPT !.dead = @] /\ Replace(t, <<Frame("fail", f)>>) /\ fetcher' = fetcher
      BY <2>2, <3>1 DEF Launch
    <3>3. QED
      BY <1>3, <3>2 DEF NetType
  <2>3. CASE ~(x.auth /\ f \in Authorizing) /\ ~(fetcher[f].session = None \/ fetcher[f].session \in net.invalid)
    <3>1. /\ fetcher' = [fetcher EXCEPT ![f].task = net.next] /\ Replace(t, <<>>)
          /\ net' = [net EXCEPT !.next = net.next + 1, !.tasks = Put(@, net.next, f)]
      BY <2>3 DEF Launch
    <3>2. QED
      BY <1>3, <3>1 DEF NetType
  <2>4. QED
    BY <2>1, <2>2, <2>3
<1>7. disp'.next >= disp.next
  BY <1>3, <1>5 DEF DispType
<1>8. Unbrief(t) /\ \A g \in Fetcher : Calm(g)
  <2>1. CASE Replace(t, <<>>)
    BY <1>1, <1>2, <1>3, <1>7, <2>1, DoneFrames
  <2>2. CASE Replace(t, <<Frame("fail", f)>>)
    <3>1. PICK y \in FrameType : y = Frame("fail", f) /\ y.op = "fail"
      BY <1>1, FrameTypes, FrameFields DEF Op
    <3>2. /\ FramesOK'
          /\ \A u \in Thread : Creating(u)' => IF u = t THEN y.op = "create" ELSE Creating(u)
          /\ \A g \in Fetcher, u \in Thread :
                Has(g, u)' <=> IF u = t THEN y.op \in Brings /\ y.f = g ELSE Has(g, u)
          /\ \A g \in Fetcher :
                /\ y.f = g => y.op \notin Brings \cup {"begin"}
                /\ Head(stack[t]).f = g => Head(stack[t]).op # "delayed"
                => Calm(g)
          /\ SameDiscard(t)
      BY <1>1, <1>2, <1>3, <1>7, <2>2, <3>1, SwapFrames
    <3>3. QED
      BY <1>1, <3>1, <3>2 DEF Unbrief, Brings
  <2>3. QED
    BY <1>6, <2>1, <2>2
<1>9. FramesOK' /\ CreatorOK' /\ NumbersOK' /\ SessionsUsable'
  BY <1>2, <1>3, <1>5, <1>6, <1>8 DEF CreatorOK, NumbersOK, SessionsUsable, Unbrief
<1>10. ASSUME NEW g \in Fetcher
       PROVE  \/ fetcher'[g].session = None
              \/ /\ fetcher'[g].session = fetcher[g].session /\ fetcher'[g].begun = fetcher[g].begun
                 /\ fetcher'[g].asking = fetcher[g].asking
  <2>1. CASE fetcher' = [fetcher EXCEPT ![f].session = None, ![f].asking = TRUE]
    <3>1. g # f => fetcher'[g] = fetcher[g]
      BY <1>3, <2>1
    <3>2. fetcher'[f].session = None
      BY <1>1, <1>3, <2>1 DEF FetcherType
    <3>3. QED
      BY <3>1, <3>2
  <2>2. CASE fetcher' = fetcher
    BY <2>2
  <2>3. CASE fetcher' = [fetcher EXCEPT ![f].task = net.next]
    BY <1>1, <1>3, <2>3 DEF FetcherType
  <2>4. QED
    BY <1>6, <2>1, <2>2, <2>3
<1>11. DiscardOK'
  <2>1. Doomed => \A g \in Fetcher : Has(g, "delegate")' => fetcher'[g].session = None
    BY <1>2, <1>8, <1>10 DEF DiscardOK, Unbrief, Thread
  <2>2. QED
    BY <1>2, <1>5, <1>8, <2>1, DiscardKept DEF Unbrief
<1>12. ASSUME NEW g \in Fetcher PROVE SessionOK(g)'
  <2>1. CASE fetcher'[g].session = None
    BY <2>1 DEF SessionOK
  <2>2. CASE fetcher'[g].session # None
    BY <1>2, <1>3, <1>5, <1>8, <1>10, <2>2, SessionKept
  <2>3. QED
    BY <2>1, <2>2
<1>13. QED
  BY <1>9, <1>11, <1>12 DEF Sessions

\* A fetch that is tried again comes for a session anew.
LEMMA RetrySessions ==
  ASSUME FetcherServiceAssumption, TypeOK, TypeOK', Sessions, NEW t \in Thread, BeginForRetry(t)
  PROVE  Sessions'
<1> PICK f, x : x = Head(stack[t]) /\ f = x.f
  OBVIOUS
<1>1. f \in Fetcher /\ x \in Working /\ stack[t] # <<>> /\ x.op = "again" /\ Top(t, "again")
  <2>1. Top(t, "again")
    BY Zenon DEF BeginForRetry
  <2>2. QED
    BY <2>1, Running DEF Working
<1>2. /\ FramesOK /\ CreatorOK /\ DiscardOK /\ NumbersOK /\ SessionsUsable
      /\ \A g \in Fetcher : SessionOK(g)
  BY DEF Sessions
<1>3. /\ disp' = disp /\ disp' \in DispType /\ net' = net /\ service' = service /\ disp'.next >= disp.next
      /\ fetcher'[f].session = None /\ \A g \in Fetcher : g # f => fetcher'[g] = fetcher[g]
      /\ Replace(t, <<Begin(f, TRUE, TRUE)>>)
  <2>1. /\ disp' = disp /\ net' = net /\ service' = service /\ Replace(t, <<Begin(f, TRUE, TRUE)>>)
        /\ fetcher' = [fetcher EXCEPT ![f].session = None]
    BY DEF BeginForRetry
  <2>2. disp \in DispType /\ fetcher \in [Fetcher -> FetcherType]
    BY DEF TypeOK
  <2>3. QED
    BY <1>1, <2>1, <2>2 DEF DispType, FetcherType
<1>4. PICK y \in FrameType : y = Begin(f, TRUE, TRUE) /\ y.op = "begin" /\ y.f = f
  BY <1>1, FrameTypes DEF Begin
<1>5. /\ FramesOK'
      /\ \A u \in Thread : Creating(u)' => IF u = t THEN y.op = "create" ELSE Creating(u)
      /\ \A g \in Fetcher, u \in Thread :
            Has(g, u)' <=> IF u = t THEN y.op \in Brings /\ y.f = g ELSE Has(g, u)
      /\ \A g \in Fetcher :
            /\ y.f = g => y.op \notin Brings \cup {"begin"}
            /\ Head(stack[t]).f = g => Head(stack[t]).op # "delayed"
            => Calm(g)
      /\ SameDiscard(t)
  BY Zenon, <1>1, <1>2, <1>3, <1>4, SwapFrames
<1>6. /\ \A u \in Thread : Creating(u)' => Creating(u)
      /\ \A g \in Fetcher, u \in Thread : Has(g, u)' => Has(g, u)
      /\ \A g \in Fetcher : g # f => Calm(g)
  BY <1>1, <1>4, <1>5 DEF Brings
<1>7. CreatorOK' /\ NumbersOK' /\ SessionsUsable'
  BY <1>2, <1>3, <1>6 DEF CreatorOK, NumbersOK, SessionsUsable
<1>8. DiscardOK'
  <2>1. Doomed => \A g \in Fetcher : Has(g, "delegate")' => fetcher'[g].session = None
    BY <1>2, <1>3, <1>6 DEF DiscardOK, Thread
  <2>2. QED
    BY <1>2, <1>3, <1>5, <2>1, DiscardKept
<1>9. ASSUME NEW g \in Fetcher PROVE SessionOK(g)'
  <2>1. CASE g = f
    BY <1>3, <2>1 DEF SessionOK
  <2>2. CASE g # f
    BY <1>2, <1>3, <1>6, <2>2, SessionKept
  <2>3. QED
    BY <2>1, <2>2
<1>10. QED
  BY <1>5, <1>7, <1>8, <1>9 DEF Sessions

\* fetcherDidStop: starts fetchers that waited, and a timer when no task is left.
LEMMA StopSessions ==
  ASSUME FetcherServiceAssumption, TypeOK, TypeOK', Owners, Sessions, NEW t \in Thread, DidStop(t),
         fetcher[Head(stack[t]).f].host
  PROVE  Sessions'
<1> PICK f, h : f = Head(stack[t]).f /\ h = HostOf[f]
  OBVIOUS
<1>1. f \in Fetcher /\ h \in Host /\ stack[t] # <<>> /\ Head(stack[t]).op = "didStop" /\ Top(t, "didStop")
  <2>1. Top(t, "didStop")
    BY Zenon DEF DidStop
  <2>2. QED
    BY <2>1, Running DEF Working, Host
<1>2. /\ FramesOK /\ CreatorOK /\ DiscardOK /\ NumbersOK /\ SessionsUsable
      /\ \A g \in Fetcher : SessionOK(g)
  BY DEF Sessions
<1>3. PICK n \in Nat, d \in Seq(Fetcher), rest \in Seq(Fetcher) : Takes(t, f, h, n, d, rest)
  BY DidStopDoes
<1>4. /\ \A k \in 1 .. n : k \in DOMAIN d
      /\ \A k \in DOMAIN d : \E i \in DOMAIN service.delayed[h] : service.delayed[h][i] = d[k]
      /\ \A k \in DOMAIN rest : \E i \in DOMAIN service.delayed[h] : service.delayed[h][i] = rest[k]
      /\ Starts(t, f, n, d)
  BY Zenon, <1>3 DEF Takes, Starts
<1>5. /\ service'.semaphore = service.semaphore
      /\ \A i \in Host : service'.delayed[i] = IF i = h THEN rest ELSE service.delayed[i]
  <2>1. PICK r : r = (service.running[h] \ {f}) \cup {d[k] : k \in 1 .. n}
    BY Zenon
  <2>2. service' = [service EXCEPT !.running[h] = r, !.delayed[h] = rest] /\ service \in ServiceType
    BY Zenon, <1>3, <2>1 DEF Takes, TypeOK
  <2>3. QED
    BY <1>1, <2>2 DEF ServiceType
<1>6. /\ fetcher' = fetcher /\ net' = net
      /\ disp' = IF fetcher[f].session # None /\ fetcher[f].session = disp.session
                 THEN WithoutFetcher(disp, f) ELSE disp
  <2>1. fetcher' = fetcher /\ net' = net
    BY Zenon DEF DidStop
  <2>2. QED
    BY Zenon, <1>3, <2>1 DEF Takes
<1>7. /\ disp'.session = disp.session /\ disp'.next >= disp.next /\ disp' \in DispType /\ disp.next \in Nat
      /\ \/ disp'.timer = disp.timer
         \/ disp'.timer = disp.next /\ disp'.next = disp.next + 1 /\ disp.session # None
  <2>1. disp \in DispType /\ disp' \in DispType
    BY DEF TypeOK
  <2>2. PICK m : \/ disp' = disp
                 \/ disp' = [disp EXCEPT !.map = m]
                 \/ disp' = [disp EXCEPT !.map = m, !.timer = disp.next, !.next = @ + 1] /\ disp.session # None
    BY Zenon, <1>6 DEF WithoutFetcher
  <2>3. CASE disp' = disp
    BY <2>1, <2>3 DEF DispType
  <2>4. CASE disp' = [disp EXCEPT !.map = m]
    BY <2>1, <2>4 DEF DispType
  <2>5. CASE disp' = [disp EXCEPT !.map = m, !.timer = disp.next, !.next = @ + 1] /\ disp.session # None
    BY <2>1, <2>5 DEF DispType
  <2>6. QED
    BY <2>2, <2>3, <2>4, <2>5
<1>8. /\ Unbrief(t)
      /\ \A g \in Fetcher : (\A k \in 1 .. n : d[k] # g) => Calm(g)
      /\ \A g \in Fetcher, u \in Thread : Parts(g, u) => Parts(g, u)'
  BY <1>1, <1>2, <1>4, <1>7, StartFrames
<1>9. FramesOK' /\ CreatorOK'
  BY <1>2, <1>5, <1>7, <1>8 DEF CreatorOK, Unbrief
<1>10. NumbersOK' /\ SessionsUsable'
  <2>1. /\ \A s \in net.invalid : s \in Nat
        /\ disp.session \in Nat \cup {None} /\ disp.timer \in Nat \cup {None} /\ disp'.next \in Nat
    BY <1>7 DEF TypeOK, NetType, DispType
  <2>2. \A s \in net.invalid : s < disp'.next
    BY <1>2, <1>7, <2>1 DEF NumbersOK
  <2>3. disp'.session # None => disp'.session < disp'.next /\ disp'.session \notin net.invalid
    BY <1>2, <1>7, <2>1 DEF NumbersOK
  <2>4. disp'.timer # None => disp'.timer < disp'.next
    BY <1>2, <1>7, <2>1 DEF NumbersOK
  <2>5. QED
    BY <1>2, <1>6, <2>2, <2>3, <2>4 DEF NumbersOK, SessionsUsable
<1>11. DiscardOK'
  <2>1. Doomed => \A g \in Fetcher : Has(g, "delegate")' => fetcher'[g].session = None
    BY <1>2, <1>6, <1>8 DEF DiscardOK, Unbrief, Thread
  <2>2. SameDiscard(t) /\ disp'.timer \in {None, disp.timer, disp.next}
    BY <1>7, <1>8 DEF Unbrief
  <2>3. QED
    BY <1>2, <2>1, <2>2, DiscardKept
<1>12. \A i \in DOMAIN service.delayed[h] : i \in Nat /\ HostOf[service.delayed[h][i]] = h
  <2>1. service.delayed[h] \in Seq(Fetcher)
    BY <1>1 DEF TypeOK, ServiceType
  <2>2. \A i \in DOMAIN service.delayed[h] : i \in Nat
    <3>1. PICK q \in Seq(Fetcher) : q = service.delayed[h]
      BY <2>1
    <3>2. DOMAIN q = 1 .. Len(q) /\ Len(q) \in Nat
      BY LenProperties
    <3>3. QED
      BY <3>1, <3>2
  <2>3. \A i \in DOMAIN service.delayed[h] : HostOf[service.delayed[h][i]] = h
    BY <1>1 DEF Owners, ListOwned
  <2>4. QED
    BY <2>2, <2>3
<1>13. ASSUME NEW g \in Fetcher, NEW m \in Nat, DelayedAt(service'.delayed, g, m)
       PROVE  \E i \in Nat : DelayedAt(service.delayed, g, i)
  <2>1. HostOf[g] \in Host
    BY DEF Host
  <2>2. CASE HostOf[g] = h
    <3>1. m \in DOMAIN rest /\ rest[m] = g
      BY <1>5, <1>13, <2>1, <2>2 DEF DelayedAt
    <3>2. PICK i \in DOMAIN service.delayed[h] : service.delayed[h][i] = g
      BY <1>4, <3>1
    <3>3. i \in Nat
      BY <1>12
    <3>4. QED
      BY <2>2, <3>2, <3>3 DEF DelayedAt
  <2>3. CASE HostOf[g] # h
    BY <1>5, <1>13, <2>1, <2>3 DEF DelayedAt
  <2>4. QED
    BY <2>2, <2>3
<1>14. ASSUME NEW g \in Fetcher PROVE SessionOK(g)'
  <2>1. CASE \A k \in 1 .. n : d[k] # g
    BY Zenon, <1>2, <1>6, <1>7, <1>8, <1>13, <2>1, SessionKept
  <2>2. ASSUME NEW k \in 1 .. n, d[k] = g PROVE SessionOK(g)'
    <3>1. PICK i \in DOMAIN service.delayed[h] : service.delayed[h][i] = g
      BY <1>4, <2>2
    <3>2. i \in Nat /\ DelayedAt(service.delayed, g, i)
      BY <1>12, <3>1 DEF DelayedAt
    <3>3. Waits(g)
      BY <3>2 DEF Waits
    <3>4. fetcher[g].session # None =>
            /\ fetcher[g].begun /\ ~fetcher[g].asking
            /\ \E u \in Thread : Parts(g, u)'
            /\ (\E u \in Thread : Has(g, u)') => fetcher[g].session = disp.session
      BY <1>2, <1>8, <3>3 DEF SessionOK, Unbrief
    <3>5. QED
      BY <1>6, <1>7, <3>4 DEF SessionOK
  <2>3. QED
    BY <2>1, <2>2
<1>15. QED
  BY <1>9, <1>10, <1>11, <1>14 DEF Sessions

\* resetSessionInternal: nobody is left who is about to use the session.
LEMMA DiscardSessions ==
  ASSUME FetcherServiceAssumption, TypeOK, TypeOK', Sessions, NEW t \in Thread, DiscardSession(t)
  PROVE  Sessions'
<1>1. /\ stack[t] # <<>> /\ Head(stack[t]) = stack[t][1] /\ 1 \in DOMAIN stack[t]
      /\ Head(stack[t]).op = "discard" /\ Replace(t, <<>>) /\ fetcher' = fetcher /\ service' = service
      /\ Top(t, "discard")
  <2>1. Top(t, "discard") /\ Replace(t, <<>>) /\ fetcher' = fetcher /\ service' = service
    BY Zenon DEF DiscardSession
  <2>2. stack[t] \in Seq(FrameType) /\ stack[t] # <<>> /\ Head(stack[t]).op = "discard"
    BY <2>1 DEF Top, TypeOK, StackType
  <2>3. QED
    BY <2>1, <2>2, Consumed
<1>2. /\ FramesOK /\ CreatorOK /\ DiscardOK /\ NumbersOK /\ SessionsUsable
      /\ \A g \in Fetcher : SessionOK(g)
  BY DEF Sessions
<1>3. t = "main"
  BY <1>1, <1>2 DEF FramesOK, FrameOK
<1>4. /\ net'.dead = net.dead /\ disp'.next = disp.next
      /\ \/ /\ disp'.session = disp.session /\ disp'.timer = disp.timer /\ net'.invalid = net.invalid
         \/ /\ Doomed /\ disp'.session = None /\ disp'.timer = None
            /\ net'.invalid = net.invalid \cup ({disp.session} \ {None})
  <2>1. disp \in DispType /\ net \in NetType
    BY DEF TypeOK
  <2>2. \/ disp' = disp /\ net' = net
        \/ /\ disp.timer = Head(stack[t]).delay
           /\ disp' = [disp EXCEPT !.session = None, !.timer = None, !.map = Empty]
           /\ net' = [net EXCEPT !.invalid = @ \cup ({disp.session} \ {None})]
    BY DEF DiscardSession, Reset
  <2>3. disp.timer = Head(stack[t]).delay => Doomed
    BY <1>1, <1>3 DEF Doomed
  <2>4. QED
    BY <2>1, <2>2, <2>3 DEF DispType, NetType
<1>5. disp'.next >= disp.next /\ disp' \in DispType
  BY <1>4 DEF TypeOK, DispType
<1>6. Unbrief(t) /\ \A g \in Fetcher : Calm(g)
  BY <1>1, <1>2, <1>5, DoneFrames
<1>7. CASE disp'.session = disp.session /\ disp'.timer = disp.timer /\ net'.invalid = net.invalid
  <2>1. Quiet
    BY <1>1, <1>4, <1>7 DEF Quiet
  <2>2. QED
    BY <1>6, <2>1, QuietStep
<1>8. CASE /\ Doomed /\ disp'.session = None /\ disp'.timer = None
           /\ net'.invalid = net.invalid \cup ({disp.session} \ {None})
  <2>1. FramesOK' /\ CreatorOK'
    BY <1>1, <1>2, <1>6, <1>8 DEF Unbrief, CreatorOK
  <2>2. NumbersOK' /\ SessionsUsable'
    BY <1>2, <1>4, <1>8 DEF NumbersOK, SessionsUsable
  <2>3. DiscardOK'
    <3>1. ~Doomed'
      BY <1>3, <1>6 DEF Unbrief, SameDiscard, Doomed
    <3>2. QED
      BY <3>1 DEF DiscardOK
  <2>4. ASSUME NEW g \in Fetcher PROVE SessionOK(g)'
    <3>1. ASSUME NEW u \in Thread, Has(g, u)' PROVE fetcher[g].session = None
      <4>1. u = "delegate" /\ Has(g, "delegate")
        BY <1>3, <1>6, <3>1 DEF Unbrief, Thread
      <4>2. QED
        BY <1>2, <1>8, <4>1 DEF DiscardOK
    <3>2. Waits(g)' => Waits(g)
      BY <1>1, <1>6 DEF Waits, Calm
    <3>3. QED
      BY <1>1, <1>2, <1>6, <3>1, <3>2 DEF SessionOK, Calm
  <2>5. QED
    BY <2>1, <2>2, <2>3, <2>4 DEF Sessions
<1>9. QED
  BY <1>4, <1>7, <1>8

\* beginFetch, the authoriser's answer and the discard timer on the main thread.
LEMMA MainSessions ==
  ASSUME FetcherServiceAssumption, TypeOK, TypeOK', Sessions,
         \/ DiscardTimerFired
         \/ \E f \in Fetcher : ClientBegin(f) \/ \E ok \in BOOLEAN : AuthorizerFinished(f, ok)
  PROVE  Sessions'
<1>1. /\ FramesOK /\ CreatorOK /\ DiscardOK /\ NumbersOK /\ SessionsUsable
      /\ \A g \in Fetcher : SessionOK(g)
  BY DEF Sessions
<1>2. /\ disp' = disp /\ net' = net /\ service' = service /\ disp' \in DispType /\ disp'.next >= disp.next
      /\ Idle("main") /\ stack["main"] = <<>> /\ stack \in StackType /\ "main" \in Thread
  <2>1. disp' = disp /\ net' = net /\ service' = service /\ Idle("main")
    BY Zenon DEF DiscardTimerFired, ClientBegin, AuthorizerFinished
  <2>2. QED
    BY <2>1 DEF TypeOK, DispType, Idle, Thread
<1>3. ASSUME NEW f \in Fetcher, ClientBegin(f) \/ \E ok \in BOOLEAN : AuthorizerFinished(f, ok)
      PROVE  Sessions'
  <2>1. /\ fetcher[f].session = None
        /\ \A g \in Fetcher : fetcher'[g].session = fetcher[g].session
        /\ \A g \in Fetcher : g # f => fetcher'[g] = fetcher[g]
    <3>1. /\ \/ ~fetcher[f].begun /\ fetcher' = [fetcher EXCEPT ![f].begun = TRUE]
             \/ fetcher[f].asking /\ fetcher' = [fetcher EXCEPT ![f].asking = FALSE]
      BY Zenon, <1>3 DEF ClientBegin, AuthorizerFinished
    <3>2. fetcher \in [Fetcher -> FetcherType]
      BY DEF TypeOK
    <3>3. fetcher[f].session = None
      BY <1>1, <3>1 DEF SessionOK
    <3>4. QED
      BY <3>1, <3>2, <3>3 DEF FetcherType
  <2>2. PICK x \in FrameType : x.op \in {"begin", "fail"} /\ x.f = f /\ stack' = [stack EXCEPT !["main"] = <<x>>]
    <3>1. CASE ClientBegin(f)
      <4>1. PICK x : x = Begin(f, TRUE, TRUE)
        OBVIOUS
      <4>2. x \in FrameType /\ x.op = "begin" /\ x.f = f
        BY <4>1, FrameTypes DEF Begin
      <4>3. QED
        BY <3>1, <4>1, <4>2 DEF ClientBegin
    <3>2. ASSUME NEW ok \in BOOLEAN, AuthorizerFinished(f, ok)
          PROVE  \E x \in FrameType : x.op \in {"begin", "fail"} /\ x.f = f /\ stack' = [stack EXCEPT !["main"] = <<x>>]
      <4>1. PICK x : x = (IF ok THEN Begin(f, FALSE, FALSE) ELSE Frame("fail", f))
        OBVIOUS
      <4>2. x \in FrameType /\ x.op \in {"begin", "fail"} /\ x.f = f
        BY <4>1, FrameTypes DEF Begin, Frame, Op
      <4>3. stack' = [stack EXCEPT !["main"] = <<x>>]
        BY <3>2, <4>1 DEF AuthorizerFinished
      <4>4. QED
        BY <4>2, <4>3
    <3>3. QED
      BY <1>3, <3>1, <3>2
  <2>3. /\ stack' \in StackType /\ \A p \in Thread : p # "main" => stack'[p] = stack[p]
        /\ \A n \in DOMAIN stack'["main"] : stack'["main"][n] = x
    <3>1. /\ stack' \in StackType /\ \A p \in Thread : p # "main" => stack'[p] = stack[p]
          /\ DOMAIN stack'["main"] = {1} /\ stack'["main"][1] = x
      BY <1>2, <2>2, Push
    <3>2. QED
      BY <3>1
  <2>4. x.op \notin Briefly
    BY <2>2 DEF Briefly, Brings
  <2>5. /\ Unbrief("main")
        /\ \A g \in Fetcher :
             (\A n \in DOMAIN stack'["main"] : stack'["main"][n].f = g => stack'["main"][n].op # "begin") => Calm(g)
    BY <1>1, <1>2, <2>3, <2>4, PushFrames
  <2>6. \A g \in Fetcher : g # f => Calm(g)
    BY <2>2, <2>3, <2>5
  <2>7. FramesOK' /\ CreatorOK' /\ NumbersOK' /\ SessionsUsable'
    BY <1>1, <1>2, <2>5 DEF Unbrief, CreatorOK, NumbersOK, SessionsUsable
  <2>8. DiscardOK'
    <3>1. Doomed => \A g \in Fetcher : Has(g, "delegate")' => fetcher'[g].session = None
      BY <1>1, <2>1, <2>5 DEF DiscardOK, Unbrief, Thread
    <3>2. QED
      BY <1>1, <1>2, <2>5, <3>1, DiscardKept DEF Unbrief
  <2>9. SessionOK(f)'
    BY <2>1 DEF SessionOK
  <2>10. \A g \in Fetcher : g # f => SessionOK(g)'
    BY <1>1, <1>2, <2>1, <2>6, SessionKept
  <2>11. QED
    BY <2>7, <2>8, <2>9, <2>10 DEF Sessions
<1>4. CASE DiscardTimerFired
  <2>1. /\ disp.timer # None /\ \A op \in {"admit", "admitted", "delayed", "launch"} : ~Top("delegate", op)
        /\ stack' = [stack EXCEPT !["main"] =
                       IF DOMAIN disp.map = {}
                       THEN <<[Frame("discard", None) EXCEPT !.delay = disp.timer]>> ELSE <<>>]
        /\ fetcher' = fetcher
    BY <1>4 DEF DiscardTimerFired
  <2>2. CASE DOMAIN disp.map = {}
    <3>0. PICK x : x = [Frame("discard", None) EXCEPT !.delay = disp.timer]
      OBVIOUS
    <3>1. x \in FrameType /\ x.op = "discard" /\ x.delay = disp.timer /\ x.f = None
      <4>1. disp.timer \in Nat
        BY <2>1 DEF TypeOK, DispType
      <4>2. x = [op |-> "discard", f |-> None, delay |-> disp.timer, auth |-> FALSE]
        BY <3>0 DEF Frame
      <4>3. QED
        BY <4>1, <4>2 DEF FrameType
    <3>2. stack' = [stack EXCEPT !["main"] = <<x>>]
      BY <2>1, <2>2, <3>0
    <3>3. /\ stack' \in StackType /\ \A p \in Thread : p # "main" => stack'[p] = stack[p]
          /\ DOMAIN stack["main"] = {} /\ DOMAIN stack'["main"] = {1}
          /\ stack'["main"] # <<>> /\ Head(stack'["main"]) = x /\ stack'["main"][1] = x
      BY <1>2, <3>1, <3>2, Push
    <3>4. FramesOK'
      <4>1. x.delay < disp.next
        BY <1>1, <2>1, <3>1 DEF NumbersOK
      <4>2. \A n \in DOMAIN stack'["main"] : FrameOK("main", n)'
        BY <1>2, <3>1, <3>3, <4>1 DEF FrameOK
      <4>3. ASSUME NEW p \in Thread, p # "main", NEW n \in DOMAIN stack'[p] PROVE FrameOK(p, n)'
        <5>1. n \in DOMAIN stack[p] /\ stack'[p] = stack[p] /\ FrameOK(p, n)
          BY <1>1, <3>3, <4>3 DEF FramesOK
        <5>2. QED
          BY <1>2, <5>1 DEF FrameOK
      <4>4. QED
        BY <4>2, <4>3 DEF FramesOK
    <3>5. \A u \in Thread : Creating(u)' => Creating(u)
      BY <3>1, <3>3 DEF Creating, Top
    <3>6. CreatorOK' /\ NumbersOK' /\ SessionsUsable'
      BY <1>1, <1>2, <3>5 DEF CreatorOK, NumbersOK, SessionsUsable
    <3>7. \A g \in Fetcher : Calm(g)
      BY <1>2, <3>1, <3>3 DEF Calm, Has, Parts, BeginAt, FrameAt, Brings, Carries
    <3>8. \A g \in Fetcher : SessionOK(g)'
      BY <1>1, <1>2, <2>1, <3>7, SessionKept
    <3>9. DiscardOK'
      BY <2>1, <3>3 DEF DiscardOK, Has, Brings, Top, Thread
    <3>10. QED
      BY <3>4, <3>6, <3>8, <3>9 DEF Sessions
  <2>3. CASE DOMAIN disp.map # {}
    <3>1. stack' = stack
      <4>1. stack' = [stack EXCEPT !["main"] = <<>>]
        BY <2>1, <2>3
      <4>2. QED
        BY <1>2, <4>1 DEF StackType
    <3>2. Quiet
      BY <1>2, <2>1 DEF Quiet
    <3>3. QED
      BY <3>1, <3>2, QuietAlone
  <2>4. QED
    BY <2>2, <2>3
<1>5. QED
  BY <1>3, <1>4

\* SessionInv is inductive.
LEMMA SessionStep ==
  FetchInv /\ Sessions /\ [Next]_vars => Sessions'
<1> SUFFICES ASSUME FetchInv, Sessions, [Next]_vars PROVE Sessions'
  OBVIOUS
<1>1. TypeOK /\ Owners /\ FetchInv' /\ TypeOK' /\ Places'
  <2>1. FetchInv'
    BY FetchInvStep
  <2>2. QED
    BY <2>1 DEF FetchInv
<1>2. ASSUME NEW t \in Thread, RunFrame(t) PROVE Sessions'
  BY <1>1, <1>2, FetcherServiceAssumption, BeginSession, CreateSessions, AdmitSessions, NoteSessions, LaunchSessions,
     QuietFrames, StopSessions, RetrySessions, DiscardSessions DEF RunFrame
<1>3. CASE UNCHANGED vars
  <2>1. Quiet /\ stack' = stack
    BY <1>3 DEF vars, Quiet
  <2>2. QED
    BY <2>1, QuietAlone
<1>4. CASE Work
  BY <1>1, <1>2, <1>4, FetcherServiceAssumption, QuietEvents, MainSessions DEF Work
<1>5. CASE ~Work
  BY <1>1, <1>3, <1>5, FetcherServiceAssumption, QuietEvents, MainSessions DEF Next
<1>6. QED
  BY <1>4, <1>5

\* At first nobody has a session.
LEMMA SessionsInitially == Init => Sessions
<1> SUFFICES ASSUME Init PROVE Sessions
  OBVIOUS
<1>1. /\ \A t \in Thread : stack[t] = <<>>
      /\ \A f \in Fetcher : fetcher[f].session = None
      /\ disp.session = None /\ disp.timer = None /\ net.invalid = {} /\ net.dead = {}
  BY DEF Init
<1>2. FramesOK /\ CreatorOK /\ NumbersOK /\ SessionsUsable
  BY <1>1 DEF FramesOK, CreatorOK, Creating, Top, NumbersOK, SessionsUsable
<1>3. DiscardOK /\ \A f \in Fetcher : SessionOK(f)
  BY <1>1 DEF DiscardOK, SessionOK
<1>4. QED
  BY <1>2, <1>3 DEF Sessions

\* resetSessionInternal: and the discard timer invalidate no session that a fetcher was
\* given and still creates its task in.
THEOREM SessionsStayUsable == Spec => []SessionsUsable
<1>1. Init => SessionInv
  BY FetchInvInitially, SessionsInitially DEF SessionInv
<1>2. SessionInv /\ [Next]_vars => SessionInv'
  BY FetchInvStep, SessionStep DEF SessionInv
<1>3. SessionInv => SessionsUsable
  BY DEF SessionInv, Sessions
<1>4. QED
  BY <1>1, <1>2, <1>3, PTL DEF Spec
=============================================================================
