--------------------------- MODULE FetcherService ---------------------------
(***************************************************************************)
(* GTMSessionFetchers that share a GTMSessionFetcherService: admission of  *)
(* a bounded number of fetches per host, the shared NSURLSession and its   *)
(* discard timer, retries, authorisation, stopFetching and stopAllFetchers,*)
(* and the delivery of the completion handler.                             *)
(*                                                                         *)
(* Two threads run the code: the main thread (client calls, timers and the *)
(* callback queue, which is the main queue by default) and the serial      *)
(* delegate queue of the sessions.  A thread has a stack of frames; a step *)
(* runs the top frame up to the point where the code lets go of its locks. *)
(* The network, the timers and the authoriser are external.                *)
(***************************************************************************)
EXTENDS Integers, Sequences, FiniteSets, SequencesExt

CONSTANTS
  None,
  Fetcher,
  HostOf,       \* the host of a fetcher's request
  Priority,     \* servicePriority, lower first
  Refused,      \* fetchers whose request the checks of beginFetch may refuse
  Authorizing,  \* fetchers with an authorizer
  Retrying,     \* fetchers with retryEnabled
  MaxRunning,   \* maxRunningFetchersPerHost
  MaxRetries,   \* bound: retries before nextRetryInterval reaches its maximum
  MaxEvents,    \* bound: calls of stopFetching and stopAllFetchers and expiries of the discard timer
  LateHost      \* a thread may be overtaken between leaving the service's lock and writing serviceHost

ASSUME FetcherServiceAssumption ==
  /\ IsFiniteSet(Fetcher) /\ None \notin Nat
  /\ Refused \cup Authorizing \cup Retrying \subseteq Fetcher
  /\ DOMAIN HostOf = Fetcher /\ DOMAIN Priority = Fetcher
  /\ MaxRunning \in Nat \ {0} /\ {MaxRetries, MaxEvents} \subseteq Nat
  /\ LateHost \in BOOLEAN

VARIABLES
  fetcher,   \* the fetchers' instance variables
  service,   \* running and delayed fetchers by host, the session semaphore
  disp,      \* the dispatcher: session, task map, discard timer
  net,       \* tasks that run, sessions that were invalidated, failed task creations
  stack,     \* frames of the two threads
  delegateQ, \* the delegate queue
  mainQ,     \* blocks sent to the main queue
  calls,     \* calls of the completion handlers
  events     \* how many of MaxEvents so far

vars == <<fetcher, service, disp, net, stack, delegateQ, mainQ, calls, events>>

Host == {HostOf[f] : f \in Fetcher}
Thread == {"main", "delegate"}

\* Function f with k mapped to v; f without the arguments in S.
Put(f, k, v) == [j \in DOMAIN f \cup {k} |-> IF j = k THEN v ELSE f[j]]
Drop(f, S) == [j \in DOMAIN f \ S |-> f[j]]
Empty == [k \in {} |-> None]

----------------------------------------------------------------------------
(* Frames.                                                                 *)

Begin(f, delay, auth) == [op |-> "begin", f |-> f, delay |-> delay, auth |-> auth]
Frame(op, f) == [op |-> op, f |-> f, delay |-> FALSE, auth |-> FALSE]
Stop(f, release) == [op |-> "stop", f |-> f, delay |-> release, auth |-> FALSE]

Top(t, op) == stack[t] # <<>> /\ Head(stack[t]).op = op
Replace(t, frames) == stack' = [stack EXCEPT ![t] = frames \o Tail(@)]

\* The callback queue gets the handler's call; fetches release it at their end.
Answered(f) == IF fetcher[f].handler THEN Append(mainQ, [op |-> "call", f |-> f]) ELSE mainQ

Idle(t) == stack[t] = <<>>

----------------------------------------------------------------------------
(* beginFetchMayDelay:mayAuthorize:                                        *)

\* The checks before a session is needed; then the session of the dispatcher,
\* or the semaphore that lets one fetcher create it.
BeginFetch(t) ==
  /\ Top(t, "begin")
  /\ LET x == Head(stack[t])
         f == x.f
     IN IF fetcher[f].task # None \/ fetcher[f].refused
        THEN Replace(t, <<Frame("fail", f)>>) /\ UNCHANGED <<fetcher, service, disp>>
        ELSE IF fetcher[f].session # None
        THEN Replace(t, <<[x EXCEPT !.op = "admit"]>>) /\ UNCHANGED <<fetcher, service, disp>>
        ELSE /\ service.semaphore
             /\ disp' = [disp EXCEPT !.timer = None]
             /\ IF disp.session # None
                THEN /\ fetcher' = [fetcher EXCEPT ![f].session = disp.session]
                     /\ Replace(t, <<[x EXCEPT !.op = "admit"]>>)
                     /\ UNCHANGED service
                ELSE /\ service' = [service EXCEPT !.semaphore = FALSE]
                     /\ Replace(t, <<[x EXCEPT !.op = "create"]>>)
                     /\ UNCHANGED fetcher
  /\ UNCHANGED <<net, delegateQ, mainQ, calls, events>>

\* Mutation: the fetcher that makes the session does not signal.
CreateSessionSilently(t) ==
  /\ Top(t, "create")
  /\ LET x == Head(stack[t])
     IN /\ fetcher' = [fetcher EXCEPT ![x.f].session = disp.next]
        /\ disp' = [disp EXCEPT !.session = disp.next, !.next = @ + 1]
        /\ Replace(t, <<[x EXCEPT !.op = "admit"]>>)
  /\ UNCHANGED <<service, net, delegateQ, mainQ, calls, events>>

CreateSession(t) ==
  /\ Top(t, "create")
  /\ LET x == Head(stack[t])
     IN /\ fetcher' = [fetcher EXCEPT ![x.f].session = disp.next]
        /\ disp' = [disp EXCEPT !.session = disp.next, !.next = @ + 1]
        /\ service' = [service EXCEPT !.semaphore = TRUE]
        /\ Replace(t, <<[x EXCEPT !.op = "admit"]>>)
  /\ UNCHANGED <<net, delegateQ, mainQ, calls, events>>

\* serviceHost is written outside the service's lock: no other thread is still to write it.
HostSettled(t) ==
  LateHost \/ \A u \in Thread \ {t} : \A k \in DOMAIN stack[u] :
                ~(stack[u][k].op \in {"admitted", "delayed", "unhost"} /\ stack[u][k].f = Head(stack[t]).f)

\* fetcherShouldBeginFetching: under the service's lock.
Admit(t) ==
  /\ Top(t, "admit") /\ HostSettled(t)
  /\ LET x   == Head(stack[t])
         h   == HostOf[x.f]
         now == x.f \in service.running[h] \/ Cardinality(service.running[h]) < MaxRunning
     IN IF ~x.delay
        THEN Replace(t, <<[x EXCEPT !.op = "launch"]>>) /\ UNCHANGED service
        ELSE /\ service' =
                  IF now THEN [service EXCEPT !.running[h] = @ \cup {x.f}]
                  ELSE [service EXCEPT !.delayed[h] = Append(@, x.f)]
             /\ Replace(t, <<[x EXCEPT !.op = IF now THEN "admitted" ELSE "delayed"]>>)
  /\ UNCHANGED <<fetcher, disp, net, delegateQ, mainQ, calls, events>>

\* serviceHost is set after the lock; a delayed fetcher lets the session go.
NoteHost(t) ==
  /\ Top(t, "admitted") \/ Top(t, "delayed")
  /\ LET x == Head(stack[t])
     IN /\ fetcher' = [fetcher EXCEPT ![x.f].host = TRUE,
                                      ![x.f].session = IF x.op = "delayed" THEN None ELSE @]
        /\ Replace(t, IF x.op = "delayed" THEN <<>> ELSE <<[x EXCEPT !.op = "launch"]>>)
  /\ UNCHANGED <<service, disp, net, delegateQ, mainQ, calls, events>>

\* Authorisation first; else the task is created in the session, mapped and resumed.
Launch(t) ==
  /\ Top(t, "launch")
  /\ LET x == Head(stack[t])
         f == x.f
         s == fetcher[f].session
         k == net.next
     IN IF x.auth /\ f \in Authorizing
        THEN /\ fetcher' = [fetcher EXCEPT ![f].session = None, ![f].asking = TRUE]
             /\ Replace(t, <<>>)
             /\ UNCHANGED <<disp, net>>
        ELSE IF s = None \/ s \in net.invalid
        THEN /\ net' = [net EXCEPT !.dead = IF s = None THEN @ ELSE @ \cup {f}]
             /\ Replace(t, <<Frame("fail", f)>>)
             /\ UNCHANGED <<fetcher, disp>>
        ELSE /\ fetcher' = [fetcher EXCEPT ![f].task = k]
             /\ net' = [net EXCEPT !.next = k + 1, !.tasks = Put(@, k, f)]
             /\ disp' = IF s = disp.session
                        THEN [disp EXCEPT !.map = Put(@, k, f), !.timer = None] ELSE disp
             /\ Replace(t, <<>>)
  /\ UNCHANGED <<service, delegateQ, mainQ, calls, events>>

FailToBegin(t) ==
  /\ Top(t, "fail")
  /\ LET f == Head(stack[t]).f
     IN /\ mainQ' = Answered(f)
        /\ fetcher' = [fetcher EXCEPT ![f].handler = FALSE]
        /\ Replace(t, <<Frame("didStop", f)>>)
  /\ UNCHANGED <<service, disp, net, delegateQ, calls, events>>

----------------------------------------------------------------------------
(* Stopping.                                                               *)

\* stopFetchReleasingCallbacks: the timer, the task, the callbacks.
StopFetch(t) ==
  /\ Top(t, "stop")
  /\ LET x == Head(stack[t])
         f == x.f
         k == fetcher[f].task
         runs == k # None /\ k \in DOMAIN net.tasks
     IN /\ fetcher' = [fetcher EXCEPT ![f].timer = FALSE, ![f].task = None, ![f].asking = FALSE,
                                      ![f].handler = @ /\ ~x.delay]
        /\ net' = IF runs THEN [net EXCEPT !.tasks = Drop(@, {k})] ELSE net
        /\ delegateQ' = IF runs THEN Append(delegateQ, [op |-> "complete", f |-> f, task |-> k, outcome |-> "cancel"])
                        ELSE delegateQ
        /\ Replace(t, <<Frame("didStop", f)>>)
  /\ UNCHANGED <<service, disp, mainQ, calls, events>>

\* The dispatcher forgets the fetcher; with no task left the discard timer starts.
WithoutFetcher(d, f) ==
  LET rest == Drop(d.map, {k \in DOMAIN d.map : d.map[k] = f})
  IN IF DOMAIN rest = {} THEN [d EXCEPT !.map = rest, !.timer = d.next, !.next = @ + 1]
     ELSE [d EXCEPT !.map = rest]

\* The members of S in the order of q, and in the order in which they are started:
\* by priority, then as in q.
Before(q, f, g) == \E i, j \in DOMAIN q : i < j /\ q[i] = f /\ q[j] = g
Kept(q, S) == {r \in SetToSeqs(S) : \A i, j \in DOMAIN r : i < j => Before(q, r[i], r[j])}
Ranked(q, S) ==
  {r \in SetToSeqs(S) : \A i, j \in DOMAIN r : i < j =>
     \/ Priority[r[i]] < Priority[r[j]]
     \/ Priority[r[i]] = Priority[r[j]] /\ Before(q, r[i], r[j])}

\* Mutation: one fetcher too many is started.
RoomOffByOne(running) == 1 + MaxRunning - Cardinality(running)

Room(running) == MaxRunning - Cardinality(running)

\* fetcherDidStop: the slot is given up and delayed fetchers take what is free;
\* they are started after the lock, and only then is serviceHost cleared.
DidStop(t) ==
  /\ Top(t, "didStop")
  /\ HostSettled(t)
  /\ LET f == Head(stack[t]).f
         h == HostOf[f]
         r == service.running[h] \ {f}
         q == service.delayed[h]
         waiting == ToSet(q) \ {f}
     IN IF ~fetcher[f].host
        THEN Replace(t, <<>>) /\ UNCHANGED <<service, disp>>
        ELSE \E d \in Ranked(q, waiting) :
          LET n == IF Room(r) < Len(d) THEN Room(r) ELSE Len(d)
              picked == {d[k] : k \in 1 .. n}
          IN /\ \E rest \in Kept(q, waiting \ picked) :
                  service' = [service EXCEPT !.running[h] = r \cup picked, !.delayed[h] = rest]
             /\ disp' = IF fetcher[f].session # None /\ fetcher[f].session = disp.session
                        THEN WithoutFetcher(disp, f) ELSE disp
             /\ Replace(t, [k \in 1 .. n |-> Begin(d[k], FALSE, TRUE)] \o <<Frame("unhost", f)>>)
  /\ UNCHANGED <<fetcher, net, delegateQ, mainQ, calls, events>>

ClearHost(t) ==
  /\ Top(t, "unhost")
  /\ fetcher' = [fetcher EXCEPT ![Head(stack[t]).f].host = FALSE]
  /\ Replace(t, <<>>)
  /\ UNCHANGED <<service, disp, net, delegateQ, mainQ, calls, events>>

----------------------------------------------------------------------------
(* The delegate queue.                                                     *)

CanRetry(f) == f \in Retrying /\ fetcher[f].retries < MaxRetries

\* Mutation: a failure that is to be retried is reported as well.
NotifiedAlways(f, retry) == Answered(f) \o (IF retry THEN <<[op |-> "arm", f |-> f]>> ELSE <<>>)

\* A retry timer is asked of the main queue, or the fetch is answered.
Notified(f, retry) == IF retry THEN Append(mainQ, [op |-> "arm", f |-> f]) ELSE Answered(f)

\* didCompleteWithError, through the dispatcher's map; an answered fetch is stopped.
TaskCompleted ==
  /\ Idle("delegate") /\ delegateQ # <<>> /\ Head(delegateQ).op = "complete"
  /\ LET e == Head(delegateQ)
         f == e.f
         retry == e.outcome = "retry" /\ CanRetry(f)
     IN IF e.task \notin DOMAIN disp.map
        THEN UNCHANGED <<fetcher, disp, mainQ, stack>>
        ELSE /\ disp' = [disp EXCEPT !.map = Drop(@, {e.task})]
             /\ fetcher' = [fetcher EXCEPT ![f].task = e.task]
             /\ mainQ' = Notified(f, retry)
             /\ stack' = [stack EXCEPT !["delegate"] = IF retry THEN <<>> ELSE <<Stop(f, TRUE)>>]
  /\ delegateQ' = Tail(delegateQ)
  /\ UNCHANGED <<service, net, calls, events>>

\* retryFetch: stop without releasing the callbacks, then begin again.
RetryFetch ==
  /\ Idle("delegate") /\ delegateQ # <<>> /\ Head(delegateQ).op = "retry"
  /\ LET f == Head(delegateQ).f
     IN stack' = [stack EXCEPT !["delegate"] = <<Stop(f, FALSE), Frame("again", f)>>]
  /\ delegateQ' = Tail(delegateQ)
  /\ UNCHANGED <<fetcher, service, disp, net, mainQ, calls, events>>

BeginForRetry(t) ==
  /\ Top(t, "again")
  /\ LET f == Head(stack[t]).f
     IN /\ fetcher' = [fetcher EXCEPT ![f].session = None]
        /\ Replace(t, <<Begin(f, TRUE, TRUE)>>)
  /\ UNCHANGED <<service, disp, net, delegateQ, mainQ, calls, events>>

----------------------------------------------------------------------------
(* The main thread.                                                        *)

BeginRetryTimer ==
  /\ Idle("main") /\ mainQ # <<>> /\ Head(mainQ).op = "arm"
  /\ fetcher' = [fetcher EXCEPT ![Head(mainQ).f].timer = TRUE]
  /\ mainQ' = Tail(mainQ)
  /\ UNCHANGED <<service, disp, net, stack, delegateQ, calls, events>>

RetryTimerFired(f) ==
  /\ Idle("main") /\ fetcher[f].timer
  /\ fetcher' = [fetcher EXCEPT ![f].timer = FALSE, ![f].retries = @ + 1]
  /\ delegateQ' = Append(delegateQ, [op |-> "retry", f |-> f, task |-> None, outcome |-> "none"])
  /\ UNCHANGED <<service, disp, net, stack, mainQ, calls, events>>

\* The block of invokeFetchCallbacks: dropped when the client stopped the fetch.
InvokeHandler ==
  /\ Idle("main") /\ mainQ # <<>> /\ Head(mainQ).op = "call"
  /\ LET f == Head(mainQ).f
     IN calls' = IF fetcher[f].stopped \/ fetcher[f].barred THEN calls
                 ELSE [calls EXCEPT ![f] = @ + 1]
  /\ mainQ' = Tail(mainQ)
  /\ UNCHANGED <<fetcher, service, disp, net, stack, delegateQ, events>>

ClientBegin(f) ==
  /\ Idle("main") /\ ~fetcher[f].begun /\ ~fetcher[f].stopped
  /\ fetcher' = [fetcher EXCEPT ![f].begun = TRUE]
  /\ stack' = [stack EXCEPT !["main"] = <<Begin(f, TRUE, TRUE)>>]
  /\ UNCHANGED <<service, disp, net, delegateQ, mainQ, calls, events>>

ClientStop(f) ==
  /\ Idle("main") /\ fetcher[f].begun /\ ~fetcher[f].stopped /\ events < MaxEvents
  /\ fetcher' = [fetcher EXCEPT ![f].stopped = TRUE]
  /\ stack' = [stack EXCEPT !["main"] = <<Stop(f, TRUE)>>]
  /\ events' = events + 1
  /\ UNCHANGED <<service, disp, net, delegateQ, mainQ, calls>>

\* stopAllFetchers: the lists are emptied under the lock, their members stopped
\* after it, the delayed ones first.
StopAll ==
  /\ Idle("main") /\ events < MaxEvents
  /\ LET delayed == UNION {ToSet(service.delayed[h]) : h \in Host}
         running == UNION {service.running[h] : h \in Host}
     IN /\ \E a \in SetToSeqs(delayed), b \in SetToSeqs(running) :
             stack' = [stack EXCEPT !["main"] =
                         [k \in 1 .. Len(a) |-> Stop(a[k], TRUE)] \o [k \in 1 .. Len(b) |-> Stop(b[k], TRUE)]]
        /\ fetcher' = [f \in Fetcher |->
                         [fetcher[f] EXCEPT !.barred = @ \/ fetcher[f].begun,
                                            !.stopped = @ \/ f \in delayed \cup running]]
        /\ service' = [service EXCEPT !.running = [h \in Host |-> {}],
                                      !.delayed = [h \in Host |-> <<>>]]
  /\ events' = events + 1
  /\ UNCHANGED <<disp, net, delegateQ, mainQ, calls>>

\* discardTimerFired: the timer object is remembered; with no task the service resets.
\* The discard interval, a minute, outlasts a begin that has its session.
DiscardTimerFired ==
  /\ Idle("main") /\ disp.timer # None /\ events < MaxEvents
  /\ \A op \in {"admit", "admitted", "delayed", "launch"} : ~Top("delegate", op)
  /\ stack' = [stack EXCEPT !["main"] =
                 IF DOMAIN disp.map = {}
                 THEN <<[Frame("discard", None) EXCEPT !.delay = disp.timer]>> ELSE <<>>]
  /\ events' = events + 1
  /\ UNCHANGED <<fetcher, service, disp, net, delegateQ, mainQ, calls>>

\* resetSessionInternal: the dispatcher's session is invalidated, a new dispatcher takes over.
Reset(d) == [d EXCEPT !.session = None, !.timer = None, !.map = Empty]

\* Mutation: the session is reset though a fetcher has come for it since.
DiscardSessionBlindly(t) ==
  /\ Top(t, "discard") /\ service.semaphore
  /\ disp' = Reset(disp)
  /\ net' = [net EXCEPT !.invalid = @ \cup ({disp.session} \ {None})]
  /\ Replace(t, <<>>)
  /\ UNCHANGED <<fetcher, service, delegateQ, mainQ, calls, events>>

DiscardSession(t) ==
  /\ Top(t, "discard") /\ service.semaphore
  /\ IF disp.timer = Head(stack[t]).delay
     THEN /\ disp' = Reset(disp)
          /\ net' = [net EXCEPT !.invalid = @ \cup ({disp.session} \ {None})]
     ELSE UNCHANGED <<disp, net>>
  /\ Replace(t, <<>>)
  /\ UNCHANGED <<fetcher, service, delegateQ, mainQ, calls, events>>

\* The authoriser's answer; it makes none once stopAuthorizationForRequest was called.
AuthorizerFinished(f, ok) ==
  /\ Idle("main") /\ fetcher[f].asking
  /\ fetcher' = [fetcher EXCEPT ![f].asking = FALSE]
  /\ stack' = [stack EXCEPT !["main"] = IF ok THEN <<Begin(f, FALSE, FALSE)>> ELSE <<Frame("fail", f)>>]
  /\ UNCHANGED <<service, disp, net, delegateQ, mainQ, calls, events>>

----------------------------------------------------------------------------
(* The network (external).                                                 *)

TaskEnds(k) ==
  /\ \E outcome \in {"ok", "retry", "fail"} :
       delegateQ' = Append(delegateQ, [op |-> "complete", f |-> net.tasks[k], task |-> k, outcome |-> outcome])
  /\ net' = [net EXCEPT !.tasks = Drop(@, {k})]
  /\ UNCHANGED <<fetcher, service, disp, stack, mainQ, calls, events>>

Init ==
  /\ \E refused \in SUBSET Refused : fetcher = [f \in Fetcher |->
       [refused |-> f \in refused, begun |-> FALSE, stopped |-> FALSE, barred |-> FALSE, task |-> None, session |-> None,
        host |-> FALSE, handler |-> TRUE, timer |-> FALSE, retries |-> 0, asking |-> FALSE]]
  /\ service = [running |-> [h \in Host |-> {}], delayed |-> [h \in Host |-> <<>>], semaphore |-> TRUE]
  /\ disp = [session |-> None, map |-> Empty, timer |-> None, next |-> 1]
  /\ net = [tasks |-> Empty, next |-> 1, invalid |-> {}, dead |-> {}]
  /\ stack = [t \in Thread |-> <<>>]
  /\ delegateQ = <<>> /\ mainQ = <<>>
  /\ calls = [f \in Fetcher |-> 0]
  /\ events = 0

RunFrame(t) ==
  \/ BeginFetch(t) \/ CreateSession(t) \/ Admit(t) \/ NoteHost(t) \/ Launch(t) \/ FailToBegin(t)
  \/ StopFetch(t) \/ DidStop(t) \/ ClearHost(t) \/ BeginForRetry(t) \/ DiscardSession(t)

Work ==
  \/ \E t \in Thread : RunFrame(t)
  \/ TaskCompleted \/ RetryFetch \/ BeginRetryTimer \/ InvokeHandler
  \/ \E f \in Fetcher : RetryTimerFired(f) \/ \E ok \in BOOLEAN : AuthorizerFinished(f, ok)
  \/ \E k \in DOMAIN net.tasks : TaskEnds(k)

Next ==
  \/ Work
  \/ \E f \in Fetcher : ClientBegin(f) \/ ClientStop(f)
  \/ StopAll \/ DiscardTimerFired

\* Threads run, timers fire, tasks end and the authoriser answers; the client
\* need not do anything.
Spec == Init /\ [][Next]_vars /\ WF_vars(Work)

----------------------------------------------------------------------------
(* Properties.                                                             *)

\* invokeFetchCallbacks is reached at most once per fetch: a completion handler
\* is called once, however answers, retries, failures and stops fall together.
AnsweredOnce == \A f \in Fetcher : calls[f] <= 1

\* fetcherShouldBeginFetching: and fetcherDidStop: keep no more requests of a host
\* under way than maxRunningFetchersPerHost, also across retries.
ConnectionLimit ==
  \A h \in Host :
    Cardinality({k \in DOMAIN net.tasks :
                    HostOf[net.tasks[k]] = h /\ ~fetcher[net.tasks[k]].stopped}) <= MaxRunning

\* The session a fetcher was given is usable when it creates its task there: the
\* discard timer and resetSession invalidate none that a fetcher is about to use.
SessionsUsable == net.dead = {}

\* A fetch that began is answered, unless it was stopped or its authorisation
\* refused: fetcherDidStop: frees every slot and starts who waits, so no slot is
\* leaked, no delayed fetcher forgotten, no thread left waiting for the semaphore.
FetchEnds ==
  <>[](\A f \in Fetcher :
         fetcher[f].begun => calls[f] > 0 \/ fetcher[f].stopped \/ fetcher[f].barred)

\* stopFetching cancels the fetch: no request of the fetcher is sent after it.
\* The code does not keep this (see the README).
StopIsFinal ==
  [][\A k \in DOMAIN net'.tasks \ DOMAIN net.tasks : ~fetcher[net'.tasks[k]].stopped]_vars
=============================================================================
