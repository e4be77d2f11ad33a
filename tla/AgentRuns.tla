------------------------------ MODULE AgentRuns ------------------------------
(***************************************************************************)
(* The detached-run manager of src/agent_runs.py, for ONE session id: the  *)
(* entries of _RUNS never touch one another.                               *)
(*                                                                         *)
(* Everything runs on one asyncio loop, so a step of the model is the code *)
(* between two suspension points: a handler call, or one resumption of a   *)
(* task (_drain, _evict) or of an async generator (subscribe).             *)
(*                                                                         *)
(* Runs are numbered in the order of start().  An event is an opaque       *)
(* value.  Times are counted in ticks; the grace period lasts Grace ticks. *)
(* A heartbeat of subscribe() changes no state and is left out.            *)
(***************************************************************************)
EXTENDS Integers, Sequences

CONSTANTS
  Client,        \* SSE clients; one may subscribe again after its stream ended
  Event,         \* the SSE events a generator can yield
  ErrorEvent,    \* the "event: error" block _drain publishes for a failed run
  DoneEvent,     \* "data: [DONE]"
  NoEvent,       \* the event part of the end sentinel (None, None)
  MaxRuns,       \* bound: how many times start() is called
  MaxEvents,     \* bound: events a generator yields before it ends
  Grace          \* _EVICT_GRACE_S in ticks

ASSUME EventAssumption ==
  /\ ErrorEvent \in Event
  /\ DoneEvent \in Event
  /\ NoEvent \notin Event
ASSUME BoundAssumption ==
  /\ MaxRuns \in Nat
  /\ MaxEvents \in Nat
  /\ Grace \in Nat

VARIABLES
  \* _RUNS and the _Run objects
  cur,           \* the run _RUNS maps the session to, 0 when it has no entry
  started,       \* how many runs have been started
  buffer,        \* [Run -> Seq(Event)], the replay log
  status,        \* [Run -> Status]
  timer,         \* [Run -> Off or the ticks left], the run's evict_task
  \* the drain tasks
  pc,            \* [Run -> where the task is suspended]
  cancel,        \* [Run -> BOOLEAN], task.cancel() called, not yet delivered
  prev,          \* [Run -> the run whose task it awaits first, 0 if none]
  target,        \* [Run -> the run the task publishes to]
  \* the subscribe() generators
  spc,           \* [Client -> where its generator is suspended]
  srun,          \* [Client -> the run it subscribed to]
  queue,         \* [Client -> its asyncio.Queue]
  next,          \* [Client -> next_seq once the yielded event is consumed]
  \* history variables
  out,           \* [Client -> Seq(Event)], what its stream was sent
  quiet          \* [Run -> ticks since it last ran or had a subscriber]

runVars  == <<cur, started, buffer, status, timer>>
taskVars == <<pc, cancel, prev, target>>
subVars  == <<spc, srun, queue, next, out>>
vars     == <<runVars, taskVars, subVars, quiet>>

Run    == 1..MaxRuns
Status == {"running", "done", "error", "stopped"}
Off    == -1
Item   == [seq : Nat, ev : Event]
End    == [seq |-> -1, ev |-> NoEvent]

Attached == {"replay", "live", "flush"}

Subscribers(r) == {c \in Client : spc[c] \in Attached /\ srun[c] = r}

Terminal(r) == status[r] # "running"

\* is_active()
IsActive == cur # 0 /\ ~Terminal(cur)

-----------------------------------------------------------------------------
Init ==
  /\ cur = 0
  /\ started = 0
  /\ buffer = [r \in Run |-> <<>>]
  /\ status = [r \in Run |-> "running"]
  /\ timer = [r \in Run |-> Off]
  /\ pc = [r \in Run |-> "none"]
  /\ cancel = [r \in Run |-> FALSE]
  /\ prev = [r \in Run |-> 0]
  /\ target = [r \in Run |-> 0]
  /\ spc = [c \in Client |-> "off"]
  /\ srun = [c \in Client |-> 0]
  /\ queue = [c \in Client |-> <<>>]
  /\ next = [c \in Client |-> 0]
  /\ out = [c \in Client |-> <<>>]
  /\ quiet = [r \in Run |-> 0]

-----------------------------------------------------------------------------
(* Helpers of several handlers.                                            *)

\* _schedule_evict(session_id): it arms the timer of whatever run _RUNS holds.
ScheduleEvict == [r \in Run |-> IF r = cur THEN Grace ELSE timer[r]]

\* Mutant: seq taken before the append.
ItemsEarly(n, evs) == [i \in 1..Len(evs) |-> [seq |-> n + i - 2, ev |-> evs[i]]]

\* The queue items (seq, ev) of the events evs, the first one at position n.
Items(n, evs) == [i \in 1..Len(evs) |-> [seq |-> n + i - 1, ev |-> evs[i]]]

\* _publish of the events evs to run r, then the items of tail to the queues
\* of its subscribers.
Fanout(r, evs, tail) ==
  /\ buffer' = [buffer EXCEPT ![r] = @ \o evs]
  /\ queue' = [c \in Client |->
                 IF c \in Subscribers(r)
                 THEN queue[c] \o Items(Len(buffer[r]), evs) \o tail
                 ELSE queue[c]]

-----------------------------------------------------------------------------
(* start() and stop(), called by the chat routes.                          *)

\* Mutant: a task that has not run yet is not taken for one in flight.
InFlightOnceBegun == cur # 0 /\ pc[cur] \notin {"created", "ended"}

\* run.task and not run.task.done()
InFlight == cur # 0 /\ pc[cur] # "ended"

Start ==
  LET r == started + 1
  IN  /\ started < MaxRuns
      /\ started' = r
      /\ cur' = r
      /\ cancel' = [s \in Run |-> cancel[s] \/ (InFlight /\ s = cur)]
      /\ prev' = [prev EXCEPT ![r] = IF InFlight THEN cur ELSE 0]
      /\ timer' = [s \in Run |-> IF s = cur THEN Off ELSE timer[s]]
      /\ pc' = [pc EXCEPT ![r] = "created"]
      /\ UNCHANGED <<buffer, status, target, subVars, quiet>>

Stop ==
  /\ InFlight
  /\ cancel' = [cancel EXCEPT ![cur] = TRUE]
  /\ UNCHANGED <<runVars, pc, prev, target, subVars, quiet>>

-----------------------------------------------------------------------------
(* _drain: the task of a run.                                              *)

\* The first step.  A task cancelled before it never enters the coroutine.
Begin(r) ==
  /\ pc[r] = "created"
  /\ target' = [target EXCEPT ![r] = IF cancel[r] THEN 0 ELSE cur]
  /\ pc' = [pc EXCEPT ![r] =
              IF cancel[r] \/ cur = 0 THEN "ended"
              ELSE IF prev[r] # 0 /\ pc[prev[r]] # "ended" THEN "waiting"
              ELSE "streaming"]
  /\ UNCHANGED <<runVars, cancel, prev, subVars, quiet>>

\* Mutant: only a run that completed lets its successor go on.
PrevDone(r) ==
  /\ pc[r] = "waiting"
  /\ ~cancel[r]
  /\ status[prev[r]] = "done"
  /\ pc' = [pc EXCEPT ![r] = "streaming"]
  /\ UNCHANGED <<runVars, cancel, prev, target, subVars, quiet>>

\* asyncio.wait({prev_task}) returns.
PrevEnded(r) ==
  /\ pc[r] = "waiting"
  /\ ~cancel[r]
  /\ pc[prev[r]] = "ended"
  /\ pc' = [pc EXCEPT ![r] = "streaming"]
  /\ UNCHANGED <<runVars, cancel, prev, target, subVars, quiet>>

\* Cancelled while it awaits prev_task: the bare raise leaves the coroutine
\* before the try whose finally wakes the subscribers.
CancelledWaiting(r) ==
  /\ pc[r] = "waiting"
  /\ cancel[r]
  /\ pc' = [pc EXCEPT ![r] = "ended"]
  /\ UNCHANGED <<runVars, cancel, prev, target, subVars, quiet>>

\* async for ev in agen: _publish(run, ev)
Publish(r, ev) ==
  /\ pc[r] = "streaming"
  /\ ~cancel[r]
  /\ Len(buffer[target[r]]) < MaxEvents
  /\ Fanout(target[r], <<ev>>, <<>>)
  /\ UNCHANGED <<cur, started, status, timer, taskVars,
                 spc, srun, next, out, quiet>>

\* CancelledError is raised inside agen; its handlers, which save the partial
\* answer, may await before the error reaches _drain.
CancelDelivered(r) ==
  /\ pc[r] = "streaming"
  /\ cancel[r]
  /\ pc' = [pc EXCEPT ![r] = "closing"]
  /\ UNCHANGED <<runVars, cancel, prev, target, subVars, quiet>>

\* An except branch (or the normal end) with the finally: last events, terminal
\* status, end sentinel to every queue, eviction timer.
Finish(r, st, evs) ==
  /\ status' = [status EXCEPT ![target[r]] = st]
  /\ Fanout(target[r], evs, <<End>>)
  /\ timer' = ScheduleEvict
  /\ pc' = [pc EXCEPT ![r] = "ended"]
  /\ quiet' = [quiet EXCEPT ![target[r]] = 0]
  /\ UNCHANGED <<cur, started, cancel, prev, target, spc, srun, next, out>>

Complete(r) == pc[r] = "streaming" /\ ~cancel[r] /\ Finish(r, "done", <<>>)
Fail(r)     == pc[r] = "streaming" /\ ~cancel[r]
                 /\ Finish(r, "error", <<ErrorEvent, DoneEvent>>)
Stopped(r)  == pc[r] = "closing" /\ Finish(r, "stopped", <<>>)

-----------------------------------------------------------------------------
(* subscribe(): the generator of one SSE response.                         *)

\* yield run.buffer[next_seq], suspended at the yield in the loop `at`
YieldFromBuffer(c, at) ==
  /\ next[c] < Len(buffer[srun[c]])
  /\ spc' = [spc EXCEPT ![c] = at]
  /\ next' = [next EXCEPT ![c] = @ + 1]
  /\ out' = [out EXCEPT ![c] = Append(@, buffer[srun[c]][next[c] + 1])]
  /\ UNCHANGED <<runVars, taskVars, srun, queue, quiet>>

\* Mutant: the disconnect does not re-arm the timer the connect cancelled.
NoRearm(c) == timer

\* The last one out of a finished run re-arms the eviction of the session's
\* current run.
Rearm(c) ==
  IF Subscribers(srun[c]) = {c} /\ Terminal(srun[c]) THEN ScheduleEvict ELSE timer

\* The finally of subscribe(): drop the queue.  A stream that ended
\* by itself keeps its history, one the client dropped is gone.
Leave(c, ended) ==
  /\ spc' = [spc EXCEPT ![c] = IF ended THEN "done" ELSE "off"]
  /\ srun' = [srun EXCEPT ![c] = IF ended THEN @ ELSE 0]
  /\ next' = [next EXCEPT ![c] = IF ended THEN @ ELSE 0]
  /\ out' = [out EXCEPT ![c] = IF ended THEN @ ELSE <<>>]
  /\ queue' = [queue EXCEPT ![c] = <<>>]
  /\ timer' = Rearm(c)
  /\ quiet' = [quiet EXCEPT ![srun[c]] = 0]
  /\ UNCHANGED <<cur, started, buffer, status, taskVars>>

\* Up to the first suspension: register, cancel the eviction timer, and yield
\* the first event, or wait for the queue, or (finished, empty run) return.
Subscribe(c) ==
  LET first == IF buffer[cur] = <<>> THEN <<>> ELSE <<Head(buffer[cur])>>
      pause == IF first # <<>> THEN "replay"
               ELSE IF ~Terminal(cur) THEN "live" ELSE "done"
  IN  /\ spc[c] \notin Attached
      /\ cur # 0
      /\ spc' = [spc EXCEPT ![c] = pause]
      /\ srun' = [srun EXCEPT ![c] = cur]
      /\ queue' = [queue EXCEPT ![c] = <<>>]
      /\ next' = [next EXCEPT ![c] = Len(first)]
      /\ out' = [out EXCEPT ![c] = first]
      /\ timer' = [timer EXCEPT ![cur] =
                     IF pause = "done" /\ Subscribers(cur) = {}
                     THEN Grace ELSE Off]
      /\ quiet' = [quiet EXCEPT ![cur] = 0]
      /\ UNCHANGED <<cur, started, buffer, status, taskVars>>

\* The replay loop resumes.
ReplayNext(c) == spc[c] = "replay" /\ YieldFromBuffer(c, "replay")
ReplayEnd(c)  == /\ spc[c] = "replay"
                 /\ next[c] = Len(buffer[srun[c]])
                 /\ Terminal(srun[c])
                 /\ Leave(c, TRUE)
GoLive(c) ==
  /\ spc[c] = "replay"
  /\ next[c] = Len(buffer[srun[c]])
  /\ ~Terminal(srun[c])
  /\ spc' = [spc EXCEPT ![c] = "live"]
  /\ UNCHANGED <<runVars, taskVars, srun, queue, next, out, quiet>>

\* Mutants: events replayed from the buffer are not skipped; the comparison is
\* off by one.
NeverReplayed(c, item)   == FALSE
ReplayedOffByOne(c, item) == item.seq <= next[c]

Replayed(c, item) == item.seq < next[c]

\* q.get() returns an event: sent on unless the replay already sent it.
Receive(c) ==
  LET item == Head(queue[c])
  IN  /\ spc[c] = "live"
      /\ queue[c] # <<>>
      /\ item # End
      /\ queue' = [queue EXCEPT ![c] = Tail(@)]
      /\ IF Replayed(c, item)
         THEN UNCHANGED <<next, out>>
         ELSE /\ next' = [next EXCEPT ![c] = item.seq + 1]
              /\ out' = [out EXCEPT ![c] = Append(@, item.ev)]
      /\ UNCHANGED <<runVars, taskVars, spc, srun, quiet>>

\* The end sentinel, or a timed-out wait that finds the run finished, leads to
\* the loop that flushes the rest of the buffer.
EndSeen(c) ==
  /\ spc[c] = "live"
  /\ \/ queue[c] # <<>> /\ Head(queue[c]) = End
     \/ Terminal(srun[c])
FlushNext(c) == (EndSeen(c) \/ spc[c] = "flush") /\ YieldFromBuffer(c, "flush")

\* Mutants: the rest of the buffer is not flushed; the break belongs to the
\* flush loop.
FlushSkipped(c)   == (EndSeen(c) \/ spc[c] = "flush") /\ Leave(c, TRUE)
BreakInsideLoop(c) == /\ spc[c] = "flush"
                      /\ next[c] = Len(buffer[srun[c]])
                      /\ Leave(c, TRUE)

FlushEnd(c) == /\ EndSeen(c) \/ spc[c] = "flush"
               /\ next[c] = Len(buffer[srun[c]])
               /\ Leave(c, TRUE)

\* The client goes away: GeneratorExit or CancelledError at a suspension point.
Disconnect(c) == spc[c] \in Attached /\ Leave(c, FALSE)

-----------------------------------------------------------------------------
(* The eviction timers, and time.                                          *)

\* Mutant: the readers are not looked at.
EvictableUnderReaders(r) == cur = r /\ Terminal(r)

Evictable(r) == cur = r /\ Terminal(r) /\ Subscribers(r) = {}

\* _evict after its sleep
Evict(r) ==
  /\ timer[r] = 0
  /\ timer' = [timer EXCEPT ![r] = Off]
  /\ cur' = IF Evictable(r) THEN 0 ELSE cur
  /\ UNCHANGED <<started, buffer, status, taskVars, subVars, quiet>>

Tick ==
  /\ \E r \in Run : timer[r] > 0
  /\ timer' = [r \in Run |-> IF timer[r] > 0 THEN timer[r] - 1 ELSE timer[r]]
  /\ quiet' = [r \in Run |->
                 IF Terminal(r) /\ Subscribers(r) = {} /\ quiet[r] < Grace
                 THEN quiet[r] + 1 ELSE quiet[r]]
  /\ UNCHANGED <<cur, started, buffer, status, taskVars, subVars>>

-----------------------------------------------------------------------------
DrainStep(r) ==
  \/ Begin(r)
  \/ PrevEnded(r)
  \/ CancelledWaiting(r)
  \/ \E ev \in Event : Publish(r, ev)
  \/ CancelDelivered(r)
  \/ Complete(r)
  \/ Fail(r)
  \/ Stopped(r)

\* The resumptions of a subscriber's generator the server performs.
Deliver(c) ==
  \/ ReplayNext(c)
  \/ ReplayEnd(c)
  \/ GoLive(c)
  \/ Receive(c)
  \/ FlushNext(c)
  \/ FlushEnd(c)

Next ==
  \/ Start
  \/ Stop
  \/ \E r \in Run : DrainStep(r) \/ Evict(r)
  \/ \E c \in Client : Subscribe(c) \/ Deliver(c) \/ Disconnect(c)
  \/ Tick

Spec == Init /\ [][Next]_vars

\* What the event loop guarantees: a scheduled resumption is run, a cancelled
\* generator gets its error, time passes.  Nothing is assumed of when, or
\* whether, a generator yields or ends by itself.
Fairness ==
  /\ \A r \in Run : WF_vars(Begin(r) \/ PrevEnded(r) \/ CancelledWaiting(r)
                             \/ CancelDelivered(r) \/ Stopped(r))
  /\ \A c \in Client : WF_vars(Deliver(c))
  /\ \A r \in Run : WF_vars(Evict(r))
  /\ WF_vars(Tick)

FairSpec == Spec /\ Fairness

-----------------------------------------------------------------------------
(* Properties.                                                             *)

TypeOK ==
  /\ cur \in 0..started
  /\ started \in 0..MaxRuns
  /\ buffer \in [Run -> Seq(Event)]
  /\ status \in [Run -> Status]
  /\ timer \in [Run -> {Off} \cup (0..Grace)]
  /\ pc \in [Run -> {"none", "created", "waiting", "streaming", "closing", "ended"}]
  /\ cancel \in [Run -> BOOLEAN]
  /\ prev \in [Run -> 0..MaxRuns]
  /\ target \in [Run -> 0..MaxRuns]
  /\ spc \in [Client -> Attached \cup {"off", "done"}]
  /\ srun \in [Client -> 0..MaxRuns]
  /\ queue \in [Client -> Seq(Item \cup {End})]
  /\ next \in [Client -> Nat]
  /\ out \in [Client -> Seq(Event)]
  /\ quiet \in [Run -> 0..Grace]

\* However replay, live events, reconnects and the end of the run interleave,
\* a stream has been sent the run's events from the first one on, in order,
\* none missing and none twice (subscribe: "register BEFORE replaying so
\* nothing is missed", "skip events already replayed").
StreamIsPrefix ==
  \A c \in Client : spc[c] # "off" =>
    /\ Len(out[c]) <= Len(buffer[srun[c]])
    /\ \A i \in 1..Len(out[c]) : out[c][i] = buffer[srun[c]][i]

\* A stream the server ends belongs to a finished run and carried its whole
\* log ("flush any tail the sentinel raced").
EndedStreamIsComplete ==
  \A c \in Client : spc[c] = "done" =>
    /\ Terminal(srun[c])
    /\ out[c] = buffer[srun[c]]

\* A drain looks its run up in _RUNS when it first runs, long after start():
\* it still never publishes to, or ends, a run other than its own.
DrainOwnsItsRun ==
  \A r \in Run : pc[r] \in {"waiting", "streaming", "closing"} => target[r] = r

\* The entry is removed only when its run is finished, unread, and has been so
\* for the whole grace period: no stale timer evicts it early.
EvictionOnlyAfterGrace ==
  [][ cur # 0 /\ cur' = 0 =>
        /\ Terminal(cur)
        /\ Subscribers(cur) = {}
        /\ quiet[cur] = Grace ]_vars

\* Once clients stop coming back, a finished run leaves _RUNS (evicted, or
\* replaced): its buffer does not stay in memory for ever.
FinishedRunIsEvicted ==
  <>[][~ \E c \in Client : Subscribe(c)]_vars =>
    \A r \in Run : (cur = r /\ Terminal(r)) ~> (cur # r)

\* Every stream of a finished run is ended by the server or dropped.
FinishedStreamEnds ==
  \A c \in Client :
    (spc[c] \in Attached /\ Terminal(srun[c])) ~> spc[c] \notin Attached

\* A run queued behind the one it replaced gets its turn, or is itself cancelled.
QueuedRunGetsItsTurn ==
  \A r \in Run : (pc[r] = "waiting") ~> (pc[r] # "waiting")

-----------------------------------------------------------------------------
(* The abstract specification, and the mapping under which it is met.      *)

Abstract ==
  INSTANCE ReplayLog WITH
    Log <- Run,
    Reader <- Client,
    log <- buffer,
    closed <- [r \in Run |-> Terminal(r)],
    reading <- [c \in Client |->
                  IF spc[c] \in Attached THEN "reading" ELSE spc[c]],
    of <- srun,
    got <- out

\* Queues, replay, sentinel and timers together behave as an append-only log
\* with readers: safety (AbstractSpec) and, under the fairness of the event
\* loop, the readers' progress as well.
AbstractSpec     == Abstract!Spec
AbstractFairSpec == Abstract!FairSpec

-----------------------------------------------------------------------------
(* What the comments promise and the code does not keep.                   *)

\* agent_runs.py:93-98: waiting for the replaced run's task "keeps the two
\* runs' session saves sequential instead of interleaved".
SequentialGenerators ==
  \A r, s \in Run :
    {pc[r], pc[s]} \subseteq {"streaming", "closing"} => r = s

\* agent_runs.py:129: "Wake every subscriber with the end sentinel so their SSE
\* closes"; the run a task has left is done, error or stopped.
EndedTaskLeavesNoRunningRun ==
  cur # 0 /\ pc[cur] = "ended" => Terminal(cur)
=============================================================================
