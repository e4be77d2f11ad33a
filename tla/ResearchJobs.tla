---------------------------- MODULE ResearchJobs ----------------------------
(***************************************************************************)
(* The research panel of the browser: static/js/research/jobs.js keeps a   *)
(* card for every research, launches it, follows it over an EventSource,   *)
(* falls back to polling when that breaks, adopts the runs that were       *)
(* started elsewhere and loads the finished ones from the library.  The    *)
(* buttons of the cards are those of static/js/research/panel.js, and the  *)
(* server at the other end is ResearchRuns.                                *)
(*                                                                         *)
(* A card is a Job object of the page; a run is one on the server.  The    *)
(* id of a card is its run, or none while it is "pending-<n>".  Requests   *)
(* are sent, reach the server and are answered in steps of their own where *)
(* the page or the server can change in between; a library list is as old  *)
(* as its arrival.  One fallback timer of a card stands for several, and   *)
(* one cancellation of it for a repeated one.  Progress, elapsed time,     *)
(* notifications, the texts and sources of a report and the second         *)
(* instance of jobs.js that chatStream.js imports are left out.            *)
(***************************************************************************)
EXTENDS ResearchRuns, Sequences, SequencesExt

CONSTANTS
  MaxJobs,    \* bound: Job objects at a time
  MaxEvents   \* bound: what the user does (enter a query, retry, cancel, remove, clear,
              \* open the panel), runs started or stopped elsewhere, and faults (requests
              \* and runs that fail, streams that drop, restarts and reloads)

ASSUME JobBoundAssumption == MaxJobs \in Nat /\ MaxEvents \in Nat

Job == 1..MaxJobs
NoRun == 0
NoJob == 0

VARIABLES
  list,      \* _jobs
  job,       \* [Job -> its status, its id and the run whose stream is its _es;
             \* history: it was launched though it had an id already]
  post,      \* [Run -> the POST that starts it: for which job, and how far]
  streams,   \* the open EventSources, by the job they report to and their run
  timers,    \* the jobs with a timer of _pollFallback()
  asks,      \* the status requests of _pollFallback() under way
  cancels,   \* the cancellations under way
  poll,      \* _reconnectActive(): "idle", the "first" request of the page or a "later"
             \* one under way, or waiting for the "library"
  snap,      \* the runs that were active when the request reached the server
  dismissed, \* the dismissed ids in localStorage
  runner,    \* startAllQueuedSequential(): the jobs to come and the one it waits for
  clicks, faults, \* counted against the bound
  byRunner   \* history: the runs the present runner has launched

cardVars == <<list, job>>
netVars  == <<post, streams, timers, asks, cancels>>
syncVars == <<poll, snap>>
keptVars == <<dismissed>>
seqVars  == <<runner, byRunner>>
boundVars == <<clicks, faults>>
vars == <<runVars, cardVars, netVars, syncVars, keptVars, seqVars, boundVars>>

NoCard   == [status |-> "none", id |-> NoRun, es |-> NoRun, again |-> FALSE]
NoPost   == [job |-> NoJob, st |-> "none"]
NoRunner == [rest |-> <<>>, cur |-> NoJob, run |-> NoRun]

\* jobs.init(): the running and the finished researches are asked for at once.
Opened ==
  /\ list' = <<>>
  /\ job' = [j \in Job |-> NoCard]
  /\ streams' = {}
  /\ timers' = {}
  /\ asks' = {}
  /\ cancels' = {}
  /\ poll' = "first"
  /\ snap' = Active
  /\ runner' = NoRunner
  /\ byRunner' = {}

Init ==
  /\ RunsInit
  /\ list = <<>>
  /\ job = [j \in Job |-> NoCard]
  /\ post = [r \in Run |-> NoPost]
  /\ streams = {}
  /\ timers = {}
  /\ asks = {}
  /\ cancels = {}
  /\ poll = "first"
  /\ snap = {}
  /\ dismissed = {}
  /\ runner = NoRunner
  /\ clicks = 0 /\ faults = 0
  /\ byRunner = {}

-----------------------------------------------------------------------------
(* Cards.                                                                  *)

Listed(j) == j \in ToSet(list)

\* _jobs.find(j => j.id === r) is j.
Finds(r, j) ==
  \E k \in DOMAIN list :
    list[k] = j /\ job[j].id = r /\ \A i \in 1..k - 1 : job[list[i]].id # r

\* The card the buttons of card j act on: the first with its id.
Meant(j, c) == IF job[j].id = NoRun THEN c = j ELSE Finds(job[j].id, c)

HasCard(r) == \E j \in ToSet(list) : job[j].id = r

\* _jobs.filter(j => j.status === 'queued') is q.
Queued == {j \in ToSet(list) : job[j].status = "queued"}
Place(s, j) == CHOOSE k \in DOMAIN s : s[k] = j
IsQueue(q) ==
  /\ q \in [1..Cardinality(Queued) -> Queued]
  /\ \A i, k \in DOMAIN q : i < k => Place(list, q[i]) < Place(list, q[k])

\* A Job object nothing refers to.
Free(j) ==
  /\ ~Listed(j)
  /\ \A r \in Run : post[r].job = j => post[r].st = "over"
  /\ \A x \in streams \cup asks \cup cancels : x[1] # j
  /\ j \notin timers \cup {runner.cur} \cup ToSet(runner.rest)

NewJob(j) == Free(j) /\ \A k \in Job : Free(k) => j <= k

\* The ids of a list the server sent, in the order of their numbers (which of them comes
\* first makes no difference), and Job objects for that many new cards.
Rising(s) == \A i, k \in DOMAIN s : i < k => s[i] < s[k]
IsList(rs, runs) == rs \in [1..Cardinality(runs) -> runs] /\ Rising(rs)
NewJobs(js, n) ==
  /\ js \in [1..n -> Job] /\ Rising(js)
  /\ \A k \in 1..n : Free(js[k])
  /\ \A j \in Job \ ToSet(js), k \in 1..n : Free(j) => js[k] < j

\* The bound on runs: the next one to be asked for.
Unused(r) == run[r] = "none" /\ post[r] = NoPost
NextRun(r) == \A k \in Run : Unused(k) <=> k >= r

\* _finishJob(j, status), with the streams that are open besides.
Finish(j, status, open) ==
  /\ job' = [job EXCEPT ![j] = [@ EXCEPT !.status = status, !.es = NoRun]]
  /\ streams' = open \ {<<j, job[j].es>>}

-----------------------------------------------------------------------------
(* What the user does on the panel.                                        *)

Fault == clicks + faults < MaxEvents /\ faults' = faults + 1
Click == clicks + faults < MaxEvents /\ clicks' = clicks + 1

\* addToQueue().
Add ==
  /\ Click
  /\ \E j \in Job :
       /\ NewJob(j)
       /\ list' = Append(list, j)
       /\ job' = [job EXCEPT ![j] = [NoCard EXCEPT !.status = "queued"]]
  /\ UNCHANGED <<runVars, netVars, syncVars, keptVars, seqVars, faults>>

\* startJob(): the same, and launched at once; with two queued cards the button only
\* adds a third, and asks how to start them.
StartJob ==
  /\ Click
  /\ Cardinality(Queued) <= 1
  /\ \E j \in Job, r \in Run :
       /\ NewJob(j) /\ NextRun(r)
       /\ list' = Append(list, j)
       /\ job' = [job EXCEPT ![j] = [NoCard EXCEPT !.status = "queued"]]
       /\ post' = [post EXCEPT ![r] = [job |-> j, st |-> "sent"]]
  /\ UNCHANGED <<runVars, streams, timers, asks, cancels, syncVars, keptVars, seqVars, faults>>

\* startQueued(): the card says "queued" until the POST is answered.
StartQueued(j) ==
  /\ j \in Queued
  /\ \E c \in Queued, r \in Run :
       /\ Meant(j, c) /\ NextRun(r)
       /\ post' = [post EXCEPT ![r] = [job |-> c, st |-> "sent"]]
  /\ UNCHANGED <<runVars, cardVars, streams, timers, asks, cancels, syncVars, keptVars, seqVars, boundVars>>

\* startAllQueued(): a POST for every queued card.
StartAll ==
  /\ Queued # {}
  /\ \E q \in [1..Cardinality(Queued) -> Queued], r \in Run :
       /\ IsQueue(q) /\ NextRun(r)
       /\ r + Len(q) - 1 \in Run
       /\ post' = [k \in Run |-> IF k \in r..r + Len(q) - 1
                                   THEN [job |-> q[k - r + 1], st |-> "sent"] ELSE post[k]]
  /\ UNCHANGED <<runVars, cardVars, streams, timers, asks, cancels, syncVars, keptVars, seqVars, boundVars>>

\* startAllQueuedSequential().  Bounds: the queue does not shrink while the user
\* chooses, and one such pass through it at a time.
StartSequential ==
  /\ Cardinality(Queued) > 1
  /\ runner = NoRunner
  /\ \E q \in [1..Cardinality(Queued) -> Queued] :
       IsQueue(q) /\ runner' = [NoRunner EXCEPT !.rest = q]
  /\ UNCHANGED <<runVars, cardVars, netVars, syncVars, keptVars, byRunner, boundVars>>

\* retryJob(), on a card that failed or was cancelled.
Retry(j) ==
  /\ Click
  /\ Listed(j)
  /\ job[j].status \in {"error", "cancelled"}
  /\ \E c \in Job, r \in Run :
       /\ Meant(j, c) /\ NextRun(r)
       /\ job' = [job EXCEPT ![c].status = "queued"]
       /\ post' = [post EXCEPT ![r] = [job |-> c, st |-> "sent"]]
  /\ UNCHANGED <<runVars, list, streams, timers, asks, cancels, syncVars, keptVars, seqVars, faults>>

\* cancelJob(), on a card that runs: the first card with its id.
Cancel(j) ==
  /\ Click
  /\ Listed(j)
  /\ job[j].status = "running"
  /\ \E c \in Job : Meant(j, c) /\ cancels' = cancels \cup {<<c, job[j].id, "sent">>}
  /\ UNCHANGED <<runVars, cardVars, post, streams, timers, asks, syncVars, keptVars, seqVars, faults>>

\* Mutant: every id is dismissed.
RemoveAnyJob(j) ==
  /\ Click
  /\ Listed(j)
  /\ job[j].status # "running"
  /\ \E c \in Job :
       /\ Meant(j, c)
       /\ dismissed' = dismissed \cup {job[c].id}
       /\ list' = RemoveAt(list, Place(list, c))
  /\ UNCHANGED <<runVars, job, netVars, syncVars, seqVars, faults>>

\* removeJob(): the buttons that edit, remove or dismiss a card that does not run.
\* What the page does for the card goes on.
RemoveJob(j) ==
  /\ Click
  /\ Listed(j)
  /\ job[j].status # "running"
  /\ \E c \in Job :
       /\ Meant(j, c)
       /\ dismissed' = dismissed \cup {r \in {job[c].id} : job[c].status = "done"}
       /\ list' = RemoveAt(list, Place(list, c))
  /\ UNCHANGED <<runVars, job, netVars, syncVars, seqVars, faults>>

\* clearAll(), the button of the section of past researches.
ClearAll ==
  /\ Click
  /\ \E j \in ToSet(list) : job[j].status = "done"
  /\ dismissed' = dismissed \cup {job[j].id : j \in {k \in ToSet(list) : job[k].status = "done"}}
  /\ streams' = streams \ {<<j, job[j].es>> : j \in ToSet(list)}
  /\ job' = [j \in Job |-> IF Listed(j) THEN [job[j] EXCEPT !.es = NoRun] ELSE job[j]]
  /\ list' = <<>>
  /\ UNCHANGED <<runVars, post, timers, asks, cancels, syncVars, seqVars, faults>>

\* _syncLibrary() with the answer: a report that is not dismissed sets its first card
\* to done, whatever the card is, or gets a card.
ShowLibrary ==
  LET shown == saved \ dismissed
      new   == {r \in shown : ~HasCard(r)}
      n     == Cardinality(new)
  IN  \E rs \in [1..n -> new], js \in [1..n -> Job] :
        /\ IsList(rs, new) /\ NewJobs(js, n)
        /\ list' = list \o js
        /\ job' = [j \in Job |->
             IF j \in ToSet(js) THEN [NoCard EXCEPT !.status = "done", !.id = rs[Place(js, j)]]
             ELSE IF \E r \in shown : Finds(r, j) THEN [job[j] EXCEPT !.status = "done"]
             ELSE job[j]]

\* openPanel() loads the library, unless that is under way.  What the page waits for
\* counts from the answer on.
OpenPanel ==
  /\ Click
  /\ poll # "library"
  /\ ShowLibrary
  /\ UNCHANGED <<runVars, netVars, syncVars, keptVars, seqVars, faults>>

\* The page is loaded again.  A request that was sent may still reach the server.
Reload ==
  /\ Fault
  /\ Opened
  /\ post' = [r \in Run |-> [post[r] EXCEPT !.job = NoJob]]
  /\ UNCHANGED <<runVars, keptVars, clicks>>

UserStep ==
  \/ Add
  \/ StartJob
  \/ \E j \in Job : StartQueued(j) \/ Retry(j) \/ Cancel(j) \/ RemoveJob(j)
  \/ StartAll
  \/ StartSequential
  \/ ClearAll
  \/ OpenPanel
  \/ Reload

-----------------------------------------------------------------------------
(* Launching.                                                              *)

\* The POST reaches the server, which starts the run under a new id.
Starts(r) ==
  /\ post[r].st = "sent"
  /\ run[r] = "none"
  /\ StartResearch(r)
  /\ UNCHANGED chats
  /\ post' = [post EXCEPT ![r].st = "started"]
  /\ UNCHANGED <<cardVars, streams, timers, asks, cancels, syncVars, keptVars, seqVars, boundVars>>

\* _launchJob() goes on: the card follows the run, whatever became of it since.
\* A stream it has already is not closed.
Launched(r) ==
  /\ post[r].st = "started"
  /\ post' = [post EXCEPT ![r].st = "over"]
  /\ LET j == post[r].job
     IN  IF j = NoJob THEN UNCHANGED <<job, streams>>
         ELSE /\ job' = [job EXCEPT ![j] = [status |-> "running", id |-> r, es |-> r,
                                              again |-> @.again \/ @.id # NoRun]]
              /\ streams' = streams \cup {<<j, r>>}
  /\ UNCHANGED <<runVars, list, timers, asks, cancels, syncVars, keptVars, seqVars, boundVars>>

\* The server has refused, or the answer is lost.
LaunchFails(r) ==
  /\ post[r].st \in {"sent", "started"}
  /\ Fault
  /\ post' = [post EXCEPT ![r].st = "over"]
  /\ job' = IF post[r].job = NoJob THEN job ELSE [job EXCEPT ![post[r].job].status = "error"]
  /\ UNCHANGED <<runVars, list, streams, timers, asks, cancels, syncVars, keptVars, seqVars, clicks>>

\* Mutant: startAllQueuedSequential() does not wait for the job it has launched.
RunnerHurries ==
  /\ runner.rest # <<>>
  /\ runner.cur # NoJob => post[runner.run].st = "over"
  /\ \E r \in Run :
       /\ NextRun(r)
       /\ post' = [post EXCEPT ![r] = [job |-> Head(runner.rest), st |-> "sent"]]
       /\ runner' = [rest |-> Tail(runner.rest), cur |-> Head(runner.rest), run |-> r]
       /\ byRunner' = byRunner \cup {r}
  /\ UNCHANGED <<runVars, cardVars, streams, timers, asks, cancels, syncVars, keptVars, boundVars>>

\* The job the runner waits for does not run any more.
RunnerIsReady ==
  runner.cur # NoJob => post[runner.run].st = "over" /\ job[runner.cur].status # "running"

\* startAllQueuedSequential() launches the next one of the jobs that were queued at
\* its start ...
RunnerLaunches ==
  /\ runner.rest # <<>>
  /\ RunnerIsReady
  /\ \E r \in Run :
       /\ NextRun(r)
       /\ post' = [post EXCEPT ![r] = [job |-> Head(runner.rest), st |-> "sent"]]
       /\ runner' = [rest |-> Tail(runner.rest), cur |-> Head(runner.rest), run |-> r]
       /\ byRunner' = byRunner \cup {r}
  /\ UNCHANGED <<runVars, cardVars, streams, timers, asks, cancels, syncVars, keptVars, boundVars>>

\* ... and is over after the last.
RunnerEnds ==
  /\ runner # NoRunner
  /\ runner.rest = <<>>
  /\ RunnerIsReady
  /\ runner' = NoRunner
  /\ byRunner' = {}
  /\ UNCHANGED <<runVars, cardVars, netVars, syncVars, keptVars, boundVars>>

LaunchStep ==
  \/ \E r \in Run : Starts(r) \/ Launched(r) \/ LaunchFails(r)
  \/ RunnerLaunches
  \/ RunnerEnds

-----------------------------------------------------------------------------
(* Following a run.                                                        *)

\* onmessage with the final event of the run, or with "not_found" when a chat has
\* consumed it.
StreamEnds(j, r) ==
  /\ <<j, r>> \in streams
  /\ \/ /\ StatusOf(r) \in {"done", "error", "cancelled"}
        /\ Finish(j, StatusOf(r), streams \ {<<j, r>>})
     \/ /\ r \in chats /\ StatusOf(r) = "none"
        /\ Finish(j, "error", streams \ {<<j, r>>})
  /\ UNCHANGED <<runVars, list, post, timers, asks, cancels, syncVars, keptVars, seqVars, boundVars>>

\* Mutant: onerror only closes the stream.
StreamJustDrops(j, r) ==
  /\ <<j, r>> \in streams
  /\ \/ StatusOf(r) = "none" /\ UNCHANGED faults
     \/ Fault
  /\ streams' = streams \ {<<j, r>>}
  /\ UNCHANGED timers
  /\ UNCHANGED <<runVars, cardVars, post, asks, cancels, syncVars, keptVars, seqVars, clicks>>

\* onerror: the connection drops, or the server does not know the run.
StreamDrops(j, r) ==
  /\ <<j, r>> \in streams
  /\ \/ StatusOf(r) = "none" /\ UNCHANGED faults
     \/ Fault
  /\ streams' = streams \ {<<j, r>>}
  /\ timers' = IF job[j].status = "running" THEN timers \cup {j} ELSE timers
  /\ UNCHANGED <<runVars, cardVars, post, asks, cancels, syncVars, keptVars, seqVars, clicks>>

\* _pollFallback(): it asks for the card's run, if the card still runs ...
PollFires(j) ==
  /\ j \in timers
  /\ timers' = timers \ {j}
  /\ asks' = IF job[j].status = "running" THEN asks \cup {<<j, job[j].id>>} ELSE asks
  /\ UNCHANGED <<runVars, cardVars, post, streams, cancels, syncVars, keptVars, seqVars, boundVars>>

\* Mutant: an answer that the run is no longer running is a success.
PollAnsweredWell(j, r) ==
  /\ <<j, r>> \in asks
  /\ asks' = asks \ {<<j, r>>}
  /\ IF StatusOf(r) = "running"
       THEN timers' = timers \cup {j} /\ UNCHANGED <<job, streams>>
       ELSE Finish(j, IF StatusOf(r) # "none" THEN "done" ELSE "error", streams) /\ UNCHANGED timers
  /\ UNCHANGED <<runVars, list, post, cancels, syncVars, keptVars, seqVars, boundVars>>

\* ... and goes on with the answer, whatever the card is by then.
PollAnswered(j, r) ==
  /\ <<j, r>> \in asks
  /\ asks' = asks \ {<<j, r>>}
  /\ IF StatusOf(r) = "running"
       THEN timers' = timers \cup {j} /\ UNCHANGED <<job, streams>>
       ELSE Finish(j, IF StatusOf(r) = "done" THEN "done" ELSE "error", streams) /\ UNCHANGED timers
  /\ UNCHANGED <<runVars, list, post, cancels, syncVars, keptVars, seqVars, boundVars>>

\* The request of the fallback may fail as well, which is not counted as a fault.
PollFails(j, r) ==
  /\ <<j, r>> \in asks
  /\ asks' = asks \ {<<j, r>>}
  /\ Finish(j, "error", streams)
  /\ UNCHANGED <<runVars, list, post, timers, cancels, syncVars, keptVars, seqVars, boundVars>>

\* The cancellation reaches the server, or is lost on the way ...
CancelReaches(j, r) ==
  /\ <<j, r, "sent">> \in cancels
  /\ cancels' = (cancels \ {<<j, r, "sent">>}) \cup {<<j, r, "told">>}
  /\ CancelResearch(r)
  /\ UNCHANGED <<cardVars, post, streams, timers, asks, syncVars, keptVars, seqVars, boundVars>>

CancelFails(j, r) ==
  /\ <<j, r, "sent">> \in cancels
  /\ Fault
  /\ cancels' = (cancels \ {<<j, r, "sent">>}) \cup {<<j, r, "told">>}
  /\ UNCHANGED <<runVars, cardVars, post, streams, timers, asks, syncVars, keptVars, seqVars, clicks>>

\* ... and cancelJob() goes on, whatever the server said.
Cancelled(j, r) ==
  /\ <<j, r, "told">> \in cancels
  /\ cancels' = cancels \ {<<j, r, "told">>}
  /\ Finish(j, "cancelled", streams)
  /\ UNCHANGED <<runVars, list, post, timers, asks, syncVars, keptVars, seqVars, boundVars>>

FollowStep ==
  \/ \E x \in streams : StreamEnds(x[1], x[2]) \/ StreamDrops(x[1], x[2])
  \/ \E j \in timers : PollFires(j)
  \/ \E x \in asks : PollAnswered(x[1], x[2]) \/ PollFails(x[1], x[2])
  \/ \E x \in cancels :
       CancelReaches(x[1], x[2]) \/ CancelFails(x[1], x[2]) \/ Cancelled(x[1], x[2])

-----------------------------------------------------------------------------
(* Finding the runs of others and the finished ones.                       *)

\* The interval of _reconnectActive().
Interval ==
  /\ poll = "idle"
  /\ poll' = "later"
  /\ snap' = Active
  /\ UNCHANGED <<runVars, cardVars, netVars, keptVars, seqVars, boundVars>>

\* The request fails: the library is left out, too.
ActiveFails ==
  /\ poll \in {"first", "later"}
  /\ Fault
  /\ poll' = "idle"
  /\ snap' = {}
  /\ UNCHANGED <<runVars, cardVars, netVars, keptVars, seqVars, clicks>>

\* Every run of the list that has no card gets one; then the first request of the
\* page loads the library.
Adopts ==
  /\ poll \in {"first", "later"}
  /\ LET new == {r \in snap : ~HasCard(r)}
         n   == Cardinality(new)
     IN  \E rs \in [1..n -> new], js \in [1..n -> Job] :
           /\ IsList(rs, new) /\ NewJobs(js, n)
           /\ list' = list \o js
           /\ job' = [j \in Job |->
                IF j \in ToSet(js)
                THEN LET r == rs[Place(js, j)]
                     IN  [status |-> "running", id |-> r, es |-> r, again |-> FALSE]
                ELSE job[j]]
           /\ streams' = streams \cup {<<js[k], rs[k]>> : k \in DOMAIN js}
  /\ snap' = {}
  /\ poll' = IF poll = "first" THEN "library" ELSE "idle"
  /\ UNCHANGED <<runVars, post, timers, asks, cancels, keptVars, seqVars, boundVars>>

LibraryArrives ==
  /\ poll = "library"
  /\ poll' = "idle"
  /\ ShowLibrary
  /\ UNCHANGED <<runVars, netVars, snap, keptVars, seqVars, boundVars>>

LibraryFails ==
  /\ poll = "library"
  /\ Fault
  /\ poll' = "idle"
  /\ UNCHANGED <<runVars, cardVars, netVars, snap, keptVars, seqVars, clicks>>

SyncStep ==
  \/ Interval
  \/ Adopts \/ ActiveFails
  \/ LibraryArrives \/ LibraryFails

\* trigger_research, the tool of the agent, and the panel of another page: a new id.
StartsElsewhere ==
  /\ Click
  /\ \E r \in Run : NextRun(r) /\ StartResearch(r)
  /\ UNCHANGED chats
  /\ UNCHANGED <<cardVars, netVars, syncVars, keptVars, seqVars, faults>>

\* A chat with research switched on: for the first time, or again, under its own id.
ChatResearches ==
  /\ Click
  /\ \E r \in Run :
       /\ r \in chats \/ NextRun(r)
       /\ StartResearch(r)
       /\ chats' = chats \cup {r}
  /\ UNCHANGED <<cardVars, netVars, syncVars, keptVars, seqVars, faults>>

\* Stop in a chat that researches.
ChatStops ==
  /\ Click
  /\ \E r \in chats \cap Active : CancelResearch(r)
  /\ UNCHANGED <<cardVars, netVars, syncVars, keptVars, seqVars, faults>>

\* A run goes on, a chat takes its result, or the server stops and starts again.
Server ==
  /\ \/ (\E r \in Run : Completes(r) \/ Saves(r) \/ Consumes(r)) /\ UNCHANGED faults
     \/ Fault /\ (ServerRestarts \/ \E r \in Run : Fails(r))
  /\ UNCHANGED <<cardVars, netVars, syncVars, keptVars, seqVars, clicks>>

Elsewhere ==
  \/ StartsElsewhere
  \/ ChatResearches
  \/ ChatStops

Next ==
  \/ UserStep
  \/ LaunchStep
  \/ FollowStep
  \/ SyncStep
  \/ Elsewhere
  \/ Server

Spec == Init /\ [][Next]_vars

-----------------------------------------------------------------------------
(* Properties.                                                             *)

TypeOK ==
  /\ RunsTypeOK
  /\ list \in Seq(Job)
  /\ job \in [Job -> [status : {"none", "queued", "running", "done", "error", "cancelled"},
                      id : Run \cup {NoRun}, es : Run \cup {NoRun}, again : BOOLEAN]]
  /\ post \in [Run -> [job : Job \cup {NoJob}, st : {"none", "sent", "started", "over"}]]
  /\ streams \subseteq Job \X Run
  /\ timers \subseteq Job
  /\ asks \subseteq Job \X Run
  /\ cancels \subseteq Job \X Run \X {"sent", "told"}
  /\ poll \in {"idle", "first", "later", "library"}
  /\ snap \subseteq Run
  /\ dismissed \subseteq Run
  /\ runner \in [rest : Seq(Job), cur : Job \cup {NoJob}, run : Run \cup {NoRun}]
  /\ clicks \in 0..MaxEvents /\ faults \in 0..MaxEvents
  /\ byRunner \subseteq Run

\* The job was launched at most once.
Once(j) == \A q, r \in Run : post[q].job = j /\ post[r].job = j => q = r

\* A card that was launched once and says "done" is of a run that came to a report, or
\* of a chat an earlier run of which did: neither a broken stream, the fallback, a
\* cancellation nor the library makes a run of the panel or of the agent look finished
\* that failed, was cancelled or still runs.  (Of a chat that researches again they do:
\* the library and the disk have the earlier report under the same id.)
DoneIsDone ==
  \A j \in ToSet(list) :
    job[j].status = "done" /\ ~job[j].again => job[j].id \in Reported

\* Queued jobs that are started one after the other do not run at the same time, as
\* long as no request fails and none of them is launched besides.
OneAtATime ==
  faults = 0 /\ (\A r \in byRunner : Once(post[r].job)) =>
    \A q, r \in byRunner : run[q] = "running" /\ run[r] = "running" => q = r

\* A card that says "running" is followed: a stream of its run is open, or the
\* fallback waits for its timer or for an answer about that run.  Otherwise the card
\* would go on saying "running" when its run is over.
RunningIsFollowed ==
  \A j \in ToSet(list) : job[j].status = "running" =>
    j \in timers \/ <<j, job[j].id>> \in streams \cup asks
=============================================================================
