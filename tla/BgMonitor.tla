------------------------------ MODULE BgMonitor ------------------------------
(***************************************************************************)
(* The monitor of src/bg_monitor.py on top of BgJobs: it polls for         *)
(* finished jobs and re-invokes the agent, once per job, in the session    *)
(* that launched it.                                                       *)
(*                                                                         *)
(* The monitor is one task; it is suspended while it sleeps and while the  *)
(* agent runs.  A session is what the monitor sees of it: deleted or not,  *)
(* in a live turn or not, and the continuations saved to its history.      *)
(***************************************************************************)
EXTENDS BgJobs

CONSTANTS
  Session,     \* session ids
  SessionOf,   \* [Job -> Session], the session that launches a job
  MaxTurns     \* bound: live turns

ASSUME SessionAssumption == SessionOf \in [Job -> Session]
ASSUME TurnAssumption == MaxTurns \in Nat

VARIABLES
  mon,         \* where _loop is suspended, or "marking": past add_message
  work,        \* what is left of the list pending_followups() returned
  follow,      \* the job _run_followup is about
  deleted,     \* the sessions that were deleted
  busy,        \* those agent_runs.is_active() is true of
  turns,       \* live turns so far
  said         \* [Job -> how many continuations its session was given]

monVars     == <<mon, work, follow>>
sessionVars == <<deleted, busy, turns, said>>
bgVars      == vars
monitorVars == <<bgVars, monVars, sessionVars>>

MonInit ==
  /\ Init
  /\ mon = "asleep"
  /\ work = {}
  /\ follow = NoJob
  /\ deleted = {}
  /\ busy = {}
  /\ turns = 0
  /\ said = [j \in Job |-> 0]

\* No synchronous stretch of code is under way.
ServerFree == call = "idle" /\ mon # "marking"

-----------------------------------------------------------------------------
(* _loop()                                                                 *)

\* pending_followups() begins with refresh() ...
Poll ==
  /\ mon = "asleep"
  /\ Refresh("monitor", NoJob)
  /\ mon' = "polling"
  /\ UNCHANGED <<work, follow, sessionVars>>

\* ... and returns the finished jobs nobody was told of.
Polled ==
  /\ mon = "polling"
  /\ Refreshed
  /\ work' = Pending(store')
  /\ mon' = "next"
  /\ UNCHANGED <<follow, sessionVars>>

\* refresh() raises: the outer except, and sleep.
PollFails ==
  /\ mon = "polling"
  /\ RefreshFails
  /\ mon' = "asleep"
  /\ UNCHANGED <<work, follow, sessionVars>>

Sleep ==
  /\ mon = "next"
  /\ work = {}
  /\ mon' = "asleep"
  /\ UNCHANGED <<bgVars, work, follow, sessionVars>>

-----------------------------------------------------------------------------
(* _run_followup()                                                         *)

Deleted(j) == SessionOf[j] \in deleted
Busy(j)    == SessionOf[j] \in busy

\* The job stays pending: the next poll lists it again.
Retry(j) ==
  /\ mon' = "next"
  /\ work' = work \ {j}
  /\ follow' = NoJob
  /\ UNCHANGED <<bgVars, sessionVars>>

\* get_session() raises KeyError for a deleted session; a live turn makes
\* _run_followup return False.
Skip(j) ==
  /\ ServerFree
  /\ mon = "next"
  /\ j \in work
  /\ Deleted(j) \/ Busy(j)
  /\ Retry(j)

\* The agent is started on the history and the job's output.
Continue(j) ==
  /\ ServerFree
  /\ mon = "next"
  /\ j \in work
  /\ ~Deleted(j)
  /\ ~Busy(j)
  /\ mon' = "agent"
  /\ follow' = j
  /\ UNCHANGED <<bgVars, work, sessionVars>>

\* Mutant: a failed follow-up is marked as done.
FailedIsMarked ==
  /\ ServerFree
  /\ mon = "agent"
  /\ mon' = "marking"
  /\ UNCHANGED <<bgVars, work, follow, sessionVars>>

\* stream_agent_loop raises, or add_message does: the session is gone.
AgentFails ==
  /\ ServerFree
  /\ mon = "agent"
  /\ Retry(follow)

\* stream_agent_loop ends and add_message saves what it said.  When the model
\* could not be reached it does not raise: it says that the model returned an
\* empty response, and the monitor takes that for the continuation.
AgentEnds ==
  /\ ServerFree
  /\ mon = "agent"
  /\ ~Deleted(follow)
  /\ said' = [said EXCEPT ![follow] = @ + 1]
  /\ mon' = "marking"
  /\ UNCHANGED <<bgVars, work, follow, deleted, busy, turns>>

\* mark_followed_up().  When it raises, the continuation is saved and the job is
\* still pending.
Mark ==
  /\ mon = "marking"
  /\ MonitorMarks(follow)
  /\ mon' = "next"
  /\ work' = work \ {follow}
  /\ follow' = NoJob
  /\ UNCHANGED sessionVars

-----------------------------------------------------------------------------
(* The rest of the server.                                                 *)

TurnStarts(s) ==
  /\ ServerFree
  /\ turns < MaxTurns
  /\ s \notin busy
  /\ busy' = busy \cup {s}
  /\ turns' = turns + 1
  /\ UNCHANGED <<bgVars, monVars, deleted, said>>

TurnEnds(s) ==
  /\ ServerFree
  /\ s \in busy
  /\ busy' = busy \ {s}
  /\ UNCHANGED <<bgVars, monVars, deleted, turns, said>>

DeleteSession(s) ==
  /\ ServerFree
  /\ s \notin deleted
  /\ deleted' = deleted \cup {s}
  /\ UNCHANGED <<bgVars, monVars, busy, turns, said>>

\* Steps of BgJobs that the monitor has no part in.
JobsStep ==
  /\ \/ \E j \in Job : ProcStep(j)
     \/ CallStep
     \/ mon # "marking" /\ ToolCall
     \/ mon # "polling" /\ (Refreshed \/ RefreshFails)
     \/ mon # "marking" /\ Tick
  /\ UNCHANGED <<monVars, sessionVars>>

\* The detached runs die with the server.
ServerCrash ==
  /\ Crash
  /\ mon' = "asleep"
  /\ work' = {}
  /\ follow' = NoJob
  /\ busy' = {}
  /\ UNCHANGED <<deleted, turns, said>>

MonStep ==
  \/ Poll
  \/ Polled
  \/ PollFails
  \/ Sleep
  \/ \E j \in Job : Skip(j) \/ Continue(j)
  \/ AgentFails
  \/ AgentEnds
  \/ Mark

MonNext ==
  \/ JobsStep
  \/ MonStep
  \/ \E s \in Session : TurnStarts(s) \/ TurnEnds(s) \/ DeleteSession(s)
  \/ ServerCrash

MonSpec == MonInit /\ [][MonNext]_monitorVars

\* Calls run to their end, the monitor's task is scheduled, time passes, turns
\* end, and an agent tried for ever gets through its loop at some point.
MonFairness ==
  /\ WF_monitorVars(CallStep /\ UNCHANGED <<monVars, sessionVars>>)
  /\ WF_monitorVars(Refreshed /\ mon # "polling" /\ UNCHANGED <<monVars, sessionVars>>)
  /\ SF_monitorVars(Tick /\ UNCHANGED <<monVars, sessionVars>>)
  /\ SF_monitorVars(Poll)
  /\ WF_monitorVars(Polled)
  /\ WF_monitorVars(Sleep)
  /\ WF_monitorVars(Mark)
  /\ \A j \in Job : SF_monitorVars(Skip(j)) /\ SF_monitorVars(Continue(j))
  /\ \A j \in Job : SF_monitorVars(follow = j /\ AgentEnds)
  /\ SF_monitorVars(AgentFails /\ Deleted(follow))
  /\ \A s \in Session : SF_monitorVars(TurnEnds(s))

MonFairSpec == MonSpec /\ MonFairness

-----------------------------------------------------------------------------
(* Properties.                                                             *)

MonTypeOK ==
  /\ TypeOK
  /\ mon \in {"asleep", "polling", "next", "agent", "marking"}
  /\ work \subseteq Job
  /\ follow \in Job \cup {NoJob}
  /\ deleted \subseteq Session
  /\ busy \subseteq Session
  /\ turns \in 0..MaxTurns
  /\ said \in [Job -> Nat]

\* The flag that stops the retries is set only once the session has been given
\* a continuation, or the agent itself killed the job.
FollowedUpWasSaid ==
  \A j \in Job : store[j].followed =>
    said[j] > 0 \/ store[j].cause = "killed"

\* A job its agent deliberately stopped is never continued.
StoppedJobIsLeftAlone ==
  \A j \in Job : store[j].cause = "killed" => said[j] = 0

\* However polls, retries and tools interleave, a job is continued once; only a
\* crash between saving the continuation and marking the job, or a store that
\* cannot be read or cannot be saved to mark it, repeats it, once for each.
RepeatedByFaultOnly ==
  \A j \in Job : said[j] <= 1 + Faults

\* Only a listed, finished, still pending job is followed up: nothing the agent,
\* a tool or a prune does while the monitor is suspended takes it back, short of a
\* launch that finds the store unreadable and saves it without the others.
WorkIsPending ==
  readErrors = 0 => \A j \in work : j \in Pending(store)

\* A finished job of a session that lives on is followed up at last: failed,
\* timed out and dead jobs too, after transient failures, busy sessions, crashes.
FollowUpArrives ==
  \A j \in Job :
    (j \in Finished(store) /\ ~store[j].followed) ~> (store[j].followed \/ Deleted(j))

-----------------------------------------------------------------------------
(* What the comments promise and the code does not keep.                   *)

\* bg_monitor.py:87-88: "Session was deleted - nothing to continue. Consider it
\* handled so we don't retry forever."
DeletedSessionIsHandled ==
  \A j \in Job : (j \in Pending(store) /\ Deleted(j)) ~> store[j].followed
=============================================================================
