------------------------------- MODULE BgJobs -------------------------------
(***************************************************************************)
(* The background jobs of src/bg_jobs.py: the store bg_jobs.json, the      *)
(* detached processes, and the exit files through which a process tells    *)
(* the server how it ended.                                                *)
(*                                                                         *)
(* The server is one asyncio process and every function of bg_jobs is      *)
(* synchronous: one call at a time is in progress.  The job processes move *)
(* between any two steps of a call, so a call is cut wherever it looks at  *)
(* a file or at a process.  A crash of the server ends the call in         *)
(* progress and leaves the disk and the processes as they are.             *)
(*                                                                         *)
(* Time is counted in ticks; a call takes less than one.                   *)
(***************************************************************************)
EXTENDS Integers

CONSTANTS
  Job,            \* job ids
  NoJob,          \* no job
  Code,           \* the exit codes a command can end with
  MaxRuntime,     \* max_runtime_s in ticks
  Retention,      \* _RETENTION_S in ticks
  MaxFaults       \* bound: crashes of the server, and loads and saves of the store
                  \* that fail; a load that fails in refresh(), get() or kill()
                  \* answers "no job" and changes nothing

ASSUME JobAssumption == NoJob \notin Job
ASSUME CodeAssumption == Code \subseteq Nat /\ {0, 1} \subseteq Code
ASSUME TimeAssumption == MaxRuntime \in Nat /\ Retention \in Nat
ASSUME FaultAssumption == MaxFaults \in Nat

VARIABLES
  \* on disk
  store,        \* [Job -> Rec], bg_jobs.json
  exitFile,     \* [Job -> Missing, Empty or the code], <id>.exit
  \* the processes
  proc,         \* the wrapper shell of a job
  code,         \* [Job -> Code], what its command ended with
  reaped,       \* [Job -> BOOLEAN], the dead wrapper's pid answers no more
  since,        \* [Job -> ticks since started_at or, once ended, ended_at]
  \* the server
  call,         \* where the call in progress is, "idle" between calls
  caller,       \* whom refresh() returns to: the monitor, a tool, get()
  arg,          \* the job the call is about
  at,           \* the record refresh() is looking at
  todo,         \* the running records it has not looked at
  jobs,         \* its copy of the store
  crashes,
  readErrors,   \* loads of the store that failed
  saveErrors    \* saves of it that raised

procVars  == <<proc, code, reaped>>
callVars  == <<call, caller, arg, at, todo, jobs>>
faultVars == <<crashes, readErrors, saveErrors>>
vars      == <<store, exitFile, procVars, since, callVars, faultVars>>

Missing == -1
Empty   == -2
NoCode  == -1
Horizon == (IF MaxRuntime > Retention THEN MaxRuntime ELSE Retention) + 1

Status == {"none", "running", "done", "failed"}
Cause  == {"", "timed_out", "died", "killed"}
Rec    == [status : Status, code : Code \cup {NoCode}, cause : Cause,
           followed : BOOLEAN]

\* A job the store does not hold, and the record launch() makes.
NoRec  == [status |-> "none", code |-> NoCode, cause |-> "", followed |-> FALSE]
NewRec == [NoRec EXCEPT !.status = "running"]

Running(s)  == {j \in Job : s[j].status = "running"}
Finished(s) == {j \in Job : s[j].status \in {"done", "failed"}}

\* Mutants: the flag is not looked at; failed jobs are left out.
AllFinished(s)   == Finished(s)
SucceededOnly(s) == {j \in Job : s[j].status = "done" /\ ~s[j].followed}

\* pending_followups()
Pending(s) == {j \in Finished(s) : ~s[j].followed}

\* The record of a job that ended with code c, for the given cause.
EndedRec(rec, c, cause) ==
  [rec EXCEPT !.status = IF c = 0 THEN "done" ELSE "failed",
              !.code = c, !.cause = cause]

-----------------------------------------------------------------------------
Init ==
  /\ store = [j \in Job |-> NoRec]
  /\ exitFile = [j \in Job |-> Missing]
  /\ proc = [j \in Job |-> "none"]
  /\ code = [j \in Job |-> 0]
  /\ reaped = [j \in Job |-> FALSE]
  /\ since = [j \in Job |-> 0]
  /\ call = "idle"
  /\ caller = "none"
  /\ arg = NoJob
  /\ at = NoJob
  /\ todo = {}
  /\ jobs = [j \in Job |-> NoRec]
  /\ crashes = 0
  /\ readErrors = 0
  /\ saveErrors = 0

\* The call returns; its local variables are gone.
Return ==
  /\ call' = "idle"
  /\ caller' = "none"
  /\ arg' = NoJob
  /\ at' = NoJob
  /\ todo' = {}
  /\ jobs' = [j \in Job |-> NoRec]

Faults  == crashes + readErrors + saveErrors
MayFail == Faults < MaxFaults

\* _save() raises: atomic_write_json has not replaced the file.
SaveFails ==
  /\ MayFail
  /\ saveErrors' = saveErrors + 1
  /\ UNCHANGED <<store, since, crashes, readErrors>>

-----------------------------------------------------------------------------
(* The processes: the wrapper runs the command, then `echo $? > <id>.exit'.*)

Alive(j) == proc[j] \in {"running", "recording"}

\* SIGTERM to the process group, or any other violent death.
Terminate(j) == proc' = [proc EXCEPT ![j] = IF Alive(j) THEN "terminated" ELSE @]

\* The command ends; the redirection has created the exit file.
CommandEnds(j, c) ==
  /\ proc[j] = "running"
  /\ proc' = [proc EXCEPT ![j] = "recording"]
  /\ code' = [code EXCEPT ![j] = c]
  /\ exitFile' = [exitFile EXCEPT ![j] = Empty]
  /\ UNCHANGED <<store, reaped, since, callVars, faultVars>>

\* echo writes the code and the wrapper exits.
CodeWritten(j) ==
  /\ proc[j] = "recording"
  /\ proc' = [proc EXCEPT ![j] = "exited"]
  /\ exitFile' = [exitFile EXCEPT ![j] = code[j]]
  /\ UNCHANGED <<store, code, reaped, since, callVars, faultVars>>

\* Out of memory, a reboot, a kill by hand.
Dies(j) ==
  /\ Alive(j)
  /\ Terminate(j)
  /\ UNCHANGED <<store, exitFile, code, reaped, since, callVars, faultVars>>

\* A dead child stays a zombie, to which kill(pid, 0) succeeds, until some other
\* Popen of the server polls it, or init does once the server is gone.
Reap(j) ==
  /\ proc[j] \in {"exited", "terminated"}
  /\ ~reaped[j]
  /\ reaped' = [reaped EXCEPT ![j] = TRUE]
  /\ UNCHANGED <<store, exitFile, proc, code, since, callVars, faultVars>>

\* pid_alive()
PidAlive(j) == proc[j] # "none" /\ ~reaped[j]

-----------------------------------------------------------------------------
(* launch()                                                                *)

\* Popen.
Launch(j) ==
  /\ call = "idle"
  /\ proc[j] = "none"
  /\ proc' = [proc EXCEPT ![j] = "running"]
  /\ call' = "launch"
  /\ arg' = j
  /\ UNCHANGED <<store, exitFile, code, reaped, since, caller, at, todo, jobs, faultVars>>

\* The record is added to the store and saved.  _load() answers an empty store
\* when it cannot read the file.
Recorded(readable) ==
  /\ call = "launch"
  /\ store' = [j \in Job |-> IF j = arg THEN NewRec
                             ELSE IF readable THEN store[j] ELSE NoRec]
  /\ since' = [since EXCEPT ![arg] = 0]
  /\ readErrors' = readErrors + (IF readable THEN 0 ELSE 1)
  /\ Return
  /\ UNCHANGED <<exitFile, procVars, crashes, saveErrors>>

\* launch() raises, and the process runs on without a record.
RecordFails ==
  /\ call = "launch"
  /\ SaveFails
  /\ Return
  /\ UNCHANGED <<exitFile, procVars>>

-----------------------------------------------------------------------------
(* refresh()                                                               *)

\* It loads the store.  Its callers: the monitor's pending_followups(), a tool
\* that lists jobs or shows an output, and get(j) for the tool's action kill.
Refresh(who, j) ==
  /\ call = "idle"
  /\ call' = "scan"
  /\ caller' = who
  /\ arg' = j
  /\ todo' = Running(store)
  /\ jobs' = store
  /\ UNCHANGED <<store, exitFile, procVars, since, at, faultVars>>

\* Mutant: a job never runs out of time.
NeverExpires(j) == FALSE

Expired(j) == since[j] > MaxRuntime

\* The first exit_path.exists(), and the branch it leads to.
Look(j) ==
  /\ call = "scan"
  /\ j \in todo
  /\ todo' = todo \ {j}
  /\ at' = j
  /\ call' = IF exitFile[j] # Missing THEN "read"
             ELSE IF Expired(j) THEN "timeout" ELSE "probe"
  /\ UNCHANGED <<store, exitFile, procVars, since, caller, arg, jobs, faultVars>>

\* The record at hand is settled as rec (or left as it is).
Settle(rec) ==
  /\ jobs' = [jobs EXCEPT ![at] = rec]
  /\ at' = NoJob
  /\ call' = "scan"
  /\ UNCHANGED <<store, exitFile, since, caller, arg, todo, faultVars>>

\* Mutants: an empty file counts as success; it is taken as it is.
EmptyIsSuccess(content) == IF content = Empty THEN 0 ELSE content
EmptyIsCode(content)    == content

\* int(text.strip() or "1")
ParsedCode(content) == IF content = Empty THEN 1 ELSE content

ReadCode ==
  /\ call = "read"
  /\ Settle(EndedRec(jobs[at], ParsedCode(exitFile[at]), ""))
  /\ UNCHANGED procVars

TimeOut ==
  /\ call = "timeout"
  /\ Terminate(at)
  /\ Settle(EndedRec(jobs[at], NoCode, "timed_out"))
  /\ UNCHANGED <<code, reaped>>

\* not _pid_alive(pid)
ProbeAlive ==
  /\ call = "probe"
  /\ PidAlive(at)
  /\ Settle(jobs[at])
  /\ UNCHANGED procVars

ProbeDead ==
  /\ call = "probe"
  /\ ~PidAlive(at)
  /\ call' = "again"
  /\ UNCHANGED <<store, exitFile, procVars, since, caller, arg, at, todo, jobs, faultVars>>

\* Mutant: the exit file is not looked for a second time.
NoSecondLook ==
  /\ call = "again"
  /\ Settle(EndedRec(jobs[at], NoCode, "died"))
  /\ UNCHANGED procVars

\* and not exit_path.exists(): the wrapper may have written it since Look.
LookAgain ==
  /\ call = "again"
  /\ Settle(IF exitFile[at] = Missing
            THEN EndedRec(jobs[at], NoCode, "died") ELSE jobs[at])
  /\ UNCHANGED procVars

\* Mutant: finished jobs are pruned whether or not they were followed up.
PrunableAnyhow(j) == j \in Finished(jobs) /\ since[j] > Retention

\* _prune(): what a job just found finished ended now.
Prunable(j) ==
  /\ j \in Finished(jobs)
  /\ jobs[j].followed
  /\ since[j] > Retention

\* _prune() unlinks the files of a job as it drops its record.
Unlinked == exitFile' = [j \in Job |-> IF Prunable(j) THEN Missing ELSE exitFile[j]]

\* Every record is done: prune, save, return the store to the caller.  The tool
\* goes on to kill() when get() told it the job is running.
Refreshed ==
  LET kept == [j \in Job |-> IF Prunable(j) THEN NoRec ELSE jobs[j]]
      kill == caller = "kill" /\ kept[arg].status = "running"
  IN  /\ call = "scan"
      /\ todo = {}
      /\ store' = kept
      /\ Unlinked
      /\ since' = [j \in Job |->
                     IF j \in Running(store) /\ j \in Finished(jobs) THEN 0 ELSE since[j]]
      /\ IF kill
         THEN /\ call' = "kill"
              /\ caller' = "none"
              /\ jobs' = [j \in Job |-> NoRec]
              /\ UNCHANGED <<arg, at, todo>>
         ELSE Return
      /\ UNCHANGED <<procVars, faultVars>>

\* There is something to save and it cannot be saved: refresh() raises, and so does
\* the tool.  What it found is found again by the next; the jobs it killed are dead.
RefreshFails ==
  /\ call = "scan"
  /\ todo = {}
  /\ jobs # store \/ \E j \in Job : Prunable(j)
  /\ SaveFails
  /\ Unlinked
  /\ Return
  /\ UNCHANGED procVars

-----------------------------------------------------------------------------
(* kill(), after the tool's get(); mark_followed_up()                      *)

KillSignal ==
  /\ call = "kill"
  /\ Terminate(arg)
  /\ call' = "killed"
  /\ UNCHANGED <<store, exitFile, code, reaped, since, caller, arg, at, todo, jobs, faultVars>>

\* Mutant: the monitor is not told to leave the job alone.
KilledUnfollowed(rec) == EndedRec(rec, NoCode, "killed")

KilledRec(rec) == [EndedRec(rec, NoCode, "killed") EXCEPT !.followed = TRUE]

KillSaved ==
  /\ call = "killed"
  /\ store' = [store EXCEPT ![arg] = KilledRec(@)]
  /\ since' = [since EXCEPT ![arg] = 0]
  /\ Return
  /\ UNCHANGED <<exitFile, procVars, faultVars>>

\* kill() raises: the process is dead and its record says it runs.
KillFails ==
  /\ call = "killed"
  /\ SaveFails
  /\ Return
  /\ UNCHANGED <<exitFile, procVars>>

\* With a store it cannot read it has no record to mark, and says nothing.
MarkFollowedUp(j, readable) ==
  /\ call = "idle"
  /\ store' = IF store[j].status = "none" \/ ~readable THEN store
              ELSE [store EXCEPT ![j].followed = TRUE]
  /\ readErrors' = readErrors + (IF readable THEN 0 ELSE 1)
  /\ UNCHANGED <<exitFile, procVars, since, callVars, crashes, saveErrors>>

\* The record is there and cannot be saved.
MarkFails(j) ==
  /\ call = "idle"
  /\ store[j].status # "none"
  /\ SaveFails
  /\ UNCHANGED <<exitFile, procVars, callVars>>

\* The monitor goes on to its next job whether or not the call raises.
MonitorMarks(j) ==
  \/ MarkFollowedUp(j, TRUE)
  \/ MayFail /\ MarkFollowedUp(j, FALSE)
  \/ MarkFails(j)

-----------------------------------------------------------------------------
Tick ==
  /\ call = "idle"
  /\ \E j \in Job : store[j].status # "none" /\ since[j] < Horizon
  /\ since' = [j \in Job |-> IF store[j].status # "none" /\ since[j] < Horizon
                             THEN since[j] + 1 ELSE since[j]]
  /\ UNCHANGED <<store, exitFile, procVars, callVars, faultVars>>

\* The server dies and is started again.
Crash ==
  /\ MayFail
  /\ crashes' = crashes + 1
  /\ Return
  /\ UNCHANGED <<store, exitFile, procVars, since, readErrors, saveErrors>>

-----------------------------------------------------------------------------
ProcStep(j) ==
  \/ \E c \in Code : CommandEnds(j, c)
  \/ CodeWritten(j)
  \/ Dies(j)
  \/ Reap(j)

\* A step of a call in progress, but for those that end refresh().
CallStep ==
  \/ Recorded(TRUE)
  \/ MayFail /\ Recorded(FALSE)
  \/ RecordFails
  \/ \E j \in Job : Look(j)
  \/ ReadCode
  \/ TimeOut
  \/ ProbeAlive
  \/ ProbeDead
  \/ LookAgain
  \/ KillSignal
  \/ KillSaved
  \/ KillFails

\* The tools of an agent: a bash block marked #!bg, and manage_bg_jobs.
ToolCall ==
  \/ \E j \in Job : Launch(j)
  \/ Refresh("list", NoJob)
  \/ \E j \in Job : store[j].status # "none" /\ Refresh("kill", j)

Next ==
  \/ \E j \in Job : ProcStep(j)
  \/ CallStep
  \/ ToolCall
  \/ Refreshed
  \/ RefreshFails
  \/ Refresh("monitor", NoJob)
  \/ \E j \in Job \ Running(store) : MonitorMarks(j)
  \/ Tick
  \/ Crash

Spec == Init /\ [][Next]_vars

\* Calls run to their end, the monitor polls, time passes.  Nothing is assumed
\* of the jobs: a command may run, and a dead wrapper stay a zombie, for ever.
Fairness ==
  /\ WF_vars(CallStep)
  /\ WF_vars(Refreshed)
  /\ SF_vars(Refresh("monitor", NoJob))
  /\ SF_vars(Tick)

FairSpec == Spec /\ Fairness

-----------------------------------------------------------------------------
(* Properties.                                                             *)

TypeOK ==
  /\ store \in [Job -> Rec]
  /\ exitFile \in [Job -> Code \cup {Missing, Empty}]
  /\ proc \in [Job -> {"none", "running", "recording", "exited", "terminated"}]
  /\ code \in [Job -> Code]
  /\ reaped \in [Job -> BOOLEAN]
  /\ since \in [Job -> 0..Horizon]
  /\ call \in {"idle", "launch", "scan", "read", "timeout", "probe", "again", "kill", "killed"}
  /\ caller \in {"none", "monitor", "list", "kill"}
  /\ arg \in Job \cup {NoJob}
  /\ at \in Job \cup {NoJob}
  /\ todo \subseteq Job
  /\ jobs \in [Job -> Rec]
  /\ crashes \in Nat /\ readErrors \in Nat /\ saveErrors \in Nat
  /\ Faults <= MaxFaults

\* A job reported as died left no exit code: a wrapper that writes it and is
\* reaped between the two checks of refresh() is not written off.
DiedLeftNoCode ==
  \A j \in Job : store[j].cause = "died" => proc[j] = "terminated"

\* Success is never reported of a command that failed or was cut short,
\* whatever moment the exit file is read at.
SuccessIsReal ==
  \A j \in Job : store[j].status = "done" => proc[j] = "exited" /\ code[j] = 0

\* Once a record says how its job ended it keeps saying so, while the store can
\* be read: calls that work on a copy of the store only add followed_up, and only
\* a followed up record goes.
VerdictIsFinal ==
  [][ readErrors' = readErrors =>
      \A j \in Finished(store) :
        \/ store'[j] \in {store[j], [store[j] EXCEPT !.followed = TRUE]}
        \/ store[j].followed /\ store'[j] = NoRec ]_vars

\* A job on record does not stay "running" for ever, though its process hangs,
\* or died and is still a zombie ("so nothing hangs forever").
EveryJobSettles ==
  \A j \in Job : (store[j].status = "running") ~> (store[j].status # "running")

=============================================================================
