--------------------------- MODULE BgMonitorProofs ---------------------------
(***************************************************************************)
(* That the monitor only uses the jobs as BgJobs allows, and what it does  *)
(* for a session, for any jobs, sessions, faults and turns.                *)
(*                                                                         *)
(* The monitor is suspended for as long as an agent runs, and holds a list *)
(* of jobs it made before: MInv says what still holds of a listed job when *)
(* the monitor comes to it (WorkOK), what a record that is not followed up *)
(* any more is owed to (Told), and how many continuations a job that may   *)
(* still be followed up can have had (Budget).  It stands on IInv, the     *)
(* invariant of the jobs themselves.                                       *)
(***************************************************************************)
EXTENDS BgMonitor, BgJobsProofs

WhereOK ==
  /\ mon = "polling" => call \in Scanning
  /\ mon = "marking" => call = "idle" /\ said[follow] > 0
  /\ mon \in {"agent", "marking"} => follow \in work

\* Launched, and not on record yet.
Launching(j) == call = "launch" /\ arg = j

\* A listed job is pending still, or its record was lost in a store that could
\* not be read; it does not come back.
WorkOK ==
  \A j \in work :
    /\ j \in Pending(store) \/ store[j] = NoRec
    /\ readErrors = 0 => j \in Pending(store)
    /\ proc[j] # "none" /\ ~Launching(j)

SaidOf(rec, j) ==
  /\ rec.status \in {"none", "running"} => ~rec.followed /\ rec.cause # "killed"
  /\ rec.followed => said[j] > 0 \/ rec.cause = "killed"
  /\ rec.cause = "killed" => rec.followed /\ said[j] = 0

Told == \A j \in Job : SaidOf(store[j], j) /\ SaidOf(jobs[j], j)

\* Nothing is said of a job that has not ended.
Unsaid ==
  \A j \in Job :
    said[j] > 0 => proc[j] # "none" /\ ~Launching(j) /\ store[j].status # "running"

Budget ==
  \A j \in Job :
    /\ said[j] <= 1 + Faults
    /\ j \in work \cup Pending(store) =>
         said[j] <= Faults \/ (mon = "marking" /\ follow = j)

MonTypes ==
  /\ mon \in {"asleep", "polling", "next", "agent", "marking"}
  /\ work \subseteq Job
  /\ follow \in Job \cup {NoJob}
  /\ deleted \subseteq Session
  /\ busy \subseteq Session
  /\ turns \in 0..MaxTurns
  /\ said \in [Job -> Nat]

Followed == WorkOK /\ Told /\ Unsaid /\ Budget

MInv == IInv /\ MonTypes /\ WhereOK /\ Followed

USE JobAssumption, CodeAssumption, TimeAssumption, FaultAssumption,
    SessionAssumption, TurnAssumption

-----------------------------------------------------------------------------
(* The state of the jobs and of the monitor.                               *)

\* What IInv says of the records, in the form the steps below need it.
LEMMA Records ==
  ASSUME IInv, NEW j \in Job
  PROVE  /\ store[j] \in Rec /\ jobs[j] \in Rec
         /\ store[j].status \in Status /\ jobs[j].status \in Status
         /\ store[j].followed \in BOOLEAN /\ jobs[j].followed \in BOOLEAN
         /\ Faults \in Nat /\ readErrors \in Nat
<1>1. store[j] \in Rec /\ jobs[j] \in Rec /\ Faults \in Nat /\ readErrors \in Nat
  BY DEF IInv, TypeOK, Faults
<1>. QED  BY <1>1, StatusOf

LEMMA PendingRecords ==
  ASSUME NEW s, NEW j
  PROVE  j \in Pending(s) <=> j \in Job /\ s[j].status \in {"done", "failed"} /\ ~s[j].followed
  BY DEF Pending, Finished

LEMMA NothingSaidOfNoRec ==
  ASSUME NEW j PROVE SaidOf(NoRec, j) /\ SaidOf(NewRec, j)
  BY NewRecords DEF SaidOf

LEMMA MonInitMInv == MonInit => MInv
<1>. SUFFICES ASSUME MonInit PROVE MInv
  OBVIOUS
<1>1. IInv
  BY InitIInv DEF MonInit
<1>2. MonTypes /\ WhereOK
  BY DEF MonInit, MonTypes, WhereOK
<1>3. \A j \in Job : store[j] = NoRec /\ jobs[j] = NoRec /\ said[j] = 0
  BY DEF MonInit, Init
<1>4. work = {} /\ readErrors = 0 /\ Faults = 0
  BY DEF MonInit, Init, Faults
<1>5. Told
  BY <1>3, NothingSaidOfNoRec DEF Told
<1>6. WorkOK /\ Unsaid
  BY <1>3, <1>4 DEF WorkOK, Unsaid
<1>7. Budget
  <2>1. \A j \in Job : said[j] <= 1 + Faults /\ said[j] <= Faults
    <3>1. 0 <= 1 + 0 /\ 0 <= 0
      OBVIOUS
    <3>. QED  BY <1>3, <1>4, <3>1, Zenon
  <2>. QED  BY <2>1 DEF Budget
<1>. QED  BY <1>1, <1>2, <1>5, <1>6, <1>7 DEF MInv, Followed

\* A step that leaves the store and the sessions' histories alone, takes no job
\* on the list and does not launch one keeps what is known of them.
LEMMA Quiet ==
  ASSUME MInv,
         UNCHANGED <<store, said, readErrors>>,
         Faults' \in {Faults, Faults + 1},
         work' \subseteq work,
         mon = "marking" => mon' = "marking" /\ follow' = follow,
         \A j \in Job : proc[j] # "none" => proc'[j] # "none",
         call' = "launch" => call = "launch" /\ arg' = arg,
         \A j \in Job : SaidOf(jobs'[j], j)
  PROVE  Followed'
<1>. USE DEF MInv, Followed
<1>0. work \subseteq Job /\ said \in [Job -> Nat] /\ Faults \in Nat
  BY DEF MonTypes, IInv, TypeOK, Faults
<1>1. \A j : Launching(j)' => Launching(j)
  BY DEF Launching
<1>2. WorkOK'
  BY <1>0, <1>1 DEF WorkOK, Pending, Finished
<1>3. Told'
  BY DEF Told, SaidOf
<1>4. Unsaid'
  BY <1>1 DEF Unsaid
<1>5. Budget'
  <2>. SUFFICES ASSUME NEW j \in Job PROVE Budget!(j)'
    BY DEF Budget
  <2>1. j \in work' \cup Pending(store') => j \in work \cup Pending(store)
    OBVIOUS
  <2>. QED  BY <1>0, <2>1 DEF Budget
<1>. QED  BY <1>2, <1>3, <1>4, <1>5

\* The copy of the store, after one running record of it was settled.
LEMMA SettledCopy ==
  ASSUME IInv, Told, at \in Running(jobs),
         NEW rec,
         rec = jobs[at] \/ (~rec.followed /\ rec.cause # "killed"),
         jobs' = [jobs EXCEPT ![at] = rec]
  PROVE  \A j \in Job : SaidOf(jobs'[j], j)
<1>. TAKE j \in Job
<1>1. jobs'[j] = IF j = at THEN rec ELSE jobs[j]
  BY DEF IInv, TypeOK
<1>. QED  BY <1>1 DEF Told, SaidOf

LEMMA EndedCopies ==
  ASSUME IInv, Told, at \in Running(jobs), NEW c, NEW cause
  PROVE  /\ ~EndedRec(jobs[at], c, cause).followed
         /\ EndedRec(jobs[at], c, cause).cause = cause
<1>1. jobs[at] \in Rec /\ ~jobs[at].followed
  BY DEF IInv, TypeOK, Told, SaidOf, Running
<1>. QED  BY <1>1 DEF EndedRec, Rec

-----------------------------------------------------------------------------
(* The steps of the jobs.                                                  *)

\* The monitor stands still.
Waiting == UNCHANGED <<monVars, sessionVars>>

LEMMA ProcStepsFollow ==
  ASSUME MInv, NEW j \in Job, ProcStep(j), Waiting
  PROVE  WhereOK' /\ Followed'
<1>1. \A i \in Job : proc[i] # "none" => proc'[i] # "none"
  BY DEF MInv, IInv, TypeOK, ProcStep, CommandEnds, CodeWritten, Dies, Reap, Terminate, Alive
<1>2. UNCHANGED <<store, call, arg, jobs, readErrors, Faults>>
  BY DEF ProcStep, CommandEnds, CodeWritten, Dies, Reap, callVars, faultVars, Faults
<1>3. WhereOK'
  BY <1>2 DEF MInv, WhereOK, Waiting, monVars, sessionVars, Scanning, Looking
<1>4. \A i \in Job : SaidOf(jobs'[i], i)
  BY <1>2 DEF MInv, Followed, Told
<1>. QED  BY <1>1, <1>2, <1>3, <1>4, Quiet DEF Waiting, monVars, sessionVars

\* The steps of refresh() between its load and its save.
LEMMA ScanStepsFollow ==
  ASSUME MInv, Waiting,
         \/ \E j \in Job : Look(j)
         \/ ReadCode \/ TimeOut \/ ProbeAlive \/ ProbeDead \/ LookAgain
  PROVE  WhereOK' /\ Followed'
<1>. IInv /\ Told
  BY DEF MInv, Followed
<1>1. \A i \in Job : proc[i] # "none" => proc'[i] # "none"
  BY DEF IInv, TypeOK, Look, ReadCode, TimeOut, ProbeAlive, ProbeDead, LookAgain, procVars,
         Terminate, Alive
<1>2. /\ UNCHANGED <<store, readErrors, Faults>>
      /\ call \in Scanning /\ call' \in Scanning
  BY DEF Look, ReadCode, TimeOut, ProbeAlive, ProbeDead, LookAgain, Settle, faultVars, Faults,
         Scanning, Looking
<1>3. WhereOK'
  BY <1>2 DEF MInv, WhereOK, Waiting, monVars, sessionVars, Scanning, Looking
<1>4. \A i \in Job : SaidOf(jobs'[i], i)
  <2>1. CASE UNCHANGED jobs
    BY <2>1 DEF Told
  <2>2. ASSUME ReadCode \/ TimeOut \/ ProbeAlive \/ LookAgain
        PROVE  \A i \in Job : SaidOf(jobs'[i], i)
    <3>1. at \in Running(jobs)
      BY <2>2 DEF ReadCode, TimeOut, ProbeAlive, LookAgain, IInv, CallOK, Looking
    <3>2. CASE ReadCode
      BY <3>1, <3>2, EndedCopies, SettledCopy DEF ReadCode, Settle
    <3>3. CASE TimeOut
      BY <3>1, <3>3, EndedCopies, SettledCopy DEF TimeOut, Settle
    <3>4. CASE ProbeAlive
      BY <3>1, <3>4, SettledCopy DEF ProbeAlive, Settle
    <3>5. CASE LookAgain
      <4>. DEFINE rec == IF exitFile[at] = Missing
                         THEN EndedRec(jobs[at], NoCode, "died") ELSE jobs[at]
      <4>1. jobs' = [jobs EXCEPT ![at] = rec]
        BY <3>5 DEF LookAgain, Settle
      <4>2. rec = jobs[at] \/ (~rec.followed /\ rec.cause # "killed")
        BY <3>1, EndedCopies
      <4>. HIDE DEF rec
      <4>. QED  BY <3>1, <4>1, <4>2, SettledCopy
    <3>. QED  BY <2>2, <3>2, <3>3, <3>4, <3>5
  <2>. QED  BY <2>1, <2>2 DEF Look, ProbeDead
<1>. QED  BY <1>1, <1>2, <1>3, <1>4, Quiet DEF Waiting, monVars, sessionVars, Scanning, Looking

LEMMA KillSignalFollows ==
  ASSUME MInv, Waiting, KillSignal
  PROVE  WhereOK' /\ Followed'
<1>1. \A i \in Job : proc[i] # "none" => proc'[i] # "none"
  BY DEF MInv, IInv, TypeOK, KillSignal, Terminate, Alive
<1>2. UNCHANGED <<store, jobs, readErrors, Faults>> /\ call = "kill" /\ call' = "killed"
  BY DEF KillSignal, faultVars, Faults
<1>3. WhereOK'
  BY <1>2 DEF MInv, WhereOK, Waiting, monVars, sessionVars, Scanning, Looking
<1>4. \A i \in Job : SaidOf(jobs'[i], i)
  BY <1>2 DEF MInv, Followed, Told
<1>. QED  BY <1>1, <1>2, <1>3, <1>4, Quiet DEF Waiting, monVars, sessionVars

LEMMA TickFollows ==
  ASSUME MInv, Waiting, Tick
  PROVE  WhereOK' /\ Followed'
<1>1. UNCHANGED <<store, proc, call, arg, jobs, readErrors, Faults>>
  BY DEF Tick, procVars, callVars, faultVars, Faults
<1>2. WhereOK'
  BY <1>1 DEF MInv, WhereOK, Waiting, monVars, sessionVars, Scanning, Looking
<1>3. \A i \in Job : SaidOf(jobs'[i], i)
  BY <1>1 DEF MInv, Followed, Told
<1>. QED  BY <1>1, <1>2, <1>3, Quiet DEF Waiting, monVars, sessionVars

\* refresh() takes its copy: the monitor's call (it starts to poll) or a tool's.
LEMMA RefreshFollows ==
  ASSUME MInv, NEW who, NEW j, Refresh(who, j), mon # "marking",
         UNCHANGED <<work, follow, said>>, mon' \in {mon, "polling"}
  PROVE  WhereOK' /\ Followed'
<1>1. UNCHANGED <<store, proc, readErrors, Faults>> /\ call' = "scan" /\ jobs' = store
  BY DEF Refresh, procVars, faultVars, Faults
<1>2. WhereOK'
  BY <1>1 DEF MInv, WhereOK, Scanning, Looking
<1>3. \A i \in Job : SaidOf(jobs'[i], i)
  BY <1>1 DEF MInv, Followed, Told
<1>. QED  BY <1>1, <1>2, <1>3, Quiet

\* A job that is launched was never on the list: its process is new.
LEMMA LaunchFollows ==
  ASSUME MInv, Waiting, NEW j \in Job, Launch(j), mon # "marking"
  PROVE  WhereOK' /\ Followed'
<1>. USE DEF MInv, Followed
<1>1. /\ UNCHANGED <<store, jobs, readErrors, Faults, mon, work, follow, said>>
      /\ call = "idle" /\ call' = "launch" /\ arg' = j /\ proc[j] = "none"
      /\ proc' = [proc EXCEPT ![j] = "running"]
  BY DEF Launch, faultVars, Faults, Waiting, monVars, sessionVars
<1>2. \A i \in Job : (proc[i] # "none" => proc'[i] # "none" /\ i # j)
  BY <1>1 DEF IInv, TypeOK
<1>3. work \subseteq Job
  BY DEF MonTypes
<1>4. WhereOK'
  BY <1>1 DEF WhereOK, Scanning, Looking
<1>5. WorkOK'
  BY <1>1, <1>2, <1>3 DEF WorkOK, Launching, Pending, Finished
<1>6. Told'
  BY <1>1 DEF Told, SaidOf
<1>7. Unsaid'
  BY <1>1, <1>2 DEF Unsaid, Launching
<1>8. Budget'
  BY <1>1 DEF Budget, Pending, Finished
<1>. QED  BY <1>4, <1>5, <1>6, <1>7, <1>8

\* launch() saves the record of arg, and with a store it cannot read that of no
\* other job.
LEMMA RecordedFollows ==
  ASSUME MInv, Waiting, NEW readable \in BOOLEAN, Recorded(readable)
  PROVE  WhereOK' /\ Followed'
<1>. USE DEF MInv, Followed
<1>1. /\ UNCHANGED <<proc, mon, work, follow, said>>
      /\ call = "launch" /\ call' = "idle"
      /\ readErrors' = readErrors + (IF readable THEN 0 ELSE 1)
      /\ Faults' = Faults + (IF readable THEN 0 ELSE 1)
      /\ \A j \in Job : jobs'[j] = NoRec
  BY DEF Recorded, Return, Faults, procVars, IInv, TypeOK, Waiting, monVars, sessionVars
<1>2. \A j \in Job : store'[j] \in {store[j], NoRec} \/ (j = arg /\ store'[j] = NewRec)
  BY DEF Recorded
<1>3. \A j \in Job : readable /\ j # arg => store'[j] = store[j]
  BY DEF Recorded
<1>4. work \subseteq Job /\ said \in [Job -> Nat] /\ readErrors \in Nat /\ Faults \in Nat
  BY DEF MonTypes, IInv, TypeOK, Faults
<1>5. \A j \in Job : j \in Pending(store') => j \in Pending(store)
  BY <1>2, NewRecords, PendingRecords
<1>6. WhereOK'
  BY <1>1 DEF WhereOK, Scanning, Looking
<1>7. WorkOK'
  <2>. SUFFICES ASSUME NEW j \in work PROVE WorkOK!(j)'
    BY <1>1 DEF WorkOK
  <2>1. j \in Job /\ j # arg /\ proc'[j] # "none"
    BY <1>1, <1>4 DEF WorkOK, Launching
  <2>2. store'[j] \in {store[j], NoRec} /\ (readErrors' = 0 => store'[j] = store[j])
    BY <1>1, <1>2, <1>3, <1>4, <2>1
  <2>3. j \in Pending(store) \/ store[j] = NoRec
    BY DEF WorkOK
  <2>4. readErrors' = 0 => j \in Pending(store)
    BY <1>1, <1>4 DEF WorkOK
  <2>. QED  BY <1>1, <2>1, <2>2, <2>3, <2>4, PendingRecords DEF Launching
<1>8. Told'
  BY <1>1, <1>2, NothingSaidOfNoRec DEF Told, SaidOf
<1>9. Unsaid'
  <2>1. \A j \in Job : store'[j].status = "running" => store[j].status = "running" \/ Launching(j)
    BY <1>1, <1>2, NewRecords DEF Launching
  <2>. QED  BY <1>1, <2>1 DEF Unsaid, Launching
<1>10. Budget'
  BY <1>1, <1>4, <1>5 DEF Budget
<1>. QED  BY <1>6, <1>7, <1>8, <1>9, <1>10

\* refresh() saves its copy: records that were running may have ended, others are
\* as they were, but for those that were followed up long ago.
LEMMA SavedCopy ==
  ASSUME IInv, Told, Refreshed, NEW j \in Job
  PROVE  /\ store'[j] \in {jobs[j], NoRec}
         /\ store[j].status # "running" => jobs[j] = store[j]
         /\ j \in Pending(store) => j \in Pending(store')
         /\ j \in Pending(store') => j \in Pending(store) \/ store[j].status = "running"
         /\ store[j] = NoRec => store'[j] = NoRec
         /\ store'[j].status = "running" => store[j].status = "running"
         /\ jobs'[j] = NoRec
<1>1. store'[j] = IF Prunable(j) THEN NoRec ELSE jobs[j]
  BY DEF Refreshed
<1>2. store[j].status # "running" => jobs[j] = store[j]
  BY DEF Refreshed, IInv, CallOK, Scanning, Running
<1>3. jobs'[j] = NoRec
  BY DEF Refreshed, Return
<1>4. Prunable(j) => jobs[j].followed
  BY DEF Prunable
<1>5. store'[j] \in {jobs[j], NoRec}
  BY <1>1
<1>6. j \in Pending(store) => j \in Pending(store')
  BY <1>1, <1>2, <1>4, PendingRecords
<1>7. j \in Pending(store') => j \in Pending(store) \/ store[j].status = "running"
  BY <1>2, <1>5, NewRecords, PendingRecords
<1>8. store[j] = NoRec => store'[j] = NoRec
  BY <1>2, <1>5, NewRecords
<1>9. store'[j].status = "running" => store[j].status = "running"
  BY <1>2, <1>5, NewRecords
<1>. QED  BY <1>2, <1>3, <1>5, <1>6, <1>7, <1>8, <1>9

LEMMA RefreshedFollows ==
  ASSUME MInv, Refreshed, UNCHANGED <<follow, said>>,
         \/ mon # "polling" /\ mon' = mon /\ work' = work
         \/ mon = "polling" /\ mon' = "next" /\ work' = Pending(store')
  PROVE  WhereOK' /\ Followed'
<1>. USE DEF MInv, Followed
<1>1. UNCHANGED <<proc, readErrors, Faults>> /\ call = "scan" /\ call' \in {"idle", "kill"}
  BY DEF Refreshed, Return, procVars, faultVars, Faults
<1>2. mon # "marking" /\ mon' # "marking"
  BY <1>1 DEF WhereOK
<1>3. WhereOK'
  BY <1>1, <1>2 DEF WhereOK
<1>4. \A j \in work' : (j \in work /\ work' = work) \/ j \in Pending(store')
  OBVIOUS
<1>5. work \subseteq Job /\ Pending(store') \subseteq Job
  BY DEF MonTypes, Pending, Finished
<1>6. WorkOK'
  <2>. SUFFICES ASSUME NEW j \in work' PROVE WorkOK!(j)'
    BY DEF WorkOK
  <2>1. ~Launching(j)'
    BY <1>1 DEF Launching
  <2>2. CASE j \in work
    <3>1. j \in Pending(store') \/ store'[j] = NoRec
      BY <1>5, <2>2, SavedCopy DEF WorkOK
    <3>2. readErrors' = 0 => j \in Pending(store')
      BY <1>1, <1>5, <2>2, SavedCopy DEF WorkOK
    <3>3. proc'[j] # "none"
      BY <1>1, <2>2 DEF WorkOK
    <3>. QED  BY <2>1, <3>1, <3>2, <3>3
  <2>3. CASE j \in Pending(store')
    <3>1. j \in Job /\ store[j].status # "none"
      <4>1. j \in Pending(store) \/ store[j].status = "running"
        BY <1>5, <2>3, SavedCopy
      <4>. QED  BY <1>5, <2>3, <4>1, PendingRecords
    <3>2. proc'[j] # "none"
      BY <1>1, <3>1 DEF IInv, ProcOK
    <3>. QED  BY <2>1, <2>3, <3>2
  <2>. QED  BY <1>4, <2>2, <2>3
<1>7. Told'
  BY SavedCopy, NothingSaidOfNoRec DEF Told, SaidOf
<1>8. Unsaid'
  BY <1>1, SavedCopy DEF Unsaid, Launching
<1>9. Budget'
  <2>. SUFFICES ASSUME NEW j \in Job PROVE Budget!(j)'
    BY DEF Budget
  <2>1. said \in [Job -> Nat] /\ Faults \in Nat /\ readErrors \in Nat
    BY DEF MonTypes, IInv, TypeOK, Faults
  <2>2. store[j].status = "running" => said[j] = 0
    BY <2>1 DEF Unsaid
  <2>3. j \in work' \cup Pending(store') =>
          j \in work \cup Pending(store) \/ store[j].status = "running"
    BY SavedCopy
  <2>4. j \in work' \cup Pending(store') => said[j] <= Faults
    BY <1>2, <2>1, <2>2, <2>3 DEF Budget
  <2>. QED  BY <1>1, <2>4 DEF Budget
<1>. QED  BY <1>3, <1>6, <1>7, <1>8, <1>9

\* kill() only ends a job that is on record as running: none of the list.
LEMMA KillSavedFollows ==
  ASSUME MInv, Waiting, KillSaved
  PROVE  WhereOK' /\ Followed'
<1>. USE DEF MInv, Followed
<1>1. /\ UNCHANGED <<proc, readErrors, Faults, mon, work, follow, said>>
      /\ call = "killed" /\ call' = "idle"
      /\ \A j \in Job : jobs'[j] = NoRec
  BY DEF KillSaved, Return, procVars, faultVars, Faults, Waiting, monVars, sessionVars
<1>2. arg \in Job /\ store[arg].status = "running" /\ store[arg] \in Rec
  BY DEF KillSaved, IInv, CallOK, TypeOK
<1>. DEFINE k == KilledRec(store[arg])
<1>3. k.status = "failed" /\ k.cause = "killed" /\ k.followed
  BY <1>2, KilledRecords
<1>4. \A j \in Job : store'[j] = IF j = arg THEN k ELSE store[j]
  BY <1>2 DEF KillSaved, IInv, TypeOK
<1>. HIDE DEF k
<1>5. work \subseteq Job /\ said \in [Job -> Nat]
  BY DEF MonTypes
<1>6. arg \notin work /\ said[arg] = 0
  <2>1. arg \notin Pending(store) /\ store[arg] # NoRec
    BY <1>2, NewRecords, PendingRecords
  <2>2. said[arg] \in Nat /\ ~(said[arg] > 0)
    BY <1>2, <1>5 DEF Unsaid
  <2>. QED  BY <2>1, <2>2 DEF WorkOK
<1>7. \A j \in Job : j \in Pending(store') <=> j # arg /\ j \in Pending(store)
  BY <1>2, <1>3, <1>4, PendingRecords
<1>8. WhereOK'
  BY <1>1 DEF WhereOK, Scanning, Looking
<1>9. WorkOK'
  BY <1>1, <1>4, <1>5, <1>6, <1>7 DEF WorkOK, Launching
<1>10. Told'
  BY <1>1, <1>3, <1>4, <1>6, NothingSaidOfNoRec DEF Told, SaidOf
<1>11. Unsaid'
  BY <1>1, <1>3, <1>4 DEF Unsaid, Launching
<1>12. Budget'
  BY <1>1, <1>7 DEF Budget
<1>. QED  BY <1>8, <1>9, <1>10, <1>11, <1>12

\* A save that raises ends the call; the store is as it was.
LEMMA SaveFailsFollows ==
  ASSUME MInv, call # "idle", SaveFails, Return, UNCHANGED <<procVars, follow, said>>,
         work' = work,
         \/ mon # "polling" /\ mon' = mon
         \/ mon = "polling" /\ mon' = "asleep"
  PROVE  WhereOK' /\ Followed'
<1>1. /\ UNCHANGED <<store, proc, readErrors>> /\ call' = "idle"
      /\ \A i \in Job : jobs'[i] = NoRec
      /\ Faults' = Faults + 1
  BY DEF SaveFails, Return, procVars, Faults, MInv, IInv, TypeOK
<1>2. mon # "marking" /\ mon' \notin {"marking", "polling"}
  BY DEF MInv, WhereOK
<1>3. WhereOK'
  BY <1>1, <1>2 DEF MInv, WhereOK
<1>4. \A i \in Job : SaidOf(jobs'[i], i)
  BY <1>1, NothingSaidOfNoRec
<1>. QED  BY <1>1, <1>2, <1>3, <1>4, Quiet

\* launch() and kill() are not the monitor's calls.
LEMMA FailedCallFollows ==
  ASSUME MInv, Waiting, RecordFails \/ KillFails \/ (mon # "polling" /\ RefreshFails)
  PROVE  WhereOK' /\ Followed'
<1>1. mon # "polling"
  BY DEF MInv, WhereOK, Scanning, Looking, RecordFails, KillFails
<1>. QED  BY <1>1, SaveFailsFollows
          DEF RecordFails, KillFails, RefreshFails, Waiting, monVars, sessionVars

LEMMA JobsStepFollows ==
  ASSUME MInv, JobsStep
  PROVE  WhereOK' /\ Followed' /\ MonTypes'
<1>1. Waiting
  BY DEF JobsStep, Waiting
<1>2. MonTypes'
  BY <1>1 DEF MInv, MonTypes, Waiting, monVars, sessionVars
<1>3. ASSUME NEW j \in Job, ProcStep(j) PROVE WhereOK' /\ Followed'
  BY <1>1, <1>3, ProcStepsFollow
<1>4. CASE CallStep
  BY <1>1, <1>2, <1>4, RecordedFollows, ScanStepsFollow, KillSignalFollows, KillSavedFollows,
     FailedCallFollows DEF CallStep
<1>5. CASE mon # "marking" /\ ToolCall
  BY <1>1, <1>2, <1>5, LaunchFollows, RefreshFollows DEF ToolCall, Waiting, monVars, sessionVars
<1>6. CASE mon # "polling" /\ Refreshed
  BY <1>1, <1>2, <1>6, RefreshedFollows DEF Waiting, monVars, sessionVars
<1>8. CASE mon # "polling" /\ RefreshFails
  BY <1>1, <1>2, <1>8, FailedCallFollows
<1>7. CASE mon # "marking" /\ Tick
  BY <1>1, <1>2, <1>7, TickFollows
<1>. QED  BY <1>2, <1>3, <1>4, <1>5, <1>6, <1>7, <1>8 DEF JobsStep

-----------------------------------------------------------------------------
(* The steps of the monitor.                                               *)

\* The jobs and the histories do not move.
LEMMA MonitorOnly ==
  ASSUME MInv, UNCHANGED <<bgVars, said>>, work' \subseteq work, mon # "marking"
  PROVE  Followed'
<1>1. UNCHANGED <<store, proc, call, arg, jobs, readErrors, Faults>>
  BY DEF bgVars, vars, procVars, callVars, faultVars, Faults
<1>2. \A i \in Job : SaidOf(jobs'[i], i)
  BY <1>1 DEF MInv, Followed, Told
<1>. QED  BY <1>1, <1>2, Quiet

LEMMA PollFollows ==
  ASSUME MInv, Poll
  PROVE  WhereOK' /\ Followed' /\ MonTypes'
<1>1. UNCHANGED <<work, follow, said>> /\ mon' = "polling" /\ mon = "asleep"
  BY DEF Poll, sessionVars
<1>2. WhereOK' /\ Followed'
  BY <1>1, RefreshFollows DEF Poll
<1>3. MonTypes'
  BY DEF Poll, sessionVars, MInv, MonTypes
<1>. QED  BY <1>2, <1>3

LEMMA PolledFollows ==
  ASSUME MInv, Polled
  PROVE  WhereOK' /\ Followed' /\ MonTypes'
<1>1. WhereOK' /\ Followed'
  BY RefreshedFollows DEF Polled, sessionVars
<1>2. MonTypes'
  BY DEF Polled, sessionVars, MInv, MonTypes, Pending, Finished
<1>. QED  BY <1>1, <1>2

LEMMA PollFailsFollows ==
  ASSUME MInv, PollFails
  PROVE  WhereOK' /\ Followed' /\ MonTypes'
<1>1. WhereOK' /\ Followed'
  BY SaveFailsFollows DEF PollFails, RefreshFails, sessionVars
<1>2. MonTypes'
  BY DEF PollFails, sessionVars, MInv, MonTypes
<1>. QED  BY <1>1, <1>2

\* Sleep, Skip, Continue and AgentFails: the monitor moves on.
LEMMA MovesOn ==
  ASSUME MInv, mon \in {"next", "agent"}, UNCHANGED <<bgVars, sessionVars>>,
         \/ mon' \in {"asleep", "next"} /\ work' \subseteq work /\ follow' \in Job \cup {NoJob}
         \/ mon' = "agent" /\ work' = work /\ follow' \in work
  PROVE  WhereOK' /\ Followed' /\ MonTypes'
<1>1. Followed'
  BY MonitorOnly DEF sessionVars
<1>2. WhereOK'
  BY DEF WhereOK
<1>3. MonTypes'
  BY DEF MInv, MonTypes, sessionVars
<1>. QED  BY <1>1, <1>2, <1>3

LEMMA SleepFollows ==
  ASSUME MInv, Sleep
  PROVE  WhereOK' /\ Followed' /\ MonTypes'
  BY MovesOn DEF Sleep, MInv, MonTypes

LEMMA SkipFollows ==
  ASSUME MInv, NEW j \in Job, Skip(j)
  PROVE  WhereOK' /\ Followed' /\ MonTypes'
  BY MovesOn DEF Skip, Retry

LEMMA ContinueFollows ==
  ASSUME MInv, NEW j \in Job, Continue(j)
  PROVE  WhereOK' /\ Followed' /\ MonTypes'
  BY MovesOn DEF Continue

LEMMA AgentFailsFollows ==
  ASSUME MInv, AgentFails
  PROVE  WhereOK' /\ Followed' /\ MonTypes'
  BY MovesOn DEF AgentFails, Retry

\* A continuation is saved.  The job is pending, or its record was lost: the one
\* continuation more is within the budget, which the mark or a fault makes good.
LEMMA AgentEndsFollows ==
  ASSUME MInv, AgentEnds
  PROVE  WhereOK' /\ Followed' /\ MonTypes'
<1>. USE DEF MInv, Followed
<1>1. /\ UNCHANGED <<bgVars, work, follow, deleted, busy, turns>>
      /\ call = "idle" /\ mon = "agent" /\ mon' = "marking"
      /\ said' = [said EXCEPT ![follow] = @ + 1]
  BY DEF AgentEnds, ServerFree
<1>2. UNCHANGED <<store, proc, call, arg, jobs, readErrors, Faults>>
  BY <1>1 DEF bgVars, vars, procVars, callVars, faultVars, Faults
<1>3. follow \in work /\ follow \in Job /\ said \in [Job -> Nat]
  BY <1>1 DEF WhereOK, MonTypes
<1>4. /\ said' \in [Job -> Nat] /\ said'[follow] = said[follow] + 1 /\ said'[follow] > 0
      /\ \A j \in Job : j # follow => said'[j] = said[j]
  BY <1>1, <1>3
<1>5. MonTypes'
  BY <1>1, <1>4 DEF MonTypes
<1>6. WhereOK'
  BY <1>1, <1>2, <1>3, <1>4 DEF WhereOK
<1>7. WorkOK'
  BY <1>1, <1>2 DEF WorkOK, Pending, Finished, Launching
<1>8. store[follow].status # "running" /\ ~store[follow].followed
  BY <1>3, NewRecords, PendingRecords DEF WorkOK
<1>9. Told'
  <2>. SUFFICES ASSUME NEW j \in Job PROVE Told!(j)'
    BY DEF Told
  <2>1. jobs'[j] = NoRec
    BY <1>1, <1>2 DEF IInv, CallOK, Scanning, Looking
  <2>2. SaidOf(store[j], j)' 
    BY <1>2, <1>4, <1>8 DEF Told, SaidOf
  <2>. QED  BY <2>1, <2>2, NewRecords DEF SaidOf
<1>10. Unsaid'
  BY <1>2, <1>3, <1>4, <1>8 DEF Unsaid, WorkOK, Launching
<1>11. Budget'
  <2>. SUFFICES ASSUME NEW j \in Job PROVE Budget!(j)'
    BY DEF Budget
  <2>1. Faults \in Nat /\ readErrors \in Nat
    BY DEF IInv, TypeOK, Faults
  <2>2. CASE j = follow
    BY <1>1, <1>2, <1>3, <1>4, <2>1, <2>2 DEF Budget
  <2>3. CASE j # follow
    BY <1>1, <1>2, <1>4, <2>3 DEF Budget, Pending, Finished
  <2>. QED  BY <2>2, <2>3
<1>. QED  BY <1>5, <1>6, <1>7, <1>9, <1>10, <1>11

\* The job is marked, or the store cannot be read or saved: either way it leaves the
\* list.
LEMMA MarkFollows ==
  ASSUME MInv, Mark
  PROVE  WhereOK' /\ Followed' /\ MonTypes'
<1>. USE DEF MInv, Followed
<1>1. /\ mon = "marking" /\ mon' = "next" /\ work' = work \ {follow} /\ follow' = NoJob
      /\ UNCHANGED <<deleted, busy, turns, said, proc, call, arg, jobs>>
  BY DEF Mark, MonitorMarks, MarkFollowedUp, MarkFails, sessionVars, procVars, callVars
<1>2. MonTypes'
  BY <1>1 DEF MonTypes
<1>3. WhereOK'
  BY <1>1 DEF WhereOK
<1>4. follow \in work /\ follow \in Job /\ said[follow] > 0 /\ call = "idle"
      /\ said \in [Job -> Nat] /\ Faults \in Nat /\ readErrors \in Nat
  BY <1>1 DEF WhereOK, MonTypes, IInv, TypeOK, Faults
<1>5. store[follow] \in Rec
  BY <1>4, Records
<1>. DEFINE m == [store[follow] EXCEPT !.followed = TRUE]
<1>6. m.status = store[follow].status /\ m.cause = store[follow].cause /\ m.followed
  BY <1>5, MarkedRecords DEF Rec
<1>7. \/ /\ readErrors' = readErrors /\ Faults' = Faults
         /\ store[follow].status = "none" /\ store' = store
      \/ /\ readErrors' = readErrors /\ Faults' = Faults
         /\ store[follow].status # "none" /\ store' = [store EXCEPT ![follow] = m]
      \/ /\ readErrors' \in {readErrors, readErrors + 1} /\ Faults' = Faults + 1
         /\ store' = store
  BY <1>4 DEF Mark, MonitorMarks, MarkFollowedUp, MarkFails, SaveFails, Faults, IInv, TypeOK
<1>. HIDE DEF m
<1>8. \A j \in Job : \/ store'[j] = store[j]
                     \/ j = follow /\ store'[j] = m /\ store[follow].status # "none"
  <2>1. CASE store' = store
    BY <2>1
  <2>2. CASE store[follow].status # "none" /\ store' = [store EXCEPT ![follow] = m]
    <3>1. \A j \in Job : store'[j] = IF j = follow THEN m ELSE store[j]
      BY <1>4, <2>2 DEF IInv, TypeOK
    <3>. QED  BY <2>2, <3>1
  <2>. QED  BY <1>7, <2>1, <2>2
<1>9. readErrors' \in {readErrors, readErrors + 1} /\ Faults' \in {Faults, Faults + 1}
  BY <1>7
<1>10. \A j \in Job : j # follow => (j \in Pending(store') <=> j \in Pending(store))
  BY <1>8, PendingRecords
<1>11. follow \in Pending(store') => Faults' = Faults + 1
  <2>1. CASE store[follow].status = "none" /\ store' = store
    BY <2>1, PendingRecords
  <2>2. CASE store' = [store EXCEPT ![follow] = m]
    <3>1. store'[follow] = m
      BY <1>4, <2>2 DEF IInv, TypeOK
    <3>. QED  BY <1>6, <3>1, PendingRecords
  <2>. QED  BY <1>7, <2>1, <2>2
<1>12. WorkOK'
  <2>. SUFFICES ASSUME NEW j \in work' PROVE WorkOK!(j)'
    BY DEF WorkOK
  <2>1. j \in work /\ j # follow /\ j \in Job /\ store'[j] = store[j]
    BY <1>1, <1>8 DEF MonTypes
  <2>. QED  BY <1>1, <1>4, <1>9, <1>10, <2>1 DEF WorkOK, Launching
<1>13. store[follow].status # "none" => SaidOf(m, follow)
  <2>. SUFFICES ASSUME store[follow].status # "none" PROVE SaidOf(m, follow)
    OBVIOUS
  <2>1. follow \in Pending(store)
    BY <1>4, NewRecords DEF WorkOK
  <2>2. SaidOf(store[follow], follow)
    BY <1>4 DEF Told
  <2>. QED  BY <1>4, <1>6, <2>1, <2>2, PendingRecords DEF SaidOf
<1>14. Told'
  BY <1>1, <1>8, <1>13 DEF Told, SaidOf
<1>15. Unsaid'
  BY <1>1, <1>6, <1>8 DEF Unsaid, Launching
<1>16. Budget'
  <2>. SUFFICES ASSUME NEW j \in Job PROVE Budget!(j)'
    BY DEF Budget
  <2>1. said[j] <= 1 + Faults /\ said[j] \in Nat
    BY <1>4 DEF Budget
  <2>2. CASE j = follow
    BY <1>1, <1>4, <1>9, <1>11, <2>1, <2>2
  <2>3. CASE j # follow
    <3>1. j \in work \cup Pending(store) => said[j] <= Faults
      BY <2>3 DEF Budget
    <3>. QED  BY <1>1, <1>4, <1>9, <1>10, <2>1, <2>3, <3>1
  <2>. QED  BY <2>2, <2>3
<1>. QED  BY <1>2, <1>3, <1>12, <1>14, <1>15, <1>16

-----------------------------------------------------------------------------
(* The rest of the server, and all steps together.                         *)

LEMMA SessionsFollow ==
  ASSUME MInv, NEW s \in Session, TurnStarts(s) \/ TurnEnds(s) \/ DeleteSession(s)
  PROVE  WhereOK' /\ Followed' /\ MonTypes'
<1>1. UNCHANGED <<bgVars, said, mon, work, follow>> /\ mon # "marking"
  BY DEF TurnStarts, TurnEnds, DeleteSession, monVars, ServerFree
<1>2. Followed'
  BY <1>1, MonitorOnly
<1>3. call' = call
  BY <1>1 DEF bgVars, vars, callVars
<1>4. WhereOK'
  BY <1>1, <1>3 DEF MInv, WhereOK, Scanning, Looking
<1>5. MonTypes'
  <2>1. deleted' \subseteq Session /\ busy' \subseteq Session /\ turns' \in 0..MaxTurns
    BY DEF TurnStarts, TurnEnds, DeleteSession, monVars, MInv, MonTypes
  <2>. QED  BY <1>1, <2>1 DEF MInv, MonTypes
<1>. QED  BY <1>2, <1>4, <1>5

LEMMA ServerCrashFollows ==
  ASSUME MInv, ServerCrash
  PROVE  WhereOK' /\ Followed' /\ MonTypes'
<1>. USE DEF MInv, Followed
<1>1. /\ mon' = "asleep" /\ work' = {} /\ follow' = NoJob /\ busy' = {}
      /\ UNCHANGED <<deleted, turns, said, store, proc, readErrors>>
      /\ Faults' = Faults + 1 /\ call' = "idle"
      /\ \A j \in Job : jobs'[j] = NoRec
  BY DEF ServerCrash, Crash, Return, Faults, procVars, IInv, TypeOK
<1>2. WhereOK' /\ MonTypes'
  BY <1>1 DEF WhereOK, MonTypes
<1>3. WorkOK'
  BY <1>1 DEF WorkOK
<1>4. Told'
  BY <1>1, NewRecords DEF Told, SaidOf
<1>5. Unsaid'
  BY <1>1 DEF Unsaid, Launching
<1>6. Budget'
  <2>. SUFFICES ASSUME NEW j \in Job PROVE Budget!(j)'
    BY DEF Budget
  <2>1. said[j] <= 1 + Faults /\ said[j] \in Nat
        /\ Faults \in Nat /\ readErrors \in Nat
    BY DEF Budget, MonTypes, IInv, TypeOK, Faults
  <2>. QED  BY <1>1, <2>1
<1>. QED  BY <1>2, <1>3, <1>4, <1>5, <1>6

\* What a step does to the jobs, one of the steps of BgJobs does, or none.
LEMMA StepOfTheJobs == MInv /\ [MonNext]_monitorVars => [Next]_vars
<1>. SUFFICES ASSUME MInv, [MonNext]_monitorVars PROVE [Next]_vars
  OBVIOUS
<1>1. CASE UNCHANGED monitorVars
  BY <1>1 DEF monitorVars, bgVars
<1>2. CASE JobsStep
  BY <1>2 DEF JobsStep, Next
<1>3. CASE Poll \/ Polled \/ PollFails
  BY <1>3 DEF Poll, Polled, PollFails, Next
<1>4. CASE Mark
  <2>1. follow \in Job \ Running(store)
    <3>1. follow \in work /\ follow \in Job
      BY <1>4 DEF Mark, MInv, WhereOK, MonTypes
    <3>. QED  BY <3>1, NewRecords, PendingRecords DEF MInv, Followed, WorkOK, Running
  <2>. QED  BY <1>4, <2>1 DEF Mark, Next
<1>5. CASE ServerCrash
  BY <1>5 DEF ServerCrash, Next
<1>6. CASE Sleep \/ AgentFails \/ AgentEnds \/ \E j \in Job : Skip(j) \/ Continue(j)
  BY <1>6 DEF Sleep, AgentFails, AgentEnds, Skip, Continue, Retry, bgVars
<1>7. CASE \E s \in Session : TurnStarts(s) \/ TurnEnds(s) \/ DeleteSession(s)
  BY <1>7 DEF TurnStarts, TurnEnds, DeleteSession, bgVars
<1>. QED  BY <1>1, <1>2, <1>3, <1>4, <1>5, <1>6, <1>7 DEF MonNext, MonStep

LEMMA MonStepMInv == MInv /\ [MonNext]_monitorVars => MInv'
<1>. SUFFICES ASSUME MInv, [MonNext]_monitorVars PROVE MInv'
  OBVIOUS
<1>1. IInv'
  BY StepOfTheJobs, StepIInv DEF MInv
<1>. SUFFICES WhereOK' /\ Followed' /\ MonTypes'
  BY <1>1 DEF MInv
<1>2. CASE UNCHANGED monitorVars
  <2>1. UNCHANGED <<store, proc, call, arg, jobs, readErrors, Faults, monVars, sessionVars>>
    BY <1>2 DEF monitorVars, bgVars, vars, procVars, callVars, faultVars, Faults
  <2>2. \A i \in Job : SaidOf(jobs'[i], i)
    BY <2>1 DEF MInv, Followed, Told
  <2>3. Followed'
    BY <2>1, <2>2, Quiet DEF monVars, sessionVars
  <2>4. WhereOK' /\ MonTypes'
    BY <2>1 DEF MInv, WhereOK, MonTypes, monVars, sessionVars, Scanning, Looking
  <2>. QED  BY <2>3, <2>4
<1>3. CASE JobsStep
  BY <1>3, JobsStepFollows
<1>4. CASE MonStep
  BY <1>4, PollFollows, PolledFollows, PollFailsFollows, SleepFollows, SkipFollows, ContinueFollows,
     AgentFailsFollows, AgentEndsFollows, MarkFollows DEF MonStep
<1>5. CASE \E s \in Session : TurnStarts(s) \/ TurnEnds(s) \/ DeleteSession(s)
  BY <1>5, SessionsFollow
<1>6. CASE ServerCrash
  BY <1>6, ServerCrashFollows
<1>. QED  BY <1>2, <1>3, <1>4, <1>5, <1>6 DEF MonNext

LEMMA AlwaysMInv == MonSpec => []MInv
<1>. QED  BY MonInitMInv, MonStepMInv, PTL DEF MonSpec

-----------------------------------------------------------------------------
(* What follows from it.                                                   *)

\* Next to the monitor, sessions that come and go and agents that fail, the jobs
\* go through no step that BgJobs does not have: what is proved of them there
\* holds here.
THEOREM MonitorKeepsJobs == MonSpec => Spec
<1>1. MonInit => Init
  BY DEF MonInit
<1>. QED  BY <1>1, StepOfTheJobs, AlwaysMInv, PTL DEF MonSpec, Spec

\* The variables of the monitor and of the sessions are well typed, with those of
\* the jobs.
THEOREM MonitorTypes == MonSpec => []MonTypeOK
<1>1. MInv => MonTypeOK
  BY DEF MInv, IInv, MonTypes, MonTypeOK
<1>. QED  BY <1>1, AlwaysMInv, PTL

\* _run_followup() takes a job off the pending ones only after add_message has
\* saved a continuation to its session; else its agent has killed it.
THEOREM NoneIsForgotten == MonSpec => []FollowedUpWasSaid
<1>1. MInv => FollowedUpWasSaid
  <2>. SUFFICES ASSUME MInv, NEW j \in Job, store[j].followed
                PROVE  said[j] > 0 \/ store[j].cause = "killed"
    BY DEF FollowedUpWasSaid
  <2>. QED  BY DEF MInv, Followed, Told, SaidOf
<1>. QED  BY <1>1, AlwaysMInv, PTL

\* A job that manage_bg_jobs killed is never the reason for a continuation.
THEOREM KilledIsLeftAlone == MonSpec => []StoppedJobIsLeftAlone
<1>1. MInv => StoppedJobIsLeftAlone
  BY DEF MInv, Followed, Told, SaidOf, StoppedJobIsLeftAlone
<1>. QED  BY <1>1, AlwaysMInv, PTL

\* A session is given one continuation of a job, and one more only for a crash
\* before mark_followed_up(), a store it could not read or a store it could not save.
THEOREM OnceUnlessFaults == MonSpec => []RepeatedByFaultOnly
<1>1. MInv => RepeatedByFaultOnly
  BY DEF MInv, Followed, Budget, RepeatedByFaultOnly
<1>. QED  BY <1>1, AlwaysMInv, PTL

\* The list that _loop() goes through, with an await for every job of it, does not
\* go stale while the store can be read.
THEOREM ListStaysTrue == MonSpec => []WorkIsPending
<1>1. MInv => WorkIsPending
  BY DEF MInv, Followed, WorkOK, WorkIsPending
<1>. QED  BY <1>1, AlwaysMInv, PTL

\* What refresh() says of a job that ended stays true with the monitor, the agents
\* it starts and the tools they call at work on the same store.
THEOREM ReportsHold == MonSpec => []SuccessIsReal /\ []DiedLeftNoCode /\ VerdictIsFinal
<1>. QED  BY MonitorKeepsJobs, SuccessReported, DeathReported, VerdictsAreFinal, PTL
=============================================================================
