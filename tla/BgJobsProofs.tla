----------------------------- MODULE BgJobsProofs -----------------------------
(***************************************************************************)
(* What the store of BgJobs says is true, for any jobs, exit codes, time   *)
(* limits and numbers of faults.                                           *)
(*                                                                         *)
(* The invariant that carries it, IInv, relates three things: the call in  *)
(* progress (CallOK: its copy of the store agrees with the store on every  *)
(* job that is not running), the processes and what they wrote (ProcOK),   *)
(* and the records, in the store and in the copy (Truthful).               *)
(***************************************************************************)
EXTENDS BgJobs, TLAPS

Looking  == {"read", "timeout", "probe", "again"}
Scanning == Looking \cup {"scan"}

\* The call in progress: its arguments, its copy, and what it has seen so far.  No
\* running job is followed up, in the store or in the copy.
CallOK ==
  /\ call \in {"launch", "kill", "killed"} \/ caller = "kill" => arg \in Job
  /\ call \in Looking => at \in Running(jobs) /\ at \notin todo
  /\ call \in Scanning => todo \subseteq Running(jobs)
  /\ call \in Scanning => \A j \in Job \ Running(store) : jobs[j] = store[j]
  /\ call \notin Scanning => jobs = [j \in Job |-> NoRec]
  /\ call = "launch" => store[arg].status = "none" /\ proc[arg] # "none"
  /\ call \in {"kill", "killed"} => store[arg].status = "running"
  /\ call = "again" => reaped[at]
  /\ \A j \in Running(store) : ~store[j].followed /\ ~jobs[j].followed

\* The processes: what the exit file and a dead pid say of them, and of a job
\* whose files were pruned.
ProcOK ==
  \A j \in Job :
    /\ proc[j] = "none" => store[j].status = "none"
    /\ exitFile[j] \in Code => proc[j] = "exited" /\ exitFile[j] = code[j]
    /\ reaped[j] => proc[j] \in {"exited", "terminated"}
    /\ proc[j] = "exited" /\ exitFile[j] = Missing =>
         store[j].status # "running" /\ ~(call = "launch" /\ arg = j)

\* A record that says "done", or died, says what happened.
TrueOf(rec, j) ==
  /\ rec.status = "done" => proc[j] = "exited" /\ code[j] = 0
  /\ rec.cause = "died" => proc[j] = "terminated"

Truthful ==
  \A j \in Job : TrueOf(store[j], j) /\ TrueOf(jobs[j], j)

IInv == TypeOK /\ CallOK /\ ProcOK /\ Truthful

USE JobAssumption, CodeAssumption, TimeAssumption, FaultAssumption

-----------------------------------------------------------------------------
(* Records.                                                                *)

LEMMA Horizons == Horizon \in Nat /\ 0 \in 0..Horizon
  BY DEF Horizon

LEMMA NotCodes ==
  /\ Missing \notin Code /\ Empty \notin Code /\ Missing # Empty
  /\ Missing = NoCode /\ 0 \in Code /\ 1 \in Code
  BY DEF Missing, Empty, NoCode

LEMMA NewRecords ==
  /\ NoRec \in Rec /\ NoRec.status = "none" /\ NoRec.cause = "" /\ NoRec.followed = FALSE
  /\ NewRec \in Rec /\ NewRec.status = "running" /\ NewRec.cause = "" /\ NewRec.followed = FALSE
  BY DEF NoRec, NewRec, Rec, Status, Cause, NoCode

\* The record of a job that left no exit code.
LEMMA WrittenOff ==
  ASSUME NEW rec \in Rec, NEW cause \in Cause
  PROVE  /\ EndedRec(rec, NoCode, cause) \in Rec
         /\ EndedRec(rec, NoCode, cause).status = "failed"
         /\ EndedRec(rec, NoCode, cause).cause = cause
         /\ EndedRec(rec, NoCode, cause).followed = rec.followed
<1>1. NoCode # 0 /\ "failed" \in Status
  BY DEF NoCode, Status
<1>2. EndedRec(rec, NoCode, cause)
        = [rec EXCEPT !.status = "failed", !.code = NoCode, !.cause = cause]
  BY <1>1 DEF EndedRec
<1>. QED  BY <1>1, <1>2 DEF Rec

LEMMA KilledRecords ==
  ASSUME NEW rec \in Rec
  PROVE  /\ KilledRec(rec) \in Rec
         /\ KilledRec(rec).status = "failed"
         /\ KilledRec(rec).cause = "killed"
         /\ KilledRec(rec).followed = TRUE
<1>1. "killed" \in Cause
  BY DEF Cause
<1>2. EndedRec(rec, NoCode, "killed") \in Rec /\ EndedRec(rec, NoCode, "killed").status = "failed"
      /\ EndedRec(rec, NoCode, "killed").cause = "killed"
  BY <1>1, WrittenOff
<1>. QED  BY <1>2 DEF KilledRec, Rec

LEMMA MarkedRecords ==
  ASSUME NEW rec \in Rec
  PROVE  LET m == [rec EXCEPT !.followed = TRUE]
         IN  /\ m \in Rec
             /\ m.status = rec.status
             /\ m.cause = rec.cause
  BY DEF Rec

LEMMA StatusOf ==
  ASSUME NEW rec \in Rec
  PROVE  rec.status \in Status /\ rec.cause \in Cause /\ rec.followed \in BOOLEAN
  BY DEF Rec

-----------------------------------------------------------------------------
(* The invariant holds at first, and every step keeps it.                  *)

LEMMA InitIInv == Init => IInv
<1>. SUFFICES ASSUME Init PROVE IInv
  OBVIOUS
<1>1. TypeOK
  <2>1. store \in [Job -> Rec] /\ jobs \in [Job -> Rec]
    BY NewRecords DEF Init
  <2>2. exitFile \in [Job -> Code \cup {Missing, Empty}] /\ code \in [Job -> Code]
    BY NotCodes DEF Init
  <2>3. since \in [Job -> 0..Horizon]
    BY Horizons DEF Init
  <2>4. crashes = 0 /\ readErrors = 0 /\ saveErrors = 0 /\ Faults <= MaxFaults
    BY DEF Init, Faults
  <2>. QED  BY <2>1, <2>2, <2>3, <2>4 DEF Init, TypeOK
<1>2. CallOK
  BY NewRecords DEF Init, CallOK, Looking, Scanning, Running
<1>3. ProcOK
  BY NewRecords, NotCodes DEF Init, ProcOK
<1>4. Truthful
  BY NewRecords DEF Init, Truthful, TrueOf
<1>. QED  BY <1>1, <1>2, <1>3, <1>4 DEF IInv

LEMMA CommandEndsStep ==
  ASSUME IInv, NEW j \in Job, NEW c \in Code, CommandEnds(j, c)
  PROVE  IInv'
<1>. USE DEF IInv
<1>1. TypeOK'
  BY DEF CommandEnds, callVars, faultVars, Faults, Empty, Missing, TypeOK
<1>2. CallOK'
  BY DEF CommandEnds, callVars, faultVars, Empty, Missing, TypeOK, CallOK,
         Looking, Scanning, Running
<1>3. ProcOK'
  BY DEF CommandEnds, callVars, faultVars, Empty, Missing, TypeOK, ProcOK
<1>4. Truthful'
  BY DEF CommandEnds, callVars, faultVars, Empty, Missing, TypeOK, ProcOK,
         Truthful, TrueOf
<1>. QED  BY <1>1, <1>2, <1>3, <1>4

LEMMA CodeWrittenStep ==
  ASSUME IInv, NEW j \in Job, CodeWritten(j)
  PROVE  IInv'
<1>. USE DEF IInv
<1>1. TypeOK'
  BY DEF CodeWritten, callVars, faultVars, Faults, Empty, Missing, TypeOK
<1>2. CallOK'
  BY DEF CodeWritten, callVars, faultVars, Empty, Missing, TypeOK, CallOK,
         Looking, Scanning, Running
<1>3. ProcOK'
  BY DEF CodeWritten, callVars, faultVars, Empty, Missing, TypeOK, ProcOK
<1>4. Truthful'
  BY DEF CodeWritten, callVars, faultVars, Empty, Missing, TypeOK, ProcOK,
         Truthful, TrueOf
<1>. QED  BY <1>1, <1>2, <1>3, <1>4

LEMMA DiesStep ==
  ASSUME IInv, NEW j \in Job, Dies(j)
  PROVE  IInv'
<1>. USE DEF IInv
<1>1. TypeOK'
  BY DEF Dies, Terminate, Alive, callVars, faultVars, Faults, TypeOK
<1>2. CallOK'
  BY DEF Dies, Terminate, Alive, callVars, faultVars, TypeOK, CallOK, Looking,
         Scanning, Running
<1>3. ProcOK'
  BY DEF Dies, Terminate, Alive, callVars, faultVars, TypeOK, ProcOK
<1>4. Truthful'
  BY DEF Dies, Terminate, Alive, callVars, faultVars, TypeOK, ProcOK, Truthful,
         TrueOf
<1>. QED  BY <1>1, <1>2, <1>3, <1>4

LEMMA ReapStep ==
  ASSUME IInv, NEW j \in Job, Reap(j)
  PROVE  IInv'
<1>. USE DEF IInv
<1>1. TypeOK'
  BY DEF Reap, callVars, faultVars, Faults, TypeOK
<1>2. CallOK'
  BY DEF Reap, callVars, faultVars, TypeOK, CallOK, Looking, Scanning, Running
<1>3. ProcOK'
  BY DEF Reap, callVars, faultVars, TypeOK, ProcOK
<1>4. Truthful'
  BY DEF Reap, callVars, faultVars, TypeOK, ProcOK, Truthful, TrueOf
<1>. QED  BY <1>1, <1>2, <1>3, <1>4

LEMMA LaunchStep ==
  ASSUME IInv, NEW j \in Job, Launch(j)
  PROVE  IInv'
<1>. USE DEF IInv
<1>1. TypeOK'
  BY DEF Launch, faultVars, Faults, TypeOK
<1>2. CallOK'
  <2>1. store[j].status = "none" /\ proc'[j] = "running"
    BY DEF Launch, TypeOK, ProcOK
  <2>2. call = "idle" /\ call' = "launch" /\ arg' = j /\ UNCHANGED <<store, caller, jobs>>
    BY DEF Launch
  <2>. QED  BY <2>1, <2>2 DEF CallOK, Looking, Scanning, Running
<1>3. ProcOK'
  BY DEF Launch, faultVars, TypeOK, ProcOK
<1>4. Truthful'
  BY DEF Launch, faultVars, TypeOK, ProcOK, Truthful, TrueOf
<1>. QED  BY <1>1, <1>2, <1>3, <1>4

LEMMA RecordedStep ==
  ASSUME IInv, NEW readable \in BOOLEAN, readable \/ MayFail, Recorded(readable)
  PROVE  IInv'
<1>. USE DEF IInv
<1>1. TypeOK'
  <2>1. store' \in [Job -> Rec] /\ jobs' \in [Job -> Rec]
    BY NewRecords DEF Recorded, Return, TypeOK
  <2>2. since' \in [Job -> 0..Horizon]
    BY Horizons DEF Recorded, TypeOK
  <2>3. readErrors' \in Nat /\ Faults' <= MaxFaults
    BY DEF Recorded, MayFail, Faults, TypeOK
  <2>. QED  BY <2>1, <2>2, <2>3 DEF Recorded, Return, procVars, TypeOK
<1>2. CallOK'
  BY NewRecords
     DEF Recorded, Return, procVars, TypeOK, CallOK, Looking, Scanning, Running
<1>3. ProcOK'
  BY NewRecords
     DEF Recorded, Return, procVars, TypeOK, ProcOK, CallOK, Looking, Scanning,
         Running
<1>4. Truthful'
  BY NewRecords DEF Recorded, Return, procVars, TypeOK, ProcOK, Truthful, TrueOf
<1>. QED  BY <1>1, <1>2, <1>3, <1>4

\* A call that cannot save ends with the store as it was.
LEMMA SaveFailsStep ==
  ASSUME IInv, SaveFails, Return, UNCHANGED procVars,
         \A j \in Job :
           exitFile'[j] = exitFile[j] \/ (exitFile'[j] = Missing /\ store[j].status # "running"),
         exitFile' \in [Job -> Code \cup {Missing, Empty}]
  PROVE  IInv'
<1>. USE DEF IInv
<1>1. /\ UNCHANGED <<store, since, proc, code, reaped>>
      /\ call' = "idle" /\ caller' = "none" /\ jobs' = [j \in Job |-> NoRec]
  BY DEF SaveFails, Return, procVars
<1>2. TypeOK'
  <2>1. jobs' \in [Job -> Rec]
    BY <1>1, NewRecords
  <2>2. crashes' \in Nat /\ readErrors' \in Nat /\ saveErrors' \in Nat /\ Faults' <= MaxFaults
    BY DEF SaveFails, MayFail, Faults, TypeOK
  <2>. QED  BY <1>1, <2>1, <2>2 DEF Return, TypeOK
<1>3. CallOK'
  BY <1>1, NewRecords DEF CallOK, Looking, Scanning, Running
<1>4. ProcOK'
  BY <1>1, NotCodes DEF ProcOK
<1>5. Truthful'
  BY <1>1, NewRecords DEF Truthful, TrueOf
<1>. QED  BY <1>2, <1>3, <1>4, <1>5

LEMMA RecordFailsStep ==
  ASSUME IInv, RecordFails
  PROVE  IInv'
  BY SaveFailsStep DEF RecordFails, IInv, TypeOK

LEMMA RefreshStep ==
  ASSUME IInv, NEW who \in {"monitor", "list", "kill"}, NEW j \in Job \cup {NoJob},
         who = "kill" => j \in Job, Refresh(who, j)
  PROVE  IInv'
<1>. USE DEF IInv
<1>1. TypeOK'
  <2>1. Running(store) \subseteq Job /\ store \in [Job -> Rec]
    BY DEF Running, TypeOK
  <2>2. todo' \subseteq Job /\ jobs' \in [Job -> Rec]
    BY <2>1 DEF Refresh
  <2>3. call' \in {"scan"} /\ caller' \in {"monitor", "list", "kill"} /\ arg' \in Job \cup {NoJob}
    BY DEF Refresh
  <2>. QED  BY <2>2, <2>3 DEF Refresh, procVars, faultVars, Faults, TypeOK
<1>2. CallOK'
  BY DEF Refresh, procVars, faultVars, TypeOK, CallOK, Looking, Scanning, Running
<1>3. ProcOK'
  BY DEF Refresh, procVars, faultVars, TypeOK, ProcOK
<1>4. Truthful'
  BY DEF Refresh, procVars, faultVars, TypeOK, ProcOK, Truthful, TrueOf
<1>. QED  BY <1>1, <1>2, <1>3, <1>4

LEMMA LookStep ==
  ASSUME IInv, NEW j \in Job, Look(j)
  PROVE  IInv'
<1>. USE DEF IInv
<1>1. TypeOK'
  BY DEF Look, procVars, faultVars, Faults, TypeOK
<1>2. CallOK'
  BY DEF Look, procVars, faultVars, TypeOK, CallOK, Looking, Scanning, Running
<1>3. ProcOK'
  BY DEF Look, procVars, faultVars, TypeOK, ProcOK
<1>4. Truthful'
  BY DEF Look, procVars, faultVars, TypeOK, ProcOK, Truthful, TrueOf
<1>. QED  BY <1>1, <1>2, <1>3, <1>4

LEMMA ReadCodeStep ==
  ASSUME IInv, ReadCode
  PROVE  IInv'
<1>. USE DEF IInv
<1>1. at \in Job /\ jobs[at] \in Rec /\ "" \in Cause
  BY DEF ReadCode, TypeOK, CallOK, Looking, Running, Cause
<1>. DEFINE c == ParsedCode(exitFile[at])
            e == EndedRec(jobs[at], c, "")
<1>2. c \in Code \cup {NoCode} /\ (c = 0 => proc[at] = "exited" /\ code[at] = 0)
  <2>1. exitFile[at] \in Code \cup {Missing, Empty}
    BY <1>1 DEF TypeOK
  <2>2. exitFile[at] \in Code => proc[at] = "exited" /\ exitFile[at] = code[at]
    BY <1>1 DEF ProcOK
  <2>. QED  BY <2>1, <2>2, NotCodes DEF ParsedCode
<1>. HIDE DEF c
<1>3. /\ e \in Rec /\ e.cause = "" /\ e.followed = jobs[at].followed
      /\ (e.status = "done" => c = 0) /\ e.status # "running"
  <2>1. e \in Rec /\ e.cause = "" /\ e.followed = jobs[at].followed
        /\ e.status = IF c = 0 THEN "done" ELSE "failed"
    BY <1>1, <1>2 DEF e, EndedRec, Rec, Status
  <2>. QED  BY <2>1
<1>. HIDE DEF e
<1>4. /\ jobs' = [jobs EXCEPT ![at] = e]
      /\ at' = NoJob /\ call' = "scan" /\ call = "read"
      /\ UNCHANGED <<store, code, reaped, exitFile, since, caller, arg, todo,
                     crashes, readErrors, saveErrors, proc>>
  BY DEF ReadCode, Settle, procVars, faultVars, e, c
<1>5. TypeOK'
  BY <1>1, <1>2, <1>3, <1>4 DEF Faults, NoCode, TypeOK
<1>6. CallOK'
  BY <1>1, <1>2, <1>3, <1>4 DEF NoCode, TypeOK, CallOK, Looking, Scanning, Running
<1>7. ProcOK'
  BY <1>1, <1>2, <1>3, <1>4 DEF NoCode, TypeOK, ProcOK
<1>8. Truthful'
  <2>1. \A j \in Job : jobs'[j] = IF j = at THEN e ELSE jobs[j]
    BY <1>4 DEF TypeOK
  <2>2. UNCHANGED <<store, proc, code>>
    BY <1>4
  <2>. QED  BY <1>2, <1>3, <2>1, <2>2 DEF Truthful, TrueOf
<1>. QED  BY <1>5, <1>6, <1>7, <1>8

LEMMA TimeOutStep ==
  ASSUME IInv, TimeOut
  PROVE  IInv'
<1>. USE DEF IInv
<1>1. at \in Job /\ jobs[at] \in Rec /\ "timed_out" \in Cause
  BY DEF TimeOut, TypeOK, CallOK, Looking, Running, Cause
<1>. DEFINE e == EndedRec(jobs[at], NoCode, "timed_out")
<1>2. e \in Rec /\ e.cause = "timed_out" /\ e.status = "failed"
      /\ e.followed = jobs[at].followed
  BY <1>1, WrittenOff
<1>. HIDE DEF e
<1>3. /\ jobs' = [jobs EXCEPT ![at] = e]
      /\ at' = NoJob /\ call' = "scan" /\ call = "timeout"
      /\ UNCHANGED <<store, code, reaped, exitFile, since, caller, arg, todo,
                     crashes, readErrors, saveErrors>>
      /\ Terminate(at)
  BY DEF TimeOut, Settle, Terminate, Alive, faultVars, e
<1>4. TypeOK'
  BY <1>1, <1>2, <1>3 DEF Faults, Terminate, Alive, TypeOK
<1>5. CallOK'
  BY <1>1, <1>2, <1>3
     DEF Terminate, Alive, TypeOK, CallOK, Looking, Scanning, Running
<1>6. ProcOK'
  BY <1>1, <1>2, <1>3 DEF Terminate, Alive, TypeOK, ProcOK
<1>7. Truthful'
  BY <1>1, <1>2, <1>3 DEF Terminate, Alive, TypeOK, ProcOK, Truthful, TrueOf
<1>. QED  BY <1>4, <1>5, <1>6, <1>7

LEMMA ProbeAliveStep ==
  ASSUME IInv, ProbeAlive
  PROVE  IInv'
<1>. USE DEF IInv
<1>1. TypeOK'
  BY DEF ProbeAlive, Settle, procVars, faultVars, Faults, TypeOK
<1>2. CallOK'
  BY DEF ProbeAlive, Settle, procVars, faultVars, TypeOK, CallOK, Looking,
         Scanning, Running
<1>3. ProcOK'
  BY DEF ProbeAlive, Settle, procVars, faultVars, TypeOK, ProcOK
<1>4. Truthful'
  BY DEF ProbeAlive, Settle, procVars, faultVars, TypeOK, ProcOK, Truthful, TrueOf
<1>. QED  BY <1>1, <1>2, <1>3, <1>4

LEMMA ProbeDeadStep ==
  ASSUME IInv, ProbeDead
  PROVE  IInv'
<1>. USE DEF IInv
<1>1. at \in Job /\ jobs[at].status = "running" /\ jobs[at] \in Rec
  BY DEF ProbeDead, TypeOK, CallOK, Looking, Scanning, Running
<1>2. reaped[at]
  BY <1>1
     DEF ProbeDead, PidAlive, TypeOK, ProcOK, CallOK, Looking, Scanning, Running
<1>3. TypeOK'
  BY DEF ProbeDead, procVars, faultVars, Faults, TypeOK
<1>4. CallOK'
  BY <1>1, <1>2
     DEF ProbeDead, procVars, faultVars, TypeOK, CallOK, Looking, Scanning,
         Running
<1>5. ProcOK'
  BY DEF ProbeDead, procVars, faultVars, ProcOK
<1>6. Truthful'
  BY DEF ProbeDead, procVars, faultVars, Truthful, TrueOf
<1>. QED  BY <1>3, <1>4, <1>5, <1>6

LEMMA LookAgainStep ==
  ASSUME IInv, LookAgain
  PROVE  IInv'
<1>. USE DEF IInv
<1>1. at \in Job /\ jobs[at] \in Rec /\ "died" \in Cause
  BY DEF LookAgain, TypeOK, CallOK, Looking, Running, Cause
<1>. DEFINE e == EndedRec(jobs[at], NoCode, "died")
<1>2. e \in Rec /\ e.cause = "died" /\ e.status = "failed"
      /\ e.followed = jobs[at].followed
  BY <1>1, WrittenOff
<1>. HIDE DEF e
<1>3. /\ jobs' = [jobs EXCEPT ![at] = IF exitFile[at] = Missing THEN e ELSE jobs[at]]
      /\ at' = NoJob /\ call' = "scan" /\ call = "again"
      /\ UNCHANGED <<store, code, reaped, exitFile, since, caller, arg, todo,
                     crashes, readErrors, saveErrors, proc>>
  BY DEF LookAgain, Settle, procVars, faultVars, e
<1>4. TypeOK'
  BY <1>1, <1>2, <1>3 DEF Faults, NoCode, TypeOK
<1>5. CallOK'
  BY <1>1, <1>2, <1>3 DEF NoCode, TypeOK, CallOK, Looking, Scanning, Running
<1>6. ProcOK'
  BY <1>1, <1>2, <1>3 DEF NoCode, TypeOK, ProcOK
<1>7. Truthful'
  BY <1>1, <1>2, <1>3
     DEF NoCode, TypeOK, ProcOK, Truthful, TrueOf, CallOK, Looking, Scanning,
         Running
<1>. QED  BY <1>4, <1>5, <1>6, <1>7

LEMMA RefreshedStep ==
  ASSUME IInv, Refreshed
  PROVE  IInv'
<1>. USE DEF IInv
<1>1. \A j \in Job :
        /\ Prunable(j) => j \notin Running(jobs) /\ jobs[j].status # "none"
        /\ store'[j] = IF Prunable(j) THEN NoRec ELSE jobs[j]
        /\ exitFile'[j] = IF Prunable(j) THEN Missing ELSE exitFile[j]
        /\ j \in Running(jobs) => j \in Running(store)
  BY DEF Refreshed, Unlinked, Prunable, Finished, TypeOK, CallOK, Looking, Scanning, Running
<1>2. /\ call = "scan" /\ todo = {} /\ at' = (IF call' = "kill" THEN at ELSE NoJob)
      /\ jobs' = [j \in Job |-> NoRec] /\ caller' = "none" /\ todo' = {}
      /\ \/ call' = "idle" /\ arg' = NoJob
         \/ call' = "kill" /\ caller = "kill" /\ arg' = arg /\ store'[arg].status = "running"
      /\ UNCHANGED <<proc, code, reaped, crashes, readErrors, saveErrors>>
  <2>1. CASE call' = "kill"
    BY <2>1 DEF Refreshed, Return, procVars, faultVars
  <2>2. CASE call' # "kill"
    BY <2>2 DEF Refreshed, Return, procVars, faultVars
  <2>. QED  BY <2>1, <2>2
<1>3. TypeOK'
  <2>1. store' \in [Job -> Rec] /\ jobs' \in [Job -> Rec]
    BY <1>2, NewRecords DEF Refreshed, TypeOK
  <2>2. exitFile' \in [Job -> Code \cup {Missing, Empty}]
    BY DEF Refreshed, Unlinked, TypeOK
  <2>3. since' \in [Job -> 0..Horizon]
    BY Horizons DEF Refreshed, TypeOK
  <2>. QED  BY <1>2, <2>1, <2>2, <2>3 DEF Faults, TypeOK
<1>4. CallOK'
  <2>1. \A j \in Running(store') : ~store'[j].followed /\ ~jobs'[j].followed
    <3>. SUFFICES ASSUME NEW j \in Job, store'[j].status = "running"
                  PROVE  ~store'[j].followed /\ ~jobs'[j].followed
      BY DEF Running
    <3>1. store'[j] = jobs[j] /\ jobs[j].status = "running"
      BY <1>1, NewRecords
    <3>2. store[j].status = "running"
      BY <1>1, <3>1 DEF Running
    <3>. QED  BY <1>2, <3>1, <3>2, NewRecords DEF CallOK, Running
  <2>. QED  BY <1>2, <2>1, NewRecords DEF TypeOK, CallOK, Looking, Scanning, Running
<1>5. ProcOK'
  <2>. SUFFICES ASSUME NEW j \in Job PROVE ProcOK!(j)'
    BY DEF ProcOK
  <2>1. proc[j] = "none" => jobs[j].status = "none"
    BY <1>2 DEF ProcOK, TypeOK, CallOK, Looking, Scanning, Running
  <2>2. proc[j] = "exited" /\ exitFile[j] = Missing => jobs[j].status # "running"
    BY <1>1 DEF ProcOK, TypeOK, CallOK, Looking, Scanning, Running
  <2>. QED  BY <1>1, <1>2, <2>1, <2>2, NotCodes, NewRecords DEF ProcOK
<1>6. Truthful'
  BY <1>1, <1>2, NewRecords DEF TypeOK, Truthful, TrueOf
<1>. QED  BY <1>3, <1>4, <1>5, <1>6

\* A record that is pruned is not one of a running job, in the copy or in the store.
LEMMA PrunableEnded ==
  ASSUME IInv, NEW j \in Job, Prunable(j)
  PROVE  store[j].status # "running"
  BY DEF Prunable, IInv, CallOK, Running

LEMMA RefreshFailsStep ==
  ASSUME IInv, RefreshFails
  PROVE  IInv'
<1>1. \A j \in Job :
        exitFile'[j] = exitFile[j] \/ (exitFile'[j] = Missing /\ store[j].status # "running")
  BY PrunableEnded DEF RefreshFails, Unlinked
<1>2. exitFile' \in [Job -> Code \cup {Missing, Empty}]
  BY DEF RefreshFails, Unlinked, IInv, TypeOK
<1>. QED  BY <1>1, <1>2, SaveFailsStep DEF RefreshFails

LEMMA KillSignalStep ==
  ASSUME IInv, KillSignal
  PROVE  IInv'
<1>. USE DEF IInv
<1>1. TypeOK'
  BY DEF KillSignal, Terminate, Alive, faultVars, Faults, TypeOK
<1>2. CallOK'
  BY DEF KillSignal, Terminate, Alive, faultVars, TypeOK, CallOK, Looking,
         Scanning, Running
<1>3. ProcOK'
  BY DEF KillSignal, Terminate, Alive, faultVars, TypeOK, ProcOK
<1>4. Truthful'
  BY DEF KillSignal, Terminate, Alive, faultVars, TypeOK, ProcOK, Truthful, TrueOf
<1>. QED  BY <1>1, <1>2, <1>3, <1>4

LEMMA KillSavedStep ==
  ASSUME IInv, KillSaved
  PROVE  IInv'
<1>. USE DEF IInv
<1>1. arg \in Job /\ store[arg] \in Rec /\ store[arg].status = "running" /\ call = "killed"
  BY DEF KillSaved, TypeOK, CallOK
<1>. DEFINE k == KilledRec(store[arg])
<1>2. k \in Rec /\ k.status = "failed" /\ k.cause = "killed"
  BY <1>1, KilledRecords
<1>. HIDE DEF k
<1>3. /\ store' = [store EXCEPT ![arg] = k]
      /\ since' = [since EXCEPT ![arg] = 0]
      /\ UNCHANGED <<exitFile, proc, code, reaped, crashes, readErrors, saveErrors>>
  BY DEF KillSaved, procVars, faultVars, k
<1>4. TypeOK'
  <2>1. store' \in [Job -> Rec]
    BY <1>1, <1>2, <1>3 DEF TypeOK
  <2>2. jobs' \in [Job -> Rec]
    BY NewRecords DEF KillSaved, Return
  <2>3. since' \in [Job -> 0..Horizon]
    BY <1>3, Horizons DEF TypeOK
  <2>. QED  BY <1>3, <2>1, <2>2, <2>3 DEF KillSaved, Return, Faults, TypeOK
<1>5. CallOK'
  <2>1. \A j \in Job : store'[j] = IF j = arg THEN k ELSE store[j]
    BY <1>3 DEF TypeOK
  <2>2. \A j \in Running(store') : ~store'[j].followed /\ ~jobs'[j].followed
    <3>. SUFFICES ASSUME NEW j \in Job, store'[j].status = "running"
                  PROVE  ~store'[j].followed /\ ~jobs'[j].followed
      BY DEF Running
    <3>1. store'[j] = store[j] /\ jobs'[j] = NoRec
      BY <1>2, <2>1 DEF KillSaved, Return
    <3>. QED  BY <3>1, NewRecords DEF CallOK, Running
  <2>3. call' = "idle" /\ caller' = "none" /\ jobs' = [j \in Job |-> NoRec]
    BY DEF KillSaved, Return
  <2>. QED  BY <2>2, <2>3 DEF CallOK, Looking, Scanning
<1>6. ProcOK'
  BY <1>1, <1>2, <1>3 DEF KillSaved, Return, TypeOK, ProcOK
<1>7. Truthful'
  <2>1. \A j \in Job : store'[j] = IF j = arg THEN k ELSE store[j]
    BY <1>3 DEF TypeOK
  <2>2. \A j \in Job : jobs'[j] = NoRec
    BY DEF KillSaved, Return
  <2>3. UNCHANGED <<proc, code>> /\ NoRec.status = "none" /\ NoRec.cause = ""
    BY <1>3, NewRecords
  <2>. QED  BY <1>2, <2>1, <2>2, <2>3 DEF Truthful, TrueOf
<1>. QED  BY <1>4, <1>5, <1>6, <1>7

LEMMA KillFailsStep ==
  ASSUME IInv, KillFails
  PROVE  IInv'
  BY SaveFailsStep DEF KillFails, IInv, TypeOK

LEMMA MonitorMarksStep ==
  ASSUME IInv, NEW j \in Job \ Running(store), MonitorMarks(j)
  PROVE  IInv'
<1>. USE DEF IInv
<1>1. store[j] \in Rec /\ call = "idle"
  BY DEF MonitorMarks, MarkFollowedUp, MarkFails, TypeOK
<1>. DEFINE m == [store[j] EXCEPT !.followed = TRUE]
<1>2. m \in Rec /\ m.status = store[j].status /\ m.cause = store[j].cause
  BY <1>1, MarkedRecords
<1>3. store' \in {store, [store EXCEPT ![j] = m]}
  BY DEF MonitorMarks, MarkFollowedUp, MarkFails, SaveFails
<1>. HIDE DEF m
<1>4. /\ readErrors' \in Nat /\ saveErrors' \in Nat /\ Faults' <= MaxFaults
      /\ UNCHANGED <<exitFile, proc, code, reaped, since, call, caller,
                     arg, at, todo, jobs, crashes>>
  BY DEF MonitorMarks, MarkFollowedUp, MarkFails, SaveFails, MayFail, Faults,
         procVars, callVars, TypeOK
<1>5. \A i \in Job : store'[i] \in Rec /\ store'[i].status = store[i].status
                                     /\ store'[i].cause = store[i].cause
  BY <1>2, <1>3 DEF TypeOK
<1>6. TypeOK'
  <2>1. store' \in [Job -> Rec]
    BY <1>2, <1>3 DEF TypeOK
  <2>. QED  BY <1>4, <2>1 DEF TypeOK
<1>7. CallOK'
  <2>1. \A i \in Running(store') : ~store'[i].followed /\ ~jobs'[i].followed
    <3>. SUFFICES ASSUME NEW i \in Running(store') PROVE ~store'[i].followed /\ ~jobs'[i].followed
      OBVIOUS
    <3>1. i \in Running(store) /\ i # j
      BY <1>5 DEF Running
    <3>2. store'[i] = store[i]
      BY <1>3, <3>1 DEF TypeOK, Running
    <3>. QED  BY <1>4, <3>1, <3>2 DEF CallOK
  <2>. QED  BY <1>1, <1>4, <2>1 DEF CallOK, Looking, Scanning
<1>8. ProcOK'
  BY <1>4, <1>5 DEF ProcOK
<1>9. Truthful'
  BY <1>4, <1>5 DEF Truthful, TrueOf
<1>. QED  BY <1>6, <1>7, <1>8, <1>9

LEMMA TickStep ==
  ASSUME IInv, Tick
  PROVE  IInv'
<1>. USE DEF IInv
<1>1. TypeOK'
  BY DEF Tick, procVars, callVars, faultVars, Faults, Horizon, TypeOK
<1>2. CallOK'
  BY DEF Tick, procVars, callVars, faultVars, Horizon, TypeOK, CallOK, Looking,
         Scanning, Running
<1>3. ProcOK'
  BY DEF Tick, procVars, callVars, faultVars, Horizon, TypeOK, ProcOK
<1>4. Truthful'
  BY DEF Tick, procVars, callVars, faultVars, Horizon, TypeOK, ProcOK, Truthful,
         TrueOf
<1>. QED  BY <1>1, <1>2, <1>3, <1>4

LEMMA CrashStep ==
  ASSUME IInv, Crash
  PROVE  IInv'
<1>. USE DEF IInv
<1>1. TypeOK'
  <2>1. jobs' \in [Job -> Rec]
    BY NewRecords DEF Crash, Return
  <2>2. crashes' \in Nat /\ Faults' <= MaxFaults
    BY DEF Crash, MayFail, Faults, TypeOK
  <2>. QED  BY <2>1, <2>2 DEF Crash, Return, procVars, TypeOK
<1>2. CallOK'
  BY NewRecords DEF Crash, Return, CallOK, Looking, Scanning, Running
<1>3. ProcOK'
  BY DEF Crash, Return, procVars, ProcOK
<1>4. Truthful'
  BY NewRecords DEF Crash, Return, procVars, Truthful, TrueOf
<1>. QED  BY <1>1, <1>2, <1>3, <1>4

LEMMA StutterStep ==
  ASSUME IInv, UNCHANGED vars
  PROVE  IInv'
<1>. USE DEF IInv
<1>1. TypeOK'
  BY DEF vars, procVars, callVars, faultVars, Faults, TypeOK
<1>2. CallOK'
  BY DEF vars, procVars, callVars, faultVars, TypeOK, CallOK, Looking, Scanning,
         Running
<1>3. ProcOK'
  BY DEF vars, procVars, callVars, faultVars, TypeOK, ProcOK
<1>4. Truthful'
  BY DEF vars, procVars, callVars, faultVars, TypeOK, ProcOK, Truthful, TrueOf
<1>. QED  BY <1>1, <1>2, <1>3, <1>4

LEMMA StepIInv == IInv /\ [Next]_vars => IInv'
<1>. SUFFICES ASSUME IInv, [Next]_vars PROVE IInv'
  OBVIOUS
<1>1. CASE UNCHANGED vars
  BY <1>1, StutterStep
<1>2. ASSUME NEW j \in Job, ProcStep(j) PROVE IInv'
  BY <1>2, CommandEndsStep, CodeWrittenStep, DiesStep, ReapStep DEF ProcStep
<1>3. CASE CallStep
  BY <1>3, RecordedStep, LookStep, ReadCodeStep, TimeOutStep, ProbeAliveStep,
     ProbeDeadStep, LookAgainStep, KillSignalStep, KillSavedStep, RecordFailsStep,
     KillFailsStep DEF CallStep
<1>4. CASE ToolCall
  BY <1>4, LaunchStep, RefreshStep DEF ToolCall
<1>5. CASE Refreshed
  BY <1>5, RefreshedStep
<1>6. CASE Refresh("monitor", NoJob)
  BY <1>6, RefreshStep
<1>7. ASSUME NEW j \in Job \ Running(store), MonitorMarks(j) PROVE IInv'
  BY <1>7, MonitorMarksStep
<1>8. CASE Tick
  BY <1>8, TickStep
<1>9. CASE Crash
  BY <1>9, CrashStep
<1>10. CASE RefreshFails
  BY <1>10, RefreshFailsStep
<1>. QED  BY <1>1, <1>2, <1>3, <1>4, <1>5, <1>6, <1>7, <1>8, <1>9, <1>10 DEF Next

LEMMA AlwaysIInv == Spec => []IInv
<1>. QED  BY InitIInv, StepIInv, PTL DEF Spec

-----------------------------------------------------------------------------
(* What follows from it.                                                   *)

\* Every state of the store, the processes and the call in progress is well
\* typed.
THEOREM TypeCorrect == Spec => []TypeOK
<1>1. IInv => TypeOK
  BY DEF IInv
<1>. QED  BY <1>1, AlwaysIInv, PTL

\* refresh() says "done" of no job but one whose command ended with 0: not of one
\* that was cut short, not of one whose exit file it read half written.
THEOREM SuccessReported == Spec => []SuccessIsReal
<1>1. IInv => SuccessIsReal
  BY DEF IInv, Truthful, TrueOf, SuccessIsReal
<1>. QED  BY <1>1, AlwaysIInv, PTL

\* refresh() says "died" of no job but one whose wrapper was killed before it
\* wrote its code, though the wrapper may finish at any point of the two looks.
THEOREM DeathReported == Spec => []DiedLeftNoCode
<1>1. IInv => DiedLeftNoCode
  BY DEF IInv, Truthful, TrueOf, DiedLeftNoCode
<1>. QED  BY <1>1, AlwaysIInv, PTL

\* What one step does to a record that says how its job ended.
LEMMA KeepsVerdict ==
  ASSUME IInv, [Next]_vars, readErrors' = readErrors, NEW j \in Finished(store)
  PROVE  \/ store'[j] \in {store[j], [store[j] EXCEPT !.followed = TRUE]}
         \/ store[j].followed /\ store'[j] = NoRec
<1>. USE DEF IInv
<1>. j \in Job /\ store[j] \in Rec /\ store[j].status # "running" /\ store[j].status # "none"
  BY DEF Finished, TypeOK
<1>1. CASE UNCHANGED store
  BY <1>1
<1>2. ASSUME NEW readable \in BOOLEAN, Recorded(readable) PROVE store'[j] = store[j]
  <2>1. readable
    BY <1>2 DEF Recorded, TypeOK
  <2>2. arg # j
    BY <1>2 DEF Recorded, CallOK
  <2>. QED  BY <1>2, <2>1, <2>2 DEF Recorded
<1>3. CASE Refreshed
  <2>1. jobs[j] = store[j]
    BY <1>3 DEF Refreshed, CallOK, Scanning, Looking, Running
  <2>2. store'[j] = IF Prunable(j) THEN NoRec ELSE jobs[j]
    BY <1>3 DEF Refreshed
  <2>. QED  BY <2>1, <2>2 DEF Prunable
<1>4. CASE KillSaved
  BY <1>4 DEF KillSaved, CallOK, TypeOK
<1>5. ASSUME NEW i \in Job, MonitorMarks(i)
      PROVE  store'[j] \in {store[j], [store[j] EXCEPT !.followed = TRUE]}
  BY <1>5 DEF MonitorMarks, MarkFollowedUp, MarkFails, SaveFails, TypeOK
<1>6. [Next]_vars =>
        \/ UNCHANGED store
        \/ \E readable \in BOOLEAN : Recorded(readable)
        \/ Refreshed
        \/ KillSaved
        \/ \E i \in Job : MonitorMarks(i)
  BY DEF Next, vars, ProcStep, CommandEnds, CodeWritten, Dies, Reap, CallStep, Look,
         ReadCode, TimeOut, ProbeAlive, ProbeDead, LookAgain, Settle, KillSignal,
         ToolCall, Launch, Refresh, Tick, Crash, RecordFails, RefreshFails, KillFails, SaveFails
<1>. QED  BY <1>1, <1>2, <1>3, <1>4, <1>5, <1>6

\* What a record says of how its job ended is never taken back: not by a call
\* that writes its own copy of the store, not by a kill that comes too late.
THEOREM VerdictsAreFinal == Spec => VerdictIsFinal
<1>1. IInv /\ [Next]_vars =>
        [readErrors' = readErrors =>
           \A j \in Finished(store) :
             \/ store'[j] \in {store[j], [store[j] EXCEPT !.followed = TRUE]}
             \/ store[j].followed /\ store'[j] = NoRec]_vars
  BY KeepsVerdict
<1>. QED  BY <1>1, AlwaysIInv, PTL DEF Spec, VerdictIsFinal
=============================================================================
