--------------------------- MODULE AgentRunsProofs ---------------------------
(***************************************************************************)
(* Theorems about AgentRuns, for every set of clients and events, every    *)
(* number of runs and events and every grace period.                       *)
(***************************************************************************)
EXTENDS AgentRuns, SequenceTheorems, TLAPS

USE EventAssumption, BoundAssumption

-----------------------------------------------------------------------------
(* Which run a task works on.                                              *)

\* A task exists exactly for the runs started; one that has not run yet and was
\* not cancelled belongs to the session's current run (whoever replaces a run
\* cancels it), so that the lookup of _drain finds its own run; only a task
\* that has ended leaves its run terminal; streams belong to started runs.
OwnershipInv ==
  /\ \A r \in Run : pc[r] # "none" <=> r <= started
  /\ \A r \in Run : pc[r] = "created" /\ ~cancel[r] => cur = r
  /\ \A r \in Run : Terminal(r) => pc[r] = "ended"
  /\ \A c \in Client : spc[c] # "off" => srun[c] \in 1..started
  /\ DrainOwnsItsRun

Inv == TypeOK /\ OwnershipInv

LEMMA InitInv == Init => Inv
  BY DEF Init, Inv, TypeOK, OwnershipInv, DrainOwnsItsRun, Run, Status, Off,
         Terminal, Attached

LEMMA GraceBounds == {0, Grace} \subseteq 0..Grace
  OBVIOUS

\* The items _publish puts on a queue are well formed.
LEMMA ItemsType ==
  ASSUME NEW s \in Seq(Event), NEW n \in Nat
  PROVE  Items(n, s) \in Seq(Item \cup {End})
<1>1. \A i \in 1..Len(s) : [seq |-> n + i - 1, ev |-> s[i]] \in Item \cup {End}
  BY DEF Item
<1>. QED  BY <1>1 DEF Items

LEMMA FanoutType ==
  ASSUME TypeOK, NEW r \in Run, NEW evs \in Seq(Event),
         NEW tail \in Seq(Item \cup {End}), Fanout(r, evs, tail)
  PROVE  /\ buffer' \in [Run -> Seq(Event)]
         /\ queue' \in [Client -> Seq(Item \cup {End})]
<1>1. buffer' \in [Run -> Seq(Event)]
  BY DEF TypeOK, Fanout
<1>2. Items(Len(buffer[r]), evs) \in Seq(Item \cup {End})
  BY ItemsType DEF TypeOK
<1>3. \A c \in Client : queue[c] \o Items(Len(buffer[r]), evs) \o tail
                          \in Seq(Item \cup {End})
  BY <1>2 DEF TypeOK
<1>4. queue' \in [Client -> Seq(Item \cup {End})]
  BY <1>3 DEF TypeOK, Fanout
<1>. QED  BY <1>1, <1>4

\* No step of the program breaks the type or the ownership invariant.
LEMMA StepInv == Inv /\ [Next]_vars => Inv'
<1>. SUFFICES ASSUME Inv, [Next]_vars PROVE Inv'
  OBVIOUS
<1>. USE DEF Inv
<1>1. CASE Start
  <2>1. started + 1 \in Run /\ started \in 0..MaxRuns
    BY <1>1 DEF Start, InFlight, TypeOK, Run
  <2>2. timer' \in [Run -> {Off} \cup (0..Grace)]
    BY <1>1 DEF Start, InFlight, TypeOK
  <2>3. prev' \in [Run -> 0..MaxRuns]
    BY <1>1, <2>1 DEF Start, InFlight, TypeOK
  <2>4. cur' \in 0..started' /\ started' \in 0..MaxRuns
    BY <1>1, <2>1 DEF Start, InFlight, TypeOK, Run
  <2>8. TypeOK'
    BY <1>1, <2>2, <2>3, <2>4
       DEF Start, InFlight, subVars, TypeOK, Attached
  <2>5. /\ pc' = [pc EXCEPT ![started + 1] = "created"]
        /\ started' = started + 1
        /\ cur' = started + 1
        /\ UNCHANGED <<status, target, spc, srun>>
    BY <1>1 DEF Start, InFlight, subVars
  <2>6. \A r \in Run : ~cancel'[r] => ~cancel[r] /\ (r = cur => pc[r] = "ended")
    <3>1. 0 \notin Run
      BY DEF Run
    <3>. QED  BY <1>1, <3>1 DEF Start, InFlight
  <2>7. /\ \A r \in Run : pc'[r] # "none" <=> r <= started'
        /\ \A r \in Run : Terminal(r)' => pc'[r] = "ended"
    <3>1. \A r \in Run : r <= started' <=> r <= started \/ r = started + 1
      BY <2>1, <2>5 DEF Run
    <3>2. pc[started + 1] = "none" /\ ~Terminal(started + 1)
      BY <2>1 DEF TypeOK, OwnershipInv, Run
    <3>. QED  BY <2>1, <2>5, <3>1, <3>2 DEF TypeOK, OwnershipInv, Terminal
  <2>9. OwnershipInv'
    <3>1. \A r \in Run : pc'[r] = "created" /\ ~cancel'[r] => cur' = r
      BY <2>1, <2>5, <2>6 DEF TypeOK, OwnershipInv
    <3>2. \A c \in Client : spc'[c] # "off" => srun'[c] \in 1..started'
      BY <2>1, <2>5 DEF TypeOK, OwnershipInv
    <3>3. DrainOwnsItsRun'
      BY <2>1, <2>5 DEF TypeOK, OwnershipInv, DrainOwnsItsRun
    <3>. QED  BY <2>7, <3>1, <3>2, <3>3 DEF OwnershipInv
  <2>. QED  BY <2>8, <2>9
<1>2. CASE Stop
  <2>8. TypeOK'
    BY <1>2
       DEF Stop, InFlight, subVars, runVars, TypeOK, Attached
  <2>9. OwnershipInv'
    BY <1>2
       DEF Stop, InFlight, subVars, runVars, TypeOK, OwnershipInv, DrainOwnsItsRun, Run, Terminal, Attached
  <2>. QED  BY <2>8, <2>9
<1>3. ASSUME NEW r \in Run, Begin(r)
      PROVE  Inv'
  <2>8. TypeOK'
    BY <1>3
       DEF Begin, subVars, runVars, TypeOK, Attached
  <2>9. OwnershipInv'
    BY <1>3
       DEF Begin, subVars, runVars, TypeOK, OwnershipInv, DrainOwnsItsRun, Run, Terminal, Attached
  <2>. QED  BY <2>8, <2>9
<1>4. ASSUME NEW r \in Run, PrevEnded(r)
      PROVE  Inv'
  <2>8. TypeOK'
    BY <1>4
       DEF PrevEnded, subVars, runVars, TypeOK, Attached
  <2>9. OwnershipInv'
    BY <1>4
       DEF PrevEnded, subVars, runVars, TypeOK, OwnershipInv, DrainOwnsItsRun, Run, Terminal, Attached
  <2>. QED  BY <2>8, <2>9
<1>5. ASSUME NEW r \in Run, CancelledWaiting(r)
      PROVE  Inv'
  <2>8. TypeOK'
    BY <1>5
       DEF CancelledWaiting, subVars, runVars, TypeOK, Attached
  <2>9. OwnershipInv'
    BY <1>5
       DEF CancelledWaiting, subVars, runVars, TypeOK, OwnershipInv, DrainOwnsItsRun, Run, Terminal, Attached
  <2>. QED  BY <2>8, <2>9
<1>6. ASSUME NEW r \in Run, NEW ev \in Event, Publish(r, ev)
      PROVE  Inv'
  <2>1. target[r] = r
    BY <1>6 DEF Publish, OwnershipInv, DrainOwnsItsRun
  <2>2. <<ev>> \in Seq(Event) /\ <<>> \in Seq(Item \cup {End})
    OBVIOUS
  <2>3. Fanout(r, <<ev>>, <<>>)
    BY <1>6, <2>1 DEF Publish
  <2>4. buffer' \in [Run -> Seq(Event)] /\ queue' \in [Client -> Seq(Item \cup {End})]
    BY <2>2, <2>3, FanoutType
  <2>8. TypeOK'
    BY <1>6, <2>4
       DEF Publish, taskVars, TypeOK, Attached
  <2>9. OwnershipInv'
    BY <1>6
       DEF Publish, taskVars, TypeOK, OwnershipInv, DrainOwnsItsRun, Run, Terminal, Attached
  <2>. QED  BY <2>8, <2>9
<1>7. ASSUME NEW r \in Run, CancelDelivered(r)
      PROVE  Inv'
  <2>8. TypeOK'
    BY <1>7
       DEF CancelDelivered, subVars, runVars, TypeOK, Attached
  <2>9. OwnershipInv'
    BY <1>7
       DEF CancelDelivered, subVars, runVars, TypeOK, OwnershipInv, DrainOwnsItsRun, Run, Terminal, Attached
  <2>. QED  BY <2>8, <2>9
<1>8. ASSUME NEW r \in Run, NEW st \in Status, NEW evs \in Seq(Event),
            pc[r] \in {"streaming", "closing"}, Finish(r, st, evs)
      PROVE  Inv'
  <2>1. target[r] = r
    BY <1>8 DEF OwnershipInv, DrainOwnsItsRun
  <2>2. <<End>> \in Seq(Item \cup {End})
    OBVIOUS
  <2>3. buffer' \in [Run -> Seq(Event)] /\ queue' \in [Client -> Seq(Item \cup {End})]
    BY <1>8, <2>1, <2>2, FanoutType DEF Finish
  <2>4. timer' \in [Run -> {Off} \cup (0..Grace)]
    BY <1>8 DEF Finish, ScheduleEvict, TypeOK
  <2>5. quiet' \in [Run -> 0..Grace] /\ status' \in [Run -> Status]
    BY <1>8, <2>1 DEF Finish, TypeOK
  <2>8. TypeOK'
    BY <1>8, <2>3, <2>4, <2>5
       DEF Finish, TypeOK, Attached
  <2>9. OwnershipInv'
    BY <1>8, <2>1
       DEF Finish, TypeOK, OwnershipInv, DrainOwnsItsRun, Run, Terminal, Attached
  <2>. QED  BY <2>8, <2>9
<1>9. ASSUME NEW r \in Run, Complete(r) \/ Fail(r) \/ Stopped(r)
      PROVE  Inv'
  <2>1. <<>> \in Seq(Event) /\ <<ErrorEvent, DoneEvent>> \in Seq(Event)
    OBVIOUS
  <2>. QED
    BY <1>8, <1>9, <2>1 DEF Complete, Fail, Stopped, Status
<1>10. ASSUME NEW c \in Client, Subscribe(c)
       PROVE  Inv'
  <2>1. cur \in Run /\ cur \in 1..started /\ buffer[cur] \in Seq(Event)
    BY <1>10 DEF Subscribe, TypeOK, Run
  <2>2. buffer[cur] # <<>> => Head(buffer[cur]) \in Event
    BY <2>1
  <2>3. out' \in [Client -> Seq(Event)] /\ next' \in [Client -> Nat]
    BY <1>10, <2>1, <2>2 DEF Subscribe, TypeOK
  <2>4. timer' \in [Run -> {Off} \cup (0..Grace)]
    <3>1. PICK t \in {Off, Grace} : timer' = [timer EXCEPT ![cur] = t]
      BY <1>10 DEF Subscribe
    <3>. QED  BY <3>1, GraceBounds DEF TypeOK
  <2>7. quiet' \in [Run -> 0..Grace]
    <3>1. quiet' = [quiet EXCEPT ![cur] = 0]
      BY <1>10 DEF Subscribe
    <3>. QED  BY <3>1, GraceBounds DEF TypeOK
  <2>5. queue' \in [Client -> Seq(Item \cup {End})]
    BY <1>10 DEF Subscribe, TypeOK
  <2>6. /\ spc' \in [Client -> Attached \cup {"off", "done"}]
        /\ srun' \in [Client -> 0..MaxRuns]
    <3>1. spc' \in [Client -> Attached \cup {"off", "done"}]
      BY <1>10 DEF Subscribe, TypeOK, Attached
    <3>2. srun' \in [Client -> 0..MaxRuns]
      BY <1>10, <2>1 DEF Subscribe, TypeOK, Run
    <3>. QED  BY <3>1, <3>2
  <2>8. TypeOK'
    BY <1>10, <2>3, <2>4, <2>5, <2>6, <2>7
       DEF Subscribe, taskVars, TypeOK, Attached
  <2>9. OwnershipInv'
    BY <1>10, <2>1
       DEF Subscribe, taskVars, TypeOK, OwnershipInv, DrainOwnsItsRun, Run, Terminal, Attached
  <2>. QED  BY <2>8, <2>9
<1>11. ASSUME NEW c \in Client, NEW at \in Attached, spc[c] \in Attached,
             YieldFromBuffer(c, at)
       PROVE  Inv'
  <2>1. srun[c] \in Run
    BY <1>11 DEF TypeOK, OwnershipInv, Run, Attached
  <2>2. buffer[srun[c]][next[c] + 1] \in Event
    BY <1>11, <2>1 DEF YieldFromBuffer, TypeOK
  <2>3. out' \in [Client -> Seq(Event)] /\ next' \in [Client -> Nat]
    BY <1>11, <2>2 DEF YieldFromBuffer, TypeOK
  <2>4. spc' \in [Client -> Attached \cup {"off", "done"}]
    BY <1>11 DEF YieldFromBuffer, TypeOK
  <2>8. TypeOK'
    BY <1>11, <2>3, <2>4
       DEF YieldFromBuffer, taskVars, runVars, TypeOK, Attached
  <2>9. OwnershipInv'
    BY <1>11
       DEF YieldFromBuffer, taskVars, runVars, TypeOK, OwnershipInv, DrainOwnsItsRun, Run, Terminal, Attached
  <2>. QED  BY <2>8, <2>9
<1>12. ASSUME NEW c \in Client, NEW e \in BOOLEAN, spc[c] \in Attached, Leave(c, e)
       PROVE  Inv'
  <2>1. timer' \in [Run -> {Off} \cup (0..Grace)]
    <3>1. ScheduleEvict \in [Run -> {Off} \cup (0..Grace)]
      BY DEF ScheduleEvict, TypeOK
    <3>. QED  BY <1>12, <3>1 DEF Leave, Rearm, TypeOK
  <2>2. /\ spc' \in [Client -> Attached \cup {"off", "done"}]
        /\ srun' \in [Client -> 0..MaxRuns]
    BY <1>12 DEF Leave, TypeOK
  <2>3. /\ queue' \in [Client -> Seq(Item \cup {End})]
        /\ next' \in [Client -> Nat]
    BY <1>12 DEF Leave, TypeOK
  <2>4. out' \in [Client -> Seq(Event)]
    BY <1>12 DEF Leave, TypeOK
  <2>5. quiet' \in [Run -> 0..Grace]
    <3>1. quiet' = [quiet EXCEPT ![srun[c]] = 0]
      BY <1>12 DEF Leave
    <3>. QED  BY <3>1, GraceBounds DEF TypeOK
  <2>8. TypeOK'
    BY <1>12, <2>1, <2>2, <2>3, <2>4, <2>5
       DEF Leave, taskVars, TypeOK, Attached
  <2>9. OwnershipInv'
    BY <1>12
       DEF Leave, taskVars, TypeOK, OwnershipInv, DrainOwnsItsRun, Run, Terminal, Attached
  <2>. QED  BY <2>8, <2>9
<1>13. ASSUME NEW c \in Client, GoLive(c)
       PROVE  Inv'
  <2>8. TypeOK'
    BY <1>13
       DEF GoLive, taskVars, runVars, TypeOK, Attached
  <2>9. OwnershipInv'
    BY <1>13
       DEF GoLive, taskVars, runVars, TypeOK, OwnershipInv, DrainOwnsItsRun, Run, Terminal, Attached
  <2>. QED  BY <2>8, <2>9
<1>14. ASSUME NEW c \in Client, Receive(c)
       PROVE  Inv'
  <2>1. Head(queue[c]) \in Item
    BY <1>14 DEF Receive, TypeOK
  <2>2. Tail(queue[c]) \in Seq(Item \cup {End})
    BY <1>14 DEF Receive, TypeOK
  <2>3. /\ queue' \in [Client -> Seq(Item \cup {End})]
        /\ next' \in [Client -> Nat]
        /\ out' \in [Client -> Seq(Event)]
    <3>1. queue' \in [Client -> Seq(Item \cup {End})]
      BY <1>14, <2>2 DEF Receive, TypeOK
    <3>2. CASE ~Replayed(c, Head(queue[c]))
      <4>1. /\ next' = [next EXCEPT ![c] = Head(queue[c]).seq + 1]
            /\ out' = [out EXCEPT ![c] = Append(@, Head(queue[c]).ev)]
        BY <1>14, <3>2 DEF Receive
      <4>2. Head(queue[c]).seq + 1 \in Nat /\ Head(queue[c]).ev \in Event
        BY <2>1 DEF Item
      <4>. QED  BY <3>1, <4>1, <4>2 DEF TypeOK
    <3>3. CASE Replayed(c, Head(queue[c]))
      BY <1>14, <3>1, <3>3 DEF Receive, TypeOK
    <3>. QED  BY <3>2, <3>3
  <2>8. TypeOK'
    BY <1>14, <2>3
       DEF Receive, taskVars, runVars, Item, TypeOK, Attached
  <2>9. OwnershipInv'
    BY <1>14
       DEF Receive, taskVars, runVars, TypeOK, OwnershipInv, DrainOwnsItsRun, Run, Terminal, Attached
  <2>. QED  BY <2>8, <2>9
<1>15. ASSUME NEW c \in Client, Deliver(c) \/ Disconnect(c)
       PROVE  Inv'
  BY <1>11, <1>12, <1>13, <1>14, <1>15
     DEF Deliver, Disconnect, ReplayNext, ReplayEnd, FlushNext, FlushEnd,
         EndSeen, Attached
<1>16. ASSUME NEW r \in Run, Evict(r)
       PROVE  Inv'
  <2>8. TypeOK'
    BY <1>16
       DEF Evict, subVars, taskVars, TypeOK, Attached
  <2>9. OwnershipInv'
    BY <1>16
       DEF Evict, Evictable, subVars, taskVars, TypeOK, OwnershipInv, DrainOwnsItsRun, Run, Terminal, Attached
  <2>. QED  BY <2>8, <2>9
<1>17. CASE Tick
  <2>1. ASSUME NEW r \in Run
        PROVE  timer'[r] \in {Off} \cup (0..Grace) /\ quiet'[r] \in 0..Grace
    BY <1>17, <2>1 DEF Tick, TypeOK, Off
  <2>2. timer' \in [Run -> {Off} \cup (0..Grace)] /\ quiet' \in [Run -> 0..Grace]
    BY <1>17, <2>1 DEF Tick
  <2>8. TypeOK'
    BY <1>17, <2>2
       DEF Tick, subVars, taskVars, TypeOK, Attached
  <2>9. OwnershipInv'
    BY <1>17
       DEF Tick, subVars, taskVars, TypeOK, OwnershipInv, DrainOwnsItsRun, Run, Terminal, Attached
  <2>. QED  BY <2>8, <2>9
<1>18. CASE UNCHANGED vars
  <2>8. TypeOK'
    BY <1>18
       DEF vars, runVars, taskVars, subVars, TypeOK, Attached
  <2>9. OwnershipInv'
    BY <1>18
       DEF vars, runVars, taskVars, subVars, TypeOK, OwnershipInv, DrainOwnsItsRun, Run, Terminal, Attached
  <2>. QED  BY <2>8, <2>9
<1>. QED
  BY <1>1, <1>2, <1>3, <1>4, <1>5, <1>6, <1>7, <1>9, <1>10, <1>15, <1>16,
     <1>17, <1>18
     DEF Next, DrainStep

LEMMA SpecInv == Spec => []Inv
<1>. QED  BY InitInv, StepInv, PTL DEF Spec

\* Every state of the manager is well formed.
THEOREM TypeCorrect == Spec => []TypeOK
<1>1. Inv => TypeOK
  BY DEF Inv
<1>. QED  BY <1>1, SpecInv, PTL

\* A drain never publishes to, or ends, a run other than its own, although it
\* looks the run up by session id long after start() created it.
THEOREM DrainOwnership == Spec => []DrainOwnsItsRun
<1>1. Inv => DrainOwnsItsRun
  BY DEF Inv, OwnershipInv
<1>. QED  BY <1>1, SpecInv, PTL

-----------------------------------------------------------------------------
(* What the streams carry.                                                 *)

\* q holds the last events of the log b, in order, with their positions.
LastItems(q, b) ==
  /\ Len(q) <= Len(b)
  /\ \A i \in 1..Len(q) : q[i] = [seq |-> Len(b) - Len(q) + i - 1,
                                  ev  |-> b[Len(b) - Len(q) + i]]

\* A queue is such a list, followed by the sentinel once the run has ended; the
\* list of a live client reaches back to what it has been sent.
QueueHolds(c) ==
  \E d \in Seq(Item) :
    /\ LastItems(d, buffer[srun[c]])
    /\ \/ queue[c] = d
       \/ Terminal(srun[c]) /\ queue[c] = d \o <<End>>
    /\ spc[c] = "live" => Len(buffer[srun[c]]) <= next[c] + Len(d)

PrefixSent(c) ==
  /\ Len(out[c]) <= Len(buffer[srun[c]])
  /\ \A i \in 1..Len(out[c]) : out[c][i] = buffer[srun[c]][i]

\* The strengthening of the two stream invariants that is inductive.
StreamInv(c) ==
  /\ spc[c] \in Attached => /\ next[c] = Len(out[c])
                            /\ QueueHolds(c)
  /\ spc[c] = "flush" => Terminal(srun[c])
  /\ spc[c] # "off" => PrefixSent(c)
  /\ spc[c] = "done" => Terminal(srun[c]) /\ out[c] = buffer[srun[c]]

LEMMA ConcatFacts ==
  ASSUME NEW S, NEW s \in Seq(S), NEW t \in Seq(S)
  PROVE  /\ s \o t \in Seq(S)
         /\ Len(s \o t) = Len(s) + Len(t)
         /\ \A i \in 1..Len(s) : (s \o t)[i] = s[i]
         /\ \A i \in 1..Len(t) : (s \o t)[Len(s) + i] = t[i]
  OBVIOUS

\* Appending events to the log and their items to the list.
LEMMA LastItemsAppend ==
  ASSUME NEW b \in Seq(Event), NEW d \in Seq(Item), LastItems(d, b),
         NEW evs \in Seq(Event)
  PROVE  /\ d \o Items(Len(b), evs) \in Seq(Item)
         /\ Len(d \o Items(Len(b), evs)) = Len(d) + Len(evs)
         /\ LastItems(d \o Items(Len(b), evs), b \o evs)
<1>1. /\ Items(Len(b), evs) \in Seq(Item)
      /\ Len(Items(Len(b), evs)) = Len(evs)
      /\ \A i \in 1..Len(evs) :
           Items(Len(b), evs)[i] = [seq |-> Len(b) + i - 1, ev |-> evs[i]]
  <2>1. \A i \in 1..Len(evs) : [seq |-> Len(b) + i - 1, ev |-> evs[i]] \in Item
    BY DEF Item
  <2>. QED  BY <2>1 DEF Items
<1>. DEFINE e == d \o Items(Len(b), evs)
            n == Len(d)
            k == Len(evs)
<1>2. /\ e \in Seq(Item)
      /\ Len(e) = n + k
      /\ \A i \in 1..n : e[i] = d[i]
      /\ \A i \in 1..k : e[n + i] = Items(Len(b), evs)[i]
  <2>. DEFINE t == Items(Len(b), evs)
  <2>1. t \in Seq(Item) /\ Len(t) = k
    BY <1>1
  <2>. HIDE DEF t
  <2>2. /\ d \o t \in Seq(Item)
        /\ Len(d \o t) = n + Len(t)
        /\ \A i \in 1..n : (d \o t)[i] = d[i]
        /\ \A i \in 1..Len(t) : (d \o t)[n + i] = t[i]
    <3>. HIDE DEF n, e, k
    <3>1. Len(d) = n
      BY DEF n
    <3>2. d \o t \in Seq(Item)
      BY <2>1
    <3>3. Len(d \o t) = n + Len(t)
      BY <2>1, <3>1, ConcatProperties
    <3>4. \A i \in 1..n : (d \o t)[i] = d[i]
      BY <2>1, <3>1
    <3>5. \A i \in 1..Len(t) : (d \o t)[n + i] = t[i]
      BY <2>1, <3>1
    <3>. QED  BY <3>2, <3>3, <3>4, <3>5
  <2>. QED  BY <2>1, <2>2 DEF t
<1>3. /\ Len(b \o evs) = Len(b) + k
      /\ \A i \in 1..Len(b) : (b \o evs)[i] = b[i]
      /\ \A i \in 1..k : (b \o evs)[Len(b) + i] = evs[i]
  BY ConcatFacts
<1>4. n \in Nat /\ k \in Nat /\ Len(b) \in Nat /\ n <= Len(b)
  BY DEF LastItems
<1>. HIDE DEF e, n, k
<1>5. ASSUME NEW i \in 1..n
      PROVE  e[i] = [seq |-> Len(b) - n + i - 1, ev |-> (b \o evs)[Len(b) - n + i]]
  <2>1. Len(b) - n + i \in 1..Len(b)
    BY <1>4
  <2>2. (b \o evs)[Len(b) - n + i] = b[Len(b) - n + i]
    BY <1>3, <2>1
  <2>3. d[i] = [seq |-> Len(b) - n + i - 1, ev |-> b[Len(b) - n + i]]
    BY DEF LastItems, n
  <2>. QED  BY <1>2, <2>2, <2>3
<1>6. ASSUME NEW i \in 1..k
      PROVE  e[n + i] = [seq |-> Len(b) + i - 1, ev |-> (b \o evs)[Len(b) + i]]
  <2>1. Items(Len(b), evs)[i] = [seq |-> Len(b) + i - 1, ev |-> evs[i]]
    BY <1>1 DEF k
  <2>. QED  BY <1>2, <1>3, <2>1
<1>7. ASSUME NEW j \in 1..(n + k)
      PROVE  e[j] = [seq |-> (Len(b) + k) - (n + k) + j - 1,
                     ev  |-> (b \o evs)[(Len(b) + k) - (n + k) + j]]
  <2>1. /\ (Len(b) + k) - (n + k) + j = Len(b) - n + j
        /\ (Len(b) + k) - (n + k) + j - 1 = Len(b) - n + j - 1
    BY <1>4
  <2>2. CASE j \in 1..n
    BY <1>5, <2>1, <2>2
  <2>3. CASE j \notin 1..n
    <3>1. PICK i \in 1..k : j = n + i
      BY <1>4, <2>3
    <3>2. Len(b) - n + j = Len(b) + i /\ Len(b) - n + j - 1 = Len(b) + i - 1
      BY <1>4, <3>1
    <3>3. e[j] = [seq |-> Len(b) + i - 1, ev |-> (b \o evs)[Len(b) + i]]
      BY <1>6, <3>1
    <3>. QED  BY <2>1, <3>2, <3>3
  <2>. QED  BY <2>2, <2>3
<1>8. LastItems(e, b \o evs)
  <2>1. Len(e) = n + k /\ Len(b \o evs) = Len(b) + k
    BY <1>2, <1>3
  <2>2. Len(e) <= Len(b \o evs)
    BY <1>4, <2>1
  <2>3. \A j \in 1..Len(e) :
          e[j] = [seq |-> Len(b \o evs) - Len(e) + j - 1,
                  ev  |-> (b \o evs)[Len(b \o evs) - Len(e) + j]]
    BY ONLY <1>7, <2>1
  <2>. QED  BY ONLY <2>2, <2>3 DEF LastItems
<1>. QED  BY <1>2, <1>8 DEF e, n, k

\* Taking the first item of the list.
LEMMA LastItemsTail ==
  ASSUME NEW b \in Seq(Event), NEW d \in Seq(Item), LastItems(d, b), d # <<>>
  PROVE  /\ LastItems(Tail(d), b)
         /\ Len(Tail(d)) = Len(d) - 1
         /\ Head(d) = [seq |-> Len(b) - Len(d), ev |-> b[Len(b) - Len(d) + 1]]
<1>1. /\ Len(d) \in Nat \ {0}
      /\ Len(b) \in Nat
      /\ Len(Tail(d)) = Len(d) - 1
      /\ \A i \in 1..(Len(d) - 1) : Tail(d)[i] = d[i + 1]
      /\ Head(d) = d[1]
  OBVIOUS
<1>2. ASSUME NEW i \in 1..(Len(d) - 1)
      PROVE  d[i + 1] = [seq |-> Len(b) - (Len(d) - 1) + i - 1,
                         ev  |-> b[Len(b) - (Len(d) - 1) + i]]
  <2>1. i + 1 \in 1..Len(d)
    BY <1>1
  <2>2. Len(b) - Len(d) + (i + 1) = Len(b) - (Len(d) - 1) + i
    BY <1>1
  <2>. QED  BY <2>1, <2>2 DEF LastItems
<1>3. LastItems(Tail(d), b)
  BY <1>1, <1>2 DEF LastItems
<1>4. d[1] = [seq |-> Len(b) - Len(d), ev |-> b[Len(b) - Len(d) + 1]]
  <2>1. d[1] = [seq |-> Len(b) - Len(d) + 1 - 1, ev |-> b[Len(b) - Len(d) + 1]]
    BY <1>1 DEF LastItems
  <2>. QED  BY <1>1, <2>1
<1>. QED  BY <1>1, <1>3, <1>4

\* A step that changes neither the client nor its run.
LEMMA FrameStream ==
  ASSUME NEW c \in Client, StreamInv(c),
         spc'[c] = spc[c], srun'[c] = srun[c], queue'[c] = queue[c],
         next'[c] = next[c], out'[c] = out[c],
         spc[c] # "off" => /\ buffer'[srun[c]] = buffer[srun[c]]
                           /\ status'[srun[c]] = status[srun[c]]
  PROVE  StreamInv(c)'
BY DEF StreamInv, QueueHolds, PrefixSent, Terminal, Attached

\* _publish, with or without the end of the run, to the run the client reads.
LEMMA FanoutStream ==
  ASSUME Inv, NEW c \in Client, StreamInv(c),
         NEW evs \in Seq(Event), NEW tail \in {<<>>, <<End>>},
         ~Terminal(srun[c]), spc[c] \in Attached,
         Fanout(srun[c], evs, tail),
         spc'[c] = spc[c], srun'[c] = srun[c], next'[c] = next[c], out'[c] = out[c],
         tail = <<End>> => Terminal(srun[c])'
  PROVE  StreamInv(c)'
<1>. DEFINE b == buffer[srun[c]]
<1>1. srun[c] \in Run /\ b \in Seq(Event) /\ queue[c] \in Seq(Item \cup {End})
      /\ out[c] \in Seq(Event) /\ next[c] \in Nat
  BY DEF Inv, TypeOK, OwnershipInv, Run, Attached
<1>2. PICK d \in Seq(Item) : /\ LastItems(d, b)
                             /\ queue[c] = d
                             /\ spc[c] = "live" => Len(b) <= next[c] + Len(d)
  BY DEF StreamInv, QueueHolds
<1>3. buffer'[srun[c]] = b \o evs
  BY <1>1 DEF Fanout, Inv, TypeOK
<1>. DEFINE e == d \o Items(Len(b), evs)
<1>4. queue'[c] = e \o tail
  BY <1>2 DEF Fanout, Subscribers
<1>5. e \in Seq(Item) /\ Len(e) = Len(d) + Len(evs) /\ LastItems(e, b \o evs)
  BY <1>1, <1>2, LastItemsAppend
<1>6. /\ Len(b \o evs) = Len(b) + Len(evs)
      /\ \A i \in 1..Len(b) : (b \o evs)[i] = b[i]
      /\ Len(b) \in Nat /\ Len(evs) \in Nat /\ Len(d) \in Nat
  BY <1>1
<1>. HIDE DEF e, b
<1>7. queue'[c] = e \/ (Terminal(srun[c])' /\ queue'[c] = e \o <<End>>)
  <2>1. CASE tail = <<>>
    BY <1>4, <1>5, <2>1
  <2>2. CASE tail = <<End>>
    BY <1>4, <2>2
  <2>. QED  BY <2>1, <2>2
<1>8. spc[c] = "live" => Len(b \o evs) <= next[c] + Len(e)
  BY <1>1, <1>2, <1>5, <1>6
<1>9. QueueHolds(c)'
  BY <1>3, <1>5, <1>7, <1>8 DEF QueueHolds, Terminal
<1>10. PrefixSent(c)'
  <2>1. PrefixSent(c)
    BY DEF StreamInv, Attached
  <2>2. Len(out[c]) <= Len(b) /\ \A i \in 1..Len(out[c]) : out[c][i] = b[i]
    BY <2>1 DEF PrefixSent, b
  <2>3. buffer'[srun'[c]] = b \o evs
    BY <1>3
  <2>4. Len(out[c]) <= Len(b \o evs)
    BY <1>1, <1>6, <2>2
  <2>5. \A i \in 1..Len(out[c]) : out[c][i] = (b \o evs)[i]
    BY <1>1, <1>6, <2>2
  <2>. QED  BY <2>3, <2>4, <2>5 DEF PrefixSent
<1>. QED  BY <1>9, <1>10 DEF StreamInv, Attached, Terminal

\* No step of the program breaks the stream invariant of any client.
LEMMA StepStream ==
  ASSUME Inv, [Next]_vars, NEW c \in Client, StreamInv(c)
  PROVE  StreamInv(c)'
<1>. DEFINE b == buffer[srun[c]]
<1>a. spc[c] # "off" => /\ srun[c] \in Run
                        /\ buffer[srun[c]] \in Seq(Event)
                        /\ out[c] \in Seq(Event)
                        /\ next[c] \in Nat
  BY DEF Inv, TypeOK, OwnershipInv, Run
<1>b. \A r \in Run : pc[r] \in {"streaming", "closing"} => target[r] = r /\ ~Terminal(r)
  BY DEF Inv, OwnershipInv, DrainOwnsItsRun
<1>1. CASE UNCHANGED <<subVars, buffer, status>>
  BY <1>1, FrameStream DEF subVars
<1>2. ASSUME NEW r \in Run, NEW ev \in Event, Publish(r, ev)
      PROVE  StreamInv(c)'
  <2>1. target[r] = r /\ ~Terminal(r)
    BY <1>2, <1>b DEF Publish
  <2>2. CASE c \in Subscribers(r)
    <3>1. Fanout(srun[c], <<ev>>, <<>>) /\ srun[c] = r /\ spc[c] \in Attached
      BY <1>2, <2>1, <2>2 DEF Publish, Subscribers
    <3>2. <<ev>> \in Seq(Event) /\ <<>> \in {<<>>, <<End>>} /\ <<>> # <<End>>
      OBVIOUS
    <3>. QED
      BY <1>2, <2>1, <3>1, <3>2, FanoutStream DEF Publish
  <2>3. CASE c \notin Subscribers(r)
    <3>1. spc[c] # "off" => srun[c] # r
      BY <2>1, <2>3 DEF StreamInv, Subscribers, Inv, TypeOK
    <3>2. queue'[c] = queue[c]
      BY <1>2, <2>1, <2>3 DEF Publish, Fanout
    <3>3. spc[c] # "off" => buffer'[srun[c]] = buffer[srun[c]]
      BY <1>2, <1>a, <2>1, <3>1 DEF Publish, Fanout, Inv, TypeOK
    <3>. QED
      BY <1>2, <3>2, <3>3, FrameStream DEF Publish
  <2>. QED  BY <2>2, <2>3
<1>3. ASSUME NEW r \in Run, NEW st \in Status \ {"running"}, NEW evs \in Seq(Event),
             pc[r] \in {"streaming", "closing"}, Finish(r, st, evs)
      PROVE  StreamInv(c)'
  <2>1. target[r] = r /\ ~Terminal(r)
    BY <1>3, <1>b
  <2>2. status' = [status EXCEPT ![r] = st]
    BY <1>3, <2>1 DEF Finish
  <2>3. CASE c \in Subscribers(r)
    <3>1. Fanout(srun[c], evs, <<End>>) /\ srun[c] = r /\ spc[c] \in Attached
      BY <1>3, <2>1, <2>3 DEF Finish, Subscribers
    <3>2. Terminal(srun[c])'
      <4>1. status'[r] = st
        BY <2>2 DEF Inv, TypeOK
      <4>. QED  BY <1>3, <3>1, <4>1 DEF Finish, Terminal
    <3>. QED
      BY <1>3, <2>1, <3>1, <3>2, FanoutStream DEF Finish
  <2>4. CASE c \notin Subscribers(r)
    <3>1. spc[c] # "off" => srun[c] # r
      BY <2>1, <2>4 DEF StreamInv, Subscribers, Inv, TypeOK
    <3>2. queue'[c] = queue[c]
      BY <1>3, <2>1, <2>4 DEF Finish, Fanout
    <3>3. spc[c] # "off" => /\ buffer'[srun[c]] = buffer[srun[c]]
                            /\ status'[srun[c]] = status[srun[c]]
      BY <1>3, <1>a, <2>1, <2>2, <3>1 DEF Finish, Fanout, Inv, TypeOK
    <3>. QED
      BY <1>3, <3>2, <3>3, FrameStream DEF Finish
  <2>. QED  BY <2>3, <2>4
<1>4. ASSUME NEW r \in Run, Complete(r) \/ Fail(r) \/ Stopped(r)
      PROVE  StreamInv(c)'
  <2>1. <<>> \in Seq(Event) /\ <<ErrorEvent, DoneEvent>> \in Seq(Event)
    OBVIOUS
  <2>2. {"done", "error", "stopped"} \subseteq Status \ {"running"}
    BY DEF Status
  <2>. QED
    BY <1>3, <1>4, <2>1, <2>2 DEF Complete, Fail, Stopped
<1>5. ASSUME Subscribe(c)
      PROVE  StreamInv(c)'
  <2>. DEFINE l == buffer[cur]
              first == IF l = <<>> THEN <<>> ELSE <<Head(l)>>
  <2>1. cur \in Run /\ l \in Seq(Event)
    BY <1>5 DEF Subscribe, Inv, TypeOK, Run
  <2>2. /\ srun'[c] = cur
        /\ queue'[c] = <<>>
        /\ next'[c] = Len(first)
        /\ out'[c] = first
        /\ buffer' = buffer
        /\ status' = status
    BY <1>5 DEF Subscribe, Inv, TypeOK
  <2>3. spc'[c] = IF first # <<>> THEN "replay"
                  ELSE IF ~Terminal(cur) THEN "live" ELSE "done"
    BY <1>5 DEF Subscribe, Inv, TypeOK
  <2>4. /\ Len(first) <= Len(l)
        /\ \A i \in 1..Len(first) : first[i] = l[i]
        /\ first = <<>> => l = <<>> /\ Len(l) = 0
    BY <2>1
  <2>. HIDE DEF l, first
  <2>5. PrefixSent(c)'
    BY <2>2, <2>4 DEF PrefixSent, l
  <2>6. QueueHolds(c)'
    <3>1. <<>> \in Seq(Item) /\ Len(<<>>) = 0 /\ Len(l) \in Nat
      BY <2>1
    <3>2. LastItems(<<>>, l)
      BY <3>1 DEF LastItems
    <3>3. spc'[c] = "live" => Len(l) <= next'[c] + Len(<<>>)
      BY <2>2, <2>3, <2>4, <3>1
    <3>. QED  BY <2>2, <3>1, <3>2, <3>3 DEF QueueHolds, l
  <2>7. spc'[c] = "done" => Terminal(srun[c])' /\ out'[c] = buffer'[srun'[c]]
    BY <2>2, <2>3, <2>4 DEF Terminal, l
  <2>. QED
    BY <2>2, <2>3, <2>5, <2>6, <2>7 DEF StreamInv, Attached
<1>6. ASSUME NEW at \in {"replay", "flush"}, spc[c] \in Attached,
             at = "flush" => Terminal(srun[c]), YieldFromBuffer(c, at)
      PROVE  StreamInv(c)'
  <2>1. /\ spc'[c] = at /\ srun'[c] = srun[c] /\ queue'[c] = queue[c]
        /\ next'[c] = next[c] + 1 /\ out'[c] = Append(out[c], b[next[c] + 1])
        /\ buffer' = buffer /\ status' = status
        /\ next[c] < Len(b)
    BY <1>6 DEF YieldFromBuffer, runVars, Inv, TypeOK
  <2>2. next[c] = Len(out[c]) /\ QueueHolds(c) /\ PrefixSent(c)
    BY <1>6 DEF StreamInv, Attached
  <2>3. /\ out[c] \in Seq(Event) /\ b \in Seq(Event) /\ b[next[c] + 1] \in Event
    BY <1>6, <1>a, <2>1, <2>2 DEF Attached
  <2>. HIDE DEF b
  <2>4. PrefixSent(c)'
    BY <2>1, <2>2, <2>3 DEF PrefixSent, b
  <2>5. QueueHolds(c)'
    BY <1>6, <2>1, <2>2 DEF QueueHolds, Terminal
  <2>6. next'[c] = Len(out'[c])
    BY <2>1, <2>2, <2>3
  <2>. QED
    BY <1>6, <2>1, <2>4, <2>5, <2>6 DEF StreamInv, Terminal, Attached
<1>7. ASSUME NEW ended \in BOOLEAN, spc[c] \in Attached, Leave(c, ended),
             ended => next[c] = Len(b) /\ Terminal(srun[c])
      PROVE  StreamInv(c)'
  <2>1. CASE ~ended
    BY <1>7, <2>1 DEF Leave, StreamInv, Attached, Inv, TypeOK
  <2>2. CASE ended
    <3>1. /\ spc'[c] = "done" /\ srun'[c] = srun[c] /\ out'[c] = out[c]
          /\ buffer' = buffer /\ status' = status
      BY <1>7, <2>2 DEF Leave, Inv, TypeOK
    <3>2. next[c] = Len(out[c]) /\ PrefixSent(c)
      BY <1>7 DEF StreamInv, Attached
    <3>3. out[c] = b
      <4>1. out[c] \in Seq(Event) /\ b \in Seq(Event) /\ Len(out[c]) = Len(b)
        BY <1>7, <1>a, <2>2, <3>2 DEF Attached
      <4>2. \A i \in 1..Len(b) : out[c][i] = b[i]
        BY <3>2, <4>1 DEF PrefixSent
      <4>. QED  BY <4>1, <4>2, SeqEqual
    <3>. QED
      BY <1>7, <2>2, <3>1, <3>2, <3>3 DEF StreamInv, PrefixSent, Terminal, Attached
  <2>. QED  BY <2>1, <2>2
<1>8. ASSUME GoLive(c)
      PROVE  StreamInv(c)'
  <2>1. /\ spc[c] = "replay" /\ spc'[c] = "live" /\ srun'[c] = srun[c]
        /\ queue' = queue /\ next' = next /\ out' = out
        /\ buffer' = buffer /\ status' = status
        /\ next[c] = Len(b)
    BY <1>8 DEF GoLive, runVars, Inv, TypeOK
  <2>2. PICK d \in Seq(Item) : /\ LastItems(d, b)
                               /\ \/ queue[c] = d
                                  \/ Terminal(srun[c]) /\ queue[c] = d \o <<End>>
    BY <2>1 DEF StreamInv, QueueHolds, Attached
  <2>3. Len(b) <= next[c] + Len(d)
    BY <1>a, <2>1
  <2>4. QueueHolds(c)'
    BY <2>1, <2>2, <2>3 DEF QueueHolds, Terminal
  <2>. QED
    BY <2>1, <2>4 DEF StreamInv, PrefixSent, Attached
<1>9. ASSUME Receive(c)
      PROVE  StreamInv(c)'
  <2>. DEFINE item == Head(queue[c])
  <2>1. /\ spc[c] = "live" /\ spc' = spc /\ srun' = srun
        /\ buffer' = buffer /\ status' = status
        /\ queue[c] # <<>> /\ item # End /\ queue'[c] = Tail(queue[c])
    BY <1>9 DEF Receive, runVars, Inv, TypeOK
  <2>2. PICK d \in Seq(Item) : /\ LastItems(d, b)
                               /\ \/ queue[c] = d
                                  \/ Terminal(srun[c]) /\ queue[c] = d \o <<End>>
                               /\ Len(b) <= next[c] + Len(d)
    BY <2>1 DEF StreamInv, QueueHolds, Attached
  <2>3. d # <<>> /\ Head(d) = item /\ Tail(d) \in Seq(Item)
        /\ \/ queue'[c] = Tail(d)
           \/ Terminal(srun[c]) /\ queue'[c] = Tail(d) \o <<End>>
    <3>1. CASE queue[c] = d
      BY <2>1, <2>2, <3>1
    <3>2. CASE Terminal(srun[c]) /\ queue[c] = d \o <<End>>
      <4>1. d # <<>>
        BY <2>1, <3>2
      <4>2. Head(d \o <<End>>) = Head(d) /\ Tail(d \o <<End>>) = Tail(d) \o <<End>>
        BY <4>1
      <4>. QED  BY <2>1, <3>2, <4>1, <4>2
    <3>. QED  BY <2>2, <3>1, <3>2
  <2>4. /\ LastItems(Tail(d), b)
        /\ Len(Tail(d)) = Len(d) - 1
        /\ item = [seq |-> Len(b) - Len(d), ev |-> b[Len(b) - Len(d) + 1]]
    BY <1>a, <2>1, <2>2, <2>3, LastItemsTail
  <2>5. Len(b) - Len(d) <= next[c] /\ Len(b) \in Nat /\ Len(d) \in Nat /\ next[c] \in Nat
        /\ Len(d) <= Len(b) /\ Len(d) # 0
    BY <1>a, <2>1, <2>2, <2>3 DEF LastItems
  <2>6. next[c] = Len(out[c]) /\ PrefixSent(c) /\ out[c] \in Seq(Event) /\ b \in Seq(Event)
    BY <1>a, <2>1 DEF StreamInv, Attached
  <2>7. CASE ~Replayed(c, item)
    <3>1. /\ next'[c] = item.seq + 1 /\ out'[c] = Append(out[c], item.ev)
      BY <1>9, <2>7 DEF Receive, Inv, TypeOK
    <3>2. item.seq = next[c] /\ item.ev = b[next[c] + 1] /\ next[c] + 1 <= Len(b)
      <4>1. item.seq = Len(b) - Len(d) /\ item.ev = b[Len(b) - Len(d) + 1]
        BY <2>4
      <4>2. Len(b) - Len(d) = next[c]
        BY <2>5, <2>7, <4>1 DEF Replayed
      <4>. QED  BY <2>5, <4>1, <4>2
    <3>3. b[next[c] + 1] \in Event
      BY <2>5, <2>6, <3>2
    <3>. HIDE DEF b, item
    <3>4. next'[c] = Len(out'[c])
      BY <2>6, <3>1, <3>2, <3>3
    <3>5. PrefixSent(c)'
      <4>1. Len(out'[c]) = Len(out[c]) + 1
            /\ \A i \in 1..Len(out[c]) : out'[c][i] = out[c][i]
        BY <2>6, <3>1, <3>2, <3>3
      <4>2. out'[c][Len(out[c]) + 1] = b[Len(out[c]) + 1]
        BY <2>6, <3>1, <3>2, <3>3
      <4>3. ASSUME NEW i \in 1..Len(out'[c])
            PROVE  out'[c][i] = b[i]
        <5>1. /\ Len(out[c]) \in Nat
              /\ \A k \in 1..Len(out[c]) : out[c][k] = b[k]
          BY <2>6 DEF PrefixSent, b
        <5>2. i = Len(out[c]) + 1 \/ i \in 1..Len(out[c])
          BY ONLY <4>1, <5>1, i \in 1..Len(out'[c])
        <5>. QED  BY ONLY <4>1, <4>2, <5>1, <5>2
      <4>. QED  BY <2>1, <2>5, <2>6, <3>2, <4>1, <4>3 DEF PrefixSent, b
    <3>6. Len(b) <= next'[c] + Len(Tail(d))
      BY <2>4, <2>5, <3>1, <3>2 DEF item
    <3>7. QueueHolds(c)'
      BY <2>1, <2>3, <2>4, <3>6 DEF QueueHolds, Terminal, b
    <3>. QED
      BY <2>1, <3>4, <3>5, <3>7 DEF StreamInv, Attached
  <2>8. CASE Replayed(c, item)
    <3>1. next' = next /\ out' = out
      BY <1>9, <2>8 DEF Receive
    <3>2. Len(b) <= next'[c] + Len(Tail(d))
      BY <2>4, <2>5, <2>8, <3>1 DEF Replayed
    <3>3. QueueHolds(c)'
      BY <2>1, <2>3, <2>4, <3>2 DEF QueueHolds, Terminal
    <3>. QED
      BY <2>1, <2>6, <3>1, <3>3 DEF StreamInv, PrefixSent, Attached
  <2>. QED  BY <2>7, <2>8
<1>10. EndSeen(c) => Terminal(srun[c])
  <2>. SUFFICES ASSUME spc[c] = "live", queue[c] # <<>>, Head(queue[c]) = End,
                       ~Terminal(srun[c])
                PROVE  FALSE
    BY DEF EndSeen
  <2>1. queue[c] \in Seq(Item)
    BY DEF StreamInv, QueueHolds, Attached
  <2>2. Head(queue[c]) \in Item
    BY <2>1
  <2>. QED  BY <2>2 DEF Item, End
<1>11. ASSUME Deliver(c) \/ Disconnect(c)
       PROVE  StreamInv(c)'
  <2>1. CASE ReplayNext(c) \/ FlushNext(c)
    BY <1>6, <1>10, <2>1 DEF ReplayNext, FlushNext, EndSeen, StreamInv, Attached
  <2>2. CASE ReplayEnd(c) \/ FlushEnd(c) \/ Disconnect(c)
    BY <1>7, <1>10, <2>2
       DEF ReplayEnd, FlushEnd, Disconnect, EndSeen, StreamInv, Attached
  <2>. QED  BY <1>8, <1>9, <1>11, <2>1, <2>2 DEF Deliver
<1>12. ASSUME NEW d \in Client, d # c, Subscribe(d) \/ Deliver(d) \/ Disconnect(d)
       PROVE  StreamInv(c)'
  <2>1. /\ buffer' = buffer /\ status' = status
        /\ spc'[c] = spc[c] /\ srun'[c] = srun[c] /\ queue'[c] = queue[c]
        /\ next'[c] = next[c] /\ out'[c] = out[c]
    BY <1>12 DEF Subscribe, Deliver, Disconnect, ReplayNext, ReplayEnd, GoLive,
                 Receive, FlushNext, FlushEnd, YieldFromBuffer, Leave, runVars,
                 Inv, TypeOK
  <2>. QED  BY <2>1, FrameStream
<1>. QED
  BY <1>1, <1>2, <1>4, <1>5, <1>11, <1>12
     DEF Next, DrainStep, Start, Stop, InFlight, Begin, PrevEnded, CancelledWaiting,
         CancelDelivered, Evict, Tick, vars, runVars, subVars

LEMMA SpecStream == Spec => [](\A c \in Client : StreamInv(c))
<1>1. Init => \A c \in Client : StreamInv(c)
  BY DEF Init, StreamInv, Attached
<1>2. Inv /\ (\A c \in Client : StreamInv(c)) /\ [Next]_vars
        => (\A c \in Client : StreamInv(c))'
  BY StepStream
<1>. QED  BY <1>1, <1>2, SpecInv, PTL DEF Spec

\* Whatever the interleaving of replay, live events, reconnects, replaced runs
\* and the end of the run, a stream carries the run's events in order, from the
\* first on, without gap or repetition.
THEOREM StreamsAreFaithful == Spec => []StreamIsPrefix
<1>1. (\A c \in Client : StreamInv(c)) => StreamIsPrefix
  BY DEF StreamInv, StreamIsPrefix, PrefixSent
<1>. QED  BY <1>1, SpecStream, PTL

\* A stream the server ends has carried the whole log of a finished run.
THEOREM EndedStreamsAreComplete == Spec => []EndedStreamIsComplete
<1>1. (\A c \in Client : StreamInv(c)) => EndedStreamIsComplete
  BY DEF StreamInv, EndedStreamIsComplete
<1>. QED  BY <1>1, SpecStream, PTL

-----------------------------------------------------------------------------
(* Eviction.                                                               *)

\* Whatever armed the timer of the current run, if the run is finished and
\* unread it has not more to go than the run has left of its grace period.
TimerInv ==
  \A r \in Run :
    (cur = r /\ Terminal(r) /\ Subscribers(r) = {} /\ timer[r] # Off)
      => timer[r] + quiet[r] >= Grace

LEMMA StepTimer == Inv /\ TimerInv /\ [Next]_vars => TimerInv'
<1>. SUFFICES ASSUME Inv, TimerInv, [Next]_vars,
                     NEW r \in Run, (cur = r /\ Terminal(r) /\ Subscribers(r) = {}
                                      /\ timer[r] # Off)'
              PROVE  (timer[r] + quiet[r] >= Grace)'
  BY DEF TimerInv
<1>. USE GraceBounds
<1>a. /\ timer \in [Run -> {Off} \cup (0..Grace)]
      /\ quiet \in [Run -> 0..Grace]
      /\ status \in [Run -> Status]
  BY DEF Inv, TypeOK
<1>b. \A s \in Run : pc[s] \in {"streaming", "closing"} => target[s] = s
  BY DEF Inv, OwnershipInv, DrainOwnsItsRun
<1>1. CASE /\ cur' = cur
           /\ UNCHANGED <<status, timer, quiet>>
           /\ Subscribers(r)' = Subscribers(r)
  BY <1>1 DEF TimerInv, Terminal
<1>2. CASE Start
  <2>1. r = started + 1 /\ status'[r] = status[r] /\ started \in Nat
    BY <1>2 DEF Start, InFlight, Inv, TypeOK
  <2>2. pc[r] = "none"
    BY <2>1 DEF Inv, OwnershipInv
  <2>3. ~Terminal(r)
    BY <2>2 DEF Inv, OwnershipInv
  <2>. QED  BY <2>1, <2>3 DEF Terminal
<1>3. ASSUME NEW s \in Run, NEW st \in Status, NEW evs \in Seq(Event),
             pc[s] \in {"streaming", "closing"}, Finish(s, st, evs)
      PROVE  (timer[r] + quiet[r] >= Grace)'
  <2>1. timer'[r] = Grace /\ quiet'[r] \in Nat
    <3>1. quiet' = [quiet EXCEPT ![s] = 0]
      BY <1>3, <1>b DEF Finish
    <3>. QED  BY <1>3, <1>a, <3>1 DEF Finish, ScheduleEvict
  <2>. QED  BY <2>1
<1>4. ASSUME NEW c \in Client, Subscribe(c)
      PROVE  (timer[r] + quiet[r] >= Grace)'
  <2>1. timer'[r] \in {Off, Grace} /\ quiet'[r] = 0
    BY <1>4, <1>a DEF Subscribe
  <2>. QED  BY <2>1
<1>5. ASSUME NEW c \in Client, NEW e \in BOOLEAN, spc[c] \in Attached, Leave(c, e)
      PROVE  (timer[r] + quiet[r] >= Grace)'
  <2>1. CASE srun[c] = r
    <3>1. Subscribers(r) = {c} /\ Terminal(r)
      <4>1. Terminal(r)
        BY <1>5 DEF Leave, Terminal
      <4>2. ASSUME NEW d \in Subscribers(r), d # c
            PROVE  FALSE
        <5>1. d \in Subscribers(r)'
          BY <1>5, <4>2 DEF Leave, Subscribers, Inv, TypeOK
        <5>. QED  BY <5>1
      <4>. QED  BY <1>5, <2>1, <4>1, <4>2 DEF Subscribers
    <3>2. timer'[r] = Grace /\ quiet'[r] = 0
      BY <1>5, <1>a, <2>1, <3>1 DEF Leave, Rearm, ScheduleEvict
    <3>. QED  BY <3>2
  <2>2. CASE srun[c] # r
    <3>1. Subscribers(r)' = Subscribers(r)
      BY <1>5, <2>2 DEF Leave, Subscribers, Inv, TypeOK, Attached, Run
    <3>2. quiet'[r] = quiet[r] /\ cur = r /\ Terminal(r)
      BY <1>5, <1>a, <2>2 DEF Leave, Terminal
    <3>3. timer'[r] = Grace \/ timer'[r] = timer[r]
      BY <1>5, <1>a, <3>2 DEF Leave, Rearm, ScheduleEvict
    <3>. QED  BY <1>a, <3>1, <3>2, <3>3 DEF TimerInv
  <2>. QED  BY <2>1, <2>2
<1>6. ASSUME NEW s \in Run, Evict(s)
      PROVE  (timer[r] + quiet[r] >= Grace)'
  <2>1. cur = r /\ Terminal(r) /\ Subscribers(r) = {}
    BY <1>6 DEF Evict, Terminal, Subscribers, subVars, Run
  <2>2. timer'[r] = timer[r] /\ quiet' = quiet
    BY <1>6, <1>a DEF Evict
  <2>. QED  BY <2>1, <2>2 DEF TimerInv
<1>7. CASE Tick
  <2>1. cur = r /\ Terminal(r) /\ Subscribers(r) = {}
    BY <1>7 DEF Tick, Terminal, Subscribers, subVars
  <2>2. timer'[r] = IF timer[r] > 0 THEN timer[r] - 1 ELSE timer[r]
    BY <1>7 DEF Tick
  <2>3. quiet'[r] = IF quiet[r] < Grace THEN quiet[r] + 1 ELSE quiet[r]
    BY <1>7, <2>1 DEF Tick
  <2>4. timer[r] \in {Off} \cup (0..Grace) /\ quiet[r] \in 0..Grace
    BY <1>a
  <2>5. timer[r] # Off /\ timer[r] + quiet[r] >= Grace
    BY <2>1, <2>2, <2>4 DEF TimerInv, Off
  <2>. QED  BY <2>2, <2>3, <2>4, <2>5 DEF Off
<1>8. CASE UNCHANGED <<cur, status, timer, quiet, subVars>>
  BY <1>1, <1>8 DEF Subscribers, subVars
<1>9. ASSUME NEW s \in Run, NEW ev \in Event, Publish(s, ev)
      PROVE  (timer[r] + quiet[r] >= Grace)'
  BY <1>1, <1>9 DEF Publish, Subscribers
<1>10. ASSUME NEW s \in Run, Complete(s) \/ Fail(s) \/ Stopped(s)
       PROVE  (timer[r] + quiet[r] >= Grace)'
  <2>1. <<>> \in Seq(Event) /\ <<ErrorEvent, DoneEvent>> \in Seq(Event)
    OBVIOUS
  <2>. QED
    BY <1>3, <1>10, <2>1 DEF Complete, Fail, Stopped, Status
<1>11. ASSUME NEW c \in Client, spc[c] \in Attached,
              UNCHANGED <<cur, status, timer, quiet, srun>>,
              NEW at \in Attached, spc' = [spc EXCEPT ![c] = at]
       PROVE  (timer[r] + quiet[r] >= Grace)'
  <2>1. Subscribers(r)' = Subscribers(r)
    BY <1>11 DEF Subscribers, Inv, TypeOK
  <2>. QED  BY <1>1, <1>11, <2>1
<1>12. ASSUME NEW c \in Client, Deliver(c) \/ Disconnect(c)
       PROVE  (timer[r] + quiet[r] >= Grace)'
  <2>1. CASE ReplayNext(c) \/ FlushNext(c)
    BY <1>11, <2>1 DEF ReplayNext, FlushNext, EndSeen, YieldFromBuffer, runVars, Attached
  <2>2. CASE ReplayEnd(c) \/ FlushEnd(c) \/ Disconnect(c)
    BY <1>5, <2>2 DEF ReplayEnd, FlushEnd, Disconnect, EndSeen, Attached
  <2>3. CASE GoLive(c)
    BY <1>11, <2>3 DEF GoLive, runVars, Attached
  <2>4. CASE Receive(c)
    BY <1>1, <2>4 DEF Receive, runVars, Subscribers
  <2>. QED  BY <1>12, <2>1, <2>2, <2>3, <2>4 DEF Deliver
<1>. QED
  BY <1>2, <1>4, <1>6, <1>7, <1>8, <1>9, <1>10, <1>12
     DEF Next, DrainStep, Stop, Begin, PrevEnded, CancelledWaiting,
         CancelDelivered, vars, runVars, subVars

\* A run is evicted only when it is finished, unread, and has been so for the
\* whole grace period, whichever stale timers other runs and clients re-armed.
THEOREM NoEarlyEviction == Spec => EvictionOnlyAfterGrace
<1>1. Init => TimerInv
  BY DEF Init, TimerInv, Terminal
<1>2. ASSUME Inv, TimerInv, [Next]_vars, cur # 0, cur' = 0
      PROVE  Terminal(cur) /\ Subscribers(cur) = {} /\ quiet[cur] = Grace
  <2>1. cur \in Run
    BY <1>2 DEF Inv, TypeOK, Run
  <2>2. PICK r \in Run : Evict(r)
    <3>1. ~Start
      BY <1>2 DEF Start, InFlight, Inv, TypeOK
    <3>2. \A r \in Run : ~DrainStep(r)
      BY <1>2 DEF DrainStep, Begin, PrevEnded, CancelledWaiting, CancelDelivered,
                  Publish, Complete, Fail, Stopped, Finish, runVars
    <3>3. \A c \in Client : ~(Subscribe(c) \/ Deliver(c) \/ Disconnect(c))
      BY <1>2 DEF Subscribe, Deliver, Disconnect, ReplayNext, ReplayEnd, GoLive,
                  Receive, FlushNext, FlushEnd, YieldFromBuffer, Leave, runVars
    <3>. QED
      BY <1>2, <3>1, <3>2, <3>3 DEF Next, Stop, InFlight, Tick, vars, runVars
  <2>3. cur = r /\ Terminal(r) /\ Subscribers(r) = {} /\ timer[r] = 0
    BY <1>2, <2>2 DEF Evict, Evictable
  <2>4. quiet[r] \in 0..Grace /\ timer[r] + quiet[r] >= Grace
    BY <1>2, <2>3 DEF TimerInv, Inv, TypeOK, Off
  <2>. QED  BY <2>3, <2>4
<1>3. Inv /\ TimerInv /\ [Next]_vars
        => [cur # 0 /\ cur' = 0 => /\ Terminal(cur)
                                   /\ Subscribers(cur) = {}
                                   /\ quiet[cur] = Grace]_vars
  BY <1>2
<1>. QED  BY <1>1, <1>3, SpecInv, StepTimer, PTL DEF Spec, EvictionOnlyAfterGrace

-----------------------------------------------------------------------------
(* AgentRuns implements ReplayLog.                                         *)

\* The values the mapping gives the abstract `closed` and `reading`.
Closed  == [r \in Run |-> Terminal(r)]
Reading == [c \in Client |-> IF spc[c] \in Attached THEN "reading" ELSE spc[c]]

LEMMA AbstractInit == Init => Abstract!Init
  BY DEF Init, Abstract!Init, Terminal, Attached

\* A step that leaves what clients can see alone is a stutter.
LEMMA StutterStep ==
  ASSUME UNCHANGED <<buffer, status, srun, out>>, Reading' = Reading
  PROVE  UNCHANGED Abstract!vars
<1>1. Closed' = Closed
  BY DEF Closed, Terminal
<1>. QED  BY <1>1 DEF Abstract!vars, Closed, Reading

\* The client c, and no other, is handed the next event of its run.
LEMMA ReadStep ==
  ASSUME Inv, NEW c \in Client, spc[c] \in Attached, StreamInv(c),
         UNCHANGED <<buffer, status, srun>>,
         Reading' = Reading,
         Len(out[c]) < Len(buffer[srun[c]]),
         out' = [out EXCEPT ![c] = Append(out[c], buffer[srun[c]][Len(out[c]) + 1])]
  PROVE  Abstract!Read(c)
<1>1. Closed' = Closed
  BY DEF Closed, Terminal
<1>2. Reading[c] = "reading"
  BY DEF Reading
<1>. QED  BY <1>1, <1>2 DEF Abstract!Read, Closed, Reading

LEMMA AbstractStep ==
  ASSUME Inv, [Next]_vars, \A c \in Client : StreamInv(c)
  PROVE  [Abstract!Next]_(Abstract!vars)
<1>a. \A r \in Run : pc[r] \in {"streaming", "closing"} => target[r] = r /\ ~Terminal(r)
  BY DEF Inv, OwnershipInv, DrainOwnsItsRun
<1>1. CASE UNCHANGED <<buffer, status, subVars>>
  <2>1. Reading' = Reading
    BY <1>1 DEF Reading, subVars
  <2>. QED  BY <1>1, <2>1, StutterStep DEF subVars
<1>2. ASSUME NEW r \in Run, ~Terminal(r), NEW n \in 0..2, NEW evs \in [1..n -> Event],
             NEW end \in BOOLEAN,
             buffer' = [buffer EXCEPT ![r] = @ \o evs],
             Closed' = [Closed EXCEPT ![r] = end],
             UNCHANGED <<spc, srun, out>>
      PROVE  Abstract!Next
  <2>1. Reading' = Reading
    BY <1>2 DEF Reading
  <2>2. Abstract!Write(r)
    BY <1>2, <2>1 DEF Abstract!Write, Closed, Reading
  <2>. QED  BY <2>2 DEF Abstract!Next
<1>3. ASSUME NEW r \in Run, NEW ev \in Event, Publish(r, ev)
      PROVE  Abstract!Next
  <2>1. target[r] = r /\ ~Terminal(r)
    BY <1>3, <1>a DEF Publish
  <2>2. Closed' = [Closed EXCEPT ![r] = FALSE]
    BY <1>3, <2>1 DEF Publish, Closed, Terminal
  <2>3. <<ev>> \in [1..1 -> Event] /\ 1 \in 0..2
    OBVIOUS
  <2>4. buffer' = [buffer EXCEPT ![r] = @ \o <<ev>>] /\ UNCHANGED <<spc, srun, out>>
    BY <1>3, <2>1 DEF Publish, Fanout
  <2>. QED  BY <1>2, <2>1, <2>2, <2>3, <2>4
<1>4. ASSUME NEW r \in Run, NEW st \in Status \ {"running"},
             NEW n \in 0..2, NEW evs \in [1..n -> Event],
             pc[r] \in {"streaming", "closing"}, Finish(r, st, evs)
      PROVE  Abstract!Next
  <2>1. target[r] = r /\ ~Terminal(r)
    BY <1>4, <1>a
  <2>2. Closed' = [Closed EXCEPT ![r] = TRUE]
    BY <1>4, <2>1 DEF Finish, Closed, Terminal, Inv, TypeOK
  <2>3. buffer' = [buffer EXCEPT ![r] = @ \o evs] /\ UNCHANGED <<spc, srun, out>>
    BY <1>4, <2>1 DEF Finish, Fanout
  <2>. QED  BY <1>2, <2>1, <2>2, <2>3
<1>5. ASSUME NEW r \in Run, Complete(r) \/ Fail(r) \/ Stopped(r)
      PROVE  Abstract!Next
  <2>1. /\ <<>> \in [1..0 -> Event] /\ 0 \in 0..2
        /\ <<ErrorEvent, DoneEvent>> \in [1..2 -> Event] /\ 2 \in 0..2
    OBVIOUS
  <2>2. {"done", "error", "stopped"} \subseteq Status \ {"running"}
    BY DEF Status
  <2>3. CASE Complete(r)
    BY <1>4, <2>1, <2>2, <2>3 DEF Complete
  <2>4. CASE Fail(r)
    BY <1>4, <2>1, <2>2, <2>4 DEF Fail
  <2>5. CASE Stopped(r)
    BY <1>4, <2>1, <2>2, <2>5 DEF Stopped
  <2>. QED  BY <1>5, <2>3, <2>4, <2>5
<1>6. ASSUME NEW c \in Client, Subscribe(c)
      PROVE  Abstract!Next
  <2>1. PICK r \in Run : r = cur
    BY <1>6 DEF Subscribe, Inv, TypeOK, Run
  <2>2. Closed' = Closed
    BY <1>6 DEF Subscribe, Closed, Terminal
  <2>3. Reading[c] # "reading"
    BY <1>6 DEF Subscribe, Reading, Attached, Inv, TypeOK
  <2>4. Reading' = [Reading EXCEPT ![c] =
                      IF Closed[r] /\ buffer[r] = <<>> THEN "done" ELSE "reading"]
    BY <1>6, <2>1 DEF Subscribe, Reading, Closed, Attached, Inv, TypeOK
  <2>5. Abstract!Open(c, r)
    BY <1>6, <2>1, <2>2, <2>3, <2>4 DEF Subscribe, Abstract!Open, Closed, Reading
  <2>. QED  BY <2>1, <2>5 DEF Abstract!Next
<1>7. ASSUME NEW c \in Client, spc[c] \in Attached, NEW at \in Attached,
             YieldFromBuffer(c, at)
      PROVE  Abstract!Next
  <2>1. next[c] = Len(out[c])
    BY <1>7 DEF StreamInv
  <2>2. Reading' = Reading
    BY <1>7 DEF YieldFromBuffer, Reading, Inv, TypeOK
  <2>3. Abstract!Read(c)
    BY <1>7, <2>1, <2>2, ReadStep DEF YieldFromBuffer, runVars
  <2>. QED  BY <2>3 DEF Abstract!Next
<1>8. ASSUME NEW c \in Client, spc[c] \in Attached, NEW ended \in BOOLEAN,
             Leave(c, ended),
             ended => next[c] = Len(buffer[srun[c]]) /\ Terminal(srun[c])
      PROVE  Abstract!Next
  <2>1. Closed' = Closed
    BY <1>8 DEF Leave, Closed, Terminal
  <2>2. Reading[c] = "reading"
    BY <1>8 DEF Reading
  <2>3. Reading' = [Reading EXCEPT ![c] = IF ended THEN "done" ELSE "off"]
    BY <1>8 DEF Leave, Reading, Attached, Inv, TypeOK
  <2>4. CASE ended
    <3>1. Closed[srun[c]] /\ Len(out[c]) = Len(buffer[srun[c]])
      <4>1. srun[c] \in Run
        BY <1>8 DEF Inv, TypeOK, OwnershipInv, Run, Attached
      <4>. QED  BY <1>8, <2>4, <4>1 DEF Closed, StreamInv
    <3>2. srun' = srun /\ out' = out
      BY <1>8, <2>4 DEF Leave, Inv, TypeOK
    <3>3. Abstract!Finish(c)
      BY <1>8, <2>1, <2>2, <2>3, <2>4, <3>1, <3>2
         DEF Leave, Abstract!Finish, Closed, Reading
    <3>. QED  BY <3>3 DEF Abstract!Next
  <2>5. CASE ~ended
    <3>1. Abstract!Drop(c)
      BY <1>8, <2>1, <2>2, <2>3, <2>5 DEF Leave, Abstract!Drop, Closed, Reading
    <3>. QED  BY <3>1 DEF Abstract!Next
  <2>. QED  BY <2>4, <2>5
<1>9. ASSUME NEW c \in Client, GoLive(c)
      PROVE  UNCHANGED Abstract!vars
  <2>1. Reading' = Reading
    BY <1>9 DEF GoLive, Reading, Attached, Inv, TypeOK
  <2>. QED  BY <1>9, <2>1, StutterStep DEF GoLive, runVars
<1>10. ASSUME NEW c \in Client, Receive(c)
       PROVE  [Abstract!Next]_(Abstract!vars)
  <2>. DEFINE b == buffer[srun[c]]
              item == Head(queue[c])
  <2>1. spc[c] = "live" /\ Reading' = Reading /\ UNCHANGED <<buffer, status, srun>>
    BY <1>10 DEF Receive, Reading, runVars
  <2>2. CASE ~Replayed(c, item)
    <3>1. out'[c] = Append(out[c], item.ev) /\ out' = [out EXCEPT ![c] = out'[c]]
          /\ next'[c] = item.seq + 1
      BY <1>10, <2>2 DEF Receive, Inv, TypeOK
    <3>2. StreamInv(c)'
      BY StepStream
    <3>3. /\ srun[c] \in Run /\ b \in Seq(Event) /\ out[c] \in Seq(Event)
          /\ item.ev \in Event
      <4>1. item \in Item
        BY <1>10 DEF Receive, Inv, TypeOK
      <4>2. srun[c] \in Run
        BY <2>1 DEF Inv, TypeOK, OwnershipInv, Run
      <4>. QED  BY <4>1, <4>2 DEF Inv, TypeOK, Item
    <3>. HIDE DEF b, item
    <3>4. Len(out'[c]) <= Len(b) /\ out'[c][Len(out[c]) + 1] = b[Len(out[c]) + 1]
      <4>1. PrefixSent(c)'
        BY <1>10, <2>1, <3>2 DEF StreamInv, Receive
      <4>2. /\ Len(out'[c]) <= Len(b)
            /\ \A i \in 1..Len(out'[c]) : out'[c][i] = b[i]
        BY <2>1, <4>1 DEF PrefixSent, b
      <4>3. Len(out[c]) + 1 \in 1..Len(out'[c])
        BY <3>1, <3>3
      <4>. QED  BY <4>2, <4>3
    <3>5. Len(out[c]) < Len(b) /\ item.ev = b[Len(out[c]) + 1]
      BY <3>1, <3>3, <3>4
    <3>6. Abstract!Read(c)
      BY <2>1, <3>1, <3>5, ReadStep DEF b, Attached
    <3>. QED  BY <3>6 DEF Abstract!Next
  <2>3. CASE Replayed(c, item)
    BY <1>10, <2>1, <2>3, StutterStep DEF Receive
  <2>. QED  BY <2>2, <2>3
<1>11. \A c \in Client : EndSeen(c) => spc[c] = "live" /\ Terminal(srun[c])
  <2>. SUFFICES ASSUME NEW c \in Client, spc[c] = "live", queue[c] # <<>>,
                       Head(queue[c]) = End, ~Terminal(srun[c])
                PROVE  FALSE
    BY DEF EndSeen
  <2>1. Head(queue[c]) \in Item
    BY DEF StreamInv, QueueHolds, Attached
  <2>. QED  BY <2>1 DEF Item, End
<1>12. ASSUME NEW c \in Client, Deliver(c) \/ Disconnect(c)
       PROVE  [Abstract!Next]_(Abstract!vars)
  <2>1. CASE ReplayNext(c) \/ FlushNext(c)
    BY <1>7, <1>11, <2>1 DEF ReplayNext, FlushNext, Attached
  <2>2. CASE ReplayEnd(c) \/ FlushEnd(c) \/ Disconnect(c)
    BY <1>8, <1>11, <2>2 DEF ReplayEnd, FlushEnd, Disconnect, StreamInv, Attached
  <2>. QED  BY <1>9, <1>10, <1>12, <2>1, <2>2 DEF Deliver
<1>. QED
  BY <1>1, <1>3, <1>5, <1>6, <1>12
     DEF Next, DrainStep, Start, Stop, InFlight, Begin, PrevEnded, CancelledWaiting,
         CancelDelivered, Evict, Tick, vars, runVars, subVars

\* Queues, replay, sentinel, timers and the hand-over between runs behave, for
\* the clients, as append-only logs read in order from the start.
THEOREM ImplementsReplayLog == Spec => AbstractSpec
<1>1. Inv /\ (\A c \in Client : StreamInv(c)) /\ [Next]_vars
        => [Abstract!Next]_(Abstract!vars)
  BY AbstractStep
<1>. QED
  BY <1>1, AbstractInit, SpecInv, SpecStream, PTL DEF Spec, AbstractSpec, Abstract!Spec
=============================================================================
