-------------------------- MODULE ResearchJobsProofs --------------------------
(***************************************************************************)
(* What the cards of the research panel say of the runs, for any runs,     *)
(* cards and events.                                                       *)
(*                                                                         *)
(* DoneIsDone is not inductive: a stream or a poll under way will set its  *)
(* card to what it hears of its own run.  CardsOK adds that what follows a *)
(* card that was launched once is about the card's run, and ServerOK that  *)
(* the server says "done" of finished runs only.  RunningIsFollowed is     *)
(* inductive beside them.                                                  *)
(***************************************************************************)
EXTENDS ResearchJobs, FiniteSetTheorems, SequenceTheorems, TLAPS

CardStatus == {"none", "queued", "running", "done", "error", "cancelled"}
CardSet == [status : CardStatus, id : Run \cup {NoRun}, es : Run \cup {NoRun}, again : BOOLEAN]
PostSet == [job : Job \cup {NoJob}, st : {"none", "sent", "started", "over"}]
RunnerSet == [rest : Seq(Job), cur : Job \cup {NoJob}, run : Run \cup {NoRun}]

CardTypes == list \in Seq(Job) /\ job \in [Job -> CardSet]
NetTypes ==
  /\ post \in [Run -> PostSet]
  /\ streams \subseteq Job \X Run
  /\ timers \subseteq Job
  /\ asks \subseteq Job \X Run
  /\ cancels \subseteq Job \X Run \X {"sent", "told"}
SyncTypes ==
  /\ poll \in {"idle", "first", "later", "library"}
  /\ snap \subseteq Run
  /\ dismissed \subseteq Run
RunnerTypes == runner \in RunnerSet /\ byRunner \subseteq Run
BoundTypes == clicks \in 0..MaxEvents /\ faults \in 0..MaxEvents

\* A report is of a run that came to one, an entry of a run that was started, and a run
\* that goes on has an entry.
ServerOK ==
  /\ RunsTypeOK
  /\ saved \subseteq Reported
  /\ \A r \in known : run[r] # "none"
  /\ \A r \in Run : run[r] = "running" => r \in known

\* What follows a card that was launched once is about its run.
CardsOK ==
  \A j \in Job :
    /\ job[j].status \in {"running", "done"} => job[j].id # NoRun
    /\ job[j].status = "done" /\ ~job[j].again => job[j].id \in Reported
    /\ \A r \in Run : <<j, r>> \in streams \cup asks =>
         job[j].id # NoRun /\ (job[j].again \/ job[j].id = r)

IInv ==
  /\ CardTypes /\ NetTypes /\ SyncTypes /\ RunnerTypes /\ BoundTypes
  /\ ServerOK /\ CardsOK /\ RunningIsFollowed

USE RunBoundAssumption, JobBoundAssumption

-----------------------------------------------------------------------------
(* Numbers and lists.                                                      *)

LEMMA Numbers ==
  /\ Job \subseteq Nat \ {0} /\ Run \subseteq Nat \ {0}
  /\ NoRun \notin Run /\ NoJob \notin Job
  BY DEF Job, Run, NoRun, NoJob

LEMMA CountedJobs ==
  ASSUME NEW S \in SUBSET Job PROVE Cardinality(S) \in Nat
<1>1. IsFiniteSet(Job)
  BY FS_Interval DEF Job
<1>. QED  BY <1>1, FS_Subset, FS_CardinalityType

LEMMA CountedRuns ==
  ASSUME NEW S \in SUBSET Run PROVE Cardinality(S) \in Nat
<1>1. IsFiniteSet(Run)
  BY FS_Interval DEF Run
<1>. QED  BY <1>1, FS_Subset, FS_CardinalityType

LEMMA Placed ==
  ASSUME NEW s, NEW j \in ToSet(s)
  PROVE  Place(s, j) \in DOMAIN s /\ s[Place(s, j)] = j
<1>1. \E k \in DOMAIN s : s[k] = j
  BY DEF ToSet
<1>. QED  BY <1>1 DEF Place

LEMMA Appended ==
  ASSUME NEW s \in Seq(Job), NEW j \in Job
  PROVE  Append(s, j) \in Seq(Job) /\ ToSet(Append(s, j)) = ToSet(s) \cup {j}
<1>1. /\ Append(s, j) \in Seq(Job) /\ Len(Append(s, j)) = Len(s) + 1
      /\ \A k \in 1..Len(s) + 1 : Append(s, j)[k] = IF k <= Len(s) THEN s[k] ELSE j
  OBVIOUS
<1>2. DOMAIN Append(s, j) = 1..Len(s) + 1 /\ DOMAIN s = 1..Len(s) /\ Len(s) \in Nat
  BY <1>1
<1>3. Append(s, j)[Len(s) + 1] = j /\ Len(s) + 1 \in 1..Len(s) + 1
  BY <1>1, <1>2
<1>4. \A k \in 1..Len(s) : Append(s, j)[k] = s[k] /\ k \in 1..Len(s) + 1
  BY <1>1, <1>2
<1>5. \A k \in 1..Len(s) + 1 : k = Len(s) + 1 \/ k \in 1..Len(s)
  BY <1>2
<1>6. ToSet(Append(s, j)) \subseteq ToSet(s) \cup {j}
  BY <1>2, <1>3, <1>4, <1>5 DEF ToSet
<1>7. ToSet(s) \cup {j} \subseteq ToSet(Append(s, j))
  BY <1>2, <1>3, <1>4 DEF ToSet
<1>. QED  BY <1>1, <1>6, <1>7

LEMMA Joined ==
  ASSUME NEW s \in Seq(Job), NEW n \in Nat, NEW t \in [1..n -> Job]
  PROVE  /\ s \o t \in Seq(Job) /\ ToSet(s \o t) = ToSet(s) \cup ToSet(t)
         /\ ToSet(t) \subseteq Job
<1>1. t \in Seq(Job) /\ DOMAIN t = 1..n /\ Len(t) = n
  OBVIOUS
<1>2. /\ s \o t \in Seq(Job) /\ Len(s \o t) = Len(s) + n
      /\ \A k \in 1..Len(s) + n : (s \o t)[k] = IF k <= Len(s) THEN s[k] ELSE t[k - Len(s)]
  BY <1>1
<1>3. DOMAIN (s \o t) = 1..Len(s) + n /\ DOMAIN s = 1..Len(s) /\ Len(s) \in Nat
  BY <1>2
<1>4. ToSet(s \o t) \subseteq ToSet(s) \cup ToSet(t)
  BY <1>1, <1>2, <1>3 DEF ToSet
<1>5. ToSet(s) \subseteq ToSet(s \o t)
  BY <1>1, <1>2, <1>3 DEF ToSet
<1>6. ToSet(t) \subseteq ToSet(s \o t)
  <2>1. \A k \in 1..n : (s \o t)[k + Len(s)] = t[k] /\ k + Len(s) \in 1..Len(s) + n
    BY <1>2, <1>3
  <2>. QED  BY <1>1, <1>3, <2>1 DEF ToSet
<1>7. ToSet(t) \subseteq Job
  BY <1>1 DEF ToSet
<1>. QED  BY <1>2, <1>4, <1>5, <1>6, <1>7

LEMMA CutOut ==
  ASSUME NEW s \in Seq(Job), NEW k \in DOMAIN s
  PROVE  RemoveAt(s, k) \in Seq(Job) /\ ToSet(RemoveAt(s, k)) \subseteq ToSet(s)
<1>. DEFINE a == SubSeq(s, 1, k - 1)
            b == SubSeq(s, k + 1, Len(s))
<1>1. Len(s) \in Nat /\ k \in 1..Len(s) /\ DOMAIN s = 1..Len(s)
  OBVIOUS
<1>2. a \in Seq(Job) /\ Len(a) = k - 1 /\ \A i \in 1..k - 1 : a[i] = s[i]
  BY <1>1
<1>3. b \in Seq(Job) /\ Len(b) = Len(s) - k /\ \A i \in 1..Len(s) - k : b[i] = s[k + i]
  BY <1>1
<1>4. RemoveAt(s, k) = a \o b
  BY DEF RemoveAt
<1>. HIDE DEF a, b
<1>5. /\ a \o b \in Seq(Job) /\ DOMAIN (a \o b) = 1..Len(a) + Len(b)
      /\ \A i \in 1..Len(a) + Len(b) :
           (a \o b)[i] = IF i <= Len(a) THEN a[i] ELSE b[i - Len(a)]
  BY <1>2, <1>3, ConcatProperties, LenProperties
<1>6. ASSUME NEW i \in 1..Len(a) + Len(b) PROVE (a \o b)[i] \in ToSet(s)
  <2>1. CASE i <= k - 1
    <3>1. i \in 1..k - 1 /\ i \in 1..Len(s)
      BY <1>1, <1>2, <1>3, <2>1
    <3>. QED  BY <1>1, <1>2, <1>5, <3>1 DEF ToSet
  <2>2. CASE ~(i <= k - 1)
    <3>1. i - (k - 1) \in 1..Len(s) - k /\ k + (i - (k - 1)) \in 1..Len(s)
      BY <1>1, <1>2, <1>3, <2>2
    <3>2. (a \o b)[i] = b[i - (k - 1)]
      BY <1>2, <1>5, <2>2
    <3>. QED  BY <1>1, <1>3, <3>1, <3>2 DEF ToSet
  <2>. QED  BY <2>1, <2>2
<1>7. ToSet(a \o b) \subseteq ToSet(s)
  BY <1>5, <1>6 DEF ToSet
<1>. QED  BY <1>4, <1>5, <1>7

LEMMA ListedJobs ==
  ASSUME NEW s \in Seq(Job) PROVE ToSet(s) \subseteq Job
  BY DEF ToSet

-----------------------------------------------------------------------------
(* Cards.                                                                  *)

LEMMA Fields ==
  ASSUME NEW c \in CardSet
  PROVE  /\ c.status \in CardStatus /\ c.id \in Run \cup {NoRun}
         /\ c.es \in Run \cup {NoRun} /\ c.again \in BOOLEAN
  BY DEF CardSet

LEMMA NewStatus ==
  ASSUME NEW c \in CardSet, NEW v \in CardStatus, NEW d, d = [c EXCEPT !.status = v]
  PROVE  /\ d \in CardSet /\ d.status = v /\ d.id = c.id /\ d.again = c.again
  BY DEF CardSet

LEMMA NewCard ==
  ASSUME NEW v \in CardStatus, NEW d, d = [NoCard EXCEPT !.status = v]
  PROVE  /\ d \in CardSet /\ d.status = v /\ d.id = NoRun /\ ~d.again
<1>1. NoCard \in CardSet
  BY DEF NoCard, CardSet, CardStatus
<1>. QED  BY <1>1, NewStatus DEF NoCard

LEMMA CardAt ==
  ASSUME NEW f \in [Job -> CardSet], NEW j \in Job, NEW c \in CardSet,
         NEW g, g = [f EXCEPT ![j] = c]
  PROVE  g \in [Job -> CardSet] /\ g[j] = c /\ \A k \in Job : k # j => g[k] = f[k]
  OBVIOUS

\* What a step must see to when it changes one card.
LEMMA OneCard ==
  ASSUME IInv, NEW j \in Job, NEW c \in CardSet, job' = [job EXCEPT ![j] = c],
         Reported \subseteq Reported',
         \A k \in Job, r \in Run : <<k, r>> \in streams' \cup asks' =>
           k = j \/ <<k, r>> \in streams \cup asks,
         c.status \in {"running", "done"} => c.id # NoRun,
         c.status = "done" /\ ~c.again => c.id \in Reported',
         \A r \in Run : <<j, r>> \in streams' \cup asks' =>
           c.id # NoRun /\ (c.again \/ c.id = r)
  PROVE  job' \in [Job -> CardSet] /\ CardsOK'
<1>1. /\ job' \in [Job -> CardSet] /\ job'[j] = c
      /\ \A k \in Job : k # j => job'[k] = job[k]
  BY CardAt DEF IInv, CardTypes
<1>2. ASSUME NEW k \in Job, k # j
      PROVE  /\ job'[k].status \in {"running", "done"} => job'[k].id # NoRun
             /\ job'[k].status = "done" /\ ~job'[k].again => job'[k].id \in Reported'
             /\ \A r \in Run : <<k, r>> \in streams' \cup asks' =>
                  job'[k].id # NoRun /\ (job'[k].again \/ job'[k].id = r)
  <2>1. job'[k] = job[k] /\ job[k].id \in Run \cup {NoRun}
    BY <1>1, <1>2, Fields DEF IInv, CardTypes
  <2>2. job'[k].status \in {"running", "done"} => job'[k].id # NoRun
    BY <2>1 DEF IInv, CardsOK
  <2>3. job'[k].status = "done" /\ ~job'[k].again => job'[k].id \in Reported'
    BY <2>1 DEF IInv, CardsOK
  <2>4. \A r \in Run : <<k, r>> \in streams' \cup asks' =>
          job'[k].id # NoRun /\ (job'[k].again \/ job'[k].id = r)
    BY <1>2, <2>1 DEF IInv, CardsOK
  <2>. QED  BY <2>2, <2>3, <2>4
<1>. QED  BY <1>1, <1>2 DEF CardsOK

LEMMA SameCards ==
  ASSUME IInv,
         \A k \in Job : /\ job'[k].status = job[k].status
                        /\ job'[k].id = job[k].id /\ job'[k].again = job[k].again,
         Reported \subseteq Reported',
         \A k \in Job, r \in Run : <<k, r>> \in streams' \cup asks' =>
           <<k, r>> \in streams \cup asks
  PROVE  CardsOK'
<1>. SUFFICES ASSUME NEW k \in Job
     PROVE  /\ job'[k].status \in {"running", "done"} => job'[k].id # NoRun
            /\ job'[k].status = "done" /\ ~job'[k].again => job'[k].id \in Reported'
            /\ \A r \in Run : <<k, r>> \in streams' \cup asks' =>
                 job'[k].id # NoRun /\ (job'[k].again \/ job'[k].id = r)
  BY DEF CardsOK
<1>1. /\ job[k].id \in Run \cup {NoRun}
      /\ job'[k].status = job[k].status
      /\ job'[k].id = job[k].id /\ job'[k].again = job[k].again
  BY Fields DEF IInv, CardTypes
<1>2. /\ job[k].status = "done" /\ ~job[k].again => job[k].id \in Reported
      /\ job[k].status \in {"running", "done"} => job[k].id # NoRun
      /\ \A r \in Run : <<k, r>> \in streams \cup asks =>
           job[k].id # NoRun /\ (job[k].again \/ job[k].id = r)
  BY DEF IInv, CardsOK
<1>3. job'[k].status = "done" /\ ~job'[k].again => job'[k].id \in Reported'
  BY <1>1, <1>2
<1>4. \A r \in Run : <<k, r>> \in streams' \cup asks' =>
        job'[k].id # NoRun /\ (job'[k].again \/ job'[k].id = r)
  BY <1>1, <1>2
<1>5. job'[k].status \in {"running", "done"} => job'[k].id # NoRun
  BY <1>1, <1>2
<1>. QED  BY <1>3, <1>4, <1>5

\* What a step that changes what follows one card must see to.
LEMMA StillFollowed ==
  ASSUME IInv, NEW j \in Job, ToSet(list') \subseteq ToSet(list) \cup {j},
         \A k \in Job : k # j =>
           /\ job'[k] = job[k]
           /\ k \in timers => k \in timers'
           /\ \A r \in Run : <<k, r>> \in streams \cup asks => <<k, r>> \in streams' \cup asks',
         j \in ToSet(list') /\ job'[j].status = "running" =>
           j \in timers' \/ <<j, job'[j].id>> \in streams' \cup asks'
  PROVE  RunningIsFollowed'
<1>. SUFFICES ASSUME NEW k \in ToSet(list'), job'[k].status = "running"
     PROVE  k \in timers' \/ <<k, job'[k].id>> \in streams' \cup asks'
  BY DEF RunningIsFollowed
<1>1. CASE k = j
  BY <1>1
<1>2. CASE k # j
  <2>1. k \in ToSet(list) /\ k \in Job
    BY <1>2, ListedJobs DEF IInv, CardTypes
  <2>2. job'[k] = job[k] /\ job[k].id \in Run
    <3>1. job[k].id \in Run \cup {NoRun} /\ job'[k] = job[k]
      BY <1>2, <2>1, Fields DEF IInv, CardTypes
    <3>2. job[k].id # NoRun
      BY <2>1, <3>1 DEF IInv, CardsOK
    <3>. QED  BY <3>1, <3>2
  <2>3. k \in timers \/ <<k, job[k].id>> \in streams \cup asks
    BY <2>1, <2>2 DEF IInv, RunningIsFollowed
  <2>. QED  BY <1>2, <2>1, <2>2, <2>3
<1>. QED  BY <1>1, <1>2

\* _finishJob().
LEMMA Finishing ==
  ASSUME IInv, NEW j \in Job, NEW v \in {"done", "error", "cancelled"}, NEW open,
         Finish(j, v, open), open \subseteq streams,
         \A k \in Job, r \in Run : k # j /\ <<k, r>> \in streams => <<k, r>> \in open,
         asks' \subseteq asks,
         \A k \in Job, r \in Run : k # j /\ <<k, r>> \in asks => <<k, r>> \in asks',
         UNCHANGED runVars, list' = list, timers' = timers,
         v = "done" => job[j].id # NoRun /\ (~job[j].again => job[j].id \in Reported)
  PROVE  CardTypes' /\ streams' \subseteq streams /\ CardsOK' /\ RunningIsFollowed'
<1>. DEFINE c == [job[j] EXCEPT !.status = v, !.es = NoRun]
<1>1. c \in CardSet /\ c.status = v /\ c.id = job[j].id /\ c.again = job[j].again
  <2>1. job[j] \in CardSet /\ v \in CardStatus
    BY DEF CardStatus, IInv, CardTypes
  <2>. QED  BY <2>1 DEF CardSet
<1>2. job' = [job EXCEPT ![j] = c]
  BY DEF Finish
<1>3. streams' = open \ {<<j, job[j].es>>}
  BY DEF Finish
<1>. HIDE DEF c
<1>4. run' = run /\ earlier' = earlier
  BY DEF runVars
<1>5. \A k \in Job, r \in Run : <<k, r>> \in streams' \cup asks' => <<k, r>> \in streams \cup asks
  BY <1>3
<1>6. \A r \in Run : <<j, r>> \in streams' \cup asks' => c.id # NoRun /\ (c.again \/ c.id = r)
  BY <1>1, <1>5 DEF IInv, CardsOK
<1>7. job' \in [Job -> CardSet] /\ CardsOK'
  BY <1>1, <1>2, <1>4, <1>5, <1>6, OneCard DEF Reported
<1>8. /\ job'[j] = c
      /\ \A k \in Job : k # j => job'[k] = job[k]
  BY <1>1, <1>2, CardAt DEF IInv, CardTypes
<1>9. \A k \in Job, r \in Run : k # j /\ <<k, r>> \in streams \cup asks => <<k, r>> \in streams' \cup asks'
  BY <1>3
<1>10. RunningIsFollowed'
  BY <1>1, <1>8, <1>9, StillFollowed
<1>. QED  BY <1>3, <1>7, <1>10 DEF IInv, CardTypes

-----------------------------------------------------------------------------
(* The server.                                                             *)

\* Of which a run came to a report once, one did.
KeepsDone == Reported \subseteq Reported'

Statuses == {"none", "running", "done", "error", "cancelled", "lost"}

LEMMA StartsRun ==
  ASSUME ServerOK, NEW r \in Run, StartResearch(r), chats' \in {chats, chats \cup {r}},
         run[r] = "done" => r \in chats'
  PROVE  ServerOK' /\ KeepsDone
<1>1. /\ run' \in [Run -> Statuses]
      /\ run'[r] = "running" /\ \A k \in Run : k # r => run'[k] = run[k]
  BY DEF StartResearch, ServerOK, RunsTypeOK, Statuses
<1>2. /\ known' = known \cup {r} /\ saved' = saved /\ consumed' = consumed
      /\ earlier \subseteq earlier' /\ earlier' \subseteq earlier \cup {r}
      /\ run[r] = "done" => r \in earlier'
      /\ run[r] # "done" => earlier' = earlier
  BY DEF StartResearch
<1>3. /\ saved \subseteq Run /\ known \subseteq Run /\ consumed \subseteq saved
      /\ chats \subseteq Run /\ earlier \subseteq chats
  BY DEF ServerOK, RunsTypeOK
<1>4. RunsTypeOK'
  BY <1>1, <1>2, <1>3 DEF RunsTypeOK, Statuses
<1>5. Reported \subseteq Reported'
  BY <1>1, <1>2, <1>3 DEF Reported
<1>6. saved' \subseteq Reported'
  BY <1>2, <1>5 DEF ServerOK
<1>7. \A k \in known' : run'[k] # "none"
  BY <1>1, <1>2, <1>3 DEF ServerOK
<1>8. \A k \in Run : run'[k] = "running" => k \in known'
  BY <1>1, <1>2 DEF ServerOK
<1>. QED  BY <1>4, <1>5, <1>6, <1>7, <1>8 DEF ServerOK, KeepsDone

LEMMA RunEnds ==
  ASSUME ServerOK, NEW r \in Run, NEW v \in {"done", "error", "cancelled"},
         run[r] = "running", run' = [run EXCEPT ![r] = v], UNCHANGED <<known, chats, earlier>>,
         saved' \in {saved, saved \cup {r}}, saved' # saved => v = "done",
         consumed' \subseteq consumed
  PROVE  ServerOK' /\ KeepsDone
<1>1. /\ run' \in [Run -> Statuses]
      /\ run'[r] = v /\ \A k \in Run : k # r => run'[k] = run[k]
  BY DEF ServerOK, RunsTypeOK, Statuses
<1>2. saved \subseteq Run /\ known \subseteq Run
  BY DEF ServerOK, RunsTypeOK
<1>3. RunsTypeOK'
  BY <1>1, <1>2 DEF ServerOK, RunsTypeOK, Statuses
<1>4. Reported \subseteq Reported'
  BY <1>1 DEF Reported
<1>5. saved' \subseteq Reported'
  <2>1. v = "done" => r \in Reported'
    BY <1>1 DEF Reported
  <2>. QED  BY <1>4, <2>1 DEF ServerOK
<1>6. \A k \in known' : run'[k] # "none"
  BY <1>1, <1>2 DEF ServerOK
<1>7. \A k \in Run : run'[k] = "running" => k \in known'
  BY <1>1 DEF ServerOK
<1>. QED  BY <1>3, <1>4, <1>5, <1>6, <1>7 DEF ServerOK, KeepsDone

LEMMA Restarts ==
  ASSUME ServerOK, ServerRestarts PROVE ServerOK' /\ KeepsDone
<1>1. /\ run' \in [Run -> Statuses]
      /\ \A k \in Run : run'[k] = IF run[k] = "running" THEN "lost" ELSE run[k]
  BY DEF ServerRestarts, ServerOK, RunsTypeOK, Statuses
<1>2. known' = {} /\ UNCHANGED <<saved, consumed, chats, earlier>>
  BY DEF ServerRestarts
<1>3. RunsTypeOK'
  BY <1>1, <1>2 DEF ServerOK, RunsTypeOK, Statuses
<1>4. Reported \subseteq Reported'
  BY <1>1, <1>2 DEF Reported
<1>5. \A k \in Run : run'[k] # "running"
  BY <1>1 DEF ServerOK, RunsTypeOK
<1>. QED  BY <1>2, <1>3, <1>4, <1>5 DEF ServerOK, KeepsDone

LEMMA CancelsRun ==
  ASSUME ServerOK, NEW r \in Run, CancelResearch(r) PROVE ServerOK' /\ KeepsDone
<1>1. CASE r \in Active
  <2>1. /\ run[r] = "running" /\ run' = [run EXCEPT ![r] = "cancelled"]
        /\ UNCHANGED <<known, saved, consumed, chats, earlier>>
    BY <1>1 DEF CancelResearch, Active
  <2>. QED  BY <2>1, RunEnds
<1>2. CASE r \notin Active
  <2>1. run' = run /\ UNCHANGED <<known, saved, consumed, chats, earlier>>
    BY <1>2 DEF CancelResearch, ServerOK, RunsTypeOK
  <2>. QED  BY <2>1 DEF ServerOK, Reported, RunsTypeOK, KeepsDone
<1>. QED  BY <1>1, <1>2

LEMMA Status ==
  ASSUME ServerOK, NEW r \in Run
  PROVE  StatusOf(r) = "done" => r \in Reported
  BY DEF ServerOK, Reported, RunsTypeOK, StatusOf

-----------------------------------------------------------------------------
(* Steps that leave cards, runs and what follows them alone.               *)

LEMMA Bounded ==
  ASSUME BoundTypes,
         (Click /\ faults' = faults) \/ (Fault /\ clicks' = clicks) \/ UNCHANGED boundVars
  PROVE  BoundTypes'
  BY DEF BoundTypes, Click, Fault, boundVars

LEMMA Quiet ==
  ASSUME IInv, UNCHANGED <<runVars, cardVars, streams, timers, asks>>
  PROVE  CardTypes' /\ ServerOK' /\ CardsOK' /\ RunningIsFollowed'
<1>1. UNCHANGED <<run, known, saved, consumed, chats, earlier, list, job, streams, timers, asks>>
  BY DEF runVars, cardVars
<1>2. CardTypes' /\ ServerOK'
  BY <1>1 DEF IInv, CardTypes, ServerOK, Reported, RunsTypeOK
<1>3. CardsOK'
  BY <1>1, SameCards DEF Reported
<1>4. RunningIsFollowed'
  BY <1>1 DEF IInv, RunningIsFollowed
<1>. QED  BY <1>2, <1>3, <1>4

LEMMA PostIt ==
  ASSUME NetTypes, NEW r \in Run, NEW j \in Job, NEW st \in {"sent", "started", "over"}
  PROVE  [post EXCEPT ![r] = [job |-> j, st |-> st]] \in [Run -> PostSet]
<1>1. [job |-> j, st |-> st] \in PostSet
  BY DEF PostSet
<1>. QED  BY <1>1 DEF NetTypes

LEMMA AnsweredPost ==
  ASSUME NetTypes, NEW r \in Run, NEW st \in {"started", "over"}
  PROVE  [post EXCEPT ![r].st = st] \in [Run -> PostSet]
<1>1. [post[r] EXCEPT !.st = st] \in PostSet
  BY DEF PostSet, NetTypes
<1>. QED  BY <1>1 DEF NetTypes

LEMMA QueuedJobs == IInv => Queued \subseteq Job
  BY ListedJobs DEF Queued, IInv, CardTypes

LEMMA StartQueuedKeeps ==
  ASSUME IInv, NEW j \in Job, StartQueued(j) PROVE IInv'
<1>1. PICK c \in Queued, r \in Run :
        post' = [post EXCEPT ![r] = [job |-> c, st |-> "sent"]]
  BY DEF StartQueued
<1>2. UNCHANGED <<runVars, cardVars, streams, timers, asks, cancels, syncVars, keptVars, seqVars, boundVars>>
  BY DEF StartQueued
<1>3. NetTypes'
  BY <1>1, <1>2, QueuedJobs, PostIt DEF IInv, NetTypes
<1>4. SyncTypes' /\ RunnerTypes' /\ BoundTypes'
  BY <1>2, Bounded DEF IInv, SyncTypes, RunnerTypes, syncVars, keptVars, seqVars
<1>. QED  BY <1>2, <1>3, <1>4, Quiet DEF IInv

LEMMA CancelKeeps ==
  ASSUME IInv, NEW j \in Job, Cancel(j) PROVE IInv'
<1>1. PICK c \in Job : cancels' = cancels \cup {<<c, job[j].id, "sent">>}
  BY DEF Cancel
<1>2. /\ UNCHANGED <<runVars, cardVars, post, streams, timers, asks, syncVars, keptVars, seqVars>>
      /\ Click /\ faults' = faults /\ job[j].status = "running"
  BY DEF Cancel
<1>3. job[j].id \in Run
  BY <1>2, Fields DEF IInv, CardTypes, CardsOK
<1>4. NetTypes'
  BY <1>1, <1>2, <1>3 DEF IInv, NetTypes
<1>5. SyncTypes' /\ RunnerTypes' /\ BoundTypes'
  BY <1>2, Bounded DEF IInv, SyncTypes, RunnerTypes, syncVars, keptVars, seqVars
<1>. QED  BY <1>2, <1>4, <1>5, Quiet DEF IInv

LEMMA StartAllKeeps ==
  ASSUME IInv, StartAll PROVE IInv'
<1>. DEFINE n == Cardinality(Queued)
<1>1. PICK q \in [1..n -> Queued], r \in Run :
        post' = [k \in Run |-> IF k \in r..r + Len(q) - 1
                                 THEN [job |-> q[k - r + 1], st |-> "sent"] ELSE post[k]]
  BY DEF StartAll
<1>2. UNCHANGED <<runVars, cardVars, streams, timers, asks, cancels, syncVars, keptVars, seqVars, boundVars>>
  BY DEF StartAll
<1>3. Queued \subseteq Job /\ n \in Nat
  BY QueuedJobs, CountedJobs
<1>. HIDE DEF n
<1>4. Len(q) = n
  BY <1>1, <1>3
<1>5. \A k \in Run : k \in r..r + Len(q) - 1 => k - r + 1 \in 1..n
  BY <1>1, <1>3, <1>4, Numbers
<1>6. ASSUME NEW k \in Run PROVE post'[k] \in PostSet
  <2>1. CASE k \in r..r + Len(q) - 1
    <3>1. q[k - r + 1] \in Job
      BY <1>1, <1>3, <1>5, <2>1
    <3>. QED  BY <1>1, <2>1, <3>1 DEF PostSet
  <2>2. CASE k \notin r..r + Len(q) - 1
    BY <1>1, <2>2 DEF IInv, NetTypes
  <2>. QED  BY <2>1, <2>2
<1>7. post' \in [Run -> PostSet]
  BY <1>1, <1>6
<1>8. NetTypes'
  BY <1>2, <1>7 DEF IInv, NetTypes
<1>9. SyncTypes' /\ RunnerTypes' /\ BoundTypes'
  BY <1>2, Bounded DEF IInv, SyncTypes, RunnerTypes, syncVars, keptVars, seqVars
<1>. QED  BY <1>2, <1>8, <1>9, Quiet DEF IInv

LEMMA StartSequentialKeeps ==
  ASSUME IInv, StartSequential PROVE IInv'
<1>. DEFINE n == Cardinality(Queued)
<1>1. PICK q \in [1..n -> Queued] : runner' = [NoRunner EXCEPT !.rest = q]
  BY DEF StartSequential
<1>2. UNCHANGED <<runVars, cardVars, netVars, syncVars, keptVars, byRunner, boundVars>>
  BY DEF StartSequential
<1>3. Queued \subseteq Job /\ n \in Nat
  BY QueuedJobs, CountedJobs
<1>. HIDE DEF n
<1>4. q \in Seq(Job)
  BY <1>1, <1>3
<1>5. RunnerTypes'
  BY <1>1, <1>2, <1>4 DEF IInv, RunnerTypes, RunnerSet, NoRunner
<1>6. NetTypes' /\ SyncTypes' /\ BoundTypes' /\ UNCHANGED <<streams, timers, asks>>
  BY <1>2, Bounded DEF IInv, NetTypes, SyncTypes, netVars, syncVars, keptVars
<1>. QED  BY <1>2, <1>5, <1>6, Quiet DEF IInv

LEMMA RunnerLaunchesKeeps ==
  ASSUME IInv, RunnerLaunches PROVE IInv'
<1>1. PICK r \in Run :
        /\ post' = [post EXCEPT ![r] = [job |-> Head(runner.rest), st |-> "sent"]]
        /\ runner' = [rest |-> Tail(runner.rest), cur |-> Head(runner.rest), run |-> r]
        /\ byRunner' = byRunner \cup {r}
  BY DEF RunnerLaunches
<1>2. /\ UNCHANGED <<runVars, cardVars, streams, timers, asks, cancels, syncVars, keptVars, boundVars>>
      /\ runner.rest # <<>>
  BY DEF RunnerLaunches
<1>3. Head(runner.rest) \in Job /\ Tail(runner.rest) \in Seq(Job)
  <2>1. runner.rest \in Seq(Job)
    BY DEF IInv, RunnerTypes, RunnerSet
  <2>. QED  BY <1>2, <2>1
<1>4. RunnerTypes'
  BY <1>1, <1>3 DEF IInv, RunnerTypes, RunnerSet
<1>5. NetTypes'
  BY <1>1, <1>2, <1>3, PostIt DEF IInv, NetTypes
<1>6. SyncTypes' /\ BoundTypes'
  BY <1>2, Bounded DEF IInv, SyncTypes, syncVars, keptVars
<1>. QED  BY <1>2, <1>4, <1>5, <1>6, Quiet DEF IInv

LEMMA RunnerEndsKeeps ==
  ASSUME IInv, RunnerEnds PROVE IInv'
<1>1. /\ runner' = NoRunner /\ byRunner' = {}
      /\ UNCHANGED <<runVars, cardVars, netVars, syncVars, keptVars, boundVars>>
  BY DEF RunnerEnds
<1>2. NoRunner \in RunnerSet
  <2>1. <<>> \in Seq(Job)
    OBVIOUS
  <2>. QED  BY <2>1 DEF NoRunner, RunnerSet
<1>3. RunnerTypes'
  BY <1>1, <1>2 DEF RunnerTypes
<1>4. NetTypes' /\ SyncTypes' /\ BoundTypes' /\ UNCHANGED <<streams, timers, asks>>
  BY <1>1, Bounded DEF IInv, NetTypes, SyncTypes, netVars, syncVars, keptVars
<1>. QED  BY <1>1, <1>3, <1>4, Quiet DEF IInv

LEMMA CancelFailsKeeps ==
  ASSUME IInv, NEW j \in Job, NEW r \in Run, CancelFails(j, r) PROVE IInv'
<1>1. /\ cancels' = (cancels \ {<<j, r, "sent">>}) \cup {<<j, r, "told">>}
      /\ Fault /\ clicks' = clicks
      /\ UNCHANGED <<runVars, cardVars, post, streams, timers, asks, syncVars, keptVars, seqVars>>
  BY DEF CancelFails
<1>2. NetTypes'
  BY <1>1 DEF IInv, NetTypes
<1>3. SyncTypes' /\ RunnerTypes' /\ BoundTypes'
  BY <1>1, Bounded DEF IInv, SyncTypes, RunnerTypes, syncVars, keptVars, seqVars
<1>. QED  BY <1>1, <1>2, <1>3, Quiet DEF IInv

LEMMA SyncKeeps ==
  ASSUME IInv, Interval \/ ActiveFails \/ LibraryFails PROVE IInv'
<1>1. /\ UNCHANGED <<runVars, cardVars, netVars, keptVars, seqVars>>
      /\ (Fault /\ clicks' = clicks) \/ UNCHANGED boundVars
      /\ poll' \in {"idle", "later"}
      /\ snap' = Active \/ snap' = {} \/ snap' = snap
  BY DEF Interval, ActiveFails, LibraryFails
<1>2. Active \subseteq Run
  BY DEF Active, IInv, ServerOK, Reported, RunsTypeOK
<1>3. SyncTypes'
  BY <1>1, <1>2 DEF IInv, SyncTypes, keptVars
<1>4. NetTypes' /\ RunnerTypes' /\ BoundTypes' /\ UNCHANGED <<streams, timers, asks>>
  BY <1>1, Bounded DEF IInv, NetTypes, RunnerTypes, netVars, seqVars
<1>. QED  BY <1>1, <1>3, <1>4, Quiet DEF IInv

-----------------------------------------------------------------------------
(* Steps of the user that change cards.                                    *)

LEMMA FreeJob ==
  ASSUME NEW j \in Job, Free(j)
  PROVE  /\ j \notin ToSet(list) /\ j \notin timers
         /\ \A r \in Run : <<j, r>> \notin streams \cup asks
         /\ \A r \in Run, x \in {"sent", "told"} : <<j, r, x>> \notin cancels
<1>1. \A r \in Run : <<j, r>>[1] = j
  OBVIOUS
<1>2. \A r \in Run, x \in {"sent", "told"} : <<j, r, x>>[1] = j
  OBVIOUS
<1>3. \A x \in streams \cup asks \cup cancels : x[1] # j
  BY DEF Free
<1>4. j \notin ToSet(list) /\ j \notin timers
  BY DEF Free, Listed
<1>. QED  BY <1>1, <1>2, <1>3, <1>4

\* addToQueue() and what startJob() has of it.
LEMMA Entered ==
  ASSUME IInv, NEW j \in Job, Free(j), list' = Append(list, j),
         job' = [job EXCEPT ![j] = [NoCard EXCEPT !.status = "queued"]],
         UNCHANGED <<runVars, streams, timers, asks>>
  PROVE  CardTypes' /\ ServerOK' /\ CardsOK' /\ RunningIsFollowed'
<1>. DEFINE c == [NoCard EXCEPT !.status = "queued"]
<1>1. c \in CardSet /\ c.status = "queued"
  BY DEF NoCard, CardSet, CardStatus
<1>2. job' = [job EXCEPT ![j] = c]
  OBVIOUS
<1>. HIDE DEF c
<1>3. /\ list' \in Seq(Job) /\ ToSet(list') = ToSet(list) \cup {j}
  BY Appended DEF IInv, CardTypes
<1>4. UNCHANGED <<run, known, saved, consumed, chats, earlier, streams, timers, asks>>
  BY DEF runVars
<1>5. \A r \in Run : <<j, r>> \notin streams' \cup asks'
  BY <1>4, FreeJob
<1>6. job' \in [Job -> CardSet] /\ CardsOK'
  BY <1>1, <1>2, <1>4, <1>5, OneCard DEF Reported
<1>7. job'[j] = c /\ \A k \in Job : k # j => job'[k] = job[k]
  BY <1>1, <1>2, CardAt DEF IInv, CardTypes
<1>8. RunningIsFollowed'
  BY <1>1, <1>3, <1>4, <1>7, StillFollowed
<1>9. ServerOK'
  BY <1>4 DEF IInv, ServerOK, Reported, RunsTypeOK
<1>. QED  BY <1>3, <1>6, <1>8, <1>9 DEF CardTypes

\* A card is queued again, or has failed.
LEMMA Restated ==
  ASSUME IInv, NEW j \in Job, NEW v \in {"queued", "error"},
         job' = [job EXCEPT ![j].status = v],
         UNCHANGED <<runVars, list, streams, timers, asks>>
  PROVE  CardTypes' /\ ServerOK' /\ CardsOK' /\ RunningIsFollowed'
<1>. DEFINE c == [job[j] EXCEPT !.status = v]
<1>1. c \in CardSet /\ c.status = v /\ c.id = job[j].id /\ c.again = job[j].again
  <2>1. job[j] \in CardSet /\ v \in CardStatus
    BY DEF CardStatus, IInv, CardTypes
  <2>. QED  BY <2>1 DEF CardSet
<1>2. job' = [job EXCEPT ![j] = c]
  OBVIOUS
<1>. HIDE DEF c
<1>3. UNCHANGED <<run, known, saved, consumed, chats, earlier, list, streams, timers, asks>>
  BY DEF runVars
<1>4. \A r \in Run : <<j, r>> \in streams' \cup asks' => c.id # NoRun /\ (c.again \/ c.id = r)
  BY <1>1, <1>3 DEF IInv, CardsOK
<1>5. job' \in [Job -> CardSet] /\ CardsOK'
  BY <1>1, <1>2, <1>3, <1>4, OneCard DEF Reported
<1>6. job'[j] = c /\ \A k \in Job : k # j => job'[k] = job[k]
  BY <1>1, <1>2, CardAt DEF IInv, CardTypes
<1>7. RunningIsFollowed'
  BY <1>1, <1>3, <1>6, StillFollowed
<1>8. ServerOK'
  BY <1>3 DEF IInv, ServerOK, Reported, RunsTypeOK
<1>. QED  BY <1>3, <1>5, <1>7, <1>8 DEF IInv, CardTypes

LEMMA AddKeeps ==
  ASSUME IInv, Add PROVE IInv'
<1>1. PICK j \in Job :
        /\ NewJob(j) /\ list' = Append(list, j)
        /\ job' = [job EXCEPT ![j] = [NoCard EXCEPT !.status = "queued"]]
  BY DEF Add
<1>2. /\ UNCHANGED <<runVars, netVars, syncVars, keptVars, seqVars>>
      /\ Click /\ faults' = faults
  BY DEF Add
<1>3. NetTypes' /\ UNCHANGED <<streams, timers, asks>>
  BY <1>2 DEF IInv, NetTypes, netVars
<1>4. SyncTypes' /\ RunnerTypes' /\ BoundTypes'
  BY <1>2, Bounded DEF IInv, SyncTypes, RunnerTypes, syncVars, keptVars, seqVars
<1>5. CardTypes' /\ ServerOK' /\ CardsOK' /\ RunningIsFollowed'
  <2>1. Free(j)
    BY <1>1 DEF NewJob
  <2>. QED  BY <1>1, <1>2, <1>3, <2>1, Entered
<1>. QED  BY <1>3, <1>4, <1>5 DEF IInv

LEMMA StartJobKeeps ==
  ASSUME IInv, StartJob PROVE IInv'
<1>1. PICK j \in Job, r \in Run :
        /\ NewJob(j) /\ list' = Append(list, j)
        /\ job' = [job EXCEPT ![j] = [NoCard EXCEPT !.status = "queued"]]
        /\ post' = [post EXCEPT ![r] = [job |-> j, st |-> "sent"]]
  BY DEF StartJob
<1>2. /\ UNCHANGED <<runVars, streams, timers, asks, cancels, syncVars, keptVars, seqVars>>
      /\ Click /\ faults' = faults
  BY DEF StartJob
<1>3. NetTypes'
  BY <1>1, <1>2, PostIt DEF IInv, NetTypes
<1>4. SyncTypes' /\ RunnerTypes' /\ BoundTypes'
  BY <1>2, Bounded DEF IInv, SyncTypes, RunnerTypes, syncVars, keptVars, seqVars
<1>5. CardTypes' /\ ServerOK' /\ CardsOK' /\ RunningIsFollowed'
  <2>1. Free(j)
    BY <1>1 DEF NewJob
  <2>. QED  BY <1>1, <1>2, <2>1, Entered
<1>. QED  BY <1>3, <1>4, <1>5 DEF IInv

LEMMA RetryKeeps ==
  ASSUME IInv, NEW j \in Job, Retry(j) PROVE IInv'
<1>1. PICK c \in Job, r \in Run :
        /\ job' = [job EXCEPT ![c].status = "queued"]
        /\ post' = [post EXCEPT ![r] = [job |-> c, st |-> "sent"]]
  BY DEF Retry
<1>2. /\ UNCHANGED <<runVars, list, streams, timers, asks, cancels, syncVars, keptVars, seqVars>>
      /\ Click /\ faults' = faults
  BY DEF Retry
<1>3. NetTypes'
  BY <1>1, <1>2, PostIt DEF IInv, NetTypes
<1>4. SyncTypes' /\ RunnerTypes' /\ BoundTypes'
  BY <1>2, Bounded DEF IInv, SyncTypes, RunnerTypes, syncVars, keptVars, seqVars
<1>5. CardTypes' /\ ServerOK' /\ CardsOK' /\ RunningIsFollowed'
  BY <1>1, <1>2, Restated
<1>. QED  BY <1>3, <1>4, <1>5 DEF IInv

LEMMA MeantIsListed ==
  ASSUME NEW j \in Job, NEW c \in Job, Listed(j), Meant(j, c) PROVE c \in ToSet(list)
  BY DEF Meant, Finds, Listed, ToSet

LEMMA RemoveJobKeeps ==
  ASSUME IInv, NEW j \in Job, RemoveJob(j) PROVE IInv'
<1>1. PICK c \in Job :
        /\ Meant(j, c)
        /\ dismissed' = dismissed \cup {r \in {job[c].id} : job[c].status = "done"}
        /\ list' = RemoveAt(list, Place(list, c))
  BY DEF RemoveJob
<1>2. /\ UNCHANGED <<runVars, job, netVars, syncVars, seqVars>>
      /\ Click /\ faults' = faults /\ Listed(j)
  BY DEF RemoveJob
<1>3. list' \in Seq(Job) /\ ToSet(list') \subseteq ToSet(list)
  <2>1. Place(list, c) \in DOMAIN list
    BY <1>1, <1>2, MeantIsListed, Placed
  <2>. QED  BY <1>1, <2>1, CutOut DEF IInv, CardTypes
<1>4. UNCHANGED <<run, known, saved, consumed, chats, earlier, streams, timers, asks>>
  BY <1>2 DEF runVars, netVars
<1>5. CardTypes' /\ ServerOK' /\ NetTypes'
  BY <1>2, <1>3, <1>4 DEF IInv, CardTypes, ServerOK, Reported, RunsTypeOK, NetTypes, netVars
<1>6. CardsOK'
  BY <1>2, <1>4, SameCards DEF Reported
<1>7. RunningIsFollowed'
  BY <1>2, <1>3, <1>4 DEF IInv, RunningIsFollowed
<1>8. job[c].status = "done" => job[c].id \in Run
  BY Fields DEF IInv, CardTypes, CardsOK
<1>9. SyncTypes'
  BY <1>1, <1>2, <1>8 DEF IInv, SyncTypes, syncVars
<1>10. RunnerTypes' /\ BoundTypes'
  BY <1>2, Bounded DEF IInv, RunnerTypes, seqVars
<1>. QED  BY <1>5, <1>6, <1>7, <1>9, <1>10 DEF IInv

LEMMA ClearAllKeeps ==
  ASSUME IInv, ClearAll PROVE IInv'
<1>1. /\ dismissed' = dismissed \cup {job[j].id : j \in {k \in ToSet(list) : job[k].status = "done"}}
      /\ streams' \subseteq streams
      /\ job' = [j \in Job |-> IF Listed(j) THEN [job[j] EXCEPT !.es = NoRun] ELSE job[j]]
      /\ list' = <<>>
      /\ UNCHANGED <<runVars, post, timers, asks, cancels, syncVars, seqVars>>
      /\ Click /\ faults' = faults
  BY DEF ClearAll
<1>2. ASSUME NEW k \in Job
      PROVE  /\ job'[k] \in CardSet
             /\ job'[k].status = job[k].status
             /\ job'[k].id = job[k].id /\ job'[k].again = job[k].again
  <2>1. job[k] \in CardSet /\ job'[k] = IF Listed(k) THEN [job[k] EXCEPT !.es = NoRun] ELSE job[k]
    BY <1>1 DEF IInv, CardTypes
  <2>. QED  BY <2>1 DEF CardSet
<1>3. UNCHANGED <<run, known, saved, consumed, chats, earlier, timers, asks>>
  BY <1>1 DEF runVars
<1>4. CardsOK'
  BY <1>1, <1>2, <1>3, SameCards DEF Reported
<1>5. list' \in Seq(Job) /\ ToSet(list') = {}
  BY <1>1 DEF ToSet
<1>6. job' \in [Job -> CardSet]
  BY <1>1, <1>2
<1>7. CardTypes' /\ RunningIsFollowed'
  BY <1>5, <1>6 DEF CardTypes, RunningIsFollowed
<1>8. NetTypes' /\ ServerOK'
  BY <1>1, <1>3 DEF IInv, NetTypes, ServerOK, Reported, RunsTypeOK
<1>9. \A k \in ToSet(list) : job[k].status = "done" => job[k].id \in Run
  BY ListedJobs, Fields DEF IInv, CardTypes, CardsOK
<1>10. SyncTypes'
  BY <1>1, <1>9 DEF IInv, SyncTypes, syncVars
<1>11. RunnerTypes' /\ BoundTypes'
  BY <1>1, Bounded DEF IInv, RunnerTypes, seqVars
<1>. QED  BY <1>4, <1>7, <1>8, <1>10, <1>11 DEF IInv

LEMMA ReloadKeeps ==
  ASSUME IInv, Reload PROVE IInv'
<1>1. /\ list' = <<>> /\ job' = [j \in Job |-> NoCard]
      /\ streams' = {} /\ timers' = {} /\ asks' = {} /\ cancels' = {}
      /\ poll' = "first" /\ snap' = Active /\ runner' = NoRunner /\ byRunner' = {}
      /\ post' = [r \in Run |-> [post[r] EXCEPT !.job = NoJob]]
      /\ UNCHANGED <<runVars, keptVars>> /\ Fault /\ clicks' = clicks
  BY DEF Reload, Opened
<1>2. NoCard \in CardSet /\ NoCard.status = "none"
  BY DEF NoCard, CardSet, CardStatus
<1>3. list' \in Seq(Job) /\ ToSet(list') = {}
  BY <1>1 DEF ToSet
<1>4. CardTypes' /\ RunningIsFollowed'
  BY <1>1, <1>2, <1>3 DEF CardTypes, RunningIsFollowed
<1>5. CardsOK'
  BY <1>1, <1>2 DEF CardsOK
<1>6. ServerOK'
  BY <1>1 DEF IInv, ServerOK, Reported, RunsTypeOK, runVars
<1>7. Active \subseteq Run
  BY DEF Active, IInv, ServerOK, Reported, RunsTypeOK
<1>8. SyncTypes' /\ BoundTypes'
  BY <1>1, <1>7, Bounded DEF IInv, SyncTypes, keptVars
<1>9. RunnerTypes'
  BY <1>1, <1>3 DEF RunnerTypes, RunnerSet, NoRunner
<1>10. NetTypes'
  <2>1. \A r \in Run : [post[r] EXCEPT !.job = NoJob] \in PostSet
    BY DEF IInv, NetTypes, PostSet
  <2>. QED  BY <1>1, <2>1 DEF NetTypes
<1>. QED  BY <1>4, <1>5, <1>6, <1>8, <1>9, <1>10 DEF IInv

-----------------------------------------------------------------------------
(* Launching.                                                              *)

LEMMA StartsKeeps ==
  ASSUME IInv, NEW r \in Run, Starts(r) PROVE IInv'
<1>1. /\ StartResearch(r) /\ post' = [post EXCEPT ![r].st = "started"]
      /\ UNCHANGED <<cardVars, streams, timers, asks, cancels, syncVars, keptVars, seqVars, boundVars>>
      /\ run[r] = "none" /\ chats' = chats
  BY DEF Starts
<1>2. ServerOK' /\ KeepsDone
  BY <1>1, StartsRun DEF IInv
<1>3. UNCHANGED <<list, job>>
  BY <1>1 DEF cardVars
<1>4. CardsOK'
  BY <1>1, <1>2, <1>3, SameCards DEF KeepsDone
<1>5. CardTypes' /\ RunningIsFollowed'
  BY <1>1, <1>3 DEF IInv, CardTypes, RunningIsFollowed
<1>6. NetTypes'
  BY <1>1, AnsweredPost DEF IInv, NetTypes
<1>7. SyncTypes' /\ RunnerTypes' /\ BoundTypes'
  BY <1>1, Bounded DEF IInv, SyncTypes, RunnerTypes, syncVars, keptVars, seqVars
<1>. QED  BY <1>2, <1>4, <1>5, <1>6, <1>7 DEF IInv

LEMMA LaunchedKeeps ==
  ASSUME IInv, NEW r \in Run, Launched(r) PROVE IInv'
<1>. DEFINE j == post[r].job
            c == [status |-> "running", id |-> r, es |-> r,
                  again |-> job[j].again \/ job[j].id # NoRun]
<1>1. /\ post' = [post EXCEPT ![r].st = "over"]
      /\ UNCHANGED <<runVars, list, timers, asks, cancels, syncVars, keptVars, seqVars, boundVars>>
  BY DEF Launched
<1>2. NetTypes' \/ ~(streams' \subseteq Job \X Run)
  BY <1>1, AnsweredPost DEF IInv, NetTypes
<1>3. SyncTypes' /\ RunnerTypes' /\ BoundTypes'
  BY <1>1, Bounded DEF IInv, SyncTypes, RunnerTypes, syncVars, keptVars, seqVars
<1>4. ServerOK' /\ run' = run /\ earlier' = earlier
  BY <1>1 DEF IInv, ServerOK, Reported, RunsTypeOK, runVars
<1>5. j \in Job \cup {NoJob}
  BY DEF IInv, NetTypes, PostSet
<1>6. CASE j = NoJob
  <2>1. job' = job /\ streams' = streams
    BY <1>6 DEF Launched
  <2>2. CardTypes' /\ RunningIsFollowed'
    BY <1>1, <2>1 DEF IInv, CardTypes, RunningIsFollowed
  <2>3. CardsOK'
    BY <1>1, <1>4, <2>1, SameCards DEF Reported
  <2>4. NetTypes'
    BY <1>2, <2>1 DEF IInv, NetTypes
  <2>. QED  BY <1>3, <1>4, <2>2, <2>3, <2>4 DEF IInv
<1>7. CASE j # NoJob
  <2>1. j \in Job
    BY <1>5, <1>7
  <2>2. job' = [job EXCEPT ![j] = c] /\ streams' = streams \cup {<<j, r>>}
    BY <1>7 DEF Launched
  <2>3. job[j].again \in BOOLEAN
    BY <2>1, Fields DEF IInv, CardTypes
  <2>4. /\ c \in CardSet /\ c.status = "running" /\ c.id = r
        /\ ~c.again => job[j].id = NoRun
    BY <2>3 DEF CardSet, CardStatus
  <2>5. r # NoRun
    BY Numbers
  <2>. HIDE DEF c
  <2>6. \A q \in Run : <<j, q>> \in streams \cup asks => job[j].id # NoRun
    BY <2>1 DEF IInv, CardsOK
  <2>7. \A q \in Run : <<j, q>> \in streams' \cup asks' => c.id # NoRun /\ (c.again \/ c.id = q)
    BY <1>1, <2>2, <2>4, <2>5, <2>6
  <2>8. \A k \in Job, q \in Run : <<k, q>> \in streams' \cup asks' =>
          k = j \/ <<k, q>> \in streams \cup asks
    BY <1>1, <2>2
  <2>9. job' \in [Job -> CardSet] /\ CardsOK'
    BY <1>4, <2>1, <2>2, <2>4, <2>5, <2>7, <2>8, OneCard DEF Reported
  <2>10. job'[j] = c /\ \A k \in Job : k # j => job'[k] = job[k]
    BY <2>1, <2>2, <2>4, CardAt DEF IInv, CardTypes
  <2>11. RunningIsFollowed'
    <3>1. <<j, job'[j].id>> \in streams' \cup asks'
      BY <2>2, <2>4, <2>10
    <3>2. ToSet(list') \subseteq ToSet(list) \cup {j}
      BY <1>1
    <3>3. \A k \in Job : k # j =>
            /\ job'[k] = job[k]
            /\ k \in timers => k \in timers'
            /\ \A q \in Run : <<k, q>> \in streams \cup asks => <<k, q>> \in streams' \cup asks'
      BY <1>1, <2>2, <2>10
    <3>. HIDE DEF j
    <3>. QED  BY <2>1, <3>1, <3>2, <3>3, StillFollowed
  <2>12. NetTypes' /\ CardTypes'
    BY <1>1, <1>2, <2>1, <2>2, <2>9 DEF IInv, NetTypes, CardTypes
  <2>. QED  BY <1>3, <1>4, <2>9, <2>11, <2>12 DEF IInv
<1>. QED  BY <1>6, <1>7

LEMMA LaunchFailsKeeps ==
  ASSUME IInv, NEW r \in Run, LaunchFails(r) PROVE IInv'
<1>1. /\ post' = [post EXCEPT ![r].st = "over"]
      /\ job' = IF post[r].job = NoJob THEN job ELSE [job EXCEPT ![post[r].job].status = "error"]
      /\ UNCHANGED <<runVars, list, streams, timers, asks, cancels, syncVars, keptVars, seqVars>>
      /\ Fault /\ clicks' = clicks
  BY DEF LaunchFails
<1>2. NetTypes'
  BY <1>1, AnsweredPost DEF IInv, NetTypes
<1>3. SyncTypes' /\ RunnerTypes' /\ BoundTypes'
  BY <1>1, Bounded DEF IInv, SyncTypes, RunnerTypes, syncVars, keptVars, seqVars
<1>4. post[r].job \in Job \cup {NoJob}
  BY DEF IInv, NetTypes, PostSet
<1>5. CardTypes' /\ ServerOK' /\ CardsOK' /\ RunningIsFollowed'
  <2>1. CASE post[r].job = NoJob
    BY <1>1, <2>1, Quiet DEF cardVars
  <2>2. CASE post[r].job # NoJob
    BY <1>1, <1>4, <2>2, Restated
  <2>. QED  BY <2>1, <2>2
<1>. QED  BY <1>2, <1>3, <1>5 DEF IInv

-----------------------------------------------------------------------------
(* Following a run.                                                        *)

LEMMA StreamEndsKeeps ==
  ASSUME IInv, NEW j \in Job, NEW r \in Run, StreamEnds(j, r) PROVE IInv'
<1>. DEFINE open == streams \ {<<j, r>>}
<1>1. /\ <<j, r>> \in streams
      /\ UNCHANGED <<runVars, list, post, timers, asks, cancels, syncVars, keptVars, seqVars, boundVars>>
  BY DEF StreamEnds
<1>2. PICK v \in {"done", "error", "cancelled"} :
        Finish(j, v, open) /\ (v = "done" => StatusOf(r) = "done")
  BY DEF StreamEnds
<1>3. open \subseteq streams /\ \A k \in Job, q \in Run : k # j /\ <<k, q>> \in streams => <<k, q>> \in open
  OBVIOUS
<1>. HIDE DEF open
<1>4. CardTypes' /\ streams' \subseteq streams /\ CardsOK' /\ RunningIsFollowed'
  <2>1. v = "done" => job[j].id # NoRun /\ (~job[j].again => job[j].id \in Reported)
    BY <1>1, <1>2, Status DEF IInv, CardsOK
  <2>. QED  BY <1>1, <1>2, <1>3, <2>1, Finishing
<1>5. NetTypes' /\ ServerOK'
  BY <1>1, <1>4 DEF IInv, NetTypes, ServerOK, Reported, RunsTypeOK, runVars
<1>6. SyncTypes' /\ RunnerTypes' /\ BoundTypes'
  BY <1>1, Bounded DEF IInv, SyncTypes, RunnerTypes, syncVars, keptVars, seqVars
<1>. QED  BY <1>4, <1>5, <1>6 DEF IInv

LEMMA StreamDropsKeeps ==
  ASSUME IInv, NEW j \in Job, NEW r \in Run, StreamDrops(j, r) PROVE IInv'
<1>1. /\ streams' = streams \ {<<j, r>>}
      /\ timers' = IF job[j].status = "running" THEN timers \cup {j} ELSE timers
      /\ UNCHANGED <<runVars, cardVars, post, asks, cancels, syncVars, keptVars, seqVars, clicks>>
      /\ faults' = faults \/ Fault
  BY DEF StreamDrops
<1>2. UNCHANGED <<run, known, saved, consumed, chats, earlier, list, job>>
  BY <1>1 DEF runVars, cardVars
<1>3. CardTypes' /\ ServerOK' /\ NetTypes'
  BY <1>1, <1>2 DEF IInv, CardTypes, ServerOK, Reported, RunsTypeOK, NetTypes
<1>4. CardsOK'
  BY <1>1, <1>2, SameCards DEF Reported
<1>5. RunningIsFollowed'
  BY <1>1, <1>2, StillFollowed
<1>6. SyncTypes' /\ RunnerTypes' /\ BoundTypes'
  BY <1>1, Bounded DEF IInv, SyncTypes, RunnerTypes, syncVars, keptVars, seqVars, boundVars
<1>. QED  BY <1>3, <1>4, <1>5, <1>6 DEF IInv

LEMMA PollFiresKeeps ==
  ASSUME IInv, NEW j \in Job, PollFires(j) PROVE IInv'
<1>1. /\ timers' = timers \ {j}
      /\ asks' = IF job[j].status = "running" THEN asks \cup {<<j, job[j].id>>} ELSE asks
      /\ UNCHANGED <<runVars, cardVars, post, streams, cancels, syncVars, keptVars, seqVars, boundVars>>
  BY DEF PollFires
<1>2. UNCHANGED <<run, known, saved, consumed, chats, earlier, list, job>>
  BY <1>1 DEF runVars, cardVars
<1>3. job[j].status = "running" => job[j].id \in Run
  BY Fields DEF IInv, CardTypes, CardsOK
<1>4. CardTypes' /\ ServerOK' /\ NetTypes'
  BY <1>1, <1>2, <1>3 DEF IInv, CardTypes, ServerOK, Reported, RunsTypeOK, NetTypes
<1>5. CardsOK'
  <2>1. job[j] \in CardSet /\ job' = [job EXCEPT ![j] = job[j]]
    BY <1>2 DEF IInv, CardTypes
  <2>2. \A k \in Job, q \in Run : <<k, q>> \in streams' \cup asks' => k = j \/ <<k, q>> \in streams \cup asks
    BY <1>1
  <2>3. \A q \in Run :
         <<j, q>> \in streams' \cup asks' => job[j].id # NoRun /\ (job[j].again \/ job[j].id = q)
    BY <1>1, <1>3, Numbers DEF IInv, CardsOK
  <2>4. /\ job[j].status \in {"running", "done"} => job[j].id # NoRun
        /\ job[j].status = "done" /\ ~job[j].again => job[j].id \in Reported'
    BY <1>2 DEF IInv, CardsOK, Reported
  <2>. QED  BY <1>2, <2>1, <2>2, <2>3, <2>4, OneCard DEF Reported
<1>6. RunningIsFollowed'
  BY <1>1, <1>2, StillFollowed
<1>7. SyncTypes' /\ RunnerTypes' /\ BoundTypes'
  BY <1>1, Bounded DEF IInv, SyncTypes, RunnerTypes, syncVars, keptVars, seqVars
<1>. QED  BY <1>4, <1>5, <1>6, <1>7 DEF IInv

\* An answer that ends the card, be it an answer or a failure.
LEMMA AnswerKeeps ==
  ASSUME IInv, NEW j \in Job, NEW r \in Run, NEW v \in {"done", "error"},
         <<j, r>> \in asks, asks' = asks \ {<<j, r>>}, Finish(j, v, streams),
         v = "done" => StatusOf(r) = "done",
         UNCHANGED <<runVars, list, post, timers, cancels, syncVars, keptVars, seqVars, boundVars>>
  PROVE  IInv'
<1>1. v = "done" => job[j].id # NoRun /\ (~job[j].again => job[j].id \in Reported)
  BY Status DEF IInv, CardsOK
<1>2. CardTypes' /\ streams' \subseteq streams /\ CardsOK' /\ RunningIsFollowed'
  BY <1>1, Finishing
<1>3. NetTypes' /\ ServerOK'
  BY <1>2 DEF IInv, NetTypes, ServerOK, Reported, RunsTypeOK, runVars
<1>4. SyncTypes' /\ RunnerTypes' /\ BoundTypes'
  BY Bounded DEF IInv, SyncTypes, RunnerTypes, syncVars, keptVars, seqVars
<1>. QED  BY <1>2, <1>3, <1>4 DEF IInv

LEMMA PollAnsweredKeeps ==
  ASSUME IInv, NEW j \in Job, NEW r \in Run, PollAnswered(j, r) PROVE IInv'
<1>1. /\ <<j, r>> \in asks /\ asks' = asks \ {<<j, r>>}
      /\ UNCHANGED <<runVars, list, post, cancels, syncVars, keptVars, seqVars, boundVars>>
  BY DEF PollAnswered
<1>2. CASE StatusOf(r) = "running"
  <2>1. timers' = timers \cup {j} /\ UNCHANGED <<job, streams>>
    BY <1>2 DEF PollAnswered
  <2>2. UNCHANGED <<run, known, saved, consumed, chats, earlier>>
    BY <1>1 DEF runVars
  <2>3. CardTypes' /\ ServerOK' /\ NetTypes'
    BY <1>1, <2>1, <2>2 DEF IInv, CardTypes, ServerOK, Reported, RunsTypeOK, NetTypes
  <2>4. CardsOK'
    BY <1>1, <2>1, <2>2, SameCards DEF Reported
  <2>5. RunningIsFollowed'
    BY <1>1, <2>1, StillFollowed
  <2>6. SyncTypes' /\ RunnerTypes' /\ BoundTypes'
    BY <1>1, Bounded DEF IInv, SyncTypes, RunnerTypes, syncVars, keptVars, seqVars
  <2>. QED  BY <2>3, <2>4, <2>5, <2>6 DEF IInv
<1>3. CASE StatusOf(r) # "running"
  <2>1. PICK v \in {"done", "error"} :
          Finish(j, v, streams) /\ timers' = timers /\ (v = "done" => StatusOf(r) = "done")
    <3>1. CASE StatusOf(r) = "done"
      BY <1>3, <3>1 DEF PollAnswered
    <3>2. CASE StatusOf(r) # "done"
      BY <1>3, <3>2 DEF PollAnswered
    <3>. QED  BY <3>1, <3>2
  <2>. QED  BY <1>1, <2>1, AnswerKeeps
<1>. QED  BY <1>2, <1>3

LEMMA PollFailsKeeps ==
  ASSUME IInv, NEW j \in Job, NEW r \in Run, PollFails(j, r) PROVE IInv'
  BY AnswerKeeps DEF PollFails

LEMMA CancelReachesKeeps ==
  ASSUME IInv, NEW j \in Job, NEW r \in Run, CancelReaches(j, r) PROVE IInv'
<1>1. /\ cancels' = (cancels \ {<<j, r, "sent">>}) \cup {<<j, r, "told">>}
      /\ CancelResearch(r)
      /\ UNCHANGED <<cardVars, post, streams, timers, asks, syncVars, keptVars, seqVars, boundVars>>
  BY DEF CancelReaches
<1>2. ServerOK' /\ KeepsDone
  BY <1>1, CancelsRun DEF IInv
<1>3. UNCHANGED <<list, job>>
  BY <1>1 DEF cardVars
<1>4. CardsOK'
  BY <1>1, <1>2, <1>3, SameCards DEF KeepsDone
<1>5. CardTypes' /\ RunningIsFollowed' /\ NetTypes'
  BY <1>1, <1>3 DEF IInv, CardTypes, RunningIsFollowed, NetTypes
<1>6. SyncTypes' /\ RunnerTypes' /\ BoundTypes'
  BY <1>1, Bounded DEF IInv, SyncTypes, RunnerTypes, syncVars, keptVars, seqVars
<1>. QED  BY <1>2, <1>4, <1>5, <1>6 DEF IInv

LEMMA CancelledKeeps ==
  ASSUME IInv, NEW j \in Job, NEW r \in Run, Cancelled(j, r) PROVE IInv'
<1>1. /\ cancels' = cancels \ {<<j, r, "told">>} /\ Finish(j, "cancelled", streams)
      /\ UNCHANGED <<runVars, list, post, timers, asks, syncVars, keptVars, seqVars, boundVars>>
  BY DEF Cancelled
<1>2. CardTypes' /\ streams' \subseteq streams /\ CardsOK' /\ RunningIsFollowed'
  BY <1>1, Finishing
<1>3. NetTypes' /\ ServerOK'
  BY <1>1, <1>2 DEF IInv, NetTypes, ServerOK, Reported, RunsTypeOK, runVars
<1>4. SyncTypes' /\ RunnerTypes' /\ BoundTypes'
  BY <1>1, Bounded DEF IInv, SyncTypes, RunnerTypes, syncVars, keptVars, seqVars
<1>. QED  BY <1>2, <1>3, <1>4 DEF IInv

-----------------------------------------------------------------------------
(* Finding the runs of others and the finished ones.                       *)

\* What NewJobs() and IsList() say of the cards and the runs they are for.
LEMMA NewOnes ==
  ASSUME NEW n \in Nat, NEW new \in SUBSET Run, NEW rs \in [1..n -> new],
         NEW js \in [1..n -> Job], NewJobs(js, n), NEW j \in ToSet(js)
  PROVE  /\ Place(js, j) \in 1..n /\ js[Place(js, j)] = j
         /\ rs[Place(js, j)] \in new /\ j \in Job /\ Free(j)
<1>1. Place(js, j) \in DOMAIN js /\ js[Place(js, j)] = j
  BY Placed
<1>2. Place(js, j) \in 1..n
  BY <1>1
<1>3. Free(js[Place(js, j)])
  BY <1>2 DEF NewJobs
<1>. QED  BY <1>1, <1>2, <1>3

\* _syncLibrary().
LEMMA ShownCards ==
  ASSUME IInv, ShowLibrary, UNCHANGED <<runVars, netVars>>
  PROVE  CardTypes' /\ ServerOK' /\ CardsOK' /\ RunningIsFollowed'
<1>. DEFINE shown == saved \ dismissed
            new   == {r \in shown : ~HasCard(r)}
            n     == Cardinality(new)
<1>1. PICK rs \in [1..n -> new], js \in [1..n -> Job] :
        /\ IsList(rs, new) /\ NewJobs(js, n)
        /\ list' = list \o js
        /\ job' = [j \in Job |->
             IF j \in ToSet(js) THEN [NoCard EXCEPT !.status = "done", !.id = rs[Place(js, j)]]
             ELSE IF \E r \in shown : Finds(r, j) THEN [job[j] EXCEPT !.status = "done"]
             ELSE job[j]]
  BY DEF ShowLibrary
<1>2. /\ UNCHANGED <<run, known, saved, consumed, chats, earlier, streams, timers, asks>>
  BY DEF runVars, netVars
<1>3. /\ new \in SUBSET Run /\ n \in Nat
      /\ \A r \in shown : r \in Run /\ r \in Reported
  BY CountedRuns DEF IInv, ServerOK, Reported, RunsTypeOK
<1>4. new \subseteq shown
  OBVIOUS
<1>. HIDE DEF shown, new, n
<1>5. list' \in Seq(Job) /\ ToSet(list') = ToSet(list) \cup ToSet(js)
  BY <1>1, <1>3, Joined DEF IInv, CardTypes
<1>6. ASSUME NEW j \in Job
      PROVE  /\ job'[j] \in CardSet
             /\ job'[j].status \in {"running", "done"} => job'[j].id # NoRun
             /\ job'[j].status = "done" /\ ~job'[j].again => job'[j].id \in Reported'
             /\ \A r \in Run : <<j, r>> \in streams' \cup asks' =>
                  job'[j].id # NoRun /\ (job'[j].again \/ job'[j].id = r)
             /\ j \in ToSet(list') /\ job'[j].status = "running" =>
                  j \in timers' \/ <<j, job'[j].id>> \in streams' \cup asks'
  <2>1. CASE j \in ToSet(js)
    <3>. DEFINE q == rs[Place(js, j)]
    <3>1. q \in shown /\ Free(j)
      BY <1>1, <1>3, <1>4, <2>1, NewOnes
    <3>2. q \in Run /\ q \in Reported /\ q # NoRun
      BY <1>3, <3>1, Numbers
    <3>3. job'[j] = [NoCard EXCEPT !.status = "done", !.id = q]
      BY <1>1, <2>1
    <3>. HIDE DEF q
    <3>4. /\ job'[j] \in CardSet /\ job'[j].status = "done" /\ job'[j].id = q
      BY <3>2, <3>3 DEF NoCard, CardSet, CardStatus
    <3>5. \A r \in Run : <<j, r>> \notin streams' \cup asks'
      BY <1>2, <3>1, FreeJob
    <3>. QED  BY <1>2, <3>2, <3>4, <3>5 DEF Reported
  <2>2. CASE j \notin ToSet(js) /\ \E r \in shown : Finds(r, j)
    <3>1. PICK r \in shown : Finds(r, j)
      BY <2>2
    <3>2. job[j].id = r /\ r \in Run /\ r \in Reported /\ r # NoRun
      BY <1>3, <3>1, Numbers DEF Finds
    <3>3. job'[j] = [job[j] EXCEPT !.status = "done"]
      BY <1>1, <2>2
    <3>4. job[j] \in CardSet
      BY DEF IInv, CardTypes
    <3>5. /\ job'[j] \in CardSet /\ job'[j].status = "done"
          /\ job'[j].id = r /\ job'[j].again = job[j].again
      BY <3>2, <3>3, <3>4 DEF CardSet, CardStatus
    <3>6. \A q \in Run : <<j, q>> \in streams' \cup asks' => job[j].again \/ job[j].id = q
      BY <1>2 DEF IInv, CardsOK
    <3>. QED  BY <1>2, <3>2, <3>5, <3>6 DEF Reported
  <2>3. CASE j \notin ToSet(js) /\ ~\E r \in shown : Finds(r, j)
    <3>1. job'[j] = job[j] /\ job[j] \in CardSet
      BY <1>1, <2>3 DEF IInv, CardTypes
    <3>2. j \in ToSet(list') => j \in ToSet(list)
      BY <1>5, <2>3
    <3>3. /\ job[j].status \in {"running", "done"} => job[j].id # NoRun
          /\ job[j].status = "done" /\ ~job[j].again => job[j].id \in Reported
          /\ \A r \in Run : <<j, r>> \in streams \cup asks =>
               job[j].id # NoRun /\ (job[j].again \/ job[j].id = r)
      BY DEF IInv, CardsOK
    <3>4. j \in ToSet(list) /\ job[j].status = "running" =>
            j \in timers \/ <<j, job[j].id>> \in streams \cup asks
      BY DEF IInv, RunningIsFollowed
    <3>5. \A r \in Run : <<j, r>> \in streams' \cup asks' =>
            job'[j].id # NoRun /\ (job'[j].again \/ job'[j].id = r)
      BY <1>2, <3>1, <3>3
    <3>6. j \in ToSet(list') /\ job'[j].status = "running" =>
            j \in timers' \/ <<j, job'[j].id>> \in streams' \cup asks'
      BY <1>2, <3>1, <3>2, <3>4
    <3>7. /\ job'[j].status \in {"running", "done"} => job'[j].id # NoRun
          /\ job'[j].status = "done" /\ ~job'[j].again => job'[j].id \in Reported'
      BY <1>2, <3>1, <3>3 DEF Reported
    <3>. QED  BY <3>1, <3>5, <3>6, <3>7
  <2>. QED  BY <2>1, <2>2, <2>3
<1>7. job' \in [Job -> CardSet]
  BY <1>1, <1>6
<1>8. CardsOK'
  BY <1>6 DEF CardsOK
<1>9. RunningIsFollowed'
  BY <1>5, <1>6, ListedJobs DEF RunningIsFollowed
<1>10. ServerOK'
  BY <1>2 DEF IInv, ServerOK, Reported, RunsTypeOK
<1>. QED  BY <1>5, <1>7, <1>8, <1>9, <1>10 DEF CardTypes

LEMMA OpenPanelKeeps ==
  ASSUME IInv, OpenPanel PROVE IInv'
<1>1. /\ ShowLibrary /\ UNCHANGED <<runVars, netVars, syncVars, keptVars, seqVars>>
      /\ Click /\ faults' = faults
  BY DEF OpenPanel
<1>2. NetTypes' /\ SyncTypes' /\ RunnerTypes' /\ BoundTypes'
  BY <1>1, Bounded DEF IInv, NetTypes, SyncTypes, RunnerTypes, netVars, syncVars, keptVars, seqVars
<1>. QED  BY <1>1, <1>2, ShownCards DEF IInv

LEMMA LibraryArrivesKeeps ==
  ASSUME IInv, LibraryArrives PROVE IInv'
<1>1. /\ ShowLibrary /\ poll' = "idle"
      /\ UNCHANGED <<runVars, netVars, snap, keptVars, seqVars, boundVars>>
  BY DEF LibraryArrives
<1>2. NetTypes' /\ SyncTypes' /\ RunnerTypes' /\ BoundTypes'
  BY <1>1, Bounded DEF IInv, NetTypes, SyncTypes, RunnerTypes, netVars, keptVars, seqVars
<1>. QED  BY <1>1, <1>2, ShownCards DEF IInv

LEMMA AdoptsKeeps ==
  ASSUME IInv, Adopts PROVE IInv'
<1>. DEFINE new == {r \in snap : ~HasCard(r)}
            n   == Cardinality(new)
<1>1. PICK rs \in [1..n -> new], js \in [1..n -> Job] :
        /\ IsList(rs, new) /\ NewJobs(js, n)
        /\ list' = list \o js
        /\ job' = [j \in Job |->
             IF j \in ToSet(js)
             THEN LET r == rs[Place(js, j)]
                  IN  [status |-> "running", id |-> r, es |-> r, again |-> FALSE]
             ELSE job[j]]
        /\ streams' = streams \cup {<<js[k], rs[k]>> : k \in DOMAIN js}
  BY DEF Adopts
<1>2. /\ UNCHANGED <<runVars, post, timers, asks, cancels, keptVars, seqVars, boundVars>>
      /\ snap' = {} /\ poll' \in {"library", "idle"}
  BY DEF Adopts
<1>3. new \in SUBSET Run /\ n \in Nat
  BY CountedRuns DEF IInv, SyncTypes
<1>. HIDE DEF new, n
<1>4. list' \in Seq(Job) /\ ToSet(list') = ToSet(list) \cup ToSet(js)
  BY <1>1, <1>3, Joined DEF IInv, CardTypes
<1>5. DOMAIN js = 1..n
  BY <1>1
<1>6. \A j1, j2 \in 1..n : js[j1] = js[j2] => j1 = j2
  <2>. SUFFICES ASSUME NEW a \in 1..n, NEW b \in 1..n, js[a] = js[b], a < b PROVE FALSE
    BY <1>3
  <2>1. js[a] < js[b] /\ js[a] \in Nat /\ js[b] \in Nat
    BY <1>1, <1>5, Numbers DEF NewJobs, Rising
  <2>. QED  BY <2>1
<1>7. UNCHANGED <<run, known, saved, consumed, chats, earlier, timers, asks>>
  BY <1>2 DEF runVars
<1>8. ASSUME NEW j \in Job
      PROVE  /\ job'[j] \in CardSet
             /\ job'[j].status \in {"running", "done"} => job'[j].id # NoRun
             /\ job'[j].status = "done" /\ ~job'[j].again => job'[j].id \in Reported'
             /\ \A r \in Run : <<j, r>> \in streams' \cup asks' =>
                  job'[j].id # NoRun /\ (job'[j].again \/ job'[j].id = r)
             /\ j \in ToSet(list') /\ job'[j].status = "running" =>
                  j \in timers' \/ <<j, job'[j].id>> \in streams' \cup asks'
  <2>1. CASE j \in ToSet(js)
    <3>. DEFINE p == Place(js, j)
                q == rs[p]
    <3>1. p \in 1..n /\ js[p] = j /\ q \in Run /\ Free(j)
      BY <1>1, <1>3, <2>1, NewOnes
    <3>2. job'[j] = [status |-> "running", id |-> q, es |-> q, again |-> FALSE]
      BY <1>1, <2>1
    <3>3. <<j, q>> \in streams'
      BY <1>1, <1>5, <3>1
    <3>4. \A r \in Run : <<j, r>> \in streams' \cup asks' => r = q
      <4>. SUFFICES ASSUME NEW r \in Run, <<j, r>> \in streams' \cup asks' PROVE r = q
        OBVIOUS
      <4>1. <<j, r>> \notin streams \cup asks
        BY <3>1, FreeJob
      <4>2. PICK k \in 1..n : <<j, r>> = <<js[k], rs[k]>>
        BY <1>1, <1>5, <1>7, <4>1
      <4>3. js[k] = js[p] /\ rs[k] = r
        BY <3>1, <4>2
      <4>. QED  BY <1>6, <3>1, <4>3
    <3>. HIDE DEF p, q
    <3>5. /\ job'[j] \in CardSet /\ job'[j].status = "running" /\ job'[j].id = q
          /\ q # NoRun
      BY <3>1, <3>2, Numbers DEF CardSet, CardStatus
    <3>. QED  BY <3>3, <3>4, <3>5
  <2>2. CASE j \notin ToSet(js)
    <3>1. job'[j] = job[j] /\ job[j] \in CardSet
      BY <1>1, <2>2 DEF IInv, CardTypes
    <3>2. j \in ToSet(list') => j \in ToSet(list)
      BY <1>4, <2>2
    <3>3. \A r \in Run : <<j, r>> \in streams' => <<j, r>> \in streams
      <4>. SUFFICES ASSUME NEW r \in Run, NEW k \in 1..n, <<j, r>> = <<js[k], rs[k]>> PROVE FALSE
        BY <1>1, <1>5
      <4>1. js[k] \in ToSet(js)
        BY <1>5 DEF ToSet
      <4>. QED  BY <2>2, <4>1
    <3>4. /\ job[j].status \in {"running", "done"} => job[j].id # NoRun
          /\ job[j].status = "done" /\ ~job[j].again => job[j].id \in Reported
          /\ \A r \in Run : <<j, r>> \in streams \cup asks =>
               job[j].id # NoRun /\ (job[j].again \/ job[j].id = r)
      BY DEF IInv, CardsOK
    <3>5. j \in ToSet(list) /\ job[j].status = "running" =>
            j \in timers \/ <<j, job[j].id>> \in streams \cup asks
      BY DEF IInv, RunningIsFollowed
    <3>6. \A r \in Run : <<j, r>> \in streams' \cup asks' =>
            job'[j].id # NoRun /\ (job'[j].again \/ job'[j].id = r)
      BY <1>7, <3>1, <3>3, <3>4
    <3>7. j \in ToSet(list') /\ job'[j].status = "running" =>
            j \in timers' \/ <<j, job'[j].id>> \in streams' \cup asks'
      <4>1. streams \subseteq streams'
        BY <1>1
      <4>. QED  BY <1>7, <3>1, <3>2, <3>5, <4>1
    <3>8. /\ job'[j].status \in {"running", "done"} => job'[j].id # NoRun
          /\ job'[j].status = "done" /\ ~job'[j].again => job'[j].id \in Reported'
      BY <1>7, <3>1, <3>4 DEF Reported
    <3>. QED  BY <3>1, <3>6, <3>7, <3>8
  <2>. QED  BY <2>1, <2>2
<1>9. job' \in [Job -> CardSet]
  BY <1>1, <1>8
<1>10. CardsOK'
  BY <1>8 DEF CardsOK
<1>11. RunningIsFollowed'
  BY <1>4, <1>8, ListedJobs DEF RunningIsFollowed
<1>12. ServerOK'
  BY <1>7 DEF IInv, ServerOK, Reported, RunsTypeOK
<1>13. NetTypes'
  <2>1. \A k \in 1..n : <<js[k], rs[k]>> \in Job \X Run
    BY <1>1, <1>3
  <2>. QED  BY <1>1, <1>2, <1>5, <2>1 DEF IInv, NetTypes
<1>14. SyncTypes' /\ RunnerTypes' /\ BoundTypes'
  BY <1>2, Bounded DEF IInv, SyncTypes, RunnerTypes, keptVars, seqVars
<1>. QED  BY <1>4, <1>9, <1>10, <1>11, <1>12, <1>13, <1>14 DEF IInv, CardTypes

LEMMA ServerKeeps ==
  ASSUME IInv, UNCHANGED <<cardVars, netVars, syncVars, keptVars, seqVars>>,
         ServerOK' /\ KeepsDone,
         (Click /\ faults' = faults) \/ (Fault /\ clicks' = clicks) \/ UNCHANGED boundVars
  PROVE  IInv'
<1>1. UNCHANGED <<list, job, streams, timers, asks>>
  BY DEF cardVars, netVars
<1>2. CardsOK'
  BY <1>1, SameCards DEF KeepsDone
<1>3. CardTypes' /\ RunningIsFollowed'
  BY <1>1 DEF IInv, CardTypes, RunningIsFollowed
<1>4. NetTypes' /\ SyncTypes' /\ RunnerTypes' /\ BoundTypes'
  BY Bounded DEF IInv, NetTypes, SyncTypes, RunnerTypes, netVars, syncVars, keptVars, seqVars
<1>. QED  BY <1>2, <1>3, <1>4 DEF IInv

LEMMA ServerStepKeeps ==
  ASSUME IInv, Server PROVE IInv'
<1>1. /\ UNCHANGED <<cardVars, netVars, syncVars, keptVars, seqVars>>
      /\ (Fault /\ clicks' = clicks) \/ UNCHANGED boundVars
  BY DEF Server, boundVars
<1>2. ServerOK' /\ KeepsDone
  <2>1. ASSUME NEW r \in Run, Completes(r) \/ Fails(r) PROVE ServerOK' /\ KeepsDone
    <3>1. CASE Completes(r)
      BY <3>1, RunEnds DEF Completes, IInv
    <3>2. CASE Fails(r)
      BY <3>2, RunEnds DEF Fails, IInv
    <3>. QED  BY <2>1, <3>1, <3>2
  <2>2. ASSUME NEW r \in Run, Saves(r) PROVE ServerOK' /\ KeepsDone
    <3>1. /\ saved' = saved \cup {r} /\ run[r] = "done"
          /\ UNCHANGED <<run, known, consumed, chats, earlier>>
      BY <2>2 DEF Saves
    <3>. QED  BY <3>1 DEF IInv, ServerOK, Reported, RunsTypeOK, KeepsDone
  <2>3. ASSUME NEW r \in Run, Consumes(r) PROVE ServerOK' /\ KeepsDone
    <3>1. /\ known' = known \ {r} /\ consumed' = consumed \cup ({r} \cap saved)
          /\ UNCHANGED <<run, saved, chats, earlier>>
      BY <2>3 DEF Consumes
    <3>2. r \in known => run[r] # "running"
      BY <2>3 DEF Consumes, StatusOf
    <3>. QED  BY <3>1, <3>2 DEF IInv, ServerOK, Reported, RunsTypeOK, KeepsDone
  <2>. QED  BY <2>1, <2>2, <2>3, Restarts DEF Server, IInv
<1>. QED  BY <1>1, <1>2, ServerKeeps

LEMMA ElsewhereKeeps ==
  ASSUME IInv, Elsewhere PROVE IInv'
<1>1. /\ UNCHANGED <<cardVars, netVars, syncVars, keptVars, seqVars>>
      /\ Click /\ faults' = faults
  BY DEF Elsewhere, StartsElsewhere, ChatResearches, ChatStops
<1>2. CASE StartsElsewhere
  <2>1. PICK r \in Run : NextRun(r) /\ StartResearch(r) /\ chats' = chats
    BY <1>2 DEF StartsElsewhere
  <2>2. run[r] = "none"
    BY <2>1, Numbers DEF NextRun, Unused
  <2>3. ServerOK' /\ KeepsDone
    BY <2>1, <2>2, StartsRun DEF IInv
  <2>. QED  BY <1>1, <2>3, ServerKeeps
<1>3. CASE ChatResearches
  <2>1. PICK r \in Run : StartResearch(r) /\ chats' = chats \cup {r}
    BY <1>3 DEF ChatResearches
  <2>2. ServerOK' /\ KeepsDone
    BY <2>1, StartsRun DEF IInv
  <2>. QED  BY <1>1, <2>2, ServerKeeps
<1>4. CASE ChatStops
  <2>1. PICK r \in chats \cap Active : CancelResearch(r)
    BY <1>4 DEF ChatStops
  <2>2. r \in Run
    BY <2>1 DEF IInv, ServerOK, RunsTypeOK
  <2>3. ServerOK' /\ KeepsDone
    BY <2>1, <2>2, CancelsRun DEF IInv
  <2>. QED  BY <1>1, <2>3, ServerKeeps
<1>. QED  BY <1>2, <1>3, <1>4 DEF Elsewhere

-----------------------------------------------------------------------------
(* The inductive invariant.                                                *)

LEMMA InitIInv == Init => IInv
<1>. SUFFICES ASSUME Init PROVE IInv
  OBVIOUS
<1>1. /\ list = <<>> /\ job = [j \in Job |-> NoCard] /\ streams = {} /\ asks = {}
      /\ run = [r \in Run |-> "none"] /\ known = {} /\ saved = {}
      /\ consumed = {} /\ chats = {} /\ earlier = {}
  BY DEF Init, RunsInit
<1>2. NoCard \in CardSet /\ NoCard.status = "none"
  BY DEF NoCard, CardSet, CardStatus
<1>3. <<>> \in Seq(Job) /\ ToSet(list) = {}
  BY <1>1 DEF ToSet
<1>4. CardTypes /\ RunningIsFollowed
  BY <1>1, <1>2, <1>3 DEF CardTypes, RunningIsFollowed
<1>5. CardsOK
  BY <1>1, <1>2 DEF CardsOK
<1>6. ServerOK
  BY <1>1 DEF ServerOK, Reported, RunsTypeOK
<1>7. NoPost \in PostSet /\ NoRunner \in RunnerSet
  BY <1>3 DEF NoPost, PostSet, NoRunner, RunnerSet
<1>8. NetTypes /\ RunnerTypes
  BY <1>7 DEF Init, NetTypes, RunnerTypes
<1>9. SyncTypes /\ BoundTypes
  BY DEF Init, SyncTypes, BoundTypes
<1>. QED  BY <1>4, <1>5, <1>6, <1>8, <1>9 DEF IInv

LEMMA UserKeeps ==
  ASSUME IInv, UserStep PROVE IInv'
  BY AddKeeps, StartJobKeeps, StartQueuedKeeps, RetryKeeps, CancelKeeps, RemoveJobKeeps,
     StartAllKeeps, StartSequentialKeeps, ClearAllKeeps, OpenPanelKeeps, ReloadKeeps
  DEF UserStep

LEMMA LaunchKeeps ==
  ASSUME IInv, LaunchStep PROVE IInv'
  BY StartsKeeps, LaunchedKeeps, LaunchFailsKeeps, RunnerLaunchesKeeps, RunnerEndsKeeps
  DEF LaunchStep

LEMMA FollowKeeps ==
  ASSUME IInv, FollowStep PROVE IInv'
<1>1. ASSUME NEW x \in streams, StreamEnds(x[1], x[2]) \/ StreamDrops(x[1], x[2]) PROVE IInv'
  <2>1. x[1] \in Job /\ x[2] \in Run
    BY DEF IInv, NetTypes
  <2>. QED  BY <1>1, <2>1, StreamEndsKeeps, StreamDropsKeeps
<1>2. ASSUME NEW j \in timers, PollFires(j) PROVE IInv'
  BY <1>2, PollFiresKeeps DEF IInv, NetTypes
<1>3. ASSUME NEW x \in asks, PollAnswered(x[1], x[2]) \/ PollFails(x[1], x[2]) PROVE IInv'
  <2>1. x[1] \in Job /\ x[2] \in Run
    BY DEF IInv, NetTypes
  <2>. QED  BY <1>3, <2>1, PollAnsweredKeeps, PollFailsKeeps
<1>4. ASSUME NEW x \in cancels,
             CancelReaches(x[1], x[2]) \/ CancelFails(x[1], x[2]) \/ Cancelled(x[1], x[2])
      PROVE  IInv'
  <2>1. x[1] \in Job /\ x[2] \in Run
    BY DEF IInv, NetTypes
  <2>. QED  BY <1>4, <2>1, CancelReachesKeeps, CancelFailsKeeps, CancelledKeeps
<1>. QED  BY <1>1, <1>2, <1>3, <1>4 DEF FollowStep

LEMMA StutterKeeps ==
  ASSUME IInv, UNCHANGED vars PROVE IInv'
<1>1. UNCHANGED <<runVars, cardVars, netVars, syncVars, keptVars, seqVars, boundVars>>
  BY DEF vars
<1>2. NetTypes' /\ SyncTypes' /\ RunnerTypes' /\ BoundTypes' /\ UNCHANGED <<streams, timers, asks>>
  BY <1>1, Bounded DEF IInv, NetTypes, SyncTypes, RunnerTypes, netVars, syncVars, keptVars, seqVars
<1>. QED  BY <1>1, <1>2, Quiet DEF IInv

LEMMA NextIInv == IInv /\ [Next]_vars => IInv'
  BY UserKeeps, LaunchKeeps, FollowKeeps, SyncKeeps, AdoptsKeeps, LibraryArrivesKeeps,
     ElsewhereKeeps, ServerStepKeeps, StutterKeeps
  DEF Next, SyncStep

LEMMA AlwaysIInv == Spec => []IInv
  BY InitIInv, NextIInv, PTL DEF Spec

\* Cards, runs, requests and what follows them are well typed, and only runs are
\* dismissed, for any number of runs, cards and events.
THEOREM TypeCorrect == Spec => []TypeOK
<1>1. IInv => TypeOK
  BY DEF IInv, CardTypes, NetTypes, SyncTypes, RunnerTypes, BoundTypes, ServerOK, TypeOK,
         CardSet, CardStatus, PostSet, RunnerSet
<1>. QED  BY <1>1, AlwaysIInv, PTL

\* A card that was launched once and says "done" is of an id of which a run came to a
\* report (which of the panel or the agent is the card's own run, since only a chat uses
\* an id again), whatever stream, poll, cancellation or library list said so.
THEOREM DoneIsReal == Spec => []DoneIsDone
<1>1. IInv => DoneIsDone
  BY ListedJobs DEF IInv, CardTypes, CardsOK, DoneIsDone
<1>. QED  BY <1>1, AlwaysIInv, PTL

\* A card that says "running" has a stream, a timer or a request that will tell it
\* what became of its run: _connectStream() and _pollFallback() pass it on to each
\* other without a gap.
THEOREM NoneIsLeftRunning == Spec => []RunningIsFollowed
<1>1. IInv => RunningIsFollowed
  BY DEF IInv
<1>. QED  BY <1>1, AlwaysIInv, PTL

=============================================================================
