------------------------ MODULE ResearchRunnerProofs ------------------------
(***************************************************************************)
(* That the research panel runs one after the other what it was asked to   *)
(* run one after the other, for any runs, cards and events, as long as no  *)
(* request fails.                                                          *)
(*                                                                         *)
(* The runner waits for a card to stop saying "running", so the invariant  *)
(* follows the card it waits for: all that is about the card is about the  *)
(* run it was launched with (Pace), because it was not launched before     *)
(* (Unposted), and nothing lets a run go on whose card says otherwise      *)
(* (Calm).  What a chat researches is never the runner's (ChatsApart), so  *)
(* that its cards, which break without any fault, do not matter.  Order    *)
(* stands on IInv of ResearchJobsProofs.                                   *)
(***************************************************************************)
EXTENDS ResearchJobsProofs

\* The page does not ask for the ids of chats.
ChatsApart == \A r \in chats : run[r] # "none" /\ post[r] = NoPost

Held == known \cup chats

\* While nothing fails, what the page holds about a run is about one that was started;
\* a cancelled run does not go on, but of a chat.
Calm ==
  /\ snap \subseteq Held
  /\ \A j \in Job, r \in Run : <<j, r>> \in streams => r \in Held
  /\ \A r \in Run : post[r].st = "started" => r \in known
  /\ \A j \in Job, r \in Run :
       <<j, r, "told">> \in cancels => run[r] # "running" \/ r \in chats
  /\ \A j \in Job, r \in Run : job[j].id = r => run[r] # "none"
  /\ \A j \in Job, r \in Run, x \in {"sent", "told"} : <<j, r, x>> \in cancels => run[r] # "none"

Posted(j) == \E r \in Run : post[r].job = j

\* Nothing is about the card yet.
Fresh(j) ==
  /\ job[j].id = NoRun
  /\ j \notin timers
  /\ \A r \in Run : <<j, r>> \notin streams \cup asks
  /\ \A r \in Run, x \in {"sent", "told"} : <<j, r, x>> \notin cancels

\* A card that was not launched waits to be, if the runner counts on it.
Settled(j) ==
  /\ job[j].status = "queued" => Fresh(j)
  /\ j \in ToSet(runner.rest) => job[j].status = "queued"

Unposted == \A j \in Job : ~Posted(j) => Settled(j)

\* What the runner has launched, it has waited for, but the last.
Launches ==
  /\ runner.cur = NoJob => byRunner = {}
  /\ runner.cur # NoJob => runner.run \in byRunner /\ post[runner.run].job = runner.cur
  /\ \A r \in byRunner :
       /\ post[r].job \in Job /\ post[r].st # "none"
       /\ post[r].st # "over" => r = runner.run

\* All that is about card j is about run r, and it says so when r runs.
Pace(j, r) ==
  /\ job[j].id \in {NoRun, r}
  /\ j \notin timers
  /\ \A q \in Run : <<j, q>> \notin asks /\ (<<j, q>> \in streams => q = r)
  /\ \A q \in Run, x \in {"sent", "told"} : <<j, q, x>> \in cancels => q = r
  /\ post[r].st # "over" => Fresh(j)
  /\ run[r] = "running" /\ post[r].st = "over" => job[j].status = "running"

Undisturbed == \A r \in byRunner : Once(post[r].job)

Pass ==
  Undisturbed =>
    /\ runner.cur # NoJob => Pace(runner.cur, runner.run)
    /\ \A r \in byRunner : run[r] = "running" => r = runner.run

Order == Calm /\ Unposted /\ Launches /\ Pass

-----------------------------------------------------------------------------
(* Steps.                                                                  *)

\* A POST is never for another card.
KeepsPosts ==
  \A r \in Run : post[r] # NoPost =>
    post'[r].job = post[r].job /\ (post[r].st # "none" => post'[r].st # "none")

LEMMA StaysPosted ==
  ASSUME KeepsPosts, NEW j \in Job, Posted(j) PROVE Posted(j)'
<1>1. PICK r \in Run : post[r].job = j
  BY DEF Posted
<1>2. post[r] # NoPost
  BY <1>1, Numbers DEF NoPost
<1>. QED  BY <1>1, <1>2 DEF KeepsPosts, Posted

LEMMA WasUndisturbed ==
  ASSUME IInv, Launches, KeepsPosts, byRunner \subseteq byRunner', Undisturbed'
  PROVE  Undisturbed
<1>. SUFFICES ASSUME NEW r \in byRunner, NEW p \in Run, NEW q \in Run,
                     post[p].job = post[r].job, post[q].job = post[r].job
     PROVE  p = q
  BY DEF Undisturbed, Once
<1>1. r \in Run /\ post[r].job \in Job
  BY DEF IInv, RunnerTypes, Launches
<1>2. post[r] # NoPost /\ post[p] # NoPost /\ post[q] # NoPost
  BY <1>1, Numbers DEF NoPost
<1>3. /\ post'[r].job = post[r].job /\ post'[p].job = post[r].job
      /\ post'[q].job = post[r].job
  BY <1>1, <1>2 DEF KeepsPosts
<1>4. r \in byRunner'
  OBVIOUS
<1>. QED  BY <1>3, <1>4 DEF Undisturbed, Once

\* Nothing new is about the card.
Still(j) ==
  /\ job'[j].status = job[j].status /\ job'[j].id = job[j].id
  /\ j \in timers' => j \in timers
  /\ \A r \in Run :
       /\ <<j, r>> \in streams' => <<j, r>> \in streams
       /\ <<j, r>> \in asks' => <<j, r>> \in asks
  /\ \A r \in Run, x \in {"sent", "told"} : <<j, r, x>> \in cancels' =>
       \E y \in {"sent", "told"} : <<j, r, y>> \in cancels

LEMMA StaysFresh ==
  ASSUME NEW j \in Job, Still(j), Fresh(j) PROVE Fresh(j)'
<1>1. job'[j].id = NoRun /\ j \notin timers'
  BY DEF Still, Fresh
<1>2. \A r \in Run : <<j, r>> \notin streams' \cup asks'
  BY DEF Still, Fresh
<1>3. \A r \in Run, x \in {"sent", "told"} : <<j, r, x>> \notin cancels'
  BY DEF Still, Fresh
<1>. QED  BY <1>1, <1>2, <1>3 DEF Fresh

LEMMA StaysSettled ==
  ASSUME NEW j \in Job, Still(j), Settled(j),
         j \in ToSet(runner'.rest) => j \in ToSet(runner.rest)
  PROVE  Settled(j)'
<1>1. job'[j].status = job[j].status
  BY DEF Still
<1>2. Fresh(j) => Fresh(j)'
  BY StaysFresh
<1>. QED  BY <1>1, <1>2 DEF Settled

LEMMA KeepsPace ==
  ASSUME NEW j \in Job, NEW r \in Run, Still(j), Pace(j, r),
         post'[r].st # "over" => post[r].st # "over",
         run'[r] = "running" /\ post'[r].st = "over" =>
           run[r] = "running" /\ post[r].st = "over"
  PROVE  Pace(j, r)'
<1>1. job'[j].status = job[j].status /\ job'[j].id = job[j].id
  BY DEF Still
<1>2. Fresh(j) => Fresh(j)'
  BY StaysFresh
<1>3. \A q \in Run : <<j, q>> \notin asks' /\ (<<j, q>> \in streams' => q = r)
  BY DEF Still, Pace
<1>5. j \notin timers'
  BY DEF Still, Pace
<1>4. \A q \in Run, x \in {"sent", "told"} : <<j, q, x>> \in cancels' => q = r
  BY DEF Still, Pace
<1>. QED  BY <1>1, <1>2, <1>3, <1>4, <1>5 DEF Pace

\* What a step that is not the runner's must see to.
LEMMA OrderKept ==
  ASSUME IInv, Order, KeepsPosts, runner' = runner, byRunner' = byRunner, Calm',
         \A j \in Job : ~Posted(j) /\ ~Posted(j)' /\ Settled(j) => Settled(j)',
         \A r \in byRunner : post'[r].st # "over" => post[r].st # "over",
         \A r \in byRunner : run'[r] = "running" => run[r] = "running" \/ post[r].st # "over",
         \A j \in Job, r \in byRunner :
           j = runner.cur /\ r = runner.run /\ post[r].job = j /\ Undisturbed' /\ Pace(j, r) => Pace(j, r)'
  PROVE  Order'
<1>1. Unposted'
  BY StaysPosted DEF Order, Unposted
<1>2. byRunner \subseteq Run /\ runner.cur \in Job \cup {NoJob}
  BY DEF IInv, RunnerTypes, RunnerSet
<1>3. \A r \in byRunner : post[r] # NoPost
  BY DEF Order, Launches, NoPost
<1>4. \A r \in byRunner : post'[r].job = post[r].job /\ post'[r].st # "none"
  BY <1>2, <1>3 DEF KeepsPosts, Order, Launches
<1>5. Launches'
  BY <1>4 DEF Order, Launches
<1>6. Pass'
  <2>. SUFFICES ASSUME Undisturbed'
       PROVE  /\ runner.cur # NoJob => Pace(runner.cur, runner.run)'
              /\ \A r \in byRunner : run'[r] = "running" => r = runner.run
    BY DEF Pass
  <2>1. Undisturbed
    BY WasUndisturbed DEF Order
  <2>2. runner.cur # NoJob => Pace(runner.cur, runner.run)'
    BY <1>2, <2>1 DEF Order, Pass, Launches
  <2>3. \A r \in byRunner : run'[r] = "running" => r = runner.run
    BY <2>1 DEF Order, Pass, Launches
  <2>. QED  BY <2>2, <2>3
<1>. QED  BY <1>1, <1>5, <1>6 DEF Order

\* A card that is launched besides.
LEMMA Twice ==
  ASSUME IInv, Order, byRunner' = byRunner, Undisturbed', NEW r \in byRunner, NEW q \in Run,
         post'[r].job = post[r].job, post'[q].job = post[r].job
  PROVE  q = r
<1>1. Once(post[r].job)' 
  BY DEF Undisturbed
<1>. QED  BY <1>1 DEF Once, IInv, RunnerTypes

\* The runner's runs are not of chats.
LEMMA NotOfChats ==
  ASSUME IInv, Order, ChatsApart, NEW q \in byRunner PROVE q \in Run /\ q \notin chats
<1>1. q \in Run /\ post[q].job \in Job
  BY DEF IInv, RunnerTypes, Order, Launches
<1>2. post[q] # NoPost
  BY <1>1, Numbers DEF NoPost
<1>. QED  BY <1>1, <1>2 DEF ChatsApart

LEMMA CalmBeside ==
  ASSUME IInv, Calm, UNCHANGED runVars, snap' \subseteq Held,
         \A j \in Job, r \in Run : <<j, r>> \in streams' => <<j, r>> \in streams \/ r \in Held,
         \A r \in Run : post'[r].st = "started" => post[r].st = "started",
         \A j \in Job, r \in Run, x \in {"sent", "told"} :
           <<j, r, x>> \in cancels' => <<j, r, x>> \in cancels \/ (x = "sent" /\ run[r] # "none"),
         \A j \in Job, r \in Run : job'[j].id = r => job[j].id = r \/ run[r] # "none"
  PROVE  Calm'
<1>1. run' = run /\ known' = known /\ chats' = chats /\ Held' = Held
  BY DEF runVars, Held
<1>2. \A j \in Job, r \in Run : <<j, r, "told">> \in cancels' => <<j, r, "told">> \in cancels
  OBVIOUS
<1>3. \A j \in Job, r \in Run :
        <<j, r, "told">> \in cancels' => run'[r] # "running" \/ r \in chats'
  BY <1>1, <1>2 DEF Calm
<1>4. \A j \in Job, r \in Run, x \in {"sent", "told"} : <<j, r, x>> \in cancels' => run'[r] # "none"
  BY <1>1 DEF Calm
<1>5. \A j \in Job, r \in Run : <<j, r>> \in streams' => r \in Held'
  BY <1>1 DEF Calm
<1>6. \A j \in Job, r \in Run : job'[j].id = r => run'[r] # "none"
  BY <1>1 DEF Calm
<1>7. \A r \in Run : post'[r].st = "started" => r \in known'
  BY <1>1 DEF Calm
<1>. QED  BY <1>1, <1>3, <1>4, <1>5, <1>6, <1>7 DEF Calm

LEMMA CalmServer ==
  ASSUME Calm, UNCHANGED <<snap, streams, job>>, Held \subseteq Held', chats \subseteq chats',
         \A r \in Run : run[r] # "none" => run'[r] # "none",
         \A r \in Run :
           run[r] # "none" /\ run'[r] = "running" => run[r] = "running" \/ r \in chats',
         \A r \in Run : post'[r].st = "started" => r \in known',
         \A j \in Job, r \in Run, x \in {"sent", "told"} :
           <<j, r, x>> \in cancels' => \E y \in {"sent", "told"} : <<j, r, y>> \in cancels,
         \A j \in Job, r \in Run :
           <<j, r, "told">> \in cancels' => <<j, r, "told">> \in cancels \/ run'[r] # "running"
  PROVE  Calm'
<1>1. \A j \in Job, r \in Run :
        <<j, r, "told">> \in cancels' => run'[r] # "running" \/ r \in chats'
  BY DEF Calm
<1>2. \A j \in Job, r \in Run, x \in {"sent", "told"} : <<j, r, x>> \in cancels' => run'[r] # "none"
  BY DEF Calm
<1>3. \A j \in Job, r \in Run : <<j, r>> \in streams' => r \in Held'
  BY DEF Calm
<1>4. \A j \in Job, r \in Run : job'[j].id = r => run'[r] # "none"
  BY DEF Calm
<1>5. snap' \subseteq Held'
  BY DEF Calm
<1>. QED  BY <1>1, <1>2, <1>3, <1>4, <1>5 DEF Calm

-----------------------------------------------------------------------------
(* What the user does.                                                     *)

LEMMA FreeOfRunner ==
  ASSUME NEW j \in Job, Free(j) PROVE j # runner.cur /\ j \notin ToSet(runner.rest)
  BY DEF Free

LEMMA SentPost ==
  ASSUME IInv, Order, NEW r \in Run, NextRun(r), NEW j \in Job,
         post' = [post EXCEPT ![r] = [job |-> j, st |-> "sent"]]
  PROVE  /\ KeepsPosts /\ r \notin byRunner /\ run[r] = "none"
         /\ post[r] = NoPost /\ post'[r].job = j /\ post'[r].st = "sent"
         /\ \A q \in Run : q # r => post'[q] = post[q]
         /\ \A q \in byRunner : post'[q] = post[q]
         /\ \A q \in Run : post'[q].st = "started" => post[q].st = "started"
<1>1. Unused(r)
  BY Numbers DEF NextRun
<1>2. post \in [Run -> PostSet] /\ byRunner \subseteq Run
  BY DEF IInv, NetTypes, RunnerTypes
<1>3. /\ post'[r] = [job |-> j, st |-> "sent"]
      /\ \A q \in Run : q # r => post'[q] = post[q]
  BY <1>2
<1>4. post[r] = NoPost /\ run[r] = "none"
  BY <1>1 DEF Unused
<1>5. r \notin byRunner
  BY <1>4 DEF Order, Launches, NoPost
<1>6. KeepsPosts
  BY <1>3, <1>4 DEF KeepsPosts
<1>. QED  BY <1>2, <1>3, <1>4, <1>5, <1>6

LEMMA EnteredOrder ==
  ASSUME IInv, Order, NEW j \in Job, Free(j),
         job' = [job EXCEPT ![j] = [NoCard EXCEPT !.status = "queued"]],
         UNCHANGED <<runVars, streams, timers, asks, cancels, syncVars, seqVars>>,
         \/ post' = post
         \/ \E r \in Run : NextRun(r) /\ post' = [post EXCEPT ![r] = [job |-> j, st |-> "sent"]]
  PROVE  Order'
<1>1. UNCHANGED <<run, known, saved, chats, streams, timers, asks, cancels, snap, runner, byRunner>>
  BY DEF runVars, syncVars, seqVars
<1>2. /\ job'[j].id = NoRun /\ job'[j].status = "queued"
      /\ \A k \in Job : k # j => job'[k] = job[k]
  BY DEF IInv, CardTypes, NoCard
<1>3. /\ KeepsPosts
      /\ \A q \in byRunner : post'[q] = post[q]
      /\ \A q \in Run : post'[q].st = "started" => post[q].st = "started"
  BY SentPost DEF KeepsPosts
<1>4. Calm'
  BY <1>1, <1>2, <1>3, Numbers, CalmBeside DEF Order, Calm
<1>5. \A k \in Job : k # j => Still(k)
  BY <1>1, <1>2 DEF Still
<1>6. Settled(j)'
  <2>1. Fresh(j)'
    BY <1>1, <1>2, FreeJob DEF Fresh
  <2>. QED  BY <1>2, <2>1 DEF Settled
<1>7. \A k \in Job : Settled(k) => Settled(k)'
  BY <1>1, <1>5, <1>6, StaysSettled
<1>8. \A k \in Job, r \in byRunner : k = runner.cur /\ Pace(k, r) => Pace(k, r)'
  <2>. SUFFICES ASSUME NEW r \in byRunner, runner.cur \in Job, Pace(runner.cur, r)
       PROVE  Pace(runner.cur, r)'
    BY <1>1
  <2>1. Still(runner.cur) /\ r \in Run
    BY <1>5, FreeOfRunner DEF IInv, RunnerTypes
  <2>2. \A k \in Job : k = runner.cur => Pace(k, r)'
    BY <1>1, <1>3, <2>1, KeepsPace
  <2>. QED  BY <1>1, <2>2
<1>. QED  BY <1>1, <1>3, <1>4, <1>7, <1>8, OrderKept

LEMMA AddOrder ==
  ASSUME IInv, Order, Add PROVE Order'
<1>1. PICK j \in Job :
        NewJob(j) /\ job' = [job EXCEPT ![j] = [NoCard EXCEPT !.status = "queued"]]
  BY DEF Add
<1>2. UNCHANGED <<runVars, post, streams, timers, asks, cancels, syncVars, seqVars>>
  BY DEF Add, netVars
<1>3. Free(j)
  BY <1>1 DEF NewJob
<1>. QED  BY <1>1, <1>2, <1>3, EnteredOrder

LEMMA StartJobOrder ==
  ASSUME IInv, Order, StartJob PROVE Order'
<1>1. PICK j \in Job, r \in Run :
        /\ NewJob(j) /\ NextRun(r)
        /\ job' = [job EXCEPT ![j] = [NoCard EXCEPT !.status = "queued"]]
        /\ post' = [post EXCEPT ![r] = [job |-> j, st |-> "sent"]]
  BY DEF StartJob
<1>2. UNCHANGED <<runVars, streams, timers, asks, cancels, syncVars, seqVars>>
  BY DEF StartJob
<1>3. Free(j)
  BY <1>1 DEF NewJob
<1>. QED  BY <1>1, <1>2, <1>3, EnteredOrder

\* A card that has been launched, or waits to be, is launched besides.
LEMMA RelaunchedOrder ==
  ASSUME IInv, Order, NEW c \in Job, NEW r \in Run, NextRun(r),
         job' = job \/ job' = [job EXCEPT ![c].status = "queued"],
         post' = [post EXCEPT ![r] = [job |-> c, st |-> "sent"]],
         UNCHANGED <<runVars, streams, timers, asks, cancels, syncVars, seqVars>>
  PROVE  Order'
<1>1. UNCHANGED <<run, known, saved, chats, streams, timers, asks, cancels, snap, runner, byRunner>>
  BY DEF runVars, syncVars, seqVars
<1>2. /\ job'[c].id = job[c].id
      /\ \A k \in Job : k # c => job'[k] = job[k]
  BY DEF IInv, CardTypes, CardSet
<1>3. /\ KeepsPosts /\ r \notin byRunner /\ post'[r].job = c
      /\ \A q \in byRunner : post'[q] = post[q]
      /\ \A q \in Run : post'[q].st = "started" => post[q].st = "started"
  BY SentPost
<1>4. Calm'
  <2>1. \A k \in Job, q \in Run : job'[k].id = q => job[k].id = q
    BY <1>2
  <2>. QED  BY <1>1, <1>3, <2>1, CalmBeside DEF Order, Calm
<1>5. \A k \in Job : k # c => Still(k)
  BY <1>1, <1>2 DEF Still
<1>6. Posted(c)'
  BY <1>3 DEF Posted
<1>7. \A k \in Job : ~Posted(k)' /\ Settled(k) => Settled(k)'
  BY <1>1, <1>5, <1>6, StaysSettled
<1>8. \A k \in Job, q \in byRunner :
        k = runner.cur /\ post[q].job = k /\ Undisturbed' /\ Pace(k, q) => Pace(k, q)'
  <2>. SUFFICES ASSUME NEW k \in Job, NEW q \in byRunner,
                       post[q].job = k, Undisturbed', Pace(k, q)
       PROVE  Pace(k, q)'
    OBVIOUS
  <2>1. q \in Run
    BY DEF IInv, RunnerTypes
  <2>2. k # c
    BY <1>1, <1>3, Twice
  <2>3. Still(k)
    BY <1>5, <2>2
  <2>. QED  BY <1>1, <1>3, <2>1, <2>3, KeepsPace
<1>. QED  BY <1>1, <1>3, <1>4, <1>7, <1>8, OrderKept

LEMMA StartQueuedOrder ==
  ASSUME IInv, Order, NEW j \in Job, StartQueued(j) PROVE Order'
<1>1. PICK c \in Queued, r \in Run :
        NextRun(r) /\ post' = [post EXCEPT ![r] = [job |-> c, st |-> "sent"]]
  BY DEF StartQueued
<1>2. /\ UNCHANGED <<runVars, streams, timers, asks, cancels, syncVars, seqVars>>
      /\ job' = job
  BY DEF StartQueued, cardVars
<1>. QED  BY <1>1, <1>2, QueuedJobs, RelaunchedOrder

LEMMA RetryOrder ==
  ASSUME IInv, Order, NEW j \in Job, Retry(j) PROVE Order'
<1>1. PICK c \in Job, r \in Run :
        /\ NextRun(r) /\ job' = [job EXCEPT ![c].status = "queued"]
        /\ post' = [post EXCEPT ![r] = [job |-> c, st |-> "sent"]]
  BY DEF Retry
<1>2. UNCHANGED <<runVars, streams, timers, asks, cancels, syncVars, seqVars>>
  BY DEF Retry
<1>. QED  BY <1>1, <1>2, RelaunchedOrder

\* Steps that change no run, post or runner, and nothing about any card.
LEMMA StillOrder ==
  ASSUME IInv, Order, UNCHANGED <<runVars, timers, asks, seqVars>>,
         KeepsPosts, \A q \in byRunner : post'[q] = post[q],
         \A q \in Run : post'[q].st = "started" => post[q].st = "started",
         snap' \subseteq Held,
         cancels' = cancels, streams' \subseteq streams,
         \A k \in Job : job'[k].status = job[k].status /\ job'[k].id = job[k].id
  PROVE  Order'
<1>1. UNCHANGED <<run, known, saved, chats, timers, asks, runner, byRunner>>
  BY DEF runVars, seqVars
<1>2. Calm'
  BY <1>1, CalmBeside DEF Order
<1>3. \A k \in Job : Still(k)
  BY <1>1 DEF Still
<1>4. \A k \in Job : Settled(k) => Settled(k)'
  BY <1>1, <1>3, StaysSettled
<1>5. \A k \in Job, q \in byRunner : Pace(k, q) => Pace(k, q)'
  BY <1>1, <1>3, KeepsPace DEF IInv, RunnerTypes
<1>. QED  BY <1>1, <1>2, <1>4, <1>5, OrderKept

LEMMA StartAllOrder ==
  ASSUME IInv, Order, StartAll PROVE Order'
<1>. DEFINE n == Cardinality(Queued)
<1>1. PICK q \in [1..n -> Queued], r \in Run :
        /\ NextRun(r)
        /\ post' = [k \in Run |-> IF k \in r..r + Len(q) - 1
                                    THEN [job |-> q[k - r + 1], st |-> "sent"] ELSE post[k]]
  BY DEF StartAll
<1>2. UNCHANGED <<runVars, cardVars, streams, timers, asks, cancels, syncVars, seqVars>>
  BY DEF StartAll
<1>3. Len(q) \in Nat
  BY <1>1, QueuedJobs, CountedJobs
<1>4. \A k \in Run : k \in r..r + Len(q) - 1 => post[k] = NoPost
  BY <1>1, <1>3, Numbers DEF NextRun, Unused
<1>5. \A k \in Run : post[k] # NoPost => post'[k] = post[k]
  BY <1>1, <1>4
<1>6. \A k \in Run : post'[k].st = "started" => post[k].st = "started"
  <2>. SUFFICES ASSUME NEW k \in Run, post'[k].st = "started" PROVE post[k].st = "started"
    OBVIOUS
  <2>1. k \notin r..r + Len(q) - 1
    BY <1>1
  <2>2. post'[k] = post[k]
    BY <1>1, <2>1
  <2>. QED  BY <2>2
<1>. HIDE DEF n
<1>7. KeepsPosts
  BY <1>5 DEF KeepsPosts
<1>8. \A k \in byRunner : post'[k] = post[k]
  BY <1>5 DEF Order, Launches, NoPost, IInv, RunnerTypes
<1>9. snap' \subseteq Held /\ job' = job
  BY <1>2 DEF Order, Calm, syncVars, cardVars
<1>. QED  BY <1>2, <1>6, <1>7, <1>8, <1>9, StillOrder

LEMMA RemoveJobOrder ==
  ASSUME IInv, Order, NEW j \in Job, RemoveJob(j) PROVE Order'
<1>1. UNCHANGED <<runVars, job, netVars, syncVars, seqVars>>
  BY DEF RemoveJob
<1>2. UNCHANGED <<post, streams, timers, asks, cancels, snap>>
  BY <1>1 DEF netVars, syncVars
<1>3. KeepsPosts /\ snap' \subseteq Held
  BY <1>2 DEF KeepsPosts, Order, Calm
<1>. QED  BY <1>1, <1>2, <1>3, StillOrder

LEMMA ClearAllOrder ==
  ASSUME IInv, Order, ClearAll PROVE Order'
<1>1. /\ streams' \subseteq streams
      /\ job' = [j \in Job |-> IF Listed(j) THEN [job[j] EXCEPT !.es = NoRun] ELSE job[j]]
      /\ UNCHANGED <<runVars, post, timers, asks, cancels, syncVars, seqVars>>
  BY DEF ClearAll
<1>2. \A k \in Job : job'[k].status = job[k].status /\ job'[k].id = job[k].id
  <2>. SUFFICES ASSUME NEW k \in Job PROVE job'[k].status = job[k].status /\ job'[k].id = job[k].id
    OBVIOUS
  <2>1. job[k] \in CardSet /\ job'[k] = IF Listed(k) THEN [job[k] EXCEPT !.es = NoRun] ELSE job[k]
    BY <1>1 DEF IInv, CardTypes
  <2>. QED  BY <2>1 DEF CardSet
<1>3. KeepsPosts /\ snap' \subseteq Held
  BY <1>1 DEF KeepsPosts, Order, Calm, syncVars
<1>. QED  BY <1>1, <1>2, <1>3, StillOrder

LEMMA IntervalOrder ==
  ASSUME IInv, Order, Interval PROVE Order'
<1>1. UNCHANGED <<runVars, job, netVars, seqVars>> /\ snap' = Active
  BY DEF Interval, cardVars
<1>2. UNCHANGED <<post, streams, timers, asks, cancels>>
  BY <1>1 DEF netVars
<1>3. KeepsPosts /\ snap' \subseteq Held
  BY <1>1, <1>2 DEF KeepsPosts, Active, Held
<1>. QED  BY <1>1, <1>2, <1>3, StillOrder

LEMMA CancelOrder ==
  ASSUME IInv, Order, NEW j \in Job, Cancel(j) PROVE Order'
<1>1. PICK c \in Job : Meant(j, c) /\ cancels' = cancels \cup {<<c, job[j].id, "sent">>}
  BY DEF Cancel
<1>2. /\ UNCHANGED <<runVars, cardVars, post, streams, timers, asks, syncVars, seqVars>>
      /\ job[j].status = "running"
  BY DEF Cancel
<1>3. UNCHANGED <<run, known, saved, chats, job, snap, runner, byRunner>>
  BY <1>2 DEF runVars, cardVars, syncVars, seqVars
<1>. DEFINE r == job[j].id
<1>4. r \in Run /\ job[c].id = r
  BY <1>1, <1>2, Fields DEF IInv, CardTypes, CardsOK, Meant, Finds
<1>5. run[r] # "none"
  BY <1>4 DEF Order, Calm
<1>6. cancels' = cancels \cup {<<c, r, "sent">>}
  BY <1>1
<1>. HIDE DEF r
<1>7. KeepsPosts /\ snap' \subseteq Held
  BY <1>2, <1>3 DEF KeepsPosts, Order, Calm
<1>8. Calm'
  BY <1>2, <1>3, <1>5, <1>6, <1>7, CalmBeside DEF Order
<1>9. \A k \in Job : k # c => Still(k)
  BY <1>2, <1>3, <1>6 DEF Still
<1>10. ~Fresh(c) /\ r # NoRun
  BY <1>4, Numbers DEF Fresh
<1>11. Settled(c) => Settled(c)'
  BY <1>3, <1>10 DEF Settled
<1>12. \A k \in Job : Settled(k) => Settled(k)'
  BY <1>3, <1>9, <1>11, StaysSettled
<1>13. \A k \in Job, q \in byRunner : Pace(k, q) => Pace(k, q)'
  <2>. SUFFICES ASSUME NEW k \in Job, NEW q \in byRunner, Pace(k, q) PROVE Pace(k, q)'
    OBVIOUS
  <2>1. q \in Run
    BY DEF IInv, RunnerTypes
  <2>2. CASE k # c
    BY <1>2, <1>3, <1>9, <2>1, <2>2, KeepsPace
  <2>3. CASE k = c
    <3>1. q = r /\ post[q].st = "over"
      BY <1>4, <1>10, <2>3 DEF Pace
    <3>2. \A p \in Run, x \in {"sent", "told"} : <<k, p, x>> \in cancels' => p = q
      BY <1>6, <2>3, <3>1 DEF Pace
    <3>. QED  BY <1>2, <1>3, <3>1, <3>2 DEF Pace
  <2>. QED  BY <2>2, <2>3
<1>. QED  BY <1>2, <1>3, <1>7, <1>8, <1>12, <1>13, OrderKept

-----------------------------------------------------------------------------
(* The runner.                                                             *)

LEMMA HeadAndTail ==
  ASSUME NEW s \in Seq(Job), s # <<>>
  PROVE  Head(s) \in ToSet(s) /\ ToSet(Tail(s)) \subseteq ToSet(s) /\ Head(s) \in Job
<1>1. /\ Len(s) \in Nat /\ Len(s) >= 1 /\ Head(s) = s[1] /\ DOMAIN s = 1..Len(s)
      /\ Len(Tail(s)) = Len(s) - 1 /\ DOMAIN Tail(s) = 1..Len(s) - 1
      /\ \A k \in 1..Len(s) - 1 : Tail(s)[k] = s[k + 1]
  OBVIOUS
<1>2. 1 \in 1..Len(s) /\ \A k \in 1..Len(s) - 1 : k + 1 \in 1..Len(s)
  BY <1>1
<1>3. ToSet(Tail(s)) \subseteq ToSet(s)
  BY <1>1, <1>2 DEF ToSet
<1>. QED  BY <1>1, <1>2, <1>3 DEF ToSet

LEMMA StartSequentialOrder ==
  ASSUME IInv, Order, StartSequential PROVE Order'
<1>. DEFINE n == Cardinality(Queued)
<1>1. PICK q \in [1..n -> Queued] : runner' = [NoRunner EXCEPT !.rest = q]
  BY DEF StartSequential
<1>2. /\ UNCHANGED <<runVars, cardVars, netVars, syncVars, byRunner>>
      /\ runner = NoRunner
  BY DEF StartSequential
<1>3. UNCHANGED <<run, known, saved, chats, list, job, post, streams, timers, asks, cancels, snap>>
  BY <1>2 DEF runVars, cardVars, netVars, syncVars
<1>4. runner'.rest = q /\ runner'.cur = NoJob /\ runner.cur = NoJob
  BY <1>1, <1>2 DEF NoRunner
<1>5. byRunner' = {}
  BY <1>2, <1>4 DEF Order, Launches
<1>6. Calm'
  BY <1>3 DEF Order, Calm, Held
<1>7. \A k \in ToSet(q) : job[k].status = "queued"
  BY DEF ToSet, Queued
<1>8. Unposted'
  BY <1>3, <1>4, <1>7 DEF Order, Unposted, Posted, Settled, Fresh
<1>9. Launches' /\ Pass'
  BY <1>4, <1>5 DEF Launches, Pass
<1>. QED  BY <1>6, <1>8, <1>9 DEF Order

LEMMA RunnerEndsOrder ==
  ASSUME IInv, Order, RunnerEnds PROVE Order'
<1>1. /\ UNCHANGED <<runVars, cardVars, netVars, syncVars>>
      /\ runner' = NoRunner /\ byRunner' = {}
  BY DEF RunnerEnds
<1>2. UNCHANGED <<run, known, saved, chats, list, job, post, streams, timers, asks, cancels, snap>>
  BY <1>1 DEF runVars, cardVars, netVars, syncVars
<1>3. ToSet(runner'.rest) = {} /\ runner'.cur = NoJob
  BY <1>1 DEF NoRunner, ToSet
<1>4. Calm'
  BY <1>2 DEF Order, Calm, Held
<1>5. Unposted'
  BY <1>2, <1>3 DEF Order, Unposted, Posted, Settled, Fresh
<1>6. Launches' /\ Pass'
  BY <1>1, <1>3 DEF Launches, Pass
<1>. QED  BY <1>4, <1>5, <1>6 DEF Order

LEMMA RunnerLaunchesOrder ==
  ASSUME IInv, Order, RunnerLaunches PROVE Order'
<1>1. PICK r \in Run :
        /\ NextRun(r)
        /\ post' = [post EXCEPT ![r] = [job |-> Head(runner.rest), st |-> "sent"]]
        /\ runner' = [rest |-> Tail(runner.rest), cur |-> Head(runner.rest), run |-> r]
        /\ byRunner' = byRunner \cup {r}
  BY DEF RunnerLaunches
<1>2. /\ UNCHANGED <<runVars, cardVars, streams, timers, asks, cancels, syncVars>>
      /\ runner.rest # <<>> /\ RunnerIsReady
  BY DEF RunnerLaunches
<1>3. UNCHANGED <<run, known, saved, chats, list, job, streams, timers, asks, cancels, snap>>
  BY <1>2 DEF runVars, cardVars, syncVars
<1>4. PICK h \in Job :
        /\ h = Head(runner.rest) /\ h \in ToSet(runner.rest)
        /\ ToSet(Tail(runner.rest)) \subseteq ToSet(runner.rest)
  BY <1>2, HeadAndTail DEF IInv, RunnerTypes, RunnerSet
<1>5. /\ ToSet(runner'.rest) \subseteq ToSet(runner.rest) /\ runner'.cur = h /\ runner'.run = r
      /\ post' = [post EXCEPT ![r] = [job |-> h, st |-> "sent"]]
  BY <1>1, <1>4
<1>6. /\ KeepsPosts /\ r \notin byRunner /\ run[r] = "none"
      /\ post[r] = NoPost /\ post'[r].job = h /\ post'[r].st = "sent"
      /\ \A q \in Run : q # r => post'[q] = post[q]
      /\ \A q \in byRunner : post'[q] = post[q]
      /\ \A q \in Run : post'[q].st = "started" => post[q].st = "started"
  <2>1. NextRun(r) /\ post' = [post EXCEPT ![r] = [job |-> h, st |-> "sent"]]
    BY <1>1, <1>5
  <2>. QED  BY <2>1, SentPost
<1>7. Calm'
  BY <1>2, <1>3, <1>6, CalmBeside DEF Order, Calm
<1>8. \A k \in Job : Still(k)
  BY <1>3 DEF Still
<1>9. Unposted'
  BY <1>5, <1>6, <1>8, StaysPosted, StaysSettled DEF Order, Unposted
<1>10. \A q \in byRunner : runner.cur # NoJob /\ post[q].st = "over"
  BY <1>2 DEF Order, Launches, RunnerIsReady
<1>11. Launches'
  <2>1. h # NoJob
    BY <1>4, Numbers
  <2>2. \A q \in byRunner : post'[q].job \in Job /\ post'[q].st # "none" /\ post'[q].st = "over"
    BY <1>6, <1>10 DEF Order, Launches
  <2>. QED  BY <1>1, <1>4, <1>5, <1>6, <2>1, <2>2 DEF Launches
<1>12. Pass'
  <2>. SUFFICES ASSUME Undisturbed'
       PROVE  Pace(h, r)' /\ \A q \in byRunner' : run'[q] = "running" => q = r
    BY <1>5 DEF Pass
  <2>1. Undisturbed
    BY <1>1, <1>6, WasUndisturbed DEF Order
  <2>2. Once(h)'
    BY <1>1, <1>6 DEF Undisturbed
  <2>3. ~Posted(h)
    <3>. SUFFICES ASSUME NEW p \in Run, post[p].job = h PROVE FALSE
      BY DEF Posted
    <3>1. p # r
      BY <1>4, <1>6, Numbers DEF NoPost
    <3>2. post'[p].job = h
      BY <1>6, <3>1
    <3>. QED  BY <1>6, <2>2, <3>1, <3>2 DEF Once
  <2>4. Fresh(h)
    BY <1>4, <2>3 DEF Order, Unposted, Settled
  <2>5. Fresh(h)'
    BY <1>4, <1>8, <2>4, StaysFresh
  <2>6. Pace(h, r)'
    BY <1>3, <1>6, <2>5 DEF Pace, Fresh
  <2>7. \A q \in byRunner : run[q] # "running"
    <3>. SUFFICES ASSUME NEW q \in byRunner, run[q] = "running" PROVE FALSE
      OBVIOUS
    <3>1. q = runner.run /\ runner.cur # NoJob /\ post[q].st = "over"
      BY <1>10, <2>1 DEF Order, Pass
    <3>2. job[runner.cur].status = "running"
      BY <2>1, <3>1 DEF Order, Pass, Pace
    <3>. QED  BY <1>2, <3>1, <3>2 DEF RunnerIsReady
  <2>. QED  BY <1>1, <1>3, <2>6, <2>7
<1>. QED  BY <1>7, <1>9, <1>11, <1>12 DEF Order

-----------------------------------------------------------------------------
(* Launching and following.                                                *)

\* Steps of the server, which the page does not see.
LEMMA ServerOrder ==
  ASSUME IInv, Order, Calm', KeepsPosts,
         UNCHANGED <<job, streams, asks, timers, runner, byRunner>>,
         \A j \in Job, r \in Run, x \in {"sent", "told"} :
           <<j, r, x>> \in cancels' => \E y \in {"sent", "told"} : <<j, r, y>> \in cancels,
         \A r \in byRunner : post'[r].st = "over" <=> post[r].st = "over",
         \A r \in byRunner : run'[r] = "running" => run[r] = "running" \/ post[r].st # "over"
  PROVE  Order'
<1>1. \A k \in Job : Still(k)
  BY DEF Still
<1>2. \A k \in Job : Settled(k) => Settled(k)'
  BY <1>1, StaysSettled
<1>3. \A k \in Job, q \in byRunner : Pace(k, q) => Pace(k, q)'
  BY <1>1, KeepsPace DEF IInv, RunnerTypes
<1>. QED  BY <1>2, <1>3, OrderKept

LEMMA StartsOrder ==
  ASSUME IInv, Order, NEW r \in Run, Starts(r) PROVE Order'
<1>1. /\ post[r].st = "sent" /\ StartResearch(r) /\ post' = [post EXCEPT ![r].st = "started"]
      /\ UNCHANGED <<cardVars, streams, timers, asks, cancels, syncVars, seqVars>>
  BY DEF Starts
<1>2. UNCHANGED <<job, snap, runner, byRunner>>
  BY <1>1 DEF cardVars, syncVars, seqVars
<1>3. /\ run[r] = "none" /\ known' = known \cup {r} /\ chats' = chats
      /\ \A q \in Run : q # r => run'[q] = run[q]
      /\ run'[r] = "running"
  BY <1>1 DEF Starts, StartResearch, IInv, ServerOK, RunsTypeOK
<1>4. /\ post'[r].st = "started" /\ post'[r].job = post[r].job
      /\ \A q \in Run : q # r => post'[q] = post[q]
  BY <1>1 DEF IInv, NetTypes, PostSet
<1>5. KeepsPosts
  BY <1>4 DEF KeepsPosts
<1>6. Calm'
  <2>1. /\ Held \subseteq Held'
        /\ \A q \in Run : post'[q].st = "started" => q \in known'
    BY <1>3, <1>4 DEF Held, Order, Calm
  <2>. QED  BY <1>1, <1>2, <1>3, <2>1, CalmServer DEF Order
<1>7. byRunner \subseteq Run
  BY DEF IInv, RunnerTypes
<1>. QED  BY <1>1, <1>2, <1>3, <1>4, <1>5, <1>6, <1>7, ServerOrder

LEMMA ElsewhereStartOrder ==
  ASSUME IInv, Order, ChatsApart, UNCHANGED <<cardVars, netVars, syncVars, seqVars>>,
         NEW r \in Run, StartResearch(r), NextRun(r) \/ r \in chats,
         chats' \in {chats, chats \cup {r}}, r \in chats => r \in chats'
  PROVE  Order'
<1>1. UNCHANGED <<job, post, streams, timers, asks, cancels, snap, runner, byRunner>>
  BY DEF cardVars, netVars, syncVars, seqVars
<1>2. /\ known' = known \cup {r} /\ run'[r] = "running"
      /\ \A q \in Run : q # r => run'[q] = run[q]
  BY DEF StartResearch, IInv, ServerOK, RunsTypeOK
<1>3. KeepsPosts
  BY <1>1 DEF KeepsPosts
<1>4. NextRun(r) => run[r] = "none" /\ post[r] = NoPost
  BY Numbers DEF NextRun, Unused
<1>5. Calm'
  <2>1. /\ Held \subseteq Held' /\ chats \subseteq chats'
        /\ \A q \in Run : post[q].st = "started" => q \in known'
    BY <1>2 DEF Held, Order, Calm
  <2>. QED  BY <1>1, <1>2, <1>4, <2>1, CalmServer DEF Order
<1>6. r \notin byRunner /\ byRunner \subseteq Run
  <2>1. post[r] = NoPost
    BY <1>4 DEF ChatsApart
  <2>. QED  BY <2>1 DEF NoPost, Order, Launches, IInv, RunnerTypes
<1>. QED  BY <1>1, <1>2, <1>3, <1>5, <1>6, ServerOrder

LEMMA RunEndsOrder ==
  ASSUME IInv, Order, UNCHANGED <<cardVars, netVars, syncVars, seqVars>>, chats' = chats,
         Held \subseteq Held', \A q \in Run : post[q].st = "started" => q \in known',
         \A q \in Run : run'[q] = "running" => run[q] = "running",
         \A q \in Run : run[q] # "none" => run'[q] # "none"
  PROVE  Order'
<1>1. UNCHANGED <<job, post, streams, timers, asks, cancels, snap, runner, byRunner>>
  BY DEF cardVars, netVars, syncVars, seqVars
<1>2. KeepsPosts
  BY <1>1 DEF KeepsPosts
<1>3. Calm'
  BY <1>1, CalmServer DEF Order
<1>4. byRunner \subseteq Run
  BY DEF IInv, RunnerTypes
<1>. QED  BY <1>1, <1>2, <1>3, <1>4, ServerOrder

LEMMA ElsewhereOrder ==
  ASSUME IInv, Order, ChatsApart, Elsewhere PROVE Order'
<1>1. UNCHANGED <<cardVars, netVars, syncVars, seqVars>>
  BY DEF Elsewhere, StartsElsewhere, ChatResearches, ChatStops
<1>2. CASE StartsElsewhere
  <2>1. PICK r \in Run : NextRun(r) /\ StartResearch(r) /\ chats' = chats
    BY <1>2 DEF StartsElsewhere
  <2>. QED  BY <1>1, <2>1, ElsewhereStartOrder
<1>3. CASE ChatResearches
  <2>1. PICK r \in Run :
          (NextRun(r) \/ r \in chats) /\ StartResearch(r) /\ chats' = chats \cup {r}
    BY <1>3 DEF ChatResearches
  <2>. QED  BY <1>1, <2>1, ElsewhereStartOrder
<1>4. CASE ChatStops
  <2>1. PICK r \in chats \cap Active : CancelResearch(r)
    BY <1>4 DEF ChatStops
  <2>2. r \in Run /\ known' = known /\ chats' = chats
    BY <2>1 DEF CancelResearch, IInv, ServerOK, RunsTypeOK
  <2>3. /\ \A q \in Run : run'[q] = "running" => run[q] = "running"
        /\ \A q \in Run : run[q] # "none" => run'[q] # "none"
    BY <2>1, <2>2 DEF CancelResearch, Active, IInv, ServerOK, RunsTypeOK
  <2>4. Held \subseteq Held' /\ \A q \in Run : post[q].st = "started" => q \in known'
    BY <2>2 DEF Held, Order, Calm
  <2>. QED  BY <1>1, <2>2, <2>3, <2>4, RunEndsOrder
<1>. QED  BY <1>2, <1>3, <1>4 DEF Elsewhere

LEMMA ServerStepOrder ==
  ASSUME IInv, Order, ChatsApart, Server, faults' = faults PROVE Order'
<1>1. /\ UNCHANGED <<cardVars, netVars, syncVars, seqVars>>
      /\ \E r \in Run : Completes(r) \/ Saves(r) \/ Consumes(r)
  BY DEF Server, Fault, IInv, BoundTypes
<1>2. PICK r \in Run : Completes(r) \/ Saves(r) \/ Consumes(r)
  BY <1>1
<1>3. /\ known' = known \/ (r \in chats /\ known' = known \ {r})
      /\ chats' = chats
      /\ \A q \in Run : run'[q] = "running" => run[q] = "running"
      /\ \A q \in Run : run[q] # "none" => run'[q] # "none"
  BY <1>2 DEF Completes, Saves, Consumes, IInv, ServerOK, RunsTypeOK
<1>4. \A q \in Run : post[q].st = "started" => q \in known'
  BY <1>3 DEF ChatsApart, NoPost, Order, Calm
<1>5. Held \subseteq Held'
  BY <1>3 DEF Held
<1>. QED  BY <1>1, <1>3, <1>4, <1>5, RunEndsOrder

LEMMA CancelReachesOrder ==
  ASSUME IInv, Order, NEW j \in Job, NEW r \in Run, <<j, r, "sent">> \in cancels,
         CancelReaches(j, r)
  PROVE  Order'
<1>1. /\ cancels' = (cancels \ {<<j, r, "sent">>}) \cup {<<j, r, "told">>}
      /\ CancelResearch(r)
      /\ UNCHANGED <<cardVars, post, streams, timers, asks, syncVars, seqVars>>
  BY DEF CancelReaches
<1>2. UNCHANGED <<job, snap, runner, byRunner>>
  BY <1>1 DEF cardVars, syncVars, seqVars
<1>3. /\ known' = known /\ chats' = chats
      /\ \A q \in Run : run'[q] = "running" => run[q] = "running"
      /\ \A q \in Run : run[q] # "none" => run'[q] # "none"
      /\ run'[r] # "running"
  BY <1>1 DEF CancelResearch, Active, IInv, ServerOK, RunsTypeOK
<1>4. KeepsPosts
  BY <1>1 DEF KeepsPosts
<1>5. \A k \in Job, q \in Run, x \in {"sent", "told"} :
        <<k, q, x>> \in cancels' => \E y \in {"sent", "told"} : <<k, q, y>> \in cancels
  BY <1>1
<1>6. \A k \in Job, q \in Run :
        <<k, q, "told">> \in cancels' => <<k, q, "told">> \in cancels \/ run'[q] # "running"
  BY <1>1, <1>3
<1>7. Calm'
  <2>1. Held \subseteq Held' /\ \A q \in Run : post'[q].st = "started" => q \in known'
    BY <1>1, <1>3 DEF Held, Order, Calm
  <2>. QED  BY <1>1, <1>2, <1>3, <1>5, <1>6, <2>1, CalmServer DEF Order
<1>8. byRunner \subseteq Run
  BY DEF IInv, RunnerTypes
<1>. QED  BY <1>1, <1>2, <1>3, <1>4, <1>5, <1>7, <1>8, ServerOrder

LEMMA LaunchedOrder ==
  ASSUME IInv, Order, NEW r \in Run, Launched(r) PROVE Order'
<1>. DEFINE j == post[r].job
<1>1. /\ post[r].st = "started" /\ post' = [post EXCEPT ![r].st = "over"]
      /\ UNCHANGED <<runVars, list, timers, asks, cancels, syncVars, seqVars>>
  BY DEF Launched
<1>2. UNCHANGED <<run, known, saved, chats, snap, runner, byRunner>>
  BY <1>1 DEF runVars, syncVars, seqVars
<1>3. /\ post'[r].st = "over" /\ post'[r].job = post[r].job
      /\ \A q \in Run : q # r => post'[q] = post[q]
  BY <1>1 DEF IInv, NetTypes, PostSet
<1>4. /\ j = NoJob => job' = job /\ streams' = streams
      /\ j # NoJob =>
           /\ job'[j].status = "running" /\ job'[j].id = r
           /\ \A k \in Job : k # j => job'[k] = job[k]
           /\ streams' = streams \cup {<<j, r>>}
      /\ j \in Job \cup {NoJob}
  BY DEF Launched, IInv, CardTypes, NetTypes, PostSet
<1>5. r \in known /\ run[r] # "none"
  BY <1>1 DEF Order, Calm, IInv, ServerOK
<1>6. KeepsPosts
  BY <1>3 DEF KeepsPosts
<1>. HIDE DEF j
<1>7. Calm'
  <2>1. \A k \in Job, q \in Run : <<k, q>> \in streams' => <<k, q>> \in streams \/ q \in Held
    BY <1>4, <1>5 DEF Held
  <2>2. \A k \in Job, q \in Run : job'[k].id = q => job[k].id = q \/ run[q] # "none"
    BY <1>4, <1>5
  <2>3. \A q \in Run : post'[q].st = "started" => post[q].st = "started"
    BY <1>3
  <2>4. snap' \subseteq Held
    BY <1>2 DEF Order, Calm
  <2>. QED  BY <1>1, <2>1, <2>2, <2>3, <2>4, CalmBeside DEF Order
<1>8. \A k \in Job : k # j => Still(k)
  BY <1>1, <1>4 DEF Still
<1>9. \A k \in Job : ~Posted(k)' /\ Settled(k) => Settled(k)'
  <2>1. \A k \in Job : k = j => Posted(k)'
    BY <1>3 DEF Posted, j
  <2>. QED  BY <1>2, <1>8, <2>1, StaysSettled
<1>10. byRunner \subseteq Run
  BY DEF IInv, RunnerTypes
<1>11. \A k \in Job, q \in byRunner :
         post[q].job = k /\ Undisturbed' /\ Pace(k, q) => Pace(k, q)'
  <2>. SUFFICES ASSUME NEW k \in Job, NEW q \in byRunner,
                       post[q].job = k, Undisturbed', Pace(k, q)
       PROVE  Pace(k, q)'
    OBVIOUS
  <2>1. q \in Run
    BY <1>10
  <2>2. CASE k # j
    <3>1. q # r
      BY <2>2 DEF j
    <3>. QED  BY <1>2, <1>3, <1>8, <2>1, <2>2, <3>1, KeepsPace
  <2>3. CASE k = j
    <3>1. post'[q].job = post[q].job /\ post'[r].job = post[q].job
      BY <1>3, <2>1, <2>3 DEF j
    <3>2. q = r
      BY <1>2, <3>1, Twice
    <3>3. j # NoJob
      BY <2>3, Numbers
    <3>4. \A p \in Run : <<k, p>> \in streams' => p = q
      BY <1>4, <2>3, <3>2, <3>3 DEF Pace
    <3>5. \A p \in Run, x \in {"sent", "told"} : <<k, p, x>> \in cancels' => p = q
      BY <1>1 DEF Pace
    <3>6. k \notin timers' /\ \A p \in Run : <<k, p>> \notin asks'
      BY <1>1 DEF Pace
    <3>. QED  BY <1>3, <1>4, <2>3, <3>2, <3>3, <3>4, <3>5, <3>6 DEF Pace
  <2>. QED  BY <2>2, <2>3
<1>. QED  BY <1>2, <1>3, <1>6, <1>7, <1>9, <1>10, <1>11, OrderKept

\* _finishJob(), on a card something is about.
LEMMA FinishOrder ==
  ASSUME IInv, Order, NEW j \in Job, NEW r \in Run, NEW v \in {"done", "error", "cancelled"},
         NEW open, Finish(j, v, open), open \subseteq streams, cancels' \subseteq cancels,
         <<j, r>> \in streams \/ <<j, r, "told">> \in cancels, run[r] # "running",
         UNCHANGED <<runVars, post, timers, asks, syncVars, seqVars>>
  PROVE  Order'
<1>1. UNCHANGED <<run, known, saved, chats, snap, runner, byRunner>>
  BY DEF runVars, syncVars, seqVars
<1>2. /\ job'[j].status = v /\ job'[j].id = job[j].id
      /\ \A k \in Job : k # j => job'[k] = job[k]
  BY DEF Finish, IInv, CardTypes, CardSet
<1>3. streams' \subseteq streams
  BY DEF Finish
<1>4. ~Fresh(j)
  BY DEF Fresh
<1>5. KeepsPosts /\ snap' \subseteq Held
  BY <1>1 DEF KeepsPosts, Order, Calm
<1>6. Calm'
  <2>1. \A k \in Job, q \in Run : job'[k].id = q => job[k].id = q
    BY <1>2
  <2>. QED  BY <1>3, <1>5, <2>1, CalmBeside DEF Order
<1>7. \A k \in Job : k # j => Still(k)
  BY <1>2, <1>3 DEF Still
<1>8. Settled(j) => Settled(j)'
  BY <1>1, <1>2, <1>4 DEF Settled
<1>9. \A k \in Job : Settled(k) => Settled(k)'
  BY <1>1, <1>7, <1>8, StaysSettled
<1>10. byRunner \subseteq Run
  BY DEF IInv, RunnerTypes
<1>11. \A k \in Job, q \in byRunner : Pace(k, q) => Pace(k, q)'
  <2>. SUFFICES ASSUME NEW k \in Job, NEW q \in byRunner, Pace(k, q) PROVE Pace(k, q)'
    OBVIOUS
  <2>1. q \in Run
    BY <1>10
  <2>2. CASE k # j
    BY <1>1, <1>7, <2>1, <2>2, KeepsPace
  <2>3. CASE k = j
    <3>1. r = q
      BY <2>3 DEF Pace
    <3>2. post[q].st = "over"
      BY <1>4, <2>3 DEF Pace
    <3>3. \A p \in Run : <<k, p>> \in streams' => p = q
      BY <1>3 DEF Pace
    <3>4. \A p \in Run, x \in {"sent", "told"} : <<k, p, x>> \in cancels' => p = q
      BY DEF Pace
    <3>5. job'[k].id \in {NoRun, q}
      BY <1>2, <2>3 DEF Pace
    <3>6. k \notin timers' /\ \A p \in Run : <<k, p>> \notin asks'
      BY DEF Pace
    <3>. QED  BY <1>1, <3>1, <3>2, <3>3, <3>4, <3>5, <3>6 DEF Pace
  <2>. QED  BY <2>2, <2>3
<1>. QED  BY <1>1, <1>5, <1>6, <1>9, <1>11, OrderKept

\* A step that is about a card that is not the runner's, and which something is about.
LEMMA StrayOrder ==
  ASSUME IInv, Order, NEW j \in Job, ~Fresh(j),
         \A q \in byRunner : post[q].job = j => ~Pace(j, q),
         UNCHANGED <<runVars, post, syncVars, seqVars>>,
         cancels' \subseteq cancels, streams' \subseteq streams,
         \A k \in Job : job'[k].id = job[k].id,
         job'[j].status = "queued" => job[j].status = "queued",
         \A k \in Job : k # j => Still(k)
  PROVE  Order'
<1>1. UNCHANGED <<run, known, saved, chats, snap, runner, byRunner>>
  BY DEF runVars, syncVars, seqVars
<1>2. KeepsPosts /\ snap' \subseteq Held
  BY <1>1 DEF KeepsPosts, Order, Calm
<1>3. Calm'
  BY <1>2, CalmBeside DEF Order
<1>4. Settled(j) => Settled(j)'
  BY <1>1 DEF Settled
<1>5. \A k \in Job : Settled(k) => Settled(k)'
  BY <1>1, <1>4, StaysSettled
<1>6. byRunner \subseteq Run
  BY DEF IInv, RunnerTypes
<1>7. \A k \in Job, q \in byRunner : post[q].job = k /\ Pace(k, q) => Pace(k, q)'
  <2>. SUFFICES ASSUME NEW k \in Job, NEW q \in byRunner, post[q].job = k, Pace(k, q)
       PROVE  Pace(k, q)'
    OBVIOUS
  <2>1. q \in Run /\ k # j
    BY <1>6
  <2>. QED  BY <1>1, <2>1, KeepsPace
<1>. QED  BY <1>1, <1>2, <1>3, <1>5, <1>7, OrderKept

\* A card that has a stream, or a cancellation under way, of a chat.
LEMMA OfAChat ==
  ASSUME IInv, Order, ChatsApart, NEW j \in Job, NEW r \in chats,
         <<j, r>> \in streams \/ <<j, r, "told">> \in cancels
  PROVE  ~Fresh(j) /\ \A q \in byRunner : ~Pace(j, q)
<1>1. r \in Run
  BY DEF IInv, ServerOK, RunsTypeOK
<1>2. ~Fresh(j)
  BY <1>1 DEF Fresh
<1>3. \A q \in byRunner : ~Pace(j, q)
  BY <1>1, NotOfChats DEF Pace
<1>. QED  BY <1>2, <1>3

\* _finishJob(), on a card of a chat or of a run that is over.
LEMMA EndsOrder ==
  ASSUME IInv, Order, ChatsApart, NEW j \in Job, NEW r \in Run,
         NEW v \in {"done", "error", "cancelled"}, NEW open, Finish(j, v, open),
         open \subseteq streams, cancels' \subseteq cancels,
         <<j, r>> \in streams \/ <<j, r, "told">> \in cancels, run[r] # "running" \/ r \in chats,
         UNCHANGED <<runVars, post, timers, asks, syncVars, seqVars>>
  PROVE  Order'
<1>1. CASE r \in chats
  <2>1. ~Fresh(j) /\ \A q \in byRunner : ~Pace(j, q)
    BY <1>1, OfAChat
  <2>2. /\ job'[j].status = v /\ streams' \subseteq streams
        /\ \A k \in Job : job'[k].id = job[k].id /\ (k # j => job'[k] = job[k])
    BY DEF Finish, IInv, CardTypes, CardSet
  <2>3. \A k \in Job : k # j => Still(k)
    BY <2>2 DEF Still
  <2>. QED  BY <2>1, <2>2, <2>3, StrayOrder
<1>2. CASE r \notin chats
  BY <1>2, FinishOrder
<1>. QED  BY <1>1, <1>2

LEMMA StreamEndsOrder ==
  ASSUME IInv, Order, ChatsApart, NEW j \in Job, NEW r \in Run, StreamEnds(j, r) PROVE Order'
<1>. DEFINE open == streams \ {<<j, r>>}
<1>1. /\ <<j, r>> \in streams
      /\ UNCHANGED <<runVars, post, timers, asks, cancels, syncVars, seqVars>>
  BY DEF StreamEnds
<1>2. PICK v \in {"done", "error", "cancelled"} :
        Finish(j, v, open) /\ (StatusOf(r) \in {"done", "error", "cancelled"} \/ r \in chats)
  BY DEF StreamEnds
<1>3. run[r] # "running" \/ r \in chats
  BY <1>1, <1>2 DEF StatusOf, Order, Calm, Held
<1>4. open \subseteq streams
  OBVIOUS
<1>. HIDE DEF open
<1>. QED  BY <1>1, <1>2, <1>3, <1>4, EndsOrder

LEMMA CancelledOrder ==
  ASSUME IInv, Order, ChatsApart, NEW j \in Job, NEW r \in Run, Cancelled(j, r) PROVE Order'
<1>1. /\ <<j, r, "told">> \in cancels /\ cancels' = cancels \ {<<j, r, "told">>}
      /\ Finish(j, "cancelled", streams)
      /\ UNCHANGED <<runVars, post, timers, asks, syncVars, seqVars>>
  BY DEF Cancelled
<1>2. run[r] # "running" \/ r \in chats
  BY <1>1 DEF Order, Calm
<1>. QED  BY <1>1, <1>2, EndsOrder

\* The server knows every run that is followed, so no stream drops but of a chat.
LEMMA StreamDropsOrder ==
  ASSUME IInv, Order, ChatsApart, NEW j \in Job, NEW r \in Run, StreamDrops(j, r), faults' = faults
  PROVE  Order'
<1>1. <<j, r>> \in streams /\ StatusOf(r) = "none"
  BY DEF StreamDrops, Fault, IInv, BoundTypes
<1>2. r \in chats
  BY <1>1 DEF Order, Calm, Held, IInv, ServerOK, StatusOf
<1>3. ~Fresh(j) /\ \A q \in byRunner : ~Pace(j, q)
  BY <1>1, <1>2, OfAChat
<1>4. /\ UNCHANGED <<runVars, job, post, asks, cancels, syncVars, seqVars>>
      /\ streams' \subseteq streams /\ timers' \subseteq timers \cup {j}
  BY DEF StreamDrops, cardVars
<1>5. \A k \in Job : k # j => Still(k)
  BY <1>4 DEF Still
<1>. QED  BY <1>3, <1>4, <1>5, StrayOrder

LEMMA PollFiresOrder ==
  ASSUME IInv, Order, NEW j \in Job, PollFires(j) PROVE Order'
<1>1. /\ j \in timers /\ timers' \subseteq timers
      /\ asks' \subseteq asks \cup {<<j, job[j].id>>}
      /\ UNCHANGED <<runVars, job, post, streams, cancels, syncVars, seqVars>>
  BY DEF PollFires, cardVars
<1>2. ~Fresh(j) /\ \A q \in byRunner : ~Pace(j, q)
  BY <1>1 DEF Fresh, Pace
<1>3. \A k \in Job : k # j => Still(k)
  BY <1>1 DEF Still
<1>. QED  BY <1>1, <1>2, <1>3, StrayOrder

LEMMA PollReturnsOrder ==
  ASSUME IInv, Order, NEW j \in Job, NEW r \in Run, PollAnswered(j, r) \/ PollFails(j, r)
  PROVE  Order'
<1>1. /\ <<j, r>> \in asks /\ asks' \subseteq asks /\ timers' \subseteq timers \cup {j}
      /\ UNCHANGED <<runVars, post, cancels, syncVars, seqVars>>
  BY DEF PollAnswered, PollFails
<1>2. ~Fresh(j)
  BY <1>1 DEF Fresh
<1>3. \A q \in byRunner : ~Pace(j, q)
  BY <1>1 DEF Pace
<1>4. UNCHANGED <<job, streams>> \/ \E v \in {"done", "error"} : Finish(j, v, streams)
  BY DEF PollAnswered, PollFails
<1>5. /\ streams' \subseteq streams /\ (job'[j].status = "queued" => job[j].status = "queued")
      /\ \A k \in Job : job'[k].id = job[k].id /\ (k # j => job'[k] = job[k])
  <2>1. CASE UNCHANGED <<job, streams>>
    BY <2>1
  <2>2. ASSUME NEW v \in {"done", "error"}, Finish(j, v, streams)
        PROVE  /\ streams' \subseteq streams /\ job'[j].status = v
               /\ \A k \in Job : job'[k].id = job[k].id /\ (k # j => job'[k] = job[k])
    BY <2>2 DEF Finish, IInv, CardTypes, CardSet
  <2>. QED  BY <1>4, <2>1, <2>2
<1>6. \A k \in Job : k # j => Still(k)
  BY <1>1, <1>5 DEF Still
<1>. QED  BY <1>1, <1>2, <1>3, <1>5, <1>6, StrayOrder

-----------------------------------------------------------------------------
(* Finding the runs of others and the finished ones.                       *)

\* New cards, of Job objects nothing refers to, and cards whose run is done.
LEMMA SyncOrder ==
  ASSUME IInv, Order, ChatsApart, NEW new \in SUBSET Job, NEW done \in SUBSET Job,
         UNCHANGED <<runVars, post, timers, asks, cancels, seqVars>>, snap' \subseteq Held,
         \A k \in new : Free(k) /\ job'[k].status # "queued",
         \A k \in new, r \in Run : job'[k].id = r => run[r] # "none",
         \A k \in Job, r \in Run :
           <<k, r>> \in streams' => <<k, r>> \in streams \/ (k \in new /\ r \in Held),
         \A k \in done :
           /\ k \notin new /\ job'[k].status # "queued" /\ job'[k].id = job[k].id
           /\ job[k].id \in Run /\ (run[job[k].id] # "running" \/ job[k].id \in chats),
         \A k \in Job : k \notin new \cup done => job'[k] = job[k]
  PROVE  Order'
<1>1. UNCHANGED <<run, known, saved, chats, runner, byRunner>>
  BY DEF runVars, seqVars
<1>2. KeepsPosts
  BY DEF KeepsPosts
<1>3. Calm'
  <2>1. \A k \in Job, r \in Run : job'[k].id = r => job[k].id = r \/ run[r] # "none"
    OBVIOUS
  <2>. QED  BY <2>1, CalmBeside DEF Order
<1>4. \A k \in Job : k \notin new \cup done => Still(k)
  BY DEF Still
<1>5. \A k \in new : k # runner.cur /\ k \notin ToSet(runner.rest)
  BY FreeOfRunner
<1>6. \A k \in done : ~Fresh(k)
  BY Numbers DEF Fresh
<1>7. \A k \in Job : Settled(k) => Settled(k)'
  <2>1. \A k \in new \cup done : Settled(k) => Settled(k)'
    BY <1>1, <1>5, <1>6 DEF Settled
  <2>. QED  BY <1>1, <1>4, <2>1, StaysSettled
<1>8. byRunner \subseteq Run
  BY DEF IInv, RunnerTypes
<1>9. \A k \in Job, q \in byRunner : k = runner.cur /\ Pace(k, q) => Pace(k, q)'
  <2>. SUFFICES ASSUME NEW k \in Job, NEW q \in byRunner, k \notin new, Pace(k, q)
       PROVE  Pace(k, q)'
    BY <1>5
  <2>1. q \in Run
    BY <1>8
  <2>2. CASE k \notin done
    BY <1>1, <1>4, <2>1, <2>2, KeepsPace
  <2>3. CASE k \in done
    <3>1. job[k].id = q /\ run[q] # "running"
      BY <2>3, Numbers, NotOfChats DEF Pace
    <3>2. post[q].st = "over"
      BY <1>6, <2>3 DEF Pace
    <3>3. \A p \in Run : <<k, p>> \in streams' => p = q
      BY DEF Pace
    <3>4. \A p \in Run, x \in {"sent", "told"} : <<k, p, x>> \in cancels' => p = q
      BY DEF Pace
    <3>5. job'[k].id \in {NoRun, q}
      BY <2>3, <3>1
    <3>6. k \notin timers' /\ \A p \in Run : <<k, p>> \notin asks'
      BY DEF Pace
    <3>. QED  BY <1>1, <3>1, <3>2, <3>3, <3>4, <3>5, <3>6 DEF Pace
  <2>. QED  BY <2>2, <2>3
<1>. QED  BY <1>1, <1>2, <1>3, <1>7, <1>9, OrderKept

LEMMA ShowLibraryOrder ==
  ASSUME IInv, Order, ChatsApart, ShowLibrary, UNCHANGED <<runVars, netVars, snap, seqVars>> PROVE Order'
<1>. DEFINE shown == saved \ dismissed
            new   == {r \in shown : ~HasCard(r)}
            n     == Cardinality(new)
<1>1. PICK rs \in [1..n -> new], js \in [1..n -> Job] :
        /\ NewJobs(js, n)
        /\ job' = [j \in Job |->
             IF j \in ToSet(js) THEN [NoCard EXCEPT !.status = "done", !.id = rs[Place(js, j)]]
             ELSE IF \E r \in shown : Finds(r, j) THEN [job[j] EXCEPT !.status = "done"]
             ELSE job[j]]
  BY DEF ShowLibrary
<1>2. UNCHANGED <<post, streams, timers, asks, cancels>> /\ snap' \subseteq Held
  BY DEF netVars, Order, Calm
<1>3. /\ new \in SUBSET Run /\ n \in Nat /\ new \subseteq shown
      /\ \A r \in shown : r \in Run /\ (run[r] = "done" \/ r \in chats)
      /\ \A r \in shown : run[r] # "none"
  BY CountedRuns DEF IInv, ServerOK, RunsTypeOK, Reported, ChatsApart
<1>. HIDE DEF shown, new, n
<1>4. ToSet(js) \in SUBSET Job
  BY <1>1, <1>3, Joined DEF IInv, CardTypes
<1>. DEFINE found == {j \in Job : j \notin ToSet(js) /\ \E r \in shown : Finds(r, j)}
<1>5. \A k \in ToSet(js) :
        /\ Free(k) /\ job'[k].status # "queued"
        /\ \A r \in Run : job'[k].id = r => run[r] # "none"
  <2>. SUFFICES ASSUME NEW k \in ToSet(js)
       PROVE  /\ Free(k) /\ job'[k].status # "queued"
              /\ \A r \in Run : job'[k].id = r => run[r] # "none"
    OBVIOUS
  <2>1. Free(k) /\ rs[Place(js, k)] \in shown
    BY <1>1, <1>3, NewOnes
  <2>2. job'[k].status = "done" /\ job'[k].id = rs[Place(js, k)]
    BY <1>1, <1>4 DEF NoCard
  <2>. QED  BY <1>3, <2>1, <2>2
<1>6. \A k \in found :
        /\ k \notin ToSet(js) /\ job'[k].status # "queued" /\ job'[k].id = job[k].id
        /\ job[k].id \in Run /\ (run[job[k].id] # "running" \/ job[k].id \in chats)
  <2>. SUFFICES ASSUME NEW k \in found
       PROVE  /\ job'[k].status # "queued" /\ job'[k].id = job[k].id
              /\ job[k].id \in Run /\ (run[job[k].id] # "running" \/ job[k].id \in chats)
    OBVIOUS
  <2>1. job[k].id \in Run /\ (run[job[k].id] = "done" \/ job[k].id \in chats)
    BY <1>3 DEF Finds
  <2>2. job[k] \in CardSet /\ job'[k] = [job[k] EXCEPT !.status = "done"]
    BY <1>1 DEF IInv, CardTypes
  <2>. QED  BY <2>1, <2>2 DEF CardSet
<1>7. \A k \in Job : k \notin ToSet(js) \cup found => job'[k] = job[k]
  BY <1>1
<1>8. found \in SUBSET Job
  OBVIOUS
<1>. HIDE DEF found
<1>9. /\ \A k \in ToSet(js) : Free(k) /\ job'[k].status # "queued"
      /\ \A k \in ToSet(js), r \in Run : job'[k].id = r => run[r] # "none"
  BY <1>5
<1>10. \A k \in Job, r \in Run :
         <<k, r>> \in streams' => <<k, r>> \in streams \/ (k \in ToSet(js) /\ r \in Held)
  BY <1>2
<1>. QED  BY <1>2, <1>4, <1>6, <1>7, <1>8, <1>9, <1>10, SyncOrder

LEMMA AdoptsOrder ==
  ASSUME IInv, Order, ChatsApart, Adopts PROVE Order'
<1>. DEFINE new == {r \in snap : ~HasCard(r)}
            n   == Cardinality(new)
<1>1. PICK rs \in [1..n -> new], js \in [1..n -> Job] :
        /\ NewJobs(js, n)
        /\ job' = [j \in Job |->
             IF j \in ToSet(js)
             THEN LET r == rs[Place(js, j)]
                  IN  [status |-> "running", id |-> r, es |-> r, again |-> FALSE]
             ELSE job[j]]
        /\ streams' = streams \cup {<<js[k], rs[k]>> : k \in DOMAIN js}
  BY DEF Adopts
<1>2. UNCHANGED <<runVars, post, timers, asks, cancels, seqVars>> /\ snap' \subseteq Held
  BY DEF Adopts
<1>3. /\ new \in SUBSET Run /\ n \in Nat
      /\ \A r \in new : r \in Held /\ run[r] # "none"
  BY CountedRuns DEF IInv, SyncTypes, Order, Calm, ServerOK, Held, ChatsApart
<1>. HIDE DEF new, n
<1>4. ToSet(js) \in SUBSET Job
  BY <1>1, <1>3, Joined DEF IInv, CardTypes
<1>5. \A k \in ToSet(js) :
        /\ Free(k) /\ job'[k].status # "queued"
        /\ \A r \in Run : job'[k].id = r => run[r] # "none"
  <2>. SUFFICES ASSUME NEW k \in ToSet(js)
       PROVE  /\ Free(k) /\ job'[k].status # "queued"
              /\ \A r \in Run : job'[k].id = r => run[r] # "none"
    OBVIOUS
  <2>1. Free(k) /\ rs[Place(js, k)] \in new
    BY <1>1, <1>3, NewOnes
  <2>2. job'[k].status = "running" /\ job'[k].id = rs[Place(js, k)]
    BY <1>1, <1>4
  <2>. QED  BY <1>3, <2>1, <2>2
<1>6. ASSUME NEW k \in Job, NEW r \in Run, <<k, r>> \in streams'
      PROVE  <<k, r>> \in streams \/ (k \in ToSet(js) /\ r \in Held)
  <2>1. DOMAIN js = 1..n
    BY <1>1
  <2>2. \A i \in 1..n : js[i] \in ToSet(js) /\ rs[i] \in Held
    BY <1>1, <1>3, <2>1 DEF ToSet
  <2>. QED  BY <1>1, <1>6, <2>1, <2>2
<1>7. PICK none \in SUBSET Job : none = {}
  OBVIOUS
<1>8. /\ \A k \in Job : k \notin ToSet(js) \cup none => job'[k] = job[k]
      /\ \A k \in none : FALSE
  BY <1>1, <1>7
<1>9. /\ \A k \in ToSet(js) : Free(k) /\ job'[k].status # "queued"
      /\ \A k \in ToSet(js), r \in Run : job'[k].id = r => run[r] # "none"
  BY <1>5
<1>10. \A k \in Job, r \in Run :
        <<k, r>> \in streams' => <<k, r>> \in streams \/ (k \in ToSet(js) /\ r \in Held)
  BY <1>6
<1>11. \A k \in none :
         /\ k \notin ToSet(js) /\ job'[k].status # "queued" /\ job'[k].id = job[k].id
         /\ job[k].id \in Run /\ (run[job[k].id] # "running" \/ job[k].id \in chats)
  BY <1>8
<1>. QED  BY <1>2, <1>4, <1>8, <1>9, <1>10, <1>11, SyncOrder

-----------------------------------------------------------------------------
(* One run at a time.                                                      *)

LEMMA InitOrder == Init => Order
<1>. SUFFICES ASSUME Init PROVE Order
  OBVIOUS
<1>1. /\ asks = {} /\ timers = {} /\ snap = {} /\ streams = {} /\ cancels = {}
      /\ post = [r \in Run |-> NoPost] /\ job = [j \in Job |-> NoCard]
      /\ runner = NoRunner /\ byRunner = {}
  BY DEF Init
<1>2. Calm
  BY <1>1, Numbers DEF Calm, NoPost, NoCard
<1>3. \A j \in Job : Settled(j)
  BY <1>1 DEF Settled, NoCard, NoRunner, ToSet
<1>4. Launches /\ Pass
  BY <1>1 DEF Launches, Pass, NoRunner
<1>. QED  BY <1>2, <1>3, <1>4 DEF Order, Unposted

LEMMA StutterOrder ==
  ASSUME IInv, Order, UNCHANGED vars PROVE Order'
<1>1. UNCHANGED <<runVars, timers, asks, cancels, streams, post, job, snap, seqVars>>
  BY DEF vars, netVars, cardVars, syncVars
<1>2. KeepsPosts /\ snap' \subseteq Held
  BY <1>1 DEF KeepsPosts, Order, Calm
<1>. QED  BY <1>1, <1>2, StillOrder

LEMMA UserOrder ==
  ASSUME IInv, Order, ChatsApart, UserStep, faults' = faults PROVE Order'
<1>1. ~Reload
  BY DEF Reload, Fault, IInv, BoundTypes
<1>2. ASSUME OpenPanel PROVE Order'
  <2>1. ShowLibrary /\ UNCHANGED <<runVars, netVars, snap, seqVars>>
    BY <1>2 DEF OpenPanel, syncVars
  <2>. QED  BY <2>1, ShowLibraryOrder
<1>. QED
  BY <1>1, <1>2, AddOrder, StartJobOrder, StartQueuedOrder, RetryOrder, CancelOrder,
     RemoveJobOrder, StartAllOrder, StartSequentialOrder, ClearAllOrder
  DEF UserStep

LEMMA LaunchOrder ==
  ASSUME IInv, Order, LaunchStep, faults' = faults PROVE Order'
<1>1. \A r \in Run : ~LaunchFails(r)
  BY DEF LaunchFails, Fault, IInv, BoundTypes
<1>. QED  BY <1>1, StartsOrder, LaunchedOrder, RunnerLaunchesOrder, RunnerEndsOrder DEF LaunchStep

LEMMA FollowOrder ==
  ASSUME IInv, Order, ChatsApart, FollowStep, faults' = faults PROVE Order'
<1>1. ASSUME NEW x \in streams, StreamEnds(x[1], x[2]) \/ StreamDrops(x[1], x[2]) PROVE Order'
  <2>1. x[1] \in Job /\ x[2] \in Run
    BY DEF IInv, NetTypes
  <2>. QED  BY <1>1, <2>1, StreamEndsOrder, StreamDropsOrder
<1>2. ASSUME NEW j \in timers, PollFires(j) PROVE Order'
  BY <1>2, PollFiresOrder DEF IInv, NetTypes
<1>5. ASSUME NEW x \in asks, PollAnswered(x[1], x[2]) \/ PollFails(x[1], x[2]) PROVE Order'
  <2>1. x[1] \in Job /\ x[2] \in Run
    BY DEF IInv, NetTypes
  <2>. QED  BY <1>5, <2>1, PollReturnsOrder
<1>3. ASSUME NEW x \in cancels, CancelReaches(x[1], x[2]) \/ Cancelled(x[1], x[2])
      PROVE  Order'
  <2>1. x[1] \in Job /\ x[2] \in Run
    BY DEF IInv, NetTypes
  <2>2. CancelReaches(x[1], x[2]) => <<x[1], x[2], "sent">> \in cancels
    BY DEF CancelReaches
  <2>. QED  BY <1>3, <2>1, <2>2, CancelReachesOrder, CancelledOrder
<1>4. \A x \in cancels : ~CancelFails(x[1], x[2])
  BY DEF CancelFails, Fault, IInv, BoundTypes
<1>. QED  BY <1>1, <1>2, <1>3, <1>4, <1>5 DEF FollowStep

LEMMA SyncStepOrder ==
  ASSUME IInv, Order, ChatsApart, SyncStep, faults' = faults PROVE Order'
<1>1. ~ActiveFails /\ ~LibraryFails
  BY DEF ActiveFails, LibraryFails, Fault, IInv, BoundTypes
<1>2. ASSUME LibraryArrives PROVE Order'
  <2>1. ShowLibrary /\ UNCHANGED <<runVars, netVars, snap, seqVars>>
    BY <1>2 DEF LibraryArrives
  <2>. QED  BY <2>1, ShowLibraryOrder
<1>. QED  BY <1>1, <1>2, IntervalOrder, AdoptsOrder DEF SyncStep

\* The count of faults only grows.
LEMMA FaultsCount ==
  ASSUME IInv, [Next]_vars, faults' = 0 PROVE faults = 0
<1>1. faults \in Nat
  BY DEF IInv, BoundTypes
<1>2. faults' = faults \/ faults' = faults + 1
  BY DEF Next, UserStep, LaunchStep, FollowStep, SyncStep, Elsewhere, Server, Fault, vars, boundVars,
         Add, StartJob, StartQueued, Retry, Cancel, RemoveJob, StartAll, StartSequential,
         ClearAll, OpenPanel, Reload, Starts, Launched, LaunchFails, RunnerLaunches,
         RunnerEnds, StreamEnds, StreamDrops, PollFires, PollAnswered, PollFails,
         CancelReaches, CancelFails, Cancelled, Interval, Adopts, ActiveFails,
         LibraryArrives, LibraryFails, StartsElsewhere, ChatResearches, ChatStops
<1>. QED  BY <1>1, <1>2

\* A chat's id is taken when no POST has it, and then no POST does.
LEMMA PostsApart ==
  ASSUME IInv, [Next]_vars
  PROVE  \A r \in Run : run[r] # "none" /\ post[r] = NoPost => post'[r] = NoPost
<1>. SUFFICES ASSUME NEW r \in Run, run[r] # "none", post[r] = NoPost PROVE post'[r] = NoPost
  OBVIOUS
<1>1. post \in [Run -> PostSet] /\ NoPost.st = "none"
  BY DEF IInv, NetTypes, NoPost
<1>2. \A q \in Run : NextRun(q) => \A k \in Run : k >= q => k # r
  BY DEF NextRun, Unused
<1>3. \A q \in Run : q >= q
  BY Numbers
<1>4. CASE UserStep
  <2>1. ASSUME NEW j \in Job, NEW q \in Run, NextRun(q),
               post' = [post EXCEPT ![q] = [job |-> j, st |-> "sent"]]
        PROVE  post'[r] = NoPost
    BY <1>1, <1>2, <1>3, <2>1
  <2>2. CASE StartAll
    <3>1. PICK q \in [1..Cardinality(Queued) -> Queued], p \in Run :
            /\ NextRun(p)
            /\ post' = [k \in Run |-> IF k \in p..p + Len(q) - 1
                                        THEN [job |-> q[k - p + 1], st |-> "sent"] ELSE post[k]]
      BY <2>2 DEF StartAll
    <3>2. r \notin p..p + Len(q) - 1
      BY <1>2, <3>1, Numbers
    <3>. QED  BY <3>1, <3>2
  <2>3. CASE Reload
    BY <1>1, <2>3 DEF Reload, NoPost
  <2>4. CASE StartJob
    BY <2>1, <2>4 DEF StartJob
  <2>5. ASSUME NEW j \in Job, StartQueued(j) PROVE post'[r] = NoPost
    BY <2>1, <2>5, QueuedJobs DEF StartQueued
  <2>6. ASSUME NEW j \in Job, Retry(j) PROVE post'[r] = NoPost
    BY <2>1, <2>6 DEF Retry
  <2>7. CASE UNCHANGED post
    BY <2>7
  <2>8. \/ UNCHANGED post \/ StartAll \/ Reload \/ StartJob
        \/ \E j \in Job : StartQueued(j) \/ Retry(j)
    BY <1>4 DEF UserStep, Add, Cancel, RemoveJob, StartSequential, ClearAll, OpenPanel, netVars
  <2>. QED  BY <2>2, <2>3, <2>4, <2>5, <2>6, <2>7, <2>8
<1>5. CASE LaunchStep
  <2>1. ASSUME NEW q \in Run, Starts(q) \/ Launched(q) \/ LaunchFails(q) PROVE post'[r] = NoPost
    <3>1. q # r
      BY <1>1, <2>1 DEF Starts, Launched, LaunchFails
    <3>2. \E p \in {"started", "over"} : post' = [post EXCEPT ![q].st = p]
      BY <2>1 DEF Starts, Launched, LaunchFails
    <3>. QED  BY <3>1, <3>2
  <2>2. CASE RunnerLaunches
    <3>1. PICK q \in Run : /\ NextRun(q)
                           /\ post' = [post EXCEPT ![q] = [job |-> Head(runner.rest), st |-> "sent"]]
      BY <2>2 DEF RunnerLaunches
    <3>. QED  BY <1>2, <1>3, <3>1
  <2>3. CASE RunnerEnds
    BY <2>3 DEF RunnerEnds, netVars
  <2>. QED  BY <1>5, <2>1, <2>2, <2>3 DEF LaunchStep
<1>6. CASE FollowStep \/ SyncStep \/ Elsewhere \/ Server \/ UNCHANGED vars
  <2>1. post' = post
    BY <1>6 DEF FollowStep, SyncStep, Elsewhere, Server, vars, netVars, StreamEnds, StreamDrops,
           PollFires, PollAnswered, PollFails, CancelReaches, CancelFails, Cancelled, Interval,
           Adopts, ActiveFails, LibraryArrives, LibraryFails, StartsElsewhere, ChatResearches,
           ChatStops
  <2>. QED  BY <2>1
<1>. QED  BY <1>4, <1>5, <1>6 DEF Next

LEMMA RunsStay ==
  ASSUME IInv, [Next]_vars
  PROVE  \A r \in Run :
           /\ run[r] # "none" => run'[r] # "none"
           /\ r \in chats' /\ r \notin chats => run'[r] # "none" /\ Unused(r) /\ post' = post
<1>1. ASSUME NEW r \in Run,
             StartResearch(r) \/ Completes(r) \/ Fails(r) \/ Saves(r) \/ CancelResearch(r) \/ Consumes(r)
      PROVE  \A q \in Run : run[q] # "none" => run'[q] # "none"
  BY <1>1 DEF StartResearch, Completes, Fails, Saves, CancelResearch, Consumes, IInv, ServerOK, RunsTypeOK
<1>2. ServerRestarts => \A q \in Run : run[q] # "none" => run'[q] # "none"
  BY DEF ServerRestarts, IInv, ServerOK, RunsTypeOK
<1>3. CASE run' = run /\ chats' = chats
  BY <1>3
<1>4. CASE chats' = chats /\ \E r \in Run : StartResearch(r) \/ CancelResearch(r)
  BY <1>1, <1>4
<1>5. CASE Server
  <2>1. chats' = chats
    BY <1>5 DEF Server, Completes, Saves, Consumes, ServerRestarts, Fails
  <2>. QED  BY <1>1, <1>2, <1>5, <2>1 DEF Server
<1>6. CASE ChatResearches
  <2>1. PICK r \in Run :
          (r \in chats \/ NextRun(r)) /\ StartResearch(r) /\ chats' = chats \cup {r}
    BY <1>6 DEF ChatResearches
  <2>2. /\ NextRun(r) => Unused(r)
        /\ run'[r] # "none" /\ post' = post
    BY <1>6, <2>1, Numbers DEF ChatResearches, netVars, NextRun, StartResearch, IInv, ServerOK, RunsTypeOK
  <2>. QED  BY <1>1, <2>1, <2>2
<1>7. CASE ChatStops
  <2>1. PICK r \in chats \cap Active : CancelResearch(r)
    BY <1>7 DEF ChatStops
  <2>2. r \in Run /\ chats' = chats
    BY <2>1 DEF CancelResearch, IInv, ServerOK, RunsTypeOK
  <2>. QED  BY <1>4, <2>1, <2>2
<1>8. \/ run' = run /\ chats' = chats
      \/ chats' = chats /\ \E r \in Run : StartResearch(r) \/ CancelResearch(r)
      \/ Server \/ ChatResearches \/ ChatStops
  <2>1. CASE UserStep \/ SyncStep \/ UNCHANGED vars
    BY <2>1 DEF UserStep, SyncStep, vars, runVars,
           Add, StartJob, StartQueued, Retry, Cancel, RemoveJob, StartAll, StartSequential,
           ClearAll, OpenPanel, Reload, Interval, Adopts, ActiveFails, LibraryArrives, LibraryFails
  <2>2. CASE LaunchStep
    BY <2>2 DEF LaunchStep, runVars, Starts, Launched, LaunchFails, RunnerLaunches, RunnerEnds
  <2>3. CASE FollowStep
    <3>1. \A x \in cancels : x[2] \in Run
      BY DEF IInv, NetTypes
    <3>. QED  BY <2>3, <3>1 DEF FollowStep, runVars, StreamEnds, StreamDrops, PollFires,
                PollAnswered, PollFails, CancelReaches, CancelFails, Cancelled, CancelResearch
  <2>4. CASE Elsewhere
    BY <2>4 DEF Elsewhere, StartsElsewhere
  <2>. QED  BY <2>1, <2>2, <2>3, <2>4 DEF Next
<1>. QED  BY <1>3, <1>4, <1>5, <1>6, <1>7, <1>8

LEMMA ApartKept == IInv /\ ChatsApart /\ [Next]_vars => ChatsApart'
<1>. SUFFICES ASSUME IInv, ChatsApart, [Next]_vars, NEW r \in Run, r \in chats'
     PROVE  run'[r] # "none" /\ post'[r] = NoPost
  BY NextIInv DEF ChatsApart, IInv, ServerOK, RunsTypeOK
<1>1. CASE r \in chats
  BY <1>1, RunsStay, PostsApart DEF ChatsApart
<1>2. CASE r \notin chats
  <2>1. run'[r] # "none" /\ post[r] = NoPost
    BY <1>2, RunsStay DEF Unused
  <2>2. post' = post
    BY <1>2, RunsStay
  <2>. QED  BY <2>1, <2>2
<1>. QED  BY <1>1, <1>2

Orderly == ChatsApart /\ (faults = 0 => Order)

LEMMA NextOrderly == IInv /\ Orderly /\ [Next]_vars => Orderly'
<1>. SUFFICES ASSUME IInv, Orderly, [Next]_vars, faults' = 0 PROVE Order'
  BY ApartKept DEF Orderly
<1>1. Order /\ ChatsApart /\ faults' = faults
  BY FaultsCount DEF Orderly
<1>. QED
  BY <1>1, StutterOrder, UserOrder, LaunchOrder, FollowOrder, SyncStepOrder,
     ElsewhereOrder, ServerStepOrder
  DEF Next

\* startAllQueuedSequential() runs one research after the other, for any number of
\* them and whatever the user does to other cards, or to these but launch them again.
THEOREM RunnerTakesTurns == Spec => []OneAtATime
<1>1. Init => Orderly
  BY InitOrder DEF Orderly, ChatsApart, Init, RunsInit
<1>2. Orderly => OneAtATime
  BY DEF Orderly, Order, Pass, Undisturbed, OneAtATime
<1>. QED  BY <1>1, <1>2, AlwaysIInv, NextOrderly, PTL DEF Spec
=============================================================================
