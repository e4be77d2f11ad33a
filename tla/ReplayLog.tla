------------------------------ MODULE ReplayLog ------------------------------
(***************************************************************************)
(* What src/agent_runs.py promises its clients: every run is an append-    *)
(* only log, closed once and for all; a reader opens a log at its first    *)
(* event whenever it likes, is given the events one after the other, and   *)
(* is told the log has ended only after the last one.  No queues, tasks,   *)
(* sentinels or timers: those are how AgentRuns implements it.             *)
(***************************************************************************)
EXTENDS Naturals, Sequences

CONSTANTS Log, Reader, Event

VARIABLES
  log,       \* [Log -> Seq(Event)]
  closed,    \* [Log -> BOOLEAN]
  reading,   \* [Reader -> {"off", "reading", "done"}]
  of,        \* [Reader -> the log it reads, 0 when off]
  got        \* [Reader -> Seq(Event)], what it has been given

vars == <<log, closed, reading, of, got>>

Init ==
  /\ log = [l \in Log |-> <<>>]
  /\ closed = [l \in Log |-> FALSE]
  /\ reading = [c \in Reader |-> "off"]
  /\ of = [c \in Reader |-> 0]
  /\ got = [c \in Reader |-> <<>>]

\* A writer appends events, closes the log, or both: one step of a writer
\* publishes at most two events (the error block and [DONE]).
Write(l) ==
  /\ ~closed[l]
  /\ \E n \in 0..2 : \E evs \in [1..n -> Event] : log' = [log EXCEPT ![l] = @ \o evs]
  /\ \E end \in BOOLEAN : closed' = [closed EXCEPT ![l] = end]
  /\ UNCHANGED <<reading, of, got>>

\* A reader opens a log and may at once be given its first event; the stream of
\* a closed, empty log ends at once.
Open(c, l) ==
  /\ reading[c] # "reading"
  /\ of' = [of EXCEPT ![c] = l]
  /\ got' = [got EXCEPT ![c] = IF log[l] = <<>> THEN <<>> ELSE <<Head(log[l])>>]
  /\ reading' = [reading EXCEPT ![c] =
                   IF closed[l] /\ log[l] = <<>> THEN "done" ELSE "reading"]
  /\ UNCHANGED <<log, closed>>

Read(c) ==
  /\ reading[c] = "reading"
  /\ Len(got[c]) < Len(log[of[c]])
  /\ got' = [got EXCEPT ![c] = Append(@, log[of[c]][Len(@) + 1])]
  /\ UNCHANGED <<log, closed, reading, of>>

Finish(c) ==
  /\ reading[c] = "reading"
  /\ closed[of[c]]
  /\ Len(got[c]) = Len(log[of[c]])
  /\ reading' = [reading EXCEPT ![c] = "done"]
  /\ UNCHANGED <<log, closed, of, got>>

Drop(c) ==
  /\ reading[c] = "reading"
  /\ reading' = [reading EXCEPT ![c] = "off"]
  /\ of' = [of EXCEPT ![c] = 0]
  /\ got' = [got EXCEPT ![c] = <<>>]
  /\ UNCHANGED <<log, closed>>

Next ==
  \/ \E l \in Log : Write(l)
  \/ \E c \in Reader :
       \/ \E l \in Log : Open(c, l)
       \/ Read(c)
       \/ Finish(c)
       \/ Drop(c)

Spec == Init /\ [][Next]_vars

\* Every event a log holds reaches its readers, and a closed log ends them,
\* unless they go away.
FairSpec == Spec /\ \A c \in Reader : WF_vars(Read(c) \/ Finish(c))
=============================================================================
