---------------------------- MODULE ResearchRuns ----------------------------
(***************************************************************************)
(* The research runs of the server: ResearchHandler, which keeps a task    *)
(* for every run it has started and a report on disk for every run that    *)
(* came to one, and what the routes of research_routes.py tell of a run.   *)
(*                                                                         *)
(* A run is known by its id.  The panel and the agent's tool take a new id *)
(* for every run; a chat that researches uses its own id, again for every  *)
(* further run, and consumes the result.                                   *)
(*                                                                         *)
(* How a run finds its sources and writes its report, its owner, and the   *)
(* deletion of reports are left out; so is a result that is consumed while *)
(* the chat's next run is on.                                              *)
(***************************************************************************)
EXTENDS Integers, FiniteSets

CONSTANT MaxRuns \* bound: ids of runs, asked for by the page or taken elsewhere

ASSUME RunBoundAssumption == MaxRuns \in Nat

Run == 1..MaxRuns

VARIABLES
  run,      \* [Run -> how far the last run of that id is]; "lost": it was running when
            \* the server stopped
  known,    \* the ids with an entry in _active_tasks
  saved,    \* the ids with a report on disk
  consumed, \* those of them whose report is marked as consumed
  chats,    \* the ids of chats
  earlier   \* history: the ids of which a run before the last came to a report

runVars == <<run, known, saved, consumed, chats, earlier>>

RunsInit ==
  /\ run = [r \in Run |-> "none"]
  /\ known = {}
  /\ saved = {}
  /\ consumed = {}
  /\ chats = {}
  /\ earlier = {}

\* get_status(): the entry, else a report on disk that nobody has consumed, which is
\* only of a run that is done; "none" is a 404.
StatusOf(r) ==
  IF r \in known THEN run[r] ELSE IF r \in saved \ consumed THEN "done" ELSE "none"

\* The ids of which a run came to a report.
Reported == earlier \cup {r \in Run : run[r] = "done"}

\* /api/research/active.
Active == {r \in known : run[r] = "running"}

\* start_research(): a run of that id that goes on is cancelled, its entry replaced;
\* its report stays on disk.
StartResearch(r) ==
  /\ run' = [run EXCEPT ![r] = "running"]
  /\ known' = known \cup {r}
  /\ earlier' = IF run[r] = "done" THEN earlier \cup {r} ELSE earlier
  /\ UNCHANGED <<saved, consumed>>

\* There is a report, or what there is of it after a timeout or an error.  It is
\* written at once; or later, or never when that fails.
Completes(r) ==
  /\ run[r] = "running"
  /\ run' = [run EXCEPT ![r] = "done"]
  /\ \/ saved' = saved \cup {r} /\ consumed' = consumed \ {r}
     \/ UNCHANGED <<saved, consumed>>
  /\ UNCHANGED <<known, chats, earlier>>

\* Nothing came of it.
Fails(r) ==
  /\ run[r] = "running"
  /\ run' = [run EXCEPT ![r] = "error"]
  /\ UNCHANGED <<known, saved, consumed, chats, earlier>>

\* _save_result() after the action of the category, which is awaited; a chat's
\* research has no category.
Saves(r) ==
  /\ run[r] = "done"
  /\ r \in known \ (saved \cup chats)
  /\ saved' = saved \cup {r}
  /\ UNCHANGED <<run, known, consumed, chats, earlier>>

\* cancel_research(): nothing happens to a run that is over or unknown.
CancelResearch(r) ==
  /\ run' = [run EXCEPT ![r] = IF r \in Active THEN "cancelled" ELSE @]
  /\ UNCHANGED <<known, saved, consumed, chats, earlier>>

\* clear_result(), when the chat has seen the end of its run.
Consumes(r) ==
  /\ r \in chats
  /\ StatusOf(r) \notin {"running", "none"}
  /\ known' = known \ {r}
  /\ consumed' = consumed \cup ({r} \cap saved)
  /\ UNCHANGED <<run, saved, chats, earlier>>

\* The server stops and starts again: its tasks are gone, the reports are not.
ServerRestarts ==
  /\ run' = [r \in Run |-> IF run[r] = "running" THEN "lost" ELSE run[r]]
  /\ known' = {}
  /\ UNCHANGED <<saved, consumed, chats, earlier>>

RunsTypeOK ==
  /\ run \in [Run -> {"none", "running", "done", "error", "cancelled", "lost"}]
  /\ known \subseteq Run
  /\ saved \subseteq Run
  /\ consumed \subseteq saved
  /\ chats \subseteq Run
  /\ earlier \subseteq chats
=============================================================================
