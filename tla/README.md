# TLA+ specifications of AD

AD (the repository of this directory's parent) is a self-hosted AI workspace: a
FastAPI server in Python with a JavaScript client, in which users chat with
language models, let agents run tools and long shell jobs, and keep documents,
memories and research. The server is one process: an asyncio event loop,
a pool of threads for synchronous routes, SQLite underneath, and child
processes. The client is one page whose handlers, timers and answers take turns.
Six parts of the two are protocols between things that happen at the same time,
and are specified here. On the server:

* **detached runs** (`src/agent_runs.py`): a chat's generator outlives the HTTP
  request, and clients attach, drop and attach again;
* **background jobs** (`src/bg_jobs.py`, `src/bg_monitor.py`): shell commands
  outlive the server, and a monitor re-invokes the agent when they end;
* **session history** (`core/session_manager.py` and the routes that edit it):
  one chat as a cached object, as rows, and as what a suspended handler holds.

In the browser:

* **the chat page** (`static/js/chat.js`, `sessions.js`): a message is sent,
  queued, stopped, retried or left behind while the user selects other sessions;
* **the document editor** (`static/js/document.js`): one text box for whichever
  document is active, written to by the user, by late answers and by the agent;
* **the research panel** (`static/js/research/jobs.js`, with
  `src/research_handler.py` at the other end): cards that follow runs over
  streams and polls that break.

Source paths below are relative to the repository; `tla/PROJECT.json` maps each
definition to its lines.

## The system

| component | state | operations | talks to |
|---|---|---|---|
| detached runs | `_RUNS`: per session a log, a status, subscribers' queues, an eviction timer | start, stop, drain, subscribe, evict | chat routes start runs; the compact endpoint, the monitor and the interactive gate ask `is_active` |
| background jobs | `bg_jobs.json`, an exit file and a wrapper process per job | launch, refresh, prune, kill, mark followed up | agent tools launch, list and kill; the monitor polls |
| background monitor | the list it walks, the job it follows up | poll, continue a session, mark | bg_jobs, the session's history, `agent_runs.is_active` |
| session history | `sessions` cache, tables `sessions` and `chat_messages` | add, truncate, replace, delete, merge, load, delete session | chat turns, tools, the monitor, slash commands, both compactions |
| chat page | the current session, "the" stream's globals, the map of background streams, the composer, the queue and its timers | submit, stop, select a session, new chat, promote, drain, read | chat stream route, sessions route |
| document editor | the text box, the map of tabs, the active document, the diff under review, an animation, the autosave timer | type, switch, close, create, compare, review, stream, update | document routes; the agent's `doc_update` events |
| research panel | the list of cards, their streams, fallback timers, the dismissed ids | queue, launch, follow, cancel, retry, remove, adopt | research routes |
| deep research tasks | `_active_tasks`, one JSON file per session | start, cancel, time out, save, consume | chat stream, research routes, the panel |
| agent loop, tools, model calls | a generator's locals; response cache, dead-host table | rounds of model and tool calls; fallback chain; cooldown | everything above |
| MCP manager | connections of subprocesses | connect, call, reconnect, disconnect | agent tools |
| interactive gate | counters and times of foreground activity | track, heartbeat, wait for quiet | middleware; background tasks |
| uploads, webhooks, accounts, settings, memory, search, gallery, speech | files and single database records | create, read, update, delete; fire and forget | routes |
| the rest of the browser client | forms, menus, pictures, rendered text | each acts on one record | all routes |

Every component, with what is or is not modelled of it, is in `PROJECT.json`.

### What makes each correct, and what is hard about it

* *Detached runs.* A client that connects at any moment gets the run's events
  from the first, none missing, none twice, and is told the end only after the
  last. Hard: a queue that is filled while the log is replayed; an end sentinel
  that overtakes events; a timer that wakes for a run since replaced; a task
  that looks its run up one or more loop turns after it was created; a
  cancellation that arrives before the first step.
* *Background jobs.* What a record says of a job is what happened to the job,
  and is never taken back. Hard: the wrapper writes its exit file and dies
  between two checks; the file exists before its contents; a zombie answers
  `kill(pid, 0)`; the server dies anywhere; the store cannot be read.
* *Background monitor.* Every finished job is followed up, exactly once but for
  a crash or a store that fails, and a job the agent stopped is left alone. Hard: it walks a list over
  minutes while the agents it starts list, kill, launch and prune; sessions are
  deleted or busy; attempts fail.
* *Session history.* The cached history is the stored one; nothing saved is
  lost, nothing removed comes back. Hard: handlers suspend holding an object
  or a slice of the history; the cache may be emptied and reloaded under them;
  commits fail; positions are taken in one list and used in another.
* *Chat page.* What is typed once is posted once, to the session it was typed
  in; the Stop button does not stay for ever; what waits in the queue leaves it.
  Hard: flags, a controller and a reply bubble are shared by all streams, and a
  handler finds them changed after every await; a message can be in the
  composer, the queue, a promotion or a request, and several timers move it.
* *Document editor.* No document's text is written over another's; what is typed
  is saved. Hard: `activeDocId`, the box and the diff are globals, and timers,
  answers, streams and the agent's updates find another document active than
  the one they were for.
* *Research panel.* A card says what became of its run, and does not say
  "running" for ever. Hard: streams break and are replaced by polling; a POST
  may start a run and lose its answer; the library, the list of active runs and
  the card's own stream report the same run at different times; the server
  restarts.

## The modules

| module | models | EXTENDS |
|---|---|---|
| `AgentRuns` | `agent_runs.py`, one session | |
| `ReplayLog` | what it promises: closed-ended logs and readers | instantiated by `AgentRuns` |
| `BgJobs` | `bg_jobs.py`, the wrapper processes, the store | |
| `BgMonitor` | `bg_monitor.py` around it | `BgJobs` |
| `SessionHistory` | `session_manager.py`, the history and compact routes, the compactor | |
| `ChatClient` | the sending side of `chat.js`, the selection of sessions in `sessions.js` | |
| `DocEditor` | `document.js`, `PUT /api/document` | |
| `ResearchRuns` | the research tasks of the server, as the panel sees them | |
| `ResearchJobs` | `research/jobs.js` and the buttons of `panel.js` | `ResearchRuns` |
| `MC…` | symmetry and the values a `.cfg` cannot write | each of the above |
| `…Proofs` | theorems (`ResearchRunnerProofs` on `ResearchJobsProofs`) | `AgentRuns`, `BgJobs`, `BgMonitor`, `SessionHistory`, `ChatClient`, `DocEditor`, `ResearchJobs` |

Definitions marked *Mutant* state what a plausible bug would make of the
definition after them. Nothing refers to them: they are put in the place of
that definition to see that a property notices.

### AgentRuns

One session: entries of `_RUNS` never touch one another. A step is the code
between two suspension points of the event loop: a handler (`Start`, `Stop`,
`Subscribe`), one resumption of `_drain` (`Begin`, `PrevEnded`, `Publish`,
`Complete`, `Fail`, `CancelDelivered`, `Stopped`, `CancelledWaiting`), of a subscriber's
generator (`ReplayNext`, `GoLive`, `Receive`, `FlushNext`, `FlushEnd`, …), of `_evict`,
or the passing of time. `task.cancel()` and the delivery of the
`CancelledError` are separate, which is where the finding below comes from.
`pc`, `cancel`, `prev`, `target` are the tasks; `spc`, `srun`, `queue`, `next` the
generators; `out` and `quiet` are history variables. A heartbeat changes nothing
and is left out.

### BgJobs and BgMonitor

A job's wrapper process ends its command, writes its code in two steps
(the file appears empty, then holds the code) and exits, or is killed at any
point; an ended process is a zombie until it is reaped. `refresh()` is split
wherever it looks at something a process may change: the exit file, the
clock, the pid, the exit file again. It works on a copy of the store (`jobs`)
that it saves when done, followed by pruning, and then returns to its caller, the
monitor or a tool. `kill()` is a refresh, a signal and a save. A crash of the server
drops the call in progress and leaves files and processes alone. A load that
fails gives an empty store, as `_load` does. A save that fails (`SaveFails`) raises out of
whatever called it: `launch()` leaves a process without a record (`RecordFails`), `refresh()` may
have deleted the files of records it meant to prune (`Unlinked`, `RefreshFails`), `kill()` has
already signalled a job that the store goes on calling running (`KillFails`), and
`mark_followed_up()` leaves the job pending (`MarkFails`). `MaxFaults` is the one bound on
crashes, failing loads and failing saves (`Faults`).

`BgMonitor` adds the loop's position, the list it walks and the sessions as it
sees them. `JobsStep` is whatever else changes the jobs, so an agent that
continues one job may kill the next on the list. The agent is one await
(`Continue` … `AgentEnds` or `AgentFails`). What raises in the loop is caught: a poll that fails
waits for the next one (`PollFails`), and a job whose mark could not be saved after its
continuation was is continued again at the next (`MarkFails` under `Mark`).

### SessionHistory

A message is a number in the order of sending, and an entry of the history the
set of messages whose text it carries (a summary or a merged reply carries
several), so that losing, reviving and reordering messages can be expressed.
`mem` holds the cache and every `Session` object somebody holds, `rows` and
`count` the database, `turn` the suspended chat turns with the object each
holds, `comp` the suspended compact endpoint with its slice. A handler runs to
its next await in one step, and `get_session()` is in every step that calls it
(`Got`): it loads the rows when nothing is cached, or when an empty history is
cached with a positive `message_count`. Deleting a session runs in a pool
thread and is two steps (`DeleteSession`, `DeleteCommits`), between which the event loop
can read but not write. Ids of rows are never reused; a negative id is the id
of a row that is gone, as a failed commit, `replace_messages()` and the
fallback of the history route leave in memory. What several handlers do, dropping
entries and keeping the order of the rest, is `Chosen`, by positions
(`Conversation` are those of what goes to the model). Of what happened so far the
module records which messages were committed (`saved`), taken out by the user
(`removed`, also when the commit then fails: memory has dropped them), or saved
or removed while the compact endpoint awaited its summary (`behind`); whether a
deletion named an id that no row has (`missed`), and whether a turn holds an
object that `get_session()` has replaced (`detached`).

Two routes have the path of the compact endpoint; `app.py` includes the one of
`session_routes.py` first, so that one answers and is modelled.

Left out: editing a message's text or metadata, deletion by position (a legacy
request), forking, `cleanup_empty_sessions`, and all fields of a session but its history.

### ChatClient

The page is one thread: a step is the code from one await, timer or network event
to the next. A *send* is one call of `handleChatSubmit` that came past its guards; its
number also names its `AbortController` and its reader. `Submit` has the branches of that
function in their order: queue, stop, ignore, send, or create a session first.
A send then goes through `Answer`: the upload or the save of a document
("starting"), the request ("open"), the reader's end, error or abort, and what
`finally` does, which differs when the user is elsewhere or the session has a
background entry (`Background`). `Select`, `NewChat` and the detachment of a stream
to `_backgroundStreams` are those of `sessions.js`; the arrival of a history, and
its failure with the recovery, are steps. The queue (`_queuedAgentRequests`), its
timer, a promoted message and the submit of a filled composer are variables of their own,
because each holds a message that must be in one place only.

A session id is never used twice. Left out, with what follows from it: the
300 ms debounce of a double click (a second submit is possible at once, which only
adds behaviours), the continuation of a stopped reply, rendering, research, slash
commands and setup, incognito chats, and the re-attachment to a run found on the
server. Which session `loadSessions()` falls back to is any listed one.

### DocEditor

A text is a record: which text it is, and the document it was made for (`of`),
which the page does not know and the model does; a text typed into the
empty editor belongs to no document until one is created for it (`Owned`).
`tabs`, `active`, `box`, `pane`, `diff`, `anim`, `stream`, `timer` are the page's globals;
`creating`, `auto`, `compare`, `loading` are the awaits that hold a value over them;
`puts` are the saves, each sent, then stored by the server, then answered, or failed.
`Update` is `handleDocUpdate()` whole: the diff of before is discarded and saved, a streamed
tab becomes the document's, the tab is found by id, by title or by taking a blank
one, and the new text is shown as a diff, an animation or directly. The agent loop reports
a write twice (`agent_loop.py:3382` and `3515`), so an event has a report left.

What a title says is left open: the agent, a rename or the first line of a text makes it, and the
document tool makes a new row whether or not the title is in use. Wherever the page compares two
titles, they may therefore be equal. A stream takes an open tab with its title, whose box it blanks
and whose text it replaces (`StreamOpen`, `StreamDelta`), and an update of a document without a tab
lands in any open tab with a title (`Landing`); it keeps the label of its own document there. The
history `guests` records each tab that the page gave to another's text in this way, and whose text
that was; a pair that has been found equal stays so (`Alike`), and `MaxClicks` bounds the finding
of new ones (`SameTitle`, `TakesIn`) together with the user's clicks.

Abstractions: a diff is one chunk; creating a row and its answer are one step; the DELETE that
leaves an untitled blank document is applied at once, and leaves an inactive row that still takes a
PUT; only the temporary id of a stream is not found; the timers that leave diff mode are one
boolean. `astray` records that a late callback (the versions, an animation frame, a creation's
answer, a finished automatic creation) has met another document than its own; what follows from that
is shown by `doc_foreign` and excused in the invariants. `settled` records which of the user's texts
have reached the server or had a save fail. Left out: a change of the session, the version panel,
suggestions, PDF and form documents, previews and the menu's Delete.

### ResearchRuns and ResearchJobs

`ResearchRuns` is the server: a run is running, done, failed, cancelled or lost with a restart;
`known` is `_active_tasks`, `saved` the reports on disk. A run is known by its id. The panel and the
agent's tool take a new one each time (`Starts`, `StartsElsewhere`); a chat researches under its own
id (`ChatResearches`), may do so again, which cancels a run that goes on, replaces its entry and
leaves the report of the run before on disk, may stop it (`ChatStops`), and consumes the result
(`Consumes`). `earlier` is a history: the ids of which a run before the last came to a report. A
result that is consumed while the chat's next run is on is left out. `ResearchJobs` is the page. A
card is a `Job` object; its stream (`es`), the open streams, the fallback timers and the status
requests under way are sets of their own, because the code drops a card or a run without closing
them. `Launched`, `StreamEnds`, `StreamDrops`, `PollFires`, the answers of a cancellation, the
adoption of active runs and the library are steps, each with the request's arrival at the server
apart from its answer where something can change in between. `again` is a history field of a card:
it was launched though it had a run already. Bounds that shape behaviour are named at the action:
one sequential pass at a time over a queue that does not shrink while the user chooses, and what
makes cards waits for free `Job` objects. `MaxEvents` bounds what the user does, the runs started or
stopped elsewhere and the faults together. Left out: progress, elapsed time, notifications, texts
and sources, the deletion of reports.

## What is checked

Eight runs hold; four find a disagreement between the code and what it says.

| run | question | bounds |
|---|---|---|
| `agent_runs_streams` | `TypeOK`, `StreamIsPrefix`, `EndedStreamIsComplete`, `DrainOwnsItsRun`, `EvictionOnlyAfterGrace`, `FinishedRunIsEvicted`, `FinishedStreamEnds`, `QueuedRunGetsItsTurn`, and the refinement of `ReplayLog` with its fairness | 1 client, 2 runs, 2 events each, grace of 1 tick |
| `agent_runs_zombie` | *violated:* a run whose task ended is not "running" | 1 client, 2 runs |
| `bg_monitor_followups` | `MonTypeOK`, `FollowedUpWasSaid`, `RepeatedByFaultOnly`, `StoppedJobIsLeftAlone`, `WorkIsPending`, and the records' `DiedLeftNoCode`, `SuccessIsReal`, `VerdictIsFinal` | 2 jobs, codes 0 and 1, 1 session, 1 fault: a crash or a load or save that fails |
| `bg_monitor_arrives` | `FollowUpArrives`, `EveryJobSettles` | 1 job, 1 fault, 1 live turn |
| `session_history` | `TypeOK`, `CacheMatchesRows`, `CountTracksRows`, `SavedStays`, `RemovedStaysRemoved`, `RowsInOrder` | 2 turns, 3 messages, 1 merge, 1 automatic compaction, 1 restart |
| `session_faults` | `SavedStays` | 1 turn, 4 messages, 1 failed commit |
| `session_autocompact` | *violated:* automatic compaction loses nothing | 1 turn, 3 messages |
| `chat_client` | `TypeOK`, `SentOnce`, `OwnSession`, `StreamingIsActive`, `QueueDrains` | 2 messages, one with an upload, 2 sends, a known session and two that may be created, 1 selection |
| `chat_draft` | *violated:* no timer replaces what the user is writing | 3 messages, 2 sends |
| `doc_editor` | `TypeOK`, `OwnText`, `DiffIsOfActive`, `TypedWillBeSaved` | a known document and one that may be created, 1 text of the user's, 1 of the agent's, titles that may be equal, 2 clicks |
| `doc_foreign` | *violated:* no text is written over another document | as above |
| `research_panel` | `TypeOK`, `DoneIsDone`, `OneAtATime`, `RunningIsFollowed` | 2 cards, 2 runs, 3 events: clicks, runs started or stopped elsewhere, a chat's under one id, faults |

**Why the bounds are enough for what they ask.** *Runs:* two runs give every way one replaces
another. Two events tell "missing", "twice" and "out of order" apart, and the error block adds two
more at once. With a grace of 1 a timer can be running, due, stale and re-armed; one client is
enough since the theorems hold for any number. *Jobs:* jobs share only the store and the list the
monitor walks, for which two are enough. Time limits of 0 or 1 tick are enough to expire before, at
and after anything else. One fault meets every step of the two jobs and of the monitor's walk (4.9
million states); what several add up to is in the theorems, which hold for any number. *Histories:*
the limits of the code (a history of 6, a tail of 4 to 8, a conversation of 4, a page of 8 or 24)
are CONSTANTS, set to 3, 1 to 2, 2 and 3 or 4 so that three messages reach every branch; the upper
limit of the tail is not reached. Three messages suffice for a kept prefix, a removed message and
one that follows; a deletion that fails halfway and what is then written over its rows take a fourth
(`session_faults`). The theorems need none of these bounds. *Chat page:* two sends give a stream and
whatever meets it: the queue, a promotion, a retry, a session's creation, a stream in the
background. Larger instances were explored with the same result: 3 messages and 1 selection (749,528
states), 3 messages and 2 selections (3.3 million, without liveness), 2 messages and 2 selections
(1.25 million, with it). *Document editor:* an action of the user's and the one that overtakes it
are two clicks, and loading the documents and a title found equal are two as well (3 million
states); `MaxPuts` = 1 keeps a click and an autosave from adding a save while one is under way, but
not the saves that updates, answers and timers make on top of it. The theorems need neither bound.
*Research panel:* two cards, since all races are of a card with its own run or with the run of a
retry or a twin, and three events, which a relaunch and what overtakes it take. Larger instances
were explored with the same result before chats were added: 3 clicks and a fault (4.9 million
states), 2 queries with 2 clicks and a fault (10.2 million), one card with 3 clicks and 2 faults
(2.8 million). With chats the run has 1.3 million states. One of them showed what smaller ones did
not: a late answer about the former run of a card that was adopted, cancelled and retried says
"done" of the new one; `DoneIsDone` is therefore asked of cards that were launched once.

Symmetry is used for clients, jobs and turns only, and not in runs
that check liveness. `CHECK_DEADLOCK FALSE` stands in the configurations in which
the bounds on events, messages, clicks or faults leave nothing to do.

**Fairness.** `AgentRuns`: the event loop runs what is scheduled (weak fairness of each task's own
steps, of each attached generator, of due timers and time). Nothing is assumed of when, or whether,
a model's generator yields or ends, of clients, or of `Stop`. `BgJobs`: a call that has begun runs
to its end and the monitor polls again and again; time passes even though calls keep interrupting
it, hence strong fairness. Commands may run for ever and zombies stay. `BgMonitor`: its task is
scheduled (strong fairness, because other synchronous code disables it for a while), turns end, and
an agent that is tried again and again gets through its loop in the end; this last is a property of
the model's host and not of the code, and without it nothing would promise a follow-up.
`ChatClient`: timers fire, and a request is answered and its stream ends (`WF_vars(Answer(i))`); the
second is an assumption about the server, whose runs end, and the `ChatClient` property it serves is
conditional on nothing else but that the user stays. `SessionHistory`, `DocEditor` and
`ResearchJobs` have no liveness properties and no fairness: what must eventually happen there is
stated by its safety half, that something is under way that will do it (`TypedWillBeSaved`,
`RunningIsFollowed`).

**What the properties leave out, and why.** Their premises name what the code does not keep (see the
known gaps). Histories: `InStep` excludes failed commits, detached turns, and a merge together with
a deletion by an id no row has; the ids are compared, the number of rows counted and what was
removed followed until the first merge only; `autos = 0` excludes automatic compaction; the ghost
`behind` excludes messages saved or removed while a compaction awaits its summary; `SavedStays`
excludes automatic compaction and detached turns, and merges once a commit has failed or an id was
missed. Chat page: `Smooth` excludes an upload that fails after its reply was stopped, which
releases the send flag of whichever call holds it; `OwnSession` is about messages that did not wait;
`Undisturbed` excludes selections and deleted sessions, after which the page shows another stream's
state. Document editor: `~astray`; and `OwnText` allows in a tab, and in its row, the text of a
document for which the page itself has put an update or a stream there (`guests`), which the code
does for two documents with one title. Research panel: `DoneIsDone` asks of a card that its id came
to a report (`Reported`). An id of the panel or of the tool has one run, so for those this is the
card's run; of a chat that researches again it may be an earlier one, whose report the library has;
`again` excludes a card launched when it had a run already, whose status a late answer about that
run may set; `Once` excludes a card that was launched twice (and, since the number of a removed card
is given to a new one, a runner one of whose cards took such a number), `faults = 0` a runner whose
launch failed or whose page lost a stream.

## What is proved

For any values of the constants that the modules' ASSUMEs allow: any number of clients, runs,
events, jobs, codes, messages, sessions, documents, texts, clicks, saves, research runs and cards.

* `AgentRunsProofs`: `TypeOK`, `DrainOwnsItsRun`, `StreamIsPrefix`,
  `EndedStreamIsComplete`, `EvictionOnlyAfterGrace`, and `Spec => AbstractSpec`, the
  refinement of `ReplayLog`.
  The argument: `OwnershipInv` says that a task which has not begun and is not
  cancelled still finds its own run in `_RUNS`, and that only an ended task's run
  is terminal; that makes `DrainOwnsItsRun` inductive. `StreamInv(c)` relates, for a subscriber
  in each position of its generator, three sequences: what it was sent, what
  its queue holds with numbers from `next_seq` on, and the log; the queue
  is the tail of the log not yet sent, but for replayed duplicates at its head,
  and the sentinel is in it only if the run is terminal. `StreamIsPrefix` and
  `EndedStreamIsComplete` follow, and with them every step maps to a step of
  `ReplayLog` or to a stutter. `TimerInv` says that an armed timer of a
  finished run nobody reads has at least as long to go as the run has left of
  its grace period, whoever armed it.
* `BgJobsProofs`: `TypeOK`, `SuccessIsReal`, `DiedLeftNoCode`, `VerdictIsFinal`.
  `IInv` is not the conjunction of the properties: it adds `CallOK` (what the
  copy of the store, the cursor and the caller are in each position of a call),
  `ProcOK` (an exit file with a code belongs to a wrapper that got past its
  command and holds its code) and `Truthful` (both the store and the copy tell
  the truth about each process). One lemma per action proves its step.
* `BgMonitorProofs`: `MonTypeOK`, `FollowedUpWasSaid`, `StoppedJobIsLeftAlone`,
  `RepeatedByFaultOnly` (once, and once more for each crash, failing load and failing save),
  `WorkIsPending`, and `MonSpec => Spec`: the monitor and what runs beside it take only steps of
  `BgJobs`, whose theorems therefore hold here. The monitor holds its list over awaits in which
  agents change the store, so `MInv` adds to `IInv` where the monitor is (`WhereOK`), that a listed
  job is pending or its record was lost (`WorkOK`), what a record that is no longer pending is owed
  to (`Told`), that nothing is said of a job that has not ended (`Unsaid`), and how many
  continuations a job that may still be followed up can have had (`Budget`).
* `SessionHistoryProofs`: `TypeOK`, `RowsInOrder`, `CacheMatchesRows`, `CountTracksRows`,
  `SavedStays`, `RemovedStaysRemoved`. Nearly every handler makes its histories of parts of
  histories there were; `Within` says so of two sequences, and the texts, the order and the length
  follow. No property is inductive, and the invariants stand on one another: `OrderInv`, that the
  rows, every `Session` object and the slice the compact endpoint holds are all in the order of
  sending (each is written from another); `HeldInv`, that a turn not known to be detached holds the
  cached object; `RowIds` and `NamesInv`, that an id names one row and one entry at most and both
  have the same text, even after commits that failed; `SyncInv`, that the cached history is the rows
  entry by entry and `message_count` their number; `KeepInv`, that what was saved and not taken out
  is in the rows, in the cached history and in what the endpoint holds; `RemovedInv`, that what was
  taken out is in none of them. `SavedStays` is proved of chats that have had no more messages than
  a page shows (`sent <= PageLimit`): beyond that `regenerateFrom()` counts from the wrong end
  (*Pages* in the known gaps), and the property fails.
* `ChatClientProofs`: `TypeOK`, `SentOnce`, `OwnSession`, `StreamingIsActive`. The invariant `IInv`
  follows one message through the composer, the queue, the promotion and the requests: it is in one
  of them only (`Apart`, `Unseen`), one call holds the send flag (`OneFlight`), what waits is marked
  so and is not in flight (`Waiting`), and a message that did not wait is where it was typed
  (`InPlace`). `SentOnce` alone is not inductive: a message in the queue that some call had also
  posted would be posted again. `Smooth` is needed because an upload that fails after its reply was
  stopped releases the flag of another call, and two calls may then hold one message. For
  `StreamingIsActive` it takes `Steady`: a call keeps its session and a session found deleted stays
  away while the call is remembered (`Lasting`), so that a page once disturbed remains so; until
  then it shows no session before its one waiting call has created it (`Unopened`) and that session
  ever after (`Opened`), no stream is in the background, and whatever ends a call makes the page
  idle. It needs neither `Smooth` nor any bound.
* `DocEditorProofs`: `TypeOK`, `OwnText`, `DiffIsOfActive`, `TypedWillBeSaved`, which is all the run
  `doc_editor` checks. `Kept` says of every place a text can be in (tabs, the server and its version
  before, saves under way, the box, the diff, a comparison, an animation) that the text is of that
  place's document, of none, or of a guest that the page has put there; `OwnText` alone is not
  inductive, since a save under way or a diff carries a text into it. Guests are only ever added
  (`GuestsStay`), so what holds of a text goes on holding (`Grown`), and each step has only to show
  what it writes; `Hosted` says that a stream is the guest of the tab it has taken. `SaveInv` says
  that a text in the box is due, in a save that can reach the server, saved or failed, that a save
  that has arrived is saved, and that an animation types only what the agent wrote.
* `ResearchJobsProofs`: `TypeOK`, `DoneIsDone`, `RunningIsFollowed`. `DoneIsDone` is not
  inductive, since a stream or a poll under way will set its card to what it hears. `CardsOK`
  adds that what follows a card launched once is about the card's own run, and `ServerOK` that the
  server has reports only of ids of which a run came to one, and an entry for every run that goes on.
* `ResearchRunnerProofs`: `OneAtATime`. The runner waits for a card to stop saying "running", so
  `Order` follows that card as long as nothing fails: nothing lets a run go on whose card says
  otherwise (`Calm`), nothing is about a card not yet launched (`Unposted`), what the runner
  launched it has waited for, but the last (`Launches`), and the card it waits for says what its run
  does (`Pass`). `ChatsApart` keeps chats out of it: the page has posted none of their ids.

**Model-checked only:** all liveness (`FinishedRunIsEvicted`, `FinishedStreamEnds`,
`QueuedRunGetsItsTurn`, `FollowUpArrives`, `EveryJobSettles`, `QueueDrains`) and the fairness
in the refinement of `ReplayLog`, which are beyond the prover, and of
course the four violations. Every invariant and every action property of the passing runs has a
theorem.

**Assumptions.** Besides the modules' ASSUMEs the theorems use none. What a definition by `CHOOSE`
needs of numbers - that a set of them has a least and a bounded one a greatest - is proved from the
library's well-foundedness of `Nat` (`Least`, `Greatest` in `SessionHistoryProofs`).

## Findings

1. *A run cancelled before it begins is "running" for ever*
   (`agent_runs_zombie`). The `finally` that wakes subscribers and sets the
   status is not reached. `is_active()` stays true: compaction answers 409, and
   follow-ups and background work wait until the session's next send.
2. *Automatic compaction drops messages* (`session_autocompact`).
   `_update_session_history()` shifts its split by the number of system messages
   that were sent to the model, as if they stood in `session.history`. They are
   built per request. As many messages after the summarised half are lost.
3. *A queued message overwrites what the user is writing* (`chat_draft`).
   `_setComposerAndSend()` fills the composer without a look at it; the comment
   at `chat.js:763` says that what was typed is not lost.
4. *A comparison that arrives late is written over another document*
   (`doc_foreign`). The compare button does not look whether its document is
   still shown; leaving the diff writes the first document's text into the
   second and saves it, which is what the tests of issue 2467 say must not happen.

## Known gaps

What the models contain, or what was seen beside them, and the code does not
prevent; the properties are weakened accordingly. The first three contradict a
comment and are stated in the modules or reproduced as told.

* *Sends.* A third send runs beside the first: `_drain` waits for the task of
  the run it directly replaced; if that one was cancelled before its first
  step it ends at once, while the one before it is still saving
  (`SequentialGenerators` of `AgentRuns`, with 3 runs; `agent_runs.py:99`).
* *Deleted sessions.* The job of a deleted session is retried for ever:
  `get_session()` raises where the code expects `None`
  (`DeletedSessionIsHandled` of `BgMonitor`; `bg_monitor.py:86`).
* *Pages.* Regenerate and edit truncate by the position on the page: the
  browser shows the last 8 or 24 messages, the server counts from the first of
  all (`SavedStays` with `PageLimit = 1`; `chat.js:4213`).
* *Jobs.* A crash between `Popen` and the save of the record, or a save that raises there, loses the job
  while its process runs on. When the save of `kill()` raises, the process is dead and its record says
  it runs: a later refresh says it died, and the agent is continued for a job it has stopped. A
  store that cannot be read when a job is launched is overwritten with that job
  alone. An exit file read while it is empty counts as code 1. `kill()` of a
  job that has ended since its list was read says it was killed, and a pid that
  has been reused belongs to another process.
* *Follow-ups.* A crash after the continuation is saved and before the mark, or a mark whose save
  raises (`bg_jobs.py:257`, caught at `bg_monitor.py:142`), repeats it. A live turn that starts
  during a follow-up writes into the same session. A model that could not be reached counts as a
  continuation.
* *Histories.* Messages saved while a compaction awaits its summary are dropped by it, and messages
  removed meanwhile come back. Truncation to nothing leaves `message_count` of the object positive:
  the next request makes a new object, and the reply of a turn under way goes to the old one, with a
  stored `message_count` of 0, so that a restart does not list the session. A merged reply takes the
  id of the row the merge deletes: deleting it later leaves its row, which a restart brings back,
  and `message_count` is not updated by a merge. A reply whose row could not be saved is shown all
  the same, and merging it writes over an earlier row; so does a merge after a turn has written its
  reply to an object that was replaced, and one after a merged reply was deleted by an id no row
  has, which may also take the wrong prompt. A compaction writes the rows from memory: it drops a
  reply that went to a replaced object. A session read while its deletion is uncommitted is cached
  again afterwards.
* *Chat page.* The catch block of a foreground reply reads a const of the try
  block (`chat.js:3011`): its ReferenceError skips the timeout and offline messages
  and the recovery. A spinner stays when the user returns to a session whose
  background stream is gone (`chat.js:3445`). An upload that fails after its
  reply was stopped releases another call's flag. A reader that ends sets the
  button of a second stream to idle. Two promotions lose one message. A queued message goes to whatever
  session is current when it is sent. Stop posts to the session of the stream
  before (`_streamSessionId`). `selectSession()` leaves `_pendingChat` set.
* *Document editor.* The document tool makes a new row whether or not the title is in use
  (`document_tools.py:279-322`), and the page goes by the title: a stream takes the open tab with
  its title, blanks the box and types into it (`document.js:7400-7409`), and an update of a document
  without a tab lands in it (`7655-7667`). The autosave, a tab switch or a review then stores the
  text of the new document as the one of the tab. An animation's frames and the autosave meet: a
  torn text is saved (`document.js:7501`, `3346`), and a switch meanwhile lets the animation write
  into another document. Text typed less than two seconds before a tab switch, an update or a stream
  is kept in the map and not sent (`2428`, `7422`). An update while the panel is closed shows a
  blank editor until its second report (`7685`). A save's late answer puts its older text back into
  the map (`6518`). The 300 ms timer of one diff leaves the next one (`5994`). Restoring the chip
  during the slide-out blanks the editor (`4205`). The second report of a write discards, and saves,
  the text before it while its diff is under review. A delete that is confirmed late is applied to
  the document shown then (`6883`).
* *Research panel.* A chat that researches again uses the same id (`chat_routes.py:858`), and its
  earlier report is on disk: the card that has adopted the run that goes on is set to "done" by the
  library (`jobs.js:103-118`), and a fallback that asks after a restart hears "done" of a run that
  is lost. The answer of a poll that was under way when its card was cancelled and retried says
  "done", or "error", of the new run (`jobs.js:345`). A queued card launched again while its POST is
  under way leaks the first stream and timer, and the first run's end ends the second run's card.
  The launch of a removed card goes on. An adoption that overtakes the POST's answer makes a twin
  card. The answer to a cancellation overwrites "done" (`jobs.js:211`), and a poll's answer under
  way turns "cancelled" into "error" (`334`). Clearing all leaves a cleared card "running", for
  which a sequential pass waits for ever (`183`). `chatStream.js:135` imports `jobs.js` without the
  version that `panel.js` uses, so that the page holds two instances. On the server a status of
  "done" is visible while the category's action is still awaited, before the report is on disk
  (`research_handler.py:352`).
* *Seen in passing, not modelled.* Forking a session that has not been opened
  since a restart copies no messages (`history_routes.py:580` does not load
  them). The `truncate` tool and slash command say they keep the *last* N
  messages (`session_tools.py:406`, `slashCommands.js:1031`); they keep the first N.

## Not modelled, and why

* *Pure input and output, or records changed one at a time:* web search, MCP
  transport, uploads, webhooks, gallery, settings, speech, vault, contacts,
  companion, launcher and scripts. Nothing in them is a protocol between parties
  that take turns.
* *Numeric and textual work:* prompts, parsers, retrieval, embeddings, rendering.
  Their correctness is not about orders of events.
* *Protocols not reached yet:* the fallback chain and the dead-host cooldown of
  `llm_core.py`, the interactive gate, forking and `cleanup_empty_sessions`, and the
  inside of a research run (how a hard timeout and a cancellation meet at each await).
  They are the next candidates, in this order; an abstract specification of the
  chain would be that no second model speaks once one has.
* *Parts of the modelled components* named above as left out.

## Plan

Done: the six parts above, each with the runs that check it, and proofs of every safety
property these check. Next, in this order: the fallback chain and cooldown of
`llm_core.py`; the interactive gate composed with `AgentRuns`; forking and cleanup in
`SessionHistory`; the inside of a research run.
