------------------------------ MODULE ChatClient ------------------------------
(***************************************************************************)
(* The chat page of the browser client: static/js/chat.js sends a message, *)
(* reads the reply's stream, queues what is submitted meanwhile, and lets  *)
(* a stream run on in the background; static/js/sessions.js chooses which  *)
(* session the page shows.                                                 *)
(*                                                                         *)
(* One thread runs everything, so a stretch of code between two awaits is  *)
(* one step.  What makes it hard is that every await, timer and network    *)
(* event lets the user switch sessions, stop, type and send in between,    *)
(* and that the state of "the" stream is a handful of globals shared by    *)
(* all sessions and readers.                                               *)
(*                                                                         *)
(* A send is one call of handleChatSubmit that came past its guards; its   *)
(* number also names its AbortController and its reader.  Text is what it  *)
(* comes from: a message is a model value, a reply is there or not.  Slash *)
(* commands and setup, the API-key question, incognito chats, research,    *)
(* the continuation of a stopped reply, what the page renders and the      *)
(* re-attachment to a run found on the server are left out.                *)
(***************************************************************************)
EXTENDS Integers, Sequences, FiniteSets

CONSTANTS
  Session,     \* session ids
  NoSession,   \* null
  Known,       \* the sessions that exist when the page is loaded
  Msg,         \* what the user types, each once
  NoMsg,       \* the empty composer
  Slow,        \* the messages sent with a file to upload or a document to save
  MaxSends,    \* bound: calls of handleChatSubmit that send
  MaxNavs      \* bound: the user's selections of a session or a new chat

ASSUME SessionAssumption == NoSession \notin Session /\ Known \subseteq Session
ASSUME MsgAssumption == NoMsg \notin Msg /\ Slow \subseteq Msg
ASSUME BoundAssumption == MaxSends \in Nat /\ MaxNavs \in Nat

Send == 1..MaxSends
Page == Session \cup {NoSession}
Text == Msg \cup {NoMsg}

VARIABLES
  cur,          \* currentSessionId
  pending,      \* _pendingChat: a new chat that is not created yet
  nav,          \* the session whose history selectSession() waits for
  navs,         \* selections and new chats of the user so far
  exists,       \* the sessions the sidebar lists
  isStreaming,
  sendInFlight, \* _sendInFlight
  abort,        \* currentAbort, 0 for null
  holder,       \* currentHolder is set: the bubble of a reply
  accum,        \* currentAccumulated is not empty
  bg,           \* _backgroundStreams: the status of each entry, "none" without
  polls,        \* the sessions with an interval of checkBackgroundStream()
  composer,     \* the text of the message box
  disabled,     \* the message box is disabled
  queue,        \* _queuedAgentRequests
  drain,        \* _queuedDrainTimer is set
  promoted,     \* the request _sendQueuedWhenIdle() waits to send
  autosubmit,   \* _setComposerAndSend() has a submit under way
  send,         \* [Send -> what is known of the call]
  aborted,      \* the controllers that are aborted
  typed         \* history: [Msg -> where it was typed, and whether it waited]

navVars    == <<cur, pending, nav, navs, exists>>
streamVars == <<isStreaming, abort, holder, accum>>
mapVars    == <<bg, polls>>
boxVars    == <<composer, disabled, queue>>
timerVars  == <<drain, promoted, autosubmit>>
sendVars   == <<send, aborted>>
vars == <<navVars, streamVars, sendInFlight, mapVars, boxVars, timerVars, sendVars, typed>>

NoSend  == [pc |-> "none", sess |-> NoSession, msg |-> NoMsg, done |-> FALSE]
Untyped == [sofar |-> FALSE, sess |-> NoSession, waited |-> FALSE]

Init ==
  /\ cur \in Known \cup {NoSession}
  /\ pending = (cur = NoSession)
  /\ nav = NoSession
  /\ navs = 0
  /\ exists = Known
  /\ isStreaming = FALSE
  /\ sendInFlight = FALSE
  /\ abort = 0
  /\ holder = FALSE
  /\ accum = FALSE
  /\ bg = [s \in Page |-> "none"]
  /\ polls = {}
  /\ composer = NoMsg
  /\ disabled = FALSE
  /\ queue = <<>>
  /\ drain = FALSE
  /\ promoted = NoMsg
  /\ autosubmit = FALSE
  /\ send = [i \in Send |-> NoSend]
  /\ aborted = {}
  /\ typed = [m \in Msg |-> Untyped]

-----------------------------------------------------------------------------
(* The parts of the handlers.                                              *)

\* The reader's test for "the user is on another session" ...
Elsewhere(i) == cur # send[i].sess

\* ... and _isBgFinal, _isBgCatch, _isBgFinally: or its session has an entry.
Background(i) == Elsewhere(i) \/ bg[send[i].sess] # "none"

\* updateSubmitButton('idle') and the cleared tracking variables.
Idle == isStreaming' = FALSE /\ holder' = FALSE /\ accum' = FALSE

\* Mutant: currentAbort is not tested.
AbortingNull == aborted \cup {abort}

\* abortCurrentRequest().  The controller is kept.
Aborting == aborted \cup ({abort} \ {0})

\* detachCurrentStream(prev), with the map m: the stream goes to the background.
\* Without a controller to hand over nothing but the abort happens.
DetachFrom(prev, m) ==
  IF isStreaming /\ abort # 0
    THEN bg' = [m EXCEPT ![prev] = "running"] /\ abort' = 0 /\ Idle /\ UNCHANGED aborted
    ELSE aborted' = Aborting /\ bg' = m /\ UNCHANGED streamVars

\* The box of a page that opens.
EmptyBox == composer' = NoMsg /\ disabled' = FALSE

\* selectSession(s), up to the await of the history.
Select(s, m) ==
  /\ cur' = s
  /\ nav' = s
  /\ DetachFrom(cur, m)
  /\ EmptyBox

\* createDirectChat(): nothing is created yet.
OpenNewChat ==
  /\ cur' = NoSession
  /\ nav' = NoSession
  /\ DetachFrom(cur, bg)
  /\ EmptyBox

\* _drainQueuedAgentRequests(), in a step that leaves these behind.
StartDrain(streaming, inFlight, waiting) ==
  drain' = (drain \/ (~streaming /\ ~inFlight /\ waiting # <<>>))

Waited(m) == [typed EXCEPT ![m] = [@ EXCEPT !.waited = TRUE]]

-----------------------------------------------------------------------------
(* handleChatSubmit().                                                     *)

\* While a reply streams, a text is queued ...
SubmitQueues ==
  /\ isStreaming
  /\ composer # NoMsg
  /\ queue' = Append(queue, composer)
  /\ composer' = NoMsg
  /\ typed' = Waited(composer)
  /\ UNCHANGED <<navVars, streamVars, sendInFlight, disabled, drain, sendVars>>

\* ... and the empty composer stops it.  Only the branch of an empty reply
\* starts the queue; the others leave that to the reader's finally block.
Stop(waiting) ==
  /\ aborted' = Aborting
  /\ Idle
  /\ IF holder /\ ~accum THEN StartDrain(FALSE, sendInFlight, waiting) ELSE UNCHANGED drain

SubmitStops ==
  /\ isStreaming
  /\ composer = NoMsg
  /\ Stop(queue)
  /\ disabled' = FALSE
  /\ UNCHANGED <<navVars, abort, sendInFlight, composer, queue, send, typed>>

\* A second submit before the first is streaming, or nothing to send.
SubmitIgnored ==
  /\ ~isStreaming
  /\ sendInFlight \/ composer = NoMsg
  /\ UNCHANGED <<navVars, streamVars, sendInFlight, boxVars, drain, sendVars, typed>>

\* The next call that sends.
NextSend(i) == \A k \in Send : (send[k].pc = "none") <=> (k >= i)

\* From "streaming" to the first await after it: the upload, the saved
\* document, or without these the request itself.
Begin(i, m) ==
  /\ isStreaming' = TRUE
  /\ sendInFlight' = FALSE
  /\ accum' = FALSE
  /\ EmptyBox
  /\ send' = [send EXCEPT ![i] = [pc |-> IF m \in Slow THEN "starting" ELSE "open",
                                  sess |-> cur, msg |-> m, done |-> FALSE]]
  /\ holder' = (m \notin Slow)
  /\ abort' = IF m \in Slow THEN abort ELSE i

SubmitSends ==
  /\ ~isStreaming
  /\ ~sendInFlight
  /\ composer # NoMsg
  /\ cur # NoSession
  /\ ~pending
  /\ \E i \in Send : NextSend(i) /\ Begin(i, composer)
  /\ UNCHANGED <<navVars, queue, drain, aborted, typed>>

\* Mutant: the guard of a send in flight is gone.
SubmitCreatesTwice ==
  /\ ~isStreaming
  /\ composer # NoMsg
  /\ cur = NoSession \/ pending
  /\ sendInFlight' = TRUE
  /\ disabled' = TRUE
  /\ pending' = FALSE
  /\ \E i \in Send :
       /\ NextSend(i)
       /\ send' = [send EXCEPT ![i] = [NoSend EXCEPT !.msg = composer, !.pc =
                     IF pending THEN "creating" ELSE "default"]]
  /\ typed' = Waited(composer)
  /\ UNCHANGED <<cur, nav, navs, exists, streamVars, composer, queue, drain, aborted>>

\* Without a session one is created first, from the pending chat or the default.
SubmitCreates ==
  /\ ~isStreaming
  /\ ~sendInFlight
  /\ composer # NoMsg
  /\ cur = NoSession \/ pending
  /\ sendInFlight' = TRUE
  /\ disabled' = TRUE
  /\ pending' = FALSE
  /\ \E i \in Send :
       /\ NextSend(i)
       /\ send' = [send EXCEPT ![i] = [NoSend EXCEPT !.msg = composer, !.pc =
                     IF pending THEN "creating" ELSE "default"]]
  /\ typed' = Waited(composer)
  /\ UNCHANGED <<cur, nav, navs, exists, streamVars, composer, queue, drain, aborted>>

Submit ==
  /\ SubmitQueues \/ SubmitStops \/ SubmitIgnored \/ SubmitSends \/ SubmitCreates
  /\ UNCHANGED <<mapVars, promoted>>

-----------------------------------------------------------------------------
(* The user.                                                               *)

Type(m) ==
  /\ ~typed[m].sofar
  /\ composer = NoMsg
  /\ ~disabled
  /\ composer' = m
  /\ typed' = [typed EXCEPT ![m] = [@ EXCEPT !.sofar = TRUE, !.sess = cur]]
  /\ UNCHANGED <<navVars, streamVars, sendInFlight, mapVars, disabled, queue, timerVars, sendVars>>

PressSend ==
  /\ Submit
  /\ UNCHANGED autosubmit

\* A click on the n-th queued bubble: _promoteQueuedRequest().
Without(n) == [k \in 1..Len(queue) - 1 |-> IF k < n THEN queue[k] ELSE queue[k + 1]]

\* It stops the reply, and _sendQueuedWhenIdle() waits for the end of it ...
PromoteLater(n) ==
  /\ isStreaming \/ sendInFlight
  /\ promoted' = queue[n]
  /\ composer' = NoMsg
  /\ IF isStreaming
       THEN Stop(Without(n)) /\ disabled' = FALSE
       ELSE UNCHANGED <<isStreaming, holder, accum, aborted, drain, disabled>>
  /\ UNCHANGED autosubmit

\* ... or is sent at once.
PromoteNow(n) ==
  /\ ~isStreaming
  /\ ~sendInFlight
  /\ composer' = queue[n]
  /\ autosubmit' = TRUE
  /\ UNCHANGED <<promoted, isStreaming, holder, accum, aborted, drain, disabled>>

Promote(n) ==
  /\ PromoteLater(n) \/ PromoteNow(n)
  /\ queue' = Without(n)
  /\ UNCHANGED <<navVars, abort, sendInFlight, mapVars, send, typed>>

SelectSession(s) ==
  /\ navs < MaxNavs
  /\ navs' = navs + 1
  /\ s \in exists
  /\ Select(s, bg)
  /\ UNCHANGED <<pending, exists, sendInFlight, polls, queue, timerVars, send, typed>>

NewChat ==
  /\ navs < MaxNavs
  /\ navs' = navs + 1
  /\ OpenNewChat
  /\ pending' = TRUE
  /\ UNCHANGED <<exists, sendInFlight, polls, queue, timerVars, send, typed>>

\* The tab becomes visible and the stream has been silent: after the grace
\* period it is given up.
RecoverTab ==
  /\ isStreaming
  /\ aborted' = Aborting
  /\ isStreaming' = FALSE
  /\ disabled' = FALSE
  /\ UNCHANGED <<navVars, abort, holder, accum, sendInFlight, mapVars, composer, queue, timerVars,
                 send, typed>>

UserStep ==
  \/ \E m \in Msg : Type(m)
  \/ PressSend
  \/ \E n \in 1..Len(queue) : Promote(n)
  \/ \E s \in Session : SelectSession(s)
  \/ NewChat
  \/ RecoverTab

-----------------------------------------------------------------------------
(* Timers.                                                                 *)

\* _setComposerAndSend(m): the composer now, the submit in a task of its own.
SetComposerAndSend(m) == composer' = m /\ autosubmit' = TRUE

DrainFires ==
  /\ drain
  /\ drain' = FALSE
  /\ IF isStreaming \/ sendInFlight \/ queue = <<>>
       THEN UNCHANGED <<composer, autosubmit, queue>>
       ELSE SetComposerAndSend(Head(queue)) /\ queue' = Tail(queue)
  /\ UNCHANGED <<navVars, streamVars, sendInFlight, mapVars, disabled, promoted, sendVars, typed>>

PromotedIsSent ==
  /\ promoted # NoMsg
  /\ ~isStreaming
  /\ ~sendInFlight
  /\ SetComposerAndSend(promoted)
  /\ promoted' = NoMsg
  /\ UNCHANGED <<navVars, streamVars, sendInFlight, mapVars, disabled, queue, drain, sendVars, typed>>

AutoSubmit ==
  /\ autosubmit
  /\ autosubmit' = FALSE
  /\ Submit

\* The interval of checkBackgroundStream(s): over when the user has left, and
\* when the stream is; then the session is selected again.
PollEnds(s) ==
  /\ s \in polls
  /\ polls' = polls \ {s}
  /\ \/ cur # s /\ UNCHANGED <<cur, nav, streamVars, bg, aborted, composer, disabled>>
     \/ cur = s /\ bg[s] # "running" /\ Select(s, [bg EXCEPT ![s] = "none"])
  /\ UNCHANGED <<pending, navs, exists, sendInFlight, queue, timerVars, send, typed>>

\* loadSessions() after a send, when no session is current: it selects one.
Reload ==
  /\ \E i \in Send : send[i].pc \in {"ended", "refused"}
  /\ cur = NoSession
  /\ ~pending
  /\ \E s \in exists : Select(s, bg)
  /\ UNCHANGED <<pending, navs, exists, sendInFlight, polls, queue, timerVars, send, typed>>

TimerStep ==
  \/ DrainFires
  \/ PromotedIsSent
  \/ AutoSubmit
  \/ \E s \in Session : PollEnds(s)
  \/ Reload

-----------------------------------------------------------------------------
(* What the network answers.                                               *)

\* checkBackgroundStream(s): an entry that is over goes, a running one is polled.
CheckBackground(s) ==
  /\ bg' = [bg EXCEPT ![s] = IF @ \in {"completed", "error"} THEN "none" ELSE @]
  /\ polls' = IF bg[s] = "running" THEN polls \cup {s} ELSE polls

\* The history arrives.
HistoryArrives ==
  /\ nav # NoSession
  /\ nav' = NoSession
  /\ CheckBackground(nav)
  /\ UNCHANGED <<cur, pending, navs, exists, streamVars, sendInFlight, boxVars, timerVars, sendVars, typed>>

HistoryFails ==
  /\ nav # NoSession
  /\ nav' = NoSession
  /\ UNCHANGED <<cur, pending, navs, exists, streamVars, sendInFlight, mapVars, boxVars, timerVars,
                 sendVars, typed>>

\* /api/default-chat: createDirectChat() and materializePendingSession().
DefaultChat(i) ==
  /\ send[i].pc = "default"
  /\ OpenNewChat
  /\ pending' = FALSE
  /\ send' = [send EXCEPT ![i].pc = "creating"]
  /\ UNCHANGED <<navs, exists, sendInFlight, polls, queue, timerVars, typed>>

\* POST /api/session: the new session is the current one; loadSessions() follows.
\* The history another selection waits for is dropped when it comes.
Created(i, s) ==
  /\ send[i].pc = "creating"
  /\ s \notin exists /\ \A k \in Send : send[k].sess # s
  /\ exists' = exists \cup {s}
  /\ cur' = s
  /\ nav' = NoSession
  /\ send' = [send EXCEPT ![i].pc = "listing"]
  /\ UNCHANGED <<pending, navs, streamVars, sendInFlight, mapVars, boxVars, timerVars, aborted, typed>>

\* _releaseSendFlag(): the message stays in the composer, if it is still there.
Release(i) ==
  /\ send' = [send EXCEPT ![i].pc = "failed"]
  /\ sendInFlight' = FALSE
  /\ disabled' = FALSE

CreateFails(i) ==
  /\ send[i].pc \in {"default", "creating"}
  /\ Release(i)
  /\ composer' \in IF send[i].pc = "default" THEN {NoMsg} ELSE {composer}
  /\ UNCHANGED <<navVars, streamVars, mapVars, queue, timerVars, aborted, typed>>

\* The send goes on in whatever session is current by now.
Listed(i) ==
  /\ send[i].pc = "listing"
  /\ IF cur = NoSession
       THEN Release(i) /\ UNCHANGED <<streamVars, composer>>
       ELSE Begin(i, send[i].msg)
  /\ UNCHANGED <<navVars, mapVars, queue, timerVars, aborted, typed>>

\* Mutant: the request is for the session that is current when the upload is done.
UploadedHere(i) ==
  /\ send[i].pc = "starting"
  /\ abort' = i
  /\ holder' = TRUE
  /\ send' = [send EXCEPT ![i].pc = "open", ![i].sess = cur]
  /\ UNCHANGED <<navVars, isStreaming, accum, sendInFlight, mapVars, boxVars, timerVars, aborted, typed>>

\* The upload and the document are done: the bubble is shown and the request goes
\* out, for the session the message was sent in.
Uploaded(i) ==
  /\ send[i].pc = "starting"
  /\ abort' = i
  /\ holder' = TRUE
  /\ send' = [send EXCEPT ![i].pc = "open"]
  /\ UNCHANGED <<navVars, isStreaming, accum, sendInFlight, mapVars, boxVars, timerVars, aborted, typed>>

\* Nothing was uploaded: idle, whatever streams, and the send flag released,
\* whoever holds it.
UploadFails(i) ==
  /\ send[i].pc = "starting"
  /\ send' = [send EXCEPT ![i].pc = "unsent"]
  /\ isStreaming' = FALSE
  /\ sendInFlight' = FALSE
  /\ disabled' = FALSE
  /\ IF Background(i) THEN UNCHANGED <<holder, accum>> ELSE holder' = FALSE /\ accum' = FALSE
  /\ StartDrain(FALSE, FALSE, queue)
  /\ UNCHANGED <<navVars, abort, mapVars, composer, queue, promoted, autosubmit, aborted, typed>>

\* Mutant: the finally block does not start the queue.
FinallyLeavesQueue(i) ==
  /\ IF Background(i)
       THEN UNCHANGED <<isStreaming, holder, accum, disabled>>
       ELSE Idle /\ disabled' = FALSE
  /\ UNCHANGED <<navVars, abort, sendInFlight, polls, composer, queue, timerVars, aborted, typed>>

\* The finally block: the page is idle again if the stream is the page's.
Finally(i) ==
  /\ IF Background(i)
       THEN UNCHANGED <<isStreaming, holder, accum, disabled>> /\ StartDrain(isStreaming, sendInFlight, queue)
       ELSE Idle /\ disabled' = FALSE /\ StartDrain(FALSE, sendInFlight, queue)
  /\ UNCHANGED <<navVars, abort, sendInFlight, polls, composer, queue, promoted, autosubmit, aborted, typed>>

\* Mutant: the early return leaves the page as it is.
RefusedReturns(i) ==
  /\ send[i].pc = "open"
  /\ ~send[i].done
  /\ i \notin aborted
  /\ send' = [send EXCEPT ![i].pc = "refused"]
  /\ UNCHANGED <<navVars, streamVars, sendInFlight, mapVars, boxVars, timerVars, aborted, typed>>

\* The server refuses the request: no reader, no catch, only the finally block.
Refused(i) ==
  /\ send[i].pc = "open"
  /\ ~send[i].done
  /\ i \notin aborted
  /\ send' = [send EXCEPT ![i].pc = "refused"]
  /\ Finally(i)
  /\ UNCHANGED bg

\* 404: the session is gone, whoever is looking at what.  loadSessions() follows ...
NotFound(i) ==
  /\ send[i].pc = "open"
  /\ ~send[i].done
  /\ i \notin aborted
  /\ exists' = exists \ {send[i].sess}
  /\ send' = [send EXCEPT ![i].pc = "gone"]
  /\ cur' = NoSession
  /\ nav' = NoSession
  /\ UNCHANGED <<pending, navs, streamVars, sendInFlight, mapVars, boxVars, timerVars, aborted, typed>>

\* ... and selects another session, or opens a new chat when there is none.
Relisted(i) ==
  /\ send[i].pc = "gone"
  /\ send' = [send EXCEPT ![i].pc = "leaving"]
  /\ \/ /\ cur # NoSession \/ pending
        /\ UNCHANGED <<cur, pending, nav, streamVars, bg, aborted, composer, disabled>>
     \/ /\ cur = NoSession
        /\ ~pending
        /\ \/ \E s \in exists : Select(s, bg) /\ UNCHANGED pending
           \/ exists = {} /\ OpenNewChat /\ pending' = TRUE
  /\ UNCHANGED <<navs, exists, sendInFlight, polls, queue, timerVars, typed>>

Leaves(i) ==
  /\ send[i].pc = "leaving"
  /\ send' = [send EXCEPT ![i].pc = "refused"]
  /\ Finally(i)
  /\ UNCHANGED bg

\* The first line that finds the user elsewhere makes the entry.
NewEntry(i) == [bg EXCEPT ![send[i].sess] = IF Elsewhere(i) /\ @ = "none" THEN "running" ELSE @]

\* A line of text.
Delta(i) ==
  /\ send[i].pc = "open"
  /\ ~send[i].done
  /\ i \notin aborted
  /\ accum' = TRUE
  /\ bg' = NewEntry(i)
  /\ UNCHANGED <<navVars, isStreaming, abort, holder, sendInFlight, polls, boxVars, timerVars, sendVars, typed>>

\* [DONE].
Done(i) ==
  /\ send[i].pc = "open"
  /\ ~send[i].done
  /\ i \notin aborted
  /\ send' = [send EXCEPT ![i].done = TRUE]
  /\ bg' = [bg EXCEPT ![send[i].sess] = IF Elsewhere(i) THEN "completed" ELSE "none"]
  /\ UNCHANGED <<navVars, streamVars, sendInFlight, polls, boxVars, timerVars, aborted, typed>>

\* The connection is at its end after [DONE].
Ends(i) ==
  /\ send[i].pc = "open"
  /\ send[i].done
  /\ send' = [send EXCEPT ![i].pc = "ended"]
  /\ Finally(i)
  /\ UNCHANGED bg

\* The connection drops, or the controller was aborted.  In the foreground the
\* catch block reads streamingTTS, a const of the try block: its ReferenceError
\* leaves only the finally block.
Dies(i) ==
  /\ send[i].pc = "open"
  /\ send' = [send EXCEPT ![i].pc = "ended"]
  /\ bg' = [bg EXCEPT ![send[i].sess] = IF Background(i) /\ @ = "running" THEN "error" ELSE @]
  /\ Finally(i)

\* A call is answered in the end, and a stream ends.
Answer(i) ==
  \/ DefaultChat(i)
  \/ \E s \in Session : Created(i, s)
  \/ CreateFails(i)
  \/ Listed(i)
  \/ Uploaded(i)
  \/ UploadFails(i)
  \/ Refused(i)
  \/ NotFound(i)
  \/ Relisted(i)
  \/ Leaves(i)
  \/ Done(i)
  \/ Ends(i)
  \/ Dies(i)

Next ==
  \/ UserStep
  \/ TimerStep
  \/ HistoryArrives
  \/ HistoryFails
  \/ \E i \in Send : Answer(i) \/ Delta(i)

Spec == Init /\ [][Next]_vars

Fairness ==
  /\ WF_vars(DrainFires)
  /\ WF_vars(PromotedIsSent)
  /\ WF_vars(AutoSubmit)
  /\ \A i \in Send : WF_vars(Answer(i))

FairSpec == Spec /\ Fairness

-----------------------------------------------------------------------------
(* Properties.                                                             *)

TypeOK ==
  /\ cur \in Page
  /\ pending \in BOOLEAN
  /\ nav \in Page
  /\ navs \in 0..MaxNavs
  /\ exists \subseteq Session
  /\ isStreaming \in BOOLEAN
  /\ sendInFlight \in BOOLEAN
  /\ abort \in Send \cup {0}
  /\ holder \in BOOLEAN
  /\ accum \in BOOLEAN
  /\ bg \in [Page -> {"none", "running", "completed", "error"}]
  /\ polls \subseteq Session
  /\ composer \in Text
  /\ disabled \in BOOLEAN
  /\ queue \in Seq(Msg)
  /\ drain \in BOOLEAN
  /\ promoted \in Text
  /\ autosubmit \in BOOLEAN
  /\ send \in [Send -> [pc : {"none", "default", "creating", "listing", "starting", "open", "gone",
                              "leaving", "ended", "refused", "failed", "unsent"},
                        sess : Page, msg : Text, done : BOOLEAN]]
  /\ aborted \subseteq Send
  /\ typed \in [Msg -> [sofar : BOOLEAN, sess : Page, waited : BOOLEAN]]

\* The request of the send has gone out.
Posted(i) == send[i].pc \in {"open", "gone", "leaving", "ended", "refused"}

\* The call of handleChatSubmit is not over.
Live(i) == send[i].pc \in {"starting", "open", "gone", "leaving"}

\* No upload has failed.  An upload that fails after its reply was stopped releases
\* the send flag of whichever call holds it by then, and nothing below is sure.
Smooth == \A i \in Send : send[i].pc # "unsent"

\* What the user typed once is posted once: neither a click while a session is
\* being created, nor the queue, its timers, a promotion or a retry after a
\* failure doubles it.
SentOnce ==
  Smooth => \A i, k \in Send : Posted(i) /\ Posted(k) /\ send[i].msg = send[k].msg => i = k

\* A message that did not wait, in the queue or for a session to be created, is
\* posted to the session it was typed in, whatever the user selects meanwhile.
OwnSession ==
  Smooth => \A i \in Send :
    Posted(i) /\ ~typed[send[i].msg].waited => send[i].sess = typed[send[i].msg].sess

\* The user has stayed and no session turned out to be deleted.
Undisturbed ==
  /\ navs = 0
  /\ Known \subseteq exists
  /\ \A i \in Send : send[i].sess \in exists \cup {NoSession}

\* The Stop button is shown only while some call may still take it away: no
\* refusal, failed upload, stop or recovery leaves the page streaming for ever.
StreamingIsActive == Undisturbed /\ isStreaming => \E i \in Send : Live(i)

\* A queued message leaves the queue in the end, though only some of the ways a
\* reply ends start the queue and the timer may find the page busy again.
QueueDrains == (Undisturbed /\ queue # <<>>) ~> (queue = <<>> \/ ~Undisturbed)

\* No timer replaces what the user is writing.
DraftStays == [][DrainFires \/ PromotedIsSent => composer = NoMsg]_vars
=============================================================================
