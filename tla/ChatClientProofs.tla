--------------------------- MODULE ChatClientProofs ---------------------------
(***************************************************************************)
(* What the chat page keeps, for every number of sessions, messages, sends *)
(* and selections: its types, that a message is posted once, that it is    *)
(* posted to the session it was typed in, and that a page that streams     *)
(* while the user stays has a call that can end it.                        *)
(*                                                                         *)
(* The argument follows one message.  It is typed into the composer, may   *)
(* wait in the queue or as the promoted request, may wait with the one     *)
(* call that creates a session, and ends in a call of its own.  Apart says *)
(* that it is in one of these places only; the composer alone keeps a copy *)
(* while a session is created, and the send flag guards that copy.         *)
(***************************************************************************)
EXTENDS ChatClient, TLAPS

\* The call waits for its session, and its message may still be in the composer.
Flight(i) == send[i].pc \in {"default", "creating", "listing"}

\* The call has taken its message over.
Handed(i) == send[i].pc = "starting" \/ Posted(i)

Elems(q) == {q[k] : k \in 1..Len(q)}
Distinct(q) == \A j, k \in 1..Len(q) : q[j] = q[k] => j = k

\* One call at a time waits for its session, with the send flag, on a page that
\* is not streaming.
OneFlight ==
  /\ \A i \in Send : Flight(i) => sendInFlight /\ ~isStreaming
  /\ \A i, k \in Send : Flight(i) /\ Flight(k) => i = k

\* Every message is in one place.
Apart ==
  /\ \A i, k \in Send : Handed(i) /\ Handed(k) /\ send[i].msg = send[k].msg => i = k
  /\ \A i, k \in Send : Handed(i) /\ Flight(k) => send[i].msg # send[k].msg
  /\ \A i \in Send : Handed(i) => send[i].msg \in Msg \ ({composer, promoted} \cup Elems(queue))
  /\ \A i \in Send : Flight(i) => send[i].msg \in Msg \ ({promoted} \cup Elems(queue))
  /\ composer # NoMsg => composer \notin {promoted} \cup Elems(queue)
  /\ promoted # NoMsg => promoted \notin Elems(queue)
  /\ Distinct(queue)

\* What was not typed yet is nowhere.
Unseen ==
  \A m \in Msg : ~typed[m].sofar =>
    /\ m \notin {composer, promoted} \cup Elems(queue)
    /\ \A i \in Send : Flight(i) \/ Handed(i) => send[i].msg # m

\* What waits is known to wait.
Waiting ==
  /\ \A m \in Elems(queue) : typed[m].waited
  /\ promoted # NoMsg => typed[promoted].waited
  /\ \A i \in Send : Flight(i) => typed[send[i].msg].waited

\* What does not wait is in the composer of the session it was typed in, unless no
\* session is current or one was just created, or in a call for that session.
InPlace ==
  /\ \A i \in Send : Handed(i) /\ ~typed[send[i].msg].waited => send[i].sess = typed[send[i].msg].sess
  /\ composer # NoMsg /\ ~typed[composer].waited =>
       typed[composer].sess = cur \/ cur = NoSession \/ \E i \in Send : send[i].pc = "listing"

Parts == OneFlight /\ Apart /\ Unseen /\ Waiting /\ InPlace
IInv == TypeOK /\ (Smooth => Parts)

-----------------------------------------------------------------------------
(* Types.                                                                  *)

Entries == [Page -> {"none", "running", "completed", "error"}]
Calls == [pc : {"none", "default", "creating", "listing", "starting", "open", "gone",
                "leaving", "ended", "refused", "failed", "unsent"},
          sess : Page, msg : Text, done : BOOLEAN]

\* The part of the type invariant that leaving a session is about.
PageOK ==
  /\ cur \in Page /\ nav \in Page /\ bg \in Entries
  /\ isStreaming \in BOOLEAN /\ abort \in Send \cup {0} /\ holder \in BOOLEAN /\ accum \in BOOLEAN
  /\ aborted \subseteq Send /\ composer \in Text /\ disabled \in BOOLEAN
RestOK ==
  /\ pending \in BOOLEAN /\ navs \in 0..MaxNavs /\ exists \subseteq Session
  /\ sendInFlight \in BOOLEAN /\ polls \subseteq Session /\ queue \in Seq(Msg)
  /\ drain \in BOOLEAN /\ promoted \in Text /\ autosubmit \in BOOLEAN
  /\ send \in [Send -> Calls]
  /\ typed \in [Msg -> [sofar : BOOLEAN, sess : Page, waited : BOOLEAN]]

LEMMA TypeParts == TypeOK <=> PageOK /\ RestOK
BY DEF TypeOK, PageOK, RestOK, Calls, Entries

LEMMA TypePartsNext == TypeOK' <=> PageOK' /\ RestOK'
BY DEF TypeOK, PageOK, RestOK, Calls, Entries

LEMMA AbortingType == ASSUME PageOK PROVE Aborting \subseteq Send
BY DEF PageOK, Aborting

LEMMA DetachType ==
  ASSUME PageOK, NEW p \in Page, NEW m \in Entries, DetachFrom(p, m)
  PROVE  /\ bg' \in Entries
         /\ isStreaming' \in BOOLEAN /\ abort' \in Send \cup {0} /\ holder' \in BOOLEAN /\ accum' \in BOOLEAN
         /\ aborted' \subseteq Send
<1>1. CASE isStreaming /\ abort # 0
  <2>1. [m EXCEPT ![p] = "running"] \in Entries
    BY DEF Entries
  <2> QED BY <1>1, <2>1 DEF DetachFrom, PageOK, Idle
<1>2. CASE ~(isStreaming /\ abort # 0)
  BY <1>2, AbortingType DEF DetachFrom, PageOK, streamVars
<1> QED BY <1>1, <1>2

LEMMA SelectType ==
  ASSUME PageOK, NEW s \in Page, NEW m \in Entries, Select(s, m)
  PROVE  PageOK'
<1>1. DetachFrom(cur, m) /\ cur \in Page
  BY DEF Select, PageOK
<1>2. cur' \in Page /\ nav' \in Page /\ composer' \in Text /\ disabled' \in BOOLEAN
  BY DEF Select, EmptyBox, Text
<1> QED BY <1>1, <1>2, DetachType DEF PageOK

LEMMA NewChatType ==
  ASSUME PageOK, OpenNewChat
  PROVE  PageOK'
<1>1. DetachFrom(cur, bg) /\ cur \in Page /\ bg \in Entries
  BY DEF OpenNewChat, PageOK
<1>2. cur' \in Page /\ nav' \in Page /\ composer' \in Text /\ disabled' \in BOOLEAN
  BY DEF OpenNewChat, EmptyBox, Text, Page
<1> QED BY <1>1, <1>2, DetachType DEF PageOK

\* A call's record after a change of it.
LEMMA CallType ==
  ASSUME RestOK, NEW i \in Send,
         NEW c \in {"none", "default", "creating", "listing", "starting", "open", "gone",
                    "leaving", "ended", "refused", "failed", "unsent"}
  PROVE  [send EXCEPT ![i].pc = c] \in [Send -> Calls]
<1>1. [send[i] EXCEPT !.pc = c] \in Calls
  <2>1. send[i] \in Calls
    BY DEF RestOK
  <2> QED BY <2>1 DEF Calls
<1> QED BY <1>1 DEF RestOK

LEMMA WaitedType ==
  ASSUME RestOK, NEW m \in Msg
  PROVE  Waited(m) \in [Msg -> [sofar : BOOLEAN, sess : Page, waited : BOOLEAN]]
<1>1. typed[m] \in [sofar : BOOLEAN, sess : Page, waited : BOOLEAN]
  BY DEF RestOK
<1>2. [typed[m] EXCEPT !.waited = TRUE] \in [sofar : BOOLEAN, sess : Page, waited : BOOLEAN]
  BY <1>1
<1> QED BY <1>2 DEF RestOK, Waited

LEMMA BeginType ==
  ASSUME PageOK, RestOK, NEW i \in Send, NEW m \in Text, Begin(i, m)
  PROVE  /\ send' \in [Send -> Calls] /\ sendInFlight' \in BOOLEAN
         /\ isStreaming' \in BOOLEAN /\ abort' \in Send \cup {0} /\ holder' \in BOOLEAN /\ accum' \in BOOLEAN
         /\ composer' \in Text /\ disabled' \in BOOLEAN
<1>1. [pc |-> IF m \in Slow THEN "starting" ELSE "open", sess |-> cur, msg |-> m, done |-> FALSE] \in Calls
  BY DEF Calls, PageOK
<1>2. send' \in [Send -> Calls]
  BY <1>1 DEF Begin, RestOK
<1>3. abort' \in Send \cup {0}
  BY DEF Begin, PageOK
<1> QED BY <1>2, <1>3 DEF Begin, EmptyBox, Text

LEMMA StopType ==
  ASSUME PageOK, RestOK, NEW w, Stop(w)
  PROVE  /\ isStreaming' \in BOOLEAN /\ holder' \in BOOLEAN /\ accum' \in BOOLEAN
         /\ aborted' \subseteq Send /\ drain' \in BOOLEAN
<1>1. aborted' \subseteq Send
  BY AbortingType DEF Stop
<1>2. drain' \in BOOLEAN
  BY DEF Stop, StartDrain, RestOK
<1> QED BY <1>1, <1>2 DEF Stop, Idle

LEMMA FinallyType ==
  ASSUME PageOK, RestOK, NEW i \in Send, Finally(i), bg' \in Entries, send' \in [Send -> Calls]
  PROVE  PageOK' /\ RestOK'
<1>1. /\ isStreaming' \in BOOLEAN /\ holder' \in BOOLEAN /\ accum' \in BOOLEAN /\ disabled' \in BOOLEAN
      /\ drain' \in BOOLEAN
  BY DEF Finally, Idle, StartDrain, PageOK, RestOK
<1>2. UNCHANGED <<navVars, abort, sendInFlight, polls, composer, queue, promoted, autosubmit, aborted, typed>>
  BY DEF Finally
<1>3. PageOK'
  BY <1>1, <1>2 DEF PageOK, navVars
<1>4. RestOK'
  BY <1>1, <1>2 DEF RestOK, navVars
<1> QED BY <1>3, <1>4

LEMMA EntryType ==
  ASSUME PageOK, NEW s, NEW e \in {"none", "running", "completed", "error"}
  PROVE  [bg EXCEPT ![s] = e] \in Entries
BY DEF PageOK, Entries

LEMMA WithoutType ==
  ASSUME queue \in Seq(Msg), NEW n \in 1..Len(queue)
  PROVE  Without(n) \in Seq(Msg) /\ Len(Without(n)) = Len(queue) - 1
<1> DEFINE r == [k \in 1..Len(queue) - 1 |-> IF k < n THEN queue[k] ELSE queue[k + 1]]
<1>1. Len(queue) - 1 \in Nat
  OBVIOUS
<1>2. \A k \in 1..Len(queue) - 1 : r[k] \in Msg
  OBVIOUS
<1>3. r \in [1..Len(queue) - 1 -> Msg]
  BY <1>2
<1> QED BY <1>1, <1>3 DEF Without

\* All that a submit, by the user or by a timer, leaves of the types.
LEMMA SubmitType ==
  ASSUME PageOK, RestOK, Submit, autosubmit' \in BOOLEAN
  PROVE  PageOK' /\ RestOK'
<1>1. UNCHANGED <<bg, polls, promoted>>
  BY DEF Submit, mapVars
<1>2. CASE SubmitQueues
  <2>1. composer \in Msg /\ queue \in Seq(Msg)
    BY <1>2 DEF SubmitQueues, PageOK, RestOK, Text
  <2>2. queue' \in Seq(Msg) /\ composer' \in Text
    BY <1>2, <2>1 DEF SubmitQueues, Text
  <2>3. typed' \in [Msg -> [sofar : BOOLEAN, sess : Page, waited : BOOLEAN]]
    BY <1>2, <2>1, WaitedType DEF SubmitQueues
  <2>4. UNCHANGED <<navVars, streamVars, sendInFlight, disabled, drain, sendVars>>
    BY <1>2 DEF SubmitQueues
  <2>5. PageOK'
    BY <1>1, <2>2, <2>4 DEF PageOK, navVars, streamVars, sendVars
  <2>6. RestOK'
    BY <1>1, <2>2, <2>3, <2>4 DEF RestOK, navVars, sendVars
  <2> QED BY <2>5, <2>6
<1>3. CASE SubmitStops
  <2>1. /\ isStreaming' \in BOOLEAN /\ holder' \in BOOLEAN /\ accum' \in BOOLEAN
        /\ aborted' \subseteq Send /\ drain' \in BOOLEAN
    BY <1>3, StopType DEF SubmitStops
  <2>2. disabled' = FALSE /\ UNCHANGED <<navVars, abort, sendInFlight, composer, queue, send, typed>>
    BY <1>3 DEF SubmitStops
  <2>3. PageOK'
    BY <1>1, <2>1, <2>2 DEF PageOK, navVars
  <2>4. RestOK'
    BY <1>1, <2>1, <2>2 DEF RestOK, navVars
  <2> QED BY <2>3, <2>4
<1>4. CASE SubmitIgnored
  <2>1. UNCHANGED <<navVars, streamVars, sendInFlight, boxVars, drain, sendVars, typed>>
    BY <1>4 DEF SubmitIgnored
  <2>2. PageOK'
    BY <1>1, <2>1 DEF PageOK, navVars, streamVars, boxVars, sendVars
  <2>3. RestOK'
    BY <1>1, <2>1 DEF RestOK, navVars, boxVars, sendVars
  <2> QED BY <2>2, <2>3
<1>5. CASE SubmitSends
  <2>1. PICK i \in Send : Begin(i, composer)
    BY <1>5 DEF SubmitSends
  <2>2. composer \in Text
    BY DEF PageOK
  <2>3. /\ send' \in [Send -> Calls] /\ sendInFlight' \in BOOLEAN
        /\ isStreaming' \in BOOLEAN /\ abort' \in Send \cup {0} /\ holder' \in BOOLEAN /\ accum' \in BOOLEAN
        /\ composer' \in Text /\ disabled' \in BOOLEAN
    BY <2>1, <2>2, BeginType
  <2>4. UNCHANGED <<navVars, queue, drain, aborted, typed>>
    BY <1>5 DEF SubmitSends
  <2>5. PageOK'
    BY <1>1, <2>3, <2>4 DEF PageOK, navVars
  <2>6. RestOK'
    BY <1>1, <2>3, <2>4 DEF RestOK, navVars
  <2> QED BY <2>5, <2>6
<1>6. CASE SubmitCreates
  <2>1. composer \in Msg
    BY <1>6 DEF SubmitCreates, PageOK, Text
  <2>2. PICK i \in Send : send' = [send EXCEPT ![i] = [NoSend EXCEPT !.msg = composer, !.pc =
                     IF pending THEN "creating" ELSE "default"]]
    BY <1>6 DEF SubmitCreates
  <2>3. [NoSend EXCEPT !.msg = composer, !.pc = IF pending THEN "creating" ELSE "default"] \in Calls
    BY <2>1 DEF NoSend, Calls, Text, Page
  <2>4. send' \in [Send -> Calls]
    BY <2>2, <2>3 DEF RestOK
  <2>5. typed' \in [Msg -> [sofar : BOOLEAN, sess : Page, waited : BOOLEAN]]
    BY <1>6, <2>1, WaitedType DEF SubmitCreates
  <2>6. /\ sendInFlight' = TRUE /\ disabled' = TRUE /\ pending' = FALSE
        /\ UNCHANGED <<cur, nav, navs, exists, streamVars, composer, queue, drain, aborted>>
    BY <1>6 DEF SubmitCreates
  <2>7. PageOK'
    BY <1>1, <2>6 DEF PageOK, streamVars
  <2>8. RestOK'
    BY <1>1, <2>4, <2>5, <2>6 DEF RestOK
  <2> QED BY <2>7, <2>8
<1> QED BY <1>2, <1>3, <1>4, <1>5, <1>6 DEF Submit

\* What the user does.
LEMMA UserType ==
  ASSUME PageOK, RestOK, UserStep
  PROVE  PageOK' /\ RestOK'
<1>1. CASE \E m \in Msg : Type(m)
  <2>1. PICK m \in Msg : Type(m)
    BY <1>1
  <2>2. typed' = [typed EXCEPT ![m] = [@ EXCEPT !.sofar = TRUE, !.sess = cur]] /\ composer' = m
    BY <2>1 DEF Type
  <2>3. [typed[m] EXCEPT !.sofar = TRUE, !.sess = cur] \in [sofar : BOOLEAN, sess : Page, waited : BOOLEAN]
    <3>1. typed[m] \in [sofar : BOOLEAN, sess : Page, waited : BOOLEAN]
      BY DEF RestOK
    <3> QED BY <3>1 DEF PageOK
  <2>4. typed' \in [Msg -> [sofar : BOOLEAN, sess : Page, waited : BOOLEAN]]
    BY <2>2, <2>3 DEF RestOK
  <2>5. UNCHANGED <<navVars, streamVars, sendInFlight, mapVars, disabled, queue, timerVars, sendVars>>
    BY <2>1 DEF Type
  <2>6. PageOK'
    BY <2>2, <2>5 DEF PageOK, navVars, streamVars, mapVars, sendVars, Text
  <2>7. RestOK'
    BY <2>4, <2>5 DEF RestOK, navVars, mapVars, timerVars, sendVars
  <2> QED BY <2>6, <2>7
<1>2. CASE PressSend
  BY <1>2, SubmitType DEF PressSend, RestOK
<1>3. CASE \E n \in 1..Len(queue) : Promote(n)
  <2>1. PICK n \in 1..Len(queue) : Promote(n)
    BY <1>3
  <2>2. queue \in Seq(Msg) /\ queue[n] \in Msg
    BY DEF RestOK
  <2>3. queue' \in Seq(Msg)
    BY <2>1, <2>2, WithoutType DEF Promote
  <2>4. UNCHANGED <<navVars, abort, sendInFlight, mapVars, send, typed>>
    BY <2>1 DEF Promote
  <2>5. CASE PromoteLater(n)
    <3>1. promoted' \in Text /\ composer' \in Text /\ autosubmit' \in BOOLEAN
      BY <2>2, <2>5 DEF PromoteLater, Text, RestOK
    <3>2. /\ isStreaming' \in BOOLEAN /\ holder' \in BOOLEAN /\ accum' \in BOOLEAN
          /\ aborted' \subseteq Send /\ drain' \in BOOLEAN /\ disabled' \in BOOLEAN
      <4>1. CASE isStreaming
        BY <2>5, <4>1, StopType DEF PromoteLater
      <4>2. CASE ~isStreaming
        BY <2>5, <4>2 DEF PromoteLater, PageOK, RestOK
      <4> QED BY <4>1, <4>2
    <3>3. PageOK'
      BY <2>4, <3>1, <3>2 DEF PageOK, navVars, mapVars
    <3>4. RestOK'
      BY <2>3, <2>4, <3>1, <3>2 DEF RestOK, navVars, mapVars
    <3> QED BY <3>3, <3>4
  <2>6. CASE PromoteNow(n)
    <3>1. /\ promoted' \in Text /\ composer' \in Text /\ autosubmit' \in BOOLEAN
          /\ UNCHANGED <<isStreaming, holder, accum, aborted, drain, disabled>>
      BY <2>2, <2>6 DEF PromoteNow, Text, RestOK
    <3>2. PageOK'
      BY <2>4, <3>1 DEF PageOK, navVars, mapVars
    <3>3. RestOK'
      BY <2>3, <2>4, <3>1 DEF RestOK, navVars, mapVars
    <3> QED BY <3>2, <3>3
  <2> QED BY <2>1, <2>5, <2>6 DEF Promote
<1>4. CASE \E s \in Session : SelectSession(s)
  <2>1. PICK s \in Session : SelectSession(s)
    BY <1>4
  <2>2. Select(s, bg) /\ bg \in Entries /\ s \in Page
    BY <2>1 DEF SelectSession, PageOK, Page
  <2>3. PageOK'
    BY <2>2, SelectType
  <2>4. navs' \in 0..MaxNavs
    BY <2>1, BoundAssumption DEF SelectSession, RestOK
  <2>5. UNCHANGED <<pending, exists, sendInFlight, polls, queue, timerVars, send, typed>>
    BY <2>1 DEF SelectSession
  <2>6. RestOK'
    BY <2>4, <2>5 DEF RestOK, timerVars
  <2> QED BY <2>3, <2>6
<1>5. CASE NewChat
  <2>1. PageOK'
    BY <1>5, NewChatType DEF NewChat
  <2>2. navs' \in 0..MaxNavs
    BY <1>5, BoundAssumption DEF NewChat, RestOK
  <2>3. pending' = TRUE /\ UNCHANGED <<exists, sendInFlight, polls, queue, timerVars, send, typed>>
    BY <1>5 DEF NewChat
  <2>4. RestOK'
    BY <2>2, <2>3 DEF RestOK, timerVars
  <2> QED BY <2>1, <2>4
<1>6. CASE RecoverTab
  <2>1. aborted' \subseteq Send /\ isStreaming' = FALSE /\ disabled' = FALSE
    BY <1>6, AbortingType DEF RecoverTab
  <2>2. UNCHANGED <<navVars, abort, holder, accum, sendInFlight, mapVars, composer, queue, timerVars, send, typed>>
    BY <1>6 DEF RecoverTab
  <2>3. PageOK'
    BY <2>1, <2>2 DEF PageOK, navVars, mapVars
  <2>4. RestOK'
    BY <2>2 DEF RestOK, navVars, mapVars, timerVars
  <2> QED BY <2>3, <2>4
<1> QED BY <1>1, <1>2, <1>3, <1>4, <1>5, <1>6 DEF UserStep

\* What the timers do.
LEMMA TimerType ==
  ASSUME PageOK, RestOK, TimerStep
  PROVE  PageOK' /\ RestOK'
<1>1. CASE DrainFires
  <2>1. UNCHANGED <<navVars, streamVars, sendInFlight, mapVars, disabled, promoted, sendVars, typed>>
    BY <1>1 DEF DrainFires
  <2>2. composer' \in Text /\ autosubmit' \in BOOLEAN /\ queue' \in Seq(Msg) /\ drain' \in BOOLEAN
    <3>1. CASE isStreaming \/ sendInFlight \/ queue = <<>>
      BY <1>1, <3>1 DEF DrainFires, PageOK, RestOK
    <3>2. CASE ~(isStreaming \/ sendInFlight \/ queue = <<>>)
      <4>1. Head(queue) \in Msg /\ Tail(queue) \in Seq(Msg)
        BY <3>2 DEF RestOK
      <4> QED BY <1>1, <3>2, <4>1 DEF DrainFires, SetComposerAndSend, Text
    <3> QED BY <3>1, <3>2
  <2>3. PageOK'
    BY <2>1, <2>2 DEF PageOK, navVars, streamVars, mapVars, sendVars
  <2>4. RestOK'
    BY <2>1, <2>2 DEF RestOK, navVars, mapVars, sendVars
  <2> QED BY <2>3, <2>4
<1>2. CASE PromotedIsSent
  <2>1. UNCHANGED <<navVars, streamVars, sendInFlight, mapVars, disabled, queue, drain, sendVars, typed>>
    BY <1>2 DEF PromotedIsSent
  <2>2. composer' \in Text /\ autosubmit' \in BOOLEAN /\ promoted' \in Text
    BY <1>2 DEF PromotedIsSent, SetComposerAndSend, RestOK, Text
  <2>3. PageOK'
    BY <2>1, <2>2 DEF PageOK, navVars, streamVars, mapVars, sendVars
  <2>4. RestOK'
    BY <2>1, <2>2 DEF RestOK, navVars, mapVars, sendVars
  <2> QED BY <2>3, <2>4
<1>3. CASE AutoSubmit
  BY <1>3, SubmitType DEF AutoSubmit
<1>4. CASE \E s \in Session : PollEnds(s)
  <2>1. PICK s \in Session : PollEnds(s)
    BY <1>4
  <2>2. polls' \subseteq Session /\ UNCHANGED <<pending, navs, exists, sendInFlight, queue, timerVars, send, typed>>
    BY <2>1 DEF PollEnds, RestOK
  <2>3. PageOK'
    <3>1. CASE UNCHANGED <<cur, nav, streamVars, bg, aborted, composer, disabled>>
      BY <3>1 DEF PageOK, streamVars
    <3>2. CASE Select(s, [bg EXCEPT ![s] = "none"])
      BY <3>2, EntryType, SelectType DEF Page
    <3> QED BY <2>1, <3>1, <3>2 DEF PollEnds
  <2>4. RestOK'
    BY <2>2 DEF RestOK, timerVars
  <2> QED BY <2>3, <2>4
<1>5. CASE Reload
  <2>1. PICK s \in exists : Select(s, bg)
    BY <1>5 DEF Reload
  <2>2. PageOK'
    BY <2>1, SelectType DEF PageOK, RestOK, Page
  <2>3. RestOK'
    BY <1>5 DEF Reload, RestOK, timerVars
  <2> QED BY <2>2, <2>3
<1> QED BY <1>1, <1>2, <1>3, <1>4, <1>5 DEF TimerStep

\* A step that changes one call only.
LEMMA CallStepType ==
  ASSUME PageOK, RestOK, NEW i \in Send,
         NEW c \in {"none", "default", "creating", "listing", "starting", "open", "gone",
                    "leaving", "ended", "refused", "failed", "unsent"},
         send' = [send EXCEPT ![i].pc = c]
  PROVE  send' \in [Send -> Calls]
BY CallType

\* What the network answers.
LEMMA AnswerType ==
  ASSUME PageOK, RestOK, NEW i \in Send, Answer(i)
  PROVE  PageOK' /\ RestOK'
<1>1. CASE DefaultChat(i)
  <2>1. send' \in [Send -> Calls]
    BY <1>1, CallStepType DEF DefaultChat
  <2>2. PageOK'
    BY <1>1, NewChatType DEF DefaultChat
  <2>3. pending' = FALSE /\ UNCHANGED <<navs, exists, sendInFlight, polls, queue, timerVars, typed>>
    BY <1>1 DEF DefaultChat
  <2>4. RestOK'
    BY <2>1, <2>3 DEF RestOK, timerVars
  <2> QED BY <2>2, <2>4
<1>2. CASE \E s \in Session : Created(i, s)
  <2>1. PICK s \in Session : Created(i, s)
    BY <1>2
  <2>2. send' \in [Send -> Calls]
    BY <2>1, CallStepType DEF Created
  <2>3. /\ exists' = exists \cup {s} /\ cur' = s /\ nav' = NoSession
        /\ UNCHANGED <<pending, navs, streamVars, sendInFlight, mapVars, boxVars, timerVars, aborted, typed>>
    BY <2>1 DEF Created
  <2>4. PageOK'
    BY <2>3 DEF PageOK, Page, streamVars, mapVars, boxVars
  <2>5. RestOK'
    BY <2>2, <2>3 DEF RestOK, mapVars, boxVars, timerVars
  <2> QED BY <2>4, <2>5
<1>3. CASE CreateFails(i)
  <2>1. send' \in [Send -> Calls]
    BY <1>3, CallStepType DEF CreateFails, Release
  <2>2. /\ sendInFlight' = FALSE /\ disabled' = FALSE
        /\ UNCHANGED <<navVars, streamVars, mapVars, queue, timerVars, aborted, typed>>
    BY <1>3 DEF CreateFails, Release
  <2>3. composer' \in Text
    BY <1>3 DEF CreateFails, PageOK, Text
  <2>4. PageOK'
    BY <2>2, <2>3 DEF PageOK, navVars, streamVars, mapVars
  <2>5. RestOK'
    BY <2>1, <2>2 DEF RestOK, navVars, mapVars, timerVars
  <2> QED BY <2>4, <2>5
<1>4. CASE Listed(i)
  <2>1. UNCHANGED <<navVars, mapVars, queue, timerVars, aborted, typed>>
    BY <1>4 DEF Listed
  <2>2. /\ send' \in [Send -> Calls] /\ sendInFlight' \in BOOLEAN
        /\ isStreaming' \in BOOLEAN /\ abort' \in Send \cup {0} /\ holder' \in BOOLEAN /\ accum' \in BOOLEAN
        /\ composer' \in Text /\ disabled' \in BOOLEAN
    <3>1. CASE cur = NoSession
      <4>1. send' \in [Send -> Calls]
        BY <1>4, <3>1, CallStepType DEF Listed, Release
      <4> QED BY <1>4, <3>1, <4>1 DEF Listed, Release, streamVars, PageOK
    <3>2. CASE cur # NoSession
      <4>1. send[i].msg \in Text
        BY DEF RestOK, Calls
      <4>2. Begin(i, send[i].msg)
        BY <1>4, <3>2 DEF Listed
      <4> QED BY <4>1, <4>2, BeginType
    <3> QED BY <3>1, <3>2
  <2>3. PageOK'
    BY <2>1, <2>2 DEF PageOK, navVars, mapVars
  <2>4. RestOK'
    BY <2>1, <2>2 DEF RestOK, navVars, mapVars, timerVars
  <2> QED BY <2>3, <2>4
<1>5. CASE Uploaded(i)
  <2>1. send' \in [Send -> Calls]
    BY <1>5, CallStepType DEF Uploaded
  <2>2. /\ abort' = i /\ holder' = TRUE
        /\ UNCHANGED <<navVars, isStreaming, accum, sendInFlight, mapVars, boxVars, timerVars, aborted, typed>>
    BY <1>5 DEF Uploaded
  <2>3. PageOK'
    BY <2>2 DEF PageOK, navVars, mapVars, boxVars
  <2>4. RestOK'
    BY <2>1, <2>2 DEF RestOK, navVars, mapVars, boxVars, timerVars
  <2> QED BY <2>3, <2>4
<1>6. CASE UploadFails(i)
  <2>1. send' \in [Send -> Calls]
    BY <1>6, CallStepType DEF UploadFails
  <2>2. /\ isStreaming' = FALSE /\ sendInFlight' = FALSE /\ disabled' = FALSE
        /\ holder' \in BOOLEAN /\ accum' \in BOOLEAN /\ drain' \in BOOLEAN
        /\ UNCHANGED <<navVars, abort, mapVars, composer, queue, promoted, autosubmit, aborted, typed>>
    BY <1>6 DEF UploadFails, StartDrain, PageOK, RestOK
  <2>3. PageOK'
    BY <2>2 DEF PageOK, navVars, mapVars
  <2>4. RestOK'
    BY <2>1, <2>2 DEF RestOK, navVars, mapVars
  <2> QED BY <2>3, <2>4
<1>7. CASE Refused(i)
  <2>1. send' \in [Send -> Calls]
    BY <1>7, CallStepType DEF Refused
  <2> QED BY <1>7, <2>1, FinallyType DEF Refused, PageOK
<1>8. CASE NotFound(i)
  <2>1. send' \in [Send -> Calls]
    BY <1>8, CallStepType DEF NotFound
  <2>2. /\ exists' \subseteq exists /\ cur' = NoSession /\ nav' = NoSession
        /\ UNCHANGED <<pending, navs, streamVars, sendInFlight, mapVars, boxVars, timerVars, aborted, typed>>
    BY <1>8 DEF NotFound
  <2>3. PageOK'
    BY <2>2 DEF PageOK, Page, streamVars, mapVars, boxVars
  <2>4. RestOK'
    BY <2>1, <2>2 DEF RestOK, mapVars, boxVars, timerVars
  <2> QED BY <2>3, <2>4
<1>9. CASE Relisted(i)
  <2>1. send' \in [Send -> Calls] /\ UNCHANGED <<navs, exists, sendInFlight, polls, queue, timerVars, typed>>
    BY <1>9, CallStepType DEF Relisted
  <2>2. PageOK' /\ pending' \in BOOLEAN
    <3>1. CASE UNCHANGED <<cur, pending, nav, streamVars, bg, aborted, composer, disabled>>
      BY <3>1 DEF PageOK, RestOK, streamVars
    <3>2. CASE \E s \in exists : Select(s, bg) /\ UNCHANGED pending
      <4>1. PICK s \in exists : Select(s, bg) /\ UNCHANGED pending
        BY <3>2
      <4> QED BY <4>1, SelectType DEF PageOK, RestOK, Page
    <3>3. CASE OpenNewChat /\ pending' = TRUE
      BY <3>3, NewChatType
    <3> QED BY <1>9, <3>1, <3>2, <3>3 DEF Relisted
  <2>3. RestOK'
    BY <2>1, <2>2 DEF RestOK, timerVars
  <2> QED BY <2>2, <2>3
<1>10. CASE Leaves(i)
  <2>1. send' \in [Send -> Calls]
    BY <1>10, CallStepType DEF Leaves
  <2> QED BY <1>10, <2>1, FinallyType DEF Leaves, PageOK
<1>11. CASE Done(i)
  <2>1. send[i] \in Calls
    BY DEF RestOK
  <2>2. [send[i] EXCEPT !.done = TRUE] \in Calls
    BY <2>1 DEF Calls
  <2>3. send' \in [Send -> Calls]
    BY <1>11, <2>2 DEF Done, RestOK
  <2>4. bg' = [bg EXCEPT ![send[i].sess] = IF Elsewhere(i) THEN "completed" ELSE "none"]
    BY <1>11 DEF Done
  <2>5. bg' \in Entries
    BY <2>4, EntryType
  <2>6. UNCHANGED <<navVars, streamVars, sendInFlight, polls, boxVars, timerVars, aborted, typed>>
    BY <1>11 DEF Done
  <2>7. PageOK'
    BY <2>5, <2>6 DEF PageOK, navVars, streamVars, boxVars
  <2>8. RestOK'
    BY <2>3, <2>6 DEF RestOK, navVars, boxVars, timerVars
  <2> QED BY <2>7, <2>8
<1>12. CASE Ends(i)
  <2>1. send' \in [Send -> Calls]
    BY <1>12, CallStepType DEF Ends
  <2> QED BY <1>12, <2>1, FinallyType DEF Ends, PageOK
<1>13. CASE Dies(i)
  <2>1. send' \in [Send -> Calls]
    BY <1>13, CallStepType DEF Dies
  <2>2. send[i].sess \in Page
    BY DEF RestOK, Calls
  <2>3. bg[send[i].sess] \in {"none", "running", "completed", "error"}
    BY <2>2 DEF PageOK, Entries
  <2>4. bg' = [bg EXCEPT ![send[i].sess] =
                 IF Background(i) /\ bg[send[i].sess] = "running" THEN "error" ELSE bg[send[i].sess]]
    BY <1>13 DEF Dies
  <2>5. bg' \in Entries
    BY <2>3, <2>4, EntryType
  <2> QED BY <1>13, <2>1, <2>5, FinallyType DEF Dies
<1> QED BY <1>1, <1>2, <1>3, <1>4, <1>5, <1>6, <1>7, <1>8, <1>9, <1>10, <1>11, <1>12, <1>13 DEF Answer

LEMMA TypeStep == TypeOK /\ [Next]_vars => TypeOK'
<1> SUFFICES ASSUME PageOK, RestOK, [Next]_vars PROVE PageOK' /\ RestOK'
  BY TypeParts, TypePartsNext
<1>1. CASE UserStep
  BY <1>1, UserType
<1>2. CASE TimerStep
  BY <1>2, TimerType
<1>3. CASE HistoryArrives \/ HistoryFails
  <2>1. /\ nav' = NoSession
        /\ UNCHANGED <<cur, pending, navs, exists, streamVars, sendInFlight, boxVars, timerVars, sendVars, typed>>
    BY <1>3 DEF HistoryArrives, HistoryFails
  <2>2. bg' \in Entries /\ polls' \subseteq Session
    <3>1. CASE HistoryArrives
      <4>1. nav \in Session
        BY <3>1 DEF HistoryArrives, PageOK, Page
      <4>2. bg[nav] \in {"none", "running", "completed", "error"}
        BY <4>1 DEF PageOK, Entries, Page
      <4>3. bg' = [bg EXCEPT ![nav] = IF bg[nav] \in {"completed", "error"} THEN "none" ELSE bg[nav]]
        BY <3>1 DEF HistoryArrives, CheckBackground
      <4>4. bg' \in Entries
        BY <4>2, <4>3, EntryType
      <4>5. polls' \subseteq Session
        BY <3>1, <4>1 DEF HistoryArrives, CheckBackground, RestOK
      <4> QED BY <4>4, <4>5
    <3>2. CASE HistoryFails
      BY <3>2 DEF HistoryFails, mapVars, PageOK, RestOK
    <3> QED BY <1>3, <3>1, <3>2
  <2>3. PageOK'
    BY <2>1, <2>2 DEF PageOK, Page, streamVars, boxVars, sendVars
  <2>4. RestOK'
    BY <2>1, <2>2 DEF RestOK, boxVars, timerVars, sendVars
  <2> QED BY <2>3, <2>4
<1>4. ASSUME NEW i \in Send, Answer(i) PROVE PageOK' /\ RestOK'
  BY <1>4, AnswerType
<1>5. ASSUME NEW i \in Send, Delta(i) PROVE PageOK' /\ RestOK'
  <2>1. send[i].sess \in Page
    BY DEF RestOK, Calls
  <2>2. bg[send[i].sess] \in {"none", "running", "completed", "error"}
    BY <2>1 DEF PageOK, Entries
  <2>3. bg' = [bg EXCEPT ![send[i].sess] =
                 IF Elsewhere(i) /\ bg[send[i].sess] = "none" THEN "running" ELSE bg[send[i].sess]]
    BY <1>5 DEF Delta, NewEntry
  <2>4. bg' \in Entries
    BY <2>2, <2>3, EntryType
  <2>5. /\ accum' = TRUE
        /\ UNCHANGED <<navVars, isStreaming, abort, holder, sendInFlight, polls, boxVars, timerVars, sendVars, typed>>
    BY <1>5 DEF Delta
  <2>6. PageOK'
    BY <2>4, <2>5 DEF PageOK, navVars, boxVars, sendVars
  <2>7. RestOK'
    BY <2>5 DEF RestOK, navVars, boxVars, timerVars, sendVars
  <2> QED BY <2>6, <2>7
<1>6. CASE UNCHANGED vars
  BY <1>6 DEF vars, PageOK, RestOK, navVars, streamVars, mapVars, boxVars, timerVars, sendVars
<1> QED BY <1>1, <1>2, <1>3, <1>4, <1>5, <1>6 DEF Next

LEMMA InitTypes == Init => TypeOK
<1> SUFFICES ASSUME Init PROVE TypeOK
  OBVIOUS
<1>1. NoSend \in Calls /\ Untyped \in [sofar : BOOLEAN, sess : Page, waited : BOOLEAN]
  BY DEF NoSend, Untyped, Calls, Page, Text
<1>2. PageOK
  BY SessionAssumption DEF Init, PageOK, Page, Entries, Text
<1>3. RestOK
  <2>1. pending \in BOOLEAN
    BY DEF Init
  <2>2. navs \in 0..MaxNavs /\ exists \subseteq Session /\ queue \in Seq(Msg) /\ promoted \in Text
    BY SessionAssumption, BoundAssumption DEF Init, Text
  <2>3. send \in [Send -> Calls] /\ typed \in [Msg -> [sofar : BOOLEAN, sess : Page, waited : BOOLEAN]]
    BY <1>1 DEF Init
  <2>4. sendInFlight = FALSE /\ polls = {} /\ drain = FALSE /\ autosubmit = FALSE
    BY DEF Init
  <2> QED BY <2>1, <2>2, <2>3, <2>4 DEF RestOK
<1> QED BY <1>2, <1>3, TypeParts

\* The types of the page's state.
THEOREM TypeCorrect == Spec => []TypeOK
BY InitTypes, TypeStep, PTL DEF Spec

-----------------------------------------------------------------------------
(* The queue as a set without repetition.                                  *)

LEMMA ElemsAppend ==
  ASSUME NEW q \in Seq(Msg), NEW m \in Msg
  PROVE  /\ Elems(Append(q, m)) = Elems(q) \cup {m}
         /\ Distinct(q) /\ m \notin Elems(q) => Distinct(Append(q, m))
<1>1. /\ Len(Append(q, m)) = Len(q) + 1 /\ Len(q) \in Nat
      /\ \A k \in 1..Len(q) : Append(q, m)[k] = q[k]
      /\ Append(q, m)[Len(q) + 1] = m
  <2>1. Len(Append(q, m)) = Len(q) + 1 /\ Len(q) \in Nat
    OBVIOUS
  <2>2. ASSUME NEW k \in 1..Len(q) PROVE Append(q, m)[k] = q[k]
    OBVIOUS
  <2>3. Append(q, m)[Len(q) + 1] = m
    OBVIOUS
  <2> QED BY <2>1, <2>2, <2>3
<1>2. \A k \in 1..Len(q) + 1 : k \in 1..Len(q) \/ k = Len(q) + 1
  BY <1>1
<1>3. Elems(Append(q, m)) = Elems(q) \cup {m}
  <2>1. ASSUME NEW e \in Elems(Append(q, m)) PROVE e \in Elems(q) \cup {m}
    BY <1>1, <1>2 DEF Elems
  <2>2. ASSUME NEW e \in Elems(q) \cup {m} PROVE e \in Elems(Append(q, m))
    <3>1. CASE e \in Elems(q)
      <4>1. PICK k \in 1..Len(q) : e = q[k]
        BY <3>1 DEF Elems
      <4>2. k \in 1..Len(Append(q, m)) /\ e = Append(q, m)[k]
        BY <1>1, <4>1
      <4> QED BY <4>2 DEF Elems
    <3>2. CASE e = m
      <4>1. Len(q) + 1 \in 1..Len(Append(q, m))
        BY <1>1
      <4> QED BY <1>1, <3>2, <4>1 DEF Elems
    <3> QED BY <3>1, <3>2
  <2> QED BY <2>1, <2>2
<1>4. ASSUME Distinct(q), m \notin Elems(q) PROVE Distinct(Append(q, m))
  <2> SUFFICES ASSUME NEW j \in 1..Len(q) + 1, NEW k \in 1..Len(q) + 1, Append(q, m)[j] = Append(q, m)[k]
               PROVE  j = k
    BY <1>1 DEF Distinct
  <2>1. \A l \in 1..Len(q) : q[l] # m
    BY <1>4 DEF Elems
  <2> QED BY <1>1, <1>2, <1>4, <2>1 DEF Distinct
<1> QED BY <1>3, <1>4

LEMMA ElemsTail ==
  ASSUME NEW q \in Seq(Msg), q # <<>>
  PROVE  /\ Head(q) \in Elems(q)
         /\ Elems(Tail(q)) \subseteq Elems(q)
         /\ Distinct(q) => Distinct(Tail(q)) /\ Head(q) \notin Elems(Tail(q))
<1>1. Len(q) \in Nat \ {0} /\ Len(Tail(q)) = Len(q) - 1
  OBVIOUS
<1>2. \A k \in 1..Len(Tail(q)) : Tail(q)[k] = q[k + 1] /\ k + 1 \in 1..Len(q) /\ k \in Int
  BY <1>1
<1>3. 1 \in 1..Len(q) /\ Head(q) = q[1]
  BY <1>1
<1>4. Head(q) \in Elems(q) /\ Elems(Tail(q)) \subseteq Elems(q)
  BY <1>2, <1>3 DEF Elems
<1>5. ASSUME Distinct(q) PROVE Distinct(Tail(q)) /\ Head(q) \notin Elems(Tail(q))
  <2>1. Distinct(Tail(q))
    <3> SUFFICES ASSUME NEW j \in 1..Len(Tail(q)), NEW k \in 1..Len(Tail(q)), Tail(q)[j] = Tail(q)[k]
                 PROVE  j = k
      BY DEF Distinct
    <3>1. j + 1 = k + 1
      BY <1>2, <1>5 DEF Distinct
    <3> QED BY <1>2, <3>1
  <2>2. ASSUME NEW k \in 1..Len(Tail(q)), Head(q) = Tail(q)[k] PROVE FALSE
    <3>1. 1 = k + 1
      BY <1>2, <1>3, <1>5, <2>2 DEF Distinct
    <3> QED BY <3>1
  <2> QED BY <2>1, <2>2 DEF Elems
<1> QED BY <1>4, <1>5

LEMMA ElemsWithout ==
  ASSUME queue \in Seq(Msg), NEW n \in 1..Len(queue)
  PROVE  /\ queue[n] \in Elems(queue)
         /\ Elems(Without(n)) \subseteq Elems(queue)
         /\ Distinct(queue) => Distinct(Without(n)) /\ queue[n] \notin Elems(Without(n))
<1> DEFINE at(k) == IF k < n THEN k ELSE k + 1
<1>1. Len(queue) \in Nat /\ n \in Int
  OBVIOUS
<1>2. Len(Without(n)) = Len(queue) - 1
  BY WithoutType
<1>3. \A k \in 1..Len(Without(n)) : at(k) \in 1..Len(queue) /\ at(k) # n
  BY <1>1, <1>2
<1>4. \A k \in 1..Len(Without(n)) : Without(n)[k] = queue[at(k)]
  BY <1>2 DEF Without
<1>5. \A j, k \in 1..Len(Without(n)) : at(j) = at(k) => j = k
  BY <1>1
<1> HIDE DEF at
<1>6. queue[n] \in Elems(queue) /\ Elems(Without(n)) \subseteq Elems(queue)
  BY <1>3, <1>4 DEF Elems
<1>7. ASSUME Distinct(queue) PROVE Distinct(Without(n)) /\ queue[n] \notin Elems(Without(n))
  <2>1. Distinct(Without(n))
    BY <1>3, <1>4, <1>5, <1>7 DEF Distinct
  <2>2. queue[n] \notin Elems(Without(n))
    BY <1>3, <1>4, <1>7 DEF Distinct, Elems
  <2> QED BY <2>1, <2>2
<1> QED BY <1>6, <1>7

-----------------------------------------------------------------------------
(* The steps that move no message to another place.                        *)

\* No message changes its place, except that the composer may be emptied and that
\* a call may give its message up.
Quiet ==
  /\ UNCHANGED <<queue, promoted, typed>>
  /\ composer' \in {composer, NoMsg}
  /\ isStreaming' => isStreaming
  /\ \A i \in Send :
       /\ Flight(i)' => Flight(i) /\ sendInFlight'
       /\ Handed(i)' => Handed(i)
       /\ send'[i].msg = send[i].msg /\ send'[i].sess = send[i].sess
  /\ \/ composer' = NoMsg \/ cur' = NoSession
     \/ \E i \in Send : send'[i].pc = "listing"
     \/ cur' = cur /\ \A i \in Send : send[i].pc # "listing"

LEMMA QuietKeeps ==
  ASSUME Parts, Quiet
  PROVE  Parts'
<1>1. OneFlight'
  BY DEF Parts, OneFlight, Quiet
<1>2. Apart'
  BY MsgAssumption DEF Parts, Apart, Quiet
<1>3. Unseen'
  BY MsgAssumption DEF Parts, Unseen, Quiet
<1>4. Waiting'
  BY DEF Parts, Waiting, Quiet
<1>5. InPlace'
  BY DEF Parts, InPlace, Quiet
<1> QED BY <1>1, <1>2, <1>3, <1>4, <1>5 DEF Parts

LEMMA PageKeeps ==
  ASSUME Smooth => Parts,
         UNCHANGED <<send, sendInFlight, queue, promoted, typed>>,
         composer' \in {composer, NoMsg}, isStreaming' => isStreaming,
         composer' = NoMsg \/ cur' = cur \/ cur' = NoSession
  PROVE  Smooth' => Parts'
<1> SUFFICES ASSUME Smooth, Parts PROVE Parts'
  BY DEF Smooth
<1>1. \A i \in Send : /\ Flight(i)' => Flight(i) /\ sendInFlight'
                      /\ Handed(i)' => Handed(i)
  BY DEF Parts, OneFlight, Flight, Handed, Posted
<1>2. Quiet
  BY <1>1 DEF Quiet
<1> QED BY <1>2, QuietKeeps

LEMMA OneCall ==
  ASSUME RestOK, NEW i \in Send, NEW c, send' = [send EXCEPT ![i].pc = c]
  PROVE  /\ send'[i].pc = c
         /\ \A k \in Send : /\ send'[k].msg = send[k].msg /\ send'[k].sess = send[k].sess
                            /\ k # i => send'[k].pc = send[k].pc
<1>1. \A k \in Send : send'[k] = IF k = i THEN [send[i] EXCEPT !.pc = c] ELSE send[k]
  BY DEF RestOK
<1>2. send[i] \in Calls
  BY DEF RestOK
<1>3. /\ [send[i] EXCEPT !.pc = c].pc = c
      /\ [send[i] EXCEPT !.pc = c].msg = send[i].msg
      /\ [send[i] EXCEPT !.pc = c].sess = send[i].sess
  BY <1>2 DEF Calls
<1> QED BY <1>1, <1>3

LEMMA CallKeeps ==
  ASSUME RestOK, Smooth => Parts, NEW i \in Send, NEW c,
         send' = [send EXCEPT ![i].pc = c], send[i].pc # "unsent",
         c \in {"default", "creating", "listing"} => Flight(i),
         c \in {"starting", "open", "gone", "leaving", "ended", "refused"} => Handed(i),
         UNCHANGED <<queue, promoted, typed>>,
         sendInFlight' = sendInFlight \/ (Flight(i) /\ c = "failed"),
         composer' \in {composer, NoMsg}, isStreaming' => isStreaming,
         \/ composer' = NoMsg \/ cur' = NoSession \/ c = "listing"
         \/ cur' = cur /\ send[i].pc # "listing"
  PROVE  Smooth' => Parts'
<1>1. /\ send'[i].pc = c
      /\ \A k \in Send : /\ send'[k].msg = send[k].msg /\ send'[k].sess = send[k].sess
                         /\ k # i => send'[k].pc = send[k].pc
  BY OneCall
<1> SUFFICES ASSUME Smooth, Parts PROVE Parts'
  BY <1>1 DEF Smooth
<1>2. \A k \in Send : /\ Flight(k)' => Flight(k)
                      /\ Handed(k)' => Handed(k)
  BY <1>1 DEF Flight, Handed, Posted
<1>3. ASSUME NEW k \in Send, Flight(k)' PROVE sendInFlight'
  <2>1. Flight(k) /\ sendInFlight
    BY <1>2, <1>3 DEF Parts, OneFlight
  <2>2. CASE k = i
    <3>1. c # "failed"
      BY <1>1, <1>3, <2>2 DEF Flight
    <3> QED BY <2>1, <3>1
  <2>3. CASE k # i
    <3>1. ~Flight(i)
      BY <2>1, <2>3 DEF Parts, OneFlight
    <3> QED BY <2>1, <3>1
  <2> QED BY <2>2, <2>3
<1>4. \/ composer' = NoMsg \/ cur' = NoSession
      \/ \E k \in Send : send'[k].pc = "listing"
      \/ cur' = cur /\ \A k \in Send : send[k].pc # "listing"
  BY <1>1
<1>5. Quiet
  BY <1>1, <1>2, <1>3, <1>4 DEF Quiet
<1> QED BY <1>5, QuietKeeps

\* Leaving a session, and the end of a reader.
LEMMA SelectIsQuiet ==
  ASSUME NEW s, NEW m, Select(s, m)
  PROVE  composer' = NoMsg /\ (isStreaming' => isStreaming)
BY DEF Select, DetachFrom, EmptyBox, Idle, streamVars

LEMMA NewChatIsQuiet ==
  ASSUME OpenNewChat
  PROVE  composer' = NoMsg /\ cur' = NoSession /\ (isStreaming' => isStreaming)
BY DEF OpenNewChat, DetachFrom, EmptyBox, Idle, streamVars

LEMMA FinallyIsQuiet ==
  ASSUME NEW i, Finally(i)
  PROVE  /\ UNCHANGED <<sendInFlight, composer, cur, queue, promoted, typed>>
         /\ isStreaming' => isStreaming
BY DEF Finally, Idle, navVars

LEMMA QuietPageSteps ==
  ASSUME RestOK, Smooth => Parts,
         \/ SubmitStops /\ UNCHANGED promoted
         \/ SubmitIgnored /\ UNCHANGED promoted
         \/ \E s \in Session : SelectSession(s) \/ PollEnds(s)
         \/ NewChat \/ RecoverTab \/ Reload \/ HistoryArrives \/ HistoryFails
         \/ \E i \in Send : Delta(i)
  PROVE  Smooth' => Parts'
<1>1. CASE SubmitStops /\ UNCHANGED promoted
  <2>1. /\ UNCHANGED <<cur, send, sendInFlight, queue, promoted, typed, composer>> /\ isStreaming' = FALSE
    BY <1>1 DEF SubmitStops, Stop, Idle, navVars
  <2> QED BY <2>1, PageKeeps
<1>2. CASE SubmitIgnored /\ UNCHANGED promoted
  <2>1. UNCHANGED <<cur, send, sendInFlight, queue, promoted, typed, composer, isStreaming>>
    BY <1>2 DEF SubmitIgnored, navVars, streamVars, boxVars, sendVars
  <2> QED BY <2>1, PageKeeps
<1>3. ASSUME NEW s \in Session, SelectSession(s) PROVE Smooth' => Parts'
  <2>1. Select(s, bg) /\ UNCHANGED <<send, sendInFlight, queue, promoted, typed>>
    BY <1>3 DEF SelectSession, timerVars
  <2> QED BY <2>1, SelectIsQuiet, PageKeeps
<1>4. ASSUME NEW s \in Session, PollEnds(s) PROVE Smooth' => Parts'
  <2>1. UNCHANGED <<send, sendInFlight, queue, promoted, typed>>
    BY <1>4 DEF PollEnds, timerVars
  <2>2. CASE UNCHANGED <<cur, nav, streamVars, bg, aborted, composer, disabled>>
    <3>1. UNCHANGED <<cur, isStreaming, composer>>
      BY <2>2 DEF streamVars
    <3> QED BY <2>1, <3>1, PageKeeps
  <2>3. CASE Select(s, [bg EXCEPT ![s] = "none"])
    BY <2>1, <2>3, SelectIsQuiet, PageKeeps
  <2> QED BY <1>4, <2>2, <2>3 DEF PollEnds
<1>5. CASE NewChat
  <2>1. OpenNewChat /\ UNCHANGED <<send, sendInFlight, queue, promoted, typed>>
    BY <1>5 DEF NewChat, timerVars
  <2> QED BY <2>1, NewChatIsQuiet, PageKeeps
<1>6. CASE RecoverTab
  <2>1. /\ UNCHANGED <<cur, send, sendInFlight, queue, promoted, typed, composer>> /\ isStreaming' = FALSE
    BY <1>6 DEF RecoverTab, navVars, timerVars
  <2> QED BY <2>1, PageKeeps
<1>7. CASE Reload
  <2>1. PICK s \in exists : Select(s, bg)
    BY <1>7 DEF Reload
  <2>2. UNCHANGED <<send, sendInFlight, queue, promoted, typed>>
    BY <1>7 DEF Reload, timerVars
  <2> QED BY <2>1, <2>2, SelectIsQuiet, PageKeeps
<1>8. CASE HistoryArrives \/ HistoryFails
  <2>1. UNCHANGED <<cur, send, sendInFlight, queue, promoted, typed, composer, isStreaming>>
    BY <1>8 DEF HistoryArrives, HistoryFails, streamVars, boxVars, timerVars, sendVars
  <2> QED BY <2>1, PageKeeps
<1>9. ASSUME NEW i \in Send, Delta(i) PROVE Smooth' => Parts'
  <2>1. UNCHANGED <<cur, send, sendInFlight, queue, promoted, typed, composer, isStreaming>>
    BY <1>9 DEF Delta, navVars, boxVars, timerVars, sendVars
  <2> QED BY <2>1, PageKeeps
<1> QED BY <1>1, <1>2, <1>3, <1>4, <1>5, <1>6, <1>7, <1>8, <1>9

\* The same for a call that has its message already.
LEMMA ReaderKeeps ==
  ASSUME RestOK, Smooth => Parts, NEW i \in Send, NEW c \in {"open", "gone", "leaving", "ended", "refused"},
         send' = [send EXCEPT ![i].pc = c], send[i].pc \in {"starting", "open", "gone", "leaving"},
         UNCHANGED <<sendInFlight, queue, promoted, typed>>,
         composer' \in {composer, NoMsg}, isStreaming' => isStreaming,
         composer' = NoMsg \/ cur' = NoSession \/ cur' = cur
  PROVE  Smooth' => Parts'
<1>1. Handed(i) /\ send[i].pc # "unsent" /\ send[i].pc # "listing"
  BY DEF Handed, Posted
<1>2. c \notin {"default", "creating", "listing"}
  OBVIOUS
<1> QED BY <1>1, <1>2, CallKeeps

LEMMA QuietCallSteps ==
  ASSUME RestOK, Smooth => Parts, NEW i \in Send,
         Answer(i), ~(send[i].pc = "listing" /\ cur # NoSession)
  PROVE  Smooth' => Parts'
<1>1. CASE DefaultChat(i)
  <2>1. /\ send[i].pc = "default" /\ send' = [send EXCEPT ![i].pc = "creating"] /\ OpenNewChat
        /\ UNCHANGED <<sendInFlight, queue, promoted, typed>>
    BY <1>1 DEF DefaultChat, timerVars
  <2> QED BY <2>1, NewChatIsQuiet, CallKeeps DEF Flight
<1>2. CASE \E s \in Session : Created(i, s)
  <2>1. /\ send[i].pc = "creating" /\ send' = [send EXCEPT ![i].pc = "listing"]
        /\ UNCHANGED <<sendInFlight, queue, promoted, typed, composer, isStreaming>>
    BY <1>2 DEF Created, boxVars, streamVars, timerVars
  <2> QED BY <2>1, CallKeeps DEF Flight
<1>3. CASE CreateFails(i)
  <2>1. /\ send[i].pc \in {"default", "creating"} /\ send' = [send EXCEPT ![i].pc = "failed"]
        /\ composer' \in {composer, NoMsg}
        /\ UNCHANGED <<cur, queue, promoted, typed, isStreaming>>
    BY <1>3 DEF CreateFails, Release, navVars, streamVars, timerVars
  <2> QED BY <2>1, CallKeeps DEF Flight
<1>4. CASE Listed(i)
  <2>1. /\ send[i].pc = "listing" /\ cur = NoSession /\ Release(i) /\ UNCHANGED <<streamVars, composer>>
        /\ UNCHANGED <<cur, queue, promoted, typed>>
    BY <1>4 DEF Listed, navVars, timerVars
  <2>2. send' = [send EXCEPT ![i].pc = "failed"] /\ UNCHANGED isStreaming
    BY <2>1 DEF Release, streamVars
  <2> QED BY <2>1, <2>2, CallKeeps DEF Flight
<1>5. CASE Uploaded(i)
  <2>1. /\ send[i].pc = "starting" /\ send' = [send EXCEPT ![i].pc = "open"]
        /\ UNCHANGED <<cur, sendInFlight, queue, promoted, typed, composer, isStreaming>>
    BY <1>5 DEF Uploaded, boxVars, navVars, timerVars
  <2> QED BY <2>1, ReaderKeeps
<1>6. CASE UploadFails(i)
  <2>1. send' = [send EXCEPT ![i].pc = "unsent"]
    BY <1>6 DEF UploadFails
  <2>2. send'[i].pc = "unsent"
    BY <2>1, OneCall
  <2> QED BY <2>2 DEF Smooth
<1>7. CASE Refused(i)
  <2>1. send[i].pc = "open" /\ send' = [send EXCEPT ![i].pc = "refused"] /\ Finally(i)
    BY <1>7 DEF Refused
  <2> QED BY <2>1, FinallyIsQuiet, ReaderKeeps
<1>8. CASE NotFound(i)
  <2>1. /\ send[i].pc = "open" /\ send' = [send EXCEPT ![i].pc = "gone"] /\ cur' = NoSession
        /\ UNCHANGED <<sendInFlight, queue, promoted, typed, composer, isStreaming>>
    BY <1>8 DEF NotFound, boxVars, streamVars, timerVars
  <2> QED BY <2>1, ReaderKeeps
<1>9. CASE Relisted(i)
  <2>1. /\ send[i].pc = "gone" /\ send' = [send EXCEPT ![i].pc = "leaving"]
        /\ UNCHANGED <<sendInFlight, queue, promoted, typed>>
    BY <1>9 DEF Relisted, timerVars
  <2>2. /\ composer' = NoMsg \/ UNCHANGED <<cur, composer>>
        /\ isStreaming' => isStreaming
    <3>1. CASE UNCHANGED <<cur, pending, nav, streamVars, bg, aborted, composer, disabled>>
      BY <3>1 DEF streamVars
    <3>2. ASSUME NEW s \in exists, Select(s, bg) PROVE composer' = NoMsg /\ (isStreaming' => isStreaming)
      BY <3>2, SelectIsQuiet
    <3>3. CASE OpenNewChat
      BY <3>3, NewChatIsQuiet
    <3> QED BY <1>9, <3>1, <3>2, <3>3 DEF Relisted
  <2> QED BY <2>1, <2>2, ReaderKeeps
<1>10. CASE Leaves(i)
  <2>1. send[i].pc = "leaving" /\ send' = [send EXCEPT ![i].pc = "refused"] /\ Finally(i)
    BY <1>10 DEF Leaves
  <2> QED BY <2>1, FinallyIsQuiet, ReaderKeeps
<1>11. CASE Done(i)
  <2>1. \A k \in Send : send'[k] = IF k = i THEN [send[i] EXCEPT !.done = TRUE] ELSE send[k]
    BY <1>11 DEF Done, RestOK
  <2>2. send[i] \in Calls
    BY DEF RestOK
  <2>3. \A k \in Send : send'[k].pc = send[k].pc /\ send'[k].msg = send[k].msg /\ send'[k].sess = send[k].sess
    BY <2>1, <2>2 DEF Calls
  <2>4. UNCHANGED <<cur, sendInFlight, queue, promoted, typed, composer, isStreaming>>
    BY <1>11 DEF Done, navVars, boxVars, streamVars, timerVars
  <2> SUFFICES ASSUME Smooth, Parts PROVE Parts'
    BY <2>3 DEF Smooth
  <2>5. \A k \in Send : /\ Flight(k)' => Flight(k) /\ sendInFlight'
                        /\ Handed(k)' => Handed(k)
    BY <2>3, <2>4 DEF Parts, OneFlight, Flight, Handed, Posted
  <2>6. (\E k \in Send : send'[k].pc = "listing") \/ \A k \in Send : send[k].pc # "listing"
    BY <2>3
  <2>7. Quiet
    BY <2>3, <2>4, <2>5, <2>6 DEF Quiet
  <2> QED BY <2>7, QuietKeeps
<1>12. CASE Ends(i)
  <2>1. send[i].pc = "open" /\ send' = [send EXCEPT ![i].pc = "ended"] /\ Finally(i)
    BY <1>12 DEF Ends
  <2> QED BY <2>1, FinallyIsQuiet, ReaderKeeps
<1>13. CASE Dies(i)
  <2>1. send[i].pc = "open" /\ send' = [send EXCEPT ![i].pc = "ended"] /\ Finally(i)
    BY <1>13 DEF Dies
  <2> QED BY <2>1, FinallyIsQuiet, ReaderKeeps
<1> QED BY <1>1, <1>2, <1>3, <1>4, <1>5, <1>6, <1>7, <1>8, <1>9, <1>10, <1>11, <1>12, <1>13 DEF Answer

-----------------------------------------------------------------------------
(* The steps that move a message.                                          *)

\* Between the queue, the promoted request and the composer.
LEMMA MoveKeeps ==
  ASSUME Smooth => Parts, UNCHANGED <<send, typed, sendInFlight>>, isStreaming' => isStreaming,
         Elems(queue') \subseteq Elems(queue), Distinct(queue) => Distinct(queue'),
         promoted' \in {NoMsg, promoted} \cup Elems(queue),
         composer' \in {NoMsg, promoted} \cup Elems(queue),
         Parts => promoted' = NoMsg \/ promoted' \notin Elems(queue'),
         Parts => composer' = NoMsg \/ composer' \notin {promoted'} \cup Elems(queue'),
         composer' # NoMsg => ~sendInFlight
  PROVE  Smooth' => Parts'
<1> SUFFICES ASSUME Smooth, Parts PROVE Parts'
  BY DEF Smooth
<1>1. \A i \in Send : (Flight(i)' <=> Flight(i)) /\ (Handed(i)' <=> Handed(i))
  BY DEF Flight, Handed, Posted
<1>2. OneFlight'
  BY <1>1 DEF Parts, OneFlight
<1>3. composer' # NoMsg => \A i \in Send : ~Flight(i)
  BY DEF Parts, OneFlight
<1>4. Apart'
  BY <1>1, MsgAssumption DEF Parts, Apart
<1>5. Unseen'
  BY <1>1, MsgAssumption DEF Parts, Unseen
<1>6. Waiting'
  BY <1>1 DEF Parts, Waiting
<1>7. InPlace'
  <2>1. composer' # NoMsg => typed[composer'].waited
    BY DEF Parts, Waiting
  <2> QED BY <1>1, <2>1 DEF Parts, InPlace
<1> QED BY <1>2, <1>4, <1>5, <1>6, <1>7 DEF Parts

\* Into a call of its own.
LEMMA BeginKeeps ==
  ASSUME RestOK, Smooth => Parts, NEW i \in Send, NEW m \in Msg, Begin(i, m),
         UNCHANGED <<queue, promoted, typed>>,
         send[i].pc \in {"none", "listing"},
         Parts => /\ \A k \in Send : Flight(k) => k = i
                  /\ \A k \in Send : Handed(k) => send[k].msg # m
                  /\ m \notin {promoted} \cup Elems(queue)
                  /\ typed[m].sofar
                  /\ typed[m].waited \/ typed[m].sess = cur
  PROVE  Smooth' => Parts'
<1>1. /\ send'[i].pc \in {"starting", "open"} /\ send'[i].sess = cur /\ send'[i].msg = m
      /\ \A k \in Send : k # i => send'[k] = send[k]
  BY DEF Begin, RestOK
<1>2. composer' = NoMsg
  BY DEF Begin, EmptyBox
<1> SUFFICES ASSUME Smooth, Parts PROVE Parts'
  BY <1>1 DEF Smooth
<1>3. \A k \in Send : ~Flight(k)'
  BY <1>1 DEF Flight
<1>4. Handed(i)' /\ \A k \in Send : k # i => (Handed(k)' <=> Handed(k))
  BY <1>1 DEF Handed, Posted
<1>5. OneFlight'
  BY <1>3 DEF OneFlight
<1>6. Apart'
  BY <1>1, <1>2, <1>3, <1>4, MsgAssumption DEF Parts, Apart
<1>7. Unseen'
  BY <1>1, <1>2, <1>3, <1>4, MsgAssumption DEF Parts, Unseen
<1>8. Waiting'
  BY <1>3 DEF Parts, Waiting
<1>9. InPlace'
  BY <1>1, <1>2, <1>4 DEF Parts, InPlace
<1> QED BY <1>5, <1>6, <1>7, <1>8, <1>9 DEF Parts

\* What a step on typed[m] leaves of the other fields.
LEMMA WaitedFields ==
  ASSUME RestOK, NEW m \in Msg, typed' = Waited(m)
  PROVE  /\ typed'[m].waited
         /\ \A x \in Msg : /\ typed'[x].sofar = typed[x].sofar /\ typed'[x].sess = typed[x].sess
                           /\ x # m => typed'[x] = typed[x]
<1>1. typed[m] \in [sofar : BOOLEAN, sess : Page, waited : BOOLEAN]
  BY DEF RestOK
<1>2. \A x \in Msg : typed'[x] = IF x = m THEN [typed[m] EXCEPT !.waited = TRUE] ELSE typed[x]
  BY DEF RestOK, Waited
<1>3. /\ [typed[m] EXCEPT !.waited = TRUE].waited
      /\ [typed[m] EXCEPT !.waited = TRUE].sofar = typed[m].sofar
      /\ [typed[m] EXCEPT !.waited = TRUE].sess = typed[m].sess
  BY <1>1
<1> QED BY <1>2, <1>3

\* Into the queue.
LEMMA QueuesKeeps ==
  ASSUME TypeOK, Smooth => Parts, SubmitQueues, UNCHANGED promoted
  PROVE  Smooth' => Parts'
<1>1. /\ isStreaming /\ composer \in Msg /\ queue \in Seq(Msg) /\ composer' = NoMsg
      /\ queue' = Append(queue, composer) /\ typed' = Waited(composer)
      /\ UNCHANGED <<send, isStreaming, sendInFlight, cur>>
  BY DEF SubmitQueues, TypeOK, Text, streamVars, sendVars, navVars
<1>2. RestOK
  BY TypeParts
<1> SUFFICES ASSUME Smooth, Parts PROVE Parts'
  BY <1>1 DEF Smooth
<1>3. /\ typed'[composer].waited
      /\ \A x \in Msg : /\ typed'[x].sofar = typed[x].sofar /\ typed'[x].sess = typed[x].sess
                        /\ x # composer => typed'[x] = typed[x]
  BY <1>1, <1>2, WaitedFields
<1>4. Elems(queue') = Elems(queue) \cup {composer}
  BY <1>1, ElemsAppend
<1>5. composer # promoted /\ composer \notin Elems(queue) /\ Distinct(queue)
  BY <1>1, MsgAssumption DEF Parts, Apart
<1>6. Distinct(queue')
  BY <1>1, <1>5, ElemsAppend
<1>7. \A i \in Send : ~Flight(i) /\ ~Flight(i)' /\ (Handed(i)' <=> Handed(i))
  BY <1>1 DEF Parts, OneFlight, Flight, Handed, Posted
<1>8. OneFlight'
  BY <1>7 DEF OneFlight
<1>9. Apart'
  BY <1>1, <1>4, <1>5, <1>6, <1>7, MsgAssumption DEF Parts, Apart
<1>10. Unseen'
  BY <1>1, <1>3, <1>4, <1>7, MsgAssumption DEF Parts, Unseen
<1>11. Elems(queue) \subseteq Msg /\ (promoted # NoMsg => promoted \in Msg)
  BY <1>1 DEF Elems, TypeOK, Text
<1>12. Waiting'
  BY <1>3, <1>4, <1>7, <1>11 DEF Parts, Waiting
<1>13. InPlace'
  BY <1>1, <1>3, <1>7 DEF Parts, InPlace, Apart
<1> QED BY <1>8, <1>9, <1>10, <1>12, <1>13 DEF Parts

\* Into a call that creates its session first.
LEMMA CreatesKeeps ==
  ASSUME TypeOK, Smooth => Parts, SubmitCreates, UNCHANGED promoted
  PROVE  Smooth' => Parts'
<1>1. /\ ~isStreaming /\ ~sendInFlight /\ composer \in Msg /\ sendInFlight' = TRUE
      /\ typed' = Waited(composer)
      /\ UNCHANGED <<isStreaming, cur, composer, queue>>
  BY DEF SubmitCreates, TypeOK, Text, streamVars
<1>2. RestOK
  BY TypeParts
<1>3. PICK i \in Send : /\ NextSend(i)
                        /\ send' = [send EXCEPT ![i] = [NoSend EXCEPT !.msg = composer, !.pc =
                                      IF pending THEN "creating" ELSE "default"]]
  BY DEF SubmitCreates
<1>4. send[i].pc = "none"
  BY <1>3 DEF NextSend, Send
<1>5. /\ send'[i].pc \in {"creating", "default"} /\ send'[i].msg = composer
      /\ \A k \in Send : k # i => send'[k] = send[k]
  BY <1>2, <1>3 DEF RestOK, NoSend
<1> SUFFICES ASSUME Smooth, Parts PROVE Parts'
  BY <1>4, <1>5 DEF Smooth
<1>6. /\ typed'[composer].waited
      /\ \A x \in Msg : /\ typed'[x].sofar = typed[x].sofar /\ typed'[x].sess = typed[x].sess
                        /\ x # composer => typed'[x] = typed[x]
  BY <1>1, <1>2, WaitedFields
<1>7. /\ \A k \in Send : ~Flight(k) /\ (Flight(k)' <=> k = i)
      /\ \A k \in Send : Handed(k)' <=> Handed(k) /\ k # i
  BY <1>1, <1>4, <1>5 DEF Parts, OneFlight, Flight, Handed, Posted
<1>8. OneFlight'
  BY <1>1, <1>7 DEF OneFlight
<1>9. Apart'
  BY <1>1, <1>5, <1>7, MsgAssumption DEF Parts, Apart
<1>10. typed[composer].sofar
  BY <1>1 DEF Parts, Unseen
<1>11. Unseen'
  BY <1>1, <1>5, <1>6, <1>7, <1>10 DEF Parts, Unseen
<1>12. Elems(queue) \subseteq Msg /\ (promoted # NoMsg => promoted \in Msg)
  BY DEF Elems, TypeOK, Text
<1>13. Waiting'
  BY <1>1, <1>5, <1>6, <1>7, <1>12 DEF Parts, Waiting
<1>14. InPlace'
  BY <1>1, <1>5, <1>6, <1>7 DEF Parts, InPlace, Apart
<1> QED BY <1>8, <1>9, <1>11, <1>13, <1>14 DEF Parts

\* Into the composer, by the user.
LEMMA TypeKeeps ==
  ASSUME TypeOK, Smooth => Parts, NEW m \in Msg, Type(m)
  PROVE  Smooth' => Parts'
<1>1. /\ ~typed[m].sofar /\ composer' = m
      /\ typed' = [typed EXCEPT ![m] = [@ EXCEPT !.sofar = TRUE, !.sess = cur]]
      /\ UNCHANGED <<cur, isStreaming, sendInFlight, queue, promoted, send>>
  BY DEF Type, navVars, streamVars, timerVars, sendVars
<1>2. typed \in [Msg -> [sofar : BOOLEAN, sess : Page, waited : BOOLEAN]]
  BY DEF TypeOK
<1>3. /\ typed'[m].sofar /\ typed'[m].sess = cur /\ typed'[m].waited = typed[m].waited
      /\ \A x \in Msg : x # m => typed'[x] = typed[x]
  BY <1>1, <1>2
<1> SUFFICES ASSUME Smooth, Parts PROVE Parts'
  BY <1>1 DEF Smooth
<1>4. /\ m # promoted /\ m \notin Elems(queue)
      /\ \A i \in Send : Flight(i) \/ Handed(i) => send[i].msg # m
  BY <1>1 DEF Parts, Unseen
<1>5. \A i \in Send : (Flight(i)' <=> Flight(i)) /\ (Handed(i)' <=> Handed(i))
  BY <1>1 DEF Flight, Handed, Posted
<1>6. OneFlight'
  BY <1>1, <1>5 DEF Parts, OneFlight
<1>7. Apart'
  BY <1>1, <1>4, <1>5 DEF Parts, Apart
<1>8. Unseen'
  BY <1>1, <1>3, <1>4, <1>5 DEF Parts, Unseen
<1>9. Elems(queue) \subseteq Msg /\ (promoted # NoMsg => promoted \in Msg)
  BY DEF Elems, TypeOK, Text
<1>10. \A i \in Send : Handed(i) \/ Flight(i) => send[i].msg \in Msg
  BY DEF Parts, Apart
<1>11. Waiting'
  BY <1>1, <1>3, <1>4, <1>5, <1>9, <1>10 DEF Parts, Waiting
<1>12. InPlace'
  BY <1>1, <1>3, <1>4, <1>5, <1>10 DEF Parts, InPlace
<1> QED BY <1>6, <1>7, <1>8, <1>11, <1>12 DEF Parts

\* Out of the queue, by a click.
LEMMA PromoteKeeps ==
  ASSUME TypeOK, Smooth => Parts, NEW n \in 1..Len(queue), Promote(n)
  PROVE  Smooth' => Parts'
<1>1. /\ queue \in Seq(Msg) /\ queue' = Without(n)
      /\ UNCHANGED <<send, typed, sendInFlight>>
  BY DEF Promote, TypeOK
<1>2. /\ queue[n] \in Elems(queue)
      /\ Elems(queue') \subseteq Elems(queue)
      /\ Distinct(queue) => Distinct(queue') /\ queue[n] \notin Elems(queue')
  BY <1>1, ElemsWithout
<1>3. Parts => Distinct(queue) /\ (promoted # NoMsg => promoted \notin Elems(queue))
  BY DEF Parts, Apart
<1>4. CASE PromoteLater(n)
  <2>1. promoted' = queue[n] /\ composer' = NoMsg /\ (isStreaming' => isStreaming)
    BY <1>4 DEF PromoteLater, Stop, Idle
  <2> QED BY <1>1, <1>2, <1>3, <2>1, MoveKeeps
<1>5. CASE PromoteNow(n)
  <2>1. composer' = queue[n] /\ ~sendInFlight /\ UNCHANGED <<promoted, isStreaming>>
    BY <1>5 DEF PromoteNow
  <2>2. Parts => composer' \notin {promoted'} \cup Elems(queue')
    BY <1>2, <1>3, <2>1, MsgAssumption DEF Elems, TypeOK, Text
  <2> QED BY <1>1, <1>2, <1>3, <2>1, <2>2, MoveKeeps
<1> QED BY <1>4, <1>5 DEF Promote

\* Out of the queue, or out of the promoted request, by a timer.
LEMMA TimerMoveKeeps ==
  ASSUME TypeOK, Smooth => Parts, DrainFires \/ PromotedIsSent
  PROVE  Smooth' => Parts'
<1>1. UNCHANGED <<cur, send, typed, sendInFlight, isStreaming>>
  BY DEF DrainFires, PromotedIsSent, navVars, streamVars, sendVars
<1>2. Parts => Distinct(queue) /\ (promoted # NoMsg => promoted \notin Elems(queue))
  BY DEF Parts, Apart
<1>3. CASE DrainFires
  <2>1. promoted' = promoted
    BY <1>3 DEF DrainFires
  <2>2. CASE isStreaming \/ sendInFlight \/ queue = <<>>
    BY <1>1, <1>3, <2>1, <2>2, PageKeeps DEF DrainFires
  <2>3. CASE ~(isStreaming \/ sendInFlight \/ queue = <<>>)
    <3>1. /\ queue \in Seq(Msg) /\ composer' = Head(queue) /\ queue' = Tail(queue) /\ ~sendInFlight
      BY <1>3, <2>3 DEF DrainFires, SetComposerAndSend, TypeOK
    <3>2. /\ Head(queue) \in Elems(queue) /\ Elems(queue') \subseteq Elems(queue)
          /\ Distinct(queue) => Distinct(queue') /\ Head(queue) \notin Elems(queue')
      BY <2>3, <3>1, ElemsTail
    <3>3. Parts => composer' \notin {promoted'} \cup Elems(queue')
      <4>1. Elems(queue) \subseteq Msg
        BY <3>1 DEF Elems
      <4>2. Head(queue) # NoMsg
        BY <3>2, <4>1, MsgAssumption
      <4> QED BY <1>2, <2>1, <3>1, <3>2, <4>2
    <3>4. Parts => promoted' = NoMsg \/ promoted' \notin Elems(queue')
      BY <1>2, <2>1, <3>2
    <3> QED BY <1>1, <2>1, <3>1, <3>2, <3>3, <3>4, MoveKeeps
  <2> QED BY <2>2, <2>3
<1>4. CASE PromotedIsSent
  <2>1. /\ promoted # NoMsg /\ ~sendInFlight /\ composer' = promoted /\ promoted' = NoMsg /\ queue' = queue
    BY <1>4 DEF PromotedIsSent, SetComposerAndSend
  <2> QED BY <1>1, <1>2, <2>1, MoveKeeps
<1> QED BY <1>3, <1>4

\* Out of the composer, into a call of its own.
LEMMA SendsKeeps ==
  ASSUME TypeOK, Smooth => Parts, SubmitSends, UNCHANGED promoted
  PROVE  Smooth' => Parts'
<1>1. /\ ~sendInFlight /\ composer \in Msg /\ cur # NoSession
      /\ UNCHANGED <<queue, promoted, typed>>
  BY DEF SubmitSends, TypeOK, Text
<1>2. PICK i \in Send : NextSend(i) /\ Begin(i, composer)
  BY DEF SubmitSends
<1>3. send[i].pc = "none"
  BY <1>2 DEF NextSend, Send
<1>4. ASSUME Parts
      PROVE  /\ \A k \in Send : ~Flight(k)
             /\ \A k \in Send : Handed(k) => send[k].msg # composer
             /\ composer \notin {promoted} \cup Elems(queue)
             /\ typed[composer].sofar
             /\ typed[composer].waited \/ typed[composer].sess = cur
  <2>1. \A k \in Send : ~Flight(k)
    BY <1>1, <1>4 DEF Parts, OneFlight
  <2>2. /\ \A k \in Send : Handed(k) => send[k].msg # composer
        /\ composer \notin {promoted} \cup Elems(queue)
    BY <1>1, <1>4, MsgAssumption DEF Parts, Apart
  <2>3. typed[composer].sofar
    BY <1>1, <1>4 DEF Parts, Unseen
  <2>4. typed[composer].waited \/ typed[composer].sess = cur
    BY <1>1, <1>4, <2>1, MsgAssumption DEF Parts, InPlace, Flight
  <2> QED BY <2>1, <2>2, <2>3, <2>4
<1>5. RestOK
  BY TypeParts
<1> QED BY <1>1, <1>2, <1>3, <1>4, <1>5, BeginKeeps

\* From the call that created a session into the request.
LEMMA ListedKeeps ==
  ASSUME TypeOK, Smooth => Parts, NEW i \in Send, Listed(i), cur # NoSession
  PROVE  Smooth' => Parts'
<1>1. /\ send[i].pc = "listing" /\ Begin(i, send[i].msg)
      /\ UNCHANGED <<queue, promoted, typed>>
  BY DEF Listed, timerVars
<1>2. RestOK
  BY TypeParts
<1>3. ASSUME Parts
      PROVE  /\ send[i].msg \in Msg
             /\ \A k \in Send : Flight(k) => k = i
             /\ \A k \in Send : Handed(k) => send[k].msg # send[i].msg
             /\ send[i].msg \notin {promoted} \cup Elems(queue)
             /\ typed[send[i].msg].sofar
             /\ typed[send[i].msg].waited
  <2>1. Flight(i)
    BY <1>1 DEF Flight
  <2>2. /\ send[i].msg \in Msg \ ({promoted} \cup Elems(queue))
        /\ \A k \in Send : Handed(k) => send[k].msg # send[i].msg
    BY <1>3, <2>1 DEF Parts, Apart
  <2>3. /\ \A k \in Send : Flight(k) => k = i
        /\ typed[send[i].msg].waited
    BY <1>3, <2>1 DEF Parts, OneFlight, Waiting
  <2>4. typed[send[i].msg].sofar
    BY <1>3, <2>1, <2>2 DEF Parts, Unseen
  <2> QED BY <2>2, <2>3, <2>4
<1>4. CASE send[i].msg \in Msg
  BY <1>1, <1>2, <1>3, <1>4, BeginKeeps
<1>5. CASE send[i].msg \notin Msg
  <2>1. ~Smooth
    BY <1>3, <1>5
  <2>2. \A k \in Send : send[k].pc = "unsent" => send'[k].pc = "unsent"
    BY <1>1, <1>2 DEF Begin, RestOK
  <2> QED BY <2>1, <2>2 DEF Smooth
<1> QED BY <1>4, <1>5

-----------------------------------------------------------------------------
(* The invariant and what follows from it.                                 *)

LEMMA PartsStep == IInv /\ [Next]_vars => (Smooth' => Parts')
<1> SUFFICES ASSUME TypeOK, Smooth => Parts, [Next]_vars PROVE Smooth' => Parts'
  BY DEF IInv
<1>1. RestOK
  BY TypeParts
<1>2. ASSUME Submit PROVE Smooth' => Parts'
  <2>1. promoted' = promoted
    BY <1>2 DEF Submit
  <2> QED BY <1>1, <1>2, <2>1, QuietPageSteps, QueuesKeeps, CreatesKeeps, SendsKeeps DEF Submit
<1>3. CASE UserStep
  <2>1. ASSUME NEW m \in Msg, Type(m) PROVE Smooth' => Parts'
    BY <2>1, TypeKeeps
  <2>2. ASSUME NEW n \in 1..Len(queue), Promote(n) PROVE Smooth' => Parts'
    BY <2>2, PromoteKeeps
  <2>3. ASSUME (\E s \in Session : SelectSession(s)) \/ NewChat \/ RecoverTab PROVE Smooth' => Parts'
    BY <1>1, <2>3, QuietPageSteps
  <2> QED BY <1>2, <1>3, <2>1, <2>2, <2>3 DEF UserStep, PressSend
<1>4. CASE TimerStep
  <2>1. ASSUME (\E s \in Session : PollEnds(s)) \/ Reload PROVE Smooth' => Parts'
    BY <1>1, <2>1, QuietPageSteps
  <2> QED BY <1>2, <1>4, <2>1, TimerMoveKeeps DEF TimerStep, AutoSubmit
<1>5. CASE HistoryArrives \/ HistoryFails
  BY <1>1, <1>5, QuietPageSteps
<1>6. ASSUME NEW i \in Send, Delta(i) PROVE Smooth' => Parts'
  BY <1>1, <1>6, QuietPageSteps
<1>7. ASSUME NEW i \in Send, Answer(i) PROVE Smooth' => Parts'
  <2>1. CASE send[i].pc = "listing" /\ cur # NoSession
    <3>1. Listed(i)
      BY <1>7, <2>1 DEF Answer, DefaultChat, Created, CreateFails, Uploaded, UploadFails, Refused,
                        NotFound, Relisted, Leaves, Done, Ends, Dies
    <3> QED BY <2>1, <3>1, ListedKeeps
  <2>2. CASE ~(send[i].pc = "listing" /\ cur # NoSession)
    BY <1>1, <1>7, <2>2, QuietCallSteps
  <2> QED BY <2>1, <2>2
<1>8. CASE UNCHANGED vars
  <2>1. UNCHANGED <<cur, send, sendInFlight, queue, promoted, typed, composer, isStreaming>>
    BY <1>8 DEF vars, navVars, streamVars, boxVars, timerVars, sendVars
  <2> QED BY <2>1, PageKeeps
<1> QED BY <1>3, <1>4, <1>5, <1>6, <1>7, <1>8 DEF Next

LEMMA PartsInit == Init => Parts
<1> SUFFICES ASSUME Init PROVE Parts
  OBVIOUS
<1>1. /\ \A i \in Send : ~Flight(i) /\ ~Handed(i)
      /\ composer = NoMsg /\ promoted = NoMsg /\ Elems(queue) = {} /\ Distinct(queue)
  BY DEF Init, NoSend, Flight, Handed, Posted, Elems, Distinct
<1> QED BY <1>1, MsgAssumption DEF Parts, OneFlight, Apart, Unseen, Waiting, InPlace

\* Every message is in one place, and what does not wait is where it was typed.
THEOREM PlacesHold == Spec => []IInv
<1>1. Init => TypeOK
  BY InitTypes
<1>2. Init => IInv
  BY <1>1, PartsInit DEF IInv
<1>3. IInv /\ [Next]_vars => IInv'
  BY TypeStep, PartsStep DEF IInv
<1> QED BY <1>2, <1>3, PTL DEF Spec

\* What the user typed once is posted once.
THEOREM SentOnceHolds == Spec => []SentOnce
<1>1. IInv => SentOnce
  BY DEF IInv, SentOnce, Parts, Apart, Handed
<1> QED BY <1>1, PlacesHold, PTL

\* A message that did not wait is posted to the session it was typed in.
THEOREM OwnSessionHolds == Spec => []OwnSession
<1>1. IInv => OwnSession
  BY DEF IInv, OwnSession, Parts, InPlace, Handed
<1> QED BY <1>1, PlacesHold, PTL

-----------------------------------------------------------------------------
(* The Stop button.  While the user stays and no session is found deleted, *)
(* the page shows no session until one is created, and that one from then  *)
(* on; so no reader finds the user elsewhere, no stream goes to the        *)
(* background, and every end of a call makes the page idle.                *)

\* The call has no session yet.
Early(c) == c \in {"none", "default", "creating", "listing", "failed"}
Creating(i) == send[i].pc \in {"default", "creating"}

\* A session that was known is listed or is a call's, and a call keeps its session.
Lasting ==
  /\ Known \subseteq exists \cup {send[i].sess : i \in Send}
  /\ \A i \in Send : Early(send[i].pc) <=> send[i].sess = NoSession
  /\ \A i \in Send : send[i].pc \in {"gone", "leaving"} => send[i].sess \notin exists

\* Before there is a session, and after.
Unopened ==
  /\ ~isStreaming
  /\ \A i \in Send : send[i].pc \in {"none", "default", "creating", "failed"}
  /\ \A i \in Send : Creating(i) => sendInFlight /\ ~pending
  /\ \A i, k \in Send : Creating(i) /\ Creating(k) => i = k
Opened ==
  /\ ~pending
  /\ \A i \in Send : ~Creating(i)
  /\ isStreaming => \E i \in Send : Live(i)

Settled ==
  /\ nav = NoSession /\ polls = {} /\ \A s \in Page : bg[s] = "none"
  /\ \A i \in Send : send[i].sess \in {NoSession, cur}
  /\ IF cur = NoSession THEN Unopened ELSE Opened

Steady == TypeOK /\ Lasting /\ (Undisturbed => Settled)

\* Only the call i changes, to the stage c and the session s.
Moves(i, c, s) ==
  /\ send'[i].pc = c /\ send'[i].sess = s
  /\ \A k \in Send : k # i => send'[k].pc = send[k].pc /\ send'[k].sess = send[k].sess

\* What lasts, and that a disturbance does.
LEMMA PageLasts ==
  ASSUME TypeOK, Lasting, UNCHANGED <<send, exists>>, navs' \in {navs, navs + 1}
  PROVE  Lasting' /\ (Undisturbed' => Undisturbed)
<1>1. Lasting'
  BY DEF Lasting
<1>2. navs' = 0 => navs = 0
  BY DEF TypeOK
<1> QED BY <1>1, <1>2 DEF Undisturbed

LEMMA CallLasts ==
  ASSUME TypeOK, Lasting, NEW i \in Send, NEW c, NEW s \in Page, Moves(i, c, s),
         send[i].sess \in {NoSession, s}, Early(c) <=> s = NoSession,
         exists \subseteq exists' \cup {s}, exists' \subseteq Session,
         \A k \in Send : send[k].sess \in exists' => send[k].sess \in exists,
         c \in {"gone", "leaving"} => s \notin exists',
         UNCHANGED navs
  PROVE  Lasting' /\ (Undisturbed' => Undisturbed)
<1>1. \A k \in Send : send'[k].sess = send[k].sess \/ (k = i /\ send[k].sess = NoSession)
  BY DEF Moves
<1>2. NoSession \notin Known /\ NoSession \notin exists'
  BY SessionAssumption
<1>3. Known \subseteq exists' \cup {send'[k].sess : k \in Send}
  <2>1. ASSUME NEW x \in Known, x \notin exists' PROVE \E k \in Send : x = send'[k].sess
    <3>1. CASE x \in exists
      BY <2>1, <3>1 DEF Moves
    <3>2. CASE x \notin exists
      <4>1. PICK k \in Send : x = send[k].sess
        BY <3>2 DEF Lasting
      <4> QED BY <1>1, <1>2, <4>1
    <3> QED BY <3>1, <3>2
  <2> QED BY <2>1
<1>4. \A k \in Send : Early(send'[k].pc) <=> send'[k].sess = NoSession
  BY DEF Moves, Lasting
<1>5. \A k \in Send : send'[k].pc \in {"gone", "leaving"} => send'[k].sess \notin exists'
  BY DEF Moves, Lasting
<1>6. Lasting'
  BY <1>3, <1>4, <1>5 DEF Lasting
<1>7. ASSUME Undisturbed' PROVE Undisturbed
  <2>1. navs = 0
    BY <1>7 DEF Undisturbed
  <2>2. ASSUME NEW x \in Known PROVE x \in exists
    <3>1. x \in exists'
      BY <1>7 DEF Undisturbed
    <3>2. CASE \E k \in Send : x = send[k].sess
      BY <3>1, <3>2
    <3>3. CASE ~\E k \in Send : x = send[k].sess
      BY <3>3 DEF Lasting
    <3> QED BY <3>2, <3>3
  <2>3. ASSUME NEW k \in Send PROVE send[k].sess \in exists \cup {NoSession}
    <3>1. send'[k].sess \in exists' \cup {NoSession}
      BY <1>7 DEF Undisturbed
    <3> QED BY <1>1, <3>1
  <2> QED BY <2>1, <2>2, <2>3 DEF Undisturbed
<1> QED BY <1>6, <1>7

\* The calls of a page that stays.
LEMMA PageSettles ==
  ASSUME Settled, UNCHANGED <<send, nav, polls, bg, cur, pending, sendInFlight>>, isStreaming' => isStreaming
  PROVE  Settled'
BY DEF Settled, Unopened, Opened, Creating, Live

LEMMA OpenSettles ==
  ASSUME Settled, cur # NoSession, NEW i \in Send, NEW c, NEW s, Moves(i, c, s),
         UNCHANGED <<nav, polls, bg, cur, pending>>,
         s \in {NoSession, cur}, c \notin {"default", "creating"},
         isStreaming' => c \in {"starting", "open"}
  PROVE  Settled'
<1>1. \A k \in Send : send'[k].sess \in {NoSession, cur} /\ ~Creating(k)'
  BY DEF Moves, Settled, Opened, Creating
<1>2. isStreaming' => Live(i)'
  BY DEF Moves, Live
<1> QED BY <1>1, <1>2 DEF Settled, Opened

LEMMA StageMoves ==
  ASSUME TypeOK, NEW i \in Send, NEW c, send' = [send EXCEPT ![i].pc = c]
  PROVE  Moves(i, c, send[i].sess) /\ send[i].sess \in Page
<1>1. RestOK
  BY TypeParts
<1>2. send[i] \in Calls
  BY <1>1 DEF RestOK
<1> QED BY <1>1, <1>2, OneCall DEF Moves, Calls

\* A step of a call with the page where it is.
LEMMA StageSteady ==
  ASSUME Steady, NEW i \in Send, NEW c, send' = [send EXCEPT ![i].pc = c],
         Early(c) <=> Early(send[i].pc), c \notin {"gone", "leaving"},
         UNCHANGED <<exists, navs>>
  PROVE  Lasting' /\ (Undisturbed' => Undisturbed) /\ Moves(i, c, send[i].sess)
<1>1. Moves(i, c, send[i].sess) /\ send[i].sess \in Page
  BY StageMoves DEF Steady
<1>2. exists' \subseteq Session
  BY DEF Steady, TypeOK
<1>3. TypeOK /\ Lasting /\ (Early(c) <=> send[i].sess = NoSession)
  BY DEF Steady, Lasting
<1> QED BY <1>1, <1>2, <1>3, CallLasts

\* The end of a reader, or of an upload, on the page of its session.
LEMMA EndSteady ==
  ASSUME Steady, NEW i \in Send, NEW c \in {"ended", "refused", "unsent"},
         send' = [send EXCEPT ![i].pc = c], ~Early(send[i].pc),
         UNCHANGED <<cur, pending, nav, navs, exists, polls>>,
         Undisturbed => bg' = bg /\ ~isStreaming'
  PROVE  Lasting' /\ (Undisturbed' => Settled')
<1>1. Lasting' /\ (Undisturbed' => Undisturbed) /\ Moves(i, c, send[i].sess)
  BY StageSteady DEF Early
<1>2. ASSUME Undisturbed PROVE Settled'
  <2>1. Settled /\ send[i].sess \in {NoSession, cur} /\ send[i].sess # NoSession
    BY <1>2 DEF Steady, Settled, Lasting
  <2> QED BY <1>1, <1>2, <2>1, OpenSettles
<1> QED BY <1>1, <1>2

\* The end of the finally block.
LEMMA FinallySteady ==
  ASSUME Steady, NEW i \in Send, NEW c \in {"ended", "refused"},
         send' = [send EXCEPT ![i].pc = c], ~Early(send[i].pc), Finally(i),
         Undisturbed => bg' = bg
  PROVE  Lasting' /\ (Undisturbed' => Settled')
<1>1. UNCHANGED <<cur, pending, nav, navs, exists, polls>>
  BY DEF Finally, navVars
<1>2. ASSUME Undisturbed PROVE ~isStreaming'
  <2>1. send[i].sess = cur /\ send[i].sess # NoSession /\ send[i].sess \in Page
    <3>1. send[i].sess \in {NoSession, cur} /\ send[i].sess # NoSession
      BY <1>2 DEF Steady, Settled, Lasting
    <3> QED BY <3>1 DEF Steady, TypeOK
  <2>2. bg[send[i].sess] = "none"
    BY <1>2, <2>1 DEF Steady, Settled
  <2> QED BY <2>1, <2>2 DEF Background, Elsewhere, Finally, Idle
<1> QED BY <1>1, <1>2, EndSteady

\* A call begins, in the session of the page.
LEMMA BeginSteady ==
  ASSUME Steady, NEW i \in Send, NEW m \in Text, Begin(i, m), Early(send[i].pc), cur # NoSession,
         UNCHANGED <<cur, pending, nav, navs, exists, polls, bg>>
  PROVE  Lasting' /\ (Undisturbed' => Settled')
<1> DEFINE c == IF m \in Slow THEN "starting" ELSE "open"
<1>1. Moves(i, c, cur) /\ cur \in Page
  BY DEF Steady, TypeOK, Begin, Moves
<1>2. send[i].sess = NoSession /\ ~Early(c) /\ c \in {"starting", "open"}
  BY DEF Steady, Lasting, Early
<1>3. Lasting' /\ (Undisturbed' => Undisturbed)
  <2>1. TypeOK /\ Lasting /\ exists' \subseteq Session
    BY DEF Steady, TypeOK
  <2> HIDE DEF c
  <2> QED BY <1>1, <1>2, <2>1, CallLasts
<1>4. ASSUME Undisturbed PROVE Settled'
  <2>1. Settled
    BY <1>4 DEF Steady
  <2> HIDE DEF c
  <2> QED BY <1>1, <1>2, <2>1, OpenSettles
<1> QED BY <1>3, <1>4

\* Steps of the page alone.
LEMMA PageSteady ==
  ASSUME Steady, UNCHANGED <<send, exists, navs, nav, polls, bg, cur, pending, sendInFlight>>,
         isStreaming' => isStreaming
  PROVE  Lasting' /\ (Undisturbed' => Settled')
BY PageLasts, PageSettles DEF Steady

LEMMA SubmitSteady ==
  ASSUME Steady, Submit
  PROVE  Lasting' /\ (Undisturbed' => Settled')
<1>1. UNCHANGED <<bg, polls>>
  BY DEF Submit, mapVars
<1>2. CASE SubmitQueues \/ SubmitStops \/ SubmitIgnored
  <2>1. UNCHANGED <<send, exists, navs, nav, cur, pending, sendInFlight>>
    BY <1>2 DEF SubmitQueues, SubmitStops, SubmitIgnored, navVars, sendVars
  <2>2. isStreaming' => isStreaming
    <3>1. CASE SubmitQueues \/ SubmitIgnored
      BY <3>1 DEF SubmitQueues, SubmitIgnored, streamVars
    <3>2. CASE SubmitStops
      BY <3>2 DEF SubmitStops
    <3> QED BY <1>2, <3>1, <3>2
  <2> QED BY <1>1, <2>1, <2>2, PageSteady
<1>3. CASE SubmitSends
  <2>1. PICK i \in Send : NextSend(i) /\ Begin(i, composer)
    BY <1>3 DEF SubmitSends
  <2>2. send[i].pc = "none" /\ cur # NoSession /\ UNCHANGED <<cur, pending, nav, navs, exists>>
    <3>1. i >= i
      BY BoundAssumption DEF Send
    <3> QED BY <1>3, <2>1, <3>1 DEF SubmitSends, NextSend, navVars
  <2>3. Early(send[i].pc) /\ composer \in Text
    BY <2>2 DEF Early, Steady, TypeOK
  <2> QED BY <1>1, <2>1, <2>2, <2>3, BeginSteady
<1>4. CASE SubmitCreates
  <2>1. PICK i \in Send : /\ NextSend(i)
                          /\ send' = [send EXCEPT ![i] = [NoSend EXCEPT !.msg = composer, !.pc =
                                        IF pending THEN "creating" ELSE "default"]]
    BY <1>4 DEF SubmitCreates
  <2> DEFINE c == IF pending THEN "creating" ELSE "default"
  <2>2. Moves(i, c, NoSession) /\ c \in {"creating", "default"}
    BY <2>1 DEF NoSend, Moves, Steady, TypeOK
  <2> HIDE DEF c
  <2>3. send[i].pc = "none"
    <3>1. i >= i
      BY BoundAssumption DEF Send
    <3> QED BY <2>1, <3>1 DEF NextSend
  <2>4. /\ ~isStreaming /\ ~sendInFlight /\ (cur = NoSession \/ pending)
        /\ sendInFlight' = TRUE /\ pending' = FALSE
        /\ UNCHANGED <<cur, nav, navs, exists, isStreaming>>
    BY <1>4 DEF SubmitCreates, streamVars
  <2>5. Lasting' /\ (Undisturbed' => Undisturbed)
    <3>1. TypeOK /\ Lasting /\ exists' \subseteq Session /\ NoSession \in Page
      BY <2>4 DEF Steady, TypeOK, Page
    <3>2. send[i].sess = NoSession /\ Early(c)
      BY <2>2, <2>3 DEF Steady, Lasting, Early
    <3> QED BY <2>2, <2>4, <3>1, <3>2, CallLasts
  <2>6. ASSUME Undisturbed PROVE Settled'
    <3>1. Settled /\ cur = NoSession /\ Unopened
      BY <1>4, <2>4, <2>6 DEF Steady, Settled, Opened
    <3>2. \A k \in Send : ~Creating(k)
      BY <2>4, <3>1 DEF Unopened
    <3>3. \A k \in Send : Creating(k)' => k = i
      BY <2>2, <3>2 DEF Moves, Creating
    <3>4. \A k \in Send : /\ send'[k].pc \in {"none", "default", "creating", "failed"}
                          /\ send'[k].sess \in {NoSession, cur}
      BY <2>2, <3>1 DEF Moves, Unopened, Settled
    <3>5. Unopened'
      BY <2>4, <3>3, <3>4 DEF Unopened
    <3> QED BY <1>1, <2>4, <3>1, <3>4, <3>5 DEF Settled
  <2> QED BY <2>5, <2>6
<1> QED BY <1>2, <1>3, <1>4 DEF Submit

\* A session is created, or not, for the one call that waits for it.
LEMMA CreateSteady ==
  ASSUME Steady, NEW i \in Send, Creating(i),
         DefaultChat(i) \/ (\E s \in Session : Created(i, s)) \/ CreateFails(i)
  PROVE  Lasting' /\ (Undisturbed' => Settled')
<1>0. TypeOK /\ Lasting /\ send[i].sess = NoSession
  BY DEF Steady, Lasting, Creating, Early
<1>1. ASSUME Undisturbed
      PROVE  /\ cur = NoSession /\ Unopened /\ ~pending
             /\ nav = NoSession /\ polls = {} /\ \A s \in Page : bg[s] = "none"
             /\ \A k \in Send : Creating(k) => k = i
             /\ \A k \in Send : send[k].sess = NoSession
  BY <1>1 DEF Steady, Settled, Opened, Unopened
<1>2. CASE DefaultChat(i)
  <2>1. /\ send' = [send EXCEPT ![i].pc = "creating"] /\ OpenNewChat /\ pending' = FALSE
        /\ UNCHANGED <<navs, exists, sendInFlight, polls>>
    BY <1>2 DEF DefaultChat
  <2>2. Lasting' /\ (Undisturbed' => Undisturbed) /\ Moves(i, "creating", send[i].sess)
    BY <2>1, StageSteady DEF Early, Creating
  <2>3. ASSUME Undisturbed PROVE Settled'
    <3>1. cur' = NoSession /\ nav' = NoSession /\ bg' = bg /\ ~isStreaming'
      BY <1>1, <2>1, <2>3 DEF OpenNewChat, DetachFrom, Unopened, streamVars
    <3>2. \A k \in Send : /\ Creating(k)' => k = i
                          /\ send'[k].sess = NoSession
                          /\ send'[k].pc \in {"none", "default", "creating", "failed"}
      BY <1>1, <2>2, <2>3 DEF Moves, Creating, Unopened
    <3>3. sendInFlight'
      BY <1>1, <2>1, <2>3 DEF Unopened
    <3>4. Unopened'
      BY <2>1, <3>1, <3>2, <3>3 DEF Unopened
    <3> QED BY <1>1, <2>1, <2>3, <3>1, <3>2, <3>4 DEF Settled
  <2> QED BY <2>2, <2>3
<1>3. ASSUME NEW s \in Session, Created(i, s) PROVE Lasting' /\ (Undisturbed' => Settled')
  <2>1. /\ send' = [send EXCEPT ![i].pc = "listing"] /\ s \notin exists
        /\ \A k \in Send : send[k].sess # s
        /\ exists' = exists \cup {s} /\ cur' = s /\ nav' = NoSession
        /\ UNCHANGED <<pending, navs, isStreaming, bg, polls>>
    BY <1>3 DEF Created, streamVars, mapVars
  <2>2. Moves(i, "listing", NoSession) /\ NoSession \in Page
    BY <1>0, <2>1, StageMoves
  <2>3. Lasting' /\ (Undisturbed' => Undisturbed)
    <3>1. exists \subseteq exists' \cup {NoSession} /\ exists' \subseteq Session
      BY <1>0, <2>1 DEF TypeOK
    <3>2. \A k \in Send : send[k].sess \in exists' => send[k].sess \in exists
      BY <2>1
    <3>3. Early("listing") <=> NoSession = NoSession
      BY DEF Early
    <3>4. "listing" \in {"gone", "leaving"} => NoSession \notin exists'
      OBVIOUS
    <3>5. send[i].sess \in {NoSession, NoSession}
      BY <1>0
    <3> QED BY <1>0, <2>1, <2>2, <3>1, <3>2, <3>3, <3>4, <3>5, CallLasts
  <2>4. ASSUME Undisturbed PROVE Settled'
    <3>1. s # NoSession
      BY SessionAssumption
    <3>2. \A k \in Send : ~Creating(k)' /\ send'[k].sess = NoSession
      BY <1>1, <2>2, <2>4 DEF Moves, Creating
    <3>3. Opened'
      BY <1>1, <2>1, <2>4, <3>2 DEF Opened, Unopened
    <3> QED BY <1>1, <2>1, <2>4, <3>1, <3>2, <3>3 DEF Settled
  <2> QED BY <2>3, <2>4
<1>4. CASE CreateFails(i)
  <2>1. /\ send' = [send EXCEPT ![i].pc = "failed"]
        /\ UNCHANGED <<cur, nav, pending, navs, exists, isStreaming, bg, polls>>
    BY <1>4 DEF CreateFails, Release, navVars, streamVars, mapVars
  <2>2. Lasting' /\ (Undisturbed' => Undisturbed) /\ Moves(i, "failed", send[i].sess)
    BY <2>1, StageSteady DEF Early, Creating
  <2>3. ASSUME Undisturbed PROVE Settled'
    <3>1. \A k \in Send : /\ ~Creating(k)'
                          /\ send'[k].sess = NoSession
                          /\ send'[k].pc \in {"none", "default", "creating", "failed"}
      BY <1>1, <2>2, <2>3 DEF Moves, Creating, Unopened
    <3>2. Unopened'
      BY <1>1, <2>1, <2>3, <3>1 DEF Unopened
    <3> QED BY <1>1, <2>1, <2>3, <3>1, <3>2 DEF Settled
  <2> QED BY <2>2, <2>3
<1> QED BY <1>2, <1>3, <1>4

LEMMA AnswerSteady ==
  ASSUME Steady, NEW i \in Send, Answer(i)
  PROVE  Lasting' /\ (Undisturbed' => Settled')
<1>0. TypeOK /\ Lasting /\ (Undisturbed => Settled) /\ RestOK /\ send[i].sess \in Page
  BY TypeParts DEF Steady, TypeOK
<1>1. CASE DefaultChat(i) \/ (\E s \in Session : Created(i, s)) \/ CreateFails(i)
  BY <1>1, CreateSteady DEF DefaultChat, Created, CreateFails, Creating
<1>2. CASE Listed(i)
  <2>1. send[i].pc = "listing" /\ UNCHANGED <<cur, pending, nav, navs, exists, polls, bg>>
    BY <1>2 DEF Listed, navVars, mapVars
  <2>2. CASE cur # NoSession
    <3>1. Begin(i, send[i].msg)
      BY <1>2, <2>2 DEF Listed
    <3>2. Early(send[i].pc) /\ send[i].msg \in Text
      BY <1>0, <2>1 DEF Early, TypeOK
    <3> QED BY <2>1, <2>2, <3>1, <3>2, BeginSteady
  <2>3. CASE cur = NoSession
    <3>1. send' = [send EXCEPT ![i].pc = "failed"]
      BY <1>2, <2>3 DEF Listed, Release
    <3>2. Lasting' /\ (Undisturbed' => Undisturbed)
      <4>1. Early("failed") /\ Early(send[i].pc) /\ UNCHANGED <<exists, navs>>
        BY <2>1 DEF Early
      <4>2. "failed" \notin {"gone", "leaving"} /\ (Early("failed") <=> Early(send[i].pc))
        BY <4>1
      <4> QED BY ONLY <3>1, <4>1, <4>2, StageSteady, Steady, i \in Send
    <3>3. ~Undisturbed
      BY <1>0, <2>1, <2>3 DEF Settled, Unopened
    <3> QED BY <3>2, <3>3
  <2> QED BY <2>2, <2>3
<1>3. CASE Uploaded(i)
  <2>1. /\ send[i].pc = "starting" /\ send' = [send EXCEPT ![i].pc = "open"]
        /\ UNCHANGED <<cur, pending, nav, navs, exists, polls, bg>>
    BY <1>3 DEF Uploaded, navVars, mapVars
  <2>2. Lasting' /\ (Undisturbed' => Undisturbed) /\ Moves(i, "open", send[i].sess)
    BY <2>1, StageSteady DEF Early
  <2>3. ASSUME Undisturbed PROVE Settled'
    <3>1. cur # NoSession /\ send[i].sess \in {NoSession, cur}
      BY <1>0, <2>1, <2>3 DEF Settled, Unopened
    <3> QED BY <1>0, <2>1, <2>2, <2>3, <3>1, OpenSettles
  <2> QED BY <2>2, <2>3
<1>4. CASE UploadFails(i)
  <2>1. /\ send[i].pc = "starting" /\ send' = [send EXCEPT ![i].pc = "unsent"] /\ isStreaming' = FALSE
        /\ UNCHANGED <<cur, pending, nav, navs, exists, polls, bg>>
    BY <1>4 DEF UploadFails, navVars, mapVars
  <2> QED BY <2>1, EndSteady DEF Early
<1>5. CASE Refused(i)
  <2>1. send[i].pc = "open" /\ send' = [send EXCEPT ![i].pc = "refused"] /\ Finally(i) /\ UNCHANGED bg
    BY <1>5 DEF Refused
  <2> QED BY <2>1, FinallySteady DEF Early
<1>6. CASE NotFound(i)
  <2>1. /\ send[i].pc = "open" /\ send' = [send EXCEPT ![i].pc = "gone"]
        /\ exists' = exists \ {send[i].sess} /\ UNCHANGED navs
    BY <1>6 DEF NotFound
  <2>2. Moves(i, "gone", send[i].sess) /\ send[i].sess # NoSession
    BY <1>0, <2>1, StageMoves DEF Lasting, Early
  <2>3. Lasting'
    <3>1. /\ exists \subseteq exists' \cup {send[i].sess} /\ exists' \subseteq Session
          /\ \A k \in Send : send[k].sess \in exists' => send[k].sess \in exists
          /\ send[i].sess \notin exists' /\ ~Early("gone")
      BY <1>0, <2>1 DEF TypeOK, Early
    <3> QED BY <1>0, <2>1, <2>2, <3>1, CallLasts
  <2>4. ~Undisturbed'
    BY <2>1, <2>2 DEF Moves, Undisturbed
  <2> QED BY <2>3, <2>4
<1>7. CASE Relisted(i) \/ Leaves(i)
  <2>1. send[i].pc \in {"gone", "leaving"} /\ UNCHANGED <<exists, navs>>
    BY <1>7 DEF Relisted, Leaves, Finally, navVars
  <2>2. ~Undisturbed
    BY <1>0, <2>1 DEF Lasting, Undisturbed, Early
  <2>3. PICK c \in {"leaving", "refused"} : /\ send' = [send EXCEPT ![i].pc = c]
                                            /\ send[i].sess \notin exists
    BY <1>0, <1>7, <2>1 DEF Relisted, Leaves, Lasting
  <2>4. Moves(i, c, send[i].sess) /\ ~Early(c) /\ send[i].sess # NoSession
    BY <1>0, <2>1, <2>3, StageMoves DEF Lasting, Early
  <2>5. exists' \subseteq Session
    BY <1>0, <2>1 DEF TypeOK
  <2> QED BY <1>0, <2>1, <2>2, <2>3, <2>4, <2>5, CallLasts
<1>8. CASE Done(i)
  <2>1. /\ send[i].pc = "open" /\ send' = [send EXCEPT ![i].done = TRUE]
        /\ bg' = [bg EXCEPT ![send[i].sess] = IF Elsewhere(i) THEN "completed" ELSE "none"]
        /\ UNCHANGED <<cur, pending, nav, navs, exists, isStreaming, polls>>
    BY <1>8 DEF Done, navVars, streamVars
  <2>2. Moves(i, "open", send[i].sess) /\ ~Early("open") /\ send[i].sess # NoSession
    <3>1. send[i] \in Calls /\ send \in [Send -> Calls]
      BY <1>0 DEF RestOK
    <3>2. \A k \in Send : send'[k] = IF k = i THEN [send[i] EXCEPT !.done = TRUE] ELSE send[k]
      BY <2>1, <3>1
    <3>3. \A k \in Send : send'[k].pc = send[k].pc /\ send'[k].sess = send[k].sess
      BY <3>1, <3>2 DEF Calls
    <3> QED BY <1>0, <2>1, <3>3 DEF Moves, Early, Lasting
  <2>3. Lasting' /\ (Undisturbed' => Undisturbed)
    <3>1. exists' \subseteq Session
      BY <1>0, <2>1 DEF TypeOK
    <3> QED BY <1>0, <2>1, <2>2, <3>1, CallLasts
  <2>4. ASSUME Undisturbed PROVE Settled'
    <3>1. cur # NoSession /\ send[i].sess = cur
      BY <1>0, <2>1, <2>2, <2>4 DEF Settled, Unopened
    <3>2. bg' = bg
      BY <1>0, <2>1, <2>4, <3>1 DEF Settled, Elsewhere, TypeOK
    <3> QED BY <1>0, <2>1, <2>2, <2>4, <3>1, <3>2, OpenSettles
  <2> QED BY <2>3, <2>4
<1>9. CASE Ends(i)
  <2>1. send[i].pc = "open" /\ send' = [send EXCEPT ![i].pc = "ended"] /\ Finally(i) /\ UNCHANGED bg
    BY <1>9 DEF Ends
  <2> QED BY <2>1, FinallySteady DEF Early
<1>10. CASE Dies(i)
  <2>1. /\ send[i].pc = "open" /\ send' = [send EXCEPT ![i].pc = "ended"] /\ Finally(i)
        /\ bg' = [bg EXCEPT ![send[i].sess] = IF Background(i) /\ @ = "running" THEN "error" ELSE @]
    BY <1>10 DEF Dies
  <2>2. Undisturbed => bg' = bg
    BY <1>0, <2>1 DEF Settled, TypeOK
  <2> QED BY <2>1, <2>2, FinallySteady DEF Early
<1> QED BY <1>1, <1>2, <1>3, <1>4, <1>5, <1>6, <1>7, <1>8, <1>9, <1>10 DEF Answer

LEMMA SteadyStep == Steady /\ [Next]_vars => Steady'
<1> SUFFICES ASSUME Steady, [Next]_vars PROVE Lasting' /\ (Undisturbed' => Settled')
  BY TypeStep DEF Steady
<1>0. TypeOK /\ Lasting /\ (Undisturbed => Settled)
  BY DEF Steady
<1>1. CASE UserStep
  <2>1. ASSUME NEW m \in Msg, Type(m) PROVE Lasting' /\ (Undisturbed' => Settled')
    <3>1. UNCHANGED <<send, exists, navs, nav, polls, bg, cur, pending, sendInFlight, isStreaming>>
      BY <2>1 DEF Type, navVars, streamVars, mapVars, sendVars
    <3> QED BY <3>1, PageSteady
  <2>2. ASSUME NEW n \in 1..Len(queue), Promote(n) PROVE Lasting' /\ (Undisturbed' => Settled')
    <3>1. UNCHANGED <<send, exists, navs, nav, polls, bg, cur, pending, sendInFlight>>
      BY <2>2 DEF Promote, navVars, mapVars
    <3>2. isStreaming' => isStreaming
      BY <2>2 DEF Promote, PromoteLater, PromoteNow
    <3> QED BY <3>1, <3>2, PageSteady
  <2>3. CASE (\E s \in Session : SelectSession(s)) \/ NewChat
    <3>1. UNCHANGED <<send, exists>> /\ navs' = navs + 1
      BY <2>3 DEF SelectSession, NewChat
    <3>2. navs' # 0
      BY <1>0, <3>1 DEF TypeOK
    <3> QED BY <1>0, <3>1, <3>2, PageLasts DEF Undisturbed
  <2>4. CASE RecoverTab
    <3>1. /\ UNCHANGED <<send, exists, navs, nav, polls, bg, cur, pending, sendInFlight>>
          /\ isStreaming' = FALSE
      BY <2>4 DEF RecoverTab, navVars, mapVars
    <3> QED BY <3>1, PageSteady
  <2> QED BY <1>1, <2>1, <2>2, <2>3, <2>4, SubmitSteady DEF UserStep, PressSend
<1>2. CASE TimerStep
  <2>1. CASE DrainFires \/ PromotedIsSent
    <3>1. UNCHANGED <<send, exists, navs, nav, polls, bg, cur, pending, sendInFlight, isStreaming>>
      BY <2>1 DEF DrainFires, PromotedIsSent, navVars, streamVars, mapVars, sendVars
    <3> QED BY <3>1, PageSteady
  <2>2. CASE (\E s \in Session : PollEnds(s)) \/ Reload
    <3>1. UNCHANGED <<send, exists, navs>>
      BY <2>2 DEF PollEnds, Reload
    <3>2. ~Undisturbed
      <4>1. CASE \E s \in Session : PollEnds(s)
        BY <1>0, <4>1 DEF PollEnds, Settled
      <4>2. CASE Reload
        BY <1>0, <4>2 DEF Reload, Settled, Unopened
      <4> QED BY <2>2, <4>1, <4>2
    <3> QED BY <1>0, <3>1, <3>2, PageLasts
  <2> QED BY <1>2, <2>1, <2>2, SubmitSteady DEF TimerStep, AutoSubmit
<1>3. CASE HistoryArrives \/ HistoryFails
  <2>1. nav # NoSession /\ UNCHANGED <<send, exists, navs>>
    BY <1>3 DEF HistoryArrives, HistoryFails, sendVars
  <2> QED BY <1>0, <2>1, PageLasts DEF Settled
<1>4. ASSUME NEW i \in Send, Delta(i) PROVE Lasting' /\ (Undisturbed' => Settled')
  <2>1. /\ send[i].pc = "open" /\ bg' = NewEntry(i)
        /\ UNCHANGED <<send, exists, navs, nav, polls, cur, pending, sendInFlight, isStreaming>>
    BY <1>4 DEF Delta, navVars, sendVars
  <2>2. Undisturbed => bg' = bg
    <3>1. ~Early(send[i].pc)
      BY <2>1 DEF Early
    <3> QED BY <1>0, <2>1, <3>1 DEF NewEntry, Elsewhere, Settled, Lasting, TypeOK
  <2> QED BY <1>0, <2>1, <2>2, PageLasts, PageSettles
<1>5. ASSUME NEW i \in Send, Answer(i) PROVE Lasting' /\ (Undisturbed' => Settled')
  BY <1>5, AnswerSteady
<1>6. CASE UNCHANGED vars
  <2>1. UNCHANGED <<send, exists, navs, nav, polls, bg, cur, pending, sendInFlight, isStreaming>>
    BY <1>6 DEF vars, navVars, streamVars, mapVars, sendVars
  <2> QED BY <2>1, PageSteady
<1> QED BY <1>1, <1>2, <1>3, <1>4, <1>5, <1>6 DEF Next

LEMMA SteadyInit == Init => Steady
<1> SUFFICES ASSUME Init PROVE Lasting /\ Settled
  BY InitTypes DEF Steady
<1>1. \A i \in Send : send[i].pc = "none" /\ send[i].sess = NoSession
  BY DEF Init, NoSend
<1>2. Lasting
  BY <1>1 DEF Init, Lasting, Early
<1>3. Settled
  BY <1>1 DEF Init, Settled, Unopened, Opened, Creating
<1> QED BY <1>2, <1>3

\* What the page that stays shows.
THEOREM PageStaysSteady == Spec => []Steady
<1> QED BY SteadyInit, SteadyStep, PTL DEF Spec

\* The Stop button is shown only while some call may still take it away.
THEOREM StreamingHasACall == Spec => []StreamingIsActive
<1>1. Steady => StreamingIsActive
  BY DEF Steady, Settled, Unopened, Opened, StreamingIsActive
<1> QED BY <1>1, PageStaysSteady, PTL
=============================================================================
