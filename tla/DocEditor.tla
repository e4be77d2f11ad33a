------------------------------ MODULE DocEditor ------------------------------
(***************************************************************************)
(* The document editor of the browser client (static/js/document.js): one  *)
(* text box that shows whichever document is active, a map of the open     *)
(* tabs, a save two seconds after the last keystroke, and the updates that *)
(* the chat's agent makes to the same documents while the user edits them. *)
(*                                                                         *)
(* One thread runs everything; a stretch of code between two awaits is one *)
(* step.  activeDocId, the text box, the diff under review and the running *)
(* animation are globals of the page, and each of them may have moved on   *)
(* to another document when a timer fires or an answer arrives.            *)
(*                                                                         *)
(* A text is a record: the document it was made for, and which text it is. *)
(* The first part is what the model knows and the page does not.  A title  *)
(* is what the agent, the user's rename or the first line of a text makes  *)
(* it, so that any two titles may be equal when the page compares them.    *)
(* The page stays in one session, a diff is one chunk.  The version panel, *)
(* suggestions, the menu's Delete, PDF and form documents and the rendered *)
(* previews are left out.                                                  *)
(***************************************************************************)
EXTENDS Integers, FiniteSets

CONSTANTS
  Doc,       \* document ids
  Known,     \* the documents of the session when the page is loaded
  Temp,      \* "_streaming_...": the id of a document being streamed
  NoDoc,     \* null
  Typed,     \* what the user writes, each once
  Written,   \* what the agent writes, each once
  MaxClicks, \* bound: the user's clicks that open, close, switch, create or review,
             \* and the titles found equal
  MaxPuts    \* bound: the saves under way when the next one may be caused

ASSUME DocAssumption == Known \subseteq Doc /\ Temp \notin Doc /\ NoDoc \notin Doc \cup {Temp}
ASSUME TextAssumption ==
  (Typed \cup Written) \cap {"empty", "first", "older", "torn", "partial"} = {} /\ Typed \cap Written = {}
ASSUME BoundAssumption == MaxClicks \in Nat /\ MaxPuts \in Nat

VARIABLES
  tabs,      \* docs: the content of each open tab, Absent of the others
  active,    \* activeDocId
  box,       \* the text box
  pane,      \* "open", "closing" for the 200 ms of the slide-out, "closed"
  chip,      \* the minimized panel's chip holds this document, {} without chip
  diff,      \* the diff under review, {} for none
  exitTimer, \* a timer of _resolveChunk() will leave diff mode
  anim,      \* the edit _animateDocEdit() is typing, {} for none
  stream,    \* _streamDocId
  timer,     \* _autoSaveDebounce is set
  creating,  \* createDocument() awaits its answer: was the editor empty?
  auto,      \* _autoCreateFromInput() awaits its answer: the content it sent
  compare,   \* the compare button awaits the versions: of what, against what
  loading,   \* loadSessionDocs() awaits its answer
  event,     \* the doc_update on its way to the page
  puts,      \* the saves under way, and how far each has come
  server,    \* the content of each document, Absent while it does not exist
  prev,      \* the content of its version before the last, Absent without
  hidden,    \* deleted documents, which remain as inactive rows
  named,     \* documents with a title
  guests,    \* history: the tabs that the page has given to another's text, and to whose
  used,      \* history: the texts written so far
  settled,   \* history: the user's texts that reached the server, or whose save failed
  clicks,    \* counted against the bound
  fresh,     \* history: the box has kept its document since the last keystroke
  astray     \* history: a late callback met another document than its own

data == <<server, prev, hidden, named, guests, used, settled>>
calls == <<creating, auto, compare, loading, event>>
view == <<active, pane, chip, stream>>
vars == <<tabs, box, diff, exitTimer, anim, timer, puts, clicks, fresh, astray, view, calls, data>>

Key == Doc \cup {Temp}
Blank == [of |-> NoDoc, t |-> "empty"]
Absent == [of |-> NoDoc, t |-> "absent"]
Text == [of : Key \cup {NoDoc},
         t : Typed \cup Written \cup {"empty", "first", "older", "torn", "partial"}]
Review == [of : Key, old : Text, new : Text, resolved : BOOLEAN, accepted : BOOLEAN]
AtMostOne(S, T) == S \subseteq T /\ \A x, y \in S : x = y

(* Types; the box of a pane that is not there is blank.                    *)
TypeOK ==
  /\ tabs \in [Key -> Text \cup {Absent}]
  /\ active \in Key \cup {NoDoc}
  /\ box \in Text
  /\ pane \in {"open", "closing", "closed"}
  /\ AtMostOne(chip, Key \cup {NoDoc})
  /\ AtMostOne(diff, Review)
  /\ AtMostOne(anim, [of : Doc, text : Text])
  /\ stream \in Key \cup {NoDoc}
  /\ AtMostOne(creating, BOOLEAN)
  /\ AtMostOne(auto, [of : {NoDoc}, t : Typed])
  /\ AtMostOne(compare, [of : Doc, text : Text])
  /\ AtMostOne(event, [doc : Doc, t : Written, left : 1..2])
  /\ {exitTimer, timer, loading, fresh, astray} \subseteq BOOLEAN
  /\ puts \subseteq [doc : Key, text : Text, at : {"sent", "done"}]
  /\ server \in [Doc -> Text \cup {Absent}] /\ prev \in [Doc -> Text \cup {Absent}]
  /\ hidden \subseteq Doc /\ named \subseteq Key /\ guests \subseteq Key \X Key
  /\ used \subseteq Typed \cup Written /\ settled \subseteq Typed
  /\ clicks \in 0..MaxClicks
  /\ pane = "closed" => box = Blank /\ anim = {}

(* The page is loaded into a session with the known documents.             *)
Init ==
  /\ tabs = [k \in Key |-> Absent]
  /\ active = NoDoc /\ box = Blank /\ pane = "closed" /\ chip = {}
  /\ diff = {} /\ exitTimer = FALSE /\ anim = {} /\ stream = NoDoc /\ timer = FALSE
  /\ creating = {} /\ auto = {} /\ compare = {} /\ loading = FALSE /\ event = {}
  /\ puts = {} /\ clicks = 0
  /\ server = [d \in Doc |-> IF d \in Known THEN [of |-> d, t |-> "first"] ELSE Absent]
  /\ prev = [d \in Doc |-> IF d \in Known THEN [of |-> d, t |-> "older"] ELSE Absent]
  /\ hidden = {} /\ named = Known /\ guests = {}
  /\ used = {} /\ settled = {} /\ fresh = FALSE /\ astray = FALSE

-----------------------------------------------------------------------------
(* What the handlers share                                                 *)

Mounted == pane # "closed"
Open(tb) == {k \in Key : tb[k] # Absent}
Owned(text, d) == IF text.of = NoDoc /\ text # Blank THEN [text EXCEPT !.of = d] ELSE text

(* saveCurrentToMap() with a text box that holds b.                        *)
Stored(tb, a, b) == IF a \in Open(tb) THEN [tb EXCEPT ![a] = b] ELSE tb

(* The request of saveDocument(): none without a document or a text box.   *)
Put(a, b) == IF a # NoDoc /\ Mounted THEN {[doc |-> a, text |-> b, at |-> "sent"]} ELSE {}

(* exitDiffMode(discard) on a text box that holds b: what it holds then.    *)
(* It is stored and saved under whatever document is active.               *)
Decided(b, discard) ==
  IF diff = {} THEN b
  ELSE LET D == CHOOSE D \in diff : TRUE IN IF D.accepted /\ ~discard THEN D.new ELSE D.old
ExitBox(discard) == IF Mounted THEN Decided(box, discard) ELSE box
ExitTabs(discard) == IF Mounted /\ diff # {} THEN Stored(tabs, active, ExitBox(discard)) ELSE tabs
ExitPuts(discard) == IF diff # {} THEN Put(active, ExitBox(discard)) ELSE {}
ExitDiff(discard) ==
  /\ box' = ExitBox(discard) /\ tabs' = ExitTabs(discard)
  /\ puts' = puts \cup ExitPuts(discard)
  /\ diff' = {}

(* openPanel(): a new pane starts with a blank text box, and the text box  *)
(* an animation was writing to goes with its pane.                         *)
OpenPane ==
  /\ pane' = "open"
  /\ chip' = IF pane = "open" THEN chip ELSE {}
  /\ anim' = IF pane = "open" THEN anim ELSE {}
Shown(b) == IF pane = "open" THEN b ELSE Blank

(* Mutant: the text box goes to the map after the switch.                  *)
SwitchedLate(tb, b, d) ==
  LET b1 == Decided(b, TRUE)
      stored == Stored(tb, d, b1) IN
    [tabs |-> stored,
     box |-> stored[d],
     hidden |-> {},
     puts |-> IF diff = {} \/ active = NoDoc THEN {} ELSE {[doc |-> active, text |-> b1, at |-> "sent"]}]

(* switchToDoc() from the tabs tb and the text box b it finds: a diff is   *)
(* discarded, the text goes to the map, and an untitled blank document is  *)
(* deleted on leaving.  more are the saves made on the way.                *)
Switched(tb, b, d) ==
  LET b1 == Decided(b, TRUE)
      stored == Stored(tb, active, b1)
      left == {active} \cap {k \in Key \ (named \cup {d}) : stored[k] = Blank} IN
    [tabs |-> [k \in Key |-> IF k \in left THEN Absent ELSE stored[k]],
     box |-> stored[d],
     hidden |-> left \cap Doc,
     puts |-> IF diff = {} \/ active = NoDoc THEN {} ELSE {[doc |-> active, text |-> b1, at |-> "sent"]}]
(* Mutant: a switch stores the text of the diff, and stays in diff mode.   *)
SwitchDocKeepsDiff(tb, b, d, more) ==
  LET s == Switched(tb, b, d) IN
    /\ tabs' = s.tabs /\ box' = s.box /\ active' = d
    /\ hidden' = hidden \cup s.hidden
    /\ puts' = puts \cup s.puts \cup more
    /\ fresh' = FALSE /\ UNCHANGED diff


SwitchDoc(tb, b, d, more) ==
  LET s == Switched(tb, b, d) IN
    /\ tabs' = s.tabs /\ box' = s.box /\ active' = d
    /\ hidden' = hidden \cup s.hidden
    /\ puts' = puts \cup s.puts \cup more
    /\ diff' = {} /\ fresh' = FALSE

-----------------------------------------------------------------------------
(* The user                                                                *)

Calm == Cardinality(puts) < MaxPuts
Click == Calm /\ clicks < MaxClicks /\ clicks' = clicks + 1

(* The input handler of the text box, which is read-only under a diff.     *)
Type(t) ==
  /\ pane = "open" /\ (diff = {} \/ active = NoDoc)
  /\ t \in Typed \ used /\ used' = used \cup {t}
  /\ box' = [of |-> active, t |-> t]
  /\ named' = named \cup ({active} \cap Key)
  /\ fresh' = TRUE
  /\ IF active = NoDoc /\ creating = {}
     THEN /\ auto' = IF auto = {} THEN {box'} ELSE auto
          /\ UNCHANGED timer
     ELSE timer' = TRUE /\ UNCHANGED auto
  /\ UNCHANGED <<clicks, tabs, diff, exitTimer, anim, puts, astray, view, creating, compare, loading, event, server, prev, hidden, guests, settled>>

(* saveDocument() up to its request: by the timer, or by the user.         *)
Save ==
  /\ tabs' = IF Mounted THEN Stored(tabs, active, box) ELSE tabs
  /\ puts' = puts \cup Put(active, box)
Autosave ==
  /\ Calm /\ timer /\ timer' = FALSE
  /\ Save
  /\ UNCHANGED <<clicks, box, diff, exitTimer, anim, fresh, astray, view, calls, data>>
SaveNow ==
  /\ Click
  /\ pane = "open" /\ active # NoDoc
  /\ Save
  /\ UNCHANGED <<box, diff, exitTimer, anim, timer, fresh, astray, view, calls, data>>

(* A click on a tab.                                                       *)
SwitchTo(d) ==
  /\ Click
  /\ pane = "open" /\ d \in Open(tabs)
  /\ SwitchDoc(tabs, box, d, {})
  /\ UNCHANGED <<exitTimer, anim, timer, astray, pane, chip, stream, calls, server, prev, named, guests, used, settled>>

(* _detachDocFromSession(): what is saved is the active document.          *)
Detach(tb, d) ==
  [puts |-> IF tb[d] \notin {Blank, Absent} THEN Put(active, box) ELSE {},
   hidden |-> IF tb[d] \in {Blank, Absent} THEN {d} \cap Doc ELSE {},
   tabs |-> [tb EXCEPT ![d] = Absent]]

(* closePanel(): the pane slides out; minimized, it leaves a chip.         *)
Slide(down, a) ==
  /\ pane' = "closing" /\ fresh' = FALSE
  /\ chip' = IF down THEN {a} ELSE {}
  /\ active' = a
Close(down) ==
  /\ Click
  /\ pane = "open"
  /\ tabs' = Stored(tabs, active, box)
  /\ Slide(down, active)
  /\ UNCHANGED <<box, diff, exitTimer, anim, timer, puts, astray, stream, calls, data>>

CloseTab(d) ==
  /\ Click
  /\ pane = "open" /\ d \in Open(tabs)
  /\ LET gone == Detach(Stored(tabs, active, box), d)
         rest == Open(gone.tabs) IN
       \/ /\ rest = {}
          /\ tabs' = gone.tabs /\ puts' = puts \cup gone.puts /\ hidden' = hidden \cup gone.hidden
          /\ Slide(FALSE, NoDoc)
          /\ UNCHANGED <<box, diff>>
       \/ \E next \in rest :
          /\ active = d
          /\ SwitchDoc(gone.tabs, box, next, gone.puts)
          /\ UNCHANGED <<pane, chip>>
       \/ /\ rest # {} /\ active # d
          /\ tabs' = gone.tabs /\ puts' = puts \cup gone.puts /\ hidden' = hidden \cup gone.hidden
          /\ UNCHANGED <<active, pane, chip, box, diff, fresh>>
  /\ UNCHANGED <<exitTimer, anim, timer, astray, stream, calls, server, prev, named, guests, used, settled>>

(* Mutant: the animation goes on writing after its pane is gone.           *)
FinishCloseStays ==
  /\ pane = "closing" /\ pane' = "closed"
  /\ active' = NoDoc /\ box' = Blank
  /\ UNCHANGED <<clicks, tabs, diff, exitTimer, anim, timer, puts, fresh, astray, chip, stream, calls, data>>

(* _finishClose(), 200 ms later; it does nothing to a panel reopened.      *)
FinishClose ==
  /\ pane = "closing" /\ pane' = "closed"
  /\ active' = NoDoc /\ box' = Blank /\ anim' = {}
  /\ UNCHANGED <<clicks, tabs, diff, exitTimer, timer, puts, fresh, astray, chip, stream, calls, data>>

(* The chip of the minimized panel: clicked, and closed.                   *)
Restore(d) ==
  /\ Click
  /\ d \in chip
  /\ OpenPane
  /\ IF d \in Open(tabs)
     THEN SwitchDoc(tabs, Blank, d, {})
     ELSE box' = Blank /\ UNCHANGED <<tabs, puts, hidden, active, diff, fresh>>
  /\ UNCHANGED <<exitTimer, timer, astray, stream, calls, server, prev, named, guests, used, settled>>
CloseChip(d) ==
  /\ Click
  /\ d \in chip /\ chip' = {}
  /\ IF d = NoDoc THEN UNCHANGED <<tabs, puts, hidden>>
     ELSE LET base == IF Mounted THEN Stored(tabs, active, box) ELSE tabs
              saves == tabs[d] \notin {Blank, Absent}
              gone == Detach(tabs, d) IN
            /\ tabs' = [(IF saves THEN base ELSE tabs) EXCEPT ![d] = Absent]
            /\ puts' = puts \cup gone.puts /\ hidden' = hidden \cup gone.hidden
  /\ UNCHANGED <<box, diff, exitTimer, anim, timer, fresh, astray, active, pane, stream, calls, server, prev, named, guests, used, settled>>

(* The toolbar's button: loadSessionDocs(), which starts with no document. *)
Load ==
  /\ pane # "open" /\ ~loading /\ loading' = TRUE
  /\ active' = NoDoc /\ fresh' = FALSE
  /\ UNCHANGED <<clicks, tabs, box, diff, exitTimer, anim, timer, puts, astray, pane, chip, stream, creating, auto, compare, event, data>>

(* The "+" of the tab bar and of the library: createDocument().            *)
Create ==
  /\ Click
  /\ creating = {} /\ creating' = {active = NoDoc}
  /\ UNCHANGED <<tabs, box, diff, exitTimer, anim, timer, puts, fresh, astray, view, auto, compare, loading, event, data>>

(* The compare button: it leaves a diff, or asks for the versions.         *)
Compare ==
  /\ Click
  /\ pane = "open"
  /\ \/ /\ diff # {} /\ ExitDiff(TRUE)
        /\ UNCHANGED compare
     \/ /\ diff = {} /\ compare = {} /\ active \in Doc
        /\ compare' = {[of |-> active, text |-> box]}
        /\ UNCHANGED <<box, tabs, puts, diff>>
  /\ UNCHANGED <<exitTimer, anim, timer, fresh, astray, view, creating, auto, loading, event, data>>

(* _resolveChunk() on the diff's one chunk, and Accept or Reject All.      *)
Resolve(accept) ==
  \E D \in diff :
    LET b == IF Mounted THEN (IF accept THEN D.new ELSE D.old) ELSE box IN
    /\ Click /\ pane = "open" /\ ~D.resolved
    /\ diff' = {[D EXCEPT !.resolved = TRUE, !.accepted = accept]}
    /\ box' = b /\ tabs' = Stored(tabs, active, b) /\ puts' = puts \cup Put(active, b)
    /\ exitTimer' = TRUE
    /\ UNCHANGED <<anim, timer, fresh, astray, view, calls, data>>
ResolveAll(accept) ==
  \E D \in diff :
    LET b == IF D.resolved THEN Decided(box, FALSE) ELSE IF accept THEN D.new ELSE D.old IN
    /\ Click /\ pane = "open"
    /\ diff' = {}
    /\ box' = b /\ tabs' = Stored(tabs, active, b) /\ puts' = puts \cup Put(active, b)
    /\ UNCHANGED <<exitTimer, anim, timer, fresh, astray, view, calls, data>>
ExitFires ==
  /\ exitTimer /\ exitTimer' = FALSE
  /\ ExitDiff(FALSE)
  /\ UNCHANGED <<clicks, anim, timer, fresh, astray, view, calls, data>>

-----------------------------------------------------------------------------
(* Answers                                                                 *)

(* The documents of the session: missing tabs are added, and the most      *)
(* recent document is shown; without any, an empty editor.                 *)
Loaded ==
  LET alive == {d \in Doc \ hidden : server[d] # Absent}
      full == [k \in Key |-> IF k \in alive /\ tabs[k] = Absent THEN server[k] ELSE tabs[k]] IN
  /\ loading /\ loading' = FALSE
  /\ OpenPane
  /\ \/ /\ alive = {}
        /\ active' = NoDoc /\ box' = Blank
        /\ UNCHANGED <<tabs, puts, hidden, diff, fresh>>
     \/ \E d \in alive : SwitchDoc(full, Shown(box), d, {})
  /\ UNCHANGED <<clicks, exitTimer, timer, astray, stream, creating, auto, compare, event, server, prev, named, guests, used, settled>>
LoadFails ==
  /\ loading /\ loading' = FALSE
  /\ OpenPane
  /\ active' = NoDoc /\ box' = Blank
  /\ UNCHANGED <<clicks, tabs, puts, diff, exitTimer, timer, fresh, astray, stream, creating, auto, compare, event, data>>

(* Mutant: what was typed meanwhile is shown, and its save is forgotten.   *)
CreatedForgets(d) ==
  LET b == Shown(box)
      typed == b # Blank /\ TRUE \in creating
      s == Switched([tabs EXCEPT ![d] = Blank], b, d)
      text == IF typed THEN Owned(b, d) ELSE Blank IN
  /\ creating # {} /\ creating' = {}
  /\ server[d] = Absent /\ server' = [server EXCEPT ![d] = Blank]
  /\ OpenPane
  /\ tabs' = [s.tabs EXCEPT ![d] = text] /\ box' = text /\ active' = d /\ diff' = {}
  /\ puts' = puts \cup s.puts /\ hidden' = hidden \cup s.hidden
  /\ fresh' = typed
  /\ astray' = (astray \/ (typed /\ b.of \notin {NoDoc, d}))
  /\ UNCHANGED <<clicks, exitTimer, timer, stream, auto, compare, loading, event, prev, named, guests, used, settled>>

(* The created document is shown; what was typed into the empty editor in  *)
(* the meantime becomes its text, and is saved 0.8 seconds later.          *)
Created(d) ==
  LET b == Shown(box)
      typed == b # Blank /\ TRUE \in creating
      s == Switched([tabs EXCEPT ![d] = Blank], b, d)
      text == IF typed THEN Owned(b, d) ELSE Blank IN
  /\ creating # {} /\ creating' = {}
  /\ server[d] = Absent /\ server' = [server EXCEPT ![d] = Blank]
  /\ OpenPane
  /\ tabs' = [s.tabs EXCEPT ![d] = text] /\ box' = text /\ active' = d /\ diff' = {}
  /\ puts' = puts \cup s.puts /\ hidden' = hidden \cup s.hidden
  /\ timer' = (timer \/ typed) /\ fresh' = typed
  /\ astray' = (astray \/ (typed /\ b.of \notin {NoDoc, d}))
  /\ UNCHANGED <<clicks, exitTimer, stream, auto, compare, loading, event, prev, named, guests, used, settled>>

CreateFails ==
  /\ creating # {} /\ creating' = {}
  /\ UNCHANGED <<clicks, tabs, box, diff, exitTimer, anim, timer, puts, fresh, astray, view, auto, compare, loading, event, data>>

(* The document made of what was typed into the empty editor; the text box *)
(* keeps what it holds by now.                                             *)
AutoCreated(d) ==
  \E content \in auto :
    /\ auto' = {}
    /\ server[d] = Absent /\ server' = [server EXCEPT ![d] = Owned(content, d)]
    /\ settled' = settled \cup {content.t}
    /\ tabs' = [tabs EXCEPT ![d] = Owned(content, d)]
    /\ active' = d /\ box' = Owned(box, d) /\ named' = named \cup {d}
    /\ timer' = TRUE
    /\ astray' = (astray \/ active # NoDoc \/ diff # {} \/ box.of # NoDoc)
    /\ UNCHANGED <<clicks, diff, exitTimer, anim, puts, fresh, pane, chip, stream, creating, compare, loading, event, prev, hidden, guests, used>>
AutoFails ==
  /\ auto # {} /\ auto' = {}
  /\ UNCHANGED <<clicks, tabs, box, diff, exitTimer, anim, timer, puts, fresh, astray, view, creating, compare, loading, event, data>>

(* The versions arrive: enterDiffMode() on whatever is shown now.          *)
Compared ==
  \E c \in compare :
    /\ compare' = {}
    /\ IF prev[c.of] \in {Absent, c.text}
       THEN UNCHANGED <<tabs, box, puts, diff, astray>>
       ELSE /\ box' = ExitBox(TRUE) /\ tabs' = ExitTabs(TRUE) /\ puts' = puts \cup ExitPuts(TRUE)
            /\ diff' = {[of |-> c.of, old |-> prev[c.of], new |-> c.text, resolved |-> FALSE, accepted |-> FALSE]}
            /\ astray' = (astray \/ active \notin {c.of, NoDoc})
    /\ UNCHANGED <<clicks, exitTimer, anim, timer, fresh, view, creating, auto, loading, event, data>>
CompareFails ==
  /\ compare # {} /\ compare' = {}
  /\ UNCHANGED <<clicks, tabs, box, diff, exitTimer, anim, timer, puts, fresh, astray, view, creating, auto, loading, event, data>>

(* A frame of the animation, and its last one.                             *)
AnimTick(last) ==
  \E a \in anim :
    /\ box' = IF last THEN a.text ELSE [of |-> a.text.of, t |-> "torn"]
    /\ anim' = IF last THEN {} ELSE anim
    /\ astray' = (astray \/ active \notin {a.of, NoDoc})
    /\ UNCHANGED <<clicks, tabs, diff, exitTimer, timer, puts, fresh, view, calls, data>>

-----------------------------------------------------------------------------
(* The agent                                                               *)

(* The open tabs with the title of what comes for d: the ones that have    *)
(* been found equal before, and, within the bound, any other with a title. *)
Alike(k, d) == k = stream \/ <<k, d>> \in guests
SameTitle(tb, d) ==
  {k \in Doc \cap named \cap Open(tb) : Alike(k, d) \/ clicks < MaxClicks}
TakesIn(k, d) ==
  /\ guests' = IF k = d THEN guests ELSE guests \cup {<<k, d>>}
  /\ clicks' = IF k = d \/ Alike(k, d) \/ k \notin named THEN clicks ELSE clicks + 1

(* streamDocOpen(): the tab of the stream is kept.  Otherwise a stream with *)
(* a title takes the open tab with this title, whose text box is blanked,  *)
(* and any other one opens a temporary tab.                                *)
StreamOpen(titled) ==
  LET tb == ExitTabs(TRUE)
      same == IF titled THEN SameTitle(tb, Temp) ELSE {} IN
  /\ event = {} /\ ~(Written \subseteq used)
  /\ puts' = puts \cup ExitPuts(TRUE) /\ diff' = {}
  /\ \/ /\ stream \in Open(tb)
        /\ tabs' = tb /\ box' = ExitBox(TRUE)
        /\ named' = IF titled THEN named \cup {stream} ELSE named
        /\ UNCHANGED <<clicks, active, pane, chip, anim, stream, fresh, guests>>
     \/ /\ stream \notin Open(tb)
        /\ \/ /\ stream' \in same
              /\ tabs' = tb /\ TakesIn(stream', Temp)
              /\ UNCHANGED named
           \/ /\ stream' = Temp
              /\ tabs' = [tb EXCEPT ![Temp] = Blank]
              /\ named' = IF titled THEN named \cup {Temp} ELSE named \ {Temp}
              /\ UNCHANGED <<clicks, guests>>
        /\ active' = stream'
        /\ OpenPane /\ box' = Blank /\ fresh' = FALSE
  /\ UNCHANGED <<exitTimer, timer, astray, calls, server, prev, hidden, used, settled>>

(* streamDocDelta().                                                       *)
StreamDelta ==
  LET text == [of |-> Temp, t |-> "partial"] IN
  /\ stream # NoDoc /\ event = {}
  /\ tabs' = Stored(tabs, stream, text)
  /\ box' = IF active = stream /\ Mounted THEN text ELSE box
  /\ UNCHANGED <<clicks, diff, exitTimer, anim, timer, puts, fresh, astray, view, calls, data>>

(* The agent's tool stores a new version, or a new document, and the agent *)
(* loop then reports it twice (src/agent_loop.py:3382 and 3515).           *)
AgentWrites(d, t) ==
  /\ event = {} /\ event' = {[doc |-> d, t |-> t, left |-> 2]}
  /\ t \in Written \ used /\ used' = used \cup {t}
  /\ server' = [server EXCEPT ![d] = [of |-> d, t |-> t]]
  /\ prev' = [prev EXCEPT ![d] = server[d]]
  /\ UNCHANGED <<clicks, tabs, box, diff, exitTimer, anim, timer, puts, fresh, astray, view, creating, auto, compare, loading, hidden, named, guests, settled>>

(* handleDocUpdate().  A streamed tab becomes the document's.  An update   *)
(* of a document without a tab goes to a tab with the same title, to which *)
(* document ever that belongs, or else to an untitled blank one.           *)
Migrated(tb, d) ==
  IF stream = Temp /\ tb[Temp] # Absent THEN [tb EXCEPT ![Temp] = Absent, ![d] = Blank] ELSE tb
Landing(tb, d) ==
  LET same == SameTitle(tb, d)
      free == {k \in Doc \ named : tb[k] = Blank} IN
    IF tb[d] # Absent THEN {d}
    ELSE same \cup (IF free # {} THEN free ELSE {d})
(* How an edit of the text shown is presented: as a diff for review, as an *)
(* animation in the text box of before, or in a visible preview.           *)
Present(d, old, text, b) ==
  \/ /\ diff' = {[of |-> d, old |-> old, new |-> text, resolved |-> FALSE, accepted |-> FALSE]}
     /\ anim' = IF pane = "open" THEN anim ELSE {}
     /\ box' = Shown(b)
  \/ /\ anim' = IF pane = "open" THEN {[of |-> d, text |-> text]} ELSE {}
     /\ box' = Shown(b) /\ diff' = {}
  \/ /\ pane = "open"
     /\ box' = text /\ diff' = {} /\ UNCHANGED anim
Update ==
  \E e \in event :
    LET migrates == stream = Temp /\ ExitTabs(TRUE)[Temp] # Absent
        tb == Migrated(ExitTabs(TRUE), e.doc)
        b == ExitBox(TRUE)
        now == IF migrates /\ active = Temp THEN e.doc ELSE active IN
    \E d \in Landing(tb, e.doc) :
      LET text == [of |-> e.doc, t |-> e.t]
          old == IF d = now /\ Mounted THEN b ELSE Blank
          edit == tb[d] # Absent /\ old \notin {Blank, text} /\ stream = NoDoc IN
      /\ event' = IF e.left = 1 THEN {} ELSE {[e EXCEPT !.left = 1]}
      /\ stream' = NoDoc
      /\ tabs' = [tb EXCEPT ![d] = text]
      /\ puts' = puts \cup ExitPuts(TRUE)
      /\ active' = d /\ named' = (named \ {Temp}) \cup {d} /\ fresh' = FALSE
      /\ TakesIn(d, e.doc)
      /\ pane' = "open" /\ chip' = IF pane = "open" THEN chip ELSE {}
      /\ IF edit
         THEN Present(d, old, text, b)
         ELSE /\ box' = Shown(text) /\ diff' = {}
              /\ anim' = IF pane = "open" THEN anim ELSE {}
      /\ UNCHANGED <<exitTimer, timer, astray, creating, auto, compare, loading, server, prev, hidden, used, settled>>

-----------------------------------------------------------------------------
(* The server (routes/document_routes.py) and its answers                  *)

(* PUT /api/document: a version within a minute of the user's last one     *)
(* takes its place.  A temporary id is not found.                          *)
PutReaches(p) ==
  /\ p \in puts /\ p.at = "sent"
  /\ puts' = (puts \ {p}) \cup {[p EXCEPT !.at = "done"]}
  /\ IF p.doc = Temp THEN UNCHANGED <<server, prev, settled>>
     ELSE /\ server' = [server EXCEPT ![p.doc] = p.text]
          /\ prev' \in {prev, [prev EXCEPT ![p.doc] = IF server[p.doc] = p.text THEN @ ELSE server[p.doc]]}
          /\ settled' = settled \cup ({p.text.t} \cap Typed)
  /\ UNCHANGED <<clicks, tabs, box, diff, exitTimer, anim, timer, fresh, astray, view, calls, hidden, named, guests, used>>
(* Its answer: the tab takes the text that was saved, if it is still there.*)
PutAnswered(p) ==
  /\ p \in puts /\ p.at = "done" /\ puts' = puts \ {p}
  /\ tabs' = IF tabs[p.doc] = Absent THEN tabs
             ELSE [tabs EXCEPT ![p.doc] = IF p.doc = Temp THEN Absent ELSE p.text]
  /\ active' = IF p.doc = Temp /\ active = Temp THEN NoDoc ELSE active
  /\ UNCHANGED <<clicks, box, diff, exitTimer, anim, timer, fresh, astray, pane, chip, stream, calls, data>>
(* A save that fails is not repeated.                                      *)
PutFails(p) ==
  /\ p \in puts /\ p.at = "sent" /\ puts' = puts \ {p}
  /\ settled' = settled \cup ({p.text.t} \cap Typed)
  /\ UNCHANGED <<clicks, tabs, box, diff, exitTimer, anim, timer, fresh, astray, view, calls, server, prev, hidden, named, guests, used>>

-----------------------------------------------------------------------------
User ==
  \/ \E t \in Typed : Type(t)
  \/ SaveNow \/ Load \/ Create \/ Compare
  \/ \E d \in Key : SwitchTo(d) \/ CloseTab(d)
  \/ \E d \in Key \cup {NoDoc} : Restore(d) \/ CloseChip(d)
  \/ \E yes \in BOOLEAN : Close(yes) \/ Resolve(yes) \/ ResolveAll(yes)
Timers == Autosave \/ FinishClose \/ ExitFires \/ \E last \in BOOLEAN : AnimTick(last)
Answers ==
  \/ Loaded \/ LoadFails \/ CreateFails \/ AutoFails \/ Compared \/ CompareFails
  \/ \E d \in Doc : Created(d) \/ AutoCreated(d)
  \/ \E p \in puts : PutReaches(p) \/ PutAnswered(p) \/ PutFails(p)
Agent ==
  \/ \E titled \in BOOLEAN : StreamOpen(titled)
  \/ StreamDelta \/ Update
  \/ \E d \in Doc, t \in Written : AgentWrites(d, t)
Next == User \/ Timers \/ Answers \/ Agent

Spec == Init /\ [][Next]_vars

-----------------------------------------------------------------------------
(* Properties                                                              *)

(* As long as no late callback has met another document than the one it    *)
(* was for, a document is stored, on the server and in its tab, with texts *)
(* made for it, or for one that the page itself has put into its tab, for  *)
(* the sake of its title: neither a tab switch, nor a review, an animation,*)
(* a creation or a late answer to a save writes any other document over it.*)
Apart ==
  /\ \A d \in Doc : server[d].of \in {d, NoDoc} \/ <<d, server[d].of>> \in guests
  /\ \A k \in Key : tabs[k].of \in {k, NoDoc} \/ <<k, tabs[k].of>> \in guests
OwnText == ~astray => Apart

(* Issue 2467: the diff under review is that of the document shown, or     *)
(* else accepting, rejecting or leaving it writes over another document.   *)
DiffIsOfActive == ~astray /\ active # NoDoc => \A D \in diff : D.of = active

(* What the user types into a document is on its way to the server for as  *)
(* long as the user stays with that document: the timer is set, or a save  *)
(* with this text is under way, has arrived or has failed.  It holds also  *)
(* of what was typed while the document was being created.                 *)
TypedWillBeSaved ==
  fresh /\ active \in Doc /\ box.t \in Typed =>
    timer \/ box.t \in settled \/ \E p \in puts : p.text.t = box.t

(* The test of issue 2467: an update of one document must not leave a diff *)
(* to be written over another one.  Late callbacks do so all the same.     *)
NoForeignText == Apart
=============================================================================
