--------------------------- MODULE DocEditorProofs ---------------------------
(***************************************************************************)
(* Theorems about DocEditor, for any documents, texts, clicks and saves.   *)
(***************************************************************************)
EXTENDS DocEditor, TLAPS

-----------------------------------------------------------------------------
(* Types of the texts, tabs and saves the handlers build.                  *)

Tabs == [Key -> Text \cup {Absent}]
Saves == [doc : Key, text : Text, at : {"sent", "done"}]
Names == Typed \cup Written \cup {"empty", "first", "older", "torn", "partial"}

LEMMA Texts ==
  /\ Blank \in Text
  /\ \A k \in Key \cup {NoDoc}, t \in Names : [of |-> k, t |-> t] \in Text
BY DEF Blank, Text, Names

LEMMA OwnedType == \A text \in Text, d \in Key : Owned(text, d) \in Text
BY DEF Owned, Text, Blank

LEMMA StoredType ==
  ASSUME NEW tb \in Tabs, NEW a, NEW b \in Text
  PROVE  Stored(tb, a, b) \in Tabs
BY DEF Stored, Tabs, Open

LEMMA PutType ==
  ASSUME NEW a \in Key \cup {NoDoc}, NEW b \in Text
  PROVE  Put(a, b) \subseteq Saves
BY DEF Put, Saves

LEMMA DecidedType ==
  ASSUME TypeOK, NEW b \in Text, NEW x \in BOOLEAN
  PROVE  Decided(b, x) \in Text
<1>1. CASE diff = {}
  BY <1>1 DEF Decided
<1>2. CASE diff # {}
  <2>1. (CHOOSE D \in diff : TRUE) \in Review
    BY <1>2 DEF TypeOK, AtMostOne
  <2> QED BY <1>2, <2>1 DEF Decided, Review
<1> QED BY <1>1, <1>2

LEMMA ExitTypes ==
  ASSUME TypeOK, NEW x \in BOOLEAN
  PROVE  ExitBox(x) \in Text /\ ExitTabs(x) \in Tabs /\ ExitPuts(x) \subseteq Saves
<1>1. box \in Text /\ tabs \in Tabs /\ active \in Key \cup {NoDoc}
  BY DEF TypeOK, Tabs
<1>2. ExitBox(x) \in Text
  BY <1>1, DecidedType DEF ExitBox
<1>3. ExitTabs(x) \in Tabs
  BY <1>1, <1>2, StoredType DEF ExitTabs
<1>4. ExitPuts(x) \subseteq Saves
  BY <1>1, <1>2, PutType DEF ExitPuts
<1> QED BY <1>2, <1>3, <1>4

LEMMA SwitchedType ==
  ASSUME TypeOK, NEW tb \in Tabs, NEW b \in Text, NEW d \in Open(tb)
  PROVE  LET s == Switched(tb, b, d) IN
           s.tabs \in Tabs /\ s.box \in Text /\ s.hidden \subseteq Doc /\ s.puts \subseteq Saves
<1> DEFINE b1 == Decided(b, TRUE)
           stored == Stored(tb, active, b1)
           left == {active} \cap {k \in Key \ (named \cup {d}) : stored[k] = Blank}
           s == Switched(tb, b, d)
<1>0. active \in Key \cup {NoDoc} /\ d \in Key
  BY DEF TypeOK, Open
<1>1. b1 \in Text
  BY DecidedType
<1> HIDE DEF b1
<1>2. stored \in Tabs
  BY <1>1, StoredType
<1>3. stored[d] \in Text
  <2>1. tb[d] \in Text /\ tb[d] # Absent
    BY <1>0 DEF Open, Tabs
  <2> QED BY <1>0, <1>1, <2>1 DEF Stored, Open, Tabs
<1> HIDE DEF stored
<1>4. s.tabs = [k \in Key |-> IF k \in left THEN Absent ELSE stored[k]]
  BY DEF Switched, b1, stored
<1>5. s.box = stored[d] /\ s.hidden = left \cap Doc
  BY DEF Switched, b1, stored
<1>6. s.puts = IF diff = {} \/ active = NoDoc THEN {} ELSE {[doc |-> active, text |-> b1, at |-> "sent"]}
  BY DEF Switched, b1, stored
<1> HIDE DEF s, left
<1>7. s.tabs \in Tabs
  BY <1>2, <1>4 DEF Tabs
<1>8. s.puts \subseteq Saves
  BY <1>0, <1>1, <1>6 DEF Saves
<1> QED BY <1>3, <1>5, <1>7, <1>8 DEF s

-----------------------------------------------------------------------------
(* Every step keeps the types.                                             *)

Edits == [of : Doc, text : Text]
Events == [doc : Doc, t : Written, left : 1..2]

LEMMA EditType == \A d \in Doc, x \in Text : [of |-> d, text |-> x] \in Edits
BY DEF Edits

LEMMA BareType == \A x \in Typed : [of |-> NoDoc, t |-> x] \in [of : {NoDoc}, t : Typed]
OBVIOUS

LEMMA EventType == \A e \in Events : [e EXCEPT !.left = 1] \in Events
BY DEF Events

LEMMA TabType == \A tb \in Tabs, k \in Key, b \in Text : [tb EXCEPT ![k] = b] \in Tabs
BY DEF Tabs

LEMMA NoneOrOne == \A T : AtMostOne({}, T) /\ \A x \in T : AtMostOne({x}, T)
BY DEF AtMostOne

LEMMA InitTypes == Init => TypeOK
<1> SUFFICES ASSUME Init PROVE TypeOK
  OBVIOUS
<1>1. tabs \in [Key -> Text \cup {Absent}] /\ box \in Text
  BY Texts DEF Init
<1>2. \A d \in Doc, t \in {"first", "older"} : [of |-> d, t |-> t] \in Text
  BY DEF Text, Key
<1>3. server \in [Doc -> Text \cup {Absent}] /\ prev \in [Doc -> Text \cup {Absent}]
  BY <1>2 DEF Init
<1>4. chip = {} /\ diff = {} /\ anim = {} /\ creating = {} /\ auto = {} /\ compare = {} /\ event = {}
  BY DEF Init
<1>5. {exitTimer, timer, loading, fresh, astray} \subseteq BOOLEAN
  BY DEF Init
<1>6. named \subseteq Key /\ clicks \in 0..MaxClicks
  BY DocAssumption, BoundAssumption DEF Init, Key
<1> QED BY <1>1, <1>3, <1>4, <1>5, <1>6, NoneOrOne DEF Init, TypeOK

LEMMA TypeTyped ==
  ASSUME TypeOK, NEW t \in Typed, Type(t)
  PROVE  TypeOK'
<1> USE DEF view, calls, data
<1>1. box' \in Text
  BY Texts DEF Type, TypeOK, Names, Key
<1>2. named' \subseteq Key /\ used' \subseteq Typed \cup Written
  BY DEF Type, TypeOK
<1>3. AtMostOne(auto', [of : {NoDoc}, t : Typed])
  <2>0. box' = [of |-> active, t |-> t]
    BY DEF Type
  <2>1. active = NoDoc => box' \in [of : {NoDoc}, t : Typed]
    BY <2>0, BareType, Zenon
  <2>2. auto' = auto \/ (active = NoDoc /\ auto' = {box'})
    BY DEF Type
  <2>3. AtMostOne(auto, [of : {NoDoc}, t : Typed])
    BY DEF TypeOK
  <2> QED BY <2>1, <2>2, <2>3, NoneOrOne, Zenon
<1>4. timer' \in BOOLEAN /\ fresh' \in BOOLEAN
  BY DEF Type, TypeOK
<1>5. pane' # "closed"
  BY DEF Type
<1> QED BY <1>1, <1>2, <1>3, <1>4, <1>5 DEF Type, TypeOK

(* A handler that only stores the text box and asks for a save.            *)
LEMMA SaveTypes ==
  ASSUME TypeOK, Save
  PROVE  tabs' \in Tabs /\ puts' \subseteq Saves
BY StoredType, PutType DEF Save, TypeOK, Tabs, Saves

LEMMA DetachType ==
  ASSUME TypeOK, NEW tb \in Tabs, NEW d \in Key
  PROVE  /\ Detach(tb, d).tabs \in Tabs
         /\ Detach(tb, d).hidden \subseteq Doc
         /\ Detach(tb, d).puts \subseteq Saves
<1>1. Detach(tb, d).puts \subseteq Saves
  BY PutType DEF Detach, TypeOK
<1>2. Detach(tb, d).tabs \in Tabs /\ Detach(tb, d).hidden \subseteq Doc
  BY DEF Detach, Tabs
<1> QED BY <1>1, <1>2

LEMMA ClickType == TypeOK /\ Click => clicks' \in 0..MaxClicks
BY BoundAssumption DEF TypeOK, Click

LEMMA UserTypes ==
  ASSUME TypeOK, User
  PROVE  TypeOK'
<1> USE DEF view, calls, data
<1>2. CASE SaveNow
  BY <1>2, SaveTypes, ClickType DEF SaveNow, TypeOK, Tabs, Saves
<1>3. CASE Load
  BY <1>3 DEF Load, TypeOK
<1>4. CASE Create
  <2>1. AtMostOne(creating', BOOLEAN)
    BY <1>4, NoneOrOne DEF Create
  <2> QED BY <1>4, <2>1, ClickType DEF Create, TypeOK
<1>5. CASE Compare
  <2>1. box' \in Text /\ tabs' \in Tabs /\ puts' \subseteq Saves
    BY <1>5, ExitTypes DEF Compare, ExitDiff, TypeOK, Tabs, Saves
  <2>2. AtMostOne(diff', Review)
    BY <1>5, NoneOrOne DEF Compare, ExitDiff, TypeOK
  <2>3. AtMostOne(compare', Edits)
    <3>0. box \in Text
      BY DEF TypeOK
    <3>1. active \in Doc => [of |-> active, text |-> box] \in Edits
      BY <3>0, EditType, Zenon
    <3>2. compare' = compare \/ (active \in Doc /\ compare' = {[of |-> active, text |-> box]})
      BY <1>5 DEF Compare
    <3>3. AtMostOne(compare, Edits)
      BY DEF TypeOK, Edits
    <3> QED BY <3>1, <3>2, <3>3, NoneOrOne, Zenon
  <2>4. pane' # "closed"
    BY <1>5 DEF Compare
  <2> QED BY <1>5, <2>1, <2>2, <2>3, <2>4, ClickType DEF Compare, TypeOK, Tabs, Saves, Edits
<1>6. ASSUME NEW d \in Key, SwitchTo(d) PROVE TypeOK'
  <2>1. tabs \in Tabs /\ box \in Text /\ d \in Open(tabs)
    BY <1>6 DEF SwitchTo, TypeOK, Tabs
  <2>2. tabs' \in Tabs /\ box' \in Text /\ hidden' \subseteq Doc /\ puts' \subseteq Saves
    BY <1>6, <2>1, SwitchedType DEF SwitchTo, SwitchDoc, TypeOK, Saves
  <2>3. diff' = {} /\ fresh' = FALSE /\ active' = d /\ pane' # "closed"
    BY <1>6 DEF SwitchTo, SwitchDoc
  <2> QED BY <1>6, <2>2, <2>3, ClickType, NoneOrOne DEF SwitchTo, TypeOK, Tabs, Saves
<1>7. ASSUME NEW d \in Key, CloseTab(d) PROVE TypeOK'
  <2> DEFINE gone == Detach(Stored(tabs, active, box), d)
  <2>1. Stored(tabs, active, box) \in Tabs
    BY StoredType DEF TypeOK, Tabs
  <2>2. gone.tabs \in Tabs /\ gone.hidden \subseteq Doc /\ gone.puts \subseteq Saves
    BY <2>1, DetachType
  <2>3. clicks' \in 0..MaxClicks /\ pane = "open"
    BY <1>7, ClickType DEF CloseTab
  <2> HIDE DEF gone
  <2>4. CASE /\ tabs' = gone.tabs /\ puts' = puts \cup gone.puts /\ hidden' = hidden \cup gone.hidden
             /\ Slide(FALSE, NoDoc)
             /\ UNCHANGED <<box, diff>>
    <3>1. chip' = {} /\ active' = NoDoc /\ pane' = "closing" /\ fresh' = FALSE
      BY <2>4 DEF Slide
    <3> QED BY <1>7, <2>2, <2>3, <2>4, <3>1, NoneOrOne DEF CloseTab, TypeOK, Tabs, Saves
  <2>5. ASSUME NEW next \in Open(gone.tabs),
               SwitchDoc(gone.tabs, box, next, gone.puts),
               UNCHANGED <<pane, chip>>
        PROVE TypeOK'
    <3>1. box \in Text /\ next \in Key
      BY DEF TypeOK, Open
    <3>2. tabs' \in Tabs /\ box' \in Text /\ hidden' \subseteq Doc /\ puts' \subseteq Saves
      BY <2>2, <2>5, <3>1, SwitchedType DEF SwitchDoc, TypeOK, Saves
    <3>3. diff' = {} /\ fresh' = FALSE /\ active' = next
      BY <2>5 DEF SwitchDoc
    <3> QED BY <1>7, <2>3, <2>5, <3>1, <3>2, <3>3, NoneOrOne DEF CloseTab, TypeOK, Tabs, Saves
  <2>6. CASE /\ tabs' = gone.tabs /\ puts' = puts \cup gone.puts /\ hidden' = hidden \cup gone.hidden
             /\ UNCHANGED <<active, pane, chip, box, diff, fresh>>
    BY <1>7, <2>2, <2>3, <2>6 DEF CloseTab, TypeOK, Tabs, Saves
  <2> QED BY <1>7, <2>4, <2>5, <2>6 DEF CloseTab, gone
<1>8. ASSUME NEW d \in Key \cup {NoDoc}, Restore(d) PROVE TypeOK'
  <2>1. pane' = "open" /\ AtMostOne(chip', Key \cup {NoDoc}) /\ AtMostOne(anim', Edits)
    BY <1>8, NoneOrOne DEF Restore, OpenPane, TypeOK, Edits
  <2>2. CASE d \in Open(tabs)
    <3>1. tabs \in Tabs /\ d \in Key
      BY <2>2 DEF TypeOK, Tabs, Open
    <3>2. tabs' \in Tabs /\ box' \in Text /\ hidden' \subseteq Doc /\ puts' \subseteq Saves
      BY <1>8, <2>2, <3>1, SwitchedType, Texts DEF Restore, SwitchDoc, TypeOK, Saves
    <3>3. diff' = {} /\ fresh' = FALSE /\ active' = d
      BY <1>8, <2>2 DEF Restore, SwitchDoc
    <3> QED BY <1>8, <2>1, <3>1, <3>2, <3>3, ClickType, NoneOrOne DEF Restore, TypeOK, Tabs, Saves, Edits
  <2>3. CASE d \notin Open(tabs)
    <3>1. box' \in Text /\ UNCHANGED <<tabs, puts, hidden, active, diff, fresh>>
      BY <1>8, <2>3, Texts DEF Restore
    <3> QED BY <1>8, <2>1, <3>1, ClickType DEF Restore, TypeOK, Edits
  <2> QED BY <2>2, <2>3
<1>9. ASSUME NEW d \in Key \cup {NoDoc}, CloseChip(d) PROVE TypeOK'
  <2>1. chip' = {} /\ clicks' \in 0..MaxClicks
    BY <1>9, ClickType DEF CloseChip
  <2>2. tabs' \in Tabs /\ puts' \subseteq Saves /\ hidden' \subseteq Doc
    <3>1. CASE d = NoDoc
      BY <1>9, <3>1 DEF CloseChip, TypeOK, Tabs, Saves
    <3>2. CASE d # NoDoc
      <4> DEFINE base == IF Mounted THEN Stored(tabs, active, box) ELSE tabs
                 saves == tabs[d] \notin {Blank, Absent}
                 gone == Detach(tabs, d)
      <4>1. d \in Key
        BY <1>9, <3>2
      <4>2. base \in Tabs /\ tabs \in Tabs
        BY StoredType DEF TypeOK, Tabs
      <4>3. gone.puts \subseteq Saves /\ gone.hidden \subseteq Doc
        BY <4>1, <4>2, DetachType
      <4>4. tabs' = [(IF saves THEN base ELSE tabs) EXCEPT ![d] = Absent]
        BY <1>9, <3>2 DEF CloseChip
      <4>5. puts' = puts \cup gone.puts /\ hidden' = hidden \cup gone.hidden
        BY <1>9, <3>2 DEF CloseChip
      <4> HIDE DEF base, saves, gone
      <4>6. (IF saves THEN base ELSE tabs) \in Tabs
        BY <4>2
      <4>7. tabs' \in Tabs
        BY <4>1, <4>4, <4>6 DEF Tabs
      <4> QED BY <4>3, <4>5, <4>7 DEF TypeOK, Saves
    <3> QED BY <3>1, <3>2
  <2> QED BY <1>9, <2>1, <2>2, NoneOrOne DEF CloseChip, TypeOK, Tabs, Saves
<1>10. ASSUME NEW x \in BOOLEAN, Close(x) PROVE TypeOK'
  <2>1. tabs' \in Tabs
    BY <1>10, StoredType DEF Close, TypeOK, Tabs
  <2>2. AtMostOne(chip', Key \cup {NoDoc})
    BY <1>10, NoneOrOne DEF Close, Slide, TypeOK
  <2>3. pane' = "closing" /\ fresh' = FALSE /\ active' = active
    BY <1>10 DEF Close, Slide
  <2> QED BY <1>10, <2>1, <2>2, <2>3, ClickType DEF Close, TypeOK, Tabs
<1>11. ASSUME NEW x \in BOOLEAN, Resolve(x) PROVE TypeOK'
  <2>1. PICK D \in diff :
          LET b == IF Mounted THEN (IF x THEN D.new ELSE D.old) ELSE box IN
            /\ Click /\ pane = "open" /\ ~D.resolved
            /\ diff' = {[D EXCEPT !.resolved = TRUE, !.accepted = x]}
            /\ box' = b /\ tabs' = Stored(tabs, active, b) /\ puts' = puts \cup Put(active, b)
            /\ exitTimer' = TRUE
            /\ UNCHANGED <<anim, timer, fresh, astray, view, calls, data>>
    BY <1>11 DEF Resolve
  <2>2. D \in Review
    BY DEF TypeOK, AtMostOne
  <2>3. box' \in Text
    BY <2>1, <2>2 DEF Review, TypeOK
  <2>4. tabs' \in Tabs /\ puts' \subseteq Saves
    BY <2>1, <2>3, StoredType, PutType DEF TypeOK, Tabs, Saves
  <2>5. [D EXCEPT !.resolved = TRUE, !.accepted = x] \in Review
    BY <2>2 DEF Review
  <2>6. AtMostOne(diff', Review)
    BY <2>1, <2>5, NoneOrOne
  <2>7. pane' # "closed" /\ clicks' \in 0..MaxClicks
    BY <2>1, ClickType
  <2> QED BY <2>1, <2>3, <2>4, <2>6, <2>7 DEF TypeOK, Tabs, Saves
<1>12. ASSUME NEW x \in BOOLEAN, ResolveAll(x) PROVE TypeOK'
  <2>1. PICK D \in diff :
          LET b == IF D.resolved THEN Decided(box, FALSE) ELSE IF x THEN D.new ELSE D.old IN
            /\ Click /\ pane = "open"
            /\ diff' = {}
            /\ box' = b /\ tabs' = Stored(tabs, active, b) /\ puts' = puts \cup Put(active, b)
            /\ UNCHANGED <<exitTimer, anim, timer, fresh, astray, view, calls, data>>
    BY <1>12 DEF ResolveAll
  <2>2. D \in Review
    BY DEF TypeOK, AtMostOne
  <2>3. box' \in Text
    BY <2>1, <2>2, DecidedType DEF Review, TypeOK
  <2>4. tabs' \in Tabs /\ puts' \subseteq Saves
    BY <2>1, <2>3, StoredType, PutType DEF TypeOK, Tabs, Saves
  <2>5. pane' # "closed" /\ clicks' \in 0..MaxClicks /\ diff' = {}
    BY <2>1, ClickType
  <2> QED BY <2>1, <2>3, <2>4, <2>5, NoneOrOne DEF TypeOK, Tabs, Saves
<1> QED BY TypeTyped, <1>2, <1>3, <1>4, <1>5, <1>6, <1>7, <1>8, <1>9, <1>10, <1>11, <1>12 DEF User

LEMMA TimerTypes ==
  ASSUME TypeOK, Timers
  PROVE  TypeOK'
<1> USE DEF view, calls, data
<1>1. CASE Autosave
  BY <1>1, SaveTypes DEF Autosave, TypeOK, Tabs, Saves
<1>2. CASE FinishClose
  BY <1>2, Texts, NoneOrOne DEF FinishClose, TypeOK
<1>3. CASE ExitFires
  <2>1. box' \in Text /\ tabs' \in Tabs /\ puts' \subseteq Saves
    BY <1>3, ExitTypes DEF ExitFires, ExitDiff, TypeOK, Saves
  <2>2. diff' = {} /\ exitTimer' = FALSE
    BY <1>3 DEF ExitFires, ExitDiff
  <2>3. pane = "closed" => box' = Blank
    BY <1>3 DEF ExitFires, ExitDiff, ExitBox, Mounted, TypeOK
  <2> QED BY <1>3, <2>1, <2>2, <2>3, NoneOrOne DEF ExitFires, TypeOK, Tabs, Saves
<1>4. ASSUME NEW last \in BOOLEAN, AnimTick(last) PROVE TypeOK'
  <2>1. PICK a \in anim :
          /\ box' = IF last THEN a.text ELSE [of |-> a.text.of, t |-> "torn"]
          /\ anim' = IF last THEN {} ELSE anim
          /\ astray' = (astray \/ active \notin {a.of, NoDoc})
          /\ UNCHANGED <<clicks, tabs, diff, exitTimer, timer, puts, fresh, view, calls, data>>
    BY <1>4 DEF AnimTick
  <2>2. a \in Edits /\ pane # "closed"
    BY DEF TypeOK, AtMostOne, Edits
  <2>3. a.text \in Text /\ a.text.of \in Key \cup {NoDoc}
    BY <2>2 DEF Edits, Text
  <2>4. box' \in Text
    BY <2>1, <2>3, Texts DEF Names
  <2>5. AtMostOne(anim', [of : Doc, text : Text])
    BY <2>1, NoneOrOne DEF TypeOK
  <2>6. astray' \in BOOLEAN
    BY <2>1 DEF TypeOK
  <2> QED BY <2>1, <2>2, <2>4, <2>5, <2>6 DEF TypeOK
<1> QED BY <1>1, <1>2, <1>3, <1>4 DEF Timers

-----------------------------------------------------------------------------

LEMMA LoadedTypes ==
  ASSUME TypeOK, Loaded
  PROVE  TypeOK'
<1> USE DEF view, calls, data
<1> DEFINE alive == {d \in Doc \ hidden : server[d] # Absent}
           full == [k \in Key |-> IF k \in alive /\ tabs[k] = Absent THEN server[k] ELSE tabs[k]]
<1>1. pane' = "open" /\ AtMostOne(chip', Key \cup {NoDoc}) /\ AtMostOne(anim', Edits) /\ loading' = FALSE
  BY NoneOrOne DEF Loaded, OpenPane, TypeOK, Edits
<1>2. full \in Tabs
  BY DEF TypeOK, Tabs
<1>3. \A d \in alive : d \in Open(full)
  BY DEF Open, Key
<1>4. CASE active' = NoDoc /\ box' = Blank /\ UNCHANGED <<tabs, puts, hidden, diff, fresh>>
  BY <1>1, <1>4, Texts DEF Loaded, TypeOK, Edits
<1>5. ASSUME NEW d \in alive, SwitchDoc(full, Shown(box), d, {})
      PROVE  TypeOK'
  <2>1. d \in Open(full) /\ d \in Key
    BY <1>3 DEF Key
  <2>2. Shown(box) \in Text
    BY Texts DEF Shown, TypeOK
  <2> HIDE DEF full
  <2>3. tabs' \in Tabs /\ box' \in Text /\ hidden' \subseteq Doc /\ puts' \subseteq Saves
    BY <1>2, <1>5, <2>1, <2>2, SwitchedType DEF SwitchDoc, TypeOK, Saves
  <2>4. diff' = {} /\ fresh' = FALSE /\ active' = d
    BY <1>5 DEF SwitchDoc
  <2> QED BY <1>1, <2>1, <2>3, <2>4, NoneOrOne DEF Loaded, TypeOK, Tabs, Saves, Edits
<1> HIDE DEF full
<1> QED BY <1>4, <1>5 DEF Loaded, full

LEMMA CreatedTypes ==
  ASSUME TypeOK, NEW d \in Doc, Created(d)
  PROVE  TypeOK'
<1> USE DEF view, calls, data
<1> DEFINE b == Shown(box)
           typed == b # Blank /\ TRUE \in creating
           s == Switched([tabs EXCEPT ![d] = Blank], b, d)
           text == IF typed THEN Owned(b, d) ELSE Blank
<1>1. pane' = "open" /\ AtMostOne(chip', Key \cup {NoDoc}) /\ AtMostOne(anim', Edits) /\ creating' = {}
  BY NoneOrOne DEF Created, OpenPane, TypeOK, Edits
<1>2. [tabs EXCEPT ![d] = Blank] \in Tabs /\ d \in Key
  BY Texts DEF TypeOK, Tabs, Key
<1>3. d \in Open([tabs EXCEPT ![d] = Blank])
  BY <1>2, Texts DEF Open, TypeOK, Tabs, Blank, Absent
<1>4. b \in Text
  BY Texts DEF Shown, TypeOK
<1>5. text \in Text
  BY <1>2, <1>4, Texts, OwnedType
<1>6. s.tabs \in Tabs /\ s.hidden \subseteq Doc /\ s.puts \subseteq Saves
  BY <1>2, <1>3, <1>4, SwitchedType
<1>7. /\ tabs' = [s.tabs EXCEPT ![d] = text] /\ box' = text /\ active' = d /\ diff' = {}
      /\ puts' = puts \cup s.puts /\ hidden' = hidden \cup s.hidden
      /\ timer' = (timer \/ typed) /\ fresh' = typed
      /\ astray' = (astray \/ (typed /\ b.of \notin {NoDoc, d}))
      /\ server' = [server EXCEPT ![d] = Blank]
  BY DEF Created
<1>8. typed \in BOOLEAN
  OBVIOUS
<1> HIDE DEF s, text, b, typed
<1>9. tabs' \in Tabs
  BY <1>2, <1>5, <1>6, <1>7 DEF Tabs
<1>10. server' \in [Doc -> Text \cup {Absent}]
  BY <1>7, Texts DEF TypeOK
<1>11. timer' \in BOOLEAN /\ fresh' \in BOOLEAN /\ astray' \in BOOLEAN
  <2>1. (timer \/ typed) \in BOOLEAN
    OBVIOUS
  <2>2. (astray \/ (typed /\ b.of \notin {NoDoc, d})) \in BOOLEAN
    OBVIOUS
  <2>3. timer' = (timer \/ typed) /\ fresh' = typed /\ astray' = (astray \/ (typed /\ b.of \notin {NoDoc, d}))
    BY <1>7
  <2>4. timer' \in BOOLEAN
    BY <2>1, <2>3, Zenon
  <2>5. astray' \in BOOLEAN
    BY <2>2, <2>3, Zenon
  <2>6. fresh' \in BOOLEAN
    BY <1>8, <2>3, Zenon
  <2> QED BY <2>4, <2>5, <2>6
<1>12. puts' \subseteq Saves /\ hidden' \subseteq Doc
  BY <1>6, <1>7 DEF TypeOK, Saves
<1>13. box' \in Text /\ active' \in Key \cup {NoDoc}
  BY <1>2, <1>5, <1>7
<1>14. AtMostOne(creating', BOOLEAN) /\ AtMostOne(diff', Review)
  BY <1>1, <1>7, NoneOrOne
<1>15. UNCHANGED <<clicks, exitTimer, stream, auto, compare, loading, event, prev, named, guests, used, settled>>
  BY DEF Created
<1> QED BY <1>1, <1>9, <1>10, <1>11, <1>12, <1>13, <1>14, <1>15 DEF TypeOK, Tabs, Saves, Edits

LEMMA AutoCreatedTypes ==
  ASSUME TypeOK, NEW d \in Doc, AutoCreated(d)
  PROVE  TypeOK'
<1> USE DEF view, calls, data
<1>1. PICK content \in auto :
        /\ auto' = {}
        /\ server' = [server EXCEPT ![d] = Owned(content, d)]
        /\ settled' = settled \cup {content.t}
        /\ tabs' = [tabs EXCEPT ![d] = Owned(content, d)]
        /\ active' = d /\ box' = Owned(box, d) /\ named' = named \cup {d}
        /\ timer' = TRUE
        /\ astray' = (astray \/ active # NoDoc \/ diff # {} \/ box.of # NoDoc)
        /\ UNCHANGED <<clicks, diff, exitTimer, anim, puts, fresh, pane, chip, stream, creating, compare, loading, event, prev, hidden, guests, used>>
  BY DEF AutoCreated
<1>2. content \in [of : {NoDoc}, t : Typed] /\ d \in Key
  BY DEF TypeOK, AtMostOne, Key
<1>8. content \in Text
  BY <1>2 DEF Text
<1>3. Owned(content, d) \in Text /\ Owned(box, d) \in Text
  BY <1>2, <1>8, OwnedType DEF TypeOK
<1>4. server' \in [Doc -> Text \cup {Absent}] /\ tabs' \in Tabs
  BY <1>1, <1>2, <1>3 DEF TypeOK, Tabs
<1>5. settled' \subseteq Typed
  BY <1>1, <1>2 DEF TypeOK
<1>6. pane = "closed" => box' = Blank
  BY <1>1 DEF TypeOK, Owned
<1>7. astray' \in BOOLEAN
  BY <1>1 DEF TypeOK
<1> QED BY <1>1, <1>2, <1>3, <1>4, <1>5, <1>6, <1>7, NoneOrOne DEF TypeOK, Tabs

LEMMA AnswerTypes ==
  ASSUME TypeOK, Answers
  PROVE  TypeOK'
<1> USE DEF view, calls, data
<1>1. CASE LoadFails
  <2>1. pane' = "open" /\ AtMostOne(chip', Key \cup {NoDoc}) /\ AtMostOne(anim', Edits) /\ loading' = FALSE
    BY <1>1, NoneOrOne DEF LoadFails, OpenPane, TypeOK, Edits
  <2> QED BY <1>1, <2>1, Texts DEF LoadFails, TypeOK, Edits
<1>2. CASE CreateFails
  BY <1>2, NoneOrOne DEF CreateFails, TypeOK
<1>3. CASE AutoFails
  BY <1>3, NoneOrOne DEF AutoFails, TypeOK
<1>4. CASE CompareFails
  BY <1>4, NoneOrOne DEF CompareFails, TypeOK
<1>5. CASE Compared
  <2>1. PICK c \in compare :
          /\ compare' = {}
          /\ IF prev[c.of] \in {Absent, c.text}
             THEN UNCHANGED <<tabs, box, puts, diff, astray>>
             ELSE /\ box' = ExitBox(TRUE) /\ tabs' = ExitTabs(TRUE) /\ puts' = puts \cup ExitPuts(TRUE)
                  /\ diff' = {[of |-> c.of, old |-> prev[c.of], new |-> c.text, resolved |-> FALSE, accepted |-> FALSE]}
                  /\ astray' = (astray \/ active \notin {c.of, NoDoc})
          /\ UNCHANGED <<clicks, exitTimer, anim, timer, fresh, view, creating, auto, loading, event, data>>
    BY <1>5 DEF Compared
  <2>2. c.of \in Doc /\ c.text \in Text
    BY DEF TypeOK, AtMostOne
  <2>3. CASE prev[c.of] \in {Absent, c.text}
    BY <2>1, <2>3, NoneOrOne DEF TypeOK
  <2>4. CASE prev[c.of] \notin {Absent, c.text}
    <3>1. box' = ExitBox(TRUE) /\ box' \in Text /\ tabs' \in Tabs /\ puts' \subseteq Saves
      BY <2>1, <2>4, ExitTypes DEF TypeOK, Saves
    <3>2. [of |-> c.of, old |-> prev[c.of], new |-> c.text, resolved |-> FALSE, accepted |-> FALSE] \in Review
      BY <2>2, <2>4 DEF Review, TypeOK, Key
    <3>3. AtMostOne(diff', Review)
      BY <2>1, <2>4, <3>2, NoneOrOne
    <3>4. pane = "closed" => box' = Blank
      BY <3>1 DEF ExitBox, Mounted, TypeOK
    <3>5. astray' \in BOOLEAN
      BY <2>1, <2>4 DEF TypeOK
    <3> QED BY <2>1, <3>1, <3>3, <3>4, <3>5, NoneOrOne DEF TypeOK, Tabs, Saves
  <2> QED BY <2>3, <2>4
<1>6. ASSUME NEW p \in puts, PutReaches(p) PROVE TypeOK'
  <2>1. p \in Saves
    BY DEF TypeOK, Saves
  <2>2. puts' \subseteq Saves
    BY <1>6, <2>1 DEF PutReaches, TypeOK, Saves
  <2>3. p.text \in Text /\ p.doc \in Key
    BY <2>1 DEF Saves
  <2>4. server' \in [Doc -> Text \cup {Absent}]
    BY <1>6, <2>3 DEF PutReaches, TypeOK, Key
  <2>5. settled' \subseteq Typed
    BY <1>6 DEF PutReaches, TypeOK
  <2>6. prev' \in [Doc -> Text \cup {Absent}]
    <3>1. CASE p.doc = Temp
      BY <1>6, <3>1 DEF PutReaches, TypeOK
    <3>2. CASE p.doc # Temp
      <4>1. prev' \in {prev, [prev EXCEPT ![p.doc] = IF server[p.doc] = p.text THEN @ ELSE server[p.doc]]}
        BY <1>6, <3>2 DEF PutReaches
      <4>2. server[p.doc] \in Text \cup {Absent} /\ prev[p.doc] \in Text \cup {Absent}
        BY <2>3, <3>2 DEF TypeOK, Key
      <4> QED BY <4>1, <4>2 DEF TypeOK
    <3> QED BY <3>1, <3>2
  <2> QED BY <1>6, <2>2, <2>4, <2>5, <2>6 DEF PutReaches, TypeOK, Saves
<1>7. ASSUME NEW p \in puts, PutAnswered(p) PROVE TypeOK'
  <2>1. p.text \in Text /\ p.doc \in Key
    BY DEF TypeOK
  <2>2. tabs' \in Tabs
    BY <1>7, <2>1 DEF PutAnswered, TypeOK, Tabs
  <2>3. active' \in Key \cup {NoDoc} /\ puts' \subseteq Saves
    BY <1>7 DEF PutAnswered, TypeOK, Saves
  <2> QED BY <1>7, <2>2, <2>3 DEF PutAnswered, TypeOK, Tabs, Saves
<1>8. ASSUME NEW p \in puts, PutFails(p) PROVE TypeOK'
  <2>1. puts' \subseteq Saves /\ settled' \subseteq Typed
    BY <1>8 DEF PutFails, TypeOK, Saves
  <2> QED BY <1>8, <2>1 DEF PutFails, TypeOK, Saves
<1> QED BY LoadedTypes, CreatedTypes, AutoCreatedTypes, <1>1, <1>2, <1>3, <1>4, <1>5, <1>6, <1>7, <1>8 DEF Answers

-----------------------------------------------------------------------------

LEMMA OpenPaneTypes ==
  ASSUME TypeOK, OpenPane
  PROVE  pane' = "open" /\ AtMostOne(chip', Key \cup {NoDoc}) /\ AtMostOne(anim', Edits)
BY NoneOrOne DEF OpenPane, TypeOK, Edits

(* Equal titles are found within the bound.                                *)
LEMMA SameTypes ==
  ASSUME TypeOK, NEW tb, NEW d, NEW k \in SameTitle(tb, d), TakesIn(k, d)
  PROVE  clicks' \in 0..MaxClicks
BY BoundAssumption DEF TypeOK, SameTitle, TakesIn

LEMMA LandedTypes ==
  ASSUME TypeOK, NEW tb, NEW d, NEW k \in Landing(tb, d), TakesIn(k, d)
  PROVE  clicks' \in 0..MaxClicks
<1>1. CASE k \in SameTitle(tb, d)
  BY <1>1, SameTypes
<1>2. CASE k \notin SameTitle(tb, d)
  <2>1. k = d \/ k \notin named
    BY <1>2 DEF Landing
  <2> QED BY <2>1 DEF TakesIn, TypeOK
<1> QED BY <1>1, <1>2

LEMMA StreamTypes ==
  ASSUME TypeOK, (\E titled \in BOOLEAN : StreamOpen(titled)) \/ StreamDelta
  PROVE  TypeOK'
<1> USE DEF view, calls, data
<1>0. Temp \in Key
  BY DEF Key
<1>1. ASSUME NEW titled \in BOOLEAN, StreamOpen(titled) PROVE TypeOK'
  <2> DEFINE T == ExitTabs(TRUE)
             b == ExitBox(TRUE)
  <2>1. b \in Text /\ T \in Tabs /\ puts' \subseteq Saves /\ AtMostOne(diff', Review)
    BY <1>1, ExitTypes, NoneOrOne DEF StreamOpen, TypeOK, Saves
  <2>2. /\ UNCHANGED <<exitTimer, timer, astray, creating, auto, compare, loading, event, server, prev, hidden, used, settled>>
        /\ clicks' \in 0..MaxClicks
    <3>1. clicks' = clicks \/ (stream' \in SameTitle(T, Temp) /\ TakesIn(stream', Temp))
      BY <1>1 DEF StreamOpen
    <3> HIDE DEF T
    <3>2. clicks' \in 0..MaxClicks
      BY <3>1, SameTypes DEF TypeOK
    <3> QED BY <1>1, <3>2 DEF StreamOpen
  <2>3. pane = "closed" => b = Blank
    BY DEF ExitBox, Mounted, TypeOK
  <2>4. named' \subseteq Key /\ guests' \subseteq Key \X Key
    <3>1. named' \subseteq named \cup Key
      <4>1. \/ named' \in {named, named \cup {Temp}, named \ {Temp}}
            \/ stream \in Open(T) /\ named' = named \cup {stream}
        BY <1>1 DEF StreamOpen
      <4>2. Open(T) \subseteq Key
        BY DEF Open
      <4> HIDE DEF T
      <4> QED BY <1>0, <4>1, <4>2
    <3>2. guests' = guests \/ (stream' \in Key /\ guests' = guests \cup {<<stream', Temp>>})
      BY <1>0, <1>1, DocAssumption DEF StreamOpen, SameTitle, TakesIn, Open
    <3>3. named \subseteq Key /\ guests \subseteq Key \X Key
      BY DEF TypeOK
    <3>4. \A k \in Key : <<k, Temp>> \in Key \X Key
      BY <1>0
    <3> QED BY <3>1, <3>2, <3>3, <3>4
  <2>5. \/ tabs' = T /\ box' = b /\ UNCHANGED <<active, pane, chip, anim, stream, fresh>>
        \/ /\ stream' \in Key /\ tabs' \in {T, [T EXCEPT ![Temp] = Blank]}
           /\ active' = stream' /\ OpenPane /\ box' = Blank /\ fresh' = FALSE
    BY <1>0, <1>1 DEF StreamOpen, SameTitle, Open
  <2> HIDE DEF T, b
  <2>6. CASE tabs' = T /\ box' = b /\ UNCHANGED <<active, pane, chip, anim, stream, fresh>>
    BY <2>1, <2>2, <2>3, <2>4, <2>6 DEF TypeOK, Tabs, Saves
  <2>7. CASE /\ stream' \in Key /\ tabs' \in {T, [T EXCEPT ![Temp] = Blank]}
             /\ active' = stream' /\ OpenPane /\ box' = Blank /\ fresh' = FALSE
    <3>1. tabs' \in Tabs
      BY <1>0, <2>1, <2>7, TabType, Texts, Zenon
    <3>2. pane' = "open" /\ AtMostOne(chip', Key \cup {NoDoc}) /\ AtMostOne(anim', Edits)
      BY <2>7, OpenPaneTypes
    <3>3. box' \in Text /\ active' \in Key \cup {NoDoc} /\ stream' \in Key \cup {NoDoc} /\ fresh' = FALSE
      BY <2>7, Texts
    <3> QED BY <2>1, <2>2, <2>4, <3>1, <3>2, <3>3 DEF TypeOK, Tabs, Saves, Edits
  <2> QED BY <2>5, <2>6, <2>7
<1>2. CASE StreamDelta
  <2>1. [of |-> Temp, t |-> "partial"] \in Text
    BY Texts DEF Names, Key
  <2>2. tabs' \in Tabs
    BY <1>2, <2>1, StoredType DEF StreamDelta, TypeOK, Tabs
  <2>3. box' \in Text /\ (pane = "closed" => box' = Blank)
    BY <1>2, <2>1 DEF StreamDelta, TypeOK, Mounted
  <2> QED BY <1>2, <2>2, <2>3 DEF StreamDelta, TypeOK, Tabs
<1> QED BY <1>1, <1>2

LEMMA AgentWritesTypes ==
  ASSUME TypeOK, NEW d \in Doc, NEW t \in Written, AgentWrites(d, t)
  PROVE  TypeOK'
<1> USE DEF view, calls, data
<1>1. [of |-> d, t |-> t] \in Text
  BY Texts DEF Names, Key
<1>2. server' \in [Doc -> Text \cup {Absent}]
  BY <1>1 DEF AgentWrites, TypeOK
<1>3. prev' \in [Doc -> Text \cup {Absent}]
  BY DEF AgentWrites, TypeOK
<1>4. AtMostOne(event', Events)
  <2>1. [doc |-> d, t |-> t, left |-> 2] \in Events
    BY DEF Events
  <2> QED BY <2>1, NoneOrOne DEF AgentWrites
<1>5. used' \subseteq Typed \cup Written
  BY DEF AgentWrites, TypeOK
<1> QED BY <1>2, <1>3, <1>4, <1>5 DEF AgentWrites, TypeOK, Events

LEMMA UpdateTypes ==
  ASSUME TypeOK, Update
  PROVE  TypeOK'
<1> USE DEF calls, data
<1> DEFINE T == ExitTabs(TRUE)
           b == ExitBox(TRUE)
<1>1. T \in Tabs /\ b \in Text /\ ExitPuts(TRUE) \subseteq Saves
  BY ExitTypes
<1> HIDE DEF T, b
<1>2. PICK e \in event : \E d \in Landing(Migrated(T, e.doc), e.doc), old \in {b, Blank} :
          /\ event' = IF e.left = 1 THEN {} ELSE {[e EXCEPT !.left = 1]}
          /\ stream' = NoDoc
          /\ tabs' = [Migrated(T, e.doc) EXCEPT ![d] = [of |-> e.doc, t |-> e.t]]
          /\ puts' = puts \cup ExitPuts(TRUE)
          /\ active' = d /\ named' = (named \ {Temp}) \cup {d} /\ fresh' = FALSE
          /\ TakesIn(d, e.doc)
          /\ pane' = "open" /\ chip' = IF pane = "open" THEN chip ELSE {}
          /\ \/ Present(d, old, [of |-> e.doc, t |-> e.t], b)
             \/ /\ box' = Shown([of |-> e.doc, t |-> e.t]) /\ diff' = {}
                /\ anim' = IF pane = "open" THEN anim ELSE {}
          /\ UNCHANGED <<exitTimer, timer, astray, creating, auto, compare, loading, server, prev, hidden, used, settled>>
  BY DEF Update, T, b
<1>3. e \in Events
  BY DEF TypeOK, AtMostOne, Events
<1>4. Landing(Migrated(T, e.doc), e.doc) \subseteq Doc
  BY <1>3, DocAssumption DEF Landing, SameTitle, Events, Open, Key
<1>5. PICK d \in Doc, old \in {b, Blank} :
          /\ event' = IF e.left = 1 THEN {} ELSE {[e EXCEPT !.left = 1]}
          /\ stream' = NoDoc
          /\ tabs' = [Migrated(T, e.doc) EXCEPT ![d] = [of |-> e.doc, t |-> e.t]]
          /\ puts' = puts \cup ExitPuts(TRUE)
          /\ active' = d /\ named' = (named \ {Temp}) \cup {d} /\ fresh' = FALSE
          /\ TakesIn(d, e.doc)
          /\ pane' = "open" /\ chip' = IF pane = "open" THEN chip ELSE {}
          /\ \/ Present(d, old, [of |-> e.doc, t |-> e.t], b)
             \/ /\ box' = Shown([of |-> e.doc, t |-> e.t]) /\ diff' = {}
                /\ anim' = IF pane = "open" THEN anim ELSE {}
          /\ UNCHANGED <<exitTimer, timer, astray, creating, auto, compare, loading, server, prev, hidden, used, settled>>
          /\ clicks' \in 0..MaxClicks
  BY <1>2, <1>4, LandedTypes
<1> DEFINE text == [of |-> e.doc, t |-> e.t]
<1>6. text \in Text /\ old \in Text
  BY <1>1, <1>3, Texts DEF Names, Events, Key
<1>7. tabs' \in Tabs
  <2>1. Migrated(T, e.doc) \in Tabs
    BY <1>1, <1>3, Texts DEF Migrated, Tabs, Key, Events
  <2>2. \A tb \in Tabs : [tb EXCEPT ![d] = text] \in Tabs
    BY <1>6 DEF Tabs, Key
  <2> QED BY <1>5, <2>1, <2>2
<1>8. AtMostOne(event', Events)
  <2>1. [e EXCEPT !.left = 1] \in Events
    BY <1>3, EventType
  <2> QED BY <1>5, <2>1, NoneOrOne
<1> HIDE DEF text
<1>9. Shown(b) \in Text /\ Shown(text) \in Text
  BY <1>1, <1>6, Texts DEF Shown
<1>10. AtMostOne(anim', Edits)
  <2>1. [of |-> d, text |-> text] \in Edits
    BY <1>6, EditType
  <2>2. AtMostOne(anim, Edits)
    BY DEF TypeOK, Edits
  <2>3. anim' \in {anim, {}, {[of |-> d, text |-> text]}}
    BY <1>5 DEF Present, text
  <2> QED BY <2>1, <2>2, <2>3, NoneOrOne
<1>11. AtMostOne(diff', Review)
  <2>1. [of |-> d, old |-> old, new |-> text, resolved |-> FALSE, accepted |-> FALSE] \in Review
    BY <1>6 DEF Review, Key
  <2>2. diff' \in {{}, {[of |-> d, old |-> old, new |-> text, resolved |-> FALSE, accepted |-> FALSE]}}
    BY <1>5 DEF Present, text
  <2> QED BY <2>1, <2>2, NoneOrOne
<1>12. box' \in Text
  <2>1. box' \in {Shown(b), Shown(text), text}
    BY <1>5 DEF Present, text
  <2> QED BY <1>6, <1>9, <2>1
<1>13. AtMostOne(chip', Key \cup {NoDoc})
  <2>1. AtMostOne(chip, Key \cup {NoDoc}) /\ chip' \in {chip, {}}
    BY <1>5 DEF TypeOK
  <2> QED BY <2>1, NoneOrOne
<1>14. puts' \subseteq Saves
  BY <1>1, <1>5 DEF TypeOK, Saves
<1>15. active' \in Key \cup {NoDoc} /\ named' \subseteq Key /\ fresh' = FALSE
  BY <1>5 DEF TypeOK, Key
<1>16. guests' \subseteq Key \X Key
  BY <1>3, <1>5 DEF TypeOK, TakesIn, Key, Events
<1> QED BY <1>5, <1>7, <1>8, <1>10, <1>11, <1>12, <1>13, <1>14, <1>15, <1>16 DEF TypeOK, Tabs, Saves, Edits, Events

LEMMA AgentTypes ==
  ASSUME TypeOK, Agent
  PROVE  TypeOK'
BY StreamTypes, AgentWritesTypes, UpdateTypes DEF Agent

LEMMA NextTypes == TypeOK /\ [Next]_vars => TypeOK'
<1> SUFFICES ASSUME TypeOK, [Next]_vars PROVE TypeOK'
  OBVIOUS
<1>1. CASE UNCHANGED vars
  BY <1>1 DEF vars, view, calls, data, TypeOK
<1> QED BY <1>1, UserTypes, TimerTypes, AnswerTypes, AgentTypes DEF Next

(* Every text, tab, save, review and answer is of its type, and a pane     *)
(* that is gone has a blank text box that no animation writes to.          *)
THEOREM TypeCorrect == Spec => []TypeOK
BY InitTypes, NextTypes, PTL DEF Spec

-----------------------------------------------------------------------------
(* No text goes to another document.  A text is that of document k, or of  *)
(* none yet, or of a guest of its tab; the invariant says so of every      *)
(* place a text can be in.                                                 *)

OwnedBy(G, text, k) == text.of \in {k, NoDoc} \/ <<k, text.of>> \in G
OwnTabs(G, tb) == \A k \in Key : OwnedBy(G, tb[k], k)
OwnServer(G, sv, pv) == \A d \in Doc : OwnedBy(G, sv[d], d) /\ OwnedBy(G, pv[d], d)
OwnPuts(G, P) == \A p \in P : OwnedBy(G, p.text, p.doc)
OwnBox(G, b, a) == a # NoDoc => OwnedBy(G, b, a)
OwnDiff(G, df, a) ==
  \A D \in df : OwnedBy(G, D.old, D.of) /\ OwnedBy(G, D.new, D.of) /\ a \in {D.of, NoDoc}
OwnEdits(G, E) == \A c \in E : OwnedBy(G, c.text, c.of)
Kept ==
  /\ OwnServer(guests, server, prev) /\ OwnTabs(guests, tabs) /\ OwnPuts(guests, puts)
  /\ OwnBox(guests, box, active) /\ OwnDiff(guests, diff, active)
  /\ OwnEdits(guests, compare) /\ OwnEdits(guests, anim)
OwnInv == ~astray => Kept

(* A stream is the guest of a tab that it has taken.                       *)
Hosted == stream \in {NoDoc, Temp} \/ <<stream, Temp>> \in guests

(* What a step shows that takes no further guest in.                       *)
Stays ==
  /\ OwnServer(guests, server', prev') /\ OwnTabs(guests, tabs') /\ OwnPuts(guests, puts')
  /\ OwnBox(guests, box', active') /\ OwnDiff(guests, diff', active')
  /\ OwnEdits(guests, compare') /\ OwnEdits(guests, anim')

LEMMA Grown ==
  ASSUME NEW G, NEW H, G \subseteq H
  PROVE  /\ \A x, k : OwnedBy(G, x, k) => OwnedBy(H, x, k)
         /\ \A tb : OwnTabs(G, tb) => OwnTabs(H, tb)
         /\ \A sv, pv : OwnServer(G, sv, pv) => OwnServer(H, sv, pv)
         /\ \A P : OwnPuts(G, P) => OwnPuts(H, P)
         /\ \A b, k : OwnBox(G, b, k) => OwnBox(H, b, k)
         /\ \A df, k : OwnDiff(G, df, k) => OwnDiff(H, df, k)
         /\ \A E : OwnEdits(G, E) => OwnEdits(H, E)
<1>1. \A x, k : OwnedBy(G, x, k) => OwnedBy(H, x, k)
  BY DEF OwnedBy
<1>2. \A tb : OwnTabs(G, tb) => OwnTabs(H, tb)
  BY <1>1 DEF OwnTabs
<1>3. \A sv, pv : OwnServer(G, sv, pv) => OwnServer(H, sv, pv)
  BY <1>1 DEF OwnServer
<1>4. \A P : OwnPuts(G, P) => OwnPuts(H, P)
  BY <1>1 DEF OwnPuts
<1>5. \A b, k : OwnBox(G, b, k) => OwnBox(H, b, k)
  BY <1>1 DEF OwnBox
<1>6. \A df, k : OwnDiff(G, df, k) => OwnDiff(H, df, k)
  BY <1>1 DEF OwnDiff
<1>7. \A E : OwnEdits(G, E) => OwnEdits(H, E)
  BY <1>1 DEF OwnEdits
<1> QED BY <1>1, <1>2, <1>3, <1>4, <1>5, <1>6, <1>7

LEMMA StaysKept == Stays /\ guests \subseteq guests' => Kept'
BY Grown DEF Stays, Kept

LEMMA BlankOwned == \A G, k : OwnedBy(G, Blank, k) /\ OwnedBy(G, Absent, k)
BY DEF OwnedBy, Blank, Absent

LEMMA NoneOwned ==
  \A G, a : OwnPuts(G, {}) /\ OwnDiff(G, {}, a) /\ OwnEdits(G, {}) /\ OwnBox(G, Blank, a)
BY BlankOwned DEF OwnPuts, OwnDiff, OwnEdits, OwnBox

LEMMA UnionOwned == \A G, P, Q : OwnPuts(G, P) /\ OwnPuts(G, Q) => OwnPuts(G, P \cup Q)
BY DEF OwnPuts

LEMMA TabOwned ==
  ASSUME NEW G, NEW tb \in Tabs, OwnTabs(G, tb), NEW k \in Key, NEW b, OwnedBy(G, b, k)
  PROVE  OwnTabs(G, [tb EXCEPT ![k] = b])
BY DEF OwnTabs, Tabs

LEMMA StoredOwned ==
  ASSUME NEW G, NEW tb \in Tabs, OwnTabs(G, tb), NEW a, NEW b, OwnBox(G, b, a)
  PROVE  OwnTabs(G, Stored(tb, a, b))
<1>1. CASE a \in Open(tb)
  <2>1. a \in Key /\ a # NoDoc
    BY <1>1, DocAssumption DEF Open, Key
  <2>2. OwnedBy(G, b, a)
    BY <2>1 DEF OwnBox
  <2> QED BY <1>1, <2>1, <2>2, TabOwned DEF Stored
<1>2. CASE a \notin Open(tb)
  BY <1>2 DEF Stored
<1> QED BY <1>1, <1>2

LEMMA PutOwned ==
  ASSUME NEW G, NEW a, NEW b, OwnBox(G, b, a)
  PROVE  OwnPuts(G, Put(a, b))
BY DEF OwnBox, OwnPuts, Put

LEMMA DecidedOwned ==
  ASSUME TypeOK, Kept, NEW b, OwnBox(guests, b, active), NEW x \in BOOLEAN
  PROVE  OwnBox(guests, Decided(b, x), active)
<1>1. CASE diff = {}
  BY <1>1 DEF Decided
<1>2. CASE diff # {}
  <2> DEFINE D == CHOOSE D \in diff : TRUE
  <2>1. D \in diff
    BY <1>2
  <2>2. Decided(b, x) \in {D.new, D.old}
    BY <1>2 DEF Decided
  <2> HIDE DEF D
  <2>3. OwnedBy(guests, D.old, D.of) /\ OwnedBy(guests, D.new, D.of) /\ active \in {D.of, NoDoc}
    BY <2>1 DEF Kept, OwnDiff
  <2> QED BY <2>2, <2>3 DEF OwnBox
<1> QED BY <1>1, <1>2

LEMMA ExitOwned ==
  ASSUME TypeOK, Kept, NEW x \in BOOLEAN
  PROVE  OwnBox(guests, ExitBox(x), active) /\ OwnTabs(guests, ExitTabs(x)) /\ OwnPuts(guests, ExitPuts(x))
<1>1. tabs \in Tabs /\ OwnTabs(guests, tabs) /\ OwnBox(guests, box, active)
  BY DEF TypeOK, Tabs, Kept
<1>2. OwnBox(guests, ExitBox(x), active)
  BY <1>1, DecidedOwned DEF ExitBox
<1>3. OwnTabs(guests, ExitTabs(x))
  BY <1>1, <1>2, StoredOwned DEF ExitTabs
<1>4. OwnPuts(guests, ExitPuts(x))
  BY <1>2, PutOwned, NoneOwned DEF ExitPuts
<1> QED BY <1>2, <1>3, <1>4

LEMMA SwitchedOwned ==
  ASSUME TypeOK, Kept, NEW tb \in Tabs, OwnTabs(guests, tb), NEW b \in Text, OwnBox(guests, b, active), NEW d \in Open(tb)
  PROVE  LET s == Switched(tb, b, d) IN
           OwnTabs(guests, s.tabs) /\ OwnBox(guests, s.box, d) /\ OwnPuts(guests, s.puts)
<1> DEFINE b1 == Decided(b, TRUE)
           stored == Stored(tb, active, b1)
           left == {active} \cap {k \in Key \ (named \cup {d}) : stored[k] = Blank}
           s == Switched(tb, b, d)
<1>0. d \in Key
  BY DEF Open
<1>1. b1 \in Text /\ OwnBox(guests, b1, active)
  BY DecidedType, DecidedOwned
<1> HIDE DEF b1
<1>2. stored \in Tabs /\ OwnTabs(guests, stored)
  BY <1>1, StoredType, StoredOwned
<1> HIDE DEF stored
<1>3. s.tabs = [k \in Key |-> IF k \in left THEN Absent ELSE stored[k]] /\ s.box = stored[d]
  BY DEF Switched, b1, stored
<1>4. s.puts = IF diff = {} \/ active = NoDoc THEN {} ELSE {[doc |-> active, text |-> b1, at |-> "sent"]}
  BY DEF Switched, b1, stored
<1> HIDE DEF s, left
<1>5. OwnTabs(guests, s.tabs)
  BY <1>2, <1>3, BlankOwned DEF OwnTabs
<1>6. OwnBox(guests, s.box, d)
  BY <1>0, <1>2, <1>3 DEF OwnTabs, OwnBox
<1>7. OwnPuts(guests, s.puts)
  BY <1>1, <1>4 DEF OwnPuts, OwnBox
<1> QED BY <1>5, <1>6, <1>7 DEF s

LEMMA SwitchDocOwned ==
  ASSUME TypeOK, Kept, NEW tb \in Tabs, OwnTabs(guests, tb), NEW b \in Text, OwnBox(guests, b, active), NEW d \in Open(tb),
         NEW more, OwnPuts(guests, more), SwitchDoc(tb, b, d, more)
  PROVE  OwnTabs(guests, tabs') /\ OwnBox(guests, box', active') /\ OwnPuts(guests, puts') /\ OwnDiff(guests, diff', active')
<1> DEFINE s == Switched(tb, b, d)
<1>1. OwnTabs(guests, s.tabs) /\ OwnBox(guests, s.box, d) /\ OwnPuts(guests, s.puts)
  BY SwitchedOwned
<1>2. tabs' = s.tabs /\ box' = s.box /\ active' = d /\ puts' = puts \cup s.puts \cup more /\ diff' = {}
  BY DEF SwitchDoc
<1> HIDE DEF s
<1>3. OwnPuts(guests, puts')
  BY <1>1, <1>2, UnionOwned DEF Kept
<1> QED BY <1>1, <1>2, <1>3, NoneOwned

LEMMA DetachOwned ==
  ASSUME TypeOK, Kept, NEW tb \in Tabs, OwnTabs(guests, tb), NEW d \in Key
  PROVE  OwnTabs(guests, Detach(tb, d).tabs) /\ OwnPuts(guests, Detach(tb, d).puts)
<1>1. OwnTabs(guests, Detach(tb, d).tabs)
  BY TabOwned, BlankOwned DEF Detach
<1>2. OwnPuts(guests, Put(active, box))
  BY PutOwned DEF Kept
<1>3. OwnPuts(guests, Detach(tb, d).puts)
  BY <1>2, NoneOwned DEF Detach
<1> QED BY <1>1, <1>3

LEMMA UserOwned ==
  ASSUME TypeOK, Kept, User
  PROVE  Stays
<1> USE DEF view, calls, data
<1>0. box \in Text /\ tabs \in Tabs /\ OwnTabs(guests, tabs) /\ OwnBox(guests, box, active)
  BY DEF TypeOK, Tabs, Kept
<1>1. ASSUME NEW t \in Typed, Type(t) PROVE Stays
  <2>1. OwnBox(guests, box', active')
    BY <1>1 DEF Type, OwnBox, OwnedBy
  <2> QED BY <1>1, <2>1 DEF Type, Kept, Stays
<1>2. CASE SaveNow
  <2>1. OwnTabs(guests, tabs') /\ OwnPuts(guests, puts')
    <3>1. OwnPuts(guests, Put(active, box)) /\ OwnTabs(guests, Stored(tabs, active, box))
      BY <1>0, PutOwned, StoredOwned
    <3>2. tabs' \in {tabs, Stored(tabs, active, box)} /\ puts' = puts \cup Put(active, box)
      BY <1>2 DEF SaveNow, Save
    <3> QED BY <1>0, <3>1, <3>2, UnionOwned DEF Kept, Stays
  <2> QED BY <1>2, <2>1 DEF SaveNow, Kept, Stays
<1>3. CASE Load
  <2>1. OwnBox(guests, box', active') /\ OwnDiff(guests, diff', active')
    BY <1>3 DEF Load, Kept, OwnBox, OwnDiff
  <2> QED BY <1>3, <2>1 DEF Load, Kept, Stays
<1>4. CASE Create
  BY <1>4 DEF Create, Kept, Stays
<1>5. CASE Compare
  <2>1. CASE diff # {}
    <3>1. box' = ExitBox(TRUE) /\ tabs' = ExitTabs(TRUE) /\ puts' = puts \cup ExitPuts(TRUE) /\ diff' = {} /\ compare' = compare
      BY <1>5, <2>1 DEF Compare, ExitDiff
    <3>2. OwnBox(guests, box', active) /\ OwnTabs(guests, tabs') /\ OwnPuts(guests, puts') /\ OwnDiff(guests, diff', active)
      BY <3>1, ExitOwned, UnionOwned, NoneOwned DEF Kept
    <3> QED BY <1>5, <3>1, <3>2 DEF Compare, Kept, Stays
  <2>2. CASE diff = {}
    <3>1. active \in Doc /\ compare' = {[of |-> active, text |-> box]} /\ UNCHANGED <<box, tabs, puts, diff>>
      BY <1>5, <2>2 DEF Compare
    <3>2. active # NoDoc
      BY <3>1, DocAssumption
    <3>3. OwnEdits(guests, compare')
      BY <1>0, <3>1, <3>2 DEF OwnBox, OwnEdits
    <3> QED BY <1>5, <3>1, <3>3 DEF Compare, Kept, Stays
  <2> QED BY <2>1, <2>2
<1>6. ASSUME NEW d \in Key, SwitchTo(d) PROVE Stays
  <2>1. d \in Open(tabs) /\ SwitchDoc(tabs, box, d, {})
    BY <1>6 DEF SwitchTo
  <2>2. OwnTabs(guests, tabs') /\ OwnBox(guests, box', active') /\ OwnPuts(guests, puts') /\ OwnDiff(guests, diff', active')
    BY <1>0, <2>1, SwitchDocOwned, NoneOwned
  <2> QED BY <1>6, <2>2 DEF SwitchTo, Kept, Stays
<1>7. ASSUME NEW d \in Key, CloseTab(d) PROVE Stays
  <2> DEFINE gone == Detach(Stored(tabs, active, box), d)
  <2>1. Stored(tabs, active, box) \in Tabs /\ OwnTabs(guests, Stored(tabs, active, box))
    BY <1>0, StoredType, StoredOwned
  <2>2. gone.tabs \in Tabs /\ OwnTabs(guests, gone.tabs) /\ OwnPuts(guests, gone.puts)
    BY <2>1, DetachType, DetachOwned
  <2>3. UNCHANGED <<server, prev, compare, anim>>
    BY <1>7 DEF CloseTab
  <2>4. OwnPuts(guests, puts \cup gone.puts)
    BY <2>2, UnionOwned DEF Kept
  <2> HIDE DEF gone
  <2>5. CASE /\ tabs' = gone.tabs /\ puts' = puts \cup gone.puts /\ hidden' = hidden \cup gone.hidden
             /\ Slide(FALSE, NoDoc)
             /\ UNCHANGED <<box, diff>>
    <3>1. active' = NoDoc /\ diff' = diff
      BY <2>5 DEF Slide
    <3>2. OwnBox(guests, box', active') /\ OwnDiff(guests, diff', active')
      BY <3>1 DEF Kept, OwnBox, OwnDiff
    <3> QED BY <2>2, <2>3, <2>4, <2>5, <3>2 DEF Kept, Stays
  <2>6. ASSUME NEW next \in Open(gone.tabs), SwitchDoc(gone.tabs, box, next, gone.puts)
        PROVE Stays
    <3>1. OwnTabs(guests, tabs') /\ OwnBox(guests, box', active') /\ OwnPuts(guests, puts') /\ OwnDiff(guests, diff', active')
      BY <1>0, <2>2, <2>6, SwitchDocOwned
    <3> QED BY <2>3, <3>1 DEF Kept, Stays
  <2>7. CASE /\ tabs' = gone.tabs /\ puts' = puts \cup gone.puts /\ hidden' = hidden \cup gone.hidden
             /\ UNCHANGED <<active, pane, chip, box, diff, fresh>>
    BY <2>2, <2>3, <2>4, <2>7 DEF Kept, Stays
  <2> QED BY <1>7, <2>5, <2>6, <2>7 DEF CloseTab, gone
<1>8. ASSUME NEW d \in Key \cup {NoDoc}, Restore(d) PROVE Stays
  <2>1. OwnEdits(guests, anim') /\ UNCHANGED <<server, prev, compare>>
    BY <1>8, NoneOwned DEF Restore, OpenPane, Kept
  <2>2. CASE d \in Open(tabs)
    <3>1. SwitchDoc(tabs, Blank, d, {})
      BY <1>8, <2>2 DEF Restore
    <3>2. OwnTabs(guests, tabs') /\ OwnBox(guests, box', active') /\ OwnPuts(guests, puts') /\ OwnDiff(guests, diff', active')
      BY <1>0, <2>2, <3>1, SwitchDocOwned, NoneOwned, Texts
    <3> QED BY <2>1, <3>2 DEF Kept, Stays
  <2>3. CASE d \notin Open(tabs)
    <3>1. box' = Blank /\ UNCHANGED <<tabs, puts, active, diff>>
      BY <1>8, <2>3 DEF Restore
    <3>2. OwnBox(guests, box', active')
      BY <3>1, NoneOwned
    <3> QED BY <2>1, <3>1, <3>2 DEF Kept, Stays
  <2> QED BY <2>2, <2>3
<1>9. ASSUME NEW d \in Key \cup {NoDoc}, CloseChip(d) PROVE Stays
  <2>1. UNCHANGED <<server, prev, compare, anim, box, active, diff>>
    BY <1>9 DEF CloseChip
  <2>2. OwnTabs(guests, tabs') /\ OwnPuts(guests, puts')
    <3>1. CASE d = NoDoc
      BY <1>9, <3>1 DEF CloseChip, Kept
    <3>2. CASE d # NoDoc
      <4> DEFINE base == IF Mounted THEN Stored(tabs, active, box) ELSE tabs
                 kept == IF tabs[d] \notin {Blank, Absent} THEN base ELSE tabs
                 gone == Detach(tabs, d)
      <4>1. d \in Key
        BY <3>2
      <4>2. base \in Tabs /\ OwnTabs(guests, base)
        BY <1>0, StoredType, StoredOwned
      <4>3. OwnPuts(guests, gone.puts)
        BY <1>0, <4>1, DetachOwned
      <4>4. tabs' = [kept EXCEPT ![d] = Absent] /\ puts' = puts \cup gone.puts
        BY <1>9, <3>2 DEF CloseChip
      <4> HIDE DEF base, gone
      <4>5. kept \in Tabs /\ OwnTabs(guests, kept)
        BY <1>0, <4>2
      <4> HIDE DEF kept
      <4>6. OwnTabs(guests, tabs')
        BY <4>1, <4>4, <4>5, TabOwned, BlankOwned
      <4>7. OwnPuts(guests, puts')
        BY <4>3, <4>4, UnionOwned DEF Kept
      <4> QED BY <4>6, <4>7
    <3> QED BY <3>1, <3>2
  <2> QED BY <2>1, <2>2 DEF Kept, Stays
<1>10. ASSUME NEW x \in BOOLEAN, Close(x) PROVE Stays
  <2>1. OwnTabs(guests, tabs')
    BY <1>0, <1>10, StoredOwned DEF Close
  <2>2. UNCHANGED <<server, prev, compare, anim, box, active, diff, puts>>
    BY <1>10 DEF Close, Slide
  <2> QED BY <2>1, <2>2 DEF Kept, Stays
<1>11. ASSUME NEW x \in BOOLEAN, Resolve(x) \/ ResolveAll(x) PROVE Stays
  <2>0. PICK D \in diff : \E b \in {D.new, D.old, box, Decided(box, FALSE)} :
          /\ box' = b /\ tabs' = Stored(tabs, active, b) /\ puts' = puts \cup Put(active, b)
          /\ diff' \in {{}, {[D EXCEPT !.resolved = TRUE, !.accepted = x]}}
          /\ UNCHANGED <<server, prev, compare, anim, active>>
    BY <1>11 DEF Resolve, ResolveAll
  <2>1. PICK b \in {D.new, D.old, box, Decided(box, FALSE)} :
          /\ box' = b /\ tabs' = Stored(tabs, active, b) /\ puts' = puts \cup Put(active, b)
          /\ diff' \in {{}, {[D EXCEPT !.resolved = TRUE, !.accepted = x]}}
          /\ UNCHANGED <<server, prev, compare, anim, active>>
    BY <2>0
  <2>2. D \in Review /\ OwnedBy(guests, D.old, D.of) /\ OwnedBy(guests, D.new, D.of) /\ active \in {D.of, NoDoc}
    BY DEF TypeOK, AtMostOne, Kept, OwnDiff
  <2>3. OwnBox(guests, Decided(box, FALSE), active)
    BY <1>0, DecidedOwned
  <2>4. OwnBox(guests, b, active)
    BY <1>0, <2>2, <2>3 DEF OwnBox
  <2>5. OwnTabs(guests, tabs') /\ OwnPuts(guests, puts')
    BY <1>0, <2>1, <2>4, StoredOwned, PutOwned, UnionOwned DEF Kept
  <2>6. OwnDiff(guests, diff', active)
    <3> DEFINE N == [D EXCEPT !.resolved = TRUE, !.accepted = x]
    <3>1. N.old = D.old /\ N.new = D.new /\ N.of = D.of
      BY <2>2 DEF Review
    <3> HIDE DEF N
    <3>2. OwnDiff(guests, {N}, active)
      BY <2>2, <3>1 DEF OwnDiff
    <3>3. OwnDiff(guests, {}, active)
      BY NoneOwned
    <3> QED BY <2>1, <3>2, <3>3 DEF N
  <2> QED BY <2>1, <2>4, <2>5, <2>6 DEF Kept, Stays
<1> QED BY <1>1, <1>2, <1>3, <1>4, <1>5, <1>6, <1>7, <1>8, <1>9, <1>10, <1>11 DEF User

LEMMA TimerOwned ==
  ASSUME TypeOK, Kept, Timers, ~astray'
  PROVE  Stays
<1> USE DEF view, calls, data
<1>0. box \in Text /\ tabs \in Tabs /\ OwnTabs(guests, tabs) /\ OwnBox(guests, box, active)
  BY DEF TypeOK, Tabs, Kept
<1>1. CASE Autosave
  <2>1. OwnPuts(guests, Put(active, box)) /\ OwnTabs(guests, Stored(tabs, active, box))
    BY <1>0, PutOwned, StoredOwned
  <2>2. tabs' \in {tabs, Stored(tabs, active, box)} /\ puts' = puts \cup Put(active, box)
    BY <1>1 DEF Autosave, Save
  <2>3. OwnTabs(guests, tabs') /\ OwnPuts(guests, puts')
    BY <1>0, <2>1, <2>2, UnionOwned DEF Kept
  <2> QED BY <1>1, <2>3 DEF Autosave, Kept, Stays
<1>2. CASE FinishClose
  <2>1. OwnBox(guests, box', active') /\ OwnDiff(guests, diff', active') /\ OwnEdits(guests, anim')
    BY <1>2, NoneOwned DEF FinishClose, Kept, OwnDiff
  <2> QED BY <1>2, <2>1 DEF FinishClose, Kept, Stays
<1>3. CASE ExitFires
  <2>1. box' = ExitBox(FALSE) /\ tabs' = ExitTabs(FALSE) /\ puts' = puts \cup ExitPuts(FALSE) /\ diff' = {}
    BY <1>3 DEF ExitFires, ExitDiff
  <2>2. OwnBox(guests, box', active) /\ OwnTabs(guests, tabs') /\ OwnPuts(guests, puts') /\ OwnDiff(guests, diff', active)
    BY <2>1, ExitOwned, UnionOwned, NoneOwned DEF Kept
  <2> QED BY <1>3, <2>2 DEF ExitFires, Kept, Stays
<1>4. ASSUME NEW last \in BOOLEAN, AnimTick(last) PROVE Stays
  <2>1. PICK a \in anim :
          /\ box' = IF last THEN a.text ELSE [of |-> a.text.of, t |-> "torn"]
          /\ anim' = IF last THEN {} ELSE anim
          /\ astray' = (astray \/ active \notin {a.of, NoDoc})
          /\ UNCHANGED <<server, prev, tabs, puts, diff, compare, active>>
    BY <1>4 DEF AnimTick
  <2>2. OwnedBy(guests, a.text, a.of) /\ active \in {a.of, NoDoc}
    BY <2>1 DEF Kept, OwnEdits
  <2>3. OwnBox(guests, box', active)
    BY <2>1, <2>2 DEF OwnBox, OwnedBy
  <2>4. OwnEdits(guests, anim')
    BY <2>1, NoneOwned DEF Kept
  <2> QED BY <2>1, <2>3, <2>4 DEF Kept, Stays
<1> QED BY <1>1, <1>2, <1>3, <1>4 DEF Timers

LEMMA LoadedOwned ==
  ASSUME TypeOK, Kept, Loaded
  PROVE  Stays
<1> USE DEF view, calls, data
<1> DEFINE alive == {d \in Doc \ hidden : server[d] # Absent}
           full == [k \in Key |-> IF k \in alive /\ tabs[k] = Absent THEN server[k] ELSE tabs[k]]
<1>1. OwnEdits(guests, anim') /\ UNCHANGED <<server, prev, compare>>
  BY NoneOwned DEF Loaded, OpenPane, Kept
<1>2. full \in Tabs /\ OwnTabs(guests, full)
  BY DEF TypeOK, Tabs, Kept, OwnTabs, OwnServer, Key
<1>3. \A d \in alive : d \in Open(full)
  BY DEF Open, Key
<1>4. Shown(box) \in Text /\ OwnBox(guests, Shown(box), active)
  BY Texts, NoneOwned DEF Shown, TypeOK, Kept
<1>5. CASE active' = NoDoc /\ box' = Blank /\ UNCHANGED <<tabs, puts, diff>>
  <2>1. OwnBox(guests, box', active') /\ OwnDiff(guests, diff', active')
    BY <1>5, NoneOwned DEF Kept, OwnDiff
  <2> QED BY <1>1, <1>5, <2>1 DEF Kept, Stays
<1>6. ASSUME NEW d \in alive, SwitchDoc(full, Shown(box), d, {})
      PROVE  Stays
  <2>1. d \in Open(full)
    BY <1>3
  <2> HIDE DEF full
  <2>2. OwnTabs(guests, tabs') /\ OwnBox(guests, box', active') /\ OwnPuts(guests, puts') /\ OwnDiff(guests, diff', active')
    BY <1>2, <1>4, <1>6, <2>1, SwitchDocOwned, NoneOwned
  <2> QED BY <1>1, <2>2 DEF Kept, Stays
<1> HIDE DEF full
<1> QED BY <1>5, <1>6 DEF Loaded, full

LEMMA OwnedText ==
  \A b \in Text, d \in Key : b.of \in {NoDoc, d} => OwnedBy(guests, Owned(b, d), d)
BY DEF Owned, OwnedBy, Text

LEMMA CreatedOwned ==
  ASSUME TypeOK, Kept, NEW d \in Doc, Created(d), ~astray'
  PROVE  Stays
<1> USE DEF view, calls, data
<1> DEFINE b == Shown(box)
           typed == b # Blank /\ TRUE \in creating
           s == Switched([tabs EXCEPT ![d] = Blank], b, d)
           text == IF typed THEN Owned(b, d) ELSE Blank
<1>1. OwnEdits(guests, anim') /\ UNCHANGED <<prev, compare>>
  BY NoneOwned DEF Created, OpenPane, Kept
<1>2. d \in Key /\ d # NoDoc
  BY DocAssumption DEF Key
<1>3. [tabs EXCEPT ![d] = Blank] \in Tabs /\ OwnTabs(guests, [tabs EXCEPT ![d] = Blank])
  BY <1>2, TabType, TabOwned, Texts, BlankOwned DEF TypeOK, Tabs, Kept
<1>4. d \in Open([tabs EXCEPT ![d] = Blank])
  BY <1>2, Texts DEF Open, TypeOK, Tabs, Blank, Absent
<1>5. b \in Text /\ OwnBox(guests, b, active)
  BY Texts, NoneOwned DEF Shown, TypeOK, Kept
<1>6. s.tabs \in Tabs /\ OwnTabs(guests, s.tabs) /\ OwnPuts(guests, s.puts)
  BY <1>3, <1>4, <1>5, SwitchedType, SwitchedOwned
<1>7. /\ tabs' = [s.tabs EXCEPT ![d] = text] /\ box' = text /\ active' = d /\ diff' = {}
      /\ puts' = puts \cup s.puts
      /\ astray' = (astray \/ (typed /\ b.of \notin {NoDoc, d}))
      /\ server' = [server EXCEPT ![d] = Blank]
  BY DEF Created
<1>8. OwnedBy(guests, text, d)
  <2>1. CASE typed
    <3>1. b.of \in {NoDoc, d}
      BY <1>7, <2>1
    <3> QED BY <1>2, <1>5, <2>1, <3>1, OwnedText
  <2>2. CASE ~typed
    BY <2>2, BlankOwned
  <2> QED BY <2>1, <2>2
<1> HIDE DEF s, text, b, typed
<1>9. OwnTabs(guests, tabs')
  BY <1>2, <1>6, <1>7, <1>8, TabOwned
<1>10. OwnPuts(guests, puts')
  BY <1>6, <1>7, UnionOwned DEF Kept
<1>11. OwnServer(guests, server', prev)
  BY <1>7, BlankOwned DEF Kept, OwnServer, TypeOK
<1>12. OwnBox(guests, box', active') /\ OwnDiff(guests, diff', active')
  BY <1>7, <1>8, NoneOwned DEF OwnBox
<1> QED BY <1>1, <1>9, <1>10, <1>11, <1>12 DEF Kept, Stays

LEMMA AutoCreatedOwned ==
  ASSUME TypeOK, Kept, NEW d \in Doc, AutoCreated(d), ~astray'
  PROVE  Stays
<1> USE DEF view, calls, data
<1>1. PICK content \in auto :
        /\ server' = [server EXCEPT ![d] = Owned(content, d)]
        /\ tabs' = [tabs EXCEPT ![d] = Owned(content, d)]
        /\ active' = d /\ box' = Owned(box, d)
        /\ astray' = (astray \/ active # NoDoc \/ diff # {} \/ box.of # NoDoc)
        /\ UNCHANGED <<diff, anim, puts, compare, prev>>
  BY DEF AutoCreated
<1>2. content \in [of : {NoDoc}, t : Typed] /\ d \in Key
  BY DEF TypeOK, AtMostOne, Key
<1>3. content \in Text /\ content.of = NoDoc /\ box \in Text /\ box.of = NoDoc /\ diff = {}
  BY <1>1, <1>2 DEF Text, TypeOK
<1>4. OwnedBy(guests, Owned(content, d), d) /\ OwnedBy(guests, Owned(box, d), d)
  BY <1>2, <1>3, OwnedText
<1>5. OwnTabs(guests, tabs')
  BY <1>1, <1>2, <1>4, TabOwned DEF Kept, TypeOK, Tabs
<1>6. OwnServer(guests, server', prev)
  BY <1>1, <1>4 DEF Kept, OwnServer, TypeOK
<1>7. OwnBox(guests, box', active') /\ OwnDiff(guests, diff', active')
  BY <1>1, <1>3, <1>4, NoneOwned DEF OwnBox
<1> QED BY <1>1, <1>5, <1>6, <1>7 DEF Kept, Stays

LEMMA AnswerOwned ==
  ASSUME TypeOK, Kept, Answers, ~astray'
  PROVE  Stays
<1> USE DEF view, calls, data
<1>1. CASE LoadFails
  <2>1. OwnEdits(guests, anim') /\ UNCHANGED <<server, prev, compare, tabs, puts>>
    BY <1>1, NoneOwned DEF LoadFails, OpenPane, Kept
  <2>2. OwnBox(guests, box', active') /\ OwnDiff(guests, diff', active')
    BY <1>1, NoneOwned DEF LoadFails, Kept, OwnDiff
  <2> QED BY <2>1, <2>2 DEF Kept, Stays
<1>2. CASE CreateFails
  BY <1>2 DEF CreateFails, Kept, Stays
<1>3. CASE AutoFails
  BY <1>3 DEF AutoFails, Kept, Stays
<1>4. CASE CompareFails
  <2>1. OwnEdits(guests, compare')
    BY <1>4, NoneOwned DEF CompareFails
  <2> QED BY <1>4, <2>1 DEF CompareFails, Kept, Stays
<1>5. CASE Compared
  <2>1. PICK c \in compare :
          /\ compare' = {}
          /\ IF prev[c.of] \in {Absent, c.text}
             THEN UNCHANGED <<tabs, box, puts, diff, astray>>
             ELSE /\ box' = ExitBox(TRUE) /\ tabs' = ExitTabs(TRUE) /\ puts' = puts \cup ExitPuts(TRUE)
                  /\ diff' = {[of |-> c.of, old |-> prev[c.of], new |-> c.text, resolved |-> FALSE, accepted |-> FALSE]}
                  /\ astray' = (astray \/ active \notin {c.of, NoDoc})
          /\ UNCHANGED <<server, prev, anim, active>>
    BY <1>5 DEF Compared
  <2>2. c.of \in Doc /\ OwnedBy(guests, c.text, c.of) /\ OwnEdits(guests, compare')
    BY <2>1, NoneOwned DEF TypeOK, AtMostOne, Kept, OwnEdits
  <2>3. CASE prev[c.of] \in {Absent, c.text}
    BY <2>1, <2>2, <2>3 DEF Kept, Stays
  <2>4. CASE prev[c.of] \notin {Absent, c.text}
    <3>1. box' = ExitBox(TRUE) /\ tabs' = ExitTabs(TRUE) /\ puts' = puts \cup ExitPuts(TRUE)
      BY <2>1, <2>4
    <3>2. OwnBox(guests, box', active) /\ OwnTabs(guests, tabs') /\ OwnPuts(guests, puts')
      BY <3>1, ExitOwned, UnionOwned DEF Kept
    <3>3. OwnedBy(guests, prev[c.of], c.of) /\ active \in {c.of, NoDoc}
      BY <2>1, <2>2, <2>4 DEF Kept, OwnServer
    <3>4. OwnDiff(guests, diff', active)
      BY <2>1, <2>2, <2>4, <3>3 DEF OwnDiff
    <3> QED BY <2>1, <2>2, <3>2, <3>4 DEF Kept, Stays
  <2> QED BY <2>3, <2>4
<1>6. ASSUME NEW p \in puts, PutReaches(p) PROVE Stays
  <2>0. p.doc \in Key /\ OwnedBy(guests, p.text, p.doc) /\ p \in Saves
    BY DEF TypeOK, Kept, OwnPuts, Saves
  <2>1. OwnPuts(guests, puts')
    <3> DEFINE q == [p EXCEPT !.at = "done"]
    <3>1. q.text = p.text /\ q.doc = p.doc
      BY <2>0 DEF Saves
    <3>2. puts' = (puts \ {p}) \cup {q}
      BY <1>6 DEF PutReaches
    <3> HIDE DEF q
    <3> QED BY <2>0, <3>1, <3>2 DEF OwnPuts, Kept, Stays
  <2>2. OwnServer(guests, server', prev')
    <3>1. CASE p.doc = Temp
      BY <1>6, <3>1 DEF PutReaches, Kept
    <3>2. CASE p.doc # Temp
      <4>1. p.doc \in Doc
        BY <2>0, <3>2 DEF Key
      <4>2. server' = [server EXCEPT ![p.doc] = p.text]
        BY <1>6, <3>2 DEF PutReaches
      <4>3. prev' \in {prev, [prev EXCEPT ![p.doc] = IF server[p.doc] = p.text THEN @ ELSE server[p.doc]]}
        BY <1>6, <3>2 DEF PutReaches
      <4>4. \A d \in Doc : OwnedBy(guests, server'[d], d)
        BY <2>0, <4>1, <4>2 DEF Kept, OwnServer, TypeOK
      <4>5. \A d \in Doc : OwnedBy(guests, prev'[d], d)
        BY <4>1, <4>3 DEF Kept, OwnServer, TypeOK
      <4> QED BY <4>4, <4>5 DEF OwnServer
    <3> QED BY <3>1, <3>2
  <2> QED BY <1>6, <2>1, <2>2 DEF PutReaches, Kept, Stays
<1>7. ASSUME NEW p \in puts, PutAnswered(p) PROVE Stays
  <2>0. p.doc \in Key /\ OwnedBy(guests, p.text, p.doc)
    BY DEF TypeOK, Kept, OwnPuts
  <2>1. OwnTabs(guests, tabs')
    <3>1. tabs' \in {tabs, [tabs EXCEPT ![p.doc] = Absent], [tabs EXCEPT ![p.doc] = p.text]}
      BY <1>7 DEF PutAnswered
    <3> QED BY <2>0, <3>1, TabOwned, BlankOwned DEF TypeOK, Tabs, Kept, Stays
  <2>2. OwnPuts(guests, puts')
    BY <1>7 DEF PutAnswered, Kept, OwnPuts
  <2>3. OwnBox(guests, box', active') /\ OwnDiff(guests, diff', active')
    BY <1>7 DEF PutAnswered, Kept, OwnBox, OwnDiff
  <2> QED BY <1>7, <2>1, <2>2, <2>3 DEF PutAnswered, Kept, Stays
<1>8. ASSUME NEW p \in puts, PutFails(p) PROVE Stays
  <2>1. OwnPuts(guests, puts')
    BY <1>8 DEF PutFails, Kept, OwnPuts
  <2> QED BY <1>8, <2>1 DEF PutFails, Kept, Stays
<1> QED BY LoadedOwned, CreatedOwned, AutoCreatedOwned, <1>1, <1>2, <1>3, <1>4, <1>5, <1>6, <1>7, <1>8 DEF Answers

LEMMA StreamOwned ==
  ASSUME TypeOK, Kept, Hosted, (\E titled \in BOOLEAN : StreamOpen(titled)) \/ StreamDelta
  PROVE  Stays
<1> USE DEF view, calls, data
<1>0. Temp \in Key
  BY DEF Key
<1>1. ASSUME NEW titled \in BOOLEAN, StreamOpen(titled) PROVE Stays
  <2> DEFINE T == ExitTabs(TRUE)
  <2>1. T \in Tabs /\ OwnTabs(guests, T) /\ OwnBox(guests, ExitBox(TRUE), active) /\ OwnPuts(guests, ExitPuts(TRUE))
    BY ExitTypes, ExitOwned
  <2>2. puts' = puts \cup ExitPuts(TRUE) /\ diff' = {} /\ UNCHANGED <<server, prev, compare>>
    BY <1>1 DEF StreamOpen
  <2>3. OwnPuts(guests, puts') /\ OwnDiff(guests, diff', active')
    BY <2>1, <2>2, UnionOwned, NoneOwned DEF Kept
  <2>4. /\ tabs' \in {T, [T EXCEPT ![Temp] = Blank]} /\ anim' \in {anim, {}}
        /\ (box' = ExitBox(TRUE) /\ active' = active) \/ box' = Blank
    BY <1>1 DEF StreamOpen, OpenPane
  <2> HIDE DEF T
  <2>5. OwnTabs(guests, tabs')
    <3>1. OwnTabs(guests, [T EXCEPT ![Temp] = Blank])
      BY <1>0, <2>1, TabOwned, BlankOwned
    <3> QED BY <2>1, <2>4, <3>1
  <2>6. OwnBox(guests, box', active') /\ OwnEdits(guests, anim')
    <3>1. OwnBox(guests, Blank, active') /\ OwnEdits(guests, {}) /\ OwnEdits(guests, anim)
      BY NoneOwned DEF Kept
    <3> QED BY <2>1, <2>4, <3>1
  <2> QED BY <2>2, <2>3, <2>5, <2>6 DEF Kept, Stays
<1>2. CASE StreamDelta
  <2> DEFINE text == [of |-> Temp, t |-> "partial"]
  <2>1. OwnBox(guests, text, stream)
    BY <1>2 DEF Hosted, StreamDelta, OwnBox, OwnedBy
  <2>2. tabs' = Stored(tabs, stream, text) /\ (box' = box \/ (box' = text /\ active = stream))
    BY <1>2 DEF StreamDelta
  <2>3. UNCHANGED <<active, server, prev, compare, anim, diff, puts>>
    BY <1>2 DEF StreamDelta
  <2> HIDE DEF text
  <2>4. OwnTabs(guests, tabs')
    BY <2>1, <2>2, StoredOwned DEF Kept, TypeOK, Tabs
  <2>5. OwnBox(guests, box', active)
    BY <2>1, <2>2 DEF Kept
  <2> QED BY <2>3, <2>4, <2>5 DEF Kept, Stays
<1> QED BY <1>1, <1>2

LEMMA UpdateOwned ==
  ASSUME TypeOK, Kept, Update
  PROVE  Kept'
<1> USE DEF calls, data
<1> DEFINE T == ExitTabs(TRUE)
           b == ExitBox(TRUE)
           H == guests'
<1>1. T \in Tabs /\ OwnTabs(guests, T) /\ OwnBox(guests, b, active) /\ OwnPuts(guests, ExitPuts(TRUE))
  BY ExitTypes, ExitOwned
<1> HIDE DEF T, b
<1>2. PICK e \in event : \E d \in Landing(Migrated(T, e.doc), e.doc) :
          /\ tabs' = [Migrated(T, e.doc) EXCEPT ![d] = [of |-> e.doc, t |-> e.t]]
          /\ puts' = puts \cup ExitPuts(TRUE)
          /\ active' = d
          /\ guests' = IF d = e.doc THEN guests ELSE guests \cup {<<d, e.doc>>}
          /\ \/ d = active /\ Present(d, b, [of |-> e.doc, t |-> e.t], b)
             \/ /\ box' = Shown([of |-> e.doc, t |-> e.t]) /\ diff' = {}
                /\ anim' = IF pane = "open" THEN anim ELSE {}
          /\ UNCHANGED <<compare, server, prev>>
  BY DocAssumption DEF Update, TakesIn, T, b
<1>3. e \in Events
  BY DEF TypeOK, AtMostOne, Events
<1>4. Landing(Migrated(T, e.doc), e.doc) \subseteq Doc
  BY <1>3, DocAssumption DEF Landing, SameTitle, Events, Open, Key
<1>5. PICK d \in Doc :
          /\ tabs' = [Migrated(T, e.doc) EXCEPT ![d] = [of |-> e.doc, t |-> e.t]]
          /\ puts' = puts \cup ExitPuts(TRUE)
          /\ active' = d
          /\ guests' = IF d = e.doc THEN guests ELSE guests \cup {<<d, e.doc>>}
          /\ \/ d = active /\ Present(d, b, [of |-> e.doc, t |-> e.t], b)
             \/ /\ box' = Shown([of |-> e.doc, t |-> e.t]) /\ diff' = {}
                /\ anim' = IF pane = "open" THEN anim ELSE {}
          /\ UNCHANGED <<compare, server, prev>>
  BY <1>2, <1>4
<1> DEFINE text == [of |-> e.doc, t |-> e.t]
<1>6. guests \subseteq H /\ OwnedBy(H, text, d) /\ d \in Key /\ d # NoDoc
  BY <1>5, DocAssumption DEF OwnedBy, Key
<1> HIDE DEF text, H
<1>7. OwnTabs(H, tabs')
  <2> DEFINE M == Migrated(T, e.doc)
  <2>1. M \in Tabs
    BY <1>1, <1>3, Texts DEF Migrated, Tabs, Key, Events
  <2>2. \A k \in Key : M[k] \in {T[k], Blank, Absent}
    BY <1>1, <1>3 DEF Migrated, Tabs, Key, Events
  <2>3. OwnTabs(guests, M)
    BY <1>1, <2>2, BlankOwned DEF OwnTabs
  <2>4. tabs' = [M EXCEPT ![d] = text]
    BY <1>5 DEF text
  <2> HIDE DEF M
  <2>5. OwnTabs(H, M)
    BY <1>6, <2>3, Grown
  <2> QED BY <1>6, <2>1, <2>4, <2>5, TabOwned
<1>8. OwnPuts(H, puts')
  <2>1. OwnPuts(guests, puts')
    BY <1>1, <1>5, UnionOwned DEF Kept
  <2> QED BY <1>6, <2>1, Grown
<1>11. /\ OwnServer(H, server', prev') /\ OwnEdits(H, compare') /\ OwnEdits(H, anim)
       /\ OwnBox(H, b, active)
  <2>1. OwnServer(guests, server', prev') /\ OwnEdits(guests, compare') /\ OwnEdits(guests, anim)
    BY <1>5 DEF Kept
  <2> QED BY <1>1, <1>6, <2>1, Grown
<1>9. CASE /\ box' = Shown(text) /\ diff' = {}
           /\ anim' = IF pane = "open" THEN anim ELSE {}
  <2>1. OwnBox(H, box', active')
    BY <1>5, <1>6, <1>9, BlankOwned DEF Shown, OwnBox
  <2>2. OwnDiff(H, diff', active') /\ OwnEdits(H, anim')
    BY <1>9, <1>11, NoneOwned
  <2> QED BY <1>7, <1>8, <1>11, <2>1, <2>2 DEF Kept, H
<1>10. CASE d = active /\ Present(d, b, text, b)
  <2>1. OwnedBy(H, b, d)
    BY <1>6, <1>10, <1>11 DEF OwnBox
  <2>2. OwnEdits(H, {[of |-> d, text |-> text]})
    BY <1>6 DEF OwnEdits
  <2>3. OwnDiff(H, {[of |-> d, old |-> b, new |-> text, resolved |-> FALSE, accepted |-> FALSE]}, d)
    BY <1>6, <2>1 DEF OwnDiff
  <2>4. box' \in {Shown(b), text} /\ anim' \in {anim, {}, {[of |-> d, text |-> text]}}
    BY <1>10 DEF Present
  <2>5. diff' \in {{}, {[of |-> d, old |-> b, new |-> text, resolved |-> FALSE, accepted |-> FALSE]}}
    BY <1>10 DEF Present
  <2>6. OwnBox(H, box', d)
    BY <1>6, <2>1, <2>4, BlankOwned DEF Shown, OwnBox
  <2>7. OwnDiff(H, diff', d) /\ OwnEdits(H, anim')
    BY <1>11, <2>2, <2>3, <2>4, <2>5, NoneOwned
  <2> QED BY <1>5, <1>7, <1>8, <1>11, <2>6, <2>7 DEF Kept, H
<1> QED BY <1>5, <1>9, <1>10 DEF text

(* A tab that was given to another's text once has been so for good.       *)
LEMMA GuestsStay == TypeOK /\ [Next]_vars => guests \subseteq guests'
<1> SUFFICES ASSUME TypeOK, [Next]_vars PROVE guests \subseteq guests'
  OBVIOUS
<1> USE DEF data
<1>1. CASE UNCHANGED vars
  BY <1>1 DEF vars
<1>2. CASE User
  BY <1>2 DEF User, Type, SaveNow, Load, Create, Compare, SwitchTo, CloseTab, Restore, CloseChip, Close, Resolve, ResolveAll
<1>3. CASE Timers
  BY <1>3 DEF Timers, Autosave, FinishClose, ExitFires, AnimTick
<1>4. CASE Answers
  BY <1>4 DEF Answers, Loaded, LoadFails, CreateFails, AutoFails, Compared, CompareFails, Created, AutoCreated,
              PutReaches, PutAnswered, PutFails
<1>5. CASE Agent
  BY <1>5 DEF Agent, StreamOpen, StreamDelta, Update, AgentWrites, TakesIn
<1> QED BY <1>1, <1>2, <1>3, <1>4, <1>5 DEF Next

LEMMA HostedStays == TypeOK /\ Hosted /\ [Next]_vars => Hosted'
<1> SUFFICES ASSUME TypeOK, Hosted, [Next]_vars PROVE Hosted'
  OBVIOUS
<1>0. ASSUME stream' = stream PROVE Hosted'
  BY <1>0, GuestsStay DEF Hosted
<1> USE DEF view, data
<1>1. CASE UNCHANGED vars
  BY <1>0, <1>1 DEF vars
<1>2. CASE User
  <2>1. stream' = stream
    BY <1>2 DEF User, Type, SaveNow, Load, Create, Compare, SwitchTo, CloseTab, Restore, CloseChip, Close, Resolve, ResolveAll
  <2> QED BY <1>0, <2>1
<1>3. CASE Timers
  <2>1. stream' = stream
    BY <1>3 DEF Timers, Autosave, FinishClose, ExitFires, AnimTick
  <2> QED BY <1>0, <2>1
<1>4. CASE Answers
  <2>1. stream' = stream
    BY <1>4 DEF Answers, Loaded, LoadFails, CreateFails, AutoFails, Compared, CompareFails, Created, AutoCreated,
                PutReaches, PutAnswered, PutFails
  <2> QED BY <1>0, <2>1
<1>5. CASE Agent
  <2>1. ASSUME NEW titled \in BOOLEAN, StreamOpen(titled) PROVE Hosted'
    <3>1. stream' = stream \/ stream' = Temp \/ guests' = guests \cup {<<stream', Temp>>}
      BY <2>1 DEF StreamOpen, TakesIn
    <3> QED BY <1>0, <3>1 DEF Hosted
  <2>2. CASE StreamDelta \/ \E d \in Doc, t \in Written : AgentWrites(d, t)
    BY <1>0, <2>2 DEF StreamDelta, AgentWrites
  <2>3. CASE Update
    BY <2>3 DEF Update, Hosted
  <2> QED BY <1>5, <2>1, <2>2, <2>3 DEF Agent
<1> QED BY <1>1, <1>2, <1>3, <1>4, <1>5 DEF Next

LEMMA AgentOwned ==
  ASSUME TypeOK, Kept, Hosted, Agent, guests \subseteq guests'
  PROVE  Kept'
<1>1. ASSUME NEW d \in Doc, NEW t \in Written, AgentWrites(d, t) PROVE Stays
  <2> USE DEF view, calls, data
  <2>1. OwnServer(guests, server', prev')
    BY <1>1 DEF AgentWrites, Kept, OwnServer, OwnedBy, TypeOK
  <2> QED BY <1>1, <2>1 DEF AgentWrites, Kept, Stays
<1> QED BY <1>1, StreamOwned, UpdateOwned, StaysKept DEF Agent

LEMMA InitOwned == Init => Hosted /\ OwnInv
<1> SUFFICES ASSUME Init PROVE Hosted /\ Kept
  BY DEF OwnInv
<1>1. OwnServer(guests, server, prev) /\ OwnTabs(guests, tabs) /\ active = NoDoc
  BY BlankOwned DEF Init, OwnServer, OwnTabs, OwnedBy, Absent
<1>2. puts = {} /\ diff = {} /\ compare = {} /\ anim = {} /\ box = Blank
  BY DEF Init
<1> QED BY <1>1, <1>2, NoneOwned DEF Init, Hosted, Kept

(* A late callback that has met another document is never forgotten.       *)
LEMMA AstrayStays == TypeOK /\ [Next]_vars /\ astray => astray'
<1> SUFFICES ASSUME TypeOK, [Next]_vars, astray PROVE astray'
  OBVIOUS
<1>1. CASE UNCHANGED vars
  BY <1>1 DEF vars
<1>2. CASE User
  BY <1>2 DEF User, Type, SaveNow, Load, Create, Compare, SwitchTo, CloseTab, Restore, CloseChip, Close, Resolve, ResolveAll
<1>3. CASE Timers
  BY <1>3 DEF Timers, Autosave, FinishClose, ExitFires, AnimTick
<1>4. CASE Answers
  BY <1>4 DEF Answers, Loaded, LoadFails, CreateFails, AutoFails, Compared, CompareFails, Created, AutoCreated,
              PutReaches, PutAnswered, PutFails
<1>5. CASE Agent
  BY <1>5 DEF Agent, StreamOpen, StreamDelta, Update, AgentWrites, TakesIn
<1> QED BY <1>1, <1>2, <1>3, <1>4, <1>5 DEF Next

LEMMA NextOwned == TypeOK /\ Hosted /\ OwnInv /\ [Next]_vars => Hosted' /\ OwnInv'
<1> SUFFICES ASSUME TypeOK, Hosted, OwnInv, [Next]_vars, ~astray' PROVE Kept'
  BY HostedStays DEF OwnInv
<1>1. Kept /\ guests \subseteq guests'
  BY AstrayStays, GuestsStay DEF OwnInv
<1>2. CASE UNCHANGED vars
  BY <1>1, <1>2 DEF vars, view, calls, data, Kept
<1> QED BY <1>1, <1>2, UserOwned, TimerOwned, AnswerOwned, AgentOwned, StaysKept DEF Next

LEMMA SpecOwned == Spec => []OwnInv
BY InitTypes, NextTypes, InitOwned, NextOwned, PTL DEF Spec

(* Unless a late callback has met another document than its own, every     *)
(* document is stored, on the server and in its tab, with texts made for   *)
(* it, or for one whose text the page has put into its tab; for any        *)
(* documents, however often the user switches, closes, creates and         *)
(* reviews, and whatever the agent streams and writes meanwhile.           *)
THEOREM OwnTextHolds == Spec => []OwnText
<1>1. OwnInv => OwnText
  BY DEF OwnInv, Kept, OwnServer, OwnTabs, OwnedBy, OwnText, Apart
<1> QED BY <1>1, SpecOwned, PTL

(* Under the same premise, the diff under review is that of the document   *)
(* shown: no decision about it writes over another one (issue 2467).       *)
THEOREM DiffIsOfActiveHolds == Spec => []DiffIsOfActive
<1>1. OwnInv => DiffIsOfActive
  BY DEF OwnInv, Kept, OwnDiff, DiffIsOfActive
<1> QED BY <1>1, SpecOwned, PTL

-----------------------------------------------------------------------------
(* What is typed is saved.  A text is in hand once it has reached the      *)
(* server, has failed to, or is in a save under way that can reach it.     *)

InHand(t) == t \in settled \/ \E p \in puts : p.doc # Temp /\ p.text.t = t
WrittenOnly == \A a \in anim : a.text.t \in Written
DoneIsSaved ==
  \A p \in puts : p.at = "done" /\ p.doc # Temp /\ p.text.t \in Typed => p.text.t \in settled
Awaited == fresh /\ active \in Doc /\ box.t \in Typed => timer \/ InHand(box.t)
SaveInv == WrittenOnly /\ DoneIsSaved /\ Awaited

PutStep == \E p \in puts : PutReaches(p) \/ PutAnswered(p) \/ PutFails(p)

LEMMA SentOnly == \A a, b : \A p \in Put(a, b) : p.at = "sent"
BY DEF Put

LEMMA ExitSent == \A x : \A p \in ExitPuts(x) : p.at = "sent"
BY SentOnly DEF ExitPuts

LEMMA SwitchedSent == \A tb, b, d : \A p \in Switched(tb, b, d).puts : p.at = "sent"
<1> SUFFICES ASSUME NEW tb, NEW b, NEW d PROVE \A p \in Switched(tb, b, d).puts : p.at = "sent"
  OBVIOUS
<1>1. PICK b1 : Switched(tb, b, d).puts =
                IF diff = {} \/ active = NoDoc THEN {} ELSE {[doc |-> active, text |-> b1, at |-> "sent"]}
  BY DEF Switched
<1> QED BY <1>1

LEMMA DetachSent == \A tb, d : \A p \in Detach(tb, d).puts : p.at = "sent"
BY SentOnly DEF Detach

(* But for the server, a step only adds saves that have not arrived.       *)
LEMMA PutsGrow ==
  ASSUME [Next]_vars
  PROVE  \/ PutStep
         \/ /\ puts \subseteq puts' /\ settled \subseteq settled'
            /\ \A p \in puts' \ puts : p.at = "sent"
<1> USE DEF view, calls, data
<1> DEFINE G == /\ puts \subseteq puts' /\ settled \subseteq settled'
                /\ \A p \in puts' \ puts : p.at = "sent"
<1> SUFFICES ASSUME ~PutStep PROVE G
  OBVIOUS
<1>0. ASSUME puts' = puts, settled \subseteq settled' PROVE G
  BY <1>0
<1>1. ASSUME NEW Q, puts' = puts \cup Q, \A p \in Q : p.at = "sent", settled' = settled
      PROVE  G
  BY <1>1
<1> HIDE DEF G
<1>2. ASSUME NEW tb, NEW b, NEW d, NEW more, SwitchDoc(tb, b, d, more),
             \A p \in more : p.at = "sent", settled' = settled
      PROVE  G
  <2> DEFINE Q == Switched(tb, b, d).puts
  <2>1. puts' = puts \cup (Q \cup more)
    BY <1>2 DEF SwitchDoc
  <2>2. \A p \in Q : p.at = "sent"
    BY SwitchedSent
  <2> HIDE DEF Q
  <2>3. \A p \in Q \cup more : p.at = "sent"
    BY <1>2, <2>2
  <2> QED BY <1>1, <1>2, <2>1, <2>3
<1>3. CASE UNCHANGED vars
  BY <1>0, <1>3 DEF vars
<1>4. CASE User
  <2>1. ASSUME NEW t \in Typed, Type(t) PROVE G
    BY <1>0, <2>1 DEF Type
  <2>2. CASE SaveNow
    BY <1>1, <2>2, SentOnly DEF SaveNow, Save
  <2>3. CASE Load \/ Create
    BY <1>0, <2>3 DEF Load, Create
  <2>4. CASE Compare
    <3>1. puts' = puts \/ puts' = puts \cup ExitPuts(TRUE)
      BY <2>4 DEF Compare, ExitDiff
    <3>2. settled' = settled
      BY <2>4 DEF Compare
    <3> QED BY <1>0, <1>1, <3>1, <3>2, ExitSent
  <2>5. ASSUME NEW d \in Key, SwitchTo(d) PROVE G
    BY <1>2, <2>5 DEF SwitchTo
  <2>6. ASSUME NEW d \in Key, CloseTab(d) PROVE G
    <3> DEFINE gone == Detach(Stored(tabs, active, box), d)
    <3>1. \A p \in gone.puts : p.at = "sent"
      BY DetachSent
    <3>2. settled' = settled
      BY <2>6 DEF CloseTab
    <3>3. puts' = puts \cup gone.puts \/ \E next : SwitchDoc(gone.tabs, box, next, gone.puts)
      BY <2>6 DEF CloseTab
    <3> HIDE DEF gone
    <3> QED BY <1>1, <1>2, <3>1, <3>2, <3>3
  <2>7. ASSUME NEW d \in Key \cup {NoDoc}, Restore(d) PROVE G
    <3>1. settled' = settled /\ (puts' = puts \/ SwitchDoc(tabs, Blank, d, {}))
      BY <2>7 DEF Restore
    <3> QED BY <1>0, <1>2, <3>1
  <2>8. ASSUME NEW d \in Key \cup {NoDoc}, CloseChip(d) PROVE G
    <3> DEFINE gone == Detach(tabs, d)
    <3>1. settled' = settled /\ (puts' = puts \/ puts' = puts \cup gone.puts)
      BY <2>8 DEF CloseChip
    <3>2. \A p \in gone.puts : p.at = "sent"
      BY DetachSent
    <3> HIDE DEF gone
    <3> QED BY <1>0, <1>1, <3>1, <3>2
  <2>9. ASSUME NEW x \in BOOLEAN, Close(x) PROVE G
    BY <1>0, <2>9 DEF Close
  <2>10. ASSUME NEW x \in BOOLEAN, Resolve(x) \/ ResolveAll(x) PROVE G
    <3>1. PICK b : settled' = settled /\ puts' = puts \cup Put(active, b)
      BY <2>10 DEF Resolve, ResolveAll
    <3>2. \A p \in Put(active, b) : p.at = "sent"
      BY SentOnly
    <3> QED BY <1>1, <3>1, <3>2
  <2> QED BY <1>4, <2>1, <2>2, <2>3, <2>4, <2>5, <2>6, <2>7, <2>8, <2>9, <2>10 DEF User
<1>5. CASE Timers
  <2>1. settled' = settled
    BY <1>5 DEF Timers, Autosave, FinishClose, ExitFires, AnimTick
  <2>2. puts' = puts \/ puts' = puts \cup Put(active, box) \/ puts' = puts \cup ExitPuts(FALSE)
    BY <1>5 DEF Timers, Autosave, Save, FinishClose, ExitFires, ExitDiff, AnimTick
  <2> QED BY <1>0, <1>1, <2>1, <2>2, SentOnly, ExitSent
<1>6. CASE Answers
  <2>1. CASE LoadFails \/ CreateFails \/ AutoFails \/ CompareFails
    BY <1>0, <2>1 DEF LoadFails, CreateFails, AutoFails, CompareFails
  <2>2. CASE Loaded
    <3> DEFINE alive == {d \in Doc \ hidden : server[d] # Absent}
               full == [k \in Key |-> IF k \in alive /\ tabs[k] = Absent THEN server[k] ELSE tabs[k]]
    <3>0. settled' = settled
      BY <2>2 DEF Loaded
    <3>1. puts' = puts \/ \E d : SwitchDoc(full, Shown(box), d, {})
      BY <2>2 DEF Loaded
    <3> HIDE DEF full
    <3> QED BY <1>0, <1>2, <3>0, <3>1
  <2>3. CASE Compared
    <3>1. settled' = settled /\ (puts' = puts \/ puts' = puts \cup ExitPuts(TRUE))
      BY <2>3 DEF Compared
    <3> QED BY <1>0, <1>1, <3>1, ExitSent
  <2>4. ASSUME NEW d \in Doc, Created(d) PROVE G
    <3> DEFINE Q == Switched([tabs EXCEPT ![d] = Blank], Shown(box), d).puts
    <3>1. settled' = settled /\ puts' = puts \cup Q
      BY <2>4 DEF Created
    <3>2. \A p \in Q : p.at = "sent"
      BY SwitchedSent
    <3> HIDE DEF Q
    <3> QED BY <1>1, <3>1, <3>2
  <2>5. ASSUME NEW d \in Doc, AutoCreated(d) PROVE G
    <3>1. puts' = puts /\ settled \subseteq settled'
      BY <2>5 DEF AutoCreated
    <3> QED BY <1>0, <3>1, Zenon
  <2> QED BY <1>6, <2>1, <2>2, <2>3, <2>4, <2>5 DEF Answers, PutStep
<1>7. CASE Agent
  <2>1. settled' = settled
    BY <1>7 DEF Agent, StreamOpen, StreamDelta, Update, AgentWrites
  <2>2. puts' = puts \/ puts' = puts \cup ExitPuts(TRUE)
    BY <1>7 DEF Agent, StreamOpen, StreamDelta, Update, AgentWrites
  <2> QED BY <1>0, <1>1, <2>1, <2>2, ExitSent
<1> QED BY <1>3, <1>4, <1>5, <1>6, <1>7 DEF Next

(* A text in hand stays so, and what has arrived is saved.                 *)
LEMMA InHandStays ==
  ASSUME TypeOK, DoneIsSaved, [Next]_vars
  PROVE  DoneIsSaved' /\ \A t \in Typed : InHand(t) => InHand(t)'
<1>1. CASE ~PutStep
  <2>1. /\ puts \subseteq puts' /\ settled \subseteq settled'
        /\ \A p \in puts' \ puts : p.at = "sent"
    BY <1>1, PutsGrow
  <2> QED BY <2>1 DEF DoneIsSaved, InHand
<1>2. ASSUME NEW p \in puts, PutReaches(p)
      PROVE  DoneIsSaved' /\ \A t \in Typed : InHand(t) => InHand(t)'
  <2> DEFINE q == [p EXCEPT !.at = "done"]
  <2>1. q.text = p.text /\ q.doc = p.doc
    BY DEF TypeOK
  <2>2. puts' = (puts \ {p}) \cup {q}
    BY <1>2 DEF PutReaches
  <2>3. settled \subseteq settled'
    BY <1>2 DEF PutReaches
  <2>4. p.doc # Temp /\ p.text.t \in Typed => p.text.t \in settled'
    BY <1>2 DEF PutReaches
  <2> HIDE DEF q
  <2>5. DoneIsSaved'
    BY <2>1, <2>2, <2>3, <2>4 DEF DoneIsSaved
  <2>6. \A t \in Typed : InHand(t) => InHand(t)'
    BY <2>1, <2>2, <2>3 DEF InHand
  <2> QED BY <2>5, <2>6
<1>3. ASSUME NEW p \in puts, PutAnswered(p)
      PROVE  DoneIsSaved' /\ \A t \in Typed : InHand(t) => InHand(t)'
  <2>1. p.at = "done" /\ puts' = puts \ {p} /\ settled' = settled
    BY <1>3 DEF PutAnswered, data
  <2>2. p.doc # Temp /\ p.text.t \in Typed => p.text.t \in settled
    BY <2>1 DEF DoneIsSaved
  <2>3. DoneIsSaved'
    BY <2>1 DEF DoneIsSaved
  <2>4. \A t \in Typed : InHand(t) => InHand(t)'
    BY <2>1, <2>2 DEF InHand
  <2> QED BY <2>3, <2>4
<1>4. ASSUME NEW p \in puts, PutFails(p)
      PROVE  DoneIsSaved' /\ \A t \in Typed : InHand(t) => InHand(t)'
  <2>1. puts' = puts \ {p} /\ settled' = settled \cup ({p.text.t} \cap Typed)
    BY <1>4 DEF PutFails
  <2>2. DoneIsSaved'
    BY <2>1 DEF DoneIsSaved
  <2>3. \A t \in Typed : InHand(t) => InHand(t)'
    BY <2>1 DEF InHand
  <2> QED BY <2>2, <2>3
<1> QED BY <1>1, <1>2, <1>3, <1>4 DEF PutStep

(* An animation writes what the agent wrote.                               *)
LEMMA WrittenStays ==
  ASSUME TypeOK, WrittenOnly, [Next]_vars
  PROVE  WrittenOnly'
<1> USE DEF view, calls, data
<1>0. ASSUME anim' \subseteq anim PROVE WrittenOnly'
  BY <1>0 DEF WrittenOnly
<1>1. CASE UNCHANGED vars
  BY <1>0, <1>1 DEF vars
<1>2. CASE User
  <2>1. anim' = anim \/ anim' = {}
    BY <1>2 DEF User, Type, SaveNow, Load, Create, Compare, SwitchTo, CloseTab, Restore, OpenPane, CloseChip,
                Close, Resolve, ResolveAll
  <2> QED BY <1>0, <2>1
<1>3. CASE Timers
  <2>1. anim' = anim \/ anim' = {}
    BY <1>3 DEF Timers, Autosave, FinishClose, ExitFires, AnimTick
  <2> QED BY <1>0, <2>1
<1>4. CASE Answers
  <2>1. anim' = anim \/ anim' = {}
    BY <1>4 DEF Answers, Loaded, LoadFails, OpenPane, CreateFails, AutoFails, Compared, CompareFails, Created, AutoCreated,
                PutReaches, PutAnswered, PutFails
  <2> QED BY <1>0, <2>1
<1>5. CASE (\E x \in BOOLEAN : StreamOpen(x)) \/ StreamDelta \/ \E d \in Doc, t \in Written : AgentWrites(d, t)
  <2>1. anim' = anim \/ anim' = {}
    BY <1>5 DEF StreamOpen, StreamDelta, OpenPane, AgentWrites
  <2> QED BY <1>0, <2>1
<1>6. CASE Update
  <2>1. PICK e \in event : \E d : anim' \in {anim, {}, {[of |-> d, text |-> [of |-> e.doc, t |-> e.t]]}}
    BY <1>6 DEF Update, Present
  <2>2. e.t \in Written
    BY DEF TypeOK, AtMostOne
  <2> QED BY <2>1, <2>2 DEF WrittenOnly
<1> QED BY <1>1, <1>2, <1>3, <1>4, <1>5, <1>6 DEF Next, Agent

(* How a step can leave the user's text in the box: a save is due, the box *)
(* and its document are as before, or the step itself saves the box.       *)
Same == fresh /\ active' = active /\ box'.t = box.t /\ (timer => timer')
SavedNow == \E p \in puts' : p.doc # Temp /\ p.text.t = box'.t

LEMMA PutIsSaved ==
  ASSUME NEW b, Put(active, b) \subseteq puts', box' = b, active \in Doc, Mounted
  PROVE  SavedNow
<1>1. active # NoDoc /\ active # Temp
  BY DocAssumption
<1>2. [doc |-> active, text |-> b, at |-> "sent"] \in puts'
  BY <1>1 DEF Put
<1> QED BY <1>1, <1>2 DEF SavedNow

LEMMA ExitIsSaved ==
  ASSUME TypeOK, NEW x \in BOOLEAN, box' = ExitBox(x), ExitPuts(x) \subseteq puts', active \in Doc
  PROVE  box' = box \/ SavedNow
<1>1. CASE diff = {} \/ ~Mounted
  BY <1>1 DEF ExitBox, Decided
<1>2. CASE diff # {} /\ Mounted
  <2>1. Put(active, ExitBox(x)) \subseteq puts'
    BY <1>2 DEF ExitPuts
  <2> QED BY <1>2, <2>1, PutIsSaved
<1> QED BY <1>1, <1>2

LEMMA Follows ==
  ASSUME TypeOK, WrittenOnly, [Next]_vars, fresh', active' \in Doc, box'.t \in Typed
  PROVE  timer' \/ Same \/ SavedNow
<1> USE DEF view, calls, data
<1>0. active' # NoDoc /\ active' # Temp /\ Typed \cap Written = {}
      /\ Typed \cap {"empty", "first", "older", "torn", "partial"} = {}
  BY DocAssumption, TextAssumption
<1>1. CASE UNCHANGED vars
  BY <1>1 DEF vars, Same
<1>2. CASE User
  <2>1. ASSUME NEW t \in Typed, Type(t) PROVE timer'
    BY <1>0, <2>1 DEF Type
  <2>2. CASE SaveNow \/ Load \/ Create
    BY <2>2 DEF SaveNow, Load, Create, Same
  <2>3. CASE Compare
    <3>1. CASE diff # {}
      <4>1. box' = ExitBox(TRUE) /\ ExitPuts(TRUE) \subseteq puts' /\ UNCHANGED <<active, timer, fresh>>
        BY <2>3, <3>1 DEF Compare, ExitDiff
      <4> QED BY <4>1, ExitIsSaved DEF Same
    <3>2. CASE diff = {}
      BY <2>3, <3>2 DEF Compare, Same
    <3> QED BY <3>1, <3>2
  <2>4. ASSUME NEW d \in Key, SwitchTo(d) PROVE FALSE
    BY <2>4 DEF SwitchTo, SwitchDoc
  <2>5. ASSUME NEW d \in Key, CloseTab(d) PROVE Same
    <3>1. fresh' = FALSE \/ UNCHANGED <<active, box, fresh>>
      BY <2>5 DEF CloseTab, Slide, SwitchDoc
    <3> QED BY <2>5, <3>1 DEF CloseTab, Same
  <2>6. ASSUME NEW d \in Key \cup {NoDoc}, Restore(d) PROVE FALSE
    <3>1. fresh' = FALSE \/ box' = Blank
      BY <2>6 DEF Restore, SwitchDoc
    <3> QED BY <1>0, <3>1 DEF Blank
  <2>7. ASSUME NEW d \in Key \cup {NoDoc}, CloseChip(d) PROVE Same
    BY <2>7 DEF CloseChip, Same
  <2>8. ASSUME NEW x \in BOOLEAN, Close(x) PROVE FALSE
    BY <2>8 DEF Close, Slide
  <2>9. ASSUME NEW x \in BOOLEAN, Resolve(x) \/ ResolveAll(x) PROVE SavedNow
    <3>1. PICK b : box' = b /\ puts' = puts \cup Put(active, b) /\ pane = "open" /\ active' = active
      BY <2>9 DEF Resolve, ResolveAll
    <3> QED BY <3>1, PutIsSaved DEF Mounted
  <2> QED BY <1>2, <2>1, <2>2, <2>3, <2>4, <2>5, <2>6, <2>7, <2>8, <2>9 DEF User
<1>3. CASE Timers
  <2>1. CASE Autosave
    <3>1. box' = box /\ active' = active /\ Put(active, box) \subseteq puts'
      BY <2>1 DEF Autosave, Save
    <3>2. Mounted
      BY <1>0, <3>1 DEF Mounted, TypeOK, Blank
    <3> QED BY <3>1, <3>2, PutIsSaved
  <2>2. CASE FinishClose
    BY <1>0, <2>2 DEF FinishClose
  <2>3. CASE ExitFires
    <3>1. box' = ExitBox(FALSE) /\ ExitPuts(FALSE) \subseteq puts' /\ UNCHANGED <<active, timer, fresh>>
      BY <2>3 DEF ExitFires, ExitDiff
    <3> QED BY <3>1, ExitIsSaved DEF Same
  <2>4. ASSUME NEW last \in BOOLEAN, AnimTick(last) PROVE FALSE
    <3>1. PICK a \in anim : box' = a.text \/ box' = [of |-> a.text.of, t |-> "torn"]
      BY <2>4 DEF AnimTick
    <3> QED BY <1>0, <3>1 DEF WrittenOnly
  <2> QED BY <1>3, <2>1, <2>2, <2>3, <2>4 DEF Timers
<1>4. CASE Answers
  <2>1. CASE Loaded
    BY <1>0, <2>1 DEF Loaded, SwitchDoc
  <2>2. CASE LoadFails
    BY <1>0, <2>2 DEF LoadFails
  <2>3. CASE CreateFails \/ AutoFails \/ CompareFails
    BY <2>3 DEF CreateFails, AutoFails, CompareFails, Same
  <2>4. CASE Compared
    <3>1. UNCHANGED <<active, timer, fresh>>
      BY <2>4 DEF Compared
    <3>2. box' = box \/ (box' = ExitBox(TRUE) /\ ExitPuts(TRUE) \subseteq puts')
      BY <2>4 DEF Compared
    <3> QED BY <3>1, <3>2, ExitIsSaved DEF Same
  <2>5. ASSUME NEW d \in Doc, Created(d) PROVE timer'
    BY <2>5 DEF Created
  <2>6. ASSUME NEW d \in Doc, AutoCreated(d) PROVE timer'
    BY <2>6 DEF AutoCreated
  <2>7. ASSUME NEW p \in puts, PutReaches(p) \/ PutAnswered(p) \/ PutFails(p) PROVE Same
    <3>1. UNCHANGED <<box, timer, fresh>> /\ (active' = active \/ active' = NoDoc)
      BY <2>7 DEF PutReaches, PutAnswered, PutFails
    <3> QED BY <1>0, <3>1 DEF Same
  <2> QED BY <1>4, <2>1, <2>2, <2>3, <2>4, <2>5, <2>6, <2>7 DEF Answers
<1>5. CASE Agent
  <2>1. ASSUME NEW titled \in BOOLEAN, StreamOpen(titled) PROVE Same \/ SavedNow
    <3>1. box' = ExitBox(TRUE) /\ ExitPuts(TRUE) \subseteq puts' /\ UNCHANGED <<active, timer, fresh>>
      BY <1>0, <2>1 DEF StreamOpen
    <3> QED BY <3>1, ExitIsSaved DEF Same
  <2>2. CASE StreamDelta
    <3>1. (box' = box \/ box' = [of |-> Temp, t |-> "partial"]) /\ UNCHANGED <<active, timer, fresh>>
      BY <2>2 DEF StreamDelta
    <3> QED BY <1>0, <3>1 DEF Same
  <2>3. CASE Update
    BY <2>3 DEF Update
  <2>4. ASSUME NEW d \in Doc, NEW t \in Written, AgentWrites(d, t) PROVE Same
    BY <2>4 DEF AgentWrites, Same
  <2> QED BY <1>5, <2>1, <2>2, <2>3, <2>4 DEF Agent
<1> QED BY <1>1, <1>2, <1>3, <1>4, <1>5 DEF Next

LEMMA NextSaves == TypeOK /\ SaveInv /\ [Next]_vars => SaveInv'
<1> SUFFICES ASSUME TypeOK, SaveInv, [Next]_vars PROVE SaveInv'
  OBVIOUS
<1>1. WrittenOnly' /\ DoneIsSaved' /\ \A t \in Typed : InHand(t) => InHand(t)'
  BY WrittenStays, InHandStays DEF SaveInv
<1>2. ASSUME fresh', active' \in Doc, box'.t \in Typed PROVE timer' \/ InHand(box.t)'
  <2>1. timer' \/ Same \/ SavedNow
    BY <1>2, Follows DEF SaveInv
  <2>2. CASE Same
    <3>1. timer \/ InHand(box.t)
      BY <1>2, <2>2 DEF SaveInv, Awaited, Same
    <3>2. InHand(box.t) => box'.t \in settled' \/ \E p \in puts' : p.doc # Temp /\ p.text.t = box'.t
      BY <1>1, <1>2, <2>2 DEF Same, InHand
    <3> QED BY <2>2, <3>1, <3>2 DEF Same, InHand
  <2>3. CASE SavedNow
    BY <2>3 DEF SavedNow, InHand
  <2> QED BY <2>1, <2>2, <2>3
<1> QED BY <1>1, <1>2 DEF SaveInv, Awaited

(* What the user types into a document is on its way to the server for as  *)
(* long as the user stays with that document, and a save that has arrived  *)
(* counts even after its answer is gone; for any texts and saves.          *)
THEOREM TypedWillBeSavedHolds == Spec => []TypedWillBeSaved
<1>1. Init => SaveInv
  BY DEF Init, SaveInv, WrittenOnly, DoneIsSaved, Awaited
<1>2. SaveInv => TypedWillBeSaved
  BY DEF SaveInv, Awaited, InHand, TypedWillBeSaved
<1> QED BY <1>1, <1>2, InitTypes, NextTypes, NextSaves, PTL DEF Spec
=============================================================================
