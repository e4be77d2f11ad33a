--------------------------- MODULE SessionHistory ---------------------------
(***************************************************************************)
(* The history of one chat session: the Session object that                *)
(* core/session_manager.py caches, the rows of its messages, and the       *)
(* handlers that change both - chat turns, other writers, truncation,      *)
(* deletion and merging of messages, both compactions, deletion of the     *)
(* session, and restarts of the server.                                    *)
(*                                                                         *)
(* A handler runs to its next await in one step: the event loop is one     *)
(* thread, and what a pool thread does under the database's write lock is  *)
(* split where the event loop can tell (DeleteSession).                    *)
(*                                                                         *)
(* A message is a number, in the order the messages were sent; an entry of *)
(* the history holds the set of the messages whose text it carries, one    *)
(* for a message, several for a summary or for two replies merged.         *)
(***************************************************************************)
EXTENDS Integers, Sequences, FiniteSets, SequencesExt

CONSTANTS
  Turn,         \* chat turns: requests that add a message and await a reply
  Obj,          \* Session objects
  NoObj,        \* no Session object
  WriterKind,   \* the kinds of message that OtherWriter adds
  TurnKind,     \* and a turn begins with
  Preface,      \* what build_context_preface() may put before the history
  CompactMin,   \* 6: the shortest history the compact endpoint takes
  TailMin,      \* 4, and
  TailMax,      \* 8: it keeps a quarter of the history, within these limits
  AutoMin,      \* 4: the shortest conversation maybe_compact() takes
  PageLimit,    \* how many messages the browser loads of a session
  MaxMsgs,      \* bound: messages
  MaxAutos,     \* bound: automatic compactions
  MaxMerges,    \* bound: merges
  MaxFaults,    \* bound: commits that fail
  MaxRestarts   \* bound: restarts of the server

ASSUME ObjAssumption == /\ IsFiniteSet(Turn) /\ IsFiniteSet(Obj)
                        /\ Cardinality(Obj) >= Cardinality(Turn) + 2 /\ NoObj \notin Obj
ASSUME KindAssumption == /\ WriterKind \subseteq {"user", "assistant", "slash"}
                         /\ TurnKind \subseteq {"user", "continue"}
ASSUME PrefaceAssumption == Preface \subseteq [system : Nat \ {0}, untrusted : Nat, dated : {0, 1}]
ASSUME LimitAssumption ==
  /\ {CompactMin, TailMin, TailMax, AutoMin, PageLimit} \subseteq Nat \ {0}
  /\ TailMin < CompactMin /\ TailMin <= TailMax
  /\ {MaxMsgs, MaxAutos, MaxMerges, MaxFaults, MaxRestarts} \subseteq Nat

VARIABLES
  \* the database
  session,      \* the row of sessions: "stored", "deleting" (uncommitted) or "deleted"
  rows,         \* the rows of chat_messages by timestamp
  count,        \* sessions.message_count
  \* the server
  mem,          \* .cache: what self.sessions holds; .hist, .known: history and
                \* message_count of each Session object
  turn,         \* .pc, .sess: the turn's Session object; .cut: its compaction
  comp,         \* the compact endpoint's request: .pc, .recent, .older
  lastId,       \* the last id given to a row
  \* what happened so far
  sent,         \* messages
  autos, merges, faults, restarts,
  saved,        \* the messages whose row was committed
  removed,      \* those a user took out of the history, with success
  behind,       \* those saved or removed while a compaction awaited its summary
  missed,       \* a message was deleted by an id that no row had
  detached      \* a turn held a Session object that is not the cached one

dbVars    == <<session, rows, count>>
pastVars  == <<sent, autos, merges, faults, restarts, saved, removed, behind, missed, detached>>
vars      == <<dbVars, mem, turn, comp, lastId, pastVars>>

-----------------------------------------------------------------------------
(* Histories.                                                              *)

\* Message kinds: "slash" replies have role "assistant"; "continue" is the
\* user's message that asks for the rest of an interrupted reply.
Kind == {"user", "continue", "assistant", "slash", "system"}

Texts(s)  == UNION {s[i].text : i \in DOMAIN s}
Spoken(e) == e.kind # "system"
InContext(e) == e.kind \notin {"system", "slash"}
Conversation(s) == {i \in DOMAIN s : InContext(s[i])}

\* The entries of s at the positions K, in their order.
Position(K, n) == CHOOSE k \in K : Cardinality({j \in K : j <= k}) = n
Chosen(s, K) == [n \in 1..Cardinality(K) |-> s[Position(K, n)]]

Replies(s) == {i \in DOMAIN s : s[i].kind \in {"assistant", "slash"}}

\* What a history becomes in memory when it is read from its rows.
Loaded(s) == [i \in DOMAIN s |-> [id |-> s[i].id, text |-> s[i].text, kind |-> s[i].kind]]

\* The id of a row, or 0: a message that never had one; a negative id is the
\* _db_id of a row that is not there.
Dangling(e) == [e EXCEPT !.id = IF @ > 0 THEN -@ ELSE @]

\* replace_messages() gives every message a new row; a message that had one
\* keeps the old id in the metadata stored with the new row.
NewRow(e, id) == [id |-> id, text |-> e.text, kind |-> e.kind, stamped |-> e.id # 0]
\* Mutant: the timestamps run backwards.
RewrittenBackwards(s) == [i \in DOMAIN s |-> NewRow(s[Len(s) + 1 - i], lastId + i)]
Rewritten(s) == [i \in DOMAIN s |-> NewRow(s[i], lastId + i)]

Summary(texts) == [id |-> 0, text |-> texts, kind |-> "system"]

-----------------------------------------------------------------------------
(* The cache.                                                              *)

Idle == [pc |-> "idle", sess |-> NoObj, cut |-> [sys |-> 0, split |-> 0, older |-> {}]]
NoComp == [pc |-> "idle", recent |-> <<>>, older |-> {}]

Active(t) == turn[t].pc # "idle"

\* The object a handler makes if it has to: one that nobody holds.
New == CHOOSE o \in Obj : o # mem.cache /\ \A t \in Turn : turn[t].sess # o

\* get_session() reads the rows: nothing is cached, or an empty history whose
\* message_count says otherwise.
Hydrates(m) == m.cache = NoObj \/ (m.hist[m.cache] = <<>> /\ m.known[m.cache] > 0)

Stored == session # "deleted"
Found == Stored \/ ~Hydrates(mem)

\* What get_session() leaves in the cache, o being the object it may have to
\* make.  It raises KeyError unless Found.
Got(o) ==
  LET m == IF Hydrates(mem)
           THEN [mem EXCEPT !.cache = o, !.hist[o] = Loaded(rows), !.known[o] = count]
           ELSE mem
  IN IF Stored THEN [m EXCEPT !.known[m.cache] = count] ELSE m

Shown(m) == IF m.cache = NoObj THEN <<>> ELSE m.hist[m.cache]

\* Session objects nobody holds are gone.
Become(m, tt) ==
  LET held == {m.cache} \cup {tt[t].sess : t \in Turn}
  IN /\ mem' = [cache |-> m.cache,
                hist  |-> [o \in Obj |-> IF o \in held THEN m.hist[o] ELSE <<>>],
                known |-> [o \in Obj |-> IF o \in held THEN m.known[o] ELSE 0]]
     /\ turn' = tt
     /\ detached' = (detached \/ \E t \in Turn : tt[t].pc # "idle" /\ tt[t].sess # m.cache)

\* A pool thread that deletes the session holds the database's write lock.
Unlocked == session # "deleting"

\* A commit fails, and is rolled back.
Fault == faults < MaxFaults /\ faults' = faults + 1

Awaiting == comp.pc = "await" \/ \E t \in Turn : turn[t].pc = "compact"
Behind(texts) ==
  behind' = IF Awaiting THEN behind \cup texts ELSE behind

Init ==
  /\ session = "stored"
  /\ rows = <<>>
  /\ count = 0
  /\ mem = [cache |-> CHOOSE o \in Obj : TRUE, hist |-> [x \in Obj |-> <<>>], known |-> [x \in Obj |-> 0]]
  /\ turn = [t \in Turn |-> Idle]
  /\ comp = NoComp
  /\ lastId = 0
  /\ sent = 0 /\ autos = 0 /\ merges = 0 /\ faults = 0 /\ restarts = 0
  /\ saved = {} /\ removed = {} /\ behind = {}
  /\ missed = FALSE /\ detached = FALSE

-----------------------------------------------------------------------------
(* Messages added.                                                         *)

\* Session.add_message() or SessionManager.add_message() on the object o, and
\* _persist_message(): the row is stored, the commit fails and the error is
\* logged, or there is no session any more and the message is dropped.
AddMessage(m, o, kind, tt) ==
  /\ Unlocked
  /\ sent < MaxMsgs
  /\ sent' = sent + 1
  /\ LET e == [id |-> 0, text |-> {sent + 1}, kind |-> kind]
         Added(id) == [m EXCEPT !.hist[o] = Append(@, [e EXCEPT !.id = id]),
                                !.known[o] = Len(m.hist[o]) + 1]
     IN \/ /\ Stored
           /\ Become(Added(lastId + 1), tt)
           /\ rows' = Append(rows, [id |-> lastId + 1, text |-> e.text, kind |-> kind, stamped |-> FALSE])
           /\ count' = Len(Shown(mem'))
           /\ lastId' = lastId + 1
           /\ saved' = saved \cup e.text
           /\ Behind(e.text)
           /\ UNCHANGED faults
        \/ /\ Stored
           /\ Fault
           /\ Become(Added(0), tt)
           /\ UNCHANGED <<rows, count, lastId, saved, behind>>
        \/ /\ ~Stored
           /\ Become([Added(0) EXCEPT !.cache = NoObj], tt)
           /\ UNCHANGED <<rows, count, lastId, saved, behind, faults>>
  /\ UNCHANGED <<session, comp, autos, merges, restarts, removed, missed>>

\* The slash-command endpoint, the background monitor, research, inject_context.
OtherWriter(o, kind) ==
  /\ Found
  /\ LET m == Got(o) IN AddMessage(m, m.cache, kind, turn)

\* chat_stream: get_session(), then preprocess() is awaited.
TurnOpens(t, o) ==
  /\ ~Active(t)
  /\ Found
  /\ LET m == Got(o) IN Become(m, [turn EXCEPT ![t] = [Idle EXCEPT !.pc = "open", !.sess = m.cache]])
  /\ UNCHANGED <<dbVars, comp, lastId, sent, autos, merges, faults, restarts, saved, removed, behind, missed>>

\* The user's message is added; the conversation fits the model's context.
TurnSends(t, kind) ==
  /\ turn[t].pc = "open"
  /\ AddMessage(mem, turn[t].sess, kind, [turn EXCEPT ![t].pc = "run"])

\* maybe_compact() up to its await: the older half of what is sent to the model
\* is to be summarised, the system messages apart.
CutOf(h, p) ==
  LET convo == Chosen(h, Conversation(h))
      half  == (p.untrusted + Len(convo) + p.dated) \div 2
  IN [sys   |-> p.system + Cardinality({i \in DOMAIN h : ~Spoken(h[i])}),
      split |-> half,
      older |-> Texts(SubSeq(convo, 1, half - p.untrusted))]

\* The user's message is added, and the context is over the threshold.
TurnSendsFull(t, p) ==
  /\ turn[t].pc = "open"
  /\ autos + Cardinality({u \in Turn : turn[u].pc = "compact"}) < MaxAutos
  /\ LET h == Append(mem.hist[turn[t].sess], [id |-> 0, text |-> {sent + 1}, kind |-> "user"])
     IN /\ p.untrusted + Cardinality(Conversation(h)) + p.dated >= AutoMin
        /\ AddMessage(mem, turn[t].sess, "user",
                      [turn EXCEPT ![t].pc = "compact", ![t].cut = CutOf(h, p)])

\* The reply is saved, whole or as far as it got when the turn was stopped.
TurnReplies(t) ==
  /\ turn[t].pc = "run"
  /\ AddMessage(mem, turn[t].sess, "assistant", [turn EXCEPT ![t] = Idle])

\* The turn ends before there is anything to save.
TurnFails(t) ==
  /\ Active(t)
  /\ Become(mem, [turn EXCEPT ![t] = Idle])
  /\ UNCHANGED <<dbVars, comp, lastId, sent, autos, merges, faults, restarts, saved, removed, behind, missed>>

-----------------------------------------------------------------------------
(* Compaction.                                                             *)

\* Mutant: the messages in memory keep the ids of the deleted rows.
ReplaceRowsOnly(m, new, tt) ==
  /\ session = "stored"
  /\ rows' = Rewritten(new)
  /\ count' = Len(new)
  /\ lastId' = lastId + Len(new)
  /\ Become([m EXCEPT !.hist[m.cache] = new, !.known[m.cache] = Len(new)], tt)

\* replace_messages() when it commits.
Replace(m, new, tt) ==
  /\ session = "stored"
  /\ rows' = Rewritten(new)
  /\ count' = Len(new)
  /\ lastId' = lastId + Len(new)
  /\ Become([m EXCEPT !.hist[m.cache] = Loaded(Rewritten(new)), !.known[m.cache] = Len(new)], tt)

\* It cannot: the commit fails, or there is no session the rows could refer to.
\* The messages have been told the ids of their new rows by then.
ReplaceFails ==
  (session = "stored" /\ Fault) \/ (session = "deleted" /\ UNCHANGED faults)

Among(s, e) == \E i \in DOMAIN s : s[i].id = e.id
Disowned(h, new) == [i \in DOMAIN h |-> IF Among(new, h[i]) THEN Dangling(h[i]) ELSE h[i]]

\* The compact endpoint, up to its await.
BeginCompact(o) ==
  /\ comp.pc = "idle"
  /\ Unlocked
  /\ Found
  /\ \A t \in Turn : turn[t].pc # "run"
  /\ LET m    == Got(o)
         h    == Shown(m)
         keep == Min({TailMax, Max({TailMin, Len(h) \div 4})})
     IN /\ Len(h) >= CompactMin
        /\ comp' = [pc     |-> "await",
                    recent |-> SubSeq(h, Len(h) - keep + 1, Len(h)),
                    older  |-> Texts(SubSeq(h, 1, Len(h) - keep))]
        /\ Become(m, turn)
  /\ UNCHANGED <<dbVars, lastId, sent, autos, merges, faults, restarts, saved, removed, behind, missed>>

\* The summary is there, and replaces what was older than the tail.
EndCompact(o) ==
  /\ comp.pc = "await"
  /\ Unlocked
  /\ Found
  /\ LET m   == Got(o)
         new == <<Summary(comp.older)>> \o comp.recent
     IN \/ Replace(m, new, turn) /\ UNCHANGED faults
        \/ /\ ReplaceFails
           /\ Become([m EXCEPT !.hist[m.cache] = Disowned(@, comp.recent)], turn)
           /\ UNCHANGED <<rows, count, lastId>>
  /\ comp' = NoComp
  /\ UNCHANGED <<session, sent, autos, merges, restarts, saved, removed, behind, missed>>

\* The model failed, or the session is gone.
CompactFails ==
  /\ comp.pc = "await"
  /\ comp' = NoComp
  /\ UNCHANGED <<dbVars, mem, turn, lastId, pastVars>>

\* _update_session_history(): the summary goes where the split fell.
AutoCompact(t, o) ==
  /\ turn[t].pc = "compact"
  /\ Unlocked
  /\ Found
  /\ LET cut   == turn[t].cut
         h     == mem.hist[turn[t].sess]
         split == cut.sys + cut.split
         m     == Got(o)
         tt    == [turn EXCEPT ![t].pc = "run", ![t].cut = Idle.cut]
         new   == SubSeq(h, 1, cut.sys) \o <<Summary(cut.older)>> \o SubSeq(h, split + 1, Len(h))
     IN /\ split < Len(h)
        /\ \/ Replace(m, new, tt) /\ UNCHANGED faults
           \/ /\ ReplaceFails
              /\ Become([m EXCEPT !.hist[turn[t].sess] =
                           [i \in DOMAIN new |-> Dangling(Loaded(Rewritten(new))[i])]], tt)
              /\ lastId' = lastId + Len(new)
              /\ UNCHANGED <<rows, count>>
  /\ autos' = autos + 1
  /\ UNCHANGED <<session, comp, sent, merges, restarts, saved, removed, behind, missed>>

\* Nothing is replaced: no summary came, or the split is past the history.
AutoCompactSkipped(t) ==
  /\ turn[t].pc = "compact"
  /\ Become(mem, [turn EXCEPT ![t].pc = "run", ![t].cut = Idle.cut])
  /\ UNCHANGED <<dbVars, comp, lastId, sent, autos, merges, faults, restarts, saved, removed, behind, missed>>

-----------------------------------------------------------------------------
(* Messages taken out.                                                     *)

\* Mutants: one message too few is kept; one too many.
FirstBut(s, n) == SubSeq(s, 1, Min({n, Len(s)}) - 1)
FirstAndNext(s, n) == SubSeq(s, 1, Min({n + 1, Len(s)}))
First(s, n) == SubSeq(s, 1, Min({n, Len(s)}))
After(s, n) == SubSeq(s, n + 1, Len(s))

\* Mutants: message_count is reckoned from what it was; it is left as it was.
CountedDown(keep) == count - Len(After(rows, keep))
CountKept(keep) == count
NewCount(keep) == Min({keep, Len(rows)})

\* truncate_messages(keep), by someone who wants the first `meant` messages kept.
Truncate(o, keep, meant) ==
  /\ Unlocked
  /\ Found
  /\ LET m    == Got(o)
         gone == Texts(After(rows, meant)) \cup Texts(After(Shown(m), meant))
     IN \/ /\ Become([m EXCEPT !.hist[m.cache] = First(@, keep)], turn)
           /\ rows' = First(rows, keep)
           /\ count' = NewCount(keep)
           /\ removed' = removed \cup gone
           /\ Behind(gone)
           /\ UNCHANGED faults
        \/ /\ Fault
           /\ Become(m, turn)
           /\ UNCHANGED <<rows, count, removed, behind>>
  /\ UNCHANGED <<session, comp, lastId, sent, autos, merges, restarts, saved, missed>>

\* The agent's tool.
ToolTruncates(o, keep) == Truncate(o, keep, keep)

\* The browser shows the last page of the history; to edit or regenerate the
\* message at position p it keeps as many messages as it shows before it.
PageStart == Max({0, Len(rows) - PageLimit})
Regenerate(o, p) ==
  /\ session = "stored"
  /\ p \in (PageStart + 1)..Len(rows)
  /\ Truncate(o, p - 1 - PageStart, p - 1)

\* delete-messages, by the id of the i-th message.
DeleteMessage(o, i) ==
  /\ Unlocked
  /\ Found
  /\ LET m    == Got(o)
         h    == Shown(m)
         Others(s) == Chosen(s, {j \in DOMAIN s : s[j].id # h[i].id})
     IN /\ i \in DOMAIN h
        /\ h[i].id # 0
        /\ Become([m EXCEPT !.hist[m.cache] = Others(@), !.known[m.cache] = Len(Others(h))], turn)
        /\ \/ /\ rows' = Others(rows)
              /\ count' = IF Stored THEN Len(Others(h)) ELSE count
              /\ Behind(h[i].text)
              /\ missed' = (missed \/ ~Among(rows, h[i]))
              /\ UNCHANGED faults
           \/ Fault /\ UNCHANGED <<rows, count, behind, missed>>
        /\ removed' = removed \cup h[i].text
  /\ UNCHANGED <<session, comp, lastId, sent, autos, merges, restarts, saved>>

\* merge-last-assistant: the last two replies become one; the message that asked
\* for the second, when it is the "continue" prompt, goes with it.
LastReply(s)   == Max(Replies(s))
ReplyBefore(s) == Max(Replies(s) \ {LastReply(s)})
Prompted(s) == LastReply(s) - 1 > ReplyBefore(s) /\ s[LastReply(s) - 1].kind = "continue"
MergedInto(s, first) ==
  LET one == RemoveAt([s EXCEPT ![ReplyBefore(s)] = first], LastReply(s))
  IN IF Prompted(s) THEN RemoveAt(one, LastReply(s) - 1) ELSE one

MergeReplies(o) ==
  /\ Unlocked
  /\ Found
  /\ merges < MaxMerges
  /\ merges' = merges + 1
  /\ LET m      == Got(o)
         h      == Shown(m)
         first  == h[ReplyBefore(h)]
         second == h[LastReply(h)]
         merged == [text |-> first.text \cup second.text,
                    id   |-> IF second.id # 0 THEN second.id ELSE first.id,
                    kind |-> IF "slash" \in {first.kind, second.kind} THEN "slash" ELSE "assistant"]
         gone   == IF Prompted(h) THEN h[LastReply(h) - 1].text ELSE {}
         row    == [rows[ReplyBefore(rows)] EXCEPT
                      !.text = merged.text, !.kind = merged.kind, !.stamped = merged.id # 0]
     IN /\ Cardinality(Replies(h)) >= 2
        /\ Become([m EXCEPT !.hist[m.cache] = MergedInto(@, merged)], turn)
        /\ \/ /\ rows' = IF Cardinality(Replies(rows)) >= 2 THEN MergedInto(rows, row) ELSE rows
              /\ Behind(gone)
              /\ UNCHANGED faults
           \/ Fault /\ UNCHANGED <<rows, behind>>
        /\ removed' = removed \cup gone
  /\ UNCHANGED <<session, count, comp, lastId, sent, autos, restarts, saved, missed>>

-----------------------------------------------------------------------------
(* The session.                                                            *)

\* GET /api/history without a page: an empty history is rebuilt from the rows,
\* with the ids found in their metadata, which are those of earlier rows.
ReadHistory(o) ==
  /\ Found
  /\ LET m == Got(o)
         found == [i \in DOMAIN rows |-> [id   |-> IF rows[i].stamped THEN -rows[i].id ELSE 0,
                                          text |-> rows[i].text, kind |-> rows[i].kind]]
     IN \/ /\ Shown(m) = <<>>
           /\ rows # <<>>
           /\ Become([m EXCEPT !.hist[m.cache] = found], turn)
        \/ /\ Shown(m) # <<>> \/ rows = <<>>
           /\ Become(m, turn)
  /\ UNCHANGED <<dbVars, comp, lastId, sent, autos, merges, faults, restarts, saved, removed, behind, missed>>

\* delete_session() in a pool thread: it has deleted the rows and dropped the
\* cached object, and goes on to commit; the event loop still reads the rows.
DeleteSession ==
  /\ session = "stored"
  /\ session' = "deleting"
  /\ Become([mem EXCEPT !.cache = NoObj], turn)
  /\ UNCHANGED <<rows, count, comp, lastId, sent, autos, merges, faults, restarts, saved, removed, behind, missed>>

DeleteCommits ==
  /\ session = "deleting"
  /\ session' = "deleted"
  /\ rows' = <<>>
  /\ count' = 0
  /\ UNCHANGED <<mem, turn, comp, lastId, pastVars>>

\* Mutant: the messages were committed to be deleted before the session was.
DeleteHalfFails ==
  /\ session = "deleting"
  /\ Fault
  /\ session' = "stored"
  /\ rows' = <<>>
  /\ UNCHANGED <<count, mem, turn, comp, lastId, sent, autos, merges, restarts, saved, removed, behind, missed, detached>>

DeleteFails ==
  /\ session = "deleting"
  /\ Fault
  /\ session' = "stored"
  /\ UNCHANGED <<rows, count, mem, turn, comp, lastId, sent, autos, merges, restarts, saved, removed, behind, missed, detached>>

\* The process ends and starts again: load_sessions() caches the metadata of the
\* sessions with a message_count.
Restart(o) ==
  /\ restarts < MaxRestarts
  /\ restarts' = restarts + 1
  /\ session' = IF session = "deleting" THEN "stored" ELSE session
  /\ comp' = NoComp
  /\ Become([cache |-> IF Stored /\ count > 0 THEN o ELSE NoObj,
             hist  |-> [x \in Obj |-> <<>>],
             known |-> [x \in Obj |-> IF x = o THEN count ELSE 0]],
            [t \in Turn |-> Idle])
  /\ UNCHANGED <<rows, count, lastId, sent, autos, merges, faults, saved, removed, behind, missed>>

TurnStep(t, o) ==
  \/ TurnOpens(t, o)
  \/ \E kind \in TurnKind : TurnSends(t, kind)
  \/ \E p \in Preface : TurnSendsFull(t, p)
  \/ AutoCompact(t, o)
  \/ AutoCompactSkipped(t)
  \/ TurnReplies(t)
  \/ TurnFails(t)

Request(o) ==
  \/ \E kind \in WriterKind : OtherWriter(o, kind)
  \/ \E keep \in 0..MaxMsgs : ToolTruncates(o, keep)
  \/ \E p \in 1..MaxMsgs : Regenerate(o, p)
  \/ \E i \in 1..MaxMsgs : DeleteMessage(o, i)
  \/ MergeReplies(o)
  \/ ReadHistory(o)
  \/ BeginCompact(o)
  \/ EndCompact(o)

Next ==
  \/ Request(New) \/ Restart(New) \/ \E t \in Turn : TurnStep(t, New)
  \/ CompactFails
  \/ DeleteSession
  \/ DeleteCommits
  \/ DeleteFails

Spec == Init /\ [][Next]_vars

-----------------------------------------------------------------------------
(* Properties.                                                             *)

Msg == 1..MaxMsgs
IsEntry(e) == e.id \in -lastId..lastId /\ e.text \subseteq Msg /\ e.kind \in Kind

\* Every variable stays in its set; message_count does not become negative and
\* no id is used that was not given to a row, whatever order the handlers of
\* session_manager.py and history_routes.py run in.
TypeOK ==
  /\ session \in {"stored", "deleting", "deleted"}
  /\ \A i \in DOMAIN rows : IsEntry(rows[i]) /\ rows[i].id > 0 /\ rows[i].stamped \in BOOLEAN
  /\ count \in Nat
  /\ mem.cache \in Obj \cup {NoObj}
  /\ \A o \in Obj : mem.known[o] \in Nat /\ \A i \in DOMAIN mem.hist[o] : IsEntry(mem.hist[o][i])
  /\ \A t \in Turn : turn[t].pc \in {"idle", "open", "compact", "run"} /\ turn[t].sess \in Obj \cup {NoObj}
  /\ comp.pc \in {"idle", "await"} /\ comp.older \subseteq Msg
  /\ sent \in 0..MaxMsgs /\ lastId \in Nat
  /\ autos \in 0..MaxAutos /\ merges \in 0..MaxMerges
  /\ faults \in 0..MaxFaults /\ restarts \in 0..MaxRestarts
  /\ saved \subseteq Msg /\ removed \subseteq Msg /\ behind \subseteq Msg
  /\ detached \in BOOLEAN

\* What the known gaps (README) spoil: a failed commit, a turn left with an object
\* get_session() has replaced, a merged reply deleted by the id its row lost.
InStep == session = "stored" /\ faults = 0 /\ ~detached /\ (merges = 0 \/ ~missed)

\* The cached history get_session() hands out is the history in the database,
\* message by message - and, but for merged replies, id by id - after any sequence
\* of turns, compactions, truncations, deletions, merges and restarts: a user sees
\* the same chat after a restart, and a deletion by id means the same message in both.
CacheMatchesRows ==
  InStep /\ ~Hydrates(mem) =>
    /\ Len(Shown(mem)) = Len(rows)
    /\ \A i \in DOMAIN rows :
         /\ Shown(mem)[i].text = rows[i].text /\ Shown(mem)[i].kind = rows[i].kind
         /\ merges = 0 => Shown(mem)[i].id = rows[i].id

\* sessions.message_count, by which load_sessions() decides what is a session
\* worth listing and get_session() whether an empty history is to be read
\* again, is the number of rows.
CountTracksRows == InStep /\ merges = 0 => count = Len(rows)

\* Every message whose row was committed is still in the database, as a message
\* or within a summary, unless a user took it out or it came while a compaction
\* awaited its summary.
NothingIsDropped ==
  session = "stored" => saved \ (removed \cup behind) \subseteq Texts(rows)

\* The same of everything but automatic compaction, which breaks it: neither
\* the other handlers nor their failed commits and restarts lose a saved
\* message.  (Compaction may, when a turn has written to an object that was
\* replaced; a merge may, when the history and the rows are not the same.)
SavedStays ==
  autos = 0 /\ ~detached /\ (merges = 0 \/ (faults = 0 /\ ~missed)) => NothingIsDropped

\* What truncation or delete-messages took out of the history does not come
\* back, by the reply of a turn, by a compaction or by a restart.
RemovedStaysRemoved ==
  InStep /\ merges = 0 /\ autos = 0 =>
    \A i \in DOMAIN rows : Spoken(rows[i]) => rows[i].text \cap removed \subseteq behind

\* The rows, by timestamp, are in the order the messages were sent:
\* replace_messages() writes them anew without exchanging any.
InOrder(s) ==
  \A i, j \in DOMAIN s : i < j /\ Spoken(s[i]) /\ Spoken(s[j]) =>
    \A a \in s[i].text, b \in s[j].text : a < b
RowsInOrder == merges = 0 => InOrder(rows)
=============================================================================
