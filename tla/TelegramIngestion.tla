-------------------------- MODULE TelegramIngestion --------------------------
(***************************************************************************)
(* How the messages of a source channel reach MessageStore.  Updates go    *)
(* through the in-memory media group buffer and RealtimeTelegramIngestion; *)
(* the reconnect reconciliation and the replay of a range execution read   *)
(* the channel's history.  All of them ingest one logical message per      *)
(* transaction and meet in the tables and in the two cursors of the        *)
(* source channel only.                                                    *)
(*                                                                         *)
(* Telegram delivers an update late, repeatedly or never: any snapshot the *)
(* channel has had may arrive at any time.  A history read returns what    *)
(* the channel holds at that moment.                                       *)
(***************************************************************************)
EXTENDS MessageStore

CONSTANTS
    Handlers,   \* concurrent update handlers of the realtime process
    Readers,    \* concurrent history reads: reconciliations and replays
    MaxEdits,   \* bound: edits in the channel
    MaxGone     \* bound: deletions in the channel

ASSUME IngestionAssumption ==
    /\ Handlers \cap Readers = {}
    /\ MaxEdits \in Nat
    /\ MaxGone \in Nat

VARIABLES
    channel,    \* what Telegram shows under each id, None before it is posted
    gone,       \* ids deleted on Telegram
    sent,       \* snapshots that an update may carry
    buffer,     \* _pending of the media group buffer: snapshots by group
    latestSeen, \* source_channels.latest_seen_message_id, 0 for NULL
    lastSeen,   \* source_channels.last_seen_message_id, 0 for NULL
    job         \* what each handler and reader is doing

channelVars == <<channel, gone, sent>>
cursorVars == <<latestSeen, lastSeen>>
vars == <<storeVars, channelVars, buffer, cursorVars, job>>

Tasks == Handlers \cup Readers
NoMessage == 0

\* batch is what is still to ingest of the window from + 1 to upto.  A replay
\* has no window to acknowledge: its upto is NoMessage.
Job == [at : {"idle", "newest", "latest", "fetch", "ingest", "last"},
        batch : SUBSET Snapshot, from : Ids \cup {NoMessage}, upto : Ids \cup {NoMessage}]
Idle == [at |-> "idle", batch |-> {}, from |-> NoMessage, upto |-> NoMessage]

Newest == Max({i \in Ids : channel[i] # None /\ i \notin gone} \cup {NoMessage})
NextId == Max({i \in Ids : channel[i] # None} \cup {NoMessage}) + 1

Init ==
    /\ StoreInit
    /\ channel = [i \in Ids |-> None]
    /\ gone = {}
    /\ sent = {}
    /\ buffer = [g \in Groups |-> {}]
    /\ latestSeen = NoMessage
    /\ lastSeen = NoMessage
    /\ job = [t \in Tasks |-> Idle]

-----------------------------------------------------------------------------
(* Telegram: ids grow, an edit may share its second with the one before, a *)
(* deleted message leaves the history.                                     *)

Show(d) ==
    /\ channel' = [channel EXCEPT ![d.id] = d]
    /\ sent' = sent \cup {d}
    /\ UNCHANGED <<storeVars, gone, buffer, cursorVars, job>>

Post ==
    /\ NextId \in Ids
    /\ \E k \in Reported[NextId] :
        Show([id |-> NextId, as |-> k, content |-> 0, edited |-> NotEdited])

EditPost(i) ==
    /\ channel[i] # None /\ i \notin gone
    /\ channel[i].content < MaxContent
    /\ Cardinality({d \in sent : d.content > 0}) < MaxEdits
    /\ \E e \in {channel[i].edited, channel[i].edited + 1} \ {NotEdited} :
        e <= MaxEdited /\ Show([channel[i] EXCEPT !.content = @ + 1, !.edited = e])

DeletePost(i) ==
    /\ channel[i] # None /\ i \notin gone
    /\ Cardinality(gone) < MaxGone
    /\ gone' = gone \cup {i}
    /\ UNCHANGED <<storeVars, channel, sent, buffer, cursorVars, job>>

-----------------------------------------------------------------------------
(* Realtime ingestion *)

SetJob(t, j) == job' = [job EXCEPT ![t] = j]
Pending == {g \in Groups : buffer[g] # {}}

Held(gs) == UNION {buffer[g] : g \in gs}
IdsOf(ds) == {d.id : d \in ds}

\* _ingest_ready returns at once when there is nothing to ingest.
Ingesting(ready) ==
    IF ready = {} THEN Idle
    ELSE [Idle EXCEPT !.at = "ingest", !.batch = ready, !.upto = Max(IdsOf(ready))]

\* An update first releases the groups gs whose aggregation window has elapsed
\* by its time.  A component of a group is then held, in place of an earlier
\* copy; any other message is ingested with them.
OnUpdate(h, d, gs) ==
    LET held == d.as \in Groups
        kept == [g \in Groups |-> IF g \in gs THEN {} ELSE buffer[g]]
    IN  /\ job[h].at = "idle"
        /\ buffer' = IF held
                     THEN [kept EXCEPT ![d.as] = {c \in @ : c.id # d.id} \cup {d}]
                     ELSE kept
        /\ SetJob(h, Ingesting(Held(gs) \cup (IF held THEN {} ELSE {d})))
        /\ UNCHANGED <<storeVars, channelVars, cursorVars>>

\* flush_due and, at a controlled shutdown, flush_all.
Flush(h, gs) ==
    /\ job[h].at = "idle"
    /\ Held(gs) # {}
    /\ buffer' = [g \in Groups |-> IF g \in gs THEN {} ELSE buffer[g]]
    /\ SetJob(h, Ingesting(Held(gs)))
    /\ UNCHANGED <<storeVars, channelVars, cursorVars>>

\* The realtime process dies with its buffer and its handlers.
Restart ==
    /\ buffer' = [g \in Groups |-> {}]
    /\ job' = [t \in Tasks |-> IF t \in Handlers THEN Idle ELSE job[t]]
    /\ UNCHANGED <<storeVars, channelVars, cursorVars>>

LiveEdit(d) ==
    /\ d.edited # NotEdited
    /\ RecordEdit(d)
    /\ UNCHANGED <<channelVars, buffer, cursorVars, job>>

LiveDeletion(i) ==
    /\ i \in gone
    /\ RecordDeletion(i)
    /\ UNCHANGED <<channelVars, buffer, cursorVars, job>>

Processed(k) ==
    /\ MarkProcessed(k)
    /\ UNCHANGED <<channelVars, buffer, cursorVars, job>>

-----------------------------------------------------------------------------
(* History reads *)

\* reconcile reads its cursor, and later the newest id of the channel.
StartReconcile(r) ==
    /\ job[r].at = "idle"
    /\ SetJob(r, [Idle EXCEPT !.at = "newest", !.from = lastSeen])
    /\ UNCHANGED <<storeVars, channelVars, buffer, cursorVars>>

AskNewest(r) ==
    /\ job[r].at = "newest"
    /\ SetJob(r, IF Newest = NoMessage THEN Idle
                 ELSE [job[r] EXCEPT !.at = "latest", !.upto = Newest])
    /\ UNCHANGED <<storeVars, channelVars, buffer, cursorVars>>

\* A job whose batch is stored goes on to its cursor, a replay to nothing.
AfterIngest(t, j) ==
    CASE j.batch # {} -> [j EXCEPT !.at = "ingest"]
      [] j.batch = {} /\ t \in Handlers -> [j EXCEPT !.at = "latest"]
      [] j.batch = {} /\ t \in Readers /\ j.upto # NoMessage -> [j EXCEPT !.at = "last"]
      [] OTHER -> Idle

\* fetch_history: one snapshot for each id of the window the channel still has.
Shown(window) == {channel[i] : i \in {j \in window : channel[j] # None /\ j \notin gone}}

FetchHistory(r) ==
    LET batch == Shown((job[r].from + 1)..job[r].upto)
    IN  /\ job[r].at = "fetch"
        /\ SetJob(r, AfterIngest(r, [job[r] EXCEPT !.batch = batch]))
        /\ UNCHANGED <<storeVars, channelVars, buffer, cursorVars>>

\* The execution of a range fetches its frozen window, here the whole channel.
Replay(r) ==
    /\ job[r].at = "idle"
    /\ SetJob(r, AfterIngest(r, [Idle EXCEPT !.batch = Shown(Ids)]))
    /\ UNCHANGED <<storeVars, channelVars, buffer, cursorVars>>

-----------------------------------------------------------------------------
(* Steps common to handlers and readers *)

\* Logical messages are ingested in the order of their smallest ids, as the
\* batch has them, one transaction each.
NextLogical(batch) == (CHOOSE d \in batch : d.id = Min(IdsOf(batch))).as
ComponentsOf(k, batch) == {d \in batch : d.as = k}

\* Fault: the rest of the batch is forgotten with its first message.
IngestFirstOnly(t) ==
    LET k == NextLogical(job[t].batch)
    IN  /\ job[t].at = "ingest"
        /\ UpsertMessage(k, ComponentsOf(k, job[t].batch))
        /\ SetJob(t, AfterIngest(t, [job[t] EXCEPT !.batch = {}]))
        /\ UNCHANGED <<channelVars, buffer, cursorVars>>

IngestNext(t) ==
    LET k == NextLogical(job[t].batch)
        components == ComponentsOf(k, job[t].batch)
    IN  /\ job[t].at = "ingest"
        /\ UpsertMessage(k, components)
        /\ SetJob(t, AfterIngest(t, [job[t] EXCEPT !.batch = @ \ components]))
        /\ UNCHANGED <<channelVars, buffer, cursorVars>>

\* A job ends before its next step: a component that another logical message
\* owns, a database or Telegram error, a deadlock victim, the worker's death.
Abandon(t) ==
    /\ job[t].at # "idle"
    /\ SetJob(t, Idle)
    /\ UNCHANGED <<storeVars, channelVars, buffer, cursorVars>>

\* Fault: the boundary is taken as exclusive.
CursorBeyond(stored, id) == IF stored < id THEN id + 1 ELSE stored

\* The update of a cursor matches its row only where it is NULL or smaller.
CursorAdvanced(stored, id) == IF stored < id THEN id ELSE stored

\* A reader whose window is empty is done; a handler goes on to last_seen.
AdvanceLatest(t) ==
    /\ job[t].at = "latest"
    /\ latestSeen' = CursorAdvanced(latestSeen, job[t].upto)
    /\ SetJob(t, IF t \in Handlers THEN [job[t] EXCEPT !.at = "last"]
                 ELSE IF job[t].upto <= job[t].from THEN Idle
                 ELSE [job[t] EXCEPT !.at = "fetch"])
    /\ UNCHANGED <<storeVars, channelVars, buffer, lastSeen>>

AdvanceLast(t) ==
    /\ job[t].at = "last"
    /\ lastSeen' = CursorAdvanced(lastSeen, job[t].upto)
    /\ SetJob(t, Idle)
    /\ UNCHANGED <<storeVars, channelVars, buffer, latestSeen>>

-----------------------------------------------------------------------------
Telegram ==
    \/ Post
    \/ \E i \in Ids : EditPost(i) \/ DeletePost(i) \/ LiveDeletion(i)
    \/ \E d \in sent : LiveEdit(d)
    \/ \E k \in Logicals : Processed(k)

Realtime(h) ==
    \E gs \in SUBSET Pending :
        \/ \E d \in sent : OnUpdate(h, d, gs)
        \/ Flush(h, gs)

History(r) ==
    StartReconcile(r) \/ AskNewest(r) \/ Replay(r) \/ FetchHistory(r)

Step(t) == IngestNext(t) \/ Abandon(t) \/ AdvanceLatest(t) \/ AdvanceLast(t)

Next ==
    \/ Telegram
    \/ Restart
    \/ \E h \in Handlers : Realtime(h)
    \/ \E r \in Readers : History(r)
    \/ \E t \in Tasks : Step(t)

Spec == Init /\ [][Next]_vars

-----------------------------------------------------------------------------
(* Properties *)

(* Rows, cursors, the buffer and the jobs have the values their columns and *)
(* variables admit; a cursor never names a message that was not posted.      *)
TypeOK ==
    /\ StoreTypeOK
    /\ channel \in [Ids -> Snapshot \cup {None}]
    /\ gone \subseteq Ids
    /\ sent \subseteq Snapshot
    /\ buffer \in [Groups -> SUBSET Snapshot]
    /\ latestSeen \in {NoMessage} \cup 1..(NextId - 1)
    /\ lastSeen \in {NoMessage} \cup 1..latestSeen
    /\ job \in [Tasks -> Job]

(* A reconciliation acknowledges a window only when every message of it that *)
(* Telegram still shows has its part: the window was frozen before two calls *)
(* to Telegram and any number of transactions, beside live updates, edits    *)
(* and deletions, and any of its steps may have failed.                      *)
AcknowledgedWindowStored ==
    \A r \in Readers : job[r].at = "last" =>
        \A i \in (job[r].from + 1)..job[r].upto :
            channel[i] # None => i \in gone \/ parts[i] # None

(* A component that leaves the buffer before it is stored is being ingested,  *)
(* or lies above the cursor, where the next reconciliation reads it again: a  *)
(* restart loses nothing that reconciliation does not bring back.             *)
PendingPartsRecoverable ==
    [][\A i \in IdsOf(Held(Groups)) \ IdsOf(Held(Groups))' :
        \/ parts'[i] # None
        \/ \E t \in Tasks : i \in IdsOf(job'[t].batch)
        \/ i > lastSeen'
      ]_vars

=============================================================================
