---------------------------- MODULE MessageStore ----------------------------
(***************************************************************************)
(* The durable record of one source channel's Telegram messages: the parts *)
(* (one row per Telegram message), the logical messages rebuilt from them  *)
(* and the archive assets their media asks for.  Each operation is one     *)
(* transaction that holds the row of the logical message.                  *)
(*                                                                         *)
(* A snapshot of a Telegram message is what a history read or an update    *)
(* carries: its id, the logical message it is reported as, its content and *)
(* its edited_at.  The content stands for the text, the metadata and the   *)
(* media; edited_at is an integer, and 0 is NULL.  Telegram counts it in   *)
(* seconds, so two contents of one message may carry the same edited_at.   *)
(* The date of publication is fixed by the id and left out.                *)
(*                                                                         *)
(* A logical message is known by its group, or by its only id: the two     *)
(* partial unique indexes of messages.                                     *)
(***************************************************************************)
EXTENDS Integers, FiniteSets, FiniteSetsExt

CONSTANTS
    None,
    MaxId,      \* bound: Telegram message ids of the channel
    Groups,     \* grouped ids of media groups
    Reported,   \* logical messages that a reader may report an id under
    MaxContent, \* bound: edits of a message
    MaxEdited,  \* bound: distinct values of edited_at
    Shape       \* caption and media kind of each content of each message

Ids == 1..MaxId
Contents == 0..MaxContent
NotEdited == 0
EditTimes == NotEdited..MaxEdited
Logicals == Ids \cup Groups
Kinds == {"image", "video", "document", "audio"}
ArchivedKinds == {"image", "video"}

ASSUME StoreAssumption ==
    /\ MaxId \in Nat \ {0}
    /\ MaxContent \in Nat
    /\ MaxEdited \in Nat
    /\ Groups \cap Ids = {}
    /\ None \notin Logicals
    /\ Reported \in [Ids -> SUBSET Logicals]
    /\ \A i \in Ids : Reported[i] # {} /\ Reported[i] \subseteq Groups \cup {i}
    /\ Shape \in [Ids -> [Contents -> [caption : BOOLEAN, kind : Kinds \cup {None}]]]

VARIABLES
    parts,      \* message_parts by Telegram id, None where there is no row
    messages,   \* messages by logical identity, None where there is no row
    assets      \* image_assets and video_assets, each with its wake-up

storeVars == <<parts, messages, assets>>

-----------------------------------------------------------------------------
(* Rows *)

Snapshot == [id : Ids, as : Logicals, content : Contents, edited : EditTimes]
Part == [owner : Logicals, content : Contents, edited : EditTimes]
Text == (Ids \X Contents) \cup {None}
Media == Ids \X (Kinds \cup {None})

\* The source snapshot of a logical message, which ingestion and edits replace.
SourceSnapshot == [ids : SUBSET Ids, primary : Ids, edited : EditTimes, text : Text,
                   media : SUBSET Media]

\* The lifecycle columns, which only edits and deletions write.  deletedBy is
\* the component whose deletion source_deleted_at records.
Message == [source : SourceSnapshot, processed : BOOLEAN, changed : BOOLEAN,
            deletedBy : Ids \cup {None}]

\* NULL is not a row.
ASSUME RowAssumption == None \notin Part \cup Message \cup Snapshot

NewMessage(source) ==
    [source |-> source, processed |-> FALSE, changed |-> FALSE, deletedBy |-> None]

-----------------------------------------------------------------------------
(* A logical message from its parts *)

Retained(ps, k) == {i \in Ids : ps[i] # None /\ ps[i].owner = k}

\* The text is the first one in id order that is not NULL.
NormalizedText(ps, ids) ==
    LET captioned == {i \in ids : Shape[i][ps[i].content].caption}
    IN  IF captioned = {} THEN None ELSE <<Min(captioned), ps[Min(captioned)].content>>

NormalizedMedia(ps, ids) ==
    {<<i, Shape[i][ps[i].content].kind>> : i \in {j \in ids : Shape[j][ps[j].content].kind # None}}

NormalizedFromParts(ps, k) ==
    LET ids == Retained(ps, k)
    IN  [ids |-> ids, primary |-> Min(ids), edited |-> Max({ps[i].edited : i \in ids}),
         text |-> NormalizedText(ps, ids), media |-> NormalizedMedia(ps, ids)]

ArchiveAssets(k, media) == {<<k, m>> : m \in {n \in media : n[2] \in ArchivedKinds}}

\* Recompute the parent from every part it retains, then add the assets that
\* its media lacks.  Rows of assets are never removed or reset.
Rebuild(ps, k, row) ==
    LET source == NormalizedFromParts(ps, k)
    IN  /\ parts' = ps
        /\ messages' = [messages EXCEPT ![k] = [row EXCEPT !.source = source]]
        /\ assets' = assets \cup ArchiveAssets(k, source.media)

-----------------------------------------------------------------------------
(* Operations *)

StoreInit ==
    /\ parts = [i \in Ids |-> None]
    /\ messages = [k \in Logicals |-> None]
    /\ assets = {}

\* Fault: an older edit is accepted.
AcceptsOlderEdit(part, d) == TRUE

\* Ingestion replaces a part unless the stored edit is newer.
IncomingIsNotStale(part, d) ==
    \/ part.edited = NotEdited
    \/ d.edited # NotEdited /\ part.edited <= d.edited

\* No component of ds belongs to another logical message.
ComponentsOwned(k, ds) ==
    \A d \in ds : parts[d.id] # None => parts[d.id].owner = k

MergedParts(k, ds) ==
    [i \in Ids |->
        IF \E d \in ds : d.id = i /\ (parts[i] = None \/ IncomingIsNotStale(parts[i], d))
        THEN LET d == CHOOSE d \in ds : d.id = i
             IN  [owner |-> k, content |-> d.content, edited |-> d.edited]
        ELSE parts[i]]

\* Ingest the snapshots ds as components of k, at most one for each id.
UpsertMessage(k, ds) ==
    /\ ComponentsOwned(k, ds)
    /\ LET ps == MergedParts(k, ds)
           row == IF messages[k] # None THEN messages[k]
                  ELSE NewMessage(NormalizedFromParts(ps, k))
       IN  Rebuild(ps, k, row)

\* Fault: a live edit leaves the parent as it was.
EditKeepsParent(d) ==
    /\ parts[d.id] # None
    /\ parts[d.id].edited = NotEdited \/ d.edited > parts[d.id].edited
    /\ parts' = [parts EXCEPT ![d.id].content = d.content, ![d.id].edited = d.edited]
    /\ UNCHANGED <<messages, assets>>

\* A live edit of a known component that is strictly newer than its row.
RecordEdit(d) ==
    /\ parts[d.id] # None
    /\ parts[d.id].edited = NotEdited \/ d.edited > parts[d.id].edited
    /\ LET k == parts[d.id].owner
           ps == [parts EXCEPT ![d.id].content = d.content, ![d.id].edited = d.edited]
       IN  Rebuild(ps, k, [messages[k] EXCEPT !.changed = @ \/ messages[k].processed])

\* The first deletion of a component marks the whole logical message.
RecordDeletion(i) ==
    /\ parts[i] # None
    /\ LET k == parts[i].owner
       IN  /\ messages[k].deletedBy = None
           /\ messages' = [messages EXCEPT ![k].deletedBy = i,
                                           ![k].changed = @ \/ messages[k].processed]
    /\ UNCHANGED <<parts, assets>>

\* External: nothing under src/ writes processing_status yet; edits and
\* deletions read it.
MarkProcessed(k) ==
    /\ messages[k] # None
    /\ ~messages[k].processed
    /\ messages' = [messages EXCEPT ![k].processed = TRUE]
    /\ UNCHANGED <<parts, assets>>

-----------------------------------------------------------------------------
(* Properties *)

StoreTypeOK ==
    /\ parts \in [Ids -> Part \cup {None}]
    /\ messages \in [Logicals -> Message \cup {None}]
    /\ assets \subseteq Logicals \X Media

(* Whatever mixture of history replays, updates, partial albums and edits a *)
(* message has seen, its row is what its retained parts say together, and   *)
(* all its images and videos have an asset: upsert_message and record_edit  *)
(* recompute the parent from every part in the same transaction.            *)
ParentMatchesParts ==
    /\ \A i \in Ids : parts[i] # None => messages[parts[i].owner] # None
    /\ \A k \in Logicals : messages[k] # None =>
        /\ messages[k].source = NormalizedFromParts(parts, k)
        /\ ArchiveAssets(k, messages[k].source.media) \subseteq assets

(* Nothing that was observed at the source is taken back: a part stays, with *)
(* its owner, and its edited_at never goes back, however late a snapshot     *)
(* arrives; the first deletion and the change mark of a message stay too.    *)
SourceHistoryKept ==
    [][/\ \A i \in Ids : parts[i] # None =>
            /\ parts'[i] # None
            /\ parts'[i].owner = parts[i].owner
            /\ parts'[i].edited >= parts[i].edited
       /\ \A k \in Logicals : messages[k] # None =>
            /\ messages'[k] # None
            /\ messages[k].changed => messages'[k].changed
            /\ messages[k].deletedBy # None => messages'[k].deletedBy = messages[k].deletedBy
      ]_storeVars

=============================================================================
