---------------------------- MODULE MediaArchive ----------------------------
(***************************************************************************)
(* Archiving of source media: ingestion adds image and video assets with   *)
(* their wake-ups, the dispatcher of DurableWakeups delivers their ids, and *)
(* workers lease an asset, download its media, write the derived objects   *)
(* to write-once storage and publish the asset as READY.                   *)
(* Entities are the rows of image_assets and video_assets; the two workers *)
(* and repositories differ in the objects only: one for an image, the      *)
(* cover and the representative frames for a video.                        *)
(*                                                                         *)
(* Media is known by its version: an edit on Telegram replaces it while    *)
(* the asset id and with it the storage keys stay.  Normalization and      *)
(* sampling are deterministic, so one version always yields the same bytes *)
(* under a key, and two versions yield different ones.                     *)
(*                                                                         *)
(* The lease token is fresh per claim, and so is the attempt number the    *)
(* claim writes, which stands for it.                                      *)
(***************************************************************************)
EXTENDS DurableWakeups

CONSTANTS
    Workers,        \* Celery worker slots
    MaxAttempts,    \* archive_max_attempts
    MaxVersion,     \* bound: versions of an asset's media
    MaxObjects,     \* bound: objects of an asset
    ObjectCount     \* objects that a version of an asset's media yields

Versions == 1..MaxVersion

ASSUME ArchiveAssumption ==
    /\ MaxAttempts \in Nat \ {0}
    /\ MaxVersion \in Nat \ {0}
    /\ MaxObjects \in Nat \ {0}
    /\ ObjectCount \in [Entities -> [Versions -> 1..MaxObjects]]

VARIABLES
    source,     \* version of an asset's media that Telegram serves
    tombstoned, \* assets whose message has source_deleted_at
    asset,      \* image_assets and video_assets
    stored,     \* stored[e][i]: version whose bytes object i of e holds
    task        \* task[w]: the attempt w is making

sourceVars == <<source, tombstoned>>
vars == <<wakeupVars, sourceVars, asset, stored, task>>

-----------------------------------------------------------------------------
(* Rows and tasks *)

NoVersion == 0
Unfinished == {"pending", "processing", "retry_wait"}
Terminal == {"ready", "failed"}

\* archived is what the READY metadata describes.  The state "deleted" of the
\* CHECK constraint is written by nothing yet.
Asset == [state : {"absent"} \cup Unfinished \cup Terminal, attempts : 0..MaxAttempts,
          timer : Timer, archived : Versions \cup {NoVersion}]

NoAsset == [state |-> "absent", attempts |-> 0, timer |-> "none", archived |-> NoVersion]
NewAsset == [NoAsset EXCEPT !.state = "pending"]

\* deleted is the source_deleted_at that the claim has read, next the object to
\* write next.
Task == [at : {"idle", "download", "put", "publish", "finish"},
         asset : Entities \cup {None}, token : 0..MaxAttempts, deleted : BOOLEAN,
         content : Versions \cup {NoVersion}, next : 1..MaxObjects]

Idle == [at |-> "idle", asset |-> None, token |-> 0, deleted |-> FALSE,
         content |-> NoVersion, next |-> 1]

Init ==
    /\ WakeupInit
    /\ source = [e \in Entities |-> 1]
    /\ tombstoned = {}
    /\ asset = [e \in Entities |-> NoAsset]
    /\ stored = [e \in Entities |-> [i \in 1..MaxObjects |-> NoVersion]]
    /\ task = [w \in Workers |-> Idle]

-----------------------------------------------------------------------------
(* The source message *)

ReplaceMedia(e) ==
    /\ source[e] < MaxVersion
    /\ source' = [source EXCEPT ![e] = @ + 1]
    /\ UNCHANGED <<wakeupVars, tombstoned, asset, stored, task>>

\* record_deletion: the first observation stays.
Tombstone(e) ==
    /\ e \notin tombstoned
    /\ tombstoned' = tombstoned \cup {e}
    /\ UNCHANGED <<wakeupVars, source, asset, stored, task>>

\* Fault: the upsert writes archive_state whether or not the row exists.
ResetByIngest(e) == NewAsset

\* The row that the upsert of an asset leaves: source facts only, when it exists.
Upserted(e) == IF asset[e].state = "absent" THEN NewAsset ELSE asset[e]

\* One ingested or edited message, replayed any number of times: the asset is
\* added, and a wake-up if it is pending and has none.
Ingest(e) ==
    /\ asset' = [asset EXCEPT ![e] = Upserted(e)]
    /\ wakeup' = IF Upserted(e).state = "pending" /\ wakeup[e].status = "absent"
                 THEN [wakeup EXCEPT ![e] = NewWakeup]
                 ELSE wakeup
    /\ UNCHANGED <<inFlight, claims, sending, sourceVars, stored, task>>

-----------------------------------------------------------------------------
(* Wake-up rows as the archive repositories write them *)

Open(e) == wakeup[e].status \in {"pending", "leased"}

CloseWakeup(e) ==
    wakeup' = IF Open(e) THEN [wakeup EXCEPT ![e] = CompletedWakeup] ELSE wakeup

RescheduleWakeup(e) ==
    wakeup' = IF Open(e) THEN [wakeup EXCEPT ![e] = RescheduledWakeup] ELSE wakeup

-----------------------------------------------------------------------------
(* Dispatcher, broker and clocks *)

archiveVars == <<sourceVars, asset, stored, task>>

BeginDispatch(s) == (\E S \in SUBSET Entities : ClaimDue(s, S)) /\ UNCHANGED archiveVars

DispatchStep(s, e) ==
    /\ Dispatch(s, e) \/ DispatchFails(s, e) \/ ReleaseClaim(s, e)
    /\ UNCHANGED archiveVars

CycleAborts(s) == ~NothingClaimed(s) /\ ForgetClaims(s) /\ UNCHANGED archiveVars

WakeupBecomesDue(e) == WakeupTimerElapses(e) /\ UNCHANGED archiveVars

DeliveryFails(e) == LoseMessage(e) /\ UNCHANGED archiveVars

\* archive_next_retry_at or archive_lease_expires_at passes.
AssetTimerElapses(e) ==
    /\ asset[e].timer = "set"
    /\ asset' = [asset EXCEPT ![e].timer = "elapsed"]
    /\ UNCHANGED <<wakeupVars, sourceVars, stored, task>>

-----------------------------------------------------------------------------
(* The worker *)

Claimable(e) ==
    \/ asset[e].state = "pending"
    \/ asset[e].state \in {"retry_wait", "processing"} /\ asset[e].timer = "elapsed"

Deliver(w, e) ==
    /\ task[w] = Idle
    /\ TakeMessage(e)
    /\ UNCHANGED <<claims, sending, sourceVars, stored>>

\* Fault: a claim does not look at archive_max_attempts.
ClaimWithoutLimit(w, e) ==
    /\ Deliver(w, e)
    /\ Claimable(e)
    /\ asset' = [asset EXCEPT ![e].state = "processing", ![e].attempts = @ + 1,
                              ![e].timer = "set"]
    /\ task' = [task EXCEPT ![w] =
                  [Idle EXCEPT !.at = "download", !.asset = e,
                               !.token = asset[e].attempts + 1,
                               !.deleted = (e \in tombstoned)]]
    /\ UNCHANGED wakeup

ClaimAsset(w, e) ==
    /\ Deliver(w, e)
    /\ Claimable(e)
    /\ asset[e].attempts < MaxAttempts
    /\ asset' = [asset EXCEPT ![e].state = "processing", ![e].attempts = @ + 1,
                              ![e].timer = "set"]
    /\ task' = [task EXCEPT ![w] =
                  [Idle EXCEPT !.at = "download", !.asset = e,
                               !.token = asset[e].attempts + 1,
                               !.deleted = (e \in tombstoned)]]
    /\ UNCHANGED wakeup

Finishing(e) == [Idle EXCEPT !.at = "finish", !.asset = e]

\* The claim that finds the attempts used up ends the asset instead.
ExhaustAsset(w, e) ==
    /\ Deliver(w, e)
    /\ Claimable(e)
    /\ asset[e].attempts = MaxAttempts
    /\ asset' = [asset EXCEPT ![e].state = "failed", ![e].timer = "none"]
    /\ CloseWakeup(e)
    /\ task' = [task EXCEPT ![w] = Finishing(e)]

\* Fault: a delivery that claims nothing is dropped.
DropDelivery(w, e) ==
    /\ Deliver(w, e)
    /\ UNCHANGED <<wakeup, asset, task>>

\* Nothing is claimed: the row is not due, finished, or locked by a transaction
\* of another worker, which SKIP LOCKED passes over.
NothingToClaim(w, e) ==
    /\ Deliver(w, e)
    /\ task' = [task EXCEPT ![w] = Finishing(e)]
    /\ UNCHANGED <<wakeup, asset>>

\* Fault: the state alone, without the lease token.
HoldsAnyClaim(w) == asset[task[w].asset].state = "processing"

\* The WHERE clause of mark_ready and fail.  The deadline is not part of it.
HoldsClaim(w) ==
    /\ asset[task[w].asset].state = "processing"
    /\ asset[task[w].asset].attempts = task[w].token

EndTask(w) == task' = [task EXCEPT ![w] = Idle]

\* An attempt ends in fail(), which writes nothing once the claim is lost.
Fail(w, retryable) ==
    LET e == task[w].asset
        again == retryable /\ asset[e].attempts < MaxAttempts
    IN /\ EndTask(w)
       /\ \/ /\ HoldsClaim(w) /\ again
             /\ asset' = [asset EXCEPT ![e].state = "retry_wait", ![e].timer = "set"]
             /\ RescheduleWakeup(e)
          \/ /\ HoldsClaim(w) /\ ~again
             /\ asset' = [asset EXCEPT ![e].state = "failed", ![e].timer = "none"]
             /\ CloseWakeup(e)
          \/ /\ ~HoldsClaim(w)
             /\ UNCHANGED <<asset, wakeup>>
       /\ UNCHANGED <<inFlight, claims, sending, sourceVars, stored>>

\* The claim has read a deleted message: nothing is downloaded.
RefuseDeleted(w) == task[w].at = "download" /\ task[w].deleted /\ Fail(w, FALSE)

\* Fault: the deletion that the claim has read is not looked at.
DownloadAnyway(w) ==
    /\ task[w].at = "download"
    /\ task' = [task EXCEPT ![w].at = "put",
                            ![w].content = source[task[w].asset]]
    /\ UNCHANGED <<wakeupVars, sourceVars, asset, stored>>

Download(w) ==
    /\ task[w].at = "download" /\ ~task[w].deleted
    /\ task' = [task EXCEPT ![w].at = "put",
                            ![w].content = source[task[w].asset]]
    /\ UNCHANGED <<wakeupVars, sourceVars, asset, stored>>

\* Telegram protects the content or has it no longer.
DownloadRefused(w) == task[w].at = "download" /\ ~task[w].deleted /\ Fail(w, FALSE)

DownloadFails(w) == task[w].at = "download" /\ ~task[w].deleted /\ Fail(w, TRUE)

\* The object under the key that is written next.
Target(w) == stored[task[w].asset][task[w].next]

LastObject(w) == task[w].next = ObjectCount[task[w].asset][task[w].content]

\* Fault: put replaces the object that is there.
Overwritable(w) == TRUE

\* put links a new name and never replaces one; the same bytes are a replay.
Writable(w) == Target(w) \in {NoVersion, task[w].content}

PutObject(w) ==
    /\ task[w].at = "put"
    /\ Writable(w)
    /\ stored' = [stored EXCEPT ![task[w].asset][task[w].next] = task[w].content]
    /\ task' = IF LastObject(w)
               THEN [task EXCEPT ![w].at = "publish"]
               ELSE [task EXCEPT ![w].next = @ + 1]
    /\ UNCHANGED <<wakeupVars, sourceVars, asset>>

PutConflicts(w) == task[w].at = "put" /\ ~Writable(w) /\ Fail(w, TRUE)

\* The media cannot be decoded or probed, or storage or database raises.
ArchiveFails(w) == task[w].at \in {"put", "publish"} /\ Fail(w, TRUE)

MarkReady(w) ==
    /\ task[w].at = "publish"
    /\ HoldsClaim(w)
    /\ asset' = [asset EXCEPT ![task[w].asset].state = "ready",
                              ![task[w].asset].timer = "none",
                              ![task[w].asset].archived = task[w].content]
    /\ task' = [task EXCEPT ![w] = Finishing(task[w].asset)]
    /\ UNCHANGED <<wakeupVars, sourceVars, stored>>

\* mark_ready matches no row; the exception it becomes ends in fail().
ClaimLost(w) == task[w].at = "publish" /\ ~HoldsClaim(w) /\ Fail(w, TRUE)

\* Fault: the wake-up is completed whatever the state of the asset.
FinishAlways(w) ==
    /\ task[w].at = "finish"
    /\ CloseWakeup(task[w].asset)
    /\ EndTask(w)
    /\ UNCHANGED <<inFlight, claims, sending, sourceVars, asset, stored>>

\* complete_wakeup_if_terminal, in a transaction of its own.
FinishTask(w) ==
    /\ task[w].at = "finish"
    /\ IF asset[task[w].asset].state \in Terminal
       THEN CloseWakeup(task[w].asset)
       ELSE UNCHANGED wakeup
    /\ EndTask(w)
    /\ UNCHANGED <<inFlight, claims, sending, sourceVars, asset, stored>>

\* The process dies between two transactions, or one of them raises.
WorkerDies(w) ==
    /\ task[w].at # "idle"
    /\ EndTask(w)
    /\ UNCHANGED <<wakeupVars, sourceVars, asset, stored>>

StartTask(w, e) == ClaimAsset(w, e) \/ ExhaustAsset(w, e) \/ NothingToClaim(w, e)

AttemptStep(w) ==
    \/ RefuseDeleted(w) \/ Download(w) \/ DownloadRefused(w) \/ DownloadFails(w)
    \/ PutObject(w) \/ PutConflicts(w) \/ ArchiveFails(w)
    \/ MarkReady(w) \/ ClaimLost(w)
    \/ FinishTask(w)

Environment ==
    \E e \in Entities :
        \/ ReplaceMedia(e) \/ Tombstone(e) \/ Ingest(e)
        \/ WakeupBecomesDue(e) \/ DeliveryFails(e) \/ AssetTimerElapses(e)

SchedulerStep(s) ==
    \/ BeginDispatch(s)
    \/ CycleAborts(s)
    \/ \E e \in Entities : DispatchStep(s, e)

WorkerStep(w) ==
    \/ AttemptStep(w)
    \/ WorkerDies(w)
    \/ \E e \in Entities : StartTask(w, e)

Next ==
    \/ Environment
    \/ \E s \in Schedulers : SchedulerStep(s)
    \/ \E w \in Workers : WorkerStep(w)

Spec == Init /\ [][Next]_vars

-----------------------------------------------------------------------------
(* What must hold *)

\* Rows and tasks have the values their columns and variables admit
\* (ImageAssetRecord, VideoAssetRecord and their CHECK constraints on states).
TypeOK ==
    /\ wakeup \in [Entities -> Wakeup]
    /\ inFlight \subseteq Entities
    /\ claims \in [Schedulers -> SUBSET Entities]
    /\ sending \in [Schedulers -> SUBSET Entities]
    /\ source \in [Entities -> Versions]
    /\ tombstoned \subseteq Entities
    /\ asset \in [Entities -> Asset]
    /\ stored \in [Entities -> [1..MaxObjects -> Versions \cup {NoVersion}]]
    /\ task \in [Workers -> Task]

\* The workers see to it that an asset with work left has a wake-up that will be
\* dispatched again, and that one which is over keeps or has closed its own:
\* mark_ready leaves the wake-up open, fail closes it in the same transaction.
WakeupAgrees ==
    \A e \in Entities :
        /\ asset[e].state = "absent" <=> wakeup[e].status = "absent"
        /\ asset[e].state \in Unfinished => Open(e)
        /\ asset[e].state = "failed" => wakeup[e].status = "completed"

\* READY is never claimed for objects that are not there (architecture document,
\* section 30): each object the published metadata names holds the bytes it was
\* computed from, however many attempts, of whichever versions of the media,
\* wrote under the same keys before, during and after the one that published.
ReadyIsStored ==
    \A e \in Entities : asset[e].state = "ready" =>
        /\ asset[e].archived \in Versions
        /\ \A i \in 1..ObjectCount[e][asset[e].archived] :
              stored[e][i] = asset[e].archived

\* A finished asset is left alone for good and its completed wake-up stays
\* completed: by replayed ingestion, late workers, duplicate deliveries and
\* dispatchers that release a lease they held before.
FinishedForGood ==
    [][\A e \in Entities :
          /\ asset[e].state \in Terminal => asset'[e] = asset[e]
          /\ wakeup[e].status = "completed" => wakeup'[e] = wakeup[e]]_vars

\* Worker w makes the attempt that asset e is leased for.
Attempting(w, e) ==
    /\ task[w].at \in {"download", "put", "publish"}
    /\ task[w].asset = e
    /\ asset[e].state = "processing"
    /\ asset[e].attempts = task[w].token

\* Before its deadline, the outcome of an attempt is recorded by the task that
\* makes it and by no other: not by a task whose lease was taken over.
LeaseRespected ==
    [][\A e \in Entities :
          /\ asset[e].state = "processing" /\ asset[e].timer = "set"
          /\ asset'[e].state # "processing" \/ asset'[e].attempts # asset[e].attempts
          => \E w \in Workers : Attempting(w, e) /\ task'[w] # task[w]]_vars

\* Once a message is recorded as deleted, only an attempt that was claimed before
\* can still publish its media; no retry of it, nor a first attempt, ever does.
DeletionRespected ==
    [][\A e \in Entities :
          /\ e \in tombstoned
          /\ asset[e].state # "ready"
          /\ \A w \in Workers : Attempting(w, e) => task[w].deleted
          => asset'[e].state # "ready"]_vars

-----------------------------------------------------------------------------
(* Why it holds: an inductive invariant *)

\* The lease, retry and metadata CHECK constraints of the two tables.
AssetChecks(e) ==
    /\ asset[e].timer # "none" <=> asset[e].state \in {"processing", "retry_wait"}
    /\ asset[e].state = "processing" => asset[e].attempts > 0
    /\ asset[e].state = "ready" <=> asset[e].archived # NoVersion

\* The deadline CHECK constraints of durable_wakeups.
WakeupChecks(e) == wakeup[e].timer # "none" <=> Open(e)

\* The objects before the next one hold the content of the attempt, all of them
\* once it is to be published.
TaskHasStored(w) ==
    LET e == task[w].asset
    IN /\ task[w].at = "download" => task[w].next = 1
       /\ task[w].at = "put" =>
             /\ task[w].content \in Versions
             /\ task[w].next <= ObjectCount[e][task[w].content]
             /\ \A i \in 1..MaxObjects : i < task[w].next => stored[e][i] = task[w].content
       /\ task[w].at = "publish" =>
             /\ task[w].content \in Versions
             /\ \A i \in 1..ObjectCount[e][task[w].content] : stored[e][i] = task[w].content

TaskAgrees(w) ==
    /\ task[w].asset \in Entities
    /\ task[w].at # "finish" =>
          /\ asset[task[w].asset].state # "absent"
          /\ task[w].token <= asset[task[w].asset].attempts
    /\ task[w].at \in {"put", "publish"} => ~task[w].deleted
    /\ TaskHasStored(w)

TasksAgree == \A w \in Workers : task[w].at # "idle" => TaskAgrees(w)

InductiveInvariant ==
    /\ TypeOK
    /\ \A e \in Entities : AssetChecks(e) /\ WakeupChecks(e)
    /\ WakeupAgrees
    /\ TasksAgree
    /\ ReadyIsStored

-----------------------------------------------------------------------------
(* Liveness *)

\* Deadlines pass.  The scheduler is run again and again, and of endlessly many
\* cycles some claim a given due row and reach the broker.  The broker does not
\* lose every message of an asset, and of endlessly many deliveries of one that
\* can be claimed, or has nothing left to do, some meet a worker that lives on
\* to its next transaction.  A worker slot does not hang in a task.
Fairness ==
    /\ \A e \in Entities :
          /\ WF_vars(AssetTimerElapses(e))
          /\ WF_vars(WakeupBecomesDue(e))
          /\ SF_vars(\E s \in Schedulers : BeginDispatch(s) /\ e \in claims'[s])
          /\ SF_vars(\E s \in Schedulers : DispatchStep(s, e) /\ e \in inFlight')
          /\ SF_vars(\E w \in Workers : ClaimAsset(w, e) \/ ExhaustAsset(w, e))
          /\ SF_vars(\E w \in Workers : ~Claimable(e) /\ StartTask(w, e))
          /\ SF_vars(\E w \in Workers : task[w].asset = e /\ FinishTask(w))
    /\ \A s \in Schedulers :
          WF_vars(\E e \in sending[s] : DispatchStep(s, e))
    /\ \A w \in Workers : WF_vars(AttemptStep(w))

FairSpec == Spec /\ Fairness

\* An ingested asset is ready or failed in the end, and its wake-up completed:
\* also when its worker died between mark_ready and the completion.
AssetSettles ==
    \A e \in Entities :
        asset[e].state # "absent" ~>
            asset[e].state \in Terminal /\ wakeup[e].status = "completed"

=============================================================================
