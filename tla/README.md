# TG-VLM-Curator: specifications

TLA+ specifications of the parts of TG-VLM-Curator whose correctness depends on
the order in which several processes, transactions, messages and crashes meet.
PostgreSQL rows are the only durable state; every worker and scheduler step is
one short transaction; everything between two transactions (a Telegram call,
a broker call, an inference call) may fail, take arbitrarily long or be the
point at which the process dies. The specifications take each transaction as
one action and everything in between as interleaving.

Contents: [inventory](#inventory), [modules](#modules),
[correspondence](#correspondence-with-the-code), [runs](#runs),
[findings](#findings), [fairness](#fairness), [proofs](#proofs), [limits](#what-is-not-shown),
[plan](#plan).

## Inventory

| Component | State | Operations | Hard behaviour | What makes it correct |
|---|---|---|---|---|
| Durable wake-ups, dispatcher (`processing_repository.py`, `scheduler.py`, `celery_dispatcher.py`) | one `durable_wakeups` row per queue and entity: status, deadline, lease | claim due rows, send the entity id, acknowledge, reschedule; the owner creates, reschedules, completes | two schedulers, late acknowledgements, broker loss and repetition, crash with rows leased | a row is open exactly while its entity has work; an open row is sent again and again; a late release changes nothing that is not its own |
| Range scheduling and executions (`processing_repository.py`, `scheduler.py`, `history_ingestion.py`, `execution_worker.py`) | `processing_ranges`, `range_executions`, worker tasks, snapshots held by cycles | list ranges, freeze a window, claim, ingest, advance, complete, fail | stale snapshots, expired leases and takeovers, replays, attempts running out, crash between any two transactions | no surviving message behind the watermark is missing; windows tile; one lease holder; late workers write nothing; executions end; ranges catch up |
| Image and video archive (`image_archive_repository.py`, `video_archive_repository.py`, `archive_worker.py`, `local_storage.py`) | asset rows, archive objects, worker attempts | ingest, claim, download, put, mark ready, fail, close the wake-up | write-once keys, media replaced between attempts, publication after the lease ran out, deletion during an attempt, crash between READY and the wake-up | READY rows describe the stored bytes; finished assets are never touched again; an open asset always has an open wake-up; every asset settles |
| Telegram ingestion and source lifecycle (`message_ingest_repository.py`, `source_lifecycle_repository.py`, `domain/messages`) | messages, parts, assets | upsert, edit, delete | replays against live edits and deletions, several components of one message in any order | parts keep their message and their newest edit; a message is what its parts say together; its media have assets |
| Reconnect reconciliation (`reconciliation.py`) | two cursors per channel | observe, fetch, ingest, acknowledge | overlapping runs, realtime ingestion, a window frozen before two calls | cursors never move back; a window is acknowledged only when it is stored |
| Media group buffer, realtime handlers (`media_group_buffer.py`, `realtime_ingestion.py`) | pending groups in memory | add, flush due, flush all, ingest, acknowledge | late, repeated and lost updates, loss of the buffer | every observed component is stored, or read again after a restart |
| Analysis engine (`analysis_repository.py`, `analysis/worker.py`) | analysis runs, stage runs, label assignments, inference calls | claim, load, start inference, record, commit, retry, gate, complete run | crash between commit, gate and run completion, skipped stages with late workers, lock order | an activated negative label blocks the message; a run ends in the state its stages say |
| Analysis value objects and validation (`result_validator.py`, `labels.py`, `facts.py`) | none | validate a response, activate labels, decide the gate | ambiguous, foreign, missing and ill-formed results | a target has the result of the one item that names it, or is retried |
| Routing and publication intents (`routing_repository.py`, `routing/service.py`, `routing/dsl.py`) | evaluations, intents | find, load, evaluate, persist under a request id | racing and repeated requests, facts and policy that change in between, unknown labels | one evaluation per request id, which every caller answers with; it follows the rules over the facts of one moment; what is unknown matches nothing |
| Review (`review_repository.py`, `review/resolution.py`) | label and status events | append, transition, resolve | times taken before the lock | status history is a chain; the newest event of a label decides |
| Configuration versions (migration triggers and indexes) | draft and published rows | publish, archive, edit | edits of a draft that is being published, rows that evaluations refer to | one published version per configuration and label key |
| Settings, encryption, logging, administration, HTTP | none of protocol interest | | | |

The components meet in the database. Scheduler cycles and ingestion create
wake-ups; the dispatcher leases them and sends ids through Celery/Redis;
workers take an id, lease the entity and complete or reschedule its wake-up in
the entity's own transaction. Nothing in `src/` creates processing ranges,
analysis runs or stage runs or changes a channel's configuration: those are
the environment. Nothing publishes an intent either. `apps/telegram_ingestor` is empty and the publication
service is not implemented at this commit.

## Modules

| Module | What it is |
|---|---|
| `DurableWakeups` | wake-up rows, dispatcher, broker; generic in the entities that own the rows |
| `RangeProcessing` | scheduler cycles, range executions and workers over `DurableWakeups`, with invariants, action properties, fairness and liveness |
| `ContinuousProgress` | abstract promise: a frontier per range that moves from one end of a window to the other only when the window's surviving messages are persisted |
| `RangeRefinement` | the refinement mapping from `RangeProcessing` to `ContinuousProgress` |
| `MediaArchive` | image and video assets over `DurableWakeups`: ingestion, attempts, write-once objects, READY, with invariants, action properties, fairness and liveness |
| `ResponseValidation` | what a provider's response amounts to: items against expected targets and label set, activated labels, the gate decision |
| `AnalysisStages` | analysis runs and stage runs over `DurableWakeups` and `ResponseValidation`: claim, cache, inference, validation, commit, negative gate, run completion, with invariants, action properties, fairness and liveness |
| `MessageStore` | parts, logical messages and assets of one channel, and the transactions on them: upsert, edit, deletion |
| `TelegramIngestion` | what calls them: updates, media group buffer, realtime handlers, reconciliation, replays and the two cursors |
| `RoutingRules` | the condition language, three-valued, and the evaluation of a policy's rules over facts |
| `ConfigurationVersions` | drafts, publication, archiving, and edits of the rules below a draft |
| `Review` | manual label events, review status and its history, the three label namespaces; over `ConfigurationVersions` and `RoutingRules` |
| `Routing` | `RoutingService.evaluate` and its repository over `Review`: concurrent callers, snapshot, decision, one evaluation per request id |
| `MCRangeProcessing`, `MCMediaArchive`, `MCAnalysisStages`, `MCTelegramIngestion`, `MCRouting` | values for the constants of the runs |
| `RangeProcessing_proofs`, `RangeHistory_proofs`, `RangeSteps_proofs` | theorems on ranges, in that order of dependence |
| `MediaArchive_proofs` | theorems on the archive |
| `ResponseValidation_proofs` | theorems on the validation of responses |
| `AnalysisStages_proofs` | theorems on runs, stages and the gate |
| `TelegramIngestion_proofs` | theorems on messages, parts, buffer and cursors |
| `Routing_proofs` | theorems on routing, its rules and the review |

`RangeProcessing`, `MediaArchive` and `AnalysisStages` extend `DurableWakeups`, for
the queue of range executions, the queues of assets and the queue of stage runs:
each is written against the same dispatcher actions and adds what its transactions
do to wake-up rows. `TelegramIngestion` extends `MessageStore` and `Routing` extends
`Review`, each with who calls the transactions of the module below, and when.
`RangeProcessing` and `TelegramIngestion` meet in the ingestion of a window: the
former takes the persistence of one message as one step and asks what the windows
add up to, the latter opens that step and asks what it does beside everything else
that writes the same message.

Operators introduced by a comment `Fault:` are plausible mistakes in the
definition that follows them. No specification uses them; each shows, put in
that definition's place, that a property would notice.

## Correspondence with the code

`wakeup[e]` is the row of `durable_wakeups` whose `entity_id` is `e`;
`exec[e]`, `range[r]` are rows of `range_executions` and `processing_ranges`;
`ingested` is the set of message ids that have reached `messages`;
`profile` and `enabled` are the columns `active_profile_version_id` and
`enabled` of channel and range. `plan[s]` is the loop variable of
`ProcessingRangeScheduler.schedule` in scheduler `s`, `claims[s]` and
`sending[s]` the position of `dispatch_due` in its list, and `task[w]` the
local variables of `handle_range_execution` in worker `w`. `lastId`,
`visible` and `settled` describe the Telegram channel.

* Time is not counted. A deadline column is a timer: `set`, and `elapsed` once
  the environment says so. Each process reads a clock once per cycle or task,
  the code never compares two such readings, and this makes every order of
  readings possible.
* Lease tokens are UUIDs drawn per claim. For an execution the attempt number
  written by the same claim serves as its token, for a wake-up the
  scheduler's identity does, because a scheduler drops the tokens of a cycle
  before it claims again.
* `processing_watermark_message_id` is NULL until the first completion. Every
  reader replaces NULL by `resolved_start_message_id - 1`; `watermark` is the
  value after the replacement.
* `ListEnabledRanges` reads all ranges at once, as the query does. A proposal is
  one further step (`Propose`), because the boundary is observed by a Telegram
  call, and the freeze transaction another (`Freeze`, `RefuseFreeze`).
* `StartTask` is one delivery up to the commit of `claim_execution`: it claims,
  ends an exhausted execution, or finds nothing to do. A delivery that finds the
  row locked (`SKIP LOCKED`) equals a lost message.
* `FetchHistory` returns the messages of the window that exist at that moment;
  `_validate_history_window` rejects anything else and then the task aborts.
  `IngestMessage` is one transaction per message.
* `HoldsLease` has no deadline in it: `process` passes the `now` of its start to
  `advance_watermark` and `complete_execution`, and the task's own lease cannot
  have expired before it was granted. A takeover is what ends it.
* `RangeExecutionWorker.fail` has no caller in `src/`; it is offered to the task
  that runs. Exceptions leave the lease to expire (`TaskAborts`).
* `CycleAborts` stands for every exception out of `run_once` and for the death of
  the process, in every position.

The archive:

* `asset[e]` is a row of `image_assets` or `video_assets`, `stored[e][i]` the
  object under the asset's i-th storage key, `task[w]` the local variables of
  `ImageArchiveWorker.process` or `VideoArchiveWorker.process`. The two workers
  and repositories are the same protocol; an image has one object, a video a
  cover and frames, which is what `ObjectCount` says. `MarkReady` writes the
  row and its `video_frames` in one transaction.
* The reader derives the asset id from channel and message id, so an edit that
  replaces the media keeps the row and its keys. `source[e]` counts those
  versions. Normalization and sampling are taken to be deterministic, and two
  versions to differ in their bytes.
* `PutObject` is `link()` on a new name or the comparison with the bytes that
  are there; a crash before `link()` leaves a temporary file only.
* `deleted` is the `source_deleted_at` that the claim's SELECT has joined;
  nothing reads it again during the attempt.
* `Ingest` is `synchronize_archive_assets`, in any transaction that ingests or
  edits the message, as often as one likes.
* `Deliver` is the first transaction of a task; `FinishTask` is
  `complete_wakeup_if_terminal`, a transaction of its own, both after
  `mark_ready` and after a delivery that claims nothing.
* An exception whose transaction did commit (a lost connection at COMMIT) is the
  transaction's action followed by `WorkerDies`: the `fail` it leads to finds
  no claim.
* Not modelled: a NULL `source_telegram_message_id`, which the reader never
  produces, the state `deleted`, which nothing writes, and the unleased
  `mark_ready` of `SqlAlchemyImageArchiveMetadataRepository` with
  `storage.delete`, which only tests call.

The analysis engine:

* `run[r]`, `stage[e]`, `call[e][k]` are rows of `analysis_runs`, `stage_runs` and
  `inference_calls`, `labelled` the stages for which `model_label_assignments` has
  an activated negative label, `blocked[m]` the message's `blocked_by_stage_run_id`.
* `task[w].at` is the next transaction of `AnalysisStageRunWorker.process`. Each
  action is that transaction with the decision that follows it: claim
  (`ClaimStage`, `ExhaustStage`, `NothingToClaim`), `Load`, `FindCacheHit`,
  `CommitCacheHit`, `StartInference`, the provider call with its record
  (`InferenceSucceeds`, `InferenceFails`), `CommitResult`, `GiveUp`, `ApplyGate`,
  `CompleteRun`. `WorkerDies` is the end of the process, an exception or a
  rollback before it; `DiesAt` says where it may happen.
* The lease token is drawn by the claim that increments `attempt_count`, and so is
  the id of the only inference call of the attempt; the attempt number stands for
  both.
* `load_stage_snapshot` returns one target, the stage run of the claim; batches of
  targets, for which the repository's methods are written, do not occur.
* `InferenceSucceeds` picks the provider's answer from `Responses`, records it in the
  audit row and validates it against the stage's target; the worker's retry of the
  target takes one of the issues, of which `EveryTargetIsSettled` says that there is one.
* In `ResponseValidation` an item names a target or none, has the fields the schema
  asks for or not, and has scores; scores are steps of a scale. `_validate_batch` goes
  through the items one by one, but what it does with an item depends on the item and
  on how often its target is named only: `ValidTargets` and `BatchIssues` say which
  items pass and which do not.
* Of a validated result the rows keep whether it has an activated negative
  label. Which stages have equal semantic cache keys is given by `CacheKey`: the
  key is a hash of versions and inputs. A stage without cache policy has `None`.
* `HoldsLease` has no deadline in it, for the reason given for executions.
* `CreateRun` is environment: a run with all its stages and their wake-ups. The
  later stages of a pipeline are neither created nor skipped by anything in `src/`.
* `ApplyGate` needs no check that its assignments are stored: they were committed
  by the same task, and no code deletes or changes them.

Telegram ingestion:

* `parts[i]` is the row of `message_parts` of Telegram id `i`, `messages[k]` the row of
  `messages` with media group `k` or with the only id `k`, `assets` the rows of both
  asset tables, `latestSeen` and `lastSeen` the cursors of `source_channels` with 0 for
  NULL, `buffer` the dictionary `_pending` of `MediaGroupAggregationBuffer`.
* Text, metadata and media of a Telegram message are its content, a number; `Shape` says
  whether a content has a caption and which kind of media. `NormalizedFromParts` is what
  `normalize_telegram_messages` makes of the parts a message retains. `edited_at` is a
  small integer, because two edits may share a second.
* `UpsertMessage`, `RecordEdit` and `RecordDeletion` are the three transactions; each
  locks the logical message, or the part with its message. Two that meet crosswise
  are one that ends before its next step (`Abandon`).
* `job[t]` is the position of a handler, a reconciliation or a replay, with what it still
  has to ingest. `OnUpdate` and `Flush` are synchronous up to their first `await`; from
  there on `IngestNext`, `AdvanceLatest` and `AdvanceLast` are a transaction each.
* The buffer's deadlines and `flush_due` are not counted: any set of groups may be due
  at any update.
* `Show` says what the channel has under an id, `sent` every state an update may have
  been made of; an update may come at any time, repeatedly, or never. A history read is
  a view of the channel at one moment, and a reconciliation freezes its window before.

Routing, review and configuration:

* `versionState`, `rules`, `manual`, `reviewEvents`, `evaluations` and `intents` are tables;
  `reviewStatus`, `modelLabels` and `fingerprint` what one message has in others. `call[c]`
  is the position of a caller in `RoutingService.evaluate`.
* `LoadSnapshot` is the REPEATABLE READ transaction of `load_snapshot` with the evaluation
  that follows it in memory: nothing else happens in between that the caller could see.
  `PersistEvaluation` is `INSERT ... ON CONFLICT DO NOTHING` with the intents, or the
  winner's row read back, in one transaction.
* A condition is the sequence of its syntax nodes, so that it is evaluated by a recursive
  function; a value keeps its Python type, because `eq` compares types first and `in`
  does not. Scores are hundredths. A comparison with a fact that is missing is unknown
  before types are looked at, in `Compare` as in `_compare`.
* The rules of a policy are a set; `InOrder` is the sequence that the query's ORDER BY
  makes of them, by priority and then id.
* `at` is the pair of `created_at` and event id; events commit in any order of it.
* An edit of a draft takes two steps, since the trigger reads the owner's state without
  locking it (`BeginEdit`) and the rows show at the commit (`CommitEdit`).
* The facts of a message are its review status, its duplicates and its labels in three
  namespaces; the other columns are facts of the same kind. Hashes and JSON forms are left out.

Environment without code in `src/`: the channel publishes, deletes and settles,
the operator changes the profile and toggles ranges, timers elapse, the broker
loses or repeats messages, a message's media is replaced, analysis runs are
created, a worker process dies, versions are published, archived and edited, destinations
and identities disabled, and messages marked as processed.

## Runs

| Run | Instance | Question |
|---|---|---|
| `RangeTakeover` | 1 scheduler, 2 workers, latest range, 2 messages, 2 executions, 2 attempts | do overrun leases, takeovers and replays lose messages or let a late worker write; do windows tile; is the promise kept |
| `RangeCycles` | 2 schedulers, 1 worker, same range, 1 attempt, configuration changes at any time | do overlapping cycles keep the three tables consistent; is a window frozen from the current row only |
| `RangeRecovery` | fixed range, 1 execution, 2 workers, 2 attempts, fair | does every execution end, is every lost delivery repaired |
| `RangeCatchUp` | latest range that grows, 2 executions, fair | does the range catch up |
| `ArchiveAttempts` | 1 video of 2 objects whose replacement has 1, 1 scheduler, 2 workers, 2 attempts, fair | do overrun, conflicting and crashed attempts, replays and deletions leave READY true, finished assets alone and open assets with a wake-up; does every asset settle |
| `AnalysisAttempts` | 1 stage with a single target and complete scores, 5 responses, 2 workers, 2 attempts, fair, crashes before the commit | does a worker that lost its lease write anything; is a due gate or run completion always in some worker's hands; does every run end, does every negative label block |
| `AnalysisGate` | 1 run of 2 stages with one cache key, batch responses (ambiguous and foreign ones among them), 2 workers, 1 attempt, crashes anywhere | does the gate end what another worker is busy with; do run and stages agree; is a result what one response, or one finished stage, says |
| `AnalysisGateLost` | 1 stage, 1 worker, 1 attempt, fair, crashes anywhere | does every negative label block: violated, see [findings](#findings) |
| `AnalysisTestReused` | a formal and a test run of one message, same cache key, 1 worker | is a negative result of a formal run labelled: violated |
| `Ingestion` | 2 ids, of which the second may belong to the album of the first, an edit that turns an image into a captioned video, a deletion, 1 handler, 1 reader | do late, repeated and partial observations leave rows that say what their parts say; is anything taken back; is a window acknowledged that is not stored |
| `IngestionBufferLost` | the same | is every component that leaves the buffer stored or read again: violated |
| `Routing` | 2 callers, 1 request, 2 policy versions, 3 rule sets, 2 versions of a label and a media label, 2 events of each kind, 3 changes | is there one evaluation per request and one answer; does it follow the rules; does the unknown match; does the newest event decide; is the review history a chain |

Why the bounds suffice. Two workers are a holder and a usurper; two attempts are
a first claim, a takeover and, after it, an exhausted lease. Two executions of
one range are a window and its successor, so the seam between windows is there,
and the second message is published while the first window is anywhere in its
life. Two schedulers are a cycle and the one that overtakes it. A third of each
adds no new relation: the properties relate at most two tasks, two executions
or a snapshot and a row. In `RangeCycles` the operator takes the only profile away
and gives it back, and switches the range; that a change between two profiles is
noticed as well is left to the theorem `FrozenFromCurrent`.
The archive run has one asset, since assets share nothing but the workers; two
versions are the media and its replacement, two objects are enough for an attempt
to stop between them, and a replacement with fewer objects lets an older attempt
leave one more than the newer needs. The invariants and action properties of
every run that passes are proved without these bounds, see [proofs](#proofs). Two stages of a run are the one whose label
triggers the gate and the one the gate meets in any state of an attempt; with one
attempt each, what a late attempt can do to a usurper is left to
`AnalysisAttempts`, where a stage has two. The responses of the runs have one member
for each way to pass or to fail validation that leads to another row: at and below the
threshold, incomplete, out of range, no result; ambiguous, foreign, and with a foreign
item beside the right one.
Two ids are the components of an album, or an album with one component and a message of
its own which a later report may wrongly add to it, which the ownership check refuses;
one edit and one deletion against any number of replays of the older state are every
order in which an observation can be late. Handler and reader share no variable but the
rows and the cursors, and updates need no handler of their own for edits and deletions.
Two callers of one request are a winner and a loser, and each may ask again; different
requests have no row in common. Three changes are what it takes for a label to be set
and to be cleared while the policy changes, or for an edit to begin, a publication to
overtake it and the edit to commit. The rule sets have between them a rule that stops,
equal priorities, an invalid condition, a negation over an unknown label, and media
labels.
`MaxMessageId`, `Entities`, `MaxAttempts`, `Reconfigures`, `MaxVersion`, `MaxObjects`,
`MaxId`, `MaxContent`, `MaxEdited`, `MaxEdits`, `MaxGone`, `MaxEvents` and `MaxChanges` are
the only bounds; `Freeze` needs a free entity, so with all
entities used a proposal waits, which the catch-up run has room for. Symmetry
of executions, schedulers, workers and callers is used in runs without liveness only.
The specifications stutter at their end states only through the environment, so
deadlock checking stays on in every run.

Results. All runs pass: every property below holds on its instance.
`NoHistoryHole` is the central one: a message that still exists and lies at or
below its range's watermark has been persisted. `FreezeNeverConflicts` shows that the row-lock checks of `_can_freeze` are
strong enough for the silent `ON CONFLICT DO NOTHING` never to fire.
`StaleWorkerFenced`, `ProgressIsMonotone` and `FrozenFromCurrentRow` say what a
step may never do; `KeepsPromise` is the refinement.

For the archive, `ReadyIsStored` is the rule of the architecture document that
READY is written only after the files are durable, taken over all attempts: two
of them may upload different versions under the same keys at once, and still the
published metadata describes the bytes that stay. The price is visible in the
model and intended by the write-once keys: after an attempt that stored a version
and died, a replaced media conflicts in every later attempt and the asset ends as
failed. `LeaseRespected` says that an outcome before the deadline comes
from the attempt the lease was granted to; after the deadline, and until somebody
takes over, the old attempt may still publish. `DeletionRespected` states
exactly how much a deletion stops: every attempt claimed after it, not the one
under way. `AssetSettles` needs the completion of the wake-up by a delivery that
claims nothing: without it a crash after `mark_ready` would leave the wake-up
open for ever.

For the analysis, `GateStopsRun` and `OverIsOver` say that the gate is final: the
stages of the run that other workers are busy with end with it, and their late
commits, failures and retries find no lease. `RunTellsStages` is not obvious
because a stage changes in transactions that do not lock its run; the run is
right again only because whoever changes a stage goes on to
`complete_analysis_run`, which `LooseEndsAreHeld` states as an invariant, and
which the exhausting claim has to do by itself, there being no worker left.
A crash after the commit breaks exactly that. `ResultIsTraceable` ties the row of a
succeeded stage to the audit row of the very attempt that committed it and to the
response recorded there, which has to speak of the stage's target once; a cached result
ends at a stage that succeeded with the same.

For ingestion, `ParentMatchesParts` is what makes the order of observations irrelevant:
however the components of an album and their edits come in, the message is recomputed
from the parts it retains, and the parts keep the newest edit (`SourceHistoryKept`).
Equal times are where this is delicate: a replay with the `edited_at` of the stored
part replaces it, a live edit does not. `AcknowledgedWindowStored` relies on the
whole window being ingested before `last_seen` moves; a message that was deleted between
the freezing of the window and the fetch is the only one that may be missing.

For routing, `OneEvaluationPerRequest` and `AnswersAgree` say that the unique index
decides the race and that the loser forgets what it computed, its intents included.
`DecisionFollowsRules` compares the stored decision with a definition that does not go
through the rules one by one; `UnknownNeverMatches` gives every missing label every value
and demands that a match survives. Rules that say `none_media`, or `any_media` beside a
`not`, are exempt: an asset without labels has no entry among the facts and counts as free
of every label, which the rule author has to know. `NewestEventDecides` is about events that commit late.

## Findings

Each is a run with the outcome `violation`: TLC finds behaviours that the code
has and the repository's documents exclude.

* `AnalysisGateLost`: the commit of a stage and the gate are two transactions
  (`analysis/worker.py:191`). Died in between, the worker leaves a succeeded stage
  and a completed wake-up, so the gate is never applied and nothing keeps
  the run's other stages, where it has any, from being claimed. The architecture document, lines 347
  and 354, makes blocking the fixed meaning of a negative label. The same holds of
  `complete_analysis_run`, the transaction after the gate: the counterexample also
  leaves the run `running` although all its stages have ended, against line 1155
  (unfinished work is resumed from the database). On the
  single stage of `AnalysisAttempts`, where workers do not die in these two gaps,
  `RunsEnd` and `NegativeLabelBlocks` hold.
* `AnalysisTestReused`: `find_cache_hit` (`analysis_repository.py:339`) does not
  look at the mode of the source's run. The result of a test run has no label
  assignments to copy, so a formal stage that reuses it is negative without a label
  and never blocks its message, against rule 9 (line 1354) and the isolation of
  test runs.
* `IngestionBufferLost`: `_ingest_ready` (`realtime_ingestion.py:42`) acknowledges the
  greatest id it has ingested while a component with a smaller id may still wait in the
  buffer. After a restart reconciliation starts above it, against the comment in
  `media_group_buffer.py:19` that the next reconciliation re-ingests what a restart has
  lost. Only a range execution whose window still has the id before it would.

Three more places have no run and are listed among the hazards. An edit that a replay
brings to a processed message is stored without `source_changed_after_processing`
(`message_ingest_repository.py:371`), which a live edit sets and the architecture document,
line 833, wants of every edit. An edit of a draft that began before its publication commits
after it and changes the rules of a published version (`d7b3f9a1e6c2`, line 792): the
trigger does not lock the version. A manual label of an archived label version can no
longer be cleared (`review_repository.py:177`), and beside a label of its successor it
makes the facts ambiguous, so that the message is not routed any more.

## Fairness

`FairSpec` assumes, and the code's scheduling justifies: deadlines pass and a
quiet channel settles (weak fairness of the timers and of `Settle`); a scheduler
is run periodically, and a cycle that does not abort goes on (weak fairness of its
steps); of endlessly many cycles some are not aborted, some observe the boundary
of each range, some claim each due row, since `ORDER BY next_attempt_at` brings an
old row to the front, and some reach the broker (strong fairness of those steps);
the broker does not lose every message of an entity (strong fairness of
`StartTask`); a worker slot works on its task until it ends or aborts. Nothing is
assumed of failures: tasks may abort every time. Executions still end, because
each claim uses up an attempt, and a range may then have failed, which
`RangesCatchUp` allows.

`MediaArchive` assumes the same of deadlines, dispatcher and broker. Of endlessly
many deliveries of an asset some meet a worker that lives until its first
transaction commits, and of endlessly many tasks that come to the completion of
the wake-up some get there (strong fairness, per asset). Workers may die in every
attempt: then the attempts run out.

`AnalysisStages` assumes the same of deadlines, dispatcher and broker, that of
endlessly many deliveries of a stage that can be claimed some meet a worker that
commits the claim, and that a worker slot does not hang in a task. Workers may die
at every point of `DiesAt`, every time.

`TelegramIngestion` and `Routing` state no fairness: updates may never come, a
reconciliation and a caller may always fail, and nothing in `src/` runs them again.

## Proofs

### Ranges

TLAPS checks the theorems for every number of ranges, executions, schedulers,
workers, messages and attempts, under the assumptions `WakeupAssumption` and
`RangeAssumption` only: limits are positive, `None` is none of the values it
stands for, a range's start is positive and a fixed end exists already.

`TypeOK` and the row properties are not inductive alone. `RowInvariant` joins
the CHECK constraints, `ActiveWindow`, `WakeupAgrees` and `Bookkeeping`, which
records what is left once nobody works on a row: completed windows lie behind
the watermark, a failed execution has failed its range, no window passes the
channel's newest id. It is inductive with `TypeOK`, and it gives
`FreezeIsEnough`: a proposal that passes `_can_freeze` starts at the watermark
of a range without a window, all of whose old windows end at or before it.

For the history, `InductiveInvariant` adds `TasksAgree` (tokens tell tasks apart;
between fetch and completion every surviving message of the window is persisted
or still on the task's list), `AdvancedWindowsIngested` (an execution whose
watermark reached its end has its window persisted, which is what a replay after
a crash relies on), `WindowsTile` and `NoHistoryHole`. The action properties and
the refinement follow from it step by step.

| Module | Theorems |
|---|---|
| `RangeProcessing_proofs` | `TypeCorrect`, `RowsCorrect`, `ConstraintsNeverMet`, `WindowAgreement`, `WakeupAgreement`, `FreezeIsEnough` |
| `RangeHistory_proofs` | `InductiveInvariantHolds`, `HistoryIsComplete`, `CompletedWindowsTile`, `LeaseIsExclusive`, `HolderCompletes` |
| `RangeSteps_proofs` | `ProgressMonotone`, `StaleWorkersFenced`, `FrozenFromCurrent`, `ProcessingKeepsPromise` |

### Archive

`MediaArchive_proofs` assumes `WakeupAssumption` and `ArchiveAssumption`: at least
one attempt, version and object, and every version yields between one and
`MaxObjects` objects. `ReadyIsStored` is not inductive: that `mark_ready` may
be trusted rests on what the task knows. `TasksAgree` says that an attempt which
has come to its i-th object finds its own version under all keys before it, and
under all its keys once it publishes. This survives every other attempt because a
key that holds something never changes (`StoredGrows`), and it survives the
task's own lost lease because nothing in it speaks of the lease. With the CHECK
constraints (`AssetChecks`, `WakeupChecks`) and `WakeupAgrees` it forms
`InductiveInvariant`. `FinishedForGood` follows per step; `DeletionRespected`
and `LeaseRespected` follow from the lemmas `BecomesReady` (only the mark_ready of
the leased attempt leads to READY) and `ClaimEnds` (only the leased attempt ends
a running lease).

| Module | Theorems |
|---|---|
| `MediaArchive_proofs` | `ArchiveInvariant`, `ArchiveTypeCorrect`, `ArchiveWakeups`, `ReadyMeansStored`, `FinishedStaysFinished`, `LeaseAlwaysRespected`, `DeletionAlwaysRespected` |

`LeaseIsExclusive` and `HolderCompletes`, about `SingleLeaseHolder` and
`LeaseHolderCompletes`, have no run of their own.

### Validation of responses

`ResponseValidation_proofs` assumes nothing of payload, targets and label set.
`EveryTargetIsSettled` is what `AnalysisStageRunWorker.process` relies on when it commits
`valid_results`, retries `retry_target_ids` and takes `issues[0]`: the two are disjoint and
together all targets, and there is an issue whenever one is retried.
`ResultsAreUnambiguous` says that the result of a batch comes from the only item that names its target.

### Analysis

`AnalysisStages_proofs` assumes `WakeupAssumption`, `AnalysisAssumption` and what
`ResponseValidation` assumes of labels: any number of runs, stages, messages, workers and
attempts, any set of responses, any cache keys, and workers that die anywhere.
None of `RunTellsStages`, `GateStopsRun` and `ResultIsTraceable` is inductive. `IInv` adds

* `StagesAgree`: a stage exists exactly when its run does, its label is stored only once
  it succeeded, and it is skipped only under a block. That a claim reads the status
  of run and message in the same transaction enters here;
* `TasksAgree`: what a worker still knows of rows it read in an earlier transaction. Its
  token is one that the stage has given out, its cache source has succeeded, and what it
  is about to commit is what the recorded response of its own call says;
* `TokensAreUnique`: no two tasks have the same token of a stage, and nobody has the one
  under which a result was committed. Without it a call could be overwritten after the
  commit that points to it.

`OverIsOver` follows per step. `LooseEndsHaveATask` has the two hypotheses that
`LooseEndsAreHeld` needs to be true: no process dies between a stage's last
transaction and the end of its task (`AnalysisGateLost` shows what happens otherwise), and
every run has a stage (a pipeline without nodes is refused,
`domain/analysis/pipeline.py:122`).

| Module | Theorems |
|---|---|
| `AnalysisStages_proofs` | `TypeCorrect`, `RunStatusIsTrue`, `GateStopsTheRun`, `ResultsAreTraceable`, `WhatIsOverStays`, `LooseEndsHaveATask` |

### Ingestion

`TelegramIngestion_proofs` assumes `StoreAssumption`, `RowAssumption` (no row is `None`)
and `IngestionAssumption`: any channel, any grouping of its ids, any contents, any number
of handlers, readers and edits. `ParentMatchesParts` is kept by each of the three
transactions of `MessageStore`, of which the lemmas say what they do to the parts and
that the parent is computed from the result. That is not enough for a batch: a component
may be in it twice, with two states. So `IInv` says of buffer and batches that no two of
their snapshots are one component of one message (`OnePerComponent`), and that all of
them were shown by the channel (`SentWasShown`). `AcknowledgedWindowStored` speaks of the
last step of a reconciliation only; `WindowAccounted` carries it there from the fetch: each
message of the window is stored, gone, or still in the batch. Live updates may store
such a message earlier, and a deletion may take it away, which is why the three stand
side by side.

Two theorems are about properties without a run: `OnlyFailuresForget`, that
a component which was received and is neither stored nor waiting any more was dropped by a
restart or by a job that ended early, and `CursorsOnlyAdvance`. The first says how far the
finding `IngestionBufferLost` reaches.

| Module | Theorems |
|---|---|
| `TelegramIngestion_proofs` | `TypeCorrect`, `ParentsAreRebuilt`, `ReconciliationIsComplete`, `ObservationsAreKept`, `OnlyFailuresForget`, `CursorsOnlyAdvance` |

### Routing and review

`Routing_proofs` assumes the named assumptions of `RoutingRules`,
`ConfigurationVersions`, `Review` and `Routing`: rules, conditions and facts have the shape
that the tables and the parser give them, model labels have values, `None` is no number.
Callers, requests, policies, rules and labels are any.

`IInv` joins `TypeOK`, `EventsChain`, `OneEvaluationPerRequest` and `AnswersAgree` with
`EventsHaveTheirPlace` (no two label events have one place in their order) and
`CallsAreSound`. The last says what a caller has in memory at each step of `evaluate`, up to
the evaluation and the intents it is about to insert: they are of its own request, and each
intent belongs to a matched rule. The insert happens in a later transaction than
the look-up that found nothing, so all that is known then is the draft's own shape and
what the unique index says of the table.

`DecisionFollowsRules` and `UnknownNeverMatches` are about recursive functions. That such a
function exists is proved where it is used, and induction is replaced by the least
counterexample:

* `DecisionFollowsRules`: the rule loop keeps its outcomes so far. `InOrderSorts` says that
  ranks put the rules in a sequence without gaps, and `RulesDecide` that the first position
  at which loop and definition would differ cannot exist.
* `UnknownNeverMatches`: a condition is a tree in a sequence, children after their node.
  `NodeRestsOnChildren` and `NodeFollows` say that three-valued connectives are monotone: what
  is known of a node stays known when facts are added. `ConditionFollows` takes the
  last node for which that fails; `CompletionIsMore` says that completing facts is adding.
* `NewestEventDecides` is about maxima of finite sets of events; `OneMoreEvent` says what
  one commit does to the newest event of a label.

The proof found one place where the model left open what the code does: the cases of
`Compare` overlapped for an absent fact, TLC took the first, and a CASE promises none.

| Module | Theorems |
|---|---|
| `Routing_proofs` | `TypeCorrect`, `HistoryIsAChain`, `RequestsAreEvaluatedOnce`, `FormalAnswersAgree`, `DecisionsFollowRules`, `NewestEventsDecide`, `MatchesRestOnKnownLabels` |

## What is not shown

The liveness properties (`ExecutionEnds`, `WakeupRepaired`, `RangesCatchUp`, `AssetSettles`,
`RunsEnd`, `NegativeLabelBlocks`) are model-checked only, on the instances of their runs:
they rest on fairness, which the prover does not handle. Every other property of a run that
passes is stated by a theorem. The theorems hold of the specifications; that these are true
to the code is what the correspondence above is for. Row locks are assumed to make each transaction atomic,
as PostgreSQL does for the rows these transactions lock. `claim` locks a stage and
then its run, `apply_negative_gate` and `complete_analysis_run` a run and then its
stages; PostgreSQL resolves a crosswise meeting by aborting one of them, which the
model has as a lost delivery or as `WorkerDies`, and does not derive from the
locks. The number of ranges and
their resolved boundaries do not change during a behaviour, and `paused` ranges
and `cancelled` wake-ups, which nothing in `src/` produces, are left out.


Not modelled, and why:

* Media adapters (Pillow, FFmpeg, Telethon download, local files but for the write-once
  `put`) and the inference adapter: conversions and I/O, which enter the models as an
  outcome.
* Prompts, response schemas, manifests, cache keys and other hashes: formatting of one
  input into one output, of which the models need equality only.
* The pipeline order, `run_if` and `facts_from_results`: nothing in `src/` but their tests
  uses them; no code creates the later stages of a run.
* Label sets, prompts, inference profiles, stage templates, pipelines and source profiles
  as configuration: the same triggers as label definitions and policies, without code that
  uses their versions. `configuration/versions.py` is used by its tests only.
* Settings, encryption, logging, administration, the HTTP application and the process
  shells: no state that outlives a call, or single statements.
* The publication service, which does not exist at this commit.

## Plan

Every component with protocol state has its module, its runs and the theorems that state
what its runs check. What is left:

1. An abstract promise for the archive in the manner of `ContinuousProgress`: an asset
   that goes from open to ready or failed once, what `MediaArchive` maps to it, and the
   theorem that each step keeps it.
2. The same for an analysis run and for a request to the router, whose promise is the
   simplest: one answer per request, given once.
3. What the dispatcher guarantees whatever its queue: a theorem on `DurableWakeups` alone,
   for the next component that extends it.
