------------------------ MODULE MediaArchive_proofs ------------------------
(***************************************************************************)
(* Machine-checked proofs about media archiving, for every set of assets,  *)
(* schedulers and workers, every number of attempts, versions and objects. *)
(***************************************************************************)
EXTENDS MediaArchive, TLAPS

-----------------------------------------------------------------------------
(* Type correctness *)

LEMMA TypeInit == Init => TypeOK
<1> SUFFICES ASSUME Init PROVE TypeOK
  OBVIOUS
<1>1. 1 \in Versions
  BY ArchiveAssumption DEF Versions
<1>2. stored \in [Entities -> [1..MaxObjects -> Versions \cup {NoVersion}]]
  BY DEF Init
<1>3. QED
  BY <1>1, <1>2, ArchiveAssumption
     DEF Init, WakeupInit, TypeOK, Wakeup, NoWakeup, WakeupStatus, Timer, Asset, NoAsset,
         Unfinished, Terminal, Task, Idle

\* What the steps write into a row or a task.
LEMMA RowTypes ==
    /\ NewWakeup \in Wakeup /\ RescheduledWakeup \in Wakeup /\ CompletedWakeup \in Wakeup
    /\ \A s \in Schedulers : LeasedWakeup(s) \in Wakeup
    /\ NewAsset \in Asset
    /\ Idle \in Task
    /\ \A e \in Entities : Finishing(e) \in Task
<1>1. /\ NewWakeup \in Wakeup /\ RescheduledWakeup \in Wakeup /\ CompletedWakeup \in Wakeup
      /\ \A s \in Schedulers : LeasedWakeup(s) \in Wakeup
  BY DEF NewWakeup, RescheduledWakeup, CompletedWakeup, LeasedWakeup, Wakeup, WakeupStatus, Timer
<1>2. NoAsset \in Asset
  BY ArchiveAssumption DEF NoAsset, Asset, Timer
<1>3. NewAsset \in Asset
  BY <1>2 DEF NewAsset, Asset, Unfinished
<1>4. Idle \in Task
  BY ArchiveAssumption DEF Idle, Task
<1>5. \A e \in Entities : Finishing(e) \in Task
  BY <1>4 DEF Finishing, Task
<1>6. QED BY <1>1, <1>3, <1>4, <1>5

LEMMA AssetUpdate ==
    ASSUME NEW x \in Asset, NEW st \in Unfinished \cup Terminal, NEW t \in Timer
    PROVE  [x EXCEPT !.state = st, !.timer = t] \in Asset
BY DEF Asset

\* Closing or rescheduling touches the row of e only, and only an open one.
LEMMA WakeupWritten ==
    ASSUME TypeOK, NEW e \in Entities, CloseWakeup(e) \/ RescheduleWakeup(e)
    PROVE  wakeup' \in [Entities -> Wakeup]
BY RowTypes DEF TypeOK, CloseWakeup, RescheduleWakeup

LEMMA TypeEnvironment == TypeOK /\ Environment => TypeOK'
<1> SUFFICES ASSUME TypeOK, NEW e \in Entities,
                    \/ ReplaceMedia(e) \/ Tombstone(e) \/ Ingest(e)
                    \/ WakeupBecomesDue(e) \/ DeliveryFails(e) \/ AssetTimerElapses(e)
             PROVE  TypeOK'
  BY DEF Environment
<1> USE DEF TypeOK
<1>1. CASE ReplaceMedia(e)
  <2>1. source[e] + 1 \in Versions
    BY <1>1, ArchiveAssumption DEF ReplaceMedia, Versions
  <2>2. QED BY <1>1, <2>1 DEF ReplaceMedia, wakeupVars
<1>2. CASE Tombstone(e)
  BY <1>2 DEF Tombstone, wakeupVars
<1>3. CASE Ingest(e)
  BY <1>3, RowTypes DEF Ingest, Upserted, sourceVars
<1>4. CASE WakeupBecomesDue(e)
  <2>1. [wakeup[e] EXCEPT !.timer = "elapsed"] \in Wakeup
    BY DEF Wakeup, Timer
  <2>2. wakeup' \in [Entities -> Wakeup]
    BY <1>4, <2>1 DEF WakeupBecomesDue, WakeupTimerElapses
  <2>3. QED BY <1>4, <2>2 DEF WakeupBecomesDue, WakeupTimerElapses, archiveVars, sourceVars
<1>5. CASE DeliveryFails(e)
  BY <1>5 DEF DeliveryFails, LoseMessage, archiveVars, sourceVars
<1>6. CASE AssetTimerElapses(e)
  <2>1. [asset[e] EXCEPT !.timer = "elapsed"] \in Asset
    BY DEF Asset, Timer
  <2>2. asset' \in [Entities -> Asset]
    BY <1>6, <2>1 DEF AssetTimerElapses
  <2>3. QED BY <1>6, <2>2 DEF AssetTimerElapses, wakeupVars, sourceVars
<1>7. QED BY <1>1, <1>2, <1>3, <1>4, <1>5, <1>6

LEMMA TypeScheduler ==
    ASSUME TypeOK, NEW s \in Schedulers, SchedulerStep(s) PROVE TypeOK'
<1> USE DEF TypeOK, archiveVars, sourceVars
<1>1. CASE BeginDispatch(s)
  <2> PICK S \in SUBSET Entities : ClaimDue(s, S)
    BY <1>1 DEF BeginDispatch
  <2>1. wakeup' \in [Entities -> Wakeup]
    BY RowTypes DEF ClaimDue
  <2>2. QED BY <1>1, <2>1 DEF BeginDispatch, ClaimDue
<1>2. CASE CycleAborts(s)
  BY <1>2 DEF CycleAborts, ForgetClaims
<1>3. CASE \E e \in Entities : DispatchStep(s, e)
  <2> PICK e \in Entities : DispatchStep(s, e)
    BY <1>3
  <2>1. wakeup' \in [Entities -> Wakeup]
    BY RowTypes DEF DispatchStep, Dispatch, DispatchFails, TakeClaim, ReleaseClaim
  <2>2. inFlight' \subseteq Entities /\ claims' \in [Schedulers -> SUBSET Entities]
                                     /\ sending' \in [Schedulers -> SUBSET Entities]
    BY DEF DispatchStep, Dispatch, DispatchFails, TakeClaim, ReleaseClaim
  <2>3. QED BY <2>1, <2>2 DEF DispatchStep
<1>4. QED BY <1>1, <1>2, <1>3 DEF SchedulerStep

LEMMA TypeStart ==
    ASSUME TypeOK, NEW w \in Workers, NEW e \in Entities, StartTask(w, e)
    PROVE  TypeOK'
<1> USE DEF TypeOK, Deliver, TakeMessage, sourceVars
<1>1. CASE ClaimAsset(w, e)
  <2>1. asset[e].attempts + 1 \in 0..MaxAttempts
    BY <1>1, ArchiveAssumption DEF ClaimAsset, Asset
  <2>2. [asset[e] EXCEPT !.state = "processing", !.attempts = asset[e].attempts + 1,
                         !.timer = "set"] \in Asset
    <3>1. asset[e] \in Asset
      OBVIOUS
    <3> HIDE DEF TypeOK
    <3>2. QED BY <2>1, <3>1 DEF Asset, Unfinished, Timer
  <2>3. asset' \in [Entities -> Asset]
    BY <1>1, <2>2 DEF ClaimAsset
  <2>4. PICK d \in BOOLEAN : d = (e \in tombstoned)
    <3>1. ((e \in tombstoned) = TRUE) \/ ((e \in tombstoned) = FALSE)
      OBVIOUS
    <3>2. QED BY <3>1
  <2>5. [Idle EXCEPT !.at = "download", !.asset = e, !.token = asset[e].attempts + 1,
                     !.deleted = d] \in Task
    BY <2>1, RowTypes DEF Task
  <2>6. task' \in [Workers -> Task]
    BY <1>1, <2>4, <2>5 DEF ClaimAsset
  <2>7. QED BY <1>1, <2>3, <2>6 DEF ClaimAsset
<1>2. CASE ExhaustAsset(w, e)
  <2>1. asset' \in [Entities -> Asset]
    BY <1>2, AssetUpdate DEF ExhaustAsset, Terminal, Timer
  <2>2. wakeup' \in [Entities -> Wakeup]
    BY <1>2, WakeupWritten DEF ExhaustAsset
  <2>3. QED BY <1>2, <2>1, <2>2, RowTypes DEF ExhaustAsset
<1>3. CASE NothingToClaim(w, e)
  BY <1>3, RowTypes DEF NothingToClaim
<1>4. QED BY <1>1, <1>2, <1>3 DEF StartTask

LEMMA TypeFail ==
    ASSUME TypeOK, NEW w \in Workers, task[w].asset \in Entities, NEW r \in BOOLEAN, Fail(w, r)
    PROVE  TypeOK'
<1> DEFINE e == task[w].asset
<1> USE DEF TypeOK
<1>1. asset' \in [Entities -> Asset]
  <2>1. \A t \in Timer : \A st \in Unfinished \cup Terminal :
           [asset[e] EXCEPT !.state = st, !.timer = t] \in Asset
    BY AssetUpdate
  <2>2. /\ [asset[e] EXCEPT !.state = "retry_wait", !.timer = "set"] \in Asset
        /\ [asset[e] EXCEPT !.state = "failed", !.timer = "none"] \in Asset
    BY <2>1 DEF Unfinished, Terminal, Timer
  <2>3. QED BY <2>2 DEF Fail
<1>2. wakeup' \in [Entities -> Wakeup]
  BY WakeupWritten DEF Fail
<1>3. task' \in [Workers -> Task]
  BY RowTypes DEF Fail, EndTask
<1>4. QED BY <1>1, <1>2, <1>3 DEF Fail, sourceVars

LEMMA TypeAttempt ==
    ASSUME TypeOK, TasksAgree, NEW w \in Workers, AttemptStep(w) \/ WorkerDies(w)
    PROVE  TypeOK'
<1> USE DEF TypeOK, sourceVars, wakeupVars
<1>1. task[w].at # "idle" /\ task[w].asset \in Entities
  BY DEF AttemptStep, WorkerDies, RefuseDeleted, Download, DownloadRefused, DownloadFails,
         PutObject, PutConflicts, ArchiveFails, MarkReady, ClaimLost, FinishTask, TasksAgree, TaskAgrees
<1>2. CASE \E r \in BOOLEAN : Fail(w, r)
  BY <1>1, <1>2, TypeFail
<1>3. CASE Download(w)
  <2>1. [task[w] EXCEPT !.at = "put", !.content = source[task[w].asset]] \in Task
    BY <1>1 DEF Task
  <2>2. QED BY <1>3, <2>1 DEF Download
<1>4. CASE PutObject(w)
  <2>0. task[w] \in Task /\ ObjectCount[task[w].asset][task[w].content] \in 1..MaxObjects
        /\ task[w].next <= ObjectCount[task[w].asset][task[w].content]
        /\ task[w].content \in Versions
    BY <1>1, <1>4, ArchiveAssumption DEF PutObject, TasksAgree, TaskAgrees, TaskHasStored
  <2>1. stored' \in [Entities -> [1..MaxObjects -> Versions \cup {NoVersion}]]
    BY <1>1, <1>4, <2>0 DEF PutObject, Task
  <2>2. [task[w] EXCEPT !.at = "publish"] \in Task
    BY <2>0 DEF Task
  <2>3. ~LastObject(w) => [task[w] EXCEPT !.next = task[w].next + 1] \in Task
    <3>1. ~LastObject(w) => task[w].next + 1 \in 1..MaxObjects
      BY <2>0, ArchiveAssumption DEF Task, LastObject
    <3>2. QED BY <2>0, <3>1 DEF Task
  <2>4. QED BY <1>4, <2>1, <2>2, <2>3 DEF PutObject
<1>5. CASE MarkReady(w)
  <2>1. [asset[task[w].asset] EXCEPT !.state = "ready", !.timer = "none",
                                     !.archived = task[w].content] \in Asset
    <3>1. task[w].content \in Versions \cup {NoVersion} /\ asset[task[w].asset] \in Asset
      BY <1>1 DEF Task
    <3>2. QED BY <3>1 DEF Asset, Terminal, Timer
  <2>2. asset' \in [Entities -> Asset]
    BY <1>1, <1>5, <2>1 DEF MarkReady
  <2>3. QED BY <1>1, <1>5, <2>2, RowTypes DEF MarkReady
<1>6. CASE FinishTask(w)
  <2>1. wakeup' \in [Entities -> Wakeup]
    BY <1>1, <1>6, WakeupWritten DEF FinishTask
  <2>2. QED BY <1>6, <2>1, RowTypes DEF FinishTask, EndTask
<1>7. CASE WorkerDies(w)
  BY <1>7, RowTypes DEF WorkerDies, EndTask
<1>8. QED
  BY <1>2, <1>3, <1>4, <1>5, <1>6, <1>7
     DEF AttemptStep, RefuseDeleted, DownloadRefused, DownloadFails, PutConflicts,
         ArchiveFails, ClaimLost

LEMMA TypeNext == TypeOK /\ TasksAgree /\ [Next]_vars => TypeOK'
<1> SUFFICES ASSUME TypeOK, TasksAgree, [Next]_vars PROVE TypeOK'
  OBVIOUS
<1>1. CASE Next
  BY <1>1, TypeEnvironment, TypeScheduler, TypeStart, TypeAttempt DEF Next, WorkerStep
<1>2. CASE UNCHANGED vars
  BY <1>2 DEF TypeOK, vars, wakeupVars, sourceVars
<1>3. QED BY <1>1, <1>2

-----------------------------------------------------------------------------
(* Assets and wake-ups *)

\* The invariants about the rows of one asset.
RowAgrees(e) ==
    /\ AssetChecks(e) /\ WakeupChecks(e)
    /\ asset[e].state = "absent" <=> wakeup[e].status = "absent"
    /\ asset[e].state \in Unfinished => Open(e)
    /\ asset[e].state = "failed" => wakeup[e].status = "completed"

\* What no step takes back.
AssetGrows(e) ==
    /\ asset[e].state # "absent" =>
          asset'[e].state # "absent" /\ asset'[e].attempts >= asset[e].attempts
    /\ asset[e].state \in Terminal => asset'[e] = asset[e]
    /\ wakeup[e].status = "completed" => wakeup'[e] = wakeup[e]

RowMoves(e) == RowAgrees(e)' /\ AssetGrows(e)

LEMMA RowsAgree ==
    (\A e \in Entities : AssetChecks(e) /\ WakeupChecks(e)) /\ WakeupAgrees <=> \A e \in Entities : RowAgrees(e)
BY DEF WakeupAgrees, RowAgrees

LEMMA RowKept ==
    ASSUME TypeOK, NEW e \in Entities, RowAgrees(e), asset'[e] = asset[e], wakeup'[e] = wakeup[e]
    PROVE  RowMoves(e)
<1>1. asset[e].attempts \in Nat
  BY DEF TypeOK, Asset
<1>2. QED BY <1>1 DEF RowMoves, AssetGrows, RowAgrees, AssetChecks, WakeupChecks, Open

\* The dispatcher turns pending into leased and back.
LEMMA RowRedispatched ==
    ASSUME TypeOK, NEW e \in Entities, RowAgrees(e), asset'[e] = asset[e],
           Open(e), wakeup'[e].status \in {"pending", "leased"}, wakeup'[e].timer # "none"
    PROVE  RowMoves(e)
<1>1. asset[e].attempts \in Nat
  BY DEF TypeOK, Asset
<1>2. QED BY <1>1 DEF RowMoves, AssetGrows, RowAgrees, AssetChecks, WakeupChecks, Open, Unfinished

\* The ways a step puts the work on an asset off, or ends it without a result.
PutOff(e) ==
    asset' = [asset EXCEPT ![e].state = "retry_wait", ![e].timer = "set"] /\ RescheduleWakeup(e)

GivenUp(e) ==
    asset' = [asset EXCEPT ![e].state = "failed", ![e].timer = "none"] /\ CloseWakeup(e)

LEMMA RowWritten ==
    ASSUME TypeOK, NEW e \in Entities, RowAgrees(e), asset[e].state \in Unfinished,
           PutOff(e) \/ GivenUp(e)
    PROVE  \A f \in Entities : RowAgrees(f) => RowMoves(f)
<1>1. asset[e] \in Asset /\ wakeup \in [Entities -> Wakeup] /\ Open(e)
  BY DEF TypeOK, RowAgrees
<1>2. /\ asset'[e].attempts = asset[e].attempts /\ asset'[e].archived = asset[e].archived
      /\ asset[e].attempts \in Nat
  BY <1>1 DEF TypeOK, Asset, PutOff, GivenUp
<1>3. \A f \in Entities : f # e => asset'[f] = asset[f] /\ wakeup'[f] = wakeup[f]
  BY DEF TypeOK, PutOff, GivenUp, CloseWakeup, RescheduleWakeup
<1>4. CASE PutOff(e)
  <2>1. asset'[e].state = "retry_wait" /\ asset'[e].timer = "set"
    BY <1>1, <1>4 DEF TypeOK, Asset, PutOff
  <2>2. wakeup'[e] = RescheduledWakeup
    BY <1>1, <1>4 DEF RescheduleWakeup, PutOff
  <2>3. RowMoves(e)
    BY <1>1, <1>2, <2>1, <2>2
       DEF RowMoves, AssetGrows, RowAgrees, AssetChecks, WakeupChecks, Open, Unfinished,
           Terminal, RescheduledWakeup
  <2>4. QED BY <1>3, <2>3, RowKept
<1>5. CASE GivenUp(e)
  <2>1. asset'[e].state = "failed" /\ asset'[e].timer = "none"
    BY <1>1, <1>5 DEF TypeOK, Asset, GivenUp
  <2>2. wakeup'[e] = CompletedWakeup
    BY <1>1, <1>5 DEF CloseWakeup, GivenUp
  <2>3. RowMoves(e)
    BY <1>1, <1>2, <2>1, <2>2
       DEF RowMoves, AssetGrows, RowAgrees, AssetChecks, WakeupChecks, Open, Unfinished,
           Terminal, CompletedWakeup
  <2>4. QED BY <1>3, <2>3, RowKept
<1>6. QED BY <1>4, <1>5

LEMMA RowEnvironment ==
    ASSUME TypeOK, \A e \in Entities : RowAgrees(e), Environment
    PROVE  \A f \in Entities : RowMoves(f)
<1> PICK e \in Entities :
       \/ ReplaceMedia(e) \/ Tombstone(e) \/ Ingest(e)
       \/ WakeupBecomesDue(e) \/ DeliveryFails(e) \/ AssetTimerElapses(e)
  BY DEF Environment
<1>1. CASE ReplaceMedia(e) \/ Tombstone(e) \/ DeliveryFails(e)
  BY <1>1, RowKept
     DEF ReplaceMedia, Tombstone, DeliveryFails, LoseMessage, wakeupVars, archiveVars
<1>2. CASE Ingest(e)
  <2>1. asset'[e] = Upserted(e) /\ \A f \in Entities : f # e => asset'[f] = asset[f]
    BY <1>2 DEF Ingest, TypeOK
  <2>2. \A f \in Entities : f # e => wakeup'[f] = wakeup[f]
    BY <1>2 DEF Ingest, TypeOK
  <2>3. CASE asset[e].state # "absent"
    BY <1>2, <2>1, <2>2, <2>3, RowKept DEF Ingest, Upserted, RowAgrees
  <2>4. CASE asset[e].state = "absent"
    <3>1. wakeup'[e] = NewWakeup /\ asset'[e] = NewAsset
      BY <1>2, <2>1, <2>4 DEF Ingest, Upserted, RowAgrees, NewAsset, NoAsset, TypeOK
    <3>2. QED
      BY <2>1, <2>2, <2>4, <3>1, RowKept
         DEF RowMoves, RowAgrees, AssetChecks, WakeupChecks, AssetGrows, Open, NewWakeup, NewAsset, NoAsset,
             Unfinished, Terminal
  <2>5. QED BY <2>3, <2>4
<1>3. CASE WakeupBecomesDue(e)
  <2>1. /\ Open(e) /\ wakeup'[e].status = wakeup[e].status /\ wakeup'[e].timer = "elapsed"
        /\ \A f \in Entities : f # e => wakeup'[f] = wakeup[f]
        /\ UNCHANGED asset
    BY <1>3 DEF WakeupBecomesDue, WakeupTimerElapses, archiveVars, TypeOK, Wakeup, RowAgrees,
                WakeupChecks
  <2>2. QED
    BY <2>1, RowKept, RowRedispatched DEF Open
<1>4. CASE AssetTimerElapses(e)
  <2>1. asset'[e] = [asset[e] EXCEPT !.timer = "elapsed"] /\ UNCHANGED wakeup
        /\ asset[e] \in Asset
    BY <1>4 DEF AssetTimerElapses, TypeOK, wakeupVars
  <2>2. /\ asset'[e].state = asset[e].state /\ asset'[e].attempts = asset[e].attempts
        /\ asset'[e].archived = asset[e].archived /\ asset'[e].timer = "elapsed"
        /\ asset[e].timer # "none" /\ asset[e].attempts \in Nat
    BY <1>4, <2>1 DEF Asset, AssetTimerElapses
  <2>3. RowMoves(e)
    BY <2>1, <2>2 DEF RowMoves, RowAgrees, AssetChecks, WakeupChecks, AssetGrows, Open, Terminal
  <2>4. \A f \in Entities : f # e => asset'[f] = asset[f]
    BY <1>4 DEF AssetTimerElapses, TypeOK
  <2>5. QED BY <2>1, <2>3, <2>4, RowKept
<1>5. QED BY <1>1, <1>2, <1>3, <1>4

LEMMA RowScheduler ==
    ASSUME TypeOK, \A e \in Entities : RowAgrees(e), NEW s \in Schedulers, SchedulerStep(s)
    PROVE  \A f \in Entities : RowMoves(f)
<1>1. UNCHANGED asset
  BY DEF SchedulerStep, BeginDispatch, CycleAborts, DispatchStep, archiveVars
<1>2. CASE BeginDispatch(s)
  <2> PICK S \in SUBSET Entities : ClaimDue(s, S)
    BY <1>2 DEF BeginDispatch
  <2>1. \A f \in Entities : IF f \in S THEN wakeup'[f] = LeasedWakeup(s) /\ Open(f)
                                       ELSE wakeup'[f] = wakeup[f]
    BY DEF ClaimDue, Due, Open
  <2>2. QED BY <1>1, <2>1, RowKept, RowRedispatched DEF LeasedWakeup
<1>3. CASE CycleAborts(s)
  BY <1>1, <1>3, RowKept DEF CycleAborts, ForgetClaims
<1>4. CASE \E e \in Entities : DispatchStep(s, e)
  <2> PICK e \in Entities : DispatchStep(s, e)
    BY <1>4
  <2>1. \A f \in Entities : \/ wakeup'[f] = wakeup[f]
                            \/ wakeup'[f] = RescheduledWakeup /\ wakeup[f].status = "leased"
    BY DEF DispatchStep, Dispatch, DispatchFails, TakeClaim, ReleaseClaim, TypeOK
  <2>2. QED BY <1>1, <2>1, RowKept, RowRedispatched DEF RescheduledWakeup, Open
<1>5. QED BY <1>2, <1>3, <1>4 DEF SchedulerStep

LEMMA RowStart ==
    ASSUME TypeOK, \A f \in Entities : RowAgrees(f), NEW w \in Workers, NEW e \in Entities,
           StartTask(w, e)
    PROVE  \A f \in Entities : RowMoves(f)
<1>1. CASE ClaimAsset(w, e)
  <2>1. asset[e] \in Asset /\ asset[e].state \in Unfinished
    BY <1>1 DEF ClaimAsset, Claimable, Unfinished, TypeOK
  <2>2. /\ asset'[e].state = "processing" /\ asset'[e].timer = "set"
        /\ asset'[e].attempts = asset[e].attempts + 1
        /\ asset'[e].archived = asset[e].archived
    BY <1>1, <2>1 DEF ClaimAsset, TypeOK, Asset
  <2>3. \A f \in Entities : f # e => asset'[f] = asset[f]
    BY <1>1 DEF ClaimAsset, TypeOK
  <2>4. asset[e].attempts \in Nat /\ UNCHANGED wakeup
    BY <1>1, <2>1 DEF ClaimAsset, Asset
  <2>5. RowMoves(e)
    BY <2>1, <2>2, <2>4
       DEF RowMoves, RowAgrees, AssetChecks, WakeupChecks, AssetGrows, Open, Unfinished, Terminal
  <2>6. QED BY <2>3, <2>4, <2>5, RowKept
<1>2. CASE ExhaustAsset(w, e)
  <2>1. GivenUp(e) /\ asset[e].state \in Unfinished
    BY <1>2 DEF ExhaustAsset, GivenUp, Claimable, Unfinished
  <2>2. QED BY <2>1, RowWritten
<1>3. CASE NothingToClaim(w, e)
  BY <1>3, RowKept DEF NothingToClaim
<1>4. QED BY <1>1, <1>2, <1>3 DEF StartTask

LEMMA RowFail ==
    ASSUME TypeOK, \A f \in Entities : RowAgrees(f), NEW w \in Workers,
           task[w].asset \in Entities, NEW r \in BOOLEAN, Fail(w, r)
    PROVE  \A f \in Entities : RowMoves(f)
<1> PICK e \in Entities : e = task[w].asset
  OBVIOUS
<1>1. CASE HoldsClaim(w)
  <2>1. PutOff(e) \/ GivenUp(e)
    BY <1>1 DEF Fail, PutOff, GivenUp
  <2>2. asset[e].state \in Unfinished
    BY <1>1 DEF HoldsClaim, Unfinished
  <2>3. QED BY <2>1, <2>2, RowWritten
<1>2. CASE ~HoldsClaim(w)
  BY <1>2, RowKept DEF Fail
<1>3. QED BY <1>1, <1>2

LEMMA RowAttempt ==
    ASSUME TypeOK, \A f \in Entities : RowAgrees(f), TasksAgree, NEW w \in Workers,
           AttemptStep(w) \/ WorkerDies(w)
    PROVE  \A f \in Entities : RowMoves(f)
<1>0. task[w].at # "idle" /\ task[w].asset \in Entities
  BY DEF AttemptStep, WorkerDies, RefuseDeleted, Download, DownloadRefused, DownloadFails,
         PutObject, PutConflicts, ArchiveFails, MarkReady, ClaimLost, FinishTask, TasksAgree,
         TaskAgrees
<1> PICK e \in Entities : e = task[w].asset
  BY <1>0
<1>1. task[w].at # "idle" /\ asset[e] \in Asset
  BY <1>0 DEF TypeOK
<1>2. CASE \E r \in BOOLEAN : Fail(w, r)
  BY <1>1, <1>2, RowFail
<1>3. CASE Download(w) \/ PutObject(w) \/ WorkerDies(w)
  BY <1>3, RowKept DEF Download, PutObject, WorkerDies, wakeupVars
<1>4. CASE MarkReady(w)
  <2>1. task[w].content \in Versions /\ task[w].content # NoVersion
    <3>1. task[w].content \in Versions
      BY <1>1, <1>4 DEF MarkReady, TasksAgree, TaskAgrees, TaskHasStored
    <3>2. QED BY <3>1, ArchiveAssumption DEF Versions, NoVersion
  <2>2. asset[e].state = "processing"
    BY <1>4 DEF MarkReady, HoldsClaim
  <2>3. /\ asset'[e].state = "ready" /\ asset'[e].timer = "none"
        /\ asset'[e].attempts = asset[e].attempts /\ asset'[e].archived = task[w].content
    BY <1>1, <1>4 DEF MarkReady, TypeOK, Asset
  <2>4. asset[e].attempts \in Nat /\ UNCHANGED wakeup /\ wakeup'[e] = wakeup[e]
    BY <1>1, <1>4 DEF MarkReady, Asset, wakeupVars
  <2>5. RowMoves(e)
    BY <1>1, <2>1, <2>2, <2>3, <2>4
       DEF RowMoves, RowAgrees, AssetChecks, WakeupChecks, AssetGrows, Open, Unfinished, Terminal
  <2>6. \A f \in Entities : f # e => asset'[f] = asset[f]
    BY <1>4 DEF MarkReady, TypeOK
  <2>7. QED BY <2>4, <2>5, <2>6, RowKept
<1>5. CASE FinishTask(w)
  <2>1. UNCHANGED asset /\ asset[e].attempts \in Nat
    BY <1>1, <1>5 DEF FinishTask, Asset
  <2>2. CASE UNCHANGED wakeup
    BY <2>1, <2>2, RowKept
  <2>3. CASE ~UNCHANGED wakeup
    <3>1. asset[e].state \in Terminal /\ Open(e)
          /\ wakeup' = [wakeup EXCEPT ![e] = CompletedWakeup]
      <4>1. asset[e].state \in Terminal /\ CloseWakeup(e)
        BY <1>5, <2>3 DEF FinishTask
      <4>2. QED BY <2>3, <4>1 DEF CloseWakeup
    <3>2. wakeup'[e] = CompletedWakeup /\ \A f \in Entities : f # e => wakeup'[f] = wakeup[f]
      BY <1>1, <3>1 DEF TypeOK
    <3>3. asset'[e] = asset[e] /\ wakeup'[e].status = "completed"
          /\ wakeup'[e].timer = "none" /\ wakeup[e].status # "completed"
      BY <2>1, <3>1, <3>2 DEF CompletedWakeup, Open
    <3>4. RowMoves(e)
      BY <1>1, <2>1, <3>1, <3>3
         DEF RowMoves, RowAgrees, AssetChecks, WakeupChecks, AssetGrows, Open, Unfinished,
             Terminal
    <3>5. QED BY <2>1, <3>2, <3>4, RowKept
  <2>4. QED BY <2>2, <2>3
<1>6. QED
  BY <1>2, <1>3, <1>4, <1>5
     DEF AttemptStep, RefuseDeleted, DownloadRefused, DownloadFails, PutConflicts,
         ArchiveFails, ClaimLost

LEMMA RowNext ==
    ASSUME TypeOK, \A f \in Entities : RowAgrees(f), TasksAgree, [Next]_vars
    PROVE  \A f \in Entities : RowMoves(f)
<1>1. CASE Next
  BY <1>1, RowEnvironment, RowScheduler, RowStart, RowAttempt DEF Next, WorkerStep
<1>2. CASE UNCHANGED vars
  BY <1>2, RowKept DEF vars, wakeupVars
<1>3. QED BY <1>1, <1>2

-----------------------------------------------------------------------------
(* Storage and tasks *)

StoredGrows ==
    \A e \in Entities : \A i \in 1..MaxObjects :
        stored[e][i] # NoVersion => stored'[e][i] = stored[e][i]

\* Who writes what, by the actions that are not spelled out in a proof.
LEMMA EnvironmentWrites == Environment => UNCHANGED <<stored, task>>
BY DEF Environment, ReplaceMedia, Tombstone, Ingest, WakeupBecomesDue, WakeupTimerElapses,
       DeliveryFails, LoseMessage, AssetTimerElapses, archiveVars

LEMMA SchedulerWrites ==
    ASSUME NEW s \in Schedulers, SchedulerStep(s)
    PROVE  UNCHANGED <<stored, task, asset, source, tombstoned>>
BY DEF SchedulerStep, BeginDispatch, CycleAborts, DispatchStep, archiveVars, sourceVars

LEMMA StartWrites ==
    ASSUME NEW w \in Workers, NEW e \in Entities, StartTask(w, e)
    PROVE  UNCHANGED stored
BY DEF StartTask, ClaimAsset, ExhaustAsset, NothingToClaim, Deliver

LEMMA AttemptWrites ==
    ASSUME NEW w \in Workers, AttemptStep(w) \/ WorkerDies(w), ~PutObject(w)
    PROVE  UNCHANGED stored
BY DEF AttemptStep, WorkerDies, RefuseDeleted, Download, DownloadRefused, DownloadFails,
       PutConflicts, ArchiveFails, MarkReady, ClaimLost, FinishTask, Fail

\* What put finds and leaves.
LEMMA PutFacts ==
    ASSUME TypeOK, TasksAgree, NEW w \in Workers, PutObject(w),
           NEW e \in Entities, e = task[w].asset
    PROVE  /\ task[w].content \in Versions /\ task[w].next \in 1..MaxObjects
           /\ stored[e][task[w].next] \in {NoVersion, task[w].content}
           /\ \A f \in Entities : \A i \in 1..MaxObjects :
                 stored'[f][i] = IF f = e /\ i = task[w].next THEN task[w].content
                                                              ELSE stored[f][i]
<1>1. TaskAgrees(w) /\ task[w] \in Task /\ task[w].at = "put"
  BY DEF PutObject, TasksAgree, TypeOK
<1>2. task[w].content \in Versions /\ task[w].next \in 1..MaxObjects
  BY <1>1 DEF TaskAgrees, TaskHasStored, Task
<1>3. stored[e][task[w].next] \in {NoVersion, task[w].content}
  BY DEF PutObject, Writable, Target
<1>4. stored' = [stored EXCEPT ![e][task[w].next] = task[w].content]
  BY DEF PutObject
<1>5. stored \in [Entities -> [1..MaxObjects -> Versions \cup {NoVersion}]]
  BY DEF TypeOK
<1>6. QED BY <1>2, <1>3, <1>4, <1>5

LEMMA StoredNext ==
    ASSUME TypeOK, TasksAgree, [Next]_vars PROVE StoredGrows
<1>1. CASE UNCHANGED stored
  BY <1>1 DEF StoredGrows
<1>2. CASE \E w \in Workers : PutObject(w)
  <2> PICK w \in Workers : PutObject(w)
    BY <1>2
  <2> PICK e \in Entities : e = task[w].asset
    BY DEF PutObject, TasksAgree, TaskAgrees
  <2>1. QED BY PutFacts DEF StoredGrows
<1>3. QED
  BY <1>1, <1>2, EnvironmentWrites, SchedulerWrites, StartWrites, AttemptWrites
     DEF Next, WorkerStep, vars

LEMMA TaskKept ==
    ASSUME TypeOK, TypeOK', \A f \in Entities : AssetGrows(f), StoredGrows,
           NEW v \in Workers, TaskAgrees(v), task'[v] = task[v]
    PROVE  TaskAgrees(v)'
<1> PICK e \in Entities : e = task[v].asset
  BY DEF TaskAgrees
<1>1. task[v] \in Task /\ asset[e] \in Asset
  BY DEF TypeOK
<1>2. TaskHasStored(v)'
  <2>1. ASSUME task[v].at \in {"put", "publish"}
        PROVE  task[v].content \in Versions /\ task[v].content # NoVersion
               /\ ObjectCount[e][task[v].content] \in 1..MaxObjects
    BY <2>1, ArchiveAssumption DEF TaskAgrees, TaskHasStored, Versions, NoVersion
  <2>2. ASSUME NEW i \in 1..MaxObjects, task[v].at \in {"put", "publish"},
               stored[e][i] = task[v].content
        PROVE  stored'[e][i] = task[v].content
    BY <2>1, <2>2 DEF StoredGrows
  <2>3. CASE task[v].at = "put"
    BY <2>1, <2>2, <2>3 DEF TaskAgrees, TaskHasStored
  <2>4. CASE task[v].at = "publish"
    <3>1. 1..ObjectCount[e][task[v].content] \subseteq 1..MaxObjects
      BY <2>1, <2>4, ArchiveAssumption
    <3>2. QED BY <2>1, <2>2, <2>4, <3>1 DEF TaskAgrees, TaskHasStored
  <2>5. CASE task[v].at \notin {"put", "publish"}
    BY <2>5 DEF TaskAgrees, TaskHasStored
  <2>6. QED BY <2>3, <2>4, <2>5
<1>3. ASSUME task[v].at # "finish"
      PROVE  asset'[e].state # "absent" /\ task[v].token <= asset'[e].attempts
  <2>1. /\ asset[e].state # "absent" /\ task[v].token <= asset[e].attempts
        /\ asset'[e].state # "absent" /\ asset'[e].attempts >= asset[e].attempts
    BY <1>3 DEF TaskAgrees, AssetGrows
  <2>2. asset[e].attempts \in Nat /\ task[v].token \in Nat
    BY <1>1 DEF Asset, Task
  <2>3. asset'[e].attempts \in Nat
    BY DEF TypeOK, Asset
  <2>4. QED BY <2>1, <2>2, <2>3
<1>4. QED BY <1>2, <1>3 DEF TaskAgrees

LEMMA TaskStart ==
    ASSUME TypeOK, NEW w \in Workers, NEW e \in Entities, StartTask(w, e)
    PROVE  TaskAgrees(w)' /\ \A v \in Workers : v # w => task'[v] = task[v]
<1>1. \A v \in Workers : v # w => task'[v] = task[v]
  BY DEF StartTask, ClaimAsset, ExhaustAsset, NothingToClaim, TypeOK
<1>2. CASE ClaimAsset(w, e)
  <2>1. /\ task'[w].at = "download" /\ task'[w].asset = e /\ task'[w].next = 1
        /\ task'[w].token = asset[e].attempts + 1
    BY <1>2 DEF ClaimAsset, TypeOK, Idle
  <2>2. asset[e] \in Asset /\ asset'[e].state = "processing"
        /\ asset'[e].attempts = asset[e].attempts + 1
    BY <1>2 DEF ClaimAsset, TypeOK, Asset
  <2>3. asset[e].attempts + 1 \in Nat
    BY <2>2 DEF Asset
  <2>4. QED BY <1>1, <2>1, <2>2, <2>3 DEF TaskAgrees, TaskHasStored
<1>3. CASE ExhaustAsset(w, e) \/ NothingToClaim(w, e)
  <2>1. task'[w].at = "finish" /\ task'[w].asset = e
    BY <1>3 DEF ExhaustAsset, NothingToClaim, Finishing, Idle, TypeOK
  <2>2. QED BY <1>1, <2>1 DEF TaskAgrees, TaskHasStored
<1>4. QED BY <1>2, <1>3 DEF StartTask

LEMMA TaskAttempt ==
    ASSUME TypeOK, TasksAgree, NEW w \in Workers, AttemptStep(w) \/ WorkerDies(w)
    PROVE  /\ task'[w].at # "idle" => TaskAgrees(w)'
           /\ \A v \in Workers : v # w => task'[v] = task[v]
<1>0. task[w].at # "idle"
  BY DEF AttemptStep, WorkerDies, RefuseDeleted, Download, DownloadRefused, DownloadFails,
         PutObject, PutConflicts, ArchiveFails, MarkReady, ClaimLost, FinishTask
<1>1. TaskAgrees(w) /\ task[w] \in Task
  BY <1>0 DEF TasksAgree, TypeOK
<1> PICK e \in Entities : e = task[w].asset
  BY <1>1 DEF TaskAgrees
<1>2. CASE EndTask(w)
  BY <1>2 DEF EndTask, Idle, TypeOK
<1>3. CASE Download(w)
  <2>1. /\ task'[w].at = "put" /\ task'[w].asset = e /\ task'[w].next = task[w].next
        /\ task'[w].content = source[e] /\ task'[w].token = task[w].token
        /\ task'[w].deleted = task[w].deleted
        /\ \A v \in Workers : v # w => task'[v] = task[v]
    BY <1>1, <1>3 DEF Download, TypeOK, Task
  <2>2. UNCHANGED <<asset, stored>> /\ ~task[w].deleted /\ source[e] \in Versions
    BY <1>3 DEF Download, TypeOK
  <2>3. task[w].next = 1
    BY <1>1, <1>3 DEF Download, TaskAgrees, TaskHasStored
  <2>4. ObjectCount[e][source[e]] \in 1..MaxObjects
    BY <2>2, ArchiveAssumption
  <2>5. TaskHasStored(w)'
    BY <2>1, <2>2, <2>3, <2>4, ArchiveAssumption DEF TaskHasStored
  <2>6. QED BY <1>1, <1>3, <2>1, <2>2, <2>5 DEF TaskAgrees, Download
<1>4. CASE PutObject(w)
  <2> DEFINE c == task[w].content
             n == task[w].next
  <2>1. /\ c \in Versions /\ n \in 1..MaxObjects
        /\ \A i \in 1..MaxObjects : stored'[e][i] = IF i = n THEN c ELSE stored[e][i]
    BY <1>4, PutFacts
  <2>2. /\ n <= ObjectCount[e][c] /\ ObjectCount[e][c] \in 1..MaxObjects
        /\ \A i \in 1..MaxObjects : i < n => stored[e][i] = c
    BY <1>1, <1>4, <2>1, ArchiveAssumption DEF PutObject, TaskAgrees, TaskHasStored
  <2>3. /\ task'[w].asset = e /\ task'[w].content = c /\ task'[w].token = task[w].token
        /\ task'[w].deleted = task[w].deleted
        /\ \/ LastObject(w) /\ task'[w].at = "publish"
           \/ ~LastObject(w) /\ task'[w].at = "put" /\ task'[w].next = n + 1
        /\ \A v \in Workers : v # w => task'[v] = task[v]
    BY <1>1, <1>4 DEF PutObject, TypeOK, Task
  <2> HIDE DEF c, n
  <2>4. LastObject(w) <=> n = ObjectCount[e][c]
    BY DEF LastObject, c, n
  <2>5. \A i \in 1..MaxObjects : i <= n => stored'[e][i] = c
    BY <2>1, <2>2
  <2>6. CASE LastObject(w)
    <3>1. \A i \in 1..ObjectCount[e][c] : stored'[e][i] = c
      BY <2>2, <2>4, <2>5, <2>6, ArchiveAssumption
    <3>2. TaskHasStored(w)'
      BY <2>1, <2>3, <2>6, <3>1 DEF TaskHasStored
    <3>3. QED BY <1>1, <1>4, <2>3, <3>2 DEF TaskAgrees, PutObject
  <2>7. CASE ~LastObject(w)
    <3>1. n + 1 <= ObjectCount[e][c] /\ \A i \in 1..MaxObjects : i < n + 1 => stored'[e][i] = c
      BY <2>1, <2>2, <2>4, <2>5, <2>7, ArchiveAssumption
    <3>2. TaskHasStored(w)'
      BY <2>1, <2>3, <2>7, <3>1 DEF TaskHasStored
    <3>3. QED BY <1>1, <1>4, <2>3, <3>2 DEF TaskAgrees, PutObject
  <2>8. QED BY <2>6, <2>7
<1>5. CASE MarkReady(w)
  <2>1. /\ task'[w].at = "finish" /\ task'[w].asset = e
        /\ \A v \in Workers : v # w => task'[v] = task[v]
    BY <1>5 DEF MarkReady, Finishing, Idle, TypeOK
  <2>2. QED BY <2>1 DEF TaskAgrees, TaskHasStored
<1>6. QED
  BY <1>2, <1>3, <1>4, <1>5
     DEF AttemptStep, WorkerDies, RefuseDeleted, DownloadRefused, DownloadFails, PutConflicts,
         ArchiveFails, ClaimLost, FinishTask, Fail

LEMMA TasksNext ==
    ASSUME TypeOK, TypeOK', TasksAgree, \A f \in Entities : AssetGrows(f), StoredGrows,
           [Next]_vars
    PROVE  TasksAgree'
<1>1. ASSUME NEW v \in Workers, task'[v].at # "idle", task'[v] = task[v] PROVE TaskAgrees(v)'
  BY <1>1, TaskKept DEF TasksAgree
<1>2. CASE UNCHANGED task
  BY <1>1, <1>2 DEF TasksAgree
<1>3. CASE \E w \in Workers : WorkerStep(w)
  <2> PICK w \in Workers : WorkerStep(w)
    BY <1>3
  <2>1. /\ task'[w].at # "idle" => TaskAgrees(w)'
        /\ \A v \in Workers : v # w => task'[v] = task[v]
    BY TaskStart, TaskAttempt DEF WorkerStep
  <2>2. QED BY <1>1, <2>1 DEF TasksAgree
<1>4. QED
  BY <1>2, <1>3, EnvironmentWrites, SchedulerWrites DEF Next, vars

-----------------------------------------------------------------------------
(* READY and the steps that lead there *)

\* An asset becomes READY by mark_ready of the attempt it is leased for.
LEMMA BecomesReady ==
    ASSUME TypeOK, TasksAgree, [Next]_vars,
           NEW e \in Entities, asset[e].state # "ready", asset'[e].state = "ready"
    PROVE  \E w \in Workers : MarkReady(w) /\ task[w].asset = e
<1>0. asset[e] \in Asset
  BY DEF TypeOK
<1>1. ~Environment
  <2> SUFFICES ASSUME NEW f \in Entities,
                      \/ ReplaceMedia(f) \/ Tombstone(f) \/ Ingest(f)
                      \/ WakeupBecomesDue(f) \/ DeliveryFails(f) \/ AssetTimerElapses(f)
               PROVE  asset'[e].state = asset[e].state \/ asset'[e].state = "pending"
    BY DEF Environment
  <2>1. CASE Ingest(f)
    <3>1. asset'[e] = asset[e] \/ asset'[e] = Upserted(e)
      BY <2>1 DEF Ingest, TypeOK
    <3>2. QED BY <3>1 DEF Upserted, NewAsset, NoAsset
  <2>2. CASE AssetTimerElapses(f)
    <3>1. asset'[e] = asset[e] \/ asset'[e] = [asset[e] EXCEPT !.timer = "elapsed"]
      BY <2>2 DEF AssetTimerElapses, TypeOK
    <3>2. QED BY <1>0, <3>1 DEF Asset
  <2>3. CASE ReplaceMedia(f) \/ Tombstone(f) \/ WakeupBecomesDue(f) \/ DeliveryFails(f)
    BY <2>3 DEF ReplaceMedia, Tombstone, WakeupBecomesDue, DeliveryFails, archiveVars
  <2>4. QED BY <2>1, <2>2, <2>3
<1>2. ASSUME NEW s \in Schedulers PROVE ~SchedulerStep(s)
  BY <1>2, SchedulerWrites
<1>3. ASSUME NEW w \in Workers, NEW f \in Entities PROVE ~StartTask(w, f)
  <2> SUFFICES ASSUME StartTask(w, f) PROVE asset'[e].state # "ready"
    OBVIOUS
  <2>1. CASE ClaimAsset(w, f)
    <3>1. \/ asset'[e] = asset[e]
          \/ asset'[e] = [asset[e] EXCEPT !.state = "processing",
                                         !.attempts = asset[e].attempts + 1, !.timer = "set"]
      BY <2>1 DEF ClaimAsset, TypeOK
    <3>2. QED BY <1>0, <3>1 DEF Asset
  <2>2. CASE ExhaustAsset(w, f)
    <3>1. \/ asset'[e] = asset[e]
          \/ asset'[e] = [asset[e] EXCEPT !.state = "failed", !.timer = "none"]
      BY <2>2 DEF ExhaustAsset, TypeOK
    <3>2. QED BY <1>0, <3>1 DEF Asset
  <2>3. CASE NothingToClaim(w, f)
    BY <2>3 DEF NothingToClaim
  <2>4. QED BY <2>1, <2>2, <2>3 DEF StartTask
<1>4. ASSUME NEW w \in Workers, NEW r \in BOOLEAN, task[w].at # "idle" PROVE ~Fail(w, r)
  <2> SUFFICES ASSUME Fail(w, r) PROVE FALSE
    OBVIOUS
  <2>1. \/ asset'[e] = asset[e]
        \/ asset'[e] = [asset[e] EXCEPT !.state = "retry_wait", !.timer = "set"]
        \/ asset'[e] = [asset[e] EXCEPT !.state = "failed", !.timer = "none"]
    <3> PICK f \in Entities : f = task[w].asset
      BY <1>4 DEF TasksAgree, TaskAgrees
    <3>1. \/ PutOff(f) \/ GivenUp(f) \/ UNCHANGED asset
      BY DEF Fail, PutOff, GivenUp
    <3>2. QED BY <3>1 DEF PutOff, GivenUp, TypeOK
  <2>2. QED BY <1>0, <2>1 DEF Asset
<1>5. ASSUME NEW w \in Workers, AttemptStep(w) \/ WorkerDies(w)
      PROVE  MarkReady(w) /\ task[w].asset = e
  <2>1. MarkReady(w)
    BY <1>4, <1>5
       DEF AttemptStep, WorkerDies, RefuseDeleted, Download, DownloadRefused, DownloadFails,
           PutObject, PutConflicts, ArchiveFails, ClaimLost, FinishTask
  <2>2. QED BY <2>1 DEF MarkReady, TypeOK
<1>6. QED BY <1>1, <1>2, <1>3, <1>5 DEF Next, WorkerStep, vars

LEMMA ReadyNext ==
    ASSUME TypeOK, TasksAgree, ReadyIsStored, \A f \in Entities : AssetGrows(f), StoredGrows,
           [Next]_vars
    PROVE  ReadyIsStored'
<1> SUFFICES ASSUME NEW e \in Entities, asset'[e].state = "ready"
             PROVE  /\ asset'[e].archived \in Versions
                    /\ \A i \in 1..ObjectCount[e][asset'[e].archived] :
                          stored'[e][i] = asset'[e].archived
  BY DEF ReadyIsStored
<1>1. ASSUME NEW c \in Versions PROVE 1..ObjectCount[e][c] \subseteq 1..MaxObjects /\ c # NoVersion
  BY <1>1, ArchiveAssumption DEF Versions, NoVersion
<1>2. CASE asset[e].state = "ready"
  <2>1. asset'[e] = asset[e]
    BY <1>2 DEF AssetGrows, Terminal
  <2>2. QED BY <1>1, <1>2, <2>1 DEF ReadyIsStored, StoredGrows
<1>3. CASE asset[e].state # "ready"
  <2> PICK w \in Workers : MarkReady(w) /\ task[w].asset = e
    BY <1>3, BecomesReady
  <2>1. /\ task[w].content \in Versions
        /\ \A i \in 1..ObjectCount[e][task[w].content] : stored[e][i] = task[w].content
    BY DEF MarkReady, TasksAgree, TaskAgrees, TaskHasStored
  <2>2. asset'[e].archived = task[w].content /\ UNCHANGED stored
    BY DEF MarkReady, TypeOK, Asset
  <2>3. QED BY <2>1, <2>2
<1>4. QED BY <1>2, <1>3

\* The claim of an asset whose lease runs ends by a step of the attempt it is for.
LEMMA ClaimEnds ==
    ASSUME TypeOK, TasksAgree, [Next]_vars, NEW e \in Entities,
           asset[e].state = "processing", asset[e].timer = "set",
           asset'[e].state # "processing" \/ asset'[e].attempts # asset[e].attempts
    PROVE  \E w \in Workers : Attempting(w, e) /\ task'[w] # task[w]
<1>0. asset[e] \in Asset /\ asset' # asset
  BY DEF TypeOK
<1>1. ~Environment
  <2> SUFFICES ASSUME NEW f \in Entities,
                      \/ ReplaceMedia(f) \/ Tombstone(f) \/ Ingest(f)
                      \/ WakeupBecomesDue(f) \/ DeliveryFails(f) \/ AssetTimerElapses(f)
               PROVE  /\ asset'[e].state = asset[e].state
                      /\ asset'[e].attempts = asset[e].attempts
    BY DEF Environment
  <2>1. CASE Ingest(f)
    BY <2>1 DEF Ingest, Upserted, TypeOK
  <2>2. CASE AssetTimerElapses(f)
    <3>1. asset'[e] = asset[e] \/ asset'[e] = [asset[e] EXCEPT !.timer = "elapsed"]
      BY <2>2 DEF AssetTimerElapses, TypeOK
    <3>2. QED BY <1>0, <3>1 DEF Asset
  <2>3. CASE ReplaceMedia(f) \/ Tombstone(f) \/ WakeupBecomesDue(f) \/ DeliveryFails(f)
    BY <2>3 DEF ReplaceMedia, Tombstone, WakeupBecomesDue, DeliveryFails, archiveVars
  <2>4. QED BY <2>1, <2>2, <2>3
<1>2. ASSUME NEW s \in Schedulers PROVE ~SchedulerStep(s)
  BY <1>0, <1>2, SchedulerWrites
<1>3. ASSUME NEW w \in Workers, NEW f \in Entities PROVE ~StartTask(w, f)
  <2>1. ~Claimable(e)
    BY DEF Claimable
  <2>2. ASSUME StartTask(w, f) PROVE asset'[e] = asset[e]
    BY <2>1, <2>2 DEF StartTask, ClaimAsset, ExhaustAsset, NothingToClaim, TypeOK
  <2>3. QED BY <2>2
<1>4. ASSUME NEW w \in Workers, NEW r \in BOOLEAN,
             task[w].at \in {"download", "put", "publish"}, Fail(w, r)
      PROVE  Attempting(w, e) /\ task'[w] # task[w]
  <2> PICK f \in Entities : f = task[w].asset
    BY <1>4 DEF TasksAgree, TaskAgrees
  <2>1. HoldsClaim(w) /\ asset' = [asset EXCEPT ![f] = asset'[f]]
    BY <1>0, <1>4 DEF Fail, TypeOK
  <2>2. f = e
    BY <2>1 DEF TypeOK
  <2>3. task'[w].at = "idle"
    BY <1>4 DEF Fail, EndTask, Idle, TypeOK
  <2>4. QED BY <1>4, <2>1, <2>2, <2>3 DEF Attempting, HoldsClaim
<1>5. ASSUME NEW w \in Workers, MarkReady(w)
      PROVE  Attempting(w, e) /\ task'[w] # task[w]
  <2>1. task[w].asset = e /\ task'[w].at = "finish"
    BY <1>5 DEF MarkReady, Finishing, Idle, TypeOK
  <2>2. QED BY <1>5, <2>1 DEF MarkReady, Attempting, HoldsClaim
<1>6. ASSUME NEW w \in Workers, AttemptStep(w) \/ WorkerDies(w)
      PROVE  Attempting(w, e) /\ task'[w] # task[w]
  BY <1>0, <1>4, <1>5, <1>6
     DEF AttemptStep, WorkerDies, RefuseDeleted, Download, DownloadRefused, DownloadFails,
         PutObject, PutConflicts, ArchiveFails, ClaimLost, FinishTask
<1>7. QED BY <1>0, <1>1, <1>2, <1>3, <1>6 DEF Next, WorkerStep, vars

-----------------------------------------------------------------------------
(* The theorems *)

LEMMA InvariantInit == Init => InductiveInvariant
<1> SUFFICES ASSUME Init PROVE InductiveInvariant
  OBVIOUS
<1>1. TypeOK
  BY TypeInit
<1>2. QED
  BY <1>1
     DEF InductiveInvariant, Init, WakeupInit, AssetChecks, WakeupChecks, WakeupAgrees, Open,
         NoWakeup, NoAsset, NoVersion, Unfinished, TasksAgree, Idle, ReadyIsStored

LEMMA StepFacts ==
    InductiveInvariant /\ [Next]_vars =>
        InductiveInvariant' /\ \A f \in Entities : AssetGrows(f)
<1> SUFFICES ASSUME InductiveInvariant, [Next]_vars
             PROVE  InductiveInvariant' /\ \A f \in Entities : AssetGrows(f)
  OBVIOUS
<1>1. TypeOK /\ TasksAgree /\ ReadyIsStored /\ \A f \in Entities : RowAgrees(f)
  BY RowsAgree DEF InductiveInvariant
<1>2. TypeOK'
  BY <1>1, TypeNext
<1>3. \A f \in Entities : RowMoves(f)
  BY <1>1, RowNext
<1>4. (\A f \in Entities : RowAgrees(f))' /\ \A f \in Entities : AssetGrows(f)
  BY <1>3 DEF RowMoves
<1>5. StoredGrows
  BY <1>1, StoredNext
<1>6. TasksAgree' /\ ReadyIsStored'
  BY <1>1, <1>2, <1>4, <1>5, TasksNext, ReadyNext
<1>7. ((\A e \in Entities : AssetChecks(e) /\ WakeupChecks(e)) /\ WakeupAgrees)'
  BY <1>4 DEF WakeupAgrees, RowAgrees
<1>8. QED BY <1>2, <1>4, <1>6, <1>7 DEF InductiveInvariant

\* The strengthened invariant holds in every reachable state.
THEOREM ArchiveInvariant == Spec => []InductiveInvariant
<1>1. InductiveInvariant /\ [Next]_vars => InductiveInvariant'
  BY StepFacts
<1>2. QED BY InvariantInit, <1>1, PTL DEF Spec

\* Assets, wake-ups and tasks are well typed in every reachable state.
THEOREM ArchiveTypeCorrect == Spec => []TypeOK
<1>1. InductiveInvariant => TypeOK
  BY DEF InductiveInvariant
<1>2. QED BY <1>1, ArchiveInvariant, PTL

\* An asset with work left keeps an open wake-up, a failed one has none.
THEOREM ArchiveWakeups == Spec => []WakeupAgrees
<1>1. InductiveInvariant => WakeupAgrees
  BY DEF InductiveInvariant
<1>2. QED BY <1>1, ArchiveInvariant, PTL

\* A READY asset's objects are all in storage with the bytes its metadata names,
\* however attempts, edits and crashes fall together.
THEOREM ReadyMeansStored == Spec => []ReadyIsStored
<1>1. InductiveInvariant => ReadyIsStored
  BY DEF InductiveInvariant
<1>2. QED BY <1>1, ArchiveInvariant, PTL

\* Nothing touches a finished asset or a completed wake-up again.
THEOREM FinishedStaysFinished == Spec => FinishedForGood
<1>1. InductiveInvariant /\ [Next]_vars =>
         [\A e \in Entities :
             /\ asset[e].state \in Terminal => asset'[e] = asset[e]
             /\ wakeup[e].status = "completed" => wakeup'[e] = wakeup[e]]_vars
  BY StepFacts DEF AssetGrows
<1>2. QED BY <1>1, ArchiveInvariant, PTL DEF Spec, FinishedForGood

\* While a lease runs, only the attempt it was granted to records an outcome.
THEOREM LeaseAlwaysRespected == Spec => LeaseRespected
<1>1. InductiveInvariant /\ [Next]_vars =>
         [\A e \in Entities :
             /\ asset[e].state = "processing" /\ asset[e].timer = "set"
             /\ asset'[e].state # "processing" \/ asset'[e].attempts # asset[e].attempts
             => \E w \in Workers : Attempting(w, e) /\ task'[w] # task[w]]_vars
  BY ClaimEnds DEF InductiveInvariant
<1>2. QED BY <1>1, ArchiveInvariant, PTL DEF Spec, LeaseRespected

\* After a recorded deletion only an attempt claimed before it publishes.
THEOREM DeletionAlwaysRespected == Spec => DeletionRespected
<1>1. InductiveInvariant /\ [Next]_vars =>
         [\A e \in Entities :
             /\ e \in tombstoned
             /\ asset[e].state # "ready"
             /\ \A w \in Workers : Attempting(w, e) => task[w].deleted
             => asset'[e].state # "ready"]_vars
  <2> SUFFICES ASSUME InductiveInvariant, [Next]_vars, NEW e \in Entities,
                      asset[e].state # "ready", asset'[e].state = "ready",
                      \A w \in Workers : Attempting(w, e) => task[w].deleted
               PROVE  FALSE
    OBVIOUS
  <2>1. TypeOK /\ TasksAgree
    BY DEF InductiveInvariant
  <2>2. PICK w \in Workers : MarkReady(w) /\ task[w].asset = e
    BY <2>1, BecomesReady
  <2>3. Attempting(w, e) /\ task[w].at = "publish"
    BY <2>2 DEF MarkReady, Attempting, HoldsClaim
  <2>4. ~task[w].deleted
    BY <2>1, <2>3 DEF TasksAgree, TaskAgrees
  <2>5. QED BY <2>3, <2>4
<1>2. QED BY <1>1, ArchiveInvariant, PTL DEF Spec, DeletionRespected

=============================================================================
