----------------------- MODULE AnalysisStages_proofs -----------------------
(***************************************************************************)
(* Machine-checked proofs about the analysis engine, for every set of      *)
(* stages, runs, messages, schedulers and workers, every response, cache   *)
(* key and number of attempts.                                             *)
(***************************************************************************)
EXTENDS AnalysisStages, TLAPS

-----------------------------------------------------------------------------
(* The inductive invariant *)

\* The points at which a task may still write to its stage.
AttemptPoints == {"load", "lookup", "cached", "start", "invoke", "commit", "give up"}

\* The stages of a run exist from the transaction that creates the run.  A stage
\* that has ended waits for nothing, one with a label has succeeded, and one that
\* was skipped belongs to a message that is blocked.
StageAgrees(e) ==
    /\ run[RunOf[e]] = "absent" <=> stage[e].status = "absent"
    /\ stage[e].status = "absent" => stage[e].attempts = 0
    /\ stage[e].status \in Ended => stage[e].timer = "none"
    /\ e \in labelled => stage[e].status = "succeeded"
    /\ stage[e].status = "skipped_negative_gate" => blocked[MessageOf[RunOf[e]]] # None

StagesAgree == \A e \in Entities : StageAgrees(e)

\* A task at an attempt holds a token that its stage has given out, has found a
\* source with a result under the stage's key, or brings the result that the
\* recorded response of its own call says.
TaskAgrees(w) ==
    LET e == task[w].stage
    IN /\ task[w].at # "idle" => e \in Entities /\ run[RunOf[e]] # "absent"
       /\ task[w].at \in AttemptPoints => task[w].token \in 1..stage[e].attempts
       /\ task[w].at = "cached" =>
             /\ task[w].source \in Entities
             /\ stage[task[w].source].status = "succeeded"
             /\ CacheKey[task[w].source] = CacheKey[e]
       /\ task[w].at = "commit" =>
             /\ call[e][task[w].token].status = "succeeded"
             /\ Says(call[e][task[w].token].response, e, task[w].result)
       /\ task[w].at = "gate" => e \in labelled

TasksAgree == \A w \in Workers : TaskAgrees(w)

\* No two tasks have the same token of a stage, and nobody has the token under
\* which a result was committed.
TokensAreUnique ==
    /\ \A v, w \in Workers :
          /\ task[v].at \in AttemptPoints /\ task[w].at \in AttemptPoints
          /\ task[v].stage = task[w].stage /\ task[v].token = task[w].token
          => v = w
    /\ \A w \in Workers :
          task[w].at \in AttemptPoints /\ stage[task[w].stage].status = "succeeded"
          => task[w].token # stage[task[w].stage].attempts

IInv ==
    /\ TypeOK
    /\ StagesAgree
    /\ TasksAgree
    /\ TokensAreUnique
    /\ RunTellsStages
    /\ GateStopsRun
    /\ ResultIsTraceable

-----------------------------------------------------------------------------
(* Type correctness *)

LEMMA TypeInit == Init => TypeOK
<1> SUFFICES ASSUME Init PROVE TypeOK
  OBVIOUS
<1>1. NoCall \in Call /\ NoStage \in Stage /\ Idle \in Task /\ NoWakeup \in Wakeup
  BY DEF NoCall, Call, NoStage, Stage, Timer, Idle, Task, NoWakeup, Wakeup, WakeupStatus
<1>2. \A e \in Entities : call[e] \in [Attempts(e) -> Call]
  BY <1>1 DEF Init
<1>3. \A e \in Entities : stage[e].attempts <= MaxAttempts[e]
  BY AnalysisAssumption DEF Init, NoStage
<1>4. QED BY <1>1, <1>2, <1>3 DEF Init, WakeupInit, TypeOK

\* What the steps write into a row of durable_wakeups or into a task.
LEMMA RowTypes ==
    /\ NewWakeup \in Wakeup /\ RescheduledWakeup \in Wakeup /\ CompletedWakeup \in Wakeup
    /\ \A s \in Schedulers : LeasedWakeup(s) \in Wakeup
    /\ NewStage \in Stage
    /\ Idle \in Task
<1>1. /\ NewWakeup \in Wakeup /\ RescheduledWakeup \in Wakeup /\ CompletedWakeup \in Wakeup
      /\ \A s \in Schedulers : LeasedWakeup(s) \in Wakeup
  BY DEF NewWakeup, RescheduledWakeup, CompletedWakeup, LeasedWakeup, Wakeup, WakeupStatus, Timer
<1>2. NewStage \in Stage
  BY DEF NewStage, NoStage, Stage, Active, Timer
<1>3. Idle \in Task
  BY DEF Idle, Task
<1>4. QED BY <1>1, <1>2, <1>3

LEMMA StageUpdate ==
    ASSUME NEW x \in Stage, NEW st \in Active \cup Ended, NEW t \in Timer
    PROVE  [x EXCEPT !.status = st, !.timer = t] \in Stage
BY DEF Stage

LEMMA WakeupWritten ==
    ASSUME TypeOK
    PROVE  /\ \A S : CloseWakeups(S) => wakeup' \in [Entities -> Wakeup]
           /\ \A e \in Entities : RescheduleWakeup(e) => wakeup' \in [Entities -> Wakeup]
BY RowTypes DEF TypeOK, CloseWakeups, RescheduleWakeup

\* How tasks are written.
LEMMA TaskWritten ==
    ASSUME TypeOK, NEW w \in Workers, NEW point \in TaskPoints,
           task[w].stage \in Entities
    PROVE  /\ MoveTo(w, point) => task' \in [Workers -> Task]
           /\ WindUp(w, point) => task' \in [Workers -> Task]
           /\ EndTask(w) => task' \in [Workers -> Task]
<1>1. task[w] \in Task /\ Idle \in Task /\ task \in [Workers -> Task]
  BY RowTypes DEF TypeOK
<1>2. [task[w] EXCEPT !.at = point] \in Task
  BY <1>1 DEF Task
<1>3. [Idle EXCEPT !.at = point, !.stage = task[w].stage] \in Task
  BY <1>1 DEF Task
<1>4. QED BY <1>1, <1>2, <1>3 DEF MoveTo, WindUp, EndTask

LEMMA TypeEnvironment == TypeOK /\ Environment => TypeOK'
<1> SUFFICES ASSUME TypeOK, Environment PROVE TypeOK'
  OBVIOUS
<1> USE DEF TypeOK
<1>1. CASE \E r \in Runs : CreateRun(r)
  <2> PICK r \in Runs : CreateRun(r)
    BY <1>1
  <2>1. stage' \in [Entities -> Stage] /\ wakeup' \in [Entities -> Wakeup]
    BY RowTypes DEF CreateRun
  <2>2. \A e \in Entities : stage'[e].attempts <= MaxAttempts[e]
    BY AnalysisAssumption DEF CreateRun, NewStage, NoStage
  <2>3. run' \in [Runs -> {"absent", "pending", "running"} \cup TerminalRun]
    BY DEF CreateRun
  <2>4. QED BY <2>1, <2>2, <2>3 DEF CreateRun
<1>2. CASE \E e \in Entities : WakeupBecomesDue(e)
  <2> PICK e \in Entities : WakeupBecomesDue(e)
    BY <1>2
  <2>1. [wakeup[e] EXCEPT !.timer = "elapsed"] \in Wakeup
    BY DEF Wakeup, Timer
  <2>2. wakeup' \in [Entities -> Wakeup]
    BY <2>1 DEF WakeupBecomesDue, WakeupTimerElapses
  <2>3. QED BY <2>2 DEF WakeupBecomesDue, WakeupTimerElapses, analysisVars
<1>3. CASE \E e \in Entities : DeliveryFails(e)
  BY <1>3 DEF DeliveryFails, LoseMessage, analysisVars
<1>4. CASE \E e \in Entities : StageTimerElapses(e)
  <2> PICK e \in Entities : StageTimerElapses(e)
    BY <1>4
  <2>0. stage[e] \in Stage
    OBVIOUS
  <2>1. [stage[e] EXCEPT !.timer = "elapsed"] \in Stage
    BY <2>0 DEF Stage, Timer
  <2>2. stage' \in [Entities -> Stage]
    BY <2>1 DEF StageTimerElapses
  <2>3. \A f \in Entities : stage'[f].attempts = stage[f].attempts
    BY DEF StageTimerElapses, Stage
  <2>4. QED BY <2>2, <2>3 DEF StageTimerElapses, wakeupVars
<1>5. QED BY <1>1, <1>2, <1>3, <1>4 DEF Environment

LEMMA TypeScheduler ==
    ASSUME TypeOK, NEW s \in Schedulers, SchedulerStep(s) PROVE TypeOK'
<1> USE DEF TypeOK, analysisVars
<1>1. CASE BeginDispatch(s)
  <2> PICK S \in SUBSET Entities : ClaimDue(s, S)
    BY <1>1 DEF BeginDispatch
  <2>1. wakeup' \in [Entities -> Wakeup]
    BY RowTypes DEF ClaimDue
  <2>2. QED BY <1>1, <2>1 DEF BeginDispatch, ClaimDue
<1>2. CASE CycleAborts(s)
  BY <1>2 DEF CycleAborts, ForgetClaims
<1>3. CASE \E e \in Entities : DispatchStep(s, e)
  <2> PICK e \in Entities : DispatchStep(s, e)
    BY <1>3
  <2>1. wakeup' \in [Entities -> Wakeup]
    BY RowTypes DEF DispatchStep, Dispatch, DispatchFails, TakeClaim, ReleaseClaim
  <2>2. inFlight' \subseteq Entities /\ claims' \in [Schedulers -> SUBSET Entities]
                                     /\ sending' \in [Schedulers -> SUBSET Entities]
    BY DEF DispatchStep, Dispatch, DispatchFails, TakeClaim, ReleaseClaim
  <2>3. QED BY <2>1, <2>2 DEF DispatchStep
<1>4. QED BY <1>1, <1>2, <1>3 DEF SchedulerStep

LEMMA VerdictType ==
    ASSUME NEW st, NEW r PROVE Verdict(st, r) \in {"running"} \cup TerminalRun
BY DEF Verdict, TerminalRun

LEMMA TypeStart ==
    ASSUME TypeOK, NEW w \in Workers, NEW e \in Entities, StartTask(w, e)
    PROVE  TypeOK'
<1> USE DEF TypeOK, Deliver, TakeMessage
<1>0. RunOf[e] \in Runs /\ stage[e] \in Stage /\ Idle \in Task /\ MaxAttempts[e] \in Nat
  BY AnalysisAssumption, RowTypes
<1>1. CASE ClaimStage(w, e)
  <2>1. stage[e].attempts + 1 \in Nat /\ stage[e].attempts + 1 <= MaxAttempts[e]
    BY <1>0, <1>1 DEF ClaimStage, AttemptsLeft, Stage
  <2> DEFINE row == [stage[e] EXCEPT !.status = "running", !.attempts = @ + 1, !.timer = "set"]
  <2>2. row \in Stage /\ row.attempts = stage[e].attempts + 1
    BY <1>0, <2>1 DEF Stage, Active, Timer
  <2>3. stage' = [stage EXCEPT ![e] = row]
    BY <1>1 DEF ClaimStage
  <2>4. stage' \in [Entities -> Stage]
    BY <2>2, <2>3
  <2>5. \A f \in Entities : stage'[f].attempts <= MaxAttempts[f]
    BY <2>1, <2>2, <2>3
  <2>6. [Idle EXCEPT !.at = "load", !.stage = e, !.token = stage[e].attempts + 1] \in Task
    BY <1>0, <2>1 DEF Task, TaskPoints
  <2>7. task' \in [Workers -> Task]
    BY <1>1, <2>6 DEF ClaimStage
  <2>8. run' \in [Runs -> {"absent", "pending", "running"} \cup TerminalRun]
    BY <1>0, <1>1 DEF ClaimStage
  <2>9. QED BY <1>1, <2>4, <2>5, <2>7, <2>8 DEF ClaimStage
<1>2. CASE ExhaustStage(w, e)
  <2>1. [stage[e] EXCEPT !.status = "failed", !.timer = "none"] \in Stage
    BY <1>0, StageUpdate DEF Ended, Timer
  <2>2. stage' \in [Entities -> Stage]
    BY <1>2, <2>1 DEF ExhaustStage
  <2>3. \A f \in Entities : stage'[f].attempts = stage[f].attempts
    BY <1>2 DEF ExhaustStage, Stage
  <2>4. run' \in [Runs -> {"absent", "pending", "running"} \cup TerminalRun]
    BY <1>0, <1>2, VerdictType DEF ExhaustStage
  <2>5. wakeup' \in [Entities -> Wakeup]
    BY <1>2, WakeupWritten DEF ExhaustStage
  <2>6. QED BY <1>2, <2>2, <2>3, <2>4, <2>5 DEF ExhaustStage
<1>3. CASE NothingToClaim(w, e)
  BY <1>3 DEF NothingToClaim
<1>4. QED BY <1>1, <1>2, <1>3 DEF StartTask

\* A task that has begun works on a stage.
LEMMA TaskHasStage ==
    ASSUME TasksAgree, NEW w \in Workers, AttemptStep(w) \/ WorkerDies(w)
    PROVE  /\ task[w].stage \in Entities
           /\ run[RunOf[task[w].stage]] # "absent"
<1>1. task[w].at # "idle"
  BY AnalysisAssumption
     DEF AttemptStep, WorkerDies, TaskPoints, Load, LoadFails, FindCacheHit, CommitCacheHit,
         StartInference, InferenceSucceeds, InferenceFails, RecordCall, CommitResult, GiveUp,
         ApplyGate, CompleteRun
<1>2. QED BY <1>1 DEF TasksAgree, TaskAgrees

LEMMA SucceedType ==
    ASSUME TypeOK, NEW e \in Entities, NEW result \in {"none", "clean", "negative"},
           NEW source \in Entities \cup {None}, NEW isNegative \in BOOLEAN,
           Succeed(e, result, source, isNegative)
    PROVE  /\ stage' \in [Entities -> Stage]
           /\ \A f \in Entities : stage'[f].attempts = stage[f].attempts
           /\ labelled' \subseteq Entities
           /\ wakeup' \in [Entities -> Wakeup]
<1>1. stage[e] \in Stage
  BY DEF TypeOK
<1> DEFINE row == [stage[e] EXCEPT !.status = "succeeded", !.timer = "none",
                                   !.result = result, !.source = source,
                                   !.call = IF source = None THEN @ ELSE 0]
<1>2. row \in Stage /\ row.attempts = stage[e].attempts
  BY <1>1 DEF Stage, Ended, Timer
<1>3. stage' = [stage EXCEPT ![e] = row]
  BY DEF Succeed
<1>4. stage' \in [Entities -> Stage] /\ \A f \in Entities : stage'[f].attempts = stage[f].attempts
  BY <1>2, <1>3 DEF TypeOK
<1>5. labelled' \subseteq Entities
  BY DEF Succeed, Label, TypeOK
<1>6. wakeup' \in [Entities -> Wakeup]
  BY WakeupWritten DEF Succeed
<1>7. QED BY <1>4, <1>5, <1>6

LEMMA CallWritten ==
    ASSUME TypeOK, NEW e \in Entities, NEW k \in Attempts(e), NEW c \in Call,
           call' = [call EXCEPT ![e][k] = c]
    PROVE  DOMAIN call' = Entities /\ \A f \in Entities : call'[f] \in [Attempts(f) -> Call]
<1>1. DOMAIN call = Entities /\ \A f \in Entities : call[f] \in [Attempts(f) -> Call]
  BY DEF TypeOK
<1>2. DOMAIN call' = Entities
  BY <1>1
<1>3. call'[e] = [call[e] EXCEPT ![k] = c]
  BY <1>1
<1>4. \A f \in Entities : f # e => call'[f] = call[f]
  BY <1>1
<1>5. call'[e] \in [Attempts(e) -> Call]
  BY <1>1, <1>3
<1>6. QED BY <1>1, <1>2, <1>4, <1>5

LEMMA TypeRecordCall ==
    ASSUME TypeOK, TasksAgree, NEW w \in Workers, task[w].stage \in Entities,
           NEW status \in {"succeeded", "failed"}, NEW response \in Responses \cup {None},
           RecordCall(w, status, response)
    PROVE  DOMAIN call' = Entities /\ \A f \in Entities : call'[f] \in [Attempts(f) -> Call]
<1>1. task[w].token \in 1..stage[task[w].stage].attempts
  BY DEF RecordCall, TasksAgree, TaskAgrees, AttemptPoints
<1>2. /\ stage[task[w].stage].attempts \in Nat
      /\ MaxAttempts[task[w].stage] \in Nat
      /\ stage[task[w].stage].attempts <= MaxAttempts[task[w].stage]
  BY AnalysisAssumption DEF TypeOK, Stage
<1>3. task[w].token \in Attempts(task[w].stage)
  BY <1>1, <1>2 DEF Attempts
<1>4. [status |-> status, response |-> response] \in Call
  BY DEF Call
<1>5. QED BY <1>3, <1>4, CallWritten DEF RecordCall

LEMMA TypeTask ==
    ASSUME TypeOK, NEW w \in Workers, task[w].stage \in Entities,
           Load(w) \/ LoadFails(w) \/ FindCacheHit(w) \/ WorkerDies(w)
    PROVE  TypeOK'
<1> USE DEF TypeOK, wakeupVars
<1>1. task[w] \in Task
  OBVIOUS
<1>2. task' \in [Workers -> Task]
  <2>1. CASE Load(w)
    BY <2>1, TaskWritten DEF Load, TaskPoints
  <2>2. CASE LoadFails(w)
    <3>1. \A again \in BOOLEAN : [task[w] EXCEPT !.at = "give up", !.retryable = again] \in Task
      BY <1>1 DEF Task, TaskPoints
    <3>2. QED BY <2>2, <3>1 DEF LoadFails
  <2>3. CASE FindCacheHit(w)
    <3>1. \A f \in Entities : [task[w] EXCEPT !.at = "cached", !.source = f] \in Task
      BY <1>1 DEF Task, TaskPoints
    <3>2. MoveTo(w, "start") => task' \in [Workers -> Task]
      BY TaskWritten DEF TaskPoints
    <3>3. QED BY <2>3, <3>1, <3>2 DEF FindCacheHit, CacheSources
  <2>4. CASE WorkerDies(w)
    BY <2>4, RowTypes DEF WorkerDies, EndTask
  <2>5. QED BY <2>1, <2>2, <2>3, <2>4
<1>3. QED BY <1>2 DEF Load, LoadFails, FindCacheHit, WorkerDies

LEMMA TypeCommit ==
    ASSUME TypeOK, TasksAgree, NEW w \in Workers, task[w].stage \in Entities,
           CommitCacheHit(w) \/ CommitResult(w)
    PROVE  TypeOK'
<1> DEFINE e == task[w].stage
<1>1. task[w] \in Task /\ stage \in [Entities -> Stage]
  BY DEF TypeOK
<1>2. /\ stage' \in [Entities -> Stage]
      /\ \A f \in Entities : stage'[f].attempts = stage[f].attempts
      /\ labelled' \subseteq Entities
      /\ wakeup' \in [Entities -> Wakeup]
  <2>1. CASE UNCHANGED <<stage, labelled, wakeup>>
    BY <2>1 DEF TypeOK
  <2>2. CASE CommitCacheHit(w) /\ HoldsLease(w)
    <3>1. task[w].source \in Entities
      BY <2>2 DEF CommitCacheHit, TasksAgree, TaskAgrees
    <3>2. stage[task[w].source].result \in {"none", "clean", "negative"}
      BY <1>1, <3>1 DEF Stage
    <3>3. Succeed(e, stage[task[w].source].result, task[w].source, task[w].source \in labelled)
      BY <2>2 DEF CommitCacheHit
    <3>4. (task[w].source \in labelled) \in BOOLEAN
      OBVIOUS
    <3>5. QED BY <3>1, <3>2, <3>3, <3>4, SucceedType
  <2>3. CASE CommitResult(w) /\ MayCommit(w)
    <3>1. task[w].result \in {"none", "clean", "negative"}
      BY <1>1 DEF Task
    <3>2. Succeed(e, task[w].result, None, task[w].result = "negative")
      BY <2>3 DEF CommitResult
    <3>3. (task[w].result = "negative") \in BOOLEAN
      OBVIOUS
    <3>4. QED BY <3>1, <3>2, <3>3, SucceedType
  <2>4. QED BY <2>1, <2>2, <2>3 DEF CommitCacheHit, CommitResult
<1>3. task' \in [Workers -> Task]
  <2>1. WindUp(w, "gate") \/ WindUp(w, "finish")
    BY DEF CommitCacheHit, CommitResult, AfterCommit
  <2>2. QED BY <2>1, TaskWritten DEF TaskPoints
<1>4. UNCHANGED <<inFlight, claims, sending, run, call, blocked>>
  BY DEF CommitCacheHit, CommitResult
<1>5. QED BY <1>2, <1>3, <1>4 DEF TypeOK

LEMMA TypeInference ==
    ASSUME TypeOK, TasksAgree, NEW w \in Workers, task[w].stage \in Entities,
           StartInference(w) \/ InferenceSucceeds(w) \/ InferenceFails(w)
    PROVE  TypeOK'
<1> USE DEF wakeupVars
<1> DEFINE e == task[w].stage
<1>1. task[w] \in Task /\ stage \in [Entities -> Stage] /\ Idle \in Task
  BY RowTypes DEF TypeOK
<1>2. CASE StartInference(w)
  <2>1. CASE HoldsLease(w)
    <3>1. task[w].token \in 1..stage[e].attempts
      BY <1>2 DEF StartInference, TasksAgree, TaskAgrees, AttemptPoints
    <3>2. /\ stage[e].attempts \in Nat /\ MaxAttempts[e] \in Nat
          /\ stage[e].attempts <= MaxAttempts[e]
      BY AnalysisAssumption DEF TypeOK, Stage
    <3>3. task[w].token \in Attempts(e)
      BY <3>1, <3>2 DEF Attempts
    <3>4. [call[e][task[w].token] EXCEPT !.status = "pending"] \in Call
      BY <3>3 DEF TypeOK, Call
    <3>5. call' = [call EXCEPT ![e][task[w].token] =
                      [call[e][task[w].token] EXCEPT !.status = "pending"]]
      BY <1>2, <2>1 DEF StartInference
    <3>6. DOMAIN call' = Entities /\ \A f \in Entities : call'[f] \in [Attempts(f) -> Call]
      BY <3>3, <3>4, <3>5, CallWritten
    <3>7. /\ [stage[e] EXCEPT !.call = task[w].token] \in Stage
          /\ [stage[e] EXCEPT !.call = task[w].token].attempts = stage[e].attempts
      BY <1>1, <3>1 DEF Stage, Task
    <3>8. stage' = [stage EXCEPT ![e] = [stage[e] EXCEPT !.call = task[w].token]]
      BY <1>2, <2>1 DEF StartInference
    <3>9. stage' \in [Entities -> Stage] /\ \A f \in Entities : stage'[f].attempts = stage[f].attempts
      BY <1>1, <3>7, <3>8
    <3>10. task' \in [Workers -> Task]
      BY <1>2, <2>1, TaskWritten DEF StartInference, TaskPoints
    <3>11. UNCHANGED <<wakeupVars, run, labelled, blocked>>
      BY <1>2 DEF StartInference
    <3>12. QED BY <3>6, <3>9, <3>10, <3>11 DEF TypeOK
  <2>2. CASE ~HoldsLease(w)
    BY <1>1, <1>2, <2>2 DEF StartInference, EndTask, TypeOK
  <2>3. QED BY <2>1, <2>2
<1>3. CASE InferenceSucceeds(w)
  <2>1. PICK response \in Responses :
           /\ RecordCall(w, "succeeded", response)
           /\ \/ \E result \in {"clean", "negative"} :
                    task' = [task EXCEPT ![w] = [task[w] EXCEPT !.at = "commit", !.result = result]]
              \/ task' = [task EXCEPT ![w] = [task[w] EXCEPT !.at = "give up", !.retryable = TRUE]]
    BY <1>3 DEF InferenceSucceeds
  <2>2. DOMAIN call' = Entities /\ \A f \in Entities : call'[f] \in [Attempts(f) -> Call]
    BY <2>1, TypeRecordCall
  <2>3. \A result \in {"clean", "negative"} :
           [task[w] EXCEPT !.at = "commit", !.result = result] \in Task
    BY <1>1 DEF Task, TaskPoints
  <2>4. [task[w] EXCEPT !.at = "give up", !.retryable = TRUE] \in Task
    BY <1>1 DEF Task, TaskPoints
  <2>5. task' \in [Workers -> Task]
    BY <2>1, <2>3, <2>4 DEF TypeOK
  <2>6. QED BY <2>1, <2>2, <2>5 DEF RecordCall, TypeOK
<1>4. CASE InferenceFails(w)
  <2>1. DOMAIN call' = Entities /\ \A f \in Entities : call'[f] \in [Attempts(f) -> Call]
    BY <1>4, TypeRecordCall DEF InferenceFails
  <2>2. \A again \in BOOLEAN : [task[w] EXCEPT !.at = "give up", !.retryable = again] \in Task
    BY <1>1 DEF Task, TaskPoints
  <2>3. task' \in [Workers -> Task]
    BY <1>4, <2>2 DEF InferenceFails, TypeOK
  <2>4. QED BY <1>4, <2>1, <2>3 DEF InferenceFails, RecordCall, TypeOK
<1>5. QED BY <1>2, <1>3, <1>4

LEMMA TypeGiveUp ==
    ASSUME TypeOK, NEW w \in Workers, task[w].stage \in Entities, GiveUp(w)
    PROVE  TypeOK'
<1> DEFINE e == task[w].stage
<1>1. stage[e] \in Stage
  BY DEF TypeOK
<1>2. /\ [stage[e] EXCEPT !.status = "retry_wait", !.timer = "set"] \in Stage
      /\ [stage[e] EXCEPT !.status = "failed", !.timer = "none"] \in Stage
  BY <1>1, StageUpdate DEF Active, Ended, Timer
<1> DEFINE waiting == [stage[e] EXCEPT !.status = "retry_wait", !.timer = "set"]
           failed == [stage[e] EXCEPT !.status = "failed", !.timer = "none"]
<1>3. \/ stage' = [stage EXCEPT ![e] = waiting]
      \/ stage' = [stage EXCEPT ![e] = failed]
      \/ stage' = stage
  BY DEF GiveUp
<1>4. waiting.attempts = stage[e].attempts /\ failed.attempts = stage[e].attempts
  BY <1>1 DEF Stage
<1>5. waiting \in Stage /\ failed \in Stage
  BY <1>2
<1> HIDE DEF waiting, failed
<1>6. stage' \in [Entities -> Stage]
  BY <1>3, <1>5 DEF TypeOK
<1>7. \A f \in Entities : stage'[f].attempts = stage[f].attempts
  BY <1>3, <1>4 DEF TypeOK
<1>8. wakeup' \in [Entities -> Wakeup]
  BY WakeupWritten DEF GiveUp, TypeOK
<1>9. task' \in [Workers -> Task]
  BY TaskWritten DEF GiveUp, AfterFailure, TaskPoints
<1>10. QED BY <1>6, <1>7, <1>8, <1>9 DEF GiveUp, TypeOK

LEMMA TypeFinish ==
    ASSUME TypeOK, NEW w \in Workers, task[w].stage \in Entities,
           ApplyGate(w) \/ CompleteRun(w)
    PROVE  TypeOK'
<1> DEFINE r == RunOf[task[w].stage]
<1>1. r \in Runs /\ MessageOf[r] \in Messages
  BY AnalysisAssumption
<1>2. CASE ApplyGate(w)
  <2>1. ASSUME NEW f \in Entities
        PROVE  LET row == [stage[f] EXCEPT !.status = "skipped_negative_gate", !.timer = "none"]
               IN row \in Stage /\ row.attempts = stage[f].attempts
    <3>1. stage[f] \in Stage
      BY DEF TypeOK
    <3>2. QED BY <3>1 DEF Ended, Timer, Stage
  <2>2. stage' \in [Entities -> Stage] /\ \A f \in Entities : stage'[f].attempts = stage[f].attempts
    BY <1>2, <2>1 DEF ApplyGate, TypeOK
  <2>3. blocked' \in [Messages -> Entities \cup {None}]
    BY <1>1, <1>2 DEF ApplyGate, TypeOK
  <2>4. run' \in [Runs -> {"absent", "pending", "running"} \cup TerminalRun]
    BY <1>1, <1>2 DEF ApplyGate, TypeOK, TerminalRun
  <2>5. wakeup' \in [Entities -> Wakeup]
    BY <1>2, WakeupWritten DEF ApplyGate
  <2>6. task' \in [Workers -> Task]
    BY <1>2, TaskWritten DEF ApplyGate, TaskPoints
  <2>7. QED BY <1>2, <2>2, <2>3, <2>4, <2>5, <2>6 DEF ApplyGate, TypeOK
<1>3. CASE CompleteRun(w)
  <2>1. run' \in [Runs -> {"absent", "pending", "running"} \cup TerminalRun]
    BY <1>1, <1>3, VerdictType DEF CompleteRun, TypeOK
  <2>2. task' \in [Workers -> Task]
    BY <1>3, RowTypes DEF CompleteRun, EndTask, TypeOK
  <2>3. QED BY <1>3, <2>1, <2>2 DEF CompleteRun, TypeOK, wakeupVars
<1>4. QED BY <1>2, <1>3

LEMMA TypeNext == TypeOK /\ TasksAgree /\ [Next]_vars => TypeOK'
<1> SUFFICES ASSUME TypeOK, TasksAgree, [Next]_vars PROVE TypeOK'
  OBVIOUS
<1>1. CASE Environment
  BY <1>1, TypeEnvironment
<1>2. CASE \E s \in Schedulers : SchedulerStep(s)
  BY <1>2, TypeScheduler
<1>3. CASE \E w \in Workers : \E e \in Entities : StartTask(w, e)
  BY <1>3, TypeStart
<1>4. CASE \E w \in Workers : AttemptStep(w) \/ WorkerDies(w)
  <2> PICK w \in Workers : AttemptStep(w) \/ WorkerDies(w)
    BY <1>4
  <2>1. task[w].stage \in Entities
    BY TaskHasStage
  <2>2. QED
    BY <2>1, TypeTask, TypeCommit, TypeInference, TypeGiveUp, TypeFinish DEF AttemptStep
<1>5. CASE UNCHANGED vars
  BY <1>5 DEF TypeOK, vars, wakeupVars, analysisVars
<1>6. QED BY <1>1, <1>2, <1>3, <1>4, <1>5 DEF Next, WorkerStep

-----------------------------------------------------------------------------
(* What no step takes back *)

StageGrows(e) ==
    /\ stage'[e].attempts >= stage[e].attempts
    /\ stage[e].status \in Ended => stage'[e] = stage[e] /\ (e \in labelled' => e \in labelled)
    /\ e \in labelled => e \in labelled'

RunGrows(r) ==
    /\ run[r] # "absent" => run'[r] # "absent"
    /\ run[r] \in TerminalRun => run'[r] \in TerminalRun

Grows ==
    /\ \A e \in Entities : StageGrows(e)
    /\ \A r \in Runs : RunGrows(r)
    /\ \A m \in Messages : blocked[m] # None => blocked'[m] = blocked[m]

LEMMA Rows ==
    ASSUME TypeOK
    PROVE  /\ \A e \in Entities :
                 /\ stage[e] \in Stage /\ stage[e].attempts \in Nat
                 /\ stage[e].status \in {"absent"} \cup Active \cup Ended
                 /\ RunOf[e] \in Runs /\ MessageOf[RunOf[e]] \in Messages
                 /\ MaxAttempts[e] \in Nat /\ stage[e].attempts <= MaxAttempts[e]
           /\ \A w \in Workers : task[w] \in Task /\ task[w].token \in Nat
           /\ Idle \in Task /\ Idle.at = "idle"
           /\ stage \in [Entities -> Stage] /\ task \in [Workers -> Task]
           /\ None \notin Entities
<1>1. Idle \in Task /\ Idle.at = "idle"
  BY RowTypes DEF Idle
<1>2. QED BY <1>1, AnalysisAssumption, WakeupAssumption DEF TypeOK, Stage, Task

\* The invariants, run by run and stage by stage.
RunTells(r) ==
    /\ run[r] \in TerminalRun => \A e \in StagesOf(r) : stage[e].status \in Ended
    /\ run[r] = "completed" => \A e \in StagesOf(r) : stage[e].status = "succeeded"
    /\ run[r] = "failed" => \E e \in StagesOf(r) : stage[e].status = "failed"
    /\ run[r] = "blocked_negative_gate" => blocked[MessageOf[r]] # None

Gated(m) ==
    blocked[m] # None =>
        /\ blocked[m] \in labelled
        /\ MessageOf[RunOf[blocked[m]]] = m
        /\ \A e \in StagesOf(RunOf[blocked[m]]) : stage[e].status \notin Active

Traceable(e) ==
    stage[e].status = "succeeded" =>
        IF stage[e].source = None
        THEN /\ stage[e].call \in Attempts(e)
             /\ stage[e].call = stage[e].attempts
             /\ call[e][stage[e].call].status = "succeeded"
             /\ Says(call[e][stage[e].call].response, e, stage[e].result)
        ELSE /\ stage[stage[e].source].status = "succeeded"
             /\ stage[stage[e].source].result = stage[e].result
             /\ CacheKey[stage[e].source] = CacheKey[e]

LEMMA OneByOne ==
    /\ RunTellsStages <=> \A r \in Runs : RunTells(r)
    /\ GateStopsRun <=> \A m \in Messages : Gated(m)
    /\ ResultIsTraceable <=> \A e \in Entities : Traceable(e)
BY DEF RunTellsStages, RunTells, GateStopsRun, Gated, ResultIsTraceable, Traceable

\* A run that a step does not write keeps telling its stages.
LEMMA RunKept ==
    ASSUME TypeOK, Grows, NEW r \in Runs, RunTells(r), run'[r] = run[r]
    PROVE  RunTells(r)'
<1>1. MessageOf[r] \in Messages
  BY AnalysisAssumption
<1>2. \A e \in StagesOf(r) : stage[e].status \in Ended => stage'[e] = stage[e]
  BY DEF Grows, StageGrows, StagesOf
<1>3. QED BY <1>1, <1>2 DEF RunTells, TerminalRun, Grows, StagesOf, Ended

\* A block stays justified as long as its cause is kept.
LEMMA GateKept ==
    ASSUME TypeOK, StagesAgree, Grows, NEW m \in Messages, Gated(m), blocked'[m] = blocked[m]
    PROVE  Gated(m)'
<1> SUFFICES ASSUME blocked[m] # None PROVE Gated(m)'
  BY DEF Gated
<1> DEFINE c == blocked[m]
<1>1. c \in Entities /\ c \in labelled /\ MessageOf[RunOf[c]] = m
  BY DEF Gated, TypeOK
<1>2. run[RunOf[c]] # "absent"
  BY <1>1 DEF StagesAgree, StageAgrees
<1>3. ASSUME NEW e \in StagesOf(RunOf[c]) PROVE stage'[e].status \notin Active
  <2>1. e \in Entities /\ stage[e].status # "absent" /\ stage[e].status \notin Active
    BY <1>1, <1>2 DEF StagesAgree, StageAgrees, StagesOf, Gated
  <2>2. stage[e].status \in Ended
    BY <2>1, Rows
  <2>3. QED BY <2>1, <2>2 DEF Grows, StageGrows
<1>4. c \in labelled'
  BY <1>1 DEF Grows, StageGrows
<1>5. QED BY <1>1, <1>3, <1>4 DEF Gated, StagesOf

\* A result stays traceable as long as its call is not written.
LEMMA TraceKept ==
    ASSUME TypeOK, Grows, NEW e \in Entities, Traceable(e), stage[e].status = "succeeded",
           stage[e].source = None => call'[e][stage[e].call] = call[e][stage[e].call]
    PROVE  Traceable(e)'
<1>1. stage'[e] = stage[e] /\ stage[e].source \in Entities \cup {None}
  BY Rows DEF Grows, StageGrows, Ended, Stage
<1>2. CASE stage[e].source = None
  BY <1>1, <1>2 DEF Traceable, Attempts
<1>3. CASE stage[e].source # None
  <2>1. stage'[stage[e].source] = stage[stage[e].source]
    BY <1>1, <1>3 DEF Grows, StageGrows, Ended, Traceable
  <2>2. QED BY <1>1, <1>3, <2>1 DEF Traceable
<1>4. QED BY <1>2, <1>3

\* A task that a step does not move stays in agreement as long as the call it
\* brings the result of is not written.
LEMMA TaskKept ==
    ASSUME TypeOK, TypeOK', Grows, NEW w \in Workers, TaskAgrees(w), task'[w] = task[w],
           task[w].at = "commit" =>
              call'[task[w].stage][task[w].token] = call[task[w].stage][task[w].token]
    PROVE  TaskAgrees(w)'
<1> DEFINE e == task[w].stage
<1> SUFFICES ASSUME task[w].at # "idle" PROVE TaskAgrees(w)'
  BY DEF TaskAgrees, AttemptPoints
<1>1. e \in Entities /\ run[RunOf[e]] # "absent" /\ RunOf[e] \in Runs
  BY Rows DEF TaskAgrees
<1>2. run'[RunOf[e]] # "absent"
  BY <1>1 DEF Grows, RunGrows
<1>3. task[w].at \in AttemptPoints => task[w].token \in 1..stage'[e].attempts
  <2>1. stage'[e].attempts >= stage[e].attempts /\ stage[e].attempts \in Nat
    BY <1>1, Rows DEF Grows, StageGrows
  <2>2. stage'[e].attempts \in Nat
    BY <1>1 DEF TypeOK, Stage
  <2>3. QED BY <2>1, <2>2 DEF TaskAgrees
<1>4. task[w].at = "cached" => stage'[task[w].source] = stage[task[w].source]
  BY DEF TaskAgrees, Grows, StageGrows, Ended
<1>5. task[w].at = "gate" => e \in labelled'
  BY <1>1 DEF TaskAgrees, Grows, StageGrows
<1>6. QED BY <1>1, <1>2, <1>3, <1>4, <1>5 DEF TaskAgrees

-----------------------------------------------------------------------------
(* Steps *)

\* What a step has to be shown to do.
Good ==
    /\ Grows
    /\ (StagesAgree /\ TasksAgree /\ TokensAreUnique)'
    /\ (RunTellsStages /\ GateStopsRun /\ ResultIsTraceable)'

\* A task that keeps or loses its token.
KeepsToken(w) ==
    task'[w].at \in AttemptPoints =>
        task[w].at \in AttemptPoints /\ task'[w].stage = task[w].stage /\ task'[w].token = task[w].token

LEMMA TokensKept ==
    ASSUME TokensAreUnique, \A w \in Workers : KeepsToken(w),
           \A w \in Workers :
              task'[w].at \in AttemptPoints /\ stage'[task[w].stage].status = "succeeded"
              => /\ stage[task[w].stage].status = "succeeded"
                 /\ stage'[task[w].stage].attempts = stage[task[w].stage].attempts
    PROVE  TokensAreUnique'
BY DEF TokensAreUnique, KeepsToken

\* A step of one task, of the dispatcher or of a clock that leaves the rows of
\* the analysis alone, but for deadlines.
TimerElapsed(e) ==
    /\ stage[e].status \notin Ended
    /\ stage'[e] = [stage[e] EXCEPT !.timer = "elapsed"]

LeavesRowsAlone ==
    /\ UNCHANGED <<run, call, labelled, blocked>>
    /\ \A e \in Entities : stage'[e] = stage[e] \/ TimerElapsed(e)
    /\ \A w \in Workers : KeepsToken(w) /\ (task'[w] = task[w] \/ TaskAgrees(w)')

LEMMA RowsLeftAlone ==
    ASSUME IInv, TypeOK', LeavesRowsAlone PROVE Good
<1> USE DEF LeavesRowsAlone
<1>1. \A e \in Entities :
         /\ stage'[e].status = stage[e].status /\ stage'[e].attempts = stage[e].attempts
         /\ stage[e].status \in Ended => stage'[e] = stage[e]
  BY Rows DEF IInv, Stage, TimerElapsed
<1>2. Grows
  BY <1>1, Rows DEF Grows, StageGrows, RunGrows, IInv
<1>3. StagesAgree'
  BY <1>1 DEF StagesAgree, StageAgrees, IInv
<1>4. TasksAgree'
  BY <1>2, TaskKept DEF TasksAgree, IInv
<1>5. TokensAreUnique'
  <2>1. \A w \in Workers : task'[w].at \in AttemptPoints => task[w].stage \in Entities
    BY DEF KeepsToken, AttemptPoints, IInv, TasksAgree, TaskAgrees
  <2>2. QED BY <1>1, <2>1, TokensKept DEF IInv
<1>6. RunTellsStages'
  BY <1>2, RunKept, OneByOne DEF IInv, RunTellsStages, RunTells
<1>7. GateStopsRun'
  <2>1. \A m \in Messages : Gated(m)'
    BY <1>2, GateKept, OneByOne DEF IInv
  <2>2. QED BY <2>1 DEF GateStopsRun, Gated
<1>8. ResultIsTraceable'
  <2>1. ASSUME NEW e \in Entities PROVE Traceable(e)'
    <3>1. CASE stage[e].status = "succeeded"
      BY <1>2, <3>1, TraceKept, OneByOne DEF IInv
    <3>2. CASE stage[e].status # "succeeded"
      BY <1>1, <3>2 DEF Traceable
    <3>3. QED BY <3>1, <3>2
  <2>2. QED BY <2>1 DEF ResultIsTraceable, Traceable
<1>9. QED BY <1>2, <1>3, <1>4, <1>5, <1>6, <1>7, <1>8 DEF Good

LEMMA QuietGood ==
    ASSUME IInv, TypeOK', UNCHANGED analysisVars PROVE Good
<1>1. \A w \in Workers : KeepsToken(w)
  BY DEF KeepsToken, analysisVars
<1>2. LeavesRowsAlone
  BY <1>1 DEF LeavesRowsAlone, analysisVars
<1>3. QED BY <1>2, RowsLeftAlone

LEMMA TimerGood ==
    ASSUME IInv, TypeOK', NEW e \in Entities, StageTimerElapses(e) PROVE Good
<1>1. stage' = [stage EXCEPT ![e] = [stage[e] EXCEPT !.timer = "elapsed"]]
  BY DEF StageTimerElapses
<1>2. stage[e].status \notin Ended
  BY DEF StageTimerElapses, IInv, StagesAgree, StageAgrees
<1>3. stage'[e] = [stage[e] EXCEPT !.timer = "elapsed"]
      /\ \A f \in Entities : f # e => stage'[f] = stage[f]
  BY <1>1 DEF IInv, TypeOK
<1>4. LeavesRowsAlone
  BY <1>2, <1>3 DEF LeavesRowsAlone, TimerElapsed, KeepsToken, StageTimerElapses
<1>5. QED BY <1>4, RowsLeftAlone

\* What Load and its like leave of the task of w; the others keep theirs.
LEMMA OneTaskMoves ==
    ASSUME TypeOK, NEW w \in Workers, NEW t, task' = [task EXCEPT ![w] = t]
    PROVE  task'[w] = t /\ \A v \in Workers : v # w => task'[v] = task[v]
BY DEF TypeOK

LEMMA TaskGood ==
    ASSUME IInv, TypeOK', NEW w \in Workers,
           Load(w) \/ LoadFails(w) \/ FindCacheHit(w) \/ WorkerDies(w)
    PROVE  Good
<1> USE DEF IInv
<1>1. UNCHANGED <<run, stage, call, labelled, blocked>>
  BY DEF Load, LoadFails, FindCacheHit, WorkerDies
<1>2. task[w] \in Task /\ TaskAgrees(w) /\ Idle.at = "idle"
  BY Rows DEF TasksAgree
<1>3. TaskAgrees(w)' /\ KeepsToken(w) /\ \A v \in Workers : v # w => task'[v] = task[v]
  <2>1. CASE WorkerDies(w)
    <3>1. task'[w] = Idle /\ \A v \in Workers : v # w => task'[v] = task[v]
      BY <2>1, OneTaskMoves DEF WorkerDies, EndTask
    <3>2. QED BY <1>2, <3>1 DEF TaskAgrees, KeepsToken, AttemptPoints
  <2>2. CASE Load(w) \/ (FindCacheHit(w) /\ MoveTo(w, "start"))
    <3>1. PICK p \in {"start", "lookup"} : task' = [task EXCEPT ![w] = [task[w] EXCEPT !.at = p]]
      BY <2>2 DEF Load, MoveTo
    <3>2. task'[w] = [task[w] EXCEPT !.at = p] /\ \A v \in Workers : v # w => task'[v] = task[v]
      BY <3>1, OneTaskMoves
    <3>3. task[w].at \in {"load", "lookup"}
      BY <2>2 DEF Load, FindCacheHit
    <3>4. task'[w].at = p /\ task'[w].stage = task[w].stage /\ task'[w].token = task[w].token
      BY <1>2, <3>2 DEF Task
    <3>5. QED BY <1>1, <1>2, <3>2, <3>3, <3>4 DEF TaskAgrees, KeepsToken, AttemptPoints
  <2>3. CASE LoadFails(w)
    <3>1. PICK again \in BOOLEAN :
             task' = [task EXCEPT ![w] = [task[w] EXCEPT !.at = "give up", !.retryable = again]]
      BY <2>3 DEF LoadFails
    <3>2. task'[w] = [task[w] EXCEPT !.at = "give up", !.retryable = again]
          /\ \A v \in Workers : v # w => task'[v] = task[v]
      BY <3>1, OneTaskMoves
    <3>3. /\ task'[w].at = "give up" /\ task'[w].stage = task[w].stage
          /\ task'[w].token = task[w].token
      BY <1>2, <3>2 DEF Task
    <3>4. QED BY <1>1, <1>2, <2>3, <3>2, <3>3 DEF TaskAgrees, KeepsToken, AttemptPoints, LoadFails
  <2>4. CASE FindCacheHit(w) /\ ~MoveTo(w, "start")
    <3>1. PICK f \in CacheSources(task[w].stage) :
             task' = [task EXCEPT ![w] = [task[w] EXCEPT !.at = "cached", !.source = f]]
      BY <2>4 DEF FindCacheHit
    <3>2. task'[w] = [task[w] EXCEPT !.at = "cached", !.source = f]
          /\ \A v \in Workers : v # w => task'[v] = task[v]
      BY <3>1, OneTaskMoves
    <3>3. /\ task'[w].at = "cached" /\ task'[w].stage = task[w].stage
          /\ task'[w].token = task[w].token /\ task'[w].source = f
      BY <1>2, <3>2 DEF Task
    <3>4. f \in Entities /\ stage[f].status = "succeeded" /\ CacheKey[f] = CacheKey[task[w].stage]
      BY DEF CacheSources
    <3>5. QED
      BY <1>1, <1>2, <2>4, <3>2, <3>3, <3>4 DEF TaskAgrees, KeepsToken, AttemptPoints, FindCacheHit
  <2>5. QED BY <2>1, <2>2, <2>3, <2>4
<1>4. \A v \in Workers : KeepsToken(v) /\ (task'[v] = task[v] \/ TaskAgrees(v)')
  BY <1>3 DEF KeepsToken
<1>5. LeavesRowsAlone
  BY <1>1, <1>4 DEF LeavesRowsAlone
<1>6. QED BY <1>5, RowsLeftAlone

LEMMA CreateGood ==
    ASSUME IInv, TypeOK', NEW r \in Runs, CreateRun(r) PROVE Good
<1> USE DEF IInv
<1>1. /\ \A e \in Entities : RunOf[e] = r => stage'[e] = NewStage
      /\ \A e \in Entities : RunOf[e] # r => stage'[e] = stage[e]
      /\ run'[r] = "pending" /\ run[r] = "absent" /\ \A q \in Runs : q # r => run'[q] = run[q]
      /\ UNCHANGED <<call, labelled, blocked, task>>
  BY DEF CreateRun, TypeOK
<1>2. \A e \in Entities : RunOf[e] = r =>
         stage[e].status = "absent" /\ stage[e].attempts = 0 /\ e \notin labelled
  BY <1>1 DEF StagesAgree, StageAgrees
<1>3. NewStage.status = "pending" /\ NewStage.attempts = 0
  BY DEF NewStage, NoStage
<1>4. Grows
  <2>1. \A e \in Entities : StageGrows(e)
    BY <1>1, <1>2, <1>3, Rows DEF StageGrows, Ended
  <2>2. QED BY <1>1, <2>1 DEF Grows, RunGrows, TerminalRun
<1>5. StagesAgree'
  <2>1. ASSUME NEW e \in Entities PROVE StageAgrees(e)'
    <3>1. RunOf[e] \in Runs
      BY Rows
    <3>2. QED BY <1>1, <1>2, <1>3, <3>1 DEF StagesAgree, StageAgrees, Ended
  <2>2. QED BY <2>1 DEF StagesAgree
<1>6. TasksAgree'
  BY <1>1, <1>4, TaskKept DEF TasksAgree
<1>7. TokensAreUnique'
  <2>1. \A w \in Workers : task[w].at \in AttemptPoints => task[w].stage \in Entities
    BY DEF AttemptPoints, TasksAgree, TaskAgrees
  <2>2. \A w \in Workers : KeepsToken(w)
    BY <1>1 DEF KeepsToken
  <2>3. QED BY <1>1, <1>3, <2>1, <2>2, TokensKept
<1>8. RunTellsStages'
  <2>1. \A q \in Runs : RunTells(q)'
    BY <1>1, <1>4, RunKept, OneByOne DEF RunTells, TerminalRun
  <2>2. QED BY <2>1 DEF RunTellsStages, RunTells
<1>9. GateStopsRun'
  <2>1. \A m \in Messages : Gated(m)'
    BY <1>1, <1>4, GateKept, OneByOne
  <2>2. QED BY <2>1 DEF GateStopsRun, Gated
<1>10. ResultIsTraceable'
  <2>1. ASSUME NEW e \in Entities PROVE Traceable(e)'
    <3>1. CASE stage[e].status = "succeeded"
      BY <1>1, <1>4, <3>1, TraceKept, OneByOne
    <3>2. CASE stage[e].status # "succeeded"
      BY <1>1, <1>3, <3>2 DEF Traceable
    <3>3. QED BY <3>1, <3>2
  <2>2. QED BY <2>1 DEF ResultIsTraceable, Traceable
<1>11. QED BY <1>4, <1>5, <1>6, <1>7, <1>8, <1>9, <1>10 DEF Good

\* What is left of the invariant when a step writes neither calls nor blocks, no
\* stage succeeds, and of the runs only r is written.
LEMMA TracesKept ==
    ASSUME IInv, Grows, UNCHANGED call,
           \A e \in Entities : stage'[e].status = "succeeded" => stage[e].status = "succeeded"
    PROVE  ResultIsTraceable'
<1>1. \A e \in Entities : Traceable(e)'
  <2>1. ASSUME NEW e \in Entities PROVE Traceable(e)'
    <3>1. CASE stage[e].status = "succeeded"
      BY <3>1, TraceKept, OneByOne DEF IInv
    <3>2. CASE stage'[e].status # "succeeded"
      BY <3>2 DEF Traceable
    <3>3. QED BY <3>1, <3>2
  <2>2. QED BY <2>1
<1>2. QED BY <1>1 DEF ResultIsTraceable, Traceable

LEMMA GatesKept == ASSUME IInv, Grows, UNCHANGED blocked PROVE GateStopsRun'
<1>1. \A m \in Messages : Gated(m)'
  BY GateKept, OneByOne DEF IInv
<1>2. QED BY <1>1 DEF GateStopsRun, Gated

LEMMA RunsKept ==
    ASSUME IInv, Grows, NEW r \in Runs, run'[r] = run[r] \/ RunTells(r)',
           \A q \in Runs : q # r => run'[q] = run[q]
    PROVE  RunTellsStages'
<1>1. \A q \in Runs : RunTells(q)'
  BY RunKept, OneByOne DEF IInv
<1>2. QED BY <1>1 DEF RunTellsStages, RunTells

\* What complete_analysis_run concludes is true of the stages.
LEMMA VerdictTells ==
    ASSUME NEW r \in Runs, NEW st, RunTells(r),
           \A e \in StagesOf(r) : st[e].status \in Active \cup Ended,
           \A e \in StagesOf(r) : st[e].status = "skipped_negative_gate"
                                  => blocked[MessageOf[r]] # None
    PROVE  /\ Verdict(st, r) \in TerminalRun => \A e \in StagesOf(r) : st[e].status \in Ended
           /\ Verdict(st, r) = "completed" => \A e \in StagesOf(r) : st[e].status = "succeeded"
           /\ Verdict(st, r) = "failed" => \E e \in StagesOf(r) : st[e].status = "failed"
           /\ Verdict(st, r) = "blocked_negative_gate" => blocked[MessageOf[r]] # None
           /\ Verdict(st, r) = "running" => \E e \in StagesOf(r) : st[e].status \in Active
<1> DEFINE statuses == {st[e].status : e \in StagesOf(r)}
<1>1. /\ statuses \cap Active # {} <=> \E e \in StagesOf(r) : st[e].status \in Active
      /\ "failed" \in statuses <=> \E e \in StagesOf(r) : st[e].status = "failed"
      /\ "skipped_negative_gate" \in statuses
           <=> \E e \in StagesOf(r) : st[e].status = "skipped_negative_gate"
  OBVIOUS
<1>2. Verdict(st, r) = IF statuses \cap Active # {} THEN "running"
                       ELSE IF "failed" \in statuses THEN "failed"
                       ELSE IF run[r] = "blocked_negative_gate" \/ "skipped_negative_gate" \in statuses
                            THEN "blocked_negative_gate"
                       ELSE "completed"
  BY DEF Verdict
<1> HIDE DEF statuses
<1>3. QED BY <1>1, <1>2 DEF Ended, TerminalRun, RunTells

LEMMA ClaimGood ==
    ASSUME IInv, TypeOK', NEW w \in Workers, NEW e \in Entities, ClaimStage(w, e)
    PROVE  Good
<1> USE DEF IInv
<1> DEFINE r == RunOf[e]
<1>1. /\ stage[e] \in Stage /\ stage[e].attempts \in Nat /\ r \in Runs
      /\ stage[e].status \in Active /\ run[r] \notin TerminalRun /\ run[r] # "absent"
  <2>1. stage[e] \in Stage /\ stage[e].attempts \in Nat /\ r \in Runs
    BY Rows
  <2>2. stage[e].status \in Active /\ run[r] \notin TerminalRun
    BY DEF ClaimStage, Claimable, Active
  <2>3. QED BY <2>1, <2>2 DEF StagesAgree, StageAgrees, Active
<1>2. stage' = [stage EXCEPT ![e] = [stage[e] EXCEPT !.status = "running", !.attempts = @ + 1,
                                                     !.timer = "set"]]
  BY DEF ClaimStage
<1>3. /\ stage'[e].status = "running" /\ stage'[e].attempts = stage[e].attempts + 1
      /\ \A f \in Entities : f # e => stage'[f] = stage[f]
  BY <1>1, <1>2 DEF TypeOK, Stage
<1>4. /\ task'[w].at = "load" /\ task'[w].stage = e /\ task'[w].token = stage[e].attempts + 1
      /\ \A v \in Workers : v # w => task'[v] = task[v]
  <2> DEFINE t == [Idle EXCEPT !.at = "load", !.stage = e, !.token = stage[e].attempts + 1]
  <2>1. t.at = "load" /\ t.stage = e /\ t.token = stage[e].attempts + 1
    BY DEF Idle
  <2>2. task' = [task EXCEPT ![w] = t]
    BY DEF ClaimStage
  <2>3. QED BY <2>1, <2>2, OneTaskMoves
<1>5. /\ run'[r] = "running" /\ \A q \in Runs : q # r => run'[q] = run[q]
      /\ UNCHANGED <<call, labelled, blocked>>
  BY <1>1 DEF ClaimStage, Deliver, TypeOK
<1>6. Grows
  <2>1. \A f \in Entities : StageGrows(f)
    BY <1>1, <1>3, <1>5, Rows DEF StageGrows, Ended, Active
  <2>2. QED BY <1>1, <1>5, <2>1 DEF Grows, RunGrows
<1>7. StagesAgree'
  <2>1. ASSUME NEW f \in Entities PROVE StageAgrees(f)'
    <3>1. RunOf[f] \in Runs
      BY Rows
    <3>2. run'[RunOf[f]] = "absent" <=> run[RunOf[f]] = "absent"
      BY <1>1, <1>5, <3>1
    <3>3. CASE f = e
      BY <1>1, <1>3, <1>5, <3>2, <3>3 DEF StagesAgree, StageAgrees, Active, Ended
    <3>4. CASE f # e
      BY <1>3, <1>5, <3>2, <3>4 DEF StagesAgree, StageAgrees
    <3>5. QED BY <3>3, <3>4
  <2>2. QED BY <2>1 DEF StagesAgree
<1>8. TasksAgree'
  <2>1. TaskAgrees(w)'
    BY <1>1, <1>3, <1>4, <1>5 DEF TaskAgrees, AttemptPoints
  <2>2. \A v \in Workers : v # w => TaskAgrees(v)'
    BY <1>4, <1>5, <1>6, TaskKept DEF TasksAgree
  <2>3. QED BY <2>1, <2>2 DEF TasksAgree
<1>9. TokensAreUnique'
  <2>1. ASSUME NEW v \in Workers, v # w, task'[v].at \in AttemptPoints
        PROVE  /\ task[v].stage \in Entities
               /\ task[v].stage = e => task[v].token # stage[e].attempts + 1
    <3>1. /\ task[v].stage \in Entities
          /\ task[v].token \in 1..stage[task[v].stage].attempts
      BY <1>4, <2>1 DEF TasksAgree, TaskAgrees, AttemptPoints
    <3>2. QED BY <1>1, <3>1
  <2>2. QED BY <1>3, <1>4, <2>1 DEF TokensAreUnique
<1>10. RunTellsStages'
  BY <1>1, <1>5, <1>6, RunsKept DEF RunTells, TerminalRun
<1>11. GateStopsRun' /\ ResultIsTraceable'
  BY <1>3, <1>5, <1>6, GatesKept, TracesKept
<1>12. QED BY <1>6, <1>7, <1>8, <1>9, <1>10, <1>11 DEF Good

\* A step that ends the stage e without a result, or puts it off; the task that
\* takes it, if there is one, has no token afterwards.
StageLeaves(e) ==
    /\ stage[e].status \in Active
    /\ \/ stage' = [stage EXCEPT ![e].status = "failed", ![e].timer = "none"]
       \/ stage' = [stage EXCEPT ![e].status = "retry_wait", ![e].timer = "set"]
    /\ UNCHANGED <<call, labelled, blocked>>
    /\ \A q \in Runs : q # RunOf[e] => run'[q] = run[q]
    /\ run'[RunOf[e]] = run[RunOf[e]] \/
          (run[RunOf[e]] \notin TerminalRun /\ run'[RunOf[e]] = Verdict(stage', RunOf[e]))
    /\ \A w \in Workers : task'[w] = task[w] \/ (TaskAgrees(w)' /\ task'[w].at \notin AttemptPoints)

LEMMA LeaveGood ==
    ASSUME IInv, TypeOK', NEW e \in Entities, StageLeaves(e) PROVE Good
<1> USE DEF IInv
<1> DEFINE r == RunOf[e]
<1>1. stage[e] \in Stage /\ stage[e].attempts \in Nat /\ r \in Runs /\ run[r] # "absent"
  BY Rows DEF StageLeaves, StagesAgree, StageAgrees, Active
<1>2. /\ stage'[e].status \in {"failed", "retry_wait"} /\ stage'[e].attempts = stage[e].attempts
      /\ stage'[e].status = "failed" => stage'[e].timer = "none"
      /\ \A f \in Entities : f # e => stage'[f] = stage[f]
  <2> DEFINE failed == [stage[e] EXCEPT !.status = "failed", !.timer = "none"]
             waiting == [stage[e] EXCEPT !.status = "retry_wait", !.timer = "set"]
  <2>1. /\ failed.status = "failed" /\ failed.timer = "none"
        /\ failed.attempts = stage[e].attempts
        /\ waiting.status = "retry_wait" /\ waiting.attempts = stage[e].attempts
    BY <1>1 DEF Stage
  <2>2. stage' = [stage EXCEPT ![e] = failed] \/ stage' = [stage EXCEPT ![e] = waiting]
    BY DEF StageLeaves
  <2> HIDE DEF failed, waiting
  <2>3. QED BY <2>1, <2>2 DEF TypeOK
<1>3. UNCHANGED <<call, labelled, blocked>> /\ stage[e].status \in Active
  BY DEF StageLeaves
<1>4. run'[r] = run[r] \/ (run[r] \notin TerminalRun /\ run'[r] \in {"running"} \cup TerminalRun)
  BY VerdictType DEF StageLeaves
<1>5. Grows
  <2>1. \A f \in Entities : StageGrows(f)
    BY <1>1, <1>2, <1>3, Rows DEF StageGrows, Ended, Active
  <2>2. \A q \in Runs : RunGrows(q)
    BY <1>1, <1>4 DEF StageLeaves, RunGrows, TerminalRun
  <2>3. QED BY <1>3, <2>1, <2>2 DEF Grows
<1>6. StagesAgree'
  <2>1. ASSUME NEW f \in Entities PROVE StageAgrees(f)'
    <3>1. RunOf[f] \in Runs
      BY Rows
    <3>2. run'[RunOf[f]] = "absent" <=> run[RunOf[f]] = "absent"
      BY <1>1, <1>4, <3>1 DEF StageLeaves, TerminalRun
    <3>3. CASE f = e
      BY <1>1, <1>2, <1>3, <3>2, <3>3 DEF StagesAgree, StageAgrees, Active, Ended
    <3>4. CASE f # e
      BY <1>2, <1>3, <3>2, <3>4 DEF StagesAgree, StageAgrees
    <3>5. QED BY <3>3, <3>4
  <2>2. QED BY <2>1 DEF StagesAgree
<1>7. TasksAgree'
  BY <1>3, <1>5, TaskKept DEF TasksAgree, StageLeaves
<1>8. TokensAreUnique'
  <2>1. \A w \in Workers : task[w].at \in AttemptPoints => task[w].stage \in Entities
    BY DEF AttemptPoints, TasksAgree, TaskAgrees
  <2>2. \A w \in Workers : KeepsToken(w)
    BY DEF KeepsToken, StageLeaves
  <2>3. QED BY <1>2, <2>1, <2>2, TokensKept DEF KeepsToken
<1>9. RunTellsStages'
  <2>1. \A f \in StagesOf(r) : stage'[f].status \in Active \cup Ended
    BY <1>1, <1>2, Rows DEF StagesOf, StagesAgree, StageAgrees, Active, Ended
  <2>2. \A f \in StagesOf(r) : stage'[f].status = "skipped_negative_gate"
                                  => blocked[MessageOf[r]] # None
    BY <1>2 DEF StagesOf, StagesAgree, StageAgrees
  <2>3. RunTells(r)
    BY <1>1, OneByOne
  <2>4. run'[r] = Verdict(stage', r) => RunTells(r)'
    BY <1>1, <1>3, <2>1, <2>2, <2>3, VerdictTells DEF RunTells, StagesOf
  <2>5. QED BY <1>1, <1>5, <2>4, RunsKept DEF StageLeaves
<1>10. GateStopsRun' /\ ResultIsTraceable'
  BY <1>2, <1>3, <1>5, GatesKept, TracesKept
<1>11. QED BY <1>5, <1>6, <1>7, <1>8, <1>9, <1>10 DEF Good

LEMMA ExhaustGood ==
    ASSUME IInv, TypeOK', NEW w \in Workers, NEW e \in Entities, ExhaustStage(w, e)
    PROVE  Good
<1>1. RunOf[e] \in Runs /\ run' = [run EXCEPT ![RunOf[e]] = Verdict(stage', RunOf[e])]
  BY Rows DEF ExhaustStage, IInv
<1>2. run'[RunOf[e]] = Verdict(stage', RunOf[e]) /\ \A q \in Runs : q # RunOf[e] => run'[q] = run[q]
  BY <1>1 DEF IInv, TypeOK
<1>3. StageLeaves(e)
  BY <1>2 DEF StageLeaves, ExhaustStage, Deliver, Claimable, Active
<1>4. QED BY <1>3, LeaveGood

LEMMA GiveUpGood ==
    ASSUME IInv, TypeOK', NEW w \in Workers, GiveUp(w) PROVE Good
<1> DEFINE e == task[w].stage
<1>1. e \in Entities /\ TaskAgrees(w) /\ run[RunOf[e]] # "absent"
  BY TaskHasStage DEF AttemptStep, IInv, TasksAgree
<1>2. /\ task'[w].at = "finish" /\ task'[w].stage = e
      /\ \A v \in Workers : v # w => task'[v] = task[v]
  <2> DEFINE t == [Idle EXCEPT !.at = "finish", !.stage = e]
  <2>1. t.at = "finish" /\ t.stage = e
    BY DEF Idle
  <2>2. task' = [task EXCEPT ![w] = t]
    BY DEF GiveUp, AfterFailure, WindUp
  <2>3. QED BY <2>1, <2>2, OneTaskMoves DEF IInv
<1>3. UNCHANGED <<run, call, labelled, blocked>>
  BY DEF GiveUp
<1>4. TaskAgrees(w)' /\ task'[w].at \notin AttemptPoints
  BY <1>1, <1>2, <1>3 DEF TaskAgrees, AttemptPoints
<1>5. \A v \in Workers : task'[v] = task[v] \/ (TaskAgrees(v)' /\ task'[v].at \notin AttemptPoints)
  BY <1>2, <1>4
<1>6. CASE UNCHANGED stage
  <2>1. LeavesRowsAlone
    BY <1>3, <1>5, <1>6 DEF LeavesRowsAlone, KeepsToken
  <2>2. QED BY <2>1, RowsLeftAlone
<1>7. CASE HoldsLease(w) /\ ~UNCHANGED stage
  <2>1. StageLeaves(e)
    BY <1>3, <1>5, <1>7 DEF StageLeaves, GiveUp, HoldsLease, Active
  <2>2. QED BY <1>1, <2>1, LeaveGood
<1>8. QED BY <1>6, <1>7 DEF GiveUp

\* The response of a call that leaves nothing to be retried says what is committed.
LEMMA ValidResponseSays ==
    ASSUME NEW response \in Responses, NEW e \in Entities,
           Validate(response, {TargetOf[e]}, TemplateOf[e]).retry = {}
    PROVE  Says(response, e, IF NegativeGateHit(Validate(response, {TargetOf[e]}, TemplateOf[e]))
                             THEN "negative" ELSE "clean")
<1> DEFINE t == TargetOf[e]
           template == TemplateOf[e]
           validation == Validate(response, {t}, template)
<1>1. IsPayload(response)
  BY AnalysisAssumption
<1>2. PICK i \in DOMAIN response.items :
         /\ \A j \in DOMAIN response.items : j # i => template.batch /\ response.items[j].target # t
         /\ validation.results = [u \in {t} |-> ResolveScores(response.items[i])]
  <2>1. CASE template.batch
    <3>1. validation = ValidateBatch(response, {t}, template)
      BY <2>1 DEF Validate
    <3>2. response.envelope = "results"
      BY <3>1 DEF ValidateBatch, WholePayloadFailure
    <3> DEFINE valid == ValidTargets(response, {t}, template)
    <3>3. /\ validation.results = [u \in valid |-> ResolveScores(ItemFor(response, u))]
          /\ validation.retry = {t} \ valid
      BY <3>1, <3>2 DEF ValidateBatch
    <3>4. valid = {t} /\ NamedOnce(response, t)
      BY <3>3 DEF ValidTargets
    <3>5. PICK i \in DOMAIN response.items : Naming(response, t) = {i}
      BY <3>4 DEF NamedOnce
    <3>6. ItemFor(response, t) = response.items[i]
      BY <3>5 DEF ItemFor
    <3>7. \A j \in DOMAIN response.items : j # i => response.items[j].target # t
      BY <3>5 DEF Naming
    <3>8. validation.results = [u \in {t} |-> ResolveScores(response.items[i])]
      BY <3>3, <3>4, <3>6
    <3>9. QED BY <2>1, <3>7, <3>8
  <2>2. CASE ~template.batch
    <3>1. validation = ValidateSingle(response, {t}, template)
      BY <2>2 DEF Validate
    <3>2. response.envelope = "result"
      BY <3>1 DEF ValidateSingle, WholePayloadFailure
    <3>3. DOMAIN response.items = {1}
      BY <1>1, <3>2 DEF IsPayload
    <3>4. validation.results = [u \in {t} |-> ResolveScores(response.items[1])]
      BY <3>1, <3>2 DEF ValidateSingle
    <3>5. QED BY <3>3, <3>4
  <2>3. QED BY <2>1, <2>2
<1>3. NegativeGateHit(validation) <=>
         \E label \in ResolveScores(response.items[i]) : label.activated /\ label.negative
  BY <1>2 DEF NegativeGateHit
<1>4. NegativeGateHit(validation) <=>
         \E match \in Values(response.items[i].scores) :
             match.label \in NegativeLabels /\ match.score >= Threshold[match.label]
  <2> DEFINE found == Values(response.items[i].scores)
             label(match) == [label |-> match.label,
                              activated |-> match.score >= Threshold[match.label],
                              negative |-> match.label \in NegativeLabels]
  <2>1. ResolveScores(response.items[i]) = {label(match) : match \in found}
    BY DEF ResolveScores
  <2>2. \A match \in found :
           /\ label(match).activated <=> match.score >= Threshold[match.label]
           /\ label(match).negative <=> match.label \in NegativeLabels
    BY Zenon
  <2> HIDE DEF label, found
  <2>3. NegativeGateHit(validation) <=>
           \E match \in found : label(match).activated /\ label(match).negative
    BY <1>3, <2>1
  <2>4. QED BY <2>2, <2>3 DEF found
<1>5. QED BY <1>2, <1>4 DEF Says

\* No other task and no stage with a result looks at the call that w writes.
LEMMA CallIsOwn ==
    ASSUME IInv, NEW w \in Workers, task[w].at \in AttemptPoints,
           NEW e \in Entities, NEW k
    PROVE  /\ \A v \in Workers : v # w /\ task[v].at \in AttemptPoints
              => task[v].stage # task[w].stage \/ task[v].token # task[w].token
           /\ stage[e].status = "succeeded" /\ stage[e].source = None
              => e # task[w].stage \/ stage[e].call # task[w].token
<1>1. \A v \in Workers : v # w /\ task[v].at \in AttemptPoints
              => task[v].stage # task[w].stage \/ task[v].token # task[w].token
  BY DEF IInv, TokensAreUnique
<1>2. Traceable(e)
  BY OneByOne DEF IInv
<1>3. stage[e].status = "succeeded" /\ stage[e].source = None
              => e # task[w].stage \/ stage[e].call # task[w].token
  BY <1>2 DEF Traceable, IInv, TokensAreUnique
<1>4. QED BY <1>1, <1>3

\* A step of w that writes the call of its attempt and moves w on.
CallMoves(w) ==
    LET e == task[w].stage
    IN /\ task[w].at \in AttemptPoints
       /\ \A f \in Entities : \A k \in Attempts(f) :
             f # e \/ k # task[w].token => call'[f][k] = call[f][k]
       /\ \A f \in Entities : f # e => stage'[f] = stage[f]
       /\ \/ stage'[e] = stage[e]
          \/ stage[e].status = "running" /\ stage'[e] = [stage[e] EXCEPT !.call = task[w].token]
       /\ UNCHANGED <<run, labelled, blocked>>
       /\ TaskAgrees(w)' /\ KeepsToken(w)
       /\ \A v \in Workers : v # w => task'[v] = task[v]

LEMMA CallGood ==
    ASSUME IInv, TypeOK', NEW w \in Workers, CallMoves(w) PROVE Good
<1> USE DEF IInv
<1> DEFINE e == task[w].stage
<1>1. e \in Entities /\ task[w].at \in AttemptPoints /\ UNCHANGED <<run, labelled, blocked>>
  BY DEF CallMoves, TasksAgree, TaskAgrees, AttemptPoints
<1>2. \A f \in Entities :
         /\ stage'[f].status = stage[f].status /\ stage'[f].attempts = stage[f].attempts
         /\ stage'[f].timer = stage[f].timer
         /\ stage[f].status \in Ended => stage'[f] = stage[f]
  <2>1. /\ stage'[e].status = stage[e].status /\ stage'[e].attempts = stage[e].attempts
        /\ stage'[e].timer = stage[e].timer
        /\ stage[e].status \in Ended => stage'[e] = stage[e]
    BY <1>1, Rows DEF CallMoves, Stage, Ended
  <2>2. QED BY <2>1 DEF CallMoves
<1>3. Grows
  BY <1>1, <1>2, Rows DEF Grows, StageGrows, RunGrows
<1>4. StagesAgree'
  BY <1>1, <1>2 DEF StagesAgree, StageAgrees
<1>5. TasksAgree'
  <2>1. ASSUME NEW v \in Workers, v # w, task[v].at = "commit"
        PROVE  call'[task[v].stage][task[v].token] = call[task[v].stage][task[v].token]
    <3>1. task[v].at \in AttemptPoints /\ task[v].stage \in Entities
      BY <2>1 DEF AttemptPoints, TasksAgree, TaskAgrees
    <3>2. task[v].stage # e \/ task[v].token # task[w].token
      BY <1>1, <2>1, <3>1, CallIsOwn
    <3>3. task[v].token \in Attempts(task[v].stage)
      BY <3>1, Rows DEF TasksAgree, TaskAgrees, Attempts
    <3>4. QED BY <3>1, <3>2, <3>3 DEF CallMoves
  <2>2. \A v \in Workers : v # w => TaskAgrees(v)'
    BY <1>3, <2>1, TaskKept DEF TasksAgree, CallMoves
  <2>3. QED BY <2>2 DEF TasksAgree, CallMoves
<1>6. TokensAreUnique'
  <2>1. \A v \in Workers : task[v].at \in AttemptPoints => task[v].stage \in Entities
    BY DEF AttemptPoints, TasksAgree, TaskAgrees
  <2>2. \A v \in Workers : KeepsToken(v)
    BY DEF KeepsToken, CallMoves
  <2>3. QED BY <1>2, <2>1, <2>2, TokensKept DEF KeepsToken
<1>7. RunTellsStages'
  BY <1>1, <1>3, RunsKept, Rows
<1>8. GateStopsRun'
  BY <1>1, <1>3, GatesKept
<1>9. ResultIsTraceable'
  <2>1. ASSUME NEW f \in Entities PROVE Traceable(f)'
    <3>1. CASE stage[f].status = "succeeded"
      <4>1. Traceable(f)
        BY OneByOne
      <4>2. ASSUME stage[f].source = None
            PROVE  call'[f][stage[f].call] = call[f][stage[f].call]
        <5>1. stage[f].call \in Attempts(f)
          BY <3>1, <4>1, <4>2 DEF Traceable
        <5>2. f # e \/ stage[f].call # task[w].token
          BY <1>1, <3>1, <4>2, CallIsOwn
        <5>3. QED BY <5>1, <5>2 DEF CallMoves
      <4>3. QED BY <1>3, <3>1, <4>1, <4>2, TraceKept
    <3>2. CASE stage[f].status # "succeeded"
      BY <1>2, <3>2 DEF Traceable
    <3>3. QED BY <3>1, <3>2
  <2>2. QED BY <2>1 DEF ResultIsTraceable, Traceable
<1>10. QED BY <1>3, <1>4, <1>5, <1>6, <1>7, <1>8, <1>9 DEF Good

LEMMA InferenceGood ==
    ASSUME IInv, TypeOK', NEW w \in Workers,
           StartInference(w) \/ InferenceSucceeds(w) \/ InferenceFails(w)
    PROVE  Good
<1> DEFINE e == task[w].stage
           k == task[w].token
<1>1. /\ e \in Entities /\ TaskAgrees(w) /\ task[w] \in Task /\ run[RunOf[e]] # "absent"
      /\ stage \in [Entities -> Stage] /\ stage[e] \in Stage
      /\ task[w].at \in {"start", "invoke"} /\ task[w].at \in AttemptPoints
      /\ DOMAIN call = Entities /\ \A f \in Entities : call[f] \in [Attempts(f) -> Call]
  <2>1. e \in Entities /\ TaskAgrees(w) /\ run[RunOf[e]] # "absent"
    BY TaskHasStage DEF AttemptStep, IInv, TasksAgree
  <2>2. task[w].at \in {"start", "invoke"} /\ task[w].at \in AttemptPoints
    BY DEF StartInference, InferenceSucceeds, InferenceFails, RecordCall, AttemptPoints
  <2>3. QED BY <2>1, <2>2 DEF IInv, TypeOK
<1>2. k \in Attempts(e)
  BY <1>1, Rows DEF TaskAgrees, Attempts, IInv
<1>3. CASE StartInference(w) /\ ~HoldsLease(w)
  <2>1. task'[w] = Idle /\ \A v \in Workers : v # w => task'[v] = task[v]
    BY <1>3, OneTaskMoves DEF StartInference, EndTask, IInv
  <2>2. TaskAgrees(w)' /\ KeepsToken(w)
    BY <2>1 DEF TaskAgrees, KeepsToken, AttemptPoints, Idle
  <2>3. LeavesRowsAlone
    BY <1>3, <2>1, <2>2 DEF LeavesRowsAlone, StartInference, KeepsToken
  <2>4. QED BY <2>3, RowsLeftAlone
<1>4. CASE StartInference(w) /\ HoldsLease(w)
  <2>1. stage' = [stage EXCEPT ![e] = [stage[e] EXCEPT !.call = k]]
    BY <1>4 DEF StartInference
  <2>2. stage'[e] = [stage[e] EXCEPT !.call = k] /\ \A f \in Entities : f # e => stage'[f] = stage[f]
    BY <1>1, <2>1
  <2>3. \A f \in Entities : \A j \in Attempts(f) : f # e \/ j # k => call'[f][j] = call[f][j]
    BY <1>1, <1>4 DEF StartInference
  <2>4. task' = [task EXCEPT ![w] = [task[w] EXCEPT !.at = "invoke"]]
    BY <1>4 DEF StartInference, MoveTo
  <2>5. task'[w] = [task[w] EXCEPT !.at = "invoke"] /\ \A v \in Workers : v # w => task'[v] = task[v]
    BY <2>4, OneTaskMoves DEF IInv
  <2>6. task'[w].at = "invoke" /\ task'[w].stage = e /\ task'[w].token = k
    BY <1>1, <2>5 DEF Task
  <2>7. stage'[e].attempts = stage[e].attempts
    BY <1>1, <2>2 DEF Stage
  <2>8. UNCHANGED <<run, labelled, blocked>> /\ stage[e].status = "running"
    BY <1>4 DEF StartInference, HoldsLease
  <2>9. TaskAgrees(w)' /\ KeepsToken(w)
    BY <1>1, <2>6, <2>7, <2>8 DEF TaskAgrees, KeepsToken, AttemptPoints
  <2>10. CallMoves(w)
    BY <1>1, <2>2, <2>3, <2>5, <2>8, <2>9 DEF CallMoves
  <2>11. QED BY <2>10, CallGood
<1>5. ASSUME NEW status, NEW response, RecordCall(w, status, response)
      PROVE  /\ \A f \in Entities : \A j \in Attempts(f) : f # e \/ j # k => call'[f][j] = call[f][j]
             /\ call'[e][k] = [status |-> status, response |-> response]
             /\ UNCHANGED <<run, stage, labelled, blocked>>
  BY <1>1, <1>2, <1>5 DEF RecordCall
<1>6. ASSUME NEW t, task' = [task EXCEPT ![w] = t], t.stage = e, t.token = k,
             UNCHANGED <<run, stage, labelled, blocked>>,
             \A f \in Entities : \A j \in Attempts(f) : f # e \/ j # k => call'[f][j] = call[f][j],
             \/ t.at = "give up"
             \/ /\ t.at = "commit"
                /\ call'[e][k].status = "succeeded"
                /\ Says(call'[e][k].response, e, t.result)
      PROVE  Good
  <2>1. task'[w] = t /\ \A v \in Workers : v # w => task'[v] = task[v]
    BY <1>6, OneTaskMoves DEF IInv
  <2>2. TaskAgrees(w)' /\ KeepsToken(w)
    BY <1>1, <1>6, <2>1 DEF TaskAgrees, KeepsToken, AttemptPoints
  <2>3. CallMoves(w)
    BY <1>1, <1>6, <2>1, <2>2 DEF CallMoves
  <2>4. QED BY <2>3, CallGood
<1>7. CASE InferenceFails(w)
  <2>1. PICK again \in BOOLEAN :
           task' = [task EXCEPT ![w] = [task[w] EXCEPT !.at = "give up", !.retryable = again]]
    BY <1>7 DEF InferenceFails
  <2> DEFINE t == [task[w] EXCEPT !.at = "give up", !.retryable = again]
  <2>2. t.at = "give up" /\ t.stage = e /\ t.token = k
    BY <1>1 DEF Task
  <2>3. RecordCall(w, "failed", None)
    BY <1>7 DEF InferenceFails
  <2>4. QED BY <1>5, <1>6, <2>1, <2>2, <2>3
<1>8. CASE InferenceSucceeds(w)
  <2> DEFINE validation(response) == Validate(response, {TargetOf[e]}, TemplateOf[e])
             result(response) == IF NegativeGateHit(validation(response)) THEN "negative" ELSE "clean"
             committed(response) == [task[w] EXCEPT !.at = "commit", !.result = result(response)]
             retried == [task[w] EXCEPT !.at = "give up", !.retryable = TRUE]
  <2>1. PICK response \in Responses :
           /\ RecordCall(w, "succeeded", response)
           /\ task' = IF validation(response).retry = {}
                      THEN [task EXCEPT ![w] = committed(response)]
                      ELSE [task EXCEPT ![w] = retried]
    BY <1>8 DEF InferenceSucceeds
  <2>2. CASE validation(response).retry = {}
    <3>1. Says(response, e, result(response))
      BY <1>1, <2>2, ValidResponseSays
    <3>2. /\ committed(response).at = "commit" /\ committed(response).stage = e
          /\ committed(response).token = k /\ committed(response).result = result(response)
      BY <1>1 DEF Task
    <3>3. task' = [task EXCEPT ![w] = committed(response)]
      BY <2>1, <2>2
    <3>4. call'[e][k].status = "succeeded" /\ call'[e][k].response = response
      <4>1. call'[e][k] = [status |-> "succeeded", response |-> response]
        BY <1>5, <2>1
      <4>2. QED BY <4>1
    <3>5. UNCHANGED <<run, stage, labelled, blocked>>
          /\ \A f \in Entities : \A j \in Attempts(f) : f # e \/ j # k => call'[f][j] = call[f][j]
      BY <1>5, <2>1
    <3> DEFINE t == committed(response)
    <3>6. /\ t.at = "commit" /\ t.stage = e /\ t.token = k
          /\ Says(call'[e][k].response, e, t.result)
          /\ task' = [task EXCEPT ![w] = t]
      BY <3>1, <3>2, <3>3, <3>4
    <3> HIDE DEF t
    <3>7. QED BY <1>6, <3>4, <3>5, <3>6
  <2>3. CASE validation(response).retry # {}
    <3>1. retried.at = "give up" /\ retried.stage = e /\ retried.token = k
      BY <1>1 DEF Task
    <3>2. task' = [task EXCEPT ![w] = retried]
      BY <2>1, <2>3
    <3>3. QED BY <1>5, <1>6, <2>1, <3>1, <3>2
  <2>4. QED BY <2>2, <2>3
<1>9. QED BY <1>3, <1>4, <1>7, <1>8

LEMMA CommitGood ==
    ASSUME IInv, TypeOK', NEW w \in Workers, CommitCacheHit(w) \/ CommitResult(w)
    PROVE  Good
<1> USE DEF IInv
<1> DEFINE e == task[w].stage
<1>1. /\ e \in Entities /\ TaskAgrees(w) /\ run[RunOf[e]] # "absent" /\ RunOf[e] \in Runs
      /\ stage \in [Entities -> Stage] /\ stage[e] \in Stage
      /\ task[w].at \in {"cached", "commit"} /\ task[w].at \in AttemptPoints
  <2>1. e \in Entities /\ TaskAgrees(w) /\ run[RunOf[e]] # "absent"
    BY TaskHasStage DEF AttemptStep, TasksAgree
  <2>2. task[w].at \in {"cached", "commit"} /\ task[w].at \in AttemptPoints
    BY DEF CommitCacheHit, CommitResult, AttemptPoints
  <2>3. QED BY <2>1, <2>2, Rows
<1>2. /\ task'[w].at \in {"gate", "finish"} /\ task'[w].stage = e
      /\ task'[w].at = "gate" => e \in labelled'
      /\ \A v \in Workers : v # w => task'[v] = task[v]
  <2>1. PICK p \in {"gate", "finish"} : WindUp(w, p) /\ (p = "gate" => e \in labelled')
    BY DEF CommitCacheHit, CommitResult, AfterCommit
  <2> DEFINE t == [Idle EXCEPT !.at = p, !.stage = e]
  <2>2. t.at = p /\ t.stage = e
    BY DEF Idle
  <2>3. task' = [task EXCEPT ![w] = t]
    BY <2>1 DEF WindUp
  <2> HIDE DEF t
  <2>4. QED BY <2>1, <2>2, <2>3, OneTaskMoves
<1>3. UNCHANGED <<run, call, blocked>>
  BY DEF CommitCacheHit, CommitResult
<1>4. KeepsToken(w) /\ TaskAgrees(w)'
  BY <1>1, <1>2, <1>3 DEF KeepsToken, TaskAgrees, AttemptPoints
<1>5. CASE UNCHANGED <<stage, labelled>>
  <2>1. LeavesRowsAlone
    BY <1>2, <1>3, <1>4, <1>5 DEF LeavesRowsAlone, KeepsToken
  <2>2. QED BY <2>1, RowsLeftAlone
<1>6. ASSUME HoldsLease(w), NEW result, NEW source \in Entities \cup {None},
             NEW isNegative, Succeed(e, result, source, isNegative),
             source = None =>
                /\ stage[e].call = task[w].token
                /\ call[e][task[w].token].status = "succeeded"
                /\ Says(call[e][task[w].token].response, e, result),
             source # None =>
                /\ stage[source].status = "succeeded" /\ stage[source].result = result
                /\ CacheKey[source] = CacheKey[e]
      PROVE  Good
  <2>1. stage[e].status = "running" /\ stage[e].attempts = task[w].token /\ stage[e].attempts \in Nat
    BY <1>1, <1>6, Rows DEF HoldsLease
  <2> DEFINE row == [stage[e] EXCEPT !.status = "succeeded", !.timer = "none",
                                     !.result = result, !.source = source,
                                     !.call = IF source = None THEN @ ELSE 0]
  <2>2. stage' = [stage EXCEPT ![e] = row]
    BY <1>6 DEF Succeed
  <2>3. /\ row.status = "succeeded" /\ row.timer = "none" /\ row.attempts = stage[e].attempts
        /\ row.result = result /\ row.source = source
        /\ row.call = IF source = None THEN stage[e].call ELSE 0
    BY <1>1 DEF Stage
  <2> HIDE DEF row
  <2>4. stage'[e] = row /\ \A f \in Entities : f # e => stage'[f] = stage[f]
    BY <1>1, <2>2
  <2>5. labelled' = labelled \/ labelled' = labelled \cup {e}
    BY <1>6 DEF Succeed, Label
  <2>6. Grows
    <3>1. \A f \in Entities : StageGrows(f)
      BY <2>1, <2>3, <2>4, <2>5, Rows DEF StageGrows, Ended
    <3>2. QED BY <1>3, <3>1 DEF Grows, RunGrows
  <2>7. StagesAgree'
    <3>1. ASSUME NEW f \in Entities PROVE StageAgrees(f)'
      <4>1. CASE f = e
        BY <1>1, <1>3, <2>1, <2>3, <2>4, <2>5, <4>1 DEF StageAgrees, StagesAgree, Ended
      <4>2. CASE f # e
        BY <1>3, <2>4, <2>5, <4>2 DEF StageAgrees, StagesAgree
      <4>3. QED BY <4>1, <4>2
    <3>2. QED BY <3>1 DEF StagesAgree
  <2>8. TasksAgree'
    BY <1>2, <1>3, <1>4, <2>6, TaskKept DEF TasksAgree
  <2>9. TokensAreUnique'
    <3>1. ASSUME NEW v \in Workers, v # w, task[v].at \in AttemptPoints
          PROVE  task[v].stage \in Entities /\ (task[v].stage = e => task[v].token # stage[e].attempts)
      BY <1>1, <2>1, <3>1 DEF TasksAgree, TaskAgrees, TokensAreUnique, AttemptPoints
    <3>2. task'[w].at \notin AttemptPoints
      BY <1>2 DEF AttemptPoints
    <3>3. QED BY <1>2, <2>3, <2>4, <3>1, <3>2 DEF TokensAreUnique
  <2>10. RunTellsStages' /\ GateStopsRun'
    BY <1>1, <1>3, <2>6, RunsKept, GatesKept
  <2>11. ResultIsTraceable'
    <3>1. ASSUME NEW f \in Entities PROVE Traceable(f)'
      <4>1. CASE f # e /\ stage[f].status = "succeeded"
        BY <1>3, <2>6, <4>1, TraceKept, OneByOne
      <4>2. CASE f # e /\ stage[f].status # "succeeded"
        BY <2>4, <4>2 DEF Traceable
      <4>3. CASE f = e /\ source = None
        <5>1. task[w].token \in Attempts(e)
          BY <1>1, Rows DEF TaskAgrees, Attempts
        <5>2. QED BY <1>3, <1>6, <2>1, <2>3, <2>4, <4>3, <5>1 DEF Traceable, Attempts
      <4>4. CASE f = e /\ source # None
        <5>1. source # e /\ source \in Entities
          BY <1>6, <2>1, <4>4
        <5>2. stage'[source] = stage[source]
          BY <2>4, <5>1
        <5>3. QED BY <1>6, <2>3, <2>4, <4>4, <5>2 DEF Traceable
      <4>5. QED BY <4>1, <4>2, <4>3, <4>4
    <3>2. QED BY <3>1 DEF ResultIsTraceable, Traceable
  <2>12. QED BY <2>6, <2>7, <2>8, <2>9, <2>10, <2>11 DEF Good
<1>7. CASE CommitCacheHit(w) /\ HoldsLease(w)
  <2> DEFINE f == task[w].source
  <2>1. f \in Entities /\ f # None /\ stage[f].status = "succeeded" /\ CacheKey[f] = CacheKey[e]
    BY <1>7, Rows, <1>1 DEF TaskAgrees, CommitCacheHit
  <2>2. Succeed(e, stage[f].result, f, f \in labelled)
    BY <1>7 DEF CommitCacheHit
  <2>3. QED BY <1>6, <1>7, <2>1, <2>2
<1>8. CASE CommitResult(w) /\ MayCommit(w)
  <2>1. /\ stage[e].call = task[w].token /\ HoldsLease(w)
        /\ call[e][task[w].token].status = "succeeded"
        /\ Says(call[e][task[w].token].response, e, task[w].result)
    BY <1>1, <1>8 DEF MayCommit, TaskAgrees, CommitResult
  <2>2. Succeed(e, task[w].result, None, task[w].result = "negative")
    BY <1>8 DEF CommitResult
  <2>3. QED BY <1>6, <2>1, <2>2
<1>9. QED BY <1>5, <1>7, <1>8 DEF CommitCacheHit, CommitResult

LEMMA GateGood ==
    ASSUME IInv, TypeOK', NEW w \in Workers, ApplyGate(w) PROVE Good
<1> USE DEF IInv
<1>0. PICK e \in Entities, r \in Runs, m \in Messages :
         e = task[w].stage /\ r = RunOf[e] /\ m = MessageOf[r]
  BY Rows, TaskHasStage DEF AttemptStep
<1>1. /\ RunOf[e] = r /\ MessageOf[r] = m /\ run[r] # "absent"
      /\ e \in labelled /\ task[w].at = "gate"
  BY <1>0, TaskHasStage DEF AttemptStep, ApplyGate, TasksAgree, TaskAgrees
<1>2. /\ run'[r] = "blocked_negative_gate" /\ \A q \in Runs : q # r => run'[q] = run[q]
      /\ blocked'[m] = IF blocked[m] = None THEN e ELSE blocked[m]
      /\ \A n \in Messages : n # m => blocked'[n] = blocked[n]
      /\ blocked'[m] # None
      /\ UNCHANGED <<call, labelled>>
  BY <1>0, Rows DEF ApplyGate, TypeOK
<1>3. /\ task'[w].at = "finish" /\ task'[w].stage = e
      /\ \A v \in Workers : v # w => task'[v] = task[v]
  <2> DEFINE t == [Idle EXCEPT !.at = "finish", !.stage = e]
  <2>1. t.at = "finish" /\ t.stage = e
    BY DEF Idle
  <2>2. task' = [task EXCEPT ![w] = t]
    BY <1>0 DEF ApplyGate, WindUp
  <2>3. QED BY <2>1, <2>2, OneTaskMoves
<1>4. ASSUME NEW f \in Remaining(r)
      PROVE  /\ f \in Entities /\ RunOf[f] = r /\ stage[f].status \in Active
             /\ stage'[f].status = "skipped_negative_gate" /\ stage'[f].timer = "none"
             /\ stage'[f].attempts = stage[f].attempts
  <2>1. f \in Entities /\ RunOf[f] = r /\ stage[f].status \in Active
    BY DEF Remaining, StagesOf
  <2>2. stage'[f] = [stage[f] EXCEPT !.status = "skipped_negative_gate", !.timer = "none"]
    BY <1>0, <2>1 DEF ApplyGate
  <2>3. QED BY <2>1, <2>2, Rows DEF Stage
<1>5. \A f \in Entities : f \notin Remaining(r) => stage'[f] = stage[f]
  BY <1>0 DEF ApplyGate
<1>6. Grows
  <2>1. \A f \in Entities : StageGrows(f)
    BY <1>2, <1>4, <1>5, Rows DEF StageGrows, Active, Ended
  <2>2. QED BY <1>1, <1>2, <2>1 DEF Grows, RunGrows, TerminalRun
<1>7. StagesAgree'
  <2>1. ASSUME NEW f \in Entities PROVE StageAgrees(f)'
    <3>1. RunOf[f] \in Runs /\ MessageOf[RunOf[f]] \in Messages
      BY Rows
    <3>2. run'[RunOf[f]] = "absent" <=> run[RunOf[f]] = "absent"
      BY <1>1, <1>2, <3>1
    <3>3. blocked[MessageOf[RunOf[f]]] # None => blocked'[MessageOf[RunOf[f]]] # None
      BY <1>2, <3>1
    <3>4. CASE f \in Remaining(r)
      BY <1>1, <1>2, <1>4, <3>2, <3>4 DEF StagesAgree, StageAgrees, Active, Ended
    <3>5. CASE f \notin Remaining(r)
      BY <1>2, <1>5, <3>2, <3>3, <3>5 DEF StagesAgree, StageAgrees
    <3>6. QED BY <3>4, <3>5
  <2>2. QED BY <2>1 DEF StagesAgree
<1>8. TasksAgree'
  <2>1. TaskAgrees(w)'
    BY <1>1, <1>2, <1>3 DEF TaskAgrees, AttemptPoints
  <2>2. \A v \in Workers : v # w => TaskAgrees(v)'
    BY <1>2, <1>3, <1>6, TaskKept DEF TasksAgree
  <2>3. QED BY <2>1, <2>2 DEF TasksAgree
<1>9. \A f \in Entities : stage'[f].status = "succeeded" => stage'[f] = stage[f]
  BY <1>4, <1>5
<1>10. TokensAreUnique'
  <2>1. \A v \in Workers : task[v].at \in AttemptPoints => task[v].stage \in Entities
    BY DEF AttemptPoints, TasksAgree, TaskAgrees
  <2>2. \A v \in Workers : KeepsToken(v)
    BY <1>3 DEF KeepsToken, AttemptPoints
  <2>3. QED BY <1>9, <2>1, <2>2, TokensKept DEF KeepsToken
<1>11. \A f \in StagesOf(r) : stage'[f].status \in Ended
  <2>1. \A f \in StagesOf(r) : f \in Entities /\ RunOf[f] = r /\ stage[f].status \in Active \cup Ended
    BY <1>1, Rows DEF StagesOf, StagesAgree, StageAgrees
  <2>2. \A f \in StagesOf(r) : f \notin Remaining(r) => stage[f].status \in Ended
    BY <2>1 DEF Remaining
  <2>3. QED BY <1>4, <1>5, <2>1, <2>2 DEF Ended
<1>12. RunTellsStages'
  <2>1. RunTells(r)'
    BY <1>1, <1>2, <1>11 DEF RunTells, StagesOf
  <2>2. QED BY <1>1, <1>2, <1>6, <2>1, RunsKept
<1>13. GateStopsRun'
  <2>1. ASSUME NEW n \in Messages PROVE Gated(n)'
    <3>1. CASE blocked'[n] = blocked[n]
      BY <1>6, <3>1, GateKept, OneByOne
    <3>2. CASE blocked'[n] # blocked[n]
      <4>1. n = m /\ blocked'[n] = e
        BY <1>2, <3>2
      <4>2. \A f \in StagesOf(r) : stage'[f].status \notin Active
        BY <1>11 DEF Active, Ended
      <4>3. QED BY <1>1, <1>2, <4>1, <4>2 DEF Gated, StagesOf
    <3>3. QED BY <3>1, <3>2
  <2>2. QED BY <2>1 DEF GateStopsRun, Gated
<1>14. ResultIsTraceable'
  BY <1>2, <1>6, <1>9, TracesKept
<1>15. QED BY <1>6, <1>7, <1>8, <1>10, <1>12, <1>13, <1>14 DEF Good

LEMMA CompleteGood ==
    ASSUME IInv, TypeOK', NEW w \in Workers, CompleteRun(w) PROVE Good
<1> USE DEF IInv
<1>1. PICK r \in Runs : r = RunOf[task[w].stage] /\ run[r] # "absent"
  BY Rows, TaskHasStage DEF AttemptStep
<1>2. /\ run'[r] = Verdict(stage, r) /\ \A q \in Runs : q # r => run'[q] = run[q]
      /\ UNCHANGED <<stage, call, labelled, blocked>>
  BY <1>1 DEF CompleteRun, TypeOK
<1>3. task'[w].at = "idle" /\ \A v \in Workers : v # w => task'[v] = task[v]
  <2>1. task'[w] = Idle /\ \A v \in Workers : v # w => task'[v] = task[v]
    BY OneTaskMoves DEF CompleteRun, EndTask
  <2>2. QED BY <2>1 DEF Idle
<1>4. RunTells(r)
  BY <1>1, OneByOne
<1>5. /\ \A e \in StagesOf(r) : stage[e].status \in Active \cup Ended
      /\ \A e \in StagesOf(r) : stage[e].status = "skipped_negative_gate"
                                  => blocked[MessageOf[r]] # None
  BY <1>1, Rows DEF StagesOf, StagesAgree, StageAgrees
<1>6. RunTells(r)' /\ (run[r] \in TerminalRun => run'[r] \in TerminalRun) /\ run'[r] # "absent"
  <2>1. RunTells(r)'
    BY <1>1, <1>2, <1>4, <1>5, VerdictTells DEF RunTells, StagesOf
  <2>2. run[r] \in TerminalRun => run'[r] # "running"
    BY <1>1, <1>2, <1>4, <1>5, VerdictTells DEF RunTells, Active, Ended
  <2>3. run'[r] \in {"running"} \cup TerminalRun
    BY <1>2, VerdictType
  <2>4. QED BY <2>1, <2>2, <2>3 DEF TerminalRun
<1>7. Grows
  <2>1. \A f \in Entities : StageGrows(f)
    BY <1>2, Rows DEF StageGrows
  <2>2. QED BY <1>2, <1>6, <2>1 DEF Grows, RunGrows
<1>8. StagesAgree'
  <2>1. \A f \in Entities : run'[RunOf[f]] = "absent" <=> run[RunOf[f]] = "absent"
    BY <1>1, <1>2, <1>6, Rows
  <2>2. QED BY <1>2, <2>1 DEF StagesAgree, StageAgrees
<1>9. TasksAgree'
  <2>1. TaskAgrees(w)'
    BY <1>3 DEF TaskAgrees, AttemptPoints
  <2>2. \A v \in Workers : v # w => TaskAgrees(v)'
    BY <1>2, <1>3, <1>7, TaskKept DEF TasksAgree
  <2>3. QED BY <2>1, <2>2 DEF TasksAgree
<1>10. TokensAreUnique'
  <2>1. \A v \in Workers : KeepsToken(v)
    BY <1>3 DEF KeepsToken, AttemptPoints
  <2>2. QED BY <1>2, <2>1, TokensKept
<1>11. RunTellsStages' /\ GateStopsRun' /\ ResultIsTraceable'
  BY <1>1, <1>2, <1>6, <1>7, RunsKept, GatesKept, TracesKept
<1>12. QED BY <1>7, <1>8, <1>9, <1>10, <1>11 DEF Good

-----------------------------------------------------------------------------
(* The invariant *)

LEMMA IInvInit == Init => IInv
<1> SUFFICES ASSUME Init PROVE IInv
  OBVIOUS
<1>1. TypeOK
  BY TypeInit
<1>2. StagesAgree
  BY AnalysisAssumption DEF Init, StagesAgree, StageAgrees, NoStage, Active, Ended
<1>3. TasksAgree /\ TokensAreUnique
  BY DEF Init, TasksAgree, TaskAgrees, TokensAreUnique, AttemptPoints, Idle
<1>4. RunTellsStages /\ GateStopsRun /\ ResultIsTraceable
  BY DEF Init, RunTellsStages, GateStopsRun, ResultIsTraceable, TerminalRun, NoStage
<1>5. QED BY <1>1, <1>2, <1>3, <1>4 DEF IInv

LEMMA StepIsGood == IInv /\ [Next]_vars => Good /\ TypeOK'
<1> SUFFICES ASSUME IInv, [Next]_vars PROVE Good /\ TypeOK'
  OBVIOUS
<1>1. TypeOK'
  BY TypeNext DEF IInv
<1>2. CASE Environment
  <2>1. CASE \E r \in Runs : CreateRun(r)
    BY <1>1, <2>1, CreateGood
  <2>2. CASE \E e \in Entities : StageTimerElapses(e)
    BY <1>1, <2>2, TimerGood
  <2>3. CASE \E e \in Entities : WakeupBecomesDue(e) \/ DeliveryFails(e)
    BY <1>1, <2>3, QuietGood DEF WakeupBecomesDue, DeliveryFails
  <2>4. QED BY <1>2, <2>1, <2>2, <2>3 DEF Environment
<1>3. CASE \E s \in Schedulers : SchedulerStep(s)
  BY <1>1, <1>3, QuietGood DEF SchedulerStep, BeginDispatch, CycleAborts, DispatchStep
<1>4. CASE \E w \in Workers : \E e \in Entities : StartTask(w, e)
  <2> PICK w \in Workers, e \in Entities : StartTask(w, e)
    BY <1>4
  <2>1. CASE NothingToClaim(w, e)
    BY <1>1, <2>1, QuietGood DEF NothingToClaim, Deliver, analysisVars
  <2>2. QED BY <1>1, <2>1, ClaimGood, ExhaustGood DEF StartTask
<1>5. CASE \E w \in Workers : AttemptStep(w) \/ WorkerDies(w)
  BY <1>1, <1>5, TaskGood, InferenceGood, CommitGood, GiveUpGood, GateGood, CompleteGood
     DEF AttemptStep
<1>6. CASE UNCHANGED vars
  BY <1>1, <1>6, QuietGood DEF vars
<1>7. QED BY <1>2, <1>3, <1>4, <1>5, <1>6 DEF Next, WorkerStep

LEMMA IInvNext == IInv /\ [Next]_vars => IInv'
BY StepIsGood DEF IInv, Good

LEMMA Invariance == Spec => []IInv
BY IInvInit, IInvNext, PTL DEF Spec

(* The rows of the analysis tables and the variables of a task have the     *)
(* values their columns admit; in particular no stage is claimed more often *)
(* than max_attempts allows.                                                *)
THEOREM TypeCorrect == Spec => []TypeOK
<1>1. IInv => TypeOK
  BY DEF IInv
<1>2. QED BY Invariance, <1>1, PTL

(* The status of a run that is over is true of its stages, although stages  *)
(* are committed, given up and skipped by transactions that do not lock the *)
(* run.                                                                     *)
THEOREM RunStatusIsTrue == Spec => []RunTellsStages
<1>1. IInv => RunTellsStages
  BY DEF IInv
<1>2. QED BY Invariance, <1>1, PTL

(* Once the gate has blocked a message, the run that blocked it has no work *)
(* left, and the cause is a stage whose negative label is stored.           *)
THEOREM GateStopsTheRun == Spec => []GateStopsRun
<1>1. IInv => GateStopsRun
  BY DEF IInv
<1>2. QED BY Invariance, <1>1, PTL

(* A result comes from the recorded response of the attempt that committed  *)
(* it, which says it, or from a stage with the same key and result, however *)
(* many attempts overlap.                                                   *)
THEOREM ResultsAreTraceable == Spec => []ResultIsTraceable
<1>1. IInv => ResultIsTraceable
  BY DEF IInv
<1>2. QED BY Invariance, <1>1, PTL

(* Stages that ended, with result and labels, terminal runs and the cause   *)
(* of a block stay as they are.                                             *)
THEOREM WhatIsOverStays == Spec => OverIsOver
<1> DEFINE Step ==
      /\ \A e \in Entities : stage[e].status \in Ended =>
            stage'[e] = stage[e] /\ (e \in labelled' => e \in labelled)
      /\ \A r \in Runs : run[r] \in TerminalRun => run'[r] \in TerminalRun
      /\ \A m \in Messages : blocked[m] # None => blocked'[m] = blocked[m]
<1>1. IInv /\ [Next]_vars => [Step]_vars
  BY StepIsGood DEF Good, Grows, StageGrows, RunGrows
<1>2. QED BY <1>1, Invariance, PTL DEF Spec, OverIsOver

-----------------------------------------------------------------------------
(* Loose ends *)

LEMMA VerdictOfEnded ==
    ASSUME NEW st, NEW r, \A e \in StagesOf(r) : st[e].status \in Ended
    PROVE  Verdict(st, r) \in TerminalRun
<1>1. {st[e].status : e \in StagesOf(r)} \cap Active = {}
  BY DEF Active, Ended
<1>2. QED BY <1>1 DEF Verdict, TerminalRun

\* Somebody is about to apply the gate to message m, or to bring run r up to date.
GateHeld(m) == \E w \in Workers : task[w].at = "gate" /\ MessageOf[RunOf[task[w].stage]] = m

RunHeld(r) == \E w \in Workers : task[w].at \in {"gate", "finish"} /\ RunOf[task[w].stage] = r

\* A task at one of its last two transactions is still there after the step, or
\* the step is that transaction.
LEMMA TaskStays ==
    ASSUME IInv, DiesAt \cap {"gate", "finish"} = {}, [Next]_vars,
           NEW w \in Workers, task[w].at \in {"gate", "finish"}
    PROVE  task'[w] = task[w] \/ ApplyGate(w) \/ CompleteRun(w)
<1>1. CASE Environment \/ (\E s \in Schedulers : SchedulerStep(s)) \/ UNCHANGED vars
  BY <1>1
     DEF Environment, CreateRun, WakeupBecomesDue, DeliveryFails, StageTimerElapses, SchedulerStep,
         BeginDispatch, CycleAborts, DispatchStep, analysisVars, vars
<1>2. CASE \E v \in Workers : v # w /\ WorkerStep(v)
  <2> PICK v \in Workers : v # w /\ WorkerStep(v)
    BY <1>2
  <2>1. UNCHANGED task \/ \E t : task' = [task EXCEPT ![v] = t]
    <3>1. CASE \E e \in Entities : StartTask(v, e)
      BY <3>1 DEF StartTask, ClaimStage, ExhaustStage, NothingToClaim
    <3>2. CASE WorkerDies(v)
      BY <3>2 DEF WorkerDies, EndTask
    <3>3. CASE Load(v) \/ LoadFails(v) \/ FindCacheHit(v)
      BY <3>3 DEF Load, LoadFails, FindCacheHit, MoveTo
    <3>4. CASE CommitCacheHit(v) \/ CommitResult(v) \/ GiveUp(v)
      BY <3>4 DEF CommitCacheHit, CommitResult, GiveUp, AfterFailure, AfterCommit, WindUp
    <3>5. CASE StartInference(v) \/ InferenceSucceeds(v) \/ InferenceFails(v)
      BY <3>5 DEF StartInference, InferenceSucceeds, InferenceFails, MoveTo, EndTask
    <3>6. CASE ApplyGate(v) \/ CompleteRun(v)
      BY <3>6 DEF ApplyGate, CompleteRun, WindUp, EndTask
    <3>7. QED BY <3>1, <3>2, <3>3, <3>4, <3>5, <3>6 DEF WorkerStep, AttemptStep
  <2>2. QED BY <2>1 DEF IInv, TypeOK
<1>3. CASE WorkerStep(w)
  <2>1. task[w] # Idle
    BY DEF Idle
  <2>2. QED
    BY <1>3, <2>1
       DEF WorkerStep, StartTask, ClaimStage, ExhaustStage, NothingToClaim, Deliver, WorkerDies,
           AttemptStep, Load, LoadFails, FindCacheHit, CommitCacheHit, StartInference,
           InferenceSucceeds, InferenceFails, RecordCall, CommitResult, GiveUp
<1>4. QED BY <1>1, <1>2, <1>3 DEF Next

\* What WindUp leaves of a task.
LEMMA WoundUp ==
    ASSUME IInv, NEW w \in Workers, NEW point, WindUp(w, point)
    PROVE  task'[w].at = point /\ task'[w].stage = task[w].stage
<1> DEFINE t == [Idle EXCEPT !.at = point, !.stage = task[w].stage]
<1>1. t.at = point /\ t.stage = task[w].stage
  BY DEF Idle
<1>2. task' = [task EXCEPT ![w] = t]
  BY DEF WindUp
<1> HIDE DEF t
<1>3. QED BY <1>1, <1>2, OneTaskMoves DEF IInv

\* Who stores a label goes on to the gate.
LEMMA LabelledBy ==
    ASSUME IInv, [Next]_vars, NEW e \in labelled' \ labelled
    PROVE  GateHeld(MessageOf[RunOf[e]])'
<1>1. PICK w \in Workers : CommitCacheHit(w) \/ CommitResult(w)
  BY DEF Next, vars, analysisVars, Environment, CreateRun, WakeupBecomesDue, DeliveryFails,
         StageTimerElapses, SchedulerStep, BeginDispatch, CycleAborts, DispatchStep, WorkerStep,
         StartTask, ClaimStage, ExhaustStage, NothingToClaim, Deliver, WorkerDies, AttemptStep, Load,
         LoadFails, FindCacheHit, StartInference, InferenceSucceeds, InferenceFails, RecordCall,
         GiveUp, ApplyGate, CompleteRun
<1>2. e = task[w].stage
  BY <1>1 DEF CommitCacheHit, CommitResult, Succeed, Label
<1>3. WindUp(w, "gate")
  BY <1>1, <1>2 DEF CommitCacheHit, CommitResult, AfterCommit
<1>4. QED BY <1>2, <1>3, WoundUp DEF GateHeld

\* Who ends a stage goes on to its run, or has brought it up to date.
LEMMA EndedBy ==
    ASSUME IInv, [Next]_vars, NEW e \in Entities,
           stage[e].status \notin Ended, stage'[e].status \in Ended
    PROVE  \/ RunHeld(RunOf[e])'
           \/ run'[RunOf[e]] = Verdict(stage', RunOf[e])
<1> USE DEF IInv
<1>1. CASE Environment
  <2>1. stage'[e].status = stage[e].status \/ stage'[e].status = "pending"
    BY <1>1, Rows
       DEF Environment, CreateRun, NewStage, NoStage, WakeupBecomesDue, DeliveryFails,
           StageTimerElapses, analysisVars, Stage
  <2>2. QED BY <2>1 DEF Ended
<1>2. CASE (\E s \in Schedulers : SchedulerStep(s)) \/ UNCHANGED vars
  BY <1>2 DEF SchedulerStep, BeginDispatch, CycleAborts, DispatchStep, analysisVars, vars
<1>3. ASSUME NEW w \in Workers, NEW f \in Entities, StartTask(w, f)
      PROVE  run'[RunOf[e]] = Verdict(stage', RunOf[e])
  <2>1. ExhaustStage(w, f) /\ f = e
    <3>1. CASE ClaimStage(w, f)
      <4>1. stage'[e] = stage[e] \/ stage'[e].status = "running"
        BY <3>1, Rows DEF ClaimStage, Stage
      <4>2. QED BY <4>1 DEF Ended
    <3>2. QED BY <1>3, <3>1, Rows DEF StartTask, ExhaustStage, NothingToClaim
  <2>2. QED BY <2>1, Rows DEF ExhaustStage, TypeOK
<1>4. ASSUME NEW w \in Workers, AttemptStep(w) \/ WorkerDies(w)
      PROVE  RunHeld(RunOf[e])'
  <2>1. CASE CommitCacheHit(w) \/ CommitResult(w)
    <3>1. e = task[w].stage
      BY <2>1, Rows DEF CommitCacheHit, CommitResult, Succeed
    <3>2. WindUp(w, "gate") \/ WindUp(w, "finish")
      BY <2>1 DEF CommitCacheHit, CommitResult, AfterCommit
    <3>3. QED BY <3>1, <3>2, WoundUp DEF RunHeld
  <2>2. CASE GiveUp(w)
    <3>1. e = task[w].stage
      BY <2>2, Rows DEF GiveUp
    <3>2. WindUp(w, "finish")
      BY <2>2 DEF GiveUp, AfterFailure
    <3>3. QED BY <3>1, <3>2, WoundUp DEF RunHeld
  <2>3. CASE ApplyGate(w)
    <3>1. RunOf[e] = RunOf[task[w].stage]
      BY <2>3 DEF ApplyGate, Remaining, StagesOf
    <3>2. WindUp(w, "finish")
      BY <2>3 DEF ApplyGate
    <3>3. QED BY <3>1, <3>2, WoundUp DEF RunHeld
  <2>4. CASE StartInference(w)
    <3>1. stage'[e].status = stage[e].status
      BY <2>4, Rows DEF StartInference, Stage
    <3>2. QED BY <3>1
  <2>5. CASE UNCHANGED stage
    BY <2>5
  <2>6. QED
    BY <1>4, <2>1, <2>2, <2>3, <2>4, <2>5
       DEF AttemptStep, WorkerDies, Load, LoadFails, FindCacheHit, InferenceSucceeds, InferenceFails,
           RecordCall, CompleteRun
<1>5. QED BY <1>1, <1>2, <1>3, <1>4 DEF Next, WorkerStep

LEMMA LooseEndsNext ==
    ASSUME DiesAt \cap {"gate", "finish"} = {}, \A r \in Runs : StagesOf(r) # {},
           IInv, LooseEndsAreHeld, [Next]_vars
    PROVE  LooseEndsAreHeld'
<1>1. Grows /\ TypeOK' /\ IInv'
  BY StepIsGood, IInvNext DEF Good
<1>2. ASSUME NEW e \in labelled', blocked'[MessageOf[RunOf[e]]] = None
      PROVE  GateHeld(MessageOf[RunOf[e]])'
  <2> DEFINE m == MessageOf[RunOf[e]]
  <2>1. e \in Entities /\ m \in Messages
    BY <1>1, AnalysisAssumption DEF TypeOK
  <2>2. blocked[m] = None
    BY <1>1, <1>2, <2>1 DEF Grows
  <2>3. CASE e \notin labelled
    BY <2>3, LabelledBy
  <2>4. CASE e \in labelled
    <3>1. PICK w \in Workers : task[w].at = "gate" /\ MessageOf[RunOf[task[w].stage]] = m
      BY <2>2, <2>4 DEF LooseEndsAreHeld
    <3>2. ~ApplyGate(w)
      <4>1. SUFFICES ASSUME ApplyGate(w) PROVE FALSE
        OBVIOUS
      <4>2. task[w].stage \in Entities
        BY <3>1 DEF IInv, TasksAgree, TaskAgrees
      <4>3. blocked'[m] = task[w].stage
        BY <2>1, <2>2, <3>1, <4>1 DEF ApplyGate, IInv, TypeOK
      <4>4. QED BY <1>2, <4>2, <4>3, Rows DEF IInv
    <3>3. ~CompleteRun(w)
      BY <3>1 DEF CompleteRun
    <3>4. task'[w] = task[w]
      BY <3>1, <3>2, <3>3, TaskStays
    <3>5. QED BY <3>1, <3>4 DEF GateHeld
  <2>5. QED BY <2>3, <2>4
<1>3. ASSUME NEW r \in Runs, run'[r] \notin {"absent"} \cup TerminalRun,
             \A e \in StagesOf(r) : stage'[e].status \in Ended
      PROVE  RunHeld(r)'
  <2>1. run'[r] # Verdict(stage', r)
    BY <1>3, VerdictOfEnded
  <2>2. CASE \E e \in StagesOf(r) : stage[e].status \notin Ended
    BY <1>3, <2>1, <2>2, EndedBy DEF StagesOf
  <2>3. CASE \A e \in StagesOf(r) : stage[e].status \in Ended
    <3>1. run[r] \notin {"absent"} \cup TerminalRun
      <4>1. run[r] # "absent"
        BY <2>3 DEF IInv, StagesAgree, StageAgrees, StagesOf, Ended
      <4>2. QED BY <1>1, <1>3, <4>1 DEF Grows, RunGrows
    <3>2. PICK w \in Workers : task[w].at \in {"gate", "finish"} /\ RunOf[task[w].stage] = r
      BY <2>3, <3>1 DEF LooseEndsAreHeld
    <3>3. CASE task'[w] = task[w]
      BY <3>2, <3>3 DEF RunHeld
    <3>4. CASE ApplyGate(w)
      <4>1. WindUp(w, "finish")
        BY <3>4 DEF ApplyGate
      <4>2. QED BY <3>2, <4>1, WoundUp DEF RunHeld
    <3>5. CASE CompleteRun(w)
      <4>1. run'[r] = Verdict(stage, r)
        BY <3>2, <3>5 DEF CompleteRun, IInv, TypeOK
      <4>2. QED BY <1>3, <2>3, <4>1, VerdictOfEnded
    <3>6. QED BY <3>2, <3>3, <3>4, <3>5, TaskStays
  <2>4. QED BY <2>2, <2>3
<1>4. QED BY <1>2, <1>3 DEF LooseEndsAreHeld, GateHeld, RunHeld, StagesOf

(* Where no process dies between a commit and the end of its task, and      *)
(* every run has a stage, a gate that is due has a task that will apply it, *)
(* and a run whose stages have all ended has one that will complete it.     *)
THEOREM LooseEndsHaveATask ==
    ASSUME DiesAt \cap {"gate", "finish"} = {}, \A r \in Runs : StagesOf(r) # {}
    PROVE  Spec => []LooseEndsAreHeld
<1>1. Init => LooseEndsAreHeld
  BY DEF Init, LooseEndsAreHeld
<1>2. IInv /\ LooseEndsAreHeld /\ [Next]_vars => LooseEndsAreHeld'
  BY LooseEndsNext
<1>3. QED BY <1>1, <1>2, Invariance, PTL DEF Spec

=============================================================================
