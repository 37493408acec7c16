--------------------------- MODULE AnalysisStages ---------------------------
(***************************************************************************)
(* The analysis engine: runs and their stages, delivered to workers by the *)
(* dispatcher of DurableWakeups.  A worker leases a stage, loads it, takes *)
(* a cached result or calls the inference provider, and then, each in a    *)
(* transaction of its own, commits the result, applies the negative gate   *)
(* to the message, and brings the run up to date with its stages.          *)
(* Entities are the rows of stage_runs.                                    *)
(*                                                                         *)
(* What a response says is the business of ResponseValidation.  Of a       *)
(* result only this matters here: whether one of its labels is activated   *)
(* and negative.  Stages have equal cache keys when their versions and     *)
(* inputs are equal, which CacheKey decides beforehand.                    *)
(*                                                                         *)
(* The lease token is fresh per claim, and so is the attempt number that   *)
(* the claim writes, which stands for it; inference calls are told apart   *)
(* by the attempt that started them.                                       *)
(***************************************************************************)
EXTENDS DurableWakeups, ResponseValidation

CONSTANTS
    Workers,        \* Celery worker slots
    Runs,           \* analysis_runs
    TestRuns,       \* those whose run_mode is test
    RunOf,          \* run of a stage
    Messages,       \* messages under analysis
    MessageOf,      \* message of a run
    TargetOf,       \* target_id of a stage
    TemplateOf,     \* its stage template version
    Responses,      \* what a provider may answer
    CacheKey,       \* semantic cache key of a stage, None without a cache policy
    MaxAttempts,    \* max_attempts of a stage
    DiesAt          \* the points of a task at which its process may die

TaskPoints == {"load", "lookup", "cached", "start", "invoke", "commit", "give up",
               "gate", "finish"}

ASSUME AnalysisAssumption ==
    /\ MaxAttempts \in [Entities -> Nat \ {0}]
    /\ TestRuns \subseteq Runs
    /\ RunOf \in [Entities -> Runs]
    /\ MessageOf \in [Runs -> Messages]
    /\ TargetOf \in [Entities -> Targets]
    /\ TemplateOf \in [Entities -> Template]
    /\ \A payload \in Responses : IsPayload(payload)
    /\ None \notin Responses
    /\ DOMAIN CacheKey = Entities
    /\ DiesAt \subseteq TaskPoints

VARIABLES
    run,        \* analysis_runs.status
    stage,      \* stage_runs
    call,       \* call[e][k]: inference_calls of attempt k of e
    labelled,   \* stages with a stored activated negative label assignment
    blocked,    \* messages.blocked_by_stage_run_id
    task        \* task[w]: the attempt w is making

analysisVars == <<run, stage, call, labelled, blocked, task>>
vars == <<wakeupVars, analysisVars>>

-----------------------------------------------------------------------------
(* Rows and tasks *)

Active == {"pending", "running", "retry_wait"}
Ended == {"succeeded", "failed", "skipped_negative_gate"}
TerminalRun == {"completed", "blocked_negative_gate", "failed"}
Attempts(e) == 1..MaxAttempts[e]

\* call is the attempt whose inference_call_id the row has, 0 for NULL.  Nothing
\* writes the status skipped_condition yet.
Stage == [status : {"absent"} \cup Active \cup Ended, attempts : Nat,
          timer : Timer, call : Nat, result : {"none", "clean", "negative"},
          source : Entities \cup {None}]

Call == [status : {"none", "pending", "succeeded", "failed"},
         response : Responses \cup {None}]

NoCall == [status |-> "none", response |-> None]

NoStage == [status |-> "absent", attempts |-> 0, timer |-> "none", call |-> 0,
            result |-> "none", source |-> None]
NewStage == [NoStage EXCEPT !.status = "pending"]

Task == [at : {"idle"} \cup TaskPoints, stage : Entities \cup {None},
         token : Nat, source : Entities \cup {None},
         result : {"none", "clean", "negative"}, retryable : BOOLEAN]

Idle == [at |-> "idle", stage |-> None, token |-> 0, source |-> None,
         result |-> "none", retryable |-> FALSE]

StagesOf(r) == {e \in Entities : RunOf[e] = r}

Init ==
    /\ WakeupInit
    /\ run = [r \in Runs |-> "absent"]
    /\ stage = [e \in Entities |-> NoStage]
    /\ call = [e \in Entities |-> [k \in Attempts(e) |-> NoCall]]
    /\ labelled = {}
    /\ blocked = [m \in Messages |-> None]
    /\ task = [w \in Workers |-> Idle]

-----------------------------------------------------------------------------
(* Dispatcher, broker and clocks; creation of a run *)

\* A run with its stages and their wake-ups.
CreateRun(r) ==
    /\ run[r] = "absent"
    /\ run' = [run EXCEPT ![r] = "pending"]
    /\ stage' = [e \in Entities |-> IF RunOf[e] = r THEN NewStage ELSE stage[e]]
    /\ wakeup' = [e \in Entities |-> IF RunOf[e] = r THEN NewWakeup ELSE wakeup[e]]
    /\ UNCHANGED <<inFlight, claims, sending, call, labelled, blocked, task>>

BeginDispatch(s) == (\E S \in SUBSET Entities : ClaimDue(s, S)) /\ UNCHANGED analysisVars

DispatchStep(s, e) ==
    /\ Dispatch(s, e) \/ DispatchFails(s, e) \/ ReleaseClaim(s, e)
    /\ UNCHANGED analysisVars

CycleAborts(s) == ~NothingClaimed(s) /\ ForgetClaims(s) /\ UNCHANGED analysisVars

WakeupBecomesDue(e) == WakeupTimerElapses(e) /\ UNCHANGED analysisVars

DeliveryFails(e) == LoseMessage(e) /\ UNCHANGED analysisVars

\* next_retry_at or lease_expires_at passes.
StageTimerElapses(e) ==
    /\ stage[e].timer = "set"
    /\ stage' = [stage EXCEPT ![e].timer = "elapsed"]
    /\ UNCHANGED <<wakeupVars, run, call, labelled, blocked, task>>

\* The wake-up of each stage in S, whatever its status.
CloseWakeups(S) ==
    wakeup' = [e \in Entities |-> IF e \in S THEN CompletedWakeup ELSE wakeup[e]]

RescheduleWakeup(e) == wakeup' = [wakeup EXCEPT ![e] = RescheduledWakeup]

-----------------------------------------------------------------------------
(* Claiming a stage *)

Claimable(e) ==
    \/ stage[e].status = "pending"
    \/ stage[e].status \in {"retry_wait", "running"} /\ stage[e].timer = "elapsed"

\* Fault: max_attempts is not looked at.
AttemptsUnlimited(e) == TRUE

AttemptsLeft(e) == stage[e].attempts < MaxAttempts[e]

\* Fault: only stages that have been started keep a run open.
VerdictOfStarted(st, r) ==
    LET statuses == {st[e].status : e \in StagesOf(r)}
    IN IF statuses \cap {"running", "retry_wait"} # {} THEN "running"
       ELSE IF "failed" \in statuses THEN "failed"
       ELSE IF run[r] = "blocked_negative_gate" \/ "skipped_negative_gate" \in statuses
            THEN "blocked_negative_gate"
       ELSE "completed"

\* The status of run r that its stages st amount to.
Verdict(st, r) ==
    LET statuses == {st[e].status : e \in StagesOf(r)}
    IN IF statuses \cap Active # {} THEN "running"
       ELSE IF "failed" \in statuses THEN "failed"
       ELSE IF run[r] = "blocked_negative_gate" \/ "skipped_negative_gate" \in statuses
            THEN "blocked_negative_gate"
       ELSE "completed"

Deliver(w, e) ==
    /\ task[w] = Idle
    /\ TakeMessage(e)
    /\ UNCHANGED <<claims, sending, call, labelled, blocked>>

ClaimStage(w, e) ==
    /\ Deliver(w, e)
    /\ Claimable(e)
    /\ run[RunOf[e]] \notin TerminalRun
    /\ AttemptsLeft(e)
    /\ stage' = [stage EXCEPT ![e].status = "running", ![e].attempts = @ + 1,
                              ![e].timer = "set"]
    /\ run' = [run EXCEPT ![RunOf[e]] = "running"]
    /\ task' = [task EXCEPT ![w] = [Idle EXCEPT !.at = "load", !.stage = e,
                                                !.token = stage[e].attempts + 1]]
    /\ UNCHANGED wakeup

\* Fault: the exhausted stage leaves the run to others.
ExhaustOnly(w, e) ==
    /\ Deliver(w, e)
    /\ Claimable(e)
    /\ run[RunOf[e]] \notin TerminalRun
    /\ ~AttemptsLeft(e)
    /\ stage' = [stage EXCEPT ![e].status = "failed", ![e].timer = "none"]
    /\ CloseWakeups({e})
    /\ UNCHANGED <<run, task>>

\* The claim that finds the attempts used up ends the stage, and with the last
\* stage the run.
ExhaustStage(w, e) ==
    /\ Deliver(w, e)
    /\ Claimable(e)
    /\ run[RunOf[e]] \notin TerminalRun
    /\ ~AttemptsLeft(e)
    /\ stage' = [stage EXCEPT ![e].status = "failed", ![e].timer = "none"]
    /\ run' = [run EXCEPT ![RunOf[e]] = Verdict(stage', RunOf[e])]
    /\ CloseWakeups({e})
    /\ UNCHANGED task

\* The stage is not due, ended or locked, or its run is terminal.
NothingToClaim(w, e) ==
    /\ Deliver(w, e)
    /\ UNCHANGED <<wakeup, run, stage, task>>

-----------------------------------------------------------------------------
(* An attempt *)

\* Fault: the token without the status.
HoldsToken(w) == stage[task[w].stage].attempts = task[w].token

\* A row that is running under the task's token.  Its deadline is compared with
\* the time at which the task began, before which it cannot lie.
HoldsLease(w) ==
    /\ stage[task[w].stage].status = "running"
    /\ stage[task[w].stage].attempts = task[w].token

MoveTo(w, point) == task' = [task EXCEPT ![w].at = point]

\* What is left needs the stage's run only.
WindUp(w, point) ==
    task' = [task EXCEPT ![w] = [Idle EXCEPT !.at = point, !.stage = task[w].stage]]

EndTask(w) == task' = [task EXCEPT ![w] = Idle]

Load(w) ==
    /\ task[w].at = "load"
    /\ HoldsLease(w)
    /\ MoveTo(w, IF CacheKey[task[w].stage] = None THEN "start" ELSE "lookup")
    /\ UNCHANGED <<wakeupVars, run, stage, call, labelled, blocked>>

\* The lease is lost, the inputs cannot be built, or something else fails.
LoadFails(w) ==
    /\ task[w].at = "load"
    /\ \E again \in BOOLEAN :
          task' = [task EXCEPT ![w].at = "give up", ![w].retryable = again]
    /\ UNCHANGED <<wakeupVars, run, stage, call, labelled, blocked>>

\* Fault: a stage that ended without a result is taken for a source.
EndedSources(e) ==
    {f \in Entities \ {e} : CacheKey[f] = CacheKey[e] /\ stage[f].status \in Ended}

\* Other stages with a result under the same key.
CacheSources(e) ==
    {f \in Entities \ {e} : CacheKey[f] = CacheKey[e] /\ stage[f].status = "succeeded"}

FindCacheHit(w) ==
    /\ task[w].at = "lookup"
    /\ \/ /\ CacheSources(task[w].stage) = {}
          /\ MoveTo(w, "start")
       \/ \E f \in CacheSources(task[w].stage) :
             task' = [task EXCEPT ![w].at = "cached", ![w].source = f]
    /\ UNCHANGED <<wakeupVars, run, stage, call, labelled, blocked>>

\* The label assignments after e succeeds, when it is to store a negative one.
Label(e, isNegative) ==
    IF isNegative /\ RunOf[e] \notin TestRuns THEN labelled \cup {e} ELSE labelled

\* The row e of a committed result, its wake-up and its labels.
Succeed(e, result, source, isNegative) ==
    /\ stage' = [stage EXCEPT ![e].status = "succeeded", ![e].timer = "none",
                              ![e].result = result, ![e].source = source,
                              ![e].call = IF source = None THEN @ ELSE 0]
    /\ labelled' = Label(e, isNegative)
    /\ CloseWakeups({e})

\* Fault: a run without further stages is not gated.
GateIfWorkIsLeft(w) ==
    LET e == task[w].stage
    IN WindUp(w, IF e \in labelled' \ labelled
                    /\ \E f \in StagesOf(RunOf[e]) : stage'[f].status \in Active
                 THEN "gate"
                 ELSE "finish")

\* What a committed stage leads to.
AfterCommit(w) ==
    WindUp(w, IF task[w].stage \in labelled' \ labelled THEN "gate" ELSE "finish")

CommitCacheHit(w) ==
    LET e == task[w].stage
        f == task[w].source
    IN /\ task[w].at = "cached"
       /\ IF HoldsLease(w)
          THEN Succeed(e, stage[f].result, f, f \in labelled)
          ELSE UNCHANGED <<stage, labelled, wakeup>>
       /\ AfterCommit(w)
       /\ UNCHANGED <<inFlight, claims, sending, run, call, blocked>>

\* The audit row is there, and linked to the stage, before the provider is called.
StartInference(w) ==
    LET e == task[w].stage
    IN /\ task[w].at = "start"
       /\ IF HoldsLease(w)
          THEN /\ stage' = [stage EXCEPT ![e].call = task[w].token]
               /\ call' = [call EXCEPT ![e][task[w].token].status = "pending"]
               /\ MoveTo(w, "invoke")
          ELSE EndTask(w) /\ UNCHANGED <<stage, call>>
       /\ UNCHANGED <<wakeupVars, run, labelled, blocked>>

\* The outcome of the call is recorded whether or not the lease still stands.
RecordCall(w, status, response) ==
    /\ task[w].at = "invoke"
    /\ call' = [call EXCEPT ![task[w].stage][task[w].token] =
                   [status |-> status, response |-> response]]
    /\ UNCHANGED <<wakeupVars, run, stage, labelled, blocked>>

\* A stage run has one target, which the response gives a result or leaves to be
\* retried.
InferenceSucceeds(w) ==
    \E response \in Responses :
        LET e == task[w].stage
            validation == Validate(response, {TargetOf[e]}, TemplateOf[e])
            result == IF NegativeGateHit(validation) THEN "negative" ELSE "clean"
        IN /\ RecordCall(w, "succeeded", response)
           /\ task' = IF validation.retry = {}
                      THEN [task EXCEPT ![w].at = "commit", ![w].result = result]
                      ELSE [task EXCEPT ![w].at = "give up", ![w].retryable = TRUE]

InferenceFails(w) ==
    /\ RecordCall(w, "failed", None)
    /\ \E again \in BOOLEAN :
          task' = [task EXCEPT ![w].at = "give up", ![w].retryable = again]

\* Fault: a result is committed to a stage that runs, under whichever lease.
MayCommitRunning(w) == stage[task[w].stage].status = "running"

MayCommit(w) == HoldsLease(w) /\ stage[task[w].stage].call = task[w].token

CommitResult(w) ==
    /\ task[w].at = "commit"
    /\ IF MayCommit(w)
       THEN Succeed(task[w].stage, task[w].result, None, task[w].result = "negative")
       ELSE UNCHANGED <<stage, labelled, wakeup>>
    /\ AfterCommit(w)
    /\ UNCHANGED <<inFlight, claims, sending, run, call, blocked>>

\* Fault: a failed attempt leaves the run to others.
AfterFailureNothing(w) == EndTask(w)

AfterFailure(w) == WindUp(w, "finish")

\* retry_or_fail_claim and retry_or_fail_targets.
GiveUp(w) ==
    LET e == task[w].stage
        again == task[w].retryable /\ AttemptsLeft(e)
    IN /\ task[w].at = "give up"
       /\ \/ /\ HoldsLease(w) /\ again
             /\ stage' = [stage EXCEPT ![e].status = "retry_wait", ![e].timer = "set"]
             /\ RescheduleWakeup(e)
          \/ /\ HoldsLease(w) /\ ~again
             /\ stage' = [stage EXCEPT ![e].status = "failed", ![e].timer = "none"]
             /\ CloseWakeups({e})
          \/ /\ ~HoldsLease(w)
             /\ UNCHANGED <<stage, wakeup>>
       /\ AfterFailure(w)
       /\ UNCHANGED <<inFlight, claims, sending, run, call, labelled, blocked>>

-----------------------------------------------------------------------------
(* The gate and the end of a run *)

\* Fault: a stage that another worker is busy with is left to it.
WaitingStages(r) == {e \in StagesOf(r) : stage[e].status \in {"pending", "retry_wait"}}

\* The stages of run r that the gate skips.
Remaining(r) == {e \in StagesOf(r) : stage[e].status \in Active}

ApplyGate(w) ==
    LET e == task[w].stage
        r == RunOf[e]
        m == MessageOf[r]
    IN /\ task[w].at = "gate"
       /\ blocked' = IF blocked[m] = None THEN [blocked EXCEPT ![m] = e] ELSE blocked
       /\ stage' = [f \in Entities |->
                      IF f \in Remaining(r)
                      THEN [stage[f] EXCEPT !.status = "skipped_negative_gate", !.timer = "none"]
                      ELSE stage[f]]
       /\ CloseWakeups(Remaining(r))
       /\ run' = [run EXCEPT ![r] = "blocked_negative_gate"]
       /\ WindUp(w, "finish")
       /\ UNCHANGED <<inFlight, claims, sending, call, labelled>>

CompleteRun(w) ==
    /\ task[w].at = "finish"
    /\ run' = [run EXCEPT ![RunOf[task[w].stage]] = Verdict(stage, RunOf[task[w].stage])]
    /\ EndTask(w)
    /\ UNCHANGED <<wakeupVars, stage, call, labelled, blocked>>

\* The process dies before the transaction that the task has come to, or that
\* transaction is rolled back, as one of two that wait for each other's locks is.
WorkerDies(w) ==
    /\ task[w].at \in DiesAt
    /\ EndTask(w)
    /\ UNCHANGED <<wakeupVars, run, stage, call, labelled, blocked>>

StartTask(w, e) == ClaimStage(w, e) \/ ExhaustStage(w, e) \/ NothingToClaim(w, e)

AttemptStep(w) ==
    \/ Load(w) \/ LoadFails(w) \/ FindCacheHit(w) \/ CommitCacheHit(w)
    \/ StartInference(w) \/ InferenceSucceeds(w) \/ InferenceFails(w)
    \/ CommitResult(w) \/ GiveUp(w)
    \/ ApplyGate(w) \/ CompleteRun(w)

Environment ==
    \/ \E r \in Runs : CreateRun(r)
    \/ \E e \in Entities :
          WakeupBecomesDue(e) \/ DeliveryFails(e) \/ StageTimerElapses(e)

SchedulerStep(s) ==
    \/ BeginDispatch(s)
    \/ CycleAborts(s)
    \/ \E e \in Entities : DispatchStep(s, e)

WorkerStep(w) ==
    \/ AttemptStep(w)
    \/ WorkerDies(w)
    \/ \E e \in Entities : StartTask(w, e)

Next ==
    \/ Environment
    \/ \E s \in Schedulers : SchedulerStep(s)
    \/ \E w \in Workers : WorkerStep(w)

Spec == Init /\ [][Next]_vars

-----------------------------------------------------------------------------
(* What must hold *)

\* Rows and tasks have the values their columns and variables admit
\* (AnalysisRunRecord, StageRunRecord, InferenceCallRecord).
TypeOK ==
    /\ wakeup \in [Entities -> Wakeup]
    /\ inFlight \subseteq Entities
    /\ claims \in [Schedulers -> SUBSET Entities]
    /\ sending \in [Schedulers -> SUBSET Entities]
    /\ run \in [Runs -> {"absent", "pending", "running"} \cup TerminalRun]
    /\ stage \in [Entities -> Stage]
    /\ DOMAIN call = Entities
    /\ \A e \in Entities :
          /\ stage[e].attempts <= MaxAttempts[e]
          /\ call[e] \in [Attempts(e) -> Call]
    /\ labelled \subseteq Entities
    /\ blocked \in [Messages -> Entities \cup {None}]
    /\ task \in [Workers -> Task]

\* The status of a run that is over is true of its stages, although stages change
\* in transactions that do not lock the run (complete_analysis_run,
\* apply_negative_gate, _terminalize_exhausted).
RunTellsStages ==
    \A r \in Runs :
        /\ run[r] \in TerminalRun => \A e \in StagesOf(r) : stage[e].status \in Ended
        /\ run[r] = "completed" => \A e \in StagesOf(r) : stage[e].status = "succeeded"
        /\ run[r] = "failed" => \E e \in StagesOf(r) : stage[e].status = "failed"
        /\ run[r] = "blocked_negative_gate" => blocked[MessageOf[r]] # None

\* Once a message is blocked, the run of the stage that blocked it has no work
\* left, also none that another worker was busy with; and the cause is a formal
\* stage whose negative label is stored (apply_negative_gate).
GateStopsRun ==
    \A m \in Messages : blocked[m] # None =>
        /\ blocked[m] \in labelled
        /\ MessageOf[RunOf[blocked[m]]] = m
        /\ \A e \in StagesOf(RunOf[blocked[m]]) : stage[e].status \notin Active

\* The response has one item for the target of e, and that item amounts to result.
Says(response, e, result) ==
    \E i \in DOMAIN response.items :
        /\ \A j \in DOMAIN response.items :
              j # i => TemplateOf[e].batch /\ response.items[j].target # TargetOf[e]
        /\ (result = "negative") <=>
              \E match \in Values(response.items[i].scores) :
                  match.label \in NegativeLabels /\ match.score >= Threshold[match.label]

\* Where a result comes from can be told: from the inference call of the attempt
\* that committed it, which has succeeded and whose recorded response gives the
\* stage's target this result and no other, or from a stage with the same key that
\* had the same result (StructuredOutputValidator.validate, result_origin,
\* inference_call_id, reused_from_stage_run_id).
ResultIsTraceable ==
    \A e \in Entities : stage[e].status = "succeeded" =>
        IF stage[e].source = None
        THEN /\ stage[e].call \in Attempts(e)
             /\ stage[e].call = stage[e].attempts
             /\ call[e][stage[e].call].status = "succeeded"
             /\ Says(call[e][stage[e].call].response, e, stage[e].result)
        ELSE /\ stage[stage[e].source].status = "succeeded"
             /\ stage[stage[e].source].result = stage[e].result
             /\ CacheKey[stage[e].source] = CacheKey[e]

\* As long as no process dies between a commit and the end of its task, there is
\* always somebody who will apply a gate that is due and somebody who will bring
\* a run up to date whose stages have all ended (AnalysisStageRunWorker._finish).
LooseEndsAreHeld ==
    /\ \A e \in labelled : blocked[MessageOf[RunOf[e]]] = None =>
          \E w \in Workers :
             task[w].at = "gate" /\ MessageOf[RunOf[task[w].stage]] = MessageOf[RunOf[e]]
    /\ \A r \in Runs :
          /\ run[r] \notin {"absent"} \cup TerminalRun
          /\ \A e \in StagesOf(r) : stage[e].status \in Ended
          => \E w \in Workers : task[w].at \in {"gate", "finish"} /\ RunOf[task[w].stage] = r

\* What is over stays as it is: stages that ended, with result and labels, runs
\* that are terminal do not run again, and the first cause of a block is kept.
OverIsOver ==
    [][/\ \A e \in Entities : stage[e].status \in Ended =>
             stage'[e] = stage[e] /\ (e \in labelled' => e \in labelled)
       /\ \A r \in Runs : run[r] \in TerminalRun => run'[r] \in TerminalRun
       /\ \A m \in Messages : blocked[m] # None => blocked'[m] = blocked[m]]_vars

-----------------------------------------------------------------------------
(* What the documents say and a crash or a cached test result can break *)

\* Once an activated negative label is stored, its message is blocked.
NegativeLabelBlocks ==
    \A e \in Entities : e \in labelled ~> blocked[MessageOf[RunOf[e]]] # None

\* A run that has been created is over in the end, and so are its stages.
RunsEnd == \A r \in Runs : run[r] # "absent" ~> run[r] \in TerminalRun

\* A stage of a formal run with a negative result has stored the label.
NegativeResultIsLabelled ==
    \A e \in Entities :
        stage[e].result = "negative" /\ RunOf[e] \notin TestRuns => e \in labelled

-----------------------------------------------------------------------------
(* Liveness *)

\* Deadlines pass.  The scheduler is run again and again, and of endlessly many
\* cycles some claim a given due row and reach the broker.  The broker does not
\* lose every message of a stage, and of endlessly many deliveries of one that
\* can be claimed some meet a worker that commits the claim.  A worker slot does
\* not hang in a task.
Fairness ==
    /\ \A e \in Entities :
          /\ WF_vars(StageTimerElapses(e))
          /\ WF_vars(WakeupBecomesDue(e))
          /\ SF_vars(\E s \in Schedulers : BeginDispatch(s) /\ e \in claims'[s])
          /\ SF_vars(\E s \in Schedulers : DispatchStep(s, e) /\ e \in inFlight')
          /\ SF_vars(\E w \in Workers : ClaimStage(w, e) \/ ExhaustStage(w, e))
    /\ \A s \in Schedulers :
          WF_vars(\E e \in sending[s] : DispatchStep(s, e))
    /\ \A w \in Workers : WF_vars(AttemptStep(w))

FairSpec == Spec /\ Fairness

=============================================================================
