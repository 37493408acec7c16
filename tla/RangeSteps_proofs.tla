------------------------- MODULE RangeSteps_proofs -------------------------
(***************************************************************************)
(* What no step of range processing may do, and that every step is one the *)
(* promise of ContinuousProgress allows.  Both rest on the inductive       *)
(* invariant proved in RangeHistory_proofs.                                *)
(***************************************************************************)
EXTENDS RangeHistory_proofs

-----------------------------------------------------------------------------
(* Progress is never undone *)

Monotone ==
    /\ \A e \in Entities : FrozenRow(e)
    /\ \A r \in Ranges : range'[r].watermark >= range[r].watermark

\* One unfinished execution moves; the wake-ups of the others stay.
LEMMA OneRowMoves ==
    ASSUME TypeOK, RowInvariant, NEW e \in Entities, exec[e].status \in Active,
           exec'[e].from = exec[e].from, exec'[e].to = exec[e].to,
           exec'[e].range = exec[e].range, exec'[e].profile = exec[e].profile,
           exec'[e].watermark >= exec[e].watermark,
           exec'[e].attempts >= exec[e].attempts,
           \A f \in Entities : f # e => exec'[f] = exec[f] /\ wakeup'[f] = wakeup[f],
           \A r \in Ranges : range'[r].watermark >= range[r].watermark
    PROVE  Monotone
<1>1. exec[e].status \notin Terminal /\ wakeup[e].status # "completed"
  BY DEF RowInvariant, WakeupAgrees, Active, Terminal
<1>2. FrozenRow(e)
  BY <1>1 DEF FrozenRow
<1>3. ASSUME NEW f \in Entities, f # e PROVE FrozenRow(f)
  <2>1. exec[f].watermark >= exec[f].watermark /\ exec[f].attempts >= exec[f].attempts
    BY RangeAssumption DEF TypeOK, Execution
  <2>2. QED BY <1>3, <2>1 DEF FrozenRow
<1>4. QED BY <1>2, <1>3 DEF Monotone

\* No execution and no range moves, and completed wake-ups stay.
LEMMA NoRowMoves ==
    ASSUME TypeOK, UNCHANGED <<exec, range>>,
           \A e \in Entities : wakeup[e].status = "completed" => wakeup'[e] = wakeup[e]
    PROVE  Monotone
<1>1. \A e \in Entities : exec[e].watermark >= exec[e].watermark
                          /\ exec[e].attempts >= exec[e].attempts
  BY RangeAssumption DEF TypeOK, Execution
<1>2. \A r \in Ranges : range[r].watermark >= range[r].watermark
  BY DEF TypeOK, Range
<1>3. \A e \in Entities : FrozenRow(e)
  BY <1>1 DEF FrozenRow
<1>4. QED BY <1>2, <1>3 DEF Monotone

LEMMA MonotoneFailForGood ==
    ASSUME TypeOK, RowInvariant, NEW e \in Entities, exec[e].status \in Active, FailForGood(e)
    PROVE  Monotone
<1>1. exec[e] \in Execution /\ exec[e].watermark \in Nat /\ exec[e].attempts \in Nat
  BY RangeAssumption DEF TypeOK, Execution
<1>2. /\ exec'[e] = [exec[e] EXCEPT !.status = "failed", !.timer = "none"]
      /\ \A f \in Entities : f # e => exec'[f] = exec[f] /\ wakeup'[f] = wakeup[f]
  BY DEF FailForGood, TypeOK
<1>3. /\ exec'[e].from = exec[e].from /\ exec'[e].to = exec[e].to
      /\ exec'[e].range = exec[e].range /\ exec'[e].profile = exec[e].profile
      /\ exec'[e].attempts = exec[e].attempts /\ exec'[e].watermark = exec[e].watermark
  BY <1>1, <1>2 DEF Execution
<1>4. \A r \in Ranges : range'[r].watermark = range[r].watermark /\ range[r].watermark \in Nat
  BY DEF FailForGood, TypeOK, Range
<1>5. \A r \in Ranges : range'[r].watermark >= range[r].watermark
  BY <1>4
<1>6. exec'[e].watermark >= exec[e].watermark /\ exec'[e].attempts >= exec[e].attempts
  BY <1>1, <1>3
<1>7. QED BY <1>2, <1>3, <1>5, <1>6, OneRowMoves

LEMMA MonotoneEnvironment == TypeOK /\ RowInvariant /\ Environment => Monotone
<1> SUFFICES ASSUME TypeOK, RowInvariant, Environment PROVE Monotone
  OBVIOUS
<1>1. CASE \E e \in Entities : ExecutionTimerElapses(e)
  <2> PICK e \in Entities : ExecutionTimerElapses(e)
    BY <1>1
  <2>1. exec[e] \in Execution /\ exec[e].watermark \in Nat /\ exec[e].attempts \in Nat
    BY RangeAssumption DEF TypeOK, Execution
  <2>2. exec[e].status \in Active
    BY DEF ExecutionTimerElapses, RowInvariant, RowConstraints, ExecutionChecks, Active
  <2>3. /\ exec'[e] = [exec[e] EXCEPT !.timer = "elapsed"]
        /\ \A f \in Entities : f # e => exec'[f] = exec[f]
        /\ UNCHANGED <<wakeup, range>>
    BY DEF ExecutionTimerElapses, TypeOK, wakeupVars
  <2>4. /\ exec'[e].from = exec[e].from /\ exec'[e].to = exec[e].to
        /\ exec'[e].range = exec[e].range /\ exec'[e].profile = exec[e].profile
        /\ exec'[e].attempts = exec[e].attempts /\ exec'[e].watermark = exec[e].watermark
    BY <2>1, <2>3 DEF Execution
  <2>5. \A r \in Ranges : range'[r].watermark >= range[r].watermark
    BY <2>3 DEF TypeOK, Range
  <2>6. exec'[e].watermark >= exec[e].watermark /\ exec'[e].attempts >= exec[e].attempts
    BY <2>1, <2>4
  <2>7. QED BY <2>2, <2>3, <2>4, <2>5, <2>6, OneRowMoves
<1>2. CASE \E e \in Entities : WakeupBecomesDue(e)
  <2> PICK e \in Entities : WakeupBecomesDue(e)
    BY <1>2
  <2>1. UNCHANGED <<exec, range>> /\ wakeup[e].timer = "set"
        /\ \A f \in Entities : f # e => wakeup'[f] = wakeup[f]
    BY DEF WakeupBecomesDue, WakeupTimerElapses, TypeOK
  <2>2. wakeup[e].status # "completed"
    BY <2>1 DEF RowInvariant, RowConstraints, WakeupChecks
  <2>3. QED BY <2>1, <2>2, NoRowMoves
<1>3. CASE \/ Publish
           \/ \E m \in visible : DeleteMessage(m)
           \/ Settle
           \/ \E p \in Profiles \cup {None} : ConfigureChannel(p)
           \/ \E r \in Ranges : ToggleRange(r)
           \/ \E e \in Entities : BrokerLoses(e)
  <2>1. UNCHANGED <<exec, range, wakeup>>
    BY <1>3 DEF Publish, DeleteMessage, Settle, ConfigureChannel, ToggleRange, BrokerLoses,
                LoseMessage, wakeupVars
  <2>2. QED BY <2>1, NoRowMoves
<1>4. QED BY <1>1, <1>2, <1>3 DEF Environment

LEMMA MonotoneScheduler ==
    ASSUME TypeOK, RowInvariant, NEW s \in Schedulers, SchedulerStep(s) PROVE Monotone
<1>1. CASE \E p \in plan[s] : Freeze(s, p)
  <2> PICK p \in plan[s], e \in Entities : Freeze(s, p) /\ CreateExecution(e, p)
    BY <1>1 DEF Freeze
  <2>1. exec[e].status = "absent" /\ wakeup[e].status = "absent"
    BY DEF CreateExecution, RowInvariant, WakeupAgrees
  <2>2. FrozenRow(e)
    BY <2>1 DEF FrozenRow, Terminal
  <2>3. \A f \in Entities : f # e => exec'[f] = exec[f] /\ wakeup'[f] = wakeup[f]
    BY DEF CreateExecution, TypeOK
  <2>4. ASSUME NEW f \in Entities, f # e PROVE FrozenRow(f)
    <3>1. exec[f].watermark >= exec[f].watermark /\ exec[f].attempts >= exec[f].attempts
      BY RangeAssumption DEF TypeOK, Execution
    <3>2. QED BY <2>3, <2>4, <3>1 DEF FrozenRow
  <2>5. \A r \in Ranges : range'[r].watermark = range[r].watermark /\ range[r].watermark \in Nat
    BY DEF CreateExecution, TypeOK, Range
  <2>6. \A r \in Ranges : range'[r].watermark >= range[r].watermark
    BY <2>5
  <2>7. QED BY <2>2, <2>4, <2>6 DEF Monotone
<1>2. CASE BeginDispatch(s)
  <2>1. UNCHANGED <<exec, range>>
    BY <1>2 DEF BeginDispatch
  <2>2. \A e \in Entities : wakeup[e].status = "completed" => wakeup'[e] = wakeup[e]
    BY <1>2 DEF BeginDispatch, ClaimDue, Due
  <2>3. QED BY <2>1, <2>2, NoRowMoves
<1>3. CASE \E e \in Entities : DispatchStep(s, e)
  <2> PICK e \in Entities : DispatchStep(s, e)
    BY <1>3
  <2>1. UNCHANGED <<exec, range>>
    BY DEF DispatchStep
  <2>2. \A f \in Entities : wakeup[f].status = "completed" => wakeup'[f] = wakeup[f]
    BY DEF DispatchStep, Dispatch, DispatchFails, TakeClaim, ReleaseClaim, TypeOK
  <2>3. QED BY <2>1, <2>2, NoRowMoves
<1>4. CASE \/ ListEnabledRanges(s)
           \/ \E p \in plan[s] : Propose(s, p) \/ SkipRange(s, p) \/ RefuseFreeze(s, p)
           \/ CycleAborts(s)
  <2>1. UNCHANGED <<exec, range, wakeup>>
    BY <1>4 DEF ListEnabledRanges, Propose, SkipRange, RefuseFreeze, CycleAborts,
                ForgetClaims, wakeupVars
  <2>2. QED BY <2>1, NoRowMoves
<1>5. QED BY <1>1, <1>2, <1>3, <1>4 DEF SchedulerStep

LEMMA MonotoneWorker ==
    ASSUME TypeOK, RowInvariant, NEW w \in Workers, WorkerStep(w) PROVE Monotone
<1>0. \A r \in Ranges : range[r].watermark >= range[r].watermark
  BY DEF TypeOK, Range
<1>1. CASE \E e \in Entities : StartTask(w, e)
  <2> PICK e \in Entities : StartTask(w, e)
    BY <1>1
  <2>1. exec[e] \in Execution /\ exec[e].watermark \in Nat /\ exec[e].attempts \in Nat
    BY RangeAssumption DEF TypeOK, Execution
  <2>2. CASE ClaimExecution(w, e)
    <3>1. /\ exec'[e] = [exec[e] EXCEPT !.status = "running", !.timer = "set",
                                        !.attempts = exec[e].attempts + 1]
          /\ \A f \in Entities : f # e => exec'[f] = exec[f]
          /\ UNCHANGED <<range, wakeup>>
      BY <2>2 DEF ClaimExecution, TypeOK
    <3>2. /\ exec'[e].from = exec[e].from /\ exec'[e].to = exec[e].to
          /\ exec'[e].range = exec[e].range /\ exec'[e].profile = exec[e].profile
          /\ exec'[e].attempts = exec[e].attempts + 1
          /\ exec'[e].watermark = exec[e].watermark
      BY <2>1, <3>1 DEF Execution
    <3>3. exec[e].status \in Active
      BY <2>2 DEF ClaimExecution, Eligible, Active
    <3>4. exec'[e].watermark >= exec[e].watermark /\ exec'[e].attempts >= exec[e].attempts
      BY <2>1, <3>2
    <3>5. QED BY <1>0, <3>1, <3>2, <3>3, <3>4, OneRowMoves
  <2>3. CASE TerminalizeExhausted(e)
    BY <2>3, MonotoneFailForGood DEF TerminalizeExhausted, Eligible, Active
  <2>4. CASE UNCHANGED <<exec, range, wakeup, task>>
    BY <2>4, NoRowMoves
  <2>5. QED BY <2>2, <2>3, <2>4 DEF StartTask
<1>2. CASE \/ FetchHistory(w)
           \/ \E m \in task[w].todo : IngestMessage(w, m)
           \/ TaskAborts(w)
  <2>1. UNCHANGED <<exec, range, wakeup>>
    BY <1>2 DEF FetchHistory, IngestMessage, TaskAborts, wakeupVars
  <2>2. QED BY <2>1, NoRowMoves
<1>3. CASE AdvanceWatermark(w)
  <2> PICK e \in Entities : e = task[w].exec
    BY <1>3 DEF AdvanceWatermark, TypeOK
  <2>1. UNCHANGED <<range, wakeup>>
    BY <1>3 DEF AdvanceWatermark, wakeupVars
  <2>2. CASE UNCHANGED exec
    BY <2>1, <2>2, NoRowMoves
  <2>3. CASE ~UNCHANGED exec
    <3>1. /\ exec[e].status = "running" /\ exec[e].to \in exec[e].watermark..exec[e].to
          /\ exec' = [exec EXCEPT ![e].watermark = exec[e].to]
      BY <1>3, <2>3 DEF AdvanceWatermark, HoldsLease
    <3>2. exec[e] \in Execution /\ exec[e].attempts \in Nat /\ exec[e].status \in Active
      BY <3>1, RangeAssumption DEF TypeOK, Execution, Active
    <3>3. /\ exec'[e] = [exec[e] EXCEPT !.watermark = exec[e].to]
          /\ \A f \in Entities : f # e => exec'[f] = exec[f]
      BY <3>1 DEF TypeOK
    <3>4. /\ exec'[e].from = exec[e].from /\ exec'[e].to = exec[e].to
          /\ exec'[e].range = exec[e].range /\ exec'[e].profile = exec[e].profile
          /\ exec'[e].attempts = exec[e].attempts /\ exec'[e].watermark = exec[e].to
      BY <3>2, <3>3 DEF Execution
    <3>5. exec'[e].watermark >= exec[e].watermark /\ exec'[e].attempts >= exec[e].attempts
      BY <3>1, <3>2, <3>4 DEF Execution
    <3>6. QED BY <1>0, <2>1, <3>2, <3>3, <3>4, <3>5, OneRowMoves
  <2>4. QED BY <2>2, <2>3
<1>4. CASE CompleteExecution(w)
  <2> PICK e \in Entities : e = task[w].exec
    BY <1>4 DEF CompleteExecution, TypeOK
  <2>1. CASE ~CompletionGuard(w)
    BY <1>4, <2>1, NoRowMoves DEF CompleteExecution
  <2>2. CASE CompletionGuard(w)
    <3> PICK r \in Ranges : r = exec[e].range
      BY <2>2 DEF CompletionGuard, HoldsLease, RowInvariant, RowConstraints, ExecutionChecks
    <3>1. /\ exec[e].status \in Active /\ exec[e] \in Execution
          /\ exec[e].watermark \in Nat /\ exec[e].attempts \in Nat
          /\ exec[e].from \in Nat /\ exec[e].to \in Nat
          /\ exec[e].from < exec[e].to /\ range[r].watermark = exec[e].from
      BY <2>2, RangeAssumption
         DEF CompletionGuard, HoldsLease, Active, TypeOK, Execution, RowInvariant,
             RowConstraints, ExecutionChecks
    <3>2. /\ exec' = [exec EXCEPT ![e] = [exec[e] EXCEPT !.status = "completed",
                                                         !.timer = "none"]]
          /\ range' = [range EXCEPT ![r] = CompletedRange(r, exec[e].to)]
          /\ wakeup' = [wakeup EXCEPT ![e] = CompletedWakeup]
      BY <1>4, <2>2 DEF CompleteExecution
    <3>3. /\ exec'[e] = [exec[e] EXCEPT !.status = "completed", !.timer = "none"]
          /\ \A f \in Entities : f # e => exec'[f] = exec[f] /\ wakeup'[f] = wakeup[f]
      BY <3>2 DEF TypeOK
    <3>4. /\ exec'[e].from = exec[e].from /\ exec'[e].to = exec[e].to
          /\ exec'[e].range = exec[e].range /\ exec'[e].profile = exec[e].profile
          /\ exec'[e].attempts = exec[e].attempts /\ exec'[e].watermark = exec[e].watermark
      BY <3>1, <3>3 DEF Execution
    <3>5. /\ range'[r].watermark = exec[e].to
          /\ \A q \in Ranges : q # r => range'[q] = range[q]
      BY <3>2 DEF CompletedRange, TypeOK
    <3>6. \A q \in Ranges : range'[q].watermark >= range[q].watermark
      BY <1>0, <3>1, <3>5
    <3>7. exec'[e].watermark >= exec[e].watermark /\ exec'[e].attempts >= exec[e].attempts
      BY <3>1, <3>4
    <3>8. QED BY <3>1, <3>3, <3>4, <3>6, <3>7, OneRowMoves
  <2>3. QED BY <2>1, <2>2
<1>5. CASE \E retryable \in BOOLEAN : FailExecution(w, retryable)
  <2> PICK retryable \in BOOLEAN : FailExecution(w, retryable)
    BY <1>5
  <2> PICK e \in Entities : e = task[w].exec
    BY DEF FailExecution, TypeOK
  <2>1. exec[e] \in Execution /\ exec[e].watermark \in Nat /\ exec[e].attempts \in Nat
        /\ exec[e].status \in Active
    BY RangeAssumption DEF TypeOK, Execution, FailExecution, HoldsLease, Active
  <2>2. CASE FailForGood(e)
    BY <2>1, <2>2, MonotoneFailForGood
  <2>3. CASE ~FailForGood(e)
    <3>1. /\ exec' = [exec EXCEPT ![e] = [exec[e] EXCEPT !.status = "retry_wait",
                                                         !.timer = "set"]]
          /\ wakeup' = [wakeup EXCEPT ![e] = RescheduledWakeup]
          /\ UNCHANGED range
      BY <2>3 DEF FailExecution
    <3>2. /\ exec'[e] = [exec[e] EXCEPT !.status = "retry_wait", !.timer = "set"]
          /\ \A f \in Entities : f # e => exec'[f] = exec[f] /\ wakeup'[f] = wakeup[f]
      BY <3>1 DEF TypeOK
    <3>3. /\ exec'[e].from = exec[e].from /\ exec'[e].to = exec[e].to
          /\ exec'[e].range = exec[e].range /\ exec'[e].profile = exec[e].profile
          /\ exec'[e].attempts = exec[e].attempts /\ exec'[e].watermark = exec[e].watermark
      BY <2>1, <3>2 DEF Execution
    <3>4. exec'[e].watermark >= exec[e].watermark /\ exec'[e].attempts >= exec[e].attempts
      BY <2>1, <3>3
    <3>5. QED BY <1>0, <2>1, <3>1, <3>2, <3>3, <3>4, OneRowMoves
  <2>4. QED BY <2>2, <2>3
<1>6. QED BY <1>1, <1>2, <1>3, <1>4, <1>5 DEF WorkerStep

\* Bounds and profile of an execution are immutable, progress never moves back,
\* and nothing reopens a finished execution or its wake-up.
THEOREM ProgressMonotone == Spec => ProgressIsMonotone
<1>1. TypeOK /\ RowInvariant /\ [Next]_vars => [Monotone]_vars
  BY MonotoneEnvironment, MonotoneScheduler, MonotoneWorker DEF Next
<1>2. Spec => [][Monotone]_vars
  BY <1>1, TypeCorrect, RowsCorrect, PTL DEF Spec
<1>3. QED BY <1>2, PTL DEF ProgressIsMonotone, Monotone

-----------------------------------------------------------------------------
(* Fencing *)

Fenced == \A w \in Workers : StaleStep(w) => UNCHANGED <<exec, range, wakeup>>

LEMMA StepIsFenced == TypeOK /\ Next => Fenced
<1> SUFFICES ASSUME TypeOK, Next, NEW w \in Workers, StaleStep(w)
             PROVE  UNCHANGED <<exec, range, wakeup>>
  BY DEF Fenced
<1> USE DEF StaleStep
<1>1. ~Environment
  BY DEF Environment, Publish, DeleteMessage, Settle, ConfigureChannel, ToggleRange,
         ExecutionTimerElapses, WakeupBecomesDue, BrokerLoses
<1>2. ASSUME NEW s \in Schedulers, SchedulerStep(s) PROVE FALSE
  BY <1>2 DEF SchedulerStep, ListEnabledRanges, Propose, SkipRange, Freeze, RefuseFreeze,
              BeginDispatch, DispatchStep, CycleAborts
<1>3. PICK v \in Workers : WorkerStep(v)
  BY <1>1, <1>2 DEF Next
<1>4. v = w
  <2> SUFFICES ASSUME v # w PROVE task'[w] = task[w]
    OBVIOUS
  <2>1. QED BY <1>3 DEF WorkerStep, StartTask, ClaimExecution, TerminalizeExhausted, FetchHistory,
                  IngestMessage, AdvanceWatermark, CompleteExecution, FailExecution, TaskAborts,
                  EndTask, TypeOK
<1>5. ~ \E e \in Entities : StartTask(w, e)
  BY DEF StartTask, Idle
<1>6. CASE FetchHistory(w) \/ (\E m \in task[w].todo : IngestMessage(w, m)) \/ TaskAborts(w)
  BY <1>6 DEF FetchHistory, IngestMessage, TaskAborts, wakeupVars
<1>7. CASE AdvanceWatermark(w)
  BY <1>7 DEF AdvanceWatermark, wakeupVars
<1>8. CASE CompleteExecution(w)
  BY <1>8 DEF CompleteExecution, CompletionGuard
<1>9. QED BY <1>3, <1>4, <1>5, <1>6, <1>7, <1>8 DEF WorkerStep, FailExecution

\* A worker whose lease was taken over, or whose execution has ended, changes no
\* execution, range or wake-up row.
THEOREM StaleWorkersFenced == Spec => StaleWorkerFenced
<1>1. TypeOK /\ [Next]_vars => [Fenced]_vars
  BY StepIsFenced
<1>2. Spec => [][Fenced]_vars
  BY <1>1, TypeCorrect, PTL DEF Spec
<1>3. QED BY <1>2, PTL DEF StaleWorkerFenced, Fenced

-----------------------------------------------------------------------------
(* Freezing *)

FreezesCurrentRow ==
    \A e \in Entities : Created(e) =>
        /\ exec'[e].profile = profile
        /\ exec'[e].range \in enabled
        /\ exec'[e].from = range[exec'[e].range].watermark

LEMMA StepFreezesCurrentRow == TypeOK /\ RowInvariant /\ Next => FreezesCurrentRow
<1> SUFFICES ASSUME TypeOK, RowInvariant, Next, NEW e \in Entities, Created(e)
             PROVE  /\ exec'[e].profile = profile
                    /\ exec'[e].range \in enabled
                    /\ exec'[e].from = range[exec'[e].range].watermark
  BY DEF FreezesCurrentRow
<1>0. exec[e].status = "absent" /\ exec'[e] # exec[e]
  BY DEF Created
<1>1. ASSUME NEW f \in Entities, exec[f].status # "absent",
             \A g \in Entities : g # f => exec'[g] = exec[g]
      PROVE  FALSE
  BY <1>0, <1>1
<1>2. ~Environment
  <2>1. ASSUME NEW f \in Entities, ExecutionTimerElapses(f) PROVE FALSE
    <3>1. exec[f].status # "absent"
      BY <2>1 DEF ExecutionTimerElapses, RowInvariant, RowConstraints, ExecutionChecks
    <3>2. \A g \in Entities : g # f => exec'[g] = exec[g]
      BY <2>1 DEF ExecutionTimerElapses, TypeOK
    <3>3. QED BY <1>1, <3>1, <3>2
  <2>2. QED BY <1>0, <2>1 DEF Environment, Publish, DeleteMessage, Settle, ConfigureChannel,
                              ToggleRange, WakeupBecomesDue, BrokerLoses
<1>3. ASSUME NEW w \in Workers, WorkerStep(w) PROVE FALSE
  <2>1. ASSUME NEW f \in Entities, exec[f].status # "absent", FailForGood(f) PROVE FALSE
    <3>1. \A g \in Entities : g # f => exec'[g] = exec[g]
      BY <2>1 DEF FailForGood, TypeOK
    <3>2. QED BY <1>1, <2>1, <3>1
  <2>2. CASE \E f \in Entities : StartTask(w, f)
    <3> PICK f \in Entities : StartTask(w, f)
      BY <2>2
    <3>1. Eligible(f) => exec[f].status # "absent"
      BY DEF Eligible
    <3>2. ~TerminalizeExhausted(f)
      BY <2>1, <3>1 DEF TerminalizeExhausted
    <3>3. ClaimExecution(w, f)
      BY <1>0, <3>2 DEF StartTask
    <3>4. \A g \in Entities : g # f => exec'[g] = exec[g]
      BY <3>3 DEF ClaimExecution, TypeOK
    <3>5. QED BY <1>1, <3>1, <3>3, <3>4 DEF ClaimExecution
  <2>3. CASE AdvanceWatermark(w) \/ CompleteExecution(w)
             \/ \E retryable \in BOOLEAN : FailExecution(w, retryable)
    <3> PICK f \in Entities : f = task[w].exec
      BY <2>3 DEF AdvanceWatermark, CompleteExecution, FailExecution, TypeOK
    <3>1. exec[f].status # "absent"
      BY <1>0, <2>3 DEF AdvanceWatermark, CompleteExecution, CompletionGuard, FailExecution,
                        HoldsLease
    <3>2. \A g \in Entities : g # f => exec'[g] = exec[g]
      BY <2>3 DEF AdvanceWatermark, CompleteExecution, FailExecution, FailForGood, TypeOK
    <3>3. QED BY <1>1, <3>1, <3>2
  <2>4. QED BY <1>0, <1>3, <2>2, <2>3 DEF WorkerStep, FetchHistory, IngestMessage, TaskAborts
<1>4. PICK s \in Schedulers : SchedulerStep(s)
  BY <1>2, <1>3 DEF Next
<1>5. PICK p \in plan[s], f \in Entities : Freeze(s, p) /\ CreateExecution(f, p)
  BY <1>0, <1>4 DEF SchedulerStep, ListEnabledRanges, Propose, SkipRange, Freeze, RefuseFreeze,
                    BeginDispatch, DispatchStep, CycleAborts
<1>6. f = e
  BY <1>0, <1>5 DEF CreateExecution, TypeOK
<1>7. exec'[e].profile = p.profile /\ exec'[e].range = p.range /\ exec'[e].from = p.from
  BY <1>5, <1>6 DEF CreateExecution, TypeOK
<1>8. QED BY <1>5, <1>7 DEF Freeze, CanFreeze, OpenForFreezing

\* However old a cycle's snapshot, an execution starts right after the watermark
\* of now, for an enabled range and under the channel's current profile.
THEOREM FrozenFromCurrent == Spec => FrozenFromCurrentRow
<1>1. TypeOK /\ RowInvariant /\ [Next]_vars => [FreezesCurrentRow]_vars
  BY StepFreezesCurrentRow
<1>2. Spec => [][FreezesCurrentRow]_vars
  BY <1>1, TypeCorrect, RowsCorrect, PTL DEF Spec
<1>3. QED BY <1>2, PTL DEF FrozenFromCurrentRow, FreezesCurrentRow

-----------------------------------------------------------------------------
(* Refinement *)

frontierBar == [r \in Ranges |-> range[r].watermark]
windowBar == [r \in Ranges |-> range[r].high]
overBar == {r \in Ranges : range[r].status \in Terminal}

\* Nothing the promise speaks about changes while messages and ranges stay.
LEMMA PromiseStutters ==
    ASSUME UNCHANGED <<lastId, visible, ingested, range>>
    PROVE  UNCHANGED Promise!vars
BY DEF Promise!vars

LEMMA PromiseInit == Init => Promise!Init
<1> SUFFICES ASSUME Init PROVE Promise!Init
  OBVIOUS
<1>1. \A r \in Ranges : /\ range[r].status = "pending" /\ range[r].watermark = Start[r] - 1
                        /\ range[r].high = NoMessage
  BY DEF Init
<1>2. overBar = {}
  BY <1>1 DEF overBar, Terminal
<1>3. frontierBar = [r \in Ranges |-> Start[r] - 1] /\ windowBar = [r \in Ranges |-> NoMessage]
  BY <1>1 DEF frontierBar, windowBar
<1>4. QED BY <1>2, <1>3 DEF Init, Promise!Init, frontierBar, windowBar, overBar

LEMMA PromiseEnvironment == TypeOK /\ Environment => [Promise!Next]_(Promise!vars)
<1> SUFFICES ASSUME TypeOK, Environment PROVE [Promise!Next]_(Promise!vars)
  OBVIOUS
<1>1. CASE Publish
  <2>1. Promise!Publish
    BY <1>1 DEF Publish, Promise!Publish
  <2>2. QED BY <2>1 DEF Promise!Next
<1>2. CASE \E m \in visible : DeleteMessage(m)
  <2>1. Promise!Delete
    BY <1>2 DEF DeleteMessage, Promise!Delete
  <2>2. QED BY <2>1 DEF Promise!Next
<1>3. CASE \/ Settle
           \/ \E p \in Profiles \cup {None} : ConfigureChannel(p)
           \/ \E r \in Ranges : ToggleRange(r)
           \/ \E e \in Entities : ExecutionTimerElapses(e) \/ WakeupBecomesDue(e) \/ BrokerLoses(e)
  <2>1. UNCHANGED <<lastId, visible, ingested, range>>
    BY <1>3 DEF Settle, ConfigureChannel, ToggleRange, ExecutionTimerElapses, WakeupBecomesDue,
                BrokerLoses, channelVars, configVars
  <2>2. QED BY <2>1, PromiseStutters
<1>4. QED BY <1>1, <1>2, <1>3 DEF Environment

LEMMA PromiseScheduler ==
    ASSUME TypeOK, RowInvariant, NEW s \in Schedulers, SchedulerStep(s)
    PROVE  [Promise!Next]_(Promise!vars)
<1>1. CASE \E p \in plan[s] : Freeze(s, p)
  <2> PICK p \in plan[s], e \in Entities : Freeze(s, p) /\ CreateExecution(e, p)
    BY <1>1 DEF Freeze
  <2> PICK r \in Ranges : r = p.range
    BY DEF TypeOK, Snapshot
  <2>1. p.to \in Nat /\ p.to <= lastId /\ lastId \in Nat
    BY DEF TypeOK, Snapshot, RowInvariant, Bookkeeping
  <2>2. /\ range[r].status \notin Terminal /\ range[r].high = NoMessage
        /\ p.to > range[r].watermark /\ range[r].watermark \in Nat
    BY DEF Freeze, CanFreeze, OpenForFreezing, Terminal, TypeOK, Range
  <2>3. /\ range'[r].status = "active" /\ range'[r].high = p.to
        /\ range'[r].watermark = range[r].watermark
        /\ \A q \in Ranges : q # r => range'[q] = range[q]
    BY DEF CreateExecution, TypeOK, Range
  <2>4. UNCHANGED <<lastId, visible, ingested>>
    BY DEF Freeze, channelVars
  <2>5. UNCHANGED <<frontierBar, overBar>> /\ r \notin overBar
    BY <2>2, <2>3 DEF frontierBar, overBar, Terminal
  <2>6. windowBar' = [windowBar EXCEPT ![r] = p.to]
    BY <2>3 DEF windowBar
  <2>7. p.to \in (frontierBar[r] + 1)..lastId /\ windowBar[r] = NoMessage
    BY <2>1, <2>2 DEF frontierBar, windowBar
  <2>8. Promise!Open(r)
    BY <2>4, <2>5, <2>6, <2>7 DEF Promise!Open, frontierBar, windowBar, overBar
  <2>9. QED BY <2>8 DEF Promise!Next
<1>2. CASE \/ ListEnabledRanges(s)
           \/ \E p \in plan[s] : Propose(s, p) \/ SkipRange(s, p) \/ RefuseFreeze(s, p)
           \/ BeginDispatch(s)
           \/ \E e \in Entities : DispatchStep(s, e)
           \/ CycleAborts(s)
  <2>1. UNCHANGED <<lastId, visible, ingested, range>>
    BY <1>2 DEF ListEnabledRanges, Propose, SkipRange, RefuseFreeze, BeginDispatch,
                DispatchStep, CycleAborts, channelVars
  <2>2. QED BY <2>1, PromiseStutters
<1>3. QED BY <1>1, <1>2 DEF SchedulerStep

LEMMA PromiseFailForGood ==
    ASSUME TypeOK, RowInvariant, NEW e \in Entities, exec[e].status \in Active,
           FailForGood(e), UNCHANGED <<lastId, visible, ingested>>
    PROVE  [Promise!Next]_(Promise!vars)
<1>1. exec[e].from \in Nat /\ exec[e].to \in Nat
  BY DEF TypeOK, Execution
<1>2. /\ exec[e].range \in Ranges /\ exec[e].from < exec[e].to
      /\ WorksOnWindowOf(e, range[exec[e].range])
  BY DEF RowInvariant, RowConstraints, ExecutionChecks, ActiveWindow, Active
<1> PICK r \in Ranges : r = exec[e].range
  BY <1>2
<1>3. range[r].status = "active" /\ range[r].high # NoMessage
  BY <1>1, <1>2 DEF WorksOnWindowOf, NoMessage
<1>4. /\ range'[r].status = "failed" /\ range'[r].high = range[r].high
      /\ range'[r].watermark = range[r].watermark
      /\ \A q \in Ranges : q # r => range'[q] = range[q]
  BY DEF FailForGood, TypeOK, Range
<1>5. UNCHANGED <<frontierBar, windowBar>>
  BY <1>4 DEF frontierBar, windowBar
<1>6. overBar' = overBar \cup {r} /\ r \notin overBar
  BY <1>3, <1>4 DEF overBar, Terminal
<1>7. windowBar[r] # NoMessage
  BY <1>3 DEF windowBar
<1>8. Promise!Abandon(r)
  BY <1>5, <1>6, <1>7 DEF Promise!Abandon, frontierBar, windowBar, overBar
<1>9. QED BY <1>8 DEF Promise!Next

LEMMA PromiseComplete ==
    ASSUME TypeOK, RowInvariant, History, NEW w \in Workers, CompleteExecution(w),
           CompletionGuard(w)
    PROVE  [Promise!Next]_(Promise!vars)
<1> PICK e \in Entities : e = task[w].exec
  BY DEF CompleteExecution, TypeOK
<1>1. /\ exec[e].status \in Active /\ exec[e].status # "absent"
      /\ exec[e].watermark = exec[e].to /\ exec[e].from \in Nat /\ exec[e].to \in Nat
  BY DEF CompletionGuard, HoldsLease, Active, TypeOK, Execution
<1>2. /\ exec[e].range \in Ranges /\ exec[e].from < exec[e].to
      /\ WorksOnWindowOf(e, range[exec[e].range])
  BY <1>1 DEF RowInvariant, RowConstraints, ExecutionChecks, ActiveWindow
<1> PICK r \in Ranges : r = exec[e].range
  BY <1>2
<1>3. /\ range[r].status = "active" /\ range[r].high = exec[e].to
      /\ range[r].high # NoMessage /\ range[r].watermark = exec[e].from
  BY <1>1, <1>2 DEF WorksOnWindowOf, NoMessage
<1>4. visible \cap ((range[r].watermark + 1)..range[r].high) \subseteq ingested
  BY <1>1, <1>3 DEF History, AdvancedWindowsIngested, Window
<1>5. /\ range' = [range EXCEPT ![r] = CompletedRange(r, exec[e].to)]
      /\ UNCHANGED <<lastId, visible, ingested>>
  BY DEF CompleteExecution, channelVars
<1>6. /\ range'[r].high = NoMessage /\ range'[r].watermark = exec[e].to
      /\ \A q \in Ranges : q # r => range'[q] = range[q]
  BY <1>5 DEF CompletedRange, TypeOK
<1>7. frontierBar' = [frontierBar EXCEPT ![r] = windowBar[r]]
  BY <1>3, <1>6 DEF frontierBar, windowBar
<1>8. windowBar' = [windowBar EXCEPT ![r] = NoMessage]
  BY <1>6 DEF windowBar
<1>9. overBar' \in {overBar, overBar \cup {r}} /\ r \notin overBar
  BY <1>3, <1>6 DEF overBar, Terminal
<1>10. visible \cap ((frontierBar[r] + 1)..windowBar[r]) \subseteq ingested
       /\ windowBar[r] # NoMessage
  BY <1>3, <1>4 DEF frontierBar, windowBar
<1>11. Promise!Close(r)
  BY <1>5, <1>7, <1>8, <1>9, <1>10 DEF Promise!Close, frontierBar, windowBar, overBar
<1>12. QED BY <1>11 DEF Promise!Next

LEMMA PromiseWorker ==
    ASSUME TypeOK, RowInvariant, History, NEW w \in Workers, WorkerStep(w)
    PROVE  [Promise!Next]_(Promise!vars)
<1>1. CASE \E e \in Entities : StartTask(w, e)
  <2> PICK e \in Entities : StartTask(w, e)
    BY <1>1
  <2>1. UNCHANGED <<lastId, visible, ingested>>
    BY DEF StartTask, channelVars
  <2>2. CASE TerminalizeExhausted(e)
    BY <2>1, <2>2, PromiseFailForGood DEF TerminalizeExhausted, Eligible, Active
  <2>3. CASE ~TerminalizeExhausted(e)
    <3>1. UNCHANGED range
      BY <2>3 DEF StartTask, ClaimExecution
    <3>2. QED BY <2>1, <3>1, PromiseStutters
  <2>4. QED BY <2>2, <2>3
<1>2. CASE \E m \in task[w].todo : IngestMessage(w, m)
  <2> PICK m \in task[w].todo : IngestMessage(w, m)
    BY <1>2
  <2>1. m \in 1..lastId
    BY DEF TypeOK
  <2>2. ingested' = ingested \cup {m} /\ UNCHANGED <<lastId, visible, range>>
    BY DEF IngestMessage, channelVars
  <2>3. Promise!Ingest
    BY <2>1, <2>2 DEF Promise!Ingest
  <2>4. QED BY <2>3 DEF Promise!Next
<1>3. CASE CompleteExecution(w)
  <2>1. CASE CompletionGuard(w)
    BY <1>3, <2>1, PromiseComplete
  <2>2. CASE ~CompletionGuard(w)
    BY <1>3, <2>2, PromiseStutters DEF CompleteExecution, channelVars
  <2>3. QED BY <2>1, <2>2
<1>4. CASE \E retryable \in BOOLEAN : FailExecution(w, retryable)
  <2> PICK retryable \in BOOLEAN : FailExecution(w, retryable)
    BY <1>4
  <2> PICK e \in Entities : e = task[w].exec
    BY DEF FailExecution, TypeOK
  <2>1. UNCHANGED <<lastId, visible, ingested>> /\ exec[e].status \in Active
    BY DEF FailExecution, HoldsLease, Active, channelVars
  <2>2. CASE FailForGood(e)
    BY <2>1, <2>2, PromiseFailForGood
  <2>3. CASE ~FailForGood(e)
    BY <2>1, <2>3, PromiseStutters DEF FailExecution
  <2>4. QED BY <2>2, <2>3
<1>5. CASE FetchHistory(w) \/ AdvanceWatermark(w) \/ TaskAborts(w)
  <2>1. UNCHANGED <<lastId, visible, ingested, range>>
    BY <1>5 DEF FetchHistory, AdvanceWatermark, TaskAborts, channelVars
  <2>2. QED BY <2>1, PromiseStutters
<1>6. QED BY <1>1, <1>2, <1>3, <1>4, <1>5 DEF WorkerStep

\* Range processing implements the promise: whatever schedulers, workers and the
\* broker do, a range's frontier moves from window end to window end only, over
\* messages that are persisted.
THEOREM ProcessingKeepsPromise == Spec => KeepsPromise
<1>1. TypeOK /\ RowInvariant /\ History /\ [Next]_vars => [Promise!Next]_(Promise!vars)
  <2> SUFFICES ASSUME TypeOK, RowInvariant, History, [Next]_vars
               PROVE  [Promise!Next]_(Promise!vars)
    OBVIOUS
  <2>1. CASE Next
    BY <2>1, PromiseEnvironment, PromiseScheduler, PromiseWorker DEF Next
  <2>2. CASE UNCHANGED vars
    BY <2>2, PromiseStutters DEF vars, channelVars
  <2>3. QED BY <2>1, <2>2
<1>2. Spec => []History
  BY HistoryInit, HistoryNext, TypeCorrect, RowsCorrect, PTL DEF Spec
<1>3. QED BY <1>1, <1>2, PromiseInit, TypeCorrect, RowsCorrect, PTL DEF Spec, KeepsPromise,
                                                                        Promise!Spec

=============================================================================
