----------------------- MODULE RangeProcessing_proofs -----------------------
(***************************************************************************)
(* Machine-checked proofs about range processing, for every set of ranges, *)
(* executions, schedulers, workers and profiles, and every value of the    *)
(* bounds.                                                                 *)
(***************************************************************************)
EXTENDS RangeRefinement, TLAPS

-----------------------------------------------------------------------------
(* Type correctness *)

LEMMA TypeInit == Init => TypeOK
BY RangeAssumption, WakeupAssumption
   DEF Init, WakeupInit, TypeOK, Wakeup, NoWakeup, WakeupStatus, Timer, Range, Execution,
       NoExecution, Active, Terminal, Snapshot, Task, Idle, NoMessage

LEMMA TypeEnvironment == TypeOK /\ Environment => TypeOK'
<1> SUFFICES ASSUME TypeOK, Environment PROVE TypeOK'
  OBVIOUS
<1> USE DEF TypeOK
<1>1. CASE Publish
  BY <1>1 DEF Publish, wakeupVars, configVars, planVars
<1>2. CASE \E m \in visible : DeleteMessage(m)
  BY <1>2 DEF DeleteMessage, wakeupVars, configVars, planVars
<1>3. CASE Settle
  BY <1>3 DEF Settle, wakeupVars, configVars, planVars
<1>4. CASE \E p \in Profiles \cup {None} : ConfigureChannel(p)
  BY <1>4 DEF ConfigureChannel, wakeupVars, channelVars, planVars
<1>5. CASE \E r \in Ranges : ToggleRange(r)
  BY <1>5 DEF ToggleRange, wakeupVars, channelVars, planVars
<1>6. CASE \E e \in Entities : ExecutionTimerElapses(e)
  <2> PICK e \in Entities : ExecutionTimerElapses(e)
    BY <1>6
  <2>1. [exec[e] EXCEPT !.timer = "elapsed"] \in Execution
    <3>1. exec[e] \in Execution
      OBVIOUS
    <3> HIDE DEF TypeOK
    <3>2. QED BY <3>1 DEF Execution, Timer
  <2>2. exec' \in [Entities -> Execution]
    BY <2>1 DEF ExecutionTimerElapses
  <2>3. QED BY <2>2 DEF ExecutionTimerElapses, wakeupVars, channelVars, configVars, planVars
<1>7. CASE \E e \in Entities : WakeupBecomesDue(e)
  <2> PICK e \in Entities : WakeupBecomesDue(e)
    BY <1>7
  <2>1. [wakeup[e] EXCEPT !.timer = "elapsed"] \in Wakeup
    BY DEF Wakeup, Timer
  <2>2. wakeup' \in [Entities -> Wakeup]
    BY <2>1 DEF WakeupBecomesDue, WakeupTimerElapses
  <2>3. QED BY <2>2 DEF WakeupBecomesDue, WakeupTimerElapses, channelVars, configVars, planVars
<1>8. CASE \E e \in Entities : BrokerLoses(e)
  BY <1>8 DEF BrokerLoses, LoseMessage, channelVars, configVars, planVars
<1>9. QED
  BY <1>1, <1>2, <1>3, <1>4, <1>5, <1>6, <1>7, <1>8 DEF Environment

LEMMA BoundaryType == TypeOK => \A r \in Ranges : Boundary(r) \subseteq Nat
<1> SUFFICES ASSUME TypeOK, NEW r \in Ranges PROVE Boundary(r) \subseteq Nat
  OBVIOUS
<1>1. visible \subseteq Nat
  BY DEF TypeOK
<1>2. FixedEnd[r] \in Nat
  BY RangeAssumption
<1>3. QED BY <1>1, <1>2 DEF Boundary

LEMMA TypeScheduler ==
    ASSUME TypeOK, NEW s \in Schedulers, SchedulerStep(s) PROVE TypeOK'
<1> USE DEF TypeOK
<1>1. CASE ListEnabledRanges(s)
  <2>1. {[range |-> r, from |-> range[r].watermark, to |-> NoMessage, profile |-> profile] :
            r \in {q \in Ranges : OpenForFreezing(q)}} \subseteq Snapshot
    BY DEF Snapshot, Range, OpenForFreezing, NoMessage
  <2>2. plan' \in [Schedulers -> SUBSET Snapshot]
    BY <1>1, <2>1 DEF ListEnabledRanges
  <2>3. QED BY <1>1, <2>2 DEF ListEnabledRanges, wakeupVars, channelVars, configVars
<1>2. CASE \E p \in plan[s] : Propose(s, p)
  <2> PICK p \in plan[s] : Propose(s, p)
    BY <1>2
  <2>1. p \in Snapshot /\ p.range \in Ranges
    BY DEF Snapshot
  <2>2. PICK m \in Nat :
           plan' = [plan EXCEPT ![s] = (plan[s] \ {p}) \cup {[p EXCEPT !.to = m]}]
    BY <2>1, BoundaryType DEF Propose
  <2>3. [p EXCEPT !.to = m] \in Snapshot
    BY <2>1 DEF Snapshot
  <2>4. plan' \in [Schedulers -> SUBSET Snapshot]
    BY <2>2, <2>3
  <2>5. QED BY <2>4 DEF Propose, wakeupVars, channelVars, configVars
<1>3. CASE \E p \in plan[s] : SkipRange(s, p) \/ RefuseFreeze(s, p)
  BY <1>3 DEF SkipRange, RefuseFreeze, wakeupVars, channelVars, configVars
<1>4. CASE \E p \in plan[s] : Freeze(s, p)
  <2> PICK p \in plan[s], e \in Entities : Freeze(s, p) /\ CreateExecution(e, p)
    BY <1>4 DEF Freeze
  <2>1. p \in Snapshot
    OBVIOUS
  <2>2. exec' \in [Entities -> Execution]
    BY <2>1, RangeAssumption DEF CreateExecution, Snapshot, Execution, Active, Timer
  <2>3. range' \in [Ranges -> Range]
    BY <2>1 DEF CreateExecution, Snapshot, Range
  <2>4. wakeup' \in [Entities -> Wakeup]
    BY DEF CreateExecution, NewWakeup, Wakeup, WakeupStatus, Timer
  <2>5. plan' \in [Schedulers -> SUBSET Snapshot]
    BY DEF Freeze
  <2>6. QED BY <2>2, <2>3, <2>4, <2>5 DEF Freeze, channelVars, configVars
<1>5. CASE BeginDispatch(s)
  <2> PICK S \in SUBSET Entities : ClaimDue(s, S)
    BY <1>5 DEF BeginDispatch
  <2>1. wakeup' \in [Entities -> Wakeup]
    BY DEF ClaimDue, LeasedWakeup, Wakeup, WakeupStatus, Timer
  <2>2. QED BY <1>5, <2>1 DEF BeginDispatch, ClaimDue, channelVars, configVars
<1>6. CASE \E e \in Entities : DispatchStep(s, e)
  <2> PICK e \in Entities : DispatchStep(s, e)
    BY <1>6
  <2>1. wakeup' \in [Entities -> Wakeup]
    BY DEF DispatchStep, Dispatch, DispatchFails, TakeClaim, ReleaseClaim, RescheduledWakeup,
           Wakeup, WakeupStatus, Timer
  <2>2. inFlight' \subseteq Entities /\ claims' \in [Schedulers -> SUBSET Entities]
                                     /\ sending' \in [Schedulers -> SUBSET Entities]
    BY DEF DispatchStep, Dispatch, DispatchFails, TakeClaim, ReleaseClaim
  <2>3. QED BY <2>1, <2>2 DEF DispatchStep, channelVars, configVars, planVars
<1>7. CASE CycleAborts(s)
  BY <1>7 DEF CycleAborts, ForgetClaims, channelVars, configVars
<1>8. QED
  BY <1>1, <1>2, <1>3, <1>4, <1>5, <1>6, <1>7 DEF SchedulerStep

\* The effects workers have on the three tables keep their rows well typed.
LEMMA ExecutionUpdate ==
    ASSUME NEW x \in Execution, NEW st \in Active \cup Terminal, NEW t \in Timer
    PROVE  [x EXCEPT !.status = st, !.timer = t] \in Execution
BY DEF Execution

LEMMA FailForGoodType ==
    ASSUME TypeOK, NEW e \in Entities, FailForGood(e)
    PROVE  /\ exec' \in [Entities -> Execution]
           /\ range' \in [Ranges -> Range]
           /\ wakeup' \in [Entities -> Wakeup]
<1>1. exec' \in [Entities -> Execution]
  <2>1. exec[e] \in Execution
    BY DEF TypeOK
  <2>2. [exec[e] EXCEPT !.status = "failed", !.timer = "none"] \in Execution
    BY <2>1, ExecutionUpdate DEF Terminal, Timer
  <2>3. QED BY <2>2 DEF TypeOK, FailForGood
<1>2. range' \in [Ranges -> Range]
  BY DEF TypeOK, FailForGood, Range
<1>3. wakeup' \in [Entities -> Wakeup]
  BY DEF TypeOK, FailForGood, CompletedWakeup, Wakeup, WakeupStatus, Timer
<1>4. QED BY <1>1, <1>2, <1>3

LEMMA TypeWorker ==
    ASSUME TypeOK, NEW w \in Workers, WorkerStep(w) PROVE TypeOK'
<1> USE DEF TypeOK
<1>1. Idle \in Task /\ Idle.todo = {} /\ Idle.at = "idle"
  BY RangeAssumption DEF Idle, Task
<1>2. ASSUME EndTask(w), lastId' = lastId
      PROVE  /\ task' \in [Workers -> Task]
             /\ \A v \in Workers : /\ task'[v].todo \subseteq 1..lastId'
                                   /\ task'[v].at # "idle" => task'[v].exec \in Entities
  BY <1>1, <1>2 DEF EndTask
<1>3. CASE \E e \in Entities : StartTask(w, e)
  <2> PICK e \in Entities : StartTask(w, e)
    BY <1>3
  <2>1. exec[e] \in Execution
    OBVIOUS
  <2>2. CASE ClaimExecution(w, e)
    <3>1. exec[e].attempts + 1 \in 0..MaxAttempts
      BY <2>1, <2>2, RangeAssumption DEF ClaimExecution, Execution
    <3>2. [exec[e] EXCEPT !.status = "running", !.timer = "set",
                          !.attempts = exec[e].attempts + 1] \in Execution
      BY <2>1, <3>1 DEF Execution, Active, Timer
    <3>3. exec' \in [Entities -> Execution]
      BY <2>2, <3>2 DEF ClaimExecution
    <3>4. task' \in [Workers -> Task]
      BY <2>2, <3>1 DEF ClaimExecution, Task
    <3>5. QED BY <2>2, <3>3, <3>4 DEF StartTask, ClaimExecution, TakeMessage, channelVars,
                                      configVars, planVars
  <2>3. CASE TerminalizeExhausted(e)
    BY <2>3, FailForGoodType DEF StartTask, TerminalizeExhausted, TakeMessage, channelVars,
                                 configVars, planVars
  <2>4. CASE ~Eligible(e) /\ UNCHANGED <<exec, range, wakeup, task>>
    BY <2>4 DEF StartTask, TakeMessage, channelVars, configVars, planVars
  <2>5. QED BY <2>2, <2>3, <2>4 DEF StartTask
<1>4. CASE FetchHistory(w)
  <2> DEFINE fetched == visible \cap Window(task[w].exec)
  <2> HIDE DEF TypeOK
  <2>0. visible \subseteq 1..lastId /\ 1..lastId \subseteq Nat
    BY DEF TypeOK
  <2>1. fetched \subseteq 1..lastId /\ fetched \subseteq Nat
    BY <2>0
  <2> USE DEF TypeOK
  <2>2. [task[w] EXCEPT !.at = "ingest", !.todo = fetched] \in Task
    BY <2>1 DEF Task
  <2>3. task' \in [Workers -> Task]
    BY <1>4, <2>2 DEF FetchHistory
  <2>4. \A v \in Workers : task'[v].todo \subseteq 1..lastId
    BY <1>4, <2>1 DEF FetchHistory, Task
  <2>5. \A v \in Workers : task'[v].exec = task[v].exec
    BY <1>4 DEF FetchHistory, Task
  <2>6. QED BY <1>4, <2>3, <2>4, <2>5
        DEF FetchHistory, wakeupVars, channelVars, configVars, planVars
<1>5. CASE \E m \in task[w].todo : IngestMessage(w, m)
  <2> PICK m \in task[w].todo : IngestMessage(w, m)
    BY <1>5
  <2>1. [task[w] EXCEPT !.todo = task[w].todo \ {m}] \in Task
    BY DEF Task
  <2>2. task' \in [Workers -> Task]
    BY <2>1 DEF IngestMessage
  <2>3. \A v \in Workers : /\ task'[v].todo \subseteq 1..lastId
                           /\ task'[v].exec = task[v].exec /\ task'[v].at = task[v].at
    BY DEF IngestMessage, Task
  <2>4. ingested' \subseteq 1..lastId
    BY DEF IngestMessage
  <2>5. QED BY <2>2, <2>3, <2>4
        DEF IngestMessage, wakeupVars, channelVars, configVars, planVars
<1>6. CASE AdvanceWatermark(w)
  <2> DEFINE e == task[w].exec
  <2>1. e \in Entities /\ exec[e] \in Execution
    BY <1>6 DEF AdvanceWatermark
  <2>2. [exec[e] EXCEPT !.watermark = exec[e].to] \in Execution
    BY <2>1 DEF Execution
  <2>3. exec' \in [Entities -> Execution]
    BY <1>6, <2>2 DEF AdvanceWatermark
  <2>4. [task[w] EXCEPT !.at = "complete"] \in Task
    BY DEF Task
  <2>5. lastId' = lastId
    BY <1>6 DEF AdvanceWatermark, channelVars
  <2>6. CASE EndTask(w)
    BY <1>2, <1>6, <2>3, <2>5, <2>6
       DEF AdvanceWatermark, wakeupVars, channelVars, configVars, planVars
  <2>7. CASE task' = [task EXCEPT ![w].at = "complete"]
    <3>1. task' \in [Workers -> Task]
      BY <2>4, <2>7
    <3>2. \A v \in Workers : task'[v].todo = task[v].todo /\ task'[v].exec = task[v].exec
      BY <2>7 DEF Task
    <3>3. task[w].at # "idle"
      BY <1>6 DEF AdvanceWatermark
    <3>4. \A v \in Workers : task'[v].at # "idle" => task[v].at # "idle"
      BY <2>7, <3>3
    <3>5. QED BY <1>6, <2>3, <3>1, <3>2, <3>4
          DEF AdvanceWatermark, wakeupVars, channelVars, configVars, planVars
  <2>8. QED BY <1>6, <2>6, <2>7 DEF AdvanceWatermark
<1>7. CASE CompleteExecution(w)
  <2> DEFINE e == task[w].exec
  <2>1. e \in Entities /\ exec[e] \in Execution
    BY <1>7 DEF CompleteExecution
  <2>2. exec' \in [Entities -> Execution]
    <3>1. [exec[e] EXCEPT !.status = "completed", !.timer = "none"] \in Execution
      BY <2>1, ExecutionUpdate DEF Terminal, Timer
    <3>2. QED BY <1>7, <3>1 DEF CompleteExecution
  <2>3. range' \in [Ranges -> Range]
    <3>1. CompletedRange(exec[e].range, exec[e].to) \in Range
      BY <2>1 DEF CompletedRange, Range, Execution, NoMessage
    <3>2. QED BY <1>7, <3>1 DEF CompleteExecution
  <2>4. wakeup' \in [Entities -> Wakeup]
    BY <1>7 DEF CompleteExecution, CompletedWakeup, Wakeup, WakeupStatus, Timer
  <2>5. EndTask(w) /\ lastId' = lastId
    BY <1>7 DEF CompleteExecution, channelVars
  <2>6. QED BY <1>2, <1>7, <2>2, <2>3, <2>4, <2>5
        DEF CompleteExecution, channelVars, configVars, planVars
<1>8. CASE \E retryable \in BOOLEAN : FailExecution(w, retryable)
  <2> PICK retryable \in BOOLEAN : FailExecution(w, retryable)
    BY <1>8
  <2> DEFINE e == task[w].exec
  <2>1. e \in Entities /\ exec[e] \in Execution
    BY DEF FailExecution
  <2>2. /\ exec' \in [Entities -> Execution]
        /\ range' \in [Ranges -> Range]
        /\ wakeup' \in [Entities -> Wakeup]
    <3>1. CASE FailForGood(e)
      BY <2>1, <3>1, FailForGoodType
    <3>2. CASE ~FailForGood(e)
      <4>1. [exec[e] EXCEPT !.status = "retry_wait", !.timer = "set"] \in Execution
        BY <2>1, ExecutionUpdate DEF Active, Timer
      <4>2. exec' \in [Entities -> Execution]
        BY <3>2, <4>1 DEF FailExecution
      <4>3. range' = range
        BY <3>2 DEF FailExecution
      <4>4. wakeup' \in [Entities -> Wakeup]
        BY <3>2 DEF FailExecution, RescheduledWakeup, Wakeup, WakeupStatus, Timer
      <4>5. QED BY <4>2, <4>3, <4>4
    <3>3. QED BY <3>1, <3>2
  <2>3. EndTask(w) /\ lastId' = lastId
    BY DEF FailExecution, channelVars
  <2>4. QED BY <1>2, <2>2, <2>3 DEF FailExecution, channelVars, configVars, planVars
<1>9. CASE TaskAborts(w)
  <2>1. EndTask(w) /\ lastId' = lastId
    BY <1>9 DEF TaskAborts, channelVars
  <2>2. QED BY <1>2, <1>9, <2>1 DEF TaskAborts, wakeupVars, channelVars, configVars, planVars
<1>10. QED
  BY <1>3, <1>4, <1>5, <1>6, <1>7, <1>8, <1>9 DEF WorkerStep

LEMMA TypeNext == TypeOK /\ [Next]_vars => TypeOK'
<1> SUFFICES ASSUME TypeOK, [Next]_vars PROVE TypeOK'
  OBVIOUS
<1>1. CASE Next
  BY <1>1, TypeEnvironment, TypeScheduler, TypeWorker DEF Next
<1>2. CASE UNCHANGED vars
  BY <1>2 DEF vars, wakeupVars, channelVars, configVars, planVars, TypeOK
<1>3. QED BY <1>1, <1>2

\* Rows, snapshots and tasks stay within their types, and no execution is ever
\* claimed more often than max_attempts.
THEOREM TypeCorrect == Spec => []TypeOK
BY TypeInit, TypeNext, PTL DEF Spec

-----------------------------------------------------------------------------
(* The row invariant: one lemma per way the tables change *)

LEMMA RowInit == Init => RowInvariant
<1> SUFFICES ASSUME Init PROVE RowInvariant
  OBVIOUS
<1> USE DEF Init, WakeupInit, NoExecution, NoWakeup, NoMessage
<1>1. RowConstraints
  BY RangeAssumption DEF RowConstraints, ExecutionChecks, WakeupChecks, RangeChecks
<1>2. ActiveWindow
  BY DEF ActiveWindow, Active
<1>3. WakeupAgrees
  BY DEF WakeupAgrees, Active, Terminal
<1>4. Bookkeeping
  BY RangeAssumption DEF Bookkeeping
<1>5. QED BY <1>1, <1>2, <1>3, <1>4 DEF RowInvariant

\* Executions and ranges stay, time may pass for a wake-up or a lease on it change.
LEMMA RowsSame ==
    ASSUME TypeOK, RowInvariant, UNCHANGED <<exec, range>>,
           lastId' \in Nat, lastId <= lastId',
           \A s \in Schedulers : \A p \in plan'[s] : p.to <= lastId',
           \A e \in Entities : WakeupChecks(e)',
           \A e \in Entities : \/ wakeup'[e].status = wakeup[e].status
                               \/ {wakeup'[e].status, wakeup[e].status}
                                     \subseteq {"pending", "leased"}
    PROVE  RowInvariant'
<1>1. RowConstraints'
  BY DEF RowInvariant, RowConstraints, ExecutionChecks, RangeChecks
<1>2. ActiveWindow'
  BY DEF RowInvariant, ActiveWindow, WorksOnWindowOf
<1>3. WakeupAgrees'
  BY DEF RowInvariant, WakeupAgrees, Active, Terminal
<1>4. Bookkeeping'
  <2>1. InitialLast <= lastId'
    BY RangeAssumption DEF RowInvariant, Bookkeeping, TypeOK
  <2>2. \A e \in Entities : exec[e].to \in Nat
    BY DEF TypeOK, Execution
  <2>3. \A e \in Entities : exec[e].status # "absent" => exec[e].to <= lastId'
    BY <2>2 DEF RowInvariant, Bookkeeping, TypeOK
  <2>4. QED BY <2>1, <2>3 DEF RowInvariant, Bookkeeping
<1>5. QED BY <1>1, <1>2, <1>3, <1>4 DEF RowInvariant

LEMMA RowsUntouched ==
    ASSUME TypeOK, RowInvariant, UNCHANGED <<exec, range, wakeup>>,
           lastId' \in Nat, lastId <= lastId',
           \A s \in Schedulers : \A p \in plan'[s] : p.to <= lastId'
    PROVE  RowInvariant'
<1>1. \A e \in Entities : WakeupChecks(e)'
  BY DEF RowInvariant, RowConstraints, WakeupChecks
<1>2. QED BY <1>1, RowsSame

\* An execution row changes in its status, lease or progress only, staying
\* unfinished, with its open wake-up kept open.
LEMMA RowsStayActive ==
    ASSUME TypeOK, RowInvariant, NEW e \in Entities,
           exec[e].status \in Active, exec'[e].status \in Active,
           exec' = [exec EXCEPT ![e] = exec'[e]],
           exec'[e].from = exec[e].from, exec'[e].to = exec[e].to,
           exec'[e].range = exec[e].range,
           ExecutionChecks(e)',
           UNCHANGED <<range, lastId, plan>>,
           wakeup' \in {wakeup, [wakeup EXCEPT ![e] = RescheduledWakeup]}
    PROVE  RowInvariant'
<1>0. \A f \in Entities : f # e => exec'[f] = exec[f]
  BY DEF TypeOK
<1>1. RowConstraints'
  <2>1. \A f \in Entities : ExecutionChecks(f)'
    BY <1>0 DEF RowInvariant, RowConstraints, ExecutionChecks
  <2>2. \A f \in Entities : WakeupChecks(f)'
    BY WakeupAssumption DEF RowInvariant, RowConstraints, WakeupChecks, RescheduledWakeup, TypeOK
  <2>3. \A r \in Ranges : RangeChecks(r)'
    BY DEF RowInvariant, RowConstraints, RangeChecks
  <2>4. QED BY <2>1, <2>2, <2>3 DEF RowConstraints
<1>2. ActiveWindow'
  <2>1. \A f \in Entities :
           exec'[f].status \in Active => WorksOnWindowOf(f, range[exec[f].range])'
    BY <1>0 DEF RowInvariant, ActiveWindow, WorksOnWindowOf
  <2>2. \A f, g \in Entities :
           /\ exec'[f].status \in Active /\ exec'[g].status \in Active
           /\ exec'[f].range = exec'[g].range
           => f = g
    BY <1>0 DEF RowInvariant, ActiveWindow
  <2>3. \A r \in Ranges : range[r].high # NoMessage =>
           \/ range[r].status = "failed"
           \/ \E f \in Entities : exec'[f].status \in Active /\ exec'[f].range = r
    BY <1>0 DEF RowInvariant, ActiveWindow
  <2>4. QED BY <2>1, <2>2, <2>3 DEF ActiveWindow
<1>3. WakeupAgrees'
  BY <1>0 DEF RowInvariant, WakeupAgrees, RescheduledWakeup, Active, Terminal, TypeOK
<1>4. Bookkeeping'
  BY <1>0 DEF RowInvariant, Bookkeeping, Active
<1>5. QED BY <1>1, <1>2, <1>3, <1>4 DEF RowInvariant

\* A locked range that still admits a proposal has no unfinished execution, and
\* none with the proposed bounds.
LEMMA AdmittedProposal ==
    ASSUME TypeOK, RowInvariant, NEW p \in Snapshot, CanFreeze(p),
           NEW e \in Entities
    PROVE  ~Conflicts(e, p)
<1> SUFFICES ASSUME exec[e].range = p.range, exec[e].status # "absent" PROVE ~Conflicts(e, p)
  BY RangeAssumption DEF RowInvariant, Bookkeeping, Conflicts, Snapshot
<1> DEFINE r == p.range
<1>1. /\ r \in Ranges /\ range[r].high = NoMessage
      /\ range[r].status \in {"pending", "active"}
      /\ p.from = range[r].watermark /\ p.to > p.from
  BY DEF CanFreeze, OpenForFreezing, Snapshot
<1>2. exec[e].status \notin Active
  <2>1. exec[e].from < exec[e].to /\ exec[e].from \in Nat
    BY DEF RowInvariant, RowConstraints, ExecutionChecks, TypeOK, Execution
  <2>2. exec[e].to # NoMessage
    BY <2>1 DEF NoMessage, TypeOK, Execution
  <2>3. QED BY <1>1, <2>2 DEF RowInvariant, ActiveWindow, WorksOnWindowOf
<1>3. exec[e].status # "failed"
  BY <1>1 DEF RowInvariant, Bookkeeping
<1>4. exec[e].status = "completed" => exec[e].to # p.to
  BY <1>1 DEF RowInvariant, Bookkeeping, TypeOK, Execution, Range, Snapshot
<1>5. exec[e].status \in Active \cup Terminal
  BY DEF TypeOK, Execution
<1>6. QED BY <1>2, <1>3, <1>4, <1>5 DEF Conflicts, Terminal

LEMMA RowsCreate ==
    ASSUME TypeOK, RowInvariant, NEW s \in Schedulers, NEW p \in plan[s], Freeze(s, p)
    PROVE  RowInvariant'
<1> PICK e \in Entities : CreateExecution(e, p)
  BY DEF Freeze
<1> DEFINE r == p.range
<1>1. p \in Snapshot /\ r \in Ranges /\ p.from \in Nat /\ p.to \in Nat /\ p.profile \in Profiles
  BY DEF TypeOK, Snapshot
<1>2. /\ exec'[e].status = "pending" /\ exec'[e].range = r /\ exec'[e].from = p.from
      /\ exec'[e].to = p.to /\ exec'[e].watermark = p.from /\ exec'[e].timer = "none"
  BY DEF CreateExecution, TypeOK
<1>3. \A f \in Entities : f # e => exec'[f] = exec[f]
  BY DEF CreateExecution, TypeOK
<1>4. range'[r].status = "active" /\ range'[r].high = p.to
                                  /\ range'[r].watermark = range[r].watermark
  BY <1>1 DEF CreateExecution, TypeOK, Range
<1>5. \A q \in Ranges : q # r => range'[q] = range[q]
  BY <1>1 DEF CreateExecution, TypeOK
<1>6. /\ range[r].high = NoMessage /\ p.from = range[r].watermark /\ p.to > p.from
      /\ range[r].status \in {"pending", "active"}
      /\ EndMode[r] = "fixed" => p.to = FixedEnd[r]
  BY DEF Freeze, CanFreeze, OpenForFreezing
<1>7. \A f \in Entities : ~(exec[f].range = r /\ exec[f].status \in Active)
  BY DEF Freeze, Conflicts
<1>8. p.to <= lastId /\ lastId' = lastId
  BY DEF RowInvariant, Bookkeeping, Freeze, channelVars
<1>9. exec[e].status = "absent"
  BY DEF CreateExecution
<1>10. RowConstraints'
  <2>1. \A f \in Entities : ExecutionChecks(f)'
    <3>1. ExecutionChecks(e)'
      BY <1>1, <1>2, <1>6 DEF ExecutionChecks
    <3>2. QED BY <1>3, <3>1 DEF RowInvariant, RowConstraints, ExecutionChecks
  <2>2. \A f \in Entities : WakeupChecks(f)'
    BY DEF RowInvariant, RowConstraints, WakeupChecks, CreateExecution, NewWakeup, TypeOK
  <2>3. \A q \in Ranges : RangeChecks(q)'
    BY <1>1, <1>4, <1>5, <1>6 DEF RowInvariant, RowConstraints, RangeChecks
  <2>4. QED BY <2>1, <2>2, <2>3 DEF RowConstraints
<1>11. ActiveWindow'
  <2>1. ASSUME NEW f \in Entities, exec'[f].status \in Active
        PROVE  WorksOnWindowOf(f, range[exec[f].range])'
    <3>1. CASE f = e
      BY <1>2, <1>4, <1>6, <3>1 DEF WorksOnWindowOf
    <3>2. CASE f # e
      <4>1. exec'[f] = exec[f] /\ exec[f].range # r
        BY <1>3, <1>7, <2>1, <3>2
      <4>2. exec[f].range \in Ranges
        BY <2>1, <4>1 DEF RowInvariant, RowConstraints, ExecutionChecks, Active
      <4>3. QED BY <1>5, <2>1, <4>1, <4>2 DEF RowInvariant, ActiveWindow, WorksOnWindowOf
    <3>3. QED BY <3>1, <3>2
  <2>2. \A f, g \in Entities :
           /\ exec'[f].status \in Active /\ exec'[g].status \in Active
           /\ exec'[f].range = exec'[g].range
           => f = g
    BY <1>2, <1>3, <1>7 DEF RowInvariant, ActiveWindow
  <2>3. ASSUME NEW q \in Ranges, range'[q].high # NoMessage
        PROVE  \/ range'[q].status = "failed"
               \/ \E f \in Entities : exec'[f].status \in Active /\ exec'[f].range = q
    <3>1. CASE q = r
      BY <1>2, <3>1 DEF Active
    <3>2. CASE q # r
      <4>1. range[q].high # NoMessage
        BY <1>5, <2>3, <3>2
      <4>2. CASE range[q].status = "failed"
        BY <1>5, <3>2, <4>2
      <4>3. CASE \E f \in Entities : exec[f].status \in Active /\ exec[f].range = q
        BY <1>3, <1>9, <4>3 DEF Active
      <4>4. QED BY <4>1, <4>2, <4>3 DEF RowInvariant, ActiveWindow
    <3>3. QED BY <3>1, <3>2
  <2>4. QED BY <2>1, <2>2, <2>3 DEF ActiveWindow
<1>12. WakeupAgrees'
  BY <1>2, <1>3 DEF RowInvariant, WakeupAgrees, CreateExecution, NewWakeup, Active, Terminal,
                    TypeOK
<1>13. Bookkeeping'
  <2>1. \A t \in Schedulers : \A q \in plan'[t] : q.to <= lastId'
    BY <1>8 DEF RowInvariant, Bookkeeping, Freeze, TypeOK
  <2>2. r # None
    BY <1>1, RangeAssumption
  <2>3. \A f \in Entities :
           /\ exec'[f].status = "absent" <=> exec'[f].range = None
           /\ exec'[f].status # "absent" =>
                 /\ exec'[f].to <= lastId'
                 /\ EndMode[exec'[f].range] = "fixed"
                       => exec'[f].to = FixedEnd[exec'[f].range]
    BY <1>2, <1>3, <1>6, <1>8, <2>2 DEF RowInvariant, Bookkeeping
  <2>4. \A q \in Ranges : /\ range'[q].watermark = range[q].watermark
                          /\ range[q].status = "failed" => range'[q].status = "failed"
    BY <1>4, <1>5, <1>6
  <2>5. \A f \in Entities : exec[f].status # "absent" => exec[f].range \in Ranges
    BY DEF RowInvariant, RowConstraints, ExecutionChecks
  <2>6. \A f \in Entities :
           /\ exec'[f].status = "completed" =>
                 /\ exec'[f].from >= Start[exec'[f].range] - 1
                 /\ exec'[f].to <= range'[exec'[f].range].watermark
           /\ exec'[f].status = "failed" => range'[exec'[f].range].status = "failed"
    BY <1>2, <1>3, <2>4, <2>5 DEF RowInvariant, Bookkeeping
  <2>7. QED BY <1>8, <2>1, <2>3, <2>6 DEF RowInvariant, Bookkeeping
<1>14. QED BY <1>10, <1>11, <1>12, <1>13 DEF RowInvariant

\* The range of an unfinished execution, and the fact that no other execution of
\* that range is unfinished.
LEMMA ActiveFacts ==
    ASSUME TypeOK, RowInvariant, NEW e \in Entities, exec[e].status \in Active
    PROVE  /\ exec[e].range \in Ranges
           /\ exec[e].from \in Nat /\ exec[e].to \in Nat /\ exec[e].from < exec[e].to
           /\ range[exec[e].range].high = exec[e].to
           /\ range[exec[e].range].watermark = exec[e].from
           /\ range[exec[e].range].status = "active"
           /\ exec[e].to <= lastId
           /\ EndMode[exec[e].range] = "fixed" => exec[e].to = FixedEnd[exec[e].range]
           /\ wakeup[e].status \in {"pending", "leased"}
           /\ \A f \in Entities :
                 f # e /\ exec[f].range = exec[e].range => exec[f].status \notin Active
<1>1. exec[e].status # "absent"
  BY DEF Active
<1>2. exec[e].range \in Ranges /\ exec[e].from < exec[e].to
  BY <1>1 DEF RowInvariant, RowConstraints, ExecutionChecks
<1>3. exec[e].from \in Nat /\ exec[e].to \in Nat
  BY DEF TypeOK, Execution
<1>4. WorksOnWindowOf(e, range[exec[e].range])
  BY DEF RowInvariant, ActiveWindow
<1>5. \A f \in Entities : f # e /\ exec[f].range = exec[e].range => exec[f].status \notin Active
  BY DEF RowInvariant, ActiveWindow
<1>6. wakeup[e].status \in {"pending", "leased"}
  BY DEF RowInvariant, WakeupAgrees
<1>7. EndMode[exec[e].range] = "fixed" => exec[e].to = FixedEnd[exec[e].range]
  BY <1>1 DEF RowInvariant, Bookkeeping
<1>8. exec[e].to <= lastId
  BY <1>1 DEF RowInvariant, Bookkeeping
<1>9. QED BY <1>2, <1>3, <1>4, <1>5, <1>6, <1>7, <1>8 DEF WorksOnWindowOf

\* An unfinished execution ends, and its range and wake-up with it.
LEMMA RowsEnd ==
    ASSUME TypeOK, RowInvariant, NEW e \in Entities, exec[e].status \in Active,
           NEW st \in Terminal, NEW row \in Range,
           exec' = [exec EXCEPT ![e] = [exec[e] EXCEPT !.status = st, !.timer = "none"]],
           range' = [range EXCEPT ![exec[e].range] = row],
           wakeup' = [wakeup EXCEPT ![e] = CompletedWakeup],
           UNCHANGED <<lastId, plan>>,
           st = "completed" => /\ exec[e].watermark = exec[e].to
                               /\ row.high = NoMessage /\ row.watermark = exec[e].to,
           st = "failed" => /\ row.high = exec[e].to /\ row.watermark = exec[e].from
                            /\ row.status = "failed"
    PROVE  RowInvariant'
<1> DEFINE r == exec[e].range
<1>1. /\ r \in Ranges
      /\ exec[e].from \in Nat /\ exec[e].to \in Nat /\ exec[e].from < exec[e].to
      /\ range[r].high = exec[e].to /\ range[r].watermark = exec[e].from
      /\ range[r].status = "active"
      /\ exec[e].to <= lastId
      /\ EndMode[r] = "fixed" => exec[e].to = FixedEnd[r]
      /\ \A f \in Entities : f # e /\ exec[f].range = r => exec[f].status \notin Active
  BY ActiveFacts
<1>2. /\ exec'[e].status = st /\ exec'[e].timer = "none" /\ exec'[e].range = r
      /\ exec'[e].from = exec[e].from /\ exec'[e].to = exec[e].to
      /\ exec'[e].watermark = exec[e].watermark
  BY DEF TypeOK, Execution
<1>3. \A f \in Entities : f # e => exec'[f] = exec[f]
  BY DEF TypeOK
<1>4. range'[r] = row /\ \A q \in Ranges : q # r => range'[q] = range[q]
  BY <1>1 DEF TypeOK
<1>5. st \in {"completed", "failed"} /\ st \notin Active /\ st # "absent"
  BY DEF Terminal, Active
<1>6. row.watermark >= Start[r] - 1 /\ range[r].watermark >= Start[r] - 1
  <2>1. range[r].watermark >= Start[r] - 1
    BY <1>1 DEF RowInvariant, RowConstraints, RangeChecks
  <2>2. QED BY <1>1, <1>5, <2>1, RangeAssumption
<1>7. RowConstraints'
  <2>1. \A f \in Entities : ExecutionChecks(f)'
    <3>0. exec[e].watermark \in exec[e].from..exec[e].to
      BY DEF RowInvariant, RowConstraints, ExecutionChecks, Active
    <3>1. ExecutionChecks(e)'
      BY <1>1, <1>2, <1>5, <3>0 DEF ExecutionChecks
    <3>2. QED BY <1>3, <3>1 DEF RowInvariant, RowConstraints, ExecutionChecks
  <2>2. \A f \in Entities : WakeupChecks(f)'
    BY DEF RowInvariant, RowConstraints, WakeupChecks, CompletedWakeup, TypeOK
  <2>3. RangeChecks(r)'
    <3>1. EndMode[r] = "fixed" => range[r].watermark <= FixedEnd[r]
      BY <1>1 DEF RowInvariant, RowConstraints, RangeChecks
    <3>2. QED BY <1>1, <1>4, <1>5, <1>6, <3>1 DEF RangeChecks
  <2>4. \A q \in Ranges : RangeChecks(q)'
    BY <1>4, <2>3 DEF RowInvariant, RowConstraints, RangeChecks
  <2>5. QED BY <2>1, <2>2, <2>4 DEF RowConstraints
<1>8. ActiveWindow'
  <2>1. ASSUME NEW f \in Entities, exec'[f].status \in Active
        PROVE  WorksOnWindowOf(f, range[exec[f].range])'
    <3>1. f # e
      BY <1>2, <1>5, <2>1
    <3>2. exec'[f] = exec[f] /\ exec[f].range # r
      BY <1>1, <1>3, <2>1, <3>1
    <3>3. exec[f].range \in Ranges
      BY <2>1, <3>2 DEF RowInvariant, RowConstraints, ExecutionChecks, Active
    <3>4. QED BY <1>4, <2>1, <3>2, <3>3 DEF RowInvariant, ActiveWindow, WorksOnWindowOf
  <2>2. \A f, g \in Entities :
           /\ exec'[f].status \in Active /\ exec'[g].status \in Active
           /\ exec'[f].range = exec'[g].range
           => f = g
    BY <1>2, <1>3, <1>5 DEF RowInvariant, ActiveWindow
  <2>3. ASSUME NEW q \in Ranges, range'[q].high # NoMessage
        PROVE  \/ range'[q].status = "failed"
               \/ \E f \in Entities : exec'[f].status \in Active /\ exec'[f].range = q
    <3>1. CASE q = r
      BY <1>4, <1>5, <2>3, <3>1
    <3>2. CASE q # r
      <4>1. range'[q] = range[q]
        BY <1>4, <3>2
      <4>2. CASE \E f \in Entities : exec[f].status \in Active /\ exec[f].range = q
        BY <1>3, <3>2, <4>2
      <4>3. QED BY <2>3, <4>1, <4>2 DEF RowInvariant, ActiveWindow
    <3>3. QED BY <3>1, <3>2
  <2>4. QED BY <2>1, <2>2, <2>3 DEF ActiveWindow
<1>9. WakeupAgrees'
  BY <1>2, <1>3, <1>5 DEF RowInvariant, WakeupAgrees, CompletedWakeup, TypeOK
<1>10. Bookkeeping'
  <2>1. \A f \in Entities :
           /\ exec'[f].status = "absent" <=> exec'[f].range = None
           /\ exec'[f].status # "absent" =>
                 /\ exec'[f].to <= lastId
                 /\ EndMode[exec'[f].range] = "fixed"
                       => exec'[f].to = FixedEnd[exec'[f].range]
    BY <1>1, <1>2, <1>3, <1>5, RangeAssumption DEF RowInvariant, Bookkeeping
  <2>2. ASSUME NEW f \in Entities, exec'[f].status \in Terminal
        PROVE  /\ exec'[f].status = "completed" =>
                     /\ exec'[f].from >= Start[exec'[f].range] - 1
                     /\ exec'[f].to <= range'[exec'[f].range].watermark
               /\ exec'[f].status = "failed" => range'[exec'[f].range].status = "failed"
    <3>1. CASE f = e
      BY <1>1, <1>2, <1>4, <1>5, <1>6, <3>1
    <3>2. CASE f # e
      <4>1. exec'[f] = exec[f]
        BY <1>3, <3>2
      <4>2. exec[f].range \in Ranges
        BY <2>2, <4>1 DEF RowInvariant, RowConstraints, ExecutionChecks, Terminal
      <4>3. CASE exec[f].range # r
        BY <1>4, <2>2, <4>1, <4>2, <4>3 DEF RowInvariant, Bookkeeping
      <4>4. CASE exec[f].range = r
        <5>1. exec[f].status # "failed"
          BY <1>1, <4>4 DEF RowInvariant, Bookkeeping
        <5>2. exec[f].status = "completed" /\ exec[f].to <= exec[e].from
              /\ exec[f].from >= Start[r] - 1
          <6>1. exec[f].status = "completed"
            BY <2>2, <4>1, <5>1 DEF Terminal
          <6>2. /\ exec[f].from >= Start[exec[f].range] - 1
                /\ exec[f].to <= range[exec[f].range].watermark
            BY <6>1 DEF RowInvariant, Bookkeeping
          <6>3. QED BY <1>1, <4>4, <6>1, <6>2
        <5>3. row.watermark \in {exec[e].from, exec[e].to} /\ exec[f].to \in Nat
          BY <1>5 DEF TypeOK, Execution
        <5>4. exec[f].to <= row.watermark
          BY <1>1, <5>2, <5>3
        <5>5. QED BY <1>4, <4>1, <4>4, <5>2, <5>4
      <4>5. QED BY <4>3, <4>4
    <3>3. QED BY <3>1, <3>2
  <2>3. QED BY <2>1, <2>2 DEF RowInvariant, Bookkeeping, Terminal
<1>11. QED BY <1>7, <1>8, <1>9, <1>10 DEF RowInvariant

LEMMA RowsFailForGood ==
    ASSUME TypeOK, RowInvariant, NEW e \in Entities, exec[e].status \in Active,
           FailForGood(e), UNCHANGED <<lastId, plan>>
    PROVE  RowInvariant'
<1> DEFINE row == [range[exec[e].range] EXCEPT !.status = "failed"]
<1>1. exec[e].range \in Ranges /\ range[exec[e].range] \in Range
      /\ range[exec[e].range].high = exec[e].to
      /\ range[exec[e].range].watermark = exec[e].from
  BY ActiveFacts DEF TypeOK
<1>2. /\ row \in Range /\ row.high = exec[e].to /\ row.watermark = exec[e].from
      /\ row.status = "failed"
  BY <1>1 DEF Range
<1>3. range' = [range EXCEPT ![exec[e].range] = row]
  BY <1>1 DEF FailForGood
<1>4. "failed" \in Terminal /\ "failed" # "completed"
  BY DEF Terminal
<1>5. QED BY <1>2, <1>3, <1>4, RowsEnd DEF FailForGood

LEMMA PlanKnown ==
    TypeOK /\ RowInvariant =>
        /\ lastId \in Nat
        /\ \A s \in Schedulers : \A p \in plan[s] : p \in Snapshot /\ p.to <= lastId
        /\ \A r \in Ranges : \A m \in Boundary(r) : m \in Nat /\ m <= lastId
<1> SUFFICES ASSUME TypeOK, RowInvariant, NEW r \in Ranges
             PROVE  \A m \in Boundary(r) : m \in Nat /\ m <= lastId
  BY DEF TypeOK, RowInvariant, Bookkeeping
<1>1. CASE EndMode[r] = "fixed"
  BY <1>1, RangeAssumption DEF Boundary, RowInvariant, Bookkeeping, TypeOK
<1>2. CASE EndMode[r] # "fixed"
  <2>1. Boundary(r) \subseteq visible
    BY <1>2 DEF Boundary
  <2>2. visible \subseteq 1..lastId /\ lastId \in Nat
    BY DEF TypeOK
  <2>3. \A m \in visible : m \in Nat /\ m <= lastId
    BY <2>2
  <2>4. QED BY <2>1, <2>3
<1>3. QED BY <1>1, <1>2

LEMMA RowEnvironment == TypeOK /\ RowInvariant /\ Environment => RowInvariant'
<1> SUFFICES ASSUME TypeOK, RowInvariant, Environment PROVE RowInvariant'
  OBVIOUS
<1>1. lastId \in Nat /\ \A s \in Schedulers : \A p \in plan[s] : p \in Snapshot /\ p.to <= lastId
  BY PlanKnown
<1>2. CASE Publish
  <2>1. \A s \in Schedulers : \A p \in plan[s] : p.to <= lastId + 1
    BY <1>1 DEF Snapshot
  <2>2. QED BY <1>1, <1>2, <2>1, RowsUntouched DEF Publish, wakeupVars, planVars
<1>3. CASE \/ \E m \in visible : DeleteMessage(m)
           \/ Settle
           \/ \E p \in Profiles \cup {None} : ConfigureChannel(p)
           \/ \E r \in Ranges : ToggleRange(r)
           \/ \E e \in Entities : BrokerLoses(e)
  <2>1. UNCHANGED <<exec, range, wakeup, lastId, plan>>
    BY <1>3 DEF DeleteMessage, Settle, ConfigureChannel, ToggleRange, BrokerLoses, LoseMessage,
                wakeupVars, channelVars, planVars
  <2>2. QED BY <1>1, <2>1, RowsUntouched
<1>4. CASE \E e \in Entities : ExecutionTimerElapses(e)
  <2> PICK e \in Entities : ExecutionTimerElapses(e)
    BY <1>4
  <2>1. exec'[e] = [exec[e] EXCEPT !.timer = "elapsed"]
    BY DEF ExecutionTimerElapses, TypeOK
  <2>2. exec[e].status \in {"running", "retry_wait"}
    BY DEF ExecutionTimerElapses, RowInvariant, RowConstraints, ExecutionChecks
  <2>3. exec[e] \in Execution
    BY DEF TypeOK
  <2>4. /\ exec'[e].status = exec[e].status /\ exec'[e].from = exec[e].from
        /\ exec'[e].to = exec[e].to /\ exec'[e].range = exec[e].range
        /\ exec'[e].watermark = exec[e].watermark /\ exec'[e].timer = "elapsed"
    BY <2>1, <2>3 DEF Execution
  <2>5. ExecutionChecks(e)'
    BY <2>2, <2>4 DEF RowInvariant, RowConstraints, ExecutionChecks
  <2>6. exec' = [exec EXCEPT ![e] = exec'[e]] /\ UNCHANGED <<range, lastId, plan, wakeup>>
    BY <2>1 DEF ExecutionTimerElapses, wakeupVars, channelVars, planVars
  <2>7. QED BY <2>2, <2>4, <2>5, <2>6, RowsStayActive DEF Active
<1>5. CASE \E e \in Entities : WakeupBecomesDue(e)
  <2> PICK e \in Entities : WakeupBecomesDue(e)
    BY <1>5
  <2>1. wakeup'[e] = [wakeup[e] EXCEPT !.timer = "elapsed"] /\ wakeup[e].timer = "set"
    BY DEF WakeupBecomesDue, WakeupTimerElapses, TypeOK
  <2>2. wakeup[e] \in Wakeup
    BY DEF TypeOK
  <2>3. /\ wakeup'[e].status = wakeup[e].status /\ wakeup'[e].holder = wakeup[e].holder
        /\ wakeup'[e].timer = "elapsed"
    BY <2>1, <2>2 DEF Wakeup
  <2>4. \A f \in Entities : f # e => wakeup'[f] = wakeup[f]
    BY DEF WakeupBecomesDue, WakeupTimerElapses, TypeOK
  <2>5. \A f \in Entities : WakeupChecks(f)
    BY DEF RowInvariant, RowConstraints
  <2>6. WakeupChecks(e)'
    <3>1. WakeupChecks(e)
      BY <2>5
    <3>2. QED BY <2>1, <2>3, <3>1 DEF WakeupChecks
  <2>7. \A f \in Entities : WakeupChecks(f)'
    BY <2>4, <2>5, <2>6 DEF WakeupChecks
  <2>8. QED BY <1>1, <2>3, <2>4, <2>7, RowsSame DEF WakeupBecomesDue, channelVars, planVars
<1>6. QED
  BY <1>2, <1>3, <1>4, <1>5 DEF Environment

LEMMA RowScheduler ==
    ASSUME TypeOK, RowInvariant, NEW s \in Schedulers, SchedulerStep(s) PROVE RowInvariant'
<1>1. lastId \in Nat /\ \A t \in Schedulers : \A p \in plan[t] : p \in Snapshot /\ p.to <= lastId
  BY PlanKnown
<1> USE DEF wakeupVars, channelVars
<1>2. CASE ListEnabledRanges(s)
  <2>1. \A t \in Schedulers : \A p \in plan'[t] : p.to <= lastId
    BY <1>1, <1>2 DEF ListEnabledRanges, NoMessage, TypeOK
  <2>2. QED BY <1>1, <1>2, <2>1, RowsUntouched DEF ListEnabledRanges
<1>3. CASE \E p \in plan[s] : Propose(s, p)
  <2> PICK p \in plan[s] : Propose(s, p)
    BY <1>3
  <2>1. p \in Snapshot /\ p.range \in Ranges
    BY <1>1 DEF Snapshot
  <2>2. PICK m \in Boundary(p.range) :
           plan' = [plan EXCEPT ![s] = (plan[s] \ {p}) \cup {[p EXCEPT !.to = m]}]
    BY DEF Propose
  <2>3. m <= lastId
    BY <2>1, PlanKnown
  <2>4. [p EXCEPT !.to = m].to = m
    BY <2>1 DEF Snapshot
  <2>5. \A t \in Schedulers : \A q \in plan'[t] : q.to <= lastId
    BY <1>1, <2>2, <2>3, <2>4 DEF TypeOK
  <2>6. QED BY <1>1, <2>5, RowsUntouched DEF Propose
<1>4. CASE \E p \in plan[s] : SkipRange(s, p) \/ RefuseFreeze(s, p)
  <2>1. \A t \in Schedulers : plan'[t] \subseteq plan[t]
    BY <1>4 DEF SkipRange, RefuseFreeze, TypeOK
  <2>2. UNCHANGED <<exec, range, wakeup, lastId>>
    BY <1>4 DEF SkipRange, RefuseFreeze
  <2>3. QED BY <1>1, <2>1, <2>2, RowsUntouched
<1>5. CASE \E p \in plan[s] : Freeze(s, p)
  BY <1>5, RowsCreate
<1>6. CASE BeginDispatch(s)
  <2> PICK S \in SUBSET Entities : ClaimDue(s, S)
    BY <1>6 DEF BeginDispatch
  <2>1. \A f \in Entities : wakeup'[f] = IF f \in S THEN LeasedWakeup(s) ELSE wakeup[f]
    BY DEF ClaimDue
  <2>2. \A f \in S : wakeup[f].status \in {"pending", "leased"}
    BY DEF ClaimDue, Due
  <2>3. \A f \in Entities : WakeupChecks(f)'
    BY <2>1, WakeupAssumption DEF LeasedWakeup, RowInvariant, RowConstraints, WakeupChecks
  <2>4. \A f \in Entities : \/ wakeup'[f].status = wakeup[f].status
                            \/ {wakeup'[f].status, wakeup[f].status} \subseteq {"pending", "leased"}
    BY <2>1, <2>2 DEF LeasedWakeup
  <2>5. QED BY <1>1, <1>6, <2>3, <2>4, RowsSame DEF BeginDispatch
<1>7. CASE \E e \in Entities : DispatchStep(s, e)
  <2> PICK e \in Entities : DispatchStep(s, e)
    BY <1>7
  <2>1. UNCHANGED <<exec, range, lastId, plan>>
    BY DEF DispatchStep, planVars
  <2>2. CASE UNCHANGED wakeup
    BY <1>1, <2>1, <2>2, RowsUntouched
  <2>3. CASE ~UNCHANGED wakeup
    <3>1. wakeup[e].status = "leased" /\ wakeup' = [wakeup EXCEPT ![e] = RescheduledWakeup]
      BY <2>3 DEF DispatchStep, Dispatch, DispatchFails, TakeClaim, ReleaseClaim
    <3>2. \A f \in Entities : f # e => wakeup'[f] = wakeup[f]
      BY <3>1 DEF TypeOK
    <3>3. wakeup'[e] = RescheduledWakeup
      BY <3>1 DEF TypeOK
    <3>4. \A f \in Entities : WakeupChecks(f)'
      BY <3>2, <3>3 DEF RescheduledWakeup, RowInvariant, RowConstraints, WakeupChecks
    <3>5. \A f \in Entities : \/ wakeup'[f].status = wakeup[f].status
                              \/ {wakeup'[f].status, wakeup[f].status} \subseteq {"pending", "leased"}
      BY <3>1, <3>2, <3>3 DEF RescheduledWakeup
    <3>6. QED BY <1>1, <2>1, <3>4, <3>5, RowsSame
  <2>4. QED BY <2>2, <2>3
<1>8. CASE CycleAborts(s)
  <2>1. \A t \in Schedulers : plan'[t] \subseteq plan[t]
    BY <1>8 DEF CycleAborts, TypeOK
  <2>2. UNCHANGED <<exec, range, wakeup, lastId>>
    BY <1>8 DEF CycleAborts, ForgetClaims
  <2>3. QED BY <1>1, <2>1, <2>2, RowsUntouched
<1>9. QED
  BY <1>2, <1>3, <1>4, <1>5, <1>6, <1>7, <1>8 DEF SchedulerStep

LEMMA RowWorker ==
    ASSUME TypeOK, RowInvariant, NEW w \in Workers, WorkerStep(w) PROVE RowInvariant'
<1>1. lastId \in Nat /\ \A s \in Schedulers : \A p \in plan[s] : p \in Snapshot /\ p.to <= lastId
  BY PlanKnown
<1> USE DEF channelVars, planVars
<1>2. CASE \E e \in Entities : StartTask(w, e)
  <2> PICK e \in Entities : StartTask(w, e)
    BY <1>2
  <2>1. exec[e] \in Execution /\ UNCHANGED <<lastId, plan>>
    BY DEF TypeOK, StartTask
  <2>2. CASE ClaimExecution(w, e)
    <3>1. exec'[e] = [exec[e] EXCEPT !.status = "running", !.timer = "set",
                                     !.attempts = exec[e].attempts + 1]
      BY <2>2 DEF ClaimExecution, TypeOK
    <3>2. /\ exec'[e].status = "running" /\ exec'[e].from = exec[e].from
          /\ exec'[e].to = exec[e].to /\ exec'[e].range = exec[e].range
          /\ exec'[e].watermark = exec[e].watermark /\ exec'[e].timer = "set"
      BY <2>1, <3>1 DEF Execution
    <3>3. exec[e].status \in Active
      BY <2>2 DEF ClaimExecution, Eligible, Active
    <3>4. ExecutionChecks(e)'
      BY <3>2, <3>3 DEF RowInvariant, RowConstraints, ExecutionChecks, Active
    <3>5. exec' = [exec EXCEPT ![e] = exec'[e]] /\ UNCHANGED <<range, wakeup>>
      BY <2>2, <3>1 DEF ClaimExecution
    <3>6. QED BY <2>1, <3>2, <3>3, <3>4, <3>5, RowsStayActive DEF Active
  <2>3. CASE TerminalizeExhausted(e)
    BY <2>1, <2>3, RowsFailForGood DEF TerminalizeExhausted, Eligible, Active
  <2>4. CASE UNCHANGED <<exec, range, wakeup>>
    BY <1>1, <2>1, <2>4, RowsUntouched
  <2>5. QED BY <2>2, <2>3, <2>4 DEF StartTask
<1>3. CASE FetchHistory(w) \/ (\E m \in task[w].todo : IngestMessage(w, m)) \/ TaskAborts(w)
  <2>1. UNCHANGED <<exec, range, wakeup, lastId, plan>>
    BY <1>3 DEF FetchHistory, IngestMessage, TaskAborts, wakeupVars
  <2>2. QED BY <1>1, <2>1, RowsUntouched
<1>4. CASE AdvanceWatermark(w)
  <2> PICK e \in Entities : e = task[w].exec
    BY <1>4 DEF AdvanceWatermark, TypeOK
  <2>0. UNCHANGED <<range, wakeup, lastId, plan>>
    BY <1>4 DEF AdvanceWatermark, wakeupVars
  <2>1. CASE UNCHANGED exec
    BY <1>1, <2>0, <2>1, RowsUntouched
  <2>2. CASE ~UNCHANGED exec
    <3>1. e \in Entities /\ exec[e] \in Execution /\ exec[e].status = "running"
          /\ exec' = [exec EXCEPT ![e].watermark = exec[e].to]
      BY <1>4, <2>2 DEF AdvanceWatermark, HoldsLease, TypeOK
    <3>2. exec'[e] = [exec[e] EXCEPT !.watermark = exec[e].to]
      BY <3>1 DEF TypeOK
    <3>3. /\ exec'[e].status = "running" /\ exec'[e].from = exec[e].from
          /\ exec'[e].to = exec[e].to /\ exec'[e].range = exec[e].range
          /\ exec'[e].watermark = exec[e].to /\ exec'[e].timer = exec[e].timer
      BY <3>1, <3>2 DEF Execution
    <3>4. exec[e].from \in Nat /\ exec[e].to \in Nat
      BY <3>1 DEF Execution
    <3>5. ExecutionChecks(e)
      BY <3>1 DEF RowInvariant, RowConstraints
    <3>6. ExecutionChecks(e)'
      BY <3>1, <3>3, <3>4, <3>5 DEF ExecutionChecks
    <3>7. exec' = [exec EXCEPT ![e] = exec'[e]]
      BY <3>1, <3>2
    <3>8. exec[e].status \in Active /\ exec'[e].status \in Active
      BY <3>1, <3>3 DEF Active
    <3>9. QED BY <2>0, <3>1, <3>3, <3>6, <3>7, <3>8, RowsStayActive
  <2>3. QED BY <2>1, <2>2
<1>5. CASE CompleteExecution(w)
  <2> DEFINE e == task[w].exec
  <2>0. UNCHANGED <<lastId, plan>> /\ e \in Entities
    BY <1>5 DEF CompleteExecution, TypeOK
  <2>1. CASE ~CompletionGuard(w)
    BY <1>1, <1>5, <2>0, <2>1, RowsUntouched DEF CompleteExecution
  <2>2. CASE CompletionGuard(w)
    <3>1. exec[e].status \in Active /\ exec[e].watermark = exec[e].to
      BY <2>2 DEF CompletionGuard, HoldsLease, Active
    <3>2. exec[e].to \in Nat
      BY <3>1, ActiveFacts, <2>0
    <3>3. /\ CompletedRange(exec[e].range, exec[e].to) \in Range
          /\ CompletedRange(exec[e].range, exec[e].to).high = NoMessage
          /\ CompletedRange(exec[e].range, exec[e].to).watermark = exec[e].to
      BY <3>2 DEF CompletedRange, Range, NoMessage
    <3>4. "completed" \in Terminal
      BY DEF Terminal
    <3>5. /\ exec' = [exec EXCEPT ![e] = [exec[e] EXCEPT !.status = "completed",
                                                          !.timer = "none"]]
          /\ range' = [range EXCEPT ![exec[e].range] = CompletedRange(exec[e].range, exec[e].to)]
          /\ wakeup' = [wakeup EXCEPT ![e] = CompletedWakeup]
      BY <1>5, <2>2 DEF CompleteExecution
    <3>6. QED BY <2>0, <3>1, <3>3, <3>4, <3>5, RowsEnd
  <2>3. QED BY <2>1, <2>2
<1>6. CASE \E retryable \in BOOLEAN : FailExecution(w, retryable)
  <2> PICK retryable \in BOOLEAN : FailExecution(w, retryable)
    BY <1>6
  <2> PICK e \in Entities : e = task[w].exec
    BY DEF FailExecution, TypeOK
  <2>0. /\ UNCHANGED <<lastId, plan>> /\ e \in Entities /\ exec[e].status = "running"
        /\ exec[e] \in Execution
    BY DEF FailExecution, TypeOK, HoldsLease
  <2>1. CASE FailForGood(e)
    BY <2>0, <2>1, RowsFailForGood DEF Active
  <2>2. CASE ~FailForGood(e)
    <3>1. /\ exec' = [exec EXCEPT ![e] = [exec[e] EXCEPT !.status = "retry_wait", !.timer = "set"]]
          /\ wakeup' = [wakeup EXCEPT ![e] = RescheduledWakeup]
          /\ UNCHANGED range
      BY <2>2 DEF FailExecution
    <3>2. exec'[e] = [exec[e] EXCEPT !.status = "retry_wait", !.timer = "set"]
      BY <2>0, <3>1 DEF TypeOK
    <3>3. /\ exec'[e].status = "retry_wait" /\ exec'[e].from = exec[e].from
          /\ exec'[e].to = exec[e].to /\ exec'[e].range = exec[e].range
          /\ exec'[e].watermark = exec[e].watermark /\ exec'[e].timer = "set"
      BY <2>0, <3>2 DEF Execution
    <3>4. ExecutionChecks(e)
      BY <2>0 DEF RowInvariant, RowConstraints
    <3>5. ExecutionChecks(e)'
      BY <2>0, <3>3, <3>4 DEF ExecutionChecks
    <3>6. exec' = [exec EXCEPT ![e] = exec'[e]]
      BY <3>1, <3>2
    <3>7. exec[e].status \in Active /\ exec'[e].status \in Active
      BY <2>0, <3>3 DEF Active
    <3>8. wakeup[e].status \in {"pending", "leased"}
      BY <2>0, <3>7 DEF RowInvariant, WakeupAgrees
    <3>9. QED BY <2>0, <3>1, <3>3, <3>5, <3>6, <3>7, <3>8, RowsStayActive
  <2>3. QED BY <2>1, <2>2
<1>7. QED
  BY <1>2, <1>3, <1>4, <1>5, <1>6 DEF WorkerStep

LEMMA RowNext == TypeOK /\ RowInvariant /\ [Next]_vars => RowInvariant'
<1> SUFFICES ASSUME TypeOK, RowInvariant, [Next]_vars PROVE RowInvariant'
  OBVIOUS
<1>1. CASE Next
  BY <1>1, RowEnvironment, RowScheduler, RowWorker DEF Next
<1>2. CASE UNCHANGED vars
  <2>1. lastId \in Nat /\ \A s \in Schedulers : \A p \in plan[s] : p \in Snapshot /\ p.to <= lastId
    BY PlanKnown
  <2>2. QED BY <1>2, <2>1, RowsUntouched DEF vars, wakeupVars, channelVars, planVars
<1>3. QED BY <1>1, <1>2

\* The row invariant holds in every reachable state.
THEOREM RowsCorrect == Spec => []RowInvariant
BY RowInit, RowNext, TypeCorrect, PTL DEF Spec

\* No statement of a scheduler, dispatcher or worker can meet a CHECK constraint
\* of the three tables.
THEOREM ConstraintsNeverMet == Spec => []RowConstraints
<1>1. RowInvariant => RowConstraints
  BY DEF RowInvariant
<1>2. QED BY <1>1, RowsCorrect, PTL

\* An unfinished execution and its range agree about the window, and a range has
\* one unfinished execution at most, whatever cycles and workers overlap.
THEOREM WindowAgreement == Spec => []ActiveWindow
<1>1. RowInvariant => ActiveWindow
  BY DEF RowInvariant
<1>2. QED BY <1>1, RowsCorrect, PTL

\* An unfinished execution keeps an open wake-up, a finished one has none.
THEOREM WakeupAgreement == Spec => []WakeupAgrees
<1>1. RowInvariant => WakeupAgrees
  BY DEF RowInvariant
<1>2. QED BY <1>1, RowsCorrect, PTL

\* _can_freeze on the locked range leaves nothing for the unique indexes to refuse.
THEOREM FreezeIsEnough == Spec => []FreezeNeverConflicts
<1>1. TypeOK /\ RowInvariant => FreezeNeverConflicts
  <2> SUFFICES ASSUME TypeOK, RowInvariant, NEW s \in Schedulers, NEW p \in plan[s],
                      CanFreeze(p), NEW e \in Entities
               PROVE  ~Conflicts(e, p)
    BY DEF FreezeNeverConflicts
  <2>1. p \in Snapshot
    BY DEF TypeOK
  <2>2. QED BY <2>1, AdmittedProposal
<1>2. QED BY <1>1, RowsCorrect, TypeCorrect, PTL

=============================================================================
