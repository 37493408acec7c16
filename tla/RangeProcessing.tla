-------------------------- MODULE RangeProcessing --------------------------
(***************************************************************************)
(* Processing ranges of one source channel: scheduler cycles freeze finite *)
(* windows of message ids as range executions, the dispatcher of           *)
(* DurableWakeups delivers their ids, and workers lease an execution,      *)
(* ingest the window's history, advance the watermark and complete.        *)
(* Entities are the rows of range_executions.                              *)
(*                                                                         *)
(* A range's processing watermark is NULL until its first completion and   *)
(* every reader replaces NULL by resolved_start_message_id - 1; `watermark`*)
(* is the value after that replacement.                                    *)
(*                                                                         *)
(* The lease token of an execution is fresh per claim, and so is the       *)
(* attempt number the claim writes, which stands for it.                   *)
(***************************************************************************)
EXTENDS DurableWakeups

CONSTANTS
    Ranges,         \* rows of processing_ranges with resolved boundaries
    Workers,        \* Celery worker slots
    Profiles,       \* published profile versions
    EndMode,        \* [Ranges -> {"fixed", "latest"}]
    Start,          \* resolved_start_message_id of a range
    FixedEnd,       \* resolved_fixed_end_message_id of a fixed range
    InitialLast,    \* newest message id when the ranges were resolved
    MaxMessageId,   \* bound: newest message id ever published
    MaxAttempts,    \* max_attempts of an execution
    Reconfigures    \* bound: whether the operator changes the configuration

\* NULL for message ids; the CHECK constraints keep the real ones above it.
NoMessage == 0

\* resolved_fixed_end_message_id is the id of a message that exists already.
ASSUME RangeAssumption ==
    /\ EndMode \in [Ranges -> {"fixed", "latest"}]
    /\ Start \in [Ranges -> Nat \ {0}]
    /\ FixedEnd \in [Ranges -> Nat]
    /\ \A r \in Ranges : EndMode[r] = "fixed" => FixedEnd[r] \in Start[r]..InitialLast
    /\ InitialLast \in Nat
    /\ MaxMessageId \in Nat
    /\ MaxAttempts \in Nat \ {0}
    /\ Reconfigures \in BOOLEAN
    /\ None \notin Ranges \cup Profiles

VARIABLES
    lastId,     \* newest message id the channel has published
    visible,    \* messages of the channel that are not deleted
    settled,    \* published_at of every id up to this one is steady_after ago
    ingested,   \* message ids persisted in messages
    profile,    \* active_profile_version_id; None too when the channel is disabled
    enabled,    \* ranges with enabled = true
    range,      \* processing_ranges: status, watermark, active high watermark
    exec,       \* range_executions
    scheduling, \* schedulers inside ProcessingRangeScheduler.schedule
    plan,       \* plan[s]: what s has read and not yet frozen or skipped
    task        \* task[w]: the claim w is processing

channelVars == <<lastId, visible, settled>>
configVars == <<profile, enabled>>
planVars == <<scheduling, plan>>
vars == <<wakeupVars, channelVars, ingested, configVars, range, exec, planVars, task>>

-----------------------------------------------------------------------------
(* Rows and snapshots *)

Active == {"pending", "running", "retry_wait"}
Terminal == {"completed", "failed"}

Range == [status : {"pending", "active", "completed", "failed"},
          watermark : Nat, high : Nat]

Execution == [status : {"absent"} \cup Active \cup Terminal,
              range : Ranges \cup {None}, from : Nat, to : Nat,
              profile : Profiles \cup {None}, watermark : Nat,
              attempts : 0..MaxAttempts, timer : Timer]

NoExecution == [status |-> "absent", range |-> None, from |-> 0, to |-> 0,
                profile |-> None, watermark |-> 0, attempts |-> 0, timer |-> "none"]

\* A ScheduledProcessingRange, then the PendingRangeExecution made of it: `to`
\* is NoMessage until the boundary is known.
Snapshot == [range : Ranges, from : Nat, to : Nat, profile : Profiles]

Task == [at : {"idle", "fetch", "ingest", "complete"},
         exec : Entities \cup {None}, token : 0..MaxAttempts, todo : SUBSET Nat]

Idle == [at |-> "idle", exec |-> None, token |-> 0, todo |-> {}]

Init ==
    /\ WakeupInit
    /\ lastId = InitialLast
    /\ visible = 1..InitialLast
    /\ settled = 0
    /\ ingested = {}
    /\ profile \in Profiles
    /\ enabled = Ranges
    /\ range = [r \in Ranges |->
                   [status |-> "pending", watermark |-> Start[r] - 1, high |-> NoMessage]]
    /\ exec = [e \in Entities |-> NoExecution]
    /\ scheduling = {}
    /\ plan = [s \in Schedulers |-> {}]
    /\ task = [w \in Workers |-> Idle]

-----------------------------------------------------------------------------
(* The source channel and the operator *)

Publish ==
    /\ lastId < MaxMessageId
    /\ lastId' = lastId + 1
    /\ visible' = visible \cup {lastId + 1}
    /\ UNCHANGED <<wakeupVars, settled, ingested, configVars, range, exec, planVars, task>>

DeleteMessage(m) ==
    /\ m \in visible
    /\ visible' = visible \ {m}
    /\ UNCHANGED <<wakeupVars, lastId, settled, ingested, configVars, range, exec,
                   planVars, task>>

\* The channel has been quiet for steady_after_seconds.
Settle ==
    /\ settled < lastId
    /\ settled' = lastId
    /\ UNCHANGED <<wakeupVars, lastId, visible, ingested, configVars, range, exec,
                   planVars, task>>

ConfigureChannel(p) ==
    /\ Reconfigures
    /\ profile' = p
    /\ UNCHANGED <<wakeupVars, channelVars, ingested, enabled, range, exec, planVars, task>>

ToggleRange(r) ==
    /\ Reconfigures
    /\ enabled' = IF r \in enabled THEN enabled \ {r} ELSE enabled \cup {r}
    /\ UNCHANGED <<wakeupVars, channelVars, ingested, profile, range, exec, planVars, task>>

-----------------------------------------------------------------------------
(* Scheduler cycle: schedule(), then dispatch_due() *)

\* Fault: a range that already has a window is offered again.
OpenDespiteWindow(r) ==
    /\ r \in enabled
    /\ profile # None
    /\ range[r].status \in {"pending", "active"}

\* Fault: only a range that never had a window is offered.
OpenOnce(r) ==
    /\ r \in enabled
    /\ profile # None
    /\ range[r].status = "pending"
    /\ range[r].high = NoMessage

\* ProcessingRangeRecord columns list_enabled_ranges and _can_freeze both ask for.
OpenForFreezing(r) ==
    /\ r \in enabled
    /\ profile # None
    /\ range[r].status \in {"pending", "active"}
    /\ range[r].high = NoMessage

ListEnabledRanges(s) ==
    /\ s \notin scheduling
    /\ NothingClaimed(s)
    /\ scheduling' = scheduling \cup {s}
    /\ plan' = [plan EXCEPT ![s] =
                  {[range |-> r, from |-> range[r].watermark, to |-> NoMessage,
                    profile |-> profile] : r \in {q \in Ranges : OpenForFreezing(q)}}]
    /\ UNCHANGED <<wakeupVars, channelVars, ingested, configVars, range, exec, task>>

\* The boundary the loop freezes up to, or nothing where it says continue: the
\* resolved end, or the newest message that still exists if it is old enough.
Boundary(r) ==
    IF EndMode[r] = "fixed"
    THEN {FixedEnd[r]}
    ELSE {m \in visible : m <= settled /\ \A n \in visible : n <= m}

\* One range is proposed and frozen (or skipped) before the loop takes the next.
NothingProposed(s) == \A p \in plan[s] : p.to = NoMessage

Propose(s, p) ==
    /\ p \in plan[s]
    /\ NothingProposed(s)
    /\ \E m \in Boundary(p.range) :
          /\ m > p.from
          /\ plan' = [plan EXCEPT ![s] = (@ \ {p}) \cup {[p EXCEPT !.to = m]}]
    /\ UNCHANGED <<wakeupVars, channelVars, ingested, configVars, range, exec, scheduling,
                   task>>

\* Nothing new, or a channel that was not quiet yet at the cycle's `now`.
SkipRange(s, p) ==
    /\ p \in plan[s]
    /\ NothingProposed(s)
    /\ EndMode[p.range] = "latest" \/ \A m \in Boundary(p.range) : m <= p.from
    /\ plan' = [plan EXCEPT ![s] = @ \ {p}]
    /\ UNCHANGED <<wakeupVars, channelVars, ingested, configVars, range, exec, scheduling,
                   task>>

\* Fault: the watermark of the snapshot is taken for the row's.
CanFreezeFromSnapshot(p) ==
    /\ OpenForFreezing(p.range)
    /\ profile = p.profile
    /\ p.to > p.from
    /\ EndMode[p.range] = "fixed" => p.to = FixedEnd[p.range]

\* _can_freeze, on the locked row and the proposed execution.
CanFreeze(p) ==
    /\ OpenForFreezing(p.range)
    /\ profile = p.profile
    /\ p.from = range[p.range].watermark
    /\ p.to > p.from
    /\ EndMode[p.range] = "fixed" => p.to = FixedEnd[p.range]

\* uq_range_execution_bounds and uq_range_execution_one_active.
Conflicts(e, p) ==
    /\ exec[e].range = p.range
    /\ \/ exec[e].status \in Active
       \/ exec[e].from = p.from /\ exec[e].to = p.to

CreateExecution(e, p) ==
    /\ exec[e].status = "absent"
    /\ exec' = [exec EXCEPT ![e] =
                  [status |-> "pending", range |-> p.range, from |-> p.from, to |-> p.to,
                   profile |-> p.profile, watermark |-> p.from, attempts |-> 0,
                   timer |-> "none"]]
    /\ range' = [range EXCEPT ![p.range] = [@ EXCEPT !.high = p.to, !.status = "active"]]
    /\ wakeup' = [wakeup EXCEPT ![e] = NewWakeup]

\* create_execution_and_wakeup: one transaction that ends in one of two ways.
Freeze(s, p) ==
    /\ p \in plan[s]
    /\ p.to # NoMessage
    /\ CanFreeze(p)
    /\ ~ \E e \in Entities : Conflicts(e, p)
    /\ plan' = [plan EXCEPT ![s] = @ \ {p}]
    /\ \E e \in Entities : CreateExecution(e, p)
    /\ UNCHANGED <<inFlight, claims, sending, channelVars, ingested, configVars, scheduling,
                   task>>

RefuseFreeze(s, p) ==
    /\ p \in plan[s]
    /\ p.to # NoMessage
    /\ ~CanFreeze(p) \/ \E e \in Entities : Conflicts(e, p)
    /\ plan' = [plan EXCEPT ![s] = @ \ {p}]
    /\ UNCHANGED <<wakeupVars, channelVars, ingested, configVars, range, exec, scheduling,
                   task>>

BeginDispatch(s) ==
    /\ s \in scheduling
    /\ plan[s] = {}
    /\ \E S \in SUBSET Entities : ClaimDue(s, S)
    /\ scheduling' = scheduling \ {s}
    /\ UNCHANGED <<channelVars, ingested, configVars, range, exec, plan, task>>

DispatchStep(s, e) ==
    /\ Dispatch(s, e) \/ DispatchFails(s, e) \/ ReleaseClaim(s, e)
    /\ UNCHANGED <<channelVars, ingested, configVars, range, exec, planVars, task>>

\* A boundary observation or a database call raises out of run_once, or the
\* process dies.
CycleAborts(s) ==
    /\ s \in scheduling \/ ~NothingClaimed(s)
    /\ ForgetClaims(s)
    /\ scheduling' = scheduling \ {s}
    /\ plan' = [plan EXCEPT ![s] = {}]
    /\ UNCHANGED <<channelVars, ingested, configVars, range, exec, task>>

-----------------------------------------------------------------------------
(* Range worker *)

\* Fault: an expired lease is not taken over.
EligibleUnleased(e) ==
    \/ exec[e].status = "pending"
    \/ exec[e].status = "retry_wait" /\ exec[e].timer = "elapsed"

Eligible(e) ==
    \/ exec[e].status = "pending"
    \/ exec[e].status \in {"retry_wait", "running"} /\ exec[e].timer = "elapsed"

\* Fault: attempts are counted but not limited.
ClaimWithoutLimit(w, e) ==
    /\ Eligible(e)
    /\ exec' = [exec EXCEPT ![e] = [@ EXCEPT !.status = "running", !.timer = "set",
                                             !.attempts = exec[e].attempts + 1]]
    /\ task' = [task EXCEPT ![w] = [at |-> "fetch", exec |-> e,
                                    token |-> exec[e].attempts + 1, todo |-> {}]]
    /\ UNCHANGED <<range, wakeup>>

ClaimExecution(w, e) ==
    /\ Eligible(e)
    /\ exec[e].attempts < MaxAttempts
    /\ exec' = [exec EXCEPT ![e] = [@ EXCEPT !.status = "running", !.timer = "set",
                                             !.attempts = exec[e].attempts + 1]]
    /\ task' = [task EXCEPT ![w] = [at |-> "fetch", exec |-> e,
                                    token |-> exec[e].attempts + 1, todo |-> {}]]
    /\ UNCHANGED <<range, wakeup>>

\* Fault: the window is given up but its range stays open for the next one.
FailWithoutRange(e) ==
    /\ exec' = [exec EXCEPT ![e] = [@ EXCEPT !.status = "failed", !.timer = "none"]]
    /\ range' = [range EXCEPT ![exec[e].range].high = NoMessage]
    /\ wakeup' = [wakeup EXCEPT ![e] = CompletedWakeup]

\* The effect of a terminal failure on the execution, its range and its wake-up.
FailForGood(e) ==
    /\ exec' = [exec EXCEPT ![e] = [@ EXCEPT !.status = "failed", !.timer = "none"]]
    /\ range' = [range EXCEPT ![exec[e].range].status = "failed"]
    /\ wakeup' = [wakeup EXCEPT ![e] = CompletedWakeup]

TerminalizeExhausted(e) ==
    /\ Eligible(e)
    /\ exec[e].attempts >= MaxAttempts
    /\ FailForGood(e)
    /\ UNCHANGED task

\* handle_range_execution up to the claim's commit.
StartTask(w, e) ==
    /\ task[w] = Idle
    /\ TakeMessage(e)
    /\ \/ ClaimExecution(w, e)
       \/ TerminalizeExhausted(e)
       \/ ~Eligible(e) /\ UNCHANGED <<exec, range, wakeup, task>>
    /\ UNCHANGED <<claims, sending, channelVars, ingested, configVars, planVars>>

\* Fault: both ends included.
ClosedWindow(e) == exec[e].from..exec[e].to

Window(e) == (exec[e].from + 1)..exec[e].to

FetchHistory(w) ==
    /\ task[w].at = "fetch"
    /\ task' = [task EXCEPT ![w] = [@ EXCEPT !.at = "ingest",
                                             !.todo = visible \cap Window(task[w].exec)]]
    /\ UNCHANGED <<wakeupVars, channelVars, ingested, configVars, range, exec, planVars>>

\* One short transaction per message.
IngestMessage(w, m) ==
    /\ task[w].at = "ingest"
    /\ m \in task[w].todo
    /\ ingested' = ingested \cup {m}
    /\ task' = [task EXCEPT ![w].todo = @ \ {m}]
    /\ UNCHANGED <<wakeupVars, channelVars, configVars, range, exec, planVars>>

\* Fault: the token is compared, the status is not.
HoldsToken(w) == exec[task[w].exec].attempts = task[w].token

\* _locked_active_row.  process() passes the `now` of the task's start, before
\* which its own lease cannot have expired, so only the token protects the row.
HoldsLease(w) ==
    /\ exec[task[w].exec].status = "running"
    /\ exec[task[w].exec].attempts = task[w].token

EndTask(w) == task' = [task EXCEPT ![w] = Idle]

\* Fault: the watermark is advanced once the history is fetched, before it is
\* persisted.
AdvanceBeforeIngest(w) ==
    /\ task[w].at = "ingest"
    /\ LET e == task[w].exec
       IN IF HoldsLease(w) /\ exec[e].to \in exec[e].watermark..exec[e].to
          THEN /\ exec' = [exec EXCEPT ![e].watermark = exec[e].to]
               /\ task' = [task EXCEPT ![w].at = "complete"]
          ELSE EndTask(w) /\ UNCHANGED exec
    /\ UNCHANGED <<wakeupVars, channelVars, ingested, configVars, range, planVars>>

AdvanceWatermark(w) ==
    /\ task[w].at = "ingest"
    /\ task[w].todo = {}
    /\ LET e == task[w].exec
       IN IF HoldsLease(w) /\ exec[e].to \in exec[e].watermark..exec[e].to
          THEN /\ exec' = [exec EXCEPT ![e].watermark = exec[e].to]
               /\ task' = [task EXCEPT ![w].at = "complete"]
          ELSE EndTask(w) /\ UNCHANGED exec
    /\ UNCHANGED <<wakeupVars, channelVars, ingested, configVars, range, planVars>>

\* Fault: completion trusts the progress of the row, whoever made it.
CompletionUnfenced(w) ==
    LET e == task[w].exec
        r == exec[e].range
    IN /\ exec[e].status = "running"
       /\ exec[e].watermark = exec[e].to
       /\ range[r].watermark = exec[e].from
       /\ range[r].high = exec[e].to

CompletionGuard(w) ==
    LET e == task[w].exec
        r == exec[e].range
    IN /\ HoldsLease(w)
       /\ exec[e].watermark = exec[e].to
       /\ range[r].watermark = exec[e].from
       /\ range[r].high = exec[e].to

\* Fault: the completed window stays on its range.
CompletedWithWindow(r, to) ==
    [status |-> IF EndMode[r] = "fixed" /\ to = FixedEnd[r] THEN "completed" ELSE "active",
     watermark |-> to, high |-> to]

CompletedRange(r, to) ==
    [status |-> IF EndMode[r] = "fixed" /\ to = FixedEnd[r] THEN "completed" ELSE "active",
     watermark |-> to, high |-> NoMessage]

CompleteExecution(w) ==
    /\ task[w].at = "complete"
    /\ EndTask(w)
    /\ LET e == task[w].exec
           r == exec[e].range
       IN IF CompletionGuard(w)
          THEN /\ exec' = [exec EXCEPT ![e] = [@ EXCEPT !.status = "completed",
                                                        !.timer = "none"]]
               /\ range' = [range EXCEPT ![r] = CompletedRange(r, exec[e].to)]
               /\ wakeup' = [wakeup EXCEPT ![e] = CompletedWakeup]
          ELSE UNCHANGED <<exec, range, wakeup>>
    /\ UNCHANGED <<inFlight, claims, sending, channelVars, ingested, configVars, planVars>>

\* RangeExecutionWorker.fail, offered to whoever runs the task.  The caller
\* chooses retryable and `now`, so the row's deadline does not restrict it.
FailExecution(w, retryable) ==
    /\ task[w].at # "idle"
    /\ HoldsLease(w)
    /\ EndTask(w)
    /\ LET e == task[w].exec
       IN IF retryable /\ exec[e].attempts < MaxAttempts
          THEN /\ exec' = [exec EXCEPT ![e] = [@ EXCEPT !.status = "retry_wait",
                                                        !.timer = "set"]]
               /\ wakeup' = [wakeup EXCEPT ![e] = RescheduledWakeup]
               /\ UNCHANGED range
          ELSE FailForGood(e)
    /\ UNCHANGED <<inFlight, claims, sending, channelVars, ingested, configVars, planVars>>

\* The task raises, the worker dies, no history ingestion is configured, or
\* fail() finds the lease gone: the row is left as it is.
TaskAborts(w) ==
    /\ task[w].at # "idle"
    /\ EndTask(w)
    /\ UNCHANGED <<wakeupVars, channelVars, ingested, configVars, range, exec, planVars>>

-----------------------------------------------------------------------------
(* Time and the broker *)

ExecutionTimerElapses(e) ==
    /\ exec[e].timer = "set"
    /\ exec' = [exec EXCEPT ![e].timer = "elapsed"]
    /\ UNCHANGED <<wakeupVars, channelVars, ingested, configVars, range, planVars, task>>

WakeupBecomesDue(e) ==
    /\ WakeupTimerElapses(e)
    /\ UNCHANGED <<channelVars, ingested, configVars, range, exec, planVars, task>>

BrokerLoses(e) ==
    /\ LoseMessage(e)
    /\ UNCHANGED <<channelVars, ingested, configVars, range, exec, planVars, task>>

-----------------------------------------------------------------------------

Environment ==
    \/ Publish
    \/ \E m \in visible : DeleteMessage(m)
    \/ Settle
    \/ \E p \in Profiles \cup {None} : ConfigureChannel(p)
    \/ \E r \in Ranges : ToggleRange(r)
    \/ \E e \in Entities : ExecutionTimerElapses(e) \/ WakeupBecomesDue(e) \/ BrokerLoses(e)

SchedulerStep(s) ==
    \/ ListEnabledRanges(s)
    \/ \E p \in plan[s] : Propose(s, p) \/ SkipRange(s, p) \/ Freeze(s, p) \/ RefuseFreeze(s, p)
    \/ BeginDispatch(s)
    \/ \E e \in Entities : DispatchStep(s, e)
    \/ CycleAborts(s)

WorkerStep(w) ==
    \/ \E e \in Entities : StartTask(w, e)
    \/ FetchHistory(w)
    \/ \E m \in task[w].todo : IngestMessage(w, m)
    \/ AdvanceWatermark(w)
    \/ CompleteExecution(w)
    \/ \E retryable \in BOOLEAN : FailExecution(w, retryable)
    \/ TaskAborts(w)

Next ==
    \/ Environment
    \/ \E s \in Schedulers : SchedulerStep(s)
    \/ \E w \in Workers : WorkerStep(w)

Spec == Init /\ [][Next]_vars

-----------------------------------------------------------------------------
(* Safety *)

\* Rows, snapshots and tasks stay within their columns' types; in particular
\* attempt_count never passes max_attempts (CHECK range_execution_attempts).
TypeOK ==
    /\ wakeup \in [Entities -> Wakeup]
    /\ inFlight \subseteq Entities
    /\ claims \in [Schedulers -> SUBSET Entities]
    /\ sending \in [Schedulers -> SUBSET Entities]
    /\ lastId \in Nat /\ settled \in Nat
    /\ visible \subseteq 1..lastId
    /\ ingested \subseteq 1..lastId
    /\ profile \in Profiles \cup {None}
    /\ enabled \subseteq Ranges
    /\ range \in [Ranges -> Range]
    /\ exec \in [Entities -> Execution]
    /\ scheduling \subseteq Schedulers
    /\ plan \in [Schedulers -> SUBSET Snapshot]
    /\ task \in [Workers -> Task]
    /\ \A w \in Workers : /\ task[w].todo \subseteq 1..lastId
                          /\ task[w].at # "idle" => task[w].exec \in Entities

\* No statement of the scheduler, the dispatcher or a worker can abort on a
\* CHECK constraint of the three tables (models.py), which would undo the
\* transaction and leave the row for ever in the state that provokes it.
ExecutionChecks(e) ==
    /\ exec[e].timer # "none" <=> exec[e].status \in {"running", "retry_wait"}
    /\ exec[e].status # "absent" => /\ exec[e].range \in Ranges
                                    /\ exec[e].from < exec[e].to
                                    /\ exec[e].watermark \in exec[e].from..exec[e].to
    /\ exec[e].status = "completed" => exec[e].watermark = exec[e].to

RangeChecks(r) ==
    /\ range[r].high # NoMessage => range[r].watermark < range[r].high
    /\ range[r].watermark >= Start[r] - 1
    /\ EndMode[r] = "fixed" => range[r].watermark <= FixedEnd[r]

WakeupChecks(e) ==
    /\ wakeup[e].timer # "none" <=> wakeup[e].status \in {"pending", "leased"}
    /\ wakeup[e].holder # None <=> wakeup[e].status = "leased"

RowConstraints ==
    /\ \A e \in Entities : ExecutionChecks(e) /\ WakeupChecks(e)
    /\ \A r \in Ranges : RangeChecks(r)

\* An unfinished execution and its range agree about the window being worked on,
\* a range has one unfinished execution at most, and a range that carries a high
\* watermark either has that execution or has failed.
WorksOnWindowOf(e, r) ==
    /\ r.status = "active"
    /\ r.high = exec[e].to
    /\ r.watermark = exec[e].from

ActiveWindow ==
    /\ \A e \in Entities :
          exec[e].status \in Active => WorksOnWindowOf(e, range[exec[e].range])
    /\ \A e, f \in Entities :
          /\ exec[e].status \in Active /\ exec[f].status \in Active
          /\ exec[e].range = exec[f].range
          => e = f
    /\ \A r \in Ranges :
          range[r].high # NoMessage =>
             \/ range[r].status = "failed"
             \/ \E e \in Entities : exec[e].status \in Active /\ exec[e].range = r

\* Whatever two overlapping cycles read before, a proposal the locked range still
\* admits meets no unique index, so ON CONFLICT DO NOTHING never swallows a window.
FreezeNeverConflicts ==
    \A s \in Schedulers : \A p \in plan[s] :
        p.to # NoMessage /\ CanFreeze(p) => ~ \E e \in Entities : Conflicts(e, p)

\* Windows of r that are behind it.
Done(r) == {e \in Entities : exec[e].range = r /\ exec[e].status = "completed"}

\* The completed windows of a range lie side by side from its start to its
\* watermark: every id in between was in exactly one, none was in two.
WindowsTile ==
    \A r \in Ranges :
        /\ \A e \in Done(r) : Window(e) \subseteq Start[r]..range[r].watermark
        /\ \A m \in Start[r]..range[r].watermark : \E e \in Done(r) : m \in Window(e)
        /\ \A e, f \in Done(r) : e # f => Window(e) \cap Window(f) = {}

\* The watermark leaves no hole behind it: a message of the range that still
\* exists and lies at or below the watermark has been persisted, whichever
\* workers crashed, overran their lease or replayed the window.
NoHistoryHole ==
    \A r \in Ranges : visible \cap (Start[r]..range[r].watermark) \subseteq ingested

\* An unfinished execution always has a wake-up that will be dispatched again,
\* and a finished one has none left to dispatch.
WakeupAgrees ==
    \A e \in Entities :
        /\ exec[e].status = "absent" => wakeup[e].status = "absent"
        /\ exec[e].status \in Active => wakeup[e].status \in {"pending", "leased"}
        /\ exec[e].status \in Terminal => wakeup[e].status = "completed"

\* Two tasks never hold the lease of one execution.
SingleLeaseHolder ==
    \A v, w \in Workers :
        /\ task[v].at # "idle" /\ task[w].at # "idle"
        /\ task[v].exec = task[w].exec
        /\ HoldsLease(v) /\ HoldsLease(w)
        => v = w

\* A worker that advanced the watermark and still holds its lease is never
\* refused by complete_execution's comparison with the range: a refusal would
\* strand the window until its attempts are exhausted.
LeaseHolderCompletes ==
    \A w \in Workers : task[w].at = "complete" /\ HoldsLease(w) => CompletionGuard(w)

-----------------------------------------------------------------------------
(* Why it holds: an inductive invariant *)

\* What a row says about the range it belongs to once nobody works on it, and
\* that no window reaches past what the channel had published.
Bookkeeping ==
    /\ InitialLast <= lastId
    /\ \A s \in Schedulers : \A p \in plan[s] : p.to <= lastId
    /\ \A e \in Entities :
          /\ exec[e].status = "absent" <=> exec[e].range = None
          /\ exec[e].status # "absent" =>
                /\ exec[e].to <= lastId
                /\ EndMode[exec[e].range] = "fixed" => exec[e].to = FixedEnd[exec[e].range]
          /\ exec[e].status = "completed" =>
                /\ exec[e].from >= Start[exec[e].range] - 1
                /\ exec[e].to <= range[exec[e].range].watermark
          /\ exec[e].status = "failed" => range[exec[e].range].status = "failed"

\* Tokens tell tasks apart, and between fetch and completion every message of the
\* window that still exists is persisted or about to be.
TaskKnowsWindow(w) ==
    LET e == task[w].exec
    IN /\ exec[e].status # "absent"
       /\ task[w].token <= exec[e].attempts
       /\ task[w].at = "ingest" => visible \cap Window(e) \subseteq ingested \cup task[w].todo
       /\ task[w].at = "complete" => exec[e].watermark = exec[e].to

TasksAgree ==
    /\ \A w \in Workers : task[w].at # "idle" => TaskKnowsWindow(w)
    /\ \A v, w \in Workers :
          /\ task[v].at # "idle" /\ task[w].at # "idle"
          /\ task[v].exec = task[w].exec /\ task[v].token = task[w].token
          => v = w

AdvancedWindowsIngested ==
    \A e \in Entities :
        exec[e].status # "absent" /\ exec[e].watermark = exec[e].to =>
            visible \cap Window(e) \subseteq ingested

\* The invariant the proofs go by: everything above that relates two rows.
RowInvariant ==
    RowConstraints /\ ActiveWindow /\ WakeupAgrees /\ Bookkeeping

InductiveInvariant ==
    /\ TypeOK
    /\ RowInvariant
    /\ WindowsTile
    /\ TasksAgree
    /\ AdvancedWindowsIngested
    /\ NoHistoryHole

-----------------------------------------------------------------------------
(* What a step may never do *)

\* The bounds and the profile of an execution are immutable, its progress and the
\* watermark of its range never move back, and nothing a late worker or a late
\* dispatcher release does reopens a finished execution or its wake-up.
FrozenRow(e) ==
    /\ exec[e].status # "absent" =>
          /\ exec'[e].from = exec[e].from /\ exec'[e].to = exec[e].to
          /\ exec'[e].range = exec[e].range /\ exec'[e].profile = exec[e].profile
          /\ exec'[e].watermark >= exec[e].watermark
          /\ exec'[e].attempts >= exec[e].attempts
    /\ exec[e].status \in Terminal => exec'[e] = exec[e]
    /\ wakeup[e].status = "completed" => wakeup'[e] = wakeup[e]

ProgressIsMonotone ==
    [][/\ \A e \in Entities : FrozenRow(e)
       /\ \A r \in Ranges : range'[r].watermark >= range[r].watermark]_vars

\* A task whose lease was taken over, or whose execution has ended, changes no
\* execution, range or wake-up row any more.
StaleStep(w) ==
    /\ task[w].at # "idle"
    /\ ~HoldsLease(w)
    /\ task'[w] # task[w]

StaleWorkerFenced ==
    [][\A w \in Workers : StaleStep(w) => UNCHANGED <<exec, range, wakeup>>]_vars

\* However old the snapshot of the cycle, an execution is created only under the
\* profile the channel has now, for a range that is enabled now, and starting
\* right after the range's watermark of now.
Created(e) == exec[e].status = "absent" /\ exec'[e].status # "absent"

FrozenFromCurrentRow ==
    [][\A e \in Entities : Created(e) =>
          /\ exec'[e].profile = profile
          /\ exec'[e].range \in enabled
          /\ exec'[e].from = range[exec'[e].range].watermark]_vars

-----------------------------------------------------------------------------
(* Liveness *)

\* A boundary observation that gets through: it leads to a proposal, or it shows
\* that there is nothing new.
Observe(s, p) ==
    \/ Propose(s, p)
    \/ (\A m \in Boundary(p.range) : m <= p.from) /\ SkipRange(s, p)

\* The steps between which a scheduler cycle cannot stop other than by aborting.
CycleStep(s) ==
    \/ ListEnabledRanges(s)
    \/ BeginDispatch(s)
    \/ \E e \in sending[s] : DispatchStep(s, e)

ProcessStep(w) ==
    \/ FetchHistory(w)
    \/ \E m \in task[w].todo : IngestMessage(w, m)
    \/ AdvanceWatermark(w)
    \/ CompleteExecution(w)

\* Deadlines pass and a quiet channel settles.  The scheduler is run again and
\* again; of endlessly many cycles that abort, lose their claims or find the
\* broker down, some get through, and each due row is among the claimed of one
\* of them (ORDER BY next_attempt_at).  The broker does not lose every message
\* of an entity, and a worker slot does not hang in a task.
Fairness ==
    /\ WF_vars(Settle)
    /\ \A e \in Entities :
          /\ WF_vars(ExecutionTimerElapses(e))
          /\ WF_vars(WakeupBecomesDue(e))
          /\ SF_vars(\E s \in Schedulers : BeginDispatch(s) /\ e \in claims'[s])
          /\ SF_vars(\E s \in Schedulers : DispatchStep(s, e) /\ e \in inFlight')
          /\ SF_vars(\E w \in Workers : StartTask(w, e))
    /\ \A s \in Schedulers :
          /\ WF_vars(CycleStep(s))
          /\ SF_vars(\E p \in plan[s] : Freeze(s, p) \/ RefuseFreeze(s, p))
    /\ \A r \in Ranges :
          SF_vars(\E s \in Schedulers : \E p \in plan[s] : p.range = r /\ Observe(s, p))
    /\ \A w \in Workers : WF_vars(ProcessStep(w))

FairSpec == Spec /\ Fairness

\* A frozen window never hangs: whatever is lost, aborted or taken over, its
\* execution completes or fails for good after a bounded number of attempts.
ExecutionEnds ==
    \A e \in Entities : exec[e].status \in Active ~> exec[e].status \in Terminal

\* A lost delivery is repaired from durable_wakeups: while a wake-up is open, a
\* broker message for its entity keeps appearing.
WakeupRepaired ==
    \A e \in Entities :
        wakeup[e].status \in {"pending", "leased"}
            ~> e \in inFlight \/ wakeup[e].status = "completed"

ConfigurationSettles(r) ==
    /\ <>[](r \in enabled)
    /\ \E p \in Profiles : <>[](profile = p)

\* Once its configuration stays put, a fixed range is done or has failed, and a
\* latest range has failed or has nothing visible left above its watermark.
RangesCatchUp ==
    \A r \in Ranges :
        ConfigurationSettles(r) =>
            <>[](\/ range[r].status \in Terminal
                 \/ EndMode[r] = "latest" /\ \A m \in visible : m <= range[r].watermark)

=============================================================================
