------------------------ MODULE RangeHistory_proofs ------------------------
(***************************************************************************)
(* What the watermarks say about the history: the completed windows tile   *)
(* the range, and no surviving message at or below a watermark is missing  *)
(* from the database.  The proofs rest on RangeProcessing_proofs.          *)
(***************************************************************************)
EXTENDS RangeProcessing_proofs

-----------------------------------------------------------------------------
(* Facts about windows *)

\* The history half of the inductive invariant.
History == WindowsTile /\ TasksAgree /\ AdvancedWindowsIngested /\ NoHistoryHole

\* Windows reach no further than the ids the channel has issued.
LEMMA WindowIssued ==
    ASSUME TypeOK, RowInvariant, NEW e \in Entities, exec[e].status # "absent"
    PROVE  Window(e) \subseteq 1..lastId
<1>1. exec[e].from \in Nat /\ exec[e].to \in Nat /\ lastId \in Nat
  BY DEF TypeOK, Execution
<1>2. exec[e].to <= lastId
  BY DEF RowInvariant, Bookkeeping
<1>3. QED BY <1>1, <1>2 DEF Window

\* Neither does what lies at or below a watermark.
LEMMA WatermarkIssued ==
    ASSUME TypeOK, RowInvariant, WindowsTile, NEW r \in Ranges
    PROVE  Start[r]..range[r].watermark \subseteq 1..lastId
<1> SUFFICES ASSUME NEW m \in Start[r]..range[r].watermark PROVE m \in 1..lastId
  OBVIOUS
<1>1. PICK e \in Done(r) : m \in Window(e)
  BY DEF WindowsTile
<1>2. QED BY <1>1, WindowIssued DEF Done

\* Every execution keeps its window and whether it is completed, and every range
\* its watermark.
KeepsWindows ==
    /\ \A e \in Entities :
          /\ exec'[e].from = exec[e].from /\ exec'[e].to = exec[e].to
          /\ exec'[e].range = exec[e].range
          /\ exec'[e].status = "absent" <=> exec[e].status = "absent"
          /\ exec'[e].status = "completed" <=> exec[e].status = "completed"
    /\ \A r \in Ranges : range'[r].watermark = range[r].watermark

\* No message reappears, and none is forgotten.
KeepsMessages ==
    /\ visible' \cap (1..lastId) \subseteq visible
    /\ ingested \subseteq ingested'

\* A task goes on as it was or ends.
TasksGoOn(w) == task'[w] = task[w] \/ task'[w].at = "idle"

LEMMA TilesKept ==
    ASSUME WindowsTile, KeepsWindows PROVE WindowsTile'
<1>1. \A e \in Entities : Window(e)' = Window(e)
  BY DEF KeepsWindows, Window
<1>2. \A r \in Ranges : Done(r)' = Done(r)
  BY DEF KeepsWindows, Done
<1>3. \A r \in Ranges : range'[r].watermark = range[r].watermark
  BY DEF KeepsWindows
<1>4. \A r \in Ranges : Done(r) \subseteq Entities
  BY DEF Done
<1>5. QED BY <1>1, <1>2, <1>3, <1>4 DEF WindowsTile

LEMMA HolesKept ==
    ASSUME TypeOK, RowInvariant, History, KeepsWindows, KeepsMessages PROVE NoHistoryHole'
<1> SUFFICES ASSUME NEW r \in Ranges,
                    NEW m \in visible', m \in Start[r]..range[r].watermark
             PROVE  m \in ingested'
  BY DEF NoHistoryHole, KeepsWindows
<1>1. m \in 1..lastId
  BY WatermarkIssued DEF History
<1>2. m \in visible
  BY <1>1 DEF KeepsMessages
<1>3. m \in ingested
  BY <1>2 DEF History, NoHistoryHole
<1>4. QED BY <1>3 DEF KeepsMessages

LEMMA AdvancedKept ==
    ASSUME TypeOK, RowInvariant, History, KeepsWindows, KeepsMessages,
           \A e \in Entities : exec'[e].watermark = exec[e].watermark
    PROVE  AdvancedWindowsIngested'
<1> SUFFICES ASSUME NEW e \in Entities, exec[e].status # "absent",
                    exec[e].watermark = exec[e].to,
                    NEW m \in visible', m \in Window(e)
             PROVE  m \in ingested'
  BY DEF AdvancedWindowsIngested, KeepsWindows, Window
<1>1. m \in visible
  BY WindowIssued DEF KeepsMessages
<1>2. m \in ingested
  BY <1>1 DEF History, AdvancedWindowsIngested
<1>3. QED BY <1>2 DEF KeepsMessages

\* One task stays correct while rows keep their windows, no progress is undone and
\* the task goes on as it was.
LEMMA TaskKept ==
    ASSUME TypeOK, RowInvariant, History, KeepsWindows, KeepsMessages,
           \A e \in Entities : /\ exec'[e].attempts \in Nat
                               /\ exec'[e].attempts >= exec[e].attempts
                               /\ \/ exec'[e].watermark = exec[e].watermark
                                  \/ exec'[e].watermark = exec[e].to,
           NEW w \in Workers, task[w].at # "idle", task'[w] = task[w]
    PROVE  TaskKnowsWindow(w)'
<1> PICK e \in Entities : e = task[w].exec
  BY DEF TypeOK
<1>1. TaskKnowsWindow(w)
  BY DEF History, TasksAgree
<1>2. exec'[e].status # "absent"
  BY <1>1 DEF TaskKnowsWindow, KeepsWindows
<1>3. task[w].token <= exec'[e].attempts
  BY <1>1 DEF TaskKnowsWindow, TypeOK, Task, Execution
<1>4. Window(e)' = Window(e) /\ exec'[e].to = exec[e].to
  BY DEF KeepsWindows, Window
<1>5. ASSUME task[w].at = "ingest"
      PROVE  visible' \cap Window(e) \subseteq ingested' \cup task[w].todo
  <2>1. visible \cap Window(e) \subseteq ingested \cup task[w].todo
    BY <1>1, <1>5 DEF TaskKnowsWindow
  <2>2. visible' \cap Window(e) \subseteq visible
    BY <1>1, WindowIssued DEF KeepsMessages, TaskKnowsWindow
  <2>3. QED BY <2>1, <2>2 DEF KeepsMessages
<1>6. task[w].at = "complete" => exec'[e].watermark = exec[e].to
  BY <1>1 DEF TaskKnowsWindow
<1>7. QED BY <1>2, <1>3, <1>4, <1>5, <1>6 DEF TaskKnowsWindow

\* All tasks go on or end.
LEMMA TasksKept ==
    ASSUME TypeOK, RowInvariant, History, KeepsWindows, KeepsMessages,
           \A e \in Entities : /\ exec'[e].attempts \in Nat
                               /\ exec'[e].attempts >= exec[e].attempts
                               /\ \/ exec'[e].watermark = exec[e].watermark
                                  \/ exec'[e].watermark = exec[e].to,
           \A w \in Workers : TasksGoOn(w)
    PROVE  TasksAgree'
<1>1. \A w \in Workers : task'[w].at # "idle" => task[w].at # "idle" /\ task'[w] = task[w]
  BY DEF TasksGoOn
<1>2. \A w \in Workers : task'[w].at # "idle" => TaskKnowsWindow(w)'
  BY <1>1, TaskKept
<1>3. QED BY <1>1, <1>2 DEF History, TasksAgree

\* All of it together, for the steps that only end tasks.
LEMMA HistoryKept ==
    ASSUME TypeOK, RowInvariant, History, KeepsWindows, KeepsMessages,
           \A e \in Entities : /\ exec'[e].attempts = exec[e].attempts
                               /\ exec'[e].watermark = exec[e].watermark,
           \A w \in Workers : TasksGoOn(w)
    PROVE  History'
<1>1. \A e \in Entities : exec[e].attempts \in Nat
  BY RangeAssumption DEF TypeOK, Execution
<1>2. TasksAgree'
  BY <1>1, TasksKept
<1>3. QED BY <1>2, TilesKept, HolesKept, AdvancedKept DEF History

LEMMA HistoryUntouched ==
    ASSUME TypeOK, RowInvariant, History, UNCHANGED <<exec, range>>, KeepsMessages,
           \A w \in Workers : TasksGoOn(w)
    PROVE  History'
BY HistoryKept DEF KeepsWindows

-----------------------------------------------------------------------------
(* The steps *)

LEMMA HistoryInit == Init => History
<1> SUFFICES ASSUME Init PROVE History
  OBVIOUS
<1> USE DEF Init
<1>1. \A r \in Ranges : Start[r] \in Nat /\ range[r].watermark = Start[r] - 1
  BY RangeAssumption
<1>2. \A r \in Ranges : Start[r]..range[r].watermark = {} /\ Done(r) = {}
  BY <1>1 DEF Done, NoExecution
<1>3. WindowsTile
  BY <1>2 DEF WindowsTile
<1>4. NoHistoryHole
  BY <1>2 DEF NoHistoryHole
<1>5. AdvancedWindowsIngested
  BY DEF AdvancedWindowsIngested, NoExecution
<1>6. TasksAgree
  BY DEF TasksAgree, Idle
<1>7. QED BY <1>3, <1>4, <1>5, <1>6 DEF History

LEMMA HistoryEnvironment ==
    TypeOK /\ RowInvariant /\ History /\ Environment => History'
<1> SUFFICES ASSUME TypeOK, RowInvariant, History, Environment PROVE History'
  OBVIOUS
<1>0. visible \subseteq 1..lastId /\ lastId \in Nat
  BY DEF TypeOK
<1>1. CASE Publish
  <2>1. KeepsMessages
    BY <1>0, <1>1 DEF Publish, KeepsMessages
  <2>2. QED BY <1>1, <2>1, HistoryUntouched DEF Publish, TasksGoOn
<1>2. CASE \/ \E m \in visible : DeleteMessage(m)
           \/ Settle
           \/ \E p \in Profiles \cup {None} : ConfigureChannel(p)
           \/ \E r \in Ranges : ToggleRange(r)
           \/ \E e \in Entities : WakeupBecomesDue(e) \/ BrokerLoses(e)
  <2>1. /\ UNCHANGED <<exec, range, task, ingested>>
        /\ visible' \subseteq visible
    BY <1>2 DEF DeleteMessage, Settle, ConfigureChannel, ToggleRange, WakeupBecomesDue,
                BrokerLoses, channelVars, configVars
  <2>2. QED BY <2>1, HistoryUntouched DEF KeepsMessages, TasksGoOn
<1>3. CASE \E e \in Entities : ExecutionTimerElapses(e)
  <2> PICK e \in Entities : ExecutionTimerElapses(e)
    BY <1>3
  <2>1. exec[e] \in Execution
    BY DEF TypeOK
  <2>2. exec'[e] = [exec[e] EXCEPT !.timer = "elapsed"]
        /\ \A f \in Entities : f # e => exec'[f] = exec[f]
    BY DEF ExecutionTimerElapses, TypeOK
  <2>3. \A f \in Entities :
           /\ exec'[f].from = exec[f].from /\ exec'[f].to = exec[f].to
           /\ exec'[f].range = exec[f].range /\ exec'[f].status = exec[f].status
           /\ exec'[f].attempts = exec[f].attempts /\ exec'[f].watermark = exec[f].watermark
    BY <2>1, <2>2 DEF Execution
  <2>4. UNCHANGED <<range, task, ingested, visible>>
    BY DEF ExecutionTimerElapses, channelVars
  <2>5. KeepsWindows /\ KeepsMessages
    BY <2>3, <2>4 DEF KeepsWindows, KeepsMessages
  <2>6. QED BY <2>3, <2>4, <2>5, HistoryKept DEF TasksGoOn
<1>4. QED BY <1>1, <1>2, <1>3 DEF Environment

\* Freezing adds a window nobody works on yet.
LEMMA HistoryFreeze ==
    ASSUME TypeOK, RowInvariant, History,
           NEW s \in Schedulers, NEW p \in plan[s], Freeze(s, p)
    PROVE  History'
<1>1. p \in Snapshot /\ p.range \in Ranges /\ p.from \in Nat /\ p.to \in Nat
  BY DEF TypeOK, Snapshot
<1>2. PICK e \in Entities : CreateExecution(e, p)
  BY DEF Freeze
<1>3. /\ exec'[e].status = "pending" /\ exec'[e].watermark = p.from /\ exec'[e].to = p.to
      /\ exec[e].status = "absent"
      /\ \A f \in Entities : f # e => exec'[f] = exec[f]
  BY <1>2 DEF CreateExecution, TypeOK
<1>4. \A r \in Ranges : range'[r].watermark = range[r].watermark
  BY <1>1, <1>2 DEF CreateExecution, TypeOK, Range
<1>5. UNCHANGED <<visible, ingested, task>>
  BY DEF Freeze, channelVars
<1>6. \A f \in Entities : f # e => Window(f)' = Window(f)
  BY <1>3 DEF Window
<1>7. \A r \in Ranges : Done(r)' = Done(r) /\ e \notin Done(r) /\ Done(r) \subseteq Entities
  BY <1>3 DEF Done
<1>8. WindowsTile'
  BY <1>4, <1>6, <1>7 DEF History, WindowsTile
<1>9. NoHistoryHole'
  BY <1>4, <1>5 DEF History, NoHistoryHole
<1>10. AdvancedWindowsIngested'
  <2>1. p.from < p.to
    BY <1>1 DEF Freeze, CanFreeze
  <2>2. exec'[e].watermark # exec'[e].to
    BY <1>1, <1>3, <2>1
  <2>3. \A f \in Entities : f # e /\ exec'[f].status # "absent"
                            /\ exec'[f].watermark = exec'[f].to
                            => visible' \cap Window(f)' \subseteq ingested'
    BY <1>3, <1>5, <1>6 DEF History, AdvancedWindowsIngested
  <2>4. QED BY <2>2, <2>3 DEF AdvancedWindowsIngested
<1>11. TasksAgree'
  <2>1. ASSUME NEW w \in Workers, task'[w].at # "idle" PROVE TaskKnowsWindow(w)'
    <3>1. TaskKnowsWindow(w) /\ task[w].exec \in Entities
      BY <1>5, <2>1 DEF History, TasksAgree, TypeOK
    <3>2. task[w].exec # e
      BY <1>3, <3>1 DEF TaskKnowsWindow
    <3>3. exec'[task[w].exec] = exec[task[w].exec] /\ task'[w] = task[w]
      BY <1>3, <1>5, <3>1, <3>2
    <3>4. QED BY <1>5, <3>1, <3>3 DEF TaskKnowsWindow, Window
  <2>2. QED BY <1>5, <2>1 DEF History, TasksAgree
<1>12. QED BY <1>8, <1>9, <1>10, <1>11 DEF History

LEMMA HistoryScheduler ==
    ASSUME TypeOK, RowInvariant, History, NEW s \in Schedulers, SchedulerStep(s)
    PROVE  History'
<1>1. CASE \E p \in plan[s] : Freeze(s, p)
  BY <1>1, HistoryFreeze
<1>2. CASE \/ ListEnabledRanges(s)
           \/ \E p \in plan[s] : Propose(s, p) \/ SkipRange(s, p) \/ RefuseFreeze(s, p)
           \/ BeginDispatch(s)
           \/ \E e \in Entities : DispatchStep(s, e)
           \/ CycleAborts(s)
  <2>1. UNCHANGED <<exec, range, task, ingested, visible>>
    BY <1>2 DEF ListEnabledRanges, Propose, SkipRange, RefuseFreeze, BeginDispatch,
                DispatchStep, CycleAborts, channelVars
  <2>2. QED BY <2>1, HistoryUntouched DEF KeepsMessages, TasksGoOn
<1>3. QED BY <1>1, <1>2 DEF SchedulerStep

\* A terminal failure leaves every window and every watermark as it is.
LEMMA HistoryFailForGood ==
    ASSUME TypeOK, RowInvariant, History, NEW e \in Entities, exec[e].status \in Active,
           FailForGood(e), UNCHANGED <<visible, ingested>>,
           \A w \in Workers : TasksGoOn(w)
    PROVE  History'
<1>1. exec[e] \in Execution
  BY DEF TypeOK
<1>2. /\ exec'[e] = [exec[e] EXCEPT !.status = "failed", !.timer = "none"]
      /\ \A f \in Entities : f # e => exec'[f] = exec[f]
  BY DEF FailForGood, TypeOK
<1>3. \A f \in Entities :
         /\ exec'[f].from = exec[f].from /\ exec'[f].to = exec[f].to
         /\ exec'[f].range = exec[f].range
         /\ exec'[f].status = "absent" <=> exec[f].status = "absent"
         /\ exec'[f].status = "completed" <=> exec[f].status = "completed"
         /\ exec'[f].attempts = exec[f].attempts /\ exec'[f].watermark = exec[f].watermark
  <2>1. exec[e].status \notin {"absent", "completed"}
    BY DEF Active
  <2>2. /\ exec'[e].from = exec[e].from /\ exec'[e].to = exec[e].to
        /\ exec'[e].range = exec[e].range /\ exec'[e].status = "failed"
        /\ exec'[e].attempts = exec[e].attempts /\ exec'[e].watermark = exec[e].watermark
    BY <1>1, <1>2 DEF Execution
  <2>3. QED BY <1>2, <2>1, <2>2
<1>4. \A r \in Ranges : range'[r].watermark = range[r].watermark
  BY DEF FailForGood, TypeOK, Range
<1>5. KeepsWindows /\ KeepsMessages
  BY <1>3, <1>4 DEF KeepsWindows, KeepsMessages
<1>6. QED BY <1>3, <1>5, HistoryKept

\* A lease is taken under a token no task has.
LEMMA HistoryClaim ==
    ASSUME TypeOK, RowInvariant, History, NEW w \in Workers, NEW e \in Entities,
           task[w] = Idle, ClaimExecution(w, e), UNCHANGED <<visible, ingested>>
    PROVE  History'
<1>1. exec[e] \in Execution /\ exec[e].attempts \in Nat
  BY RangeAssumption DEF TypeOK, Execution
<1>2. /\ exec'[e] = [exec[e] EXCEPT !.status = "running", !.timer = "set",
                                    !.attempts = exec[e].attempts + 1]
      /\ \A f \in Entities : f # e => exec'[f] = exec[f]
  BY DEF ClaimExecution, TypeOK
<1>3. /\ exec'[e].from = exec[e].from /\ exec'[e].to = exec[e].to
      /\ exec'[e].range = exec[e].range /\ exec'[e].status = "running"
      /\ exec'[e].attempts = exec[e].attempts + 1 /\ exec'[e].watermark = exec[e].watermark
  BY <1>1, <1>2 DEF Execution
<1>4. exec[e].status \notin {"absent", "completed"}
  BY DEF ClaimExecution, Eligible
<1>5. \A f \in Entities : exec[f].attempts \in Nat
  BY RangeAssumption DEF TypeOK, Execution
<1>6. \A f \in Entities :
         /\ exec'[f].from = exec[f].from /\ exec'[f].to = exec[f].to
         /\ exec'[f].range = exec[f].range
         /\ exec'[f].status = "absent" <=> exec[f].status = "absent"
         /\ exec'[f].status = "completed" <=> exec[f].status = "completed"
         /\ exec'[f].watermark = exec[f].watermark
         /\ exec'[f].attempts \in Nat /\ exec'[f].attempts >= exec[f].attempts
  <2>1. exec[e].attempts + 1 \in Nat /\ exec[e].attempts + 1 >= exec[e].attempts
    BY <1>1
  <2>2. \A f \in Entities : exec[f].attempts >= exec[f].attempts
    BY <1>5
  <2>3. QED BY <1>2, <1>3, <1>4, <1>5, <2>1, <2>2
<1>7. KeepsWindows /\ KeepsMessages
  BY <1>6 DEF KeepsWindows, KeepsMessages, ClaimExecution
<1>8. WindowsTile' /\ NoHistoryHole' /\ AdvancedWindowsIngested'
  BY <1>6, <1>7, TilesKept, HolesKept, AdvancedKept DEF History
<1>9. /\ task'[w] = [at |-> "fetch", exec |-> e, token |-> exec[e].attempts + 1, todo |-> {}]
      /\ \A v \in Workers : v # w => task'[v] = task[v]
  BY DEF ClaimExecution, TypeOK
<1>10. \A v \in Workers : v # w /\ task'[v].at # "idle" => TaskKnowsWindow(v)'
  BY <1>6, <1>7, <1>9, TaskKept
<1>11. TaskKnowsWindow(w)'
  BY <1>1, <1>3, <1>9 DEF TaskKnowsWindow
<1>12. \A v \in Workers :
          v # w /\ task[v].at # "idle" /\ task[v].exec = e => task[v].token # exec[e].attempts + 1
  <2> SUFFICES ASSUME NEW v \in Workers, task[v].at # "idle", task[v].exec = e
               PROVE  task[v].token # exec[e].attempts + 1
    OBVIOUS
  <2>1. task[v].token <= exec[e].attempts
    BY DEF History, TasksAgree, TaskKnowsWindow
  <2>2. task[v].token \in Nat
    BY RangeAssumption DEF TypeOK, Task
  <2>3. QED BY <1>1, <2>1, <2>2
<1>13. TasksAgree'
  <2>1. \A v, x \in Workers :
           /\ task'[v].at # "idle" /\ task'[x].at # "idle"
           /\ task'[v].exec = task'[x].exec /\ task'[v].token = task'[x].token
           => v = x
    BY <1>9, <1>12 DEF History, TasksAgree
  <2>2. QED BY <1>10, <1>11, <2>1 DEF TasksAgree
<1>14. QED BY <1>8, <1>13 DEF History

\* A window appended to the interval that ends where it begins.
LEMMA WindowAppended ==
    ASSUME NEW a \in Nat, NEW b \in Nat, NEW c \in Nat, b >= a - 1, b < c
    PROVE  /\ a..c = (a..b) \cup (b + 1..c)
           /\ (a..b) \cap (b + 1..c) = {}
OBVIOUS

\* Completing a window moves the watermark over persisted messages only.
LEMMA HistoryComplete ==
    ASSUME TypeOK, RowInvariant, History, NEW w \in Workers, CompleteExecution(w),
           CompletionGuard(w)
    PROVE  History'
<1> PICK e \in Entities : e = task[w].exec
  BY DEF CompleteExecution, TypeOK
<1> PICK r \in Ranges : r = exec[e].range
  BY DEF CompletionGuard, HoldsLease, RowInvariant, RowConstraints, ExecutionChecks
<1>1. /\ exec[e] \in Execution /\ exec[e].status = "running"
      /\ exec[e].watermark = exec[e].to
      /\ range[r].watermark = exec[e].from /\ range[r].high = exec[e].to
  BY DEF CompletionGuard, HoldsLease, TypeOK
<1>2. /\ r \in Ranges /\ exec[e].from \in Nat /\ exec[e].to \in Nat /\ exec[e].from < exec[e].to
  BY <1>1 DEF RowInvariant, RowConstraints, ExecutionChecks, Execution
<1>3. Start[r] \in Nat /\ exec[e].from >= Start[r] - 1
  BY <1>1, <1>2, RangeAssumption DEF RowInvariant, RowConstraints, RangeChecks
<1>4. /\ exec' = [exec EXCEPT ![e] = [exec[e] EXCEPT !.status = "completed", !.timer = "none"]]
      /\ range' = [range EXCEPT ![r] = CompletedRange(r, exec[e].to)]
      /\ task' = [task EXCEPT ![w] = Idle]
      /\ UNCHANGED <<visible, ingested>>
  BY DEF CompleteExecution, EndTask, channelVars
<1>5. exec'[e] = [exec[e] EXCEPT !.status = "completed", !.timer = "none"]
      /\ \A f \in Entities : f # e => exec'[f] = exec[f]
  BY <1>4 DEF TypeOK
<1>6. /\ exec'[e].from = exec[e].from /\ exec'[e].to = exec[e].to
      /\ exec'[e].range = exec[e].range /\ exec'[e].status = "completed"
      /\ exec'[e].attempts = exec[e].attempts /\ exec'[e].watermark = exec[e].watermark
  BY <1>1, <1>5 DEF Execution
<1>7. /\ range'[r].watermark = exec[e].to
      /\ \A q \in Ranges : q # r => range'[q].watermark = range[q].watermark
  BY <1>2, <1>4 DEF CompletedRange, TypeOK
<1>8. \A f \in Entities : Window(f)' = Window(f)
  BY <1>5, <1>6 DEF Window
<1>9. /\ Start[r]..exec[e].to = (Start[r]..range[r].watermark) \cup Window(e)
      /\ (Start[r]..range[r].watermark) \cap Window(e) = {}
  <2>1. Window(e) = exec[e].from + 1..exec[e].to
    BY DEF Window
  <2>2. range[r].watermark = exec[e].from
    BY <1>1
  <2>3. /\ Start[r] \in Nat /\ exec[e].from \in Nat /\ exec[e].to \in Nat
        /\ exec[e].from >= Start[r] - 1 /\ exec[e].from < exec[e].to
    BY <1>2, <1>3
  <2>4. /\ Start[r]..exec[e].to = (Start[r]..exec[e].from) \cup (exec[e].from + 1..exec[e].to)
        /\ (Start[r]..exec[e].from) \cap (exec[e].from + 1..exec[e].to) = {}
    BY <2>3, WindowAppended
  <2>5. QED BY <2>1, <2>2, <2>4
<1>10. visible \cap Window(e) \subseteq ingested
  BY <1>1 DEF History, AdvancedWindowsIngested
<1>11. NoHistoryHole'
  <2>1. \A q \in Ranges : q # r => visible \cap (Start[q]..range'[q].watermark) \subseteq ingested
    BY <1>7 DEF History, NoHistoryHole
  <2>2. visible \cap (Start[r]..range[r].watermark) \subseteq ingested
    BY <1>2 DEF History, NoHistoryHole
  <2>3. visible \cap (Start[r]..range'[r].watermark) \subseteq ingested
    BY <1>7, <1>9, <1>10, <2>2
  <2>4. QED BY <1>4, <2>1, <2>3 DEF NoHistoryHole
<1>12. AdvancedWindowsIngested'
  BY <1>1, <1>4, <1>5, <1>6, <1>8 DEF History, AdvancedWindowsIngested
<1>13. WindowsTile'
  <2>1. Done(r)' = Done(r) \cup {e} /\ \A q \in Ranges : q # r => Done(q)' = Done(q)
    <3>1. e \in Done(r)' /\ \A q \in Ranges : q # r => e \notin Done(q)'
      BY <1>6 DEF Done
    <3>2. \A q \in Ranges : e \notin Done(q)
      BY <1>1 DEF Done
    <3>3. \A q \in Ranges : \A f \in Entities : f # e => (f \in Done(q)' <=> f \in Done(q))
      BY <1>5 DEF Done
    <3>4. \A q \in Ranges : Done(q) \subseteq Entities /\ Done(q)' \subseteq Entities
      BY DEF Done
    <3>5. QED BY <3>1, <3>2, <3>3, <3>4
  <2>2. \A f \in Done(r) : Window(f) \subseteq Start[r]..range[r].watermark
    BY <1>2 DEF History, WindowsTile
  <2>3. \A f \in Done(r)' : Window(f) \subseteq Start[r]..exec[e].to
    BY <1>9, <2>1, <2>2
  <2>4. \A m \in Start[r]..exec[e].to : \E f \in Done(r)' : m \in Window(f)
    BY <1>2, <1>9, <2>1 DEF History, WindowsTile
  <2>5. \A f, g \in Done(r) : f # g => Window(f) \cap Window(g) = {}
    BY <1>2 DEF History, WindowsTile
  <2>6. \A f, g \in Done(r)' : f # g => Window(f) \cap Window(g) = {}
    BY <1>9, <2>1, <2>2, <2>5
  <2>7. \A q \in Ranges : Done(q)' \subseteq Entities
    BY DEF Done
  <2>8. ASSUME NEW q \in Ranges
        PROVE  /\ \A f \in Done(q)' : Window(f) \subseteq Start[q]..range'[q].watermark
               /\ \A m \in Start[q]..range'[q].watermark : \E f \in Done(q)' : m \in Window(f)
               /\ \A f, g \in Done(q)' : f # g => Window(f) \cap Window(g) = {}
    <3>1. CASE q = r
      BY <1>7, <2>3, <2>4, <2>6, <3>1
    <3>2. CASE q # r
      BY <1>7, <2>1, <3>2 DEF History, WindowsTile
    <3>3. QED BY <3>1, <3>2
  <2>9. QED BY <1>8, <2>7, <2>8 DEF WindowsTile
<1>14. TasksAgree'
  <2>1. \A v \in Workers : task'[v].at # "idle" => task[v].at # "idle" /\ task'[v] = task[v]
    BY <1>4 DEF TypeOK, Idle
  <2>2. ASSUME NEW v \in Workers, task'[v].at # "idle" PROVE TaskKnowsWindow(v)'
    <3>1. TaskKnowsWindow(v) /\ task[v].exec \in Entities /\ task'[v] = task[v]
      BY <2>1, <2>2 DEF History, TasksAgree, TypeOK
    <3>2. PICK f \in Entities : f = task[v].exec
      BY <3>1
    <3>3. /\ exec'[f].status # "absent" /\ exec'[f].attempts = exec[f].attempts
          /\ exec'[f].watermark = exec[f].watermark /\ exec'[f].to = exec[f].to
      BY <1>5, <1>6, <3>1, <3>2 DEF TaskKnowsWindow
    <3>4. QED BY <1>4, <1>8, <3>1, <3>2, <3>3 DEF TaskKnowsWindow
  <2>3. QED BY <2>1, <2>2 DEF History, TasksAgree
<1>15. QED BY <1>11, <1>12, <1>13, <1>14 DEF History

\* Progress is recorded once everything fetched is persisted.
LEMMA HistoryAdvance ==
    ASSUME TypeOK, RowInvariant, History, NEW w \in Workers, AdvanceWatermark(w)
    PROVE  History'
<1> PICK e \in Entities : e = task[w].exec
  BY DEF AdvanceWatermark, TypeOK
<1>1. UNCHANGED <<range, visible, ingested>> /\ task[w].at = "ingest" /\ task[w].todo = {}
  BY DEF AdvanceWatermark, channelVars
<1>2. CASE UNCHANGED exec /\ EndTask(w)
  BY <1>1, <1>2, HistoryUntouched DEF KeepsMessages, TasksGoOn, EndTask, Idle, TypeOK
<1>3. CASE ~(UNCHANGED exec /\ EndTask(w))
  <2>1. /\ HoldsLease(w)
        /\ exec' = [exec EXCEPT ![e].watermark = exec[e].to]
        /\ task' = [task EXCEPT ![w].at = "complete"]
    BY <1>3 DEF AdvanceWatermark
  <2>2. exec[e] \in Execution /\ exec[e].status = "running"
    BY <2>1 DEF HoldsLease, TypeOK
  <2>3. exec'[e] = [exec[e] EXCEPT !.watermark = exec[e].to]
        /\ \A f \in Entities : f # e => exec'[f] = exec[f]
    BY <2>1 DEF TypeOK
  <2>4. /\ exec'[e].from = exec[e].from /\ exec'[e].to = exec[e].to
        /\ exec'[e].range = exec[e].range /\ exec'[e].status = exec[e].status
        /\ exec'[e].attempts = exec[e].attempts /\ exec'[e].watermark = exec[e].to
    BY <2>2, <2>3 DEF Execution
  <2>5. KeepsWindows /\ KeepsMessages
    BY <1>1, <2>3, <2>4 DEF KeepsWindows, KeepsMessages
  <2>6. \A f \in Entities : exec[f].attempts \in Nat
    BY RangeAssumption DEF TypeOK, Execution
  <2>7. \A f \in Entities : /\ exec'[f].attempts \in Nat
                            /\ exec'[f].attempts >= exec[f].attempts
                            /\ \/ exec'[f].watermark = exec[f].watermark
                               \/ exec'[f].watermark = exec[f].to
    <3>1. \A f \in Entities : exec[f].attempts >= exec[f].attempts
      BY <2>6
    <3>2. \A f \in Entities : exec'[f].attempts = exec[f].attempts
      BY <2>3, <2>4
    <3>3. QED BY <2>3, <2>4, <2>6, <3>1, <3>2
  <2>8. TaskKnowsWindow(w)
    BY <1>1 DEF History, TasksAgree
  <2>9. visible \cap Window(e) \subseteq ingested
    BY <1>1, <2>8 DEF TaskKnowsWindow
  <2>10. \A f \in Entities : Window(f)' = Window(f)
    BY <2>5 DEF KeepsWindows, Window
  <2>11. AdvancedWindowsIngested'
    BY <1>1, <2>3, <2>4, <2>9, <2>10 DEF History, AdvancedWindowsIngested
  <2>12. task[w] \in Task
    BY DEF TypeOK
  <2>13. /\ task'[w] = [task[w] EXCEPT !.at = "complete"]
         /\ \A v \in Workers : v # w => task'[v] = task[v]
    BY <2>1 DEF TypeOK
  <2>14. /\ task'[w].at = "complete" /\ task'[w].exec = e /\ task'[w].token = task[w].token
    BY <2>12, <2>13 DEF Task
  <2>15. TaskKnowsWindow(w)'
    BY <2>4, <2>8, <2>14 DEF TaskKnowsWindow
  <2>16. \A v \in Workers : v # w /\ task'[v].at # "idle" => TaskKnowsWindow(v)'
    BY <2>5, <2>7, <2>13, TaskKept
  <2>17. TasksAgree'
    <3>1. \A v \in Workers : /\ task'[v].at # "idle" => task[v].at # "idle"
                             /\ task'[v].exec = task[v].exec /\ task'[v].token = task[v].token
      BY <1>1, <2>13, <2>14
    <3>2. QED BY <2>15, <2>16, <3>1 DEF History, TasksAgree
  <2>18. QED BY <2>5, <2>11, <2>17, TilesKept, HolesKept DEF History
<1>4. QED BY <1>2, <1>3

\* Fetching and persisting change one task, and what is to do is never forgotten.
LEMMA HistoryFetch ==
    ASSUME TypeOK, RowInvariant, History, NEW w \in Workers,
           FetchHistory(w) \/ \E m \in task[w].todo : IngestMessage(w, m)
    PROVE  History'
<1> PICK e \in Entities : e = task[w].exec
  BY DEF FetchHistory, IngestMessage, TypeOK
<1>1. UNCHANGED <<exec, range, visible>> /\ ingested \subseteq ingested' /\ task[w].at # "idle"
  BY DEF FetchHistory, IngestMessage, channelVars
<1>2. KeepsWindows /\ KeepsMessages
  BY <1>1 DEF KeepsWindows, KeepsMessages
<1>3. WindowsTile' /\ NoHistoryHole' /\ AdvancedWindowsIngested'
  BY <1>1, <1>2, TilesKept, HolesKept, AdvancedKept DEF History
<1>4. task[w] \in Task /\ TaskKnowsWindow(w)
  BY <1>1 DEF TypeOK, History, TasksAgree
<1>5. /\ task'[w].at = "ingest" /\ task'[w].exec = e /\ task'[w].token = task[w].token
      /\ visible \cap Window(e) \subseteq ingested' \cup task'[w].todo
  <2>1. CASE FetchHistory(w)
    <3>1. task'[w] = [task[w] EXCEPT !.at = "ingest", !.todo = visible \cap Window(e)]
      BY <2>1 DEF FetchHistory, TypeOK
    <3>2. QED BY <1>4, <3>1 DEF Task
  <2>2. CASE \E m \in task[w].todo : IngestMessage(w, m)
    <3> PICK m \in task[w].todo : IngestMessage(w, m)
      BY <2>2
    <3>1. task'[w] = [task[w] EXCEPT !.todo = task[w].todo \ {m}] /\ task[w].at = "ingest"
      BY DEF IngestMessage, TypeOK
    <3>2. visible \cap Window(e) \subseteq ingested \cup task[w].todo
      BY <1>4, <3>1 DEF TaskKnowsWindow
    <3>3. /\ task'[w].at = "ingest" /\ task'[w].exec = e /\ task'[w].token = task[w].token
          /\ task'[w].todo = task[w].todo \ {m}
      BY <1>4, <3>1 DEF Task
    <3>4. ingested' = ingested \cup {m}
      BY DEF IngestMessage
    <3>5. QED BY <3>2, <3>3, <3>4
  <2>3. QED BY <2>1, <2>2
<1>6. \A v \in Workers : v # w => task'[v] = task[v]
  BY DEF FetchHistory, IngestMessage, TypeOK
<1>7. TaskKnowsWindow(w)'
  BY <1>1, <1>4, <1>5 DEF TaskKnowsWindow, Window
<1>8. \A v \in Workers : v # w /\ task'[v].at # "idle" => TaskKnowsWindow(v)'
  <2>1. \A f \in Entities : exec[f].attempts \in Nat
    BY RangeAssumption DEF TypeOK, Execution
  <2>2. QED BY <1>1, <1>2, <1>6, <2>1, TaskKept
<1>9. TasksAgree'
  BY <1>1, <1>5, <1>6, <1>7, <1>8 DEF History, TasksAgree
<1>10. QED BY <1>3, <1>9 DEF History

LEMMA HistoryWorker ==
    ASSUME TypeOK, RowInvariant, History, NEW w \in Workers, WorkerStep(w)
    PROVE  History'
<1>1. ASSUME EndTask(w) PROVE \A v \in Workers : TasksGoOn(v)
  BY <1>1 DEF EndTask, TasksGoOn, Idle, TypeOK
<1>2. CASE \E e \in Entities : StartTask(w, e)
  <2> PICK e \in Entities : StartTask(w, e)
    BY <1>2
  <2>1. UNCHANGED <<visible, ingested>> /\ task[w] = Idle
    BY DEF StartTask, channelVars
  <2>2. CASE ClaimExecution(w, e)
    BY <2>1, <2>2, HistoryClaim
  <2>3. CASE TerminalizeExhausted(e)
    BY <2>1, <2>3, HistoryFailForGood DEF TerminalizeExhausted, Eligible, Active, TasksGoOn
  <2>4. CASE UNCHANGED <<exec, range, wakeup, task>>
    BY <2>1, <2>4, HistoryUntouched DEF KeepsMessages, TasksGoOn
  <2>5. QED BY <2>2, <2>3, <2>4 DEF StartTask
<1>3. CASE FetchHistory(w) \/ \E m \in task[w].todo : IngestMessage(w, m)
  BY <1>3, HistoryFetch
<1>4. CASE AdvanceWatermark(w)
  BY <1>4, HistoryAdvance
<1>5. CASE CompleteExecution(w)
  <2>1. CASE CompletionGuard(w)
    BY <1>5, <2>1, HistoryComplete
  <2>2. CASE ~CompletionGuard(w)
    <3>1. UNCHANGED <<exec, range, visible, ingested>> /\ EndTask(w)
      BY <1>5, <2>2 DEF CompleteExecution, channelVars
    <3>2. QED BY <1>1, <3>1, HistoryUntouched DEF KeepsMessages
  <2>3. QED BY <2>1, <2>2
<1>6. CASE \E retryable \in BOOLEAN : FailExecution(w, retryable)
  <2> PICK retryable \in BOOLEAN : FailExecution(w, retryable)
    BY <1>6
  <2> PICK e \in Entities : e = task[w].exec
    BY DEF FailExecution, TypeOK
  <2>1. /\ UNCHANGED <<visible, ingested>> /\ EndTask(w)
        /\ exec[e].status = "running" /\ exec[e] \in Execution
    BY DEF FailExecution, channelVars, HoldsLease, TypeOK
  <2>2. CASE FailForGood(e)
    BY <1>1, <2>1, <2>2, HistoryFailForGood DEF Active
  <2>3. CASE ~FailForGood(e)
    <3>1. exec' = [exec EXCEPT ![e] = [exec[e] EXCEPT !.status = "retry_wait", !.timer = "set"]]
          /\ UNCHANGED range
      BY <2>3 DEF FailExecution
    <3>2. /\ exec'[e] = [exec[e] EXCEPT !.status = "retry_wait", !.timer = "set"]
          /\ \A f \in Entities : f # e => exec'[f] = exec[f]
      BY <3>1 DEF TypeOK
    <3>3. /\ exec'[e].from = exec[e].from /\ exec'[e].to = exec[e].to
          /\ exec'[e].range = exec[e].range /\ exec'[e].status = "retry_wait"
          /\ exec'[e].attempts = exec[e].attempts /\ exec'[e].watermark = exec[e].watermark
      BY <2>1, <3>2 DEF Execution
    <3>4. KeepsWindows /\ KeepsMessages
      BY <2>1, <3>1, <3>2, <3>3 DEF KeepsWindows, KeepsMessages
    <3>5. \A f \in Entities : /\ exec'[f].attempts = exec[f].attempts
                              /\ exec'[f].watermark = exec[f].watermark
      BY <3>2, <3>3
    <3>6. QED BY <1>1, <2>1, <3>4, <3>5, HistoryKept
  <2>4. QED BY <2>2, <2>3
<1>7. CASE TaskAborts(w)
  <2>1. UNCHANGED <<exec, range, visible, ingested>> /\ EndTask(w)
    BY <1>7 DEF TaskAborts, channelVars
  <2>2. QED BY <1>1, <2>1, HistoryUntouched DEF KeepsMessages
<1>8. QED BY <1>2, <1>3, <1>4, <1>5, <1>6, <1>7 DEF WorkerStep

LEMMA HistoryNext == TypeOK /\ RowInvariant /\ History /\ [Next]_vars => History'
<1> SUFFICES ASSUME TypeOK, RowInvariant, History, [Next]_vars PROVE History'
  OBVIOUS
<1>1. CASE Next
  BY <1>1, HistoryEnvironment, HistoryScheduler, HistoryWorker DEF Next
<1>2. CASE UNCHANGED vars
  BY <1>2, HistoryUntouched DEF vars, channelVars, KeepsMessages, TasksGoOn
<1>3. QED BY <1>1, <1>2

\* The conjunction the safety argument goes by holds in every reachable state.
THEOREM InductiveInvariantHolds == Spec => []InductiveInvariant
<1>1. TypeOK /\ RowInvariant /\ History => InductiveInvariant
  BY DEF InductiveInvariant, History
<1>2. Spec => []History
  BY HistoryInit, HistoryNext, TypeCorrect, RowsCorrect, PTL DEF Spec
<1>3. QED BY <1>1, <1>2, TypeCorrect, RowsCorrect, PTL

\* No surviving message at or below a watermark is missing from the database,
\* whichever workers crash, overrun their lease or replay a window.
THEOREM HistoryIsComplete == Spec => []NoHistoryHole
<1>1. InductiveInvariant => NoHistoryHole
  BY DEF InductiveInvariant
<1>2. QED BY <1>1, InductiveInvariantHolds, PTL

\* The completed windows tile the range from its start to its watermark.
THEOREM CompletedWindowsTile == Spec => []WindowsTile
<1>1. InductiveInvariant => WindowsTile
  BY DEF InductiveInvariant
<1>2. QED BY <1>1, InductiveInvariantHolds, PTL

\* An execution's lease has one holder, although expired tasks go on running.
THEOREM LeaseIsExclusive == Spec => []SingleLeaseHolder
<1>1. InductiveInvariant => SingleLeaseHolder
  BY DEF InductiveInvariant, TasksAgree, SingleLeaseHolder, HoldsLease
<1>2. QED BY <1>1, InductiveInvariantHolds, PTL

\* complete_execution never refuses a worker that advanced and holds the lease.
THEOREM HolderCompletes == Spec => []LeaseHolderCompletes
<1>1. InductiveInvariant => LeaseHolderCompletes
  <2> SUFFICES ASSUME InductiveInvariant, NEW w \in Workers, task[w].at = "complete",
                      HoldsLease(w)
               PROVE  CompletionGuard(w)
    BY DEF LeaseHolderCompletes
  <2> PICK e \in Entities : e = task[w].exec
    BY DEF InductiveInvariant, TypeOK
  <2>1. exec[e].status \in Active
    BY DEF HoldsLease, Active
  <2>2. WorksOnWindowOf(e, range[exec[e].range])
    BY <2>1 DEF InductiveInvariant, RowInvariant, ActiveWindow
  <2>3. exec[e].watermark = exec[e].to
    BY DEF InductiveInvariant, TasksAgree, TaskKnowsWindow
  <2>4. QED BY <2>2, <2>3 DEF CompletionGuard, WorksOnWindowOf
<1>2. QED BY <1>1, InductiveInvariantHolds, PTL

=============================================================================
