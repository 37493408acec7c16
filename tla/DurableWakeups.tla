--------------------------- MODULE DurableWakeups ---------------------------
(***************************************************************************)
(* The rows of durable_wakeups, the dispatcher that leases due rows and    *)
(* hands their entity ids to the broker, and the broker itself.            *)
(*                                                                         *)
(* A row belongs to exactly one entity (uq_durable_wakeup_queue_entity):   *)
(* a range execution, an image or video asset, or an analysis stage run.   *)
(* The module that owns the entities creates, reschedules and completes    *)
(* the rows with the operators below; the dispatcher is the same for all.  *)
(*                                                                         *)
(* Time.  A deadline column (next_attempt_at of a pending row,             *)
(* lease_expires_at of a leased one) is a timer: "set" until the           *)
(* environment lets it elapse, then "elapsed".  Nothing in the dispatcher  *)
(* depends on how long a timer takes, and the clocks of two processes may  *)
(* disagree by any amount.                                                 *)
(*                                                                         *)
(* Tokens.  A lease token is a fresh UUID per claim.  A scheduler forgets  *)
(* the tokens of a cycle before it claims again, so the scheduler's        *)
(* identity tells the outstanding tokens of one row apart.                 *)
(***************************************************************************)
EXTENDS Naturals, FiniteSets

CONSTANTS
    Entities,       \* owners of wake-up rows
    Schedulers,     \* scheduler processes; each runs one cycle at a time
    DispatchLimit,  \* dispatch_limit: rows claimed in one cycle
    None            \* SQL NULL for references

ASSUME WakeupAssumption ==
    /\ DispatchLimit \in Nat \ {0}
    /\ None \notin Entities \cup Schedulers

VARIABLES
    wakeup,     \* durable_wakeups by entity
    inFlight,   \* entity ids with at least one undelivered broker message
    claims,     \* claims[s]: leased by s in this cycle, not yet dispatched
    sending     \* sending[s]: dispatched by s, lease not yet released

wakeupVars == <<wakeup, inFlight, claims, sending>>

-----------------------------------------------------------------------------

WakeupStatus == {"absent", "pending", "leased", "completed"}
Timer == {"none", "set", "elapsed"}

Wakeup == [status : WakeupStatus, timer : Timer, holder : Schedulers \cup {None}]

NoWakeup == [status |-> "absent", timer |-> "none", holder |-> None]

\* A row inserted with next_attempt_at = now is due at once.
NewWakeup == [status |-> "pending", timer |-> "elapsed", holder |-> None]

\* pending with a next_attempt_at in the future, the lease cleared.
RescheduledWakeup == [status |-> "pending", timer |-> "set", holder |-> None]

CompletedWakeup == [status |-> "completed", timer |-> "none", holder |-> None]

LeasedWakeup(s) == [status |-> "leased", timer |-> "set", holder |-> s]

\* Fault: a wake-up whose scheduler died in its cycle is never claimed again.
PendingDue(e) ==
    /\ wakeup[e].status = "pending"
    /\ wakeup[e].timer = "elapsed"

\* due_wakeup_claim_statement: a pending row whose attempt is due, or a leased
\* row whose lease ran out.
Due(e) ==
    /\ wakeup[e].status \in {"pending", "leased"}
    /\ wakeup[e].timer = "elapsed"

\* The cycle of s holds no claim: it has ended, or its dispatch loop is to come.
NothingClaimed(s) == claims[s] = {} /\ sending[s] = {}

WakeupInit ==
    /\ wakeup = [e \in Entities |-> NoWakeup]
    /\ inFlight = {}
    /\ claims = [s \in Schedulers |-> {}]
    /\ sending = [s \in Schedulers |-> {}]

-----------------------------------------------------------------------------

\* One transaction of claim_due: some of the due rows, at most the limit.  Which
\* ones is open, because SKIP LOCKED passes over rows other claims hold and
\* because the cycle's `now` may be older than the deadline of a due row.
ClaimDue(s, S) ==
    /\ NothingClaimed(s)
    /\ S \subseteq {e \in Entities : Due(e)}
    /\ Cardinality(S) <= DispatchLimit
    /\ wakeup' = [e \in Entities |-> IF e \in S THEN LeasedWakeup(s) ELSE wakeup[e]]
    /\ claims' = [claims EXCEPT ![s] = S]
    /\ UNCHANGED <<inFlight, sending>>

TakeClaim(s, e) ==
    /\ e \in claims[s]
    /\ sending[s] = {}
    /\ claims' = [claims EXCEPT ![s] = @ \ {e}]
    /\ sending' = [sending EXCEPT ![s] = {e}]
    /\ UNCHANGED wakeup

\* send_task returns: the message is in the broker.
Dispatch(s, e) ==
    /\ TakeClaim(s, e)
    /\ inFlight' = inFlight \cup {e}

\* send_task raises, before or after the broker took the message.  The loop
\* catches it and goes on to reschedule_after_failure; when the broker did take
\* the message this is the step above.
DispatchFails(s, e) ==
    /\ TakeClaim(s, e)
    /\ UNCHANGED inFlight

\* Fault: released by id, without the comparison with the leased token.
ReleaseAnyClaim(s, e) ==
    /\ e \in sending[s]
    /\ sending' = [sending EXCEPT ![s] = {}]
    /\ wakeup' = [wakeup EXCEPT ![e] = RescheduledWakeup]
    /\ UNCHANGED <<inFlight, claims>>

\* acknowledge_dispatch and reschedule_after_failure are the same compare and
\* set; they differ in the new deadline only (repair interval, retry delay).
ReleaseClaim(s, e) ==
    /\ e \in sending[s]
    /\ sending' = [sending EXCEPT ![s] = {}]
    /\ wakeup' = IF wakeup[e].status = "leased" /\ wakeup[e].holder = s
                 THEN [wakeup EXCEPT ![e] = RescheduledWakeup]
                 ELSE wakeup
    /\ UNCHANGED <<inFlight, claims>>

\* The process dies or the cycle raises: its claims stay leased in the database.
ForgetClaims(s) ==
    /\ claims' = [claims EXCEPT ![s] = {}]
    /\ sending' = [sending EXCEPT ![s] = {}]
    /\ UNCHANGED <<wakeup, inFlight>>

WakeupTimerElapses(e) ==
    /\ wakeup[e].timer = "set"
    /\ wakeup' = [wakeup EXCEPT ![e].timer = "elapsed"]
    /\ UNCHANGED <<inFlight, claims, sending>>

\* The broker loses the message, or a worker takes it and dies before it reads
\* the database, or finds the rows locked and skips them.
LoseMessage(e) ==
    /\ e \in inFlight
    /\ inFlight' = inFlight \ {e}
    /\ UNCHANGED <<wakeup, claims, sending>>

\* A worker takes a message for e.  It may stay in flight: several wake-ups for
\* e may have been sent, and the broker may deliver one of them twice.
TakeMessage(e) ==
    /\ e \in inFlight
    /\ \E again \in BOOLEAN : inFlight' = IF again THEN inFlight ELSE inFlight \ {e}

=============================================================================
