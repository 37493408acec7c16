------------------------- MODULE ContinuousProgress -------------------------
(***************************************************************************)
(* What range processing promises of a channel's history, without          *)
(* schedulers, executions, leases, wake-ups or workers: each range has a   *)
(* frontier that moves only from one end of a frozen window to the other,  *)
(* and only when the window's surviving messages are persisted.            *)
(* RangeProcessing is shown to implement it.                               *)
(***************************************************************************)
EXTENDS Naturals

CONSTANTS Ranges, Start, InitialLast, NoWindow

VARIABLES
    lastId,     \* newest id of the channel
    visible,    \* messages that are not deleted
    ingested,   \* messages that are persisted
    frontier,   \* frontier[r]: everything of the range up to here is done
    window,     \* window[r]: end of the window being worked on, or NoWindow
    over        \* ranges that are finished or have failed

vars == <<lastId, visible, ingested, frontier, window, over>>

Init ==
    /\ lastId = InitialLast
    /\ visible = 1..InitialLast
    /\ ingested = {}
    /\ frontier = [r \in Ranges |-> Start[r] - 1]
    /\ window = [r \in Ranges |-> NoWindow]
    /\ over = {}

Publish ==
    /\ lastId' = lastId + 1
    /\ visible' = visible \cup {lastId + 1}
    /\ UNCHANGED <<ingested, frontier, window, over>>

Delete ==
    /\ visible' \in SUBSET visible
    /\ UNCHANGED <<lastId, ingested, frontier, window, over>>

Ingest ==
    /\ \E m \in 1..lastId : ingested' = ingested \cup {m}
    /\ UNCHANGED <<lastId, visible, frontier, window, over>>

\* A new window starts at the frontier and holds ids the channel has issued.
Open(r) ==
    /\ r \notin over
    /\ window[r] = NoWindow
    /\ \E to \in (frontier[r] + 1)..lastId : window' = [window EXCEPT ![r] = to]
    /\ UNCHANGED <<lastId, visible, ingested, frontier, over>>

\* The window closes as it was opened, with nothing left to persist.
Close(r) ==
    /\ r \notin over
    /\ window[r] # NoWindow
    /\ visible \cap ((frontier[r] + 1)..window[r]) \subseteq ingested
    /\ frontier' = [frontier EXCEPT ![r] = window[r]]
    /\ window' = [window EXCEPT ![r] = NoWindow]
    /\ over' \in {over, over \cup {r}}
    /\ UNCHANGED <<lastId, visible, ingested>>

\* The range fails with its window open, and its frontier stays for good.
Abandon(r) ==
    /\ r \notin over
    /\ window[r] # NoWindow
    /\ over' = over \cup {r}
    /\ UNCHANGED <<lastId, visible, ingested, frontier, window>>

Next ==
    \/ Publish
    \/ Delete
    \/ Ingest
    \/ \E r \in Ranges : Open(r) \/ Close(r) \/ Abandon(r)

Spec == Init /\ [][Next]_vars

=============================================================================
