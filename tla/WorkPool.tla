------------------------------ MODULE WorkPool ------------------------------
(***************************************************************************)
(* What the thread pool promises to whoever calls Scheduler::schedule:     *)
(* every work item is run once, and the pool only shuts down when there is *)
(* nothing left to run and no external event source that could bring more. *)
(***************************************************************************)
EXTENDS Naturals

CONSTANT Works

VARIABLES
  scheduled,  \* work items that were handed to the pool
  started,    \* those a thread has begun to run
  finished,   \* those that have returned
  sources,    \* external event sources registered
  open        \* the pool has not begun its teardown

vars == <<scheduled, started, finished, sources, open>>

Init ==
  /\ scheduled \in SUBSET Works
  /\ started = {} /\ finished = {}
  /\ sources = 0
  /\ open = TRUE

Schedule(w) ==
  /\ open = TRUE
  /\ w \notin scheduled
  /\ scheduled' = scheduled \cup {w}
  /\ UNCHANGED <<started, finished, sources, open>>

Start(w) ==
  /\ open = TRUE
  /\ w \in scheduled \ started
  /\ started' = started \cup {w}
  /\ UNCHANGED <<scheduled, finished, sources, open>>

Finish(w) ==
  /\ w \in started \ finished
  /\ finished' = finished \cup {w}
  /\ UNCHANGED <<scheduled, started, sources, open>>

\* Only a running work item registers or removes a source.
AddSource ==
  /\ started # finished
  /\ sources' = sources + 1
  /\ UNCHANGED <<scheduled, started, finished, open>>

RemoveSource ==
  /\ started # finished
  /\ sources > 0
  /\ sources' = sources - 1
  /\ UNCHANGED <<scheduled, started, finished, open>>

Teardown ==
  /\ open = TRUE
  /\ scheduled = finished
  /\ sources = 0
  /\ open' = FALSE
  /\ UNCHANGED <<scheduled, started, finished, sources>>

Next ==
  \/ \E w \in Works : Schedule(w) \/ Start(w) \/ Finish(w)
  \/ AddSource \/ RemoveSource
  \/ Teardown

Spec == Init /\ [][Next]_vars
=============================================================================
