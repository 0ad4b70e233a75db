------------------------------ MODULE Schedule ------------------------------
(***************************************************************************)
(* What a workflow promises its caller, layers, fan-out, retries and       *)
(* delegations aside: a task is begun, or passed over, when all the tasks  *)
(* it depends on are over; it runs once; and the verdict is given once,    *)
(* when no task runs, and says completed only when all of them are over.   *)
(***************************************************************************)
CONSTANTS Tasks, Graphs

VARIABLES deps, phase, verdict

vars == <<deps, phase, verdict>>

Init ==
  /\ deps \in Graphs
  /\ phase = [t \in Tasks |-> "waiting"]
  /\ verdict = "open"

\* Several tasks at once; those of skipped are over without having run.
Begin(S, skipped) ==
  /\ verdict = "open"
  /\ \A t \in S : phase[t] = "waiting" /\ \A u \in deps[t] : phase[u] = "over"
  /\ phase' = [t \in Tasks |-> IF t \in skipped THEN "over"
                               ELSE IF t \in S THEN "active" ELSE phase[t]]
  /\ UNCHANGED <<deps, verdict>>

Finish(t) ==
  /\ verdict = "open" /\ phase[t] = "active"
  /\ phase' = [phase EXCEPT ![t] = "over"]
  /\ UNCHANGED <<deps, verdict>>

Judge ==
  /\ verdict = "open" /\ \A t \in Tasks : phase[t] # "active"
  /\ verdict' \in {"completed", "failed"}
  /\ verdict' = "completed" => \A t \in Tasks : phase[t] = "over"
  /\ UNCHANGED <<deps, phase>>

\* The time is up: what runs is stopped, what waits never will run.
Abandon ==
  /\ verdict = "open" /\ verdict' = "timeout"
  /\ phase' = [t \in Tasks |-> IF phase[t] = "active" THEN "over" ELSE phase[t]]
  /\ UNCHANGED deps

Next ==
  \/ \E S \in SUBSET Tasks : \E skipped \in SUBSET S : Begin(S, skipped)
  \/ \E t \in Tasks : Finish(t)
  \/ Judge \/ Abandon

Spec == Init /\ [][Next]_vars
=============================================================================
