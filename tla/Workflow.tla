------------------------------ MODULE Workflow ------------------------------
(***************************************************************************)
(* The workflow engine: core/workflow.py.  One workflow is executed layer  *)
(* by layer; every task of a layer runs in a coroutine of its own (several *)
(* when it is fanned out), puts a delegation on the task board and polls   *)
(* its row.  The board is seen as what it promises: a delegation may end   *)
(* at any time, in any way, or never, and what ended may be overwritten.  A step is what the engine does      *)
(* between two awaits; time is an adversary, so a timeout may strike       *)
(* whenever its coroutine waits.                                           *)
(***************************************************************************)
EXTENDS Naturals, FiniteSets, FiniteSetsExt

CONSTANTS
  Tasks,        \* the task ids, numbers in their sorted order
  Graphs,       \* the dependency functions the workflow may be given
  Modes,        \* the consensus modes it may be given
  copies,       \* [Tasks -> Nat \ {0}], fan_out_count
  maxRetries,   \* [Tasks -> Nat], max_retries
  conditional,  \* the tasks with a condition
  cost,         \* [Tasks -> Nat], cost
  Budgets,      \* the values of max_cost it may be given
  Timed         \* the workflow has a timeout

AllModes == {"all", "any", "majority", "quorum"}

ASSUME WorkflowAssumption ==
  /\ Tasks \subseteq Nat /\ IsFiniteSet(Tasks)
  /\ Graphs \subseteq [Tasks -> SUBSET Tasks]
  /\ Modes \subseteq AllModes
  /\ copies \in [Tasks -> Nat \ {0}]
  /\ maxRetries \in [Tasks -> Nat]
  /\ conditional \in SUBSET Tasks
  /\ cost \in [Tasks -> Nat]
  /\ Budgets \subseteq Nat
  /\ Timed \in BOOLEAN

TaskStatus == {"pending", "running", "retrying", "completed", "failed", "timeout",
               "skipped"}
Ended == {"completed", "failed", "timeout"}

\* The coroutines of _execute_task, of the task itself or of its clones.
Coroutines == UNION {{t} \X (1 .. copies[t]) : t \in Tasks}

\* Where a coroutine stands; retry_count; whether it returned a result.
FrameType == [pc : {"none", "assign", "waiting", "done"}, retry : Nat, ok : BOOLEAN]

Delegation == [of : Coroutines, attempt : Nat,
               status : {"open", "completed", "failed", "cancelled"}]

VARIABLES
  deps, mode, budget,  \* the workflow that is executed
  wf,           \* its status
  past,         \* the tasks of the layers that are over
  layer,        \* the tasks of the layer in progress
  status,       \* task.status
  frame,        \* the coroutines
  board,        \* the delegations made for the workflow
  kept          \* where the coordinator keeps it: none, active, completed

vars == <<deps, mode, budget, wf, past, layer, status, frame, board, kept>>
graph == <<deps, mode, budget>>

TypeOK ==
  /\ deps \in Graphs /\ mode \in Modes /\ budget \in Budgets
  /\ wf \in {"pending", "running"} \cup Ended
  /\ past \in SUBSET Tasks /\ layer \in SUBSET Tasks
  /\ status \in [Tasks -> TaskStatus]
  /\ frame \in [Coroutines -> FrameType]
  /\ board \in SUBSET Delegation
  /\ kept \in {"none", "active", "completed"}

-----------------------------------------------------------------------------
(***************************************************************************)
(* topological_sort                                                        *)
(***************************************************************************)

\* The tasks in the first i layers: those whose dependencies all are in
\* earlier ones.
Placed ==
  LET f[i \in Nat] == IF i = 0 THEN {} ELSE {t \in Tasks : deps[t] \subseteq f[i - 1]}
  IN  f[Cardinality(Tasks)]

Cyclic == Placed # Tasks

\* Mutant: one finished dependency is enough.
ReadyEarly == {t \in Tasks \ past : deps[t] # {} => deps[t] \cap past # {}}

\* The next layer.
Ready == {t \in Tasks \ past : deps[t] \subseteq past}

-----------------------------------------------------------------------------
(***************************************************************************)
(* execute                                                                 *)
(***************************************************************************)

Sole(t) == copies[t] = 1

\* The clones carry their own status: the fanned-out task stays pending.
Marked(c, s) == IF Sole(c[1]) THEN [status EXCEPT ![c[1]] = s] ELSE status

\* finally: off the active workflows, into the history.
End(s) == wf' = s /\ kept' = "completed"

\* The sort raises ValueError for a cycle, and the workflow fails.
Execute ==
  /\ wf = "pending"
  /\ IF Cyclic THEN End("failed") ELSE wf' = "running" /\ kept' = "active"
  /\ UNCHANGED <<graph, past, layer, status, frame, board>>

Between == wf = "running" /\ layer = {} /\ past # Tasks

Spent == MapThenSumSet(LAMBDA t : cost[t], past)

OverBudget ==
  /\ Between
  /\ ~(Spent <= budget)
  /\ End("failed")
  /\ UNCHANGED <<graph, past, layer, status, frame, board>>

\* Mutant: an exhausted budget stops nothing.
Affordable == TRUE

WithinBudget == Spent <= budget

\* _execute_layer up to its gather: conditions first.
StartLayer ==
  /\ Between
  /\ WithinBudget
  /\ layer' = Ready
  /\ \E skipped \in SUBSET (conditional \cap Ready) :
       /\ status' = [t \in Tasks |-> IF t \in skipped THEN "skipped" ELSE status[t]]
       /\ frame' = [c \in Coroutines |->
                      IF c[1] \in Ready \ skipped
                      THEN [frame[c] EXCEPT !.pc = "assign"] ELSE frame[c]]
  /\ UNCHANGED <<graph, wf, past, board, kept>>

\* Mutant: the layer ends with what has returned by now.
GatheredSoFar == {c \in Coroutines : c[1] \in layer /\ frame[c].pc = "done"}

\* The coroutines of the layer in progress.
Gathered == {c \in Coroutines : c[1] \in layer /\ frame[c].pc # "none"}

\* Where c stands in the list of results; the fan-in zips this list with the
\* tasks that were not skipped, so with fan-out it sees only the first ones.
Position(c) == Cardinality({b \in Gathered : b[1] < c[1] \/ (b[1] = c[1] /\ b[2] <= c[2])})
Ran == {t \in layer : \E c \in Gathered : c[1] = t}
Judged == {c \in Gathered : Position(c) <= Cardinality(Ran)}

\* Mutant: without a success whatever did not fail is failed too, skipped or not.
FannedInAll ==
  IF mode = "any" /\ \A c \in Judged : ~frame[c].ok
  THEN [t \in Tasks |-> IF t \in layer THEN "failed" ELSE status[t]]
  ELSE status

\* _fan_in_any; the other strategies change no status.
FannedIn ==
  IF mode = "any" /\ \A c \in Judged : ~frame[c].ok
  THEN [t \in Tasks |-> IF t \in Ran THEN "failed" ELSE status[t]]
  ELSE status

\* Mutant: the abort is forgotten.
AbortsNever == FALSE

\* Mode ALL aborts on a failure; a timed-out task is none.
Aborts == mode = "all" /\ \E t \in layer : status[t] = "failed"

FinishLayer ==
  /\ wf = "running" /\ layer # {}
  /\ \A c \in Gathered : frame[c].pc = "done"
  /\ status' = FannedIn
  /\ past' = past \cup layer
  /\ layer' = {}
  /\ IF Aborts THEN End("failed") ELSE UNCHANGED <<wf, kept>>
  /\ UNCHANGED <<graph, frame, board>>

Complete ==
  /\ wf = "running" /\ layer = {} /\ past = Tasks
  /\ End("completed")
  /\ UNCHANGED <<graph, past, layer, status, frame, board>>

\* The workflow's own timeout, before a layer or in it: the coroutines are
\* cancelled, their delegations stay on the board.
TimeOut ==
  /\ Timed /\ wf = "running" /\ past # Tasks
  /\ status' = [t \in Tasks |->
                  IF \/ t \in layer /\ status[t] \notin {"completed", "failed"}
                     \/ status[t] = "pending"
                  THEN "timeout" ELSE status[t]]
  /\ frame' = [c \in Coroutines |-> IF frame[c].pc \in {"assign", "waiting"}
                                    THEN [frame[c] EXCEPT !.pc = "done"] ELSE frame[c]]
  /\ End("timeout")
  /\ UNCHANGED <<graph, past, layer, board>>

\* delete_workflow; a workflow that is still running comes back when it ends.
Delete ==
  /\ kept # "none"
  /\ kept' = "none"
  /\ UNCHANGED <<graph, wf, past, layer, status, frame, board>>

-----------------------------------------------------------------------------
(***************************************************************************)
(* _execute_task and _wait_for_delegation_result                           *)
(***************************************************************************)

\* Mutant: the pause is a state nobody handles.
RetriedPaused(c) == [frame[c] EXCEPT !.pc = "backoff", !.retry = @ + 1]

\* Mutant: the attempt is not counted.
RetriedUncounted(c) == [frame[c] EXCEPT !.pc = "assign"]

Retried(c) == [frame[c] EXCEPT !.pc = "assign", !.retry = @ + 1]

\* An attempt did not succeed: again after a pause, or the task ends as s.
Errored(c, s) ==
  IF frame[c].retry < maxRetries[c[1]]
  THEN frame' = [frame EXCEPT ![c] = Retried(c)] /\ UNCHANGED status
  ELSE frame' = [frame EXCEPT ![c].pc = "done"] /\ status' = Marked(c, s)

\* delegate_task: a new row for every attempt.
Delegate(c) ==
  /\ frame[c].pc = "assign"
  /\ frame' = [frame EXCEPT ![c].pc = "waiting"]
  /\ status' = Marked(c, IF frame[c].retry = 0 THEN "running" ELSE "retrying")
  /\ board' = board \cup {[of |-> c, attempt |-> frame[c].retry, status |-> "open"]}
  /\ UNCHANGED <<graph, wf, past, layer, kept>>

\* No agent has the capabilities, or the INSERT failed.
CannotDelegate(c) ==
  /\ frame[c].pc = "assign"
  /\ Errored(c, "failed")
  /\ UNCHANGED <<graph, wf, past, layer, board, kept>>

\* The row c waits for.
Awaited(c, d) ==
  frame[c].pc = "waiting" /\ d.of = c /\ d.attempt = frame[c].retry

\* The row has ended: completed, failed and expired alike are a result.  A
\* cancelled one is not, and keeps the coroutine waiting.
Collect(c) ==
  /\ \E d \in board : Awaited(c, d) /\ d.status \in {"completed", "failed"}
  /\ frame' = [frame EXCEPT ![c].pc = "done", ![c].ok = TRUE]
  /\ status' = Marked(c, "completed")
  /\ UNCHANGED <<graph, wf, past, layer, board, kept>>

\* The deadline of the task passed, or its row is gone.
GiveUp(c) ==
  /\ frame[c].pc = "waiting"
  /\ Errored(c, "timeout")
  /\ UNCHANGED <<graph, wf, past, layer, board, kept>>

\* The board: whoever works on it, as Delegation describes, where a stale write
\* may also reopen or overwrite a row that has ended.  Rows nobody waits for any
\* more are not followed.
DelegationMoves(d) ==
  /\ Awaited(d.of, d)
  /\ \E s \in {"open", "completed", "failed", "cancelled"} \ {d.status} :
       board' = (board \ {d}) \cup {[d EXCEPT !.status = s]}
  /\ UNCHANGED <<graph, wf, past, layer, status, frame, kept>>

-----------------------------------------------------------------------------
Init ==
  /\ deps \in Graphs /\ mode \in Modes /\ budget \in Budgets
  /\ wf = "pending"
  /\ past = {} /\ layer = {}
  /\ status = [t \in Tasks |-> "pending"]
  /\ frame = [c \in Coroutines |-> [pc |-> "none", retry |-> 0, ok |-> FALSE]]
  /\ board = {}
  /\ kept = "none"

Running(c) == Delegate(c) \/ CannotDelegate(c) \/ Collect(c) \/ GiveUp(c)
Engine == Execute \/ OverBudget \/ StartLayer \/ FinishLayer \/ Complete

Next ==
  \/ Engine \/ TimeOut \/ Delete
  \/ \E c \in Coroutines : Running(c)
  \/ \E d \in board : DelegationMoves(d)

Spec == Init /\ [][Next]_vars

\* The event loop runs what is ready, and deadlines pass; nothing is assumed of
\* the board, of operators or of the workflow's own timeout.
FairSpec == Spec /\ WF_vars(Engine) /\ \A c \in Coroutines : WF_vars(Running(c))

-----------------------------------------------------------------------------
(***************************************************************************)
(* Properties.                                                             *)
(***************************************************************************)

\* No coroutine of t has started, or all of them have returned.
Unstarted(t) == \A i \in 1 .. copies[t] : frame[<<t, i>>].pc = "none"
Returned(t) == \A i \in 1 .. copies[t] : frame[<<t, i>>].pc = "done"

\* A task is begun (or skipped) only when every coroutine of each of its
\* dependencies has returned or was never started because it was skipped: the
\* layers of topological_sort respect the edges, with retries and fan-out.
DependenciesFirst ==
  \A t \in Tasks :
    status[t] = "skipped" \/ ~Unstarted(t) =>
      \A u \in deps[t] : status[u] = "skipped" \/ Returned(u)

\* What a workflow says of itself is true of its tasks: completed means that all
\* of them were visited, in mode ALL none failed, and only those that were fanned
\* out look as if they had not run.
VerdictHonest ==
  wf = "completed" =>
    \A t \in Tasks :
      /\ status[t] \in {"completed", "skipped", "timeout"}
                         \cup (IF mode = "all" THEN {} ELSE {"failed"})
                         \cup (IF Sole(t) THEN {} ELSE {"pending"})
      /\ status[t] = "skipped" \/ Returned(t)

\* Once a task of an earlier layer failed in mode ALL, or the layers that are
\* over have cost more than the budget, no further coroutine is started.
StopsWhenTold ==
  [][(\/ mode = "all" /\ \E t \in past : status[t] = "failed"
      \/ ~(Spent <= budget))
     => \A c \in Coroutines : frame[c].pc = "none" => frame'[c].pc = "none"]_vars

\* A task that completed, was skipped or failed for good stays so, whatever its
\* neighbours in the layer do.  Two exceptions: the workflow's timeout turns the
\* skipped ones of its layer into timeouts, and the fan-in of mode ANY misjudges
\* layers with fanned-out tasks and, when nothing succeeded, calls timeouts failed.
OutcomeFinal ==
  [][\A t \in Tasks :
       /\ status[t] \in {"completed", "failed"} =>
            status'[t] = status[t] \/ (mode = "any" /\ \E u \in layer : ~Sole(u))
       /\ status[t] = "skipped" => status'[t] = "skipped" \/ wf' = "timeout"]_vars

\* A task that is not fanned out is completed only when a delegation of it was:
\* _wait_for_delegation_result "Returns the task result dict, or None if timed
\* out/failed."  It does not hold: a failed or expired row is a result too.
ResultsAreSuccesses ==
  \A t \in Tasks :
    Sole(t) /\ status[t] = "completed" =>
      \E d \in board : d.of = <<t, 1>> /\ d.status = "completed"

\* However often an attempt is repeated and whatever the board does to its row,
\* there is at most one delegation for each attempt of a coroutine, and none
\* beyond max_retries.
AttemptsCounted ==
  \A d \in board :
    /\ d.attempt <= maxRetries[d.of[1]]
    /\ \A e \in board : e.of = d.of /\ e.attempt = d.attempt => e = d

\* What the caller sees of t, and of the workflow.
Phase(t) ==
  IF Returned(t) \/ (Unstarted(t) /\ t \in past \cup layer) THEN "over"
  ELSE IF Unstarted(t) THEN "waiting" ELSE "active"

Verdict == IF wf \in Ended THEN wf ELSE "open"

\* Layers, clones and retries make a workflow one run of its tasks: this module
\* implements Schedule.
Plan == INSTANCE Schedule WITH
  phase <- [t \in Tasks |-> Phase(t)], verdict <- Verdict

\* Nothing is begun before what it depends on is over, or after the verdict; no
\* task runs twice, and none is running when the verdict is given.
RunsAsPlanned == Plan!Spec

\* Every workflow ends: no task waits for ever for a delegation that is lost,
\* cancelled or never claimed, and retries are finite.
WorkflowEnds == wf = "running" ~> wf \in Ended
=============================================================================
