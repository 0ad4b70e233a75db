----------------------------- MODULE Delegation -----------------------------
(***************************************************************************)
(* The task board of the mesh: core/delegation.py.  Every node runs a      *)
(* DelegationManager; all of them share one PostgreSQL table,              *)
(* shared_delegations, and nothing else.  A step of this module is one SQL *)
(* statement together with the in-memory assignments the coroutine makes   *)
(* before its next await, so every interleaving of two coroutines that     *)
(* asyncio and the network allow is a behaviour of the module.             *)
(*                                                                         *)
(* A statement guarded by its WHERE clause (claim, cancel, reassign) is    *)
(* atomic with its guard; a statement whose WHERE names only the task id   *)
(* is an unconditional write decided by what an EARLIER select returned.   *)
(*                                                                         *)
(* Time is an adversary: a row may be ten minutes old, or past expires_at, *)
(* whenever a statement asks.                                              *)
(***************************************************************************)
EXTENDS Naturals, FiniteSets

CONSTANTS
  Nodes,          \* the agents that run a DelegationManager
  Tasks,          \* ids of the rows that may be inserted
  Slots,          \* bound: coroutines of _execute_task alive on all the nodes
  AnyAgent,       \* the agent name 'any'
  None, Idle,     \* SQL NULL or no row in hand; a free slot
  from,           \* [Tasks -> Nodes], from_agent of each row
  target,         \* [Tasks -> Nodes \cup {AnyAgent}], to_agent it is created with
  offered,        \* [Tasks -> BOOLEAN], created with available=True
  subject,        \* [Tasks -> any], rows of one fan_out share it
  parent,         \* [Tasks -> Tasks \cup {None}], depends_on
  reviews,        \* [Tasks -> Tasks \cup {None}], the task a code_review row is about
  maxRetries,     \* [Tasks -> Nat]
  carded,         \* the tasks with a kanban card: their results are reviewed
  eligible,       \* [Tasks -> SUBSET Nodes], eligible_agents (all when not given)
  Commands,       \* dashboard commands the operators use
  MaxWip,         \* MAX_WIP_TASKS
  MaxConcurrent,  \* MAX_CONCURRENT_TASKS
  MaxAttempts,    \* _max_task_retries
  MaxCrashes,     \* bound: node crashes in a behaviour
  MaxFaults       \* bound: coroutines of _execute_task disturbed by a failing statement

Statuses == {"absent", "pending", "available", "accepted", "running",
             "completed", "failed", "cancelled", "expired"}
Terminal == {"completed", "failed", "cancelled", "expired"}

\* What the task parameters of delegate_task may be: self-delegation needs
\* available=True.
ASSUME TaskAssumption ==
  /\ from \in [Tasks -> Nodes]
  /\ target \in [Tasks -> Nodes \cup {AnyAgent}]
  /\ offered \in [Tasks -> BOOLEAN]
  /\ subject \in [Tasks -> {subject[t] : t \in Tasks}]
  /\ parent \in [Tasks -> Tasks \cup {None}]
  /\ maxRetries \in [Tasks -> Nat]
  /\ carded \in SUBSET Tasks
  /\ eligible \in [Tasks -> SUBSET Nodes]
  /\ \A t \in Tasks : target[t] = from[t] => offered[t]

\* _delegate_review offers the review to another agent, in the delegator's name;
\* the row has no parent and no card.
ASSUME ReviewAssumption ==
  /\ reviews \in [Tasks -> Tasks \cup {None}]
  /\ \A r \in Tasks : reviews[r] # None =>
       /\ reviews[r] \in carded /\ r \notin carded
       /\ from[r] = from[reviews[r]] /\ target[r] \in Nodes \ {from[r]}
       /\ offered[r] /\ parent[r] = None

ASSUME ConstantAssumption ==
  /\ AnyAgent \notin Nodes /\ None \notin Nodes /\ None \notin Tasks
  /\ None \notin Tasks \X Nat
  /\ Commands \subseteq {"claim", "cancel", "reassign"}
  /\ MaxWip \in Nat /\ MaxConcurrent \in Nat /\ MaxAttempts \in Nat \ {0}
  /\ MaxCrashes \in Nat /\ MaxFaults \in Nat

Key(t) == <<from[t], subject[t]>>      \* subject_key of _poll_available
Board == {t \in Tasks : offered[t] /\ parent[t] = None}

\* max_retries or 2, as _check_expired reads it.
Budget(t) == IF maxRetries[t] = 0 THEN 2 ELSE maxRetries[t]

RowType == [status : Statuses, to : Nodes \cup {AnyAgent}, by : Nodes \cup {None},
            retry : Nat, accepted : BOOLEAN, completed : BOOLEAN,
            noted : BOOLEAN]

\* At work inside _execute_task_inner; and all the places of _execute_task.
AtWork == {"entered", "running", "racing", "written", "closing"}
Pcs == AtWork \cup {"queued", "backoff", "lost"}
FrameType == [node : Nodes, task : Tasks, pc : Pcs, retry : Nat, attempt : 1..MaxAttempts]

Phases == {"idle", "cleanup", "stuck", "alone", "alive", "pending", "available",
           "results", "deps"}

ASSUME IdleAssumption == Idle \notin FrameType

VARIABLES
  row,      \* shared_delegations
  setup,    \* where the call that inserts t stands
  phase,    \* where each node's _poll_loop stands
  rows,     \* what the loop's last SELECT returned and it has not handled yet,
            \* each row with the retry_count it had then
  hand,     \* the row it has read a second time and is about to write
  exec,     \* the coroutines of _execute_task
  active,   \* _active_tasks
  claimed,  \* _claimed_subjects
  seen,     \* _results_seen
  review,   \* completed rows whose review, or whose verdict if they are one, is
            \* being dealt with by a coroutine of the delegator
  failures, \* _task_failures, counted up to MaxAttempts
  up, crashes, faults,
  holder,   \* history: the nodes that obtained t since it was last put on the board
  ended     \* history: the tasks that have been in a terminal status

table  == <<row, holder, ended>>
loop   == <<phase, rows, hand>>
memory == <<active, claimed, seen>>
life   == <<up, crashes, failures, faults>>
vars == <<row, setup, phase, rows, hand, exec, active, claimed, seen, review,
          up, crashes, failures, faults, holder, ended>>

-----------------------------------------------------------------------------
(***************************************************************************)
(* Statements.                                                             *)
(***************************************************************************)

\* One row becomes r; who \subseteq Nodes obtain the task by this write.
Write(t, r, who) ==
  /\ row' = [row EXCEPT ![t] = r]
  /\ holder' = [holder EXCEPT ![t] = IF r.status = "available"
                                     THEN {} ELSE @ \cup who]
  /\ ended' = IF r.status \in Terminal THEN ended \cup {t} ELSE ended

\* The rows of S end in status s; stamp says whether completed_at is set.
EndAll(S, s, stamp) ==
  /\ row' = [t \in Tasks |->
               IF t \in S
               THEN [row[t] EXCEPT !.status = s, !.completed = @ \/ stamp]
               ELSE row[t]]
  /\ ended' = ended \cup S
  /\ UNCHANGED holder

\* asyncio.create_task(_execute_task(task_dict)), with the row as selected.
Spawn(n, t, retry) ==
  \E s \in Slots :
    /\ exec[s] = Idle
    /\ exec' = [exec EXCEPT ![s] =
                  [node |-> n, task |-> t, pc |-> "queued", retry |-> retry,
                   attempt |-> 1]]

\* The coroutine s is one of node n and stands at pc.
At(n, s, pc) == exec[s] # Idle /\ exec[s].node = n /\ exec[s].pc = pc

\* ... and is past the semaphore.
Busy(n, s) == exec[s] # Idle /\ exec[s].node = n /\ exec[s].pc # "queued"

\* ... and is at work on t.
Working(n, s, t) == Busy(n, s) /\ exec[s].pc \in AtWork /\ exec[s].task = t

Move(s, pc) == exec' = [exec EXCEPT ![s].pc = pc]

\* What a SELECT of the poll loop returns: the rows with their retry_count.
Fetched(S) == {<<t, row[t].retry>> : t \in S}

\* ... and when nobody looks at the retry_count.
Named(S) == {<<t, 0>> : t \in S}

\* The loop has dealt with the row x and turns to the next one.
Handled(n, x) ==
  /\ rows' = [rows EXCEPT ![n] = @ \ {x}]
  /\ phase' = [phase EXCEPT ![n] = IF rows[n] = {x} THEN "idle" ELSE @]

Select(n, ph, found) ==
  /\ up[n]
  /\ phase[n] = "idle"
  /\ found # {}
  /\ phase' = [phase EXCEPT ![n] = ph]
  /\ rows' = [rows EXCEPT ![n] = found]
  /\ UNCHANGED <<row, setup, hand, exec, active, claimed, seen, review, life,
                 holder, ended>>

-----------------------------------------------------------------------------
(***************************************************************************)
(* delegate_task.  The calls of one fan_out are Delegate steps of rows     *)
(* with one subject; a crash between them leaves a partial fan-out.        *)
(***************************************************************************)

\* Mutant: accepted_by is inserted as the addressee.
FreshAddressed(t) ==
  [status |-> IF offered[t] THEN "available" ELSE "pending",
   to |-> target[t], by |-> target[t], retry |-> 0, accepted |-> FALSE,
   completed |-> FALSE, noted |-> FALSE]

Fresh(t) == [status |-> IF offered[t] THEN "available" ELSE "pending",
             to |-> target[t], by |-> None, retry |-> 0, accepted |-> FALSE,
             completed |-> FALSE, noted |-> FALSE]

Delegate(t) ==
  /\ up[from[t]]
  /\ setup[t] = "none"
  /\ reviews[t] = None
  /\ parent[t] # None => row[parent[t]].status # "absent"
  /\ Write(t, Fresh(t), {})
  /\ setup' = [setup EXCEPT ![t] = IF parent[t] = None THEN "done" ELSE "check"]
  /\ UNCHANGED <<loop, exec, memory, review, life>>

\* The row is already in the table when the parent's status is read ...
CheckParent(t) ==
  /\ setup[t] = "check"
  /\ setup' = [setup EXCEPT ![t] = IF row[parent[t]].status = "completed"
                                   THEN "activate" ELSE "hold"]
  /\ UNCHANGED <<table, loop, exec, memory, review, life>>

\* ... and its status is then set whatever it has become.
SetDependent(t) ==
  /\ setup[t] \in {"activate", "hold"}
  /\ Write(t, [row[t] EXCEPT !.status = IF setup[t] = "activate"
                                        THEN "available" ELSE "pending"], {})
  /\ setup' = [setup EXCEPT ![t] = IF @ = "hold" THEN "note" ELSE "done"]
  /\ UNCHANGED <<loop, exec, memory, review, life>>

\* add_note: "[DEPENDS_ON] parent", or "[REVIEW_OF] task" on a review row.
AddNote(t) ==
  /\ setup[t] = "note"
  /\ row' = [row EXCEPT ![t].noted = TRUE]
  /\ setup' = [setup EXCEPT ![t] = "done"]
  /\ UNCHANGED <<loop, exec, memory, review, life, holder, ended>>

-----------------------------------------------------------------------------
(***************************************************************************)
(* The dashboard's commands, each one guarded statement.                   *)
(***************************************************************************)

\* Mutant: an accepted row can be claimed again.
ClaimableAgain(t) == row[t].status \in {"available", "accepted"}

\* claim_task and the claim command: WHERE ... AND status = 'available'
Claimable(t) == row[t].status = "available"

\* The API claims for its node, and starts no executor.
ClaimByHand(n, t) ==
  /\ "claim" \in Commands
  /\ up[n]
  /\ Claimable(t)
  /\ n \in eligible[t]
  /\ Write(t, [row[t] EXCEPT !.status = "accepted", !.by = n,
                             !.accepted = TRUE], {n})
  /\ UNCHANGED <<setup, loop, exec, memory, review, life>>

\* Mutant: whatever is not cancelled yet can be.
CancellableAlways == Statuses \ {"absent", "cancelled"}

Cancellable == {"pending", "available", "accepted"}

CancelTask(t) ==
  /\ "cancel" \in Commands
  /\ row[t].status \in Cancellable
  /\ Write(t, [row[t] EXCEPT !.status = "cancelled"], {})
  /\ UNCHANGED <<setup, loop, exec, memory, review, life>>

ReassignTask(t, n) ==
  /\ "reassign" \in Commands
  /\ row[t].status \in {"accepted", "pending"}
  /\ Write(t, [row[t] EXCEPT !.to = n, !.by = n], {})
  /\ UNCHANGED <<setup, loop, exec, memory, review, life>>

-----------------------------------------------------------------------------
(***************************************************************************)
(* _check_expired: rows accepted ten minutes ago go back on the board.     *)
(***************************************************************************)

\* Mutant: only accepted rows are looked for.
StuckAccepted == {t \in Tasks : row[t].status = "accepted" /\ row[t].accepted}

Stuck == {t \in Tasks : row[t].status \in {"accepted", "running"} /\ row[t].accepted}

SelectStuck(n, S) == S \subseteq Stuck /\ Select(n, "stuck", Named(S))

\* fetchval("SELECT retry_count ...")
ReadRetry(n) ==
  /\ up[n] /\ phase[n] = "stuck" /\ hand[n] = None
  /\ \E x \in rows[n] : hand' = [hand EXCEPT ![n] = <<x[1], row[x[1]].retry>>]
  /\ UNCHANGED <<table, setup, phase, rows, exec, memory, review, life>>

\* Back on the board, whatever has become of the row since the SELECT.
\* Once retry_count has reached the budget it is left as it is (and the
\* priority raised, which orders nothing here).
ResetStuck(n) ==
  LET t == hand[n][1]
      r == hand[n][2] IN
  /\ up[n] /\ phase[n] = "stuck" /\ hand[n] # None
  /\ Write(t, [row[t] EXCEPT !.status = "available", !.by = None,
                             !.accepted = FALSE,
                             !.retry = IF r < Budget(t) THEN r + 1 ELSE @], {})
  /\ hand' = [hand EXCEPT ![n] = None]
  /\ \E x \in rows[n] : x[1] = t /\ Handled(n, x)
  /\ UNCHANGED <<setup, exec, memory, review, life>>

(***************************************************************************)
(* _check_expired, second half: are peers alive, then expire.              *)
(***************************************************************************)

\* A peer completed a row within 30 minutes (any row it completed may be that
\* recent, or not), or has one running.
ProbePeers(n) ==
  LET ofPeer == {t \in Tasks : row[t].by \notin {n, None}} IN
  /\ up[n] /\ phase[n] = "idle"
  /\ \/ /\ \E t \in ofPeer : row[t].status = "running" \/ row[t].completed
        /\ phase' = [phase EXCEPT ![n] = "alive"]
     \/ /\ \A t \in ofPeer : row[t].status # "running"
        /\ phase' = [phase EXCEPT ![n] = "alone"]
  /\ UNCHANGED <<table, setup, rows, hand, exec, memory, review, life>>

\* Mutant: a failed row expires too.
ExpirableFailed(n) ==
  {"pending", "accepted", "running", "failed"}
    \cup (IF phase[n] = "alive" THEN {"available"} ELSE {})

\* Without live peers the board's rows are renewed instead.
Expirable(n) ==
  {"pending", "accepted", "running"}
    \cup (IF phase[n] = "alive" THEN {"available"} ELSE {})

\* The rows past expires_at.
Sweep(n) ==
  /\ up[n] /\ phase[n] \in {"alive", "alone"}
  /\ \E due \in SUBSET {t \in Tasks : row[t].status \in Expirable(n)} :
       EndAll(due, "expired", FALSE)
  /\ phase' = [phase EXCEPT ![n] = "idle"]
  /\ UNCHANGED <<setup, rows, hand, exec, memory, review, life>>

-----------------------------------------------------------------------------
(***************************************************************************)
(* _poll_loop's hourly forgetting and _cleanup_stale_active_tasks.         *)
(***************************************************************************)

ForgetClaim(n, k) ==
  /\ up[n] /\ phase[n] = "idle"
  /\ k \in claimed[n]
  /\ claimed' = [claimed EXCEPT ![n] = @ \ {k}]
  /\ UNCHANGED <<table, setup, loop, exec, active, seen, review, life>>

\* The rows of _active_tasks are read one by one ...
ReadActive(n) ==
  /\ up[n] /\ phase[n] \in {"idle", "cleanup"}
  /\ \E t \in {u \in active[n] : row[u].status # "running"} :
       rows' = [rows EXCEPT ![n] = @ \cup Named({t})]
  /\ phase' = [phase EXCEPT ![n] = "cleanup"]
  /\ UNCHANGED <<table, setup, hand, exec, memory, review, life>>

\* ... and those that were not running are dropped in the end.
DropStale(n) ==
  /\ up[n] /\ phase[n] = "cleanup"
  /\ active' = [active EXCEPT ![n] = {t \in @ : \A x \in rows[n] : x[1] # t}]
  /\ rows' = [rows EXCEPT ![n] = {}]
  /\ phase' = [phase EXCEPT ![n] = "idle"]
  /\ UNCHANGED <<table, setup, hand, exec, claimed, seen, review, life>>

-----------------------------------------------------------------------------
(***************************************************************************)
(* _poll_pending: directed rows.                                           *)
(***************************************************************************)

SelectPending(n) ==
  Select(n, "pending",
         Fetched({t \in Tasks : row[t].status = "pending" /\ row[t].to = n}))

\* The UPDATE names only the task id.
AcceptPending(n) ==
  /\ up[n] /\ phase[n] = "pending"
  /\ \E x \in rows[n] :
       /\ Write(x[1], [row[x[1]] EXCEPT !.status = "accepted", !.by = n,
                                        !.accepted = TRUE], {n})
       /\ Spawn(n, x[1], x[2])
       /\ Handled(n, x)
  /\ UNCHANGED <<setup, hand, memory, review, life>>

(***************************************************************************)
(* _poll_available: the board.  The WIP limit is read once, before the     *)
(* SELECT of up to five rows.                                              *)
(***************************************************************************)

SelectAvailable(n, S) ==
  /\ Cardinality(active[n]) < MaxWip
  /\ S \subseteq {t \in Tasks : /\ row[t].status = "available"
                               /\ row[t].to \in {AnyAgent, n}}
  /\ Select(n, "available", Fetched(S))

\* The filters of the loop; that on to_agent looks at the row as selected and
\* stands in SelectAvailable.  Whether the node may take a row of its own
\* depends on peers being online, which is not modelled; a busy CPU may make
\* it skip any row (SkipAvailable).
MayClaim(n, t) == n \in eligible[t] /\ Key(t) \notin claimed[n]

ClaimAvailable(n) ==
  /\ up[n] /\ phase[n] = "available"
  /\ \E x \in rows[n] :
       /\ MayClaim(n, x[1])
       /\ Claimable(x[1])
       /\ Write(x[1], [row[x[1]] EXCEPT !.status = "accepted", !.by = n,
                                        !.accepted = TRUE], {n})
       /\ claimed' = [claimed EXCEPT ![n] = @ \cup {Key(x[1])}]
       /\ Spawn(n, x[1], x[2])
       /\ Handled(n, x)
  /\ UNCHANGED <<setup, hand, active, seen, review, life>>

\* Filtered out, CPU too busy, or the claim found the row taken.
SkipAvailable(n) ==
  /\ up[n] /\ phase[n] = "available"
  /\ \E x \in rows[n] : Handled(n, x)
  /\ UNCHANGED <<table, setup, hand, exec, memory, review, life>>

-----------------------------------------------------------------------------
(***************************************************************************)
(* _execute_task and _execute_task_inner.  The frame keeps the row as it   *)
(* was SELECTed, before the claim.  The inner coroutine registers itself   *)
(* and marks the row before its try block, whose finally clause takes the  *)
(* entry away; the outer one holds the semaphore and tries again.          *)
(***************************************************************************)

\* Past the semaphore, the coroutine registers itself ...
Enter(n, s) ==
  /\ At(n, s, "queued")
  /\ Cardinality({q \in Slots : Busy(n, q)}) < MaxConcurrent
  /\ active' = [active EXCEPT ![n] = @ \cup {exec[s].task}]
  /\ Move(s, "entered")
  /\ UNCHANGED <<table, setup, loop, claimed, seen, review, life>>

\* Mutant: the delegator is named as the executor.
MarkRunningFor(n, s) ==
  LET t == exec[s].task IN
  /\ At(n, s, "entered")
  /\ Write(t, [row[t] EXCEPT !.status = "running", !.by = from[t]], {})
  /\ Move(s, "running")
  /\ UNCHANGED <<setup, loop, memory, review, life>>

\* ... and marks the row, by its id.
MarkRunning(n, s) ==
  LET t == exec[s].task IN
  /\ At(n, s, "entered")
  /\ Write(t, [row[t] EXCEPT !.status = "running", !.by = n], {})
  /\ Move(s, "running")
  /\ UNCHANGED <<setup, loop, memory, review, life>>

\* The handler returned: the result is written, whoever holds the row now.
Complete(n, s) ==
  LET t == exec[s].task IN
  /\ At(n, s, "running")
  /\ Write(t, [row[t] EXCEPT !.status = "completed", !.completed = TRUE], {})
  /\ Move(s, "racing")
  /\ UNCHANGED <<setup, loop, memory, review, life>>

\* Fan-out RACE: siblings still on the board or pending are cancelled.
CancelSiblings(n, s) ==
  LET t == exec[s].task IN
  /\ At(n, s, "racing")
  /\ EndAll({u \in Tasks \ {t} : /\ Key(u) = Key(t)
                                 /\ row[u].status \in {"available", "pending"}},
            "cancelled", TRUE)
  /\ Move(s, "closing")
  /\ UNCHANGED <<setup, loop, memory, review, life>>

Retried(t, r) == [row[t] EXCEPT !.status = "available", !.retry = r + 1, !.by = None,
                                !.completed = FALSE, !.accepted = FALSE]

\* Mutant: one retry too many.
FailedLate(t, r) ==
  IF r <= maxRetries[t] THEN Retried(t, r)
  ELSE [row[t] EXCEPT !.status = "failed", !.completed = TRUE]

\* Mutant: completed_at is not set.
FailedUnstamped(t, r) ==
  IF r < maxRetries[t] THEN Retried(t, r) ELSE [row[t] EXCEPT !.status = "failed"]

\* By the retry_count r of the copy of the row, the task goes back on the board
\* or fails for good.
Failed(t, r) ==
  IF r < maxRetries[t] THEN Retried(t, r)
  ELSE [row[t] EXCEPT !.status = "failed", !.completed = TRUE]

Fault == faults < MaxFaults /\ faults' = faults + 1

\* The handler raised, or the UPDATE that completes the row did, or the note
\* that follows it.
Fail(n, s) ==
  /\ \/ At(n, s, "running") /\ UNCHANGED faults
     \/ At(n, s, "racing") /\ Fault
  /\ Write(exec[s].task, Failed(exec[s].task, exec[s].retry), {})
  /\ Move(s, "written")
  /\ UNCHANGED <<setup, loop, memory, review, up, crashes, failures>>

\* Mutant: the entry of _active_tasks is left behind.
CloseLeaking(n, s) ==
  /\ At(n, s, "closing") \/ At(n, s, "written")
  /\ failures' = [failures EXCEPT ![n][exec[s].task] = 0]
  /\ exec' = [exec EXCEPT ![s] = Idle]
  /\ UNCHANGED <<table, setup, loop, memory, review, up, crashes, faults>>

\* finally: _active_tasks.pop(task_id).  No exception came out of the inner
\* coroutine: _task_failures.pop(task_id), and the outer one ends.
Close(n, s) ==
  /\ At(n, s, "closing") \/ At(n, s, "written")
  /\ active' = [active EXCEPT ![n] = @ \ {exec[s].task}]
  /\ failures' = [failures EXCEPT ![n][exec[s].task] = 0]
  /\ exec' = [exec EXCEPT ![s] = Idle]
  /\ UNCHANGED <<table, setup, loop, claimed, seen, review, up, crashes, faults>>

\* A statement outside the try block raises (the UPDATE or the note with which
\* the work begins) and the entry stays; or one of the except block (the write
\* of the failure, or its note), and the finally clause takes it away.
Raise(n, s) ==
  LET t == exec[s].task
      k == failures[n][t] + 1 IN
  /\ Fault
  /\ \/ /\ \E pc \in {"entered", "running"} : At(n, s, pc)
        /\ UNCHANGED active
     \/ /\ \E pc \in {"running", "racing", "written"} : At(n, s, pc)
        /\ active' = [active EXCEPT ![n] = @ \ {t}]
  /\ failures' = [failures EXCEPT ![n][t] = IF k < MaxAttempts THEN k ELSE MaxAttempts]
  /\ Move(s, IF k < MaxAttempts THEN "backoff" ELSE "lost")
  /\ UNCHANGED <<table, setup, loop, claimed, seen, review, up, crashes>>

\* The failure is final: written by the task id, unless that fails too.
LoseTask(n, s) ==
  LET t == exec[s].task IN
  /\ At(n, s, "lost")
  /\ \/ Write(t, [row[t] EXCEPT !.status = "failed", !.completed = TRUE], {})
     \/ UNCHANGED table
  /\ Move(s, "backoff")
  /\ UNCHANGED <<setup, loop, memory, review, life>>

\* Nothing leaves the loop over the attempts then: the next one begins.
TryAgain(n, s) ==
  /\ At(n, s, "backoff") /\ exec[s].attempt < MaxAttempts
  /\ exec' = [exec EXCEPT ![s].pc = "entered", ![s].attempt = @ + 1]
  /\ active' = [active EXCEPT ![n] = @ \cup {exec[s].task}]
  /\ UNCHANGED <<table, setup, loop, claimed, seen, review, life>>

\* The attempts are used up.
GiveUp(n, s) ==
  /\ At(n, s, "backoff") /\ exec[s].attempt = MaxAttempts
  /\ exec' = [exec EXCEPT ![s] = Idle]
  /\ UNCHANGED <<table, setup, loop, memory, review, life>>

-----------------------------------------------------------------------------
(***************************************************************************)
(* _check_results, for the delegator, and the review it starts.            *)
(***************************************************************************)

\* Ended rows of the last 30 minutes, by completed_at, not yet seen; each with
\* 1 if it was completed and 0 if not.
SelectResults(n, S) ==
  /\ S \subseteq {t \in Tasks : /\ from[t] = n
                                /\ row[t].status \in {"completed", "failed", "cancelled"}
                                /\ row[t].completed} \ seen[n]
  /\ Select(n, "results",
            {<<t, IF row[t].status = "completed" THEN 1 ELSE 0>> : t \in S})

Children(n, t) == {c \in Tasks : /\ from[c] = n /\ parent[c] = t
                                 /\ row[c].status = "pending" /\ row[c].noted}

\* The row x is a completed code_review row, or has a card.
Verdict(x) == x[2] = 1 /\ reviews[x[1]] # None
Reviewable(x) == x[2] = 1 /\ x[1] \in carded

\* _process_review_result of a completed review row, as often as its result is
\* taken; _delegate_review of a completed row's result, when its card is found.
StartReview(x) ==
  \/ (Verdict(x) \/ Reviewable(x)) /\ review' = review \cup {x[1]}
  \/ ~Verdict(x) /\ UNCHANGED review

\* The callback ran (or raised, and the row is not marked seen).  A completed
\* result may be sent to review, but first a child waiting for it is read; the
\* others are left to _check_dependencies, because the log line after the
\* first child's UPDATE slices a UUID, raises and ends the pass.
TakeResult(n) ==
  /\ up[n] /\ phase[n] = "results" /\ hand[n] = None
  /\ \E x \in rows[n] :
       /\ seen' \in {seen, [seen EXCEPT ![n] = @ \cup {x[1]}]}
       /\ IF x[2] = 1 /\ Children(n, x[1]) # {}
          THEN /\ \E c \in Children(n, x[1]) : hand' = [hand EXCEPT ![n] = <<c, x[2]>>]
               /\ UNCHANGED <<phase, rows, review>>
          ELSE StartReview(x) /\ Handled(n, x) /\ UNCHANGED hand
  /\ UNCHANGED <<table, setup, exec, active, claimed, life>>

ActivateChild(n) ==
  LET c == hand[n][1] IN
  /\ up[n] /\ phase[n] = "results" /\ hand[n] # None
  /\ Write(c, [row[c] EXCEPT !.status = "available", !.completed = TRUE], {})
  /\ \E x \in rows[n] : x[1] = parent[c] /\ StartReview(x) /\ Handled(n, x)
  /\ hand' = [hand EXCEPT ![n] = None]
  /\ UNCHANGED <<setup, exec, memory, life>>

\* _results_seen_ttl
ForgetResult(n, t) ==
  /\ up[n] /\ phase[n] = "idle"
  /\ t \in seen[n]
  /\ seen' = [seen EXCEPT ![n] = @ \ {t}]
  /\ UNCHANGED <<table, setup, loop, exec, active, claimed, review, life>>

(***************************************************************************)
(* _delegate_review of the result of t, and _process_review_result of the  *)
(* review row t.  Both are coroutines of the delegator and write by id.    *)
(***************************************************************************)

Reviewed(t) == t \in review /\ up[from[t]] /\ review' = review \ {t}

\* Accepted by the delegator itself or by the verdict of a review row; or the
\* row has no [REVIEW_OF] note (yet); or a statement failed.
AcceptReview(t) ==
  /\ Reviewed(t)
  /\ UNCHANGED <<table, setup, loop, exec, memory, life>>

\* Rejected by the delegator itself: on the board again, whatever has become
\* of the row.
RejectReview(t) ==
  /\ Reviewed(t) /\ reviews[t] = None
  /\ Write(t, [row[t] EXCEPT !.status = "available"], {})
  /\ UNCHANGED <<setup, loop, exec, memory, life>>

\* Another agent is to review it: the review row r is inserted ...
SendReview(r) ==
  /\ reviews[r] # None /\ setup[r] = "none" /\ Reviewed(reviews[r])
  /\ Write(r, Fresh(r), {})
  /\ setup' = [setup EXCEPT ![r] = "note"]
  /\ UNCHANGED <<loop, exec, memory, life>>

\* ... and when it has been completed its verdict is applied to the row it
\* names, completed_at included, whatever has become of that row.
ApplyVerdict(r) ==
  LET t == reviews[r] IN
  /\ Reviewed(r) /\ t # None /\ row[r].noted
  /\ Write(t, [row[t] EXCEPT !.status = "available", !.completed = TRUE], {})
  /\ UNCHANGED <<setup, loop, exec, memory, life>>

(***************************************************************************)
(* _check_dependencies.                                                    *)
(***************************************************************************)

SelectDependents(n) ==
  Select(n, "deps",
         Named({t \in Tasks : /\ from[t] = n /\ parent[t] # None
                              /\ row[t].status = "pending" /\ row[t].noted}))

\* Mutant: a parent that is running counts as ended.
ParentEndedEarly(t) == row[parent[t]].status \in Terminal \cup {"running"}

ParentEnded(t) == row[parent[t]].status \in Terminal

ReadParent(n) ==
  /\ up[n] /\ phase[n] = "deps" /\ hand[n] = None
  /\ \E x \in rows[n] :
       IF ParentEnded(x[1])
       THEN hand' = [hand EXCEPT ![n] = x] /\ UNCHANGED <<phase, rows>>
       ELSE Handled(n, x) /\ UNCHANGED hand
  /\ UNCHANGED <<table, setup, exec, memory, review, life>>

ActivateDependent(n) ==
  LET t == hand[n][1] IN
  /\ up[n] /\ phase[n] = "deps" /\ hand[n] # None
  /\ Write(t, [row[t] EXCEPT !.status = "available", !.completed = TRUE], {})
  /\ Handled(n, hand[n])
  /\ hand' = [hand EXCEPT ![n] = None]
  /\ UNCHANGED <<setup, exec, memory, review, life>>

-----------------------------------------------------------------------------
(***************************************************************************)
(* A node's process dies and is started again; the table survives, and     *)
(* with it the completed review rows, whose verdicts are then taken again. *)
(***************************************************************************)

Crash(n) ==
  /\ up[n] /\ crashes < MaxCrashes
  /\ up' = [up EXCEPT ![n] = FALSE]
  /\ crashes' = crashes + 1
  /\ phase' = [phase EXCEPT ![n] = "idle"]
  /\ rows' = [rows EXCEPT ![n] = {}]
  /\ hand' = [hand EXCEPT ![n] = None]
  /\ exec' = [s \in Slots |-> IF exec[s] # Idle /\ exec[s].node = n THEN Idle ELSE exec[s]]
  /\ active' = [active EXCEPT ![n] = {}]
  /\ claimed' = [claimed EXCEPT ![n] = {}]
  /\ seen' = [seen EXCEPT ![n] = {}]
  /\ setup' = [t \in Tasks |-> IF from[t] = n /\ setup[t] # "none"
                               THEN "done" ELSE setup[t]]
  /\ review' = {t \in review : from[t] # n}
  /\ failures' = [failures EXCEPT ![n] = [t \in Tasks |-> 0]]
  /\ UNCHANGED <<table, faults>>

Restart(n) ==
  /\ ~up[n]
  /\ up' = [up EXCEPT ![n] = TRUE]
  /\ UNCHANGED <<table, setup, loop, exec, memory, review, crashes, failures, faults>>

-----------------------------------------------------------------------------
Init ==
  /\ row = [t \in Tasks |-> [status |-> "absent", to |-> target[t], by |-> None,
                             retry |-> 0, accepted |-> FALSE,
                             completed |-> FALSE, noted |-> FALSE]]
  /\ setup = [t \in Tasks |-> "none"]
  /\ phase = [n \in Nodes |-> "idle"]
  /\ rows = [n \in Nodes |-> {}]
  /\ hand = [n \in Nodes |-> None]
  /\ exec = [s \in Slots |-> Idle]
  /\ active = [n \in Nodes |-> {}]
  /\ claimed = [n \in Nodes |-> {}]
  /\ seen = [n \in Nodes |-> {}]
  /\ review = {}
  /\ up = [n \in Nodes |-> TRUE]
  /\ crashes = 0
  /\ failures = [n \in Nodes |-> [t \in Tasks |-> 0]]
  /\ faults = 0
  /\ holder = [t \in Tasks |-> {}]
  /\ ended = {}

Delegating == \E t \in Tasks :
  Delegate(t) \/ CheckParent(t) \/ SetDependent(t) \/ AddNote(t)

Operating == \E t \in Tasks :
  \/ CancelTask(t)
  \/ \E n \in Nodes : ClaimByHand(n, t) \/ ReassignTask(t, n)

\* What the poll loop does once it has started on something.
Polling(n) ==
  \/ ReadRetry(n) \/ ResetStuck(n) \/ Sweep(n) \/ DropStale(n) \/ AcceptPending(n)
  \/ ClaimAvailable(n) \/ SkipAvailable(n) \/ TakeResult(n)
  \/ ActivateChild(n) \/ ReadParent(n) \/ ActivateDependent(n)

\* What it may start on.
StartPolling(n) ==
  \/ ProbePeers(n) \/ ReadActive(n) \/ SelectPending(n) \/ SelectDependents(n)
  \/ \E S \in SUBSET Tasks :
       SelectStuck(n, S) \/ SelectAvailable(n, S) \/ SelectResults(n, S)
  \/ \E t \in Tasks : ForgetResult(n, t) \/ ForgetClaim(n, Key(t))

Executing(n) == \E s \in Slots :
  \/ Enter(n, s) \/ MarkRunning(n, s) \/ Complete(n, s)
  \/ CancelSiblings(n, s) \/ Fail(n, s) \/ Close(n, s)
  \/ Raise(n, s) \/ LoseTask(n, s) \/ TryAgain(n, s) \/ GiveUp(n, s)

Reviewing == \E t \in Tasks :
  AcceptReview(t) \/ RejectReview(t) \/ SendReview(t) \/ ApplyVerdict(t)

Next ==
  \/ Delegating \/ Operating \/ Reviewing
  \/ \E n \in Nodes :
       Polling(n) \/ StartPolling(n) \/ Executing(n) \/ Crash(n) \/ Restart(n)

Spec == Init /\ [][Next]_vars

-----------------------------------------------------------------------------
(***************************************************************************)
(* Properties.                                                             *)
(***************************************************************************)

\* Every variable keeps its type: the columns of shared_delegations and the
\* in-memory sets of the DelegationManagers.
TypeOK ==
  /\ row \in [Tasks -> RowType]
  /\ setup \in [Tasks -> {"none", "check", "activate", "hold", "note", "done"}]
  /\ phase \in [Nodes -> Phases]
  /\ rows \in [Nodes -> SUBSET (Tasks \X Nat)]
  /\ hand \in [Nodes -> (Tasks \X Nat) \cup {None}]
  /\ exec \in [Slots -> FrameType \cup {Idle}]
  /\ active \in [Nodes -> SUBSET Tasks]
  /\ claimed \in [Nodes -> SUBSET {Key(t) : t \in Tasks}]
  /\ seen \in [Nodes -> SUBSET Tasks]
  /\ review \in SUBSET Tasks
  /\ up \in [Nodes -> BOOLEAN]
  /\ crashes \in Nat
  /\ failures \in [Nodes -> [Tasks -> 0..MaxAttempts]]
  /\ faults \in Nat
  /\ holder \in [Tasks -> SUBSET Nodes]
  /\ ended \in SUBSET Tasks

\* retry_count never passes the budget, although the failure path computes it
\* from a copy of the row taken before the claim and the stuck path from a
\* second read, and both write it unconditionally.
RetryWithinBudget == \A t \in Tasks : row[t].retry <= Budget(t)

\* A task put on the board is obtained by at most one node until it is put
\* there again: claim_task's status guard decides between all pollers and the
\* dashboard, whatever stale writers do meanwhile.  (A reassignment names
\* another node and is not a claim.)
BoardClaimsExclusive ==
  \A t \in Board : \A m, n \in holder[t] : m = n

\* A row that says completed or failed has completed_at set, so that
\* _check_results of its delegator, which asks by completed_at, can find it.
ResultsVisible ==
  \A t \in Tasks : row[t].status \in {"completed", "failed"} => row[t].completed

\* Every entry of _active_tasks, which counts against the WIP limit, belongs to a
\* coroutine that is at work on the task, or was left by an attempt of which
\* _task_failures still knows that it failed.
NoWipLeak ==
  \A n \in Nodes : \A t \in active[n] :
    (\E s \in Slots : Working(n, s, t)) \/ failures[n][t] > 0

\* Someone decided, before the row ended, to write it without looking again.
\* The verdict of a completed review row counts as often as it is taken.
WriteOutstanding(t) ==
  \/ t \in review
  \/ \E r \in review : reviews[r] = t
  \/ setup[t] \in {"activate", "hold"}
  \/ \E n \in Nodes :
       \/ hand[n] # None /\ hand[n][1] = t
       \/ phase[n] = "pending" /\ \E x \in rows[n] : x[1] = t
  \/ \E s \in Slots : exec[s] # Idle /\ exec[s].task = t

\* A row that has ended changes its status only by a write already under way:
\* no poll, claim, command, expiry or sibling's completion reopens it.
EndedRowsReopenedOnlyByStaleWrites ==
  [][\A t \in Tasks :
       row[t].status \in Terminal /\ row'[t].status # row[t].status
         => WriteOutstanding(t)]_vars

\* What a status means to those who only look at the board.
Stage(status) ==
  CASE status = "pending" -> "waiting"
    [] status = "available" -> "open"
    [] status \in {"accepted", "running"} -> "held"
    [] status \in Terminal -> "ended"
    [] OTHER -> "absent"

\* Node n has obtained t and may still write its own name on it: its coroutine
\* may mark the row running, its poll accept the row it selected as pending.
Entitled(n, t) ==
  \/ \E s \in Slots : exec[s] # Idle /\ exec[s].node = n /\ exec[s].task = t
  \/ phase[n] = "pending" /\ \E x \in rows[n] : x[1] = t

Shared == INSTANCE TaskBoard
  WITH state <- [t \in Tasks |-> Stage(row[t].status)],
       owner <- [t \in Tasks |-> row[t].by],
       takers <- {x \in Tasks \X Nodes : Entitled(x[2], x[1])},
       decided <- {t \in Tasks : WriteOutstanding(t)}

\* The table is a TaskBoard: rows are created by delegate_task and _delegate_review
\* alone, taken from the board or by an operator, and ended; whatever else is
\* written to a row was decided by an earlier read.  assigned_agent becomes the
\* name of a node that took the task from the board, selected it as pending or was
\* named by an operator, and of no other, although MARK RUNNING asks for nothing
\* and several nodes may be at work on one task.
BoardKept == Shared!Spec

\* A dependent that is addressed to no node in particular is not put on the
\* board before its parent has ended at least once.
DependentsWait ==
  \A t \in Tasks :
    /\ parent[t] # None /\ ~offered[t] /\ row[t].to = AnyAgent
    /\ row[t].status \in {"available", "accepted", "running", "completed", "failed"}
    => parent[t] \in ended

\* No coroutine works on the accepted or running task t.
Orphan(t) ==
  /\ row[t].status \in {"accepted", "running"}
  /\ \A s \in Slots : exec[s] = Idle \/ exec[s].task # t

-----------------------------------------------------------------------------
(***************************************************************************)
(* Fairness.  A node that is up goes on with its poll loop, and a row that *)
(* stays accepted or running is sooner or later ten minutes old when one   *)
(* of the loops, which run every five seconds, asks for stuck rows.        *)
(* Nothing is assumed of handlers, operators or crashed nodes.             *)
(***************************************************************************)
Detecting(n, t) == \E S \in SUBSET Tasks : t \in S /\ SelectStuck(n, S)

Fairness == \A n \in Nodes :
  /\ WF_vars(Polling(n))
  /\ \A t \in Tasks : SF_vars(Detecting(n, t))

FairSpec == Spec /\ Fairness

\* Work is not silently lost: a task whose executor is gone, and whose row
\* still carries accepted_at, does not stay accepted or running for ever.
OrphansRecovered ==
  \A t \in Tasks : Orphan(t) /\ row[t].accepted ~> ~(Orphan(t) /\ row[t].accepted)

-----------------------------------------------------------------------------
(***************************************************************************)
(* What the code's own comments and docstrings say of it, and the code     *)
(* does not do.                                                            *)
(***************************************************************************)

\* delegate_task's docstring on fan_out: "first to complete wins, others are
\* cancelled. No duplicate work."
NoDuplicateWork ==
  \A t, u \in Tasks :
    t # u /\ Key(t) = Key(u) => ~(row[t].status = "completed" /\ row[u].status = "completed")

\* delegate_task's docstring on depends_on: "This task stays PENDING until the
\* parent completes, then auto-activates to AVAILABLE."
DependentStaysPending ==
  \A t \in Tasks :
    /\ parent[t] # None
    /\ row[t].status \in {"available", "accepted", "running", "completed"}
    => parent[t] \in ended

\* _check_expired: "A task accepted but stuck in accepted/running for >10min
\* with no progress update -> alert the leader (from_agent) so the work isn't
\* silently lost."
OrphansDetectable == \A t \in Tasks : Orphan(t) => row[t].accepted
=============================================================================
