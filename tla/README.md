# A2A Mesh: verification project

TLA+ models of the A2A mesh, the TLC runs that check them on small instances, and
TLAPS proofs of the properties that matter most for every instance. File and line
references are to the repository (`src/`).

## 1. The system

A mesh node is one asyncio process (`node.py`, 7000 lines) that wires about fifty
components together. Nodes talk over several transports (P2P TCP, PostgreSQL
LISTEN/NOTIFY, MQTT, HTTP, BLE, SSH tunnels) and share one PostgreSQL database.
Coroutines interleave only at `await`; nodes interleave freely.

| Component | State | Operations | Interacts with | Modelled in |
|---|---|---|---|---|
| Delegation board, `core/delegation.py` | table `shared_delegations`; per node `_active_tasks`, `_claimed_subjects`, `_results_seen`, a semaphore, the running coroutines | delegate (with fan-out, depends_on), claim, execute, retry, fail, cancel, reassign, stuck reset, expiry, dependency activation, result collection, review | the table only (all nodes); result callbacks; kanban file; dashboard | `Delegation`, `TaskBoard` |
| Dashboard commands, `core/dashboard_delegations.py` | none of its own | claim, cancel, reassign, notes, progress, queries | the same table | `Delegation` |
| Coordinator election, `core/election.py` with the loops of `node.py` | per node: registered coordinator, its last heartbeat, its state, `is_acting_coordinator`; table `mesh_nodes` | health check, claim, accept or reject a claim, heartbeat refresh, node (de)registration, ghost pruning | claims broadcast by the router, P2P heartbeats, `mesh_nodes` | `Election` |
| Router, `core/router.py`, `core/message.py` | transports, circuit breakers, dedup cache, idempotency store | send, broadcast, receive, re-flood, flush of the offline queue | transports, offline queue, ack manager, handlers | `MessagePath`, `Mailbox` |
| Offline queue and stores, `core/offline_queue.py`, `core/local_store.py`, `core/dedup.py` | pending rows with status; seen ids; keys on disk | enqueue, dequeue, mark delivered or failed, cleanup | router, `mesh_nodes` | `MessagePath` |
| Node process, `node.py` | incoming queues, the components | send and persist, receive loop, dispatch, monitor loops | everything | `MessagePath`, `Election` |
| Transports and framing, `transports/`, `core/framing.py`, `core/stream_mux.py` | sockets, buffers, send and retry queues | connect, accept, send, receive, reconnect, poll | router | `Link` (P2P), `MessagePath` (PG) |
| File transfer, `core/file_transfer.py` with `node.py` | per node `_outgoing` and `_incoming`; the coroutines that send chunks; the directory `incoming_files` | offer, accept or reject, send the chunks, complete, confirm | messages of the router; disk | `FileTransfer`, `Handover` |
| Workflow engine, `core/workflow.py` | DAG of steps and their results | topological layers, execute, wait for a delegation | delegation board | `Workflow`, `Schedule` |
| Acknowledgements, `core/ack.py`, `core/pending_retries.py` | tracked messages with retry counts | track, process ack, monitor | router | |
| Bounded queue, `core/bounded_queue.py` | list, event, counters | put, get, drop oldest | transports | |
| Gossip and tree routing, `core/gossipsub.py`, `core/tree_router.py`, `core/topology.py`, `core/smart_router.py` | meshes per topic, message cache, parent and child tables, scores | publish, flood, forward, graft, prune | router | |
| Registry and discovery, `core/registry.py`, `core/peer_discovery.py`, `core/federation.py` | known peers, last seen, grace timers | register, probe, prune | transports, `mesh_nodes` | |
| Authentication, `core/auth.py`, `core/message_auth.py`, `core/p2p_auth.py` | keys, tokens | sign, verify | transports | |
| Operations, `core/auto_updater.py`, `core/process_lock.py`, `core/rate_limiter.py`, ... | files, counters | update, lock, limit | node | |
| Dashboard, CLI, idea scripts, persona features | | request handlers | everything | |

What makes this hard. Nothing but single SQL statements is atomic; nearly every
decision of the board is taken on a row selected one or several `await`s before the
write, and about half of the writes name only the task id. Nodes die with coroutines
in flight. Broadcasts are sent once and may be lost. Retries race late answers.

What makes each component correct: the board never gives one task to two nodes, never
loses a task silently, never reopens an ended one on its own, bounds the retries and
lets dependents wait; the election reaches one coordinator and does not depose a live
one; the message path delivers at most once and does not lose what it accepted; queues
respect their bounds and priorities; workflow layers respect their dependencies.

## 2. Delegation: the task board

Modules: `Delegation.tla` (model and properties), `TaskBoard.tla` (what the table
promises), `MCDelegation.tla` (instances), `DelegationProofs.tla` and
`DependencyProofs.tla` (theorems).

### State and actions

| Variable | Code |
|---|---|
| `row` | the row of `shared_delegations`: status, to_agent, assigned_agent (`by`), retry_count, whether accepted_at and completed_at are set, whether the note that links the row to another (`[DEPENDS_ON]`, or `[REVIEW_OF]` on a review row) is there (`noted`) |
| `setup` | where the call that inserts the row stands: `delegate_task` between the INSERT and the last write of its depends_on block, `_delegate_review` between the INSERT and the note |
| `phase`, `rows`, `hand` | where `_poll_loop` stands; the rows its last SELECT returned, each with its retry_count then; the row it has read again and is about to write |
| `exec` | the coroutines of `_execute_task`, each with the copy of the row it was started with and the number of its attempt |
| `active`, `claimed`, `seen` | `_active_tasks`, `_claimed_subjects`, `_results_seen` |
| `failures` | `_task_failures` |
| `review` | completed rows whose review, or whose verdict if they are review rows, a coroutine of the delegator is dealing with |
| `up`, `crashes`, `faults` | processes; the bounds on crashes and on executions disturbed by a failing statement |
| `holder`, `ended` | history variables, read by properties only |

A step is one SQL statement with the assignments made before the next `await`. Hence
a claim (`UPDATE ... WHERE status = 'available'`) is one step, whereas a stuck reset is
three: the SELECT, the second read of retry_count, and an UPDATE that names only the
task id. The path of a coroutine is queued (waiting for the semaphore), entered
(registered in `_active_tasks`), running, racing (completed, siblings not cancelled
yet), written (the failure is), closing.

An execution in which statements fail (`Fail`, `Raise`, `LoseTask`, `TryAgain`, `GiveUp`).
`_execute_task_inner` registers itself and marks the row before its `try` (1476-1489): if
the UPDATE or the note raises there, the entry of `_active_tasks` stays; in the `except`
block the `finally` clause removes it. `_execute_task` counts what comes out of it
(`_task_failures`) and repeats the execution; at `_max_task_retries` it writes the row
failed, by its id, but nothing leaves the loop over the attempts then, so that an attempt
left over (the counter may stem from an earlier coroutine of the task) runs the task once
more. An entry that stayed is dropped by `_cleanup_stale_active_tasks` as soon as the row
is not running (`ReadActive`, `DropStale`), or by the next attempt; while the row is
running it counts against MAX_WIP_TASKS.

Reviews (`StartReview` to `ApplyVerdict`). A completed result whose card is found is reviewed
by the delegator itself (`AcceptReview`, `RejectReview`) or by another agent, for which
`_delegate_review` inserts a row of its own and then its `[REVIEW_OF]` note (`SendReview`,
`AddNote`). That row is claimed and executed as any other. When its result is collected,
`_process_review_result` applies the verdict (`ApplyVerdict`) to the row it names, whatever
has become of that. The result is collected as long as the row is not in `_results_seen`,
that is again after a callback that raised, after the entry is forgotten, or after a
restart, and each time the verdict is applied again.

Time is an adversary: a row may be ten minutes old or past expires_at whenever a
statement asks, an hour may have passed for `_claimed_subjects`, completions may or may
not be recent.

Abstractions. The in-memory read of the WIP limit is one step with the SELECT that
follows it without other effects. The rule that a node takes its own task only when no
peer is online, and the CPU gate, are nondeterministic (`SkipAvailable`). LIMIT and
ORDER BY become an arbitrary subset. A result callback may raise or not. Who reviews, and
what the verdict is, is left open; the filter of `_delegate_review` on results reviewed
already (2304-2313) would only remove behaviours, and is left out, as is the difference
between one and several coroutines that deal with one result at the same time. The log line
after the first activated child slices a UUID and raises, so one child per pass is
activated by `_check_results`; this is what the code does, and it is modelled.

### Runs

All bounds are in the .cfg files: `Slots` (coroutines alive at once), `MaxCrashes`, the
sets `Nodes` and `Tasks`, the commands operators use (`Commands`), `MaxAttempts`
(`_max_task_retries`, 2 instead of 3) and `MaxFaults`. retry_count is bounded by the budget
itself. The constraints of `MCDelegation` keep two things that have nothing to do with each
other out of one behaviour; they are named in the table. The two with faults also leave out
the collection of results, which changes nothing where no task waits or is reviewed.

| Run | Instance | Shows |
|---|---|---|
| DelegationBoard | 2 nodes, 1 task, 2 coroutines, 1 retry, semaphore 1, 2 faults; statements fail while one coroutine is alive (`FaultsAlone`) | exclusive claims, retry budget, visible results, and no entry of `_active_tasks` but those of work in progress and of attempts that failed (`NoWipLeak`), while stuck resets, expiry and late coroutines overwrite each other. Two coroutines are what it takes for one to be stale: claimed, reset, claimed again; with a semaphore of one a coroutine also waits behind another |
| DelegationCommands | 2 nodes, 1 task addressed to the second node, 1 coroutine, claim, cancel and reassign | an ended row is reopened only by a write decided earlier; the table implements `TaskBoard` (`BoardKept`); `_poll_pending` is exercised here |
| DelegationChain | 2 nodes, 4 tasks, 1 crash of the first node at any step; a behaviour has either a parent and its dependent, or a result and the row of its review by the other node (`ChainOrReview`) | types; the dependent waits for its parent; ended rows as above, with verdicts that are applied repeatedly |
| DelegationRecovery | 2 nodes, 1 task, claim by hand, either 1 crash without restart required or 1 fault (`OneDisturbance`) | liveness: a task whose executor is gone leaves accepted/running; and `BoardKept` with crashes, failing statements and claims that start no coroutine |

`TaskBoard` is the table without statements, coroutines and counters: a task is absent,
waiting, open, held or ended, names an owner, and has takers. It is posted, claimed, handed
over by an operator and withdrawn; a taker may take it over; any other change is an
overwrite of a task about which somebody has decided already, and names no new owner.
`BoardKept` says that `Delegation` implements it, with `state` read off `row[t].status`,
`owner` being assigned_agent, the takers the nodes that have a coroutine of the task or
selected it as pending (`Entitled`), and the overwrites being allowed for the tasks of
`WriteOutstanding` alone. Hence a row is created by `delegate_task` and `_delegate_review`
only, an open one goes to one node, and assigned_agent never becomes the name of a node
that did not take the task from the board, find it waiting for itself, or get it from an
operator. It does not say that there is one owner at a time: MARK RUNNING (1477) asks for
nothing, so that a coroutine that was overtaken while it waited takes the task over from the
node that claimed it after a stuck reset, and both then work on it.

Three wishes that the model was also asked for, each in a small instance of its own, and
that do not hold; their definitions are kept at the end of `Delegation.tla`:
`NoDuplicateWork` (delegation.py:202-203 says of a fan-out "No duplicate work"; both rows
of a race complete when they are claimed before the first ends), `DependentStaysPending`
(209-211, "stays PENDING until the parent completes"; a dependent addressed to a node is
taken by `_poll_pending`), and `OrphansDetectable` (693-694; a late MARK RUNNING leaves a
running row without accepted_at, which no stuck detection sees).

Why small is enough: every write concerns one row, and rows influence each other only
through a subject (fan-out) or a dependency, so pairs of tasks and pairs of nodes are
the interesting cases. The theorems below remove the bounds, and the constraints, for
everything but liveness.

Fairness (`FairSpec`): `_poll_loop` runs for ever every five seconds on a node that is
up, so a pass that has begun is continued (weak fairness of `Polling`); and since it asks
for stuck rows in every pass, a row that stays accepted or running is in the result of
one of the passes to come (strong fairness, because the loop is busy with other
things in between). Nothing is assumed of handlers, operators, restarts or crashed
nodes, so one of the nodes must survive: `MaxCrashes` is smaller than the number of
nodes.

### Theorems

`DelegationProofs.tla`, for any number of nodes, tasks, coroutines, crashes, attempts and
failing statements, from `TaskAssumption`, `ReviewAssumption`, `ConstantAssumption` and
`IdleAssumption`:

* `TypeCorrect`: `Spec => []TypeOK`.
* `TableSafe`: the inductive invariant `TableInv /\ LoopInv`. `BoardClaimsExclusive`
  alone is not inductive: it needs that an available row has no holder, and that no
  write which obtains a task without a guard ever reaches a row of the board, that is,
  a `_poll_pending` in progress holds no row of the board, and the depends_on block
  never runs for one. `RetryWithinBudget` needs the same bound for every copy of a
  retry_count: in coroutines, selected rows and hands. `ResultsVisible` is part of it.
* `ClaimsExclusive`, `RetriesBounded`, `ResultsFound`: its consequences.
* `WipDoesNotLeak`: `Spec => []NoWipLeak`, inductive with the types: only `Raise` leaves an
  entry behind, and it counts the failure.
* `OnlyInsertedRows`: whatever is in flight is about a row that has been inserted, so
  the INSERT of `delegate_task` overwrites nothing.
* `EndedReopenedOnlyByStaleWrites`: the action property, from the types and the previous
  theorem.
* `BoardIsKept`: `Spec => BoardKept`, the refinement. The proof has three parts. Each
  statement of each loop, command, coroutine and review makes one of the moves that
  `RowsMove` lists, in terms of the statuses of the code (`NextMoves`, a lemma per loop); a
  move is one of the abstract board or leaves it as it is (`MoveRefines`); and a node becomes
  a taker only by claiming the task or by finding it pending (`NextEntitles`). The unguarded
  statements need that what they name was inserted (`OnlyInsertedRows`, and `Posted`: no
  `delegate_task` call is at work on an absent row).

`DependencyProofs.tla`, on top of these:

* `DependentsWaitForParents`: `Spec => []DependentsWait`. By itself it is far from
  inductive: the statements that offer or run a task (the activation by
  `_check_results`, the stuck reset, MARK RUNNING, the rejection of a review) name the
  task id alone and were decided several awaits earlier. The invariant behind it
  (`NothingRunsEarly`, `WaitInv`) says that a waiting task has never got anywhere: no
  coroutine, no review, no write in a hand and no row of a SELECT that leads to such a
  write is about one, and rows selected as results are of tasks that have ended. Tasks
  stop waiting and never begin again (`Shrinks`), which is why old decisions stay harmless.

Only model-checked: the liveness property `OrphansRecovered` (temporal reasoning under
fairness is beyond the prover).

Not modelled: deletion of rows after seven days, the local maintenance filter,
priorities, choice of agent and skills, statements of the poll loop and of `delegate_task`
that fail (the pass, or the call, ends there), the per-peer circuit breaker, the kanban file, fan_out combined with depends_on (the code drops
the dependency). The WIP limit is modelled as the code applies it (read once before a
batch of claims, counting only coroutines that have registered themselves). It does not
bound the tasks a node has claimed, and no property says so; what bounds the work of a node
is the semaphore (the guard of `Enter`).

## 3. Coordinator election

Modules: `Election.tla` (model and properties), `MCElection.tla` (instances),
`ElectionProofs.tla` (theorems).

### State and actions

| Variable | Code |
|---|---|
| `coord`, `age` | `election.coordinator`: the node it names, and the class of the time since `last_heartbeat` (below `suspect_threshold`, below `down_threshold`, above) |
| `acting` | `is_acting_coordinator` |
| `loop`, `known` | where `_election_monitor_loop` stands between its awaits, and the routers its SELECT returned |
| `reg` | `mesh_nodes.status` of the node's row |
| `net` | claims that were broadcast and not handled yet, as pairs claimer and receiver |
| `up`, `stops` | processes; the bound on crashes and clean stops |

| Action | Code |
|---|---|
| `Query`, `Claim` or `Abstain`, `Broadcast` | one turn of the monitor loop: refresh of one's own registration and SELECT; health check and decision, with the self-registration of `initiate_election`; the broadcast that was awaited |
| `ReceiveClaim`, `Heartbeat` | `handle_election_claim` from the dispatch of messages; `_on_p2p_heartbeat` |
| `AgePasses` | time goes by without a heartbeat |
| `RefreshRow`, `Reregister` | the periodic UPDATEs of the node's row; the self-heal loop after PG was lost |
| `Start`, `Crash`, `Stop` | `__init__` with `_register_node`; the end of the process; `stop` with `_deregister_node` |

Abstractions. The reported `CoordinatorState` is left out: `should_initiate_election`
reads it only right after the health check has computed it. Two claims of one node to
one other are one element of `net`, because handling the second right after the first
changes nothing; the backlog of the PG transport may deliver a claim as late as one
likes, also to a node that was down when it was made.

Timing. Two assumptions relate time to steps, and both are guards of `Query` and
`AgePasses`. First, a node that is up refreshes its row in every heartbeat interval, and
the monitor turns (and the classes of ages) are at least one interval long, so a node
that is up and registered reads as active unless statements fail (`Refreshed`;
`node.py` 5125-5170 and 5233). Second, the thresholds (minutes) are longer than one turn
of the monitor loop, whose only waits are one SELECT and one broadcast with bounded
timeouts, so no age passes in the middle of a turn. With `PgFails` the first assumption
is dropped.

### Runs

| Run | Instance | Shows |
|---|---|---|
| ElectionSafe | 3 routers, reliable table, no lost claims, 1 crash or stop at any step, any number of restarts until then | `SplitBrainHeals`: two live self-declared coordinators exist only while the senior one's claim is on its way to the other; `NoSelfClaimLoop`: a coordinator never claims again (the loop v0.44.1 repaired) |
| ElectionLive | 2 routers, claims lost, statements failing, 2 crashes or stops | `SeniorFindsLeader`: the senior active router does not wait for ever for a coordinator that is not there |
| ElectionFailover (violation) | 2 routers, the senior one crashes | "excluding the down coordinator" (election.py:164) does not hold: the crashed router's row stays active, and nothing prunes it, so nobody takes over |

`OriginalReclaims` (election.py:12, "When original coordinator returns, it reclaims the
role gracefully") was asked as well and does not hold: a coordinator that comes back
tells nobody. Its definition is kept in `Election.tla`.

Why small is enough: a claim concerns a claimer and a receiver, and the decision to
claim a node and the senior row of the table, so three routers (a claimer, a senior
and a junior one) show every combination; the theorems below remove the bound for the
safety properties. `SeniorFindsLeader` is stated for the senior router only. It does not
say that juniors learn of the coordinator: a node that restarts after the claim was
delivered hears of none, and waits until the coordinator is gone.

Fairness (`FairSpec`): the monitor loop and the refresh of the row of a node that is up go
on (weak fairness: each is enabled until it happens), a claim that is on its way to a
node that stays up arrives (weak fairness; a lost one is never on its way), and while
the coordinator is down and therefore silent the age grows between the turns of the loop
(strong fairness, the loop being in a turn now and then). Nothing makes a node start.

### Theorems

`ElectionProofs.tla`, for any number of nodes and stops, from `NodeAssumption`:

* `ElectionTypes`: `Spec => []TypeOK`.
* `NoSelfClaims`: `Spec => NoSelfClaimLoop`. Not inductive by itself: it needs that while
  a node that is its own coordinator decides, its age is fresh, because `Query` has just
  refreshed it, no age passes in a turn, and everything that could make it its own
  coordinator sets the age too.
* `SplitBrainsHeal`: `Spec => []SplitBrainHeals`, assuming that neither claims are lost nor
  statements fail, and that all nodes are routers (a configured coordinator is not in the
  list, so a router claims without having heard of it). The inductive
  invariant adds that a node that is down holds nothing (`Resting`), and that a router
  that decides while a senior one coordinates is `Warned`: the senior's claim has yet to
  reach it, or the senior is in its list, or it has just heard of a coordinator, and in
  none of these cases does it claim behind the senior's back. The refreshed table enters
  there: a live coordinator is in every list read after its start.

Only model-checked: `SeniorFindsLeader` (liveness).

Not modelled: deletion of rows with a conflicting `short_addr` at registration, status
changes by the administrator and `cli.py` leave, end devices that get their address later,
`handle_coordinator_return` (called only by the self-test of `cli.py`).

## 4. The message path

Modules: `MessagePath.tla` (model and properties), `Mailbox.tla` (what it promises),
`MCMessagePath.tla` (instances), `MessagePathProofs.tla` (theorems). The model composes
`MeshNode.send`, `MeshRouter.send` and `receive`, the table `mesh_messages` with its
trigger, the PG transport, the offline queue, the receive loop of the node and the two
filters against duplicates, for messages of priority 7 or more.

### State and actions

| Variable | Code |
|---|---|
| `to`, `keep` | recipient; whether the payload makes `MeshRouter.send` keep the sender |
| `stage` | where the coroutine of `MeshNode.send` stands |
| `row`, `author` | status and sender of the row of `mesh_messages` |
| `queue`, `tries`, `flushed` | status and retry_count of the row of `mesh_offline_queue`; the entry that was sent and is not marked yet |
| `net`, `inbox` | copies on links; copies in the incoming queues of a node |
| `mark`, `arrived` | the row the backlog poller has fetched and not marked yet; those the listener of `mesh_message_arrived` has |
| `seen`, `keys` | `DedupCache`; `processed_keys` of the local store |
| `busy`, `acts` | the message whose handlers run; how often they were called |
| `fate` | history: whether the addressee was given a copy, or failed to fetch one |

Every call of the database or the network may fail. A link may lose, delay and duplicate.
NOTIFY reaches whichever nodes listen.

Two channels announce a message. `mesh_channel` hands it to the node. `mesh_message_arrived`
(`Arrivals` are the nodes that listen there) also marks the row delivered (pg_transport.py:336-343,
`MarkArrived`), and does so on whichever node, addressee or not, the sender included: where a
bystander listens, it may take the row out of the backlog before the addressee has had it, and
an addressee that missed the NOTIFY never gets it. The channel is in the default list of
`PGTransport` (53-55), which applies without a configuration; the lists of core/config.py:41
and core/bootstrap.py:330 are without it, and nothing in the repository notifies on it (a
trigger of the database is meant). `DeliveredIsTaken` and `StoredIsAccepted` therefore ask that
nobody but the addressee listens there (`NoBystander`), and in the run the addressee does.

A message accepted by a node (its key is on the
disk) and a message whose handlers have been called are two states with an `await` in
between, in which the node may stop.

### Runs

| Run | Instance | Shows |
|---|---|---|
| MessagePath | 3 nodes, 1 message to the second node or to everybody, 2 tries of the queue, 1 crash at any step with restart | `AtMostOnce`: the path implements `Mailbox` under the mapping `Seen`; `DeliveredIsTaken`: no row is marked before its addressee was given it (or failed to fetch it), whatever the order of poller, receipts and NOTIFY; `StoredIsAccepted`: a row for a node that runs is accepted in the end |

One wish does not hold, in an instance of two nodes and one message
(`QueuedIsDelivered`, kept in the module): "Automatically delivers queued messages when a
node comes online." (core/offline_queue.py:55). The recipient flushes the queue itself,
`MeshRouter.send` puts its own name on the message, the receive loop skips it as its own,
and the entry says delivered.

Messages do not influence each other but through the bounds of caches, which are
nondeterministic here (`Forget`), so one message shows every case. Three nodes give a
sender, an addressee and a bystander that forwards. Two crashes were also checked, by
hand. The theorems remove the bounds.

Fairness: the poller and the receive loop of an addressee go on while it runs, being
infinite loops with short sleeps. Nothing is assumed of links, of NOTIFY or of the
sender, so `StoredIsAccepted` rests on the backlog poller alone, and it is stated with the
exceptions the code has: a fetch that fails marks the row all the same
(pg_transport.py:186-193), and a node may stop.

### Theorems

`MessagePathProofs.tla`, for any nodes, messages, tries and crashes, from
`MessageAssumption`:

* `TypeCorrect`: `Spec => []TypeOK`.
* `TakenAtMostOnce`: `Spec => AtMostOnce`, the refinement of `Mailbox`. The invariant
  behind it says that a node that works on a message, or has called its handlers, has its
  key, under one sender only: `MeshRouter.send` overrides the sender when an entry of the
  queue is resent, so the same message may travel under two names, and a node that
  recorded a key under each would take it twice. It cannot, because the copies under the
  second name are those of the recipient itself, which it skips.
* `MarkedIsTaken`: `Spec => []DeliveredIsTaken`; the rows a listener has yet to mark are rows
  it was given.

Only model-checked: `StoredIsAccepted` (liveness).

Not modelled: messages of lower priority, which the router puts in a queue whose handlers
nobody fills; the 24 hours of rows and keys and the 7 days of queue entries; batches and
LIMIT; trust rejection; the fallback broker of the flush; the moment between the handling
of a frame and its receipt; the idempotency check that fails open when the local
store raises; directives and chat. Relaying is dead code: router.py:403 asks for `None`
where the default is the empty string. Beyond what the runs state, three things were seen:
a broadcast row is marked delivered by the first node whose poller sees it, its sender
included, so "Catch-up delivery for messages this node missed while disconnected"
(pg_transport.py:156) is not given for broadcasts; a message that woke a node by NOTIFY is
dispatched there also when it is for another node; ACK messages never reach the tracker of
`core/ack.py` (node.py:4881), so every tracked message ends as failed.

## 5. P2P links

Modules: `Link.tla` (model and properties), `MCLink.tla` (instances), `LinkProofs.tla`
(theorems): `transports/p2p_transport.py` as one node sees one of its peers.

### State and actions

| Variable | Code |
|---|---|
| `conn`, `hd`, `wgen` | the sockets; the `_handle_connection` coroutine of each; `writer._a2a_gen` |
| `peer`, `gen`, `task` | `_peers[name]`, `_peer_generation[name]`, `_connection_tasks[name]` |
| `dialing`, `sender`, `resending` | the background dialers that wait for a connection; the message whose `send()` dials (`_connecting_peers`), and whether it belongs to a pass over the retry queue |
| `at` | where each message is: send queue, in the hand of the loop, write batch, retry queue, written, lost |
| `loop`, `taken` | the send loop; the connection whose writer it holds |

`Dial`, `DialDone`, `DialFailed`, `SendDials`, `SendDone`, `SendFailed` are the dials of the
background loops and of `send()`; `Incoming`, `Start`, `Identify`, `BeginReplace`, `Replace`,
`Break`, `ReadEnd`, `Cleanup` the life of a connection, split where the coroutine awaits;
`TakeBack`, `TakeBulk`, `TakeUrgent`, `Write`, `WriteFails`, `FlushBatch` the send loop;
`RetryPass`, `Discard`, `AgeLimit`, `ProbeFails` the periodic loops. `_enqueue_for_retry` drops
heartbeats, ACKs and messages that are sent periodically (1367-1375); which messages these
are is left open at each call (`ForRetry`), which follows a failed write or dial or finds the
connection gone. `Cancelled` is what
`task.cancel()` does to a handler, depending on where it stands.

### Runs

| Run | Instance | Shows |
|---|---|---|
| Link | 2 connections, 1 background dialer, an urgent and a bulk message | `EntryWatched`: however dials and accepted connections overlap, the entry of the peer has a live handler of its generation and a queue; `LossNeedsFailure`: messages are lost only with the connection, never to the cleanup of an older one; `DeadPeerRemoved`, `RetriedWhenConnected`: dead connections go, queued messages are taken up |

One wish does not hold, in an instance of three connections (`ConnectedIsServed`, kept in
the module): "Exit send loop for this peer — _handle_connection cleanup will handle"
(p2p_transport.py:1179). After a failed write the entry is gone, so the cleanup removes
neither queue nor loop, and the next connection finds a queue and starts no loop.

Two connections are what it takes for one to replace, outlive or clean up behind the other;
three were checked by hand for the safety properties. The number of connections bounds a
behaviour, so the liveness properties are about the end of one in which no further
connection comes.

Fairness: coroutines that are ready run (`Handling`, `Looping`, `FlushBatch`), a dial ends
because it has a timeout (`Dialling`), the reconnect loop comes round (`RetryPass`). The
network, accepted connections, the age limit and the probes owe nothing.

### Theorems

`LinkProofs.tla`, for any number of connections and messages, from `LinkAssumption`:
`LinkTypes` (`TypeOK`); `EntryIsWatched` (`EntryWatched`; it needs that a registered
connection has been made and that a handler waiting to replace is not the registered
one's); `LossesNeedFailure` (the action property, from the types). Only model-checked:
`DeadPeerRemoved`, `RetriedWhenConnected`.

Not modelled: TLS, frames and their authentication, backoff and `MAX_P2P_RETRIES`, the cap
of the retry queue, alternate addresses, `stop`, receipts. `_flush_write_batch` drops frames
although its comment speaks of the retry path (1217-1218); the model has the drop.

## 6. Workflow engine

Modules: `Workflow.tla` (model and properties), `Schedule.tla` (what a workflow promises),
`MCWorkflow.tla` (instances), `WorkflowProofs.tla` and `ScheduleProofs.tla` (theorems): one
workflow of `core/workflow.py`, and the delegations it
makes, which end in any way the board of section 2 lets them, or never.

### State and actions

| Variable | Code |
|---|---|
| `deps`, `mode`, `budget` | the workflow: dependencies, consensus mode, max_cost |
| `wf`, `kept` | its status; whether the coordinator keeps it as active or in the history |
| `past`, `layer` | the layers that are over; the one in progress |
| `status` | `task.status` |
| `frame` | the coroutines of `_execute_task`, one per clone: where it stands, retry_count, whether it returned a result |
| `board` | the rows made for the workflow |

`Execute`, `OverBudget`, `StartLayer`, `FinishLayer`, `Complete`, `TimeOut` are the parts of
`execute` between its awaits, with the sort, the conditions, the fan-in and the history;
`Delegate`, `CannotDelegate`, `Collect`, `GiveUp` those of a task, with the retry; `Delete` is
`delete_workflow`; `DelegationMoves` is the board. The layers are computed by their
definition (all tasks whose dependencies are in earlier layers), which is what Kahn's
algorithm in `topological_sort` computes; conditions are nondeterministic.

### Run

`Workflow`: three tasks as a chain with a shortcut, as a fork and with a cycle; the second is
fanned out into two, the first retried once, the third conditional; modes ALL and ANY; a
budget that is exhausted or not; a timeout at any step. It shows `DependenciesFirst`
(no coroutine begins before those of its dependencies have returned), `VerdictHonest` (what a
completed workflow says of its tasks), `StopsWhenTold` (a failure in mode ALL, or the
budget, stops further layers), `OutcomeFinal` (outcomes of tasks are not overwritten, with
the exceptions the code has), `AttemptsCounted` (one delegation per attempt, none beyond
`max_retries`), `RunsAsPlanned` and `WorkflowEnds`. Three tasks allow a layer of two beside a
dependency, and a layer whose results are attributed to the wrong tasks.

`Schedule` knows neither layers nor clones, retries or delegations: a task waits, is active
or over; it begins, or is passed over, when what it depends on is over; the verdict is given
once, when nothing is active, and is completed only if all is over. `RunsAsPlanned` says that
`Workflow` implements it: a task is over when its coroutines have returned, or when its
layer has come and started none.

The engine has properties a reader may miss: a failed or expired delegation counts as a
success (`ResultsAreSuccesses` is kept in the module and does not hold), since
`_wait_for_delegation_result` returns a dict for them; a fanned-out task never leaves
pending, because its clones carry the status; and the zip at 398 attributes results to
wrong tasks when a layer has clones. The properties are stated with these exceptions.

Fairness: the event loop runs what is ready, and deadlines of tasks pass. Nothing is assumed
of the board: `WorkflowEnds` holds although delegations may be cancelled or never claimed.

### Theorems

From `WorkflowAssumption`, for every finite set of tasks, every graph and mode.
`WorkflowProofs.tla`:

* `WorkflowTypes`: `Spec => []TypeOK`.
* `DependenciesRespected`: `Spec => []DependenciesFirst`. The invariant `Layered`: the layers
  that are over are closed under dependencies, their coroutines are done, and nothing has
  begun outside of them and the layer in progress.
* `VerdictsHonest`: `Spec => []VerdictHonest`. The invariant `Judgement` relates the status
  of a task to its coroutines and its layer.
* `FailureStops`: `Spec => StopsWhenTold`. Only `StartLayer` begins coroutines, and `Judgement`
  says that a workflow that still runs in mode ALL has no failed task in the layers that
  are over; the budget is the guard of the loop.
* `OutcomesStand`: `Spec => OutcomeFinal`. The invariant `Settled` says that the coroutines of a
  task that completed or failed have returned, and that a task that was not fanned out
  completed with a result, so the fan-in finds what the coroutine left.
* `AttemptsBounded`: `Spec => []AttemptsCounted`. The invariant `Numbered` says that the rows
  made by a coroutine carry different numbers up to its retry count, and that while it
  delegates, the row for that count is still to come.

`ScheduleProofs.tla`:

* `WorkflowsRunAsPlanned`: `Spec => RunsAsPlanned`, the refinement. The invariant `Orderly`
  says that the clones of a task are started together, and that no coroutine waits for
  anything unless the workflow runs: a verdict of the engine leaves nothing active behind.

Only model-checked: `WorkflowEnds` (liveness).

Not modelled: contents of results and their injection, the history file and its limit of
50, choice of agents, the fallback that sends a message without waiting.

## 7. File transfer

Modules: `FileTransfer.tla` (model and properties), `Handover.tla` (what a transfer
promises), `MCFileTransfer.tla` (instances), `FileTransferProofs.tla` (theorems):
`core/file_transfer.py` and the part of `node.py` that answers its messages and sends the
chunks.

### State and actions

| Variable | Code |
|---|---|
| `sent`, `taken` | the messages sent; those each node has handled |
| `outgoing`, `sending` | `_outgoing`; the coroutines of `_send_file_chunks`, by file and receiver, each with its next chunk |
| `open`, `incoming` | the keys of `_incoming`; `chunks_data` of each |
| `disk` | what is stored in `incoming_files` under a name, and of which transfer |
| `report`, `edited`, `aborted`, `crashes` | history: what a node has confirmed; files changed at the sender's; transfers whose completion raised; the bound on crashes |

| Action | Code |
|---|---|
| `SendFile`, `SendChunk`, `SendComplete` | `send_file` with `create_offer_message`; one turn of the loop in `_send_file_chunks`; its end |
| `HandleOffer`, `HandleAccept`, `HandleChunk`, `HandleComplete`, `HandleAck` | the branch for `file_transfer` of `_dispatch_to_handlers`, with the handlers of `P2PFileTransfer` |
| `AbortComplete` | `_handle_complete` raises in `os.unlink` (382) or `mark_file_complete` (396): the file is written, nobody is answered, and the transfer stays open |
| `Edit`, `Crash` | somebody changes the file; a node stops and starts again, with its transfers in memory only |

A message is handled in any order or never, at most once by each node (section 4), and by
any node: what falls back on PostgreSQL wakes every node by NOTIFY, and messages of this
type are dispatched there too (node.py:4910-4915). Nothing in the handlers asks who the
message is for, so a bystander accepts an offer, is sent the file and confirms it. A chunk
is its number and whether it is as it was when the hash was computed; `packed` are the
chunks that `compress_payload` turns into something else.

### Runs

| Run | Instance | Shows |
|---|---|---|
| FileTransfer | 3 nodes, 2 transfers of one file name between the first two, 1 chunk each, a third node that overhears, 1 crash at any step; in one behaviour either the second transfer, or the third node, or a completion that raises (`OneDisturbance`) | `ReceivedIsWhole`: what is confirmed is what was offered, whatever is lost, late, cut off or edited, except after another node has confirmed it whole; `ConfirmedIsKept`: a confirmed file stays until another transfer of its name ends; `HandedOver`: the module implements `Handover`; `OfferAnswered`: an offer is answered, or its completion raised at the receiver |
| FileCompressed (violation) | 2 nodes, 1 file whose chunk is compressed | "Reassembling chunks on the receiving side" (core/file_transfer.py:73) does not hold: `MeshNode.send` compresses payloads of 4 KB or more, nothing but a self-test restores them, and the receiver does not recognise the chunk |

`Handover` has no messages, chunks or disks: a file is new, offered or over at its sender, and
each node has confirmed it whole, broken or not at all. It is offered once; a node confirms
once, and after the offer; broken only after somebody has confirmed it whole; and
the sender is done with it after a confirmation, or when it stops. `HandedOver` says that
`FileTransfer` implements it, reading the stage off `_outgoing` and the offers sent.

The exception of `ReceivedIsWhole` is what the code does: the confirmation of a
bystander deletes the transfer while the coroutine of the addressee still runs; its
remaining chunks are skipped, and its COMPLETE carries no hash (lines 207 and 216), so the
addressee confirms whatever it has. `ConfirmedIsKept` has its exception since files are
stored under their name alone (line 355).

The first run is about chunks that are not compressed: below 4 KB, or above 512 KB once
compressed. In those that are, transfers end with a rejection, so that the exceptions would
hardly occur. One chunk is enough: chunks are independent, and a chunk is missing, as
offered or altered. Two names never meet on a disk. That a transfer is overheard and
overtaken at once was left to the proofs, which need no bounds.

Fairness: the coroutines go on, and a message reaches the node it is addressed to. The
second is an assumption about the network, not about the code, and `OfferAnswered` is
about networks that lose nothing: the code repeats only COMPLETE, with the same id, which
the filters of the receiver drop.

### Theorems

`FileTransferProofs.tla`, for any nodes, files, chunks and crashes, from `FileAssumption`:

* `TypeCorrect`: `Spec => []TypeOK`.
* `NothingBrokenFirst`: `Spec => []ReceivedIsWhole`. The invariant (`EndedInv`) says that as
  long as nobody has confirmed a file whole, nobody has confirmed it at all, every coroutine
  that sends it still finds its transfer (a crash ends both), and every COMPLETE of it
  carries the hash.
* `ConfirmedStays`: `Spec => []ConfirmedIsKept`. The invariant (`KeptInv`) says that a
  transfer that was confirmed is never opened again, because there is one offer of it and
  it has been handled; a repeated COMPLETE finds nothing and leaves the disk alone.
* `TransfersHandOver`: `Spec => HandedOver`, the refinement. With the invariant
  `OutgoingInv` (what is in `_outgoing` has been offered) the stage of a file never goes back;
  `TransferInv` gives the guards of a confirmation, and says that an ACK on its way means
  that some node has confirmed the whole file.

Only model-checked: `OfferAnswered` (liveness).

Not modelled: the table `file_transfers`, which is written and never read to resume
anything; base64; sizes of chunks and statistics; the dashboard's lists and downloads. Seen
and not stated: nobody handles FILE_REJECT, so a rejected or abandoned transfer stays in
`_outgoing` or `_incoming` for ever; `get_chunk_size` tries its thresholds in ascending
order, so the sizes meant for files above 50 and 100 MB are never used.

## 8. What is left

In order of value:

1. The circuit breaker of the board, and statements of its poll loop that fail.
2. The peer-grace and self-heal loops of `node.py`, `core/auto_updater.py` with its restart
   and rollback.
3. Pure algorithms and small structures: `BoundedQueue`, `DedupCache`, rate limiter.

Not modelled for good: cryptography and credentials; request handlers of dashboard and CLI
that only read or forward; persona features; heuristics over metrics; calls to git, pip and
the operating system; transports whose protocol is in libraries (MQTT, BLE, SSH).
