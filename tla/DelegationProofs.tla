------------------------- MODULE DelegationProofs -------------------------
(***************************************************************************)
(* What holds of the task board for every number of nodes, tasks and       *)
(* coroutines, whatever the retry limits, dependencies and commands.       *)
(***************************************************************************)
EXTENDS Delegation, TLAPS

(***************************************************************************)
(* The statements keep the types of what they assign.                      *)
(***************************************************************************)

\* The row of a task is well formed.
LEMMA RowOf ==
  ASSUME TypeOK, NEW t \in Tasks
  PROVE  row[t] \in RowType
  BY DEF TypeOK

\* A write of a well-formed row keeps the table and its history well formed.
LEMMA WriteType ==
  ASSUME TypeOK, NEW t \in Tasks, NEW r \in RowType, NEW who \in SUBSET Nodes,
         Write(t, r, who)
  PROVE  /\ row' \in [Tasks -> RowType]
         /\ holder' \in [Tasks -> SUBSET Nodes]
         /\ ended' \in SUBSET Tasks
  BY DEF TypeOK, Write

\* So does the end of a set of rows.
LEMMA EndAllType ==
  ASSUME TypeOK, NEW S \in SUBSET Tasks, NEW s \in Statuses, NEW stamp \in BOOLEAN,
         EndAll(S, s, stamp)
  PROVE  /\ row' \in [Tasks -> RowType]
         /\ holder' \in [Tasks -> SUBSET Nodes]
         /\ ended' \in SUBSET Tasks
<1>1. row' \in [Tasks -> RowType]
  <2> SUFFICES ASSUME NEW t \in Tasks
               PROVE  (IF t \in S
                       THEN [row[t] EXCEPT !.status = s, !.completed = @ \/ stamp]
                       ELSE row[t]) \in RowType
    BY DEF EndAll
  <2>1. row[t] \in RowType
    BY RowOf
  <2>2. (row[t].completed \/ stamp) \in BOOLEAN
    OBVIOUS
  <2> QED BY <2>1, <2>2 DEF RowType
<1> QED BY <1>1 DEF TypeOK, EndAll

\* A coroutine is created in a free slot.
LEMMA SpawnType ==
  ASSUME TypeOK, NEW n \in Nodes, NEW t \in Tasks, NEW r \in Nat, Spawn(n, t, r)
  PROVE  exec' \in [Slots -> FrameType \cup {Idle}]
<1>1. PICK s \in Slots : exec' = [exec EXCEPT ![s] =
                            [node |-> n, task |-> t, pc |-> "queued", retry |-> r,
                             attempt |-> 1]]
  BY DEF Spawn
<1>2. [node |-> n, task |-> t, pc |-> "queued", retry |-> r, attempt |-> 1] \in FrameType
  BY ConstantAssumption DEF FrameType, Pcs
<1> QED BY <1>1, <1>2 DEF TypeOK

\* A coroutine goes on.
LEMMA MoveType ==
  ASSUME TypeOK, NEW s \in Slots, NEW pc \in Pcs, exec[s] # Idle, Move(s, pc)
  PROVE  exec' \in [Slots -> FrameType \cup {Idle}]
<1>1. exec[s] \in FrameType /\ exec \in [Slots -> FrameType \cup {Idle}]
  BY DEF TypeOK
<1>2. [exec[s] EXCEPT !.pc = pc] \in FrameType
  BY <1>1 DEF FrameType
<1> QED BY <1>1, <1>2 DEF Move

\* The loop drops a row it has dealt with.
LEMMA HandledType ==
  ASSUME TypeOK, NEW n \in Nodes, NEW x, Handled(n, x)
  PROVE  /\ rows' \in [Nodes -> SUBSET (Tasks \X Nat)]
         /\ phase' \in [Nodes -> Phases]
  BY DEF TypeOK, Handled, Phases

\* What a SELECT returns are rows with a number each.
LEMMA FetchedType ==
  ASSUME TypeOK, NEW S \in SUBSET Tasks
  PROVE  Fetched(S) \subseteq Tasks \X Nat /\ Named(S) \subseteq Tasks \X Nat
  BY DEF TypeOK, Fetched, Named, RowType

\* The loop starts on what a SELECT returned.
LEMMA SelectType ==
  ASSUME TypeOK, NEW n \in Nodes, NEW ph \in Phases,
         NEW found \in SUBSET (Tasks \X Nat), Select(n, ph, found)
  PROVE  TypeOK'
  BY DEF TypeOK, Select, life

-----------------------------------------------------------------------------
(***************************************************************************)
(* Type correctness, action by action.                                     *)
(***************************************************************************)

LEMMA InitType == Init => TypeOK
<1> SUFFICES ASSUME Init PROVE TypeOK
  OBVIOUS
<1>1. row \in [Tasks -> RowType]
  BY TaskAssumption DEF Init, RowType, Statuses
<1>2. hand \in [Nodes -> (Tasks \X Nat) \cup {None}]
  BY DEF Init
<1>3. failures \in [Nodes -> [Tasks -> 0..MaxAttempts]]
  BY ConstantAssumption DEF Init
<1> QED BY <1>1, <1>2, <1>3 DEF Init, TypeOK, Phases

LEMMA DelegatingType == TypeOK /\ Delegating => TypeOK'
<1> SUFFICES ASSUME TypeOK, NEW t \in Tasks,
                    Delegate(t) \/ CheckParent(t) \/ SetDependent(t) \/ AddNote(t)
             PROVE  TypeOK'
  BY DEF Delegating
<1>1. CASE Delegate(t)
  <2>1. Fresh(t) \in RowType
    BY TaskAssumption DEF Fresh, RowType, Statuses
  <2>2. Write(t, Fresh(t), {})
    BY <1>1 DEF Delegate
  <2> QED BY <1>1, <2>1, <2>2, WriteType DEF Delegate, TypeOK, loop, memory, life
<1>2. CASE CheckParent(t)
  BY <1>2 DEF CheckParent, TypeOK, table, loop, memory, life
<1>3. CASE SetDependent(t)
  <2> DEFINE s == IF setup[t] = "activate" THEN "available" ELSE "pending"
  <2>1. [row[t] EXCEPT !.status = s] \in RowType
    BY RowOf DEF RowType, Statuses
  <2>2. Write(t, [row[t] EXCEPT !.status = s], {})
    BY <1>3 DEF SetDependent
  <2> QED BY <1>3, <2>1, <2>2, WriteType DEF SetDependent, TypeOK, loop, memory, life
<1>4. CASE AddNote(t)
  <2>1. [row[t] EXCEPT !.noted = TRUE] \in RowType
    BY RowOf DEF RowType
  <2>2. row' = [row EXCEPT ![t] = [row[t] EXCEPT !.noted = TRUE]]
    BY <1>4 DEF AddNote
  <2> QED BY <1>4, <2>1, <2>2 DEF AddNote, TypeOK, loop, memory, life
<1> QED BY <1>1, <1>2, <1>3, <1>4

LEMMA OperatingType == TypeOK /\ Operating => TypeOK'
<1> SUFFICES ASSUME TypeOK, NEW t \in Tasks,
                    \/ CancelTask(t)
                    \/ \E n \in Nodes : ClaimByHand(n, t) \/ ReassignTask(t, n)
             PROVE  TypeOK'
  BY DEF Operating
<1>0. row[t] \in RowType
  BY RowOf
<1>1. CASE CancelTask(t)
  <2>1. [row[t] EXCEPT !.status = "cancelled"] \in RowType
    BY <1>0 DEF RowType, Statuses
  <2>2. Write(t, [row[t] EXCEPT !.status = "cancelled"], {})
    BY <1>1 DEF CancelTask
  <2> QED BY <1>1, <2>1, <2>2, WriteType DEF CancelTask, TypeOK, loop, memory, life
<1>2. ASSUME NEW n \in Nodes, ClaimByHand(n, t) PROVE TypeOK'
  <2> DEFINE r == [row[t] EXCEPT !.status = "accepted", !.by = n, !.accepted = TRUE]
  <2>1. r \in RowType
    BY <1>0 DEF RowType, Statuses
  <2>2. Write(t, r, {n})
    BY <1>2 DEF ClaimByHand
  <2>3. UNCHANGED <<setup, loop, exec, memory, review, life>>
    BY <1>2 DEF ClaimByHand
  <2> QED BY <1>0, <2>1, <2>2, <2>3, WriteType DEF TypeOK, loop, memory, life
<1>3. ASSUME NEW n \in Nodes, ReassignTask(t, n) PROVE TypeOK'
  <2>1. [row[t] EXCEPT !.to = n, !.by = n] \in RowType
    BY <1>0 DEF RowType
  <2>2. Write(t, [row[t] EXCEPT !.to = n, !.by = n], {})
    BY <1>3 DEF ReassignTask
  <2>3. UNCHANGED <<setup, loop, exec, memory, review, life>>
    BY <1>3 DEF ReassignTask
  <2> QED BY <1>0, <2>1, <2>2, <2>3, WriteType DEF TypeOK, loop, memory, life
<1> QED BY <1>1, <1>2, <1>3

\* A row is well formed when delegate_task has just inserted it.
LEMMA FreshType == ASSUME NEW t \in Tasks PROVE Fresh(t) \in RowType
  BY TaskAssumption DEF Fresh, RowType, Statuses

LEMMA ReviewingType == TypeOK /\ Reviewing => TypeOK'
<1> SUFFICES ASSUME TypeOK, NEW t \in Tasks,
                    AcceptReview(t) \/ RejectReview(t) \/ SendReview(t) \/ ApplyVerdict(t)
             PROVE  TypeOK'
  BY DEF Reviewing
<1>1. CASE AcceptReview(t)
  BY <1>1 DEF AcceptReview, Reviewed, TypeOK, table, loop, memory, life
<1>2. CASE RejectReview(t)
  <2>1. [row[t] EXCEPT !.status = "available"] \in RowType
    BY RowOf DEF RowType, Statuses
  <2>2. Write(t, [row[t] EXCEPT !.status = "available"], {})
    BY <1>2 DEF RejectReview
  <2>3. review' = review \ {t} /\ UNCHANGED <<setup, loop, exec, memory, life>>
    BY <1>2 DEF RejectReview, Reviewed
  <2> QED BY <2>1, <2>2, <2>3, WriteType DEF TypeOK, loop, memory, life
<1>3. CASE SendReview(t)
  <2>1. Write(t, Fresh(t), {})
    BY <1>3 DEF SendReview
  <2>2. review' = review \ {reviews[t]} /\ setup' = [setup EXCEPT ![t] = "note"]
        /\ UNCHANGED <<loop, exec, memory, life>>
    BY <1>3 DEF SendReview, Reviewed
  <2> QED BY <2>1, <2>2, FreshType, WriteType DEF TypeOK, loop, memory, life
<1>4. CASE ApplyVerdict(t)
  <2> DEFINE u == reviews[t]
  <2> DEFINE r == [row[u] EXCEPT !.status = "available", !.completed = TRUE]
  <2>1. u \in Tasks
    BY <1>4, ReviewAssumption DEF ApplyVerdict
  <2>2. r \in RowType
    <3>1. row[u] \in RowType
      BY <2>1, RowOf
    <3> HIDE DEF u
    <3> QED BY <3>1 DEF RowType, Statuses
  <2>3. Write(u, r, {})
    BY <1>4 DEF ApplyVerdict
  <2>4. review' = review \ {t} /\ UNCHANGED <<setup, loop, exec, memory, life>>
    BY <1>4 DEF ApplyVerdict, Reviewed
  <2> HIDE DEF u, r
  <2> QED BY <2>1, <2>2, <2>3, <2>4, WriteType DEF TypeOK, loop, memory, life
<1> QED BY <1>1, <1>2, <1>3, <1>4

LEMMA StartPollingType == ASSUME NEW n \in Nodes PROVE TypeOK /\ StartPolling(n) => TypeOK'
<1> SUFFICES ASSUME TypeOK, StartPolling(n) PROVE TypeOK'
  OBVIOUS
<1>1. CASE ProbePeers(n)
  <2>1. phase' \in [Nodes -> Phases]
    BY <1>1 DEF ProbePeers, TypeOK, Phases
  <2> QED BY <1>1, <2>1 DEF ProbePeers, TypeOK, table, memory, life
<1>2. CASE ReadActive(n)
  <2>1. phase' \in [Nodes -> Phases]
    BY <1>2 DEF ReadActive, TypeOK, Phases
  <2>2. PICK t \in Tasks : rows' = [rows EXCEPT ![n] = @ \cup Named({t})]
    BY <1>2 DEF ReadActive, TypeOK
  <2>3. Named({t}) \subseteq Tasks \X Nat
    BY FetchedType
  <2>4. rows' \in [Nodes -> SUBSET (Tasks \X Nat)]
    BY <2>2, <2>3 DEF TypeOK
  <2>5. UNCHANGED <<table, setup, hand, exec, memory, review, life>>
    BY <1>2 DEF ReadActive
  <2> QED BY <2>1, <2>4, <2>5 DEF TypeOK, table, memory, life
<1>3. CASE SelectPending(n)
  BY <1>3, SelectType, FetchedType DEF SelectPending, Phases
<1>4. CASE SelectDependents(n)
  BY <1>4, SelectType, FetchedType DEF SelectDependents, Phases
<1>5. ASSUME NEW S \in SUBSET Tasks, SelectStuck(n, S) PROVE TypeOK'
  BY <1>5, SelectType, FetchedType DEF SelectStuck, Phases
<1>6. ASSUME NEW S \in SUBSET Tasks, SelectAvailable(n, S) PROVE TypeOK'
  BY <1>6, SelectType, FetchedType DEF SelectAvailable, Phases
<1>7. ASSUME NEW S \in SUBSET Tasks, SelectResults(n, S) PROVE TypeOK'
  <2> DEFINE found == {<<t, IF row[t].status = "completed" THEN 1 ELSE 0>> : t \in S}
  <2>1. found \subseteq Tasks \X Nat
    OBVIOUS
  <2>2. Select(n, "results", found)
    BY <1>7 DEF SelectResults
  <2> QED BY <2>1, <2>2, SelectType DEF Phases
<1>8. ASSUME NEW t \in Tasks, ForgetResult(n, t) PROVE TypeOK'
  BY <1>8 DEF ForgetResult, TypeOK, table, loop, life
<1>9. ASSUME NEW k, ForgetClaim(n, k) PROVE TypeOK'
  BY <1>9 DEF ForgetClaim, TypeOK, table, loop, life
<1> QED BY <1>1, <1>2, <1>3, <1>4, <1>5, <1>6, <1>7, <1>8, <1>9 DEF StartPolling

LEMMA ExecutingType == ASSUME NEW n \in Nodes PROVE TypeOK /\ Executing(n) => TypeOK'
<1> SUFFICES ASSUME TypeOK, NEW s \in Slots,
                    \/ Enter(n, s) \/ MarkRunning(n, s) \/ Complete(n, s)
                    \/ CancelSiblings(n, s) \/ Fail(n, s) \/ Close(n, s)
                    \/ Raise(n, s) \/ LoseTask(n, s) \/ TryAgain(n, s) \/ GiveUp(n, s)
             PROVE  TypeOK'
  BY DEF Executing
<1>0. exec[s] # Idle => exec[s].task \in Tasks /\ exec[s].node \in Nodes /\ exec[s].retry \in Nat
  BY DEF TypeOK, FrameType
<1>1. CASE Enter(n, s)
  <2>1. exec' \in [Slots -> FrameType \cup {Idle}]
    BY <1>1, MoveType DEF Enter, At, Pcs, AtWork
  <2>2. active' \in [Nodes -> SUBSET Tasks]
    BY <1>0, <1>1 DEF Enter, At, TypeOK
  <2>3. UNCHANGED <<table, setup, loop, claimed, seen, review, life>>
    BY <1>1 DEF Enter
  <2> QED BY <2>1, <2>2, <2>3 DEF TypeOK, table, loop, life
<1>2. CASE MarkRunning(n, s)
  <2> DEFINE t == exec[s].task
  <2> DEFINE r == [row[t] EXCEPT !.status = "running", !.by = n]
  <2>1. exec' \in [Slots -> FrameType \cup {Idle}]
    BY <1>2, MoveType DEF MarkRunning, At, Pcs, AtWork
  <2>2. t \in Tasks
    BY <1>0, <1>2 DEF MarkRunning, At
  <2>3. r \in RowType
    BY <2>2, RowOf DEF RowType, Statuses
  <2>4. Write(t, r, {})
    BY <1>2 DEF MarkRunning
  <2>5. UNCHANGED <<setup, loop, memory, review, life>>
    BY <1>2 DEF MarkRunning
  <2> HIDE DEF t, r
  <2> QED BY <2>1, <2>2, <2>3, <2>4, <2>5, WriteType DEF TypeOK, loop, memory, life
<1>3. CASE Complete(n, s)
  <2> DEFINE t == exec[s].task
  <2> DEFINE r == [row[t] EXCEPT !.status = "completed", !.completed = TRUE]
  <2>1. exec' \in [Slots -> FrameType \cup {Idle}]
    BY <1>3, MoveType DEF Complete, At, Pcs, AtWork
  <2>2. t \in Tasks
    BY <1>0, <1>3 DEF Complete, At
  <2>3. r \in RowType
    BY <2>2, RowOf DEF RowType, Statuses
  <2>4. Write(t, r, {})
    BY <1>3 DEF Complete
  <2>5. UNCHANGED <<setup, loop, memory, review, life>>
    BY <1>3 DEF Complete
  <2> HIDE DEF t, r
  <2> QED BY <2>1, <2>2, <2>3, <2>4, <2>5, WriteType DEF TypeOK, loop, memory, life
<1>4. CASE CancelSiblings(n, s)
  <2>1. exec' \in [Slots -> FrameType \cup {Idle}]
    BY <1>4, MoveType DEF CancelSiblings, At, Pcs, AtWork
  <2>2. PICK S \in SUBSET Tasks : EndAll(S, "cancelled", TRUE)
    BY <1>4 DEF CancelSiblings
  <2>3. UNCHANGED <<setup, loop, memory, review, life>>
    BY <1>4 DEF CancelSiblings
  <2>4. "cancelled" \in Statuses
    BY DEF Statuses
  <2> QED BY <2>1, <2>2, <2>3, <2>4, EndAllType DEF TypeOK, loop, memory, life
<1>5. CASE Fail(n, s)
  <2> DEFINE t == exec[s].task
  <2> DEFINE r == Failed(t, exec[s].retry)
  <2>1. exec' \in [Slots -> FrameType \cup {Idle}]
    BY <1>5, MoveType DEF Fail, At, Pcs, AtWork
  <2>2. t \in Tasks /\ exec[s].retry \in Nat
    BY <1>0, <1>5 DEF Fail, At
  <2>3. r \in RowType
    <3>0. row[t] \in RowType /\ exec[s].retry + 1 \in Nat
      BY <2>2, RowOf
    <3>1. Retried(t, exec[s].retry) \in RowType
      BY <3>0 DEF Retried, RowType, Statuses
    <3>2. [row[t] EXCEPT !.status = "failed", !.completed = TRUE] \in RowType
      BY <2>2, RowOf DEF RowType, Statuses
    <3> QED BY <3>1, <3>2 DEF Failed
  <2>4. Write(t, r, {})
    BY <1>5 DEF Fail
  <2>5. UNCHANGED <<setup, loop, memory, review, up, crashes, failures>> /\ faults' \in Nat
    BY <1>5 DEF Fail, Fault, TypeOK
  <2> HIDE DEF t, r
  <2> QED BY <2>1, <2>2, <2>3, <2>4, <2>5, WriteType DEF TypeOK, loop, memory
<1>6. CASE Close(n, s)
  <2>1. failures' \in [Nodes -> [Tasks -> 0..MaxAttempts]]
    <3>1. failures \in [Nodes -> [Tasks -> 0..MaxAttempts]] /\ 0 \in 0..MaxAttempts
      BY ConstantAssumption DEF TypeOK
    <3>2. failures' = [failures EXCEPT ![n][exec[s].task] = 0]
      BY <1>6 DEF Close
    <3> QED BY <3>1, <3>2
  <2>2. active' \in [Nodes -> SUBSET Tasks] /\ exec' \in [Slots -> FrameType \cup {Idle}]
    BY <1>6 DEF Close, TypeOK
  <2> QED BY <1>6, <2>1, <2>2 DEF Close, TypeOK, table, loop
<1>7. CASE Raise(n, s)
  <2> DEFINE t == exec[s].task
  <2> DEFINE k == failures[n][t] + 1
  <2> DEFINE q == IF k < MaxAttempts THEN k ELSE MaxAttempts
  <2> DEFINE pc == IF k < MaxAttempts THEN "backoff" ELSE "lost"
  <2>1. exec[s] # Idle /\ t \in Tasks
    BY <1>0, <1>7 DEF Raise, At
  <2>2. q \in 0..MaxAttempts
    BY <2>1, ConstantAssumption DEF TypeOK
  <2>3. failures' = [failures EXCEPT ![n][t] = q] /\ Move(s, pc) /\ faults' \in Nat
        /\ active' \in {active, [active EXCEPT ![n] = @ \ {t}]}
        /\ UNCHANGED <<table, setup, loop, claimed, seen, review, up, crashes>>
    BY <1>7 DEF Raise, Fault, TypeOK
  <2> HIDE DEF q, t
  <2>4. failures' \in [Nodes -> [Tasks -> 0..MaxAttempts]]
    BY <2>1, <2>2, <2>3 DEF TypeOK
  <2>5. exec' \in [Slots -> FrameType \cup {Idle}]
    BY <2>1, <2>3, MoveType DEF Pcs
  <2>6. active' \in [Nodes -> SUBSET Tasks]
    BY <2>3 DEF TypeOK
  <2> QED BY <2>3, <2>4, <2>5, <2>6 DEF TypeOK, table, loop
<1>8. CASE LoseTask(n, s)
  <2> DEFINE t == exec[s].task
  <2> DEFINE r == [row[t] EXCEPT !.status = "failed", !.completed = TRUE]
  <2>1. exec' \in [Slots -> FrameType \cup {Idle}]
    BY <1>8, MoveType DEF LoseTask, At, Pcs, AtWork
  <2>2. t \in Tasks
    BY <1>0, <1>8 DEF LoseTask, At
  <2>3. r \in RowType
    BY <2>2, RowOf DEF RowType, Statuses
  <2>4. Write(t, r, {}) \/ UNCHANGED table
    BY <1>8 DEF LoseTask
  <2>5. UNCHANGED <<setup, loop, memory, review, life>>
    BY <1>8 DEF LoseTask
  <2> HIDE DEF t, r
  <2> QED BY <2>1, <2>2, <2>3, <2>4, <2>5, WriteType DEF TypeOK, table, loop, memory, life
<1>9. CASE TryAgain(n, s)
  <2>1. exec[s] \in FrameType /\ exec[s].attempt < MaxAttempts
    BY <1>9 DEF TryAgain, At, TypeOK
  <2>2. exec[s].attempt + 1 \in 1..MaxAttempts
    BY <2>1, ConstantAssumption DEF FrameType
  <2>3. exec' \in [Slots -> FrameType \cup {Idle}]
    BY <1>9, <2>1, <2>2 DEF TryAgain, TypeOK, FrameType, Pcs, AtWork
  <2>4. active' \in [Nodes -> SUBSET Tasks]
    BY <1>9, <2>1 DEF TryAgain, TypeOK, FrameType
  <2>5. UNCHANGED <<table, setup, loop, claimed, seen, review, life>>
    BY <1>9 DEF TryAgain
  <2> QED BY <2>3, <2>4, <2>5 DEF TypeOK, table, loop, life
<1>10. CASE GiveUp(n, s)
  BY <1>10 DEF GiveUp, TypeOK, table, loop, memory, life
<1> QED BY <1>1, <1>2, <1>3, <1>4, <1>5, <1>6, <1>7, <1>8, <1>9, <1>10

\* hand holds a row with a number while the loop is about to write.
LEMMA HandType ==
  ASSUME TypeOK, NEW n \in Nodes, hand[n] # None
  PROVE  hand[n][1] \in Tasks /\ hand[n][2] \in Nat /\ hand[n] \in Tasks \X Nat
  BY DEF TypeOK

LEMMA PollingType == ASSUME NEW n \in Nodes PROVE TypeOK /\ Polling(n) => TypeOK'
<1> SUFFICES ASSUME TypeOK, Polling(n) PROVE TypeOK'
  OBVIOUS
<1>0. \A x \in rows[n] : x[1] \in Tasks /\ x[2] \in Nat
  BY DEF TypeOK
<1>1. CASE ReadRetry(n)
  <2>1. PICK x \in rows[n] : hand' = [hand EXCEPT ![n] = <<x[1], row[x[1]].retry>>]
    BY <1>1 DEF ReadRetry
  <2>2. row[x[1]].retry \in Nat
    BY <1>0, <2>1, RowOf DEF RowType
  <2>3. UNCHANGED <<table, setup, phase, rows, exec, memory, review, life>>
    BY <1>1 DEF ReadRetry
  <2> QED BY <1>0, <2>1, <2>2, <2>3 DEF TypeOK, table, memory, life
<1>2. CASE ResetStuck(n)
  <2> DEFINE t == hand[n][1]
  <2> DEFINE k == IF hand[n][2] < Budget(t) THEN hand[n][2] + 1 ELSE row[t].retry
  <2> DEFINE r == [row[t] EXCEPT !.status = "available", !.by = None,
                                 !.accepted = FALSE, !.retry = k]
  <2>1. t \in Tasks /\ hand[n][2] \in Nat
    BY <1>2, HandType DEF ResetStuck
  <2>2. row[t] \in RowType
    BY <2>1, RowOf
  <2>3. k \in Nat
    BY <2>1, <2>2 DEF RowType
  <2>4. r \in RowType
    <3> HIDE DEF k
    <3> QED BY <2>2, <2>3 DEF RowType, Statuses
  <2>5. Write(t, r, {})
    BY <1>2 DEF ResetStuck
  <2>6. PICK x : Handled(n, x)
    BY <1>2 DEF ResetStuck
  <2>7. hand' = [hand EXCEPT ![n] = None] /\ UNCHANGED <<setup, exec, memory, review, life>>
    BY <1>2 DEF ResetStuck
  <2> HIDE DEF t, r
  <2>8. hand' \in [Nodes -> (Tasks \X Nat) \cup {None}]
    BY <2>7 DEF TypeOK
  <2> QED BY <2>1, <2>4, <2>5, <2>6, <2>7, <2>8, WriteType, HandledType DEF TypeOK, memory, life
<1>3. CASE Sweep(n)
  <2>1. PICK due \in SUBSET Tasks : EndAll(due, "expired", FALSE)
    BY <1>3 DEF Sweep
  <2>2. "expired" \in Statuses /\ "idle" \in Phases
    BY DEF Statuses, Phases
  <2>3. phase' = [phase EXCEPT ![n] = "idle"] /\ UNCHANGED <<setup, rows, hand, exec, memory, review, life>>
    BY <1>3 DEF Sweep
  <2> QED BY <2>1, <2>2, <2>3, EndAllType DEF TypeOK, memory, life
<1>4. CASE DropStale(n)
  <2>1. phase' \in [Nodes -> Phases]
    BY <1>4 DEF DropStale, TypeOK, Phases
  <2>2. rows' \in [Nodes -> SUBSET (Tasks \X Nat)]
    BY <1>4 DEF DropStale, TypeOK
  <2> QED BY <1>4, <2>1, <2>2 DEF DropStale, TypeOK, table, life
<1>5. CASE AcceptPending(n)
  <2>1. PICK x \in rows[n] :
          /\ Write(x[1], [row[x[1]] EXCEPT !.status = "accepted", !.by = n,
                                           !.accepted = TRUE], {n})
          /\ Spawn(n, x[1], x[2])
          /\ Handled(n, x)
    BY <1>5 DEF AcceptPending
  <2>2. x[1] \in Tasks /\ x[2] \in Nat
    BY <1>0, <2>1
  <2>3. [row[x[1]] EXCEPT !.status = "accepted", !.by = n, !.accepted = TRUE] \in RowType
    BY <2>2, RowOf DEF RowType, Statuses
  <2>4. UNCHANGED <<setup, hand, memory, review, life>>
    BY <1>5 DEF AcceptPending
  <2>5. /\ row' \in [Tasks -> RowType]
        /\ holder' \in [Tasks -> SUBSET Nodes]
        /\ ended' \in SUBSET Tasks
    BY <2>1, <2>2, <2>3, WriteType
  <2> QED BY <2>1, <2>2, <2>4, <2>5, SpawnType, HandledType DEF TypeOK, memory, life
<1>6. CASE ClaimAvailable(n)
  <2>1. PICK x \in rows[n] :
          /\ Write(x[1], [row[x[1]] EXCEPT !.status = "accepted", !.by = n,
                                           !.accepted = TRUE], {n})
          /\ claimed' = [claimed EXCEPT ![n] = @ \cup {Key(x[1])}]
          /\ Spawn(n, x[1], x[2])
          /\ Handled(n, x)
    BY <1>6 DEF ClaimAvailable
  <2>2. x[1] \in Tasks /\ x[2] \in Nat
    BY <1>0, <2>1
  <2>3. [row[x[1]] EXCEPT !.status = "accepted", !.by = n, !.accepted = TRUE] \in RowType
    BY <2>2, RowOf DEF RowType, Statuses
  <2>4. UNCHANGED <<setup, hand, active, seen, review, life>>
    BY <1>6 DEF ClaimAvailable
  <2>5. /\ row' \in [Tasks -> RowType]
        /\ holder' \in [Tasks -> SUBSET Nodes]
        /\ ended' \in SUBSET Tasks
    BY <2>1, <2>2, <2>3, WriteType
  <2>6. claimed' \in [Nodes -> SUBSET {Key(t) : t \in Tasks}]
    BY <2>1, <2>2 DEF TypeOK
  <2> QED BY <2>1, <2>2, <2>4, <2>5, <2>6, SpawnType, HandledType DEF TypeOK, life
<1>7. CASE SkipAvailable(n)
  <2>1. PICK x : Handled(n, x)
    BY <1>7 DEF SkipAvailable
  <2>2. UNCHANGED <<table, setup, hand, exec, memory, review, life>>
    BY <1>7 DEF SkipAvailable
  <2> QED BY <2>1, <2>2, HandledType DEF TypeOK, table, memory, life
<1>8. CASE TakeResult(n)
  <2>1. PICK x \in rows[n] :
          /\ seen' \in {seen, [seen EXCEPT ![n] = @ \cup {x[1]}]}
          /\ IF x[2] = 1 /\ Children(n, x[1]) # {}
             THEN /\ \E c \in Children(n, x[1]) : hand' = [hand EXCEPT ![n] = <<c, x[2]>>]
                  /\ UNCHANGED <<phase, rows, review>>
             ELSE StartReview(x) /\ Handled(n, x) /\ UNCHANGED hand
    BY <1>8 DEF TakeResult
  <2>2. x[1] \in Tasks /\ x[2] \in Nat
    BY <1>0, <2>1
  <2>3. seen' \in [Nodes -> SUBSET Tasks]
    <3>1. seen \in [Nodes -> SUBSET Tasks]
      BY DEF TypeOK
    <3> QED BY <2>1, <2>2, <3>1
  <2>4. UNCHANGED <<table, setup, exec, active, claimed, life>>
    BY <1>8 DEF TakeResult
  <2>5. CASE x[2] = 1 /\ Children(n, x[1]) # {}
    <3>1. hand' \in [Nodes -> (Tasks \X Nat) \cup {None}]
      BY <2>1, <2>2, <2>5 DEF TypeOK, Children
    <3> QED BY <2>1, <2>3, <2>4, <2>5, <3>1 DEF TypeOK, table, life
  <2>6. CASE ~(x[2] = 1 /\ Children(n, x[1]) # {})
    <3>1. review' \in SUBSET Tasks
      BY <2>1, <2>2, <2>6 DEF StartReview, Verdict, Reviewable, TypeOK
    <3> QED BY <2>1, <2>3, <2>4, <2>6, <3>1, HandledType DEF TypeOK, table, life
  <2> QED BY <2>5, <2>6
<1>9. CASE ActivateChild(n)
  <2> DEFINE t == hand[n][1]
  <2> DEFINE r == [row[t] EXCEPT !.status = "available", !.completed = TRUE]
  <2>1. t \in Tasks
    BY <1>9, HandType DEF ActivateChild
  <2>2. r \in RowType
    BY <2>1, RowOf DEF RowType, Statuses
  <2>3. Write(t, r, {})
    BY <1>9 DEF ActivateChild
  <2>4. PICK x \in rows[n] : StartReview(x) /\ Handled(n, x)
    BY <1>9 DEF ActivateChild
  <2>5. hand' = [hand EXCEPT ![n] = None] /\ UNCHANGED <<setup, exec, memory, life>>
    BY <1>9 DEF ActivateChild
  <2> HIDE DEF t, r
  <2>6. hand' \in [Nodes -> (Tasks \X Nat) \cup {None}]
    BY <2>5 DEF TypeOK
  <2>7. review' \in SUBSET Tasks
    BY <1>0, <2>4 DEF StartReview, Verdict, Reviewable, TypeOK
  <2> QED BY <2>1, <2>2, <2>3, <2>4, <2>5, <2>6, <2>7, WriteType, HandledType DEF TypeOK, memory, life
<1>10. CASE ReadParent(n)
  <2>1. PICK x \in rows[n] : IF ParentEnded(x[1])
                             THEN hand' = [hand EXCEPT ![n] = x] /\ UNCHANGED <<phase, rows>>
                             ELSE Handled(n, x) /\ UNCHANGED hand
    BY <1>10 DEF ReadParent
  <2>2. x \in Tasks \X Nat
    BY <2>1 DEF TypeOK
  <2>3. UNCHANGED <<table, setup, exec, memory, review, life>>
    BY <1>10 DEF ReadParent
  <2>4. CASE ParentEnded(x[1])
    BY <2>1, <2>2, <2>3, <2>4 DEF TypeOK, table, memory, life
  <2>5. CASE ~ParentEnded(x[1])
    BY <2>1, <2>3, <2>5, HandledType DEF TypeOK, table, memory, life
  <2> QED BY <2>4, <2>5
<1>11. CASE ActivateDependent(n)
  <2> DEFINE t == hand[n][1]
  <2> DEFINE r == [row[t] EXCEPT !.status = "available", !.completed = TRUE]
  <2>1. t \in Tasks
    BY <1>11, HandType DEF ActivateDependent
  <2>2. r \in RowType
    BY <2>1, RowOf DEF RowType, Statuses
  <2>3. Write(t, r, {})
    BY <1>11 DEF ActivateDependent
  <2>4. Handled(n, hand[n])
    BY <1>11 DEF ActivateDependent
  <2>5. hand' = [hand EXCEPT ![n] = None] /\ UNCHANGED <<setup, exec, memory, review, life>>
    BY <1>11 DEF ActivateDependent
  <2> HIDE DEF t, r
  <2>6. hand' \in [Nodes -> (Tasks \X Nat) \cup {None}]
    BY <2>5 DEF TypeOK
  <2> QED BY <2>1, <2>2, <2>3, <2>4, <2>5, <2>6, WriteType, HandledType DEF TypeOK, memory, life
<1> QED BY <1>1, <1>2, <1>3, <1>4, <1>5, <1>6, <1>7, <1>8, <1>9, <1>10, <1>11 DEF Polling

LEMMA LifeType ==
  ASSUME NEW n \in Nodes PROVE TypeOK /\ (Crash(n) \/ Restart(n)) => TypeOK'
<1> SUFFICES ASSUME TypeOK, Crash(n) \/ Restart(n) PROVE TypeOK'
  OBVIOUS
<1>1. CASE Crash(n)
  <2>1. /\ phase' \in [Nodes -> Phases]
        /\ rows' \in [Nodes -> SUBSET (Tasks \X Nat)]
        /\ hand' \in [Nodes -> (Tasks \X Nat) \cup {None}]
    BY <1>1 DEF Crash, TypeOK, Phases
  <2>2. /\ active' \in [Nodes -> SUBSET Tasks]
        /\ claimed' \in [Nodes -> SUBSET {Key(t) : t \in Tasks}]
        /\ seen' \in [Nodes -> SUBSET Tasks]
    BY <1>1 DEF Crash, TypeOK
  <2>3. exec' \in [Slots -> FrameType \cup {Idle}]
    BY <1>1 DEF Crash, TypeOK
  <2>4. setup' \in [Tasks -> {"none", "check", "activate", "hold", "note", "done"}]
    BY <1>1 DEF Crash, TypeOK
  <2>5. review' \in SUBSET Tasks /\ up' \in [Nodes -> BOOLEAN] /\ crashes' \in Nat
    BY <1>1 DEF Crash, TypeOK
  <2>6. UNCHANGED <<table, faults>>
    BY <1>1 DEF Crash
  <2>7. failures' \in [Nodes -> [Tasks -> 0..MaxAttempts]]
    BY <1>1, ConstantAssumption DEF Crash, TypeOK
  <2> QED BY <2>1, <2>2, <2>3, <2>4, <2>5, <2>6, <2>7 DEF TypeOK, table
<1>2. CASE Restart(n)
  BY <1>2 DEF Restart, TypeOK, table, loop, memory
<1> QED BY <1>1, <1>2

\* A step that changes nothing.
LEMMA StutterType == TypeOK /\ UNCHANGED vars => TypeOK'
  BY DEF TypeOK, vars

\* Every variable keeps its type in every behaviour, for any number of nodes,
\* tasks and coroutines.
THEOREM TypeCorrect == Spec => []TypeOK
<1>1. Init => TypeOK
  BY InitType
<1>2. TypeOK /\ [Next]_vars => TypeOK'
  BY DelegatingType, OperatingType, ReviewingType, PollingType, StartPollingType,
     ExecutingType, LifeType, StutterType DEF Next
<1> QED BY <1>1, <1>2, PTL DEF Spec

-----------------------------------------------------------------------------
(***************************************************************************)
(* The table: retry budget, visible results and exclusive claims.          *)
(*                                                                         *)
(* BoardClaimsExclusive is not inductive.  A claim is safe because an      *)
(* available row has no holder, and because the unguarded accept of        *)
(* _poll_pending never meets a row of the board: such a row is never       *)
(* pending, and delegate_task never comes back to it.                      *)
(***************************************************************************)

\* What each row satisfies by itself.
Kept(t, r) ==
  /\ r.retry <= Budget(t)
  /\ r.status \in {"completed", "failed"} => r.completed
  /\ t \in Board => r.status # "pending"

TableInv ==
  /\ \A t \in Tasks : Kept(t, row[t])
  /\ \A t \in Tasks : row[t].status = "available" => holder[t] = {}
  /\ BoardClaimsExclusive

LoopInv ==
  /\ \A t \in Board : setup[t] \in {"none", "note", "done"}
  /\ \A n \in Nodes : phase[n] = "pending" => \A x \in rows[n] : x[1] \notin Board

\* The budget is a number no smaller than max_retries, unless that is zero.
LEMMA BudgetType ==
  ASSUME NEW t \in Tasks
  PROVE  /\ maxRetries[t] \in Nat /\ Budget(t) \in Nat
         /\ maxRetries[t] # 0 => Budget(t) = maxRetries[t]
  BY TaskAssumption DEF Budget

\* A write of a row that is kept, which gives a task of the board to nobody or
\* to one node when nobody holds it.
LEMMA WriteInv ==
  ASSUME TypeOK, TableInv, NEW t \in Tasks, NEW r, NEW who, Write(t, r, who),
         Kept(t, r),
         t \in Board => who = {} \/ (holder[t] = {} /\ \E n \in Nodes : who = {n})
  PROVE  TableInv'
<1>1. \A u \in Tasks : row'[u] = IF u = t THEN r ELSE row[u]
  BY DEF Write, TypeOK
<1>2. \A u \in Tasks : holder'[u] = IF u # t THEN holder[u]
                                   ELSE IF r.status = "available" THEN {}
                                   ELSE holder[t] \cup who
  BY DEF Write, TypeOK
<1>3. \A u \in Tasks : Kept(u, row'[u])
  BY <1>1 DEF TableInv
<1>4. \A u \in Tasks : row'[u].status = "available" => holder'[u] = {}
  BY <1>1, <1>2 DEF TableInv
<1>5. \A u \in Board : \A m, n \in holder'[u] : m = n
  BY <1>2 DEF TableInv, BoardClaimsExclusive, Board
<1>6. (\A u \in Tasks : Kept(u, row[u]))'
  BY <1>3 DEF Kept
<1> QED BY <1>4, <1>5, <1>6 DEF TableInv, BoardClaimsExclusive

\* The end of a set of rows.
LEMMA EndAllInv ==
  ASSUME TypeOK, TableInv, NEW S \in SUBSET Tasks, NEW s \in {"cancelled", "expired"},
         NEW stamp \in BOOLEAN, EndAll(S, s, stamp)
  PROVE  TableInv'
<1>1. ASSUME NEW t \in Tasks
      PROVE  /\ row'[t].retry = row[t].retry
             /\ row'[t].status = IF t \in S THEN s ELSE row[t].status
             /\ t \notin S => row'[t] = row[t]
  <2>1. row[t] \in RowType
    BY RowOf
  <2>2. row'[t] = IF t \in S
                  THEN [row[t] EXCEPT !.status = s, !.completed = @ \/ stamp]
                  ELSE row[t]
    BY DEF EndAll
  <2> QED BY <2>1, <2>2 DEF RowType
<1>2. (\A t \in Tasks : Kept(t, row[t]))'
  BY <1>1 DEF TableInv, Kept
<1>3. holder' = holder
  BY DEF EndAll
<1>4. \A t \in Tasks : row'[t].status = "available" => holder'[t] = {}
  BY <1>1, <1>3 DEF TableInv
<1> QED BY <1>2, <1>3, <1>4 DEF TableInv, BoardClaimsExclusive

\* Steps that leave the table alone.
LEMMA TableKept == TableInv /\ UNCHANGED table => TableInv'
  BY DEF TableInv, BoardClaimsExclusive, Kept, table

LEMMA InitTable == Init => TableInv /\ LoopInv
<1> SUFFICES ASSUME Init PROVE TableInv /\ LoopInv
  OBVIOUS
<1>1. \A t \in Tasks : row[t].status = "absent" /\ row[t].retry = 0 /\ holder[t] = {}
  BY DEF Init
<1>2. \A t \in Tasks : Budget(t) \in Nat
  BY BudgetType
<1>3. \A t \in Tasks : Kept(t, row[t])
  BY <1>1, <1>2 DEF Kept
<1>4. LoopInv
  BY DEF Init, LoopInv, Board
<1> QED BY <1>1, <1>3, <1>4 DEF TableInv, BoardClaimsExclusive, Board

\* A row set available, accepted, cancelled or running keeps what it has.
LEMMA KeptUpdate ==
  ASSUME TypeOK, TableInv, NEW t \in Tasks, NEW r,
         r.retry = row[t].retry \/ r.retry <= Budget(t),
         r.status \in {"completed", "failed"} => r.completed,
         r.status = "pending" => t \notin Board
  PROVE  Kept(t, r)
  BY DEF Kept, TableInv

LEMMA DelegatingTable == TypeOK /\ TableInv /\ LoopInv /\ Delegating => TableInv'
<1> SUFFICES ASSUME TypeOK, TableInv, LoopInv, NEW t \in Tasks,
                    Delegate(t) \/ CheckParent(t) \/ SetDependent(t) \/ AddNote(t)
             PROVE  TableInv'
  BY DEF Delegating
<1>0. row[t] \in RowType /\ Budget(t) \in Nat
  BY RowOf, BudgetType
<1>1. CASE Delegate(t)
  <2>1. Kept(t, Fresh(t))
    BY <1>0, TaskAssumption DEF Kept, Fresh, Board
  <2> QED BY <1>1, <2>1, WriteInv DEF Delegate
<1>2. CASE CheckParent(t)
  BY <1>2, TableKept DEF CheckParent
<1>3. CASE SetDependent(t)
  <2> DEFINE r == [row[t] EXCEPT !.status = IF setup[t] = "activate"
                                            THEN "available" ELSE "pending"]
  <2>1. t \notin Board
    BY <1>3 DEF SetDependent, LoopInv
  <2>2. r.retry = row[t].retry /\ r.status \in {"available", "pending"}
    BY <1>0 DEF RowType
  <2>3. Write(t, r, {})
    BY <1>3 DEF SetDependent
  <2> HIDE DEF r
  <2>4. Kept(t, r)
    BY <2>1, <2>2, KeptUpdate
  <2> QED BY <2>1, <2>3, <2>4, WriteInv
<1>4. CASE AddNote(t)
  <2>1. \A u \in Tasks : /\ row'[u].status = row[u].status
                         /\ row'[u].retry = row[u].retry
                         /\ row'[u].completed = row[u].completed
    <3>1. row' = [row EXCEPT ![t] = [row[t] EXCEPT !.noted = TRUE]]
      BY <1>4 DEF AddNote
    <3>2. row'[t] = [row[t] EXCEPT !.noted = TRUE]
      BY <3>1 DEF TypeOK
    <3>3. \A u \in Tasks \ {t} : row'[u] = row[u]
      BY <3>1 DEF TypeOK
    <3> QED BY <1>0, <3>2, <3>3 DEF RowType
  <2>2. holder' = holder
    BY <1>4 DEF AddNote
  <2> QED BY <2>1, <2>2 DEF TableInv, Kept, BoardClaimsExclusive
<1> QED BY <1>1, <1>2, <1>3, <1>4

LEMMA OperatingTable == TypeOK /\ TableInv /\ Operating => TableInv'
<1> SUFFICES ASSUME TypeOK, TableInv, NEW t \in Tasks,
                    \/ CancelTask(t)
                    \/ \E n \in Nodes : ClaimByHand(n, t) \/ ReassignTask(t, n)
             PROVE  TableInv'
  BY DEF Operating
<1>0. row[t] \in RowType
  BY RowOf
<1>1. CASE CancelTask(t)
  <2> DEFINE r == [row[t] EXCEPT !.status = "cancelled"]
  <2>1. r.retry = row[t].retry /\ r.status = "cancelled"
    BY <1>0 DEF RowType
  <2>2. Write(t, r, {})
    BY <1>1 DEF CancelTask
  <2> HIDE DEF r
  <2> QED BY <2>1, <2>2, KeptUpdate, WriteInv
<1>2. ASSUME NEW n \in Nodes, ClaimByHand(n, t) PROVE TableInv'
  <2> DEFINE r == [row[t] EXCEPT !.status = "accepted", !.by = n, !.accepted = TRUE]
  <2>1. r.retry = row[t].retry /\ r.status = "accepted"
    BY <1>0 DEF RowType
  <2>2. Write(t, r, {n}) /\ row[t].status = "available"
    BY <1>2 DEF ClaimByHand, Claimable
  <2>3. holder[t] = {}
    BY <2>2 DEF TableInv
  <2> HIDE DEF r
  <2>4. Kept(t, r)
    BY <2>1, KeptUpdate
  <2> QED BY <2>2, <2>3, <2>4, WriteInv
<1>3. ASSUME NEW n \in Nodes, ReassignTask(t, n) PROVE TableInv'
  <2> DEFINE r == [row[t] EXCEPT !.to = n, !.by = n]
  <2>1. r.retry = row[t].retry /\ r.status = row[t].status /\ r.completed = row[t].completed
    BY <1>0 DEF RowType
  <2>2. Write(t, r, {})
    BY <1>3 DEF ReassignTask
  <2> HIDE DEF r
  <2>3. Kept(t, r)
    BY <2>1 DEF TableInv, Kept
  <2> QED BY <2>2, <2>3, WriteInv
<1> QED BY <1>1, <1>2, <1>3

LEMMA ReviewingTable == TypeOK /\ TableInv /\ Reviewing => TableInv'
<1> SUFFICES ASSUME TypeOK, TableInv, NEW t \in Tasks,
                    AcceptReview(t) \/ RejectReview(t) \/ SendReview(t) \/ ApplyVerdict(t)
             PROVE  TableInv'
  BY DEF Reviewing
<1>1. CASE AcceptReview(t)
  BY <1>1, TableKept DEF AcceptReview
<1>2. CASE RejectReview(t)
  <2> DEFINE r == [row[t] EXCEPT !.status = "available"]
  <2>1. r.retry = row[t].retry /\ r.status = "available"
    BY RowOf DEF RowType
  <2>2. Write(t, r, {})
    BY <1>2 DEF RejectReview
  <2> HIDE DEF r
  <2> QED BY <2>1, <2>2, KeptUpdate, WriteInv
<1>3. CASE SendReview(t)
  <2>1. Kept(t, Fresh(t))
    BY BudgetType, TaskAssumption DEF Kept, Fresh, Board
  <2> QED BY <1>3, <2>1, WriteInv DEF SendReview
<1>4. CASE ApplyVerdict(t)
  <2> DEFINE u == reviews[t]
  <2> DEFINE r == [row[u] EXCEPT !.status = "available", !.completed = TRUE]
  <2>1. u \in Tasks
    BY <1>4, ReviewAssumption DEF ApplyVerdict
  <2>2. r.retry = row[u].retry /\ r.status = "available"
    BY <2>1, RowOf DEF RowType
  <2>3. Write(u, r, {})
    BY <1>4 DEF ApplyVerdict
  <2> HIDE DEF u, r
  <2>4. Kept(u, r)
    BY <2>1, <2>2, KeptUpdate
  <2> QED BY <2>1, <2>3, <2>4, WriteInv
<1> QED BY <1>1, <1>2, <1>3, <1>4

LEMMA StartPollingTable ==
  ASSUME NEW n \in Nodes PROVE StartPolling(n) => UNCHANGED <<table, setup>>
  BY DEF StartPolling, ProbePeers, ReadActive, SelectPending, SelectDependents, SelectStuck,
         SelectAvailable, SelectResults, ForgetResult, ForgetClaim, Select, table

LEMMA ExecutingTable ==
  ASSUME NEW n \in Nodes PROVE TypeOK /\ TableInv /\ Executing(n) => TableInv'
<1> SUFFICES ASSUME TypeOK, TableInv, NEW s \in Slots,
                    \/ Enter(n, s) \/ MarkRunning(n, s) \/ Complete(n, s)
                    \/ CancelSiblings(n, s) \/ Fail(n, s) \/ Close(n, s)
                    \/ Raise(n, s) \/ LoseTask(n, s) \/ TryAgain(n, s) \/ GiveUp(n, s)
             PROVE  TableInv'
  BY DEF Executing
<1>0. exec[s] # Idle => exec[s].task \in Tasks /\ exec[s].retry \in Nat
  BY DEF TypeOK, FrameType
<1>1. CASE Enter(n, s)
  BY <1>1, TableKept DEF Enter
<1>2. CASE MarkRunning(n, s)
  <2> DEFINE t == exec[s].task
  <2> DEFINE r == [row[t] EXCEPT !.status = "running", !.by = n]
  <2>1. t \in Tasks
    BY <1>0, <1>2 DEF MarkRunning, At
  <2>2. r.retry = row[t].retry /\ r.status = "running"
    BY <2>1, RowOf DEF RowType
  <2>3. Write(t, r, {})
    BY <1>2 DEF MarkRunning
  <2> HIDE DEF t, r
  <2>4. Kept(t, r)
    BY <2>1, <2>2, KeptUpdate
  <2> QED BY <2>1, <2>3, <2>4, WriteInv
<1>3. CASE Complete(n, s)
  <2> DEFINE t == exec[s].task
  <2> DEFINE r == [row[t] EXCEPT !.status = "completed", !.completed = TRUE]
  <2>1. t \in Tasks
    BY <1>0, <1>3 DEF Complete, At
  <2>2. r.retry = row[t].retry /\ r.status = "completed" /\ r.completed
    BY <2>1, RowOf DEF RowType
  <2>3. Write(t, r, {})
    BY <1>3 DEF Complete
  <2> HIDE DEF t, r
  <2>4. Kept(t, r)
    BY <2>1, <2>2, KeptUpdate
  <2> QED BY <2>1, <2>3, <2>4, WriteInv
<1>4. CASE CancelSiblings(n, s)
  <2>1. PICK S \in SUBSET Tasks : EndAll(S, "cancelled", TRUE)
    BY <1>4 DEF CancelSiblings
  <2> QED BY <2>1, EndAllInv
<1>5. CASE Fail(n, s)
  <2> DEFINE t == exec[s].task
  <2> DEFINE k == exec[s].retry
  <2> DEFINE r == Failed(t, k)
  <2>1. t \in Tasks /\ k \in Nat
    BY <1>0, <1>5 DEF Fail, At
  <2>2. row[t] \in RowType
    BY <2>1, RowOf
  <2>5. Kept(t, r)
    <3>1. CASE k < maxRetries[t]
      <4>1. r = Retried(t, k)
        BY <3>1 DEF Failed
      <4>2. r.status = "available" /\ r.retry = k + 1
        BY <2>2, <4>1 DEF Retried, RowType
      <4>3. k + 1 <= Budget(t)
        BY <2>1, <3>1, BudgetType
      <4> HIDE DEF r, k, t
      <4> QED BY <2>1, <4>2, <4>3, KeptUpdate
    <3>2. CASE ~(k < maxRetries[t])
      <4>1. r = [row[t] EXCEPT !.status = "failed", !.completed = TRUE]
        BY <3>2 DEF Failed
      <4>2. r.status = "failed" /\ r.completed /\ r.retry = row[t].retry
        BY <2>2, <4>1 DEF RowType
      <4> HIDE DEF r, k, t
      <4> QED BY <2>1, <4>2, KeptUpdate
    <3> QED BY <3>1, <3>2
  <2>6. Write(t, r, {})
    BY <1>5 DEF Fail
  <2> HIDE DEF t, k, r
  <2> QED BY <2>1, <2>5, <2>6, WriteInv
<1>6. CASE Close(n, s) \/ Raise(n, s) \/ TryAgain(n, s) \/ GiveUp(n, s)
  BY <1>6, TableKept DEF Close, Raise, TryAgain, GiveUp
<1>7. CASE LoseTask(n, s)
  <2> DEFINE t == exec[s].task
  <2> DEFINE r == [row[t] EXCEPT !.status = "failed", !.completed = TRUE]
  <2>1. t \in Tasks
    BY <1>0, <1>7 DEF LoseTask, At
  <2>2. r.retry = row[t].retry /\ r.status = "failed" /\ r.completed
    BY <2>1, RowOf DEF RowType
  <2>3. Write(t, r, {}) \/ UNCHANGED table
    BY <1>7 DEF LoseTask
  <2> HIDE DEF t, r
  <2>4. Kept(t, r)
    BY <2>1, <2>2, KeptUpdate
  <2> QED BY <2>1, <2>3, <2>4, WriteInv, TableKept
<1> QED BY <1>1, <1>2, <1>3, <1>4, <1>5, <1>6, <1>7

LEMMA PollingTable ==
  ASSUME NEW n \in Nodes PROVE TypeOK /\ TableInv /\ LoopInv /\ Polling(n) => TableInv'
<1> SUFFICES ASSUME TypeOK, TableInv, LoopInv, Polling(n) PROVE TableInv'
  OBVIOUS
<1>0. \A x \in rows[n] : x[1] \in Tasks
  BY DEF TypeOK
<1>1. CASE ReadRetry(n) \/ DropStale(n) \/ SkipAvailable(n) \/ TakeResult(n) \/ ReadParent(n)
  BY <1>1, TableKept DEF ReadRetry, DropStale, SkipAvailable, TakeResult, ReadParent
<1>2. CASE ResetStuck(n)
  <2> DEFINE t == hand[n][1]
  <2> DEFINE k == hand[n][2]
  <2> DEFINE q == IF k < Budget(t) THEN k + 1 ELSE row[t].retry
  <2> DEFINE r == [row[t] EXCEPT !.status = "available", !.by = None,
                                 !.accepted = FALSE, !.retry = q]
  <2>1. t \in Tasks /\ k \in Nat
    BY <1>2, HandType DEF ResetStuck
  <2>2. row[t] \in RowType /\ Budget(t) \in Nat
    BY <2>1, RowOf, BudgetType
  <2>3. q = row[t].retry \/ q <= Budget(t)
    BY <2>1, <2>2
  <2>4. Write(t, r, {})
    BY <1>2 DEF ResetStuck
  <2>5. r.status = "available" /\ r.retry = q
    <3> HIDE DEF q
    <3> QED BY <2>2 DEF RowType
  <2> HIDE DEF t, k, q, r
  <2>6. Kept(t, r)
    BY <2>1, <2>3, <2>5, KeptUpdate
  <2> QED BY <2>1, <2>4, <2>6, WriteInv
<1>3. CASE Sweep(n)
  <2>1. PICK due \in SUBSET Tasks : EndAll(due, "expired", FALSE)
    BY <1>3 DEF Sweep
  <2> QED BY <2>1, EndAllInv
<1>4. CASE AcceptPending(n)
  <2>1. PICK x \in rows[n] :
          Write(x[1], [row[x[1]] EXCEPT !.status = "accepted", !.by = n, !.accepted = TRUE], {n})
    BY <1>4 DEF AcceptPending
  <2> DEFINE t == x[1]
  <2> DEFINE r == [row[t] EXCEPT !.status = "accepted", !.by = n, !.accepted = TRUE]
  <2>2. t \in Tasks /\ t \notin Board
    BY <1>0, <1>4 DEF AcceptPending, LoopInv
  <2>3. r.status = "accepted" /\ r.retry = row[t].retry
    BY <2>2, RowOf DEF RowType
  <2>4. Write(t, r, {n})
    BY <2>1
  <2> HIDE DEF t, r
  <2>5. Kept(t, r)
    BY <2>2, <2>3, KeptUpdate
  <2> QED BY <2>2, <2>4, <2>5, WriteInv
<1>5. CASE ClaimAvailable(n)
  <2>1. PICK x \in rows[n] :
          /\ row[x[1]].status = "available"
          /\ Write(x[1], [row[x[1]] EXCEPT !.status = "accepted", !.by = n, !.accepted = TRUE], {n})
    BY <1>5 DEF ClaimAvailable, Claimable
  <2> DEFINE t == x[1]
  <2> DEFINE r == [row[t] EXCEPT !.status = "accepted", !.by = n, !.accepted = TRUE]
  <2>2. t \in Tasks
    BY <1>0
  <2>3. r.status = "accepted" /\ r.retry = row[t].retry
    BY <2>2, RowOf DEF RowType
  <2>4. Write(t, r, {n}) /\ holder[t] = {}
    BY <2>1, <2>2 DEF TableInv
  <2> HIDE DEF t, r
  <2>5. Kept(t, r)
    BY <2>2, <2>3, KeptUpdate
  <2> QED BY <2>2, <2>4, <2>5, WriteInv
<1>6. CASE ActivateChild(n) \/ ActivateDependent(n)
  <2> DEFINE t == hand[n][1]
  <2> DEFINE r == [row[t] EXCEPT !.status = "available", !.completed = TRUE]
  <2>1. t \in Tasks
    BY <1>6, HandType DEF ActivateChild, ActivateDependent
  <2>2. r.status = "available" /\ r.retry = row[t].retry
    BY <2>1, RowOf DEF RowType
  <2>3. Write(t, r, {})
    BY <1>6 DEF ActivateChild, ActivateDependent
  <2> HIDE DEF t, r
  <2>4. Kept(t, r)
    BY <2>1, <2>2, KeptUpdate
  <2> QED BY <2>1, <2>3, <2>4, WriteInv
<1> QED BY <1>1, <1>2, <1>3, <1>4, <1>5, <1>6 DEF Polling

LEMMA HandledLoop ==
  ASSUME TypeOK, LoopInv, NEW n \in Nodes, NEW x, Handled(n, x), UNCHANGED setup
  PROVE  LoopInv'
  BY DEF TypeOK, LoopInv, Handled

\* Only SelectPending starts on pending rows, and the board has none.
LEMMA SelectLoop ==
  ASSUME TypeOK, LoopInv, NEW n \in Nodes, NEW ph, NEW found, Select(n, ph, found),
         ph = "pending" => \A x \in found : x[1] \notin Board
  PROVE  LoopInv'
  BY DEF TypeOK, LoopInv, Select

\* Steps that touch neither the loops nor delegate_task.
LEMMA LoopKept == LoopInv /\ UNCHANGED <<setup, phase, rows>> => LoopInv'
  BY DEF LoopInv

LEMMA LoopStep == TypeOK /\ TableInv /\ LoopInv /\ [Next]_vars => LoopInv'
<1> SUFFICES ASSUME TypeOK, TableInv, LoopInv, [Next]_vars PROVE LoopInv'
  OBVIOUS
<1>1. CASE Delegating
  <2>1. PICK t \in Tasks :
          Delegate(t) \/ CheckParent(t) \/ SetDependent(t) \/ AddNote(t)
    BY <1>1 DEF Delegating
  <2>2. UNCHANGED <<phase, rows>>
    BY <2>1 DEF Delegate, CheckParent, SetDependent, AddNote, loop
  <2>3. \A u \in Tasks \ {t} : setup'[u] = setup[u]
    BY <2>1 DEF Delegate, CheckParent, SetDependent, AddNote, TypeOK
  <2>4. t \in Board => setup'[t] \in {"none", "note", "done"}
    BY <2>1 DEF Delegate, CheckParent, SetDependent, AddNote, TypeOK, LoopInv, Board
  <2> QED BY <2>2, <2>3, <2>4 DEF LoopInv, Board
<1>2. CASE Operating
  BY <1>2, LoopKept DEF Operating, CancelTask, ClaimByHand, ReassignTask, loop
<1>3. CASE Reviewing
  <2>1. PICK t \in Tasks :
          AcceptReview(t) \/ RejectReview(t) \/ SendReview(t) \/ ApplyVerdict(t)
    BY <1>3 DEF Reviewing
  <2>2. CASE AcceptReview(t) \/ RejectReview(t) \/ ApplyVerdict(t)
    BY <2>2, LoopKept DEF AcceptReview, RejectReview, ApplyVerdict, loop
  <2>3. CASE SendReview(t)
    <3>1. setup' = [setup EXCEPT ![t] = "note"] /\ UNCHANGED <<phase, rows>>
      BY <2>3 DEF SendReview, loop
    <3>2. \A u \in Tasks : setup'[u] \in {"note", setup[u]}
      BY <3>1 DEF TypeOK
    <3> QED BY <3>1, <3>2 DEF LoopInv, Board
  <2> QED BY <2>1, <2>2, <2>3
<1>4. ASSUME NEW n \in Nodes, Executing(n) PROVE LoopInv'
  BY <1>4, LoopKept
  DEF Executing, Enter, MarkRunning, Complete, CancelSiblings, Fail, Close, Raise, LoseTask,
      TryAgain, GiveUp, loop
<1>5. ASSUME NEW n \in Nodes, Crash(n) \/ Restart(n) PROVE LoopInv'
  <2>1. CASE Crash(n)
    <3>1. \A m \in Nodes : phase'[m] = "pending" => m # n /\ phase[m] = "pending" /\ rows'[m] = rows[m]
      BY <2>1 DEF Crash, TypeOK
    <3>2. \A t \in Tasks : setup'[t] \in {"done", setup[t]}
      BY <2>1 DEF Crash
    <3> QED BY <3>1, <3>2 DEF LoopInv, Board
  <2>2. CASE Restart(n)
    BY <2>2, LoopKept DEF Restart, loop
  <2> QED BY <1>5, <2>1, <2>2
<1>6. ASSUME NEW n \in Nodes, StartPolling(n) PROVE LoopInv'
  <2>1. CASE ProbePeers(n) \/ ReadActive(n)
    <3>1. \A m \in Nodes : phase'[m] = "pending" => phase[m] = "pending" /\ rows'[m] = rows[m]
      BY <2>1 DEF ProbePeers, ReadActive, TypeOK
    <3>2. setup' = setup
      BY <2>1 DEF ProbePeers, ReadActive
    <3> QED BY <3>1, <3>2 DEF LoopInv
  <2>2. CASE SelectPending(n)
    <3>1. \A t \in Board : row[t].status # "pending"
      BY DEF TableInv, Kept, Board
    <3>2. \A x \in Fetched({t \in Tasks : row[t].status = "pending" /\ row[t].to = n}) :
             x[1] \notin Board
      BY <3>1 DEF Fetched
    <3> QED BY <2>2, <3>2, SelectLoop DEF SelectPending
  <2>3. CASE SelectDependents(n)
    BY <2>3, SelectLoop DEF SelectDependents
  <2>4. ASSUME NEW S \in SUBSET Tasks,
               SelectStuck(n, S) \/ SelectAvailable(n, S) \/ SelectResults(n, S)
        PROVE  LoopInv'
    <3>1. PICK ph, found : ph \in {"stuck", "available", "results"} /\ Select(n, ph, found)
      BY <2>4 DEF SelectStuck, SelectAvailable, SelectResults
    <3> QED BY <3>1, SelectLoop
  <2>5. ASSUME NEW t \in Tasks, ForgetResult(n, t) \/ ForgetClaim(n, Key(t)) PROVE LoopInv'
    BY <2>5, LoopKept DEF ForgetResult, ForgetClaim, loop
  <2> QED BY <1>6, <2>1, <2>2, <2>3, <2>4, <2>5 DEF StartPolling
<1>7. ASSUME NEW n \in Nodes, Polling(n) PROVE LoopInv'
  <2>0. setup' = setup
    BY <1>7 DEF Polling, ReadRetry, ResetStuck, Sweep, DropStale, AcceptPending, ClaimAvailable,
                SkipAvailable, TakeResult, ActivateChild, ReadParent, ActivateDependent
  <2>1. CASE ReadRetry(n)
    BY <2>0, <2>1, LoopKept DEF ReadRetry
  <2>2. CASE Sweep(n) \/ DropStale(n)
    <3>1. \A m \in Nodes : phase'[m] = "pending" => phase[m] = "pending" /\ rows'[m] = rows[m]
      BY <2>2 DEF Sweep, DropStale, TypeOK
    <3> QED BY <2>0, <3>1 DEF LoopInv
  <2>3. CASE \E x : Handled(n, x)
    BY <2>0, <2>3, HandledLoop
  <2>4. CASE UNCHANGED <<phase, rows>>
    BY <2>0, <2>4, LoopKept
  <2> QED BY <1>7, <2>1, <2>2, <2>3, <2>4
      DEF Polling, ResetStuck, AcceptPending, ClaimAvailable, SkipAvailable, TakeResult,
          ActivateChild, ReadParent, ActivateDependent
<1>8. CASE UNCHANGED vars
  BY <1>8, LoopKept DEF vars
<1> QED BY <1>1, <1>2, <1>3, <1>4, <1>5, <1>6, <1>7, <1>8 DEF Next

LEMMA TableStep == TypeOK /\ TableInv /\ LoopInv /\ [Next]_vars => TableInv'
<1> SUFFICES ASSUME TypeOK, TableInv, LoopInv, [Next]_vars PROVE TableInv'
  OBVIOUS
<1>1. ASSUME NEW n \in Nodes, Crash(n) \/ Restart(n) \/ StartPolling(n) PROVE TableInv'
  BY <1>1, TableKept, StartPollingTable DEF Crash, Restart
<1>2. CASE UNCHANGED vars
  BY <1>2, TableKept DEF vars, table
<1> QED BY <1>1, <1>2, DelegatingTable, OperatingTable, ReviewingTable, PollingTable,
           ExecutingTable DEF Next

\* The table's invariants hold together, with what the loops promise them.
THEOREM TableSafe == Spec => [](TableInv /\ LoopInv)
<1>1. Init => TableInv /\ LoopInv
  BY InitTable
<1>2. TypeOK /\ (TableInv /\ LoopInv) /\ [Next]_vars => (TableInv /\ LoopInv)'
  BY TableStep, LoopStep
<1> QED BY <1>1, <1>2, TypeCorrect, PTL DEF Spec

\* Claims on the board are exclusive whatever stale writers do.
THEOREM ClaimsExclusive == Spec => []BoardClaimsExclusive
<1>1. TableInv => BoardClaimsExclusive
  BY DEF TableInv
<1> QED BY <1>1, TableSafe, PTL

\* retry_count never passes the budget, from whichever copy it was computed.
THEOREM RetriesBounded == Spec => []RetryWithinBudget
<1>1. TableInv => RetryWithinBudget
  BY DEF TableInv, Kept, RetryWithinBudget
<1> QED BY <1>1, TableSafe, PTL

\* The delegator can find every completed or failed row by its completed_at.
THEOREM ResultsFound == Spec => []ResultsVisible
<1>1. TableInv => ResultsVisible
  BY DEF TableInv, Kept, ResultsVisible
<1> QED BY <1>1, TableSafe, PTL

-----------------------------------------------------------------------------
(***************************************************************************)
(* The executors: _active_tasks does not leak.                             *)
(***************************************************************************)

\* Steps that touch neither the coroutines, _active_tasks nor _task_failures.
LEMMA WipKept == NoWipLeak /\ UNCHANGED <<exec, active, failures>> => NoWipLeak'
  BY DEF NoWipLeak, Working, Busy

\* A new coroutine takes a free slot, which no entry relies on.
LEMMA SpawnWip ==
  ASSUME TypeOK, NoWipLeak, NEW n \in Nodes, NEW t, NEW r, Spawn(n, t, r),
         UNCHANGED <<active, failures>>
  PROVE  NoWipLeak'
<1>1. PICK q \in Slots : exec[q] = Idle /\ \A s \in Slots \ {q} : exec'[s] = exec[s]
  BY DEF Spawn, TypeOK
<1>2. \A m \in Nodes, s \in Slots : Busy(m, s) => exec'[s] = exec[s]
  BY <1>1 DEF Busy
<1> QED BY <1>2 DEF NoWipLeak, Working, Busy

\* Where the coroutine s stands after a step that moves it to a place of _execute_task,
\* whatever becomes of the number of its attempt.
LEMMA MoveWip ==
  ASSUME TypeOK, NEW s \in Slots, NEW pc \in Pcs, exec[s] # Idle,
         \/ exec' = [exec EXCEPT ![s].pc = pc]
         \/ /\ exec[s].attempt < MaxAttempts
            /\ exec' = [exec EXCEPT ![s].pc = pc, ![s].attempt = @ + 1]
  PROVE  /\ exec'[s].node = exec[s].node /\ exec'[s].task = exec[s].task
         /\ exec'[s].pc = pc /\ exec'[s] # Idle
         /\ \A q \in Slots \ {s} : exec'[q] = exec[q]
<1>1. exec[s] \in FrameType
  BY DEF TypeOK
<1>2. CASE exec' = [exec EXCEPT ![s].pc = pc]
  <2>1. exec'[s] = [exec[s] EXCEPT !.pc = pc] /\ \A q \in Slots \ {s} : exec'[q] = exec[q]
    BY <1>2 DEF TypeOK
  <2>2. exec'[s] \in FrameType
    BY <1>1, <2>1 DEF FrameType
  <2> QED BY <1>1, <2>1, <2>2, IdleAssumption DEF FrameType
<1>3. CASE /\ exec[s].attempt < MaxAttempts
           /\ exec' = [exec EXCEPT ![s].pc = pc, ![s].attempt = @ + 1]
  <2>1. exec'[s] = [exec[s] EXCEPT !.pc = pc, !.attempt = exec[s].attempt + 1]
        /\ \A q \in Slots \ {s} : exec'[q] = exec[q]
    BY <1>3 DEF TypeOK
  <2>2. exec[s].attempt + 1 \in 1..MaxAttempts
    BY <1>1, <1>3, ConstantAssumption DEF FrameType
  <2>3. exec'[s] \in FrameType
    BY <1>1, <2>1, <2>2 DEF FrameType
  <2> QED BY <1>1, <2>1, <2>3, IdleAssumption DEF FrameType
<1> QED BY <1>2, <1>3

LEMMA ExecutingWip ==
  ASSUME NEW n \in Nodes PROVE TypeOK /\ NoWipLeak /\ Executing(n) => NoWipLeak'
<1> SUFFICES ASSUME TypeOK, NoWipLeak, NEW s \in Slots,
                    \/ Enter(n, s) \/ MarkRunning(n, s) \/ Complete(n, s)
                    \/ CancelSiblings(n, s) \/ Fail(n, s) \/ Close(n, s)
                    \/ Raise(n, s) \/ LoseTask(n, s) \/ TryAgain(n, s) \/ GiveUp(n, s)
             PROVE  NoWipLeak'
  BY DEF Executing
<1>0. PICK t \in Tasks : exec[s] # Idle /\ exec[s].node = n /\ exec[s].task = t
  BY DEF Enter, MarkRunning, Complete, CancelSiblings, Fail, Close, Raise, LoseTask, TryAgain,
         GiveUp, At, TypeOK, FrameType
<1>1. CASE Enter(n, s) \/ TryAgain(n, s)
  <2>1. /\ exec'[s].node = n /\ exec'[s].task = t /\ exec'[s].pc = "entered"
        /\ exec'[s] # Idle
        /\ \A q \in Slots \ {s} : exec'[q] = exec[q]
    BY <1>0, <1>1, MoveWip DEF Enter, TryAgain, Move, Pcs, AtWork
  <2>2. \A m \in Nodes : active'[m] = IF m = n THEN active[n] \cup {t} ELSE active[m]
    BY <1>0, <1>1 DEF Enter, TryAgain, TypeOK
  <2>3. failures' = failures
    BY <1>1 DEF Enter, TryAgain, life
  <2>4. Working(n, s, t)'
    BY <2>1 DEF Working, Busy, AtWork
  <2>5. \A m \in Nodes, q \in Slots, u \in Tasks : Working(m, q, u) => Working(m, q, u)'
    <3> SUFFICES ASSUME NEW m \in Nodes, NEW q \in Slots, NEW u \in Tasks, Working(m, q, u)
                 PROVE  Working(m, q, u)'
      OBVIOUS
    <3>1. CASE q = s
      BY <1>0, <2>4, <3>1 DEF Working, Busy
    <3>2. CASE q # s
      BY <2>1, <3>2 DEF Working, Busy
    <3> QED BY <3>1, <3>2
  <2> QED BY <2>2, <2>3, <2>4, <2>5 DEF NoWipLeak, TypeOK
<1>2. CASE MarkRunning(n, s) \/ Complete(n, s) \/ CancelSiblings(n, s) \/ Fail(n, s)
  <2>1. PICK pc \in AtWork : Move(s, pc)
    BY <1>2 DEF MarkRunning, Complete, CancelSiblings, Fail, AtWork
  <2>2. UNCHANGED <<active, failures>>
    BY <1>2 DEF MarkRunning, Complete, CancelSiblings, Fail, memory, life
  <2>3. /\ exec'[s].node = n /\ exec'[s].task = t /\ exec'[s].pc \in AtWork
        /\ exec'[s] # Idle
        /\ \A q \in Slots \ {s} : exec'[q] = exec[q]
    BY <1>0, <2>1, MoveWip DEF Move, Pcs
  <2>4. \A m \in Nodes, q \in Slots, u \in Tasks : Working(m, q, u) => Working(m, q, u)'
    BY <1>0, <2>3 DEF Working, Busy, AtWork
  <2> QED BY <2>2, <2>4 DEF NoWipLeak, TypeOK
<1>3. CASE Close(n, s)
  <2>1. \A q \in Slots \ {s} : exec'[q] = exec[q]
    BY <1>0, <1>3 DEF Close, TypeOK
  <2>2. \A m \in Nodes : active'[m] = IF m = n THEN active[n] \ {t} ELSE active[m]
    BY <1>0, <1>3 DEF Close, TypeOK
  <2>3. \A m \in Nodes, u \in Tasks : m # n \/ u # t => failures'[m][u] = failures[m][u]
    BY <1>0, <1>3 DEF Close, TypeOK
  <2> SUFFICES ASSUME NEW m \in Nodes, NEW u \in active'[m]
               PROVE  (\E q \in Slots : Working(m, q, u)') \/ failures'[m][u] > 0
    BY DEF NoWipLeak
  <2>4. u \in active[m] /\ u \in Tasks /\ (m # n \/ u # t)
    BY <2>2 DEF TypeOK
  <2>5. CASE failures[m][u] > 0
    BY <2>3, <2>4, <2>5
  <2>6. ASSUME NEW q \in Slots, Working(m, q, u) PROVE Working(m, q, u)'
    <3>1. q # s
      BY <1>0, <2>4, <2>6 DEF Working, Busy
    <3> QED BY <2>1, <2>6, <3>1 DEF Working, Busy
  <2> QED BY <2>4, <2>5, <2>6 DEF NoWipLeak
<1>4. CASE Raise(n, s)
  <2>1. PICK pc \in {"backoff", "lost"} : Move(s, pc)
    BY <1>4 DEF Raise
  <2>2. \A q \in Slots \ {s} : exec'[q] = exec[q]
    BY <1>0, <2>1, MoveWip DEF Move, Pcs
  <2>3. \A m \in Nodes : active'[m] \subseteq active[m]
    BY <1>4 DEF Raise, TypeOK
  <2>4. \A m \in Nodes, u \in Tasks :
          failures'[m][u] = IF m = n /\ u = t
                            THEN IF failures[n][t] + 1 < MaxAttempts
                                 THEN failures[n][t] + 1 ELSE MaxAttempts
                            ELSE failures[m][u]
    BY <1>0, <1>4 DEF Raise, TypeOK
  <2>5. \A m \in Nodes, u \in Tasks : failures[m][u] \in Nat
    BY ConstantAssumption DEF TypeOK
  <2>6. failures'[n][t] > 0 /\ \A m \in Nodes, u \in Tasks :
          failures[m][u] > 0 => failures'[m][u] > 0
    BY <1>0, <2>4, <2>5, ConstantAssumption
  <2> SUFFICES ASSUME NEW m \in Nodes, NEW u \in active'[m]
               PROVE  (\E q \in Slots : Working(m, q, u)') \/ failures'[m][u] > 0
    BY DEF NoWipLeak
  <2>7. u \in active[m] /\ u \in Tasks
    BY <2>3 DEF TypeOK
  <2>8. ASSUME NEW q \in Slots, Working(m, q, u)
        PROVE  Working(m, q, u)' \/ failures'[m][u] > 0
    <3>1. CASE q = s
      BY <1>0, <2>6, <2>8, <3>1 DEF Working, Busy
    <3>2. CASE q # s
      BY <2>2, <2>8, <3>2 DEF Working, Busy
    <3> QED BY <3>1, <3>2
  <2> QED BY <2>6, <2>7, <2>8 DEF NoWipLeak
<1>5. CASE LoseTask(n, s) \/ GiveUp(n, s)
  <2>1. \A q \in Slots \ {s} : exec'[q] = exec[q]
    BY <1>5 DEF LoseTask, GiveUp, Move, TypeOK
  <2>2. UNCHANGED <<active, failures>>
    BY <1>5 DEF LoseTask, GiveUp, memory, life
  <2>3. exec[s].pc \notin AtWork
    BY <1>5 DEF LoseTask, GiveUp, At, AtWork
  <2>4. \A m \in Nodes, q \in Slots, u \in Tasks : Working(m, q, u) => Working(m, q, u)'
    BY <2>1, <2>3 DEF Working, Busy
  <2> QED BY <2>2, <2>4 DEF NoWipLeak, TypeOK
<1> QED BY <1>1, <1>2, <1>3, <1>4, <1>5

LEMMA WipStep == TypeOK /\ NoWipLeak /\ [Next]_vars => NoWipLeak'
<1> SUFFICES ASSUME TypeOK, NoWipLeak, [Next]_vars PROVE NoWipLeak'
  OBVIOUS
<1>1. CASE Delegating
  BY <1>1, WipKept DEF Delegating, Delegate, CheckParent, SetDependent, AddNote, memory, life
<1>2. CASE Operating
  BY <1>2, WipKept DEF Operating, CancelTask, ClaimByHand, ReassignTask, memory, life
<1>3. CASE Reviewing
  BY <1>3, WipKept DEF Reviewing, AcceptReview, RejectReview, SendReview, ApplyVerdict,
                         memory, life
<1>4. ASSUME NEW n \in Nodes, StartPolling(n) PROVE NoWipLeak'
  BY <1>4, WipKept
  DEF StartPolling, ProbePeers, ReadActive, SelectPending, SelectDependents, SelectStuck,
      SelectAvailable, SelectResults, ForgetResult, ForgetClaim, Select, memory, life
<1>5. ASSUME NEW n \in Nodes, Polling(n) PROVE NoWipLeak'
  <2>1. CASE AcceptPending(n) \/ ClaimAvailable(n)
    <3>1. PICK t, r : Spawn(n, t, r)
      BY <2>1 DEF AcceptPending, ClaimAvailable
    <3>2. UNCHANGED <<active, failures>>
      BY <2>1 DEF AcceptPending, ClaimAvailable, memory, life
    <3> QED BY <3>1, <3>2, SpawnWip
  <2>2. CASE DropStale(n)
    <3>1. UNCHANGED <<exec, failures>> /\ \A m \in Nodes : active'[m] \subseteq active[m]
      BY <2>2 DEF DropStale, TypeOK, life
    <3> QED BY <3>1 DEF NoWipLeak, Working, Busy
  <2>3. CASE \/ ReadRetry(n) \/ ResetStuck(n) \/ Sweep(n) \/ SkipAvailable(n) \/ TakeResult(n)
             \/ ActivateChild(n) \/ ReadParent(n) \/ ActivateDependent(n)
    BY <2>3, WipKept DEF ReadRetry, ResetStuck, Sweep, SkipAvailable, TakeResult, ActivateChild,
                         ReadParent, ActivateDependent, memory, life
  <2> QED BY <1>5, <2>1, <2>2, <2>3 DEF Polling
<1>6. ASSUME NEW n \in Nodes, Crash(n) PROVE NoWipLeak'
  <2>1. \A m \in Nodes : active'[m] = IF m = n THEN {} ELSE active[m]
    BY <1>6 DEF Crash, TypeOK
  <2>2. \A m \in Nodes \ {n}, s \in Slots : Busy(m, s) => exec'[s] = exec[s]
    BY <1>6 DEF Crash, Busy
  <2>3. \A m \in Nodes \ {n} : failures'[m] = failures[m]
    BY <1>6 DEF Crash, TypeOK
  <2> QED BY <2>1, <2>2, <2>3 DEF NoWipLeak, Working, Busy
<1>7. ASSUME NEW n \in Nodes, Restart(n) PROVE NoWipLeak'
  BY <1>7, WipKept DEF Restart, memory
<1>8. CASE UNCHANGED vars
  BY <1>8, WipKept DEF vars
<1> QED BY <1>1, <1>2, <1>3, <1>4, <1>5, <1>6, <1>7, <1>8, ExecutingWip DEF Next

\* An entry of _active_tasks that belongs to no coroutine at work was left by an
\* attempt whose failure _task_failures still holds: nothing else leaks one, for
\* any number of coroutines on one task and wherever their statements raise.
THEOREM WipDoesNotLeak == Spec => []NoWipLeak
<1>1. Init => NoWipLeak
  BY DEF Init, NoWipLeak
<1>2. TypeOK /\ NoWipLeak /\ [Next]_vars => NoWipLeak'
  BY WipStep
<1> QED BY <1>1, <1>2, TypeCorrect, PTL DEF Spec

-----------------------------------------------------------------------------
(***************************************************************************)
(* Whatever is in flight is about a row that has been inserted.  A task    *)
(* whose delegate_task call has not begun has no row, so the call that     *)
(* inserts it cannot overwrite one; and a review row is inserted after     *)
(* the task it is about.                                                   *)
(***************************************************************************)

Known == {t \in Tasks : setup[t] # "none"}

InsertedInv ==
  /\ \A t \in Tasks \ Known : row[t].status = "absent" /\ row[t].to = target[t]
  /\ \A n \in Nodes : /\ active[n] \subseteq Known
                      /\ \A x \in rows[n] : x[1] \in Known
                      /\ hand[n] # None => hand[n][1] \in Known
  /\ \A s \in Slots : exec[s] # Idle => exec[s].task \in Known
  /\ review \subseteq Known
  /\ \A r \in Known : reviews[r] # None => reviews[r] \in Known

\* The rows that are not absent are known.
LEMMA InsertedKnown ==
  ASSUME InsertedInv, NEW t \in Tasks, row[t].status # "absent"
  PROVE  t \in Known
  BY DEF InsertedInv

\* A write of a known row.
LEMMA WriteInserted ==
  ASSUME TypeOK, InsertedInv, NEW t \in Known, NEW r, NEW who, Write(t, r, who), Known' = Known
  PROVE  \A u \in Tasks \ Known' : row'[u].status = "absent" /\ row'[u].to = target[u]
<1>1. \A u \in Tasks \ {t} : row'[u] = row[u]
  BY DEF Write, TypeOK
<1> QED BY <1>1 DEF InsertedInv

\* The end of rows that are not absent.
LEMMA EndAllInserted ==
  ASSUME TypeOK, InsertedInv, NEW S \in SUBSET {t \in Tasks : row[t].status # "absent"},
         NEW s, NEW stamp, EndAll(S, s, stamp), Known' = Known
  PROVE  \A u \in Tasks \ Known' : row'[u].status = "absent" /\ row'[u].to = target[u]
<1>1. S \subseteq Known
  BY InsertedKnown
<1>2. \A u \in Tasks \ S : row'[u] = row[u]
  BY DEF EndAll
<1> QED BY <1>1, <1>2 DEF InsertedInv

\* The loop drops a row, or fetches rows that are known.
LEMMA HandledInserted ==
  ASSUME TypeOK, InsertedInv, NEW n \in Nodes, NEW x, Handled(n, x), Known' = Known
  PROVE  \A m \in Nodes : \A y \in rows'[m] : y[1] \in Known'
  BY DEF TypeOK, InsertedInv, Handled

LEMMA SelectInserted ==
  ASSUME TypeOK, InsertedInv, NEW n \in Nodes, NEW ph, NEW found, Select(n, ph, found),
         \A x \in found : x[1] \in Known
  PROVE  InsertedInv'
<1>1. UNCHANGED <<row, setup, hand, exec, active, claimed, seen, review>> /\ Known' = Known
  BY DEF Select, Known
<1>2. \A m \in Nodes : rows'[m] = IF m = n THEN found ELSE rows[m]
  BY DEF Select, TypeOK
<1> QED BY <1>1, <1>2 DEF InsertedInv

\* A new coroutine, and one that goes on, are about known rows.
LEMMA SpawnInserted ==
  ASSUME TypeOK, InsertedInv, NEW n, NEW t \in Known, NEW k, Spawn(n, t, k), Known' = Known
  PROVE  \A s \in Slots : exec'[s] # Idle => exec'[s].task \in Known'
<1>1. PICK q \in Slots :
        exec' = [exec EXCEPT ![q] = [node |-> n, task |-> t, pc |-> "queued", retry |-> k,
                                   attempt |-> 1]]
  BY DEF Spawn
<1>2. exec'[q].task = t /\ \A s \in Slots \ {q} : exec'[s] = exec[s]
  BY <1>1 DEF TypeOK
<1> QED BY <1>2 DEF InsertedInv

LEMMA MoveInserted ==
  ASSUME TypeOK, InsertedInv, NEW s \in Slots, exec[s] # Idle, NEW pc, Move(s, pc),
         Known' = Known
  PROVE  \A q \in Slots : exec'[q] # Idle => exec'[q].task \in Known'
<1>1. exec'[s] = [exec[s] EXCEPT !.pc = pc] /\ exec[s] \in FrameType
  BY DEF Move, TypeOK
<1>2. exec'[s].task = exec[s].task
  BY <1>1 DEF FrameType
<1>3. \A q \in Slots \ {s} : exec'[q] = exec[q]
  BY DEF Move, TypeOK
<1> QED BY <1>2, <1>3 DEF InsertedInv

LEMMA DelegatingInserted == TypeOK /\ InsertedInv /\ Delegating => InsertedInv'
<1> SUFFICES ASSUME TypeOK, InsertedInv, NEW t \in Tasks,
                    Delegate(t) \/ CheckParent(t) \/ SetDependent(t) \/ AddNote(t)
             PROVE  InsertedInv'
  BY DEF Delegating
<1>1. \A u \in Tasks : setup'[u] = setup[u] \/ (u = t /\ setup'[u] # "none")
  BY DEF Delegate, CheckParent, SetDependent, AddNote, TypeOK
<1>2. Known \subseteq Known' /\ t \in Known' /\ Known' \subseteq Tasks
  <2>1. setup'[t] # "none"
    BY DEF Delegate, CheckParent, SetDependent, AddNote, TypeOK
  <2> QED BY <1>1, <2>1 DEF Known
<1>5. Known' \subseteq Known \cup {t} /\ (t \in Known \/ reviews[t] = None)
  BY <1>1 DEF Delegate, CheckParent, SetDependent, AddNote, Known
<1>3. \A u \in Tasks \ {t} : row'[u] = row[u]
  BY DEF Delegate, CheckParent, SetDependent, AddNote, Write, TypeOK, table
<1>4. UNCHANGED <<rows, hand, exec, active, review>>
  BY DEF Delegate, CheckParent, SetDependent, AddNote, loop, memory
<1> QED BY <1>2, <1>3, <1>4, <1>5 DEF InsertedInv

LEMMA OperatingInserted == TypeOK /\ InsertedInv /\ Operating => InsertedInv'
<1> SUFFICES ASSUME TypeOK, InsertedInv, Operating PROVE InsertedInv'
  OBVIOUS
<1>1. UNCHANGED <<rows, hand, exec, active, review>> /\ Known' = Known
  BY DEF Operating, CancelTask, ClaimByHand, ReassignTask, loop, memory, Known
<1>2. PICK t, r, who : t \in Tasks /\ Write(t, r, who) /\ row[t].status # "absent"
  <2>1. PICK t \in Tasks : \/ CancelTask(t)
                          \/ \E n \in Nodes : ClaimByHand(n, t) \/ ReassignTask(t, n)
    BY DEF Operating
  <2> QED BY <2>1 DEF CancelTask, ClaimByHand, ReassignTask, Cancellable, Claimable
<1>3. t \in Known
  BY <1>2, InsertedKnown
<1> QED BY <1>1, <1>2, <1>3, WriteInserted DEF InsertedInv

LEMMA ReviewingInserted == TypeOK /\ InsertedInv /\ Reviewing => InsertedInv'
<1> SUFFICES ASSUME TypeOK, InsertedInv, NEW t \in Tasks,
                    AcceptReview(t) \/ RejectReview(t) \/ SendReview(t) \/ ApplyVerdict(t)
             PROVE  InsertedInv'
  BY DEF Reviewing
<1>1. UNCHANGED <<rows, hand, exec, active>> /\ review' \subseteq review
  BY DEF AcceptReview, RejectReview, SendReview, ApplyVerdict, Reviewed, loop, memory
<1>2. CASE AcceptReview(t)
  <2>1. Known' = Known
    BY <1>2 DEF AcceptReview, Known
  <2> QED BY <1>1, <1>2, <2>1 DEF AcceptReview, table, InsertedInv
<1>3. CASE RejectReview(t) \/ ApplyVerdict(t)
  <2>1. Known' = Known
    BY <1>3 DEF RejectReview, ApplyVerdict, Known
  <2>2. PICK u, r : u \in {t, reviews[t]} \ {None} /\ Write(u, r, {}) /\ t \in review
    BY <1>3, ConstantAssumption DEF RejectReview, ApplyVerdict, Reviewed
  <2>3. u \in Known
    BY <2>2 DEF InsertedInv
  <2> QED BY <1>1, <2>1, <2>2, <2>3, WriteInserted DEF InsertedInv
<1>4. CASE SendReview(t)
  <2>1. setup' = [setup EXCEPT ![t] = "note"] /\ reviews[t] \in review /\ Write(t, Fresh(t), {})
    BY <1>4 DEF SendReview, Reviewed
  <2>2. Known' = Known \cup {t}
    BY <2>1 DEF Known, TypeOK
  <2>3. \A u \in Tasks \ {t} : row'[u] = row[u]
    BY <2>1 DEF Write, TypeOK
  <2>4. reviews[t] \in Known
    BY <2>1 DEF InsertedInv
  <2> QED BY <1>1, <2>2, <2>3, <2>4 DEF InsertedInv
<1> QED BY <1>2, <1>3, <1>4

LEMMA ExecutingInserted ==
  ASSUME NEW n \in Nodes PROVE TypeOK /\ InsertedInv /\ Executing(n) => InsertedInv'
<1> SUFFICES ASSUME TypeOK, InsertedInv, NEW s \in Slots,
                    \/ Enter(n, s) \/ MarkRunning(n, s) \/ Complete(n, s)
                    \/ CancelSiblings(n, s) \/ Fail(n, s) \/ Close(n, s)
                    \/ Raise(n, s) \/ LoseTask(n, s) \/ TryAgain(n, s) \/ GiveUp(n, s)
             PROVE  InsertedInv'
  BY DEF Executing
<1>1. UNCHANGED <<rows, hand, review>> /\ Known' = Known
  BY DEF Enter, MarkRunning, Complete, CancelSiblings, Fail, Close, Raise, LoseTask, TryAgain,
         GiveUp, loop, Known
<1>2. exec[s] # Idle /\ exec[s].task \in Known
  BY DEF Enter, MarkRunning, Complete, CancelSiblings, Fail, Close, Raise, LoseTask, TryAgain,
         GiveUp, At, InsertedInv
<1>3. \A q \in Slots : exec'[q] # Idle => exec'[q].task \in Known'
  <2>1. CASE Close(n, s) \/ GiveUp(n, s)
    BY <1>1, <2>1 DEF Close, GiveUp, InsertedInv, TypeOK
  <2>2. CASE TryAgain(n, s)
    <3>1. exec[s].attempt < MaxAttempts
          /\ exec' = [exec EXCEPT ![s].pc = "entered", ![s].attempt = @ + 1]
      BY <2>2 DEF TryAgain
    <3>2. exec'[s].task = exec[s].task /\ \A q \in Slots \ {s} : exec'[q] = exec[q]
      BY <1>2, <3>1, MoveWip DEF Pcs, AtWork
    <3> QED BY <1>1, <1>2, <3>2 DEF InsertedInv
  <2>3. CASE ~(Close(n, s) \/ GiveUp(n, s) \/ TryAgain(n, s))
    <3>1. PICK pc : Move(s, pc)
      BY <2>3 DEF Enter, MarkRunning, Complete, CancelSiblings, Fail, Raise, LoseTask
    <3> QED BY <1>1, <1>2, <3>1, MoveInserted
  <2> QED BY <2>1, <2>2, <2>3
<1>4. \A m \in Nodes : active'[m] \subseteq active[m] \cup {exec[s].task}
  <2>1. CASE Enter(n, s) \/ TryAgain(n, s)
    BY <2>1 DEF Enter, TryAgain, TypeOK
  <2>2. CASE Close(n, s) \/ Raise(n, s)
    <3>1. active' \in {active, [active EXCEPT ![n] = @ \ {exec[s].task}]}
      BY <2>2 DEF Close, Raise
    <3> QED BY <3>1 DEF TypeOK
  <2>3. CASE \/ MarkRunning(n, s) \/ Complete(n, s) \/ CancelSiblings(n, s) \/ Fail(n, s)
             \/ LoseTask(n, s) \/ GiveUp(n, s)
    BY <2>3 DEF MarkRunning, Complete, CancelSiblings, Fail, LoseTask, GiveUp, memory
  <2> QED BY <2>1, <2>2, <2>3
<1>5. \A u \in Tasks \ Known' : row'[u].status = "absent" /\ row'[u].to = target[u]
  <2>1. CASE \/ Enter(n, s) \/ Close(n, s) \/ Raise(n, s) \/ TryAgain(n, s) \/ GiveUp(n, s)
             \/ UNCHANGED table
    BY <1>1, <2>1 DEF Enter, Close, Raise, TryAgain, GiveUp, table, InsertedInv
  <2>2. CASE (MarkRunning(n, s) \/ Complete(n, s) \/ Fail(n, s) \/ LoseTask(n, s))
             /\ ~UNCHANGED table
    <3>1. PICK r : Write(exec[s].task, r, {})
      BY <2>2 DEF MarkRunning, Complete, Fail, LoseTask
    <3> QED BY <1>1, <1>2, <3>1, WriteInserted
  <2>3. CASE CancelSiblings(n, s)
    <3>1. PICK S \in SUBSET {t \in Tasks : row[t].status # "absent"} : EndAll(S, "cancelled", TRUE)
      BY <2>3 DEF CancelSiblings
    <3> QED BY <1>1, <3>1, EndAllInserted
  <2> QED BY <2>1, <2>2, <2>3
<1> QED BY <1>1, <1>2, <1>3, <1>4, <1>5 DEF InsertedInv

LEMMA StartPollingInserted ==
  ASSUME NEW n \in Nodes PROVE TypeOK /\ InsertedInv /\ StartPolling(n) => InsertedInv'
<1> SUFFICES ASSUME TypeOK, InsertedInv, StartPolling(n) PROVE InsertedInv'
  OBVIOUS
<1>0. Known' = Known
  BY DEF StartPolling, ProbePeers, ReadActive, SelectPending, SelectDependents, SelectStuck,
         SelectAvailable, SelectResults, ForgetResult, ForgetClaim, Select, Known
<1>1. CASE ProbePeers(n)
  BY <1>0, <1>1 DEF ProbePeers, table, memory, InsertedInv
<1>2. CASE ReadActive(n)
  <2>1. PICK t \in active[n] : rows' = [rows EXCEPT ![n] = @ \cup Named({t})]
    BY <1>2 DEF ReadActive
  <2>2. \A m \in Nodes : \A x \in rows'[m] : x \in rows[m] \/ x[1] = t
    BY <2>1 DEF TypeOK, Named
  <2>3. t \in Known
    BY DEF InsertedInv
  <2>4. UNCHANGED <<table, setup, hand, exec, memory, review, life>>
    BY <1>2 DEF ReadActive
  <2> QED BY <1>0, <2>2, <2>3, <2>4 DEF InsertedInv, table, memory
<1>3. CASE SelectPending(n) \/ SelectDependents(n)
  <2> DEFINE P == {t \in Tasks : row[t].status = "pending" /\ row[t].to = n}
             D == {t \in Tasks : /\ from[t] = n /\ parent[t] # None
                                /\ row[t].status = "pending" /\ row[t].noted}
  <2>1. /\ \A x \in Fetched(P) : x[1] \in Known
        /\ \A x \in Named(D) : x[1] \in Known
    BY InsertedKnown DEF Fetched, Named
  <2>2. Select(n, "pending", Fetched(P)) \/ Select(n, "deps", Named(D))
    BY <1>3 DEF SelectPending, SelectDependents
  <2> HIDE DEF P, D
  <2> QED BY <2>1, <2>2, SelectInserted
<1>4. ASSUME NEW S \in SUBSET Tasks, SelectStuck(n, S) \/ SelectAvailable(n, S) PROVE InsertedInv'
  <2>1. S \subseteq {t \in Tasks : row[t].status # "absent"}
    BY <1>4 DEF SelectStuck, SelectAvailable, Stuck
  <2>2. /\ \A x \in Fetched(S) : x[1] \in Known
        /\ \A x \in Named(S) : x[1] \in Known
    BY <2>1, InsertedKnown DEF Fetched, Named
  <2> QED BY <1>4, <2>2, SelectInserted DEF SelectStuck, SelectAvailable
<1>5. ASSUME NEW S \in SUBSET Tasks, SelectResults(n, S) PROVE InsertedInv'
  <2> DEFINE found == {<<t, IF row[t].status = "completed" THEN 1 ELSE 0>> : t \in S}
  <2>1. S \subseteq {t \in Tasks : row[t].status # "absent"}
    BY <1>5 DEF SelectResults
  <2>2. \A x \in found : x[1] \in Known
    BY <2>1, InsertedKnown
  <2>3. Select(n, "results", found)
    BY <1>5 DEF SelectResults
  <2> HIDE DEF found
  <2> QED BY <2>2, <2>3, SelectInserted
<1>6. ASSUME NEW t \in Tasks, ForgetResult(n, t) \/ ForgetClaim(n, Key(t)) PROVE InsertedInv'
  BY <1>0, <1>6 DEF ForgetResult, ForgetClaim, table, loop, InsertedInv
<1> QED BY <1>1, <1>2, <1>3, <1>4, <1>5, <1>6 DEF StartPolling

LEMMA PollingInserted ==
  ASSUME NEW n \in Nodes PROVE TypeOK /\ InsertedInv /\ Polling(n) => InsertedInv'
<1> SUFFICES ASSUME TypeOK, InsertedInv, Polling(n) PROVE InsertedInv'
  OBVIOUS
<1>0. setup' = setup /\ Known' = Known
  BY DEF Polling, ReadRetry, ResetStuck, Sweep, DropStale, AcceptPending, ClaimAvailable,
         SkipAvailable, TakeResult, ActivateChild, ReadParent, ActivateDependent, Known
<1>00. \A x \in rows[n] : x[1] \in Known
  BY DEF InsertedInv
<1>1. CASE ReadRetry(n)
  <2>1. PICK x \in rows[n] : hand' = [hand EXCEPT ![n] = <<x[1], row[x[1]].retry>>]
    BY <1>1 DEF ReadRetry
  <2>2. \A m \in Nodes : hand'[m] = hand[m] \/ hand'[m][1] = x[1]
    BY <2>1 DEF TypeOK
  <2>3. UNCHANGED <<table, setup, phase, rows, exec, memory, review, life>>
    BY <1>1 DEF ReadRetry
  <2> QED BY <1>0, <1>00, <2>2, <2>3 DEF InsertedInv, table, memory
<1>2. CASE ResetStuck(n)
  <2>1. PICK r : Write(hand[n][1], r, {})
    BY <1>2 DEF ResetStuck
  <2>2. hand[n][1] \in Known /\ \A m \in Nodes : hand'[m] = hand[m] \/ hand'[m] = None
    BY <1>2 DEF ResetStuck, InsertedInv, TypeOK
  <2>3. PICK x : Handled(n, x)
    BY <1>2 DEF ResetStuck
  <2>4. UNCHANGED <<setup, exec, memory, review, life>>
    BY <1>2 DEF ResetStuck
  <2> QED BY <1>0, <2>1, <2>2, <2>3, <2>4, WriteInserted, HandledInserted DEF InsertedInv, memory
<1>3. CASE Sweep(n)
  <2>1. PICK S \in SUBSET {t \in Tasks : row[t].status # "absent"} : EndAll(S, "expired", FALSE)
    BY <1>3 DEF Sweep, Expirable
  <2>2. UNCHANGED <<rows, hand, exec, memory, review>>
    BY <1>3 DEF Sweep
  <2> QED BY <1>0, <2>1, <2>2, EndAllInserted DEF InsertedInv, memory
<1>4. CASE DropStale(n)
  <2>1. \A m \in Nodes : active'[m] \subseteq active[m] /\ rows'[m] \subseteq rows[m]
    BY <1>4 DEF DropStale, TypeOK
  <2>2. UNCHANGED <<table, setup, hand, exec, review>>
    BY <1>4 DEF DropStale
  <2> QED BY <1>0, <2>1, <2>2 DEF InsertedInv, table
<1>5. CASE AcceptPending(n) \/ ClaimAvailable(n)
  <2>1. PICK x, r : x \in rows[n] /\ Write(x[1], r, {n}) /\ Spawn(n, x[1], x[2]) /\ Handled(n, x)
    BY <1>5 DEF AcceptPending, ClaimAvailable
  <2>2. x[1] \in Known
    BY <1>00, <2>1
  <2>3. UNCHANGED <<setup, hand, active, review>>
    BY <1>5 DEF AcceptPending, ClaimAvailable, memory
  <2>4. \A u \in Tasks \ Known' : row'[u].status = "absent" /\ row'[u].to = target[u]
    BY <1>0, <2>1, <2>2, WriteInserted
  <2>5. \A s \in Slots : exec'[s] # Idle => exec'[s].task \in Known'
    BY <1>0, <2>1, <2>2, SpawnInserted
  <2>6. \A m \in Nodes : \A y \in rows'[m] : y[1] \in Known'
    BY <1>0, <2>1, HandledInserted
  <2> QED BY <1>0, <2>3, <2>4, <2>5, <2>6 DEF InsertedInv
<1>6. CASE SkipAvailable(n)
  <2>1. PICK x : Handled(n, x)
    BY <1>6 DEF SkipAvailable
  <2>2. UNCHANGED <<table, setup, hand, exec, memory, review>>
    BY <1>6 DEF SkipAvailable
  <2> QED BY <1>0, <2>1, <2>2, HandledInserted DEF InsertedInv, table, memory
<1>7. CASE TakeResult(n)
  <2>1. PICK x \in rows[n] :
          IF x[2] = 1 /\ Children(n, x[1]) # {}
          THEN /\ \E c \in Children(n, x[1]) : hand' = [hand EXCEPT ![n] = <<c, x[2]>>]
               /\ UNCHANGED <<phase, rows, review>>
          ELSE StartReview(x) /\ Handled(n, x) /\ UNCHANGED hand
    BY <1>7 DEF TakeResult
  <2>2. UNCHANGED <<table, setup, exec, active>>
    BY <1>7 DEF TakeResult
  <2>3. CASE x[2] = 1 /\ Children(n, x[1]) # {}
    <3>1. PICK c \in Children(n, x[1]) : hand' = [hand EXCEPT ![n] = <<c, x[2]>>]
      BY <2>1, <2>3
    <3>2. c \in Known
      BY <3>1, InsertedKnown DEF Children
    <3>3. \A m \in Nodes : hand'[m] = hand[m] \/ hand'[m][1] = c
      BY <3>1 DEF TypeOK
    <3> QED BY <1>0, <2>1, <2>2, <2>3, <3>2, <3>3 DEF InsertedInv, table
  <2>4. CASE ~(x[2] = 1 /\ Children(n, x[1]) # {})
    <3>1. review' \subseteq Known
      BY <1>00, <2>1, <2>4 DEF StartReview, Verdict, Reviewable, InsertedInv
    <3> QED BY <1>0, <2>1, <2>2, <2>4, <3>1, HandledInserted DEF InsertedInv, table
  <2> QED BY <2>3, <2>4
<1>8. CASE ActivateChild(n) \/ ActivateDependent(n)
  <2>1. PICK r : Write(hand[n][1], r, {})
    BY <1>8 DEF ActivateChild, ActivateDependent
  <2>2. hand[n][1] \in Known /\ \A m \in Nodes : hand'[m] = hand[m] \/ hand'[m] = None
    BY <1>8 DEF ActivateChild, ActivateDependent, InsertedInv, TypeOK
  <2>3. \E x : Handled(n, x)
    BY <1>8 DEF ActivateChild, ActivateDependent
  <2>4. review' \subseteq Known
    BY <1>00, <1>8 DEF ActivateChild, ActivateDependent, StartReview, Verdict, Reviewable,
                          InsertedInv
  <2>5. UNCHANGED <<exec, active>>
    BY <1>8 DEF ActivateChild, ActivateDependent, memory
  <2>6. \A u \in Tasks \ Known' : row'[u].status = "absent" /\ row'[u].to = target[u]
    BY <1>0, <2>1, <2>2, WriteInserted
  <2> QED BY <1>0, <2>2, <2>3, <2>4, <2>5, <2>6, HandledInserted DEF InsertedInv
<1>9. CASE ReadParent(n)
  <2>1. PICK x \in rows[n] : IF ParentEnded(x[1])
                             THEN hand' = [hand EXCEPT ![n] = x] /\ UNCHANGED <<phase, rows>>
                             ELSE Handled(n, x) /\ UNCHANGED hand
    BY <1>9 DEF ReadParent
  <2>2. UNCHANGED <<table, setup, exec, memory, review>>
    BY <1>9 DEF ReadParent
  <2>3. CASE ParentEnded(x[1])
    <3>1. \A m \in Nodes : hand'[m] = hand[m] \/ hand'[m] = x
      BY <2>1, <2>3 DEF TypeOK
    <3> QED BY <1>0, <1>00, <2>1, <2>2, <2>3, <3>1 DEF InsertedInv, table, memory
  <2>4. CASE ~ParentEnded(x[1])
    BY <1>0, <2>1, <2>2, <2>4, HandledInserted DEF InsertedInv, table, memory
  <2> QED BY <2>3, <2>4
<1> QED BY <1>1, <1>2, <1>3, <1>4, <1>5, <1>6, <1>7, <1>8, <1>9 DEF Polling

LEMMA LifeInserted ==
  ASSUME NEW n \in Nodes PROVE TypeOK /\ InsertedInv /\ (Crash(n) \/ Restart(n)) => InsertedInv'
<1> SUFFICES ASSUME TypeOK, InsertedInv, Crash(n) \/ Restart(n) PROVE InsertedInv'
  OBVIOUS
<1>1. CASE Crash(n)
  <2>1. Known' = Known
    BY <1>1 DEF Crash, Known
  <2>2. \A m \in Nodes : /\ active'[m] \subseteq active[m] /\ rows'[m] \subseteq rows[m]
                         /\ hand'[m] = hand[m] \/ hand'[m] = None
    BY <1>1 DEF Crash, TypeOK
  <2>3. \A s \in Slots : exec'[s] = exec[s] \/ exec'[s] = Idle
    BY <1>1 DEF Crash
  <2>4. UNCHANGED table /\ review' \subseteq review
    BY <1>1 DEF Crash
  <2> QED BY <2>1, <2>2, <2>3, <2>4 DEF InsertedInv, table
<1>2. CASE Restart(n)
  BY <1>2 DEF Restart, table, loop, memory, InsertedInv, Known
<1> QED BY <1>1, <1>2

LEMMA InsertedStep == TypeOK /\ InsertedInv /\ [Next]_vars => InsertedInv'
<1>1. TypeOK /\ InsertedInv /\ UNCHANGED vars => InsertedInv'
  BY DEF vars, InsertedInv, Known
<1> QED BY <1>1, DelegatingInserted, OperatingInserted, ReviewingInserted, PollingInserted,
           StartPollingInserted, ExecutingInserted, LifeInserted DEF Next

\* A task whose delegate_task call has not begun has no row, and nothing in
\* flight is about it.
THEOREM OnlyInsertedRows == Spec => []InsertedInv
<1>1. Init => InsertedInv
  BY DEF Init, InsertedInv, Known
<1>2. TypeOK /\ InsertedInv /\ [Next]_vars => InsertedInv'
  BY InsertedStep
<1> QED BY <1>1, <1>2, TypeCorrect, PTL DEF Spec

-----------------------------------------------------------------------------
(***************************************************************************)
(* A row that has ended is reopened only by a write under way.  It takes   *)
(* InsertedInv: a delegate_task call would otherwise be free to overwrite  *)
(* the row it inserts.                                                     *)
(***************************************************************************)

\* The steps that may change the status of an ended row t: all are under way.
EndedStay == \A t \in Tasks :
  row[t].status \in Terminal /\ row'[t].status # row[t].status => WriteOutstanding(t)

\* A write of one row t changes no other row.
LEMMA WriteEnded ==
  ASSUME TypeOK, NEW t \in Tasks, NEW r, NEW who, Write(t, r, who),
         \/ row[t].status \notin Terminal
         \/ r.status = row[t].status
         \/ WriteOutstanding(t)
  PROVE  EndedStay
  BY DEF Write, TypeOK, EndedStay

LEMMA EndAllEnded ==
  ASSUME TypeOK, NEW S, NEW s, NEW stamp, EndAll(S, s, stamp),
         \A t \in S : row[t].status \notin Terminal
  PROVE  EndedStay
  BY DEF EndAll, TypeOK, EndedStay

LEMMA SameEnded == row' = row => EndedStay
  BY DEF EndedStay

LEMMA DelegatingEnded == TypeOK /\ InsertedInv /\ Delegating => EndedStay
<1> SUFFICES ASSUME TypeOK, InsertedInv, NEW t \in Tasks,
                    Delegate(t) \/ CheckParent(t) \/ SetDependent(t) \/ AddNote(t)
             PROVE  EndedStay
  BY DEF Delegating
<1>1. CASE Delegate(t)
  <2>1. row[t].status \notin Terminal
    BY <1>1 DEF Delegate, InsertedInv, Known, Terminal
  <2> QED BY <1>1, <2>1, WriteEnded DEF Delegate
<1>2. CASE CheckParent(t)
  BY <1>2, SameEnded DEF CheckParent, table
<1>3. CASE SetDependent(t)
  <2>1. WriteOutstanding(t)
    BY <1>3 DEF SetDependent, WriteOutstanding
  <2> QED BY <1>3, <2>1, WriteEnded DEF SetDependent
<1>4. CASE AddNote(t)
  <2>1. row[t] \in RowType
    BY RowOf
  <2>2. row'[t].status = row[t].status /\ \A u \in Tasks \ {t} : row'[u] = row[u]
    BY <1>4, <2>1 DEF AddNote, TypeOK, RowType
  <2> QED BY <2>2 DEF EndedStay
<1> QED BY <1>1, <1>2, <1>3, <1>4

LEMMA OperatingEnded == TypeOK /\ Operating => EndedStay
<1> SUFFICES ASSUME TypeOK, NEW t \in Tasks,
                    CancelTask(t) \/ \E n \in Nodes : ClaimByHand(n, t) \/ ReassignTask(t, n)
             PROVE  EndedStay
  BY DEF Operating
<1>1. row[t].status \notin Terminal
  BY DEF CancelTask, ClaimByHand, ReassignTask, Cancellable, Claimable, Terminal
<1>2. PICK r, who : Write(t, r, who)
  BY DEF CancelTask, ClaimByHand, ReassignTask
<1> QED BY <1>1, <1>2, WriteEnded

LEMMA ReviewingEnded == TypeOK /\ InsertedInv /\ Reviewing => EndedStay
<1> SUFFICES ASSUME TypeOK, InsertedInv, NEW t \in Tasks,
                    AcceptReview(t) \/ RejectReview(t) \/ SendReview(t) \/ ApplyVerdict(t)
             PROVE  EndedStay
  BY DEF Reviewing
<1>1. CASE AcceptReview(t)
  BY <1>1, SameEnded DEF AcceptReview, table
<1>2. CASE RejectReview(t)
  <2>1. WriteOutstanding(t)
    BY <1>2 DEF RejectReview, Reviewed, WriteOutstanding
  <2> QED BY <1>2, <2>1, WriteEnded DEF RejectReview
<1>3. CASE SendReview(t)
  <2>1. row[t].status \notin Terminal
    BY <1>3 DEF SendReview, InsertedInv, Known, Terminal
  <2> QED BY <1>3, <2>1, WriteEnded DEF SendReview
<1>4. CASE ApplyVerdict(t)
  <2>1. PICK r : Write(reviews[t], r, {}) /\ t \in review /\ reviews[t] # None
    BY <1>4 DEF ApplyVerdict, Reviewed
  <2>2. WriteOutstanding(reviews[t]) /\ reviews[t] \in Tasks
    BY <2>1, ReviewAssumption DEF WriteOutstanding
  <2> QED BY <2>1, <2>2, WriteEnded
<1> QED BY <1>1, <1>2, <1>3, <1>4

LEMMA PollingEnded ==
  ASSUME NEW n \in Nodes PROVE TypeOK /\ Polling(n) => EndedStay
<1> SUFFICES ASSUME TypeOK, Polling(n) PROVE EndedStay
  OBVIOUS
<1>1. CASE ReadRetry(n) \/ DropStale(n) \/ SkipAvailable(n) \/ TakeResult(n) \/ ReadParent(n)
  BY <1>1, SameEnded DEF ReadRetry, DropStale, SkipAvailable, TakeResult, ReadParent, table
<1>2. CASE ResetStuck(n) \/ ActivateChild(n) \/ ActivateDependent(n)
  <2>1. hand[n] # None /\ hand[n][1] \in Tasks
    BY <1>2 DEF ResetStuck, ActivateChild, ActivateDependent, TypeOK
  <2>2. WriteOutstanding(hand[n][1])
    BY <2>1 DEF WriteOutstanding
  <2>3. PICK r : Write(hand[n][1], r, {})
    BY <1>2 DEF ResetStuck, ActivateChild, ActivateDependent
  <2> QED BY <2>1, <2>2, <2>3, WriteEnded
<1>3. CASE Sweep(n)
  <2>1. PICK due \in SUBSET {t \in Tasks : row[t].status \in Expirable(n)} :
          EndAll(due, "expired", FALSE)
    BY <1>3 DEF Sweep
  <2>2. \A t \in due : row[t].status \notin Terminal
    BY DEF Expirable, Terminal
  <2> QED BY <2>1, <2>2, EndAllEnded
<1>4. CASE AcceptPending(n)
  <2>1. PICK x, r : x \in rows[n] /\ Write(x[1], r, {n})
    BY <1>4 DEF AcceptPending
  <2>2. x[1] \in Tasks
    BY <2>1 DEF TypeOK
  <2>3. WriteOutstanding(x[1])
    BY <1>4, <2>1 DEF AcceptPending, WriteOutstanding
  <2> QED BY <2>1, <2>2, <2>3, WriteEnded
<1>5. CASE ClaimAvailable(n)
  <2>1. PICK x, r : x \in rows[n] /\ Claimable(x[1]) /\ Write(x[1], r, {n})
    BY <1>5 DEF ClaimAvailable
  <2>2. x[1] \in Tasks /\ row[x[1]].status \notin Terminal
    BY <2>1 DEF TypeOK, Claimable, Terminal
  <2> QED BY <2>1, <2>2, WriteEnded
<1> QED BY <1>1, <1>2, <1>3, <1>4, <1>5 DEF Polling

LEMMA ExecutingEnded ==
  ASSUME NEW n \in Nodes PROVE TypeOK /\ Executing(n) => EndedStay
<1> SUFFICES ASSUME TypeOK, NEW s \in Slots,
                    \/ Enter(n, s) \/ MarkRunning(n, s) \/ Complete(n, s)
                    \/ CancelSiblings(n, s) \/ Fail(n, s) \/ Close(n, s)
                    \/ Raise(n, s) \/ LoseTask(n, s) \/ TryAgain(n, s) \/ GiveUp(n, s)
             PROVE  EndedStay
  BY DEF Executing
<1>1. CASE \/ Enter(n, s) \/ Close(n, s) \/ Raise(n, s) \/ TryAgain(n, s) \/ GiveUp(n, s)
           \/ UNCHANGED table
  BY <1>1, SameEnded DEF Enter, Close, Raise, TryAgain, GiveUp, table
<1>2. CASE (MarkRunning(n, s) \/ Complete(n, s) \/ Fail(n, s) \/ LoseTask(n, s))
           /\ ~UNCHANGED table
  <2>1. exec[s] # Idle
    BY <1>2 DEF MarkRunning, Complete, Fail, LoseTask, At
  <2>2. exec[s].task \in Tasks /\ WriteOutstanding(exec[s].task)
    BY <2>1 DEF TypeOK, FrameType, WriteOutstanding
  <2>3. PICK r : Write(exec[s].task, r, {})
    BY <1>2 DEF MarkRunning, Complete, Fail, LoseTask
  <2> QED BY <2>2, <2>3, WriteEnded
<1>3. CASE CancelSiblings(n, s)
  <2> DEFINE S == {u \in Tasks \ {exec[s].task} :
                     /\ Key(u) = Key(exec[s].task)
                     /\ row[u].status \in {"available", "pending"}}
  <2>1. EndAll(S, "cancelled", TRUE)
    BY <1>3 DEF CancelSiblings
  <2>2. \A u \in S : row[u].status \notin Terminal
    BY DEF Terminal
  <2> HIDE DEF S
  <2> QED BY <2>1, <2>2, EndAllEnded
<1> QED BY <1>1, <1>2, <1>3

LEMMA NextEnded == TypeOK /\ InsertedInv /\ [Next]_vars => EndedStay
<1> SUFFICES ASSUME TypeOK, InsertedInv, [Next]_vars PROVE EndedStay
  OBVIOUS
<1>1. ASSUME NEW n \in Nodes, StartPolling(n) \/ Crash(n) \/ Restart(n) PROVE EndedStay
  BY <1>1, SameEnded
  DEF StartPolling, ProbePeers, ReadActive, SelectPending, SelectDependents, SelectStuck,
      SelectAvailable, SelectResults, ForgetResult, ForgetClaim, Select, Crash, Restart, table
<1>2. CASE UNCHANGED vars
  BY <1>2, SameEnded DEF vars
<1> QED BY <1>1, <1>2, DelegatingEnded, OperatingEnded, ReviewingEnded, PollingEnded, ExecutingEnded
        DEF Next

\* No claim, poll, command, expiry or sibling's completion reopens a row that
\* has ended: the status changes only by a write already under way.  A verdict
\* that is taken again, as after a restart, is under way again.
THEOREM EndedReopenedOnlyByStaleWrites == Spec => EndedRowsReopenedOnlyByStaleWrites
<1>1. TypeOK /\ InsertedInv /\ [Next]_vars
        => [\A t \in Tasks :
              row[t].status \in Terminal /\ row'[t].status # row[t].status
                => WriteOutstanding(t)]_vars
  BY NextEnded DEF EndedStay
<1> QED BY <1>1, TypeCorrect, OnlyInsertedRows, PTL
        DEF Spec, EndedRowsReopenedOnlyByStaleWrites
-----------------------------------------------------------------------------
(***************************************************************************)
(* The table is a TaskBoard.  A statement with a guard makes one of its    *)
(* moves by that guard; one that names the task id alone is an Overwrite,  *)
(* or a TakeOver if it writes its node's name: that node is then a taker.  *)
(***************************************************************************)

\* A row is absent exactly until it is inserted, and names nobody until then.
Posted == \A t \in Tasks :
  row[t].status = "absent" => setup[t] = "none" /\ row[t].by = None

BoardInv == TypeOK /\ InsertedInv /\ Posted

LEMMA KnownPosted ==
  ASSUME Posted, NEW t \in Known
  PROVE  t \in Tasks /\ row[t].status # "absent"
  BY DEF Posted, Known

\* The move of the row t, in the terms of the table.
RowStays(t) == Stage(row'[t].status) = Stage(row[t].status) /\ row'[t].by = row[t].by
RowPosted(t) ==
  /\ row[t].status = "absent" /\ row'[t].status \in {"pending", "available"}
  /\ row'[t].by = row[t].by
RowClaimed(t) ==
  /\ row[t].status = "available" /\ row'[t].status = "accepted"
  /\ row'[t].by \in Nodes
RowHandedOver(t) ==
  /\ row[t].status \in {"accepted", "pending"} /\ row'[t].status = row[t].status
  /\ row'[t].by \in Nodes
RowWithdrawn(t) ==
  /\ row[t].status \in {"pending", "available", "accepted", "running"}
  /\ row'[t].status \in Terminal
  /\ row'[t].by = row[t].by
RowTakenOver(t) ==
  /\ row'[t].by \in Nodes /\ Entitled(row'[t].by, t)
  /\ row[t].status # "absent" /\ row'[t].status \in {"accepted", "running"}
RowOverwritten(t) ==
  /\ WriteOutstanding(t) /\ row[t].status # "absent"
  /\ \/ row'[t].status = "available" /\ row'[t].by \in {None, row[t].by}
     \/ row'[t].status \in {"pending"} \cup Terminal /\ row'[t].by = row[t].by
RowMoves(t) ==
  \/ RowStays(t) \/ RowPosted(t) \/ RowClaimed(t) \/ RowHandedOver(t) \/ RowWithdrawn(t)
  \/ RowTakenOver(t) \/ RowOverwritten(t)
RowsMove == \A t \in Tasks : RowMoves(t)

\* Who becomes a taker of t: by a claim, or while the row is pending.
RowEntitles(t) == \A n \in Nodes :
  Entitled(n, t)' /\ ~Entitled(n, t)
    => \/ row[t].status = "pending"
       \/ row[t].status = "available" /\ row'[t].status = "accepted" /\ row'[t].by = n
RowsEntitle == \A t \in Tasks : RowEntitles(t)

LEMMA StageCases ==
  ASSUME NEW s \in Statuses
  PROVE  /\ s = "absent" => Stage(s) = "absent"
         /\ s = "pending" => Stage(s) = "waiting"
         /\ s = "available" => Stage(s) = "open"
         /\ s \in {"accepted", "running"} => Stage(s) = "held"
         /\ s \in Terminal => Stage(s) = "ended"
  BY DEF Stage, Statuses, Terminal

\* ... and in those of TaskBoard.
LEMMA MoveRefines ==
  ASSUME TypeOK, TypeOK', NEW t \in Tasks, RowMoves(t)
  PROVE  \/ Shared!Stays(t) \/ Shared!Post(t) \/ Shared!Withdraw(t) \/ Shared!Overwrite(t)
         \/ \E n \in Nodes : Shared!Claim(t, n) \/ Shared!HandOver(t, n) \/ Shared!TakeOver(t, n)
<1>1. row[t].status \in Statuses /\ row'[t].status \in Statuses
  BY DEF TypeOK, RowType
<1>2. CASE RowStays(t)
  BY <1>2 DEF RowStays, Shared!Stays
<1>3. CASE RowPosted(t)
  BY <1>1, <1>3, StageCases DEF RowPosted, Shared!Post
<1>4. CASE RowClaimed(t)
  <2>1. PICK n \in Nodes : row'[t].by = n
    BY <1>4 DEF RowClaimed
  <2>2. Shared!Claim(t, n)
    BY <1>1, <1>4, <2>1, StageCases DEF RowClaimed, Shared!Claim
  <2> QED BY <2>2
<1>5. CASE RowHandedOver(t)
  <2>1. PICK n \in Nodes : row'[t].by = n
    BY <1>5 DEF RowHandedOver
  <2>2. Shared!HandOver(t, n)
    BY <1>1, <1>5, <2>1, StageCases DEF RowHandedOver, Shared!HandOver
  <2> QED BY <2>2
<1>6. CASE RowWithdrawn(t)
  <2>1. /\ Stage(row[t].status) \in {"waiting", "open", "held"}
        /\ Stage(row'[t].status) = "ended"
    BY <1>1, <1>6, StageCases DEF RowWithdrawn
  <2>2. row'[t].by = row[t].by
    BY <1>6 DEF RowWithdrawn
  <2> QED BY <2>1, <2>2 DEF Shared!Withdraw
<1>0. row[t].status # "absent" => Stage(row[t].status) # "absent"
  <2>1. row[t].status # "absent" =>
          row[t].status \in {"pending", "available", "accepted", "running"} \cup Terminal
    BY <1>1 DEF Statuses, Terminal
  <2> QED BY <1>1, <2>1, StageCases
<1>7. CASE RowTakenOver(t)
  <2>1. PICK n \in Nodes : row'[t].by = n
    BY <1>7 DEF RowTakenOver
  <2>2. Shared!TakeOver(t, n)
    BY <1>0, <1>1, <1>7, <2>1, StageCases DEF RowTakenOver, Shared!TakeOver
  <2> QED BY <2>2
<1>8. CASE RowOverwritten(t)
  <2>1. \/ Stage(row'[t].status) = "open" /\ row'[t].by \in {None, row[t].by}
        \/ Stage(row'[t].status) \in {"waiting", "ended"} /\ row'[t].by = row[t].by
    BY <1>1, <1>8, StageCases DEF RowOverwritten
  <2>2. Stage(row[t].status) # "absent" /\ WriteOutstanding(t)
    BY <1>0, <1>8 DEF RowOverwritten
  <2> QED BY <2>1, <2>2 DEF Shared!Overwrite
<1> QED BY <1>2, <1>3, <1>4, <1>5, <1>6, <1>7, <1>8 DEF RowMoves

LEMMA EntitlesRefines ==
  ASSUME TypeOK, TypeOK', NEW t \in Tasks, RowEntitles(t)
  PROVE  Shared!Entitles(t)
<1> DEFINE takers == {x \in Tasks \X Nodes : Entitled(x[2], x[1])}
<1> SUFFICES ASSUME NEW n \in Nodes, <<t, n>> \in takers' \ takers
             PROVE  Stage(row[t].status) = "waiting" \/ Shared!Claim(t, n)
  BY DEF Shared!Entitles
<1>1. Entitled(n, t)' /\ ~Entitled(n, t)
  OBVIOUS
<1>2. row[t].status \in Statuses /\ row'[t].status \in Statuses
  BY DEF TypeOK, RowType
<1>3. CASE row[t].status = "pending"
  BY <1>2, <1>3, StageCases
<1>4. CASE row[t].status = "available" /\ row'[t].status = "accepted" /\ row'[t].by = n
  BY <1>2, <1>4, StageCases DEF Shared!Claim
<1> QED BY <1>1, <1>3, <1>4 DEF RowEntitles

\* What Write does to the row it names and to the others.
LEMMA WriteMoves ==
  ASSUME TypeOK, NEW t \in Tasks, NEW r, NEW who, Write(t, r, who), row'[t] = r => RowMoves(t)
  PROVE  RowsMove
<1>1. row'[t] = r /\ \A u \in Tasks \ {t} : row'[u] = row[u]
  BY DEF Write, TypeOK
<1>2. \A u \in Tasks \ {t} : RowMoves(u)
  BY <1>1 DEF RowMoves, RowStays
<1> QED BY <1>1, <1>2 DEF RowsMove

\* An unguarded write that names nobody new.
LEMMA OverwriteMoves ==
  ASSUME TypeOK, NEW t \in Tasks, NEW r, Write(t, r, {}), WriteOutstanding(t),
         row[t].status # "absent",
         \/ r.status = "available" /\ r.by \in {None, row[t].by}
         \/ r.status \in {"pending"} \cup Terminal /\ r.by = row[t].by
  PROVE  RowsMove
<1>1. ASSUME row'[t] = r PROVE RowMoves(t)
  BY <1>1 DEF RowMoves, RowOverwritten
<1> QED BY <1>1, WriteMoves

LEMMA EndAllMoves ==
  ASSUME TypeOK, NEW S, NEW s \in Terminal, NEW stamp, EndAll(S, s, stamp),
         \A t \in S : row[t].status \in {"pending", "available", "accepted", "running"}
  PROVE  RowsMove
<1> SUFFICES ASSUME NEW t \in Tasks PROVE RowMoves(t)
  BY DEF RowsMove
<1>1. CASE t \in S
  <2>1. row'[t] = [row[t] EXCEPT !.status = s, !.completed = @ \/ stamp]
    BY <1>1 DEF EndAll
  <2>2. row'[t].status = s /\ row'[t].by = row[t].by
    BY <2>1 DEF TypeOK, RowType
  <2> QED BY <1>1, <2>2 DEF RowMoves, RowWithdrawn
<1>2. CASE t \notin S
  <2>1. row'[t] = row[t]
    BY <1>2 DEF EndAll
  <2> QED BY <2>1 DEF RowMoves, RowStays
<1> QED BY <1>1, <1>2

LEMMA SameMoves == row' = row => RowsMove
  BY DEF RowsMove, RowMoves, RowStays

\* The row that delegate_task or _delegate_review inserts.
LEMMA FreshMoves ==
  ASSUME BoardInv, NEW t \in Tasks, setup[t] = "none", Write(t, Fresh(t), {})
  PROVE  RowsMove
<1>1. row[t].status = "absent" /\ row[t].by = None
  BY DEF BoardInv, InsertedInv, Known, Posted
<1>2. Fresh(t).status \in {"pending", "available"} /\ Fresh(t).by = None
  BY DEF Fresh
<1>3. ASSUME row'[t] = Fresh(t) PROVE RowMoves(t)
  BY <1>1, <1>2, <1>3 DEF RowMoves, RowPosted
<1> QED BY <1>3, WriteMoves DEF BoardInv

LEMMA DelegatingMoves == BoardInv /\ Delegating => RowsMove
<1> SUFFICES ASSUME BoardInv, NEW t \in Tasks,
                    Delegate(t) \/ CheckParent(t) \/ SetDependent(t) \/ AddNote(t)
             PROVE  RowsMove
  BY DEF Delegating
<1>0. TypeOK /\ row[t] \in RowType
  BY RowOf DEF BoardInv
<1>1. CASE Delegate(t)
  BY <1>1, FreshMoves DEF Delegate
<1>2. CASE CheckParent(t)
  BY <1>2, SameMoves DEF CheckParent, table
<1>3. CASE SetDependent(t)
  <2>1. WriteOutstanding(t) /\ row[t].status # "absent"
    BY <1>3 DEF SetDependent, WriteOutstanding, BoardInv, Posted
  <2>2. PICK r : Write(t, r, {}) /\ r.status \in {"available", "pending"} /\ r.by = row[t].by
    BY <1>0, <1>3 DEF SetDependent, RowType
  <2> QED BY <1>0, <2>1, <2>2, OverwriteMoves
<1>4. CASE AddNote(t)
  <2>1. /\ row'[t].status = row[t].status /\ row'[t].by = row[t].by
        /\ \A u \in Tasks \ {t} : row'[u] = row[u]
    BY <1>0, <1>4 DEF AddNote, TypeOK, RowType
  <2> QED BY <2>1 DEF RowsMove, RowMoves, RowStays
<1> QED BY <1>1, <1>2, <1>3, <1>4

LEMMA OperatingMoves == BoardInv /\ Operating => RowsMove
<1> SUFFICES ASSUME BoardInv, NEW t \in Tasks,
                    CancelTask(t) \/ \E n \in Nodes : ClaimByHand(n, t) \/ ReassignTask(t, n)
             PROVE  RowsMove
  BY DEF Operating
<1>0. TypeOK /\ row[t] \in RowType
  BY RowOf DEF BoardInv
<1>1. CASE CancelTask(t)
  <2> DEFINE r == [row[t] EXCEPT !.status = "cancelled"]
  <2>1. /\ Write(t, r, {}) /\ r.status = "cancelled" /\ r.by = row[t].by
        /\ row[t].status \in {"pending", "available", "accepted"}
    BY <1>0, <1>1 DEF CancelTask, Cancellable, RowType
  <2> HIDE DEF r
  <2>2. ASSUME row'[t] = r PROVE RowMoves(t)
    BY <2>1, <2>2 DEF RowMoves, RowWithdrawn, Terminal
  <2> QED BY <1>0, <2>1, <2>2, WriteMoves
<1>2. ASSUME NEW n \in Nodes, ClaimByHand(n, t) PROVE RowsMove
  <2> DEFINE r == [row[t] EXCEPT !.status = "accepted", !.by = n, !.accepted = TRUE]
  <2>1. Write(t, r, {n}) /\ row[t].status = "available"
    BY <1>2 DEF ClaimByHand, Claimable
  <2>2. r.status = "accepted" /\ r.by = n
    BY <1>0 DEF RowType
  <2> HIDE DEF r
  <2>3. ASSUME row'[t] = r PROVE RowMoves(t)
    BY <2>1, <2>2, <2>3 DEF RowMoves, RowClaimed
  <2> QED BY <1>0, <2>1, <2>3, WriteMoves
<1>3. ASSUME NEW n \in Nodes, ReassignTask(t, n) PROVE RowsMove
  <2> DEFINE r == [row[t] EXCEPT !.to = n, !.by = n]
  <2>1. Write(t, r, {}) /\ row[t].status \in {"accepted", "pending"}
    BY <1>3 DEF ReassignTask
  <2>2. r.status = row[t].status /\ r.by = n
    BY <1>0 DEF RowType
  <2> HIDE DEF r
  <2>3. ASSUME row'[t] = r PROVE RowMoves(t)
    BY <2>1, <2>2, <2>3 DEF RowMoves, RowHandedOver
  <2> QED BY <1>0, <2>1, <2>3, WriteMoves
<1> QED BY <1>1, <1>2, <1>3

LEMMA ReviewingMoves == BoardInv /\ Reviewing => RowsMove
<1> SUFFICES ASSUME BoardInv, NEW t \in Tasks,
                    AcceptReview(t) \/ RejectReview(t) \/ SendReview(t) \/ ApplyVerdict(t)
             PROVE  RowsMove
  BY DEF Reviewing
<1>0. TypeOK /\ InsertedInv /\ Posted
  BY DEF BoardInv
<1>1. CASE AcceptReview(t)
  BY <1>1, SameMoves DEF AcceptReview, table
<1>2. CASE RejectReview(t)
  <2>1. WriteOutstanding(t) /\ row[t].status # "absent" /\ row[t] \in RowType
    BY <1>0, <1>2, KnownPosted, RowOf DEF RejectReview, Reviewed, WriteOutstanding, InsertedInv
  <2> DEFINE r == [row[t] EXCEPT !.status = "available"]
  <2>2. Write(t, r, {}) /\ r.status = "available" /\ r.by = row[t].by
    BY <1>2, <2>1 DEF RejectReview, RowType
  <2> HIDE DEF r
  <2> QED BY <1>0, <2>1, <2>2, OverwriteMoves
<1>3. CASE SendReview(t)
  BY <1>3, FreshMoves DEF SendReview
<1>4. CASE ApplyVerdict(t)
  <2> DEFINE u == reviews[t]
             r == [row[u] EXCEPT !.status = "available", !.completed = TRUE]
  <2>1. t \in review /\ u # None /\ Write(u, r, {})
    BY <1>4 DEF ApplyVerdict, Reviewed
  <2>2. u \in Known /\ WriteOutstanding(u)
    BY <1>0, <2>1 DEF InsertedInv, WriteOutstanding
  <2>3. u \in Tasks /\ row[u].status # "absent" /\ row[u] \in RowType
    BY <1>0, <2>2, KnownPosted, RowOf
  <2> HIDE DEF u
  <2>4. r.status = "available" /\ r.by = row[u].by
    BY <2>3 DEF RowType
  <2> HIDE DEF r
  <2> QED BY <1>0, <2>1, <2>2, <2>3, <2>4, OverwriteMoves
<1> QED BY <1>1, <1>2, <1>3, <1>4

LEMMA PollingMoves ==
  ASSUME NEW n \in Nodes PROVE BoardInv /\ Polling(n) => RowsMove
<1> SUFFICES ASSUME BoardInv, Polling(n) PROVE RowsMove
  OBVIOUS
<1>0. TypeOK /\ InsertedInv /\ Posted
  BY DEF BoardInv
<1>1. CASE ReadRetry(n) \/ DropStale(n) \/ SkipAvailable(n) \/ TakeResult(n) \/ ReadParent(n)
  BY <1>1, SameMoves DEF ReadRetry, DropStale, SkipAvailable, TakeResult, ReadParent, table
<1>2. CASE ResetStuck(n) \/ ActivateChild(n) \/ ActivateDependent(n)
  <2> DEFINE t == hand[n][1]
  <2>1. hand[n] # None /\ t \in Known
    BY <1>0, <1>2 DEF ResetStuck, ActivateChild, ActivateDependent, InsertedInv
  <2>2. t \in Tasks /\ row[t].status # "absent" /\ row[t] \in RowType
    BY <1>0, <2>1, KnownPosted, RowOf
  <2>3. WriteOutstanding(t)
    BY <2>1 DEF WriteOutstanding
  <2>4. PICK r : Write(t, r, {}) /\ r.status = "available" /\ r.by \in {None, row[t].by}
    <3>1. CASE ResetStuck(n)
      <4> DEFINE q == [row[t] EXCEPT !.status = "available", !.by = None, !.accepted = FALSE,
                                !.retry = IF hand[n][2] < Budget(t) THEN hand[n][2] + 1 ELSE @]
      <4>1. Write(t, q, {})
        BY <3>1 DEF ResetStuck
      <4>2. q.status = "available" /\ q.by = None
        BY <2>2 DEF RowType
      <4> HIDE DEF q
      <4> QED BY <4>1, <4>2
    <3>2. CASE ActivateChild(n) \/ ActivateDependent(n)
      <4> DEFINE q == [row[t] EXCEPT !.status = "available", !.completed = TRUE]
      <4>1. Write(t, q, {})
        BY <3>2 DEF ActivateChild, ActivateDependent
      <4>2. q.status = "available" /\ q.by = row[t].by
        BY <2>2 DEF RowType
      <4> HIDE DEF q
      <4> QED BY <4>1, <4>2
    <3> QED BY <1>2, <3>1, <3>2
  <2> HIDE DEF t
  <2> QED BY <1>0, <2>2, <2>3, <2>4, OverwriteMoves
<1>3. CASE Sweep(n)
  <2>1. PICK due \in SUBSET {t \in Tasks : row[t].status \in Expirable(n)} :
          EndAll(due, "expired", FALSE)
    BY <1>3 DEF Sweep
  <2>2. \A t \in due : row[t].status \in {"pending", "available", "accepted", "running"}
    BY DEF Expirable
  <2>3. "expired" \in Terminal
    BY DEF Terminal
  <2> QED BY <1>0, <2>1, <2>2, <2>3, EndAllMoves
<1>4. CASE AcceptPending(n)
  <2>1. PICK x \in rows[n] :
          Write(x[1], [row[x[1]] EXCEPT !.status = "accepted", !.by = n, !.accepted = TRUE], {n})
    BY <1>4 DEF AcceptPending
  <2> DEFINE t == x[1]
             r == [row[t] EXCEPT !.status = "accepted", !.by = n, !.accepted = TRUE]
  <2>2. t \in Known /\ Entitled(n, t)
    BY <1>0, <1>4 DEF AcceptPending, InsertedInv, Entitled
  <2>3. t \in Tasks /\ row[t].status # "absent" /\ row[t] \in RowType
    BY <1>0, <2>2, KnownPosted, RowOf
  <2>4. r.status = "accepted" /\ r.by = n /\ Write(t, r, {n})
    BY <2>1, <2>3 DEF RowType
  <2> HIDE DEF t, r
  <2>5. ASSUME row'[t] = r PROVE RowMoves(t)
    BY <2>2, <2>3, <2>4, <2>5 DEF RowMoves, RowTakenOver
  <2> QED BY <1>0, <2>3, <2>4, <2>5, WriteMoves
<1>5. CASE ClaimAvailable(n)
  <2>1. PICK x \in rows[n] :
          /\ row[x[1]].status = "available"
          /\ Write(x[1], [row[x[1]] EXCEPT !.status = "accepted", !.by = n, !.accepted = TRUE], {n})
    BY <1>5 DEF ClaimAvailable, Claimable
  <2> DEFINE t == x[1]
             r == [row[t] EXCEPT !.status = "accepted", !.by = n, !.accepted = TRUE]
  <2>2. t \in Tasks /\ row[t] \in RowType
    BY <1>0, RowOf DEF TypeOK
  <2>3. r.status = "accepted" /\ r.by = n /\ Write(t, r, {n}) /\ row[t].status = "available"
    BY <2>1, <2>2 DEF RowType
  <2> HIDE DEF t, r
  <2>4. ASSUME row'[t] = r PROVE RowMoves(t)
    BY <2>3, <2>4 DEF RowMoves, RowClaimed
  <2> QED BY <1>0, <2>2, <2>3, <2>4, WriteMoves
<1> QED BY <1>1, <1>2, <1>3, <1>4, <1>5 DEF Polling

LEMMA ExecutingMoves ==
  ASSUME NEW n \in Nodes PROVE BoardInv /\ Executing(n) => RowsMove
<1> SUFFICES ASSUME BoardInv, NEW s \in Slots,
                    \/ Enter(n, s) \/ MarkRunning(n, s) \/ Complete(n, s)
                    \/ CancelSiblings(n, s) \/ Fail(n, s) \/ Close(n, s)
                    \/ Raise(n, s) \/ LoseTask(n, s) \/ TryAgain(n, s) \/ GiveUp(n, s)
             PROVE  RowsMove
  BY DEF Executing
<1>0. TypeOK /\ InsertedInv /\ Posted
  BY DEF BoardInv
<1>1. CASE \/ Enter(n, s) \/ Close(n, s) \/ Raise(n, s) \/ TryAgain(n, s) \/ GiveUp(n, s)
           \/ UNCHANGED table
  BY <1>1, SameMoves DEF Enter, Close, Raise, TryAgain, GiveUp, table
<1>2. CASE \/ MarkRunning(n, s) \/ Complete(n, s) \/ Fail(n, s)
           \/ LoseTask(n, s) /\ ~UNCHANGED table
  <2> DEFINE t == exec[s].task
  <2>1. exec[s] # Idle /\ exec[s].node = n /\ t \in Known
    BY <1>0, <1>2 DEF MarkRunning, Complete, Fail, LoseTask, At, InsertedInv
  <2>2. t \in Tasks /\ row[t].status # "absent" /\ row[t] \in RowType
    BY <1>0, <2>1, KnownPosted, RowOf
  <2>3. WriteOutstanding(t) /\ Entitled(n, t)
    BY <2>1 DEF WriteOutstanding, Entitled
  <2>4. CASE MarkRunning(n, s)
    <3> DEFINE r == [row[t] EXCEPT !.status = "running", !.by = n]
    <3>1. Write(t, r, {})
      BY <2>4 DEF MarkRunning
    <3>2. r.status = "running" /\ r.by = n
      BY <2>2 DEF RowType
    <3> HIDE DEF t, r
    <3>3. ASSUME row'[t] = r PROVE RowMoves(t)
      BY <2>2, <2>3, <3>2, <3>3 DEF RowMoves, RowTakenOver
    <3> QED BY <1>0, <2>2, <3>1, <3>3, WriteMoves
  <2>5. CASE \/ Complete(n, s) \/ Fail(n, s)
             \/ LoseTask(n, s) /\ ~UNCHANGED table
    <3>1. PICK r : /\ Write(t, r, {})
                   /\ \/ r.status = "available" /\ r.by = None
                      \/ r.status \in {"completed", "failed"} /\ r.by = row[t].by
      <4> DEFINE c == [row[t] EXCEPT !.status = "completed", !.completed = TRUE]
                 f == [row[t] EXCEPT !.status = "failed", !.completed = TRUE]
                 a == Retried(t, exec[s].retry)
      <4>1. \E r \in {c, f, a} : Write(t, r, {})
        BY <2>5 DEF Complete, Fail, Failed, LoseTask
      <4>2. /\ c.status = "completed" /\ c.by = row[t].by
            /\ f.status = "failed" /\ f.by = row[t].by
            /\ a.status = "available" /\ a.by = None
        BY <2>2 DEF RowType, Retried
      <4> HIDE DEF c, f, a
      <4> QED BY <4>1, <4>2
    <3> HIDE DEF t
    <3> QED BY <1>0, <2>2, <2>3, <3>1, OverwriteMoves DEF Terminal
  <2> QED BY <1>2, <2>4, <2>5
<1>3. CASE CancelSiblings(n, s)
  <2> DEFINE S == {u \in Tasks \ {exec[s].task} :
                     /\ Key(u) = Key(exec[s].task)
                     /\ row[u].status \in {"available", "pending"}}
  <2>1. EndAll(S, "cancelled", TRUE)
    BY <1>3 DEF CancelSiblings
  <2>2. \A u \in S : row[u].status \in {"pending", "available", "accepted", "running"}
    OBVIOUS
  <2>3. "cancelled" \in Terminal
    BY DEF Terminal
  <2> HIDE DEF S
  <2> QED BY <1>0, <2>1, <2>2, <2>3, EndAllMoves
<1> QED BY <1>1, <1>2, <1>3 DEF LoseTask

LEMMA NextMoves == BoardInv /\ [Next]_vars => RowsMove
<1> SUFFICES ASSUME BoardInv, [Next]_vars PROVE RowsMove
  OBVIOUS
<1>1. ASSUME NEW n \in Nodes, StartPolling(n) \/ Crash(n) \/ Restart(n) PROVE RowsMove
  BY <1>1, SameMoves
  DEF StartPolling, ProbePeers, ReadActive, SelectPending, SelectDependents, SelectStuck,
      SelectAvailable, SelectResults, ForgetResult, ForgetClaim, Select, Crash, Restart, table
<1>2. CASE UNCHANGED vars
  BY <1>2, SameMoves DEF vars
<1> QED BY <1>1, <1>2, DelegatingMoves, OperatingMoves, ReviewingMoves, PollingMoves,
           ExecutingMoves DEF Next

\* Coroutines that go on or end, and loops that drop rows or start on anything but
\* pending rows, make nobody a taker.
LEMMA NobodyEntitled ==
  ASSUME \A s \in Slots :
           exec'[s] \in {exec[s], Idle} \/ (exec[s] # Idle /\ exec'[s].node = exec[s].node
                                              /\ exec'[s].task = exec[s].task),
         \A m \in Nodes : phase'[m] = "pending"
                            => phase[m] = "pending" /\ rows'[m] \subseteq rows[m]
  PROVE  RowsEntitle
<1> SUFFICES ASSUME NEW m \in Nodes, NEW t \in Tasks, Entitled(m, t)' PROVE Entitled(m, t)
  BY DEF RowsEntitle, RowEntitles
<1> QED BY DEF Entitled

LEMMA PollingEntitles ==
  ASSUME NEW n \in Nodes PROVE TypeOK /\ Polling(n) => RowsEntitle
<1> SUFFICES ASSUME TypeOK, Polling(n) PROVE RowsEntitle
  OBVIOUS
<1>1. ASSUME NEW x, Handled(n, x), NEW m \in Nodes
      PROVE  phase'[m] = "pending" => phase[m] = "pending" /\ rows'[m] \subseteq rows[m]
  BY <1>1 DEF Handled, TypeOK
<1>2. CASE AcceptPending(n) \/ ClaimAvailable(n)
  <2>1. PICK x \in rows[n] :
          /\ Write(x[1], [row[x[1]] EXCEPT !.status = "accepted", !.by = n,
                                           !.accepted = TRUE], {n})
          /\ Spawn(n, x[1], x[2]) /\ Handled(n, x)
          /\ phase[n] = "pending" \/ row[x[1]].status = "available"
    BY <1>2 DEF AcceptPending, ClaimAvailable, Claimable
  <2>2. x[1] \in Tasks
    BY DEF TypeOK
  <2>3. row'[x[1]].status = "accepted" /\ row'[x[1]].by = n
    BY <2>1, <2>2 DEF Write, TypeOK, RowType
  <2>4. PICK q \in Slots : /\ exec'[q].node = n /\ exec'[q].task = x[1]
                           /\ \A s \in Slots \ {q} : exec'[s] = exec[s]
    BY <2>1 DEF Spawn, TypeOK
  <2> SUFFICES ASSUME NEW m \in Nodes, NEW t \in Tasks, Entitled(m, t)', ~Entitled(m, t)
               PROVE  row[t].status = "available" /\ row'[t].status = "accepted"
                        /\ row'[t].by = m
    BY DEF RowsEntitle, RowEntitles
  <2>5. m = n /\ t = x[1]
    <3>1. ~(phase'[m] = "pending" /\ \E y \in rows'[m] : y[1] = t)
      BY <1>1, <2>1 DEF Entitled
    <3>2. PICK s \in Slots : exec'[s] # Idle /\ exec'[s].node = m /\ exec'[s].task = t
      BY <3>1 DEF Entitled
    <3>3. s = q
      BY <2>4, <3>2 DEF Entitled
    <3> QED BY <2>4, <3>2, <3>3
  <2>6. phase[n] # "pending"
    BY <2>5 DEF Entitled
  <2> QED BY <2>1, <2>3, <2>5, <2>6
<1>3. CASE Sweep(n) \/ DropStale(n)
  <2>1. exec' = exec /\ \A m \in Nodes : phase'[m] = "pending" =>
                          phase[m] = "pending" /\ rows'[m] \subseteq rows[m]
    BY <1>3 DEF Sweep, DropStale, TypeOK
  <2> QED BY <2>1, NobodyEntitled
<1>4. CASE \/ ReadRetry(n) \/ ResetStuck(n) \/ SkipAvailable(n) \/ TakeResult(n)
           \/ ActivateChild(n) \/ ReadParent(n) \/ ActivateDependent(n)
  <2>1. exec' = exec /\ ((\E x : Handled(n, x)) \/ UNCHANGED <<phase, rows>>)
    BY <1>4 DEF ReadRetry, ResetStuck, SkipAvailable, TakeResult, ActivateChild, ReadParent,
                ActivateDependent
  <2> QED BY <1>1, <2>1, NobodyEntitled
<1> QED BY <1>2, <1>3, <1>4 DEF Polling

LEMMA StartPollingEntitles ==
  ASSUME NEW n \in Nodes PROVE TypeOK /\ StartPolling(n) => RowsEntitle
<1> SUFFICES ASSUME TypeOK, StartPolling(n) PROVE RowsEntitle
  OBVIOUS
<1>0. exec' = exec
  BY DEF StartPolling, ProbePeers, ReadActive, SelectPending, SelectDependents, SelectStuck,
         SelectAvailable, SelectResults, ForgetResult, ForgetClaim, Select
<1>1. CASE SelectPending(n)
  <2> DEFINE P == {t \in Tasks : row[t].status = "pending" /\ row[t].to = n}
  <2>1. rows' = [rows EXCEPT ![n] = Fetched(P)] /\ phase' = [phase EXCEPT ![n] = "pending"]
    BY <1>1 DEF SelectPending, Select
  <2>2. \A x \in Fetched(P) : row[x[1]].status = "pending"
    BY DEF Fetched
  <2> HIDE DEF P
  <2>3. /\ rows'[n] = Fetched(P)
        /\ \A m \in Nodes \ {n} : rows'[m] = rows[m] /\ phase'[m] = phase[m]
    BY <2>1 DEF TypeOK
  <2> SUFFICES ASSUME NEW m \in Nodes, NEW t \in Tasks, Entitled(m, t)', ~Entitled(m, t)
               PROVE  row[t].status = "pending"
    BY DEF RowsEntitle, RowEntitles
  <2> QED BY <1>0, <2>2, <2>3 DEF Entitled
<1>2. CASE \/ ProbePeers(n) \/ ReadActive(n)
           \/ \E ph \in {"stuck", "available", "results", "deps"} : \E found : Select(n, ph, found)
  <2>1. \A m \in Nodes : phase'[m] = "pending" => phase[m] = "pending" /\ rows'[m] \subseteq rows[m]
    BY <1>2 DEF ProbePeers, ReadActive, Select, TypeOK
  <2> QED BY <1>0, <2>1, NobodyEntitled
<1>3. CASE UNCHANGED <<phase, rows>>
  BY <1>0, <1>3, NobodyEntitled
<1> QED BY <1>1, <1>2, <1>3
  DEF StartPolling, SelectDependents, SelectStuck, SelectAvailable, SelectResults, ForgetResult,
      ForgetClaim, loop

LEMMA ExecutingEntitles ==
  ASSUME NEW n \in Nodes PROVE TypeOK /\ Executing(n) => RowsEntitle
<1> SUFFICES ASSUME TypeOK, NEW s \in Slots,
                    \/ Enter(n, s) \/ MarkRunning(n, s) \/ Complete(n, s)
                    \/ CancelSiblings(n, s) \/ Fail(n, s) \/ Close(n, s)
                    \/ Raise(n, s) \/ LoseTask(n, s) \/ TryAgain(n, s) \/ GiveUp(n, s)
             PROVE  RowsEntitle
  BY DEF Executing
<1>1. UNCHANGED <<phase, rows>> /\ exec[s] # Idle /\ exec[s] \in FrameType
  BY DEF Enter, MarkRunning, Complete, CancelSiblings, Fail, Close, Raise, LoseTask, TryAgain,
         GiveUp, At, loop, TypeOK
<1>2. /\ \/ exec'[s] = Idle
         \/ exec'[s].node = exec[s].node /\ exec'[s].task = exec[s].task
      /\ \A q \in Slots \ {s} : exec'[q] = exec[q]
  <2>1. CASE Close(n, s) \/ GiveUp(n, s)
    BY <2>1 DEF Close, GiveUp, TypeOK
  <2>2. CASE TryAgain(n, s)
    BY <1>1, <2>2, MoveWip DEF TryAgain, Pcs, AtWork
  <2>3. CASE ~(Close(n, s) \/ GiveUp(n, s) \/ TryAgain(n, s))
    <3>1. PICK pc \in Pcs : Move(s, pc)
      BY <2>3 DEF Enter, MarkRunning, Complete, CancelSiblings, Fail, Raise, LoseTask, Pcs, AtWork
    <3> QED BY <1>1, <3>1, MoveWip DEF Move
  <2> QED BY <2>1, <2>2, <2>3
<1> QED BY <1>1, <1>2, NobodyEntitled

LEMMA NextEntitles == TypeOK /\ [Next]_vars => RowsEntitle
<1> SUFFICES ASSUME TypeOK, [Next]_vars PROVE RowsEntitle
  OBVIOUS
<1>1. CASE Delegating \/ Operating \/ Reviewing
  <2>1. UNCHANGED <<exec, phase, rows>>
    BY <1>1 DEF Delegating, Delegate, CheckParent, SetDependent, AddNote, Operating, CancelTask,
                ClaimByHand, ReassignTask, Reviewing, AcceptReview, RejectReview, SendReview,
                ApplyVerdict, loop
  <2> QED BY <2>1, NobodyEntitled
<1>2. ASSUME NEW n \in Nodes, Crash(n) PROVE RowsEntitle
  <2>1. /\ \A s \in Slots : exec'[s] \in {exec[s], Idle}
        /\ \A m \in Nodes : phase'[m] = "pending" =>
                              phase[m] = "pending" /\ rows'[m] \subseteq rows[m]
    BY <1>2 DEF Crash, TypeOK
  <2> QED BY <2>1, NobodyEntitled
<1>3. ASSUME (\E n \in Nodes : Restart(n)) \/ UNCHANGED vars PROVE RowsEntitle
  BY <1>3, NobodyEntitled DEF Restart, loop, vars
<1> QED BY <1>1, <1>2, <1>3, PollingEntitles, StartPollingEntitles, ExecutingEntitles DEF Next

\* No move makes a row absent, and only the call that posts a row begins its setup.
LEMMA PostedStep == BoardInv /\ TypeOK' /\ [Next]_vars => Posted'
<1> SUFFICES ASSUME BoardInv, TypeOK', [Next]_vars, NEW t \in Tasks, row'[t].status = "absent"
             PROVE  setup'[t] = "none" /\ row'[t].by = None
  BY DEF Posted
<1>1. RowMoves(t)
  BY NextMoves DEF RowsMove
<1>2. row[t].status = "absent" /\ row'[t].by = row[t].by
  <2>1. row[t].status \in Statuses
    BY DEF BoardInv, TypeOK, RowType
  <2>2. RowStays(t)
    BY <1>1 DEF RowMoves, RowPosted, RowClaimed, RowHandedOver, RowWithdrawn, RowTakenOver,
                RowOverwritten, Terminal
  <2>3. Stage(row[t].status) = "absent"
    BY <2>2, StageCases DEF RowStays, Statuses
  <2>4. row[t].status \notin {"pending", "available", "accepted", "running"} \cup Terminal
    BY <2>1, <2>3, StageCases
  <2> QED BY <2>1, <2>2, <2>4 DEF RowStays, Statuses, Terminal
<1>3. setup[t] = "none" /\ row[t].by = None
  BY <1>2 DEF BoardInv, Posted
<1>4. \A r : r = Fresh(t) => row'[t] # r
  BY DEF Fresh
<1>5. setup'[t] = setup[t]
  <2>1. CASE Delegating \/ Reviewing
    <3>1. PICK u \in Tasks : \/ Delegate(u) \/ CheckParent(u) \/ SetDependent(u) \/ AddNote(u)
                            \/ AcceptReview(u) \/ RejectReview(u) \/ SendReview(u)
                            \/ ApplyVerdict(u)
      BY <2>1 DEF Delegating, Reviewing
    <3>2. ~Delegate(t) /\ ~SendReview(t)
      BY <1>4 DEF Delegate, SendReview, Write, BoardInv, TypeOK
    <3>3. CASE u = t
      BY <1>3, <3>1, <3>2, <3>3 DEF CheckParent, SetDependent, AddNote, AcceptReview,
                                    RejectReview, ApplyVerdict
    <3>4. CASE u # t
      BY <3>1, <3>4 DEF Delegate, CheckParent, SetDependent, AddNote, AcceptReview,
                        RejectReview, SendReview, ApplyVerdict, BoardInv, TypeOK
    <3> QED BY <3>3, <3>4
  <2>2. CASE Operating
    BY <2>2 DEF Operating, CancelTask, ClaimByHand, ReassignTask
  <2>3. ASSUME NEW n \in Nodes, Polling(n) PROVE setup'[t] = setup[t]
    BY <2>3 DEF Polling, ReadRetry, ResetStuck, Sweep, DropStale, AcceptPending, ClaimAvailable,
                SkipAvailable, TakeResult, ActivateChild, ReadParent, ActivateDependent
  <2>4. ASSUME NEW n \in Nodes, StartPolling(n) PROVE setup'[t] = setup[t]
    BY <2>4 DEF StartPolling, ProbePeers, ReadActive, SelectPending, SelectDependents,
                SelectStuck, SelectAvailable, SelectResults, ForgetResult, ForgetClaim, Select
  <2>5. ASSUME NEW n \in Nodes, Executing(n) PROVE setup'[t] = setup[t]
    BY <2>5 DEF Executing, Enter, MarkRunning, Complete, CancelSiblings, Fail, Close, Raise,
                LoseTask, TryAgain, GiveUp
  <2>6. ASSUME NEW n \in Nodes, Crash(n) \/ Restart(n) PROVE setup'[t] = setup[t]
    BY <1>3, <2>6 DEF Crash, Restart
  <2>7. CASE UNCHANGED vars
    BY <2>7 DEF vars
  <2> QED BY <2>1, <2>2, <2>3, <2>4, <2>5, <2>6, <2>7 DEF Next
<1> QED BY <1>2, <1>3, <1>5

LEMMA AlwaysPosted == Spec => []Posted
<1>1. Init => Posted
  BY DEF Init, Posted
<1>2. TypeOK /\ TypeOK' /\ InsertedInv /\ Posted /\ [Next]_vars => Posted'
  BY PostedStep DEF BoardInv
<1> QED BY <1>1, <1>2, TypeCorrect, OnlyInsertedRows, PTL DEF Spec

\* The task board of all the nodes implements TaskBoard: rows are created once,
\* taken by one node from the board, ended, and otherwise only overwritten by
\* statements decided before; and whoever becomes assigned_agent by a write that
\* asks for nothing had taken the task from the board or selected it as pending.
THEOREM BoardIsKept == Spec => BoardKept
<1>1. Init => Shared!Init
  <2> SUFFICES ASSUME Init PROVE Shared!Init
    OBVIOUS
  <2>1. \A t \in Tasks : Stage(row[t].status) = "absent" /\ row[t].by = None
    BY StageCases DEF Init, Statuses
  <2>2. \A n \in Nodes, t \in Tasks : ~Entitled(n, t)
    BY DEF Init, Entitled
  <2> QED BY <2>1, <2>2 DEF Shared!Init
<1>2. TypeOK /\ TypeOK' /\ InsertedInv /\ Posted /\ [Next]_vars => Shared!Next
  BY NextMoves, NextEntitles, MoveRefines, EntitlesRefines
  DEF RowsMove, RowsEntitle, BoardInv, Shared!Next
<1> QED BY <1>1, <1>2, TypeCorrect, OnlyInsertedRows, AlwaysPosted, PTL
        DEF Spec, BoardKept, Shared!Spec
=============================================================================
