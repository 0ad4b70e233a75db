-------------------------- MODULE DependencyProofs --------------------------
(***************************************************************************)
(* DependentsWait of Delegation.tla, for any number of nodes, tasks and    *)
(* coroutines.  The statements that put a row on the board, or let it run, *)
(* name a task selected earlier; the invariant says that none of them is   *)
(* ever about a task that waits.                                           *)
(***************************************************************************)
EXTENDS DelegationProofs

\* The dependents addressed to nobody whose parent has not ended yet.
Waiters == {t \in Tasks : /\ parent[t] # None /\ ~offered[t]
                          /\ row[t].to = AnyAgent /\ parent[t] \notin ended}

\* What the row of a waiting task may say.
Quiet == {"absent", "pending", "cancelled", "expired"}

\* Rows: an ended one is known to have ended, a waiting one is quiet and no
\* review row is about it.
RowsWait ==
  /\ \A t \in Tasks : row[t].status \in Terminal => t \in ended
  /\ \A t \in Waiters : row[t].status \in Quiet /\ setup[t] # "activate"
  /\ \A r \in Tasks : setup[r] # "none" => reviews[r] \notin Waiters

\* Nothing in flight works on a waiting task, except a SELECT that only looks for
\* dependents or for entries of _active_tasks; results are of tasks that have ended.
FlightWaits ==
  /\ \A s \in Slots : exec[s] # Idle => exec[s].task \notin Waiters
  /\ \A n \in Nodes : \A x \in rows[n] :
       /\ phase[n] \in {"stuck", "pending", "available"} => x[1] \notin Waiters
       /\ phase[n] = "results" => x[1] \in ended /\ (x[2] = 1 => x[1] \notin Waiters)
  /\ \A n \in Nodes : hand[n] # None => hand[n][1] \notin Waiters
  /\ \A t \in review : t \notin Waiters

WaitInv == RowsWait /\ FlightWaits

\* Waiting is lost when the parent ends or the row is addressed, and never regained.
Shrinks == Waiters' \subseteq Waiters /\ ended \subseteq ended'

-----------------------------------------------------------------------------
(***************************************************************************)
(* The statements.                                                         *)
(***************************************************************************)

\* A write keeps the addressee, or names a node.
LEMMA WriteWaits ==
  ASSUME TypeOK, RowsWait, NEW t \in Tasks, NEW r, NEW who, Write(t, r, who),
         r.to = row[t].to \/ r.to # AnyAgent,
         t \in Waiters => r.status \in Quiet
  PROVE  /\ Shrinks
         /\ \A u \in Tasks : row'[u].status \in Terminal => u \in ended'
         /\ \A u \in Waiters' : row'[u].status \in Quiet
<1>1. /\ row' = [row EXCEPT ![t] = r] /\ row \in [Tasks -> RowType]
      /\ ended' = IF r.status \in Terminal THEN ended \cup {t} ELSE ended
  BY DEF Write, TypeOK
<1>2. row'[t] = r /\ \A u \in Tasks \ {t} : row'[u] = row[u]
  BY <1>1
<1>3. Shrinks
  BY <1>1, <1>2 DEF Shrinks, Waiters
<1> QED BY <1>1, <1>2, <1>3 DEF RowsWait, Shrinks, Waiters

\* Rows are ended with a status a waiting task may have.
LEMMA EndAllWaits ==
  ASSUME TypeOK, RowsWait, NEW S \in SUBSET Tasks, NEW s \in {"cancelled", "expired"}, NEW stamp,
         EndAll(S, s, stamp)
  PROVE  /\ Shrinks
         /\ \A u \in Tasks : row'[u].status \in Terminal => u \in ended'
         /\ \A u \in Waiters' : row'[u].status \in Quiet
<1>1. row \in [Tasks -> RowType]
  BY DEF TypeOK
<1>2. \A u \in Tasks : /\ row'[u].to = row[u].to
                       /\ row'[u].status = IF u \in S THEN s ELSE row[u].status
  BY <1>1 DEF EndAll, RowType
<1>3. ended' = ended \cup S
  BY DEF EndAll
<1>4. Shrinks
  BY <1>2, <1>3 DEF Shrinks, Waiters
<1> QED BY <1>2, <1>3, <1>4 DEF RowsWait, Shrinks, Quiet, Waiters

\* A table that stays.
LEMMA TableWaits ==
  ASSUME RowsWait, UNCHANGED table
  PROVE  /\ Shrinks
         /\ \A u \in Tasks : row'[u].status \in Terminal => u \in ended'
         /\ \A u \in Waiters' : row'[u].status \in Quiet
  BY DEF table, Shrinks, Waiters, RowsWait

\* Where the loop is about no row, or only looks.
Harmless == {"idle", "cleanup", "alone", "alive", "deps"}

\* What is in flight stays as it is, or only gets less.
LEMMA FlightKept ==
  ASSUME FlightWaits, Shrinks,
         \A s \in Slots : exec'[s] = Idle \/ (exec[s] # Idle /\ exec'[s].task = exec[s].task),
         \A n \in Nodes : \/ phase'[n] \in Harmless
                          \/ rows'[n] \subseteq rows[n] /\ phase'[n] = phase[n],
         \A n \in Nodes : hand'[n] = hand[n] \/ hand'[n] = None,
         review' \subseteq review
  PROVE  FlightWaits'
<1>1. \A s \in Slots : exec'[s] # Idle => exec'[s].task \notin Waiters'
  BY DEF FlightWaits, Shrinks
<1>2. \A n \in Nodes : \A x \in rows'[n] :
        /\ phase'[n] \in {"stuck", "pending", "available"} => x[1] \notin Waiters'
        /\ phase'[n] = "results" => x[1] \in ended' /\ (x[2] = 1 => x[1] \notin Waiters')
  BY DEF FlightWaits, Shrinks, Harmless
<1>3. \A n \in Nodes : hand'[n] # None => hand'[n][1] \notin Waiters'
  BY DEF FlightWaits, Shrinks
<1>4. \A t \in review' : t \notin Waiters'
  BY DEF FlightWaits, Shrinks
<1> QED BY <1>1, <1>2, <1>3, <1>4 DEF FlightWaits

LEMMA HandledShrinks ==
  ASSUME TypeOK, NEW n \in Nodes, NEW x, Handled(n, x)
  PROVE  \A m \in Nodes : \/ phase'[m] \in Harmless
                          \/ rows'[m] \subseteq rows[m] /\ phase'[m] = phase[m]
<1>1. /\ phase \in [Nodes -> Phases] /\ rows \in [Nodes -> SUBSET (Tasks \X Nat)]
      /\ rows' = [rows EXCEPT ![n] = @ \ {x}]
      /\ phase' = [phase EXCEPT ![n] = IF rows[n] = {x} THEN "idle" ELSE @]
  BY DEF Handled, TypeOK
<1> QED BY <1>1 DEF Harmless

LEMMA MoveKeeps ==
  ASSUME TypeOK, NEW s \in Slots, NEW pc, exec[s] # Idle, Move(s, pc)
  PROVE  \A q \in Slots : exec'[q] = Idle \/ (exec[q] # Idle /\ exec'[q].task = exec[q].task)
<1>1. exec \in [Slots -> FrameType \cup {Idle}] /\ exec[s] \in FrameType
  BY DEF TypeOK
<1>2. /\ exec'[s].task = exec[s].task
      /\ \A q \in Slots \ {s} : exec'[q] = exec[q]
  BY <1>1 DEF Move, FrameType
<1> QED BY <1>1, <1>2

\* The rest of the invariant, from the two parts of a step.
LEMMA WaitsFromParts ==
  ASSUME RowsWait, Shrinks,
         \A u \in Tasks : row'[u].status \in Terminal => u \in ended',
         \A u \in Waiters' : row'[u].status \in Quiet,
         \A u \in Waiters' : setup'[u] = "activate" => setup[u] = "activate",
         \A u \in Tasks : setup'[u] = "none" \/ setup[u] # "none" \/ reviews[u] \notin Waiters
  PROVE  RowsWait'
  BY DEF RowsWait, Shrinks

-----------------------------------------------------------------------------
(***************************************************************************)
(* The actions.                                                            *)
(***************************************************************************)

LEMMA ParentOf == ASSUME NEW t \in Tasks, parent[t] # None PROVE parent[t] \in Tasks
  BY TaskAssumption

LEMMA DelegatingWaits == TypeOK /\ InsertedInv /\ WaitInv /\ Delegating => WaitInv'
<1> SUFFICES ASSUME TypeOK, InsertedInv, RowsWait, FlightWaits, NEW t \in Tasks,
                    Delegate(t) \/ CheckParent(t) \/ SetDependent(t) \/ AddNote(t)
             PROVE  RowsWait' /\ FlightWaits'
  BY DEF Delegating, WaitInv
<1>0. UNCHANGED <<phase, rows, hand, exec, review>>
  BY DEF Delegate, CheckParent, SetDependent, AddNote, loop
<1>1. Shrinks => FlightWaits'
  BY <1>0, FlightKept
<1>2. setup \in [Tasks -> {"none", "check", "activate", "hold", "note", "done"}]
  BY DEF TypeOK
<1>7. \A u \in Tasks : setup'[u] = "none" \/ setup[u] # "none" \/ reviews[u] \notin Waiters
  BY <1>2, ConstantAssumption DEF Delegate, CheckParent, SetDependent, AddNote, Waiters
<1>3. CASE Delegate(t)
  <2>1. t \notin Known
    BY <1>3 DEF Delegate, Known
  <2>2. row[t].to = target[t]
    BY <2>1 DEF InsertedInv
  <2>3. Fresh(t).to = row[t].to /\ (t \in Waiters => Fresh(t).status \in Quiet)
    BY <2>2 DEF Fresh, Waiters, Quiet
  <2>4. \A u \in Tasks : setup'[u] = "activate" => setup[u] = "activate"
    BY <1>2, <1>3 DEF Delegate
  <2>5. Write(t, Fresh(t), {})
    BY <1>3 DEF Delegate
  <2> QED BY <1>1, <1>7, <2>3, <2>4, <2>5, WriteWaits, WaitsFromParts DEF Waiters
<1>4. CASE CheckParent(t)
  <2>1. setup'[t] = "activate" => t \notin Waiters
    BY <1>2, <1>4, ParentOf DEF CheckParent, Waiters, RowsWait, Terminal
  <2>2. \A u \in Tasks \ {t} : setup'[u] = setup[u]
    BY <1>2, <1>4 DEF CheckParent
  <2>3. UNCHANGED table
    BY <1>4 DEF CheckParent
  <2>4. Shrinks
    BY <2>3, TableWaits
  <2> QED BY <1>1, <1>7, <2>1, <2>2, <2>3, <2>4, TableWaits, WaitsFromParts DEF Waiters, Shrinks
<1>5. CASE SetDependent(t)
  <2> DEFINE s == IF setup[t] = "activate" THEN "available" ELSE "pending"
             r == [row[t] EXCEPT !.status = s]
  <2>1. row[t] \in RowType
    BY RowOf
  <2>2. r.to = row[t].to /\ r.status = s
    BY <2>1 DEF RowType
  <2>3. t \in Waiters => s \in Quiet
    BY DEF RowsWait, Quiet
  <2>4. Write(t, r, {})
    BY <1>5 DEF SetDependent
  <2>5. \A u \in Tasks : setup'[u] = "activate" => setup[u] = "activate"
    BY <1>2, <1>5 DEF SetDependent
  <2> HIDE DEF r, s
  <2> QED BY <1>1, <1>7, <2>2, <2>3, <2>4, <2>5, WriteWaits, WaitsFromParts DEF Waiters
<1>6. CASE AddNote(t)
  <2>1. row \in [Tasks -> RowType] /\ row' = [row EXCEPT ![t].noted = TRUE] /\ ended' = ended
    BY <1>6 DEF AddNote, TypeOK
  <2>2. \A u \in Tasks : row'[u].to = row[u].to /\ row'[u].status = row[u].status
    BY <2>1 DEF RowType
  <2>3. Waiters' = Waiters
    BY <2>1, <2>2 DEF Waiters
  <2>4. \A u \in Tasks : setup'[u] = "activate" => setup[u] = "activate"
    BY <1>2, <1>6 DEF AddNote
  <2> QED BY <1>1, <1>7, <2>1, <2>2, <2>3, <2>4 DEF RowsWait, Shrinks, Waiters
<1> QED BY <1>3, <1>4, <1>5, <1>6

LEMMA OperatingWaits == TypeOK /\ WaitInv /\ Operating => WaitInv'
<1> SUFFICES ASSUME TypeOK, RowsWait, FlightWaits, NEW t \in Tasks,
                    CancelTask(t) \/ \E n \in Nodes : ClaimByHand(n, t) \/ ReassignTask(t, n)
             PROVE  RowsWait' /\ FlightWaits'
  BY DEF Operating, WaitInv
<1>0. row[t] \in RowType /\ UNCHANGED <<setup, phase, rows, hand, exec, review>>
  BY RowOf DEF CancelTask, ClaimByHand, ReassignTask, loop
<1> DEFINE Fits == \E r, who : /\ Write(t, r, who)
                               /\ r.to = row[t].to \/ r.to # AnyAgent
                               /\ t \in Waiters => r.status \in Quiet
<1>1. Fits
  <2>1. CASE CancelTask(t)
    <3>1. /\ [row[t] EXCEPT !.status = "cancelled"].to = row[t].to
          /\ [row[t] EXCEPT !.status = "cancelled"].status \in Quiet
      BY <1>0 DEF RowType, Quiet
    <3> QED BY <2>1, <3>1 DEF CancelTask
  <2>2. ASSUME NEW n \in Nodes, ClaimByHand(n, t) PROVE Fits
    <3>1. t \notin Waiters
      BY <2>2 DEF ClaimByHand, Claimable, RowsWait, Quiet
    <3>2. [row[t] EXCEPT !.status = "accepted", !.by = n, !.accepted = TRUE].to = row[t].to
      BY <1>0 DEF RowType
    <3> QED BY <2>2, <3>1, <3>2 DEF ClaimByHand
  <2>3. ASSUME NEW n \in Nodes, ReassignTask(t, n) PROVE Fits
    <3>1. /\ [row[t] EXCEPT !.to = n, !.by = n].to = n
          /\ [row[t] EXCEPT !.to = n, !.by = n].status = row[t].status
      BY <1>0 DEF RowType
    <3>2. n # AnyAgent
      BY ConstantAssumption
    <3> QED BY <2>3, <3>1, <3>2 DEF ReassignTask, RowsWait
  <2> HIDE DEF Fits
  <2> QED BY <2>1, <2>2, <2>3
<1>2. PICK r, who : /\ Write(t, r, who)
                    /\ r.to = row[t].to \/ r.to # AnyAgent
                    /\ t \in Waiters => r.status \in Quiet
  BY <1>1
<1> HIDE DEF Fits
<1>3. Shrinks
  BY <1>2, WriteWaits
<1>4. RowsWait'
  BY <1>0, <1>2, <1>3, WriteWaits, WaitsFromParts DEF Waiters
<1> QED BY <1>0, <1>3, <1>4, FlightKept

LEMMA ReviewingWaits == TypeOK /\ InsertedInv /\ WaitInv /\ Reviewing => WaitInv'
<1> SUFFICES ASSUME TypeOK, InsertedInv, RowsWait, FlightWaits, NEW t \in Tasks,
                    AcceptReview(t) \/ RejectReview(t) \/ SendReview(t) \/ ApplyVerdict(t)
             PROVE  RowsWait' /\ FlightWaits'
  BY DEF Reviewing, WaitInv
<1>0. UNCHANGED <<phase, rows, hand, exec>> /\ review' \subseteq review
  BY DEF AcceptReview, RejectReview, SendReview, ApplyVerdict, Reviewed, loop
<1>1. CASE AcceptReview(t)
  <2>1. UNCHANGED table /\ UNCHANGED setup
    BY <1>1 DEF AcceptReview
  <2> QED BY <1>0, <2>1, TableWaits, WaitsFromParts, FlightKept
<1>2. CASE RejectReview(t)
  <2> DEFINE r == [row[t] EXCEPT !.status = "available"]
  <2>1. t \notin Waiters /\ Write(t, r, {}) /\ UNCHANGED setup
    BY <1>2 DEF RejectReview, Reviewed, FlightWaits
  <2>2. r.to = row[t].to
    BY RowOf DEF RowType
  <2> HIDE DEF r
  <2>3. Shrinks /\ RowsWait'
    BY <2>1, <2>2, WriteWaits, WaitsFromParts
  <2> QED BY <1>0, <2>3, FlightKept
<1>3. CASE SendReview(t)
  <2>1. /\ setup' = [setup EXCEPT ![t] = "note"] /\ setup[t] = "none"
        /\ reviews[t] # None /\ reviews[t] \in review /\ Write(t, Fresh(t), {})
    BY <1>3 DEF SendReview, Reviewed
  <2>2. t \notin Waiters /\ reviews[t] \notin Waiters
    BY <2>1, ReviewAssumption DEF Waiters, FlightWaits
  <2>3. Fresh(t).to = row[t].to
    BY <2>1 DEF Fresh, InsertedInv, Known
  <2>4. \A u \in Tasks \ {t} : setup'[u] = setup[u]
    BY <2>1 DEF TypeOK
  <2>5. Shrinks
    BY <2>1, <2>2, <2>3, WriteWaits
  <2>6. RowsWait'
    BY <2>1, <2>2, <2>3, <2>4, <2>5, WriteWaits, WaitsFromParts DEF Shrinks, Waiters
  <2> QED BY <1>0, <2>5, <2>6, FlightKept
<1>4. CASE ApplyVerdict(t)
  <2> DEFINE u == reviews[t]
             r == [row[u] EXCEPT !.status = "available", !.completed = TRUE]
  <2>1. t \in review /\ u \in Tasks /\ Write(u, r, {}) /\ UNCHANGED setup
    BY <1>4, ReviewAssumption DEF ApplyVerdict, Reviewed
  <2>2. u \notin Waiters
    BY <2>1 DEF InsertedInv, Known, RowsWait
  <2>3. r.to = row[u].to
    BY <2>1, RowOf DEF RowType
  <2> HIDE DEF r, u
  <2>4. Shrinks /\ RowsWait'
    BY <2>1, <2>2, <2>3, WriteWaits, WaitsFromParts
  <2> QED BY <1>0, <2>4, FlightKept
<1> QED BY <1>1, <1>2, <1>3, <1>4

LEMMA ExecutingWaits ==
  ASSUME NEW n \in Nodes PROVE TypeOK /\ WaitInv /\ Executing(n) => WaitInv'
<1> SUFFICES ASSUME TypeOK, RowsWait, FlightWaits, NEW s \in Slots,
                    \/ Enter(n, s) \/ MarkRunning(n, s) \/ Complete(n, s)
                    \/ CancelSiblings(n, s) \/ Fail(n, s) \/ Close(n, s)
                    \/ Raise(n, s) \/ LoseTask(n, s) \/ TryAgain(n, s) \/ GiveUp(n, s)
             PROVE  RowsWait' /\ FlightWaits'
  BY DEF Executing, WaitInv
<1> DEFINE t == exec[s].task
<1>0. UNCHANGED <<setup, phase, rows, hand, review>>
  BY DEF Enter, MarkRunning, Complete, CancelSiblings, Fail, Close, Raise, LoseTask, TryAgain,
         GiveUp, loop
<1>1. exec[s] # Idle
  BY DEF Enter, MarkRunning, Complete, CancelSiblings, Fail, Close, Raise, LoseTask, TryAgain,
         GiveUp, At
<1>2. t \in Tasks /\ t \notin Waiters /\ row[t] \in RowType
  BY <1>1, RowOf DEF TypeOK, FrameType, FlightWaits
<1>3. \A q \in Slots : exec'[q] = Idle \/ (exec[q] # Idle /\ exec'[q].task = exec[q].task)
  <2>1. CASE Close(n, s) \/ GiveUp(n, s)
    BY <2>1 DEF Close, GiveUp, TypeOK
  <2>2. CASE TryAgain(n, s)
    <3>1. exec'[s].task = t /\ \A q \in Slots \ {s} : exec'[q] = exec[q]
      BY <1>1, <2>2, MoveWip DEF TryAgain, Pcs, AtWork
    <3> QED BY <1>1, <3>1
  <2>3. CASE ~(Close(n, s) \/ GiveUp(n, s) \/ TryAgain(n, s))
    <3>1. \E pc : Move(s, pc)
      BY <2>3 DEF Enter, MarkRunning, Complete, CancelSiblings, Fail, Raise, LoseTask
    <3> QED BY <1>1, <3>1, MoveKeeps
  <2> QED BY <2>1, <2>2, <2>3
<1>4. Shrinks /\ RowsWait'
  <2>1. CASE \/ Enter(n, s) \/ Close(n, s) \/ Raise(n, s) \/ TryAgain(n, s) \/ GiveUp(n, s)
             \/ UNCHANGED table
    <3>1. UNCHANGED table
      BY <2>1 DEF Enter, Close, Raise, TryAgain, GiveUp
    <3> QED BY <1>0, <3>1, TableWaits, WaitsFromParts
  <2>2. CASE (MarkRunning(n, s) \/ Complete(n, s) \/ Fail(n, s) \/ LoseTask(n, s))
             /\ ~UNCHANGED table
    <3>1. PICK r, who : Write(t, r, who) /\ r.to = row[t].to
      <4>1. CASE MarkRunning(n, s)
        <5>1. [row[t] EXCEPT !.status = "running", !.by = n].to = row[t].to
          BY <1>2 DEF RowType
        <5> QED BY <4>1, <5>1 DEF MarkRunning
      <4>2. CASE Complete(n, s)
        <5>1. [row[t] EXCEPT !.status = "completed", !.completed = TRUE].to = row[t].to
          BY <1>2 DEF RowType
        <5> QED BY <4>2, <5>1 DEF Complete
      <4>3. CASE Fail(n, s)
        <5>1. Failed(t, exec[s].retry).to = row[t].to
          BY <1>2 DEF RowType, Failed, Retried
        <5> QED BY <4>3, <5>1 DEF Fail
      <4>4. CASE LoseTask(n, s)
        <5>1. [row[t] EXCEPT !.status = "failed", !.completed = TRUE].to = row[t].to
          BY <1>2 DEF RowType
        <5> QED BY <2>2, <4>4, <5>1 DEF LoseTask
      <4> QED BY <2>2, <4>1, <4>2, <4>3, <4>4
    <3> HIDE DEF t
    <3> QED BY <1>0, <1>2, <3>1, WriteWaits, WaitsFromParts
  <2>3. CASE CancelSiblings(n, s)
    <3>1. PICK S \in SUBSET Tasks : EndAll(S, "cancelled", TRUE)
      BY <2>3 DEF CancelSiblings
    <3> QED BY <1>0, <3>1, EndAllWaits, WaitsFromParts
  <2> QED BY <2>1, <2>2, <2>3
<1> QED BY <1>0, <1>3, <1>4, FlightKept

LEMMA SelectWaits ==
  ASSUME TypeOK, RowsWait, FlightWaits, NEW n \in Nodes, NEW ph, NEW found, Select(n, ph, found),
         \/ ph \in Harmless
         \/ ph \in {"stuck", "pending", "available"} /\ \A x \in found : x[1] \notin Waiters
         \/ ph = "results" /\ \A x \in found : x[1] \in ended /\ (x[2] = 1 => x[1] \notin Waiters)
  PROVE  RowsWait' /\ FlightWaits'
<1>1. /\ UNCHANGED table /\ UNCHANGED <<setup, exec, hand, review>>
      /\ phase \in [Nodes -> Phases] /\ rows \in [Nodes -> SUBSET (Tasks \X Nat)]
      /\ phase' = [phase EXCEPT ![n] = ph] /\ rows' = [rows EXCEPT ![n] = found]
  BY DEF Select, TypeOK, table
<1>2. Shrinks /\ RowsWait' /\ Waiters' = Waiters /\ ended' = ended
  BY <1>1, TableWaits, WaitsFromParts DEF Waiters, table
<1>3. \A m \in Nodes : \A x \in rows'[m] :
        /\ phase'[m] \in {"stuck", "pending", "available"} => x[1] \notin Waiters'
        /\ phase'[m] = "results" => x[1] \in ended' /\ (x[2] = 1 => x[1] \notin Waiters')
  BY <1>1, <1>2 DEF FlightWaits, Harmless
<1> QED BY <1>1, <1>2, <1>3 DEF FlightWaits

LEMMA StartPollingWaits ==
  ASSUME NEW n \in Nodes PROVE TypeOK /\ WaitInv /\ StartPolling(n) => WaitInv'
<1> SUFFICES ASSUME TypeOK, RowsWait, FlightWaits, StartPolling(n) PROVE RowsWait' /\ FlightWaits'
  BY DEF WaitInv
<1>0. row \in [Tasks -> RowType] /\ phase \in [Nodes -> Phases]
  BY DEF TypeOK
<1>1. CASE ProbePeers(n) \/ ReadActive(n) \/ \E t \in Tasks : ForgetResult(n, t) \/ ForgetClaim(n, Key(t))
  <2>1. UNCHANGED table /\ UNCHANGED <<setup, exec, hand, review>>
    BY <1>1 DEF ProbePeers, ReadActive, ForgetResult, ForgetClaim, loop
  <2>2. \A m \in Nodes : phase'[m] \in Harmless \/ (rows'[m] \subseteq rows[m] /\ phase'[m] = phase[m])
    <3>1. CASE ProbePeers(n)
      BY <1>0, <3>1 DEF ProbePeers, Harmless
    <3>2. CASE ReadActive(n)
      <4>1. \E S : rows' = [rows EXCEPT ![n] = S]
        BY <3>2 DEF ReadActive
      <4>2. phase' = [phase EXCEPT ![n] = "cleanup"]
        BY <3>2 DEF ReadActive
      <4>3. rows \in [Nodes -> SUBSET (Tasks \X Nat)]
        BY DEF TypeOK
      <4> QED BY <1>0, <4>1, <4>2, <4>3 DEF Harmless
    <3>3. CASE \E t \in Tasks : ForgetResult(n, t) \/ ForgetClaim(n, Key(t))
      BY <3>3 DEF ForgetResult, ForgetClaim, loop
    <3> QED BY <1>1, <3>1, <3>2, <3>3
  <2> QED BY <2>1, <2>2, TableWaits, WaitsFromParts, FlightKept
<1>2. CASE SelectPending(n)
  <2> DEFINE P == {t \in Tasks : row[t].status = "pending" /\ row[t].to = n}
  <2>1. \A x \in Fetched(P) : x[1] \notin Waiters
    BY ConstantAssumption DEF Fetched, Waiters
  <2>2. Select(n, "pending", Fetched(P))
    BY <1>2 DEF SelectPending
  <2> HIDE DEF P
  <2> QED BY <2>1, <2>2, SelectWaits
<1>3. CASE SelectDependents(n)
  <2>1. PICK found : Select(n, "deps", found)
    BY <1>3 DEF SelectDependents
  <2> QED BY <2>1, SelectWaits DEF Harmless
<1>4. ASSUME NEW S \in SUBSET Tasks, SelectStuck(n, S) PROVE RowsWait' /\ FlightWaits'
  <2>1. \A x \in Named(S) : x[1] \notin Waiters
    BY <1>4 DEF SelectStuck, Stuck, Named, RowsWait, Quiet
  <2> QED BY <1>4, <2>1, SelectWaits DEF SelectStuck
<1>5. ASSUME NEW S \in SUBSET Tasks, SelectAvailable(n, S) PROVE RowsWait' /\ FlightWaits'
  <2>1. \A x \in Fetched(S) : x[1] \notin Waiters
    BY <1>5 DEF SelectAvailable, Fetched, RowsWait, Quiet
  <2> QED BY <1>5, <2>1, SelectWaits DEF SelectAvailable
<1>6. ASSUME NEW S \in SUBSET Tasks, SelectResults(n, S) PROVE RowsWait' /\ FlightWaits'
  <2> DEFINE found == {<<t, IF row[t].status = "completed" THEN 1 ELSE 0>> : t \in S}
  <2>1. \A t \in S : t \in ended /\ (row[t].status = "completed" => t \notin Waiters)
    BY <1>6 DEF SelectResults, RowsWait, Terminal, Quiet
  <2>2. \A x \in found : x[1] \in ended /\ (x[2] = 1 => x[1] \notin Waiters)
    BY <2>1
  <2>3. Select(n, "results", found)
    BY <1>6 DEF SelectResults
  <2> HIDE DEF found
  <2> QED BY <2>2, <2>3, SelectWaits
<1> QED BY <1>1, <1>2, <1>3, <1>4, <1>5, <1>6 DEF StartPolling

\* The loop puts t, which does not wait, on the board or accepts it.
LEMMA PutWaits ==
  ASSUME TypeOK, RowsWait, NEW t \in Tasks, t \notin Waiters, NEW r, NEW who, Write(t, r, who),
         r.to = row[t].to, UNCHANGED setup
  PROVE  Shrinks /\ RowsWait'
  BY WriteWaits, WaitsFromParts

LEMMA PollingWaits ==
  ASSUME NEW n \in Nodes PROVE TypeOK /\ WaitInv /\ Polling(n) => WaitInv'
<1> SUFFICES ASSUME TypeOK, RowsWait, FlightWaits, Polling(n) PROVE RowsWait' /\ FlightWaits'
  BY DEF WaitInv
<1>0. /\ rows \in [Nodes -> SUBSET (Tasks \X Nat)] /\ phase \in [Nodes -> Phases]
      /\ hand \in [Nodes -> (Tasks \X Nat) \cup {None}] /\ row \in [Tasks -> RowType]
  BY DEF TypeOK
<1>00. hand[n] # None => hand[n][1] \in Tasks /\ hand[n][1] \notin Waiters
  BY HandType DEF FlightWaits
<1>1. CASE ReadRetry(n)
  <2>1. PICK x \in rows[n] : hand' = [hand EXCEPT ![n] = <<x[1], row[x[1]].retry>>]
    BY <1>1 DEF ReadRetry
  <2>2. UNCHANGED table /\ UNCHANGED <<setup, phase, rows, exec, review>> /\ phase[n] = "stuck"
    BY <1>1 DEF ReadRetry
  <2>3. x[1] \notin Waiters
    BY <2>2 DEF FlightWaits
  <2>4. Shrinks /\ RowsWait' /\ Waiters' = Waiters /\ ended' = ended
    BY <2>2, TableWaits, WaitsFromParts DEF table, Waiters
  <2>5. \A m \in Nodes : hand'[m] # None => hand'[m][1] \notin Waiters'
    BY <1>0, <2>1, <2>3, <2>4 DEF FlightWaits
  <2> QED BY <2>2, <2>4, <2>5 DEF FlightWaits
<1>2. CASE ResetStuck(n)
  <2> DEFINE t == hand[n][1]
             r == [row[t] EXCEPT !.status = "available", !.by = None, !.accepted = FALSE,
                                 !.retry = IF hand[n][2] < Budget(t) THEN hand[n][2] + 1 ELSE @]
  <2>1. Write(t, r, {}) /\ hand[n] # None
    BY <1>2 DEF ResetStuck
  <2>2. r.to = row[t].to
    BY <1>0, <1>00, <2>1 DEF RowType
  <2>3. \E x : Handled(n, x)
    BY <1>2 DEF ResetStuck
  <2>4. hand' = [hand EXCEPT ![n] = None] /\ UNCHANGED <<setup, exec, review>>
    BY <1>2 DEF ResetStuck
  <2> HIDE DEF r, t
  <2>5. Shrinks /\ RowsWait'
    BY <1>00, <2>1, <2>2, <2>4, PutWaits DEF t
  <2>6. \A m \in Nodes : hand'[m] = hand[m] \/ hand'[m] = None
    BY <1>0, <2>4
  <2> QED BY <2>3, <2>4, <2>5, <2>6, HandledShrinks, FlightKept
<1>3. CASE Sweep(n)
  <2>1. PICK S \in SUBSET Tasks : EndAll(S, "expired", FALSE)
    BY <1>3 DEF Sweep
  <2>2. UNCHANGED <<setup, rows, hand, exec, review>> /\ phase' = [phase EXCEPT ![n] = "idle"]
    BY <1>3 DEF Sweep
  <2>3. Shrinks /\ RowsWait'
    BY <2>1, <2>2, EndAllWaits, WaitsFromParts
  <2>4. \A m \in Nodes : phase'[m] \in Harmless \/ (rows'[m] \subseteq rows[m] /\ phase'[m] = phase[m])
    BY <1>0, <2>2 DEF Harmless
  <2> QED BY <2>2, <2>3, <2>4, FlightKept
<1>4. CASE DropStale(n)
  <2>1. UNCHANGED table /\ UNCHANGED <<setup, hand, exec, review>>
        /\ phase' = [phase EXCEPT ![n] = "idle"] /\ rows' = [rows EXCEPT ![n] = {}]
    BY <1>4 DEF DropStale
  <2>2. \A m \in Nodes : phase'[m] \in Harmless \/ (rows'[m] \subseteq rows[m] /\ phase'[m] = phase[m])
    BY <1>0, <2>1 DEF Harmless
  <2> QED BY <2>1, <2>2, TableWaits, WaitsFromParts, FlightKept
<1>5. CASE AcceptPending(n) \/ ClaimAvailable(n)
  <2>1. PICK x \in rows[n] : /\ Write(x[1], [row[x[1]] EXCEPT !.status = "accepted", !.by = n,
                                                              !.accepted = TRUE], {n})
                             /\ Spawn(n, x[1], x[2]) /\ Handled(n, x)
    BY <1>5 DEF AcceptPending, ClaimAvailable
  <2>2. phase[n] \in {"pending", "available"} /\ UNCHANGED <<setup, hand, review>>
    BY <1>5 DEF AcceptPending, ClaimAvailable, memory
  <2>3. x[1] \notin Waiters /\ x[1] \in Tasks
    BY <1>0, <2>2 DEF FlightWaits
  <2>4. [row[x[1]] EXCEPT !.status = "accepted", !.by = n, !.accepted = TRUE].to = row[x[1]].to
    BY <1>0, <2>3 DEF RowType
  <2>5. Shrinks /\ RowsWait'
    BY <2>1, <2>2, <2>3, <2>4, PutWaits
  <2>6. \A s \in Slots : exec'[s] # Idle => exec'[s].task \notin Waiters'
    <3>1. exec \in [Slots -> FrameType \cup {Idle}]
      BY DEF TypeOK
    <3>2. PICK q \in Slots : exec' = [exec EXCEPT ![q] = [node |-> n, task |-> x[1], pc |-> "queued",
                                                        retry |-> x[2], attempt |-> 1]]
      BY <2>1 DEF Spawn
    <3>3. \A s \in Slots : exec'[s] = exec[s] \/ exec'[s].task = x[1]
      BY <3>1, <3>2
    <3> QED BY <2>3, <2>5, <3>3 DEF FlightWaits, Shrinks
  <2>7. \A m \in Nodes : \/ phase'[m] \in Harmless
                         \/ rows'[m] \subseteq rows[m] /\ phase'[m] = phase[m]
    BY <2>1, HandledShrinks
  <2>8. \A m \in Nodes : \A y \in rows'[m] :
          /\ phase'[m] \in {"stuck", "pending", "available"} => y[1] \notin Waiters'
          /\ phase'[m] = "results" => y[1] \in ended' /\ (y[2] = 1 => y[1] \notin Waiters')
    BY <2>5, <2>7 DEF FlightWaits, Shrinks, Harmless
  <2> QED BY <2>2, <2>5, <2>6, <2>8 DEF FlightWaits, Shrinks
<1>6. CASE SkipAvailable(n)
  <2>1. \E x : Handled(n, x)
    BY <1>6 DEF SkipAvailable
  <2>2. UNCHANGED table /\ UNCHANGED <<setup, hand, exec, review>>
    BY <1>6 DEF SkipAvailable
  <2> QED BY <2>1, <2>2, HandledShrinks, TableWaits, WaitsFromParts, FlightKept
<1>7. CASE TakeResult(n)
  <2>1. PICK x \in rows[n] :
          IF x[2] = 1 /\ Children(n, x[1]) # {}
          THEN /\ \E c \in Children(n, x[1]) : hand' = [hand EXCEPT ![n] = <<c, x[2]>>]
               /\ UNCHANGED <<phase, rows, review>>
          ELSE StartReview(x) /\ Handled(n, x) /\ UNCHANGED hand
    BY <1>7 DEF TakeResult
  <2>2. UNCHANGED table /\ UNCHANGED <<setup, exec>> /\ phase[n] = "results"
    BY <1>7 DEF TakeResult
  <2>3. x[1] \in ended /\ (x[2] = 1 => x[1] \notin Waiters)
    BY <2>2 DEF FlightWaits
  <2>4. Shrinks /\ RowsWait' /\ Waiters' = Waiters /\ ended' = ended
    BY <2>2, TableWaits, WaitsFromParts DEF table, Waiters
  <2>5. CASE x[2] = 1 /\ Children(n, x[1]) # {}
    <3>1. PICK c \in Children(n, x[1]) : hand' = [hand EXCEPT ![n] = <<c, x[2]>>]
      BY <2>1, <2>5
    <3>2. c \notin Waiters
      BY <2>3 DEF Children, Waiters
    <3>3. \A m \in Nodes : hand'[m] # None => hand'[m][1] \notin Waiters'
      BY <1>0, <2>4, <3>1, <3>2 DEF FlightWaits
    <3>4. UNCHANGED <<phase, rows, review>>
      BY <2>1, <2>5
    <3> QED BY <2>2, <2>4, <3>3, <3>4 DEF FlightWaits
  <2>6. CASE ~(x[2] = 1 /\ Children(n, x[1]) # {})
    <3>1. \A t \in review' : t \notin Waiters'
      BY <2>1, <2>3, <2>4, <2>6 DEF StartReview, Verdict, Reviewable, FlightWaits
    <3>2. \A m \in Nodes : \/ phase'[m] \in Harmless
                           \/ rows'[m] \subseteq rows[m] /\ phase'[m] = phase[m]
      BY <2>1, <2>6, HandledShrinks
    <3>3. \A m \in Nodes : \A y \in rows'[m] :
            /\ phase'[m] \in {"stuck", "pending", "available"} => y[1] \notin Waiters'
            /\ phase'[m] = "results" => y[1] \in ended' /\ (y[2] = 1 => y[1] \notin Waiters')
      BY <2>4, <3>2 DEF FlightWaits, Harmless
    <3>4. UNCHANGED hand
      BY <2>1, <2>6
    <3> QED BY <2>2, <2>4, <3>1, <3>3, <3>4 DEF FlightWaits
  <2> QED BY <2>5, <2>6
<1>8. CASE ActivateChild(n) \/ ActivateDependent(n)
  <2> DEFINE t == hand[n][1]
             r == [row[t] EXCEPT !.status = "available", !.completed = TRUE]
  <2>1. Write(t, r, {}) /\ hand[n] # None
    BY <1>8 DEF ActivateChild, ActivateDependent
  <2>2. r.to = row[t].to
    BY <1>0, <1>00, <2>1 DEF RowType
  <2>3. \E x : Handled(n, x)
    BY <1>8 DEF ActivateChild, ActivateDependent
  <2>4. hand' = [hand EXCEPT ![n] = None] /\ UNCHANGED <<setup, exec>>
    BY <1>8 DEF ActivateChild, ActivateDependent
  <2>5. \A u \in review' : u \notin Waiters
    BY <1>8 DEF ActivateChild, ActivateDependent, StartReview, Verdict, Reviewable, FlightWaits
  <2> HIDE DEF r, t
  <2>6. Shrinks /\ RowsWait'
    BY <1>00, <2>1, <2>2, <2>4, PutWaits DEF t
  <2>7. \A m \in Nodes : hand'[m] = hand[m] \/ hand'[m] = None
    BY <1>0, <2>4
  <2>8. \A m \in Nodes : \/ phase'[m] \in Harmless
                         \/ rows'[m] \subseteq rows[m] /\ phase'[m] = phase[m]
    BY <2>3, HandledShrinks
  <2>9. \A m \in Nodes : \A y \in rows'[m] :
          /\ phase'[m] \in {"stuck", "pending", "available"} => y[1] \notin Waiters'
          /\ phase'[m] = "results" => y[1] \in ended' /\ (y[2] = 1 => y[1] \notin Waiters')
    BY <2>6, <2>8 DEF FlightWaits, Shrinks, Harmless
  <2> QED BY <2>4, <2>5, <2>6, <2>7, <2>9 DEF FlightWaits, Shrinks
<1>9. CASE ReadParent(n)
  <2>1. PICK x \in rows[n] : IF ParentEnded(x[1])
                             THEN hand' = [hand EXCEPT ![n] = x] /\ UNCHANGED <<phase, rows>>
                             ELSE Handled(n, x) /\ UNCHANGED hand
    BY <1>9 DEF ReadParent
  <2>2. UNCHANGED table /\ UNCHANGED <<setup, exec, review>>
    BY <1>9 DEF ReadParent
  <2>3. Shrinks /\ RowsWait' /\ Waiters' = Waiters /\ ended' = ended
    BY <2>2, TableWaits, WaitsFromParts DEF table, Waiters
  <2>4. CASE ParentEnded(x[1])
    <3>1. x[1] \notin Waiters
      BY <2>4, ParentOf DEF ParentEnded, Waiters, RowsWait
    <3>2. hand' = [hand EXCEPT ![n] = x] /\ UNCHANGED <<phase, rows>>
      BY <2>1, <2>4
    <3>3. \A m \in Nodes : hand'[m] # None => hand'[m][1] \notin Waiters'
      BY <1>0, <2>3, <3>1, <3>2 DEF FlightWaits
    <3> QED BY <2>2, <2>3, <3>2, <3>3 DEF FlightWaits
  <2>5. CASE ~ParentEnded(x[1])
    <3>1. Handled(n, x) /\ UNCHANGED hand
      BY <2>1, <2>5
    <3> QED BY <2>2, <2>3, <3>1, HandledShrinks, FlightKept
  <2> QED BY <2>4, <2>5
<1> QED BY <1>1, <1>2, <1>3, <1>4, <1>5, <1>6, <1>7, <1>8, <1>9 DEF Polling

LEMMA LifeWaits ==
  ASSUME NEW n \in Nodes PROVE TypeOK /\ WaitInv /\ (Crash(n) \/ Restart(n)) => WaitInv'
<1> SUFFICES ASSUME TypeOK, RowsWait, FlightWaits, Crash(n) \/ Restart(n)
             PROVE  RowsWait' /\ FlightWaits'
  BY DEF WaitInv
<1>1. CASE Crash(n)
  <2>1. UNCHANGED table
    BY <1>1 DEF Crash
  <2>2. \A t \in Tasks : setup'[t] = "activate" => setup[t] = "activate"
    BY <1>1 DEF Crash
  <2>3. phase \in [Nodes -> Phases] /\ rows \in [Nodes -> SUBSET (Tasks \X Nat)]
        /\ hand \in [Nodes -> (Tasks \X Nat) \cup {None}]
    BY DEF TypeOK
  <2>4. \A m \in Nodes : \/ phase'[m] \in Harmless
                         \/ rows'[m] \subseteq rows[m] /\ phase'[m] = phase[m]
    BY <1>1, <2>3 DEF Crash, Harmless
  <2>5. \A m \in Nodes : hand'[m] = hand[m] \/ hand'[m] = None
    BY <1>1, <2>3 DEF Crash
  <2>6. \A s \in Slots : exec'[s] = Idle \/ (exec[s] # Idle /\ exec'[s].task = exec[s].task)
    BY <1>1 DEF Crash
  <2>7. review' \subseteq review
    BY <1>1 DEF Crash
  <2>8. \A u \in Tasks : setup'[u] = "none" \/ setup[u] # "none" \/ reviews[u] \notin Waiters
    BY <1>1 DEF Crash, TypeOK
  <2>9. \A u \in Waiters' : setup'[u] = "activate" => setup[u] = "activate"
    BY <2>2 DEF Waiters
  <2>10. /\ Shrinks
         /\ \A u \in Tasks : row'[u].status \in Terminal => u \in ended'
         /\ \A u \in Waiters' : row'[u].status \in Quiet
    BY <2>1, TableWaits
  <2>11. RowsWait'
    BY <2>8, <2>9, <2>10, WaitsFromParts
  <2> QED BY <2>4, <2>5, <2>6, <2>7, <2>10, <2>11, FlightKept
<1>2. CASE Restart(n)
  <2>1. UNCHANGED table /\ UNCHANGED <<setup, phase, rows, hand, exec, review>>
    BY <1>2 DEF Restart, loop
  <2> QED BY <2>1, TableWaits, WaitsFromParts, FlightKept
<1> QED BY <1>1, <1>2

-----------------------------------------------------------------------------
(***************************************************************************)
(* The invariant and the property.                                         *)
(***************************************************************************)

LEMMA WaitStep == TypeOK /\ InsertedInv /\ WaitInv /\ [Next]_vars => WaitInv'
<1>1. TypeOK /\ WaitInv /\ UNCHANGED vars => WaitInv'
  <2> SUFFICES ASSUME TypeOK, RowsWait, FlightWaits, UNCHANGED vars PROVE RowsWait' /\ FlightWaits'
    BY DEF WaitInv
  <2>1. UNCHANGED table /\ UNCHANGED <<setup, phase, rows, hand, exec, review>>
    BY DEF vars, table
  <2> QED BY <2>1, TableWaits, WaitsFromParts, FlightKept
<1> QED BY <1>1, DelegatingWaits, OperatingWaits, ReviewingWaits, PollingWaits,
           StartPollingWaits, ExecutingWaits, LifeWaits DEF Next

\* Nothing in flight ever works on a dependent that waits for its parent.
THEOREM NothingRunsEarly == Spec => []WaitInv
<1>1. Init => WaitInv
  BY DEF Init, WaitInv, RowsWait, FlightWaits, Waiters, Quiet, Terminal
<1>2. TypeOK /\ InsertedInv /\ WaitInv /\ [Next]_vars => WaitInv'
  BY WaitStep
<1> QED BY <1>1, <1>2, TypeCorrect, OnlyInsertedRows, PTL DEF Spec

\* A dependent addressed to no node is not put on the board, claimed or run before
\* its parent has ended (delegate_task, _check_results, _check_dependencies).
THEOREM DependentsWaitForParents == Spec => []DependentsWait
<1>1. WaitInv => DependentsWait
  BY DEF WaitInv, RowsWait, Waiters, Quiet, DependentsWait
<1> QED BY <1>1, NothingRunsEarly, PTL
=============================================================================
