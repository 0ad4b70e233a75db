--------------------------- MODULE WorkflowProofs ---------------------------
(***************************************************************************)
(* Theorems about Workflow, for any tasks, graphs, fan-outs and retries.   *)
(***************************************************************************)
EXTENDS Workflow, FiniteSetTheorems, TLAPS

-----------------------------------------------------------------------------
\* Types.

\* A coroutine is a task and the number of the copy.
LEMMA CoroutineShape ==
  ASSUME WorkflowAssumption, NEW t \in Tasks, NEW i \in 1 .. copies[t]
  PROVE  <<t, i>> \in Coroutines
BY DEF Coroutines

\* The other way round.
LEMMA CoroutineParts ==
  ASSUME WorkflowAssumption, NEW c \in Coroutines
  PROVE  c[1] \in Tasks /\ c[2] \in 1 .. copies[c[1]] /\ c = <<c[1], c[2]>>
BY DEF Coroutines

\* Marking a task keeps the type of the statuses.
LEMMA MarkedType ==
  ASSUME TypeOK, NEW c, NEW s \in TaskStatus
  PROVE  Marked(c, s) \in [Tasks -> TaskStatus]
BY DEF Marked, TypeOK

\* What a coroutine does keeps the types.
LEMMA RunningType ==
  ASSUME WorkflowAssumption, TypeOK, NEW c \in Coroutines, Running(c)
  PROVE  TypeOK'
<1>0. /\ frame \in [Coroutines -> FrameType] /\ frame[c] \in FrameType
      /\ {"running", "retrying", "completed", "failed", "timeout"} \subseteq TaskStatus
  BY DEF TypeOK, TaskStatus
<1>1. CASE Delegate(c)
  <2>1. status' \in [Tasks -> TaskStatus]
    BY <1>0, <1>1, MarkedType DEF Delegate
  <2>2. frame' \in [Coroutines -> FrameType]
    BY <1>0, <1>1 DEF Delegate, FrameType
  <2>3. [of |-> c, attempt |-> frame[c].retry, status |-> "open"] \in Delegation
    BY <1>0 DEF FrameType, Delegation
  <2> QED BY <1>1, <2>1, <2>2, <2>3 DEF Delegate, TypeOK, graph
<1>2. ASSUME NEW s \in {"failed", "timeout"}, Errored(c, s)
      PROVE  frame' \in [Coroutines -> FrameType] /\ status' \in [Tasks -> TaskStatus]
  <2>1. frame[c].retry + 1 \in Nat /\ [frame[c] EXCEPT !.pc = "done"] \in FrameType
    BY <1>0 DEF FrameType
  <2>5. Retried(c) \in FrameType
    BY <1>0, <2>1 DEF Retried, FrameType
  <2>3. frame' = [frame EXCEPT ![c] = Retried(c)] \/ frame' = [frame EXCEPT ![c].pc = "done"]
    BY <1>2 DEF Errored
  <2>4. frame' \in [Coroutines -> FrameType]
    BY <1>0, <2>1, <2>3, <2>5
  <2>2. Marked(c, s) \in [Tasks -> TaskStatus]
    BY <1>0, MarkedType
  <2> QED BY <1>2, <2>2, <2>4 DEF Errored, TypeOK
<1>3. CASE CannotDelegate(c) \/ GiveUp(c)
  BY <1>2, <1>3 DEF CannotDelegate, GiveUp, TypeOK, graph
<1>4. CASE Collect(c)
  <2>1. frame' \in [Coroutines -> FrameType]
    BY <1>0, <1>4 DEF Collect, FrameType
  <2>2. status' \in [Tasks -> TaskStatus]
    BY <1>0, <1>4, MarkedType DEF Collect
  <2> QED BY <1>4, <2>1, <2>2 DEF Collect, TypeOK, graph
<1> QED BY <1>1, <1>3, <1>4 DEF Running

\* The steps of execute() and of operators keep the types.
LEMMA EngineType ==
  ASSUME WorkflowAssumption, TypeOK, Engine \/ TimeOut \/ Delete
  PROVE  TypeOK'
<1>0. /\ frame \in [Coroutines -> FrameType] /\ status \in [Tasks -> TaskStatus]
      /\ {"skipped", "failed", "timeout"} \subseteq TaskStatus
  BY DEF TypeOK, TaskStatus
<1>1. CASE Execute
  BY <1>1 DEF Execute, End, TypeOK, graph, Ended
<1>2. CASE OverBudget
  BY <1>2 DEF OverBudget, End, TypeOK, graph, Ended
<1>3. CASE StartLayer
  <2>1. layer' \in SUBSET Tasks
    BY <1>3 DEF StartLayer, Ready
  <2>2. status' \in [Tasks -> TaskStatus]
    BY <1>0, <1>3 DEF StartLayer
  <2>3. frame' \in [Coroutines -> FrameType]
    BY <1>0, <1>3 DEF StartLayer, FrameType
  <2> QED BY <1>3, <2>1, <2>2, <2>3 DEF StartLayer, TypeOK, graph
<1>4. CASE FinishLayer
  <2>1. FannedIn \in [Tasks -> TaskStatus]
    BY <1>0 DEF FannedIn
  <2> QED BY <1>4, <2>1 DEF FinishLayer, End, TypeOK, graph, Ended
<1>5. CASE Complete
  BY <1>5 DEF Complete, End, TypeOK, graph, Ended
<1>6. CASE TimeOut
  <2>1. status' \in [Tasks -> TaskStatus]
    BY <1>0, <1>6 DEF TimeOut
  <2>2. frame' \in [Coroutines -> FrameType]
    BY <1>0, <1>6 DEF TimeOut, FrameType
  <2> QED BY <1>6, <2>1, <2>2 DEF TimeOut, End, TypeOK, graph, Ended
<1>7. CASE Delete
  BY <1>7 DEF Delete, TypeOK, graph
<1> QED BY <1>1, <1>2, <1>3, <1>4, <1>5, <1>6, <1>7 DEF Engine

\* Every variable keeps its type in every behaviour.
THEOREM WorkflowTypes == Spec => []TypeOK
<1>1. Init => TypeOK
  <2> SUFFICES ASSUME Init PROVE TypeOK
    OBVIOUS
  <2>1. frame \in [Coroutines -> FrameType]
    BY DEF Init, FrameType
  <2>2. status \in [Tasks -> TaskStatus]
    BY DEF Init, TaskStatus
  <2> QED BY <2>1, <2>2 DEF Init, TypeOK
<1>2. TypeOK /\ [Next]_vars => TypeOK'
  <2> SUFFICES ASSUME TypeOK, [Next]_vars PROVE TypeOK'
    OBVIOUS
  <2>1. ASSUME NEW d \in board, DelegationMoves(d)
        PROVE  TypeOK'
    <3>1. \A s \in {"open", "completed", "failed", "cancelled"} : [d EXCEPT !.status = s] \in Delegation
      BY DEF TypeOK, Delegation
    <3> QED BY <2>1, <3>1 DEF DelegationMoves, TypeOK, graph
  <2>2. CASE UNCHANGED vars
    BY <2>2 DEF vars, graph, TypeOK
  <2> QED BY <2>1, <2>2, RunningType, EngineType, WorkflowAssumption DEF Next
<1> QED BY <1>1, <1>2, PTL DEF Spec

-----------------------------------------------------------------------------
\* The layers.

Begun(t) == \A i \in 1 .. copies[t] : frame[<<t, i>>].pc # "none"

\* What the layers promise: a layer comes after its dependencies, a task after its
\* layer is skipped or done, a task before it has not begun.
Layered ==
  /\ past \cap layer = {}
  /\ \A t \in past \cup layer : deps[t] \subseteq past
  /\ \A t \in Tasks \ (past \cup layer) : status[t] # "skipped" /\ Unstarted(t)
  /\ \A t \in past : status[t] = "skipped" \/ Returned(t)
  /\ wf \in {"pending", "running"} => \A t \in layer : status[t] = "skipped" \/ Begun(t)
  /\ \A t \in Tasks : status[t] = "skipped" => Unstarted(t)

\* What a coroutine does changes nothing but its own frame, which it does not undo,
\* and the status of its own task.
LEMMA RunningEffect ==
  ASSUME WorkflowAssumption, TypeOK, NEW c \in Coroutines, Running(c)
  PROVE  /\ frame[c].pc \in {"assign", "waiting"}
         /\ frame'[c].pc \in {"assign", "waiting", "done"}
         /\ \A b \in Coroutines : b # c => frame'[b] = frame[b]
         /\ \A t \in Tasks : t # c[1] => status'[t] = status[t]
         /\ status' # status => Sole(c[1])
         /\ status'[c[1]] # "skipped" \/ status' = status
         /\ frame'[c].pc = "done" /\ Sole(c[1]) => status'[c[1]] \in Ended
         /\ UNCHANGED <<deps, mode, budget, wf, past, layer>>
<1>0. /\ frame \in [Coroutines -> FrameType] /\ frame[c] \in FrameType
      /\ status \in [Tasks -> TaskStatus] /\ c[1] \in Tasks
  BY CoroutineParts DEF TypeOK
<1>1. ASSUME NEW s \in {"failed", "timeout"}, Errored(c, s)
      PROVE  /\ frame'[c].pc \in {"assign", "done"}
             /\ \A b \in Coroutines : b # c => frame'[b] = frame[b]
             /\ frame'[c].pc = "done" => status' = Marked(c, s)
             /\ status' = status \/ status' = Marked(c, s)
  <2>1. CASE frame[c].retry < maxRetries[c[1]]
    <3>1. Retried(c).pc = "assign"
      BY <1>0 DEF Retried, FrameType
    <3>2. frame' = [frame EXCEPT ![c] = Retried(c)] /\ status' = status
      BY <1>1, <2>1 DEF Errored
    <3> QED BY <1>0, <3>1, <3>2
  <2>2. CASE ~(frame[c].retry < maxRetries[c[1]])
    <3>1. frame' = [frame EXCEPT ![c].pc = "done"] /\ status' = Marked(c, s)
      BY <1>1, <2>2 DEF Errored
    <3> QED BY <1>0, <3>1 DEF FrameType
  <2> QED BY <2>1, <2>2
<1>2. ASSUME NEW s \in TaskStatus, status' = Marked(c, s)
      PROVE  /\ \A t \in Tasks : t # c[1] => status'[t] = status[t]
             /\ status' # status => Sole(c[1])
             /\ Sole(c[1]) => status'[c[1]] = s
  BY <1>0, <1>2 DEF Marked
<1>3. {"running", "retrying", "completed", "failed", "timeout"} \subseteq TaskStatus
  BY DEF TaskStatus
<1>4. CASE Delegate(c)
  <2>1. /\ frame' = [frame EXCEPT ![c].pc = "waiting"]
        /\ frame[c].pc = "assign"
        /\ status' = Marked(c, IF frame[c].retry = 0 THEN "running" ELSE "retrying")
        /\ UNCHANGED <<deps, mode, budget, wf, past, layer>>
    BY <1>4 DEF Delegate, graph
  <2>2. frame'[c].pc = "waiting" /\ \A b \in Coroutines : b # c => frame'[b] = frame[b]
    BY <1>0, <2>1 DEF FrameType
  <2> QED BY <1>0, <1>2, <1>3, <2>1, <2>2
<1>5. CASE CannotDelegate(c) \/ GiveUp(c)
  <2>1. /\ frame[c].pc \in {"assign", "waiting"}
        /\ Errored(c, "failed") \/ Errored(c, "timeout")
        /\ UNCHANGED <<deps, mode, budget, wf, past, layer>>
    BY <1>5 DEF CannotDelegate, GiveUp, graph
  <2> QED BY <1>0, <1>1, <1>2, <1>3, <2>1 DEF Ended
<1>6. CASE Collect(c)
  <2>1. /\ frame' = [frame EXCEPT ![c].pc = "done", ![c].ok = TRUE]
        /\ frame[c].pc = "waiting"
        /\ status' = Marked(c, "completed")
        /\ UNCHANGED <<deps, mode, budget, wf, past, layer>>
    BY <1>6 DEF Collect, Awaited, graph
  <2>2. frame'[c].pc = "done" /\ \A b \in Coroutines : b # c => frame'[b] = frame[b]
    BY <1>0, <2>1 DEF FrameType
  <2> QED BY <1>0, <1>2, <1>3, <2>1, <2>2 DEF Ended
<1> QED BY <1>4, <1>5, <1>6 DEF Running

\* A coroutine keeps the layers.
LEMMA RunningLayered ==
  ASSUME WorkflowAssumption, TypeOK, Layered, NEW c \in Coroutines, Running(c)
  PROVE  Layered'
<1>0. /\ c[1] \in Tasks /\ c[2] \in 1 .. copies[c[1]] /\ c = <<c[1], c[2]>>
      /\ past \subseteq Tasks /\ layer \subseteq Tasks
  BY CoroutineParts DEF TypeOK
<1>1. /\ frame[c].pc \in {"assign", "waiting"}
      /\ frame'[c].pc \in {"assign", "waiting", "done"}
      /\ \A b \in Coroutines : b # c => frame'[b] = frame[b]
      /\ \A t \in Tasks : t # c[1] => status'[t] = status[t]
      /\ status'[c[1]] # "skipped" \/ status' = status
      /\ UNCHANGED <<deps, wf, past, layer>>
  BY RunningEffect
<1>2. ~Unstarted(c[1]) /\ ~Returned(c[1]) /\ status[c[1]] # "skipped"
  <2>1. ~Unstarted(c[1]) /\ ~Returned(c[1])
    BY <1>0, <1>1 DEF Unstarted, Returned
  <2> QED BY <1>0, <2>1 DEF Layered
<1>3. c[1] \in layer /\ c[1] \notin past /\ status'[c[1]] # "skipped"
  BY <1>0, <1>1, <1>2 DEF Layered
<1>4. \A t \in Tasks : \A i \in 1 .. copies[t] :
         <<t, i>> # c => frame'[<<t, i>>] = frame[<<t, i>>]
  <2> SUFFICES ASSUME NEW t \in Tasks, NEW i \in 1 .. copies[t], <<t, i>> # c
               PROVE  frame'[<<t, i>>] = frame[<<t, i>>]
    OBVIOUS
  <2>1. <<t, i>> \in Coroutines
    BY CoroutineShape
  <2> QED BY <1>1, <2>1
<1>5. \A t \in Tasks \ {c[1]} :
         (Unstarted(t)' <=> Unstarted(t)) /\ (Returned(t)' <=> Returned(t)) /\ (Begun(t)' <=> Begun(t))
         /\ status'[t] = status[t]
  BY <1>0, <1>1, <1>4 DEF Unstarted, Returned, Begun
<1>6. Begun(c[1]) => Begun(c[1])'
  BY <1>0, <1>1, <1>4 DEF Begun
<1>7. /\ past' \cap layer' = {}
      /\ \A t \in past' \cup layer' : deps'[t] \subseteq past'
      /\ \A t \in Tasks \ (past' \cup layer') : status'[t] # "skipped" /\ Unstarted(t)'
  BY <1>0, <1>1, <1>3, <1>5 DEF Layered
<1>8. /\ \A t \in past' : status'[t] = "skipped" \/ Returned(t)'
      /\ wf' \in {"pending", "running"} => \A t \in layer' : status'[t] = "skipped" \/ Begun(t)'
  BY <1>0, <1>1, <1>2, <1>3, <1>5, <1>6 DEF Layered
<1>9. \A t \in Tasks : status'[t] = "skipped" => Unstarted(t)'
  BY <1>3, <1>5 DEF Layered
<1> QED BY <1>7, <1>8, <1>9 DEF Layered

\* So does a new layer.
LEMMA StartLayered ==
  ASSUME WorkflowAssumption, TypeOK, Layered, StartLayer
  PROVE  Layered'
<1>0. /\ layer = {} /\ wf = "running" /\ layer' = Ready /\ Ready \subseteq Tasks \ past
      /\ past \subseteq Tasks
      /\ frame \in [Coroutines -> FrameType] /\ status \in [Tasks -> TaskStatus]
      /\ UNCHANGED <<deps, wf, past>>
  BY DEF StartLayer, Between, Ready, TypeOK, graph
<1>1. PICK skipped \in SUBSET (conditional \cap Ready) :
        /\ status' = [t \in Tasks |-> IF t \in skipped THEN "skipped" ELSE status[t]]
        /\ frame' = [c \in Coroutines |->
                       IF c[1] \in Ready \ skipped
                       THEN [frame[c] EXCEPT !.pc = "assign"] ELSE frame[c]]
  BY DEF StartLayer
<1>2. \A t \in Tasks \ (Ready \ skipped) : \A i \in 1 .. copies[t] :
         frame'[<<t, i>>] = frame[<<t, i>>]
  <2> SUFFICES ASSUME NEW t \in Tasks \ (Ready \ skipped), NEW i \in 1 .. copies[t]
               PROVE  frame'[<<t, i>>] = frame[<<t, i>>]
    OBVIOUS
  <2>1. <<t, i>> \in Coroutines /\ <<t, i>>[1] = t
    BY CoroutineShape
  <2> QED BY <1>1, <2>1
<1>3. \A t \in Ready \ skipped : \A i \in 1 .. copies[t] : frame'[<<t, i>>].pc = "assign"
  <2> SUFFICES ASSUME NEW t \in Ready \ skipped, NEW i \in 1 .. copies[t]
               PROVE  frame'[<<t, i>>].pc = "assign"
    OBVIOUS
  <2>1. <<t, i>> \in Coroutines /\ frame[<<t, i>>] \in FrameType
    BY <1>0, CoroutineShape
  <2>2. frame'[<<t, i>>] = [frame[<<t, i>>] EXCEPT !.pc = "assign"]
    BY <1>1, <2>1
  <2> QED BY <2>1, <2>2 DEF FrameType
<1>4. \A t \in Tasks \ (Ready \ skipped) : (Unstarted(t)' <=> Unstarted(t)) /\ (Returned(t)' <=> Returned(t))
  BY <1>2 DEF Unstarted, Returned
<1>5. \A t \in Ready \ skipped : Begun(t)'
  BY <1>3 DEF Begun
<1>6. /\ \A t \in skipped : status'[t] = "skipped"
      /\ \A t \in Tasks \ skipped : status'[t] = status[t]
      /\ skipped \subseteq Ready
  BY <1>0, <1>1
<1>7. \A t \in Ready : Unstarted(t) /\ status[t] # "skipped" /\ deps[t] \subseteq past
  BY <1>0 DEF Layered, Ready
<1>8. /\ past' \cap layer' = {}
      /\ \A t \in past' \cup layer' : deps'[t] \subseteq past'
      /\ \A t \in Tasks \ (past' \cup layer') : status'[t] # "skipped" /\ Unstarted(t)'
  BY <1>0, <1>4, <1>6, <1>7 DEF Layered
<1>9. /\ \A t \in past' : status'[t] = "skipped" \/ Returned(t)'
      /\ \A t \in layer' : status'[t] = "skipped" \/ Begun(t)'
  BY <1>0, <1>4, <1>5, <1>6 DEF Layered
<1>10. \A t \in Tasks : status'[t] = "skipped" => Unstarted(t)'
  BY <1>0, <1>4, <1>6, <1>7 DEF Layered
<1> QED BY <1>0, <1>8, <1>9, <1>10 DEF Layered

\* And the end of one, with its fan-in.
LEMMA FinishLayered ==
  ASSUME WorkflowAssumption, TypeOK, Layered, FinishLayer
  PROVE  Layered'
<1>0. /\ wf = "running" /\ past' = past \cup layer /\ layer' = {}
      /\ \A c \in Gathered : frame[c].pc = "done"
      /\ status' = FannedIn /\ UNCHANGED <<deps, frame>>
      /\ past \subseteq Tasks /\ layer \subseteq Tasks /\ status \in [Tasks -> TaskStatus]
  BY DEF FinishLayer, graph, TypeOK
<1>1. \A t \in Tasks : (Unstarted(t)' <=> Unstarted(t)) /\ (Returned(t)' <=> Returned(t))
  BY <1>0 DEF Unstarted, Returned
<1>2. \A t \in Tasks : status'[t] = status[t] \/ (t \in Ran /\ status'[t] = "failed")
  BY <1>0 DEF FannedIn
<1>3. \A t \in Ran : t \in layer /\ ~Unstarted(t)
  <2> SUFFICES ASSUME NEW t \in Ran PROVE t \in layer /\ ~Unstarted(t)
    OBVIOUS
  <2>1. PICK c \in Gathered : c[1] = t
    BY DEF Ran
  <2>2. c \in Coroutines /\ frame[c].pc # "none"
    BY DEF Gathered
  <2> QED BY <2>1, <2>2, CoroutineParts DEF Ran, Unstarted
<1>4. \A t \in layer : status[t] = "skipped" \/ Returned(t)
  <2> SUFFICES ASSUME NEW t \in layer, status[t] # "skipped", NEW i \in 1 .. copies[t]
               PROVE  frame[<<t, i>>].pc = "done"
    BY DEF Returned
  <2>1. frame[<<t, i>>].pc # "none"
    BY <1>0 DEF Layered, Begun
  <2>2. <<t, i>> \in Gathered
    BY <1>0, <2>1, CoroutineShape DEF Gathered
  <2> QED BY <1>0, <2>2
<1>5. \A t \in Ran : status[t] # "skipped"
  BY <1>0, <1>3 DEF Layered
<1>6. \A t \in Tasks : status'[t] = "skipped" <=> status[t] = "skipped"
  BY <1>2, <1>5
<1>7. /\ past' \cap layer' = {}
      /\ \A t \in past' \cup layer' : deps'[t] \subseteq past'
      /\ \A t \in Tasks \ (past' \cup layer') : status'[t] # "skipped" /\ Unstarted(t)'
  BY <1>0, <1>1, <1>6 DEF Layered
<1>8. /\ \A t \in past' : status'[t] = "skipped" \/ Returned(t)'
      /\ \A t \in Tasks : status'[t] = "skipped" => Unstarted(t)'
  BY <1>0, <1>1, <1>4, <1>6 DEF Layered
<1> QED BY <1>0, <1>7, <1>8 DEF Layered

\* The workflow's timeout marks its layer, and makes none of it skipped.
LEMMA TimeOutLayered ==
  ASSUME WorkflowAssumption, TypeOK, Layered, TimeOut
  PROVE  Layered'
<1>0. /\ wf' = "timeout" /\ UNCHANGED <<deps, past, layer>>
      /\ past \subseteq Tasks /\ layer \subseteq Tasks
      /\ frame \in [Coroutines -> FrameType]
  BY DEF TimeOut, End, graph, TypeOK
<1>1. \A c \in Coroutines : frame'[c] = frame[c] \/ frame[c].pc \in {"assign", "waiting"}
  BY DEF TimeOut
<1>2. \A t \in Tasks : (Unstarted(t) => Unstarted(t)') /\ (Returned(t) => Returned(t)')
  BY <1>1, CoroutineShape DEF Unstarted, Returned
<1>3. \A t \in Tasks :
         \/ status'[t] = status[t]
         \/ status'[t] = "timeout" /\ (t \in layer \/ status[t] = "pending")
  <2>1. status' = [t \in Tasks |->
                     IF \/ t \in layer /\ status[t] \notin {"completed", "failed"}
                        \/ status[t] = "pending"
                     THEN "timeout" ELSE status[t]]
    BY DEF TimeOut
  <2> SUFFICES ASSUME NEW t \in Tasks
               PROVE  \/ status'[t] = status[t]
                      \/ status'[t] = "timeout" /\ (t \in layer \/ status[t] = "pending")
    OBVIOUS
  <2>2. CASE t \in layer \/ status[t] = "pending"
    BY <2>1, <2>2
  <2>3. CASE t \notin layer /\ status[t] # "pending"
    BY <2>1, <2>3
  <2> QED BY <2>2, <2>3
<1>4. /\ \A t \in Tasks \ (past' \cup layer') : status'[t] # "skipped" /\ Unstarted(t)'
      /\ \A t \in past' : status'[t] = "skipped" \/ Returned(t)'
  BY <1>0, <1>2, <1>3 DEF Layered
<1>5. \A t \in Tasks : status'[t] = "skipped" => Unstarted(t)'
  BY <1>2, <1>3 DEF Layered
<1> QED BY <1>0, <1>4, <1>5 DEF Layered

\* Layered is inductive.
LEMMA LayeredHolds == Spec => []Layered
<1>1. Init => Layered
  <2> SUFFICES ASSUME Init PROVE Layered
    OBVIOUS
  <2>1. \A t \in Tasks : Unstarted(t)
    BY WorkflowAssumption, CoroutineShape DEF Init, Unstarted
  <2> QED BY <2>1 DEF Init, Layered
<1>2. TypeOK /\ Layered /\ [Next]_vars => Layered'
  <2> SUFFICES ASSUME TypeOK, Layered, [Next]_vars PROVE Layered'
    OBVIOUS
  <2> USE WorkflowAssumption
  <2>1. CASE Execute \/ OverBudget \/ Complete
    <3>1. UNCHANGED <<deps, past, layer, status, frame>> /\ (wf' = "running" => wf = "pending")
          /\ wf' # "pending"
      BY <2>1 DEF Execute, OverBudget, Complete, End, graph
    <3> QED BY <3>1 DEF Layered, Unstarted, Returned, Begun
  <2>2. ASSUME UNCHANGED <<deps, past, layer, status, frame, wf>>
        PROVE  Layered'
    BY <2>2 DEF Layered, Unstarted, Returned, Begun
  <2>3. CASE Delete
    BY <2>2, <2>3 DEF Delete, graph
  <2>4. ASSUME NEW d \in board, DelegationMoves(d)
        PROVE  Layered'
    BY <2>2, <2>4 DEF DelegationMoves, graph
  <2>5. CASE UNCHANGED vars
    BY <2>2, <2>5 DEF vars
  <2> QED BY <2>1, <2>3, <2>4, <2>5, RunningLayered, StartLayered, FinishLayered,
             TimeOutLayered DEF Next, Engine
<1> QED BY <1>1, <1>2, WorkflowTypes, PTL DEF Spec

\* DependenciesFirst of the model: a task is begun or skipped only when each of its
\* dependencies was skipped or all its coroutines have returned, for every graph,
\* fan-out and number of retries (topological_sort, _execute_layer).
THEOREM DependenciesRespected == Spec => []DependenciesFirst
<1>1. TypeOK /\ Layered => DependenciesFirst
  <2> SUFFICES ASSUME TypeOK, Layered, NEW t \in Tasks,
                      status[t] = "skipped" \/ ~Unstarted(t), NEW u \in deps[t]
               PROVE  status[u] = "skipped" \/ Returned(u)
    BY DEF DependenciesFirst
  <2>1. t \in past \cup layer
    BY DEF Layered
  <2>2. u \in past
    BY <2>1 DEF Layered
  <2> QED BY <2>2 DEF Layered
<1> QED BY <1>1, LayeredHolds, WorkflowTypes, PTL

-----------------------------------------------------------------------------
\* The verdict.

\* What the statuses say while the workflow has not been given up.
Judgement ==
  /\ wf \in {"pending", "running", "completed"} =>
       \A t \in Tasks : Sole(t) /\ Returned(t) => status[t] \in Ended
  /\ \A t \in Tasks : ~Sole(t) => status[t] \in {"pending", "skipped", "failed", "timeout"}
  /\ wf \in {"running", "completed"} /\ mode = "all" => \A t \in past : status[t] # "failed"
  /\ wf = "pending" => past = {}
  /\ wf = "completed" => past = Tasks

\* Every step keeps it.
LEMMA JudgementStep ==
  ASSUME WorkflowAssumption, TypeOK, Layered, Judgement, [Next]_vars
  PROVE  Judgement'
<1>0. /\ frame \in [Coroutines -> FrameType] /\ status \in [Tasks -> TaskStatus]
      /\ past \subseteq Tasks /\ layer \subseteq Tasks
  BY DEF TypeOK
<1>1. ASSUME NEW c \in Coroutines, Running(c)
      PROVE  Judgement'
  <2>0. c[1] \in Tasks /\ c[2] \in 1 .. copies[c[1]] /\ c = <<c[1], c[2]>>
    BY CoroutineParts
  <2>1. /\ frame[c].pc \in {"assign", "waiting"}
        /\ \A b \in Coroutines : b # c => frame'[b] = frame[b]
        /\ \A t \in Tasks : t # c[1] => status'[t] = status[t]
        /\ status' # status => Sole(c[1])
        /\ frame'[c].pc = "done" /\ Sole(c[1]) => status'[c[1]] \in Ended
        /\ UNCHANGED <<mode, wf, past>>
    BY <1>1, RunningEffect
  <2>2. c[1] \notin past
    <3>1. ~Unstarted(c[1]) /\ ~Returned(c[1])
      BY <2>0, <2>1 DEF Unstarted, Returned
    <3> QED BY <2>0, <3>1 DEF Layered
  <2>3. \A t \in Tasks \ {c[1]} : Returned(t)' => Returned(t)
    <3>1. ASSUME NEW t \in Tasks \ {c[1]}, NEW i \in 1 .. copies[t]
          PROVE  frame'[<<t, i>>] = frame[<<t, i>>]
      <4>1. <<t, i>> \in Coroutines /\ <<t, i>> # c
        BY CoroutineShape
      <4> QED BY <2>1, <4>1
    <3> QED BY <3>1 DEF Returned
  <2>4. Returned(c[1])' => frame'[c].pc = "done"
    BY <2>0 DEF Returned
  <2>5. wf' \in {"pending", "running", "completed"} =>
          \A t \in Tasks : Sole(t) /\ Returned(t)' => status'[t] \in Ended
    BY <2>1, <2>3, <2>4 DEF Judgement
  <2>6. /\ \A t \in Tasks : ~Sole(t) => status'[t] \in {"pending", "skipped", "failed", "timeout"}
        /\ wf' \in {"running", "completed"} /\ mode' = "all" => \A t \in past' : status'[t] # "failed"
        /\ wf' = "pending" => past' = {}
        /\ wf' = "completed" => past' = Tasks
    BY <1>0, <2>1, <2>2 DEF Judgement
  <2> QED BY <2>5, <2>6 DEF Judgement, Sole
<1>2. CASE StartLayer
  <2>1. /\ layer = {} /\ wf = "running" /\ Ready \subseteq Tasks \ past
        /\ UNCHANGED <<mode, wf, past>>
    BY <1>2 DEF StartLayer, Between, Ready, graph
  <2>2. PICK skipped \in SUBSET (conditional \cap Ready) :
          /\ status' = [t \in Tasks |-> IF t \in skipped THEN "skipped" ELSE status[t]]
          /\ frame' = [c \in Coroutines |->
                         IF c[1] \in Ready \ skipped
                         THEN [frame[c] EXCEPT !.pc = "assign"] ELSE frame[c]]
    BY <1>2 DEF StartLayer
  <2>3. \A t \in Tasks : Returned(t)' => Returned(t) /\ t \notin skipped
    <3> SUFFICES ASSUME NEW t \in Tasks, Returned(t)' PROVE Returned(t) /\ t \notin skipped
      OBVIOUS
    <3>1. ASSUME NEW i \in 1 .. copies[t]
          PROVE  frame[<<t, i>>].pc = "done" /\ t \notin Ready \ skipped
      <4>1. /\ <<t, i>> \in Coroutines /\ <<t, i>>[1] = t /\ frame'[<<t, i>>].pc = "done"
            /\ frame[<<t, i>>] \in FrameType
        BY <1>0, CoroutineShape DEF Returned
      <4>2. CASE t \in Ready \ skipped
        <5>1. frame'[<<t, i>>] = [frame[<<t, i>>] EXCEPT !.pc = "assign"]
          BY <2>2, <4>1, <4>2
        <5> QED BY <4>1, <5>1 DEF FrameType
      <4>3. CASE t \notin Ready \ skipped
        BY <2>2, <4>1, <4>3
      <4> QED BY <4>2, <4>3
    <3>2. 1 \in 1 .. copies[t]
      BY DEF WorkflowAssumption
    <3>3. Returned(t)
      BY <3>1 DEF Returned
    <3>4. t \in Ready => Unstarted(t)
      BY <2>1 DEF Layered
    <3> QED BY <3>1, <3>2, <3>3, <3>4 DEF Returned, Unstarted
  <2>4. \A t \in Tasks : status'[t] = IF t \in skipped THEN "skipped" ELSE status[t]
    BY <2>2
  <2> QED BY <1>0, <2>1, <2>3, <2>4 DEF Judgement, Sole
<1>3. CASE FinishLayer
  <2>1. /\ wf = "running" /\ past' = past \cup layer /\ status' = FannedIn
        /\ UNCHANGED <<mode, frame>>
        /\ IF Aborts THEN wf' = "failed" ELSE wf' = wf
    BY <1>3 DEF FinishLayer, End, graph
  <2>2. \A t \in Tasks : status'[t] = status[t] \/ (mode = "any" /\ status'[t] = "failed")
    BY <1>0, <2>1 DEF FannedIn
  <2>3. wf' = "running" /\ mode = "all" => \A t \in layer : status[t] # "failed"
    BY <2>1 DEF Aborts
  <2>4. \A t \in Tasks : Returned(t)' <=> Returned(t)
    BY <2>1 DEF Returned
  <2> QED BY <1>0, <2>1, <2>2, <2>3, <2>4 DEF Judgement, Sole, Ended
<1>4. CASE TimeOut
  <2>1. /\ wf' = "timeout"
        /\ \A t \in Tasks : status'[t] = status[t] \/ status'[t] = "timeout"
    BY <1>4 DEF TimeOut, End
  <2> QED BY <2>1 DEF Judgement, Sole
<1>5. CASE Execute \/ OverBudget \/ Complete
  <2>1. /\ UNCHANGED <<mode, past, status, frame>>
        /\ \/ wf' \in {"failed", "timeout"}
           \/ wf = "pending" /\ wf' = "running"
           \/ wf = "running" /\ wf' = "completed" /\ past = Tasks
    BY <1>5 DEF Execute, OverBudget, Complete, End, graph
  <2>2. \A t \in Tasks : Returned(t)' <=> Returned(t)
    BY <2>1 DEF Returned
  <2> QED BY <2>1, <2>2 DEF Judgement, Sole
<1>6. ASSUME UNCHANGED <<mode, past, status, frame, wf>>
      PROVE  Judgement'
  BY <1>6 DEF Judgement, Sole, Returned
<1>7. CASE Delete \/ UNCHANGED vars
  BY <1>6, <1>7 DEF Delete, graph, vars
<1>8. ASSUME NEW d \in board, DelegationMoves(d)
      PROVE  Judgement'
  BY <1>6, <1>8 DEF DelegationMoves, graph
<1> QED BY <1>1, <1>2, <1>3, <1>4, <1>5, <1>7, <1>8 DEF Next, Engine

\* Judgement is inductive.
LEMMA JudgementHolds == Spec => []Judgement
<1>1. Init => Judgement
  <2> SUFFICES ASSUME Init PROVE Judgement
    OBVIOUS
  <2>1. ASSUME NEW t \in Tasks
        PROVE  ~Returned(t)
    <3>1. 1 \in 1 .. copies[t]
      BY WorkflowAssumption DEF WorkflowAssumption
    <3>2. <<t, 1>> \in Coroutines
      BY <3>1, WorkflowAssumption, CoroutineShape
    <3>3. frame[<<t, 1>>].pc = "none"
      BY <3>2 DEF Init
    <3> QED BY <3>1, <3>3 DEF Returned
  <2> QED BY <2>1 DEF Init, Judgement
<1>2. TypeOK /\ Layered /\ Judgement /\ [Next]_vars => Judgement'
  BY JudgementStep, WorkflowAssumption
<1> QED BY <1>1, <1>2, LayeredHolds, WorkflowTypes, PTL DEF Spec

\* VerdictHonest of the model: a workflow that says completed has visited all of
\* its tasks, and in mode ALL none of them failed (execute, _execute_layer).
THEOREM VerdictsHonest == Spec => []VerdictHonest
<1>1. TypeOK /\ Layered /\ Judgement => VerdictHonest
  <2> SUFFICES ASSUME TypeOK, Layered, Judgement, wf = "completed", NEW t \in Tasks
               PROVE  /\ status[t] \in {"completed", "skipped", "timeout"}
                                 \cup (IF mode = "all" THEN {} ELSE {"failed"})
                                 \cup (IF Sole(t) THEN {} ELSE {"pending"})
                      /\ status[t] = "skipped" \/ Returned(t)
    BY DEF VerdictHonest
  <2>1. status[t] = "skipped" \/ Returned(t)
    BY DEF Layered, Judgement
  <2>2. mode = "all" => status[t] # "failed"
    BY DEF Judgement
  <2>3. Sole(t) /\ Returned(t) => status[t] \in Ended
    BY DEF Judgement
  <2>4. ~Sole(t) => status[t] \in {"pending", "skipped", "failed", "timeout"}
    BY DEF Judgement
  <2> QED BY <2>1, <2>2, <2>3, <2>4 DEF Ended
<1> QED BY <1>1, JudgementHolds, LayeredHolds, WorkflowTypes, PTL

\* No coroutine starts once the workflow is told to stop.
LEMMA StopsStep ==
  ASSUME WorkflowAssumption, TypeOK, Judgement, [Next]_vars,
         \/ mode = "all" /\ \E t \in past : status[t] = "failed"
         \/ ~(Spent <= budget),
         NEW c \in Coroutines, frame[c].pc = "none"
  PROVE  frame'[c].pc = "none"
<1>0. frame \in [Coroutines -> FrameType]
  BY DEF TypeOK
<1>1. ASSUME NEW b \in Coroutines, Running(b)
      PROVE  frame'[c].pc = "none"
  BY <1>1, RunningEffect
<1>2. ~StartLayer
  <2> SUFFICES ASSUME StartLayer PROVE FALSE
    OBVIOUS
  <2>1. wf = "running" /\ Spent <= budget
    BY DEF StartLayer, Between, WithinBudget
  <2> QED BY <2>1 DEF Judgement
<1>3. CASE TimeOut
  BY <1>0, <1>3 DEF TimeOut
<1>4. CASE Execute \/ OverBudget \/ FinishLayer \/ Complete \/ Delete \/ UNCHANGED vars
  BY <1>4 DEF Execute, OverBudget, FinishLayer, Complete, Delete, vars
<1>5. ASSUME NEW d \in board, DelegationMoves(d)
      PROVE  frame'[c].pc = "none"
  BY <1>5 DEF DelegationMoves
<1> QED BY <1>1, <1>2, <1>3, <1>4, <1>5 DEF Next, Engine

\* StopsWhenTold of the model: after a failure in mode ALL, or once the budget is
\* spent, no further coroutine is started (execute).
THEOREM FailureStops == Spec => StopsWhenTold
<1>1. TypeOK /\ Judgement /\ [Next]_vars =>
        [(\/ mode = "all" /\ \E t \in past : status[t] = "failed"
          \/ ~(Spent <= budget))
         => \A c \in Coroutines : frame[c].pc = "none" => frame'[c].pc = "none"]_vars
  BY StopsStep, WorkflowAssumption
<1> QED BY <1>1, JudgementHolds, WorkflowTypes, PTL DEF Spec, StopsWhenTold

-----------------------------------------------------------------------------
\* Outcomes.

\* What a task that has ended rests on: its coroutines have returned, and the one
\* of a task that completed has a result.
Settled ==
  /\ \A t \in Tasks : status[t] \in {"completed", "failed"} => Returned(t)
  /\ \A t \in Tasks : Sole(t) /\ status[t] = "completed" => frame[<<t, 1>>].ok

\* A coroutine gives its task an outcome only when it returns, and says completed
\* only with a result.
LEMMA RunningOutcome ==
  ASSUME WorkflowAssumption, TypeOK, NEW c \in Coroutines, Running(c), status' # status
  PROVE  /\ status'[c[1]] \in {"completed", "failed"} => frame'[c].pc = "done"
         /\ status'[c[1]] = "completed" => frame'[c].ok
<1>0. /\ frame \in [Coroutines -> FrameType] /\ frame[c] \in FrameType
      /\ status \in [Tasks -> TaskStatus] /\ c[1] \in Tasks
  BY CoroutineParts DEF TypeOK
<1>1. ASSUME NEW s \in TaskStatus, status' = Marked(c, s)
      PROVE  status'[c[1]] = s
  BY <1>0, <1>1 DEF Marked
<1>2. {"running", "retrying", "completed", "failed", "timeout"} \subseteq TaskStatus
  BY DEF TaskStatus
<1>3. CASE Delegate(c)
  <2>1. status' = Marked(c, "running") \/ status' = Marked(c, "retrying")
    BY <1>3 DEF Delegate
  <2> QED BY <1>1, <1>2, <2>1
<1>4. CASE CannotDelegate(c) \/ GiveUp(c)
  <2>1. /\ status' = Marked(c, "failed") \/ status' = Marked(c, "timeout")
        /\ frame' = [frame EXCEPT ![c].pc = "done"]
    BY <1>4 DEF CannotDelegate, GiveUp, Errored
  <2>2. frame'[c].pc = "done"
    BY <1>0, <2>1 DEF FrameType
  <2> QED BY <1>1, <1>2, <2>1, <2>2
<1>5. CASE Collect(c)
  <2>1. frame' = [frame EXCEPT ![c].pc = "done", ![c].ok = TRUE]
    BY <1>5 DEF Collect
  <2>2. frame'[c].pc = "done" /\ frame'[c].ok
    BY <1>0, <2>1 DEF FrameType
  <2> QED BY <2>2
<1> QED BY <1>3, <1>4, <1>5 DEF Running

\* In a layer without fan-out the fan-in sees every result.
LEMMA SoleJudged ==
  ASSUME WorkflowAssumption, TypeOK, \A u \in layer : Sole(u)
  PROVE  \A c \in Gathered : c \in Judged
<1>1. Ran \subseteq Tasks /\ IsFiniteSet(Ran)
  BY FS_Subset DEF Ran, TypeOK, WorkflowAssumption
<1>2. \A c \in Gathered : c[1] \in Ran /\ c = <<c[1], 1>>
  <2> SUFFICES ASSUME NEW c \in Gathered
               PROVE  c[1] \in Ran /\ c = <<c[1], 1>>
    OBVIOUS
  <2>1. c \in Coroutines /\ c[1] \in layer
    BY DEF Gathered
  <2>2. c[2] \in 1 .. 1 /\ c = <<c[1], c[2]>>
    BY <2>1, CoroutineParts DEF Sole
  <2> QED BY <2>1, <2>2 DEF Ran
<1>3. \A t \in Ran : <<t, 1>> \in Gathered
  BY <1>2 DEF Ran
<1> DEFINE f == [t \in Ran |-> <<t, 1>>]
<1>4. f \in Surjection(Ran, Gathered)
  BY <1>2, <1>3 DEF Surjection
<1>5. IsFiniteSet(Gathered) /\ Cardinality(Gathered) <= Cardinality(Ran)
  BY <1>1, <1>4, FS_Surjection
<1>6. ASSUME NEW c \in Gathered
      PROVE  Position(c) <= Cardinality(Ran)
  <2> DEFINE before == {b \in Gathered : b[1] < c[1] \/ (b[1] = c[1] /\ b[2] <= c[2])}
  <2>1. before \in SUBSET Gathered
    OBVIOUS
  <2>2. /\ IsFiniteSet(before) /\ Cardinality(before) <= Cardinality(Gathered)
    BY <1>5, <2>1, FS_Subset
  <2>3. /\ Cardinality(before) \in Nat /\ Cardinality(Gathered) \in Nat
        /\ Cardinality(Ran) \in Nat
    BY <1>1, <1>5, <2>2, FS_CardinalityType
  <2>4. Position(c) = Cardinality(before)
    BY DEF Position
  <2> HIDE DEF before
  <2> QED BY <1>5, <2>2, <2>3, <2>4
<1> QED BY <1>6 DEF Judged

\* When a layer is over, the tasks that ran in it have returned.
LEMMA LayerReturned ==
  ASSUME WorkflowAssumption, TypeOK, Layered, FinishLayer
  PROVE  \A t \in Ran : t \in layer /\ status[t] # "skipped" /\ Returned(t)
<1> SUFFICES ASSUME NEW t \in Ran
             PROVE  t \in layer /\ status[t] # "skipped" /\ Returned(t)
  OBVIOUS
<1>1. PICK c \in Gathered : c[1] = t
  BY DEF Ran
<1>2. /\ c \in Coroutines /\ frame[c].pc # "none" /\ t \in layer /\ t \in Tasks
      /\ wf = "running" /\ \A b \in Gathered : frame[b].pc = "done"
  BY <1>1 DEF Gathered, Ran, FinishLayer, TypeOK
<1>3. ~Unstarted(t)
  BY <1>1, <1>2, CoroutineParts DEF Unstarted
<1>4. status[t] # "skipped" /\ Begun(t)
  BY <1>2, <1>3 DEF Layered
<1>5. ASSUME NEW i \in 1 .. copies[t]
      PROVE  frame[<<t, i>>].pc = "done"
  <2>1. <<t, i>> \in Gathered
    BY <1>2, <1>4, CoroutineShape DEF Begun, Gathered
  <2> QED BY <1>2, <2>1
<1> QED BY <1>2, <1>4, <1>5 DEF Returned

\* The fan-in fails no task of such a layer that completed.
LEMMA FanInKeeps ==
  ASSUME WorkflowAssumption, TypeOK, Layered, Settled, FinishLayer,
         NEW t \in Tasks, status'[t] # status[t]
  PROVE  /\ t \in Ran /\ status'[t] = "failed" /\ mode = "any"
         /\ status[t] = "completed" => \E u \in layer : ~Sole(u)
<1>0. status' = FannedIn /\ layer \subseteq Tasks
  BY DEF FinishLayer, TypeOK
<1>1. /\ mode = "any" /\ \A c \in Judged : ~frame[c].ok
      /\ t \in Ran /\ status'[t] = "failed"
  <2>1. CASE mode = "any" /\ \A c \in Judged : ~frame[c].ok
    BY <1>0, <2>1 DEF FannedIn
  <2>2. CASE ~(mode = "any" /\ \A c \in Judged : ~frame[c].ok)
    BY <1>0, <2>2 DEF FannedIn
  <2> QED BY <2>1, <2>2
<1>2. ASSUME status[t] = "completed", \A u \in layer : Sole(u)
      PROVE  FALSE
  <2>1. PICK c \in Gathered : c[1] = t
    BY <1>1 DEF Ran
  <2>2. c \in Coroutines /\ t \in layer
    BY <2>1 DEF Gathered
  <2>3. Sole(t) /\ c = <<t, 1>>
    <3>1. Sole(t)
      BY <1>2, <2>2
    <3>2. c[2] \in 1 .. 1 /\ c = <<c[1], c[2]>>
      BY <2>1, <2>2, <3>1, CoroutineParts DEF Sole
    <3> QED BY <2>1, <3>1, <3>2
  <2>4. frame[c].ok
    BY <1>2, <2>3 DEF Settled
  <2>5. c \in Judged
    BY <1>2, <2>1, SoleJudged
  <2> QED BY <1>1, <2>4, <2>5
<1> QED BY <1>1, <1>2

\* What the other steps do to the frames and the statuses of tasks that ended.
LEMMA OtherOutcome ==
  ASSUME WorkflowAssumption, TypeOK, Layered, Settled, StartLayer \/ TimeOut
  PROVE  /\ \A t \in Tasks : status[t] \in {"completed", "failed"} => status'[t] = status[t]
         /\ \A t \in Tasks : status'[t] \in {"completed", "failed"} => status'[t] = status[t]
         /\ \A t \in Tasks : Returned(t) => Returned(t)'
         /\ \A c \in Coroutines : frame'[c].ok = frame[c].ok
<1>0. /\ frame \in [Coroutines -> FrameType] /\ status \in [Tasks -> TaskStatus]
  BY DEF TypeOK
<1>1. \A t \in Tasks : ~(Unstarted(t) /\ Returned(t))
  <2> SUFFICES ASSUME NEW t \in Tasks PROVE ~(Unstarted(t) /\ Returned(t))
    OBVIOUS
  <2>1. 1 \in 1 .. copies[t]
    BY DEF WorkflowAssumption
  <2> QED BY <2>1 DEF Unstarted, Returned
<1>2. CASE StartLayer
  <2>1. /\ layer = {} /\ Ready \subseteq Tasks \ past
    BY <1>2 DEF StartLayer, Between, Ready
  <2>2. PICK skipped \in SUBSET (conditional \cap Ready) :
          /\ status' = [t \in Tasks |-> IF t \in skipped THEN "skipped" ELSE status[t]]
          /\ frame' = [c \in Coroutines |->
                         IF c[1] \in Ready \ skipped
                         THEN [frame[c] EXCEPT !.pc = "assign"] ELSE frame[c]]
    BY <1>2 DEF StartLayer
  <2>3. \A t \in Ready : ~Returned(t) /\ status[t] \notin {"completed", "failed"}
    BY <1>1, <2>1 DEF Layered, Settled
  <2>4. \A t \in Tasks : status'[t] = IF t \in skipped THEN "skipped" ELSE status[t]
    BY <2>2
  <2>5. \A c \in Coroutines : /\ frame'[c].ok = frame[c].ok
                              /\ c[1] \notin Ready => frame'[c] = frame[c]
    <3> SUFFICES ASSUME NEW c \in Coroutines
                 PROVE  /\ frame'[c].ok = frame[c].ok
                        /\ c[1] \notin Ready => frame'[c] = frame[c]
      OBVIOUS
    <3>1. frame[c] \in FrameType
      BY <1>0
    <3>2. CASE c[1] \in Ready \ skipped
      <4>1. frame'[c] = [frame[c] EXCEPT !.pc = "assign"]
        BY <2>2, <3>2
      <4> QED BY <3>1, <3>2, <4>1 DEF FrameType
    <3>3. CASE c[1] \notin Ready \ skipped
      BY <2>2, <3>3
    <3> QED BY <3>2, <3>3
  <2>6. ASSUME NEW t \in Tasks, Returned(t)
        PROVE  Returned(t)'
    <3>1. t \notin Ready
      BY <2>3, <2>6
    <3>2. ASSUME NEW i \in 1 .. copies[t]
          PROVE  frame'[<<t, i>>].pc = "done"
      <4>1. <<t, i>> \in Coroutines /\ <<t, i>>[1] = t /\ frame[<<t, i>>].pc = "done"
        BY <2>6, CoroutineShape DEF Returned
      <4>2. frame'[<<t, i>>] = frame[<<t, i>>]
        BY <2>5, <3>1, <4>1
      <4> QED BY <4>1, <4>2
    <3> QED BY <3>2 DEF Returned
  <2>7. \A t \in Tasks :
          /\ status[t] \in {"completed", "failed"} => status'[t] = status[t]
          /\ status'[t] \in {"completed", "failed"} => status'[t] = status[t]
    BY <2>2, <2>3, <2>4
  <2>8. \A c \in Coroutines : frame'[c].ok = frame[c].ok
    BY <2>5
  <2> QED BY <2>6, <2>7, <2>8
<1>3. CASE TimeOut
  <2>1. /\ status' = [t \in Tasks |->
                        IF \/ t \in layer /\ status[t] \notin {"completed", "failed"}
                           \/ status[t] = "pending"
                        THEN "timeout" ELSE status[t]]
        /\ frame' = [c \in Coroutines |-> IF frame[c].pc \in {"assign", "waiting"}
                                          THEN [frame[c] EXCEPT !.pc = "done"] ELSE frame[c]]
    BY <1>3 DEF TimeOut
  <2>2. \A c \in Coroutines : /\ frame'[c].ok = frame[c].ok
                              /\ frame[c].pc = "done" => frame'[c].pc = "done"
    <3> SUFFICES ASSUME NEW c \in Coroutines
                 PROVE  /\ frame'[c].ok = frame[c].ok
                        /\ frame[c].pc = "done" => frame'[c].pc = "done"
      OBVIOUS
    <3>1. frame[c] \in FrameType
      BY <1>0
    <3>2. CASE frame[c].pc \in {"assign", "waiting"}
      <4>1. frame'[c] = [frame[c] EXCEPT !.pc = "done"]
        BY <2>1, <3>2
      <4> QED BY <3>1, <4>1 DEF FrameType
    <3>3. CASE frame[c].pc \notin {"assign", "waiting"}
      BY <2>1, <3>3
    <3> QED BY <3>2, <3>3
  <2>3. ASSUME NEW t \in Tasks, Returned(t)
        PROVE  Returned(t)'
    <3>1. ASSUME NEW i \in 1 .. copies[t]
          PROVE  frame'[<<t, i>>].pc = "done"
      <4>1. <<t, i>> \in Coroutines /\ frame[<<t, i>>].pc = "done"
        BY <2>3, CoroutineShape DEF Returned
      <4> QED BY <2>2, <4>1
    <3> QED BY <3>1 DEF Returned
  <2>4. \A t \in Tasks :
          /\ status[t] \in {"completed", "failed"} => status'[t] = status[t]
          /\ status'[t] = status[t] \/ status'[t] = "timeout"
    BY <2>1
  <2>5. \A c \in Coroutines : frame'[c].ok = frame[c].ok
    BY <2>2
  <2> QED BY <2>3, <2>4, <2>5
<1> QED BY <1>2, <1>3

\* Settled is inductive.
LEMMA SettledStep ==
  ASSUME WorkflowAssumption, TypeOK, Layered, Settled, [Next]_vars
  PROVE  Settled'
<1>1. ASSUME NEW c \in Coroutines, Running(c)
      PROVE  Settled'
  <2>0. c[1] \in Tasks /\ c[2] \in 1 .. copies[c[1]] /\ c = <<c[1], c[2]>>
    BY CoroutineParts
  <2>1. /\ frame[c].pc \in {"assign", "waiting"}
        /\ \A b \in Coroutines : b # c => frame'[b] = frame[b]
        /\ \A t \in Tasks : t # c[1] => status'[t] = status[t]
        /\ status' # status => Sole(c[1])
    BY <1>1, RunningEffect
  <2>2. status[c[1]] \notin {"completed", "failed"}
    BY <2>0, <2>1 DEF Settled, Returned
  <2>3. ASSUME status'[c[1]] \in {"completed", "failed"}
        PROVE  /\ c = <<c[1], 1>> /\ Returned(c[1])'
               /\ status'[c[1]] = "completed" => frame'[c].ok
    <3>1. status' # status
      BY <2>2, <2>3
    <3>2. copies[c[1]] = 1 /\ c = <<c[1], 1>>
      BY <2>0, <2>1, <3>1 DEF Sole
    <3>3. frame'[c].pc = "done" /\ (status'[c[1]] = "completed" => frame'[c].ok)
      BY <1>1, <2>3, <3>1, RunningOutcome
    <3> QED BY <3>2, <3>3 DEF Returned
  <2>4. ASSUME NEW t \in Tasks, t # c[1]
        PROVE  /\ status'[t] = status[t] /\ (Returned(t) => Returned(t)')
               /\ Sole(t) => frame'[<<t, 1>>] = frame[<<t, 1>>]
    <3>1. ASSUME NEW i \in 1 .. copies[t]
          PROVE  frame'[<<t, i>>] = frame[<<t, i>>]
      <4>1. <<t, i>> \in Coroutines /\ <<t, i>> # c
        BY <2>0, <2>4, CoroutineShape
      <4> QED BY <2>1, <4>1
    <3> QED BY <2>1, <2>4, <3>1 DEF Returned, Sole
  <2>5. \A t \in Tasks : status'[t] \in {"completed", "failed"} => Returned(t)'
    BY <2>3, <2>4 DEF Settled
  <2>6. ASSUME NEW t \in Tasks, Sole(t), status'[t] = "completed"
        PROVE  frame'[<<t, 1>>].ok
    <3>1. CASE t = c[1]
      BY <2>3, <2>6, <3>1
    <3>2. CASE t # c[1]
      <4>1. frame'[<<t, 1>>] = frame[<<t, 1>>] /\ status[t] = "completed"
        BY <2>4, <2>6, <3>2
      <4>2. frame[<<t, 1>>].ok
        BY <2>6, <4>1 DEF Settled
      <4> QED BY <4>1, <4>2
    <3> QED BY <3>1, <3>2
  <2> QED BY <2>5, <2>6 DEF Settled, Sole
<1>2. CASE StartLayer \/ TimeOut
  <2>1. \A t \in Tasks : status'[t] \in {"completed", "failed"} => Returned(t)'
    BY <1>2, OtherOutcome DEF Settled
  <2>2. ASSUME NEW t \in Tasks, Sole(t), status'[t] = "completed"
        PROVE  frame'[<<t, 1>>].ok
    <3>1. status[t] = "completed"
      BY <1>2, <2>2, OtherOutcome
    <3>2. frame[<<t, 1>>].ok
      BY <2>2, <3>1 DEF Settled
    <3>3. <<t, 1>> \in Coroutines
      BY <2>2, CoroutineShape DEF Sole
    <3>4. frame'[<<t, 1>>].ok = frame[<<t, 1>>].ok
      BY <1>2, <3>3, OtherOutcome
    <3> QED BY <3>2, <3>4
  <2> QED BY <2>1, <2>2 DEF Settled, Sole
<1>3. CASE FinishLayer
  <2>1. UNCHANGED frame
    BY <1>3 DEF FinishLayer
  <2>2. \A t \in Tasks : status'[t] = status[t] \/ (t \in Ran /\ status'[t] = "failed")
    BY <1>3, FanInKeeps
  <2>3. \A t \in Tasks : status'[t] \in {"completed", "failed"} => Returned(t)'
    BY <1>3, <2>1, <2>2, LayerReturned DEF Settled, Returned
  <2>4. \A t \in Tasks : status'[t] = "completed" => status[t] = "completed"
    BY <2>2
  <2> QED BY <2>1, <2>3, <2>4 DEF Settled, Sole
<1>4. ASSUME UNCHANGED <<status, frame>>
      PROVE  Settled'
  BY <1>4 DEF Settled, Returned, Sole
<1>5. CASE Execute \/ OverBudget \/ Complete \/ Delete \/ UNCHANGED vars
  BY <1>4, <1>5 DEF Execute, OverBudget, Complete, Delete, vars
<1>6. ASSUME NEW d \in board, DelegationMoves(d)
      PROVE  Settled'
  BY <1>4, <1>6 DEF DelegationMoves
<1> QED BY <1>1, <1>2, <1>3, <1>5, <1>6 DEF Next, Engine

LEMMA SettledHolds == Spec => []Settled
<1>1. Init => Settled
  BY DEF Init, Settled
<1>2. TypeOK /\ Layered /\ Settled /\ [Next]_vars => Settled'
  BY SettledStep, WorkflowAssumption
<1> QED BY <1>1, <1>2, LayeredHolds, WorkflowTypes, PTL DEF Spec

\* What a step does to a task that has its outcome.
LEMMA OutcomeStep ==
  ASSUME WorkflowAssumption, TypeOK, Layered, Settled, [Next]_vars, NEW t \in Tasks
  PROVE  /\ status[t] \in {"completed", "failed"} =>
              status'[t] = status[t] \/ (mode = "any" /\ \E u \in layer : ~Sole(u))
         /\ status[t] = "skipped" => status'[t] = "skipped" \/ wf' = "timeout"
<1>1. ASSUME NEW c \in Coroutines, Running(c), status[t] \in {"completed", "failed", "skipped"}
      PROVE  status'[t] = status[t]
  <2>1. /\ frame[c].pc \in {"assign", "waiting"}
        /\ \A u \in Tasks : u # c[1] => status'[u] = status[u]
    BY <1>1, RunningEffect
  <2>2. ~Returned(c[1]) /\ ~Unstarted(c[1])
    BY <2>1, CoroutineParts DEF Returned, Unstarted
  <2>3. t # c[1]
    BY <1>1, <2>2 DEF Settled, Layered
  <2> QED BY <2>1, <2>3
<1>2. CASE StartLayer
  <2>1. status'[t] = status[t] \/ status'[t] = "skipped"
    BY <1>2 DEF StartLayer
  <2> QED BY <1>2, <2>1, OtherOutcome
<1>3. CASE TimeOut
  BY <1>3, OtherOutcome DEF TimeOut, End
<1>4. CASE FinishLayer
  <2>1. t \in Ran => status[t] # "skipped"
    BY <1>4, LayerReturned
  <2> QED BY <1>4, <2>1, FanInKeeps
<1>5. CASE Execute \/ OverBudget \/ Complete \/ Delete \/ UNCHANGED vars
  BY <1>5 DEF Execute, OverBudget, Complete, Delete, vars
<1>6. ASSUME NEW d \in board, DelegationMoves(d)
      PROVE  UNCHANGED status
  BY <1>6 DEF DelegationMoves
<1> QED BY <1>1, <1>2, <1>3, <1>4, <1>5, <1>6 DEF Next, Engine

\* OutcomeFinal of the model: the outcome of a task stands, but for the fan-in of
\* mode ANY over fanned-out layers and for skipped tasks when the workflow's time
\* is up (_execute_layer, _fan_in_any, execute).
THEOREM OutcomesStand == Spec => OutcomeFinal
<1>1. TypeOK /\ Layered /\ Settled /\ [Next]_vars =>
        [\A t \in Tasks :
           /\ status[t] \in {"completed", "failed"} =>
                status'[t] = status[t] \/ (mode = "any" /\ \E u \in layer : ~Sole(u))
           /\ status[t] = "skipped" => status'[t] = "skipped" \/ wf' = "timeout"]_vars
  BY OutcomeStep, WorkflowAssumption
<1> QED BY <1>1, SettledHolds, LayeredHolds, WorkflowTypes, PTL DEF Spec, OutcomeFinal

-----------------------------------------------------------------------------
\* Attempts.

\* The rows of a coroutine are its attempts so far, and while it assigns one the
\* row for it is still to come.
Numbered ==
  /\ \A c \in Coroutines : frame[c].retry <= maxRetries[c[1]]
  /\ \A d \in board : /\ frame[d.of].pc # "none"
                      /\ d.attempt <= frame[d.of].retry
                      /\ frame[d.of].pc = "assign" => d.attempt < frame[d.of].retry
  /\ \A d, e \in board : e.of = d.of /\ e.attempt = d.attempt => e = d

\* Steps that make no row keep it, when they count attempts up only to go on to the
\* next one.
LEMMA FramesNumbered ==
  ASSUME WorkflowAssumption, TypeOK, Numbered, UNCHANGED board,
         \A c \in Coroutines :
           \/ frame'[c] = frame[c]
           \/ /\ frame[c].pc # "none" /\ frame'[c].pc \notin {"none", "assign"}
              /\ frame'[c].retry = frame[c].retry
           \/ /\ frame[c].pc # "none" /\ frame'[c].pc = "assign"
              /\ frame'[c].retry = frame[c].retry + 1 /\ frame'[c].retry <= maxRetries[c[1]]
           \/ /\ frame[c].pc = "none" /\ frame'[c].retry = frame[c].retry
  PROVE  Numbered'
<1>1. \A c \in Coroutines : frame[c].retry \in Nat /\ maxRetries[c[1]] \in Nat
  BY CoroutineParts DEF TypeOK, FrameType, WorkflowAssumption
<1>2. \A d \in board : d.of \in Coroutines /\ d.attempt \in Nat
  BY DEF TypeOK, Delegation
<1>3. \A c \in Coroutines : frame'[c].retry <= maxRetries[c[1]]
  BY DEF Numbered
<1>4. ASSUME NEW d \in board
      PROVE  /\ frame'[d.of].pc # "none"
             /\ d.attempt <= frame'[d.of].retry
             /\ frame'[d.of].pc = "assign" => d.attempt < frame'[d.of].retry
  <2>1. /\ d.of \in Coroutines /\ d.attempt \in Nat /\ frame[d.of].retry \in Nat
        /\ frame[d.of].pc # "none" /\ d.attempt <= frame[d.of].retry
        /\ frame[d.of].pc = "assign" => d.attempt < frame[d.of].retry
    BY <1>1, <1>2 DEF Numbered
  <2> QED BY <2>1
<1> QED BY <1>3, <1>4 DEF Numbered

\* An attempt that did not succeed.
LEMMA ErroredNumbered ==
  ASSUME WorkflowAssumption, TypeOK, Numbered, UNCHANGED board,
         NEW c \in Coroutines, frame[c].pc # "none", NEW s, Errored(c, s)
  PROVE  Numbered'
<1>0. /\ frame \in [Coroutines -> FrameType] /\ frame[c] \in FrameType
      /\ frame[c].retry \in Nat /\ maxRetries[c[1]] \in Nat
  BY CoroutineParts DEF TypeOK, FrameType, WorkflowAssumption
<1>1. CASE frame[c].retry < maxRetries[c[1]]
  <2>1. frame' = [frame EXCEPT ![c] = Retried(c)]
    BY <1>1 DEF Errored
  <2>2. Retried(c).pc = "assign" /\ Retried(c).retry = frame[c].retry + 1
    BY <1>0 DEF Retried, FrameType
  <2>3. frame[c].retry + 1 <= maxRetries[c[1]]
    BY <1>0, <1>1
  <2>4. \A b \in Coroutines : b # c => frame'[b] = frame[b]
    BY <1>0, <2>1
  <2>5. frame'[c] = Retried(c)
    BY <1>0, <2>1
  <2> QED BY <2>2, <2>3, <2>4, <2>5, FramesNumbered
<1>2. CASE ~(frame[c].retry < maxRetries[c[1]])
  <2>1. frame' = [frame EXCEPT ![c].pc = "done"]
    BY <1>2 DEF Errored
  <2>2. /\ frame'[c].pc = "done" /\ frame'[c].retry = frame[c].retry
        /\ \A b \in Coroutines : b # c => frame'[b] = frame[b]
    BY <1>0, <2>1 DEF FrameType
  <2> QED BY <2>2, FramesNumbered
<1> QED BY <1>1, <1>2

\* A new row is the one for the attempt that was to come.
LEMMA DelegateNumbered ==
  ASSUME WorkflowAssumption, TypeOK, Numbered, NEW c \in Coroutines, Delegate(c)
  PROVE  Numbered'
<1> DEFINE new == [of |-> c, attempt |-> frame[c].retry, status |-> "open"]
<1>0. /\ frame \in [Coroutines -> FrameType] /\ frame[c] \in FrameType
      /\ frame[c].pc = "assign" /\ frame[c].retry \in Nat
      /\ frame' = [frame EXCEPT ![c].pc = "waiting"] /\ board' = board \cup {new}
  BY DEF TypeOK, FrameType, Delegate
<1>1. /\ frame'[c].pc = "waiting" /\ frame'[c].retry = frame[c].retry
      /\ \A b \in Coroutines : b # c => frame'[b] = frame[b]
  BY <1>0 DEF FrameType
<1>2. \A d \in board : d.of \in Coroutines /\ d.attempt \in Nat
  BY DEF TypeOK, Delegation
<1>3. new.of = c /\ new.attempt = frame[c].retry
  OBVIOUS
<1> HIDE DEF new
<1>4. \A b \in Coroutines : frame'[b].retry <= maxRetries[b[1]]
  BY <1>1 DEF Numbered
<1>5. ASSUME NEW d \in board
      PROVE  /\ frame'[d.of].pc # "none"
             /\ d.attempt <= frame'[d.of].retry
             /\ frame'[d.of].pc = "assign" => d.attempt < frame'[d.of].retry
             /\ d.of = c => d.attempt < frame[c].retry
  <2>1. CASE d.of = c
    BY <1>0, <1>1, <1>2, <2>1 DEF Numbered
  <2>2. CASE d.of # c
    BY <1>1, <1>2, <2>2 DEF Numbered
  <2> QED BY <2>1, <2>2
<1>6. \A d \in board : ~(new.of = d.of /\ new.attempt = d.attempt)
  BY <1>0, <1>2, <1>3, <1>5
<1>7. \A d, e \in board' : e.of = d.of /\ e.attempt = d.attempt => e = d
  BY <1>0, <1>6 DEF Numbered
<1>8. \A d \in board' : /\ frame'[d.of].pc # "none"
                        /\ d.attempt <= frame'[d.of].retry
                        /\ frame'[d.of].pc = "assign" => d.attempt < frame'[d.of].retry
  BY <1>0, <1>1, <1>3, <1>5
<1> QED BY <1>4, <1>7, <1>8 DEF Numbered

\* Numbered is inductive.
LEMMA NumberedStep ==
  ASSUME WorkflowAssumption, TypeOK, Layered, Numbered, [Next]_vars
  PROVE  Numbered'
<1>0. frame \in [Coroutines -> FrameType]
  BY DEF TypeOK
<1>1. ASSUME NEW c \in Coroutines, Running(c)
      PROVE  Numbered'
  <2>1. frame[c].pc \in {"assign", "waiting"}
    BY <1>1, RunningEffect
  <2>2. CASE CannotDelegate(c) \/ GiveUp(c)
    BY <2>1, <2>2, ErroredNumbered DEF CannotDelegate, GiveUp
  <2>3. CASE Collect(c)
    <3>1. frame' = [frame EXCEPT ![c].pc = "done", ![c].ok = TRUE] /\ UNCHANGED board
      BY <2>3 DEF Collect
    <3>2. /\ frame'[c].pc = "done" /\ frame'[c].retry = frame[c].retry
          /\ \A b \in Coroutines : b # c => frame'[b] = frame[b]
      BY <1>0, <3>1 DEF FrameType
    <3> QED BY <2>1, <3>1, <3>2, FramesNumbered
  <2> QED BY <1>1, <2>2, <2>3, DelegateNumbered DEF Running
<1>2. CASE StartLayer
  <2>1. layer = {} /\ Ready \subseteq Tasks \ past
    BY <1>2 DEF StartLayer, Between, Ready
  <2>2. UNCHANGED board
    BY <1>2 DEF StartLayer
  <2>3. PICK skipped \in SUBSET (conditional \cap Ready) :
          frame' = [c \in Coroutines |->
                      IF c[1] \in Ready \ skipped
                      THEN [frame[c] EXCEPT !.pc = "assign"] ELSE frame[c]]
    BY <1>2 DEF StartLayer
  <2>4. ASSUME NEW c \in Coroutines, frame'[c] # frame[c]
        PROVE  frame[c].pc = "none" /\ frame'[c].retry = frame[c].retry
    <3>1. c[1] \in Ready /\ frame'[c] = [frame[c] EXCEPT !.pc = "assign"]
      BY <2>3, <2>4
    <3>2. Unstarted(c[1])
      BY <2>1, <3>1 DEF Layered
    <3>3. frame[c].pc = "none"
      BY <3>2, CoroutineParts DEF Unstarted
    <3> QED BY <1>0, <3>1, <3>3 DEF FrameType
  <2> QED BY <2>2, <2>4, FramesNumbered
<1>3. CASE TimeOut
  <2>1. /\ frame' = [c \in Coroutines |-> IF frame[c].pc \in {"assign", "waiting"}
                                          THEN [frame[c] EXCEPT !.pc = "done"] ELSE frame[c]]
        /\ UNCHANGED board
    BY <1>3 DEF TimeOut
  <2>2. ASSUME NEW c \in Coroutines, frame'[c] # frame[c]
        PROVE  /\ frame[c].pc # "none" /\ frame'[c].pc = "done"
               /\ frame'[c].retry = frame[c].retry
    <3>1. frame[c].pc \in {"assign", "waiting"} /\ frame'[c] = [frame[c] EXCEPT !.pc = "done"]
      BY <2>1, <2>2
    <3> QED BY <1>0, <3>1 DEF FrameType
  <2> QED BY <2>1, <2>2, FramesNumbered
<1>4. CASE Execute \/ OverBudget \/ FinishLayer \/ Complete \/ Delete \/ UNCHANGED vars
  <2>1. UNCHANGED <<frame, board>>
    BY <1>4 DEF Execute, OverBudget, FinishLayer, Complete, Delete, vars
  <2> QED BY <2>1, FramesNumbered
<1>5. ASSUME NEW d \in board, DelegationMoves(d)
      PROVE  Numbered'
  <2>1. PICK s \in {"open", "completed", "failed", "cancelled"} :
          board' = (board \ {d}) \cup {[d EXCEPT !.status = s]}
    BY <1>5 DEF DelegationMoves
  <2> DEFINE moved == [d EXCEPT !.status = s]
  <2>2. moved.of = d.of /\ moved.attempt = d.attempt
    BY DEF TypeOK, Delegation
  <2>3. board' = (board \ {d}) \cup {moved} /\ UNCHANGED frame
    BY <1>5, <2>1 DEF DelegationMoves
  <2> HIDE DEF moved
  <2>4. \A c, e \in board' : e.of = c.of /\ e.attempt = c.attempt => e = c
    BY <2>2, <2>3 DEF Numbered
  <2>5. \A e \in board' : /\ frame'[e.of].pc # "none"
                          /\ e.attempt <= frame'[e.of].retry
                          /\ frame'[e.of].pc = "assign" => e.attempt < frame'[e.of].retry
    BY <2>2, <2>3 DEF Numbered
  <2> QED BY <2>3, <2>4, <2>5 DEF Numbered
<1> QED BY <1>1, <1>2, <1>3, <1>4, <1>5 DEF Next, Engine

\* AttemptsCounted of the model: no coroutine makes more delegations than its
\* retries allow, nor two for one attempt (_execute_task).
THEOREM AttemptsBounded == Spec => []AttemptsCounted
<1>1. Init => Numbered
  <2> SUFFICES ASSUME Init PROVE Numbered
    OBVIOUS
  <2>1. \A c \in Coroutines : frame[c].retry = 0 /\ maxRetries[c[1]] \in Nat
    BY WorkflowAssumption, CoroutineParts DEF Init, WorkflowAssumption
  <2> QED BY <2>1 DEF Init, Numbered
<1>2. TypeOK /\ Layered /\ Numbered /\ [Next]_vars => Numbered'
  BY NumberedStep, WorkflowAssumption
<1>3. TypeOK /\ Numbered => AttemptsCounted
  <2> SUFFICES ASSUME TypeOK, Numbered, NEW d \in board
               PROVE  /\ d.attempt <= maxRetries[d.of[1]]
                      /\ \A e \in board : e.of = d.of /\ e.attempt = d.attempt => e = d
    BY DEF AttemptsCounted
  <2>1. d.of \in Coroutines /\ d.attempt \in Nat
    BY DEF TypeOK, Delegation
  <2>2. frame[d.of].retry \in Nat /\ maxRetries[d.of[1]] \in Nat
    BY <2>1, WorkflowAssumption, CoroutineParts DEF TypeOK, FrameType, WorkflowAssumption
  <2>3. d.attempt <= frame[d.of].retry /\ frame[d.of].retry <= maxRetries[d.of[1]]
    BY <2>1 DEF Numbered
  <2> QED BY <2>1, <2>2, <2>3 DEF Numbered
<1> QED BY <1>1, <1>2, <1>3, LayeredHolds, WorkflowTypes, PTL DEF Spec
=============================================================================
