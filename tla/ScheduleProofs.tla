--------------------------- MODULE ScheduleProofs ---------------------------
(***************************************************************************)
(* Workflow implements Schedule: what its caller is promised holds for any *)
(* tasks, graphs, fan-outs, retries and budgets.                           *)
(***************************************************************************)
EXTENDS WorkflowProofs

\* The copies of a task are started together, and only while the workflow runs
\* does one of them wait for anything.
Orderly ==
  /\ \A t \in Tasks : Unstarted(t) \/ Begun(t)
  /\ wf # "running" => \A c \in Coroutines : frame[c].pc \in {"none", "done"}

\* Every task has a first copy.
LEMMA FirstCopy ==
  ASSUME WorkflowAssumption, NEW t \in Tasks
  PROVE  1 \in 1 .. copies[t] /\ ~(Unstarted(t) /\ Returned(t))
<1>1. 1 \in 1 .. copies[t]
  BY DEF WorkflowAssumption
<1> QED BY <1>1 DEF Unstarted, Returned

\* Between two layers no coroutine is waiting.
LEMMA LayersQuiet ==
  ASSUME WorkflowAssumption, TypeOK, Layered,
         \A c \in Gathered : frame[c].pc = "done", NEW c \in Coroutines
  PROVE  frame[c].pc \in {"none", "done"}
<1>1. c[1] \in Tasks /\ c[2] \in 1 .. copies[c[1]] /\ c = <<c[1], c[2]>>
  BY CoroutineParts
<1>2. CASE c[1] \in layer
  BY <1>2 DEF Gathered
<1>3. CASE c[1] \notin layer
  <2>1. Unstarted(c[1]) \/ Returned(c[1])
    BY <1>1, <1>3 DEF Layered
  <2> QED BY <1>1, <2>1 DEF Unstarted, Returned
<1> QED BY <1>2, <1>3

\* Orderly is inductive.
LEMMA OrderlyStep ==
  ASSUME WorkflowAssumption, TypeOK, Layered, Orderly, [Next]_vars
  PROVE  Orderly'
<1>0. /\ frame \in [Coroutines -> FrameType]
      /\ \A c \in Coroutines : frame[c].pc \in {"none", "assign", "waiting", "done"}
  BY DEF TypeOK, FrameType
<1>1. ASSUME NEW c \in Coroutines, Running(c)
      PROVE  Orderly'
  <2>0. c[1] \in Tasks /\ c[2] \in 1 .. copies[c[1]] /\ c = <<c[1], c[2]>>
    BY CoroutineParts
  <2>1. /\ frame[c].pc \in {"assign", "waiting"}
        /\ frame'[c].pc \in {"assign", "waiting", "done"}
        /\ \A b \in Coroutines : b # c => frame'[b] = frame[b]
        /\ wf' = wf
    BY <1>1, RunningEffect
  <2>2. wf = "running"
    BY <2>1 DEF Orderly
  <2>3. Begun(c[1])
    BY <2>0, <2>1 DEF Orderly, Unstarted
  <2>4. ASSUME NEW t \in Tasks, NEW i \in 1 .. copies[t]
        PROVE  /\ <<t, i>> # c => frame'[<<t, i>>] = frame[<<t, i>>]
               /\ frame[<<t, i>>].pc # "none" => frame'[<<t, i>>].pc # "none"
    <3>1. <<t, i>> \in Coroutines
      BY CoroutineShape
    <3> QED BY <2>1, <3>1
  <2>5. ASSUME NEW t \in Tasks
        PROVE  (Unstarted(t) \/ Begun(t))'
    <3>1. CASE Begun(t)
      BY <2>4, <3>1 DEF Begun
    <3>2. CASE Unstarted(t)
      <4>1. t # c[1]
        BY <2>0, <2>1, <3>2 DEF Unstarted
      <4>2. \A i \in 1 .. copies[t] : <<t, i>> # c
        BY <2>0, <4>1
      <4> QED BY <2>4, <3>2, <4>2 DEF Unstarted
    <3> QED BY <3>1, <3>2 DEF Orderly
  <2> QED BY <2>1, <2>2, <2>5 DEF Orderly
<1>2. CASE StartLayer
  <2>1. wf' = "running"
    BY <1>2 DEF StartLayer, Between
  <2>2. PICK skipped \in SUBSET (conditional \cap Ready) :
          frame' = [c \in Coroutines |->
                      IF c[1] \in Ready \ skipped
                      THEN [frame[c] EXCEPT !.pc = "assign"] ELSE frame[c]]
    BY <1>2 DEF StartLayer
  <2>3. ASSUME NEW t \in Tasks
        PROVE  (Unstarted(t) \/ Begun(t))'
    <3>1. \A i \in 1 .. copies[t] : <<t, i>> \in Coroutines /\ <<t, i>>[1] = t
      BY CoroutineShape
    <3>2. CASE t \in Ready \ skipped
      <4>1. ASSUME NEW i \in 1 .. copies[t]
            PROVE  frame'[<<t, i>>].pc # "none"
        <5>1. frame'[<<t, i>>] = [frame[<<t, i>>] EXCEPT !.pc = "assign"]
          BY <2>2, <3>1, <3>2
        <5>2. frame[<<t, i>>] \in FrameType
          BY <1>0, <3>1
        <5> QED BY <5>1, <5>2 DEF FrameType
      <4> QED BY <4>1 DEF Begun
    <3>3. CASE t \notin Ready \ skipped
      <4>1. \A i \in 1 .. copies[t] : frame'[<<t, i>>] = frame[<<t, i>>]
        BY <2>2, <3>1, <3>3
      <4> QED BY <4>1 DEF Orderly, Begun, Unstarted
    <3> QED BY <3>2, <3>3
  <2> QED BY <2>1, <2>3 DEF Orderly
<1>3. CASE FinishLayer \/ OverBudget \/ Complete
  <2>1. UNCHANGED frame /\ \A c \in Gathered : frame[c].pc = "done"
    BY <1>3 DEF FinishLayer, OverBudget, Complete, Between, Gathered
  <2> QED BY <2>1, LayersQuiet DEF Orderly, Unstarted, Begun
<1>4. CASE Execute
  BY <1>4 DEF Execute, End, Orderly, Unstarted, Begun
<1>5. CASE TimeOut
  <2>1. frame' = [c \in Coroutines |-> IF frame[c].pc \in {"assign", "waiting"}
                                       THEN [frame[c] EXCEPT !.pc = "done"] ELSE frame[c]]
    BY <1>5 DEF TimeOut
  <2>2. ASSUME NEW c \in Coroutines
        PROVE  frame'[c].pc = IF frame[c].pc = "none" THEN "none" ELSE "done"
    <3>1. frame[c] \in FrameType
      BY <1>0
    <3>2. CASE frame[c].pc \in {"assign", "waiting"}
      <4>1. frame'[c] = [frame[c] EXCEPT !.pc = "done"]
        BY <2>1, <3>2
      <4> QED BY <3>1, <3>2, <4>1 DEF FrameType
    <3>3. CASE frame[c].pc \notin {"assign", "waiting"}
      BY <1>0, <2>1, <3>3
    <3> QED BY <3>2, <3>3
  <2>3. \A t \in Tasks : (Unstarted(t) \/ Begun(t))'
    BY <2>2, CoroutineShape DEF Orderly, Unstarted, Begun
  <2> QED BY <2>2, <2>3 DEF Orderly
<1>6. ASSUME UNCHANGED <<frame, wf>>
      PROVE  Orderly'
  BY <1>6 DEF Orderly, Unstarted, Begun
<1>7. CASE Delete \/ UNCHANGED vars
  BY <1>6, <1>7 DEF Delete, vars
<1>8. ASSUME NEW d \in board, DelegationMoves(d)
      PROVE  Orderly'
  BY <1>6, <1>8 DEF DelegationMoves
<1> QED BY <1>1, <1>2, <1>3, <1>4, <1>5, <1>7, <1>8 DEF Next, Engine

LEMMA OrderlyHolds == Spec => []Orderly
<1>1. Init => Orderly
  <2> SUFFICES ASSUME Init PROVE Orderly
    OBVIOUS
  <2>1. \A c \in Coroutines : frame[c].pc = "none"
    BY DEF Init
  <2>2. \A t \in Tasks : Unstarted(t)
    BY <2>1, WorkflowAssumption, CoroutineShape DEF Unstarted
  <2> QED BY <2>1, <2>2 DEF Orderly
<1>2. TypeOK /\ Layered /\ Orderly /\ [Next]_vars => Orderly'
  BY OrderlyStep, WorkflowAssumption
<1> QED BY <1>1, <1>2, LayeredHolds, WorkflowTypes, PTL DEF Spec

-----------------------------------------------------------------------------
\* Steps.

\* Where no layer begins and no coroutine moves, the caller sees nothing.
LEMMA PhasesSame ==
  ASSUME UNCHANGED frame, past' \cup layer' = past \cup layer
  PROVE  UNCHANGED [t \in Tasks |-> Phase(t)]
<1>1. \A t \in Tasks : Phase(t)' = Phase(t)
  BY DEF Phase, Returned, Unstarted
<1> QED BY <1>1

\* A task whose layer is over, or whose coroutines wait for nothing, is not active.
LEMMA QuietPhases ==
  ASSUME Orderly, \A c \in Coroutines : frame[c].pc \in {"none", "done"},
         WorkflowAssumption, NEW t \in Tasks
  PROVE  Phase(t) # "active" /\ (t \in past => Phase(t) = "over")
<1>1. Unstarted(t) \/ Returned(t)
  <2>1. \A i \in 1 .. copies[t] : <<t, i>> \in Coroutines
    BY CoroutineShape
  <2> QED BY <2>1 DEF Orderly, Begun, Returned
<1> QED BY <1>1 DEF Phase

\* The verdict given between two layers, or before the first.
LEMMA VerdictStep ==
  ASSUME WorkflowAssumption, Orderly, UNCHANGED <<deps, frame>>,
         past' \cup layer' = past \cup layer,
         \A c \in Coroutines : frame[c].pc \in {"none", "done"},
         wf \in {"pending", "running"}, wf' \in {"completed", "failed"},
         wf' = "completed" => past = Tasks
  PROVE  Plan!Judge
<1>1. Verdict = "open" /\ Verdict' = wf'
  BY DEF Verdict, Ended
<1>2. \A t \in Tasks : Phase(t) # "active" /\ (t \in past => Phase(t) = "over")
  BY QuietPhases
<1>3. UNCHANGED [t \in Tasks |-> Phase(t)]
  BY PhasesSame
<1>4. /\ \A t \in Tasks : [u \in Tasks |-> Phase(u)][t] # "active"
      /\ wf' = "completed" => \A t \in Tasks : [u \in Tasks |-> Phase(u)][t] = "over"
  BY <1>2
<1> QED BY <1>1, <1>3, <1>4 DEF Plan!Judge

\* A coroutine goes on, or is the last of its task to return.
LEMMA RunningPlan ==
  ASSUME WorkflowAssumption, TypeOK, Orderly, NEW c \in Coroutines, Running(c)
  PROVE  UNCHANGED <<deps, [t \in Tasks |-> Phase(t)], Verdict>> \/ Plan!Finish(c[1])
<1>0. c[1] \in Tasks /\ c[2] \in 1 .. copies[c[1]] /\ c = <<c[1], c[2]>>
  BY CoroutineParts
<1>1. /\ frame[c].pc \in {"assign", "waiting"}
      /\ frame'[c].pc \in {"assign", "waiting", "done"}
      /\ \A b \in Coroutines : b # c => frame'[b] = frame[b]
      /\ UNCHANGED <<deps, wf, past, layer>>
  BY RunningEffect
<1>2. Verdict = "open" /\ Verdict' = "open"
  BY <1>1 DEF Orderly, Verdict, Ended
<1>3. \A t \in Tasks \ {c[1]} : Phase(t)' = Phase(t)
  <2>1. ASSUME NEW t \in Tasks \ {c[1]}, NEW i \in 1 .. copies[t]
        PROVE  frame'[<<t, i>>] = frame[<<t, i>>]
    <3>1. <<t, i>> \in Coroutines /\ <<t, i>> # c
      BY <1>0, CoroutineShape
    <3> QED BY <1>1, <3>1
  <2>2. \A t \in Tasks \ {c[1]} :
          (Returned(t)' <=> Returned(t)) /\ (Unstarted(t)' <=> Unstarted(t))
    BY <2>1 DEF Returned, Unstarted
  <2> QED BY <1>1, <2>2 DEF Phase
<1>4. Phase(c[1]) = "active"
  BY <1>0, <1>1 DEF Phase, Returned, Unstarted
<1>5. Phase(c[1])' \in {"active", "over"}
  BY <1>0, <1>1 DEF Phase, Unstarted
<1>6. CASE Phase(c[1])' = "active"
  <2>1. \A t \in Tasks : Phase(t)' = Phase(t)
    BY <1>3, <1>4, <1>6
  <2> QED BY <1>1, <1>2, <2>1
<1>7. CASE Phase(c[1])' = "over"
  <2> DEFINE before == [t \in Tasks |-> Phase(t)]
             after == [t \in Tasks |-> Phase(t)']
  <2>1. after = [before EXCEPT ![c[1]] = "over"] /\ before[c[1]] = "active"
    BY <1>0, <1>3, <1>4, <1>7
  <2> QED BY <1>1, <1>2, <2>1 DEF Plan!Finish
<1> QED BY <1>5, <1>6, <1>7

\* A layer begins.
LEMMA StartPlan ==
  ASSUME WorkflowAssumption, TypeOK, Layered, StartLayer
  PROVE  \E S \in SUBSET Tasks : \E skipped \in SUBSET S : Plan!Begin(S, skipped)
<1>0. /\ wf = "running" /\ layer = {} /\ layer' = Ready /\ Ready \subseteq Tasks \ past
      /\ \A t \in Ready : deps[t] \subseteq past
      /\ UNCHANGED <<deps, wf, past>> /\ past \subseteq Tasks
      /\ frame \in [Coroutines -> FrameType]
  BY DEF StartLayer, Between, Ready, graph, TypeOK
<1>1. PICK skipped \in SUBSET (conditional \cap Ready) :
        frame' = [c \in Coroutines |->
                    IF c[1] \in Ready \ skipped
                    THEN [frame[c] EXCEPT !.pc = "assign"] ELSE frame[c]]
  BY DEF StartLayer
<1>2. Verdict = "open" /\ Verdict' = "open"
  BY <1>0 DEF Verdict, Ended
<1>3. \A t \in Ready : Unstarted(t) /\ ~Returned(t) /\ Phase(t) = "waiting"
  BY <1>0, FirstCopy DEF Layered, Phase
<1>4. \A t \in past : Phase(t) = "over"
  BY <1>0 DEF Layered, Phase
<1>5. ASSUME NEW t \in Tasks \ (Ready \ skipped)
      PROVE  (Returned(t)' <=> Returned(t)) /\ (Unstarted(t)' <=> Unstarted(t))
  <2>1. ASSUME NEW i \in 1 .. copies[t]
        PROVE  frame'[<<t, i>>] = frame[<<t, i>>]
    <3>1. <<t, i>> \in Coroutines /\ <<t, i>>[1] = t
      BY CoroutineShape
    <3> QED BY <1>1, <1>5, <3>1
  <2> QED BY <2>1 DEF Returned, Unstarted
<1>6. ASSUME NEW t \in Ready \ skipped
      PROVE  Phase(t)' = "active"
  <2>1. 1 \in 1 .. copies[t] /\ <<t, 1>> \in Coroutines /\ frame[<<t, 1>>] \in FrameType
    BY <1>0, FirstCopy, CoroutineShape
  <2>2. frame'[<<t, 1>>] = [frame[<<t, 1>>] EXCEPT !.pc = "assign"]
    BY <1>1, <2>1
  <2>3. frame'[<<t, 1>>].pc = "assign"
    BY <2>1, <2>2 DEF FrameType
  <2> QED BY <2>1, <2>3 DEF Phase, Returned, Unstarted
<1>7. \A t \in skipped : Phase(t)' = "over"
  BY <1>0, <1>3, <1>5 DEF Phase
<1>8. \A t \in Tasks \ Ready : Phase(t)' = Phase(t)
  BY <1>0, <1>5 DEF Phase
<1> DEFINE before == [t \in Tasks |-> Phase(t)]
           after == [t \in Tasks |-> Phase(t)']
<1>9. after = [t \in Tasks |-> IF t \in skipped THEN "over"
                               ELSE IF t \in Ready THEN "active" ELSE before[t]]
  BY <1>0, <1>6, <1>7, <1>8
<1>10. \A t \in Ready : before[t] = "waiting" /\ \A u \in deps[t] : before[u] = "over"
  BY <1>0, <1>3, <1>4
<1>11. Plan!Begin(Ready, skipped)
  BY <1>0, <1>2, <1>9, <1>10 DEF Plan!Begin
<1> QED BY <1>0, <1>11

\* The workflow's time is up.
LEMMA TimeOutPlan ==
  ASSUME WorkflowAssumption, TypeOK, Orderly, TimeOut
  PROVE  Plan!Abandon
<1>0. /\ wf = "running" /\ wf' = "timeout" /\ UNCHANGED <<deps, past, layer>>
      /\ frame' = [c \in Coroutines |-> IF frame[c].pc \in {"assign", "waiting"}
                                        THEN [frame[c] EXCEPT !.pc = "done"] ELSE frame[c]]
  BY DEF TimeOut, End, graph
<1>1. Verdict = "open" /\ Verdict' = "timeout"
  BY <1>0 DEF Verdict, Ended
<1>2. ASSUME NEW c \in Coroutines
      PROVE  frame'[c].pc = IF frame[c].pc = "none" THEN "none" ELSE "done"
  <2>1. frame[c] \in FrameType
    BY DEF TypeOK
  <2>2. CASE frame[c].pc \in {"assign", "waiting"}
    <3>1. frame'[c] = [frame[c] EXCEPT !.pc = "done"]
      BY <1>0, <2>2
    <3> QED BY <2>1, <2>2, <3>1 DEF FrameType
  <2>3. CASE frame[c].pc \notin {"assign", "waiting"}
    BY <1>0, <2>1, <2>3 DEF FrameType
  <2> QED BY <2>2, <2>3
<1>3. ASSUME NEW t \in Tasks
      PROVE  Phase(t)' = IF Phase(t) = "active" THEN "over" ELSE Phase(t)
  <2>1. \A i \in 1 .. copies[t] : <<t, i>> \in Coroutines
    BY CoroutineShape
  <2>2. CASE Unstarted(t)
    <3>1. Unstarted(t)' /\ ~Returned(t) /\ ~Returned(t)'
      <4>1. 1 \in 1 .. copies[t]
        BY FirstCopy
      <4> QED BY <1>2, <2>1, <2>2, <4>1 DEF Unstarted, Returned
    <3> QED BY <1>0, <2>2, <3>1 DEF Phase
  <2>3. CASE ~Unstarted(t)
    <3>1. Returned(t)'
      BY <1>2, <2>1, <2>3 DEF Orderly, Begun, Returned
    <3> QED BY <2>3, <3>1 DEF Phase
  <2> QED BY <2>2, <2>3
<1> DEFINE before == [t \in Tasks |-> Phase(t)]
           after == [t \in Tasks |-> Phase(t)']
<1>4. after = [t \in Tasks |-> IF before[t] = "active" THEN "over" ELSE before[t]]
  BY <1>3
<1> QED BY <1>0, <1>1, <1>4 DEF Plan!Abandon

\* Every step is a step of Schedule, or none.
LEMMA PlanStep ==
  ASSUME WorkflowAssumption, TypeOK, Layered, Orderly, [Next]_vars
  PROVE  [Plan!Next]_<<deps, [t \in Tasks |-> Phase(t)], Verdict>>
<1>1. ASSUME NEW c \in Coroutines, Running(c)
      PROVE  UNCHANGED <<deps, [t \in Tasks |-> Phase(t)], Verdict>> \/ Plan!Next
  <2>1. c[1] \in Tasks
    BY CoroutineParts
  <2> QED BY <1>1, <2>1, RunningPlan DEF Plan!Next
<1>2. CASE StartLayer
  BY <1>2, StartPlan DEF Plan!Next
<1>3. CASE TimeOut
  BY <1>3, TimeOutPlan DEF Plan!Next
<1>4. ASSUME UNCHANGED <<deps, frame, wf>>, past' \cup layer' = past \cup layer
      PROVE  UNCHANGED <<deps, [t \in Tasks |-> Phase(t)], Verdict>>
  BY <1>4, PhasesSame DEF Verdict
<1>5. CASE FinishLayer
  <2>1. /\ wf = "running" /\ wf' \in {"running", "failed"} /\ UNCHANGED <<deps, frame>>
        /\ past' \cup layer' = past \cup layer
        /\ \A c \in Gathered : frame[c].pc = "done"
    BY <1>5 DEF FinishLayer, End, graph
  <2>2. wf' = "failed" => Plan!Judge
    BY <2>1, LayersQuiet, VerdictStep
  <2> QED BY <1>4, <2>1, <2>2 DEF Plan!Next
<1>6. CASE OverBudget \/ Complete
  <2>1. /\ wf = "running" /\ wf' \in {"completed", "failed"} /\ UNCHANGED <<deps, frame>>
        /\ UNCHANGED <<past, layer>> /\ layer = {}
        /\ wf' = "completed" => past = Tasks
    BY <1>6 DEF OverBudget, Complete, Between, End, graph
  <2>2. \A c \in Gathered : frame[c].pc = "done"
    BY <2>1 DEF Gathered
  <2>3. Plan!Judge
    BY <2>1, <2>2, LayersQuiet, VerdictStep
  <2> QED BY <2>3 DEF Plan!Next
<1>7. CASE Execute
  <2>1. /\ wf = "pending" /\ wf' \in {"running", "failed"}
        /\ UNCHANGED <<deps, frame, past, layer>>
    BY <1>7 DEF Execute, End, graph
  <2>2. \A c \in Coroutines : frame[c].pc \in {"none", "done"}
    BY <2>1 DEF Orderly
  <2>3. CASE wf' = "failed"
    <3>1. Plan!Judge
      BY <2>1, <2>2, <2>3, VerdictStep
    <3> QED BY <3>1 DEF Plan!Next
  <2>4. CASE wf' = "running"
    BY <2>1, <2>4, PhasesSame DEF Verdict, Ended
  <2> QED BY <2>1, <2>3, <2>4
<1>8. CASE Delete \/ UNCHANGED vars
  BY <1>4, <1>8 DEF Delete, vars, graph
<1>9. ASSUME NEW d \in board, DelegationMoves(d)
      PROVE  UNCHANGED <<deps, [t \in Tasks |-> Phase(t)], Verdict>>
  BY <1>4, <1>9 DEF DelegationMoves, graph
<1> QED BY <1>1, <1>2, <1>3, <1>5, <1>6, <1>7, <1>8, <1>9 DEF Next, Engine

-----------------------------------------------------------------------------
\* RunsAsPlanned of the model: with its layers, clones, retries and timeouts, the
\* engine runs each task at most once and after what it depends on, and gives its
\* verdict once, when no task is running (execute, _execute_layer, _execute_task).
THEOREM WorkflowsRunAsPlanned == Spec => RunsAsPlanned
<1>1. Init => Plan!Init
  <2> SUFFICES ASSUME Init PROVE Plan!Init
    OBVIOUS
  <2>1. \A c \in Coroutines : frame[c].pc = "none"
    BY DEF Init
  <2>2. \A t \in Tasks : Unstarted(t) /\ ~Returned(t)
    BY <2>1, WorkflowAssumption, CoroutineShape, FirstCopy DEF Unstarted
  <2>3. [t \in Tasks |-> Phase(t)] = [t \in Tasks |-> "waiting"]
    BY <2>2 DEF Phase, Init
  <2> QED BY <2>3 DEF Init, Verdict, Ended, Plan!Init
<1>2. TypeOK /\ Layered /\ Orderly /\ [Next]_vars =>
        [Plan!Next]_(Plan!vars)
  BY PlanStep, WorkflowAssumption DEF Plan!vars
<1> QED BY <1>1, <1>2, OrderlyHolds, LayeredHolds, WorkflowTypes, PTL
        DEF Spec, RunsAsPlanned, Plan!Spec
=============================================================================
