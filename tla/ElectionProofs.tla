--------------------------- MODULE ElectionProofs ---------------------------
(***************************************************************************)
(* Theorems about Election, for any number of nodes, crashes and stops.    *)
(***************************************************************************)
EXTENDS Election, TLAPS

\* Handling a claim keeps the types.
LEMMA ReceiveClaimType ==
  ASSUME TypeOK, NEW m \in Nodes, NEW n \in Nodes, ReceiveClaim(m, n)
  PROVE  TypeOK'
<1>1. net' \subseteq net /\ UNCHANGED <<up, loop, known, reg, stops>>
  BY DEF ReceiveClaim, monitor
<1>2. CASE Rejects(n, m)
  BY <1>1, <1>2 DEF TypeOK, ReceiveClaim, view
<1>3. CASE ~Rejects(n, m)
  <2>1. /\ coord' = [coord EXCEPT ![n] = m]
        /\ age' = [age EXCEPT ![n] = "fresh"]
        /\ acting' = [acting EXCEPT ![n] = FALSE]
    BY <1>3 DEF ReceiveClaim, Follow
  <2> QED BY <1>1, <2>1 DEF TypeOK
<1> QED BY <1>2, <1>3

LEMMA MonitoringType ==
  ASSUME TypeOK, NEW n \in Nodes, Monitoring(n)
  PROVE  TypeOK'
<1>1. CASE Query(n)
  <2>1. known' \in [Nodes -> SUBSET Nodes]
    BY <1>1 DEF Query, TypeOK, Routers
  <2> QED BY <1>1, <2>1 DEF Query, RefreshSelf, TypeOK
<1>2. CASE Claim(n)
  BY <1>2 DEF Claim, Follow, TypeOK
<1>3. CASE Abstain(n)
  BY <1>3 DEF Abstain, TypeOK
<1>4. CASE Broadcast(n)
  BY <1>4 DEF Broadcast, TypeOK, view
<1> QED BY <1>1, <1>2, <1>3, <1>4 DEF Monitoring

\* Every variable keeps its type in every behaviour.
THEOREM ElectionTypes == Spec => []TypeOK
<1>1. Init => TypeOK
  BY DEF Init, TypeOK
<1>2. TypeOK /\ [Next]_vars => TypeOK'
  <2> SUFFICES ASSUME TypeOK, [Next]_vars PROVE TypeOK'
    OBVIOUS
  <2>1. ASSUME NEW n \in Nodes, Heartbeat(n) \/ AgePasses(n) \/ RefreshRow(n) \/ Reregister(n) PROVE TypeOK'
    BY <2>1 DEF Heartbeat, AgePasses, RefreshRow, Reregister, TypeOK, view, monitor
  <2>2. ASSUME NEW n \in Nodes, Start(n) PROVE TypeOK'
    BY <2>2 DEF Start, TypeOK, monitor
  <2>3. ASSUME NEW n \in Nodes, Crash(n) \/ Stop(n) PROVE TypeOK'
    <3>1. Gone(n) /\ reg' \in [Nodes -> {"absent", "active", "offline"}]
      BY <2>3 DEF Crash, Stop, TypeOK
    <3>2. net' \in SUBSET net
      BY <3>1 DEF Gone
    <3> QED BY <3>1, <3>2 DEF Gone, TypeOK
  <2>4. CASE UNCHANGED vars
    BY <2>4 DEF vars, TypeOK
  <2> QED BY <2>1, <2>2, <2>3, <2>4, MonitoringType, ReceiveClaimType DEF Next
<1> QED BY <1>1, <1>2, PTL DEF Spec

-----------------------------------------------------------------------------
(***************************************************************************)
(* No self-claim loop: from the refresh of one's own registration to the   *)
(* decision, nothing makes it old.                                         *)
(***************************************************************************)

OwnIsFresh ==
  \A n \in Nodes : loop[n] = "deciding" /\ coord[n] = n => age[n] = "fresh"

LEMMA OwnIsFreshStep == TypeOK /\ OwnIsFresh /\ [Next]_vars => OwnIsFresh'
<1> SUFFICES ASSUME TypeOK, OwnIsFresh, [Next]_vars PROVE OwnIsFresh'
  OBVIOUS
<1>1. ASSUME NEW n \in Nodes, Monitoring(n) PROVE OwnIsFresh'
  BY <1>1 DEF Monitoring, Query, RefreshSelf, Claim, Follow, Abstain, Broadcast, TypeOK,
              OwnIsFresh, view
<1>2. ASSUME NEW n \in Nodes, NEW m \in Nodes, ReceiveClaim(m, n) PROVE OwnIsFresh'
  BY <1>2 DEF ReceiveClaim, Follow, TypeOK, OwnIsFresh, view, monitor
<1>3. ASSUME NEW n \in Nodes, Heartbeat(n) \/ AgePasses(n) \/ RefreshRow(n) \/ Reregister(n) PROVE OwnIsFresh'
  BY <1>3 DEF Heartbeat, AgePasses, RefreshRow, Reregister, TypeOK, OwnIsFresh, view, monitor
<1>4. ASSUME NEW n \in Nodes, Start(n) \/ Crash(n) \/ Stop(n) PROVE OwnIsFresh'
  BY <1>4 DEF Start, Crash, Stop, Gone, TypeOK, OwnIsFresh, monitor
<1>5. CASE UNCHANGED vars
  BY <1>5 DEF vars, OwnIsFresh
<1> QED BY <1>1, <1>2, <1>3, <1>4, <1>5 DEF Next

\* A node that is its own coordinator does not claim the role again.
THEOREM NoSelfClaims == Spec => NoSelfClaimLoop
<1>1. Init => OwnIsFresh
  BY DEF Init, OwnIsFresh
<1>2. TypeOK /\ OwnIsFresh /\ [Next]_vars
        => [\A n \in Nodes :
              loop[n] = "deciding" /\ loop'[n] = "claiming" => coord[n] # n]_vars
  <2> SUFFICES ASSUME TypeOK, OwnIsFresh, Next, NEW n \in Nodes,
                      loop[n] = "deciding", loop'[n] = "claiming"
               PROVE  coord[n] # n
    OBVIOUS
  <2>1. PICK k \in Nodes : \/ Monitoring(k) \/ Heartbeat(k) \/ AgePasses(k)
                           \/ RefreshRow(k) \/ Reregister(k) \/ Start(k) \/ Crash(k) \/ Stop(k)
                           \/ \E m \in Nodes : ReceiveClaim(m, k)
    BY DEF Next
  <2>2. loop' # loop
    OBVIOUS
  <2>3. Claim(n)
    BY <2>1, <2>2 DEF Monitoring, Query, Claim, Abstain, Broadcast, Heartbeat, AgePasses,
                      RefreshRow, Reregister, Start, Crash, Stop, Gone, ReceiveClaim, TypeOK, monitor
  <2> QED BY <2>3, NodeAssumption DEF Claim, Down, OwnIsFresh
<1> QED BY <1>1, <1>2, OwnIsFreshStep, ElectionTypes, PTL DEF Spec, NoSelfClaimLoop

-----------------------------------------------------------------------------
(***************************************************************************)
(* Split brains heal.  The invariant says what keeps a junior node, about  *)
(* to decide, from claiming behind the back of a senior coordinator whose  *)
(* claim it has already handled or never got: it sees it in the table, or  *)
(* has just registered somebody.                                           *)
(***************************************************************************)

Coordinates(n) == up[n] /\ coord[n] = n

\* m's claim has not reached n yet.
Outstanding(m, n) == <<m, n>> \in net \/ loop[m] = "claiming"

Warned ==
  \A m, n \in Nodes :
    /\ Coordinates(m) /\ addr[m] < addr[n]
    /\ up[n] /\ loop[n] = "deciding"
    => \/ Outstanding(m, n)
       \/ m \in known[n]
       \/ coord[n] # None /\ age[n] = "fresh"

Reliable == ~Lossy /\ ~PgFails /\ \A n \in Nodes : role[n] = "router"

LEMMA HealsDef ==
  SplitBrainHeals <=>
    \A m, n \in Nodes : Coordinates(m) /\ Coordinates(n) /\ addr[m] < addr[n] => Outstanding(m, n)
BY DEF SplitBrainHeals, Coordinates, Outstanding

LEMMA QueryHeals ==
  ASSUME Reliable, TypeOK, SplitBrainHeals, Warned, NEW k \in Nodes, Query(k)
  PROVE  SplitBrainHeals' /\ Warned'
<1>1. known' = [known EXCEPT ![k] = Routers]
  BY DEF Query, Reliable
<1>2. \A m \in Nodes \ {k} : up[m] => m \in known'[k]
  BY <1>1 DEF Query, Refreshed, Reliable, Routers, TypeOK
<1>3. /\ UNCHANGED <<up, coord, net>>
      /\ \A n \in Nodes \ {k} : loop'[n] = loop[n] /\ known'[n] = known[n] /\ age'[n] = age[n]
      /\ loop[k] = "idle" /\ loop'[k] = "deciding"
  BY <1>1 DEF Query, RefreshSelf, TypeOK
<1>4. \A m, n \in Nodes : Outstanding(m, n)' <=> Outstanding(m, n)
  BY <1>3 DEF Outstanding
<1>5. SplitBrainHeals'
  BY <1>3 DEF SplitBrainHeals
<1>6. Warned'
  BY <1>2, <1>3, <1>4, NodeAssumption DEF Warned, Coordinates
<1> QED BY <1>5, <1>6

LEMMA ClaimHeals ==
  ASSUME Reliable, TypeOK, SplitBrainHeals, Warned, NEW k \in Nodes, Claim(k)
  PROVE  SplitBrainHeals' /\ Warned'
<1>1. /\ UNCHANGED <<up, net>>
      /\ \A n \in Nodes \ {k} : loop'[n] = loop[n] /\ known'[n] = known[n]
                                /\ age'[n] = age[n] /\ coord'[n] = coord[n]
      /\ loop[k] = "deciding" /\ loop'[k] = "claiming" /\ up[k]
  BY DEF Claim, Follow, TypeOK
<1>2. \A m \in Nodes : Coordinates(m) /\ addr[m] < addr[k] => Outstanding(m, k)
  <2> SUFFICES ASSUME NEW m \in Nodes, Coordinates(m), addr[m] < addr[k], ~Outstanding(m, k)
               PROVE  FALSE
    OBVIOUS
  <2>1. m \notin known[k]
    <3>1. Senior(k)
      BY DEF Claim
    <3>2. addr[m] \in Nat /\ addr[k] \in Nat
      BY NodeAssumption
    <3> QED BY <3>1, <3>2 DEF Senior
  <2>2. ~(coord[k] # None /\ age[k] = "fresh")
    BY DEF Claim, Down
  <2> QED BY <1>1, <2>1, <2>2 DEF Warned
<1>3. \A m \in Nodes, n \in Nodes : Outstanding(m, n) => Outstanding(m, n)'
  BY <1>1 DEF Outstanding
<1>4. \A n \in Nodes : Outstanding(k, n)'
  BY <1>1 DEF Outstanding
<1>5. SplitBrainHeals'
  BY <1>1, <1>2, <1>3, <1>4 DEF SplitBrainHeals, Coordinates, Outstanding
<1>6. Warned'
  BY <1>1, <1>3, <1>4 DEF Warned, Coordinates
<1> QED BY <1>5, <1>6

LEMMA AbstainHeals ==
  ASSUME TypeOK, SplitBrainHeals, Warned, NEW k \in Nodes, Abstain(k)
  PROVE  SplitBrainHeals' /\ Warned'
<1>1. /\ UNCHANGED <<up, coord, age, net>>
      /\ \A n \in Nodes \ {k} : loop'[n] = loop[n] /\ known'[n] = known[n]
      /\ loop[k] = "deciding" /\ loop'[k] = "idle"
  BY DEF Abstain, TypeOK
<1>2. \A m, n \in Nodes : Outstanding(m, n)' <=> Outstanding(m, n)
  BY <1>1 DEF Outstanding
<1> QED BY <1>1, <1>2 DEF SplitBrainHeals, Warned, Coordinates, Outstanding

LEMMA BroadcastHeals ==
  ASSUME Reliable, TypeOK, SplitBrainHeals, Warned, NEW k \in Nodes, Broadcast(k)
  PROVE  SplitBrainHeals' /\ Warned'
<1>1. /\ UNCHANGED <<up, coord, age, known>>
      /\ \A n \in Nodes \ {k} : loop'[n] = loop[n]
      /\ loop[k] = "claiming" /\ loop'[k] = "idle"
  BY DEF Broadcast, TypeOK, view
<1>2. net \subseteq net' /\ \A n \in Nodes \ {k} : up[n] => <<k, n>> \in net'
  BY DEF Broadcast, Reliable
<1>3. \A m, n \in Nodes : Outstanding(m, n) /\ up[n] /\ m # n => Outstanding(m, n)'
  BY <1>1, <1>2 DEF Outstanding
<1>4. \A m, n \in Nodes : addr[m] < addr[n] => m # n
  BY NodeAssumption
<1>5. SplitBrainHeals'
  BY <1>1, <1>3, <1>4 DEF SplitBrainHeals, Outstanding
<1>6. Warned'
  BY <1>1, <1>3, <1>4 DEF Warned, Coordinates
<1> QED BY <1>5, <1>6

\* A claim of a senior node is accepted, by a coordinator too.
LEMMA ReceiveHeals ==
  ASSUME TypeOK, SplitBrainHeals, Warned, NEW j \in Nodes, NEW k \in Nodes, ReceiveClaim(j, k)
  PROVE  SplitBrainHeals' /\ Warned'
<1>1. /\ UNCHANGED <<up, loop, known>>
      /\ \A n \in Nodes \ {k} : coord'[n] = coord[n] /\ age'[n] = age[n]
  BY DEF ReceiveClaim, Follow, TypeOK, view, monitor
<1>2. \A m, n \in Nodes : Outstanding(m, n) => Outstanding(m, n)' \/ (m = j /\ n = k)
  BY <1>1 DEF Outstanding, ReceiveClaim
<1>3. \/ coord'[k] = coord[k] /\ age'[k] = age[k] /\ addr[k] < addr[j]
      \/ coord'[k] = j /\ age'[k] = "fresh"
  BY DEF ReceiveClaim, Rejects, Follow, TypeOK, view
<1>4. \A m, n \in Nodes : addr[m] < addr[n] => ~(addr[n] < addr[m]) /\ m # n
  BY NodeAssumption
<1>5. j # None /\ j # k
  BY NodeAssumption DEF ReceiveClaim, TypeOK
<1>6. ASSUME NEW m \in Nodes, Coordinates(m)' PROVE Coordinates(m) /\ (m = k => coord'[k] = coord[k])
  BY <1>1, <1>3, <1>5, <1>6 DEF Coordinates
<1>7. ASSUME NEW m \in Nodes, NEW n \in Nodes, Coordinates(m)', Coordinates(n)', addr[m] < addr[n]
      PROVE  Outstanding(m, n)'
  <2>1. Outstanding(m, n)
    BY <1>6, <1>7, HealsDef
  <2>2. ~(m = j /\ n = k)
    BY <1>3, <1>4, <1>5, <1>6, <1>7 DEF Coordinates
  <2> QED BY <1>2, <2>1, <2>2
<1>8. ASSUME NEW m \in Nodes, NEW n \in Nodes, Coordinates(m)', addr[m] < addr[n],
             up'[n], loop'[n] = "deciding"
      PROVE  Outstanding(m, n)' \/ m \in known'[n] \/ (coord'[n] # None /\ age'[n] = "fresh")
  <2>1. Outstanding(m, n) \/ m \in known[n] \/ (coord[n] # None /\ age[n] = "fresh")
    BY <1>1, <1>6, <1>8 DEF Warned
  <2>2. CASE Outstanding(m, n)
    <3>1. m = j /\ n = k => coord'[n] # None /\ age'[n] = "fresh"
      BY <1>3, <1>4, <1>5, <1>8
    <3> QED BY <1>2, <2>2, <3>1
  <2>3. CASE coord[n] # None /\ age[n] = "fresh"
    BY <1>1, <1>3, <1>5, <2>3
  <2> QED BY <1>1, <2>1, <2>2, <2>3
<1>9. SplitBrainHeals'
  BY <1>7 DEF SplitBrainHeals, Coordinates, Outstanding
<1>10. Warned'
  BY <1>8 DEF Warned
<1> QED BY <1>9, <1>10

\* Heartbeats, time and the table change nobody's registration.
LEMMA AmbientHeals ==
  ASSUME TypeOK, SplitBrainHeals, Warned, NEW k \in Nodes,
         Heartbeat(k) \/ AgePasses(k) \/ RefreshRow(k) \/ Reregister(k)
  PROVE  SplitBrainHeals' /\ Warned'
<1>1. UNCHANGED <<up, coord, loop, known, net>>
  BY DEF Heartbeat, AgePasses, RefreshRow, Reregister, view, monitor
<1>2. \A n \in Nodes : loop[n] = "deciding" /\ age[n] = "fresh" => age'[n] = "fresh"
  BY DEF Heartbeat, AgePasses, RefreshRow, Reregister, view, TypeOK
<1> QED BY <1>1, <1>2 DEF SplitBrainHeals, Warned, Coordinates, Outstanding

LEMMA StartHeals ==
  ASSUME Reliable, TypeOK, SplitBrainHeals, Warned, NEW k \in Nodes, Start(k), loop[k] = "idle"
  PROVE  SplitBrainHeals' /\ Warned'
<1>1. /\ UNCHANGED <<loop, known, net>>
      /\ \A n \in Nodes \ {k} : up'[n] = up[n] /\ coord'[n] = coord[n] /\ age'[n] = age[n]
      /\ coord'[k] = None
  BY DEF Start, Reliable, TypeOK, monitor
<1>2. None # k
  BY NodeAssumption
<1> QED BY <1>1, <1>2 DEF SplitBrainHeals, Warned, Coordinates, Outstanding

LEMMA GoneHeals ==
  ASSUME TypeOK, SplitBrainHeals, Warned, NEW k \in Nodes, Gone(k)
  PROVE  SplitBrainHeals' /\ Warned'
<1>1. /\ \A n \in Nodes \ {k} : /\ up'[n] = up[n] /\ coord'[n] = coord[n] /\ age'[n] = age[n]
                               /\ loop'[n] = loop[n] /\ known'[n] = known[n]
      /\ ~up'[k]
  BY DEF Gone, TypeOK
<1>2. \A m \in Nodes, n \in Nodes \ {k} : <<m, n>> \in net => <<m, n>> \in net'
  BY DEF Gone
<1> QED BY <1>1, <1>2 DEF SplitBrainHeals, Warned, Coordinates, Outstanding

\* The monitor loop of a node that is down is not running.
Resting == \A n \in Nodes : ~up[n] => loop[n] = "idle"

LEMMA RestingStep == TypeOK /\ Resting /\ [Next]_vars => Resting'
<1> SUFFICES ASSUME TypeOK, Resting, [Next]_vars PROVE Resting'
  OBVIOUS
<1>1. ASSUME NEW n \in Nodes, Monitoring(n) PROVE Resting'
  BY <1>1 DEF Monitoring, Query, Claim, Abstain, Broadcast, TypeOK, Resting
<1>2. ASSUME NEW n \in Nodes, \/ Heartbeat(n) \/ AgePasses(n) \/ RefreshRow(n) \/ Reregister(n)
                              \/ \E m \in Nodes : ReceiveClaim(m, n)
      PROVE  Resting'
  BY <1>2 DEF Heartbeat, AgePasses, RefreshRow, Reregister, ReceiveClaim, monitor, Resting
<1>3. ASSUME NEW n \in Nodes, Start(n) \/ Crash(n) \/ Stop(n) PROVE Resting'
  BY <1>3 DEF Start, Crash, Stop, Gone, TypeOK, Resting, monitor
<1>4. CASE UNCHANGED vars
  BY <1>4 DEF vars, Resting
<1> QED BY <1>1, <1>2, <1>3, <1>4 DEF Next

LEMMA HealsStep ==
  ASSUME Reliable
  PROVE  TypeOK /\ Resting /\ SplitBrainHeals /\ Warned /\ [Next]_vars
           => SplitBrainHeals' /\ Warned'
<1> SUFFICES ASSUME TypeOK, Resting, SplitBrainHeals, Warned, [Next]_vars
             PROVE  SplitBrainHeals' /\ Warned'
  OBVIOUS
<1>1. ASSUME NEW n \in Nodes, Monitoring(n) PROVE SplitBrainHeals' /\ Warned'
  BY <1>1, QueryHeals, ClaimHeals, AbstainHeals, BroadcastHeals DEF Monitoring
<1>2. ASSUME NEW n \in Nodes, Start(n) PROVE SplitBrainHeals' /\ Warned'
  BY <1>2, StartHeals DEF Start, Resting
<1>3. ASSUME NEW n \in Nodes, Crash(n) \/ Stop(n) PROVE SplitBrainHeals' /\ Warned'
  BY <1>3, GoneHeals DEF Crash, Stop
<1>4. CASE UNCHANGED vars
  BY <1>4 DEF vars, SplitBrainHeals, Warned, Coordinates, Outstanding
<1> QED BY <1>1, <1>2, <1>3, <1>4, ReceiveHeals, AmbientHeals DEF Next

\* Among routers, with a reliable table and no lost claims, two nodes take
\* themselves for the coordinator only while the senior one's claim is on its
\* way to the other.
THEOREM SplitBrainsHeal == ASSUME Reliable PROVE Spec => []SplitBrainHeals
<1>1. Init => Resting /\ SplitBrainHeals /\ Warned
  BY DEF Init, Resting, SplitBrainHeals, Warned
<1>2. TypeOK /\ Resting /\ SplitBrainHeals /\ Warned /\ [Next]_vars
        => Resting' /\ SplitBrainHeals' /\ Warned'
  BY HealsStep, RestingStep
<1> QED BY <1>1, <1>2, ElectionTypes, PTL DEF Spec
=============================================================================
