------------------------------ MODULE Election ------------------------------
(***************************************************************************)
(* Coordinator election: core/election.py, driven by the monitor loop, the *)
(* heartbeat loops and the message dispatch of node.py.  Nodes share the   *)
(* table mesh_nodes and broadcast claims; a claim is sent once, and nobody *)
(* answers one.                                                            *)
(*                                                                         *)
(* A step runs from one await to the next.  One turn of the monitor loop   *)
(* is Query (refresh one's own registration, SELECT the routers), Decide   *)
(* (health check, and the decision to claim) and Broadcast; claims and     *)
(* heartbeats are handled in between.                                      *)
(*                                                                         *)
(* Ages are three classes, below the suspect threshold, below the down     *)
(* threshold, and above.  The reported CoordinatorState is left out: it is *)
(* read only where Decide has just computed it from the age.               *)
(***************************************************************************)
EXTENDS Naturals, FiniteSets

CONSTANTS
  Nodes,
  None,       \* no coordinator registered
  role,       \* [Nodes -> Roles], from the configuration
  addr,       \* [Nodes -> Nat], short_addr, a hash of the name
  Lossy,      \* claims may be lost on their way to a node that is up
  PgFails,    \* statements may fail
  MaxStops    \* bound: crashes and clean stops in a behaviour

Roles == {"coordinator", "router", "end_device"}

\* short_addr is unique in mesh_nodes.
ASSUME NodeAssumption ==
  /\ role \in [Nodes -> Roles]
  /\ addr \in [Nodes -> Nat]
  /\ \A m, n \in Nodes : addr[m] = addr[n] => m = n
  /\ None \notin Nodes
  /\ Lossy \in BOOLEAN /\ PgFails \in BOOLEAN /\ MaxStops \in Nat

VARIABLES
  up,
  coord,    \* election.coordinator.node_name
  age,      \* class of now - election.coordinator.last_heartbeat
  acting,   \* election.is_acting_coordinator
  loop,     \* where the monitor loop stands
  known,    \* the routers its SELECT returned
  reg,      \* mesh_nodes.status
  net,      \* claims under way, <<claimer, receiver>>
  stops

monitor == <<loop, known>>
view == <<coord, age, acting>>
vars == <<up, coord, age, acting, loop, known, reg, net, stops>>

Eligible(n) == role[n] \in {"router", "coordinator"}

\* SELECT ... WHERE role = 'router' AND status = 'active'
Routers == {m \in Nodes : role[m] = "router" /\ reg[m] = "active"}

\* The rows of the nodes of S that are up say so.
Refreshed(S) == PgFails \/ \A m \in S : up[m] => reg[m] = "active"

\* Mutant: last_heartbeat is not set.
FollowUnheard(n, m) ==
  /\ coord' = [coord EXCEPT ![n] = m]
  /\ age' = [age EXCEPT ![n] = "unset"]

\* n registers m, who has just been heard of.
Follow(n, m) ==
  /\ coord' = [coord EXCEPT ![n] = m]
  /\ age' = [age EXCEPT ![n] = "fresh"]

-----------------------------------------------------------------------------
(***************************************************************************)
(* The monitor loop.                                                       *)
(***************************************************************************)

\* Mutant: a coordinator does not refresh its own registration.
RefreshNone(n) == UNCHANGED age

\* A coordinator's own loop is its sign of life.
RefreshSelf(n) == age' = IF coord[n] = n THEN [age EXCEPT ![n] = "fresh"] ELSE age

\* The turns come a heartbeat interval apart, the first one an interval after
\* the start; each node that is up has refreshed its row in every interval.
Query(n) ==
  /\ up[n] /\ loop[n] = "idle"
  /\ Refreshed(Nodes \ {n})
  /\ RefreshSelf(n)
  /\ \E found \in {Routers} \cup (IF PgFails THEN {{}} ELSE {}) :
       known' = [known EXCEPT ![n] = found]
  /\ loop' = [loop EXCEPT ![n] = "deciding"]
  /\ UNCHANGED <<up, coord, acting, reg, net, stops>>

\* check_coordinator_health returns DOWN.  Without a coordinator the senior
\* router of the list, or anybody when the list is empty, may claim.
Down(n) ==
  IF coord[n] = None
  THEN known[n] = {} \/ (n \in known[n] /\ \A m \in known[n] : addr[n] <= addr[m])
  ELSE age[n] = "old"

\* Mutant: a router of the list does not count as senior to itself.
SeniorStrict(n) == \A m \in known[n] : addr[n] < addr[m]

\* The coordinator that is down is not excluded from the list.
Senior(n) == \A m \in known[n] : addr[n] <= addr[m]

\* initiate_election registers the claimer with itself at once.
Claim(n) ==
  /\ up[n] /\ loop[n] = "deciding"
  /\ Down(n) /\ Eligible(n) /\ Senior(n)
  /\ Follow(n, n)
  /\ acting' = [acting EXCEPT ![n] = TRUE]
  /\ loop' = [loop EXCEPT ![n] = "claiming"]
  /\ known' = [known EXCEPT ![n] = {}]
  /\ UNCHANGED <<up, reg, net, stops>>

\* Nothing to do; a coordinator that is healthy ends one's own acting, even
\* if the coordinator is oneself.
Abstain(n) ==
  /\ up[n] /\ loop[n] = "deciding"
  /\ ~(Down(n) /\ Eligible(n) /\ Senior(n))
  /\ acting' = IF coord[n] # None /\ age[n] = "fresh"
               THEN [acting EXCEPT ![n] = FALSE] ELSE acting
  /\ loop' = [loop EXCEPT ![n] = "idle"]
  /\ known' = [known EXCEPT ![n] = {}]
  /\ UNCHANGED <<up, coord, age, reg, net, stops>>

\* The claim goes out as it was made, whatever has been accepted meanwhile.
\* Nodes that are up receive it unless it is lost; one that is down may find
\* it in the backlog of the PG transport when it is up again.
Broadcast(n) ==
  /\ up[n] /\ loop[n] = "claiming"
  /\ \E S \in SUBSET (Nodes \ {n}) :
       /\ Lossy \/ {m \in Nodes \ {n} : up[m]} \subseteq S
       /\ net' = net \cup {<<n, m>> : m \in S}
  /\ loop' = [loop EXCEPT ![n] = "idle"]
  /\ UNCHANGED <<up, view, known, reg, stops>>

-----------------------------------------------------------------------------
(***************************************************************************)
(* Claims and heartbeats of others.                                        *)
(***************************************************************************)

\* Mutant: a coordinator rejects every claim.
RejectsAll(n, m) == coord[n] = n \/ acting[n]

\* handle_election_claim returns False.
Rejects(n, m) == (coord[n] = n \/ acting[n]) /\ addr[n] < addr[m]

ReceiveClaim(m, n) ==
  /\ up[n]
  /\ <<m, n>> \in net
  /\ net' = net \ {<<m, n>>}
  /\ IF Rejects(n, m)
     THEN UNCHANGED view
     ELSE Follow(n, m) /\ acting' = [acting EXCEPT ![n] = FALSE]
  /\ UNCHANGED <<up, monitor, reg, stops>>

\* _on_p2p_heartbeat from the registered coordinator: alive, whatever it
\* thinks of itself.
Heartbeat(n) ==
  /\ up[n]
  /\ \E m \in Nodes \ {n} : coord[n] = m /\ up[m]
  /\ age' = [age EXCEPT ![n] = "fresh"]
  /\ UNCHANGED <<up, coord, acting, monitor, reg, net, stops>>

\* Time goes by without a heartbeat.  The thresholds are longer than a turn of
\* the monitor loop, and than the interval in which rows are refreshed.
AgePasses(n) ==
  /\ up[n] /\ loop[n] = "idle"
  /\ Refreshed(Nodes)
  /\ coord[n] # None
  /\ age[n] # "old"
  /\ age' = [age EXCEPT ![n] = IF @ = "fresh" THEN "suspect" ELSE "old"]
  /\ UNCHANGED <<up, coord, acting, monitor, reg, net, stops>>

-----------------------------------------------------------------------------
(***************************************************************************)
(* mesh_nodes, and the nodes' processes.                                   *)
(***************************************************************************)

\* _update_heartbeat_pg and _update_node_stats: an existing row is active.
RefreshRow(n) ==
  /\ up[n]
  /\ reg[n] # "absent"
  /\ reg' = [reg EXCEPT ![n] = "active"]
  /\ UNCHANGED <<up, view, monitor, net, stops>>

\* The self-heal loop registers the node again once PG is back.
Reregister(n) ==
  /\ PgFails
  /\ up[n]
  /\ reg[n] = "absent"
  /\ reg' = [reg EXCEPT ![n] = "active"]
  /\ UNCHANGED <<up, view, monitor, net, stops>>

\* __init__ and _register_node: a configured coordinator registers itself and
\* tells nobody; an existing row keeps its status.
Start(n) ==
  /\ ~up[n]
  /\ up' = [up EXCEPT ![n] = TRUE]
  /\ coord' = [coord EXCEPT ![n] = IF role[n] = "coordinator" THEN n ELSE None]
  /\ age' = [age EXCEPT ![n] = "fresh"]
  /\ \/ reg' = [reg EXCEPT ![n] = IF @ = "absent" THEN "active" ELSE @]
     \/ PgFails /\ UNCHANGED reg
  /\ UNCHANGED <<acting, monitor, net, stops>>

\* The process is gone, with any of the claims it had not handled yet.
Gone(n) ==
  /\ up[n] /\ stops < MaxStops
  /\ stops' = stops + 1
  /\ up' = [up EXCEPT ![n] = FALSE]
  /\ coord' = [coord EXCEPT ![n] = None]
  /\ age' = [age EXCEPT ![n] = "fresh"]
  /\ acting' = [acting EXCEPT ![n] = FALSE]
  /\ loop' = [loop EXCEPT ![n] = "idle"]
  /\ known' = [known EXCEPT ![n] = {}]
  /\ \E lost \in SUBSET {x \in net : x[2] = n} : net' = net \ lost

\* A crash leaves the row as it is, and nothing prunes it.
Crash(n) == Gone(n) /\ UNCHANGED reg

\* _deregister_node
Stop(n) ==
  /\ Gone(n)
  /\ \/ reg' = [reg EXCEPT ![n] = IF @ = "absent" THEN @ ELSE "offline"]
     \/ PgFails /\ UNCHANGED reg

-----------------------------------------------------------------------------
Init ==
  /\ up = [n \in Nodes |-> FALSE]
  /\ coord = [n \in Nodes |-> None]
  /\ age = [n \in Nodes |-> "fresh"]
  /\ acting = [n \in Nodes |-> FALSE]
  /\ loop = [n \in Nodes |-> "idle"]
  /\ known = [n \in Nodes |-> {}]
  /\ reg = [n \in Nodes |-> "absent"]
  /\ net = {}
  /\ stops = 0

Monitoring(n) == Query(n) \/ Claim(n) \/ Abstain(n) \/ Broadcast(n)

Next == \E n \in Nodes :
  \/ Monitoring(n) \/ Heartbeat(n) \/ AgePasses(n)
  \/ RefreshRow(n) \/ Reregister(n) \/ Start(n) \/ Crash(n) \/ Stop(n)
  \/ \E m \in Nodes : ReceiveClaim(m, n)

Spec == Init /\ [][Next]_vars

-----------------------------------------------------------------------------
(***************************************************************************)
(* Properties.                                                             *)
(***************************************************************************)

\* Every variable keeps its type.
TypeOK ==
  /\ up \in [Nodes -> BOOLEAN]
  /\ coord \in [Nodes -> Nodes \cup {None}]
  /\ age \in [Nodes -> {"fresh", "suspect", "old"}]
  /\ acting \in [Nodes -> BOOLEAN]
  /\ loop \in [Nodes -> {"idle", "deciding", "claiming"}]
  /\ known \in [Nodes -> SUBSET Nodes]
  /\ reg \in [Nodes -> {"absent", "active", "offline"}]
  /\ net \in SUBSET {x \in Nodes \X Nodes : x[1] # x[2]}
  /\ stops \in Nat

\* Two live routers that each take themselves for the coordinator do so only
\* until the senior one's claim, which is on its way, reaches the other: with
\* a reliable table and no lost claims a split brain heals.
SplitBrainHeals ==
  \A m, n \in Nodes :
    /\ up[m] /\ coord[m] = m
    /\ up[n] /\ coord[n] = n
    /\ addr[m] < addr[n]
    => <<m, n>> \in net \/ loop[m] = "claiming"

\* A node that is registered as its own coordinator does not claim the role
\* again: its loop never takes itself for down, whatever time passes (the
\* self-claim loop that v0.44.1 repaired).
NoSelfClaimLoop ==
  [][\A n \in Nodes :
       loop[n] = "deciding" /\ loop'[n] = "claiming" => coord[n] # n]_vars

\* n is the senior router of mesh_nodes and knows of no coordinator that is up.
Leaderless(n) ==
  /\ up[n]
  /\ n \in Routers /\ \A m \in Routers : addr[n] <= addr[m]
  /\ IF coord[n] = None THEN TRUE ELSE ~up[coord[n]]

-----------------------------------------------------------------------------
(***************************************************************************)
(* Fairness: the monitor and heartbeat loops of a node that is up go on, a *)
(* claim that is under way arrives, and time passes while a coordinator is *)
(* silent.  Nothing makes a node start again.                              *)
(***************************************************************************)
Silence(n) == AgePasses(n) /\ ~up[coord[n]]

Fairness == \A n \in Nodes :
  /\ WF_vars(Monitoring(n))
  /\ WF_vars(RefreshRow(n))
  /\ SF_vars(Silence(n))
  /\ \A m \in Nodes : WF_vars(ReceiveClaim(m, n))

FairSpec == Spec /\ Fairness

\* The senior router of the table does not stay without a live coordinator,
\* at a cold start or after its coordinator is gone: no deadlock of nodes that
\* wait for one another.
SeniorFindsLeader == \A n \in Nodes : Leaderless(n) ~> ~Leaderless(n)

-----------------------------------------------------------------------------
(***************************************************************************)
(* What the module's docstring and comments say and the code does not do.  *)
(***************************************************************************)

\* "if the coordinator becomes unreachable, the senior-most router (lowest
\* short_addr among routers) takes over", "excluding the down coordinator".
Bereft(n) ==
  /\ up[n] /\ role[n] = "router"
  /\ \A m \in Nodes : up[m] => addr[n] <= addr[m]
  /\ coord[n] # None /\ ~up[coord[n]]

SeniorTakesOver == \A n \in Nodes : Bereft(n) ~> ~Bereft(n)

\* "When original coordinator returns, it reclaims the role gracefully".
Reclaimed(n) == \A m \in Nodes : up[m] => coord[m] = n

OriginalReclaims ==
  \A n \in Nodes : role[n] = "coordinator" =>
    (up[n] ~> (~up[n] \/ Reclaimed(n)))
=============================================================================
