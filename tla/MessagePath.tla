----------------------------- MODULE MessagePath -----------------------------
(***************************************************************************)
(* The way of a message of priority 7 or more: MeshNode.send, the router,  *)
(* the table mesh_messages with its NOTIFY and its backlog poller, the     *)
(* links between nodes, the offline queue, and the receive loop of the     *)
(* nodes with its two filters against duplicates.  Any database or network *)
(* call may fail.  Ages (the 24 hours of rows and keys, the 7 days of the  *)
(* queue), the cap of the router's queue and relaying are left out.        *)
(***************************************************************************)
EXTENDS Naturals, FiniteSets

CONSTANTS
  Nodes,      \* the nodes of the mesh
  Msgs,       \* the messages sent
  from,       \* the node that sends each message
  Recipients, \* whom the messages may be for
  Arrivals,   \* the nodes whose channels include mesh_message_arrived
  All,        \* the recipient "broadcast"
  None,
  MaxTries,   \* max_retries of an entry of the offline queue
  MaxCrashes  \* bound on the crashes of a behaviour

ASSUME MessageAssumption ==
  /\ from \in [Msgs -> Nodes]
  /\ Recipients \subseteq Nodes \cup {All} /\ Arrivals \subseteq Nodes
  /\ All \notin Nodes /\ None \notin Msgs
  /\ MaxTries \in Nat \ {0} /\ MaxCrashes \in Nat

VARIABLES
  to, keep,         \* the recipient; the payload's source makes the router keep the sender
  stage,            \* where the sending coroutine is
  row, author,      \* mesh_messages: the status and the sender of the row
  queue, tries,     \* mesh_offline_queue: the status and the retry_count
  net,              \* copies on a link: <<message, its sender, where it goes>>
  inbox,            \* copies in a node's incoming queues: <<message, its sender>>
  mark,             \* the row that the backlog poller of a node has fetched
  arrived,          \* the rows that its listener has fetched and not updated yet
  seen,             \* DedupCache of a node
  keys,             \* processed_keys, on the disk of a node: <<sender, message>>
  busy,             \* the message whose handlers run
  flushed,          \* the queue entry sent and not marked yet
  fate,             \* whether the addressee was last given a copy, or failed to fetch one
  acts,             \* how often an addressee's handlers were called, 2 for more than once
  up, crashes       \* the nodes that run

sending == <<to, keep, stage>>
table == <<row, author>>
offline == <<queue, tries, flushed>>
filters == <<seen, keys>>
life == <<up, crashes>>
vars == <<sending, table, offline, net, inbox, mark, arrived, filters, busy, fate, acts, life>>

TypeOK ==
  /\ to \in [Msgs -> Nodes \cup {All}] /\ keep \in [Msgs -> BOOLEAN]
  /\ stage \in [Msgs -> {"new", "persisted", "done"}]
  /\ row \in [Msgs -> {"none", "sent", "delivered", "acknowledged"}]
  /\ author \in [Msgs -> Nodes]
  /\ queue \in [Msgs -> {"none", "queued", "delivered", "failed"}]
  /\ tries \in [Msgs -> 0 .. MaxTries]
  /\ net \subseteq Msgs \X Nodes \X Nodes
  /\ inbox \in [Nodes -> SUBSET (Msgs \X Nodes)]
  /\ mark \in [Nodes -> Msgs \cup {None}] /\ arrived \in [Nodes -> SUBSET Msgs]
  /\ seen \in [Nodes -> SUBSET Msgs]
  /\ keys \in [Nodes -> SUBSET (Nodes \X Msgs)]
  /\ busy \in [Nodes -> Msgs \cup {None}] /\ flushed \in [Nodes -> Msgs \cup {None}]
  /\ fate \in [Msgs -> {"no", "missed", "yes"}]
  /\ acts \in [Nodes -> [Msgs -> 0 .. 2]]
  /\ up \in [Nodes -> BOOLEAN] /\ crashes \in 0 .. MaxCrashes

Init ==
  /\ to \in [Msgs -> Recipients] /\ \A m \in Msgs : to[m] # from[m]
  /\ keep \in [Msgs -> BOOLEAN]
  /\ stage = [m \in Msgs |-> "new"]
  /\ row = [m \in Msgs |-> "none"] /\ author = from
  /\ queue = [m \in Msgs |-> "none"] /\ tries = [m \in Msgs |-> 0]
  /\ net = {}
  /\ inbox = [n \in Nodes |-> {}]
  /\ mark = [n \in Nodes |-> None] /\ arrived = [n \in Nodes |-> {}]
  /\ seen = [n \in Nodes |-> {}] /\ keys = [n \in Nodes |-> {}]
  /\ busy = [n \in Nodes |-> None] /\ flushed = [n \in Nodes |-> None]
  /\ fate = [m \in Msgs |-> "no"]
  /\ acts = [n \in Nodes |-> [m \in Msgs |-> 0]]
  /\ up = [n \in Nodes |-> TRUE] /\ crashes = 0

-----------------------------------------------------------------------------
\* is_broadcast.
Broadcast(m) == to[m] = All

Addressed(m, n) == to[m] \in {n, All}

\* A copy is put in the incoming queues of some nodes that run.  The receive loop
\* of the node it names as its sender skips it: it is not kept there.
Put(ns, m, by) ==
  /\ \A n \in ns : up[n]
  /\ inbox' = [n \in Nodes |-> IF n \in ns \ {by} THEN inbox[n] \cup {<<m, by>>} ELSE inbox[n]]
  /\ fate' = [fate EXCEPT ![m] = IF to[m] \in ns THEN "yes" ELSE @]

NoPut == UNCHANGED <<inbox, fate, arrived>>

\* INSERT ... ON CONFLICT DO NOTHING.
Insert(m, by) ==
  IF row[m] = "none"
    THEN row' = [row EXCEPT ![m] = "sent"] /\ author' = [author EXCEPT ![m] = by]
    ELSE UNCHANGED table

\* NOTIFY mesh_channel and, for a row that is new, mesh_message_arrived: whichever
\* nodes listen, the addressee or not, read the row.  Those that heard of it on the
\* second channel have still to update it.
Notify(m) == \E ns \in SUBSET Nodes, as \in SUBSET Arrivals :
  /\ Put(ns, m, author'[m])
  /\ as \subseteq ns /\ (row[m] # "none" => as = {})
  /\ arrived' = [n \in Nodes |-> IF n \in as THEN arrived[n] \cup {m} ELSE arrived[n]]

-----------------------------------------------------------------------------
(***************************************************************************)
(* Sending: MeshNode.send, _persist_message, MeshRouter.send.              *)
(***************************************************************************)

At(m, s) == stage[m] = s /\ up[from[m]]
Goto(m, s) == stage' = [stage EXCEPT ![m] = s]

\* The recipient counts as offline.  The caller is told of a success, even when
\* the queue could not be written.
Hold(m) ==
  /\ At(m, "new") /\ ~Broadcast(m) /\ Goto(m, "done")
  /\ \E s \in {"none", "queued"} : queue' = [queue EXCEPT ![m] = s]
  /\ UNCHANGED <<to, keep, table, tries, flushed, net, inbox, mark, arrived, filters, busy, fate, acts, life>>

\* It counts as online, or the node table cannot be read.  The insert fires the
\* trigger of the table.
Persist(m) ==
  /\ At(m, "new") /\ Goto(m, "persisted")
  /\ \/ Insert(m, from[m]) /\ Notify(m)
     \/ UNCHANGED table /\ NoPut
  /\ UNCHANGED <<to, keep, offline, net, mark, filters, busy, acts, life>>

\* A broadcast goes over P2P to the peers connected, and is stored without NOTIFY;
\* the trigger fires all the same when the row is new.
SendBroadcast(m) ==
  /\ At(m, "persisted") /\ Broadcast(m) /\ Goto(m, "done")
  /\ \E ns \in SUBSET (Nodes \ {from[m]}) :
        ns # {} /\ net' = net \cup {<<m, from[m], n>> : n \in ns}
  /\ \/ UNCHANGED table /\ NoPut
     \/ row[m] = "none" /\ Insert(m, from[m]) /\ Notify(m)
  /\ UNCHANGED <<to, keep, offline, mark, filters, busy, acts, life>>

\* A directed message goes over one link: P2P, HTTP or MQTT.
SendDirect(m) ==
  /\ At(m, "persisted") /\ ~Broadcast(m) /\ Goto(m, "done")
  /\ net' = net \cup {<<m, from[m], to[m]>>}
  /\ UNCHANGED <<to, keep, table, offline, inbox, mark, arrived, filters, busy, fate, acts, life>>

\* PGTransport.send.
SendStored(m) ==
  /\ At(m, "persisted") /\ Goto(m, "done")
  /\ Insert(m, from[m]) /\ Notify(m)
  /\ UNCHANGED <<to, keep, offline, net, mark, filters, busy, acts, life>>

\* Every transport failed.
SendFailed(m) ==
  /\ At(m, "persisted") /\ Goto(m, "done")
  /\ \E s \in IF Broadcast(m) THEN {"none"} ELSE {"none", "queued"} :
        queue' = [queue EXCEPT ![m] = s]
  /\ UNCHANGED <<to, keep, table, tries, flushed, net, inbox, mark, arrived, filters, busy, fate, acts, life>>

-----------------------------------------------------------------------------
(***************************************************************************)
(* The links, and the backlog poller.                                      *)
(***************************************************************************)

\* A copy arrives; it may arrive again.  P2P answers with a receipt, for which
\* _on_p2p_ack updates the row whatever its status.
Deliver(c) ==
  /\ Put({c[3]}, c[1], c[2])
  /\ net' \in {net, net \ {c}}
  /\ row' \in {row, IF row[c[1]] = "none" THEN row ELSE [row EXCEPT ![c[1]] = "acknowledged"]}
  /\ UNCHANGED <<sending, author, offline, mark, arrived, filters, busy, acts, life>>

Lose(c) ==
  /\ net' = net \ {c}
  /\ UNCHANGED <<sending, table, offline, inbox, mark, arrived, filters, busy, fate, acts, life>>

\* Mutant: the poller looks at the broadcasts alone.
BacklogBroadcast(n) == {m \in Msgs : row[m] = "sent" /\ to[m] = All}

Backlog(n) == {m \in Msgs : row[m] = "sent" /\ Addressed(m, n)}

\* Mutant: a row is marked before it is fetched.
TakeMarked(n, m) ==
  /\ up[n] /\ mark[n] = None /\ m \in Backlog(n)
  /\ mark' = [mark EXCEPT ![n] = m]
  /\ row' = [row EXCEPT ![m] = "delivered"]
  /\ NoPut
  /\ UNCHANGED <<sending, author, offline, net, filters, busy, acts, life>>

\* The rows selected are fetched one by one; a row that cannot be fetched is
\* marked all the same.
Take(n, m) ==
  /\ up[n] /\ mark[n] = None /\ m \in Backlog(n)
  /\ mark' = [mark EXCEPT ![n] = m]
  /\ \/ Put({n}, m, author[m])
     \/ /\ inbox' = inbox
        /\ fate' = [fate EXCEPT ![m] = IF to[m] = n THEN "missed" ELSE @]
  /\ UNCHANGED <<sending, table, offline, net, arrived, filters, busy, acts, life>>

\* The update, which may fail: the row is then selected again.
Mark(n) ==
  /\ up[n] /\ mark[n] # None
  /\ mark' = [mark EXCEPT ![n] = None]
  /\ row' \in {row, IF row[mark[n]] = "sent" THEN [row EXCEPT ![mark[n]] = "delivered"] ELSE row}
  /\ UNCHANGED <<sending, author, offline, net, inbox, arrived, filters, busy, fate, acts, life>>

\* The update of the branch mesh_message_arrived, by whichever node listens; it may
\* fail.
MarkArrived(n, m) ==
  /\ up[n] /\ m \in arrived[n]
  /\ arrived' = [arrived EXCEPT ![n] = @ \ {m}]
  /\ row' \in {row, IF row[m] = "sent" THEN [row EXCEPT ![m] = "delivered"] ELSE row}
  /\ UNCHANGED <<sending, author, offline, net, inbox, mark, filters, busy, fate, acts, life>>

-----------------------------------------------------------------------------
(***************************************************************************)
(* Receiving: _receive_loop and MeshRouter.receive.                        *)
(***************************************************************************)

\* Mutant: the key is looked up and never recorded.
RecordedNot(n, m, by) == keys[n]

Recorded(n, m, by) == keys[n] \cup {<<by, m>>}

\* One copy, of another node: DedupCache by message id; a message for another node
\* is forwarded (and dispatched here too, which is not counted), one for this node
\* is dispatched unless its key is on the disk.
Handle(n, m, by) ==
  /\ up[n] /\ busy[n] = None /\ <<m, by>> \in inbox[n]
  /\ inbox' = [inbox EXCEPT ![n] = @ \ {<<m, by>>}]
  /\ \/ m \in seen[n] /\ UNCHANGED <<filters, busy, net>>
     \/ /\ m \notin seen[n]
        /\ seen' = [seen EXCEPT ![n] = @ \cup {m}]
        /\ \/ /\ ~Addressed(m, n)
              /\ net' \in {net, net \cup {<<m, by, to[m]>>}}
              /\ UNCHANGED <<keys, busy>>
           \/ Addressed(m, n) /\ <<by, m>> \in keys[n] /\ UNCHANGED <<keys, busy, net>>
           \/ /\ Addressed(m, n) /\ <<by, m>> \notin keys[n]
              /\ keys' = [keys EXCEPT ![n] = Recorded(n, m, by)]
              /\ busy' = [busy EXCEPT ![n] = m]
              /\ UNCHANGED net
  /\ UNCHANGED <<sending, table, offline, mark, arrived, fate, acts, life>>

\* _dispatch_to_handlers.
Act(n) ==
  /\ up[n] /\ busy[n] # None
  /\ acts' = [acts EXCEPT ![n][busy[n]] = IF @ = 0 THEN 1 ELSE 2]
  /\ busy' = [busy EXCEPT ![n] = None]
  /\ UNCHANGED <<sending, table, offline, net, inbox, mark, arrived, filters, fate, life>>

\* DedupCache forgets a message after 5 minutes, or to make room.
Forget(n, m) ==
  /\ m \in seen[n]
  /\ seen' = [seen EXCEPT ![n] = @ \ {m}]
  /\ UNCHANGED <<sending, table, offline, net, inbox, mark, arrived, keys, busy, fate, acts, life>>

-----------------------------------------------------------------------------
(***************************************************************************)
(* _flush_offline_queue, every five minutes at the recipient itself.       *)
(***************************************************************************)

\* MeshRouter.send puts the name of the node that runs it on the message.
Resender(r, m) == IF keep[m] THEN from[m] ELSE r

Flushing(r, m) == up[r] /\ flushed[r] = None /\ queue[m] = "queued" /\ to[m] = r

\* There is no link of r to itself: the message goes to the database the entry was
\* read from (the broker, tried when that fails, is left out).
Flush(r, m) ==
  /\ Flushing(r, m)
  /\ flushed' = [flushed EXCEPT ![r] = m]
  /\ Insert(m, Resender(r, m)) /\ Notify(m)
  /\ UNCHANGED <<sending, queue, tries, net, mark, filters, busy, acts, life>>

FlushMark(r) ==
  /\ up[r] /\ flushed[r] # None
  /\ queue' \in {queue, [queue EXCEPT ![flushed[r]] = "delivered"]}
  /\ flushed' = [flushed EXCEPT ![r] = None]
  /\ UNCHANGED <<sending, table, tries, net, inbox, mark, arrived, filters, busy, fate, acts, life>>

\* Mutant: an entry is tried once more than its max_retries.
ExhaustedLate(m) == tries[m] + 1 > MaxTries

\* mark_failed.
Exhausted(m) == tries[m] + 1 >= MaxTries

FlushFails(r, m) ==
  /\ Flushing(r, m)
  /\ tries' = [tries EXCEPT ![m] = @ + 1]
  /\ queue' = [queue EXCEPT ![m] = IF Exhausted(m) THEN "failed" ELSE @]
  /\ UNCHANGED <<sending, table, flushed, net, inbox, mark, arrived, filters, busy, fate, acts, life>>

-----------------------------------------------------------------------------
(***************************************************************************)
(* A node stops and comes back: only processed_keys is on its disk.        *)
(***************************************************************************)

Crash(n) ==
  /\ up[n] /\ crashes < MaxCrashes
  /\ up' = [up EXCEPT ![n] = FALSE] /\ crashes' = crashes + 1
  /\ stage' = [m \in Msgs |-> IF from[m] = n THEN "done" ELSE stage[m]]
  /\ inbox' = [inbox EXCEPT ![n] = {}]
  /\ mark' = [mark EXCEPT ![n] = None] /\ arrived' = [arrived EXCEPT ![n] = {}]
  /\ seen' = [seen EXCEPT ![n] = {}]
  /\ busy' = [busy EXCEPT ![n] = None]
  /\ flushed' = [flushed EXCEPT ![n] = None]
  /\ UNCHANGED <<to, keep, table, queue, tries, net, keys, fate, acts>>

Start(n) ==
  /\ ~up[n]
  /\ up' = [up EXCEPT ![n] = TRUE]
  /\ UNCHANGED <<sending, table, offline, net, inbox, mark, arrived, filters, busy, fate, acts, crashes>>

Sends(m) == Hold(m) \/ Persist(m) \/ SendBroadcast(m) \/ SendDirect(m)
              \/ SendStored(m) \/ SendFailed(m)
Polls(n) == Mark(n) \/ \E m \in Msgs : Take(n, m)
Receives(n) == Act(n) \/ \E m \in Msgs, by \in Nodes : Handle(n, m, by)
Flushes(r) == FlushMark(r) \/ \E m \in Msgs : Flush(r, m) \/ FlushFails(r, m)

Next ==
  \/ \E m \in Msgs : Sends(m)
  \/ \E c \in net : Deliver(c) \/ Lose(c)
  \/ \E n \in Nodes : Polls(n) \/ Receives(n) \/ Flushes(n) \/ Crash(n) \/ Start(n)
  \/ \E n \in Nodes, m \in Msgs : MarkArrived(n, m) \/ Forget(n, m)

Spec == Init /\ [][Next]_vars

\* The poller and the receive loop of an addressee go on while it runs.
Named == Recipients \ {All}
FairSpec == Spec /\ \A n \in Named : WF_vars(Polls(n)) /\ WF_vars(Receives(n))

-----------------------------------------------------------------------------
(***************************************************************************)
(* Properties.                                                             *)
(***************************************************************************)

\* A message for a node, as the node's handlers see it.
Seen(n, m) ==
  CASE busy[n] = m -> "accepted"
    [] busy[n] # m /\ acts[n][m] > 0 -> "performed"
    [] busy[n] # m /\ acts[n][m] = 0 /\ (\E by \in Nodes : <<by, m>> \in keys[n]) -> "lost"
    [] OTHER -> "waiting"

Box == INSTANCE Mailbox WITH state <- [n \in Nodes |-> [m \in Msgs |-> Seen(n, m)]]

\* An addressee takes a message at most once and calls its handlers once for it,
\* or never when it stops in between, whatever is duplicated, resent from the queue
\* or delivered again after a restart: the key on the disk backs up DedupCache
\* (MeshRouter.receive).
AtMostOnce == Box!Spec

\* No node but the addressee listens on mesh_message_arrived: one that did would
\* mark the row whether the addressee had it or not.
NoBystander(m) == Arrivals \subseteq {to[m]}

\* The row of a directed message is only marked delivered or acknowledged once
\* its addressee has been given the message, or has failed to fetch it
\* (_backlog_poll_loop, _process_notification, _on_p2p_ack); unless a bystander
\* listens on mesh_message_arrived.
DeliveredIsTaken ==
  \A m \in Msgs : row[m] \in {"delivered", "acknowledged"} /\ ~Broadcast(m) =>
     fate[m] # "no" \/ ~NoBystander(m)

\* A row of the table for a node that runs is accepted by it in the end: its key
\* is recorded, unless the fetch failed, the node stopped meanwhile, or a bystander
\* that listens on mesh_message_arrived may take the row out of the backlog
\* (_backlog_poll_loop, _process_notification, _receive_loop).
Pending(n, m) == row[m] = "sent" /\ to[m] = n /\ author[m] # n /\ up[n] /\ NoBystander(m)
Accepted(n, m) == <<author[m], m>> \in keys[n] \/ fate[m] = "missed" \/ ~up[n]
StoredIsAccepted == \A n \in Named, m \in Msgs : Pending(n, m) ~> Accepted(n, m)

\* "Automatically delivers queued messages when a node comes online"
\* (core/offline_queue.py): an entry marked delivered reaches the handlers of its
\* recipient, if that does not stop.  Not so: the recipient flushes the queue
\* itself, under its own name, and then skips the message as its own.
QueuedIsDelivered ==
  \A n \in Named, m \in Msgs :
     queue[m] = "delivered" /\ to[m] = n ~> acts[n][m] > 0 \/ ~up[n]

=============================================================================
