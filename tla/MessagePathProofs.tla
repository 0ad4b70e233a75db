-------------------------- MODULE MessagePathProofs --------------------------
(***************************************************************************)
(* Proofs about MessagePath: type correctness, at-most-once processing as  *)
(* a refinement of Mailbox, and that marked rows were taken.               *)
(***************************************************************************)
EXTENDS MessagePath, TLAPS

-----------------------------------------------------------------------------
(***************************************************************************)
(* Type correctness.                                                       *)
(***************************************************************************)

\* What keeps retry_count within max_retries: a message is not queued before its
\* sender is done with it, and an entry that used up its tries is not queued.
InBudget ==
  /\ \A m \in Msgs : stage[m] # "done" => queue[m] = "none" /\ tries[m] = 0
  /\ \A m \in Msgs : queue[m] = "queued" => tries[m] < MaxTries
  /\ \A r \in Nodes : flushed[r] # None => stage[flushed[r]] = "done"

\* Copies put in incoming queues keep the types (Put in the model).
LEMMA PutType ==
  ASSUME TypeOK, NEW ns, NEW m \in Msgs, NEW by \in Nodes, Put(ns, m, by)
  PROVE  /\ inbox' \in [Nodes -> SUBSET (Msgs \X Nodes)]
         /\ fate' \in [Msgs -> {"no", "missed", "yes"}]
BY DEF TypeOK, Put

\* An insert keeps the types of the table.
LEMMA InsertType ==
  ASSUME TypeOK, NEW m \in Msgs, NEW by \in Nodes, Insert(m, by)
  PROVE  /\ row' \in [Msgs -> {"none", "sent", "delivered", "acknowledged"}]
         /\ author' \in [Msgs -> Nodes]
BY DEF TypeOK, Insert, table

\* A NOTIFY keeps the types of the incoming queues and of what the listeners hold.
LEMMA NotifyType ==
  ASSUME TypeOK, NEW m \in Msgs, Notify(m), author' \in [Msgs -> Nodes]
  PROVE  /\ inbox' \in [Nodes -> SUBSET (Msgs \X Nodes)]
         /\ fate' \in [Msgs -> {"no", "missed", "yes"}]
         /\ arrived' \in [Nodes -> SUBSET Msgs]
<1>1. PICK ns \in SUBSET Nodes : Put(ns, m, author'[m])
  BY DEF Notify
<1>2. author'[m] \in Nodes
  OBVIOUS
<1>3. arrived' \in [Nodes -> SUBSET Msgs]
  <2>1. PICK as \in SUBSET Arrivals :
          arrived' = [n \in Nodes |-> IF n \in as THEN arrived[n] \cup {m} ELSE arrived[n]]
    BY DEF Notify
  <2>2. arrived \in [Nodes -> SUBSET Msgs]
    BY DEF TypeOK
  <2>3. QED
    BY <2>1, <2>2
<1>4. QED
  BY <1>1, <1>2, <1>3, PutType

\* Sending keeps the types.
LEMMA SendType ==
  ASSUME TypeOK, NEW m \in Msgs, Sends(m)
  PROVE  TypeOK'
<1> USE MessageAssumption
<1>0. from[m] \in Nodes
  OBVIOUS
<1>1. CASE Hold(m)
  BY <1>1 DEF Hold, At, Goto, TypeOK, table, filters, life
<1>2. CASE Persist(m)
  <2>1. /\ row' \in [Msgs -> {"none", "sent", "delivered", "acknowledged"}]
        /\ author' \in [Msgs -> Nodes]
    BY <1>0, <1>2, InsertType DEF Persist, TypeOK, table
  <2>2. /\ inbox' \in [Nodes -> SUBSET (Msgs \X Nodes)]
        /\ fate' \in [Msgs -> {"no", "missed", "yes"}]
        /\ arrived' \in [Nodes -> SUBSET Msgs]
    BY <1>2, <2>1, NotifyType DEF Persist, TypeOK, NoPut
  <2>3. QED
    BY <1>2, <2>1, <2>2 DEF Persist, At, Goto, TypeOK, offline, filters, life
<1>3. CASE SendBroadcast(m)
  <2>1. /\ row' \in [Msgs -> {"none", "sent", "delivered", "acknowledged"}]
        /\ author' \in [Msgs -> Nodes]
    BY <1>0, <1>3, InsertType DEF SendBroadcast, TypeOK, table
  <2>2. /\ inbox' \in [Nodes -> SUBSET (Msgs \X Nodes)]
        /\ fate' \in [Msgs -> {"no", "missed", "yes"}]
        /\ arrived' \in [Nodes -> SUBSET Msgs]
    BY <1>3, <2>1, NotifyType DEF SendBroadcast, TypeOK, NoPut
  <2>3. net' \subseteq Msgs \X Nodes \X Nodes
    BY <1>0, <1>3 DEF SendBroadcast, TypeOK
  <2>4. QED
    BY <1>3, <2>1, <2>2, <2>3 DEF SendBroadcast, At, Goto, TypeOK, offline, filters, life
<1>4. CASE SendDirect(m)
  <2>1. to[m] \in Nodes
    BY <1>4 DEF SendDirect, Broadcast, TypeOK
  <2>2. net' \subseteq Msgs \X Nodes \X Nodes
    BY <1>0, <1>4, <2>1 DEF SendDirect, TypeOK
  <2>3. QED
    BY <1>4, <2>2 DEF SendDirect, At, Goto, TypeOK, table, offline, filters, life
<1>5. CASE SendStored(m)
  <2>1. /\ row' \in [Msgs -> {"none", "sent", "delivered", "acknowledged"}]
        /\ author' \in [Msgs -> Nodes]
    BY <1>0, <1>5, InsertType DEF SendStored
  <2>2. /\ inbox' \in [Nodes -> SUBSET (Msgs \X Nodes)]
        /\ fate' \in [Msgs -> {"no", "missed", "yes"}]
        /\ arrived' \in [Nodes -> SUBSET Msgs]
    BY <1>5, <2>1, NotifyType DEF SendStored
  <2>3. QED
    BY <1>5, <2>1, <2>2 DEF SendStored, At, Goto, TypeOK, offline, filters, life
<1>6. CASE SendFailed(m)
  BY <1>6 DEF SendFailed, At, Goto, TypeOK, table, filters, life
<1>7. QED
  BY <1>1, <1>2, <1>3, <1>4, <1>5, <1>6 DEF Sends

\* The links keep the types.
LEMMA LinkType ==
  ASSUME TypeOK, NEW c \in net, Deliver(c) \/ Lose(c)
  PROVE  TypeOK'
<1>0. c[1] \in Msgs /\ c[2] \in Nodes /\ c[3] \in Nodes
  BY DEF TypeOK
<1>1. CASE Deliver(c)
  <2>1. /\ inbox' \in [Nodes -> SUBSET (Msgs \X Nodes)]
        /\ fate' \in [Msgs -> {"no", "missed", "yes"}]
    BY <1>0, <1>1, PutType DEF Deliver
  <2>2. row' \in [Msgs -> {"none", "sent", "delivered", "acknowledged"}]
    BY <1>0, <1>1 DEF Deliver, TypeOK
  <2>3. QED
    BY <1>1, <2>1, <2>2 DEF Deliver, TypeOK, sending, offline, filters, life
<1>2. CASE Lose(c)
  BY <1>2 DEF Lose, TypeOK, sending, table, offline, filters, life
<1>3. QED
  BY <1>1, <1>2

\* The backlog poller keeps the types.
LEMMA PollType ==
  ASSUME TypeOK, NEW n \in Nodes, Polls(n)
  PROVE  TypeOK'
<1>1. CASE Mark(n)
  <2>1. row' \in [Msgs -> {"none", "sent", "delivered", "acknowledged"}]
    <3>1. row \in [Msgs -> {"none", "sent", "delivered", "acknowledged"}]
      BY DEF TypeOK
    <3>2. row' = row \/ row' = [row EXCEPT ![mark[n]] = "delivered"]
      BY <1>1 DEF Mark
    <3>3. QED
      BY <3>1, <3>2
  <2>2. mark' \in [Nodes -> Msgs \cup {None}]
    BY <1>1 DEF Mark, TypeOK
  <2>3. QED
    BY <1>1, <2>1, <2>2 DEF Mark, TypeOK, sending, offline, filters, life
<1>2. ASSUME NEW m \in Msgs, Take(n, m)
      PROVE  TypeOK'
  <2>1. author[m] \in Nodes
    BY DEF TypeOK
  <2>2. /\ inbox' \in [Nodes -> SUBSET (Msgs \X Nodes)]
        /\ fate' \in [Msgs -> {"no", "missed", "yes"}]
    <3>1. CASE Put({n}, m, author[m])
      BY <2>1, <3>1, PutType
    <3>2. CASE inbox' = inbox /\ fate' = [fate EXCEPT ![m] = IF to[m] = n THEN "missed" ELSE @]
      BY <3>2 DEF TypeOK
    <3>3. QED
      BY <1>2, <3>1, <3>2 DEF Take
  <2>3. mark' \in [Nodes -> Msgs \cup {None}]
    BY <1>2 DEF Take, TypeOK
  <2>4. QED
    BY <1>2, <2>2, <2>3 DEF Take, TypeOK, sending, table, offline, filters, life
<1>3. QED
  BY <1>1, <1>2 DEF Polls

\* The receive loop keeps the types.
LEMMA ReceiveType ==
  ASSUME TypeOK, NEW n \in Nodes, Receives(n)
  PROVE  TypeOK'
<1> USE MessageAssumption
<1>1. CASE Act(n)
  <2>1. busy[n] \in Msgs /\ busy' \in [Nodes -> Msgs \cup {None}]
    BY <1>1 DEF Act, TypeOK
  <2>2. acts' \in [Nodes -> [Msgs -> 0 .. 2]]
    BY <1>1, <2>1 DEF Act, TypeOK
  <2>3. QED
    BY <1>1, <2>1, <2>2 DEF Act, TypeOK, sending, table, offline, filters, life
<1>2. ASSUME NEW m \in Msgs, NEW by \in Nodes, Handle(n, m, by)
      PROVE  TypeOK'
  <2>0. inbox' = [inbox EXCEPT ![n] = @ \ {<<m, by>>}]
    BY <1>2 DEF Handle
  <2>1. inbox' \in [Nodes -> SUBSET (Msgs \X Nodes)]
    BY <2>0 DEF TypeOK
  <2>2. seen' \in [Nodes -> SUBSET Msgs]
    <3>1. seen' = seen \/ seen' = [seen EXCEPT ![n] = @ \cup {m}]
      BY <1>2 DEF Handle, filters
    <3>2. seen \in [Nodes -> SUBSET Msgs]
      BY DEF TypeOK
    <3>3. QED
      BY <3>1, <3>2
  <2>3. keys' \in [Nodes -> SUBSET (Nodes \X Msgs)]
    <3>1. keys' = keys \/ keys' = [keys EXCEPT ![n] = @ \cup {<<by, m>>}]
      BY <1>2 DEF Handle, Recorded, filters
    <3>2. keys \in [Nodes -> SUBSET (Nodes \X Msgs)] /\ <<by, m>> \in Nodes \X Msgs
      BY DEF TypeOK
    <3>3. QED
      BY <3>1, <3>2
  <2>4. busy' \in [Nodes -> Msgs \cup {None}]
    <3>1. busy' = busy \/ busy' = [busy EXCEPT ![n] = m]
      BY <1>2 DEF Handle
    <3>2. busy \in [Nodes -> Msgs \cup {None}]
      BY DEF TypeOK
    <3>3. QED
      BY <3>1, <3>2
  <2>5. net' \subseteq Msgs \X Nodes \X Nodes
    <3>1. CASE Addressed(m, n) \/ m \in seen[n]
      BY <1>2, <3>1 DEF Handle, TypeOK
    <3>2. CASE ~Addressed(m, n) /\ m \notin seen[n]
      <4>1. to[m] \in Nodes
        BY <3>2 DEF Addressed, TypeOK
      <4>2. net' \in {net, net \cup {<<m, by, to[m]>>}}
        BY <1>2, <3>2 DEF Handle
      <4>3. QED
        BY <4>1, <4>2 DEF TypeOK
    <3>3. QED
      BY <3>1, <3>2
  <2>6. QED
    BY <1>2, <2>1, <2>2, <2>3, <2>4, <2>5 DEF Handle, TypeOK, sending, table, offline, life
<1>3. QED
  BY <1>1, <1>2 DEF Receives

\* Flushing the offline queue keeps the types.
LEMMA FlushType ==
  ASSUME TypeOK, InBudget, NEW r \in Nodes, Flushes(r)
  PROVE  TypeOK'
<1> USE MessageAssumption
<1>1. CASE FlushMark(r)
  <2>1. flushed[r] \in Msgs /\ flushed' \in [Nodes -> Msgs \cup {None}]
    BY <1>1 DEF FlushMark, TypeOK
  <2>2. queue' \in [Msgs -> {"none", "queued", "delivered", "failed"}]
    BY <1>1, <2>1 DEF FlushMark, TypeOK
  <2>3. QED
    BY <1>1, <2>1, <2>2 DEF FlushMark, TypeOK, sending, table, filters, life
<1>2. ASSUME NEW m \in Msgs, Flush(r, m)
      PROVE  TypeOK'
  <2>1. Resender(r, m) \in Nodes
    BY DEF Resender
  <2>2. /\ row' \in [Msgs -> {"none", "sent", "delivered", "acknowledged"}]
        /\ author' \in [Msgs -> Nodes]
    BY <1>2, <2>1, InsertType DEF Flush
  <2>3. /\ inbox' \in [Nodes -> SUBSET (Msgs \X Nodes)]
        /\ fate' \in [Msgs -> {"no", "missed", "yes"}]
        /\ arrived' \in [Nodes -> SUBSET Msgs]
    BY <1>2, <2>2, NotifyType DEF Flush
  <2>4. flushed' \in [Nodes -> Msgs \cup {None}]
    BY <1>2 DEF Flush, TypeOK
  <2>5. QED
    BY <1>2, <2>2, <2>3, <2>4 DEF Flush, TypeOK, sending, filters, life
<1>3. ASSUME NEW m \in Msgs, FlushFails(r, m)
      PROVE  TypeOK'
  <2>0. tries[m] < MaxTries
    BY <1>3 DEF FlushFails, Flushing, InBudget
  <2>1. tries' \in [Msgs -> 0 .. MaxTries]
    BY <1>3, <2>0 DEF FlushFails, TypeOK
  <2>2. queue' \in [Msgs -> {"none", "queued", "delivered", "failed"}]
    BY <1>3 DEF FlushFails, Flushing, TypeOK
  <2>3. QED
    BY <1>3, <2>1, <2>2 DEF FlushFails, TypeOK, sending, table, filters, life
<1>4. QED
  BY <1>1, <1>2, <1>3 DEF Flushes

\* A crash, a restart, the update of a listener and a dedup entry forgotten keep
\* the types.
LEMMA LifeType ==
  ASSUME TypeOK, NEW n \in Nodes,
         Crash(n) \/ Start(n) \/ \E m \in Msgs : MarkArrived(n, m) \/ Forget(n, m)
  PROVE  TypeOK'
<1>1. CASE Crash(n)
  <2>1. /\ stage' \in [Msgs -> {"new", "persisted", "done"}]
        /\ up' \in [Nodes -> BOOLEAN]
        /\ crashes' \in 0 .. MaxCrashes
    BY <1>1, MessageAssumption DEF Crash, TypeOK
  <2>2. /\ inbox' \in [Nodes -> SUBSET (Msgs \X Nodes)]
        /\ mark' \in [Nodes -> Msgs \cup {None}]
        /\ arrived' \in [Nodes -> SUBSET Msgs]
        /\ seen' \in [Nodes -> SUBSET Msgs]
        /\ busy' \in [Nodes -> Msgs \cup {None}]
        /\ flushed' \in [Nodes -> Msgs \cup {None}]
    BY <1>1 DEF Crash, TypeOK
  <2>3. QED
    BY <1>1, <2>1, <2>2 DEF Crash, TypeOK, table
<1>2. CASE Start(n)
  BY <1>2 DEF Start, TypeOK, sending, table, offline, filters
<1>3. ASSUME NEW m \in Msgs, Forget(n, m)
      PROVE  TypeOK'
  <2>1. seen' \in [Nodes -> SUBSET Msgs]
    BY <1>3 DEF Forget, TypeOK
  <2>2. QED
    BY <1>3, <2>1 DEF Forget, TypeOK, sending, table, offline, life
<1>4. ASSUME NEW m \in Msgs, MarkArrived(n, m)
      PROVE  TypeOK'
  <2>1. /\ row' \in [Msgs -> {"none", "sent", "delivered", "acknowledged"}]
        /\ arrived' \in [Nodes -> SUBSET Msgs]
    BY <1>4 DEF MarkArrived, TypeOK
  <2>2. QED
    BY <1>4, <2>1 DEF MarkArrived, TypeOK, sending, offline, filters, life
<1>5. QED
  BY <1>1, <1>2, <1>3, <1>4

\* Every step keeps the budget.
LEMMA BudgetStep ==
  ASSUME TypeOK, InBudget, [Next]_vars
  PROVE  InBudget'
<1> USE MessageAssumption
<1>1. ASSUME NEW m \in Msgs, Sends(m)
      PROVE  InBudget'
  <2>1. stage[m] # "done" /\ stage' \in {[stage EXCEPT ![m] = "done"], [stage EXCEPT ![m] = "persisted"]}
    BY <1>1 DEF Sends, Hold, Persist, SendBroadcast, SendDirect, SendStored, SendFailed, At, Goto
  <2>2. UNCHANGED <<tries, flushed>>
    BY <1>1 DEF Sends, Hold, Persist, SendBroadcast, SendDirect, SendStored, SendFailed, offline
  <2>3. CASE queue' = queue
    BY <2>1, <2>2, <2>3 DEF InBudget, TypeOK
  <2>4. CASE \E s \in {"none", "queued"} : queue' = [queue EXCEPT ![m] = s]
    <3>1. stage' = [stage EXCEPT ![m] = "done"] \/ queue' = queue
      BY <1>1 DEF Sends, Hold, Persist, SendBroadcast, SendDirect, SendStored, SendFailed, Goto, offline
    <3>2. CASE stage' = [stage EXCEPT ![m] = "done"]
      BY <2>1, <2>2, <2>4, <3>2 DEF InBudget, TypeOK
    <3>3. QED
      BY <2>3, <3>1, <3>2
  <2>5. QED
    BY <1>1, <2>3, <2>4 DEF Sends, Hold, Persist, SendBroadcast, SendDirect, SendStored, SendFailed, offline
<1>2. ASSUME NEW r \in Nodes, FlushMark(r)
      PROVE  InBudget'
  <2>1. flushed[r] \in Msgs
    BY <1>2 DEF FlushMark, TypeOK
  <2>2. queue' = queue \/ queue' = [queue EXCEPT ![flushed[r]] = "delivered"]
    BY <1>2 DEF FlushMark
  <2>3. UNCHANGED <<stage, tries>>
    BY <1>2 DEF FlushMark, sending
  <2>4. stage[flushed[r]] = "done"
    BY <1>2, <2>1 DEF FlushMark, InBudget
  <2>5. flushed' = [flushed EXCEPT ![r] = None]
    BY <1>2 DEF FlushMark
  <2>6. QED
    BY <2>1, <2>2, <2>3, <2>4, <2>5 DEF InBudget, TypeOK
<1>3. ASSUME NEW r \in Nodes, NEW m \in Msgs, FlushFails(r, m)
      PROVE  InBudget'
  BY <1>3 DEF FlushFails, Flushing, Exhausted, InBudget, TypeOK, sending
<1>4. ASSUME NEW n \in Nodes, Crash(n)
      PROVE  InBudget'
  BY <1>4 DEF Crash, InBudget, TypeOK
<1>5. CASE UNCHANGED <<stage, queue, tries, flushed>>
  BY <1>5 DEF InBudget
<1>6. ASSUME NEW n \in Nodes, Polls(n) \/ Receives(n) \/ Start(n)
      PROVE  UNCHANGED <<stage, queue, tries, flushed>>
  BY <1>6 DEF Polls, Mark, Take, Receives, Act, Handle, Start, sending, offline
<1>7. ASSUME NEW n \in Nodes, NEW m \in Msgs, MarkArrived(n, m) \/ Forget(n, m)
      PROVE  UNCHANGED <<stage, queue, tries, flushed>>
  BY <1>7 DEF MarkArrived, Forget, sending, offline
<1>8. ASSUME NEW c \in net, Deliver(c) \/ Lose(c)
      PROVE  UNCHANGED <<stage, queue, tries, flushed>>
  BY <1>8 DEF Deliver, Lose, sending, offline
<1>9. ASSUME NEW r \in Nodes, NEW m \in Msgs, Flush(r, m)
      PROVE  InBudget'
  <2>1. stage[m] = "done"
    BY <1>9 DEF Flush, Flushing, InBudget
  <2>2. flushed' = [flushed EXCEPT ![r] = m] /\ UNCHANGED <<stage, queue, tries>>
    BY <1>9 DEF Flush, sending
  <2>3. QED
    BY <2>1, <2>2 DEF InBudget, TypeOK
<1>10. CASE UNCHANGED vars
  BY <1>10 DEF InBudget, vars, sending, offline
<1>11. QED
  BY <1>1, <1>2, <1>3, <1>4, <1>5, <1>6, <1>7, <1>8, <1>9, <1>10 DEF Next, Flushes

\* Every step keeps the types.
LEMMA TypeStep ==
  ASSUME TypeOK, InBudget, [Next]_vars
  PROVE  TypeOK'
<1>1. CASE \E m \in Msgs : Sends(m)
  BY <1>1, SendType
<1>2. CASE \E c \in net : Deliver(c) \/ Lose(c)
  BY <1>2, LinkType
<1>3. ASSUME NEW n \in Nodes, Polls(n) \/ Receives(n) \/ Flushes(n) \/ Crash(n) \/ Start(n)
      PROVE  TypeOK'
  BY <1>3, PollType, ReceiveType, FlushType, LifeType
<1>4. ASSUME NEW n \in Nodes, NEW m \in Msgs, MarkArrived(n, m) \/ Forget(n, m)
      PROVE  TypeOK'
  BY <1>4, LifeType
<1>5. CASE UNCHANGED vars
  BY <1>5 DEF TypeOK, vars, sending, table, offline, filters, life
<1>6. QED
  BY <1>1, <1>2, <1>3, <1>4, <1>5 DEF Next

\* The initial states have the types.
LEMMA InitTypes ==
  ASSUME Init
  PROVE  TypeOK /\ InBudget
<1> USE MessageAssumption
<1>1. to \in [Msgs -> Nodes \cup {All}]
  BY DEF Init
<1>2. TypeOK
  BY <1>1 DEF Init, TypeOK
<1>3. InBudget
  BY DEF Init, InBudget
<1>4. QED
  BY <1>2, <1>3

\* TypeOK of the model: above all, the retry_count of a queue entry never passes its
\* max_retries (mark_failed), for any number of nodes and messages.
THEOREM TypeCorrect == Spec => []TypeOK
<1>1. Init => TypeOK /\ InBudget
  BY InitTypes
<1>2. TypeOK /\ InBudget /\ [Next]_vars => (TypeOK /\ InBudget)'
  BY TypeStep, BudgetStep
<1>3. QED
  BY <1>1, <1>2, PTL DEF Spec

-----------------------------------------------------------------------------
(***************************************************************************)
(* At most once.  The copies of a message that reach an addressee all name *)
(* the node that sent it first: the only other name a copy can bear is the *)
(* recipient's own, and those are skipped.  So there is one key.           *)
(***************************************************************************)

Origin(m, by) == by = from[m] \/ by = to[m]

Origins ==
  /\ \A m \in Msgs : Origin(m, author[m])
  /\ \A c \in net : Origin(c[1], c[2])
  /\ \A n \in Nodes : \A c \in inbox[n] : c[2] # n /\ Origin(c[1], c[2])

\* What has been taken has its key on the disk, and what is being handled has not
\* been handled.
Keyed ==
  /\ \A n \in Nodes : \A k \in keys[n] : k[1] = from[k[2]]
  /\ \A n \in Nodes, m \in Msgs :
        /\ busy[n] = m => <<from[m], m>> \in keys[n] /\ acts[n][m] = 0
        /\ acts[n][m] > 0 => <<from[m], m>> \in keys[n]

\* A Put brings in copies of one origin.
LEMMA PutOrigin ==
  ASSUME TypeOK, Origins, NEW ns, NEW m \in Msgs, NEW by \in Nodes, Origin(m, by),
         Put(ns, m, by), to' = to
  PROVE  \A n \in Nodes : \A c \in inbox'[n] : c[2] # n /\ Origin(c[1], c[2])'
<1> SUFFICES ASSUME NEW n \in Nodes, NEW c \in inbox'[n]
             PROVE  c[2] # n /\ Origin(c[1], c[2])
  BY DEF Origin
<1>1. CASE c \in inbox[n]
  BY <1>1 DEF Origins
<1>2. CASE c = <<m, by>> /\ n # by
  BY <1>2
<1>3. QED
  BY <1>1, <1>2 DEF Put

\* An insert leaves every row with an author of its message's origin.
LEMMA InsertOrigin ==
  ASSUME TypeOK, Origins, NEW m \in Msgs, NEW by \in Nodes, Origin(m, by),
         Insert(m, by), to' = to
  PROVE  \A u \in Msgs : Origin(u, author'[u])
BY DEF Origins, Origin, Insert, table, TypeOK

\* An insert and the NOTIFY it fires keep the origins.
LEMMA NotifyOrigin ==
  ASSUME TypeOK, Origins, NEW m \in Msgs, NEW by \in Nodes, Origin(m, by),
         Insert(m, by), Notify(m), to' = to
  PROVE  /\ \A u \in Msgs : Origin(u, author'[u])
         /\ \A n \in Nodes : \A c \in inbox'[n] : c[2] # n /\ Origin(c[1], c[2])'
<1>1. \A u \in Msgs : Origin(u, author'[u])
  BY InsertOrigin
<1>2. author'[m] \in Nodes
  BY InsertType
<1>3. PICK ns \in SUBSET Nodes : Put(ns, m, author'[m])
  BY DEF Notify
<1>4. \A n \in Nodes : \A c \in inbox'[n] : c[2] # n /\ Origin(c[1], c[2])'
  BY <1>1, <1>2, <1>3, PutOrigin
<1>5. QED
  BY <1>1, <1>4

\* The header of a message never changes.
LEMMA HeaderFixed ==
  ASSUME [Next]_vars
  PROVE  to' = to /\ keep' = keep
<1>1. ASSUME NEW m \in Msgs, Sends(m)
      PROVE  to' = to /\ keep' = keep
  BY <1>1 DEF Sends, Hold, Persist, SendBroadcast, SendDirect, SendStored, SendFailed
<1>2. ASSUME NEW c, Deliver(c) \/ Lose(c)
      PROVE  to' = to /\ keep' = keep
  BY <1>2 DEF Deliver, Lose, sending
<1>3. ASSUME NEW n \in Nodes, Polls(n) \/ Receives(n)
      PROVE  to' = to /\ keep' = keep
  BY <1>3 DEF Polls, Mark, Take, Receives, Act, Handle, sending
<1>4. ASSUME NEW n \in Nodes, Flushes(n) \/ Crash(n) \/ Start(n)
      PROVE  to' = to /\ keep' = keep
  BY <1>4 DEF Flushes, FlushMark, Flush, FlushFails, Crash, Start, sending
<1>5. ASSUME NEW n, NEW m, MarkArrived(n, m) \/ Forget(n, m)
      PROVE  to' = to /\ keep' = keep
  BY <1>5 DEF MarkArrived, Forget, sending
<1>6. CASE UNCHANGED vars
  BY <1>6 DEF vars, sending
<1>7. QED
  BY <1>1, <1>2, <1>3, <1>4, <1>5, <1>6 DEF Next

\* Every step keeps the origins.
LEMMA OriginStep ==
  ASSUME TypeOK, Origins, [Next]_vars
  PROVE  Origins'
<1> USE MessageAssumption
<1> DEFINE OldNet == \A c \in net' : Origin(c[1], c[2])'
           OldInbox == \A n \in Nodes : \A c \in inbox'[n] : c[2] # n /\ Origin(c[1], c[2])'
           OldTable == \A u \in Msgs : Origin(u, author[u])'
<1>0. to' = to
  BY HeaderFixed
<1>1. net' = net => OldNet
  BY <1>0 DEF Origins, Origin
<1>2. inbox' = inbox => OldInbox
  BY <1>0 DEF Origins, Origin
<1>3. author' = author => OldTable
  BY <1>0 DEF Origins, Origin
<1>4. OldNet /\ OldInbox /\ OldTable => Origins'
  BY DEF Origins
<1>5. ASSUME NEW m \in Msgs, Sends(m)
      PROVE  Origins'
  <2>1. Origin(m, from[m]) /\ from[m] \in Nodes
    BY DEF Origin
  <2>2. CASE Insert(m, from[m]) /\ Notify(m)
    <3>0. \A u \in Msgs : Origin(u, author'[u])
      BY <1>0, <2>1, <2>2, NotifyOrigin
    <3>1. OldInbox /\ OldTable
      BY <1>0, <2>1, <2>2, <3>0, NotifyOrigin DEF Origin
    <3>2. OldNet
      <4>1. ASSUME NEW c \in net', c \notin net
            PROVE  c[1] = m /\ c[2] = from[m]
        BY <1>5, <4>1 DEF Sends, Hold, Persist, SendBroadcast, SendDirect, SendStored, SendFailed
      <4>2. QED
        BY <1>0, <2>1, <4>1 DEF Origins, Origin
    <3>3. QED
      BY <1>4, <3>1, <3>2
  <2>3. CASE inbox' = inbox /\ author' = author
    <3>1. ASSUME NEW c \in net', c \notin net
          PROVE  c[1] = m /\ c[2] = from[m]
      BY <1>5, <3>1 DEF Sends, Hold, Persist, SendBroadcast, SendDirect, SendStored, SendFailed
    <3>2. OldNet
      BY <1>0, <2>1, <3>1 DEF Origins, Origin
    <3>3. QED
      BY <1>2, <1>3, <1>4, <2>3, <3>2
  <2>4. QED
    BY <1>5, <2>2, <2>3 DEF Sends, Hold, Persist, SendBroadcast, SendDirect, SendStored, SendFailed,
                            NoPut, table
<1>6. ASSUME NEW c \in net, Deliver(c) \/ Lose(c)
      PROVE  Origins'
  <2>1. c[1] \in Msgs /\ c[2] \in Nodes /\ Origin(c[1], c[2])
    BY DEF TypeOK, Origins
  <2>2. net' \subseteq net /\ author' = author
    BY <1>6 DEF Deliver, Lose, table
  <2>3. OldNet
    BY <1>0, <2>2 DEF Origins, Origin
  <2>4. OldInbox
    BY <1>0, <1>2, <1>6, <2>1, PutOrigin DEF Deliver, Lose
  <2>5. QED
    BY <1>3, <1>4, <2>2, <2>3, <2>4
<1>7. ASSUME NEW n \in Nodes, NEW m \in Msgs, Take(n, m)
      PROVE  Origins'
  <2>1. author[m] \in Nodes /\ Origin(m, author[m])
    BY DEF TypeOK, Origins
  <2>2. OldInbox
    BY <1>0, <1>2, <1>7, <2>1, PutOrigin DEF Take
  <2>3. net' = net /\ author' = author
    BY <1>7 DEF Take, table
  <2>4. QED
    BY <1>1, <1>3, <1>4, <2>2, <2>3
<1>8. ASSUME NEW n \in Nodes, NEW m \in Msgs, NEW by \in Nodes, Handle(n, m, by)
      PROVE  Origins'
  <2>1. inbox' = [inbox EXCEPT ![n] = @ \ {<<m, by>>}] /\ author' = author
    BY <1>8 DEF Handle, table
  <2>2. OldInbox
    BY <1>0, <2>1 DEF Origins, Origin, TypeOK
  <2>3. net' = net \/ net' = net \cup {<<m, by, to[m]>>}
    BY <1>8 DEF Handle
  <2>4. Origin(m, by)
    BY <1>8 DEF Handle, Origins
  <2>5. OldNet
    BY <1>0, <2>3, <2>4 DEF Origins, Origin
  <2>6. QED
    BY <1>3, <1>4, <2>1, <2>2, <2>5
<1>9. ASSUME NEW r \in Nodes, NEW m \in Msgs, Flush(r, m)
      PROVE  Origins'
  <2>1. Resender(r, m) \in Nodes /\ Origin(m, Resender(r, m))
    BY <1>9 DEF Flush, Flushing, Resender, Origin
  <2>0. \A u \in Msgs : Origin(u, author'[u])
    BY <1>0, <1>9, <2>1, NotifyOrigin DEF Flush
  <2>2. OldInbox /\ OldTable
    BY <1>0, <1>9, <2>0, <2>1, NotifyOrigin DEF Flush, Origin
  <2>3. QED
    BY <1>1, <1>4, <1>9, <2>2 DEF Flush
<1>10. ASSUME NEW n \in Nodes, Crash(n)
       PROVE  Origins'
  <2>1. OldInbox
    BY <1>0, <1>10 DEF Crash, Origins, Origin, TypeOK
  <2>2. QED
    BY <1>1, <1>3, <1>4, <1>10, <2>1 DEF Crash, table
<1>11. CASE UNCHANGED <<net, inbox, author>>
  BY <1>1, <1>2, <1>3, <1>4, <1>11
<1>12. ASSUME NEW n \in Nodes, NEW m \in Msgs,
              Mark(n) \/ Act(n) \/ FlushMark(n) \/ FlushFails(n, m) \/ Start(n)
                \/ MarkArrived(n, m) \/ Forget(n, m)
       PROVE  UNCHANGED <<net, inbox, author>>
  BY <1>12 DEF Mark, Act, FlushMark, FlushFails, Start, MarkArrived, Forget, table
<1>13. ASSUME NEW n \in Nodes, Mark(n) \/ Act(n) \/ FlushMark(n) \/ Start(n)
       PROVE  UNCHANGED <<net, inbox, author>>
  BY <1>13 DEF Mark, Act, FlushMark, Start, table
<1>14. CASE UNCHANGED vars
  BY <1>1, <1>2, <1>3, <1>4, <1>14 DEF vars, table
<1> HIDE DEF OldNet, OldInbox, OldTable
<1>15. QED
  BY <1>5, <1>6, <1>7, <1>8, <1>9, <1>10, <1>11, <1>12, <1>13, <1>14
     DEF Next, Polls, Receives, Flushes

\* A copy of a message in an addressee's queue names the first sender.
LEMMA OneSender ==
  ASSUME TypeOK, Origins, NEW n \in Nodes, NEW m \in Msgs, NEW by \in Nodes,
         <<m, by>> \in inbox[n], Addressed(m, n)
  PROVE  by = from[m]
<1>1. by # n /\ Origin(m, by)
  <2>1. <<m, by>>[2] # n /\ Origin(<<m, by>>[1], <<m, by>>[2])
    BY DEF Origins
  <2>2. QED
    BY <2>1
<1>2. QED
  BY <1>1, MessageAssumption DEF Origin, Addressed

\* What the handling of a copy does to keys and handlers: nothing, or it takes the
\* message.
LEMMA HandleCases ==
  ASSUME TypeOK, Origins, NEW n \in Nodes, NEW m \in Msgs, NEW by \in Nodes,
         Handle(n, m, by)
  PROVE  /\ acts' = acts
         /\ \/ UNCHANGED <<keys, busy>>
            \/ /\ busy[n] = None /\ <<from[m], m>> \notin keys[n]
               /\ keys' = [keys EXCEPT ![n] = @ \cup {<<from[m], m>>}]
               /\ busy' = [busy EXCEPT ![n] = m]
<1>1. acts' = acts
  BY DEF Handle
<1>2. CASE Addressed(m, n)
  <2>1. by = from[m]
    BY <1>2, OneSender DEF Handle
  <2>2. QED
    BY <1>1, <1>2, <2>1 DEF Handle, Recorded, filters
<1>3. CASE ~Addressed(m, n)
  BY <1>1, <1>3 DEF Handle, filters
<1>4. QED
  BY <1>2, <1>3

\* Every step but these three leaves keys and handlers alone.
LEMMA OtherSteps ==
  ASSUME [Next]_vars,
         ~\E n \in Nodes, m \in Msgs, by \in Nodes : Handle(n, m, by),
         ~\E n \in Nodes : Act(n) \/ Crash(n)
  PROVE  UNCHANGED <<keys, busy, acts>>
<1>1. ASSUME NEW m \in Msgs, Sends(m)
      PROVE  UNCHANGED <<keys, busy, acts>>
  BY <1>1 DEF Sends, Hold, Persist, SendBroadcast, SendDirect, SendStored, SendFailed, filters
<1>2. ASSUME NEW c, Deliver(c) \/ Lose(c)
      PROVE  UNCHANGED <<keys, busy, acts>>
  BY <1>2 DEF Deliver, Lose, filters
<1>3. ASSUME NEW n \in Nodes, Polls(n)
      PROVE  UNCHANGED <<keys, busy, acts>>
  BY <1>3 DEF Polls, Mark, Take, filters
<1>4. ASSUME NEW n \in Nodes, Flushes(n) \/ Start(n)
      PROVE  UNCHANGED <<keys, busy, acts>>
  BY <1>4 DEF Flushes, FlushMark, Flush, FlushFails, Start, filters
<1>5. ASSUME NEW n, NEW m, MarkArrived(n, m) \/ Forget(n, m)
      PROVE  UNCHANGED <<keys, busy, acts>>
  BY <1>5 DEF MarkArrived, Forget, filters
<1>6. CASE UNCHANGED vars
  BY <1>6 DEF vars, filters
<1>7. QED
  BY <1>1, <1>2, <1>3, <1>4, <1>5, <1>6 DEF Next, Receives

\* Every step keeps the keys of what has been taken.
LEMMA KeyedStep ==
  ASSUME TypeOK, Origins, Keyed, [Next]_vars
  PROVE  Keyed'
<1> USE MessageAssumption
<1>1. ASSUME NEW n \in Nodes, NEW m \in Msgs, NEW by \in Nodes, Handle(n, m, by)
      PROVE  Keyed'
  <2>1. acts' = acts
    BY <1>1, HandleCases
  <2>2. CASE UNCHANGED <<keys, busy>>
    BY <2>1, <2>2 DEF Keyed
  <2>3. CASE /\ busy[n] = None /\ <<from[m], m>> \notin keys[n]
             /\ keys' = [keys EXCEPT ![n] = @ \cup {<<from[m], m>>}]
             /\ busy' = [busy EXCEPT ![n] = m]
    <3>0. acts[n][m] \in 0 .. 2
      BY DEF TypeOK
    <3>1. acts[n][m] = 0
      BY <2>3, <3>0 DEF Keyed
    <3>2. keys \in [Nodes -> SUBSET (Nodes \X Msgs)] /\ busy \in [Nodes -> Msgs \cup {None}]
      BY DEF TypeOK
    <3>3. QED
      BY <2>1, <2>3, <3>1, <3>2 DEF Keyed
  <2>4. QED
    BY <1>1, <2>2, <2>3, HandleCases
<1>2. ASSUME NEW n \in Nodes, Act(n)
      PROVE  Keyed'
  <2>1. busy[n] \in Msgs
    BY <1>2 DEF Act, TypeOK
  <2>2. keys' = keys /\ busy' = [busy EXCEPT ![n] = None]
    BY <1>2 DEF Act, filters
  <2>3. \A k \in Nodes, u \in Msgs : k # n \/ u # busy[n] => acts'[k][u] = acts[k][u]
    BY <1>2, <2>1 DEF Act, TypeOK
  <2>4. <<from[busy[n]], busy[n]>> \in keys[n]
    BY <2>1 DEF Keyed
  <2>5. ASSUME NEW k \in Nodes, NEW u \in Msgs
        PROVE  /\ busy'[k] = u => <<from[u], u>> \in keys'[k] /\ acts'[k][u] = 0
               /\ acts'[k][u] > 0 => <<from[u], u>> \in keys'[k]
    <3>1. busy'[k] = u => k # n /\ busy[k] = u
      BY <2>2 DEF TypeOK
    <3>2. QED
      BY <2>2, <2>3, <2>4, <3>1 DEF Keyed
  <2>6. QED
    BY <2>2, <2>5 DEF Keyed
<1>3. ASSUME NEW n \in Nodes, Crash(n)
      PROVE  Keyed'
  <2>1. UNCHANGED <<keys, acts>> /\ busy' = [busy EXCEPT ![n] = None]
    BY <1>3 DEF Crash
  <2>2. QED
    BY <2>1 DEF Keyed, TypeOK
<1>4. CASE UNCHANGED <<keys, busy, acts>>
  BY <1>4 DEF Keyed
<1>5. QED
  BY <1>1, <1>2, <1>3, <1>4, OtherSteps

\* A step that changes what one node sees of one message is a change of the mailbox.
LEMMA OneChange ==
  ASSUME NEW n \in Nodes, NEW m \in Msgs, NEW before, NEW after, Seen(n, m) = before,
         \A k \in Nodes, u \in Msgs :
            Seen(k, u)' = IF k = n /\ u = m THEN after ELSE Seen(k, u)
  PROVE  Box!Change(n, m, before, after)
BY DEF Box!Change

\* Every step is a step of the mailbox, or none.
LEMMA MailboxStep ==
  ASSUME TypeOK, Origins, Keyed, [Next]_vars
  PROVE  [Box!Next]_([n \in Nodes |-> [m \in Msgs |-> Seen(n, m)]])
<1> USE MessageAssumption
<1> DEFINE Same == UNCHANGED [n \in Nodes |-> [m \in Msgs |-> Seen(n, m)]]
<1>1. ASSUME NEW n \in Nodes, NEW m \in Msgs, NEW by \in Nodes, Handle(n, m, by)
      PROVE  Same \/ Box!Accept(n, m)
  <2>1. acts' = acts
    BY <1>1, HandleCases
  <2>2. CASE UNCHANGED <<keys, busy>>
    BY <2>1, <2>2 DEF Seen
  <2>3. CASE /\ busy[n] = None /\ <<from[m], m>> \notin keys[n]
             /\ keys' = [keys EXCEPT ![n] = @ \cup {<<from[m], m>>}]
             /\ busy' = [busy EXCEPT ![n] = m]
    <3>0. acts[n][m] \in 0 .. 2
      BY DEF TypeOK
    <3>1. acts[n][m] = 0
      BY <2>3, <3>0 DEF Keyed
    <3>2. Seen(n, m) = "waiting"
      <4>1. busy[n] # m
        BY <2>3
      <4>2. ~\E b \in Nodes : <<b, m>> \in keys[n]
        BY <2>3 DEF Keyed
      <4>3. QED
        BY <3>1, <4>1, <4>2 DEF Seen
    <3>3. keys \in [Nodes -> SUBSET (Nodes \X Msgs)] /\ busy \in [Nodes -> Msgs \cup {None}]
      BY DEF TypeOK
    <3>4. Seen(n, m)' = "accepted"
      BY <2>3, <3>3 DEF Seen
    <3>5. ASSUME NEW k \in Nodes, NEW u \in Msgs, k # n \/ u # m
          PROVE  Seen(k, u)' = Seen(k, u)
      <4>1. busy'[k] = u <=> busy[k] = u
        BY <2>3, <3>3, <3>5
      <4>2. \A b \in Nodes : <<b, u>> \in keys'[k] <=> <<b, u>> \in keys[k]
        BY <2>3, <3>3, <3>5
      <4>3. QED
        BY <2>1, <4>1, <4>2 DEF Seen
    <3>6. Box!Change(n, m, "waiting", "accepted")
      BY <3>2, <3>4, <3>5, OneChange
    <3>7. QED
      BY <3>6 DEF Box!Accept
  <2>4. QED
    BY <1>1, <2>2, <2>3, HandleCases
<1>2. ASSUME NEW n \in Nodes, NEW m \in Msgs, Act(n), busy[n] = m
      PROVE  Box!Perform(n, m)
  <2>1. acts \in [Nodes -> [Msgs -> 0 .. 2]] /\ busy \in [Nodes -> Msgs \cup {None}]
    BY DEF TypeOK
  <2>2. keys' = keys /\ busy' = [busy EXCEPT ![n] = None]
    BY <1>2 DEF Act, filters
  <2>3. acts' = [acts EXCEPT ![n][m] = IF @ = 0 THEN 1 ELSE 2]
    BY <1>2 DEF Act
  <2>4. Seen(n, m) = "accepted"
    BY <1>2 DEF Seen
  <2>5. Seen(n, m)' = "performed"
    <3>1. busy'[n] # m
      BY <2>1, <2>2
    <3>2. acts'[n][m] > 0
      BY <2>1, <2>3
    <3>3. QED
      BY <3>1, <3>2 DEF Seen
  <2>6. ASSUME NEW k \in Nodes, NEW u \in Msgs, k # n \/ u # m
        PROVE  Seen(k, u)' = Seen(k, u)
    <3>1. busy'[k] = u <=> busy[k] = u
      BY <1>2, <2>1, <2>2, <2>6
    <3>2. acts'[k][u] = acts[k][u]
      BY <2>1, <2>3, <2>6
    <3>3. QED
      BY <2>2, <3>1, <3>2 DEF Seen
  <2>7. Box!Change(n, m, "accepted", "performed")
    BY <2>4, <2>5, <2>6, OneChange
  <2>8. QED
    BY <2>7 DEF Box!Perform
<1>3. ASSUME NEW n \in Nodes, Crash(n)
      PROVE  Same \/ \E m \in Msgs : Box!Drop(n, m)
  <2>1. busy \in [Nodes -> Msgs \cup {None}]
    BY DEF TypeOK
  <2>2. UNCHANGED <<keys, acts>> /\ busy' = [busy EXCEPT ![n] = None]
    BY <1>3 DEF Crash
  <2>3. CASE busy[n] = None
    <3>1. busy' = busy
      BY <2>1, <2>2, <2>3
    <3>2. QED
      BY <2>2, <3>1 DEF Seen
  <2>4. ASSUME NEW m \in Msgs, busy[n] = m
        PROVE  Box!Drop(n, m)
    <3>1. Seen(n, m) = "accepted"
      BY <2>4 DEF Seen
    <3>2. acts[n][m] = 0 /\ <<from[m], m>> \in keys[n] /\ from[m] \in Nodes
      BY <2>4 DEF Keyed
    <3>3. busy'[n] # m
      BY <2>1, <2>2
    <3>4. Seen(n, m)' = "lost"
      BY <2>2, <3>2, <3>3 DEF Seen
    <3>5. ASSUME NEW k \in Nodes, NEW u \in Msgs, k # n \/ u # m
          PROVE  Seen(k, u)' = Seen(k, u)
      <4>1. busy'[k] = u <=> busy[k] = u
        BY <2>1, <2>2, <2>4, <3>5
      <4>2. QED
        BY <2>2, <4>1 DEF Seen
    <3>6. Box!Change(n, m, "accepted", "lost")
      BY <3>1, <3>4, <3>5, OneChange
    <3>7. QED
      BY <3>6 DEF Box!Drop
  <2>5. QED
    BY <2>1, <2>3, <2>4
<1>4. CASE UNCHANGED <<keys, busy, acts>>
  <2>1. Same
    BY <1>4 DEF Seen
  <2>2. QED
    BY <2>1
<1> HIDE DEF Same
<1>5. ASSUME NEW n \in Nodes, Act(n)
      PROVE  \E m \in Msgs : Box!Perform(n, m)
  <2>1. busy[n] \in Msgs
    BY <1>5 DEF Act, TypeOK
  <2>2. QED
    BY <1>2, <1>5, <2>1
<1>6. Same \/ Box!Next
  BY <1>1, <1>3, <1>4, <1>5, OtherSteps DEF Box!Next, Same
<1>7. QED
  BY <1>6 DEF Same

\* What holds in every state.
MailInv == TypeOK /\ InBudget /\ Origins /\ Keyed

\* MailInv is an invariant.
LEMMA MailInvHolds == Spec => []MailInv
<1>1. Init => MailInv
  <2> SUFFICES ASSUME Init PROVE MailInv
    OBVIOUS
  <2> USE MessageAssumption
  <2>1. TypeOK /\ InBudget
    BY InitTypes
  <2>2. Origins
    BY DEF Init, Origins, Origin
  <2>3. Keyed
    BY DEF Init, Keyed
  <2>4. QED
    BY <2>1, <2>2, <2>3 DEF MailInv
<1>2. MailInv /\ [Next]_vars => MailInv'
  BY TypeStep, BudgetStep, OriginStep, KeyedStep DEF MailInv
<1>3. QED
  BY <1>1, <1>2, PTL DEF Spec

\* The message path implements the mailbox of its addressees: a message is taken at
\* most once and its handlers are called at most once (MeshRouter.receive), for any
\* number of nodes, messages, crashes and duplicates.
THEOREM TakenAtMostOnce == Spec => AtMostOnce
<1>1. Init => Box!Init
  <2> SUFFICES ASSUME Init PROVE Box!Init
    OBVIOUS
  <2>1. \A n \in Nodes, m \in Msgs : Seen(n, m) = "waiting"
    BY MessageAssumption DEF Init, Seen
  <2>2. QED
    BY <2>1 DEF Box!Init
<1>2. MailInv /\ [Next]_vars => [Box!Next]_([n \in Nodes |-> [m \in Msgs |-> Seen(n, m)]])
  BY MailboxStep DEF MailInv
<1>3. QED
  BY <1>1, <1>2, MailInvHolds, PTL DEF Spec, AtMostOnce, Box!Spec

-----------------------------------------------------------------------------
(***************************************************************************)
(* Marked rows were taken.                                                 *)
(***************************************************************************)

\* A copy of a directed message goes to its recipient alone, and a poller or a
\* listener that has still to mark such a row has had its turn with it.
Taken ==
  /\ \A c \in net : to[c[1]] \in {All, c[3]}
  /\ \A n \in Nodes, m \in Msgs :
        /\ mark[n] = m => Addressed(m, n) /\ (to[m] = n => fate[m] # "no")
        /\ m \in arrived[n] => n \in Arrivals /\ (to[m] = n => fate[m] # "no")
  /\ DeliveredIsTaken

\* A message that was given to its addressee, or missed by it, stays so.
LEMMA FateKept ==
  ASSUME TypeOK, [Next]_vars, NEW m \in Msgs, fate[m] # "no"
  PROVE  fate'[m] # "no"
<1>0. fate \in [Msgs -> {"no", "missed", "yes"}]
  BY DEF TypeOK
<1>1. ASSUME NEW ns, NEW u, NEW by, Put(ns, u, by)
      PROVE  fate'[m] # "no"
  BY <1>0, <1>1 DEF Put
<1>2. ASSUME NEW u, Notify(u)
      PROVE  fate'[m] # "no"
  BY <1>1, <1>2 DEF Notify
<1>3. ASSUME NEW u \in Msgs, Sends(u)
      PROVE  fate'[m] # "no"
  BY <1>2, <1>3 DEF Sends, Hold, Persist, SendBroadcast, SendDirect, SendStored, SendFailed, NoPut
<1>4. ASSUME NEW c \in net, Deliver(c) \/ Lose(c)
      PROVE  fate'[m] # "no"
  BY <1>1, <1>4 DEF Deliver, Lose
<1>5. ASSUME NEW n \in Nodes, NEW u \in Msgs, Take(n, u)
      PROVE  fate'[m] # "no"
  BY <1>0, <1>1, <1>5 DEF Take
<1>6. ASSUME NEW r \in Nodes, NEW u \in Msgs, Flush(r, u)
      PROVE  fate'[m] # "no"
  BY <1>2, <1>6 DEF Flush
<1>7. CASE fate' = fate
  BY <1>7
<1>8. ASSUME NEW n \in Nodes, Mark(n) \/ Receives(n) \/ FlushMark(n) \/ Crash(n) \/ Start(n)
      PROVE  fate' = fate
  BY <1>8 DEF Mark, Receives, Act, Handle, FlushMark, Crash, Start
<1>9. ASSUME NEW n \in Nodes, NEW u \in Msgs,
             FlushFails(n, u) \/ MarkArrived(n, u) \/ Forget(n, u)
      PROVE  fate' = fate
  BY <1>9 DEF FlushFails, MarkArrived, Forget
<1>10. CASE UNCHANGED vars
  BY <1>10 DEF vars
<1>11. QED
  BY <1>3, <1>4, <1>5, <1>6, <1>7, <1>8, <1>9, <1>10 DEF Next, Polls, Flushes

\* Every step keeps the copies on the links on their way to their addressees.
LEMMA CopiesStep ==
  ASSUME TypeOK, Taken, [Next]_vars, NEW c \in net'
  PROVE  to'[c[1]] \in {All, c[3]}
<1>0. to' = to
  BY HeaderFixed
<1>1. CASE c \in net
  BY <1>0, <1>1 DEF Taken
<1>2. CASE c \notin net
  <2>1. ASSUME NEW m \in Msgs, Sends(m)
        PROVE  to[c[1]] \in {All, c[3]}
    <3>1. CASE SendBroadcast(m)
      BY <1>2, <3>1 DEF SendBroadcast, Broadcast
    <3>2. CASE SendDirect(m)
      BY <1>2, <3>2 DEF SendDirect
    <3>3. QED
      BY <1>2, <2>1, <3>1, <3>2 DEF Sends, Hold, Persist, SendStored, SendFailed
  <2>2. ASSUME NEW n \in Nodes, NEW m \in Msgs, NEW by \in Nodes, Handle(n, m, by)
        PROVE  to[c[1]] \in {All, c[3]}
    <3>1. net' = net \/ net' = net \cup {<<m, by, to[m]>>}
      BY <2>2 DEF Handle
    <3>2. QED
      BY <1>2, <3>1
  <2>3. ASSUME NEW d \in net, Deliver(d) \/ Lose(d)
        PROVE  net' \subseteq net
    BY <2>3 DEF Deliver, Lose
  <2>4. ASSUME NEW n \in Nodes, Polls(n) \/ Act(n) \/ Flushes(n) \/ Crash(n) \/ Start(n)
        PROVE  net' = net
    BY <2>4 DEF Polls, Mark, Take, Act, Flushes, FlushMark, Flush, FlushFails, Crash, Start
  <2>5. ASSUME NEW n \in Nodes, NEW m \in Msgs, MarkArrived(n, m) \/ Forget(n, m)
        PROVE  net' = net
    BY <2>5 DEF MarkArrived, Forget
  <2>6. CASE UNCHANGED vars
    BY <1>2, <2>6 DEF vars
  <2>7. QED
    BY <1>0, <1>2, <2>1, <2>2, <2>3, <2>4, <2>5, <2>6 DEF Next, Receives
<1>3. QED
  BY <1>1, <1>2

\* Every step keeps what holds of the rows fetched and not yet marked.
LEMMA MarkStep ==
  ASSUME TypeOK, Taken, [Next]_vars, NEW n \in Nodes, NEW m \in Msgs, mark'[n] = m
  PROVE  (Addressed(m, n) /\ (to[m] = n => fate[m] # "no"))'
<1> USE MessageAssumption
<1>0. to' = to /\ mark \in [Nodes -> Msgs \cup {None}]
  BY HeaderFixed DEF TypeOK
<1>1. CASE mark[n] = m
  <2>1. Addressed(m, n) /\ (to[m] = n => fate[m] # "no")
    BY <1>1 DEF Taken
  <2>2. QED
    BY <1>0, <2>1, FateKept DEF Addressed
<1>2. CASE mark[n] # m
  <2>1. ASSUME NEW k \in Nodes, NEW u \in Msgs, Take(k, u)
        PROVE  (Addressed(m, n) /\ (to[m] = n => fate[m] # "no"))'
    <3>1. k = n /\ u = m
      BY <1>0, <1>2, <2>1 DEF Take
    <3>2. Addressed(m, n)
      BY <2>1, <3>1 DEF Take, Backlog
    <3>3. to[m] = n => fate'[m] # "no"
      BY <2>1, <3>1 DEF Take, Put, TypeOK
    <3>4. QED
      BY <1>0, <3>2, <3>3 DEF Addressed
  <2>2. ASSUME NEW k \in Nodes, Mark(k) \/ Crash(k)
        PROVE  FALSE
    BY <1>0, <1>2, <2>2 DEF Mark, Crash
  <2>3. ASSUME NEW u \in Msgs, Sends(u)
        PROVE  mark' = mark
    BY <2>3 DEF Sends, Hold, Persist, SendBroadcast, SendDirect, SendStored, SendFailed
  <2>4. ASSUME NEW d \in net, Deliver(d) \/ Lose(d)
        PROVE  mark' = mark
    BY <2>4 DEF Deliver, Lose
  <2>5. ASSUME NEW k \in Nodes, Receives(k) \/ Flushes(k) \/ Start(k)
        PROVE  mark' = mark
    BY <2>5 DEF Receives, Act, Handle, Flushes, FlushMark, Flush, FlushFails, Start
  <2>6. ASSUME NEW k \in Nodes, NEW u \in Msgs, MarkArrived(k, u) \/ Forget(k, u)
        PROVE  mark' = mark
    BY <2>6 DEF MarkArrived, Forget
  <2>7. CASE UNCHANGED vars
    BY <1>2, <2>7 DEF vars
  <2>8. QED
    BY <1>2, <2>1, <2>2, <2>3, <2>4, <2>5, <2>6, <2>7 DEF Next, Polls
<1>3. QED
  BY <1>1, <1>2

\* Every step keeps what holds of the rows a listener has still to update.
LEMMA ArrivedStep ==
  ASSUME TypeOK, Taken, [Next]_vars, NEW n \in Nodes, NEW m \in Msgs, m \in arrived'[n]
  PROVE  n \in Arrivals /\ (to'[m] = n => fate'[m] # "no")
<1>0. to' = to /\ arrived \in [Nodes -> SUBSET Msgs] /\ fate \in [Msgs -> {"no", "missed", "yes"}]
  BY HeaderFixed DEF TypeOK
<1>1. CASE m \in arrived[n]
  <2>1. n \in Arrivals /\ (to[m] = n => fate[m] # "no")
    BY <1>1 DEF Taken
  <2>2. QED
    BY <1>0, <2>1, FateKept
<1>2. CASE m \notin arrived[n]
  <2>1. ASSUME NEW u \in Msgs, Notify(u)
        PROVE  n \in Arrivals /\ (to[m] = n => fate'[m] # "no")
    <3>1. PICK ns \in SUBSET Nodes, as \in SUBSET Arrivals :
            /\ Put(ns, u, author'[u])
            /\ as \subseteq ns
            /\ arrived' = [k \in Nodes |-> IF k \in as THEN arrived[k] \cup {u} ELSE arrived[k]]
      BY <2>1 DEF Notify
    <3>2. n \in as /\ u = m
      BY <1>2, <3>1
    <3>3. fate' = [fate EXCEPT ![m] = IF to[m] \in ns THEN "yes" ELSE @]
      BY <3>1, <3>2 DEF Put
    <3>4. QED
      BY <1>0, <3>1, <3>2, <3>3
  <2>2. ASSUME NEW u \in Msgs, Sends(u)
        PROVE  Notify(u) \/ arrived' = arrived
    BY <2>2 DEF Sends, Hold, Persist, SendBroadcast, SendDirect, SendStored, SendFailed, NoPut
  <2>3. ASSUME NEW d \in net, Deliver(d) \/ Lose(d)
        PROVE  arrived' = arrived
    BY <2>3 DEF Deliver, Lose
  <2>4. ASSUME NEW k \in Nodes, Polls(k) \/ Receives(k) \/ Start(k) \/ FlushMark(k)
        PROVE  arrived' = arrived
    BY <2>4 DEF Polls, Mark, Take, Receives, Act, Handle, Start, FlushMark
  <2>5. ASSUME NEW k \in Nodes, NEW u \in Msgs, FlushFails(k, u) \/ Forget(k, u)
        PROVE  arrived' = arrived
    BY <2>5 DEF FlushFails, Forget
  <2>6. ASSUME NEW k \in Nodes, NEW u \in Msgs, Flush(k, u)
        PROVE  Notify(u)
    BY <2>6 DEF Flush
  <2>7. ASSUME NEW k \in Nodes, NEW u \in Msgs, Crash(k) \/ MarkArrived(k, u)
        PROVE  FALSE
    BY <1>0, <1>2, <2>7 DEF Crash, MarkArrived
  <2>8. CASE UNCHANGED vars
    BY <1>2, <2>8 DEF vars
  <2>9. QED
    BY <1>0, <1>2, <2>1, <2>2, <2>3, <2>4, <2>5, <2>6, <2>7, <2>8 DEF Next, Flushes
<1>3. QED
  BY <1>1, <1>2

\* Every step that marks a row finds it taken.
LEMMA DeliveredStep ==
  ASSUME TypeOK, Taken, [Next]_vars
  PROVE  DeliveredIsTaken'
<1> USE MessageAssumption
<1>0. to' = to /\ row \in [Msgs -> {"none", "sent", "delivered", "acknowledged"}]
  BY HeaderFixed DEF TypeOK
<1> SUFFICES ASSUME NEW m \in Msgs, row'[m] \in {"delivered", "acknowledged"}, to[m] # All,
                    NoBystander(m)
             PROVE  fate'[m] # "no"
  BY <1>0 DEF DeliveredIsTaken, Broadcast, NoBystander
<1>1. CASE row'[m] = row[m]
  BY <1>1, FateKept DEF Taken, DeliveredIsTaken, Broadcast
<1>2. CASE row'[m] # row[m]
  <2>1. ASSUME NEW u \in Msgs, NEW by, Insert(u, by)
        PROVE  FALSE
    BY <1>0, <1>2, <2>1 DEF Insert, table
  <2>2. ASSUME NEW u \in Msgs, Sends(u)
        PROVE  FALSE
    BY <1>2, <2>1, <2>2 DEF Sends, Hold, Persist, SendBroadcast, SendDirect, SendStored, SendFailed, table
  <2>3. ASSUME NEW c \in net, Deliver(c)
        PROVE  fate'[m] # "no"
    <3>1. c[1] = m
      BY <1>0, <1>2, <2>3 DEF Deliver
    <3>2. to[m] = c[3]
      BY <3>1 DEF Taken
    <3>3. fate \in [Msgs -> {"no", "missed", "yes"}]
      BY DEF TypeOK
    <3>4. QED
      BY <2>3, <3>1, <3>2, <3>3 DEF Deliver, Put
  <2>4. ASSUME NEW n \in Nodes, Mark(n)
        PROVE  fate'[m] # "no"
    <3>1. mark[n] = m
      BY <1>0, <1>2, <2>4 DEF Mark
    <3>2. to[m] = n
      BY <3>1 DEF Taken, Addressed
    <3>3. fate[m] # "no"
      BY <3>1, <3>2 DEF Taken
    <3>4. QED
      BY <2>4, <3>3 DEF Mark
  <2>5. ASSUME NEW n \in Nodes, NEW u \in Msgs, Take(n, u) \/ FlushFails(n, u) \/ Forget(n, u)
        PROVE  row' = row
    BY <2>5 DEF Take, FlushFails, Forget, table
  <2>6. ASSUME NEW n \in Nodes, Receives(n) \/ FlushMark(n) \/ Crash(n) \/ Start(n)
        PROVE  row' = row
    BY <2>6 DEF Receives, Act, Handle, FlushMark, Crash, Start, table
  <2>7. ASSUME NEW r \in Nodes, NEW u \in Msgs, Flush(r, u)
        PROVE  FALSE
    BY <2>1, <2>7 DEF Flush
  <2>8. ASSUME NEW c \in net, Lose(c)
        PROVE  row' = row
    BY <2>8 DEF Lose, table
  <2>9. CASE UNCHANGED vars
    BY <1>2, <2>9 DEF vars, table
  <2>10. ASSUME NEW n \in Nodes, NEW u \in Msgs, MarkArrived(n, u)
         PROVE  fate'[m] # "no"
    <3>1. u = m /\ m \in arrived[n]
      BY <1>0, <1>2, <2>10 DEF MarkArrived
    <3>2. to[m] = n
      BY <3>1 DEF Taken, NoBystander
    <3>3. fate[m] # "no"
      BY <3>1, <3>2 DEF Taken
    <3>4. QED
      BY <2>10, <3>3 DEF MarkArrived
  <2>11. QED
    BY <1>2, <2>2, <2>3, <2>4, <2>5, <2>6, <2>7, <2>8, <2>9, <2>10 DEF Next, Polls, Flushes
<1>3. QED
  BY <1>1, <1>2

\* DeliveredIsTaken of the model: no directed row is marked delivered or acknowledged
\* before its addressee had its turn with the message (_backlog_poll_loop,
\* _process_notification, _on_p2p_ack), where no other node listens on
\* mesh_message_arrived.
THEOREM MarkedIsTaken == Spec => []DeliveredIsTaken
<1>1. Init => Taken
  BY MessageAssumption DEF Init, Taken, DeliveredIsTaken
<1>2. TypeOK /\ Taken /\ [Next]_vars => Taken'
  <2> SUFFICES ASSUME TypeOK, Taken, [Next]_vars PROVE Taken'
    OBVIOUS
  <2>1. DeliveredIsTaken'
    BY DeliveredStep
  <2>2. \A c \in net' : to'[c[1]] \in {All, c[3]}
    BY CopiesStep
  <2>3. \A n \in Nodes, m \in Msgs :
           mark'[n] = m => (Addressed(m, n) /\ (to[m] = n => fate[m] # "no"))'
    BY MarkStep
  <2>4. \A n \in Nodes, m \in Msgs :
           m \in arrived'[n] => n \in Arrivals /\ (to'[m] = n => fate'[m] # "no")
    BY ArrivedStep
  <2>5. QED
    BY <2>1, <2>2, <2>3, <2>4 DEF Taken
<1>3. Taken => DeliveredIsTaken
  BY DEF Taken
<1>4. QED
  BY <1>1, <1>2, <1>3, TypeCorrect, PTL DEF Spec
=============================================================================
