----------------------------- MODULE LinkProofs -----------------------------
(***************************************************************************)
(* Theorems about Link, for any number of connections and messages.        *)
(***************************************************************************)
EXTENDS Link, TLAPS

-----------------------------------------------------------------------------
\* Types.

\* Moving messages keeps the type of at.
LEMMA MovedType ==
  ASSUME TypeOK, NEW ms, NEW place \in Place
  PROVE  Moved(ms, place) \in [Msgs -> Place]
BY DEF TypeOK, Moved

\* So does _enqueue_for_retry.
LEMMA ForRetryType ==
  ASSUME TypeOK, NEW ms
  PROVE  ForRetry(ms) \subseteq [Msgs -> Place]
BY MovedType DEF ForRetry, Place

\* Cancelling leaves a handler in a state a handler has.
LEMMA CancelledType ==
  ASSUME TypeOK, NEW c \in Conns
  PROVE  Cancelled(c) \in Handler
BY DEF TypeOK, Cancelled, Handler

\* Registering a connection keeps the types of the entry.
LEMMA RegisterType ==
  ASSUME TypeOK, NEW c \in Conns, Register(c)
  PROVE  wgen' \in [Conns -> Nat] /\ peer' \in Conns \cup {None} /\ gen' \in Nat
BY DEF TypeOK, Register

\* Whatever Ensured is, it is a state of the loop, and not none.
LEMMA EnsuredType ==
  ASSUME TypeOK
  PROVE  Ensured \in {"idle", "busy", "dead"}
BY DEF TypeOK, Ensured

\* A new connection keeps the types of everything it touches.
LEMMA ConnectType ==
  ASSUME TypeOK, NEW c \in Conns, Connect(c)
  PROVE  /\ conn' \in [Conns -> {"unused", "open", "closing"}]
         /\ hd' \in [Conns -> Handler]
         /\ wgen' \in [Conns -> Nat]
         /\ peer' \in Conns \cup {None} /\ gen' \in Nat /\ task' \in Conns \cup {None}
         /\ loop' \in {"none", "idle", "busy", "dead"}
         /\ taken' \in Conns \cup {None}
<1>1. Register(c) /\ task' = c /\ loop' = Ensured /\ taken' = taken
  BY DEF Connect
<1>2. conn' \in [Conns -> {"unused", "open", "closing"}]
  BY DEF Connect, TypeOK
<1>3. hd' \in [Conns -> Handler]
  <2>1. \A b \in Conns : Cancelled(b) \in Handler /\ hd[b] \in Handler
    BY CancelledType DEF TypeOK
  <2>2. "starting" \in Handler
    BY DEF Handler
  <2> QED BY <2>1, <2>2 DEF Connect
<1> QED BY <1>1, <1>2, <1>3, RegisterType, EnsuredType DEF TypeOK

\* Dials, done or failed, keep the types.
LEMMA DiallingType ==
  ASSUME TypeOK, Dialling
  PROVE  TypeOK'
<1>0. "queue" \in Place /\ "retry" \in Place
  BY DEF Place
<1>1. ASSUME NEW d \in Dialers, Dial(d) \/ DialFailed(d)
      PROVE  TypeOK'
  BY <1>1 DEF Dial, DialFailed, TypeOK, socks, entry, sends
<1>2. ASSUME NEW d \in Dialers, NEW c \in Conns, DialDone(d, c)
      PROVE  TypeOK'
  <2>1. Connect(c) /\ at' = Moved(In("retry"), "queue")
        /\ dialing' = dialing \ {d} /\ UNCHANGED <<sender, resending>>
    BY <1>2 DEF DialDone
  <2>2. at' \in [Msgs -> Place]
    BY <1>0, <2>1, MovedType
  <2> QED BY <2>1, <2>2, ConnectType DEF TypeOK
<1>3. ASSUME NEW c \in Conns, SendDone(c)
      PROVE  TypeOK'
  <2>1. Connect(c) /\ at' = Moved(In("retry") \cup {sender}, "queue")
        /\ sender' = None /\ UNCHANGED <<dialing, resending>>
    BY <1>3 DEF SendDone
  <2>2. at' \in [Msgs -> Place]
    BY <1>0, <2>1, MovedType
  <2> QED BY <2>1, <2>2, ConnectType DEF TypeOK
<1>4. CASE SendFailed
  <2>1. at' \in [Msgs -> Place]
    BY <1>0, <1>4, MovedType, ForRetryType DEF SendFailed
  <2>2. loop' \in {"none", "idle", "busy", "dead"}
    BY <1>4, EnsuredType DEF SendFailed, TypeOK
  <2> QED BY <1>4, <2>1, <2>2 DEF SendFailed, TypeOK, socks, entry
<1> QED BY <1>1, <1>2, <1>3, <1>4 DEF Dialling

\* send() and the pass over the retry queue keep the types.
LEMMA SendingType ==
  ASSUME TypeOK, NEW m \in Msgs, Sending(m) \/ RetryPass
  PROVE  TypeOK'
<1>0. {"queue", "dialing", "retry", "pass", "lost"} \subseteq Place
  BY DEF Place
<1>1. at' \in [Msgs -> Place]
  BY <1>0, MovedType, ForRetryType DEF Sending, RetryPass, Enqueue, SendDials, SendLater, Discard
<1>2. loop' \in {"none", "idle", "busy", "dead"}
  BY EnsuredType DEF Sending, RetryPass, Enqueue, SendDials, SendLater, Discard, TypeOK
<1> QED BY <1>1, <1>2 DEF Sending, RetryPass, Enqueue, SendDials, SendLater, Discard,
             TypeOK, socks, entry, dials

\* Connections and their handlers keep the types.
LEMMA ConnectionType ==
  ASSUME TypeOK, NEW c \in Conns, Handling(c) \/ Network(c)
  PROVE  TypeOK'
<1>0. Handler = {"none", "starting", "anonymous", "reading", "replacing", "closing", "ended"}
      /\ hd \in [Conns -> Handler] /\ conn \in [Conns -> {"unused", "open", "closing"}]
  BY DEF Handler, TypeOK
<1>1. CASE Start(c) \/ ReadEnd(c) \/ Incoming(c) \/ BeginReplace(c) \/ Break(c)
  <2>1. hd' \in [Conns -> Handler] /\ conn' \in [Conns -> {"unused", "open", "closing"}]
    BY <1>0, <1>1 DEF Start, ReadEnd, Incoming, BeginReplace, Break
  <2> QED BY <1>1, <2>1 DEF Start, ReadEnd, Incoming, BeginReplace, Break,
               TypeOK, socks, entry, dials, sends
<1>2. CASE Identify(c)
  <2>1. hd' \in [Conns -> Handler]
    BY <1>0, <1>2 DEF Identify
  <2>2. Register(c) /\ loop' = Ensured /\ UNCHANGED <<conn, task, dials, at, taken>>
    BY <1>2 DEF Identify
  <2> QED BY <2>1, <2>2, RegisterType, EnsuredType DEF TypeOK, dials
<1>3. CASE Replace(c)
  <2>1. \A b \in Conns : Cancelled(b) \in Handler
    BY CancelledType
  <2>2. hd' \in [Conns -> Handler]
    BY <1>0, <1>3, <2>1 DEF Replace
  <2>3. Register(c) /\ loop' = Ensured /\ task' = None /\ UNCHANGED <<conn, dials, at, taken>>
    BY <1>3 DEF Replace
  <2> QED BY <2>2, <2>3, RegisterType, EnsuredType DEF TypeOK, dials
<1>4. CASE Cleanup(c)
  <2>1. hd' \in [Conns -> Handler] /\ conn' \in [Conns -> {"unused", "open", "closing"}]
    BY <1>0, <1>4 DEF Cleanup
  <2>2. Moved(In("queue") \cup In("hand"), "lost") \in [Msgs -> Place]
    BY MovedType DEF Place
  <2>3. UNCHANGED <<wgen, dialing, sender, resending>>
    BY <1>4 DEF Cleanup, dials
  <2>4. CASE Mine(c)
    <3>1. /\ peer' = None /\ gen' = 0 /\ task' = None /\ loop' = "none" /\ taken' = None
          /\ at' = Moved(In("queue") \cup In("hand"), "lost")
      BY <1>4, <2>4 DEF Cleanup
    <3>2. at' \in [Msgs -> Place]
      BY <2>2, <3>1
    <3> QED BY <2>1, <2>3, <3>1, <3>2 DEF TypeOK
  <2>5. CASE ~Mine(c)
    BY <1>4, <2>1, <2>3, <2>5 DEF Cleanup, TypeOK, entry, sends
  <2> QED BY <2>4, <2>5
<1> QED BY <1>1, <1>2, <1>3, <1>4 DEF Handling, Network

\* The send loop, the batch, the age limit and the probes keep the types.
LEMMA LoopType ==
  ASSUME TypeOK,
         \/ Looping \/ FlushBatch \/ AgeLimit
         \/ \E c \in Conns : ProbeFails(c)
  PROVE  TypeOK'
<1>0. {"queue", "retry", "batch", "written", "lost", "hand"} \subseteq Place
  BY DEF Place
<1>1. Flushed \in [Msgs -> Place]
  BY <1>0, MovedType DEF Flushed
<1>2. ASSUME NEW m \in Msgs, TakeBack(m) \/ TakeBulk(m) \/ TakeUrgent(m)
      PROVE  TypeOK'
  <2>1. at' \in [Msgs -> Place]
    BY <1>0, <1>1, <1>2, MovedType, ForRetryType DEF TakeBack, TakeBulk, TakeUrgent
  <2> QED BY <1>2, <2>1 DEF TakeBack, TakeBulk, TakeUrgent, TypeOK, socks, entry, dials
<1>3. CASE Write \/ WriteFails
  <2>1. at' \in [Msgs -> Place]
    BY <1>0, <1>3, MovedType, ForRetryType DEF Write, WriteFails
  <2> QED BY <1>3, <2>1 DEF Write, WriteFails, TypeOK, socks, entry, dials
<1>4. CASE FlushBatch
  BY <1>1, <1>4 DEF FlushBatch, TypeOK, socks, entry, dials
<1>5. CASE AgeLimit
  BY <1>5 DEF AgeLimit, TypeOK, dials, sends
<1>6. ASSUME NEW c \in Conns, ProbeFails(c)
      PROVE  TypeOK'
  BY <1>6 DEF ProbeFails, TypeOK, socks, dials, sends
<1> QED BY <1>2, <1>3, <1>4, <1>5, <1>6 DEF Looping

\* Every variable keeps its type in every behaviour.
THEOREM LinkTypes == Spec => []TypeOK
<1>1. Init => TypeOK
  <2> SUFFICES ASSUME Init PROVE TypeOK
    OBVIOUS
  <2>1. at \in [Msgs -> Place] /\ hd \in [Conns -> Handler]
    BY DEF Init, Place, Handler
  <2> QED BY <2>1 DEF Init, TypeOK
<1>2. TypeOK /\ [Next]_vars => TypeOK'
  <2> SUFFICES ASSUME TypeOK, [Next]_vars PROVE TypeOK'
    OBVIOUS
  <2>1. CASE UNCHANGED vars
    BY <2>1 DEF vars, TypeOK
  <2>2. CASE RetryPass
    <3>1. In("retry") # {}
      BY <2>2 DEF RetryPass
    <3>2. PICK m \in Msgs : TRUE
      BY <3>1 DEF In
    <3> QED BY <2>2, <3>2, SendingType
  <2> QED BY <2>1, <2>2, DiallingType, SendingType, ConnectionType, LoopType DEF Next
<1> QED BY <1>1, <1>2, PTL DEF Spec

-----------------------------------------------------------------------------
\* The entry of the peer.

\* A connection that was never made has no handler.
Made == \A c \in Conns : conn[c] = "unused" => hd[c] = "none"

\* Every step keeps that.
LEMMA MadeStep ==
  ASSUME TypeOK, Made, [Next]_vars
  PROVE  Made'
<1>0. hd \in [Conns -> Handler] /\ conn \in [Conns -> {"unused", "open", "closing"}]
  BY DEF TypeOK
<1>1. ASSUME NEW c \in Conns, Connect(c)
      PROVE  Made'
  BY <1>0, <1>1 DEF Connect, Made, Cancelled
<1>2. ASSUME NEW c \in Conns, Handling(c)
      PROVE  Made'
  BY <1>0, <1>2 DEF Handling, Start, Replace, ReadEnd, Cleanup, Made, Cancelled
<1>3. ASSUME NEW c \in Conns, Network(c)
      PROVE  Made'
  BY <1>0, <1>3 DEF Network, Incoming, Identify, BeginReplace, Break, Made
<1>4. ASSUME NEW d \in Dialers, Dial(d) \/ DialFailed(d)
      PROVE  Made'
  BY <1>4 DEF Dial, DialFailed, Made, socks
<1>5. ASSUME NEW m \in Msgs, Sending(m) \/ RetryPass
      PROVE  Made'
  BY <1>5 DEF Sending, RetryPass, Enqueue, SendDials, SendLater, Discard, Made, socks
<1>6. CASE SendFailed \/ Looping \/ FlushBatch
  BY <1>6 DEF SendFailed, Looping, TakeBack, TakeBulk, TakeUrgent, Write, WriteFails,
       FlushBatch, Made, socks
<1>7. CASE AgeLimit
  BY <1>0, <1>7 DEF AgeLimit, Made
<1>8. ASSUME NEW c \in Conns, ProbeFails(c)
      PROVE  Made'
  BY <1>8 DEF ProbeFails, Made, socks
<1>9. CASE RetryPass
  BY <1>9 DEF RetryPass, Made, socks
<1>10. CASE UNCHANGED vars
  BY <1>10 DEF vars, Made
<1> QED BY <1>1, <1>2, <1>3, <1>4, <1>5, <1>6, <1>7, <1>8, <1>9, <1>10
      DEF Next, Dialling, DialDone, SendDone

\* Every step keeps the entry watched: whoever registers a connection leaves it a
\* handler and stamps it, and the handler that ends takes the entry along.
LEMMA WatchedStep ==
  ASSUME LinkAssumption, TypeOK, Made, EntryWatched, [Next]_vars
  PROVE  EntryWatched'
<1>0. /\ hd \in [Conns -> Handler] /\ conn \in [Conns -> {"unused", "open", "closing"}]
      /\ wgen \in [Conns -> Nat] /\ gen \in Nat /\ None \notin Conns
      /\ peer \in Conns \cup {None}
  BY DEF TypeOK, LinkAssumption
<1>1. ASSUME NEW c \in Conns, Connect(c)
      PROVE  EntryWatched'
  <2>1. hd'[c] = "starting" /\ loop' # "none"
    BY <1>1, EnsuredType DEF Connect
  <2> QED BY <1>0, <1>1, <2>1 DEF Connect, Register, EntryWatched
<1>2. ASSUME NEW c \in Conns, Start(c) \/ ReadEnd(c) \/ Incoming(c) \/ BeginReplace(c) \/ Break(c)
      PROVE  EntryWatched'
  <2>1. UNCHANGED <<wgen, peer, gen, loop>>
    BY <1>2 DEF Start, ReadEnd, Incoming, BeginReplace, Break, entry, sends
  <2>2. peer # None => hd'[peer] \in {"starting", "reading", "closing"}
    <3> SUFFICES ASSUME peer # None PROVE hd'[peer] \in {"starting", "reading", "closing"}
      OBVIOUS
    <3>1. hd[peer] \in {"starting", "reading", "closing"}
      BY DEF EntryWatched
    <3>2. Incoming(c) => c # peer
      BY <1>0, <3>1 DEF Incoming, IsNext, Made
    <3> QED BY <1>0, <1>2, <3>1, <3>2 DEF Start, ReadEnd, Incoming, BeginReplace, Break
  <2> QED BY <2>1, <2>2 DEF EntryWatched
<1>3. ASSUME NEW c \in Conns, Identify(c) \/ Replace(c)
      PROVE  EntryWatched'
  <2>1. Register(c) /\ loop' # "none"
    BY <1>3, EnsuredType DEF Identify, Replace
  <2>2. hd'[c] \in {"reading", "closing"}
    BY <1>0, <1>3 DEF Identify, Replace
  <2> QED BY <1>0, <2>1, <2>2 DEF Register, EntryWatched
<1>4. ASSUME NEW c \in Conns, Cleanup(c)
      PROVE  EntryWatched'
  <2>1. CASE Mine(c)
    BY <1>4, <2>1 DEF Cleanup, EntryWatched
  <2>2. CASE ~Mine(c)
    <3>1. UNCHANGED <<wgen, peer, gen, loop>>
      BY <1>4, <2>2 DEF Cleanup, entry, sends
    <3>2. peer # None => peer # c
      BY <2>2 DEF Mine, EntryWatched
    <3> QED BY <1>0, <1>4, <3>1, <3>2 DEF Cleanup, EntryWatched
  <2> QED BY <2>1, <2>2
<1>5. ASSUME NEW d \in Dialers, Dial(d) \/ DialFailed(d)
      PROVE  EntryWatched'
  BY <1>5 DEF Dial, DialFailed, EntryWatched, socks, entry, sends
<1>6. CASE SendFailed
  BY <1>6, EnsuredType DEF SendFailed, EntryWatched, socks, entry
<1>7. ASSUME NEW m \in Msgs, Sending(m)
      PROVE  EntryWatched'
  BY <1>7, EnsuredType DEF Sending, Enqueue, SendDials, SendLater, Discard,
       EntryWatched, socks, entry
<1>8. CASE RetryPass \/ FlushBatch \/ Looping
  BY <1>8 DEF RetryPass, FlushBatch, Looping, TakeBack, TakeBulk, TakeUrgent, Write,
       WriteFails, EntryWatched, socks, entry
<1>9. CASE AgeLimit \/ \E c \in Conns : ProbeFails(c)
  BY <1>9 DEF AgeLimit, ProbeFails, EntryWatched
<1>10. CASE UNCHANGED vars
  BY <1>10 DEF vars, EntryWatched
<1> QED BY <1>1, <1>2, <1>3, <1>4, <1>5, <1>6, <1>7, <1>8, <1>9, <1>10
      DEF Next, Dialling, DialDone, SendDone, Handling, Network

\* EntryWatched of the model: the entry of a peer can always be removed by the
\* handler of its own connection, with any number of connections that replace,
\* cancel and outlive one another (_handle_connection, _connect_to_peer).
THEOREM EntryIsWatched == Spec => []EntryWatched
<1>1. Init => Made /\ EntryWatched
  BY DEF Init, Made, EntryWatched
<1>2. TypeOK /\ Made /\ EntryWatched /\ [Next]_vars => Made' /\ EntryWatched'
  BY LinkAssumption, MadeStep, WatchedStep
<1> QED BY <1>1, <1>2, LinkTypes, PTL DEF Spec

-----------------------------------------------------------------------------
\* What is lost.

\* A message that is moved as one of ms was in ms.
LEMMA MovedOnly ==
  ASSUME NEW ms, NEW place, NEW m \in Msgs, at[m] # place, Moved(ms, place)[m] = place
  PROVE  m \in ms
BY DEF Moved

\* Every step loses only what a failed connection took along.
LEMMA LossStep ==
  ASSUME LinkAssumption, TypeOK, Made, EntryWatched, Next,
         NEW m \in Msgs, at[m] \in Held, at'[m] = "lost"
  PROVE  \/ peer = None \/ conn[peer] = "closing" \/ hd[peer] = "closing"
         \/ at[m] = "hand" /\ taken # peer
<1> SUFFICES ASSUME peer # None, conn[peer] # "closing", hd[peer] # "closing"
             PROVE  at[m] = "hand" /\ taken # peer
  OBVIOUS
<1>0. /\ at[m] \in {"queue", "hand", "batch"} /\ peer \in Conns
      /\ conn[peer] \in {"unused", "open", "closing"} /\ at \in [Msgs -> Place]
  BY DEF Held, TypeOK
<1>1. conn[peer] = "open"
  <2>1. hd[peer] # "none"
    BY DEF EntryWatched
  <2> QED BY <1>0, <2>1 DEF Made
<1>2. Flushed[m] # "lost"
  BY <1>0, <1>1 DEF Flushed, Moved
<1>3. ~FlushBatch
  BY <1>2 DEF FlushBatch
<1>4. ASSUME NEW k \in Msgs, TakeUrgent(k)
      PROVE  FALSE
  <2>1. Flushed \in [Msgs -> Place]
    BY DEF Flushed, Moved, TypeOK, Place
  <2> QED BY <1>2, <1>4, <2>1 DEF TakeUrgent
<1>5. ASSUME NEW k \in Msgs, TakeBack(k) \/ TakeBulk(k) \/ Sending(k)
      PROVE  FALSE
  BY <1>0, <1>5 DEF TakeBack, TakeBulk, Sending, Enqueue, SendDials, SendLater, Discard,
       Moved
<1>6. CASE Write
  BY <1>0, <1>1, <1>6 DEF Write, Moved, In
<1>7. ~RetryPass /\ ~SendFailed
  BY <1>0 DEF RetryPass, SendFailed, Moved
<1>15. CASE WriteFails
  BY <1>0, <1>1, <1>15 DEF WriteFails, ForRetry, Moved, In
<1>8. ASSUME NEW c \in Conns, Cleanup(c)
      PROVE  FALSE
  BY <1>0, <1>8 DEF Cleanup, Mine, sends
<1>9. ASSUME NEW c \in Conns, NEW d \in Dialers, DialDone(d, c) \/ SendDone(c)
      PROVE  FALSE
  BY <1>0, <1>9 DEF DialDone, SendDone, Moved
<1>10. at' = at => FALSE
  BY <1>0
<1>11. ASSUME NEW c \in Conns, Start(c) \/ Replace(c) \/ ReadEnd(c) \/ Network(c) \/ ProbeFails(c)
       PROVE  FALSE
  BY <1>10, <1>11 DEF Start, Replace, ReadEnd, Network, Incoming, Identify, BeginReplace,
       Break, ProbeFails, sends
<1>12. ASSUME NEW d \in Dialers, Dial(d) \/ DialFailed(d)
       PROVE  FALSE
  BY <1>10, <1>12 DEF Dial, DialFailed, sends
<1>13. ~AgeLimit
  BY <1>10 DEF AgeLimit, sends
<1>14. ASSUME NEW c \in Conns, SendDone(c)
       PROVE  FALSE
  BY <1>0, <1>14 DEF SendDone, Moved
<1> QED BY <1>3, <1>4, <1>5, <1>6, <1>7, <1>8, <1>9, <1>11, <1>12, <1>13, <1>14, <1>15
      DEF Next, Dialling, Handling, Looping

\* LossNeedsFailure of the model: a message send() accepted is lost only with the
\* connection it was meant for; the cleanup of a stale connection does not touch
\* the queue of its successor.
THEOREM LossesNeedFailure == Spec => LossNeedsFailure
<1>1. Init => Made
  BY DEF Init, Made
<1>2. TypeOK /\ Made /\ [Next]_vars => Made'
  BY MadeStep
<1>3. TypeOK /\ Made /\ EntryWatched /\ [Next]_vars =>
      [\A m \in Msgs :
         at[m] \in Held /\ at'[m] = "lost" =>
           \/ peer = None \/ conn[peer] = "closing" \/ hd[peer] = "closing"
           \/ at[m] = "hand" /\ taken # peer]_vars
  BY LinkAssumption, LossStep
<1> QED BY <1>1, <1>2, <1>3, LinkTypes, EntryIsWatched, PTL DEF Spec, LossNeedsFailure
=============================================================================
