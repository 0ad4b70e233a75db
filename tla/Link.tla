-------------------------------- MODULE Link --------------------------------
(***************************************************************************)
(* transports/p2p_transport.py, as one node sees one of its peers: the TCP *)
(* connections dialled by the reconnect loop, the discovery and send(), or *)
(* accepted; their _handle_connection coroutines; the entry of the peer;   *)
(* its send queue and loop, the write batch and the retry queue.  A step   *)
(* is what a coroutine does between two awaits.  Addresses, backoff, TLS   *)
(* and frames are left out; time is an adversary.                          *)
(***************************************************************************)
EXTENDS Naturals, FiniteSets

CONSTANTS
  Conns,   \* the connections, numbered in the order they are made
  Dialers, \* the background dialers: the reconnect loop, the discovery
  Msgs,    \* the messages given to send()
  urgent,  \* those with a send priority of at most 2: never batched
  None

ASSUME LinkAssumption ==
  /\ Conns \subseteq Nat /\ IsFiniteSet(Conns)
  /\ Dialers \subseteq {"reconnect", "discovery"}
  /\ urgent \subseteq Msgs
  /\ None \notin Conns \cup Msgs

\* Where a message is; written and lost are the ends.
Place == {"new", "dialing", "queue", "hand", "batch", "retry", "pass", "written", "lost"}
Held == {"queue", "hand", "batch"}

\* The coroutine of a connection: replacing waits for the connection it replaces
\* to close, closing is in its finally clause.
Handler == {"none", "starting", "anonymous", "reading", "replacing", "closing", "ended"}

VARIABLES
  conn,      \* the sockets: unused, open, closing
  hd,        \* their handlers
  wgen,      \* writer._a2a_gen
  peer,      \* _peers[name]
  gen,       \* _peer_generation[name]
  task,      \* _connection_tasks[name]: the handler of a dialled connection
  dialing,   \* the background dialers that wait for a connection
  sender,    \* the message whose send() dials (_connecting_peers)
  resending, \* that send() belongs to a pass over the retry queue
  at,        \* the messages
  loop,      \* the send loop; none: there is no queue either
  taken      \* the connection whose writer the loop holds

vars == <<conn, hd, wgen, peer, gen, task, dialing, sender, resending, at, loop, taken>>
socks == <<conn, hd, wgen>>
entry == <<peer, gen, task>>
dials == <<dialing, sender, resending>>
sends == <<at, loop, taken>>

TypeOK ==
  /\ conn \in [Conns -> {"unused", "open", "closing"}]
  /\ hd \in [Conns -> Handler]
  /\ wgen \in [Conns -> Nat]
  /\ peer \in Conns \cup {None} /\ gen \in Nat /\ task \in Conns \cup {None}
  /\ dialing \in SUBSET Dialers
  /\ sender \in Msgs \cup {None} /\ resending \in BOOLEAN
  /\ at \in [Msgs -> Place]
  /\ loop \in {"none", "idle", "busy", "dead"}
  /\ taken \in Conns \cup {None}

-----------------------------------------------------------------------------
In(place) == {m \in Msgs : at[m] = place}
Moved(ms, place) == [m \in Msgs |-> IF m \in ms THEN place ELSE at[m]]

\* _enqueue_for_retry: a heartbeat, an ACK or what is sent periodically is dropped.
ForRetry(ms) == {Moved(ms, "retry"), Moved(ms, "lost")}

\* The connection made next.
IsNext(c) == conn[c] = "unused" /\ \A b \in Conns : conn[b] = "unused" => c <= b

\* _ensure_send_queue: a queue and its loop, unless there is a queue.
Ensured == IF loop = "none" THEN "idle" ELSE loop

\* Mutant: a cancelled handler stays where nobody expects it.
CancelledRaw(c) == IF hd[c] = "closing" THEN "cancelled" ELSE "ended"

\* What cancelling its task does to a handler: not yet started, it never runs its
\* finally clause; in that clause, it skips the rest of it.
Cancelled(c) ==
  CASE hd[c] \in {"anonymous", "reading", "replacing"} -> "closing"
    [] hd[c] \in {"starting", "closing"} -> "ended"
    [] OTHER -> hd[c]

\* Mutant: the writer is stamped before the generation is counted up.
RegisterEarly(c) == peer' = c /\ gen' = gen + 1 /\ wgen' = [wgen EXCEPT ![c] = gen]

Register(c) == peer' = c /\ gen' = gen + 1 /\ wgen' = [wgen EXCEPT ![c] = gen + 1]

\* A pass over the retry queue, in the reconnect loop, that is not over.
Passing == In("pass") # {} \/ (sender # None /\ resending)

\* Mutant: the loop has nothing to do for a peer that is connected.
ReconnectIdleAlone == "reconnect" \notin dialing /\ ~Passing /\ peer = None

ReconnectIdle == "reconnect" \notin dialing /\ ~Passing

-----------------------------------------------------------------------------
(***************************************************************************)
(* Dialling: _reconnect_loop, the discovery, _connect_to_peer.             *)
(***************************************************************************)

\* The reconnect loop leaves a peer alone that a send() is dialling.
Dial(d) ==
  /\ peer = None /\ d \notin dialing
  /\ d = "reconnect" => sender = None /\ ~Passing
  /\ dialing' = dialing \cup {d}
  /\ UNCHANGED <<socks, entry, sender, resending, sends>>

\* The connection is up: it takes the place of whatever is registered, and the
\* retry queue goes to the send queue.
Connect(c) ==
  /\ IsNext(c)
  /\ conn' = [conn EXCEPT ![c] = "open"]
  /\ hd' = [b \in Conns |-> IF b = c THEN "starting"
                            ELSE IF b = task THEN Cancelled(b) ELSE hd[b]]
  /\ task' = c
  /\ Register(c)
  /\ loop' = Ensured
  /\ UNCHANGED taken

DialDone(d, c) ==
  /\ d \in dialing
  /\ Connect(c)
  /\ at' = Moved(In("retry"), "queue")
  /\ dialing' = dialing \ {d}
  /\ UNCHANGED <<sender, resending>>

DialFailed(d) ==
  /\ d \in dialing
  /\ dialing' = dialing \ {d}
  /\ UNCHANGED <<socks, entry, sender, resending, sends>>

SendDone(c) ==
  /\ sender # None
  /\ Connect(c)
  /\ at' = Moved(In("retry") \cup {sender}, "queue")
  /\ sender' = None
  /\ UNCHANGED <<dialing, resending>>

\* It may have been connected by somebody else meanwhile.
SendFailed ==
  /\ sender # None
  /\ at' \in IF peer # None THEN {Moved({sender}, "queue")} ELSE ForRetry({sender})
  /\ loop' = IF peer # None THEN Ensured ELSE loop
  /\ sender' = None
  /\ UNCHANGED <<socks, entry, dialing, resending, taken>>

-----------------------------------------------------------------------------
(***************************************************************************)
(* send and the retry queue.                                               *)
(***************************************************************************)

\* Given to send(), by the node or, one after the other, by the pass.
Given(m) ==
  \/ at[m] = "new"
  \/ at[m] = "pass" /\ ~(sender # None /\ resending)

Enqueue(m) ==
  /\ Given(m) /\ peer # None
  /\ at' = Moved({m}, "queue")
  /\ loop' = Ensured
  /\ UNCHANGED <<socks, entry, dials, taken>>

SendDials(m) ==
  /\ Given(m) /\ peer = None /\ sender = None
  /\ sender' = m
  /\ resending' = (at[m] = "pass")
  /\ at' = Moved({m}, "dialing")
  /\ UNCHANGED <<socks, entry, dialing, loop, taken>>

\* Another send() is dialling, the peer is in its backoff or has no address.
SendLater(m) ==
  /\ Given(m) /\ peer = None
  /\ at' \in ForRetry({m})
  /\ UNCHANGED <<socks, entry, dials, loop, taken>>

\* _process_retry_queue; any connected peer, this one or another, sets it off.
RetryPass ==
  /\ ReconnectIdle /\ In("retry") # {}
  /\ at' = Moved(In("retry"), "pass")
  /\ UNCHANGED <<socks, entry, dials, loop, taken>>

\* It is more than an hour old.
Discard(m) ==
  /\ at[m] = "pass" /\ Given(m)
  /\ at' = Moved({m}, "lost")
  /\ UNCHANGED <<socks, entry, dials, loop, taken>>

-----------------------------------------------------------------------------
(***************************************************************************)
(* _handle_connection                                                      *)
(***************************************************************************)

Incoming(c) ==
  /\ IsNext(c)
  /\ conn' = [conn EXCEPT ![c] = "open"]
  /\ hd' = [hd EXCEPT ![c] = "anonymous"]
  /\ UNCHANGED <<wgen, entry, dials, sends>>

\* The task of a dialled connection looks for its writer in _peers.
Start(c) ==
  /\ hd[c] = "starting"
  /\ hd' = [hd EXCEPT ![c] = IF peer = c THEN "reading" ELSE "anonymous"]
  /\ UNCHANGED <<conn, wgen, entry, dials, sends>>

\* The first message names the peer, which has no connection ...
Identify(c) ==
  /\ hd[c] = "anonymous" /\ conn[c] = "open" /\ peer = None
  /\ hd' = [hd EXCEPT ![c] = "reading"]
  /\ Register(c)
  /\ loop' = Ensured
  /\ UNCHANGED <<conn, task, dials, at, taken>>

\* ... or has one, which is closed first.
BeginReplace(c) ==
  /\ hd[c] = "anonymous" /\ conn[c] = "open" /\ peer # None
  /\ hd' = [hd EXCEPT ![c] = "replacing"]
  /\ conn' = [conn EXCEPT ![peer] = "closing"]
  /\ UNCHANGED <<wgen, entry, dials, sends>>

\* It is closed; the tracked task is cancelled, whosever it is by now.
Replace(c) ==
  /\ hd[c] = "replacing"
  /\ hd' = [b \in Conns |-> IF b = c THEN (IF task = c THEN "closing" ELSE "reading")
                            ELSE IF b = task THEN Cancelled(b) ELSE hd[b]]
  /\ task' = None
  /\ Register(c)
  /\ loop' = Ensured
  /\ UNCHANGED <<conn, dials, at, taken>>

\* The other side closes, the network fails, or nothing was heard for too long.
Break(c) ==
  /\ conn[c] = "open"
  /\ conn' = [conn EXCEPT ![c] = "closing"]
  /\ UNCHANGED <<hd, wgen, entry, dials, sends>>

ReadEnd(c) ==
  /\ hd[c] \in {"anonymous", "reading"} /\ conn[c] = "closing"
  /\ hd' = [hd EXCEPT ![c] = "closing"]
  /\ UNCHANGED <<conn, wgen, entry, dials, sends>>

\* Mutant: every handler that ends cleans up.
MineAlways(c) == peer # None

\* The entry of the peer is this connection's.
Mine(c) == peer = c /\ wgen[c] = gen

\* The finally clause: with the entry go the send queue and its loop.
Cleanup(c) ==
  /\ hd[c] = "closing"
  /\ hd' = [hd EXCEPT ![c] = "ended"]
  /\ conn' = [conn EXCEPT ![c] = "closing"]
  /\ IF Mine(c)
     THEN /\ peer' = None /\ gen' = 0 /\ task' = None
          /\ loop' = "none" /\ taken' = None
          /\ at' = Moved(In("queue") \cup In("hand"), "lost")
     ELSE UNCHANGED <<entry, sends>>
  /\ UNCHANGED <<wgen, dials>>

-----------------------------------------------------------------------------
(***************************************************************************)
(* _send_loop and _flush_write_batch                                       *)
(***************************************************************************)

\* The batch is written to the connection of the moment, or dropped.
Flushed == Moved(In("batch"), IF peer # None /\ conn[peer] = "open" THEN "written" ELSE "lost")

\* The idle loop, a full batch, or _delayed_flush.
FlushBatch ==
  /\ In("batch") # {}
  /\ at' = Flushed
  /\ UNCHANGED <<socks, entry, dials, loop, taken>>

\* The message the loop takes from its priority queue.
First(m) ==
  /\ loop = "idle" /\ at[m] = "queue"
  /\ m \notin urgent => urgent \cap In("queue") = {}

TakeBack(m) ==
  /\ First(m) /\ peer = None
  /\ at' \in ForRetry({m})
  /\ UNCHANGED <<socks, entry, dials, loop, taken>>

TakeBulk(m) ==
  /\ First(m) /\ peer # None /\ m \notin urgent
  /\ at' = Moved({m}, "batch")
  /\ UNCHANGED <<socks, entry, dials, loop, taken>>

\* An urgent one flushes the batch first; the loop holds the writer from here on.
TakeUrgent(m) ==
  /\ First(m) /\ peer # None /\ m \in urgent
  /\ at' = [Flushed EXCEPT ![m] = "hand"]
  /\ loop' = "busy" /\ taken' = peer
  /\ UNCHANGED <<socks, entry, dials>>

\* A closing writer may swallow it silently.
Write ==
  /\ loop = "busy"
  /\ at' = Moved(In("hand"), IF conn[taken] = "open" THEN "written" ELSE "lost")
  /\ loop' = "idle" /\ taken' = None
  /\ UNCHANGED <<socks, entry, dials>>

\* Or raise: the peer's entry goes, whichever connection it is, and the loop ends.
WriteFails ==
  /\ loop = "busy" /\ conn[taken] = "closing"
  /\ at' \in ForRetry(In("hand"))
  /\ loop' = "dead" /\ taken' = None
  /\ peer' = None
  /\ UNCHANGED <<socks, gen, task, dials>>

-----------------------------------------------------------------------------
(***************************************************************************)
(* The age limit of the reconnect loop, and _health_check_loop.            *)
(***************************************************************************)

AgeLimit ==
  /\ ReconnectIdle /\ peer # None
  /\ conn' = [conn EXCEPT ![peer] = "closing"]
  /\ peer' = None
  /\ UNCHANGED <<hd, wgen, gen, task, dials, sends>>

\* A probe waits for its connection to drain; when that breaks under it, it fails
\* and removes the entry, whichever connection it is by now.
ProbeFails(c) ==
  /\ wgen[c] > 0 /\ conn[c] = "closing" /\ peer # None
  /\ peer' = None
  /\ UNCHANGED <<socks, gen, task, dials, sends>>

-----------------------------------------------------------------------------
Init ==
  /\ conn = [c \in Conns |-> "unused"]
  /\ hd = [c \in Conns |-> "none"]
  /\ wgen = [c \in Conns |-> 0]
  /\ peer = None /\ gen = 0 /\ task = None
  /\ dialing = {} /\ sender = None /\ resending = FALSE
  /\ at = [m \in Msgs |-> "new"]
  /\ loop = "none" /\ taken = None

Dialling ==
  \/ \E d \in Dialers : Dial(d) \/ DialFailed(d) \/ \E c \in Conns : DialDone(d, c)
  \/ SendFailed \/ \E c \in Conns : SendDone(c)
Sending(m) == Enqueue(m) \/ SendDials(m) \/ SendLater(m) \/ Discard(m)
Handling(c) == Start(c) \/ Replace(c) \/ ReadEnd(c) \/ Cleanup(c)
Network(c) == Incoming(c) \/ Identify(c) \/ BeginReplace(c) \/ Break(c)
Looping ==
  \/ \E m \in Msgs : TakeBack(m) \/ TakeBulk(m) \/ TakeUrgent(m)
  \/ Write \/ WriteFails

Next ==
  \/ Dialling \/ RetryPass
  \/ \E m \in Msgs : Sending(m)
  \/ \E c \in Conns : Handling(c) \/ Network(c)
  \/ Looping \/ FlushBatch
  \/ AgeLimit \/ \E c \in Conns : ProbeFails(c)

Spec == Init /\ [][Next]_vars

\* The event loop runs every coroutine that is ready, a dial has a timeout, and
\* the reconnect loop comes round; the network and the age limit owe nothing.
FairSpec ==
  /\ Spec
  /\ WF_vars(Dialling) /\ WF_vars(RetryPass)
  /\ \A m \in Msgs : WF_vars(at[m] # "new" /\ Sending(m))
  /\ \A c \in Conns : WF_vars(Handling(c))
  /\ WF_vars(Looping) /\ WF_vars(FlushBatch)

-----------------------------------------------------------------------------
(***************************************************************************)
(* Properties.                                                             *)
(***************************************************************************)

\* The entry of a peer can be removed by the handler of its connection: the
\* handler lives and the generations agree, however dials, accepted connections
\* and cancelled handlers overlap.  Otherwise a dead peer would stay for good.
EntryWatched ==
  peer # None =>
    /\ hd[peer] \in {"starting", "reading", "closing"}
    /\ wgen[peer] = gen
    /\ loop # "none"

\* What send() accepted, or the loop took, is lost only with the connection: none
\* is registered, it is closing, or it is not the one the message was taken for.
\* The cleanup of a stale connection does not touch the queue of its successor.
LossNeedsFailure ==
  [][\A m \in Msgs :
       at[m] \in Held /\ at'[m] = "lost" =>
         \/ peer = None \/ conn[peer] = "closing" \/ hd[peer] = "closing"
         \/ at[m] = "hand" /\ taken # peer]_vars

\* A connection that has ended does not stay the peer's for ever.
DeadPeerRemoved == \A c \in Conns : (peer = c /\ conn[c] = "closing") ~> peer # c

\* A message in the retry queue is taken up again while the peer stays connected,
\* whether it was dialled, which flushes the queue, or accepted, which does not.
RetriedWhenConnected ==
  \A m \in Msgs : (at[m] = "retry" /\ peer # None) ~> (at[m] # "retry" \/ peer = None)

\* A connected peer has a send loop: "Exit send loop for this peer --
\* _handle_connection cleanup will handle".  It does not hold: the cleanup no
\* longer finds the peer, and the next connection finds the queue and starts none.
ConnectedIsServed == peer # None => loop # "dead"
=============================================================================
