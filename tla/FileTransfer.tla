---------------------------- MODULE FileTransfer ----------------------------
(***************************************************************************)
(* core/file_transfer.py and the part of node.py that drives it: a file is *)
(* offered, accepted, sent in chunks and confirmed, by messages of the     *)
(* mesh.  A handler runs without an await; _send_file_chunks is a          *)
(* coroutine.  A message is handled at most once by a node (MessagePath),  *)
(* in any order or never, and by any node: those that are sent with        *)
(* MeshNode.send, or fall back on PG, wake every node by NOTIFY, and a     *)
(* node that forwards a message of this type dispatches it as well.        *)
(***************************************************************************)
EXTENDS Naturals, FiniteSets

CONSTANTS
  Nodes,
  Files,     \* the transfers, by file_id
  sender, to,
  name,      \* the file name, under which the receiver stores it
  chunks,    \* chunk_count
  packed,    \* the chunks <<f, i>> that MeshNode.send compresses
  MaxCrashes \* a bound

ASSUME FileAssumption ==
  /\ sender \in [Files -> Nodes] /\ to \in [Files -> Nodes]
  /\ chunks \in [Files -> Nat]
  /\ MaxCrashes \in Nat

Names == {name[f] : f \in Files}

\* ok: a chunk is as it was when the file was offered; a COMPLETE carries the hash.
Messages == [type : {"offer", "accept", "reject", "chunk", "complete", "ack"},
             file : Files, src : Nodes, dst : Nodes, part : Nat, ok : BOOLEAN]

VARIABLES
  sent,     \* the messages sent
  taken,    \* those each node has handled
  outgoing, \* _outgoing, of the sender of each file
  sending,  \* the coroutine of file and receiver: the number of its next chunk; 0: none
  open,     \* the keys of _incoming
  incoming, \* its chunks, as <<number, ok>>
  disk,     \* what is in incoming_files under a name: nothing, or <<file, chunks>>
  report,   \* history: what the node has confirmed
  edited,   \* files changed on the sender's disk since they were offered
  aborted,  \* history: the nodes and files whose _handle_complete raised
  crashes

vars == <<sent, taken, outgoing, sending, open, incoming, disk, report, edited, aborted, crashes>>
table == <<open, incoming>>
world == <<edited, aborted, crashes>>

TypeOK ==
  /\ sent \in SUBSET Messages
  /\ taken \in [Nodes -> SUBSET Messages]
  /\ outgoing \in SUBSET Files
  /\ sending \in [Files -> [Nodes -> Nat]]
  /\ open \in [Nodes -> SUBSET Files]
  /\ incoming \in [Nodes -> [Files -> SUBSET (Nat \X BOOLEAN)]]
  /\ disk \in [Nodes -> [Names -> SUBSET (Files \X SUBSET (Nat \X BOOLEAN))]]
  /\ report \in [Nodes -> [Files -> {"none", "whole", "broken"}]]
  /\ edited \in SUBSET Files /\ aborted \in SUBSET (Nodes \X Files)
  /\ crashes \in Nat

Init ==
  /\ sent = {} /\ taken = [n \in Nodes |-> {}]
  /\ outgoing = {} /\ sending = [f \in Files |-> [n \in Nodes |-> 0]]
  /\ open = [n \in Nodes |-> {}]
  /\ incoming = [n \in Nodes |-> [f \in Files |-> {}]]
  /\ disk = [n \in Nodes |-> [p \in Names |-> {}]]
  /\ report = [n \in Nodes |-> [f \in Files |-> "none"]]
  /\ edited = {} /\ aborted = {} /\ crashes = 0

-----------------------------------------------------------------------------
\* The chunks whose hash is the one of the offer.
Whole(f) == (1 .. chunks[f]) \X {TRUE}

\* handle_incoming knows a message by its transfer_type, which compress_payload
\* hides and nothing restores.
Readable(m) == m.type = "chunk" => <<m.file, m.part>> \notin packed

Message(type, f, src, dst) ==
  [type |-> type, file |-> f, src |-> src, dst |-> dst, part |-> 0, ok |-> TRUE]

\* Node n handles m, which is not its own.
Handled(n, m) ==
  /\ m \in sent \ taken[n] /\ m.src # n
  /\ taken' = [taken EXCEPT ![n] = @ \cup {m}]

\* Mutant: an answer of a type nobody knows.
ReplyUnknown(n, m, type) ==
  sent' = sent \cup {Message(IF type = "ack" THEN "done" ELSE type, m.file, n, m.src)}

\* Mutant: a rejection is not sent.
ReplyIfGood(n, m, type) ==
  sent' = IF type = "reject" THEN sent ELSE sent \cup {Message(type, m.file, n, m.src)}

Reply(n, m, type) == sent' = sent \cup {Message(type, m.file, n, m.src)}

-----------------------------------------------------------------------------
(***************************************************************************)
(* The sender.                                                             *)
(***************************************************************************)

\* send_file, or an upload in the dashboard.
SendFile(f) ==
  /\ ~\E m \in sent : m.type = "offer" /\ m.file = f
  /\ outgoing' = outgoing \cup {f}
  /\ sent' = sent \cup {Message("offer", f, sender[f], to[f])}
  /\ UNCHANGED <<taken, sending, table, disk, report, world>>

\* Whoever accepts is sent the file.  To a node without the transfer an answer of
\* any kind says nothing, and nobody looks at a FILE_REJECT.
HandleAccept(n, m) ==
  /\ m.type = "accept" /\ m.file \in outgoing /\ n = sender[m.file] /\ Handled(n, m)
  /\ sending' = [sending EXCEPT ![m.file][m.src] = 1]
  /\ UNCHANGED <<sent, outgoing, table, disk, report, world>>

\* The chunk is read from the file.  One that cannot be read or sent is skipped, as
\* all are once the transfer is no longer in _outgoing.
SendChunk(f, n) ==
  /\ sending[f][n] \in 1 .. chunks[f]
  /\ \/ /\ f \in outgoing
        /\ sent' = sent \cup {[Message("chunk", f, sender[f], n) EXCEPT
                                 !.part = sending[f][n], !.ok = f \notin edited]}
     \/ sent' = sent
  /\ sending' = [sending EXCEPT ![f][n] = @ + 1]
  /\ UNCHANGED <<taken, outgoing, table, disk, report, world>>

\* Sent twice, with one id.  Without the transfer there is no hash.
SendComplete(f, n) ==
  /\ sending[f][n] = chunks[f] + 1
  /\ sent' = sent \cup {[Message("complete", f, sender[f], n) EXCEPT !.ok = f \in outgoing]}
  /\ sending' = [sending EXCEPT ![f][n] = 0]
  /\ UNCHANGED <<taken, outgoing, table, disk, report, world>>

\* Mutant: a rejection ends the transfer too.
HandleAnswer(n, m) ==
  /\ m.type \in {"ack", "reject"} /\ m.file \in outgoing /\ n = sender[m.file] /\ Handled(n, m)
  /\ outgoing' = outgoing \ {m.file}
  /\ UNCHANGED <<sent, sending, table, disk, report, world>>

\* Whoever confirms, the transfer is over.
HandleAck(n, m) ==
  /\ m.type = "ack" /\ m.file \in outgoing /\ n = sender[m.file] /\ Handled(n, m)
  /\ outgoing' = outgoing \ {m.file}
  /\ UNCHANGED <<sent, sending, table, disk, report, world>>

-----------------------------------------------------------------------------
(***************************************************************************)
(* The receiver.                                                           *)
(***************************************************************************)

\* Accepted, or rejected for want of space.
HandleOffer(n, m) ==
  /\ m.type = "offer" /\ Handled(n, m)
  /\ \/ /\ open' = [open EXCEPT ![n] = @ \cup {m.file}]
        /\ incoming' = [incoming EXCEPT ![n][m.file] = {}]
        /\ Reply(n, m, "accept")
     \/ UNCHANGED table /\ Reply(n, m, "reject")
  /\ UNCHANGED <<outgoing, sending, disk, report, world>>

HandleChunk(n, m) ==
  /\ m.type = "chunk" /\ Handled(n, m)
  /\ incoming' = IF Readable(m) /\ m.file \in open[n]
                 THEN [incoming EXCEPT ![n][m.file] =
                         {x \in @ : x[1] # m.part} \cup {<<m.part, m.ok>>}]
                 ELSE incoming
  /\ UNCHANGED <<sent, outgoing, sending, open, disk, report, world>>

\* Mutant: the hash is not compared.
VerifiedNever(m, got) == TRUE

\* Whether the bytes written pass the comparison of hashes.
Verified(m, got) == m.ok => got = Whole(m.file)

Written(n, m, content) == disk' = [disk EXCEPT ![n][name[m.file]] = content]

\* Mutant: the transfer stays in _incoming.
ClosedNot(n, f) == UNCHANGED table

Closed(n, f) ==
  /\ open' = [open EXCEPT ![n] = @ \ {f}]
  /\ incoming' = [incoming EXCEPT ![n][f] = {}]

\* The chunks received are written, and the file removed again when its hash is not
\* the one expected.  A write that fails leaves what it has written.
HandleComplete(n, m) ==
  LET f == m.file
      got == incoming[n][f]
  IN  /\ m.type = "complete" /\ Handled(n, m)
      /\ \/ /\ f \notin open[n]
            /\ UNCHANGED <<sent, table, disk, report>>
         \/ /\ f \in open[n] /\ Verified(m, got)
            /\ Written(n, m, {<<f, got>>}) /\ Reply(n, m, "ack")
            /\ Closed(n, f)
            /\ report' = [report EXCEPT ![n][f] = IF got = Whole(f) THEN "whole" ELSE "broken"]
         \/ /\ f \in open[n] /\ ~Verified(m, got)
            /\ Written(n, m, {}) /\ Reply(n, m, "reject")
            /\ UNCHANGED <<table, report>>
         \/ /\ f \in open[n]
            /\ UNCHANGED disk \/ \E part \in SUBSET got : Written(n, m, {<<f, part>>})
            /\ Reply(n, m, "reject")
            /\ UNCHANGED <<table, report>>
      /\ UNCHANGED <<outgoing, sending, world>>

\* Or the file written cannot be removed, or mark_file_complete raises: there is no
\* answer, and the transfer stays open.
AbortComplete(n, m) ==
  /\ m.type = "complete" /\ m.file \in open[n] /\ Handled(n, m)
  /\ Written(n, m, {<<m.file, incoming[n][m.file]>>})
  /\ aborted' = aborted \cup {<<n, m.file>>}
  /\ UNCHANGED <<sent, outgoing, sending, table, report, edited, crashes>>

-----------------------------------------------------------------------------
\* Somebody changes a file that is being sent.
Edit(f) ==
  /\ f \in outgoing \ edited /\ edited' = edited \cup {f}
  /\ UNCHANGED <<sent, taken, outgoing, sending, table, disk, report, aborted, crashes>>

\* A node stops and starts again: transfers are in memory only.
Crash(n) ==
  /\ crashes < MaxCrashes /\ crashes' = crashes + 1
  /\ outgoing' = {f \in outgoing : sender[f] # n}
  /\ sending' = [f \in Files |-> IF sender[f] = n THEN [k \in Nodes |-> 0] ELSE sending[f]]
  /\ open' = [open EXCEPT ![n] = {}]
  /\ incoming' = [incoming EXCEPT ![n] = [f \in Files |-> {}]]
  /\ UNCHANGED <<sent, taken, disk, report, edited, aborted>>

Sends(f) == \E n \in Nodes : SendChunk(f, n) \/ SendComplete(f, n)

Handles(n, m) ==
  \/ HandleOffer(n, m) \/ HandleAccept(n, m) \/ HandleAck(n, m)
  \/ HandleChunk(n, m) \/ HandleComplete(n, m) \/ AbortComplete(n, m)

Next ==
  \/ \E f \in Files : SendFile(f) \/ Edit(f) \/ Sends(f)
  \/ \E n \in Nodes : Crash(n) \/ \E m \in sent : Handles(n, m)

Spec == Init /\ [][Next]_vars

\* A coroutine goes on, and what is addressed to a node reaches it in the end.
Receives(n) == \E m \in sent : m.dst = n /\ Handles(n, m)
Fairness ==
  /\ \A f \in Files : WF_vars(Sends(f))
  /\ \A n \in Nodes : WF_vars(Receives(n))

FairSpec == Spec /\ Fairness

-----------------------------------------------------------------------------
(***************************************************************************)
(* Properties.                                                             *)
(***************************************************************************)

\* What a node confirms is the file that was offered, whatever was lost, overtaken,
\* cut off or changed on the way -- unless the sender, having been confirmed the
\* whole file by another node, finished the transfer without a hash.
ReceivedIsWhole ==
  \A n \in Nodes, f \in Files :
    report[n][f] = "broken" => \E m \in Nodes : report[m][f] = "whole"

\* A file that was confirmed stays on the receiver's disk as it was offered, until
\* another transfer of the same name ends there, well or not.
ConfirmedIsKept ==
  \A n \in Nodes, f \in Files :
    report[n][f] = "whole" =>
      \/ disk[n][name[f]] = {<<f, Whole(f)>>}
      \/ \E m \in taken[n] : m.type = "complete" /\ m.file # f /\ name[m.file] = name[f]

\* Where the transfer of f stands at its sender.
Stage(f) ==
  IF f \in outgoing THEN "offered"
  ELSE IF \E m \in sent : m.type = "offer" /\ m.file = f THEN "over" ELSE "new"

Promised == INSTANCE Handover WITH
  stage <- [f \in Files |-> Stage(f)], outcome <- report

\* The module implements Handover: no answer that is late, doubled or overheard
\* makes the sender forget a file nobody has confirmed, or a node confirm a file
\* twice.
HandedOver == Promised!Spec

\* Over a network that loses nothing, and as long as nobody stops, an offer is
\* answered in the end: the receiver confirms or rejects the file, some other
\* node has confirmed it, or the receiver's handler raised.
Answered(f) ==
  \E m \in sent : /\ m.file = f
                  /\ m.type = "ack" \/ (m.type = "reject" /\ m.src = to[f])

OfferAnswered ==
  \A f \in Files :
    f \in outgoing ~> (Answered(f) \/ crashes > 0 \/ <<to[f], f>> \in aborted)

\* "Reassembling chunks on the receiving side": a node that has handled every chunk
\* sent to it for a file nobody changed has the file.
ChunksReassembled ==
  \A n \in Nodes, f \in Files :
    /\ f \in open[n] \ edited
    /\ \A i \in 1 .. chunks[f] :
         \E m \in taken[n] : m.type = "chunk" /\ m.file = f /\ m.part = i /\ m.dst = n
    => incoming[n][f] = Whole(f)
=============================================================================
