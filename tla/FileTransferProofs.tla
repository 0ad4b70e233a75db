------------------------- MODULE FileTransferProofs -------------------------
(***************************************************************************)
(* What the receiver confirms, for any nodes, files, chunks and crashes.   *)
(***************************************************************************)
EXTENDS FileTransfer, TLAPS

LEMMA NameOf == ASSUME NEW f \in Files PROVE name[f] \in Names
  BY DEF Names

LEMMA WholeType == ASSUME NEW f \in Files PROVE Whole(f) \in SUBSET (Nat \X BOOLEAN)
<1>1. chunks[f] \in Nat
  BY FileAssumption
<1>2. 1 .. chunks[f] \subseteq Nat
  BY <1>1
<1>3. (1 .. chunks[f]) \X {TRUE} \subseteq Nat \X BOOLEAN
  BY <1>2
<1> QED BY <1>3 DEF Whole

LEMMA MessageType ==
  ASSUME NEW type \in {"offer", "accept", "reject", "chunk", "complete", "ack"},
         NEW f \in Files, NEW src \in Nodes, NEW dst \in Nodes
  PROVE  Message(type, f, src, dst) \in Messages
  BY DEF Message, Messages

LEMMA MarkedType ==
  ASSUME NEW m \in Messages, NEW p \in Nat, NEW b \in BOOLEAN
  PROVE  [m EXCEPT !.part = p, !.ok = b] \in Messages /\ [m EXCEPT !.ok = b] \in Messages
  BY DEF Messages

\* The variables keep their types.
THEOREM TypeCorrect == Spec => []TypeOK
<1>1. Init => TypeOK
  BY FileAssumption DEF Init, TypeOK
<1>2. TypeOK /\ [Next]_vars => TypeOK'
  <2> SUFFICES ASSUME TypeOK, [Next]_vars PROVE TypeOK'
    OBVIOUS
  <2> USE DEF TypeOK
  <2>1. ASSUME NEW f \in Files, SendFile(f) PROVE TypeOK'
    <3>1. Message("offer", f, sender[f], to[f]) \in Messages
      BY FileAssumption, MessageType
    <3> QED BY <2>1, <3>1 DEF SendFile, table, world
  <2>2. ASSUME NEW f \in Files, Edit(f) PROVE TypeOK'
    BY <2>2 DEF Edit, table
  <2>3. ASSUME NEW f \in Files, NEW n \in Nodes, SendChunk(f, n) PROVE TypeOK'
    <3>1. Message("chunk", f, sender[f], n) \in Messages
      BY FileAssumption, MessageType
    <3>2. [Message("chunk", f, sender[f], n) EXCEPT !.part = sending[f][n], !.ok = f \notin edited]
            \in Messages
      <4>1. sending[f][n] \in Nat /\ (f \notin edited) \in BOOLEAN
        OBVIOUS
      <4> QED BY <3>1, <4>1, MarkedType, Zenon
    <3>3. sent' \in SUBSET Messages
      BY <2>3, <3>2 DEF SendChunk
    <3>4. sending' \in [Files -> [Nodes -> Nat]]
      BY <2>3 DEF SendChunk
    <3> QED BY <2>3, <3>3, <3>4 DEF SendChunk, table, world
  <2>4. ASSUME NEW f \in Files, NEW n \in Nodes, SendComplete(f, n) PROVE TypeOK'
    <3>1. Message("complete", f, sender[f], n) \in Messages
      BY FileAssumption, MessageType
    <3>2. [Message("complete", f, sender[f], n) EXCEPT !.ok = f \in outgoing] \in Messages
      <4>1. (f \in outgoing) \in BOOLEAN
        OBVIOUS
      <4> QED BY <3>1, <4>1, MarkedType, Zenon
    <3>3. sending' \in [Files -> [Nodes -> Nat]]
      BY <2>4 DEF SendComplete
    <3> QED BY <2>4, <3>2, <3>3 DEF SendComplete, table, world
  <2>5. ASSUME NEW n \in Nodes, Crash(n) PROVE TypeOK'
    BY <2>5 DEF Crash
  <2>6. ASSUME NEW n \in Nodes, NEW m \in sent, Handles(n, m) PROVE TypeOK'
    <3>1. /\ m.file \in Files /\ m.src \in Nodes /\ m.part \in Nat /\ m.ok \in BOOLEAN
          /\ m \in Messages
      BY DEF Messages
    <3>2. \A type \in {"accept", "reject", "ack"} : Message(type, m.file, n, m.src) \in Messages
      BY <3>1, MessageType
    <3>3. CASE HandleOffer(n, m)
      <4>1. taken' \in [Nodes -> SUBSET Messages] /\ sent' \in SUBSET Messages
        BY <3>1, <3>2, <3>3 DEF HandleOffer, Handled, Reply
      <4>2. open' \in [Nodes -> SUBSET Files]
        <5>1. open' = [open EXCEPT ![n] = @ \cup {m.file}] \/ open' = open
          BY <3>3 DEF HandleOffer, table
        <5>2. CASE open' = [open EXCEPT ![n] = @ \cup {m.file}]
          BY <3>1, <5>2
        <5> QED BY <5>1, <5>2
      <4>3. incoming' \in [Nodes -> [Files -> SUBSET (Nat \X BOOLEAN)]]
        <5>1. incoming' = [incoming EXCEPT ![n][m.file] = {}] \/ incoming' = incoming
          BY <3>3 DEF HandleOffer, table
        <5>2. CASE incoming' = [incoming EXCEPT ![n][m.file] = {}]
          BY <3>1, <5>2
        <5> QED BY <5>1, <5>2
      <4> QED BY <3>3, <4>1, <4>2, <4>3 DEF HandleOffer, world
    <3>4. CASE HandleAccept(n, m)
      BY <3>1, <3>4 DEF HandleAccept, Handled, table, world
    <3>5. CASE HandleAck(n, m)
      BY <3>1, <3>5 DEF HandleAck, Handled, table, world
    <3>6. CASE HandleChunk(n, m)
      <4>1. {x \in incoming[n][m.file] : x[1] # m.part} \cup {<<m.part, m.ok>>}
              \in SUBSET (Nat \X BOOLEAN)
        BY <3>1
      <4> QED BY <3>1, <3>6, <4>1 DEF HandleChunk, Handled, world
    <3>7. CASE HandleComplete(n, m)
      <4>1. /\ taken' \in [Nodes -> SUBSET Messages]
            /\ sent' \in SUBSET Messages
            /\ UNCHANGED <<outgoing, sending, edited, aborted, crashes>>
        BY <3>1, <3>2, <3>7 DEF HandleComplete, Handled, Reply, world
      <4>2. /\ open' \in [Nodes -> SUBSET Files]
            /\ incoming' \in [Nodes -> [Files -> SUBSET (Nat \X BOOLEAN)]]
        <5>1. Closed(n, m.file) \/ UNCHANGED table
          BY <3>7 DEF HandleComplete
        <5>2. CASE UNCHANGED table
          BY <5>2 DEF table
        <5>3. CASE Closed(n, m.file)
          BY <3>1, <5>3 DEF Closed
        <5> QED BY <5>1, <5>2, <5>3
      <4>3. report' \in [Nodes -> [Files -> {"none", "whole", "broken"}]]
        <5>1. \/ report' = report
              \/ \E r \in {"whole", "broken"} : report' = [report EXCEPT ![n][m.file] = r]
          BY <3>7 DEF HandleComplete
        <5>2. report \in [Nodes -> [Files -> {"none", "whole", "broken"}]]
          OBVIOUS
        <5>3. ASSUME NEW r \in {"whole", "broken"}, report' = [report EXCEPT ![n][m.file] = r]
              PROVE  report' \in [Nodes -> [Files -> {"none", "whole", "broken"}]]
          BY <3>1, <5>2, <5>3
        <5> HIDE DEF TypeOK
        <5> QED BY <5>1, <5>2, <5>3
      <4>4. name[m.file] \in Names /\ incoming[n][m.file] \in SUBSET (Nat \X BOOLEAN)
        BY <3>1, NameOf
      <4>5. \/ disk' = disk
            \/ Written(n, m, {})
            \/ \E part \in SUBSET incoming[n][m.file] : Written(n, m, {<<m.file, part>>})
        BY <3>7 DEF HandleComplete
      <4>6. disk' \in [Nodes -> [Names -> SUBSET (Files \X SUBSET (Nat \X BOOLEAN))]]
        <5>1. {} \in SUBSET (Files \X SUBSET (Nat \X BOOLEAN))
          OBVIOUS
        <5>2. ASSUME NEW part \in SUBSET incoming[n][m.file]
              PROVE  {<<m.file, part>>} \in SUBSET (Files \X SUBSET (Nat \X BOOLEAN))
          <6>1. part \in SUBSET (Nat \X BOOLEAN)
            BY <4>4
          <6> QED BY <3>1, <6>1
        <5>3. disk' = disk \/ \E c \in SUBSET (Files \X SUBSET (Nat \X BOOLEAN)) : Written(n, m, c)
          BY <4>5, <5>1, <5>2
        <5>4. disk \in [Nodes -> [Names -> SUBSET (Files \X SUBSET (Nat \X BOOLEAN))]]
          OBVIOUS
        <5> HIDE DEF TypeOK
        <5>5. ASSUME NEW c \in SUBSET (Files \X SUBSET (Nat \X BOOLEAN)), Written(n, m, c)
              PROVE  disk' \in [Nodes -> [Names -> SUBSET (Files \X SUBSET (Nat \X BOOLEAN))]]
          BY <4>4, <5>4, <5>5 DEF Written
        <5> QED BY <5>3, <5>4, <5>5
      <4> QED BY <4>1, <4>2, <4>3, <4>6
    <3>8. CASE AbortComplete(n, m)
      <4>1. name[m.file] \in Names /\ incoming[n][m.file] \in SUBSET (Nat \X BOOLEAN)
        BY <3>1, NameOf
      <4>2. {<<m.file, incoming[n][m.file]>>} \in SUBSET (Files \X SUBSET (Nat \X BOOLEAN))
        BY <3>1, <4>1
      <4>3. disk' \in [Nodes -> [Names -> SUBSET (Files \X SUBSET (Nat \X BOOLEAN))]]
        BY <3>8, <4>1, <4>2 DEF AbortComplete, Written
      <4>4. taken' \in [Nodes -> SUBSET Messages] /\ aborted' \in SUBSET (Nodes \X Files)
        BY <3>1, <3>8 DEF AbortComplete, Handled
      <4> QED BY <3>8, <4>3, <4>4 DEF AbortComplete, table
    <3> QED BY <2>6, <3>3, <3>4, <3>5, <3>6, <3>7, <3>8 DEF Handles
  <2>7. CASE UNCHANGED vars
    BY <2>7 DEF vars
  <2> QED BY <2>1, <2>2, <2>3, <2>4, <2>5, <2>6, <2>7 DEF Next, Sends
<1> QED BY <1>1, <1>2, PTL DEF Spec

-----------------------------------------------------------------------------
(***************************************************************************)
(* A transfer ends at the sender, and the hash is left out, only after     *)
(* some node has received the whole file.                                  *)
(***************************************************************************)

Arrived(f) == \E k \in Nodes : report[k][f] = "whole"

\* Whatever betrays that the transfer has left _outgoing.
EndedInv ==
  /\ \A m \in sent : m.type = "ack" \/ (m.type = "complete" /\ ~m.ok) => Arrived(m.file)
  /\ \A f \in Files, n \in Nodes : sending[f][n] # 0 => f \in outgoing \/ Arrived(f)
  /\ ReceivedIsWhole

\* What has arrived stays known, and the steps that only send or move.
LEMMA EndedKept ==
  ASSUME EndedInv, UNCHANGED report,
         \A m \in sent' \ sent :
            m.type # "ack" /\ (m.type = "complete" => m.ok \/ Arrived(m.file)),
         \A f \in Files, n \in Nodes :
            sending'[f][n] # 0 => \/ f \in outgoing'
                                  \/ Arrived(f)
                                  \/ sending[f][n] # 0 /\ f \notin outgoing
  PROVE  EndedInv'
<1>1. \A f : Arrived(f)' <=> Arrived(f)
  BY DEF Arrived
<1> QED BY <1>1 DEF EndedInv, ReceivedIsWhole

LEMMA ReportStays ==
  ASSUME TypeOK, NEW n \in Nodes, NEW f \in Files, NEW r \in {"whole", "broken"},
         report' = [report EXCEPT ![n][f] = r], report[n][f] = "none"
  PROVE  /\ \A g \in Files : Arrived(g) => Arrived(g)'
         /\ report'[n][f] = r
         /\ \A k \in Nodes, g \in Files : report'[k][g] = report[k][g] \/ (k = n /\ g = f)
<1>1. report \in [Nodes -> [Files -> {"none", "whole", "broken"}]]
  BY DEF TypeOK
<1>2. report'[n][f] = r
  BY <1>1
<1>3. \A k \in Nodes, g \in Files : report'[k][g] = report[k][g] \/ (k = n /\ g = f)
  BY <1>1
<1> QED BY <1>2, <1>3 DEF Arrived

-----------------------------------------------------------------------------
(***************************************************************************)
(* A transfer that is over is never opened again.                          *)
(***************************************************************************)

OfferTaken(n, f) == \E m \in taken[n] : m.type = "offer" /\ m.file = f

OnceInv ==
  /\ \A m, k \in sent : m.type = "offer" /\ k.type = "offer" /\ m.file = k.file => m = k
  /\ \A n \in Nodes : taken[n] \subseteq sent
  /\ \A n \in Nodes, f \in Files :
       f \in open[n] \/ report[n][f] # "none" => OfferTaken(n, f)
  /\ \A n \in Nodes, f \in Files : report[n][f] # "none" => f \notin open[n]

KeptInv == OnceInv /\ ConfirmedIsKept

\* Where disk and report are left alone, what was confirmed stays confirmed.
LEMMA KeptUntouched ==
  ASSUME ConfirmedIsKept, UNCHANGED <<disk, report>>,
         \A n \in Nodes : taken[n] \subseteq taken'[n]
  PROVE  ConfirmedIsKept'
<1>1. ASSUME NEW n \in Nodes, NEW f \in Files, report[n][f] = "whole"
      PROVE  \/ disk[n][name[f]] = {<<f, Whole(f)>>}
             \/ \E x \in taken'[n] : x.type = "complete" /\ x.file # f /\ name[x.file] = name[f]
  <2>1. \/ disk[n][name[f]] = {<<f, Whole(f)>>}
        \/ \E x \in taken[n] : x.type = "complete" /\ x.file # f /\ name[x.file] = name[f]
    BY <1>1 DEF ConfirmedIsKept
  <2> QED BY <2>1
<1> QED BY <1>1 DEF ConfirmedIsKept, Whole

\* The steps that leave the receivers as they are.
LEMMA KeptByOthers ==
  ASSUME KeptInv, UNCHANGED <<open, disk, report>>, sent \subseteq sent',
         \A n \in Nodes : taken[n] \subseteq taken'[n] /\ taken'[n] \subseteq sent',
         \A m \in sent' \ sent :
            m.type = "offer" => \A k \in sent' : k.type = "offer" /\ k.file = m.file => k = m
  PROVE  KeptInv'
<1>1. \A n \in Nodes, f \in Files : OfferTaken(n, f) => OfferTaken(n, f)'
  BY DEF OfferTaken
<1>2. OnceInv'
  BY <1>1 DEF KeptInv, OnceInv
<1>3. ConfirmedIsKept'
  BY KeptUntouched DEF KeptInv
<1> QED BY <1>2, <1>3 DEF KeptInv

LEMMA HandledTakes ==
  ASSUME TypeOK, OnceInv, NEW n \in Nodes, NEW m, Handled(n, m), sent \subseteq sent'
  PROVE  /\ taken'[n] = taken[n] \cup {m} /\ m \in sent /\ m \notin taken[n]
         /\ \A k \in Nodes : taken[k] \subseteq taken'[k] /\ taken'[k] \subseteq sent'
<1>1. taken \in [Nodes -> SUBSET Messages] /\ taken' = [taken EXCEPT ![n] = @ \cup {m}]
  BY DEF TypeOK, Handled
<1>2. m \in sent /\ m \notin taken[n]
  BY DEF Handled
<1>3. taken'[n] = taken[n] \cup {m} /\ \A k \in Nodes \ {n} : taken'[k] = taken[k]
  BY <1>1
<1> QED BY <1>2, <1>3 DEF OnceInv

TransferInv == EndedInv /\ KeptInv

-----------------------------------------------------------------------------
(***************************************************************************)
(* The actions.                                                            *)
(***************************************************************************)

LEMMA SendingStep ==
  ASSUME NEW f \in Files PROVE
  TypeOK /\ TransferInv /\ (SendFile(f) \/ Edit(f) \/ Sends(f)) => TransferInv'
<1> SUFFICES ASSUME TypeOK, EndedInv, KeptInv, SendFile(f) \/ Edit(f) \/ Sends(f)
             PROVE  EndedInv' /\ KeptInv'
  BY DEF TransferInv
<1>0. sending \in [Files -> [Nodes -> Nat]] /\ \A n \in Nodes : taken[n] \subseteq sent
  BY DEF TypeOK, KeptInv, OnceInv
<1>1. CASE SendFile(f)
  <2> DEFINE offer == Message("offer", f, sender[f], to[f])
  <2>1. /\ sent' = sent \cup {offer} /\ outgoing' = outgoing \cup {f}
        /\ UNCHANGED <<taken, sending, open, disk, report>>
        /\ ~\E m \in sent : m.type = "offer" /\ m.file = f
    BY <1>1 DEF SendFile, table
  <2>2. offer.type = "offer" /\ offer.file = f
    BY DEF Message
  <2> HIDE DEF offer
  <2>3. EndedInv'
    BY <2>1, <2>2, EndedKept DEF EndedInv
  <2>4. KeptInv'
    BY <1>0, <2>1, <2>2, KeptByOthers
  <2> QED BY <2>3, <2>4
<1>2. CASE Edit(f)
  <2>1. UNCHANGED <<sent, taken, outgoing, sending, open, disk, report>>
    BY <1>2 DEF Edit, table
  <2>2. EndedInv'
    BY <2>1, EndedKept DEF EndedInv
  <2> QED BY <1>0, <2>1, <2>2, KeptByOthers
<1>3. ASSUME NEW n \in Nodes, SendChunk(f, n) PROVE EndedInv' /\ KeptInv'
  <2> DEFINE chunk == [Message("chunk", f, sender[f], n) EXCEPT
                         !.part = sending[f][n], !.ok = f \notin edited]
  <2>1. /\ sent' \in {sent, sent \cup {chunk}} /\ sending' = [sending EXCEPT ![f][n] = @ + 1]
        /\ UNCHANGED <<taken, outgoing, open, disk, report>> /\ sending[f][n] # 0
    BY <1>3 DEF SendChunk, table
  <2>2. chunk.type = "chunk"
    BY DEF Message
  <2> HIDE DEF chunk
  <2>3. \A g \in Files, k \in Nodes : sending'[g][k] # 0 => sending[g][k] # 0
    BY <1>0, <2>1
  <2>4. EndedInv'
    BY <2>1, <2>2, <2>3, EndedKept DEF EndedInv
  <2>5. KeptInv'
    BY <1>0, <2>1, <2>2, KeptByOthers
  <2> QED BY <2>4, <2>5
<1>4. ASSUME NEW n \in Nodes, SendComplete(f, n) PROVE EndedInv' /\ KeptInv'
  <2> DEFINE done == [Message("complete", f, sender[f], n) EXCEPT !.ok = f \in outgoing]
  <2>1. /\ sent' = sent \cup {done} /\ sending' = [sending EXCEPT ![f][n] = 0]
        /\ UNCHANGED <<taken, outgoing, open, disk, report>> /\ sending[f][n] = chunks[f] + 1
    BY <1>4 DEF SendComplete, table
  <2>2. done.type = "complete" /\ done.file = f /\ (done.ok <=> f \in outgoing)
    BY DEF Message
  <2>3. sending[f][n] # 0
    BY <2>1, FileAssumption
  <2> HIDE DEF done
  <2>4. done.ok \/ Arrived(f)
    BY <2>2, <2>3 DEF EndedInv
  <2>5. \A g \in Files, k \in Nodes : sending'[g][k] # 0 => sending[g][k] # 0
    BY <1>0, <2>1
  <2>6. EndedInv'
    BY <2>1, <2>2, <2>4, <2>5, EndedKept DEF EndedInv
  <2>7. KeptInv'
    BY <1>0, <2>1, <2>2, KeptByOthers
  <2> QED BY <2>6, <2>7
<1> QED BY <1>1, <1>2, <1>3, <1>4 DEF Sends

LEMMA CrashStep ==
  ASSUME NEW n \in Nodes PROVE TypeOK /\ TransferInv /\ Crash(n) => TransferInv'
<1> SUFFICES ASSUME TypeOK, EndedInv, KeptInv, Crash(n) PROVE EndedInv' /\ KeptInv'
  BY DEF TransferInv
<1>1. UNCHANGED <<sent, taken, disk, report>>
  BY DEF Crash
<1>2. \A f \in Files, k \in Nodes :
        sending'[f][k] # 0 => sender[f] # n /\ sending[f][k] # 0
  BY DEF Crash
<1>3. \A f \in Files : f \in outgoing /\ sender[f] # n => f \in outgoing'
  BY DEF Crash
<1>4. EndedInv'
  BY <1>1, <1>2, <1>3, EndedKept DEF EndedInv
<1>5. \A k \in Nodes : open'[k] \subseteq open[k]
  BY DEF Crash, TypeOK
<1>6. \A k \in Nodes, f \in Files : OfferTaken(k, f)' <=> OfferTaken(k, f)
  BY <1>1 DEF OfferTaken
<1>7. OnceInv'
  BY <1>1, <1>5, <1>6 DEF KeptInv, OnceInv
<1>8. ConfirmedIsKept'
  BY <1>1 DEF KeptInv, ConfirmedIsKept, Whole
<1> QED BY <1>4, <1>7, <1>8 DEF KeptInv

LEMMA AnswerStep ==
  ASSUME NEW n \in Nodes, NEW m \in sent PROVE
  TypeOK /\ TransferInv /\ (HandleAccept(n, m) \/ HandleAck(n, m)) => TransferInv'
<1> SUFFICES ASSUME TypeOK, EndedInv, KeptInv, HandleAccept(n, m) \/ HandleAck(n, m)
             PROVE  EndedInv' /\ KeptInv'
  BY DEF TransferInv
<1>0. m.file \in Files /\ m.src \in Nodes /\ sending \in [Files -> [Nodes -> Nat]]
  BY DEF TypeOK, Messages
<1>1. UNCHANGED <<sent, open, disk, report>> /\ Handled(n, m)
  BY DEF HandleAccept, HandleAck, table
<1>2. KeptInv'
  BY <1>1, HandledTakes, KeptByOthers DEF KeptInv
<1>3. CASE HandleAccept(n, m)
  <2>1. /\ sending' = [sending EXCEPT ![m.file][m.src] = 1]
        /\ m.file \in outgoing /\ outgoing' = outgoing
    BY <1>3 DEF HandleAccept
  <2>2. \A f \in Files, k \in Nodes : sending'[f][k] = sending[f][k] \/ f = m.file
    BY <1>0, <2>1
  <2>3. EndedInv'
    BY <1>1, <2>1, <2>2, EndedKept DEF EndedInv
  <2> QED BY <1>2, <2>3
<1>4. CASE HandleAck(n, m)
  <2>1. sending' = sending /\ outgoing' = outgoing \ {m.file} /\ Arrived(m.file)
    BY <1>4 DEF HandleAck, EndedInv
  <2>2. EndedInv'
    BY <1>1, <2>1, EndedKept DEF EndedInv
  <2> QED BY <1>2, <2>2
<1> QED BY <1>3, <1>4

LEMMA ReplyKeeps ==
  ASSUME NEW n, NEW m, NEW type \in {"accept", "reject", "ack"}, Reply(n, m, type)
  PROVE  /\ sent \subseteq sent'
         /\ \A k \in sent' \ sent : k.type = type /\ k.file = m.file
  BY DEF Reply, Message

LEMMA OfferStep ==
  ASSUME NEW n \in Nodes, NEW m \in sent PROVE
  TypeOK /\ TransferInv /\ HandleOffer(n, m) => TransferInv'
<1> SUFFICES ASSUME TypeOK, EndedInv, KeptInv, HandleOffer(n, m) PROVE EndedInv' /\ KeptInv'
  BY DEF TransferInv
<1>0. m.file \in Files /\ open \in [Nodes -> SUBSET Files] /\ OnceInv
  BY DEF TypeOK, Messages, KeptInv
<1>1. /\ UNCHANGED <<outgoing, sending, disk, report>> /\ Handled(n, m) /\ m.type = "offer"
      /\ \E type \in {"accept", "reject"} : Reply(n, m, type)
  BY DEF HandleOffer
<1>2. sent \subseteq sent' /\ \A k \in sent' \ sent : k.type \in {"accept", "reject"}
  BY <1>1, ReplyKeeps
<1>3. EndedInv'
  BY <1>1, <1>2, EndedKept DEF EndedInv
<1>4. /\ taken'[n] = taken[n] \cup {m} /\ m \notin taken[n]
      /\ \A k \in Nodes : taken[k] \subseteq taken'[k] /\ taken'[k] \subseteq sent'
  BY <1>0, <1>1, <1>2, HandledTakes
<1>5. open' = open \/ open' = [open EXCEPT ![n] = @ \cup {m.file}]
  BY DEF HandleOffer, table
<1>6. \A k \in Nodes, f \in Files : f \in open'[k] => f \in open[k] \/ (k = n /\ f = m.file)
  BY <1>0, <1>5
<1>7. report[n][m.file] = "none"
  BY <1>0, <1>1, <1>4 DEF OnceInv, OfferTaken
<1>8. \A k \in Nodes, f \in Files : OfferTaken(k, f) => OfferTaken(k, f)'
  BY <1>4 DEF OfferTaken
<1>9. OfferTaken(n, m.file)'
  BY <1>1, <1>4 DEF OfferTaken
<1>10. OnceInv'
  BY <1>0, <1>1, <1>2, <1>4, <1>6, <1>7, <1>8, <1>9 DEF OnceInv
<1>11. ConfirmedIsKept'
  BY <1>1, <1>4, KeptUntouched DEF KeptInv
<1> QED BY <1>3, <1>10, <1>11 DEF KeptInv

LEMMA ChunkStep ==
  ASSUME NEW n \in Nodes, NEW m \in sent PROVE
  TypeOK /\ TransferInv /\ HandleChunk(n, m) => TransferInv'
<1> SUFFICES ASSUME TypeOK, EndedInv, KeptInv, HandleChunk(n, m) PROVE EndedInv' /\ KeptInv'
  BY DEF TransferInv
<1>1. UNCHANGED <<sent, outgoing, sending, open, disk, report>> /\ Handled(n, m)
  BY DEF HandleChunk
<1>2. EndedInv'
  BY <1>1, EndedKept DEF EndedInv
<1> QED BY <1>1, <1>2, HandledTakes, KeptByOthers DEF KeptInv

\* What a COMPLETE does to the disk concerns one name of one node.
LEMMA CompleteKeeps ==
  ASSUME TypeOK, KeptInv, NEW n \in Nodes, NEW m \in sent, m.type = "complete",
         taken'[n] = taken[n] \cup {m}, \A k \in Nodes : taken[k] \subseteq taken'[k],
         disk' = disk \/ \E c : Written(n, m, c),
         NEW k \in Nodes, NEW f \in Files, report[k][f] = "whole", k # n \/ f # m.file
  PROVE  \/ disk'[k][name[f]] = {<<f, Whole(f)>>}
         \/ \E x \in taken'[k] : x.type = "complete" /\ x.file # f /\ name[x.file] = name[f]
<1>1. /\ disk \in [Nodes -> [Names -> SUBSET (Files \X SUBSET (Nat \X BOOLEAN))]]
      /\ m.file \in Files /\ name[f] \in Names
  BY NameOf DEF TypeOK, Messages
<1>2. \/ disk[k][name[f]] = {<<f, Whole(f)>>}
      \/ \E x \in taken[k] : x.type = "complete" /\ x.file # f /\ name[x.file] = name[f]
  BY DEF KeptInv, ConfirmedIsKept
<1>3. disk'[k][name[f]] = disk[k][name[f]] \/ (k = n /\ name[f] = name[m.file])
  BY <1>1 DEF Written
<1> QED BY <1>2, <1>3

LEMMA CompleteStep ==
  ASSUME NEW n \in Nodes, NEW m \in sent PROVE
  TypeOK /\ TransferInv /\ (HandleComplete(n, m) \/ AbortComplete(n, m)) => TransferInv'
<1> SUFFICES ASSUME TypeOK, EndedInv, KeptInv, HandleComplete(n, m) \/ AbortComplete(n, m)
             PROVE  EndedInv' /\ KeptInv'
  BY DEF TransferInv
<1> DEFINE f == m.file
           got == incoming[n][f]
<1>0. /\ f \in Files /\ open \in [Nodes -> SUBSET Files] /\ OnceInv
      /\ report \in [Nodes -> [Files -> {"none", "whole", "broken"}]]
      /\ disk \in [Nodes -> [Names -> SUBSET (Files \X SUBSET (Nat \X BOOLEAN))]]
      /\ name[f] \in Names
  BY NameOf DEF TypeOK, Messages, KeptInv
<1>1. UNCHANGED <<outgoing, sending>> /\ Handled(n, m) /\ m.type = "complete"
  BY DEF HandleComplete, AbortComplete
<1>2. sent \subseteq sent' /\ \A k \in sent' \ sent : k.type \in {"ack", "reject"}
  BY ReplyKeeps DEF HandleComplete, AbortComplete
<1>3. /\ taken'[n] = taken[n] \cup {m}
      /\ \A k \in Nodes : taken[k] \subseteq taken'[k] /\ taken'[k] \subseteq sent'
  BY <1>0, <1>1, <1>2, HandledTakes
<1>4. \A k \in Nodes, g \in Files : OfferTaken(k, g) => OfferTaken(k, g)'
  BY <1>3 DEF OfferTaken
<1>5. disk' = disk \/ \E c : Written(n, m, c)
  BY DEF HandleComplete, AbortComplete
<1>6. CASE UNCHANGED <<table, report>> /\ (f \in open[n] \/ UNCHANGED disk)
           /\ (sent' = sent \/ Reply(n, m, "reject"))
  <2>1. \A k \in sent' \ sent : k.type = "reject"
    BY <1>6, ReplyKeeps
  <2>2. EndedInv'
    BY <1>1, <1>6, <2>1, EndedKept DEF EndedInv
  <2>3. OnceInv'
    BY <1>0, <1>2, <1>3, <1>4, <1>6 DEF OnceInv, table
  <2>4. CASE f \in open[n]
    <3>1. report[n][f] = "none"
      BY <1>0, <2>4 DEF OnceInv
    <3>2. ASSUME NEW k \in Nodes, NEW g \in Files, report[k][g] = "whole"
          PROVE  \/ disk'[k][name[g]] = {<<g, Whole(g)>>}
                 \/ \E x \in taken'[k] : x.type = "complete" /\ x.file # g /\ name[x.file] = name[g]
      BY <1>1, <1>3, <1>5, <3>1, <3>2, CompleteKeeps
    <3>3. ConfirmedIsKept'
      BY <1>6, <3>2 DEF ConfirmedIsKept, Whole
    <3> QED BY <2>2, <2>3, <3>3 DEF KeptInv
  <2>5. CASE UNCHANGED disk
    <3>1. ConfirmedIsKept'
      BY <1>3, <1>6, <2>5, KeptUntouched DEF KeptInv
    <3> QED BY <2>2, <2>3, <3>1 DEF KeptInv
  <2> QED BY <1>6, <2>4, <2>5
<1>7. CASE /\ f \in open[n] /\ Verified(m, got) /\ Written(n, m, {<<f, got>>})
           /\ Reply(n, m, "ack") /\ Closed(n, f)
           /\ report' = [report EXCEPT ![n][f] = IF got = Whole(f) THEN "whole" ELSE "broken"]
  <2>1. report[n][f] = "none"
    BY <1>0, <1>7 DEF OnceInv
  <2>2. PICK r \in {"whole", "broken"} : /\ report' = [report EXCEPT ![n][f] = r]
                                         /\ r = "whole" <=> got = Whole(f)
    BY <1>7
  <2> HIDE DEF f, got
  <2>3. /\ \A g \in Files : Arrived(g) => Arrived(g)'
        /\ report'[n][f] = r
        /\ \A k \in Nodes, g \in Files : report'[k][g] = report[k][g] \/ (k = n /\ g = f)
    BY <1>0, <2>1, <2>2, ReportStays
  <2>4. Arrived(f)'
    <3>1. CASE r = "whole"
      BY <2>3, <3>1 DEF Arrived
    <3>2. CASE r = "broken"
      <4>1. ~m.ok
        BY <1>7, <2>2, <3>2 DEF Verified, f
      <4>2. Arrived(f)
        BY <1>1, <4>1 DEF EndedInv, f
      <4> QED BY <1>0, <2>3, <4>2
    <3> QED BY <3>1, <3>2
  <2>5. \A k \in sent' \ sent : k.type = "ack" /\ k.file = f
    BY <1>7, ReplyKeeps DEF f
  <2>6. EndedInv'
    <3>1. \A k \in sent : k.file \in Files
      BY DEF TypeOK, Messages
    <3>2. \A k \in sent' : k.type = "ack" \/ (k.type = "complete" /\ ~k.ok) => Arrived(k.file)'
      BY <2>3, <2>4, <2>5, <3>1 DEF EndedInv
    <3>3. \A g \in Files, k \in Nodes : sending'[g][k] # 0 => g \in outgoing' \/ Arrived(g)'
      BY <1>1, <2>3 DEF EndedInv
    <3>4. \A k \in Nodes, g \in Files : report'[k][g] = "broken" => Arrived(g)'
      BY <2>3, <2>4 DEF EndedInv, ReceivedIsWhole, Arrived
    <3> QED BY <3>2, <3>3, <3>4 DEF EndedInv, ReceivedIsWhole, Arrived
  <2>7. open'[n] = open[n] \ {f} /\ \A k \in Nodes : open'[k] \subseteq open[k]
    BY <1>0, <1>7 DEF Closed
  <2>8. OnceInv'
    <3>1. \A x, y \in sent' : x.type = "offer" /\ y.type = "offer" /\ x.file = y.file => x = y
      BY <1>0, <2>5 DEF OnceInv
    <3>2. \A k \in Nodes, g \in Files :
            g \in open'[k] \/ report'[k][g] # "none" => OfferTaken(k, g)'
      BY <1>0, <1>4, <1>7, <2>3, <2>7 DEF OnceInv
    <3>3. \A k \in Nodes, g \in Files : report'[k][g] # "none" => g \notin open'[k]
      BY <1>0, <2>3, <2>7 DEF OnceInv
    <3> QED BY <1>3, <3>1, <3>2, <3>3 DEF OnceInv
  <2>9. ConfirmedIsKept'
    <3>1. r = "whole" => disk'[n][name[f]] = {<<f, Whole(f)>>}
      BY <1>0, <1>7, <2>2 DEF Written, f
    <3>2. ASSUME NEW k \in Nodes, NEW g \in Files, report'[k][g] = "whole"
          PROVE  \/ disk'[k][name[g]] = {<<g, Whole(g)>>}
                 \/ \E x \in taken'[k] : x.type = "complete" /\ x.file # g /\ name[x.file] = name[g]
      <4>1. CASE k = n /\ g = f
        BY <2>3, <3>1, <3>2, <4>1
      <4>2. CASE ~(k = n /\ g = f)
        <5>1. report[k][g] = "whole"
          BY <2>3, <3>2, <4>2
        <5> QED BY <1>1, <1>3, <1>5, <4>2, <5>1, CompleteKeeps DEF f
      <4> QED BY <4>1, <4>2
    <3> QED BY <3>2 DEF ConfirmedIsKept, Whole
  <2> QED BY <2>6, <2>8, <2>9 DEF KeptInv
<1> QED BY <1>6, <1>7 DEF HandleComplete, AbortComplete

LEMMA TransferStep == TypeOK /\ TransferInv /\ [Next]_vars => TransferInv'
<1>1. TypeOK /\ TransferInv /\ UNCHANGED vars => TransferInv'
  <2> SUFFICES ASSUME TypeOK, EndedInv, KeptInv, UNCHANGED vars PROVE EndedInv' /\ KeptInv'
    BY DEF TransferInv
  <2>1. UNCHANGED <<sent, taken, outgoing, sending, open, disk, report>>
    BY DEF vars
  <2>2. EndedInv'
    BY <2>1, EndedKept DEF EndedInv
  <2> QED BY <2>1, <2>2, KeptByOthers DEF KeptInv, OnceInv
<1> QED BY <1>1, SendingStep, CrashStep, OfferStep, AnswerStep, ChunkStep, CompleteStep
        DEF Next, Handles

LEMMA TransferHolds == Spec => []TransferInv
<1>1. Init => TransferInv
  BY DEF Init, TransferInv, EndedInv, ReceivedIsWhole, KeptInv, OnceInv, ConfirmedIsKept
<1> QED BY <1>1, TransferStep, TypeCorrect, PTL DEF Spec

\* No node confirms a file that differs from the one offered before another node
\* has received it whole: the only way around the hash is a transfer the sender
\* takes for finished.
THEOREM NothingBrokenFirst == Spec => []ReceivedIsWhole
<1>1. TransferInv => ReceivedIsWhole
  BY DEF TransferInv, EndedInv
<1> QED BY <1>1, TransferHolds, PTL

\* A confirmed file stays until a transfer of the same name ends on that node.
THEOREM ConfirmedStays == Spec => []ConfirmedIsKept
<1>1. TransferInv => ConfirmedIsKept
  BY DEF TransferInv, KeptInv
<1> QED BY <1>1, TransferHolds, PTL
-----------------------------------------------------------------------------
(***************************************************************************)
(* The transfers implement Handover.                                       *)
(***************************************************************************)

Offered(f) == \E m \in sent : m.type = "offer" /\ m.file = f

\* What is in _outgoing has been offered.
OutgoingInv == \A f \in outgoing : Offered(f)

LEMMA StageIs ==
  ASSUME NEW f
  PROVE  /\ f \in outgoing => Stage(f) = "offered"
         /\ f \notin outgoing /\ Offered(f) => Stage(f) = "over"
         /\ f \notin outgoing /\ ~Offered(f) => Stage(f) = "new"
  BY DEF Stage, Offered

LEMMA StageNext ==
  ASSUME NEW f
  PROVE  /\ f \in outgoing' => Stage(f)' = "offered"
         /\ f \notin outgoing' /\ Offered(f)' => Stage(f)' = "over"
         /\ f \notin outgoing' /\ ~Offered(f)' => Stage(f)' = "new"
  BY DEF Stage, Offered

\* A step that sends no offer.
LEMMA OffersKept ==
  ASSUME sent \subseteq sent', \A m \in sent' \ sent : m.type # "offer"
  PROVE  \A f : Offered(f)' <=> Offered(f)
  BY DEF Offered

LEMMA NoOfferSent ==
  ASSUME NEW n \in Nodes, NEW m \in sent, Handles(n, m)
  PROVE  sent \subseteq sent' /\ \A k \in sent' \ sent : k.type # "offer"
<1>1. sent' = sent \/ \E type \in {"accept", "reject", "ack"} : Reply(n, m, type)
  BY DEF Handles, HandleOffer, HandleAccept, HandleAck, HandleChunk, HandleComplete,
       AbortComplete
<1> QED BY <1>1, ReplyKeeps

\* The sender's steps but the first send no offer.
LEMMA SendingOffers ==
  ASSUME NEW f \in Files, Edit(f) \/ Sends(f)
  PROVE  \A g : Offered(g)' <=> Offered(g)
<1>1. CASE Edit(f)
  BY <1>1, OffersKept DEF Edit
<1>2. ASSUME NEW n \in Nodes, SendChunk(f, n) PROVE \A g : Offered(g)' <=> Offered(g)
  <2> DEFINE chunk == [Message("chunk", f, sender[f], n) EXCEPT
                         !.part = sending[f][n], !.ok = f \notin edited]
  <2>1. sent' \in {sent, sent \cup {chunk}}
    BY <1>2 DEF SendChunk
  <2>2. chunk.type = "chunk"
    BY DEF Message
  <2> HIDE DEF chunk
  <2> QED BY <2>1, <2>2, OffersKept
<1>3. ASSUME NEW n \in Nodes, SendComplete(f, n) PROVE \A g : Offered(g)' <=> Offered(g)
  <2> DEFINE done == [Message("complete", f, sender[f], n) EXCEPT !.ok = f \in outgoing]
  <2>1. sent' = sent \cup {done}
    BY <1>3 DEF SendComplete
  <2>2. done.type = "complete"
    BY DEF Message
  <2> HIDE DEF done
  <2> QED BY <2>1, <2>2, OffersKept
<1> QED BY <1>1, <1>2, <1>3 DEF Sends

\* What the steps do to the offers and to _outgoing.
LEMMA OffersStep ==
  ASSUME TypeOK, [Next]_vars
  PROVE  \/ \E f \in Files : SendFile(f)
         \/ /\ \A f : Offered(f)' <=> Offered(f)
            /\ outgoing' \subseteq outgoing
<1>1. CASE \E f \in Files : SendFile(f)
  BY <1>1
<1>2. ASSUME NEW f \in Files, Edit(f) \/ Sends(f)
      PROVE  (\A g : Offered(g)' <=> Offered(g)) /\ outgoing' = outgoing
  <2>1. outgoing' = outgoing
    BY <1>2 DEF Edit, Sends, SendChunk, SendComplete
  <2> QED BY <1>2, <2>1, SendingOffers
<1>3. ASSUME NEW n \in Nodes, NEW m \in sent, Handles(n, m)
      PROVE  (\A g : Offered(g)' <=> Offered(g)) /\ outgoing' \subseteq outgoing
  <2>1. \A g : Offered(g)' <=> Offered(g)
    BY <1>3, NoOfferSent, OffersKept
  <2>2. outgoing' \subseteq outgoing
    BY <1>3 DEF Handles, HandleOffer, HandleAccept, HandleAck, HandleChunk, HandleComplete,
         AbortComplete
  <2> QED BY <2>1, <2>2
<1>4. ASSUME NEW n \in Nodes, Crash(n) PROVE sent' = sent /\ outgoing' \subseteq outgoing
  BY <1>4 DEF Crash
<1>5. CASE UNCHANGED vars
  BY <1>5, OffersKept DEF vars
<1> QED BY <1>1, <1>2, <1>3, <1>4, <1>5, OffersKept DEF Next

LEMMA OutgoingStep == TypeOK /\ OutgoingInv /\ [Next]_vars => OutgoingInv'
<1> SUFFICES ASSUME TypeOK, OutgoingInv, [Next]_vars PROVE OutgoingInv'
  OBVIOUS
<1>1. ASSUME NEW f \in Files, SendFile(f) PROVE OutgoingInv'
  <2> DEFINE offer == Message("offer", f, sender[f], to[f])
  <2>1. sent' = sent \cup {offer} /\ outgoing' = outgoing \cup {f}
    BY <1>1 DEF SendFile
  <2>2. offer.type = "offer" /\ offer.file = f
    BY DEF Message
  <2> HIDE DEF offer
  <2> QED BY <2>1, <2>2 DEF OutgoingInv, Offered
<1> QED BY <1>1, OffersStep DEF OutgoingInv

LEMMA OutgoingOffered == Spec => []OutgoingInv
<1>1. Init => OutgoingInv
  BY DEF Init, OutgoingInv
<1> QED BY <1>1, OutgoingStep, TypeCorrect, PTL DEF Spec

\* A step that neither offers, ends nor confirms anything.
LEMMA HandoverStutters ==
  ASSUME outgoing' = outgoing, report' = report, \A f : Offered(f)' <=> Offered(f)
  PROVE  [Promised!Next]_Promised!vars
<1>1. \A f : Stage(f)' = Stage(f)
  BY StageIs, StageNext
<1> QED BY <1>1 DEF Promised!vars

LEMMA CompleteHandsOver ==
  ASSUME TypeOK, TransferInv, OutgoingInv, NEW n \in Nodes, NEW m \in sent, HandleComplete(n, m)
  PROVE  [Promised!Next]_Promised!vars
<1> DEFINE f == m.file
           got == incoming[n][f]
<1>1. outgoing' = outgoing /\ \A g : Offered(g)' <=> Offered(g)
  BY NoOfferSent, OffersKept DEF HandleComplete, Handles
<1>2. CASE report' = report
  BY <1>1, <1>2, HandoverStutters
<1>3. CASE /\ f \in open[n] /\ Verified(m, got)
           /\ report' = [report EXCEPT ![n][f] = IF got = Whole(f) THEN "whole" ELSE "broken"]
  <2>1. f \in Files /\ m.type = "complete"
    BY DEF HandleComplete, TypeOK, Messages
  <2>2. report[n][f] = "none" /\ Offered(f)
    BY <1>3, <2>1 DEF TransferInv, KeptInv, OnceInv, OfferTaken, Offered
  <2>3. got # Whole(f) => Arrived(f)
    BY <1>3, <2>1 DEF Verified, TransferInv, EndedInv
  <2>4. PICK r \in {"whole", "broken"} : /\ report' = [report EXCEPT ![n][f] = r]
                                         /\ r = "broken" => Arrived(f)
    BY <1>3, <2>3
  <2> HIDE DEF f, got
  <2>5. Stage(f) # "new"
    BY <2>2, StageIs
  <2>6. \A g : Stage(g)' = Stage(g)
    BY <1>1, StageIs, StageNext
  <2>7. Promised!Confirm(n, f, r)
    BY <2>1, <2>2, <2>4, <2>5, <2>6 DEF Promised!Confirm, Arrived
  <2> QED BY <2>1, <2>7 DEF Promised!Next
<1> QED BY <1>2, <1>3 DEF HandleComplete

LEMMA HandoverStep ==
  TypeOK /\ TransferInv /\ OutgoingInv /\ [Next]_vars => [Promised!Next]_Promised!vars
<1> SUFFICES ASSUME TypeOK, TransferInv, OutgoingInv, [Next]_vars
             PROVE  [Promised!Next]_Promised!vars
  OBVIOUS
<1>1. ASSUME NEW f \in Files, SendFile(f) PROVE Promised!Offer(f)
  <2> DEFINE offer == Message("offer", f, sender[f], to[f])
  <2>1. /\ sent' = sent \cup {offer} /\ outgoing' = outgoing \cup {f} /\ report' = report
        /\ ~Offered(f)
    BY <1>1 DEF SendFile, Offered
  <2>2. offer.type = "offer" /\ offer.file = f
    BY DEF Message
  <2> HIDE DEF offer
  <2>3. Stage(f) = "new" /\ Stage(f)' = "offered"
    BY <2>1, StageIs, StageNext DEF OutgoingInv
  <2>4. ASSUME NEW g \in Files \ {f} PROVE Stage(g)' = Stage(g)
    <3>1. Offered(g)' <=> Offered(g)
      BY <2>1, <2>2 DEF Offered
    <3> QED BY <2>1, <3>1, StageIs, StageNext
  <2> QED BY <2>1, <2>3, <2>4 DEF Promised!Offer
<1>2. ASSUME NEW f \in Files, Edit(f) \/ Sends(f) PROVE [Promised!Next]_Promised!vars
  <2>1. outgoing' = outgoing /\ report' = report
    BY <1>2 DEF Edit, Sends, SendChunk, SendComplete
  <2>2. \A g : Offered(g)' <=> Offered(g)
    BY <1>2, SendingOffers
  <2> QED BY <2>1, <2>2, HandoverStutters
<1>3. ASSUME NEW n \in Nodes, Crash(n) PROVE Promised!Stop(n)
  <2>1. /\ report' = report /\ \A f : Offered(f)' <=> Offered(f)
        /\ \A f \in Files : f \in outgoing' <=> f \in outgoing /\ sender[f] # n
    BY <1>3 DEF Crash, TypeOK, Offered
  <2>2. ASSUME NEW f \in Files
        PROVE  Stage(f)' = IF sender[f] = n /\ Stage(f) = "offered" THEN "over" ELSE Stage(f)
    BY <2>1, StageIs, StageNext DEF OutgoingInv
  <2> QED BY <2>1, <2>2 DEF Promised!Stop
<1>4. ASSUME NEW n \in Nodes, NEW m \in sent, Handles(n, m)
      PROVE  [Promised!Next]_Promised!vars
  <2>0. \A g : Offered(g)' <=> Offered(g)
    BY <1>4, NoOfferSent, OffersKept
  <2>1. CASE HandleOffer(n, m) \/ HandleAccept(n, m) \/ HandleChunk(n, m)
    BY <2>0, <2>1, HandoverStutters DEF HandleOffer, HandleAccept, HandleChunk
  <2>2. CASE HandleAck(n, m)
    <3>1. /\ m.file \in Files /\ m.file \in outgoing /\ outgoing' = outgoing \ {m.file}
          /\ report' = report /\ Arrived(m.file) /\ Offered(m.file)
      BY <2>2 DEF HandleAck, TypeOK, Messages, TransferInv, EndedInv, OutgoingInv
    <3>2. Stage(m.file) = "offered" /\ Stage(m.file)' = "over"
      BY <2>0, <3>1, StageIs, StageNext
    <3>3. \A g \in Files \ {m.file} : Stage(g)' = Stage(g)
      BY <2>0, <3>1, StageIs, StageNext
    <3>4. Promised!Finish(m.file)
      BY <3>1, <3>2, <3>3 DEF Promised!Finish, Promised!Confirmed, Arrived
    <3> QED BY <3>1, <3>4 DEF Promised!Next
  <2>3. CASE HandleComplete(n, m)
    BY <2>3, CompleteHandsOver
  <2>4. CASE AbortComplete(n, m)
    BY <2>0, <2>4, HandoverStutters DEF AbortComplete
  <2> QED BY <1>4, <2>1, <2>2, <2>3, <2>4 DEF Handles
<1>5. CASE UNCHANGED vars
  BY <1>5, HandoverStutters, OffersKept DEF vars
<1> QED BY <1>1, <1>2, <1>3, <1>4, <1>5 DEF Next, Promised!Next

\* Whatever is lost, late, doubled or overheard: a file is offered and confirmed
\* by a node once, and its sender is done with it only when it was confirmed or
\* the sender stopped.
THEOREM TransfersHandOver == Spec => HandedOver
<1>1. Init => Promised!Init
  <2> SUFFICES ASSUME Init PROVE Promised!Init
    OBVIOUS
  <2>1. \A f \in Files : Stage(f) = "new"
    BY DEF Init, Stage
  <2> QED BY <2>1 DEF Init, Promised!Init
<1> QED BY <1>1, HandoverStep, TypeCorrect, TransferHolds, OutgoingOffered, PTL
        DEF Spec, HandedOver, Promised!Spec
=============================================================================
