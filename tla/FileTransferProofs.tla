------------------------- MODULE FileTransferProofs -------------------------
(***************************************************************************)
(* Proofs about FileTransfer, for files of any size, any limit of the      *)
(* receiver and any number of stray stanzas.  The inductive invariant IInv *)
(* says what is under way between the two ends: never more than one        *)
(* request or its answer, and which one it is.                             *)
(***************************************************************************)
EXTENDS FileTransfer, SequenceTheorems, TLAPS

Names == {"request", "bad_request", "broken_request", "open", "broken_open",
          "data", "broken_data", "close"}
Messages == [name : Names, seq : Nat, block : 0 .. size]
Answers == {"result", "error", "unsupported"}

\* A channel holds at most one stanza.
Short(S) == {<<>>} \cup {<<m>> : m \in S}

\* TypeOK, and what goes over the channels: a stanza or the answer to it.
Types ==
  /\ TypeOK
  /\ sent \in Nat
  /\ stored \in Seq(0 .. size)
  /\ toR \in Short(Messages) /\ toS \in Short(Answers)
  /\ toR = <<>> \/ toS = <<>>

\* What sendFile() has under way.
UnderWay ==
  pair.sender = "vexmpp" =>
    /\ s = "start" => toR = <<>> /\ toS = <<>>
    /\ toR # <<>> =>
         LET m == Head(toR)
         IN /\ m.name \in {"request", "open", "data", "close"}
            /\ s = "request" => m.name = "request"
            /\ s \in {"open", "reopen"} => m.name = "open"
            /\ s = "data" => m.name = "data"
            /\ s = "close" => m.name = "close"
            /\ m.name = "close" => s \in {"close", "failed"}
            /\ m.name = "data" =>
                 /\ m.block = sent
                 /\ Len(stored) < sent /\ (r # "failed" => Len(stored) + 1 = sent)

\* How far the two ends have got.
Progress ==
  pair.sender = "vexmpp" =>
    /\ \A i \in 1 .. Len(stored) : stored[i] = i
    /\ Len(stored) <= sent
    /\ s = "start" => r = "start"
    /\ r = "start" => s \in {"start", "request", "failed"}
    /\ s \in {"start", "request", "open", "reopen"} => sent = 0
    /\ s \in {"close", "done"} => sent = size
    /\ s = "done" => r = "done" /\ Len(stored) = sent
    /\ r = "done" => s \in {"close", "done", "failed"}
    /\ r \in {"data", "done"} =>
         /\ s = "data" => Len(stored) + 1 >= sent
         /\ s = "close" => Len(stored) >= sent

\* What an answer of another receiver tells sendFile().
AnswerMeans ==
  (pair.sender = "vexmpp" /\ pair.receiver = "other"
   /\ toS # <<>> /\ Head(toS) = "result") =>
       /\ r \in {"data", "done"}
       /\ s = "data" => Len(stored) = sent
       /\ s = "close" => r = "done"

\* Two ends of vexmpp do not get beyond the second <open/>.
Strangers ==
  pair.sender = "vexmpp" /\ pair.receiver = "vexmpp" =>
    /\ s \in {"start", "request", "open", "reopen", "failed"}
    /\ toR # <<>> => Head(toR).name \in {"request", "open"}
    /\ s = "request" /\ toS # <<>> => r # "start"
    /\ s = "open" /\ toS # <<>> => r # "open"
    /\ s = "reopen" => toS = <<>> /\ r # "open"

OthersStand == pair.sender = "other" => s = "start"

IInv ==
  /\ Types /\ UnderWay /\ Progress /\ Strangers /\ OthersStand
  /\ AnswerMeans /\ DiskIsClean /\ DoneIsComplete

-----------------------------------------------------------------------------
(* Lemmas about the channels and the file.                                 *)

\* What is left of a channel when its stanza is taken or lost.
LEMMA OneStanza ==
  ASSUME NEW S, NEW q \in Short(S)
  PROVE  /\ q # <<>> => Head(q) \in S /\ Tail(q) = <<>>
         /\ \A n \in 0 .. Len(q) : SubSeq(q, 1, n) \in {<<>>, q}
<1>1. CASE q = <<>>
  BY <1>1
<1>2. ASSUME NEW m \in S, q = <<m>>
      PROVE  /\ Head(q) \in S /\ Tail(q) = <<>>
             /\ \A n \in 0 .. Len(q) : SubSeq(q, 1, n) \in {<<>>, q}
  <2>1. Len(q) = 1 /\ Head(q) = m /\ Tail(q) = <<>> /\ q \in Seq(S)
    BY <1>2
  <2>2. SubSeq(q, 1, 0) = <<>>
    BY SubSeqEmpty
  <2>3. SubSeq(q, 1, 1) = q
    BY <2>1, SubSeqFull
  <2> QED
    BY <2>1, <2>2, <2>3
<1> QED
  BY <1>1, <1>2 DEF Short

\* Stream.send puts the stanza into an empty channel, or drops it.
LEMMA Posted ==
  ASSUME NEW S, NEW m \in S, NEW end
  PROVE  /\ Post(end, <<>>, m) \in Short(S)
         /\ Post(end, <<>>, m) # <<>> => Head(Post(end, <<>>, m)) = m
<1>1. Append(<<>>, m) = <<m>> /\ Head(<<m>>) = m
  OBVIOUS
<1> QED
  BY <1>1 DEF Post, Short

\* The stanzas of the two ends are messages.
LEMMA Stanzas ==
  ASSUME size \in Nat
  PROVE  /\ \A name \in Names : /\ Stanza(name) \in Messages
                                /\ Stanza(name).name = name
         /\ \A q \in Nat, b \in 0 .. size :
              /\ Data(q, b) \in Messages /\ Data(q, b).name = "data"
              /\ Data(q, b).seq = q /\ Data(q, b).block = b
BY DEF Stanza, Data, Messages, Names

LEMMA BlocksAre ==
  ASSUME NEW S, NEW q \in Seq(S)
  PROVE  \A i \in DOMAIN q : q[i] \in S
BY LenProperties

\* The receiver's file is the one that was sent if it has the same number of
\* blocks, each at its place.
LEMMA WholeFile ==
  ASSUME size \in Nat, stored \in Seq(0 .. size), Len(stored) = size,
         \A i \in 1 .. Len(stored) : stored[i] = i
  PROVE  stored = File
<1>1. File \in Seq(0 .. size) /\ Len(File) = size
  BY DEF File
<1>2. \A i \in 1 .. Len(stored) : stored[i] = File[i]
  BY DEF File
<1> QED
  BY <1>1, <1>2, SeqEqual

-----------------------------------------------------------------------------
(* The inductive invariant.                                                *)

\* Both ends start with nothing sent and nothing stored.
LEMMA IInvInit == Init => IInv
<1> SUFFICES ASSUME Init PROVE IInv
  OBVIOUS
<1>1. /\ size \in Nat /\ stored = <<>> /\ Len(stored) = 0 /\ DOMAIN stored = {}
      /\ stored \in Seq(0 .. size)
  BY FileTransferAssumption DEF Init
<1>2. Types
  <2>1. TypeOK
    <3>1. {cut, fd, tmp} \subseteq BOOLEAN
      BY DEF Init
    <3> QED
      BY <1>1, <3>1 DEF Init, TypeOK
  <2>2. toR \in Short(Messages) /\ toS \in Short(Answers)
    BY DEF Init, Short
  <2> QED
    BY <1>1, <2>1, <2>2 DEF Init, Types
<1>3. UnderWay /\ Progress /\ AnswerMeans /\ Strangers /\ OthersStand
  BY <1>1 DEF Init, UnderWay, Progress, AnswerMeans, Strangers, OthersStand
<1>4. DiskIsClean /\ DoneIsComplete
  BY <1>1, FileTransferAssumption DEF Init, DiskIsClean, DoneIsComplete
<1> QED
  BY <1>2, <1>3, <1>4 DEF IInv

\* What the steps below need to know of a state.
LEMMA Typed ==
  ASSUME Types
  PROVE  /\ size \in Nat /\ sent \in Nat /\ MaxSize \in Nat
         /\ Len(stored) \in Nat
         /\ pair.sender \in {"vexmpp", "other"} /\ pair.receiver \in {"vexmpp", "other"}
         /\ toR # <<>> => Head(toR) \in Messages /\ Tail(toR) = <<>>
         /\ toS # <<>> => Head(toS) \in Answers /\ Tail(toS) = <<>>
         /\ \A x \in Messages :
              /\ Post("sender", <<>>, x) \in Short(Messages)
              /\ Post("sender", <<>>, x) # <<>> => Head(Post("sender", <<>>, x)) = x
         /\ \A a \in Answers :
              /\ Post("receiver", <<>>, a) \in Short(Answers)
              /\ Post("receiver", <<>>, a) # <<>> => Head(Post("receiver", <<>>, a)) = a
<1>1. toR \in Short(Messages) /\ toS \in Short(Answers)
  BY DEF Types
<1>2. size \in Nat /\ sent \in Nat /\ MaxSize \in Nat /\ pair \in Pairs
  BY FileTransferAssumption DEF Types, TypeOK
<1>3. Len(stored) \in Nat
  BY <1>2, LenProperties DEF Types
<1> QED
  BY <1>1, <1>2, <1>3, OneStanza, Posted, FileTransferAssumption

\* sendFile() takes an answer and sends the next stanza.
LEMMA SenderStep ==
  ASSUME IInv, SendRequest \/ SendOpen \/ SendBlock \/ SendClose
  PROVE  IInv'
<1>1. /\ Types /\ TypeOK /\ UnderWay /\ Progress /\ Strangers /\ OthersStand
      /\ AnswerMeans /\ DiskIsClean /\ DoneIsComplete
  BY DEF IInv, Types
<1>2. /\ size \in Nat /\ sent \in Nat /\ Len(stored) \in Nat
      /\ pair.receiver \in {"vexmpp", "other"}
      /\ toS # <<>> => Tail(toS) = <<>>
      /\ \A x \in Messages : /\ Post("sender", <<>>, x) \in Short(Messages)
                             /\ Post("sender", <<>>, x) # <<>> => Head(Post("sender", <<>>, x)) = x
  BY <1>1, Typed
<1>3. /\ UNCHANGED <<pair, size, hash, r, stored, cut, fd, tmp, link>>
      /\ File' = File /\ Messages' = Messages
  BY DEF SendRequest, SendOpen, SendBlock, SendClose, Then, fixed, receiver, file,
         File, Messages
<1>4. PICK m \in Messages :
        /\ toR' = Post("sender", toR, m) /\ toR = <<>> /\ toS' = <<>>
        /\ \/ s = "start" /\ s' = "request" /\ m.name = "request" /\ sent' = sent
           \/ s = "request" /\ s' = "open" /\ m.name = "open" /\ sent' = sent
           \/ s = "open" /\ s' = "reopen" /\ m.name = "open" /\ sent' = sent
           \/ /\ s \in {"reopen", "data"} /\ s' = "data" /\ m.name = "data"
              /\ m.block = sent' /\ sent' = sent + 1 /\ sent < size
           \/ /\ s \in {"reopen", "data"} /\ s' = "close" /\ m.name = "close"
              /\ sent' = sent /\ sent = size
        /\ s = "start" \/ (toS # <<>> /\ Head(toS) = "result")
        /\ pair.sender = "vexmpp"
  <2>1. \A name \in Names : Stanza(name) \in Messages /\ Stanza(name).name = name
    BY <1>2, Stanzas
  <2>2. CASE SendRequest
    <3>1. toR = <<>> /\ toS = <<>> /\ pair.sender = "vexmpp"
      BY <1>1, <2>2 DEF SendRequest, UnderWay
    <3> QED
      BY <2>1, <2>2, <3>1 DEF SendRequest, Names
  <2>3. ASSUME NEW m \in Messages, NEW next, Then(m, next)
        PROVE  /\ toR' = Post("sender", toR, m) /\ toR = <<>> /\ toS' = <<>> /\ s' = next
               /\ toS # <<>> /\ Head(toS) = "result"
    BY <1>1, <1>2, <2>3 DEF Then, Answered, Types
  <2>4. s # "start" => pair.sender = "vexmpp"
    BY <1>1, FileTransferAssumption DEF OthersStand, TypeOK
  <2>5. CASE SendOpen
    BY <2>1, <2>3, <2>4, <2>5 DEF SendOpen, Names
  <2>6. CASE SendBlock
    <3>1. Data(sent, sent + 1) \in Messages /\ Data(sent, sent + 1).name = "data"
          /\ Data(sent, sent + 1).block = sent + 1
      BY <1>2, <2>6, Stanzas DEF SendBlock
    <3> QED
      BY <2>3, <2>4, <2>6, <3>1 DEF SendBlock
  <2>7. CASE SendClose
    BY <2>1, <2>3, <2>4, <2>7 DEF SendClose, Names
  <2> QED
    BY <2>2, <2>5, <2>6, <2>7
<1>5. /\ toR' \in Short(Messages) /\ toS' \in Short(Answers)
      /\ toR' # <<>> => Head(toR') = m
  <2>1. <<>> \in Short(Answers)
    BY DEF Short
  <2>2. m \in Messages /\ toR' = Post("sender", <<>>, m) /\ toS' = <<>>
    BY <1>4
  <2> QED
    BY <1>2, <2>1, <2>2
<1>6. Types'
  <2>1. TypeOK'
    BY <1>1, <1>2, <1>3, <1>4 DEF TypeOK, SenderWaits
  <2> QED
    BY <1>1, <1>2, <1>3, <1>4, <1>5, <2>1 DEF Types
<1>7. UnderWay'
  BY <1>1, <1>2, <1>3, <1>4, <1>5 DEF UnderWay, Progress, AnswerMeans, Strangers
<1>8. Progress'
  BY <1>1, <1>2, <1>3, <1>4, <1>5 DEF Progress, AnswerMeans, Strangers
<1>9. AnswerMeans' /\ Strangers' /\ OthersStand'
  BY <1>1, <1>2, <1>3, <1>4, <1>5 DEF Strangers, OthersStand, AnswerMeans
<1>10. DiskIsClean' /\ DoneIsComplete'
  BY <1>1, <1>3, <1>4 DEF DiskIsClean, DoneIsComplete
<1> QED
  BY <1>6, <1>7, <1>8, <1>9, <1>10 DEF IInv

\* sendFile() is told that it is done, or gives up.
LEMMA SenderStops ==
  ASSUME IInv, SenderRefused \/ SenderEnds \/ SenderTimesOut \/ SendRaises
  PROVE  IInv'
<1>1. /\ Types /\ TypeOK /\ UnderWay /\ Progress /\ Strangers /\ OthersStand
      /\ AnswerMeans /\ DiskIsClean /\ DoneIsComplete
  BY DEF IInv, Types
<1>2. /\ size \in Nat /\ sent \in Nat /\ Len(stored) \in Nat
      /\ pair.sender \in {"vexmpp", "other"} /\ pair.receiver \in {"vexmpp", "other"}
      /\ toS # <<>> => Tail(toS) = <<>>
  BY <1>1, Typed
<1>3. /\ UNCHANGED <<pair, size, hash, sent, toR, r, stored, cut, fd, tmp, link>>
      /\ File' = File /\ Messages' = Messages
  BY DEF SenderRefused, SenderEnds, SenderTimesOut, SendRaises, fixed, receiver, file, File,
     Messages
<1>4. s \in SenderWaits \cup {"start"} /\ pair.sender = "vexmpp"
  BY <1>1, <1>2 DEF SenderRefused, SenderEnds, SenderTimesOut, SendRaises, SenderWaits,
     OthersStand
<1>5. \/ s' = "failed" /\ toS' \in {<<>>, toS}
      \/ /\ s = "close" /\ s' = "done" /\ toR = <<>>
         /\ toS # <<>> /\ Head(toS) = "result" /\ toS' = <<>>
  BY <1>1, <1>2 DEF SenderRefused, SenderEnds, SenderTimesOut, SendRaises, Answered, Types
<1>6. Types'
  <2>1. TypeOK'
    BY <1>1, <1>3, <1>5 DEF TypeOK
  <2>2. toS' \in Short(Answers) /\ (toR = <<>> \/ toS' = <<>>)
    BY <1>1, <1>5 DEF Types, Short
  <2> QED
    BY <1>1, <1>3, <2>1, <2>2 DEF Types
<1>7. s' = "done" => r = "done" /\ sent = size /\ Len(stored) = sent /\ stored = File
  <2>1. ASSUME s' = "done"
        PROVE  /\ r = "done" /\ sent = size /\ Len(stored) = sent
               /\ \A i \in 1 .. Len(stored) : stored[i] = i
    BY <1>1, <1>2, <1>4, <1>5, <2>1 DEF AnswerMeans, Progress, Strangers
  <2> QED
    BY <1>1, <1>2, <2>1, WholeFile DEF Types
<1>8. UnderWay' /\ Progress'
  BY <1>1, <1>2, <1>3, <1>4, <1>5, <1>7 DEF UnderWay, Progress, SenderWaits
<1>9. AnswerMeans' /\ Strangers' /\ OthersStand'
  BY <1>1, <1>3, <1>4, <1>5 DEF AnswerMeans, Strangers, OthersStand
<1>10. DiskIsClean' /\ DoneIsComplete'
  BY <1>1, <1>3, <1>5, <1>7 DEF DiskIsClean, DoneIsComplete
<1> QED
  BY <1>6, <1>8, <1>9, <1>10 DEF IInv

\* What another sender sends concerns only what vexmpp stores at the other end.
LEMMA OtherSenderStep ==
  ASSUME IInv, OtherSends
  PROVE  IInv'
<1>1. /\ Types /\ TypeOK /\ OthersStand /\ DiskIsClean /\ DoneIsComplete
  BY DEF IInv, Types
<1>2. /\ size \in Nat /\ sent \in Nat
      /\ \A m \in Messages : Post("sender", <<>>, m) \in Short(Messages)
  BY <1>1, Typed
<1>3. /\ UNCHANGED <<pair, size, hash, s, r, stored, cut, fd, tmp, link>>
      /\ File' = File /\ Messages' = Messages
      /\ pair.sender = "other" /\ sent' = sent + 1 /\ toS' = <<>> /\ toR = <<>>
  BY DEF OtherSends, fixed, receiver, file, File, Messages
<1>4. PICK m \in Messages : toR' = Post("sender", toR, m)
  <2>1. {Stanza(name) : name \in {"request", "bad_request", "broken_request", "open",
                                  "broken_open", "broken_data", "close"}}
        \cup {Data(q, b) : q \in 0 .. size, b \in 0 .. size} \subseteq Messages
    BY <1>2, Stanzas DEF Names
  <2> QED
    BY <2>1 DEF OtherSends
<1>5. Types'
  <2>1. TypeOK'
    BY <1>1, <1>3 DEF TypeOK
  <2>2. toR' \in Short(Messages)
    BY <1>2, <1>3, <1>4
  <2>3. <<>> \in Short(Answers)
    BY DEF Short
  <2> QED
    BY <1>1, <1>2, <1>3, <2>1, <2>2, <2>3 DEF Types
<1>6. UnderWay' /\ Progress' /\ AnswerMeans' /\ Strangers' /\ OthersStand'
  BY <1>1, <1>3 DEF UnderWay, Progress, AnswerMeans, Strangers, OthersStand
<1>7. DiskIsClean' /\ DoneIsComplete'
  BY <1>1, <1>3 DEF DiskIsClean, DoneIsComplete
<1> QED
  BY <1>5, <1>6, <1>7 DEF IInv

\* receiveFile() takes a stanza or gives up, without storing a block.
LEMMA ReceiverStep ==
  ASSUME IInv, \/ GetRequest \/ GetOpen \/ GetBrokenBlock \/ PassOver
               \/ ReceiverTimesOut \/ ReceiverCancelled
  PROVE  IInv'
<1>1. /\ Types /\ TypeOK /\ UnderWay /\ Progress /\ Strangers /\ OthersStand
      /\ AnswerMeans /\ DiskIsClean /\ DoneIsComplete
  BY DEF IInv, Types
<1>2. /\ size \in Nat /\ sent \in Nat /\ Len(stored) \in Nat
      /\ pair.sender \in {"vexmpp", "other"}
      /\ toR # <<>> => Tail(toR) = <<>>
      /\ \A a \in Answers : /\ Post("receiver", <<>>, a) \in Short(Answers)
                            /\ Post("receiver", <<>>, a) # <<>> => Head(Post("receiver", <<>>, a)) = a
  BY <1>1, Typed
<1>3. /\ UNCHANGED <<pair, size, hash, s, sent, stored, cut, link>>
      /\ File' = File /\ Messages' = Messages
      /\ pair.receiver = "vexmpp"
  BY DEF GetRequest, GetOpen, GetBrokenBlock, PassOver, ReceiverTimesOut,
         ReceiverCancelled, Takes, fixed, receiver, sender, file, File, Messages
<1>4. \/ /\ r = "start" /\ r' \in {"open", "failed"} /\ UNCHANGED <<fd, tmp>>
         /\ toR # <<>> /\ Head(toR).name \in {"request", "bad_request", "broken_request"}
         /\ toR' = <<>> /\ (toS' = toS \/ \E a \in {"result", "error"} : toS' = Post("receiver", toS, a))
      \/ /\ r = "open" /\ r' = "data" /\ fd' = TRUE /\ tmp' = TRUE
         /\ toR # <<>> /\ Head(toR).name = "open"
         /\ toR' = <<>> /\ toS' = Post("receiver", toS, "result")
      \/ /\ r = "open" /\ r' = "failed" /\ UNCHANGED <<fd, tmp>>
         /\ toR # <<>> /\ toR' = <<>>
         /\ toS' = toS \/ (Head(toR).name = "open" /\ toS' = Post("receiver", toS, "result"))
      \/ /\ r \in {"open", "data"} /\ r' = "failed" /\ fd' = FALSE /\ tmp' = FALSE
         /\ toR' \in {<<>>, toR} /\ toS' = toS
      \/ /\ \/ r = "open" /\ r' = "failed"
            \/ r = "data" /\ r' = "raised"
         /\ UNCHANGED <<fd, tmp, toR, toS>>
      \/ UNCHANGED <<r, fd, tmp, toS>> /\ toR # <<>> /\ toR' = <<>>
  BY <1>2 DEF GetRequest, GetOpen, GetBrokenBlock, PassOver, ReceiverTimesOut,
     ReceiverCancelled, Takes, Arrived, Answer, GoesOn, Discard, file, receiver, ReceiverWaits
<1>5. /\ toR' \in Short(Messages) /\ toS' \in Short(Answers)
      /\ toR' = <<>> \/ (toR' = toR /\ toS' = toS)
      /\ toS' # toS => toR # <<>> /\ toS = <<>> /\ r \in {"start", "open"}
  <2>1. toR' = <<>> \/ (toR' = toR /\ toS' = toS)
    BY <1>4
  <2>2. \/ toS' = toS
        \/ /\ toR # <<>> /\ r \in {"start", "open"}
           /\ \E a \in Answers : toS' = Post("receiver", toS, a)
    BY <1>4 DEF Answers
  <2>3. toR # <<>> => toS = <<>>
    BY <1>1 DEF Types
  <2>4. toS' \in Short(Answers)
    BY <1>1, <1>2, <2>2, <2>3 DEF Types
  <2>5. <<>> \in Short(Messages)
    BY DEF Short
  <2> QED
    BY <1>1, <2>1, <2>2, <2>3, <2>4, <2>5 DEF Types
<1>6. Types'
  <2>1. TypeOK'
    BY <1>1, <1>3, <1>4 DEF TypeOK, ReceiverWaits
  <2> QED
    BY <1>1, <1>3, <1>5, <2>1 DEF Types
<1>7. UnderWay'
  BY <1>1, <1>2, <1>3, <1>4, <1>5 DEF UnderWay, Strangers, Progress
<1>8. Progress'
  BY <1>1, <1>2, <1>3, <1>4, <1>5 DEF UnderWay, Strangers, Progress
<1>9. Strangers' /\ OthersStand' /\ AnswerMeans'
  BY <1>1, <1>2, <1>3, <1>4, <1>5 DEF UnderWay, Strangers, OthersStand, AnswerMeans
<1>10. DiskIsClean' /\ DoneIsComplete'
  BY <1>1, <1>3, <1>4 DEF DiskIsClean, DoneIsComplete
<1> QED
  BY <1>6, <1>7, <1>8, <1>9, <1>10 DEF IInv

\* receiveFile() takes a block or the <close/>: not from sendFile(), which does
\* not get that far with it.
LEMMA ReceiverStores ==
  ASSUME IInv, GetBlock \/ GetClose
  PROVE  IInv'
<1>1. /\ Types /\ TypeOK /\ Strangers /\ OthersStand /\ DiskIsClean /\ DoneIsComplete
  BY DEF IInv, Types
<1>2. /\ size \in Nat /\ sent \in Nat /\ MaxSize \in Nat /\ Len(stored) \in Nat
      /\ pair.sender \in {"vexmpp", "other"}
      /\ toR # <<>> => Head(toR) \in Messages /\ Tail(toR) = <<>>
      /\ \A a \in Answers : Post("receiver", <<>>, a) \in Short(Answers)
  BY <1>1, Typed
<1>3. /\ UNCHANGED <<pair, size, hash, s, sent, link>>
      /\ File' = File /\ Messages' = Messages
      /\ pair.receiver = "vexmpp" /\ pair.sender = "other" /\ s = "start" /\ r = "data"
      /\ toR # <<>> /\ toR' = <<>>
  BY <1>1, <1>2 DEF GetBlock, GetClose, Takes, Arrived, fixed, sender, File, Messages,
     Strangers, OthersStand
<1>4. /\ toS' = toS \/ \E a \in Answers : toS' = Post("receiver", toS, a)
      /\ \/ /\ Len(stored) < MaxSize \/ MaxSize = 0
            /\ stored' = Append(stored, Head(toR).block) /\ cut' \in {cut, TRUE}
            /\ r' \in {"data", "raised"} /\ UNCHANGED <<fd, tmp>>
         \/ r' = "raised" /\ UNCHANGED <<fd, tmp, cut, stored>>
         \/ r' = "failed" /\ fd' = FALSE /\ tmp' = FALSE /\ UNCHANGED <<cut, stored>>
         \/ /\ Verified /\ r' \in {"done", "raised"} /\ fd' = FALSE
            /\ UNCHANGED <<tmp, cut, stored>>
  <2>1. CASE GetBlock
    <3>1. toS' = toS \/ \E a \in Answers : toS' = Post("receiver", toS, a)
      BY <2>1 DEF GetBlock, Answer, Answers
    <3>2. \/ Acceptable(Head(toR)) /\ stored' = Append(stored, Head(toR).block)
             /\ cut' \in {cut, TRUE} /\ r' \in {"data", "raised"} /\ UNCHANGED <<fd, tmp>>
          \/ r' = "raised" /\ UNCHANGED <<fd, tmp, cut, stored>>
          \/ r' = "failed" /\ fd' = FALSE /\ tmp' = FALSE /\ UNCHANGED <<cut, stored>>
      BY <2>1 DEF GetBlock, GoesOn, Discard, file
    <3>3. Acceptable(Head(toR)) => Len(stored) < MaxSize \/ MaxSize = 0
      BY <1>2 DEF Acceptable
    <3> QED
      BY <3>1, <3>2, <3>3
  <2>2. CASE GetClose
    BY <2>2 DEF GetClose, Answer, Answers, GoesOn, Discard
  <2> QED
    BY <2>1, <2>2
<1>5. /\ stored' \in Seq(0 .. size)
      /\ \/ stored' = stored
         \/ /\ Len(stored') = Len(stored) + 1
            /\ Len(stored) < MaxSize \/ MaxSize = 0
  <2>1. Head(toR).block \in 0 .. size /\ stored \in Seq(0 .. size)
    BY <1>1, <1>2, <1>3 DEF Types, Messages
  <2>2. /\ Append(stored, Head(toR).block) \in Seq(0 .. size)
        /\ Len(Append(stored, Head(toR).block)) = Len(stored) + 1
    BY <2>1, AppendProperties
  <2> QED
    BY <1>3, <1>4, <2>1, <2>2
<1>6. Types'
  <2>1. TypeOK'
    <3>1. \A i \in DOMAIN stored' : stored'[i] \in 0 .. size
      BY <1>5, BlocksAre
    <3> QED
      BY <1>1, <1>3, <1>4, <3>1 DEF TypeOK
  <2>2. toS' \in Short(Answers)
    BY <1>1, <1>2, <1>3, <1>4 DEF Types
  <2>3. <<>> \in Short(Messages)
    BY DEF Short
  <2> QED
    BY <1>1, <1>3, <1>5, <2>1, <2>2, <2>3 DEF Types
<1>7. UnderWay' /\ Progress' /\ Strangers' /\ OthersStand' /\ AnswerMeans'
  BY <1>3 DEF UnderWay, Progress, Strangers, OthersStand, AnswerMeans
<1>8. DiskIsClean'
  <2>1. MaxSize > 0 => Len(stored') <= MaxSize
    BY <1>1, <1>2, <1>3, <1>5 DEF DiskIsClean
  <2>2. tmp = TRUE /\ fd = TRUE
    BY <1>1, <1>3 DEF DiskIsClean, TypeOK
  <2>3. \/ r' \in {"data", "raised"} /\ fd' = TRUE /\ tmp' = TRUE
        \/ r' = "failed" /\ fd' = FALSE /\ tmp' = FALSE
        \/ r' \in {"done", "raised"} /\ fd' = FALSE /\ tmp' = TRUE
    BY <1>3, <1>4, <2>2
  <2> QED
    BY <2>1, <2>3 DEF DiskIsClean
<1>9. DoneIsComplete'
  BY <1>1, <1>3, <1>4 DEF DoneIsComplete, Verified
<1> QED
  BY <1>6, <1>7, <1>8, <1>9 DEF IInv

\* Another receiver stores what sendFile() sends, block by block.
LEMMA OtherReceiverStep ==
  ASSUME IInv, OtherReceives
  PROVE  IInv'
<1>1. /\ Types /\ TypeOK /\ UnderWay /\ Progress /\ OthersStand /\ AnswerMeans
      /\ DoneIsComplete
  BY DEF IInv, Types
<1>2. /\ size \in Nat /\ sent \in Nat /\ Len(stored) \in Nat
      /\ toR # <<>> => Head(toR) \in Messages /\ Tail(toR) = <<>>
      /\ \A a \in Answers : /\ Post("receiver", <<>>, a) \in Short(Answers)
                            /\ Post("receiver", <<>>, a) # <<>> => Head(Post("receiver", <<>>, a)) = a
  BY <1>1, Typed
<1>3. /\ UNCHANGED <<pair, size, hash, s, sent, cut, fd, tmp, link>>
      /\ File' = File /\ Messages' = Messages
      /\ pair.receiver = "other" /\ r \in {"start", "data"}
      /\ toR # <<>> /\ toR' = <<>> /\ toS = <<>>
  BY <1>1, <1>2 DEF OtherReceives, Arrived, fixed, sender, File, Messages, Types
<1>4. PICK a \in Answers :
        /\ toS' = Post("receiver", <<>>, a)
        /\ \/ /\ a = "result" /\ Head(toR).name = "data" /\ r' = "data"
              /\ stored' = Append(stored, Head(toR).block)
           \/ /\ a = "result" /\ UNCHANGED stored /\ Head(toR).name # "data"
              /\ r' = IF Head(toR).name = "close" THEN "done" ELSE "data"
           \/ a # "result" /\ r' = "failed" /\ UNCHANGED stored
  BY <1>3 DEF OtherReceives, Answer, Answers
<1>5. /\ toS' \in Short(Answers) /\ (toS' # <<>> => Head(toS') = a)
  BY <1>2, <1>4
<1>6. Head(toR).name = "data" /\ a = "result" =>
         /\ stored' \in Seq(0 .. size) /\ Len(stored') = Len(stored) + 1
         /\ \A i \in 1 .. Len(stored) : stored'[i] = stored[i]
         /\ stored'[Len(stored) + 1] = Head(toR).block
  <2>1. Head(toR).block \in 0 .. size /\ stored \in Seq(0 .. size)
    BY <1>1, <1>2, <1>3 DEF Types, Messages
  <2>2. /\ Append(stored, Head(toR).block) \in Seq(0 .. size)
        /\ Len(Append(stored, Head(toR).block)) = Len(stored) + 1
        /\ \A i \in 1 .. Len(stored) : Append(stored, Head(toR).block)[i] = stored[i]
        /\ Append(stored, Head(toR).block)[Len(stored) + 1] = Head(toR).block
    BY <2>1, AppendProperties
  <2> QED
    BY <1>4, <2>2
<1>7. Types'
  <2>1. stored' \in Seq(0 .. size)
    BY <1>1, <1>4, <1>6 DEF Types
  <2>2. TypeOK'
    <3>1. \A i \in DOMAIN stored' : stored'[i] \in 0 .. size
      BY <2>1, BlocksAre
    <3> QED
      BY <1>1, <1>3, <1>4, <3>1 DEF TypeOK, ReceiverWaits
  <2>3. <<>> \in Short(Messages)
    BY DEF Short
  <2> QED
    BY <1>1, <1>3, <1>5, <2>1, <2>2, <2>3 DEF Types
<1>8. UnderWay' /\ Strangers' /\ OthersStand'
  BY <1>1, <1>3 DEF UnderWay, Strangers, OthersStand
<1>9. Progress'
  <2> SUFFICES ASSUME pair.sender = "vexmpp" PROVE Progress'
    BY <1>3 DEF Progress
  <2>1. /\ \A i \in 1 .. Len(stored) : stored[i] = i
        /\ Len(stored) <= sent
        /\ Head(toR).name = "data" => Head(toR).block = sent /\ Len(stored) + 1 = sent
    BY <1>1, <1>3 DEF UnderWay, Progress
  <2>2. Len(stored') \in Nat /\ Len(stored') <= sent /\ Len(stored) <= Len(stored')
    BY <1>2, <1>4, <1>6, <2>1
  <2>3. \A i \in 1 .. Len(stored') : stored'[i] = i
    <3>1. CASE Head(toR).name = "data" /\ a = "result"
      <4>1. \A i \in 1 .. Len(stored') : i \in 1 .. Len(stored) \/ i = Len(stored) + 1
        BY <1>2, <1>6, <3>1
      <4> QED
        BY <1>6, <2>1, <3>1, <4>1
    <3>2. CASE stored' = stored
      BY <2>1, <3>2
    <3> QED
      BY <1>4, <3>1, <3>2
  <2>4. s \notin {"start", "done"} /\ (r = "start" => s \in {"request", "failed"})
    BY <1>1, <1>3 DEF UnderWay, Progress
  <2>5. r' = "done" => s \in {"close", "failed"}
    BY <1>1, <1>3, <1>4 DEF UnderWay
  <2>6. s = "close" /\ r' \in {"data", "done"} => Len(stored') >= sent
    BY <1>1, <1>2, <1>3, <2>2, <2>4 DEF Progress
  <2>7. s = "data" /\ r' \in {"data", "done"} => Len(stored') + 1 >= sent
    BY <1>1, <1>2, <1>3, <2>2, <2>4 DEF Progress
  <2>8. r' # "start"
    BY <1>4
  <2> QED
    BY <1>1, <1>3, <2>2, <2>3, <2>4, <2>5, <2>6, <2>7, <2>8 DEF Progress
<1>10. AnswerMeans'
  BY <1>1, <1>2, <1>3, <1>4, <1>5, <1>6 DEF UnderWay, AnswerMeans
<1>11. DiskIsClean' /\ DoneIsComplete'
  BY <1>1, <1>3 DEF DiskIsClean, DoneIsComplete, Progress
<1> QED
  BY <1>7, <1>8, <1>9, <1>10, <1>11 DEF IInv

\* A lost connection takes what is under way, and not what was stored.
LEMMA DisconnectStep ==
  ASSUME IInv, Disconnect
  PROVE  IInv'
<1>1. /\ Types /\ TypeOK /\ UnderWay /\ Progress /\ Strangers /\ OthersStand
      /\ AnswerMeans /\ DiskIsClean /\ DoneIsComplete
  BY DEF IInv, Types
<1>2. /\ UNCHANGED <<pair, size, hash, s, sent, r, stored, cut, fd, tmp>>
      /\ File' = File /\ Messages' = Messages /\ link' = "lost"
  BY DEF Disconnect, fixed, sender, receiver, file, File, Messages
<1>3. toR' \in {<<>>, toR} /\ toS' \in {<<>>, toS}
  <2>1. toR \in Short(Messages) /\ toS \in Short(Answers)
    BY <1>1 DEF Types
  <2> QED
    BY <2>1, OneStanza DEF Disconnect
<1>4. Types'
  <2>1. TypeOK'
    BY <1>1, <1>2 DEF TypeOK
  <2>2. toR' \in Short(Messages) /\ toS' \in Short(Answers)
    BY <1>1, <1>3 DEF Types, Short
  <2> QED
    BY <1>1, <1>2, <1>3, <2>1, <2>2 DEF Types
<1>5. UnderWay' /\ Progress'
  BY <1>1, <1>2, <1>3 DEF UnderWay, Progress
<1>6. Strangers' /\ OthersStand' /\ AnswerMeans'
  BY <1>1, <1>2, <1>3 DEF Strangers, OthersStand, AnswerMeans
<1>7. DiskIsClean' /\ DoneIsComplete'
  BY <1>1, <1>2 DEF DiskIsClean, DoneIsComplete
<1> QED
  BY <1>4, <1>5, <1>6, <1>7 DEF IInv

\* No step of either end, and no loss of the connection, breaks IInv.
LEMMA IInvStep == IInv /\ [Next]_vars => IInv'
<1> SUFFICES ASSUME IInv, [Next]_vars PROVE IInv'
  OBVIOUS
<1>1. CASE UNCHANGED vars
  <2>1. /\ UNCHANGED <<pair, size, hash, s, sent, toR, toS, r, stored, cut, fd, tmp, link>>
    BY <1>1 DEF vars, fixed, sender, receiver, file
  <2> QED
    BY <2>1 DEF IInv, Types, TypeOK, Messages, UnderWay, Progress, Strangers, OthersStand,
       AnswerMeans, DiskIsClean, DoneIsComplete, File
<1>2. CASE Sender \/ SenderTimesOut
  BY <1>2, SenderStep, SenderStops DEF Sender
<1>3. CASE OtherSends
  BY <1>3, OtherSenderStep
<1>4. CASE Receiver \/ ReceiverTimesOut \/ ReceiverCancelled
  BY <1>4, ReceiverStep, ReceiverStores DEF Receiver
<1>5. CASE OtherReceives
  BY <1>5, OtherReceiverStep
<1>6. CASE Disconnect
  BY <1>6, DisconnectStep
<1>7. CASE Closes("sender") \/ Closes("receiver")
  <2>1. /\ UNCHANGED <<pair, size, hash, s, sent, toR, toS, r, stored, cut, fd, tmp>>
        /\ link' \in {"sender", "receiver"}
    BY <1>7 DEF Closes, fixed, sender, receiver, file
  <2> QED
    BY <2>1 DEF IInv, Types, TypeOK, Messages, UnderWay, Progress, Strangers, OthersStand,
       AnswerMeans, DiskIsClean, DoneIsComplete, File
<1> QED
  BY <1>1, <1>2, <1>3, <1>4, <1>5, <1>6, <1>7 DEF Next

LEMMA Inductive == Spec => []IInv
BY IInvInit, IInvStep, PTL DEF Spec

-----------------------------------------------------------------------------
(* What follows from it.                                                   *)

\* Every variable keeps its type; sendFile() never sends more blocks than the
\* file has.
THEOREM TransferTypeCorrect == Spec => []TypeOK
<1>1. IInv => TypeOK
  BY DEF IInv, Types
<1> QED
  BY <1>1, Inductive, PTL

\* Who has been told that the transfer is complete has the whole file, or
\* knows that the other end does, for files of any size.
THEOREM TransferDoneIsComplete == Spec => []DoneIsComplete
<1>1. IInv => DoneIsComplete
  BY DEF IInv
<1> QED
  BY <1>1, Inductive, PTL

\* receiveFile() leaves a file only when it returns one, or when a write, a send
\* or a cancellation ends it from within its loop; whatever it refuses or waits
\* for in vain leaves nothing.
THEOREM TransferDiskIsClean == Spec => []DiskIsClean
<1>1. IInv => DiskIsClean
  BY DEF IInv
<1> QED
  BY <1>1, Inductive, PTL

\* ibbSendFile() is never more than one block ahead of what the receiver has
\* stored, and what is stored is the beginning of the file.
THEOREM TransferAckedIsStored == Spec => []AckedIsStored
<1>1. IInv => AckedIsStored
  <2> SUFFICES ASSUME IInv, pair.sender = "vexmpp"
               PROVE  /\ IsPrefix(stored, File)
                      /\ Len(stored) <= sent
                      /\ s \in {"data", "close", "done"} /\ r \in {"data", "done"} =>
                           Len(stored) + (IF s = "data" THEN 1 ELSE 0) >= sent
    BY DEF AckedIsStored
  <2>1. /\ size \in Nat /\ sent \in 0 .. size /\ stored \in Seq(0 .. size)
        /\ Len(stored) \in Nat /\ Len(stored) <= sent
        /\ \A i \in 1 .. Len(stored) : stored[i] = i
    BY Typed DEF IInv, Types, TypeOK, Progress
  <2>2. File \in Seq(0 .. size) /\ Len(File) = size /\ \A i \in 1 .. size : File[i] = i
    BY <2>1 DEF File
  <2>3. SubSeq(stored, 1, Len(stored)) = stored
    BY <2>1, SubSeqFull
  <2>4. stored = SubSeq(File, 1, Len(stored))
    <3>1. /\ SubSeq(File, 1, Len(stored)) \in Seq(0 .. size)
          /\ Len(SubSeq(File, 1, Len(stored))) = Len(stored)
          /\ \A i \in 1 .. Len(stored) : SubSeq(File, 1, Len(stored))[i] = File[i]
      BY <2>1, <2>2, SubSeqProperties
    <3> QED
      BY <2>1, <2>2, <3>1, SeqEqual
  <2>5. IsPrefix(stored, File)
    BY <2>1, <2>2, <2>3, <2>4 DEF IsPrefix
  <2> QED
    BY <2>1, <2>5 DEF IInv, Progress
<1> QED
  BY <1>1, Inductive, PTL
=============================================================================
