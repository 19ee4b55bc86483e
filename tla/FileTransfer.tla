---------------------------- MODULE FileTransfer ----------------------------
(***************************************************************************)
(* Sending a file through the XMPP server                                  *)
(* (vexmpp/protocols/file_transfer.py): sendFile() and ibbSendFile() at    *)
(* one end, receiveFile(), ibbReceiveFile() and class File at the other.   *)
(* Each end may also be another implementation, since the two ends of      *)
(* vexmpp never get beyond the second <open/> with each other.             *)
(*                                                                         *)
(* Either end is one task that waits for one stanza at a time; what the    *)
(* other end has sent and this one has not taken is a channel.  The server *)
(* keeps the order of stanzas; a lost connection loses the last of them.   *)
(* A file is the sequence 1 .. size of its blocks.                         *)
(***************************************************************************)
EXTENDS Naturals, Sequences, SequencesExt

CONSTANTS
  Pairs,    \* which of the two ends may be vexmpp
  Sizes,    \* the sizes a file may have, in blocks
  MaxSize,  \* receiveFile's maxsize in blocks; 0 for none
  MaxOther  \* bound on the stanzas of a sender that is not vexmpp

ASSUME FileTransferAssumption ==
  /\ Pairs \subseteq [sender : {"vexmpp", "other"},
                      receiver : {"vexmpp", "other"}]
  /\ Sizes \subseteq Nat
  /\ MaxSize \in Nat /\ MaxOther \in Nat

VARIABLES
  pair,   \* which of Pairs it is
  size,   \* of the file, as announced
  hash,   \* whether its hash was announced; sendFile does
  s,      \* what sendFile() waits for; or how it ended
  sent,   \* the blocks sent, or all stanzas of another sender
  toR,    \* stanzas on their way to the receiver
  toS,    \* answers on their way to the sender
  r,      \* what receiveFile() waits for; or how it ended
  stored, \* the blocks that the receiver has counted and written
  cut,    \* one of them did not fit on the disk (a history variable)
  fd,     \* File._tmp_fd is open
  tmp,    \* the temporary file exists
  link    \* "open"; the end whose transport is closing; or "lost"

sender   == <<s, sent>>
file     == <<stored, cut, fd, tmp>>
receiver == <<r, file>>
fixed    == <<pair, size, hash>>
vars == <<fixed, sender, receiver, toR, toS, link>>

File == [i \in 1 .. size |-> i]

Init ==
  /\ pair \in Pairs /\ size \in Sizes
  /\ hash \in BOOLEAN /\ (pair.sender = "vexmpp" => hash)
  /\ s = "start" /\ sent = 0
  /\ r = "start" /\ stored = <<>> /\ cut = FALSE
  /\ fd = FALSE /\ tmp = FALSE
  /\ toR = <<>> /\ toS = <<>> /\ link = "open"

Stanza(name) == [name |-> name, seq |-> 0, block |-> 0]
Data(q, b)   == [name |-> "data", seq |-> q, block |-> b]

\* Stream.send: write() raises while the transport is closing, and without a
\* transport there is only a warning.
Sends(end) == link # end
Post(end, channel, m) ==
  IF link \in {end, "lost"} THEN channel ELSE Append(channel, m)

\* The transport of one end begins to close: the application, or a task of
\* its own, has closed the stream, or reading or writing has failed.
Closes(end) ==
  /\ pair[end] = "vexmpp" /\ link = "open"
  /\ link' = end
  /\ UNCHANGED <<fixed, sender, receiver, toR, toS>>

\* What was written before the connection was lost may still arrive.
Disconnect ==
  /\ link # "lost"
  /\ link' = "lost"
  /\ \E n \in 0 .. Len(toR) : toR' = SubSeq(toR, 1, n)
  /\ \E n \in 0 .. Len(toS) : toS' = SubSeq(toS, 1, n)
  /\ UNCHANGED <<fixed, sender, receiver>>

-----------------------------------------------------------------------------
(* sendFile() and ibbSendFile().  sendAndWait() waits for the answer to its *)
(* own request; there is never more than one.                              *)

SenderWaits == {"request", "open", "reopen", "data", "close"}

SendRequest ==
  /\ pair.sender = "vexmpp" /\ s = "start"
  /\ Sends("sender") /\ s' = "request"
  /\ toR' = Post("sender", toR, Stanza("request"))
  /\ UNCHANGED <<fixed, sent, receiver, toS, link>>

Answered(a) ==
  /\ toS # <<>> /\ Head(toS) = a
  /\ toS' = Tail(toS)

\* The answer is taken and the next request sent.
Then(m, for) ==
  /\ Answered("result")
  /\ Sends("sender") /\ s' = for
  /\ toR' = Post("sender", toR, m)

\* The next request, or the first, is refused by the closing transport; the
\* RuntimeError ends sendFile().
SendRaises ==
  /\ pair.sender = "vexmpp" /\ ~Sends("sender")
  /\ \/ s = "start" /\ UNCHANGED toS
     \/ s \in SenderWaits \ {"close"} /\ Answered("result")
  /\ s' = "failed"
  /\ UNCHANGED <<fixed, sent, toR, receiver, link>>

\* An error is raised; so is, for want of a method (and of a method
\* errrorResponse), an answer that selects none.
SenderRefused ==
  /\ s \in SenderWaits
  /\ Answered("error") \/ (s = "request" /\ Answered("unsupported"))
  /\ s' = "failed"
  /\ UNCHANGED <<fixed, sent, toR, receiver, link>>

\* sendFile() opens the bytestream, and ibbSendFile() opens it once more.
SendOpen ==
  /\ \/ s = "request" /\ Then(Stanza("open"), "open")
     \/ s = "open" /\ Then(Stanza("open"), "reopen")
  /\ UNCHANGED <<fixed, sent, receiver, link>>

\* Wrong variants, for the mutation runs: one block too many; and the answer
\* to a block is not waited for.
SendBlock_OneMore ==
  /\ s \in {"reopen", "data"} /\ sent <= size
  /\ Then(Data(sent, sent + 1), "data")
  /\ sent' = sent + 1
  /\ UNCHANGED <<fixed, receiver, link>>

SendBlock_NoAnswer ==
  /\ s \in {"reopen", "data"} /\ sent < size
  /\ s = "reopen" => toS # <<>>
  /\ s' = "data"
  /\ toR' = Post("sender", toR, Data(sent, sent + 1))
  /\ sent' = sent + 1
  /\ UNCHANGED <<fixed, toS, receiver, link>>

\* The number of a block grows beyond MAX_SEQ.
SendBlock ==
  /\ s \in {"reopen", "data"} /\ sent < size
  /\ Then(Data(sent, sent + 1), "data")
  /\ sent' = sent + 1
  /\ UNCHANGED <<fixed, receiver, link>>

SendClose ==
  /\ s \in {"reopen", "data"} /\ sent = size
  /\ Then(Stanza("close"), "close")
  /\ UNCHANGED <<fixed, sent, receiver, link>>

SenderEnds ==
  /\ s = "close"
  /\ Answered("result")
  /\ s' = "done"
  /\ UNCHANGED <<fixed, sent, toR, receiver, link>>

\* The answer may be on its way; it will find nobody waiting.  The
\* application may also cancel sendFile().
SenderTimesOut ==
  /\ s \in SenderWaits
  /\ s' = "failed"
  /\ UNCHANGED <<fixed, sent, toR, toS, receiver, link>>

\* Another sender: any stanzas in any order, whatever the answers.  That it
\* sends one at a time makes no difference to the receiver.
OtherSends ==
  /\ pair.sender = "other"
  /\ sent < MaxOther /\ toR = <<>>
  /\ sent' = sent + 1
  /\ toS' = <<>>
  /\ \E m \in {Stanza(name) : name \in {"request", "bad_request",
                  "broken_request", "open", "broken_open", "broken_data",
                  "close"}}
              \cup {Data(q, b) : q \in 0 .. size, b \in 0 .. size} :
       toR' = Post("sender", toR, m)
  /\ UNCHANGED <<fixed, s, receiver, link>>

-----------------------------------------------------------------------------
(* receiveFile(), ibbReceiveFile() and File.                               *)

ReceiverWaits == {"open", "data"}

Arrived(names) ==
  /\ toR # <<>> /\ Head(toR).name \in names
  /\ toR' = Tail(toR)

Takes(names) == pair.receiver = "vexmpp" /\ Arrived(names)
Answer(a)    == toS' = Post("receiver", toS, a)

\* receiveFile() goes on once it has answered, unless send() raises.
GoesOn(next, raised) == r' = IF Sends("receiver") THEN next ELSE raised

\* receiveFile() up to its wait(): a request it does not understand is
\* refused; one that it fails to read, such as one without a size, is not.
GetRequest ==
  /\ r = "start"
  /\ \/ Takes({"request"}) /\ Answer("result")
        /\ GoesOn("open", "failed")
     \/ Takes({"bad_request"}) /\ Answer("error") /\ r' = "failed"
     \/ Takes({"broken_request"}) /\ UNCHANGED toS /\ r' = "failed"
  /\ UNCHANGED <<fixed, sender, file, link>>

\* The first <open/>; one without sid or block size is not answered.  File()
\* may raise after the answer: without a tempdir, and where mkstemp() fails.
GetOpen ==
  /\ r = "open"
  /\ \/ /\ Takes({"open"}) /\ Answer("result")
        /\ \/ /\ Sends("receiver")
              /\ r' = "data" /\ fd' = TRUE /\ tmp' = TRUE
           \/ r' = "failed" /\ UNCHANGED <<fd, tmp>>
     \/ /\ Takes({"broken_open"})
        /\ r' = "failed" /\ UNCHANGED <<toS, fd, tmp>>
  /\ UNCHANGED <<fixed, sender, stored, cut, link>>

\* File.close(False).
Discard == fd' = FALSE /\ tmp' = FALSE

\* The checks of addBlock; all numbers below the next one are in _seq_set.
Acceptable(m) ==
  /\ m.seq = Len(stored)
  /\ MaxSize > 0 => Len(stored) < MaxSize

\* os.write() stores the block, a part of it, or nothing and raises.  What is
\* raised from here on leaves the file as it is; after a refusal it is gone.
GetBlock ==
  /\ r = "data"
  /\ Takes({"data"})
  /\ \/ /\ Acceptable(Head(toR))
        /\ stored' = Append(stored, Head(toR).block)
        /\ cut' \in {cut, TRUE}
        /\ Answer("result") /\ GoesOn("data", "raised")
        /\ UNCHANGED <<fd, tmp>>
     \/ /\ Acceptable(Head(toR))
        /\ r' = "raised"
        /\ UNCHANGED <<file, toS>>
     \/ /\ ~Acceptable(Head(toR))
        /\ Answer("error") /\ r' = "failed" /\ Discard
        /\ UNCHANGED <<stored, cut>>
  /\ UNCHANGED <<fixed, sender, link>>

\* No number, or no content: a TypeError, which is not answered.
GetBrokenBlock ==
  /\ r = "data"
  /\ Takes({"broken_data"})
  /\ r' = "failed" /\ Discard
  /\ UNCHANGED <<fixed, sender, stored, cut, toS, link>>

\* A wrong variant: the size is not compared.
Verified_AnySize == stored # <<>> /\ (hash => stored = File)

\* File._verify.  Without any block, sequences[-1] is an IndexError.
Verified ==
  /\ stored # <<>>
  /\ Len(stored) = size
  /\ hash => stored = File

\* File.close(True): a file that is not as announced is removed, and the
\* <close/> is not answered.
GetClose ==
  /\ r = "data"
  /\ Takes({"close"})
  /\ IF Verified THEN /\ Answer("result") /\ GoesOn("done", "raised")
                      /\ fd' = FALSE /\ UNCHANGED tmp
                 ELSE r' = "failed" /\ Discard /\ UNCHANGED toS
  /\ UNCHANGED <<fixed, sender, stored, cut, link>>

\* What is not awaited passes by without an answer, the second <open/> too.
\* (A first request is awaited by the application.)
PassOver ==
  /\ \/ r = "start" /\ Takes({"open", "broken_open", "data", "broken_data",
                              "close"})
     \/ r = "open" /\ Takes({"request", "bad_request", "broken_request",
                             "data", "broken_data", "close"})
     \/ r = "data" /\ Takes({"request", "bad_request", "broken_request",
                             "open", "broken_open"})
  /\ UNCHANGED <<fixed, sender, receiver, toS, link>>

\* Wrong variants: the temporary file stays; and the loop has no timeout.
ReceiverTimesOut_Leaves ==
  /\ pair.receiver = "vexmpp" /\ r \in ReceiverWaits
  /\ r' = "failed"
  /\ UNCHANGED <<fixed, sender, file, toR, toS, link>>

ReceiverTimesOut_OpenOnly ==
  /\ pair.receiver = "vexmpp" /\ r = "open"
  /\ r' = "failed" /\ Discard
  /\ UNCHANGED <<fixed, sender, stored, cut, toR, toS, link>>

\* In the loop, the timeout of wait() removes the file.
ReceiverTimesOut ==
  /\ pair.receiver = "vexmpp" /\ r \in ReceiverWaits
  /\ r' = "failed" /\ Discard
  /\ UNCHANGED <<fixed, sender, stored, cut, toR, toS, link>>

\* The application cancels receiveFile(): only a TimeoutError is caught.
ReceiverCancelled ==
  /\ pair.receiver = "vexmpp"
  /\ \/ r = "open" /\ r' = "failed"
     \/ r = "data" /\ r' = "raised"
  /\ UNCHANGED <<fixed, sender, file, toR, toS, link>>

\* Another receiver answers every request, keeps the blocks as they come and
\* gives up when it likes.
OtherReceives ==
  /\ pair.receiver = "other" /\ r \in {"start", "data"}
  /\ Arrived({"request", "open", "data", "close"})
  /\ LET m == Head(toR)
     IN \/ /\ Answer("result")
           /\ r' = IF m.name = "close" THEN "done" ELSE "data"
           /\ stored' = IF m.name = "data" THEN Append(stored, m.block)
                        ELSE stored
        \/ /\ \/ Answer("error")
              \/ m.name = "request" /\ Answer("unsupported")
           /\ r' = "failed"
           /\ UNCHANGED stored
  /\ UNCHANGED <<fixed, sender, cut, fd, tmp, link>>

-----------------------------------------------------------------------------
Sender ==
  \/ SendRequest \/ SenderRefused \/ SendOpen \/ SendBlock \/ SendClose
  \/ SenderEnds \/ SendRaises

Receiver ==
  \/ GetRequest \/ GetOpen \/ GetBlock \/ GetBrokenBlock \/ GetClose
  \/ PassOver

Next ==
  \/ Sender \/ SenderTimesOut \/ OtherSends
  \/ Receiver \/ ReceiverTimesOut \/ ReceiverCancelled \/ OtherReceives
  \/ Closes("sender") \/ Closes("receiver") \/ Disconnect

Spec == Init /\ [][Next]_vars

\* Both calls are given a timeout, and the loop runs tasks and timers.
FairSpec ==
  /\ Spec
  /\ WF_vars(Sender) /\ WF_vars(Receiver)
  /\ WF_vars(SenderTimesOut) /\ WF_vars(ReceiverTimesOut)

-----------------------------------------------------------------------------
(* Properties.                                                             *)

\* Every variable keeps its type (file_transfer.py).
TypeOK ==
  /\ pair \in Pairs /\ size \in Sizes /\ hash \in BOOLEAN
  /\ s \in SenderWaits \cup {"start", "done", "failed"}
  /\ r \in ReceiverWaits \cup {"start", "done", "failed", "raised"}
  /\ pair.sender = "vexmpp" => sent \in 0 .. size
  /\ \A i \in DOMAIN stored : stored[i] \in 0 .. size
  /\ {cut, fd, tmp} \subseteq BOOLEAN
  /\ link \in {"open", "sender", "receiver", "lost"}

\* Who has been told that the transfer is complete has the whole file, or
\* knows that the other end does: whatever was refused, lost or late on the
\* way (the answer to <close/>, File._verify).  File._verify knows what has
\* arrived and not what the disk has taken: a block that was cut is excepted.
DoneIsComplete ==
  /\ r = "done" /\ pair.receiver = "vexmpp" =>
       Len(stored) = size /\ (hash /\ ~cut => stored = File)
  /\ s = "done" => r = "done" /\ stored = File

\* ibbSendFile is never ahead of a receiver by more than the block under way:
\* the receiver holds the first blocks of the file in their order, and all
\* that the sender takes for accepted, until one of the two gives up.
AckedIsStored ==
  pair.sender = "vexmpp" =>
    /\ IsPrefix(stored, File)
    /\ Len(stored) <= sent
    /\ s \in {"data", "close", "done"} /\ r \in {"data", "done"} =>
         Len(stored) + (IF s = "data" THEN 1 ELSE 0) >= sent

\* receiveFile() leaves no file after what it expects to go wrong, a refused
\* block, a file that is not as announced, a timeout, an unreadable stanza;
\* and no descriptor when it returns.  What it does not expect, a failing
\* write(), send() or a cancellation once the file is open, leaves the file
\* behind, and the descriptor where it was still open.  In no case is there
\* more on the disk than the caller allows (File.close, addBlock).
DiskIsClean ==
  pair.receiver = "vexmpp" =>
    /\ tmp <=> r \in {"data", "done", "raised"}
    /\ fd => tmp
    /\ r = "data" => fd
    /\ r = "done" => ~fd
    /\ MaxSize > 0 => Len(stored) <= MaxSize

\* With timeouts neither end waits for ever, not even for the answer to the
\* second <open/> or to a <close/> that was not accepted.
EveryoneEnds ==
  /\ s \in SenderWaits ~> s \in {"done", "failed"}
  /\ r \in ReceiverWaits /\ pair.receiver = "vexmpp" ~>
       r \in {"done", "failed", "raised"}
=============================================================================
