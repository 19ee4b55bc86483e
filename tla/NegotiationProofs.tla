-------------------------- MODULE NegotiationProofs --------------------------
(***************************************************************************)
(* Proofs about Negotiation, for every client, any number of challenges    *)
(* and any stanzas that answer nothing.  What negotiate() decides by has   *)
(* been sent long before it is read; the inductive invariant IInv says     *)
(* what may be on the way: the answer to the request that was made last,   *)
(* once and unaltered, or the request, and otherwise noise.                *)
(***************************************************************************)
EXTENDS Negotiation, SequenceTheorems, TLAPS

Noise(x) == x.name \in {"other", "stream_error"}
Noisy(q) == \A i \in 1 .. Len(q) : Noise(q[i])

Names == {"header", "features", "proceed", "failure", "form", "registered", "success",
          "challenge", "bound", "session", "enabled", "failed", "other", "stream_error"}
Requests == {"header", "starttls", "get_form", "set_form", "auth", "response", "bind",
             "session", "enable"}

Stanzas == [name : Names, body : SUBSET (Features \cup Resources \cup {"ok"})]

Types ==
  /\ TypeOK
  /\ queue \in Seq(Stanzas) /\ net \in Seq(Stanzas)
  /\ request \in Requests \cup {"none"}
  /\ exposed \subseteq Requests

\* What a wait() may have asked for.
RequestOf ==
  [header |-> {"header"}, features |-> {}, proceed |-> {"starttls"},
   form |-> {"get_form"}, registered |-> {"set_form"}, sasl |-> {"auth", "response"},
   bind |-> {"bind"}, session |-> {"session"}, sm |-> {"enable"}]

\* The server has been asked for what negotiate() waits for, or for nothing;
\* once negotiate() has given up, for whatever it waited for.
RequestFits ==
  /\ pc \in Waits => request \in RequestOf[pc] \cup {"none"}
  /\ pc \notin Waits \cup {"error"} => request = "none"

\* x is noise, or what negotiate() waits for, and says what the server means.
Fits(x) ==
  /\ \/ Noise(x) \/ pc = "error"
     \/ pc \in Waits /\ x.name \in Awaited[pc]
     \/ pc = "header" /\ x.name = "features"
  /\ x.name = "features" => x.body = offered
  /\ x.name = "success" => "auth" \in agreed
  /\ x.name = "bound" => x.body \in {{}, {bound}}
  /\ x.name = "session" => x.body = {} \/ "session" \in agreed
  /\ x.name = "enabled" => "sm" \in agreed

StanzasFit ==
  /\ \A i \in 1 .. Len(queue) : Fits(queue[i])
  /\ \A i \in 1 .. Len(net) : Fits(net[i])

\* A request and its answer are never both on the way, and no two answers are,
\* but for the header and the features.
Follows(x, y) == Noise(x) \/ Noise(y) \/ (x.name = "header" /\ y.name = "features")

OneAnswer ==
  /\ request # "none" => Noisy(queue) /\ Noisy(net)
  /\ \A i, j \in 1 .. Len(queue) : i < j => Follows(queue[i], queue[j])
  /\ \A i, j \in 1 .. Len(net) : i < j => Follows(net[i], net[j])
  /\ \A i \in 1 .. Len(queue), j \in 1 .. Len(net) : Follows(queue[i], net[j])

\* Before the header of a new document the server sends nothing, and the last
\* stanza of the old one has been parsed.
Ends(x) == x.name \in {"proceed", "success"}

Documents ==
  /\ parser # "dead"
  /\ \A i \in 1 .. Len(net) : net[i].name = "header" <=> (i = 1 /\ parser = "fresh")
  /\ request = "header" => parser = "fresh" /\ net = <<>> /\ srv # "open"
  /\ srv = "open" => parser = "open" \/ net # <<>>
  /\ \A i \in 1 .. Len(queue) : Ends(queue[i]) => i = Len(queue) /\ net = <<>> /\ srv # "open"
  /\ \A i \in 1 .. Len(net) : Ends(net[i]) => i = Len(net) /\ srv # "open"
  /\ pc \in {"start", "handshake", "secured"} => net = <<>> /\ srv # "open"
  /\ pc = "start" => parser = "fresh"

NeedTls ==
  \/ opts.tls = "required"
  \/ tlsOffer = "required"
  \/ opts.tls = "on" /\ tlsOffer = "offered"

\* Until TLS is on or refused, the client has asked for nothing else; from
\* then on it is on, or there is no connection.
TlsFirst ==
  /\ pc = "start" => round = "plain"
  /\ pc \in {"start", "header", "features"} /\ round = "plain" =>
       tlsOffer = "none" /\ exposed \subseteq {"header"}
  /\ NeedTls =>
       \/ pc \in {"start", "proceed", "handshake", "error"}
       \/ pc \in {"header", "features"} /\ round = "plain"
       \/ tls \/ conn = "lost"

\* What the two ends have agreed on, by the stage negotiate() is in.
Agreement ==
  /\ conn # "lost" => (tls <=> "tls" \in agreed)
  /\ round = "auth" => "auth" \in agreed
  /\ pc \in {"bind", "session", "sm", "done"} => round = "auth"
  /\ pc \in {"session", "sm", "done"} => bound = resource
  /\ pc \notin {"session", "sm", "done", "error"} => "session" \notin agreed
  /\ pc = "session" => "session" \in feats
  /\ pc \in {"sm", "done"} => ("session" \in agreed <=> "session" \in feats)
  /\ pc \notin {"sm", "done", "error"} => "sm" \notin agreed
  /\ pc = "sm" => opts.sm /\ "sm" \in feats
  /\ pc = "done" => ("sm" \in agreed <=> opts.sm /\ "sm" \in feats)

IInv ==
  /\ Types /\ RequestFits /\ StanzasFit /\ OneAnswer /\ Documents
  /\ TlsFirst /\ CredentialsNeedTls /\ FeaturesAreFresh /\ Agreement

-----------------------------------------------------------------------------
(* Lemmas about what is on the way.                                        *)

\* What each wait() is for, and what it may have asked for.
LEMMA WaitsAre ==
  /\ Waits = {"header", "features", "proceed", "form", "registered", "sasl",
              "bind", "session", "sm"}
  /\ Awaited["header"] = {"header"} /\ Awaited["features"] = {"features"}
  /\ Awaited["proceed"] = {"proceed", "failure"}
  /\ Awaited["form"] = {"form"} /\ Awaited["registered"] = {"registered"}
  /\ Awaited["sasl"] = {"success", "failure", "challenge"}
  /\ Awaited["bind"] = {"bound"} /\ Awaited["session"] = {"session"}
  /\ Awaited["sm"] = {"enabled", "failed"}
  /\ RequestOf["header"] = {"header"} /\ RequestOf["features"] = {}
  /\ RequestOf["proceed"] = {"starttls"} /\ RequestOf["form"] = {"get_form"}
  /\ RequestOf["registered"] = {"set_form"}
  /\ RequestOf["sasl"] = {"auth", "response"} /\ RequestOf["bind"] = {"bind"}
  /\ RequestOf["session"] = {"session"} /\ RequestOf["sm"] = {"enable"}
BY DEF Waits, Awaited, RequestOf

\* What is left when the first element is taken.
LEMMA Rest ==
  ASSUME NEW S, NEW q \in Seq(S), q # <<>>
  PROVE  /\ Tail(q) \in Seq(S) /\ Len(q) \in Nat /\ Len(q) >= 1
         /\ Len(Tail(q)) = Len(q) - 1
         /\ Head(q) = q[1] /\ q[1] \in S
         /\ \A i \in 1 .. Len(Tail(q)) : i + 1 \in 1 .. Len(q) /\ Tail(q)[i] = q[i + 1]
<1>1. Len(q) \in Nat /\ Len(q) >= 1
  BY EmptySeq, LenProperties
<1> QED
  BY <1>1

\* What there is when one is put behind the others.
LEMMA Added ==
  ASSUME NEW S, NEW q \in Seq(S), NEW x \in S
  PROVE  /\ Append(q, x) \in Seq(S) /\ q \o <<x>> = Append(q, x)
         /\ Len(Append(q, x)) = Len(q) + 1 /\ Len(q) \in Nat
         /\ Append(q, x)[Len(q) + 1] = x
         /\ \A i \in 1 .. Len(q) : Append(q, x)[i] = q[i]
         /\ \A i \in 1 .. Len(Append(q, x)) : i \in 1 .. Len(q) \/ i = Len(q) + 1
<1>1. q \o <<x>> = Append(q, x)
  BY AppendIsConcat
<1> QED
  BY <1>1, AppendProperties, LenProperties

\* Noise fits, and is in nobody's way.
LEMMA NoiseFits ==
  ASSUME Noisy(queue)', Noisy(net)'
  PROVE  StanzasFit' /\ OneAnswer'
<1>1. ASSUME NEW x, Noise(x)
      PROVE  Fits(x)' /\ x.name \notin {"features", "header", "success", "proceed"}
  BY <1>1 DEF Noise, Fits
<1>2. StanzasFit'
  BY <1>1 DEF StanzasFit, Noisy
<1>3. OneAnswer'
  BY DEF OneAnswer, Noisy, Follows
<1> QED
  BY <1>2, <1>3

\* wait() returns s: unless s is the header, nothing else is on the way.
LEMMA Received ==
  ASSUME IInv, NEW x, Receive(x)
  PROVE  /\ x \in Stanzas /\ x.name \in Awaited[pc] /\ pc \in Waits /\ request = "none"
         /\ queue' \in Seq(Stanzas)
         /\ \A i \in 1 .. Len(queue') : i + 1 \in 1 .. Len(queue) /\ queue'[i] = queue[i + 1]
         /\ Fits(x)
         /\ x.name # "header" => Noisy(queue)' /\ Noisy(net)
         /\ \A i \in 1 .. Len(queue') : Follows(x, queue'[i])
         /\ \A i \in 1 .. Len(net) : Follows(x, net[i])
         /\ Ends(x) => queue' = <<>> /\ net = <<>> /\ srv # "open"
<1>1. /\ queue \in Seq(Stanzas) /\ queue # <<>> /\ queue' = Tail(queue)
      /\ x = Head(queue) /\ pc \in Waits /\ x.name \in Awaited[pc]
  BY DEF Receive, IInv, Types
<1>2. /\ queue' \in Seq(Stanzas) /\ x = queue[1] /\ x \in Stanzas
      /\ Len(queue) \in Nat /\ Len(queue) >= 1 /\ Len(queue') = Len(queue) - 1
      /\ \A i \in 1 .. Len(queue') : i + 1 \in 1 .. Len(queue) /\ queue'[i] = queue[i + 1]
  BY <1>1, Rest
<1>3. ~Noise(x)
  BY <1>1, WaitsAre DEF Noise
<1>4. 1 \in 1 .. Len(queue)
  BY <1>2
<1>5. request = "none"
  BY <1>2, <1>3, <1>4 DEF IInv, OneAnswer, Noisy
<1>6. Fits(x)
  BY <1>2, <1>4 DEF IInv, StanzasFit
<1>7. \A i \in 1 .. Len(queue') : Follows(x, queue'[i])
  <2> TAKE i \in 1 .. Len(queue')
  <2>1. i + 1 \in 1 .. Len(queue) /\ queue'[i] = queue[i + 1] /\ 1 < i + 1
    BY <1>2
  <2> QED
    BY <2>1, <1>2, <1>4 DEF IInv, OneAnswer
<1>8. \A i \in 1 .. Len(net) : Follows(x, net[i])
  BY <1>2, <1>4 DEF IInv, OneAnswer
<1>9. x.name # "header" => Noisy(queue)' /\ Noisy(net)
  BY <1>3, <1>7, <1>8 DEF Follows, Noisy
<1>10. Ends(x) => queue' = <<>> /\ net = <<>> /\ srv # "open"
  <2> SUFFICES ASSUME Ends(x) PROVE queue' = <<>> /\ net = <<>> /\ srv # "open"
    OBVIOUS
  <2>1. 1 = Len(queue) /\ net = <<>> /\ srv # "open"
    BY <1>2, <1>4 DEF IInv, Documents
  <2> QED
    BY <2>1, <1>2, EmptySeq
<1> QED
  BY <1>1, <1>2, <1>5, <1>6, <1>7, <1>8, <1>9, <1>10

\* send() and the wait() for the answer: what may be asked for in plain text
\* is asked for only where TLS is off.
LEMMA Sent ==
  ASSUME IInv, request = "none", NEW what \in Requests, NEW for \in Waits,
         what \in RequestOf[for], SendThenWait(what, for)
  PROVE  /\ pc' \in {for, "error"} /\ request' \in {what, "none"} /\ RequestFits'
         /\ request' \in Requests \cup {"none"}
         /\ exposed' \subseteq exposed \cup {what} /\ exposed' \subseteq Requests
         /\ exposed' = exposed \/ (conn = "open" /\ ~tls)
<1>1. exposed \subseteq Requests
  BY DEF IInv, Types
<1>2. CASE pc' = "error" /\ UNCHANGED <<request, exposed>>
  BY <1>1, <1>2, WaitsAre DEF RequestFits
<1>3. CASE /\ pc' = for
           /\ request' = IF conn = "open" THEN what ELSE request
           /\ exposed' = IF conn = "open" /\ ~tls THEN exposed \cup {what} ELSE exposed
  <2>1. request' \in {what, "none"} /\ request' \in Requests \cup {"none"}
    BY <1>3
  <2>2. RequestFits'
    BY <1>3, <2>1 DEF RequestFits
  <2>3. /\ exposed' \subseteq exposed \cup {what} /\ exposed' \subseteq Requests
        /\ exposed' = exposed \/ (conn = "open" /\ ~tls)
    BY <1>1, <1>3
  <2> QED
    BY <1>3, <2>1, <2>2, <2>3
<1> QED
  BY <1>2, <1>3 DEF SendThenWait, Fail

\* negotiate() gives up.
LEMMA Failed ==
  ASSUME IInv, request = "none", Fail
  PROVE  /\ pc' = "error" /\ request' = "none" /\ RequestFits' /\ exposed' = exposed
         /\ request' \in Requests \cup {"none"}
         /\ exposed' \subseteq Requests
BY WaitsAre DEF Fail, RequestFits, IInv, Types

\* After the question of TLS is settled: what is asked for then is exposed
\* only to a server that was not to be asked over TLS.
LEMMA Secret ==
  ASSUME IInv, pc \notin {"start", "proceed", "handshake", "error"},
         ~(pc \in {"header", "features"} /\ round = "plain"),
         UNCHANGED <<opts, tls, conn, tlsOffer>>, pc' # "start",
         round' = "plain" => pc' \notin {"header", "features"},
         exposed' = exposed \/ (conn = "open" /\ ~tls)
  PROVE  TlsFirst' /\ CredentialsNeedTls'
<1>1. NeedTls' <=> NeedTls
  BY DEF NeedTls
<1>2. NeedTls => tls \/ conn = "lost"
  BY DEF IInv, TlsFirst
<1>3. NeedTls => exposed' = exposed
  BY <1>2
<1>4. CredentialsNeedTls'
  BY <1>1, <1>3 DEF CredentialsNeedTls, NeedTls, IInv
<1>5. TlsFirst'
  BY <1>1, <1>2 DEF TlsFirst
<1> QED
  BY <1>4, <1>5

\* A turn of negotiate() within a document.
LEMMA SameDocument ==
  ASSUME IInv, UNCHANGED <<net, parser, srv>>, Noisy(queue)', request' # "header",
         pc' \notin {"start", "handshake", "secured"}
  PROVE  Documents'
<1>1. \A i \in 1 .. Len(queue') : ~Ends(queue'[i])
  BY DEF Noisy, Noise, Ends
<1> QED
  BY <1>1 DEF Documents, IInv

\* A turn of negotiate() that begins a document.
LEMMA NewDocument ==
  ASSUME net = <<>>, srv # "open", UNCHANGED <<net, srv>>, parser' = "fresh", Noisy(queue)'
  PROVE  Documents'
<1>1. \A i \in 1 .. Len(queue') : ~Ends(queue'[i])
  BY DEF Noisy, Noise, Ends
<1>2. 1 .. Len(net') = {}
  BY EmptySeq
<1> QED
  BY <1>1, <1>2 DEF Documents

-----------------------------------------------------------------------------
(* The turns of negotiate().                                               *)

LEMMA Idle ==
  ASSUME IInv, pc \notin Waits \cup {"error"}
  PROVE  Noisy(queue) /\ request = "none"
<1>1. ASSUME NEW x, Fits(x)
      PROVE  Noise(x)
  BY <1>1, WaitsAre DEF Fits
<1> QED
  BY <1>1 DEF Noisy, IInv, StanzasFit, RequestFits

LEMMA BeginStep ==
  ASSUME IInv, Begin
  PROVE  IInv'
<1>1. /\ pc = "start" /\ SendThenWait("header", "header")
      /\ UNCHANGED <<opts, round, feats, resource, tls, conn, parser, queue, net, srv,
                     agreed, offered, bound, chatter, tlsOffer>>
  BY DEF Begin, link, server
<1>2. /\ net = <<>> /\ srv # "open" /\ parser = "fresh" /\ Noisy(queue) /\ request = "none"
      /\ Noisy(net)
  BY <1>1, Idle, WaitsAre, EmptySeq DEF IInv, Documents, Noisy
<1>3. /\ pc' \in {"header", "error"} /\ request' \in {"header", "none"} /\ RequestFits'
      /\ exposed' \subseteq exposed \cup {"header"} /\ exposed' \subseteq Requests
      /\ request' \in Requests \cup {"none"}
  BY <1>1, <1>2, Sent, WaitsAre DEF Requests
<1>4. Noisy(queue)' /\ Noisy(net)'
  BY <1>1, <1>2 DEF Noisy
<1>5. StanzasFit' /\ OneAnswer'
  BY <1>4, NoiseFits
<1>6. Documents'
  BY <1>1, <1>2, <1>4, NewDocument
<1>7. round = "plain" /\ tlsOffer = "none" /\ exposed \subseteq {"header"}
  BY <1>1 DEF IInv, TlsFirst
<1>8. TlsFirst' /\ CredentialsNeedTls'
  BY <1>1, <1>3, <1>7 DEF TlsFirst, CredentialsNeedTls
<1>9. Types'
  BY <1>1, <1>3, WaitsAre DEF IInv, Types, TypeOK, Ended
<1>10. FeaturesAreFresh' /\ Agreement'
  BY <1>1, <1>3, WaitsAre DEF IInv, FeaturesAreFresh, Agreement
<1> QED
  BY <1>3, <1>5, <1>6, <1>8, <1>9, <1>10 DEF IInv

LEMMA GetHeaderStep ==
  ASSUME IInv, GetHeader
  PROVE  IInv'
<1> DEFINE h == Stanza("header", {})
<1>1. /\ pc = "header" /\ Receive(h) /\ pc' = "features" /\ h.name = "header"
      /\ UNCHANGED <<opts, round, feats, resource, tls, conn, parser, net, request, srv,
                     agreed, offered, bound, chatter, exposed, tlsOffer>>
  BY DEF GetHeader, link, server, history, Stanza
<1>2. /\ request = "none" /\ queue' \in Seq(Stanzas)
      /\ \A i \in 1 .. Len(queue') : i + 1 \in 1 .. Len(queue) /\ queue'[i] = queue[i + 1]
      /\ \A i \in 1 .. Len(queue') : Follows(h, queue'[i])
      /\ \A i \in 1 .. Len(net) : Follows(h, net[i])
  BY <1>1, Received
<1>3. ASSUME NEW x, Follows(h, x), Fits(x)
      PROVE  Fits(x)'
  <2>1. Noise(x) \/ x.name = "features"
    BY <1>1, <1>3 DEF Follows, Noise
  <2>2. (Noise(x) \/ pc = "error" \/ (pc \in Waits /\ x.name \in Awaited[pc])
         \/ (pc = "header" /\ x.name = "features"))'
    BY <1>1, <2>1, WaitsAre
  <2> QED
    BY <1>1, <1>3, <2>2 DEF Fits
<1>4. StanzasFit'
  BY <1>1, <1>2, <1>3 DEF IInv, StanzasFit
<1>5. OneAnswer'
  <2>1. \A i, j \in 1 .. Len(queue') : i < j => Follows(queue'[i], queue'[j])
    <3> TAKE i, j \in 1 .. Len(queue')
    <3> HAVE i < j
    <3>1. i + 1 < j + 1
      OBVIOUS
    <3> QED
      BY <3>1, <1>2 DEF IInv, OneAnswer
  <2>2. \A i \in 1 .. Len(queue'), j \in 1 .. Len(net') : Follows(queue'[i], net'[j])
    BY <1>1, <1>2 DEF IInv, OneAnswer
  <2> QED
    BY <1>1, <1>2, <2>1, <2>2 DEF IInv, OneAnswer
<1>6. Documents'
  <2>1. \A i \in 1 .. Len(queue') : ~Ends(queue'[i])
    BY <1>1, <1>2 DEF Follows, Noise, Ends
  <2> QED
    BY <1>1, <1>2, <2>1 DEF IInv, Documents
<1>7. TlsFirst' /\ CredentialsNeedTls'
  BY <1>1 DEF IInv, TlsFirst, NeedTls, CredentialsNeedTls
<1>8. Types'
  BY <1>1, <1>2, WaitsAre DEF IInv, Types, TypeOK
<1>9. FeaturesAreFresh' /\ Agreement' /\ RequestFits'
  BY <1>1, <1>2, WaitsAre DEF IInv, FeaturesAreFresh, Agreement, RequestFits
<1> QED
  BY <1>4, <1>5, <1>6, <1>7, <1>8, <1>9 DEF IInv

\* What every turn leaves of the invariant that receives anything but the
\* header and stays within the document.
LEMMA Turn ==
  ASSUME IInv, NEW x, Receive(x), x.name # "header",
         UNCHANGED <<net, parser, srv, opts, tls, conn, agreed, offered, bound>>,
         pc' \in Waits \cup Ended, round' \in {"plain", "tls", "auth"},
         feats' \subseteq Features, resource' \in Resources,
         tlsOffer' \in {"none", "offered", "required"},
         request' \in Requests \cup {"none"}, request' # "header",
         exposed' \subseteq Requests
  PROVE  Types' /\ StanzasFit' /\ OneAnswer' /\ Documents'
<1>1. queue' \in Seq(Stanzas) /\ Noisy(queue)' /\ Noisy(net)
  BY Received
<1>2. Noisy(net)'
  BY <1>1 DEF Noisy
<1>3. StanzasFit' /\ OneAnswer'
  BY <1>1, <1>2, NoiseFits
<1>4. pc' \notin {"start", "handshake", "secured"}
  BY WaitsAre DEF Ended
<1>5. Documents'
  BY <1>1, <1>4, SameDocument
<1>6. Types'
  BY <1>1 DEF IInv, Types, TypeOK
<1> QED
  BY <1>3, <1>5, <1>6

\* The features that are received are those the server sent last.
LEMMA FeaturesReceived ==
  ASSUME IInv, NEW fs \in SUBSET Features, Receive(Stanza("features", fs))
  PROVE  fs = offered /\ request = "none" /\ Stanza("features", fs).name # "header"
<1>1. Stanza("features", fs).name = "features" /\ Stanza("features", fs).body = fs
  BY DEF Stanza
<1> QED
  BY <1>1, Received DEF Fits

\* sasl.handle() and register.handle() ask for what they wait for, or raise.
LEMMA Asked ==
  ASSUME IInv, request = "none", NEW fs, AfterTls(fs) \/ Authenticate(fs)
  PROVE  /\ pc' \in {"form", "sasl", "error"} /\ RequestFits'
         /\ request' \in Requests \cup {"none"} /\ request' # "header"
         /\ exposed' \subseteq Requests
         /\ exposed' = exposed \/ (conn = "open" /\ ~tls)
<1>1. \/ SendThenWait("get_form", "form") \/ SendThenWait("auth", "sasl") \/ Fail
  BY DEF AfterTls, Authenticate
<1>2. CASE SendThenWait("get_form", "form")
  BY <1>2, Sent, WaitsAre DEF Requests
<1>3. CASE SendThenWait("auth", "sasl")
  BY <1>3, Sent, WaitsAre DEF Requests
<1>4. CASE Fail
  BY <1>4, Failed
<1> QED
  BY <1>1, <1>2, <1>3, <1>4

\* Before authentication, what has been agreed on is not what
\* negotiate() goes on to ask for.
LEMMA Before ==
  ASSUME IInv, pc \in {"features", "form", "registered", "sasl"},
         pc' \in {"proceed", "form", "registered", "sasl", "bind", "error"},
         pc' = "bind" => round = "auth",
         UNCHANGED <<round, tls, conn, agreed>>,
         feats' = offered', UNCHANGED offered
  PROVE  Agreement' /\ FeaturesAreFresh'
BY DEF IInv, Agreement, FeaturesAreFresh

LEMMA GetFirstFeaturesStep ==
  ASSUME IInv, GetFirstFeatures
  PROVE  IInv'
<1>1. PICK fs \in SUBSET Features :
        /\ Receive(Stanza("features", fs))
        /\ feats' = fs
        /\ tlsOffer' = IF "starttls" \notin fs THEN "none"
                       ELSE IF "required" \in fs THEN "required" ELSE "offered"
        /\ IF TlsRefused(fs) THEN Fail
           ELSE IF UseTls(fs) THEN SendThenWait("starttls", "proceed")
           ELSE AfterTls(fs)
  BY DEF GetFirstFeatures
<1>2. /\ pc = "features" /\ round = "plain"
      /\ UNCHANGED <<opts, round, resource, tls, conn, parser, net, srv, agreed, offered,
                     bound>>
  BY DEF GetFirstFeatures, link, server
<1>3. fs = offered /\ request = "none" /\ Stanza("features", fs).name # "header"
  BY <1>1, FeaturesReceived
<1>4. exposed \subseteq {"header"}
  BY <1>2 DEF IInv, TlsFirst
<1>5. ASSUME SendThenWait("starttls", "proceed"), UseTls(fs), ~TlsRefused(fs)
      PROVE  /\ pc' \in {"proceed", "error"} /\ request' \in Requests \cup {"none"}
             /\ request' # "header" /\ RequestFits'
             /\ exposed' \subseteq {"header", "starttls"} /\ exposed' \subseteq Requests
  <2>1. /\ pc' \in {"proceed", "error"} /\ request' \in {"starttls", "none"} /\ RequestFits'
        /\ exposed' \subseteq exposed \cup {"starttls"} /\ exposed' \subseteq Requests
        /\ request' \in Requests \cup {"none"}
    BY <1>3, <1>5, Sent, WaitsAre DEF Requests
  <2> QED
    BY <2>1, <1>4
<1>6. ASSUME AfterTls(fs)
      PROVE  /\ pc' \in {"form", "sasl", "error"} /\ RequestFits'
             /\ request' \in Requests \cup {"none"} /\ request' # "header"
             /\ exposed' \subseteq Requests
  BY <1>3, <1>6, Asked
<1>7. /\ pc' \in {"proceed", "form", "sasl", "error"} /\ request' \in Requests \cup {"none"}
      /\ request' # "header" /\ RequestFits' /\ exposed' \subseteq Requests
  BY <1>1, <1>3, <1>5, <1>6, Failed
<1>8. Types' /\ StanzasFit' /\ OneAnswer' /\ Documents'
  <2>1. pc' \in Waits \cup Ended /\ tlsOffer' \in {"none", "offered", "required"}
    BY <1>1, <1>7, WaitsAre DEF Ended
  <2>2. round' \in {"plain", "tls", "auth"} /\ resource' \in Resources
    BY <1>2 DEF IInv, Types, TypeOK
  <2> QED
    BY <1>1, <1>2, <1>3, <1>7, <2>1, <2>2, Turn
<1>9. Agreement' /\ FeaturesAreFresh'
  BY <1>1, <1>2, <1>3, <1>7, Before
<1>10. opts.tls \in {"off", "on", "required"}
  BY NegotiationAssumption DEF IInv, Types, TypeOK
<1>11. /\ NeedTls' => pc' \in {"proceed", "error"}
       /\ NeedTls' => exposed' \subseteq {"header", "starttls"}
  <2>1. CASE TlsRefused(fs)
    BY <2>1, <1>1, <1>3, <1>4, Failed
  <2>2. CASE ~TlsRefused(fs) /\ UseTls(fs)
    BY <2>2, <1>1, <1>5
  <2>3. CASE ~TlsRefused(fs) /\ ~UseTls(fs)
    BY <2>3, <1>1, <1>2, <1>10 DEF TlsRefused, UseTls, NeedTls
  <2> QED
    BY <2>1, <2>2, <2>3
<1>12. TlsFirst' /\ CredentialsNeedTls'
  BY <1>7, <1>11 DEF TlsFirst, CredentialsNeedTls, NeedTls
<1> QED
  BY <1>7, <1>8, <1>9, <1>12 DEF IInv

LEMMA GetTlsFeaturesStep ==
  ASSUME IInv, GetTlsFeatures
  PROVE  IInv'
<1>1. PICK fs \in SUBSET Features : /\ Receive(Stanza("features", fs))
                                    /\ feats' = fs /\ AfterTls(fs)
  BY DEF GetTlsFeatures
<1>2. /\ pc = "features" /\ round = "tls"
      /\ UNCHANGED <<opts, round, resource, tls, conn, parser, net, srv, agreed, offered,
                     bound, tlsOffer>>
  BY DEF GetTlsFeatures, link, server
<1>3. fs = offered /\ request = "none" /\ Stanza("features", fs).name # "header"
  BY <1>1, FeaturesReceived
<1>4. /\ pc' \in {"form", "sasl", "error"} /\ RequestFits'
      /\ request' \in Requests \cup {"none"} /\ request' # "header"
      /\ exposed' \subseteq Requests
      /\ exposed' = exposed \/ (conn = "open" /\ ~tls)
  BY <1>1, <1>3, Asked
<1>5. Types' /\ StanzasFit' /\ OneAnswer' /\ Documents'
  <2>1. pc' \in Waits \cup Ended
    BY <1>4, WaitsAre DEF Ended
  <2>2. /\ round' \in {"plain", "tls", "auth"} /\ resource' \in Resources
        /\ tlsOffer' \in {"none", "offered", "required"}
    BY <1>2 DEF IInv, Types, TypeOK
  <2> QED
    BY <1>1, <1>2, <1>3, <1>4, <2>1, <2>2, Turn
<1>6. Agreement' /\ FeaturesAreFresh'
  BY <1>1, <1>2, <1>3, <1>4, Before
<1>7. TlsFirst' /\ CredentialsNeedTls'
  BY <1>2, <1>4, Secret
<1> QED
  BY <1>4, <1>5, <1>6, <1>7 DEF IInv

LEMMA GetAuthFeaturesStep ==
  ASSUME IInv, GetAuthFeatures
  PROVE  IInv'
<1>1. PICK fs \in SUBSET Features :
        /\ Receive(Stanza("features", fs)) /\ feats' = fs
        /\ IF "bind" \in fs THEN SendThenWait("bind", "bind") ELSE Fail
  BY DEF GetAuthFeatures
<1>2. /\ pc = "features" /\ round = "auth"
      /\ UNCHANGED <<opts, round, resource, tls, conn, parser, net, srv, agreed, offered,
                     bound, tlsOffer>>
  BY DEF GetAuthFeatures, link, server
<1>3. fs = offered /\ request = "none" /\ Stanza("features", fs).name # "header"
  BY <1>1, FeaturesReceived
<1>4. /\ pc' \in {"bind", "error"} /\ RequestFits'
      /\ request' \in Requests \cup {"none"} /\ request' # "header"
      /\ exposed' \subseteq Requests
      /\ exposed' = exposed \/ (conn = "open" /\ ~tls)
  <2>1. CASE SendThenWait("bind", "bind")
    BY <2>1, <1>3, Sent, WaitsAre DEF Requests
  <2>2. CASE Fail
    BY <2>2, <1>3, Failed
  <2> QED
    BY <1>1, <2>1, <2>2
<1>5. Types' /\ StanzasFit' /\ OneAnswer' /\ Documents'
  <2>1. pc' \in Waits \cup Ended
    BY <1>4, WaitsAre DEF Ended
  <2>2. /\ round' \in {"plain", "tls", "auth"} /\ resource' \in Resources
        /\ tlsOffer' \in {"none", "offered", "required"}
    BY <1>2 DEF IInv, Types, TypeOK
  <2> QED
    BY <1>1, <1>2, <1>3, <1>4, <2>1, <2>2, Turn
<1>6. Agreement' /\ FeaturesAreFresh'
  BY <1>1, <1>2, <1>3, <1>4, Before
<1>7. TlsFirst' /\ CredentialsNeedTls'
  BY <1>2, <1>4, Secret
<1> QED
  BY <1>4, <1>5, <1>6, <1>7 DEF IInv

\* A turn within a document is the work of these lemmas and of what
\* the two ends have agreed on.
LEMMA LaterTurn ==
  ASSUME IInv, NEW x, Receive(x), x.name # "header",
         UNCHANGED <<opts, round, feats, tls, conn, parser, net, srv, agreed, offered,
                     bound, tlsOffer>>,
         pc \in {"form", "registered", "sasl", "bind", "session", "sm"},
         pc' \in Waits \cup Ended, pc' \notin {"header", "features"},
         resource' \in Resources,
         request' \in Requests \cup {"none"}, request' # "header", RequestFits',
         exposed' \subseteq Requests, exposed' = exposed \/ (conn = "open" /\ ~tls),
         Agreement'
  PROVE  IInv'
<1>1. /\ round' \in {"plain", "tls", "auth"} /\ feats' \subseteq Features
      /\ tlsOffer' \in {"none", "offered", "required"}
  BY DEF IInv, Types, TypeOK
<1>2. Types' /\ StanzasFit' /\ OneAnswer' /\ Documents'
  BY <1>1, Turn
<1>3. pc' # "start"
  BY WaitsAre DEF Ended
<1>4. TlsFirst' /\ CredentialsNeedTls'
  BY <1>3, Secret
<1>5. FeaturesAreFresh'
  BY WaitsAre DEF IInv, FeaturesAreFresh
<1> QED
  BY <1>2, <1>4, <1>5 DEF IInv

LEMMA GetFormStep ==
  ASSUME IInv, GetForm
  PROVE  IInv'
<1>1. PICK body \in Granted :
        /\ Receive(Stanza("form", body))
        /\ SendThenWait("set_form", "registered") \/ Fail
  BY DEF GetForm
<1>2. /\ pc = "form" /\ Stanza("form", body).name # "header"
      /\ UNCHANGED <<opts, round, feats, resource, tls, conn, parser, net, srv, agreed,
                     offered, bound, tlsOffer>>
  BY DEF GetForm, link, server, Stanza
<1>3. request = "none" /\ resource' \in Resources
  BY <1>1, <1>2, Received DEF IInv, Types, TypeOK
<1>4. /\ pc' \in {"registered", "error"} /\ RequestFits'
      /\ request' \in Requests \cup {"none"} /\ request' # "header"
      /\ exposed' \subseteq Requests
      /\ exposed' = exposed \/ (conn = "open" /\ ~tls)
  BY <1>1, <1>3, Sent, Failed, WaitsAre DEF Requests
<1>5. Agreement'
  BY <1>2, <1>4 DEF IInv, Agreement
<1>6. pc' \in Waits \cup Ended
  BY <1>4, WaitsAre DEF Ended
<1> QED
  BY <1>1, <1>2, <1>3, <1>4, <1>5, <1>6, LaterTurn

LEMMA GetRegisteredStep ==
  ASSUME IInv, GetRegistered
  PROVE  IInv'
<1>1. PICK body \in Granted : Receive(Stanza("registered", body))
  BY DEF GetRegistered
<1>2. /\ pc = "registered" /\ Stanza("registered", body).name # "header"
      /\ Authenticate(feats)
      /\ UNCHANGED <<opts, round, feats, resource, tls, conn, parser, net, srv, agreed,
                     offered, bound, tlsOffer>>
  BY DEF GetRegistered, link, server, Stanza
<1>3. request = "none" /\ resource' \in Resources
  BY <1>1, <1>2, Received DEF IInv, Types, TypeOK
<1>4. /\ pc' \in {"form", "sasl", "error"} /\ RequestFits'
      /\ request' \in Requests \cup {"none"} /\ request' # "header"
      /\ exposed' \subseteq Requests
      /\ exposed' = exposed \/ (conn = "open" /\ ~tls)
  BY <1>2, <1>3, Asked
<1>5. Agreement'
  BY <1>2, <1>4 DEF IInv, Agreement
<1>6. pc' \in Waits \cup Ended
  BY <1>4, WaitsAre DEF Ended
<1> QED
  BY <1>1, <1>2, <1>3, <1>4, <1>5, <1>6, LaterTurn

\* _reopenStream(): the last stanza of the document has been received.
LEMMA Reopened ==
  ASSUME IInv, NEW why \in {"tls", "auth"}, Reopen(why), request = "none",
         net = <<>>, srv # "open", Noisy(queue)', queue' \in Seq(Stanzas),
         pc \in {"secured", "sasl"}, why = "auth" => "auth" \in agreed,
         UNCHANGED <<opts, feats, resource, tls, conn, net, srv, agreed, offered, bound,
                     chatter, tlsOffer>>
  PROVE  IInv'
<1>1. parser' = "fresh" /\ round' = why /\ SendThenWait("header", "header")
  BY DEF Reopen
<1>2. /\ pc' \in {"header", "error"} /\ request' \in {"header", "none"} /\ RequestFits'
      /\ request' \in Requests \cup {"none"} /\ exposed' \subseteq Requests
      /\ exposed' = exposed \/ (conn = "open" /\ ~tls)
  BY <1>1, Sent, WaitsAre DEF Requests
<1>3. Noisy(net)'
  BY EmptySeq DEF Noisy
<1>4. StanzasFit' /\ OneAnswer'
  BY <1>3, NoiseFits
<1>5. Documents'
  BY <1>1, NewDocument
<1>6. TlsFirst' /\ CredentialsNeedTls'
  BY <1>1, <1>2, Secret
<1>7. Types'
  <2>1. pc' \in Waits \cup Ended \cup {"start", "handshake", "secured"}
    BY <1>2, WaitsAre DEF Ended
  <2> QED
    BY <1>1, <1>2, <2>1 DEF IInv, Types, TypeOK
<1>8. FeaturesAreFresh'
  BY <1>2, WaitsAre DEF FeaturesAreFresh
<1>9. Agreement'
  BY <1>1, <1>2 DEF IInv, Agreement
<1> QED
  BY <1>2, <1>4, <1>5, <1>6, <1>7, <1>8, <1>9 DEF IInv

LEMMA GetSaslStep ==
  ASSUME IInv, GetSasl
  PROVE  IInv'
<1>1. PICK name \in {"success", "failure", "challenge"} :
        /\ Receive(Stanza(name, {}))
        /\ CASE name = "success" -> Reopen("auth")
             [] name = "failure" -> Fail /\ UNCHANGED <<round, parser>>
             [] name = "challenge" ->
                  /\ SendThenWait("response", "sasl") \/ Fail
                  /\ UNCHANGED <<round, parser>>
  BY WaitsAre DEF GetSasl
<1>2. /\ pc = "sasl" /\ Stanza(name, {}).name = name
      /\ UNCHANGED <<opts, feats, resource, tls, conn, net, srv, agreed, offered, bound,
                     chatter, tlsOffer>>
  BY DEF GetSasl, server, Stanza
<1>3. /\ request = "none" /\ resource' \in Resources /\ name # "header"
      /\ Noisy(queue)' /\ queue' \in Seq(Stanzas) /\ Fits(Stanza(name, {}))
      /\ Ends(Stanza(name, {})) => net = <<>> /\ srv # "open"
  BY <1>1, <1>2, Received DEF IInv, Types, TypeOK
<1>4. CASE name = "success"
  <2>1. net = <<>> /\ srv # "open" /\ "auth" \in agreed
    BY <1>2, <1>3, <1>4 DEF Ends, Fits
  <2> QED
    BY <1>1, <1>2, <1>3, <1>4, <2>1, Reopened
<1>5. CASE name # "success"
  <2>1. SendThenWait("response", "sasl") \/ Fail
    BY <1>1, <1>5
  <2>2. UNCHANGED <<round, parser>>
    BY <1>1, <1>5
  <2>3. /\ pc' \in {"sasl", "error"} /\ RequestFits'
        /\ request' \in Requests \cup {"none"} /\ request' # "header"
        /\ exposed' \subseteq Requests
        /\ exposed' = exposed \/ (conn = "open" /\ ~tls)
    BY <1>3, <2>1, Sent, Failed, WaitsAre DEF Requests
  <2>4. Agreement'
    BY <1>2, <2>2, <2>3 DEF IInv, Agreement
  <2>5. pc' \in Waits \cup Ended
    BY <2>3, WaitsAre DEF Ended
  <2> QED
    BY <1>1, <1>2, <1>3, <2>2, <2>3, <2>4, <2>5, LaterTurn
<1> QED
  BY <1>4, <1>5

\* What follows the answer to bind, or to session: the features decide.
LEMMA Bound ==
  ASSUME IInv, request = "none", AfterBind
  PROVE  /\ pc' \in {"sm", "done", "error"} /\ RequestFits'
         /\ pc' = "sm" => opts.sm /\ "sm" \in feats
         /\ pc' = "done" => ~(opts.sm /\ "sm" \in feats)
         /\ request' \in Requests \cup {"none"} /\ request' # "header"
         /\ exposed' \subseteq Requests
         /\ exposed' = exposed \/ (conn = "open" /\ ~tls)
<1>1. CASE "sm" \in feats /\ opts.sm
  <2>1. SendThenWait("enable", "sm")
    BY <1>1 DEF AfterBind
  <2> QED
    BY <1>1, <2>1, Sent, WaitsAre DEF Requests
<1>2. CASE ~("sm" \in feats /\ opts.sm)
  <2>1. pc' = "done" /\ UNCHANGED <<request, exposed>>
    BY <1>2 DEF AfterBind
  <2> QED
    BY <1>2, <2>1, WaitsAre DEF RequestFits, IInv, Types
<1> QED
  BY <1>1, <1>2

LEMMA GetBoundStep ==
  ASSUME IInv, GetBound
  PROVE  IInv'
<1>1. /\ pc = "bind"
      /\ UNCHANGED <<opts, round, feats, tls, conn, parser, net, srv, agreed,
                     offered, bound, tlsOffer>>
  BY DEF GetBound, link, server
<1>2. /\ resource \in Resources /\ "session" \notin agreed /\ "sm" \notin agreed
      /\ round = "auth"
  BY <1>1 DEF IInv, Types, TypeOK, Agreement
<1>3. CASE Receive(Stanza("bound", {})) /\ Fail /\ UNCHANGED resource
  <2>1. request = "none" /\ Stanza("bound", {}).name # "header"
    BY <1>3, Received DEF Stanza
  <2>2. /\ pc' = "error" /\ RequestFits' /\ exposed' = exposed
        /\ request' = "none" /\ request' \in Requests \cup {"none"}
        /\ exposed' \subseteq Requests
    BY <1>3, <2>1, Failed
  <2>3. Agreement'
    BY <1>1, <2>2 DEF IInv, Agreement
  <2>4. pc' \in Waits \cup Ended
    BY <2>2 DEF Ended
  <2> QED
    BY <1>1, <1>2, <1>3, <2>1, <2>2, <2>3, <2>4, LaterTurn
<1>4. ASSUME NEW r \in Resources, Receive(Stanza("bound", {r})), resource' = r,
             IF "session" \in feats THEN SendThenWait("session", "session") ELSE AfterBind
      PROVE  IInv'
  <2>1. /\ Stanza("bound", {r}).name = "bound" /\ Stanza("bound", {r}).body = {r}
        /\ Stanza("bound", {r}).name # "header"
    BY DEF Stanza
  <2>2. request = "none" /\ r = bound
    BY <1>4, <2>1, Received DEF Fits
  <2>3. /\ pc' \in {"session", "sm", "done", "error"} /\ RequestFits'
        /\ pc' = "session" => "session" \in feats
        /\ pc' \in {"sm", "done"} => "session" \notin feats
        /\ pc' = "sm" => opts.sm /\ "sm" \in feats
        /\ pc' = "done" => ~(opts.sm /\ "sm" \in feats)
        /\ request' \in Requests \cup {"none"} /\ request' # "header"
        /\ exposed' \subseteq Requests
        /\ exposed' = exposed \/ (conn = "open" /\ ~tls)
    <3>1. CASE "session" \in feats
      BY <1>4, <2>2, <3>1, Sent, WaitsAre DEF Requests
    <3>2. CASE "session" \notin feats
      BY <1>4, <2>2, <3>2, Bound
    <3> QED
      BY <3>1, <3>2
  <2>4. Agreement'
    BY <1>1, <1>2, <1>4, <2>2, <2>3 DEF IInv, Agreement
  <2>5. pc' \in Waits \cup Ended
    BY <2>3, WaitsAre DEF Ended
  <2> QED
    BY <1>1, <1>4, <2>1, <2>3, <2>4, <2>5, LaterTurn
<1> QED
  BY <1>3, <1>4 DEF GetBound

LEMMA GetSessionStep ==
  ASSUME IInv, GetSession
  PROVE  IInv'
<1>1. PICK body \in Granted : /\ Receive(Stanza("session", body))
                              /\ IF body # {} THEN AfterBind ELSE Fail
  BY DEF GetSession
<1>2. /\ pc = "session"
      /\ UNCHANGED <<opts, round, feats, resource, tls, conn, parser, net, srv, agreed,
                     offered, bound, tlsOffer>>
      /\ Stanza("session", body).name = "session" /\ Stanza("session", body).body = body
      /\ Stanza("session", body).name # "header"
  BY DEF GetSession, link, server, Stanza
<1>3. /\ request = "none" /\ resource' \in Resources
      /\ body # {} => "session" \in agreed
  BY <1>1, <1>2, Received DEF Fits, IInv, Types, TypeOK
<1>4. /\ round = "auth" /\ bound = resource /\ "session" \in feats /\ "sm" \notin agreed
  BY <1>2 DEF IInv, Agreement
<1>5. /\ pc' \in {"sm", "done", "error"} /\ RequestFits'
      /\ pc' \in {"sm", "done"} => "session" \in agreed
      /\ pc' = "sm" => opts.sm /\ "sm" \in feats
      /\ pc' = "done" => ~(opts.sm /\ "sm" \in feats)
      /\ request' \in Requests \cup {"none"} /\ request' # "header"
      /\ exposed' \subseteq Requests
      /\ exposed' = exposed \/ (conn = "open" /\ ~tls)
  <2>1. CASE body # {}
    BY <1>1, <1>3, <2>1, Bound
  <2>2. CASE body = {}
    BY <1>1, <1>3, <2>2, Failed
  <2> QED
    BY <2>1, <2>2
<1>6. Agreement'
  BY <1>2, <1>4, <1>5 DEF IInv, Agreement
<1>7. pc' \in Waits \cup Ended
  BY <1>5, WaitsAre DEF Ended
<1> QED
  BY <1>1, <1>2, <1>3, <1>5, <1>6, <1>7, LaterTurn

LEMMA GetEnabledStep ==
  ASSUME IInv, GetEnabled
  PROVE  IInv'
<1>1. PICK name \in {"enabled", "failed"} :
        /\ Receive(Stanza(name, {}))
        /\ IF name = "failed" THEN Fail
           ELSE pc' = "done" /\ UNCHANGED <<request, exposed>>
  BY WaitsAre DEF GetEnabled
<1>2. /\ pc = "sm"
      /\ UNCHANGED <<opts, round, feats, resource, tls, conn, parser, net, srv, agreed,
                     offered, bound, tlsOffer>>
      /\ Stanza(name, {}).name = name /\ Stanza(name, {}).name # "header"
  BY DEF GetEnabled, link, server, Stanza
<1>3. /\ request = "none" /\ resource' \in Resources
      /\ name = "enabled" => "sm" \in agreed
      /\ exposed \subseteq Requests
  BY <1>1, <1>2, Received DEF Fits, IInv, Types, TypeOK
<1>4. /\ pc' \in {"done", "error"} /\ RequestFits'
      /\ pc' = "done" => "sm" \in agreed
      /\ request' \in Requests \cup {"none"} /\ request' # "header"
      /\ exposed' = exposed
  <2>1. CASE name = "failed"
    BY <1>1, <1>3, <2>1, Failed
  <2>2. CASE name = "enabled"
    BY <1>1, <1>3, <2>2, WaitsAre DEF RequestFits
  <2> QED
    BY <2>1, <2>2
<1>5. Agreement'
  BY <1>2, <1>4 DEF IInv, Agreement
<1>6. pc' \in Waits \cup Ended
  BY <1>4 DEF Ended
<1> QED
  BY <1>1, <1>2, <1>3, <1>4, <1>5, <1>6, LaterTurn

LEMMA GetProceedStep ==
  ASSUME IInv, GetProceed
  PROVE  IInv'
<1>1. PICK name \in {"proceed", "failure"} :
        /\ Receive(Stanza(name, {}))
        /\ pc' = IF name = "proceed" /\ conn = "open" THEN "handshake" ELSE "error"
  BY WaitsAre DEF GetProceed
<1>2. /\ pc = "proceed" /\ Stanza(name, {}).name = name
      /\ UNCHANGED <<opts, round, feats, resource, tls, conn, parser, net, request, srv,
                     agreed, offered, bound, chatter, exposed, tlsOffer>>
  BY DEF GetProceed, link, server, history, Stanza
<1>3. /\ request = "none" /\ Noisy(queue)' /\ Noisy(net) /\ queue' \in Seq(Stanzas)
      /\ name = "proceed" => net = <<>> /\ srv # "open"
  BY <1>1, <1>2, Received DEF Ends
<1>4. Noisy(net)'
  BY <1>2, <1>3 DEF Noisy
<1>5. StanzasFit' /\ OneAnswer'
  BY <1>3, <1>4, NoiseFits
<1>6. pc' \in {"handshake", "error"} /\ (pc' = "handshake" => name = "proceed")
  BY <1>1
<1>7. Documents'
  <2>1. \A i \in 1 .. Len(queue') : ~Ends(queue'[i])
    BY <1>3 DEF Noisy, Noise, Ends
  <2> QED
    BY <1>2, <1>3, <1>6, <2>1 DEF Documents, IInv
<1>8. TlsFirst' /\ CredentialsNeedTls'
  BY <1>2, <1>6 DEF IInv, TlsFirst, NeedTls, CredentialsNeedTls
<1>9. Types'
  BY <1>2, <1>3, <1>6, WaitsAre DEF IInv, Types, TypeOK, Ended
<1>10. FeaturesAreFresh' /\ Agreement' /\ RequestFits'
  BY <1>2, <1>3, <1>6, WaitsAre DEF IInv, FeaturesAreFresh, Agreement, RequestFits
<1> QED
  BY <1>5, <1>7, <1>8, <1>9, <1>10 DEF IInv

LEMMA HandshakeDoneStep ==
  ASSUME IInv, HandshakeDone
  PROVE  IInv'
<1>1. /\ pc = "handshake" /\ pc' = "secured" /\ tls' = TRUE /\ agreed' = agreed \cup {"tls"}
      /\ UNCHANGED <<opts, round, feats, resource, conn, parser, queue, net, request, srv,
                     offered, bound, exposed, tlsOffer>>
  BY DEF HandshakeDone, history
<1>2. /\ Noisy(queue) /\ request = "none" /\ net = <<>> /\ srv # "open"
  BY <1>1, Idle, WaitsAre DEF IInv, Documents
<1>3. Noisy(queue)' /\ Noisy(net)'
  BY <1>1, <1>2, EmptySeq DEF Noisy
<1>4. StanzasFit' /\ OneAnswer'
  BY <1>3, NoiseFits
<1>5. Documents'
  BY <1>1, <1>2 DEF IInv, Documents
<1>6. TlsFirst' /\ CredentialsNeedTls'
  BY <1>1 DEF IInv, TlsFirst, CredentialsNeedTls
<1>7. Types'
  BY <1>1, WaitsAre DEF IInv, Types, TypeOK
<1>8. FeaturesAreFresh' /\ Agreement' /\ RequestFits'
  BY <1>1, <1>2, WaitsAre DEF IInv, FeaturesAreFresh, Agreement, RequestFits
<1> QED
  BY <1>4, <1>5, <1>6, <1>7, <1>8 DEF IInv

LEMMA SecuredStep ==
  ASSUME IInv, Secured
  PROVE  IInv'
<1>1. /\ pc = "secured" /\ Reopen("tls")
      /\ UNCHANGED <<opts, feats, resource, tls, conn, queue, net, srv, agreed, offered,
                     bound, chatter, tlsOffer>>
  BY DEF Secured, server
<1>2. /\ Noisy(queue) /\ request = "none" /\ net = <<>> /\ srv # "open"
      /\ queue \in Seq(Stanzas)
  BY <1>1, Idle, WaitsAre DEF IInv, Documents, Types
<1>3. Noisy(queue)' /\ queue' \in Seq(Stanzas)
  BY <1>1, <1>2 DEF Noisy
<1> QED
  BY <1>1, <1>2, <1>3, Reopened

LEMMA PassOverStep ==
  ASSUME IInv, PassOver
  PROVE  IInv'
<1>1. /\ queue # <<>> /\ queue' = Tail(queue) /\ pc \in Waits
      /\ UNCHANGED <<opts, pc, round, feats, resource, tls, conn, parser, net, request, srv,
                     agreed, offered, bound, chatter, exposed, tlsOffer>>
  BY DEF PassOver, client, link, server, history
<1>2. /\ queue \in Seq(Stanzas) /\ queue' \in Seq(Stanzas)
      /\ Len(queue) \in Nat /\ Len(queue') = Len(queue) - 1
      /\ \A i \in 1 .. Len(queue') : i + 1 \in 1 .. Len(queue) /\ queue'[i] = queue[i + 1]
  BY <1>1, Rest DEF IInv, Types
<1>3. StanzasFit'
  BY <1>1, <1>2 DEF IInv, StanzasFit, Fits
<1>4. OneAnswer'
  <2>1. \A i, j \in 1 .. Len(queue') : i < j => Follows(queue'[i], queue'[j])
    <3> TAKE i, j \in 1 .. Len(queue')
    <3> HAVE i < j
    <3>1. i + 1 < j + 1
      OBVIOUS
    <3> QED
      BY <3>1, <1>2 DEF IInv, OneAnswer
  <2>2. request # "none" => Noisy(queue)' /\ Noisy(net)'
    BY <1>1, <1>2 DEF IInv, OneAnswer, Noisy
  <2> QED
    BY <1>1, <1>2, <2>1, <2>2 DEF IInv, OneAnswer
<1>5. Documents'
  <2>1. \A i \in 1 .. Len(queue') :
          Ends(queue'[i]) => i = Len(queue') /\ net = <<>> /\ srv # "open"
    <3> TAKE i \in 1 .. Len(queue')
    <3> HAVE Ends(queue'[i])
    <3>1. i + 1 \in 1 .. Len(queue) /\ Ends(queue[i + 1])
      BY <1>2
    <3>2. i + 1 = Len(queue) /\ net = <<>> /\ srv # "open"
      BY <3>1 DEF IInv, Documents
    <3> QED
      BY <3>2, <1>2
  <2> QED
    BY <1>1, <2>1 DEF IInv, Documents
<1>6. TlsFirst' /\ CredentialsNeedTls'
  BY <1>1 DEF IInv, TlsFirst, NeedTls, CredentialsNeedTls
<1>7. Types'
  BY <1>1, <1>2 DEF IInv, Types, TypeOK
<1>8. FeaturesAreFresh' /\ Agreement' /\ RequestFits'
  BY <1>1 DEF IInv, FeaturesAreFresh, Agreement, RequestFits
<1> QED
  BY <1>3, <1>4, <1>5, <1>6, <1>7, <1>8 DEF IInv

LEMMA TimeOutStep ==
  ASSUME IInv, TimeOut
  PROVE  IInv'
<1>1. /\ pc' = "error" /\ pc \in Waits
      /\ UNCHANGED <<opts, round, feats, resource, tls, conn, parser, queue, net, request,
                     srv, agreed, offered, bound, chatter, exposed, tlsOffer>>
  BY DEF TimeOut, link, server, history
<1>2. StanzasFit'
  BY <1>1 DEF IInv, StanzasFit, Fits
<1>3. OneAnswer' /\ Documents'
  BY <1>1 DEF IInv, OneAnswer, Noisy, Documents
<1>4. TlsFirst' /\ CredentialsNeedTls'
  BY <1>1 DEF IInv, TlsFirst, CredentialsNeedTls
<1>5. Types'
  BY <1>1 DEF IInv, Types, TypeOK, Ended
<1>6. FeaturesAreFresh' /\ Agreement' /\ RequestFits'
  BY <1>1, WaitsAre DEF IInv, FeaturesAreFresh, Agreement, RequestFits
<1> QED
  BY <1>2, <1>3, <1>4, <1>5, <1>6 DEF IInv

-----------------------------------------------------------------------------
(* The parser task and the transport.                                      *)

LEMMA ParseStep ==
  ASSUME IInv, Parse
  PROVE  IInv'
<1> DEFINE x == Head(net)
<1>1. /\ net # <<>> /\ net' = Tail(net)
      /\ UNCHANGED <<opts, pc, round, feats, resource, tls, request, srv, agreed, offered,
                     bound, chatter, exposed, tlsOffer>>
  BY DEF Parse, client, server, history
<1>2. /\ net \in Seq(Stanzas) /\ net' \in Seq(Stanzas) /\ x = net[1] /\ x \in Stanzas
      /\ Len(net) \in Nat /\ Len(net) >= 1 /\ Len(net') = Len(net) - 1
      /\ \A i \in 1 .. Len(net') : i + 1 \in 1 .. Len(net) /\ net'[i] = net[i + 1]
  BY <1>1, Rest DEF IInv, Types
<1>3. 1 \in 1 .. Len(net)
  BY <1>2
<1>4. (x.name = "header") = (parser = "fresh") /\ parser # "dead"
  BY <1>2, <1>3 DEF IInv, Documents
<1>5. /\ parser' = "open"
      /\ queue' = IF x.name # "stream_error" THEN Append(queue, x) ELSE queue
      /\ conn' = IF x.name = "stream_error" /\ conn = "open" THEN "closing" ELSE conn
  BY <1>4 DEF Parse
<1>6. /\ queue' \in Seq(Stanzas) /\ queue \in Seq(Stanzas) /\ Len(queue) \in Nat
      /\ \A i \in 1 .. Len(queue') :
           \/ i \in 1 .. Len(queue) /\ queue'[i] = queue[i]
           \/ i = Len(queue) + 1 /\ queue'[i] = x
  <2>1. queue \in Seq(Stanzas) /\ Len(queue) \in Nat
    BY LenProperties DEF IInv, Types
  <2>2. CASE x.name # "stream_error"
    BY <1>2, <1>5, <2>1, <2>2, Added
  <2>3. CASE x.name = "stream_error"
    BY <1>5, <2>1, <2>3
  <2> QED
    BY <2>1, <2>2, <2>3
<1>7. StanzasFit'
  <2>1. Fits(x)
    BY <1>2, <1>3 DEF IInv, StanzasFit
  <2>2. \A y : Fits(y) => Fits(y)'
    BY <1>1 DEF Fits
  <2> QED
    BY <1>2, <1>6, <2>1, <2>2 DEF IInv, StanzasFit
<1>8. OneAnswer'
  <2>1. request' # "none" => Noisy(queue)' /\ Noisy(net)'
    BY <1>1, <1>2, <1>3, <1>6 DEF IInv, OneAnswer, Noisy
  <2>2. \A i, j \in 1 .. Len(queue') : i < j => Follows(queue'[i], queue'[j])
    <3> TAKE i, j \in 1 .. Len(queue')
    <3> HAVE i < j
    <3>1. i \in 1 .. Len(queue) /\ queue'[i] = queue[i]
      BY <1>6
    <3>2. CASE j \in 1 .. Len(queue) /\ queue'[j] = queue[j]
      BY <3>1, <3>2 DEF IInv, OneAnswer
    <3>3. CASE queue'[j] = x
      BY <3>1, <3>3, <1>2, <1>3 DEF IInv, OneAnswer
    <3> QED
      BY <1>6, <3>2, <3>3
  <2>3. \A i, j \in 1 .. Len(net') : i < j => Follows(net'[i], net'[j])
    <3> TAKE i, j \in 1 .. Len(net')
    <3> HAVE i < j
    <3>1. i + 1 < j + 1
      OBVIOUS
    <3> QED
      BY <3>1, <1>2 DEF IInv, OneAnswer
  <2>4. \A i \in 1 .. Len(queue'), j \in 1 .. Len(net') : Follows(queue'[i], net'[j])
    <3> TAKE i \in 1 .. Len(queue'), j \in 1 .. Len(net')
    <3>1. j + 1 \in 1 .. Len(net) /\ net'[j] = net[j + 1] /\ 1 < j + 1
      BY <1>2
    <3>2. CASE i \in 1 .. Len(queue) /\ queue'[i] = queue[i]
      BY <3>1, <3>2 DEF IInv, OneAnswer
    <3>3. CASE queue'[i] = x
      BY <3>1, <3>3, <1>2, <1>3 DEF IInv, OneAnswer
    <3> QED
      BY <1>6, <3>2, <3>3
  <2> QED
    BY <2>1, <2>2, <2>3, <2>4 DEF OneAnswer
<1>9. Documents'
  <2>1. request # "header" /\ pc \notin {"start", "handshake", "secured"}
    BY <1>1 DEF IInv, Documents
  <2>2. \A i \in 1 .. Len(net') : net'[i].name # "header"
    BY <1>2 DEF IInv, Documents
  <2>3. \A i \in 1 .. Len(queue) : ~Ends(queue[i])
    BY <1>1 DEF IInv, Documents
  <2>4. \A i \in 1 .. Len(queue') :
          Ends(queue'[i]) => i = Len(queue') /\ net' = <<>> /\ srv # "open"
    <3> TAKE i \in 1 .. Len(queue')
    <3> HAVE Ends(queue'[i])
    <3>1. i = Len(queue) + 1 /\ queue'[i] = x
      BY <1>6, <2>3
    <3>2. x.name # "stream_error"
      BY <3>1 DEF Ends
    <3>3. Len(queue') = Len(queue) + 1
      BY <1>2, <1>5, <1>6, <3>2, Added
    <3>4. 1 = Len(net) /\ srv # "open"
      BY <3>1, <1>2, <1>3 DEF IInv, Documents
    <3> QED
      BY <3>1, <3>3, <3>4, <1>2, EmptySeq
  <2>5. \A i \in 1 .. Len(net') : Ends(net'[i]) => i = Len(net') /\ srv # "open"
    BY <1>2 DEF IInv, Documents
  <2> QED
    BY <1>1, <1>5, <2>1, <2>2, <2>4, <2>5 DEF Documents
<1>10. conn' = "lost" <=> conn = "lost"
  BY <1>5
<1>11. TlsFirst' /\ CredentialsNeedTls' /\ Agreement'
  BY <1>1, <1>10 DEF IInv, TlsFirst, NeedTls, CredentialsNeedTls, Agreement
<1>12. Types'
  BY <1>1, <1>2, <1>5, <1>6 DEF IInv, Types, TypeOK
<1>13. FeaturesAreFresh' /\ RequestFits'
  BY <1>1 DEF IInv, FeaturesAreFresh, RequestFits
<1> QED
  BY <1>7, <1>8, <1>9, <1>11, <1>12, <1>13 DEF IInv

LEMMA ConnectionLostStep ==
  ASSUME IInv, ConnectionLost
  PROVE  IInv'
<1>1. /\ conn' = "lost" /\ tls' = FALSE /\ request' = "none" /\ srv' = "gone"
      /\ pc' = IF pc = "handshake" THEN "error" ELSE pc
      /\ UNCHANGED <<opts, round, feats, resource, parser, queue, agreed, offered,
                     bound, chatter, exposed, tlsOffer>>
  BY DEF ConnectionLost, history
<1>2. PICK n \in 0 .. Len(net) : net' = SubSeq(net, 1, n)
  BY DEF ConnectionLost
<1>3. /\ net \in Seq(Stanzas) /\ Len(net) \in Nat /\ net' \in Seq(Stanzas)
      /\ Len(net') = n
      /\ \A i \in 1 .. Len(net') : i \in 1 .. Len(net) /\ net'[i] = net[i]
  <2>1. net \in Seq(Stanzas) /\ Len(net) \in Nat
    BY LenProperties DEF IInv, Types
  <2>2. \A i \in 1 .. n : net[i] \in Stanzas
    BY <2>1, ElementOfSeq
  <2>3. /\ SubSeq(net, 1, n) \in Seq(Stanzas) /\ Len(SubSeq(net, 1, n)) = n
        /\ \A i \in 1 .. n : SubSeq(net, 1, n)[i] = net[i]
    BY <2>1, <2>2
  <2> QED
    BY <1>2, <2>1, <2>3
<1>4. StanzasFit'
  <2>1. \A y : Fits(y) => Fits(y)'
    BY <1>1 DEF Fits
  <2> QED
    BY <1>1, <1>3, <2>1 DEF IInv, StanzasFit
<1>5. OneAnswer'
  BY <1>1, <1>3 DEF IInv, OneAnswer
<1>6. Documents'
  <2>1. net = <<>> => net' = <<>>
    BY <1>3, EmptySeq
  <2>2. \A i \in 1 .. Len(net') : Ends(net'[i]) => i = Len(net')
    BY <1>3 DEF IInv, Documents
  <2>3. \A i \in 1 .. Len(net') : net'[i].name = "header" <=> (i = 1 /\ parser = "fresh")
    BY <1>3 DEF IInv, Documents
  <2>4. \A i \in 1 .. Len(queue) : Ends(queue[i]) => i = Len(queue) /\ net = <<>>
    BY DEF IInv, Documents
  <2>5. /\ parser # "dead"
        /\ pc \in {"start", "handshake", "secured"} => net = <<>>
        /\ pc = "start" => parser = "fresh"
    BY DEF IInv, Documents
  <2> QED
    BY <1>1, <2>1, <2>2, <2>3, <2>4, <2>5 DEF Documents
<1>7. TlsFirst' /\ CredentialsNeedTls'
  BY <1>1 DEF IInv, TlsFirst, NeedTls, CredentialsNeedTls
<1>8. Types'
  BY <1>1, <1>3 DEF IInv, Types, TypeOK, Ended
<1>9. FeaturesAreFresh' /\ Agreement' /\ RequestFits'
  BY <1>1, WaitsAre DEF IInv, FeaturesAreFresh, Agreement, RequestFits
<1> QED
  BY <1>4, <1>5, <1>6, <1>7, <1>8, <1>9 DEF IInv

-----------------------------------------------------------------------------
(* The server.                                                             *)

\* What is asked of the server is what negotiate() waits for, or did until it
\* gave up, and nothing but noise is on the way.
LEMMA Asking ==
  ASSUME IInv, NEW what \in Requests, request = what
  PROVE  /\ Noisy(queue) /\ Noisy(net)
         /\ pc = "error" \/ (pc \in Waits /\ what \in RequestOf[pc])
<1>1. request # "none"
  BY DEF Requests
<1> QED
  BY <1>1 DEF IInv, OneAnswer, RequestFits

\* The server answers within the document.
LEMMA Answered ==
  ASSUME IInv, srv = "open", NEW what \in Requests, NEW x \in Stanzas, Answer(what, <<x>>),
         Fits(x)', x.name \notin {"header", "features"},
         srv' \in {"open", "closed"}, Ends(x) => srv' = "closed"
  PROVE  /\ StanzasFit' /\ OneAnswer' /\ Documents' /\ RequestFits'
         /\ TlsFirst' /\ CredentialsNeedTls'
         /\ net' \in Seq(Stanzas) /\ request' = "none"
         /\ UNCHANGED <<opts, pc, round, feats, resource, tls, conn, parser, queue,
                        exposed, tlsOffer>>
         /\ pc = "error" \/ (pc \in Waits /\ what \in RequestOf[pc])
<1>1. /\ request = what /\ request' = "none" /\ net' = net \o <<x>>
      /\ UNCHANGED <<opts, pc, round, feats, resource, tls, conn, parser, queue,
                     exposed, tlsOffer>>
  BY DEF Answer, client, link, history
<1>2. /\ Noisy(queue) /\ Noisy(net)
      /\ pc = "error" \/ (pc \in Waits /\ what \in RequestOf[pc])
  BY <1>1, Asking
<1>3. net \in Seq(Stanzas)
  BY DEF IInv, Types
<1>4. /\ net' \in Seq(Stanzas) /\ Len(net) \in Nat /\ Len(net') = Len(net) + 1
      /\ \A i \in 1 .. Len(net') : \/ i \in 1 .. Len(net) /\ net'[i] = net[i]
                                   \/ i = Len(net) + 1 /\ net'[i] = x
  BY <1>1, <1>3, Added
<1>5. \A y : Noise(y) => Fits(y)'
  BY DEF Noise, Fits
<1>6. StanzasFit'
  BY <1>1, <1>2, <1>4, <1>5 DEF StanzasFit, Noisy
<1>7. OneAnswer'
  <2>1. \A i \in 1 .. Len(queue') : Noise(queue'[i])
    BY <1>1, <1>2 DEF Noisy
  <2>2. \A i, j \in 1 .. Len(net') : i < j => Noise(net'[i])
    BY <1>2, <1>4 DEF Noisy
  <2> QED
    BY <1>1, <2>1, <2>2 DEF OneAnswer, Follows
<1>8. Documents'
  <2>1. \A i \in 1 .. Len(queue') : ~Ends(queue'[i])
    BY <1>1, <1>2 DEF Noisy, Noise, Ends
  <2>2. \A i \in 1 .. Len(net') : Ends(net'[i]) => i = Len(net') /\ srv' # "open"
    <3> TAKE i \in 1 .. Len(net')
    <3> HAVE Ends(net'[i])
    <3>1. i = Len(net) + 1 /\ net'[i] = x
      BY <1>2, <1>4 DEF Noisy, Noise, Ends
    <3> QED
      BY <3>1, <1>4
  <2>3. \A i \in 1 .. Len(net') : net'[i].name # "header"
    BY <1>2, <1>4 DEF Noisy, Noise
  <2>4. parser = "open"
    <3>1. CASE net = <<>>
      BY <3>1 DEF IInv, Documents
    <3>2. CASE net # <<>>
      <4>1. 1 \in 1 .. Len(net)
        BY <3>2, <1>3, <1>4, EmptySeq
      <4>2. parser # "fresh" /\ parser # "dead"
        BY <1>2, <4>1 DEF IInv, Documents, Noisy, Noise
      <4> QED
        BY <4>2 DEF IInv, Types, TypeOK
    <3> QED
      BY <3>1, <3>2
  <2> QED
    BY <1>1, <2>1, <2>2, <2>3, <2>4 DEF IInv, Documents
<1>9. TlsFirst' /\ CredentialsNeedTls' /\ RequestFits'
  BY <1>1 DEF IInv, TlsFirst, NeedTls, CredentialsNeedTls, RequestFits
<1> QED
  BY <1>1, <1>2, <1>4, <1>6, <1>7, <1>8, <1>9

LEMMA AnswerHeaderStep ==
  ASSUME IInv, AnswerHeader
  PROVE  IInv'
<1> DEFINE h == Stanza("header", {})
<1>1. PICK fs \in SUBSET Features :
        /\ Answer("header", <<h, Stanza("features", fs)>>)
        /\ offered' = fs
  BY DEF AnswerHeader
<1> DEFINE f == Stanza("features", fs)
<1>2. /\ request = "header" /\ request' = "none" /\ net' = net \o <<h, f>>
      /\ srv' = "open"
      /\ UNCHANGED <<opts, pc, round, feats, resource, tls, conn, parser, queue,
                     exposed, tlsOffer, agreed, bound, chatter>>
  BY <1>1 DEF AnswerHeader, Answer, client, link, history
<1>3. /\ h \in Stanzas /\ f \in Stanzas /\ h.name = "header" /\ f.name = "features"
      /\ f.body = fs
  BY DEF Stanza, Stanzas, Names
<1>4. /\ Noisy(queue) /\ net = <<>> /\ parser = "fresh" /\ pc \in {"header", "error"}
  BY <1>2, Asking, WaitsAre DEF Requests, IInv, Documents
<1>5. net' = <<h, f>>
  BY <1>2, <1>3, <1>4
<1>6. net' \in Seq(Stanzas) /\ Len(net') = 2 /\ net'[1] = h /\ net'[2] = f
  BY <1>3, <1>5
<1>7. \A i \in 1 .. Len(net') : (i = 1 /\ net'[i] = h) \/ (i = 2 /\ net'[i] = f)
  BY <1>6
<1>8. Fits(h)' /\ Fits(f)'
  BY <1>1, <1>2, <1>3, <1>4, WaitsAre DEF Fits
<1>9. StanzasFit'
  <2>1. \A y : Noise(y) => Fits(y)'
    BY DEF Noise, Fits
  <2> QED
    BY <1>2, <1>4, <1>7, <1>8, <2>1 DEF StanzasFit, Noisy
<1>10. OneAnswer'
  <2>1. \A i \in 1 .. Len(queue') : Noise(queue'[i])
    BY <1>2, <1>4 DEF Noisy
  <2>2. \A i, j \in 1 .. Len(net') : i < j => Follows(net'[i], net'[j])
    BY <1>3, <1>7 DEF Follows
  <2> QED
    BY <1>2, <2>1, <2>2 DEF OneAnswer, Follows
<1>11. Documents'
  <2>1. \A i \in 1 .. Len(queue') : ~Ends(queue'[i])
    BY <1>2, <1>4 DEF Noisy, Noise, Ends
  <2>2. /\ \A i \in 1 .. Len(net') : ~Ends(net'[i])
        /\ \A i \in 1 .. Len(net') : net'[i].name = "header" <=> i = 1
    BY <1>3, <1>7 DEF Ends
  <2>3. net' # <<>>
    BY <1>5
  <2> QED
    BY <1>2, <1>4, <2>1, <2>2, <2>3 DEF Documents
<1>12. TlsFirst' /\ CredentialsNeedTls' /\ RequestFits'
  BY <1>2 DEF IInv, TlsFirst, NeedTls, CredentialsNeedTls, RequestFits
<1>13. Types'
  BY <1>1, <1>2, <1>6 DEF IInv, Types, TypeOK
<1>14. FeaturesAreFresh' /\ Agreement'
  BY <1>2, <1>4, WaitsAre DEF IInv, FeaturesAreFresh, Agreement
<1> QED
  BY <1>9, <1>10, <1>11, <1>12, <1>13, <1>14 DEF IInv

LEMMA AnswerStarttlsStep ==
  ASSUME IInv, AnswerStarttls
  PROVE  IInv'
<1>1. PICK ok \in BOOLEAN :
        /\ Answer("starttls", <<Stanza(IF ok THEN "proceed" ELSE "failure", {})>>)
        /\ srv' = IF ok THEN "closed" ELSE srv
  BY DEF AnswerStarttls
<1> DEFINE name == IF ok THEN "proceed" ELSE "failure"
           x == Stanza(name, {})
<1>2. /\ srv = "open" /\ UNCHANGED <<agreed, offered, bound, chatter>>
      /\ name \in {"proceed", "failure"} /\ (name = "proceed" => ok) /\ pc' = pc
  BY <1>1 DEF AnswerStarttls, Answer, client
<1>3. x \in Stanzas /\ x.name = name
  BY <1>2 DEF Stanza, Stanzas, Names
<1>4. pc \in {"proceed", "error"}
  BY <1>1, Asking, WaitsAre DEF Answer, Requests
<1>5. Fits(x)'
  BY <1>2, <1>3, <1>4, WaitsAre DEF Fits
<1>6. "starttls" \in Requests /\ srv' \in {"open", "closed"} /\ (Ends(x) => srv' = "closed")
  BY <1>1, <1>2, <1>3 DEF Requests, Ends
<1>7. /\ StanzasFit' /\ OneAnswer' /\ Documents' /\ RequestFits'
      /\ TlsFirst' /\ CredentialsNeedTls'
      /\ net' \in Seq(Stanzas) /\ request' = "none"
      /\ UNCHANGED <<opts, pc, round, feats, resource, tls, conn, parser, queue,
                     exposed, tlsOffer>>
  <2>1. x.name \notin {"header", "features"} /\ Answer("starttls", <<x>>)
    BY <1>1, <1>2, <1>3
  <2> HIDE DEF x
  <2> QED
    BY <2>1, <1>2, <1>3, <1>5, <1>6, Answered
<1>8. Types' /\ FeaturesAreFresh' /\ Agreement'
  BY <1>2, <1>6, <1>7 DEF IInv, Types, TypeOK, FeaturesAreFresh, Agreement
<1> QED
  BY <1>7, <1>8 DEF IInv

LEMMA AnswerAuthStep ==
  ASSUME IInv, AnswerAuth
  PROVE  IInv'
<1>1. PICK what \in {"auth", "response"}, name \in {"success", "failure", "challenge"} :
        /\ Answer(what, <<Stanza(name, {})>>)
        /\ srv' = IF name = "success" THEN "closed" ELSE srv
        /\ agreed' = IF name = "success" THEN agreed \cup {"auth"} ELSE agreed
  BY WaitsAre DEF AnswerAuth
<1> DEFINE x == Stanza(name, {})
<1>2. srv = "open" /\ UNCHANGED <<offered, bound>> /\ pc' = pc
  BY <1>1 DEF AnswerAuth, Answer, client
<1>3. x \in Stanzas /\ x.name = name
  BY DEF Stanza, Stanzas, Names
<1>4. pc \in {"sasl", "error"}
  BY <1>1, Asking, WaitsAre DEF Answer, Requests
<1>5. Fits(x)'
  BY <1>1, <1>2, <1>3, <1>4, WaitsAre DEF Fits
<1>6. what \in Requests /\ srv' \in {"open", "closed"} /\ (Ends(x) => srv' = "closed")
  BY <1>1, <1>2, <1>3 DEF Requests, Ends
<1>7. /\ StanzasFit' /\ OneAnswer' /\ Documents' /\ RequestFits'
      /\ TlsFirst' /\ CredentialsNeedTls'
      /\ net' \in Seq(Stanzas) /\ request' = "none"
      /\ UNCHANGED <<opts, pc, round, feats, resource, tls, conn, parser, queue,
                     exposed, tlsOffer>>
  <2>1. x.name \notin {"header", "features"} /\ Answer(what, <<x>>)
    BY <1>1, <1>3
  <2> HIDE DEF x
  <2> QED
    BY <2>1, <1>2, <1>3, <1>5, <1>6, Answered
<1>8. Types'
  BY <1>1, <1>2, <1>6, <1>7 DEF IInv, Types, TypeOK
<1>9. FeaturesAreFresh' /\ Agreement'
  BY <1>1, <1>2, <1>7 DEF IInv, FeaturesAreFresh, Agreement
<1> QED
  BY <1>7, <1>8, <1>9 DEF IInv

LEMMA AnswerRequestStep ==
  ASSUME IInv, AnswerRequest
  PROVE  IInv'
<1>1. PICK body \in Granted :
        \/ Answer("get_form", <<Stanza("form", body)>>) /\ agreed' = agreed
        \/ /\ Answer("set_form", <<Stanza("registered", body)>>)
           /\ agreed' = agreed \cup (IF body = {} THEN {} ELSE {"registered"})
        \/ /\ Answer("session", <<Stanza("session", body)>>)
           /\ agreed' = agreed \cup (IF body = {} THEN {} ELSE {"session"})
        \/ /\ Answer("enable", <<Stanza(IF body = {} THEN "failed" ELSE "enabled", {})>>)
           /\ agreed' = agreed \cup (IF body = {} THEN {} ELSE {"sm"})
  BY DEF AnswerRequest
<1>2. srv = "open" /\ srv' = "open" /\ UNCHANGED <<offered, bound, chatter>>
  BY DEF AnswerRequest
<1>3. ASSUME NEW what \in {"get_form", "set_form", "session", "enable"},
             NEW name \in {"form", "registered", "session", "enabled", "failed"},
             NEW b \in Granted, NEW given \in {"registered", "session", "sm"},
             Answer(what, <<Stanza(name, b)>>),
             agreed' = agreed \/ agreed' = agreed \cup {given},
             what = "get_form" => name = "form" /\ agreed' = agreed,
             what = "set_form" => name = "registered" /\ given = "registered",
             what = "session" => /\ name = "session" /\ given = "session"
                                 /\ b # {} => "session" \in agreed',
             what = "enable" => /\ name \in {"enabled", "failed"} /\ given = "sm"
                                /\ name = "enabled" => "sm" \in agreed'
      PROVE  IInv'
  <2> DEFINE x == Stanza(name, b)
  <2>1. x \in Stanzas /\ x.name = name /\ x.body = b /\ pc' = pc
    BY <1>3 DEF Stanza, Stanzas, Names, Granted, Answer, client
  <2>2. /\ what \in Requests
        /\ pc = "error" \/ (pc \in Waits /\ what \in RequestOf[pc])
    BY <1>3, Asking DEF Answer, Requests
  <2>3. /\ pc \in {"form", "registered", "session", "sm", "error"}
        /\ pc = "form" => what = "get_form" /\ name = "form"
        /\ pc = "registered" => what = "set_form" /\ name = "registered"
        /\ pc = "session" => what = "session" /\ name = "session"
        /\ pc = "sm" => what = "enable" /\ name \in {"enabled", "failed"}
    BY <1>3, <2>2, WaitsAre
  <2>4. /\ name = "session" => b = {} \/ "session" \in agreed'
        /\ name = "enabled" => "sm" \in agreed'
    BY <1>3
  <2>5. Fits(x)'
    BY <2>1, <2>3, <2>4, WaitsAre DEF Fits
  <2>6. /\ StanzasFit' /\ OneAnswer' /\ Documents' /\ RequestFits'
        /\ TlsFirst' /\ CredentialsNeedTls'
        /\ net' \in Seq(Stanzas) /\ request' = "none"
        /\ UNCHANGED <<opts, pc, round, feats, resource, tls, conn, parser, queue,
                       exposed, tlsOffer>>
    <3>1. x.name \notin {"header", "features"} /\ Answer(what, <<x>>) /\ ~Ends(x)
      BY <1>3, <2>1 DEF Ends
    <3> HIDE DEF x
    <3> QED
      BY <3>1, <1>2, <2>1, <2>2, <2>5, Answered
  <2>7. Types'
    <3>1. agreed' \subseteq agreed \cup {"registered", "session", "sm"}
      BY <1>3
    <3> QED
      BY <1>2, <2>6, <3>1 DEF IInv, Types, TypeOK
  <2>8. FeaturesAreFresh'
    BY <1>2, <2>6 DEF IInv, FeaturesAreFresh
  <2>9. Agreement'
    <3>1. "tls" \in agreed' <=> "tls" \in agreed
      BY <1>3
    <3>2. "auth" \in agreed => "auth" \in agreed'
      BY <1>3
    <3>3. pc \notin {"session", "error"} => ("session" \in agreed' <=> "session" \in agreed)
      BY <1>3, <2>3
    <3>4. pc \notin {"sm", "error"} => ("sm" \in agreed' <=> "sm" \in agreed)
      BY <1>3, <2>3
    <3> QED
      BY <1>2, <2>3, <2>6, <3>1, <3>2, <3>3, <3>4 DEF IInv, Agreement
  <2> QED
    BY <2>6, <2>7, <2>8, <2>9 DEF IInv
<1>4. {} \in Granted
  BY DEF Granted
<1>5. CASE Answer("get_form", <<Stanza("form", body)>>) /\ agreed' = agreed
  BY <1>3, <1>5
<1>6. CASE /\ Answer("set_form", <<Stanza("registered", body)>>)
           /\ agreed' = agreed \cup (IF body = {} THEN {} ELSE {"registered"})
  BY <1>3, <1>6
<1>7. CASE /\ Answer("session", <<Stanza("session", body)>>)
           /\ agreed' = agreed \cup (IF body = {} THEN {} ELSE {"session"})
  BY <1>3, <1>7
<1>8. CASE /\ Answer("enable", <<Stanza(IF body = {} THEN "failed" ELSE "enabled", {})>>)
           /\ agreed' = agreed \cup (IF body = {} THEN {} ELSE {"sm"})
  <2>1. CASE body = {}
    <3>1. Answer("enable", <<Stanza("failed", {})>>) /\ agreed' = agreed
      BY <1>8, <2>1
    <3> QED
      BY <1>3, <1>4, <3>1
  <2>2. CASE body # {}
    <3>1. Answer("enable", <<Stanza("enabled", {})>>) /\ agreed' = agreed \cup {"sm"}
      BY <1>8, <2>2
    <3> QED
      BY <1>3, <1>4, <3>1
  <2> QED
    BY <2>1, <2>2
<1> QED
  BY <1>1, <1>5, <1>6, <1>7, <1>8

LEMMA AnswerBindStep ==
  ASSUME IInv, AnswerBind
  PROVE  IInv'
<1>1. /\ srv = "open" /\ UNCHANGED <<srv, agreed, offered, chatter>>
  BY DEF AnswerBind
<1>2. ASSUME NEW body \in {{}} \cup {{r} : r \in Resources},
             Answer("bind", <<Stanza("bound", body)>>),
             body = {} \/ body = {bound'}, bound' \in Resources \cup {"none"}
      PROVE  IInv'
  <2> DEFINE x == Stanza("bound", body)
  <2>1. x \in Stanzas /\ x.name = "bound" /\ x.body = body /\ pc' = pc
    BY <1>2 DEF Stanza, Stanzas, Names, Answer, client
  <2>2. pc \in {"bind", "error"}
    BY <1>2, Asking, WaitsAre DEF Answer, Requests
  <2>3. Fits(x)'
    BY <1>2, <2>1, <2>2, WaitsAre DEF Fits
  <2>4. /\ StanzasFit' /\ OneAnswer' /\ Documents' /\ RequestFits'
        /\ TlsFirst' /\ CredentialsNeedTls'
        /\ net' \in Seq(Stanzas) /\ request' = "none"
        /\ UNCHANGED <<opts, pc, round, feats, resource, tls, conn, parser, queue,
                       exposed, tlsOffer>>
    <3>1. /\ x.name \notin {"header", "features"} /\ Answer("bind", <<x>>) /\ ~Ends(x)
          /\ "bind" \in Requests
      BY <1>2, <2>1 DEF Ends, Requests
    <3> HIDE DEF x
    <3> QED
      BY <3>1, <1>1, <2>1, <2>3, Answered
  <2>5. Types'
    BY <1>1, <1>2, <2>4 DEF IInv, Types, TypeOK
  <2>6. FeaturesAreFresh' /\ Agreement'
    BY <1>1, <2>2, <2>4 DEF IInv, FeaturesAreFresh, Agreement
  <2> QED
    BY <2>4, <2>5, <2>6 DEF IInv
<1>3. CASE Answer("bind", <<Stanza("bound", {})>>) /\ UNCHANGED bound
  <2>1. bound' \in Resources \cup {"none"}
    BY <1>3 DEF IInv, Types, TypeOK
  <2> QED
    BY <1>2, <1>3, <2>1
<1>4. ASSUME NEW r \in Resources, Answer("bind", <<Stanza("bound", {r})>>), bound' = r
      PROVE  IInv'
  BY <1>2, <1>4
<1> QED
  BY <1>3, <1>4 DEF AnswerBind

\* The server sends what answers nothing.
LEMMA MoreNoise ==
  ASSUME IInv, srv = "open", NEW x \in Stanzas, Noise(x), net' = Append(net, x),
         UNCHANGED <<opts, pc, round, feats, resource, tls, conn, parser, queue, request,
                     agreed, offered, bound, exposed, tlsOffer>>,
         srv' \in {"open", "gone"}
  PROVE  IInv'
<1>1. net \in Seq(Stanzas) /\ x.name \in {"other", "stream_error"}
  BY DEF IInv, Types, Noise
<1>2. /\ net' \in Seq(Stanzas) /\ Len(net) \in Nat /\ Len(net') = Len(net) + 1
      /\ \A i \in 1 .. Len(net') : \/ i \in 1 .. Len(net) /\ net'[i] = net[i]
                                   \/ i = Len(net) + 1 /\ net'[i] = x
  BY <1>1, Added
<1>3. StanzasFit'
  <2>1. Fits(x)'
    BY DEF Noise, Fits
  <2>2. \A y : Fits(y) => Fits(y)'
    BY DEF Fits
  <2> QED
    BY <1>2, <2>1, <2>2 DEF IInv, StanzasFit
<1>4. OneAnswer'
  <2>1. request' # "none" => Noisy(queue)' /\ Noisy(net)'
    BY <1>2 DEF IInv, OneAnswer, Noisy
  <2>2. \A i, j \in 1 .. Len(net') : i < j => Follows(net'[i], net'[j])
    <3> TAKE i, j \in 1 .. Len(net')
    <3> HAVE i < j
    <3>1. i \in 1 .. Len(net) /\ net'[i] = net[i]
      BY <1>2
    <3>2. CASE j \in 1 .. Len(net) /\ net'[j] = net[j]
      BY <3>1, <3>2 DEF IInv, OneAnswer
    <3>3. CASE net'[j] = x
      BY <3>1, <3>3 DEF Follows
    <3> QED
      BY <1>2, <3>2, <3>3
  <2>3. \A i \in 1 .. Len(queue'), j \in 1 .. Len(net') : Follows(queue'[i], net'[j])
    <3> TAKE i \in 1 .. Len(queue'), j \in 1 .. Len(net')
    <3>1. CASE j \in 1 .. Len(net) /\ net'[j] = net[j]
      BY <3>1 DEF IInv, OneAnswer
    <3>2. CASE net'[j] = x
      BY <3>2 DEF Follows
    <3> QED
      BY <1>2, <3>1, <3>2
  <2> QED
    BY <2>1, <2>2, <2>3 DEF IInv, OneAnswer
<1>5. Documents'
  <2>1. /\ parser \in {"fresh", "open"} /\ request # "header"
        /\ pc \notin {"start", "handshake", "secured"}
        /\ \A i \in 1 .. Len(queue) : ~Ends(queue[i])
        /\ \A i \in 1 .. Len(net) : ~Ends(net[i])
        /\ \A i \in 1 .. Len(net) : net[i].name = "header" <=> (i = 1 /\ parser = "fresh")
        /\ parser = "open" \/ net # <<>>
    BY DEF IInv, Documents, Types, TypeOK
  <2>2. \A i \in 1 .. Len(net') : ~Ends(net'[i])
    BY <1>1, <1>2, <2>1 DEF Ends
  <2>3. \A i \in 1 .. Len(net') : net'[i].name = "header" <=> (i = 1 /\ parser = "fresh")
    <3> TAKE i \in 1 .. Len(net')
    <3>1. CASE i \in 1 .. Len(net) /\ net'[i] = net[i]
      BY <2>1, <3>1
    <3>2. CASE i = Len(net) + 1 /\ net'[i] = x
      <4>1. net = <<>> \/ i # 1
        BY <1>1, <1>2, <3>2, EmptySeq
      <4> QED
        BY <4>1, <1>1, <2>1, <3>2
    <3> QED
      BY <1>2, <3>1, <3>2
  <2>4. net' # <<>>
    BY <1>1
  <2> QED
    BY <2>1, <2>2, <2>3, <2>4 DEF Documents
<1>6. TlsFirst' /\ CredentialsNeedTls' /\ RequestFits'
  BY DEF IInv, TlsFirst, NeedTls, CredentialsNeedTls, RequestFits
<1>7. Types' /\ FeaturesAreFresh' /\ Agreement'
  BY <1>2 DEF IInv, Types, TypeOK, FeaturesAreFresh, Agreement
<1> QED
  BY <1>3, <1>4, <1>5, <1>6, <1>7 DEF IInv

LEMMA ChatterStep ==
  ASSUME IInv, Chatter \/ SendStreamError
  PROVE  IInv'
<1>1. ASSUME Chatter PROVE IInv'
  <2>1. Stanza("other", {}) \in Stanzas /\ Noise(Stanza("other", {}))
    BY DEF Stanza, Stanzas, Names, Noise
  <2> QED
    BY <1>1, <2>1, MoreNoise DEF Chatter, client, link, history
<1>2. ASSUME SendStreamError PROVE IInv'
  <2>1. Stanza("stream_error", {}) \in Stanzas /\ Noise(Stanza("stream_error", {}))
    BY DEF Stanza, Stanzas, Names, Noise
  <2> QED
    BY <1>2, <2>1, MoreNoise DEF SendStreamError, client, link, history
<1> QED
  BY <1>1, <1>2

-----------------------------------------------------------------------------
(* The invariant, and what follows from it.                                *)

LEMMA IInvInit == Init => IInv
<1> SUFFICES ASSUME Init PROVE IInv
  OBVIOUS
<1>1. /\ opts \in Options /\ pc = "start" /\ round = "plain" /\ feats = {}
      /\ resource = "asked" /\ tls = FALSE /\ conn = "open" /\ parser = "fresh"
      /\ queue = <<>> /\ net = <<>> /\ request = "none" /\ srv = "closed" /\ agreed = {}
      /\ offered = {} /\ bound = "none" /\ exposed = {} /\ tlsOffer = "none"
  BY DEF Init
<1>2. 1 .. Len(queue) = {} /\ 1 .. Len(net) = {}
  BY <1>1, EmptySeq
<1>3. queue \in Seq(Stanzas) /\ net \in Seq(Stanzas)
  BY <1>1
<1>4. Types
  BY <1>1, <1>3 DEF Types, TypeOK, Resources
<1>5. StanzasFit /\ OneAnswer /\ Documents
  BY <1>1, <1>2 DEF StanzasFit, OneAnswer, Noisy, Documents
<1>6. RequestFits /\ TlsFirst /\ CredentialsNeedTls /\ FeaturesAreFresh /\ Agreement
  BY <1>1, WaitsAre DEF RequestFits, TlsFirst, CredentialsNeedTls, FeaturesAreFresh,
                       Agreement
<1> QED
  BY <1>4, <1>5, <1>6 DEF IInv

LEMMA IInvStep == IInv /\ [Next]_vars => IInv'
<1> SUFFICES ASSUME IInv, [Next]_vars PROVE IInv'
  OBVIOUS
<1>1. CASE Negotiate
  BY <1>1, BeginStep, GetHeaderStep, GetFirstFeaturesStep, GetTlsFeaturesStep,
     GetAuthFeaturesStep, GetProceedStep, SecuredStep, GetFormStep, GetRegisteredStep,
     GetSaslStep, GetBoundStep, GetSessionStep, GetEnabledStep, PassOverStep DEF Negotiate
<1>2. CASE Server
  BY <1>2, AnswerHeaderStep, AnswerStarttlsStep, AnswerAuthStep, AnswerRequestStep,
     AnswerBindStep, ChatterStep DEF Server
<1>3. CASE UNCHANGED vars
  <2>1. UNCHANGED <<opts, pc, round, feats, resource, tls, conn, parser, queue, net,
                    request, srv, agreed, offered, bound, chatter, exposed,
                    tlsOffer>>
    BY <1>3 DEF vars, client, link, server, history
  <2>2. Types' /\ RequestFits' /\ TlsFirst' /\ CredentialsNeedTls' /\ FeaturesAreFresh'
        /\ Agreement'
    BY <2>1 DEF IInv, Types, TypeOK, RequestFits, TlsFirst, NeedTls, CredentialsNeedTls,
                FeaturesAreFresh, Agreement
  <2>3. StanzasFit' /\ OneAnswer' /\ Documents'
    BY <2>1 DEF IInv, StanzasFit, Fits, OneAnswer, Noisy, Documents
  <2> QED
    BY <2>2, <2>3 DEF IInv
<1>4. CASE TimeOut \/ HandshakeDone \/ Parse \/ ConnectionLost
  BY <1>4, TimeOutStep, HandshakeDoneStep, ParseStep, ConnectionLostStep
<1> QED
  BY <1>1, <1>2, <1>3, <1>4 DEF Next

LEMMA Inductive == Spec => []IInv
BY IInvInit, IInvStep, PTL DEF Spec

\* Every variable of a negotiation keeps its type (client.py, features/).
THEOREM NegotiationTypeCorrect == Spec => []TypeOK
<1>1. IInv => TypeOK
  BY DEF IInv, Types
<1> QED
  BY <1>1, Inductive, PTL

\* Whatever the server offers, refuses or loses, for every client and in every
\* order: neither the registration nor the credentials leave in plain text
\* where TLS is required, or offered to a client that does not decline it.
THEOREM CredentialsAreSecret == Spec => []CredentialsNeedTls
<1>1. IInv => CredentialsNeedTls
  BY DEF IInv
<1> QED
  BY <1>1, Inductive, PTL

\* negotiate() decides by the features of the latest header of the server.
THEOREM FeaturesAreNeverStale == Spec => []FeaturesAreFresh
<1>1. IInv => FeaturesAreFresh
  BY DEF IInv
<1> QED
  BY <1>1, Inductive, PTL

\* When negotiate() returns, both ends agree on who the client is, on the
\* resource, the session and stream management.
THEOREM NegotiationAgrees == Spec => []DoneIsAgreed
<1>1. IInv => DoneIsAgreed
  BY DEF IInv, Agreement, DoneIsAgreed
<1> QED
  BY <1>1, Inductive, PTL

\* Each reset of the XML parser is in time: it never sees two documents as
\* one, nor a stanza outside of one.
THEOREM ParserNeverDies == Spec => []ParserSurvives
<1>1. IInv => ParserSurvives
  BY DEF IInv, Documents, ParserSurvives
<1> QED
  BY <1>1, Inductive, PTL
=============================================================================
