---------------------------- MODULE Negotiation ----------------------------
(***************************************************************************)
(* ClientStream.negotiate (vexmpp/client.py, vexmpp/features/): how a      *)
(* client gets from a connected socket to a session, against a server that *)
(* keeps to the protocol but offers what it likes, refuses what it likes,  *)
(* and may go away at any moment.                                          *)
(*                                                                         *)
(* negotiate() is one task; pc names the wait() it is in.  Below it, the   *)
(* parser task moves stanzas from the network to the stanza queue.  Module *)
(* Stream shows what is used of it here: one task is given the stanzas it  *)
(* waits for in their order, once each, and passes over the others.        *)
(* Module Transport shows that starttls() returns only when TLS is on.     *)
(***************************************************************************)
EXTENDS Naturals, Sequences, SequencesExt

CONSTANTS
  Options,        \* the options of the client: its tls_opt, whether it has a
                  \* register_cb, whether the stream management mixin, and the
                  \* timeout of connect(), a fraction of a second or more
  MaxChatter      \* bound on the stanzas that answer nothing

ASSUME NegotiationAssumption ==
  /\ Options \subseteq [tls : {"off", "on", "required"}, register : BOOLEAN,
                         sm : BOOLEAN, timeout : {"none", "fraction", "whole"}]
  /\ MaxChatter \in Nat

Features == {"starttls", "required", "mechanisms", "bind", "session", "sm"}
Resources == {"asked", "changed"}

VARIABLES
  opts,     \* which of Options this client has
  pc,       \* what negotiate() waits for; or how it ended
  round,    \* why the stream was last opened
  feats,    \* the local variable features
  tls,      \* Stream._tls_active
  conn,     \* Stream._transport: open, being closed, or None
  parser,   \* the expat parser: reset, within a document, or beyond use
  queue,    \* stanzas handled and not yet shown to negotiate()
  resource, \* of creds.jid
  net,      \* stanzas on their way from the server
  request,  \* what the server has not read yet
  srv,      \* the server: its stream is closed or open, or it is gone
  agreed,   \* what the server has agreed to in this connection
  offered,  \* the features it sent last
  bound,    \* the resource it has bound
  chatter,  \* how much of it there was
  exposed,  \* what has been written without TLS
  tlsOffer  \* what the first features said of TLS

client  == <<opts, pc, round, feats, resource>>
link    == <<tls, conn, parser>>
server  == <<srv, agreed, offered, bound, chatter>>
history == <<exposed, tlsOffer>>
vars == <<client, link, queue, net, request, server, history>>

Init ==
  /\ opts \in Options
  /\ pc = "start" /\ round = "plain" /\ feats = {} /\ resource = "asked"
  /\ tls = FALSE /\ conn = "open" /\ parser = "fresh"
  /\ queue = <<>> /\ net = <<>> /\ request = "none"
  /\ srv = "closed" /\ agreed = {} /\ offered = {} /\ bound = "none"
  /\ chatter = 0
  /\ exposed = {} /\ tlsOffer = "none"

\* What each wait() of negotiate() would return.
Awaited ==
  [header  |-> {"header"},  features |-> {"features"},
   proceed |-> {"proceed", "failure"},
   form    |-> {"form"},    registered |-> {"registered"},
   sasl    |-> {"success", "failure", "challenge"},
   bind    |-> {"bound"},   session |-> {"session"},
   sm      |-> {"enabled", "failed"}]

Waits == DOMAIN Awaited
Ended == {"done", "error"}

\* A stanza is its name and what of its content matters: the features, the
\* jid that was bound, or that a request was granted.
Stanza(name, body) == [name |-> name, body |-> body]
Granted == {{"ok"}, {}}

-----------------------------------------------------------------------------
(* The parser task and the transport.                                      *)

\* One stanza is parsed and handled.  Only a stream header can begin a
\* document, and no document has two; expat does not recover from an error.
\* A stream error closes the transport.
Parse ==
  /\ net # <<>>
  /\ net' = Tail(net)
  /\ LET s == Head(net)
         legal == (s.name = "header") = (parser = "fresh") /\ parser # "dead"
     IN /\ parser' = IF legal THEN "open" ELSE "dead"
        /\ queue' = IF legal /\ s.name # "stream_error"
                      THEN Append(queue, s) ELSE queue
        /\ conn' = IF legal /\ s.name = "stream_error" /\ conn = "open"
                     THEN "closing" ELSE conn
  /\ UNCHANGED <<client, tls, request, server, history>>

\* What was received before is still parsed; starttls() raises.
ConnectionLost ==
  /\ conn # "lost"
  /\ conn' = "lost"
  /\ tls' = FALSE
  /\ \E n \in 0 .. Len(net) : net' = SubSeq(net, 1, n)
  /\ request' = "none"
  /\ srv' = "gone"
  /\ pc' = IF pc = "handshake" THEN "error" ELSE pc
  /\ UNCHANGED <<opts, round, feats, resource, parser, queue, agreed, offered,
                 bound, chatter, history>>

-----------------------------------------------------------------------------
(* negotiate().                                                            *)

Fail == pc' = "error" /\ UNCHANGED <<request, exposed>>

\* send() and the wait() for the answer.  A transport that is being closed
\* refuses to write; without one, send() only warns.
SendThenWait(what, for) ==
  IF conn = "closing" THEN Fail
  ELSE /\ pc' = for
       /\ request' = IF conn = "open" THEN what ELSE request
       /\ exposed' = IF conn = "open" /\ ~tls THEN exposed \cup {what}
                     ELSE exposed

\* A wrong variant, for the mutation runs: the parser is not reset.
Reopen_NoReset(why) ==
  /\ UNCHANGED parser
  /\ round' = why
  /\ SendThenWait("header", "header")

\* _reopenStream(): the parser is reset before the header is sent.
Reopen(why) ==
  /\ parser' = "fresh"
  /\ round' = why
  /\ SendThenWait("header", "header")

\* wait() returns s, the first of the queue.
Receive(s) ==
  /\ pc \in Waits
  /\ queue # <<>> /\ s = Head(queue) /\ s.name \in Awaited[pc]
  /\ queue' = Tail(queue)

PassOver ==
  /\ pc \in Waits
  /\ queue # <<>> /\ Head(queue).name \notin Awaited[pc]
  /\ queue' = Tail(queue)
  /\ UNCHANGED <<client, link, net, request, server, history>>

\* connect() makes its timeout the stream's default, whose setter cuts off the
\* fraction: of less than a second nothing is left, which wait() takes for no
\* timeout.  The form of the registration alone is waited for by the default.
InForce ==
  /\ opts.timeout # "none"
  /\ pc = "form" => opts.timeout = "whole"

\* A wrong variant: the wait for the registration form has no timeout.
TimeOut_NotForForm ==
  /\ InForce
  /\ pc \in Waits \ {"form"}
  /\ ~\E i \in DOMAIN queue : queue[i].name \in Awaited[pc]
  /\ pc' = "error"
  /\ UNCHANGED <<opts, round, feats, resource, link, queue, net, request,
                 server, history>>

\* wait() with a timeout; once its future has a result the timer is void.
TimeOut ==
  /\ InForce
  /\ pc \in Waits
  /\ ~\E i \in DOMAIN queue : queue[i].name \in Awaited[pc]
  /\ pc' = "error"
  /\ UNCHANGED <<opts, round, feats, resource, link, queue, net, request,
                 server, history>>

Begin ==
  /\ pc = "start"
  /\ SendThenWait("header", "header")
  /\ UNCHANGED <<opts, round, feats, resource, link, queue, net, server,
                 tlsOffer>>

GetHeader ==
  /\ pc = "header"
  /\ Receive(Stanza("header", {}))
  /\ pc' = "features"
  /\ UNCHANGED <<opts, round, feats, resource, link, net, request, server,
                 history>>

\* sasl.handle() up to its first wait().  None of the mechanisms may be
\* known, and building the first message may raise.
Authenticate(fs) ==
  \/ "mechanisms" \in fs /\ SendThenWait("auth", "sasl")
  \/ Fail

\* In-band registration comes first.
AfterTls(fs) ==
  IF opts.register THEN SendThenWait("get_form", "form") ELSE Authenticate(fs)

\* A wrong variant: "required" does no more than "on".
TlsRefused_OnlyOff(fs) ==
  opts.tls = "off" /\ {"starttls", "required"} \subseteq fs

\* negotiate() refuses what the client's TLS option rules out.
TlsRefused(fs) ==
  \/ opts.tls = "required" /\ "starttls" \notin fs
  \/ opts.tls = "off" /\ {"starttls", "required"} \subseteq fs

UseTls(fs) == opts.tls # "off" /\ "starttls" \in fs

GetFirstFeatures ==
  /\ pc = "features" /\ round = "plain"
  /\ \E fs \in SUBSET Features :
       /\ Receive(Stanza("features", fs))
       /\ feats' = fs
       /\ tlsOffer' = IF "starttls" \notin fs THEN "none"
                      ELSE IF "required" \in fs THEN "required" ELSE "offered"
       /\ IF TlsRefused(fs) THEN Fail
          ELSE IF UseTls(fs) THEN SendThenWait("starttls", "proceed")
          ELSE AfterTls(fs)
  /\ UNCHANGED <<opts, round, resource, link, net, server>>

GetTlsFeatures ==
  /\ pc = "features" /\ round = "tls"
  /\ \E fs \in SUBSET Features :
       /\ Receive(Stanza("features", fs))
       /\ feats' = fs
       /\ AfterTls(fs)
  /\ UNCHANGED <<opts, round, resource, link, net, server, tlsOffer>>

\* A wrong variant: the result of _reopenStream() is not kept.
GetAuthFeatures_NotKept ==
  /\ pc = "features" /\ round = "auth"
  /\ \E fs \in SUBSET Features :
       /\ Receive(Stanza("features", fs))
       /\ IF "bind" \in fs THEN SendThenWait("bind", "bind") ELSE Fail
  /\ UNCHANGED <<opts, round, feats, resource, link, net, server, tlsOffer>>

\* The features after authentication: bind.handle() begins.
GetAuthFeatures ==
  /\ pc = "features" /\ round = "auth"
  /\ \E fs \in SUBSET Features :
       /\ Receive(Stanza("features", fs))
       /\ feats' = fs
       /\ IF "bind" \in fs THEN SendThenWait("bind", "bind") ELSE Fail
  /\ UNCHANGED <<opts, round, resource, link, net, server, tlsOffer>>

\* starttls.handle(): without an open transport starttls() raises.
GetProceed ==
  /\ pc = "proceed"
  /\ \E name \in Awaited.proceed :
       /\ Receive(Stanza(name, {}))
       /\ pc' = IF name = "proceed" /\ conn = "open" THEN "handshake"
                ELSE "error"
  /\ UNCHANGED <<opts, round, feats, resource, link, net, request, server,
                 history>>

\* starttls() has no timeout.  A handshake that fails closes the connection.
HandshakeDone ==
  /\ pc = "handshake" /\ conn = "open"
  /\ tls' = TRUE
  /\ agreed' = agreed \cup {"tls"}
  /\ pc' = "secured"
  /\ UNCHANGED <<opts, round, feats, resource, conn, parser, queue, net,
                 request, srv, offered, bound, chatter, history>>

\* The task that awaited starttls() goes on.
Secured ==
  /\ pc = "secured"
  /\ Reopen("tls")
  /\ UNCHANGED <<opts, feats, resource, tls, conn, queue, net, server,
                 tlsOffer>>

\* register_cb fills in the form; it may raise.
GetForm ==
  /\ pc = "form"
  /\ \E body \in Granted :
       /\ Receive(Stanza("form", body))
       /\ \/ body # {} /\ SendThenWait("set_form", "registered")
          \/ Fail
  /\ UNCHANGED <<opts, round, feats, resource, link, net, server, tlsOffer>>

\* Whatever the answer is, negotiate() goes on to authenticate.
GetRegistered ==
  /\ pc = "registered"
  /\ \E body \in Granted : Receive(Stanza("registered", body))
  /\ Authenticate(feats)
  /\ UNCHANGED <<opts, round, feats, resource, link, net, server, tlsOffer>>

\* The loop of sasl.handle(); a mechanism may not like a challenge.
GetSasl ==
  /\ pc = "sasl"
  /\ \E name \in Awaited.sasl :
       /\ Receive(Stanza(name, {}))
       /\ CASE name = "success" -> Reopen("auth")
            [] name = "failure" -> Fail /\ UNCHANGED <<round, parser>>
            [] name = "challenge" ->
                 /\ SendThenWait("response", "sasl") \/ Fail
                 /\ UNCHANGED <<round, parser>>
  /\ UNCHANGED <<opts, feats, resource, tls, conn, net, server, tlsOffer>>

\* After bind.handle(): stream management, if both sides have it.  What the
\* mixins do in postSession(), before negotiate() returns, is in Login.
AfterBind ==
  IF "sm" \in feats /\ opts.sm THEN SendThenWait("enable", "sm")
  ELSE pc' = "done" /\ UNCHANGED <<request, exposed>>

\* A wrong variant: a result without a jid is taken for the jid.
GetBound_Unchecked ==
  /\ pc = "bind"
  /\ \E body \in {{}} \cup {{r} : r \in Resources} :
       /\ Receive(Stanza("bound", body))
       /\ resource' = IF body = {} THEN "none" ELSE CHOOSE r \in body : TRUE
       /\ IF "session" \in feats THEN SendThenWait("session", "session")
          ELSE AfterBind
  /\ UNCHANGED <<opts, round, feats, link, net, server, tlsOffer>>

\* bind.handle(): an error is raised, and so is a result without a jid.
GetBound ==
  /\ pc = "bind"
  /\ \/ /\ Receive(Stanza("bound", {}))
        /\ Fail
        /\ UNCHANGED resource
     \/ \E r \in Resources :
          /\ Receive(Stanza("bound", {r}))
          /\ resource' = r
          /\ IF "session" \in feats THEN SendThenWait("session", "session")
             ELSE AfterBind
  /\ UNCHANGED <<opts, round, feats, link, net, server, tlsOffer>>

GetSession ==
  /\ pc = "session"
  /\ \E body \in Granted :
       /\ Receive(Stanza("session", body))
       /\ IF body # {} THEN AfterBind ELSE Fail
  /\ UNCHANGED <<opts, round, feats, resource, link, net, server, tlsOffer>>

\* A wrong variant: <failed/> is not told from <enabled/>.
GetEnabled_OrFailed ==
  /\ pc = "sm"
  /\ \E name \in Awaited.sm : Receive(Stanza(name, {}))
  /\ pc' = "done"
  /\ UNCHANGED <<opts, round, feats, resource, link, net, request, server,
                 history>>

GetEnabled ==
  /\ pc = "sm"
  /\ \E name \in Awaited.sm :
       /\ Receive(Stanza(name, {}))
       /\ IF name = "failed" THEN Fail
          ELSE pc' = "done" /\ UNCHANGED <<request, exposed>>
  /\ UNCHANGED <<opts, round, feats, resource, link, net, server, tlsOffer>>

-----------------------------------------------------------------------------
(* The server.                                                             *)

\* It reads a request and writes these stanzas.
Answer(what, stanzas) ==
  /\ srv # "gone"
  /\ request = what
  /\ request' = "none"
  /\ net' = net \o stanzas
  /\ UNCHANGED <<client, link, queue, history>>

\* TLS is offered only without it, and everything else at will.
AnswerHeader ==
  /\ srv = "closed"
  /\ srv' = "open"
  /\ \E fs \in SUBSET Features :
       /\ "required" \in fs => "starttls" \in fs
       /\ "tls" \in agreed => "starttls" \notin fs
       /\ Answer("header", <<Stanza("header", {}), Stanza("features", fs)>>)
       /\ offered' = fs
  /\ UNCHANGED <<agreed, bound, chatter>>

\* After <proceed/> and <success/> the stream begins anew.
AnswerStarttls ==
  /\ srv = "open"
  /\ \E ok \in BOOLEAN :
       /\ Answer("starttls",
                 <<Stanza(IF ok THEN "proceed" ELSE "failure", {})>>)
       /\ srv' = IF ok THEN "closed" ELSE srv
  /\ UNCHANGED <<agreed, offered, bound, chatter>>

AnswerAuth ==
  /\ srv = "open"
  /\ \E what \in {"auth", "response"}, name \in Awaited.sasl :
       /\ Answer(what, <<Stanza(name, {})>>)
       /\ srv' = IF name = "success" THEN "closed" ELSE srv
       /\ agreed' = IF name = "success" THEN agreed \cup {"auth"} ELSE agreed
  /\ UNCHANGED <<offered, bound, chatter>>

\* A request that may be granted or not.
AnswerRequest ==
  /\ srv = "open"
  /\ \E body \in Granted :
       LET given(what) == IF body = {} THEN {} ELSE {what}
       IN \/ /\ Answer("get_form", <<Stanza("form", body)>>)
             /\ UNCHANGED agreed
          \/ /\ Answer("set_form", <<Stanza("registered", body)>>)
             /\ agreed' = agreed \cup given("registered")
          \/ /\ Answer("session", <<Stanza("session", body)>>)
             /\ agreed' = agreed \cup given("session")
          \/ /\ Answer("enable", <<Stanza(
                        IF body = {} THEN "failed" ELSE "enabled", {})>>)
             /\ agreed' = agreed \cup given("sm")
  /\ UNCHANGED <<srv, offered, bound, chatter>>

\* It binds the resource asked for, or another, and names it, or refuses.
AnswerBind ==
  /\ srv = "open"
  /\ \/ Answer("bind", <<Stanza("bound", {})>>) /\ UNCHANGED bound
     \/ \E r \in Resources : /\ Answer("bind", <<Stanza("bound", {r})>>)
                             /\ bound' = r
  /\ UNCHANGED <<srv, agreed, offered, chatter>>

\* Stanzas that answer nothing come within an open stream only.
Chatter ==
  /\ srv = "open" /\ chatter < MaxChatter
  /\ net' = Append(net, Stanza("other", {}))
  /\ chatter' = chatter + 1
  /\ UNCHANGED <<client, link, queue, request, srv, agreed, offered, bound,
                 history>>

SendStreamError ==
  /\ srv = "open"
  /\ net' = Append(net, Stanza("stream_error", {}))
  /\ srv' = "gone"
  /\ UNCHANGED <<client, link, queue, request, agreed, offered, bound,
                 chatter, history>>

-----------------------------------------------------------------------------
Negotiate ==
  \/ Begin \/ GetHeader \/ GetFirstFeatures \/ GetTlsFeatures
  \/ GetAuthFeatures \/ GetProceed \/ Secured \/ GetForm \/ GetRegistered
  \/ GetSasl \/ GetBound \/ GetSession \/ GetEnabled \/ PassOver

Server ==
  \/ AnswerHeader \/ AnswerStarttls \/ AnswerAuth \/ AnswerRequest
  \/ AnswerBind \/ Chatter \/ SendStreamError

Next ==
  \/ Negotiate \/ TimeOut \/ HandshakeDone
  \/ Parse \/ ConnectionLost \/ Server

Spec == Init /\ [][Next]_vars

\* The event loop runs the tasks and the timers; of the server, nothing is
\* promised.
FairSpec ==
  /\ Spec
  /\ WF_vars(Negotiate) /\ WF_vars(Parse) /\ WF_vars(TimeOut)

-----------------------------------------------------------------------------
(* Properties.                                                             *)

\* Every variable keeps its type (client.py, features/).
TypeOK ==
  /\ opts \in Options
  /\ pc \in Waits \cup Ended \cup {"start", "handshake", "secured"}
  /\ round \in {"plain", "tls", "auth"}
  /\ feats \subseteq Features /\ offered \subseteq Features
  /\ tls \in BOOLEAN /\ tlsOffer \in {"none", "offered", "required"}
  /\ conn \in {"open", "closing", "lost"}
  /\ parser \in {"fresh", "open", "dead"}
  /\ srv \in {"closed", "open", "gone"}
  /\ resource \in Resources /\ bound \in Resources \cup {"none"}
  /\ agreed \subseteq {"tls", "auth", "registered", "session", "sm"}

\* Neither the registration nor the credentials leave the client without TLS
\* when either side requires it, or when it was offered to a client that does
\* not decline (TlsOpts, negotiate): in no order of answers, losses and
\* timeouts.
CredentialsNeedTls ==
  (\/ opts.tls = "required"
   \/ tlsOffer = "required"
   \/ opts.tls = "on" /\ tlsOffer = "offered")
  => exposed \subseteq {"header", "starttls"}

\* What the client decides by are the features of the server's latest stream
\* header, never those of an earlier round (the reassignments of features).
FeaturesAreFresh ==
  pc \in Waits \ {"header", "features"} => feats = offered

\* When negotiate() returns, the server takes the client for authenticated,
\* has bound the very resource the client goes by, and both have the same idea
\* of the session and of stream management.
DoneIsAgreed ==
  pc = "done" =>
    /\ "auth" \in agreed
    /\ bound = resource
    /\ "session" \in agreed <=> "session" \in feats
    /\ "sm" \in agreed <=> (opts.sm /\ "sm" \in feats)
    /\ conn # "lost" => (tls <=> "tls" \in agreed)

\* Each reset of the parser is in time for the document it is meant for: after
\* the last stanza of the old one and before the header of the new one.
ParserSurvives == parser # "dead"

\* "The connected stream is returned" (connect).
ReturnsConnected == [][pc # "done" /\ pc' = "done" => conn = "open"]_vars

\* The waits that no timeout ends: starttls() has none, and the form may be
\* left without one.
Unbounded == pc = "handshake" \/ (pc = "form" /\ opts.timeout # "whole")

\* With a timeout, negotiate() comes to an end whatever the server does or
\* fails to do, but for three servers: one that falls silent during the TLS
\* handshake, one that never sends the form to a client whose timeout is less
\* than a second, and one that does not cease to challenge.
NegotiationEnds ==
  opts.timeout # "none" =>
    \/ <>(pc \in Ended)
    \/ <>[]Unbounded
    \/ []<>(pc = "sasl" /\ queue # <<>> /\ Head(queue).name = "challenge")
=============================================================================
