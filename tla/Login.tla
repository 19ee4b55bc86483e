-------------------------------- MODULE Login --------------------------------
(***************************************************************************)
(* ClientStream.connect() from the name of the server to the session: the  *)
(* resolver with the cache that all clients of a process share, the SASL   *)
(* exchange, and the service discovery of postSession().  What negotiate() *)
(* does besides is in Negotiation; here it succeeds, or the connection is  *)
(* lost or times out.                                                      *)
(***************************************************************************)
EXTENDS Resolver, Sasl, Disco, SequencesExt

CONSTANTS Zones,     \* what the DNS may hold
          Asked,     \* hosts and ports connect() may be given
          Offers,    \* lists of mechanisms a server may have
          Followed   \* bound: the clients that go beyond the connection,
                     \* from where on they share nothing

ASSUME LoginAssumption == \A pair \in Asked : Len(pair) = 2

VARIABLES
  phase,      \* where connect() is
  asked,      \* the host and the port it was given
  login,      \* mechanism, replies; what was offered to whom; whether the
              \* password can be prepared, and all challenges have made sense
  events      \* the callbacks that were signalled

connects == <<phase, asked, login, events>>
vars == <<resolver, disco, connects>>

NewLogin(mech, offer, user, prepared, tls) ==
  [mech |-> mech, offer |-> offer, user |-> user, prepared |-> prepared, tls |-> tls,
   fits |-> TRUE, replies |-> << >>]
NoLogin == NewLogin({}, {}, "none", FALSE, FALSE)

Init ==
  /\ zone \in Zones /\ ResolverInit /\ DiscoInit(Clients)
  /\ phase = [c \in Clients |-> "start"]
  /\ asked = [c \in Clients |-> << >>]
  /\ login = [c \in Clients |-> NoLogin]
  /\ events = [c \in Clients |-> << >>]

Enter(c, p) == phase' = [phase EXCEPT ![c] = p]
Signal(c, e) == events' = [events EXCEPT ![c] = @ \o e]

\* Whatever negotiate() raises is signalled; the transport stays open.
Raise(c, why) == Enter(c, why) /\ Signal(c, <<"streamError">>)

(***************************************************************************)
(* connect() up to the connection.                                         *)
(***************************************************************************)
Connect(c) ==
  /\ May(c) /\ phase[c] = "start"
  /\ \E a \in Asked :
       /\ asked' = [asked EXCEPT ![c] = a]
       /\ stack' = [stack EXCEPT ![c] = << Frame(a[1], a[2]) >>]
  /\ Enter(c, "resolve")
  /\ UNCHANGED <<zone, dnsCache, answer, login, events, disco>>

\* What the call raised, or the address.  Of an IP address only a string came
\* back, and peer = (host.host, ...) raises.
Resolved(c) ==
  /\ May(c) /\ phase[c] = "resolve" /\ Len(stack[c]) = 1 /\ answer[c] # Nothing
  /\ IF answer[c].kind = "address" /\ answer[c].host # Literal
       THEN Enter(c, "connect") /\ Signal(c, <<"connecting">>)
       ELSE Enter(c, "unresolved") /\ UNCHANGED events
  /\ stack' = [stack EXCEPT ![c] = << >>]
  /\ UNCHANGED <<zone, dnsCache, answer, asked, login, disco>>

\* The call of a client after it was resolved.
In(c, p) == May(c) /\ phase[c] = p /\ (p # "connect" => c \in Followed)

Connected(c) ==
  /\ In(c, "connect")
  /\ \/ Enter(c, "features") /\ UNCHANGED events
     \/ Enter(c, "unreachable") /\ Signal(c, <<"connectionFailed">>)
  /\ UNCHANGED <<resolver, disco, asked, login>>

Lost(c) ==
  /\ May(c) /\ c \in Followed
  /\ phase[c] \in {"features", "sasl", "info", "items", "services"}
  /\ Raise(c, "lost")
  /\ UNCHANGED <<resolver, disco, asked, login>>

(***************************************************************************)
(* features/sasl.py.                                                       *)
(***************************************************************************)
\* The mechanism answers, or raises.
Reply(c, l) ==
  LET mech  == CHOOSE m \in l.mech : TRUE
      reply == Process(mech, l, Len(l.replies))
  IN  /\ login' = [login EXCEPT ![c] = [l EXCEPT !.replies = Append(@, reply)]]
      /\ IF reply = "raises" THEN Raise(c, "unable")
         ELSE Enter(c, "sasl") /\ UNCHANGED events

\* A mechanism is chosen from the features; None has no name.
GetFeatures(c) ==
  /\ In(c, "features")
  /\ \E offer \in Offers, user \in Users, prepared, tls \in BOOLEAN :
       LET l == NewLogin(ChooseMechanism(user, offer), offer, user, prepared, tls)
       IN  IF l.mech # {} THEN Reply(c, l)
           ELSE login' = [login EXCEPT ![c] = l] /\ Raise(c, "unable")
  /\ UNCHANGED <<resolver, disco, asked>>

Wanted(l) == UNION {Expects[m] : m \in l.mech \cap l.offer}

GetChallenge(c) ==
  /\ In(c, "sasl")
  /\ \E w \in Wanted(login[c]) : IsStrictPrefix(login[c].replies, w)
  /\ Reply(c, login[c])
  /\ UNCHANGED <<resolver, disco, asked>>

\* A challenge that the mechanism cannot read, or with a nonce that is not its
\* own (scram_hmac.py:118): it raises.
GetBadChallenge(c) ==
  /\ In(c, "sasl")
  /\ login' = [login EXCEPT ![c].fits = FALSE, ![c].replies = Append(@, "raises")]
  /\ Raise(c, "unable")
  /\ UNCHANGED <<resolver, disco, asked>>

\* The session begins: postSession() of DiscoCacheMixin.
GetSuccess(c) ==
  /\ In(c, "sasl") /\ login[c].replies \in Wanted(login[c])
  /\ Enter(c, "info")
  /\ discoCache' = [discoCache EXCEPT ![c] = Empty]
  /\ UNCHANGED <<resolver, toDisco, listed, refused, asked, login, events>>

GetFailure(c) ==
  /\ In(c, "sasl")
  /\ ~\E w \in Wanted(login[c]) : IsPrefix(login[c].replies, w)
  /\ Raise(c, "refused")
  /\ UNCHANGED <<resolver, disco, asked, login>>

(***************************************************************************)
(* protocols/disco.py.                                                     *)
(***************************************************************************)
Done(c, items) ==
  IF items = {} THEN Enter(c, "session") /\ Signal(c, <<"sessionStarted">>)
  ELSE Enter(c, "services") /\ UNCHANGED events

GetInfo(c) ==
  /\ In(c, "info")
  /\ Enter(c, "items")
  /\ UNCHANGED <<resolver, disco, asked, login, events>>

GetItems(c) ==
  /\ In(c, "items")
  /\ \E items \in SUBSET ({Server} \cup Services) : GotItems(c, items) /\ Done(c, items)
  /\ UNCHANGED <<resolver, asked, login>>

GetServiceInfo(c) ==
  /\ In(c, "services")
  /\ \E j \in toDisco[c] : GotItemInfo(c, j) \/ ItemRefused(c, j)
  /\ Done(c, toDisco'[c])
  /\ UNCHANGED <<resolver, asked, login>>

\* The server refuses, or an answer cannot be read.
DiscoFails(c) ==
  /\ May(c) /\ phase[c] \in {"info", "items", "services"}
  /\ Raise(c, "undiscovered")
  /\ UNCHANGED <<resolver, disco, asked, login>>

Next == \E c \in Clients :
  \/ Resolve(c) /\ UNCHANGED <<disco, connects>>
  \/ Connect(c) \/ Resolved(c) \/ Connected(c) \/ Lost(c)
  \/ GetFeatures(c) \/ GetChallenge(c) \/ GetBadChallenge(c) \/ GetSuccess(c)
  \/ GetFailure(c)
  \/ GetInfo(c) \/ GetItems(c) \/ GetServiceInfo(c) \/ DiscoFails(c)

Spec == Init /\ [][Next]_vars

(***************************************************************************)
(* Properties.                                                             *)
(***************************************************************************)
\* A client is given an address of a host that SRV records lead to from the
\* one it asked for, with a port of such a record or one that was asked for
\* with that host, whoever filled the cache and in whatever order the queries
\* of two calls were answered and failed (utils.py:175, 211, 221).
Targets(h) == {srv[1] : srv \in Srvs(h)}
Named == UNION {Targets(h) : h \in DOMAIN zone}
Reaches(h, g) == \A S \in SUBSET ({h} \cup Named) :
                   h \in S /\ (\A x \in S : Targets(x) \subseteq S) => g \in S
PortsOf(g) == {srv[2] : srv \in {s \in UNION {Srvs(h) : h \in DOMAIN zone} : s[1] = g}}
              \cup {asked[c][2] : c \in {d \in Clients : asked[d] # << >> /\ asked[d][1] = g}}
ResolvedIsAsked ==
  \A c \in Clients : answer[c].kind = "address" /\ phase[c] # "resolve" =>
    Reaches(asked[c][1], answer[c].host) /\ answer[c].port \in PortsOf(answer[c].host)

\* With a server that knows the password and sends challenges that make
\* sense, authentication succeeds unless it was hopeless from the start, and
\* then it never does: the strongest mechanism is taken whether or not the
\* engine can finish it (-PLUS, and those that want a token), can use this
\* password (saslprep.py:48) or can write this name (scram_hmac.py:94), even
\* where a weaker one would do; without a user, ANONYMOUS whether or not it is
\* offered (sasl.py:218-246).
Unfinished == {"SCRAM_PLUS", "FACEBOOK", "OAUTH2"}
Hopeless(l) ==
  \/ l.mech = {} \/ ~(l.mech \subseteq l.offer)
  \/ l.mech \cap Unfinished # {}
  \/ l.mech \cap {"PLAIN", "CRAM", "DIGEST", "SCRAM"} # {} /\ ~l.prepared
  \/ "SCRAM" \in l.mech /\ l.user = "delimited"
FailuresAreKnown ==
  \A c \in Clients :
    /\ phase[c] \in {"unable", "refused"} /\ login[c].fits => Hopeless(login[c])
    /\ phase[c] \in {"info", "items", "services", "session"} => ~Hopeless(login[c])

\* When sessionStarted is signalled, the cache holds everything the server
\* listed but what refused to answer, and the server with what it listed,
\* unless it listed itself (disco.py:91-101, 129).
DiscoIsComplete ==
  \A c \in Clients : IsSuffix(<<"sessionStarted">>, events[c]) =>
    /\ DOMAIN discoCache[c] = {Server} \cup (listed[c] \ refused[c])
    /\ Server \notin listed[c] => discoCache[c][Server] = listed[c]
=============================================================================
