----------------------------- MODULE LoginProofs -----------------------------
(***************************************************************************)
(* Proofs about Login, for any DNS, any server and any number of clients   *)
(* that share the cache of the resolver.  Its three parts share the phase  *)
(* of connect(); each has an inductive invariant of its own above Typed:   *)
(* Resolving of the cache and the calls under way, Talking of the SASL     *)
(* exchange, Gathering of the service discovery.                           *)
(***************************************************************************)
EXTENDS Login, SequenceTheorems, TLAPS

\* What names a host and a port: the calls of connect() and the DNS.
Records == UNION {Srvs(h) : h \in DOMAIN zone}
Pairs   == Asked \cup Records
Hosts   == {pair[1] : pair \in Pairs}
Ports   == {pair[2] : pair \in Pairs}
Frames  == [host : Hosts, port : Ports, at : {"called", "srv", "a", "chosen", "rechosen"}]
Addresses == {Address(h, p) : h \in Hosts, p \in Ports}

Phases == {"start", "resolve", "unresolved", "connect", "unreachable", "features", "sasl",
           "unable", "refused", "info", "items", "services", "session", "lost",
           "undiscovered"}
Replies == {"password", "anonymous", "empty", "mac", "digest", "first", "first, bound",
            "first, garbled", "proof", "token", "no token", "raises"}
Logins == [mech : SUBSET Mechanisms, offer : Offers \cup {{}}, user : Users,
           prepared : BOOLEAN, tls : BOOLEAN, fits : BOOLEAN, replies : Seq(Replies)]
Signals == {"connecting", "connectionFailed", "streamError", "sessionStarted"}
Items == {Server} \cup Services

Typed ==
  /\ stack \in [Clients -> Seq(Frames)]
  /\ answer \in [Clients -> Addresses \cup {Nothing, DNSError, RecursionError}]
  /\ asked \in [Clients -> Asked \cup {<< >>}]
  /\ phase \in [Clients -> Phases]
  /\ login \in [Clients -> Logins]
  /\ events \in [Clients -> Seq(Signals)]
  /\ discoCache = [c \in Clients |-> discoCache[c]]
  /\ toDisco \in [Clients -> SUBSET Items]
  /\ listed \in [Clients -> SUBSET Items]
  /\ refused \in [Clients -> SUBSET Items]
  /\ \A h \in DOMAIN dnsCache : dnsCache[h] = List(Srvs(h)) \/ dnsCache[h] \in Addresses

(***************************************************************************)
(* The resolver.                                                           *)
(***************************************************************************)
\* What a call for h may be answered.
Found(h, ans) == Reaches(h, ans.host) /\ ans.port \in PortsOf(ans.host)

\* Each frame asks for a host of a record of the one before.
Chain(s) ==
  /\ s \in Seq(Frames)
  /\ \A i \in 1 .. Len(s) - 1 : s[i + 1].host \in Targets(s[i].host)
  /\ \A i \in 1 .. Len(s) : s[i].port \in PortsOf(s[i].host)

Cached == \A h \in DOMAIN dnsCache : dnsCache[h] \in Addresses => Found(h, dnsCache[h])

Call(c) ==
  /\ stack[c] # << >> =>
       /\ phase[c] = "resolve" /\ asked[c] # << >>
       /\ Chain(stack[c]) /\ stack[c][1].host = asked[c][1]
       /\ answer[c] \in Addresses => Found(Top(c).host, answer[c])
  /\ stack[c] = << >> /\ answer[c] \in Addresses =>
       asked[c] # << >> /\ Found(asked[c][1], answer[c])
  /\ phase[c] = "start" => stack[c] = << >> /\ asked[c] = << >> /\ answer[c] = Nothing

Calls == \A c \in Clients : Call(c)

Resolving == Cached /\ Calls

(***************************************************************************)
(* The SASL exchange.                                                      *)
(***************************************************************************)
\* What a client has answered while the exchange goes on.
Said == [PLAIN |-> {<<"password">>}, ANONYMOUS |-> {<<"anonymous">>},
         CRAM |-> {<<"empty">>, <<"empty", "mac">>},
         DIGEST |-> {<<"empty">>, <<"empty", "digest">>, <<"empty", "digest", "empty">>},
         SCRAM |-> {<<"first">>, <<"first, garbled">>, <<"first", "proof">>,
                    <<"first", "proof", "empty">>},
         SCRAM_PLUS |-> {<<"first">>, <<"first, garbled">>, <<"first, bound">>},
         FACEBOOK |-> {<<"empty">>, <<"empty", "no token">>}, OAUTH2 |-> {}]

\* A first message claims the binding without TLS only, and is garbled if the
\* name is; what needs the password has had it.
SaidBy(m, l, s) ==
  /\ s \in Said[m]
  /\ m = "SCRAM_PLUS" /\ l.tls => s # <<"first, bound">>
  /\ m = "SCRAM" => (l.user = "delimited" <=> s = <<"first, garbled">>)
  /\ m \in {"PLAIN", "CRAM", "DIGEST", "SCRAM"} /\ s # <<"empty">> => l.prepared

Talk(c) ==
  /\ phase[c] = "sasl" =>
       \E m \in Mechanisms : /\ login[c].mech = {m}
                             /\ SaidBy(m, login[c], login[c].replies)
  /\ phase[c] \in {"unable", "refused"} /\ login[c].fits => Hopeless(login[c])
  /\ phase[c] \in {"info", "items", "services", "session"} => ~Hopeless(login[c])

Talking == \A c \in Clients : Talk(c)

(***************************************************************************)
(* The service discovery.                                                  *)
(***************************************************************************)
\* What is in the cache: the server, and what was asked and has answered.
Filled(c) ==
  /\ toDisco[c] \cap refused[c] = {} /\ toDisco[c] \subseteq listed[c]
  /\ DOMAIN discoCache[c] = {Server} \cup (listed[c] \ (refused[c] \cup toDisco[c]))
  /\ Server \notin listed[c] => discoCache[c][Server] = listed[c]

\* The last signal is that the session has started.
Begun(c) == events[c] # << >> /\ events[c][Len(events[c])] = "sessionStarted"

Gather(c) ==
  /\ phase[c] \notin {"services", "session", "lost", "undiscovered"} => refused[c] = {}
  /\ phase[c] \in {"info", "items"} => DOMAIN discoCache[c] = {}
  /\ phase[c] \in {"services", "session"} => Filled(c)
  /\ phase[c] = "session" => toDisco[c] = {}
  /\ Begun(c) => phase[c] = "session"

Gathering == \A c \in Clients : Gather(c)

IInv == Typed /\ Resolving /\ Talking /\ Gathering

-----------------------------------------------------------------------------
(* The types.                                                              *)

LEMMA RecordTypes ==
  /\ \A h, p : /\ Frame(h, p).host = h /\ Frame(h, p).port = p /\ Frame(h, p).at = "called"
               /\ Address(h, p).host = h /\ Address(h, p).port = p
               /\ Address(h, p).kind = "address"
  /\ \A s : List(s).srvs = s /\ List(s).kind = "list"
  /\ Nothing.kind # "address" /\ DNSError.kind # "address" /\ RecursionError.kind # "address"
  /\ \A a \in Addresses : /\ a.kind = "address" /\ a.host \in Hosts /\ a.port \in Ports
                          /\ a = Address(a.host, a.port)
<1>1. \A h, p : /\ Frame(h, p).host = h /\ Frame(h, p).port = p /\ Frame(h, p).at = "called"
                /\ Address(h, p).host = h /\ Address(h, p).port = p
                /\ Address(h, p).kind = "address"
  BY DEF Frame, Address
<1>2. \A s : List(s).srvs = s /\ List(s).kind = "list"
  BY DEF List
<1>3. Nothing.kind # "address" /\ DNSError.kind # "address" /\ RecursionError.kind # "address"
  BY DEF Nothing, DNSError, RecursionError
<1>4. \A a \in Addresses : /\ a.kind = "address" /\ a.host \in Hosts /\ a.port \in Ports
                           /\ a = Address(a.host, a.port)
  BY DEF Addresses, Address
<1> QED
  BY <1>1, <1>2, <1>3, <1>4

LEMMA NoAddress ==
  /\ Nothing \notin Addresses /\ DNSError \notin Addresses /\ RecursionError \notin Addresses
  /\ \A s : List(s) \notin Addresses
BY RecordTypes

\* What the DNS holds does not change, and what was asked is not asked again.
LEMMA SrvsAreRecords ==
  \A h : \A srv \in Srvs(h) : srv \in Records /\ srv[1] \in Hosts /\ srv[2] \in Ports
                              /\ srv[1] \in Targets(h) /\ srv[2] \in PortsOf(srv[1])
<1> TAKE h
<1> TAKE srv \in Srvs(h)
<1>1. h \in DOMAIN zone
  BY DEF Srvs
<1>2. srv \in Records
  BY <1>1 DEF Records
<1>3. srv[1] \in Targets(h)
  BY DEF Targets
<1>4. srv[2] \in PortsOf(srv[1])
  BY <1>2 DEF PortsOf, Records
<1> QED
  BY <1>2, <1>3, <1>4 DEF Hosts, Ports, Pairs

\* The innermost frame, and what becomes of the frames.
LEMMA Frames1 ==
  ASSUME Typed, NEW c \in Clients, stack[c] # << >>
  PROVE  /\ Len(stack[c]) \in Nat /\ Len(stack[c]) >= 1 /\ stack[c] \in Seq(Frames)
         /\ Len(stack[c]) \in 1 .. Len(stack[c]) /\ 1 \in 1 .. Len(stack[c])
         /\ Top(c) \in Frames /\ stack[c][1] \in Frames
<1>1. stack[c] \in Seq(Frames)
  BY DEF Typed
<1>2. Len(stack[c]) \in Nat /\ Len(stack[c]) >= 1
  BY <1>1, LenProperties, EmptySeq
<1>3. Len(stack[c]) \in 1 .. Len(stack[c]) /\ 1 \in 1 .. Len(stack[c])
  BY <1>2
<1>4. stack[c][Len(stack[c])] \in Frames /\ stack[c][1] \in Frames
  BY <1>1, <1>3, ElementOfSeq
<1> QED
  BY <1>1, <1>2, <1>3, <1>4 DEF Top

LEMMA Moved ==
  ASSUME Typed, NEW c \in Clients, stack[c] # << >>,
         NEW at \in {"called", "srv", "a", "chosen", "rechosen"}
  PROVE  /\ Move(c, at) = [stack EXCEPT ![c] = [stack[c] EXCEPT ![Len(stack[c])].at = at]]
         /\ Move(c, at)[c] \in Seq(Frames) /\ Len(Move(c, at)[c]) = Len(stack[c])
         /\ \A i \in 1 .. Len(stack[c]) : /\ Move(c, at)[c][i].host = stack[c][i].host
                                          /\ Move(c, at)[c][i].port = stack[c][i].port
<1> DEFINE s == stack[c]
           n == Len(stack[c])
           f == [s[n] EXCEPT !.at = at]
           t == [s EXCEPT ![n] = f]
<1>1. /\ s \in Seq(Frames) /\ n \in 1 .. n /\ n \in Nat /\ s[n] \in Frames
  BY Frames1 DEF Top
<1>2. f \in Frames /\ f.host = s[n].host /\ f.port = s[n].port
  BY <1>1 DEF Frames
<1>3. /\ t \in Seq(Frames) /\ Len(t) = n
      /\ \A i \in 1 .. n : t[i] = IF i = n THEN f ELSE s[i]
  <2> HIDE DEF f
  <2> QED
    BY <1>1, <1>2, ExceptSeq
<1>4. Move(c, at) = [stack EXCEPT ![c] = t]
  BY DEF Move
<1>5. Move(c, at)[c] = t
  BY <1>4 DEF Typed
<1>6. \A i \in 1 .. n : t[i].host = s[i].host /\ t[i].port = s[i].port
  BY <1>2, <1>3
<1> QED
  BY <1>3, <1>4, <1>5, <1>6

LEMMA Nested ==
  ASSUME Typed, NEW c \in Clients, stack[c] # << >>,
         NEW at \in {"called", "srv", "a", "chosen", "rechosen"},
         NEW h, NEW srv \in Srvs(h)
  PROVE  \E t : /\ Nest(c, at, srv) = [stack EXCEPT ![c] = t]
                /\ t \in Seq(Frames) /\ Len(t) = Len(stack[c]) + 1
                /\ \A i \in 1 .. Len(stack[c]) : /\ t[i].host = stack[c][i].host
                                                 /\ t[i].port = stack[c][i].port
                /\ t[Len(stack[c]) + 1] = Frame(srv[1], srv[2])
<1> DEFINE s == Move(c, at)[c]
           f == Frame(srv[1], srv[2])
           t == Append(s, f)
<1>1. /\ s \in Seq(Frames) /\ Len(s) = Len(stack[c]) /\ Len(stack[c]) \in Nat
      /\ \A i \in 1 .. Len(stack[c]) : /\ s[i].host = stack[c][i].host
                                       /\ s[i].port = stack[c][i].port
  BY Moved, Frames1
<1>2. f \in Frames
  BY SrvsAreRecords DEF Frame, Frames
<1>3. Nest(c, at, srv) = [stack EXCEPT ![c] = t]
  BY DEF Nest
<1> HIDE DEF s, f
<1>4. /\ t \in Seq(Frames) /\ Len(t) = Len(s) + 1
      /\ \A i \in 1 .. Len(s) : t[i] = s[i]
      /\ t[Len(s) + 1] = f
  BY <1>1, <1>2, AppendProperties
<1> HIDE DEF t
<1>5. t[Len(stack[c]) + 1] = Frame(srv[1], srv[2])
  BY <1>1, <1>4 DEF f
<1> QED
  BY <1>1, <1>3, <1>4, <1>5

LEMMA Popped ==
  ASSUME Typed, NEW c \in Clients, Len(stack[c]) > 1
  PROVE  /\ Pop(c) \in Seq(Frames) /\ Len(Pop(c)) = Len(stack[c]) - 1 /\ Len(stack[c]) \in Nat
         /\ \A i \in 1 .. Len(stack[c]) - 1 : Pop(c)[i] = stack[c][i]
         /\ Outer(c) = Pop(c)[Len(stack[c]) - 1] /\ Outer(c) \in Frames
<1>1. stack[c] \in Seq(Frames) /\ Len(stack[c]) \in Nat
  BY LenProperties DEF Typed
<1>2. \A i \in 1 .. Len(stack[c]) : stack[c][i] \in Frames
  BY <1>1, ElementOfSeq
<1>3. /\ Pop(c) \in Seq(Frames) /\ Len(Pop(c)) = Len(stack[c]) - 1
      /\ \A i \in 1 .. Len(stack[c]) - 1 : Pop(c)[i] = stack[c][i]
  BY <1>1, <1>2 DEF Pop
<1>4. Len(stack[c]) - 1 \in 1 .. Len(stack[c]) - 1 /\ Len(stack[c]) - 1 \in 1 .. Len(stack[c])
  BY <1>1
<1>5. Outer(c) = stack[c][Len(stack[c]) - 1]
  BY DEF Outer
<1> QED
  BY <1>1, <1>2, <1>3, <1>4, <1>5

-----------------------------------------------------------------------------
(* Where SRV records lead.                                                 *)

\* The sets that Reaches asks about may be cut down to the hosts in question.
LEMMA ReachesItself ==
  \A h : Reaches(h, h)
BY DEF Reaches

LEMMA ReachesOn ==
  ASSUME NEW h, NEW x \in Targets(h), NEW g, Reaches(x, g)
  PROVE  Reaches(h, g)
<1> SUFFICES ASSUME NEW S \in SUBSET ({h} \cup Named), h \in S,
                    \A y \in S : Targets(y) \subseteq S
             PROVE  g \in S
  BY DEF Reaches
<1> DEFINE T == S \cap ({x} \cup Named)
<1>1. \A y : Targets(y) \subseteq Named
  BY DEF Targets, Named, Srvs
<1>2. x \in S
  OBVIOUS
<1>3. T \in SUBSET ({x} \cup Named) /\ x \in T
  BY <1>2
<1>4. \A y \in T : Targets(y) \subseteq T
  BY <1>1
<1>5. g \in T
  <2> HIDE DEF T
  <2> QED
    BY <1>3, <1>4 DEF Reaches
<1> QED
  BY <1>5

\* Frames that ask for the same are as good a chain, and one more may follow.
LEMMA ChainAlike ==
  ASSUME NEW s, Chain(s), NEW t \in Seq(Frames), Len(t) <= Len(s),
         \A i \in 1 .. Len(t) : t[i].host = s[i].host /\ t[i].port = s[i].port
  PROVE  Chain(t)
<1>1. Len(s) \in Nat /\ Len(t) \in Nat
  BY LenProperties DEF Chain
<1>2. ASSUME NEW i \in 1 .. Len(t) - 1
      PROVE  t[i + 1].host \in Targets(t[i].host)
  <2>1. i \in 1 .. Len(t) /\ i + 1 \in 1 .. Len(t) /\ i \in 1 .. Len(s) - 1
    BY <1>1
  <2>2. s[i + 1].host \in Targets(s[i].host)
    BY <2>1 DEF Chain
  <2> QED
    BY <2>1, <2>2
<1>3. ASSUME NEW i \in 1 .. Len(t)
      PROVE  t[i].port \in PortsOf(t[i].host)
  <2>1. i \in 1 .. Len(s)
    BY <1>1
  <2> QED
    BY <2>1 DEF Chain
<1> QED
  BY <1>2, <1>3 DEF Chain

LEMMA ChainLonger ==
  ASSUME NEW s, Chain(s), s # << >>, NEW t \in Seq(Frames), Len(t) = Len(s) + 1,
         \A i \in 1 .. Len(s) : t[i].host = s[i].host /\ t[i].port = s[i].port,
         t[Len(s) + 1].host \in Targets(s[Len(s)].host),
         t[Len(s) + 1].port \in PortsOf(t[Len(s) + 1].host)
  PROVE  Chain(t)
<1>1. Len(s) \in Nat /\ Len(s) >= 1
  BY LenProperties, EmptySeq DEF Chain
<1>2. ASSUME NEW i \in 1 .. Len(t) - 1
      PROVE  t[i + 1].host \in Targets(t[i].host)
  <2>1. i \in 1 .. Len(s)
    BY <1>1
  <2>2. CASE i = Len(s)
    BY <2>1, <2>2
  <2>3. CASE i < Len(s)
    <3>1. i + 1 \in 1 .. Len(s) /\ i \in 1 .. Len(s) - 1
      BY <1>1, <2>1, <2>3
    <3>2. s[i + 1].host \in Targets(s[i].host)
      BY <3>1 DEF Chain
    <3> QED
      BY <2>1, <3>1, <3>2
  <2> QED
    BY <1>1, <2>1, <2>2, <2>3
<1>3. ASSUME NEW i \in 1 .. Len(t)
      PROVE  t[i].port \in PortsOf(t[i].host)
  <2>1. i \in 1 .. Len(s) \/ i = Len(s) + 1
    BY <1>1
  <2> QED
    BY <2>1 DEF Chain
<1> QED
  BY <1>2, <1>3 DEF Chain

-----------------------------------------------------------------------------
(* One step of the resolver.                                               *)

\* What a call's innermost frame may be told.
Answers == Addresses \cup {Nothing, DNSError, RecursionError}

\* The frames t that the client c may be left with, and the answer a.
Left(c, t, a) ==
  /\ Chain(t) /\ t # << >> /\ t[1].host = stack[c][1].host
  /\ a \in Answers /\ (a \in Addresses => Found(t[Len(t)].host, a))

\* What is put into the cache.
Learnt(h, v) == v = List(Srvs(h)) \/ (v \in Addresses /\ Found(h, v))

LEMMA Innermost ==
  ASSUME Typed, Resolving, NEW c \in Clients, stack[c] # << >>
  PROVE  /\ Chain(stack[c]) /\ Len(stack[c]) \in 1 .. Len(stack[c]) /\ Len(stack[c]) \in Nat
         /\ Top(c) = stack[c][Len(stack[c])]
         /\ Top(c).host \in Hosts /\ Top(c).port \in Ports
         /\ Top(c).port \in PortsOf(Top(c).host)
         /\ answer[c] \in Answers
         /\ stack = [stack EXCEPT ![c] = stack[c]] /\ answer = [answer EXCEPT ![c] = answer[c]]
         /\ Left(c, stack[c], answer[c])
<1>1. Chain(stack[c]) /\ (answer[c] \in Addresses => Found(Top(c).host, answer[c]))
  BY DEF Resolving, Calls, Call
<1>2. Len(stack[c]) \in 1 .. Len(stack[c]) /\ Len(stack[c]) \in Nat /\ Top(c) \in Frames
  BY Frames1
<1>3. Top(c) = stack[c][Len(stack[c])] /\ Top(c).host \in Hosts /\ Top(c).port \in Ports
  BY <1>2 DEF Top, Frames
<1>4. Top(c).port \in PortsOf(Top(c).host)
  BY <1>1, <1>2, <1>3 DEF Chain
<1>5. answer[c] \in Answers
  BY DEF Typed, Answers
<1>6. stack = [stack EXCEPT ![c] = stack[c]] /\ answer = [answer EXCEPT ![c] = answer[c]]
  BY DEF Typed
<1>7. Left(c, stack[c], answer[c])
  BY <1>1, <1>3, <1>5 DEF Left
<1> QED
  BY <1>1, <1>2, <1>3, <1>4, <1>5, <1>6, <1>7

\* A frame that goes on to another query, or asks for the host of a record.
LEMMA GoesOn ==
  ASSUME Typed, Resolving, NEW c \in Clients, stack[c] # << >>, answer[c] = Nothing,
         NEW at \in {"called", "srv", "a", "chosen", "rechosen"}
  PROVE  /\ \E t : Move(c, at) = [stack EXCEPT ![c] = t] /\ Left(c, t, Nothing)
         /\ \A srv \in Srvs(Top(c).host) :
              \E t : Nest(c, at, srv) = [stack EXCEPT ![c] = t] /\ Left(c, t, Nothing)
<1>1. /\ Chain(stack[c]) /\ Len(stack[c]) \in 1 .. Len(stack[c]) /\ Len(stack[c]) \in Nat
      /\ Top(c) = stack[c][Len(stack[c])]
  BY Innermost
<1>2. Nothing \in Answers /\ Nothing \notin Addresses
  BY NoAddress DEF Answers
<1>3. \E t : Move(c, at) = [stack EXCEPT ![c] = t] /\ Left(c, t, Nothing)
  <2> DEFINE t == Move(c, at)[c]
  <2>1. /\ Move(c, at) = [stack EXCEPT ![c] = [stack[c] EXCEPT ![Len(stack[c])].at = at]]
        /\ t \in Seq(Frames) /\ Len(t) = Len(stack[c])
        /\ \A i \in 1 .. Len(stack[c]) : /\ t[i].host = stack[c][i].host
                                         /\ t[i].port = stack[c][i].port
    BY Moved
  <2>2. Move(c, at) = [stack EXCEPT ![c] = t]
    BY <2>1 DEF Typed
  <2> HIDE DEF t
  <2>3. Chain(t)
    BY <1>1, <2>1, ChainAlike
  <2>4. t # << >> /\ t[1].host = stack[c][1].host
    BY <1>1, <2>1
  <2> QED
    BY <1>2, <2>2, <2>3, <2>4 DEF Left
<1>4. ASSUME NEW srv \in Srvs(Top(c).host)
      PROVE  \E t : Nest(c, at, srv) = [stack EXCEPT ![c] = t] /\ Left(c, t, Nothing)
  <2>1. PICK t : /\ Nest(c, at, srv) = [stack EXCEPT ![c] = t]
                 /\ t \in Seq(Frames) /\ Len(t) = Len(stack[c]) + 1
                 /\ \A i \in 1 .. Len(stack[c]) : /\ t[i].host = stack[c][i].host
                                                  /\ t[i].port = stack[c][i].port
                 /\ t[Len(stack[c]) + 1] = Frame(srv[1], srv[2])
    BY Nested
  <2>2. /\ t[Len(stack[c]) + 1].host \in Targets(stack[c][Len(stack[c])].host)
        /\ t[Len(stack[c]) + 1].port \in PortsOf(t[Len(stack[c]) + 1].host)
    BY <1>1, <2>1, SrvsAreRecords, RecordTypes
  <2>3. Chain(t)
    BY <1>1, <2>1, <2>2, ChainLonger
  <2>4. t # << >> /\ t[1].host = stack[c][1].host
    BY <1>1, <2>1
  <2> QED
    BY <1>2, <2>1, <2>3, <2>4 DEF Left
<1> QED
  BY <1>3, <1>4

\* What the cache knows.
LEMMA CacheKnows ==
  ASSUME Typed, Resolving, NEW h \in DOMAIN dnsCache
  PROVE  /\ dnsCache[h].kind = "list" => dnsCache[h].srvs = Srvs(h)
         /\ dnsCache[h].kind = "address" => dnsCache[h] \in Addresses /\ Found(h, dnsCache[h])
<1>1. dnsCache[h] = List(Srvs(h)) \/ dnsCache[h] \in Addresses
  BY DEF Typed
<1> QED
  BY <1>1, RecordTypes DEF Resolving, Cached

LEMMA LookupStep ==
  ASSUME Typed, Resolving, NEW c \in Clients, Lookup(c) \/ TooDeep(c)
  PROVE  /\ stack[c] # << >> /\ zone' = zone /\ dnsCache' = dnsCache
         /\ \E t, a : /\ stack' = [stack EXCEPT ![c] = t] /\ answer' = [answer EXCEPT ![c] = a]
                      /\ Left(c, t, a)
<1>1. stack[c] # << >> /\ answer[c] = Nothing /\ zone' = zone /\ dnsCache' = dnsCache
  BY DEF Lookup, TooDeep, At
<1> DEFINE host == Top(c).host
<1>2. /\ Chain(stack[c]) /\ host \in Hosts /\ Top(c).port \in Ports
      /\ Top(c) = stack[c][Len(stack[c])]
      /\ Top(c).port \in PortsOf(host)
      /\ stack = [stack EXCEPT ![c] = stack[c]] /\ answer = [answer EXCEPT ![c] = answer[c]]
      /\ Left(c, stack[c], answer[c])
  BY <1>1, Innermost
<1>3. ASSUME NEW a \in Answers, a \in Addresses => Found(host, a)
      PROVE  Left(c, stack[c], a)
  BY <1>1, <1>2, <1>3 DEF Left
<1>4. CASE TooDeep(c)
  <2>1. answer' = [answer EXCEPT ![c] = RecursionError] /\ stack' = stack
    BY <1>4 DEF TooDeep, Answer
  <2>2. Left(c, stack[c], RecursionError)
    BY <1>3, NoAddress DEF Answers
  <2> QED
    BY <1>1, <1>2, <2>1, <2>2
<1>5. ASSUME host \in DOMAIN dnsCache, dnsCache[host].kind = "list",
             NEW srv \in dnsCache[host].srvs, stack' = Nest(c, "rechosen", srv),
             answer' = answer
      PROVE  \E t, a : /\ stack' = [stack EXCEPT ![c] = t]
                       /\ answer' = [answer EXCEPT ![c] = a] /\ Left(c, t, a)
  <2>1. srv \in Srvs(Top(c).host)
    BY <1>5, CacheKnows
  <2>2. PICK t : Nest(c, "rechosen", srv) = [stack EXCEPT ![c] = t] /\ Left(c, t, Nothing)
    BY <1>1, <2>1, GoesOn
  <2> QED
    BY <1>1, <1>2, <1>5, <2>2
<1>6. ASSUME host \in DOMAIN dnsCache, dnsCache[host].kind = "address",
             answer' = [answer EXCEPT ![c] = dnsCache[host]], stack' = stack
      PROVE  \E t, a : /\ stack' = [stack EXCEPT ![c] = t]
                       /\ answer' = [answer EXCEPT ![c] = a] /\ Left(c, t, a)
  <2>1. dnsCache[host] \in Addresses /\ Found(host, dnsCache[host])
    BY <1>6, CacheKnows
  <2>2. Left(c, stack[c], dnsCache[host])
    BY <1>3, <2>1 DEF Answers
  <2> QED
    BY <1>2, <1>6, <2>2
<1>7. ASSUME answer' = [answer EXCEPT ![c] = Address(host, Top(c).port)], stack' = stack
      PROVE  \E t, a : /\ stack' = [stack EXCEPT ![c] = t]
                       /\ answer' = [answer EXCEPT ![c] = a] /\ Left(c, t, a)
  <2>1. Address(host, Top(c).port) \in Addresses
    BY <1>2 DEF Addresses
  <2>2. Found(host, Address(host, Top(c).port))
    BY <1>2, ReachesItself, RecordTypes DEF Found
  <2>3. Left(c, stack[c], Address(host, Top(c).port))
    BY <1>3, <2>1, <2>2 DEF Answers
  <2> QED
    BY <1>2, <1>7, <2>3
<1>8. ASSUME stack' = Move(c, "srv"), answer' = answer
      PROVE  \E t, a : /\ stack' = [stack EXCEPT ![c] = t]
                       /\ answer' = [answer EXCEPT ![c] = a] /\ Left(c, t, a)
  <2>1. PICK t : Move(c, "srv") = [stack EXCEPT ![c] = t] /\ Left(c, t, Nothing)
    BY <1>1, GoesOn
  <2> QED
    BY <1>1, <1>2, <1>8, <2>1
<1>9. CASE Lookup(c)
  BY <1>1, <1>5, <1>6, <1>7, <1>8, <1>9 DEF Lookup, Answer
<1> QED
  BY <1>1, <1>4, <1>9

LEMMA QueryStep ==
  ASSUME Typed, Resolving, NEW c \in Clients, GotSrv(c) \/ NoSrv(c) \/ GotA(c) \/ NoA(c)
  PROVE  /\ stack[c] # << >> /\ zone' = zone
         /\ \E t, a : /\ stack' = [stack EXCEPT ![c] = t] /\ answer' = [answer EXCEPT ![c] = a]
                      /\ Left(c, t, a)
         /\ \/ dnsCache' = dnsCache
            \/ \E h, v : dnsCache' = Put(dnsCache, h, v) /\ Learnt(h, v)
<1>1. stack[c] # << >> /\ answer[c] = Nothing /\ zone' = zone
  BY DEF GotSrv, NoSrv, GotA, NoA, At
<1> DEFINE host == Top(c).host
           address == Address(host, Top(c).port)
<1>2. /\ host \in Hosts /\ Top(c).port \in Ports /\ Top(c).port \in PortsOf(host)
      /\ Top(c) = stack[c][Len(stack[c])]
      /\ stack = [stack EXCEPT ![c] = stack[c]] /\ answer = [answer EXCEPT ![c] = answer[c]]
      /\ Left(c, stack[c], answer[c])
  BY <1>1, Innermost
<1>3. \E t : Move(c, "a") = [stack EXCEPT ![c] = t] /\ Left(c, t, Nothing)
  BY <1>1, GoesOn
<1>4. CASE NoSrv(c)
  BY <1>1, <1>2, <1>3, <1>4 DEF NoSrv
<1>5. CASE NoA(c)
  <2>1. Left(c, stack[c], DNSError)
    BY <1>2, NoAddress DEF Left, Answers
  <2> QED
    BY <1>1, <1>2, <1>5, <2>1 DEF NoA, Answer
<1>6. CASE GotA(c)
  <2>1. address \in Addresses
    BY <1>2 DEF Addresses
  <2>2. Found(host, address)
    BY <1>2, ReachesItself, RecordTypes DEF Found
  <2>3. Left(c, stack[c], address) /\ Learnt(host, address)
    BY <1>2, <2>1, <2>2 DEF Left, Answers, Learnt
  <2>4. /\ dnsCache' = Put(dnsCache, host, address) /\ stack' = stack
        /\ answer' = [answer EXCEPT ![c] = address]
    BY <1>6 DEF GotA, Answer
  <2> QED
    BY <1>1, <1>2, <2>3, <2>4
<1>7. CASE GotSrv(c)
  <2>1. dnsCache' = Put(dnsCache, host, List(Srvs(host))) /\ Learnt(host, List(Srvs(host)))
    BY <1>7 DEF GotSrv, Learnt
  <2>2. PICK srv \in Srvs(host) :
          stack' = IF srv[1] # host THEN Nest(c, "chosen", srv) ELSE Move(c, "a")
    BY <1>7 DEF GotSrv
  <2>3. \E t : Nest(c, "chosen", srv) = [stack EXCEPT ![c] = t] /\ Left(c, t, Nothing)
    BY <1>1, <2>2, GoesOn
  <2>4. \E t : stack' = [stack EXCEPT ![c] = t] /\ Left(c, t, Nothing)
    BY <1>3, <2>2, <2>3
  <2>5. answer' = [answer EXCEPT ![c] = Nothing]
    BY <1>1, <1>2, <1>7 DEF GotSrv
  <2> QED
    BY <1>1, <2>1, <2>4, <2>5
<1> QED
  BY <1>4, <1>5, <1>6, <1>7

\* An inner call returns, or its error is caught.
LEMMA UnwindStep ==
  ASSUME Typed, Resolving, NEW c \in Clients, Unwind(c) \/ FallBack(c)
  PROVE  /\ stack[c] # << >> /\ zone' = zone
         /\ \E t, a : /\ stack' = [stack EXCEPT ![c] = t] /\ answer' = [answer EXCEPT ![c] = a]
                      /\ Left(c, t, a)
         /\ \/ dnsCache' = dnsCache
            \/ \E h, v : dnsCache' = Put(dnsCache, h, v) /\ Learnt(h, v)
<1>1. Len(stack[c]) > 1 /\ zone' = zone
  BY DEF Unwind, FallBack, Unwinding
<1>2. stack[c] # << >>
  BY <1>1
<1> DEFINE n == Len(stack[c]) - 1
           s == Pop(c)
<1>3. /\ s \in Seq(Frames) /\ Len(s) = n /\ Len(stack[c]) \in Nat
      /\ \A i \in 1 .. n : s[i] = stack[c][i]
      /\ Outer(c) = s[n] /\ Outer(c) \in Frames
  BY <1>1, Popped
<1>4. n \in 1 .. n /\ 1 \in 1 .. n /\ n \in Nat /\ n + 1 = Len(stack[c])
  BY <1>1, <1>3
<1>5. /\ Chain(stack[c]) /\ answer[c] \in Answers /\ Top(c) = stack[c][n + 1]
      /\ answer = [answer EXCEPT ![c] = answer[c]] /\ Left(c, stack[c], answer[c])
  BY <1>2, <1>4, Innermost
<1> HIDE DEF s, n
<1>6. Chain(s) /\ s # << >> /\ s[1].host = stack[c][1].host
  BY <1>3, <1>4, <1>5, ChainAlike
<1>7. Top(c).host \in Targets(Outer(c).host)
  <2>1. n \in 1 .. Len(stack[c]) - 1
    BY <1>3, <1>4
  <2>2. stack[c][n + 1].host \in Targets(stack[c][n].host)
    BY <1>5, <2>1 DEF Chain
  <2> QED
    BY <1>3, <1>4, <1>5, <2>2
<1>8. answer[c] \in Addresses => Found(Outer(c).host, answer[c])
  <2> HAVE answer[c] \in Addresses
  <2>1. Found(Top(c).host, answer[c])
    BY <1>2 DEF Resolving, Calls, Call
  <2> QED
    BY <1>7, <2>1, ReachesOn DEF Found
<1>9. CASE Unwind(c)
  <2>1. Left(c, s, answer[c])
    BY <1>3, <1>5, <1>6, <1>8 DEF Left
  <2>2. stack' = [stack EXCEPT ![c] = s] /\ answer' = answer
    BY <1>9 DEF Unwind, s
  <2>3. answer[c].kind = "address" => answer[c] \in Addresses
    BY <1>5, RecordTypes DEF Answers
  <2>4. \/ dnsCache' = dnsCache
        \/ answer[c].kind = "address" /\ dnsCache' = Put(dnsCache, Outer(c).host, answer[c])
    BY <1>9 DEF Unwind
  <2>5. answer[c].kind = "address" => Learnt(Outer(c).host, answer[c])
    BY <1>8, <2>3 DEF Learnt
  <2> QED
    BY <1>1, <1>2, <1>5, <2>1, <2>2, <2>4, <2>5
<1>10. CASE FallBack(c)
  <2> DEFINE f == [s[n] EXCEPT !.at = "a"]
             t == [s EXCEPT ![n] = f]
  <2>1. f \in Frames /\ f.host = s[n].host /\ f.port = s[n].port
    BY <1>3 DEF Frames
  <2>2. stack' = [stack EXCEPT ![c] = t] /\ answer' = [answer EXCEPT ![c] = Nothing]
        /\ dnsCache' = dnsCache
    <3>1. Len(Pop(c)) = n
      BY <1>3 DEF s
    <3> QED
      BY <1>10, <3>1 DEF FallBack, Answer, s
  <2> HIDE DEF f
  <2>3. /\ t \in Seq(Frames) /\ Len(t) = n
        /\ \A i \in 1 .. n : t[i] = IF i = n THEN f ELSE s[i]
    BY <1>3, <1>4, <2>1, ExceptSeq
  <2> HIDE DEF t
  <2>a. /\ Len(t) <= Len(s)
        /\ \A i \in 1 .. Len(t) : t[i].host = s[i].host /\ t[i].port = s[i].port
    BY <1>3, <1>4, <2>1, <2>3
  <2>4. Chain(t)
    BY <1>6, <2>3, <2>a, ChainAlike
  <2>5. t # << >> /\ t[1].host = s[1].host
    BY <1>4, <2>1, <2>3
  <2>6. Left(c, t, Nothing)
    BY <1>6, <2>4, <2>5, NoAddress DEF Left, Answers
  <2> QED
    BY <1>1, <1>2, <2>2, <2>6
<1> QED
  BY <1>9, <1>10

-----------------------------------------------------------------------------
(* What all clients are told stands while one of them goes on.             *)

LEMMA Steady ==
  ASSUME zone' = zone
  PROVE  /\ Records' = Records /\ Hosts' = Hosts /\ Ports' = Ports
         /\ Frames' = Frames /\ Addresses' = Addresses
         /\ \A h : Srvs(h)' = Srvs(h) /\ Targets(h)' = Targets(h)
         /\ \A h, g : Reaches(h, g) => Reaches(h, g)'
<1>1. \A h : Srvs(h)' = Srvs(h)
  BY DEF Srvs
<1>2. Records' = Records
  BY <1>1 DEF Records
<1>3. Hosts' = Hosts /\ Ports' = Ports
  BY <1>2 DEF Hosts, Ports, Pairs
<1>4. Frames' = Frames /\ Addresses' = Addresses
  BY <1>3 DEF Frames, Addresses
<1>5. \A h : Targets(h)' = Targets(h)
  BY <1>1 DEF Targets
<1>6. Named' = Named
  BY <1>5 DEF Named
<1>7. \A h, g : Reaches(h, g) => Reaches(h, g)'
  BY <1>5, <1>6 DEF Reaches
<1> QED
  BY <1>1, <1>2, <1>3, <1>4, <1>5, <1>7

\* Who has asked for a host and a port still has.
Lasting == /\ zone' = zone
           /\ \A d \in Clients : asked[d] # << >> => asked'[d] = asked[d]

LEMMA StillFound ==
  ASSUME Lasting
  PROVE  /\ \A g : PortsOf(g) \subseteq PortsOf(g)'
         /\ \A h, ans : Found(h, ans) => Found(h, ans)'
         /\ \A s : Chain(s) => Chain(s)'
<1>1. zone' = zone
  BY DEF Lasting
<1>2. /\ Frames' = Frames
      /\ \A h : Srvs(h)' = Srvs(h)
      /\ \A h : Targets(h)' = Targets(h)
      /\ \A h, g : Reaches(h, g) => Reaches(h, g)'
  BY <1>1, Steady
<1>3. ASSUME NEW g
      PROVE  PortsOf(g) \subseteq PortsOf(g)'
  <2>1. \A d \in Clients : asked[d] # << >> => asked'[d] = asked[d]
    BY DEF Lasting
  <2>2. UNION {Srvs(h) : h \in DOMAIN zone} = UNION {Srvs(h)' : h \in DOMAIN zone'}
    BY <1>1, <1>2
  <2> QED
    BY <2>1, <2>2 DEF PortsOf
<1>4. \A h, ans : Found(h, ans) => Found(h, ans)'
  BY <1>2, <1>3 DEF Found
<1>5. \A s : Chain(s) => Chain(s)'
  BY <1>2, <1>3 DEF Chain
<1> QED
  BY <1>3, <1>4, <1>5

LEMMA ResolveStep ==
  ASSUME IInv, NEW c \in Clients, Resolve(c), UNCHANGED <<disco, connects>>
  PROVE  Typed' /\ Resolving'
<1>1. Typed /\ Resolving /\ Cached /\ Calls
  BY DEF IInv, Resolving
<1>2. /\ stack[c] # << >> /\ zone' = zone
      /\ \E t, ans : /\ stack' = [stack EXCEPT ![c] = t] /\ answer' = [answer EXCEPT ![c] = ans]
                     /\ Left(c, t, ans)
      /\ \/ dnsCache' = dnsCache
         \/ \E h, v : dnsCache' = Put(dnsCache, h, v) /\ Learnt(h, v)
  <2>1. CASE Lookup(c) \/ TooDeep(c)
    BY <1>1, <2>1, LookupStep
  <2>2. CASE GotSrv(c) \/ NoSrv(c) \/ GotA(c) \/ NoA(c)
    BY <1>1, <2>2, QueryStep
  <2>3. CASE Unwind(c) \/ FallBack(c)
    BY <1>1, <2>3, UnwindStep
  <2> QED
    BY <2>1, <2>2, <2>3 DEF Resolve
<1>3. PICK t, ans : /\ stack' = [stack EXCEPT ![c] = t] /\ answer' = [answer EXCEPT ![c] = ans]
                    /\ Left(c, t, ans)
  BY <1>2
<1>4. /\ discoCache' = discoCache /\ toDisco' = toDisco /\ listed' = listed
      /\ refused' = refused /\ phase' = phase /\ asked' = asked /\ login' = login
      /\ events' = events
  BY DEF disco, connects
<1>5. Lasting
  BY <1>2, <1>4 DEF Lasting
<1>6. Frames' = Frames /\ Addresses' = Addresses /\ \A h : Srvs(h)' = Srvs(h)
  BY <1>2, Steady
<1>7. t \in Seq(Frames) /\ ans \in Answers
  BY <1>3 DEF Left, Chain
<1>8. \A h \in DOMAIN dnsCache' :
        /\ dnsCache'[h] = List(Srvs(h)) \/ dnsCache'[h] \in Addresses
        /\ dnsCache'[h] \in Addresses => Found(h, dnsCache'[h])
  <2>1. \A h \in DOMAIN dnsCache :
          /\ dnsCache[h] = List(Srvs(h)) \/ dnsCache[h] \in Addresses
          /\ dnsCache[h] \in Addresses => Found(h, dnsCache[h])
    BY <1>1 DEF Typed, Cached
  <2>2. ASSUME NEW h, NEW v, dnsCache' = Put(dnsCache, h, v), Learnt(h, v),
               NEW g \in DOMAIN dnsCache'
        PROVE  /\ dnsCache'[g] = List(Srvs(g)) \/ dnsCache'[g] \in Addresses
               /\ dnsCache'[g] \in Addresses => Found(g, dnsCache'[g])
    <3>1. /\ g = h \/ g \in DOMAIN dnsCache
          /\ dnsCache'[h] = v
          /\ g \in DOMAIN dnsCache /\ g # h => dnsCache'[g] = dnsCache[g]
      <4>1. /\ DOMAIN Put(dnsCache, h, v) = {h} \cup DOMAIN dnsCache
            /\ Put(dnsCache, h, v)[h] = v
            /\ \A x \in DOMAIN dnsCache : x # h => Put(dnsCache, h, v)[x] = dnsCache[x]
        BY DEF Put
      <4> QED
        BY <2>2, <4>1
    <3>2. CASE g = h
      BY <2>2, <3>1, <3>2, NoAddress DEF Learnt
    <3> QED
      BY <2>1, <3>1, <3>2
  <2> QED
    BY <1>2, <2>1, <2>2
<1>9. Typed'
  <2>1. stack' \in [Clients -> Seq(Frames)]
    BY <1>1, <1>3, <1>7 DEF Typed
  <2>2. answer' \in [Clients -> Addresses \cup {Nothing, DNSError, RecursionError}]
    BY <1>1, <1>3, <1>7 DEF Typed, Answers
  <2> QED
    BY <1>1, <1>4, <1>6, <1>8, <2>1, <2>2 DEF Typed
<1>10. Cached'
  BY <1>5, <1>6, <1>8, StillFound DEF Cached
<1>11. Calls'
  <2> SUFFICES ASSUME NEW d \in Clients
               PROVE  Call(d)'
    BY DEF Calls
  <2>1. CASE d # c
    <3>1. stack'[d] = stack[d] /\ answer'[d] = answer[d]
      BY <1>1, <1>3, <2>1 DEF Typed
    <3>2. Top(d)' = Top(d)
      BY <3>1 DEF Top
    <3>3. Call(d)
      BY <1>1 DEF Calls
    <3>4. /\ Chain(stack[d]) => Chain(stack[d])'
          /\ Found(Top(d).host, answer[d]) => Found(Top(d).host, answer[d])'
          /\ Found(asked[d][1], answer[d]) => Found(asked[d][1], answer[d])'
      <4>1. /\ \A s : Chain(s) => Chain(s)'
            /\ \A h, a1 : Found(h, a1) => Found(h, a1)'
        BY <1>5, StillFound
      <4>2. Chain(stack[d]) => Chain(stack[d])'
        BY <4>1, <3>1
      <4>3. Found(Top(d).host, answer[d]) => Found(Top(d).host, answer[d])'
        BY <4>1, <3>1, <3>2
      <4>4. Found(asked[d][1], answer[d]) => Found(asked[d][1], answer[d])'
        BY <4>1, <3>1, <1>4
      <4> QED
        BY <4>2, <4>3, <4>4
    <3> QED
      BY <1>4, <1>6, <3>1, <3>3, <3>4 DEF Call
  <2>2. CASE d = c
    <3>1. stack'[c] = t /\ answer'[c] = ans
      BY <1>1, <1>3 DEF Typed
    <3>2. phase[c] = "resolve" /\ asked[c] # << >> /\ stack[c][1].host = asked[c][1]
      BY <1>1, <1>2 DEF Calls, Call
    <3>3. /\ Chain(t) /\ t # << >> /\ t[1].host = asked[c][1]
          /\ ans \in Addresses => Found(t[Len(t)].host, ans)
      BY <1>3, <3>2 DEF Left
    <3>4. Top(c)' = t[Len(t)]
      BY <3>1 DEF Top
    <3>5. Chain(t)' /\ (ans \in Addresses => Found(t[Len(t)].host, ans)')
      BY <1>5, <3>3, StillFound
    <3>6. Chain(stack[c])' /\ (ans \in Addresses => Found(Top(c).host, answer[c])')
      BY <3>1, <3>4, <3>5
    <3> QED
      BY <1>4, <1>6, <2>2, <3>1, <3>2, <3>3, <3>6 DEF Call
  <2> QED
    BY <2>1, <2>2
<1> QED
  BY <1>9, <1>10, <1>11 DEF Resolving

-----------------------------------------------------------------------------
(* The answers of the mechanisms.                                          *)

LEMMA Appended1 ==
  ASSUME NEW R, NEW x \in R, NEW y \in R
  PROVE  Append(<<x>>, y) = <<x, y>>
<1> DEFINE s == Append(<<x>>, y)
<1>1. /\ <<x>> \in Seq(R) /\ <<x, y>> \in Seq(R)
      /\ Len(<<x>>) = 1 /\ Len(<<x, y>>) = 2 /\ <<x>>[1] = x /\ 1 \in 1 .. 1
  OBVIOUS
<1>2. /\ s \in Seq(R) /\ Len(s) = Len(<<x>>) + 1 /\ s[Len(<<x>>) + 1] = y
      /\ \A i \in 1 .. Len(<<x>>) : s[i] = <<x>>[i]
  BY <1>1, AppendProperties
<1> HIDE DEF s
<1>3. \A i \in 1 .. 2 : s[i] = <<x, y>>[i]
  BY <1>1, <1>2
<1>4. s = <<x, y>>
  BY <1>1, <1>2, <1>3, SeqEqual
<1> QED
  BY <1>4 DEF s

LEMMA Appended2 ==
  ASSUME NEW R, NEW x \in R, NEW y \in R, NEW z \in R
  PROVE  Append(<<x, y>>, z) = <<x, y, z>>
<1> DEFINE s == Append(<<x, y>>, z)
<1>1. /\ <<x, y>> \in Seq(R) /\ <<x, y, z>> \in Seq(R)
      /\ Len(<<x, y>>) = 2 /\ Len(<<x, y, z>>) = 3 /\ <<x, y>>[1] = x /\ <<x, y>>[2] = y
      /\ 1 \in 1 .. 2 /\ 2 \in 1 .. 2
  OBVIOUS
<1>2. /\ s \in Seq(R) /\ Len(s) = Len(<<x, y>>) + 1 /\ s[Len(<<x, y>>) + 1] = z
      /\ \A i \in 1 .. Len(<<x, y>>) : s[i] = <<x, y>>[i]
  BY <1>1, AppendProperties
<1> HIDE DEF s
<1>3. \A i \in 1 .. 3 : s[i] = <<x, y, z>>[i]
  BY <1>1, <1>2
<1>4. s = <<x, y, z>>
  BY <1>1, <1>2, <1>3, SeqEqual
<1> QED
  BY <1>4 DEF s

LEMMA Mechanism ==
  Mechanisms = {"ANONYMOUS", "PLAIN", "OAUTH2", "CRAM", "DIGEST", "FACEBOOK", "SCRAM",
                "SCRAM_PLUS"}
BY DEF Mechanisms, Score

LEMMA Scores ==
  /\ \A m \in Mechanisms : Score[m] \in Nat
  /\ \A m, n \in Mechanisms : Score[m] = Score[n] => m = n
BY DEF Mechanisms, Score

LEMMA Kinds ==
  /\ "password" \in Replies /\ "anonymous" \in Replies /\ "empty" \in Replies
  /\ "mac" \in Replies /\ "digest" \in Replies /\ "first" \in Replies
  /\ "first, garbled" \in Replies /\ "first, bound" \in Replies /\ "proof" \in Replies /\ "token" \in Replies
  /\ "no token" \in Replies /\ "raises" \in Replies
BY DEF Replies

\* Where a mechanism raises, it was hopeless.
Raising(m, l) ==
  \/ m \in Unfinished
  \/ m \in {"PLAIN", "CRAM", "DIGEST", "SCRAM"} /\ ~l.prepared

\* What a mechanism answers at first.
LEMMA FirstReply ==
  ASSUME NEW m \in Mechanisms, NEW l \in Logins
  PROVE  /\ Process(m, l, 0) \in Replies
         /\ Process(m, l, 0) = "raises" => Raising(m, l)
         /\ Process(m, l, 0) # "raises" => SaidBy(m, l, <<Process(m, l, 0)>>)
<1>0. l.tls \in BOOLEAN /\ l.prepared \in BOOLEAN
  BY DEF Logins
<1>1. CASE m = "PLAIN"
  <2>1. Process(m, l, 0) = IF l.prepared THEN "password" ELSE "raises"
    BY <1>1 DEF Process, PlainProcess, WithPassword
  <2>2. <<"password">> \in Said[m]
    BY <1>1 DEF Said
  <2>3. CASE l.prepared
    BY <1>1, <2>1, <2>2, <2>3, Kinds DEF SaidBy
  <2>4. CASE ~l.prepared
    BY <1>1, <2>1, <2>4, Kinds DEF Raising
  <2> QED
    BY <2>3, <2>4
<1>2. CASE m = "ANONYMOUS"
  <2>1. Process(m, l, 0) = "anonymous"
    BY <1>2 DEF Process, AnonymousProcess
  <2> QED
    BY <1>2, <2>1, Kinds DEF Said, SaidBy
<1>3. CASE m = "CRAM"
  <2>1. Process(m, l, 0) = "empty"
    BY <1>3 DEF Process, CramProcess
  <2> QED
    BY <1>3, <2>1, Kinds DEF Said, SaidBy
<1>4. CASE m = "DIGEST"
  <2>1. Process(m, l, 0) = "empty"
    BY <1>4 DEF Process, DigestProcess
  <2> QED
    BY <1>4, <2>1, Kinds DEF Said, SaidBy
<1>5. CASE m = "SCRAM"
  <2>1. Process(m, l, 0) = IF l.prepared THEN ScramFirst(m = "SCRAM_PLUS", l) ELSE "raises"
    BY <1>5 DEF Process, ScramProcess, WithPassword
  <2>2. /\ l.user = "delimited" => ScramFirst(m = "SCRAM_PLUS", l) = "first, garbled"
        /\ l.user # "delimited" => ScramFirst(m = "SCRAM_PLUS", l) = "first"
    BY <1>5 DEF ScramFirst
  <2>3. <<"first">> \in Said[m] /\ <<"first, garbled">> \in Said[m]
    BY <1>5 DEF Said
  <2>4. <<"first">> # <<"first, garbled">>
    OBVIOUS
  <2>5. CASE ~l.prepared
    BY <1>5, <2>1, <2>5, Kinds DEF Raising
  <2>6. CASE l.prepared /\ l.user = "delimited"
    BY <1>5, <2>1, <2>2, <2>3, <2>6, Kinds DEF SaidBy
  <2>7. CASE l.prepared /\ l.user # "delimited"
    BY <1>5, <2>1, <2>2, <2>3, <2>4, <2>7, Kinds DEF SaidBy
  <2> QED
    BY <2>5, <2>6, <2>7
<1>6. CASE m = "SCRAM_PLUS"
  <2>1. Process(m, l, 0) = IF l.prepared THEN ScramFirst(m = "SCRAM_PLUS", l) ELSE "raises"
    BY <1>6 DEF Process, ScramProcess, WithPassword
  <2>2. /\ ScramFirst(m = "SCRAM_PLUS", l) \in {"first", "first, garbled", "first, bound"}
        /\ ScramFirst(m = "SCRAM_PLUS", l) = "first, bound" => ~l.tls
    BY <1>0 DEF ScramFirst
  <2>3. /\ <<"first">> \in Said[m] /\ <<"first, garbled">> \in Said[m]
        /\ <<"first, bound">> \in Said[m]
    BY <1>6 DEF Said
  <2>4. <<"first">> # <<"first, bound">> /\ <<"first, garbled">> # <<"first, bound">>
    OBVIOUS
  <2>5. m \in Unfinished /\ m # "SCRAM" /\ m \notin {"PLAIN", "CRAM", "DIGEST", "SCRAM"}
    BY <1>6 DEF Unfinished
  <2>6. CASE Process(m, l, 0) = "raises"
    BY <2>5, <2>6, Kinds DEF Raising
  <2>7. CASE Process(m, l, 0) = "first"
    BY <2>3, <2>4, <2>5, <2>7, Kinds DEF SaidBy
  <2>8. CASE Process(m, l, 0) = "first, garbled"
    BY <2>3, <2>4, <2>5, <2>8, Kinds DEF SaidBy
  <2>9. CASE Process(m, l, 0) = "first, bound"
    <3>1. ~l.tls
      BY <2>1, <2>2, <2>9
    <3> QED
      BY <2>3, <2>5, <2>9, <3>1, Kinds DEF SaidBy
  <2> QED
    BY <2>1, <2>2, <2>6, <2>7, <2>8, <2>9
<1>7. CASE m = "OAUTH2"
  <2>1. Process(m, l, 0) = "raises"
    BY <1>7 DEF Process, OAuth2Process, Given
  <2> QED
    BY <1>7, <2>1, Kinds DEF Unfinished, Raising
<1>8. CASE m = "FACEBOOK"
  <2>1. Process(m, l, 0) = "empty"
    BY <1>8 DEF Process, FacebookProcess
  <2> QED
    BY <1>8, <2>1, Kinds DEF Said, SaidBy
<1> QED
  BY <1>1, <1>2, <1>3, <1>4, <1>5, <1>6, <1>7, <1>8, Mechanism

LEMMA PrefixAgrees ==
  ASSUME NEW R, NEW s \in Seq(R), NEW t \in Seq(R)
  PROVE  /\ IsPrefix(s, t) => Len(s) <= Len(t) /\ \A i \in 1 .. Len(s) : s[i] = t[i]
         /\ Len(s) <= Len(t) /\ (\A i \in 1 .. Len(s) : s[i] = t[i]) => IsPrefix(s, t)
<1>1. Len(s) \in Nat /\ Len(t) \in Nat
  OBVIOUS
<1>2. /\ SubSeq(s, 1, Len(s)) = [i \in 1 .. Len(s) |-> s[i]]
      /\ SubSeq(t, 1, Len(s)) = [i \in 1 .. Len(s) |-> t[i]]
  BY <1>1
<1> QED
  BY <1>1, <1>2 DEF IsPrefix

LEMMA Tuples ==
  /\ \A x \in Replies : <<x>> \in Seq(Replies) /\ Len(<<x>>) = 1 /\ <<x>>[1] = x
  /\ \A x, y \in Replies : /\ <<x, y>> \in Seq(Replies) /\ Len(<<x, y>>) = 2
                           /\ <<x, y>>[1] = x /\ <<x, y>>[2] = y
  /\ \A x, y, z \in Replies : /\ <<x, y, z>> \in Seq(Replies) /\ Len(<<x, y, z>>) = 3
                              /\ <<x, y, z>>[1] = x /\ <<x, y, z>>[2] = y
<1>1. \A x \in Replies : <<x>> \in Seq(Replies) /\ Len(<<x>>) = 1 /\ <<x>>[1] = x
  OBVIOUS
<1>2. \A x, y \in Replies : /\ <<x, y>> \in Seq(Replies) /\ Len(<<x, y>>) = 2
                           /\ <<x, y>>[1] = x /\ <<x, y>>[2] = y
  OBVIOUS
<1>3. \A x, y, z \in Replies : /\ <<x, y, z>> \in Seq(Replies) /\ Len(<<x, y, z>>) = 3
                              /\ <<x, y, z>>[1] = x /\ <<x, y, z>>[2] = y
  OBVIOUS
<1> QED
  BY <1>1, <1>2, <1>3

\* What it answers to a challenge that a server which knows the password sends.
LEMMA NextReply ==
  ASSUME NEW m \in Mechanisms, NEW l \in Logins, NEW s, SaidBy(m, l, s),
         NEW w \in Expects[m], IsStrictPrefix(s, w)
  PROVE  /\ Process(m, l, Len(s)) \in Replies
         /\ Process(m, l, Len(s)) = "raises" => Raising(m, l)
         /\ Process(m, l, Len(s)) # "raises" =>
              SaidBy(m, l, Append(s, Process(m, l, Len(s))))
<1>0. s # w /\ s \in Said[m] /\ IsPrefix(s, w) /\ Len(s) <= Len(w)
  BY DEF IsStrictPrefix, IsPrefix, SaidBy
<1>1. CASE m = "PLAIN"
  <2>1. Said[m] = {<<"password">>} /\ Expects[m] = {<<"password">>}
    BY <1>1 DEF Said, Expects
  <2> QED
    BY <1>0, <2>1
<1>2. CASE m = "ANONYMOUS"
  <2>1. Said[m] = {<<"anonymous">>} /\ Expects[m] = {<<"anonymous">>}
    BY <1>2 DEF Said, Expects
  <2> QED
    BY <1>0, <2>1
<1>3. CASE m = "CRAM"
  <2>1. Said[m] = {<<"empty">>, <<"empty", "mac">>} /\ Expects[m] = {<<"empty", "mac">>}
    BY <1>3 DEF Said, Expects
  <2>2. s = <<"empty">> /\ Len(s) = 1
    BY <1>0, <2>1
  <2>3. Process(m, l, 1) = IF l.prepared THEN "mac" ELSE "raises"
    BY <1>3 DEF Process, CramProcess, WithPassword
  <2>4. Append(<<"empty">>, "mac") = <<"empty", "mac">>
    BY Appended1, Kinds
  <2>5. CASE l.prepared
    BY <1>3, <2>1, <2>2, <2>3, <2>4, <2>5, Kinds DEF SaidBy
  <2>6. CASE ~l.prepared
    BY <1>3, <2>2, <2>3, <2>6, Kinds DEF Raising
  <2> QED
    BY <2>5, <2>6
<1>4. CASE m = "DIGEST"
  <2>1. /\ Said[m] = {<<"empty">>, <<"empty", "digest">>, <<"empty", "digest", "empty">>}
        /\ Expects[m] = {<<"empty", "digest">>, <<"empty", "digest", "empty">>}
    BY <1>4 DEF Said, Expects
  <2>2. (s = <<"empty">> /\ Len(s) = 1) \/ (s = <<"empty", "digest">> /\ Len(s) = 2)
    BY <1>0, <2>1
  <2>3. /\ Process(m, l, 1) = IF l.prepared THEN "digest" ELSE "raises"
        /\ Process(m, l, 2) = "empty"
    BY <1>4 DEF Process, DigestProcess, WithPassword
  <2>4. Append(<<"empty">>, "digest") = <<"empty", "digest">>
    BY Appended1, Kinds
  <2>5. Append(<<"empty", "digest">>, "empty") = <<"empty", "digest", "empty">>
    <3>1. "empty" \in Replies /\ "digest" \in Replies
      BY Kinds
    <3> QED
      BY <3>1, Appended2
  <2>6. <<"empty", "digest">> # <<"empty">> /\ <<"empty", "digest", "empty">> # <<"empty">>
    OBVIOUS
  <2>7. CASE s = <<"empty">> /\ Len(s) = 1 /\ l.prepared
    BY <1>4, <2>1, <2>3, <2>4, <2>7, Kinds DEF SaidBy
  <2>8. CASE s = <<"empty">> /\ Len(s) = 1 /\ ~l.prepared
    BY <1>4, <2>3, <2>8, Kinds DEF Raising
  <2>9. CASE s = <<"empty", "digest">> /\ Len(s) = 2
    <3>1. l.prepared
      BY <1>4, <2>6, <2>9 DEF SaidBy
    <3> QED
      BY <1>4, <2>1, <2>3, <2>5, <2>9, <3>1, Kinds DEF SaidBy
  <2> QED
    BY <2>2, <2>7, <2>8, <2>9
<1>5. CASE m = "SCRAM"
  <2>1. /\ Said[m] = {<<"first">>, <<"first, garbled">>, <<"first", "proof">>,
                      <<"first", "proof", "empty">>}
        /\ Expects[m] = {<<"first", "proof">>, <<"first", "proof", "empty">>}
    BY <1>5 DEF Said, Expects
  <2>2. s # <<"first, garbled">>
    <3>1. ASSUME s = <<"first, garbled">>
          PROVE  FALSE
      <4>1. /\ s \in Seq(Replies) /\ Len(s) = 1 /\ s[1] = "first, garbled"
            /\ <<"first", "proof">> \in Seq(Replies) /\ <<"first", "proof">>[1] = "first"
            /\ <<"first", "proof", "empty">> \in Seq(Replies)
            /\ <<"first", "proof", "empty">>[1] = "first"
        BY <3>1, Tuples, Kinds
      <4>2. w = <<"first", "proof">> \/ w = <<"first", "proof", "empty">>
        BY <2>1
      <4>3. w \in Seq(Replies) /\ w[1] = "first"
        BY <4>1, <4>2
      <4>4. IsPrefix(s, w) => \A i \in 1 .. Len(s) : s[i] = w[i]
        <5>1. s \in Seq(Replies) /\ w \in Seq(Replies)
          BY <4>1, <4>3
        <5> QED
          BY <5>1, PrefixAgrees
      <4>5. s[1] = w[1]
        <5>1. 1 \in 1 .. 1
          OBVIOUS
        <5> QED
          BY <1>0, <4>1, <4>4, <5>1
      <4> QED
        BY <4>1, <4>3, <4>5
    <3> QED
      BY <3>1
  <2>3. (s = <<"first">> /\ Len(s) = 1) \/ (s = <<"first", "proof">> /\ Len(s) = 2)
    <3>1. s \in {<<"first">>, <<"first", "proof">>, <<"first", "proof", "empty">>}
      BY <1>0, <2>1, <2>2
    <3>2. /\ Len(<<"first">>) = 1 /\ Len(<<"first", "proof">>) = 2
          /\ Len(<<"first", "proof", "empty">>) = 3
      BY Tuples, Kinds
    <3>3. s # <<"first", "proof", "empty">>
      <4>1. ~(3 <= 2)
        OBVIOUS
      <4> QED
        BY <1>0, <2>1, <3>2, <4>1
    <3> QED
      BY <3>1, <3>2, <3>3
  <2>4. Process(m, l, 1) = "proof" /\ Process(m, l, 2) = "empty"
    BY <1>5 DEF Process, ScramProcess
  <2>5. Append(<<"first">>, "proof") = <<"first", "proof">>
    BY Appended1, Kinds
  <2>6. Append(<<"first", "proof">>, "empty") = <<"first", "proof", "empty">>
    <3>1. "empty" \in Replies /\ "first" \in Replies /\ "proof" \in Replies
      BY Kinds
    <3> QED
      BY <3>1, Appended2
  <2>7. /\ <<"first">> # <<"empty">> /\ <<"first", "proof">> # <<"empty">>
        /\ <<"first", "proof">> # <<"first, garbled">>
        /\ <<"first", "proof", "empty">> # <<"first, garbled">>
    OBVIOUS
  <2>8. l.prepared /\ l.user # "delimited"
    BY <1>5, <2>2, <2>3, <2>7 DEF SaidBy
  <2>9. CASE s = <<"first">> /\ Len(s) = 1
    <3>1. SaidBy(m, l, <<"first", "proof">>)
      BY <1>5, <2>1, <2>7, <2>8 DEF SaidBy
    <3> QED
      BY <2>4, <2>5, <2>9, <3>1, Kinds
  <2>10. CASE s = <<"first", "proof">> /\ Len(s) = 2
    <3>1. SaidBy(m, l, <<"first", "proof", "empty">>)
      BY <1>5, <2>1, <2>7, <2>8 DEF SaidBy
    <3> QED
      BY <2>4, <2>6, <2>10, <3>1, Kinds
  <2> QED
    BY <2>3, <2>9, <2>10
<1>6. CASE m = "SCRAM_PLUS"
  <2>1. m \in Unfinished
    BY <1>6 DEF Unfinished
  <2>2. /\ Said[m] = {<<"first">>, <<"first, garbled">>, <<"first, bound">>}
        /\ Expects[m] = {<<"first, bound", "proof">>, <<"first, bound", "proof", "empty">>}
    BY <1>6 DEF Said, Expects
  <2>3. s \in Seq(Replies) /\ Len(s) = 1 /\ 1 \in 1 .. 1
    <3>1. /\ <<"first">> \in Seq(Replies) /\ Len(<<"first">>) = 1
          /\ <<"first, bound">> \in Seq(Replies) /\ Len(<<"first, bound">>) = 1
          /\ <<"first, garbled">> \in Seq(Replies) /\ Len(<<"first, garbled">>) = 1
      BY Tuples, Kinds
    <3>2. s = <<"first">> \/ s = <<"first, garbled">> \/ s = <<"first, bound">>
      BY <1>0, <2>2
    <3>3. 1 \in 1 .. 1
      OBVIOUS
    <3>4. CASE s = <<"first">>
      BY <3>1, <3>3, <3>4
    <3>5. CASE s = <<"first, garbled">>
      BY <3>1, <3>3, <3>5
    <3>6. CASE s = <<"first, bound">>
      BY <3>1, <3>3, <3>6
    <3> QED
      BY <3>2, <3>4, <3>5, <3>6
  <2>4. w \in Seq(Replies) /\ w[1] = "first, bound"
    <3>1. /\ <<"first, bound", "proof">> \in Seq(Replies)
          /\ <<"first, bound", "proof">>[1] = "first, bound"
      BY Tuples, Kinds
    <3>2. /\ <<"first, bound", "proof", "empty">> \in Seq(Replies)
          /\ <<"first, bound", "proof", "empty">>[1] = "first, bound"
      BY Tuples, Kinds
    <3> QED
      BY <2>2, <3>1, <3>2
  <2>5. s[1] = "first, bound"
    <3>1. s \in Seq(Replies) /\ w \in Seq(Replies)
      BY <2>3, <2>4, Zenon
    <3>2. IsPrefix(s, w) => \A i \in 1 .. Len(s) : s[i] = w[i]
      BY <3>1, PrefixAgrees
    <3> QED
      BY <1>0, <2>3, <2>4, <3>2
  <2>6. <<"first">>[1] # "first, bound" /\ <<"first, garbled">>[1] # "first, bound"
    OBVIOUS
  <2>7. s = <<"first, bound">>
    BY <1>0, <2>2, <2>5, <2>6
  <2>8. ~l.tls
    BY <1>6, <2>7 DEF SaidBy
  <2>9. Process(m, l, 1) = "raises"
    BY <1>6, <2>8 DEF Process, ScramProcess
  <2> QED
    BY <2>1, <2>3, <2>9, Kinds DEF Raising
<1>8. CASE m = "FACEBOOK"
  <2>1. Said[m] = {<<"empty">>, <<"empty", "no token">>} /\ Expects[m] = {<<"empty", "token">>}
    BY <1>8 DEF Said, Expects
  <2>2. m \in Unfinished
    BY <1>8 DEF Unfinished
  <2>3. /\ <<"empty", "token">> \in Seq(Replies) /\ <<"empty", "token">>[2] = "token"
        /\ <<"empty", "no token">> \in Seq(Replies) /\ Len(<<"empty", "no token">>) = 2
        /\ <<"empty", "no token">>[2] = "no token"
    BY Tuples, Kinds
  <2>4. s = <<"empty">> /\ Len(s) = 1
    <3>1. ASSUME s = <<"empty", "no token">>
          PROVE  FALSE
      <4>1. w = <<"empty", "token">>
        BY <2>1
      <4>2. s \in Seq(Replies) /\ w \in Seq(Replies) /\ Len(s) = 2
        BY <2>3, <3>1, <4>1
      <4>3. IsPrefix(s, w) => \A i \in 1 .. Len(s) : s[i] = w[i]
        BY <4>2, PrefixAgrees
      <4>4. s[2] = w[2]
        BY <1>0, <4>2, <4>3
      <4> QED
        BY <2>3, <3>1, <4>1, <4>4
    <3>2. s = <<"empty">> \/ s = <<"empty", "no token">>
      BY <1>0, <2>1
    <3>3. s = <<"empty">>
      BY <3>1, <3>2
    <3> QED
      BY <3>3
  <2>5. Process(m, l, 1) = "no token"
    BY <1>8 DEF Process, FacebookProcess, Given
  <2>6. Append(<<"empty">>, "no token") = <<"empty", "no token">>
    BY Appended1, Kinds
  <2> QED
    <3>1. SaidBy(m, l, <<"empty", "no token">>)
      BY <1>8, <2>1 DEF SaidBy
    <3> QED
      BY <2>4, <2>5, <2>6, <3>1, Kinds
<1>9. CASE m = "OAUTH2"
  <2>1. Said["OAUTH2"] = {}
    BY DEF Said
  <2> QED
    BY <1>0, <1>9, <2>1
<1> QED
  BY <1>1, <1>2, <1>3, <1>4, <1>5, <1>6, <1>8, <1>9, Mechanism

LEMMA Begins ==
  ASSUME NEW x \in Replies, NEW y \in Replies, NEW z \in Replies
  PROVE  /\ IsPrefix(<<x>>, <<x>>) /\ IsPrefix(<<x>>, <<x, y>>)
         /\ IsPrefix(<<x, y>>, <<x, y>>) /\ IsPrefix(<<x, y, z>>, <<x, y, z>>)
<1>1. /\ <<x>> \in Seq(Replies) /\ Len(<<x>>) = 1 /\ <<x>>[1] = x
      /\ <<x, y>> \in Seq(Replies) /\ Len(<<x, y>>) = 2 /\ <<x, y>>[1] = x
      /\ <<x, y, z>> \in Seq(Replies) /\ Len(<<x, y, z>>) = 3
  BY Tuples
<1>2. \A s \in Seq(Replies) : IsPrefix(s, s)
  <2> TAKE s \in Seq(Replies)
  <2>1. Len(s) <= Len(s)
    OBVIOUS
  <2> QED
    BY <2>1, PrefixAgrees
<1>3. IsPrefix(<<x>>, <<x, y>>)
  <2>1. \A i \in 1 .. Len(<<x>>) : <<x>>[i] = <<x, y>>[i]
    BY <1>1
  <2>2. Len(<<x>>) <= Len(<<x, y>>)
    BY <1>1
  <2> QED
    BY <1>1, <2>1, <2>2, PrefixAgrees
<1> QED
  BY <1>1, <1>2, <1>3

\* Only what an unfinished mechanism has said, or a garbled name, is not what
\* the server wants in the end; the rest is, or begins like it.
LEMMA Finishes ==
  ASSUME NEW m \in Mechanisms, NEW s \in Said[m]
  PROVE  /\ m \in Unfinished => s \notin Expects[m]
         /\ s \in Expects[m] => s # <<"empty">> /\ s # <<"first, garbled">>
         /\ m \notin Unfinished /\ s # <<"first, garbled">> =>
              \E w \in Expects[m] : IsPrefix(s, w)
<1>0. s \in Expects[m] => s # <<"empty">> /\ s # <<"first, garbled">>
  <2>1. /\ <<"password">> # <<"empty">> /\ <<"password">> # <<"first, garbled">>
        /\ <<"anonymous">> # <<"empty">> /\ <<"anonymous">> # <<"first, garbled">>
        /\ <<"token">> # <<"empty">> /\ <<"token">> # <<"first, garbled">>
    OBVIOUS
  <2>2. /\ <<"empty", "mac">> # <<"empty">> /\ <<"empty", "mac">> # <<"first, garbled">>
        /\ <<"empty", "token">> # <<"empty">> /\ <<"empty", "token">> # <<"first, garbled">>
    OBVIOUS
  <2>3. ASSUME NEW x, x \in {"digest", "proof"}, NEW y, y \in {"empty", "first", "first, bound"}
        PROVE  /\ <<y, x>> # <<"empty">> /\ <<y, x>> # <<"first, garbled">>
               /\ <<y, x, "empty">> # <<"empty">> /\ <<y, x, "empty">> # <<"first, garbled">>
    OBVIOUS
  <2>4. /\ Expects["PLAIN"] = {<<"password">>} /\ Expects["ANONYMOUS"] = {<<"anonymous">>}
        /\ Expects["CRAM"] = {<<"empty", "mac">>} /\ Expects["OAUTH2"] = {<<"token">>}
        /\ Expects["FACEBOOK"] = {<<"empty", "token">>}
        /\ Expects["DIGEST"] = {<<"empty", "digest">>, <<"empty", "digest", "empty">>}
        /\ Expects["SCRAM"] = {<<"first", "proof">>, <<"first", "proof", "empty">>}
        /\ Expects["SCRAM_PLUS"] = {<<"first, bound", "proof">>,
                                    <<"first, bound", "proof", "empty">>}
    BY DEF Expects
  <2>5. ASSUME m \in {"PLAIN", "ANONYMOUS", "OAUTH2"}
        PROVE  \A x \in Expects[m] : x # <<"empty">> /\ x # <<"first, garbled">>
    BY <2>1, <2>4, <2>5
  <2>6. ASSUME m \in {"CRAM", "FACEBOOK"}
        PROVE  \A x \in Expects[m] : x # <<"empty">> /\ x # <<"first, garbled">>
    BY <2>2, <2>4, <2>6
  <2>7. ASSUME m \in {"DIGEST", "SCRAM", "SCRAM_PLUS"}
        PROVE  \A x \in Expects[m] : x # <<"empty">> /\ x # <<"first, garbled">>
    BY <2>3, <2>4, <2>7
  <2> QED
    BY <2>5, <2>6, <2>7, Mechanism
<1>1. ASSUME m = "PLAIN"
      PROVE  m \notin Unfinished /\ \E w \in Expects[m] : IsPrefix(s, w)
  <2>1. Said[m] = {<<"password">>} /\ Expects[m] = {<<"password">>}
    BY <1>1 DEF Said, Expects
  <2>2. IsPrefix(<<"password">>, <<"password">>)
    BY Begins, Kinds
  <2> QED
    BY <1>1, <2>1, <2>2 DEF Unfinished
<1>2. ASSUME m = "ANONYMOUS"
      PROVE  m \notin Unfinished /\ \E w \in Expects[m] : IsPrefix(s, w)
  <2>1. Said[m] = {<<"anonymous">>} /\ Expects[m] = {<<"anonymous">>}
    BY <1>2 DEF Said, Expects
  <2>2. IsPrefix(<<"anonymous">>, <<"anonymous">>)
    BY Begins, Kinds
  <2> QED
    BY <1>2, <2>1, <2>2 DEF Unfinished
<1>3. ASSUME m = "CRAM"
      PROVE  m \notin Unfinished /\ \E w \in Expects[m] : IsPrefix(s, w)
  <2>1. Said[m] = {<<"empty">>, <<"empty", "mac">>} /\ Expects[m] = {<<"empty", "mac">>}
    BY <1>3 DEF Said, Expects
  <2>2. /\ IsPrefix(<<"empty">>, <<"empty", "mac">>)
        /\ IsPrefix(<<"empty", "mac">>, <<"empty", "mac">>)
    BY Begins, Kinds
  <2> QED
    BY <1>3, <2>1, <2>2 DEF Unfinished
<1>4. ASSUME m = "DIGEST"
      PROVE  m \notin Unfinished /\ \E w \in Expects[m] : IsPrefix(s, w)
  <2>1. /\ Said[m] = {<<"empty">>, <<"empty", "digest">>, <<"empty", "digest", "empty">>}
        /\ Expects[m] = {<<"empty", "digest">>, <<"empty", "digest", "empty">>}
    BY <1>4 DEF Said, Expects
  <2>2. /\ IsPrefix(<<"empty">>, <<"empty", "digest">>)
        /\ IsPrefix(<<"empty", "digest">>, <<"empty", "digest">>)
        /\ IsPrefix(<<"empty", "digest", "empty">>, <<"empty", "digest", "empty">>)
    BY Begins, Kinds
  <2> QED
    BY <1>4, <2>1, <2>2 DEF Unfinished
<1>5. ASSUME m = "SCRAM"
      PROVE  /\ m \notin Unfinished
             /\ s # <<"first, garbled">> => \E w \in Expects[m] : IsPrefix(s, w)
  <2>1. /\ Said[m] = {<<"first">>, <<"first, garbled">>, <<"first", "proof">>,
                      <<"first", "proof", "empty">>}
        /\ Expects[m] = {<<"first", "proof">>, <<"first", "proof", "empty">>}
    BY <1>5 DEF Said, Expects
  <2>2. /\ IsPrefix(<<"first">>, <<"first", "proof">>)
        /\ IsPrefix(<<"first", "proof">>, <<"first", "proof">>)
        /\ IsPrefix(<<"first", "proof", "empty">>, <<"first", "proof", "empty">>)
    BY Begins, Kinds
  <2> QED
    BY <1>5, <2>1, <2>2 DEF Unfinished
<1>6. ASSUME m = "SCRAM_PLUS"
      PROVE  m \in Unfinished /\ s \notin Expects[m]
  <2>1. /\ Said[m] = {<<"first">>, <<"first, garbled">>, <<"first, bound">>}
        /\ Expects[m] = {<<"first, bound", "proof">>, <<"first, bound", "proof", "empty">>}
    BY <1>6 DEF Said, Expects
  <2>2. Len(s) = 1
    <3>1. /\ Len(<<"first">>) = 1 /\ Len(<<"first, garbled">>) = 1
          /\ Len(<<"first, bound">>) = 1
      BY Tuples, Kinds
    <3> QED
      BY <2>1, <3>1
  <2>3. \A w \in Expects[m] : Len(w) # 1
    <3>1. /\ Len(<<"first, bound", "proof">>) = 2
          /\ Len(<<"first, bound", "proof", "empty">>) = 3
      BY Tuples, Kinds
    <3>2. 1 # 2 /\ 1 # 3
      OBVIOUS
    <3> TAKE w \in Expects[m]
    <3>3. w = <<"first, bound", "proof">> \/ w = <<"first, bound", "proof", "empty">>
      BY <2>1
    <3>4. Len(w) = 2 \/ Len(w) = 3
      BY <3>1, <3>3
    <3> QED
      BY <3>2, <3>4
  <2> QED
    BY <1>6, <2>2, <2>3 DEF Unfinished
<1>7. ASSUME m = "FACEBOOK"
      PROVE  m \in Unfinished /\ s \notin Expects[m]
  <2>1. Said[m] = {<<"empty">>, <<"empty", "no token">>} /\ Expects[m] = {<<"empty", "token">>}
    BY <1>7 DEF Said, Expects
  <2>2. <<"empty">> # <<"empty", "token">>
    OBVIOUS
  <2>3. <<"empty", "no token">> # <<"empty", "token">>
    OBVIOUS
  <2> QED
    BY <1>7, <2>1, <2>2, <2>3 DEF Unfinished
<1>8. m # "OAUTH2"
  <2>1. Said["OAUTH2"] = {}
    BY DEF Said
  <2> QED
    BY <2>1
<1> QED
  BY <1>0, <1>1, <1>2, <1>3, <1>4, <1>5, <1>6, <1>7, <1>8, Mechanism

\* There is one strongest mechanism, if any.
LEMMA OneIsChosen ==
  ASSUME NEW user \in Users, NEW offer
  PROVE  LET mech == ChooseMechanism(user, offer)
         IN  /\ mech \subseteq Mechanisms
             /\ mech = {} \/ \E m \in Mechanisms : mech = {m}
<1> DEFINE mech == ChooseMechanism(user, offer)
<1>1. CASE user \in Nameless
  <2>1. mech = {"ANONYMOUS"}
    BY <1>1 DEF ChooseMechanism
  <2> QED
    BY <2>1, Mechanism
<1>2. CASE user \notin Nameless
  <2>1. /\ mech \subseteq Mechanisms
        /\ \A m \in mech : m \in offer /\ \A n \in offer \cap Mechanisms : Score[n] <= Score[m]
    BY <1>2 DEF ChooseMechanism
  <2>2. \A m, n \in mech : m = n
    BY <2>1, Scores
  <2> QED
    BY <2>1, <2>2
<1> QED
  BY <1>1, <1>2

-----------------------------------------------------------------------------
(* The clients that do not move, and what a step leaves alone.             *)

\* A call stands where the client goes on beyond the resolver.
Passed(d) == /\ stack'[d] = stack[d] /\ answer'[d] = answer[d] /\ asked'[d] = asked[d]
             /\ \/ phase'[d] = phase[d]
                \/ /\ phase[d] \notin {"start", "resolve"}
                   /\ phase'[d] \notin {"start", "resolve"}

LEMMA CallStands ==
  ASSUME Lasting, NEW d, Call(d), Passed(d)
  PROVE  Call(d)'
<1>1. /\ stack'[d] = stack[d] /\ answer'[d] = answer[d] /\ asked'[d] = asked[d]
      /\ \/ phase'[d] = phase[d]
         \/ phase[d] \notin {"start", "resolve"} /\ phase'[d] \notin {"start", "resolve"}
  BY DEF Passed
<1>2. Addresses' = Addresses
  BY Steady DEF Lasting
<1>3. Top(d)' = Top(d)
  BY <1>1 DEF Top
<1>4. /\ \A s : Chain(s) => Chain(s)'
      /\ \A h, a1 : Found(h, a1) => Found(h, a1)'
  BY StillFound
<1>5. Chain(stack[d]) => Chain(stack[d])'
  BY <1>1, <1>4
<1>6. Found(Top(d).host, answer[d]) => Found(Top(d).host, answer[d])'
  BY <1>1, <1>3, <1>4
<1>7. Found(asked[d][1], answer[d]) => Found(asked[d][1], answer[d])'
  BY <1>1, <1>4
<1> QED
  BY <1>1, <1>2, <1>5, <1>6, <1>7 DEF Call

LEMMA ResolvingStands ==
  ASSUME Resolving, Lasting, dnsCache' = dnsCache, NEW c \in Clients, Call(c)',
         \A d \in Clients : d # c => Passed(d)
  PROVE  Resolving'
<1>1. Cached'
  <2>1. Addresses' = Addresses
    BY Steady DEF Lasting
  <2>2. \A h, a1 : Found(h, a1) => Found(h, a1)'
    BY StillFound
  <2> QED
    BY <2>1, <2>2 DEF Resolving, Cached
<1>2. ASSUME NEW d \in Clients, d # c
      PROVE  Call(d)'
  <2>1. Call(d) /\ Passed(d)
    BY <1>2 DEF Resolving, Calls
  <2> QED
    BY <2>1, CallStands
<1>3. Calls'
  BY <1>2 DEF Calls
<1> QED
  BY <1>1, <1>3 DEF Resolving

Still(d) == /\ phase'[d] = phase[d] /\ login'[d] = login[d] /\ events'[d] = events[d]
            /\ discoCache'[d] = discoCache[d] /\ toDisco'[d] = toDisco[d]
            /\ listed'[d] = listed[d] /\ refused'[d] = refused[d]

LEMMA TheRest ==
  ASSUME Talking, Gathering, NEW c \in Clients, \A d \in Clients : d # c => Still(d),
         Talk(c)', Gather(c)'
  PROVE  Talking' /\ Gathering'
<1>1. ASSUME NEW d \in Clients, d # c
      PROVE  Talk(d)' /\ Gather(d)'
  <2>1. Talk(d) /\ Gather(d) /\ Still(d)
    BY <1>1 DEF Talking, Gathering
  <2>2. Talk(d)'
    BY <2>1 DEF Still, Talk
  <2>3. Filled(d) => Filled(d)'
    BY <2>1 DEF Still, Filled
  <2>4. Begun(d)' => Begun(d)
    BY <2>1 DEF Still, Begun
  <2>5. Gather(d)'
    BY <2>1, <2>3, <2>4 DEF Still, Gather
  <2> QED
    BY <2>2, <2>5
<1> QED
  BY <1>1 DEF Talking, Gathering

LEMMA StillTyped ==
  ASSUME Typed, zone' = zone, dnsCache' = dnsCache,
         stack' \in [Clients -> Seq(Frames)], answer' = answer,
         asked' \in [Clients -> Asked \cup {<< >>}], phase' \in [Clients -> Phases],
         login' \in [Clients -> Logins], events' \in [Clients -> Seq(Signals)],
         discoCache' = [c \in Clients |-> discoCache'[c]],
         toDisco' \in [Clients -> SUBSET Items], listed' \in [Clients -> SUBSET Items],
         refused' \in [Clients -> SUBSET Items]
  PROVE  Typed'
<1>1. Frames' = Frames /\ Addresses' = Addresses /\ \A h : Srvs(h)' = Srvs(h)
  BY Steady
<1> QED
  BY <1>1 DEF Typed

\* A signal is the last one.
LEMMA Signalled ==
  ASSUME Typed, NEW c \in Clients, NEW e \in Signals, Signal(c, <<e>>)
  PROVE  /\ events' \in [Clients -> Seq(Signals)]
         /\ \A d \in Clients : d # c => events'[d] = events[d]
         /\ Begun(c)' => e = "sessionStarted"
<1> DEFINE s == events[c] \o <<e>>
<1>1. events' = [events EXCEPT ![c] = s] /\ events \in [Clients -> Seq(Signals)]
  BY DEF Signal, Typed
<1>2. events[c] \in Seq(Signals) /\ <<e>> \in Seq(Signals) /\ Len(<<e>>) = 1 /\ <<e>>[1] = e
  BY <1>1
<1>3. s \in Seq(Signals) /\ Len(s) = Len(events[c]) + 1 /\ s[Len(events[c]) + 1] = e
  BY <1>2
<1> HIDE DEF s
<1>4. events' \in [Clients -> Seq(Signals)] /\ \A d \in Clients : d # c => events'[d] = events[d]
  BY <1>1, <1>3
<1>5. events'[c] = s
  BY <1>1
<1>6. Begun(c)' => e = "sessionStarted"
  BY <1>3, <1>5 DEF Begun
<1> QED
  BY <1>4, <1>6

\* A step of a client beyond the resolver.
LEMMA Beyond ==
  ASSUME IInv, NEW c \in Clients, UNCHANGED <<resolver, asked>>,
         phase[c] \notin {"start", "resolve"}, NEW p \in Phases \ {"start", "resolve"},
         phase' = [phase EXCEPT ![c] = p],
         login' \in [Clients -> Logins], events' \in [Clients -> Seq(Signals)],
         discoCache' = [d \in Clients |-> discoCache'[d]],
         toDisco' \in [Clients -> SUBSET Items], listed' \in [Clients -> SUBSET Items],
         refused' \in [Clients -> SUBSET Items],
         \A d \in Clients : d # c =>
           /\ login'[d] = login[d] /\ events'[d] = events[d]
           /\ discoCache'[d] = discoCache[d] /\ toDisco'[d] = toDisco[d]
           /\ listed'[d] = listed[d] /\ refused'[d] = refused[d],
         Talk(c)', Gather(c)'
  PROVE  IInv'
<1>1. /\ zone' = zone /\ dnsCache' = dnsCache /\ stack' = stack /\ answer' = answer
      /\ asked' = asked
  BY DEF resolver
<1>2. Typed /\ Resolving /\ Talking /\ Gathering
  BY DEF IInv
<1>3. /\ phase' \in [Clients -> Phases] /\ phase'[c] = p
      /\ \A d \in Clients : d # c => phase'[d] = phase[d]
  BY <1>2 DEF Typed
<1>4. Typed'
  <2>1. stack' \in [Clients -> Seq(Frames)] /\ asked' \in [Clients -> Asked \cup {<< >>}]
    BY <1>1, <1>2 DEF Typed
  <2> QED
    BY <1>1, <1>2, <1>3, <2>1, StillTyped
<1>5. Resolving'
  <2>1. Lasting
    BY <1>1 DEF Lasting
  <2>2. \A d \in Clients : Passed(d)
    BY <1>1, <1>3 DEF Passed
  <2>3. Call(c)'
    BY <1>2, <2>1, <2>2, CallStands DEF Resolving, Calls
  <2> QED
    BY <1>1, <1>2, <2>1, <2>2, <2>3, ResolvingStands
<1>6. \A d \in Clients : d # c => Still(d)
  BY <1>3 DEF Still
<1>7. Talking' /\ Gathering'
  BY <1>2, <1>6, TheRest
<1> QED
  BY <1>4, <1>5, <1>7 DEF IInv

\* The signal of a step that ends connect(): what failed stays as it is.
LEMMA RaiseStep ==
  ASSUME IInv, NEW c \in Clients, UNCHANGED <<resolver, disco, asked, login>>,
         phase[c] \notin {"start", "resolve"},
         NEW p \in {"unreachable", "refused", "lost", "undiscovered"},
         NEW e \in {"connectionFailed", "streamError"}, Enter(c, p), Signal(c, <<e>>),
         p = "refused" => Talk(c)',
         p \in {"unreachable", "refused"} => refused[c] = {}
  PROVE  IInv'
<1>1. Typed /\ Talk(c) /\ Gather(c)
  BY DEF IInv, Talking, Gathering
<1>2. /\ discoCache' = discoCache /\ toDisco' = toDisco /\ listed' = listed
      /\ refused' = refused /\ login' = login /\ phase' = [phase EXCEPT ![c] = p]
  BY DEF disco, Enter
<1>3. phase'[c] = p
  BY <1>1, <1>2 DEF Typed
<1>4. /\ events' \in [Clients -> Seq(Signals)]
      /\ \A d \in Clients : d # c => events'[d] = events[d]
      /\ ~Begun(c)'
  <2>1. e \in Signals /\ e # "sessionStarted"
    BY DEF Signals
  <2> QED
    BY <1>1, <2>1, Signalled
<1>5. Talk(c)'
  BY <1>1, <1>2, <1>3 DEF Talk
<1>6. Gather(c)'
  BY <1>1, <1>2, <1>3, <1>4 DEF Gather
<1>7. /\ login' \in [Clients -> Logins] /\ discoCache' = [d \in Clients |-> discoCache'[d]]
      /\ toDisco' \in [Clients -> SUBSET Items] /\ listed' \in [Clients -> SUBSET Items]
      /\ refused' \in [Clients -> SUBSET Items]
  BY <1>1, <1>2 DEF Typed
<1>8. p \in Phases \ {"start", "resolve"}
  BY DEF Phases
<1> QED
  BY <1>2, <1>4, <1>5, <1>6, <1>7, <1>8, Beyond

LEMMA ConnectStep ==
  ASSUME IInv, NEW c \in Clients, Connect(c)
  PROVE  IInv'
<1>1. Typed /\ Resolving /\ Talking /\ Gathering /\ Call(c) /\ Talk(c) /\ Gather(c)
  BY DEF IInv, Resolving, Calls, Talking, Gathering
<1>2. PICK pair \in Asked : /\ asked' = [asked EXCEPT ![c] = pair]
                            /\ stack' = [stack EXCEPT ![c] = << Frame(pair[1], pair[2]) >>]
  BY DEF Connect
<1>3. /\ phase[c] = "start" /\ phase' = [phase EXCEPT ![c] = "resolve"]
      /\ zone' = zone /\ dnsCache' = dnsCache /\ answer' = answer /\ login' = login
      /\ events' = events /\ discoCache' = discoCache /\ toDisco' = toDisco
      /\ listed' = listed /\ refused' = refused
  BY DEF Connect, Enter, disco
<1> DEFINE f == Frame(pair[1], pair[2])
<1>4. f \in Frames /\ f.host = pair[1] /\ f.port = pair[2]
  <2>1. pair \in Pairs
    BY DEF Pairs
  <2>2. pair[1] \in Hosts /\ pair[2] \in Ports
    BY <2>1 DEF Hosts, Ports
  <2> QED
    BY <2>2 DEF Frame, Frames
<1> HIDE DEF f
<1>5. /\ asked'[c] = pair /\ stack'[c] = <<f>> /\ phase'[c] = "resolve"
      /\ \A d \in Clients : d # c => /\ asked'[d] = asked[d] /\ stack'[d] = stack[d]
                                     /\ phase'[d] = phase[d]
  BY <1>1, <1>2, <1>3 DEF Typed, f
<1>6. pair # << >>
  BY LoginAssumption
<1>7. <<f>> \in Seq(Frames) /\ Len(<<f>>) = 1 /\ <<f>>[1] = f /\ <<f>> # << >>
  BY <1>4
<1>8. Typed'
  <2>1. stack' \in [Clients -> Seq(Frames)]
    BY <1>1, <1>2, <1>7 DEF Typed, f
  <2>2. /\ asked' \in [Clients -> Asked \cup {<< >>}] /\ phase' \in [Clients -> Phases]
    BY <1>1, <1>2, <1>3 DEF Typed, Phases
  <2> QED
    BY <1>1, <1>3, <2>1, <2>2, StillTyped DEF Typed
<1>9. Lasting
  BY <1>1, <1>3, <1>5 DEF Lasting, Call
<1>10. Call(c)'
  <2>1. pair[2] \in PortsOf(pair[1])'
    BY <1>5, <1>6 DEF PortsOf
  <2>2. Chain(<<f>>)'
    <3>1. Frames' = Frames
      BY <1>3, Steady
    <3>2. \A i \in 1 .. Len(<<f>>) : <<f>>[i] = f
      BY <1>7
    <3>3. 1 .. Len(<<f>>) - 1 = {}
      BY <1>7
    <3>4. <<f>> \in Seq(Frames')
      BY <1>7, <3>1
    <3>5. \A i \in 1 .. Len(<<f>>) : <<f>>[i].port \in PortsOf(<<f>>[i].host)'
      BY <1>4, <2>1, <3>2
    <3> QED
      BY <3>3, <3>4, <3>5 DEF Chain
  <2>3. Chain(stack[c])'
    BY <1>5, <2>2
  <2>4. answer'[c] = Nothing /\ Nothing \notin Addresses'
    <3>1. Addresses' = Addresses
      BY <1>3, Steady
    <3> QED
      BY <1>1, <1>3, <3>1, NoAddress DEF Call
  <2> QED
    BY <1>4, <1>5, <1>6, <1>7, <2>3, <2>4 DEF Call
<1>11. Resolving'
  <2>1. \A d \in Clients : d # c => Passed(d)
    BY <1>3, <1>5 DEF Passed
  <2> QED
    BY <1>1, <1>3, <1>9, <1>10, <2>1, ResolvingStands
<1>12. Talking' /\ Gathering'
  <2>1. \A d \in Clients : d # c => Still(d)
    BY <1>3, <1>5 DEF Still
  <2>2. Talk(c)'
    BY <1>1, <1>3, <1>5 DEF Talk
  <2>3. Gather(c)'
    BY <1>1, <1>3, <1>5 DEF Gather, Begun
  <2> QED
    BY <1>1, <2>1, <2>2, <2>3, TheRest
<1> QED
  BY <1>8, <1>11, <1>12 DEF IInv

LEMMA ResolvedStep ==
  ASSUME IInv, NEW c \in Clients, Resolved(c)
  PROVE  IInv'
<1>1. Typed /\ Resolving /\ Talking /\ Gathering /\ Call(c) /\ Talk(c) /\ Gather(c)
  BY DEF IInv, Resolving, Calls, Talking, Gathering
<1>2. /\ phase[c] = "resolve" /\ Len(stack[c]) = 1
      /\ stack' = [stack EXCEPT ![c] = << >>]
      /\ zone' = zone /\ dnsCache' = dnsCache /\ answer' = answer /\ asked' = asked
      /\ login' = login /\ discoCache' = discoCache /\ toDisco' = toDisco
      /\ listed' = listed /\ refused' = refused
  BY DEF Resolved, disco
<1>3. PICK p \in {"connect", "unresolved"} : phase' = [phase EXCEPT ![c] = p]
  BY DEF Resolved, Enter
<1>4. /\ events' \in [Clients -> Seq(Signals)]
      /\ \A d \in Clients : d # c => events'[d] = events[d]
      /\ ~Begun(c)'
  <2>1. CASE Signal(c, <<"connecting">>)
    <3>1. "connecting" \in Signals /\ "connecting" # "sessionStarted"
      BY DEF Signals
    <3> QED
      BY <1>1, <2>1, <3>1, Signalled
  <2>2. CASE events' = events
    <3>1. ~Begun(c)
      BY <1>1, <1>2 DEF Gather
    <3>2. Begun(c)' <=> Begun(c)
      BY <2>2 DEF Begun
    <3> QED
      BY <1>1, <2>2, <3>1, <3>2 DEF Typed
  <2> QED
    BY <2>1, <2>2 DEF Resolved
<1>5. /\ stack'[c] = << >> /\ phase'[c] = p
      /\ \A d \in Clients : d # c => stack'[d] = stack[d] /\ phase'[d] = phase[d]
  BY <1>1, <1>2, <1>3 DEF Typed
<1>6. Typed'
  <2>1. stack' \in [Clients -> Seq(Frames)] /\ phase' \in [Clients -> Phases]
    BY <1>1, <1>2, <1>3 DEF Typed, Phases
  <2> QED
    BY <1>1, <1>2, <1>4, <2>1, StillTyped DEF Typed
<1>7. Lasting
  BY <1>2 DEF Lasting
<1>8. Call(c)'
  <2>1. stack[c] # << >> /\ Top(c) = stack[c][1]
    BY <1>2 DEF Top
  <2>2. asked[c] # << >> /\ (answer[c] \in Addresses => Found(asked[c][1], answer[c]))
    BY <1>1, <2>1 DEF Call
  <2>3. Addresses' = Addresses
    BY <1>2, Steady
  <2>4. Found(asked[c][1], answer[c]) => Found(asked[c][1], answer[c])'
    <3>1. \A h, a1 : Found(h, a1) => Found(h, a1)'
      BY <1>7, StillFound
    <3> QED
      BY <1>2, <3>1
  <2> QED
    BY <1>2, <1>5, <2>2, <2>3, <2>4 DEF Call
<1>9. Resolving'
  <2>1. \A d \in Clients : d # c => Passed(d)
    BY <1>2, <1>5 DEF Passed
  <2> QED
    BY <1>1, <1>2, <1>7, <1>8, <2>1, ResolvingStands
<1>10. Talking' /\ Gathering'
  <2>1. \A d \in Clients : d # c => Still(d)
    BY <1>2, <1>4, <1>5 DEF Still
  <2>2. Talk(c)'
    BY <1>1, <1>2, <1>5 DEF Talk
  <2>3. Gather(c)'
    BY <1>1, <1>2, <1>4, <1>5 DEF Gather
  <2> QED
    BY <1>1, <2>1, <2>2, <2>3, TheRest
<1> QED
  BY <1>6, <1>9, <1>10 DEF IInv

\* A step that changes but the phase.
LEMMA EnterStep ==
  ASSUME IInv, NEW c \in Clients, UNCHANGED <<resolver, disco, asked, login, events>>,
         phase[c] \notin {"start", "resolve", "session"}, NEW p \in {"features", "items"},
         Enter(c, p), phase[c] \notin {"services", "lost", "undiscovered"},
         p = "items" => phase[c] = "info"
  PROVE  IInv'
<1>1. Typed /\ Talk(c) /\ Gather(c)
  BY DEF IInv, Talking, Gathering
<1>2. /\ discoCache' = discoCache /\ toDisco' = toDisco /\ listed' = listed
      /\ refused' = refused /\ login' = login /\ phase' = [phase EXCEPT ![c] = p]
      /\ events' = events
  BY DEF disco, Enter
<1>3. phase'[c] = p
  BY <1>1, <1>2 DEF Typed
<1>4. ~Begun(c)'
  BY <1>1, <1>2 DEF Gather, Begun
<1>5. Talk(c)'
  BY <1>1, <1>2, <1>3 DEF Talk
<1>6. Gather(c)'
  BY <1>1, <1>2, <1>3, <1>4 DEF Gather
<1>7. /\ login' \in [Clients -> Logins] /\ discoCache' = [d \in Clients |-> discoCache'[d]]
      /\ toDisco' \in [Clients -> SUBSET Items] /\ listed' \in [Clients -> SUBSET Items]
      /\ refused' \in [Clients -> SUBSET Items] /\ events' \in [Clients -> Seq(Signals)]
  BY <1>1, <1>2 DEF Typed
<1>8. p \in Phases \ {"start", "resolve"}
  BY DEF Phases
<1> QED
  BY <1>2, <1>5, <1>6, <1>7, <1>8, Beyond

LEMMA ConnectedStep ==
  ASSUME IInv, NEW c \in Clients, Connected(c)
  PROVE  IInv'
<1>1. phase[c] = "connect" /\ UNCHANGED <<resolver, disco, asked, login>>
  BY DEF Connected, In
<1>2. CASE Enter(c, "features") /\ UNCHANGED events
  BY <1>1, <1>2, EnterStep
<1>3. CASE Enter(c, "unreachable") /\ Signal(c, <<"connectionFailed">>)
  <2>1. refused[c] = {}
    BY <1>1 DEF IInv, Gathering, Gather
  <2> QED
    BY <1>1, <1>3, <2>1, RaiseStep
<1> QED
  BY <1>2, <1>3 DEF Connected

LEMMA LostStep ==
  ASSUME IInv, NEW c \in Clients, Lost(c)
  PROVE  IInv'
BY RaiseStep DEF Lost, Raise

LEMMA DiscoFailsStep ==
  ASSUME IInv, NEW c \in Clients, DiscoFails(c)
  PROVE  IInv'
BY RaiseStep DEF DiscoFails, Raise

LEMMA GetInfoStep ==
  ASSUME IInv, NEW c \in Clients, GetInfo(c)
  PROVE  IInv'
BY EnterStep DEF GetInfo, In

LEMMA GetFailureStep ==
  ASSUME IInv, NEW c \in Clients, GetFailure(c)
  PROVE  IInv'
<1>1. Typed /\ Talk(c) /\ Gather(c)
  BY DEF IInv, Talking, Gathering
<1>2. /\ phase[c] = "sasl" /\ Enter(c, "refused") /\ Signal(c, <<"streamError">>)
      /\ ~\E w \in Wanted(login[c]) : IsPrefix(login[c].replies, w)
      /\ UNCHANGED <<resolver, disco, asked, login>>
  BY DEF GetFailure, In, Raise
<1>3. PICK m \in Mechanisms :
        login[c].mech = {m} /\ SaidBy(m, login[c], login[c].replies)
  BY <1>1, <1>2 DEF Talk
<1>4. Hopeless(login[c])
  <2>1. ASSUME m \notin Unfinished, m \in login[c].offer, login[c].replies # <<"first, garbled">>
        PROVE  FALSE
    <3>1. PICK w \in Expects[m] : IsPrefix(login[c].replies, w)
      BY <1>3, <2>1, Finishes DEF SaidBy
    <3>2. w \in Wanted(login[c])
      BY <1>3, <2>1 DEF Wanted
    <3> QED
      BY <1>2, <3>1, <3>2
  <2>2. ASSUME login[c].replies = <<"first, garbled">>, m \notin Unfinished
        PROVE  m = "SCRAM" /\ login[c].user = "delimited"
    <3>1. m = "SCRAM"
      <4>1. <<"first, garbled">> \in Said[m]
        BY <1>3, <2>2 DEF SaidBy
      <4>2. /\ Said["PLAIN"] = {<<"password">>} /\ Said["ANONYMOUS"] = {<<"anonymous">>}
            /\ Said["CRAM"] = {<<"empty">>, <<"empty", "mac">>}
            /\ Said["DIGEST"] = {<<"empty">>, <<"empty", "digest">>,
                                 <<"empty", "digest", "empty">>}
        BY DEF Said
      <4>3. /\ <<"password">> # <<"first, garbled">> /\ <<"anonymous">> # <<"first, garbled">>
            /\ <<"empty">> # <<"first, garbled">> /\ <<"empty", "mac">> # <<"first, garbled">>
            /\ <<"empty", "digest">> # <<"first, garbled">>
            /\ <<"empty", "digest", "empty">> # <<"first, garbled">>
        OBVIOUS
      <4>4. m \notin {"PLAIN", "ANONYMOUS", "CRAM", "DIGEST"}
        BY <4>1, <4>2, <4>3
      <4> QED
        BY <2>2, <4>4, Mechanism DEF Unfinished
    <3> QED
      BY <1>3, <2>2, <3>1 DEF SaidBy
  <2> QED
    BY <1>3, <2>1, <2>2 DEF Hopeless
<1>5. Talk(c)'
  <2>1. login' = login /\ phase'[c] = "refused"
    BY <1>1, <1>2 DEF Enter, Typed
  <2> QED
    BY <1>1, <1>3, <1>4, <2>1 DEF Talk
<1>6. refused[c] = {}
  BY <1>1, <1>2 DEF Gather
<1> QED
  BY <1>2, <1>5, <1>6, RaiseStep

-----------------------------------------------------------------------------
(* The SASL exchange.                                                      *)

LEMMA ReplyStep ==
  ASSUME IInv, NEW c \in Clients, UNCHANGED <<resolver, disco, asked>>,
         phase[c] \in {"features", "sasl"}, NEW l \in Logins, NEW m \in Mechanisms,
         l.mech = {m}, Reply(c, l),
         \/ l.replies = << >>
         \/ SaidBy(m, l, l.replies) /\ \E w \in Expects[m] : IsStrictPrefix(l.replies, w)
  PROVE  IInv'
<1>1. Typed /\ Talk(c) /\ Gather(c)
  BY DEF IInv, Talking, Gathering
<1>2. /\ discoCache' = discoCache /\ toDisco' = toDisco /\ listed' = listed
      /\ refused' = refused
  BY DEF disco
<1> DEFINE reply == Process(m, l, Len(l.replies))
           k == [l EXCEPT !.replies = Append(l.replies, reply)]
<1>3. (CHOOSE x \in l.mech : TRUE) = m
  <2>1. \E x \in l.mech : TRUE
    OBVIOUS
  <2>2. (CHOOSE x \in l.mech : TRUE) \in l.mech
    BY <2>1
  <2> QED
    BY <2>2
<1>4. /\ login' = [login EXCEPT ![c] = k]
      /\ IF reply = "raises" THEN Raise(c, "unable") ELSE Enter(c, "sasl") /\ UNCHANGED events
  BY <1>3 DEF Reply
<1>5. l.replies \in Seq(Replies)
  BY DEF Logins
<1>6. /\ reply \in Replies /\ (reply = "raises" => Raising(m, l))
      /\ reply # "raises" => SaidBy(m, l, Append(l.replies, reply))
  <2>1. CASE l.replies = << >>
    <3>1. Len(l.replies) = 0 /\ \A x : Append(l.replies, x) = <<x>>
      BY <2>1
    <3>2. /\ Process(m, l, 0) \in Replies
          /\ Process(m, l, 0) = "raises" => Raising(m, l)
          /\ Process(m, l, 0) # "raises" => SaidBy(m, l, <<Process(m, l, 0)>>)
      BY FirstReply
    <3> QED
      BY <3>1, <3>2
  <2>2. CASE SaidBy(m, l, l.replies) /\ \E w \in Expects[m] : IsStrictPrefix(l.replies, w)
    BY <2>2, NextReply
  <2> QED
    BY <2>1, <2>2
<1> HIDE DEF reply
<1>7. Append(l.replies, reply) \in Seq(Replies)
  BY <1>5, <1>6
<1>8. /\ k \in Logins /\ k.mech = l.mech /\ k.offer = l.offer /\ k.user = l.user
      /\ k.prepared = l.prepared /\ k.tls = l.tls /\ k.fits = l.fits
      /\ k.replies = Append(l.replies, reply)
  BY <1>7 DEF Logins
<1> HIDE DEF k
<1>9. Raising(m, l) => Hopeless(k)
  BY <1>8 DEF Raising, Hopeless
<1>10. /\ login' \in [Clients -> Logins] /\ login'[c] = k
       /\ \A d \in Clients : d # c => login'[d] = login[d]
  BY <1>1, <1>4, <1>8 DEF Typed
<1>11. /\ discoCache' = [d \in Clients |-> discoCache'[d]]
       /\ toDisco' \in [Clients -> SUBSET Items] /\ listed' \in [Clients -> SUBSET Items]
       /\ refused' \in [Clients -> SUBSET Items]
  BY <1>1, <1>2 DEF Typed
<1>12. ASSUME reply = "raises"
       PROVE  IInv'
  <2>1. phase' = [phase EXCEPT ![c] = "unable"] /\ Signal(c, <<"streamError">>)
    BY <1>4, <1>12 DEF Raise, Enter
  <2>2. phase'[c] = "unable"
    BY <1>1, <2>1 DEF Typed
  <2>3. /\ events' \in [Clients -> Seq(Signals)]
        /\ \A d \in Clients : d # c => events'[d] = events[d]
        /\ ~Begun(c)'
    <3>1. "streamError" \in Signals /\ "streamError" # "sessionStarted"
      BY DEF Signals
    <3> QED
      BY <1>1, <2>1, <3>1, Signalled
  <2>4. Talk(c)'
    BY <1>6, <1>8, <1>9, <1>10, <1>12, <2>2 DEF Talk
  <2>5. Gather(c)'
    BY <1>1, <1>2, <2>2, <2>3 DEF Gather
  <2>6. "unable" \in Phases \ {"start", "resolve"}
    BY DEF Phases
  <2> QED
    BY <1>2, <1>10, <1>11, <2>1, <2>3, <2>4, <2>5, <2>6, Beyond
<1>13. ASSUME reply # "raises"
       PROVE  IInv'
  <2>1. phase' = [phase EXCEPT ![c] = "sasl"] /\ events' = events
    BY <1>4, <1>13 DEF Enter
  <2>2. phase'[c] = "sasl"
    BY <1>1, <2>1 DEF Typed
  <2>3. events' \in [Clients -> Seq(Signals)] /\ ~Begun(c)'
    BY <1>1, <2>1 DEF Typed, Gather, Begun
  <2>4. Talk(c)'
    <3>1. SaidBy(m, k, k.replies)
      BY <1>6, <1>8, <1>13 DEF SaidBy
    <3> QED
      BY <1>8, <1>10, <2>2, <3>1 DEF Talk
  <2>5. Gather(c)'
    BY <1>1, <1>2, <2>2, <2>3 DEF Gather
  <2>6. "sasl" \in Phases \ {"start", "resolve"}
    BY DEF Phases
  <2> QED
    BY <1>2, <1>10, <1>11, <2>1, <2>3, <2>4, <2>5, <2>6, Beyond
<1> QED
  BY <1>12, <1>13

LEMMA GetFeaturesStep ==
  ASSUME IInv, NEW c \in Clients, GetFeatures(c)
  PROVE  IInv'
<1>1. Typed /\ Talk(c) /\ Gather(c)
  BY DEF IInv, Talking, Gathering
<1>2. phase[c] = "features" /\ UNCHANGED <<resolver, disco, asked>>
  BY DEF GetFeatures, In
<1>3. PICK offer \in Offers, user \in Users, prepared \in BOOLEAN, tls \in BOOLEAN :
        LET l == NewLogin(ChooseMechanism(user, offer), offer, user, prepared, tls)
        IN  IF l.mech # {} THEN Reply(c, l)
            ELSE login' = [login EXCEPT ![c] = l] /\ Raise(c, "unable")
  BY DEF GetFeatures
<1> DEFINE mech == ChooseMechanism(user, offer)
           l == NewLogin(mech, offer, user, prepared, tls)
<1>4. mech \subseteq Mechanisms /\ (mech = {} \/ \E m \in Mechanisms : mech = {m})
  BY OneIsChosen
<1>5. IF l.mech # {} THEN Reply(c, l)
      ELSE login' = [login EXCEPT ![c] = l] /\ Raise(c, "unable")
  BY <1>3
<1> HIDE DEF mech
<1>6. l \in Logins /\ l.mech = mech /\ l.replies = << >>
  <2>1. l.mech = mech /\ l.replies = << >>
    BY DEF NewLogin
  <2>2. << >> \in Seq(Replies) /\ mech \in SUBSET Mechanisms /\ offer \in Offers \cup {{}}
    BY <1>4
  <2>3. l \in Logins
    BY <2>2 DEF Logins, NewLogin
  <2> QED
    BY <2>1, <2>3
<1> HIDE DEF l
<1>8. CASE mech # {}
  <2>1. PICK m \in Mechanisms : mech = {m}
    BY <1>4, <1>8
  <2> QED
    BY <1>2, <1>5, <1>6, <1>8, <2>1, ReplyStep
<1>9. CASE mech = {}
  <2>1. /\ login' = [login EXCEPT ![c] = l] /\ phase' = [phase EXCEPT ![c] = "unable"]
        /\ Signal(c, <<"streamError">>)
    BY <1>5, <1>6, <1>9 DEF Raise, Enter
  <2>2. /\ discoCache' = discoCache /\ toDisco' = toDisco /\ listed' = listed
        /\ refused' = refused
    BY <1>2 DEF disco
  <2>3. /\ events' \in [Clients -> Seq(Signals)]
        /\ \A d \in Clients : d # c => events'[d] = events[d]
        /\ ~Begun(c)'
    <3>1. "streamError" \in Signals /\ "streamError" # "sessionStarted"
      BY DEF Signals
    <3> QED
      BY <1>1, <2>1, <3>1, Signalled
  <2>4. /\ login' \in [Clients -> Logins] /\ login'[c] = l /\ phase'[c] = "unable"
        /\ \A d \in Clients : d # c => login'[d] = login[d]
    BY <1>1, <1>6, <2>1 DEF Typed
  <2>5. /\ discoCache' = [d \in Clients |-> discoCache'[d]]
        /\ toDisco' \in [Clients -> SUBSET Items] /\ listed' \in [Clients -> SUBSET Items]
        /\ refused' \in [Clients -> SUBSET Items]
    BY <1>1, <2>2 DEF Typed
  <2>6. Talk(c)'
    BY <1>6, <1>9, <2>4 DEF Talk, Hopeless
  <2>7. Gather(c)'
    BY <1>1, <1>2, <2>2, <2>3, <2>4 DEF Gather
  <2>8. "unable" \in Phases \ {"start", "resolve"}
    BY DEF Phases
  <2> QED
    BY <1>2, <2>1, <2>2, <2>3, <2>4, <2>5, <2>6, <2>7, <2>8, Beyond
<1> QED
  BY <1>8, <1>9

LEMMA GetChallengeStep ==
  ASSUME IInv, NEW c \in Clients, GetChallenge(c)
  PROVE  IInv'
<1>1. Typed /\ Talk(c)
  BY DEF IInv, Talking
<1>2. /\ phase[c] = "sasl" /\ Reply(c, login[c]) /\ UNCHANGED <<resolver, disco, asked>>
      /\ \E w \in Wanted(login[c]) : IsStrictPrefix(login[c].replies, w)
  BY DEF GetChallenge, In
<1>3. PICK m \in Mechanisms : /\ login[c].mech = {m}
                              /\ SaidBy(m, login[c], login[c].replies)
  BY <1>1, <1>2 DEF Talk
<1>4. \E w \in Expects[m] : IsStrictPrefix(login[c].replies, w)
  BY <1>2, <1>3 DEF Wanted
<1>5. login[c] \in Logins
  BY <1>1 DEF Typed
<1> QED
  BY <1>2, <1>3, <1>4, <1>5, ReplyStep

\* A challenge that does not fit leaves nothing to claim.
LEMMA GetBadChallengeStep ==
  ASSUME IInv, NEW c \in Clients, GetBadChallenge(c)
  PROVE  IInv'
<1>1. Typed /\ Talk(c) /\ Gather(c)
  BY DEF IInv, Talking, Gathering
<1> DEFINE k == [login[c] EXCEPT !.fits = FALSE, !.replies = Append(login[c].replies, "raises")]
<1>2. /\ phase[c] = "sasl" /\ phase' = [phase EXCEPT ![c] = "unable"]
      /\ Signal(c, <<"streamError">>) /\ UNCHANGED <<resolver, asked>>
      /\ discoCache' = discoCache /\ toDisco' = toDisco /\ listed' = listed
      /\ refused' = refused
  BY DEF GetBadChallenge, In, Raise, Enter, disco
<1>3. login' = [login EXCEPT ![c] = k]
  BY <1>1 DEF GetBadChallenge, Typed, Logins
<1>4. k \in Logins /\ k.fits = FALSE
  <2>1. login[c] \in Logins /\ login[c].replies \in Seq(Replies) /\ "raises" \in Replies
    BY <1>1, Kinds DEF Typed, Logins
  <2>2. Append(login[c].replies, "raises") \in Seq(Replies)
    BY <2>1
  <2> QED
    BY <2>1, <2>2 DEF Logins
<1> HIDE DEF k
<1>5. /\ login' \in [Clients -> Logins] /\ login'[c] = k /\ phase'[c] = "unable"
      /\ \A d \in Clients : d # c => login'[d] = login[d]
  BY <1>1, <1>2, <1>3, <1>4 DEF Typed
<1>6. /\ events' \in [Clients -> Seq(Signals)]
      /\ \A d \in Clients : d # c => events'[d] = events[d]
      /\ ~Begun(c)'
  <2>1. "streamError" \in Signals /\ "streamError" # "sessionStarted"
    BY DEF Signals
  <2> QED
    BY <1>1, <1>2, <2>1, Signalled
<1>7. /\ discoCache' = [d \in Clients |-> discoCache'[d]]
      /\ toDisco' \in [Clients -> SUBSET Items] /\ listed' \in [Clients -> SUBSET Items]
      /\ refused' \in [Clients -> SUBSET Items]
  BY <1>1, <1>2 DEF Typed
<1>8. Talk(c)' /\ Gather(c)'
  BY <1>1, <1>2, <1>4, <1>5, <1>6 DEF Talk, Gather
<1>9. "unable" \in Phases \ {"start", "resolve"}
  BY DEF Phases
<1> QED
  BY <1>2, <1>5, <1>6, <1>7, <1>8, <1>9, Beyond

-----------------------------------------------------------------------------
(* The service discovery.                                                  *)

LEMMA GetSuccessStep ==
  ASSUME IInv, NEW c \in Clients, GetSuccess(c)
  PROVE  IInv'
<1>1. Typed /\ Talk(c) /\ Gather(c)
  BY DEF IInv, Talking, Gathering
<1>2. /\ phase[c] = "sasl" /\ login[c].replies \in Wanted(login[c])
      /\ phase' = [phase EXCEPT ![c] = "info"]
      /\ discoCache' = [discoCache EXCEPT ![c] = Empty]
      /\ UNCHANGED <<resolver, asked>> /\ toDisco' = toDisco /\ listed' = listed
      /\ refused' = refused /\ login' = login /\ events' = events
  BY DEF GetSuccess, In, Enter
<1>3. PICK m \in Mechanisms :
        login[c].mech = {m} /\ SaidBy(m, login[c], login[c].replies)
  BY <1>1, <1>2 DEF Talk
<1>4. ~Hopeless(login[c])
  <2>1. m \in login[c].offer /\ login[c].replies \in Expects[m]
    BY <1>2, <1>3 DEF Wanted
  <2>2. /\ m \notin Unfinished
        /\ login[c].replies # <<"empty">> /\ login[c].replies # <<"first, garbled">>
    BY <1>3, <2>1, Finishes DEF SaidBy
  <2> QED
    BY <1>3, <2>1, <2>2 DEF Hopeless, SaidBy
<1>5. phase'[c] = "info" /\ discoCache'[c] = Empty
  BY <1>1, <1>2 DEF Typed
<1>6. Talk(c)'
  BY <1>1, <1>2, <1>3, <1>4, <1>5 DEF Talk
<1>7. Gather(c)'
  <2>1. DOMAIN Empty = {}
    BY DEF Empty
  <2>2. ~Begun(c)'
    BY <1>1, <1>2 DEF Gather, Begun
  <2> QED
    BY <1>1, <1>2, <1>5, <2>1, <2>2 DEF Gather
<1>8. /\ login' \in [Clients -> Logins] /\ events' \in [Clients -> Seq(Signals)]
      /\ discoCache' = [d \in Clients |-> discoCache'[d]]
      /\ toDisco' \in [Clients -> SUBSET Items] /\ listed' \in [Clients -> SUBSET Items]
      /\ refused' \in [Clients -> SUBSET Items]
      /\ \A d \in Clients : d # c => discoCache'[d] = discoCache[d]
  BY <1>1, <1>2 DEF Typed
<1>9. "info" \in Phases \ {"start", "resolve"}
  BY DEF Phases
<1> QED
  BY <1>2, <1>6, <1>7, <1>8, <1>9, Beyond

\* update() has another item, or has done: the session starts.
LEMMA DoneStep ==
  ASSUME IInv, NEW c \in Clients, UNCHANGED <<resolver, asked, login>>,
         phase[c] \in {"items", "services"}, NEW items \in SUBSET Items, Done(c, items),
         NEW cached, discoCache' = [discoCache EXCEPT ![c] = cached],
         toDisco' = [toDisco EXCEPT ![c] = items],
         NEW l \in SUBSET Items, listed' = [listed EXCEPT ![c] = l],
         NEW r \in SUBSET Items, refused' = [refused EXCEPT ![c] = r],
         items \cap r = {}, items \subseteq l,
         DOMAIN cached = {Server} \cup (l \ (r \cup items)),
         Server \notin l => cached[Server] = l
  PROVE  IInv'
<1>1. Typed /\ Talk(c) /\ Gather(c)
  BY DEF IInv, Talking, Gathering
<1>2. /\ discoCache' = [d \in Clients |-> discoCache'[d]] /\ login' \in [Clients -> Logins]
      /\ toDisco' \in [Clients -> SUBSET Items] /\ listed' \in [Clients -> SUBSET Items]
      /\ refused' \in [Clients -> SUBSET Items] /\ login' = login
      /\ discoCache'[c] = cached /\ toDisco'[c] = items /\ listed'[c] = l /\ refused'[c] = r
      /\ \A d \in Clients : d # c =>
           /\ discoCache'[d] = discoCache[d] /\ toDisco'[d] = toDisco[d]
           /\ listed'[d] = listed[d] /\ refused'[d] = refused[d]
  <2>1. /\ discoCache' = [d \in Clients |-> discoCache'[d]] /\ discoCache'[c] = cached
        /\ \A d \in Clients : d # c => discoCache'[d] = discoCache[d]
    BY <1>1 DEF Typed
  <2>2. /\ toDisco' \in [Clients -> SUBSET Items] /\ toDisco'[c] = items
        /\ \A d \in Clients : d # c => toDisco'[d] = toDisco[d]
    BY <1>1 DEF Typed
  <2>3. /\ listed' \in [Clients -> SUBSET Items] /\ listed'[c] = l
        /\ \A d \in Clients : d # c => listed'[d] = listed[d]
    BY <1>1 DEF Typed
  <2>4. /\ refused' \in [Clients -> SUBSET Items] /\ refused'[c] = r
        /\ \A d \in Clients : d # c => refused'[d] = refused[d]
    BY <1>1 DEF Typed
  <2>5. login' = login /\ login' \in [Clients -> Logins]
    BY <1>1 DEF Typed
  <2> QED
    BY <2>1, <2>2, <2>3, <2>4, <2>5
<1>3. PICK p \in {"services", "session"} :
        /\ phase' = [phase EXCEPT ![c] = p]
        /\ p = "session" => items = {} /\ Signal(c, <<"sessionStarted">>)
        /\ p = "services" => events' = events
  BY DEF Done, Enter
<1>4. phase'[c] = p
  BY <1>1, <1>3 DEF Typed
<1>5. /\ events' \in [Clients -> Seq(Signals)]
      /\ \A d \in Clients : d # c => events'[d] = events[d]
      /\ p = "services" => ~Begun(c)'
  <2>1. CASE p = "session"
    <3>1. "sessionStarted" \in Signals
      BY DEF Signals
    <3> QED
      BY <1>1, <1>3, <2>1, <3>1, Signalled
  <2>2. CASE p = "services"
    <3>1. ~Begun(c)
      BY <1>1 DEF Gather
    <3>2. Begun(c)' <=> Begun(c)
      BY <1>3, <2>2 DEF Begun
    <3> QED
      BY <1>1, <1>3, <2>2, <3>1, <3>2 DEF Typed
  <2> QED
    BY <2>1, <2>2
<1>6. Talk(c)'
  BY <1>1, <1>2, <1>4 DEF Talk
<1>7. Filled(c)'
  BY <1>2 DEF Filled
<1>8. Gather(c)'
  BY <1>2, <1>3, <1>4, <1>5, <1>7 DEF Gather
<1>9. p \in Phases \ {"start", "resolve"}
  BY DEF Phases
<1>10. \A d \in Clients : d # c => login'[d] = login[d]
  BY <1>2
<1> QED
  BY <1>2, <1>3, <1>5, <1>6, <1>8, <1>9, <1>10, Beyond

LEMMA GetItemsStep ==
  ASSUME IInv, NEW c \in Clients, GetItems(c)
  PROVE  IInv'
<1>1. Typed /\ Gather(c)
  BY DEF IInv, Gathering
<1>2. phase[c] = "items" /\ UNCHANGED <<resolver, asked, login>>
  BY DEF GetItems, In
<1>3. PICK items \in SUBSET Items : GotItems(c, items) /\ Done(c, items)
  BY DEF GetItems, Items
<1> DEFINE cached == Put(discoCache[c], Server, items)
<1>4. /\ discoCache' = [discoCache EXCEPT ![c] = cached]
      /\ toDisco' = [toDisco EXCEPT ![c] = items] /\ listed' = [listed EXCEPT ![c] = items]
      /\ refused' = refused
  BY <1>3 DEF GotItems, Store
<1>5. refused[c] = {} /\ DOMAIN discoCache[c] = {}
  BY <1>1, <1>2 DEF Gather
<1>6. refused' = [refused EXCEPT ![c] = {}]
  BY <1>1, <1>4, <1>5 DEF Typed
<1>7. DOMAIN cached = {Server} /\ cached[Server] = items
  BY <1>5 DEF Put
<1> HIDE DEF cached
<1>8. DOMAIN cached = {Server} \cup (items \ ({} \cup items))
  BY <1>7
<1>9. {} \in SUBSET Items /\ items \cap {} = {} /\ items \subseteq items
  OBVIOUS
<1>10. Server \notin items => cached[Server] = items
  BY <1>7
<1> QED
  BY <1>2, <1>3, <1>4, <1>6, <1>8, <1>9, <1>10, DoneStep

LEMMA GetServiceInfoStep ==
  ASSUME IInv, NEW c \in Clients, GetServiceInfo(c)
  PROVE  IInv'
<1>1. Typed /\ Gather(c)
  BY DEF IInv, Gathering
<1>2. phase[c] = "services" /\ UNCHANGED <<resolver, asked, login>> /\ Done(c, toDisco'[c])
  BY DEF GetServiceInfo, In
<1>3. PICK j \in toDisco[c] : GotItemInfo(c, j) \/ ItemRefused(c, j)
  BY DEF GetServiceInfo
<1>4. PICK items, l, r : items = toDisco[c] \ {j} /\ l = listed[c] /\ r = refused[c]
  OBVIOUS
<1>5. items \in SUBSET Items /\ l \in SUBSET Items /\ r \in SUBSET Items /\ j \in Items
  BY <1>1, <1>4 DEF Typed
<1>6. /\ j \in l /\ j \notin r /\ j \notin items /\ items \cap r = {} /\ items \subseteq l
      /\ DOMAIN discoCache[c] = {Server} \cup (l \ (r \cup items \cup {j}))
      /\ Server \notin l => discoCache[c][Server] = l
  BY <1>1, <1>2, <1>4 DEF Gather, Filled
<1>7. /\ toDisco' = [toDisco EXCEPT ![c] = items] /\ listed' = [listed EXCEPT ![c] = l]
      /\ toDisco'[c] = items
  <2>1. toDisco' = [toDisco EXCEPT ![c] = items] /\ listed' = listed
    BY <1>3, <1>4 DEF GotItemInfo, ItemRefused
  <2> QED
    BY <1>1, <1>4, <2>1 DEF Typed
<1>8. Done(c, items)
  BY <1>2, <1>7 DEF Done
<1>9. CASE GotItemInfo(c, j)
  <2>1. PICK cached : cached = Put(discoCache[c], j, {})
    OBVIOUS
  <2>2. discoCache' = [discoCache EXCEPT ![c] = cached]
    BY <1>9, <2>1 DEF GotItemInfo, Store
  <2>3. refused' = [refused EXCEPT ![c] = r]
    BY <1>1, <1>4, <1>9 DEF GotItemInfo, Typed
  <2>4. /\ DOMAIN cached = {j} \cup DOMAIN discoCache[c]
        /\ \A x \in DOMAIN discoCache[c] : x # j => cached[x] = discoCache[c][x]
    BY <2>1 DEF Put
  <2>5. DOMAIN cached = {Server} \cup (l \ (r \cup items))
    BY <1>6, <2>4
  <2>6. Server \notin l => cached[Server] = l
    BY <1>6, <2>4
  <2> QED
    BY <1>2, <1>5, <1>6, <1>7, <1>8, <2>2, <2>3, <2>5, <2>6, DoneStep
<1>10. CASE ItemRefused(c, j)
  <2>1. PICK cached, q : cached = discoCache[c] /\ q = r \cup {j}
    OBVIOUS
  <2>2. refused' = [refused EXCEPT ![c] = q]
    BY <1>4, <1>10, <2>1 DEF ItemRefused
  <2>3. discoCache' = [discoCache EXCEPT ![c] = cached]
    BY <1>1, <1>10, <2>1 DEF ItemRefused, Typed
  <2>4. q \in SUBSET Items /\ items \cap q = {}
    BY <1>5, <1>6, <2>1
  <2>5. DOMAIN cached = {Server} \cup (l \ (q \cup items))
    BY <1>6, <2>1
  <2>6. Server \notin l => cached[Server] = l
    BY <1>6, <2>1
  <2> QED
    BY <1>2, <1>5, <1>6, <1>7, <1>8, <2>2, <2>3, <2>4, <2>5, <2>6, DoneStep
<1> QED
  BY <1>3, <1>9, <1>10

-----------------------------------------------------------------------------
(* The invariant is inductive.                                             *)

LEMMA InitHolds ==
  Init => IInv
<1> SUFFICES ASSUME Init
             PROVE  IInv
  OBVIOUS
<1>1. /\ dnsCache = Empty /\ stack = [c \in Clients |-> << >>]
      /\ answer = [c \in Clients |-> Nothing] /\ discoCache = [c \in Clients |-> Empty]
      /\ toDisco = [c \in Clients |-> {}] /\ listed = [c \in Clients |-> {}]
      /\ refused = [c \in Clients |-> {}] /\ phase = [c \in Clients |-> "start"]
      /\ asked = [c \in Clients |-> << >>] /\ login = [c \in Clients |-> NoLogin]
      /\ events = [c \in Clients |-> << >>]
  BY DEF Init, ResolverInit, DiscoInit
<1>2. DOMAIN dnsCache = {}
  BY <1>1 DEF Empty
<1>3. NoLogin \in Logins
  <2>1. "none" \in Users /\ << >> \in Seq(Replies) /\ {FALSE, TRUE} \subseteq BOOLEAN
    BY DEF Users, Nameless
  <2> QED
    BY <2>1 DEF NoLogin, NewLogin, Logins
<1>4. Typed
  <2>1. "start" \in Phases
    BY DEF Phases
  <2> QED
    BY <1>1, <1>2, <1>3, <2>1 DEF Typed
<1>5. Resolving
  BY <1>1, <1>2, NoAddress DEF Resolving, Cached, Calls, Call
<1>6. Talking
  BY <1>1 DEF Talking, Talk
<1>7. Gathering
  BY <1>1 DEF Gathering, Gather, Begun
<1> QED
  BY <1>4, <1>5, <1>6, <1>7 DEF IInv

LEMMA StepHolds ==
  IInv /\ [Next]_vars => IInv'
<1> SUFFICES ASSUME IInv, [Next]_vars
             PROVE  IInv'
  OBVIOUS
<1>1. ASSUME NEW c \in Clients, Resolve(c), UNCHANGED <<disco, connects>>
      PROVE  IInv'
  <2>1. Typed' /\ Resolving'
    BY <1>1, ResolveStep
  <2>2. \A d \in Clients : Still(d)
    BY <1>1 DEF disco, connects, Still
  <2>3. Talking' /\ Gathering'
    <3>1. Talk(c)' /\ Gather(c)'
      BY <1>1 DEF IInv, Talking, Gathering, Talk, Gather, Filled, Begun, disco, connects
    <3> QED
      BY <2>2, <3>1, TheRest DEF IInv
  <2> QED
    BY <2>1, <2>3 DEF IInv
<1>2. ASSUME UNCHANGED vars
      PROVE  IInv'
  <2>1. /\ zone' = zone /\ dnsCache' = dnsCache /\ stack' = stack /\ answer' = answer
        /\ asked' = asked
    BY <1>2 DEF vars, resolver, connects
  <2>2. /\ phase' = phase /\ login' = login /\ events' = events /\ discoCache' = discoCache
        /\ toDisco' = toDisco /\ listed' = listed /\ refused' = refused
    BY <1>2 DEF vars, disco, connects
  <2>3. Typed'
    <3>1. Typed
      BY DEF IInv
    <3> QED
      BY <2>1, <2>2, <3>1, StillTyped DEF Typed
  <2>4. Resolving'
    <3>1. Lasting
      BY <2>1 DEF Lasting
    <3>2. \A d \in Clients : Call(d)'
      BY <2>1, <2>2, <3>1, CallStands DEF Passed, IInv, Resolving, Calls
    <3>3. Addresses' = Addresses
      BY <2>1, Steady
    <3>4. \A h, a1 : Found(h, a1) => Found(h, a1)'
      BY <3>1, StillFound
    <3>5. Cached'
      BY <2>1, <3>3, <3>4 DEF IInv, Resolving, Cached
    <3> QED
      BY <3>2, <3>5 DEF Resolving, Calls
  <2>5. Talking'
    BY <2>2 DEF IInv, Talking, Talk
  <2>6. Gathering'
    BY <2>2 DEF IInv, Gathering, Gather, Filled, Begun
  <2> QED
    BY <2>3, <2>4, <2>5, <2>6 DEF IInv
<1> QED
  BY <1>1, <1>2, ConnectStep, ResolvedStep, ConnectedStep, LostStep, GetFeaturesStep,
     GetChallengeStep, GetBadChallengeStep, GetSuccessStep, GetFailureStep, GetInfoStep, GetItemsStep,
     GetServiceInfoStep, DiscoFailsStep
     DEF Next

LEMMA Invariant ==
  Spec => []IInv
BY InitHolds, StepHolds, PTL DEF Spec

-----------------------------------------------------------------------------
(* The theorems.                                                           *)

\* Whoever filled the cache that all clients share, and in whatever order the
\* queries of their calls were answered and failed, a client is given an
\* address of a host that the SRV records lead to from the one it asked for,
\* with a port that belongs to that host (utils.py:175, 211, 221).
THEOREM ResolvedIsAskedFor ==
  Spec => []ResolvedIsAsked
<1>1. IInv => ResolvedIsAsked
  <2> SUFFICES ASSUME IInv, NEW c \in Clients, answer[c].kind = "address",
                      phase[c] # "resolve"
               PROVE  /\ Reaches(asked[c][1], answer[c].host)
                      /\ answer[c].port \in PortsOf(answer[c].host)
    BY DEF ResolvedIsAsked
  <2>1. answer[c] \in Addresses
    <3>1. answer[c] \in Addresses \cup {Nothing, DNSError, RecursionError}
      BY DEF IInv, Typed
    <3> QED
      BY <3>1, RecordTypes
  <2>2. Call(c)
    BY DEF IInv, Resolving, Calls
  <2> QED
    BY <2>1, <2>2 DEF Call, Found
<1> QED
  BY <1>1, Invariant, PTL

\* With a server that knows the password and sends challenges that make sense,
\* authentication fails where it was hopeless from the choice of a mechanism
\* on (sasl.py:238, saslprep.py:48, scram_hmac.py:94-124), and nowhere else;
\* there it never succeeds.
THEOREM LoginFailuresAreKnown ==
  Spec => []FailuresAreKnown
<1>1. IInv => FailuresAreKnown
  BY DEF IInv, Talking, Talk, FailuresAreKnown
<1> QED
  BY <1>1, Invariant, PTL

LEMMA LastSignal ==
  ASSUME NEW s \in Seq(Signals), NEW e, IsSuffix(<<e>>, s)
  PROVE  s # << >> /\ s[Len(s)] = e
<1>1. /\ Len(s) \in Nat /\ Len(<<e>>) = 1 /\ <<e>>[1] = e
      /\ Reverse(<<e>>) = [i \in 1 .. Len(<<e>>) |-> <<e>>[(Len(<<e>>) - i) + 1]]
      /\ Reverse(s) = [i \in 1 .. Len(s) |-> s[(Len(s) - i) + 1]]
  BY DEF Reverse
<1>2. Reverse(<<e>>)[1] = e /\ Reverse(<<e>>) \in Seq({e}) /\ Len(Reverse(<<e>>)) = 1
  <2>1. Reverse(<<e>>) = [i \in 1 .. 1 |-> <<e>>[(1 - i) + 1]]
    BY <1>1
  <2>2. \A i \in 1 .. 1 : (1 - i) + 1 = 1 /\ <<e>>[(1 - i) + 1] = e
    BY <1>1
  <2>3. Reverse(<<e>>) = [i \in 1 .. 1 |-> e] /\ 1 \in Nat /\ e \in {e}
    BY <2>1, <2>2
  <2>4. [i \in 1 .. 1 |-> e] \in Seq({e}) /\ Len([i \in 1 .. 1 |-> e]) = 1
    OBVIOUS
  <2>5. 1 \in 1 .. 1
    OBVIOUS
  <2>6. [i \in 1 .. 1 |-> e][1] = e
    BY <2>5
  <2> QED
    BY <2>3, <2>4, <2>6
<1>3. Reverse(s) \in Seq(Signals) /\ Len(Reverse(s)) = Len(s)
  BY <1>1
<1>4. 1 <= Len(s) /\ SubSeq(Reverse(<<e>>), 1, 1) = SubSeq(Reverse(s), 1, 1)
  BY <1>2, <1>3 DEF IsSuffix, IsPrefix
<1>5. SubSeq(Reverse(<<e>>), 1, 1)[1] = e
  BY <1>2
<1>6. SubSeq(Reverse(s), 1, 1)[1] = Reverse(s)[1]
  BY <1>3, <1>4
<1>7. Reverse(s)[1] = s[Len(s)]
  BY <1>1, <1>4
<1> QED
  BY <1>1, <1>4, <1>5, <1>6, <1>7

\* When sessionStarted is the last that was signalled, the cache has the server
\* and all that it listed, but for what refused to answer (disco.py:91-101, 129).
THEOREM DiscoveryIsComplete ==
  Spec => []DiscoIsComplete
<1>1. IInv => DiscoIsComplete
  <2> SUFFICES ASSUME IInv, NEW c \in Clients, IsSuffix(<<"sessionStarted">>, events[c])
               PROVE  /\ DOMAIN discoCache[c] = {Server} \cup (listed[c] \ refused[c])
                      /\ Server \notin listed[c] => discoCache[c][Server] = listed[c]
    BY DEF DiscoIsComplete
  <2>1. Gather(c) /\ events[c] \in Seq(Signals)
    BY DEF IInv, Gathering, Typed
  <2>2. Begun(c)
    BY <2>1, LastSignal DEF Begun
  <2>3. Filled(c) /\ toDisco[c] = {}
    BY <2>1, <2>2 DEF Gather
  <2> QED
    BY <2>3 DEF Filled
<1> QED
  BY <1>1, Invariant, PTL
=============================================================================
