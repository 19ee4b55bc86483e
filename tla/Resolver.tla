------------------------------ MODULE Resolver ------------------------------
(***************************************************************************)
(* resolveHostPort() of utils.py: a host name to an address and a port, by *)
(* SRV and A records, through a cache all calls of connect() share.  The   *)
(* function calls itself for the host of an SRV record, so a call is a     *)
(* stack of frames; srv_lookup, which would keep the inner call from       *)
(* asking for SRV records again, is never read.  Clients take turns only   *)
(* while they await the DNS.                                               *)
(***************************************************************************)
EXTENDS Integers, Sequences, Dict

CONSTANTS Clients,   \* the calls of ClientStream.connect()
          Literal,   \* a host that is an IP address
          MaxDepth   \* the recursion limit of the interpreter, in frames

ASSUME ResolverAssumption == MaxDepth \in Nat \ {0}

VARIABLES
  zone,        \* the DNS: host |-> its SRV records, pairs of a host and a port
  dnsCache,    \* _dns_cache: host |-> SRV records or an address
  stack,       \* the frames of each client, the innermost last
  answer       \* what its innermost call has returned or raised

resolver == <<zone, dnsCache, stack, answer>>

List(srvs) == [kind |-> "list", srvs |-> srvs]
Address(host, port) == [kind |-> "address", host |-> host, port |-> port]
DNSError == [kind |-> "DNSError"]
RecursionError == [kind |-> "RecursionError"]
Nothing == [kind |-> "none"]

Frame(host, port) == [host |-> host, port |-> port, at |-> "called"]
Top(c) == stack[c][Len(stack[c])]
Move(c, at) == [stack EXCEPT ![c][Len(stack[c])].at = at]
Nest(c, at, srv) == [stack EXCEPT ![c] = Append(Move(c, at)[c], Frame(srv[1], srv[2]))]
Pop(c) == SubSeq(stack[c], 1, Len(stack[c]) - 1)

\* What the DNS answers: no record, where it knows the host not.
Srvs(h) == IF h \in DOMAIN zone THEN zone[h] ELSE {}

\* A client that does not await anything is not interrupted.
Busy(c) == stack[c] # << >> /\ (answer[c] # Nothing \/ Top(c).at = "called")
May(c) == \A d \in Clients \ {c} : ~Busy(d)
At(c, at) == May(c) /\ stack[c] # << >> /\ answer[c] = Nothing /\ Top(c).at = at

ResolverInit ==
  /\ dnsCache = Empty
  /\ stack = [c \in Clients |-> << >>]
  /\ answer = [c \in Clients |-> Nothing]

Answer(c, a) == answer' = [answer EXCEPT ![c] = a]

\* The cache is asked by the name alone: an address has the port it was found
\* for, and a list may be another call's whose lookup is still under way.
Lookup(c) ==
  /\ At(c, "called") /\ Len(stack[c]) <= MaxDepth
  /\ LET host == Top(c).host
         known == host \in DOMAIN dnsCache
     IN  \/ /\ known /\ dnsCache[host].kind = "list"
            /\ \E srv \in dnsCache[host].srvs : stack' = Nest(c, "rechosen", srv)
            /\ UNCHANGED answer
         \/ /\ known /\ dnsCache[host].kind = "address"
            /\ Answer(c, dnsCache[host]) /\ UNCHANGED stack
         \/ /\ ~known /\ host = Literal
            /\ Answer(c, Address(host, Top(c).port)) /\ UNCHANGED stack
         \/ /\ ~known /\ host # Literal
            /\ stack' = Move(c, "srv") /\ UNCHANGED answer
  /\ UNCHANGED <<zone, dnsCache>>

\* SRV records that lead to each other are followed until the stack is full.
TooDeep(c) ==
  /\ At(c, "called") /\ Len(stack[c]) > MaxDepth
  /\ Answer(c, RecursionError)
  /\ UNCHANGED <<zone, dnsCache, stack>>

\* The list is cached before it is followed.  A record that names the host
\* itself gives its port away.
GotSrv(c) ==
  /\ At(c, "srv")
  /\ dnsCache' = Put(dnsCache, Top(c).host, List(Srvs(Top(c).host)))
  /\ \E srv \in Srvs(Top(c).host) :
       stack' = IF srv[1] # Top(c).host THEN Nest(c, "chosen", srv) ELSE Move(c, "a")
  /\ UNCHANGED <<zone, answer>>

\* There is no record, or the query has failed.
NoSrv(c) ==
  /\ At(c, "srv")
  /\ stack' = Move(c, "a")
  /\ UNCHANGED <<zone, dnsCache, answer>>

\* Mutant: the port of the caller instead of the record's.
GotA_CallersPort(c) ==
  /\ At(c, "a")
  /\ LET address == Address(Top(c).host, stack[c][1].port)
     IN  /\ dnsCache' = Put(dnsCache, Top(c).host, address)
         /\ Answer(c, address)
  /\ UNCHANGED <<zone, stack>>

GotA(c) ==
  /\ At(c, "a")
  /\ LET address == Address(Top(c).host, Top(c).port)
     IN  /\ dnsCache' = Put(dnsCache, Top(c).host, address)
         /\ Answer(c, address)
  /\ UNCHANGED <<zone, stack>>

NoA(c) ==
  /\ At(c, "a")
  /\ Answer(c, DNSError)
  /\ UNCHANGED <<zone, dnsCache, stack>>

Unwinding(c) == Len(stack[c]) > 1 /\ answer[c] # Nothing
Outer(c) == stack[c][Len(stack[c]) - 1]
Caught(c) == answer[c] = DNSError /\ Outer(c).at = "chosen"

\* The inner call ends: its address becomes that of the outer call's host too.
Unwind(c) ==
  /\ May(c) /\ Unwinding(c) /\ ~Caught(c)
  /\ dnsCache' = IF answer[c].kind = "address" /\ Outer(c).at = "chosen"
                   THEN Put(dnsCache, Outer(c).host, answer[c]) ELSE dnsCache
  /\ stack' = [stack EXCEPT ![c] = Pop(c)]
  /\ UNCHANGED <<zone, answer>>

\* A DNSError of the host of a record that was just found falls back to the
\* A record; that of a record of the cache does not.
FallBack(c) ==
  /\ May(c) /\ Unwinding(c) /\ Caught(c)
  /\ stack' = [stack EXCEPT ![c] = [Pop(c) EXCEPT ![Len(Pop(c))].at = "a"]]
  /\ Answer(c, Nothing)
  /\ UNCHANGED <<zone, dnsCache>>

Resolve(c) ==
  \/ Lookup(c) \/ TooDeep(c) \/ GotSrv(c) \/ NoSrv(c) \/ GotA(c) \/ NoA(c)
  \/ Unwind(c) \/ FallBack(c)
=============================================================================
