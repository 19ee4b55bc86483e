--------------------------- MODULE TransportProofs ---------------------------
(***************************************************************************)
(* Proofs about Transport, for every client, socket and peer, any size of  *)
(* the buffer and any outcome of the handshake.  A callback may call any   *)
(* other, and what was scheduled before a close still runs; the inductive  *)
(* invariant IInv says what may be scheduled, installed and left to run in *)
(* each state of the transport.                                            *)
(*                                                                         *)
(* Not all of it holds of a client that closes the transport while its     *)
(* post-handshake callback runs; Safe leaves that client out.              *)
(***************************************************************************)
EXTENDS Transport, SequenceTheorems, FiniteSetTheorems, TLAPS

Safe == Careful \/ "given" \notin PostModes

Made     == {"connection_made", "starttls_made"}
Verdicts == {"post_ok", "post_failed"}
Handles  == Made \cup Verdicts \cup {"waiter", "reader", "writer", "connection_lost"}

\* The parts that are left to run when another has been called, and those a
\* callback begins with or goes on to.
Rest  == {"fail_waiter", "more_to_write", "recv", "more_to_read", "send"}
Parts == Rest \cup {"handshake", "post_handshake", "shutdown", "raw_shutdown", "fatal",
                    "read_ready", "write_ready", "sent"}

Queued(h)  == Contains(ready, h)
Running(f) == stack # <<>> /\ stack[1] = f

Types ==
  /\ useStarttls \in BOOLEAN /\ state \in States /\ buffer \in 0 .. MaxBuffer
  /\ closing \in BOOLEAN /\ rww \in BOOLEAN /\ wwr \in BOOLEAN
  /\ tlsConn \in BOOLEAN /\ cleaned \in BOOLEAN /\ aborted \in BOOLEAN
  /\ reader \in {"none", "read_ready", "handshake", "shutdown"}
  /\ writer \in {"none", "write_ready", "handshake", "shutdown"}
  /\ post \in {"none", "given", "running"}
  /\ waiter \in {"none", "pending", "done", "failed"}
  /\ phase \in {"connecting", "plain", "secure", "lost"}
  /\ data \in {"none", "plain", "secure"}

\* A queue that holds nothing twice, and news of a connection first.
Orderly(q) ==
  /\ q \in Seq(Handles)
  /\ \A i, j \in 1 .. Len(q) : q[i] = q[j] => i = j
  /\ \A i \in 1 .. Len(q) : q[i] \in Made => i = 1

\* The ready queue is one; a slot's handle is in it only while it is
\* installed, and there is one verdict of the post-handshake callback.
Scheduled ==
  /\ Orderly(ready)
  /\ Queued("reader") => reader # "none"
  /\ Queued("writer") => writer # "none"
  /\ ~(Queued("post_ok") /\ Queued("post_failed"))
  /\ Queued("post_ok") \/ Queued("post_failed") => post = "none"
  /\ Queued("connection_made") => phase = "connecting"
  /\ Queued("starttls_made") => phase = "plain" /\ useStarttls

\* A stack whose functions, but for the one that runs, wait for a call to return.
Layered(s) == s \in Seq(Parts) /\ \A i \in 2 .. Len(s) : s[i] \in Rest

\* _read_ready and _write_ready call each other once.
Weight == (IF rww THEN 2 ELSE 0) + (IF wwr THEN 2 ELSE 0)

Nested ==
  /\ Layered(stack)
  /\ Running("handshake") \/ Running("post_handshake") => Len(stack) = 1
  /\ Running("read_ready") \/ Running("write_ready") => Len(stack) + Weight <= 5
  /\ Len(stack) <= 5

\* A closed transport: nothing is installed that could open it again.
WhenClosed ==
  /\ state = "closed" =>
       /\ reader = "none" /\ writer = "none" /\ buffer = 0
       /\ stack # <<>> => stack[1] \in Rest \cup {"sent", "raw_shutdown", "fatal"}
       /\ phase = "lost" \/ Queued("connection_lost")
  /\ Queued("connection_lost") => state = "closed" /\ phase # "lost"
  /\ phase = "lost" => state = "closed"
  /\ cleaned => phase = "lost"

\* During the handshake the protocol is told nothing.
WhenHandshaking ==
  state = "tls_handshaking" =>
    /\ phase = IF useStarttls THEN "plain" ELSE "connecting"
    /\ ~closing
    /\ ~Queued("connection_made") /\ ~Queued("starttls_made")
    /\ ~Queued("waiter") /\ ~Queued("connection_lost")

\* The post-handshake callback holds everything up.
WhenVerifying ==
  /\ post # "none" => "given" \in PostModes
  /\ post = "given" =>
       /\ phase # "secure" /\ ~Queued("starttls_made")
       /\ Queued("connection_made") => useStarttls
  /\ post = "running" \/ Queued("post_ok") \/ Queued("post_failed") =>
       /\ Careful /\ state = "tls_handshaking" /\ stack = <<>>
       /\ reader = "none" /\ writer = "none"
  /\ Running("post_handshake") =>
       /\ state = "tls_handshaking" /\ post = "none"
       /\ ~Queued("post_ok") /\ ~Queued("post_failed")
       /\ reader = "none" /\ writer = "none"

\* What the protocol was told fits the state.
Told ==
  /\ state \in {"raw_open", "raw_eof"} =>
       useStarttls /\ phase \in {"connecting", "plain"} /\ ~Queued("starttls_made")
  /\ phase = "connecting" =>
       \/ /\ Queued("connection_made") /\ stack = <<>>
          /\ state = IF useStarttls THEN "raw_open" ELSE "tls_open"
       \/ ~useStarttls /\ state \in {"tls_handshaking", "closed"}
  /\ Queued("waiter") =>
       /\ waiter = "pending"
       /\ TlsStarted(state) => \/ phase = "secure"
                               \/ Queued("connection_made") \/ Queued("starttls_made")

\* What remains to be done of a handshake that failed finds the future alone.
Settling == Contains(stack, "fail_waiter") => ~Queued("waiter")

\* A TLS shutdown that has begun, or is to be taken up, found an empty buffer.
Draining ==
  /\ reader = "shutdown" \/ writer = "shutdown" => state = "tls_shutting_down"
  /\ Running("shutdown") =>
       buffer = 0 /\ state \in {"tls_open", "tls_shutting_down", "tls_shut_down"}

IInv ==
  /\ Types /\ Scheduled /\ Nested /\ WhenClosed /\ WhenHandshaking /\ WhenVerifying
  /\ Told /\ Settling /\ Draining /\ SecureOnReturn /\ ShutdownAfterDrain

-----------------------------------------------------------------------------
(* Lemmas about the ready queue.                                           *)

\* A cancelled handle is taken out of the queue, and the others keep their
\* order.
LEMMA Removed ==
  ASSUME NEW S, NEW q \in Seq(S), NEW e
  PROVE  \/ Cancel(q, e) = q /\ \A i \in 1 .. Len(q) : q[i] # e
         \/ \E k \in 1 .. Len(q) :
              /\ q[k] = e
              /\ Cancel(q, e) \in Seq(S)
              /\ Len(Cancel(q, e)) = Len(q) - 1
              /\ \A i \in 1 .. Len(q) - 1 :
                   Cancel(q, e)[i] = IF i < k THEN q[i] ELSE q[i + 1]
<1>0. q \in Seq(S) /\ Len(q) \in Nat /\ DOMAIN q = 1 .. Len(q)
  BY LenProperties
<1>1. CASE ~Contains(q, e)
  BY <1>1 DEF Cancel, Contains
<1>2. CASE Contains(q, e)
  <2> DEFINE k == CHOOSE i \in DOMAIN q : q[i] = e
  <2>1. Len(q) \in Nat
    BY <1>0
  <2>2. \E i \in DOMAIN q : q[i] = e
    BY <1>0, <1>2 DEF Contains
  <2>3. Cancel(q, e) = RemoveAt(q, k)
    BY <1>2 DEF Cancel
  <2>4. k \in DOMAIN q /\ q[k] = e
    BY <2>2
  <2>5. k \in 1 .. Len(q) /\ q[k] = e
    BY <1>0, <2>4
  <2> HIDE DEF k
  <2> DEFINE a == SubSeq(q, 1, k - 1)
             b == SubSeq(q, k + 1, Len(q))
  <2>6. \A i \in 1 .. Len(q) : q[i] \in S
    BY ElementOfSeq
  <2>7. /\ a \in Seq(S) /\ Len(a) = k - 1 /\ \A i \in 1 .. k - 1 : a[i] = q[i]
    BY <2>1, <2>5, <2>6
  <2>8. /\ b \in Seq(S) /\ Len(b) = Len(q) - k
        /\ \A i \in 1 .. Len(q) - k : b[i] = q[k + i]
    BY <2>1, <2>5, <2>6
  <2>9. Cancel(q, e) = a \o b
    BY <2>3 DEF RemoveAt
  <2> HIDE DEF a, b
  <2>10. /\ a \o b \in Seq(S) /\ Len(a \o b) = Len(q) - 1
         /\ \A i \in 1 .. Len(q) - 1 : (a \o b)[i] = IF i < k THEN q[i] ELSE q[i + 1]
    <3>1. /\ a \o b \in Seq(S) /\ Len(a \o b) = Len(q) - 1
          /\ \A i \in 1 .. Len(q) - 1 : (a \o b)[i] = IF i <= k - 1 THEN a[i] ELSE b[i - (k - 1)]
      <4>1. /\ a \o b \in Seq(S) /\ Len(a \o b) = Len(a) + Len(b)
            /\ \A i \in 1 .. Len(a) + Len(b) :
                 (a \o b)[i] = IF i <= Len(a) THEN a[i] ELSE b[i - Len(a)]
        BY <2>7, <2>8, ConcatProperties
      <4>2. Len(a) = k - 1 /\ Len(a) + Len(b) = Len(q) - 1
        BY <2>1, <2>5, <2>7, <2>8
      <4> QED
        BY <4>1, <4>2
    <3>2. ASSUME NEW i \in 1 .. Len(q) - 1
          PROVE  (a \o b)[i] = IF i < k THEN q[i] ELSE q[i + 1]
      <4>1. CASE i < k
        BY <2>1, <2>5, <2>7, <3>1, <4>1
      <4>2. CASE ~(i < k)
        <5>1. i - (k - 1) \in 1 .. Len(q) - k
          BY <2>1, <2>5, <4>2
        <5>2. b[i - (k - 1)] = q[k + (i - (k - 1))]
          BY <2>8, <5>1
        <5> QED
          BY <2>1, <2>5, <3>1, <4>2, <5>1, <5>2
      <4> QED
        BY <4>1, <4>2
    <3> QED
      BY <3>1, <3>2
  <2> QED
    BY <2>5, <2>9, <2>10
<1> QED
  BY <1>1, <1>2

\* What is orderly stays so when a slot's handle is cancelled.
LEMMA Cancelled ==
  ASSUME NEW q, Orderly(q), NEW e \in {"reader", "writer"}
  PROVE  /\ Orderly(Cancel(q, e))
         /\ \A h : Contains(Cancel(q, e), h) <=> Contains(q, h) /\ h # e
<1>0. q \in Seq(Handles) /\ Len(q) \in Nat
  BY LenProperties DEF Orderly
<1>1. CASE Cancel(q, e) = q /\ \A i \in 1 .. Len(q) : q[i] # e
  BY <1>1 DEF Contains
<1>2. ASSUME NEW k \in 1 .. Len(q), q[k] = e, NEW c, c = Cancel(q, e),
             c \in Seq(Handles), Len(c) = Len(q) - 1,
             \A i \in 1 .. Len(q) - 1 : c[i] = IF i < k THEN q[i] ELSE q[i + 1]
      PROVE  Orderly(c) /\ \A h : Contains(c, h) <=> Contains(q, h) /\ h # e
  <2> DEFINE at(i) == IF i < k THEN i ELSE i + 1
  <2>1. \A i \in 1 .. Len(c) : at(i) \in 1 .. Len(q) /\ at(i) # k /\ c[i] = q[at(i)]
    BY <1>0, <1>2
  <2>2. \A i, j \in 1 .. Len(c) : at(i) = at(j) => i = j
    BY <1>0, <1>2
  <2>3. \A i \in 1 .. Len(c) : at(i) = 1 => i = 1
    BY <1>0, <1>2
  <2>4. \A i \in 1 .. Len(q) : i # k => \E j \in 1 .. Len(c) : at(j) = i
    <3> TAKE i \in 1 .. Len(q)
    <3> HAVE i # k
    <3>1. CASE i < k
      <4>1. i \in 1 .. Len(c) /\ at(i) = i
        BY <1>0, <1>2, <3>1
      <4> QED
        BY <4>1
    <3>2. CASE i > k
      <4>1. i - 1 \in 1 .. Len(c) /\ at(i - 1) = i
        BY <1>0, <1>2, <3>2
      <4> QED
        BY <4>1
    <3> QED
      BY <1>0, <3>1, <3>2
  <2> HIDE DEF at
  <2>5. Orderly(c)
    <3>1. \A i, j \in 1 .. Len(c) : c[i] = c[j] => i = j
      BY <2>1, <2>2 DEF Orderly
    <3>2. \A i \in 1 .. Len(c) : c[i] \in Made => i = 1
      BY <2>1, <2>3 DEF Orderly
    <3> QED
      BY <1>2, <3>1, <3>2 DEF Orderly
  <2>6. ASSUME NEW h, Contains(c, h)
        PROVE  Contains(q, h) /\ h # e
    <3>1. PICK i \in 1 .. Len(c) : c[i] = h
      BY <2>6 DEF Contains
    <3>2. at(i) \in 1 .. Len(q) /\ q[at(i)] = h /\ at(i) # k
      BY <2>1, <3>1
    <3> QED
      BY <1>2, <3>2 DEF Contains, Orderly
  <2>7. ASSUME NEW h, Contains(q, h), h # e
        PROVE  Contains(c, h)
    <3>1. PICK i \in 1 .. Len(q) : q[i] = h
      BY <2>7 DEF Contains
    <3>2. PICK j \in 1 .. Len(c) : at(j) = i
      BY <1>2, <2>4, <2>7, <3>1
    <3>3. c[j] = h
      BY <2>1, <3>1, <3>2
    <3> QED
      BY <3>3 DEF Contains
  <2> QED
    BY <2>5, <2>6, <2>7
<1>3. \/ Cancel(q, e) = q /\ \A i \in 1 .. Len(q) : q[i] # e
      \/ \E k \in 1 .. Len(q) :
           /\ q[k] = e
           /\ Cancel(q, e) \in Seq(Handles)
           /\ Len(Cancel(q, e)) = Len(q) - 1
           /\ \A i \in 1 .. Len(q) - 1 :
                Cancel(q, e)[i] = IF i < k THEN q[i] ELSE q[i + 1]
  BY <1>0, Removed
<1> QED
  BY <1>1, <1>2, <1>3

\* call_soon() of what is not scheduled yet; what is to be the protocol's news
\* finds the queue empty.
LEMMA Called ==
  ASSUME NEW q, Orderly(q), NEW h \in Handles, ~Contains(q, h), h \in Made => q = <<>>
  PROVE  /\ Orderly(Append(q, h)) /\ q \o <<h>> = Append(q, h)
         /\ \A g : Contains(Append(q, h), g) <=> Contains(q, g) \/ g = h
<1>0. q \in Seq(Handles) /\ Len(q) \in Nat
  BY LenProperties DEF Orderly
<1> DEFINE c == Append(q, h)
<1>1. /\ c \in Seq(Handles) /\ Len(c) = Len(q) + 1 /\ c[Len(q) + 1] = h
      /\ \A i \in 1 .. Len(q) : c[i] = q[i]
      /\ q \o <<h>> = c
  BY <1>0, AppendProperties, AppendIsConcat
<1> HIDE DEF c
<1>2. \A i \in 1 .. Len(c) : (i \in 1 .. Len(q) /\ c[i] = q[i]) \/ (i = Len(q) + 1 /\ c[i] = h)
  BY <1>0, <1>1
<1>3. \A i \in 1 .. Len(q) : q[i] # h
  BY DEF Contains
<1>4. \A i, j \in 1 .. Len(c) : c[i] = c[j] => i = j
  BY <1>2, <1>3 DEF Orderly
<1>5. \A i \in 1 .. Len(c) : c[i] \in Made => i = 1
  <2> TAKE i \in 1 .. Len(c)
  <2>1. CASE i \in 1 .. Len(q) /\ c[i] = q[i]
    BY <2>1 DEF Orderly
  <2>2. CASE i = Len(q) + 1 /\ c[i] = h
    <3>1. h \in Made => Len(q) = 0
      OBVIOUS
    <3> QED
      BY <2>2, <3>1
  <2> QED
    BY <1>2, <2>1, <2>2
<1>6. Orderly(c)
  BY <1>1, <1>4, <1>5 DEF Orderly
<1>7. \A g : Contains(c, g) <=> Contains(q, g) \/ g = h
  <2>1. Len(q) + 1 \in 1 .. Len(c)
    BY <1>0, <1>1
  <2>2. \A i \in 1 .. Len(q) : i \in 1 .. Len(c)
    BY <1>0, <1>1
  <2> QED
    BY <1>1, <1>2, <2>1, <2>2 DEF Contains
<1> QED
  BY <1>1, <1>6, <1>7 DEF c

\* The loop takes the first handle; the news are it, if there are any.
LEMMA Taken ==
  ASSUME NEW q, Orderly(q), q # <<>>
  PROVE  /\ Orderly(Tail(q)) /\ Head(q) \in Handles /\ Contains(q, Head(q))
         /\ \A g : Contains(Tail(q), g) <=> Contains(q, g) /\ g # Head(q)
         /\ \A g \in Made : Contains(q, g) => g = Head(q)
<1>0. q \in Seq(Handles) /\ Len(q) \in Nat /\ Len(q) >= 1
  BY LenProperties, EmptySeq DEF Orderly
<1> DEFINE t == Tail(q)
<1>1. /\ t \in Seq(Handles) /\ Len(t) = Len(q) - 1 /\ Head(q) = q[1]
      /\ \A i \in 1 .. Len(t) : t[i] = q[i + 1]
  BY <1>0, HeadTailProperties
<1>2. 1 \in 1 .. Len(q) /\ q[1] \in Handles
  BY <1>0, ElementOfSeq
<1> HIDE DEF t
<1>3. \A i \in 1 .. Len(t) : i + 1 \in 1 .. Len(q) /\ t[i] = q[i + 1] /\ i + 1 # 1
  BY <1>0, <1>1
<1>4. \A i, j \in 1 .. Len(t) : t[i] = t[j] => i = j
  <2> TAKE i, j \in 1 .. Len(t)
  <2> HAVE t[i] = t[j]
  <2>1. i + 1 = j + 1
    BY <1>3 DEF Orderly
  <2> QED
    BY <2>1
<1>5. \A i \in 1 .. Len(t) : t[i] \notin Made
  BY <1>3 DEF Orderly
<1>6. Orderly(t)
  BY <1>1, <1>4, <1>5 DEF Orderly
<1>7. ASSUME NEW g, Contains(t, g)
      PROVE  Contains(q, g) /\ g # Head(q)
  BY <1>1, <1>2, <1>3, <1>7 DEF Contains, Orderly
<1>8. ASSUME NEW g, Contains(q, g), g # Head(q)
      PROVE  Contains(t, g)
  <2>1. PICK i \in 1 .. Len(q) : q[i] = g
    BY <1>8 DEF Contains
  <2>2. i - 1 \in 1 .. Len(t)
    BY <1>0, <1>1, <1>8, <2>1
  <2>3. t[i - 1] = q[(i - 1) + 1]
    BY <1>1, <2>2
  <2>4. (i - 1) + 1 = i
    BY <2>1
  <2> QED
    BY <2>1, <2>2, <2>3, <2>4 DEF Contains
<1>9. \A g \in Made : Contains(q, g) => g = Head(q)
  BY <1>1 DEF Contains, Orderly
<1>10. Contains(q, Head(q))
  BY <1>1, <1>2 DEF Contains
<1> QED
  BY <1>1, <1>2, <1>6, <1>7, <1>8, <1>9, <1>10 DEF t

LEMMA NothingQueued ==
  ASSUME NEW q, Orderly(q), \A h \in Handles : ~Contains(q, h)
  PROVE  q = <<>>
<1>0. q \in Seq(Handles) /\ Len(q) \in Nat
  BY LenProperties DEF Orderly
<1>1. ASSUME Len(q) >= 1
      PROVE  FALSE
  <2>1. 1 \in 1 .. Len(q) /\ q[1] \in Handles
    BY <1>0, <1>1, ElementOfSeq
  <2> QED
    BY <2>1 DEF Contains
<1> QED
  BY <1>0, <1>1, EmptySeq

\* Installing and removing callbacks.
LEMMA Installed ==
  ASSUME Orderly(ready), NEW r, NEW w, NEW calls, Slots(r, w, calls)
  PROVE  /\ reader' = r /\ writer' = w
         /\ \E kept : /\ Orderly(kept) /\ ready' = kept \o calls
                      /\ \A h : Contains(kept, h) <=>
                                  /\ Queued(h)
                                  /\ h = "reader" => r = reader
                                  /\ h = "writer" => w = writer
<1> DEFINE one == IF r = reader THEN ready ELSE Cancel(ready, "reader")
           two == IF w = writer THEN one ELSE Cancel(one, "writer")
<1>1. /\ Orderly(one)
      /\ \A h : Contains(one, h) <=> Queued(h) /\ (h = "reader" => r = reader)
  BY Cancelled DEF Queued
<1>2. /\ Orderly(two)
      /\ \A h : Contains(two, h) <=> Contains(one, h) /\ (h = "writer" => w = writer)
  <2> HIDE DEF one
  <2> QED
    BY <1>1, Cancelled
<1>3. ready' = two \o calls /\ reader' = r /\ writer' = w
  BY DEF Slots
<1> QED
  BY <1>1, <1>2, <1>3

LEMMA Reinstalled ==
  ASSUME Orderly(ready), NEW r, NEW w, Slots(r, w, <<>>)
  PROVE  /\ reader' = r /\ writer' = w /\ Orderly(ready)'
         /\ \A h : Queued(h)' <=> /\ Queued(h)
                                  /\ h = "reader" => r = reader
                                  /\ h = "writer" => w = writer
<1>1. PICK kept : /\ Orderly(kept) /\ ready' = kept \o <<>>
                  /\ \A h : Contains(kept, h) <=>
                              /\ Queued(h)
                              /\ h = "reader" => r = reader
                              /\ h = "writer" => w = writer
  BY Installed
<1>2. ready' = kept
  BY <1>1, ConcatEmptySeq DEF Orderly
<1>3. reader' = r /\ writer' = w
  BY Installed
<1>4. Orderly(ready)'
  BY <1>1, <1>2 DEF Orderly
<1> QED
  BY <1>1, <1>2, <1>3, <1>4 DEF Queued

-----------------------------------------------------------------------------
(* Lemmas about the stack.                                                 *)

\* The part that runs is replaced by the parts fs.
LEMMA Replaced ==
  ASSUME Layered(stack), stack # <<>>, NEW fs \in Seq(Parts),
         \A i \in 2 .. Len(fs) : fs[i] \in Rest, Becomes(fs)
  PROVE  /\ Layered(stack)' /\ Len(stack') = Len(fs) + Len(stack) - 1
         /\ Len(stack) \in Nat /\ Len(stack) >= 1 /\ Len(fs) \in Nat
         /\ fs # <<>> => stack' # <<>> /\ stack'[1] = fs[1]
         /\ fs = <<>> /\ stack' # <<>> => stack'[1] \in Rest
         /\ \A f : Contains(stack', f) => Contains(stack, f) \/ Contains(fs, f)
<1> DEFINE t == Tail(stack)
<1>1. stack \in Seq(Parts) /\ Len(stack) \in Nat /\ Len(stack) >= 1
  BY LenProperties, EmptySeq DEF Layered
<1>2. /\ t \in Seq(Parts) /\ Len(t) = Len(stack) - 1
      /\ \A i \in 1 .. Len(t) : t[i] = stack[i + 1] /\ i + 1 \in 2 .. Len(stack)
  BY <1>1, HeadTailProperties
<1>3. stack' = fs \o t
  BY DEF Becomes
<1>4. \A i \in 1 .. Len(t) : t[i] \in Rest
  BY <1>2 DEF Layered
<1> HIDE DEF t
<1>5. Len(fs) \in Nat /\ Len(t) \in Nat
  BY <1>2, LenProperties
<1>6. /\ stack' \in Seq(Parts) /\ Len(stack') = Len(fs) + Len(t)
      /\ \A i \in 1 .. Len(fs) + Len(t) :
           stack'[i] = IF i <= Len(fs) THEN fs[i] ELSE t[i - Len(fs)]
  BY <1>2, <1>3, ConcatProperties
<1>7. \A i \in 1 .. Len(stack') : \/ i \in 1 .. Len(fs) /\ stack'[i] = fs[i]
                                  \/ /\ i - Len(fs) \in 1 .. Len(t)
                                     /\ stack'[i] = t[i - Len(fs)]
  <2> TAKE i \in 1 .. Len(stack')
  <2>1. CASE i <= Len(fs)
    BY <1>5, <1>6, <2>1
  <2>2. CASE i > Len(fs)
    <3>1. i - Len(fs) \in 1 .. Len(t)
      BY <1>5, <1>6, <2>2
    <3> QED
      BY <1>5, <1>6, <2>2, <3>1
  <2> QED
    BY <1>5, <2>1, <2>2
<1>8. \A i \in 2 .. Len(stack') : stack'[i] \in Rest
  <2> TAKE i \in 2 .. Len(stack')
  <2>1. i \in 1 .. Len(stack')
    OBVIOUS
  <2>2. i \in 1 .. Len(fs) => i \in 2 .. Len(fs)
    BY <1>5
  <2> QED
    BY <1>4, <1>7, <2>1, <2>2
<1>9. fs # <<>> => stack' # <<>> /\ stack'[1] = fs[1]
  <2> HAVE fs # <<>>
  <2>1. Len(fs) >= 1
    BY <1>5, EmptySeq
  <2>2. 1 \in 1 .. Len(fs) + Len(t) /\ Len(stack') # 0
    BY <1>5, <1>6, <2>1
  <2> QED
    BY <1>6, <2>1, <2>2, EmptySeq
<1>10. fs = <<>> /\ stack' # <<>> => stack'[1] \in Rest
  <2> HAVE fs = <<>> /\ stack' # <<>>
  <2>1. Len(fs) = 0 /\ Len(stack') # 0
    BY <1>6, EmptySeq
  <2>2. 1 \in 1 .. Len(stack') /\ 1 \notin 1 .. Len(fs)
    BY <1>5, <1>6, <2>1
  <2> QED
    BY <1>4, <1>7, <2>2
<1>11. \A f : Contains(stack', f) => Contains(stack, f) \/ Contains(fs, f)
  <2> TAKE f
  <2> HAVE Contains(stack', f)
  <2>1. PICK i \in 1 .. Len(stack') : stack'[i] = f
    BY DEF Contains
  <2>2. CASE i \in 1 .. Len(fs) /\ stack'[i] = fs[i]
    BY <2>1, <2>2 DEF Contains
  <2>3. CASE i - Len(fs) \in 1 .. Len(t) /\ stack'[i] = t[i - Len(fs)]
    <3>1. /\ stack[(i - Len(fs)) + 1] = f
          /\ (i - Len(fs)) + 1 \in 1 .. Len(stack)
      BY <1>1, <1>2, <2>1, <2>3
    <3> QED
      BY <3>1 DEF Contains
  <2> QED
    BY <1>7, <2>1, <2>2, <2>3
<1> QED
  BY <1>1, <1>2, <1>5, <1>6, <1>8, <1>9, <1>10, <1>11 DEF Layered

\* The part that runs returns, or goes on to another.
LEMMA Returned ==
  ASSUME Nested, stack # <<>>, Becomes(<<>>)
  PROVE  /\ Nested' /\ Len(stack') = Len(stack) - 1
         /\ \A f : Running(f)' => f \in Rest
         /\ \A f : Contains(stack', f) => Contains(stack, f)
         /\ Len(stack) = 1 => stack' = <<>>
<1>1. /\ Layered(stack)' /\ Len(stack') = Len(stack) - 1 /\ Len(stack) \in Nat
      /\ Len(stack) >= 1
      /\ stack' # <<>> => stack'[1] \in Rest
      /\ \A f : Contains(stack', f) => Contains(stack, f) \/ Contains(<<>>, f)
  <2>1. <<>> \in Seq(Parts) /\ Len(<<>>) = 0
    OBVIOUS
  <2>2. \A i \in 2 .. Len(<<>>) : <<>>[i] \in Rest
    BY <2>1
  <2>3. /\ Layered(stack)' /\ Len(stack') = Len(<<>>) + Len(stack) - 1
        /\ Len(stack) \in Nat /\ Len(stack) >= 1
        /\ <<>> = <<>> /\ stack' # <<>> => stack'[1] \in Rest
        /\ \A f : Contains(stack', f) => Contains(stack, f) \/ Contains(<<>>, f)
    BY <2>1, <2>2, Replaced DEF Nested
  <2> QED
    BY <2>1, <2>3
<1>2. \A f : ~Contains(<<>>, f)
  BY DEF Contains
<1>3. \A f : Running(f)' => f \in Rest
  BY <1>1 DEF Running
<1>4. Nested'
  BY <1>1, <1>3 DEF Nested, Rest
<1>5. Len(stack) = 1 => stack' = <<>>
  BY <1>1, EmptySeq DEF Layered
<1> QED
  BY <1>1, <1>2, <1>3, <1>4, <1>5

LEMMA WentOn ==
  ASSUME Nested, stack # <<>>, NEW f \in Parts, Becomes(<<f>>)
  PROVE  /\ Layered(stack)' /\ Len(stack') = Len(stack) /\ Len(stack) \in Nat
         /\ Len(stack) <= 5
         /\ \A g : Running(g)' <=> g = f
         /\ \A g : Contains(stack', g) => Contains(stack, g) \/ g = f
         /\ f \notin {"handshake", "post_handshake", "read_ready", "write_ready"} => Nested'
<1>1. <<f>> \in Seq(Parts) /\ Len(<<f>>) = 1 /\ <<f>>[1] = f
  OBVIOUS
<1>2. /\ Layered(stack)' /\ Len(stack') = 1 + Len(stack) - 1 /\ Len(stack) \in Nat
      /\ <<f>> # <<>> => stack' # <<>> /\ stack'[1] = <<f>>[1]
      /\ \A g : Contains(stack', g) => Contains(stack, g) \/ Contains(<<f>>, g)
  <2>1. \A i \in 2 .. Len(<<f>>) : <<f>>[i] \in Rest
    BY <1>1
  <2> QED
    BY <1>1, <2>1, Replaced DEF Nested
<1>3. \A g : Contains(<<f>>, g) => g = f
  BY <1>1 DEF Contains
<1>4. \A g : Running(g)' <=> g = f
  BY <1>1, <1>2 DEF Running
<1>5. Len(stack') = Len(stack) /\ Len(stack) <= 5
  BY <1>2 DEF Nested
<1>6. f \notin {"handshake", "post_handshake", "read_ready", "write_ready"} => Nested'
  BY <1>2, <1>4, <1>5 DEF Nested
<1> QED
  BY <1>2, <1>3, <1>4, <1>5, <1>6

-----------------------------------------------------------------------------
(* The parts of a callback.                                                *)

\* A part that leaves the state of the transport as it is.
LEMMA Goes ==
  ASSUME IInv, stack # <<>>,
         UNCHANGED <<useStarttls, state, closing, post, phase, tlsConn, cleaned, aborted>>,
         buffer' \in 0 .. MaxBuffer, rww' \in BOOLEAN, wwr' \in BOOLEAN,
         data' \in {"none", "plain", "secure"},
         waiter' = waiter \/ (waiter' = "failed" /\ ~Queued("waiter")),
         reader' \in {"none", "read_ready", "handshake", "shutdown"},
         writer' \in {"none", "write_ready", "handshake", "shutdown"},
         Orderly(ready)',
         \A h : Queued(h)' <=> /\ Queued(h)
                               /\ h = "reader" => reader' = reader
                               /\ h = "writer" => writer' = writer,
         Nested', ~Running("post_handshake")',
         Contains(stack', "fail_waiter") => ~Queued("waiter"),
         state = "closed" =>
           /\ reader' = "none" /\ writer' = "none" /\ buffer' = 0
           /\ \A f : Running(f)' => f \in Rest \cup {"sent", "raw_shutdown", "fatal"},
         state \in {"tls_shutting_down", "tls_shut_down"} => buffer' = 0,
         reader' = "shutdown" \/ writer' = "shutdown" => state = "tls_shutting_down",
         Running("shutdown")' =>
           buffer' = 0 /\ state \in {"tls_open", "tls_shutting_down", "tls_shut_down"}
  PROVE  IInv'
<1>1. Types'
  BY DEF IInv, Types
<1>2. Scheduled'
  BY DEF IInv, Scheduled
<1>3. WhenClosed'
  <2>1. state' = "closed" /\ stack' # <<>> => stack'[1] \in Rest \cup {"sent", "raw_shutdown", "fatal"}
    BY DEF Running
  <2> QED
    BY <2>1 DEF IInv, WhenClosed
<1>4. WhenHandshaking'
  BY DEF IInv, WhenHandshaking
<1>5. WhenVerifying'
  <2>1. post # "running" /\ ~Queued("post_ok") /\ ~Queued("post_failed")
    BY DEF IInv, WhenVerifying
  <2> QED
    BY <2>1 DEF IInv, WhenVerifying
<1>6. Told'
  BY DEF IInv, Told, TlsStarted
<1>7. Settling' /\ Draining'
  BY DEF Settling, Draining
<1>8. SecureOnReturn' /\ ShutdownAfterDrain'
  BY DEF IInv, SecureOnReturn, ShutdownAfterDrain, TlsStarted
<1> QED
  BY <1>1, <1>2, <1>3, <1>4, <1>5, <1>6, <1>7, <1>8 DEF IInv

\* A part that installs and removes nothing.
LEMMA Computes ==
  ASSUME IInv, stack # <<>>,
         UNCHANGED <<useStarttls, state, closing, post, phase, tlsConn, cleaned, aborted,
                     reader, writer, ready>>,
         buffer' \in 0 .. buffer, rww' \in BOOLEAN, wwr' \in BOOLEAN,
         data' \in {"none", "plain", "secure"},
         waiter' = waiter \/ (waiter' = "failed" /\ ~Queued("waiter")),
         Nested', ~Running("post_handshake")', ~Running("shutdown")',
         Contains(stack', "fail_waiter") => Contains(stack, "fail_waiter"),
         state = "closed" =>
           \A f : Running(f)' => f \in Rest \cup {"sent", "raw_shutdown", "fatal"}
  PROVE  IInv'
<1>1. /\ reader' \in {"none", "read_ready", "handshake", "shutdown"}
      /\ writer' \in {"none", "write_ready", "handshake", "shutdown"}
      /\ buffer \in 0 .. MaxBuffer /\ MaxBuffer \in Nat
  BY TransportAssumption DEF IInv, Types
<1>2. buffer' \in 0 .. MaxBuffer /\ (buffer = 0 => buffer' = 0)
  BY <1>1
<1>3. Orderly(ready)' /\ \A h : Queued(h)' <=> Queued(h)
  BY DEF IInv, Scheduled, Orderly, Queued
<1>4. Contains(stack', "fail_waiter") => ~Queued("waiter")
  BY DEF IInv, Settling
<1>5. state = "closed" => reader' = "none" /\ writer' = "none" /\ buffer' = 0
  BY <1>2 DEF IInv, WhenClosed
<1>6. state \in {"tls_shutting_down", "tls_shut_down"} => buffer' = 0
  BY <1>2 DEF IInv, ShutdownAfterDrain
<1>7. reader' = "shutdown" \/ writer' = "shutdown" => state = "tls_shutting_down"
  BY DEF IInv, Draining
<1> QED
  BY <1>1, <1>2, <1>3, <1>4, <1>5, <1>6, <1>7, Goes

\* What the part that runs says of the transport.
LEMMA Runner ==
  ASSUME IInv, NEW f, Part(f)
  PROVE  /\ Running(f) /\ stack # <<>> /\ Nested /\ Orderly(ready)
         /\ state = "closed" => f \in Rest \cup {"sent", "raw_shutdown", "fatal"}
<1>1. stack \in Seq(Parts) /\ stack # <<>> /\ Head(stack) = f
  BY DEF Part, IInv, Nested, Layered
<1>2. Head(stack) = stack[1]
  BY <1>1
<1> QED
  BY <1>1, <1>2 DEF IInv, Running, WhenClosed, Scheduled

LEMMA FailWaiterStep ==
  ASSUME IInv, FailWaiter
  PROVE  IInv'
<1>1. /\ Part("fail_waiter") /\ Becomes(<<>>)
      /\ waiter' = IF waiter = "pending" THEN "failed" ELSE waiter
      /\ UNCHANGED <<useStarttls, state, closing, post, phase, tlsConn, cleaned, aborted,
                     reader, writer, ready, buffer, rww, wwr, data>>
  BY DEF FailWaiter, io, core
<1>2. Running("fail_waiter") /\ stack # <<>> /\ Nested
  BY <1>1, Runner
<1>3. /\ Nested' /\ \A f : Running(f)' => f \in Rest
      /\ \A f : Contains(stack', f) => Contains(stack, f)
  BY <1>1, <1>2, Returned
<1>4. ~Queued("waiter")
  <2>1. stack \in Seq(Parts)
    BY <1>2 DEF Nested, Layered
  <2>2. Len(stack) \in Nat /\ Len(stack) # 0
    BY <1>2, <2>1, EmptySeq
  <2>3. 1 \in 1 .. Len(stack) /\ stack[1] = "fail_waiter"
    BY <1>2, <2>2 DEF Running
  <2> QED
    BY <2>3 DEF IInv, Settling, Contains
<1>5. /\ ~Running("post_handshake")' /\ ~Running("shutdown")'
      /\ \A f : Running(f)' => f \in Rest \cup {"sent", "raw_shutdown", "fatal"}
  BY <1>3 DEF Rest
<1>6. /\ buffer' \in 0 .. buffer /\ rww' \in BOOLEAN /\ wwr' \in BOOLEAN
      /\ data' \in {"none", "plain", "secure"}
  BY <1>1 DEF IInv, Types
<1> QED
  BY <1>1, <1>2, <1>3, <1>4, <1>5, <1>6, Computes

\* _read_ready has no data, or has some for the protocol.
LEMMA RecvStep ==
  ASSUME IInv, RecvNothing \/ RecvData
  PROVE  IInv'
<1>1. /\ Part("recv") /\ Becomes(<<>>)
      /\ data' = data \/ (data' = phase /\ RecvData)
      /\ UNCHANGED <<useStarttls, state, closing, post, phase, tlsConn, cleaned, aborted,
                     reader, writer, ready, buffer, rww, wwr, waiter>>
  BY DEF RecvNothing, RecvData, io, app, core
<1>2. Running("recv") /\ stack # <<>> /\ Nested
  BY <1>1, Runner
<1>3. /\ Nested' /\ \A f : Running(f)' => f \in Rest
      /\ \A f : Contains(stack', f) => Contains(stack, f)
  BY <1>1, <1>2, Returned
<1>4. RecvData => phase \in {"plain", "secure"}
  <2> HAVE RecvData
  <2>1. state \notin {"closed", "tls_handshaking"}
    BY DEF RecvData, EofReceived
  <2> QED
    BY <1>2, <2>1 DEF IInv, Types, WhenClosed, Told
<1>5. /\ ~Running("post_handshake")' /\ ~Running("shutdown")'
      /\ \A f : Running(f)' => f \in Rest \cup {"sent", "raw_shutdown", "fatal"}
  BY <1>3 DEF Rest
<1>6. /\ buffer' \in 0 .. buffer /\ rww' \in BOOLEAN /\ wwr' \in BOOLEAN
      /\ data' \in {"none", "plain", "secure"}
  BY <1>1, <1>4 DEF IInv, Types
<1> QED
  BY <1>1, <1>2, <1>3, <1>5, <1>6, Computes

\* recv() or send() fails; send() is through with what it could take.
LEMMA FailsStep ==
  ASSUME IInv, RecvFails \/ SendFails \/ Send
  PROVE  IInv'
<1> DEFINE next == IF Send THEN "sent" ELSE "fatal"
<1>1. /\ Part("recv") \/ Part("send")
      /\ Becomes(<<next>>)
      /\ buffer' \in 0 .. buffer
      /\ UNCHANGED <<useStarttls, state, closing, post, phase, tlsConn, cleaned, aborted,
                     reader, writer, ready, rww, wwr, waiter, data>>
  <2>1. buffer \in 0 .. buffer
    BY DEF IInv, Types
  <2>2. CASE Send
    BY <2>2 DEF Send, io, app
  <2>3. CASE ~Send
    BY <2>1, <2>3 DEF RecvFails, SendFails, io, app, core
  <2> QED
    BY <2>2, <2>3
<1>2. stack # <<>> /\ Nested
  BY <1>1, Runner
<1>3. next \in {"sent", "fatal"} /\ next \in Parts
  BY DEF Parts
<1> HIDE DEF next
<1>4. /\ Nested' /\ \A g : Running(g)' <=> g = next
      /\ \A g : Contains(stack', g) => Contains(stack, g) \/ g = next
  BY <1>1, <1>2, <1>3, WentOn
<1>5. /\ ~Running("post_handshake")' /\ ~Running("shutdown")'
      /\ \A f : Running(f)' => f \in Rest \cup {"sent", "raw_shutdown", "fatal"}
  BY <1>3, <1>4
<1>6. Contains(stack', "fail_waiter") => Contains(stack, "fail_waiter")
  BY <1>3, <1>4
<1>7. /\ rww' \in BOOLEAN /\ wwr' \in BOOLEAN /\ data' \in {"none", "plain", "secure"}
  BY <1>1 DEF IInv, Types
<1> QED
  BY <1>1, <1>2, <1>4, <1>5, <1>6, <1>7, Computes

\* _read_ready and _write_ready first try the other, if it waited for this one.
LEMMA CrossesOver ==
  ASSUME Nested, stack # <<>>, Running("read_ready") \/ Running("write_ready"),
         NEW f \in {"read_ready", "write_ready"}, NEW g \in Rest, NEW h \in Rest,
         Becomes(<<f, g, h>>), Weight' + 2 = Weight, Weight' \in Nat
  PROVE  /\ Nested' /\ \A x : Running(x)' <=> x = f
         /\ \A x : Contains(stack', x) => Contains(stack, x) \/ x \in {f, g, h}
<1> DEFINE fs == <<f, g, h>>
<1>1. fs \in Seq(Parts) /\ Len(fs) = 3 /\ fs[1] = f /\ fs[2] = g /\ fs[3] = h /\ fs # <<>>
  BY DEF Parts
<1>2. \A i \in 2 .. Len(fs) : fs[i] \in Rest
  <2> TAKE i \in 2 .. Len(fs)
  <2>1. i = 2 \/ i = 3
    BY <1>1
  <2> QED
    BY <1>1, <2>1
<1>3. \A x : Contains(fs, x) => x \in {f, g, h}
  <2> TAKE x
  <2> HAVE Contains(fs, x)
  <2>1. PICK i \in 1 .. 3 : fs[i] = x
    BY <1>1 DEF Contains
  <2>2. i = 1 \/ i = 2 \/ i = 3
    BY <2>1
  <2> QED
    BY <1>1, <2>1, <2>2
<1>4. Becomes(fs)
  OBVIOUS
<1> HIDE DEF fs
<1>5. /\ Layered(stack)' /\ Len(stack') = Len(fs) + Len(stack) - 1
      /\ Len(stack) \in Nat
      /\ fs # <<>> => stack' # <<>> /\ stack'[1] = fs[1]
      /\ \A x : Contains(stack', x) => Contains(stack, x) \/ Contains(fs, x)
  BY <1>1, <1>2, <1>4, Replaced DEF Nested
<1>6. \A x : Running(x)' <=> x = f
  BY <1>1, <1>5 DEF Running
<1>7. Len(stack) + Weight <= 5
  BY DEF Nested
<1>8. Len(stack') + Weight' <= 5 /\ Len(stack') <= 5
  BY <1>1, <1>5, <1>7
<1>9. Nested'
  BY <1>5, <1>6, <1>8 DEF Nested
<1> QED
  BY <1>3, <1>5, <1>6, <1>9

LEMMA Weights ==
  ASSUME rww \in BOOLEAN, wwr \in BOOLEAN
  PROVE  /\ Weight \in Nat
         /\ rww /\ rww' = FALSE /\ wwr' = wwr => Weight' + 2 = Weight /\ Weight' \in Nat
         /\ wwr /\ wwr' = FALSE /\ rww' = rww => Weight' + 2 = Weight /\ Weight' \in Nat
BY DEF Weight

LEMMA ReadReadyStep ==
  ASSUME IInv, ReadReady
  PROVE  IInv'
<1>1. /\ Part("read_ready")
      /\ UNCHANGED <<useStarttls, state, closing, post, phase, tlsConn, cleaned, aborted,
                     reader, writer, ready, buffer, rww, waiter, data>>
      /\ \/ /\ wwr /\ wwr' = FALSE
            /\ Becomes(<<"write_ready", "more_to_write", "recv">>)
         \/ Becomes(<<"recv">>) /\ wwr' = wwr
  BY DEF ReadReady, io, app
<1>2. Running("read_ready") /\ stack # <<>> /\ Nested /\ state # "closed"
  BY <1>1, Runner DEF Rest
<1>3. rww \in BOOLEAN /\ wwr \in BOOLEAN /\ buffer' \in 0 .. buffer
      /\ data' \in {"none", "plain", "secure"}
  BY <1>1 DEF IInv, Types
<1>4. /\ rww' \in BOOLEAN /\ wwr' \in BOOLEAN
      /\ Nested' /\ ~Running("post_handshake")' /\ ~Running("shutdown")'
      /\ Contains(stack', "fail_waiter") => Contains(stack, "fail_waiter")
  <2>1. CASE /\ wwr /\ wwr' = FALSE
             /\ Becomes(<<"write_ready", "more_to_write", "recv">>)
    <3>1. Weight' + 2 = Weight /\ Weight' \in Nat
      BY <1>1, <1>3, <2>1, Weights
    <3>2. "more_to_write" \in Rest /\ "recv" \in Rest
      BY DEF Rest
    <3>3. Becomes(<<"write_ready", "more_to_write", "recv">>)
      BY <2>1
    <3>4. /\ Nested' /\ \A x : Running(x)' <=> x = "write_ready"
          /\ \A x : Contains(stack', x) =>
               Contains(stack, x) \/ x \in {"write_ready", "more_to_write", "recv"}
      BY <1>2, <3>1, <3>2, <3>3, CrossesOver
    <3>5. wwr' \in BOOLEAN /\ rww' \in BOOLEAN
      BY <1>1, <1>3, <2>1
    <3> QED
      BY <3>4, <3>5
  <2>2. CASE Becomes(<<"recv">>) /\ wwr' = wwr
    <3>1. "recv" \in Parts
      BY DEF Parts, Rest
    <3>2. /\ \A g : Running(g)' <=> g = "recv"
          /\ \A g : Contains(stack', g) => Contains(stack, g) \/ g = "recv"
          /\ Nested'
      BY <1>2, <2>2, <3>1, WentOn
    <3>3. wwr' \in BOOLEAN /\ rww' \in BOOLEAN
      BY <1>1, <1>3, <2>2
    <3> QED
      BY <3>2, <3>3
  <2> QED
    BY <1>1, <2>1, <2>2
<1> QED
  BY <1>1, <1>2, <1>3, <1>4, Computes

LEMMA WriteReadyStep ==
  ASSUME IInv, WriteReady
  PROVE  IInv'
<1>1. /\ Part("write_ready")
      /\ UNCHANGED <<useStarttls, state, closing, post, phase, tlsConn, cleaned, aborted,
                     reader, writer, ready, buffer, wwr, waiter, data>>
      /\ \/ /\ rww /\ rww' = FALSE
            /\ Becomes(<<"read_ready", "more_to_read", "send">>)
         \/ Becomes(<<"send">>) /\ rww' = rww
  BY DEF WriteReady, io, app
<1>2. Running("write_ready") /\ stack # <<>> /\ Nested /\ state # "closed"
  BY <1>1, Runner DEF Rest
<1>3. rww \in BOOLEAN /\ wwr \in BOOLEAN /\ buffer' \in 0 .. buffer
      /\ data' \in {"none", "plain", "secure"}
  BY <1>1 DEF IInv, Types
<1>4. /\ rww' \in BOOLEAN /\ wwr' \in BOOLEAN
      /\ Nested' /\ ~Running("post_handshake")' /\ ~Running("shutdown")'
      /\ Contains(stack', "fail_waiter") => Contains(stack, "fail_waiter")
  <2>1. CASE /\ rww /\ rww' = FALSE
             /\ Becomes(<<"read_ready", "more_to_read", "send">>)
    <3>1. Weight' + 2 = Weight /\ Weight' \in Nat
      BY <1>1, <1>3, <2>1, Weights
    <3>2. "more_to_read" \in Rest /\ "send" \in Rest
      BY DEF Rest
    <3>3. Becomes(<<"read_ready", "more_to_read", "send">>)
      BY <2>1
    <3>4. /\ Nested' /\ \A x : Running(x)' <=> x = "read_ready"
          /\ \A x : Contains(stack', x) =>
               Contains(stack, x) \/ x \in {"read_ready", "more_to_read", "send"}
      BY <1>2, <3>1, <3>2, <3>3, CrossesOver
    <3>5. rww' \in BOOLEAN /\ wwr' \in BOOLEAN
      BY <1>1, <1>3, <2>1
    <3> QED
      BY <3>4, <3>5
  <2>2. CASE Becomes(<<"send">>) /\ rww' = rww
    <3>1. "send" \in Parts
      BY DEF Parts, Rest
    <3>2. /\ \A g : Running(g)' <=> g = "send"
          /\ \A g : Contains(stack', g) => Contains(stack, g) \/ g = "send"
          /\ Nested'
      BY <1>2, <2>2, <3>1, WentOn
    <3>3. rww' \in BOOLEAN /\ wwr' \in BOOLEAN
      BY <1>1, <1>3, <2>2
    <3> QED
      BY <3>2, <3>3
  <2> QED
    BY <1>1, <2>1, <2>2
<1> QED
  BY <1>1, <1>2, <1>3, <1>4, Computes

\* A part that installs or removes a callback.
LEMMA Installs ==
  ASSUME IInv, stack # <<>>, NEW r, NEW w, Slots(r, w, <<>>),
         UNCHANGED <<useStarttls, state, closing, post, phase, tlsConn, cleaned, aborted,
                     buffer, waiter, data>>,
         rww' \in BOOLEAN, wwr' \in BOOLEAN,
         r \in {reader, "none", "read_ready", "handshake"},
         w \in {writer, "none", "write_ready", "handshake"},
         Nested', ~Running("post_handshake")',
         Contains(stack', "fail_waiter") => ~Queued("waiter"),
         state = "closed" =>
           /\ r \in {reader, "none"} /\ w \in {writer, "none"}
           /\ \A f : Running(f)' => f \in Rest \cup {"sent", "raw_shutdown", "fatal"},
         Running("shutdown")' =>
           buffer = 0 /\ state \in {"tls_open", "tls_shutting_down", "tls_shut_down"}
  PROVE  IInv'
<1>1. Orderly(ready)
  BY DEF IInv, Scheduled
<1>2. /\ reader' = r /\ writer' = w /\ Orderly(ready)'
      /\ \A h : Queued(h)' <=> /\ Queued(h)
                               /\ h = "reader" => reader' = reader
                               /\ h = "writer" => writer' = writer
  BY <1>1, Reinstalled
<1>3. /\ reader' \in {"none", "read_ready", "handshake", "shutdown"}
      /\ writer' \in {"none", "write_ready", "handshake", "shutdown"}
      /\ buffer' \in 0 .. MaxBuffer /\ data' \in {"none", "plain", "secure"}
  BY <1>2 DEF IInv, Types
<1>4. state = "closed" => reader' = "none" /\ writer' = "none" /\ buffer' = 0
  BY <1>2 DEF IInv, WhenClosed
<1>5. state \in {"tls_shutting_down", "tls_shut_down"} => buffer' = 0
  BY DEF IInv, ShutdownAfterDrain
<1>6. reader' = "shutdown" \/ writer' = "shutdown" => state = "tls_shutting_down"
  BY <1>2 DEF IInv, Draining
<1> QED
  BY <1>2, <1>3, <1>4, <1>5, <1>6, Goes

\* A part that installs or removes a callback and returns.
LEMMA InstallsAndReturns ==
  ASSUME IInv, stack # <<>>, Becomes(<<>>), NEW r, NEW w, Slots(r, w, <<>>),
         UNCHANGED <<useStarttls, state, closing, post, phase, tlsConn, cleaned, aborted,
                     buffer, waiter, data>>,
         rww' \in BOOLEAN, wwr' \in BOOLEAN,
         r \in {reader, "none", "read_ready", "handshake"},
         w \in {writer, "none", "write_ready", "handshake"},
         state = "closed" => r \in {reader, "none"} /\ w \in {writer, "none"}
  PROVE  IInv'
<1>1. /\ Nested' /\ \A f : Running(f)' => f \in Rest
      /\ \A f : Contains(stack', f) => Contains(stack, f)
  BY Returned DEF IInv
<1>2. /\ ~Running("post_handshake")' /\ ~Running("shutdown")'
      /\ \A f : Running(f)' => f \in Rest \cup {"sent", "raw_shutdown", "fatal"}
  BY <1>1 DEF Rest
<1>3. Contains(stack', "fail_waiter") => ~Queued("waiter")
  BY <1>1 DEF IInv, Settling
<1> QED
  BY <1>1, <1>2, <1>3, Installs

LEMMA HandshakeWaitsStep ==
  ASSUME IInv, HandshakeWaits
  PROVE  IInv'
<1>1. /\ stack # <<>> /\ Becomes(<<>>) /\ state = "tls_handshaking"
      /\ Slots("handshake", writer, <<>>) \/ Slots(reader, "handshake", <<>>)
      /\ UNCHANGED <<useStarttls, state, closing, post, phase, tlsConn, cleaned, aborted,
                     buffer, waiter, data, rww, wwr>>
  BY DEF HandshakeWaits, Part, app, core
<1>2. rww' \in BOOLEAN /\ wwr' \in BOOLEAN
  BY <1>1 DEF IInv, Types
<1> QED
  BY <1>1, <1>2, InstallsAndReturns

\* What is done between the two halves of a callback that crossed over.
LEMMA MoreStep ==
  ASSUME IInv, MoreToWrite \/ MoreToRead
  PROVE  IInv'
<1>1. /\ stack # <<>> /\ Becomes(<<>>)
      /\ \/ Slots(reader, IF buffer > 0 THEN "write_ready" ELSE writer, <<>>)
         \/ Slots(IF EofReceived(state) THEN reader ELSE "read_ready", writer, <<>>)
      /\ UNCHANGED <<useStarttls, state, closing, post, phase, tlsConn, cleaned, aborted,
                     buffer, waiter, data, rww, wwr>>
  BY DEF MoreToWrite, MoreToRead, Part, app, core
<1>2. rww' \in BOOLEAN /\ wwr' \in BOOLEAN /\ buffer \in Nat
  BY <1>1 DEF IInv, Types
<1>3. state = "closed" => ~(buffer > 0) /\ EofReceived(state)
  BY DEF IInv, WhenClosed, EofReceived
<1>4. CASE Slots(reader, IF buffer > 0 THEN "write_ready" ELSE writer, <<>>)
  BY <1>1, <1>2, <1>3, <1>4, InstallsAndReturns
<1>5. CASE Slots(IF EofReceived(state) THEN reader ELSE "read_ready", writer, <<>>)
  BY <1>1, <1>2, <1>3, <1>5, InstallsAndReturns
<1> QED
  BY <1>1, <1>4, <1>5

LEMMA RecvWantsWriteStep ==
  ASSUME IInv, RecvWantsWrite
  PROVE  IInv'
<1>1. /\ stack # <<>> /\ Becomes(<<>>) /\ Slots("none", "write_ready", <<>>)
      /\ state # "closed" /\ rww' = TRUE
      /\ UNCHANGED <<useStarttls, state, closing, post, phase, tlsConn, cleaned, aborted,
                     buffer, waiter, data, wwr>>
  BY DEF RecvWantsWrite, EofReceived, Part, app
<1>2. rww' \in BOOLEAN /\ wwr' \in BOOLEAN
  BY <1>1 DEF IInv, Types
<1> QED
  BY <1>1, <1>2, InstallsAndReturns

LEMMA SendWantsReadStep ==
  ASSUME IInv, SendWantsRead
  PROVE  IInv'
<1>1. /\ Part("send") /\ Becomes(<<"sent">>) /\ Slots("read_ready", "none", <<>>)
      /\ state # "closed" /\ wwr' = TRUE
      /\ UNCHANGED <<useStarttls, state, closing, post, phase, tlsConn, cleaned, aborted,
                     buffer, waiter, data, rww>>
  BY DEF SendWantsRead, TlsStarted, app
<1>2. stack # <<>> /\ Nested
  BY <1>1, Runner
<1>3. rww' \in BOOLEAN /\ wwr' \in BOOLEAN
  BY <1>1 DEF IInv, Types
<1>4. /\ Nested' /\ \A g : Running(g)' <=> g = "sent"
      /\ \A g : Contains(stack', g) => Contains(stack, g) \/ g = "sent"
  <2>1. "sent" \in Parts
    BY DEF Parts
  <2> QED
    BY <1>1, <1>2, <2>1, WentOn
<1>5. ~Running("post_handshake")' /\ ~Running("shutdown")'
  BY <1>4
<1>6. Contains(stack', "fail_waiter") => ~Queued("waiter")
  BY <1>4 DEF IInv, Settling
<1> QED
  BY <1>1, <1>2, <1>3, <1>4, <1>5, <1>6, Installs

\* A handshake that fails closes the transport and then fails the future.
LEMMA HandshakeFailsStep ==
  ASSUME IInv, HandshakeFails
  PROVE  IInv'
<1> DEFINE fs == <<"fatal", "fail_waiter">>
<1>1. /\ Part("handshake") /\ Becomes(fs) /\ Slots("none", "none", <<>>)
      /\ state = "tls_handshaking"
      /\ UNCHANGED <<useStarttls, state, closing, post, phase, tlsConn, cleaned, aborted,
                     buffer, waiter, data, rww, wwr>>
  BY DEF HandshakeFails, app, core
<1>2. stack # <<>> /\ Nested /\ Running("handshake") /\ Len(stack) = 1
  BY <1>1, Runner DEF Nested
<1>3. rww' \in BOOLEAN /\ wwr' \in BOOLEAN
  BY <1>1 DEF IInv, Types
<1>4. /\ fs \in Seq(Parts) /\ Len(fs) = 2 /\ fs # <<>> /\ fs[1] = "fatal"
      /\ \A i \in 2 .. Len(fs) : fs[i] \in Rest
  <2>1. fs \in Seq(Parts) /\ Len(fs) = 2 /\ fs # <<>> /\ fs[1] = "fatal" /\ fs[2] = "fail_waiter"
    BY DEF Parts, Rest
  <2>2. \A i \in 2 .. Len(fs) : i = 2
    BY <2>1
  <2>3. fs[2] \in Rest
    BY <2>1 DEF Rest
  <2> QED
    BY <2>1, <2>2, <2>3
<1> HIDE DEF fs
<1>5. /\ Layered(stack)' /\ Len(stack') = 2
      /\ \A g : Running(g)' <=> g = "fatal"
  <2>1. /\ Layered(stack)' /\ Len(stack') = Len(fs) + Len(stack) - 1
        /\ fs # <<>> => stack' # <<>> /\ stack'[1] = fs[1]
    BY <1>1, <1>2, <1>4, Replaced DEF Nested
  <2> QED
    BY <1>2, <1>4, <2>1 DEF Running
<1>6. Nested' /\ ~Running("post_handshake")' /\ ~Running("shutdown")'
  BY <1>5 DEF Nested
<1>7. ~Queued("waiter")
  BY <1>1 DEF IInv, WhenHandshaking
<1> QED
  BY <1>1, <1>2, <1>3, <1>6, <1>7, Installs

\* socket.shutdown() may raise; otherwise the transport closes.
LEMMA RawShutdownStep ==
  ASSUME IInv, RawShutdown
  PROVE  IInv'
<1>1. /\ Part("raw_shutdown") /\ Slots("none", "none", <<>>)
      /\ Becomes(<<"fatal">>) \/ stack' = <<>>
      /\ UNCHANGED <<useStarttls, state, closing, post, phase, tlsConn, cleaned, aborted,
                     buffer, waiter, data, rww, wwr>>
  BY DEF RawShutdown, Raise, app, core
<1>2. stack # <<>> /\ Nested
  BY <1>1, Runner
<1>3. rww' \in BOOLEAN /\ wwr' \in BOOLEAN
  BY <1>1 DEF IInv, Types
<1>4. /\ Nested' /\ \A g : Running(g)' => g = "fatal"
      /\ Contains(stack', "fail_waiter") => Contains(stack, "fail_waiter")
  <2>1. CASE Becomes(<<"fatal">>)
    <3>1. "fatal" \in Parts
      BY DEF Parts
    <3>2. /\ Nested' /\ \A g : Running(g)' <=> g = "fatal"
          /\ \A g : Contains(stack', g) => Contains(stack, g) \/ g = "fatal"
      BY <1>2, <2>1, <3>1, WentOn
    <3> QED
      BY <3>2
  <2>2. CASE stack' = <<>>
    <3>1. Layered(<<>>)
      BY DEF Layered
    <3>2. ~\E f : Running(f)'
      BY <2>2 DEF Running
    <3>3. ~Contains(stack', "fail_waiter")
      BY <2>2 DEF Contains
    <3>4. Nested'
      BY <2>2, <3>1, <3>2 DEF Nested
    <3> QED
      BY <3>2, <3>3, <3>4
  <2> QED
    BY <1>1, <2>1, <2>2
<1>5. /\ ~Running("post_handshake")' /\ ~Running("shutdown")'
      /\ \A f : Running(f)' => f \in Rest \cup {"sent", "raw_shutdown", "fatal"}
  BY <1>4
<1>6. Contains(stack', "fail_waiter") => ~Queued("waiter")
  BY <1>4 DEF IInv, Settling
<1> QED
  BY <1>1, <1>2, <1>3, <1>4, <1>5, <1>6, Installs

\* The end of _write_ready: the buffer is empty and a close() goes on.
LEMMA SentStep ==
  ASSUME IInv, Sent
  PROVE  IInv'
<1> DEFINE w == IF buffer = 0 /\ ~rww THEN "none" ELSE writer
           next == IF TlsStarted(state) THEN "shutdown" ELSE "raw_shutdown"
<1>1. /\ Part("sent") /\ Slots(reader, w, <<>>)
      /\ \/ Becomes(<<>>)
         \/ ~(buffer > 0) /\ closing /\ Becomes(<<next>>)
      /\ UNCHANGED <<useStarttls, state, closing, post, phase, tlsConn, cleaned, aborted,
                     buffer, waiter, data, rww, wwr>>
  BY DEF Sent, app, core
<1>2. stack # <<>> /\ Nested
  BY <1>1, Runner
<1>3. rww' \in BOOLEAN /\ wwr' \in BOOLEAN /\ buffer \in Nat
  BY <1>1 DEF IInv, Types
<1>4. w \in {writer, "none"}
  OBVIOUS
<1> HIDE DEF w
<1>5. CASE Becomes(<<>>)
  BY <1>1, <1>2, <1>3, <1>4, <1>5, InstallsAndReturns
<1>6. CASE ~(buffer > 0) /\ closing /\ Becomes(<<next>>)
  <2>1. buffer = 0 /\ state # "tls_handshaking"
    BY <1>3, <1>6 DEF IInv, WhenHandshaking
  <2>2. next \in {"shutdown", "raw_shutdown"} /\ next \in Parts
    BY DEF Parts
  <2>3. next = "shutdown" => state \in {"tls_open", "tls_shutting_down", "tls_shut_down"}
    BY <2>1 DEF TlsStarted
  <2> HIDE DEF next
  <2>4. /\ Nested' /\ \A g : Running(g)' <=> g = next
        /\ \A g : Contains(stack', g) => Contains(stack, g) \/ g = next
    BY <1>2, <1>6, <2>2, WentOn
  <2>5. /\ ~Running("post_handshake")' /\ (Running("shutdown")' => next = "shutdown")
        /\ state = "closed" =>
             \A f : Running(f)' => f \in Rest \cup {"sent", "raw_shutdown", "fatal"}
    BY <2>2, <2>3, <2>4
  <2>6. Contains(stack', "fail_waiter") => ~Queued("waiter")
    BY <2>2, <2>4 DEF IInv, Settling
  <2> QED
    BY <1>1, <1>2, <1>3, <1>4, <2>1, <2>3, <2>4, <2>5, <2>6, Installs
<1> QED
  BY <1>1, <1>5, <1>6

\* Nothing is left of a callback that an exception ended.
LEMMA Emptied ==
  ASSUME stack' = <<>>
  PROVE  Nested' /\ (\A f : ~Running(f)') /\ \A f : ~Contains(stack', f)
<1>1. Layered(<<>>)
  BY DEF Layered
<1>2. \A f : ~Running(f)'
  BY DEF Running
<1>3. \A f : ~Contains(stack', f)
  BY DEF Contains
<1>4. Nested'
  BY <1>1, <1>2 DEF Nested
<1> QED
  BY <1>2, <1>3, <1>4

\* data_received() raises.
LEMMA RecvRaisesStep ==
  ASSUME IInv, RecvRaises
  PROVE  IInv'
<1>1. /\ Part("recv") /\ stack' = <<>> /\ data' = phase
      /\ state \notin {"closed", "tls_handshaking"}
      /\ UNCHANGED <<useStarttls, state, closing, post, phase, tlsConn, cleaned, aborted,
                     reader, writer, ready, buffer, rww, wwr, waiter>>
  BY DEF RecvRaises, Raise, EofReceived, io, core
<1>2. stack # <<>>
  BY <1>1 DEF Part
<1>3. Nested' /\ (\A f : ~Running(f)') /\ \A f : ~Contains(stack', f)
  BY <1>1, Emptied
<1>4. phase \in {"plain", "secure"}
  BY <1>1, <1>2 DEF IInv, Types, WhenClosed, Told
<1>5. /\ buffer' \in 0 .. buffer /\ rww' \in BOOLEAN /\ wwr' \in BOOLEAN
      /\ data' \in {"none", "plain", "secure"}
  BY <1>1, <1>4 DEF IInv, Types
<1> QED
  BY <1>1, <1>2, <1>3, <1>5, Computes

\* A part that takes an open transport to a later state.
LEMMA Moves ==
  ASSUME IInv, stack # <<>>,
         UNCHANGED <<useStarttls, closing, post, phase, tlsConn, cleaned, aborted,
                     buffer, waiter, data, rww, wwr>>,
         state \notin {"closed", "tls_handshaking"},
         state' \in {"raw_eof", "tls_shutting_down", "tls_shut_down"},
         TlsStarted(state) <=> state' # "raw_eof",
         reader' \in {"none", "read_ready", "handshake", "shutdown"},
         writer' \in {"none", "write_ready", "handshake", "shutdown"},
         Orderly(ready)',
         \A h : Queued(h)' <=> /\ Queued(h)
                               /\ h = "reader" => reader' = reader
                               /\ h = "writer" => writer' = writer,
         Nested', ~Running("post_handshake")', ~Running("shutdown")',
         Contains(stack', "fail_waiter") => Contains(stack, "fail_waiter"),
         state' # "raw_eof" => buffer = 0,
         reader' = "shutdown" \/ writer' = "shutdown" => state' = "tls_shutting_down"
  PROVE  IInv'
<1>1. /\ phase # "lost" /\ ~Queued("connection_lost") /\ ~cleaned /\ post # "running"
      /\ ~Queued("post_ok") /\ ~Queued("post_failed") /\ phase # "connecting"
  BY DEF IInv, WhenClosed, WhenVerifying, Told
<1>2. Types'
  BY DEF IInv, Types, States
<1>3. Scheduled'
  BY DEF IInv, Scheduled
<1>4. WhenClosed' /\ WhenHandshaking'
  BY <1>1 DEF WhenClosed, WhenHandshaking
<1>5. WhenVerifying'
  BY <1>1 DEF IInv, WhenVerifying
<1>6. Told'
  <2>1. state' = "raw_eof" => state \in {"raw_open", "raw_eof"}
    BY DEF TlsStarted, IInv, Types, States
  <2>2. TlsStarted(state)' <=> TlsStarted(state)
    BY DEF TlsStarted
  <2>3. state' \in {"raw_open", "raw_eof"} =>
          useStarttls' /\ phase' \in {"connecting", "plain"} /\ ~Queued("starttls_made")'
    BY <2>1 DEF IInv, Told
  <2>4. Queued("waiter")' =>
          /\ waiter' = "pending"
          /\ TlsStarted(state)' => \/ phase' = "secure"
                                   \/ Queued("connection_made")' \/ Queued("starttls_made")'
    BY <2>2 DEF IInv, Told
  <2>5. phase' # "connecting"
    BY <1>1
  <2> QED
    BY <2>3, <2>4, <2>5 DEF Told
<1>7. Settling' /\ Draining'
  BY DEF IInv, Settling, Draining
<1>8. SecureOnReturn' /\ ShutdownAfterDrain'
  BY DEF IInv, SecureOnReturn, ShutdownAfterDrain, TlsStarted
<1> QED
  BY <1>2, <1>3, <1>4, <1>5, <1>6, <1>7, <1>8 DEF IInv

\* recv() returns b"" on a plain stream.
LEMMA RecvEofStep ==
  ASSUME IInv, RecvEof
  PROVE  IInv'
<1>1. /\ Part("recv") /\ state = "raw_open" /\ Slots("none", writer, <<>>)
      /\ \/ state' = "raw_eof" /\ Becomes(<<>>)
         \/ Becomes(<<"raw_shutdown">>) /\ state' = state
      /\ UNCHANGED <<useStarttls, closing, post, phase, tlsConn, cleaned, aborted,
                     buffer, waiter, data, rww, wwr>>
  BY DEF RecvEof, app, core
<1>2. stack # <<>> /\ Nested /\ Orderly(ready)
  BY <1>1, Runner
<1>3. CASE state' = "raw_eof" /\ Becomes(<<>>)
  <2>1. /\ Nested' /\ \A f : Running(f)' => f \in Rest
        /\ \A f : Contains(stack', f) => Contains(stack, f)
    BY <1>2, <1>3, Returned
  <2>2. /\ reader' = "none" /\ writer' = writer /\ Orderly(ready)'
        /\ \A h : Queued(h)' <=> /\ Queued(h)
                                 /\ h = "reader" => reader' = reader
                                 /\ h = "writer" => writer' = writer
    BY <1>1, <1>2, Reinstalled
  <2>3. ~Running("post_handshake")' /\ ~Running("shutdown")'
    BY <2>1 DEF Rest
  <2>4. /\ reader' \in {"none", "read_ready", "handshake", "shutdown"}
        /\ writer' \in {"none", "write_ready", "handshake", "shutdown"}
        /\ ~(reader' = "shutdown" \/ writer' = "shutdown")
        /\ ~TlsStarted(state)
    BY <1>1, <2>2 DEF IInv, Types, Draining, TlsStarted
  <2> QED
    BY <1>1, <1>2, <1>3, <2>1, <2>2, <2>3, <2>4, Moves
<1>4. CASE Becomes(<<"raw_shutdown">>) /\ state' = state
  <2>1. "raw_shutdown" \in Parts
    BY DEF Parts
  <2>2. /\ Nested' /\ \A g : Running(g)' <=> g = "raw_shutdown"
        /\ \A g : Contains(stack', g) => Contains(stack, g) \/ g = "raw_shutdown"
    BY <1>2, <1>4, <2>1, WentOn
  <2>3. rww' \in BOOLEAN /\ wwr' \in BOOLEAN
    BY <1>1 DEF IInv, Types
  <2>4. ~Running("post_handshake")' /\ ~Running("shutdown")' /\ state # "closed"
    BY <1>1, <2>2
  <2>5. Contains(stack', "fail_waiter") => ~Queued("waiter")
    BY <2>2 DEF IInv, Settling
  <2> QED
    BY <1>1, <1>2, <1>4, <2>2, <2>3, <2>4, <2>5, Installs
<1> QED
  BY <1>1, <1>3, <1>4

\* _tls_do_shutdown waits for the socket, fails, or is through.
LEMMA TlsShutdownStep ==
  ASSUME IInv, TlsShutdown
  PROVE  IInv'
<1>1. /\ Part("shutdown")
      /\ UNCHANGED <<useStarttls, closing, post, phase, tlsConn, cleaned, aborted,
                     buffer, waiter, data, rww, wwr>>
  BY DEF TlsShutdown, app, core
<1>2. /\ stack # <<>> /\ Nested /\ Orderly(ready) /\ buffer = 0
      /\ state \in {"tls_open", "tls_shutting_down", "tls_shut_down"}
  BY <1>1, Runner DEF IInv, Draining
<1>3. state \notin {"closed", "tls_handshaking"} /\ TlsStarted(state)
  BY <1>2 DEF TlsStarted
<1>4. ASSUME NEW fs \in {<<>>, <<"fatal">>, <<"raw_shutdown">>}, Becomes(fs)
      PROVE  /\ Nested' /\ ~Running("post_handshake")' /\ ~Running("shutdown")'
             /\ Contains(stack', "fail_waiter") => Contains(stack, "fail_waiter")
  <2>1. CASE fs = <<>>
    <3>1. /\ Nested' /\ \A f : Running(f)' => f \in Rest
          /\ \A f : Contains(stack', f) => Contains(stack, f)
      BY <1>2, <1>4, <2>1, Returned
    <3> QED
      BY <3>1 DEF Rest
  <2>2. ASSUME NEW f \in {"fatal", "raw_shutdown"}, fs = <<f>>
        PROVE  /\ Nested' /\ ~Running("post_handshake")' /\ ~Running("shutdown")'
               /\ Contains(stack', "fail_waiter") => Contains(stack, "fail_waiter")
    <3>1. f \in Parts
      BY DEF Parts
    <3>2. /\ Nested' /\ \A g : Running(g)' <=> g = f
          /\ \A g : Contains(stack', g) => Contains(stack, g) \/ g = f
      BY <1>2, <1>4, <2>2, <3>1, WentOn
    <3> QED
      BY <3>2
  <2> QED
    BY <2>1, <2>2
<1>5. CASE Slots("shutdown", writer, <<>>) /\ Becomes(<<>>) /\ state' = "tls_shutting_down"
  <2>1. /\ reader' = "shutdown" /\ writer' = writer /\ Orderly(ready)'
        /\ \A h : Queued(h)' <=> /\ Queued(h)
                                 /\ h = "reader" => reader' = reader
                                 /\ h = "writer" => writer' = writer
    BY <1>1, <1>2, <1>5, Reinstalled
  <2>2. /\ reader' \in {"none", "read_ready", "handshake", "shutdown"}
        /\ writer' \in {"none", "write_ready", "handshake", "shutdown"}
    BY <2>1 DEF IInv, Types
  <2>3. /\ Nested' /\ ~Running("post_handshake")' /\ ~Running("shutdown")'
        /\ Contains(stack', "fail_waiter") => Contains(stack, "fail_waiter")
    BY <1>4, <1>5
  <2>4. reader' = "shutdown" \/ writer' = "shutdown" => state' = "tls_shutting_down"
    BY <1>5, <2>1
  <2> QED
    BY <1>1, <1>2, <1>3, <1>5, <2>1, <2>2, <2>3, <2>4, Moves
<1>6. CASE Slots(reader, "shutdown", <<>>) /\ Becomes(<<>>) /\ state' = "tls_shutting_down"
  <2>1. /\ reader' = reader /\ writer' = "shutdown" /\ Orderly(ready)'
        /\ \A h : Queued(h)' <=> /\ Queued(h)
                                 /\ h = "reader" => reader' = reader
                                 /\ h = "writer" => writer' = writer
    BY <1>1, <1>2, <1>6, Reinstalled
  <2>2. /\ reader' \in {"none", "read_ready", "handshake", "shutdown"}
        /\ writer' \in {"none", "write_ready", "handshake", "shutdown"}
    BY <2>1 DEF IInv, Types
  <2>3. /\ Nested' /\ ~Running("post_handshake")' /\ ~Running("shutdown")'
        /\ Contains(stack', "fail_waiter") => Contains(stack, "fail_waiter")
    BY <1>4, <1>6
  <2>4. reader' = "shutdown" \/ writer' = "shutdown" => state' = "tls_shutting_down"
    BY <1>6, <2>1
  <2> QED
    BY <1>1, <1>2, <1>3, <1>6, <2>1, <2>2, <2>3, <2>4, Moves
<1>7. CASE UNCHANGED io /\ Becomes(<<"fatal">>) /\ state' = "tls_shutting_down"
  <2>1. /\ reader' = reader /\ writer' = writer /\ Orderly(ready)'
        /\ \A h : Queued(h)' <=> /\ Queued(h)
                                 /\ h = "reader" => reader' = reader
                                 /\ h = "writer" => writer' = writer
    BY <1>2, <1>7 DEF io, Queued, Orderly
  <2>2. /\ reader' \in {"none", "read_ready", "handshake", "shutdown"}
        /\ writer' \in {"none", "write_ready", "handshake", "shutdown"}
    BY <2>1 DEF IInv, Types
  <2>3. /\ Nested' /\ ~Running("post_handshake")' /\ ~Running("shutdown")'
        /\ Contains(stack', "fail_waiter") => Contains(stack, "fail_waiter")
    BY <1>4, <1>7
  <2>4. reader' = "shutdown" \/ writer' = "shutdown" => state' = "tls_shutting_down"
    BY <1>7, <2>1
  <2> QED
    BY <1>1, <1>2, <1>3, <1>7, <2>1, <2>2, <2>3, <2>4, Moves
<1>8. CASE Slots("none", "none", <<>>) /\ Becomes(<<"raw_shutdown">>) /\ state' = "tls_shut_down"
  <2>1. /\ reader' = "none" /\ writer' = "none" /\ Orderly(ready)'
        /\ \A h : Queued(h)' <=> /\ Queued(h)
                                 /\ h = "reader" => reader' = reader
                                 /\ h = "writer" => writer' = writer
    BY <1>1, <1>2, <1>8, Reinstalled
  <2>2. /\ reader' \in {"none", "read_ready", "handshake", "shutdown"}
        /\ writer' \in {"none", "write_ready", "handshake", "shutdown"}
    BY <2>1 DEF IInv, Types
  <2>3. /\ Nested' /\ ~Running("post_handshake")' /\ ~Running("shutdown")'
        /\ Contains(stack', "fail_waiter") => Contains(stack, "fail_waiter")
    BY <1>4, <1>8
  <2>4. reader' = "shutdown" \/ writer' = "shutdown" => state' = "tls_shutting_down"
    BY <1>8, <2>1
  <2> QED
    BY <1>1, <1>2, <1>3, <1>8, <2>1, <2>2, <2>3, <2>4, Moves
<1> QED
  BY <1>5, <1>6, <1>7, <1>8 DEF TlsShutdown

\* A transport that is closed already is not closed again; otherwise
\* connection_lost is scheduled.
LEMMA ForceCloseStep ==
  ASSUME IInv, ForceClose
  PROVE  IInv'
<1>1. /\ Part("fatal")
      /\ UNCHANGED <<useStarttls, closing, post, phase, tlsConn, cleaned, aborted,
                     waiter, data, rww, wwr>>
  BY DEF ForceClose, app
<1>2. stack # <<>> /\ Nested /\ Orderly(ready)
  BY <1>1, Runner
<1>3. CASE state = "closed" \/ cleaned
  <2>1. /\ stack' = <<>> /\ UNCHANGED <<state, buffer>>
        /\ UNCHANGED io \/ Slots("none", "none", <<>>)
    BY <1>3 DEF ForceClose, Raise
  <2>2. /\ Nested' /\ (\A f : ~Running(f)') /\ ~Contains(stack', "fail_waiter")
        /\ rww' \in BOOLEAN /\ wwr' \in BOOLEAN
    BY <1>1, <2>1, Emptied DEF IInv, Types
  <2>3. CASE UNCHANGED io
    <3>1. buffer' \in 0 .. buffer /\ data' \in {"none", "plain", "secure"}
      BY <1>1, <2>1 DEF IInv, Types
    <3>2. UNCHANGED <<reader, writer, ready>>
      BY <2>3 DEF io
    <3> QED
      BY <1>1, <1>2, <2>1, <2>2, <3>1, <3>2, Computes
  <2>4. CASE Slots("none", "none", <<>>)
    BY <1>1, <1>2, <2>1, <2>2, <2>4, Installs
  <2> QED
    BY <2>1, <2>3, <2>4
<1>4. CASE ~(state = "closed" \/ cleaned)
  <2>1. /\ Becomes(<<>>) /\ state' = "closed" /\ buffer' = 0
        /\ Slots("none", "none", <<"connection_lost">>)
    BY <1>4 DEF ForceClose
  <2>2. /\ Nested' /\ \A f : Running(f)' => f \in Rest
        /\ \A f : Contains(stack', f) => Contains(stack, f)
    BY <1>2, <2>1, Returned
  <2>3. phase # "lost" /\ ~Queued("connection_lost")
    BY <1>4 DEF IInv, WhenClosed
  <2>4. PICK kept : /\ Orderly(kept) /\ ready' = kept \o <<"connection_lost">>
                    /\ \A h : Contains(kept, h) <=>
                                /\ Queued(h)
                                /\ h = "reader" => "none" = reader
                                /\ h = "writer" => "none" = writer
    BY <1>2, <2>1, Installed
  <2>5. reader' = "none" /\ writer' = "none"
    BY <2>1 DEF Slots
  <2>6. /\ Orderly(ready)'
        /\ \A h : Queued(h)' => Queued(h) \/ h = "connection_lost"
        /\ Queued("connection_lost")' /\ ~Queued("reader")' /\ ~Queued("writer")'
        /\ Queued("connection_made") => Queued("connection_made")'
    <3>1. "connection_lost" \in Handles /\ "connection_lost" \notin Made
      BY DEF Handles, Made
    <3>2. /\ Orderly(Append(kept, "connection_lost"))
          /\ kept \o <<"connection_lost">> = Append(kept, "connection_lost")
          /\ \A g : Contains(Append(kept, "connection_lost"), g)
                      <=> Contains(kept, g) \/ g = "connection_lost"
      BY <2>3, <2>4, <3>1, Called
    <3>3. ~Contains(kept, "reader") /\ ~Contains(kept, "writer")
      BY <2>4 DEF IInv, Scheduled
    <3>4. ready' = Append(kept, "connection_lost")
      BY <2>4, <3>2
    <3>5. Orderly(ready)'
      BY <3>2, <3>4 DEF Orderly
    <3>6. \A h : Queued(h)' <=> Contains(kept, h) \/ h = "connection_lost"
      BY <3>2, <3>4 DEF Queued
    <3>7. \A h : Queued(h)' => Queued(h) \/ h = "connection_lost"
      BY <2>4, <3>6
    <3>8. Queued("connection_made") => Queued("connection_made")'
      BY <2>4, <3>6
    <3>9. Queued("connection_lost")' /\ ~Queued("reader")' /\ ~Queued("writer")'
      BY <3>3, <3>6
    <3> QED
      BY <3>5, <3>7, <3>8, <3>9
  <2>7. /\ post # "running" /\ ~Queued("post_ok") /\ ~Queued("post_failed")
        /\ phase = "connecting" => ~useStarttls
    BY <1>2 DEF IInv, WhenVerifying, Told
  <2>8. Types'
    <3>1. buffer' \in 0 .. MaxBuffer
      BY <2>1, TransportAssumption
    <3> QED
      BY <1>1, <2>1, <2>5, <3>1 DEF IInv, Types, States
  <2>9. Scheduled'
    BY <1>1, <2>6 DEF IInv, Scheduled
  <2>10. WhenClosed' /\ WhenHandshaking'
    <3>1. cleaned' => phase' = "lost"
      BY <1>1 DEF IInv, WhenClosed
    <3>2. stack' # <<>> => stack'[1] \in Rest \cup {"sent", "raw_shutdown", "fatal"}
      BY <2>2 DEF Running
    <3> QED
      BY <1>1, <2>1, <2>3, <2>5, <2>6, <3>1, <3>2 DEF WhenClosed, WhenHandshaking
  <2>11. WhenVerifying'
    <3>1. ~Running("post_handshake")'
      BY <2>2 DEF Rest
    <3>2. ~Queued("post_ok")' /\ ~Queued("post_failed")'
      BY <2>6, <2>7
    <3> QED
      BY <1>1, <2>6, <2>7, <3>1, <3>2 DEF IInv, WhenVerifying
  <2>12. Told'
    BY <1>1, <2>1, <2>6, <2>7 DEF IInv, Told, TlsStarted
  <2>13. Settling' /\ Draining'
    <3>1. ~Running("shutdown")'
      BY <2>2 DEF Rest
    <3> QED
      BY <2>2, <2>5, <2>6, <3>1 DEF IInv, Settling, Draining
  <2>14. SecureOnReturn' /\ ShutdownAfterDrain'
    BY <2>1 DEF SecureOnReturn, ShutdownAfterDrain, TlsStarted
  <2> QED
    BY <2>2, <2>8, <2>9, <2>10, <2>11, <2>12, <2>13, <2>14 DEF IInv
<1> QED
  BY <1>3, <1>4

\* The handshake is over: the callback decides, or the transport opens.
LEMMA HandshakeDoneStep ==
  ASSUME IInv, Safe, HandshakeDone
  PROVE  IInv'
<1>1. /\ Part("handshake") /\ state = "tls_handshaking" /\ Slots("none", "none", <<>>)
      /\ UNCHANGED <<useStarttls, state, closing, phase, tlsConn, cleaned, aborted,
                     waiter, data, rww, wwr, buffer>>
  BY DEF HandshakeDone, app
<1>2. /\ stack # <<>> /\ Nested /\ Orderly(ready) /\ Running("handshake") /\ Len(stack) = 1
  BY <1>1, Runner DEF Nested
<1>3. /\ post # "running" /\ ~Queued("post_ok") /\ ~Queued("post_failed")
      /\ phase # "lost" /\ ~Queued("waiter")
  BY <1>1, <1>2 DEF IInv, WhenVerifying, WhenClosed, WhenHandshaking
<1>4. /\ reader' = "none" /\ writer' = "none" /\ Orderly(ready)'
      /\ \A h : Queued(h)' => Queued(h) /\ h # "reader" /\ h # "writer"
  <2>1. /\ reader' = "none" /\ writer' = "none" /\ Orderly(ready)'
        /\ \A h : Queued(h)' <=> /\ Queued(h)
                                 /\ h = "reader" => "none" = reader
                                 /\ h = "writer" => "none" = writer
    BY <1>1, <1>2, Reinstalled
  <2> QED
    BY <2>1 DEF IInv, Scheduled
<1>5. \/ post = "given" /\ post' = "running" /\ stack' = <<>>
      \/ post = "none" /\ post' = "none" /\ Becomes(<<"post_handshake">>)
  <2>1. CASE post = "given"
    <3>1. post' = "running" /\ Becomes(<<>>)
      BY <2>1 DEF HandshakeDone
    <3>2. stack' = <<>>
      BY <1>2, <3>1, Returned
    <3> QED
      BY <2>1, <3>1, <3>2
  <2>2. CASE post # "given"
    BY <1>3, <2>2 DEF HandshakeDone, IInv, Types
  <2> QED
    BY <2>1, <2>2
<1>6. /\ Nested' /\ \A g : Running(g)' => g = "post_handshake" /\ post' = "none"
      /\ Contains(stack', "fail_waiter") => Contains(stack, "fail_waiter")
  <2>1. CASE post = "given" /\ post' = "running" /\ stack' = <<>>
    BY <2>1, Emptied
  <2>2. CASE post = "none" /\ post' = "none" /\ Becomes(<<"post_handshake">>)
    <3>1. "post_handshake" \in Parts
      BY DEF Parts
    <3>2. /\ Layered(stack)' /\ Len(stack') = 1
          /\ \A g : Running(g)' <=> g = "post_handshake"
          /\ \A g : Contains(stack', g) => Contains(stack, g) \/ g = "post_handshake"
      BY <1>2, <2>2, <3>1, WentOn
    <3> QED
      BY <2>2, <3>2 DEF Nested
  <2> QED
    BY <1>5, <2>1, <2>2
<1>7. Types' /\ Scheduled'
  <2>1. Types'
    BY <1>1, <1>4, <1>5 DEF IInv, Types
  <2>2. Scheduled'
    BY <1>1, <1>3, <1>4 DEF IInv, Scheduled
  <2> QED
    BY <2>1, <2>2
<1>8. WhenClosed' /\ WhenHandshaking'
  BY <1>1, <1>4 DEF IInv, WhenClosed, WhenHandshaking
<1>9. WhenVerifying'
  <2>1. ~Queued("post_ok")' /\ ~Queued("post_failed")'
    BY <1>3, <1>4
  <2>2. post' # "none" => "given" \in PostModes /\ Careful
    BY <1>5 DEF IInv, WhenVerifying, Safe
  <2> QED
    BY <1>1, <1>4, <1>5, <1>6, <2>1, <2>2 DEF IInv, WhenVerifying
<1>10. Told'
  BY <1>1, <1>2, <1>3, <1>4 DEF IInv, Told
<1>11. Settling' /\ Draining'
  BY <1>3, <1>4, <1>6 DEF Settling, Draining
<1>12. SecureOnReturn' /\ ShutdownAfterDrain'
  BY <1>1 DEF IInv, SecureOnReturn, ShutdownAfterDrain, TlsStarted
<1> QED
  BY <1>6, <1>7, <1>8, <1>9, <1>10, <1>11, <1>12 DEF IInv

\* The protocol's news, and then the future's, are all that is scheduled.
LEMMA TlsPostHandshakeStep ==
  ASSUME IInv, TlsPostHandshake
  PROVE  IInv'
<1> DEFINE made == IF useStarttls THEN "starttls_made" ELSE "connection_made"
<1>1. /\ Part("post_handshake") /\ rww' = FALSE /\ wwr' = FALSE /\ state' = "tls_open"
      /\ UNCHANGED <<useStarttls, closing, post, phase, tlsConn, cleaned, aborted,
                     waiter, data, buffer>>
  BY DEF TlsPostHandshake, app
<1>2. /\ stack # <<>> /\ Nested /\ Orderly(ready) /\ Running("post_handshake")
      /\ Len(stack) = 1
  BY <1>1, Runner DEF Nested
<1>3. /\ state = "tls_handshaking" /\ post = "none" /\ reader = "none" /\ writer = "none"
      /\ ~Queued("post_ok") /\ ~Queued("post_failed")
  BY <1>2 DEF IInv, WhenVerifying
<1>4. /\ phase = (IF useStarttls THEN "plain" ELSE "connecting") /\ ~cleaned
      /\ ready = <<>>
  <2>1. \A h \in Handles : ~Queued(h)
    BY <1>3 DEF IInv, WhenHandshaking, Scheduled, Handles, Made, Verdicts
  <2>2. ready = <<>>
    BY <1>2, <2>1, NothingQueued DEF Queued
  <2>3. ~cleaned
    BY <1>3 DEF IInv, WhenClosed
  <2> QED
    BY <1>3, <2>2, <2>3 DEF IInv, WhenHandshaking
<1>5. /\ Becomes(<<>>)
      /\ Slots("read_ready", writer,
           <<made>> \o (IF waiter = "pending" THEN <<"waiter">> ELSE <<>>))
  BY <1>4 DEF TlsPostHandshake
<1>6. stack' = <<>>
  BY <1>2, <1>5, Returned
<1>7. Nested' /\ (\A f : ~Running(f)') /\ ~Contains(stack', "fail_waiter")
  BY <1>6, Emptied
<1>8. /\ reader' = "read_ready" /\ writer' = "none"
      /\ ready' = <<made>> \o (IF waiter = "pending" THEN <<"waiter">> ELSE <<>>)
  <2>1. Cancel(ready, "reader") = <<>>
    BY <1>4 DEF Cancel, Contains
  <2> HIDE DEF made
  <2>2. ready' = <<>> \o (<<made>> \o (IF waiter = "pending" THEN <<"waiter">> ELSE <<>>))
    BY <1>3, <1>5, <2>1 DEF Slots
  <2>3. ready' = <<made>> \o (IF waiter = "pending" THEN <<"waiter">> ELSE <<>>)
    BY <2>2
  <2>4. reader' = "read_ready" /\ writer' = "none"
    BY <1>3, <1>5 DEF Slots
  <2> QED
    BY <2>3, <2>4
<1>9. made \in Made /\ made \in Handles /\ made # "waiter" /\ "waiter" \in Handles
      /\ "waiter" \notin Made
  BY DEF Made, Handles
<1>10. /\ Orderly(ready)'
       /\ \A h : Queued(h)' <=> h = made \/ (h = "waiter" /\ waiter = "pending")
  <2> HIDE DEF made
  <2>1. Orderly(<<>>) /\ \A h : ~Contains(<<>>, h)
    BY DEF Orderly, Contains
  <2>2. /\ Orderly(Append(<<>>, made)) /\ <<>> \o <<made>> = Append(<<>>, made)
        /\ \A g : Contains(Append(<<>>, made), g) <=> Contains(<<>>, g) \/ g = made
    BY <1>9, <2>1, Called
  <2>3. Append(<<>>, made) = <<made>>
    OBVIOUS
  <2>4. Orderly(<<made>>) /\ \A g : Contains(<<made>>, g) <=> g = made
    BY <2>1, <2>2, <2>3
  <2>5. CASE waiter = "pending"
    <3>1. /\ Orderly(Append(<<made>>, "waiter"))
          /\ <<made>> \o <<"waiter">> = Append(<<made>>, "waiter")
          /\ \A g : Contains(Append(<<made>>, "waiter"), g)
                      <=> Contains(<<made>>, g) \/ g = "waiter"
      BY <1>9, <2>4, Called
    <3> QED
      BY <1>8, <2>4, <2>5, <3>1 DEF Orderly, Queued
  <2>6. CASE waiter # "pending"
    <3>1. ready' = <<made>>
      BY <1>8, <2>6
    <3> QED
      BY <2>4, <2>6, <3>1 DEF Orderly, Queued
  <2> QED
    BY <2>5, <2>6
<1>11. Types'
  <2>1. Types
    BY DEF IInv
  <2>2. state' \in States
    BY <1>1 DEF States
  <2>3. reader' = "read_ready" /\ writer' = "none" /\ rww' = FALSE /\ wwr' = FALSE
    BY <1>1, <1>8
  <2>4. UNCHANGED <<useStarttls, closing, post, phase, tlsConn, cleaned, aborted,
                    waiter, data, buffer>>
    BY <1>1
  <2>5. /\ useStarttls' \in BOOLEAN /\ closing' \in BOOLEAN /\ rww' \in BOOLEAN
        /\ wwr' \in BOOLEAN /\ tlsConn' \in BOOLEAN /\ cleaned' \in BOOLEAN
        /\ aborted' \in BOOLEAN
    BY <2>1, <2>3, <2>4 DEF Types
  <2>6. /\ reader' \in {"none", "read_ready", "handshake", "shutdown"}
        /\ writer' \in {"none", "write_ready", "handshake", "shutdown"}
    BY <2>3
  <2>7. /\ buffer' \in 0 .. MaxBuffer /\ post' \in {"none", "given", "running"}
        /\ waiter' \in {"none", "pending", "done", "failed"}
        /\ phase' \in {"connecting", "plain", "secure", "lost"}
        /\ data' \in {"none", "plain", "secure"}
    BY <2>1, <2>4 DEF Types
  <2> QED
    BY <2>2, <2>5, <2>6, <2>7 DEF Types
<1>12. Scheduled'
  BY <1>1, <1>3, <1>4, <1>8, <1>10 DEF Scheduled
<1>13. WhenClosed' /\ WhenHandshaking' /\ WhenVerifying'
  BY <1>1, <1>3, <1>4, <1>6, <1>7, <1>10 DEF WhenClosed, WhenHandshaking, WhenVerifying
<1>14. Told'
  BY <1>1, <1>4, <1>6, <1>10 DEF Told, TlsStarted
<1>15. Settling' /\ Draining'
  BY <1>7, <1>8 DEF Settling, Draining
<1>16. SecureOnReturn' /\ ShutdownAfterDrain'
  BY <1>1, <1>3 DEF IInv, SecureOnReturn, ShutdownAfterDrain, TlsStarted
<1> QED
  BY <1>7, <1>11, <1>12, <1>13, <1>14, <1>15, <1>16 DEF IInv

-----------------------------------------------------------------------------
(* The event loop.                                                         *)

\* A callback begins with one part.
LEMMA Begun ==
  ASSUME NEW f \in Parts, stack' = <<f>>, rww' \in BOOLEAN, wwr' \in BOOLEAN
  PROVE  /\ Nested' /\ stack' # <<>> /\ stack'[1] = f
         /\ \A g : Running(g)' <=> g = f
         /\ \A g : Contains(stack', g) <=> g = f
<1>1. <<f>> \in Seq(Parts) /\ Len(<<f>>) = 1 /\ <<f>>[1] = f /\ <<f>> # <<>>
  OBVIOUS
<1>2. \A i \in 2 .. Len(<<f>>) : <<f>>[i] \in Rest
  BY <1>1
<1>3. Layered(stack)'
  BY <1>1, <1>2 DEF Layered
<1>4. \A g : Running(g)' <=> g = f
  BY <1>1 DEF Running
<1>5. \A g : Contains(stack', g) <=> g = f
  BY <1>1 DEF Contains
<1>6. Len(stack') = 1 /\ Len(stack') + Weight' <= 5
  BY <1>1 DEF Weight
<1>7. Nested'
  BY <1>3, <1>6 DEF Nested
<1> QED
  BY <1>1, <1>4, <1>5, <1>7

\* What is known of the handle the loop takes.
LEMMA Handled ==
  ASSUME IInv, NEW h, Runs(h)
  PROVE  /\ stack = <<>> /\ Queued(h) /\ Orderly(ready)'
         /\ \A g : Queued(g)' <=> Queued(g) /\ g # h
         /\ \A g \in Made : Queued(g) => g = h
         /\ reader' = reader /\ writer' = writer /\ useStarttls' = useStarttls
<1>1. /\ stack = <<>> /\ ready # <<>> /\ Head(ready) = h /\ ready' = Tail(ready)
      /\ reader' = reader /\ writer' = writer /\ useStarttls' = useStarttls
  BY DEF Runs, Idle
<1>2. Orderly(ready)
  BY DEF IInv, Scheduled
<1>3. /\ Orderly(Tail(ready)) /\ Contains(ready, Head(ready))
      /\ \A g : Contains(Tail(ready), g) <=> Contains(ready, g) /\ g # Head(ready)
      /\ \A g \in Made : Contains(ready, g) => g = Head(ready)
  BY <1>1, <1>2, Taken
<1>4. Orderly(ready)'
  BY <1>1, <1>3 DEF Orderly
<1> QED
  BY <1>1, <1>3, <1>4 DEF Queued

\* The callback of a slot.
LEMMA RunSlotStep ==
  ASSUME IInv, RunSlot
  PROVE  IInv'
<1>1. UNCHANGED <<state, waiter, aborted, phase, data, buffer, closing, rww, wwr, post,
                  tlsConn, cleaned>>
  BY DEF RunSlot, app, core
<1>2. PICK h \in {"reader", "writer"} :
        Runs(h) /\ stack' = <<IF h = "reader" THEN reader ELSE writer>>
  BY DEF RunSlot
<1> DEFINE f == IF h = "reader" THEN reader ELSE writer
<1>3. /\ stack = <<>> /\ Queued(h) /\ Orderly(ready)'
      /\ \A g : Queued(g)' <=> Queued(g) /\ g # h
      /\ \A g \in Made : Queued(g) => g = h
      /\ reader' = reader /\ writer' = writer /\ useStarttls' = useStarttls
  BY <1>2, Handled
<1>4. f \in {"read_ready", "write_ready", "handshake", "shutdown"} /\ f \in Parts
  BY <1>3 DEF IInv, Types, Scheduled, Parts
<1>5. reader # "none" \/ writer # "none"
  BY <1>3 DEF IInv, Scheduled
<1>6. f = "shutdown" => state = "tls_shutting_down" /\ buffer = 0
  BY DEF IInv, Draining, ShutdownAfterDrain
<1>7. stack' = <<f>>
  BY <1>2
<1> HIDE DEF f
<1>8. rww' \in BOOLEAN /\ wwr' \in BOOLEAN
  BY <1>1 DEF IInv, Types
<1>9. /\ Nested' /\ stack' # <<>> /\ stack'[1] = f
      /\ \A g : Running(g)' <=> g = f
      /\ \A g : Contains(stack', g) <=> g = f
  BY <1>4, <1>7, <1>8, Begun
<1>10. state # "closed" /\ phase # "lost"
  BY <1>5 DEF IInv, WhenClosed
<1>11. post # "running" /\ ~Queued("post_ok") /\ ~Queued("post_failed")
  BY <1>5 DEF IInv, WhenVerifying
<1>12. ~Queued("connection_made") /\ ~Queued("starttls_made")
  BY <1>2, <1>3 DEF Made
<1>13. Types' /\ Scheduled'
  BY <1>1, <1>3, <1>11, <1>12 DEF IInv, Types, Scheduled
<1>14. WhenClosed' /\ WhenHandshaking'
  BY <1>1, <1>3, <1>10 DEF IInv, WhenClosed, WhenHandshaking
<1>15. WhenVerifying'
  BY <1>1, <1>3, <1>4, <1>9, <1>11, <1>12 DEF IInv, WhenVerifying
<1>16. Told'
  BY <1>1, <1>2, <1>3, <1>12 DEF IInv, Told, TlsStarted
<1>17. Settling' /\ Draining'
  BY <1>1, <1>3, <1>4, <1>6, <1>9 DEF IInv, Settling, Draining
<1>18. SecureOnReturn' /\ ShutdownAfterDrain'
  BY <1>1 DEF IInv, SecureOnReturn, ShutdownAfterDrain, TlsStarted
<1> QED
  BY <1>9, <1>13, <1>14, <1>15, <1>16, <1>17, <1>18 DEF IInv

\* Nothing of a callback is left when the loop does something else.
LEMMA Quiet ==
  ASSUME IInv, stack = <<>>, stack' = stack
  PROVE  /\ Nested' /\ (\A f : ~Running(f)') /\ (\A f : ~Contains(stack', f))
         /\ stack' = <<>>
BY Emptied

LEMMA RunMadeStep ==
  ASSUME IInv, RunMade
  PROVE  IInv'
<1>1. UNCHANGED <<state, stack, waiter, aborted, data, buffer, closing, rww, wwr, post,
                  tlsConn, cleaned>>
  BY DEF RunMade, core
<1>2. PICK h \in Made :
        /\ Runs(h)
        /\ phase' = IF h = "connection_made" /\ useStarttls THEN "plain" ELSE "secure"
  BY DEF RunMade, Made
<1>3. /\ stack = <<>> /\ Queued(h) /\ Orderly(ready)'
      /\ \A g : Queued(g)' <=> Queued(g) /\ g # h
      /\ \A g \in Made : Queued(g) => g = h
      /\ reader' = reader /\ writer' = writer /\ useStarttls' = useStarttls
  BY <1>2, Handled
<1>4. /\ Nested' /\ (\A f : ~Running(f)') /\ (\A f : ~Contains(stack', f))
      /\ stack' = <<>>
  BY <1>1, <1>3, Quiet
<1>5. ~Queued("connection_made")' /\ ~Queued("starttls_made")'
  BY <1>3 DEF Made
<1>6. /\ h = "connection_made" => phase = "connecting"
      /\ h = "starttls_made" => phase = "plain" /\ useStarttls
      /\ h \in {"connection_made", "starttls_made"}
  BY <1>2, <1>3 DEF IInv, Scheduled, Made
<1>7. phase' \in {"plain", "secure"} /\ phase \in {"connecting", "plain"}
  BY <1>2, <1>6
<1>8. /\ state # "tls_handshaking" /\ ~cleaned
      /\ h = "starttls_made" => state \notin {"raw_open", "raw_eof"}
  BY <1>3, <1>6, <1>7 DEF IInv, WhenHandshaking, WhenClosed, Told
<1>9. post # "running" /\ ~Queued("post_ok") /\ ~Queued("post_failed")
  BY <1>8 DEF IInv, WhenVerifying
<1>10. phase = "connecting" =>
         \/ state = IF useStarttls THEN "raw_open" ELSE "tls_open"
         \/ ~useStarttls /\ state = "closed"
  BY <1>8 DEF IInv, Told
<1>11. Types' /\ Scheduled'
  BY <1>1, <1>3, <1>5, <1>7, <1>9 DEF IInv, Types, Scheduled
<1>12. WhenClosed' /\ WhenHandshaking'
  <2>1. "connection_lost" \notin Made
    BY DEF Made
  <2>2. Queued("connection_lost")' <=> Queued("connection_lost")
    BY <1>3, <2>1
  <2> QED
    BY <1>1, <1>3, <1>4, <1>7, <1>8, <2>2 DEF IInv, WhenClosed, WhenHandshaking
<1>13. WhenVerifying'
  <2>1. post = "given" => phase' # "secure"
    BY <1>2, <1>3, <1>6 DEF IInv, WhenVerifying
  <2> QED
    BY <1>1, <1>3, <1>4, <1>5, <1>9, <2>1 DEF IInv, WhenVerifying
<1>14. Told'
  <2>1. state \in {"raw_open", "raw_eof"} => useStarttls /\ phase' = "plain"
    BY <1>2, <1>6, <1>8 DEF IInv, Told
  <2>2. Queued("waiter") =>
          waiter = "pending" /\ (TlsStarted(state) => phase' = "secure")
    BY <1>2, <1>6, <1>10 DEF IInv, Told, TlsStarted
  <2>3. Queued("waiter")' => Queued("waiter")
    BY <1>3
  <2> QED
    BY <1>1, <1>3, <1>5, <1>7, <2>1, <2>2, <2>3 DEF Told
<1>15. Settling' /\ Draining'
  BY <1>1, <1>3, <1>4 DEF IInv, Settling, Draining
<1>16. SecureOnReturn' /\ ShutdownAfterDrain'
  BY <1>1, <1>7 DEF IInv, SecureOnReturn, ShutdownAfterDrain, TlsStarted
<1> QED
  BY <1>4, <1>11, <1>12, <1>13, <1>14, <1>15, <1>16 DEF IInv

LEMMA RunWaiterStep ==
  ASSUME IInv, RunWaiter
  PROVE  IInv'
<1>1. /\ Runs("waiter")
      /\ waiter' = IF waiter = "pending" THEN "done" ELSE waiter
      /\ UNCHANGED <<state, stack, aborted, phase, data, buffer, closing, rww, wwr, post,
                     tlsConn, cleaned>>
  BY DEF RunWaiter, core
<1>2. /\ stack = <<>> /\ Queued("waiter") /\ Orderly(ready)'
      /\ \A g : Queued(g)' <=> Queued(g) /\ g # "waiter"
      /\ \A g \in Made : Queued(g) => g = "waiter"
      /\ reader' = reader /\ writer' = writer /\ useStarttls' = useStarttls
  BY <1>1, Handled
<1>3. /\ Nested' /\ (\A f : ~Running(f)') /\ (\A f : ~Contains(stack', f))
      /\ stack' = <<>>
  BY <1>1, <1>2, Quiet
<1>4. ~Queued("connection_made") /\ ~Queued("starttls_made")
  BY <1>2 DEF Made
<1>5. waiter' = "done" /\ (TlsStarted(state) => phase = "secure")
  BY <1>1, <1>2, <1>4 DEF IInv, Told
<1>6. Types' /\ Scheduled'
  BY <1>1, <1>2, <1>5 DEF IInv, Types, Scheduled
<1>7. WhenClosed' /\ WhenHandshaking' /\ WhenVerifying'
  BY <1>1, <1>2, <1>3 DEF IInv, WhenClosed, WhenHandshaking, WhenVerifying
<1>8. Told'
  BY <1>1, <1>2, <1>3, <1>4 DEF IInv, Told
<1>9. Settling' /\ Draining'
  BY <1>1, <1>2, <1>3 DEF IInv, Settling, Draining
<1>10. SecureOnReturn' /\ ShutdownAfterDrain'
  BY <1>1, <1>5 DEF IInv, SecureOnReturn, ShutdownAfterDrain, TlsStarted
<1> QED
  BY <1>3, <1>6, <1>7, <1>8, <1>9, <1>10 DEF IInv

LEMMA RunConnectionLostStep ==
  ASSUME IInv, RunConnectionLost
  PROVE  IInv'
<1>1. /\ Runs("connection_lost") /\ state' = "closed"
      /\ phase' = IF cleaned THEN phase ELSE "lost"
      /\ cleaned' = (cleaned \/ tlsConn) /\ tlsConn' = FALSE
      /\ UNCHANGED <<stack, waiter, aborted, data, buffer, closing, rww, wwr, post>>
  BY DEF RunConnectionLost
<1>2. /\ stack = <<>> /\ Queued("connection_lost") /\ Orderly(ready)'
      /\ \A g : Queued(g)' <=> Queued(g) /\ g # "connection_lost"
      /\ \A g \in Made : Queued(g) => g = "connection_lost"
      /\ reader' = reader /\ writer' = writer /\ useStarttls' = useStarttls
  BY <1>1, Handled
<1>3. /\ Nested' /\ (\A f : ~Running(f)') /\ (\A f : ~Contains(stack', f))
      /\ stack' = <<>>
  BY <1>1, <1>2, Quiet
<1>4. state = "closed" /\ phase # "lost" /\ ~cleaned /\ phase' = "lost"
  BY <1>1, <1>2 DEF IInv, WhenClosed
<1>5. ~Queued("connection_made") /\ ~Queued("starttls_made")
  BY <1>2 DEF Made
<1>6. post # "running" /\ ~Queued("post_ok") /\ ~Queued("post_failed")
  BY <1>4 DEF IInv, WhenVerifying
<1>7. cleaned' \in BOOLEAN
  BY <1>1 DEF IInv, Types
<1>8. Types' /\ Scheduled'
  <2>1. /\ state' \in States /\ phase' \in {"connecting", "plain", "secure", "lost"}
        /\ tlsConn' \in BOOLEAN
    BY <1>1, <1>4 DEF States
  <2>2. UNCHANGED <<waiter, aborted, data, buffer, closing, rww, wwr, post>>
    BY <1>1
  <2>3. Types'
    BY <1>2, <1>7, <2>1, <2>2 DEF IInv, Types
  <2>4. Scheduled'
    BY <1>2, <1>5, <2>2 DEF IInv, Scheduled
  <2> QED
    BY <2>3, <2>4
<1>9. WhenClosed' /\ WhenHandshaking' /\ WhenVerifying'
  BY <1>1, <1>2, <1>3, <1>4, <1>5, <1>6
     DEF IInv, WhenClosed, WhenHandshaking, WhenVerifying
<1>10. Told'
  BY <1>1, <1>2, <1>4 DEF IInv, Told, TlsStarted
<1>11. Settling' /\ Draining'
  BY <1>1, <1>2, <1>3, <1>4 DEF IInv, Settling, Draining
<1>12. SecureOnReturn' /\ ShutdownAfterDrain'
  BY <1>1 DEF SecureOnReturn, ShutdownAfterDrain, TlsStarted
<1> QED
  BY <1>3, <1>8, <1>9, <1>10, <1>11, <1>12 DEF IInv

\* The verdict of the post-handshake callback.
LEMMA RunPostDoneStep ==
  ASSUME IInv, RunPostDone
  PROVE  IInv'
<1>1. UNCHANGED <<state, waiter, aborted, phase, data, buffer, closing, rww, wwr, post,
                  tlsConn, cleaned>>
  BY DEF RunPostDone, app, core
<1>2. PICK h \in Verdicts :
        /\ Runs(h)
        /\ stack' = IF h = "post_ok" THEN <<"post_handshake">> ELSE <<"fatal", "fail_waiter">>
  BY DEF RunPostDone, Verdicts
<1>3. /\ stack = <<>> /\ Queued(h) /\ Orderly(ready)'
      /\ \A g : Queued(g)' <=> Queued(g) /\ g # h
      /\ \A g \in Made : Queued(g) => g = h
      /\ reader' = reader /\ writer' = writer /\ useStarttls' = useStarttls
  BY <1>2, Handled
<1>4. /\ post = "none" /\ state = "tls_handshaking" /\ reader = "none" /\ writer = "none"
      /\ ~Queued("post_ok")' /\ ~Queued("post_failed")'
  BY <1>2, <1>3 DEF IInv, Scheduled, WhenVerifying, Verdicts
<1>5. /\ ~Queued("waiter") /\ ~Queued("connection_made") /\ ~Queued("starttls_made")
      /\ ~Queued("connection_lost") /\ phase # "lost"
  BY <1>4 DEF IInv, WhenHandshaking, WhenClosed
<1>6. rww' \in BOOLEAN /\ wwr' \in BOOLEAN
  BY <1>1 DEF IInv, Types
<1>7. Nested' /\ ~Running("shutdown")'
  <2>1. CASE stack' = <<"post_handshake">>
    <3>1. "post_handshake" \in Parts
      BY DEF Parts
    <3>2. Nested' /\ \A g : Running(g)' <=> g = "post_handshake"
      BY <1>6, <2>1, <3>1, Begun
    <3> QED
      BY <3>2
  <2>2. CASE stack' = <<"fatal", "fail_waiter">>
    <3> DEFINE fs == <<"fatal", "fail_waiter">>
    <3>1. fs \in Seq(Parts) /\ Len(fs) = 2 /\ fs[1] = "fatal" /\ fs[2] = "fail_waiter"
      BY DEF Parts, Rest
    <3>2. \A i \in 2 .. Len(fs) : fs[i] \in Rest
      <4>1. \A i \in 2 .. Len(fs) : i = 2
        BY <3>1
      <4>2. fs[2] \in Rest
        BY <3>1 DEF Rest
      <4> QED
        BY <4>1, <4>2
    <3>3. stack' = fs
      BY <2>2
    <3> HIDE DEF fs
    <3>4. Layered(stack)' /\ Len(stack') = 2 /\ \A g : Running(g)' => g = "fatal"
      BY <3>1, <3>2, <3>3 DEF Layered, Running
    <3> QED
      BY <3>4 DEF Nested
  <2> QED
    BY <1>2, <2>1, <2>2
<1>8. Types' /\ Scheduled'
  BY <1>1, <1>3, <1>4, <1>5 DEF IInv, Types, Scheduled
<1>9. WhenClosed' /\ WhenHandshaking' /\ WhenVerifying'
  BY <1>1, <1>3, <1>4, <1>5 DEF IInv, WhenClosed, WhenHandshaking, WhenVerifying
<1>10. Told'
  BY <1>1, <1>3, <1>4, <1>5 DEF IInv, Told
<1>11. Settling' /\ Draining'
  BY <1>1, <1>3, <1>4, <1>5, <1>7 DEF IInv, Settling, Draining
<1>12. SecureOnReturn' /\ ShutdownAfterDrain'
  BY <1>1, <1>3 DEF IInv, SecureOnReturn, ShutdownAfterDrain, TlsStarted
<1> QED
  BY <1>7, <1>8, <1>9, <1>10, <1>11, <1>12 DEF IInv

\* What a step between callbacks schedules.
LEMMA Scheduling ==
  ASSUME IInv, NEW h \in Handles \ Made, ~Queued(h), ready' = Append(ready, h)
  PROVE  Orderly(ready)' /\ \A g : Queued(g)' <=> Queued(g) \/ g = h
<1>1. Orderly(ready) /\ ~Contains(ready, h)
  BY DEF IInv, Scheduled, Queued
<1>2. /\ Orderly(Append(ready, h))
      /\ \A g : Contains(Append(ready, h), g) <=> Contains(ready, g) \/ g = h
  BY <1>1, Called
<1> QED
  BY <1>2 DEF Queued, Orderly

LEMMA PostEndsStep ==
  ASSUME IInv, PostEnds
  PROVE  IInv'
<1>1. /\ stack = <<>> /\ post = "running" /\ post' = "none"
      /\ UNCHANGED <<useStarttls, state, stack, reader, writer, waiter, aborted, phase,
                     data, buffer, closing, rww, wwr, tlsConn, cleaned>>
  BY DEF PostEnds, Idle, app
<1>2. PICK h \in Verdicts : ready' = Append(ready, h)
  BY DEF PostEnds, Verdicts
<1>3. ~Queued("post_ok") /\ ~Queued("post_failed") /\ "given" \in PostModes /\ Careful
  BY <1>1 DEF IInv, Scheduled, WhenVerifying
<1>4. h \in {"post_ok", "post_failed"} /\ h \in Handles \ Made /\ ~Queued(h)
  BY <1>2, <1>3 DEF Handles, Verdicts, Made
<1>5. Orderly(ready)' /\ \A g : Queued(g)' <=> Queued(g) \/ g = h
  BY <1>2, <1>4, Scheduling
<1>6. /\ Nested' /\ (\A f : ~Running(f)') /\ (\A f : ~Contains(stack', f))
      /\ stack' = <<>>
  BY <1>1, Quiet
<1>7. Types' /\ Scheduled'
  BY <1>1, <1>3, <1>4, <1>5 DEF IInv, Types, Scheduled
<1>8. WhenClosed' /\ WhenHandshaking' /\ WhenVerifying'
  BY <1>1, <1>3, <1>4, <1>5, <1>6 DEF IInv, WhenClosed, WhenHandshaking, WhenVerifying
<1>9. Told'
  BY <1>1, <1>4, <1>5 DEF IInv, Told, TlsStarted
<1>10. Settling' /\ Draining'
  BY <1>1, <1>6 DEF IInv, Settling, Draining
<1>11. SecureOnReturn' /\ ShutdownAfterDrain'
  BY <1>1 DEF IInv, SecureOnReturn, ShutdownAfterDrain, TlsStarted
<1> QED
  BY <1>6, <1>7, <1>8, <1>9, <1>10, <1>11 DEF IInv

LEMMA PollStep ==
  ASSUME IInv, PollReader \/ PollWriter
  PROVE  IInv'
<1>1. /\ stack = <<>>
      /\ UNCHANGED <<useStarttls, state, stack, reader, writer, waiter, aborted, phase,
                     data, buffer, closing, rww, wwr, post, tlsConn, cleaned>>
  BY DEF PollReader, PollWriter, Idle, app, core
<1>2. PICK h \in {"reader", "writer"} :
        /\ ready' = Append(ready, h) /\ ~Queued(h)
        /\ h = "reader" => reader # "none"
        /\ h = "writer" => writer # "none"
  BY DEF PollReader, PollWriter, Queued
<1>3. h \in Handles \ Made
  BY DEF Handles, Made
<1>4. Orderly(ready)' /\ \A g : Queued(g)' <=> Queued(g) \/ g = h
  BY <1>2, <1>3, Scheduling
<1>5. /\ Nested' /\ (\A f : ~Running(f)') /\ (\A f : ~Contains(stack', f))
      /\ stack' = <<>>
  BY <1>1, Quiet
<1>6. Types' /\ Scheduled'
  BY <1>1, <1>2, <1>4 DEF IInv, Types, Scheduled
<1>7. WhenClosed' /\ WhenHandshaking' /\ WhenVerifying'
  BY <1>1, <1>4, <1>5 DEF IInv, WhenClosed, WhenHandshaking, WhenVerifying
<1>8. Told'
  BY <1>1, <1>4 DEF IInv, Told, TlsStarted
<1>9. Settling' /\ Draining'
  BY <1>1, <1>5 DEF IInv, Settling, Draining
<1>10. SecureOnReturn' /\ ShutdownAfterDrain'
  BY <1>1 DEF IInv, SecureOnReturn, ShutdownAfterDrain, TlsStarted
<1> QED
  BY <1>5, <1>6, <1>7, <1>8, <1>9, <1>10 DEF IInv

-----------------------------------------------------------------------------
(* The client's calls.                                                     *)

LEMMA WaiterReturnsStep ==
  ASSUME IInv, WaiterReturns \/ Abort
  PROVE  IInv'
<1>1. /\ stack = <<>>
      /\ \/ waiter' = waiter
         \/ waiter' = "none" /\ waiter # "pending"
      /\ aborted' = aborted \/ aborted' = TRUE
      /\ UNCHANGED <<useStarttls, state, stack, reader, writer, ready, phase,
                     data, buffer, closing, rww, wwr, post, tlsConn, cleaned>>
  BY DEF WaiterReturns, Abort, InUse, Idle, io, core
<1>2. aborted' \in BOOLEAN
  BY <1>1 DEF IInv, Types
<1>3. /\ Nested' /\ (\A f : ~Running(f)') /\ (\A f : ~Contains(stack', f))
      /\ stack' = <<>>
  BY <1>1, Quiet
<1>4. (\A h : Queued(h)' <=> Queued(h)) /\ Orderly(ready)'
  BY <1>1 DEF Queued, Orderly, IInv, Scheduled
<1>5. Types'
  BY <1>1, <1>2 DEF IInv, Types
<1>6. Scheduled'
  BY <1>1, <1>4 DEF IInv, Scheduled
<1>7. WhenClosed' /\ WhenHandshaking' /\ WhenVerifying'
  BY <1>1, <1>3, <1>4 DEF IInv, WhenClosed, WhenHandshaking, WhenVerifying
<1>8. Told'
  BY <1>1, <1>4 DEF IInv, Told, TlsStarted
<1>9. Settling' /\ Draining'
  BY <1>1, <1>3, <1>4 DEF IInv, Settling, Draining
<1>10. SecureOnReturn' /\ ShutdownAfterDrain'
  BY <1>1 DEF IInv, SecureOnReturn, ShutdownAfterDrain, TlsStarted
<1> QED
  BY <1>3, <1>5, <1>6, <1>7, <1>8, <1>9, <1>10 DEF IInv

\* starttls(): everything the transport had for the protocol was delivered.
LEMMA StarttlsStep ==
  ASSUME IInv, Starttls
  PROVE  IInv'
<1>1. /\ stack = <<>> /\ phase \in {"plain", "secure"} /\ waiter = "none"
      /\ state = "raw_open" /\ ~closing /\ waiter' = "pending"
      /\ state' = "tls_handshaking" /\ tlsConn' = TRUE /\ stack' = <<"handshake">>
      /\ UNCHANGED <<useStarttls, reader, writer, ready, aborted, phase, data, buffer,
                     closing, rww, wwr, post, cleaned>>
  BY DEF Starttls, InUse, Idle, io
<1>2. rww' \in BOOLEAN /\ wwr' \in BOOLEAN /\ "handshake" \in Parts
  BY <1>1 DEF IInv, Types, Parts
<1>3. /\ Nested' /\ stack' # <<>>
      /\ \A g : Running(g)' <=> g = "handshake"
      /\ \A g : Contains(stack', g) <=> g = "handshake"
  BY <1>1, <1>2, Begun
<1>4. /\ phase = "plain" /\ useStarttls /\ ~Queued("starttls_made")
      /\ ~Queued("connection_made") /\ ~Queued("waiter") /\ ~Queued("connection_lost")
  BY <1>1 DEF IInv, Told, Scheduled, WhenClosed
<1>5. post # "running" /\ ~Queued("post_ok") /\ ~Queued("post_failed")
  BY <1>1 DEF IInv, WhenVerifying
<1>6. (\A h : Queued(h)' <=> Queued(h)) /\ Orderly(ready)'
  BY <1>1 DEF Queued, Orderly, IInv, Scheduled
<1>7. Types' /\ Scheduled'
  BY <1>1, <1>4, <1>6 DEF IInv, Types, Scheduled, States
<1>8. WhenClosed' /\ WhenHandshaking' /\ WhenVerifying'
  BY <1>1, <1>3, <1>4, <1>5, <1>6 DEF IInv, WhenClosed, WhenHandshaking, WhenVerifying
<1>9. Told'
  BY <1>1, <1>4, <1>6 DEF Told
<1>10. Settling' /\ Draining'
  BY <1>1, <1>3 DEF IInv, Settling, Draining
<1>11. SecureOnReturn' /\ ShutdownAfterDrain'
  BY <1>1 DEF SecureOnReturn, ShutdownAfterDrain
<1> QED
  BY <1>3, <1>7, <1>8, <1>9, <1>10, <1>11 DEF IInv

\* write(): nothing else than the first chunk installs the writer.
LEMMA WriteStep ==
  ASSUME IInv, Write
  PROVE  IInv'
<1> DEFINE w == IF buffer = 0 THEN "write_ready" ELSE writer
<1>1. /\ stack = <<>> /\ phase \in {"plain", "secure"} /\ Writable(state)
      /\ Careful => state # "tls_handshaking"
      /\ buffer < MaxBuffer /\ buffer' = buffer + 1 /\ Slots(reader, w, <<>>)
      /\ UNCHANGED <<useStarttls, state, stack, waiter, aborted, phase, data, closing,
                     rww, wwr, post, tlsConn, cleaned>>
  BY DEF Write, InUse, Idle, app
<1>2. Orderly(ready) /\ state \notin {"closed", "tls_shutting_down", "tls_shut_down"}
  BY <1>1 DEF IInv, Scheduled, Writable
<1>3. w \in {"write_ready", writer}
  OBVIOUS
<1> HIDE DEF w
<1>4. /\ reader' = reader /\ writer' = w /\ Orderly(ready)'
      /\ \A h : Queued(h)' <=> /\ Queued(h)
                               /\ h = "reader" => reader = reader
                               /\ h = "writer" => w = writer
  BY <1>1, <1>2, Reinstalled
<1>5. post # "running" /\ ~Queued("post_ok") /\ ~Queued("post_failed")
  BY <1>1 DEF IInv, WhenVerifying
<1>6. /\ Nested' /\ (\A f : ~Running(f)') /\ (\A f : ~Contains(stack', f))
      /\ stack' = <<>>
  BY <1>1, Quiet
<1>7. buffer' \in 0 .. MaxBuffer
  BY <1>1, TransportAssumption DEF IInv, Types
<1>8. Types' /\ Scheduled'
  BY <1>1, <1>3, <1>4, <1>5, <1>7 DEF IInv, Types, Scheduled
<1>9. WhenClosed' /\ WhenHandshaking' /\ WhenVerifying'
  BY <1>1, <1>2, <1>4, <1>5, <1>6 DEF IInv, WhenClosed, WhenHandshaking, WhenVerifying
<1>10. Told'
  BY <1>1, <1>4 DEF IInv, Told, TlsStarted
<1>11. Settling' /\ Draining'
  BY <1>1, <1>2, <1>3, <1>4, <1>6 DEF IInv, Settling, Draining
<1>12. SecureOnReturn' /\ ShutdownAfterDrain'
  BY <1>1, <1>2 DEF IInv, SecureOnReturn, ShutdownAfterDrain, TlsStarted
<1> QED
  BY <1>6, <1>8, <1>9, <1>10, <1>11, <1>12 DEF IInv

\* close(): with data to send it waits, unless the handshake is under way.
LEMMA CloseStep ==
  ASSUME IInv, Close
  PROVE  IInv'
<1>1. /\ stack = <<>> /\ phase \in {"plain", "secure"}
      /\ Careful => ~VerificationPending
      /\ state \notin {"closed", "tls_shutting_down"}
      /\ UNCHANGED <<useStarttls, state, reader, writer, ready, waiter, aborted, phase,
                     data, buffer, rww, wwr, post, tlsConn, cleaned>>
  BY DEF Close, InUse, Idle, io, app
<1>2. post # "running" /\ ~Queued("post_ok") /\ ~Queued("post_failed")
  BY <1>1 DEF IInv, WhenVerifying, VerificationPending, Queued
<1>3. /\ closing' \in BOOLEAN
      /\ state = "tls_handshaking" => closing' = closing
      /\ \/ stack' = <<>>
         \/ \E f \in {"fatal", "raw_shutdown"} : stack' = <<f>>
         \/ /\ stack' = <<"shutdown">> /\ ~(buffer > 0)
            /\ state # "tls_handshaking" /\ TlsStarted(state)
  <2>1. closing \in BOOLEAN
    BY DEF IInv, Types
  <2>2. CASE state # "tls_handshaking" /\ buffer > 0
    BY <1>1, <2>2 DEF Close
  <2>3. CASE ~(state # "tls_handshaking" /\ buffer > 0)
    <3>1. /\ closing' = closing
          /\ stack' = CASE state = "tls_handshaking" -> <<"fatal">>
                        [] state # "tls_handshaking" /\ TlsStarted(state)
                             -> <<"shutdown">>
                        [] OTHER -> <<"raw_shutdown">>
      BY <2>3 DEF Close
    <3>2. CASE state = "tls_handshaking"
      BY <2>1, <3>1, <3>2
    <3>3. CASE state # "tls_handshaking" /\ TlsStarted(state)
      BY <2>1, <2>3, <3>1, <3>3
    <3>4. CASE state # "tls_handshaking" /\ ~TlsStarted(state)
      BY <2>1, <3>1, <3>4
    <3> QED
      BY <3>2, <3>3, <3>4
  <2> QED
    BY <2>2, <2>3
<1>4. /\ Nested' /\ ~Running("post_handshake")' /\ ~Contains(stack', "fail_waiter")
      /\ Running("shutdown")' => buffer = 0 /\ state \in {"tls_open", "tls_shut_down"}
  <2>1. rww' \in BOOLEAN /\ wwr' \in BOOLEAN /\ buffer \in Nat
    BY <1>1 DEF IInv, Types
  <2>2. CASE stack' = <<>>
    BY <2>2, Emptied
  <2>3. ASSUME NEW f \in {"fatal", "raw_shutdown"}, stack' = <<f>>
        PROVE  /\ Nested' /\ ~Running("post_handshake")' /\ ~Running("shutdown")'
               /\ ~Contains(stack', "fail_waiter")
    <3>1. f \in Parts
      BY DEF Parts
    <3>2. /\ Nested' /\ \A g : Running(g)' <=> g = f
          /\ \A g : Contains(stack', g) <=> g = f
      BY <2>1, <2>3, <3>1, Begun
    <3> QED
      BY <3>2
  <2>4. CASE /\ stack' = <<"shutdown">> /\ ~(buffer > 0)
             /\ state # "tls_handshaking" /\ TlsStarted(state)
    <3>1. "shutdown" \in Parts
      BY DEF Parts
    <3>2. /\ Nested' /\ \A g : Running(g)' <=> g = "shutdown"
          /\ \A g : Contains(stack', g) <=> g = "shutdown"
      BY <2>1, <2>4, <3>1, Begun
    <3>3. buffer = 0 /\ state \in {"tls_open", "tls_shut_down"}
      BY <1>1, <2>1, <2>4 DEF TlsStarted
    <3> QED
      BY <3>2, <3>3
  <2> QED
    BY <1>3, <2>2, <2>3, <2>4
<1>5. (\A h : Queued(h)' <=> Queued(h)) /\ Orderly(ready)'
  BY <1>1 DEF Queued, Orderly, IInv, Scheduled
<1>6. Types' /\ Scheduled'
  BY <1>1, <1>3, <1>5 DEF IInv, Types, Scheduled
<1>7. WhenClosed' /\ WhenHandshaking' /\ WhenVerifying'
  BY <1>1, <1>2, <1>3, <1>4, <1>5 DEF IInv, WhenClosed, WhenHandshaking, WhenVerifying
<1>8. Told'
  BY <1>1, <1>5 DEF IInv, Told, TlsStarted
<1>9. Settling' /\ Draining'
  BY <1>1, <1>4 DEF IInv, Settling, Draining
<1>10. SecureOnReturn' /\ ShutdownAfterDrain'
  BY <1>1 DEF IInv, SecureOnReturn, ShutdownAfterDrain, TlsStarted
<1> QED
  BY <1>4, <1>6, <1>7, <1>8, <1>9, <1>10 DEF IInv

-----------------------------------------------------------------------------
(* The invariant.                                                          *)

\* A transport begins as one that has something to tell the protocol, or with
\* the handshake.
LEMMA IInvInit ==
  ASSUME Init
  PROVE  IInv
<1>1. /\ buffer = 0 /\ closing = FALSE /\ rww = FALSE /\ wwr = FALSE
      /\ writer = "none" /\ cleaned = FALSE /\ aborted = FALSE
      /\ waiter = "pending" /\ phase = "connecting" /\ data = "none"
      /\ useStarttls \in StarttlsModes /\ post \in PostModes /\ tlsConn = ~useStarttls
  BY DEF Init
<1>2. /\ useStarttls \in BOOLEAN /\ post \in {"none", "given"}
      /\ post = "given" => "given" \in PostModes
  BY <1>1, TransportAssumption
<1>3. /\ tlsConn \in BOOLEAN /\ closing \in BOOLEAN /\ rww \in BOOLEAN /\ wwr \in BOOLEAN
      /\ cleaned \in BOOLEAN /\ aborted \in BOOLEAN /\ buffer \in 0 .. MaxBuffer
  <2>1. tlsConn \in BOOLEAN
    BY <1>1
  <2>2. /\ closing \in BOOLEAN /\ rww \in BOOLEAN /\ wwr \in BOOLEAN
        /\ cleaned \in BOOLEAN /\ aborted \in BOOLEAN
    BY <1>1
  <2>3. buffer \in 0 .. MaxBuffer
    BY <1>1, TransportAssumption
  <2> QED
    BY <2>1, <2>2, <2>3
<1>4. CASE useStarttls
  <2>1. /\ state = "raw_open" /\ reader = "read_ready" /\ stack = <<>>
        /\ ready = <<"connection_made", "waiter">>
    BY <1>4 DEF Init
  <2>2. /\ Orderly(ready) /\ \A h : Queued(h) <=> h \in {"connection_made", "waiter"}
    <3>1. /\ ready \in Seq(Handles) /\ Len(ready) = 2
          /\ ready[1] = "connection_made" /\ ready[2] = "waiter"
      BY <2>1 DEF Handles, Made
    <3>2. \A i \in 1 .. Len(ready) : i = 1 \/ i = 2
      BY <3>1
    <3>3. 1 \in 1 .. Len(ready) /\ 2 \in 1 .. Len(ready)
      BY <3>1
    <3>4. Orderly(ready)
      BY <3>1, <3>2 DEF Orderly, Made
    <3>5. \A h : Queued(h) <=> h \in {"connection_made", "waiter"}
      BY <3>1, <3>2, <3>3 DEF Queued, Contains
    <3> QED
      BY <3>4, <3>5
  <2>3. Layered(stack) /\ (\A f : ~Running(f)) /\ \A f : ~Contains(stack, f)
    BY <2>1 DEF Layered, Running, Contains
  <2>4. Nested
    BY <2>1, <2>3 DEF Nested
  <2>5. Types /\ Scheduled
    BY <1>1, <1>2, <1>3, <2>1, <2>2 DEF Types, Scheduled, States
  <2>6. WhenClosed /\ WhenHandshaking
    BY <1>1, <2>1, <2>2 DEF WhenClosed, WhenHandshaking
  <2>7. WhenVerifying
    BY <1>1, <1>2, <1>4, <2>1, <2>2, <2>3 DEF WhenVerifying
  <2>8. Told
    BY <1>1, <1>4, <2>1, <2>2 DEF Told, TlsStarted
  <2>9. Settling /\ Draining
    BY <1>1, <2>1, <2>3 DEF Settling, Draining
  <2>10. SecureOnReturn /\ ShutdownAfterDrain
    BY <1>1 DEF SecureOnReturn, ShutdownAfterDrain
  <2> QED
    BY <2>4, <2>5, <2>6, <2>7, <2>8, <2>9, <2>10 DEF IInv
<1>5. CASE ~useStarttls
  <2>1. /\ state = "tls_handshaking" /\ reader = "none" /\ stack = <<"handshake">>
        /\ ready = <<>>
    BY <1>5 DEF Init
  <2>2. Orderly(ready) /\ \A h : ~Queued(h)
    BY <2>1 DEF Orderly, Queued, Contains
  <2>3. /\ Len(stack) = 1 /\ stack[1] = "handshake" /\ stack # <<>> /\ stack \in Seq(Parts)
    BY <2>1 DEF Parts
  <2>4. /\ Layered(stack) /\ (\A f : Running(f) => f = "handshake")
        /\ \A f : Contains(stack, f) => f = "handshake"
    BY <2>3 DEF Layered, Running, Contains
  <2>5. Nested
    BY <2>3, <2>4 DEF Nested
  <2>6. Types /\ Scheduled
    BY <1>1, <1>2, <1>3, <2>1, <2>2 DEF Types, Scheduled, States
  <2>7. WhenClosed /\ WhenHandshaking
    BY <1>1, <1>5, <2>1, <2>2 DEF WhenClosed, WhenHandshaking
  <2>8. WhenVerifying
    BY <1>1, <1>2, <2>2, <2>4 DEF WhenVerifying
  <2>9. Told
    BY <1>1, <1>5, <2>1, <2>2 DEF Told
  <2>10. Settling /\ Draining
    BY <1>1, <2>1, <2>4 DEF Settling, Draining
  <2>11. SecureOnReturn /\ ShutdownAfterDrain
    BY <1>1 DEF SecureOnReturn, ShutdownAfterDrain
  <2> QED
    BY <2>5, <2>6, <2>7, <2>8, <2>9, <2>10, <2>11 DEF IInv
<1> QED
  BY <1>4, <1>5

LEMMA IInvStep ==
  ASSUME IInv, Safe, [Next]_vars
  PROVE  IInv'
<1>1. CASE Loop
  BY <1>1, RunSlotStep, RunMadeStep, RunWaiterStep, RunConnectionLostStep, RunPostDoneStep
     DEF Loop
<1>2. CASE Callback
  BY <1>2, ForceCloseStep, FailWaiterStep, HandshakeWaitsStep, HandshakeFailsStep,
     HandshakeDoneStep, TlsPostHandshakeStep, TlsShutdownStep, RawShutdownStep,
     ReadReadyStep, MoreStep, RecvStep, RecvRaisesStep, RecvWantsWriteStep, FailsStep, RecvEofStep,
     WriteReadyStep, SendWantsReadStep, SentStep
     DEF Callback
<1>3. CASE PollReader \/ PollWriter \/ PostEnds
  BY <1>3, PollStep, PostEndsStep
<1>4. CASE Client
  BY <1>4, WaiterReturnsStep, StarttlsStep, WriteStep, CloseStep DEF Client
<1>5. CASE UNCHANGED vars
  <2>1. UNCHANGED <<useStarttls, state, buffer, closing, rww, wwr, reader, writer, ready,
                    stack, post, tlsConn, cleaned, waiter, aborted, phase, data>>
    BY <1>5 DEF vars, io, app, core
  <2>2. (\A h : Queued(h)' <=> Queued(h)) /\ (\A f : Running(f)' <=> Running(f))
    BY <2>1 DEF Queued, Running
  <2>3. Orderly(ready)' /\ Nested'
    BY <2>1, <2>2 DEF IInv, Scheduled, Orderly, Nested, Layered, Weight
  <2>4. Types' /\ Scheduled'
    BY <2>1, <2>2, <2>3 DEF IInv, Types, Scheduled
  <2>5. WhenClosed' /\ WhenHandshaking' /\ WhenVerifying'
    BY <2>1, <2>2 DEF IInv, WhenClosed, WhenHandshaking, WhenVerifying
  <2>6. Told' /\ Settling' /\ Draining'
    BY <2>1, <2>2 DEF IInv, Told, Settling, Draining
  <2>7. SecureOnReturn' /\ ShutdownAfterDrain'
    BY <2>1 DEF IInv, SecureOnReturn, ShutdownAfterDrain
  <2> QED
    BY <2>3, <2>4, <2>5, <2>6, <2>7 DEF IInv
<1> QED
  BY <1>1, <1>2, <1>3, <1>4, <1>5 DEF Next

\* IInv is inductive.
LEMMA Inductive == ASSUME Safe PROVE Spec => []IInv
<1>1. Init => IInv
  BY IInvInit
<1>2. IInv /\ [Next]_vars => IInv'
  BY IInvStep
<1> QED
  BY <1>1, <1>2, PTL DEF Spec

-----------------------------------------------------------------------------
(* Theorems.                                                               *)

\* The loop never holds more of a transport than its two slots, one piece of
\* news, one verdict, the future and the loss: what is scheduled is scheduled
\* once (loop.call_soon in ssl_transport.py).
LEMMA QueueIsShort ==
  ASSUME IInv
  PROVE  Len(ready) <= 6
<1> DEFINE news    == IF Queued("starttls_made") THEN "starttls_made" ELSE "connection_made"
           verdict == IF Queued("post_ok") THEN "post_ok" ELSE "post_failed"
           T       == {news, verdict, "waiter", "reader", "writer", "connection_lost"}
<1>1. Orderly(ready) /\ ready \in Seq(Handles) /\ Len(ready) \in Nat
  BY LenProperties DEF IInv, Scheduled, Orderly
<1>2. \A i \in 1 .. Len(ready) : ready[i] \in T
  <2> TAKE i \in 1 .. Len(ready)
  <2>1. ready[i] \in Handles /\ Queued(ready[i])
    BY <1>1, ElementOfSeq DEF Queued, Contains
  <2>2. ready[i] = "connection_made" => news = "connection_made"
    BY <2>1 DEF IInv, Scheduled
  <2>3. ready[i] = "starttls_made" => news = "starttls_made"
    BY <2>1
  <2>4. ready[i] \in Verdicts => verdict = ready[i]
    BY <2>1 DEF IInv, Scheduled, Verdicts
  <2> QED
    BY <2>1, <2>2, <2>3, <2>4 DEF Handles, Made, Verdicts
<1>3. IsFiniteSet(T) /\ Cardinality(T) <= 6
  <2> HIDE DEF news, verdict
  <2> DEFINE A == {news}
             B == A \cup {verdict}
             C == B \cup {"waiter"}
             D == C \cup {"reader"}
             E == D \cup {"writer"}
             F == E \cup {"connection_lost"}
  <2>1. IsFiniteSet(A) /\ Cardinality(A) \in Nat /\ Cardinality(A) <= 1
    <3>1. IsFiniteSet(A) /\ Cardinality(A) = 1
      BY FS_Singleton
    <3> QED
      BY <3>1
  <2> HIDE DEF A
  <2>2. IsFiniteSet(B) /\ Cardinality(B) \in Nat /\ Cardinality(B) <= 2
    BY <2>1, FS_AddElement
  <2> HIDE DEF B
  <2>3. IsFiniteSet(C) /\ Cardinality(C) \in Nat /\ Cardinality(C) <= 3
    BY <2>2, FS_AddElement
  <2> HIDE DEF C
  <2>4. IsFiniteSet(D) /\ Cardinality(D) \in Nat /\ Cardinality(D) <= 4
    BY <2>3, FS_AddElement
  <2> HIDE DEF D
  <2>5. IsFiniteSet(E) /\ Cardinality(E) \in Nat /\ Cardinality(E) <= 5
    BY <2>4, FS_AddElement
  <2> HIDE DEF E
  <2>6. IsFiniteSet(F) /\ Cardinality(F) \in Nat /\ Cardinality(F) <= 6
    BY <2>5, FS_AddElement
  <2>7. F = T
    BY DEF A, B, C, D, E
  <2> QED
    BY <2>6, <2>7
<1> HIDE DEF T
<1>4. ready \in Injection(1 .. Len(ready), T)
  <2>1. ready \in [1 .. Len(ready) -> T]
    BY <1>1, <1>2
  <2> QED
    BY <1>1, <2>1 DEF Injection, IsInjective, Orderly
<1>5. Cardinality(1 .. Len(ready)) <= Cardinality(T)
  BY <1>3, <1>4, FS_Injection
<1>6. Cardinality(1 .. Len(ready)) = Len(ready)
  <2>1. 1 \in Int /\ Len(ready) \in Int
    BY <1>1
  <2>2. Cardinality(1 .. Len(ready)) = IF 1 > Len(ready) THEN 0 ELSE Len(ready) - 1 + 1
    BY <2>1, FS_Interval
  <2> QED
    BY <1>1, <2>2
<1>7. Cardinality(T) \in Nat
  BY <1>3, FS_CardinalityType
<1> QED
  BY <1>1, <1>3, <1>5, <1>6, <1>7

\* The history of exceptions only grows.
LEMMA RaisedStays ==
  ASSUME [Next]_vars
  PROVE  /\ raised => raised'
         /\ raised \in BOOLEAN => raised' \in BOOLEAN
<1>1. raised' = raised \/ raised' = TRUE \/ raised' = (raised \/ Tail(stack) # <<>>)
  <2>1. CASE Loop
    BY <2>1 DEF Loop, RunSlot, RunMade, RunWaiter, RunConnectionLost, RunPostDone, app
  <2>2. CASE Callback
    BY <2>2 DEF Callback, ForceClose, FailWaiter, HandshakeWaits, HandshakeFails,
       HandshakeDone, TlsPostHandshake, TlsShutdown, RawShutdown, ReadReady, MoreToWrite,
       RecvNothing, RecvData, RecvRaises, RecvWantsWrite, RecvFails, RecvEof, WriteReady,
       MoreToRead, Send, SendWantsRead, SendFails, Sent, app
  <2>3. CASE PollReader \/ PollWriter \/ PostEnds \/ Client
    BY <2>3 DEF PollReader, PollWriter, PostEnds, Client, WaiterReturns, Starttls, Write,
       Close, Abort, app
  <2>4. CASE UNCHANGED vars
    BY <2>4 DEF vars, app
  <2> QED
    BY <2>1, <2>2, <2>3, <2>4 DEF Next
<1>2. CASE raised' = raised
  BY <1>2
<1>3. CASE raised' = TRUE
  BY <1>3
<1>4. CASE raised' = (raised \/ Tail(stack) # <<>>)
  BY <1>4
<1> QED
  BY <1>1, <1>2, <1>3, <1>4

\* Every variable keeps its type, and neither the loop's queue nor the callbacks
\* that call each other grow without bound (ssl_transport.py, _read_ready and
\* _write_ready).
THEOREM TransportTypeCorrect == ASSUME Safe PROVE Spec => []TypeOK
<1> DEFINE R == raised \in BOOLEAN
<1>1. IInv /\ R => TypeOK
  <2> HAVE IInv /\ R
  <2>1. Len(ready) <= 6 /\ Len(stack) <= 5
    BY QueueIsShort DEF IInv, Nested
  <2>2. {closing, rww, wwr, tlsConn, cleaned, aborted, raised} \subseteq BOOLEAN
    BY DEF IInv, Types
  <2> QED
    BY <2>1, <2>2 DEF IInv, Types, TypeOK
<1>2. Init => R
  BY DEF Init
<1>3. R /\ [Next]_vars => R'
  BY RaisedStays
<1> HIDE DEF R
<1> QED
  BY <1>1, <1>2, <1>3, Inductive, PTL DEF Spec

\* Every close is reported to the protocol exactly once (_force_close,
\* _call_connection_lost_and_clean_up).
THEOREM TransportLossIsReported == ASSUME Safe PROVE Spec => []LossIsReported
<1>1. IInv => LossIsReported
  <2> HAVE IInv
  <2> DEFINE where == {i \in DOMAIN ready : ready[i] = "connection_lost"}
  <2>1. /\ ready \in Seq(Handles) /\ DOMAIN ready = 1 .. Len(ready)
        /\ \A i, j \in 1 .. Len(ready) : ready[i] = ready[j] => i = j
    BY LenProperties DEF IInv, Scheduled, Orderly
  <2>2. ASSUME ~Queued("connection_lost")
        PROVE  Cardinality(where) = 0
    <3>1. where = {}
      BY <2>1, <2>2 DEF Queued, Contains
    <3> QED
      BY <3>1, FS_EmptySet
  <2>3. ASSUME Queued("connection_lost")
        PROVE  Cardinality(where) = 1
    <3>1. PICK i \in 1 .. Len(ready) : ready[i] = "connection_lost"
      BY <2>3 DEF Queued, Contains
    <3>2. where = {i}
      BY <2>1, <3>1
    <3> QED
      BY <3>2, FS_Singleton
  <2>4. state = "closed" => (phase = "lost" <=> ~Queued("connection_lost"))
    BY DEF IInv, WhenClosed
  <2> HIDE DEF where
  <2>5. state = "closed" =>
          IF phase = "lost" THEN Cardinality(where) = 0 ELSE Cardinality(where) = 1
    BY <2>2, <2>3, <2>4
  <2> QED
    BY <2>5 DEF LossIsReported, where
<1> QED
  BY <1>1, Inductive, PTL

\* starttls() returns only to a protocol that was told it is secure
\* (_tls_post_handshake schedules starttls_made before the future).
THEOREM TransportSecureOnReturn == ASSUME Safe PROVE Spec => []SecureOnReturn
<1>1. IInv => SecureOnReturn
  BY DEF IInv
<1> QED
  BY <1>1, Inductive, PTL

\* The TLS shutdown finds the buffer empty (close, _write_ready).
THEOREM TransportShutdownAfterDrain == ASSUME Safe PROVE Spec => []ShutdownAfterDrain
<1>1. IInv => ShutdownAfterDrain
  BY DEF IInv
<1> QED
  BY <1>1, Inductive, PTL

\* The protocol takes no connection for secure that the post-handshake callback
\* has still to accept (_tls_do_handshake).
THEOREM TransportVerifiedFirst == ASSUME Safe PROVE Spec => []VerifiedFirst
<1>1. IInv => VerifiedFirst
  <2> HAVE IInv
  <2>1. post = "given" => phase # "secure"
    BY DEF IInv, WhenVerifying
  <2>2. state = "tls_handshaking" => phase # "secure"
    BY DEF IInv, WhenHandshaking
  <2>3. VerificationPending => state = "tls_handshaking"
    BY DEF VerificationPending, Queued, IInv, WhenVerifying
  <2>4. Contains(stack, "post_handshake") => state = "tls_handshaking"
    <3> HAVE Contains(stack, "post_handshake")
    <3>1. PICK i \in 1 .. Len(stack) : stack[i] = "post_handshake"
      BY DEF Contains
    <3>2. Layered(stack)
      BY DEF IInv, Nested
    <3>3. Len(stack) \in Nat
      BY <3>2, LenProperties DEF Layered
    <3>4. i \notin 2 .. Len(stack)
      BY <3>1, <3>2 DEF Layered, Rest
    <3>5. i = 1
      BY <3>1, <3>3, <3>4
    <3>6. stack # <<>>
      BY <3>1, <3>5
    <3> QED
      BY <3>1, <3>5, <3>6 DEF Running, IInv, WhenVerifying
  <2> QED
    BY <2>1, <2>2, <2>3, <2>4 DEF VerifiedFirst
<1> QED
  BY <1>1, Inductive, PTL

\* A transport that is closed stays closed, whatever its callbacks and the
\* client still do.
THEOREM TransportClosedIsFinal == ASSUME Safe PROVE Spec => ClosedIsFinal
<1>1. ASSUME IInv, [Next]_vars
      PROVE  [state = "closed" => state' = "closed"]_vars
  <2> SUFFICES ASSUME state = "closed"
               PROVE  state' = "closed"
    OBVIOUS
  <2>1. ~Part("post_handshake") /\ ~Part("shutdown")
    <3>1. ASSUME Part("post_handshake")
          PROVE  FALSE
      BY <1>1, <3>1, Runner DEF Rest
    <3>2. ASSUME Part("shutdown")
          PROVE  FALSE
      BY <1>1, <3>2, Runner DEF Rest
    <3> QED
      BY <3>1, <3>2
  <2>2. CASE Loop
    BY <2>2 DEF Loop, RunSlot, RunMade, RunWaiter, RunConnectionLost, RunPostDone
  <2>3. CASE Callback
    BY <2>1, <2>3 DEF Callback, ForceClose, FailWaiter, HandshakeWaits, HandshakeFails,
       HandshakeDone, TlsPostHandshake, TlsShutdown, RawShutdown, ReadReady, MoreToWrite,
       RecvNothing, RecvData, RecvRaises, RecvWantsWrite, RecvFails, RecvEof, WriteReady,
       MoreToRead, Send, SendWantsRead, SendFails, Sent
  <2>4. CASE PollReader \/ PollWriter \/ PostEnds \/ Client
    BY <2>4 DEF PollReader, PollWriter, PostEnds, Client, WaiterReturns, Starttls, Write,
       Close, Abort
  <2>5. CASE UNCHANGED vars
    BY <2>5 DEF vars
  <2> QED
    BY <1>1, <2>2, <2>3, <2>4, <2>5 DEF Next
<1> QED
  BY <1>1, Inductive, PTL DEF Spec, ClosedIsFinal

\* The transport keeps its promise to the protocol: connected once, secured at
\* most once and after that, lost once and finally, and given data only in
\* between.
THEOREM TransportKeepsContract == ASSUME Safe PROVE Spec => KeepsContract
<1>1. Init => Contract!Init
  BY DEF Init, Contract!Init
<1>2. ASSUME IInv, [Next]_vars
      PROVE  [Contract!Next]_<<phase, data>>
  <2>1. CASE RunMade
    <3>1. PICK h \in Made :
            /\ Runs(h)
            /\ phase' = IF h = "connection_made" /\ useStarttls THEN "plain" ELSE "secure"
      BY <2>1 DEF RunMade, Made
    <3>2. Queued(h) /\ data' = data
      BY <1>2, <2>1, <3>1, Handled DEF RunMade
    <3>3. \/ h = "connection_made" /\ phase = "connecting"
          \/ h = "starttls_made" /\ phase = "plain"
      BY <1>2, <3>1, <3>2 DEF IInv, Scheduled, Made
    <3> QED
      BY <3>1, <3>2, <3>3 DEF Contract!Next, Contract!ConnectionMade, Contract!StarttlsMade
  <2>2. CASE RunConnectionLost
    <3>1. Queued("connection_lost")
      BY <1>2, <2>2, Handled DEF RunConnectionLost
    <3>2. phase # "lost" /\ ~cleaned
      BY <1>2, <3>1 DEF IInv, WhenClosed
    <3> QED
      BY <2>2, <3>2 DEF RunConnectionLost, Contract!Next, Contract!ConnectionLost
  <2>3. CASE RecvData \/ RecvRaises
    <3>1. /\ stack # <<>> /\ state \notin {"closed", "tls_handshaking"}
          /\ data' = phase /\ phase' = phase
      BY <2>3 DEF RecvData, RecvRaises, Part, EofReceived
    <3>2. phase \in {"plain", "secure"}
      BY <1>2, <3>1 DEF IInv, Types, WhenClosed, Told
    <3> QED
      BY <3>1, <3>2 DEF Contract!Next, Contract!DataReceived
  <2>4. CASE ~RunMade /\ ~RunConnectionLost /\ ~RecvData /\ ~RecvRaises
    <3>1. UNCHANGED <<phase, data>>
      <4>1. CASE Loop
        BY <2>4, <4>1 DEF Loop, RunSlot, RunWaiter, RunPostDone, app
      <4>2. CASE Callback
        BY <2>4, <4>2 DEF Callback, ForceClose, FailWaiter, HandshakeWaits, HandshakeFails,
           HandshakeDone, TlsPostHandshake, TlsShutdown, RawShutdown, ReadReady, MoreToWrite,
           RecvNothing, RecvWantsWrite, RecvFails, RecvEof, WriteReady, MoreToRead,
           Send, SendWantsRead, SendFails, Sent, app
      <4>3. CASE PollReader \/ PollWriter \/ PostEnds \/ Client
        BY <4>3 DEF PollReader, PollWriter, PostEnds, Client, WaiterReturns, Starttls, Write,
           Close, Abort, app
      <4>4. CASE UNCHANGED vars
        BY <4>4 DEF vars, app
      <4> QED
        BY <1>2, <4>1, <4>2, <4>3, <4>4 DEF Next
    <3> QED
      BY <3>1
  <2> QED
    BY <2>1, <2>2, <2>3, <2>4
<1> QED
  BY <1>1, <1>2, Inductive, PTL DEF Spec, KeepsContract, Contract!Spec
-----------------------------------------------------------------------------
(* What is installed for data that waits, and for a handshake.             *)
(*                                                                         *)
(* The two crossed-readiness flags each lend a slot to the other side, and *)
(* the function that takes one back has a part left on the stack that      *)
(* installs what belongs there, unless an exception leaves the callback.   *)
(* Serving and Shaking are inductive above IInv for a careful client; TLC  *)
(* finds BufferIsServed false of any other.                                *)

\* Only TLS crosses reads and writes.
PlainIsPlain == state \in {"raw_open", "raw_eof"} => ~rww /\ ~wwr

\* A writer that has nothing to write is about to be removed.
WriterServes ==
  /\ writer = "handshake" => state = "tls_handshaking"
  /\ state = "raw_open" /\ writer = "write_ready" /\ buffer = 0 => Running("sent")

Leaving == Running("raw_shutdown") \/ Running("fatal")

\* ReaderIsServed and BufferIsServed, within a callback too.
Listening ==
  state \in {"raw_open", "tls_open"} /\ ~raised =>
    \/ reader = "read_ready" \/ (rww /\ writer = "write_ready")
    \/ Contains(stack, "more_to_read") \/ Leaving

Writing ==
  state \in {"raw_open", "raw_eof", "tls_open"} /\ buffer > 0 /\ ~raised =>
    \/ writer = "write_ready" \/ (wwr /\ reader = "read_ready")
    \/ Contains(stack, "more_to_write") \/ Leaving

Serving == PlainIsPlain /\ WriterServes /\ Listening /\ Writing

\* While a handshake is taken up, no callback of the transport is nested in
\* another, and no writer is there that would not be its own.
Alone ==
  /\ ~wwr /\ writer # "write_ready"
  /\ stack # <<>> =>
       /\ Len(stack) = 1
       /\ stack[1] \in {"handshake", "post_handshake", "read_ready", "recv", "fatal"}

Shaking ==
  state = "tls_handshaking" => buffer = 0 /\ (HandshakeServed => Alone)

\* What is below the part that runs stays, and so do the parts it becomes.
LEMMA Below ==
  ASSUME Layered(stack), stack # <<>>, NEW fs \in Seq(Parts), Becomes(fs)
  PROVE  /\ \A m : Contains(stack, m) /\ m # stack[1] => Contains(stack', m)
         /\ \A m : Contains(fs, m) => Contains(stack', m)
<1> DEFINE t == Tail(stack)
<1>1. stack \in Seq(Parts) /\ Len(stack) \in Nat /\ Len(stack) >= 1
  BY LenProperties, EmptySeq DEF Layered
<1>2. /\ t \in Seq(Parts) /\ Len(t) = Len(stack) - 1
      /\ \A i \in 1 .. Len(t) : t[i] = stack[i + 1]
  BY <1>1, HeadTailProperties
<1>3. stack' = fs \o t
  BY DEF Becomes
<1> HIDE DEF t
<1>4. Len(fs) \in Nat /\ Len(t) \in Nat
  BY <1>2, LenProperties
<1>5. /\ Len(stack') = Len(fs) + Len(t)
      /\ \A i \in 1 .. Len(fs) + Len(t) :
           stack'[i] = IF i <= Len(fs) THEN fs[i] ELSE t[i - Len(fs)]
  BY <1>2, <1>3, ConcatProperties
<1>6. ASSUME NEW m, Contains(stack, m), m # stack[1]
      PROVE  Contains(stack', m)
  <2>1. PICK i \in 1 .. Len(stack) : stack[i] = m
    BY <1>6 DEF Contains
  <2>2. i - 1 \in 1 .. Len(t) /\ t[i - 1] = m
    <3>1. i # 1
      BY <1>6, <2>1
    <3>2. i - 1 \in 1 .. Len(t) /\ (i - 1) + 1 = i
      BY <1>1, <1>2, <2>1, <3>1
    <3> QED
      BY <1>2, <2>1, <3>2
  <2> DEFINE k == Len(fs) + (i - 1)
  <2>3. k \in 1 .. Len(fs) + Len(t) /\ ~(k <= Len(fs)) /\ k - Len(fs) = i - 1
    BY <1>4, <2>2
  <2>4. stack'[k] = m
    BY <1>5, <2>2, <2>3
  <2> QED
    BY <1>5, <2>3, <2>4 DEF Contains
<1>7. ASSUME NEW m, Contains(fs, m)
      PROVE  Contains(stack', m)
  <2>1. PICK i \in 1 .. Len(fs) : fs[i] = m
    BY <1>7 DEF Contains
  <2>2. i \in 1 .. Len(fs) + Len(t) /\ stack'[i] = m
    BY <1>4, <1>5, <2>1
  <2> QED
    BY <1>5, <2>2 DEF Contains
<1> QED
  BY <1>6, <1>7

\* A part of a callback returns, or goes on to another.
LEMMA Runs1 ==
  ASSUME IInv, NEW f, Part(f)
  PROVE  /\ stack # <<>> /\ stack[1] = f /\ Nested /\ Layered(stack)
         /\ Becomes(<<>>) \/ (\E g \in Parts : Becomes(<<g>>)) =>
              \A m : m # f /\ Contains(stack, m) => Contains(stack', m)
         /\ \A g \in Parts : Becomes(<<g>>) => \A h : Running(h)' <=> h = g
         /\ \A g \in Parts : Becomes(<<g>>) => stack' # <<>> /\ stack'[1] = g
<1>1. Running(f) /\ stack # <<>> /\ Nested /\ Layered(stack) /\ stack[1] = f
  BY Runner DEF Nested, Running
<1>2. ASSUME Becomes(<<>>), NEW m, m # f, Contains(stack, m)
      PROVE  Contains(stack', m)
  <2>1. <<>> \in Seq(Parts)
    OBVIOUS
  <2> QED
    BY <1>1, <1>2, <2>1, Below
<1>3. ASSUME NEW g \in Parts, Becomes(<<g>>), NEW m, m # f, Contains(stack, m)
      PROVE  Contains(stack', m)
  <2>1. <<g>> \in Seq(Parts)
    OBVIOUS
  <2> QED
    BY <1>1, <1>3, <2>1, Below
<1>4. ASSUME NEW g \in Parts, Becomes(<<g>>)
      PROVE  (\A h : Running(h)' <=> h = g) /\ stack' # <<>> /\ stack'[1] = g
  <2>1. \A h : Running(h)' <=> h = g
    BY <1>1, <1>4, WentOn
  <2> QED
    BY <2>1 DEF Running
<1> QED
  BY <1>1, <1>2, <1>3, <1>4

\* A part that leaves the transport as it is, or calls what closes it.
LEMMA ServingReturns ==
  ASSUME IInv, Serving, FailWaiter \/ RecvNothing \/ RecvData \/ RecvFails \/ SendFails
  PROVE  Serving'
<1>1. PICK f \in {"fail_waiter", "recv", "send"} : Part(f)
  BY DEF FailWaiter, RecvNothing, RecvData, RecvFails, SendFails
<1>2. /\ Becomes(<<>>) \/ Becomes(<<"fatal">>)
      /\ UNCHANGED <<state, reader, writer, buffer, rww, wwr, raised>>
  BY DEF FailWaiter, RecvNothing, RecvData, RecvFails, SendFails, io, app, core
<1>3. "fatal" \in Parts
  BY DEF Parts
<1>4. /\ stack # <<>> /\ stack[1] = f
      /\ \A m : m # f /\ Contains(stack, m) => Contains(stack', m)
  BY <1>1, <1>2, <1>3, Runs1
<1>5. ~Leaving /\ ~Running("sent")
  BY <1>1, <1>4 DEF Leaving, Running
<1>6. PlainIsPlain'
  BY <1>2 DEF Serving, PlainIsPlain
<1>7. WriterServes'
  BY <1>2, <1>5 DEF Serving, WriterServes
<1>8. Listening' /\ Writing'
  BY <1>1, <1>2, <1>4, <1>5 DEF Serving, Listening, Writing
<1> QED
  BY <1>6, <1>7, <1>8 DEF Serving

\* An exception leaves the callback.  If no other part was waiting, nothing has
\* to be installed.
LEMMA ServingRaises ==
  ASSUME IInv, Serving, RecvRaises \/ (RawShutdown /\ stack' = <<>>)
  PROVE  Serving'
<1>1. /\ Part("recv") \/ raised'
      /\ UNCHANGED <<state, buffer, rww, wwr>>
      /\ \/ UNCHANGED <<reader, writer>>
         \/ reader' = "none" /\ writer' = "none"
      /\ raised' \/ (~raised /\ UNCHANGED <<reader, writer>>
                     /\ Part("recv") /\ Tail(stack) = <<>>)
  <2>1. CASE RecvRaises
    <3>1. raised' = (raised \/ Tail(stack) # <<>>)
      BY <2>1 DEF RecvRaises
    <3>2. CASE Tail(stack) = <<>>
      <4>1. CASE raised
        BY <2>1, <3>1, <4>1 DEF RecvRaises, io, core
      <4>2. CASE ~raised
        BY <2>1, <3>2, <4>2 DEF RecvRaises, io, core
      <4> QED
        BY <4>1, <4>2
    <3>3. CASE Tail(stack) # <<>>
      BY <2>1, <3>1, <3>3 DEF RecvRaises, io, core
    <3> QED
      BY <3>2, <3>3
  <2>2. CASE RawShutdown /\ stack' = <<>>
    <3>1. Part("raw_shutdown") /\ "fatal" \in Parts
      BY <2>2 DEF RawShutdown, Parts
    <3>2. ~Becomes(<<"fatal">>)
      BY <2>2, <3>1, Runs1
    <3> QED
      <4>1. raised' /\ reader' = "none" /\ writer' = "none"
        BY <2>2, <3>2 DEF RawShutdown, Slots
      <4> QED
        BY <2>2, <4>1 DEF RawShutdown, core
  <2> QED
    BY <2>1, <2>2
<1>2. PlainIsPlain'
  BY <1>1 DEF Serving, PlainIsPlain
<1>3. WriterServes'
  <2>1. CASE writer' = "none"
    BY <2>1 DEF WriterServes
  <2>2. CASE UNCHANGED <<reader, writer>> /\ RecvRaises
    <3>1. stack # <<>> /\ stack[1] = "recv"
      BY <2>2, Runs1 DEF RecvRaises
    <3>2. ~Running("sent")
      BY <3>1 DEF Running
    <3> QED
      BY <1>1, <2>2, <3>2 DEF Serving, WriterServes
  <2> QED
    BY <1>1, <2>1, <2>2 DEF RawShutdown, Slots
<1>4. CASE raised'
  BY <1>2, <1>3, <1>4 DEF Serving, Listening, Writing
<1>5. CASE ~raised'
  <2>1. /\ ~raised /\ UNCHANGED <<reader, writer>>
        /\ Part("recv") /\ Tail(stack) = <<>>
    BY <1>1, <1>5
  <2>2. stack # <<>> /\ stack[1] = "recv" /\ Layered(stack)
    BY <2>1, Runs1
  <2>3. Len(stack) = 1
    <3>1. stack \in Seq(Parts) /\ Len(stack) \in Nat /\ Len(stack) # 0
      BY <2>2, EmptySeq, LenProperties DEF Layered
    <3>2. ASSUME NEW t, t = Tail(stack)
          PROVE  Len(t) = Len(stack) - 1
      BY <3>1, <3>2, HeadTailProperties
    <3>3. Len(<<>>) = 0
      OBVIOUS
    <3>4. Len(stack) - 1 = 0
      BY <2>1, <3>2, <3>3
    <3> QED
      BY <3>1, <3>4
  <2>4. ~Contains(stack, "more_to_read") /\ ~Contains(stack, "more_to_write") /\ ~Leaving
    BY <2>2, <2>3 DEF Contains, Leaving, Running
  <2> QED
    BY <1>1, <1>2, <1>3, <2>1, <2>4 DEF Serving, Listening, Writing
<1> QED
  BY <1>4, <1>5

\* What is left of _read_ready and _write_ready installs what they took.
LEMMA ServingMore ==
  ASSUME IInv, Serving, MoreToWrite \/ MoreToRead
  PROVE  Serving'
<1>1. PICK f \in {"more_to_write", "more_to_read"} : Part(f)
  BY DEF MoreToWrite, MoreToRead
<1>2. /\ Becomes(<<>>)
      /\ UNCHANGED <<state, buffer, rww, wwr, raised>>
      /\ \/ /\ f = "more_to_write" /\ reader' = reader
            /\ writer' = IF buffer > 0 THEN "write_ready" ELSE writer
         \/ /\ f = "more_to_read" /\ writer' = writer
            /\ reader' = IF EofReceived(state) THEN reader ELSE "read_ready"
  BY <1>1 DEF MoreToWrite, MoreToRead, Slots, app, core, Part
<1>4. /\ stack # <<>> /\ stack[1] = f
      /\ \A m : m # f /\ Contains(stack, m) => Contains(stack', m)
  BY <1>1, <1>2, Runs1
<1>5. ~Leaving /\ ~Running("sent")
  BY <1>1, <1>4 DEF Leaving, Running
<1>6. PlainIsPlain'
  BY <1>2 DEF Serving, PlainIsPlain
<1>7. WriterServes'
  BY <1>2, <1>5 DEF Serving, WriterServes
<1>8. buffer \in Nat
  BY DEF IInv, Types
<1>9. Listening'
  BY <1>1, <1>2, <1>4, <1>5 DEF Serving, Listening, EofReceived
<1>10. Writing'
  BY <1>1, <1>2, <1>4, <1>5, <1>8 DEF Serving, Writing, EofReceived
<1> QED
  BY <1>6, <1>7, <1>9, <1>10 DEF Serving

\* A read that waits for the socket to be writable gives the reader away, and a
\* write that waits for it to be readable the writer.
LEMMA ServingCrosses ==
  ASSUME IInv, Serving, RecvWantsWrite \/ SendWantsRead
  PROVE  Serving'
<1>1. PICK f \in {"recv", "send"} : Part(f)
  BY DEF RecvWantsWrite, SendWantsRead
<1>2. /\ TlsStarted(state) /\ state' = state
      /\ \/ /\ rww' = TRUE /\ wwr' = wwr /\ reader' = "none" /\ writer' = "write_ready"
            /\ Becomes(<<>>)
         \/ /\ wwr' = TRUE /\ rww' = rww /\ reader' = "read_ready" /\ writer' = "none"
            /\ Becomes(<<"sent">>)
  BY DEF RecvWantsWrite, SendWantsRead, Slots
<1>3. state' \notin {"raw_open", "raw_eof"}
  BY <1>2 DEF TlsStarted
<1>4. PlainIsPlain' /\ WriterServes'
  BY <1>2, <1>3 DEF PlainIsPlain, WriterServes
<1>5. Listening' /\ Writing'
  BY <1>2 DEF Listening, Writing
<1> QED
  BY <1>4, <1>5 DEF Serving

LEMMA ServingReady ==
  ASSUME IInv, Serving, ReadReady \/ WriteReady
  PROVE  Serving'
<1>1. PICK f \in {"read_ready", "write_ready"} : Part(f)
  BY DEF ReadReady, WriteReady
<1> DEFINE a == <<"write_ready", "more_to_write", "recv">>
           b == <<"read_ready", "more_to_read", "send">>
<1>2. /\ UNCHANGED <<state, reader, writer, buffer, raised>>
      /\ \/ rww' = rww /\ wwr' = FALSE /\ Becomes(a)
         \/ wwr' = wwr /\ rww' = FALSE /\ Becomes(b)
         \/ rww' = rww /\ wwr' = wwr /\ \E g \in Parts : Becomes(<<g>>)
  <2>1. "recv" \in Parts /\ "send" \in Parts
    BY DEF Parts, Rest
  <2>2. CASE ReadReady
    BY <2>1, <2>2 DEF ReadReady, io, app
  <2>3. CASE WriteReady
    BY <2>1, <2>3 DEF WriteReady, io, app
  <2> QED
    BY <2>2, <2>3
<1>3. stack # <<>> /\ stack[1] = f /\ Layered(stack)
  BY <1>1, Runs1
<1>4. /\ \A m : m # f /\ Contains(stack, m) => Contains(stack', m)
      /\ Becomes(a) => Contains(stack', "more_to_write")
      /\ Becomes(b) => Contains(stack', "more_to_read")
  <2>1. a \in Seq(Parts) /\ Len(a) = 3 /\ a[2] = "more_to_write"
    BY DEF Parts, Rest
  <2>2. b \in Seq(Parts) /\ Len(b) = 3 /\ b[2] = "more_to_read"
    BY DEF Parts, Rest
  <2>3. Contains(a, "more_to_write") /\ Contains(b, "more_to_read")
    BY <2>1, <2>2 DEF Contains
  <2> HIDE DEF a, b
  <2>4. CASE Becomes(a)
    BY <1>2, <1>3, <2>1, <2>2, <2>3, <2>4, Below
  <2>5. CASE Becomes(b)
    BY <1>2, <1>3, <2>1, <2>2, <2>3, <2>5, Below
  <2>6. CASE ~Becomes(a) /\ ~Becomes(b)
    BY <1>1, <1>2, <2>6, Runs1
  <2> QED
    BY <2>4, <2>5, <2>6
<1> HIDE DEF a, b
<1>5. ~Leaving /\ ~Running("sent")
  BY <1>1, <1>3 DEF Leaving, Running
<1>6. PlainIsPlain'
  BY <1>2 DEF Serving, PlainIsPlain
<1>7. WriterServes'
  BY <1>2, <1>5 DEF Serving, WriterServes
<1>8. Listening'
  BY <1>1, <1>2, <1>4, <1>5 DEF Serving, Listening
<1>9. Writing'
  BY <1>1, <1>2, <1>4, <1>5 DEF Serving, Writing
<1> QED
  BY <1>6, <1>7, <1>8, <1>9 DEF Serving

LEMMA ServingSends ==
  ASSUME IInv, Serving, Send \/ Sent
  PROVE  Serving'
<1>1. PICK f \in {"send", "sent"} : Part(f) /\ (f = "send" <=> Send)
  <2>1. \A g, h : Part(g) /\ Part(h) => g = h
    BY DEF Part
  <2> QED
    BY <2>1 DEF Send, Sent
<1>2. /\ UNCHANGED <<state, reader, rww, wwr, raised>>
      /\ \/ /\ f = "send" /\ buffer' \in 0 .. buffer /\ writer' = writer
            /\ Becomes(<<"sent">>)
         \/ /\ f = "sent" /\ buffer' = buffer
            /\ writer' = IF buffer = 0 /\ ~rww THEN "none" ELSE writer
            /\ \/ Becomes(<<>>)
               \/ ~(buffer > 0) /\ \E g \in Parts : Becomes(<<g>>)
  <2>1. "shutdown" \in Parts /\ "raw_shutdown" \in Parts
    BY DEF Parts
  <2>2. CASE Send
    BY <1>1, <2>2 DEF Send, io, app
  <2>3. CASE Sent
    <3>1. f = "sent"
      BY <1>1, <2>3 DEF Sent, Send, Part
    <3>2. /\ UNCHANGED <<state, reader, rww, wwr, buffer, raised>>
          /\ writer' = IF buffer = 0 /\ ~rww THEN "none" ELSE writer
      BY <2>3 DEF Sent, Slots, app, core
    <3>3. \/ Becomes(<<>>)
          \/ ~(buffer > 0) /\ (Becomes(<<"shutdown">>) \/ Becomes(<<"raw_shutdown">>))
      <4>1. CASE buffer > 0 \/ ~closing
        BY <2>3, <4>1 DEF Sent
      <4>2. CASE ~(buffer > 0 \/ ~closing) /\ TlsStarted(state)
        BY <2>3, <4>2 DEF Sent
      <4>3. CASE ~(buffer > 0 \/ ~closing) /\ ~TlsStarted(state)
        BY <2>3, <4>3 DEF Sent
      <4> QED
        BY <4>1, <4>2, <4>3
    <3> QED
      BY <2>1, <3>1, <3>2, <3>3
  <2> QED
    BY <2>2, <2>3
<1>3. "sent" \in Parts
  BY DEF Parts
<1>4. /\ stack # <<>> /\ stack[1] = f
      /\ \A m : m # f /\ Contains(stack, m) => Contains(stack', m)
      /\ f = "send" => Running("sent")'
  BY <1>1, <1>2, <1>3, Runs1
<1>5. ~Leaving
  BY <1>1, <1>4 DEF Leaving, Running
<1>6. buffer \in Nat /\ buffer' \in Nat /\ buffer' <= buffer
  BY <1>2 DEF IInv, Types
<1>7. PlainIsPlain'
  BY <1>2 DEF Serving, PlainIsPlain
<1>8. WriterServes'
  BY <1>2, <1>4, <1>6 DEF Serving, WriterServes, PlainIsPlain
<1>9. Listening'
  BY <1>1, <1>2, <1>4, <1>5 DEF Serving, Listening
<1>10. Writing'
  BY <1>1, <1>2, <1>4, <1>5, <1>6 DEF Serving, Writing
<1> QED
  BY <1>7, <1>8, <1>9, <1>10 DEF Serving

\* The handshake installs its own callback, or none.
LEMMA ServingHandshake ==
  ASSUME HandshakeWaits \/ HandshakeFails \/ HandshakeDone
  PROVE  Serving'
<1>1. state' = "tls_handshaking"
  BY DEF HandshakeWaits, HandshakeFails, HandshakeDone
<1> QED
  BY <1>1 DEF Serving, PlainIsPlain, WriterServes, Listening, Writing

\* A transport that has left its open states has nothing to serve.
LEMMA ServingEnds ==
  ASSUME state' \in {"closed", "tls_shutting_down", "tls_shut_down"}, writer' # "handshake"
  PROVE  Serving'
BY DEF Serving, PlainIsPlain, WriterServes, Listening, Writing

LEMMA ServingCloses ==
  ASSUME IInv, Serving, Shaking,
         ForceClose \/ TlsPostHandshake \/ TlsShutdown \/ RawShutdown \/ RecvEof
  PROVE  Serving'
<1>1. CASE TlsShutdown
  <2>1. Running("shutdown")
    BY <1>1, Runner DEF TlsShutdown
  <2>2. writer # "handshake"
    BY <2>1 DEF IInv, Draining, Serving, WriterServes
  <2>3. /\ state' \in {"tls_shutting_down", "tls_shut_down"}
        /\ writer' \in {writer, "shutdown", "none"}
    BY <1>1 DEF TlsShutdown, Slots, io
  <2> QED
    BY <2>2, <2>3, ServingEnds
<1>2. CASE ForceClose
  <2>1. cleaned => state = "closed"
    BY DEF IInv, WhenClosed
  <2>2. state = "closed" => writer = "none"
    BY DEF IInv, WhenClosed
  <2>3. state' = "closed" /\ writer' = "none"
    BY <1>2, <2>1, <2>2 DEF ForceClose, Slots, io
  <2> QED
    BY <2>3, ServingEnds
<1>3. CASE RawShutdown
  <2>1. CASE stack' = <<>>
    BY <1>3, <2>1, ServingRaises
  <2>2. CASE stack' # <<>>
    <3>1. /\ Part("raw_shutdown") /\ Becomes(<<"fatal">>) /\ "fatal" \in Parts
          /\ writer' = "none" /\ UNCHANGED <<state, buffer, rww, wwr>>
      BY <1>3, <2>2 DEF RawShutdown, Raise, Slots, core, Parts
    <3>2. Running("fatal")'
      BY <3>1, Runs1
    <3> QED
      BY <3>1, <3>2
         DEF Serving, PlainIsPlain, WriterServes, Listening, Writing, Leaving
  <2> QED
    BY <2>1, <2>2
<1>4. CASE TlsPostHandshake
  <2>1. Running("post_handshake") /\ stack # <<>>
    BY <1>4, Runner DEF TlsPostHandshake
  <2>2. state = "tls_handshaking" /\ buffer = 0 /\ writer = "none"
    BY <2>1 DEF IInv, WhenVerifying, Shaking
  <2>3. ~cleaned
    BY <2>2 DEF IInv, WhenClosed
  <2>4. state' = "tls_open" /\ buffer' = 0 /\ reader' = "read_ready" /\ writer' = "none"
    BY <1>4, <2>2, <2>3 DEF TlsPostHandshake, Slots
  <2> QED
    BY <2>4 DEF Serving, PlainIsPlain, WriterServes, Listening, Writing
<1>5. CASE RecvEof
  <2>1. /\ Part("recv") /\ state = "raw_open" /\ reader' = "none" /\ writer' = writer
        /\ UNCHANGED <<buffer, rww, wwr, raised>>
        /\ \/ state' = "raw_eof" /\ Becomes(<<>>)
           \/ state' = "raw_open" /\ Becomes(<<"raw_shutdown">>)
    BY <1>5 DEF RecvEof, Slots, app, core
  <2>2. "raw_shutdown" \in Parts
    BY DEF Parts
  <2>3. /\ stack # <<>> /\ stack[1] = "recv"
        /\ Contains(stack, "more_to_write") => Contains(stack', "more_to_write")
        /\ state' = "raw_open" => Running("raw_shutdown")'
    BY <2>1, <2>2, Runs1
  <2>4. ~Leaving /\ ~Running("sent")
    BY <2>3 DEF Leaving, Running
  <2>5. PlainIsPlain'
    BY <2>1 DEF Serving, PlainIsPlain
  <2>6. WriterServes'
    BY <2>1, <2>4 DEF Serving, WriterServes
  <2>7. Listening' /\ Writing'
    BY <2>1, <2>3, <2>4 DEF Serving, PlainIsPlain, Listening, Writing, Leaving
  <2> QED
    BY <2>5, <2>6, <2>7 DEF Serving
<1> QED
  BY <1>1, <1>2, <1>3, <1>4, <1>5

\* The loop takes a callback up, or tells somebody something.
LEMMA ServingLoop ==
  ASSUME IInv, Serving, Loop
  PROVE  Serving'
<1>1. CASE RunConnectionLost
  <2>1. Queued("connection_lost") /\ writer' = writer /\ state' = "closed"
    BY <1>1, Handled DEF RunConnectionLost
  <2>2. writer = "none"
    BY <2>1 DEF IInv, WhenClosed
  <2> QED
    BY <2>1, <2>2, ServingEnds
<1>2. CASE ~RunConnectionLost
  <2>1. PICK h : Runs(h)
    BY <1>2 DEF Loop, RunSlot, RunMade, RunWaiter, RunPostDone
  <2>2. /\ stack = <<>> /\ reader' = reader /\ writer' = writer
        /\ UNCHANGED <<state, buffer, rww, wwr, raised>>
    BY <1>2, <2>1, Handled DEF Loop, RunSlot, RunMade, RunWaiter, RunPostDone, app, core
  <2>3. (\A m : ~Contains(stack, m)) /\ ~Leaving /\ ~Running("sent")
    BY <2>2 DEF Contains, Leaving, Running
  <2> QED
    BY <2>2, <2>3 DEF Serving, PlainIsPlain, WriterServes, Listening, Writing
<1> QED
  BY <1>1, <1>2

\* The client, select(), and the callback of the client's own.
LEMMA ServingClient ==
  ASSUME IInv, Serving, Careful, PollReader \/ PollWriter \/ PostEnds \/ Client
  PROVE  Serving'
<1>1. stack = <<>>
  BY DEF PollReader, PollWriter, PostEnds, Client, WaiterReturns, Starttls, Write, Close,
     Abort, InUse, Idle
<1>2. (\A m : ~Contains(stack, m)) /\ ~Leaving /\ ~Running("sent")
  BY <1>1 DEF Contains, Leaving, Running
<1>3. buffer \in Nat
  BY DEF IInv, Types
<1>4. CASE PollReader \/ PollWriter \/ PostEnds \/ WaiterReturns \/ Abort \/ Close
  <2>1. UNCHANGED <<state, reader, writer, buffer, rww, wwr, raised>>
    BY <1>4 DEF PollReader, PollWriter, PostEnds, WaiterReturns, Abort, Close, io, app, core
  <2> QED
    BY <1>2, <2>1 DEF Serving, PlainIsPlain, WriterServes, Listening, Writing
<1>5. CASE Starttls
  <2>1. state = "raw_open" /\ state' = "tls_handshaking"
    BY <1>5 DEF Starttls
  <2> QED
    BY <2>1 DEF Serving, PlainIsPlain, WriterServes, Listening, Writing
<1>6. CASE Write
  <2>1. /\ state # "tls_handshaking" /\ buffer' = buffer + 1
        /\ reader' = reader /\ writer' = IF buffer = 0 THEN "write_ready" ELSE writer
        /\ UNCHANGED <<state, rww, wwr, raised>>
    BY <1>6 DEF Write, Slots, app
  <2>2. PlainIsPlain'
    BY <2>1 DEF Serving, PlainIsPlain
  <2>3. WriterServes'
    BY <1>3, <2>1 DEF Serving, WriterServes
  <2>4. Listening'
    BY <1>2, <2>1 DEF Serving, Listening
  <2>5. Writing'
    BY <1>2, <1>3, <2>1 DEF Serving, Writing
  <2> QED
    BY <2>2, <2>3, <2>4, <2>5 DEF Serving
<1> QED
  BY <1>4, <1>5, <1>6 DEF Client

\* The verdicts that are scheduled stay so while a callback runs.
LEMMA NotVerifying ==
  ASSUME IInv, stack # <<>>, post' = post,
         \A h \in Verdicts : Queued(h)' => Queued(h)
  PROVE  ~VerificationPending /\ ~VerificationPending'
BY DEF IInv, WhenVerifying, VerificationPending, Queued, Verdicts

\* A part of a callback that only installs, removes and goes on.
LEMMA ShakingPart ==
  ASSUME IInv, stack # <<>>, NEW r, NEW w, Slots(r, w, <<>>) \/ UNCHANGED io, post' = post
  PROVE  ~VerificationPending /\ ~VerificationPending'
<1>1. Orderly(ready)
  BY DEF IInv, Scheduled
<1>2. CASE Slots(r, w, <<>>)
  <2>1. \A h : Queued(h)' => Queued(h)
    BY <1>1, <1>2, Reinstalled
  <2> QED
    BY <2>1, NotVerifying
<1>3. CASE UNCHANGED io
  <2>1. \A h : Queued(h)' => Queued(h)
    BY <1>3 DEF Queued, io
  <2> QED
    BY <2>1, NotVerifying
<1> QED
  BY <1>2, <1>3

\* What runs next when a part returns, goes on to one part, or raises.
LEMMA ShakingRuns ==
  ASSUME IInv, stack # <<>>,
         \/ stack' = <<>> \/ Becomes(<<>>)
         \/ \E g \in Parts \ {"handshake", "post_handshake"} : Becomes(<<g>>)
  PROVE  ~Part("handshake")' /\ ~Part("post_handshake")'
<1>1. Nested /\ Layered(stack)
  BY DEF IInv, Nested
<1>2. CASE stack' = <<>>
  BY <1>2 DEF Part
<1>3. CASE Becomes(<<>>)
  <2>1. Layered(stack)' /\ \A f : Running(f)' => f \in Rest
    BY <1>1, <1>3, Returned DEF Nested
  <2>2. stack' # <<>> => Head(stack') = stack'[1]
    BY <2>1 DEF Layered
  <2> QED
    BY <2>1, <2>2 DEF Running, Part, Rest
<1>4. ASSUME NEW g \in Parts \ {"handshake", "post_handshake"}, Becomes(<<g>>)
      PROVE  ~Part("handshake")' /\ ~Part("post_handshake")'
  <2>1. Layered(stack)' /\ \A f : Running(f)' <=> f = g
    BY <1>1, <1>4, WentOn
  <2>2. stack' # <<>> => Head(stack') = stack'[1]
    BY <2>1 DEF Layered
  <2> QED
    BY <2>1, <2>2 DEF Running, Part
<1> QED
  BY <1>2, <1>3, <1>4

\* A part that takes up no handshake: a handshake that nobody had taken up is
\* still not, and only a read that asks for the socket to be writable, or an
\* end, comes of a read during a handshake.
LEMMA ShakingOthers ==
  ASSUME IInv, Shaking, state = "tls_handshaking", state' = "tls_handshaking",
         Callback, ~HandshakeWaits, ~HandshakeFails, ~HandshakeDone
  PROVE  /\ buffer' = 0 /\ (HandshakeServed' => Alone')
         /\ HandshakeServed => HandshakeServed' \/ Part("fatal")' \/ RecvWantsWrite
<1>1. stack # <<>> /\ Layered(stack) /\ ~Part("handshake") /\ ~Part("post_handshake")
  <2>1. stack # <<>> /\ Layered(stack)
    BY DEF Callback, ForceClose, FailWaiter, TlsPostHandshake, TlsShutdown, RawShutdown,
       ReadReady, MoreToWrite, RecvNothing, RecvData, RecvRaises, RecvWantsWrite, RecvFails,
       RecvEof, WriteReady, MoreToRead, Send, SendWantsRead, SendFails, Sent, Part, IInv, Nested
  <2>2. ~TlsPostHandshake
    BY DEF TlsPostHandshake
  <2>3. ~Part("handshake")
    BY <2>2 DEF Callback, ForceClose, FailWaiter, TlsShutdown, RawShutdown,
       ReadReady, MoreToWrite, RecvNothing, RecvData, RecvRaises, RecvWantsWrite, RecvFails,
       RecvEof, WriteReady, MoreToRead, Send, SendWantsRead, SendFails, Sent, Part
  <2>4. ~Part("post_handshake")
    BY <2>2 DEF Callback, ForceClose, FailWaiter, TlsShutdown, RawShutdown,
       ReadReady, MoreToWrite, RecvNothing, RecvData, RecvRaises, RecvWantsWrite, RecvFails,
       RecvEof, WriteReady, MoreToRead, Send, SendWantsRead, SendFails, Sent, Part
  <2> QED
    BY <2>1, <2>3, <2>4
<1>2. buffer = 0 /\ (HandshakeServed => Alone)
  BY DEF Shaking
<1>3. /\ Head(stack) = stack[1]
      /\ HandshakeServed => stack[1] \in {"read_ready", "recv", "fatal"} /\ Len(stack) = 1 /\ ~wwr
  BY <1>1, <1>2 DEF Alone, Layered, Part
<1>4. ~cleaned
  BY DEF IInv, WhenClosed
<1>5. CASE FailWaiter \/ RecvNothing \/ RecvFails
  <2>1. /\ Becomes(<<>>) \/ (RecvFails /\ Becomes(<<"fatal">>))
        /\ UNCHANGED io /\ buffer' = buffer /\ wwr' = wwr /\ post' = post
    BY <1>5 DEF FailWaiter, RecvNothing, RecvFails, core
  <2>2. "fatal" \in Parts \ {"handshake", "post_handshake"}
    BY DEF Parts
  <2>3. ~Part("handshake")' /\ ~Part("post_handshake")'
    BY <1>1, <2>1, <2>2, ShakingRuns
  <2>4. ~VerificationPending /\ ~VerificationPending'
    BY <1>1, <2>1, ShakingPart
  <2>5. reader' = reader /\ writer' = writer
    BY <2>1 DEF io
  <2>6. HandshakeServed' <=> HandshakeServed
    BY <1>1, <2>3, <2>4, <2>5 DEF HandshakeServed
  <2>7. HandshakeServed => Alone'
    <3> HAVE HandshakeServed
    <3>1. CASE Becomes(<<>>)
      <4>1. stack' = <<>>
        BY <1>1, <1>3, <3>1, Returned DEF IInv
      <4> QED
        BY <1>2, <2>1, <2>5, <4>1 DEF Alone
    <3>2. CASE Becomes(<<"fatal">>)
      <4>1. Len(stack') = 1 /\ \A g : Running(g)' <=> g = "fatal"
        BY <1>1, <1>3, <2>2, <3>2, WentOn DEF IInv
      <4> QED
        BY <1>2, <2>1, <2>5, <4>1 DEF Alone, Running
    <3> QED
      BY <2>1, <3>1, <3>2
  <2> QED
    BY <1>2, <2>1, <2>6, <2>7
<1>6. CASE ReadReady
  <2>1. UNCHANGED io /\ buffer' = buffer /\ post' = post /\ TlsStarted(state)
    BY <1>6 DEF ReadReady, TlsStarted
  <2>2. ~VerificationPending /\ ~VerificationPending'
    BY <1>1, <2>1, ShakingPart
  <2>3. reader' = reader /\ writer' = writer
    BY <2>1 DEF io
  <2>4. CASE wwr
    <3> DEFINE fs == <<"write_ready", "more_to_write", "recv">>
    <3>1. Becomes(fs)
      BY <1>6, <2>1, <2>4 DEF ReadReady
    <3>2. /\ fs \in Seq(Parts) /\ Len(fs) = 3 /\ fs # <<>> /\ fs[1] = "write_ready"
          /\ fs[2] \in Rest /\ fs[3] \in Rest
      BY DEF Parts, Rest
    <3>3. \A i \in 2 .. Len(fs) : fs[i] \in Rest
      <4>1. \A i \in 2 .. Len(fs) : i = 2 \/ i = 3
        BY <3>2
      <4> QED
        BY <3>2, <4>1
    <3> HIDE DEF fs
    <3>4. Layered(stack)' /\ stack' # <<>> /\ stack'[1] = "write_ready"
      BY <1>1, <3>1, <3>2, <3>3, Replaced
    <3>5. Head(stack') = stack'[1]
      BY <3>4 DEF Layered
    <3>6. ~Part("handshake")' /\ ~Part("post_handshake")'
      BY <3>4, <3>5 DEF Part
    <3>7. ~HandshakeServed /\ ~HandshakeServed'
      BY <1>1, <1>3, <2>2, <2>3, <2>4, <3>6 DEF HandshakeServed
    <3> QED
      BY <1>2, <2>1, <3>7
  <2>5. CASE ~wwr
    <3>1. Becomes(<<"recv">>) /\ wwr' = wwr /\ "recv" \in Parts \ {"handshake", "post_handshake"}
      BY <1>6, <2>5 DEF ReadReady, Parts, Rest
    <3>2. ~Part("handshake")' /\ ~Part("post_handshake")'
      BY <1>1, <3>1, ShakingRuns
    <3>3. HandshakeServed' <=> HandshakeServed
      BY <1>1, <2>2, <2>3, <3>2 DEF HandshakeServed
    <3>4. Len(stack') = Len(stack) /\ \A g : Running(g)' <=> g = "recv"
      BY <1>1, <3>1, WentOn DEF IInv
    <3>5. HandshakeServed => Alone'
      BY <1>2, <1>3, <2>3, <3>1, <3>4 DEF Alone, Running
    <3> QED
      BY <1>2, <2>1, <3>3, <3>5
  <2> QED
    BY <2>4, <2>5
<1>7. CASE ForceClose
  BY <1>4, <1>7 DEF ForceClose
<1>8. CASE RecvWantsWrite
  <2>1. /\ Becomes(<<>>) /\ Slots("none", "write_ready", <<>>) /\ buffer' = buffer
        /\ post' = post /\ reader' = "none" /\ writer' = "write_ready"
    BY <1>8 DEF RecvWantsWrite, Slots
  <2>2. ~Part("handshake")' /\ ~Part("post_handshake")'
    BY <1>1, <2>1, ShakingRuns
  <2>3. ~VerificationPending'
    BY <1>1, <2>1, ShakingPart
  <2>4. ~HandshakeServed'
    BY <2>1, <2>2, <2>3 DEF HandshakeServed
  <2> QED
    BY <1>2, <1>8, <2>1, <2>4
<1>9. CASE RawShutdown \/ MoreToWrite \/ MoreToRead \/ Send \/ SendFails \/ Sent
  <2>1. /\ stack' = <<>> \/ Becomes(<<>>) \/ Becomes(<<"fatal">>) \/ Becomes(<<"sent">>)
           \/ Becomes(<<"shutdown">>) \/ Becomes(<<"raw_shutdown">>)
        /\ post' = post /\ buffer' \in 0 .. buffer
    <3>1. buffer \in 0 .. buffer
      BY <1>2
    <3>2. CASE Sent
      <4>1. \/ Becomes(<<>>) \/ Becomes(<<"shutdown">>) \/ Becomes(<<"raw_shutdown">>)
        <5>1. CASE buffer > 0 \/ ~closing
          BY <3>2, <5>1 DEF Sent
        <5>2. CASE ~(buffer > 0 \/ ~closing) /\ TlsStarted(state)
          BY <3>2, <5>2 DEF Sent
        <5>3. CASE ~(buffer > 0 \/ ~closing) /\ ~TlsStarted(state)
          BY <3>2, <5>3 DEF Sent
        <5> QED
          BY <5>1, <5>2, <5>3
      <4> QED
        BY <3>1, <3>2, <4>1 DEF Sent, core
    <3> QED
      BY <1>9, <3>1, <3>2 DEF RawShutdown, Raise, MoreToWrite, MoreToRead, Send, SendFails, core
  <2>2. {"fatal", "sent", "shutdown", "raw_shutdown"} \subseteq Parts \ {"handshake", "post_handshake"}
    BY DEF Parts
  <2>3. ~Part("handshake")' /\ ~Part("post_handshake")'
    BY <1>1, <2>1, <2>2, ShakingRuns
  <2>4. ~HandshakeServed
    <3>1. stack[1] \notin {"read_ready", "recv", "fatal"}
      BY <1>3, <1>9 DEF RawShutdown, MoreToWrite, MoreToRead, Send, SendFails, Sent, Part
    <3> QED
      BY <1>3, <3>1
  <2>5. reader # "handshake" /\ writer # "handshake"
    BY <2>4 DEF HandshakeServed
  <2>6. \E r, w : /\ Slots(r, w, <<>>) \/ (UNCHANGED io /\ r = reader /\ w = writer)
                  /\ r # "handshake" /\ w # "handshake"
    <3>1. CASE RawShutdown
      BY <3>1 DEF RawShutdown
    <3>2. CASE MoreToWrite
      <4>1. Slots(reader, IF buffer > 0 THEN "write_ready" ELSE writer, <<>>)
        BY <3>2 DEF MoreToWrite
      <4> QED
        BY <2>5, <4>1
    <3>3. CASE MoreToRead
      <4>1. Slots(IF EofReceived(state) THEN reader ELSE "read_ready", writer, <<>>)
        BY <3>3 DEF MoreToRead
      <4> QED
        BY <2>5, <4>1
    <3>4. CASE Sent
      <4>1. Slots(reader, IF buffer = 0 /\ ~rww THEN "none" ELSE writer, <<>>)
        BY <3>4 DEF Sent
      <4> QED
        BY <2>5, <4>1
    <3>5. CASE Send \/ SendFails
      BY <2>5, <3>5 DEF Send, SendFails
    <3> QED
      BY <1>9, <3>1, <3>2, <3>3, <3>4, <3>5
  <2>7. PICK r, w : /\ Slots(r, w, <<>>) \/ (UNCHANGED io /\ r = reader /\ w = writer)
                    /\ r # "handshake" /\ w # "handshake"
    BY <2>6
  <2>8. ~VerificationPending' /\ reader' = r /\ writer' = w
    <3>1. ~VerificationPending'
      BY <1>1, <2>1, <2>7, ShakingPart
    <3> QED
      BY <2>7, <3>1 DEF Slots, io
  <2>9. ~HandshakeServed'
    BY <2>3, <2>7, <2>8 DEF HandshakeServed
  <2>10. buffer' = 0
    BY <1>2, <2>1
  <2> QED
    BY <2>4, <2>9, <2>10
<1>10. CASE WriteReady
  <2> DEFINE fs == <<"read_ready", "more_to_read", "send">>
  <2>1. /\ Becomes(fs) \/ Becomes(<<"send">>)
        /\ UNCHANGED io /\ buffer' = buffer /\ post' = post
    BY <1>10 DEF WriteReady
  <2>2. /\ fs \in Seq(Parts) /\ Len(fs) = 3 /\ fs # <<>> /\ fs[1] = "read_ready"
        /\ fs[2] \in Rest /\ fs[3] \in Rest
    BY DEF Parts, Rest
  <2>3. \A i \in 2 .. Len(fs) : fs[i] \in Rest
    <3>1. \A i \in 2 .. Len(fs) : i = 2 \/ i = 3
      BY <2>2
    <3> QED
      BY <2>2, <3>1
  <2> HIDE DEF fs
  <2>4. ~Part("handshake")' /\ ~Part("post_handshake")'
    <3>1. CASE Becomes(fs)
      <4>1. Layered(stack)' /\ stack' # <<>> /\ stack'[1] = "read_ready"
        BY <1>1, <2>2, <2>3, <3>1, Replaced
      <4>2. Head(stack') = stack'[1]
        BY <4>1 DEF Layered
      <4> QED
        BY <4>1, <4>2 DEF Part
    <3>2. CASE Becomes(<<"send">>)
      <4>1. "send" \in Parts \ {"handshake", "post_handshake"}
        BY DEF Parts, Rest
      <4> QED
        BY <1>1, <3>2, <4>1, ShakingRuns
    <3> QED
      BY <2>1, <3>1, <3>2
  <2>5. ~HandshakeServed
    <3>1. stack[1] = "write_ready"
      BY <1>3, <1>10 DEF WriteReady, Part
    <3> QED
      BY <1>3, <3>1
  <2>6. ~VerificationPending'
    BY <1>1, <2>1, ShakingPart
  <2>7. ~HandshakeServed'
    BY <2>1, <2>4, <2>5, <2>6 DEF HandshakeServed, io
  <2> QED
    BY <1>2, <2>1, <2>5, <2>7
<1>11. ~TlsPostHandshake /\ ~TlsShutdown /\ ~RecvData /\ ~RecvRaises /\ ~RecvEof /\ ~SendWantsRead
  BY <1>2 DEF TlsPostHandshake, TlsShutdown, RecvData, RecvRaises, RecvEof, SendWantsRead,
     IInv, Draining
<1> QED
  BY <1>5, <1>6, <1>7, <1>8, <1>9, <1>10, <1>11 DEF Callback

\* The parts of the handshake itself.
LEMMA ShakingHandshake ==
  ASSUME IInv, Shaking, HandshakeWaits \/ HandshakeFails \/ HandshakeDone
  PROVE  /\ buffer' = 0 /\ (HandshakeServed' => Alone')
         /\ HandshakeServed' \/ Part("fatal")'
<1>1. /\ Part("handshake") /\ state = "tls_handshaking" /\ UNCHANGED <<buffer, wwr>>
  BY DEF HandshakeWaits, HandshakeFails, HandshakeDone, core
<1>2. stack # <<>> /\ Nested /\ Running("handshake") /\ Len(stack) = 1
  BY <1>1, Runner DEF Nested
<1>3. buffer = 0 /\ ~wwr /\ writer # "write_ready"
  BY <1>1 DEF Shaking, HandshakeServed, Alone
<1>4. Becomes(<<>>) => stack' = <<>>
  BY <1>2, Returned
<1>5. CASE HandshakeWaits
  <2>1. /\ Becomes(<<>>) /\ writer' \in {writer, "handshake"}
        /\ reader' = "handshake" \/ writer' = "handshake"
    BY <1>5 DEF HandshakeWaits, Slots
  <2> QED
    BY <1>1, <1>3, <1>4, <2>1 DEF HandshakeServed, Alone
<1>6. CASE HandshakeFails
  <2> DEFINE fs == <<"fatal", "fail_waiter">>
  <2>1. fs \in Seq(Parts) /\ fs # <<>> /\ Len(fs) = 2 /\ fs[2] \in Rest /\ fs[1] = "fatal"
    BY DEF Parts, Rest
  <2>2. \A i \in 2 .. Len(fs) : fs[i] \in Rest
    <3>1. \A i \in 2 .. Len(fs) : i = 2
      BY <2>1
    <3> QED
      BY <2>1, <3>1
  <2>3. Becomes(fs) /\ Slots("none", "none", <<>>) /\ post' = post
    BY <1>6 DEF HandshakeFails, core
  <2> HIDE DEF fs
  <2>4. Layered(stack)' /\ stack' # <<>> /\ stack'[1] = "fatal"
    BY <1>2, <2>1, <2>2, <2>3, Replaced DEF Nested
  <2>5. Head(stack') = stack'[1]
    BY <2>4 DEF Layered
  <2>6. Part("fatal")' /\ ~Part("handshake")' /\ ~Part("post_handshake")'
    BY <2>4, <2>5 DEF Part
  <2>7. ~VerificationPending'
    BY <1>2, <2>3, ShakingPart
  <2>8. reader' = "none" /\ writer' = "none"
    BY <2>3 DEF Slots
  <2>9. ~HandshakeServed'
    BY <2>6, <2>7, <2>8 DEF HandshakeServed
  <2> QED
    BY <1>1, <1>3, <2>6, <2>9
<1>7. CASE HandshakeDone
  <2>1. writer' = "none"
    BY <1>7 DEF HandshakeDone, Slots
  <2>2. CASE post = "given"
    <3>1. post' = "running" /\ Becomes(<<>>)
      BY <1>7, <2>2 DEF HandshakeDone
    <3> QED
      BY <1>1, <1>3, <1>4, <2>1, <3>1 DEF HandshakeServed, VerificationPending, Alone
  <2>3. CASE post # "given"
    <3>1. Becomes(<<"post_handshake">>) /\ "post_handshake" \in Parts
      BY <1>7, <2>3 DEF HandshakeDone, Parts
    <3>2. /\ Layered(stack)' /\ Len(stack') = 1
          /\ \A g : Running(g)' <=> g = "post_handshake"
      BY <1>2, <3>1, WentOn
    <3>3. stack' # <<>> /\ stack'[1] = "post_handshake" /\ Head(stack') = stack'[1]
      BY <3>2 DEF Running, Layered
    <3> QED
      BY <1>1, <1>3, <2>1, <3>2, <3>3 DEF HandshakeServed, Part, Alone
  <2> QED
    BY <2>2, <2>3
<1> QED
  BY <1>5, <1>6, <1>7

\* Between callbacks: the loop takes up what is installed or scheduled.
LEMMA ShakingLoop ==
  ASSUME IInv, Shaking, state = "tls_handshaking", Loop
  PROVE  /\ buffer' = 0 /\ (HandshakeServed' => Alone')
         /\ HandshakeServed => HandshakeServed' \/ Part("fatal")'
<1>1. PICK h : Runs(h) /\ (RunMade => h \in Made) /\ (RunWaiter => h = "waiter")
               /\ (RunSlot => stack' = <<IF h = "reader" THEN reader ELSE writer>>
                              /\ h \in {"reader", "writer"})
               /\ (RunPostDone => h \in Verdicts)
               /\ (RunConnectionLost => h = "connection_lost")
  <2>1. \A g, h : Runs(g) /\ Runs(h) => g = h
    BY DEF Runs
  <2> QED
    BY <2>1 DEF Loop, RunSlot, RunMade, RunWaiter, RunConnectionLost, RunPostDone, Made, Verdicts
<1>2. /\ stack = <<>> /\ Queued(h) /\ reader' = reader /\ writer' = writer
      /\ \A g : Queued(g)' <=> Queued(g) /\ g # h
  BY <1>1, Handled
<1>3. RunSlot \/ RunPostDone
  BY <1>1, <1>2 DEF Loop, IInv, WhenHandshaking, Made
<1>4. UNCHANGED <<state, buffer, rww, wwr, post>>
  BY <1>3 DEF RunSlot, RunPostDone, core
<1>5. buffer = 0 /\ (HandshakeServed => Alone)
  BY DEF Shaking
<1>6. CASE RunSlot
  <2>1. h \in {"reader", "writer"} /\ stack' = <<IF h = "reader" THEN reader ELSE writer>>
    BY <1>1, <1>6
  <2> DEFINE f == IF h = "reader" THEN reader ELSE writer
  <2>2. stack' # <<>> /\ Len(stack') = 1 /\ stack'[1] = f /\ Head(stack') = f
    BY <2>1
  <2>3. f \in {"read_ready", "write_ready", "handshake"}
    BY <1>2, <2>1 DEF IInv, Types, Scheduled, Draining
  <2> HIDE DEF f
  <2>4. VerificationPending' <=> VerificationPending
    BY <1>2, <1>4, <2>1 DEF VerificationPending, Queued
  <2>5. \A g : Part(g)' <=> g = f
    BY <2>2 DEF Part
  <2>6. HandshakeServed' => HandshakeServed
    BY <1>2, <2>1, <2>3, <2>4, <2>5 DEF HandshakeServed, f
  <2>7. HandshakeServed => HandshakeServed'
    <3> HAVE HandshakeServed
    <3>1. "handshake" \in {reader, writer} \/ VerificationPending
      BY <1>2 DEF HandshakeServed, Part
    <3> QED
      BY <1>2, <2>4, <3>1 DEF HandshakeServed
  <2>8. HandshakeServed => Alone'
    <3> HAVE HandshakeServed
    <3>1. f # "write_ready"
      BY <1>5, <2>1 DEF Alone, f, IInv, Types
    <3> QED
      BY <1>2, <1>4, <1>5, <2>2, <2>3, <3>1 DEF Alone
  <2> QED
    BY <1>4, <1>5, <2>6, <2>7, <2>8
<1>7. CASE RunPostDone
  <2>1. VerificationPending
    BY <1>1, <1>2, <1>7 DEF VerificationPending, Verdicts, Queued
  <2>2. Alone /\ reader = "none" /\ writer = "none"
    BY <1>5, <2>1 DEF HandshakeServed, IInv, WhenVerifying, VerificationPending, Queued
  <2>3. CASE stack' = <<"post_handshake">>
    <3>1. stack' # <<>> /\ Len(stack') = 1 /\ stack'[1] = "post_handshake"
          /\ Head(stack') = "post_handshake"
      BY <2>3
    <3> QED
      BY <1>2, <1>4, <1>5, <2>2, <3>1 DEF HandshakeServed, Part, Alone
  <2>4. CASE stack' = <<"fatal", "fail_waiter">>
    <3>1. stack' # <<>> /\ Head(stack') = "fatal"
      BY <2>4
    <3>2. Part("fatal")' /\ ~Part("handshake")' /\ ~Part("post_handshake")'
      BY <3>1 DEF Part
    <3>3. ~VerificationPending'
      <4>1. post # "running" /\ ~(Queued("post_ok") /\ Queued("post_failed"))
        BY <1>1, <1>2, <1>7 DEF IInv, Scheduled, Verdicts
      <4>2. ~Queued("post_ok")' /\ ~Queued("post_failed")'
        BY <1>1, <1>2, <1>7, <4>1 DEF Verdicts
      <4> QED
        BY <1>4, <4>1, <4>2 DEF VerificationPending, Queued
    <3>4. ~HandshakeServed'
      BY <1>2, <2>2, <3>2, <3>3 DEF HandshakeServed
    <3> QED
      BY <1>4, <1>5, <3>2, <3>4
  <2> QED
    BY <1>7, <2>3, <2>4 DEF RunPostDone
<1> QED
  BY <1>3, <1>6, <1>7

LEMMA ShakingClient ==
  ASSUME IInv, Serving, Shaking, Careful, state' = "tls_handshaking",
         PollReader \/ PollWriter \/ PostEnds \/ Client
  PROVE  /\ buffer' = 0 /\ (HandshakeServed' => Alone')
         /\ HandshakeServed => HandshakeServed' \/ Part("fatal")'
<1>1. stack = <<>>
  BY DEF PollReader, PollWriter, PostEnds, Client, WaiterReturns, Starttls, Write, Close,
     Abort, InUse, Idle
<1>2. CASE Starttls
  <2>1. /\ state = "raw_open" /\ buffer = 0
        /\ stack' = <<"handshake">> /\ UNCHANGED <<reader, writer, buffer, wwr>>
    BY <1>2 DEF Starttls, io
  <2>2. writer # "write_ready" /\ ~wwr
    BY <1>1, <2>1 DEF Serving, WriterServes, PlainIsPlain, Running
  <2>3. /\ stack' # <<>> /\ Len(stack') = 1 /\ stack'[1] = "handshake"
        /\ Head(stack') = "handshake"
    BY <2>1
  <2> QED
    BY <2>1, <2>2, <2>3 DEF Alone, HandshakeServed, Part
<1>3. CASE PollReader \/ PollWriter \/ PostEnds \/ WaiterReturns \/ Abort
  <2>1. UNCHANGED <<state, stack, reader, writer, buffer, wwr>>
    BY <1>3 DEF PollReader, PollWriter, PostEnds, WaiterReturns, Abort, io, core
  <2>2. VerificationPending' <=> VerificationPending
    <3>1. CASE PollReader \/ PollWriter \/ PostEnds
      <4>1. PICK h \in Handles \ Made : ready' = Append(ready, h) /\ ~Queued(h)
                                        /\ (PostEnds => h \in Verdicts /\ post = "running")
                                        /\ (~PostEnds => post' = post /\ h \in {"reader", "writer"})
        <5>1. PostEnds => ~Queued("post_ok") /\ ~Queued("post_failed") /\ post = "running"
          BY DEF PostEnds, IInv, Scheduled
        <5> QED
          BY <3>1, <5>1 DEF PollReader, PollWriter, PostEnds, Queued, Handles, Made,
             Verdicts, core
      <4>2. \A g : Queued(g)' <=> Queued(g) \/ g = h
        BY <4>1, Scheduling
      <4>3. CASE PostEnds
        BY <4>1, <4>2, <4>3 DEF VerificationPending, Queued, Verdicts
      <4>4. CASE ~PostEnds
        BY <4>1, <4>2, <4>4 DEF VerificationPending, Queued
      <4> QED
        BY <4>3, <4>4
    <3>2. CASE WaiterReturns \/ Abort
      BY <3>2 DEF WaiterReturns, Abort, VerificationPending, io, core
    <3> QED
      BY <1>3, <3>1, <3>2
  <2>3. HandshakeServed' <=> HandshakeServed
    BY <2>1, <2>2 DEF HandshakeServed, Part
  <2> QED
    BY <1>1, <2>1, <2>3 DEF Shaking, Alone
<1>4. CASE Close
  <2>1. /\ UNCHANGED <<state, reader, writer, ready, post, buffer, wwr>>
        /\ ~VerificationPending
    BY <1>4 DEF Close, io
  <2>2. stack' = <<"fatal">>
    BY <1>4, <2>1 DEF Close
  <2>3. stack' # <<>> /\ Len(stack') = 1 /\ stack'[1] = "fatal" /\ Head(stack') = "fatal"
    BY <2>2
  <2>4. HandshakeServed' <=> HandshakeServed
    BY <1>1, <2>1, <2>3 DEF HandshakeServed, Part, VerificationPending
  <2> QED
    BY <1>1, <2>1, <2>3, <2>4 DEF Shaking, Alone, Part
<1>5. ~Write
  BY DEF Write
<1> QED
  BY <1>2, <1>3, <1>4, <1>5 DEF Client

\* What a step does to a handshake.
LEMMA ShakingStep ==
  ASSUME IInv, Serving, Shaking, Careful, [Next]_vars
  PROVE  /\ Shaking'
         /\ state = "tls_handshaking" /\ HandshakeServed =>
              \/ HandshakeServed' \/ state' # "tls_handshaking" \/ Part("fatal")'
              \/ RecvWantsWrite
<1>1. CASE Loop
  <2>1. state' = "tls_handshaking" => state = "tls_handshaking"
    BY <1>1 DEF Loop, RunSlot, RunMade, RunWaiter, RunConnectionLost, RunPostDone
  <2> QED
    BY <1>1, <2>1, ShakingLoop DEF Shaking
<1>2. CASE Callback
  <2>1. state' = "tls_handshaking" => state = "tls_handshaking"
    BY <1>2 DEF Callback, ForceClose, FailWaiter, HandshakeWaits, HandshakeFails,
       HandshakeDone, TlsPostHandshake, TlsShutdown, RawShutdown, ReadReady, MoreToWrite,
       RecvNothing, RecvData, RecvRaises, RecvWantsWrite, RecvFails, RecvEof, WriteReady,
       MoreToRead, Send, SendWantsRead, SendFails, Sent
  <2>2. CASE HandshakeWaits \/ HandshakeFails \/ HandshakeDone
    BY <2>2, ShakingHandshake DEF Shaking
  <2>3. CASE ~HandshakeWaits /\ ~HandshakeFails /\ ~HandshakeDone
    BY <1>2, <2>1, <2>3, ShakingOthers DEF Shaking
  <2> QED
    BY <2>2, <2>3
<1>3. CASE PollReader \/ PollWriter \/ PostEnds \/ Client
  BY <1>3, ShakingClient DEF Shaking
<1>4. CASE UNCHANGED vars
  <2>1. UNCHANGED <<state, stack, reader, writer, ready, buffer, wwr, post>>
    BY <1>4 DEF vars, io, core
  <2>2. HandshakeServed' <=> HandshakeServed
    BY <2>1 DEF HandshakeServed, VerificationPending, Part
  <2> QED
    BY <2>1, <2>2 DEF Shaking, Alone
<1> QED
  BY <1>1, <1>2, <1>3, <1>4 DEF Next

LEMMA ServingStep ==
  ASSUME IInv, Serving, Shaking, Careful, [Next]_vars
  PROVE  Serving'
<1>1. CASE Callback
  BY <1>1, ServingReturns, ServingRaises, ServingMore, ServingCrosses, ServingReady,
     ServingSends, ServingHandshake, ServingCloses
     DEF Callback
<1>2. CASE UNCHANGED vars
  <2>1. UNCHANGED <<state, stack, reader, writer, buffer, rww, wwr, raised>>
    BY <1>2 DEF vars, io, app, core
  <2> QED
    BY <2>1 DEF Serving, PlainIsPlain, WriterServes, Listening, Writing, Leaving, Running
<1> QED
  BY <1>1, <1>2, ServingLoop, ServingClient DEF Next

LEMMA ServingInductive == ASSUME Careful PROVE Spec => [](IInv /\ Serving /\ Shaking)
<1>1. Safe
  BY DEF Safe
<1>2. Init => Serving /\ Shaking
  <2> HAVE Init
  <2>1. Serving
    BY DEF Init, Serving, PlainIsPlain, WriterServes, Listening, Writing
  <2>2. Shaking
    <3>1. CASE useStarttls
      BY <3>1 DEF Init, Shaking
    <3>2. CASE ~useStarttls
      <4>1. stack = <<"handshake">> /\ Len(<<"handshake">>) = 1 /\ <<"handshake">>[1] = "handshake"
        BY <3>2 DEF Init
      <4> QED
        BY <4>1 DEF Init, Shaking, Alone
    <3> QED
      BY <3>1, <3>2
  <2> QED
    BY <2>1, <2>2
<1>3. IInv /\ Serving /\ Shaking /\ [Next]_vars => Serving' /\ Shaking'
  BY ServingStep, ShakingStep
<1>4. Spec => []IInv
  BY <1>1, Inductive
<1> QED
  BY <1>2, <1>3, <1>4, PTL DEF Spec

\* Whatever is buffered while the transport is open has a slot of the loop that
\* will send it, however reads and writes have crossed, unless an exception of
\* data_received() or shutdown() left a callback half done (_write_ready,
\* _read_ready, write).
THEOREM TransportBufferIsServed == ASSUME Careful PROVE Spec => []BufferIsServed
<1>1. Serving => BufferIsServed
  BY DEF Serving, Writing, BufferIsServed, Idle, Leaving, Running, Contains
<1> QED
  BY <1>1, ServingInductive, PTL

\* An open transport never stops listening to its socket, with the same
\* exception: whoever takes the reader's slot for a read that must write gives
\* it back (_read_ready, _write_ready).
THEOREM TransportReaderIsServed == ASSUME Careful PROVE Spec => []ReaderIsServed
<1>1. Serving => ReaderIsServed
  BY DEF Serving, Listening, ReaderIsServed, Idle, Leaving, Running, Contains
<1> QED
  BY <1>1, ServingInductive, PTL

\* Whatever the handshake asks of the socket, and whatever else runs during it,
\* no step but a read that takes the writer for itself leaves it without
\* anybody to take it up (_tls_do_handshake, _tls_post_handshake, _read_ready).
THEOREM TransportHandshakeIsKept == ASSUME Careful PROVE Spec => HandshakeIsKept
<1>1. ASSUME IInv /\ Serving /\ Shaking, [Next]_vars
      PROVE  [state = "tls_handshaking" /\ HandshakeServed =>
                \/ HandshakeServed'
                \/ state' # "tls_handshaking" \/ Part("fatal")'
                \/ RecvWantsWrite]_vars
  BY <1>1, ShakingStep
<1> QED
  BY <1>1, ServingInductive, PTL DEF Spec, HandshakeIsKept
=============================================================================
