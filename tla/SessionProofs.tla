---------------------------- MODULE SessionProofs ----------------------------
(***************************************************************************)
(* An open session, in three steps.  First the loop's queue: Fifo says in  *)
(* which order handles stand in it.  Then the stanzas: pushes, presences   *)
(* and the presences of the room are each the versions of a log of the     *)
(* server (Tells), so that by Fifo the mixins see the versions in their    *)
(* order.  Last the copies: what the mixins and the tasks keep is the      *)
(* version they have come to.                                              *)
(***************************************************************************)
EXTENDS Session, SequenceTheorems, FiniteSetTheorems, NaturalsInduction, TLAPS

-----------------------------------------------------------------------------
(* The loop's queue: what is in it, and what stands before what.           *)
Before(q, g, h) == \E i, j \in 1 .. Len(q) : i < j /\ q[i] = g /\ q[j] = h

LEMMA AfterAppend ==
  ASSUME NEW S, NEW q \in Seq(S), NEW e \in S
  PROVE  /\ Append(q, e) \in Seq(S)
         /\ \A g : Contains(Append(q, e), g) <=> Contains(q, g) \/ g = e
         /\ \A g, h : Before(Append(q, e), g, h) =>
              Before(q, g, h) \/ (Contains(q, g) /\ h = e)
<1> DEFINE a == Append(q, e)
<1>1. /\ a \in Seq(S) /\ Len(q) \in Nat /\ Len(a) = Len(q) + 1 /\ a[Len(q) + 1] = e
      /\ \A i \in 1 .. Len(q) : a[i] = q[i]
  BY AppendProperties, LenProperties
<1> HIDE DEF a
<1>2. \A g : Contains(a, g) <=> Contains(q, g) \/ g = e
  BY <1>1 DEF Contains
<1>3. \A g, h : Before(a, g, h) => Before(q, g, h) \/ (Contains(q, g) /\ h = e)
  BY <1>1 DEF Contains, Before
<1> QED
  BY <1>1, <1>2, <1>3 DEF a

LEMMA AfterTail ==
  ASSUME NEW S, NEW q \in Seq(S), q # <<>>
  PROVE  /\ Tail(q) \in Seq(S) /\ Head(q) \in S
         /\ \A g : Contains(q, g) <=> g = Head(q) \/ Contains(Tail(q), g)
         /\ \A g : Contains(Tail(q), g) => Before(q, Head(q), g)
         /\ \A g, h : Before(Tail(q), g, h) => Before(q, g, h)
<1> DEFINE t == Tail(q)
<1>1. /\ t \in Seq(S) /\ Len(q) \in Nat \ {0} /\ Len(t) = Len(q) - 1
      /\ \A i \in 1 .. Len(t) : t[i] = q[i + 1]
      /\ Head(q) \in S
  BY HeadTailProperties, EmptySeq
<1>2. Head(q) = q[1]
  OBVIOUS
<1> HIDE DEF t
<1>3. \A i \in 1 .. Len(q) : i # 1 => i - 1 \in 1 .. Len(t) /\ t[i - 1] = q[i]
  BY <1>1
<1>4. \A g : Contains(q, g) <=> g = Head(q) \/ Contains(t, g)
  BY <1>1, <1>2, <1>3 DEF Contains
<1>5. \A g : Contains(t, g) => Before(q, Head(q), g)
  BY <1>1, <1>2 DEF Contains, Before
<1>6. \A g, h : Before(t, g, h) => Before(q, g, h)
  <2> SUFFICES ASSUME NEW g, NEW h, Before(t, g, h) PROVE Before(q, g, h)
    OBVIOUS
  <2>1. PICK i, j \in 1 .. Len(t) : i < j /\ t[i] = g /\ t[j] = h
    BY DEF Before
  <2>2. i + 1 \in 1 .. Len(q) /\ j + 1 \in 1 .. Len(q) /\ q[i + 1] = g /\ q[j + 1] = h
    BY <1>1, <2>1
  <2> QED
    BY <2>1, <2>2 DEF Before
<1> QED
  BY <1>1, <1>4, <1>5, <1>6 DEF t

LEMMA AfterHead ==
  ASSUME NEW S, NEW q \in Seq(S), NEW e \in S
  PROVE  /\ <<e>> \o q \in Seq(S)
         /\ \A g : Contains(<<e>> \o q, g) <=> g = e \/ Contains(q, g)
         /\ \A g, h : Before(<<e>> \o q, g, h) =>
              Before(q, g, h) \/ (g = e /\ Contains(q, h))
<1> DEFINE a == <<e>> \o q
<1>1. /\ a \in Seq(S) /\ Len(q) \in Nat /\ Len(a) = Len(q) + 1 /\ a[1] = e
      /\ \A i \in 2 .. Len(a) : a[i] = q[i - 1]
  <2>1. <<e>> \in Seq(S) /\ Len(<<e>>) = 1 /\ <<e>>[1] = e
    OBVIOUS
  <2> QED
    BY <2>1, ConcatProperties, LenProperties
<1> HIDE DEF a
<1>2. \A i \in 1 .. Len(a) : i # 1 => i - 1 \in 1 .. Len(q) /\ a[i] = q[i - 1]
  BY <1>1
<1>3. \A i \in 1 .. Len(q) : i + 1 \in 1 .. Len(a) /\ a[i + 1] = q[i]
  BY <1>1
<1>4. \A g : Contains(a, g) <=> g = e \/ Contains(q, g)
  BY <1>1, <1>2, <1>3, SMTT(30) DEF Contains
<1>5. \A g, h : Before(a, g, h) => Before(q, g, h) \/ (g = e /\ Contains(q, h))
  <2> SUFFICES ASSUME NEW g, NEW h, NEW i \in 1 .. Len(a), NEW j \in 1 .. Len(a),
                      i < j, a[i] = g, a[j] = h
               PROVE  Before(q, g, h) \/ (g = e /\ Contains(q, h))
    BY DEF Before
  <2>1. j - 1 \in 1 .. Len(q) /\ q[j - 1] = h
    BY <1>1, <1>2
  <2>2. CASE i = 1
    BY <1>1, <2>1, <2>2 DEF Contains
  <2>3. CASE i # 1
    BY <1>1, <1>2, <2>1, <2>3 DEF Before
  <2> QED
    BY <2>2, <2>3
<1> QED
  BY <1>1, <1>4, <1>5 DEF a

LEMMA AfterTwo ==
  ASSUME NEW S, NEW q \in Seq(S), NEW d \in S, NEW e \in S
  PROVE  /\ q \o <<d, e>> \in Seq(S)
         /\ \A g : Contains(q \o <<d, e>>, g) <=> Contains(q, g) \/ g = d \/ g = e
         /\ \A g, h : Before(q \o <<d, e>>, g, h) =>
              \/ Before(q, g, h) \/ (Contains(q, g) /\ h \in {d, e}) \/ (g = d /\ h = e)
<1>1. q \o <<d, e>> = Append(Append(q, d), e)
  <2>1. <<d>> \in Seq(S) /\ <<e>> \in Seq(S)
    OBVIOUS
  <2>2. <<d>> \o <<e>> = <<d, e>>
    <3> DEFINE c == <<d>> \o <<e>>
    <3>1. /\ c \in Seq(S) /\ Len(c) = 2 /\ c[1] = d /\ c[2] = e
      BY <2>1, ConcatProperties
    <3> HIDE DEF c
    <3>2. c \in [1 .. 2 -> S]
      BY <3>1, LenProperties
    <3>3. \A i \in 1 .. 2 : c[i] = <<d, e>>[i]
      BY <3>1
    <3>4. c = <<d, e>>
      BY <3>2, <3>3
    <3> QED
      BY <3>4 DEF c
  <2>4. (q \o <<d>>) \o <<e>> = q \o (<<d>> \o <<e>>)
    BY <2>1, ConcatAssociative
  <2>3. q \o <<d>> = Append(q, d) /\ Append(q, d) \in Seq(S)
    BY AppendIsConcat, AppendProperties
  <2> QED
    BY <2>2, <2>4, <2>3, AppendIsConcat
<1>2. Append(q, d) \in Seq(S)
  BY AppendProperties
<1>3. /\ \A g : Contains(Append(q, d), g) <=> Contains(q, g) \/ g = d
      /\ \A g, h : Before(Append(q, d), g, h) => Before(q, g, h) \/ (Contains(q, g) /\ h = d)
  BY AfterAppend
<1>4. /\ Append(Append(q, d), e) \in Seq(S)
      /\ \A g : Contains(Append(Append(q, d), e), g) <=> Contains(Append(q, d), g) \/ g = e
      /\ \A g, h : Before(Append(Append(q, d), e), g, h) =>
           Before(Append(q, d), g, h) \/ (Contains(Append(q, d), g) /\ h = e)
  BY <1>2, AfterAppend
<1> QED
  BY <1>1, <1>3, <1>4

-----------------------------------------------------------------------------
(* What there is.                                                          *)
Versions == UNION {[S -> {"none", "both", "remove"}] : S \in SUBSET Contacts}
Lists    == UNION {[S -> {"plain"}] : S \in SUBSET FullJids}
Nicks    == {Me, Renamed, Guest}
Stanzas  ==
  [kind : {"reply"}, to : Tasks, ok : BOOLEAN]
    \cup [kind : {"reply"}, to : Tasks, ok : BOOLEAN, items : Versions, v : Nat]
    \cup [kind : {"push"}, items : Versions, v : Nat]
    \cup [kind : {"presence"}, from : FullJids \cup (Contacts \X {NoRes}),
          type : {"available", "unavailable"}, show : {"plain"}, v : Nat]
    \cup [kind : {"room"}, from : {Room} \X Nicks, type : {"available", "unavailable"},
          codes : Seq(Nat), owner : BOOLEAN]
    \cup [kind : {"refusal"}, from : {Room, MeJid}]

Ops       == {"set", "enter", "leave"}
Awaited   == {"get", "getconf", "config"} \cup Ops
Requests  == [task : Tasks, op : {"get", "iq"} \cup Ops]
TaskSteps == {"release", "wake", "found"} \cup Ops
Handles   == {TheParser} \cup ({"mixins"} \X Nat) \cup (TaskSteps \X Tasks)

Types ==
  /\ sent \in Seq(Stanzas) /\ asked \subseteq Requests /\ scenario \in Scenarios
  /\ rosterLog \in Seq(Versions) /\ rosterLog # <<>>
  /\ presenceLog \in Seq(Lists) /\ presenceLog # <<>>
  /\ roomLog \in Seq(SUBSET Nicks) /\ roomLog # <<>>
  /\ ready \in Seq(Handles)
  /\ parsed \in 0 .. Len(sent) /\ applied \in 0 .. parsed
  /\ waiting \subseteq Tasks /\ scan \subseteq waiting
  /\ got \in [Tasks -> 0 .. parsed]
  /\ pc \in [Tasks -> {"idle", "due", "failed"} \cup Awaited]

(* The FIFO.  Of two handles of the queue, the mixins' are in the order of *)
(* the stanzas, a task that has been given one is after its mixins and     *)
(* before those of the next, and the parser goes on only when the tasks it *)
(* has completed have been released.  A task has one handle at most.       *)
Precedes(g, h) ==
  /\ g # h
  /\ g[1] = "mixins" /\ h[1] = "mixins" => g[2] < h[2]
  /\ g[1] = "mixins" /\ h[1] \in {"release", "wake"} => g[2] <= got[h[2]]
  /\ g[1] \in {"release", "wake"} /\ h[1] = "mixins" => got[g[2]] < h[2]
  /\ g[1] = "parser" => h[1] # "release"
  /\ g[1] \in TaskSteps /\ h[1] \in TaskSteps => g[2] # h[2]

InOrder ==
  \A j, k \in 1 .. Len(ready) : j < k => Precedes(ready[j], ready[k])

\* A task awaits a stanza, has a handle or is at rest; a stanza it has been
\* given is one it wants, and its mixins have not been overtaken.
Justified(h) ==
  /\ h[1] = "mixins" => h[2] \in applied + 1 .. parsed
  /\ h[1] \in TaskSteps => h[2] \notin waiting /\ pc[h[2]] \notin {"idle", "failed"}
  /\ h[1] \in {"release", "wake", "found"} =>
       got[h[2]] \in 1 .. parsed /\ Wants(pc[h[2]], h[2], sent[got[h[2]]])
  /\ h[1] = "release" => got[h[2]] = parsed
  /\ h[1] = "wake" => applied <= got[h[2]]
  /\ h[1] = "found" => pc[h[2]] # "get"
  /\ h[1] \in Ops => pc[h[2]] = "due"

Accounted == \A k \in 1 .. Len(ready) : Justified(ready[k])

AllScheduled == \A i \in applied + 1 .. parsed : Contains(ready, Handle("mixins", i))

\* What the scan has yet to complete; and the roster request is answered by
\* way of a future.
Given ==
  /\ \A t \in waiting : pc[t] \in Awaited
  /\ \A t \in scan : parsed > 0 /\ Wants(pc[t], t, sent[parsed])
  /\ \A t \in Tasks : pc[t] = "get" =>
       t \in waiting \/ \E w \in {"release", "wake"} : Contains(ready, Handle(w, t))

Fifo == Types /\ InOrder /\ Accounted /\ AllScheduled /\ Given

LEMMA Kinds ==
  /\ \A h \in Handles :
       \/ h = TheParser
       \/ h[1] = "mixins" /\ h[2] \in Nat /\ h = Handle("mixins", h[2])
       \/ h[1] \in TaskSteps /\ h[2] \in Tasks /\ h = Handle(h[1], h[2])
  /\ TheParser \in Handles /\ TheParser[1] = "parser" /\ "parser" \notin TaskSteps
  /\ \A i \in Nat : Handle("mixins", i) \in Handles
  /\ \A w \in TaskSteps, t \in Tasks : Handle(w, t) \in Handles
  /\ "mixins" \notin TaskSteps /\ {"release", "wake", "found"} \subseteq TaskSteps
  /\ \A w, x : Handle(w, x)[1] = w /\ Handle(w, x)[2] = x
BY DEF Handles, Handle, TheParser, TaskSteps, Ops

\* The two parts of Fifo about the queue, of handles rather than of places.
LEMMA QueueForm ==
  ASSUME Types
  PROVE  /\ InOrder <=> \A g, h : Before(ready, g, h) => Precedes(g, h)
         /\ Accounted <=> \A h : Contains(ready, h) => Justified(h)
         /\ \A g, h : Before(ready, g, h) => Contains(ready, g) /\ Contains(ready, h)
         /\ \A h : Contains(ready, h) => h \in Handles
<1>1. /\ InOrder <=> \A g, h : Before(ready, g, h) => Precedes(g, h)
      /\ Accounted <=> \A h : Contains(ready, h) => Justified(h)
      /\ \A g, h : Before(ready, g, h) => Contains(ready, g) /\ Contains(ready, h)
  BY DEF InOrder, Accounted, Before, Contains
<1>2. \A h : Contains(ready, h) => h \in Handles
  BY ElementOfSeq DEF Types, Contains
<1> QED
  BY <1>1, <1>2

\* The mixins are run in the order of the stanzas, none left out.
LEMMA MixinsInOrder ==
  ASSUME Fifo, NEW i \in 1 .. parsed, RunMixins(i)
  PROVE  /\ i = applied + 1
         /\ \A t \in Tasks, w \in {"release", "wake"} :
              Contains(ready, Handle(w, t)) => i <= got[t]
<1> USE DEF Fifo
<1>1. ready # <<>> /\ Head(ready) = Handle("mixins", i)
  BY DEF RunMixins, Runs
<1>2. /\ \A g : Contains(ready, g) <=> g = Head(ready) \/ Contains(Tail(ready), g)
      /\ \A g : Contains(Tail(ready), g) => Before(ready, Head(ready), g)
  BY <1>1, AfterTail DEF Types
<1>3. /\ \A g : Contains(ready, g) /\ g # Handle("mixins", i) => Precedes(Handle("mixins", i), g)
      /\ Justified(Handle("mixins", i))
  BY <1>1, <1>2, QueueForm
<1>4. i \in applied + 1 .. parsed
  BY <1>3, Kinds DEF Justified
<1>5. i = applied + 1
  <2> SUFFICES ASSUME i # applied + 1 PROVE FALSE
    OBVIOUS
  <2>1. applied + 1 \in applied + 1 .. parsed
    BY <1>4 DEF Types
  <2>2. Contains(ready, Handle("mixins", applied + 1))
    BY <2>1 DEF AllScheduled
  <2>3. Handle("mixins", applied + 1) # Handle("mixins", i)
    BY Kinds
  <2>4. i < applied + 1
    BY <1>3, <2>2, <2>3, Kinds DEF Precedes
  <2> QED
    BY <1>4, <2>4 DEF Types
<1>6. ASSUME NEW t \in Tasks, NEW w \in {"release", "wake"}, Contains(ready, Handle(w, t))
      PROVE  i <= got[t]
  BY <1>3, <1>6, Kinds DEF Precedes
<1> QED
  BY <1>5, <1>6

\* What a handle at the head leaves behind.
LEMMA AtHead ==
  ASSUME Fifo, NEW h, Runs(h)
  PROVE  /\ h \in Handles /\ Justified(h) /\ Tail(ready) \in Seq(Handles)
         /\ \A g : Contains(ready, g) <=> g = h \/ Contains(Tail(ready), g)
         /\ \A g : Contains(Tail(ready), g) => Precedes(h, g) /\ Justified(g) /\ g \in Handles
         /\ \A f, g : Before(Tail(ready), f, g) =>
              Precedes(f, g) /\ Contains(Tail(ready), f) /\ Contains(Tail(ready), g)
<1>1. ready # <<>> /\ Head(ready) = h /\ ready \in Seq(Handles) /\ Types /\ InOrder /\ Accounted
  BY DEF Runs, Fifo, Types
<1>2. /\ Tail(ready) \in Seq(Handles) /\ h \in Handles
      /\ \A g : Contains(ready, g) <=> g = h \/ Contains(Tail(ready), g)
      /\ \A g : Contains(Tail(ready), g) => Before(ready, h, g)
      /\ \A f, g : Before(Tail(ready), f, g) => Before(ready, f, g)
  BY <1>1, AfterTail
<1>3. \A f, g : Before(Tail(ready), f, g) => Contains(Tail(ready), f) /\ Contains(Tail(ready), g)
  BY DEF Before, Contains
<1>4. /\ \A f, g : Before(ready, f, g) => Precedes(f, g)
      /\ \A g : Contains(ready, g) => Justified(g)
      /\ \A g : Contains(ready, g) => g \in Handles
  BY <1>1, QueueForm
<1> QED
  BY <1>2, <1>3, <1>4

-----------------------------------------------------------------------------
(* What the server sends.                                                  *)
LEMMA Records ==
  /\ \A t \in Tasks, ok \in BOOLEAN :
       /\ [kind |-> "reply", to |-> t, ok |-> ok] \in Stanzas
       /\ \A items \in Versions, v \in Nat :
            [kind |-> "reply", to |-> t, ok |-> ok, items |-> items, v |-> v] \in Stanzas
  /\ \A items \in Versions, v \in Nat : [kind |-> "push", items |-> items, v |-> v] \in Stanzas
  /\ \A j \in FullJids \cup {<<c, NoRes>> : c \in Contacts},
        type \in {"available", "unavailable"}, v \in Nat :
       [kind |-> "presence", from |-> j, type |-> type, show |-> "plain", v |-> v] \in Stanzas
  /\ \A nick \in Nicks, type \in {"available", "unavailable"}, codes \in Seq(Nat),
        owner \in BOOLEAN : RoomPresence(nick, type, codes, owner) \in Stanzas
  /\ \A from \in {Room, MeJid} : [kind |-> "refusal", from |-> from] \in Stanzas
<1>1. /\ \A t \in Tasks, ok \in BOOLEAN :
           [kind |-> "reply", to |-> t, ok |-> ok] \in [kind : {"reply"}, to : Tasks, ok : BOOLEAN]
      /\ \A t \in Tasks, ok \in BOOLEAN, items \in Versions, v \in Nat :
           [kind |-> "reply", to |-> t, ok |-> ok, items |-> items, v |-> v]
             \in [kind : {"reply"}, to : Tasks, ok : BOOLEAN, items : Versions, v : Nat]
      /\ \A items \in Versions, v \in Nat :
           [kind |-> "push", items |-> items, v |-> v] \in [kind : {"push"}, items : Versions, v : Nat]
  OBVIOUS
<1>2. \A j \in FullJids \cup {<<c, NoRes>> : c \in Contacts},
         type \in {"available", "unavailable"}, v \in Nat :
        [kind |-> "presence", from |-> j, type |-> type, show |-> "plain", v |-> v]
          \in [kind : {"presence"}, from : FullJids \cup (Contacts \X {NoRes}),
               type : {"available", "unavailable"}, show : {"plain"}, v : Nat]
  OBVIOUS
<1>3. \A nick \in Nicks, type \in {"available", "unavailable"}, codes \in Seq(Nat),
         owner \in BOOLEAN :
        RoomPresence(nick, type, codes, owner)
          \in [kind : {"room"}, from : {Room} \X Nicks, type : {"available", "unavailable"},
               codes : Seq(Nat), owner : BOOLEAN]
  BY DEF RoomPresence
<1>4. \A from \in {Room, MeJid} :
        [kind |-> "refusal", from |-> from] \in [kind : {"refusal"}, from : {Room, MeJid}]
  OBVIOUS
<1> QED
  BY <1>1, <1>2, <1>3, <1>4 DEF Stanzas

LEMMA Changes ==
  ASSUME Types, NEW j \in Contacts, NEW sub \in {"none", "both", "remove"}
  PROVE  /\ Len(rosterLog) \in Nat \ {0} /\ Latest(rosterLog) \in Versions
         /\ Changed(j, sub) \in Versions /\ Put(Empty, j, sub) \in Versions
         /\ Append(rosterLog, Changed(j, sub)) \in Seq(Versions)
         /\ Append(rosterLog, Changed(j, sub)) # <<>>
         /\ Len(Append(rosterLog, Changed(j, sub))) = Len(rosterLog) + 1
<1>1. Len(rosterLog) \in Nat \ {0}
  BY EmptySeq DEF Types
<1>2. Latest(rosterLog) \in Versions
  BY <1>1, ElementOfSeq DEF Types, Latest
<1>3. Changed(j, sub) \in Versions /\ Put(Empty, j, sub) \in Versions
  <2>1. PICK S \in SUBSET Contacts : Latest(rosterLog) \in [S -> {"none", "both", "remove"}]
    BY <1>2 DEF Versions
  <2>2. Drop(Latest(rosterLog), j) \in [S \ {j} -> {"none", "both", "remove"}]
    BY <2>1 DEF Drop
  <2>3. Put(Latest(rosterLog), j, sub) \in [{j} \cup S -> {"none", "both", "remove"}]
    BY <2>1 DEF Put
  <2>4. Put(Empty, j, sub) \in [{j} -> {"none", "both", "remove"}]
    BY DEF Put, Empty
  <2>5. S \ {j} \in SUBSET Contacts /\ {j} \cup S \in SUBSET Contacts /\ {j} \in SUBSET Contacts
    BY <2>1
  <2> QED
    BY <2>2, <2>3, <2>4, <2>5 DEF Versions, Changed
<1> QED
  BY <1>1, <1>2, <1>3, AppendProperties, EmptySeq DEF Types

LEMMA AllCodes ==
  /\ Codes.none \in Seq(Nat) /\ Codes.own \in Seq(Nat) /\ Codes.kicked \in Seq(Nat)
  /\ Codes.enter \in SUBSET Seq(Nat) /\ Codes.create \in SUBSET Seq(Nat)
  /\ Codes.kick \in SUBSET Seq(Nat) /\ Codes.rename \in SUBSET Seq(Nat)
BY DEF Codes

LEMMA RoomStanzas ==
  /\ RoomPresence(Guest, "available", Codes.none, FALSE) \in Stanzas
  /\ \A codes \in Codes.enter : RoomPresence(Me, "available", codes, FALSE) \in Stanzas
  /\ \A codes \in Codes.create : RoomPresence(Me, "available", codes, TRUE) \in Stanzas
  /\ \A codes \in {Codes.own} \cup Codes.kick \cup Codes.rename :
       RoomPresence(Me, "unavailable", codes, FALSE) \in Stanzas
  /\ RoomPresence(Renamed, "available", Codes.own, FALSE) \in Stanzas
  /\ RoomPresence(Guest, "unavailable", Codes.kicked, FALSE) \in Stanzas
BY Records, AllCodes DEF Nicks

LEMMA OneOrTwo ==
  ASSUME NEW d \in Stanzas, NEW e \in Stanzas
  PROVE  <<d>> \in Seq(Stanzas) /\ <<d, e>> \in Seq(Stanzas)
OBVIOUS

LEMMA Comings ==
  ASSUME Types, NEW j \in FullJids \cup {<<c, NoRes>> : c \in Contacts},
         NEW type \in {"available", "unavailable"}, NEW new,
         new = IF j[2] = NoRes THEN Latest(presenceLog)
               ELSE IF type = "available" THEN Put(Latest(presenceLog), j, "plain")
               ELSE Drop(Latest(presenceLog), j)
  PROVE  /\ Len(presenceLog) \in Nat \ {0} /\ Latest(presenceLog) \in Lists
         /\ new \in Lists
         /\ Append(presenceLog, new) \in Seq(Lists) /\ Append(presenceLog, new) # <<>>
<1>1. Len(presenceLog) \in Nat \ {0}
  BY EmptySeq DEF Types
<1>2. Latest(presenceLog) \in Lists
  BY <1>1, ElementOfSeq DEF Types, Latest
<1>3. new \in Lists
  <2>1. PICK S \in SUBSET FullJids : Latest(presenceLog) \in [S -> {"plain"}]
    BY <1>2 DEF Lists
  <2>2. j \in FullJids => Put(Latest(presenceLog), j, "plain") \in [{j} \cup S -> {"plain"}]
    BY <2>1 DEF Put
  <2>3. Drop(Latest(presenceLog), j) \in [S \ {j} -> {"plain"}]
    BY <2>1 DEF Drop
  <2>4. j[2] # NoRes => j \in FullJids
    OBVIOUS
  <2>5. S \ {j} \in SUBSET FullJids /\ (j \in FullJids => {j} \cup S \in SUBSET FullJids)
    BY <2>1
  <2> QED
    BY <1>2, <2>2, <2>3, <2>4, <2>5 DEF Lists
<1>4. /\ Append(presenceLog, new) \in Seq(Lists)
      /\ Len(Append(presenceLog, new)) = Len(presenceLog) + 1
  BY <1>3, AppendProperties DEF Types
<1> QED
  BY <1>1, <1>2, <1>3, <1>4, EmptySeq

LEMMA RoomVersions ==
  ASSUME Types
  PROVE  /\ Len(roomLog) \in Nat \ {0} /\ Latest(roomLog) \in SUBSET Nicks
         /\ \A S \in SUBSET Nicks : /\ Append(roomLog, S) \in Seq(SUBSET Nicks)
                                   /\ Append(roomLog, S) # <<>>
         /\ \A S, T \in SUBSET Nicks : /\ roomLog \o <<S, T>> \in Seq(SUBSET Nicks)
                                      /\ roomLog \o <<S, T>> # <<>>
<1>1. Len(roomLog) \in Nat \ {0}
  BY EmptySeq DEF Types
<1>2. Latest(roomLog) \in SUBSET Nicks
  BY <1>1, ElementOfSeq DEF Types, Latest
<1>3. ASSUME NEW S \in SUBSET Nicks
      PROVE  Append(roomLog, S) \in Seq(SUBSET Nicks) /\ Append(roomLog, S) # <<>>
  <2>1. /\ Append(roomLog, S) \in Seq(SUBSET Nicks)
        /\ Len(Append(roomLog, S)) = Len(roomLog) + 1
    BY AppendProperties DEF Types
  <2> QED
    BY <1>1, <2>1
<1>4. ASSUME NEW S \in SUBSET Nicks, NEW T \in SUBSET Nicks
      PROVE  roomLog \o <<S, T>> \in Seq(SUBSET Nicks) /\ roomLog \o <<S, T>> # <<>>
  <2>1. <<S, T>> \in Seq(SUBSET Nicks)
    OBVIOUS
  <2> QED
    BY <2>1, ConcatProperties, ConcatEqualIffEmpty DEF Types
<1> QED
  BY <1>1, <1>2, <1>3, <1>4

\* What a step of the server sends are one or two stanzas, or nothing.
LEMMA ServerSends ==
  ASSUME Types, Server
  PROVE  /\ UNCHANGED client
         /\ asked' \subseteq Requests /\ rosterLog' \in Seq(Versions) /\ rosterLog' # <<>>
         /\ presenceLog' \in Seq(Lists) /\ presenceLog' # <<>>
         /\ roomLog' \in Seq(SUBSET Nicks) /\ roomLog' # <<>>
         /\ UNCHANGED <<sent, ready>> \/ \E ss \in Seq(Stanzas) : Sends(ss)
<1>1. /\ asked \subseteq Requests /\ rosterLog \in Seq(Versions) /\ rosterLog # <<>>
      /\ presenceLog \in Seq(Lists) /\ presenceLog # <<>>
      /\ roomLog \in Seq(SUBSET Nicks) /\ roomLog # <<>>
      /\ \A a \in asked : a.task \in Tasks /\ \A ok \in BOOLEAN : Reply(a, ok) \in Stanzas
  BY Records DEF Types, Requests, Reply
<1>2. CASE AnswerGet
  <2>1. PICK a \in asked :
          /\ \/ Sends(<< [kind |-> "reply", to |-> a.task, ok |-> TRUE,
                          items |-> Latest(rosterLog), v |-> Len(rosterLog)] >>)
             \/ Sends(<< Reply(a, FALSE) >>)
          /\ asked' = asked \ {a}
          /\ UNCHANGED <<rosterLog, presenceLog, roomLog, news, client>>
    BY <1>2 DEF AnswerGet
  <2>2. Latest(rosterLog) \in Versions /\ Len(rosterLog) \in Nat
    BY EmptySeq, ElementOfSeq DEF Types, Latest
  <2>3. [kind |-> "reply", to |-> a.task, ok |-> TRUE,
         items |-> Latest(rosterLog), v |-> Len(rosterLog)] \in Stanzas
    BY <1>1, <2>2, Records
  <2> QED
    BY <1>1, <2>1, <2>3, OneOrTwo
<1>3. CASE ChangeRoster
  <2>1. PICK j \in Contacts, sub \in {"both", "remove"} :
          /\ rosterLog' = Append(rosterLog, Changed(j, sub))
          /\ \/ Sends(<< Push(j, sub, Len(rosterLog')) >>)
             \/ UNCHANGED <<sent, ready>>
          /\ UNCHANGED <<asked, presenceLog, roomLog, client>>
    BY <1>3 DEF ChangeRoster
  <2>2. /\ rosterLog' \in Seq(Versions) /\ rosterLog' # <<>> /\ Len(rosterLog') \in Nat
        /\ Put(Empty, j, sub) \in Versions
    BY <2>1, Changes
  <2>3. Push(j, sub, Len(rosterLog')) \in Stanzas
    BY <2>2, Records DEF Push
  <2> QED
    BY <1>1, <2>1, <2>2, <2>3, OneOrTwo
<1>4. CASE AnswerSet
  <2>1. PICK a \in asked, j \in Contacts, sub \in Settings :
          /\ asked' = asked \ {a}
          /\ rosterLog' = Append(rosterLog, Changed(j, sub))
          /\ Sends(<< Push(j, sub, Len(rosterLog')), Reply(a, TRUE) >>)
          /\ UNCHANGED <<presenceLog, roomLog, client>>
    BY <1>4 DEF AnswerSet
  <2>2. /\ rosterLog' \in Seq(Versions) /\ rosterLog' # <<>> /\ Len(rosterLog') \in Nat
        /\ Put(Empty, j, sub) \in Versions
    BY <2>1, Changes DEF Settings
  <2>3. Push(j, sub, Len(rosterLog')) \in Stanzas
    BY <2>2, Records DEF Push
  <2> QED
    BY <1>1, <2>1, <2>2, <2>3, OneOrTwo
<1>5. CASE SendPresence
  <2>1. PICK j \in FullJids \cup {<<c, NoRes>> : c \in Contacts},
             type \in {"available", "unavailable"} :
          /\ Sends(<< [kind |-> "presence", from |-> j, type |-> type, show |-> "plain",
                       v |-> Len(presenceLog) + 1] >>)
          /\ presenceLog' = Append(presenceLog,
               IF j[2] = NoRes THEN Latest(presenceLog)
               ELSE IF type = "available" THEN Put(Latest(presenceLog), j, "plain")
               ELSE Drop(Latest(presenceLog), j))
          /\ UNCHANGED <<asked, rosterLog, roomLog, client>>
    BY <1>5 DEF SendPresence
  <2>2. Len(presenceLog) \in Nat /\ presenceLog' \in Seq(Lists) /\ presenceLog' # <<>>
    BY <2>1, Comings
  <2>3. [kind |-> "presence", from |-> j, type |-> type, show |-> "plain",
         v |-> Len(presenceLog) + 1] \in Stanzas
    BY <2>2, Records
  <2>4. \E ss \in Seq(Stanzas) : Sends(ss)
    BY <2>1, <2>3, OneOrTwo
  <2> QED
    BY <1>1, <2>1, <2>2, <2>4
<1>6. CASE AnswerEnter
  <2>1. PICK a \in asked :
          /\ asked' = asked \ {a}
          /\ \/ /\ \E codes \in Codes.enter :
                     Sends(<< RoomPresence(Guest, "available", Codes.none, FALSE),
                              RoomPresence(Me, "available", codes, FALSE) >>)
                /\ roomLog' = roomLog \o << {Guest}, {Guest, Me} >>
             \/ /\ \E codes \in Codes.create :
                     Sends(<< RoomPresence(Me, "available", codes, TRUE) >>)
                /\ roomLog' = Append(roomLog, {Me})
             \/ /\ \E from \in {Room, MeJid} : Sends(<< [kind |-> "refusal", from |-> from] >>)
                /\ UNCHANGED roomLog
          /\ UNCHANGED <<rosterLog, presenceLog, client>>
    BY <1>6 DEF AnswerEnter
  <2>2. roomLog' \in Seq(SUBSET Nicks) /\ roomLog' # <<>>
    BY <1>1, <2>1, RoomVersions DEF Nicks
  <2>3. CASE \E codes \in Codes.enter :
               Sends(<< RoomPresence(Guest, "available", Codes.none, FALSE),
                        RoomPresence(Me, "available", codes, FALSE) >>)
    <3>1. PICK codes \in Codes.enter :
            Sends(<< RoomPresence(Guest, "available", Codes.none, FALSE),
                     RoomPresence(Me, "available", codes, FALSE) >>)
      BY <2>3
    <3> DEFINE d == RoomPresence(Guest, "available", Codes.none, FALSE)
               e == RoomPresence(Me, "available", codes, FALSE)
    <3>2. d \in Stanzas /\ e \in Stanzas /\ Sends(<<d, e>>)
      BY <3>1, RoomStanzas
    <3> HIDE DEF d, e
    <3> QED
      BY <1>1, <2>1, <2>2, <3>2, OneOrTwo
  <2>4. CASE \E codes \in Codes.create : Sends(<< RoomPresence(Me, "available", codes, TRUE) >>)
    <3>1. PICK codes \in Codes.create : Sends(<< RoomPresence(Me, "available", codes, TRUE) >>)
      BY <2>4
    <3> DEFINE d == RoomPresence(Me, "available", codes, TRUE)
    <3>2. d \in Stanzas /\ Sends(<<d>>)
      BY <3>1, RoomStanzas
    <3> HIDE DEF d
    <3> QED
      BY <1>1, <2>1, <2>2, <3>2, OneOrTwo
  <2>5. CASE \E from \in {Room, MeJid} : Sends(<< [kind |-> "refusal", from |-> from] >>)
    <3>1. PICK from \in {Room, MeJid} : Sends(<< [kind |-> "refusal", from |-> from] >>)
      BY <2>5
    <3> DEFINE d == [kind |-> "refusal", from |-> from]
    <3>2. d \in Stanzas /\ Sends(<<d>>)
      BY <3>1, Records
    <3> HIDE DEF d
    <3> QED
      BY <1>1, <2>1, <2>2, <3>2, OneOrTwo
  <2> QED
    BY <2>1, <2>3, <2>4, <2>5
<1>7. ASSUME NEW codes \in {Codes.own} \cup Codes.kick, SendGone(codes)
      PROVE  /\ roomLog' \in Seq(SUBSET Nicks) /\ roomLog' # <<>>
             /\ \E ss \in Seq(Stanzas) : Sends(ss)
  <2>1. RoomPresence(Me, "unavailable", codes, FALSE) \in Stanzas
    BY RoomStanzas
  <2> QED
    BY <1>7, <2>1, OneOrTwo, RoomVersions DEF SendGone
<1>8. CASE AnswerLeave
  BY <1>1, <1>7, <1>8 DEF AnswerLeave
<1>9. CASE Kick
  <2>1. PICK codes \in Codes.kick : SendGone(codes)
    BY <1>9 DEF Kick
  <2>2. UNCHANGED <<asked, rosterLog, presenceLog, client>>
    BY <1>9 DEF Kick
  <2>3. /\ roomLog' \in Seq(SUBSET Nicks) /\ roomLog' # <<>>
        /\ \E ss \in Seq(Stanzas) : Sends(ss)
    BY <1>7, <2>1
  <2> QED
    BY <1>1, <2>2, <2>3
<1>10. CASE Rename
  <2>1. PICK codes \in Codes.rename :
          Sends(<< RoomPresence(Me, "unavailable", codes, FALSE),
                   RoomPresence(Renamed, "available", Codes.own, FALSE) >>)
    BY <1>10 DEF Rename
  <2>2. /\ RoomPresence(Me, "unavailable", codes, FALSE) \in Stanzas
        /\ RoomPresence(Renamed, "available", Codes.own, FALSE) \in Stanzas
    BY RoomStanzas
  <2>3. PICK rest \in SUBSET Nicks : roomLog' = roomLog \o << rest, rest \cup {Renamed} >>
    BY <1>10, RoomVersions DEF Rename
  <2>4. roomLog' \in Seq(SUBSET Nicks) /\ roomLog' # <<>>
    <3>1. rest \cup {Renamed} \in SUBSET Nicks
      BY DEF Nicks
    <3> QED
      BY <2>3, <3>1, RoomVersions
  <2> QED
    BY <1>1, <1>10, <2>1, <2>2, <2>4, OneOrTwo DEF Rename
<1>11. CASE AnswerKick
  <2>1. PICK a \in asked :
          /\ asked' = asked \ {a}
          /\ Sends(<< RoomPresence(Guest, "unavailable", Codes.kicked, FALSE), Reply(a, TRUE) >>)
          /\ roomLog' = Append(roomLog, Latest(roomLog) \ {Guest})
          /\ UNCHANGED <<rosterLog, presenceLog, client>>
    BY <1>11 DEF AnswerKick
  <2>2. RoomPresence(Guest, "unavailable", Codes.kicked, FALSE) \in Stanzas
    BY RoomStanzas
  <2>3. roomLog' \in Seq(SUBSET Nicks) /\ roomLog' # <<>>
    BY <2>1, RoomVersions
  <2> QED
    BY <1>1, <2>1, <2>2, <2>3, OneOrTwo
<1>12. CASE AnswerIq
  BY <1>1, <1>12, OneOrTwo DEF AnswerIq
<1> QED
  BY <1>2, <1>3, <1>4, <1>5, <1>6, <1>8, <1>9, <1>10, <1>11, <1>12 DEF Server

-----------------------------------------------------------------------------
(* Fifo is inductive.                                                      *)
LEMMA NextQueue ==
  /\ (\A g, h : Before(ready', g, h) => Precedes(g, h)') => InOrder'
  /\ (\A h : Contains(ready', h) => Justified(h)') => Accounted'
BY DEF InOrder, Accounted, Before, Contains

LEMMA ParserJustified ==
  /\ Justified(TheParser) /\ Justified(TheParser)'
  /\ \A g : Precedes(TheParser, g) <=> g # TheParser /\ g[1] # "release"
  /\ \A g : Precedes(g, TheParser) <=> g # TheParser
BY DEF Justified, Precedes, TheParser, Handle, TaskSteps, Ops

LEMMA Sending ==
  ASSUME Types, NEW ss \in Seq(Stanzas), Sends(ss)
  PROVE  /\ sent' \in Seq(Stanzas) /\ Len(sent') = Len(sent) + Len(ss)
         /\ Len(sent) \in Nat /\ Len(ss) \in Nat
         /\ \A i \in 1 .. Len(sent) : sent'[i] = sent[i]
         /\ \A i \in 1 .. Len(ss) : sent'[Len(sent) + i] = ss[i]
         /\ \/ ready' = ready
            \/ ~Contains(ready, TheParser) /\ ready' = Append(ready, TheParser)
<1>1. /\ sent' = sent \o ss /\ sent \in Seq(Stanzas) /\ ready \in Seq(Handles)
      /\ ready' = IF \E k \in DOMAIN ready : ready[k] = TheParser THEN ready
                  ELSE Append(ready, TheParser)
  BY DEF Types, Sends
<1>2. Len(sent) \in Nat /\ Len(ss) \in Nat /\ DOMAIN ready = 1 .. Len(ready)
  BY <1>1, LenProperties
<1>3. /\ sent' \in Seq(Stanzas) /\ Len(sent') = Len(sent) + Len(ss)
      /\ \A i \in 1 .. Len(sent) + Len(ss) :
           sent'[i] = IF i <= Len(sent) THEN sent[i] ELSE ss[i - Len(sent)]
  BY <1>1, ConcatProperties
<1>4. \A i \in 1 .. Len(sent) : sent'[i] = sent[i]
  BY <1>2, <1>3
<1>5. \A i \in 1 .. Len(ss) : sent'[Len(sent) + i] = ss[i]
  <2> SUFFICES ASSUME NEW i \in 1 .. Len(ss) PROVE sent'[Len(sent) + i] = ss[i]
    OBVIOUS
  <2> DEFINE k == Len(sent) + i
  <2>1. k \in 1 .. Len(sent) + Len(ss) /\ ~(k <= Len(sent)) /\ k - Len(sent) = i
    BY <1>2
  <2> HIDE DEF k
  <2>2. sent'[k] = ss[i]
    BY <1>3, <2>1
  <2> QED
    BY <2>2 DEF k
<1> QED
  BY <1>1, <1>2, <1>3, <1>4, <1>5 DEF Contains

LEMMA FifoServer == Fifo /\ Server => Fifo'
<1> SUFFICES ASSUME Fifo, Server PROVE Fifo'
  OBVIOUS
<1>1. Types /\ InOrder /\ Accounted /\ AllScheduled /\ Given
  BY DEF Fifo
<1>2. /\ UNCHANGED client /\ asked' \subseteq Requests
      /\ rosterLog' \in Seq(Versions) /\ rosterLog' # <<>>
      /\ presenceLog' \in Seq(Lists) /\ presenceLog' # <<>>
      /\ roomLog' \in Seq(SUBSET Nicks) /\ roomLog' # <<>>
      /\ UNCHANGED <<sent, ready>> \/ \E ss \in Seq(Stanzas) : Sends(ss)
  BY <1>1, ServerSends
<1>3. /\ sent' \in Seq(Stanzas) /\ Len(sent) \in Nat /\ Len(sent') \in Nat
      /\ Len(sent) <= Len(sent')
      /\ \A i \in 1 .. Len(sent) : sent'[i] = sent[i]
      /\ \/ ready' = ready
         \/ ~Contains(ready, TheParser) /\ ready' = Append(ready, TheParser)
  <2>1. CASE UNCHANGED <<sent, ready>>
    BY <1>1, <2>1, LenProperties DEF Types
  <2>2. CASE \E ss \in Seq(Stanzas) : Sends(ss)
    <3>1. PICK ss \in Seq(Stanzas) : Sends(ss)
      BY <2>2
    <3>2. /\ sent' \in Seq(Stanzas) /\ Len(sent') = Len(sent) + Len(ss)
          /\ Len(sent) \in Nat /\ Len(ss) \in Nat
          /\ \A i \in 1 .. Len(sent) : sent'[i] = sent[i]
          /\ \/ ready' = ready
             \/ ~Contains(ready, TheParser) /\ ready' = Append(ready, TheParser)
      BY <1>1, <3>1, Sending
    <3> QED
      BY <3>2
  <2> QED
    BY <1>2, <2>1, <2>2
<1>4. /\ UNCHANGED <<scenario, parsed, applied, scan, waiting, got, pc>>
  BY <1>2 DEF client, loop, tasks, data
<1>5. /\ ready' \in Seq(Handles)
      /\ \A g : Contains(ready, g) => Contains(ready', g)
      /\ \A g : Contains(ready', g) => Contains(ready, g) \/ g = TheParser
      /\ \A g, h : Before(ready', g, h) =>
           Before(ready, g, h) \/ (Contains(ready, g) /\ g # TheParser /\ h = TheParser)
  <2>1. CASE ready' = ready
    BY <1>1, <2>1 DEF Types
  <2>2. CASE ~Contains(ready, TheParser) /\ ready' = Append(ready, TheParser)
    <3>1. ready \in Seq(Handles) /\ TheParser \in Handles
      BY <1>1, Kinds DEF Types
    <3>2. /\ Append(ready, TheParser) \in Seq(Handles)
          /\ \A g : Contains(Append(ready, TheParser), g) <=> Contains(ready, g) \/ g = TheParser
          /\ \A g, h : Before(Append(ready, TheParser), g, h) =>
               Before(ready, g, h) \/ (Contains(ready, g) /\ h = TheParser)
      BY <3>1, AfterAppend
    <3> QED
      BY <2>2, <3>2
  <2> QED
    BY <1>3, <2>1, <2>2
<1>6. Types'
  BY <1>1, <1>2, <1>3, <1>4, <1>5 DEF Types
<1>7. InOrder'
  <2> SUFFICES ASSUME NEW g, NEW h, Before(ready', g, h) PROVE Precedes(g, h)'
    BY NextQueue
  <2>1. Precedes(g, h)
    <3>1. CASE Before(ready, g, h)
      BY <1>1, <3>1, QueueForm
    <3>2. CASE Contains(ready, g) /\ g # TheParser /\ h = TheParser
      BY <3>2, ParserJustified
    <3> QED
      BY <1>5, <3>1, <3>2
  <2> QED
    BY <1>4, <2>1 DEF Precedes
<1>8. Accounted'
  <2> SUFFICES ASSUME NEW h, Contains(ready', h) PROVE Justified(h)'
    BY NextQueue
  <2>1. Justified(h) /\ h \in Handles
    BY <1>1, <1>5, QueueForm, Kinds, ParserJustified
  <2>2. h[1] \in {"release", "wake", "found"} => sent'[got[h[2]]] = sent[got[h[2]]]
    BY <1>1, <1>3, <2>1 DEF Justified, Types
  <2> QED
    BY <1>4, <2>1, <2>2 DEF Justified
<1>9. AllScheduled'
  BY <1>1, <1>4, <1>5 DEF AllScheduled
<1>10. Given'
  <2>1. \A t \in scan : sent'[parsed] = sent[parsed]
    BY <1>1, <1>3 DEF Given, Types
  <2> QED
    BY <1>1, <1>4, <1>5, <2>1 DEF Given
<1> QED
  BY <1>6, <1>7, <1>8, <1>9, <1>10 DEF Fifo

LEMMA FifoParseNext == Fifo /\ ParseNext => Fifo'
<1> SUFFICES ASSUME Fifo, ParseNext PROVE Fifo'
  OBVIOUS
<1> DEFINE new == Handle("mixins", parsed + 1)
<1>1. /\ Types /\ InOrder /\ Accounted /\ AllScheduled /\ Given
      /\ Runs(TheParser) /\ parsed < Len(sent)
      /\ parsed' = parsed + 1 /\ ready' = Append(ready, new)
      /\ scan' = {t \in waiting : Wants(pc[t], t, sent[parsed + 1])}
      /\ UNCHANGED <<sent, asked, rosterLog, presenceLog, roomLog, scenario,
                     applied, waiting, got, pc>>
  BY DEF Fifo, ParseNext, server, data
<1>2. /\ ready \in Seq(Handles) /\ new \in Handles /\ Len(sent) \in Nat
      /\ new[1] = "mixins" /\ new[2] = parsed + 1 /\ parsed \in Nat /\ applied \in 0 .. parsed
      /\ \A t \in Tasks : got[t] \in 0 .. parsed
  BY <1>1, Kinds, LenProperties DEF Types
<1> HIDE DEF new
<1>3. /\ ready' \in Seq(Handles)
      /\ \A g : Contains(ready', g) <=> Contains(ready, g) \/ g = new
      /\ \A g, h : Before(ready', g, h) => Before(ready, g, h) \/ (Contains(ready, g) /\ h = new)
  BY <1>1, <1>2, AfterAppend
<1>4. /\ \A g : Contains(ready, g) => g \in Handles /\ Justified(g) /\ g[1] # "release"
      /\ \A g, h : Before(ready, g, h) => Precedes(g, h)
  BY <1>1, AtHead, ParserJustified, QueueForm, Kinds
<1>5. Types'
  <2>1. got' \in [Tasks -> 0 .. parsed'] /\ parsed' \in 0 .. Len(sent') /\ applied' \in 0 .. parsed'
    <3>1. got \in [Tasks -> 0 .. parsed]
      BY <1>1 DEF Types
    <3> QED
      BY <1>1, <1>2, <3>1
  <2> QED
    BY <1>1, <1>3, <2>1 DEF Types
<1>6. InOrder'
  <2> SUFFICES ASSUME NEW g, NEW h, Before(ready', g, h) PROVE Precedes(g, h)'
    BY NextQueue
  <2>1. CASE Before(ready, g, h)
    BY <1>1, <1>4, <2>1 DEF Precedes
  <2>2. CASE Contains(ready, g) /\ h = new
    <3>1. Justified(g) /\ g \in Handles
      BY <1>4, <2>2
    <3>2. g[1] = "mixins" => g[2] < new[2]
      BY <1>2, <3>1 DEF Justified
    <3>3. g[1] \in {"release", "wake"} => got[g[2]] < new[2]
      BY <1>2, <3>1, Kinds
    <3> QED
      BY <1>1, <1>2, <2>2, <3>2, <3>3, Kinds DEF Precedes
  <2> QED
    BY <1>3, <2>1, <2>2
<1>7. Accounted'
  <2> SUFFICES ASSUME NEW h, Contains(ready', h) PROVE Justified(h)'
    BY NextQueue
  <2>1. CASE Contains(ready, h)
    <3>1. Justified(h) /\ h[1] # "release"
      BY <1>4, <2>1
    <3> QED
      BY <1>1, <1>2, <3>1 DEF Justified
  <2>2. CASE h = new
    BY <1>1, <1>2, <2>2, Kinds DEF Justified, TaskSteps, Ops
  <2> QED
    BY <1>3, <2>1, <2>2
<1>8. AllScheduled'
  <2> SUFFICES ASSUME NEW i \in applied + 1 .. parsed + 1
               PROVE  Contains(ready', Handle("mixins", i))
    BY <1>1 DEF AllScheduled
  <2>1. i \in applied + 1 .. parsed \/ i = parsed + 1
    BY <1>2
  <2> QED
    BY <1>1, <1>3, <2>1 DEF AllScheduled, new
<1>9. Given'
  BY <1>1, <1>2, <1>3 DEF Given
<1> QED
  BY <1>5, <1>6, <1>7, <1>8, <1>9 DEF Fifo

LEMMA FifoMatch == ASSUME Fifo, NEW t \in Tasks, Match(t) PROVE Fifo'
<1> DEFINE release == Handle("release", t)
<1>1. /\ Types /\ InOrder /\ Accounted /\ AllScheduled /\ Given
      /\ Runs(TheParser) /\ t \in scan
      /\ got' = [got EXCEPT ![t] = parsed] /\ waiting' = waiting \ {t} /\ scan' = scan \ {t}
      /\ ready' = Tail(ready) \o << release, TheParser >>
      /\ UNCHANGED <<sent, asked, rosterLog, presenceLog, roomLog, scenario,
                     parsed, applied, pc>>
  BY DEF Fifo, Match, Complete, server, data
<1>2. /\ release \in Handles /\ release[1] = "release" /\ release[2] = t
      /\ TheParser \in Handles /\ t \in waiting
      /\ got \in [Tasks -> 0 .. parsed] /\ parsed \in Nat /\ parsed > 0
      /\ Wants(pc[t], t, sent[parsed])
      /\ got' \in [Tasks -> 0 .. parsed] /\ got'[t] = parsed
      /\ \A u \in Tasks : u # t => got'[u] = got[u]
  <2>1. /\ release \in Handles /\ release[1] = "release" /\ release[2] = t
        /\ TheParser \in Handles
    BY Kinds
  <2>2. /\ t \in waiting /\ got \in [Tasks -> 0 .. parsed] /\ parsed \in Nat
    BY <1>1 DEF Types
  <2>3. parsed > 0 /\ Wants(pc[t], t, sent[parsed])
    BY <1>1 DEF Given
  <2>4. /\ got' \in [Tasks -> 0 .. parsed] /\ got'[t] = parsed
        /\ \A u \in Tasks : u # t => got'[u] = got[u]
    BY <1>1, <2>2
  <2> QED
    BY <2>1, <2>2, <2>3, <2>4
<1> HIDE DEF release
<1>3. /\ Tail(ready) \in Seq(Handles)
      /\ \A g : Contains(ready, g) <=> g = TheParser \/ Contains(Tail(ready), g)
      /\ \A g : Contains(Tail(ready), g) => Precedes(TheParser, g) /\ Justified(g) /\ g \in Handles
      /\ \A f, g : Before(Tail(ready), f, g) =>
           Precedes(f, g) /\ Contains(Tail(ready), f) /\ Contains(Tail(ready), g)
  BY <1>1, AtHead
<1>4. /\ ready' \in Seq(Handles)
      /\ \A g : Contains(ready', g) <=> Contains(Tail(ready), g) \/ g = release \/ g = TheParser
      /\ \A g, h : Before(ready', g, h) =>
           \/ Before(Tail(ready), g, h) \/ (Contains(Tail(ready), g) /\ h \in {release, TheParser})
           \/ (g = release /\ h = TheParser)
  <2> DEFINE rest == Tail(ready)
  <2>1. rest \in Seq(Handles) /\ release \in Handles /\ TheParser \in Handles
    BY <1>2, <1>3
  <2> HIDE DEF rest
  <2>2. /\ rest \o <<release, TheParser>> \in Seq(Handles)
        /\ \A g : Contains(rest \o <<release, TheParser>>, g)
                   <=> Contains(rest, g) \/ g = release \/ g = TheParser
        /\ \A g, h : Before(rest \o <<release, TheParser>>, g, h) =>
             \/ Before(rest, g, h) \/ (Contains(rest, g) /\ h \in {release, TheParser})
             \/ (g = release /\ h = TheParser)
    BY <2>1, AfterTwo
  <2> QED
    BY <1>1, <2>2 DEF rest
<1>5. \A g : Contains(Tail(ready), g) =>
        g # TheParser /\ (g[1] \in TaskSteps => g[2] \in Tasks /\ g[2] # t)
  BY <1>2, <1>3, ParserJustified, Kinds DEF Justified
<1>6. Types'
  BY <1>1, <1>2, <1>4 DEF Types
<1>7. InOrder'
  <2> SUFFICES ASSUME NEW g, NEW h, Before(ready', g, h) PROVE Precedes(g, h)'
    BY NextQueue
  <2>1. CASE Before(Tail(ready), g, h)
    <3>1. /\ Precedes(g, h)
          /\ g[1] \in TaskSteps => g[2] \in Tasks /\ g[2] # t
          /\ h[1] \in TaskSteps => h[2] \in Tasks /\ h[2] # t
      BY <1>3, <1>5, <2>1
    <3> QED
      BY <1>2, <3>1, Kinds DEF Precedes
  <2>2. CASE Contains(Tail(ready), g) /\ h = release
    <3>1. /\ Justified(g) /\ g # TheParser /\ g \in Handles
          /\ g[1] \in TaskSteps => g[2] # t
      BY <1>3, <1>5, <2>2
    <3>2. g[1] # "parser"
      BY <3>1, Kinds
    <3>3. g[1] = "mixins" => g[2] <= parsed
      BY <1>2, <3>1 DEF Justified
    <3> QED
      BY <1>2, <2>2, <3>1, <3>2, <3>3, Kinds DEF Precedes
  <2>3. CASE h = TheParser /\ g # TheParser
    BY <2>3, ParserJustified, Kinds DEF Precedes
  <2>4. release # TheParser
    BY <1>2, Kinds
  <2> QED
    BY <1>4, <1>5, <2>1, <2>2, <2>3, <2>4
<1>8. Accounted'
  <2> SUFFICES ASSUME NEW h, Contains(ready', h) PROVE Justified(h)'
    BY NextQueue
  <2>1. CASE Contains(Tail(ready), h)
    <3>1. /\ Justified(h)
          /\ h[1] \in TaskSteps => h[2] \in Tasks /\ h[2] # t
      BY <1>3, <1>5, <2>1
    <3> QED
      BY <1>1, <1>2, <3>1, Kinds DEF Justified
  <2>2. CASE h = release
    <3>1. pc[t] \notin {"idle", "failed"}
      BY <1>2 DEF Wants
    <3> QED
      BY <1>1, <1>2, <2>2, <3>1, Kinds DEF Justified, Ops
  <2> QED
    BY <1>4, <2>1, <2>2, ParserJustified
<1>9. AllScheduled'
  <2> SUFFICES ASSUME NEW i \in applied + 1 .. parsed
               PROVE  Contains(ready', Handle("mixins", i))
    BY <1>1 DEF AllScheduled
  <2>1. Contains(ready, Handle("mixins", i)) /\ Handle("mixins", i) # TheParser
    BY <1>1, Kinds DEF AllScheduled
  <2> QED
    BY <1>3, <1>4, <2>1
<1>10. Given'
  <2>1. /\ \A u \in scan' : parsed' > 0 /\ Wants(pc'[u], u, sent'[parsed'])
        /\ \A u \in waiting' : pc'[u] \in Awaited
    BY <1>1 DEF Given
  <2>2. ASSUME NEW u \in Tasks, pc'[u] = "get"
        PROVE  u \in waiting' \/ \E w \in {"release", "wake"} : Contains(ready', Handle(w, u))
    <3>1. CASE u = t
      BY <1>4, <3>1 DEF release
    <3>2. CASE u # t /\ u \in waiting
      BY <1>1, <3>2
    <3>3. CASE u \notin waiting
      <4>1. PICK w \in {"release", "wake"} : Contains(ready, Handle(w, u))
        BY <1>1, <2>2, <3>3 DEF Given
      <4>2. Handle(w, u) # TheParser
        BY Kinds
      <4> QED
        BY <1>3, <1>4, <4>1, <4>2
    <3> QED
      BY <3>1, <3>2, <3>3
  <2> QED
    BY <2>1, <2>2 DEF Given
<1> QED
  BY <1>6, <1>7, <1>8, <1>9, <1>10 DEF Fifo

LEMMA FifoParserSleeps == Fifo /\ ParserSleeps => Fifo'
<1> SUFFICES ASSUME Fifo, ParserSleeps PROVE Fifo'
  OBVIOUS
<1>1. /\ Types /\ InOrder /\ Accounted /\ AllScheduled /\ Given
      /\ Runs(TheParser) /\ ready' = Tail(ready)
      /\ UNCHANGED <<sent, asked, rosterLog, presenceLog, roomLog, scenario,
                     parsed, applied, scan, waiting, got, pc>>
  BY DEF Fifo, ParserSleeps, server, data, tasks
<1>2. /\ ready' \in Seq(Handles)
      /\ \A g : Contains(ready, g) <=> g = TheParser \/ Contains(ready', g)
      /\ \A g : Contains(ready', g) => Justified(g)
      /\ \A f, g : Before(ready', f, g) => Precedes(f, g)
  BY <1>1, AtHead
<1>3. Types'
  BY <1>1, <1>2 DEF Types
<1>4. InOrder' /\ Accounted'
  BY <1>1, <1>2, NextQueue DEF Precedes, Justified
<1>5. AllScheduled' /\ Given'
  BY <1>1, <1>2, Kinds DEF AllScheduled, Given
<1> QED
  BY <1>3, <1>4, <1>5 DEF Fifo

LEMMA FifoRunMixins == ASSUME Fifo, NEW i \in 1 .. parsed, RunMixins(i) PROVE Fifo'
<1>1. /\ Types /\ InOrder /\ Accounted /\ AllScheduled /\ Given
      /\ Runs(Handle("mixins", i)) /\ ready' = Tail(ready) /\ applied' = i
      /\ UNCHANGED <<sent, asked, rosterLog, presenceLog, roomLog, scenario,
                     parsed, scan, waiting, got, pc>>
  BY DEF Fifo, RunMixins, server, tasks
<1>2. /\ i = applied + 1 /\ parsed \in Nat /\ applied \in Nat
      /\ \A t \in Tasks, w \in {"release", "wake"} :
           Contains(ready, Handle(w, t)) => i <= got[t]
  BY <1>1, MixinsInOrder DEF Types
<1>3. /\ ready' \in Seq(Handles)
      /\ \A g : Contains(ready, g) <=> g = Handle("mixins", i) \/ Contains(ready', g)
      /\ \A g : Contains(ready', g) =>
           Justified(g) /\ Precedes(Handle("mixins", i), g) /\ g \in Handles
      /\ \A f, g : Before(ready', f, g) => Precedes(f, g)
  BY <1>1, AtHead
<1>4. Types'
  BY <1>1, <1>3 DEF Types
<1>5. InOrder'
  BY <1>1, <1>3, NextQueue DEF Precedes
<1>6. Accounted'
  <2> SUFFICES ASSUME NEW h, Contains(ready', h) PROVE Justified(h)'
    BY NextQueue
  <2>1. Justified(h) /\ Precedes(Handle("mixins", i), h) /\ h \in Handles
    BY <1>3
  <2>2. h[1] = "mixins" => h[2] \in i + 1 .. parsed
    BY <1>2, <2>1, Kinds DEF Precedes, Justified
  <2>3. h[1] = "wake" => i <= got[h[2]]
    BY <1>2, <1>3, <2>1, Kinds
  <2> QED
    BY <1>1, <2>1, <2>2, <2>3 DEF Justified
<1>7. AllScheduled'
  <2> SUFFICES ASSUME NEW k \in i + 1 .. parsed PROVE Contains(ready', Handle("mixins", k))
    BY <1>1 DEF AllScheduled
  <2>1. k \in applied + 1 .. parsed /\ k # i
    BY <1>2
  <2>2. Handle("mixins", k) # Handle("mixins", i)
    BY <2>1, Kinds
  <2> QED
    BY <1>1, <1>3, <2>1, <2>2 DEF AllScheduled
<1>8. Given'
  <2>1. \A w \in {"release", "wake"}, t \in Tasks : Handle(w, t) # Handle("mixins", i)
    BY Kinds
  <2> QED
    BY <1>1, <1>3, <2>1 DEF Given
<1> QED
  BY <1>4, <1>5, <1>6, <1>7, <1>8 DEF Fifo

LEMMA FifoRelease == ASSUME Fifo, NEW t \in Tasks, Release(t) PROVE Fifo'
<1> DEFINE release == Handle("release", t)
           wake    == Handle("wake", t)
           rest    == Tail(ready)
<1>1. /\ Types /\ InOrder /\ Accounted /\ AllScheduled /\ Given
      /\ Runs(release) /\ ready' = Append(rest, wake)
      /\ UNCHANGED <<sent, asked, rosterLog, presenceLog, roomLog, scenario,
                     parsed, applied, scan, waiting, got, pc>>
  BY DEF Fifo, Release, server, tasks, data
<1>2. /\ release[1] = "release" /\ release[2] = t /\ wake[1] = "wake" /\ wake[2] = t
      /\ wake \in Handles /\ release \in Handles
  BY Kinds
<1>3. /\ rest \in Seq(Handles) /\ Justified(release)
      /\ \A g : Contains(ready, g) <=> g = release \/ Contains(rest, g)
      /\ \A g : Contains(rest, g) => Precedes(release, g) /\ Justified(g) /\ g \in Handles
      /\ \A f, g : Before(rest, f, g) => Precedes(f, g)
  BY <1>1, AtHead
<1> HIDE DEF release, wake, rest
<1>4. /\ ready' \in Seq(Handles)
      /\ \A g : Contains(ready', g) <=> Contains(rest, g) \/ g = wake
      /\ \A g, h : Before(ready', g, h) => Before(rest, g, h) \/ (Contains(rest, g) /\ h = wake)
  BY <1>1, <1>2, <1>3, AfterAppend
<1>5. got[t] = parsed /\ applied \in 0 .. parsed /\ parsed \in Nat
  BY <1>1, <1>2, <1>3 DEF Justified, Types
<1>6. Types'
  BY <1>1, <1>4 DEF Types
<1>7. InOrder'
  <2> SUFFICES ASSUME NEW g, NEW h, Before(ready', g, h) PROVE Precedes(g, h)
    BY <1>1, NextQueue DEF Precedes
  <2>1. CASE Contains(rest, g) /\ h = wake
    <3>1. Precedes(release, g) /\ Justified(g) /\ g \in Handles
      BY <1>3, <2>1
    <3>2. g[1] \in TaskSteps => g[2] # t
      BY <1>2, <3>1, Kinds DEF Precedes
    <3>3. g[1] = "mixins" => g[2] <= got[t]
      BY <1>5, <3>1 DEF Justified
    <3> QED
      BY <1>2, <2>1, <3>2, <3>3, Kinds DEF Precedes
  <2> QED
    BY <1>3, <1>4, <2>1
<1>8. Accounted'
  <2> SUFFICES ASSUME NEW h, Contains(ready', h) PROVE Justified(h)
    BY <1>1, NextQueue DEF Justified
  <2>1. Justified(wake)
    BY <1>2, <1>3, <1>5, Kinds DEF Justified, Ops
  <2> QED
    BY <1>3, <1>4, <2>1
<1>9. AllScheduled'
  <2> SUFFICES ASSUME NEW i \in applied + 1 .. parsed
               PROVE  Contains(ready', Handle("mixins", i))
    BY <1>1 DEF AllScheduled
  <2>1. Contains(ready, Handle("mixins", i)) /\ Handle("mixins", i) # release
    BY <1>1, <1>2, Kinds DEF AllScheduled
  <2> QED
    BY <1>3, <1>4, <2>1
<1>10. Given'
  <2> SUFFICES ASSUME NEW u \in Tasks, pc[u] = "get", u \notin waiting
               PROVE  \E w \in {"release", "wake"} : Contains(ready', Handle(w, u))
    BY <1>1 DEF Given
  <2>1. CASE u = t
    BY <1>4, <2>1 DEF wake
  <2>2. CASE u # t
    <3>1. PICK w \in {"release", "wake"} : Contains(ready, Handle(w, u))
      BY <1>1 DEF Given
    <3>2. Handle(w, u) # release
      BY <1>2, <2>2, Kinds
    <3> QED
      BY <1>3, <1>4, <3>1, <3>2
  <2> QED
    BY <2>1, <2>2
<1> QED
  BY <1>6, <1>7, <1>8, <1>9, <1>10 DEF Fifo

LEMMA MayCall ==
  ASSUME Types, NEW t \in Tasks, NEW op \in scenario.may[t]
  PROVE  op \in Ops
BY SessionAssumption DEF Types, Ops

LEMMA FifoDue ==
  ASSUME Fifo, NEW t \in Tasks, NEW op \in scenario.may[t], Due(t, op)
  PROVE  Fifo'
<1> DEFINE new == Handle(op, t)
<1>1. /\ Types /\ InOrder /\ Accounted /\ AllScheduled /\ Given
      /\ pc[t] = "idle" /\ pc' = [pc EXCEPT ![t] = "due"] /\ ready' = Append(ready, new)
      /\ UNCHANGED <<sent, asked, rosterLog, presenceLog, roomLog, scenario,
                     parsed, applied, scan, waiting, got>>
  BY DEF Fifo, Due, server, data
<1>2. op \in Ops
  BY <1>1, MayCall
<1>3. /\ new[1] = op /\ new[2] = t /\ new \in Handles /\ ready \in Seq(Handles)
      /\ op \in TaskSteps /\ op \notin {"release", "wake", "found", "mixins", "parser"}
  BY <1>1, <1>2, Kinds DEF TaskSteps, Types, Ops
<1> HIDE DEF new
<1>4. /\ \A g : Contains(ready, g) => Justified(g) /\ g \in Handles
      /\ \A g, h : Before(ready, g, h) => Precedes(g, h) /\ Contains(ready, g) /\ Contains(ready, h)
  BY <1>1, QueueForm
<1>5. /\ ready' \in Seq(Handles)
      /\ \A g : Contains(ready', g) <=> Contains(ready, g) \/ g = new
      /\ \A g, h : Before(ready', g, h) => Before(ready, g, h) \/ (Contains(ready, g) /\ h = new)
  BY <1>1, <1>3, AfterAppend
<1>6. \A g : Contains(ready, g) /\ g[1] \in TaskSteps => g[2] \in Tasks /\ g[2] # t
  BY <1>1, <1>4, Kinds DEF Justified
<1>7. /\ pc \in [Tasks -> {"idle", "due", "failed"} \cup Awaited]
      /\ pc'[t] = "due" /\ \A u \in Tasks : u # t => pc'[u] = pc[u]
  BY <1>1 DEF Types
<1>8. t \notin waiting
  BY <1>1 DEF Given, Awaited, Ops
<1>9. Types'
  BY <1>1, <1>5, <1>7 DEF Types
<1>10. InOrder'
  <2> SUFFICES ASSUME NEW g, NEW h, Before(ready', g, h) PROVE Precedes(g, h)
    BY <1>1, NextQueue DEF Precedes
  <2>1. CASE Contains(ready, g) /\ h = new
    <3>1. g \in Handles /\ (g[1] \in TaskSteps => g[2] # t)
      BY <1>4, <1>6, <2>1
    <3> QED
      BY <1>3, <2>1, <3>1, Kinds DEF Precedes
  <2> QED
    BY <1>4, <1>5, <2>1
<1>11. Accounted'
  <2> SUFFICES ASSUME NEW h, Contains(ready', h) PROVE Justified(h)'
    BY NextQueue
  <2>1. CASE Contains(ready, h)
    <3>1. Justified(h) /\ (h[1] \in TaskSteps => h[2] \in Tasks /\ h[2] # t)
      BY <1>4, <1>6, <2>1
    <3> QED
      BY <1>1, <1>7, <3>1, Kinds DEF Justified, TaskSteps
  <2>2. CASE h = new
    BY <1>1, <1>2, <1>3, <1>7, <1>8, <2>2 DEF Justified
  <2> QED
    BY <1>5, <2>1, <2>2
<1>12. AllScheduled'
  BY <1>1, <1>5 DEF AllScheduled
<1>13. Given'
  <2>1. \A u \in waiting : u # t
    BY <1>8
  <2> QED
    BY <1>1, <1>5, <1>7, <2>1 DEF Given, Types
<1> QED
  BY <1>9, <1>10, <1>11, <1>12, <1>13 DEF Fifo

\* A task goes on: its call is over, it waits, or finds what it wants.
LEMMA FifoGoesOn ==
  ASSUME Fifo, NEW t \in Tasks, NEW how \in TaskSteps, Runs(Handle(how, t)),
         NEW op \in {"idle", "failed"} \cup (Awaited \ {"get"}),
         pc' = [pc EXCEPT ![t] = op], asked' \subseteq Requests,
         UNCHANGED <<sent, rosterLog, presenceLog, roomLog, scenario, parsed, applied, scan>>,
         \/ op \in {"idle", "failed"} /\ ready' = Tail(ready) /\ UNCHANGED <<got, waiting>>
         \/ /\ op \in Awaited /\ ready' = Tail(ready) /\ waiting' = waiting \cup {t}
            /\ UNCHANGED got
         \/ \E i \in 1 .. parsed :
              /\ op \in Awaited /\ Wants(op, t, sent[i]) /\ got' = [got EXCEPT ![t] = i]
              /\ ready' = << Handle("found", t) >> \o Tail(ready) /\ UNCHANGED waiting
  PROVE  Fifo'
<1> DEFINE head  == Handle(how, t)
           found == Handle("found", t)
           rest  == Tail(ready)
<1>1. /\ Types /\ InOrder /\ Accounted /\ AllScheduled /\ Given
      /\ head[1] = how /\ head[2] = t /\ how # "mixins" /\ how # "parser"
      /\ found[1] = "found" /\ found[2] = t /\ found \in Handles
  BY Kinds DEF Fifo
<1>2. /\ rest \in Seq(Handles) /\ Justified(head)
      /\ \A g : Contains(ready, g) <=> g = head \/ Contains(rest, g)
      /\ \A g : Contains(rest, g) => Precedes(head, g) /\ Justified(g) /\ g \in Handles
      /\ \A f, g : Before(rest, f, g) => Precedes(f, g) /\ Contains(rest, f) /\ Contains(rest, g)
  BY AtHead
<1> HIDE DEF head, found, rest
<1>3. t \notin waiting /\ t \notin scan
  BY <1>1, <1>2 DEF Justified, Types
<1>4. \A g : Contains(rest, g) /\ g[1] \in TaskSteps => g[2] \in Tasks /\ g[2] # t
  BY <1>1, <1>2, Kinds DEF Precedes
<1>5. /\ pc \in [Tasks -> {"idle", "due", "failed"} \cup Awaited] /\ got \in [Tasks -> 0 .. parsed]
      /\ pc'[t] = op /\ \A u \in Tasks : u # t => pc'[u] = pc[u]
      /\ \A u \in Tasks : u # t => got'[u] = got[u]
  BY <1>1 DEF Types
<1>6. /\ rest \in Seq(Handles) /\ ready' \in Seq(Handles)
      /\ \A g : Contains(rest, g) => Contains(ready', g)
      /\ \A g : Contains(ready', g) => Contains(rest, g) \/ (g = found /\ waiting' = waiting)
      /\ \A g, h : Before(ready', g, h) => Before(rest, g, h) \/ (g = found /\ Contains(rest, h))
  <2>1. CASE ready' = rest
    BY <1>2, <2>1
  <2>2. CASE ready' = << found >> \o rest /\ UNCHANGED waiting
    <3>1. /\ << found >> \o rest \in Seq(Handles)
          /\ \A g : Contains(<< found >> \o rest, g) <=> g = found \/ Contains(rest, g)
          /\ \A g, h : Before(<< found >> \o rest, g, h) =>
               Before(rest, g, h) \/ (g = found /\ Contains(rest, h))
      BY <1>1, <1>2, AfterHead
    <3> QED
      BY <1>2, <2>2, <3>1
  <2> QED
    BY <2>1, <2>2 DEF rest, found
<1>7. Types'
  <2>1. got' \in [Tasks -> 0 .. parsed]
    BY <1>5
  <2>2. pc' \in [Tasks -> {"idle", "due", "failed"} \cup Awaited]
    BY <1>5
  <2>3. waiting' \subseteq Tasks /\ scan' \subseteq waiting'
    BY <1>1 DEF Types
  <2> QED
    BY <1>1, <1>6, <2>1, <2>2, <2>3 DEF Types
<1>8. InOrder'
  <2> SUFFICES ASSUME NEW g, NEW h, Before(ready', g, h) PROVE Precedes(g, h)'
    BY NextQueue
  <2>1. CASE Before(rest, g, h)
    <3>1. /\ Precedes(g, h)
          /\ g[1] \in TaskSteps => g[2] \in Tasks /\ g[2] # t
          /\ h[1] \in TaskSteps => h[2] \in Tasks /\ h[2] # t
      BY <1>2, <1>4, <2>1
    <3> QED
      BY <1>5, <3>1, Kinds DEF Precedes
  <2>2. CASE g = found /\ Contains(rest, h)
    <3>1. h[1] \in TaskSteps => h[2] # t
      BY <1>4, <2>2
    <3> QED
      BY <1>1, <2>2, <3>1, Kinds DEF Precedes
  <2> QED
    BY <1>6, <2>1, <2>2
<1>9. Accounted'
  <2> SUFFICES ASSUME NEW h, Contains(ready', h) PROVE Justified(h)'
    BY NextQueue
  <2>1. CASE Contains(rest, h)
    <3>1. Justified(h) /\ (h[1] \in TaskSteps => h[2] \in Tasks /\ h[2] # t)
      BY <1>2, <1>4, <2>1
    <3> QED
      BY <1>5, <3>1, Kinds DEF Justified, TaskSteps
  <2>2. CASE ~Contains(rest, h)
    <3>1. h = found /\ waiting' = waiting
      BY <1>6, <2>2
    <3>2. PICK i \in 1 .. parsed : /\ op \in Awaited /\ Wants(op, t, sent[i])
                                   /\ got' = [got EXCEPT ![t] = i]
      BY <1>6, <2>2 DEF rest
    <3>3. got'[t] = i /\ op \notin {"idle", "failed", "get"}
      BY <1>5, <3>2 DEF Awaited, Ops
    <3> QED
      BY <1>1, <1>3, <1>5, <3>1, <3>2, <3>3 DEF Justified, Ops
  <2> QED
    BY <2>1, <2>2
<1>10. AllScheduled'
  <2> SUFFICES ASSUME NEW i \in applied + 1 .. parsed
               PROVE  Contains(ready', Handle("mixins", i))
    BY DEF AllScheduled
  <2>1. Contains(ready, Handle("mixins", i)) /\ Handle("mixins", i) # head
    BY <1>1, Kinds DEF AllScheduled
  <2> QED
    BY <1>2, <1>6, <2>1
<1>11. Given'
  <2>1. \A u \in scan' : parsed' > 0 /\ Wants(pc'[u], u, sent'[parsed'])
    BY <1>1, <1>3, <1>5 DEF Given, Types
  <2>2. \A u \in waiting' : pc'[u] \in Awaited
    BY <1>1, <1>3, <1>5 DEF Given, Types
  <2>3. ASSUME NEW u \in Tasks, pc'[u] = "get", u \notin waiting'
        PROVE  \E w \in {"release", "wake"} : Contains(ready', Handle(w, u))
    <3>1. u # t /\ pc[u] = "get" /\ u \notin waiting
      BY <1>5, <2>3
    <3>2. PICK w \in {"release", "wake"} : Contains(ready, Handle(w, u))
      BY <1>1, <3>1 DEF Given
    <3>3. Handle(w, u) # head
      BY <1>1, <3>1, Kinds
    <3> QED
      BY <1>2, <1>6, <3>2, <3>3
  <2> QED
    BY <2>1, <2>2, <2>3 DEF Given
<1> QED
  BY <1>7, <1>8, <1>9, <1>10, <1>11 DEF Fifo

\* The first stanza of a set is in it.
LEMMA FirstOf ==
  ASSUME NEW T \in SUBSET Nat, T # {}
  PROVE  Min(T) \in T /\ \A y \in T : Min(T) <= y
<1>1. IsWellFoundedOn(OpToRel(<, Nat), Nat)
  BY NatLessThanWellFounded
<1>2. PICK x \in T : \A y \in T : ~(<<y, x>> \in OpToRel(<, Nat))
  BY <1>1, WFMin
<1>3. \A y \in T : x <= y
  <2>1. \A y \in Nat : y < x => <<y, x>> \in OpToRel(<, Nat)
    BY DEF OpToRel
  <2>2. \A y \in T : y \in Nat /\ x \in Nat /\ ~(y < x)
    BY <1>2, <2>1
  <2> QED
    BY <2>2
<1> QED
  BY <1>3 DEF Min

LEMMA FifoAwait ==
  ASSUME Fifo, NEW t \in Tasks, NEW how \in TaskSteps, Runs(Handle(how, t)),
         NEW op \in Awaited \ {"get"}, NEW requests \in SUBSET Requests,
         Await(t, op, requests),
         UNCHANGED <<sent, rosterLog, presenceLog, roomLog, scenario, parsed, applied, scan>>
  PROVE  Fifo'
<1> DEFINE fresh == Queued \ tested[t]
           hits  == {i \in fresh : Wants(op, t, sent[i])}
<1>1. /\ pc' = [pc EXCEPT ![t] = op] /\ asked' = asked \cup requests
      /\ \/ hits = {} /\ waiting' = waiting \cup {t} /\ ready' = Tail(ready) /\ UNCHANGED got
         \/ /\ hits # {} /\ got' = [got EXCEPT ![t] = Min(hits)]
            /\ ready' = << Handle("found", t) >> \o Tail(ready) /\ UNCHANGED waiting
  BY DEF Await
<1>2. asked' \subseteq Requests
  BY <1>1 DEF Fifo, Types
<1>3. hits # {} => Min(hits) \in 1 .. parsed /\ Wants(op, t, sent[Min(hits)])
  <2>1. hits \in SUBSET Nat /\ hits \subseteq 1 .. parsed
    BY DEF Queued
  <2>2. \A i \in hits : Wants(op, t, sent[i])
    OBVIOUS
  <2> HIDE DEF hits
  <2> QED
    BY <2>1, <2>2, FirstOf
<1> HIDE DEF hits
<1> QED
  BY <1>1, <1>2, <1>3, FifoGoesOn

LEMMA FifoFinish ==
  ASSUME Fifo, NEW t \in Tasks, NEW how \in TaskSteps, Runs(Handle(how, t)),
         NEW op \in {"idle", "failed"}, Finish(t, op),
         UNCHANGED <<sent, rosterLog, presenceLog, roomLog, scenario, parsed, applied, scan>>
  PROVE  Fifo'
<1>1. /\ pc' = [pc EXCEPT ![t] = op] /\ ready' = Tail(ready)
      /\ UNCHANGED <<asked, waiting, got>>
  BY DEF Finish
<1>2. asked' \subseteq Requests
  BY <1>1 DEF Fifo, Types
<1> QED
  BY <1>1, <1>2, FifoGoesOn

LEMMA FifoResume ==
  ASSUME Fifo, NEW t \in Tasks, NEW how \in {"wake", "found"}, Resume(t, how) PROVE Fifo'
<1>1. /\ Runs(Handle(how, t)) /\ how \in TaskSteps
      /\ UNCHANGED <<sent, rosterLog, presenceLog, roomLog, scenario, parsed, applied, scan>>
  BY Kinds DEF Resume
<1>2. Request(t, "iq") \in SUBSET Requests
  BY DEF Request, Requests
<1>3. PICK s : GotRoster(t, s) \/ Entered(t, s) \/ Configures(t, s) \/ Returns(t, s)
  BY DEF Resume
<1>4. CASE \E op \in {"idle", "failed"} : Finish(t, op)
  BY <1>1, <1>4, FifoFinish
<1>5. CASE \E op \in {"config", "getconf"} : Await(t, op, Request(t, "iq"))
  BY <1>1, <1>2, <1>5, FifoAwait DEF Awaited
<1> QED
  BY <1>3, <1>4, <1>5 DEF GotRoster, Entered, Configures, Returns

LEMMA FifoCall ==
  ASSUME Fifo, NEW t \in Tasks, NEW op \in scenario.may[t], Call(t, op) PROVE Fifo'
<1>1. /\ Runs(Handle(op, t)) /\ Await(t, op, Request(t, op))
      /\ UNCHANGED <<sent, rosterLog, presenceLog, roomLog, scenario, parsed, applied, scan>>
  BY DEF Call, data
<1>2. op \in Ops
  BY MayCall DEF Fifo
<1>3. op \in TaskSteps /\ op \in Awaited \ {"get"} /\ Request(t, op) \in SUBSET Requests
  BY <1>2 DEF Request, Requests, TaskSteps, Awaited, Ops
<1> QED
  BY <1>1, <1>3, FifoAwait

LEMMA FifoStep == Fifo /\ [Next]_vars => Fifo'
<1> SUFFICES ASSUME Fifo, [Next]_vars PROVE Fifo'
  OBVIOUS
<1>1. CASE Server
  BY <1>1, FifoServer
<1>2. CASE ParseNext \/ ParserSleeps
  BY <1>2, FifoParseNext, FifoParserSleeps
<1>3. ASSUME NEW i \in 1 .. parsed, RunMixins(i) PROVE Fifo'
  BY <1>3, FifoRunMixins
<1>4. ASSUME NEW t \in Tasks, Match(t) \/ Release(t) PROVE Fifo'
  BY <1>4, FifoMatch, FifoRelease
<1>5. ASSUME NEW t \in Tasks, NEW how \in {"wake", "found"}, Resume(t, how) PROVE Fifo'
  BY <1>5, FifoResume
<1>6. ASSUME NEW t \in Tasks, NEW op \in scenario.may[t], Due(t, op) \/ Call(t, op) PROVE Fifo'
  BY <1>6, FifoDue, FifoCall
<1>7. CASE UNCHANGED vars
  BY <1>7 DEF vars, server, tasks, data, loop, Fifo, Types, InOrder, Accounted, AllScheduled,
     Given, Precedes, Justified
<1> QED
  BY <1>1, <1>2, <1>3, <1>4, <1>5, <1>6, <1>7 DEF Next, Client

LEMMA FifoInit == Init => Fifo
<1> SUFFICES ASSUME Init PROVE Fifo
  OBVIOUS
<1>1. /\ scenario \in Scenarios /\ sent = <<>> /\ asked = {[task |-> Main, op |-> "get"]}
      /\ rosterLog \in {<< [j \in S |-> "none"] >> : S \in SUBSET Contacts}
      /\ presenceLog = << Empty >> /\ roomLog = << {} >>
      /\ parsed = 0 /\ applied = 0 /\ ready = <<>> /\ scan = {} /\ waiting = {Main}
      /\ got = [t \in Tasks |-> 0] /\ pc = [t \in Tasks |-> IF t = Main THEN "get" ELSE "idle"]
  BY DEF Init
<1>2. rosterLog \in Seq(Versions) /\ rosterLog # <<>>
  <2>1. PICK S \in SUBSET Contacts : rosterLog = << [j \in S |-> "none"] >>
    BY <1>1
  <2>2. [j \in S |-> "none"] \in Versions
    BY DEF Versions
  <2> QED
    BY <2>1, <2>2
<1>3. presenceLog \in Seq(Lists) /\ presenceLog # <<>>
  <2>1. Empty \in [{} -> {"plain"}]
    BY DEF Empty
  <2>2. Empty \in Lists
    BY <2>1 DEF Lists
  <2> QED
    BY <1>1, <2>2
<1>4. roomLog \in Seq(SUBSET Nicks) /\ roomLog # <<>>
  BY <1>1
<1>5. Types
  <2>1. asked \subseteq Requests /\ Main \in Tasks
    BY <1>1 DEF Requests, Tasks
  <2> QED
    BY <1>1, <1>2, <1>3, <1>4, <2>1 DEF Types, Awaited
<1>6. InOrder /\ Accounted /\ AllScheduled /\ Given
  <2>1. Len(ready) = 0
    BY <1>1
  <2>2. InOrder /\ Accounted
    BY <2>1 DEF InOrder, Accounted
  <2>3. AllScheduled
    BY <1>1 DEF AllScheduled
  <2>4. Given
    <3>1. pc[Main] = "get" /\ \A t \in Tasks : pc[t] = "get" => t = Main
      BY <1>1 DEF Tasks
    <3> QED
      BY <1>1, <3>1 DEF Given, Awaited
  <2> QED
    BY <2>2, <2>3, <2>4
<1> QED
  BY <1>5, <1>6 DEF Fifo

LEMMA FifoInductive == Spec => []Fifo
BY FifoInit, FifoStep, PTL DEF Spec

\* A task that has slept finds that the mixins have seen the stanza it is given:
\* Stream schedules them before it completes the future, and the loop keeps the
\* order (stream.py, _handleStanza()).
THEOREM SessionAppliedBeforeWake == Spec => []AppliedBeforeWake
<1>1. Fifo => AppliedBeforeWake
  <2> SUFFICES ASSUME Fifo, NEW t \in Tasks, Runs(Handle("wake", t)), ~(got[t] <= applied)
               PROVE  FALSE
    BY DEF AppliedBeforeWake
  <2>1. /\ Justified(Handle("wake", t))
        /\ \A g : Contains(ready, g) <=> g = Handle("wake", t) \/ Contains(Tail(ready), g)
        /\ \A g : Contains(Tail(ready), g) => Precedes(Handle("wake", t), g)
    BY AtHead
  <2>2. got[t] \in 1 .. parsed /\ applied \in 0 .. parsed /\ parsed \in Nat
    BY <2>1, Kinds DEF Justified, Fifo, Types
  <2>3. Contains(ready, Handle("mixins", got[t]))
    BY <2>2 DEF Fifo, AllScheduled
  <2>4. Precedes(Handle("wake", t), Handle("mixins", got[t]))
    BY <2>1, <2>3, Kinds
  <2> QED
    BY <2>2, <2>4, Kinds DEF Precedes
<1> QED
  BY <1>1, FifoInductive, PTL

-----------------------------------------------------------------------------
(* What the steps leave alone.                                             *)
LEMMA TwoAppends ==
  ASSUME NEW S, NEW q \in Seq(S), NEW d \in S, NEW e \in S
  PROVE  /\ q \o <<d>> = Append(q, d) /\ Append(q, d) \in Seq(S)
         /\ q \o <<d, e>> = Append(Append(q, d), e)
<1>1. q \o <<d>> = Append(q, d) /\ Append(q, d) \in Seq(S)
  BY AppendIsConcat, AppendProperties
<1>2. Append(Append(q, d), e) = Append(q, d) \o <<e>>
  BY <1>1, AppendIsConcat
<1>3. <<d>> \in Seq(S) /\ <<e>> \in Seq(S)
  OBVIOUS
<1>4. (q \o <<d>>) \o <<e>> = q \o (<<d>> \o <<e>>)
  BY <1>3, ConcatAssociative
<1>5. <<d>> \o <<e>> = <<d, e>>
  <2> DEFINE c == <<d>> \o <<e>>
  <2>1. /\ c \in Seq(S) /\ Len(c) = 2 /\ c[1] = d /\ c[2] = e
    BY <1>3, ConcatProperties
  <2> HIDE DEF c
  <2>2. c \in [1 .. 2 -> S]
    BY <2>1, LenProperties
  <2>3. c = <<d, e>>
    BY <2>1, <2>2
  <2> QED
    BY <2>3 DEF c
<1> QED
  BY <1>1, <1>2, <1>4, <1>5

\* What Sends() appends.
LEMMA Sent ==
  ASSUME Types, NEW d \in Stanzas, NEW e \in Stanzas
  PROVE  /\ Sends(<<d>>) => sent' = Append(sent, d)
         /\ Sends(<<d, e>>) => sent' = Append(Append(sent, d), e)
<1>1. sent \in Seq(Stanzas)
  BY DEF Types
<1>2. sent \o <<d>> = Append(sent, d) /\ sent \o <<d, e>> = Append(Append(sent, d), e)
  BY <1>1, TwoAppends
<1> QED
  BY <1>2 DEF Sends

LEMMA ServerGrows ==
  ASSUME Types, Server
  PROVE  /\ UNCHANGED client /\ Len(sent) \in Nat /\ Len(sent') \in Nat
         /\ Len(sent) <= Len(sent') /\ \A i \in 1 .. Len(sent) : sent'[i] = sent[i]
<1>1. UNCHANGED client /\ (UNCHANGED <<sent, ready>> \/ \E ss \in Seq(Stanzas) : Sends(ss))
  BY ServerSends
<1>2. CASE UNCHANGED <<sent, ready>>
  BY <1>1, <1>2, LenProperties DEF Types
<1>3. CASE \E ss \in Seq(Stanzas) : Sends(ss)
  <2>1. PICK ss \in Seq(Stanzas) : Sends(ss)
    BY <1>3
  <2>2. /\ Len(sent') = Len(sent) + Len(ss) /\ Len(sent) \in Nat /\ Len(ss) \in Nat
        /\ \A i \in 1 .. Len(sent) : sent'[i] = sent[i]
    BY <2>1, Sending
  <2> QED
    BY <1>1, <2>2
<1> QED
  BY <1>1, <1>2, <1>3

\* All that the tasks and the parser do to what the server and the mixins keep:
\* they ask, and the first request brings the roster.
LEMMA OtherSteps ==
  ASSUME Next, ~Server, \A i \in 1 .. parsed : ~RunMixins(i)
  PROVE  UNCHANGED <<sent, rosterLog, presenceLog, roomLog, applied, scenario,
                     cache, ownPresence, rooms>>
<1>1. CASE ParseNext \/ ParserSleeps
  BY <1>1 DEF ParseNext, ParserSleeps, server, data
<1>2. ASSUME NEW t \in Tasks, Match(t) \/ Release(t)
      PROVE  UNCHANGED <<sent, rosterLog, presenceLog, roomLog, applied, scenario,
                         cache, ownPresence, rooms>>
  BY <1>2 DEF Match, Complete, Release, server, data
<1>3. ASSUME NEW t \in Tasks, NEW how, Resume(t, how)
      PROVE  UNCHANGED <<sent, rosterLog, presenceLog, roomLog, applied, scenario,
                         cache, ownPresence, rooms>>
  BY <1>3 DEF Resume
<1>4. ASSUME NEW t \in Tasks, NEW op, Due(t, op) \/ Call(t, op)
      PROVE  UNCHANGED <<sent, rosterLog, presenceLog, roomLog, applied, scenario,
                         cache, ownPresence, rooms>>
  BY <1>4 DEF Due, Call, server, data
<1> QED
  BY <1>1, <1>2, <1>3, <1>4 DEF Next, Client

LEMMA MixinsStep ==
  ASSUME Fifo, NEW i \in 1 .. parsed, RunMixins(i)
  PROVE  /\ i = applied + 1 /\ i \in 1 .. Len(sent) /\ applied' = i
         /\ applied \in Nat /\ applied <= Len(sent) /\ Len(sent) \in Nat
         /\ sent[i] \in Stanzas
         /\ UNCHANGED <<sent, rosterLog, presenceLog, roomLog, pc, scenario>>
<1>1. i = applied + 1
  BY MixinsInOrder
<1>2. /\ sent \in Seq(Stanzas) /\ parsed \in 0 .. Len(sent) /\ applied \in 0 .. parsed
      /\ Len(sent) \in Nat
  BY LenProperties DEF Fifo, Types
<1>3. i \in 1 .. Len(sent)
  BY <1>2
<1>4. sent[i] \in Stanzas
  BY <1>2, <1>3, ElementOfSeq
<1> QED
  BY <1>1, <1>2, <1>3, <1>4 DEF RunMixins, server, tasks

-----------------------------------------------------------------------------
(* The versions the server tells of: of the roster by pushes, of who is    *)
(* available by presences, of the room by the presences of the room.       *)
Count(kind, s, k) == Cardinality({i \in 1 .. k : s[i].kind = kind})

EndsStay == {Codes.own} \cup Codes.kick

\* What a stanza makes of the version before it.
Moves(s, old, new) ==
  /\ s.kind = "push" => new = UpdateRoster(old, s.items)
  /\ s.kind = "presence" =>
       new = IF s.from[2] = NoRes THEN old
             ELSE IF s.type = "available" THEN Put(old, s.from, "plain")
             ELSE Drop(old, s.from)
  /\ s.kind = "room" =>
       /\ s.from[1] = Room
       /\ s.type = "available" => new = old \cup {s.from[2]}
       /\ s.type # "available" =>
            \/ s.codes \in EndsStay /\ new = {}
            \/ s.codes \in Codes.rename \cup {Codes.kicked} /\ new = old \ {s.from[2]}

\* A stanza of the room does not carry the number of its version.
Numbered(s, v) == s.kind # "room" => s.v = v

\* The stanzas of a kind in s are the versions of log after version base.
Tells(kind, s, log, base) ==
  /\ Len(log) = base + Count(kind, s, Len(s))
  /\ \A k \in 1 .. Len(s) : s[k].kind = kind =>
       /\ base + Count(kind, s, k) \in 2 .. Len(log)
       /\ Moves(s[k], log[(base + Count(kind, s, k)) - 1], log[base + Count(kind, s, k)])
       /\ Numbered(s[k], base + Count(kind, s, k))

LEMMA Counts ==
  ASSUME NEW kind, NEW s, NEW n \in Nat
  PROVE  /\ Count(kind, s, 0) = 0 /\ Count(kind, s, n) \in Nat
         /\ s[n + 1].kind = kind => Count(kind, s, n + 1) = Count(kind, s, n) + 1
         /\ s[n + 1].kind # kind => Count(kind, s, n + 1) = Count(kind, s, n)
         /\ \A t : (\A i \in 1 .. n : t[i] = s[i]) => Count(kind, t, n) = Count(kind, s, n)
<1> DEFINE C(k) == {i \in 1 .. k : s[i].kind = kind}
<1>1. C(0) = {} /\ IsFiniteSet(C(n))
  <2>1. IsFiniteSet(1 .. n) /\ C(n) \in SUBSET (1 .. n)
    BY FS_Interval
  <2> QED
    BY <2>1, FS_Subset
<1>2. Count(kind, s, 0) = 0 /\ Count(kind, s, n) \in Nat
  BY <1>1, FS_EmptySet, FS_CardinalityType DEF Count
<1>3. ASSUME s[n + 1].kind = kind PROVE Count(kind, s, n + 1) = Count(kind, s, n) + 1
  <2>1. C(n + 1) = C(n) \cup {n + 1} /\ n + 1 \notin C(n)
    BY <1>3
  <2> HIDE DEF C
  <2>2. Cardinality(C(n) \cup {n + 1}) = Cardinality(C(n)) + 1
    BY <1>1, <2>1, FS_AddElement
  <2> QED
    BY <1>2, <1>3, <2>1, <2>2 DEF C, Count
<1>4. ASSUME s[n + 1].kind # kind PROVE Count(kind, s, n + 1) = Count(kind, s, n)
  <2>1. C(n + 1) = C(n)
    BY <1>4
  <2> QED
    BY <1>2, <1>4, <2>1 DEF Count
<1>5. ASSUME NEW t, \A i \in 1 .. n : t[i] = s[i] PROVE Count(kind, t, n) = Count(kind, s, n)
  <2>1. {i \in 1 .. n : t[i].kind = kind} = C(n)
    BY <1>5
  <2> QED
    BY <2>1 DEF Count
<1>6. \A t : (\A i \in 1 .. n : t[i] = s[i]) => Count(kind, t, n) = Count(kind, s, n)
  BY <1>5
<1> HIDE DEF C
<1> QED
  BY <1>2, <1>3, <1>4, <1>6

LEMMA CountGrows ==
  ASSUME NEW kind, NEW s, NEW n \in Nat, NEW m \in 0 .. n
  PROVE  Count(kind, s, m) \in Nat /\ Count(kind, s, m) <= Count(kind, s, n)
<1> DEFINE C(k) == {i \in 1 .. k : s[i].kind = kind}
<1>1. IsFiniteSet(1 .. n) /\ C(n) \in SUBSET (1 .. n)
  BY FS_Interval
<1>2. C(m) \in SUBSET C(n)
  OBVIOUS
<1>3. m \in Nat
  OBVIOUS
<1> HIDE DEF C
<1>4. IsFiniteSet(C(n))
  BY <1>1, FS_Subset
<1>5. Cardinality(C(m)) <= Cardinality(C(n))
  BY <1>2, <1>4, FS_Subset
<1>6. Count(kind, s, m) \in Nat
  BY <1>3, Counts
<1>7. Count(kind, s, m) <= Count(kind, s, n)
  BY <1>5 DEF C, Count
<1> QED
  BY <1>6, <1>7

LEMMA LogGrows ==
  ASSUME NEW S, NEW log \in Seq(S), NEW a, NEW b,
         NEW new \in {log, Append(log, a), log \o <<a, b>>}
  PROVE  /\ Len(new) \in Nat /\ Len(log) <= Len(new)
         /\ \A v \in 1 .. Len(log) : new[v] = log[v]
<1> DEFINE T == S \cup {a, b}
<1>1. log \in Seq(T) /\ a \in T /\ b \in T /\ Len(log) \in Nat
  BY SeqMonotonic, LenProperties
<1> HIDE DEF T
<1>2. <<a, b>> \in Seq(T) /\ Len(<<a, b>>) = 2
  BY <1>1
<1>3. CASE new = log
  BY <1>1, <1>3
<1>4. CASE new = Append(log, a)
  BY <1>1, <1>4, AppendProperties
<1>5. CASE new = log \o <<a, b>>
  BY <1>1, <1>2, <1>5, ConcatProperties
<1> QED
  BY <1>3, <1>4, <1>5

LEMMA LatestOf ==
  ASSUME NEW S, NEW log \in Seq(S), log # <<>>, NEW new \in S
  PROVE  /\ Append(log, new) \in Seq(S) /\ Append(log, new) # <<>>
         /\ Len(Append(log, new)) = Len(log) + 1 /\ Len(log) \in Nat \ {0}
         /\ Latest(Append(log, new)) = new
         /\ \A v \in 1 .. Len(log) : Append(log, new)[v] = log[v]
<1> DEFINE a == Append(log, new)
<1>1. /\ a \in Seq(S) /\ Len(a) = Len(log) + 1 /\ a[Len(log) + 1] = new
      /\ \A v \in 1 .. Len(log) : a[v] = log[v]
      /\ Len(log) \in Nat \ {0}
  BY AppendProperties, EmptySeq
<1> HIDE DEF a
<1>2. Latest(a) = new
  BY <1>1 DEF Latest
<1>3. a # <<>>
  BY <1>1, EmptySeq
<1> QED
  BY <1>1, <1>2, <1>3 DEF a

\* One more stanza, one more version if it is of the kind.
LEMMA TellsMore ==
  ASSUME NEW kind, NEW S, NEW s \in Seq(Stanzas), NEW log \in Seq(S), NEW base \in Nat \ {0},
         Tells(kind, s, log, base), NEW x \in Stanzas, NEW log2 \in Seq(S),
         \/ x.kind # kind /\ log2 = log
         \/ /\ x.kind = kind /\ Numbered(x, Len(log) + 1)
            /\ \E new \in S : log2 = Append(log, new) /\ Moves(x, Latest(log), new)
  PROVE  Tells(kind, Append(s, x), log2, base)
<1> DEFINE t == Append(s, x)
           n == Len(s)
<1>1. /\ n \in Nat /\ Len(t) = n + 1 /\ t[n + 1] = x /\ \A i \in 1 .. n : t[i] = s[i]
      /\ Len(log) \in Nat /\ Len(log) = base + Count(kind, s, n)
  BY LenProperties, AppendProperties DEF Tells
<1> HIDE DEF t, n
<1>2. /\ base + Count(kind, s, n) \in Nat \ {0} /\ base + Count(kind, t, n) = base + Count(kind, s, n)
      /\ x.kind = kind => base + Count(kind, t, n + 1) = base + Count(kind, t, n) + 1
      /\ x.kind # kind => base + Count(kind, t, n + 1) = base + Count(kind, t, n)
  <2>1. Count(kind, s, n) \in Nat /\ Count(kind, t, n) = Count(kind, s, n)
    BY <1>1, Counts
  <2>2. /\ x.kind = kind => Count(kind, t, n + 1) = Count(kind, t, n) + 1
        /\ x.kind # kind => Count(kind, t, n + 1) = Count(kind, t, n)
    BY <1>1, Counts
  <2> QED
    BY <2>1, <2>2
<1>3. \A k \in 1 .. n : base + Count(kind, t, k) = base + Count(kind, s, k)
  <2> TAKE k \in 1 .. n
  <2>1. k \in Nat /\ \A i \in 1 .. k : t[i] = s[i]
    BY <1>1
  <2>2. Count(kind, t, k) = Count(kind, s, k)
    BY <2>1, Counts
  <2> QED
    BY <2>2
<1>4. /\ Len(log2) = base + Count(kind, t, n + 1)
      /\ Len(log2) >= Len(log) /\ \A v \in 1 .. Len(log) : log2[v] = log[v]
      /\ x.kind = kind => Moves(x, log2[Len(log)], log2[Len(log) + 1])
  <2>1. CASE x.kind # kind /\ log2 = log
    BY <1>1, <1>2, <2>1
  <2>2. CASE x.kind = kind
    <3>1. PICK new \in S : log2 = Append(log, new) /\ Moves(x, Latest(log), new)
      BY <2>2
    <3>2. /\ Len(log2) = Len(log) + 1 /\ log2[Len(log) + 1] = new
          /\ \A v \in 1 .. Len(log) : log2[v] = log[v]
      BY <3>1, AppendProperties
    <3>3. Len(log) \in 1 .. Len(log) /\ Latest(log) = log2[Len(log)]
      BY <1>1, <1>2, <3>2 DEF Latest
    <3> QED
      BY <1>1, <1>2, <2>2, <3>1, <3>2, <3>3
  <2> QED
    BY <2>1, <2>2
<1>5. ASSUME NEW k \in 1 .. n + 1, t[k].kind = kind
      PROVE  /\ base + Count(kind, t, k) \in 2 .. Len(log2)
             /\ Moves(t[k], log2[(base + Count(kind, t, k)) - 1], log2[base + Count(kind, t, k)])
             /\ Numbered(t[k], base + Count(kind, t, k))
  <2>1. CASE k \in 1 .. n
    <3> DEFINE w == base + Count(kind, s, k)
    <3>1. k \in 1 .. Len(s) /\ s[k].kind = kind
      BY <1>1, <1>5, <2>1 DEF n
    <3>2. w \in 2 .. Len(log) /\ Moves(s[k], log[w - 1], log[w]) /\ Numbered(s[k], w)
      BY <3>1 DEF Tells
    <3>3. base + Count(kind, t, k) = w /\ t[k] = s[k]
      BY <1>1, <1>3, <2>1
    <3> HIDE DEF w
    <3>4. /\ w - 1 \in 1 .. Len(log) /\ w \in 1 .. Len(log)
          /\ Len(log2) \in Nat
      BY <1>1, <3>2, LenProperties
    <3>5. log2[w - 1] = log[w - 1] /\ log2[w] = log[w]
      BY <1>4, <3>4
    <3>6. w \in 2 .. Len(log2)
      BY <1>1, <1>4, <3>2, <3>4
    <3> QED
      BY <3>2, <3>3, <3>5, <3>6
  <2>2. CASE k = n + 1
    <3> DEFINE w == base + Count(kind, t, k)
    <3>1. /\ x.kind = kind /\ Len(log2) = Len(log) + 1 /\ w = Len(log) + 1
          /\ Numbered(x, Len(log) + 1) /\ t[k] = x
      BY <1>1, <1>2, <1>4, <1>5, <2>2
    <3> HIDE DEF w
    <3>2. w \in 2 .. Len(log2) /\ w - 1 = Len(log)
      BY <1>1, <1>2, <3>1
    <3>3. Moves(x, log2[Len(log)], log2[w])
      BY <1>4, <3>1
    <3>4. w \in 2 .. Len(log2) /\ Moves(t[k], log2[w - 1], log2[w]) /\ Numbered(t[k], w)
      BY <3>1, <3>2, <3>3
    <3> QED
      BY <3>4 DEF w
  <2> QED
    BY <1>1, <2>1, <2>2
<1>6. /\ Len(log2) = base + Count(kind, t, Len(t))
      /\ \A k \in 1 .. Len(t) : t[k].kind = kind =>
           /\ base + Count(kind, t, k) \in 2 .. Len(log2)
           /\ Moves(t[k], log2[(base + Count(kind, t, k)) - 1], log2[base + Count(kind, t, k)])
           /\ Numbered(t[k], base + Count(kind, t, k))
  BY <1>1, <1>4, <1>5
<1>7. Tells(kind, t, log2, base)
  BY <1>6 DEF Tells
<1> QED
  BY <1>7 DEF t

LEMMA TellsOnce ==
  ASSUME NEW kind, NEW S, NEW s \in Seq(Stanzas), NEW log \in Seq(S), NEW base \in Nat \ {0},
         Tells(kind, s, log, base), NEW x \in Stanzas, NEW new \in S,
         x.kind = kind, Numbered(x, Len(log) + 1), Moves(x, Latest(log), new)
  PROVE  Tells(kind, Append(s, x), Append(log, new), base)
<1>1. Append(log, new) \in Seq(S)
  BY AppendProperties
<1> QED
  BY <1>1, TellsMore

LEMMA TellsNothing ==
  ASSUME NEW kind, NEW S, NEW s \in Seq(Stanzas), NEW log \in Seq(S), NEW base \in Nat \ {0},
         Tells(kind, s, log, base), NEW x \in Stanzas, x.kind # kind
  PROVE  Tells(kind, Append(s, x), log, base)
BY TellsMore

\* Whatever the server sends that is not of the kind.
LEMMA TellsTheSame ==
  ASSUME Types, NEW kind, NEW S, NEW log \in Seq(S), NEW base \in Nat \ {0},
         Tells(kind, sent, log, base),
         \/ UNCHANGED sent
         \/ \E d \in Stanzas : d.kind # kind /\ sent' = Append(sent, d)
         \/ \E d, e \in Stanzas : /\ d.kind # kind /\ e.kind # kind
                                  /\ sent' = Append(Append(sent, d), e)
  PROVE  Tells(kind, sent', log, base)
<1>1. sent \in Seq(Stanzas) /\ \A d \in Stanzas : Append(sent, d) \in Seq(Stanzas)
  BY AppendProperties DEF Types
<1>2. \A d \in Stanzas : d.kind # kind => Tells(kind, Append(sent, d), log, base)
  BY <1>1, TellsMore
<1>3. \A d, e \in Stanzas : d.kind # kind /\ e.kind # kind =>
        Tells(kind, Append(Append(sent, d), e), log, base)
  BY <1>1, <1>2, TellsMore
<1> QED
  BY <1>2, <1>3

-----------------------------------------------------------------------------
(* What the server says.                                                   *)

\* The server has sent nothing, a stanza or two of a set.
Adds(D) ==
  \/ UNCHANGED sent
  \/ \E d \in D : sent' = Append(sent, d)
  \/ \E d, e \in D : sent' = Append(Append(sent, d), e)

LEMMA AddsOne ==
  ASSUME Types, NEW D \in SUBSET Stanzas, NEW d \in D
  PROVE  /\ Sends(<<d>>) => Adds(D)
         /\ \A e \in D : Sends(<<d, e>>) => Adds(D)
<1>1. Sends(<<d>>) => Adds(D)
  <2>1. d \in Stanzas
    OBVIOUS
  <2>2. Sends(<<d>>) => sent' = Append(sent, d)
    BY <2>1, Sent
  <2> QED
    BY <2>2 DEF Adds
<1>2. ASSUME NEW e \in D, Sends(<<d, e>>) PROVE Adds(D)
  <2>1. d \in Stanzas /\ e \in Stanzas
    OBVIOUS
  <2>2. sent' = Append(Append(sent, d), e)
    BY <1>2, <2>1, Sent
  <2> QED
    BY <2>2 DEF Adds
<1> QED
  BY <1>1, <1>2

LEMMA AddsNone ==
  ASSUME Types, NEW kind, NEW S, NEW log \in Seq(S), NEW base \in Nat \ {0},
         Tells(kind, sent, log, base), NEW D \in SUBSET Stanzas,
         \A d \in D : d.kind # kind, Adds(D)
  PROVE  Tells(kind, sent', log, base)
<1>1. \/ UNCHANGED sent
      \/ \E d \in Stanzas : d.kind # kind /\ sent' = Append(sent, d)
      \/ \E d, e \in Stanzas : /\ d.kind # kind /\ e.kind # kind
                               /\ sent' = Append(Append(sent, d), e)
  BY DEF Adds
<1> QED
  BY <1>1, TellsTheSame

\* What concerns the roster, and what only the tasks and the room.
OfRoster == {s \in Stanzas : s.kind \in {"reply", "push"}}
Asides ==
  {s \in Stanzas :
     \/ s.kind \in {"room", "refusal"}
     \/ /\ s.kind = "reply" /\ "items" \notin DOMAIN s
        /\ \E a \in asked : a.op # "get" /\ s.to = a.task}

LEMMA Replies ==
  ASSUME Types, NEW a \in asked, NEW ok \in BOOLEAN
  PROVE  /\ Reply(a, ok) \in OfRoster /\ a.task \in Tasks
         /\ a.op # "get" => Reply(a, ok) \in Asides
<1>1. a.task \in Tasks
  BY DEF Types, Requests
<1>2. Reply(a, ok) \in Stanzas
  BY <1>1, Records DEF Reply
<1>3. Reply(a, ok).kind = "reply" /\ Reply(a, ok).to = a.task /\ "items" \notin DOMAIN Reply(a, ok)
  BY DEF Reply
<1> QED
  BY <1>1, <1>2, <1>3 DEF OfRoster, Asides

LEMMA SaysOfRoster ==
  ASSUME Types, AnswerGet \/ ChangeRoster \/ AnswerSet
  PROVE  UNCHANGED <<presenceLog, roomLog>> /\ Adds(OfRoster)
<1>1. UNCHANGED <<presenceLog, roomLog>> /\ OfRoster \in SUBSET Stanzas
  BY DEF AnswerGet, ChangeRoster, AnswerSet, OfRoster
<1>2. CASE AnswerGet
  <2>1. PICK a \in asked :
          \/ Sends(<< [kind |-> "reply", to |-> a.task, ok |-> TRUE,
                       items |-> Latest(rosterLog), v |-> Len(rosterLog)] >>)
          \/ Sends(<< Reply(a, FALSE) >>)
    BY <1>2 DEF AnswerGet
  <2> DEFINE d == [kind |-> "reply", to |-> a.task, ok |-> TRUE,
                   items |-> Latest(rosterLog), v |-> Len(rosterLog)]
  <2>2. Latest(rosterLog) \in Versions /\ Len(rosterLog) \in Nat /\ a.task \in Tasks
    BY EmptySeq, ElementOfSeq DEF Types, Latest, Requests
  <2>3. d \in Stanzas /\ d.kind = "reply"
    BY <2>2, Records
  <2> HIDE DEF d
  <2>4. d \in OfRoster /\ Reply(a, FALSE) \in OfRoster
    BY <2>3, Replies DEF OfRoster
  <2>5. Sends(<<d>>) \/ Sends(<< Reply(a, FALSE) >>)
    BY <2>1 DEF d
  <2> QED
    BY <1>1, <2>4, <2>5, AddsOne
<1>3. ASSUME NEW j \in Contacts, NEW sub \in {"none", "both", "remove"},
             rosterLog' = Append(rosterLog, Changed(j, sub))
      PROVE  Push(j, sub, Len(rosterLog')) \in OfRoster
  BY <1>3, Changes, Records DEF Push, OfRoster
<1>4. CASE ChangeRoster
  <2>1. PICK j \in Contacts, sub \in {"both", "remove"} :
          /\ rosterLog' = Append(rosterLog, Changed(j, sub))
          /\ Sends(<< Push(j, sub, Len(rosterLog')) >>) \/ UNCHANGED sent
    BY <1>4 DEF ChangeRoster
  <2>2. Push(j, sub, Len(rosterLog')) \in OfRoster
    BY <1>3, <2>1
  <2>3. CASE UNCHANGED sent
    BY <1>1, <2>3 DEF Adds
  <2>4. CASE Sends(<< Push(j, sub, Len(rosterLog')) >>)
    BY <1>1, <2>2, <2>4, AddsOne
  <2> QED
    BY <2>1, <2>3, <2>4, <1>1
<1>5. CASE AnswerSet
  <2>1. PICK a \in asked, j \in Contacts, sub \in Settings :
          /\ rosterLog' = Append(rosterLog, Changed(j, sub))
          /\ Sends(<< Push(j, sub, Len(rosterLog')), Reply(a, TRUE) >>)
    BY <1>5 DEF AnswerSet
  <2>2. Push(j, sub, Len(rosterLog')) \in OfRoster /\ Reply(a, TRUE) \in OfRoster
    BY <1>3, <2>1, Replies DEF Settings
  <2> QED
    BY <1>1, <2>1, <2>2, AddsOne
<1> QED
  BY <1>2, <1>4, <1>5

LEMMA SaysAside ==
  ASSUME Types, \/ AnswerEnter \/ AnswerLeave \/ Kick \/ Rename
                \/ AnswerKick \/ AnswerIq
  PROVE  /\ UNCHANGED <<rosterLog, presenceLog>> /\ Adds(Asides)
         /\ asked' \subseteq asked /\ \A a \in asked : a.op = "get" => a \in asked'
<1>1. /\ UNCHANGED <<rosterLog, presenceLog>> /\ asked' \subseteq asked
      /\ \A a \in asked : a.op = "get" => a \in asked'
  BY DEF AnswerEnter, AnswerLeave, Kick, Rename, AnswerKick, AnswerIq
<1>2. /\ \A from \in {Room, MeJid} : [kind |-> "refusal", from |-> from] \in Asides
      /\ \A nick \in Nicks, type \in {"available", "unavailable"}, codes \in Seq(Nat),
            owner \in BOOLEAN : RoomPresence(nick, type, codes, owner) \in Asides
  BY Records DEF Asides, RoomPresence
<1>3. Asides \in SUBSET Stanzas
  BY DEF Asides
<1>4. CASE AnswerEnter
  <2>1. CASE \E from \in {Room, MeJid} : Sends(<< [kind |-> "refusal", from |-> from] >>)
    <3>1. PICK from \in {Room, MeJid} : Sends(<< [kind |-> "refusal", from |-> from] >>)
      BY <2>1
    <3> DEFINE d == [kind |-> "refusal", from |-> from]
    <3>2. d \in Asides /\ Sends(<<d>>)
      BY <1>2, <3>1
    <3> HIDE DEF d
    <3> QED
      BY <1>1, <1>3, <3>2, AddsOne
  <2>2. CASE \E codes \in Codes.enter :
               Sends(<< RoomPresence(Guest, "available", Codes.none, FALSE),
                        RoomPresence(Me, "available", codes, FALSE) >>)
    <3>1. PICK codes \in Codes.enter :
            Sends(<< RoomPresence(Guest, "available", Codes.none, FALSE),
                     RoomPresence(Me, "available", codes, FALSE) >>)
      BY <2>2
    <3>2. /\ RoomPresence(Guest, "available", Codes.none, FALSE) \in Asides
          /\ RoomPresence(Me, "available", codes, FALSE) \in Asides
      BY <1>2, AllCodes DEF Nicks
    <3> QED
      BY <1>1, <1>3, <3>1, <3>2, AddsOne
  <2>3. CASE \E codes \in Codes.create :
               Sends(<< RoomPresence(Me, "available", codes, TRUE) >>)
    <3>1. PICK codes \in Codes.create :
            Sends(<< RoomPresence(Me, "available", codes, TRUE) >>)
      BY <2>3
    <3>2. RoomPresence(Me, "available", codes, TRUE) \in Asides
      BY <1>2, AllCodes DEF Nicks
    <3> QED
      BY <1>1, <1>3, <3>1, <3>2, AddsOne
  <2> QED
    BY <1>1, <1>4, <2>1, <2>2, <2>3 DEF AnswerEnter
<1>5. CASE AnswerLeave \/ Kick
  <2>1. \E codes \in EndsStay : SendGone(codes)
    BY <1>5 DEF AnswerLeave, Kick, EndsStay
  <2>2. PICK codes \in EndsStay : SendGone(codes)
    BY <2>1
  <2>3. Sends(<< RoomPresence(Me, "unavailable", codes, FALSE) >>)
    BY <2>2 DEF SendGone
  <2> DEFINE d == RoomPresence(Me, "unavailable", codes, FALSE)
  <2>4. d \in Asides /\ Sends(<<d>>)
    BY <1>2, <2>3, AllCodes DEF Nicks, EndsStay
  <2> HIDE DEF d
  <2>5. Adds(Asides)
    BY <1>3, <2>4, AddsOne
  <2> QED
    BY <1>1, <2>5
<1>6. CASE Rename
  <2>1. PICK codes \in Codes.rename :
          Sends(<< RoomPresence(Me, "unavailable", codes, FALSE),
                   RoomPresence(Renamed, "available", Codes.own, FALSE) >>)
    BY <1>6 DEF Rename
  <2> DEFINE d == RoomPresence(Me, "unavailable", codes, FALSE)
             e == RoomPresence(Renamed, "available", Codes.own, FALSE)
  <2>2. d \in Asides /\ e \in Asides /\ Sends(<<d, e>>)
    BY <1>2, <2>1, AllCodes DEF Nicks
  <2> HIDE DEF d, e
  <2>3. Adds(Asides)
    BY <1>3, <2>2, AddsOne
  <2> QED
    BY <1>1, <2>3
<1>7. CASE AnswerKick
  <2>1. PICK a \in asked :
          /\ a.op = "set"
          /\ Sends(<< RoomPresence(Guest, "unavailable", Codes.kicked, FALSE), Reply(a, TRUE) >>)
    BY <1>7 DEF AnswerKick
  <2> DEFINE d == RoomPresence(Guest, "unavailable", Codes.kicked, FALSE)
             e == Reply(a, TRUE)
  <2>2. d \in Asides /\ e \in Asides /\ Sends(<<d, e>>)
    BY <1>2, <2>1, AllCodes, Replies DEF Nicks
  <2> HIDE DEF d, e
  <2>3. Adds(Asides)
    BY <1>3, <2>2, AddsOne
  <2> QED
    BY <1>1, <2>3
<1>8. CASE AnswerIq
  <2>1. PICK a \in asked, ok \in BOOLEAN : a.op \in {"iq", "set"} /\ Sends(<< Reply(a, ok) >>)
    BY <1>8 DEF AnswerIq
  <2>2. Reply(a, ok) \in Asides
    BY <2>1, Replies
  <2> QED
    BY <1>1, <1>3, <2>1, <2>2, AddsOne
<1> QED
  BY <1>4, <1>5, <1>6, <1>7, <1>8

-----------------------------------------------------------------------------
(* The room.                                                               *)
RoomsPublished ==
  /\ Tells("room", sent, roomLog, 1) /\ roomLog[1] = {}
  /\ ~Inside => Latest(roomLog) = {}

\* Whatever the server sends that is not about the room.
LEMMA NotOfTheRoom ==
  ASSUME Types, RoomsPublished, UNCHANGED roomLog,
         \/ UNCHANGED sent
         \/ \E d \in Stanzas : d.kind # "room" /\ sent' = Append(sent, d)
         \/ \E d, e \in Stanzas : /\ d.kind # "room" /\ e.kind # "room"
                                  /\ sent' = Append(Append(sent, d), e)
  PROVE  RoomsPublished'
<1>1. roomLog \in Seq(SUBSET Nicks) /\ Tells("room", sent, roomLog, 1)
  BY DEF Types, RoomsPublished
<1>2. Tells("room", sent', roomLog, 1)
  BY <1>1, TellsTheSame
<1> QED
  BY <1>2 DEF RoomsPublished, Inside, Latest

\* One presence of the room, by itself or with an answer.
LEMMA OnceOfTheRoom ==
  ASSUME Types, RoomsPublished, NEW d \in Stanzas, NEW e \in Stanzas, NEW new \in SUBSET Nicks,
         d.kind = "room", e.kind # "room", Moves(d, Latest(roomLog), new),
         roomLog' = Append(roomLog, new),
         sent' = Append(sent, d) \/ sent' = Append(Append(sent, d), e),
         new \cap {Me, Renamed} = {} => new = {}
  PROVE  RoomsPublished'
<1> DEFINE K == "room"
           V == SUBSET Nicks
<1>1. /\ sent \in Seq(Stanzas) /\ roomLog \in Seq(V) /\ new \in V /\ Tells(K, sent, roomLog, 1)
      /\ Append(sent, d) \in Seq(Stanzas) /\ roomLog # <<>> /\ roomLog[1] = {}
  BY AppendProperties DEF Types, RoomsPublished
<1>2. d.kind = K /\ e.kind # K /\ Numbered(d, Len(roomLog) + 1)
  BY DEF Numbered
<1>3. /\ roomLog' \in Seq(V) /\ Latest(roomLog') = new
      /\ Len(roomLog) \in Nat \ {0} /\ \A v \in 1 .. Len(roomLog) : roomLog'[v] = roomLog[v]
  BY <1>1, LatestOf
<1> HIDE DEF K, V
<1>4. Tells(K, Append(sent, d), roomLog', 1)
  BY <1>1, <1>2, TellsOnce
<1>5. Tells(K, Append(Append(sent, d), e), roomLog', 1)
  <2> DEFINE s == Append(sent, d)
             l == roomLog'
  <2>1. s \in Seq(Stanzas) /\ l \in Seq(V) /\ Tells(K, s, l, 1) /\ e.kind # K
    BY <1>1, <1>2, <1>3, <1>4
  <2> HIDE DEF s, l
  <2>2. Tells(K, Append(s, e), l, 1)
    BY <2>1, TellsNothing
  <2> QED
    BY <2>2 DEF s, l
<1>6. roomLog'[1] = {}
  BY <1>1, <1>3
<1> QED
  BY <1>3, <1>4, <1>5, <1>6 DEF RoomsPublished, Inside, Latest, K

\* Two of them.
LEMMA TwiceOfTheRoom ==
  ASSUME Types, RoomsPublished, NEW d \in Stanzas, NEW e \in Stanzas,
         NEW a \in SUBSET Nicks, NEW b \in SUBSET Nicks,
         d.kind = "room", e.kind = "room", Moves(d, Latest(roomLog), a), Moves(e, a, b),
         roomLog' = roomLog \o <<a, b>>, sent' = Append(Append(sent, d), e),
         b \cap {Me, Renamed} = {} => b = {}
  PROVE  RoomsPublished'
<1> DEFINE K   == "room"
           V   == SUBSET Nicks
           mid == Append(roomLog, a)
<1>1. /\ sent \in Seq(Stanzas) /\ roomLog \in Seq(V) /\ a \in V /\ b \in V /\ Tells(K, sent, roomLog, 1)
      /\ Append(sent, d) \in Seq(Stanzas) /\ roomLog # <<>> /\ roomLog[1] = {}
  BY AppendProperties DEF Types, RoomsPublished
<1>2. /\ mid \in Seq(V) /\ Latest(mid) = a /\ mid # <<>>
      /\ Len(roomLog) \in Nat \ {0} /\ \A v \in 1 .. Len(roomLog) : mid[v] = roomLog[v]
      /\ Len(mid) = Len(roomLog) + 1
  BY <1>1, LatestOf
<1>8. d.kind = K /\ e.kind = K /\ Numbered(d, Len(roomLog) + 1) /\ Numbered(e, Len(mid) + 1)
  BY DEF Numbered
<1> HIDE DEF K, V
<1>3. Tells(K, Append(sent, d), mid, 1)
  BY <1>1, <1>8, TellsOnce
<1>4. roomLog' = Append(mid, b)
  BY <1>1, TwoAppends
<1> HIDE DEF mid
<1>5. /\ roomLog' \in Seq(V) /\ Latest(roomLog') = b
      /\ \A v \in 1 .. Len(mid) : roomLog'[v] = mid[v]
  <2>1. /\ Append(mid, b) \in Seq(V) /\ Latest(Append(mid, b)) = b
        /\ \A v \in 1 .. Len(mid) : Append(mid, b)[v] = mid[v]
    BY <1>1, <1>2, LatestOf
  <2> QED
    BY <1>4, <2>1 DEF Latest
<1>6. Tells(K, Append(Append(sent, d), e), roomLog', 1)
  <2> DEFINE s == Append(sent, d)
  <2>1. s \in Seq(Stanzas) /\ mid \in Seq(V) /\ b \in V /\ Tells(K, s, mid, 1) /\ e.kind = K
        /\ Moves(e, Latest(mid), b) /\ Numbered(e, Len(mid) + 1)
    BY <1>1, <1>2, <1>3, <1>8
  <2> HIDE DEF s
  <2>2. Tells(K, Append(s, e), Append(mid, b), 1)
    BY <2>1, TellsOnce
  <2> QED
    BY <1>4, <2>2 DEF s
<1>7. roomLog'[1] = {}
  BY <1>1, <1>2, <1>5
<1> QED
  BY <1>5, <1>6, <1>7 DEF RoomsPublished, Inside, Latest, K

LEMMA RoomsServer == Types /\ RoomsPublished /\ Server => RoomsPublished'
<1> SUFFICES ASSUME Types, RoomsPublished, Server PROVE RoomsPublished'
  OBVIOUS
<1>1. \A a \in asked, ok \in BOOLEAN : Reply(a, ok) \in Stanzas /\ Reply(a, ok).kind # "room"
  BY Records DEF Types, Requests, Reply
<1>2. /\ Latest(roomLog) \in SUBSET Nicks /\ Nicks = {Me, Renamed, Guest}
      /\ ~Inside => Latest(roomLog) = {}
  BY RoomVersions DEF RoomsPublished, Nicks
<1>3. CASE AnswerGet \/ ChangeRoster \/ AnswerSet
  <2>1. UNCHANGED roomLog /\ Adds(OfRoster)
    BY <1>3, SaysOfRoster
  <2> QED
    BY <2>1, NotOfTheRoom DEF Adds, OfRoster
<1>5. CASE SendPresence
  <2>1. PICK j \in FullJids \cup {<<c, NoRes>> : c \in Contacts},
             type \in {"available", "unavailable"} :
          Sends(<< [kind |-> "presence", from |-> j, type |-> type, show |-> "plain",
                    v |-> Len(presenceLog) + 1] >>)
    BY <1>5 DEF SendPresence
  <2>2. Len(presenceLog) + 1 \in Nat
    BY LenProperties DEF Types
  <2>3. PICK d \in Stanzas : d.kind # "room" /\ sent' = Append(sent, d)
    BY <2>1, <2>2, Records, Sent
  <2> QED
    BY <1>5, <2>3, NotOfTheRoom DEF SendPresence
<1>6. CASE AnswerEnter
  <2>1. CASE \E from \in {Room, MeJid} :
               Sends(<< [kind |-> "refusal", from |-> from] >>) /\ UNCHANGED roomLog
    <3>1. PICK d \in Stanzas : d.kind # "room" /\ sent' = Append(sent, d)
      BY <2>1, Records, Sent
    <3> QED
      BY <2>1, <3>1, NotOfTheRoom
  <2>2. ASSUME ~Inside, NEW codes \in Codes.enter,
               Sends(<< RoomPresence(Guest, "available", Codes.none, FALSE),
                        RoomPresence(Me, "available", codes, FALSE) >>),
               roomLog' = roomLog \o << {Guest}, {Guest, Me} >>
        PROVE  RoomsPublished'
    <3> DEFINE d == RoomPresence(Guest, "available", Codes.none, FALSE)
               e == RoomPresence(Me, "available", codes, FALSE)
    <3>1. d \in Stanzas /\ e \in Stanzas
      BY RoomStanzas
    <3>2. sent' = Append(Append(sent, d), e)
      BY <2>2, <3>1, Sent
    <3>3. /\ d.kind = "room" /\ e.kind = "room"
          /\ Moves(d, Latest(roomLog), {Guest}) /\ Moves(e, {Guest}, {Guest, Me})
      BY <1>2, <2>2 DEF RoomPresence, Moves
    <3>4. {Guest} \in SUBSET Nicks /\ {Guest, Me} \in SUBSET Nicks
      BY DEF Nicks
    <3> HIDE DEF d, e
    <3> QED
      BY <2>2, <3>1, <3>2, <3>3, <3>4, TwiceOfTheRoom
  <2>3. ASSUME ~Inside, NEW codes \in Codes.create,
               Sends(<< RoomPresence(Me, "available", codes, TRUE) >>),
               roomLog' = Append(roomLog, {Me})
        PROVE  RoomsPublished'
    <3> DEFINE d == RoomPresence(Me, "available", codes, TRUE)
    <3>1. d \in Stanzas
      BY RoomStanzas
    <3>2. d.kind = "room" /\ Moves(d, Latest(roomLog), {Me})
      BY <1>2, <2>3 DEF RoomPresence, Moves
    <3>3. {Me} \in SUBSET Nicks /\ sent' = Append(sent, d)
      BY <2>3, <3>1, Sent DEF Nicks
    <3>4. PICK e \in Stanzas : e.kind # "room"
      BY Records DEF Tasks
    <3> HIDE DEF d
    <3> QED
      BY <2>3, <3>1, <3>2, <3>3, <3>4, OnceOfTheRoom
  <2> QED
    BY <1>6, <2>1, <2>2, <2>3 DEF AnswerEnter
<1>7. ASSUME NEW codes \in EndsStay, SendGone(codes) PROVE RoomsPublished'
  <2> DEFINE d == RoomPresence(Me, "unavailable", codes, FALSE)
  <2>1. d \in Stanzas
    BY RoomStanzas DEF EndsStay
  <2>2. d.kind = "room" /\ Moves(d, Latest(roomLog), {})
    BY <1>2 DEF RoomPresence, Moves
  <2>3. sent' = Append(sent, d) /\ roomLog' = Append(roomLog, {})
    BY <1>7, <2>1, Sent DEF SendGone
  <2>4. PICK e \in Stanzas : e.kind # "room"
    BY Records DEF Tasks
  <2> HIDE DEF d
  <2> QED
    BY <2>1, <2>2, <2>3, <2>4, OnceOfTheRoom
<1>8. CASE AnswerLeave \/ Kick
  <2>1. \E codes \in EndsStay : SendGone(codes)
    BY <1>8 DEF AnswerLeave, Kick, EndsStay
  <2> QED
    BY <1>7, <2>1
<1>9. CASE Rename
  <2>1. PICK codes \in Codes.rename :
          Sends(<< RoomPresence(Me, "unavailable", codes, FALSE),
                   RoomPresence(Renamed, "available", Codes.own, FALSE) >>)
    BY <1>9 DEF Rename
  <2> DEFINE d == RoomPresence(Me, "unavailable", codes, FALSE)
             e == RoomPresence(Renamed, "available", Codes.own, FALSE)
             rest == Latest(roomLog) \ {Me}
  <2>2. d \in Stanzas /\ e \in Stanzas
    BY RoomStanzas
  <2>3. sent' = Append(Append(sent, d), e)
    BY <2>1, <2>2, Sent
  <2>4. roomLog' = roomLog \o << rest, rest \cup {Renamed} >>
    BY <1>9 DEF Rename
  <2>5. /\ d.kind = "room" /\ e.kind = "room"
        /\ Moves(d, Latest(roomLog), rest) /\ Moves(e, rest, rest \cup {Renamed})
    BY <1>2 DEF RoomPresence, Moves
  <2>6. rest \in SUBSET Nicks /\ rest \cup {Renamed} \in SUBSET Nicks
    BY <1>2
  <2>7. (rest \cup {Renamed}) \cap {Me, Renamed} # {}
    OBVIOUS
  <2> HIDE DEF d, e, rest
  <2> QED
    BY <2>2, <2>3, <2>4, <2>5, <2>6, <2>7, TwiceOfTheRoom
<1>10. CASE AnswerKick
  <2>1. PICK a \in asked :
          /\ Inside
          /\ Sends(<< RoomPresence(Guest, "unavailable", Codes.kicked, FALSE), Reply(a, TRUE) >>)
          /\ roomLog' = Append(roomLog, Latest(roomLog) \ {Guest})
    BY <1>10 DEF AnswerKick
  <2> DEFINE d == RoomPresence(Guest, "unavailable", Codes.kicked, FALSE)
             left == Latest(roomLog) \ {Guest}
  <2>2. d \in Stanzas
    BY RoomStanzas
  <2>3. sent' = Append(Append(sent, d), Reply(a, TRUE))
    BY <1>1, <2>1, <2>2, Sent
  <2>4. d.kind = "room" /\ Moves(d, Latest(roomLog), left)
    BY DEF RoomPresence, Moves
  <2>5. left \in SUBSET Nicks /\ left \cap {Me, Renamed} # {}
    BY <1>2, <2>1, SessionAssumption DEF Inside
  <2>6. roomLog' = Append(roomLog, left)
    BY <2>1
  <2> HIDE DEF d, left
  <2> QED
    BY <1>1, <2>2, <2>3, <2>4, <2>5, <2>6, OnceOfTheRoom
<1>11. CASE AnswerIq
  <2>1. PICK a \in asked, ok \in BOOLEAN : Sends(<< Reply(a, ok) >>)
    BY <1>11 DEF AnswerIq
  <2> QED
    BY <1>1, <1>11, <2>1, Sent, NotOfTheRoom DEF AnswerIq
<1> QED
  BY <1>3, <1>5, <1>6, <1>8, <1>9, <1>10, <1>11 DEF Server

LEMMA RoomsStep == Fifo /\ RoomsPublished /\ [Next]_vars => RoomsPublished'
<1> SUFFICES ASSUME Fifo, RoomsPublished, [Next]_vars PROVE RoomsPublished'
  OBVIOUS
<1>1. CASE Server
  BY <1>1, RoomsServer DEF Fifo
<1>2. CASE ~Server
  <2>1. UNCHANGED <<sent, roomLog>>
    <3>1. ASSUME NEW i \in 1 .. parsed, RunMixins(i) PROVE UNCHANGED <<sent, roomLog>>
      BY <3>1 DEF RunMixins, server
    <3>2. CASE Next /\ \A i \in 1 .. parsed : ~RunMixins(i)
      BY <1>2, <3>2, OtherSteps
    <3>3. CASE UNCHANGED vars
      BY <3>3 DEF vars, server
    <3> QED
      BY <3>1, <3>2, <3>3
  <2> QED
    BY <2>1 DEF RoomsPublished, Inside, Latest
<1> QED
  BY <1>1, <1>2

LEMMA RoomsInit == Init => RoomsPublished
<1> SUFFICES ASSUME Init PROVE RoomsPublished
  OBVIOUS
<1>1. sent = <<>> /\ roomLog = << {} >> /\ Len(sent) = 0 /\ Len(roomLog) = 1 /\ roomLog[1] = {}
  BY DEF Init
<1>2. Count("room", sent, 0) = 0
  BY Counts
<1> QED
  BY <1>1, <1>2 DEF RoomsPublished, Tells, Latest

LEMMA RoomLogGrows ==
  ASSUME Types, Server
  PROVE  /\ Len(roomLog') \in Nat /\ Len(roomLog) <= Len(roomLog')
         /\ \A v \in 1 .. Len(roomLog) : roomLog'[v] = roomLog[v]
<1>1. \E a, b : roomLog' \in {roomLog, Append(roomLog, a), roomLog \o <<a, b>>}
  <2>1. CASE AnswerGet \/ ChangeRoster \/ AnswerSet \/ SendPresence \/ AnswerIq
    BY <2>1 DEF AnswerGet, ChangeRoster, AnswerSet, SendPresence, AnswerIq
  <2>2. CASE AnswerEnter
    BY <2>2 DEF AnswerEnter
  <2>3. CASE AnswerLeave \/ Kick \/ AnswerKick
    BY <2>3 DEF AnswerLeave, Kick, AnswerKick, SendGone
  <2>4. CASE Rename
    BY <2>4 DEF Rename
  <2> QED
    BY <2>1, <2>2, <2>3, <2>4 DEF Server
<1>2. roomLog \in Seq(SUBSET Nicks)
  BY DEF Types
<1>3. PICK a, b : roomLog' \in {roomLog, Append(roomLog, a), roomLog \o <<a, b>>}
  BY <1>1
<1> QED
  BY <1>2, <1>3, LogGrows

\* The cache of rooms is about this one.
RoomKept == DOMAIN rooms \subseteq {Room}

LEMMA TracksStep ==
  /\ Fifo /\ RoomsPublished /\ RoomKept /\ RoomTracksOccupants /\ [Next]_vars
  => RoomKept' /\ RoomTracksOccupants'
<1> SUFFICES ASSUME Fifo, RoomsPublished, RoomKept, RoomTracksOccupants, [Next]_vars
             PROVE  RoomKept' /\ RoomTracksOccupants'
  OBVIOUS
<1>1. /\ Types /\ sent \in Seq(Stanzas) /\ Len(sent) \in Nat
      /\ applied \in 0 .. Len(sent) /\ applied \in Nat
      /\ roomLog \in Seq(SUBSET Nicks) /\ Len(roomLog) \in Nat
      /\ RoomSeen = 1 + Count("room", sent, applied)
  BY LenProperties DEF Fifo, Types, RoomSeen, Count
<1>2. CASE Server
  <2>1. /\ UNCHANGED <<applied, rooms>> /\ Len(sent') \in Nat /\ Len(sent) <= Len(sent')
        /\ \A i \in 1 .. Len(sent) : sent'[i] = sent[i]
    BY <1>1, <1>2, ServerGrows DEF client, loop, data
  <2>2. \A i \in 1 .. applied : sent'[i] = sent[i]
    BY <1>1, <2>1
  <2>3. RoomSeen' = RoomSeen /\ RoomSeen \in 1 .. Len(roomLog)
    <3>1. Count("room", sent', applied) = Count("room", sent, applied)
      BY <1>1, <2>2, Counts
    <3>2. RoomSeen' = 1 + Count("room", sent', applied)
      BY <2>1 DEF RoomSeen, Count
    <3>3. Count("room", sent, applied) \in Nat /\ Count("room", sent, applied) <= Count("room", sent, Len(sent))
          /\ Count("room", sent, Len(sent)) \in Nat
      BY <1>1, CountGrows, Counts
    <3>4. Len(roomLog) = 1 + Count("room", sent, Len(sent))
      BY DEF RoomsPublished, Tells
    <3>5. RoomSeen' = RoomSeen
      BY <1>1, <3>1, <3>2
    <3>6. RoomSeen \in 1 .. Len(roomLog)
      BY <1>1, <3>3, <3>4
    <3> QED
      BY <3>5, <3>6
  <2>4. roomLog'[RoomSeen'] = roomLog[RoomSeen]
    BY <1>1, <1>2, <2>3, RoomLogGrows
  <2>5. \A a, b : SeenOwn(a, b)' <=> SeenOwn(a, b)
    BY <2>1, <2>2 DEF SeenOwn
  <2> QED
    BY <2>1, <2>4, <2>5 DEF RoomKept, RoomTracksOccupants, InRoom, Occupants
<1>3. ASSUME NEW i \in 1 .. parsed, RunMixins(i) PROVE RoomKept' /\ RoomTracksOccupants'
  <2>1. /\ i = applied + 1 /\ i \in 1 .. Len(sent) /\ applied' = i
        /\ UNCHANGED <<sent, roomLog>> /\ MucOnStanza(sent[i])
    BY <1>3, MixinsStep DEF RunMixins
  <2>2. CASE sent[i].kind # "room"
    <3>1. Count("room", sent, i) = Count("room", sent, applied) /\ UNCHANGED rooms
      BY <1>1, <2>1, <2>2, Counts DEF MucOnStanza
    <3>2. RoomSeen' = RoomSeen
      BY <1>1, <2>1, <3>1 DEF RoomSeen, Count
    <3>3. \A a, b : SeenOwn(a, b)' <=> SeenOwn(a, b)
      <4>1. \A k \in 1 .. i : sent[k].kind = "room" => k \in 1 .. applied
        BY <1>1, <2>1, <2>2
      <4>2. \A k \in 1 .. applied : k \in 1 .. i
        BY <1>1, <2>1
      <4> QED
        BY <2>1, <4>1, <4>2 DEF SeenOwn
    <3> QED
      BY <2>1, <3>1, <3>2, <3>3 DEF RoomKept, RoomTracksOccupants, InRoom, Occupants
  <2>3. CASE sent[i].kind = "room"
    <3> DEFINE s    == sent[i]
               nick == s.from[2]
               old  == roomLog[RoomSeen]
               new  == roomLog[RoomSeen']
    <3>1. Count("room", sent, i) = Count("room", sent, applied) + 1
      BY <1>1, <2>1, <2>3, Counts
    <3>2. RoomSeen' = RoomSeen + 1 /\ RoomSeen = Count("room", sent, i)
      <4>1. RoomSeen' = 1 + Count("room", sent, i)
        BY <2>1 DEF RoomSeen, Count
      <4>2. Count("room", sent, applied) \in Nat
        BY <1>1, Counts
      <4> QED
        BY <1>1, <3>1, <4>1, <4>2
    <3>3. Moves(s, old, new)
      <4>1. Tells("room", sent, roomLog, 1)
        BY DEF RoomsPublished
      <4>2. Moves(s, roomLog[(1 + Count("room", sent, i)) - 1], roomLog[1 + Count("room", sent, i)])
        BY <2>1, <2>3, <4>1 DEF Tells
      <4>3. /\ (1 + Count("room", sent, i)) - 1 = RoomSeen
            /\ RoomSeen' = 1 + Count("room", sent, i)
        <5>1. Count("room", sent, applied) \in Nat
          BY <1>1, Counts
        <5> QED
          BY <1>1, <3>1, <3>2, <5>1
      <4> QED
        BY <2>1, <4>2, <4>3
    <3>4. /\ \A a, b : SeenOwn(a, b) => SeenOwn(a, b)'
          /\ \A a, b : s.type = "unavailable" /\ s.codes = <<a, b>> => SeenOwn(a, b)'
      BY <1>1, <2>1, <2>3 DEF SeenOwn
    <3>5. s.type \in {"available", "unavailable"}
      BY <1>1, <2>1, <2>3, ElementOfSeq DEF Stanzas
    <3>6. /\ s.from[1] = Room
          /\ rooms' = IF s.type = "available"
                        THEN Put(rooms, Room, Put(Occupants(Room), nick, MarkedFirst(s)))
                      ELSE IF MarkedFirst(s) THEN Drop(rooms, Room)
                      ELSE Put(rooms, Room, Drop(Occupants(Room), nick))
      BY <2>1, <2>3, <3>3 DEF MucOnStanza, Moves
    <3>12. roomLog'[RoomSeen'] = new
      BY <2>1
    <3> HIDE DEF s, nick, old, new
    <3>7. RoomKept'
      BY <3>6 DEF RoomKept, Put, Drop
    <3>8. InRoom' = IF s.type = "available" THEN InRoom \cup {nick}
                    ELSE IF MarkedFirst(s) THEN {} ELSE InRoom \ {nick}
      BY <3>6 DEF InRoom, Occupants, Put, Drop, Empty
    <3>9. /\ ~SeenOwn(110, 303)' => old \subseteq InRoom
          /\ ~SeenOwn(307, 110)' => InRoom \subseteq old
      BY <3>4 DEF RoomTracksOccupants, old
    <3>10. CASE s.type = "available"
      <4>1. new = old \cup {nick} /\ InRoom' = InRoom \cup {nick}
        BY <2>3, <3>3, <3>8, <3>10 DEF Moves, nick, s
      <4> QED
        BY <3>7, <3>12, <3>9, <4>1 DEF RoomTracksOccupants
    <3>11. CASE s.type = "unavailable"
      <4>1. CASE s.codes \in {<<110>>, <<110, 307>>} /\ new = {}
        <5>1. MarkedFirst(s)
          BY <4>1 DEF MarkedFirst
        <5> QED
          BY <3>7, <3>12, <3>8, <3>11, <4>1, <5>1 DEF RoomTracksOccupants
      <4>2. CASE s.codes = <<307, 110>> /\ new = {}
        <5>1. SeenOwn(307, 110)'
          BY <3>4, <3>11, <4>2
        <5> QED
          BY <3>7, <3>12, <4>2, <5>1 DEF RoomTracksOccupants
      <4>3. CASE s.codes = <<110, 303>> /\ new = old \ {nick}
        <5>1. SeenOwn(110, 303)' /\ MarkedFirst(s)
          BY <3>4, <3>11, <4>3 DEF MarkedFirst
        <5>2. InRoom' = {}
          BY <3>8, <3>11, <5>1
        <5> QED
          BY <3>7, <3>12, <5>1, <5>2 DEF RoomTracksOccupants
      <4>4. CASE s.codes \in {<<303, 110>>, <<307>>} /\ new = old \ {nick}
        <5>1. ~MarkedFirst(s)
          BY <4>4 DEF MarkedFirst
        <5>2. InRoom' = InRoom \ {nick}
          BY <3>8, <3>11, <5>1
        <5> QED
          BY <3>7, <3>12, <3>9, <4>4, <5>2 DEF RoomTracksOccupants
      <4> QED
        BY <2>3, <3>3, <3>11, <4>1, <4>2, <4>3, <4>4 DEF Moves, EndsStay, Codes, nick, s
    <3> QED
      BY <3>5, <3>10, <3>11
  <2> QED
    BY <2>2, <2>3
<1>4. CASE UNCHANGED <<sent, applied, roomLog, rooms>>
  BY <1>4 DEF RoomKept, RoomTracksOccupants, InRoom, Occupants, SeenOwn, RoomSeen
<1>5. CASE Next /\ ~Server /\ \A i \in 1 .. parsed : ~RunMixins(i)
  BY <1>4, <1>5, OtherSteps
<1>6. CASE UNCHANGED vars
  BY <1>4, <1>6 DEF vars, server, loop, data
<1> QED
  BY <1>2, <1>3, <1>5, <1>6

\* The occupants of the room are those the server has told of, except where it
\* took a change of its own nickname for leaving, or did not see that it left.
THEOREM SessionRoomTracksOccupants == Spec => []RoomTracksOccupants
<1>1. Init => RoomKept /\ RoomTracksOccupants
  <2> SUFFICES ASSUME Init PROVE RoomKept /\ RoomTracksOccupants
    OBVIOUS
  <2>1. rooms = Empty /\ applied = 0 /\ roomLog = << {} >>
    BY DEF Init, MucInit
  <2>2. RoomSeen = 1
    <3>1. {k \in 1 .. applied : sent[k].kind = "room"} = {}
      BY <2>1
    <3> QED
      BY <3>1, FS_EmptySet DEF RoomSeen
  <2> QED
    BY <2>1, <2>2 DEF RoomKept, RoomTracksOccupants, InRoom, Occupants, Empty
<1> QED
  BY <1>1, RoomsInit, RoomsStep, TracksStep, FifoInductive, PTL DEF Spec

-----------------------------------------------------------------------------
(* Who is available.                                                       *)
LEMMA LastOf ==
  ASSUME NEW n \in Nat, NEW T \in SUBSET (1 .. n), T # {}
  PROVE  Max(T) \in T /\ \A y \in T : Max(T) >= y
<1> DEFINE D == {n - t : t \in T}
<1>1. D \in SUBSET Nat /\ D # {} /\ \A t \in T : n - t \in D
  <2>1. \A t \in T : n - t \in Nat
    OBVIOUS
  <2>2. \E t \in T : TRUE
    OBVIOUS
  <2> QED
    BY <2>1, <2>2
<1>2. PICK x \in T : Min(D) = n - x
  BY <1>1, FirstOf
<1>3. \A y \in T : n - x <= n - y
  BY <1>1, <1>2, FirstOf
<1>4. \A y \in T : y \in Nat /\ x \in Nat
  OBVIOUS
<1>5. \A y \in T : x >= y
  BY <1>3, <1>4
<1> QED
  BY <1>5 DEF Max

\* The cache as a function of full JIDs.
View(c) == [j \in UNION {{<<b, r>> : r \in DOMAIN c[b]} : b \in DOMAIN c} |-> c[j[1]][j[2]]]

LEMMA ViewOf ==
  ASSUME NEW c
  PROVE  /\ \A b, r : <<b, r>> \in DOMAIN View(c) <=> b \in DOMAIN c /\ r \in DOMAIN c[b]
         /\ \A j \in DOMAIN View(c) : j = <<j[1], j[2]>>
         /\ \A b, r : <<b, r>> \in DOMAIN View(c) => View(c)[<<b, r>>] = c[b][r]
         /\ View(c) = [j \in DOMAIN View(c) |-> View(c)[j]]
BY DEF View

LEMMA SamePairs ==
  ASSUME NEW A, NEW B, \A j \in A : j = <<j[1], j[2]>>, \A j \in B : j = <<j[1], j[2]>>,
         \A x, y : <<x, y>> \in A <=> <<x, y>> \in B
  PROVE  A = B
<1>1. \A j \in A : j \in B
  OBVIOUS
<1>2. \A j \in B : j \in A
  OBVIOUS
<1> QED
  BY <1>1, <1>2

LEMMA ViewAvailable ==
  ASSUME NEW c, NEW b, NEW r, NEW p
  PROVE  View(Available(c, b, r, p)) = Put(View(c), <<b, r>>, p)
<1> DEFINE a == Available(c, b, r, p)
<1>1. /\ DOMAIN a = {b} \cup DOMAIN c
      /\ DOMAIN a[b] = {r} \cup (IF b \in DOMAIN c THEN DOMAIN c[b] ELSE {})
      /\ a[b][r] = p
      /\ b \in DOMAIN c => \A y \in DOMAIN c[b] : y # r => a[b][y] = c[b][y]
      /\ \A x \in DOMAIN c : x # b => a[x] = c[x]
  BY DEF Available, Put, Resources, Empty
<1> HIDE DEF a
<1>2. \A x, y : <<x, y>> \in DOMAIN View(a) <=>
                  (x = b /\ y = r) \/ <<x, y>> \in DOMAIN View(c)
  <2> TAKE x, y
  <2>1. /\ <<x, y>> \in DOMAIN View(a) <=> x \in DOMAIN a /\ y \in DOMAIN a[x]
        /\ <<x, y>> \in DOMAIN View(c) <=> x \in DOMAIN c /\ y \in DOMAIN c[x]
    BY ViewOf
  <2>2. CASE x = b
    BY <1>1, <2>1, <2>2
  <2>3. CASE x # b
    BY <1>1, <2>1, <2>3
  <2> QED
    BY <2>2, <2>3
<1>3. DOMAIN View(a) = {<<b, r>>} \cup DOMAIN View(c)
  <2> DEFINE B == {<<b, r>>} \cup DOMAIN View(c)
  <2>1. \A x, y : <<x, y>> \in DOMAIN View(a) <=> <<x, y>> \in B
    BY <1>2
  <2>2. (\A j \in DOMAIN View(a) : j = <<j[1], j[2]>>) /\ (\A j \in B : j = <<j[1], j[2]>>)
    BY ViewOf
  <2> HIDE DEF B
  <2>3. DOMAIN View(a) = B
    BY <2>1, <2>2, SamePairs
  <2> QED
    BY <2>3 DEF B
<1>4. \A x, y : <<x, y>> \in DOMAIN View(a) =>
        View(a)[<<x, y>>] = IF x = b /\ y = r THEN p ELSE View(c)[<<x, y>>]
  BY <1>1, <1>2, ViewOf
<1>5. \A j \in DOMAIN View(a) : View(a)[j] = IF j = <<b, r>> THEN p ELSE View(c)[j]
  BY <1>4, ViewOf
<1>6. View(a) = [j \in DOMAIN View(a) |-> View(a)[j]]
  BY ViewOf
<1>7. View(a) = Put(View(c), <<b, r>>, p)
  BY <1>3, <1>5, <1>6 DEF Put
<1> QED
  BY <1>7 DEF a

LEMMA ViewUnavailable ==
  ASSUME NEW c, NEW b, NEW r
  PROVE  View(Unavailable(c, b, r)) = Drop(View(c), <<b, r>>)
<1> DEFINE a == Unavailable(c, b, r)
           left == Drop(Resources(c, b), r)
<1>1. /\ DOMAIN left = (IF b \in DOMAIN c THEN DOMAIN c[b] ELSE {}) \ {r}
      /\ b \in DOMAIN c => \A y \in DOMAIN c[b] : y # r => left[y] = c[b][y]
  BY DEF Drop, Resources, Empty
<1>2. a = IF r \in DOMAIN Resources(c, b) /\ DOMAIN left = {} THEN Drop(c, b) ELSE Put(c, b, left)
  BY DEF Unavailable
<1> HIDE DEF a, left
<1>3. \A x, y : x \in DOMAIN a /\ y \in DOMAIN a[x] <=>
                  ~(x = b /\ y = r) /\ x \in DOMAIN c /\ y \in DOMAIN c[x]
  <2>1. CASE r \in DOMAIN Resources(c, b) /\ DOMAIN left = {}
    <3>1. DOMAIN a = DOMAIN c \ {b} /\ \A x \in DOMAIN a : a[x] = c[x]
      BY <1>2, <2>1 DEF Drop
    <3> QED
      BY <1>1, <2>1, <3>1
  <2>2. CASE ~(r \in DOMAIN Resources(c, b) /\ DOMAIN left = {})
    <3>1. /\ DOMAIN a = {b} \cup DOMAIN c /\ a[b] = left
          /\ \A x \in DOMAIN c : x # b => a[x] = c[x]
      BY <1>2, <2>2 DEF Put
    <3> QED
      BY <1>1, <3>1
  <2> QED
    BY <2>1, <2>2
<1>4. \A x, y : x \in DOMAIN a /\ y \in DOMAIN a[x] => a[x][y] = c[x][y]
  <2>1. CASE r \in DOMAIN Resources(c, b) /\ DOMAIN left = {}
    BY <1>2, <2>1 DEF Drop
  <2>2. CASE ~(r \in DOMAIN Resources(c, b) /\ DOMAIN left = {})
    <3>1. /\ DOMAIN a = {b} \cup DOMAIN c /\ a[b] = left
          /\ \A x \in DOMAIN c : x # b => a[x] = c[x]
      BY <1>2, <2>2 DEF Put
    <3> QED
      BY <1>1, <3>1
  <2> QED
    BY <2>1, <2>2
<1>5. DOMAIN View(a) = DOMAIN View(c) \ {<<b, r>>}
  <2> DEFINE B == DOMAIN View(c) \ {<<b, r>>}
  <2>1. \A x, y : <<x, y>> \in DOMAIN View(a) <=> <<x, y>> \in B
    <3> TAKE x, y
    <3>1. /\ <<x, y>> \in DOMAIN View(a) <=> x \in DOMAIN a /\ y \in DOMAIN a[x]
          /\ <<x, y>> \in DOMAIN View(c) <=> x \in DOMAIN c /\ y \in DOMAIN c[x]
          /\ <<x, y>> = <<b, r>> <=> x = b /\ y = r
      BY ViewOf
    <3> QED
      BY <1>3, <3>1
  <2>2. (\A j \in DOMAIN View(a) : j = <<j[1], j[2]>>) /\ (\A j \in B : j = <<j[1], j[2]>>)
    BY ViewOf
  <2> HIDE DEF B
  <2>3. DOMAIN View(a) = B
    BY <2>1, <2>2, SamePairs
  <2> QED
    BY <2>3 DEF B
<1>6. \A x, y : <<x, y>> \in DOMAIN View(a) => View(a)[<<x, y>>] = View(c)[<<x, y>>]
  BY <1>3, <1>4, ViewOf
<1>7. \A j \in DOMAIN View(a) : View(a)[j] = View(c)[j]
  BY <1>6, ViewOf
<1>8. View(a) = [j \in DOMAIN View(a) |-> View(a)[j]]
  BY ViewOf
<1>9. View(a) = Drop(View(c), <<b, r>>)
  BY <1>5, <1>7, <1>8 DEF Drop
<1> QED
  BY <1>9 DEF a

PresencesPublished == Tells("presence", sent, presenceLog, 1) /\ presenceLog[1] = Empty

LEMMA PresenceLogGrows ==
  ASSUME Types, Server
  PROVE  /\ Len(presenceLog') \in Nat /\ Len(presenceLog) <= Len(presenceLog')
         /\ \A v \in 1 .. Len(presenceLog) : presenceLog'[v] = presenceLog[v]
<1>1. \E a : presenceLog' \in {presenceLog, Append(presenceLog, a)}
  <2>1. CASE SendPresence
    BY <2>1 DEF SendPresence
  <2>2. CASE AnswerGet \/ ChangeRoster \/ AnswerSet
    BY <2>2, SaysOfRoster
  <2>3. CASE AnswerEnter \/ AnswerLeave \/ Kick \/ Rename \/ AnswerKick \/ AnswerIq
    BY <2>3, SaysAside
  <2> QED
    BY <2>1, <2>2, <2>3 DEF Server
<1>2. presenceLog \in Seq(Lists)
  BY DEF Types
<1>3. PICK a : presenceLog' \in {presenceLog, Append(presenceLog, a)}
  BY <1>1
<1> QED
  BY <1>2, <1>3, LogGrows

LEMMA PresencesServer == Types /\ PresencesPublished /\ Server => PresencesPublished'
<1> SUFFICES ASSUME Types, PresencesPublished, Server PROVE PresencesPublished'
  OBVIOUS
<1> DEFINE K == "presence"
<1>1. /\ sent \in Seq(Stanzas) /\ presenceLog \in Seq(Lists) /\ presenceLog # <<>>
      /\ Tells(K, sent, presenceLog, 1)
  BY DEF Types, PresencesPublished
<1>2. presenceLog'[1] = Empty
  <2>1. Len(presenceLog) \in Nat \ {0}
    BY <1>1, EmptySeq
  <2> QED
    BY <2>1, PresenceLogGrows DEF PresencesPublished
<1>3. Tells(K, sent', presenceLog', 1)
  <2>1. CASE SendPresence
    <3>1. PICK j \in FullJids \cup {<<c, NoRes>> : c \in Contacts},
               type \in {"available", "unavailable"} :
            /\ Sends(<< [kind |-> "presence", from |-> j, type |-> type, show |-> "plain",
                         v |-> Len(presenceLog) + 1] >>)
            /\ presenceLog' = Append(presenceLog,
                 IF j[2] = NoRes THEN Latest(presenceLog)
                 ELSE IF type = "available" THEN Put(Latest(presenceLog), j, "plain")
                 ELSE Drop(Latest(presenceLog), j))
      BY <2>1 DEF SendPresence
    <3> DEFINE d == [kind |-> "presence", from |-> j, type |-> type, show |-> "plain",
                     v |-> Len(presenceLog) + 1]
               new == IF j[2] = NoRes THEN Latest(presenceLog)
                      ELSE IF type = "available" THEN Put(Latest(presenceLog), j, "plain")
                      ELSE Drop(Latest(presenceLog), j)
    <3>2. Len(presenceLog) + 1 \in Nat /\ new \in Lists
      BY Comings
    <3>3. d \in Stanzas
      BY <3>2, Records
    <3>4. d.kind = K /\ Numbered(d, Len(presenceLog) + 1)
      BY DEF Numbered
    <3>5. Moves(d, Latest(presenceLog), new)
      BY DEF Moves
    <3>6. Sends(<<d>>) /\ presenceLog' = Append(presenceLog, new)
      BY <3>1
    <3> HIDE DEF d, new, K
    <3>7. sent' = Append(sent, d)
      BY <3>3, <3>6, Sent
    <3>8. Tells(K, Append(sent, d), Append(presenceLog, new), 1)
      BY <1>1, <3>2, <3>3, <3>4, <3>5, TellsOnce
    <3> QED
      BY <3>6, <3>7, <3>8
  <2>2. CASE AnswerGet \/ ChangeRoster \/ AnswerSet
    <3>1. UNCHANGED presenceLog /\ Adds(OfRoster)
      BY <2>2, SaysOfRoster
    <3>2. OfRoster \in SUBSET Stanzas /\ \A d \in OfRoster : d.kind # K
      BY DEF OfRoster
    <3> HIDE DEF K
    <3>3. Tells(K, sent', presenceLog, 1)
      BY <1>1, <3>1, <3>2, AddsNone
    <3> QED
      BY <3>1, <3>3
  <2>3. CASE AnswerEnter \/ AnswerLeave \/ Kick \/ Rename \/ AnswerKick \/ AnswerIq
    <3>1. UNCHANGED presenceLog /\ Adds(Asides)
      BY <2>3, SaysAside
    <3>2. Asides \in SUBSET Stanzas /\ \A d \in Asides : d.kind # K
      BY DEF Asides
    <3> HIDE DEF K
    <3>3. Tells(K, sent', presenceLog, 1)
      BY <1>1, <3>1, <3>2, AddsNone
    <3> QED
      BY <3>1, <3>3
  <2> QED
    BY <2>1, <2>2, <2>3 DEF Server
<1> QED
  BY <1>2, <1>3 DEF PresencesPublished

LEMMA PresencesStep == Fifo /\ PresencesPublished /\ [Next]_vars => PresencesPublished'
<1> SUFFICES ASSUME Fifo, PresencesPublished, [Next]_vars PROVE PresencesPublished'
  OBVIOUS
<1>1. CASE Server
  BY <1>1, PresencesServer DEF Fifo
<1>2. CASE ~Server
  <2>1. UNCHANGED <<sent, presenceLog>>
    <3>1. ASSUME NEW i \in 1 .. parsed, RunMixins(i) PROVE UNCHANGED <<sent, presenceLog>>
      BY <3>1 DEF RunMixins, server
    <3>2. CASE Next /\ \A i \in 1 .. parsed : ~RunMixins(i)
      BY <1>2, <3>2, OtherSteps
    <3>3. CASE UNCHANGED vars
      BY <3>3 DEF vars, server
    <3> QED
      BY <3>1, <3>2, <3>3
  <2> QED
    BY <2>1 DEF PresencesPublished
<1> QED
  BY <1>1, <1>2

LEMMA PresencesInit == Init => PresencesPublished
<1> SUFFICES ASSUME Init PROVE PresencesPublished
  OBVIOUS
<1>1. sent = <<>> /\ presenceLog = << Empty >> /\ Len(sent) = 0 /\ Len(presenceLog) = 1
      /\ presenceLog[1] = Empty
  BY DEF Init
<1>2. Count("presence", sent, 0) = 0
  BY Counts
<1> QED
  BY <1>1, <1>2 DEF PresencesPublished, Tells

\* The version of who is available that the mixins have come to.
Reached == 1 + Count("presence", sent, applied)

PresenceFollowed ==
  /\ View(cache) = presenceLog[Reached]
  /\ Shown # {} => PresenceSeen = Reached

\* The presences the mixins have seen stay what they were.
LEMMA ShownKept ==
  ASSUME Fifo, UNCHANGED applied, \A i \in 1 .. applied : sent'[i] = sent[i]
  PROVE  /\ Shown' = Shown /\ Reached' = Reached /\ PresenceSeen' = PresenceSeen
         /\ \A i \in Shown : sent'[i] = sent[i]
<1>1. Shown' = Shown /\ \A i \in Shown : sent'[i] = sent[i]
  BY DEF Shown
<1>2. Reached' = Reached
  BY <1>1 DEF Reached, Count, Shown
<1>3. Shown # {} => Max(Shown) \in Shown
  <2>1. applied \in Nat /\ Shown \in SUBSET (1 .. applied)
    BY DEF Fifo, Types, Shown
  <2> QED
    BY <2>1, LastOf
<1>4. PresenceSeen' = PresenceSeen
  BY <1>1, <1>3 DEF PresenceSeen
<1> QED
  BY <1>1, <1>2, <1>4

\* What the mixins make of a presence.
LEMMA PresenceShown ==
  ASSUME Fifo, PresencesPublished, NEW i \in 1 .. parsed, RunMixins(i)
  PROVE  /\ sent[i].kind # "presence" =>
              UNCHANGED <<cache, ownPresence, sent>> /\ Shown' = Shown /\ Reached' = Reached
              /\ PresenceSeen' = PresenceSeen
         /\ sent[i].kind = "presence" =>
              /\ Shown' = Shown \cup {i} /\ \A k \in Shown : k < i
              /\ UNCHANGED <<sent, presenceLog>> /\ Reached' = Reached + 1
              /\ PresenceSeen' = Reached' /\ Reached' \in 2 .. Len(presenceLog)
              /\ Moves(sent[i], presenceLog[Reached], presenceLog[Reached'])
<1>1. /\ i = applied + 1 /\ i \in 1 .. Len(sent) /\ applied' = i /\ applied \in Nat
      /\ UNCHANGED <<sent, presenceLog>> /\ PresenceOnStanza(sent[i])
      /\ applied <= Len(sent) /\ Len(sent) \in Nat
  BY MixinsStep DEF RunMixins
<1>2. Count("presence", sent, applied) \in Nat /\ Reached' = 1 + Count("presence", sent, i)
  <2>1. Count("presence", sent, applied) \in Nat
    BY <1>1, Counts
  <2>2. Reached' = 1 + Count("presence", sent, i)
    BY <1>1 DEF Reached, Count
  <2> QED
    BY <2>1, <2>2
<1>3. ASSUME sent[i].kind # "presence"
      PROVE  UNCHANGED <<cache, ownPresence, sent>> /\ Shown' = Shown /\ Reached' = Reached
             /\ PresenceSeen' = PresenceSeen
  <2>1. UNCHANGED <<cache, ownPresence, sent>>
    BY <1>1, <1>3 DEF PresenceOnStanza
  <2>2. Shown' = Shown
    BY <1>1, <1>3 DEF Shown
  <2>3. Reached' = Reached
    <3>1. Count("presence", sent, i) = Count("presence", sent, applied)
      BY <1>1, <1>3, Counts
    <3> QED
      BY <1>2, <3>1 DEF Reached
  <2>4. PresenceSeen' = PresenceSeen
    BY <1>1, <2>2 DEF PresenceSeen
  <2> QED
    BY <2>1, <2>2, <2>3, <2>4
<1>4. ASSUME sent[i].kind = "presence"
      PROVE  /\ Shown' = Shown \cup {i} /\ \A k \in Shown : k < i
             /\ Reached' = Reached + 1
             /\ PresenceSeen' = Reached' /\ Reached' \in 2 .. Len(presenceLog)
             /\ Moves(sent[i], presenceLog[Reached], presenceLog[Reached'])
  <2>1. Shown' = Shown \cup {i} /\ \A k \in Shown : k < i
    BY <1>1, <1>4 DEF Shown
  <2>2. Count("presence", sent, i) = Count("presence", sent, applied) + 1
    BY <1>1, <1>4, Counts
  <2>3. Reached' = Reached + 1 /\ Reached = Reached' - 1
    BY <1>2, <2>2 DEF Reached
  <2>4. /\ Reached' \in 2 .. Len(presenceLog)
        /\ Moves(sent[i], presenceLog[Reached' - 1], presenceLog[Reached'])
        /\ sent[i].v = Reached'
    <3> DEFINE w == 1 + Count("presence", sent, i)
    <3>1. Tells("presence", sent, presenceLog, 1)
      BY DEF PresencesPublished
    <3>2. /\ w \in 2 .. Len(presenceLog) /\ Moves(sent[i], presenceLog[w - 1], presenceLog[w])
          /\ Numbered(sent[i], w)
      BY <1>1, <1>4, <3>1 DEF Tells
    <3>3. w = Reached'
      BY <1>2
    <3> HIDE DEF w
    <3> QED
      BY <1>4, <3>2, <3>3 DEF Numbered
  <2>5. Max(Shown') = i
    <3>1. Shown' \in SUBSET (1 .. i) /\ i \in Nat /\ i \in Shown'
      BY <1>1, <2>1 DEF Shown
    <3> DEFINE last == Max(Shown')
    <3>2. last \in Shown' /\ last >= i
      BY <3>1, LastOf
    <3>3. last \in 1 .. i
      BY <3>1, <3>2
    <3> HIDE DEF last
    <3>4. last = i
      BY <3>1, <3>2, <3>3
    <3> QED
      BY <3>4 DEF last
  <2>6. PresenceSeen' = Reached'
    <3>1. Shown' # {} /\ sent'[i] = sent[i]
      BY <1>1, <2>1
    <3> QED
      BY <2>4, <2>5, <3>1 DEF PresenceSeen
  <2> QED
    BY <2>1, <2>3, <2>4, <2>6
<1> QED
  BY <1>1, <1>3, <1>4

\* A JID that has a resource is a pair that stands for itself.
LEMMA FullOnes ==
  ASSUME NEW s \in Stanzas, s.kind = "presence"
  PROVE  /\ s.type \in {"available", "unavailable"} /\ s.show = "plain"
         /\ s.from[2] # NoRes => s.from \in FullJids /\ s.from = <<s.from[1], s.from[2]>>
<1>1. /\ s.type \in {"available", "unavailable"} /\ s.show = "plain"
      /\ s.from \in FullJids \cup (Contacts \X {NoRes})
  BY DEF Stanzas
<1> QED
  BY <1>1, SessionAssumption

LEMMA CacheShown ==
  ASSUME Fifo, NEW i \in 1 .. parsed, RunMixins(i), sent[i].kind = "presence"
  PROVE  /\ sent[i].from[2] = NoRes => UNCHANGED cache
         /\ sent[i].from[2] # NoRes =>
              /\ sent[i].type = "available" =>
                   /\ cache' = Available(cache, sent[i].from[1], sent[i].from[2], "plain")
                   /\ View(cache') = Put(View(cache), sent[i].from, "plain")
              /\ sent[i].type # "available" =>
                   /\ cache' = Unavailable(cache, sent[i].from[1], sent[i].from[2])
                   /\ View(cache') = Drop(View(cache), sent[i].from)
<1> DEFINE s == sent[i]
           b == s.from[1]
           r == s.from[2]
<1>1. /\ s \in Stanzas /\ PresenceOnStanza(s)
  BY MixinsStep DEF RunMixins
<1>2. /\ s.type \in {"available", "unavailable"} /\ s.show = "plain"
      /\ r # NoRes => s.from = <<b, r>>
  BY <1>1, FullOnes
<1>3. /\ r = NoRes => UNCHANGED cache
      /\ r # NoRes /\ s.type = "available" => cache' = Available(cache, b, r, "plain")
      /\ r # NoRes /\ s.type # "available" => cache' = Unavailable(cache, b, r)
  BY <1>1, <1>2 DEF PresenceOnStanza
<1>4. /\ View(Available(cache, b, r, "plain")) = Put(View(cache), <<b, r>>, "plain")
      /\ View(Unavailable(cache, b, r)) = Drop(View(cache), <<b, r>>)
  BY ViewAvailable, ViewUnavailable
<1> HIDE DEF s, b, r
<1>5. /\ r # NoRes /\ s.type = "available" => View(cache') = Put(View(cache), s.from, "plain")
      /\ r # NoRes /\ s.type # "available" => View(cache') = Drop(View(cache), s.from)
  BY <1>2, <1>3, <1>4
<1> QED
  BY <1>3, <1>5 DEF s, b, r

LEMMA FollowedStep ==
  Fifo /\ PresencesPublished /\ PresenceFollowed /\ [Next]_vars => PresenceFollowed'
<1> SUFFICES ASSUME Fifo, PresencesPublished, PresenceFollowed, [Next]_vars
             PROVE  PresenceFollowed'
  OBVIOUS
<1>1. CASE Server
  <2>1. /\ UNCHANGED <<applied, cache>> /\ \A i \in 1 .. Len(sent) : sent'[i] = sent[i]
        /\ Types /\ Len(sent) \in Nat
    BY <1>1, ServerGrows DEF client, loop, data, Fifo
  <2>2. \A i \in 1 .. applied : sent'[i] = sent[i]
    BY <2>1 DEF Types
  <2>3. Shown' = Shown /\ Reached' = Reached /\ PresenceSeen' = PresenceSeen
    BY <2>1, <2>2, ShownKept
  <2>4. Reached \in 1 .. Len(presenceLog)
    <3>1. applied \in 0 .. Len(sent)
      BY <2>1 DEF Types
    <3>2. /\ Count("presence", sent, applied) \in Nat
          /\ Count("presence", sent, applied) <= Count("presence", sent, Len(sent))
          /\ Count("presence", sent, Len(sent)) \in Nat
      BY <2>1, <3>1, CountGrows, Counts
    <3>3. Len(presenceLog) = 1 + Count("presence", sent, Len(sent))
      BY DEF PresencesPublished, Tells
    <3> QED
      BY <3>2, <3>3 DEF Reached
  <2>5. presenceLog'[Reached] = presenceLog[Reached]
    BY <1>1, <2>1, <2>4, PresenceLogGrows
  <2> QED
    BY <2>1, <2>3, <2>5 DEF PresenceFollowed
<1>2. ASSUME NEW i \in 1 .. parsed, RunMixins(i) PROVE PresenceFollowed'
  <2>1. UNCHANGED presenceLog
    BY <1>2, MixinsStep
  <2>2. CASE sent[i].kind # "presence"
    BY <1>2, <2>1, <2>2, PresenceShown DEF PresenceFollowed
  <2>3. CASE sent[i].kind = "presence"
    <3>1. PresenceSeen' = Reached' /\ Moves(sent[i], presenceLog[Reached], presenceLog[Reached'])
      BY <1>2, <2>3, PresenceShown
    <3>2. presenceLog[Reached'] = IF sent[i].from[2] = NoRes THEN View(cache)
                                  ELSE IF sent[i].type = "available"
                                    THEN Put(View(cache), sent[i].from, "plain")
                                  ELSE Drop(View(cache), sent[i].from)
      BY <2>3, <3>1 DEF Moves, PresenceFollowed
    <3>3. View(cache') = presenceLog[Reached']
      BY <1>2, <2>3, <3>2, CacheShown
    <3> QED
      BY <2>1, <3>1, <3>3 DEF PresenceFollowed
  <2> QED
    BY <2>2, <2>3
<1>3. CASE UNCHANGED <<sent, applied, presenceLog, cache>>
  <2>1. Shown' = Shown /\ Reached' = Reached /\ PresenceSeen' = PresenceSeen
    BY <1>3, ShownKept
  <2> QED
    BY <1>3, <2>1 DEF PresenceFollowed
<1>4. CASE Next /\ ~Server /\ \A i \in 1 .. parsed : ~RunMixins(i)
  BY <1>3, <1>4, OtherSteps
<1>5. CASE UNCHANGED vars
  BY <1>3, <1>5 DEF vars, server, loop, data
<1> QED
  BY <1>1, <1>2, <1>4, <1>5

LEMMA FollowedInit == Init => PresenceFollowed
<1> SUFFICES ASSUME Init PROVE PresenceFollowed
  OBVIOUS
<1>1. presenceLog = << Empty >> /\ applied = 0 /\ cache = Empty
  BY DEF Init, PresenceInit
<1>2. Count("presence", sent, 0) = 0 /\ Shown = {}
  BY <1>1, Counts DEF Shown
<1>3. View(Empty) = Empty
  BY DEF View, Empty
<1> QED
  BY <1>1, <1>2, <1>3 DEF PresenceFollowed, Reached

\* The cache of presences is a replica of who is available, as the server tells
\* of it: it follows the versions in their order and is one of them at any time.
THEOREM SessionPresenceIsReplica == Spec => PresenceIsReplica
<1> DEFINE copy == [j \in CachedJids |-> cache[j[1]][j[2]]]
<1>1. View(cache) = copy
  BY DEF View, CachedJids
<1>2. Init => PresenceReplica!Init
  <2> SUFFICES ASSUME Init PROVE PresenceReplica!Init
    OBVIOUS
  <2>1. presenceLog = << Empty >> /\ Shown = {} /\ presenceLog[1] = Empty
    BY DEF Init, Shown
  <2>2. PresenceSeen = 0
    BY <2>1 DEF PresenceSeen
  <2>3. View(cache) = Empty
    BY DEF Init, PresenceInit, View, Empty
  <2>4. copy = Empty
    BY <1>1, <2>3
  <2>5. presenceLog # <<>>
    BY <2>1
  <2> QED
    BY <2>2, <2>4, <2>5 DEF PresenceReplica!Init
<1>3. Fifo /\ PresencesPublished /\ PresenceFollowed /\ [Next]_vars =>
        [PresenceReplica!Next]_<<presenceLog, PresenceSeen, copy>>
  <2> SUFFICES ASSUME Fifo, PresencesPublished, PresenceFollowed, [Next]_vars
               PROVE  [PresenceReplica!Next]_<<presenceLog, PresenceSeen, copy>>
    OBVIOUS
  <2>1. View(cache)' = copy'
    BY DEF View, CachedJids
  <2>2. CASE Server
    <3>1. /\ UNCHANGED <<applied, cache>> /\ \A i \in 1 .. Len(sent) : sent'[i] = sent[i]
          /\ Types /\ Len(sent) \in Nat
      BY <2>2, ServerGrows DEF client, loop, data, Fifo
    <3>2. \A i \in 1 .. applied : sent'[i] = sent[i]
      BY <3>1 DEF Types
    <3>3. PresenceSeen' = PresenceSeen
      BY <3>1, <3>2, ShownKept
    <3>4. UNCHANGED copy
      BY <3>1 DEF CachedJids
    <3>5. PresenceReplica!Extends(presenceLog', presenceLog)
      <4>1. /\ Len(presenceLog') \in Nat /\ Len(presenceLog) <= Len(presenceLog')
            /\ \A v \in 1 .. Len(presenceLog) : presenceLog'[v] = presenceLog[v]
        BY <2>2, <3>1, PresenceLogGrows
      <4>2. DOMAIN presenceLog = 1 .. Len(presenceLog) /\ Len(presenceLog) \in Nat
        BY <3>1, LenProperties DEF Types
      <4> QED
        BY <4>1, <4>2 DEF PresenceReplica!Extends
    <3>6. PresenceReplica!Publish
      BY <3>3, <3>4, <3>5 DEF PresenceReplica!Publish
    <3> QED
      BY <3>6 DEF PresenceReplica!Next
  <2>3. ASSUME NEW i \in 1 .. parsed, RunMixins(i)
        PROVE  [PresenceReplica!Next]_<<presenceLog, PresenceSeen, copy>>
    <3>1. UNCHANGED presenceLog
      BY <2>3, MixinsStep
    <3>2. CASE sent[i].kind # "presence"
      <4>1. UNCHANGED <<cache, sent>> /\ PresenceSeen' = PresenceSeen
        BY <2>3, <3>2, PresenceShown
      <4>2. UNCHANGED copy
        BY <4>1 DEF CachedJids
      <4> QED
        BY <3>1, <4>1, <4>2
    <3>3. CASE sent[i].kind = "presence"
      <4>1. /\ PresenceSeen' = Reached' /\ Reached' = Reached + 1
            /\ Reached' \in 2 .. Len(presenceLog)
        BY <2>3, <3>3, PresenceShown
      <4>2. copy' = presenceLog[Reached']
        <5>1. PresenceFollowed'
          BY FollowedStep
        <5> QED
          BY <2>1, <3>1, <5>1 DEF PresenceFollowed
      <4>3. Len(presenceLog) \in Nat /\ Reached \in Nat
        <5>1. Len(presenceLog) \in Nat /\ applied \in Nat
          BY LenProperties DEF Fifo, Types
        <5>2. Count("presence", sent, applied) \in Nat
          BY <5>1, Counts
        <5> QED
          BY <5>1, <5>2 DEF Reached
      <4>4. PresenceSeen \in Nat /\ PresenceSeen <= Reached
        BY <4>3 DEF PresenceFollowed, PresenceSeen
      <4>5. Reached' \in PresenceSeen + 1 .. Len(presenceLog)
        BY <4>1, <4>3, <4>4
      <4>6. PresenceReplica!Follow
        BY <3>1, <4>1, <4>2, <4>5 DEF PresenceReplica!Follow
      <4> QED
        BY <4>6 DEF PresenceReplica!Next
    <3> QED
      BY <3>2, <3>3
  <2>4. CASE UNCHANGED <<sent, applied, presenceLog, cache>>
    <3>1. PresenceSeen' = PresenceSeen
      BY <2>4, ShownKept
    <3>2. UNCHANGED copy
      BY <2>4 DEF CachedJids
    <3> QED
      BY <2>4, <3>1, <3>2
  <2>5. CASE Next /\ ~Server /\ \A i \in 1 .. parsed : ~RunMixins(i)
    BY <2>4, <2>5, OtherSteps
  <2>6. CASE UNCHANGED vars
    BY <2>4, <2>6 DEF vars, server, loop, data
  <2> QED
    BY <2>2, <2>3, <2>5, <2>6
<1> HIDE DEF copy
<1>4. Spec => PresenceReplica!Spec
  BY <1>2, <1>3, FollowedInit, FollowedStep, PresencesInit, PresencesStep, FifoInductive, PTL
     DEF Spec, PresenceReplica!Spec, copy
<1> QED
  BY <1>4 DEF PresenceIsReplica

\* A JID that is not cached was last reported gone, if it was reported at all.
Of(j) == {k \in Shown : sent[k].from = j}
LastGone ==
  \A j \in FullJids : j \notin DOMAIN View(cache) => Of(j) = {} \/ Gone(Max(Of(j)))

\* The dictionary of b may be empty.
Unknown(b) ==
  \E i \in Shown :
    LET before == {k \in Shown : k < i /\ sent[k].from = sent[i].from}
    IN  /\ Gone(i) /\ sent[i].from[1] = b
        /\ before = {} \/ Gone(Max(before))

\* What was shown later takes nothing from this.
LEMMA UnknownKept ==
  ASSUME Fifo, NEW b, Unknown(b), \A i \in Shown : sent'[i] = sent[i],
         Shown' = Shown \/ \E n : Shown' = Shown \cup {n} /\ \A i \in Shown : i < n /\ ~(n < i)
  PROVE  Unknown(b)'
<1>1. PICK i \in Shown :
        LET before == {k \in Shown : k < i /\ sent[k].from = sent[i].from}
        IN  /\ Gone(i) /\ sent[i].from[1] = b
            /\ before = {} \/ Gone(Max(before))
  BY DEF Unknown
<1> DEFINE before == {k \in Shown : k < i /\ sent[k].from = sent[i].from}
<1>2. /\ applied \in Nat /\ before \in SUBSET (1 .. applied) /\ before \in SUBSET Shown
  BY DEF Fifo, Types, Shown
<1>3. before # {} => Max(before) \in Shown
  BY <1>2, LastOf
<1>4. {k \in Shown' : k < i /\ sent'[k].from = sent'[i].from} = before
  OBVIOUS
<1>5. /\ Gone(i) /\ sent[i].from[1] = b /\ (before = {} \/ Gone(Max(before)))
  BY <1>1
<1> HIDE DEF before
<1>6. /\ i \in Shown' /\ sent'[i] = sent[i] /\ sent[i].type = "unavailable"
      /\ before = {} \/ sent'[Max(before)].type = "unavailable"
  BY <1>3, <1>5 DEF Gone
<1>7. LET earlier == {k \in Shown' : k < i /\ sent'[k].from = sent'[i].from}
      IN  /\ sent'[i].type = "unavailable" /\ sent'[i].from[1] = b
          /\ earlier = {} \/ sent'[Max(earlier)].type = "unavailable"
  BY <1>4, <1>5, <1>6
<1> QED
  BY <1>6, <1>7 DEF Unknown, Gone

LEMMA LastGoneStep ==
  ASSUME Fifo, PresencesPublished, LastGone, EmptyWasUnknown, [Next]_vars
  PROVE  LastGone' /\ EmptyWasUnknown'
<1> USE DEF Fifo
<1>1. \A b \in DOMAIN cache : cache[b] = Empty => Unknown(b)
  BY DEF EmptyWasUnknown, Unknown
<1>2. (\A b \in DOMAIN cache' : cache'[b] = Empty => Unknown(b)') => EmptyWasUnknown'
  BY DEF EmptyWasUnknown, Unknown
<1>3. \A j : Of(j) # {} => Max(Of(j)) \in Shown
  <2> TAKE j
  <2>1. applied \in Nat /\ Of(j) \in SUBSET (1 .. applied) /\ Of(j) \in SUBSET Shown
    BY DEF Types, Shown, Of
  <2> QED
    BY <2>1, LastOf
<1>4. ASSUME UNCHANGED cache, Shown' = Shown, \A i \in Shown : sent'[i] = sent[i]
      PROVE  LastGone' /\ EmptyWasUnknown'
  <2>1. \A j : Of(j)' = Of(j)
    BY <1>4 DEF Of
  <2>2. \A j : Of(j) # {} => (Gone(Max(Of(j)))' <=> Gone(Max(Of(j))))
    BY <1>3, <1>4, <2>1 DEF Gone
  <2>3. \A b : Unknown(b) => Unknown(b)'
    BY <1>4, UnknownKept
  <2> QED
    BY <1>1, <1>2, <1>4, <2>1, <2>2, <2>3 DEF LastGone
<1>5. CASE Server
  <2>1. /\ UNCHANGED <<applied, cache>> /\ \A i \in 1 .. Len(sent) : sent'[i] = sent[i]
        /\ Types /\ Len(sent) \in Nat
    BY <1>5, ServerGrows DEF client, loop, data
  <2>2. \A i \in 1 .. applied : sent'[i] = sent[i]
    BY <2>1 DEF Types
  <2> QED
    BY <1>4, <2>1, <2>2, ShownKept
<1>6. ASSUME NEW i \in 1 .. parsed, RunMixins(i) PROVE LastGone' /\ EmptyWasUnknown'
  <2>1. CASE sent[i].kind # "presence"
    <3>1. UNCHANGED <<cache, sent>> /\ Shown' = Shown
      BY <1>6, <2>1, PresenceShown
    <3> QED
      BY <1>4, <3>1
  <2>2. CASE sent[i].kind = "presence"
    <3> DEFINE s == sent[i]
               b == s.from[1]
               r == s.from[2]
    <3>1. /\ Shown' = Shown \cup {i} /\ \A k \in Shown : k < i
          /\ UNCHANGED sent
      BY <1>6, <2>2, PresenceShown
    <3>2. /\ i \in Nat /\ Shown' \in SUBSET (1 .. i) /\ applied \in Nat /\ i = applied + 1
          /\ s \in Stanzas
      BY <1>6, <3>1, MixinsStep DEF Shown
    <3>3. \A k \in Shown : k < i /\ ~(i < k) /\ k # i
      BY <3>1, <3>2 DEF Shown
    <3>4. \A c : Unknown(c) => Unknown(c)'
      BY <3>1, <3>3, UnknownKept
    <3>5. \A j : j # s.from => Of(j)' = Of(j)
      BY <3>1 DEF Of
    <3>6. Max(Of(s.from)') = i /\ Of(s.from)' # {}
      <4> DEFINE last == Max(Of(s.from)')
      <4>1. Of(s.from)' \in SUBSET (1 .. i) /\ i \in Of(s.from)'
        BY <3>1, <3>2 DEF Of
      <4>2. last \in Of(s.from)' /\ last >= i
        BY <3>2, <4>1, LastOf
      <4>3. last \in 1 .. i
        BY <4>1, <4>2
      <4> HIDE DEF last
      <4>4. last = i
        BY <3>2, <4>2, <4>3
      <4> QED
        BY <4>1, <4>4 DEF last
    <3>7. /\ s.type \in {"available", "unavailable"}
          /\ r # NoRes => s.from \in FullJids /\ s.from = <<b, r>>
      BY <2>2, <3>2, FullOnes
    <3>8. CASE r = NoRes
      <4>1. UNCHANGED cache
        BY <1>6, <2>2, <3>8, CacheShown
      <4>2. \A j \in FullJids : Of(j)' = Of(j)
        BY <3>5, <3>8, SessionAssumption
      <4>3. LastGone'
        BY <3>1, <4>1, <4>2 DEF LastGone, Gone
      <4> QED
        BY <1>1, <1>2, <3>4, <4>1, <4>3
    <3>9. CASE r # NoRes /\ s.type = "available"
      <4>1. /\ cache' = Available(cache, b, r, "plain")
            /\ View(cache') = Put(View(cache), s.from, "plain")
        BY <1>6, <2>2, <3>9, CacheShown
      <4>2. LastGone'
        <5> SUFFICES ASSUME NEW j \in FullJids, j \notin DOMAIN View(cache')
                     PROVE  Of(j)' = {} \/ Gone(Max(Of(j)))'
          BY DEF LastGone
        <5>1. j # s.from /\ j \notin DOMAIN View(cache)
          BY <4>1 DEF Put
        <5> QED
          BY <3>1, <3>5, <5>1 DEF LastGone, Gone
      <4>3. ASSUME NEW c \in DOMAIN cache', cache'[c] = Empty PROVE Unknown(c)'
        <5>1. c # b
          BY <4>1, <4>3 DEF Available, Put, Empty
        <5>2. c \in DOMAIN cache /\ cache[c] = Empty
          BY <4>1, <4>3, <5>1 DEF Available, Put
        <5> QED
          BY <1>1, <3>4, <5>2
      <4> QED
        BY <1>2, <4>2, <4>3
    <3>10. CASE r # NoRes /\ s.type = "unavailable"
      <4>1. /\ cache' = Unavailable(cache, b, r)
            /\ View(cache') = Drop(View(cache), s.from)
        BY <1>6, <2>2, <3>10, CacheShown
      <4>2. LastGone'
        <5> SUFFICES ASSUME NEW j \in FullJids, j \notin DOMAIN View(cache')
                     PROVE  Of(j)' = {} \/ Gone(Max(Of(j)))'
          BY DEF LastGone
        <5>1. CASE j = s.from
          BY <3>1, <3>6, <3>10, <5>1 DEF Gone
        <5>2. CASE j # s.from
          <6>1. j \notin DOMAIN View(cache)
            BY <4>1, <5>2 DEF Drop
          <6> QED
            BY <3>1, <3>5, <5>2, <6>1 DEF LastGone, Gone
        <5> QED
          BY <5>1, <5>2
      <4>3. ASSUME NEW c \in DOMAIN cache', cache'[c] = Empty PROVE Unknown(c)'
        <5>1. CASE c # b
          <6>1. c \in DOMAIN cache /\ cache[c] = Empty
            BY <4>1, <4>3, <5>1 DEF Unavailable, Put, Drop
          <6> QED
            BY <1>1, <3>4, <6>1
        <5>2. CASE c = b
          <6>1. r \notin DOMAIN Resources(cache, b)
            BY <4>1, <4>3, <5>2 DEF Unavailable, Put, Drop, Empty
          <6>2. s.from \notin DOMAIN View(cache)
            BY <3>7, <3>10, <6>1, ViewOf DEF Resources
          <6>3. Of(s.from) = {} \/ Gone(Max(Of(s.from)))
            BY <3>7, <3>10, <6>2 DEF LastGone
          <6>4. {k \in Shown' : k < i /\ sent'[k].from = sent'[i].from} = Of(s.from)
            <7>1. \A k \in Shown' : k < i <=> k \in Shown
              BY <3>1, <3>2, <3>3
            <7>2. \A k \in Shown : k \in Shown'
              BY <3>1
            <7>3. Of(s.from) = {k \in Shown : sent[k].from = s.from}
              BY DEF Of
            <7> HIDE DEF b, r
            <7> QED
              BY <3>1, <7>1, <7>2, <7>3
          <6>5. LET before == {k \in Shown' : k < i /\ sent'[k].from = sent'[i].from}
                IN  /\ sent'[i].type = "unavailable" /\ sent'[i].from[1] = c
                    /\ before = {} \/ sent'[Max(before)].type = "unavailable"
            BY <3>1, <3>10, <5>2, <6>3, <6>4 DEF Gone
          <6>6. i \in Shown'
            BY <3>1
          <6> QED
            BY <6>5, <6>6 DEF Unknown, Gone
        <5> QED
          BY <5>1, <5>2
      <4> QED
        BY <1>2, <4>2, <4>3
    <3> QED
      BY <3>7, <3>8, <3>9, <3>10
  <2> QED
    BY <2>1, <2>2
<1>7. CASE UNCHANGED <<sent, applied, cache>>
  BY <1>4, <1>7, ShownKept
<1>8. CASE Next /\ ~Server /\ \A i \in 1 .. parsed : ~RunMixins(i)
  BY <1>7, <1>8, OtherSteps
<1>9. CASE UNCHANGED vars
  BY <1>7, <1>9 DEF vars, server, loop, data
<1> QED
  BY <1>5, <1>6, <1>8, <1>9

\* An empty dictionary is left in the cache of presences only by a resource
\* that was reported gone without having been there.
THEOREM SessionEmptyWasUnknown == Spec => []EmptyWasUnknown
<1>1. Init => LastGone /\ EmptyWasUnknown
  <2> SUFFICES ASSUME Init PROVE LastGone /\ EmptyWasUnknown
    OBVIOUS
  <2>1. Shown = {} /\ DOMAIN cache = {}
    BY DEF Init, Shown, PresenceInit, Empty
  <2> QED
    BY <2>1 DEF LastGone, EmptyWasUnknown, Of
<1>2. Fifo /\ PresencesPublished /\ LastGone /\ EmptyWasUnknown /\ [Next]_vars
      => LastGone' /\ EmptyWasUnknown'
  BY LastGoneStep
<1> QED
  BY <1>1, <1>2, PresencesInit, PresencesStep, FifoInductive, PTL DEF Spec

-----------------------------------------------------------------------------
(* The roster.                                                             *)
IsResult(s) == s.kind = "reply" /\ "items" \in DOMAIN s

\* The version that was the answer to the request, or is the last one as long
\* as there has been no answer.
RosterBase == Len(rosterLog) - Count("push", sent, Len(sent))

RosterPublished ==
  /\ RosterBase \in Nat \ {0} /\ Tells("push", sent, rosterLog, RosterBase)
  /\ \A k \in 1 .. Len(sent) : IsResult(sent[k]) =>
       /\ sent[k].ok /\ sent[k].v = RosterBase /\ sent[k].items = rosterLog[RosterBase]
       /\ \A l \in 1 .. Len(sent) : sent[l].kind = "push" => k < l
  /\ ~Interested => \A l \in 1 .. Len(sent) : sent[l].kind # "push"

\* The roster is asked for once, and there are no calls before it is there.
Connected == pc[Main] \notin {"get", "failed"}
Asking ==
  /\ \A a \in asked : a.op = "get" =>
       /\ a.task = Main /\ pc[Main] = "get"
       /\ \A k \in 1 .. Len(sent) : sent[k].kind # "reply"
  /\ \A a \in asked : a.op # "get" => Connected
  /\ Connected => Interested
  /\ pc[Main] = "failed" => ~Interested
  /\ pc[Other] \notin {"get", "failed"} /\ (pc[Other] # "idle" => Connected)
  /\ ~Connected => \A k, l \in 1 .. Len(sent) : sent[k].kind = "reply" =>
       /\ sent[k].to = Main /\ (sent[k].ok => IsResult(sent[k]))
       /\ sent[l].kind = "reply" => k = l
  /\ pc[Main] = "get" /\ Main \in waiting \ scan =>
       \A k \in 1 .. parsed : sent[k].kind # "reply"

LEMMA Additions ==
  ASSUME Types, NEW D \in SUBSET Stanzas, Adds(D)
  PROVE  /\ sent' \in Seq(Stanzas) /\ Len(sent) \in Nat /\ Len(sent') \in Nat
         /\ Len(sent) <= Len(sent') /\ \A i \in 1 .. Len(sent) : sent'[i] = sent[i]
         /\ \A i \in 1 .. Len(sent') : i \in 1 .. Len(sent) \/ sent'[i] \in D
<1>1. sent \in Seq(Stanzas) /\ Len(sent) \in Nat
  BY LenProperties DEF Types
<1>2. ASSUME NEW s \in Seq(Stanzas), NEW d \in D
      PROVE  /\ Append(s, d) \in Seq(Stanzas) /\ Len(Append(s, d)) = Len(s) + 1 /\ Len(s) \in Nat
             /\ Append(s, d)[Len(s) + 1] = d
             /\ \A i \in 1 .. Len(s) : Append(s, d)[i] = s[i]
  BY AppendProperties, LenProperties
<1>3. CASE UNCHANGED sent
  BY <1>1, <1>3
<1>4. CASE \E d \in D : sent' = Append(sent, d)
  <2>1. PICK d \in D : sent' = Append(sent, d)
    BY <1>4
  <2>2. /\ sent' \in Seq(Stanzas) /\ Len(sent') = Len(sent) + 1
        /\ sent'[Len(sent) + 1] = d
        /\ \A i \in 1 .. Len(sent) : sent'[i] = sent[i]
    BY <1>1, <1>2, <2>1
  <2> QED
    BY <1>1, <2>2
<1>5. CASE \E d, e \in D : sent' = Append(Append(sent, d), e)
  <2>1. PICK d \in D, e \in D : sent' = Append(Append(sent, d), e)
    BY <1>5
  <2> DEFINE s == Append(sent, d)
  <2>2. /\ s \in Seq(Stanzas) /\ Len(s) = Len(sent) + 1 /\ s[Len(sent) + 1] = d
        /\ \A i \in 1 .. Len(sent) : s[i] = sent[i]
    BY <1>1, <1>2
  <2>3. sent' = Append(s, e)
    BY <2>1
  <2> HIDE DEF s
  <2>4. /\ sent' \in Seq(Stanzas) /\ Len(sent') = Len(sent) + 2
        /\ sent'[Len(sent) + 2] = e
        /\ \A i \in 1 .. Len(sent) + 1 : sent'[i] = s[i]
    BY <1>1, <1>2, <2>2, <2>3
  <2>5. \A i \in 1 .. Len(sent) : sent'[i] = sent[i]
    BY <1>1, <2>2, <2>4
  <2>6. sent'[Len(sent) + 1] = d
    BY <1>1, <2>2, <2>4
  <2> QED
    BY <1>1, <2>4, <2>5, <2>6
<1> QED
  BY <1>3, <1>4, <1>5 DEF Adds

\* Whoever has been told of the roster is interested in it.
LEMMA Interest ==
  /\ Types => (Interested <=> \E k \in 1 .. Len(sent) : IsResult(sent[k]))
  /\ sent' \in Seq(Stanzas) =>
       (Interested' <=> \E k \in 1 .. Len(sent') : IsResult(sent'[k]))
BY LenProperties DEF Types, Interested, IsResult

LEMMA BaseIs ==
  ASSUME NEW base \in Nat, Tells("push", sent', rosterLog', base), sent' \in Seq(Stanzas)
  PROVE  RosterBase' = base
<1>1. Len(sent') \in Nat
  BY LenProperties
<1>2. Count("push", sent', Len(sent')) \in Nat
  BY <1>1, Counts
<1>3. Len(rosterLog') = base + Count("push", sent', Len(sent'))
  BY DEF Tells
<1>4. RosterBase' = Len(rosterLog') - Count("push", sent', Len(sent'))
  BY DEF RosterBase
<1> QED
  BY <1>2, <1>3, <1>4

LEMMA NoPushYet ==
  ASSUME NEW s, NEW n \in Nat, \A k \in 1 .. n : s[k].kind # "push"
  PROVE  Count("push", s, n) = 0
<1>1. {k \in 1 .. n : s[k].kind = "push"} = {}
  OBVIOUS
<1> QED
  BY <1>1, FS_EmptySet DEF Count

\* Whatever the server sends that is not about the roster.
LEMMA NotOfTheRoster ==
  ASSUME Types, RosterPublished, UNCHANGED rosterLog, NEW D \in SUBSET Stanzas, Adds(D),
         \A d \in D : d.kind # "push" /\ ~IsResult(d)
  PROVE  RosterPublished' /\ RosterBase' = RosterBase /\ (Interested' <=> Interested)
<1> DEFINE K == "push"
<1>1. /\ sent' \in Seq(Stanzas) /\ Len(sent) \in Nat /\ Len(sent') \in Nat
      /\ Len(sent) <= Len(sent') /\ \A i \in 1 .. Len(sent) : sent'[i] = sent[i]
      /\ \A i \in 1 .. Len(sent') : i \in 1 .. Len(sent) \/ sent'[i] \in D
  BY Additions
<1>2. /\ rosterLog \in Seq(Versions) /\ RosterBase \in Nat \ {0}
      /\ Tells(K, sent, rosterLog, RosterBase) /\ \A d \in D : d.kind # K
  BY DEF Types, RosterPublished
<1> HIDE DEF K
<1>3. Tells(K, sent', rosterLog, RosterBase)
  BY <1>2, AddsNone
<1>4. RosterBase' = RosterBase
  BY <1>1, <1>2, <1>3, BaseIs DEF K
<1>5. /\ \A k \in 1 .. Len(sent') : IsResult(sent'[k]) => k \in 1 .. Len(sent) /\ IsResult(sent[k])
      /\ \A k \in 1 .. Len(sent) : IsResult(sent[k]) => k \in 1 .. Len(sent') /\ IsResult(sent'[k])
      /\ \A k \in 1 .. Len(sent') : sent'[k].kind = "push" =>
           k \in 1 .. Len(sent) /\ sent[k].kind = "push"
  BY <1>1
<1>6. Interested' <=> Interested
  BY <1>1, <1>5, Interest
<1>7. \A k \in 1 .. Len(sent') : IsResult(sent'[k]) =>
        /\ sent'[k].ok /\ sent'[k].v = RosterBase /\ sent'[k].items = rosterLog[RosterBase]
        /\ \A l \in 1 .. Len(sent') : sent'[l].kind = "push" => k < l
  BY <1>1, <1>5 DEF RosterPublished
<1>8. ~Interested' => \A l \in 1 .. Len(sent') : sent'[l].kind # "push"
  BY <1>5, <1>6 DEF RosterPublished
<1> QED
  BY <1>2, <1>3, <1>4, <1>6, <1>7, <1>8 DEF RosterPublished, K

\* A push tells of the change of the roster.
LEMMA PushTells ==
  ASSUME Types, NEW j \in Contacts, NEW sub \in {"none", "both", "remove"}, NEW v,
         sub = "remove" => j \in DOMAIN Latest(rosterLog)
  PROVE  Moves(Push(j, sub, v), Latest(rosterLog), Changed(j, sub))
<1> DEFINE old   == Latest(rosterLog)
           items == Put(Empty, j, sub)
<1>1. DOMAIN items = {j} /\ items[j] = sub
  BY DEF Put, Empty
<1>2. CASE sub = "remove"
  <2>1. j \in DOMAIN old /\ Changed(j, sub) = Drop(old, j)
    BY <1>2 DEF Changed
  <2> HIDE DEF old, items
  <2>2. UpdateRoster(old, items) = Drop(old, j)
    BY <1>1, <1>2, <2>1 DEF UpdateRoster, Drop
  <2> QED
    BY <2>1, <2>2 DEF Moves, Push, items, old
<1>3. CASE sub # "remove"
  <2>1. Changed(j, sub) = Put(old, j, sub)
    BY <1>3 DEF Changed
  <2> HIDE DEF old, items
  <2>2. UpdateRoster(old, items) = Put(old, j, sub)
    BY <1>1, <1>3 DEF UpdateRoster, Put
  <2> QED
    BY <2>1, <2>2 DEF Moves, Push, items, old
<1> QED
  BY <1>2, <1>3

\* A change that is pushed, by itself or with an answer.
LEMMA PushedOnce ==
  ASSUME Types, RosterPublished, Interested,
         NEW j \in Contacts, NEW sub \in {"none", "both", "remove"},
         sub = "remove" => j \in DOMAIN Latest(rosterLog),
         rosterLog' = Append(rosterLog, Changed(j, sub)),
         NEW e \in Stanzas, e.kind # "push", ~IsResult(e),
         \/ sent' = Append(sent, Push(j, sub, Len(rosterLog')))
         \/ sent' = Append(Append(sent, Push(j, sub, Len(rosterLog'))), e)
  PROVE  RosterPublished' /\ RosterBase' = RosterBase /\ Interested'
<1> DEFINE K   == "push"
           d   == Push(j, sub, Len(rosterLog'))
           new == Changed(j, sub)
           mid == Append(sent, d)
<1>1. /\ rosterLog \in Seq(Versions) /\ rosterLog # <<>> /\ sent \in Seq(Stanzas) /\ Len(sent) \in Nat
      /\ RosterBase \in Nat \ {0} /\ Tells(K, sent, rosterLog, RosterBase) /\ e.kind # K
  BY LenProperties DEF Types, RosterPublished
<1>2. /\ Len(rosterLog) \in Nat \ {0} /\ new \in Versions /\ Put(Empty, j, sub) \in Versions
      /\ Append(rosterLog, new) \in Seq(Versions) /\ Len(rosterLog') = Len(rosterLog) + 1
      /\ rosterLog' = Append(rosterLog, new)
  BY Changes
<1>3. d \in Stanzas /\ d.kind = K /\ Numbered(d, Len(rosterLog) + 1) /\ ~IsResult(d)
  <2>1. Len(rosterLog') \in Nat
    BY <1>2
  <2> QED
    BY <1>2, <2>1, Records DEF Push, Numbered, IsResult
<1>4. Moves(d, Latest(rosterLog), new)
  BY PushTells
<1>5. sent' = mid \/ sent' = Append(mid, e)
  OBVIOUS
<1> HIDE DEF K, d, new, mid
<1>6. /\ mid \in Seq(Stanzas) /\ Tells(K, mid, rosterLog', RosterBase)
      /\ Len(mid) = Len(sent) + 1 /\ mid[Len(sent) + 1] = d
      /\ \A i \in 1 .. Len(sent) : mid[i] = sent[i]
  BY <1>1, <1>2, <1>3, <1>4, TellsOnce, AppendProperties DEF mid
<1>7. /\ Append(mid, e) \in Seq(Stanzas) /\ Tells(K, Append(mid, e), rosterLog', RosterBase)
      /\ Len(Append(mid, e)) = Len(sent) + 2 /\ Append(mid, e)[Len(sent) + 2] = e
      /\ \A i \in 1 .. Len(sent) + 1 : Append(mid, e)[i] = mid[i]
  <2> DEFINE l == rosterLog'
  <2>1. l \in Seq(Versions) /\ Tells(K, mid, l, RosterBase)
    BY <1>2, <1>6
  <2> HIDE DEF l
  <2>2. Tells(K, Append(mid, e), l, RosterBase)
    BY <1>1, <1>6, <2>1, TellsNothing
  <2>3. /\ Append(mid, e) \in Seq(Stanzas) /\ Len(Append(mid, e)) = Len(mid) + 1
        /\ Append(mid, e)[Len(mid) + 1] = e
        /\ \A i \in 1 .. Len(mid) : Append(mid, e)[i] = mid[i]
    BY <1>6, AppendProperties
  <2>4. Len(mid) + 1 = Len(sent) + 2
    BY <1>1, <1>6
  <2> QED
    BY <1>6, <2>2, <2>3, <2>4 DEF l
<1>8. /\ sent' \in Seq(Stanzas) /\ Tells(K, sent', rosterLog', RosterBase)
      /\ Len(sent') \in {Len(sent) + 1, Len(sent) + 2}
      /\ \A i \in 1 .. Len(sent) : sent'[i] = sent[i]
      /\ \A i \in 1 .. Len(sent') :
           \/ i \in 1 .. Len(sent) /\ sent'[i] = sent[i]
           \/ i > Len(sent) /\ ~IsResult(sent'[i])
  <2>1. CASE sent' = mid
    BY <1>1, <1>3, <1>6, <2>1
  <2>2. CASE sent' = Append(mid, e)
    <3>1. \A i \in 1 .. Len(sent) : sent'[i] = sent[i]
      BY <1>1, <1>6, <1>7, <2>2
    <3>2. sent'[Len(sent) + 1] = d /\ sent'[Len(sent) + 2] = e
      BY <1>1, <1>6, <1>7, <2>2
    <3> QED
      BY <1>1, <1>3, <1>7, <2>2, <3>1, <3>2
  <2> QED
    BY <1>5, <2>1, <2>2
<1>9. RosterBase' = RosterBase
  BY <1>1, <1>8, BaseIs DEF K
<1>10. Interested'
  <2>1. PICK k \in 1 .. Len(sent) : IsResult(sent[k])
    BY Interest
  <2>2. k \in 1 .. Len(sent') /\ IsResult(sent'[k])
    BY <1>1, <1>8, <2>1
  <2> QED
    BY <1>8, <2>2, Interest
<1>11. rosterLog'[RosterBase] = rosterLog[RosterBase]
  <2>1. Count("push", sent, Len(sent)) \in Nat
    BY <1>1, Counts
  <2>2. RosterBase \in 1 .. Len(rosterLog)
    BY <1>1, <1>2, <2>1 DEF RosterBase
  <2> QED
    BY <1>1, <1>2, <2>2, AppendProperties
<1>12. ASSUME NEW k \in 1 .. Len(sent'), IsResult(sent'[k])
       PROVE  /\ sent'[k].ok /\ sent'[k].v = RosterBase /\ sent'[k].items = rosterLog'[RosterBase]
              /\ \A l \in 1 .. Len(sent') : sent'[l].kind = "push" => k < l
  <2>1. k \in 1 .. Len(sent) /\ sent'[k] = sent[k]
    BY <1>8, <1>12
  <2>2. /\ sent[k].ok /\ sent[k].v = RosterBase /\ sent[k].items = rosterLog[RosterBase]
        /\ \A l \in 1 .. Len(sent) : sent[l].kind = "push" => k < l
    BY <1>12, <2>1 DEF RosterPublished
  <2>3. ASSUME NEW l \in 1 .. Len(sent'), sent'[l].kind = "push" PROVE k < l
    <3>1. CASE l \in 1 .. Len(sent) /\ sent'[l] = sent[l]
      BY <2>2, <2>3, <3>1
    <3>2. CASE l > Len(sent)
      BY <1>1, <2>1, <3>2
    <3> QED
      BY <1>8, <3>1, <3>2
  <2> QED
    BY <1>11, <2>1, <2>2, <2>3
<1> QED
  BY <1>1, <1>8, <1>9, <1>10, <1>12 DEF RosterPublished, K

\* A change before the roster has been asked for.
LEMMA NotPushed ==
  ASSUME Types, RosterPublished, ~Interested, UNCHANGED sent, NEW new,
         rosterLog' = Append(rosterLog, new), rosterLog' \in Seq(Versions)
  PROVE  RosterPublished'
<1>1. /\ rosterLog \in Seq(Versions) /\ rosterLog # <<>> /\ sent \in Seq(Stanzas) /\ Len(sent) \in Nat
      /\ Len(rosterLog') \in Nat
  BY LenProperties DEF Types
<1>2. /\ \A l \in 1 .. Len(sent) : sent[l].kind # "push"
      /\ \A l \in 1 .. Len(sent) : ~IsResult(sent[l])
  BY Interest DEF RosterPublished
<1>3. Count("push", sent, Len(sent)) = 0
  BY <1>1, <1>2, NoPushYet
<1>4. Tells("push", sent', rosterLog', Len(rosterLog'))
  BY <1>1, <1>2, <1>3 DEF Tells
<1>5. RosterBase' = Len(rosterLog')
  BY <1>1, <1>4, BaseIs
<1>6. Len(rosterLog') # 0
  <2>1. Append(rosterLog, new) # <<>>
    BY EmptySeq
  <2> QED
    BY <1>1, <2>1, EmptySeq
<1> QED
  BY <1>1, <1>2, <1>4, <1>5, <1>6 DEF RosterPublished

\* The roster is the answer.
LEMMA Answered ==
  ASSUME Types, RosterPublished, ~Interested, UNCHANGED rosterLog, NEW d \in Stanzas,
         d.kind = "reply", d.ok, d.v = Len(rosterLog), d.items = Latest(rosterLog),
         sent' = Append(sent, d)
  PROVE  RosterPublished'
<1>1. /\ rosterLog \in Seq(Versions) /\ rosterLog # <<>> /\ sent \in Seq(Stanzas) /\ Len(sent) \in Nat
      /\ Len(rosterLog) \in Nat \ {0}
  BY LenProperties, EmptySeq DEF Types
<1>2. /\ \A l \in 1 .. Len(sent) : sent[l].kind # "push"
      /\ \A l \in 1 .. Len(sent) : ~IsResult(sent[l])
  BY Interest DEF RosterPublished
<1>3. /\ sent' \in Seq(Stanzas) /\ Len(sent') = Len(sent) + 1 /\ sent'[Len(sent) + 1] = d
      /\ \A i \in 1 .. Len(sent) : sent'[i] = sent[i]
  BY <1>1, AppendProperties
<1>4. \A l \in 1 .. Len(sent') : sent'[l].kind # "push"
  BY <1>1, <1>2, <1>3
<1>5. Count("push", sent', Len(sent')) = 0
  <2>1. Len(sent') \in Nat
    BY <1>1, <1>3
  <2> QED
    BY <1>4, <2>1, NoPushYet
<1>6. Tells("push", sent', rosterLog', Len(rosterLog'))
  BY <1>1, <1>4, <1>5 DEF Tells
<1>7. RosterBase' = Len(rosterLog)
  BY <1>1, <1>3, <1>6, BaseIs
<1>8. \A k \in 1 .. Len(sent') : IsResult(sent'[k]) => sent'[k] = d
  BY <1>1, <1>2, <1>3
<1> QED
  BY <1>1, <1>4, <1>6, <1>7, <1>8 DEF RosterPublished, Latest

LEMMA RosterLogGrows ==
  ASSUME Types, Server
  PROVE  /\ Len(rosterLog') \in Nat /\ Len(rosterLog) <= Len(rosterLog')
         /\ \A v \in 1 .. Len(rosterLog) : rosterLog'[v] = rosterLog[v]
<1>1. rosterLog \in Seq(Versions)
  BY DEF Types
<1>2. \E new : rosterLog' \in {rosterLog, Append(rosterLog, new)}
  BY DEF Server, AnswerGet, ChangeRoster, AnswerSet, SendPresence, AnswerEnter, AnswerLeave,
         AnswerKick, Kick, Rename, AnswerIq
<1> QED
  BY <1>1, <1>2, LogGrows

LEMMA PresencesOnly ==
  ASSUME Types, SendPresence
  PROVE  UNCHANGED <<rosterLog, asked>> /\ Adds({s \in Stanzas : s.kind = "presence"})
<1>1. PICK j \in FullJids \cup {<<c, NoRes>> : c \in Contacts},
           type \in {"available", "unavailable"} :
        Sends(<< [kind |-> "presence", from |-> j, type |-> type, show |-> "plain",
                  v |-> Len(presenceLog) + 1] >>)
  BY DEF SendPresence
<1> DEFINE d == [kind |-> "presence", from |-> j, type |-> type, show |-> "plain",
                 v |-> Len(presenceLog) + 1]
           D == {s \in Stanzas : s.kind = "presence"}
<1>2. Len(presenceLog) + 1 \in Nat
  BY LenProperties DEF Types
<1>3. d \in D /\ Sends(<<d>>) /\ D \in SUBSET Stanzas
  BY <1>1, <1>2, Records
<1> HIDE DEF d, D
<1>4. Adds(D)
  BY <1>3, AddsOne
<1> QED
  BY <1>4 DEF SendPresence, D

\* The answer to the request of the roster: the roster, or an error.
LEMMA Answers ==
  ASSUME Types, Asking, AnswerGet
  PROVE  /\ UNCHANGED rosterLog /\ pc[Main] = "get"
         /\ \A k \in 1 .. Len(sent) : sent[k].kind # "reply"
         /\ asked' \subseteq asked /\ \A a \in asked' : a.op # "get"
         /\ \E d \in Stanzas :
              /\ d.kind = "reply" /\ d.to = Main /\ sent' = Append(sent, d)
              /\ \/ d.ok /\ IsResult(d) /\ d.v = Len(rosterLog) /\ d.items = Latest(rosterLog)
                 \/ ~d.ok /\ ~IsResult(d)
<1>1. PICK a \in asked :
        /\ a.op = "get"
        /\ \/ Sends(<< [kind |-> "reply", to |-> a.task, ok |-> TRUE,
                      items |-> Latest(rosterLog), v |-> Len(rosterLog)] >>)
           \/ Sends(<< Reply(a, FALSE) >>)
        /\ asked' = asked \ {a} /\ UNCHANGED rosterLog
  BY DEF AnswerGet
<1>2. /\ a.task = Main /\ pc[Main] = "get"
      /\ \A k \in 1 .. Len(sent) : sent[k].kind # "reply"
  BY <1>1 DEF Asking
<1>3. \A b \in asked' : b.op # "get"
  <2> SUFFICES ASSUME NEW b \in asked, b.op = "get" PROVE b = a
    BY <1>1
  <2>1. b.task = a.task /\ b.op = a.op /\ a \in Requests /\ b \in Requests
    BY <1>1, <1>2 DEF Asking, Types
  <2> QED
    BY <2>1 DEF Requests
<1>4. \E d \in Stanzas :
        /\ d.kind = "reply" /\ d.to = Main /\ sent' = Append(sent, d)
        /\ \/ d.ok /\ IsResult(d) /\ d.v = Len(rosterLog) /\ d.items = Latest(rosterLog)
           \/ ~d.ok /\ ~IsResult(d)
  <2> DEFINE d == [kind |-> "reply", to |-> a.task, ok |-> TRUE,
                   items |-> Latest(rosterLog), v |-> Len(rosterLog)]
             e == Reply(a, FALSE)
  <2>1. Latest(rosterLog) \in Versions /\ Len(rosterLog) \in Nat /\ a.task \in Tasks
    BY EmptySeq, ElementOfSeq DEF Types, Latest, Requests
  <2>2. d \in Stanzas /\ e \in Stanzas
    BY <2>1, Records DEF Reply
  <2>3. /\ d.kind = "reply" /\ d.to = Main /\ d.ok /\ IsResult(d)
        /\ d.v = Len(rosterLog) /\ d.items = Latest(rosterLog)
        /\ e.kind = "reply" /\ e.to = Main /\ ~e.ok /\ ~IsResult(e)
    BY <1>2 DEF Reply, IsResult
  <2>4. Sends(<<d>>) \/ Sends(<<e>>)
    BY <1>1
  <2> HIDE DEF d, e
  <2> QED
    BY <2>2, <2>3, <2>4, Sent
<1> QED
  BY <1>1, <1>2, <1>3, <1>4

LEMMA RosterServer ==
  ASSUME Types, RosterPublished, Asking, Server
  PROVE  RosterPublished' /\ (Interested => RosterBase' = RosterBase /\ Interested')
<1>1. CASE AnswerEnter \/ AnswerLeave \/ Kick \/ Rename \/ AnswerKick \/ AnswerIq
  <2>1. UNCHANGED rosterLog /\ Adds(Asides)
    BY <1>1, SaysAside
  <2>2. Asides \in SUBSET Stanzas /\ \A d \in Asides : d.kind # "push" /\ ~IsResult(d)
    BY DEF Asides, IsResult
  <2> QED
    BY <2>1, <2>2, NotOfTheRoster
<1>2. CASE SendPresence
  <2> DEFINE D == {s \in Stanzas : s.kind = "presence"}
  <2>1. UNCHANGED rosterLog /\ Adds(D)
    BY <1>2, PresencesOnly
  <2>2. D \in SUBSET Stanzas /\ \A d \in D : d.kind # "push" /\ ~IsResult(d)
    BY DEF IsResult
  <2> HIDE DEF D
  <2> QED
    BY <2>1, <2>2, NotOfTheRoster
<1>3. CASE AnswerGet
  <2>1. /\ UNCHANGED rosterLog
        /\ \A k \in 1 .. Len(sent) : sent[k].kind # "reply"
    BY <1>3, Answers
  <2>2. ~Interested
    BY <2>1, Interest DEF IsResult
  <2>3. PICK d \in Stanzas :
          /\ d.kind = "reply" /\ d.to = Main /\ sent' = Append(sent, d)
          /\ \/ d.ok /\ IsResult(d) /\ d.v = Len(rosterLog) /\ d.items = Latest(rosterLog)
             \/ ~d.ok /\ ~IsResult(d)
    BY <1>3, Answers
  <2>4. CASE IsResult(d)
    BY <2>1, <2>2, <2>3, <2>4, Answered
  <2>5. CASE ~IsResult(d)
    <3>1. /\ Adds({d}) /\ {d} \in SUBSET Stanzas
          /\ \A x \in {d} : x.kind # "push" /\ ~IsResult(x)
      BY <2>3, <2>5 DEF Adds
    <3> QED
      BY <2>1, <2>2, <3>1, NotOfTheRoster
  <2> QED
    BY <2>2, <2>4, <2>5
<1>4. CASE ChangeRoster
  <2>1. PICK j \in Contacts, sub \in {"both", "remove"} :
          /\ sub = "remove" => j \in DOMAIN Latest(rosterLog)
          /\ rosterLog' = Append(rosterLog, Changed(j, sub))
          /\ IF Interested THEN Sends(<< Push(j, sub, Len(rosterLog')) >>) ELSE UNCHANGED sent
    BY <1>4 DEF ChangeRoster
  <2>2. /\ Append(rosterLog, Changed(j, sub)) \in Seq(Versions)
        /\ Len(Append(rosterLog, Changed(j, sub))) \in Nat /\ Put(Empty, j, sub) \in Versions
    BY Changes
  <2>3. CASE ~Interested
    BY <2>1, <2>2, <2>3, NotPushed
  <2>4. CASE Interested
    <3> DEFINE d == Push(j, sub, Len(rosterLog'))
    <3>1. d \in Stanzas
      BY <2>1, <2>2, Records DEF Push
    <3>2. sent' = Append(sent, d)
      BY <2>1, <2>4, <3>1, Sent
    <3>3. PICK e \in Stanzas : e.kind # "push" /\ ~IsResult(e)
      BY Records DEF IsResult
    <3> QED
      BY <2>1, <2>4, <3>2, <3>3, PushedOnce
  <2> QED
    BY <2>3, <2>4
<1>5. CASE AnswerSet
  <2>1. PICK a \in asked, j \in Contacts, sub \in Settings :
          /\ a.op = "set"
          /\ sub = "remove" => j \in DOMAIN Latest(rosterLog)
          /\ rosterLog' = Append(rosterLog, Changed(j, sub))
          /\ Sends(<< Push(j, sub, Len(rosterLog')), Reply(a, TRUE) >>)
    BY <1>5 DEF AnswerSet
  <2>2. sub \in {"none", "both", "remove"} /\ Interested
    BY <2>1 DEF Settings, Asking
  <2>3. /\ Len(Append(rosterLog, Changed(j, sub))) \in Nat /\ Put(Empty, j, sub) \in Versions
    BY <2>2, Changes
  <2> DEFINE d == Push(j, sub, Len(rosterLog'))
             e == Reply(a, TRUE)
  <2>4. d \in Stanzas
    BY <2>1, <2>3, Records DEF Push
  <2>5. e \in Stanzas /\ e.kind # "push" /\ ~IsResult(e)
    BY Records DEF Reply, IsResult, Types, Requests
  <2>6. sent' = Append(Append(sent, d), e)
    BY <2>1, <2>4, <2>5, Sent
  <2> HIDE DEF e
  <2> QED
    BY <2>1, <2>2, <2>5, <2>6, PushedOnce
<1> QED
  BY <1>1, <1>2, <1>3, <1>4, <1>5 DEF Server

\* What keeps the roster's request as it is.
LEMMA AskingKept ==
  ASSUME Types, Asking, UNCHANGED <<asked, pc, waiting, scan, parsed>>,
         NEW D \in SUBSET Stanzas, Adds(D), ~Connected, \A d \in D : d.kind # "reply"
  PROVE  Asking'
<1>1. /\ sent' \in Seq(Stanzas) /\ Len(sent) \in Nat /\ Len(sent') \in Nat
      /\ Len(sent) <= Len(sent') /\ \A i \in 1 .. Len(sent) : sent'[i] = sent[i]
      /\ \A i \in 1 .. Len(sent') : i \in 1 .. Len(sent) \/ sent'[i] \in D
  BY Additions
<1>2. \A k \in 1 .. Len(sent') : sent'[k].kind = "reply" =>
        k \in 1 .. Len(sent) /\ sent'[k] = sent[k] /\ sent[k].kind = "reply"
  BY <1>1
<1>3. Interested' => Interested
  BY <1>1, <1>2, Interest DEF IsResult
<1>4. parsed \in 0 .. Len(sent)
  BY DEF Types
<1>5. \A k \in 1 .. parsed : sent'[k] = sent[k]
  BY <1>1, <1>4
<1>6. Connected' = Connected
  BY DEF Connected
<1>7. \A a \in asked' : a.op = "get" => \A k \in 1 .. Len(sent') : sent'[k].kind # "reply"
  BY <1>2 DEF Asking
<1>8. \A k, l \in 1 .. Len(sent') : sent'[k].kind = "reply" =>
        /\ sent'[k].to = Main /\ (sent'[k].ok => IsResult(sent'[k]))
        /\ sent'[l].kind = "reply" => k = l
  BY <1>2 DEF Asking
<1> QED
  BY <1>3, <1>5, <1>6, <1>7, <1>8 DEF Asking

LEMMA AskingServer ==
  ASSUME Types, RosterPublished, Asking, Server
  PROVE  Asking'
<1>1. UNCHANGED <<pc, waiting, scan, parsed>> /\ Connected' = Connected
  BY ServerGrows DEF client, loop, tasks, Connected
<1>2. CASE Connected
  <2>1. Interested'
    BY <1>2, RosterServer DEF Asking
  <2>2. asked' \subseteq asked
    BY DEF Server, AnswerGet, ChangeRoster, AnswerSet, SendPresence, AnswerEnter, AnswerLeave,
           AnswerKick, Kick, Rename, AnswerIq
  <2> QED
    BY <1>1, <1>2, <2>1, <2>2 DEF Asking, Connected
<1>3. CASE AnswerGet
  <2>1. /\ pc[Main] = "get"
        /\ \A k \in 1 .. Len(sent) : sent[k].kind # "reply"
        /\ asked' \subseteq asked /\ \A a \in asked' : a.op # "get"
    BY <1>3, Answers
  <2>2. PICK d \in Stanzas : /\ d.kind = "reply" /\ d.to = Main /\ sent' = Append(sent, d)
                             /\ d.ok => IsResult(d)
    BY <1>3, Answers
  <2>3. /\ Len(sent) \in Nat /\ Len(sent') = Len(sent) + 1 /\ sent'[Len(sent) + 1] = d
        /\ \A i \in 1 .. Len(sent) : sent'[i] = sent[i]
    BY <2>2, AppendProperties, LenProperties DEF Types
  <2>4. \A k \in 1 .. Len(sent') : sent'[k].kind = "reply" => k = Len(sent) + 1
    BY <2>1, <2>3
  <2>5. \A k \in 1 .. parsed : sent'[k].kind # "reply"
    BY <2>1, <2>3 DEF Types
  <2>6. ~Connected /\ \A a \in asked' : Connected'
    BY <1>1, <2>1 DEF Asking, Connected
  <2>7. \A k, l \in 1 .. Len(sent') : sent'[k].kind = "reply" =>
          /\ sent'[k].to = Main /\ (sent'[k].ok => IsResult(sent'[k]))
          /\ sent'[l].kind = "reply" => k = l
    BY <2>2, <2>3, <2>4
  <2> QED
    BY <1>1, <2>1, <2>5, <2>6, <2>7 DEF Asking
<1>4. CASE ~Connected /\ ~AnswerGet
  <2>1. \A a \in asked : a.op = "get"
    BY <1>4 DEF Asking
  <2>2. CASE AnswerEnter \/ AnswerLeave \/ Kick \/ Rename \/ AnswerKick \/ AnswerIq
    <3>1. UNCHANGED asked /\ Adds(Asides)
      BY <2>1, <2>2, SaysAside
    <3>2. Asides \in SUBSET Stanzas /\ \A d \in Asides : d.kind # "reply"
      BY <2>1 DEF Asides
    <3> QED
      BY <1>1, <1>4, <3>1, <3>2, AskingKept
  <2>3. CASE SendPresence
    <3> DEFINE D == {s \in Stanzas : s.kind = "presence"}
    <3>1. UNCHANGED asked /\ Adds(D) /\ D \in SUBSET Stanzas /\ \A d \in D : d.kind # "reply"
      BY <2>3, PresencesOnly
    <3> HIDE DEF D
    <3> QED
      BY <1>1, <1>4, <3>1, AskingKept
  <2>4. CASE ChangeRoster
    <3>1. PICK j \in Contacts, sub \in {"both", "remove"} :
            /\ rosterLog' = Append(rosterLog, Changed(j, sub)) /\ UNCHANGED asked
            /\ Sends(<< Push(j, sub, Len(rosterLog')) >>) \/ UNCHANGED sent
      BY <2>4 DEF ChangeRoster
    <3> DEFINE d == Push(j, sub, Len(rosterLog'))
    <3>2. /\ Len(Append(rosterLog, Changed(j, sub))) \in Nat /\ Put(Empty, j, sub) \in Versions
      <4>1. Append(rosterLog, Changed(j, sub)) \in Seq(Versions) /\ Put(Empty, j, sub) \in Versions
        BY Changes
      <4> QED
        BY <4>1, LenProperties
    <3>3. d \in Stanzas /\ d.kind = "push"
      BY <3>1, <3>2, Records DEF Push
    <3>4. Sends(<<d>>) \/ UNCHANGED sent
      BY <3>1
    <3> DEFINE D == {s \in Stanzas : s.kind = "push"}
    <3> HIDE DEF d
    <3>5. d \in D /\ D \in SUBSET Stanzas /\ \A x \in D : x.kind # "reply"
      BY <3>3
    <3> HIDE DEF D
    <3>6. CASE Sends(<<d>>)
      <4>1. Adds(D)
        BY <3>5, <3>6, AddsOne
      <4> QED
        BY <1>1, <1>4, <3>1, <3>5, <4>1, AskingKept
    <3>7. CASE UNCHANGED sent
      <4>1. Adds(D)
        BY <3>7 DEF Adds
      <4> QED
        BY <1>1, <1>4, <3>1, <3>5, <4>1, AskingKept
    <3> QED
      BY <3>4, <3>6, <3>7
  <2>5. CASE AnswerSet
    BY <2>1, <2>5 DEF AnswerSet
  <2> QED
    BY <1>4, <2>2, <2>3, <2>4, <2>5 DEF Server
<1> QED
  BY <1>2, <1>3, <1>4

\* What the parser and the tasks do to the conversation.
LEMMA TaskMoves ==
  ASSUME Fifo, Asking, Next, ~Server, \A i \in 1 .. parsed : ~RunMixins(i)
  PROVE  \/ ParseNext
         \/ \E t \in Tasks : Match(t)
         \/ UNCHANGED <<pc, asked, waiting, scan, parsed, roster, rosterSeen>>
         \/ \E t \in Tasks, op \in {"idle", "due"} \cup (Awaited \ {"get"}) :
              /\ Connected /\ pc' = [pc EXCEPT ![t] = op]
              /\ \A a \in asked' : a \in asked \/ a.op # "get"
              /\ UNCHANGED <<roster, rosterSeen>>
         \/ /\ Runs(Handle("wake", Main)) /\ GotRoster(Main, sent[got[Main]])
            /\ UNCHANGED <<scan, parsed>>
<1> DEFINE goes == \E t \in Tasks, op \in {"idle", "due"} \cup (Awaited \ {"get"}) :
                     /\ Connected /\ pc' = [pc EXCEPT ![t] = op]
                     /\ \A a \in asked' : a \in asked \/ a.op # "get"
                     /\ UNCHANGED <<roster, rosterSeen>>
<1>1. CASE ParserSleeps
  BY <1>1 DEF ParserSleeps, server, tasks, data
<1>2. ASSUME NEW t \in Tasks, Release(t)
      PROVE  UNCHANGED <<pc, asked, waiting, scan, parsed, roster, rosterSeen>>
  BY <1>2 DEF Release, server, tasks, data
<1>3. ASSUME NEW t \in Tasks, pc[t] \notin {"idle", "get", "failed"} PROVE Connected
  BY <1>3 DEF Asking, Connected, Tasks
<1>4. ASSUME NEW t \in Tasks, NEW how \in {"wake", "found"}, Resume(t, how),
             pc[t] # "get"
      PROVE  goes
  <2>1. /\ pc[t] \in {"enter", "getconf", "set", "config", "leave"}
        /\ UNCHANGED <<roster, rosterSeen>>
        /\ \/ Finish(t, "idle")
           \/ \E op \in {"config", "getconf"} : Await(t, op, Request(t, "iq"))
    BY <1>4 DEF Resume, GotRoster, Entered, Configures, Returns
  <2>2. Connected
    BY <1>3, <2>1
  <2>3. CASE Finish(t, "idle")
    <3>1. pc' = [pc EXCEPT ![t] = "idle"] /\ UNCHANGED asked
      BY <2>3 DEF Finish
    <3> QED
      BY <2>1, <2>2, <3>1
  <2>4. ASSUME NEW op \in {"config", "getconf"}, Await(t, op, Request(t, "iq")) PROVE goes
    <3>1. pc' = [pc EXCEPT ![t] = op] /\ asked' = asked \cup {[task |-> t, op |-> "iq"]}
      BY <2>4 DEF Await, Request
    <3>2. op \in Awaited \ {"get"}
      BY DEF Awaited
    <3>3. \A a \in asked' : a \in asked \/ a.op # "get"
      BY <3>1
    <3> QED
      BY <2>1, <2>2, <3>1, <3>2, <3>3
  <2> QED
    BY <2>1, <2>3, <2>4
<1>5. ASSUME NEW t \in Tasks, NEW how \in {"wake", "found"}, Resume(t, how),
             pc[t] = "get"
      PROVE  /\ Runs(Handle("wake", Main)) /\ GotRoster(Main, sent[got[Main]])
             /\ UNCHANGED <<scan, parsed>>
  <2>1. t = Main
    BY <1>5 DEF Asking, Tasks
  <2>2. how # "found"
    <3>1. Runs(Handle(how, t))
      BY <1>5 DEF Resume
    <3>2. Justified(Handle(how, t))
      BY <3>1, AtHead
    <3> QED
      BY <1>5, <3>2, Kinds DEF Justified
  <2>3. GotRoster(t, sent[got[t]]) /\ Runs(Handle(how, t)) /\ UNCHANGED <<scan, parsed>>
    BY <1>5 DEF Resume, Entered, Configures, Returns
  <2> QED
    BY <2>1, <2>2, <2>3
<1>6. ASSUME NEW t \in Tasks, NEW op \in scenario.may[t], Due(t, op) PROVE goes
  <2>1. /\ pc[Main] = "idle" /\ pc' = [pc EXCEPT ![t] = "due"]
        /\ UNCHANGED <<asked, roster, rosterSeen>>
    BY <1>6 DEF Due, server, data
  <2> QED
    BY <2>1 DEF Connected
<1>7. ASSUME NEW t \in Tasks, NEW op \in scenario.may[t], Call(t, op) PROVE goes
  <2>1. op \in Ops
    BY MayCall DEF Fifo
  <2>2. /\ Runs(Handle(op, t)) /\ Await(t, op, Request(t, op)) /\ UNCHANGED <<roster, rosterSeen>>
    BY <1>7 DEF Call, data
  <2>3. pc' = [pc EXCEPT ![t] = op] /\ asked' = asked \cup {[task |-> t, op |-> op]}
    BY <2>2 DEF Await, Request
  <2>4. pc[t] = "due"
    <3>1. Justified(Handle(op, t))
      BY <2>2, AtHead
    <3> QED
      BY <2>1, <3>1, Kinds DEF Justified
  <2>5. Connected
    BY <1>3, <2>4
  <2>6. op \in Awaited \ {"get"} /\ op # "get"
    BY <2>1 DEF Awaited, Ops
  <2>7. \A a \in asked' : a \in asked \/ a.op # "get"
    BY <2>3, <2>6
  <2> QED
    BY <2>2, <2>3, <2>5, <2>6, <2>7
<1> HIDE DEF goes
<1>8. \/ ParseNext \/ ParserSleeps
      \/ \E t \in Tasks :
           \/ Match(t) \/ Release(t)
           \/ \E how \in {"wake", "found"} : Resume(t, how)
           \/ \E op \in scenario.may[t] : Due(t, op) \/ Call(t, op)
  BY DEF Next, Client
<1> QED
  BY <1>1, <1>2, <1>4, <1>5, <1>6, <1>7, <1>8 DEF goes

\* A task that is done with the request has had the one reply there is to it.
LEMMA GotReply ==
  ASSUME Fifo, Asking, Runs(Handle("wake", Main)), pc[Main] = "get"
  PROVE  /\ got[Main] \in 1 .. Len(sent) /\ sent[got[Main]].kind = "reply" /\ applied <= got[Main]
         /\ sent[got[Main]].ok => IsResult(sent[got[Main]])
         /\ \A k \in 1 .. Len(sent) : sent[k].kind = "reply" => k = got[Main]
<1>1. Justified(Handle("wake", Main))
  BY AtHead
<1>2. /\ applied <= got[Main] /\ got[Main] \in 1 .. parsed
      /\ Wants("get", Main, sent[got[Main]])
  BY <1>1, Kinds DEF Justified
<1>3. got[Main] \in 1 .. Len(sent) /\ sent[got[Main]].kind = "reply"
  BY <1>2 DEF Fifo, Types, Wants
<1>4. ~Connected
  BY DEF Connected
<1> QED
  BY <1>2, <1>3, <1>4 DEF Asking

LEMMA AskingStep ==
  ASSUME Fifo, RosterPublished, Asking, [Next]_vars
  PROVE  Asking'
<1>1. Types
  BY DEF Fifo
<1>2. CASE Server
  BY <1>1, <1>2, AskingServer
<1>3. CASE UNCHANGED <<sent, asked, pc, waiting, scan, parsed>>
  BY <1>3 DEF Asking, Connected, Interested
<1>4. ASSUME NEW i \in 1 .. parsed, RunMixins(i) PROVE Asking'
  BY <1>3, <1>4 DEF RunMixins, server, tasks
<1>5. CASE UNCHANGED vars
  BY <1>3, <1>5 DEF vars, server, tasks, loop
<1>6. CASE Next /\ ~Server /\ \A i \in 1 .. parsed : ~RunMixins(i)
  <2>1. UNCHANGED sent
    BY <1>6, OtherSteps
  <2>2. Interested' = Interested
    BY <2>1 DEF Interested
  <2>3. CASE ParseNext
    <3>1. /\ scan = {} /\ parsed' = parsed + 1 /\ parsed + 1 \in 1 .. Len(sent)
          /\ scan' = {t \in waiting : Wants(pc[t], t, sent[parsed + 1])}
          /\ UNCHANGED <<asked, waiting, pc>> /\ parsed \in Nat
      <4>1. /\ scan = {} /\ parsed' = parsed + 1 /\ parsed < Len(sent)
            /\ scan' = {t \in waiting : Wants(pc[t], t, sent[parsed + 1])}
            /\ UNCHANGED <<asked, waiting, pc>>
        BY <2>3 DEF ParseNext, server
      <4>2. parsed \in 0 .. Len(sent) /\ Len(sent) \in Nat
        BY <1>1, LenProperties DEF Types
      <4> QED
        BY <4>1, <4>2
    <3>2. ASSUME pc[Main] = "get", Main \in waiting \ scan', NEW k \in 1 .. parsed + 1
          PROVE  sent[k].kind # "reply"
      <4>1. CASE k \in 1 .. parsed
        BY <3>1, <3>2, <4>1 DEF Asking
      <4>2. CASE k = parsed + 1
        <5>1. ~Wants("get", Main, sent[k])
          BY <3>1, <3>2, <4>2
        <5>2. sent[k].kind = "reply" => sent[k].to = Main
          BY <3>1, <3>2, <4>2 DEF Asking, Connected
        <5> QED
          BY <5>1, <5>2 DEF Wants
      <4> QED
        BY <3>1, <4>1, <4>2
    <3> QED
      BY <2>1, <2>2, <3>1, <3>2 DEF Asking, Connected
  <2>4. ASSUME NEW t \in Tasks, Match(t) PROVE Asking'
    <3>1. /\ waiting' = waiting \ {t} /\ scan' = scan \ {t}
          /\ UNCHANGED <<asked, parsed, pc>>
      BY <2>4 DEF Match, Complete, server
    <3>2. Main \in waiting' \ scan' => Main \in waiting \ scan
      BY <3>1
    <3> QED
      BY <2>1, <2>2, <3>1, <3>2 DEF Asking, Connected
  <2>5. ASSUME NEW t \in Tasks, NEW op \in {"idle", "due"} \cup (Awaited \ {"get"}),
               Connected, pc' = [pc EXCEPT ![t] = op],
               \A a \in asked' : a \in asked \/ a.op # "get"
        PROVE  Asking'
    <3>1. op \notin {"get", "failed"}
      BY DEF Awaited, Ops
    <3>2. /\ pc'[Main] \in {pc[Main], op} /\ pc'[Other] \in {pc[Other], op}
      BY <1>1, <2>5 DEF Types, Tasks
    <3>3. Connected' /\ pc'[Main] \notin {"get", "failed"} /\ pc'[Other] \notin {"get", "failed"}
      BY <2>5, <3>1, <3>2 DEF Connected, Asking
    <3>4. Interested'
      BY <2>2, <2>5 DEF Asking
    <3>5. \A a \in asked' : a.op # "get"
      BY <2>5 DEF Asking, Connected
    <3> QED
      BY <3>3, <3>4, <3>5 DEF Asking
  <2>6. ASSUME Runs(Handle("wake", Main)), GotRoster(Main, sent[got[Main]])
        PROVE  Asking'
    <3> DEFINE s == sent[got[Main]]
    <3>1. /\ pc[Main] = "get" /\ UNCHANGED asked
          /\ pc' = [pc EXCEPT ![Main] = IF s.ok THEN "idle" ELSE "failed"]
      BY <2>6 DEF GotRoster, Finish
    <3>2. /\ got[Main] \in 1 .. Len(sent) /\ s.kind = "reply"
          /\ s.ok => IsResult(s)
          /\ \A k \in 1 .. Len(sent) : sent[k].kind = "reply" => k = got[Main]
      BY <2>6, <3>1, GotReply
    <3>3. asked' = {}
      BY <3>1, <3>2 DEF Asking, Connected
    <3>4. pc'[Main] = (IF s.ok THEN "idle" ELSE "failed") /\ pc'[Other] = pc[Other]
      BY <1>1, <3>1, SessionAssumption DEF Types, Tasks
    <3>5. pc[Other] = "idle"
      BY <3>1 DEF Asking, Connected
    <3>6. CASE s.ok
      <4>1. Interested'
        BY <1>1, <2>2, <3>2, <3>6, Interest
      <4> QED
        BY <3>3, <3>4, <3>5, <3>6, <4>1 DEF Asking, Connected
    <3>7. CASE ~s.ok
      <4>1. \A k \in 1 .. Len(sent) : IsResult(sent[k]) => k = got[Main]
        BY <3>2 DEF IsResult
      <4>2. \A k, l \in 1 .. Len(sent) : sent[k].kind = "reply" =>
              /\ sent[k].to = Main /\ (sent[k].ok => IsResult(sent[k]))
              /\ sent[l].kind = "reply" => k = l
        BY <3>1 DEF Asking, Connected
      <4>3. pc'[Main] = "failed" /\ ~Connected'
        BY <3>4, <3>7 DEF Connected
      <4>4. ~IsResult(s)
        BY <3>2, <3>7 DEF RosterPublished
      <4>5. ~Interested'
        BY <1>1, <2>2, <4>1, <4>4, Interest
      <4> QED
        BY <2>1, <3>3, <3>4, <3>5, <4>2, <4>3, <4>5 DEF Asking
    <3> QED
      BY <3>6, <3>7
  <2> QED
    BY <1>3, <1>6, <2>1, <2>3, <2>4, <2>5, <2>6, TaskMoves
<1> QED
  BY <1>2, <1>4, <1>5, <1>6

\* The version of the roster that the mixins have come to.
RosterReached == RosterBase + Count("push", sent, applied)

RosterFollowed ==
  IF Connected THEN rosterSeen = RosterReached /\ roster = rosterLog[rosterSeen]
  ELSE /\ rosterSeen = 0 /\ roster = Empty
       /\ \A k \in 1 .. applied : sent[k].kind # "push"

\* The roster that is the answer is taken as it is.
LEMMA UpdateOfNothing ==
  ASSUME NEW items \in Versions
  PROVE  UpdateRoster(Empty, items) = items
<1>1. PICK S \in SUBSET Contacts : items \in [S -> {"none", "both", "remove"}]
  BY DEF Versions
<1>2. items = [j \in DOMAIN items |-> items[j]]
  BY <1>1
<1> QED
  BY <1>2 DEF UpdateRoster, Empty

\* No push is applied before the answer is.
LEMMA NoPushBefore ==
  ASSUME Fifo, RosterPublished, Asking, ~Connected, NEW i \in 1 .. parsed, RunMixins(i)
  PROVE  sent[i].kind # "push"
<1> SUFFICES ASSUME sent[i].kind = "push" PROVE FALSE
  OBVIOUS
<1>1. /\ Types /\ i \in 1 .. Len(sent) /\ Len(sent) \in Nat /\ parsed \in 0 .. Len(sent)
  BY MixinsStep DEF Fifo, Types
<1>2. Interested
  BY <1>1 DEF RosterPublished
<1>3. PICK k \in 1 .. Len(sent) : IsResult(sent[k])
  BY <1>1, <1>2, Interest
<1>4. k < i /\ sent[k].kind = "reply"
  BY <1>1, <1>3 DEF RosterPublished, IsResult
<1>5. pc[Main] = "get"
  BY <1>2 DEF Asking, Connected
<1>6. CASE Main \in waiting \ scan
  BY <1>1, <1>4, <1>5, <1>6 DEF Asking
<1>7. CASE Main \in scan
  <2>1. parsed > 0 /\ Wants("get", Main, sent[parsed])
    BY <1>5, <1>7 DEF Fifo, Given
  <2>2. parsed \in 1 .. Len(sent) /\ sent[parsed].kind = "reply"
    BY <1>1, <2>1 DEF Wants
  <2>3. k = parsed
    BY <1>4, <2>2 DEF Asking
  <2> QED
    BY <1>1, <1>4, <2>3
<1>8. CASE \E w \in {"release", "wake"} : Contains(ready, Handle(w, Main))
  <2>1. PICK w \in {"release", "wake"} : Contains(ready, Handle(w, Main))
    BY <1>8
  <2>2. i <= got[Main]
    BY <2>1, MixinsInOrder DEF Tasks
  <2>3. Justified(Handle(w, Main))
    BY <1>1, <2>1, QueueForm DEF Fifo
  <2>4. got[Main] \in 1 .. parsed /\ Wants("get", Main, sent[got[Main]])
    BY <1>5, <2>3, Kinds DEF Justified
  <2>5. got[Main] \in 1 .. Len(sent) /\ sent[got[Main]].kind = "reply"
    BY <1>1, <2>4 DEF Wants
  <2>6. k = got[Main]
    BY <1>4, <2>5 DEF Asking
  <2> QED
    BY <1>1, <1>4, <2>2, <2>6
<1> QED
  BY <1>5, <1>6, <1>7, <1>8 DEF Fifo, Given, Tasks

\* What the mixins make of a push.
LEMMA PushShown ==
  ASSUME Fifo, RosterPublished, NEW i \in 1 .. parsed, RunMixins(i)
  PROVE  /\ UNCHANGED <<sent, rosterLog, pc>> /\ RosterBase' = RosterBase /\ Connected' = Connected
         /\ sent[i].kind # "push" => UNCHANGED <<roster, rosterSeen>> /\ RosterReached' = RosterReached
         /\ sent[i].kind = "push" =>
              /\ RosterReached' = RosterReached + 1 /\ rosterSeen' = RosterReached'
              /\ RosterReached' \in 2 .. Len(rosterLog)
              /\ roster' = UpdateRoster(roster, sent[i].items)
              /\ rosterLog[RosterReached'] = UpdateRoster(rosterLog[RosterReached], sent[i].items)
<1>1. /\ i = applied + 1 /\ i \in 1 .. Len(sent) /\ applied' = i /\ applied \in Nat
      /\ UNCHANGED <<sent, rosterLog, pc>> /\ RosterOnStanza(sent[i])
      /\ rosterSeen' = IF sent[i].kind = "push" THEN sent[i].v ELSE rosterSeen
  BY MixinsStep DEF RunMixins
<1>2. RosterBase' = RosterBase /\ Connected' = Connected
  BY <1>1 DEF RosterBase, Count, Connected
<1>3. RosterReached' = RosterBase + Count("push", sent, i)
  BY <1>1, <1>2 DEF RosterReached, Count
<1>4. CASE sent[i].kind # "push"
  <2>1. Count("push", sent, i) = Count("push", sent, applied)
    BY <1>1, <1>4, Counts
  <2> QED
    BY <1>1, <1>2, <1>3, <1>4, <2>1 DEF RosterReached, RosterOnStanza
<1>5. CASE sent[i].kind = "push"
  <2> DEFINE w == RosterBase + Count("push", sent, i)
  <2>1. /\ w \in 2 .. Len(rosterLog) /\ Moves(sent[i], rosterLog[w - 1], rosterLog[w])
        /\ Numbered(sent[i], w)
    BY <1>1, <1>5 DEF RosterPublished, Tells
  <2>2. Count("push", sent, i) = Count("push", sent, applied) + 1 /\ Count("push", sent, applied) \in Nat
    BY <1>1, <1>5, Counts
  <2>3. RosterReached \in Int /\ w = RosterReached + 1 /\ w - 1 = RosterReached
    <3>1. RosterBase \in Nat
      BY DEF RosterPublished
    <3> QED
      BY <2>2, <3>1 DEF RosterReached
  <2>4. w = RosterReached'
    BY <1>3
  <2> HIDE DEF w
  <2>5. /\ rosterSeen' = w /\ rosterLog[w] = UpdateRoster(rosterLog[w - 1], sent[i].items)
        /\ roster' = UpdateRoster(roster, sent[i].items)
    BY <1>1, <1>5, <2>1 DEF Moves, Numbered, RosterOnStanza
  <2> QED
    BY <1>1, <1>2, <1>5, <2>1, <2>3, <2>4, <2>5
<1> QED
  BY <1>1, <1>2, <1>4, <1>5

\* The answer is the first version of the roster.
LEMMA RosterGiven ==
  ASSUME Fifo, RosterPublished, Asking, RosterFollowed,
         Runs(Handle("wake", Main)), GotRoster(Main, sent[got[Main]]),
         UNCHANGED <<sent, rosterLog, applied>>
  PROVE  /\ ~Connected /\ RosterFollowed'
         /\ ~Connected' => UNCHANGED <<roster, rosterSeen>>
         /\ Connected' => rosterSeen' = RosterBase /\ roster' = rosterLog[RosterBase]
<1> DEFINE s == sent[got[Main]]
<1>1. /\ pc[Main] = "get" /\ ~Connected
      /\ pc' = [pc EXCEPT ![Main] = IF s.ok THEN "idle" ELSE "failed"]
      /\ roster' = IF s.ok THEN UpdateRoster(roster, s.items) ELSE roster
      /\ rosterSeen' = IF s.ok THEN s.v ELSE rosterSeen
  BY DEF GotRoster, Finish, Connected
<1>2. /\ got[Main] \in 1 .. Len(sent) /\ applied <= got[Main] /\ s.ok => IsResult(s)
      /\ got[Main] \in 1 .. Len(sent)
  BY <1>1, GotReply
<1>3. rosterSeen = 0 /\ roster = Empty /\ \A k \in 1 .. applied : sent[k].kind # "push"
  BY <1>1 DEF RosterFollowed
<1>4. pc'[Main] = IF s.ok THEN "idle" ELSE "failed"
  BY <1>1 DEF Fifo, Types, Tasks
<1>5. CASE ~s.ok
  <2>1. ~Connected' /\ UNCHANGED <<roster, rosterSeen>>
    BY <1>1, <1>4, <1>5 DEF Connected
  <2> QED
    BY <1>1, <1>3, <2>1 DEF RosterFollowed
<1>6. CASE s.ok
  <2>1. IsResult(s) /\ s.v = RosterBase /\ s.items = rosterLog[RosterBase]
    BY <1>2, <1>6, GotReply, <1>1 DEF RosterPublished
  <2>2. Count("push", sent, applied) = 0
    <3>1. applied \in Nat
      BY DEF Fifo, Types
    <3> QED
      BY <1>3, <3>1, NoPushYet
  <2>3. rosterLog[RosterBase] \in Versions
    <3>1. /\ Len(sent) \in Nat /\ rosterLog \in Seq(Versions) /\ Len(rosterLog) \in Nat
      BY LenProperties DEF Fifo, Types
    <3>2. Count("push", sent, Len(sent)) \in Nat
      BY <3>1, Counts
    <3>3. RosterBase \in 1 .. Len(rosterLog)
      BY <3>1, <3>2 DEF RosterBase, RosterPublished
    <3> QED
      BY <3>1, <3>3, ElementOfSeq
  <2>4. roster' = rosterLog[RosterBase] /\ rosterSeen' = RosterBase
    BY <1>1, <1>3, <1>6, <2>1, <2>3, UpdateOfNothing
  <2>5. Connected'
    BY <1>4, <1>6 DEF Connected
  <2>6. RosterReached' = RosterBase
    <3>1. RosterReached' = RosterBase + Count("push", sent, applied)
      BY DEF RosterReached, RosterBase, Count
    <3> QED
      BY <2>2, <3>1 DEF RosterPublished
  <2> QED
    BY <1>1, <2>4, <2>5, <2>6 DEF RosterFollowed
<1> QED
  BY <1>5, <1>6

\* The roster is reached among the versions there are.
LEMMA ReachedVersion ==
  ASSUME Types, RosterPublished
  PROVE  RosterReached \in 1 .. Len(rosterLog) /\ Len(rosterLog) \in Nat
<1>1. applied \in 0 .. Len(sent) /\ Len(sent) \in Nat /\ Len(rosterLog) \in Nat
  BY LenProperties DEF Types
<1>2. /\ Count("push", sent, applied) \in Nat /\ Count("push", sent, Len(sent)) \in Nat
      /\ Count("push", sent, applied) <= Count("push", sent, Len(sent))
  BY <1>1, CountGrows, Counts
<1>3. Len(rosterLog) = RosterBase + Count("push", sent, Len(sent)) /\ RosterBase \in Nat \ {0}
  BY DEF RosterPublished, Tells
<1> QED
  BY <1>1, <1>2, <1>3 DEF RosterReached

LEMMA RosterFollowedStep ==
  ASSUME Fifo, RosterPublished, Asking, RosterFollowed, [Next]_vars
  PROVE  RosterFollowed'
<1>1. Types
  BY DEF Fifo
<1>2. CASE Server
  <2>1. /\ UNCHANGED <<applied, roster, rosterSeen, pc>>
        /\ \A i \in 1 .. Len(sent) : sent'[i] = sent[i]
    BY <1>1, <1>2, ServerGrows DEF client, loop, data, tasks
  <2>2. applied \in Nat /\ \A i \in 1 .. applied : sent'[i] = sent[i]
    BY <1>1, <2>1 DEF Types
  <2>3. Connected' = Connected
    BY <2>1 DEF Connected
  <2>4. CASE ~Connected
    BY <2>1, <2>2, <2>3, <2>4 DEF RosterFollowed
  <2>5. CASE Connected
    <3>1. RosterBase' = RosterBase
      BY <1>1, <1>2, <2>5, RosterServer DEF Asking
    <3>2. Count("push", sent', applied) = Count("push", sent, applied)
      BY <2>2, Counts
    <3>3. RosterReached' = RosterReached
      BY <2>1, <3>1, <3>2 DEF RosterReached, Count
    <3>4. rosterLog'[RosterReached] = rosterLog[RosterReached]
      BY <1>1, <1>2, ReachedVersion, RosterLogGrows
    <3> QED
      BY <2>1, <2>3, <2>5, <3>3, <3>4 DEF RosterFollowed
  <2> QED
    BY <2>4, <2>5
<1>3. ASSUME NEW i \in 1 .. parsed, RunMixins(i) PROVE RosterFollowed'
  <2>1. UNCHANGED <<sent, rosterLog, pc>> /\ Connected' = Connected
    BY <1>3, PushShown
  <2>2. CASE ~Connected
    <3>1. sent[i].kind # "push"
      BY <1>3, <2>2, NoPushBefore
    <3>2. UNCHANGED <<roster, rosterSeen>> /\ i = applied + 1 /\ applied' = i /\ applied \in Nat
      BY <1>3, <3>1, PushShown, MixinsStep
    <3> QED
      BY <2>1, <2>2, <3>1, <3>2 DEF RosterFollowed
  <2>3. CASE Connected /\ sent[i].kind # "push"
    BY <1>3, <2>1, <2>3, PushShown DEF RosterFollowed
  <2>4. CASE Connected /\ sent[i].kind = "push"
    BY <1>3, <2>1, <2>4, PushShown DEF RosterFollowed
  <2> QED
    BY <2>2, <2>3, <2>4
<1>4. ASSUME UNCHANGED <<sent, rosterLog, applied, roster, rosterSeen>>, Connected' = Connected
      PROVE  RosterFollowed'
  BY <1>4 DEF RosterFollowed, RosterReached, RosterBase, Count
<1>5. CASE UNCHANGED vars
  BY <1>4, <1>5 DEF vars, server, tasks, loop, data, Connected
<1>6. CASE Next /\ ~Server /\ \A i \in 1 .. parsed : ~RunMixins(i)
  <2>1. UNCHANGED <<sent, rosterLog, applied>>
    BY <1>6, OtherSteps
  <2>2. CASE ParseNext \/ \E t \in Tasks : Match(t)
    BY <1>4, <2>1, <2>2 DEF ParseNext, Match, Complete, data, Connected
  <2>3. CASE UNCHANGED <<pc, roster, rosterSeen>>
    BY <1>4, <2>1, <2>3 DEF Connected
  <2>4. ASSUME NEW t \in Tasks, NEW op \in {"idle", "due"} \cup (Awaited \ {"get"}),
               Connected, pc' = [pc EXCEPT ![t] = op], UNCHANGED <<roster, rosterSeen>>
        PROVE  RosterFollowed'
    <3>1. pc'[Main] \in {pc[Main], op} /\ op \notin {"get", "failed"}
      BY <1>1, <2>4 DEF Types, Tasks, Awaited, Ops
    <3>2. Connected'
      BY <2>4, <3>1 DEF Connected
    <3> QED
      BY <1>4, <2>1, <2>4, <3>2
  <2>5. CASE Runs(Handle("wake", Main)) /\ GotRoster(Main, sent[got[Main]])
    BY <2>1, <2>5, RosterGiven
  <2> QED
    BY <1>6, <2>2, <2>3, <2>4, <2>5, TaskMoves
<1> QED
  BY <1>2, <1>3, <1>5, <1>6

LEMMA RosterPublishedStep ==
  ASSUME Fifo, RosterPublished, Asking, [Next]_vars
  PROVE  RosterPublished'
<1>1. CASE Server
  BY <1>1, RosterServer DEF Fifo
<1>2. CASE UNCHANGED <<sent, rosterLog>>
  BY <1>2 DEF RosterPublished, RosterBase, Tells, Count, Interested
<1>3. ASSUME NEW i \in 1 .. parsed, RunMixins(i) PROVE RosterPublished'
  BY <1>2, <1>3 DEF RunMixins, server
<1>4. CASE UNCHANGED vars
  BY <1>2, <1>4 DEF vars, server
<1>5. CASE Next /\ ~Server /\ \A i \in 1 .. parsed : ~RunMixins(i)
  BY <1>2, <1>5, OtherSteps
<1> QED
  BY <1>1, <1>3, <1>4, <1>5

LEMMA RosterInitially == Init => RosterPublished /\ Asking /\ RosterFollowed
<1> SUFFICES ASSUME Init PROVE RosterPublished /\ Asking /\ RosterFollowed
  OBVIOUS
<1>1. /\ sent = <<>> /\ Len(sent) = 0 /\ asked = {[task |-> Main, op |-> "get"]}
      /\ parsed = 0 /\ applied = 0 /\ pc[Main] = "get" /\ pc[Other] = "idle"
      /\ roster = Empty /\ rosterSeen = 0
  BY SessionAssumption DEF Init, RosterInit, Tasks
<1>2. Len(rosterLog) = 1
  <2>1. PICK S \in SUBSET Contacts : rosterLog = << [j \in S |-> "none"] >>
    BY DEF Init
  <2> QED
    BY <2>1
<1>3. Count("push", sent, 0) = 0
  BY Counts
<1>4. RosterBase = 1
  BY <1>1, <1>2, <1>3 DEF RosterBase
<1>5. ~Interested
  BY <1>1 DEF Interested
<1>6. RosterPublished
  BY <1>1, <1>2, <1>3, <1>4, <1>5 DEF RosterPublished, Tells
<1>7. Asking
  BY <1>1, <1>5 DEF Asking, Connected
<1>8. RosterFollowed
  BY <1>1 DEF RosterFollowed, Connected
<1> QED
  BY <1>6, <1>7, <1>8

\* The roster is a replica of the server's: the answer to the request, which the
\* task of connect() applies, and the pushes, which the mixins apply, come in the
\* order of the versions, and after each of them the roster is that version.
THEOREM SessionRosterIsReplica == Spec => RosterIsReplica
<1>1. Init => RosterReplica!Init
  <2> SUFFICES ASSUME Init PROVE RosterReplica!Init
    OBVIOUS
  <2>1. rosterLog # <<>>
    BY FifoInit DEF Fifo, Types
  <2>2. rosterSeen = 0 /\ roster = Empty
    BY DEF Init, RosterInit
  <2> QED
    BY <2>1, <2>2 DEF RosterReplica!Init
<1>2. Fifo /\ RosterPublished /\ Asking /\ RosterFollowed /\ [Next]_vars =>
        [RosterReplica!Next]_<<rosterLog, rosterSeen, roster>>
  <2> SUFFICES ASSUME Fifo, RosterPublished, Asking, RosterFollowed, [Next]_vars
               PROVE  [RosterReplica!Next]_<<rosterLog, rosterSeen, roster>>
    OBVIOUS
  <2>1. /\ Types /\ RosterReached \in 1 .. Len(rosterLog) /\ Len(rosterLog) \in Nat
    BY ReachedVersion DEF Fifo
  <2>2. CASE Server
    <3>1. UNCHANGED <<roster, rosterSeen>>
      BY <2>1, <2>2, ServerGrows DEF client, data
    <3>2. RosterReplica!Extends(rosterLog', rosterLog)
      <4>1. /\ Len(rosterLog') \in Nat /\ Len(rosterLog) <= Len(rosterLog')
            /\ \A v \in 1 .. Len(rosterLog) : rosterLog'[v] = rosterLog[v]
        BY <2>1, <2>2, RosterLogGrows
      <4>2. DOMAIN rosterLog = 1 .. Len(rosterLog)
        BY <2>1, LenProperties DEF Types
      <4> QED
        BY <2>1, <4>1, <4>2 DEF RosterReplica!Extends
    <3> QED
      BY <3>1, <3>2 DEF RosterReplica!Publish, RosterReplica!Next
  <2>3. ASSUME NEW i \in 1 .. parsed, RunMixins(i)
        PROVE  [RosterReplica!Next]_<<rosterLog, rosterSeen, roster>>
    <3>1. UNCHANGED rosterLog /\ Connected' = Connected
      BY <2>3, PushShown
    <3>2. CASE sent[i].kind # "push"
      BY <2>3, <3>1, <3>2, PushShown
    <3>3. CASE sent[i].kind = "push"
      <4>1. Connected
        BY <2>3, <3>3, NoPushBefore
      <4>2. rosterSeen = RosterReached
        BY <4>1 DEF RosterFollowed
      <4>3. /\ rosterSeen' = RosterReached' /\ RosterReached' = RosterReached + 1
            /\ RosterReached' \in 2 .. Len(rosterLog)
        BY <2>3, <3>3, PushShown
      <4>4. roster' = rosterLog'[rosterSeen']
        <5>1. RosterFollowed'
          BY RosterFollowedStep
        <5> QED
          BY <3>1, <4>1, <5>1 DEF RosterFollowed
      <4>5. rosterSeen' \in rosterSeen + 1 .. Len(rosterLog)
        BY <2>1, <4>2, <4>3
      <4>6. RosterReplica!Follow
        BY <3>1, <4>4, <4>5 DEF RosterReplica!Follow
      <4> QED
        BY <4>6 DEF RosterReplica!Next
    <3> QED
      BY <3>2, <3>3
  <2>4. CASE UNCHANGED <<rosterLog, rosterSeen, roster>>
    BY <2>4
  <2>5. CASE UNCHANGED vars
    BY <2>4, <2>5 DEF vars, server, data
  <2>6. CASE Next /\ ~Server /\ \A i \in 1 .. parsed : ~RunMixins(i)
    <3>1. UNCHANGED <<sent, rosterLog, applied>>
      BY <2>6, OtherSteps
    <3>2. CASE ParseNext \/ \E t \in Tasks : Match(t)
      BY <2>4, <3>1, <3>2 DEF ParseNext, Match, Complete, data
    <3>3. CASE UNCHANGED <<roster, rosterSeen>>
      BY <2>4, <3>1, <3>3
    <3>4. CASE Runs(Handle("wake", Main)) /\ GotRoster(Main, sent[got[Main]])
      <4>1. /\ ~Connected
            /\ ~Connected' => UNCHANGED <<roster, rosterSeen>>
            /\ Connected' => rosterSeen' = RosterBase /\ roster' = rosterLog[RosterBase]
        BY <3>1, <3>4, RosterGiven
      <4>2. CASE ~Connected'
        BY <3>3, <4>1, <4>2
      <4>3. CASE Connected'
        <5>1. rosterSeen = 0
          BY <4>1 DEF RosterFollowed
        <5>2. RosterBase \in 1 .. Len(rosterLog)
          <6>1. applied \in Nat /\ RosterBase \in Nat \ {0}
            BY <2>1 DEF Types, RosterPublished
          <6>2. Count("push", sent, applied) \in Nat
            BY <6>1, Counts
          <6> QED
            BY <2>1, <6>1, <6>2 DEF RosterReached
        <5>3. rosterSeen' \in rosterSeen + 1 .. Len(rosterLog) /\ roster' = rosterLog[rosterSeen']
          BY <4>1, <4>3, <5>1, <5>2
        <5>4. RosterReplica!Follow
          BY <3>1, <5>3 DEF RosterReplica!Follow
        <5> QED
          BY <5>4 DEF RosterReplica!Next
      <4> QED
        BY <4>2, <4>3
    <3> QED
      BY <2>6, <3>2, <3>3, <3>4, TaskMoves
  <2> QED
    BY <2>2, <2>3, <2>5, <2>6
<1>3. Fifo /\ RosterPublished /\ Asking /\ RosterFollowed /\ [Next]_vars
      => RosterPublished' /\ Asking' /\ RosterFollowed'
  BY RosterPublishedStep, AskingStep, RosterFollowedStep
<1>4. Spec => RosterReplica!Spec
  BY <1>1, <1>2, <1>3, RosterInitially, FifoInductive, PTL DEF Spec, RosterReplica!Spec
<1> QED
  BY <1>4 DEF RosterIsReplica

-----------------------------------------------------------------------------
(* The types.                                                              *)
Tallies  == UNION {[S -> {"plain"}] : S \in SUBSET {j[2] : j \in FullJids}}
Peoples  == UNION {[S -> BOOLEAN] : S \in SUBSET Nicks}

Kept ==
  /\ \A b \in DOMAIN cache : cache[b] \in Tallies
  /\ ownPresence \subseteq {"available", "unavailable"}
  /\ DOMAIN rooms \subseteq {Room} /\ \A r \in DOMAIN rooms : rooms[r] \in Peoples
  /\ tested \in [Tasks -> SUBSET (1 .. parsed)] /\ calls \in 0 .. scenario.calls

LEMMA Collections ==
  /\ Empty \in Tallies /\ Empty \in Peoples
  /\ \A c \in Tallies : \A x : Drop(c, x) \in Tallies
  /\ \A c \in Tallies, j \in FullJids : Put(c, j[2], "plain") \in Tallies
  /\ \A c \in Peoples : \A x : Drop(c, x) \in Peoples
  /\ \A c \in Peoples, x \in Nicks, own \in BOOLEAN : Put(c, x, own) \in Peoples
<1>1. Empty \in Tallies /\ Empty \in Peoples
  <2>1. Empty \in [{} -> {"plain"}] /\ Empty \in [{} -> BOOLEAN]
    BY DEF Empty
  <2>2. {} \in SUBSET {j[2] : j \in FullJids} /\ {} \in SUBSET Nicks
    OBVIOUS
  <2>3. /\ \A S \in SUBSET {j[2] : j \in FullJids} : [S -> {"plain"}] \subseteq Tallies
        /\ \A S \in SUBSET Nicks : [S -> BOOLEAN] \subseteq Peoples
    BY DEF Tallies, Peoples
  <2> QED
    BY <2>1, <2>2, <2>3, Zenon
<1>2. ASSUME NEW c \in Tallies
      PROVE  /\ \A x : Drop(c, x) \in Tallies
             /\ \A j \in FullJids : Put(c, j[2], "plain") \in Tallies
  <2>1. PICK S \in SUBSET {j[2] : j \in FullJids} : c \in [S -> {"plain"}]
    BY DEF Tallies
  <2>2. ASSUME NEW x PROVE Drop(c, x) \in Tallies
    <3>1. Drop(c, x) \in [S \ {x} -> {"plain"}] /\ S \ {x} \in SUBSET {j[2] : j \in FullJids}
      BY <2>1 DEF Drop
    <3> QED
      BY <3>1 DEF Tallies
  <2>3. ASSUME NEW j \in FullJids PROVE Put(c, j[2], "plain") \in Tallies
    <3>1. /\ Put(c, j[2], "plain") \in [{j[2]} \cup S -> {"plain"}]
          /\ {j[2]} \cup S \in SUBSET {k[2] : k \in FullJids}
      BY <2>1 DEF Put
    <3> QED
      BY <3>1 DEF Tallies
  <2> QED
    BY <2>2, <2>3
<1>3. ASSUME NEW c \in Peoples
      PROVE  /\ \A x : Drop(c, x) \in Peoples
             /\ \A x \in Nicks, own \in BOOLEAN : Put(c, x, own) \in Peoples
  <2>1. PICK S \in SUBSET Nicks : c \in [S -> BOOLEAN]
    BY DEF Peoples
  <2>2. ASSUME NEW x PROVE Drop(c, x) \in Peoples
    <3>1. Drop(c, x) \in [S \ {x} -> BOOLEAN] /\ S \ {x} \in SUBSET Nicks
      BY <2>1 DEF Drop
    <3> QED
      BY <3>1 DEF Peoples
  <2>3. ASSUME NEW x \in Nicks, NEW own \in BOOLEAN PROVE Put(c, x, own) \in Peoples
    <3>1. Put(c, x, own) \in [{x} \cup S -> BOOLEAN] /\ {x} \cup S \in SUBSET Nicks
      BY <2>1 DEF Put
    <3> QED
      BY <3>1 DEF Peoples
  <2> QED
    BY <2>2, <2>3
<1> QED
  BY <1>1, <1>2, <1>3

\* What the mixins leave in their caches.
LEMMA CachesKept ==
  ASSUME Fifo, Kept, NEW i \in 1 .. parsed, RunMixins(i)
  PROVE  Kept'
<1> DEFINE s == sent[i]
           b == s.from[1]
           r == s.from[2]
<1>1. /\ s \in Stanzas /\ PresenceOnStanza(s) /\ MucOnStanza(s)
      /\ UNCHANGED <<tested, parsed, calls, scenario>>
  BY MixinsStep DEF RunMixins, tasks
<1>2. CASE s.kind = "presence"
  <2>1. UNCHANGED rooms
    BY <1>1, <1>2 DEF MucOnStanza
  <2>2. /\ s.type \in {"available", "unavailable"} /\ s.show = "plain"
        /\ r # NoRes => s.from \in FullJids
    BY <1>1, <1>2, FullOnes
  <2>3. ownPresence' \subseteq {"available", "unavailable"}
    BY <1>1, <2>2 DEF PresenceOnStanza, Kept
  <2>4. Resources(cache, b) \in Tallies
    BY Collections DEF Resources, Kept
  <2>5. \A c \in DOMAIN cache' : cache'[c] \in Tallies
    <3>1. CASE r = NoRes
      BY <1>1, <3>1 DEF PresenceOnStanza, Kept
    <3>2. CASE r # NoRes /\ s.type = "available"
      <4>1. cache' = Put(cache, b, Put(Resources(cache, b), r, "plain"))
        BY <1>1, <1>2, <2>2, <3>2 DEF PresenceOnStanza, Available
      <4>2. Put(Resources(cache, b), r, "plain") \in Tallies
        BY <2>2, <2>4, <3>2, Collections
      <4> HIDE DEF b, r
      <4> QED
        BY <4>1, <4>2 DEF Put, Kept
    <3>3. CASE r # NoRes /\ s.type = "unavailable"
      <4>1. \/ cache' = Drop(cache, b)
            \/ cache' = Put(cache, b, Drop(Resources(cache, b), r))
        BY <1>1, <1>2, <2>2, <3>3 DEF PresenceOnStanza, Unavailable
      <4>2. Drop(Resources(cache, b), r) \in Tallies
        BY <2>4, Collections
      <4> HIDE DEF b, r
      <4>3. CASE cache' = Drop(cache, b)
        BY <4>3 DEF Drop, Kept
      <4>4. CASE cache' = Put(cache, b, Drop(Resources(cache, b), r))
        BY <4>2, <4>4 DEF Put, Kept
      <4> QED
        BY <4>1, <4>3, <4>4
    <3> QED
      BY <2>2, <3>1, <3>2, <3>3
  <2> QED
    BY <1>1, <2>1, <2>3, <2>5 DEF Kept
<1>3. CASE s.kind = "room"
  <2>1. UNCHANGED <<cache, ownPresence>>
    BY <1>1, <1>3 DEF PresenceOnStanza
  <2>2. b = Room /\ r \in Nicks /\ MarkedFirst(s) \in BOOLEAN
    BY <1>1, <1>3 DEF Stanzas, MarkedFirst
  <2>3. Occupants(Room) \in Peoples
    BY Collections DEF Occupants, Kept
  <2>4. DOMAIN rooms' \subseteq {Room} /\ \A c \in DOMAIN rooms' : rooms'[c] \in Peoples
    <3>1. \/ \E own \in BOOLEAN : rooms' = Put(rooms, Room, Put(Occupants(Room), r, own))
          \/ rooms' = Drop(rooms, Room)
          \/ rooms' = Put(rooms, Room, Drop(Occupants(Room), r))
      BY <1>1, <1>3, <2>2 DEF MucOnStanza
    <3>2. ASSUME NEW people \in Peoples, rooms' = Put(rooms, Room, people)
          PROVE  DOMAIN rooms' \subseteq {Room} /\ \A c \in DOMAIN rooms' : rooms'[c] \in Peoples
      BY <3>2 DEF Put, Kept
    <3>3. CASE rooms' = Drop(rooms, Room)
      BY <3>3 DEF Drop, Kept
    <3> HIDE DEF r
    <3> QED
      BY <2>2, <2>3, <3>1, <3>2, <3>3, Collections
  <2> QED
    BY <1>1, <2>1, <2>4 DEF Kept
<1>4. CASE s.kind \notin {"presence", "room"}
  BY <1>1, <1>4 DEF PresenceOnStanza, MucOnStanza, Kept
<1> QED
  BY <1>2, <1>3, <1>4

LEMMA KeptStep ==
  ASSUME Fifo, Kept, [Next]_vars
  PROVE  Kept'
<1>1. /\ Types /\ scenario.calls \in Nat /\ parsed \in Nat
  BY SessionAssumption DEF Fifo, Types
<1>2. CASE UNCHANGED <<cache, ownPresence, rooms, tested, parsed, calls, scenario>>
  BY <1>2 DEF Kept
<1>3. CASE Server
  BY <1>1, <1>2, <1>3, ServerGrows DEF client, loop, data, tasks
<1>4. ASSUME NEW i \in 1 .. parsed, RunMixins(i) PROVE Kept'
  BY <1>4, CachesKept
<1>5. CASE UNCHANGED vars
  BY <1>2, <1>5 DEF vars, tasks, loop, data
<1>6. CASE ParserSleeps
  BY <1>2, <1>6 DEF ParserSleeps, tasks, data
<1>7. CASE ParseNext
  <2>1. /\ parsed' = parsed + 1 /\ UNCHANGED <<cache, ownPresence, rooms, calls, scenario>>
        /\ tested' = [t \in Tasks |->
                        IF t \in waiting THEN tested[t] \cup {parsed + 1} ELSE tested[t]]
    BY <1>7 DEF ParseNext, data
  <2>2. \A t \in Tasks : tested'[t] \in SUBSET (1 .. parsed + 1)
    BY <1>1, <2>1 DEF Kept
  <2> QED
    BY <2>1, <2>2 DEF Kept
<1>8. ASSUME NEW t \in Tasks, Match(t) \/ Release(t) PROVE Kept'
  BY <1>2, <1>8 DEF Match, Complete, Release, tasks, data
<1>9. ASSUME NEW t \in Tasks, NEW op, NEW requests, Await(t, op, requests)
      PROVE  tested' \in [Tasks -> SUBSET (1 .. parsed)]
  <2> DEFINE fresh == Queued \ tested[t]
  <2>1. fresh \subseteq 1 .. parsed
    BY DEF Queued
  <2>2. \E seen \in SUBSET fresh : tested' = [tested EXCEPT ![t] = @ \cup seen]
    <3> DEFINE hits == {i \in fresh : Wants(op, t, sent[i])}
    <3>1. \/ tested' = [tested EXCEPT ![t] = @ \cup fresh]
          \/ tested' = [tested EXCEPT ![t] = @ \cup {i \in fresh : i <= Min(hits)}]
      BY <1>9 DEF Await
    <3> HIDE DEF fresh, hits
    <3> QED
      BY <3>1
  <2> HIDE DEF fresh
  <2> QED
    BY <2>1, <2>2 DEF Kept
<1>10. ASSUME NEW t \in Tasks, NEW how \in {"wake", "found"}, Resume(t, how) PROVE Kept'
  <2>1. /\ UNCHANGED <<cache, ownPresence, rooms, parsed, calls, scenario>>
        /\ \/ UNCHANGED tested
           \/ \E op, requests : Await(t, op, requests)
    BY <1>10 DEF Resume, GotRoster, Entered, Configures, Returns, Finish
  <2>2. tested' \in [Tasks -> SUBSET (1 .. parsed)]
    BY <1>9, <2>1 DEF Kept
  <2> QED
    BY <2>1, <2>2 DEF Kept
<1>11. ASSUME NEW t \in Tasks, NEW op, Call(t, op) PROVE Kept'
  <2>1. /\ UNCHANGED <<cache, ownPresence, rooms, parsed, calls, scenario>>
        /\ Await(t, op, Request(t, op))
    BY <1>11 DEF Call, data
  <2> QED
    BY <1>9, <2>1 DEF Kept
<1>12. ASSUME NEW t \in Tasks, NEW op, Due(t, op) PROVE Kept'
  <2>1. /\ UNCHANGED <<cache, ownPresence, rooms, parsed, tested, scenario>>
        /\ calls < scenario.calls /\ calls' = calls + 1
    BY <1>12 DEF Due, data
  <2> QED
    BY <1>1, <2>1 DEF Kept
<1> QED
  BY <1>3, <1>4, <1>5, <1>6, <1>7, <1>8, <1>10, <1>11, <1>12 DEF Next, Client

\* Every variable has its type; the mixins have seen no more than was parsed,
\* and the parser no more than was sent.
THEOREM SessionTypeOK == Spec => []TypeOK
<1>1. Init => Kept
  BY SessionAssumption DEF Init, PresenceInit, MucInit, Empty, Kept
<1>2. Fifo /\ Kept /\ [Next]_vars => Kept'
  BY KeptStep
<1>3. Fifo /\ RosterPublished /\ Asking /\ RosterFollowed /\ [Next]_vars
      => RosterPublished' /\ Asking' /\ RosterFollowed'
  BY RosterPublishedStep, AskingStep, RosterFollowedStep
<1>4. Fifo /\ RosterPublished /\ RosterFollowed /\ Kept => TypeOK
  <2> SUFFICES ASSUME Fifo, RosterPublished, RosterFollowed, Kept PROVE TypeOK
    OBVIOUS
  <2>1. Types /\ RosterReached \in 1 .. Len(rosterLog) /\ Len(rosterLog) \in Nat
    BY ReachedVersion DEF Fifo
  <2>2. rosterSeen \in 0 .. Len(rosterLog) /\ roster \in Versions
    <3>1. CASE Connected
      <4>1. rosterSeen = RosterReached /\ roster = rosterLog[RosterReached]
        BY <3>1 DEF RosterFollowed
      <4> QED
        BY <2>1, <4>1, ElementOfSeq DEF Types
    <3>2. CASE ~Connected
      <4>1. Empty \in [{} -> {"none", "both", "remove"}] /\ {} \in SUBSET Contacts
        BY DEF Empty
      <4> QED
        BY <2>1, <3>2, <4>1 DEF RosterFollowed, Versions
    <3> QED
      BY <3>1, <3>2
  <2> QED
    BY <2>1, <2>2 DEF Types, Kept, TypeOK, Versions, Tallies, Peoples, Nicks, Awaited, Ops
<1> QED
  BY <1>1, <1>2, <1>3, <1>4, RosterInitially, FifoInductive, PTL DEF Spec

-----------------------------------------------------------------------------
(* The order of presences, Presence.__lt__() and __gt__(), which stanzas.py *)
(* writes separately, and the answers of the acknowledging mixins.         *)
Presences == [priority : Int, show : Shows]

LEMMA Ranks ==
  /\ \A s \in Shows : Rank(s) \in 1..5 /\ OrderedShows[Rank(s)] = s
  /\ \A s, t \in Shows : Rank(s) = Rank(t) => s = t
<1>1. \A s \in Shows : \E i \in 1..5 : OrderedShows[i] = s
  <2>1. /\ OrderedShows[1] = "chat" /\ OrderedShows[2] = "plain" /\ OrderedShows[3] = "away"
        /\ OrderedShows[4] = "xa" /\ OrderedShows[5] = "dnd"
    BY DEF OrderedShows
  <2>2. 1 \in 1..5 /\ 2 \in 1..5 /\ 3 \in 1..5 /\ 4 \in 1..5 /\ 5 \in 1..5
    OBVIOUS
  <2> QED
    BY <2>1, <2>2 DEF Shows
<1>2. \A s \in Shows : Rank(s) \in 1..5 /\ OrderedShows[Rank(s)] = s
  BY <1>1 DEF Rank
<1> QED
  BY <1>2

\* Presences are ordered by priority and then by show; no presence is below
\* itself, and those that are not told apart are equal in both.
THEOREM BelowIsStrict ==
  ASSUME NEW p \in Presences, NEW q \in Presences, NEW r \in Presences
  PROVE  /\ ~Below(p, p)
         /\ Below(p, q) /\ Below(q, r) => Below(p, r)
         /\ Below(p, q) \/ Below(q, p) \/ p = q
<1>1. /\ p.priority \in Int /\ q.priority \in Int /\ r.priority \in Int
      /\ p.show \in Shows /\ q.show \in Shows /\ r.show \in Shows
      /\ (p.priority = q.priority /\ p.show = q.show) => p = q
  BY DEF Presences
<1>2. Rank(p.show) \in Int /\ Rank(q.show) \in Int /\ Rank(r.show) \in Int
  BY <1>1, Ranks
<1>3. Rank(p.show) = Rank(q.show) => p.show = q.show
  BY <1>1, Ranks
<1> QED
  BY <1>1, <1>2, <1>3 DEF Below

\* What is above something has that below it, although __gt__() is not written
\* as the converse of __lt__().
THEOREM AboveIsConverse ==
  ASSUME NEW p \in Presences, NEW q \in Presences
  PROVE  Above(p, q) <=> Below(q, p)
<1>1. /\ Below(p, q) \/ Below(q, p) \/ p = q
      /\ ~Below(p, p) /\ ~(Below(p, q) /\ Below(q, p))
  BY BelowIsStrict
<1>2. p = q <=> (p.priority = q.priority /\ p.show = q.show)
  BY DEF Presences
<1> QED
  BY <1>1, <1>2 DEF Above

\* No answer of an acknowledging mixin is one that the other side's mixin would
\* not answer; two of the same kind repeat themselves.
THEOREM AnswersGoOn ==
  /\ AckReply \in [S10n -> S10n] /\ DenyReply \in [S10n -> S10n]
  /\ \A t \in S10n : AckReply[AckReply[t]] = t /\ DenyReply[DenyReply[t]] = t
BY DEF AckReply, DenyReply, S10n
=============================================================================
