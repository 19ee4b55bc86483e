------------------------------ MODULE JidProofs ------------------------------
(***************************************************************************)
(* What jid.py promises of its strings, for all characters and profiles.   *)
(***************************************************************************)
EXTENDS Jid, SequenceTheorems, WellFoundedInduction, TLAPS

\* The first place of a character is the one str.find() returns.
LEMMA FindFirst ==
  ASSUME NEW s \in Seq(Char), NEW c, NEW n \in 1..Len(s), s[n] = c,
         \A i \in 1 .. n - 1 : s[i] # c
  PROVE  Find(s, c) = n
<1> DEFINE First(i) == s[i] = c /\ \A k \in 1 .. i - 1 : s[k] # c
<1>1. \A i \in 1..Len(s) : First(i) => i = n
  OBVIOUS
<1>2. First(n)
  OBVIOUS
<1>3. (CHOOSE i \in 1..Len(s) : First(i)) = n
  BY <1>1, <1>2
<1> QED
  BY <1>3 DEF Find

LEMMA FindNowhere ==
  ASSUME NEW s \in Seq(Char), NEW c, \A i \in 1..Len(s) : s[i] # c
  PROVE  Find(s, c) = 0
BY DEF Find

\* A part of a string is known by its characters.
LEMMA PartIs ==
  ASSUME NEW s \in Seq(Char), NEW t \in Seq(Char), NEW m \in Nat,
         m + Len(t) <= Len(s),
         \A i \in 1..Len(t) : s[m + i] = t[i]
  PROVE  SubSeq(s, m + 1, m + Len(t)) = t
<1>1. SubSeq(s, m + 1, m + Len(t)) \in Seq(Char) /\ Len(SubSeq(s, m + 1, m + Len(t))) = Len(t)
  BY SubSeqProperties
<1>2. \A i \in 1..Len(t) : SubSeq(s, m + 1, m + Len(t))[i] = t[i]
  BY SubSeqProperties
<1> QED
  BY <1>1, <1>2, SeqEqual

LEMMA FindIs ==
  ASSUME NEW s \in Seq(Char), NEW c
  PROVE  Find(s, c) = 0 \/ (Find(s, c) \in 1..Len(s) /\ s[Find(s, c)] = c)
<1> DEFINE Places == {i \in 1..Len(s) : s[i] = c}
<1>1. CASE \A i \in 1..Len(s) : s[i] # c
  BY <1>1 DEF Find
<1>2. CASE \E i \in 1..Len(s) : s[i] = c
  <2>1. PICK n \in Places : \A m \in Places : n <= m
    <3>1. Places \subseteq Nat /\ Places # {}
      BY <1>2
    <3>2. PICK n \in Places : \A m \in Places : ~ (<<m, n>> \in OpToRel(<, Nat))
      BY <3>1, NatLessThanWellFounded, WFMin
    <3>3. \A m \in Nat : m < n => <<m, n>> \in OpToRel(<, Nat)
      BY <3>1 DEF OpToRel
    <3>4. \A m \in Places : m \in Nat /\ ~ (m < n)
      <4> HIDE DEF Places
      <4> QED
        BY <3>1, <3>2, <3>3
    <3>5. n \in Nat
      BY <3>1
    <3>6. \A m \in Places : n <= m
      <4> HIDE DEF Places
      <4> QED
        BY <3>4, <3>5
    <3> QED
      BY <3>6
  <2>2. s[n] = c /\ \A i \in 1 .. n - 1 : s[i] # c
    BY <2>1
  <2>3. Find(s, c) = n
    BY <2>1, <2>2, FindFirst
  <2> QED
    BY <2>1, <2>3
<1> QED
  BY <1>1, <1>2

\* Where the characters of two strings are in the string they make.
LEMMA Joined ==
  ASSUME NEW s \in Seq(Char), NEW t \in Seq(Char)
  PROVE  /\ Len(s) \in Nat /\ Len(t) \in Nat
         /\ s \o t \in Seq(Char) /\ Len(s \o t) = Len(s) + Len(t)
         /\ \A i \in 1 .. Len(s) : (s \o t)[i] = s[i]
         /\ \A i \in 1 .. Len(t) : (s \o t)[Len(s) + i] = t[i]
<1>1. /\ Len(s) \in Nat /\ Len(t) \in Nat
      /\ s \o t \in Seq(Char) /\ Len(s \o t) = Len(s) + Len(t)
      /\ \A i \in 1 .. Len(s) + Len(t) :
           (s \o t)[i] = IF i <= Len(s) THEN s[i] ELSE t[i - Len(s)]
  BY ConcatProperties, LenProperties
<1>2. \A i \in 1 .. Len(s) : i \in 1 .. Len(s) + Len(t) /\ i <= Len(s)
  BY <1>1
<1>3. \A i \in 1 .. Len(t) : /\ Len(s) + i \in 1 .. Len(s) + Len(t)
                             /\ ~ (Len(s) + i <= Len(s)) /\ (Len(s) + i) - Len(s) = i
  BY <1>1
<1> QED
  BY <1>1, <1>2, <1>3

LEMMA PartsSplit ==
  ASSUME At \in Char, Slash \in Char, At # Slash,
         NEW user \in Without({At, Slash}), NEW host \in Without({At, Slash}),
         NEW resource \in Seq(Char)
  PROVE  LET j == [user |-> user, host |-> host, resource |-> resource]
         IN  Full(j) \in Seq(Char) /\ Split(Full(j)) = j
<1> DEFINE j == [user |-> user, host |-> host, resource |-> resource]
           before == IF user # None THEN user \o <<At>> ELSE None
           after == IF resource # None THEN <<Slash>> \o resource ELSE None
           b == Bare(j)
           f == Full(j)
           u == Len(before)
<1>0. /\ user \in Seq(Char) /\ \A i \in 1..Len(user) : user[i] # At /\ user[i] # Slash
      /\ host \in Seq(Char) /\ \A i \in 1..Len(host) : host[i] # At /\ host[i] # Slash
      /\ resource \in Seq(Char)
  BY DEF Without
<1>1. /\ <<At>> \in Seq(Char) /\ Len(<<At>>) = 1 /\ <<At>>[1] = At
      /\ <<Slash>> \in Seq(Char) /\ Len(<<Slash>>) = 1 /\ <<Slash>>[1] = Slash
      /\ None \in Seq(Char) /\ Len(None) = 0
  BY DEF None
<1>2. /\ before \in Seq(Char) /\ u \in Nat
      /\ user = None => u = 0
      /\ user # None => u = Len(user) + 1 /\ before[u] = At
      /\ \A i \in 1 .. u : before[i] # Slash
      /\ \A i \in 1 .. u - 1 : before[i] = user[i] /\ before[i] # At
  <2>1. CASE user = None
    BY <1>1, <2>1
  <2>2. CASE user # None
    <3>1. before = user \o <<At>>
      BY <2>2
    <3>2. /\ before \in Seq(Char) /\ u = Len(user) + 1 /\ Len(user) \in Nat
          /\ \A i \in 1 .. Len(user) : before[i] = user[i]
          /\ before[Len(user) + 1] = At
      BY <1>0, <1>1, <3>1, Joined
    <3> QED
      BY <1>0, <2>2, <3>2
  <2> QED
    BY <2>1, <2>2
<1>3. /\ after \in Seq(Char)
      /\ resource = None => Len(after) = 0
      /\ resource # None => Len(after) = Len(resource) + 1 /\ after[1] = Slash
      /\ \A i \in 1 .. Len(after) - 1 : after[1 + i] = resource[i]
  <2>1. CASE resource = None
    BY <1>1, <2>1
  <2>2. CASE resource # None
    <3>1. after = <<Slash>> \o resource
      BY <2>2
    <3> QED
      BY <1>0, <1>1, <2>2, <3>1, Joined
  <2> QED
    BY <2>1, <2>2
<1>4. /\ b = before \o host /\ f = b \o after
      /\ b \in Seq(Char) /\ f \in Seq(Char) /\ Len(host) \in Nat /\ Len(after) \in Nat
      /\ Len(b) = u + Len(host) /\ Len(f) = Len(b) + Len(after)
      /\ \A i \in 1 .. Len(b) : f[i] = b[i]
      /\ \A i \in 1 .. u : f[i] = before[i]
      /\ \A i \in 1 .. Len(host) : f[u + i] = host[i]
      /\ \A i \in 1 .. Len(after) : f[Len(b) + i] = after[i]
  <2>1. b = before \o host /\ f = b \o after
    BY DEF Bare, Full, j
  <2> HIDE DEF before, after, b, f
  <2>2. /\ b \in Seq(Char) /\ Len(b) = u + Len(host) /\ Len(host) \in Nat
        /\ \A i \in 1 .. u : b[i] = before[i]
        /\ \A i \in 1 .. Len(host) : b[u + i] = host[i]
    BY <1>0, <1>2, <2>1, Joined
  <2>3. /\ f \in Seq(Char) /\ Len(f) = Len(b) + Len(after) /\ Len(after) \in Nat
        /\ \A i \in 1 .. Len(b) : f[i] = b[i]
        /\ \A i \in 1 .. Len(after) : f[Len(b) + i] = after[i]
    BY <1>3, <2>1, <2>2, Joined
  <2>4. \A i \in 1 .. u : i \in 1 .. Len(b)
    BY <1>2, <2>2
  <2>5. \A i \in 1 .. Len(host) : u + i \in 1 .. Len(b)
    BY <1>2, <2>2
  <2> QED
    BY <2>1, <2>2, <2>3, <2>4, <2>5
<1> HIDE DEF j, before, after, b, f, u
<1>n. /\ u \in Nat /\ Len(b) \in Nat /\ Len(f) \in Nat /\ Len(host) \in Nat
      /\ Len(b) = u + Len(host) /\ u <= Len(b) /\ Len(b) <= Len(f)
      /\ user = None => u = 0
      /\ user # None => u = Len(user) + 1 /\ Len(user) \in Nat
      /\ resource = None => Len(f) = Len(b)
      /\ resource # None => /\ Len(f) = Len(b) + 1 + Len(resource)
                             /\ Len(after) = Len(resource) + 1
                             /\ Len(resource) \in Nat
  <2>1. Len(user) \in Nat /\ Len(resource) \in Nat
    BY <1>0, LenProperties
  <2>2. u \in Nat /\ Len(after) \in Nat /\ Len(host) \in Nat
    BY <1>2, <1>4
  <2>3. Len(b) = u + Len(host) /\ Len(f) = Len(b) + Len(after)
    BY <1>4
  <2>4. Len(b) \in Nat /\ Len(f) \in Nat /\ u <= Len(b) /\ Len(b) <= Len(f)
    BY <2>2, <2>3
  <2>5. /\ user = None => u = 0
        /\ user # None => u = Len(user) + 1
        /\ resource = None => Len(after) = 0
        /\ resource # None => Len(after) = Len(resource) + 1
    BY <1>2, <1>3
  <2> QED
    BY <2>1, <2>2, <2>3, <2>4, <2>5
<1>f. f \in Seq(Char)
  BY <1>4
<1>5. \A i \in 1 .. Len(b) : f[i] # Slash
  <2> SUFFICES ASSUME NEW i \in 1 .. Len(b) PROVE f[i] # Slash
    OBVIOUS
  <2>1. CASE i \in 1 .. u
    BY <1>2, <1>4, <2>1
  <2>2. CASE i \notin 1 .. u
    <3>1. i - u \in 1 .. Len(host) /\ u + (i - u) = i
      BY <1>n, <2>2
    <3>2. f[u + (i - u)] = host[i - u]
      BY <1>4, <3>1
    <3> QED
      BY <1>0, <3>1, <3>2
  <2> QED
    BY <2>1, <2>2
<1>6. Find(f, Slash) = IF resource = None THEN 0 ELSE Len(b) + 1
  <2>1. CASE resource = None
    <3>1. \A i \in 1 .. Len(f) : f[i] # Slash
      BY <1>n, <1>5, <2>1
    <3> QED
      BY <1>f, <2>1, <3>1, FindNowhere
  <2>2. CASE resource # None
    <3>1. Len(b) + 1 \in 1 .. Len(f) /\ (Len(b) + 1) - 1 = Len(b) /\ 1 \in 1 .. Len(after)
      BY <1>n, <2>2
    <3>2. f[Len(b) + 1] = Slash
      BY <1>3, <1>4, <2>2, <3>1
    <3>3. \A i \in 1 .. (Len(b) + 1) - 1 : f[i] # Slash
      BY <1>5, <3>1
    <3>4. Find(f, Slash) = Len(b) + 1
      BY <1>f, <3>1, <3>2, <3>3, FindFirst
    <3> QED
      BY <2>2, <3>4
  <2> QED
    BY <2>1, <2>2
<1>7. user # None => Find(f, At) = u
  <2>1. SUFFICES ASSUME user # None PROVE Find(f, At) = u
    OBVIOUS
  <2>2. u \in 1 .. u /\ u \in 1 .. Len(f) /\ \A i \in 1 .. u - 1 : i \in 1 .. u
    BY <1>n, <2>1
  <2>3. f[u] = At /\ \A i \in 1 .. u - 1 : f[i] # At
    BY <1>2, <1>4, <2>1, <2>2
  <2> QED
    BY <1>f, <2>2, <2>3, FindFirst
<1>8. user = None => Find(f, At) = 0 \/ Find(f, At) > Len(b)
  <2>1. SUFFICES ASSUME user = None PROVE Find(f, At) = 0 \/ Find(f, At) > Len(b)
    OBVIOUS
  <2>2. \A i \in 1 .. Len(b) : i \in 1 .. Len(host) /\ u + i = i
    BY <1>n, <2>1
  <2>3. \A i \in 1 .. Len(b) : f[i] # At
    <3> SUFFICES ASSUME NEW i \in 1 .. Len(b) PROVE f[i] # At
      OBVIOUS
    <3>1. i \in 1 .. Len(host) /\ f[u + i] = host[i]
      BY <1>4, <2>2
    <3> QED
      BY <1>0, <2>2, <3>1
  <2>4. Find(f, At) = 0 \/ (Find(f, At) \in 1 .. Len(f) /\ f[Find(f, At)] = At)
    BY <1>f, FindIs
  <2>5. ~ (Find(f, At) \in 1 .. Len(b) /\ f[Find(f, At)] = At)
    BY <2>3
  <2> QED
    BY <1>n, <2>4, <2>5
<1> DEFINE at == Find(f, At)
           slash == Find(f, Slash)
           userEnd == IF at # 0 /\ (slash = 0 \/ at < slash) THEN at ELSE 0
           hostEnd == IF slash # 0 THEN slash ELSE Len(f) + 1
<1>9. userEnd = u /\ hostEnd = Len(b) + 1
  <2>1. at \in Nat
    <3>1. at = 0 \/ at \in 1 .. Len(f)
      BY <1>f, FindIs
    <3> QED
      BY <1>n, <3>1
  <2> HIDE DEF at, slash
  <2>2. slash = IF resource = None THEN 0 ELSE Len(b) + 1
    BY <1>6 DEF slash
  <2>3. CASE user = None
    <3>1. at = 0 \/ at > Len(b)
      BY <1>8, <2>3 DEF at
    <3>2. resource = None => at = 0
      <4>1. at = 0 \/ at \in 1 .. Len(f)
        BY <1>f, FindIs DEF at
      <4> QED
        BY <1>n, <2>1, <3>1, <4>1
    <3> QED
      BY <1>n, <2>1, <2>2, <2>3, <3>1, <3>2
  <2>4. CASE user # None
    <3>1. at = u
      BY <1>7, <2>4 DEF at
    <3> QED
      BY <1>n, <2>2, <2>4, <3>1
  <2> QED
    BY <2>3, <2>4
<1>10. SubSeq(f, 1, u - 1) = user
  <2>1. CASE user = None
    BY <1>n, <2>1, SubSeqEmpty DEF None
  <2>2. CASE user # None
    <3>1. /\ Len(user) \in Nat /\ 0 + Len(user) = u - 1 /\ 0 + Len(user) <= Len(f)
          /\ 0 + 1 = 1
      BY <1>n, <2>2
    <3>2. \A i \in 1 .. Len(user) : i \in 1 .. u - 1 /\ i \in 1 .. u /\ 0 + i = i
      BY <1>n, <2>2
    <3>3. \A i \in 1 .. Len(user) : f[0 + i] = user[i]
      BY <1>2, <1>4, <3>2
    <3>4. SubSeq(f, 0 + 1, 0 + Len(user)) = user
      BY <1>0, <1>f, <3>1, <3>3, PartIs
    <3> QED
      BY <3>1, <3>4
  <2> QED
    BY <2>1, <2>2
<1>11. SubSeq(f, u + 1, Len(b)) = host
  <2>1. \A i \in 1 .. Len(host) : f[u + i] = host[i]
    BY <1>4
  <2>2. u + Len(host) <= Len(f) /\ u \in Nat /\ host \in Seq(Char)
    BY <1>0, <1>n
  <2>3. SubSeq(f, u + 1, u + Len(host)) = host
    BY <1>f, <2>1, <2>2, PartIs
  <2> QED
    BY <1>n, <2>3
<1>12. SubSeq(f, Len(b) + 2, Len(f)) = resource
  <2>1. CASE resource = None
    BY <1>n, <2>1, SubSeqEmpty DEF None
  <2>2. CASE resource # None
    <3>1. /\ Len(resource) \in Nat /\ Len(b) + 1 \in Nat
          /\ (Len(b) + 1) + Len(resource) = Len(f) /\ (Len(b) + 1) + 1 = Len(b) + 2
      BY <1>n, <2>2
    <3>2. \A i \in 1 .. Len(resource) : f[(Len(b) + 1) + i] = resource[i]
      <4> SUFFICES ASSUME NEW i \in 1 .. Len(resource)
                   PROVE  f[(Len(b) + 1) + i] = resource[i]
        OBVIOUS
      <4>1. /\ 1 + i \in 1 .. Len(after) /\ i \in 1 .. Len(after) - 1
            /\ (Len(b) + 1) + i = Len(b) + (1 + i)
        BY <1>n, <2>2
      <4> QED
        BY <1>3, <1>4, <4>1
    <3>3. (Len(b) + 1) + Len(resource) <= Len(f)
      BY <1>n, <3>1
    <3>4. SubSeq(f, (Len(b) + 1) + 1, (Len(b) + 1) + Len(resource)) = resource
      BY <1>0, <1>f, <3>1, <3>2, <3>3, PartIs
    <3> QED
      BY <3>1, <3>4
  <2> QED
    BY <2>1, <2>2
<1>13. Split(f) = [user |-> SubSeq(f, 1, userEnd - 1), host |-> SubSeq(f, userEnd + 1, hostEnd - 1),
                   resource |-> SubSeq(f, hostEnd + 1, Len(f))]
  BY DEF Split
<1>14. Split(f) = j
  <2> HIDE DEF userEnd, hostEnd
  <2>1. hostEnd - 1 = Len(b) /\ hostEnd + 1 = Len(b) + 2
    BY <1>n, <1>9
  <2> QED
    BY <1>9, <1>10, <1>11, <1>12, <1>13, <2>1 DEF j
<1> QED
  BY <1>4, <1>14 DEF f, j

\* The parts of a JID are read back from its string, whatever its resource holds.
THEOREM FullSplits ==
  ASSUME At \in Char, Slash \in Char, At # Slash, NEW j \in Parts
  PROVE  Full(j) \in Seq(Char) /\ Split(Full(j)) = j
BY PartsSplit DEF Parts

LEMMA SplitType ==
  ASSUME NEW s \in Seq(Char)
  PROVE  Split(s) \in [user : Seq(Char), host : Seq(Char), resource : Seq(Char)]
<1>1. \A m, n \in Int : (m >= 1 /\ n <= Len(s)) => SubSeq(s, m, n) \in Seq(Char)
  <2> SUFFICES ASSUME NEW m \in Int, NEW n \in Int, m >= 1, n <= Len(s)
               PROVE  SubSeq(s, m, n) \in Seq(Char)
    OBVIOUS
  <2>1. Len(s) \in Nat /\ \A i \in 1 .. Len(s) : s[i] \in Char
    BY LenProperties, ElementOfSeq
  <2>2. \A i \in m .. n : i \in 1 .. Len(s)
    BY <2>1
  <2> QED
    BY <2>1, <2>2, SubSeqProperties
<1> DEFINE at == Find(s, At)
           slash == Find(s, Slash)
           userEnd == IF at # 0 /\ (slash = 0 \/ at < slash) THEN at ELSE 0
           hostEnd == IF slash # 0 THEN slash ELSE Len(s) + 1
<1>2. Len(s) \in Nat /\ at \in 0 .. Len(s) /\ slash \in 0 .. Len(s)
  <2>1. Len(s) \in Nat
    BY LenProperties
  <2>2. (at = 0 \/ at \in 1 .. Len(s)) /\ (slash = 0 \/ slash \in 1 .. Len(s))
    BY FindIs
  <2> QED
    BY <2>1, <2>2
<1>3. userEnd \in 0 .. Len(s) /\ hostEnd \in 1 .. Len(s) + 1
  <2> HIDE DEF at, slash
  <2> QED
    BY <1>2
<1>4. Split(s) = [user |-> SubSeq(s, 1, userEnd - 1), host |-> SubSeq(s, userEnd + 1, hostEnd - 1),
                  resource |-> SubSeq(s, hostEnd + 1, Len(s))]
  BY DEF Split
<1> HIDE DEF userEnd, hostEnd
<1>5. /\ SubSeq(s, 1, userEnd - 1) \in Seq(Char)
      /\ SubSeq(s, userEnd + 1, hostEnd - 1) \in Seq(Char)
      /\ SubSeq(s, hostEnd + 1, Len(s)) \in Seq(Char)
  BY <1>1, <1>2, <1>3
<1> QED
  BY <1>4, <1>5

\* What the profiles have prepared is a JID, and they leave it alone.
LEMMA PrepStable ==
  ASSUME Stable, NEW p \in [user : Seq(Char), host : Seq(Char), resource : Seq(Char)],
         Prep(p) # Refused
  PROVE  Prep(p) \in Parts /\ Prep(Prep(p)) = Prep(p)
<1> DEFINE user(q) == IF q.user # None THEN Node(q.user) ELSE None
           host(q) == Name(q.host)
           resource(q) == IF q.resource # None THEN Res(q.resource) ELSE None
           r == Prep(p)
<1>1. /\ Refused \notin {user(p), host(p), resource(p)}
      /\ r = [user |-> user(p), host |-> host(p), resource |-> resource(p)]
  BY DEF Prep
<1>2. p.user \in Seq(Char) /\ p.host \in Seq(Char) /\ p.resource \in Seq(Char)
  OBVIOUS
<1>3. user(p) \in Without({At, Slash}) /\ user(r) = user(p)
  <2>1. CASE p.user = None
    <3>1. user(p) = None /\ r.user = None
      BY <1>1, <2>1
    <3>2. None \in Without({At, Slash})
      BY EmptySeq DEF None, Without
    <3> QED
      BY <3>1, <3>2
  <2>2. CASE p.user # None
    <3>1. user(p) = Node(p.user) /\ r.user = Node(p.user) /\ Node(p.user) # Refused
      BY <1>1, <2>2
    <3> QED
      BY <1>2, <3>1 DEF Stable
  <2> QED
    BY <2>1, <2>2
<1>4. /\ host(p) \in Without({At, Slash}) \ {None} /\ r.host = host(p)
      /\ host(r) = host(p)
  <2>1. host(p) = Name(p.host) /\ r.host = Name(p.host) /\ Name(p.host) # Refused
    BY <1>1
  <2> QED
    BY <1>2, <2>1 DEF Stable
<1>5. resource(p) \in Seq(Char) /\ resource(r) = resource(p)
  <2>1. CASE p.resource = None
    <3>1. resource(p) = None /\ r.resource = None
      BY <1>1, <2>1
    <3>2. None \in Seq(Char)
      BY EmptySeq DEF None
    <3> QED
      BY <3>1, <3>2
  <2>2. CASE p.resource # None
    <3>1. resource(p) = Res(p.resource) /\ r.resource = Res(p.resource) /\ Res(p.resource) # Refused
      BY <1>1, <2>2
    <3> QED
      BY <1>2, <3>1 DEF Stable
  <2> QED
    BY <2>1, <2>2
<1>6. r \in Parts
  BY <1>1, <1>3, <1>4, <1>5 DEF Parts
<1>7. Prep(r) = IF r.host = None \/ Refused \in {user(r), host(r), resource(r)} THEN Refused
                ELSE [user |-> user(r), host |-> host(r), resource |-> resource(r)]
  BY DEF Prep
<1>8. Prep(r) = r
  <2> HIDE DEF user, host, resource, r
  <2> QED
    BY <1>1, <1>3, <1>4, <1>5, <1>7
<1> QED
  BY <1>6, <1>8

\* A JID's string parses to that JID.
THEOREM ParseIsStable ==
  ASSUME Stable, NEW s \in Seq(Char), Parse(s) # Refused
  PROVE  /\ Parse(s) \in Parts /\ Full(Parse(s)) \in Seq(Char)
         /\ Parse(Full(Parse(s))) = Parse(s)
<1>1. Parse(s) \in Parts /\ Prep(Parse(s)) = Parse(s)
  BY SplitType, PrepStable DEF Parse
<1>2. Full(Parse(s)) \in Seq(Char) /\ Split(Full(Parse(s))) = Parse(s)
  BY <1>1, FullSplits DEF Stable
<1>3. Parse(Full(Parse(s))) = Prep(Split(Full(Parse(s))))
  BY DEF Parse
<1> QED
  BY <1>1, <1>2, <1>3

\* Every interned JID is filed under a string that parses to it.
Filed ==
  \A t \in DOMAIN interned : t \in Seq(Char) /\ Parse(t) # Refused /\ interned[t] = Parse(t)

LEMMA FiledStep ==
  ASSUME Stable, Filed, [Next]_interned
  PROVE  Filed'
<1>1. CASE UNCHANGED interned
  BY <1>1 DEF Filed
<1>2. ASSUME NEW s \in Seq(Char), InternJid(s)
      PROVE  Filed'
  <2>1. CASE s \in DOMAIN interned \/ Parse(s) = Refused
    BY <1>2, <2>1 DEF InternJid, Filed
  <2>2. CASE s \notin DOMAIN interned /\ Parse(s) # Refused
    <3> DEFINE key == Full(Parse(s))
    <3>1. key \in Seq(Char) /\ Parse(key) = Parse(s)
      BY <2>2, ParseIsStable
    <3>2. interned' = [t \in DOMAIN interned \cup {key} |->
                         IF t \in DOMAIN interned THEN interned[t] ELSE Parse(s)]
      BY <1>2, <2>2 DEF InternJid
    <3> HIDE DEF key
    <3>3. DOMAIN interned' = DOMAIN interned \cup {key}
      BY <3>2
    <3>4. SUFFICES ASSUME NEW t \in DOMAIN interned'
                   PROVE  t \in Seq(Char) /\ Parse(t) # Refused /\ interned'[t] = Parse(t)
      BY DEF Filed
    <3>5. interned'[t] = IF t \in DOMAIN interned THEN interned[t] ELSE Parse(s)
      BY <3>2, <3>3
    <3>6. CASE t \in DOMAIN interned
      BY <3>5, <3>6 DEF Filed
    <3>7. CASE t \notin DOMAIN interned
      BY <2>2, <3>1, <3>3, <3>5, <3>7
    <3> QED
      BY <3>6, <3>7
  <2> QED
    BY <2>1, <2>2
<1> QED
  BY <1>1, <1>2 DEF Next

\* internJid() answers with what parsing the string would give, whichever JIDs
\* were interned before and in whatever spelling.
THEOREM InternParses ==
  ASSUME Stable
  PROVE  Spec => []InternIsParse
<1>1. Init => Filed
  BY DEF Init, Filed
<1>2. Filed /\ [Next]_interned => Filed'
  BY FiledStep
<1>3. Filed => InternIsParse
  <2> SUFFICES ASSUME Filed, NEW s \in Seq(Char)
               PROVE  Intern(s) = Parse(s)
    BY DEF InternIsParse
  <2>1. CASE s \in DOMAIN interned
    BY <2>1 DEF Intern, Filed
  <2>2. CASE s \notin DOMAIN interned
    <3>1. Parse(s) # Refused => Parse(Full(Parse(s))) = Parse(s)
      BY ParseIsStable
    <3> QED
      BY <2>2, <3>1 DEF Intern, Filed
  <2> QED
    BY <2>1, <2>2
<1> QED
  BY <1>1, <1>2, <1>3, PTL DEF Spec

\* bare_jid has the JID's user and host, and is what its own string parses to.
THEOREM BareKeepsParts ==
  ASSUME Stable, InternIsParse, NEW s \in Seq(Char), Parse(s) # Refused
  PROVE  BareJid(Parse(s)) = [Parse(s) EXCEPT !.resource = None]
<1> DEFINE j == Parse(s)
           k == [user |-> j.user, host |-> j.host, resource |-> None]
<1>1. j \in Parts /\ Prep(j) = j
  BY SplitType, PrepStable DEF Parse
<1>2. k \in Parts /\ k = [j EXCEPT !.resource = None]
  BY <1>1, EmptySeq DEF Parts, None
<1>3. Full(k) \in Seq(Char) /\ Split(Full(k)) = k
  BY <1>2, FullSplits DEF Stable
<1>4. Full(k) = Bare(j)
  <2>1. Bare(k) \in Seq(Char)
    <3>1. k.user \in Seq(Char) /\ k.host \in Seq(Char) /\ <<At>> \in Seq(Char)
      BY <1>2 DEF Parts, Without, Stable
    <3>2. k.user \o <<At>> \in Seq(Char) /\ None \in Seq(Char)
      BY <3>1, ConcatProperties, EmptySeq DEF None
    <3> QED
      BY <3>1, <3>2, ConcatProperties DEF Bare
  <2>2. Full(k) = Bare(k) \o None
    BY DEF Full
  <2>3. Bare(k) = Bare(j)
    BY DEF Bare
  <2> QED
    BY <2>1, <2>2, <2>3, ConcatEmptySeq DEF None
<1>5. Prep(k) = k
  <2>1. /\ j.host # None /\ Name(j.host) = j.host /\ j.host # Refused
        /\ (IF j.user # None THEN Node(j.user) ELSE None) = j.user /\ j.user # Refused
    <3>1. Prep(j) # Refused /\ Prep(j) = j
      BY <1>1 DEF Stable
    <3> QED
      BY <3>1 DEF Prep
  <2>2. k.user = j.user /\ k.host = j.host /\ k.resource = None /\ None # Refused
    BY EmptySeq DEF Stable, None
  <2> QED
    BY <2>1, <2>2 DEF Prep
<1>6. CASE j.resource # None
  BY <1>2, <1>3, <1>4, <1>5, <1>6 DEF BareJid, InternIsParse, Parse
<1>7. CASE j.resource = None
  BY <1>1, <1>2, <1>7 DEF BareJid, Parts
<1> QED
  BY <1>6, <1>7
=============================================================================
