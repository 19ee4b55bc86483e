--------------------------------- MODULE Jid ---------------------------------
(***************************************************************************)
(* JIDs, jid.py: how a string is cut into its parts, how the parts make    *)
(* the string again, and the table of interned JIDs, which all threads of  *)
(* a process share under a lock.  A string is a sequence of characters;    *)
(* the empty one stands for None, too, which only __eq__ tells from it.    *)
(* The stringprep profiles are operators; Stable says what is used of them.*)
(***************************************************************************)
EXTENDS Integers, Sequences

CONSTANTS Char, At, Slash,           \* the characters, "@" and "/" among them
          Node(_), Name(_), Res(_),  \* the profiles of _stringprep.py
          Refused                    \* stands for an exception

None == << >>

\* str.find(), with 0 for what is not there.
Find(s, c) ==
  IF \E i \in 1..Len(s) : s[i] = c
    THEN CHOOSE i \in 1..Len(s) : s[i] = c /\ \A k \in 1 .. i - 1 : s[k] # c
    ELSE 0

\* _parse(): an "@" after the first "/" belongs to the resource.
Split(s) ==
  LET at == Find(s, At)
      slash == Find(s, Slash)
      userEnd == IF at # 0 /\ (slash = 0 \/ at < slash) THEN at ELSE 0
      hostEnd == IF slash # 0 THEN slash ELSE Len(s) + 1
  IN  [user |-> SubSeq(s, 1, userEnd - 1),
       host |-> SubSeq(s, userEnd + 1, hostEnd - 1),
       resource |-> SubSeq(s, hostEnd + 1, Len(s))]

\* _prep(): the domain is required before its profile is applied, not after.
Prep(p) ==
  LET user == IF p.user # None THEN Node(p.user) ELSE None
      host == Name(p.host)
      resource == IF p.resource # None THEN Res(p.resource) ELSE None
  IN  IF p.host = None \/ Refused \in {user, host, resource} THEN Refused
      ELSE [user |-> user, host |-> host, resource |-> resource]

Parse(s) == Prep(Split(s))

\* Jid.bare and Jid.full.
Bare(j) == (IF j.user # None THEN j.user \o <<At>> ELSE None) \o j.host
Full(j) == Bare(j) \o (IF j.resource # None THEN <<Slash>> \o j.resource ELSE None)

VARIABLE interned    \* __internJIDs: string |-> Jid

Init == interned = [s \in {} |-> None]

\* internJid(): what it returns, and the table after it.
Intern(s) ==
  IF s \in DOMAIN interned THEN interned[s]
  ELSE IF Parse(s) # Refused /\ Full(Parse(s)) \in DOMAIN interned
    THEN interned[Full(Parse(s))]
  ELSE Parse(s)

InternJid(s) ==
  interned' =
    IF s \in DOMAIN interned \/ Parse(s) = Refused THEN interned
    ELSE [t \in DOMAIN interned \cup {Full(Parse(s))} |->
            IF t \in DOMAIN interned THEN interned[t] ELSE Parse(s)]

\* Jid.bare_jid.
BareJid(j) == IF j.resource # None THEN Intern(Bare(j)) ELSE j

Next == \E s \in Seq(Char) : InternJid(s)

Spec == Init /\ [][Next]_interned

\* The parts a JID may have after its profiles: no delimiter but in the resource.
Without(S) == {s \in Seq(Char) : \A i \in 1..Len(s) : s[i] \notin S}

Parts == [user : Without({At, Slash}), host : Without({At, Slash}) \ {None},
          resource : Seq(Char)]

\* _stringprep.py: a profile refuses the delimiters (nodeprep 190, NamePrep 124)
\* and leaves alone what it has prepared; a domain is never prepared to nothing,
\* whose first label would have no first character (159).
Stable ==
  /\ At \in Char /\ Slash \in Char /\ At # Slash
  /\ Refused \notin Parts /\ Refused \notin Seq(Char)
  /\ \A s \in Seq(Char) :
       /\ Node(s) \in Without({At, Slash}) \cup {Refused}
       /\ Name(s) \in (Without({At, Slash}) \ {None}) \cup {Refused}
       /\ Res(s) \in Seq(Char) \cup {Refused}
       /\ Node(s) \notin {None, Refused} => Node(Node(s)) = Node(s)
       /\ Name(s) # Refused => Name(Name(s)) = Name(s)
       /\ Res(s) \notin {None, Refused} => Res(Res(s)) = Res(s)

\* The table is never seen: whatever was interned before, in whatever spelling,
\* a string's JID is the one that parsing it gives.
InternIsParse == \A s \in Seq(Char) : Intern(s) = Parse(s)
=============================================================================
