----------------------------- MODULE ErrorsProofs -----------------------------
(***************************************************************************)
(* What is left of an error that is written and read back, and that every  *)
(* error that is read is one of the tables'.                               *)
(***************************************************************************)
EXTENDS Errors, SequenceTheorems, TLAPS

\* What is received is an error of the tables, or an exception.
THEOREM ReadIsKnown ==
  ASSUME NEW xml
  PROVE  \/ Read(xml) \in {[raises |-> "ValueError"], [raises |-> "AttributeError"]}
         \/ Read(xml).cond \in Conditions(Read(xml).ns)
<1>1. Condition(xml) \in Conditions(Kind(xml))
  <2>1. "undefined-condition" \in Conditions(Kind(xml))
    BY DEF Conditions, STANZA_ERRORS, STREAM_ERRORS
  <2> QED
    BY <2>1 DEF Condition
<1>2. \A c, t, y, l, a : /\ StanzaErr(c, t, y, l, a).cond = c /\ StanzaErr(c, t, y, l, a).ns = "stanza"
                         /\ StreamErr(c, t, l, a).cond = c /\ StreamErr(c, t, l, a).ns = "stream"
  BY DEF StanzaErr, StreamErr
<1>3. Kind(xml) \in {"stream", "stanza"}
  BY DEF Kind
<1> QED
  BY <1>1, <1>2, <1>3 DEF Read

LEMMA Joined ==
  ASSUME NEW x, NEW y, NEW z
  PROVE  /\ << >> \o << >> = << >> /\ <<x>> \o << >> = <<x>>
         /\ <<x>> \o <<y>> = <<x, y>> /\ <<x, y>> \o << >> = <<x, y>>
         /\ <<x, y>> \o <<z>> = <<x, y, z>>
<1> DEFINE S == {x, y, z}
<1>1. /\ << >> \in Seq(S) /\ <<x>> \in Seq(S) /\ <<y>> \in Seq(S) /\ <<z>> \in Seq(S)
      /\ <<x, y>> \in Seq(S) /\ <<x, y, z>> \in Seq(S)
  OBVIOUS
<1>2. \A s \in Seq(S) : s \o << >> = s
  BY ConcatEmptySeq
<1>3. <<x>> \o <<y>> = <<x, y>>
  <2>1. /\ <<x>> \o <<y>> \in Seq(S) /\ Len(<<x>> \o <<y>>) = 2
        /\ \A i \in 1 .. 2 : (<<x>> \o <<y>>)[i] = IF i <= 1 THEN <<x>>[i] ELSE <<y>>[i - 1]
    BY <1>1, ConcatProperties, Len(<<x>>) = 1, Len(<<y>>) = 1
  <2>2. (<<x>> \o <<y>>)[1] = x /\ (<<x>> \o <<y>>)[2] = y
    BY <2>1
  <2>3. Len(<<x, y>>) = 2 /\ <<x, y>>[1] = x /\ <<x, y>>[2] = y
    OBVIOUS
  <2>4. \A i \in 1 .. 2 : i = 1 \/ i = 2
    OBVIOUS
  <2>5. \A i \in 1 .. 2 : (<<x>> \o <<y>>)[i] = <<x, y>>[i]
    BY <2>2, <2>3, <2>4
  <2> QED
    BY <1>1, <2>1, <2>3, <2>5, SeqEqual
<1>4. <<x, y>> \o <<z>> = <<x, y, z>>
  <2>1. /\ <<x, y>> \o <<z>> \in Seq(S) /\ Len(<<x, y>> \o <<z>>) = 3
        /\ \A i \in 1 .. 3 : (<<x, y>> \o <<z>>)[i] = IF i <= 2 THEN <<x, y>>[i] ELSE <<z>>[i - 2]
    BY <1>1, ConcatProperties, Len(<<x, y>>) = 2, Len(<<z>>) = 1
  <2>2. (<<x, y>> \o <<z>>)[1] = x /\ (<<x, y>> \o <<z>>)[2] = y /\ (<<x, y>> \o <<z>>)[3] = z
    BY <2>1
  <2>3. /\ Len(<<x, y, z>>) = 3 /\ <<x, y, z>>[1] = x /\ <<x, y, z>>[2] = y
        /\ <<x, y, z>>[3] = z
    OBVIOUS
  <2>4. \A i \in 1 .. 3 : i = 1 \/ i = 2 \/ i = 3
    OBVIOUS
  <2>5. \A i \in 1 .. 3 : (<<x, y>> \o <<z>>)[i] = <<x, y, z>>[i]
    BY <2>2, <2>3, <2>4
  <2> QED
    BY <1>1, <2>1, <2>3, <2>5, SeqEqual
<1> QED
  BY <1>1, <1>2, <1>3, <1>4

\* An error's own parts and the application's are told apart by their place.
LEMMA Children ==
  ASSUME NEW ns \in {"stanza", "stream"}, NEW cond, NEW type, NEW text, NEW lang, NEW app,
         app # None /\ app.full => app.ns # ns,
         NEW xml, xml = Xml([ns |-> ns, cond |-> cond, type |-> type, text |-> text,
                             lang |-> lang, app_err |-> app])
  PROVE  /\ Kind(xml) = ns /\ Conds(xml) = {1} /\ xml.children[1].name = cond
         /\ text = None => Texts(xml) = {}
         /\ text # None => /\ Texts(xml) = {2} /\ xml.children[2].text = text
                          /\ xml.children[2].lang = lang
         /\ app = None \/ ~ app.full => Apps(xml) = {}
         /\ app # None /\ app.full =>
              \E n \in {2, 3} : Apps(xml) = {n} /\ xml.children[n] = app
<1> DEFINE c == [Child(ns, cond) EXCEPT !.type = type]
           t == [Child(ns, "text") EXCEPT !.text = text, !.lang = lang]
           ch == xml.children
<1>1. /\ Kind(xml) = ns
      /\ ch = <<c>> \o (IF text # None THEN <<t>> ELSE << >>)
                   \o (IF app # None /\ app.full THEN <<app>> ELSE << >>)
  BY DEF Xml, Kind, Text
<1>2. /\ c.ns = ns /\ c.name = cond /\ c.text = None
      /\ t.ns = ns /\ t.name = "text" /\ t.text = text /\ t.lang = lang
  BY DEF Child
<1> HIDE DEF c, t, ch
<1>3. /\ Own(xml) = {i \in 1..Len(ch) : ch[i].ns = ns}
      /\ Texts(xml) = {i \in Own(xml) : ch[i].name = "text" /\ ch[i].text # None}
      /\ Conds(xml) = Own(xml) \ Texts(xml) /\ Apps(xml) = 1..Len(ch) \ Own(xml)
  BY <1>1 DEF Own, Texts, Conds, Apps, ch
<1>4. CASE text = None /\ ~ (app # None /\ app.full)
  <2>1. ch = <<c>>
    BY <1>1, <1>4, Joined
  <2>2. Len(ch) = 1 /\ ch[1] = c
    BY <2>1
  <2>3. Own(xml) = {1} /\ Texts(xml) = {} /\ Apps(xml) = {}
    BY <1>2, <1>3, <2>2
  <2> QED
    BY <1>1, <1>2, <1>3, <1>4, <2>2, <2>3 DEF ch
<1>5. CASE text # None /\ ~ (app # None /\ app.full)
  <2>1. ch = <<c, t>>
    BY <1>1, <1>5, Joined
  <2>2. Len(ch) = 2 /\ ch[1] = c /\ ch[2] = t
    BY <2>1
  <2>3. Own(xml) = {1, 2} /\ Texts(xml) = {2} /\ Apps(xml) = {}
    BY <1>2, <1>3, <1>5, <2>2
  <2> QED
    BY <1>1, <1>2, <1>3, <1>5, <2>2, <2>3 DEF ch
<1>6. CASE text = None /\ app # None /\ app.full
  <2>1. ch = <<c, app>>
    BY <1>1, <1>6, Joined
  <2>2. Len(ch) = 2 /\ ch[1] = c /\ ch[2] = app
    BY <2>1
  <2>3. Own(xml) = {1} /\ Texts(xml) = {} /\ Apps(xml) = {2}
    BY <1>2, <1>3, <1>6, <2>2
  <2> QED
    BY <1>1, <1>2, <1>3, <1>6, <2>2, <2>3 DEF ch
<1>7. CASE text # None /\ app # None /\ app.full
  <2>1. ch = <<c, t, app>>
    BY <1>1, <1>7, Joined
  <2>2. Len(ch) = 3 /\ ch[1] = c /\ ch[2] = t /\ ch[3] = app
    BY <2>1
  <2>3. Own(xml) = {1, 2} /\ Texts(xml) = {2} /\ Apps(xml) = {3}
    BY <1>2, <1>3, <1>7, <2>2
  <2> QED
    BY <1>1, <1>2, <1>3, <1>7, <2>2, <2>3 DEF ch
<1> QED
  BY <1>4, <1>5, <1>6, <1>7

LEMMA LastOne ==
  ASSUME NEW i \in Int
  PROVE  Last({i}) = i
BY DEF Last

\* A stanza error that is written and read again has its condition, its text and
\* the application's element, if that has children.  Its language survives with a
\* text only, and its type never does: it is written on the condition (160) and
\* looked for on the error (303), so that the reader sees the condition's own.
THEOREM StanzaErrorReadBack ==
  ASSUME NEW cond \in Conditions("stanza"), NEW type, NEW text, NEW lang, NEW app,
         app # None /\ app.full => app.ns # "stanza"
  PROVE  Read(Xml(StanzaErr(cond, text, type, lang, app))) =
           StanzaErr(cond, text, None, IF text = None THEN None ELSE lang,
                  IF app # None /\ app.full THEN app ELSE None)
<1> DEFINE y == IF type = None THEN Default(cond) ELSE type
           e == [ns |-> "stanza", cond |-> cond, type |-> y, text |-> text, lang |-> lang,
                 app_err |-> app]
           xml == Xml(e)
<1>1. StanzaErr(cond, text, type, lang, app) = e
  BY DEF StanzaErr
<1>0. SUFFICES Read(xml) = StanzaErr(cond, text, None, IF text = None THEN None ELSE lang,
                                 IF app # None /\ app.full THEN app ELSE None)
  BY <1>1
<1>2. xml.root = "error" /\ xml.type = None
  BY DEF Xml
<1> HIDE DEF y, xml
<1>3. /\ Kind(xml) = "stanza" /\ Conds(xml) = {1} /\ xml.children[1].name = cond
      /\ text = None => Texts(xml) = {}
      /\ text # None => /\ Texts(xml) = {2} /\ xml.children[2].text = text
                       /\ xml.children[2].lang = lang
      /\ app = None \/ ~ app.full => Apps(xml) = {}
      /\ app # None /\ app.full => \E n \in {2, 3} : Apps(xml) = {n} /\ xml.children[n] = app
  BY Children DEF xml
<1>4. Last({1}) = 1 /\ Last({2}) = 2 /\ Last({3}) = 3
  BY LastOne
<1>5. Condition(xml) = cond
  BY <1>3, <1>4 DEF Condition
<1>6. AppErr(xml) = IF app # None /\ app.full THEN app ELSE None
  BY <1>3, <1>4 DEF AppErr
<1>7. Read(xml) = StanzaErr(cond, IF Texts(xml) = {} THEN None ELSE xml.children[Last(Texts(xml))].text,
                         None, IF Texts(xml) = {} THEN None ELSE xml.children[Last(Texts(xml))].lang,
                         AppErr(xml))
  BY <1>2, <1>3, <1>5 DEF Read
<1>8. CASE text = None
  BY <1>3, <1>6, <1>7, <1>8
<1>9. CASE text # None
  BY <1>3, <1>4, <1>6, <1>7, <1>9
<1> QED
  BY <1>8, <1>9

\* A stream error that is written and read again is the same but for the language
\* of a text it does not have.
THEOREM StreamErrorReadBack ==
  ASSUME NEW cond \in Conditions("stream"), NEW text, NEW lang, NEW app,
         app # None /\ app.full => app.ns # "stream"
  PROVE  Read(Xml(StreamErr(cond, text, lang, app))) =
           StreamErr(cond, text, IF text = None THEN None ELSE lang, app)
<1> DEFINE kept == IF app # None /\ app.full THEN app ELSE None
           e == [ns |-> "stream", cond |-> cond, type |-> None, text |-> text, lang |-> lang,
                 app_err |-> kept]
           xml == Xml(e)
<1>1. StreamErr(cond, text, lang, app) = e
  BY DEF StreamErr
<1>0. SUFFICES Read(xml) = StreamErr(cond, text, IF text = None THEN None ELSE lang, app)
  BY <1>1
<1>2. xml.root = "stream:error"
  BY DEF Xml
<1> HIDE DEF xml, kept
<1>3. /\ Kind(xml) = "stream" /\ Conds(xml) = {1} /\ xml.children[1].name = cond
      /\ text = None => Texts(xml) = {}
      /\ text # None => /\ Texts(xml) = {2} /\ xml.children[2].text = text
                       /\ xml.children[2].lang = lang
      /\ kept = None \/ ~ kept.full => Apps(xml) = {}
      /\ kept # None /\ kept.full => \E n \in {2, 3} : Apps(xml) = {n} /\ xml.children[n] = kept
  BY Children DEF xml, kept
<1>4. Last({1}) = 1 /\ Last({2}) = 2 /\ Last({3}) = 3
  BY LastOne
<1>5. Condition(xml) = cond
  BY <1>3, <1>4 DEF Condition
<1>6. AppErr(xml) = kept
  BY <1>3, <1>4 DEF AppErr, kept
<1>7. Read(xml) = StreamErr(cond, IF Texts(xml) = {} THEN None ELSE xml.children[Last(Texts(xml))].text,
                         IF Texts(xml) = {} THEN None ELSE xml.children[Last(Texts(xml))].lang, kept)
  BY <1>2, <1>3, <1>5, <1>6 DEF Read
<1>n. StreamErr(cond, text, IF text = None THEN None ELSE lang, kept) =
        StreamErr(cond, text, IF text = None THEN None ELSE lang, app)
  BY DEF StreamErr, kept
<1>8. CASE text = None
  BY <1>3, <1>7, <1>n, <1>8
<1>9. CASE text # None
  BY <1>3, <1>4, <1>7, <1>n, <1>9
<1> QED
  BY <1>8, <1>9
=============================================================================
