-------------------------------- MODULE Errors --------------------------------
(***************************************************************************)
(* Stanza and stream errors, errors.py: the elements that are made of them *)
(* and the errors that are made of elements.  An element is its namespace, *)
(* its name and what the code looks at: text, xml:lang, a type attribute,  *)
(* and whether it has children, which is all that truth says of an lxml    *)
(* element.  Only conditions that are written as in the tables are known.  *)
(***************************************************************************)
EXTENDS Integers, Sequences

CONSTANT None    \* no such value; an empty string is taken for it, too

\* STANZA_ERRORS by the type they have unless another is given.
STANZA_ERRORS ==
  [auth |-> {"forbidden", "not-authorized", "registration-required",
             "subscription-required", "undefined-condition"},
   cancel |-> {"conflict", "feature-not-implemented", "gone", "internal-server-error",
               "item-not-found", "not-allowed", "remote-server-not-found",
               "service-unavailable"},
   modify |-> {"bad-request", "jid-malformed", "not-acceptable", "policy-violation",
               "redirect"},
   wait |-> {"recipient-unavailable", "remote-server-timeout", "resource-constraint",
             "unexpected-request"}]

STREAM_ERRORS ==
  {"bad-format", "bad-namespace-prefix", "conflict", "connection-timeout", "host-gone",
   "host-unknown", "improper-addressing", "internal-server-error", "invalid-from",
   "invalid-namespace", "invalid-xml", "not-authorized", "not-well-formed",
   "policy-violation", "remote-connection-failed", "reset", "resource-constraint",
   "restricted-xml", "see-other-host", "system-shutdown", "undefined-condition",
   "unsupported-encoding", "unsupported-feature", "unsupported-stanza-type",
   "unsupported-version"}

Conditions(ns) ==
  IF ns = "stream" THEN STREAM_ERRORS
  ELSE UNION {STANZA_ERRORS[t] : t \in DOMAIN STANZA_ERRORS}

Default(cond) == CHOOSE t \in DOMAIN STANZA_ERRORS : cond \in STANZA_ERRORS[t]

\* An element: its namespace is "stanza" or "stream" for those of the errors,
\* "none" for none at all.
Child(ns, name) == [ns |-> ns, name |-> name, text |-> None, lang |-> None,
                    type |-> None, full |-> FALSE]

\* The constructors: a stream error has no type and keeps no childless app_err.
StanzaErr(cond, text, type, lang, app) ==
  [ns |-> "stanza", cond |-> cond, type |-> IF type = None THEN Default(cond) ELSE type,
   text |-> text, lang |-> lang, app_err |-> app]

StreamErr(cond, text, lang, app) ==
  [ns |-> "stream", cond |-> cond, type |-> None, text |-> text, lang |-> lang,
   app_err |-> IF app # None /\ app.full THEN app ELSE None]

\* StanzaError.xml and StreamError.xml.  The type is put on the condition.
Text(e) == [Child(e.ns, "text") EXCEPT !.text = e.text, !.lang = e.lang]

Xml(e) ==
  [root |-> IF e.ns = "stream" THEN "stream:error" ELSE "error", type |-> None,
   children |-> <<[Child(e.ns, e.cond) EXCEPT !.type = e.type]>>
                \o (IF e.text # None THEN <<Text(e)>> ELSE << >>)
                \o (IF e.app_err # None /\ e.app_err.full THEN <<e.app_err>> ELSE << >>)]

Last(S) == CHOOSE i \in S : \A k \in S : k <= i

\* _makeConcreteError(): the children by what they are taken for.  A text
\* without text is taken for a condition.
Kind(xml) == IF xml.root = "stream:error" THEN "stream" ELSE "stanza"
Own(xml) == {i \in 1..Len(xml.children) : xml.children[i].ns = Kind(xml)}
Texts(xml) == {i \in Own(xml) : xml.children[i].name = "text" /\ xml.children[i].text # None}
Conds(xml) == Own(xml) \ Texts(xml)
Apps(xml) == 1..Len(xml.children) \ Own(xml)

\* The last of each kind counts; for a condition any other child will do, which
\* is then renamed and is the application's error still.
Condition(xml) ==
  LET app == xml.children[Last(Apps(xml))]
      name == IF Conds(xml) # {} THEN xml.children[Last(Conds(xml))].name
              ELSE IF app.ns = "none" THEN app.name ELSE None
  IN  IF name \in Conditions(Kind(xml)) THEN name ELSE "undefined-condition"

AppErr(xml) ==
  LET app == xml.children[Last(Apps(xml))]
  IN  IF Apps(xml) = {} THEN None
      ELSE IF Conds(xml) = {} THEN [app EXCEPT !.ns = Kind(xml)] ELSE app

Read(xml) ==
  LET text == IF Texts(xml) = {} THEN None ELSE xml.children[Last(Texts(xml))].text
      lang == IF Texts(xml) = {} THEN None ELSE xml.children[Last(Texts(xml))].lang
      type == IF Conds(xml) = {} THEN None ELSE xml.type
  IN  IF /\ xml.root \notin {"stream:error", "error"}
         /\ xml.children # << >> => xml.children[1].ns # "stanza"
        THEN [raises |-> "ValueError"]
      ELSE IF Conds(xml) = {} /\ Apps(xml) = {} THEN [raises |-> "AttributeError"]
      ELSE IF Kind(xml) = "stream" THEN StreamErr(Condition(xml), text, lang, AppErr(xml))
      ELSE StanzaErr(Condition(xml), text, type, lang, AppErr(xml))
=============================================================================
