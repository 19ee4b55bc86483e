-------------------------------- MODULE Sasl --------------------------------
(***************************************************************************)
(* The SASL engine of suelta/: the choice of a mechanism and what each     *)
(* mechanism answers, step by step.  A mechanism stands for its family     *)
(* with one hash: CRAM and DIGEST with MD5, SCRAM and SCRAM_PLUS with      *)
(* SHA-1.  Of an answer only its kind matters; "raises" is an exception.   *)
(* sec_query() grants everything.                                          *)
(***************************************************************************)
EXTENDS Naturals

\* MECH_SEC_SCORES: the base score, and the place of the hash in hashes().
Score == [ANONYMOUS |-> 0, PLAIN |-> 1, OAUTH2 |-> 10, CRAM |-> 21, DIGEST |-> 31,
          FACEBOOK |-> 40, SCRAM |-> 62, SCRAM_PLUS |-> 72]
Mechanisms == DOMAIN Score

\* A user has a name, one with a "," or "=" in it, an anonymous one or none.
Nameless == {"anonymous", "none"}
Users    == {"named", "delimited"} \cup Nameless

\* SASL.choose_mechanism(): a set of at most one.  Without a user, whether the
\* server offers ANONYMOUS is not asked; with one, ANONYMOUS may be the best.
ChooseMechanism(user, mechs) ==
  IF user \in Nameless THEN {"ANONYMOUS"}
  ELSE {m \in mechs \cap Mechanisms : \A n \in mechs \cap Mechanisms : Score[n] <= Score[m]}

\* check_values() where a mechanism asks for the password: the callback of
\* features/sasl.py has it, but fulfill() raises if saslprep() refuses it (a
\* code point that Unicode 3.2 has not assigned, say) or if there is none.
WithPassword(l, reply) == IF l.prepared THEN reply ELSE "raises"

\* The other values it gets: the user is known from the start.  For the rest
\* there is a None, without a word.
Given == {"username"}

\* process() of each mechanism at a step, 0 for the initial response.
PlainProcess(l, step) == WithPassword(l, "password")
AnonymousProcess(step) == "anonymous"

\* Mutant: the initial response is not left out.
CramProcess_AtOnce(l, step) == WithPassword(l, "mac")

CramProcess(l, step) == IF step = 0 THEN "empty" ELSE WithPassword(l, "mac")

\* The first challenge has a nonce, another the proof of the server.
DigestProcess(l, step) == IF step = 1 THEN WithPassword(l, "digest") ELSE "empty"

\* process_one(), two() and three().  The user name is not escaped.  The GS2
\* header claims no channel binding under TLS, whatever the mechanism; without
\* TLS, -PLUS adds None to bytes.
ScramFirst(plus, l) == IF l.user = "delimited" THEN "first, garbled"
                       ELSE IF plus /\ ~l.tls THEN "first, bound" ELSE "first"
ScramProcess(plus, l, step) ==
  CASE step = 0 -> WithPassword(l, ScramFirst(plus, l))
    [] step = 1 -> IF plus /\ ~l.tls THEN "raises" ELSE "proof"
    [] OTHER    -> "empty"

OAuth2Process(step) == IF "access_token" \in Given THEN "token" ELSE "raises"
FacebookProcess(step) ==
  IF step = 0 THEN "empty"
  ELSE IF {"access_token", "api_key"} \subseteq Given THEN "token" ELSE "no token"

\* l has the user, whether the password can be prepared, and TLS.
Process(mech, l, step) ==
  CASE mech = "PLAIN" -> PlainProcess(l, step)
    [] mech = "ANONYMOUS" -> AnonymousProcess(step)
    [] mech = "CRAM" -> CramProcess(l, step)
    [] mech = "DIGEST" -> DigestProcess(l, step)
    [] mech \in {"SCRAM", "SCRAM_PLUS"} -> ScramProcess(mech = "SCRAM_PLUS", l, step)
    [] mech = "OAUTH2" -> OAuth2Process(step)
    [] mech = "FACEBOOK" -> FacebookProcess(step)

\* What a server that knows the password wants, step by step; it may prove
\* itself in a last challenge or with its success.  It reads names as UTF-8
\* also under DIGEST, whose answer does not say so.
Expects == [PLAIN |-> {<<"password">>}, ANONYMOUS |-> {<<"anonymous">>},
            CRAM |-> {<<"empty", "mac">>},
            DIGEST |-> {<<"empty", "digest">>, <<"empty", "digest", "empty">>},
            SCRAM |-> {<<"first", "proof">>, <<"first", "proof", "empty">>},
            SCRAM_PLUS |-> {<<"first, bound", "proof">>, <<"first, bound", "proof", "empty">>},
            FACEBOOK |-> {<<"empty", "token">>}, OAUTH2 |-> {<<"token">>}]
=============================================================================
