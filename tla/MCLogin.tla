------------------------------- MODULE MCLogin -------------------------------
(***************************************************************************)
(* An instance of Login for TLC: two hosts whose SRV records name the      *)
(* other, themselves, or each other in a circle.                           *)
(***************************************************************************)
EXTENDS Login

CONSTANTS a, b, ip, c2s, other

MCZones == {[h \in {a, b} |-> IF h = a THEN {<<b, other>>} ELSE {}],
            [h \in {a, b} |-> IF h = a THEN {<<a, other>>, <<b, other>>} ELSE {}],
            [h \in {a, b} |-> IF h = a THEN {<<b, other>>} ELSE {<<a, other>>}]}
MCAsked == {<<a, c2s>>, <<b, c2s>>, <<ip, c2s>>}
MCOffers == {{}, {"ANONYMOUS"}, {"PLAIN"}, {"OAUTH2", "PLAIN"}, {"CRAM", "PLAIN"},
             {"DIGEST", "CRAM", "PLAIN"}, {"FACEBOOK", "DIGEST"}, {"SCRAM", "DIGEST", "ANONYMOUS"},
             {"SCRAM_PLUS", "SCRAM", "PLAIN"}, {"GSSAPI"}}
=============================================================================
