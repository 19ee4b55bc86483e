--------------------------- MODULE MCNegotiation ---------------------------
(***************************************************************************)
(* Instances of Negotiation for TLC.  Three clients have each option set   *)
(* and unset at least once, and a registration under either timeout.  One  *)
(* stray stanza gives every wait() something to pass over; the challenges  *)
(* of SASL have no bound.                                                  *)
(***************************************************************************)
EXTENDS Negotiation

Option(t, r, s, o) == [tls |-> t, register |-> r, sm |-> s, timeout |-> o]

ThreeClients == {Option("on", TRUE, TRUE, "whole"),
                 Option("required", TRUE, FALSE, "fraction"),
                 Option("off", FALSE, TRUE, "whole")}
OneClient == {Option("on", FALSE, TRUE, "none")}
=============================================================================
