------------------------------ MODULE MCSession ------------------------------
(***************************************************************************)
(* An instance of Session for TLC: one contact, and one's own account with *)
(* another resource.                                                       *)
(***************************************************************************)
EXTENDS Session, TLC

CONSTANTS al, me, phone, desk

MCContacts == {al}
MCSelf == <<me, desk>>
MCFullJids == {<<me, phone>>, MCSelf}

Scenario(topics, n, mainCalls, otherCalls, m) ==
  [topics |-> topics, news |-> n, calls |-> m,
   may |-> (Main :> mainCalls) @@ (Other :> otherCalls)]
MCScenarios == {
  Scenario({"roster"}, 2, {"set"}, {"set"}, 2),
  Scenario({"presence"}, 3, {}, {}, 0),
  Scenario({"room"}, 1, {"enter", "leave"}, {"leave"}, 3),
  Scenario({"roster", "presence", "room"}, 1, {"enter"}, {"set"}, 2) }
=============================================================================
