--------------------------- MODULE MCFileTransfer ---------------------------
(***************************************************************************)
(* Instances of FileTransfer for TLC.  Files of no block, one and two, and *)
(* one that is larger than the receiver allows.  With six stanzas another  *)
(* sender can complete a transfer of two blocks and send one more.         *)
(***************************************************************************)
EXTENDS FileTransfer

Pair(x, y) == [sender |-> x, receiver |-> y]

AllPairs == {Pair("vexmpp", "vexmpp"), Pair("vexmpp", "other"),
             Pair("other", "vexmpp")}
MCSizes == 0 .. 3
=============================================================================
