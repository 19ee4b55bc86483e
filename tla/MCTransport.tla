---------------------------- MODULE MCTransport ----------------------------
(***************************************************************************)
(* Instances of Transport for TLC.  Two chunks of buffered data tell a     *)
(* partial write from a complete one.                                      *)
(***************************************************************************)
EXTENDS Transport

BothModes  == BOOLEAN
OnlyStarttls == {TRUE}
NoPost     == {"none"}
MaybePost  == {"none", "given"}
EitherKeep == BOOLEAN
NeverKeep  == {FALSE}
=============================================================================
