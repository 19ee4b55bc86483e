------------------------- MODULE TransportContract -------------------------
(***************************************************************************)
(* What a transport promises the protocol object it feeds, as Stream takes *)
(* it for granted: it is connected once, secured at most once and after    *)
(* that, disconnected at most once and finally, and given data only while  *)
(* it is connected.  data is the phase of the latest data_received().      *)
(***************************************************************************)
VARIABLES phase, data

Init == phase = "connecting" /\ data = "none"

ConnectionMade ==
  /\ phase = "connecting"
  /\ phase' \in {"plain", "secure"}
  /\ UNCHANGED data

StarttlsMade ==
  /\ phase = "plain"
  /\ phase' = "secure"
  /\ UNCHANGED data

DataReceived ==
  /\ phase \in {"plain", "secure"}
  /\ data' = phase
  /\ UNCHANGED phase

\* A handshake that fails is reported although the connection was not.
ConnectionLost ==
  /\ phase # "lost"
  /\ phase' = "lost"
  /\ UNCHANGED data

Next == ConnectionMade \/ StarttlsMade \/ DataReceived \/ ConnectionLost

Spec == Init /\ [][Next]_<<phase, data>>
=============================================================================
