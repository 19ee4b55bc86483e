------------------------------- MODULE Replica -------------------------------
(***************************************************************************)
(* What a client promises of its copy of something the server keeps and    *)
(* announces piece by piece: the copy moves from one published version to  *)
(* a later one, never back, and is at any time exactly the version it has  *)
(* reached.  Session implements it for the roster and for the presences.   *)
(***************************************************************************)
EXTENDS Naturals, Sequences

CONSTANT Nothing       \* the copy before the first version has been reached

VARIABLES published,   \* every version of the server, in order
          reached,     \* the version the copy has reached, 0 for none
          copy

Init == published # << >> /\ reached = 0 /\ copy = Nothing

Extends(new, old) ==
  /\ Len(new) >= Len(old)
  /\ \A v \in DOMAIN old : new[v] = old[v]

Publish ==
  /\ Extends(published', published)
  /\ UNCHANGED <<reached, copy>>

Follow ==
  /\ \E v \in reached + 1 .. Len(published) :
       /\ reached' = v
       /\ copy' = published[v]
  /\ UNCHANGED published

Next == Publish \/ Follow

Spec == Init /\ [][Next]_<<published, reached, copy>>
=============================================================================
