--------------------------------- MODULE Muc ---------------------------------
(***************************************************************************)
(* Multi-user chat, protocols/muc.py.  A presence of a room carries status *)
(* codes: 110 marks one's own, 201 a new room, 303 a change of nickname,   *)
(* 307 a kick.  The order of the codes is the sender's.                    *)
(***************************************************************************)
EXTENDS Integers, Sequences, Dict

VARIABLE rooms    \* MucMixin._muc_rooms: room |-> (nickname |-> own presence?)

MucInit == rooms = Empty

Marked(s) == \E i \in DOMAIN s.codes : s.codes[i] = 110

\* What MucMixin takes for its own presence: find() returns the first status.
MarkedFirst(s) == s.codes # << >> /\ Head(s.codes) = 110

Occupants(r) == IF r \in DOMAIN rooms THEN rooms[r] ELSE Empty

\* Mutant: a room one has left is kept.
MucOnStanza_KeepsRoom(s) ==
  IF s.kind # "room" THEN UNCHANGED rooms
  ELSE rooms' =
    IF s.type = "available"
      THEN Put(rooms, s.from[1], Put(Occupants(s.from[1]), s.from[2], MarkedFirst(s)))
      ELSE Put(rooms, s.from[1], Drop(Occupants(s.from[1]), s.from[2]))

\* MucMixin.onStanza(): any presence of a room creates it, one's own that is
\* not "available" deletes it.
MucOnStanza(s) ==
  IF s.kind # "room" THEN UNCHANGED rooms
  ELSE rooms' =
    LET room == s.from[1]
        nick == s.from[2]
    IN  IF s.type = "available"
          THEN Put(rooms, room, Put(Occupants(room), nick, MarkedFirst(s)))
        ELSE IF MarkedFirst(s) THEN Drop(rooms, room)
        ELSE Put(rooms, room, Drop(Occupants(room), nick))

\* selfPresenceXpath(): any of the codes is 110, whatever the type.
OwnPresence(s, jid) == s.kind = "room" /\ s.from = jid /\ Marked(s)

\* errorPresenceXpath(): the error has to come from the room itself.
Refusal(s, jid) == s.kind = "refusal" /\ s.from = jid[1]

\* The XPaths of enterRoom(): the room is new and one owns it.
Created(s) == s.owner /\ \E i \in DOMAIN s.codes : s.codes[i] = 201
=============================================================================
