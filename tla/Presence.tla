------------------------------ MODULE Presence ------------------------------
(***************************************************************************)
(* The presence cache of protocols/presence.py and the order of presences  *)
(* in stanzas.py.  A JID is a pair of a bare JID and a resource; a stanza  *)
(* of kind "presence" has no muc#user element, one of kind "room" has.     *)
(***************************************************************************)
EXTENDS Integers, SequencesExt, Dict

CONSTANTS Self,     \* stream.jid
          NoRes     \* the resource of a bare JID

VARIABLES cache,        \* bare JID |-> (resource |-> presence)
          ownPresence   \* PresenceCacheMixin._self_presence, a set of at most one

PresenceInit == cache = Empty /\ ownPresence = {}

Resources(c, bare) == IF bare \in DOMAIN c THEN c[bare] ELSE Empty

Available(c, bare, res, p) == Put(c, bare, Put(Resources(c, bare), res, p))

\* Mutants: the contact goes with any of its resources; a contact stays.
Unavailable_AllResources(c, bare, res) == Drop(c, bare)
Unavailable_KeepsEmpty(c, bare, res) == Put(c, bare, Drop(Resources(c, bare), res))

\* Also for a resource that is not cached: its bare JID is then left with
\* what it had, an empty dictionary if it was unknown.
Unavailable(c, bare, res) ==
  LET left == Drop(Resources(c, bare), res)
  IN  IF res \in DOMAIN Resources(c, bare) /\ DOMAIN left = {}
        THEN Drop(c, bare)
        ELSE Put(c, bare, left)

\* PresenceCacheMixin.onStanza().  Nobody can wait for the DataEvent it sets
\* and clears: waitForUpdate() looks for it under another name.
PresenceOnStanza(s) ==
  IF s.kind = "presence" /\ s.type \in {"available", "unavailable"} /\ s.from[2] # NoRes
    THEN /\ cache' = IF s.type = "available"
                       THEN Available(cache, s.from[1], s.from[2], s.show)
                       ELSE Unavailable(cache, s.from[1], s.from[2])
         /\ ownPresence' = IF s.from = Self THEN {s.type} ELSE ownPresence
    ELSE UNCHANGED <<cache, ownPresence>>

\* Presence.ORDERED_SHOWS; "plain" stands for no <show/>.
OrderedShows == <<"chat", "plain", "away", "xa", "dnd">>
Shows == {"chat", "plain", "away", "xa", "dnd"}
Rank(show) == CHOOSE i \in 1..5 : OrderedShows[i] = show

\* Presence.__lt__() and __gt__(), of presences that have a priority.
Below(p, q) ==
  \/ p.priority < q.priority
  \/ p.priority = q.priority /\ Rank(p.show) > Rank(q.show)
Above(p, q) == ~Below(p, q) /\ (p.priority # q.priority \/ p.show # q.show)

\* PresenceDict.iterpres(): the resources of a contact, best first.
Iterpres(resources) == SetToSortSeq(DOMAIN resources,
                         LAMBDA r1, r2 : Below(resources[r2], resources[r1]))

\* SubscriptionAckMixin.onStanza() and DenySubscriptionAckMixin.onStanza().
S10n == {"subscribe", "subscribed", "unsubscribe", "unsubscribed"}
AckReply == [subscribe |-> "subscribed", unsubscribe |-> "unsubscribed",
             subscribed |-> "subscribe", unsubscribed |-> "unsubscribe"]
DenyReply == [subscribe |-> "unsubscribed", unsubscribe |-> "subscribed",
              subscribed |-> "unsubscribe", unsubscribed |-> "subscribe"]
=============================================================================
