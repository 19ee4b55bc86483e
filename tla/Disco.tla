-------------------------------- MODULE Disco --------------------------------
(***************************************************************************)
(* DiscoCacheMixin of protocols/disco.py: what the server and its services *)
(* say of themselves.  Of an Info only the items are kept.  A request is   *)
(* answered, refused (an XmppError), or fails in another way: a timeout, a *)
(* JID or an identity that cannot be read.                                 *)
(***************************************************************************)
EXTENDS Naturals, Dict

CONSTANTS Server, Services

VARIABLES
  discoCache,   \* DiscoCache.cache: JID |-> the items of its Info
  toDisco,      \* items update() has yet to ask about
  listed,       \* what the server has listed (history)
  refused       \* items that answered with an error (history)

disco == <<discoCache, toDisco, listed, refused>>

DiscoInit(streams) ==
  /\ discoCache = [c \in streams |-> Empty]
  /\ toDisco = [c \in streams |-> {}]
  /\ listed = [c \in streams |-> {}]
  /\ refused = [c \in streams |-> {}]

Store(c, jid, items) == discoCache' = [discoCache EXCEPT ![c] = Put(@, jid, items)]

\* _disco() of the server, once it has the items.
GotItems(c, items) ==
  /\ Store(c, Server, items)
  /\ toDisco' = [toDisco EXCEPT ![c] = items]
  /\ listed' = [listed EXCEPT ![c] = items]
  /\ UNCHANGED refused

\* _disco() of an item: without items, also for the server, if it lists itself.
GotItemInfo(c, jid) ==
  /\ Store(c, jid, {})
  /\ toDisco' = [toDisco EXCEPT ![c] = @ \ {jid}]
  /\ UNCHANGED <<listed, refused>>

\* Mutant: the first error ends update().
ItemRefused_Last(c, jid) ==
  /\ toDisco' = [toDisco EXCEPT ![c] = {}]
  /\ refused' = [refused EXCEPT ![c] = @ \cup {jid}]
  /\ UNCHANGED <<discoCache, listed>>

\* update() goes on with the next item.
ItemRefused(c, jid) ==
  /\ toDisco' = [toDisco EXCEPT ![c] = @ \ {jid}]
  /\ refused' = [refused EXCEPT ![c] = @ \cup {jid}]
  /\ UNCHANGED <<discoCache, listed>>
=============================================================================
