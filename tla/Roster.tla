------------------------------- MODULE Roster -------------------------------
(***************************************************************************)
(* The roster of protocols/iqroster.py.  Items are keyed by the JID that   *)
(* internJid() normalizes, so a JID is taken for its normal form; of an    *)
(* item only the subscription is kept.                                     *)
(***************************************************************************)
EXTENDS Dict

VARIABLE roster   \* Roster._items: a JID of the roster |-> its subscription

\* The subscription in the item that add() and update(), and remove() send:
\* without one, the server gives a new item none.
Settings == {"none", "remove"}

RosterInit == roster = Empty

\* Roster.updateRoster(): items is the content of a result or of a push, a
\* JID |-> a subscription.  Nothing is taken away but what says "remove", and
\* "remove" for a JID that is not there adds it.
UpdateRoster(r, items) ==
  LET removed == {j \in DOMAIN r \cap DOMAIN items : items[j] = "remove"}
  IN  [j \in (DOMAIN r \cup DOMAIN items) \ removed |->
         IF j \in DOMAIN items THEN items[j] ELSE r[j]]

\* RosterMixin.onStanza().
RosterOnStanza(s) ==
  roster' = IF s.kind = "push" THEN UpdateRoster(roster, s.items) ELSE roster
=============================================================================
