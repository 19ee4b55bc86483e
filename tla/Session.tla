------------------------------- MODULE Session -------------------------------
(***************************************************************************)
(* An open session: the roster, presence and room mixins of one stream and *)
(* the tasks of an application, run by one asyncio event loop.             *)
(*                                                                         *)
(* Stream leaves open in which order the loop runs what is ready.  Here    *)
(* the order is that of the loop, a FIFO of handles, for what an answer    *)
(* means to a task depends on the mixins having seen it, and what came     *)
(* before it, first.  The mixin tasks of a stanza are one handle: they are *)
(* scheduled one after the other and none of them yields.                  *)
(*                                                                         *)
(* Stanzas are numbered as the server sends them; those that have been     *)
(* parsed and been shown to the mixins are prefixes of them.  A stanza on  *)
(* its way is as good as one not sent yet, so sending is arriving.         *)
(***************************************************************************)
EXTENDS Roster, Presence, Muc, FiniteSetsExt

CONSTANTS Main, Other,    \* the task of Client.connect(), and another
          Contacts,       \* JIDs of the roster
          FullJids,       \* JIDs with a resource whose presence comes in
          Room, Me, Renamed, Guest,   \* a room, own nicknames, another's
          QueueLen,       \* maxlen of Stream._stanza_queue
          Scenarios       \* bounds, of which each behaviour has one: what
                          \* the server sends unasked and how often (topics,
                          \* news), who calls what and how often (may, calls)

Tasks == {Main, Other}
MeJid == <<Room, Me>>

ASSUME SessionAssumption ==
  /\ Main # Other /\ Guest \notin {Me, Renamed}
  /\ QueueLen \in Nat \ {0}
  /\ \A j \in FullJids : j = <<j[1], j[2]>> /\ j[2] # NoRes
  /\ \A s \in Scenarios : /\ s.calls \in Nat
                         /\ s.may \in [Tasks -> SUBSET {"set", "enter", "leave"}]

VARIABLES
  scenario,
  sent,         \* every stanza of the server, in order
  asked,        \* requests the server has not answered
  rosterLog,    \* versions of the server's roster
  presenceLog,  \* versions of who is available, as far as sent
  roomLog,      \* versions of who is in the room, as far as sent
  news,         \* how often the server has sent something unasked
  parsed, applied,   \* how many stanzas the parser, the mixins have seen
  rosterSeen,   \* version of the roster stanza last applied (history)
  ready,        \* the handles of the event loop
  scan,         \* futures the scan of the parser has yet to complete
  waiting,      \* tasks whose future is pending, in _waiter_futures
  got,          \* the stanza last given to a task, 0 for none
  tested,       \* the stanzas whose task_set has the task
  pc,           \* what a task is awaiting
  calls

server == <<sent, asked, rosterLog, presenceLog, roomLog, news>>
loop == <<parsed, applied, scan>>
tasks == <<waiting, got, tested, pc, calls>>
data == <<roster, rosterSeen, cache, ownPresence, rooms, scenario>>
client == <<loop, tasks, data>>
vars == <<server, loop, ready, tasks, data>>

Latest(log) == log[Len(log)]
Handle(what, which) == <<what, which>>
TheParser == Handle("parser", 0)

Init ==
  /\ scenario \in Scenarios
  /\ sent = << >> /\ asked = {[task |-> Main, op |-> "get"]}
  /\ rosterLog \in {<< [j \in S |-> "none"] >> : S \in SUBSET Contacts}
  /\ presenceLog = << Empty >> /\ roomLog = << {} >>
  /\ news = 0 /\ parsed = 0 /\ applied = 0
  /\ ready = << >> /\ scan = {}
  /\ waiting = {Main} /\ calls = 0
  /\ got = [t \in Tasks |-> 0] /\ tested = [t \in Tasks |-> {}]
  /\ pc = [t \in Tasks |-> IF t = Main THEN "get" ELSE "idle"]
  /\ RosterInit /\ rosterSeen = 0 /\ PresenceInit /\ MucInit

(***************************************************************************)
(* The server.                                                             *)
(***************************************************************************)
\* Stream.data_received(), ParserTask.parse(): the parser is scheduled if it
\* sleeps on its queue.
Sends(ss) ==
  /\ sent' = sent \o ss
  /\ ready' = IF \E k \in DOMAIN ready : ready[k] = TheParser THEN ready
              ELSE Append(ready, TheParser)

Unasked(topic) ==
  topic \in scenario.topics /\ news < scenario.news /\ news' = news + 1

Reply(a, ok) == [kind |-> "reply", to |-> a.task, ok |-> ok]

\* The status codes of a room's presences.  Where their order is the server's
\* choice there is a set of them.
Codes ==
  [none |-> << >>, own |-> <<110>>, kicked |-> <<307>>,
   enter  |-> {<<110>>, <<100, 110>>},
   create |-> {<<110, 201>>, <<100, 110, 201>>},
   kick   |-> {<<110, 307>>, <<307, 110>>},
   rename |-> {<<110, 303>>, <<303, 110>>}]

RoomPresence(nick, type, codes, owner) ==
  [kind |-> "room", from |-> <<Room, nick>>, type |-> type, codes |-> codes,
   owner |-> owner]

\* The result of the roster request, or an error.
AnswerGet ==
  \E a \in asked :
    /\ a.op = "get"
    /\ \/ Sends(<< [kind |-> "reply", to |-> a.task, ok |-> TRUE,
                  items |-> Latest(rosterLog), v |-> Len(rosterLog)] >>)
       \/ Sends(<< Reply(a, FALSE) >>)
    /\ asked' = asked \ {a}
    /\ UNCHANGED <<rosterLog, presenceLog, roomLog, news, client>>

\* Pushes go to those who have asked for the roster.
Interested == \E i \in DOMAIN sent : sent[i].kind = "reply" /\ "items" \in DOMAIN sent[i]

Push(j, sub, v) == [kind |-> "push", items |-> Put(Empty, j, sub), v |-> v]
Changed(j, sub) ==
  IF sub = "remove" THEN Drop(Latest(rosterLog), j) ELSE Put(Latest(rosterLog), j, sub)

\* The roster changes, through another client or by the subscription of a
\* contact; before it is asked for, nothing is pushed.
ChangeRoster ==
  \E j \in Contacts, sub \in {"both", "remove"} :
    /\ sub = "remove" => j \in DOMAIN Latest(rosterLog)
    /\ sub = "both" => Put(Latest(rosterLog), j, sub) # Latest(rosterLog)
    /\ rosterLog' = Append(rosterLog, Changed(j, sub))
    /\ IF Interested THEN Sends(<< Push(j, sub, Len(rosterLog')) >>)
       ELSE UNCHANGED <<sent, ready>>
    /\ Unasked("roster") /\ UNCHANGED <<asked, presenceLog, roomLog, client>>

\* iqroster.add(), update() and remove() of this client: pushed to it, too.
AnswerSet ==
  \E a \in asked, j \in Contacts, sub \in Settings :
    /\ a.op = "set"
    /\ sub = "remove" => j \in DOMAIN Latest(rosterLog)
    /\ asked' = asked \ {a}
    /\ rosterLog' = Append(rosterLog, Changed(j, sub))
    /\ Sends(<< Push(j, sub, Len(rosterLog')), Reply(a, TRUE) >>)
    /\ UNCHANGED <<presenceLog, roomLog, news, client>>

\* A resource comes or goes; one that was never there may go.  Services send
\* presence without a resource.
SendPresence ==
  \E j \in FullJids \cup {<<c, NoRes>> : c \in Contacts}, type \in {"available", "unavailable"} :
    /\ j[2] = NoRes => type = "available"
    /\ Sends(<< [kind |-> "presence", from |-> j, type |-> type, show |-> "plain",
                 v |-> Len(presenceLog) + 1] >>)
    /\ presenceLog' = Append(presenceLog,
         IF j[2] = NoRes THEN Latest(presenceLog)
         ELSE IF type = "available" THEN Put(Latest(presenceLog), j, "plain")
         ELSE Drop(Latest(presenceLog), j))
    /\ Unasked("presence") /\ UNCHANGED <<asked, rosterLog, roomLog, client>>

Inside == Latest(roomLog) \cap {Me, Renamed} # {}

\* The answer to enterRoom(): who is there and oneself, or a refusal.
AnswerEnter ==
  \E a \in asked :
    /\ a.op = "enter"
    /\ asked' = asked \ {a}
    /\ \/ /\ ~Inside
          /\ \/ /\ \E codes \in Codes.enter :
                     Sends(<< RoomPresence(Guest, "available", Codes.none, FALSE),
                              RoomPresence(Me, "available", codes, FALSE) >>)
                /\ roomLog' = roomLog \o << {Guest}, {Guest, Me} >>
             \/ /\ \E codes \in Codes.create :
                     Sends(<< RoomPresence(Me, "available", codes, TRUE) >>)
                /\ roomLog' = Append(roomLog, {Me})
       \/ /\ ~Inside
          /\ \E from \in {Room, MeJid} : Sends(<< [kind |-> "refusal", from |-> from] >>)
          /\ UNCHANGED roomLog
    /\ UNCHANGED <<rosterLog, presenceLog, news, client>>

\* The answer to leaveRoom(), or a kick.
SendGone(codes) ==
  /\ Sends(<< RoomPresence(Me, "unavailable", codes, FALSE) >>)
  /\ roomLog' = Append(roomLog, {})

AnswerLeave ==
  \E a \in asked :
    /\ a.op = "leave" /\ Me \in Latest(roomLog)
    /\ asked' = asked \ {a}
    /\ SendGone(Codes.own)
    /\ UNCHANGED <<rosterLog, presenceLog, news, client>>

Kick ==
  /\ Me \in Latest(roomLog)
  /\ \E codes \in Codes.kick : SendGone(codes)
  /\ Unasked("room") /\ UNCHANGED <<asked, rosterLog, presenceLog, client>>

\* One's own nickname changes: the old one goes, the new one comes.
Rename ==
  /\ Me \in Latest(roomLog)
  /\ \E codes \in Codes.rename :
       Sends(<< RoomPresence(Me, "unavailable", codes, FALSE),
                RoomPresence(Renamed, "available", Codes.own, FALSE) >>)
  /\ LET rest == Latest(roomLog) \ {Me}
     IN  roomLog' = roomLog \o << rest, rest \cup {Renamed} >>
  /\ Unasked("room") /\ UNCHANGED <<asked, rosterLog, presenceLog, client>>

\* muc.kick() of the guest is granted.
AnswerKick ==
  \E a \in asked :
    /\ a.op = "set" /\ Inside /\ Guest \in Latest(roomLog)
    /\ asked' = asked \ {a}
    /\ Sends(<< RoomPresence(Guest, "unavailable", Codes.kicked, FALSE), Reply(a, TRUE) >>)
    /\ roomLog' = Append(roomLog, Latest(roomLog) \ {Guest})
    /\ UNCHANGED <<rosterLog, presenceLog, news, client>>

\* The requests of a room's configuration, and whatever is refused.
AnswerIq ==
  \E a \in asked, ok \in BOOLEAN :
    /\ a.op = "set" => ~ok
    /\ a.op \in {"iq", "set"}
    /\ asked' = asked \ {a}
    /\ Sends(<< Reply(a, ok) >>)
    /\ UNCHANGED <<rosterLog, presenceLog, roomLog, news, client>>

Server ==
  \/ AnswerGet \/ ChangeRoster \/ AnswerSet \/ SendPresence \/ AnswerEnter
  \/ AnswerLeave \/ AnswerKick \/ Kick \/ Rename \/ AnswerIq

(***************************************************************************)
(* The event loop.                                                         *)
(***************************************************************************)
Runs(h) == ready # << >> /\ Head(ready) = h

\* The stanzas _StreamWaitFuture matches, by what the task is awaiting.
Wants(op, t, s) ==
  \/ op \in {"get", "set", "getconf", "config"} /\ s.kind = "reply" /\ s.to = t
  \/ op = "enter" /\ (OwnPresence(s, MeJid) \/ Refusal(s, MeJid))
  \/ op = "leave" /\ OwnPresence(s, MeJid)

\* _handleStanza(): the mixins are scheduled, the stanza is queued and every
\* pending future is tried.  The parser goes on without a pause unless a
\* future is completed.
ParseNext ==
  /\ Runs(TheParser) /\ scan = {} /\ parsed < Len(sent)
  /\ parsed' = parsed + 1
  /\ ready' = Append(ready, Handle("mixins", parsed + 1))
  /\ tested' = [t \in Tasks |->
                  IF t \in waiting THEN tested[t] \cup {parsed + 1} ELSE tested[t]]
  /\ scan' = {t \in waiting : Wants(pc[t], t, sent[parsed + 1])}
  /\ UNCHANGED <<server, data, applied, waiting, got, pc, calls>>

\* set_result() of a future.
Complete(t) ==
  /\ Runs(TheParser) /\ t \in scan
  /\ got' = [got EXCEPT ![t] = parsed]
  /\ waiting' = waiting \ {t}
  /\ UNCHANGED <<server, data, parsed, applied, tested, pc, calls>>

\* Mutants: a parser that does not yield after a match; a task that goes on
\* at once; a future that is left in the scan.
Match_NoYield(t) ==
  Complete(t) /\ scan' = scan \ {t} /\ ready' = Append(ready, Handle("release", t))
Match_AtOnce(t) ==
  /\ Complete(t) /\ scan' = scan \ {t}
  /\ ready' = << Handle("wake", t) >> \o Tail(ready) \o << TheParser >>
Match_Again(t) ==
  /\ Complete(t) /\ scan' = scan
  /\ ready' = Tail(ready) \o << Handle("release", t), TheParser >>

\* The waiter of wait_for() is scheduled, then, by sleep(0), the parser.
Match(t) ==
  /\ Complete(t) /\ scan' = scan \ {t}
  /\ ready' = Tail(ready) \o << Handle("release", t), TheParser >>

\* The data queue is empty.
ParserSleeps ==
  /\ Runs(TheParser) /\ scan = {} /\ parsed = Len(sent)
  /\ ready' = Tail(ready)
  /\ UNCHANGED <<server, tasks, data, parsed, applied, scan>>

RunMixins(i) ==
  /\ Runs(Handle("mixins", i))
  /\ ready' = Tail(ready)
  /\ applied' = i
  /\ RosterOnStanza(sent[i]) /\ PresenceOnStanza(sent[i]) /\ MucOnStanza(sent[i])
  /\ rosterSeen' = IF sent[i].kind = "push" THEN sent[i].v ELSE rosterSeen
  /\ UNCHANGED <<server, tasks, parsed, scan, scenario>>

\* wait_for() has its result; its task is scheduled.
Release(t) ==
  /\ Runs(Handle("release", t))
  /\ ready' = Append(Tail(ready), Handle("wake", t))
  /\ UNCHANGED <<server, tasks, data, parsed, applied, scan>>

(***************************************************************************)
(* The tasks.                                                              *)
(***************************************************************************)
Queued == {i \in 1..parsed : i > parsed - QueueLen}

\* Task t sends a request and calls Stream.wait(), which first looks through
\* the queue.  A stanza found there is returned at once.
Await(t, op, requests) ==
  LET fresh == Queued \ tested[t]
      hits  == {i \in fresh : Wants(op, t, sent[i])}
  IN  /\ pc' = [pc EXCEPT ![t] = op]
      /\ asked' = asked \cup requests
      /\ IF hits = {}
           THEN /\ waiting' = waiting \cup {t}
                /\ tested' = [tested EXCEPT ![t] = @ \cup fresh]
                /\ ready' = Tail(ready)
                /\ UNCHANGED got
           ELSE /\ got' = [got EXCEPT ![t] = Min(hits)]
                /\ tested' = [tested EXCEPT ![t] = @ \cup {i \in fresh : i <= Min(hits)}]
                /\ ready' = << Handle("found", t) >> \o Tail(ready)
                /\ UNCHANGED waiting

Request(t, op) == {[task |-> t, op |-> op]}

\* The call is over: it has returned, or raised.
Finish(t, result) ==
  /\ pc' = [pc EXCEPT ![t] = result]
  /\ ready' = Tail(ready)
  /\ UNCHANGED <<asked, waiting, got, tested>>

\* RosterMixin.postSession(): an error ends Client.connect().
GotRoster(t, s) ==
  /\ pc[t] = "get"
  /\ roster' = IF s.ok THEN UpdateRoster(roster, s.items) ELSE roster
  /\ rosterSeen' = IF s.ok THEN s.v ELSE rosterSeen
  /\ Finish(t, IF s.ok THEN "idle" ELSE "failed")

\* enterRoom() once it has its own presence or an error; a room it created
\* is configured, at once or by way of the callback.
Entered(t, s) ==
  /\ pc[t] = "enter"
  /\ IF s.kind = "room" /\ Created(s)
       THEN \E op \in {"config", "getconf"} : Await(t, op, Request(t, "iq"))
       ELSE Finish(t, "idle")
  /\ UNCHANGED <<roster, rosterSeen>>

Configures(t, s) ==
  /\ pc[t] = "getconf"
  /\ IF s.ok THEN Await(t, "config", Request(t, "iq")) ELSE Finish(t, "idle")
  /\ UNCHANGED <<roster, rosterSeen>>

Returns(t, s) ==
  /\ pc[t] \in {"set", "config", "leave"}
  /\ Finish(t, "idle")
  /\ UNCHANGED <<roster, rosterSeen>>

\* A task goes on with what it was given.
Resume(t, how) ==
  /\ Runs(Handle(how, t))
  /\ LET s == sent[got[t]]
     IN  GotRoster(t, s) \/ Entered(t, s) \/ Configures(t, s) \/ Returns(t, s)
  /\ UNCHANGED <<sent, rosterLog, presenceLog, roomLog, parsed, applied,
                 scan, calls, cache, ownPresence, rooms, news, scenario>>

\* The application, once connect() has returned: a call of iqroster.add(),
\* update() or remove(), or of muc.kick() ("set"), enterRoom() or leaveRoom()
\* is due.
Due(t, op) ==
  /\ pc[Main] = "idle" /\ pc[t] = "idle" /\ calls < scenario.calls
  /\ calls' = calls + 1
  /\ pc' = [pc EXCEPT ![t] = "due"]
  /\ ready' = Append(ready, Handle(op, t))
  /\ UNCHANGED <<server, data, parsed, applied, scan, waiting, got, tested>>

Call(t, op) ==
  /\ Runs(Handle(op, t))
  /\ Await(t, op, Request(t, op))
  /\ UNCHANGED <<sent, rosterLog, presenceLog, roomLog, parsed, applied,
                 scan, calls, data, news>>

Client ==
  \/ ParseNext \/ ParserSleeps
  \/ \E i \in 1..parsed : RunMixins(i)
  \/ \E t \in Tasks :
       \/ Match(t) \/ Release(t)
       \/ \E how \in {"wake", "found"} : Resume(t, how)
       \/ \E op \in scenario.may[t] : Due(t, op) \/ Call(t, op)

Next == Server \/ Client

Spec == Init /\ [][Next]_vars

(***************************************************************************)
(* Properties.                                                             *)
(***************************************************************************)
\* Every variable has its type, and the stanzas of the stream are handled in
\* their order: what the mixins have seen was parsed, what was parsed was sent.
TypeOK ==
  /\ parsed \in 0..Len(sent) /\ applied \in 0..parsed
  /\ rosterSeen \in 0..Len(rosterLog)
  /\ roster \in UNION {[S -> {"none", "both", "remove"}] : S \in SUBSET Contacts}
  /\ \A b \in DOMAIN cache : cache[b] \in UNION {[S -> {"plain"}] : S \in SUBSET {j[2] : j \in FullJids}}
  /\ ownPresence \subseteq {"available", "unavailable"}
  /\ DOMAIN rooms \subseteq {Room}
  /\ \A r \in DOMAIN rooms : rooms[r] \in UNION {[S -> BOOLEAN] : S \in SUBSET {Me, Renamed, Guest}}
  /\ waiting \subseteq Tasks /\ scan \subseteq waiting
  /\ got \in [Tasks -> 0..parsed] /\ tested \in [Tasks -> SUBSET (1..parsed)]
  /\ pc \in [Tasks -> {"idle", "due", "failed", "get", "set", "enter",
                       "getconf", "config", "leave"}]
  /\ calls \in 0..scenario.calls

\* The roster is a replica of the server's: the result of the request and the
\* pushes, applied by different tasks (iqroster.py:168, 174), are applied in
\* the order of the versions, and after each the roster is that version.  A
\* push that overtook the result would be undone by it.
RosterReplica == INSTANCE Replica WITH
  published <- rosterLog, reached <- rosterSeen, copy <- roster, Nothing <- Empty
RosterIsReplica == RosterReplica!Spec

\* Who is available by the cache, and by the presences the mixins have seen:
\* each full JID is there from its "available" to its "unavailable", and no
\* room, service or other stanza gets in (presence.py:126-165).
Shown == {i \in 1..applied : sent[i].kind = "presence"}
Gone(i) == sent[i].type = "unavailable"
PresenceSeen == IF Shown = {} THEN 0 ELSE sent[Max(Shown)].v
CachedJids == UNION {{<<b, r>> : r \in DOMAIN cache[b]} : b \in DOMAIN cache}
PresenceReplica == INSTANCE Replica WITH
  published <- presenceLog, reached <- PresenceSeen, Nothing <- Empty,
  copy <- [j \in CachedJids |-> cache[j[1]][j[2]]]
PresenceIsReplica == PresenceReplica!Spec

\* An empty dictionary stays in the cache only for a contact one of whose
\* resources was reported gone without having been there (presence.py:139).
EmptyWasUnknown ==
  \A b \in DOMAIN cache : cache[b] = Empty =>
    \E i \in Shown :
      LET before == {k \in Shown : k < i /\ sent[k].from = sent[i].from}
      IN  /\ Gone(i) /\ sent[i].from[1] = b
          /\ before = {} \/ Gone(Max(before))

\* The occupants of the room by MucMixin are those the server has told it of:
\* nobody is missing unless it took a change of its own nickname for leaving
\* (muc.py:151), and nobody is left unless it did not see that the presence
\* that ended its stay was its own, the code 110 not being the first
\* (muc.py:134).
RoomSeen == 1 + Cardinality({k \in 1..applied : sent[k].kind = "room"})
InRoom == DOMAIN Occupants(Room)
SeenOwn(first, other) ==
  \E k \in 1..applied :
    sent[k].kind = "room" /\ sent[k].type = "unavailable" /\ sent[k].codes = <<first, other>>
RoomTracksOccupants ==
  /\ ~SeenOwn(110, 303) => roomLog[RoomSeen] \subseteq InRoom
  /\ ~SeenOwn(307, 110) => InRoom \subseteq roomLog[RoomSeen]

\* When a task that slept resumes, the mixins have seen the stanza it is
\* given and all before it: the room enterRoom() returns is in muc_rooms; what
\* add() has changed is in the roster, for a server that pushes the change
\* before it answers (AnswerSet).
AppliedBeforeWake ==
  \A t \in Tasks : Runs(Handle("wake", t)) => got[t] <= applied
=============================================================================
