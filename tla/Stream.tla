------------------------------- MODULE Stream -------------------------------
(***************************************************************************)
(* The receiving half of an XMPP stream (vexmpp/stream.py): the parser     *)
(* task that turns chunks of bytes into stanzas, the hand-over of every    *)
(* stanza to the mixins, the bounded queue of recent stanzas, and the      *)
(* futures of the tasks that wait() for a stanza.                          *)
(*                                                                         *)
(* Everything runs on one asyncio event loop, so a step of this module is  *)
(* a stretch of code between two awaits, or a part of one: the parser task *)
(* runs alone while pc is "batch" or "scan", and the other tasks and the   *)
(* transport's callbacks run only when it awaits, in queue.get() (pc =     *)
(* "get") or in sleep(0) (pc = "yield").                                   *)
(*                                                                         *)
(* A stanza is its position in the order of arrival, and its kind is all   *)
(* an xpath can tell of it.  The list of waiting futures is a set here: the *)
(* order in which one scan visits them is left open.                       *)
(*                                                                         *)
(* since, undecoded and dropped are history: no step depends on them but   *)
(* for where a chunk begins, which undecoded tells.                        *)
(***************************************************************************)
EXTENDS Naturals, FiniteSets

CONSTANTS
  Tasks,        \* the application's tasks that wait for stanzas
  TimedTasks,   \* those of them that pass a timeout to wait()
  Kinds,        \* what the xpaths in use can tell apart
  StreamError,  \* the kind of a <stream:error/>
  MaxStanzas,   \* bound on the number of stanzas received
  QueueLen,     \* maxlen of the stanza queue (10 in the code)
  MayClose      \* whether the application calls Stream.close()

ASSUME StreamAssumption ==
  /\ TimedTasks \subseteq Tasks
  /\ StreamError \in Kinds
  /\ MaxStanzas \in Nat /\ QueueLen \in Nat \ {0}
  /\ MayClose \in BOOLEAN

Ids == 1 .. MaxStanzas

VARIABLES
  kind,      \* what each stanza of the conversation is
  arrived,   \* stanzas received so far: 1 .. arrived
  chunks,    \* ParserTask._data_queue: the last stanza of each queued chunk
  undecoded, \* the stanzas lost, in whole or in part, with undecodable chunks
  conn,      \* the transport, as the stream sees it
  dead,      \* the parser hands out nothing any more
  pc,        \* where the parser task is
  cur,       \* the last stanza the parser task has taken up
  batchEnd,  \* the last stanza of the chunk it is working on
  cancelled, \* Task.cancel() was called while the parser task was in sleep(0)
  dropped,   \* the stanzas whose handling an exception cut short
  queue,     \* Stream._stanza_queue
  item,      \* the queued stanza the scan is at; 0 before the first
  snapshot,  \* the scan's list of futures still to test against item
  stale,     \* those in snapshot whose future was cancelled meanwhile
  seen,      \* QueuedStanza.task_set: the stanzas already shown to each task
  fut,       \* each task's future in Stream._waiter_futures, if any
  want,      \* the xpaths of that future
  since,     \* the last stanza taken up when that future was made
  result,    \* its result once done
  mixed,     \* the stanzas given to the mixins' onStanza
  got        \* how often wait() has returned each stanza to each task

parserVars == <<dead, pc, cur, batchEnd, cancelled, dropped>>
scanVars   == <<item, snapshot, stale>>
taskVars   == <<seen, fut, want, since, result, got>>
wireVars   == <<kind, arrived, chunks, undecoded>>
vars == <<wireVars, conn, queue, mixed, parserVars, scanVars, taskVars>>

Init ==
  /\ kind \in [Ids -> Kinds]
  /\ arrived = 0 /\ chunks = {} /\ undecoded = {} /\ conn = "open"
  /\ dead = FALSE /\ pc = "get" /\ cur = 0 /\ batchEnd = 0
  /\ cancelled = FALSE /\ dropped = {}
  /\ queue = {} /\ mixed = {}
  /\ item = 0 /\ snapshot = {} /\ stale = {}
  /\ seen = [t \in Tasks |-> {}]
  /\ fut = [t \in Tasks |-> "none"]
  /\ want = [t \in Tasks |-> {}]
  /\ since = [t \in Tasks |-> 0]
  /\ result = [t \in Tasks |-> 0]
  /\ got = [t \in Tasks |-> [i \in Ids |-> 0]]

Waiters == {t \in Tasks : fut[t] # "none"}
Pending == {t \in Tasks : fut[t] = "pending"}

\* The parser task is suspended, so that other code may run.
ParserAwaits == pc \in {"get", "yield"}

IsFirst(i, S) == i \in S /\ \A j \in S : i <= j

-----------------------------------------------------------------------------
(* The transport's callbacks.                                              *)

\* A read that completes the stanzas up to m, as one chunk.
DataReceived(m) ==
  /\ ParserAwaits
  /\ conn \in {"open", "closing"}
  /\ m > arrived
  /\ arrived' = m
  /\ chunks' = chunks \cup {m}
  /\ UNCHANGED <<kind, undecoded, conn, queue, mixed, parserVars, scanVars,
                 taskVars>>

\* A read that ends inside a character, or begins with the rest of one: the
\* debug message decodes the bytes before they are queued, and the
\* UnicodeDecodeError is raised into the transport, which goes on reading.
\* Of the stanza m, or of the first one, only a part may be in the chunk.
DataUndecodable(m) ==
  /\ ParserAwaits
  /\ conn \in {"open", "closing"}
  /\ m > arrived
  /\ arrived' = m
  /\ undecoded' = undecoded \cup ((arrived + 1) .. m)
  /\ UNCHANGED <<kind, chunks, conn, queue, mixed, parserVars, scanVars,
                 taskVars>>

\* The stream forgets its transport; the futures of the waiters stay pending.
ConnectionLost ==
  /\ ParserAwaits
  /\ conn # "lost"
  /\ conn' = "lost"
  /\ UNCHANGED <<wireVars, queue, mixed, parserVars, scanVars, taskVars>>

-----------------------------------------------------------------------------
(* The parser task.                                                        *)

\* The exception handlers of ParserTask._run: the stanza in hand, if any, and
\* the rest of the chunk and of the scan are given up, and the task goes back
\* to queue.get().
GiveUpBatch ==
  /\ pc' = "get"
  /\ cur' = batchEnd
  /\ dropped' = dropped \cup ((IF pc = "batch" THEN cur + 1 ELSE cur) .. batchEnd)
  /\ item' = 0 /\ snapshot' = {} /\ stale' = {}
  /\ UNCHANGED <<dead, batchEnd>>

\* The chunk that ends with m begins after the bytes that were lost before it.
Lost(m) == {u \in undecoded : cur < u /\ u < m}

GetChunk ==
  /\ pc = "get"
  /\ ~dead
  /\ \E m \in chunks :
       /\ IsFirst(m, chunks)
       /\ batchEnd' = m
       /\ chunks' = chunks \ {m}
       /\ \/ Lost(m) = {} /\ cur' = cur
          \/ \E u \in Lost(m) : (\A v \in Lost(m) : v <= u) /\ cur' = u
  /\ pc' = "batch"
  /\ UNCHANGED <<kind, arrived, undecoded, conn, queue, mixed, dead, cancelled,
                 dropped, scanVars, taskVars>>

\* After a loss expat may find the rest not well-formed (ParseError), or take
\* it for content of a stanza whose end was lost.  Either way nothing of this
\* chunk is handed out, nor of any later one.
ParseFails ==
  /\ pc = "get"
  /\ \E m \in chunks :
       /\ IsFirst(m, chunks)
       /\ dead \/ Lost(m) # {}
       /\ batchEnd' = m /\ cur' = m
       /\ chunks' = chunks \ {m}
       /\ dropped' = dropped \cup ((cur + 1) .. m)
  /\ dead' = TRUE
  /\ UNCHANGED <<kind, arrived, undecoded, conn, pc, queue, mixed, cancelled,
                 scanVars, taskVars>>

EndChunk ==
  /\ pc = "batch"
  /\ cur = batchEnd
  /\ pc' = "get"
  /\ UNCHANGED <<wireVars, conn, queue, mixed, dead, cur, batchEnd, cancelled,
                 dropped, scanVars, taskVars>>

\* deque(maxlen=10).append: the oldest stanza makes room for the new one.
Enqueue(i) ==
  IF Cardinality(queue) < QueueLen THEN queue \cup {i}
  ELSE {j \in queue : ~IsFirst(j, queue)} \cup {i}

\* Wrong variants, for the mutation runs: no scan, so that nobody is woken; and
\* the mixins are passed by while somebody waits.
HandleStanza_NoScan ==
  /\ pc = "batch"
  /\ cur < batchEnd
  /\ kind[cur + 1] # StreamError
  /\ cur' = cur + 1
  /\ mixed' = mixed \cup {cur + 1}
  /\ queue' = Enqueue(cur + 1)
  /\ UNCHANGED <<wireVars, conn, dead, pc, batchEnd, cancelled, dropped,
                 scanVars, taskVars>>

HandleStanza_WaitersOnly ==
  /\ pc = "batch"
  /\ cur < batchEnd
  /\ kind[cur + 1] # StreamError
  /\ cur' = cur + 1
  /\ mixed' = IF Waiters = {} THEN mixed \cup {cur + 1} ELSE mixed
  /\ queue' = Enqueue(cur + 1)
  /\ pc' = IF Waiters = {} THEN "batch" ELSE "scan"
  /\ UNCHANGED <<wireVars, conn, dead, batchEnd, cancelled, dropped, scanVars,
                 taskVars>>

\* _handleStanza of anything but a stream error: the mixins' tasks are
\* scheduled, the stanza is queued and, if anybody waits, a scan begins.
HandleStanza ==
  /\ pc = "batch"
  /\ cur < batchEnd
  /\ kind[cur + 1] # StreamError
  /\ cur' = cur + 1
  /\ mixed' = mixed \cup {cur + 1}
  /\ queue' = Enqueue(cur + 1)
  /\ pc' = IF Waiters = {} THEN "batch" ELSE "scan"
  /\ UNCHANGED <<wireVars, conn, dead, batchEnd, cancelled, dropped, scanVars,
                 taskVars>>

\* _handleStanza of a stream error closes the transport and returns.
HandleStreamError ==
  /\ pc = "batch"
  /\ cur < batchEnd
  /\ kind[cur + 1] = StreamError
  /\ conn # "lost"
  /\ cur' = cur + 1
  /\ conn' = "closing"
  /\ UNCHANGED <<wireVars, queue, mixed, dead, pc, batchEnd, cancelled,
                 dropped, scanVars, taskVars>>

\* The same after connection_lost: None has no close(), an AttributeError.
HandleStreamErrorLate ==
  /\ pc = "batch"
  /\ cur < batchEnd
  /\ kind[cur + 1] = StreamError
  /\ conn = "lost"
  /\ GiveUpBatch
  /\ UNCHANGED <<wireVars, conn, queue, mixed, cancelled, taskVars>>

\* The scan moves to the next queued stanza and lists the futures not done.
NextQueued ==
  /\ pc = "scan"
  /\ snapshot = {}
  /\ \E i \in queue : IsFirst(i, {j \in queue : j > item}) /\ item' = i
  /\ snapshot' = Pending
  /\ UNCHANGED <<wireVars, conn, queue, mixed, parserVars, stale, taskVars>>

EndScan ==
  /\ pc = "scan"
  /\ snapshot = {}
  /\ \A i \in queue : i <= item
  /\ item' = 0
  /\ pc' = "batch"
  /\ UNCHANGED <<wireVars, conn, queue, mixed, dead, cur, batchEnd, cancelled,
                 dropped, snapshot, stale, taskVars>>

Matches(t, i) == kind[i] \in want[t]

\* matchStanza on a future whose task has seen the stanza, or does not want
\* it: the stanza is marked as seen and the scan goes on.
TestMisses(t) ==
  /\ pc = "scan"
  /\ t \in snapshot
  /\ item \in seen[t] \/ ~Matches(t, item)
  /\ seen' = [seen EXCEPT ![t] = @ \cup {item}]
  /\ snapshot' = snapshot \ {t}
  /\ stale' = stale \ {t}
  /\ UNCHANGED <<wireVars, conn, queue, mixed, parserVars, item, fut, want,
                 since, result, got>>

\* Wrong variants: the result is forgotten; and the xpaths are not looked at.
TestMatches_NoResult(t) ==
  /\ pc = "scan"
  /\ t \in snapshot \ stale
  /\ item \notin seen[t] /\ Matches(t, item)
  /\ seen' = [seen EXCEPT ![t] = @ \cup {item}]
  /\ fut' = [fut EXCEPT ![t] = "done"]
  /\ snapshot' = snapshot \ {t}
  /\ pc' = "yield"
  /\ UNCHANGED <<wireVars, conn, queue, mixed, dead, cur, batchEnd, cancelled,
                 dropped, item, stale, want, since, result, got>>

TestMatches_Anything(t) ==
  /\ pc = "scan"
  /\ t \in snapshot \ stale
  /\ item \notin seen[t]
  /\ seen' = [seen EXCEPT ![t] = @ \cup {item}]
  /\ fut' = [fut EXCEPT ![t] = "done"]
  /\ result' = [result EXCEPT ![t] = item]
  /\ snapshot' = snapshot \ {t}
  /\ pc' = "yield"
  /\ UNCHANGED <<wireVars, conn, queue, mixed, dead, cur, batchEnd, cancelled,
                 dropped, item, stale, want, since, got>>

\* matchStanza on a live future that wants the stanza: the future gets its
\* result and the parser task yields to the event loop.
TestMatches(t) ==
  /\ pc = "scan"
  /\ t \in snapshot \ stale
  /\ item \notin seen[t] /\ Matches(t, item)
  /\ seen' = [seen EXCEPT ![t] = @ \cup {item}]
  /\ fut' = [fut EXCEPT ![t] = "done"]
  /\ result' = [result EXCEPT ![t] = item]
  /\ snapshot' = snapshot \ {t}
  /\ pc' = "yield"
  /\ UNCHANGED <<wireVars, conn, queue, mixed, dead, cur, batchEnd, cancelled,
                 dropped, item, stale, want, since, got>>

\* matchStanza on a future that a timeout cancelled while the scan yielded:
\* set_result raises InvalidStateError.
TestCancelled(t) ==
  /\ pc = "scan"
  /\ t \in snapshot \cap stale
  /\ item \notin seen[t] /\ Matches(t, item)
  /\ seen' = [seen EXCEPT ![t] = @ \cup {item}]
  /\ GiveUpBatch
  /\ UNCHANGED <<wireVars, conn, queue, mixed, cancelled, fut, want, since,
                 result, got>>

\* A wrong variant: the scan stops at its first match.
Resume_EndsScan ==
  /\ pc = "yield"
  /\ ~cancelled
  /\ pc' = "batch"
  /\ item' = 0 /\ snapshot' = {} /\ stale' = {}
  /\ UNCHANGED <<wireVars, conn, queue, mixed, dead, cur, batchEnd, cancelled,
                 dropped, taskVars>>

\* sleep(0) returns, or raises the CancelledError of a close() meanwhile.
Resume ==
  /\ pc = "yield"
  /\ ~cancelled
  /\ pc' = "scan"
  /\ UNCHANGED <<wireVars, conn, queue, mixed, dead, cur, batchEnd, cancelled,
                 dropped, scanVars, taskVars>>

ResumeCancelled ==
  /\ pc = "yield"
  /\ cancelled
  /\ cancelled' = FALSE
  /\ GiveUpBatch
  /\ UNCHANGED <<wireVars, conn, queue, mixed, taskVars>>

-----------------------------------------------------------------------------
(* The application's tasks.                                                *)

Unseen(t, ks) == {i \in queue \ seen[t] : kind[i] \in ks}

\* Wrong variants: what is returned is not marked as seen; and the queue is
\* searched from its end.
WaitFinds_Unmarked(t, ks) ==
  /\ ParserAwaits
  /\ fut[t] = "none"
  /\ \E i \in Unseen(t, ks) : /\ IsFirst(i, Unseen(t, ks))
                              /\ got' = [got EXCEPT ![t][i] = @ + 1]
  /\ UNCHANGED <<wireVars, conn, queue, mixed, parserVars, scanVars, seen, fut,
                 want, since, result>>

WaitFinds_NewestFirst(t, ks) ==
  /\ ParserAwaits
  /\ fut[t] = "none"
  /\ \E i \in Unseen(t, ks) :
       /\ \A j \in Unseen(t, ks) : j <= i
       /\ seen' = [seen EXCEPT ![t] = @ \cup {j \in queue : j >= i}]
       /\ got' = [got EXCEPT ![t][i] = @ + 1]
  /\ UNCHANGED <<wireVars, conn, queue, mixed, parserVars, scanVars, fut, want,
                 since, result>>

\* wait() finds a stanza in the queue and returns it at once.  The stanzas
\* before it have been shown to the task, those after it have not.
WaitFinds(t, ks) ==
  /\ ParserAwaits
  /\ fut[t] = "none"
  /\ \E i \in Unseen(t, ks) :
       /\ IsFirst(i, Unseen(t, ks))
       /\ seen' = [seen EXCEPT ![t] = @ \cup {j \in queue : j <= i}]
       /\ got' = [got EXCEPT ![t][i] = @ + 1]
  /\ UNCHANGED <<wireVars, conn, queue, mixed, parserVars, scanVars, fut, want,
                 since, result>>

\* wait() finds none: its future joins _waiter_futures.
WaitRegisters(t, ks) ==
  /\ ParserAwaits
  /\ fut[t] = "none"
  /\ Unseen(t, ks) = {}
  /\ seen' = [seen EXCEPT ![t] = @ \cup queue]
  /\ fut' = [fut EXCEPT ![t] = "pending"]
  /\ want' = [want EXCEPT ![t] = ks]
  /\ since' = [since EXCEPT ![t] = cur]
  /\ UNCHANGED <<wireVars, conn, queue, mixed, parserVars, scanVars, result, got>>

\* The future of the task leaves _waiter_futures, and what it held goes with it.
Forget(t) ==
  /\ fut' = [fut EXCEPT ![t] = "none"]
  /\ result' = [result EXCEPT ![t] = 0]
  /\ since' = [since EXCEPT ![t] = 0]
  /\ want' = IF t \in snapshot THEN want ELSE [want EXCEPT ![t] = {}]

\* The task runs again after its future was done (a timer that has also run
\* out makes no difference): wait() returns and the future leaves the list.
WaitReturns(t) ==
  /\ ParserAwaits
  /\ fut[t] = "done"
  /\ got' = [got EXCEPT ![t][result[t]] = @ + 1]
  /\ Forget(t)
  /\ UNCHANGED <<wireVars, conn, queue, mixed, parserVars, scanVars, seen>>

\* The timeout of wait_for: the future is cancelled and leaves the list, but
\* not the snapshot a suspended scan may hold, where it keeps its xpaths.
WaitTimesOut(t) ==
  /\ ParserAwaits
  /\ t \in TimedTasks
  /\ fut[t] = "pending"
  /\ Forget(t)
  /\ stale' = stale \cup ({t} \cap snapshot)
  /\ UNCHANGED <<wireVars, conn, queue, mixed, parserVars, item, snapshot, seen,
                 got>>

\* Stream.close(): the transport is closed and the parser task cancelled.  A
\* CancelledError raised in queue.get() is swallowed there; one raised in
\* sleep(0) ends the work on the chunk.
Close ==
  /\ MayClose
  /\ ParserAwaits
  /\ conn' = IF conn = "open" THEN "closing" ELSE conn
  /\ cancelled' = (pc = "yield")
  /\ UNCHANGED <<wireVars, queue, mixed, dead, pc, cur, batchEnd, dropped,
                 scanVars, taskVars>>

-----------------------------------------------------------------------------
Parser ==
  \/ GetChunk \/ ParseFails \/ EndChunk
  \/ HandleStanza \/ HandleStreamError \/ HandleStreamErrorLate
  \/ NextQueued \/ EndScan
  \/ \E t \in Tasks : TestMisses(t) \/ TestMatches(t) \/ TestCancelled(t)
  \/ Resume \/ ResumeCancelled

Task(t) ==
  \/ \E ks \in SUBSET (Kinds \ {StreamError}) \ {{}} :
       WaitFinds(t, ks) \/ WaitRegisters(t, ks)
  \/ WaitReturns(t)
  \/ WaitTimesOut(t)

Next ==
  \/ \E m \in Ids : DataReceived(m) \/ DataUndecodable(m)
  \/ ConnectionLost
  \/ Parser
  \/ \E t \in Tasks : Task(t)
  \/ Close

Spec == Init /\ [][Next]_vars

\* The ready queue of the event loop is first-in first-out, so the parser task
\* runs on, and a task whose future is done runs however often the parser
\* task has run in between.  Nothing obliges a peer to send or a task to wait.
FairSpec ==
  /\ Spec
  /\ WF_vars(Parser)
  /\ \A t \in Tasks : SF_vars(WaitReturns(t))

-----------------------------------------------------------------------------
(* Properties.                                                             *)

\* Every variable keeps its type (all handlers of stream.py).
TypeOK ==
  /\ kind \in [Ids -> Kinds]
  /\ arrived \in 0 .. MaxStanzas
  /\ chunks \subseteq Ids /\ undecoded \subseteq Ids
  /\ conn \in {"open", "closing", "lost"}
  /\ pc \in {"get", "batch", "scan", "yield"}
  /\ cur \in 0 .. MaxStanzas /\ batchEnd \in 0 .. MaxStanzas
  /\ pc \in {"scan", "yield"} => cur \in Ids
  /\ cancelled \in BOOLEAN /\ dead \in BOOLEAN
  /\ dropped \subseteq Ids
  /\ queue \subseteq Ids /\ mixed \subseteq Ids
  /\ item \in 0 .. MaxStanzas /\ (snapshot # {} => item \in Ids)
  /\ snapshot \subseteq Tasks /\ stale \subseteq snapshot
  /\ seen \in [Tasks -> SUBSET Ids]
  /\ fut \in [Tasks -> {"none", "pending", "done"}]
  /\ want \in [Tasks -> SUBSET Kinds]
  /\ since \in [Tasks -> 0 .. MaxStanzas]
  /\ result \in [Tasks -> 0 .. MaxStanzas]
  /\ \A t \in Tasks : fut[t] = "done" => result[t] \in Ids
  /\ got \in [Tasks -> [Ids -> Nat]]

\* No task is ever given the same stanza by two of its waits, although both
\* wait() itself and the parser's scan hand out what is in the queue.
AtMostOnce == \A t \in Tasks, i \in Ids : got[t][i] <= 1

\* The future of a wait is completed with a stanza that this wait asked for,
\* not one that an earlier wait of the same task did (matchStanza).
ResultIsWanted ==
  \A t \in Tasks : fut[t] = "done" => /\ result[t] \in 1 .. cur
                                      /\ Matches(t, result[t])

\* A task is given stanzas in the order they arrived: what wait() returns is
\* newer than everything it has returned to this task before.
InOrder ==
  [][\A t \in Tasks, i \in Ids :
       got'[t][i] # got[t][i] => \A j \in Ids : got[t][j] > 0 => j < i]_vars

\* No wait sleeps on a stanza it asked for and that came while it waited: when
\* the parser task is back in queue.get(), what is in the queue, and was taken
\* up after the future was made, does not match it (_handleStanza's scan).  The
\* exception are the stanzas whose handling an exception cut short.  A stanza
\* an earlier wait of the same task has passed over does not come back, as the
\* comment in wait() says, and is no matter of this one.
NoLostWakeup ==
  pc = "get" =>
    \A t \in Pending, i \in queue \ dropped : i > since[t] => ~Matches(t, i)

\* The stanza that the bounded queue drops has been shown to everyone who
\* waits, unless an exception cut its own handling short.
EvictedWasSeen ==
  [][\A i \in queue \ queue', t \in Pending : i \in seen[t] \cup dropped]_vars

\* The promise of Mixin.onStanza, "Called for each incoming Stanza": on an open
\* stream all of whose chunks could be decoded, what the parser task is done
\* with has been given to the mixins.
MixinsSeeEveryStanza ==
  conn = "open" /\ undecoded = {} =>
    \A i \in 1 .. cur : kind[i] # StreamError => i \in mixed

\* Every stanza received is eventually given to the mixins, but for those in a
\* chunk that could not be decoded (data_received) and those that an exception
\* made the parser task drop (_run): close() and timeouts cost no other.
EveryStanzaIsHandled ==
  \A i \in Ids :
    (i <= arrived /\ kind[i] # StreamError)
      ~> (i \in mixed \cup undecoded \cup dropped)

\* A task that waits for a stanza that has been received, in a chunk that could
\* be decoded (data_received), gets out of wait(), unless an exception cut the
\* handling of this very stanza short.
WaiterIsServed ==
  \A t \in Tasks, i \in Ids :
    (/\ fut[t] = "pending" /\ Matches(t, i)
     /\ cur < i /\ i <= arrived /\ i \notin undecoded)
      ~> (fut[t] = "none" \/ i \in dropped)
=============================================================================
