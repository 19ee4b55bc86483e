# A TLA+ development of vexmpp

vexmpp is an asyncio XMPP library: a client opens a socket, negotiates TLS,
authentication and a session on it, and from then on exchanges stanzas, which
a set of *mixins* (roster, presence, chat rooms, file transfer, ...) and the
application's own tasks consume. This directory holds TLA+ models of its core,
the TLC configurations that check them, and machine-checked proofs about the
stream, its transport, the negotiation, the login, an open session with its
roster, presences and rooms, file transfers, JIDs, errors and the order of
presences.

Everything in vexmpp runs on one event loop. There are no data races; the hard
behaviour comes from what may happen at each `await`: a timeout, a close, a
lost connection, another stanza, another task. The models therefore take one
stretch of code between two awaits, or a part of one, as a step.

To check: `tlc -config StreamTimed.cfg MCStream.tla` (likewise for the other
runs below), `tlapm StreamProofs.tla` (likewise for the other `*Proofs.tla`).

## 1. Inventory

| Component (under `src/vexmpp/`) | State | Operations | Status |
|---|---|---|---|
| **Stream** `stream.py` | `_transport`, `_stanza_queue` (a deque of 10), `_waiter_futures`, each queued stanza's `task_set`, the parser task and its queue of chunks | `send`, `wait`, `close`, `_handleStanza`, `matchStanza`, `data_received`, `connection_lost` | modelled and proved: `Stream`, `StreamProofs` |
| **STARTTLS transport** `ssl_transport.py` | `_state` (7 states), `_buffer`, `_closing`, the two crossed-readiness flags, the loop's reader and writer slots, the waiter future, the post-handshake callback | `starttls`, `write`, `close`, `abort`, the loop's callbacks `_read_ready`, `_write_ready`, `_tls_do_handshake`, `_tls_do_shutdown` ... | modelled: `Transport`, `TransportContract`; proved: `TransportProofs` |
| **Client negotiation** `client.py`, `features/`, `protocols/{iqregister,resourcebind,sessionbind}.py` | where `negotiate()` is, `features`, the TLS option, `creds.jid`, `_tls_active`; what `connect()` has signalled | `negotiate`, `_reopenStream`, the `handle` of each feature, `connect`, `postSession` | partly: `Negotiation` and, around and within it, `Login`; proved: `NegotiationProofs`, `LoginProofs` |
| **XML stream parser** `parser.py` | expat state, stack of elements, `end_of_stream` | `parse`, `reset` | only its resets, in `Negotiation` |
| **Stanzas** `stanzas.py` | lxml elements | accessors, presence ordering, ids | the ordering: `Presence`, proved in `SessionProofs` |
| **Errors** `errors.py` | tables of conditions | classes from tables, elements from errors, errors from elements | `Errors`, proved in `ErrorsProofs` |
| **JIDs** `jid.py`, `_stringprep.py` | the table of interned JIDs, under a lock | `_parse`, `_prep`, `full`, `bare`, `internJid` | `Jid`, proved in `JidProofs` |
| **Roster** `protocols/iqroster.py` | `Roster._items` | `postSession`, pushes, `add`, `update`, `remove` | `Roster`, in `Session`; proved in `SessionProofs` |
| **Presence** `protocols/presence.py` | cache jid -> resource -> presence, own presence | `onStanza`, the acknowledging mixins, `iterpres` | `Presence`, in `Session`; proved in `SessionProofs` |
| **Chat rooms** `protocols/muc.py` | rooms and their occupants | `enterRoom`, `kick`, `leaveRoom`, `onStanza` | `Muc`, in `Session`; proved in `SessionProofs` |
| **File transfer** `protocols/file_transfer.py` | what each end waits for, the block number, the temporary file and its descriptor | `sendFile`, `ibbSendFile`, `receiveFile`, `ibbReceiveFile`, `File` | modelled and proved: `FileTransfer`, `FileTransferProofs` |
| **Disco** `protocols/disco.py` | what the server and its services are | `postSession`, `update` | `Disco`, in `Login`; proved in `LoginProofs` |
| **Resolver** `utils.py` | `_dns_cache`, shared by all streams | `resolveHostPort` | `Resolver`, in `Login`; proved in `LoginProofs` |
| **SASL engine** `suelta/` | the mechanism, its step | `choose_mechanism`, `process` of each mechanism | `Sasl`, in `Login`; proved in `LoginProofs` |
| **Data forms, small protocols** xdata, time, version, vCard, stream-management counters | none, or a counter nobody reads | accessors; one request, one answer | not modelled |
| **Metrics**, **vex command line** | counters; arguments | | not modelled |

### How they interact

```
   application tasks      mixins           ClientStream.negotiate()
        | wait()/send()     ^ onStanza        | send()/wait(), starttls()
        v                   |                 v
   +---------------------- Stream ------------------------+
   |  _stanza_queue   _waiter_futures   ParserTask        |
   +---------^--------------------------------------+-----+
             | data_received, connection_made,      | write, close,
             | starttls_made, connection_lost       v starttls
   +------------------ STARTTLSTransport -----------------+
   |   reader / writer slots, buffer, OpenSSL connection  |
   +-------------------------- event loop ----------------+
```

The transport calls the stream from the loop's callbacks. The stream queues
chunks for its parser task, which parses a chunk into stanzas and, for each,
schedules the mixins, appends it to the bounded queue and scans the waiting
futures. The negotiation is a client of the two: it sends, waits, resets the
parser and tells the transport to start TLS. Before it, `connect()` resolves
the host, through a cache that all streams share; in it, the SASL feature drives
the engine of `suelta/`; after it, `postSession()` of each mixin asks for roster
and services before `connect()` returns. From then on every stanza is first
given to the mixins, each in a task of its own, and then to whoever waits for
it, and a task that is woken relies on what the mixins have made of it.

### What is hard

* The scan of `_handleStanza` **yields in its middle** (`sleep(0)`,
  stream.py:265) while it holds a list of futures taken before. Waits,
  timeouts, closes and lost connections run there.
* A stanza reaches a task in **two ways** (by `wait()` from the queue, by the
  scan), and the memory of what a task has seen is per task, not per wait.
* The queue is **bounded**: a burst may push out what somebody still wants.
* `_read_ready` and `_write_ready` **call each other** when OpenSSL wants to
  read in order to write or the reverse, and both may run the close and the
  shutdown; slots of the loop are swapped, removed and reinstalled.
* Closing is **spread** over the buffer, the TLS shutdown, the raw shutdown and
  a scheduled `connection_lost`.
* An answer to a task and a push to a mixin are applied by **different tasks**:
  whether the roster is right depends on the order in which the loop runs them.
* A presence means something only **after others**: the same stanza opens a room,
  fills it, renames somebody or closes it.
* The resolver **awaits in the middle of a recursion** over a cache that another
  call fills meanwhile.
* The negotiation reads stanzas from the queue after **the connection that
  brought them may be gone**, and resets the parser **between two documents**
  that are not separated in the byte stream.

What would make each component correct: *Stream* - nobody is given a stanza
twice, out of order or unasked, nobody sleeps on one he wants, no stanza is
lost to the mixins; *Transport* - callbacks in their order, one report of a
loss, no buffered byte forgotten, no handshake or close left hanging;
*Negotiation* - no credentials in the clear where TLS is required, agreement of
the two ends on what was negotiated, an end in bounded time; *File transfer* -
success means the whole file, failure leaves nothing behind; *Roster, presences*
- copies of what the server has published, never older than they were; *Rooms* -
the occupants the server has told of; *Resolver* - an address of a host that was
asked for, with its port; *SASL* - the strongest mechanism both sides know;
*Disco* - complete when the session starts; *JIDs, errors* - what is written is
read back. The full list of
hazards, each at its line with the properties that watch it, is in
`PROJECT.json`.

## 2. The modules

### Stream (`stream.py`)

A stanza is its position `1 .. arrived` in the order of arrival; `kind[i]` is
all an xpath can tell of it. The parser task's place is `pc`: `get` (in
`queue.get()`), `batch` (working on a chunk), `scan` (in the double loop of
`_handleStanza`), `yield` (in `sleep(0)`). Application and transport steps are
enabled only in `get` and `yield`, the places where the task awaits.

| Variable | Code |
|---|---|
| `chunks` | `ParserTask._data_queue`, a chunk as the last stanza it completes |
| `queue`, `QueueLen` | `Stream._stanza_queue`, its `maxlen` |
| `seen[t]` | the stanzas whose `task_set` contains task `t` |
| `fut[t]`, `want[t]`, `result[t]` | `t`'s future in `_waiter_futures`, its xpaths, its result |
| `dead` | the parser hands out nothing more (expat has failed on what an undecodable chunk left) |
| `snapshot`, `stale` | the list comprehension of 259, and the futures in it that a timeout has cancelled since |
| `mixed` | stanzas for which the mixins' tasks were created |
| `got`, `since` | history: what `wait()` returned; what had been taken up when a wait began |
| `undecoded`, `dropped` | history: the stanzas lost with a chunk that could not be decoded; those whose handling an exception cut short |

`TestMisses`, `TestMatches` and `TestCancelled` are the three outcomes of
`matchStanza`; `WaitFinds` and `WaitRegisters` the two of `wait()` before it
awaits; `WaitReturns` and `WaitTimesOut` the two after. An exception anywhere
in the handling of a stanza ends in `ParserTask._run`'s handlers and costs the
rest of the chunk (`GiveUpBatch`), whose stanzas are `dropped`: it may be the `InvalidStateError` of a
cancelled future, the `CancelledError` of a `close()` during the yield, or the
`AttributeError` of a stream error handled after `connection_lost`. The last
two handlers leave the task running: a `CancelledError` in `queue.get()` is
swallowed too, so `close()` never ends the parser task, and the model has no
step in which it ends.

`data_received()` has an exception of its own: it decodes the bytes for a debug
message before it queues them, so a read that ends inside a multi-byte character
is lost as a whole (`DataUndecodable`), although the stream stays open; the
parser then finds a hole in its document, and may fail on what follows
(`ParseFails`).

Abstracted: the order in which one scan visits the futures (the list is a set,
every order is allowed); asyncio's cancelling of timers; an `OSError` of
`transport.close()` in the stream-error branch; the bodies of the mixins.

### Transport and TransportContract (`ssl_transport.py`)

The event loop is explicit: `ready` is its FIFO queue as far as this transport
goes, `reader` and `writer` are the callbacks of its two slots, and replacing
or removing a slot cancels its queued handle (`Slots`, by `Cancel`). Because the
callbacks nest, what is left to run of one is a `stack` of parts: `_read_ready` with a
pending TLS write becomes `write_ready`, `more_to_write`, `recv`. An exception
that leaves the callback empties the stack (`Raise`); client calls are possible
when it is empty (`Idle`). What the socket, OpenSSL and the peer answer is a
free choice, within two limits: a `do_handshake` cannot finish in the call that
starts it, and no application data comes before the handshake is over.

The constants choose what the surroundings may do: `StarttlsModes` and
`PostModes` how the transport is created; `KeepOpen` what the protocol answers
at the end of the stream; `MayAbort` and `Careful` what the client calls. A
handshake may always wait to read or to write, the raw `shutdown()` may always
fail (`RawShutdown`), and `data_received()` may always raise (`RecvRaises`), as
the stream's does. The last two leave a callback with its work undone, which
`raised` records. `Careful` is a client that does not start TLS
with data still buffered, does not write during a handshake and does not close
while a post-handshake callback is pending. vexmpp itself is such a client in
the negotiation; an application that calls `send()` from another task is not.

`TransportContract` is the abstract specification: what the protocol object
(Stream) takes for granted about the calls it gets. `Contract == INSTANCE
TransportContract` over the history variables `phase` and `data`, and
`KeepsContract` is checked as a refinement.

Where the code is read more narrowly than it looks: pyOpenSSL's `recv` raises
at the end of a TLS stream and does not return `b""`, so the TLS half of
`_eof_received` (471-484) is not reachable; `RecvFails` covers it. `abort()`
calls `_force_close` without its argument (502), a `TypeError`; the clean-up
after `connection_lost` dereferences a `_tls_conn` that is `None` when TLS was
never started (235), an `AttributeError`. Both are in the model (`Abort`,
`RunConnectionLost`). `AbortCloses` and `LostIsCleaned` state what the docs
promise there; they are one-step consequences of those two lines and no run is
spent on them.

### Negotiation (`client.py`, `features/`)

`negotiate()` is one task, `pc` the `wait()` it is in; the names of the waits
are the domain of `Awaited`. Each action takes the awaited stanza and runs to
the next wait. Below it, `Parse` is the parser task and the parser: expat
accepts one document only, so the header of a reopened stream must meet a
reset parser, and a stanza of the old document must not. The server keeps to
the protocol but offers any features, refuses at will, adds challenges and
unrelated stanzas, sends a stream error or goes away at any moment; how often it
challenges is not bounded. `opts` are the client's options: the TLS option,
whether a `register_cb` was given, whether the stream management mixin is
present, and the timeout: none, a fraction of a second, or more. Of a fraction,
the default that the stream keeps is truncated to nothing (stream.py:287), so a
wait that is not given the timeout itself, the one for the registration form
(client.py:92), has none (`InForce`).

`Negotiation` builds on the other two by what they show: `Stream`'s
`AtMostOnce`, `InOrder` and `NoLostWakeup` let the queue be a sequence that one
task consumes from its head; `Transport`'s `SecureOnReturn` lets `starttls()`
and `_tls_active` change in one step.

Abstracted: the mechanisms' messages (a mechanism is unknown, raises, answers
or succeeds), the content of the registration form. The loop over
`postSession()` at the end of `negotiate()` is not in this module: that of the
service discovery is in `Login`, that of the roster in `Session`.

### FileTransfer (`protocols/file_transfer.py`)

Each end is one task that waits for one stanza at a time (`s`, `r`), and what
the other has sent and it has not taken is a channel (`toR`, `toS`); both go
through `Stream`, so `PassOver` drops what is not awaited, and its properties
justify the channels. `link` is open, lost, or open with the transport of one
end closing: from then on that end's `send()` raises (`Sends`), which in
`receiveFile()` is caught by nobody. A file is the sequence of its blocks, a stanza its name
and, for data, the number and the block. `fd` and `tmp` are the descriptor and
the temporary file of class `File`; `cut` records that `os.write()` stored a part
of a block only, which the code does not look at. `r = "raised"` is an end of
`receiveFile()` from within its loop, past all its handlers: a failing
`os.write()`, a failing `send()`, or a cancellation by the application.

Either end may be another implementation (`pair`): another receiver answers
every request and gives up at will, another sender sends any stanzas in any
order, with any numbers and contents. This is not only for breadth:
`sendFile()` opens the bytestream (281), `ibbSendFile()` opens it again (299),
and `ibbReceiveFile()` answers one open only, so two vexmpp ends never get
beyond that point. With timeouts both fail and clean up (`EveryoneEnds`,
`DiskIsClean`); without, both wait for ever.

Abstracted: the contents of the stream-initiation form; that each end has a
connection of its own (one `link` stands for both, and one end at a time closes).

### Session: Roster, Presence, Muc (`iqroster.py`, `presence.py`, `muc.py`)

Each mixin is a module with its state and its `onStanza()` as an operator on a
stanza; `Session` has all three on one stream, with a server and two tasks of an
application. `Stream` leaves the order of ready tasks open; `Session` makes the
loop's FIFO explicit (`ready`, of handles), because the order is the question:
the mixin tasks of a stanza are scheduled before the scan (`RunMixins`), a
future that is completed schedules its task (`Match`, `Resume` with "wake"), and
the parser's yield puts it behind them (`ParserSleeps`). A `wait()` that finds
its stanza in the queue goes on without any of this (`Queued`, "found").

| Variable | Code |
|---|---|
| `roster`, `cache`, `ownPresence`, `rooms` | `Roster._items`, `PresenceCache` and `_self_presence`, `_muc_rooms` |
| `parsed`, `applied` | how much of `sent` the parser has handled, the mixins have been run for |
| `scan`, `waiting`, `tested`, `got` | as `snapshot`, pending `fut`, `seen`, `result` of `Stream` |
| `pc` | the `await` a task is in: of `postSession`, `enterRoom` (three), `leaveRoom`, a roster set |
| `rosterLog`, `presenceLog`, `roomLog` | the server: every version of what it has published |

`Replica` is the abstract specification: a copy that follows the published
versions, never back, and is always one of them exactly. `RosterReplica` and
`PresenceReplica` instantiate it (`INSTANCE Replica WITH`) with the server's
versions, the number of the last one applied, and the mixin's dictionary as the
copy; `RosterIsReplica` and `PresenceIsReplica` check the refinement. The
dictionaries of the three mixins are functions whose domain grows and shrinks
(`Dict`). The status codes of a room that the server may choose from are in one
place, `Codes`.

Abstracted: of a roster item only its subscription, of a presence only who and
whether; timeouts (of the waits of `enterRoom` and `sendAndWait`), with which the
states are beyond a run; the acknowledging mixins, which have no state, are
operators of `Presence` only; `waitForUpdate()`, which looks for its event under
an attribute that does not exist, so that nobody can wait for it.

### Login: Resolver, Sasl, Disco (`client.py`, `utils.py`, `suelta/`, `disco.py`)

`Login` is `connect()` from its first line to `sessionStarted`, for several
streams of one process. `phase` is the `await` it is in. `Resolver` is a machine
with a stack of frames, since the function calls itself; two calls share
`dnsCache` and take turns at each DNS query, which may be answered, empty or
fail. Where the code draws a record by weight, any may be drawn. The cache is a
Python dict, a function whose domain grows (`Dict`). `Sasl` is
operators only: which mechanism is chosen, and what kind of message each sends
at each step; `Login` exchanges them with a server that knows the password
(`Expects` is what it waits for). `login[c]` has what decides over success before
the first message: the user (`Users`: one whose name SCRAM would have to escape
is a case of its own), whether `saslprep` accepts the password (`prepared`), TLS,
and the offer; and `fits`, whether all challenges so far have made sense
(`GetBadChallenge` is one that does not, for instance with a foreign nonce). `Disco` is the cache that `postSession()`
fills. What lies between (TLS, the bind) is `Negotiation`, and not repeated.

`Followed` are the streams whose SASL and discovery are followed to the end;
the others stop when they are connected, having had their effect on the cache.

Abstracted: one hash for each family of mechanisms; the arithmetic of the
answers; the weights of SRV records; the stash of passwords, `success()`,
`failure()` and `okay()` of the engine, which `features/sasl.py` never calls; of
`saslprep` all but whether it raises. The server is taken to read names and
passwords as UTF-8 under DIGEST-MD5 too, whose answer does not say that they
are.

### Jid, Errors (`jid.py`, `errors.py`)

Pure conversions, stated over all strings and elements and therefore proved and
not run. In `Jid` a string is a sequence of characters and `_parse` cuts it as
the code does; the stringprep profiles are operators, and `Stable` is what is
assumed of them. In `Errors` an element is a record of what the code looks at.

## 3. The runs

| Run | What it checks | Distinct states | Shows |
|---|---|---|---|
| `StreamTimed` | `TypeOK AtMostOnce ResultIsWanted NoLostWakeup`, `InOrder EvictedWasSeen` | 2.8 million | With timeouts, `close()` and undecodable chunks, each task is given stanzas at most once, in order and as asked; nobody sleeps on one that came while he waited, and the queue drops none that a waiter has not been shown |
| `StreamLive` | `EveryStanzaIsHandled WaiterIsServed` | 230 thousand | With the same: every stanza gets to the mixins and every wait for a stanza that comes returns, but for the stanzas an exception is known to cost |
| `StreamAborted` (violation) | `MixinsSeeEveryStanza` | | With one timeout a stanza can be lost to the mixins |
| `TransportOrder` | `TypeOK LossIsReported SecureOnReturn ShutdownAfterDrain`, `KeepsContract ClosedIsFinal` | 59 thousand | Whatever client, peer and socket do, the protocol's calls come in their order and a close is final and reported once |
| `TransportServed` | `BufferIsServed ReaderIsServed VerifiedFirst`, `HandshakeIsKept CloseCompletes` | 19 thousand | For a careful client no slot is lost in the exchange between reads and writes but the one `HandshakeIsKept` names, and a close completes, unless an exception has left a callback half done |
| `TransportStuck` (violation) | `BufferIsServed` | | A client that has data buffered when the handshake ends never sees it sent |
| `TransportHang` (violation) | `WaiterIsSettled` | | A close during the handshake leaves `starttls()` waiting |
| `NegotiationAll` | `TypeOK CredentialsNeedTls FeaturesAreFresh DoneIsAgreed ParserSurvives`, `NegotiationEnds` | 1.2 million | For three clients and every server behaviour; with a timeout all waits end but the three that `NegotiationEnds` names |
| `NegotiationReturns` (violation) | `ReturnsConnected` | | `connect()` may return a stream that has no connection |
| `FileTransferAll` | `TypeOK DoneIsComplete AckedIsStored DiskIsClean`, `EveryoneEnds` | 81 thousand | Between vexmpp and itself or another implementation: whoever is told of success has the whole file or knows the other end has it, the two ends are never more than a block apart, a file is left behind by an exception from within the loop only, and with timeouts both end |
| `SessionAll` | `TypeOK EmptyWasUnknown RoomTracksOccupants AppliedBeforeWake`, `RosterIsReplica PresenceIsReplica` | 754 thousand | Roster and presences follow the server, a woken task finds its stanza applied, and rooms have the occupants the server has told of, with two exceptions that are named in the property |
| `LoginAll` | `ResolvedIsAsked FailuresAreKnown DiscoIsComplete` | 1.4 million | Whoever filled the cache, a client connects to a host it asked for; with sound challenges authentication succeeds except, and never, where it was hopeless from the start; the services are known when the session starts |

What is excepted in a property is a behaviour of the code that the model has; the
property then says that there is no other. These are the exceptions:

* `NoLostWakeup` is about what came while the wait lasted. `task_set` is kept per
  task, not per wait: a stanza that an earlier wait of the task has passed over,
  whatever it asked for, is hidden from its later ones (stream.py:206-211, "once
  a tasklet has seen a stanza it is skipped").
* `EveryStanzaIsHandled`, `WaiterIsServed`, `NoLostWakeup`, `EvictedWasSeen`: the
  stanzas of an undecodable chunk, and those whose handling an exception ended.
* `BufferIsServed`, `ReaderIsServed`, `CloseCompletes`: an exception of
  `data_received()` in a read that a write has called (417, then 430-433 are
  skipped), or of the raw `shutdown()` (385), which leaves the transport without
  callbacks.
* `HandshakeIsKept`: the reader of the plain stream stays installed while a
  handshake waits to write, and a read that wants to write replaces the
  handshake's writer (406-411).
* `NegotiationEnds`: the TLS handshake has no timeout, nor has the form of the
  registration when the timeout is below a second, and a server may challenge for
  ever. That the others end needs no assumption on the server.
* `DiskIsClean`: a failing `os.write()` or `send()` and a cancellation within the
  loop of `ibbReceiveFile()` leave the file. `DoneIsComplete`: what of a block did
  not fit on the disk is missing.
* `FailuresAreKnown`: `Hopeless` lists the logins that fail although the server
  knows the password: the strongest mechanism offered is one the engine cannot
  finish, a password `saslprep` refuses (suelta/saslprep.py:48), a name with a
  comma or an equals sign under SCRAM (scram_hmac.py:94), `ANONYMOUS` for a client
  without a user where it was not offered. That a weaker mechanism would do makes
  no difference, and the property says so too.

### Bounds

*Stream*: two tasks let one be woken while the scan holds the other's future;
three stanzas against a queue of two make it overflow in the middle of a scan;
two ordinary kinds let a stanza be wanted by one wait and not by another, and
the error kind reaches the third branch. `StreamLive` uses two stanzas: a
chunk with one before and one after the yield. *Transport*: two buffered chunks
tell a partial write from a whole one; everything else is finite by itself.
*Negotiation*: one stray stanza gives every `wait()` something to pass over;
challenges are not bounded; the three clients have both values of every option
at least once, and a registration under a whole and under a fractional timeout. The resource is the one asked for or another.
*FileTransfer*: files of none, one and two blocks and one beyond the receiver's
limit; six stanzas of another sender are a complete transfer of two blocks and
one stanza that does not belong. It sends a stanza when the last one has been
taken, which loses nothing, as the receiver sees them one by one in any case.
*Session*: each behaviour has one of four scenarios, which say what the server
sends unasked and how often, and what the application calls: the roster with two
pushes and two calls; three presences; a room with three calls and one event;
and one event with two calls of all three, for what they do to each other. One
contact is enough for the roster, whose items do not meet; two resources of one
account for a dictionary that is emptied; two tasks, one to be woken while the
scan has the other. A queue of two overflows. *Login*: two calls, of which one
may find the other's records in the cache, asked for one host, the other, or an
address; SRV records that lead on, to themselves, or in a circle; `MaxDepth`
stands for the interpreter's recursion limit, and four frames are two rounds of
the circle. Ten offers have every mechanism as the strongest, each that cannot be
finished with one that could, none at all, and one that the engine does not
know; each is met by every kind of user, with a usable and with an unusable
password, with and without TLS. The module has no type invariant; its
properties are what it has to say.

No run uses deadlock checking: a stream on which no more stanzas come, a
transport that is closed and a negotiation that has ended really stop, and the
bounds stop the environment.

### Fairness

*Stream*: the loop's ready queue is first-in first-out, so the parser task runs
on (weak fairness), and a task whose future is done runs however often the
parser task has run in between (strong fairness: its step is disabled while the
parser works). No peer has to send and no task has to wait.
*Transport*: a callback that runs goes on (weak); the loop takes up what is
ready and `select()` reports a ready socket, although both have to wait for the
running callback (strong). Of the peer it is assumed that it goes on reading,
so that some `send()` drains the buffer, and that it answers a TLS shutdown.
*Negotiation*: the client's task, the parser task and timers run (weak). Neither
the server nor the TLS handshake, for which the code has no timeout
(`features/starttls.py:16`), is assumed to do anything.
*FileTransfer*: both tasks and the timers of their waits run (weak).
*Session*, *Login*: safety only; what makes a waiter run is a property of `Stream`.

### Disagreements between code and documentation

Each of the four violation runs is a finding in `PROJECT.json` with the line it
contradicts:

1. stream.py:353 - `set_result` on a future that a timeout cancelled during the
   scan's yield raises and drops the rest of the chunk; `Mixin.onStanza` is
   documented as "Called for each incoming Stanza".
2. ssl_transport.py:304 - the end of the handshake removes the writer whatever
   is buffered, and `write()` installs one only for an empty buffer; `write()`
   is documented to buffer data during the negotiation.
3. ssl_transport.py:533 - `close()` during a handshake leaves the waiter
   pending; "If any errors occur, the exception is set on the future".
4. client.py:182 - the last answer may be taken from the queue after the
   connection was lost; "The connected stream is returned".

Other observations, not runs: a read that ends inside a multi-byte character is
lost, on a stream that stays open and without any timeout or `close()`, because
`data_received()` decodes it for a debug message (stream.py:269): this is one step
of the model (`DataUndecodable`), contradicts the same docstring as finding 1, and
is excepted by name wherever a property is about what arrives; with a post-handshake callback and a client that
closes while it runs, `_tls_post_handshake` (341) sets a closed transport back
to open, so `ClosedIsFinal` is claimed without a callback only (vexmpp passes
none); a refused
registration is ignored (client.py:99), so `DoneIsAgreed` makes no claim about
it; an empty file fails to verify (file_transfer.py:94) and block numbers are
not wrapped at 65535 (a TODO, 85), so no property claims that every transfer
succeeds.

Observed while modelling the session and the login, each in the model and named
in the property it touches or proved:

* `MucMixin` looks at the first status code only (muc.py:134) and takes every
  own presence that is not available for leaving: after a change of one's own
  nickname the room is gone until the next presence revives it without those
  who have not spoken, and with the codes the other way round a kicked user
  stays in the room (`RoomTracksOccupants` excepts both).
* A removal pushed for an item that is not in the roster adds it
  (iqroster.py:137), so `RosterIsReplica` supposes that a server pushes removals
  of what was there.
* `srv_lookup` is never read in `resolveHostPort`: circles of SRV records end in
  a `RecursionError`, and a record that names its own host loses its port
  (utils.py:216).
* The engine prefers SCRAM-PLUS, OAuth2 and Facebook tokens whenever they are
  offered although it cannot finish them (`Unfinished` in `Hopeless`).
* `StanzaError.xml` writes the type on the condition, `_makeConcreteError` reads
  it from the error: it never survives (`StanzaErrorReadBack`). An empty text
  after the condition is taken for the condition.
* The acknowledging mixins of two clients answer each other without end
  (`AnswersGoOn`), unless a server keeps an answer back.
* `iterpres()` raises for two presences without a priority (`None < None`); the
  theorems about the order are about presences that have one.

## 4. The proofs

### The stream

`StreamProofs` proves about `Stream`, for every set of tasks, kinds, number of
stanzas and queue length, from `StreamAssumption` alone:

* `StreamTypeCorrect` : `Spec => []TypeOK`
* `StreamAtMostOnce`, `StreamResultIsWanted`, `StreamNoLostWakeup` : the safety
  invariants of `StreamTimed`
* `StreamEvictedWasSeen`, `StreamInOrder` : its two action properties

None of the invariants is inductive: that a stanza is not returned twice
depends on what the scan has shown to whom when it was suspended. `IInv`
(`IInvInductive : Spec => []IInv`) adds

* `Pointers` : the positions in the conversation are ordered, and a scan exists
  only while the parser task is in one;
* `SeenIsPrefix` : a task is shown the stanzas of the queue oldest first, so
  what it has seen of the queue is a prefix of it;
* `ScanShown` : every waiting task has seen everything before the scan's item,
  and the item too unless it is still in the snapshot; a member of the snapshot
  that is not stale is pending;
* `Delivered` : whatever was returned is in `seen`, and a pending result is
  newer than everything returned before;
* `Ahead` : whatever a waiting task has not been shown lies ahead of the scan, or
  its handling was cut short;
* `Missed` : what a waiting task has been shown since its wait began is not what
  the wait asked for, from which `NoLostWakeup` follows with `Ahead`.

Each conjunct has a lemma with one step per action. The action properties
follow from `IInv` by the few actions that change the queue or `got`.

### The transport

`TransportProofs` proves about `Transport`, whatever the client, the peer, OpenSSL
and the socket do:

* `TransportTypeCorrect`, `TransportLossIsReported`, `TransportSecureOnReturn`,
  `TransportShutdownAfterDrain`, `TransportVerifiedFirst` : the safety invariants
  of `TransportOrder`, and `VerifiedFirst` of `TransportServed`
* `TransportClosedIsFinal` : the action property
* `TransportKeepsContract` : every behaviour is one of `TransportContract`, with
  `phase` and `data` as they are, step by step

The seven suppose `Safe`: the client is careful, or no post-handshake callback is
given. Without it `LossIsReported`, `KeepsContract` and `ClosedIsFinal` are false -
a client that closes while the callback runs has its transport reopened (341) -
and TLC finds the other four true; vexmpp itself passes no callback.
`TransportOrder` is an instance without one, `TransportServed` one with a careful
client.

What a callback may take for granted depends on the callbacks it is nested in and
on those still queued in the loop. `IInv` adds

* `Scheduled` : the loop's queue holds no handle twice, news of a connection only
  at its head (`Orderly`), and a slot's handle only while the slot is installed;
* `Nested` : below the function that runs, the stack holds only those that wait for
  a call to return (`Layered`), and it is bounded, because `_read_ready` and
  `_write_ready` call each other only where a crossed-readiness flag is set, and
  clear it first (`Weight` counts the flags);
* `WhenClosed`, `WhenHandshaking`, `WhenVerifying` : what is installed, queued and on
  the stack when the transport is closed, in the handshake, or held up by the
  post-handshake callback;
* `Told` : what the protocol has been told fits the state, or the handle that tells
  it is queued; `Settling` : a handshake that fails finds its future pending;
* `Draining` : a TLS shutdown that has begun found an empty buffer.

There is a lemma for each operation of the loop's queue and of the stack
(`Cancel`, `Append`, `Becomes`), and one for each action.

Nothing that has data to write waits for an event nobody will deliver:
`TransportBufferIsServed`, `TransportReaderIsServed`, `TransportHandshakeIsKept`.
They suppose a careful client only; of any other TLC finds `BufferIsServed` false
(`TransportStuck`). The inductive `Serving` says who holds each slot in the middle
of a callback as well: the reader is `read_ready`, or the writer that a read
borrowed will give it back, or the part that does so is on the stack
(`Listening`), and the same for the writer of buffered data (`Writing`); a plain
connection crosses nothing (`PlainIsPlain`), a writer with nothing left is about to
be removed (`WriterServes`). `Shaking` says that nothing is buffered during a
handshake, and that, as long as it is taken up, no callback is nested in another
and no writer is installed that is not its own (`Alone`): what could take its
callback away is then a single read.

### The negotiation

`NegotiationProofs`, for every client, server and number of stray stanzas: `NegotiationTypeCorrect`, `CredentialsAreSecret` (`CredentialsNeedTls`),
`FeaturesAreNeverStale` (`FeaturesAreFresh`), `NegotiationAgrees` (`DoneIsAgreed`)
and `ParserNeverDies` (`ParserSurvives`), the five invariants of `NegotiationAll`.

What `negotiate()` decides by was sent long before it is read. They all hang on one
fact: a request and its answer are never both on the way, nor are two answers
(`OneAnswer`), and the one that is, is what the client waits for and says what the
server means (`RequestFits`, `StanzasFit`). `Documents` is the same for the header of
a reopened stream: it is the first thing on the network exactly while the parser
is fresh, and the last stanza of the old document has been taken by then.
`TlsFirst` is where `negotiate()` can be while TLS is required and not active,
`Agreement` what the two ends have granted each other by the wait the client is in.

### File transfers

`FileTransferProofs`, for files and limits of any size and for every pair of ends:
`TransferTypeCorrect`, `TransferDoneIsComplete`, `TransferDiskIsClean`,
`TransferAckedIsStored`. In `IInv`, `UnderWay` and `Progress` are about a vexmpp
sender: which stanza is in a channel by what the sender waits for, and that the
receiver has stored the first blocks in their order, all that were sent or all
but one. `Strangers` and `OthersStand` are about another
implementation at the other end, of which nothing but its own stanzas is known,
`AnswerMeans` about what a positive answer on the way promises. Both channels
together hold one stanza at most (`Types`). `DoneIsComplete` needs that blocks in
their places and of the right number are the file (`WholeFile`).

### The login

`LoginProofs`, for any number of streams, any zone and any offer, from
`ResolverAssumption` and `LoginAssumption` (a name asked for is a pair of a host
and a port):

* `ResolvedIsAskedFor` (`ResolvedIsAsked`) : what `connect()` opens is an address of
  the host it was asked for, or of one that SRV records lead to from it. The
  frames of a call form a `Chain` - each asks for a host of a record of the one
  before - and all that is in the cache, whoever has put it there, is in the
  zone (`Cached`). `Reaches` is defined as membership in every set that is closed
  under SRV records, which needs no induction over paths.
* `LoginFailuresAreKnown` (`FailuresAreKnown`) : `Talk` has the mechanism that
  `choose_mechanism` took and what it can have said while the exchange goes on
  (`SaidBy`, by name, password and TLS); that the exchange fails where it is
  `Hopeless`, and only there, follows from where these scripts end.
* `DiscoveryIsComplete` (`DiscoIsComplete`) : in `Gather`, the cache holds the server
  and every service that was named, has been asked and has not refused.

### The session

`SessionProofs`, for any contacts, resources and scenarios, and a queue of any
length, from `SessionAssumption`: the two tasks are two, a bare JID is no full JID,
the guest of the room has a nickname of its own, and a scenario says which calls
each task may make.

* `SessionAppliedBeforeWake` (`AppliedBeforeWake`)
* `SessionRosterIsReplica`, `SessionPresenceIsReplica` : the refinements of `Replica`,
  initial states and step by step
* `SessionEmptyWasUnknown` (`EmptyWasUnknown`), `SessionRoomTracksOccupants`
  (`RoomTracksOccupants`), `SessionTypeOK`

All rest on `Fifo`, the invariant of the loop's queue. `InOrder` says what may stand
before what (`Precedes`): the mixins of a stanza before those of a later one and
before whoever was given it, and that task before the mixins of the next stanza.
This holds only together with what each handle is there for (`Justified`,
`Accounted`), that the mixins of every parsed stanza that are not done are in the
queue (`AllScheduled`), and what the scan has still to complete (`Given`).

The server keeps versions, the session has stanzas. `Tells` joins the two: the
pushes sent so far, in their order, are the versions after a base, each made of the
one before (`Moves`); likewise presences and the room's presences. By `Fifo` the
mixins see them in that order, and so the version they have come to is a count.

* The presence cache is that version (`PresenceFollowed`). An empty dictionary
  needs `LastGone` too: a resource that is not in the cache was last reported gone,
  or never reported.
* The roster has two writers, the task of `connect()` for the answer and the mixins
  for pushes. `RosterPublished` places the answer before all pushes, `Asking` says
  that it is asked for once, that the first reply to the task is its answer and that
  nothing else is asked before; from there `RosterFollowed` is inductive, as `InOrder`
  has the task run before the mixins of the first push.
* The occupants are the version of the room, by the case of each presence that ends
  a stay: which of the two exceptions holds depends on which code comes first.

### JIDs

`JidProofs`, for every set of characters:

* `FullSplits`: `Split(Full(j)) = j` for all parts without delimiters but in the
  resource. The argument is where the first "@" and "/" of the string are
  (`FindFirst`, `FindNowhere`, `FindIs`, the last of which needs that the natural
  numbers are well ordered), and that a part is known by its characters
  (`PartIs`).
* `ParseIsStable`: the string of a parsed JID parses to that JID.
* `InternParses`: `Spec => []InternIsParse`. That the answer of `internJid()` does
  not depend on the table is no invariant of the table alone; `Filed` - every
  JID is filed under a string that parses to it - is inductive by
  `ParseIsStable`.
* `BareKeepsParts`: `bare_jid`, which makes a string and interns it, only loses
  the resource.

The last three assume `Stable`: nodeprep and nameprep refuse the delimiters, and
no profile changes what it has prepared. The first is in their tables
(`_stringprep.py:130`, `185`); the second is a property of the Unicode tables and
holds for each code point, alone and between two letters. A node or a resource
of nothing but characters that are mapped to nothing becomes an empty string,
which `Jid` does not tell from none and `Jid.__eq__` does.

### Errors and the order of presences

`ErrorsProofs`: `ReadIsKnown`, `StanzaErrorReadBack`, `StreamErrorReadBack`, by
cases on which children an error is written with (`Children`). `SessionProofs`:
`BelowIsStrict` and `AboveIsConverse`, because every show has a rank of its own
(`Ranks`); `AnswersGoOn`.

### Not proved

Liveness under fairness and `ENABLED` are beyond the prover: `EveryStanzaIsHandled`,
`WaiterIsServed`, `CloseCompletes`, `NegotiationEnds` and `EveryoneEnds` are
model-checked only, and so are, of course, the properties of the four violation
runs. All other properties of the passing runs - invariants, action properties and
refinements - are stated by a theorem, some under the hypotheses named above (`Safe`,
`Careful`).

Induction over recursive data is beyond the prover as well; the proofs are laid out
so that none is needed.

## 5. Not modelled, and what is left

Not modelled: data forms and the small protocols (no state), metrics, the command
line client, the stream-management counters (nobody reads them), the accessors of
stanzas. The parser is modelled by its resets only: what expat does with bytes is
not in this code, and of what is - the stack of elements, `end_of_stream`, text
that is whitespace only - all but `end_of_stream` is a fold over events.

Left to do, in this order:

1. `Session` on top of `Stream`, its FIFO as an implementation of the choices that
   `Stream` leaves open; then the timeouts of `enterRoom()` and `leaveRoom()`.
2. The parser against "the same stanzas however the bytes are cut".
