----------------------------- MODULE Transport -----------------------------
(***************************************************************************)
(* STARTTLSTransport (vexmpp/ssl_transport.py): a socket that turns from   *)
(* plain to TLS while in use, driven by the event loop.                    *)
(*                                                                         *)
(* The loop is its ready queue and, for the transport's socket, one reader *)
(* and one writer slot.  A callback runs to its end before the next one;   *)
(* because _read_ready and _write_ready call each other and the shutdown   *)
(* and close code, what is left to run of it is a stack of the functions'  *)
(* parts, and an exception that leaves the callback empties the stack.     *)
(* What the socket, OpenSSL and the peer answer is left open.              *)
(***************************************************************************)
EXTENDS Naturals, FiniteSets, Sequences, SequencesExt

CONSTANTS
  StarttlsModes,  \* use_starttls: TRUE in vexmpp, FALSE for immediate TLS
  PostModes,      \* whether a post_handshake_callback is "given", or "none"
  Careful,        \* the client does not start TLS with data still buffered,
                  \* write during the handshake, or close during the callback
  KeepOpen,       \* what the protocol's eof_received() may answer
  MayAbort,       \* the client may call abort()
  MaxBuffer       \* bound on the chunks in the write buffer

ASSUME TransportAssumption ==
  /\ StarttlsModes \subseteq BOOLEAN /\ PostModes \subseteq {"none", "given"}
  /\ {Careful, MayAbort} \subseteq BOOLEAN
  /\ KeepOpen \subseteq BOOLEAN
  /\ MaxBuffer \in Nat

VARIABLES
  useStarttls, \* which of StarttlsModes this transport has
  state,   \* _state
  buffer,  \* the number of chunks in _buffer
  closing, \* _closing
  rww,     \* _tls_read_wants_write
  wwr,     \* _tls_write_wants_read
  reader,  \* the callback add_reader() installed
  writer,  \* the callback add_writer() installed
  ready,   \* the loop's ready queue, as far as it is about this transport
  stack,   \* what is left of the callback that runs
  post,    \* the post-handshake callback
  tlsConn, \* _tls_conn exists
  cleaned, \* the references were dropped after connection_lost
  waiter,  \* the future of create_starttls_connection() or starttls()
  aborted, \* abort() was called on an open transport
  phase,   \* what the protocol was told last
  data,    \* the phase in which it was given data last
  raised   \* history: an exception left a callback with work undone

io   == <<reader, writer, ready>>
app  == <<waiter, aborted, phase, data, raised>>
core == <<useStarttls, buffer, closing, rww, wwr, post, tlsConn, cleaned>>
vars == <<state, stack, io, app, core>>

States == {"raw_open", "raw_eof", "tls_handshaking", "tls_open",
           "tls_shutting_down", "tls_shut_down", "closed"}

EofReceived(s) == s \in {"raw_eof", "tls_shut_down", "closed"}
TlsStarted(s)  == s \in {"tls_handshaking", "tls_open", "tls_shutting_down",
                         "tls_shut_down"}
Writable(s)    == s \in {"raw_open", "raw_eof", "tls_handshaking", "tls_open"}

Init ==
  /\ buffer = 0 /\ closing = FALSE /\ rww = FALSE /\ wwr = FALSE
  /\ writer = "none" /\ cleaned = FALSE /\ aborted = FALSE /\ raised = FALSE
  /\ waiter = "pending" /\ phase = "connecting" /\ data = "none"
  /\ useStarttls \in StarttlsModes
  /\ post \in PostModes
  /\ tlsConn = ~useStarttls
  /\ IF useStarttls
       THEN /\ state = "raw_open" /\ reader = "read_ready" /\ stack = <<>>
            /\ ready = <<"connection_made", "waiter">>
       ELSE /\ state = "tls_handshaking" /\ reader = "none"
            /\ stack = <<"handshake">> /\ ready = <<>>

-----------------------------------------------------------------------------
(* The event loop.                                                         *)

Idle == stack = <<>>

\* A handle that is cancelled does not run; of a slot's there is at most one.
Cancel(q, h) ==
  IF Contains(q, h) THEN RemoveAt(q, CHOOSE i \in DOMAIN q : q[i] = h) ELSE q

\* Replacing or removing a slot cancels its handle in the ready queue;
\* call_soon() appends to the queue.
Slots(r, w, calls) ==
  /\ reader' = r /\ writer' = w
  /\ LET kept == IF r = reader THEN ready ELSE Cancel(ready, "reader")
     IN ready' = (IF w = writer THEN kept ELSE Cancel(kept, "writer")) \o calls

\* select() reports the socket readable or writable.
PollReader ==
  /\ Idle /\ reader # "none" /\ ~Contains(ready, "reader")
  /\ ready' = Append(ready, "reader")
  /\ UNCHANGED <<state, stack, reader, writer, app, core>>

PollWriter ==
  /\ Idle /\ writer # "none" /\ ~Contains(ready, "writer")
  /\ ready' = Append(ready, "writer")
  /\ UNCHANGED <<state, stack, reader, writer, app, core>>

\* The loop takes the first handle of the queue.
Runs(h) ==
  /\ Idle /\ ready # <<>> /\ Head(ready) = h
  /\ ready' = Tail(ready)
  /\ UNCHANGED <<useStarttls, reader, writer>>

RunSlot ==
  /\ \/ Runs("reader") /\ stack' = <<reader>>
     \/ Runs("writer") /\ stack' = <<writer>>
  /\ UNCHANGED <<state, app, core>>

\* protocol.connection_made and starttls_made; nothing stops them from running
\* after connection_lost.
RunMade ==
  /\ \/ /\ Runs("connection_made")
        /\ phase' = IF useStarttls THEN "plain" ELSE "secure"
     \/ Runs("starttls_made") /\ phase' = "secure"
  /\ UNCHANGED <<state, stack, waiter, aborted, data, raised, core>>

\* set_result of the future; once its task has been told, it is none.
RunWaiter ==
  /\ Runs("waiter")
  /\ waiter' = IF waiter = "pending" THEN "done" ELSE waiter
  /\ UNCHANGED <<state, stack, aborted, phase, data, raised, core>>

\* _call_connection_lost_and_clean_up: on a transport that never had a TLS
\* connection the clean-up ends at _tls_conn.set_app_data, an AttributeError.
RunConnectionLost ==
  /\ Runs("connection_lost")
  /\ state' = "closed"
  /\ phase' = IF cleaned THEN phase ELSE "lost"
  /\ cleaned' = (cleaned \/ tlsConn)
  /\ tlsConn' = FALSE
  /\ UNCHANGED <<useStarttls, stack, waiter, aborted, data, raised, buffer,
                 closing, rww, wwr, post>>

RunPostDone ==
  /\ \/ Runs("post_ok") /\ stack' = <<"post_handshake">>
     \/ Runs("post_failed") /\ stack' = <<"fatal", "fail_waiter">>
  /\ UNCHANGED <<state, app, core>>

\* The post-handshake coroutine ends, well or with an exception.
PostEnds ==
  /\ Idle /\ post = "running"
  /\ post' = "none"
  /\ \E h \in {"post_ok", "post_failed"} : ready' = Append(ready, h)
  /\ UNCHANGED <<useStarttls, state, stack, reader, writer, app, buffer,
                 closing, rww, wwr, tlsConn, cleaned>>

-----------------------------------------------------------------------------
(* The parts of a callback.  Each replaces itself on the stack by what it  *)
(* calls next; Raise leaves the callback.                                  *)

Part(f)     == stack # <<>> /\ Head(stack) = f
Becomes(fs) == stack' = fs \o Tail(stack)
Raise       == stack' = <<>>

\* A wrong variant, for the mutation runs: connection_lost is not scheduled.
ForceClose_Silent ==
  /\ Part("fatal")
  /\ Becomes(<<>>)
  /\ state' = "closed"
  /\ buffer' = 0
  /\ Slots("none", "none", <<>>)
  /\ UNCHANGED <<app, useStarttls, closing, rww, wwr, post, tlsConn, cleaned>>

\* _fatal_error and _force_close.  After the clean-up there is no loop left
\* to call, and a closed transport is not closed twice.
ForceClose ==
  /\ Part("fatal")
  /\ IF state = "closed" \/ cleaned
       THEN /\ Raise
            /\ IF cleaned THEN UNCHANGED io ELSE Slots("none", "none", <<>>)
            /\ UNCHANGED <<state, buffer>>
       ELSE /\ Becomes(<<>>)
            /\ state' = "closed"
            /\ buffer' = 0
            /\ Slots("none", "none", <<"connection_lost">>)
  /\ UNCHANGED <<useStarttls, app, closing, rww, wwr, post, tlsConn, cleaned>>

FailWaiter ==
  /\ Part("fail_waiter")
  /\ waiter' = IF waiter = "pending" THEN "failed" ELSE waiter
  /\ Becomes(<<>>)
  /\ UNCHANGED <<state, io, aborted, phase, data, raised, core>>

\* A wrong variant: nothing is installed that would take the handshake up.
HandshakeWaits_Forgotten ==
  /\ Part("handshake") /\ state = "tls_handshaking"
  /\ Becomes(<<>>)
  /\ UNCHANGED <<state, io, app, core>>

\* _tls_do_handshake.  The call that starts it cannot end it: the peer has to
\* answer first.
HandshakeWaits ==
  /\ Part("handshake") /\ state = "tls_handshaking"
  /\ Slots("handshake", writer, <<>>) \/ Slots(reader, "handshake", <<>>)
  /\ Becomes(<<>>)
  /\ UNCHANGED <<state, app, core>>

HandshakeFails ==
  /\ Part("handshake") /\ state = "tls_handshaking"
  /\ Slots("none", "none", <<>>)
  /\ Becomes(<<"fatal", "fail_waiter">>)
  /\ UNCHANGED <<state, app, core>>

\* A wrong variant: the outcome of the callback is not waited for.
HandshakeDone_Impatient ==
  /\ Part("handshake") /\ state = "tls_handshaking"
  /\ "handshake" \in {reader, writer}
  /\ Slots("none", "none", <<>>)
  /\ post' = IF post = "given" THEN "running" ELSE post
  /\ Becomes(<<"post_handshake">>)
  /\ UNCHANGED <<useStarttls, state, app, buffer, closing, rww, wwr, tlsConn,
                 cleaned>>

HandshakeDone ==
  /\ Part("handshake") /\ state = "tls_handshaking"
  /\ "handshake" \in {reader, writer}
  /\ Slots("none", "none", <<>>)
  /\ IF post = "given" THEN post' = "running" /\ Becomes(<<>>)
                       ELSE Becomes(<<"post_handshake">>) /\ UNCHANGED post
  /\ UNCHANGED <<useStarttls, state, app, buffer, closing, rww, wwr, tlsConn,
                 cleaned>>

\* Wrong variants: the future is completed before the protocol is told; and
\* the protocol is told of a connection once more.
TlsPostHandshake_WaiterFirst ==
  /\ Part("post_handshake")
  /\ rww' = FALSE /\ wwr' = FALSE
  /\ state' = "tls_open"
  /\ Becomes(<<>>)
  /\ Slots("read_ready", writer, <<"waiter", "starttls_made">>)
  /\ UNCHANGED <<app, useStarttls, buffer, closing, post, tlsConn, cleaned>>

TlsPostHandshake_MadeTwice ==
  /\ Part("post_handshake")
  /\ rww' = FALSE /\ wwr' = FALSE
  /\ state' = "tls_open"
  /\ Becomes(<<>>)
  /\ Slots("read_ready", writer, <<"starttls_made", "connection_made">>)
  /\ UNCHANGED <<app, useStarttls, buffer, closing, post, tlsConn, cleaned>>

\* _tls_post_handshake without an exception.  It looks neither at the state
\* nor at the buffer.
TlsPostHandshake ==
  /\ Part("post_handshake")
  /\ rww' = FALSE /\ wwr' = FALSE
  /\ state' = "tls_open"
  /\ IF cleaned
       THEN Raise /\ UNCHANGED io
       ELSE /\ Becomes(<<>>)
            /\ Slots("read_ready", writer,
                 <<IF useStarttls THEN "starttls_made" ELSE "connection_made">>
                 \o (IF waiter = "pending" THEN <<"waiter">> ELSE <<>>))
  /\ UNCHANGED <<useStarttls, app, buffer, closing, post, tlsConn, cleaned>>

\* _tls_shutdown and _tls_do_shutdown.
TlsShutdown ==
  /\ Part("shutdown")
  /\ \/ /\ Slots("shutdown", writer, <<>>)
        /\ Becomes(<<>>) /\ state' = "tls_shutting_down"
     \/ /\ Slots(reader, "shutdown", <<>>)
        /\ Becomes(<<>>) /\ state' = "tls_shutting_down"
     \/ /\ UNCHANGED io
        /\ Becomes(<<"fatal">>) /\ state' = "tls_shutting_down"
     \/ /\ Slots("none", "none", <<>>)
        /\ Becomes(<<"raw_shutdown">>) /\ state' = "tls_shut_down"
  /\ UNCHANGED <<app, core>>

\* _raw_shutdown; the OSError of shutdown(), when the peer has gone, leaves the
\* transport without callbacks and unclosed.
RawShutdown ==
  /\ Part("raw_shutdown")
  /\ Slots("none", "none", <<>>)
  /\ \/ Becomes(<<"fatal">>) /\ UNCHANGED raised
     \/ Raise /\ raised' = TRUE
  /\ UNCHANGED <<state, waiter, aborted, phase, data, core>>

\* _read_ready.  A TLS write that waited for the socket to be readable is
\* tried first.
ReadReady ==
  /\ Part("read_ready")
  /\ IF TlsStarted(state) /\ wwr
       THEN wwr' = FALSE /\ Becomes(<<"write_ready", "more_to_write", "recv">>)
       ELSE Becomes(<<"recv">>) /\ UNCHANGED wwr
  /\ UNCHANGED <<useStarttls, state, io, app, buffer, closing, rww, post,
                 tlsConn, cleaned>>

\* Wrong variants: the rest of the buffer is forgotten; and the wrong callback
\* is installed.
MoreToWrite_Forgotten ==
  /\ Part("more_to_write")
  /\ Becomes(<<>>)
  /\ UNCHANGED <<state, io, app, core>>

MoreToWrite_WrongCallback ==
  /\ Part("more_to_write")
  /\ Slots(reader, IF buffer > 0 THEN "read_ready" ELSE writer, <<>>)
  /\ Becomes(<<>>)
  /\ UNCHANGED <<state, app, core>>

MoreToWrite ==
  /\ Part("more_to_write")
  /\ Slots(reader, IF buffer > 0 THEN "write_ready" ELSE writer, <<>>)
  /\ Becomes(<<>>)
  /\ UNCHANGED <<state, app, core>>

\* recv() has nothing, or the state is past reading.
RecvNothing ==
  /\ Part("recv")
  /\ Becomes(<<>>)
  /\ UNCHANGED <<state, io, app, core>>

\* The peer sends no application data before the TLS handshake is over.
RecvData ==
  /\ Part("recv") /\ ~EofReceived(state) /\ state # "tls_handshaking"
  /\ data' = phase
  /\ Becomes(<<>>)
  /\ UNCHANGED <<state, io, waiter, aborted, phase, raised, core>>

\* The same, but data_received() raises, as Stream's does when it cannot decode
\* the bytes: a write that had called for this read goes on no further.
RecvRaises ==
  /\ Part("recv") /\ ~EofReceived(state) /\ state # "tls_handshaking"
  /\ data' = phase
  /\ Raise
  /\ raised' = (raised \/ Tail(stack) # <<>>)
  /\ UNCHANGED <<state, io, waiter, aborted, phase, core>>

RecvWantsWrite ==
  /\ Part("recv") /\ TlsStarted(state) /\ ~EofReceived(state)
  /\ rww' = TRUE
  /\ Slots("none", "write_ready", <<>>)
  /\ Becomes(<<>>)
  /\ UNCHANGED <<useStarttls, state, app, buffer, closing, wwr, post, tlsConn,
                 cleaned>>

\* An error; OpenSSL reports the end of a TLS stream as one, too.
RecvFails ==
  /\ Part("recv") /\ ~EofReceived(state)
  /\ Becomes(<<"fatal">>)
  /\ UNCHANGED <<state, io, app, core>>

\* recv() returns b"" on a plain stream: eof_received and _eof_received.
RecvEof ==
  /\ Part("recv") /\ state = "raw_open"
  /\ Slots("none", writer, <<>>)
  /\ \E keep \in KeepOpen :
       IF keep THEN state' = "raw_eof" /\ Becomes(<<>>)
               ELSE Becomes(<<"raw_shutdown">>) /\ UNCHANGED state
  /\ UNCHANGED <<app, core>>

\* _write_ready.  A TLS read that waited for the socket to be writable is
\* tried first.
WriteReady ==
  /\ Part("write_ready")
  /\ IF rww THEN rww' = FALSE
                 /\ Becomes(<<"read_ready", "more_to_read", "send">>)
            ELSE Becomes(<<"send">>) /\ UNCHANGED rww
  /\ UNCHANGED <<useStarttls, state, io, app, buffer, closing, wwr, post,
                 tlsConn, cleaned>>

\* A wrong variant: the reader is not installed again.
MoreToRead_Forgotten ==
  /\ Part("more_to_read")
  /\ Becomes(<<>>)
  /\ UNCHANGED <<state, io, app, core>>

MoreToRead ==
  /\ Part("more_to_read")
  /\ Slots(IF EofReceived(state) THEN reader ELSE "read_ready", writer, <<>>)
  /\ Becomes(<<>>)
  /\ UNCHANGED <<state, app, core>>

\* send() takes some of the buffer; nothing, too, when the socket is busy.
Send ==
  /\ Part("send")
  /\ buffer' \in 0 .. buffer
  /\ Becomes(<<"sent">>)
  /\ UNCHANGED <<useStarttls, state, io, app, closing, rww, wwr, post, tlsConn,
                 cleaned>>

SendWantsRead ==
  /\ Part("send") /\ buffer > 0 /\ TlsStarted(state)
  /\ wwr' = TRUE
  /\ Slots("read_ready", "none", <<>>)
  /\ Becomes(<<"sent">>)
  /\ UNCHANGED <<useStarttls, state, app, buffer, closing, rww, post, tlsConn,
                 cleaned>>

SendFails ==
  /\ Part("send") /\ buffer > 0
  /\ Becomes(<<"fatal">>)
  /\ UNCHANGED <<state, io, app, core>>

\* A wrong variant: a close() that waited is forgotten.
Sent_NeverCloses ==
  /\ Part("sent")
  /\ Slots(reader, IF buffer = 0 /\ ~rww THEN "none" ELSE writer, <<>>)
  /\ Becomes(<<>>)
  /\ UNCHANGED <<state, app, core>>

\* The end of _write_ready: a close() that waited for the buffer goes on.
Sent ==
  /\ Part("sent")
  /\ Slots(reader, IF buffer = 0 /\ ~rww THEN "none" ELSE writer, <<>>)
  /\ Becomes(IF buffer > 0 \/ ~closing THEN <<>>
             ELSE IF TlsStarted(state) THEN <<"shutdown">>
             ELSE <<"raw_shutdown">>)
  /\ UNCHANGED <<state, app, core>>

-----------------------------------------------------------------------------
(* The client's calls, between callbacks, from connection_made on.         *)

InUse == Idle /\ ~cleaned /\ phase \in {"plain", "secure"}

\* The task that awaited the future goes on.
WaiterReturns ==
  /\ Idle /\ waiter \in {"done", "failed"}
  /\ waiter' = "none"
  /\ UNCHANGED <<state, stack, io, aborted, phase, data, raised, core>>

\* starttls().  The caller has the transport from create_starttls_connection.
Starttls ==
  /\ InUse /\ waiter = "none"
  /\ state = "raw_open" /\ ~closing
  /\ Careful => buffer = 0
  /\ waiter' = "pending"
  /\ state' = "tls_handshaking"
  /\ tlsConn' = TRUE
  /\ stack' = <<"handshake">>
  /\ UNCHANGED <<useStarttls, io, aborted, phase, data, raised, buffer, closing,
                 rww, wwr, post, cleaned>>

\* write(): the writer is installed with the first chunk only.
Write ==
  /\ InUse
  /\ Writable(state) /\ ~closing
  /\ Careful => state # "tls_handshaking"
  /\ buffer < MaxBuffer
  /\ Slots(reader, IF buffer = 0 THEN "write_ready" ELSE writer, <<>>)
  /\ buffer' = buffer + 1
  /\ UNCHANGED <<useStarttls, state, stack, app, closing, rww, wwr, post,
                 tlsConn, cleaned>>

\* The post-handshake callback runs, or its outcome is still to be handled.
VerificationPending ==
  \/ post = "running"
  \/ \E h \in {"post_ok", "post_failed"} : Contains(ready, h)

\* Wrong variants: close() does not wait for the buffer; and it does not see
\* that the transport is closed.
Close_AtOnce ==
  /\ InUse
  /\ state \notin {"closed", "tls_shutting_down"}
  /\ stack' = CASE state = "tls_handshaking" -> <<"fatal">>
                [] state # "tls_handshaking" /\ TlsStarted(state)
                     -> <<"shutdown">>
                [] OTHER -> <<"raw_shutdown">>
  /\ UNCHANGED <<state, io, app, core>>

Close_Again ==
  /\ InUse
  /\ state # "tls_shutting_down"
  /\ IF state # "tls_handshaking" /\ buffer > 0
       THEN closing' = TRUE /\ UNCHANGED stack
       ELSE /\ stack' = IF state = "tls_handshaking" THEN <<"fatal">>
                        ELSE IF tlsConn THEN <<"shutdown">>
                        ELSE <<"raw_shutdown">>
            /\ UNCHANGED closing
  /\ UNCHANGED <<useStarttls, state, io, app, buffer, rww, wwr, post, tlsConn,
                 cleaned>>

\* close().
Close ==
  /\ InUse
  /\ Careful => ~VerificationPending
  /\ state \notin {"closed", "tls_shutting_down"}
  /\ IF state # "tls_handshaking" /\ buffer > 0
       THEN closing' = TRUE /\ UNCHANGED stack
       ELSE /\ stack' = CASE state = "tls_handshaking" -> <<"fatal">>
                          [] state # "tls_handshaking" /\ TlsStarted(state)
                               -> <<"shutdown">>
                          [] OTHER -> <<"raw_shutdown">>
            /\ UNCHANGED closing
  /\ UNCHANGED <<useStarttls, state, io, app, buffer, rww, wwr, post, tlsConn,
                 cleaned>>

\* abort() calls _force_close without its argument: a TypeError.
Abort ==
  /\ MayAbort
  /\ InUse
  /\ state # "closed"
  /\ aborted' = TRUE
  /\ UNCHANGED <<state, stack, io, waiter, phase, data, raised, core>>

-----------------------------------------------------------------------------
Loop ==
  \/ RunSlot \/ RunMade \/ RunWaiter \/ RunConnectionLost \/ RunPostDone

Callback ==
  \/ ForceClose \/ FailWaiter
  \/ HandshakeWaits \/ HandshakeFails \/ HandshakeDone \/ TlsPostHandshake
  \/ TlsShutdown \/ RawShutdown
  \/ ReadReady \/ MoreToWrite
  \/ RecvNothing \/ RecvData \/ RecvRaises \/ RecvWantsWrite \/ RecvFails \/ RecvEof
  \/ WriteReady \/ MoreToRead
  \/ Send \/ SendWantsRead \/ SendFails \/ Sent

Client == WaiterReturns \/ Starttls \/ Write \/ Close \/ Abort

Next == Loop \/ Callback \/ PollReader \/ PollWriter \/ PostEnds \/ Client

Spec == Init /\ [][Next]_vars

\* The loop goes round for ever: it runs what is ready, and select() reports a
\* socket whenever it is readable or writable, whatever else there is to do
\* (hence strong fairness: both have to wait for the callback that runs).  Of
\* the peer it is assumed that it keeps reading, so that some send() drains the
\* buffer, and that it answers a TLS shutdown with its own, which ends ours, or
\* a read if one has taken the socket over.
Drained   == Send /\ buffer' = 0
ShutDone  == TlsShutdown /\ state' = "tls_shut_down"
PeerEnded == RecvFails /\ state = "tls_shutting_down"

FairSpec ==
  /\ Spec
  /\ SF_vars(Loop) /\ WF_vars(Callback)
  /\ SF_vars(PollReader) /\ SF_vars(PollWriter)
  /\ SF_vars(Drained) /\ SF_vars(ShutDone) /\ SF_vars(PeerEnded)

-----------------------------------------------------------------------------
(* Properties.                                                             *)

\* Every variable keeps its type (ssl_transport.py).
TypeOK ==
  /\ useStarttls \in BOOLEAN
  /\ state \in States
  /\ buffer \in 0 .. MaxBuffer
  /\ {closing, rww, wwr, tlsConn, cleaned, aborted, raised} \subseteq BOOLEAN
  /\ reader \in {"none", "read_ready", "handshake", "shutdown"}
  /\ writer \in {"none", "write_ready", "handshake", "shutdown"}
  /\ post \in {"none", "given", "running"}
  /\ waiter \in {"none", "pending", "done", "failed"}
  /\ phase \in {"connecting", "plain", "secure", "lost"}
  /\ data \in {"none", "plain", "secure"}
  /\ Len(ready) <= 6 /\ Len(stack) <= 5

\* The protocol sees the calls it may expect, in the order it may expect them
\* (_initiate_raw, _tls_post_handshake, _force_close).
Contract == INSTANCE TransportContract
KeepsContract == Contract!Spec

\* A transport that is closed stays closed, whatever was still scheduled.
ClosedIsFinal == [][state = "closed" => state' = "closed"]_vars

\* Every close is reported: connection_lost has run, or is in the queue once.
LossIsReported ==
  state = "closed" =>
    LET queued ==
          Cardinality({i \in DOMAIN ready : ready[i] = "connection_lost"})
    IN IF phase = "lost" THEN queued = 0 ELSE queued = 1

\* Nobody waits for a transport that is gone: "If any errors occur, the
\* exception is set on the future".
WaiterIsSettled == phase = "lost" => waiter # "pending"

\* starttls() returns only when the protocol knows it is secure: Stream's
\* tls_active is set before the negotiation goes on.
SecureOnReturn ==
  waiter = "done" /\ TlsStarted(state) => phase = "secure"

\* The post-handshake callback "blocks the completion of the TLS handshake":
\* while its verdict is out or still to be handled, the protocol does not take
\* the connection for secure.
VerifiedFirst ==
  post = "given" \/ VerificationPending \/ Contains(stack, "post_handshake") =>
    phase # "secure"

\* Buffered data of an open transport is on its way to the socket: a writer
\* is installed, or the reader that a TLS write waits for.  The exceptions are
\* a callback that data_received() or shutdown() left with an exception, and a
\* client that is not Careful.
BufferIsServed ==
  /\ Idle /\ phase # "lost" /\ buffer > 0 /\ ~raised
  /\ state \in {"raw_open", "raw_eof", "tls_open"}
  =>
    writer = "write_ready" \/ (wwr /\ reader = "read_ready")

\* An open transport listens to its socket, unless a TLS read waits for the
\* socket to be writable.  The exceptions are a data_received() that raised in
\* a read that a write had called, so that the reader was not installed again
\* (_write_ready), and a shutdown() that did.
ReaderIsServed ==
  Idle /\ phase # "lost" /\ state \in {"raw_open", "tls_open"} /\ ~raised =>
    reader = "read_ready" \/ (rww /\ writer = "write_ready")

\* A handshake in progress: its callback runs or is installed, or it awaits
\* the post-handshake callback.
HandshakeServed ==
  \/ "handshake" \in {reader, writer}
  \/ VerificationPending
  \/ Part("handshake") \/ Part("post_handshake")

\* Until it ends in an open or a closed transport, no step leaves a handshake
\* without anybody to take it up (_tls_do_handshake, _tls_post_handshake), but
\* one: the reader stays installed while a handshake waits to write, and a read
\* that asks for the socket to be writable takes the writer for itself.
HandshakeIsKept ==
  [][state = "tls_handshaking" /\ HandshakeServed =>
       \/ HandshakeServed'
       \/ state' # "tls_handshaking" \/ Part("fatal")'
       \/ RecvWantsWrite]_vars

\* close() "waits until all buffers are transmitted": the TLS shutdown begins
\* with an empty buffer, and nothing is written into it any more.
ShutdownAfterDrain ==
  state \in {"tls_shutting_down", "tls_shut_down"} => buffer = 0

\* "Immediately close the stream".
AbortCloses == aborted => state = "closed"

\* "Clean up all resources", once connection_lost was called.
LostIsCleaned == phase = "lost" => cleaned

\* A transport asked to close reports connection_lost in the end, unless an
\* exception of data_received() or of the raw shutdown() left a callback with
\* work undone (_write_ready, _raw_shutdown).
CloseCompletes ==
  (closing \/ state = "tls_shutting_down") ~> (phase = "lost" \/ raised)
=============================================================================
