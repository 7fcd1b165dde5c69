----------------------------- MODULE Connection -----------------------------
(***************************************************************************)
(* One TCP connection of FluentNet: the Context object, the Handler that   *)
(* drives it, and as much of the kernel socket, of epoll and of the peer   *)
(* as decides what the two can observe.                                    *)
(*                                                                         *)
(* Everything the library does runs on the thread of the Looper that owns  *)
(* the Context.  The kernel and the peer act between any two of its steps, *)
(* also while a user callback is running.  pc says what the thread is      *)
(* doing with THIS Context:                                                *)
(*   "new"        emplaced in the pool, handleNewContext not called yet    *)
(*   "loop"       nothing: it serves other Contexts or runs coroutines     *)
(*   "connectCb", "messageCb", "closeCb"   inside that callback            *)
(*   "write"      in handleEvent, about to test POLLOUT                    *)
(* While an event is handled it is still the head of ready.                *)
(***************************************************************************)
EXTENDS Integers, Sequences, FiniteSets

CONSTANTS
    SocketSpace,       \* bytes the kernel buffers before write() says EAGAIN
    MessageSizes,      \* sizes a call of send() may have
    MaxBytes,          \* bound: bytes the user hands to send()
    MaxPeerMessages,   \* bound: times the peer writes
    MaxReady,          \* bound: undelivered epoll results for this Context
    OuterMultiplexer,  \* a separate thread polls (_isOuterMultiplexer)
    EpollAddMayFail,   \* epoll_ctl(ADD) may fail (ENOSPC, ENOMEM)
    ReadToggle,        \* user code calls enableRead / disableRead
    PeerMayReset       \* the peer may send RST

ASSUME ConnectionAssumption ==
    /\ SocketSpace \in Nat \ {0}
    /\ MessageSizes \subseteq Nat \ {0}
    /\ MaxBytes \in Nat
    /\ MaxPeerMessages \in Nat
    /\ MaxReady \in Nat \ {0}
    /\ OuterMultiplexer \in BOOLEAN
    /\ EpollAddMayFail \in BOOLEAN
    /\ ReadToggle \in BOOLEAN
    /\ PeerMayReset \in BOOLEAN

VARIABLES
    nState, events, eState,                    \* Context: policies
    registered, interest,                      \* epoll's entry for the fd
    output, provider,                          \* Buffer output, _sendProvider
    sendCurrentIndex, sendCompletedIndex,      \* _sendCurrentIndex, ...
    completions, sent,                         \* history: tokens, bytes taken
    wire, unacked, finSent,                    \* socket, sending side
    peer, soErr, rcvData, peerMsgs,            \* socket, receiving side
    ready, pc, asyncShutdown, alive            \* the loop thread

netVars  == <<nState, events, eState, registered, interest>>
sendVars == <<output, provider, sendCurrentIndex, sendCompletedIndex,
              completions, sent>>
sockVars == <<wire, unacked, finSent>>
peerVars == <<peer, soErr, rcvData, peerMsgs>>
vars == <<nState, events, eState, registered, interest,
          output, provider, sendCurrentIndex, sendCompletedIndex,
          completions, sent, wire, unacked, finSent,
          peer, soErr, rcvData, peerMsgs,
          ready, pc, asyncShutdown, alive>>

NetworkState == {"CONNECTING", "CONNECTED", "DISCONNECTING", "DISCONNECTED"}
EventState   == {"NEW", "ADDED", "DELETED"}

\* Bits of Context::_events.  EVENT_READ is POLL_IN|POLL_PRI, which are si_code
\* values, not poll bits: as epoll bits they read EPOLLIN|EPOLLOUT, and
\* EVENT_WRITE (POLL_OUT) reads EPOLLPRI.  Deliverable below follows the bits.
EventBits == {"READ", "WRITE"}
\* Bits epoll_wait reports.
Revents   == {"IN", "OUT", "HUP", "ERR"}

Callbacks == {"connectCb", "messageCb", "closeCb"}
INVALID == 0
FAST_COMPLETE == 1

Least(a, b) == IF a <= b THEN a ELSE b
\* The n bytes after byte m; a byte is named by its place in what the user sent.
Bytes(m, n) == [i \in 1..n |-> m + i]
Elements(s) == {s[i] : i \in DOMAIN s}

Init ==
    /\ nState = "CONNECTING" /\ events = {} /\ eState = "NEW"
    /\ registered = FALSE /\ interest = {}
    /\ output = <<>> /\ provider = <<>>
    /\ sendCurrentIndex = FAST_COMPLETE + 1
    /\ sendCompletedIndex = FAST_COMPLETE + 1
    /\ completions = {} /\ sent = 0
    /\ wire = <<>> /\ unacked = 0 /\ finSent = FALSE
    /\ peer = "open" /\ soErr = FALSE /\ rcvData = FALSE /\ peerMsgs = 0
    /\ ready = <<>> /\ pc = "new" /\ asyncShutdown = "none" /\ alive = TRUE

-----------------------------------------------------------------------------
(* The socket and epoll (external: the Linux kernel).                      *)

Space == SocketSpace - unacked

\* What epoll_wait reports for this fd.
Deliverable ==
    IF ~registered THEN {} ELSE
        {r \in Revents :
            \/ r = "IN"  /\ "READ" \in interest /\ (rcvData \/ peer # "open")
            \/ r = "OUT" /\ "READ" \in interest
                         /\ (Space > 0 \/ finSent \/ peer = "reset")
            \/ r = "HUP" /\ (peer = "reset" \/ (peer = "fin" /\ finSent))
            \/ r = "ERR" /\ soErr}

-----------------------------------------------------------------------------
(* MultiplexerPolicy and Multiplexer::update                               *)

\* updateEventState(): the operation it returns when _events is ev ...
EpollOperationHint(ev) ==
    IF eState # "ADDED" THEN "ADD" ELSE IF ev = {} THEN "DEL" ELSE "MOD"

\* ... and the state it leaves.
UpdateEventState(ev) ==
    eState' = IF EpollOperationHint(ev) = "DEL" THEN "DELETED" ELSE "ADDED"

\* epoll_ctl fails with EEXIST or ENOENT when the operation does not fit.
EpollAccepts(op) == registered = (op # "ADD")

\* A successful Multiplexer::update.
Update(op, ev) ==
    /\ registered' = (op # "DEL")
    /\ interest' = IF op = "DEL" THEN {} ELSE ev

\* Mutant of ChangeEvents: epoll is given the bits of before.
ChangeEventsStale(ev) ==
    /\ events' = ev
    /\ UpdateEventState(ev)
    /\ Update(EpollOperationHint(ev), events)

\* _events becomes ev, then updateEventState() and Multiplexer::update().
ChangeEvents(ev) ==
    /\ events' = ev
    /\ UpdateEventState(ev)
    /\ Update(EpollOperationHint(ev), ev)

-----------------------------------------------------------------------------
(* Handler::handleNewContext                                               *)

HandleNewContext ==
    /\ pc = "new" /\ alive
    /\ nState' = "CONNECTED"
    /\ ChangeEvents(events \cup {"READ"})
    /\ pc' = "connectCb"
    /\ UNCHANGED <<sendVars, sockVars, peerVars, ready, asyncShutdown, alive>>

\* EpollControlException is caught inside: the Context stays CONNECTED and
\* ADDED but epoll does not know it, and the connect callback never runs.
HandleNewContextFails ==
    /\ pc = "new" /\ alive /\ EpollAddMayFail
    /\ nState' = "CONNECTED"
    /\ events' = events \cup {"READ"}
    /\ UpdateEventState(events')
    /\ pc' = "loop"
    /\ UNCHANGED <<registered, interest, sendVars, sockVars, peerVars,
                   ready, asyncShutdown, alive>>

-----------------------------------------------------------------------------
(* What user code does with the Context: in one of its callbacks, or, when *)
(* pc = "loop", in a coroutine or in a callback of another Context.        *)

UserTurn == alive /\ pc \in Callbacks \cup {"loop"}

EndEvent == ready' = Tail(ready)

\* An exception leaves user code.  Handler catches it around its callbacks;
\* nothing catches it in a coroutine, so the process terminates.
Raise ==
    \/ /\ pc = "connectCb"
       /\ pc' = "loop" /\ UNCHANGED <<ready, alive>>
    \/ /\ pc = "messageCb"
       /\ pc' = "loop" /\ EndEvent /\ UNCHANGED alive
    \/ /\ pc = "loop"
       /\ alive' \in BOOLEAN /\ UNCHANGED <<ready, pc>>

\* Mutant of Polls: off by one.
PollsInclusive(c) == sendCompletedIndex >= c.token

\* Completion::poll.
Polls(c) == sendCompletedIndex > c.token

Complete(token, n) ==
    completions' = completions \cup
        {[token |-> token, from |-> sent + 1, to |-> sent + n]}

MaySend(n) ==
    /\ UserTurn
    /\ nState \notin {"DISCONNECTING", "DISCONNECTED"}
    /\ sent + n <= MaxBytes

\* Context::send on a Context that is being closed.
SendInvalid ==
    /\ UserTurn
    /\ nState \in {"DISCONNECTING", "DISCONNECTED"}
    /\ completions' = completions \cup
           {[token |-> INVALID, from |-> 0, to |-> 0]}
    /\ UNCHANGED <<netVars, output, provider, sendCurrentIndex,
                   sendCompletedIndex, sent, sockVars, peerVars,
                   ready, pc, asyncShutdown, alive>>

\* write() takes everything.  The code does not look at output first.
SendFast(n) ==
    /\ MaySend(n)
    /\ peer # "reset" /\ n <= Space
    /\ wire' = wire \o Bytes(sent, n)
    /\ unacked' = unacked + n
    /\ sent' = sent + n
    /\ Complete(FAST_COMPLETE, n)
    /\ UNCHANGED <<netVars, output, provider, sendCurrentIndex,
                   sendCompletedIndex, finSent, peerVars,
                   ready, pc, asyncShutdown, alive>>

\* Mutant of Unwritten: the bytes before the ones write() took, again.
UnwrittenFromStart(n) == Bytes(sent, n - Space)

\* write() takes Space bytes; the others are ...
Unwritten(n) == Bytes(sent + Space, n - Space)

\* ... appended to output and counted in _sendProvider.
Enqueue(n) ==
    /\ MaySend(n)
    /\ peer # "reset" /\ n > Space
    /\ wire' = wire \o Bytes(sent, Space)
    /\ unacked' = SocketSpace
    /\ output' = output \o Unwritten(n)
    /\ provider' = Append(provider, n - Space)
    /\ sendCurrentIndex' = sendCurrentIndex + 1
    /\ sent' = sent + n
    /\ UNCHANGED <<nState, sendCompletedIndex, finSent, peerVars,
                   asyncShutdown>>

SendQueued(n) ==
    /\ Enqueue(n)
    /\ Complete(sendCurrentIndex, n)
    /\ IF "WRITE" \in events
          THEN UNCHANGED <<events, eState, registered, interest>>
          ELSE LET ev == events \cup {"WRITE"}
               IN EpollAccepts(EpollOperationHint(ev)) /\ ChangeEvents(ev)
    /\ UNCHANGED <<ready, pc, alive>>

\* updateMultiplexer throws after the bytes were queued: no Completion.
SendQueuedThrows(n) ==
    /\ Enqueue(n)
    /\ "WRITE" \notin events
    /\ events' = events \cup {"WRITE"}
    /\ ~EpollAccepts(EpollOperationHint(events'))
    /\ UpdateEventState(events')
    /\ UNCHANGED <<registered, interest, completions>>
    /\ Raise

\* write() on a reset connection: the pending error is thrown once, later
\* calls raise SIGPIPE, which the library leaves at its default.
SendThrows(n) ==
    /\ MaySend(n)
    /\ peer = "reset"
    /\ soErr' = FALSE
    /\ IF soErr THEN Raise ELSE alive' = FALSE /\ UNCHANGED <<ready, pc>>
    /\ UNCHANGED <<netVars, sendVars, sockVars, peer, rcvData, peerMsgs,
                   asyncShutdown>>

\* Mutant of Disconnecting: pending output is not waited for.
DisconnectingAtOnce ==
    nState' = "DISCONNECTING" /\ finSent' = TRUE /\ UNCHANGED asyncShutdown

\* Context::shutdown: FIN now if nothing waits for EVENT_WRITE, else a
\* coroutine that is to send it.
Disconnecting ==
    /\ nState' = "DISCONNECTING"
    /\ finSent' = (finSent \/ "WRITE" \notin events)
    /\ asyncShutdown' =
           IF "WRITE" \in events THEN "posted" ELSE asyncShutdown

Shutdown ==
    /\ UserTurn
    /\ nState = "CONNECTED"
    /\ Disconnecting
    /\ UNCHANGED <<events, eState, registered, interest, sendVars,
                   wire, unacked, peerVars, ready, pc, alive>>

\* Context::enableRead / disableRead flip the bit and nothing else.
EnableRead ==
    /\ UserTurn /\ ReadToggle
    /\ "READ" \notin events /\ events' = events \cup {"READ"}
    /\ UNCHANGED <<nState, eState, registered, interest, sendVars, sockVars,
                   peerVars, ready, pc, asyncShutdown, alive>>

DisableRead ==
    /\ UserTurn /\ ReadToggle
    /\ "READ" \in events /\ events' = events \ {"READ"}
    /\ UNCHANGED <<nState, eState, registered, interest, sendVars, sockVars,
                   peerVars, ready, pc, asyncShutdown, alive>>

\* Mutant of CallbackReturns: the event ends before its POLLOUT branch.
CallbackReturnsEarly ==
    /\ alive /\ pc \in Callbacks
    /\ pc' = IF pc = "messageCb" THEN "write" ELSE "loop"
    /\ IF pc # "connectCb" THEN EndEvent ELSE UNCHANGED ready
    /\ UNCHANGED <<netVars, sendVars, sockVars, peerVars, asyncShutdown, alive>>

CallbackReturns ==
    /\ alive /\ pc \in Callbacks
    /\ pc' = IF pc = "messageCb" THEN "write" ELSE "loop"
    /\ IF pc = "closeCb" THEN EndEvent ELSE UNCHANGED ready
    /\ UNCHANGED <<netVars, sendVars, sockVars, peerVars, asyncShutdown, alive>>

-----------------------------------------------------------------------------
(* Context::shutdown's coroutine.  Its own comment calls the second case a *)
(* duplicate request; the request itself always finds DISCONNECTING.       *)

LooperTurn == alive /\ pc = "loop" /\ (OuterMultiplexer \/ ready = <<>>)

RunAsyncShutdown ==
    /\ LooperTurn /\ asyncShutdown = "posted"
    /\ asyncShutdown' = IF nState = "CONNECTED" /\ "WRITE" \in events
                        THEN "posted" ELSE "done"
    /\ finSent' = (finSent \/ (nState = "CONNECTED" /\ "WRITE" \notin events))
    /\ UNCHANGED <<netVars, sendVars, wire, unacked, peerVars, ready, pc, alive>>

-----------------------------------------------------------------------------
(* Multiplexer::poll and Handler::handleEvents                             *)

\* The loop thread polls when all events are handled; a poller thread at any
\* time, so several results, old ones among them, may wait for the handler.
Poll ==
    /\ alive
    /\ IF OuterMultiplexer THEN Len(ready) < MaxReady
                           ELSE pc = "loop" /\ ready = <<>>
    /\ Deliverable # {}
    /\ ready' = Append(ready, Deliverable)
    /\ UNCHANGED <<netVars, sendVars, sockVars, peerVars,
                   pc, asyncShutdown, alive>>

NextEvent == alive /\ pc = "loop" /\ ready # <<>>
Reported(r) == r \in Head(ready)

\* Mutant of Closable: a stale event closes once more.
ClosableAlways == TRUE

\* Handler::handleClose does nothing on a Context that is not ...
Closable == nState \in {"CONNECTED", "DISCONNECTING"}

HandleClose ==
    /\ Closable
    /\ IF nState = "CONNECTED"
          THEN /\ finSent' = (finSent \/ "WRITE" \notin events)
               /\ asyncShutdown' =
                      IF "WRITE" \in events THEN "posted" ELSE asyncShutdown
          ELSE UNCHANGED <<finSent, asyncShutdown>>
    /\ ChangeEvents({})
    /\ nState' = "DISCONNECTED"
    /\ pc' = "closeCb"
    /\ UNCHANGED <<sendVars, wire, unacked, peerVars, ready, alive>>

\* POLLHUP without POLLIN closes; then POLLERR throws and the branches after
\* it find nothing to do on a closed Context.
EventHup ==
    /\ NextEvent /\ Reported("HUP") /\ ~Reported("IN")
    /\ HandleClose

\* POLLERR: handleError throws, which skips the rest of the event.
EventError ==
    /\ NextEvent /\ Reported("ERR")
    /\ Reported("HUP") /\ ~Reported("IN") => ~Closable
    /\ EndEvent
    /\ UNCHANGED <<netVars, sendVars, sockVars, peerVars,
                   pc, asyncShutdown, alive>>

\* Mutant of EventIn: POLLIN is an else-branch of POLLHUP.
EventInUnlessHup ==
    NextEvent /\ Reported("IN") /\ ~Reported("ERR") /\ ~Reported("HUP")

\* handleRead is reached.
EventIn == NextEvent /\ Reported("IN") /\ ~Reported("ERR")
ReadsEof == ~rcvData /\ (peer = "fin" \/ (peer = "reset" /\ ~soErr))

ReadData ==
    /\ EventIn /\ rcvData
    /\ rcvData' = FALSE
    /\ pc' = "messageCb"
    /\ UNCHANGED <<netVars, sendVars, sockVars, peer, soErr, peerMsgs,
                   ready, asyncShutdown, alive>>

ReadEof ==
    /\ EventIn /\ ReadsEof
    /\ HandleClose

\* readv reports the pending error, which clears it; handleError throws.
ReadError ==
    /\ EventIn /\ ~rcvData /\ peer = "reset" /\ soErr
    /\ soErr' = FALSE
    /\ EndEvent
    /\ UNCHANGED <<netVars, sendVars, sockVars, peer, rcvData, peerMsgs,
                   pc, asyncShutdown, alive>>

\* EAGAIN, or end of stream on a Context that is closed: on to POLLOUT.
ReadNothing ==
    /\ EventIn
    /\ \/ ~rcvData /\ peer = "open"
       \/ ReadsEof /\ ~Closable
    /\ pc' = "write"
    /\ UNCHANGED <<netVars, sendVars, sockVars, peerVars,
                   ready, asyncShutdown, alive>>

\* The test of POLLOUT is reached.
AtWrite ==
    \/ alive /\ pc = "write"
    \/ /\ NextEvent /\ ~Reported("ERR") /\ ~Reported("IN")
       /\ Reported("HUP") => ~Closable

\* POLLOUT is not set, or handleWrite finds EVENT_WRITE disabled: this ends
\* the event.
WriteSkipped ==
    /\ AtWrite
    /\ ~(Reported("OUT") /\ "WRITE" \in events)
    /\ EndEvent
    /\ pc' = "loop"
    /\ UNCHANGED <<netVars, sendVars, sockVars, peerVars, asyncShutdown, alive>>

\* SumTo(s)[i] is s[1] + ... + s[i].
SumTo(s) ==
    LET f[i \in 0..Len(s)] == IF i = 0 THEN 0 ELSE f[i - 1] + s[i]
    IN f

\* Mutant of HandleWriteComplete: one write completes one request.
HandleWriteCompleteOnce(n) ==
    /\ SumTo(provider)[Len(provider)] <= n
    /\ provider' = <<>>
    /\ sendCompletedIndex' = sendCompletedIndex + 1

\* handleWriteComplete: n written bytes pop the requests they cover; of the
\* first request they do not cover, left bytes remain.
HandleWriteComplete(n) ==
    \/ /\ SumTo(provider)[Len(provider)] <= n
       /\ provider' = <<>>
       /\ sendCompletedIndex' = sendCompletedIndex + Len(provider)
    \/ \E done \in 0 .. Len(provider) - 1 :
       \E left \in 1 .. provider[done + 1] :
           /\ SumTo(provider)[done + 1] = n + left
           /\ provider' = <<left>> \o SubSeq(provider, done + 2, Len(provider))
           /\ sendCompletedIndex' = sendCompletedIndex + done

\* Mutant of Drained: one write is taken for all.
DrainedPartly(n) == n > 0

\* The n bytes just written were all that output held.
Drained(n) == n > 0 /\ n = Len(output)

HandleWrite ==
    /\ AtWrite
    /\ Reported("OUT") /\ "WRITE" \in events
    /\ peer # "reset"
    /\ LET n == Least(Len(output), Space)
       IN  /\ wire' = wire \o SubSeq(output, 1, n)
           /\ unacked' = unacked + n
           /\ output' = SubSeq(output, n + 1, Len(output))
           /\ HandleWriteComplete(n)
           /\ IF Drained(n)
                 THEN ChangeEvents(events \ {"WRITE"})
                 ELSE UNCHANGED <<events, eState, registered, interest>>
    /\ EndEvent
    /\ pc' = "loop"
    /\ UNCHANGED <<nState, sendCurrentIndex, completions, sent, finSent,
                   peerVars, asyncShutdown, alive>>

\* writeTo on a reset connection: WriteException, caught by handleEvents, or
\* SIGPIPE.
HandleWriteThrows ==
    /\ AtWrite
    /\ Reported("OUT") /\ "WRITE" \in events
    /\ peer = "reset"
    /\ soErr' = FALSE
    /\ alive' = soErr
    /\ EndEvent
    /\ pc' = "loop"
    /\ UNCHANGED <<netVars, sendVars, sockVars, peer, rcvData, peerMsgs,
                   asyncShutdown>>

-----------------------------------------------------------------------------
(* The peer (external).                                                    *)

PeerReads ==
    /\ unacked > 0 /\ peer # "reset"
    /\ unacked' = unacked - 1
    /\ UNCHANGED <<netVars, sendVars, wire, finSent, peerVars,
                   ready, pc, asyncShutdown, alive>>

PeerWrites ==
    /\ peer = "open" /\ peerMsgs < MaxPeerMessages
    /\ peerMsgs' = peerMsgs + 1
    /\ rcvData' = TRUE
    /\ UNCHANGED <<netVars, sendVars, sockVars, peer, soErr,
                   ready, pc, asyncShutdown, alive>>

PeerFin ==
    /\ peer = "open"
    /\ peer' = "fin"
    /\ UNCHANGED <<netVars, sendVars, sockVars, soErr, rcvData, peerMsgs,
                   ready, pc, asyncShutdown, alive>>

PeerReset ==
    /\ PeerMayReset
    /\ peer = "open" \/ (peer = "fin" /\ ~finSent)
    /\ peer' = "reset"
    /\ soErr' = TRUE
    /\ unacked' = 0
    /\ UNCHANGED <<netVars, sendVars, wire, finSent, rcvData, peerMsgs,
                   ready, pc, asyncShutdown, alive>>

-----------------------------------------------------------------------------
User ==
    \/ SendInvalid
    \/ \E n \in MessageSizes :
           SendFast(n) \/ SendQueued(n) \/ SendQueuedThrows(n) \/ SendThrows(n)
    \/ Shutdown
    \/ EnableRead
    \/ DisableRead

HandleEvent ==
    \/ EventHup \/ EventError
    \/ ReadData \/ ReadEof \/ ReadError \/ ReadNothing
    \/ WriteSkipped \/ HandleWrite \/ HandleWriteThrows

Handler == HandleNewContext \/ HandleNewContextFails \/ HandleEvent

Peer == PeerReads \/ PeerWrites \/ PeerFin \/ PeerReset

Next == User \/ CallbackReturns \/ RunAsyncShutdown \/ Poll \/ Handler \/ Peer

Spec == Init /\ [][Next]_vars

\* The loop polls, handles every event and resumes every coroutine of a batch;
\* callbacks return.  The peer reads what it is sent and, as Context.h says of
\* the other side, answers a FIN with its own.
LoopFairness ==
    /\ WF_vars(Handler)
    /\ WF_vars(Poll)
    /\ WF_vars(CallbackReturns)
    /\ SF_vars(RunAsyncShutdown)
PeerFairness == WF_vars(PeerReads) /\ WF_vars(finSent /\ PeerFin)

FairSpec == Spec /\ LoopFairness /\ PeerFairness
-----------------------------------------------------------------------------
(* Properties                                                              *)

\* Every variable keeps its type; _sendCompletedIndex never overtakes
\* _sendCurrentIndex and asyncShutdown is posted by shutdown() only.
TypeOK ==
    /\ nState \in NetworkState /\ events \in SUBSET EventBits
    /\ eState \in EventState
    /\ registered \in BOOLEAN /\ interest \in SUBSET EventBits
    /\ output \in Seq(Nat) /\ provider \in Seq(Nat)
    /\ sendCurrentIndex \in Nat /\ sendCompletedIndex \in Nat
    /\ completions \in SUBSET [token : Nat, from : Nat, to : Nat]
    /\ sent \in Nat
    /\ wire \in Seq(Nat) /\ unacked \in 0..SocketSpace
    /\ finSent \in BOOLEAN
    /\ peer \in {"open", "fin", "reset"} /\ soErr \in BOOLEAN
    /\ rcvData \in BOOLEAN /\ peerMsgs \in Nat
    /\ ready \in Seq(SUBSET Revents)
    /\ pc \in Callbacks \cup {"new", "loop", "write"}
    /\ pc \in {"messageCb", "closeCb", "write"} => ready # <<>>
    /\ asyncShutdown \in {"none", "posted", "done"} /\ alive \in BOOLEAN

\* A Completion of an accepted send() polls true exactly when every byte of
\* that send has been given to the kernel: partial writes in handleWriteComplete
\* and in send() neither complete a request early nor leave it behind.
CompletionExact ==
    \A c \in completions :
        c.token # INVALID =>
            (Polls(c) <=> (c.from .. c.to) \subseteq Elements(wire))

\* What send() accepted is either in the kernel or still in output, once: no
\* byte is lost or written twice across send(), partial writes and handleWrite;
\* the entries of _sendProvider add up to what output still holds.
BytesConserved ==
    /\ Len(wire) + Len(output) = sent
    /\ Elements(wire) \cup Elements(output) = 1..sent
    /\ SumTo(provider)[Len(provider)] = Len(output)

\* _sendProvider holds one entry per request between the two indexes, which
\* Context::send and handleWriteComplete move apart and together.
ProviderCountsRequests ==
    sendCompletedIndex + Len(provider) = sendCurrentIndex

\* Until the Context is closed EVENT_WRITE is enabled exactly while output holds
\* bytes; send(), handleWrite and shutdown() all decide on this bit alone.
WriteEventMeansOutput ==
    nState # "DISCONNECTED" => ("WRITE" \in events <=> output # <<>>)

\* After SHUT_WR nothing can reach write() again, from send() or handleWrite,
\* so the process cannot die of SIGPIPE by its own shutdown().
NoWriteAfterFin ==
    finSent => /\ nState \in {"DISCONNECTING", "DISCONNECTED"}
               /\ "WRITE" \notin events

\* What epoll was told is what the Context believes: every change of _events is
\* followed by the right epoll_ctl, and a DISCONNECTED Context, which the pool
\* may destroy, is out of epoll.
EpollInSync ==
    /\ nState \in {"CONNECTED", "DISCONNECTING"} =>
           registered /\ eState = "ADDED" /\ interest = events
    /\ nState = "DISCONNECTED" =>
           ~registered /\ eState = "DELETED" /\ events = {}

\* Once closed, and whatever stale events the handler still holds, no callback
\* of this Context starts again (handleRead, handleClose).
NoCallbackAfterClose ==
    [][nState = "DISCONNECTED" => pc' \notin Callbacks \/ pc' = pc]_vars

\* The Context closes, the process dies or the peer resets the connection.
Over == nState = "DISCONNECTED" \/ ~alive \/ peer = "reset"

\* handleWrite empties output while the peer reads, unless the Context closes.
OutputDrains == output # <<>> ~> (output = <<>> \/ Over)

\* recv 0 ---> handleClose: the peer's FIN always closes the Context, whatever
\* data, callbacks, pending output or own FIN it meets ...
EofCloses == peer = "fin" ~> Over

\* ... and so does handleRead after a reset, once its pending error was consumed
\* by a read or a write.
ConsumedResetCloses ==
    (peer = "reset" /\ ~soErr) ~> (nState = "DISCONNECTED" \/ ~alive)

\* No connection outlives its peer: the two above.
PeerEndCloses == EofCloses /\ ConsumedResetCloses

\* Context.h on shutdown(): A sends FIN, B answers, A becomes DISCONNECTED.
ShutdownCloses ==
    nState = "DISCONNECTING" ~> (nState = "DISCONNECTED" \/ ~alive)
=============================================================================
