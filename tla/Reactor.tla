------------------------------- MODULE Reactor -------------------------------
(***************************************************************************)
(* Servers and clients (app/Server.h, app/Client.h) with their acceptor,   *)
(* connector and multiplexer, over pools that keep what ContextStore       *)
(* promises.  An app of Outer shares its multiplexer with the application, *)
(* which polls it between the batches of these apps, or on a thread of its *)
(* own (PollerThread); another app polls its own multiplexer.  What        *)
(* happens inside one connection is in Connection; here a Context is open  *)
(* or closed, and its events may close it.  Guards of user code only       *)
(* keep a closed Context longer; the store may always keep it.             *)
(***************************************************************************)
EXTENDS Integers, Sequences, FiniteSets, SequencesExt, FiniteSetsExt

CONSTANTS
    Servers, Clients,
    Outer,             \* apps constructed with a multiplexer
    PollerThread,
    Contexts,
    Fds,               \* descriptors a process can have
    None,              \* no descriptor: Socket::INVALID_FD
    MaxPeers,          \* bound: connections that arrive at a server
    MaxConnects,       \* bound: connect() calls of a client
    MaxFailures,       \* bound: connection attempts that fail
    MaxResults         \* bound: results that wait for an app

Apps == Servers \cup Clients

ASSUME ReactorAssumption ==
    /\ Servers \cap Clients = {} /\ Outer \subseteq Apps
    /\ PollerThread \in BOOLEAN
    /\ Fds \subseteq Nat /\ None \notin Fds
    /\ IsFiniteSet(Contexts)

VARIABLES
    status,            \* of every Context: see ContextStore
    owner,             \* bundle->first: the app that a Context belongs to
    socket,            \* Context::socket
    pc, stopped,       \* where an app is in batch(), "user" outside run(); _stop
    evnetVectors,      \* Multiplexer::_evnetVectors, by app
    eventBuffer,       \* Handler::_eventBuffer
    lastBuffered,      \* Acceptor::_lastBufferedSocket
    arguments,         \* what the closures of connect() share; its socket None
                       \* if no connect is under way
    connects, failures,
    backlog, peers,    \* kernel: of a server, connections waiting and to come
    link               \* kernel: of a descriptor, "closed" if not open

Store == INSTANCE ContextStore
    WITH MaxGuards <- 0, lifecycle <- [c \in Contexts |-> FALSE], guards <- [c \in Contexts |-> 0]

contexts == <<status, owner, socket>>
events == <<evnetVectors, eventBuffer>>
connecting == <<arguments, connects, failures>>
network == <<backlog, peers, link>>
vars == <<contexts, pc, stopped, events, lastBuffered, connecting, network>>

NoConnect == [socket |-> None, err |-> "0", reconnect |-> FALSE, nextInstance |-> FALSE]

Init ==
    /\ Store!SInit
    /\ owner = [c \in Contexts |-> None] /\ socket = [c \in Contexts |-> None]
    /\ pc = [a \in Apps |-> "user"] /\ stopped = [a \in Apps |-> FALSE]
    /\ evnetVectors = [a \in Apps |-> <<>>] /\ eventBuffer = [a \in Apps |-> <<>>]
    /\ lastBuffered = [s \in Servers |-> None]
    /\ arguments = [k \in Clients |-> NoConnect]
    /\ connects = [k \in Clients |-> 0] /\ failures = 0
    /\ backlog = [s \in Servers |-> 0] /\ peers = [s \in Servers |-> 0]
    /\ link = [f \in Fds |-> "closed"]

GoTo(a, here, there) == pc[a] = here /\ pc' = [pc EXCEPT ![a] = there]

\* The kernel gives the lowest descriptor that is free.
Free(l) == {f \in Fds : l[f] = "closed"}
FreeFd(l) == Min(Free(l))

-----------------------------------------------------------------------------
(* run() and batch()                                                       *)

\* The first step of a batch behind the poll.
AfterPoll(a) == IF a \in Servers THEN "accept" ELSE "events"

\* An app of Outer does not poll.
Starts(a) == IF a \in Outer THEN AfterPoll(a) ELSE "poll"

Run(a) ==
    /\ GoTo(a, "user", Starts(a))
    /\ stopped' = [stopped EXCEPT ![a] = FALSE]
    /\ UNCHANGED <<contexts, events, lastBuffered, connecting, network>>

\* run() tests _stop behind every batch.
Tests(a) == IF stopped[a] THEN "user" ELSE Starts(a)

\* From user code in a callback, or from another thread.
Stop(a) ==
    /\ pc[a] # "user" /\ stopped' = [stopped EXCEPT ![a] = TRUE]
    /\ UNCHANGED <<contexts, pc, events, lastBuffered, connecting, network>>

-----------------------------------------------------------------------------
(* Multiplexer and Handler                                                 *)

\* Contexts that epoll watches: handleNewContext adds, handleClose removes.
Watched(as) == {c \in Contexts : status[c] = "open" /\ owner[c] \in as}

\* Mutant of Index: every result goes to the first app that has one.
IndexOfAny(c) == CHOOSE a \in Apps : a \in {owner[d] : d \in Contexts}

\* dispatchActiveContext: the vector of a result
Index(c) == owner[c]

Poll(as) ==
    \E found \in SUBSET Watched(as) :
        LET results(a) == SetToSeq({c \in found : Index(c) = a})
        IN  /\ evnetVectors' = [a \in Apps |-> evnetVectors[a] \o results(a)]
            /\ \A a \in Apps : Len(evnetVectors'[a]) <= MaxResults

PollInner(a) ==
    /\ GoTo(a, "poll", AfterPoll(a))
    /\ Poll({a})
    /\ UNCHANGED <<contexts, stopped, eventBuffer, lastBuffered, connecting, network>>

\* The application polls what it shares with the apps of Outer.  A result that
\* waits for the lock is as good as dispatched: the app does not look for it.
PollOuter ==
    /\ Outer # {} /\ (PollerThread \/ \A a \in Outer : pc[a] \in {"user", AfterPoll(a)})
    /\ Poll(Outer)
    /\ UNCHANGED <<contexts, pc, stopped, eventBuffer, lastBuffered, connecting, network>>

\* Where handleEvents is when these results are left.
Rest(results) == IF results = <<>> THEN "loop" ELSE "handling"

\* handleEvents takes the vector ...
HandleEvents(a) ==
    /\ GoTo(a, "events", Rest(evnetVectors[a]))
    /\ eventBuffer' = [eventBuffer EXCEPT ![a] = evnetVectors[a]]
    /\ evnetVectors' = [evnetVectors EXCEPT ![a] = <<>>]
    /\ UNCHANGED <<contexts, stopped, lastBuffered, connecting, network>>

\* ... and handles one after the other, also those of a Context closed before:
\* what is read then tells data from the end of the connection.
HandleEvent(a) ==
    /\ GoTo(a, "handling", Rest(Tail(eventBuffer[a])))
    /\ UNCHANGED status \/ Store!Close(Head(eventBuffer[a]))
    /\ eventBuffer' = [eventBuffer EXCEPT ![a] = Tail(@)]
    /\ UNCHANGED <<owner, socket, stopped, evnetVectors, lastBuffered, connecting, network>>

-----------------------------------------------------------------------------
(* A new Context                                                           *)

\* Pool::emplace for app a takes the socket over; the Context that it destroys,
\* one of the same pool, closes its own.  Then handleNewContext.  Bound: Contexts.
Emplace(a, fd, l) ==
    LET absent == {d \in Contexts : status[d] = "absent"}
        c == CHOOSE d \in absent : TRUE
    IN  /\ absent # {}
        /\ Store!SEmplace(c)
        /\ LET gone == {d \in Contexts : status[d] # "absent" /\ status'[d] = "absent"}
           IN  /\ \A d \in gone : owner[d] = a
               /\ owner' = [d \in Contexts |-> IF d = c THEN a ELSE IF d \in gone THEN None ELSE owner[d]]
               /\ socket' = [d \in Contexts |-> IF d = c THEN fd ELSE IF d \in gone THEN None ELSE socket[d]]
               /\ link' = [f \in Fds |-> IF \E d \in gone : socket[d] = f THEN "closed" ELSE l[f]]

-----------------------------------------------------------------------------
(* Server::accept                                                          *)

\* Acceptor::accept: accept4, or nothing to accept, or no descriptor for it
Accept(s) ==
    IF backlog[s] = 0 \/ Free(link) = {}
    THEN /\ GoTo(s, "accept", "events")
         /\ UNCHANGED <<contexts, stopped, events, lastBuffered, connecting, network>>
    ELSE /\ GoTo(s, "accept", "accepted")
         /\ lastBuffered' = [lastBuffered EXCEPT ![s] = FreeFd(link)]
         /\ link' = [link EXCEPT ![FreeFd(link)] = "connected"]
         /\ backlog' = [backlog EXCEPT ![s] = @ - 1]
         /\ UNCHANGED <<contexts, stopped, events, connecting, peers>>

\* std::move(_lastBufferedSocket)
Moved(s) == [lastBuffered EXCEPT ![s] = None]

AceeptResult(s) ==
    /\ GoTo(s, "accepted", "events")
    /\ Emplace(s, lastBuffered[s], link)
    /\ lastBuffered' = Moved(s)
    /\ UNCHANGED <<stopped, events, connecting, backlog, peers>>

-----------------------------------------------------------------------------
(* Connector and Client::connect                                           *)

\* ::connect on a socket that does not block: its errno and what becomes of
\* the socket
Attempts(state) ==
    CASE state = "connecting" -> {<<"EALREADY", "connecting">>}
      [] state = "connected" -> {<<"EISCONN", "connected">>}
      [] state = "failed" -> {<<"ECONNREFUSED", "new">>, <<"ETIMEDOUT", "new">>}
      [] OTHER -> {<<"0", "connected">>, <<"EINPROGRESS", "connecting">>}
                  \cup (IF failures < MaxFailures
                        THEN {<<"ECONNREFUSED", "new">>, <<"ENETUNREACH", "new">>, <<"EACCES", "new">>}
                        ELSE {})

Fails(attempt) ==
    failures' = failures + (IF attempt[2] = "new" /\ failures < MaxFailures THEN 1 ELSE 0)

\* Connector::connect tries at once; its futures are posted to the looper.
Connect(k) ==
    /\ connects[k] < MaxConnects /\ arguments[k] = NoConnect
    /\ pc[k] \in {"user", "handling"} /\ Free(link) # {}
    /\ \E attempt \in Attempts("new") :
          /\ link' = [link EXCEPT ![FreeFd(link)] = attempt[2]]
          /\ arguments' = [arguments EXCEPT ![k] =
                              [NoConnect EXCEPT !.socket = FreeFd(link), !.err = attempt[1]]]
          /\ Fails(attempt)
    /\ connects' = [connects EXCEPT ![k] = @ + 1]
    /\ UNCHANGED <<contexts, pc, stopped, events, lastBuffered, backlog, peers>>

Sets(k, args) == arguments' = [arguments EXCEPT ![k] = args]

\* The poll closure, in the turn that reconnects: a fatal error is seen in the
\* next one.  Bound: with no descriptor left Socket() would throw.
Reconnect(k) ==
    LET args == arguments[k]
        \* Socket().swap(socket): the new one is made before the old one is closed
        fd == IF args.nextInstance THEN FreeFd(link) ELSE args.socket
        old == IF args.nextInstance THEN "new" ELSE link[args.socket]
    IN  /\ args.nextInstance => Free(link) # {}
        /\ \E attempt \in Attempts(old) :
              /\ link' = [f \in Fds |-> IF f = fd THEN attempt[2]
                                        ELSE IF f = args.socket THEN "closed" ELSE link[f]]
              /\ Sets(k, [socket |-> fd, err |-> attempt[1], reconnect |-> FALSE,
                          nextInstance |-> FALSE])
              /\ Fails(attempt)

\* Mutant of testFailed: a connect that was begun is taken for a connection.
testFailedNot(fd) == FALSE

\* getpeername() fails.
testFailed(fd) == link[fd] # "connected"

NextInstance == {"ENETUNREACH", "ETIMEDOUT"}     \* and EINTR
Pending == {"EINPROGRESS", "EISCONN", "EALREADY", "ECONNREFUSED"}

\* Mutant of Again: the next turn does not reconnect.
AgainLater(args) == [args EXCEPT !.nextInstance = TRUE]

Again(args) == [args EXCEPT !.nextInstance = TRUE, !.reconnect = TRUE]

\* The turns in which the closure returns false ...
Polls(k) ==
    LET args == arguments[k]
    IN  \/ args.reconnect /\ Reconnect(k)
        \/ /\ ~args.reconnect /\ args.err \in NextInstance
           /\ Sets(k, Again(args)) /\ UNCHANGED <<link, failures>>
        \/ /\ ~args.reconnect /\ args.err \in Pending /\ testFailed(args.socket)
           /\ Sets(k, [args EXCEPT !.err = "ENOTCONN", !.reconnect = TRUE])
           /\ UNCHANGED <<link, failures>>

\* ... the one in which it returns true without an error, and the then() of
\* Client::connect ...
Connected(k) ==
    LET args == arguments[k]
    IN  /\ ~args.reconnect
        /\ \/ args.err = "0"
           \/ args.err \in Pending /\ ~testFailed(args.socket)
        /\ Emplace(k, args.socket, link)
        /\ Sets(k, NoConnect)

\* ... and the one cancelIf stops: the socket goes with the closures.
Cancelled(k) ==
    LET args == arguments[k]
    IN  /\ ~args.reconnect /\ args.err \notin {"0"} \cup NextInstance \cup Pending
        /\ link' = [link EXCEPT ![args.socket] = "closed"]
        /\ Sets(k, NoConnect)

\* _looper.loop() of a client that connects
ConnectTurn(k) ==
    /\ GoTo(k, "loop", Tests(k)) /\ arguments[k] # NoConnect
    /\ \/ Polls(k) /\ UNCHANGED contexts
       \/ Connected(k) /\ UNCHANGED failures
       \/ Cancelled(k) /\ UNCHANGED <<contexts, failures>>
    /\ UNCHANGED <<stopped, events, lastBuffered, connects, backlog, peers>>

\* ... and of any other app.
Loop(a) ==
    /\ GoTo(a, "loop", Tests(a))
    /\ a \in Clients => arguments[a] = NoConnect
    /\ UNCHANGED <<contexts, stopped, events, lastBuffered, connecting, network>>

-----------------------------------------------------------------------------
(* The network                                                             *)

Arrives(s) ==
    /\ peers[s] < MaxPeers /\ peers' = [peers EXCEPT ![s] = @ + 1]
    /\ backlog' = [backlog EXCEPT ![s] = @ + 1]
    /\ UNCHANGED <<contexts, pc, stopped, events, lastBuffered, connecting, link>>

\* The handshake ends.
Answers(f) ==
    /\ link[f] = "connecting"
    /\ \/ link' = [link EXCEPT ![f] = "connected"] /\ UNCHANGED failures
       \/ /\ failures < MaxFailures /\ failures' = failures + 1
          /\ link' = [link EXCEPT ![f] = "failed"]
    /\ UNCHANGED <<contexts, pc, stopped, events, lastBuffered, arguments, connects, backlog, peers>>

Batches(a) == PollInner(a) \/ HandleEvents(a) \/ HandleEvent(a) \/ Loop(a)
Thread(a) ==
    \/ Batches(a)
    \/ a \in Servers /\ (Accept(a) \/ AceeptResult(a))
    \/ a \in Clients /\ ConnectTurn(a)

Next ==
    \/ \E a \in Apps : Thread(a) \/ Run(a) \/ Stop(a)
    \/ \E s \in Servers : Arrives(s)
    \/ \E k \in Clients : Connect(k)
    \/ PollOuter
    \/ \E f \in Fds : Answers(f)

Spec == Init /\ [][Next]_vars

\* A thread inside run() runs; handshakes end.
FairSpec ==
    /\ Spec
    /\ \A a \in Apps : WF_vars(Thread(a))
    /\ WF_vars(\E f \in Fds : Answers(f))

-----------------------------------------------------------------------------
(* Properties                                                              *)

Live(a) ==
    \A c \in ToSet(evnetVectors[a]) \cup ToSet(eventBuffer[a]) :
        status[c] # "absent" /\ owner[c] = a

\* A result that waits for an app, or that it is about to handle, points to a
\* Context that still exists, one of its own pool, although Contexts are closed
\* and destroyed while results wait, if no poller thread adds results meanwhile.
ResultsLive == ~PollerThread => \A a \in Apps : Live(a)

\* The README calls the library thread-safe with a few locks: the results that a
\* poller thread adds point to existing Contexts too.
PollerResultsLive == PollerThread => \A a \in Apps : Live(a)

Holders == [c : Contexts] \cup [s : Servers] \cup [k : Clients]
Holds(h) == IF "c" \in DOMAIN h THEN socket[h.c]
            ELSE IF "s" \in DOMAIN h THEN lastBuffered[h.s] ELSE arguments[h.k].socket

\* A descriptor that is open is held by exactly one Socket, so it is closed once
\* and none leaks, through all moves between acceptor, connector and pool; and a
\* Context exists only over a connection.
SocketsHeld ==
    /\ \A f \in Fds : (link[f] # "closed") <=> \E h \in Holders : Holds(h) = f
    /\ \A g, h \in Holders : g # h /\ Holds(g) # None => Holds(g) # Holds(h)
    /\ \A c \in Contexts : status[c] # "absent" => socket[c] # None /\ link[socket[c]] = "connected"

\* While an app runs, a connection that arrives is accepted and a connect() ends;
\* and it stops when it is told to while it runs.
AppsProgress ==
    /\ \A s \in Servers : backlog[s] > 0 ~> (backlog[s] = 0 \/ pc[s] = "user")
    /\ \A k \in Clients : arguments[k] # NoConnect ~> (arguments[k] = NoConnect \/ pc[k] = "user")
    /\ \A a \in Apps : stopped[a] ~> pc[a] = "user"
=============================================================================
