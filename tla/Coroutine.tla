------------------------------ MODULE Coroutine ------------------------------
(***************************************************************************)
(* The coroutines of a thread (coroutine/Coroutine.h) and the system calls *)
(* that suspend them until epoll reports their fd (coroutine/posix.h).     *)
(*                                                                         *)
(* A coroutine c uses its own socket, and the timer and epoll fd that a    *)
(* call of it makes.  Users keep the convention posix.h states: nobody     *)
(* else uses these fds, and a coroutine that is in a call is resumed by    *)
(* loop() only.  The part of a thread that runs without a switch is one    *)
(* action.                                                                 *)
(***************************************************************************)
EXTENDS Integers, Sequences, FiniteSets, SequencesExt, Functions

CONSTANTS
    Coroutines,
    Main,              \* the main coroutine of the thread
    None,
    RecycleLimit,      \* size of _recycleStack: 0xff
    ConnectRetries,    \* PollConfig::connectRetries: 8
    Timeouts,          \* arguments of sleep() and poll()
    MaxCalls           \* bound: calls of a coroutine

ASSUME CoroutineAssumption ==
    /\ Main \notin Coroutines /\ None \notin Coroutines \cup {Main} \cup Nat
    /\ RecycleLimit \in Nat /\ ConnectRetries \in Nat \ {0} /\ MaxCalls \in Nat
    /\ Timeouts \subseteq Int /\ IsFiniteSet(Coroutines)

VARIABLES
    cStack,            \* Environment::_cStack
    recycled,          \* Environment::_recycleStack
    runtime,           \* Coroutine::_runtime
    context,           \* Coroutine::_context
    saved,             \* the coroutine whose registers a Context holds
    events,            \* PollConfig::events, by fd
    watched,           \* the fds in the interest list of PollConfig::epfd
    resuming,          \* routines of loop() still to be resumed
    at,                \* the call a coroutine is in, "user" if in none
    calls, result,     \* of a coroutine: calls made; what the last returned
    retries,           \* of connect()
    interest,          \* fds[..].events of poll()
    ready,             \* kernel: of a socket, READ and WRITE
    link,              \* kernel: how far the connect of a socket is
    timer              \* kernel: the timer of a coroutine

environment == <<cStack, recycled, runtime, context, saved>>
polling == <<events, watched>>
call == <<calls, result, retries, interest>>
kernel == <<ready, link, timer>>
vars == <<environment, polling, resuming, at, call, kernel>>

Contexts == 0 .. Cardinality(Coroutines)   \* 0 is the one of Main
Error == -1
Types == {"READ", "WRITE", "ERROR"}
Socket(c) == <<"socket", c>>
Timer(c) == <<"timer", c>>
Epoll(c) == <<"epoll", c>>

Init ==
    /\ cStack = <<Main>> /\ recycled = <<>>
    /\ runtime = [c \in Coroutines |-> "IDLE"]
    /\ context = [c \in Coroutines \cup {Main} |-> IF c = Main THEN 0 ELSE None]
    /\ saved = [x \in Contexts |-> None]
    /\ events = <<>> /\ watched = {} /\ resuming = <<>>
    /\ at = [c \in Coroutines |-> "user"]
    /\ calls = [c \in Coroutines |-> 0] /\ result = [c \in Coroutines |-> 0]
    /\ retries = [c \in Coroutines |-> 0]
    /\ interest = [c \in Coroutines |-> {}]
    /\ ready = [c \in Coroutines |-> {}]
    /\ link = [c \in Coroutines |-> "closed"]
    /\ timer = [c \in Coroutines |-> "none"]

-----------------------------------------------------------------------------
(* Coroutine and Environment                                               *)

current == Last(cStack)
Runs(c, where) == current = c /\ runtime[c] = "RUNNING" /\ at[c] = where

Used == Range(context) \cup ToSet(recycled)

\* Coroutine::resume by the current coroutine
Resume(d) ==
    IF runtime[d] = "EXIT" THEN UNCHANGED environment
    ELSE LET reusable == recycled # <<>>
             new == IF reusable THEN Last(recycled) ELSE CHOOSE x \in Contexts : x \notin Used
             idle == runtime[d] = "IDLE"
         IN  /\ context' = IF idle THEN [context EXCEPT ![d] = new] ELSE context
             /\ recycled' = IF idle /\ reusable THEN Front(recycled) ELSE recycled
             /\ runtime' = [runtime EXCEPT ![d] = "RUNNING"]
             /\ saved' = [saved EXCEPT ![context[current]] = current,
                                       ![context'[d]] = d]
             /\ cStack' = Append(cStack, d)

\* Coroutine::yield of the current coroutine
Yield ==
    /\ cStack' = Front(cStack)
    /\ saved' = [saved EXCEPT ![context[current]] = current]
    /\ UNCHANGED <<recycled, runtime, context>>

\* Mutant of Recycles: the coroutine keeps the Context it gave away.
RecyclesKept(c) ==
    /\ recycled' = IF Len(recycled) < RecycleLimit THEN Append(recycled, context[c])
                   ELSE recycled
    /\ UNCHANGED <<context, saved>>

\* A coroutine that gave its Context away leaves without saving its registers.
Recycles(c) ==
    IF Len(recycled) < RecycleLimit
       THEN /\ recycled' = Append(recycled, context[c])
            /\ context' = [context EXCEPT ![c] = None]
            /\ saved' = saved
       ELSE saved' = [saved EXCEPT ![context[c]] = c] /\ UNCHANGED <<recycled, context>>

\* The end of routineWrapper; its user has closed the socket.
Exit(c) ==
    /\ Runs(c, "user")
    /\ runtime' = [runtime EXCEPT ![c] = "EXIT"]
    /\ Recycles(c)
    /\ cStack' = Front(cStack)
    /\ result' = [result EXCEPT ![c] = 0] /\ ready' = [ready EXCEPT ![c] = {}]
    /\ link' = [link EXCEPT ![c] = "closed"]
    /\ UNCHANGED <<polling, resuming, at, calls, retries, interest, timer>>

\* A user resumes a coroutine that is new, or that yielded by itself.
Starts(d) ==
    /\ current = Main => resuming = <<>>
    /\ current # Main => at[current] = "user"
    /\ ~ Contains(cStack, d)
    /\ \/ runtime[d] = "IDLE" \/ at[d] = "yielded"
    /\ Resume(d)
    /\ at' = [at EXCEPT ![d] = "user"]
    /\ UNCHANGED <<polling, resuming, call, kernel>>

YieldsItself(c) ==
    /\ Runs(c, "user") /\ calls[c] < MaxCalls
    /\ calls' = [calls EXCEPT ![c] = @ + 1]
    /\ at' = [at EXCEPT ![c] = "yielded"]
    /\ Yield
    /\ UNCHANGED <<polling, resuming, result, retries, interest, kernel>>

-----------------------------------------------------------------------------
(* Waiting for an fd                                                       *)

InCall(c) == at[c] \in {"READ", "WRITE", "sleep", "poll", "backoff", "connect"}

NewEvent == [routines |-> [t \in Types |-> None], mask |-> {}]
Found(fd) == fd \in DOMAIN events

\* addEvent returns events.end(): the fd is waited for already.
Duplicate(fd, type) == Found(fd) /\ type \in events[fd].mask

\* addEvent: only a new entry takes the coroutine down.
addEvent(c, fd, type) ==
    /\ events' = [f \in DOMAIN events \cup {fd} |->
                     IF f # fd THEN events[f]
                     ELSE IF Found(fd) THEN [events[fd] EXCEPT !.mask = @ \cup {type}]
                     ELSE [NewEvent EXCEPT !.mask = {type}, !.routines[type] = c]]
    /\ watched' = IF Found(fd) THEN watched ELSE watched \cup {fd}

\* What epoll reports of an fd
IsReady(fd) ==
    LET c == fd[2] IN
    CASE fd[1] = "socket" ->
             \/ Found(fd) /\ events[fd].mask \cap ready[c] # {}
             \/ link[c] \in {"failed", "connected"} /\ Found(fd) /\ "WRITE" \in events[fd].mask
      [] fd[1] = "timer" -> timer[c] = "expired"
      [] fd[1] = "epoll" -> timer[c] = "expired" \/ interest[c] \cap ready[c] # {}

Waits(c, where) == at' = [at EXCEPT ![c] = where] /\ Yield
Returns(c, value) ==
    /\ at' = [at EXCEPT ![c] = "user"]
    /\ result' = [result EXCEPT ![c] = value]
Calls(c) ==
    /\ Runs(c, "user") /\ calls[c] < MaxCalls
    /\ calls' = [calls EXCEPT ![c] = @ + 1]

\* A transfer takes what is there, or leaves some.
Takes(c, type) == ready' \in {ready, [ready EXCEPT ![c] = @ \ {type}]}

\* read, write and accept4 try, wait, and try once more.  An fd that is ready
\* may have an error or the end of the stream to report, on which read and
\* write wait all the same.
Try(c, type, waitsReady) ==
    /\ Calls(c)
    /\ \/ /\ type \in ready[c] /\ Takes(c, type)
          /\ Returns(c, 1)
          /\ UNCHANGED <<environment, polling>>
       \/ /\ type \notin ready[c] \/ waitsReady
          /\ IF Duplicate(Socket(c), type)
                THEN Returns(c, 0) /\ UNCHANGED <<environment, polling>>
                ELSE addEvent(c, Socket(c), type) /\ Waits(c, type) /\ UNCHANGED result
          /\ UNCHANGED ready
    /\ UNCHANGED <<resuming, retries, interest, link, timer>>

Retry(c, type) ==
    /\ Runs(c, type)
    /\ \/ type \in ready[c] /\ Takes(c, type) /\ Returns(c, 1)
       \/ Returns(c, Error) /\ UNCHANGED ready
    /\ UNCHANGED <<environment, polling, resuming, calls, retries, interest, link, timer>>

Read(c) == Try(c, "READ", TRUE) \/ Retry(c, "READ")
Write(c) == Try(c, "WRITE", TRUE) \/ Retry(c, "WRITE")
Accept4(c) == Try(c, "READ", FALSE)

\* sleep and usleep: an interval of 0 disarms the timer.
Sleep(c) ==
    \/ /\ Calls(c)
       /\ \/ \E seconds \in Timeouts :
               /\ seconds >= 0
               /\ timer' = [timer EXCEPT ![c] = IF seconds = 0 THEN "off" ELSE "armed"]
               /\ addEvent(c, Timer(c), "READ") /\ Waits(c, "sleep")
               /\ UNCHANGED result
          \/ /\ Returns(c, Error)     \* no timer
             /\ UNCHANGED <<timer, environment, polling>>
       /\ UNCHANGED <<resuming, retries, interest, ready, link>>
    \/ /\ Runs(c, "sleep")
       /\ timer' = [timer EXCEPT ![c] = "none"]
       /\ Returns(c, 0)
       /\ UNCHANGED <<environment, polling, resuming, calls, retries, interest, ready, link>>

\* The part of poll() that waits: an epoll fd over the fds and a timer
PollWaits(c, fds, where) ==
    /\ timer' = [timer EXCEPT ![c] = "armed"]
    /\ interest' = [interest EXCEPT ![c] = fds]
    /\ addEvent(c, Epoll(c), "READ") /\ Waits(c, where)

Poll(c) ==
    /\ Calls(c)
    /\ \E fds \in SUBSET {"READ", "WRITE"}, timeout \in Timeouts :
          IF fds \cap ready[c] # {} \/ timeout <= 0
             THEN /\ Returns(c, Cardinality(fds \cap ready[c]))
                  /\ UNCHANGED <<environment, polling, interest, timer>>
             ELSE PollWaits(c, fds, "poll") /\ UNCHANGED result
    /\ UNCHANGED <<resuming, retries, ready, link>>

\* "collect", and the guard closes the two fds.
PollReturns(c) ==
    /\ Runs(c, "poll")
    /\ Returns(c, Cardinality(interest[c] \cap ready[c]))
    /\ timer' = [timer EXCEPT ![c] = "none"]
    /\ interest' = [interest EXCEPT ![c] = {}]
    /\ UNCHANGED <<environment, polling, resuming, calls, retries, ready, link>>

-----------------------------------------------------------------------------
(* connect                                                                 *)

\* ::connect on a socket that does not block, then a wait for WRITE
Connects(c) ==
    /\ link' \in {[link EXCEPT ![c] = l] :
                    l \in IF link[c] = "connected" THEN {"connected"} ELSE {"connecting", "failed"}}
    /\ IF Duplicate(Socket(c), "WRITE")
          THEN Returns(c, Error) /\ UNCHANGED <<environment, polling>>
          ELSE addEvent(c, Socket(c), "WRITE") /\ Waits(c, "connect") /\ UNCHANGED result

\* The head of the loop: attempts after the third wait first.
Attempt(c, n) ==
    IF n = ConnectRetries
       THEN /\ Returns(c, Error) /\ retries' = [retries EXCEPT ![c] = 0]
            /\ UNCHANGED <<environment, polling, interest, link, timer>>
       ELSE /\ retries' = [retries EXCEPT ![c] = n + 1]
            /\ IF n > 2
                  THEN PollWaits(c, {}, "backoff") /\ UNCHANGED <<result, link>>
                  ELSE Connects(c) /\ UNCHANGED <<interest, timer>>

Connect(c) ==
    \/ /\ Calls(c) /\ link[c] # "connected"
       /\ Attempt(c, 0)
       /\ UNCHANGED <<resuming, ready>>
    \/ /\ Runs(c, "backoff")
       /\ timer' = [timer EXCEPT ![c] = "none"]
       /\ Connects(c)
       /\ UNCHANGED <<resuming, calls, retries, interest, ready>>

\* Mutant of Connected: SO_ERROR alone decides, not getpeername().
ConnectedIfNoError(c) == link[c] # "failed"

Connected(c) == link[c] = "connected"

\* Back from the wait: an error is one to retry or another.
ConnectChecks(c) ==
    /\ Runs(c, "connect")
    /\ \/ /\ Connected(c) /\ Returns(c, 0)
          /\ retries' = [retries EXCEPT ![c] = 0]
          /\ UNCHANGED <<environment, polling, interest, link, timer>>
       \/ /\ link[c] = "failed" /\ Returns(c, Error)
          /\ retries' = [retries EXCEPT ![c] = 0]
          /\ UNCHANGED <<environment, polling, interest, link, timer>>
       \/ ~Connected(c) /\ Attempt(c, retries[c])
    /\ UNCHANGED <<resuming, calls, ready>>

-----------------------------------------------------------------------------
(* loop()                                                                  *)

\* Mutant of Erased: the entry stays.
ErasedNot(fd) == events

Erased(fd) == [f \in DOMAIN events \ {fd} |-> events[f]]

Routine(fd, type) ==
    LET c == events[fd].routines[type] IN IF c = None THEN <<>> ELSE <<c>>

\* Mutant of Routines: readers only.
RoutinesReading(fd) == Routine(fd, "READ")

Routines(fd) == Routine(fd, "READ") \o Routine(fd, "WRITE") \o Routine(fd, "ERROR")

LoopWaits(fd) ==
    /\ cStack = <<Main>> /\ resuming = <<>>
    /\ fd \in watched /\ IsReady(fd) /\ Found(fd)
    /\ watched' = watched \ {fd}
    /\ events' = Erased(fd)
    /\ resuming' = Routines(fd)
    /\ UNCHANGED <<environment, at, call, kernel>>

LoopResumes ==
    /\ cStack = <<Main>> /\ resuming # <<>>
    /\ resuming' = Tail(resuming)
    /\ Resume(Head(resuming))
    /\ UNCHANGED <<polling, at, call, kernel>>

-----------------------------------------------------------------------------
(* The rest of the world                                                   *)

\* Bound: a socket becomes ready before its coroutine starts or while it waits.
BecomesReady(c) ==
    /\ runtime[c] = "IDLE" \/ InCall(c)
    /\ \E type \in {"READ", "WRITE"} \ ready[c] : ready' = [ready EXCEPT ![c] = @ \cup {type}]
    /\ UNCHANGED <<environment, polling, resuming, at, call, link, timer>>

Expires(c) ==
    /\ timer[c] = "armed" /\ timer' = [timer EXCEPT ![c] = "expired"]
    /\ UNCHANGED <<environment, polling, resuming, at, call, ready, link>>

Answers(c) ==
    /\ link[c] = "connecting"
    /\ \E l \in {"connected", "failed"} : link' = [link EXCEPT ![c] = l]
    /\ UNCHANGED <<environment, polling, resuming, at, call, ready, timer>>

Fds == {Socket(c) : c \in Coroutines} \cup {Timer(c) : c \in Coroutines}
       \cup {Epoll(c) : c \in Coroutines}

Goes(c) ==
    \/ Exit(c) \/ YieldsItself(c) \/ Read(c) \/ Write(c) \/ Accept4(c)
    \/ Sleep(c) \/ Poll(c) \/ PollReturns(c) \/ Connect(c) \/ ConnectChecks(c)

Thread == (\E c \in Coroutines : Goes(c)) \/ (\E fd \in Fds : LoopWaits(fd)) \/ LoopResumes
Kernel == \E c \in Coroutines : Expires(c) \/ Answers(c)

Next == Thread \/ Kernel \/ \E c \in Coroutines : Starts(c) \/ BecomesReady(c)

Spec == Init /\ [][Next]_vars

\* A thread runs on; timers expire and peers answer.  That no fd is reported
\* over and over before another one needs no fairness: an entry is gone once it
\* was reported, and calls are bounded.
FairSpec == Spec /\ WF_vars(Thread) /\ WF_vars(Kernel)

-----------------------------------------------------------------------------
(* Properties                                                              *)

\* A Context is the one of at most one coroutine and not on the recycle stack
\* meanwhile; that of a coroutine that can be switched to holds its registers.
\* So nobody runs on a stack that another coroutine will come back to.
ContextExclusive ==
    /\ \A c, d \in Coroutines \cup {Main} :
          context[c] # None /\ c # d => context[c] # context[d]
    /\ IsInjective(recycled) /\ ToSet(recycled) \cap Range(context) = {}
    /\ \A c \in Coroutines \cup {Main} :
          c # current /\ (c = Main \/ runtime[c] = "RUNNING") =>
              context[c] # None /\ saved[context[c]] = c

Suspended(c) == InCall(c) /\ ~ Contains(cStack, c) /\ ~ Contains(resuming, c)
WaitsFor(c) == IF at[c] = "sleep" THEN Timer(c)
               ELSE IF at[c] \in {"poll", "backoff"} THEN Epoll(c) ELSE Socket(c)

\* A coroutine suspended in a call is in the slot of one entry, that of the fd
\* it waits for, and epoll watches that fd: no wake-up is lost, whatever the
\* coroutine waited for before.  There are no other entries.
WaitersRegistered ==
    /\ \A c \in Coroutines : Suspended(c) =>
          /\ Found(WaitsFor(c)) /\ WaitsFor(c) \in watched
          /\ \E type \in Types : events[WaitsFor(c)].routines[type] = c
    /\ \A fd \in DOMAIN events :
          Suspended(fd[2]) /\ WaitsFor(fd[2]) = fd

\* connect() says it is connected only when it is, and gives up in the end;
\* poll() returns 0 only after its timeout.
CallsHonest ==
    [][\A c \in Coroutines :
         /\ at[c] = "connect" /\ at'[c] = "user" /\ result'[c] = 0 => link[c] = "connected"
         /\ at[c] = "poll" /\ at'[c] = "user" /\ result'[c] = 0 => timer[c] = "expired"]_vars

\* What a coroutine waits for wakes it: when its fd is ready its call goes on,
\* and every connect(), sleep() and poll() with a timeout returns.
CallsReturn ==
    \A c \in Coroutines :
        /\ Suspended(c) /\ IsReady(WaitsFor(c)) ~> ~Suspended(c)
        /\ at[c] \in {"connect", "backoff", "sleep", "poll"} ~> at[c] = "user"
=============================================================================
