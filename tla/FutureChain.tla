---------------------------- MODULE FutureChain ----------------------------
(***************************************************************************)
(* Promise, Future and Looper: control blocks, the continuation each may   *)
(* have, and the queue of coroutines that run the continuations.  All of   *)
(* it is used by one thread.  A coroutine that runs the continuation of f  *)
(* is named f in queue; the Looper resumes each coroutine that is queued   *)
(* when loop() begins, and one that yields goes to the back.               *)
(*                                                                         *)
(* User code runs between two calls of loop() and in the functions it gave *)
(* to then, poll and cancelIf; there it may do anything a user may.        *)
(***************************************************************************)
EXTENDS Integers, Sequences, FiniteSets

CONSTANTS
    Futures,     \* bound: the control blocks that can be created
    Nobody,      \* no future
    NoThen,      \* an empty std::function
    Params,      \* parameter types of user functions: "T", "T&", "T&&"
    Counts,      \* counts given to poll(count, f)
    UserGets     \* user code calls the unsafe Future::get()

VARIABLES
    state, value, then,   \* ControlBlock: _state, _value, _then
    queue, turns,         \* Looper: _mq, and the resumes left in loop()
    running,              \* the future whose user function is running
    suspended,            \* coroutines that have yielded
    upstream,             \* history: what a future was chained to, transitively
    runs, given,          \* history: calls of _then, values functions got
    resumed,              \* history: coroutines this loop() has resumed
    alive                 \* no exception has left a coroutine

blockVars == <<state, value, then>>
histVars  == <<upstream, runs, given, resumed>>
vars == <<state, value, then, queue, turns, running, suspended,
          upstream, runs, given, resumed, alive>>

State == {"absent", "NEW", "READY", "POSTED", "DONE", "DEAD", "CANCEL"}
\* A value is default-constructed, what it was set to, or moved away.
Value == {"default", "intact", "moved"}
Kinds == {"then", "poll", "pollCount", "cancelIf"}
\* A _then: the user function, its parameter type, the future its promise
\* belongs to, and the calls poll(count, f) has left.
Continuation == [kind : Kinds, param : {"T", "T&", "T&&"},
                 next : Futures, count : Nat]

ASSUME FutureAssumption ==
    /\ Nobody \notin Futures
    /\ NoThen \notin Continuation
    /\ Params \subseteq {"T", "T&", "T&&"}
    /\ Counts \subseteq Nat
    /\ UserGets \in BOOLEAN

Elements(s) == {s[i] : i \in DOMAIN s}

Init ==
    /\ state = [f \in Futures |-> "absent"]
    /\ value = [f \in Futures |-> "default"]
    /\ then = [f \in Futures |-> NoThen]
    /\ queue = <<>> /\ turns = 0 /\ running = Nobody
    /\ suspended = {}
    /\ upstream = [f \in Futures |-> {}]
    /\ runs = [f \in Futures |-> 0]
    /\ given = [f \in Futures |-> {}]
    /\ resumed = {} /\ alive = TRUE

UserTurn == alive /\ (running # Nobody \/ turns = 0)

-----------------------------------------------------------------------------
(* Promise                                                                 *)

\* Mutant of SettledState: the continuation is not looked at.
SettledStateReady(f) == "READY"

\* Mutant of SettledState: posted without a continuation.
SettledStatePosted(f) == "POSTED"

\* The state setValue() leaves: READY, or POSTED if there is a _then to post.
SettledState(f) == IF then[f] = NoThen THEN "READY" ELSE "POSTED"

\* Mutant of Settable: a promise that is set twice.
SettableAgain(f) == state[f] \in {"NEW", "READY", "POSTED", "DONE"}

\* Promise::setValue sets the value of ...
Settable(f) == state[f] = "NEW"
\* ... and throws on
Unsettable(f) == ~Settable(f) /\ state[f] # "CANCEL"

\* setValue(v) on g, while _mq is q; a cancelled g ignores it.  The future
\* ends has run its continuation; its value is moved out if spent.
Settle(g, v, q, ends, spent) ==
    /\ ~Unsettable(g)
    /\ state' = [h \in Futures |->
                    IF h = ends THEN "DONE"
                    ELSE IF h = g /\ Settable(g) THEN SettledState(g)
                    ELSE state[h]]
    /\ value' = [h \in Futures |->
                    IF h = g /\ Settable(g) THEN v
                    ELSE IF h = ends /\ spent THEN "moved"
                    ELSE value[h]]
    /\ queue' = IF Settable(g) /\ SettledState(g) = "POSTED"
                THEN Append(q, g) ELSE q

\* The promise is the user's, not one that futureRoutine keeps in a _then.
UserPromise(f) == state[f] # "absent" /\ upstream[f] = {}

\* Promise(looper).  makeFuture(looper, v) is this and SetValue.
MakePromise(f) ==
    /\ UserTurn /\ state[f] = "absent"
    /\ state' = [state EXCEPT ![f] = "NEW"]
    /\ UNCHANGED <<value, then, queue, turns, running, suspended, histVars, alive>>

SetValue(f) ==
    /\ UserTurn /\ UserPromise(f)
    /\ Settle(f, "intact", queue, Nobody, FALSE)
    /\ UNCHANGED <<then, turns, running, suspended, histVars, alive>>

\* "promise can only set once."; a user who catches it changes nothing.
SetValueThrows(f) ==
    /\ UserTurn /\ UserPromise(f) /\ Unsettable(f)
    /\ alive' = FALSE
    /\ UNCHANGED <<blockVars, queue, turns, running, suspended, histVars>>

Cancel(f) ==
    /\ UserTurn /\ UserPromise(f)
    /\ state' = [state EXCEPT ![f] = "CANCEL"]
    /\ UNCHANGED <<value, then, queue, turns, running, suspended, histVars, alive>>

-----------------------------------------------------------------------------
(* Future                                                                  *)

\* Mutant of Registers: a request that is posted gets another _then.
RegistersPosted(f) == state[f] \in {"NEW", "READY", "POSTED"}

\* futureRoutine stores a _then only in a future that is ...
Registers(f) == state[f] \in {"NEW", "READY"}

\* The state of the future that futureRoutine returns.
ChainedState(f) == IF state[f] = "CANCEL" THEN "CANCEL" ELSE "NEW"

\* Mutant of PostsNow: the value is not waited for.
PostsNowAlways(f) == state[f] \in {"NEW", "READY"}

\* The value is there: the request is posted at once.
PostsNow(f) == state[f] = "READY"

\* Future::futureRoutine: g is the future returned for continuation c on f.
FutureRoutine(f, c) ==
    LET g == c.next
        s == IF PostsNow(f) THEN "POSTED" ELSE state[f]
    IN  /\ UserTurn
        /\ state[f] # "absent" /\ state[g] = "absent"
        /\ state' = [state EXCEPT ![f] = s, ![g] = ChainedState(f)]
        /\ then' = IF Registers(f) THEN [then EXCEPT ![f] = c] ELSE then
        /\ queue' = IF PostsNow(f) THEN Append(queue, f) ELSE queue
        /\ upstream' = [upstream EXCEPT ![g] = upstream[f] \cup {f}]
        /\ UNCHANGED <<value, turns, running, suspended, runs, given,
                       resumed, alive>>

\* then, poll, poll(count) and cancelIf.
Chain(f) ==
    \E k \in Kinds, p \in Params, g \in Futures :
    \E n \in IF k = "pollCount" THEN Counts ELSE {0} :
        FutureRoutine(f, [kind |-> k, param |-> p, next |-> g, count |-> n])

\* Future::get(), "UNSAFE".
Get(f) ==
    /\ UserTurn /\ UserGets /\ state[f] # "absent"
    /\ state' = [state EXCEPT ![f] = "DEAD"]
    /\ value' = [value EXCEPT ![f] = "moved"]
    /\ UNCHANGED <<then, queue, turns, running, suspended, histVars, alive>>

-----------------------------------------------------------------------------
(* Looper and coroutines                                                   *)

\* Mutant of UnrolledTurns: the last odd turn is left out.
UnrolledTurnsEven(n) == 4 * (n \div 4) + (IF n % 4 >= 2 THEN 2 ELSE 0)

\* unroll4x(): a loop of four resumes, then two, then one.
UnrolledTurns(n) ==
    4 * (n \div 4) + (IF n % 4 >= 2 THEN 2 ELSE 0) + (n % 2)

\* Looper::loop begins.
Loop ==
    /\ alive /\ running = Nobody /\ turns = 0 /\ queue # <<>>
    /\ turns' = UnrolledTurns(Len(queue))
    /\ resumed' = {}
    /\ UNCHANGED <<blockVars, queue, running, suspended, upstream, runs, given,
                   alive>>

Front == Head(queue)
\* poll(count, f) has called f count times.
Exhausted(f) == then[f].kind = "pollCount" /\ then[f].count = 0

HasTurn == alive /\ running = Nobody /\ turns > 0

\* A turn of the coroutine in front.
Turn ==
    /\ HasTurn
    /\ turns' = turns - 1
    /\ resumed' = resumed \cup {Front}

\* What a user function with a parameter of type p may do to _value: a T is
\* moved from it, as std::forward<T> is an rvalue; a T&& is at its disposal.
Moves(p) == IF p = "T&" THEN {FALSE} ELSE IF p = "T" THEN {TRUE} ELSE BOOLEAN

Starts(f) == runs' = [runs EXCEPT ![f] = IF f \in suspended THEN @ ELSE @ + 1]

\* Mutant of Spend: the count is not counted down.
SpendNothing(c) == c

\* count-- of poll(count, f).
Spend(c) == IF c.kind = "pollCount" THEN [c EXCEPT !.count = @ - 1] ELSE c

\* loopOnceUnchecked(): the coroutine in front calls its user function, for the
\* first time or after a yield.
Resume ==
    /\ Turn /\ ~Exhausted(Front)
    /\ running' = Front
    /\ queue' = Tail(queue)
    /\ Starts(Front)
    /\ given' = [given EXCEPT ![Front] = @ \cup {value[Front]}]
    /\ \E moved \in Moves(then[Front].param) :
           value' = IF moved THEN [value EXCEPT ![Front] = "moved"] ELSE value
    /\ then' = [then EXCEPT ![Front] = Spend(@)]
    /\ UNCHANGED <<state, suspended, upstream, alive>>

\* The value of f goes on to the next future: promise.setValue(forward(value)).
Forward(f, q) ==
    Settle(then[f].next, value[f], q, f, then[f].param # "T&")

\* poll(count, f) gives up and forwards.
ResumeExhausted ==
    /\ Turn /\ Exhausted(Front)
    /\ Forward(Front, Tail(queue))
    /\ Starts(Front)
    /\ suspended' = suspended \ {Front}
    /\ UNCHANGED <<then, running, upstream, given, alive>>

\* The user function returns and the coroutine ends.
Ends ==
    /\ alive /\ running # Nobody
    /\ running' = Nobody
    /\ suspended' = suspended \ {running}
    /\ UNCHANGED <<then, turns, upstream, runs, given, resumed, alive>>

ThenReturns ==
    /\ Ends /\ then[running].kind = "then"
    /\ Settle(then[running].next, "intact", queue, running, FALSE)

\* poll gets true, cancelIf gets false.
Forwards ==
    /\ Ends /\ then[running].kind # "then"
    /\ Forward(running, queue)

\* Mutant of CancelsNext: the value is set all the same.
CancelsNextToo ==
    /\ Ends /\ then[running].kind = "cancelIf"
    /\ state' = [state EXCEPT ![then[running].next] = "CANCEL",
                              ![running] = "DONE"]
    /\ UNCHANGED value
    /\ queue' = IF SettledState(then[running].next) = "POSTED"
                THEN Append(queue, then[running].next) ELSE queue

\* cancelIf gets true: promise.cancel().
CancelsNext ==
    /\ Ends /\ then[running].kind = "cancelIf"
    /\ state' = [state EXCEPT ![then[running].next] = "CANCEL",
                              ![running] = "DONE"]
    /\ UNCHANGED <<value, queue>>

\* running(): loopOnceUnchecked() puts it at the end of _mq.
Requeue(f) == queue' = Append(queue, f)

\* poll gets false: Looper::yield().
Yields ==
    /\ alive /\ running # Nobody
    /\ then[running].kind \in {"poll", "pollCount"}
    /\ Requeue(running)
    /\ running' = Nobody
    /\ suspended' = suspended \cup {running}
    /\ UNCHANGED <<blockVars, turns, upstream, runs, given, resumed, alive>>

\* An exception leaves the coroutine: of the user function, or of setValue()
\* on a future that get() has killed.  std::terminate.
Terminates ==
    /\ alive
    /\ \/ running # Nobody
       \/ HasTurn /\ Exhausted(Front) /\ Unsettable(then[Front].next)
    /\ alive' = FALSE
    /\ UNCHANGED <<blockVars, queue, turns, running, suspended, histVars>>

-----------------------------------------------------------------------------
User == \E f \in Futures :
    MakePromise(f) \/ SetValue(f) \/ SetValueThrows(f) \/ Cancel(f)
        \/ Chain(f) \/ Get(f)

Looper == Loop \/ Resume \/ ResumeExhausted

Returns == ThenReturns \/ Forwards \/ CancelsNext \/ Yields

Next == User \/ Looper \/ Returns \/ Terminates

Spec == Init /\ [][Next]_vars

\* Server::run and Client::run call loop() for ever; user functions return, or
\* what they do throws.
FairSpec ==
    /\ Spec
    /\ WF_vars(Loop)
    /\ WF_vars(Resume \/ ResumeExhausted \/ (Terminates /\ HasTurn))
    /\ WF_vars(Returns \/ (Terminates /\ running # Nobody))

-----------------------------------------------------------------------------
(* Properties                                                              *)

\* The coroutine of f exists.
Pending(f) == running = f \/ f \in Elements(queue)

\* Every variable keeps its type; what has a coroutine has a _then.
TypeOK ==
    /\ state \in [Futures -> State] /\ value \in [Futures -> Value]
    /\ then \in [Futures -> Continuation \cup {NoThen}]
    /\ queue \in Seq(Futures) /\ turns \in Nat
    /\ running \in Futures \cup {Nobody}
    /\ suspended \in SUBSET Futures
    /\ upstream \in [Futures -> SUBSET Futures]
    /\ runs \in [Futures -> Nat] /\ given \in [Futures -> SUBSET Value]
    /\ resumed \in SUBSET Futures /\ alive \in BOOLEAN
    /\ \A f \in Futures : Pending(f) => then[f] # NoThen

\* In whatever order then(), setValue(), cancel() and get() come, also from the
\* continuations themselves, a continuation is started at most once.
RunsOnce == \A f \in Futures : runs[f] <= 1

\* No wake-up is lost: a value that is there and a continuation always meet, and
\* a future that says POSTED has its coroutine.
NothingForgotten ==
    \A f \in Futures :
        /\ state[f] = "READY" => then[f] = NoThen
        /\ state[f] = "POSTED" => Pending(f)

\* A continuation never gets the default-constructed value of a future that was
\* not set.
NeverUnset == \A f \in Futures : "default" \notin given[f]

\* What hangs on a future that cancelIf cancelled, however far below and whether
\* chained before or after, never runs.
CancelIfStops ==
    \A f, g \in Futures :
        state[f] = "CANCEL" /\ upstream[f] # {} /\ f \in upstream[g] \cup {g}
            => runs[g] = 0

\* loopOnceUnchecked() never pops an empty queue, and one call of loop() gives no
\* coroutine a second turn, although coroutines are posted while it runs.
BatchFits ==
    /\ turns <= Len(queue)
    /\ \A i \in 1 .. turns : queue[i] \notin resumed

\* The std::function of a coroutine, which may be executing or suspended, is
\* not replaced by a later then() on the same future.
ThenStable ==
    [][\A f \in Futures : Pending(f) => then'[f].next = then[f].next]_vars

\* A posted continuation is started, also if others poll for ever.
EveryPostedRuns ==
    \A f \in Futures :
        (state[f] = "POSTED" /\ runs[f] = 0) ~> (runs[f] = 1 \/ ~alive)

\* poll(count, f) comes to an end although f never returns true.
BoundedPollEnds ==
    \A f \in Futures :
        (Pending(f) /\ then[f].kind = "pollCount") ~> (~Pending(f) \/ ~alive)
=============================================================================
