# FluentNet in TLA+

Models of [FluentNet](../src/README.md), a header-only asynchronous TCP library
in C++14, with TLC runs on small instances and TLAPS proofs for every value of
the constants. `src/` is the repository; paths below are relative to
`src/include/` unless they say otherwise.

    tlc -workers 2 -config connection_safety.cfg MCConnection     # any run of the table below
    tlapm ConnectionProofs.tla                                   # any module of proofs

`PROJECT.json` maps every definition that models code to the lines it models,
and lists the runs, the mutants, the findings, the hazards and the theorems.

## 1. The system

### Components

| component | state it keeps | operations | modelled in |
|---|---|---|---|
| Connection: `network/Context.h`, `policy/*`, `handler/*` | network state, epoll bits and entry state, input and output buffers, queue of unsent request sizes with two indexes | `send`, `shutdown`, `enable/disableRead`, `Completion::poll`; `handleNewContext`, `handleEvents` with `handleRead/Write/Close/Error` | `Connection` |
| `network/Multiplexer.h` | epoll descriptor, one vector of undelivered results per token, mutex | `poll`, `update`, `visit`, `token` | `Reactor`; `update` for one Context in `Connection` |
| Pool: `network/Pool.h`, `utils/WeakReference.h`, `policy/LifecyclePolicy.h` | vector of owned Contexts, reusable index, sliding window; shared lifecycle of each Context | `emplace`, `updateReusableIndex`, `ensureLifecycle`, `make{Strong,Weak}Future` | `ConnectionPool`, `ContextStore` |
| `app/Server.h`, `app/Client.h` | looper, multiplexer, handler, pool, `_stop` | `run`, `stop`, `batch`, `accept`, `connect` | `Reactor` |
| `network/Acceptor.h`, `Connector.h`, `Socket.h` | a buffered accepted socket; errno and retry flags of a connect; one descriptor | `accept`, `aceeptResult`, `connect`, moves and destructors | `Reactor` |
| Futures: `future/*` | control block per future (state, value, continuation), FIFO of coroutines | `setValue`, `cancel`, `then`, `poll`, `cancelIf`, `get`, `loop` | `FutureChain` |
| `whenAll`, `whenN`, `whenAny` | lists of control blocks still awaited, results so far | polls over them | `WhenN` |
| Coroutines: `coroutine/Coroutine.h` | stack of running coroutines, recycled stacks | `resume`, `yield`, exit | `Coroutine` |
| `coroutine/posix.h` | map from descriptor to waiting coroutines, a thread's epoll | `read`, `write`, `accept4`, `sleep`, `poll`, `connect`, `loop` | `Coroutine` |
| `network/Buffer.h` | storage, read and write index | `append`, `gc`, `readFrom`, `hasRead`, ... | `Buffer` |
| Logger, threads: `logger/Log.hpp` 1280-1420 | two buffers, a swap flag, two mutexes, the open file | `Scheduler::apply`, `Wthread::writeFunc`, `File::update` | `Logger` |
| Logger, text: the rest of `logger/Log.hpp` | date record of a thread, configuration | calendar, numbers, resolver, tags, `config` | `LogFormat`, `LogLine` |
| HTTP server: `examples/http` (under `src/`) | state of the parser, the input buffer | `parse`, `onMessage`, `Response::stream` | `Http` |

### How they interact

A Server or Client owns a Looper, a Handler and a Pool and runs *batches* on one
thread: poll epoll, accept (Server), handle the results of its token, resume
every coroutine once. The multiplexer may instead belong to the application, be
shared by several of them, and be polled outside their batches. epoll's user
data is the raw address of the pair (token, Context) that the pool owns. User
code runs in callbacks of the Handler and in coroutines of the Looper and calls
`send` and `shutdown` on a Context directly. Futures post their continuations to
the Looper. The coroutine system calls are a second, independent way to wait:
their `loop()` resumes a coroutine when epoll reports its descriptor. The logger
is called from any thread and has one writer thread.

### What is hard

* Two parties decide on the same bit: `send`, `handleWrite`, `shutdown` and
  `handleClose` use `EVENT_WRITE` for "output is not empty".
* The kernel and the peer act between any two steps: partial writes, data, FIN
  and RST meet each other, pending output and running callbacks in any order.
* With an outer multiplexer results are stale when they are handled, and they
  are raw pointers into pools that close, destroy and reuse Contexts.
* The pool frees a Context only when it is closed and no user code guards it, and
  learns of both only when its window comes by, in one of many `emplace()` calls.
* A descriptor passes from `accept` or a retrying `connect` through several
  Sockets into a Context.
* `whenN` looks at other futures once per turn; they change in between.
* Stacks of coroutines are reused while others are still suspended on theirs.
* Logging threads and the writer share a cursor and a flag under different locks.
* Streams are cut into messages anywhere, while buffers compact and grow.

### What makes it correct

* Connection: no byte is lost or duplicated; a Completion is true exactly when
  its bytes are in the kernel; pending output drains; FIN and reset close the
  Context; nothing is written after FIN; epoll's entry is what the Context
  believes; a closed Context gets no callback.
* Pool: a Context in use is never destroyed; each lives in exactly one slot; all
  accesses are inside the vector.
* Server and Client: no result points to a destroyed Context; each open
  descriptor has exactly one owner; what was begun comes to an end.
* Futures: each continuation runs once, after its value is set; cancelling stops
  what hangs on it; whenN returns distinct answers once there are enough.
* Coroutines: no two share a stack; no wake-up is lost; calls tell the truth.
* Logger: every message once, whole, in order; every call returns; lines say
  the right date and the arguments they were given.
* HTTP: input is neither lost nor repeated; an answer belongs to one request.

`PROJECT.json` lists the hazards at their lines with the properties that watch
them, and says why for those that no property watches.

## 2. Modules

| module | what it is |
|---|---|
| `Connection`, `MCConnection` | one Context, its Handler, and as much of socket, epoll and peer as they can observe |
| `ConnectionProofs` | theorems about `Connection` |
| `ContextStore` | abstract: what Server and Client need of their pool |
| `ConnectionPool`, `MCConnectionPool` | the pool with its window; implements `ContextStore` |
| `ConnectionPoolProofs` | theorems about `ConnectionPool`, the refinement among them |
| `Reactor` | servers and clients with acceptor, connector and multiplexer, over `ContextStore` |
| `ReactorProofs` | theorems about `Reactor` |
| `FutureChain` | promises, futures and their continuations, the looper that runs them |
| `FutureChainProofs` | theorems about `FutureChain` |
| `WhenN` | whenAll, whenN, whenAny over control blocks |
| `WhenNProofs` | theorems about `WhenN` |
| `Coroutine` | coroutines of a thread and the system calls that suspend them |
| `CoroutineProofs` | theorems about `Coroutine` |
| `Logger` | logging threads, the double buffer, the writer, the files |
| `LogFormat` | the pure functions of the logger |
| `LogLine` | a thread that logs with them: its date record, its lines, its configuration, and the reference definitions |
| `MCLogFormat` | `LogLine` on chosen times, tags, arguments and settings |
| `LoggerProofs` | theorems about `Logger` and about `LogLine` |
| `Buffer` | `network/Buffer.h` as operators on records |
| `Http` | one connection of the HTTP server, over `Buffer` |
| `HttpProofs` | what the operators of `Buffer` do, and theorems about `Http` |
| `MCSequential` | `MCLogFormat` and `Http` side by side, for one run: each behaviour takes steps of one of them |

Composition: `ConnectionPool` refines `ContextStore` (`INSTANCE ... WITH`, checked
and proved), and `Reactor` uses `ContextStore` as its pools, so that what Reactor
shows of raw pointers and descriptors rests on what is proved of the window.
`Http` runs over `Buffer`. `Connection` is one Context of `Reactor` in detail.

### Connection

Variables carry the source's names: `nState`, `events`, `eState` (policies),
`output` (the bytes of `Context::output`), `provider` (`_sendProvider`),
`sendCurrentIndex`, `sendCompletedIndex`. `registered` and `interest` are epoll's
entry. A byte is the number of its place in what the user sent, so lost,
duplicated and reordered bytes all show in `wire`, the sequence of bytes write()
has taken. `unacked` bytes fill the send buffer of size `SocketSpace`.
`completions` and `sent` are history. `ready` holds the epoll results that wait
for the handler, `pc` what the loop thread does with this Context.

One action per branch of the code: `send()` is `SendInvalid`, `SendFast`,
`SendQueued`, `SendQueuedThrows` (epoll_ctl fails) or `SendThrows` (write fails);
an event is handled in the order of `HandlerBase::handleEvent`, and it is split
only where user code runs: `ReadData` enters the message callback, and `AtWrite`
continues after it. While a callback runs the user may take any number of
`User` steps, and kernel and peer go on. `HandleClose` contains the `shutdown()`
it calls, the update of epoll and the state change.

The kernel's part is external: `Deliverable` says which bits epoll reports. It
follows the *numbers* in `policy/MultiplexerPolicy.h`: `EVENT_READ` is
`POLL_IN | POLL_PRI`, which as epoll bits is `EPOLLIN | EPOLLOUT`, and
`EVENT_WRITE` is `EPOLLPRI`. That is why output is flushed at all, and why
`disableRead` would stop it.

An exception out of user code is caught inside a callback and kills the process
in a coroutine (`Raise`, `alive`); so does SIGPIPE.

### ConnectionPool

`pool` is the object: `slots` (0-based, as the vector), `size`, `index`
(`_reusableIndex`), `left` and `right` (`_window`). `status`, `lifecycle` and
`guards` say of each Context what `isReusable(index)` asks: is it DISCONNECTED,
is its lifecycle enabled, how many copies of the shared pointer exist beside the
pool's. `DoUpdate` is `WeakReference::doUpdate` branch by branch; `emplace()`
is `EmplaceReuse` or `EmplaceBack`, with both window steps inside. Closing,
`ensureLifecycle`, taking and dropping strong copies happen between any two
calls. A guard may be taken of a closed Context too: user code may lock a weak
copy at any time before the Context is destroyed.

`ContextStore` says nothing of slots: `SEmplace` makes one Context open and may
destroy one that is closed and unguarded.

### FutureChain

`state`, `value` and `then` are the fields of the control blocks, named by the
futures of `Futures`; a block in state `absent` has not been created. `queue` is
the looper's `_mq`, and a coroutine is named by the future whose continuation it
runs. `Loop` is the beginning of `loop()`, which fixes the number of resumes;
each `Resume` pops the coroutine in front and enters its user function, which
returns in `ThenReturns`, `Forwards`, `CancelsNext` or `Yields`. A turn of
`poll(count)` that has used up its count forwards without calling the function
(`ResumeExhausted`). Between two calls of `loop()` and inside every user function
the user may create, set, cancel, chain and kill (`get`) futures. `Settle` is
`Promise::setValue` together with the assignment of DONE that follows it in the
posted coroutine.

Values are `default`, `intact` or `moved`. `Params` says how the user functions
take theirs: `"T&"` leaves it, `"T"` moves it out because `std::forward<T>` is
an rvalue, `"T&&"` may do either. `upstream`, `runs`, `given` and `resumed` are
history. A promise whose future came from `then`, `poll` or `cancelIf` is held
by the continuation, so only the continuation may set it.

### Reactor

One thread per app, a program counter through `batch()`: `poll`, `accept`,
`accepted`, `events`, `handling`, `loop`, and `user` outside `run()`. `evnetVectors`
are the vectors of the multiplexer by token, `eventBuffer` the one the Handler
swapped out. `Poll` reports any set of the open Contexts of its apps. An app of
`Outer` does not poll, the application does (`PollOuter`): between the batches of
these apps and as often as it likes, or, with `PollerThread`, on a thread of its own,
as `examples/multiserver/server2.cpp` does. Whether an event ends the connection is
decided when it is handled, since that is when the Handler reads. `Emplace` is the
pool's `emplace()` for either kind of app: it destroys Contexts of the same pool as
`ContextStore` allows, closed ones at any time, guards of user code being left out
because they only keep a Context longer, and with them closes their
descriptors. A Context that is closed keeps its descriptor until then, as
in the code. `Connect` and `ConnectTurn` follow `Connector::connect` errno by
errno: `reconnect` and `nextInstance` are its flags, `Reconnect` makes the new
descriptor before the old one is closed, and `testFailed` is getpeername().
`link` is the kernel's view of a descriptor.

### WhenN

The sources of a when change between any two turns: `SetValue`, `Chain` (then() of
a READY future), `Use` and `Finish` of the continuation that was posted, `Cancel` and
`Get`. `posted` is the request of the continuation, apart from `state`, because
`cancel()` and `get()` change the state while it is pending and its end sets DONE
whatever the state is then. `Moved` is what is left of a value that the continuation
or `get()` has moved; a future that was killed after its continuation was posted
counts again once that has returned, with such a value. `Satisfying` are the values,
`Moved` among them or not, of which the condition holds; that of whenN and whenAny
without a condition holds of all. `PollAll` and `PollN` are one turn of the coroutine, which runs without
interruption. `queries` and `results` are the vectors of the code; they are
walked from the back, and what did not answer is swapped back (`Rest`) in the
order it was passed. `Then` is the continuation that sorts and moves, `First` the
one of whenAny.

### Coroutine

`context` maps a coroutine to the stack it runs on, `saved` a stack to the
coroutine whose registers were stored last: a switch to a stack whose `saved` is
another coroutine would run the wrong code. `Resume`, `Yield` and `Recycles` are
the three functions of the environment. What runs between two switches is one
action; each system call is the part before its wait and the part behind it
(`Try`/`Retry`, `Connects`/`ConnectChecks`, ...). `events` and `watched` are
`PollConfig::events` and the interest list; `LoopWaits` takes an entry that epoll
reports out of both and resumes its routines one after the other. Timers and
answers of the peer come at any moment. Users keep the convention that
`coroutine/posix.h:22` states: nobody else uses the descriptors of a coroutine.

### Logger

A byte is the message it belongs to, so `logged` shows losses, overwriting and
reordering alike. `Lock`, `Ask`, `Spin` and `Put` are the sections of
`Scheduler::apply` that others can see; `Wake`, `Store` (one per assignment of
`swap()`), `Unlock` and `WriteOut` those of `writeFunc`. `FlagStores` says when
the store of `sflag` becomes visible: the code leaves it to the compiler, because
`sflag` is a plain `bool` and the thread that spins holds no lock. `"last"` is the
order of the source text; `"first"` is what g++ -O2 emits.

### LogFormat and LogLine

Every definition of `LogFormat` is a function of the code: the compile-time tables
(`LeadingZeroNumericArray`), `parseLength` and `parse` (`parseInteger`,
`parseDouble`), the vectors of a line (`updateLocal`, `updateExternal`, `put`), the
sort of the tags, `calDate` and the date record, `config`. What the code repeats, or
instantiates from itself, is a recursive function (`Sort[ts]`, `NatLength[n]`).
A text is a sequence of character codes where a property is about the text.
Integers are those of mathematics: the least `int`, whose negation overflows in
`parseLength`, is not among the arguments, and a double is its whole part and its
fraction in steps of 10^-7 (`Unit`).

The state of `LogLine` is what a thread keeps from line to line; `Log` is one call of
`Log::info` with any tags and arguments, some days after the last one, and `children` are
the settings of the included configuration file. `Names` are the texts that name
directories and files. The reference definitions are a calendar that
counts days (`NextDay`), the number that digits say (`ValueOf`), the texts of a line
one behind the other, and the last setting of a type. `LogSpec` has inputs without
bounds, which is what the theorems are about; `MCSpec` takes the same steps with the
inputs of `MCLogFormat`.

### Buffer and Http

`Buffer` has the storage with its stale bytes and both cursors. In `Http` the peer
sends lines, `Message(n)` reads any number of the bytes on the wire and runs the
callback of `onMessage`: `readFrom` on the input, `parse` from the state INIT (the
Stream is copied out of the Context for each message), an answer or none,
`hasRead`. A byte of a line tells what line it is from. The answer closes or not as the
user's callback decides: it gets the Response with the `closeFlag` that version and
header have set, and may set or clear it.

## 3. Runs

All bounds are constants of the models, named in their CONSTANTS.

| run | checks | what it shows |
|---|---|---|
| `connection_safety` | TypeOK, CompletionExact, BytesConserved, ProviderCountsRequests, WriteEventMeansOutput, NoWriteAfterFin | the send path; sizes 1 and 3 into 2 bytes of kernel buffer give full, partial and empty writes, three requests in the queue, and one write that ends in the middle of a request; failing epoll_ctl(ADD), `enable/disableRead` by the user and resets are on |
| `connection_outer` | EpollInSync, NoCallbackAfterClose, OutputDrains, PeerEndCloses | up to two queued results, the one that is handled at the head, so that a stale one waits behind the one that closes; liveness under `FairSpec` with a peer that may reset |
| `pool_safety` | WindowSafe, SlotsHoldContexts, NeverDestroysInUse, StoreRefined | five Contexts with one guard each, collection above size 2: windows of width 0 to 3, swaps, merges, resets, reuse; refinement of `ContextStore` step by step |
| `reactor` | ResultsLive, SocketsHeld, AppsProgress | a server whose multiplexer the application polls between batches and a client that polls its own; two peers and one connect, three Contexts and four descriptors, so that Contexts are closed, destroyed by the next `emplace()` and their descriptors given out again; up to two results of one Context wait; connects that succeed at once, later, after a failure, or not at all |
| `future` | TypeOK, RunsOnce, NothingForgotten, NeverUnset, CancelIfStops, ThenStable, EveryPostedRuns, BoundedPollEnds | three futures: a chain, a chain and one apart, a cancelled future with one chained before or after; a poll that never ends beside a posted continuation, counts 0 and 2 |
| `when` | AskedOrFound, ResultsComplete, EnoughCompletes | three futures, all kinds of when and every n from 0 to 3; continuations keep, change or move the values, and the second future may be cancelled or killed at any time; one value fails the condition, another and the moved one satisfy it |
| `coroutine` | ContextExclusive, WaitersRegistered, CallsHonest, CallsReturn | two coroutines, a recycle stack of one, four attempts of connect so that the back-off and the last attempt happen |
| `log` | BufferHolds, OnceInOrder, CallsProgress | two threads of two messages each, of 1 and 3 bytes into buffers of 4, files of 6: swaps asked for, swaps after the timeout, rolls, a stop at any moment |
| `sequential` | DateShown, LineRight, SettingsCommute, InputKept, AnswersHonest | logger: every day from 1970 to 2049 (the table of years ends there) in steps of one or two days at two times of the day, numbers next to every power of ten, all lines of two or three arguments, all orders of tags, all orders of five settings and all sequences of up to three with one repeated and one nested; HTTP: five lines of any kind into a Buffer of 32 bytes, cut at five lengths that split and join lines, so that the Buffer wraps, compacts and grows |

Violations, each a finding (`PROJECT.json` quotes the text the code disagrees with):

| run | property | what the code does |
|---|---|---|
| `connection_shutdown` | ShutdownCloses | `shutdown()` with pending output sets DISCONNECTING and posts a coroutine that gives up because the state is not CONNECTED: FIN is never sent |
| `log_swap` | SwapFinished | with the order of stores that the compiler chose, a logging thread sees `sflag` and puts its message in the middle of a swap: it lands in the buffer that is being written, at a cursor that is then reset |
| `reactor_poller` | PollerResultsLive | with a thread that only polls, a second result of a Context is dispatched while the first is handled; the first closes it, the next `accept()` may destroy it, and the Handler then dereferences the second |

Why the bounds are enough. The control of `Connection` depends on whether
`output` is empty, whether a write takes all, part or none, and how a write
falls on the boundaries of at most two neighbouring requests; six bytes in
requests of 1 and 3 reach all of these. The peer's messages matter only as
"data is there" (one message) and the results only by whether they were taken before or after the step that is handled (two). The
pool's branches compare `left`, `right + 1` and `index` and look at one slot at a
time; five Contexts reach every branch of `doUpdate`. A future interacts with the
one it was chained to, the one chained to it and one more that is created
meanwhile; a batch of four, which the unrolled loop of `loop()` treats apart,
needs eight futures, and there `UnrolledTurnsExact` and *BatchFits* are proved.
Apps of `Reactor` share only the multiplexer and the descriptors; one of each
kind, on the two kinds of multiplexer, a Context that is destroyed while results of
another wait, and a descriptor that is given out again are the cases. `whenN` treats its queries one by one; three give a turn in which
some answer, some are passed over and some are not looked at. A coroutine meets
another through the running stack, the recycle stack and `loop()`. In `Logger` two
threads are one in `apply()` and one that waits; what the bound on threads and
messages leaves open of the buffer is proved. Invariants named under *Proofs*
hold for all bounds.

`CHECK_DEADLOCK FALSE` in all runs but `pool_safety`: inputs are bounded and
processes may die or be stopped, so the models may stop.

### Fairness

`Connection` assumes what `batch()` does: every queued event is handled, the
multiplexer is polled, callbacks return, and every coroutine is resumed (strong
fairness: the coroutine gets its turn between events, and `loop()` resumes each
one in the queue once per batch). Of the peer it assumes that it reads what
reaches it, and that it answers a FIN, as the comment at `Context::shutdown`
says; nothing is assumed of when it writes, closes or resets. The user is never
obliged to act.

`FutureChain` assumes that `loop()` is called again and again, as `run()` does,
that a begun `loop()` goes on, and that user functions return; not that a poll
ever gets true. `WhenN` assumes that its poll is resumed. `Reactor` assumes that a
thread inside `run()` runs and that handshakes end; nobody is obliged to call
`run()`, to poll an outer multiplexer or to connect. `Coroutine` assumes that the
thread runs, that timers expire and that peers answer a connect; not that a
descriptor ever becomes ready. `Logger` assumes that its threads run and that a
thread that waits for `rmtx` gets it although the writer takes it again and
again: the writer sleeps 10 ms in between.

### Mutants

Every property of a passing run has a mutant: a wrong version of one definition,
placed before it (`UnwrittenFromStart`, `ClosableAlways`, `SwapCopies`, ...), that
a plausible slip in the code would produce. Put in place of the definition it
makes the property fail in its run.

## 4. Proofs

`ConnectionProofs` proves `TypeOK` for all constants by induction over the
actions, one lemma per action where the case is not obvious, and then:

* *ProviderCountsRequests*: by itself inductive with `TypeOK`. 
* *NoWriteAfterFin*: not inductive alone. `FinInvariant` adds that FIN implies
  DISCONNECTING or DISCONNECTED and that in these states nothing enables
  EVENT_WRITE, `send()` refusing them.
* *WriteEventMeansOutput*: inductive with `TypeOK`; the case that needs care is
  `HandleWrite`, which disables the bit exactly when its write emptied `output`.
* *EpollInSync* and *NoCallbackAfterClose*: under the assumptions `~EpollAddMayFail`
  and `~ReadToggle`. Without the first the Context is outside epoll, without the
  second it believes in bits epoll was not told, both by design of the code.
* *BytesConserved* and *CompletionExact*: `SendInv`. Every number up to `sent` is in
  exactly one of `wire` and `output`, once (`BytesOnce`); the entries of `_sendProvider`
  are positive and add up to the length of `output` (`RequestsFill`); and the last
  byte of a request that is not complete lies just where its entry ends, while no
  byte of a complete one is left in `output` (`RequestsPlaced`). The last is what makes
  the index a Completion compares with equivalent to "the kernel has all bytes". The
  sums are those of a recursive function; that it satisfies its equation, and what
  appending and popping do to it, is shown by a minimal counterexample among the
  indexes (`Induction`, `SumToDef`, `SumToAppend`, `SumToPopped`). TLC
  agreed with `SendInv` on all states of `connection_safety` first.

`ConnectionPoolProofs` proves `PoolInvariant`, the conjunction of `TypeOK`,
`WindowInBounds`, `WindowHoldsClosed` and `SlotsHoldContexts`; each part needs the
others. Lemmas follow the functions of the code: `SeekWindowOK` and
`SlideWindowOK` for one window step, `CollectedOK` for the two steps of a call,
`EmplaceReuseOK` and `EmplaceBackOK`. From it, `ReuseDestroysAbandoned` (the slot
`emplace()` reuses holds an abandoned Context or none) gives
*NeverDestroysInUse*, and, with the initial states, the refinement *StoreRefined*.

`FutureChainProofs` proves one inductive invariant, `ChainInvariant`, and all
safety properties of `future`, and *BatchFits*, follow from it. Its parts: each
future has at most one coroutine (`QueueInv`); what the state of a future says
of its value, continuation, coroutine and starts (`BlockInv`); the future that
waits for a continuation is touched by nobody else until the continuation is
over, and no two continuations share one (`LinkInv`); a value comes down a chain
only through continuations that have run (`LineInv`). *CancelIfStops* needs the
last two: without them a cancelled future in the middle of a chain could have a
running one below. `SettleKeeps` treats `setValue` once for its four callers;
there is one lemma per action.

`ConnectionPoolProofs` and `ConnectionProofs` state the named parts separately
too (*WindowInBounds*, *WindowHoldsClosed*).

`ReactorProofs` proves two invariants. `SocketInvariant` says which descriptors each
kind of holder may hold (`HeldByContexts`, `HeldByServers`, `HeldByClients`: an open
Context has a connected one, the acceptor one only between `accept()` and
`aceeptResult()`, a retrying connect at most one), that a descriptor is open exactly
when somebody holds it, and that no two hold the same; it gives *SocketsHeld*. The
steps that matter are those that move a descriptor: `Accept`, `AceeptResult`,
`ConnectTurn` with its `Reconnect`, and `Emplace`, which closes those of the Contexts
it destroys. `ResultsInvariant` is for applications without a thread that only
polls: results that wait at the multiplexer point to open Contexts, because an app
closes its Contexts only while it handles results and none is added meanwhile
(`Emptied`); results that are being handled may point to closed ones, but never to
destroyed ones (`HandledLive`), because destroying takes an `emplace()` of the same
app. It gives *ResultsLive*, and shows where `reactor_poller` breaks: `Emptied`.

`WhenNProofs` proves `WhenInvariant`: while `whenN` polls, `queries` and the indexes in
`results` divide the futures it was given, without repetition (`Divided`), and
what was collected is distinct and satisfies (`Collects`). `FromBackOK` says what a
walk from the back takes and leaves, `TurnOK` that one turn, with the permutation
`Rest` makes, divides again. `ValuesSet` relates state, request and value of a source: a
future that is POSTED or DONE has had a continuation posted, and only then can the
value that counts be a moved one. That the sort of the results exists (`DescendingExists`)
is shown by a minimal counterexample. *AskedOrFound* and *ResultsComplete* follow.

`CoroutineProofs` proves `ContextInvariant` (the running stack begins with the main
context and holds each coroutine once; no stack of registers has two owners, two
places on the recycle stack, or both; who can be switched to finds its registers) and
`WaitInvariant` (entries of `PollConfig::events` and suspended coroutines match one
to one, each in the entry of the descriptor its call waits for). They give
*ContextExclusive* and *WaitersRegistered*. *CallsHonest* is an action property; it
needs besides that whoever is back from the wait of `poll()` was woken by its timer
or by a descriptor that is still ready.

`LoggerProofs` assumes `FlagStores = {"last"}`, the order of the source text, and
proves `SwapInvariant`. `BufferHolds` alone is not inductive: a thread copies to a
cursor that it compared, or saw reset, some steps before. The invariant adds who
holds `rmtx` (`Exclusion`), that while stores are left the threads are shut out by
`rmtx` or by the one that spins (`Swapping`), and what a thread in `spin` or `put`
knows of the cursor (`Fits`). *SwapFinished*, which `log_swap` refutes for the
order the compiler chose, follows from the same invariant: the order of the stores
is all that is wrong there. `StreamInvariant` adds that the cursors count the bytes of
the buffers at every stage of a swap, and that the files, the buffer being written
and the buffer being filled, one behind the other, are the messages so far: each
once, in one piece, in the order of its thread, and nothing else. *OnceInOrder* is
the last part.

The second half of `LoggerProofs` is about `LogSpec`: any number of days between lines up
to the end of the table of years, any tags, any arguments, any settings. It needs
to know what recursive functions compute. Two lemmas take the place of the
induction theorems, whose operator parameters the provers cannot instantiate: `Measured`
(a set that contains whatever has all lower elements in it is everything, because
of what is outside a lowest one could be taken) and `Recursion` (a recursion down a
measure has a solution, so the function that is chosen by its equation satisfies
it). Each recursive function then has its equation (`TenDef`, `MetaDef`,
`SortDef`, `FractionDef`, `FlattenDef`, ...).

* *DateShown*: `DateInvariant`. The reference date `today` is `calDate` of the day of the
  clock, and the record has the date of its day, counted from midnight, and the time of
  the last line. Not counting from midnight is what the mutant breaks: the date of a
  line would be that of up to a day ago. `DayIs` writes a day as an era of 400 years, a year and
  a month from March on and a day of the month, `DateIs` shows that calDate finds
  these four, `NextDate` that the day after is the next one of the calendar in each of the
  cases (end of a month, of February, of a century, of an era). `Tables` and
  `DateTextShows` say that the digits of the compile-time tables say these numbers.
* *LineRight*: a line is right by what one call does, whatever was logged before, but the
  date in it is that of the record, so `DateInvariant` is used here too. `Says` is
  the invariant of `resolve()` from argument to argument: each vector stands for its text
  and no later growth of `local` changes that (`Stands`), and `total` is the sum of their lengths.
  `SaysLocal` is the step that the mutant breaks. `NumberSays` (with
  `NatLengthIs`: the length found by decades is the number of digits written, for
  any width), `FractionRight` and `DoubleSays` are about numbers, `SortOrders` about tags, `Copied`
  about `put()` and the bytes that `apply()` reserves.
* *SettingsCommute*: `SettingsLast`, by the children read so far: after each of them every field is
  that of the last one that sets it. The file does not change while the program
  runs.

`ParseAssumption` says that the width of the largest decade of `parseLength` is
positive (10 in the code), `NamesAssumption` that the default names are names.

`HttpProofs` first says what each operator of `Buffer` does to a Buffer that holds the
bytes s (`Holds`): `gc` and `gc(hint)` keep them, `append` and `readFrom` put theirs
behind them, `hasRead` takes from the front, whether or not it resets or compacts.
`HttpInv` then says that `input` holds what was read and not consumed, and that the
server always stands between two lines of what the peer sent (`BetweenLines`: there
is a set of positions, each the start of a whole line or the end of the stream,
with the server's among them). `FirstLine` is the main step: the first line that the parser
finds in what waits is that line, all of it and no more, wherever the stream was
cut. *InputKept* and *AnswersHonest* follow. `HttpAssumption` bounds what the peer
sends on a connection to the largest capacity of a Buffer, 2^30 bytes; beyond that
`roundToPowerOfTwo` has no int to return.

Only model-checked:

* all liveness (`OutputDrains`, `PeerEndCloses`, `AppsProgress`, `EveryPostedRuns`,
  `BoundedPollEnds`, `EnoughCompletes`, `CallsReturn`, `CallsProgress`): the prover has
  neither fairness nor ENABLED.

Every invariant and every action property of a passing run is a theorem, some under the
assumptions named above.

## 5. Known disagreements

What the models show, or showed while they were written, of places where the code
may surprise. Those marked as findings have a run. Of the others no text of the
repository promises otherwise, unless the item quotes one, or they are outside the
bounds of a run; the models follow the code.

Connections, pool, futures:

* The Completion of a refused `send()` polls true: the completed index starts at 2,
  above `INVALID` = 0, and `poll()` asks for an index above the token
  (`policy/SendPolicy.h:18`). The comment on `INVALID` (`SendPolicy.h:10`) promises the
  opposite, "index flag: never". In the model `SendInvalid` records such a Completion,
  `Polls` holds of it in every state, and *CompletionExact* is about the others.
* When epoll_ctl(ADD) fails in `handleNewContext` the Context stays CONNECTED outside
  epoll (`handler/Handler.h:132`). `connection_safety` reaches it; no property says
  that it ends.
* `send()` writes directly although output is pending, when the kernel has room
  again before the handler ran: later bytes overtake earlier ones
  (`network/Context.h:181`).
* Slots above `_reusableIndex` are never swept: while the connection in that slot
  stays open every `emplace()` appends (`network/Pool.h:44`).
* `then`, `poll` and `cancelIf` with a function that takes `T` by value move the value
  out of the control block (`future/Future.h:144`, `:155`, `:179`).
* `cancel()` after the continuation was posted does not stop it, and its end makes the
  future DONE again (`future/Promise.h:52`, `:66`); so it does with one that `get()` has
  killed meanwhile, although `ControlBlock.h:27` says of DEAD "this state cannot be reused":
  the next line excludes `get()` while `then()` is used. A when then copies what is
  left of the value (`WhenN`).
* POLLERR with the error still pending is thrown before anybody reads, and repeats.

Server, Client, Connector:

* `run()` resets `_stop`: a `stop()` before it is lost.
* With a poller thread the pointers of results may outlive their Contexts: run
  `reactor_poller`, a finding.
* `Multiplexer::poll` reserves twice the size of a vector that never grows, so at
  most 16 results are taken per poll. Only the age of a result matters to the model.
* A closed Context keeps its descriptor until its slot is reused.
* Refused connections are retried for ever, in every turn of the looper; a fatal
  error of a reconnect is only seen one turn later.

Coroutine system calls:

* The comment on the back-off (`coroutine/posix.h:197`) is off by one: the fourth
  attempt already waits.
* `sleep(0)` disarms its timer and never wakes; a negative timeout of `poll` that
  has to wait fails to arm it and leaks two descriptors; errors of `epoll_ctl` are
  ignored. The run passes positive timeouts, and 0 is not among those of sleep.
* A second coroutine that waits for a descriptor is not put into its slot
  (`posix.h:123`, "impossible?"): the convention of `posix.h:22` excludes it.

Logger:

* `parseLength(0.0)` does not return; years above 2049 are beyond the table.
* A clock that goes back leaves the later date on the following lines.
* Specialisations of `StreamTraits` are never selected for lvalues, so the length
  reserved for such an argument is that of the scratch buffer. That buffer,
  `tmp[bufcnt(msg...)]` (`Log.hpp:1658`), has no bound in `LogLine`, and a `std::string`
  argument has no kind there: no run and no theorem says that it is large enough.
* A nested `config` loses `msg_align`, and a bare `log_dir` is reset by a
  `log_filename` that follows it. Two files rolled in the same millisecond have one
  name.

HTTP example:

* The Stream is copied out of `context->any` for each message, so the parser starts
  from INIT each time: a request line that comes in a message of its own is consumed
  and never answered, and header bytes that come alone are answered with 400.
* `parse()` passes its cursor by value and the condition of `parseNextHeader` is
  inverted: any complete line behind the request line makes the request ready, and
  headers are never parsed. An empty line left over blocks what follows.

## 6. Not modelled

* `utils/ThreadPool.h`: no other file of the repository uses it.
* Type erasure, traits, exceptions: compile-time checks and single-owner holders.
* The assembly of the context switch: `Coroutine` says whose registers are where.
* Of the connection: the stored exception pointer, and user code that calls the
  functions of `MultiplexerPolicy` itself. Of futures: `wait()`, a poll over the
  clock, and plain functions posted to the looper.
* Of the logger: levels disabled at compile time, file names, the console, the text
  of the configuration file. Of HTTP: the contents of headers and queries.
* Other examples are a few lines over the library; benchmarks are load generators.

## 7. Plan

The models of the plan are written, and every safety property that the passing runs
check is proved. What could be added: that a Context of `Reactor` is implemented by
`Connection`, which needs a common interface of the two; the parts of
`coroutine/posix.h` beside the calls above; and the text of the configuration file.
