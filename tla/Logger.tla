------------------------------- MODULE Logger -------------------------------
(***************************************************************************)
(* The asynchronous logger (logger/Log.hpp): logging threads put formatted *)
(* messages into one of two buffers; a writer thread swaps the buffers and *)
(* appends the other one to a file, which it rolls.                        *)
(*                                                                         *)
(* A byte is the message it belongs to, <<thread, number, size>>.  Locks   *)
(* are held from step to step where the code holds them over something     *)
(* another thread can see.  sflag, ridx and rcur are plain variables that  *)
(* the writer stores while a logging thread spins on sflag without a lock, *)
(* so each store of the swap is a step; FlagStores says when the store of  *)
(* sflag may become visible: "last" as in the source text, "first" as g++  *)
(* -O2 for x86-64 emits it.                                                *)
(***************************************************************************)
EXTENDS Integers, Sequences, FiniteSets

CONSTANTS
    Threads,
    Nobody,        \* a mutex is free
    Writer,        \* the thread of Wthread
    BufSize,       \* DLOG_BUFSIZE
    Sizes,         \* calspace() of messages
    MaxMessages,   \* bound: messages per thread
    FileMaxSize,   \* staticConfig.fileMaxSize
    FlagStores

ASSUME LoggerAssumption ==
    /\ BufSize \in Nat /\ MaxMessages \in Nat /\ FileMaxSize \in Nat
    /\ Sizes \subseteq 1 .. BufSize
    /\ FlagStores \subseteq {"first", "last"}
    /\ Writer \notin Threads /\ Nobody \notin Threads \cup {Writer}

VARIABLES
    buf, ridx, rcur,   \* Shared: the bytes of buf, ridx, rcur
    sflag, rmtx, smtx, \* Shared
    pc, size, sent,    \* of a logging thread: where it is, its message, count
    wpc, stores, cur,  \* the writer: where it is, stores left, cur
    kflag,             \* Wthread
    written, logged    \* File::_written; the bytes in the files, in order

shared == <<buf, ridx, rcur>>
thread == <<pc, size, sent>>
writer == <<wpc, stores, cur>>
file == <<written, logged>>
vars == <<shared, sflag, rmtx, smtx, thread, writer, kflag, file>>

widx == 1 - ridx
Stale == <<Nobody, 0, 0>>

\* The first n bytes of b, the ones that were never written included.
Bytes(b, n) == [p \in 1 .. n |-> IF p <= Len(b) THEN b[p] ELSE Stale]

Init ==
    /\ buf = [i \in {0, 1} |-> <<>>] /\ ridx = 0 /\ rcur = 0
    /\ sflag = TRUE /\ rmtx = Nobody /\ smtx = Nobody
    /\ pc = [t \in Threads |-> "user"]
    /\ size = [t \in Threads |-> 0] /\ sent = [t \in Threads |-> 0]
    /\ wpc = "loop" /\ stores = <<>> /\ cur = 0
    /\ kflag = FALSE
    /\ written = 0 /\ logged = <<>>

-----------------------------------------------------------------------------
(* A logging thread                                                        *)

GoTo(t, here, there) == pc[t] = here /\ pc' = [pc EXCEPT ![t] = there]

\* Log::info(...) and the like on an open level: the message is formatted in
\* buffers of the calling thread.
Call(t) ==
    /\ GoTo(t, "user", "lock") /\ sent[t] < MaxMessages
    /\ \E s \in Sizes : size' = [size EXCEPT ![t] = s]
    /\ UNCHANGED <<shared, sflag, rmtx, smtx, sent, writer, kflag, file>>

\* Mutant of Full: the message itself is forgotten.
FullBefore(t) == rcur >= BufSize

Full(t) == rcur + size[t] >= BufSize

\* Scheduler::apply takes rmtx and keeps it to the end.
Lock(t) ==
    /\ rmtx = Nobody /\ rmtx' = t
    /\ GoTo(t, "lock", IF Full(t) THEN "ask" ELSE "put")
    /\ UNCHANGED <<shared, sflag, smtx, size, sent, writer, kflag, file>>

\* It asks for a swap ...
Ask(t) ==
    /\ GoTo(t, "ask", "spin") /\ smtx = Nobody
    /\ sflag' = FALSE
    /\ UNCHANGED <<shared, rmtx, smtx, size, sent, writer, kflag, file>>

\* ... and spins, notifying, until it sees sflag.
Spin(t) ==
    /\ GoTo(t, "spin", "put") /\ sflag
    /\ UNCHANGED <<shared, sflag, rmtx, smtx, size, sent, writer, kflag, file>>

Put(t) ==
    /\ GoTo(t, "put", "user")
    /\ sent' = [sent EXCEPT ![t] = @ + 1]
    /\ buf' = [buf EXCEPT ![ridx] =
                   Bytes(@, rcur) \o [p \in 1 .. size[t] |-> <<t, sent[t] + 1, size[t]>>]]
    /\ rcur' = rcur + size[t]
    /\ size' = [size EXCEPT ![t] = 0]
    /\ rmtx' = Nobody
    /\ UNCHANGED <<ridx, sflag, smtx, writer, kflag, file>>

-----------------------------------------------------------------------------
(* The writer                                                              *)

\* while(!kflag.load())
Begin ==
    /\ wpc = "loop"
    /\ wpc' = IF kflag THEN "exit" ELSE "wait"
    /\ UNCHANGED <<shared, sflag, rmtx, smtx, thread, stores, cur, kflag, file>>

\* Mutant of Orders: sflag is not set again.
OrdersUnfinished == {<<"index", "cursor">>}

Orders == {IF o = "first" THEN <<"flag", "index", "cursor">>
           ELSE <<"index", "cursor", "flag">> : o \in FlagStores}

\* Mutant of MayTake: after the timeout the buffers are swapped all the same.
MayTakeAlways == TRUE

\* rmtx.try_lock()
MayTake == rmtx = Nobody

\* wait_for() returns, notified or after 10ms, with smtx: swap() begins if a
\* thread asks for it, or else if no thread is in apply().
Wake ==
    /\ wpc = "wait" /\ smtx = Nobody
    /\ IF ~sflag \/ MayTake
          THEN /\ wpc' = "swap" /\ smtx' = Writer
               /\ rmtx' = IF sflag THEN Writer ELSE rmtx
               /\ stores' \in Orders
               /\ cur' = rcur
          ELSE wpc' = "loop" /\ UNCHANGED <<rmtx, smtx, stores, cur>>
    /\ UNCHANGED <<shared, sflag, thread, kflag, file>>

\* The next store of swap().
Store ==
    /\ wpc = "swap" /\ stores # <<>>
    /\ stores' = Tail(stores)
    /\ ridx' = IF Head(stores) = "index" THEN 1 - ridx ELSE ridx
    /\ rcur' = IF Head(stores) = "cursor" THEN 0 ELSE rcur
    /\ sflag' = (sflag \/ Head(stores) = "flag")
    /\ UNCHANGED <<buf, rmtx, smtx, thread, wpc, cur, kflag, file>>

Unlock ==
    /\ wpc = "swap" /\ stores = <<>>
    /\ wpc' = "append" /\ smtx' = Nobody
    /\ rmtx' = IF rmtx = Writer THEN Nobody ELSE rmtx
    /\ UNCHANGED <<shared, sflag, thread, stores, cur, kflag, file>>

\* File::updatable by size; a file may also be rolled by age at any time.
Updatable(count) == written + count >= FileMaxSize

\* File::update opens a file of a new name (the time, in milliseconds); append
\* writes until all is written.  Nobody reads those bytes of buf again.
WriteOut ==
    /\ wpc = "append" /\ wpc' = "loop"
    /\ \E roll \in {TRUE, Updatable(cur)} :
          written' = (IF roll THEN 0 ELSE written) + cur
    /\ logged' = logged \o Bytes(buf[widx], cur)
    /\ buf' = [buf EXCEPT ![widx] = <<>>] /\ cur' = 0
    /\ UNCHANGED <<ridx, rcur, sflag, rmtx, smtx, thread, stores, kflag>>

\* Log::done(), or the end of the program: ~Wthread joins the writer.
Kill ==
    /\ ~kflag /\ kflag' = TRUE
    /\ UNCHANGED <<shared, sflag, rmtx, smtx, thread, writer, file>>

-----------------------------------------------------------------------------
Apply(t) == Ask(t) \/ Spin(t) \/ Put(t)
WriteFunc == Begin \/ Wake \/ Store \/ Unlock \/ WriteOut

Next == (\E t \in Threads : Call(t) \/ Lock(t) \/ Apply(t)) \/ WriteFunc \/ Kill

Spec == Init /\ [][Next]_vars

\* Threads run; one that waits for rmtx gets it in time although the writer
\* takes it again and again: the writer sleeps 10ms in between.
FairSpec ==
    /\ Spec
    /\ WF_vars(WriteFunc)
    /\ \A t \in Threads : WF_vars(Apply(t)) /\ SF_vars(Lock(t))

-----------------------------------------------------------------------------
(* Properties                                                              *)

\* memcpy of apply() stays inside buf[ridx], although the thread decided on a
\* rcur that the writer has since changed.
BufferHolds == rcur <= BufSize

\* Where the bytes of message k of t are.
Places(all, t, k) == {i \in DOMAIN all : all[i][1] = t /\ all[i][2] = k}

\* count messages of each thread, once each, in one piece, in their order.
EachOnceInOrder(all, count) ==
    /\ \A i \in DOMAIN all : all[i][1] \in Threads /\ all[i][2] \in 1 .. count[all[i][1]]
    /\ \A i, j \in DOMAIN all : i < j /\ all[i][1] = all[j][1] => all[i][2] <= all[j][2]
    /\ \A t \in Threads : \A k \in 1 .. count[t] :
           \E first \in DOMAIN all, s \in Sizes :
               /\ Places(all, t, k) = first .. (first + s - 1)
               /\ \A i \in Places(all, t, k) : all[i][3] = s

\* Whatever was put is in the files, then in the writer's buffer, then in the
\* other one: each message once, whole and in one piece, those of a thread in the
\* order it sent them, and nothing else.  No put() writes over another, although
\* it uses an rcur and a ridx that the writer changes.
OnceInOrder ==
    stores = <<>> =>
        EachOnceInOrder(logged \o Bytes(buf[widx], cur) \o Bytes(buf[ridx], rcur), sent)

\* "swap finished": a thread that saw sflag finds all of the swap done.
SwapFinished == \A t \in Threads : pc[t] = "put" => stores = <<>>

\* A call of the logger returns, and what was put reaches a file also if no
\* buffer ever fills, unless the logger was told to stop: then a thread that
\* waits for a swap waits for ever and what is in the buffers is lost.
CallsProgress ==
    /\ \A t \in Threads : pc[t] # "user" ~> (pc[t] = "user" \/ kflag)
    /\ \A i \in {0, 1} : buf[i] # <<>> ~> (buf[i] = <<>> \/ kflag)
=============================================================================
