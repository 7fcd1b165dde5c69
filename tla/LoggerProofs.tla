----------------------------- MODULE LoggerProofs -----------------------------
(***************************************************************************)
(* Theorems about Logger, for any number of threads, any buffer size and   *)
(* any messages that fit into it: with the stores of swap() in program     *)
(* order, a logging thread that saw sflag finds the swap done, and no      *)
(* message is copied past the end of a buffer.                             *)
(*                                                                         *)
(* And about LogLine, for any clock, any tags, any arguments and any       *)
(* settings: every line is right, the date in it too, and the settings do  *)
(* not disturb each other. What the recursive functions compute is proved  *)
(* along a measure, since the induction theorems of the library cannot be  *)
(* used: Recursion gives such a function its equation, Measured proves     *)
(* what follows from it.                                                   *)
(***************************************************************************)
EXTENDS Logger, LogLine, SequenceTheorems, WellFoundedInduction, TLAPS

InOrder == FlagStores = {"last"}

LogPc == {"user", "lock", "ask", "spin", "put"}

\* What is left of the stores of swap().
StoresLeft ==
    {<<"index", "cursor", "flag">>, <<"cursor", "flag">>, <<"flag">>, <<>>}

LogType ==
    /\ rcur \in Nat /\ sflag \in BOOLEAN
    /\ rmtx \in Threads \cup {Nobody, Writer} /\ smtx \in {Nobody, Writer}
    /\ pc \in [Threads -> LogPc]
    /\ size \in [Threads -> Sizes \cup {0}]
    /\ wpc \in {"loop", "exit", "wait", "swap", "append"}
    /\ stores \in StoresLeft

\* Who is in apply() holds rmtx, and asks without a swap under way.
Exclusion ==
    /\ \A t \in Threads : pc[t] \in {"ask", "spin", "put"} => rmtx = t
    /\ \A t \in Threads : pc[t] = "ask" => sflag
    /\ ~sflag => \E t \in Threads : pc[t] = "spin"

\* While buffers are being swapped the threads are shut out, by rmtx or by the
\* one that spins; until the last store it cannot see sflag.
Swapping ==
    /\ wpc = "swap" => smtx = Writer
    /\ stores # <<>> => wpc = "swap" /\ (~sflag \/ rmtx = Writer)
    /\ wpc # "swap" => rmtx # Writer
    /\ stores = <<"flag">> => rcur = 0

\* What a thread decided on when it saw rcur, or saw sflag, still fits.
Fits ==
    /\ rcur <= BufSize
    /\ \A t \in Threads : pc[t] \in {"lock", "ask", "spin", "put"} => size[t] \in Sizes
    /\ \A t \in Threads : pc[t] = "spin" /\ sflag => rcur = 0
    /\ \A t \in Threads : pc[t] = "put" => stores = <<>> /\ rcur + size[t] <= BufSize

SwapInvariant == LogType /\ Exclusion /\ Swapping /\ Fits

-----------------------------------------------------------------------------
\* Nothing was logged at first.
LEMMA InitOK == InOrder /\ Init => SwapInvariant
  BY LoggerAssumption DEF InOrder, Init, SwapInvariant, LogType, Exclusion, Swapping, Fits,
     LogPc, StoresLeft, LoggerAssumption

\* A message is at least one byte and fits into an empty buffer.
LEMMA SizesFit == \A s \in Sizes : s \in Nat /\ s > 0 /\ s <= BufSize
  BY LoggerAssumption DEF LoggerAssumption

\* swap() begins with all stores left, or is done.
LEMMA OneOrder == InOrder => Orders = {<<"index", "cursor", "flag">>}
  BY DEF InOrder, Orders

\* A call begins outside all locks.
LEMMA CallOK ==
    ASSUME InOrder, SwapInvariant, NEW t \in Threads, Call(t)
    PROVE SwapInvariant'
<1>1. LogType'
  BY DEF SwapInvariant, LogType, Call, GoTo, LogPc, StoresLeft, shared, writer, file
<1>2. Exclusion' /\ Swapping'
  BY DEF SwapInvariant, LogType, Exclusion, Swapping, Call, GoTo, shared, writer, file
<1>3. Fits'
  BY DEF SwapInvariant, LogType, Fits, Call, GoTo, shared, writer, file
<1> QED
  BY <1>1, <1>2, <1>3 DEF SwapInvariant

\* Nobody spins and no store is left, for rmtx is free.
LEMMA LockOK ==
    ASSUME InOrder, SwapInvariant, NEW t \in Threads, Lock(t)
    PROVE SwapInvariant'
<1> USE DEF SwapInvariant, LogType, GoTo, shared, writer, file, Lock
<1>1. sflag /\ stores = <<>>
  BY LoggerAssumption DEF Exclusion, Swapping, LoggerAssumption
<1>2. LogType'
  BY DEF LogPc, StoresLeft
<1>3. Exclusion'
  BY <1>1, LoggerAssumption DEF Exclusion, LoggerAssumption
<1>4. Swapping'
  BY <1>1, LoggerAssumption DEF Swapping, LoggerAssumption
<1>5. ~Full(t) => rcur + size[t] <= BufSize
  <2>1. size[t] \in Nat /\ BufSize \in Nat /\ rcur \in Nat
    BY SizesFit, LoggerAssumption DEF LoggerAssumption, Fits
  <2> QED
    BY <2>1 DEF Full
<1>6. Fits'
  BY <1>1, <1>5 DEF Fits, Exclusion
<1> QED
  BY <1>2, <1>3, <1>4, <1>6

\* The writer does not swap, and no other thread is in apply().
LEMMA AskOK ==
    ASSUME InOrder, SwapInvariant, NEW t \in Threads, Ask(t)
    PROVE SwapInvariant'
<1> USE DEF SwapInvariant, LogType, GoTo, shared, writer, file, Ask
<1>1. stores = <<>>
  BY LoggerAssumption DEF Swapping, LoggerAssumption
<1>2. LogType'
  BY DEF LogPc, StoresLeft
<1>3. Exclusion'
  BY LoggerAssumption DEF Exclusion, LoggerAssumption
<1>4. Swapping'
  BY <1>1 DEF Swapping
<1>5. Fits'
  BY <1>1 DEF Fits, Exclusion
<1> QED
  BY <1>2, <1>3, <1>4, <1>5

\* The thread sees sflag, so no store is left and the cursor is at the front.
LEMMA SpinOK ==
    ASSUME InOrder, SwapInvariant, NEW t \in Threads, Spin(t)
    PROVE SwapInvariant'
<1> USE DEF SwapInvariant, LogType, GoTo, shared, writer, file, Spin
<1>1. stores = <<>>
  BY LoggerAssumption DEF Swapping, Exclusion, LoggerAssumption
<1>2. LogType'
  BY DEF LogPc, StoresLeft
<1>3. Exclusion' /\ Swapping'
  BY <1>1 DEF Exclusion, Swapping
<1>4. rcur + size[t] <= BufSize
  BY SizesFit DEF Fits
<1>5. Fits'
  BY <1>1, <1>4 DEF Fits
<1> QED
  BY <1>2, <1>3, <1>5

\* What is copied was measured against the cursor it is copied to.
LEMMA PutOK ==
    ASSUME InOrder, SwapInvariant, NEW t \in Threads, Put(t)
    PROVE SwapInvariant'
<1> USE DEF SwapInvariant, LogType, GoTo, shared, writer, file, Put
<1>1. size[t] \in Nat /\ stores = <<>> /\ rcur + size[t] <= BufSize
  BY SizesFit DEF Fits
<1>2. \A u \in Threads : u # t => pc[u] \notin {"ask", "spin", "put"}
  BY DEF Exclusion
<1>3. sflag
  BY <1>2 DEF Exclusion
<1>4. LogType'
  BY <1>1 DEF LogPc, StoresLeft
<1>5. Exclusion' /\ Swapping'
  BY <1>1, <1>2, <1>3, LoggerAssumption DEF Exclusion, Swapping, LoggerAssumption
<1>6. Fits'
  BY <1>1, <1>2 DEF Fits
<1> QED
  BY <1>4, <1>5, <1>6

-----------------------------------------------------------------------------
(* The writer                                                              *)

\* The writer looks whether it shall stop.
LEMMA BeginOK == ASSUME InOrder, SwapInvariant, Begin PROVE SwapInvariant'
  BY DEF SwapInvariant, LogType, Exclusion, Swapping, Fits, Begin, shared, thread, file

\* swap() begins with rmtx, or for a thread that spins with it.
LEMMA WakeOK == ASSUME InOrder, SwapInvariant, Wake PROVE SwapInvariant'
<1> USE DEF SwapInvariant, LogType, shared, thread, file, Wake
<1>1. CASE ~sflag \/ MayTake
  <2>1. PICK t : ~sflag => t \in Threads /\ pc[t] = "spin" /\ rmtx = t
    BY DEF Exclusion
  <2>2. \A u \in Threads : pc[u] \notin {"ask", "put"}
    BY <1>1, <2>1, LoggerAssumption DEF Exclusion, MayTake, LoggerAssumption
  <2>3. sflag => \A u \in Threads : pc[u] # "spin"
    BY <1>1, LoggerAssumption DEF Exclusion, MayTake, LoggerAssumption
  <2>4. stores' = <<"index", "cursor", "flag">> /\ wpc' = "swap" /\ smtx' = Writer
    BY <1>1, OneOrder
  <2>5. LogType'
    BY <1>1, <2>4 DEF StoresLeft
  <2>6. Exclusion'
    BY <1>1, <2>2, <2>3 DEF Exclusion
  <2>7. Swapping'
    BY <1>1, <2>4 DEF Swapping
  <2>8. Fits'
    BY <2>2, <2>4 DEF Fits
  <2> QED
    BY <2>5, <2>6, <2>7, <2>8
<1>2. CASE ~(~sflag \/ MayTake)
  BY <1>2 DEF Exclusion, Swapping, Fits
<1> QED
  BY <1>1, <1>2

\* The cursor is reset before the thread that spins can see sflag.
LEMMA StoreOK == ASSUME InOrder, SwapInvariant, Store PROVE SwapInvariant'
<1> USE DEF SwapInvariant, LogType, thread, file, Store
<1>1. stores \in {<<"index", "cursor", "flag">>, <<"cursor", "flag">>, <<"flag">>}
  BY DEF StoresLeft
<1>2. \A t \in Threads : pc[t] # "put" /\ (sflag => pc[t] \notin {"ask", "spin"})
  BY LoggerAssumption DEF Swapping, Exclusion, Fits, LoggerAssumption
<1>3. CASE stores = <<"index", "cursor", "flag">>
  <2>1. stores' = <<"cursor", "flag">> /\ Head(stores) = "index"
    BY <1>3
  <2> QED
    BY <1>2, <1>3, <2>1 DEF StoresLeft, Exclusion, Swapping, Fits
<1>4. CASE stores = <<"cursor", "flag">>
  <2>1. stores' = <<"flag">> /\ Head(stores) = "cursor"
    BY <1>4
  <2> QED
    BY <1>2, <1>4, <2>1, LoggerAssumption
    DEF StoresLeft, Exclusion, Swapping, Fits, LoggerAssumption
<1>5. CASE stores = <<"flag">>
  <2>1. stores' = <<>> /\ Head(stores) = "flag"
    BY <1>5
  <2> QED
    BY <1>2, <1>5, <2>1 DEF StoresLeft, Exclusion, Swapping, Fits
<1> QED
  BY <1>1, <1>3, <1>4, <1>5

\* The writer lets the threads in once no store of swap() is left.
LEMMA UnlockOK == ASSUME InOrder, SwapInvariant, Unlock PROVE SwapInvariant'
<1> USE DEF SwapInvariant, LogType, shared, thread, file, Unlock
<1>1. LogType'
  BY DEF StoresLeft
<1>2. Exclusion'
  BY LoggerAssumption DEF Exclusion, LoggerAssumption
<1>3. Swapping' /\ Fits'
  BY LoggerAssumption DEF Swapping, Fits, LoggerAssumption
<1> QED
  BY <1>1, <1>2, <1>3

\* The writer writes the other buffer, out of the way of the threads.
LEMMA WriteOutOK == ASSUME InOrder, SwapInvariant, WriteOut PROVE SwapInvariant'
  BY DEF SwapInvariant, LogType, Exclusion, Swapping, Fits, WriteOut, thread

-----------------------------------------------------------------------------
\* Every step keeps the invariant of the swap.
LEMMA NextOK == ASSUME InOrder, SwapInvariant, [Next]_vars PROVE SwapInvariant'
<1>1. CASE \E t \in Threads : Call(t) \/ Lock(t) \/ Apply(t)
  BY <1>1, CallOK, LockOK, AskOK, SpinOK, PutOK DEF Apply
<1>2. CASE WriteFunc
  BY <1>2, BeginOK, WakeOK, StoreOK, UnlockOK, WriteOutOK DEF WriteFunc
<1>3. CASE Kill
  BY <1>3 DEF SwapInvariant, LogType, Exclusion, Swapping, Fits, Kill, shared, thread, writer, file
<1>4. CASE UNCHANGED vars
  BY <1>4 DEF SwapInvariant, LogType, Exclusion, Swapping, Fits, vars, shared, thread, writer, file
<1> QED
  BY <1>1, <1>2, <1>3, <1>4 DEF Next

\* With the stores in program order SwapInvariant holds of every state.
THEOREM SwapTheorem == InOrder => (Spec => []SwapInvariant)
<1> SUFFICES ASSUME InOrder PROVE Spec => []SwapInvariant
  OBVIOUS
<1>1. Init => SwapInvariant
  BY InitOK
<1>2. SwapInvariant /\ [Next]_vars => SwapInvariant'
  BY NextOK
<1> QED
  BY <1>1, <1>2, PTL DEF Spec

\* No message is copied past the end of a buffer: memcpy of Scheduler::apply.
THEOREM BufferHoldsTheorem == InOrder => (Spec => []BufferHolds)
<1>1. SwapInvariant => BufferHolds
  BY DEF SwapInvariant, Fits, BufferHolds
<1> QED
  BY <1>1, SwapTheorem, PTL

\* "swap finished": who saw sflag finds all of the swap done, had the stores been
\* kept in program order.
THEOREM SwapFinishedTheorem == InOrder => (Spec => []SwapFinished)
<1>1. SwapInvariant => SwapFinished
  BY DEF SwapInvariant, Fits, SwapFinished
<1> QED
  BY <1>1, SwapTheorem, PTL

-----------------------------------------------------------------------------
(* What is in the files and in the buffers                                 *)

\* A byte is that of message number k of a thread, of s bytes.
Byte == Threads \X Nat \X Sizes

BytesType ==
    /\ ridx \in {0, 1} /\ cur \in Nat
    /\ buf \in [{0, 1} -> Seq(Byte)] /\ logged \in Seq(Byte)
    /\ sent \in [Threads -> Nat]

\* The cursors count the bytes of the buffers; rcur is behind between the first
\* store of swap() and the second.
Cursors ==
    /\ stores # <<"index", "cursor", "flag">> => Len(buf[1 - ridx]) = cur
    /\ stores = <<"index", "cursor", "flag">> =>
           buf[1 - ridx] = <<>> /\ cur = rcur /\ Len(buf[ridx]) = cur
    /\ stores \in {<<"cursor", "flag">>, <<"flag">>} => buf[ridx] = <<>>
    /\ stores = <<>> => Len(buf[ridx]) = rcur
    /\ wpc \notin {"swap", "append"} => cur = 0

\* All bytes in the order in which they were put, whichever buffer has them.
Stream == logged \o buf[1 - ridx] \o buf[ridx]

StreamInvariant == SwapInvariant /\ BytesType /\ Cursors /\ EachOnceInOrder(Stream, sent)

\* Nothing was logged at first.
LEMMA StreamInit == InOrder /\ Init => StreamInvariant
<1> SUFFICES ASSUME InOrder, Init PROVE StreamInvariant
  OBVIOUS
<1>1. BytesType /\ Cursors
  BY DEF Init, BytesType, Cursors
<1>2. Stream = <<>>
  BY DEF Init, Stream
<1>3. EachOnceInOrder(<<>>, sent)
  BY DEF Init, EachOnceInOrder
<1> QED
  BY <1>1, <1>2, <1>3, InitOK DEF StreamInvariant

\* The bytes up to the length of what was written are what was written.
LEMMA BytesAll == ASSUME NEW S, NEW b \in Seq(S) PROVE Bytes(b, Len(b)) = b
  BY LenProperties DEF Bytes

\* The stream and its parts.
LEMMA StreamType ==
    ASSUME BytesType
    PROVE /\ Stream \in Seq(Byte) /\ buf[ridx] \in Seq(Byte) /\ buf[1 - ridx] \in Seq(Byte)
          /\ 1 - ridx \in {0, 1} /\ 1 - ridx # ridx
  BY DEF BytesType, Stream

\* Steps that neither put nor swap nor write.
LEMMA StreamStays ==
    ASSUME StreamInvariant, UNCHANGED <<buf, ridx, logged, sent>>
    PROVE EachOnceInOrder(Stream, sent)'
<1>1. Stream' = Stream
  BY DEF Stream
<1> QED
  BY <1>1 DEF StreamInvariant, EachOnceInOrder, Places

\* A concatenation and its domain.
LEMMA Concat ==
    ASSUME NEW S, NEW a \in Seq(S), NEW b \in Seq(S)
    PROVE /\ a \o b \in Seq(S) /\ Len(a \o b) = Len(a) + Len(b)
          /\ DOMAIN (a \o b) = 1 .. (Len(a) + Len(b))
<1>1. a \o b \in Seq(S) /\ Len(a \o b) = Len(a) + Len(b)
  BY ConcatProperties
<1> QED
  BY <1>1, LenProperties

\* A message that is appended to the stream, behind all that a thread sent.
LEMMA MessageAppended ==
    ASSUME NEW S, NEW all \in Seq(S), NEW count \in [Threads -> Nat],
           EachOnceInOrder(all, count),
           NEW t \in Threads, NEW s \in Sizes, NEW b \in Seq(S), Len(b) = s,
           \A p \in 1 .. s : b[p] = <<t, count[t] + 1, s>>
    PROVE EachOnceInOrder(all \o b, [count EXCEPT ![t] = @ + 1])
<1> DEFINE n == Len(all)
           both == all \o b
           after == [count EXCEPT ![t] = @ + 1]
<1>1. n \in Nat /\ DOMAIN all = 1 .. n /\ s \in Nat /\ s > 0 /\ count[t] \in Nat
  BY SizesFit, LenProperties
<1>2. DOMAIN both = 1 .. (n + s)
  BY Concat
<1>3. \A i \in 1 .. n : i \in DOMAIN both /\ both[i] = all[i]
  BY <1>1, <1>2
<1>4. \A i \in (n + 1) .. (n + s) : i \in DOMAIN both /\ both[i] = <<t, count[t] + 1, s>>
  BY <1>1, <1>2
<1> HIDE DEF both, n
<1>5. \A i \in DOMAIN both : i \in 1 .. n \/ i \in (n + 1) .. (n + s)
  BY <1>1, <1>2
<1>6. \A i \in 1 .. n : /\ all[i][1] \in Threads
                        /\ all[i][2] \in 1 .. count[all[i][1]]
  BY <1>1 DEF EachOnceInOrder
<1>7. ASSUME NEW i \in DOMAIN both
      PROVE both[i][1] \in Threads /\ both[i][2] \in 1 .. after[both[i][1]]
  <2>1. CASE i \in 1 .. n
    BY <2>1, <1>1, <1>3, <1>6
  <2>2. CASE i \in (n + 1) .. (n + s)
    BY <2>2, <1>1, <1>4
  <2> QED
    BY <1>5, <2>1, <2>2
<1>8. ASSUME NEW i \in DOMAIN both, NEW j \in DOMAIN both, i < j, both[i][1] = both[j][1]
      PROVE both[i][2] <= both[j][2]
  <2>1. CASE j \in 1 .. n
    <3>1. i \in 1 .. n
      BY <1>1, <1>2, <1>8, <2>1
    <3> QED
      BY <2>1, <3>1, <1>1, <1>3, <1>8 DEF EachOnceInOrder
  <2>2. CASE i \in 1 .. n /\ j \in (n + 1) .. (n + s)
    <3>1. all[i][1] = t /\ both[j][2] = count[t] + 1
      BY <2>2, <1>3, <1>4, <1>8
    <3>2. both[i][2] \in 1 .. count[t]
      BY <2>2, <3>1, <1>3, <1>6
    <3> QED
      BY <1>1, <3>1, <3>2
  <2>3. CASE i \in (n + 1) .. (n + s) /\ j \in (n + 1) .. (n + s)
    BY <1>1, <1>4, <2>3
  <2> QED
    BY <1>5, <2>1, <2>2, <2>3
<1>9. ASSUME NEW u \in Threads, NEW k \in 1 .. after[u]
      PROVE \E first \in DOMAIN both, z \in Sizes :
                /\ Places(both, u, k) = first .. (first + z - 1)
                /\ \A i \in Places(both, u, k) : both[i][3] = z
  <2>1. CASE u = t /\ k = count[t] + 1
    <3>1. Places(both, u, k) = (n + 1) .. (n + s)
      <4>1. \A i \in 1 .. n : i \notin Places(both, u, k)
        BY <1>1, <1>3, <1>6, <2>1 DEF Places
      <4>2. \A i \in (n + 1) .. (n + s) : i \in Places(both, u, k)
        BY <1>4, <2>1 DEF Places
      <4> QED
        BY <1>5, <4>1, <4>2 DEF Places
    <3>2. n + 1 \in DOMAIN both /\ (n + 1) + s - 1 = n + s
      BY <1>1, <1>2
    <3>3. \A i \in Places(both, u, k) : both[i][3] = s
      BY <1>4, <3>1
    <3> QED
      BY <3>1, <3>2, <3>3
  <2>2. CASE ~(u = t /\ k = count[t] + 1)
    <3>1. k \in 1 .. count[u]
      BY <1>1, <2>2
    <3>2. PICK first \in DOMAIN all, z \in Sizes :
              /\ Places(all, u, k) = first .. (first + z - 1)
              /\ \A i \in Places(all, u, k) : all[i][3] = z
      BY <3>1 DEF EachOnceInOrder
    <3>3. Places(both, u, k) = Places(all, u, k)
      <4>1. \A i \in (n + 1) .. (n + s) : i \notin Places(both, u, k)
        BY <1>4, <2>2 DEF Places
      <4> QED
        BY <1>1, <1>3, <1>5, <4>1 DEF Places
    <3>4. \A i \in Places(all, u, k) : i \in 1 .. n
      BY <1>1 DEF Places
    <3> QED
      BY <1>1, <1>3, <3>2, <3>3, <3>4
  <2> QED
    BY <2>1, <2>2
<1> QED
  BY <1>7, <1>8, <1>9 DEF EachOnceInOrder, both, Places

\* A logging thread that does not put.
LEMMA ThreadStays ==
    ASSUME StreamInvariant, UNCHANGED <<shared, writer, file, sent>>
    PROVE BytesType' /\ Cursors' /\ EachOnceInOrder(Stream, sent)'
<1>1. BytesType' /\ Cursors'
  BY DEF StreamInvariant, BytesType, Cursors, shared, writer, file
<1>2. EachOnceInOrder(Stream, sent)'
  BY StreamStays DEF shared, file
<1> QED
  BY <1>1, <1>2

\* The message goes behind the rcur bytes that are in the buffer, which are all
\* of the stream that is not in front of that buffer.
LEMMA PutAppends ==
    ASSUME InOrder, StreamInvariant, NEW t \in Threads, Put(t)
    PROVE BytesType' /\ Cursors' /\ EachOnceInOrder(Stream, sent)'
<1> DEFINE message == [p \in 1 .. size[t] |-> <<t, sent[t] + 1, size[t]>>]
           a == logged
           b == buf[1 - ridx]
           c == buf[ridx]
<1>1. BytesType /\ Cursors /\ SwapInvariant /\ EachOnceInOrder(Stream, sent)
  BY DEF StreamInvariant
<1>2. stores = <<>> /\ size[t] \in Sizes
  BY <1>1 DEF SwapInvariant, Fits, Put, GoTo
<1>3. a \in Seq(Byte) /\ b \in Seq(Byte) /\ c \in Seq(Byte) /\ 1 - ridx \in {0, 1} /\ 1 - ridx # ridx
  BY <1>1, StreamType DEF BytesType
<1>4. Len(c) = rcur
  BY <1>1, <1>2 DEF Cursors
<1>5. Bytes(buf[ridx], rcur) = c
  BY <1>3, <1>4, BytesAll
<1>6. size[t] \in Nat /\ sent[t] \in Nat
  BY <1>1, <1>2, SizesFit DEF BytesType
<1>7. /\ message \in Seq(Byte) /\ Len(message) = size[t]
      /\ \A p \in 1 .. size[t] : message[p] = <<t, sent[t] + 1, size[t]>>
  <2>1. message \in [1 .. size[t] -> Byte]
    BY <1>2, <1>6 DEF Byte
  <2>2. \A p \in 1 .. size[t] : message[p] = <<t, sent[t] + 1, size[t]>>
    OBVIOUS
  <2> HIDE DEF message
  <2>3. message \in Seq(Byte) /\ Len(message) = size[t]
    BY <1>6, <2>1
  <2> QED
    BY <2>2, <2>3
<1>8. /\ buf' = [buf EXCEPT ![ridx] = c \o message]
      /\ sent' = [sent EXCEPT ![t] = @ + 1] /\ rcur' = rcur + size[t]
      /\ ridx' = ridx /\ stores' = stores /\ cur' = cur /\ wpc' = wpc /\ logged' = logged
  BY <1>5 DEF Put, writer, file
<1> HIDE DEF message, a, b, c
<1>9. c \o message \in Seq(Byte) /\ Len(c \o message) = rcur + size[t]
  BY <1>3, <1>4, <1>7, Concat
<1>10. buf'[ridx'] = c \o message /\ buf'[1 - ridx'] = b
  BY <1>1, <1>3, <1>8 DEF BytesType, b
<1>11. BytesType'
  BY <1>1, <1>3, <1>8, <1>9, SMTT(30) DEF BytesType
<1>12. Cursors'
  <2>1. Len(b) = cur /\ (wpc \notin {"swap", "append"} => cur = 0)
    BY <1>1, <1>2 DEF Cursors, b
  <2>2. Len(buf'[1 - ridx']) = cur' /\ Len(buf'[ridx']) = rcur' /\ stores' = <<>>
    BY <1>2, <1>8, <1>9, <1>10, <2>1
  <2> QED
    BY <1>8, <2>1, <2>2 DEF Cursors
<1>13. Stream' = Stream \o message
  <2> DEFINE ab == a \o b
  <2>1. ab \in Seq(Byte) /\ c \in Seq(Byte) /\ message \in Seq(Byte)
    BY <1>3, <1>7, Concat
  <2> HIDE DEF ab
  <2>2. (ab \o c) \o message = ab \o (c \o message)
    BY <2>1, ConcatAssociative
  <2> QED
    BY <2>2, <1>8, <1>10 DEF Stream, ab, a, b, c
<1>14. Stream \in Seq(Byte)
  BY <1>1, StreamType
<1>15. EachOnceInOrder(Stream \o message, [sent EXCEPT ![t] = @ + 1])
  <2> DEFINE all == Stream
  <2> HIDE DEF all
  <2>1. EachOnceInOrder(all, sent) /\ all \in Seq(Byte) /\ sent \in [Threads -> Nat]
    BY <1>1, <1>14 DEF all, BytesType
  <2>2. EachOnceInOrder(all \o message, [sent EXCEPT ![t] = @ + 1])
    BY <2>1, <1>2, <1>7, MessageAppended
  <2> QED
    BY <2>2 DEF all
<1>16. EachOnceInOrder(Stream, sent)'
  BY <1>8, <1>13, <1>15
<1> QED
  BY <1>11, <1>12, <1>16

\* swap() begins: what it will take is what the cursor counts.
LEMMA WakeStream ==
    ASSUME InOrder, StreamInvariant, Wake
    PROVE BytesType' /\ Cursors' /\ EachOnceInOrder(Stream, sent)'
<1>1. BytesType /\ Cursors /\ SwapInvariant
  BY DEF StreamInvariant
<1>2. /\ UNCHANGED <<buf, ridx, rcur, sent, logged>> /\ wpc = "wait"
  BY DEF Wake, shared, thread, file
<1>3. EachOnceInOrder(Stream, sent)'
  BY <1>2, StreamStays
<1>4. stores = <<>> /\ cur = 0
  BY <1>1, <1>2 DEF SwapInvariant, Swapping, Cursors
<1>5. Len(buf[1 - ridx]) = 0 /\ Len(buf[ridx]) = rcur
  BY <1>1, <1>4 DEF Cursors
<1>6. buf[1 - ridx] = <<>>
  BY <1>1, <1>5, StreamType, EmptySeq
<1>7. CASE ~sflag \/ MayTake
  <2>1. stores' = <<"index", "cursor", "flag">> /\ cur' = rcur /\ wpc' = "swap"
    BY <1>7, OneOrder DEF Wake
  <2>2. rcur \in Nat
    BY <1>1 DEF SwapInvariant, LogType
  <2>3. BytesType'
    BY <1>1, <1>2, <2>1, <2>2 DEF BytesType
  <2>4. Cursors'
    BY <1>2, <1>5, <1>6, <2>1 DEF Cursors
  <2> QED
    BY <1>3, <2>3, <2>4
<1>8. CASE ~(~sflag \/ MayTake)
  <2>1. wpc' = "loop" /\ stores' = stores /\ cur' = cur
    BY <1>8 DEF Wake
  <2> QED
    BY <1>1, <1>2, <1>3, <1>4, <1>5, <2>1 DEF BytesType, Cursors
<1> QED
  BY <1>7, <1>8

\* The stores leave the stream as it is: one of the buffers is empty when they
\* change places.
LEMMA StoreStream ==
    ASSUME InOrder, StreamInvariant, Store
    PROVE BytesType' /\ Cursors' /\ EachOnceInOrder(Stream, sent)'
<1>1. BytesType /\ Cursors /\ SwapInvariant
  BY DEF StreamInvariant
<1>2. /\ UNCHANGED <<buf, sent, logged, cur, wpc>> /\ wpc = "swap"
  BY DEF Store, thread, file
<1>3. stores \in {<<"index", "cursor", "flag">>, <<"cursor", "flag">>, <<"flag">>}
  BY <1>1 DEF SwapInvariant, LogType, StoresLeft, Store
<1>4. buf[ridx] \in Seq(Byte) /\ buf[1 - ridx] \in Seq(Byte) /\ logged \in Seq(Byte)
  BY <1>1, StreamType DEF BytesType
<1>5. CASE stores = <<"index", "cursor", "flag">>
  <2>1. stores' = <<"cursor", "flag">> /\ Head(stores) = "index"
    BY <1>5 DEF Store
  <2>2. ridx' = 1 - ridx /\ 1 - ridx' = ridx /\ rcur' = rcur
    BY <1>1, <2>1 DEF Store, BytesType
  <2>3. buf[1 - ridx] = <<>> /\ cur = rcur /\ Len(buf[ridx]) = cur
    BY <1>1, <1>5 DEF Cursors
  <2>4. BytesType'
    BY <1>1, <1>2, <2>2 DEF BytesType
  <2>5. Cursors'
    BY <1>2, <2>1, <2>2, <2>3 DEF Cursors
  <2>6. Stream' = Stream
    <3> DEFINE b == buf[ridx]
               a == logged
    <3> HIDE DEF a, b
    <3>1. a \in Seq(Byte) /\ b \in Seq(Byte) /\ a \o b \in Seq(Byte)
      BY <1>4, Concat DEF a, b
    <3>2. (a \o <<>>) \o b = (a \o b) \o <<>>
      BY <3>1, ConcatEmptySeq
    <3> QED
      BY <1>2, <2>2, <2>3, <3>2 DEF Stream, a, b
  <2>7. EachOnceInOrder(Stream, sent)'
    BY <1>2, <2>6 DEF StreamInvariant
  <2> QED
    BY <2>4, <2>5, <2>7
<1>6. CASE stores = <<"cursor", "flag">>
  <2>1. stores' = <<"flag">> /\ Head(stores) = "cursor" /\ ridx' = ridx
    BY <1>6 DEF Store
  <2>2. BytesType' /\ Cursors'
    BY <1>1, <1>2, <1>6, <2>1 DEF BytesType, Cursors
  <2> QED
    BY <1>2, <2>1, <2>2, StreamStays
<1>7. CASE stores = <<"flag">>
  <2>1. stores' = <<>> /\ Head(stores) = "flag" /\ ridx' = ridx /\ rcur' = rcur
    BY <1>7 DEF Store
  <2>2. rcur = 0 /\ buf[ridx] = <<>>
    BY <1>1, <1>7 DEF SwapInvariant, Swapping, Cursors
  <2>3. BytesType'
    BY <1>1, <1>2, <2>1 DEF BytesType
  <2>4. Cursors'
    BY <1>1, <1>2, <1>7, <2>1, <2>2 DEF Cursors
  <2> QED
    BY <1>2, <2>1, <2>3, <2>4, StreamStays
<1> QED
  BY <1>3, <1>5, <1>6, <1>7

\* What goes to the file leaves the buffer in front of the other one.
LEMMA WriteOutStream ==
    ASSUME InOrder, StreamInvariant, WriteOut
    PROVE BytesType' /\ Cursors' /\ EachOnceInOrder(Stream, sent)'
<1> DEFINE a == logged
           b == buf[1 - ridx]
           c == buf[ridx]
<1>1. BytesType /\ Cursors /\ SwapInvariant
  BY DEF StreamInvariant
<1>2. a \in Seq(Byte) /\ b \in Seq(Byte) /\ c \in Seq(Byte) /\ 1 - ridx \in {0, 1} /\ 1 - ridx # ridx
  BY <1>1, StreamType DEF BytesType
<1>3. stores = <<>> /\ wpc = "append" /\ Len(b) = cur /\ Len(c) = rcur
  <2>1. stores = <<>> /\ wpc = "append"
    BY <1>1 DEF SwapInvariant, Swapping, WriteOut
  <2> QED
    BY <1>1, <2>1 DEF Cursors
<1>4. Bytes(buf[widx], cur) = b
  BY <1>2, <1>3, BytesAll DEF widx
<1>5. /\ logged' = a \o b /\ buf' = [buf EXCEPT ![1 - ridx] = <<>>] /\ cur' = 0 /\ wpc' = "loop"
      /\ ridx' = ridx /\ rcur' = rcur /\ stores' = stores /\ sent' = sent
  BY <1>4 DEF WriteOut, widx, thread
<1>6. buf'[1 - ridx'] = <<>> /\ buf'[ridx'] = c
  BY <1>1, <1>2, <1>5 DEF BytesType
<1> HIDE DEF a, b, c
<1>7. a \o b \in Seq(Byte)
  BY <1>2, Concat
<1>8. BytesType'
  BY <1>1, <1>2, <1>5, <1>7 DEF BytesType
<1>9. Cursors'
  <2>1. Len(buf'[1 - ridx']) = cur' /\ Len(buf'[ridx']) = rcur' /\ stores' = <<>>
    BY <1>3, <1>5, <1>6
  <2> QED
    BY <1>5, <2>1 DEF Cursors
<1>10. Stream' = Stream
  <2> DEFINE ab == a \o b
  <2> HIDE DEF ab
  <2>1. ab \o <<>> = ab
    BY <1>7, ConcatEmptySeq DEF ab
  <2> QED
    BY <1>5, <1>6, <2>1 DEF Stream, ab, a, b, c
<1>11. EachOnceInOrder(Stream, sent)'
  BY <1>5, <1>10 DEF StreamInvariant
<1> QED
  BY <1>8, <1>9, <1>11

\* Every step keeps the stream.
LEMMA StreamNext == ASSUME InOrder, StreamInvariant, [Next]_vars PROVE StreamInvariant'
<1>1. SwapInvariant /\ SwapInvariant' /\ BytesType /\ Cursors
  BY NextOK DEF StreamInvariant
<1>2. BytesType' /\ Cursors' /\ EachOnceInOrder(Stream, sent)'
  <2>1. CASE \E t \in Threads : Call(t) \/ Lock(t) \/ Ask(t) \/ Spin(t)
    BY <2>1, ThreadStays DEF Call, Lock, Ask, Spin
  <2>2. CASE \E t \in Threads : Put(t)
    BY <2>2, PutAppends
  <2>3. CASE Begin
    <3>1. /\ UNCHANGED <<shared, stores, cur, file, sent>> /\ wpc = "loop" /\ wpc' \in {"exit", "wait"}
      BY <2>3 DEF Begin, thread
    <3>2. BytesType' /\ Cursors'
      BY <1>1, <3>1 DEF BytesType, Cursors, shared, file
    <3> QED
      BY <3>1, <3>2, StreamStays DEF shared, file
  <2>4. CASE Wake
    BY <2>4, WakeStream
  <2>5. CASE Store
    BY <2>5, StoreStream
  <2>6. CASE Unlock
    <3>1. /\ UNCHANGED <<shared, stores, cur, file, sent>> /\ wpc = "swap" /\ wpc' = "append"
      BY <2>6 DEF Unlock, thread
    <3>2. BytesType' /\ Cursors'
      BY <1>1, <3>1 DEF BytesType, Cursors, shared, file
    <3> QED
      BY <3>1, <3>2, StreamStays DEF shared, file
  <2>7. CASE WriteOut
    BY <2>7, WriteOutStream
  <2>8. CASE Kill \/ UNCHANGED vars
    BY <2>8, ThreadStays DEF Kill, vars, thread
  <2> QED
    BY <2>1, <2>2, <2>3, <2>4, <2>5, <2>6, <2>7, <2>8 DEF Next, Apply, WriteFunc
<1> QED
  BY <1>1, <1>2 DEF StreamInvariant

\* Whatever was put is in the files and the two buffers: each message once, in one
\* piece, those of a thread in the order it sent them, and nothing else.
THEOREM OnceInOrderTheorem == InOrder => (Spec => []OnceInOrder)
<1> SUFFICES ASSUME InOrder PROVE Spec => []OnceInOrder
  OBVIOUS
<1>1. Init => StreamInvariant
  BY StreamInit
<1>2. StreamInvariant /\ [Next]_vars => StreamInvariant'
  BY StreamNext
<1>3. StreamInvariant => OnceInOrder
  <2> SUFFICES ASSUME StreamInvariant, stores = <<>> PROVE OnceInOrder
    BY DEF OnceInOrder
  <2>1. Len(buf[1 - ridx]) = cur /\ Len(buf[ridx]) = rcur
    BY DEF StreamInvariant, Cursors
  <2>2. Bytes(buf[1 - ridx], cur) = buf[1 - ridx] /\ Bytes(buf[ridx], rcur) = buf[ridx]
    BY <2>1, StreamType, BytesAll DEF StreamInvariant
  <2> QED
    BY <2>2 DEF StreamInvariant, Stream, OnceInOrder, widx
<1> QED
  BY <1>1, <1>2, <1>3, PTL DEF Spec
-----------------------------------------------------------------------------
Less == OpToRel(LAMBDA x, y : x < y, Nat)

-----------------------------------------------------------------------------
(* Lines: recursions along a measure have a solution                       *)

\* Induction along a measure: of what is outside T, take one of the lowest.
LEMMA Measured ==
  ASSUME NEW D, NEW m \in [D -> Nat], NEW T,
         \A x \in D : (\A y \in D : m[y] < m[x] => y \in T) => x \in T
  PROVE  \A x \in D : x \in T
<1> DEFINE Out == D \ T
           Low == {m[x] : x \in Out}
<1>1. SUFFICES ASSUME Out # {} PROVE FALSE
  OBVIOUS
<1>2. PICK k \in Low : \A j \in Low : ~(<<j, k>> \in Less)
  <2>1. IsWellFoundedOn(Less, Nat)
    BY NatLessThanWellFounded DEF Less
  <2>2. Low \subseteq Nat /\ Low # {}
    BY <1>1
  <2> HIDE DEF Low
  <2>3. QED
    BY <2>1, <2>2, WFMin
<1>3. PICK x \in Out : k = m[x]
  OBVIOUS
<1>4. ASSUME NEW y \in D, m[y] < m[x] PROVE y \in T
  <2>1. SUFFICES ASSUME y \in Out PROVE FALSE
    OBVIOUS
  <2>2. m[y] \in Low /\ m[y] \in Nat /\ m[x] \in Nat
    BY <2>1
  <2>3. <<m[y], k>> \in Less
    BY <1>3, <1>4, <2>2 DEF Less, OpToRel
  <2>4. QED
    BY <1>2, <2>2, <2>3
<1>5. QED
  BY <1>3, <1>4

\* A recursion over D that goes down in the measure m until it stops: down[x] is
\* where x recurs to, g[x] what it does with the value from there.
Descends(D, S, m, stop, down, base, g) ==
    \A x \in D : IF x \in stop THEN base[x] \in S
                ELSE down[x] \in D /\ m[down[x]] < m[x] /\ \A v \in S : g[x][v] \in S

Solution(f, D, stop, down, base, g) ==
    \A x \in D : f[x] = IF x \in stop THEN base[x] ELSE g[x][f[down[x]]]

\* Such a recursion has a solution.
LEMMA Recursion ==
  ASSUME NEW D, NEW S, S # {}, NEW m \in [D -> Nat],
         NEW stop, NEW down, NEW base, NEW g, Descends(D, S, m, stop, down, base, g)
  PROVE  \E f \in [D -> S] : Solution(f, D, stop, down, base, g)
<1>0. PICK s : s \in S
  OBVIOUS
<1> DEFINE Value(h, x) == IF x \in stop THEN base[x] ELSE g[x][h[down[x]]]
           Solves(h, n) == /\ h \in [D -> S]
                           /\ \A y \in D : m[y] <= n => h[y] = Value(h, y)
           Some(n) == CHOOSE h : Solves(h, n)
           N == {n \in Nat : \E h : Solves(h, n)}
<1> USE DEF Descends
<1>1. ASSUME NEW h \in [D -> S], NEW x \in D PROVE Value(h, x) \in S
  OBVIOUS
<1>2. ASSUME NEW n \in Nat, \A k \in Nat : k < n => k \in N PROVE n \in N
  <2>1. PICK h \in [D -> S] : \A y \in D : m[y] < n => h[y] = Value(h, y)
    <3>1. CASE n = 0
      <4>1. [y \in D |-> s] \in [D -> S]
        BY <1>0
      <4>2. \A y \in D : ~(m[y] < n)
        BY <3>1
      <4> HIDE DEF Value
      <4>3. QED
        BY <4>1, <4>2
    <3>2. CASE n > 0
      <4>1. n - 1 \in N
        BY <1>2, <3>2
      <4>2. PICK h : Solves(h, n - 1)
        BY <4>1
      <4>3. \A y \in D : m[y] < n => m[y] <= n - 1
        BY <3>2
      <4> HIDE DEF Value
      <4>4. QED
        BY <4>2, <4>3
    <3>3. QED
      BY <3>1, <3>2
  <2> DEFINE h2 == [y \in D |-> IF m[y] < n THEN h[y] ELSE Value(h, y)]
  <2>2. h2 \in [D -> S]
    <3> HIDE DEF Value
    <3> QED BY <1>1
  <2>3. ASSUME NEW y \in D, m[y] <= n PROVE h2[y] = Value(h2, y)
    <3>1. h2[y] = Value(h, y)
      <4> HIDE DEF Value
      <4> QED BY <2>1
    <3>2. CASE y \in stop
      BY <3>1, <3>2
    <3>3. CASE y \notin stop
      <4>1. down[y] \in D /\ m[down[y]] < n
        BY <2>3, <3>3
      <4>2. h2[down[y]] = h[down[y]]
        BY <4>1
      <4> HIDE DEF h2
      <4>3. QED
        BY <3>1, <3>3, <4>2
    <3>4. QED
      BY <3>2, <3>3
  <2>4. Solves(h2, n)
    <3> HIDE DEF Value, h2
    <3> QED BY <2>2, <2>3
  <2> HIDE DEF Solves, h2
  <2>5. QED
    BY <2>4
<1>3. \A n \in Nat : Solves(Some(n), n)
  <2> DEFINE I == [n \in Nat |-> n]
  <2> HIDE DEF N
  <2>1. \A n \in Nat : (\A k \in Nat : I[k] < I[n] => k \in N) => n \in N
    BY <1>2
  <2>2. I \in [Nat -> Nat]
    OBVIOUS
  <2> HIDE DEF I
  <2>3. \A n \in Nat : n \in N
    BY <2>1, <2>2, Measured
  <2> USE DEF N
  <2> HIDE DEF Solves
  <2>4. \A n \in Nat : \E h : Solves(h, n)
    BY <2>3
  <2>5. QED
    BY <2>4
<1>4. ASSUME NEW n \in Nat, NEW k \in Nat, n <= k, NEW h, NEW j, Solves(h, n), Solves(j, k)
      PROVE  \A x \in D : m[x] <= n => h[x] = j[x]
  <2> DEFINE T == {x \in D : m[x] <= n => h[x] = j[x]}
  <2>1. ASSUME NEW x \in D, \A y \in D : m[y] < m[x] => y \in T PROVE x \in T
    <3>1. SUFFICES ASSUME m[x] <= n PROVE h[x] = j[x]
      OBVIOUS
    <3>2. h[x] = Value(h, x) /\ j[x] = Value(j, x)
      <4> HIDE DEF Value
      <4>1. m[x] <= k
        BY <1>4, <3>1
      <4> QED BY <1>4, <3>1, <4>1
    <3>3. CASE x \in stop
      BY <3>2, <3>3
    <3>4. CASE x \notin stop
      <4>1. down[x] \in D /\ m[down[x]] < m[x] /\ m[down[x]] <= n
        BY <3>1, <3>4
      <4>2. h[down[x]] = j[down[x]]
        BY <2>1, <4>1
      <4>3. QED
        BY <3>2, <3>4, <4>2
    <3>5. QED
      BY <3>3, <3>4
  <2> HIDE DEF T
  <2>2. \A x \in D : x \in T
    BY <2>1, Measured
  <2>3. QED
    BY <2>2 DEF T
<1> DEFINE f == [x \in D |-> Some(m[x])[x]]
<1>5. f \in [D -> S]
  <2> HIDE DEF Some
  <2>1. \A n \in Nat : Some(n) \in [D -> S]
    BY <1>3
  <2>2. QED
    BY <2>1
<1>6. ASSUME NEW x \in D PROVE f[x] = Value(f, x)
  <2>1. f[x] = Value(Some(m[x]), x)
    <3> HIDE DEF Some, Value
    <3>1. m[x] \in Nat /\ m[x] <= m[x]
      OBVIOUS
    <3>2. Some(m[x])[x] = Value(Some(m[x]), x)
      BY <1>3, <3>1
    <3>3. QED
      BY <3>2
  <2>2. CASE x \in stop
    BY <2>1, <2>2
  <2>3. CASE x \notin stop
    <3> DEFINE y == down[x]
    <3>1. y \in D /\ m[y] < m[x] /\ m[y] \in Nat /\ m[x] \in Nat
      BY <2>3
    <3>2. Some(m[y])[y] = Some(m[x])[y]
      <4> HIDE DEF Some, Solves, y
      <4>1. Solves(Some(m[y]), m[y]) /\ Solves(Some(m[x]), m[x])
        BY <1>3, <3>1
      <4>2. QED
        BY <1>4, <3>1, <4>1
    <3>3. f[y] = Some(m[x])[y]
      <4> HIDE DEF Some, y
      <4> QED BY <3>1, <3>2
    <3> HIDE DEF f, Some
    <3>4. QED
      BY <2>1, <2>3, <3>3
  <2>4. QED
    BY <2>2, <2>3
<1> HIDE DEF f
<1>7. QED
  BY <1>5, <1>6 DEF Solution

-----------------------------------------------------------------------------
(* The digits of a number                                                  *)

\* The powers of ten that Ten is the table of.
LEMMA TenDef ==
  /\ Ten \in [Nat -> Nat] /\ Ten[0] = 1
  /\ \A k \in Nat \ {0} : Ten[k] = 10 * Ten[k - 1]
<1> DEFINE Is(f) == f = [k \in Nat |-> IF k = 0 THEN 1 ELSE 10 * f[k - 1]]
           m == [k \in Nat |-> k]
           base == [k \in Nat |-> 1]
           down == [k \in Nat |-> k - 1]
           g == [k \in Nat |-> [v \in Nat |-> 10 * v]]
<1>1. m \in [Nat -> Nat]
  OBVIOUS
<1>2. PICK f \in [Nat -> Nat] :
         Solution(f, Nat, {0}, down, base, g)
  <2>1. Descends(Nat, Nat, m, {0}, down, base, g)
    BY DEF Descends
  <2> HIDE DEF m, base, down, g
  <2>2. QED
    BY <1>1, <2>1, Recursion
<1>3. Is(f)
  <2>1. ASSUME NEW k \in Nat PROVE f[k] = IF k = 0 THEN 1 ELSE 10 * f[k - 1]
    <3>1. CASE k = 0
      BY <1>2, <3>1 DEF Solution
    <3>2. CASE k # 0
      <4>1. f[k] = g[k][f[down[k]]]
        <5> HIDE DEF g, down, base
        <5> QED BY <1>2, <3>2 DEF Solution
      <4>2. down[k] = k - 1 /\ k - 1 \in Nat
        BY <3>2
      <4>3. f[k - 1] \in Nat
        BY <4>2
      <4>4. QED
        BY <4>1, <4>2, <4>3, <3>2
    <3>3. QED
      BY <3>1, <3>2
  <2>2. QED
    BY <2>1
<1>4. Is(Ten)
  <2>1. Ten = CHOOSE h : Is(h)
    BY DEF Ten
  <2> HIDE DEF Is
  <2>2. QED
    BY <1>3, <2>1
<1>5. \A k \in Nat : k \in {j \in Nat : Ten[j] \in Nat}
  <2> DEFINE T == {j \in Nat : Ten[j] \in Nat}
  <2>1. ASSUME NEW k \in Nat, \A j \in Nat : m[j] < m[k] => j \in T PROVE k \in T
    <3>1. CASE k = 0
      BY <1>4, <3>1
    <3>2. CASE k # 0
      <4>1. k - 1 \in Nat /\ k - 1 \in T
        BY <2>1, <3>2
      <4>2. Ten[k] = 10 * Ten[k - 1]
        BY <1>4, <3>2
      <4>3. QED
        BY <4>1, <4>2
    <3>3. QED
      BY <3>1, <3>2
  <2> HIDE DEF T, m
  <2>2. \A k \in Nat : k \in T
    BY <1>1, <2>1, Measured
  <2>3. QED
    BY <2>2 DEF T
<1>6. QED
  BY <1>4, <1>5

\* Division by ten goes down, and leaves a digit.
LEMMA DivTen ==
  ASSUME NEW i \in Nat
  PROVE  /\ i \div 10 \in Nat /\ i % 10 \in 0 .. 9
         /\ i = 10 * (i \div 10) + (i % 10)
         /\ i >= 10 => i \div 10 < i /\ i \div 10 >= 1
         /\ i < 10 => i \div 10 = 0 /\ i % 10 = i
  OBVIOUS

\* The digits of a number, from the front.
LEMMA MetaDef ==
  /\ NumericMetaString \in [Nat -> Seq(Char)]
  /\ \A i \in Nat : NumericMetaString[i] =
         IF i < 10 THEN <<Zero + i>> ELSE Append(NumericMetaString[i \div 10], Zero + (i % 10))
<1> DEFINE Is(f) == f = [i \in Nat |-> IF i < 10 THEN <<Zero + i>>
                                       ELSE Append(f[i \div 10], Zero + (i % 10))]
           m == [i \in Nat |-> i]
           base == [i \in Nat |-> <<Zero + i>>]
           down == [i \in Nat |-> i \div 10]
           g == [i \in Nat |-> [v \in Seq(Char) |-> Append(v, Zero + (i % 10))]]
<1>1. m \in [Nat -> Nat]
  OBVIOUS
<1>2. ASSUME NEW i \in Nat PROVE /\ i < 10 => Zero + i \in Char
                                 /\ Zero + (i % 10) \in Char
  BY DivTen DEF Zero, Char
<1>3. PICK f \in [Nat -> Seq(Char)] : Solution(f, Nat, 0 .. 9, down, base, g)
  <2>1. ASSUME NEW i \in Nat
        PROVE  IF i \in 0 .. 9 THEN base[i] \in Seq(Char)
               ELSE /\ down[i] \in Nat /\ m[down[i]] < m[i]
                    /\ \A v \in Seq(Char) : g[i][v] \in Seq(Char)
    <3>1. CASE i \in 0 .. 9
      BY <1>2, <3>1
    <3>2. CASE i \notin 0 .. 9
      <4>1. down[i] \in Nat /\ down[i] < i
        BY <3>2, DivTen
      <4>2. ASSUME NEW v \in Seq(Char) PROVE g[i][v] \in Seq(Char)
        BY <1>2, AppendProperties
      <4> HIDE DEF g, down
      <4>3. QED
        BY <3>2, <4>1, <4>2
    <3>3. QED
      BY <3>1, <3>2
  <2>2. Seq(Char) # {}
    BY EmptySeq
  <2> HIDE DEF m, base, down, g
  <2>3. Descends(Nat, Seq(Char), m, 0 .. 9, down, base, g)
    BY <2>1 DEF Descends
  <2>4. QED
    BY <1>1, <2>2, <2>3, Recursion
<1>4. Is(f)
  <2>1. ASSUME NEW i \in Nat
        PROVE  f[i] = IF i < 10 THEN <<Zero + i>> ELSE Append(f[i \div 10], Zero + (i % 10))
    <3>1. CASE i < 10
      <4>1. f[i] = base[i]
        <5>1. i \in 0 .. 9
          BY <3>1
        <5> HIDE DEF g, down, base
        <5> QED BY <1>3, <5>1 DEF Solution
      <4>2. base[i] = <<Zero + i>>
        OBVIOUS
      <4> HIDE DEF base
      <4>3. QED
        BY <3>1, <4>1, <4>2
    <3>2. CASE ~(i < 10)
      <4>1. f[i] = g[i][f[down[i]]]
        <5>1. i \notin 0 .. 9
          BY <3>2
        <5> HIDE DEF g, down, base
        <5> QED BY <1>3, <5>1 DEF Solution
      <4>2. down[i] = i \div 10 /\ i \div 10 \in Nat
        BY DivTen
      <4>3. f[i \div 10] \in Seq(Char)
        BY <4>2
      <4>4. g[i][f[i \div 10]] = Append(f[i \div 10], Zero + (i % 10))
        BY <4>3
      <4> HIDE DEF g, down
      <4>5. QED
        BY <3>2, <4>1, <4>2, <4>4
    <3>3. QED
      BY <3>1, <3>2
  <2>2. QED
    BY <2>1
<1>5. Is(NumericMetaString)
  <2>1. NumericMetaString = CHOOSE h : Is(h)
    BY DEF NumericMetaString
  <2> HIDE DEF Is
  <2>2. QED
    BY <1>4, <2>1
<1> DEFINE T == {i \in Nat : NumericMetaString[i] \in Seq(Char)}
<1>6. ASSUME NEW i \in Nat, \A j \in Nat : m[j] < m[i] => j \in T PROVE i \in T
  <2>1. CASE i < 10
    BY <1>2, <1>5, <2>1
  <2>2. CASE ~(i < 10)
    <3>1. i \div 10 \in T
      BY <1>6, <2>2, DivTen
    <3>2. NumericMetaString[i] = Append(NumericMetaString[i \div 10], Zero + (i % 10))
      BY <1>5, <2>2
    <3>3. NumericMetaString[i \div 10] \in Seq(Char) /\ Zero + (i % 10) \in Char
      BY <1>2, <3>1
    <3>4. Append(NumericMetaString[i \div 10], Zero + (i % 10)) \in Seq(Char)
      BY <3>3, AppendProperties
    <3>5. QED
      BY <3>2, <3>4
  <2>3. QED
    BY <2>1, <2>2
<1>7. \A i \in Nat : i \in T
  <2> HIDE DEF T, m
  <2>1. QED
    BY <1>1, <1>6, Measured
<1>8. QED
  BY <1>5, <1>7

\* length counts them.
LEMMA LengthIs == \A i \in Nat : length[i] = Len(NumericMetaString[i])
<1> DEFINE Is(f) == f = [i \in Nat |-> IF i < 10 THEN 1 ELSE 1 + f[i \div 10]]
           m == [i \in Nat |-> i]
           f == [i \in Nat |-> Len(NumericMetaString[i])]
           T == {i \in Nat : length[i] = f[i]}
<1>1. m \in [Nat -> Nat]
  OBVIOUS
<1>2. ASSUME NEW i \in Nat PROVE f[i] = IF i < 10 THEN 1 ELSE 1 + f[i \div 10]
  <2>1. CASE i < 10
    BY <2>1, MetaDef
  <2>2. CASE ~(i < 10)
    <3>1. /\ NumericMetaString[i] = Append(NumericMetaString[i \div 10], Zero + (i % 10))
          /\ NumericMetaString[i \div 10] \in Seq(Char) /\ i \div 10 \in Nat
      BY <2>2, MetaDef, DivTen
    <3>2. QED
      BY <2>2, <3>1, LenProperties
  <2>3. QED
    BY <2>1, <2>2
<1>3. Is(f)
  BY <1>2
<1>4. Is(length)
  <2>1. length = CHOOSE h : Is(h)
    BY DEF length
  <2> HIDE DEF Is, f
  <2>2. QED
    BY <1>3, <2>1
<1>5. ASSUME NEW i \in Nat, \A j \in Nat : m[j] < m[i] => j \in T PROVE i \in T
  <2>1. CASE i < 10
    BY <1>2, <1>4, <2>1
  <2>2. CASE ~(i < 10)
    <3>1. i \div 10 \in T /\ i \div 10 \in Nat
      BY <1>5, <2>2, DivTen
    <3> HIDE DEF f
    <3>2. QED
      BY <1>2, <1>4, <2>2, <3>1
  <2>3. QED
    BY <2>1, <2>2
<1>6. \A i \in Nat : i \in T
  <2> HIDE DEF T, m
  <2>1. QED
    BY <1>1, <1>5, Measured
<1>7. QED
  BY <1>6

\* What parse() writes are these digits, of 0 none.
LEMMA ParsedIs ==
  \A i \in Nat : Parsed[i] = IF i = 0 THEN <<>> ELSE NumericMetaString[i]
<1> DEFINE Is(f) == f = [i \in Nat |-> IF i = 0 THEN <<>>
                                       ELSE Append(f[i \div 10], Zero + (i % 10))]
           m == [i \in Nat |-> i]
           f == [i \in Nat |-> IF i = 0 THEN <<>> ELSE NumericMetaString[i]]
           T == {i \in Nat : Parsed[i] = f[i]}
<1>1. m \in [Nat -> Nat]
  OBVIOUS
<1>2. ASSUME NEW i \in Nat, i # 0 PROVE f[i] = Append(f[i \div 10], Zero + (i % 10))
  <2>1. CASE i < 10
    <3>1. f[i] = <<Zero + i>> /\ i \div 10 = 0 /\ i % 10 = i
      BY <1>2, <2>1, MetaDef, DivTen
    <3>2. f[0] = <<>>
      OBVIOUS
    <3> HIDE DEF f
    <3>3. Append(<<>>, Zero + i) = <<Zero + i>>
      OBVIOUS
    <3>4. QED
      BY <3>1, <3>2, <3>3
  <2>2. CASE ~(i < 10)
    <3>1. i \div 10 \in Nat \ {0}
      BY <2>2, DivTen
    <3>2. f[i] = NumericMetaString[i] /\ f[i \div 10] = NumericMetaString[i \div 10]
      BY <1>2, <3>1
    <3> HIDE DEF f
    <3>3. QED
      BY <2>2, <3>2, MetaDef
  <2>3. QED
    BY <2>1, <2>2
<1>3. Is(f)
  <2>1. ASSUME NEW i \in Nat PROVE f[i] = IF i = 0 THEN <<>> ELSE Append(f[i \div 10], Zero + (i % 10))
    BY <1>2
  <2>2. QED
    BY <2>1
<1>4. Is(Parsed)
  <2>1. Parsed = CHOOSE h : Is(h)
    BY DEF Parsed
  <2> HIDE DEF Is, f
  <2>2. QED
    BY <1>3, <2>1
<1>5. ASSUME NEW i \in Nat, \A j \in Nat : m[j] < m[i] => j \in T PROVE i \in T
  <2>1. CASE i = 0
    BY <1>4, <2>1
  <2>2. CASE i # 0
    <3>1. i \div 10 \in T /\ i \div 10 \in Nat
      BY <1>5, <2>2, DivTen
    <3> HIDE DEF f
    <3>2. QED
      BY <1>2, <1>4, <2>2, <3>1
  <2>3. QED
    BY <2>1, <2>2
<1>6. \A i \in Nat : i \in T
  <2> HIDE DEF T, m
  <2>1. QED
    BY <1>1, <1>5, Measured
<1>7. QED
  BY <1>6

\* Induction over the numbers up to n
LEMMA Induction ==
  ASSUME NEW n \in Nat, NEW T, 0 \in T, \A i \in 1 .. n : i - 1 \in T => i \in T
  PROVE  \A i \in 0 .. n : i \in T
<1> DEFINE D == 0 .. n
           m == [i \in D |-> i]
<1>1. m \in [D -> Nat]
  OBVIOUS
<1>2. ASSUME NEW i \in D, \A j \in D : m[j] < m[i] => j \in T PROVE i \in T
  <2>1. CASE i = 0
    BY <2>1
  <2>2. CASE i # 0
    <3>1. i \in 1 .. n /\ i - 1 \in 0 .. n /\ m[i - 1] < m[i]
      BY <2>2
    <3>2. QED
      BY <1>2, <3>1
  <2>3. QED
    BY <2>1, <2>2
<1>3. \A i \in D : i \in T
  <2> HIDE DEF m, D
  <2>1. QED
    BY <1>1, <1>2, Measured
<1>4. QED
  BY <1>3

\* A recursion along the indexes of a sequence: g[k] is the step at k.
Steps(n, S, g) == \A k \in 1 .. n : \A v \in S : g[k][v] \in S
Walks(f, n, base, g) == f[0] = base /\ \A k \in 1 .. n : f[k] = g[k][f[k - 1]]

\* Such a recursion has a solution, by induction over the indexes.
LEMMA Walk ==
  ASSUME NEW n \in Nat, NEW S, NEW base \in S, NEW g, Steps(n, S, g)
  PROVE  \E f \in [0 .. n -> S] : Walks(f, n, base, g)
<1> DEFINE m == [k \in 0 .. n |-> k]
           start == [k \in 0 .. n |-> base]
           down == [k \in 0 .. n |-> k - 1]
<1>1. m \in [0 .. n -> Nat] /\ S # {}
  OBVIOUS
<1>2. Descends(0 .. n, S, m, {0}, down, start, g)
  <2>1. ASSUME NEW k \in 0 .. n
        PROVE  IF k \in {0} THEN start[k] \in S
               ELSE down[k] \in 0 .. n /\ m[down[k]] < m[k] /\ \A v \in S : g[k][v] \in S
    BY DEF Steps
  <2> HIDE DEF m, start, down
  <2>2. QED
    BY <2>1 DEF Descends
<1>3. PICK f \in [0 .. n -> S] : Solution(f, 0 .. n, {0}, down, start, g)
  <2> HIDE DEF m, start, down
  <2>1. QED
    BY <1>1, <1>2, Recursion
<1>4. f[0] = base
  BY <1>3 DEF Solution
<1>5. ASSUME NEW k \in 1 .. n PROVE f[k] = g[k][f[k - 1]]
  <2>1. k \in 0 .. n /\ k \notin {0} /\ down[k] = k - 1
    OBVIOUS
  <2> HIDE DEF start, down
  <2>2. QED
    BY <1>3, <2>1 DEF Solution
<1>6. QED
  BY <1>4, <1>5 DEF Walks

\* ValueOf goes from digit to digit.
LEMMA ValueOfDef ==
  ASSUME NEW s \in Seq(Int)
  PROVE  \E v \in [0 .. Len(s) -> Int] :
            /\ v[0] = 0 /\ ValueOf(s) = v[Len(s)]
            /\ \A k \in 1 .. Len(s) : v[k] = 10 * v[k - 1] + (s[k] - Zero)
<1> DEFINE n == Len(s)
           Is(f) == f = [k \in 0 .. n |-> IF k = 0 THEN 0 ELSE 10 * f[k - 1] + (s[k] - Zero)]
           g == [k \in 1 .. n |-> [v \in Int |-> 10 * v + (s[k] - Zero)]]
           v == CHOOSE f : Is(f)
<1>1. n \in Nat /\ \A k \in 1 .. n : s[k] \in Int
  BY LenProperties, ElementOfSeq
<1>2. PICK f \in [0 .. n -> Int] : Walks(f, n, 0, g)
  <2>1. Steps(n, Int, g)
    BY <1>1 DEF Steps, Zero
  <2> HIDE DEF g, n
  <2>2. QED
    BY <1>1, <2>1, 0 \in Int, Walk, Zenon
<1>3. Is(f)
  <2>1. ASSUME NEW k \in 0 .. n
        PROVE  f[k] = IF k = 0 THEN 0 ELSE 10 * f[k - 1] + (s[k] - Zero)
    <3>1. CASE k = 0
      BY <1>2, <3>1 DEF Walks
    <3>2. CASE k # 0
      <4>1. k \in 1 .. n /\ f[k - 1] \in Int
        BY <1>1, <3>2
      <4>2. f[k] = g[k][f[k - 1]]
        BY <1>2, <4>1 DEF Walks
      <4>3. QED
        BY <3>2, <4>1, <4>2
    <3>3. QED
      BY <3>1, <3>2
  <2> HIDE DEF n
  <2>2. QED
    BY <1>1, <2>1
<1>4. Is(v)
  <2> HIDE DEF Is
  <2>1. QED
    BY <1>3
<1>5. ValueOf(s) = v[n]
  BY DEF ValueOf
<1> HIDE DEF v, n
<1>6. v[0] = 0 /\ \A k \in 1 .. n : v[k] = 10 * v[k - 1] + (s[k] - Zero)
  BY <1>1, <1>4
<1> DEFINE T == {k \in 0 .. n : v[k] \in Int}
<1>7. ASSUME NEW k \in 1 .. n, k - 1 \in T PROVE k \in T
  <2>1. v[k - 1] \in Int /\ s[k] - Zero \in Int
    BY <1>1, <1>7 DEF Zero
  <2>2. v[k] = 10 * v[k - 1] + (s[k] - Zero)
    BY <1>6
  <2>3. 10 * v[k - 1] + (s[k] - Zero) \in Int
    BY <2>1
  <2>4. QED
    BY <2>2, <2>3
<1>8. \A k \in 0 .. n : k \in T
  <2>1. 0 \in T
    BY <1>1, <1>6
  <2> HIDE DEF T
  <2>2. QED
    BY <1>1, <1>7, <2>1, Induction
<1>9. v \in [0 .. n -> Int]
  BY <1>4, <1>8
<1>10. QED
  BY <1>5, <1>6, <1>9 DEF n

\* No digits say zero.
LEMMA ValueOfEmpty == ValueOf(<<>>) = 0
<1>1. <<>> \in Seq(Int) /\ Len(<<>>) = 0
  BY EmptySeq
<1>2. PICK v \in [0 .. 0 -> Int] : v[0] = 0 /\ ValueOf(<<>>) = v[0]
  BY <1>1, ValueOfDef
<1>3. QED
  BY <1>2

\* One more digit
LEMMA ValueOfAppend ==
  ASSUME NEW s \in Seq(Int), NEW c \in Int
  PROVE  ValueOf(s) \in Int /\ ValueOf(Append(s, c)) = 10 * ValueOf(s) + (c - Zero)
<1> DEFINE t == Append(s, c)
           n == Len(s)
<1>1. /\ t \in Seq(Int) /\ Len(t) = n + 1 /\ n \in Nat /\ t[n + 1] = c
      /\ \A k \in 1 .. n : t[k] = s[k] /\ s[k] \in Int
  BY AppendProperties, LenProperties, ElementOfSeq
<1> HIDE DEF t, n
<1>2. PICK v \in [0 .. n -> Int] :
            /\ v[0] = 0 /\ ValueOf(s) = v[n]
            /\ \A k \in 1 .. n : v[k] = 10 * v[k - 1] + (s[k] - Zero)
  BY ValueOfDef DEF n
<1>3. PICK w \in [0 .. Len(t) -> Int] :
            /\ w[0] = 0 /\ ValueOf(t) = w[Len(t)]
            /\ \A k \in 1 .. Len(t) : w[k] = 10 * w[k - 1] + (t[k] - Zero)
  BY <1>1, ValueOfDef, Zenon
<1> DEFINE T == {k \in 0 .. n : v[k] = w[k]}
<1>4. ASSUME NEW k \in 1 .. n, k - 1 \in T PROVE k \in T
  <2>1. k \in 1 .. Len(t) /\ k \in 0 .. n
    BY <1>1
  <2>2. v[k - 1] = w[k - 1] /\ t[k] = s[k]
    BY <1>1, <1>4
  <2>3. v[k] = w[k]
    BY <1>2, <1>3, <2>1, <2>2
  <2>4. QED
    BY <2>1, <2>3
<1>5. \A k \in 0 .. n : k \in T
  <2>1. 0 \in T
    BY <1>1, <1>2, <1>3
  <2> HIDE DEF T
  <2>2. QED
    BY <1>1, <1>4, <2>1, Induction
<1>6. v[n] = w[n] /\ w[n + 1] = 10 * w[n] + (t[n + 1] - Zero)
  BY <1>1, <1>3, <1>5
<1>7. QED
  BY <1>1, <1>2, <1>3, <1>6 DEF t

\* One text behind another
LEMMA ValueOfConcat ==
  ASSUME NEW a \in Seq(Int), NEW b \in Seq(Int)
  PROVE  ValueOf(a \o b) = ValueOf(a) * Ten[Len(b)] + ValueOf(b)
<1> DEFINE D == Seq(Int)
           m == [s \in D |-> Len(s)]
           T == {s \in D : ValueOf(a \o s) = ValueOf(a) * Ten[Len(s)] + ValueOf(s)}
<1>1. m \in [D -> Nat]
  BY LenProperties
<1>2. ASSUME NEW s \in D, \A r \in D : m[r] < m[s] => r \in T PROVE s \in T
  <2>1. CASE s = <<>>
    <3>1. Len(s) = 0 /\ a \o s = a /\ ValueOf(s) = 0 /\ Ten[0] = 1
      BY <2>1, EmptySeq, ConcatEmptySeq, ValueOfEmpty, TenDef
    <3>2. ValueOf(a) \in Int
      BY ValueOfAppend
    <3>3. QED
      BY <3>1, <3>2
  <2>2. CASE s # <<>>
    <3>1. PICK r \in Seq(Int), c \in Int : s = Append(r, c)
      BY <2>2, SequenceEmptyOrAppend
    <3>2. Len(s) = Len(r) + 1 /\ Len(r) \in Nat /\ r \in T
      BY <1>2, <3>1, AppendProperties, LenProperties
    <3>3. a \o s = Append(a \o r, c) /\ a \o r \in Seq(Int)
      BY <3>1, ConcatProperties, AppendProperties, AppendIsConcat, ConcatAssociative, SMTT(30)
    <3>4. /\ ValueOf(a \o s) = 10 * ValueOf(a \o r) + (c - Zero)
          /\ ValueOf(s) = 10 * ValueOf(r) + (c - Zero)
          /\ ValueOf(a) \in Int /\ ValueOf(r) \in Int
      BY <3>1, <3>3, ValueOfAppend
    <3>5. Ten[Len(s)] = 10 * Ten[Len(r)] /\ Ten[Len(r)] \in Nat
      BY <3>2, TenDef
    <3>6. ValueOf(a \o r) = ValueOf(a) * Ten[Len(r)] + ValueOf(r)
      BY <3>2
    <3>7. ASSUME NEW x \in Int, NEW y \in Int, NEW p \in Nat, NEW e \in Int
          PROVE  10 * (x * p + y) + e = x * (10 * p) + (10 * y + e)
      OBVIOUS
    <3>8. c - Zero \in Int
      BY DEF Zero
    <3>9. 10 * (ValueOf(a) * Ten[Len(r)] + ValueOf(r)) + (c - Zero)
            = ValueOf(a) * (10 * Ten[Len(r)]) + (10 * ValueOf(r) + (c - Zero))
      <4> HIDE DEF D, m, T
      <4>1. QED
        BY <3>4, <3>5, <3>7, <3>8, SMTT(30)
    <3>10. ValueOf(a \o s) = ValueOf(a) * Ten[Len(s)] + ValueOf(s)
      <4> HIDE DEF D, m, T
      <4>1. QED
        BY <3>4, <3>5, <3>6, <3>9, Zenon
    <3>11. QED
      BY <3>10
  <2>3. QED
    BY <2>1, <2>2
<1>3. \A s \in D : s \in T
  <2> HIDE DEF T, m, D
  <2>1. QED
    BY <1>1, <1>2, Measured
<1>4. QED
  BY <1>3

\* Ten grows.
LEMMA TenGrows ==
  ASSUME NEW j \in Nat, NEW k \in Nat, j <= k
  PROVE  Ten[j] \in Nat \ {0} /\ Ten[k] \in Nat \ {0} /\ Ten[j] <= Ten[k]
<1> DEFINE D == Nat
           m == [i \in D |-> i]
           T == {i \in D : Ten[i] \in Nat \ {0} /\ (j <= i => Ten[j] <= Ten[i])}
<1>1. m \in [D -> Nat]
  OBVIOUS
<1>2. ASSUME NEW i \in D, \A h \in D : m[h] < m[i] => h \in T PROVE i \in T
  <2>1. CASE i = 0
    BY <2>1, TenDef
  <2>2. CASE i # 0
    <3>1. i - 1 \in T /\ i - 1 \in Nat
      BY <1>2, <2>2
    <3>2. Ten[i] = 10 * Ten[i - 1] /\ Ten[j] \in Nat
      BY <2>2, TenDef
    <3>3. Ten[i] \in Nat \ {0} /\ Ten[i - 1] <= Ten[i]
      BY <3>1, <3>2
    <3>4. QED
      BY <3>1, <3>3, <3>2
  <2>3. QED
    BY <2>1, <2>2
<1>3. \A i \in D : i \in T
  <2> HIDE DEF T, m, D
  <2>1. QED
    BY <1>1, <1>2, Measured
<1>4. QED
  BY <1>3

\* The first powers
LEMMA TenValues ==
  /\ Ten[1] = 10 /\ Ten[2] = 100 /\ Ten[3] = 1000 /\ Ten[4] = 10000
  /\ Ten[5] = 100000 /\ Ten[6] = 1000000 /\ Ten[7] = 10000000
<1>1. \A k \in 1 .. 7 : Ten[k] = 10 * Ten[k - 1]
  BY TenDef
<1>2. Ten[1] = 10 * Ten[0] /\ Ten[2] = 10 * Ten[1] /\ Ten[3] = 10 * Ten[2]
      /\ Ten[4] = 10 * Ten[3] /\ Ten[5] = 10 * Ten[4] /\ Ten[6] = 10 * Ten[5]
      /\ Ten[7] = 10 * Ten[6]
  BY <1>1
<1>3. QED
  BY <1>2, TenDef

\* The digits of a number are as many as its decade says, and say the number,
\* the first one not being zero.
LEMMA Digits ==
  ASSUME NEW n \in Nat
  PROVE  LET s == NumericMetaString[n]
         IN  /\ s \in Seq(Char) /\ s \in Seq(Int) /\ Len(s) \in Nat \ {0}
             /\ \A k \in 1 .. Len(s) : s[k] \in Zero .. Zero + 9
             /\ n < Ten[Len(s)] /\ (n # 0 => Ten[Len(s) - 1] <= n /\ s[1] # Zero)
             /\ ValueOf(s) = n
<1> DEFINE D == Nat
           m == [i \in D |-> i]
           S(i) == NumericMetaString[i]
           Good(i) ==
             /\ S(i) \in Seq(Char) /\ S(i) \in Seq(Int) /\ Len(S(i)) \in Nat \ {0}
             /\ \A k \in 1 .. Len(S(i)) : S(i)[k] \in Zero .. Zero + 9
             /\ i < Ten[Len(S(i))] /\ (i # 0 => Ten[Len(S(i)) - 1] <= i /\ S(i)[1] # Zero)
             /\ ValueOf(S(i)) = i
           T == {i \in D : Good(i)}
<1>1. m \in [D -> Nat]
  OBVIOUS
<1>2. ASSUME NEW i \in D, \A h \in D : m[h] < m[i] => h \in T PROVE i \in T
  <2>0. S(i) \in Seq(Char) /\ Char \subseteq Int
    BY MetaDef DEF Char
  <2>1. CASE i < 10
    <3>1. S(i) = <<Zero + i>>
      BY <2>1, MetaDef
    <3>2. Len(S(i)) = 1 /\ S(i)[1] = Zero + i
      BY <3>1
    <3>3. Ten[0] = 1 /\ Ten[1] = 10
      BY TenDef, TenValues
    <3>4. ValueOf(S(i)) = i
      <4>1. S(i) = Append(<<>>, Zero + i) /\ <<>> \in Seq(Int) /\ Zero + i \in Int
        BY <3>1 DEF Zero
      <4>2. ValueOf(S(i)) = 10 * 0 + ((Zero + i) - Zero)
        BY <4>1, ValueOfAppend, ValueOfEmpty
      <4>3. QED
        BY <4>2 DEF Zero
    <3>5. S(i) \in Seq(Int)
      BY <3>1 DEF Zero
    <3> HIDE DEF S
    <3>6. \A k \in 1 .. Len(S(i)) : S(i)[k] \in Zero .. Zero + 9
      BY <2>1, <3>2 DEF Zero
    <3>7. i < Ten[Len(S(i))] /\ (i # 0 => Ten[Len(S(i)) - 1] <= i /\ S(i)[1] # Zero)
      <4>1. Len(S(i)) - 1 = 0
        BY <3>2
      <4>2. QED
        BY <2>1, <3>2, <3>3, <4>1 DEF Zero
    <3>8. Good(i)
      BY <2>0, <3>2, <3>4, <3>5, <3>6, <3>7
    <3> HIDE DEF Good
    <3>9. QED
      BY <3>8
  <2>2. CASE ~(i < 10)
    <3> DEFINE q == i \div 10
               c == Zero + (i % 10)
    <3>1. /\ q \in Nat /\ q < i /\ q >= 1 /\ i % 10 \in 0 .. 9 /\ i = 10 * q + (i % 10)
      BY <2>2, DivTen
    <3>2. Good(q)
      <4> HIDE DEF Good
      <4> QED BY <1>2, <3>1
    <3>3. S(i) = Append(S(q), c) /\ c \in Zero .. Zero + 9 /\ c \in Int
      <4>1. c \in Zero .. Zero + 9 /\ c \in Int
        BY <3>1 DEF Zero
      <4> HIDE DEF Zero
      <4>2. S(i) = Append(S(q), c)
        BY <2>2, MetaDef
      <4>3. QED
        BY <4>1, <4>2
    <3> DEFINE l == Len(S(q))
    <3>4. /\ S(i) \in Seq(Int) /\ Len(S(i)) = l + 1 /\ l \in Nat \ {0}
          /\ S(i)[l + 1] = c /\ \A k \in 1 .. l : S(i)[k] = S(q)[k]
      BY <3>2, <3>3, AppendProperties
    <3>5. \A k \in 1 .. l + 1 : S(i)[k] \in Zero .. Zero + 9
      <4>1. ASSUME NEW k \in 1 .. l PROVE S(i)[k] \in Zero .. Zero + 9
        BY <3>2, <3>4
      <4> HIDE DEF S, l
      <4>2. QED
        BY <3>3, <3>4, <4>1
    <3>6. ValueOf(S(i)) = i
      <4>1. ValueOf(S(i)) = 10 * ValueOf(S(q)) + (c - Zero)
        BY <3>2, <3>3, ValueOfAppend
      <4>2. QED
        BY <3>1, <3>2, <4>1 DEF Zero
    <3>7. q < Ten[l] /\ Ten[l - 1] <= q /\ S(q)[1] # Zero
      BY <3>1, <3>2
    <3>8. Ten[l + 1] = 10 * Ten[l] /\ Ten[l] = 10 * Ten[l - 1]
          /\ Ten[l] \in Nat /\ Ten[l - 1] \in Nat
      <4> HIDE DEF l
      <4>1. l \in Nat \ {0} /\ l + 1 \in Nat \ {0} /\ (l + 1) - 1 = l /\ l - 1 \in Nat
        BY <3>4
      <4>2. QED
        BY <4>1, TenDef
    <3>9. i < Ten[l + 1] /\ Ten[l] <= i
      <4> HIDE DEF q, l
      <4> QED BY <3>1, <3>7, <3>8
    <3>10. S(i)[1] # Zero
      <4> HIDE DEF S, l
      <4>1. 1 \in 1 .. l
        BY <3>4
      <4>2. QED
        BY <3>4, <3>7, <4>1
    <3> HIDE DEF S, l
    <3>11. Len(S(i)) = l + 1 /\ Len(S(i)) - 1 = l /\ l + 1 \in Nat \ {0}
      BY <3>4
    <3>12. Good(i)
      BY <2>0, <3>4, <3>5, <3>6, <3>9, <3>10, <3>11
    <3> HIDE DEF Good
    <3>13. QED
      BY <3>12
  <2>3. QED
    BY <2>1, <2>2
<1>3. \A i \in D : i \in T
  <2> HIDE DEF T, m, D
  <2>1. QED
    BY <1>1, <1>2, Measured
<1>4. QED
  BY <1>3

-----------------------------------------------------------------------------
(* The configuration after some settings                                   *)

\* configure() of one more child keeps the configuration one.
LEMMA ConfigureType ==
  ASSUME NEW c \in Configs, NEW l \in Configs
  PROVE  Configure(c, l) \in Configs
<1>1. l.type \in {"CONFIG", "LOG_PATH", "LOG_FILTER", "MAX_FILE_SIZE", "ROLLING", "MSG_ALIGN"}
  BY DEF Configs
<1>2. CASE l.type = "CONFIG"
  BY <1>2 DEF Configs, Configure
<1>3. CASE l.type = "LOG_PATH"
  BY <1>3 DEF Configs, Configure
<1>4. CASE l.type = "LOG_FILTER"
  BY <1>4 DEF Configs, Configure
<1>5. CASE l.type = "MAX_FILE_SIZE"
  BY <1>5 DEF Configs, Configure
<1>6. CASE l.type = "ROLLING"
  BY <1>6 DEF Configs, Configure
<1>7. CASE l.type = "MSG_ALIGN"
  BY <1>7 DEF Configs, Configure
<1>8. QED
  BY <1>1, <1>2, <1>3, <1>4, <1>5, <1>6, <1>7

\* So is the one before any child.
LEMMA DefaultType == Default \in Configs
<1>1. "." \in Names /\ "log_default" \in Names /\ ".log" \in Names
  BY NamesAssumption
<1>2. {} \in SUBSET STRING
  OBVIOUS
<1>3. QED
  BY <1>1, <1>2 DEF Default, Configs

\* config() goes from child to child.
LEMMA ConfigDef ==
  ASSUME NEW s \in Seq(Configs)
  PROVE  \E c \in [0 .. Len(s) -> Configs] :
            /\ c[0] = Default /\ config(s) = c[Len(s)]
            /\ \A k \in 1 .. Len(s) : c[k] = Configure(c[k - 1], s[k])
<1> DEFINE n == Len(s)
           Is(f) == f = [k \in 0 .. n |-> IF k = 0 THEN Default ELSE Configure(f[k - 1], s[k])]
           g == [k \in 1 .. n |-> [v \in Configs |-> Configure(v, s[k])]]
           c == CHOOSE f : Is(f)
<1>1. n \in Nat /\ \A k \in 1 .. n : s[k] \in Configs
  BY LenProperties, ElementOfSeq
<1>2. PICK f \in [0 .. n -> Configs] : Walks(f, n, Default, g)
  <2>1. Steps(n, Configs, g)
    BY <1>1, ConfigureType DEF Steps
  <2> HIDE DEF g, n
  <2>2. QED
    BY <1>1, <2>1, DefaultType, Walk, Zenon
<1>3. ASSUME NEW k \in 0 .. n
      PROVE  f[k] = IF k = 0 THEN Default ELSE Configure(f[k - 1], s[k])
  <2>1. CASE k = 0
    BY <1>2, <2>1 DEF Walks
  <2>2. CASE k # 0
    <3>1. k \in 1 .. n /\ f[k - 1] \in Configs
      BY <1>1, <2>2
    <3>2. f[k] = g[k][f[k - 1]]
      BY <1>2, <3>1 DEF Walks
    <3>3. QED
      BY <2>2, <3>1, <3>2
  <2>3. QED
    BY <2>1, <2>2
<1>4. Is(f)
  <2> HIDE DEF n
  <2>1. QED
    BY <1>1, <1>3
<1>5. Is(c)
  <2> HIDE DEF Is
  <2>1. QED
    BY <1>4
<1>6. config(s) = c[n]
  BY DEF config
<1> DEFINE T == {k \in 0 .. n : c[k] \in Configs}
<1> HIDE DEF c, n
<1>7. c[0] = Default /\ \A k \in 1 .. n : c[k] = Configure(c[k - 1], s[k])
  BY <1>1, <1>5
<1>8. \A k \in 0 .. n : k \in T
  <2>1. 0 \in T
    BY <1>1, <1>7, DefaultType
  <2>2. ASSUME NEW k \in 1 .. n, k - 1 \in T PROVE k \in T
    <3>1. c[k - 1] \in Configs /\ s[k] \in Configs
      BY <1>1, <2>2
    <3>2. Configure(c[k - 1], s[k]) \in Configs
      BY <3>1, ConfigureType
    <3>3. QED
      BY <1>1, <1>7, <3>2
  <2> HIDE DEF T
  <2>3. QED
    BY <1>1, <2>1, <2>2, Induction
<1>9. c \in [0 .. n -> Configs]
  BY <1>5, <1>8
<1>10. QED
  BY <1>6, <1>7, <1>9 DEF n

\* The last setting of some types among the first k children
LastUpTo(k, types) ==
    LET places == {j \in 1 .. k : children[j].type \in types}
    IN  IF places = {} THEN Default
        ELSE children[CHOOSE j \in places : \A i \in places : i <= j]

\* One more child is the last one, if it is of these types.
LEMMA LastUpToStep ==
  ASSUME NEW k \in Nat \ {0}, NEW types
  PROVE  LastUpTo(k, types) = IF children[k].type \in types THEN children[k]
                              ELSE LastUpTo(k - 1, types)
<1> DEFINE P(i) == {j \in 1 .. i : children[j].type \in types}
<1>1. CASE children[k].type \in types
  <2>1. k \in P(k) /\ \A i \in P(k) : i <= k
    BY <1>1
  <2>2. ASSUME NEW j \in P(k), \A i \in P(k) : i <= j PROVE j = k
    BY <2>1, <2>2
  <2> DEFINE Top(j) == \A i \in P(k) : i <= j
             x == CHOOSE j \in P(k) : Top(j)
  <2>3. x = k
    <3> HIDE DEF P
    <3>1. \E j \in P(k) : Top(j)
      BY <2>1
    <3>2. x \in P(k) /\ Top(x)
      BY <3>1
    <3>3. QED
      BY <2>2, <3>2
  <2>4. LastUpTo(k, types) = children[x]
    <3>1. P(k) # {}
      BY <2>1
    <3>2. LastUpTo(k, types) = IF P(k) = {} THEN Default ELSE children[x]
      BY DEF LastUpTo
    <3> HIDE DEF P
    <3>3. QED
      BY <3>1, <3>2
  <2> HIDE DEF x
  <2>5. QED
    BY <1>1, <2>3, <2>4
<1>2. CASE children[k].type \notin types
  <2>1. P(k) = P(k - 1)
    <3>1. \A j : j \in 1 .. k <=> j \in 1 .. k - 1 \/ j = k
      OBVIOUS
    <3>2. QED
      BY <1>2, <3>1
  <2>2. \A i : LastUpTo(i, types) =
           IF P(i) = {} THEN Default ELSE children[CHOOSE j \in P(i) : \A h \in P(i) : h <= j]
    BY DEF LastUpTo
  <2> HIDE DEF P
  <2>3. LastUpTo(k, types) = LastUpTo(k - 1, types)
    BY <2>1, <2>2, Zenon
  <2>4. QED
    BY <1>2, <2>3
<1>3. QED
  BY <1>1, <1>2

\* The configuration after the first k children
Configured(k) ==
    [type |-> "CONFIG",
     dir |-> LastUpTo(k, {"CONFIG", "LOG_PATH"}).dir,
     filename |-> LastUpTo(k, {"CONFIG", "LOG_PATH"}).filename,
     extension |-> LastUpTo(k, {"CONFIG", "LOG_PATH"}).extension,
     size |-> LastUpTo(k, {"CONFIG", "MAX_FILE_SIZE"}).size,
     levels |-> LastUpTo(k, {"CONFIG", "LOG_FILTER"}).levels,
     rolling |-> LastUpTo(k, {"CONFIG", "ROLLING"}).rolling,
     align |-> LastUpTo(k, {"MSG_ALIGN"}).align]

\* After each child every field is that of the last child that sets it: config() is
\* what SettingsCommute says of it.
LEMMA SettingsLast ==
  ASSUME children \in Seq(Configs)
  PROVE  SettingsCommute
<1> DEFINE n == Len(children)
<1>1. n \in Nat /\ DOMAIN children = 1 .. n /\ \A k \in 1 .. n : children[k] \in Configs
  BY LenProperties, ElementOfSeq
<1>2. PICK c \in [0 .. n -> Configs] :
            /\ c[0] = Default /\ config(children) = c[n]
            /\ \A k \in 1 .. n : c[k] = Configure(c[k - 1], children[k])
  BY ConfigDef
<1> HIDE DEF n
<1> DEFINE T == {k \in 0 .. n : c[k] = Configured(k)}
<1>3. 0 \in T
  <2>1. \A types : LastUpTo(0, types) = Default
    <3>1. \A types : {j \in 1 .. 0 : children[j].type \in types} = {}
      OBVIOUS
    <3>2. QED
      BY <3>1 DEF LastUpTo
  <2>2. Configured(0) = Default
    <3>1. Configured(0) =
             [type |-> "CONFIG", dir |-> Default.dir, filename |-> Default.filename,
              extension |-> Default.extension, size |-> Default.size,
              levels |-> Default.levels, rolling |-> Default.rolling,
              align |-> Default.align]
      BY <2>1 DEF Configured
    <3>2. QED
      BY <3>1 DEF Default
  <2>3. QED
    BY <1>1, <1>2, <2>2
<1>4. ASSUME NEW k \in 1 .. n, k - 1 \in T PROVE k \in T
  <2> DEFINE l == children[k]
             old == c[k - 1]
  <2>1. l \in Configs /\ old \in Configs /\ k \in Nat \ {0}
    BY <1>1
  <2>2. c[k] = Configure(old, l) /\ old = Configured(k - 1)
    BY <1>2, <1>4
  <2>3. \A types : LastUpTo(k, types) = IF l.type \in types THEN l ELSE LastUpTo(k - 1, types)
    BY <2>1, LastUpToStep
  <2> HIDE DEF l, old
  <2>4. l.type \in {"CONFIG", "LOG_PATH", "LOG_FILTER", "MAX_FILE_SIZE", "ROLLING", "MSG_ALIGN"}
    BY <2>1 DEF Configs
  <2>5. Configure(old, l) = Configured(k)
    <3>1. CASE l.type = "CONFIG"
      BY <2>1, <2>2, <2>3, <3>1 DEF Configs, Configure, Configured
    <3>2. CASE l.type = "LOG_PATH"
      BY <2>1, <2>2, <2>3, <3>2 DEF Configs, Configure, Configured
    <3>3. CASE l.type = "LOG_FILTER"
      BY <2>1, <2>2, <2>3, <3>3 DEF Configs, Configure, Configured
    <3>4. CASE l.type = "MAX_FILE_SIZE"
      BY <2>1, <2>2, <2>3, <3>4 DEF Configs, Configure, Configured
    <3>5. CASE l.type = "ROLLING"
      BY <2>1, <2>2, <2>3, <3>5 DEF Configs, Configure, Configured
    <3>6. CASE l.type = "MSG_ALIGN"
      BY <2>1, <2>2, <2>3, <3>6 DEF Configs, Configure, Configured
    <3>7. QED
      BY <2>4, <3>1, <3>2, <3>3, <3>4, <3>5, <3>6
  <2>6. QED
    BY <2>2, <2>5
<1>5. c[n] = Configured(n)
  <2> HIDE DEF T
  <2>1. \A k \in 0 .. n : k \in T
    BY <1>1, <1>3, <1>4, Induction
  <2>2. QED
    BY <1>1, <2>1 DEF T
<1>6. \A types : LastUpTo(n, types) = LastSetting(types)
  BY <1>1 DEF LastUpTo, LastSetting
<1>7. QED
  BY <1>2, <1>5, <1>6 DEF SettingsCommute, Configured

-----------------------------------------------------------------------------
(* The calendar: years and months of an era of 400 years, from March on    *)

\* What division leaves
LEMMA Divided ==
  ASSUME NEW n \in Nat, NEW a \in Nat \ {0}
  PROVE  n \div a \in Nat /\ n % a \in Nat /\ n % a < a /\ n = a * (n \div a) + (n % a)
  BY SMT

\* What a product and a rest leave
LEMMA DividedBy ==
  ASSUME NEW a \in Nat \ {0}, NEW z \in Nat, NEW e \in Nat, e < a
  PROVE  (a * z + e) \div a = z /\ (a * z + e) % a = e
  BY SMT

\* Eras of 400 years, and years of an era, begin in March. The year that begins in
\* March of y ends with a leap day in February of y + 1.
Long(y) == (y + 1) % 4 = 0 /\ ((y + 1) % 100 # 0 \/ (y + 1) % 400 = 0)
Start(y) == 365 * y + (y \div 4) - (y \div 100)
In(doe, y) == /\ y \in Nat /\ y <= 399 /\ Start(y) <= doe
              /\ doe - Start(y) <= IF Long(y) THEN 365 ELSE 364
Yoe(doe) == (doe - (doe \div 1460) + (doe \div 36524) - (doe \div 146096)) \div 365

\* The year that calDate computes from the day of the era is the year of that day.
LEMMA YearOfEra ==
  ASSUME NEW doe \in Nat, doe <= 146096
  PROVE  In(doe, Yoe(doe))
<1>1. PICK b \in 0 .. 3, r \in Nat : r <= 36524 /\
         /\ doe = 36524 * b + r /\ (r = 36524 => b = 3)
         /\ (doe \div 36524) - (doe \div 146096) = b
  <2>1. CASE doe = 146096
    <3>1. doe = 36524 * 3 + 36524 /\ (doe \div 36524) - (doe \div 146096) = 3
      BY <2>1
    <3>2. QED
      BY <3>1
  <2>2. CASE doe < 146096
    <3>1. doe \div 146096 = 0 /\ doe \div 36524 \in 0 .. 3
          /\ doe - 36524 * (doe \div 36524) \in Nat
          /\ doe - 36524 * (doe \div 36524) <= 36523
      BY <2>2
    <3> DEFINE b == doe \div 36524
               r == doe - 36524 * b
    <3>2. doe = 36524 * b + r
      BY <3>1
    <3> HIDE DEF b
    <3>3. QED
      BY <3>1, <3>2 DEF b
  <2>3. QED
    BY <2>1, <2>2
<1>2. PICK q \in Nat, s \in Nat :
         q <= 24 /\ s <= 1460 /\ r = 1461 * q + s /\ (q = 24 => s <= 1459 \/ b = 3)
  <2> DEFINE x == r \div 1461
             z == r % 1461
  <2>1. x \in Nat /\ z \in Nat /\ z < 1461 /\ r = 1461 * x + z
    <3>1. 1461 \in Nat \ {0}
      OBVIOUS
    <3>2. QED
      BY <3>1, Divided
  <2> HIDE DEF x, z
  <2>2. x <= 24 /\ (x = 24 => z <= 1459 \/ b = 3)
    BY <1>1, <2>1
  <2>3. QED
    BY <2>1, <2>2
<1>3. PICK j \in Nat, t \in Nat : j <= 3 /\ t <= 365 /\ s = 365 * j + t /\ (t = 365 => j = 3)
  <2>1. CASE s = 1460
    <3>1. 3 \in Nat /\ 365 \in Nat /\ s = 365 * 3 + 365
      BY <2>1
    <3>2. QED
      BY <3>1
  <2>2. CASE s < 1460
    <3> DEFINE x == s \div 365
               z == s % 365
    <3>1. x \in Nat /\ z \in Nat /\ z < 365 /\ s = 365 * x + z
      <4>1. 365 \in Nat \ {0}
        OBVIOUS
      <4>2. QED
        BY <4>1, Divided
    <3> HIDE DEF x, z
    <3>2. x <= 3 /\ z <= 365 /\ z # 365
      BY <2>2, <3>1
    <3>3. QED
      BY <3>1, <3>2
  <2>3. QED
    BY <1>2, <2>1, <2>2
<1> DEFINE y == 100 * b + 4 * q + j
<1>4. PICK e \in 0 .. 1 : /\ doe \div 1460 = 25 * b + q + e
                          /\ e = 1 <=> 24 * b + q + s >= 1460
  <2> DEFINE e == IF 24 * b + q + s >= 1460 THEN 1 ELSE 0
             x == 25 * b + q + e
             z == 24 * b + q + s - 1460 * e
  <2>1. e \in 0 .. 1 /\ (e = 1 <=> 24 * b + q + s >= 1460)
    OBVIOUS
  <2>2. x \in Nat /\ z \in Nat /\ z < 1460
    BY <1>2
  <2>3. doe = 1460 * x + z
    BY <1>1, <1>2
  <2>4. 1460 \in Nat \ {0}
    OBVIOUS
  <2> HIDE DEF x, z, e
  <2>5. doe \div 1460 = x
    BY <2>2, <2>3, <2>4, DividedBy
  <2>6. QED
    BY <2>1, <2>5 DEF x
<1>5. y \in Nat /\ y <= 399
  BY <1>2, <1>3
<1>6. Yoe(doe) = y
  <2> DEFINE u == doe - (doe \div 1460) + (doe \div 36524) - (doe \div 146096)
             z == t - e
  <2>1. u = 365 * y + z
    BY <1>1, <1>2, <1>3, <1>4
  <2>2. z \in Nat /\ z < 365
    BY <1>1, <1>2, <1>3, <1>4
  <2>3. Yoe(doe) = u \div 365
    BY DEF Yoe
  <2>4. 365 \in Nat \ {0}
    OBVIOUS
  <2> HIDE DEF u, y, z
  <2>5. u \div 365 = y
    BY <1>5, <2>1, <2>2, <2>4, DividedBy
  <2>6. QED
    BY <2>3, <2>5
<1>7. y \div 4 = 25 * b + q /\ y % 4 = j
  <2> DEFINE x == 25 * b + q
  <2>1. x \in Nat /\ y = 4 * x + j /\ j < 4 /\ 4 \in Nat \ {0}
    BY <1>3
  <2> HIDE DEF x, y
  <2>2. y \div 4 = x /\ y % 4 = j
    BY <2>1, DividedBy
  <2>3. QED
    BY <2>2 DEF x
<1>8. y \div 100 = b /\ y % 100 = 4 * q + j
  <2> DEFINE z == 4 * q + j
  <2>1. z \in Nat /\ y = 100 * b + z /\ z < 100 /\ 100 \in Nat \ {0}
    BY <1>2, <1>3
  <2> HIDE DEF z, y
  <2>2. y \div 100 = b /\ y % 100 = z
    BY <2>1, DividedBy
  <2>3. QED
    BY <2>2 DEF z
<1>9. doe - Start(y) = t
  BY <1>1, <1>2, <1>3, <1>7, <1>8 DEF Start
<1>10. t = 365 => Long(y)
  <2>1. SUFFICES ASSUME t = 365 PROVE Long(y)
    OBVIOUS
  <2>2. j = 3 /\ s = 1460
    BY <1>3, <2>1
  <2>3. CASE q < 24
    <3> DEFINE x == 25 * b + q + 1
               z == 4 * q + 4
    <3>1. x \in Nat /\ y + 1 = 4 * x + 0 /\ 4 \in Nat \ {0}
      BY <2>2
    <3>2. z \in Nat /\ y + 1 = 100 * b + z /\ z < 100 /\ z # 0 /\ 100 \in Nat \ {0}
      BY <2>2, <2>3
    <3> HIDE DEF x, y, z
    <3>3. (y + 1) % 4 = 0
      BY <3>1, DividedBy
    <3>4. (y + 1) % 100 = z
      BY <3>2, DividedBy
    <3>5. QED
      BY <3>2, <3>3, <3>4 DEF Long
  <2>4. CASE q = 24
    <3>1. y + 1 = 400
      BY <1>2, <2>2, <2>4
    <3> HIDE DEF y
    <3>2. QED
      BY <3>1 DEF Long
  <2>5. QED
    BY <1>2, <2>3, <2>4
<1> HIDE DEF y
<1>11. Start(y) \in Int
  BY <1>5 DEF Start
<1>12. Start(y) <= doe /\ doe - Start(y) <= IF Long(y) THEN 365 ELSE 364
  BY <1>3, <1>9, <1>10, <1>11
<1>13. QED
  BY <1>5, <1>6, <1>12 DEF In

\* Of a year, the next one
LEMMA NextStart ==
  ASSUME NEW y \in Nat, y <= 398
  PROVE  Start(y + 1) = Start(y) + IF Long(y) THEN 366 ELSE 365
<1>1. (y + 1) \div 4 = (y \div 4) + IF (y + 1) % 4 = 0 THEN 1 ELSE 0
  OBVIOUS
<1>2. (y + 1) \div 100 = (y \div 100) + IF (y + 1) % 100 = 0 THEN 1 ELSE 0
  OBVIOUS
<1>3. (y + 1) % 400 # 0 /\ ((y + 1) % 100 = 0 => (y + 1) % 4 = 0)
  OBVIOUS
<1>4. y \div 4 \in Int /\ y \div 100 \in Int
  OBVIOUS
<1>5. QED
  BY <1>1, <1>2, <1>3, <1>4 DEF Start, Long

\* The year of a day is unique.
LEMMA YearUnique ==
  ASSUME NEW doe \in Int, NEW x \in Int, NEW y \in Int, In(doe, x), In(doe, y)
  PROVE  x = y
<1>1. ASSUME NEW a \in Nat, NEW c \in Nat, a < c, In(doe, a), In(doe, c)
      PROVE  FALSE
  <2>1. Start(c) >= Start(a + 1)
    BY <1>1 DEF Start
  <2>2. Start(a + 1) = Start(a) + IF Long(a) THEN 366 ELSE 365
    BY <1>1, NextStart DEF In
  <2>3. Start(a) \in Int /\ Start(c) \in Int
    BY DEF Start
  <2>4. QED
    BY <1>1, <2>1, <2>2, <2>3 DEF In
<1>2. x \in Nat /\ y \in Nat
  BY DEF In
<1>3. QED
  BY <1>1, <1>2

\* Months of such a year, from March on, and the date of the day k of month mp of
\* year y of an era
MonthStart(mp) == (153 * mp + 2) \div 5
MonthLength(mp, y) == IF mp = 11 THEN IF Long(y) THEN 29 ELSE 28
                      ELSE MonthStart(mp + 1) - MonthStart(mp)
DateOf(era, y, mp, k) ==
    [y |-> y + era * 400 + (IF mp >= 10 THEN 1 ELSE 0),
     m |-> mp + (IF mp < 10 THEN 3 ELSE -9), d |-> k + 1]
Day(day, era, y, mp, k) ==
    /\ day \in Nat /\ era \in Nat /\ y \in Nat /\ y <= 399 /\ mp \in 0 .. 11 /\ k \in Nat
    /\ k < MonthLength(mp, y)
    /\ day + 719468 = 146097 * era + Start(y) + MonthStart(mp) + k

\* The first days of the months
LEMMA MonthStarts ==
  /\ MonthStart(0) = 0 /\ MonthStart(1) = 31 /\ MonthStart(2) = 61 /\ MonthStart(3) = 92
  /\ MonthStart(4) = 122 /\ MonthStart(5) = 153 /\ MonthStart(6) = 184
  /\ MonthStart(7) = 214 /\ MonthStart(8) = 245 /\ MonthStart(9) = 275
  /\ MonthStart(10) = 306 /\ MonthStart(11) = 337
  BY DEF MonthStart

\* The month of a day of the year
LEMMA MonthOf ==
  ASSUME NEW doy \in Nat, doy <= 365
  PROVE  LET mp == (5 * doy + 2) \div 153
         IN  /\ mp \in 0 .. 11 /\ MonthStart(mp) <= doy
             /\ mp < 11 => doy < MonthStart(mp + 1)
<1> DEFINE n == 5 * doy + 2
           mp == n \div 153
           e == n % 153
<1>1. mp \in Nat /\ e \in Nat /\ e < 153 /\ n = 153 * mp + e
  <2>1. n \in Nat /\ 153 \in Nat \ {0}
    OBVIOUS
  <2> HIDE DEF n
  <2>2. QED
    BY <2>1, Divided
<1> HIDE DEF mp, e
<1>2. mp <= 11
  BY <1>1
<1>3. ASSUME NEW i \in Nat
      PROVE  \E f \in Nat : f <= 4 /\ MonthStart(i) \in Nat /\ 5 * MonthStart(i) = 153 * i + 2 - f
  <2> DEFINE a == 153 * i + 2
  <2>1. a \in Nat /\ 5 \in Nat \ {0}
    OBVIOUS
  <2> HIDE DEF a
  <2>2. a \div 5 \in Nat /\ a % 5 \in Nat /\ a % 5 < 5 /\ a = 5 * (a \div 5) + (a % 5)
    BY <2>1, Divided
  <2>3. MonthStart(i) = a \div 5
    BY DEF MonthStart, a
  <2>4. a % 5 <= 4 /\ 5 * MonthStart(i) = a - (a % 5)
    BY <2>2, <2>3
  <2>5. QED
    BY <2>2, <2>3, <2>4 DEF a
<1>4. MonthStart(mp) <= doy
  BY <1>1, <1>3
<1>5. doy < MonthStart(mp + 1)
  <2>1. mp + 1 \in Nat
    BY <1>1
  <2>2. QED
    BY <1>1, <1>3, <2>1
<1>6. mp \in 0 .. 11
  BY <1>1, <1>2
<1>7. QED
  BY <1>4, <1>5, <1>6 DEF mp

\* The lengths of the months
LEMMA MonthLengths ==
  ASSUME NEW mp \in 0 .. 11, NEW y
  PROVE  MonthLength(mp, y) = IF mp = 11 THEN IF Long(y) THEN 29 ELSE 28
                              ELSE IF mp \in {1, 3, 6, 8} THEN 30 ELSE 31
<1>1. mp < 11 => mp \in {0, 1, 2, 3, 4, 5, 6, 7, 8, 9, 10}
  OBVIOUS
<1>2. QED
  BY <1>1, MonthStarts DEF MonthLength

\* calDate, and the leap years
LEMMA StartRange ==
  ASSUME NEW y \in Nat, y <= 399
  PROVE  Start(y) \in Nat /\ Start(y) <= 145731 /\ (y < 399 => Start(y) <= 145366)
         /\ Start(0) = 0 /\ Start(399) = 145731 /\ Long(399)
<1>1. Start(y) \in Int /\ Start(y) >= 0 /\ Start(y) <= 145731
  BY DEF Start
<1>2. y < 399 => Start(y) <= 145366
  BY DEF Start
<1>3. Start(0) = 0 /\ Start(399) = 145731
  BY DEF Start
<1>4. Long(399)
  BY DEF Long
<1>5. QED
  BY <1>1, <1>2, <1>3, <1>4

\* Such a year is long when the February at its end is that of a leap year.
LEMMA LongIsLeap ==
  ASSUME NEW y \in Nat, NEW era \in Nat, NEW x, x = y + era * 400 + 1
  PROVE  Long(y) <=> Leap(x)
<1>1. x % 4 = (y + 1) % 4
  OBVIOUS
<1>2. x % 100 = (y + 1) % 100
  OBVIOUS
<1>3. x % 400 = (y + 1) % 400
  OBVIOUS
<1>4. QED
  BY <1>1, <1>2, <1>3 DEF Long, Leap

\* calDate says the date of a day.
LEMMA DateIs ==
  ASSUME NEW day, NEW era, NEW y, NEW mp, NEW k, Day(day, era, y, mp, k)
  PROVE  calDate(day) = DateOf(era, y, mp, k)
<1> DEFINE z == day + 719468
           doy == MonthStart(mp) + k
           doe == Start(y) + doy
<1> USE DEF Day
<1>1. k <= 30 /\ MonthStart(mp) \in Nat /\ MonthStart(mp) <= 337
      /\ (mp = 11 /\ ~Long(y) => k <= 27) /\ (mp = 11 => k <= 28)
      /\ (mp < 11 => doy < MonthStart(mp + 1) /\ MonthStart(mp + 1) <= 337)
  <2>1. mp \in {0, 1, 2, 3, 4, 5, 6, 7, 8, 9, 10, 11}
    OBVIOUS
  <2>2. k < IF mp = 11 THEN IF Long(y) THEN 29 ELSE 28
            ELSE IF mp \in {1, 3, 6, 8} THEN 30 ELSE 31
    BY MonthLengths
  <2> HIDE DEF Day
  <2>3. mp < 11 => doy < MonthStart(mp + 1) /\ MonthStart(mp + 1) <= 337
    BY <2>1, <2>2, MonthStarts DEF Day
  <2>4. QED
    BY <2>1, <2>2, <2>3, MonthStarts DEF Day
<1>2. doy \in Nat /\ doy <= IF Long(y) THEN 365 ELSE 364
  <2>1. k \in Nat /\ mp \in 0 .. 11 /\ doy \in Nat /\ (mp < 11 \/ mp = 11)
    BY <1>1
  <2>2. CASE mp < 11
    <3>1. doy < MonthStart(mp + 1) /\ MonthStart(mp + 1) <= 337
      BY <1>1, <2>2
    <3>2. MonthStart(mp + 1) \in Int
      BY <2>1 DEF MonthStart
    <3> HIDE DEF doy, Day
    <3>3. QED
      BY <2>1, <3>1, <3>2
  <2>3. CASE mp = 11
    <3> HIDE DEF Day
    <3>1. MonthStart(mp) = 337 /\ k <= IF Long(y) THEN 28 ELSE 27
      BY <1>1, <2>1, <2>3, MonthStarts
    <3>2. QED
      BY <2>1, <3>1
  <2>4. QED
    BY <2>1, <2>2, <2>3
<1>3. Start(y) \in Nat /\ Start(y) <= 145731 /\ (y < 399 => Start(y) <= 145366)
  BY StartRange
<1>4. doe \in Nat /\ doe <= 146096 /\ doe - Start(y) = doy
  BY <1>2, <1>3
<1>5. In(doe, y)
  BY <1>2, <1>3, <1>4 DEF In
<1>6. z \div 146097 = era /\ z - era * 146097 = doe
  <2>1. z = 146097 * era + doe /\ doe < 146097 /\ 146097 \in Nat \ {0}
    BY <1>1, <1>3, <1>4
  <2>2. era \in Nat /\ doe \in Nat
    BY <1>4
  <2> HIDE DEF z, doe, Day
  <2>3. z \div 146097 = era
    BY <2>1, <2>2, DividedBy
  <2>4. QED
    BY <2>1, <2>2, <2>3
<1>7. Yoe(doe) = y
  <2>1. In(doe, Yoe(doe)) /\ Yoe(doe) \in Int /\ y \in Int
    BY <1>4, YearOfEra DEF In
  <2> HIDE DEF doe, Day
  <2>2. QED
    BY <1>4, <1>5, <2>1, YearUnique
<1>8. doe - (365 * y + (y \div 4) - (y \div 100)) = doy
  BY <1>4 DEF Start
<1> DEFINE np == (5 * doy + 2) \div 153
<1>9. np = mp
  <2>1. doy <= 365
    BY <1>2
  <2> HIDE DEF doy, Day
  <2>2. np \in 0 .. 11 /\ MonthStart(np) <= doy /\ (np < 11 => doy < MonthStart(np + 1))
    BY <1>2, <2>1, MonthOf
  <2> HIDE DEF np
  <2>3. MonthStart(mp) <= doy
    BY <1>1 DEF doy, Day
  <2>4. \A i \in 0 .. 11, j \in 0 .. 11 : i < j => MonthStart(i + 1) <= MonthStart(j)
    BY DEF MonthStart
  <2>5. mp \in 0 .. 11 /\ (mp < 11 => doy < MonthStart(mp + 1))
    BY <1>1 DEF Day
  <2>6. ASSUME NEW i \in 0 .. 11, NEW j \in 0 .. 11, i < j,
               doy < MonthStart(i + 1), MonthStart(j) <= doy
        PROVE  FALSE
    <3>1. MonthStart(i + 1) <= MonthStart(j)
      BY <2>4, <2>6
    <3>2. MonthStart(i + 1) \in Int /\ MonthStart(j) \in Int /\ doy \in Int
      BY <1>2 DEF MonthStart
    <3>3. QED
      BY <2>6, <3>1, <3>2
  <2>7. ~(np < mp) /\ ~(mp < np)
    BY <2>2, <2>3, <2>5, <2>6
  <2>8. QED
    BY <2>2, <2>5, <2>7
<1>10. doy - ((153 * mp + 2) \div 5) + 1 = k + 1
  <2>1. MonthStart(mp) = (153 * mp + 2) \div 5
    BY DEF MonthStart
  <2> DEFINE x == (153 * mp + 2) \div 5
  <2> HIDE DEF x
  <2>2. QED
    BY <1>1, <2>1 DEF x
<1>11. calDate(day) =
          LET m == np + (IF np < 10 THEN 3 ELSE -9)
          IN  [y |-> y + era * 400 + (IF m <= 2 THEN 1 ELSE 0), m |-> m,
               d |-> k + 1]
  <2> DEFINE E == z \div 146097
             O == z - E * 146097
             Y == Yoe(O)
             D == O - (365 * Y + Y \div 4 - Y \div 100)
             N == (5 * D + 2) \div 153
             Date(n) == LET m == n + (IF n < 10 THEN 3 ELSE -9)
                        IN  [y |-> Y + E * 400 + (IF m <= 2 THEN 1 ELSE 0), m |-> m,
                             d |-> D - (153 * n + 2) \div 5 + 1]
  <2>1. calDate(day) = Date(N)
    BY SMTT(60) DEF calDate, Yoe
  <2>2. E = era /\ O = doe
    BY <1>6
  <2> HIDE DEF Day, doe, doy, z, E, O
  <2>3. Y = y
    BY <1>7, <2>2
  <2> HIDE DEF Y
  <2>4. D = doy
    BY <1>8, <2>2, <2>3
  <2> HIDE DEF D
  <2>5. N = np
    BY <2>4
  <2> HIDE DEF N
  <2>6. QED
    BY <1>9, <1>10, <2>1, <2>2, <2>3, <2>4, <2>5
<1>12. (np + (IF np < 10 THEN 3 ELSE -9) <= 2) <=> np >= 10
  BY <1>9
<1> HIDE DEF np
<1>13. QED
  BY <1>9, <1>11, <1>12 DEF DateOf

\* Every day is in a year and a month of an era.
LEMMA DayIs ==
  ASSUME NEW day \in Nat
  PROVE  \E era, y, mp, k : Day(day, era, y, mp, k)
<1> DEFINE z == day + 719468
           era == z \div 146097
           doe == z % 146097
           y == Yoe(doe)
           doy == doe - Start(y)
           mp == (5 * doy + 2) \div 153
           k == doy - MonthStart(mp)
<1>1. era \in Nat /\ doe \in Nat /\ doe <= 146096 /\ z = 146097 * era + doe
  <2>1. z \in Nat /\ 146097 \in Nat \ {0}
    OBVIOUS
  <2> HIDE DEF z
  <2>2. era \in Nat /\ doe \in Nat /\ doe < 146097 /\ z = 146097 * era + doe
    BY <2>1, Divided
  <2> HIDE DEF era, doe
  <2>3. QED
    BY <2>2
<1> HIDE DEF era, doe
<1>2. In(doe, y)
  BY <1>1, YearOfEra
<1> HIDE DEF y
<1>3. y \in Nat /\ y <= 399 /\ Start(y) \in Nat /\ doy \in Nat
      /\ doy <= IF Long(y) THEN 365 ELSE 364
  <2>1. y \in Nat /\ y <= 399
    BY <1>2 DEF In
  <2>2. Start(y) \in Nat
    BY <2>1, StartRange
  <2>3. QED
    BY <1>1, <1>2, <2>1, <2>2 DEF In
<1>4. z = 146097 * era + Start(y) + doy
  BY <1>1, <1>3
<1> HIDE DEF doy
<1>5. mp \in 0 .. 11 /\ MonthStart(mp) <= doy /\ (mp < 11 => doy < MonthStart(mp + 1))
  <2>1. doy <= 365
    BY <1>3
  <2>2. QED
    BY <1>3, <2>1, MonthOf
<1> HIDE DEF mp
<1>6. MonthStart(mp) \in Nat /\ MonthStart(mp + 1) \in Nat /\ (mp = 11 => MonthStart(mp) = 337)
  BY <1>5 DEF MonthStart
<1>7. k \in Nat /\ k < MonthLength(mp, y) /\ doy = MonthStart(mp) + k
  BY <1>3, <1>5, <1>6 DEF MonthLength
<1>8. z = 146097 * era + Start(y) + MonthStart(mp) + k
  BY <1>1, <1>3, <1>4, <1>6, <1>7
<1> HIDE DEF k
<1>9. Day(day, era, y, mp, k)
  BY <1>1, <1>3, <1>5, <1>7, <1>8 DEF Day
<1>10. QED
  BY <1>9

\* The day after a day has the next date.
LEMMA NextDate ==
  ASSUME NEW day \in Nat
  PROVE  calDate(day + 1) = NextDay(calDate(day))
<1>1. PICK era, y, mp, k : Day(day, era, y, mp, k)
  BY DayIs
<1>2. /\ era \in Nat /\ y \in Nat /\ y <= 399 /\ mp \in 0 .. 11 /\ k \in Nat
      /\ k < MonthLength(mp, y) /\ day + 719468 = 146097 * era + Start(y) + MonthStart(mp) + k
  BY <1>1 DEF Day
<1> DEFINE t == DateOf(era, y, mp, k)
<1>3. calDate(day) = t
  BY <1>1, DateIs
<1>4. DaysOf(t.m, t.y) = MonthLength(mp, y)
  <2>1. t.m = mp + (IF mp < 10 THEN 3 ELSE -9)
        /\ t.y = y + era * 400 + (IF mp >= 10 THEN 1 ELSE 0)
    BY DEF DateOf
  <2>2. CASE mp = 11
    <3>1. t.m = 2 /\ t.y = y + era * 400 + 1
      BY <2>1, <2>2
    <3> HIDE DEF t
    <3>2. Leap(t.y) <=> Long(y)
      BY <1>2, <3>1, LongIsLeap
    <3>3. QED
      BY <2>2, <3>1, <3>2, MonthLengths DEF DaysOf
  <2>3. CASE mp # 11
    <3> HIDE DEF t
    <3>1. mp \in {0, 1, 2, 3, 4, 5, 6, 7, 8, 9, 10}
      BY <1>2, <2>3
    <3>2. t.m # 2 /\ (t.m \in {4, 6, 9, 11} <=> mp \in {1, 3, 6, 8})
      BY <2>1, <3>1
    <3>3. QED
      BY <1>2, <2>3, <3>2, MonthLengths DEF DaysOf
  <2>4. QED
    BY <2>2, <2>3
<1>5. t.d = k + 1 /\ t.m = mp + (IF mp < 10 THEN 3 ELSE -9)
      /\ t.y = y + era * 400 + (IF mp >= 10 THEN 1 ELSE 0)
  BY DEF DateOf
<1> DEFINE year == y + era * 400 + (IF mp >= 10 THEN 1 ELSE 0)
           month == mp + (IF mp < 10 THEN 3 ELSE -9)
<1>6. MonthLength(mp, y) \in 28 .. 31
  BY <1>2, MonthLengths
<1>7. MonthStart(mp) \in Nat /\ Start(y) \in Nat
  BY <1>2, StartRange DEF MonthStart
<1>8. CASE k + 1 < MonthLength(mp, y)
  <2>1. Day(day + 1, era, y, mp, k + 1)
    BY <1>2, <1>7, <1>8 DEF Day
  <2>2. calDate(day + 1) = DateOf(era, y, mp, k + 1)
    BY <2>1, DateIs
  <2>3. NextDay(t) = [t EXCEPT !.d = @ + 1]
    <3> HIDE DEF t
    <3> QED BY <1>4, <1>5, <1>8 DEF NextDay
  <2>4. [t EXCEPT !.d = @ + 1] = DateOf(era, y, mp, k + 1)
    BY DEF DateOf
  <2>5. QED
    BY <1>3, <2>2, <2>3, <2>4
<1>9. CASE k + 1 = MonthLength(mp, y)
  <2>1. CASE mp < 11
    <3>1. MonthStart(mp + 1) = MonthStart(mp) + k + 1 /\ mp + 1 \in 0 .. 11
      BY <1>2, <1>7, <1>9, <2>1 DEF MonthLength, MonthStart
    <3>2. 0 < MonthLength(mp + 1, y)
      BY <3>1, MonthLengths
    <3>3. Day(day + 1, era, y, mp + 1, 0)
      BY <1>2, <1>7, <3>1, <3>2 DEF Day
    <3>4. calDate(day + 1) = DateOf(era, y, mp + 1, 0)
      BY <3>3, DateIs
    <3>5. CASE mp = 9
      <4>1. NextDay(t) = [y |-> t.y + 1, m |-> 1, d |-> 1]
        <5> HIDE DEF t
        <5> QED BY <1>4, <1>5, <1>6, <1>9, <3>5 DEF NextDay
      <4>2. DateOf(era, y, mp + 1, 0) = [y |-> t.y + 1, m |-> 1, d |-> 1]
        BY <1>2, <3>5 DEF DateOf
      <4>3. QED
        BY <1>3, <3>4, <4>1, <4>2
    <3>6. CASE mp # 9
      <4>1. NextDay(t) = [y |-> year, m |-> month + 1, d |-> 1]
        <5>1. t.y = year /\ t.m = month
          BY <1>5
        <5> HIDE DEF t, year
        <5>2. QED
          BY <1>2, <1>4, <1>5, <1>6, <1>9, <2>1, <3>6, <5>1 DEF NextDay
      <4>2. DateOf(era, y, mp + 1, 0) = [y |-> year, m |-> month + 1, d |-> 1]
        <5> DEFINE a == y + era * 400 + (IF mp + 1 >= 10 THEN 1 ELSE 0)
                   b == mp + 1 + (IF mp + 1 < 10 THEN 3 ELSE -9)
        <5>1. a = year /\ b = month + 1 /\ 0 + 1 = 1
          BY <1>2, <2>1, <3>6
        <5>2. DateOf(era, y, mp + 1, 0) = [y |-> a, m |-> b, d |-> 0 + 1]
          BY DEF DateOf
        <5> HIDE DEF a, b, year, month
        <5>3. QED
          BY <5>1, <5>2
      <4>3. QED
        BY <1>3, <3>4, <4>1, <4>2
    <3>7. QED
      BY <3>5, <3>6
  <2>2. CASE mp = 11
    <3>1. MonthStart(11) = 337 /\ MonthStart(0) = 0
          /\ k = IF Long(y) THEN 28 ELSE 27
      BY <1>2, <1>9, <2>2, MonthStarts, MonthLengths
    <3>2. NextDay(t) = [y |-> year, m |-> month + 1, d |-> 1] /\ t.m = 2
      <4>1. t.y = year /\ t.m = month
        BY <1>5
      <4> HIDE DEF t, year
      <4>2. QED
        BY <1>2, <1>4, <1>5, <1>6, <1>9, <2>2, <4>1 DEF NextDay
    <3>3. \A x : 0 < MonthLength(0, x)
      BY MonthLengths
    <3>4. CASE y < 399
      <4>1. Start(y + 1) = Start(y) + MonthStart(mp) + k + 1
        BY <1>2, <1>7, <2>2, <3>1, <3>4, NextStart
      <4>2. Day(day + 1, era, y + 1, 0, 0)
        BY <1>2, <1>7, <3>1, <3>3, <3>4, <4>1 DEF Day
      <4>3. calDate(day + 1) = DateOf(era, y + 1, 0, 0)
        BY <4>2, DateIs
      <4>4. DateOf(era, y + 1, 0, 0) = [y |-> year, m |-> month + 1, d |-> 1]
        <5> DEFINE a == (y + 1) + (era) * 400 + 0
        <5>1. a = year /\ 0 + 3 = month + 1 /\ 0 + 1 = 1
          BY <1>2, <2>2
        <5>2. DateOf(era, y + 1, 0, 0) = [y |-> a, m |-> 0 + 3, d |-> 0 + 1]
          BY DEF DateOf
        <5> HIDE DEF a, year, month
        <5>3. QED
          BY <5>1, <5>2
      <4>5. QED
        BY <1>3, <3>2, <4>3, <4>4
    <3>5. CASE y = 399
      <4>1. k = 28 /\ Start(y) = 145731 /\ Start(0) = 0
        BY <1>2, <3>1, <3>5, StartRange
      <4>2. day + 1 + 719468 = 146097 * (era + 1)
        BY <1>2, <2>2, <3>1, <4>1
      <4>3. Day(day + 1, era + 1, 0, 0, 0)
        BY <1>2, <3>1, <3>3, <4>1, <4>2 DEF Day
      <4>4. calDate(day + 1) = DateOf(era + 1, 0, 0, 0)
        BY <4>3, DateIs
      <4>5. DateOf(era + 1, 0, 0, 0) = [y |-> year, m |-> month + 1, d |-> 1]
        <5> DEFINE a == 0 + (era + 1) * 400 + 0
        <5>1. a = year /\ 0 + 3 = month + 1 /\ 0 + 1 = 1
          BY <1>2, <2>2, <3>5
        <5>2. DateOf(era + 1, 0, 0, 0) = [y |-> a, m |-> 0 + 3, d |-> 0 + 1]
          BY DEF DateOf
        <5> HIDE DEF a, year, month
        <5>3. QED
          BY <5>1, <5>2
      <4>6. QED
        BY <1>3, <3>2, <4>4, <4>5
    <3>6. QED
      BY <1>2, <3>4, <3>5
  <2>3. QED
    BY <1>2, <2>1, <2>2
<1>10. QED
  BY <1>2, <1>6, <1>8, <1>9

\* n days later by the calendar is n days later for calDate.
LEMMA LaterDate ==
  ASSUME NEW day \in Nat, NEW n \in Nat
  PROVE  Later(calDate(day), n) = calDate(day + n)
<1> DEFINE t == calDate(day)
           Is(f) == f = [k \in 0 .. n |-> IF k = 0 THEN t ELSE NextDay(f[k - 1])]
           f == [k \in 0 .. n |-> calDate(day + k)]
           date == CHOOSE h : Is(h)
           T == {k \in 0 .. n : date[k] = calDate(day + k)}
<1>1. ASSUME NEW k \in 0 .. n PROVE f[k] = IF k = 0 THEN t ELSE NextDay(f[k - 1])
  <2>1. CASE k = 0
    <3>1. f[k] = calDate(day + k) /\ day + k = day
      BY <2>1
    <3> HIDE DEF f
    <3>2. QED
      BY <2>1, <3>1
  <2>2. CASE k # 0
    <3>1. f[k] = calDate(day + k) /\ f[k - 1] = calDate(day + (k - 1))
      BY <2>2
    <3>2. day + (k - 1) \in Nat /\ (day + (k - 1)) + 1 = day + k
      BY <2>2
    <3> HIDE DEF f
    <3>3. calDate(day + k) = NextDay(calDate(day + (k - 1)))
      BY <3>2, NextDate
    <3>4. QED
      BY <2>2, <3>1, <3>3
  <2>3. QED
    BY <2>1, <2>2
<1>2. Is(f)
  BY <1>1
<1>3. Is(date)
  <2> HIDE DEF Is, f
  <2>1. QED
    BY <1>2
<1>4. Later(t, n) = date[n]
  BY DEF Later
<1> HIDE DEF date
<1>5. 0 \in T
  <2>1. date[0] = t /\ day + 0 = day
    BY <1>3
  <2>2. QED
    BY <2>1
<1>6. ASSUME NEW k \in 1 .. n, k - 1 \in T PROVE k \in T
  <2>1. date[k - 1] = calDate(day + (k - 1)) /\ date[k] = NextDay(date[k - 1])
    BY <1>3, <1>6
  <2>2. day + (k - 1) \in Nat /\ (day + (k - 1)) + 1 = day + k
    OBVIOUS
  <2>3. calDate(day + k) = NextDay(calDate(day + (k - 1)))
    BY <2>2, NextDate
  <2>4. QED
    BY <2>1, <2>3
<1>7. n \in T
  <2> HIDE DEF T
  <2>1. QED
    BY <1>5, <1>6, Induction
<1>8. QED
  BY <1>4, <1>7

\* The dates from 1970-01-01 to the last one of the table of years
LEMMA DateRange ==
  ASSUME NEW day \in Nat, day <= LastDay
  PROVE  LET t == calDate(day)
         IN  /\ t = [y |-> t.y, m |-> t.m, d |-> t.d]
             /\ t.y \in Nat /\ t.y >= 1970 /\ t.y <= 2049
             /\ t.m \in Nat /\ t.m >= 1 /\ t.m <= 12 /\ t.d \in Nat /\ t.d >= 1 /\ t.d <= 31
<1>1. PICK era, y, mp, k : Day(day, era, y, mp, k)
  BY DayIs
<1>2. /\ era \in Nat /\ y \in Nat /\ y <= 399 /\ mp \in 0 .. 11 /\ k \in Nat
      /\ k < MonthLength(mp, y) /\ day + 719468 = 146097 * era + Start(y) + MonthStart(mp) + k
  BY <1>1 DEF Day
<1> DEFINE t == calDate(day)
           doe == Start(y) + MonthStart(mp) + k
<1>3. t = DateOf(era, y, mp, k)
  BY <1>1, DateIs
<1>4. /\ k <= 30 /\ MonthStart(mp) \in Nat /\ MonthStart(mp) <= 337
      /\ (mp < 10 => MonthStart(mp) + k < 306) /\ (mp >= 10 => MonthStart(mp) >= 306)
  <2>1. mp \in {0, 1, 2, 3, 4, 5, 6, 7, 8, 9, 10, 11}
    BY <1>2
  <2>2. k < IF mp = 11 THEN IF Long(y) THEN 29 ELSE 28
            ELSE IF mp \in {1, 3, 6, 8} THEN 30 ELSE 31
    BY <1>2, MonthLengths
  <2>3. QED
    BY <1>2, <2>1, <2>2, MonthStarts
<1>5. Start(y) \in Nat /\ Start(y) <= 145731
  BY <1>2, StartRange
<1>6. doe \in Nat /\ doe <= 146098 /\ day + 719468 = 146097 * era + doe
  BY <1>2, <1>4, <1>5
<1>7. day <= 29219
  BY DEF LastDay
<1> HIDE DEF doe, t
<1>8. era \in {4, 5}
  BY <1>2, <1>6, <1>7
<1> DEFINE year == y + era * 400 + (IF mp >= 10 THEN 1 ELSE 0)
<1>9. year >= 1970 /\ year <= 2049
  <2>1. CASE era = 4
    <3>1. doe >= 135080
      BY <1>6, <2>1
    <3>2. Start(y) >= 134713
      BY <1>2, <1>4, <1>5, <3>1 DEF doe
    <3>3. y >= 369
      BY <1>2, <3>2 DEF Start
    <3>4. y = 369 => mp >= 10
      <4>1. Start(369) = 134774
        BY DEF Start
      <4>2. QED
        BY <1>2, <1>4, <3>1, <4>1 DEF doe
    <3>5. QED
      BY <1>2, <2>1, <3>3, <3>4
  <2>2. CASE era = 5
    <3>1. doe <= 18202
      BY <1>6, <1>7, <2>2
    <3>2. Start(y) <= 18202
      BY <1>2, <1>4, <1>5, <3>1 DEF doe
    <3>3. y <= 49
      BY <1>2, <3>2 DEF Start
    <3>4. y = 49 => mp < 10
      <4>1. Start(49) = 17897
        BY DEF Start
      <4>2. QED
        BY <1>2, <1>4, <3>1, <4>1 DEF doe
    <3>5. QED
      BY <1>2, <2>2, <3>3, <3>4
  <2>3. QED
    BY <1>8, <2>1, <2>2
<1>10. year \in Nat
  BY <1>2
<1>11. t = [y |-> year, m |-> mp + (IF mp < 10 THEN 3 ELSE -9), d |-> k + 1]
  BY <1>3 DEF DateOf
<1> HIDE DEF year
<1>12. t.y = year /\ t.m = mp + (IF mp < 10 THEN 3 ELSE -9) /\ t.d = k + 1
  BY <1>11
<1>13. t.m \in Nat /\ t.m >= 1 /\ t.m <= 12 /\ t.d \in Nat /\ t.d >= 1 /\ t.d <= 31
  BY <1>2, <1>4, <1>12
<1>14. QED
  BY <1>9, <1>10, <1>11, <1>12, <1>13 DEF t

\* The epoch
LEMMA FirstDate == calDate(0) = [y |-> 1970, m |-> 1, d |-> 1]
<1>1. Start(369) = 134774 /\ MonthStart(10) = 306
  BY MonthStarts DEF Start
<1>2. 0 < MonthLength(10, 369)
  BY MonthLengths
<1>3. Day(0, 4, 369, 10, 0)
  BY <1>1, <1>2 DEF Day
<1>4. calDate(0) = DateOf(4, 369, 10, 0)
  BY <1>3, DateIs
<1>5. QED
  BY <1>4 DEF DateOf

-----------------------------------------------------------------------------
(* The tables of digits                                                    *)

\* Leading zeros add nothing.
LEMMA Zeros ==
  ASSUME NEW p \in Nat
  PROVE  LET s == [k \in 1 .. p |-> Zero]
         IN  s \in Seq(Char) /\ s \in Seq(Int) /\ Len(s) = p /\ ValueOf(s) = 0
<1> DEFINE D == Nat
           m == [i \in D |-> i]
           S(i) == [k \in 1 .. i |-> Zero]
           T == {i \in D : ValueOf(S(i)) = 0}
<1>1. m \in [D -> Nat]
  OBVIOUS
<1>2. \A i \in Nat : S(i) \in Seq(Char) /\ S(i) \in Seq(Int) /\ Len(S(i)) = i
  <2>1. Zero \in Char /\ Zero \in Int
    BY DEF Zero, Char
  <2> HIDE DEF Zero
  <2>2. QED
    BY <2>1, IsASeq
<1>3. ASSUME NEW i \in D, \A h \in D : m[h] < m[i] => h \in T PROVE i \in T
  <2>1. CASE i = 0
    <3>1. S(i) = <<>>
      BY <2>1, <1>2, EmptySeq
    <3>2. QED
      BY <2>1, <3>1, ValueOfEmpty
  <2>2. CASE i # 0
    <3>1. i - 1 \in T /\ i - 1 \in Nat
      BY <1>3, <2>2
    <3>2. S(i) = Append(S(i - 1), Zero)
      <4>1. /\ S(i - 1) \in Seq(Int) /\ Len(S(i - 1)) = i - 1 /\ S(i) \in Seq(Int)
            /\ Len(S(i)) = i /\ Zero \in Int
        BY <1>2, <3>1 DEF Zero
      <4>2. Append(S(i - 1), Zero) \in Seq(Int) /\ Len(Append(S(i - 1), Zero)) = i
            /\ \A k \in 1 .. i - 1 : Append(S(i - 1), Zero)[k] = S(i - 1)[k]
            /\ Append(S(i - 1), Zero)[i] = Zero
        <5> HIDE DEF S, Zero
        <5> QED BY <3>1, <4>1, AppendProperties
      <4>3. \A k \in 1 .. i : S(i)[k] = Zero /\ (k < i => S(i - 1)[k] = Zero)
        OBVIOUS
      <4> DEFINE a == S(i)
                 b == Append(S(i - 1), Zero)
      <4>4. \A k \in 1 .. i : a[k] = b[k]
        BY <4>2, <4>3
      <4>5. a \in Seq(Int) /\ b \in Seq(Int) /\ Len(a) = i /\ Len(b) = i
        BY <4>1, <4>2
      <4> HIDE DEF a, b
      <4>6. a = b
        BY <4>4, <4>5, SeqEqual
      <4>7. QED
        BY <4>6 DEF a, b
    <3>3. S(i - 1) \in Seq(Int) /\ ValueOf(S(i - 1)) = 0 /\ Zero \in Int
      BY <1>2, <3>1 DEF Zero
    <3> HIDE DEF S
    <3>4. ValueOf(S(i)) = 10 * 0 + (Zero - Zero)
      BY <3>2, <3>3, ValueOfAppend
    <3>5. QED
      BY <3>4 DEF Zero
  <2>3. QED
    BY <2>1, <2>2
<1>4. \A i \in D : i \in T
  <2> HIDE DEF T, m, D
  <2>1. QED
    BY <1>1, <1>3, Measured
<1>5. QED
  BY <1>2, <1>4

\* A number with leading zeros has p digits and says itself.
LEMMA LeadingZero ==
  ASSUME NEW i \in Nat, NEW p \in Nat \ {0}, i < Ten[p]
  PROVE  LET s == LeadingZeroNumeric(i, p)
         IN  s \in Seq(Char) /\ s \in Seq(Int) /\ Len(s) = p /\ ValueOf(s) = i
<1> DEFINE s == NumericMetaString[i]
           l == Len(s)
           z == [k \in 1 .. p - l |-> Zero]
<1>1. /\ s \in Seq(Char) /\ s \in Seq(Int) /\ l \in Nat \ {0}
      /\ (i # 0 => Ten[l - 1] <= i) /\ ValueOf(s) = i
  BY Digits
<1>2. i = 0 => l = 1
  <2>1. i = 0 => s = <<Zero + i>>
    BY MetaDef
  <2>2. QED
    BY <2>1
<1> HIDE DEF l
<1>3. l <= p
  <2>1. l - 1 \in Nat
    BY <1>1
  <2>2. CASE i # 0 /\ p <= l - 1
    BY <1>1, <2>1, <2>2, TenGrows
  <2>3. QED
    BY <1>1, <1>2, <2>2
<1>4. p - l \in Nat
  BY <1>1, <1>3
<1>5. z \in Seq(Char) /\ z \in Seq(Int) /\ Len(z) = p - l /\ ValueOf(z) = 0
  <2> DEFINE q == p - l
  <2> HIDE DEF q
  <2>1. q \in Nat
    BY <1>4 DEF q
  <2>2. LET y == [k \in 1 .. q |-> Zero]
        IN  y \in Seq(Char) /\ y \in Seq(Int) /\ Len(y) = q /\ ValueOf(y) = 0
    BY <2>1, Zeros
  <2>3. QED
    BY <2>2 DEF q
<1>6. LeadingZeroNumeric(i, p) = z \o s
  BY LengthIs DEF LeadingZeroNumeric, l
<1> HIDE DEF z, s
<1>7. z \o s \in Seq(Char) /\ z \o s \in Seq(Int) /\ Len(z \o s) = Len(z) + Len(s)
  BY <1>1, <1>5, ConcatProperties
<1>8. Len(z \o s) = p
  BY <1>1, <1>4, <1>5, <1>7 DEF l
<1>9. ValueOf(z \o s) = 0 * Ten[Len(s)] + i
  BY <1>1, <1>5, ValueOfConcat
<1>10. 0 * Ten[Len(s)] + i = i
  <2>1. Ten[Len(s)] \in Nat
    BY <1>1, TenDef DEF l
  <2>2. QED
    BY <2>1
<1>11. QED
  BY <1>6, <1>7, <1>8, <1>9, <1>10

\* Rows in chunks are all the rows.
LEMMA RowsSplit ==
  ASSUME NEW p, NEW b \in Nat, NEW c \in Nat, NEW n \in Nat, b <= c, c <= n
  PROVE  Rows(b, c, p) \o Rows(c, n, p) = Rows(b, n, p)
<1> DEFINE S == {LeadingZeroNumeric(i, p) : i \in Nat}
<1>1. ASSUME NEW i \in Nat, NEW j \in Nat, i <= j
      PROVE  /\ Rows(i, j, p) \in Seq(S) /\ Len(Rows(i, j, p)) = j - i
             /\ \A k \in 1 .. j - i : Rows(i, j, p)[k] = LeadingZeroNumeric(i + k - 1, p)
  <2>1. j - i \in Nat /\ \A k \in 1 .. j - i : LeadingZeroNumeric(i + k - 1, p) \in S
    BY <1>1
  <2> DEFINE q == j - i
  <2> HIDE DEF S, q
  <2>2. q \in Nat /\ \A k \in 1 .. q : LeadingZeroNumeric(i + k - 1, p) \in S
    BY <2>1 DEF q
  <2>3. [k \in 1 .. q |-> LeadingZeroNumeric(i + k - 1, p)] \in Seq(S)
    BY <2>2, IsASeq
  <2>4. Rows(i, j, p) = [k \in 1 .. q |-> LeadingZeroNumeric(i + k - 1, p)]
    BY DEF Rows, q
  <2>5. QED
    BY <2>2, <2>3, <2>4 DEF q
<1> HIDE DEF S
<1> DEFINE x == Rows(b, c, p)
           y == Rows(c, n, p)
           z == Rows(b, n, p)
<1>2. /\ x \in Seq(S) /\ Len(x) = c - b
      /\ \A k \in 1 .. c - b : x[k] = LeadingZeroNumeric(b + k - 1, p)
  BY <1>1
<1>3. /\ y \in Seq(S) /\ Len(y) = n - c
      /\ \A k \in 1 .. n - c : y[k] = LeadingZeroNumeric(c + k - 1, p)
  BY <1>1
<1>4. /\ z \in Seq(S) /\ Len(z) = n - b
      /\ \A k \in 1 .. n - b : z[k] = LeadingZeroNumeric(b + k - 1, p)
  BY <1>1
<1> HIDE DEF x, y, z
<1>5. /\ x \o y \in Seq(S) /\ Len(x \o y) = n - b
      /\ \A k \in 1 .. n - b : (x \o y)[k] = IF k <= c - b THEN x[k] ELSE y[k - (c - b)]
  <2>1. /\ x \o y \in Seq(S) /\ Len(x \o y) = Len(x) + Len(y)
        /\ \A k \in 1 .. Len(x) + Len(y) :
              (x \o y)[k] = IF k <= Len(x) THEN x[k] ELSE y[k - Len(x)]
    BY <1>2, <1>3, ConcatProperties
  <2>2. QED
    BY <1>2, <1>3, <2>1
<1>6. ASSUME NEW k \in 1 .. n - b PROVE (x \o y)[k] = z[k]
  <2>1. CASE k <= c - b
    <3>1. k \in 1 .. c - b
      BY <2>1
    <3>2. QED
      BY <1>2, <1>4, <1>5, <2>1, <3>1
  <2>2. CASE ~(k <= c - b)
    <3>1. k - (c - b) \in 1 .. n - c /\ c + (k - (c - b)) - 1 = b + k - 1
      BY <2>2
    <3>2. y[k - (c - b)] = LeadingZeroNumeric(b + k - 1, p)
      BY <1>3, <3>1
    <3>3. QED
      BY <1>4, <1>5, <2>2, <3>2
  <2>3. QED
    BY <2>1, <2>2
<1>7. x \o y = z
  <2> DEFINE v == x \o y
  <2>1. v \in Seq(S) /\ Len(v) = Len(z) /\ \A k \in 1 .. Len(v) : v[k] = z[k]
    BY <1>4, <1>5, <1>6
  <2> HIDE DEF v
  <2>2. v = z
    BY <1>4, <2>1, SeqEqual
  <2>3. QED
    BY <2>2 DEF v
<1>8. QED
  BY <1>7 DEF x, y, z

\* A table has the number i at i.
LEMMA Table ==
  ASSUME NEW n \in Nat, NEW p, NEW i \in Nat, i < n
  PROVE  At(LeadingZeroNumericArray(n, p), i) = LeadingZeroNumeric(i, p)
<1> DEFINE D == 0 .. n
           Is(f) == f = [b \in 0 .. n |-> IF 500 >= n - b THEN Rows(b, n, p)
                                          ELSE Rows(b, b + 500, p) \o f[b + 500]]
           f == [b \in 0 .. n |-> Rows(b, n, p)]
           range == CHOOSE h : Is(h)
           m == [b \in D |-> n - b]
           T == {b \in D : range[b] = Rows(b, n, p)}
<1>0. \A b, c \in Nat : b <= c /\ c <= n => Rows(b, c, p) \o Rows(c, n, p) = Rows(b, n, p)
  BY RowsSplit
<1>1. ASSUME NEW b \in 0 .. n
      PROVE  Rows(b, n, p) = IF 500 >= n - b THEN Rows(b, n, p)
                             ELSE Rows(b, b + 500, p) \o f[b + 500]
  <2>1. CASE 500 >= n - b
    BY <2>1
  <2>2. CASE ~(500 >= n - b)
    <3>1. b + 500 \in 0 .. n /\ b \in Nat /\ b + 500 \in Nat /\ b <= b + 500 /\ b + 500 <= n
      BY <2>2
    <3>2. f[b + 500] = Rows(b + 500, n, p)
      BY <3>1
    <3> HIDE DEF f
    <3>3. Rows(b, b + 500, p) \o Rows(b + 500, n, p) = Rows(b, n, p)
      <4> DEFINE c == b + 500
      <4> HIDE DEF c
      <4>1. c \in Nat /\ b \in Nat /\ b <= c /\ c <= n
        BY <3>1 DEF c
      <4>2. Rows(b, c, p) \o Rows(c, n, p) = Rows(b, n, p)
        BY <4>1, <1>0
      <4>3. QED
        BY <4>2 DEF c
    <3>4. QED
      BY <2>2, <3>2, <3>3
  <2>3. QED
    BY <2>1, <2>2
<1>2. Is(f)
  <2>1. f = [b \in 0 .. n |-> Rows(b, n, p)]
    OBVIOUS
  <2> HIDE DEF f
  <2> DEFINE U(b) == Rows(b, n, p)
             V(b) == IF 500 >= n - b THEN Rows(b, n, p)
                     ELSE Rows(b, b + 500, p) \o f[b + 500]
  <2>2. \A b \in 0 .. n : U(b) = V(b)
    BY <1>1
  <2>3. f = [b \in 0 .. n |-> V(b)]
    <3> HIDE DEF U, V
    <3>1. [b \in 0 .. n |-> U(b)] = [b \in 0 .. n |-> V(b)]
      BY <2>2
    <3>2. f = [b \in 0 .. n |-> U(b)]
      BY <2>1 DEF U
    <3>3. QED
      BY <3>1, <3>2
  <2>4. QED
    BY <2>3
<1>3. Is(range)
  <2> HIDE DEF Is, f
  <2>1. QED
    BY <1>2
<1>4. LeadingZeroNumericArray(n, p) = range[0]
  BY DEF LeadingZeroNumericArray
<1> HIDE DEF range
<1>5. m \in [D -> Nat]
  OBVIOUS
<1>6. ASSUME NEW b \in D, \A c \in D : m[c] < m[b] => c \in T PROVE b \in T
  <2>1. range[b] = IF 500 >= n - b THEN Rows(b, n, p) ELSE Rows(b, b + 500, p) \o range[b + 500]
    BY <1>3
  <2>2. CASE 500 >= n - b
    BY <2>1, <2>2
  <2>3. CASE ~(500 >= n - b)
    <3>1. b + 500 \in 0 .. n /\ b \in Nat /\ b + 500 \in Nat /\ b <= b + 500 /\ b + 500 <= n
      BY <2>3
    <3>2. m[b + 500] < m[b]
      BY <3>1
    <3>3. range[b + 500] = Rows(b + 500, n, p)
      BY <1>6, <3>1, <3>2
    <3>4. Rows(b, b + 500, p) \o Rows(b + 500, n, p) = Rows(b, n, p)
      <4> DEFINE c == b + 500
      <4> HIDE DEF c
      <4>1. c \in Nat /\ b \in Nat /\ b <= c /\ c <= n
        BY <3>1 DEF c
      <4>2. Rows(b, c, p) \o Rows(c, n, p) = Rows(b, n, p)
        BY <4>1, <1>0
      <4>3. QED
        BY <4>2 DEF c
    <3>5. range[b] = Rows(b, n, p)
      BY <2>1, <2>3, <3>3, <3>4
    <3>6. QED
      BY <3>5
  <2>4. QED
    BY <2>2, <2>3
<1>7. \A b \in D : b \in T
  <2> HIDE DEF T, m, D
  <2>1. QED
    BY <1>5, <1>6, Measured
<1>8. range[0] = Rows(0, n, p)
  BY <1>7
<1>9. Rows(0, n, p)[i + 1] = LeadingZeroNumeric(i, p)
  <2>1. i + 1 \in 1 .. n - 0 /\ 0 + (i + 1) - 1 = i
    OBVIOUS
  <2>2. QED
    BY <2>1 DEF Rows
<1>10. QED
  BY <1>4, <1>8, <1>9 DEF At

\* What the three tables show
Shows(text, digits, n) ==
    text \in Seq(Char) /\ text \in Seq(Int) /\ Len(text) = digits /\ ValueOf(text) = n

\* Each table shows its numbers with two, three and four digits.
LEMMA Tables ==
  ASSUME NEW i \in Nat
  PROVE  /\ i < 100 => Shows(At(digits100, i), 2, i)
         /\ i < 1000 => Shows(At(digits1000, i), 3, i)
         /\ i < 2050 => Shows(At(digits2050, i), 4, i)
<1>1. ASSUME i < 100 PROVE Shows(At(digits100, i), 2, i)
  <2>1. At(LeadingZeroNumericArray(100, 2), i) = LeadingZeroNumeric(i, 2)
    BY <1>1, Table, Zenon
  <2>2. i < Ten[2]
    BY <1>1, TenValues
  <2>3. Shows(LeadingZeroNumeric(i, 2), 2, i)
    <3>1. 2 \in Nat \ {0}
      OBVIOUS
    <3>2. QED
      BY <2>2, <3>1, LeadingZero DEF Shows
  <2>4. QED
    BY <2>1, <2>3 DEF digits100
<1>2. ASSUME i < 1000 PROVE Shows(At(digits1000, i), 3, i)
  <2>1. At(LeadingZeroNumericArray(1000, 3), i) = LeadingZeroNumeric(i, 3)
    BY <1>2, Table
  <2>2. i < Ten[3]
    BY <1>2, TenValues
  <2>3. Shows(LeadingZeroNumeric(i, 3), 3, i)
    <3>1. 3 \in Nat \ {0}
      OBVIOUS
    <3>2. QED
      BY <2>2, <3>1, LeadingZero DEF Shows
  <2>4. QED
    BY <2>1, <2>3 DEF digits1000
<1>3. ASSUME i < 2050 PROVE Shows(At(digits2050, i), 4, i)
  <2>1. At(LeadingZeroNumericArray(2050, 4), i) = LeadingZeroNumeric(i, 4)
    BY <1>3, Table
  <2>2. i < Ten[4]
    BY <1>3, TenValues
  <2>3. Shows(LeadingZeroNumeric(i, 4), 4, i)
    <3>1. 4 \in Nat \ {0}
      OBVIOUS
    <3>2. QED
      BY <2>2, <3>1, LeadingZero DEF Shows
  <2>4. QED
    BY <2>1, <2>3 DEF digits2050
<1>4. QED
  BY <1>1, <1>2, <1>3

-----------------------------------------------------------------------------
(* The record of a thread, and the dates that lines show                   *)

\* A text c that has b, of length l, behind a, of length n
Follows(c, a, b, n, l) ==
    /\ c \in Seq(Char) /\ Len(c) = n + l
    /\ SubSeq(c, n + 1, n + l) = b
    /\ \A i, j \in 1 .. n : SubSeq(c, i, j) = SubSeq(a, i, j)

\* So does their concatenation.
LEMMA Behind ==
  ASSUME NEW a \in Seq(Char), NEW b \in Seq(Char)
  PROVE  Follows(a \o b, a, b, Len(a), Len(b))
<1> DEFINE c == a \o b
           n == Len(a)
           l == Len(b)
<1>0. n \in Nat /\ l \in Nat
  BY LenProperties
<1> DEFINE i == n + 1
           j == n + l
           t == SubSeq(c, i, j)
<1>1. /\ c \in Seq(Char) /\ Len(c) = n + l
      /\ \A k \in 1 .. n + l : c[k] = IF k <= n THEN a[k] ELSE b[k - n]
  BY ConcatProperties
<1> HIDE DEF c, n, l
<1>2. t \in Seq(Char) /\ Len(t) = l /\ \A k \in 1 .. l : t[k] = c[i + k - 1]
  <2>1. i \in Int /\ j \in Int
    BY <1>0
  <2>2. \A k \in i .. j : c[k] \in Char
    <3>1. \A k \in i .. j : k \in 1 .. Len(c)
      BY <1>0, <1>1
    <3>2. QED
      BY <1>1, <3>1, ElementOfSeq
  <2>3. (i <= j => j - i + 1 = l) /\ (~(i <= j) => l = 0) /\ j - i + 1 = l
    BY <1>0
  <2> HIDE DEF i, j
  <2>4. t \in Seq(Char)
    BY <2>1, <2>2, SubSeqProperties
  <2>5. Len(t) = IF i <= j THEN j - i + 1 ELSE 0
    BY <2>1, <2>2, SubSeqProperties
  <2>6. \A k \in 1 .. j - i + 1 : SubSeq(c, i, j)[k] = c[i + k - 1]
    BY <2>1, <2>2, SubSeqProperties
  <2>7. QED
    BY <2>3, <2>4, <2>5, <2>6
<1>3. \A k \in 1 .. l : t[k] = b[k]
  <2>1. ASSUME NEW k \in 1 .. l PROVE t[k] = b[k]
    <3> DEFINE h == i + k - 1
    <3>1. h \in 1 .. n + l /\ ~(h <= n) /\ h - n = k
      BY <1>0
    <3>2. t[k] = c[h]
      BY <1>2
    <3> HIDE DEF h, t
    <3>3. QED
      BY <1>1, <3>1, <3>2
  <2>2. QED
    BY <2>1
<1> HIDE DEF t
<1>4. t = b
  BY <1>2, <1>3, SeqEqual DEF l
<1>5. ASSUME NEW x \in 1 .. n, NEW y \in 1 .. n PROVE SubSeq(c, x, y) = SubSeq(a, x, y)
  BY SubSeqOfConcat1 DEF c, n
<1>6. Follows(c, a, b, n, l)
  BY <1>1, <1>4, <1>5 DEF Follows, t
<1>7. QED
  BY <1>6 DEF c, n, l

\* Texts of a date and of a time of the day
DateText(t) == At(digits2050, t.y) \o <<Minus>> \o At(digits100, t.m)
               \o <<Minus>> \o At(digits100, t.d)
TimeText(t) == At(digits100, t.h) \o <<58>> \o At(digits100, t.m)
               \o <<58>> \o At(digits100, t.s) \o <<Dot>> \o At(digits1000, t.S)

\* The digits of a date are where DateShown looks for them.
LEMMA DateTextShows ==
  ASSUME NEW t, Shows(At(digits2050, t.y), 4, t.y), Shows(At(digits100, t.m), 2, t.m),
         Shows(At(digits100, t.d), 2, t.d)
  PROVE  LET s == DateText(t)
         IN  /\ s \in Seq(Char)
             /\ ValueOf(SubSeq(s, 1, 4)) = t.y /\ ValueOf(SubSeq(s, 6, 7)) = t.m
             /\ ValueOf(SubSeq(s, 9, 10)) = t.d
<1> DEFINE y == At(digits2050, t.y)
           m == At(digits100, t.m)
           d == At(digits100, t.d)
           x == <<Minus>>
           c1 == y \o x
           c2 == c1 \o m
           c3 == c2 \o x
           s == c3 \o d
<1>1. /\ y \in Seq(Char) /\ Len(y) = 4 /\ ValueOf(y) = t.y
      /\ m \in Seq(Char) /\ Len(m) = 2 /\ ValueOf(m) = t.m
      /\ d \in Seq(Char) /\ Len(d) = 2 /\ ValueOf(d) = t.d
  BY DEF Shows
<1>2. x \in Seq(Char) /\ Len(x) = 1
  BY DEF Minus, Char
<1>3. DateText(t) = s
  BY DEF DateText
<1> HIDE DEF y, m, d, x
<1>4. SubSeq(y, 1, 4) = y
  BY <1>1, SubSeqFull
<1>5. /\ c1 \in Seq(Char) /\ Len(c1) = 5 /\ SubSeq(c1, 5, 5) = x
      /\ \A i, j \in 1 .. 4 : SubSeq(c1, i, j) = SubSeq(y, i, j)
  <2>1. 4 + 1 = 5 /\ 4 + 1 = 5
    OBVIOUS
  <2>2. c1 = y \o x
    OBVIOUS
  <2> HIDE DEF c1
  <2>3. Follows(y \o x, y, x, Len(y), Len(x))
    BY <1>1, <1>2, Behind
  <2>4. Len(y) = 4 /\ Len(x) = 1
    BY <1>1, <1>2
  <2>5. Follows(c1, y, x, 4, 1)
    BY <2>2, <2>3, <2>4
  <2>6. QED
    BY <2>1, <2>5 DEF Follows
<1> HIDE DEF c1
<1>6. /\ c2 \in Seq(Char) /\ Len(c2) = 7 /\ SubSeq(c2, 6, 7) = m
      /\ \A i, j \in 1 .. 5 : SubSeq(c2, i, j) = SubSeq(c1, i, j)
  <2>1. 5 + 1 = 6 /\ 5 + 2 = 7
    OBVIOUS
  <2>2. c2 = c1 \o m
    OBVIOUS
  <2> HIDE DEF c2
  <2>3. Follows(c1 \o m, c1, m, Len(c1), Len(m))
    BY <1>1, <1>5, Behind
  <2>4. Len(c1) = 5 /\ Len(m) = 2
    BY <1>1, <1>5
  <2>5. Follows(c2, c1, m, 5, 2)
    BY <2>2, <2>3, <2>4
  <2>6. QED
    BY <2>1, <2>5 DEF Follows
<1> HIDE DEF c2
<1>7. /\ c3 \in Seq(Char) /\ Len(c3) = 8 /\ SubSeq(c3, 8, 8) = x
      /\ \A i, j \in 1 .. 7 : SubSeq(c3, i, j) = SubSeq(c2, i, j)
  <2>1. 7 + 1 = 8 /\ 7 + 1 = 8
    OBVIOUS
  <2>2. c3 = c2 \o x
    OBVIOUS
  <2> HIDE DEF c3
  <2>3. Follows(c2 \o x, c2, x, Len(c2), Len(x))
    BY <1>2, <1>6, Behind
  <2>4. Len(c2) = 7 /\ Len(x) = 1
    BY <1>2, <1>6
  <2>5. Follows(c3, c2, x, 7, 1)
    BY <2>2, <2>3, <2>4
  <2>6. QED
    BY <2>1, <2>5 DEF Follows
<1> HIDE DEF c3
<1>8. /\ s \in Seq(Char) /\ Len(s) = 10 /\ SubSeq(s, 9, 10) = d
      /\ \A i, j \in 1 .. 8 : SubSeq(s, i, j) = SubSeq(c3, i, j)
  <2>1. 8 + 1 = 9 /\ 8 + 2 = 10
    OBVIOUS
  <2>2. s = c3 \o d
    OBVIOUS
  <2> HIDE DEF s
  <2>3. Follows(c3 \o d, c3, d, Len(c3), Len(d))
    BY <1>1, <1>7, Behind
  <2>4. Len(c3) = 8 /\ Len(d) = 2
    BY <1>1, <1>7
  <2>5. Follows(s, c3, d, 8, 2)
    BY <2>2, <2>3, <2>4
  <2>6. QED
    BY <2>1, <2>5 DEF Follows
<1> HIDE DEF s
<1>9. SubSeq(s, 1, 4) = y
  BY <1>4, <1>5, <1>6, <1>7, <1>8
<1>10. SubSeq(s, 6, 7) = m
  BY <1>6, <1>7, <1>8
<1>11. /\ s \in Seq(Char)
       /\ ValueOf(SubSeq(s, 1, 4)) = t.y /\ ValueOf(SubSeq(s, 6, 7)) = t.m
       /\ ValueOf(SubSeq(s, 9, 10)) = t.d
  BY <1>1, <1>8, <1>9, <1>10
<1>12. QED
  BY <1>3, <1>11

\* And so are those of a time.
LEMMA TimeTextShows ==
  ASSUME NEW t, Shows(At(digits100, t.h), 2, t.h), Shows(At(digits100, t.m), 2, t.m),
         Shows(At(digits100, t.s), 2, t.s), Shows(At(digits1000, t.S), 3, t.S)
  PROVE  LET u == TimeText(t)
         IN  /\ u \in Seq(Char) /\ Len(u) = 12
             /\ ValueOf(SubSeq(u, 1, 2)) = t.h /\ ValueOf(SubSeq(u, 4, 5)) = t.m
             /\ ValueOf(SubSeq(u, 7, 8)) = t.s /\ ValueOf(SubSeq(u, 10, 12)) = t.S
<1> DEFINE h == At(digits100, t.h)
           m == At(digits100, t.m)
           s == At(digits100, t.s)
           f == At(digits1000, t.S)
           x == <<58>>
           z == <<Dot>>
           c1 == h \o x
           c2 == c1 \o m
           c3 == c2 \o x
           c4 == c3 \o s
           c5 == c4 \o z
           u == c5 \o f
<1>1. /\ h \in Seq(Char) /\ Len(h) = 2 /\ ValueOf(h) = t.h
      /\ m \in Seq(Char) /\ Len(m) = 2 /\ ValueOf(m) = t.m
      /\ s \in Seq(Char) /\ Len(s) = 2 /\ ValueOf(s) = t.s
      /\ f \in Seq(Char) /\ Len(f) = 3 /\ ValueOf(f) = t.S
  BY DEF Shows
<1>2. x \in Seq(Char) /\ Len(x) = 1 /\ z \in Seq(Char) /\ Len(z) = 1
  BY DEF Dot, Char
<1>3. TimeText(t) = u
  BY DEF TimeText
<1> HIDE DEF h, m, s, f, x, z
<1>4. SubSeq(h, 1, 2) = h
  BY <1>1, SubSeqFull
<1>5. /\ c1 \in Seq(Char) /\ Len(c1) = 3 /\ SubSeq(c1, 3, 3) = x
      /\ \A i, j \in 1 .. 2 : SubSeq(c1, i, j) = SubSeq(h, i, j)
  <2>1. 2 + 1 = 3 /\ 2 + 1 = 3
    OBVIOUS
  <2>2. c1 = h \o x
    OBVIOUS
  <2> HIDE DEF c1
  <2>3. Follows(h \o x, h, x, Len(h), Len(x))
    BY <1>1, <1>2, Behind
  <2>4. Len(h) = 2 /\ Len(x) = 1
    BY <1>1, <1>2
  <2>5. Follows(c1, h, x, 2, 1)
    BY <2>2, <2>3, <2>4
  <2>6. QED
    BY <2>1, <2>5 DEF Follows
<1> HIDE DEF c1
<1>6. /\ c2 \in Seq(Char) /\ Len(c2) = 5 /\ SubSeq(c2, 4, 5) = m
      /\ \A i, j \in 1 .. 3 : SubSeq(c2, i, j) = SubSeq(c1, i, j)
  <2>1. 3 + 1 = 4 /\ 3 + 2 = 5
    OBVIOUS
  <2>2. c2 = c1 \o m
    OBVIOUS
  <2> HIDE DEF c2
  <2>3. Follows(c1 \o m, c1, m, Len(c1), Len(m))
    BY <1>1, <1>5, Behind
  <2>4. Len(c1) = 3 /\ Len(m) = 2
    BY <1>1, <1>5
  <2>5. Follows(c2, c1, m, 3, 2)
    BY <2>2, <2>3, <2>4
  <2>6. QED
    BY <2>1, <2>5 DEF Follows
<1> HIDE DEF c2
<1>7. /\ c3 \in Seq(Char) /\ Len(c3) = 6 /\ SubSeq(c3, 6, 6) = x
      /\ \A i, j \in 1 .. 5 : SubSeq(c3, i, j) = SubSeq(c2, i, j)
  <2>1. 5 + 1 = 6 /\ 5 + 1 = 6
    OBVIOUS
  <2>2. c3 = c2 \o x
    OBVIOUS
  <2> HIDE DEF c3
  <2>3. Follows(c2 \o x, c2, x, Len(c2), Len(x))
    BY <1>2, <1>6, Behind
  <2>4. Len(c2) = 5 /\ Len(x) = 1
    BY <1>2, <1>6
  <2>5. Follows(c3, c2, x, 5, 1)
    BY <2>2, <2>3, <2>4
  <2>6. QED
    BY <2>1, <2>5 DEF Follows
<1> HIDE DEF c3
<1>8. /\ c4 \in Seq(Char) /\ Len(c4) = 8 /\ SubSeq(c4, 7, 8) = s
      /\ \A i, j \in 1 .. 6 : SubSeq(c4, i, j) = SubSeq(c3, i, j)
  <2>1. 6 + 1 = 7 /\ 6 + 2 = 8
    OBVIOUS
  <2>2. c4 = c3 \o s
    OBVIOUS
  <2> HIDE DEF c4
  <2>3. Follows(c3 \o s, c3, s, Len(c3), Len(s))
    BY <1>1, <1>7, Behind
  <2>4. Len(c3) = 6 /\ Len(s) = 2
    BY <1>1, <1>7
  <2>5. Follows(c4, c3, s, 6, 2)
    BY <2>2, <2>3, <2>4
  <2>6. QED
    BY <2>1, <2>5 DEF Follows
<1> HIDE DEF c4
<1>9. /\ c5 \in Seq(Char) /\ Len(c5) = 9 /\ SubSeq(c5, 9, 9) = z
      /\ \A i, j \in 1 .. 8 : SubSeq(c5, i, j) = SubSeq(c4, i, j)
  <2>1. 8 + 1 = 9 /\ 8 + 1 = 9
    OBVIOUS
  <2>2. c5 = c4 \o z
    OBVIOUS
  <2> HIDE DEF c5
  <2>3. Follows(c4 \o z, c4, z, Len(c4), Len(z))
    BY <1>2, <1>8, Behind
  <2>4. Len(c4) = 8 /\ Len(z) = 1
    BY <1>2, <1>8
  <2>5. Follows(c5, c4, z, 8, 1)
    BY <2>2, <2>3, <2>4
  <2>6. QED
    BY <2>1, <2>5 DEF Follows
<1> HIDE DEF c5
<1>10. /\ u \in Seq(Char) /\ Len(u) = 12 /\ SubSeq(u, 10, 12) = f
      /\ \A i, j \in 1 .. 9 : SubSeq(u, i, j) = SubSeq(c5, i, j)
  <2>1. 9 + 1 = 10 /\ 9 + 3 = 12
    OBVIOUS
  <2>2. u = c5 \o f
    OBVIOUS
  <2> HIDE DEF u
  <2>3. Follows(c5 \o f, c5, f, Len(c5), Len(f))
    BY <1>1, <1>9, Behind
  <2>4. Len(c5) = 9 /\ Len(f) = 3
    BY <1>1, <1>9
  <2>5. Follows(u, c5, f, 9, 3)
    BY <2>2, <2>3, <2>4
  <2>6. QED
    BY <2>1, <2>5 DEF Follows
<1> HIDE DEF u
<1>11. SubSeq(u, 1, 2) = h
  BY <1>4, <1>5, <1>6, <1>7, <1>8, <1>9, <1>10
<1>12. SubSeq(u, 4, 5) = m /\ SubSeq(u, 7, 8) = s
  BY <1>6, <1>7, <1>8, <1>9, <1>10
<1>13. /\ u \in Seq(Char) /\ Len(u) = 12
       /\ ValueOf(SubSeq(u, 1, 2)) = t.h /\ ValueOf(SubSeq(u, 4, 5)) = t.m
       /\ ValueOf(SubSeq(u, 7, 8)) = t.s /\ ValueOf(SubSeq(u, 10, 12)) = t.S
  BY <1>1, <1>10, <1>11, <1>12
<1>14. QED
  BY <1>3, <1>13

\* The parts of a time of the day
LEMMA TimeIs ==
  ASSUME NEW ms \in DayTimes
  PROVE  LET t == calTime(ms)
         IN  /\ Shows(At(digits100, t.h), 2, t.h) /\ Shows(At(digits100, t.m), 2, t.m)
             /\ Shows(At(digits100, t.s), 2, t.s) /\ Shows(At(digits1000, t.S), 3, t.S)
             /\ t.h * 3600000 + t.m * 60000 + t.s * 1000 + t.S = ms
<1> DEFINE h == ms \div 3600000
           a == ms % 3600000
           m == a \div 60000
           b == a % 60000
           s == b \div 1000
           f == b % 1000
<1>1. ms \in Nat /\ ms < 24 * 3600000
  BY SMT DEF DayTimes
<1>2. h \in Nat /\ a \in Nat /\ a < 3600000 /\ ms = 3600000 * h + a
  <2>1. 3600000 \in Nat \ {0}
    BY SMT
  <2>2. QED
    BY <1>1, <2>1, Divided, SMT
<1> HIDE DEF h, a
<1>3. m \in Nat /\ b \in Nat /\ b < 60000 /\ a = 60000 * m + b
  <2>1. 60000 \in Nat \ {0}
    BY SMT
  <2>2. QED
    BY <1>2, <2>1, Divided, SMT
<1> HIDE DEF m, b
<1>4. s \in Nat /\ f \in Nat /\ f < 1000 /\ b = 1000 * s + f
  <2>1. 1000 \in Nat \ {0}
    BY SMT
  <2>2. QED
    BY <1>3, <2>1, Divided, SMT
<1> HIDE DEF s, f
<1>5. h < 100 /\ m < 100 /\ s < 100
  BY <1>1, <1>2, <1>3, <1>4, SMT
<1>6. h * 3600000 + m * 60000 + s * 1000 + f = ms
  BY <1>2, <1>3, <1>4, SMT
<1>7. ms % 60000 = b
  <2>1. ms = 60000 * (60 * h + m) + b /\ 60 * h + m \in Nat /\ 60000 \in Nat \ {0}
    BY <1>2, <1>3, SMT
  <2> DEFINE x == 60 * h + m
  <2> HIDE DEF x
  <2>2. ms = 60000 * x + b /\ x \in Nat
    BY <2>1, SMT DEF x
  <2>3. QED
    BY <1>3, <2>1, <2>2, DividedBy, SMT
<1>8. ms % 1000 = f
  <2>1. ms = 1000 * (3600 * h + 60 * m + s) + f /\ 3600 * h + 60 * m + s \in Nat
        /\ 1000 \in Nat \ {0}
    BY <1>2, <1>3, <1>4, SMT
  <2> DEFINE x == 3600 * h + 60 * m + s
  <2> HIDE DEF x
  <2>2. ms = 1000 * x + f /\ x \in Nat
    BY <2>1, SMT DEF x
  <2>3. QED
    BY <1>4, <2>1, <2>2, DividedBy, SMT
<1>9. calTime(ms) = [h |-> h, m |-> m, s |-> s, S |-> f]
  <2>1. calTime(ms) = [h |-> h, m |-> m, s |-> (ms % 60000) \div 1000, S |-> ms % 1000]
    BY SMT DEF calTime, h, m, a
  <2>2. (ms % 60000) \div 1000 = s
    BY <1>7, SMT DEF s
  <2>3. QED
    BY <1>8, <2>1, <2>2, SMT
<1>10. /\ Shows(At(digits100, h), 2, h) /\ Shows(At(digits100, m), 2, m)
       /\ Shows(At(digits100, s), 2, s) /\ Shows(At(digits1000, f), 3, f)
  BY <1>2, <1>3, <1>4, <1>5, Tables, SMT
<1>11. QED
  BY <1>6, <1>9, <1>10, SMT

\* The clock goes on to the last day, the date by the calendar is that of its day,
\* and the thread keeps the date of the day of its last line, from midnight on.
DateInvariant ==
    /\ clock.day \in Nat /\ clock.day <= LastDay /\ clock.ms \in DayTimes
    /\ today = calDate(clock.day)
    /\ record.last = [day |-> clock.day, ms |-> 0]
    /\ record.date = DateText(today)
    /\ record.time = <<>> \/ record.time = TimeText(calTime(clock.ms))

\* The first record is that of the epoch.
LEMMA DateInvariantInit == LogInit => DateInvariant
<1> SUFFICES ASSUME LogInit PROVE DateInvariant
  OBVIOUS
<1>1. clock = [day |-> 0, ms |-> 0] /\ today = [y |-> 1970, m |-> 1, d |-> 1] /\ record = NoRecord
  BY SMT DEF LogInit
<1>2. clock.day = 0 /\ clock.ms = 0 /\ 0 \in DayTimes /\ 0 <= LastDay
  BY <1>1, SMT DEF DayTimes, LastDay
<1>3. today = calDate(0)
  BY <1>1, FirstDate, SMT
<1>4. record.last = [day |-> 0, ms |-> 0] /\ record.time = <<>>
  BY <1>1, SMT DEF NoRecord
<1>5. record.date = DateText(today)
  <2>1. record.date = At(digits2050, 1970) \o <<Minus>> \o At(digits100, 1)
                      \o <<Minus>> \o At(digits100, 1)
    BY <1>1, SMT DEF NoRecord
  <2>2. today.y = 1970 /\ today.m = 1 /\ today.d = 1
    BY <1>1, SMT
  <2>3. QED
    BY <2>1, <2>2, SMT DEF DateText
<1>6. QED
  BY <1>2, <1>3, <1>4, <1>5, SMT DEF DateInvariant

\* What a line leaves of the record
Keeps(r, day, ms) == /\ r.last = [day |-> day, ms |-> 0]
                     /\ r.date = DateText(calDate(day))
                     /\ r.time = TimeText(calTime(ms))

\* format() takes the date from the record within the day that the record is of, and
\* computes it on every later day.
LEMMA FormatIs ==
  ASSUME NEW rec, NEW days \in Nat, NEW day \in Nat, NEW ms \in DayTimes, NEW point,
         rec.last = [day |-> day, ms |-> 0], rec.date = DateText(calDate(day)),
         point.day = day + days, point.ms = ms
  PROVE  Keeps(format(rec, point), day + days, ms)
<1>1. ms \in Nat
  BY SMT DEF DayTimes
<1>2. DayPassed(rec.last, point) <=> days # 0
  BY <1>1, SMT DEF DayPassed
<1>3. format(rec, point) =
         [last |-> IF DayPassed(rec.last, point) THEN thisDay(point) ELSE rec.last,
          date |-> IF DayPassed(rec.last, point) THEN DateText(calDate(point.day)) ELSE rec.date,
          time |-> TimeText(calTime(point.ms))]
  BY DEF format, DateText, TimeText
<1>4. point.day = day + days /\ point.ms = ms /\ thisDay(point) = [day |-> day + days, ms |-> 0]
  BY SMT DEF thisDay
<1>5. CASE days = 0
  <2>1. day + days = day /\ ~DayPassed(rec.last, point)
    BY <1>2, <1>5, SMT
  <2>2. QED
    BY <1>3, <1>4, <2>1 DEF Keeps
<1>6. CASE days # 0
  BY <1>2, <1>3, <1>4, <1>6 DEF Keeps
<1>7. QED
  BY <1>5, <1>6

\* Every line keeps the date of the record up to date.
LEMMA DateInvariantNext == DateInvariant /\ [LogNext]_logvars => DateInvariant'
<1> SUFFICES ASSUME DateInvariant, [LogNext]_logvars PROVE DateInvariant'
  OBVIOUS
<1>1. CASE UNCHANGED logvars
  BY <1>1 DEF DateInvariant, logvars
<1>2. ASSUME NEW days \in Nat, NEW ms \in DayTimes, NEW tags \in TagLists,
             NEW msgs \in Seq(Argument), Log(days, ms, tags, msgs)
      PROVE  DateInvariant'
  <2> DEFINE day == clock.day
             point == [day |-> day + days, ms |-> ms]
             r == format(record, point)
  <2>1. /\ point.day <= LastDay /\ clock' = point /\ today' = Later(today, days)
        /\ record' = r
    BY <1>2 DEF Log
  <2>2. /\ day \in Nat /\ today = calDate(day) /\ record.last = [day |-> day, ms |-> 0]
        /\ record.date = DateText(calDate(day))
    BY DEF DateInvariant
  <2> HIDE DEF day, point
  <2>3. /\ r.last = [day |-> day + days, ms |-> 0]
        /\ r.date = DateText(calDate(day + days))
        /\ r.time = TimeText(calTime(ms))
    <3>1. point.day = day + days /\ point.ms = ms
      BY DEF point
    <3>2. Keeps(r, day + days, ms)
      BY <2>2, <3>1, FormatIs
    <3>3. QED
      BY <3>2 DEF Keeps
  <2>4. clock'.day = day + days /\ clock'.ms = ms /\ day + days \in Nat /\ day + days <= LastDay
    BY <2>1, <2>2 DEF point
  <2>5. today' = calDate(day + days)
    BY <2>1, <2>2, LaterDate
  <2> HIDE DEF r
  <2>6. QED
    BY <2>1, <2>3, <2>4, <2>5 DEF DateInvariant
<1>3. QED
  BY <1>1, <1>2 DEF LogNext

\* A record that is up to date shows the day and the time of the last line.
LEMMA DateInvariantShown == DateInvariant => DateShown
<1> SUFFICES ASSUME DateInvariant PROVE DateShown
  OBVIOUS
<1> DEFINE t == today
           c == calTime(clock.ms)
<1>1. t = calDate(clock.day) /\ clock.day \in Nat /\ clock.day <= LastDay /\ clock.ms \in DayTimes
      /\ record.date = DateText(t) /\ (record.time = <<>> \/ record.time = TimeText(c))
  BY DEF DateInvariant
<1>2. /\ t.y \in Nat /\ t.y < 2050 /\ t.m \in Nat /\ t.m < 100 /\ t.d \in Nat /\ t.d < 100
  BY <1>1, DateRange, SMT
<1>3. Shows(At(digits2050, t.y), 4, t.y) /\ Shows(At(digits100, t.m), 2, t.m)
      /\ Shows(At(digits100, t.d), 2, t.d)
  BY <1>2, Tables, SMT
<1>4. Shown = <<t.y, t.m, t.d>>
  BY <1>1, <1>3, DateTextShows DEF Shown
<1> HIDE DEF c
<1>5. ASSUME record.time = TimeText(c) PROVE ShownMs = clock.ms
  <2>1. /\ Shows(At(digits100, c.h), 2, c.h) /\ Shows(At(digits100, c.m), 2, c.m)
        /\ Shows(At(digits100, c.s), 2, c.s) /\ Shows(At(digits1000, c.S), 3, c.S)
        /\ c.h * 3600000 + c.m * 60000 + c.s * 1000 + c.S = clock.ms
    BY <1>1, TimeIs, SMT DEF c
  <2>2. LET u == TimeText(c)
        IN  /\ ValueOf(SubSeq(u, 1, 2)) = c.h /\ ValueOf(SubSeq(u, 4, 5)) = c.m
            /\ ValueOf(SubSeq(u, 7, 8)) = c.s /\ ValueOf(SubSeq(u, 10, 12)) = c.S
    BY <2>1, TimeTextShows, SMT
  <2>3. QED
    BY <1>5, <2>1, <2>2, SMT DEF ShownMs
<1>6. QED
  BY <1>1, <1>4, <1>5, SMT DEF DateShown

\* Dates are right in every line, for any distances between the lines: the date that
\* format() keeps in the thread's record is never that of an earlier day.
THEOREM DateShownTheorem == LogSpec => []DateShown
<1>1. QED
  BY DateInvariantInit, DateInvariantNext, DateInvariantShown, PTL DEF LogSpec

-----------------------------------------------------------------------------
(* The text of an integer                                                  *)

\* A quotient
LEMMA QuotientAtLeast ==
  ASSUME NEW n \in Nat, NEW a \in Nat \ {0}, NEW b \in Nat, n >= b * a
  PROVE  n \div a \in Nat /\ n \div a >= b
<1> DEFINE x == n \div a
<1>1. x \in Nat /\ n < a * (x + 1)
  <2>1. x \in Nat /\ n % a < a /\ n = a * x + (n % a) /\ n % a \in Nat
    BY Divided
  <2> HIDE DEF x
  <2>2. a * (x + 1) = a * x + a
    BY <2>1
  <2>3. a * x \in Nat
    BY <2>1
  <2>4. QED
    BY <2>1, <2>2, <2>3
<1> HIDE DEF x
<1>2. CASE x < b
  <2>1. a * (x + 1) <= a * b /\ a * b = b * a /\ b * a \in Nat /\ a * (x + 1) \in Nat
    BY <1>1, <1>2
  <2>2. QED
    BY <1>1, <2>1
<1>3. QED
  BY <1>1, <1>2 DEF x

\* Dropping k digits
LEMMA Drop ==
  ASSUME NEW n \in Nat, NEW k \in Nat, n >= Ten[k]
  PROVE  n \div Ten[k] \in Nat /\ Len(NumericMetaString[n]) = k + Len(NumericMetaString[n \div Ten[k]])
<1> DEFINE m == [i \in Nat |-> i]
           M(i) == NumericMetaString[i]
           T == {i \in Nat : n >= Ten[i] => Len(M(n)) = i + Len(M(n \div Ten[i]))}
<1>1. m \in [Nat -> Nat]
  OBVIOUS
<1>2. \A i \in Nat : M(i) \in Seq(Char) /\ Len(M(i)) \in Nat
  BY Digits
<1>3. ASSUME NEW i \in Nat, \A j \in Nat : m[j] < m[i] => j \in T PROVE i \in T
  <2>1. CASE i = 0
    <3>1. Ten[i] = 1 /\ n \div 1 = n
      BY <2>1, TenDef
    <3>2. n \div Ten[i] = n
      BY <3>1
    <3>3. Len(M(n)) \in Nat
      BY <1>2
    <3>4. Len(M(n)) = i + Len(M(n \div Ten[i]))
      BY <2>1, <3>2, <3>3
    <3> HIDE DEF M
    <3>5. QED
      BY <3>4
  <2>2. CASE i # 0
    <3> DEFINE p == Ten[i - 1]
               x == n \div p
    <3>1. i - 1 \in T /\ i - 1 \in Nat
      BY <1>3, <2>2
    <3>2. Ten[i] = 10 * p /\ p \in Nat \ {0}
      <4>1. Ten[i] = 10 * p
        BY <2>2, TenDef
      <4>2. i - 1 <= i - 1
        BY <3>1
      <4>3. QED
        BY <3>1, <4>1, <4>2, TenGrows
    <3>3. SUFFICES ASSUME n >= Ten[i] PROVE Len(M(n)) = i + Len(M(n \div Ten[i]))
      OBVIOUS
    <3>4. Len(M(n)) = (i - 1) + Len(M(x))
      <4>1. n >= p
        BY <3>2, <3>3
      <4> HIDE DEF M
      <4>2. QED
        BY <3>1, <4>1
    <3> HIDE DEF p
    <3>5. x \in Nat /\ x >= 10
      BY <3>2, <3>3, QuotientAtLeast
    <3>6. n \div Ten[i] = x \div 10
      <4> DEFINE y == x \div 10
                 r == n % p
                 e == p * (x % 10) + r
      <4>1. r \in Nat /\ r < p /\ n = p * x + r
        BY <3>2, Divided
      <4> HIDE DEF x, r
      <4>2. y \in Nat /\ x % 10 \in 0 .. 9 /\ x = 10 * y + (x % 10)
        BY <3>5, DivTen
      <4> DEFINE z == x % 10
      <4> HIDE DEF y, z
      <4>3. p * z <= p * 9 /\ p * z \in Nat
        BY <3>2, <4>2 DEF z
      <4>4. e \in Nat /\ e < 10 * p
        BY <3>2, <4>1, <4>3 DEF z
      <4>5. p * x = p * (10 * y + z)
        BY <4>2 DEF z
      <4>6. p * (10 * y + z) = (10 * p) * y + p * z
        BY <3>2, <4>2 DEF z
      <4>7. n = (10 * p) * y + e
        BY <3>2, <4>1, <4>2, <4>3, <4>5, <4>6 DEF z
      <4> DEFINE c == 10 * p
      <4>8. c \in Nat \ {0}
        BY <3>2
      <4> HIDE DEF c, e
      <4>9. n = c * y + e /\ e < c
        BY <4>4, <4>7 DEF c
      <4>10. n \div c = y
        BY <4>2, <4>4, <4>8, <4>9, DividedBy
      <4>11. QED
        BY <3>2, <4>10 DEF c, y
    <3> HIDE DEF x
    <3>7. /\ M(x) = Append(M(x \div 10), Zero + (x % 10))
          /\ M(x \div 10) \in Seq(Char) /\ x \div 10 \in Nat
      <4>1. x \div 10 \in Nat /\ ~(x < 10)
        BY <3>5, DivTen
      <4>2. QED
        BY <3>5, <4>1, MetaDef
    <3>8. Len(M(x)) = Len(M(x \div 10)) + 1
      BY <3>7
    <3> HIDE DEF M
    <3>9. Len(M(x \div 10)) \in Nat
      BY <1>2, <3>7
    <3>10. QED
      BY <2>2, <3>4, <3>6, <3>8, <3>9
  <2>3. QED
    BY <2>1, <2>2
<1>4. k \in T
  <2> HIDE DEF T, m
  <2>1. QED
    BY <1>1, <1>3, Measured
<1>5. n \div Ten[k] \in Nat
  BY TenGrows, Divided
<1>6. QED
  BY <1>4, <1>5

\* parseLength of a number not negative is the number of its digits.
LEMMA NatLengthIs == \A n \in Nat : NatLength[n] = Len(NumericMetaString[n])
<1> DEFINE w == ParseWidth
           Decade(n) == CHOOSE k \in 1 .. w : Ten[k - 1] <= n /\ n <= Ten[k] - 1
           Is(f) == f = [n \in Nat |-> IF n = 0 THEN 1 ELSE IF n < Ten[w] THEN Decade(n)
                                       ELSE w + f[n \div Ten[w]]]
           f == [n \in Nat |-> Len(NumericMetaString[n])]
           m == [n \in Nat |-> n]
           T == {n \in Nat : NatLength[n] = f[n]}
<1>0. w \in Nat \ {0}
  BY ParseAssumption
<1>1. ASSUME NEW n \in Nat, n # 0, n < Ten[w] PROVE f[n] = Decade(n)
  <2> DEFINE l == Len(NumericMetaString[n])
             At1(k) == Ten[k - 1] <= n /\ n <= Ten[k] - 1
  <2>1. /\ l \in Nat \ {0} /\ n < Ten[l] /\ Ten[l - 1] <= n
    BY <1>1, Digits
  <2> HIDE DEF l
  <2>2. l - 1 \in Nat /\ Ten[l] \in Nat /\ Ten[l - 1] \in Nat /\ Ten[w] \in Nat
    BY <1>0, <2>1, TenDef
  <2>3. l <= w
    <3>1. CASE w <= l - 1
      BY <1>0, <1>1, <2>1, <2>2, <3>1, TenGrows
    <3>2. QED
      BY <1>0, <2>1, <3>1
  <2>4. l \in 1 .. w /\ At1(l)
    BY <2>1, <2>2, <2>3
  <2>5. ASSUME NEW k \in 1 .. w, At1(k) PROVE k = l
    <3>1. k - 1 \in Nat /\ k \in Nat /\ Ten[k] \in Nat /\ Ten[k - 1] \in Nat
      BY <1>0, TenDef
    <3>2. CASE k <= l - 1
      <4>1. Ten[k] <= Ten[l - 1]
        BY <2>2, <3>1, <3>2, TenGrows
      <4>2. QED
        BY <2>1, <2>2, <2>5, <3>1, <4>1
    <3>3. CASE l <= k - 1
      <4>1. Ten[l] <= Ten[k - 1]
        BY <2>1, <3>1, <3>3, TenGrows
      <4>2. QED
        BY <2>1, <2>2, <2>5, <3>1, <4>1
    <3>4. QED
      BY <2>1, <3>1, <3>2, <3>3
  <2> HIDE DEF At1
  <2>6. (CHOOSE k \in 1 .. w : At1(k)) = l
    BY <2>4, <2>5
  <2>7. Decade(n) = l
    BY <2>6 DEF At1
  <2>8. QED
    BY <2>7 DEF l
<1>2. ASSUME NEW n \in Nat, ~(n < Ten[w])
      PROVE  n \div Ten[w] \in Nat /\ n \div Ten[w] < n /\ f[n] = w + f[n \div Ten[w]]
  <2>1. Ten[w] \in Nat \ {0} /\ Ten[w] >= 10
    <3>1. Ten[1] = 10 /\ 1 <= w
      BY <1>0, TenValues
    <3>2. QED
      BY <1>0, <3>1, TenGrows
  <2>2. n \div Ten[w] \in Nat /\ Len(NumericMetaString[n]) = w + Len(NumericMetaString[n \div Ten[w]])
    BY <1>0, <1>2, <2>1, Drop
  <2>3. n \div Ten[w] < n
    <3> DEFINE a == Ten[w]
               x == n \div a
    <3> HIDE DEF a
    <3>1. x \in Nat /\ n = a * x + (n % a) /\ n % a \in Nat /\ a \in Nat /\ a >= 10
      BY <2>1, Divided DEF a
    <3> HIDE DEF x
    <3>2. a * x >= 10 * x /\ a * x \in Nat
      BY <3>1
    <3>3. x < n
      <4>1. n >= 10
        BY <1>2, <2>1 DEF a
      <4>2. QED
        BY <3>1, <3>2, <4>1
    <3>4. QED
      BY <3>3 DEF x, a
  <2>4. QED
    BY <2>2, <2>3
<1>3. f[0] = 1
  <2>1. NumericMetaString[0] = <<Zero + 0>>
    BY MetaDef
  <2>2. QED
    BY <2>1
<1>4. Is(f)
  <2> DEFINE V(n) == IF n = 0 THEN 1 ELSE IF n < Ten[w] THEN Decade(n) ELSE w + f[n \div Ten[w]]
  <2>1. f = [n \in Nat |-> f[n]]
    OBVIOUS
  <2> HIDE DEF f, Decade
  <2>2. \A n \in Nat : f[n] = V(n)
    BY <1>1, <1>2, <1>3
  <2> HIDE DEF V
  <2>3. f = [n \in Nat |-> V(n)]
    BY <2>1, <2>2
  <2>4. QED
    BY <2>3 DEF V
<1>5. Is(NatLength)
  <2>1. NatLength = CHOOSE h : Is(h)
    BY DEF NatLength
  <2> HIDE DEF Is, f
  <2>2. QED
    BY <1>4, <2>1
<1>6. m \in [Nat -> Nat]
  OBVIOUS
<1> HIDE DEF f, Decade
<1>7. ASSUME NEW n \in Nat, \A j \in Nat : m[j] < m[n] => j \in T PROVE n \in T
  <2>1. NatLength[n] = IF n = 0 THEN 1 ELSE IF n < Ten[w] THEN Decade(n)
                       ELSE w + NatLength[n \div Ten[w]]
    BY <1>5
  <2>2. CASE n < Ten[w]
    BY <1>1, <1>3, <2>1, <2>2
  <2>3. CASE ~(n < Ten[w])
    <3>1. n \div Ten[w] \in T
      BY <1>2, <1>7, <2>3
    <3>2. n # 0
      BY <1>2, <2>3
    <3>3. QED
      BY <1>2, <2>1, <2>3, <3>1, <3>2
  <2>4. QED
    BY <2>2, <2>3
<1>8. \A n \in Nat : n \in T
  <2> HIDE DEF T, m
  <2>1. QED
    BY <1>6, <1>7, Measured
<1>9. QED
  BY <1>8 DEF f

\* What parse writes into the bytes that parseLength counts
LEMMA ParseRight ==
  ASSUME NEW n \in Int
  PROVE  parseInteger(n, parseLength(n)) =
            IF n < 0 THEN <<Minus>> \o NumericMetaString[-n] ELSE NumericMetaString[n]
<1> DEFINE a == Abs(n)
           s == NumericMetaString[a]
           l == Len(s)
           len == parseLength(n)
           t == parseInteger(n, len)
           q == Parsed[a]
<1>1. a \in Nat /\ (n < 0 => a = -n) /\ (n >= 0 => a = n) /\ (a = 0 <=> n = 0)
  BY DEF Abs
<1>2. s \in Seq(Char) /\ l \in Nat \ {0}
  BY <1>1, Digits
<1>3. len = IF n < 0 THEN 1 + l ELSE l
  BY <1>1, NatLengthIs DEF parseLength
<1>4. q = IF n = 0 THEN <<>> ELSE s
  BY <1>1, ParsedIs
<1>5. t = [p \in 1 .. len |-> IF p > len - Len(q) THEN q[p - (len - Len(q))]
                             ELSE IF p = 1 /\ n < 0 THEN Minus
                             ELSE IF p = 1 /\ n = 0 THEN Zero ELSE Unset]
  BY DEF parseInteger
<1>6. CASE n > 0
  <2>1. a = n /\ len = l /\ q = s
    BY <1>1, <1>3, <1>4, <1>6
  <2> HIDE DEF a, s, len, q, t, l
  <2>2. Len(q) = l
    BY <2>1 DEF l
  <2>3. len - Len(q) = 0
    BY <1>2, <2>1, <2>2
  <2>4. t = [p \in 1 .. l |-> s[p]]
    <3> DEFINE V(p) == IF p > len - Len(q) THEN q[p - (len - Len(q))]
                       ELSE IF p = 1 /\ n < 0 THEN Minus
                       ELSE IF p = 1 /\ n = 0 THEN Zero ELSE Unset
    <3>1. ASSUME NEW p \in 1 .. l PROVE V(p) = s[p]
      <4>1. p > 0 /\ p - 0 = p
        BY <1>2
      <4>2. QED
        BY <2>1, <2>3, <4>1
    <3>2. t = [p \in 1 .. l |-> V(p)]
      BY <1>5, <2>1
    <3> HIDE DEF V
    <3>3. QED
      BY <3>1, <3>2
  <2>5. s = [p \in 1 .. l |-> s[p]]
    BY <1>2 DEF l
  <2>6. t = s
    BY <2>4, <2>5
  <2>7. s = NumericMetaString[n]
    BY <2>1 DEF s
  <2>8. QED
    BY <1>6, <2>6, <2>7 DEF t, len
<1>7. CASE n = 0
  <2>1. s = <<Zero + 0>> /\ a = 0
    BY <1>1, <1>7, MetaDef
  <2>2. l = 1 /\ len = 1 /\ q = <<>>
    BY <1>3, <1>4, <1>7, <2>1
  <2> HIDE DEF a, len, q, t, l
  <2>3. Len(q) = 0 /\ len - Len(q) = 1
    BY <2>2
  <2>4. t = [p \in 1 .. 1 |-> IF p = 1 THEN Zero ELSE Unset]
    BY <1>5, <1>7, <2>2, <2>3
  <2>5. Zero + 0 = Zero
    BY DEF Zero
  <2>6. t = <<Zero>>
    BY <2>4
  <2>7. NumericMetaString[n] = t
    BY <1>7, <2>1, <2>5, <2>6
  <2>8. QED
    BY <1>7, <2>7 DEF t, len
<1>8. CASE n < 0
  <2>1. a = -n /\ len = 1 + l /\ q = s
    BY <1>1, <1>3, <1>4, <1>8
  <2> HIDE DEF a, s, len, q, t, l
  <2>2. Len(q) = l
    BY <2>1 DEF l
  <2>3. len - Len(q) = 1
    BY <1>2, <2>1, <2>2
  <2>4. t = [p \in 1 .. 1 + l |-> IF p > 1 THEN s[p - 1] ELSE Minus]
    BY <1>2, <1>5, <1>8, <2>1, <2>3
  <2> DEFINE u == <<Minus>>
             v == u \o s
  <2>5. u \in Seq(Char) /\ Len(u) = 1 /\ u[1] = Minus
    BY DEF Minus, Char
  <2> HIDE DEF u
  <2>6. v \in Seq(Char) /\ Len(v) = Len(u) + Len(s)
        /\ \A k \in 1 .. Len(u) + Len(s) : v[k] = IF k <= Len(u) THEN u[k] ELSE s[k - Len(u)]
    BY <1>2, <2>5, ConcatProperties
  <2>7. Len(v) = 1 + l /\ \A k \in 1 .. 1 + l : v[k] = IF k > 1 THEN s[k - 1] ELSE Minus
    BY <1>2, <2>5, <2>6 DEF l
  <2> HIDE DEF v
  <2>8. v = [p \in 1 .. 1 + l |-> v[p]]
    BY <2>6, <2>7
  <2>9. t = v
    BY <2>4, <2>7, <2>8
  <2>10. v = <<Minus>> \o NumericMetaString[-n]
    BY <2>1 DEF v, u, s
  <2>11. QED
    BY <1>8, <2>9, <2>10 DEF t, len
<1>9. QED
  BY <1>6, <1>7, <1>8

\* A text of an integer
LEMMA NumberSays ==
  ASSUME NEW n \in Int
  PROVE  LET t == parseInteger(n, parseLength(n))
         IN  /\ t \in Seq(Char) /\ Len(t) \in Nat \ {0} /\ SaysNumber(t, n)
             /\ \A k \in 1 .. Len(t) : t[k] # Dot
<1> DEFINE t == parseInteger(n, parseLength(n))
<1>1. CASE n >= 0
  <2> DEFINE s == NumericMetaString[n]
  <2>1. /\ s \in Seq(Char) /\ Len(s) \in Nat \ {0} /\ ValueOf(s) = n
        /\ \A k \in 1 .. Len(s) : s[k] \in Zero .. Zero + 9
        /\ n # 0 => s[1] # Zero
    BY <1>1, Digits
  <2>2. t = s
    BY <1>1, ParseRight
  <2> HIDE DEF s, t
  <2>3. \A k \in 1 .. Len(s) : s[k] # Dot
    BY <2>1 DEF Zero, Dot
  <2>4. SaysNumber(s, n)
    BY <1>1, <2>1 DEF SaysNumber, Abs
  <2>5. QED
    BY <2>1, <2>2, <2>3, <2>4 DEF t
<1>2. CASE n < 0
  <2> DEFINE s == NumericMetaString[-n]
             u == <<Minus>>
             v == u \o s
  <2>1. /\ s \in Seq(Char) /\ Len(s) \in Nat \ {0} /\ ValueOf(s) = -n
        /\ \A k \in 1 .. Len(s) : s[k] \in Zero .. Zero + 9
        /\ s[1] # Zero
    BY <1>2, Digits
  <2>2. t = v
    BY <1>2, ParseRight
  <2>3. u \in Seq(Char) /\ Len(u) = 1 /\ u[1] = Minus
    BY DEF Minus, Char
  <2> HIDE DEF s, t, u
  <2>4. v \in Seq(Char) /\ Len(v) = Len(u) + Len(s)
        /\ \A k \in 1 .. Len(u) + Len(s) : v[k] = IF k <= Len(u) THEN u[k] ELSE s[k - Len(u)]
    BY <2>1, <2>3, ConcatProperties
  <2> HIDE DEF v
  <2>5. Len(v) = 1 + Len(s) /\ v[1] = Minus /\ \A k \in 1 .. Len(s) : v[k + 1] = s[k]
    <3>1. \A k \in 1 .. Len(s) : k + 1 \in 1 .. 1 + Len(s) /\ ~(k + 1 <= 1) /\ (k + 1) - 1 = k
      BY <2>1
    <3>2. QED
      BY <2>1, <2>3, <2>4, <3>1
  <2>6. \A k \in 1 .. Len(v) : v[k] # Dot
    <3>1. ASSUME NEW k \in 1 .. Len(v), k # 1 PROVE v[k] # Dot
      <4>1. k - 1 \in 1 .. Len(s) /\ (k - 1) + 1 = k
        BY <2>1, <2>5, <3>1
      <4>2. v[k] \in Zero .. Zero + 9
        BY <2>1, <2>5, <4>1
      <4>3. QED
        BY <4>2 DEF Zero, Dot
    <3>2. Minus # Dot
      BY DEF Minus, Dot
    <3>3. QED
      BY <2>5, <3>1, <3>2
  <2>7. Tail(v) = s
    <3>1. Tail(v) \in Seq(Char) /\ Len(Tail(v)) = Len(v) - 1
          /\ \A k \in 1 .. Len(Tail(v)) : Tail(v)[k] = v[k + 1]
      <4>1. v # <<>>
        BY <2>1, <2>5
      <4>2. QED
        BY <2>4, <4>1, HeadTailProperties
    <3> DEFINE w == Tail(v)
    <3> HIDE DEF w
    <3>2. w \in Seq(Char) /\ Len(w) = Len(s) /\ \A k \in 1 .. Len(w) : w[k] = s[k]
      BY <2>1, <2>5, <3>1 DEF w
    <3>3. w = s
      BY <2>1, <3>2, SeqEqual
    <3>4. QED
      BY <3>3 DEF w
  <2>8. SaysNumber(v, n)
    BY <1>2, <2>1, <2>5, <2>7 DEF SaysNumber, Abs
  <2>9. QED
    BY <2>1, <2>2, <2>4, <2>5, <2>6, <2>8 DEF t
<1>3. QED
  BY <1>1, <1>2

-----------------------------------------------------------------------------
(* The digits of a fraction                                                *)

\* The fractions are those below one, in parts of Unit.
LEMMA UnitIs == Unit \in Nat \ {0} /\ Fractions = 0 .. Unit - 1
<1>1. Unit \in Nat \ {0}
  BY SMT DEF Unit
<1>2. Fractions = 0 .. Unit - 1
  BY DEF Fractions
<1>3. QED
  BY <1>1, <1>2

\* The digits that parse() writes of a fraction, less one
LEMMA LimitIs == Limit = 5 /\ Limit \in Nat
  BY DEF Limit

\* A digit of a fraction, and what is left of it
LEMMA FractionStep ==
  ASSUME NEW f \in Fractions
  PROVE  /\ (10 * f) \div Unit \in 0 .. 9 /\ (10 * f) % Unit \in Fractions
         /\ 10 * f = Unit * ((10 * f) \div Unit) + ((10 * f) % Unit)
<1> DEFINE a == 10 * f
           u == Unit
           d == a \div u
           r == a % u
<1>1. u \in Nat \ {0} /\ f \in Nat /\ f < u /\ a \in Nat
  BY UnitIs
<1> HIDE DEF u
<1>2. a < 10 * u
  BY <1>1
<1> HIDE DEF a
<1>3. d \in Nat /\ r \in Nat /\ r < u /\ a = u * d + r
  BY <1>1, Divided
<1> HIDE DEF d, r
<1>4. d <= 9
  <2>1. CASE d >= 10
    <3>1. u * d >= u * 10 /\ u * d \in Nat
      BY <1>1, <1>3, <2>1
    <3>2. QED
      BY <1>1, <1>2, <1>3, <3>1
  <2>2. QED
    BY <1>3, <2>1
<1>5. r \in Fractions
  BY <1>1, <1>3, UnitIs DEF u
<1>6. QED
  BY <1>3, <1>4, <1>5 DEF a, u, d, r

\* The digits of a fraction, l + 1 at most
FractionOf(v, f, l) ==
    <<Zero + ((10 * f) \div Unit)>>
    \o IF (10 * f) % Unit > 0 /\ l > 0 THEN v[(10 * f) % Unit] ELSE <<>>

\* They are characters.
LEMMA FractionOfType ==
  ASSUME NEW v, NEW f \in Fractions, NEW l \in Nat,
         l > 0 => v \in [Fractions -> Seq(Char)]
  PROVE  FractionOf(v, f, l) \in Seq(Char)
<1> DEFINE a == <<Zero + ((10 * f) \div Unit)>>
           b == IF (10 * f) % Unit > 0 /\ l > 0 THEN v[(10 * f) % Unit] ELSE <<>>
<1>1. a \in Seq(Char)
  <2>1. (10 * f) \div Unit \in 0 .. 9
    BY FractionStep
  <2> DEFINE d == (10 * f) \div Unit
  <2>2. d \in 0 .. 9
    BY <2>1
  <2> HIDE DEF d
  <2>3. Zero + d \in Char
    BY <2>2 DEF Zero, Char
  <2>4. Zero + ((10 * f) \div Unit) \in Char
    BY <2>3 DEF d
  <2>5. QED
    BY <2>4
<1>2. b \in Seq(Char)
  <2> DEFINE r == (10 * f) % Unit
  <2>1. r \in Fractions
    BY FractionStep
  <2> HIDE DEF r
  <2>2. <<>> \in Seq(Char)
    BY EmptySeq
  <2>3. r > 0 /\ l > 0 => v[r] \in Seq(Char)
    BY <2>1
  <2>4. b = IF r > 0 /\ l > 0 THEN v[r] ELSE <<>>
    BY DEF r
  <2> HIDE DEF b
  <2>5. QED
    BY <2>2, <2>3, <2>4
<1> HIDE DEF a, b
<1>3. a \o b \in Seq(Char)
  BY <1>1, <1>2, ConcatProperties
<1>4. QED
  BY <1>3 DEF FractionOf, a, b

\* The last digit needs no other.
LEMMA FractionOfZero ==
  ASSUME NEW v, NEW f \in Fractions
  PROVE  FractionOf(v, f, 0) \in Seq(Char)
<1>1. ASSUME NEW l, l = 0 PROVE FractionOf(v, f, l) \in Seq(Char)
  <2>1. l \in Nat /\ ~(l > 0)
    BY <1>1
  <2>2. QED
    BY <2>1, FractionOfType
<1>2. QED
  BY <1>1

\* Fraction goes from digit to digit.
LEMMA FractionDef ==
  ASSUME NEW l \in 0 .. Limit
  PROVE  /\ Fraction[l] \in [Fractions -> Seq(Char)]
         /\ \A f \in Fractions : Fraction[l][f] = FractionOf(Fraction[l - 1], f, l)
<1> DEFINE S == [Fractions -> Seq(Char)]
           Is(F) == F = [limit \in 0 .. Limit |->
                           [f \in Fractions |->
                              <<Zero + (10 * f) \div Unit>>
                              \o IF (10 * f) % Unit > 0 /\ limit > 0
                                 THEN F[limit - 1][(10 * f) % Unit] ELSE <<>>]]
           base == [f \in Fractions |-> FractionOf(0, f, 0)]
           g == [k \in 1 .. Limit |-> [v \in S |-> [f \in Fractions |-> FractionOf(v, f, k)]]]
<1>0. Limit \in Nat
  BY LimitIs
<1>1. base \in S
  <2>1. \A f \in Fractions : FractionOf(0, f, 0) \in Seq(Char)
    BY FractionOfZero
  <2>2. QED
    BY <2>1
<1>2. ASSUME NEW k \in 1 .. Limit, NEW v \in S PROVE g[k][v] \in S
  <2>1. \A f \in Fractions : FractionOf(v, f, k) \in Seq(Char)
    BY <1>0, FractionOfType
  <2>2. g[k][v] = [f \in Fractions |-> FractionOf(v, f, k)]
    OBVIOUS
  <2>3. QED
    BY <2>1, <2>2
<1>3. PICK F \in [0 .. Limit -> S] : Walks(F, Limit, base, g)
  <2> HIDE DEF S, base, g
  <2>1. Steps(Limit, S, g)
    BY <1>2 DEF Steps
  <2>2. QED
    BY <1>0, <1>1, <2>1, Walk
<1>4. ASSUME NEW k \in 0 .. Limit
      PROVE  F[k] = [f \in Fractions |-> FractionOf(F[k - 1], f, k)]
  <2>1. CASE k = 0
    <3>1. F[k] = base
      BY <1>3, <2>1 DEF Walks
    <3>2. \A f \in Fractions : FractionOf(0, f, 0) = FractionOf(F[k - 1], f, k)
      BY <2>1 DEF FractionOf
    <3>3. QED
      BY <3>1, <3>2
  <2>2. CASE k # 0
    <3>1. k \in 1 .. Limit /\ k - 1 \in 0 .. Limit
      BY <1>0, <2>2
    <3>2. F[k - 1] \in S /\ F[k] = g[k][F[k - 1]]
      <4> HIDE DEF S, g, base
      <4> QED BY <1>3, <3>1 DEF Walks
    <3> HIDE DEF S
    <3>3. g[k][F[k - 1]] = [f \in Fractions |-> FractionOf(F[k - 1], f, k)]
      BY <3>1, <3>2
    <3>4. QED
      BY <3>2, <3>3
  <2>3. QED
    BY <2>1, <2>2
<1>5. Is(F)
  <2>1. F = [k \in 0 .. Limit |-> [f \in Fractions |-> FractionOf(F[k - 1], f, k)]]
    BY <1>4
  <2>2. QED
    BY <2>1 DEF FractionOf
<1>6. Is(Fraction)
  <2>1. Fraction = CHOOSE h : Is(h)
    BY DEF Fraction
  <2> HIDE DEF Is
  <2>2. QED
    BY <1>5, <2>1
<1>7. ASSUME NEW k \in 0 .. Limit
      PROVE  Fraction[k] = [f \in Fractions |-> FractionOf(Fraction[k - 1], f, k)]
  BY <1>6 DEF FractionOf
<1> DEFINE T == {k \in 0 .. Limit : Fraction[k] \in S}
<1>8. 0 \in T
  <2>1. Fraction[0] = [f \in Fractions |-> FractionOf(Fraction[0 - 1], f, 0)]
    BY <1>0, <1>7
  <2>2. \A f \in Fractions : FractionOf(Fraction[0 - 1], f, 0) \in Seq(Char)
    BY FractionOfZero
  <2>3. Fraction[0] \in S
    BY <2>1, <2>2
  <2>4. QED
    BY <1>0, <2>3
<1>9. ASSUME NEW k \in 1 .. Limit, k - 1 \in T PROVE k \in T
  <2>1. Fraction[k - 1] \in [Fractions -> Seq(Char)] /\ k \in Nat /\ k \in 0 .. Limit
    BY <1>0, <1>9
  <2>2. \A f \in Fractions : FractionOf(Fraction[k - 1], f, k) \in Seq(Char)
    BY <2>1, FractionOfType
  <2>3. Fraction[k] = [f \in Fractions |-> FractionOf(Fraction[k - 1], f, k)]
    BY <1>7, <2>1
  <2>4. Fraction[k] \in S
    BY <2>2, <2>3
  <2>5. QED
    BY <2>1, <2>4
<1>10. l \in T
  <2> HIDE DEF T
  <2>1. QED
    BY <1>0, <1>8, <1>9, Induction
<1>11. \A f \in Fractions : Fraction[l][f] = FractionOf(Fraction[l - 1], f, l)
  <2>1. Fraction[l] = [f \in Fractions |-> FractionOf(Fraction[l - 1], f, l)]
    BY <1>7
  <2>2. QED
    BY <2>1
<1>12. QED
  BY <1>10, <1>11

\* What a text of at most l + 1 digits says of a fraction f
SaysFraction(s, f, l) ==
    /\ s \in Seq(Char) /\ Len(s) \in 1 .. l + 1
    /\ \A k \in 1 .. Len(s) : s[k] \in Zero .. Zero + 9
    /\ \E e \in Nat : /\ e < Unit /\ f * Ten[Len(s)] = Unit * ValueOf(s) + e
                      /\ Len(s) < l + 1 => e = 0

\* A text of one digit
LEMMA OneDigit ==
  ASSUME NEW d \in 0 .. 9
  PROVE  LET s == <<Zero + d>>
         IN  /\ s \in Seq(Char) /\ s \in Seq(Int) /\ Len(s) = 1 /\ s[1] = Zero + d
             /\ ValueOf(s) = d
<1> DEFINE c == Zero + d
           s == <<c>>
<1>1. c \in Char /\ c \in Int /\ c - Zero = d
  BY DEF Zero, Char
<1> HIDE DEF c
<1>2. s \in Seq(Char) /\ s \in Seq(Int) /\ Len(s) = 1 /\ s[1] = c
  BY <1>1
<1>3. <<>> \in Seq(Int) /\ ValueOf(<<>>) = 0
  BY EmptySeq, ValueOfEmpty
<1>4. ValueOf(Append(<<>>, c)) = 10 * ValueOf(<<>>) + (c - Zero)
  BY <1>1, <1>3, ValueOfAppend
<1>5. Append(<<>>, c) = s
  OBVIOUS
<1>6. ValueOf(s) = d
  BY <1>1, <1>3, <1>4, <1>5
<1>7. QED
  BY <1>2, <1>6 DEF c

\* The last digit says a fraction.
LEMMA LastDigit ==
  ASSUME NEW f \in Fractions, NEW l \in Nat, ~((10 * f) % Unit > 0 /\ l > 0)
  PROVE  SaysFraction(<<Zero + ((10 * f) \div Unit)>>, f, l)
<1> DEFINE d == (10 * f) \div Unit
           r == (10 * f) % Unit
           s == <<Zero + d>>
<1>1. d \in 0 .. 9 /\ r \in Nat /\ r < Unit /\ 10 * f = Unit * d + r /\ f \in Nat /\ Unit \in Nat
  BY FractionStep, UnitIs
<1>2. ~(r > 0 /\ l > 0)
  OBVIOUS
<1> HIDE DEF d, r
<1>3. s \in Seq(Char) /\ Len(s) = 1 /\ s[1] = Zero + d /\ ValueOf(s) = d
  BY <1>1, OneDigit
<1> HIDE DEF s
<1>4. Zero + d \in Zero .. Zero + 9
  BY <1>1 DEF Zero
<1>5. f * Ten[Len(s)] = Unit * ValueOf(s) + r
  <2>1. f * 10 = 10 * f
    BY <1>1
  <2>2. Ten[Len(s)] = 10
    BY <1>3, TenValues
  <2>3. QED
    BY <1>1, <1>3, <2>1, <2>2
<1>6. Len(s) < l + 1 => r = 0
  BY <1>1, <1>2, <1>3
<1>7. Len(s) \in 1 .. l + 1 /\ \A k \in 1 .. Len(s) : s[k] \in Zero .. Zero + 9
  BY <1>3, <1>4
<1>8. SaysFraction(s, f, l)
  BY <1>1, <1>3, <1>5, <1>6, <1>7 DEF SaysFraction
<1>9. QED
  BY <1>8 DEF s, d

\* A digit in front of what says the rest says the fraction.
LEMMA MoreDigits ==
  ASSUME NEW f \in Fractions, NEW l \in Nat \ {0}, NEW t,
         SaysFraction(t, (10 * f) % Unit, l - 1)
  PROVE  /\ SaysFraction(<<Zero + ((10 * f) \div Unit)>> \o t, f, l)
         /\ Len(<<Zero + ((10 * f) \div Unit)>> \o t) = 1 + Len(t)
<1> DEFINE d == (10 * f) \div Unit
           r == (10 * f) % Unit
           a == <<Zero + d>>
           s == a \o t
           n == Len(t)
           z == ValueOf(t)
<1>1. d \in 0 .. 9 /\ r \in Nat /\ r < Unit /\ 10 * f = Unit * d + r /\ f \in Nat /\ Unit \in Nat
  BY FractionStep, UnitIs
<1>2. SaysFraction(t, r, l - 1)
  OBVIOUS
<1> HIDE DEF d, r
<1>3. a \in Seq(Char) /\ a \in Seq(Int) /\ Len(a) = 1 /\ a[1] = Zero + d /\ ValueOf(a) = d
  BY <1>1, OneDigit
<1>4. /\ t \in Seq(Char) /\ n \in 1 .. l /\ n \in Nat
      /\ \A k \in 1 .. n : t[k] \in Zero .. Zero + 9
  BY <1>2 DEF SaysFraction
<1>5. PICK e \in Nat : /\ e < Unit /\ r * Ten[n] = Unit * z + e /\ (n < l => e = 0)
  <2>1. (l - 1) + 1 = l
    OBVIOUS
  <2>2. QED
    BY <1>2, <2>1 DEF SaysFraction
<1>6. t \in Seq(Int)
  <2>1. Char \subseteq Int
    BY DEF Char
  <2>2. QED
    BY <1>4, <2>1
<1> HIDE DEF a
<1>7. z \in Int
  <2>1. \A u \in Seq(Int) : ValueOf(u) \in Int
    <3> QED BY ValueOfAppend
  <2>2. QED
    BY <1>6, <2>1
<1>8. s \in Seq(Char) /\ Len(s) = Len(a) + Len(t)
      /\ \A k \in 1 .. Len(a) + Len(t) : s[k] = IF k <= Len(a) THEN a[k] ELSE t[k - Len(a)]
  BY <1>3, <1>4, ConcatProperties
<1>9. ValueOf(s) = ValueOf(a) * Ten[Len(t)] + ValueOf(t)
  BY <1>3, <1>6, ValueOfConcat
<1>10. ValueOf(s) = d * Ten[n] + z
  BY <1>3, <1>9
<1> HIDE DEF s, z
<1>11. Len(s) = 1 + n
  BY <1>3, <1>8
<1>12. \A k \in 1 .. Len(s) : s[k] \in Zero .. Zero + 9
  <2>1. ASSUME NEW k \in 1 .. Len(s), k # 1 PROVE s[k] \in Zero .. Zero + 9
    <3>1. k - 1 \in 1 .. n /\ ~(k <= 1) /\ k \in 1 .. Len(a) + Len(t)
      BY <1>3, <1>4, <1>11, <2>1
    <3>2. s[k] = t[k - 1]
      BY <1>3, <1>8, <3>1
    <3>3. QED
      BY <1>4, <3>1, <3>2
  <2>2. 1 \in 1 .. Len(a) + Len(t)
    BY <1>3, <1>4
  <2>3. s[1] = Zero + d
    BY <1>3, <1>8, <2>2
  <2>4. Zero + d \in Zero .. Zero + 9
    BY <1>1 DEF Zero
  <2>5. QED
    BY <2>1, <2>3, <2>4
<1> DEFINE q == Ten[n]
           u == Unit
<1>13. q \in Nat /\ Ten[1 + n] = 10 * q
  <2>1. n \in Nat /\ 1 + n \in Nat \ {0} /\ (1 + n) - 1 = n
    BY <1>4
  <2>2. QED
    BY <2>1, TenDef
<1>14. u \in Nat
  BY <1>1
<1> HIDE DEF q, n
<1>15. f * (10 * q) = u * (d * q + z) + e
  <2>1. 10 * f = u * d + r /\ r * q = u * z + e
    BY <1>1, <1>5 DEF u, q
  <2> HIDE DEF u
  <2>2. f * (10 * q) = (10 * f) * q
    BY <1>1, <1>13
  <2>3. (u * d + r) * q = u * (d * q) + r * q
    BY <1>1, <1>13, <1>14
  <2>4. u * (d * q) + (u * z + e) = u * (d * q + z) + e
    BY <1>1, <1>5, <1>7, <1>13, <1>14
  <2>5. QED
    BY <2>1, <2>2, <2>3, <2>4
<1>16. f * Ten[Len(s)] = Unit * ValueOf(s) + e
  BY <1>10, <1>11, <1>13, <1>15 DEF q, u
<1>17. Len(s) \in 1 .. l + 1 /\ (Len(s) < l + 1 => e = 0)
  BY <1>4, <1>5, <1>11
<1>18. SaysFraction(s, f, l)
  BY <1>5, <1>8, <1>12, <1>16, <1>17 DEF SaysFraction
<1>19. QED
  BY <1>11, <1>18 DEF s, a, d, n

\* Each number of digits says a fraction as well as it can.
LEMMA FractionSays ==
  ASSUME NEW l \in 0 .. Limit
  PROVE  \A f \in Fractions : SaysFraction(Fraction[l][f], f, l)
<1> DEFINE T == {k \in 0 .. Limit : \A f \in Fractions : SaysFraction(Fraction[k][f], f, k)}
<1>0. Limit \in Nat
  BY LimitIs
<1>1. ASSUME NEW k \in 0 .. Limit, k > 0 => k - 1 \in T, NEW f \in Fractions
      PROVE  SaysFraction(Fraction[k][f], f, k)
  <2> DEFINE r == (10 * f) % Unit
             a == <<Zero + ((10 * f) \div Unit)>>
  <2>1. Fraction[k][f] = a \o IF r > 0 /\ k > 0 THEN Fraction[k - 1][r] ELSE <<>>
    BY FractionDef DEF FractionOf
  <2>2. k \in Nat
    BY <1>0
  <2>3. CASE r > 0 /\ k > 0
    <3>1. r \in Fractions
      BY FractionStep
    <3>2. SaysFraction(Fraction[k - 1][r], r, k - 1)
      BY <1>1, <2>3, <3>1
    <3>3. k \in Nat \ {0}
      BY <2>2, <2>3
    <3>4. SaysFraction(a \o Fraction[k - 1][r], f, k)
      BY <3>2, <3>3, MoreDigits
    <3>5. QED
      BY <2>1, <2>3, <3>4
  <2>4. CASE ~(r > 0 /\ k > 0)
    <3>1. SaysFraction(a, f, k)
      BY <2>2, <2>4, LastDigit
    <3>2. a \in Seq(Char)
      BY <3>1 DEF SaysFraction
    <3> HIDE DEF a
    <3>3. a \o <<>> = a
      BY <3>2, ConcatEmptySeq
    <3>4. QED
      BY <2>1, <2>4, <3>1, <3>3
  <2>5. QED
    BY <2>3, <2>4
<1>2. 0 \in T
  <2>1. 0 \in 0 .. Limit /\ ~(0 > 0)
    BY <1>0
  <2> HIDE DEF T
  <2>2. \A f \in Fractions : SaysFraction(Fraction[0][f], f, 0)
    BY <1>1, <2>1
  <2>3. QED
    BY <2>1, <2>2 DEF T
<1>3. ASSUME NEW k \in 1 .. Limit, k - 1 \in T PROVE k \in T
  <2>1. k \in 0 .. Limit
    BY <1>0
  <2> HIDE DEF T
  <2>2. \A f \in Fractions : SaysFraction(Fraction[k][f], f, k)
    BY <1>1, <1>3, <2>1
  <2>3. QED
    BY <2>1, <2>2 DEF T
<1>4. l \in T
  <2> HIDE DEF T
  <2>1. QED
    BY <1>0, <1>2, <1>3, Induction
<1>5. QED
  BY <1>4

\* One digit more than the rest
LEMMA FractionLonger ==
  ASSUME NEW l \in 0 .. Limit, NEW f \in Fractions
  PROVE  Len(Fraction[l][f]) =
            1 + IF (10 * f) % Unit > 0 /\ l > 0 THEN Len(Fraction[l - 1][(10 * f) % Unit]) ELSE 0
<1> DEFINE r == (10 * f) % Unit
           a == <<Zero + ((10 * f) \div Unit)>>
<1>1. Fraction[l][f] = a \o IF r > 0 /\ l > 0 THEN Fraction[l - 1][r] ELSE <<>>
  BY FractionDef DEF FractionOf
<1>2. l \in Nat
  BY LimitIs
<1>3. CASE r > 0 /\ l > 0
  <2>1. r \in Fractions /\ l - 1 \in 0 .. Limit /\ l \in Nat \ {0}
    BY <1>2, <1>3, LimitIs, FractionStep
  <2>2. SaysFraction(Fraction[l - 1][r], r, l - 1)
    BY <2>1, FractionSays
  <2>3. Len(a \o Fraction[l - 1][r]) = 1 + Len(Fraction[l - 1][r])
    BY <2>1, <2>2, MoreDigits
  <2>4. QED
    BY <1>1, <1>3, <2>3
<1>4. CASE ~(r > 0 /\ l > 0)
  <2>1. SaysFraction(a, f, l)
    BY <1>2, <1>4, LastDigit
  <2>2. a \in Seq(Char)
    BY <2>1 DEF SaysFraction
  <2>3. Len(a) = 1
    OBVIOUS
  <2> HIDE DEF a
  <2>4. a \o <<>> = a
    BY <2>2, ConcatEmptySeq
  <2>5. Fraction[l][f] = a
    BY <1>1, <1>4, <2>4
  <2>6. Len(Fraction[l][f]) = 1
    BY <2>3, <2>5
  <2>7. 1 + 0 = 1
    OBVIOUS
  <2>8. QED
    BY <1>4, <2>6, <2>7
<1>5. QED
  BY <1>3, <1>4

\* parseLength of a fraction is the number of digits that parse() writes.
LEMMA FractionLengthIs ==
  ASSUME NEW l \in 0 .. Limit
  PROVE  \A f \in Fractions : FractionLength[l][f] = Len(Fraction[l][f])
<1> DEFINE Is(F) == F = [limit \in 0 .. Limit |->
                           [f \in Fractions |->
                              1 + IF (10 * f) % Unit > 0 /\ limit > 0
                                  THEN F[limit - 1][(10 * f) % Unit] ELSE 0]]
           F == [k \in 0 .. Limit |-> [f \in Fractions |-> Len(Fraction[k][f])]]
           T == {k \in 0 .. Limit : \A f \in Fractions : FractionLength[k][f] = Len(Fraction[k][f])}
<1>0. Limit \in Nat
  BY LimitIs
<1>1. \A f \in Fractions : (10 * f) % Unit \in Fractions
  BY FractionStep
<1>2. Is(F)
  <2> DEFINE V(k, f) == 1 + IF (10 * f) % Unit > 0 /\ k > 0 THEN F[k - 1][(10 * f) % Unit] ELSE 0
  <2>1. ASSUME NEW k \in 0 .. Limit, NEW f \in Fractions
        PROVE  Len(Fraction[k][f]) = V(k, f)
    <3> DEFINE r == (10 * f) % Unit
    <3>1. Len(Fraction[k][f]) = 1 + IF r > 0 /\ k > 0 THEN Len(Fraction[k - 1][r]) ELSE 0
      BY FractionLonger
    <3>2. r \in Fractions
      BY <1>1
    <3> HIDE DEF r
    <3>3. k > 0 => F[k - 1][r] = Len(Fraction[k - 1][r])
      <4>1. k > 0 => k - 1 \in 0 .. Limit
        BY <1>0
      <4>2. QED
        BY <3>2, <4>1
    <3>4. V(k, f) = 1 + IF r > 0 /\ k > 0 THEN F[k - 1][r] ELSE 0
      BY DEF r
    <3> HIDE DEF F, V
    <3>5. QED
      BY <3>1, <3>3, <3>4
  <2> HIDE DEF V
  <2>2. F = [k \in 0 .. Limit |-> [f \in Fractions |-> V(k, f)]]
    BY <2>1
  <2> HIDE DEF F
  <2>3. QED
    BY <2>2 DEF V
<1>3. Is(FractionLength)
  <2>1. FractionLength = CHOOSE h : Is(h)
    BY DEF FractionLength
  <2> HIDE DEF Is, F
  <2>2. QED
    BY <1>2, <2>1
<1>4. ASSUME NEW k \in 0 .. Limit, NEW f \in Fractions
      PROVE  FractionLength[k][f] = 1 + IF (10 * f) % Unit > 0 /\ k > 0
                                        THEN FractionLength[k - 1][(10 * f) % Unit] ELSE 0
  <2> DEFINE V(i, g) == 1 + IF (10 * g) % Unit > 0 /\ i > 0
                           THEN FractionLength[i - 1][(10 * g) % Unit] ELSE 0
  <2>1. FractionLength = [i \in 0 .. Limit |-> [g \in Fractions |-> V(i, g)]]
    BY <1>3
  <2> HIDE DEF V
  <2>2. FractionLength[k][f] = V(k, f)
    BY <2>1
  <2>3. QED
    BY <2>2 DEF V
<1> HIDE DEF Is, F
<1>5. ASSUME NEW k \in 0 .. Limit, k > 0 => k - 1 \in T PROVE k \in T
  <2>1. ASSUME NEW f \in Fractions PROVE FractionLength[k][f] = Len(Fraction[k][f])
    <3> DEFINE r == (10 * f) % Unit
    <3>1. Len(Fraction[k][f]) = 1 + IF r > 0 /\ k > 0 THEN Len(Fraction[k - 1][r]) ELSE 0
      BY FractionLonger
    <3>2. FractionLength[k][f] = 1 + IF r > 0 /\ k > 0 THEN FractionLength[k - 1][r] ELSE 0
      BY <1>4
    <3>3. r \in Fractions
      BY <1>1
    <3> HIDE DEF r
    <3>4. k > 0 => FractionLength[k - 1][r] = Len(Fraction[k - 1][r])
      BY <1>5, <3>3
    <3>5. QED
      BY <3>1, <3>2, <3>4
  <2>2. QED
    BY <2>1
<1>6. l \in T
  <2> HIDE DEF T
  <2>1. 0 \in T
    <3>1. 0 \in 0 .. Limit /\ ~(0 > 0)
      BY <1>0
    <3>2. QED
      BY <1>5, <3>1
  <2>2. ASSUME NEW k \in 1 .. Limit, k - 1 \in T PROVE k \in T
    <3>1. k \in 0 .. Limit
      BY <1>0
    <3>2. QED
      BY <1>5, <2>2, <3>1
  <2>3. QED
    BY <1>0, <2>1, <2>2, Induction
<1>7. QED
  BY <1>6

\* A fraction: at most six digits, without a last zero
LEMMA FractionRight ==
  ASSUME NEW f \in Fractions
  PROVE  LET s == Fraction[Limit][f]
             n == Len(s)
         IN  /\ s \in Seq(Char) /\ n \in 1 .. 6 /\ FractionLength[Limit][f] = n
             /\ \A k \in 1 .. n : s[k] \in Zero .. Zero + 9
             /\ ValueOf(s) = f \div Ten[7 - n]
             /\ n < 6 => f % Ten[7 - n] = 0
<1> DEFINE s == Fraction[Limit][f]
           n == Len(s)
           z == ValueOf(s)
<1>1. Limit \in 0 .. Limit /\ Limit + 1 = 6
  BY LimitIs
<1>2. SaysFraction(s, f, Limit) /\ FractionLength[Limit][f] = n
  BY <1>1, FractionSays, FractionLengthIs
<1>3. /\ s \in Seq(Char) /\ n \in 1 .. 6
      /\ \A k \in 1 .. n : s[k] \in Zero .. Zero + 9
  BY <1>1, <1>2 DEF SaysFraction
<1>4. PICK e \in Nat : e < Unit /\ f * Ten[n] = Unit * z + e /\ (n < 6 => e = 0)
  BY <1>1, <1>2 DEF SaysFraction
<1>5. z \in Int
  <2>1. s \in Seq(Int)
    <3>1. Char \subseteq Int
      BY DEF Char
    <3>2. QED
      BY <1>3, <3>1
  <2>2. \A u \in Seq(Int) : ValueOf(u) \in Int
    BY ValueOfAppend
  <2>3. QED
    BY <2>1, <2>2
<1>6. f \in Nat
  BY UnitIs
<1> HIDE DEF z, n, s
<1>7. z = f \div Ten[7 - n] /\ (n < 6 => f % Ten[7 - n] = 0)
  <2> DEFINE Good(a, b) == f * a = b * a * z + e /\ e < b * a
                           => z = f \div b /\ (e = 0 => f % b = 0)
  <2>1. ASSUME NEW a \in Nat \ {0}, NEW b \in Nat \ {0} PROVE Good(a, b)
    <3> SUFFICES ASSUME f * a = b * a * z + e, e < b * a
                 PROVE  z = f \div b /\ (e = 0 => f % b = 0)
      OBVIOUS
    <3> DEFINE c == f - b * z
    <3>1. c \in Int /\ c * a = e
      BY <1>5, <1>6
    <3>2. f = b * z + c
      BY <1>5, <1>6
    <3> HIDE DEF c
    <3>3. c \in Nat
      <4>1. CASE c < 0
        <5>1. c * a < 0
          BY <3>1, <4>1
        <5>2. QED
          BY <3>1, <5>1
      <4>2. QED
        BY <3>1, <4>1
    <3>4. c < b
      <4>1. CASE c >= b
        <5>1. c * a >= b * a
          BY <3>3, <4>1
        <5>2. QED
          BY <3>1, <5>1
      <4>2. QED
        BY <3>3, <4>1
    <3>5. z \in Nat
      <4>1. CASE z <= -1
        <5>1. b * z <= -b
          BY <1>5, <4>1
        <5>2. b * z \in Int
          BY <1>5
        <5>3. QED
          BY <1>6, <3>2, <3>3, <3>4, <5>1, <5>2
      <4>2. QED
        BY <1>5, <4>1
    <3>6. f \div b = z /\ f % b = c
      BY <3>2, <3>3, <3>4, <3>5, DividedBy
    <3>7. e = 0 => c = 0
      <4>1. CASE c > 0
        <5>1. c * a > 0
          BY <3>3, <4>1
        <5>2. QED
          BY <3>1, <5>1
      <4>2. QED
        BY <3>3, <4>1
    <3>8. QED
      BY <3>6, <3>7
  <2>2. ASSUME NEW k \in Nat PROVE Ten[k] \in Nat \ {0}
    BY <2>2, TenGrows
  <2> DEFINE a == Ten[n]
             b == Ten[7 - n]
  <2>3. a \in Nat \ {0} /\ b \in Nat \ {0}
    <3>1. n \in Nat /\ 7 - n \in Nat
      BY <1>3
    <3>2. QED
      BY <2>2, <3>1
  <2>4. b * a = Unit
    <3>1. n = 1 \/ n = 2 \/ n = 3 \/ n = 4 \/ n = 5 \/ n = 6
      BY <1>3
    <3>2. QED
      BY <3>1, TenValues, SMT DEF Unit
  <2>5. f * a = b * a * z + e /\ e < b * a
    BY <1>4, <2>4
  <2>6. Good(a, b)
    BY <2>1, <2>3
  <2> HIDE DEF a, b
  <2>7. z = f \div b /\ (e = 0 => f % b = 0)
    BY <2>5, <2>6
  <2>8. QED
    BY <1>4, <2>7 DEF b
<1>8. QED
  BY <1>2, <1>3, <1>7 DEF z, n, s

-----------------------------------------------------------------------------
(* The text of a double                                                    *)

\* The dot of a number is between its whole and its fraction.
LEMMA DotFound ==
  ASSUME NEW p \in Seq(Char), NEW s \in Seq(Char),
         \A k \in 1 .. Len(p) : p[k] # Dot, \A k \in 1 .. Len(s) : s[k] # Dot
  PROVE  LET c == (p \o <<Dot>>) \o s
         IN  /\ c \in Seq(Char) /\ Len(c) = Len(p) + 1 + Len(s)
             /\ (CHOOSE k \in DOMAIN c : c[k] = Dot) = Len(p) + 1
             /\ SubSeq(c, 1, Len(p)) = p
             /\ SubSeq(c, Len(p) + 2, Len(c)) = s
<1> DEFINE o == <<Dot>>
           h == p \o o
           c == h \o s
           m == Len(p)
           n == Len(s)
<1>0. m \in Nat /\ n \in Nat
  BY LenProperties
<1>1. o \in Seq(Char) /\ Len(o) = 1 /\ o[1] = Dot
  BY DEF Dot, Char
<1> HIDE DEF o
<1>2. h \in Seq(Char) /\ Len(h) = Len(p) + Len(o)
      /\ \A k \in 1 .. Len(p) + Len(o) : h[k] = IF k <= Len(p) THEN p[k] ELSE o[k - Len(p)]
  BY <1>1, ConcatProperties
<1>3. Follows(h, p, o, Len(p), Len(o))
  BY <1>1, Behind
<1>4. SubSeq(p, 1, Len(p)) = p
  BY SubSeqFull
<1> HIDE DEF h
<1>5. c \in Seq(Char) /\ Len(c) = Len(h) + Len(s)
      /\ \A k \in 1 .. Len(h) + Len(s) : c[k] = IF k <= Len(h) THEN h[k] ELSE s[k - Len(h)]
  <2>1. h \in Seq(Char)
    BY <1>2
  <2>2. QED
    BY <2>1, ConcatProperties
<1>6. Follows(c, h, s, Len(h), Len(s))
  BY <1>2, Behind
<1> HIDE DEF c, m, n
<1>7. Len(h) = m + 1 /\ Len(c) = (m + 1) + n /\ Len(s) = n /\ Len(p) = m
  BY <1>1, <1>2, <1>5 DEF m, n
<1>8. SubSeq(c, (m + 1) + 1, (m + 1) + n) = s
  BY <1>6, <1>7 DEF Follows
<1>9. SubSeq(c, 1, m) = p
  <2>1. CASE m = 0
    <3>1. SubSeq(c, 1, m) = <<>>
      BY <1>0, <2>1, SubSeqEmpty
    <3>2. p = <<>>
      BY <1>7, <2>1, EmptySeq
    <3>3. QED
      BY <3>1, <3>2
  <2>2. CASE m # 0
    <3>1. 1 \in 1 .. m /\ m \in 1 .. m /\ 1 \in 1 .. m + 1 /\ m \in 1 .. m + 1
      BY <1>0, <2>2
    <3>2. SubSeq(c, 1, m) = SubSeq(h, 1, m)
      <4>1. \A i, j \in 1 .. m + 1 : SubSeq(c, i, j) = SubSeq(h, i, j)
        BY <1>6, <1>7 DEF Follows
      <4>2. QED
        BY <3>1, <4>1
    <3>3. SubSeq(h, 1, m) = SubSeq(p, 1, m)
      <4>1. \A i, j \in 1 .. m : SubSeq(h, i, j) = SubSeq(p, i, j)
        BY <1>3, <1>7 DEF Follows
      <4>2. QED
        BY <3>1, <4>1
    <3>4. QED
      BY <1>4, <1>7, <3>2, <3>3
  <2>3. QED
    BY <2>1, <2>2
<1>10. DOMAIN c = 1 .. (m + 1) + n
  BY <1>5, <1>7
<1>11. c[m + 1] = Dot
  <2>1. m + 1 \in 1 .. (m + 1) + n /\ m + 1 <= m + 1 /\ m + 1 \in 1 .. m + 1
        /\ ~(m + 1 <= m) /\ (m + 1) - m = 1
    BY <1>0
  <2>2. c[m + 1] = h[m + 1]
    BY <1>5, <1>7, <2>1
  <2>3. h[m + 1] = o[1]
    BY <1>1, <1>2, <1>7, <2>1
  <2>4. QED
    BY <1>1, <2>2, <2>3
<1>12. ASSUME NEW k \in 1 .. (m + 1) + n, c[k] = Dot PROVE k = m + 1
  <2>1. CASE k <= m
    <3>1. k \in 1 .. m /\ k <= m + 1 /\ k \in 1 .. m + 1
      BY <1>0, <2>1
    <3>2. c[k] = h[k] /\ h[k] = p[k]
      BY <1>1, <1>2, <1>5, <1>7, <2>1, <3>1
    <3>3. p[k] # Dot
      BY <1>7, <3>1
    <3>4. QED
      BY <1>12, <3>2, <3>3
  <2>2. CASE k > m + 1
    <3> DEFINE i == k - (m + 1)
    <3>1. ~(k <= m + 1) /\ i \in 1 .. n
      BY <1>0, <2>2
    <3>2. c[k] = s[i]
      BY <1>5, <1>7, <3>1
    <3>3. s[i] # Dot
      BY <1>7, <3>1
    <3>4. QED
      BY <1>12, <3>2, <3>3
  <2>3. QED
    BY <1>0, <2>1, <2>2
<1>13. (CHOOSE k \in DOMAIN c : c[k] = Dot) = m + 1
  <2>1. m + 1 \in DOMAIN c
    BY <1>0, <1>10
  <2>2. \A k \in DOMAIN c : c[k] = Dot => k = m + 1
    BY <1>10, <1>12
  <2>3. QED
    BY <1>11, <2>1, <2>2
<1>14. (m + 1) + 1 = m + 2
  BY <1>0
<1>15. QED
  BY <1>5, <1>7, <1>8, <1>9, <1>13, <1>14 DEF c, h, o, m, n

\* A sign in front
LEMMA AfterSign ==
  ASSUME NEW c \in Seq(Char)
  PROVE  LET v == <<Minus>> \o c
         IN  v \in Seq(Char) /\ Len(v) = 1 + Len(c) /\ v[1] = Minus /\ Tail(v) = c
<1> DEFINE u == <<Minus>>
           v == u \o c
           w == Tail(v)
<1>0. Len(c) \in Nat
  BY LenProperties
<1>1. u \in Seq(Char) /\ Len(u) = 1 /\ u[1] = Minus
  BY DEF Minus, Char
<1> HIDE DEF u
<1>2. v \in Seq(Char) /\ Len(v) = Len(u) + Len(c)
      /\ \A k \in 1 .. Len(u) + Len(c) : v[k] = IF k <= Len(u) THEN u[k] ELSE c[k - Len(u)]
  BY <1>1, ConcatProperties
<1> HIDE DEF v
<1>3. Len(v) = 1 + Len(c) /\ v[1] = Minus
  BY <1>0, <1>1, <1>2
<1>4. \A k \in 1 .. Len(c) : v[k + 1] = c[k]
  <2>1. \A k \in 1 .. Len(c) : k + 1 \in 1 .. 1 + Len(c) /\ ~(k + 1 <= 1) /\ (k + 1) - 1 = k
    BY <1>0
  <2>2. QED
    BY <1>1, <1>2, <2>1
<1>5. v # <<>>
  BY <1>0, <1>3
<1>6. w \in Seq(Char) /\ Len(w) = Len(v) - 1 /\ \A k \in 1 .. Len(w) : w[k] = v[k + 1]
  BY <1>2, <1>5, HeadTailProperties
<1> HIDE DEF w
<1>7. Len(w) = Len(c) /\ \A k \in 1 .. Len(w) : w[k] = c[k]
  BY <1>0, <1>3, <1>4, <1>6
<1>8. w = c
  BY <1>6, <1>7, SeqEqual
<1>9. QED
  BY <1>2, <1>3, <1>8 DEF w, v, u

\* The text of a double
LEMMA DoubleSays ==
  ASSUME NEW d \in Doubles
  PROVE  parseDouble(d) \in Seq(Char) /\ SaysDouble(parseDouble(d), d)
<1> DEFINE p == parseInteger(d.i, parseLength(d.i))
           s == Fraction[Limit][d.f]
           c == (p \o <<Dot>>) \o s
           t == parseDouble(d)
           number == IF d.neg THEN Tail(t) ELSE t
<1>1. d.neg \in BOOLEAN /\ d.i \in Nat /\ d.i \in Int /\ d.f \in Fractions
  BY DEF Doubles
<1>2. /\ p \in Seq(Char) /\ Len(p) \in Nat \ {0} /\ SaysNumber(p, d.i)
      /\ \A k \in 1 .. Len(p) : p[k] # Dot
  BY <1>1, NumberSays
<1>3. /\ s \in Seq(Char) /\ Len(s) \in 1 .. 6 /\ FractionLength[Limit][d.f] = Len(s)
      /\ \A k \in 1 .. Len(s) : s[k] \in Zero .. Zero + 9
      /\ ValueOf(s) = d.f \div Ten[7 - Len(s)]
      /\ Len(s) < 6 => d.f % Ten[7 - Len(s)] = 0
  BY <1>1, FractionRight
<1>4. parseLength(d.i) = Len(p)
  <2>1. parseLength(d.i) = Len(NumericMetaString[d.i])
    BY <1>1, NatLengthIs DEF parseLength
  <2>2. p = NumericMetaString[d.i]
    BY <1>1, ParseRight
  <2>3. QED
    BY <2>1, <2>2
<1>5. t = ((Sign(d) \o p) \o <<Dot>>) \o s
  BY DEF parseDouble
<1> HIDE DEF p, s
<1>6. \A k \in 1 .. Len(s) : s[k] # Dot
  BY <1>3, SMTT(30) DEF Zero, Dot
<1>7. /\ c \in Seq(Char) /\ Len(c) = Len(p) + 1 + Len(s)
      /\ (CHOOSE k \in DOMAIN c : c[k] = Dot) = Len(p) + 1
      /\ SubSeq(c, 1, Len(p)) = p
      /\ SubSeq(c, Len(p) + 2, Len(c)) = s
  BY <1>2, <1>3, <1>6, DotFound
<1>8. t = IF d.neg THEN <<Minus>> \o c ELSE c
  <2> DEFINE o == <<Dot>>
             u == <<Minus>>
  <2>1. o \in Seq(Char) /\ u \in Seq(Char)
    BY DEF Dot, Minus, Char
  <2>2. CASE d.neg
    <3>1. t = ((u \o p) \o o) \o s
      BY <1>5, <2>2 DEF Sign
    <3> HIDE DEF o, u, t
    <3>2. p \o o \in Seq(Char)
      BY <1>2, <2>1, ConcatProperties
    <3>3. (u \o p) \o o = u \o (p \o o)
      BY <1>2, <2>1, ConcatAssociative, SMTT(30)
    <3>4. (u \o (p \o o)) \o s = u \o ((p \o o) \o s)
      <4> DEFINE q == p \o o
      <4>1. q \in Seq(Char) /\ s \in Seq(Char)
        BY <1>3, <3>2
      <4> HIDE DEF q
      <4>2. (u \o q) \o s = u \o (q \o s)
        BY <2>1, <4>1, ConcatAssociative
      <4>3. QED
        BY <4>2 DEF q
    <3>5. QED
      BY <2>2, <3>1, <3>3, <3>4 DEF o, u
  <2>3. CASE ~d.neg
    <3>1. t = ((<<>> \o p) \o <<Dot>>) \o s
      BY <1>5, <2>3 DEF Sign
    <3>2. <<>> \o p = p
      BY <1>2, ConcatEmptySeq
    <3> HIDE DEF t
    <3>3. QED
      BY <2>3, <3>1, <3>2
  <2>4. QED
    BY <1>1, <2>2, <2>3
<1> HIDE DEF c
<1>9. <<Minus>> \o c \in Seq(Char) /\ Len(<<Minus>> \o c) = 1 + Len(c)
      /\ (<<Minus>> \o c)[1] = Minus /\ Tail(<<Minus>> \o c) = c
  BY <1>7, AfterSign
<1> HIDE DEF t, number
<1>10. t \in Seq(Char) /\ number = c /\ (d.neg => t[1] = Minus)
       /\ Len(t) = (IF d.neg THEN 1 ELSE 0) + Len(c)
  <2>1. CASE d.neg
    BY <1>7, <1>8, <1>9, <2>1 DEF number
  <2>2. CASE ~d.neg
    BY <1>7, <1>8, <2>2 DEF number
  <2>3. QED
    BY <2>1, <2>2
<1>11. Len(t) = parseLengthDouble(d)
  <2>1. parseLengthDouble(d) = Len(Sign(d)) + Len(p) + 1 + Len(s)
    BY <1>3, <1>4 DEF parseLengthDouble
  <2> DEFINE x == Len(Sign(d))
  <2>2. x = IF d.neg THEN 1 ELSE 0
    BY DEF Sign
  <2>3. parseLengthDouble(d) = x + Len(p) + 1 + Len(s)
    BY <2>1
  <2> HIDE DEF x
  <2>4. x \in Nat /\ Len(t) = x + Len(c)
    BY <1>10, <2>2
  <2>5. QED
    BY <1>2, <1>3, <1>7, <2>3, <2>4
<1> DEFINE dot == CHOOSE k \in DOMAIN number : number[k] = Dot
<1>12. dot = Len(p) + 1
  BY <1>7, <1>10
<1> HIDE DEF dot
<1>13. dot - 1 = Len(p) /\ dot + 1 = Len(p) + 2 /\ Len(number) - dot = Len(s)
  BY <1>2, <1>3, <1>7, <1>10, <1>12
<1>14. SubSeq(number, 1, dot - 1) = p /\ SubSeq(number, dot + 1, Len(number)) = s
  BY <1>7, <1>10, <1>13
<1>15. /\ Len(t) = parseLengthDouble(d)
       /\ d.neg => t[1] = Minus
       /\ SaysNumber(SubSeq(number, 1, dot - 1), d.i)
       /\ Len(number) - dot \in 1 .. 6
       /\ ValueOf(SubSeq(number, dot + 1, Len(number))) = d.f \div Ten[7 - (Len(number) - dot)]
       /\ Len(number) - dot < 6 => d.f % Ten[7 - (Len(number) - dot)] = 0
  BY <1>2, <1>3, <1>10, <1>11, <1>13, <1>14
<1>16. SaysDouble(t, d)
  BY <1>15 DEF SaysDouble, number, dot
<1>17. QED
  BY <1>10, <1>16 DEF t

-----------------------------------------------------------------------------
(* The order of tags                                                       *)

\* Of a set with a measure, one of the lowest
LEMMA Lowest ==
  ASSUME NEW D, D # {}, NEW m \in [D -> Nat]
  PROVE  \E x \in D : \A y \in D : m[x] <= m[y]
<1>1. SUFFICES ASSUME \A x \in D : \E y \in D : ~(m[x] <= m[y]) PROVE FALSE
  OBVIOUS
<1> DEFINE T == {}
<1>2. ASSUME NEW x \in D, \A y \in D : m[y] < m[x] => y \in T PROVE x \in T
  <2>1. PICK y \in D : ~(m[x] <= m[y])
    BY <1>1
  <2>2. m[y] \in Nat /\ m[x] \in Nat
    OBVIOUS
  <2>3. m[y] < m[x]
    BY <2>1, <2>2
  <2>4. QED
    BY <1>2, <2>3
<1>3. \A x \in D : x \in T
  <2> HIDE DEF T
  <2>1. QED
    BY <1>2, Measured
<1>4. QED
  BY <1>3

\* Each tag has a place of its own.
LEMMA ElemType ==
  /\ \A t \in Tags : Elem[t] \in 1 .. 3 /\ Elem[t] \in Nat
  /\ \A t, u \in Tags : Elem[t] = Elem[u] => t = u
<1>1. Elem["DateTime"] = 1 /\ Elem["Level"] = 2 /\ Elem["ThreadId"] = 3
  BY DEF Elem, Tags
<1>2. \A t \in Tags : t = "DateTime" \/ t = "Level" \/ t = "ThreadId"
  BY DEF Tags
<1>3. QED
  BY <1>1, <1>2

\* The first of the lowest tags
LEMMA MinIndexIs ==
  ASSUME NEW ts \in Seq(Tags), Len(ts) >= 1
  PROVE  /\ MinIndex(ts) \in 1 .. Len(ts)
         /\ \A j \in 1 .. Len(ts) : Elem[ts[MinIndex(ts)]] <= Elem[ts[j]]
<1> DEFINE n == Len(ts)
           D == 1 .. n
           m == [k \in D |-> Elem[ts[k]]]
<1>0. n \in Nat /\ DOMAIN ts = D /\ 1 \in D /\ \A k \in D : ts[k] \in Tags
  OBVIOUS
<1>1. m \in [D -> Nat]
  BY <1>0, ElemType
<1>2. PICK x \in D : \A y \in D : m[x] <= m[y]
  <2> HIDE DEF D, m
  <2>1. QED
    BY <1>0, <1>1, Lowest
<1>3. \A y \in D : Elem[ts[x]] <= Elem[ts[y]]
  BY <1>2
<1> DEFINE E == {k \in D : ts[k] = ts[x]}
           i == [k \in E |-> k]
<1>4. i \in [E -> Nat] /\ E # {}
  BY <1>0
<1>5. PICK k \in E : \A j \in E : i[k] <= i[j]
  <2> HIDE DEF E, i
  <2>1. QED
    BY <1>4, Lowest
<1>6. k \in D /\ ts[k] = ts[x] /\ \A j \in E : k <= j
  BY <1>5
<1>7. \A j \in 1 .. k - 1 : ts[j] # ts[k]
  <2>1. ASSUME NEW j \in 1 .. k - 1, ts[j] = ts[k] PROVE FALSE
    <3>1. j \in D /\ j < k
      BY <1>0, <1>6
    <3>2. j \in E
      BY <1>6, <2>1, <3>1
    <3>3. QED
      BY <1>0, <1>6, <3>1, <3>2
  <2>2. QED
    BY <2>1
<1> DEFINE Is(h) == /\ \A j \in DOMAIN ts : Elem[ts[h]] <= Elem[ts[j]]
                    /\ \A j \in 1 .. h - 1 : ts[j] # ts[h]
<1>8. Is(k)
  BY <1>0, <1>3, <1>6, <1>7
<1>9. MinIndex(ts) = CHOOSE h \in DOMAIN ts : Is(h)
  BY DEF MinIndex
<1>10. MinIndex(ts) \in DOMAIN ts /\ Is(MinIndex(ts))
  <2> HIDE DEF Is
  <2>1. k \in DOMAIN ts
    BY <1>0, <1>6
  <2>2. QED
    BY <1>8, <1>9, <2>1
<1>11. QED
  BY <1>0, <1>10

\* A sequence without one of its elements
LEMMA Removed ==
  ASSUME NEW S, NEW s \in Seq(S), NEW i \in 1 .. Len(s)
  PROVE  /\ RemoveAt(s, i) \in Seq(S) /\ Len(RemoveAt(s, i)) = Len(s) - 1
         /\ \A k \in 1 .. Len(s) - 1 : RemoveAt(s, i)[k] = IF k < i THEN s[k] ELSE s[k + 1]
<1> DEFINE n == Len(s)
           h == i - 1
           l == i + 1
           a == SubSeq(s, 1, h)
           b == SubSeq(s, l, n)
           r == a \o b
<1>0. n \in Nat /\ h \in Int /\ l \in Int /\ n \in Int /\ 1 \in Int /\ i \in 1 .. n
  OBVIOUS
<1>1. \A k \in 1 .. n : s[k] \in S
  OBVIOUS
<1>2. RemoveAt(s, i) = r
  BY DEF RemoveAt
<1>3. a \in Seq(S) /\ Len(a) = i - 1 /\ \A k \in 1 .. i - 1 : a[k] = s[k]
  <2>1. \A k \in 1 .. h : s[k] \in S
    <3>1. \A k \in 1 .. h : k \in 1 .. n
      BY <1>0
    <3>2. QED
      BY <1>1, <3>1
  <2>2. (1 <= h => h - 1 + 1 = i - 1) /\ (~(1 <= h) => 0 = i - 1) /\ h - 1 + 1 = i - 1
    BY <1>0
  <2>3. \A k \in 1 .. i - 1 : 1 + k - 1 = k
    BY <1>0
  <2> HIDE DEF h
  <2>4. a \in Seq(S)
    BY <1>0, <2>1, SubSeqProperties
  <2>5. Len(a) = IF 1 <= h THEN h - 1 + 1 ELSE 0
    BY <1>0, <2>1, SubSeqProperties
  <2>6. \A k \in 1 .. h - 1 + 1 : SubSeq(s, 1, h)[k] = s[1 + k - 1]
    BY <1>0, <2>1, SubSeqProperties
  <2> HIDE DEF a
  <2>7. Len(a) = i - 1
    BY <2>2, <2>5
  <2>8. \A k \in 1 .. i - 1 : a[k] = s[1 + k - 1]
    <3>1. \A k \in 1 .. h - 1 + 1 : a[k] = s[1 + k - 1]
      BY <2>6 DEF a
    <3>2. h - 1 + 1 = i - 1
      BY <2>2
    <3>3. QED
      BY <3>1, <3>2, Zenon
  <2>9. QED
    BY <2>3, <2>4, <2>7, <2>8
<1>4. b \in Seq(S) /\ Len(b) = n - i /\ \A k \in 1 .. n - i : b[k] = s[k + i]
  <2>1. \A k \in l .. n : s[k] \in S
    <3>1. \A k \in l .. n : k \in 1 .. n
      BY <1>0
    <3>2. QED
      BY <1>1, <3>1
  <2>2. (l <= n => n - l + 1 = n - i) /\ (~(l <= n) => 0 = n - i) /\ n - l + 1 = n - i
    BY <1>0
  <2>3. \A k \in 1 .. n - i : l + k - 1 = k + i
    BY <1>0
  <2> HIDE DEF l, n
  <2>4. b \in Seq(S)
    BY <1>0, <2>1, SubSeqProperties
  <2>5. Len(b) = IF l <= n THEN n - l + 1 ELSE 0
    BY <1>0, <2>1, SubSeqProperties
  <2>6. \A k \in 1 .. n - l + 1 : SubSeq(s, l, n)[k] = s[l + k - 1]
    BY <1>0, <2>1, SubSeqProperties
  <2> HIDE DEF b
  <2>7. Len(b) = n - i
    BY <2>2, <2>5
  <2>8. \A k \in 1 .. n - i : b[k] = s[l + k - 1]
    <3>1. \A k \in 1 .. n - l + 1 : b[k] = s[l + k - 1]
      BY <2>6 DEF b
    <3>2. n - l + 1 = n - i
      BY <2>2
    <3>3. QED
      BY <3>1, <3>2, Zenon
  <2>9. QED
    BY <2>3, <2>4, <2>7, <2>8
<1> HIDE DEF a, b, n, h, l
<1>5. r \in Seq(S) /\ Len(r) = Len(a) + Len(b)
      /\ \A k \in 1 .. Len(a) + Len(b) : r[k] = IF k <= Len(a) THEN a[k] ELSE b[k - Len(a)]
  <2>1. a \in Seq(S) /\ b \in Seq(S)
    BY <1>3, <1>4
  <2>2. QED
    BY <2>1, ConcatProperties
<1> HIDE DEF r
<1>6. Len(r) = n - 1
  BY <1>0, <1>3, <1>4, <1>5
<1>7. ASSUME NEW k \in 1 .. n - 1 PROVE r[k] = IF k < i THEN s[k] ELSE s[k + 1]
  <2>0. k \in 1 .. Len(a) + Len(b)
    BY <1>0, <1>3, <1>4
  <2>1. CASE k < i
    <3>1. k <= Len(a) /\ k \in 1 .. i - 1
      BY <1>0, <1>3, <2>1
    <3>2. QED
      BY <1>3, <1>5, <2>0, <2>1, <3>1
  <2>2. CASE ~(k < i)
    <3> DEFINE j == k - (i - 1)
    <3>1. ~(k <= Len(a)) /\ j \in 1 .. n - i /\ j + i = k + 1 /\ k - Len(a) = j
      BY <1>0, <1>3, <2>2
    <3> HIDE DEF j
    <3>2. r[k] = b[j]
      BY <1>5, <2>0, <3>1
    <3>3. QED
      BY <1>4, <2>2, <3>1, <3>2
  <2>3. QED
    BY <2>1, <2>2
<1>8. QED
  BY <1>2, <1>5, <1>6, <1>7 DEF n

\* Sort takes the lowest tag, and then the others.
LEMMA SortDef ==
  \A ts \in Seq(Tags) : Sort[ts] = IF Len(ts) <= 1 THEN ts
                                   ELSE <<ts[MinIndex(ts)]>> \o Sort[RemoveAt(ts, MinIndex(ts))]
<1> DEFINE D == Seq(Tags)
           Is(f) == f = [ts \in D |-> IF Len(ts) <= 1 THEN ts
                                      ELSE <<ts[MinIndex(ts)]>> \o f[RemoveAt(ts, MinIndex(ts))]]
           stop == {ts \in D : Len(ts) <= 1}
           m == [ts \in D |-> Len(ts)]
           base == [ts \in D |-> ts]
           down == [ts \in D |-> RemoveAt(ts, MinIndex(ts))]
           g == [ts \in D |-> [v \in D |-> <<ts[MinIndex(ts)]>> \o v]]
<1>1. m \in [D -> Nat] /\ D # {}
  <2>1. <<>> \in D
    BY EmptySeq
  <2>2. m \in [D -> Nat]
    OBVIOUS
  <2>3. QED
    BY <2>1, <2>2
<1>2. ASSUME NEW ts \in D, ts \notin stop
      PROVE  /\ RemoveAt(ts, MinIndex(ts)) \in D
             /\ Len(RemoveAt(ts, MinIndex(ts))) < Len(ts)
             /\ <<ts[MinIndex(ts)]>> \in D
  <2>1. Len(ts) \in Nat /\ Len(ts) >= 1
    BY <1>2
  <2>2. MinIndex(ts) \in 1 .. Len(ts)
    BY <2>1, MinIndexIs
  <2>3. RemoveAt(ts, MinIndex(ts)) \in D /\ Len(RemoveAt(ts, MinIndex(ts))) = Len(ts) - 1
    BY <2>2, Removed
  <2>4. ts[MinIndex(ts)] \in Tags
    BY <2>2, ElementOfSeq
  <2>5. QED
    BY <2>1, <2>3, <2>4
<1>3. PICK f \in [D -> D] : Solution(f, D, stop, down, base, g)
  <2>1. ASSUME NEW ts \in D
        PROVE  IF ts \in stop THEN base[ts] \in D
               ELSE /\ down[ts] \in D /\ m[down[ts]] < m[ts]
                    /\ \A v \in D : g[ts][v] \in D
    <3>1. CASE ts \in stop
      BY <3>1
    <3>2. CASE ts \notin stop
      <4>1. down[ts] \in D /\ m[down[ts]] < m[ts]
        BY <1>2, <3>2
      <4>2. ASSUME NEW v \in D PROVE g[ts][v] \in D
        <5> DEFINE a == <<ts[MinIndex(ts)]>>
        <5>1. a \in D
          BY <1>2, <3>2
        <5>2. g[ts][v] = a \o v
          OBVIOUS
        <5> HIDE DEF a
        <5>3. a \o v \in D
          BY <5>1, ConcatProperties
        <5>4. QED
          BY <5>2, <5>3
      <4> HIDE DEF g, down, stop, m, D
      <4>3. QED
        BY <3>2, <4>1, <4>2
    <3>3. QED
      BY <3>1, <3>2
  <2> HIDE DEF D, m, base, down, g, stop
  <2>3. Descends(D, D, m, stop, down, base, g)
    BY <2>1 DEF Descends
  <2>4. QED
    BY <1>1, <2>3, Recursion
<1>4. Is(f)
  <2> DEFINE V(ts) == IF Len(ts) <= 1 THEN ts
                      ELSE <<ts[MinIndex(ts)]>> \o f[RemoveAt(ts, MinIndex(ts))]
  <2>1. ASSUME NEW ts \in D PROVE f[ts] = V(ts)
    <3>1. CASE ts \in stop
      <4>1. f[ts] = base[ts]
        <5> HIDE DEF g, down, base, stop, D
        <5> QED BY <1>3, <3>1 DEF Solution
      <4>2. QED
        BY <3>1, <4>1
    <3>2. CASE ts \notin stop
      <4>1. f[ts] = g[ts][f[down[ts]]]
        <5> HIDE DEF g, down, base, stop, D
        <5> QED BY <1>3, <3>2 DEF Solution
      <4> DEFINE r == RemoveAt(ts, MinIndex(ts))
      <4>2. down[ts] = r /\ r \in D
        BY <1>2, <3>2
      <4>3. f[r] \in D
        BY <4>2
      <4>4. g[ts][f[r]] = <<ts[MinIndex(ts)]>> \o f[r]
        BY <4>3
      <4>5. ~(Len(ts) <= 1)
        BY <3>2
      <4> HIDE DEF g, down
      <4>6. QED
        BY <4>1, <4>2, <4>4, <4>5
    <3>3. QED
      BY <3>1, <3>2
  <2> HIDE DEF V, D
  <2>2. f = [ts \in D |-> V(ts)]
    BY <2>1
  <2>3. QED
    BY <2>2 DEF V
<1>5. Is(Sort)
  <2>1. Sort = CHOOSE h : Is(h)
    BY DEF Sort
  <2> HIDE DEF Is
  <2>2. QED
    BY <1>4, <2>1
<1> DEFINE V(ts) == IF Len(ts) <= 1 THEN ts
                    ELSE <<ts[MinIndex(ts)]>> \o Sort[RemoveAt(ts, MinIndex(ts))]
<1>6. Sort = [ts \in D |-> V(ts)]
  BY <1>5
<1> HIDE DEF V
<1>7. \A ts \in D : Sort[ts] = V(ts)
  BY <1>6
<1>8. QED
  BY <1>7 DEF V

\* The tags of ts in their fixed order
Ordered(o, ts) ==
    /\ o \in Seq(Tags) /\ Len(o) = Len(ts)
    /\ ToSet(o) = ToSet(ts)
    /\ \A i, j \in 1 .. Len(o) : i < j => Elem[o[i]] < Elem[o[j]]

Distinct(ts) == \A i, j \in 1 .. Len(ts) : ts[i] = ts[j] => i = j

\* The lowest tag and the others in order are all of them in order.
LEMMA SortStep ==
  ASSUME NEW ts \in Seq(Tags), Len(ts) >= 1, Distinct(ts), NEW o
  PROVE  LET r == RemoveAt(ts, MinIndex(ts))
         IN  /\ r \in Seq(Tags) /\ Len(r) < Len(ts) /\ Distinct(r)
             /\ Ordered(o, r) => Ordered(<<ts[MinIndex(ts)]>> \o o, ts)
<1> DEFINE n == Len(ts)
           i == MinIndex(ts)
           r == RemoveAt(ts, i)
           t == ts[i]
           a == <<t>>
           c == a \o o
<1>0. n \in Nat /\ n >= 1 /\ DOMAIN ts = 1 .. n
  OBVIOUS
<1>1. i \in 1 .. n /\ \A j \in 1 .. n : Elem[t] <= Elem[ts[j]]
  BY MinIndexIs
<1> HIDE DEF i
<1>2. /\ r \in Seq(Tags) /\ Len(r) = n - 1
      /\ \A k \in 1 .. n - 1 : r[k] = IF k < i THEN ts[k] ELSE ts[k + 1]
  BY <1>1, Removed
<1> HIDE DEF r, n
<1>3. Distinct(r)
  <2>1. ASSUME NEW j \in 1 .. n - 1, NEW k \in 1 .. n - 1, r[j] = r[k] PROVE j = k
    <3> DEFINE x == IF j < i THEN j ELSE j + 1
               y == IF k < i THEN k ELSE k + 1
    <3>1. x \in 1 .. n /\ y \in 1 .. n /\ (x = y => j = k)
      BY <1>0, <1>1
    <3>2. r[j] = ts[x] /\ r[k] = ts[y]
      BY <1>2
    <3> HIDE DEF x, y
    <3>3. QED
      BY <2>1, <3>1, <3>2 DEF Distinct, n
  <2>2. QED
    BY <1>2, <2>1 DEF Distinct
<1>4. ASSUME NEW k \in 1 .. n - 1 PROVE \E j \in 1 .. n : j # i /\ r[k] = ts[j]
  <2>1. CASE k < i
    <3>1. k \in 1 .. n /\ k # i
      BY <1>0, <1>1, <2>1
    <3>2. QED
      BY <1>2, <2>1, <3>1
  <2>2. CASE ~(k < i)
    <3>1. k + 1 \in 1 .. n /\ k + 1 # i
      BY <1>0, <1>1, <2>2
    <3>2. QED
      BY <1>2, <2>2, <3>1
  <2>3. QED
    BY <2>1, <2>2
<1>5. ASSUME NEW j \in 1 .. n, j # i PROVE \E k \in 1 .. n - 1 : r[k] = ts[j]
  <2>1. CASE j < i
    <3>1. j \in 1 .. n - 1
      BY <1>0, <1>1, <2>1
    <3>2. QED
      BY <1>2, <2>1, <3>1
  <2>2. CASE ~(j < i)
    <3> DEFINE k == j - 1
    <3>1. k \in 1 .. n - 1 /\ ~(k < i) /\ k + 1 = j
      BY <1>0, <1>1, <1>5, <2>2
    <3> HIDE DEF k
    <3>2. QED
      BY <1>2, <3>1
  <2>3. QED
    BY <2>1, <2>2
<1>6. t \in Tags
  BY <1>1, ElementOfSeq DEF n
<1>7. ASSUME Ordered(o, r) PROVE Ordered(c, ts)
  <2>1. /\ o \in Seq(Tags) /\ Len(o) = n - 1 /\ ToSet(o) = ToSet(r)
        /\ \A j, k \in 1 .. Len(o) : j < k => Elem[o[j]] < Elem[o[k]]
    BY <1>2, <1>7 DEF Ordered
  <2>2. a \in Seq(Tags) /\ Len(a) = 1 /\ a[1] = t
    BY <1>6
  <2> HIDE DEF a, t
  <2>3. c \in Seq(Tags) /\ Len(c) = Len(a) + Len(o)
        /\ \A k \in 1 .. Len(a) + Len(o) : c[k] = IF k <= Len(a) THEN a[k] ELSE o[k - Len(a)]
    <3>1. o \in Seq(Tags)
      BY <2>1
    <3>2. a \in Seq(Tags)
      BY <2>2
    <3>3. QED
      BY <3>1, <3>2, ConcatProperties
  <2> HIDE DEF c
  <2>4. Len(c) = n
    BY <1>0, <2>1, <2>2, <2>3
  <2>5. c[1] = t
    BY <1>0, <2>1, <2>2, <2>3
  <2>6. \A k \in 1 .. n : k # 1 => k - 1 \in 1 .. n - 1 /\ c[k] = o[k - 1]
    BY <1>0, <2>1, <2>2, <2>3
  <2>7. \A k \in 1 .. n - 1 : k + 1 \in 1 .. n /\ c[k + 1] = o[k]
    <3>1. ASSUME NEW k \in 1 .. n - 1
          PROVE  k + 1 \in 1 .. n /\ k + 1 # 1 /\ (k + 1) - 1 = k
      BY <1>0
    <3>2. QED
      BY <2>6, <3>1
  <2>8. \A k \in 1 .. n - 1 : \E j \in 1 .. n : j # i /\ o[k] = ts[j]
    <3>1. ASSUME NEW k \in 1 .. n - 1 PROVE o[k] \in ToSet(r)
      <4>1. k \in DOMAIN o
        BY <2>1
      <4>2. o[k] \in ToSet(o)
        BY <4>1 DEF ToSet
      <4>3. QED
        BY <2>1, <4>2
    <3>2. \A e \in ToSet(r) : \E j \in 1 .. n - 1 : e = r[j]
      BY <1>2 DEF ToSet
    <3>3. QED
      BY <1>4, <3>1, <3>2
  <2>9. \A j \in 1 .. n : j # i => \E k \in 1 .. n - 1 : o[k] = ts[j]
    <3>1. ASSUME NEW j \in 1 .. n, j # i PROVE ts[j] \in ToSet(o)
      <4>1. PICK k \in 1 .. n - 1 : r[k] = ts[j]
        BY <1>5, <3>1
      <4>2. r[k] \in ToSet(r)
        BY <1>2, <4>1, SMTT(30) DEF ToSet
      <4>3. QED
        BY <2>1, <4>1, <4>2
    <3>2. \A e \in ToSet(o) : \E k \in 1 .. n - 1 : e = o[k]
      BY <2>1 DEF ToSet
    <3>3. QED
      BY <3>1, <3>2
  <2>10. ToSet(c) = ToSet(ts)
    <3>1. \A e : e \in ToSet(c) <=> \E k \in 1 .. n : e = c[k]
      BY <2>3, <2>4, SMTT(30) DEF ToSet
    <3>2. \A e : e \in ToSet(ts) <=> \E k \in 1 .. n : e = ts[k]
      BY <1>0 DEF ToSet
    <3>3. ASSUME NEW k \in 1 .. n PROVE c[k] \in ToSet(ts)
      <4>1. CASE k = 1
        BY <1>1, <2>5, <3>2, <4>1 DEF t
      <4>2. CASE k # 1
        BY <2>6, <2>8, <3>2, <4>2
      <4>3. QED
        BY <4>1, <4>2
    <3>4. ASSUME NEW j \in 1 .. n PROVE ts[j] \in ToSet(c)
      <4>1. CASE j = i
        <5>1. 1 \in 1 .. n
          BY <1>0
        <5>2. QED
          BY <2>5, <3>1, <4>1, <5>1 DEF t
      <4>2. CASE j # i
        BY <2>7, <2>9, <3>1, <4>2
      <4>3. QED
        BY <4>1, <4>2
    <3>5. QED
      BY <3>1, <3>2, <3>3, <3>4
  <2>11. \A k \in 1 .. n - 1 : Elem[t] < Elem[o[k]]
    <3>1. ASSUME NEW k \in 1 .. n - 1 PROVE Elem[t] < Elem[o[k]]
      <4>1. PICK j \in 1 .. n : j # i /\ o[k] = ts[j]
        BY <2>8
      <4>2. ts[j] \in Tags
        BY <4>1, ElementOfSeq DEF n
      <4>3. t # ts[j]
        BY <1>1, <4>1 DEF Distinct, t, n
      <4>4. Elem[t] \in Nat /\ Elem[ts[j]] \in Nat /\ Elem[t] # Elem[ts[j]]
        BY <1>6, <4>2, <4>3, ElemType
      <4>5. Elem[t] <= Elem[ts[j]]
        BY <1>1
      <4>6. QED
        BY <4>1, <4>4, <4>5
    <3>2. QED
      BY <3>1
  <2>12. ASSUME NEW j \in 1 .. n, NEW k \in 1 .. n, j < k PROVE Elem[c[j]] < Elem[c[k]]
    <3>1. k # 1
      BY <1>0, <2>12
    <3>2. c[k] = o[k - 1] /\ k - 1 \in 1 .. n - 1
      BY <2>6, <3>1
    <3>3. CASE j = 1
      BY <2>5, <2>11, <3>2, <3>3
    <3>4. CASE j # 1
      <4>1. c[j] = o[j - 1] /\ j - 1 \in 1 .. n - 1
        BY <2>6, <3>4
      <4>2. j - 1 < k - 1
        BY <1>0, <2>12
      <4>3. QED
        BY <2>1, <3>2, <4>1, <4>2
    <3>5. QED
      BY <3>3, <3>4
  <2>13. QED
    BY <2>3, <2>4, <2>10, <2>12 DEF Ordered, n
<1>8. Len(r) < n
  BY <1>0, <1>2
<1>9. QED
  BY <1>2, <1>3, <1>7, <1>8 DEF r, i, n

\* The tags of a line come in their fixed order, none lost and none twice.
LEMMA SortOrders ==
  ASSUME NEW tags \in TagLists
  PROVE  Sort[tags] \in TagLists /\ IsOrderOf(Sort[tags], tags)
<1> DEFINE D == Seq(Tags)
           m == [ts \in D |-> Len(ts)]
           T == {ts \in D : Distinct(ts) => Ordered(Sort[ts], ts)}
<1>1. m \in [D -> Nat]
  OBVIOUS
<1>2. ASSUME NEW ts \in D, \A r \in D : m[r] < m[ts] => r \in T PROVE ts \in T
  <2>1. SUFFICES ASSUME Distinct(ts) PROVE Ordered(Sort[ts], ts)
    OBVIOUS
  <2>2. CASE Len(ts) <= 1
    <3>1. Sort[ts] = ts
      BY <2>2, SortDef
    <3>2. \A i, j \in 1 .. Len(ts) : i < j => Elem[ts[i]] < Elem[ts[j]]
      BY <2>2
    <3>3. QED
      BY <3>1, <3>2 DEF Ordered
  <2>3. CASE ~(Len(ts) <= 1)
    <3> DEFINE r == RemoveAt(ts, MinIndex(ts))
    <3>1. Len(ts) >= 1
      BY <2>3
    <3>2. \A o : /\ r \in D /\ Len(r) < Len(ts) /\ Distinct(r)
                 /\ Ordered(o, r) => Ordered(<<ts[MinIndex(ts)]>> \o o, ts)
      BY <2>1, <3>1, SortStep
    <3>3. Sort[ts] = <<ts[MinIndex(ts)]>> \o Sort[r]
      BY <2>3, SortDef
    <3> HIDE DEF r
    <3>4. Ordered(Sort[r], r)
      BY <1>2, <3>2
    <3>5. QED
      BY <3>2, <3>3, <3>4
  <2>4. QED
    BY <2>2, <2>3
<1>3. \A ts \in D : ts \in T
  <2> HIDE DEF T, m, D
  <2>1. QED
    BY <1>1, <1>2, Measured
<1>4. PICK n \in 0 .. 3 : tags \in [1 .. n -> Tags]
  BY DEF TagLists
<1>5. tags \in D /\ Len(tags) = n /\ n \in Nat /\ DOMAIN tags = 1 .. n
  BY <1>4
<1>6. Distinct(tags)
  BY <1>5 DEF TagLists, IsInjective, Distinct
<1> DEFINE o == Sort[tags]
<1>7. Ordered(o, tags)
  BY <1>3, <1>5, <1>6
<1> HIDE DEF o
<1>8. /\ o \in Seq(Tags) /\ Len(o) = n /\ DOMAIN o = 1 .. n /\ ToSet(o) = ToSet(tags)
      /\ \A i, j \in 1 .. n : i < j => Elem[o[i]] < Elem[o[j]]
  BY <1>5, <1>7 DEF Ordered
<1>9. IsInjective(o)
  <2>1. ASSUME NEW i \in 1 .. n, NEW j \in 1 .. n, o[i] = o[j] PROVE i = j
    <3>1. o[i] \in Tags
      BY <1>8
    <3>2. Elem[o[i]] \in Nat
      BY <3>1, ElemType
    <3>3. ~(i < j) /\ ~(j < i)
      BY <1>8, <2>1, <3>2
    <3>4. QED
      BY <1>5, <3>3
  <2>2. QED
    BY <1>8, <2>1 DEF IsInjective
<1>10. o \in TagLists
  <2>1. o \in [1 .. n -> Tags]
    BY <1>8
  <2>2. QED
    BY <1>9, <2>1 DEF TagLists
<1>11. QED
  BY <1>8, <1>10 DEF IsOrderOf, o

-----------------------------------------------------------------------------
(* Sequences one behind the other                                          *)

\* FlattenSeq goes from sequence to sequence.
LEMMA FlattenDef ==
  ASSUME NEW S, NEW s \in Seq(Seq(S)), Len(s) >= 1
  PROVE  \E f \in [1 .. Len(s) -> Seq(S)] :
            /\ f[1] = s[1] /\ FlattenSeq(s) = f[Len(s)]
            /\ \A k \in 2 .. Len(s) : f[k] = f[k - 1] \o s[k]
<1> DEFINE n == Len(s)
           m == n - 1
           Is(f) == f = [i \in 1 .. n |-> IF i = 1 THEN s[i] ELSE f[i - 1] \o s[i]]
           V == Seq(S)
           g == [k \in 1 .. m |-> [v \in V |-> v \o s[k + 1]]]
           c == CHOOSE f : Is(f)
<1>1. n \in Nat /\ n >= 1 /\ m \in Nat /\ \A k \in 1 .. n : s[k] \in V
  BY LenProperties, ElementOfSeq
<1>2. ASSUME NEW k \in 1 .. n, NEW v \in V PROVE v \o s[k] \in V
  <2>1. s[k] \in Seq(S) /\ v \in Seq(S)
    BY <1>1
  <2>2. QED
    BY <2>1, ConcatProperties
<1>3. PICK h \in [0 .. m -> V] : Walks(h, m, s[1], g)
  <2>1. Steps(m, V, g)
    <3>1. ASSUME NEW k \in 1 .. m, NEW v \in V PROVE g[k][v] \in V
      <4>1. k + 1 \in 1 .. n
        BY <1>1
      <4>2. v \o s[k + 1] \in V
        BY <1>2, <4>1
      <4> HIDE DEF V
      <4>3. QED
        BY <4>2
    <3>2. QED
      BY <3>1 DEF Steps
  <2>2. s[1] \in V
    BY <1>1
  <2> HIDE DEF g, m, V
  <2>3. QED
    BY <1>1, <2>1, <2>2, Walk
<1> DEFINE f == [i \in 1 .. n |-> h[i - 1]]
<1>4. Is(f)
  <2> DEFINE W(i) == IF i = 1 THEN s[i] ELSE f[i - 1] \o s[i]
  <2>1. ASSUME NEW i \in 1 .. n PROVE h[i - 1] = W(i)
    <3>1. CASE i = 1
      BY <1>3, <3>1 DEF Walks
    <3>2. CASE i # 1
      <4> DEFINE j == i - 1
      <4>1. j \in 1 .. m /\ j \in 1 .. n /\ j + 1 = i /\ j - 1 \in 0 .. m
        BY <1>1, <3>2
      <4>2. h[j - 1] \in V /\ f[j] = h[j - 1]
        BY <4>1
      <4> HIDE DEF V, f, j
      <4>3. h[j] = g[j][h[j - 1]]
        <5> HIDE DEF g
        <5> QED BY <1>3, <4>1 DEF Walks
      <4>4. g[j][h[j - 1]] = h[j - 1] \o s[i]
        BY <4>1, <4>2
      <4>5. h[j] = f[j] \o s[i]
        BY <4>2, <4>3, <4>4
      <4>6. QED
        BY <3>2, <4>5 DEF j
    <3>3. QED
      BY <3>1, <3>2
  <2> HIDE DEF W
  <2>2. f = [i \in 1 .. n |-> W(i)]
    BY <2>1
  <2> HIDE DEF f
  <2>3. QED
    BY <2>2 DEF W
<1>5. Is(c)
  <2> HIDE DEF Is, f
  <2>1. QED
    BY <1>4
<1>6. FlattenSeq(s) = c[n]
  BY <1>1 DEF FlattenSeq
<1> DEFINE W(i) == IF i = 1 THEN s[i] ELSE c[i - 1] \o s[i]
<1>7. c = [i \in 1 .. n |-> W(i)]
  BY <1>5
<1> HIDE DEF c, W, f, g
<1>8. \A i \in 1 .. n : c[i] = W(i)
  BY <1>7
<1>9. c[1] = s[1] /\ \A k \in 2 .. n : c[k] = c[k - 1] \o s[k]
  <2>1. 1 \in 1 .. n /\ \A k \in 2 .. n : k \in 1 .. n /\ k # 1
    BY <1>1
  <2> HIDE DEF n
  <2>2. QED
    BY <1>8, <2>1 DEF W
<1> DEFINE T == {k \in 0 .. m : c[k + 1] \in V}
<1>10. 0 \in T
  BY <1>1, <1>9
<1>11. ASSUME NEW k \in 1 .. m, k - 1 \in T PROVE k \in T
  <2>1. k \in 0 .. m /\ k + 1 \in 2 .. n /\ k + 1 \in 1 .. n /\ (k + 1) - 1 = k /\ (k - 1) + 1 = k
    BY <1>1
  <2>2. c[k] \in V
    BY <1>11, <2>1
  <2>3. c[k + 1] = c[k] \o s[k + 1]
    BY <1>9, <2>1
  <2>4. c[k] \o s[k + 1] \in V
    BY <1>2, <2>1, <2>2
  <2> HIDE DEF V
  <2>5. QED
    BY <2>1, <2>3, <2>4
<1>12. \A k \in 0 .. m : k \in T
  <2> HIDE DEF T, m
  <2>1. QED
    BY <1>1, <1>10, <1>11, Induction
<1>13. c \in [1 .. n -> V]
  <2>1. ASSUME NEW i \in 1 .. n PROVE c[i] \in V
    <3>1. i - 1 \in 0 .. m /\ (i - 1) + 1 = i
      BY <1>1
    <3>2. QED
      BY <1>12, <3>1
  <2> HIDE DEF V, n
  <2>2. QED
    BY <1>7, <2>1
<1>14. QED
  BY <1>6, <1>9, <1>13 DEF n, V

\* No sequences
LEMMA FlattenEmpty ==
  ASSUME NEW S, NEW s \in Seq(Seq(S)), Len(s) = 0
  PROVE  FlattenSeq(s) = <<>>
<1>1. s = <<>>
  BY EmptySeq
<1>2. QED
  BY <1>1 DEF FlattenSeq

\* Its elements are theirs.
LEMMA FlattenType ==
  ASSUME NEW S, NEW s \in Seq(Seq(S))
  PROVE  FlattenSeq(s) \in Seq(S)
<1>1. Len(s) \in Nat
  BY LenProperties
<1>2. CASE Len(s) = 0
  <2>1. FlattenSeq(s) = <<>> /\ <<>> \in Seq(S)
    BY <1>2, FlattenEmpty, EmptySeq
  <2>2. QED
    BY <2>1
<1>3. CASE Len(s) >= 1
  <2>1. PICK f \in [1 .. Len(s) -> Seq(S)] :
           /\ f[1] = s[1] /\ FlattenSeq(s) = f[Len(s)]
           /\ \A k \in 2 .. Len(s) : f[k] = f[k - 1] \o s[k]
    BY <1>3, FlattenDef
  <2>2. Len(s) \in 1 .. Len(s)
    BY <1>1, <1>3
  <2> DEFINE V == Seq(S)
             n == Len(s)
  <2>3. f \in [1 .. n -> V] /\ n \in 1 .. n /\ FlattenSeq(s) = f[n]
    BY <2>1, <2>2
  <2> HIDE DEF V, n
  <2>4. FlattenSeq(s) \in V
    BY <2>3
  <2>5. QED
    BY <2>4 DEF V
<1>4. QED
  BY <1>1, <1>2, <1>3

\* One more sequence
LEMMA FlattenAppend ==
  ASSUME NEW S, NEW s \in Seq(Seq(S)), NEW x \in Seq(S)
  PROVE  FlattenSeq(Append(s, x)) = FlattenSeq(s) \o x
<1> DEFINE t == Append(s, x)
           n == Len(s)
           l == n + 1
           V == Seq(S)
<1>1. /\ t \in Seq(V) /\ Len(t) = l /\ n \in Nat /\ t[l] = x
      /\ \A k \in 1 .. n : t[k] = s[k] /\ s[k] \in V
  BY AppendProperties, LenProperties, ElementOfSeq
<1> HIDE DEF t, n, l
<1>2. l = n + 1 /\ Len(t) >= 1
  BY <1>1 DEF l
<1>3. PICK w \in [1 .. l -> V] :
         /\ w[1] = t[1] /\ FlattenSeq(t) = w[l]
         /\ \A k \in 2 .. l : w[k] = w[k - 1] \o t[k]
  <2>1. t \in Seq(Seq(S))
    BY <1>1
  <2>2. \E w \in [1 .. Len(t) -> Seq(S)] :
           /\ w[1] = t[1] /\ FlattenSeq(t) = w[Len(t)]
           /\ \A k \in 2 .. Len(t) : w[k] = w[k - 1] \o t[k]
    BY <1>2, <2>1, FlattenDef
  <2>3. Len(t) = l
    BY <1>1
  <2>4. QED
    BY <2>2, <2>3, Zenon
<1>4. CASE n = 0
  <2>1. FlattenSeq(s) = <<>>
    BY <1>4, FlattenEmpty DEF n
  <2>2. <<>> \o x = x
    BY ConcatEmptySeq
  <2>3. l = 1
    BY <1>2, <1>4
  <2>4. QED
    BY <1>1, <1>3, <2>1, <2>2, <2>3 DEF t
<1>5. CASE n >= 1
  <2>1. PICK v \in [1 .. n -> V] :
           /\ v[1] = s[1] /\ FlattenSeq(s) = v[n]
           /\ \A k \in 2 .. n : v[k] = v[k - 1] \o s[k]
    BY <1>5, FlattenDef DEF n
  <2> DEFINE m == n - 1
             T == {k \in 0 .. m : v[k + 1] = w[k + 1]}
  <2>2. m \in Nat
    BY <1>1, <1>5
  <2>3. 0 \in T
    <3>1. 1 \in 1 .. n /\ 0 + 1 = 1
      BY <1>1, <1>5
    <3>2. QED
      BY <1>1, <1>3, <2>1, <2>2, <3>1
  <2>4. ASSUME NEW k \in 1 .. m, k - 1 \in T PROVE k \in T
    <3> DEFINE i == k + 1
    <3>1. k \in 0 .. m /\ i \in 2 .. n /\ i \in 2 .. l /\ i \in 1 .. n /\ i - 1 = k /\ (k - 1) + 1 = k
      BY <1>1, <1>2, <2>2
    <3>2. v[k] = w[k] /\ t[i] = s[i]
      BY <1>1, <2>4, <3>1
    <3> HIDE DEF i, m
    <3>3. v[i] = w[i]
      BY <1>3, <2>1, <3>1, <3>2
    <3>4. QED
      BY <3>1, <3>3 DEF i
  <2>5. m \in T
    <3>1. \A k \in 0 .. m : k \in T
      <4> HIDE DEF T, m
      <4> QED BY <2>2, <2>3, <2>4, Induction
    <3>2. QED
      BY <2>2, <3>1
  <2>6. v[n] = w[n]
    <3>1. m + 1 = n
      BY <1>1
    <3>2. QED
      BY <2>5, <3>1
  <2>7. w[l] = w[n] \o t[l]
    <3>1. l \in 2 .. l /\ l - 1 = n
      BY <1>1, <1>2, <1>5
    <3>2. QED
      BY <1>3, <3>1
  <2>8. QED
    BY <1>1, <1>3, <2>1, <2>6, <2>7 DEF t
<1>6. QED
  BY <1>1, <1>4, <1>5

\* Each sequence one longer
LEMMA FlattenLonger ==
  ASSUME NEW S, NEW s \in Seq(Seq(S)), NEW t \in Seq(Seq(S)), Len(s) = Len(t),
         \A k \in 1 .. Len(s) : Len(t[k]) = Len(s[k]) + 1
  PROVE  Len(FlattenSeq(t)) = Len(FlattenSeq(s)) + Len(s)
<1> DEFINE n == Len(s)
           V == Seq(S)
<1>1. n \in Nat /\ \A k \in 1 .. n : s[k] \in V /\ t[k] \in V
  BY LenProperties, ElementOfSeq
<1>2. CASE n = 0
  <2>1. FlattenSeq(s) = <<>> /\ FlattenSeq(t) = <<>>
    BY <1>2, FlattenEmpty
  <2>2. Len(<<>>) = 0
    OBVIOUS
  <2>3. QED
    BY <1>2, <2>1, <2>2
<1>3. CASE n >= 1
  <2>1. PICK v \in [1 .. n -> V] :
           /\ v[1] = s[1] /\ FlattenSeq(s) = v[n]
           /\ \A k \in 2 .. n : v[k] = v[k - 1] \o s[k]
    BY <1>3, FlattenDef
  <2>2. PICK w \in [1 .. n -> V] :
           /\ w[1] = t[1] /\ FlattenSeq(t) = w[n]
           /\ \A k \in 2 .. n : w[k] = w[k - 1] \o t[k]
    <3>1. Len(t) = n /\ Len(t) >= 1
      BY <1>3
    <3>2. \E w \in [1 .. Len(t) -> Seq(S)] :
             /\ w[1] = t[1] /\ FlattenSeq(t) = w[Len(t)]
             /\ \A k \in 2 .. Len(t) : w[k] = w[k - 1] \o t[k]
      BY <3>1, FlattenDef
    <3>3. QED
      BY <3>1, <3>2, Zenon
  <2>0. \A k \in 1 .. n : Len(t[k]) = Len(s[k]) + 1
    OBVIOUS
  <2> HIDE DEF n
  <2> DEFINE m == n - 1
             T == {k \in 0 .. m : Len(w[k + 1]) = Len(v[k + 1]) + (k + 1)}
  <2>3. m \in Nat
    BY <1>1, <1>3
  <2>4. 0 \in T
    <3>1. 1 \in 1 .. n /\ 0 + 1 = 1
      BY <1>1, <1>3
    <3>2. QED
      BY <2>0, <2>1, <2>2, <2>3, <3>1
  <2>5. ASSUME NEW k \in 1 .. m, k - 1 \in T PROVE k \in T
    <3> DEFINE i == k + 1
    <3>1. k \in 0 .. m /\ i \in 2 .. n /\ i \in 1 .. n /\ k \in 1 .. n /\ i - 1 = k /\ (k - 1) + 1 = k
      BY <1>1, <2>3
    <3>2. Len(w[k]) = Len(v[k]) + k
      BY <2>5, <3>1
    <3> HIDE DEF m, i, T
    <3>3. v[k] \in V /\ w[k] \in V /\ s[i] \in V /\ t[i] \in V
      BY <1>1, <3>1
    <3>4. v[i] = v[k] \o s[i] /\ w[i] = w[k] \o t[i]
      BY <2>1, <2>2, <3>1
    <3>5. Len(v[k] \o s[i]) = Len(v[k]) + Len(s[i]) /\ Len(w[k] \o t[i]) = Len(w[k]) + Len(t[i])
      BY <3>3, ConcatProperties
    <3>6. Len(t[i]) = Len(s[i]) + 1
      BY <2>0, <3>1
    <3>7. Len(v[k]) \in Nat /\ Len(s[i]) \in Nat
      BY <3>3, LenProperties
    <3>8. Len(w[i]) = Len(v[i]) + i
      <4> DEFINE a == Len(v[k])
                 b == Len(s[i])
      <4>1. Len(w[i]) = (a + k) + (b + 1) /\ Len(v[i]) = a + b
        BY <3>2, <3>4, <3>5, <3>6
      <4>2. a \in Nat /\ b \in Nat /\ k \in Int /\ i = k + 1
        BY <3>1, <3>7 DEF i
      <4> HIDE DEF a, b
      <4>3. (a + k) + (b + 1) = (a + b) + (k + 1)
        BY <4>2
      <4>4. QED
        BY <4>1, <4>2, <4>3
    <3>9. QED
      BY <3>1, <3>8 DEF i, T
  <2>6. m \in T
    <3>1. \A k \in 0 .. m : k \in T
      <4> HIDE DEF T, m
      <4> QED BY <2>3, <2>4, <2>5, Induction
    <3>2. m \in 0 .. m
      BY <2>3
    <3> HIDE DEF T, m
    <3>3. QED
      BY <3>1, <3>2
  <2>7. Len(w[n]) = Len(v[n]) + n
    <3>1. m + 1 = n
      BY <1>1
    <3>2. QED
      BY <2>6, <3>1
  <2>8. QED
    BY <2>1, <2>2, <2>7 DEF n
<1>4. QED
  BY <1>1, <1>2, <1>3

-----------------------------------------------------------------------------
(* The texts that a context gathers                                        *)

\* The text that an entry of the vector stands for, as put() takes it
TextAt(local, iov) == IF iov.at = -1 THEN iov.text
                      ELSE SubSeq(local, iov.at + 1, iov.at + iov.len)

Vectors == [at : Int, text : Seq(Char), len : Nat]
Contexts == [local : Seq(Char), ioves : Seq(Vectors), total : Nat]

\* An entry stands for a text, and no later one can change that.
Stands(local, iov, text) ==
    /\ TextAt(local, iov) = text
    /\ iov.at = -1 \/ (iov.at \in Nat /\ iov.at + iov.len <= Len(local))

\* A context has gathered the texts so far.
Says(ctx, texts) ==
    /\ ctx \in Contexts /\ texts \in Seq(Seq(Char)) /\ Len(ctx.ioves) = Len(texts)
    /\ \A k \in 1 .. Len(texts) : Stands(ctx.local, ctx.ioves[k], texts[k])
    /\ ctx.total = Len(FlattenSeq(texts))

\* No texts are gathered at first.
LEMMA NothingSaid == Says(NoContext, <<>>)
<1>1. <<>> \in Seq(Char) /\ <<>> \in Seq(Vectors) /\ <<>> \in Seq(Seq(Char)) /\ Len(<<>>) = 0
  BY EmptySeq
<1>2. FlattenSeq(<<>>) = <<>>
  BY <1>1 DEF FlattenSeq
<1>3. NoContext \in Contexts
  BY <1>1 DEF NoContext, Contexts
<1>4. NoContext.ioves = <<>> /\ NoContext.total = 0
  BY DEF NoContext
<1>5. \A k \in 1 .. 0 : FALSE
  OBVIOUS
<1>6. QED
  BY <1>1, <1>2, <1>3, <1>4, <1>5 DEF Says

\* Texts that stand in local stay when local grows.
LEMMA StandsBehind ==
  ASSUME NEW local \in Seq(Char), NEW x \in Seq(Char), NEW iov \in Vectors, NEW text,
         Stands(local, iov, text)
  PROVE  Stands(local \o x, iov, text)
<1> DEFINE c == local \o x
           i == iov.at
           l == iov.len
           a == i + 1
           b == i + l
           n == Len(local)
<1>1. c \in Seq(Char) /\ Len(c) = n + Len(x) /\ n \in Nat /\ Len(x) \in Nat
  BY ConcatProperties, LenProperties
<1>2. i \in Int /\ l \in Nat
  BY DEF Vectors
<1>3. CASE i = -1
  <2>1. TextAt(local, iov) = iov.text /\ TextAt(c, iov) = iov.text
    BY <1>3 DEF TextAt
  <2> HIDE DEF c
  <2>2. Stands(c, iov, text)
    BY <1>3, <2>1 DEF Stands
  <2>3. QED
    BY <2>2 DEF c
<1>4. CASE i # -1
  <2>1. i \in Nat /\ i + l <= n /\ SubSeq(local, a, b) = text
    BY <1>4 DEF Stands, TextAt
  <2>2. SubSeq(c, a, b) = SubSeq(local, a, b)
    <3>1. CASE l = 0
      <4>1. a \in Int /\ b \in Int /\ b < a
        BY <1>2, <3>1
      <4> HIDE DEF a, b
      <4>2. SubSeq(c, a, b) = <<>> /\ SubSeq(local, a, b) = <<>>
        BY <4>1, SubSeqEmpty
      <4>3. QED
        BY <4>2
    <3>2. CASE l # 0
      <4>1. a \in 1 .. Len(local) /\ b \in 1 .. Len(local)
        BY <1>1, <1>2, <2>1, <3>2, SMTT(30)
      <4> HIDE DEF a, b
      <4>2. QED
        BY <4>1, SubSeqOfConcat1
    <3>3. QED
      BY <3>1, <3>2
  <2>3. i + l <= Len(c)
    BY <1>1, <1>2, <2>1
  <2> HIDE DEF c
  <2>4. Stands(c, iov, text)
    BY <1>4, <2>1, <2>2, <2>3 DEF Stands, TextAt
  <2>5. QED
    BY <2>4 DEF c
<1>5. QED
  BY <1>3, <1>4

\* One more entry, when local has its text
LEMMA SaysMore ==
  ASSUME NEW ctx, NEW texts, Says(ctx, texts), NEW x \in Seq(Char), NEW local \in Seq(Char),
         \A v \in Vectors : \A t : Stands(ctx.local, v, t) => Stands(local, v, t),
         NEW iov \in Vectors, Stands(local, iov, x), iov.len = Len(x)
  PROVE  Says([local |-> local, ioves |-> Append(ctx.ioves, iov), total |-> ctx.total + iov.len],
              Append(texts, x))
<1> DEFINE ioves == Append(ctx.ioves, iov)
           total == ctx.total + iov.len
           new == [local |-> local, ioves |-> ioves, total |-> total]
           more == Append(texts, x)
           n == Len(texts)
<1>1. /\ ctx.ioves \in Seq(Vectors) /\ texts \in Seq(Seq(Char)) /\ Len(ctx.ioves) = n /\ n \in Nat
      /\ \A k \in 1 .. n : Stands(ctx.local, ctx.ioves[k], texts[k])
      /\ ctx.total = Len(FlattenSeq(texts)) /\ ctx.total \in Nat
  BY LenProperties DEF Says, Contexts
<1>2. /\ ioves \in Seq(Vectors) /\ Len(ioves) = n + 1 /\ ioves[n + 1] = iov
      /\ \A k \in 1 .. n : ioves[k] = ctx.ioves[k]
  <2>1. ctx.ioves \in Seq(Vectors)
    BY <1>1
  <2>2. /\ ioves \in Seq(Vectors) /\ Len(ioves) = Len(ctx.ioves) + 1
        /\ ioves[Len(ctx.ioves) + 1] = iov
        /\ \A k \in 1 .. Len(ctx.ioves) : ioves[k] = ctx.ioves[k]
    BY <2>1, AppendProperties
  <2> HIDE DEF ioves
  <2>3. QED
    BY <1>1, <2>2
<1>3. /\ more \in Seq(Seq(Char)) /\ Len(more) = n + 1 /\ more[n + 1] = x
      /\ \A k \in 1 .. n : more[k] = texts[k]
  <2>1. texts \in Seq(Seq(Char))
    BY <1>1
  <2>2. QED
    BY <2>1, AppendProperties
<1>4. total \in Nat /\ total = Len(FlattenSeq(more))
  <2>1. FlattenSeq(texts) \in Seq(Char) /\ FlattenSeq(more) = FlattenSeq(texts) \o x
    <3>1. texts \in Seq(Seq(Char))
      BY <1>1
    <3>2. QED
      BY <3>1, FlattenType, FlattenAppend
  <2> DEFINE f == FlattenSeq(texts)
  <2>2. f \in Seq(Char)
    BY <2>1
  <2> HIDE DEF f
  <2>3. Len(f \o x) = Len(f) + Len(x) /\ Len(f) \in Nat /\ Len(x) \in Nat
    BY <2>2, ConcatProperties, LenProperties
  <2>4. QED
    BY <1>1, <2>1, <2>3 DEF f
<1> HIDE DEF ioves, more, total
<1>0. Stands(local, iov, x)
  OBVIOUS
<1>5. ASSUME NEW k \in 1 .. n + 1 PROVE Stands(local, ioves[k], more[k])
  <2>1. CASE k \in 1 .. n
    <3>1. Stands(ctx.local, ctx.ioves[k], texts[k])
      BY <1>1, <2>1
    <3>2. ctx.ioves[k] \in Vectors
      BY <1>1, <2>1
    <3>3. Stands(local, ctx.ioves[k], texts[k])
      BY <3>1, <3>2
    <3>4. QED
      BY <1>2, <1>3, <2>1, <3>3
  <2>2. CASE k = n + 1
    <3>1. ioves[k] = iov /\ more[k] = x
      BY <1>2, <1>3, <2>2
    <3>2. QED
      BY <1>0, <3>1
  <2>3. k \in 1 .. n \/ k = n + 1
    BY <1>1
  <2>4. QED
    BY <2>1, <2>2, <2>3
<1>6. new \in Contexts
  BY <1>2, <1>4 DEF Contexts
<1>7. new.local = local /\ new.ioves = ioves /\ new.total = total
  OBVIOUS
<1> HIDE DEF new
<1>8. Says(new, more)
  BY <1>2, <1>3, <1>4, <1>5, <1>6, <1>7 DEF Says
<1>9. QED
  BY <1>8 DEF new, more, ioves, total

\* A vector of the caller stands for its own text.
LEMMA SaysExternal ==
  ASSUME NEW ctx, NEW texts, Says(ctx, texts), NEW x \in Seq(Char)
  PROVE  Says(updateExternal(ctx, External(x)), Append(texts, x))
<1> DEFINE iov == External(x)
<1>1. ctx \in Contexts /\ ctx.local \in Seq(Char)
  BY DEF Says, Contexts
<1>2. iov \in Vectors /\ iov.len = Len(x) /\ iov.at = -1 /\ iov.text = x
  BY LenProperties DEF External, Vectors
<1> HIDE DEF iov
<1>3. Stands(ctx.local, iov, x)
  <2>1. TextAt(ctx.local, iov) = x
    BY <1>2 DEF TextAt
  <2>2. QED
    BY <1>2, <2>1 DEF Stands
<1>4. updateExternal(ctx, iov) =
         [local |-> ctx.local, ioves |-> Append(ctx.ioves, iov), total |-> ctx.total + iov.len]
  BY DEF updateExternal
<1>5. Says([local |-> ctx.local, ioves |-> Append(ctx.ioves, iov), total |-> ctx.total + iov.len],
           Append(texts, x))
  BY <1>1, <1>2, <1>3, SaysMore
<1>6. QED
  BY <1>4, <1>5 DEF iov

\* A field of a record that becomes another one
LEMMA Grown ==
  ASSUME NEW A, NEW B, NEW C, NEW ctx \in [local : A, ioves : B, total : C], NEW a
  PROVE  [ctx EXCEPT !.local = a] = [local |-> a, ioves |-> ctx.ioves, total |-> ctx.total]
  OBVIOUS

\* A text that is appended to local stands there for good.
LEMMA SaysLocal ==
  ASSUME NEW ctx, NEW texts, Says(ctx, texts), NEW x \in Seq(Char)
  PROVE  Says(updateLocal(ctx, x), Append(texts, x))
<1> DEFINE iov == [at |-> Len(ctx.local), text |-> <<>>, len |-> Len(x)]
           local == ctx.local \o x
<1>1. ctx \in Contexts /\ ctx.local \in Seq(Char)
  BY DEF Says, Contexts
<1>2. Len(ctx.local) \in Nat /\ Len(x) \in Nat /\ <<>> \in Seq(Char)
  BY <1>1, LenProperties, EmptySeq
<1>3. iov \in Vectors /\ iov.len = Len(x) /\ iov.at = Len(ctx.local)
  BY <1>2 DEF Vectors
<1>4. local \in Seq(Char) /\ Len(local) = Len(ctx.local) + Len(x)
  BY <1>1, ConcatProperties
<1>5. \A v \in Vectors : \A t : Stands(ctx.local, v, t) => Stands(local, v, t)
  BY <1>1, StandsBehind
<1>6. Stands(local, iov, x)
  <2>1. Follows(local, ctx.local, x, Len(ctx.local), Len(x))
    BY <1>1, Behind
  <2> HIDE DEF local, iov
  <2>2. SubSeq(local, iov.at + 1, iov.at + iov.len) = x
    BY <1>3, <2>1 DEF Follows
  <2>3. iov.at # -1 /\ iov.at \in Nat /\ iov.at + iov.len <= Len(local)
    BY <1>2, <1>3, <1>4
  <2>4. QED
    BY <2>2, <2>3 DEF Stands, TextAt
<1>7. updateLocal(ctx, x) =
         [local |-> local, ioves |-> Append(ctx.ioves, iov), total |-> ctx.total + iov.len]
  <2> DEFINE c == [ctx EXCEPT !.local = @ \o x]
  <2>1. c = [local |-> local, ioves |-> ctx.ioves, total |-> ctx.total]
    <3>1. ctx \in [local : Seq(Char), ioves : Seq(Vectors), total : Nat]
      BY <1>1 DEF Contexts
    <3> HIDE DEF local
    <3>2. [ctx EXCEPT !.local = local] = [local |-> local, ioves |-> ctx.ioves, total |-> ctx.total]
      BY <3>1, Grown
    <3>3. QED
      BY <3>2 DEF local
  <2>2. updateLocal(ctx, x) = updateExternal(c, iov)
    BY DEF updateLocal
  <2> HIDE DEF c, iov, local
  <2>3. updateExternal(c, iov) =
         [local |-> c.local, ioves |-> Append(c.ioves, iov), total |-> c.total + iov.len]
    BY DEF updateExternal
  <2>4. QED
    BY <2>1, <2>2, <2>3
<1> HIDE DEF iov, local
<1>8. Says([local |-> local, ioves |-> Append(ctx.ioves, iov), total |-> ctx.total + iov.len],
           Append(texts, x))
  BY <1>3, <1>4, <1>5, <1>6, SaysMore
<1>9. QED
  BY <1>7, <1>8

\* The first texts of some, one by one
LEMMA Prefix ==
  ASSUME NEW S, NEW xs \in Seq(S), NEW k \in 1 .. Len(xs)
  PROVE  /\ SubSeq(xs, 1, k - 1) \in Seq(S) /\ xs[k] \in S
         /\ SubSeq(xs, 1, k) = Append(SubSeq(xs, 1, k - 1), xs[k])
<1>1. Len(xs) \in Nat /\ 1 \in 1 .. Len(xs) /\ k \in 1 .. k /\ k \in 1 .. Len(xs) /\ k >= 1
  BY LenProperties
<1> DEFINE i == 1
           h == k - 1
           p == SubSeq(xs, i, h)
<1>2. xs[k] \in S
  BY ElementOfSeq
<1>3. p \in Seq(S)
  <2>1. i \in Int /\ h \in Int
    BY <1>1
  <2>2. \A j \in i .. h : xs[j] \in S
    <3>1. \A j \in i .. h : j \in 1 .. Len(xs)
      BY <1>1
    <3>2. QED
      BY <3>1, ElementOfSeq
  <2> HIDE DEF i, h
  <2>3. QED
    BY <2>1, <2>2, SubSeqProperties
<1>4. SubSeq(xs, i, k) = SubSeq(xs, i, k - 1) \o <<xs[k]>>
  <2>1. i \in 1 .. Len(xs) /\ k \in i .. Len(xs)
    BY <1>1
  <2> HIDE DEF i
  <2>2. QED
    BY <2>1, SubSeqRecursiveSecond
<1> HIDE DEF p
<1>5. Append(p, xs[k]) = p \o <<xs[k]>>
  BY <1>2, <1>3, AppendIsConcat
<1>6. QED
  BY <1>2, <1>3, <1>4, <1>5 DEF p, h, i

\* One more behind the rest
AppendsTo(a, p, x) == Append(a \o p, x) = a \o Append(p, x)

\* Appending behind the rest is appending to the whole.
LEMMA BehindAppend ==
  ASSUME NEW S, NEW a \in Seq(S), NEW p \in Seq(S), NEW x \in S
  PROVE  AppendsTo(a, p, x)
<1> DEFINE y == <<x>>
           q == a \o p
<1>1. y \in Seq(S)
  OBVIOUS
<1>2. q \in Seq(S)
  BY ConcatProperties
<1>3. Append(p, x) = p \o y
  BY AppendIsConcat
<1> HIDE DEF q
<1>4. Append(q, x) = q \o y
  BY <1>2, AppendIsConcat
<1> HIDE DEF y
<1>5. (a \o p) \o y = a \o (p \o y)
  BY <1>1, ConcatAssociative
<1>6. QED
  BY <1>3, <1>4, <1>5 DEF q, AppendsTo

\* Vectors of the caller one after the other stand for their texts.
LEMMA SaysAll ==
  ASSUME NEW ctx, NEW texts, Says(ctx, texts), NEW xs \in Seq(Seq(Char))
  PROVE  Says(updateAll(ctx, xs), texts \o xs)
<1> DEFINE n == Len(xs)
           S == {c \in Contexts : \E t : Says(c, t)}
           Is(f) == f = [k \in 0 .. n |->
                           IF k = 0 THEN ctx ELSE updateExternal(f[k - 1], External(xs[k]))]
           g == [k \in 1 .. n |-> [c \in S |-> updateExternal(c, External(xs[k]))]]
           after == CHOOSE f : Is(f)
<1>1. n \in Nat /\ \A k \in 1 .. n : xs[k] \in Seq(Char)
  BY LenProperties, ElementOfSeq
<1>2. ASSUME NEW c, NEW t, Says(c, t) PROVE c \in S /\ t \in Seq(Seq(Char))
  BY <1>2 DEF Says
<1>3. ASSUME NEW c \in S, NEW k \in 1 .. n PROVE updateExternal(c, External(xs[k])) \in S
  <2>1. PICK t : Says(c, t)
    OBVIOUS
  <2>2. Says(updateExternal(c, External(xs[k])), Append(t, xs[k]))
    BY <1>1, <2>1, SaysExternal
  <2> HIDE DEF S
  <2>3. QED
    BY <1>2, <2>2
<1> HIDE DEF S
<1>4. PICK f \in [0 .. n -> S] : Walks(f, n, ctx, g)
  <2>1. Steps(n, S, g)
    BY <1>3 DEF Steps
  <2>2. ctx \in S
    BY <1>2
  <2> HIDE DEF g, n
  <2>3. QED
    BY <1>1, <2>1, <2>2, Walk
<1>5. Is(f)
  <2> DEFINE V(k) == IF k = 0 THEN ctx ELSE updateExternal(f[k - 1], External(xs[k]))
  <2>1. ASSUME NEW k \in 0 .. n PROVE f[k] = V(k)
    <3>1. CASE k = 0
      BY <1>4, <3>1 DEF Walks
    <3>2. CASE k # 0
      <4>0. k \in 1 .. n /\ k - 1 \in 0 .. n
        BY <1>1, <3>2
      <4> HIDE DEF n
      <4>1. k \in 1 .. n /\ f[k - 1] \in S
        BY <4>0
      <4>2. f[k] = g[k][f[k - 1]]
        <5> HIDE DEF g
        <5> QED BY <1>4, <4>1 DEF Walks
      <4>3. g[k][f[k - 1]] = updateExternal(f[k - 1], External(xs[k]))
        BY <4>1
      <4> HIDE DEF g
      <4>4. QED
        BY <3>2, <4>2, <4>3
    <3>3. QED
      BY <3>1, <3>2
  <2> HIDE DEF V
  <2>2. f = [k \in 0 .. n |-> V(k)]
    BY <2>1
  <2>3. QED
    BY <2>2 DEF V
<1>6. Is(after)
  <2> HIDE DEF Is
  <2>1. QED
    BY <1>5
<1>7. updateAll(ctx, xs) = after[n]
  BY DEF updateAll
<1> DEFINE V(k) == IF k = 0 THEN ctx ELSE updateExternal(after[k - 1], External(xs[k]))
<1>8. after = [k \in 0 .. n |-> V(k)]
  BY <1>6
<1> HIDE DEF after, V, g
<1>9. \A k \in 0 .. n : after[k] = V(k)
  BY <1>8
<1> DEFINE T == {k \in 0 .. n : Says(after[k], texts \o SubSeq(xs, 1, k))}
<1>10. 0 \in T
  <2>1. 0 \in 0 .. n
    BY <1>1
  <2>2. after[0] = ctx
    BY <1>9, <2>1 DEF V
  <2>3. SubSeq(xs, 1, 0) = <<>>
    BY SubSeqEmpty
  <2>4. texts \o <<>> = texts
    <3>1. texts \in Seq(Seq(Char))
      BY <1>2
    <3>2. QED
      BY <3>1, ConcatEmptySeq
  <2>5. Says(after[0], texts \o SubSeq(xs, 1, 0))
    BY <2>2, <2>3, <2>4
  <2>6. QED
    BY <2>1, <2>5
<1>11. ASSUME NEW k \in 1 .. n, k - 1 \in T PROVE k \in T
  <2> DEFINE p == SubSeq(xs, 1, k - 1)
             x == xs[k]
  <2>1. k \in 0 .. n /\ k # 0
    BY <1>1
  <2>2. after[k] = updateExternal(after[k - 1], External(x))
    BY <1>9, <2>1 DEF V
  <2>3. Says(after[k - 1], texts \o p) /\ x \in Seq(Char)
    BY <1>1, <1>11
  <2>4. Says(after[k], Append(texts \o p, x))
    BY <2>2, <2>3, SaysExternal
  <2>5. p \in Seq(Seq(Char)) /\ SubSeq(xs, 1, k) = Append(p, x)
    BY Prefix
  <2>6. texts \in Seq(Seq(Char))
    BY <1>2
  <2> HIDE DEF p, x
  <2>7. Append(texts \o p, x) = texts \o Append(p, x)
    <3> DEFINE C == Seq(Char)
    <3>1. p \in Seq(C)
      BY <2>5
    <3>2. x \in C
      BY <2>3
    <3>3. texts \in Seq(C)
      BY <2>6
    <3> HIDE DEF C
    <3>4. AppendsTo(texts, p, x)
      BY <3>1, <3>2, <3>3, BehindAppend
    <3>5. QED
      BY <3>4 DEF AppendsTo
  <2>8. Says(after[k], texts \o SubSeq(xs, 1, k))
    BY <2>4, <2>5, <2>7
  <2>9. QED
    BY <2>1, <2>8
<1>12. n \in T
  <2>1. \A k \in 0 .. n : k \in T
    <3> HIDE DEF T, n
    <3> QED BY <1>1, <1>10, <1>11, Induction
  <2>2. n \in 0 .. n
    BY <1>1
  <2> HIDE DEF T
  <2>3. QED
    BY <2>1, <2>2
<1>13. SubSeq(xs, 1, n) = xs
  BY SubSeqFull
<1>14. Says(after[n], texts \o SubSeq(xs, 1, n))
  BY <1>12
<1>15. QED
  BY <1>7, <1>13, <1>14

\* One text is the sequence of it.
LEMMA OneText ==
  ASSUME NEW texts \in Seq(Seq(Char)), NEW x \in Seq(Char)
  PROVE  <<x>> \in Seq(Seq(Char)) /\ Append(texts, x) = texts \o <<x>>
<1> DEFINE S == Seq(Char)
<1>1. texts \in Seq(S) /\ x \in S
  OBVIOUS
<1> HIDE DEF S
<1>2. <<x>> \in Seq(S)
  BY <1>1
<1>3. Append(texts, x) = texts \o <<x>>
  BY <1>1, AppendIsConcat
<1>4. QED
  BY <1>2, <1>3 DEF S

\* resolveDispatch adds the texts of an argument.
LEMMA SaysDispatch ==
  ASSUME NEW ctx, NEW texts, Says(ctx, texts), NEW a \in Argument
  PROVE  /\ Texts(a) \in Seq(Seq(Char))
         /\ Says(resolveDispatch(ctx, a), texts \o Texts(a))
<1>0. texts \in Seq(Seq(Char))
  BY DEF Says
<1>1. \/ a.kind = "literal" /\ a.value \in Seq(Char)
      \/ a.kind = "vectors" /\ a.value \in Seq(Seq(Char))
      \/ a.kind = "int" /\ a.value \in Int
      \/ a.kind = "size_t" /\ a.value \in Nat
      \/ a.kind = "double" /\ a.value \in Doubles
      \/ a.kind = "char" /\ a.value \in Char
  BY DEF Argument
<1>2. CASE a.kind = "literal" /\ a.value \in Seq(Char)
  <2>1. Texts(a) = <<a.value>>
    BY <1>2 DEF Texts
  <2>2. resolveDispatch(ctx, a) = updateExternal(ctx, External(a.value))
    BY <1>2 DEF resolveDispatch
  <2>3. Says(resolveDispatch(ctx, a), Append(texts, a.value))
    BY <1>2, <2>2, SaysExternal
  <2>4. QED
    BY <1>0, <1>2, <2>1, <2>3, OneText
<1>3. CASE a.kind = "vectors" /\ a.value \in Seq(Seq(Char))
  <2>1. Texts(a) = a.value
    BY <1>3 DEF Texts
  <2>2. resolveDispatch(ctx, a) = updateAll(ctx, a.value)
    BY <1>3 DEF resolveDispatch
  <2>3. Says(updateAll(ctx, a.value), texts \o a.value)
    BY <1>3, SaysAll
  <2>4. QED
    BY <1>3, <2>1, <2>2, <2>3
<1>4. CASE a.kind \in {"int", "size_t"} /\ a.value \in Int /\ (a.kind = "size_t" => a.value \in Nat)
  <2> DEFINE x == parseInteger(a.value, parseLength(a.value))
  <2>1. Texts(a) = <<x>>
    BY <1>4 DEF Texts
  <2>2. resolveDispatch(ctx, a) =
           IF IsCached(a) THEN updateExternal(ctx, External(NumericMetaString[a.value]))
           ELSE updateLocal(ctx, x)
    BY <1>4 DEF resolveDispatch
  <2>3. x \in Seq(Char)
    BY <1>4, NumberSays
  <2>4. IsCached(a) => x = NumericMetaString[a.value]
    <3>1. IsCached(a) => a.value >= 0
      BY <1>4 DEF IsCached
    <3>2. QED
      BY <1>4, <3>1, ParseRight
  <2> HIDE DEF x
  <2>5. Says(resolveDispatch(ctx, a), Append(texts, x))
    <3>1. CASE IsCached(a)
      <4>1. resolveDispatch(ctx, a) = updateExternal(ctx, External(x))
        BY <2>2, <2>4, <3>1
      <4>2. QED
        BY <2>3, <4>1, SaysExternal
    <3>2. CASE ~IsCached(a)
      <4>1. resolveDispatch(ctx, a) = updateLocal(ctx, x)
        BY <2>2, <3>2
      <4>2. QED
        BY <2>3, <4>1, SaysLocal
    <3>3. QED
      BY <3>1, <3>2
  <2>6. QED
    BY <1>0, <2>1, <2>3, <2>5, OneText
<1>5. CASE a.kind = "double" /\ a.value \in Doubles
  <2> DEFINE x == parseDouble(a.value)
  <2>1. Texts(a) = <<x>>
    BY <1>5 DEF Texts
  <2>2. resolveDispatch(ctx, a) = updateLocal(ctx, x)
    BY <1>5 DEF resolveDispatch
  <2>3. x \in Seq(Char)
    BY <1>5, DoubleSays
  <2> HIDE DEF x
  <2>4. Says(resolveDispatch(ctx, a), Append(texts, x))
    BY <2>2, <2>3, SaysLocal
  <2>5. QED
    BY <1>0, <2>1, <2>3, <2>4, OneText
<1>6. CASE a.kind = "char" /\ a.value \in Char
  <2> DEFINE x == <<a.value>>
  <2>1. Texts(a) = <<x>>
    BY <1>6 DEF Texts
  <2>2. resolveDispatch(ctx, a) = updateLocal(ctx, x)
    BY <1>6 DEF resolveDispatch
  <2>3. x \in Seq(Char)
    BY <1>6
  <2> HIDE DEF x
  <2>4. Says(resolveDispatch(ctx, a), Append(texts, x))
    BY <2>2, <2>3, SaysLocal
  <2>5. QED
    BY <1>0, <2>1, <2>3, <2>4, OneText
<1>7. QED
  BY <1>1, <1>2, <1>3, <1>4, <1>5, <1>6

\* The texts of some arguments
TextsOf(msgs) == FlattenSeq([k \in DOMAIN msgs |-> Texts(msgs[k])])

\* The texts of an argument are texts.
LEMMA TextsType ==
  ASSUME NEW a \in Argument
  PROVE  Texts(a) \in Seq(Seq(Char))
  BY NothingSaid, SaysDispatch

\* resolve() gathers the texts of all arguments, in their order.
LEMMA Resolved ==
  ASSUME NEW msgs \in Seq(Argument)
  PROVE  Says(resolve(msgs), TextsOf(msgs))
<1> DEFINE n == Len(msgs)
           S == {c \in Contexts : \E t : Says(c, t)}
           Is(f) == f = [k \in 0 .. n |->
                           IF k = 0 THEN NoContext ELSE resolveDispatch(f[k - 1], msgs[k])]
           g == [k \in 1 .. n |-> [c \in S |-> resolveDispatch(c, msgs[k])]]
           ctx == CHOOSE f : Is(f)
           C == Seq(Char)
           xs == [k \in DOMAIN msgs |-> Texts(msgs[k])]
<1>1. n \in Nat /\ DOMAIN msgs = 1 .. n /\ \A k \in 1 .. n : msgs[k] \in Argument
  BY LenProperties, ElementOfSeq
<1>2. ASSUME NEW c, NEW t, Says(c, t) PROVE c \in S /\ t \in Seq(Seq(Char))
  BY <1>2 DEF Says
<1>3. ASSUME NEW c \in S, NEW k \in 1 .. n PROVE resolveDispatch(c, msgs[k]) \in S
  <2>1. PICK t : Says(c, t)
    OBVIOUS
  <2>2. Says(resolveDispatch(c, msgs[k]), t \o Texts(msgs[k]))
    BY <1>1, <2>1, SaysDispatch
  <2> HIDE DEF S
  <2>3. QED
    BY <1>2, <2>2
<1> HIDE DEF S
<1>4. PICK f \in [0 .. n -> S] : Walks(f, n, NoContext, g)
  <2>1. Steps(n, S, g)
    BY <1>3 DEF Steps
  <2>2. NoContext \in S
    BY <1>2, NothingSaid
  <2> HIDE DEF g, n
  <2>3. QED
    BY <1>1, <2>1, <2>2, Walk
<1>5. Is(f)
  <2> DEFINE V(k) == IF k = 0 THEN NoContext ELSE resolveDispatch(f[k - 1], msgs[k])
  <2>1. ASSUME NEW k \in 0 .. n PROVE f[k] = V(k)
    <3>1. CASE k = 0
      BY <1>4, <3>1 DEF Walks
    <3>2. CASE k # 0
      <4>0. k \in 1 .. n /\ k - 1 \in 0 .. n
        BY <1>1, <3>2
      <4> HIDE DEF n
      <4>1. k \in 1 .. n /\ f[k - 1] \in S
        BY <4>0
      <4>2. f[k] = g[k][f[k - 1]]
        <5> HIDE DEF g
        <5> QED BY <1>4, <4>1 DEF Walks
      <4>3. g[k][f[k - 1]] = resolveDispatch(f[k - 1], msgs[k])
        BY <4>1
      <4> HIDE DEF g
      <4>4. QED
        BY <3>2, <4>2, <4>3
    <3>3. QED
      BY <3>1, <3>2
  <2> HIDE DEF V
  <2>2. f = [k \in 0 .. n |-> V(k)]
    BY <2>1
  <2>3. QED
    BY <2>2 DEF V
<1>6. Is(ctx)
  <2> HIDE DEF Is
  <2>1. QED
    BY <1>5
<1>7. resolve(msgs) = ctx[n]
  BY DEF resolve
<1> DEFINE V(k) == IF k = 0 THEN NoContext ELSE resolveDispatch(ctx[k - 1], msgs[k])
<1>8. ctx = [k \in 0 .. n |-> V(k)]
  BY <1>6
<1> HIDE DEF ctx, V, g
<1>9. \A k \in 0 .. n : ctx[k] = V(k)
  BY <1>8
<1>10. /\ xs \in Seq(Seq(C)) /\ Len(xs) = n
       /\ \A k \in 1 .. n : xs[k] = Texts(msgs[k])
  <2>1. \A k \in 1 .. n : Texts(msgs[k]) \in Seq(C)
    BY <1>1, TextsType
  <2>2. xs = [k \in 1 .. n |-> Texts(msgs[k])]
    BY <1>1
  <2> HIDE DEF C, n
  <2>3. QED
    BY <1>1, <2>1, <2>2
<1> HIDE DEF xs
<1> DEFINE T == {k \in 0 .. n : Says(ctx[k], FlattenSeq(SubSeq(xs, 1, k)))}
<1>11. 0 \in T
  <2>1. 0 \in 0 .. n
    BY <1>1
  <2>2. ctx[0] = NoContext
    BY <1>9, <2>1 DEF V
  <2>3. SubSeq(xs, 1, 0) = <<>>
    BY SubSeqEmpty
  <2>4. FlattenSeq(<<>>) = <<>>
    <3>1. <<>> \in Seq(Seq(C)) /\ Len(<<>>) = 0
      BY EmptySeq
    <3>2. QED
      BY <3>1, FlattenEmpty
  <2>5. Says(ctx[0], FlattenSeq(SubSeq(xs, 1, 0)))
    BY <2>2, <2>3, <2>4, NothingSaid
  <2>6. QED
    BY <2>1, <2>5
<1>12. ASSUME NEW k \in 1 .. n, k - 1 \in T PROVE k \in T
  <2> DEFINE p == SubSeq(xs, 1, k - 1)
             x == xs[k]
  <2>1. k \in 0 .. n /\ k # 0
    BY <1>1
  <2>2. ctx[k] = resolveDispatch(ctx[k - 1], msgs[k])
    BY <1>9, <2>1 DEF V
  <2>3. Says(ctx[k - 1], FlattenSeq(p)) /\ x = Texts(msgs[k]) /\ msgs[k] \in Argument
    BY <1>1, <1>10, <1>12
  <2>4. Says(ctx[k], FlattenSeq(p) \o x)
    <3>1. Says(resolveDispatch(ctx[k - 1], msgs[k]), FlattenSeq(p) \o Texts(msgs[k]))
      <4> HIDE DEF p
      <4> QED BY <2>3, SaysDispatch
    <3>2. QED
      BY <2>2, <2>3, <3>1
  <2> DEFINE D == Seq(C)
  <2>5. p \in Seq(D) /\ x \in D /\ SubSeq(xs, 1, k) = Append(p, x)
    <3>1. xs \in Seq(D) /\ k \in 1 .. Len(xs)
      BY <1>10
    <3> HIDE DEF D, C
    <3>2. QED
      BY <3>1, Prefix
  <2> HIDE DEF p, x
  <2>6. FlattenSeq(Append(p, x)) = FlattenSeq(p) \o x
    <3>1. p \in Seq(Seq(C)) /\ x \in Seq(C)
      BY <2>5
    <3> HIDE DEF C
    <3>2. QED
      BY <3>1, FlattenAppend
  <2>7. Says(ctx[k], FlattenSeq(SubSeq(xs, 1, k)))
    BY <2>4, <2>5, <2>6
  <2>8. QED
    BY <2>1, <2>7
<1>13. n \in T
  <2>1. \A k \in 0 .. n : k \in T
    <3> HIDE DEF T, n
    <3> QED BY <1>1, <1>11, <1>12, Induction
  <2>2. n \in 0 .. n
    BY <1>1
  <2> HIDE DEF T
  <2>3. QED
    BY <2>1, <2>2
<1>14. SubSeq(xs, 1, n) = xs
  <2>1. SubSeq(xs, 1, Len(xs)) = xs
    <3>1. xs \in Seq(Seq(C))
      BY <1>10
    <3>2. QED
      BY <3>1, SubSeqFull
  <2>2. QED
    BY <1>10, <2>1
<1>15. Says(ctx[n], FlattenSeq(SubSeq(xs, 1, n)))
  BY <1>13
<1>16. QED
  BY <1>7, <1>14, <1>15 DEF TextsOf, xs

-----------------------------------------------------------------------------
(* The bytes that put() copies                                             *)

\* Some texts, each with what separates it from the next
Separated(texts) ==
    [k \in DOMAIN texts |-> Append(texts[k], IF k = Len(texts) THEN Newline ELSE Space)]

\* Each of them is one byte longer.
LEMMA SeparatedType ==
  ASSUME NEW texts \in Seq(Seq(Char))
  PROVE  /\ Separated(texts) \in Seq(Seq(Char)) /\ Len(Separated(texts)) = Len(texts)
         /\ \A k \in 1 .. Len(texts) : Len(Separated(texts)[k]) = Len(texts[k]) + 1
<1> DEFINE n == Len(texts)
           sep(k) == IF k = Len(texts) THEN Newline ELSE Space
           s == Separated(texts)
<1>1. n \in Nat /\ DOMAIN texts = 1 .. n /\ \A k \in 1 .. n : texts[k] \in Seq(Char)
  BY LenProperties, ElementOfSeq
<1>2. \A k : sep(k) \in Char
  BY DEF Newline, Space, Char
<1>3. s = [k \in 1 .. n |-> Append(texts[k], sep(k))]
  BY <1>1 DEF Separated
<1> HIDE DEF s, sep, n
<1>4. ASSUME NEW k \in 1 .. n
      PROVE  s[k] \in Seq(Char) /\ Len(s[k]) = Len(texts[k]) + 1
  <2> DEFINE c == sep(k)
             t == texts[k]
  <2>1. c \in Char /\ t \in Seq(Char) /\ s[k] = Append(t, c)
    BY <1>1, <1>2, <1>3
  <2> HIDE DEF c, t
  <2>2. Append(t, c) \in Seq(Char) /\ Len(Append(t, c)) = Len(t) + 1
    BY <2>1, AppendProperties
  <2>3. QED
    BY <2>1, <2>2 DEF t
<1>5. s \in Seq(Seq(Char)) /\ Len(s) = n
  <2> DEFINE C == Seq(Char)
  <2>1. \A k \in 1 .. n : s[k] \in C
    BY <1>4
  <2> HIDE DEF C
  <2>2. s \in Seq(C) /\ Len(s) = n
    BY <1>1, <1>3, <2>1
  <2>3. QED
    BY <2>2 DEF C
<1>6. QED
  BY <1>4, <1>5 DEF s, n

\* put() copies the texts with what separates them, as many bytes as calspace() says.
LEMMA Copied ==
  ASSUME NEW ctx, NEW texts, Says(ctx, texts)
  PROVE  put(ctx) = FlattenSeq(Separated(texts)) /\ Len(put(ctx)) = calspace(ctx)
<1> DEFINE n == Len(texts)
<1>1. /\ ctx.ioves \in Seq(Vectors) /\ texts \in Seq(Seq(Char)) /\ Len(ctx.ioves) = n
      /\ \A k \in 1 .. n : Stands(ctx.local, ctx.ioves[k], texts[k])
      /\ ctx.total = Len(FlattenSeq(texts))
  BY DEF Says, Contexts
<1>2. n \in Nat /\ DOMAIN ctx.ioves = 1 .. n /\ DOMAIN texts = 1 .. n
  BY <1>1, LenProperties
<1> DEFINE V(k) == LET iov == ctx.ioves[k]
                       text == IF iov.at = -1 THEN iov.text
                               ELSE SubSeq(ctx.local, iov.at + 1, iov.at + iov.len)
                   IN  Append(text, IF k = Len(ctx.ioves) THEN Newline ELSE Space)
           W(k) == Append(texts[k], IF k = Len(texts) THEN Newline ELSE Space)
<1>3. ASSUME NEW k \in 1 .. n PROVE V(k) = W(k)
  <2>1. V(k) = Append(TextAt(ctx.local, ctx.ioves[k]), IF k = n THEN Newline ELSE Space)
    BY <1>1 DEF TextAt
  <2>2. TextAt(ctx.local, ctx.ioves[k]) = texts[k]
    BY <1>1 DEF Stands
  <2> HIDE DEF V
  <2>3. QED
    BY <2>1, <2>2
<1>4. put(ctx) = FlattenSeq([k \in 1 .. n |-> V(k)])
  BY <1>2 DEF put
<1>5. Separated(texts) = [k \in 1 .. n |-> W(k)]
  BY <1>2 DEF Separated
<1> HIDE DEF V, W
<1>6. [k \in 1 .. n |-> V(k)] = [k \in 1 .. n |-> W(k)]
  BY <1>3
<1>7. put(ctx) = FlattenSeq(Separated(texts))
  BY <1>4, <1>5, <1>6
<1>8. Len(FlattenSeq(Separated(texts))) = Len(FlattenSeq(texts)) + n
  <2> DEFINE s == Separated(texts)
  <2>1. /\ texts \in Seq(Seq(Char)) /\ s \in Seq(Seq(Char)) /\ Len(texts) = Len(s)
        /\ \A k \in 1 .. Len(texts) : Len(s[k]) = Len(texts[k]) + 1
    BY <1>1, SeparatedType
  <2> HIDE DEF s
  <2>2. QED
    BY <2>1, FlattenLonger DEF s
<1>9. QED
  BY <1>1, <1>7, <1>8 DEF calspace

-----------------------------------------------------------------------------
(* Lines                                                                   *)

\* The text of a tag is an argument.
LEMMA TagType ==
  ASSUME NEW r, r.date \in Seq(Char), r.time \in Seq(Char), NEW t \in Tags
  PROVE  Tag(t, r) \in Argument
<1>1. CASE t = "DateTime"
  <2>1. Tag(t, r) = [kind |-> "vectors", value |-> <<r.date, r.time>>]
    BY <1>1 DEF Tag
  <2> DEFINE C == Seq(Char)
  <2>2. r.date \in C /\ r.time \in C
    OBVIOUS
  <2> HIDE DEF C
  <2>3. <<r.date, r.time>> \in Seq(C)
    BY <2>2
  <2>4. QED
    BY <2>1, <2>3 DEF Argument, C
<1>2. CASE t = "Level"
  <2>1. Tag(t, r) = [kind |-> "char", value |-> 73]
    BY <1>2 DEF Tag
  <2>2. 73 \in Char
    BY DEF Char
  <2>3. QED
    BY <2>1, <2>2 DEF Argument
<1>3. CASE t = "ThreadId"
  <2> DEFINE x == parseInteger(4242, parseLength(4242))
             C == Seq(Char)
  <2>1. Tag(t, r) = [kind |-> "vectors", value |-> <<x>>]
    BY <1>3, SMT DEF Tag
  <2>2. x \in C
    <3>1. \A n \in Int : parseInteger(n, parseLength(n)) \in Seq(Char)
      BY NumberSays
    <3>2. QED
      BY <3>1, SMT
  <2> HIDE DEF x, C
  <2>3. <<x>> \in Seq(C)
    BY <2>2
  <2>4. QED
    BY <2>1, <2>3 DEF Argument, C
<1>4. QED
  BY <1>1, <1>2, <1>3 DEF Tags

\* Tags and arguments are arguments.
LEMMA AllType ==
  ASSUME NEW r, r.date \in Seq(Char), r.time \in Seq(Char),
         NEW o \in TagLists, NEW msgs \in Seq(Argument)
  PROVE  [k \in DOMAIN o |-> Tag(o[k], r)] \o msgs \in Seq(Argument)
<1> DEFINE tagged == [k \in DOMAIN o |-> Tag(o[k], r)]
<1>1. PICK n \in 0 .. 3 : o \in [1 .. n -> Tags]
  BY DEF TagLists
<1>2. n \in Nat /\ DOMAIN o = 1 .. n
  BY <1>1
<1>3. \A k \in 1 .. n : Tag(o[k], r) \in Argument
  BY <1>1, TagType
<1>4. tagged = [k \in 1 .. n |-> Tag(o[k], r)]
  BY <1>2
<1> HIDE DEF tagged
<1>5. tagged \in Seq(Argument)
  BY <1>2, <1>3, <1>4
<1>6. tagged \o msgs \in Seq(Argument)
  BY <1>5, ConcatProperties
<1>7. QED
  BY <1>6 DEF tagged

\* Every number is right.
LEMMA NumberIs ==
  ASSUME NEW a \in Argument
  PROVE  NumberRight(a)
<1>1. ASSUME a.kind \in {"int", "size_t"} PROVE SaysNumber(Texts(a)[1], a.value)
  <2> DEFINE x == parseInteger(a.value, parseLength(a.value))
  <2>1. a.value \in Int
    BY <1>1 DEF Argument
  <2>2. Texts(a) = <<x>>
    BY <1>1 DEF Texts
  <2>3. SaysNumber(x, a.value)
    BY <2>1, NumberSays
  <2> HIDE DEF x
  <2>4. QED
    BY <2>2, <2>3
<1>2. ASSUME a.kind = "double" PROVE SaysDouble(Texts(a)[1], a.value)
  <2> DEFINE x == parseDouble(a.value)
  <2>1. a.value \in Doubles
    BY <1>2 DEF Argument
  <2>2. Texts(a) = <<x>>
    BY <1>2 DEF Texts
  <2>3. SaysDouble(x, a.value)
    BY <2>1, DoubleSays
  <2> HIDE DEF x
  <2>4. QED
    BY <2>2, <2>3
<1>3. QED
  BY <1>1, <1>2 DEF NumberRight

\* What a line of some arguments is
LineOf(text, all) == /\ text = FlattenSeq(Separated(TextsOf(all)))
                     /\ Len(text) = calspace(resolve(all))

\* The line of any arguments
LEMMA LineIs ==
  ASSUME NEW all \in Seq(Argument)
  PROVE  LineOf(put(resolve(all)), all)
<1>1. Says(resolve(all), TextsOf(all))
  BY Resolved
<1>2. QED
  BY <1>1, Copied DEF LineOf

\* LineRight, of any record, line and arguments
Right(tags, msgs, r, text) ==
    /\ \E order \in TagLists :
          /\ IsOrderOf(order, tags)
          /\ LineOf(text, [k \in DOMAIN order |-> Tag(order[k], r)] \o msgs)
    /\ \A k \in DOMAIN msgs : NumberRight(msgs[k])

\* Log writes such a line, whatever it did before.
LEMMA LogRight ==
  ASSUME NEW r, r.date \in Seq(Char), r.time \in Seq(Char),
         NEW tags \in TagLists, NEW msgs \in Seq(Argument)
  PROVE  LET sorted == Sort[tags]
             all == [k \in DOMAIN sorted |-> Tag(sorted[k], r)] \o msgs
         IN  Right(tags, msgs, r, put(resolve(all)))
<1> DEFINE o == Sort[tags]
           all == [k \in DOMAIN o |-> Tag(o[k], r)] \o msgs
<1>1. o \in TagLists /\ IsOrderOf(o, tags)
  BY SortOrders
<1>2. LineOf(put(resolve(all)), all)
  <2>1. all \in Seq(Argument)
    <3> HIDE DEF o
    <3> QED BY <1>1, AllType
  <2> HIDE DEF all
  <2>2. QED
    BY <2>1, LineIs
<1>3. \A k \in DOMAIN msgs : NumberRight(msgs[k])
  BY NumberIs
<1> HIDE DEF o
<1>4. \E order \in TagLists :
         /\ IsOrderOf(order, tags)
         /\ LineOf(put(resolve(all)), [k \in DOMAIN order |-> Tag(order[k], r)] \o msgs)
  BY <1>1, <1>2
<1>5. Right(tags, msgs, r, put(resolve(all)))
  BY <1>3, <1>4 DEF Right
<1>6. QED
  BY <1>5 DEF o

\* LineRight is about the last line.
LEMMA RightIs == LineRight <=> Right(said.tags, said.msgs, record, line)
  BY DEF LineRight, Right, LineOf, TextsOf, Separated

\* And about the next one after a step.
LEMMA RightIsNext == LineRight' <=> Right(said'.tags, said'.msgs, record', line')
  BY DEF LineRight, Right, LineOf, TextsOf, Separated

\* The empty line before the first one is the line of no arguments.
LEMMA LineRightInit == LogInit => LineRight
<1> SUFFICES ASSUME LogInit PROVE LineRight
  OBVIOUS
<1>1. said.tags = <<>> /\ said.msgs = <<>> /\ line = <<>>
  BY DEF LogInit
<1>2. <<>> \in TagLists /\ IsOrderOf(<<>>, <<>>)
  <2>1. <<>> \in [1 .. 0 -> Tags] /\ DOMAIN <<>> = {}
    OBVIOUS
  <2>2. IsInjective(<<>>)
    BY <2>1 DEF IsInjective
  <2>3. 0 \in 0 .. 3
    OBVIOUS
  <2>4. <<>> \in TagLists
    BY <2>1, <2>2, <2>3 DEF TagLists
  <2>5. IsOrderOf(<<>>, <<>>)
    BY <2>1 DEF IsOrderOf
  <2>6. QED
    BY <2>4, <2>5
<1>3. LineOf(<<>>, <<>>)
  <2>1. <<>> \in Seq(Argument) /\ Len(<<>>) = 0 /\ DOMAIN <<>> = {}
    BY EmptySeq
  <2>2. Says(resolve(<<>>), TextsOf(<<>>))
    BY <2>1, Resolved
  <2>3. TextsOf(<<>>) = <<>>
    <3>1. [k \in DOMAIN <<>> |-> Texts(<<>>[k])] = <<>>
      BY <2>1
    <3>2. FlattenSeq(<<>>) = <<>>
      BY <2>1 DEF FlattenSeq
    <3>3. QED
      BY <3>1, <3>2 DEF TextsOf
  <2>4. Separated(<<>>) = <<>>
    BY <2>1 DEF Separated
  <2>5. FlattenSeq(<<>>) = <<>>
    BY <2>1 DEF FlattenSeq
  <2>6. put(resolve(<<>>)) = FlattenSeq(Separated(TextsOf(<<>>)))
        /\ Len(put(resolve(<<>>))) = calspace(resolve(<<>>))
    BY <2>2, Copied
  <2>7. QED
    BY <2>3, <2>4, <2>5, <2>6 DEF LineOf
<1>4. [k \in DOMAIN <<>> |-> Tag(<<>>[k], record)] \o <<>> = <<>>
  OBVIOUS
<1>5. Right(<<>>, <<>>, record, <<>>)
  <2>1. \E order \in TagLists :
         /\ IsOrderOf(order, <<>>)
         /\ LineOf(<<>>, [k \in DOMAIN order |-> Tag(order[k], record)] \o <<>>)
    BY <1>2, <1>3, <1>4
  <2>2. \A k \in DOMAIN <<>> : NumberRight(<<>>[k])
    OBVIOUS
  <2>3. QED
    BY <2>1, <2>2 DEF Right
<1>6. QED
  BY <1>1, <1>5, RightIs

\* The date and the time that a record keeps are texts.
LEMMA RecordTexts ==
  ASSUME NEW day \in Nat, day <= LastDay, NEW ms \in DayTimes
  PROVE  DateText(calDate(day)) \in Seq(Char) /\ TimeText(calTime(ms)) \in Seq(Char)
<1> DEFINE t == calDate(day)
           c == calTime(ms)
<1>1. DateText(t) \in Seq(Char)
  <2>1. /\ t.y \in Nat /\ t.y < 2050 /\ t.m \in Nat /\ t.m < 100 /\ t.d \in Nat /\ t.d < 100
    BY DateRange, SMT
  <2> HIDE DEF t
  <2>2. Shows(At(digits2050, t.y), 4, t.y) /\ Shows(At(digits100, t.m), 2, t.m)
        /\ Shows(At(digits100, t.d), 2, t.d)
    BY <2>1, Tables, SMT
  <2>3. QED
    BY <2>2, DateTextShows
<1>2. TimeText(c) \in Seq(Char)
  <2>1. /\ Shows(At(digits100, c.h), 2, c.h) /\ Shows(At(digits100, c.m), 2, c.m)
        /\ Shows(At(digits100, c.s), 2, c.s) /\ Shows(At(digits1000, c.S), 3, c.S)
    BY TimeIs, SMT
  <2> HIDE DEF c
  <2>2. QED
    BY <2>1, TimeTextShows
<1>3. QED
  BY <1>1, <1>2

\* A line depends on the record that format() left, and on nothing of other lines.
LEMMA LineRightNext == DateInvariant' /\ LineRight /\ [LogNext]_logvars => LineRight'
<1> SUFFICES ASSUME DateInvariant', LineRight, [LogNext]_logvars PROVE LineRight'
  OBVIOUS
<1>1. CASE UNCHANGED logvars
  <2>1. said' = said /\ record' = record /\ line' = line
    BY <1>1 DEF logvars
  <2>2. QED
    BY <2>1, RightIs, RightIsNext
<1>2. ASSUME NEW days \in Nat, NEW ms \in DayTimes, NEW tags \in TagLists,
             NEW msgs \in Seq(Argument), Log(days, ms, tags, msgs)
      PROVE  LineRight'
  <2>1. record'.date \in Seq(Char) /\ record'.time \in Seq(Char)
    <3>1. /\ clock'.day \in Nat /\ clock'.day <= LastDay /\ clock'.ms \in DayTimes
          /\ record'.date = DateText(calDate(clock'.day))
          /\ record'.time = <<>> \/ record'.time = TimeText(calTime(clock'.ms))
      BY DEF DateInvariant
    <3>2. <<>> \in Seq(Char)
      BY EmptySeq
    <3>3. QED
      BY <3>1, <3>2, RecordTexts
  <2> DEFINE r == record'
             sorted == Sort[tags]
             all == [k \in DOMAIN sorted |-> Tag(sorted[k], r)] \o msgs
  <2>2. line' = put(resolve(all)) /\ said'.tags = tags /\ said'.msgs = msgs
    BY <1>2 DEF Log
  <2>3. Right(tags, msgs, r, put(resolve(all)))
    <3> HIDE DEF r
    <3>1. r.date \in Seq(Char) /\ r.time \in Seq(Char)
      BY <2>1 DEF r
    <3>2. QED
      BY <3>1, LogRight
  <2> HIDE DEF all
  <2>4. Right(said'.tags, said'.msgs, record', line')
    BY <2>2, <2>3
  <2>5. QED
    BY <2>4, RightIsNext
<1>3. QED
  BY <1>1, <1>2 DEF LogNext

\* Every line is right, for any tags and any number of arguments, of any length:
\* resolve() gathers them in order, a text in local is not overwritten when local
\* grows, and put() copies as many bytes as apply() reserved.
THEOREM LineRightTheorem == LogSpec => []LineRight
<1>1. LogSpec => []DateInvariant
  BY DateInvariantInit, DateInvariantNext, PTL DEF LogSpec
<1>2. QED
  BY <1>1, LineRightInit, LineRightNext, PTL DEF LogSpec

-----------------------------------------------------------------------------
(* Settings                                                                *)

\* The configuration file does not change while the program runs.
SettingsInvariant == children \in Seq(Configs)

\* The file is a sequence of settings.
LEMMA SettingsInvariantInit == LogInit => SettingsInvariant
  BY DEF LogInit, SettingsInvariant

\* No line changes it.
LEMMA SettingsInvariantNext == SettingsInvariant /\ [LogNext]_logvars => SettingsInvariant'
  BY DEF SettingsInvariant, LogNext, Log, logvars

\* Settings of different kinds never disturb each other, in a configuration of any
\* length, for any names and numbers.
THEOREM SettingsCommuteTheorem == LogSpec => []SettingsCommute
<1>1. SettingsInvariant => SettingsCommute
  BY SettingsLast DEF SettingsInvariant
<1>2. QED
  BY <1>1, SettingsInvariantInit, SettingsInvariantNext, PTL DEF LogSpec
=============================================================================
