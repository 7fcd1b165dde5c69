---------------------------- MODULE CoroutineProofs ----------------------------
(***************************************************************************)
(* Theorems about Coroutine, for any number of coroutines and any size of  *)
(* the recycle stack: no two coroutines run on one stack, no wake-up is    *)
(* lost, and connect() and poll() do not lie.                              *)
(***************************************************************************)
EXTENDS Coroutine, FiniteSetTheorems, SequenceTheorems, TLAPS

All == Coroutines \cup {Main}
InCallPc == {"READ", "WRITE", "sleep", "poll", "backoff", "connect"}

Entry == [routines : [Types -> Coroutines \cup {None}], mask : SUBSET Types]

EnvironmentType ==
    /\ cStack \in Seq(All)
    /\ recycled \in Seq(Contexts)
    /\ runtime \in [Coroutines -> {"IDLE", "RUNNING", "EXIT"}]
    /\ context \in [All -> Contexts \cup {None}]
    /\ saved \in [Contexts -> All \cup {None}]
    /\ resuming \in Seq(Coroutines)
    /\ at \in [Coroutines -> {"user", "yielded"} \cup InCallPc]
    /\ DOMAIN events \subseteq Fds /\ events \in [DOMAIN events -> Entry]

\* The stack of coroutines that resumed each other starts with Main and holds each
\* of them once.
StackOK ==
    /\ cStack # <<>> /\ cStack[1] = Main
    /\ \A i, j \in 1 .. Len(cStack) : cStack[i] = cStack[j] => i = j
    /\ \A i \in 1 .. Len(cStack) : cStack[i] # Main => runtime[cStack[i]] = "RUNNING"

\* Only what was started has a Context, and what runs or can be switched to does.
HasContext ==
    /\ context[Main] # None
    /\ \A c \in Coroutines : runtime[c] = "IDLE" => context[c] = None
    /\ \A c \in Coroutines : runtime[c] = "RUNNING" => context[c] # None

\* No Context has two owners, two places on the recycle stack, or both.
Exclusive ==
    /\ \A c, d \in All : context[c] # None /\ c # d => context[c] # context[d]
    /\ \A i, j \in 1 .. Len(recycled) : recycled[i] = recycled[j] => i = j
    /\ \A i \in 1 .. Len(recycled), c \in All : recycled[i] # context[c]

\* Who can be switched to finds its registers.
Saved ==
    \A c \in All : c # current /\ (c = Main \/ runtime[c] = "RUNNING") => saved[context[c]] = c

ContextInvariant == EnvironmentType /\ StackOK /\ HasContext /\ Exclusive /\ Saved

\* The fd that a coroutine waits for in a call.
Target(c, where) ==
    IF where = "sleep" THEN Timer(c)
    ELSE IF where \in {"poll", "backoff"} THEN Epoll(c) ELSE Socket(c)

\* An entry is the one that addEvent makes for one waiter.
OneWaiter(c, type) == [NewEvent EXCEPT !.mask = {type}, !.routines[type] = c]
Entries ==
    \A fd \in DOMAIN events :
        /\ fd \in watched
        /\ \E type \in Types : events[fd] = OneWaiter(fd[2], type)

\* Entries and suspended coroutines match one to one.
EntryWaits == \A fd \in DOMAIN events : Suspended(fd[2]) /\ Target(fd[2], at[fd[2]]) = fd
WaitsInEntry == \A c \in Coroutines : Suspended(c) => Target(c, at[c]) \in DOMAIN events

\* A coroutine in a call, or that yielded, goes on when it is resumed.
InCallRuns == \A c \in Coroutines : at[c] # "user" => runtime[c] = "RUNNING"

\* loop() resumes one coroutine at a time, that of the entry it took.
ResumingOK ==
    resuming # <<>> =>
        cStack = <<Main>> /\ \E c \in Coroutines : resuming = <<c>> /\ InCall(c)

WaitInvariant == Entries /\ EntryWaits /\ WaitsInEntry /\ InCallRuns /\ ResumingOK

-----------------------------------------------------------------------------
(* The stack of coroutines and the recycle stack                           *)

\* The running coroutine is on top of the stack.
LEMMA CurrentOK ==
    ASSUME EnvironmentType, StackOK
    PROVE /\ current = cStack[Len(cStack)] /\ current \in All
          /\ Len(cStack) \in Nat /\ Len(cStack) > 0
          /\ current # Main => runtime[current] = "RUNNING" /\ Len(cStack) > 1
  BY DEF EnvironmentType, StackOK, current, Last

\* A sequence without its last element.
LEMMA FrontOK ==
    ASSUME NEW S, NEW s \in Seq(S), s # <<>>
    PROVE /\ Front(s) \in Seq(S) /\ Len(Front(s)) = Len(s) - 1
          /\ \A i \in 1 .. Len(Front(s)) : Front(s)[i] = s[i]
          /\ Last(s) = s[Len(s)]
<1> DEFINE n == Len(s) - 1
           f == SubSeq(s, 1, n)
<1>1. n \in Int /\ n >= 0 /\ \A i \in 1 .. n : s[i] \in S
  OBVIOUS
<1> HIDE DEF n
<1>2. /\ f \in Seq(S)
      /\ Len(f) = IF 1 <= n THEN n - 1 + 1 ELSE 0
      /\ \A i \in 1 .. n - 1 + 1 : f[i] = s[1 + i - 1]
  BY <1>1, SubSeqProperties
<1>3. Front(s) = f
  BY DEF Front, n
<1> HIDE DEF f
<1>4. Len(f) = n
  BY <1>1, <1>2
<1>5. ASSUME NEW i \in 1 .. n PROVE f[i] = s[i]
  <2>1. i \in 1 .. n - 1 + 1 /\ 1 + i - 1 = i
    BY <1>1
  <2> QED
    BY <1>2, <2>1
<1>6. Len(s) \in Nat /\ Len(s) - 1 = n
  BY DEF n
<1> QED
  BY <1>2, <1>3, <1>4, <1>5, <1>6 DEF Last

\* A coroutine on the stack, seen from Contains and from its places.
LEMMA ContainsOK ==
    ASSUME NEW S, NEW s \in Seq(S), NEW e
    PROVE Contains(s, e) <=> \E i \in 1 .. Len(s) : s[i] = e
  BY DEF Contains

\* There is always a Context left for a coroutine that starts.
LEMMA NewContext ==
    ASSUME EnvironmentType, HasContext, NEW d \in Coroutines, runtime[d] = "IDLE",
           recycled = <<>>
    PROVE \E x \in Contexts : x \notin Used
<1> DEFINE Others == {context[c] : c \in All \ {d}}
<1>1. IsFiniteSet(All \ {d}) /\ Cardinality(All \ {d}) = Cardinality(Coroutines)
  <2>1. IsFiniteSet(All) /\ Cardinality(All) = Cardinality(Coroutines) + 1
    BY CoroutineAssumption, FS_AddElement DEF CoroutineAssumption, All
  <2>2. Cardinality(All \ {d}) = Cardinality(All) - 1 /\ IsFiniteSet(All \ {d})
    BY <2>1, FS_RemoveElement DEF All
  <2> QED
    BY <2>1, <2>2, CoroutineAssumption, FS_CardinalityType DEF CoroutineAssumption
<1>2. IsFiniteSet(Others) /\ Cardinality(Others) <= Cardinality(Coroutines)
  <2> DEFINE f == [c \in All \ {d} |-> context[c]]
  <2>1. f \in Surjection(All \ {d}, Others)
    BY DEF Surjection
  <2> HIDE DEF f, Others
  <2> QED
    BY <1>1, <2>1, FS_Surjection
<1>3. Cardinality(Contexts) = Cardinality(Coroutines) + 1 /\ IsFiniteSet(Contexts)
  BY CoroutineAssumption, FS_CardinalityType, FS_Interval DEF CoroutineAssumption, Contexts
<1>4. PICK x \in Contexts : x \notin Others
  <2>1. SUFFICES ASSUME Contexts \subseteq Others PROVE FALSE
    OBVIOUS
  <2>2. Cardinality(Contexts) <= Cardinality(Others)
    BY <1>2, <2>1, FS_Subset
  <2> QED
    BY <1>2, <1>3, <2>2, CoroutineAssumption, FS_CardinalityType DEF CoroutineAssumption
<1>5. x # None
  BY CoroutineAssumption DEF CoroutineAssumption, Contexts
<1>6. context[d] = None
  BY DEF HasContext
<1>7. x \notin Range(context)
  BY <1>4, <1>5, <1>6 DEF Range, EnvironmentType
<1>8. x \notin ToSet(recycled)
  BY DEF ToSet
<1> QED
  BY <1>7, <1>8 DEF Used

-----------------------------------------------------------------------------
(* The Contexts                                                            *)

\* Coroutine::resume keeps the invariant, for the coroutines that are resumed.
LEMMA ResumeContexts ==
    ASSUME ContextInvariant, NEW d \in Coroutines, Resume(d), runtime[d] # "EXIT",
           ~ Contains(cStack, d)
    PROVE /\ cStack' \in Seq(All) /\ recycled' \in Seq(Contexts)
          /\ runtime' \in [Coroutines -> {"IDLE", "RUNNING", "EXIT"}]
          /\ context' \in [All -> Contexts \cup {None}]
          /\ saved' \in [Contexts -> All \cup {None}]
          /\ StackOK' /\ HasContext' /\ Exclusive' /\ Saved'
<1> USE DEF ContextInvariant
<1> DEFINE idle == runtime[d] = "IDLE"
           new == IF recycled # <<>> THEN Last(recycled) ELSE CHOOSE x \in Contexts : x \notin Used
           n == Len(cStack)
<1>1. /\ context' = IF idle THEN [context EXCEPT ![d] = new] ELSE context
      /\ recycled' = IF idle /\ recycled # <<>> THEN Front(recycled) ELSE recycled
      /\ runtime' = [runtime EXCEPT ![d] = "RUNNING"]
      /\ saved' = [saved EXCEPT ![context[current]] = current, ![context'[d]] = d]
      /\ cStack' = Append(cStack, d)
  BY DEF Resume
<1>2. /\ current \in All /\ n \in Nat /\ n > 0 /\ current = cStack[n]
      /\ current # Main => runtime[current] = "RUNNING"
  BY CurrentOK
<1>3. \A i \in 1 .. n : cStack[i] # d
  BY ContainsOK DEF EnvironmentType
<1>4. ASSUME idle
      PROVE /\ new \in Contexts
            /\ \A c \in All : context[c] # new
            /\ \A i \in 1 .. Len(recycled') : recycled'[i] # new
            /\ recycled' \in Seq(Contexts)
            /\ \A i \in 1 .. Len(recycled') : i \in 1 .. Len(recycled) /\ recycled'[i] = recycled[i]
  <2>1. CASE recycled = <<>>
    <3>1. new \in Contexts /\ new \notin Used
      BY <2>1, <1>4, NewContext
    <3>2. \A c \in All : context[c] \in Used
      BY DEF Used, Range, EnvironmentType
    <3> QED
      BY <1>1, <2>1, <3>1, <3>2
  <2>2. CASE recycled # <<>>
    <3>1. /\ Front(recycled) \in Seq(Contexts) /\ Len(Front(recycled)) = Len(recycled) - 1
          /\ \A i \in 1 .. Len(Front(recycled)) : Front(recycled)[i] = recycled[i]
          /\ Last(recycled) = recycled[Len(recycled)]
          /\ Len(recycled) \in Nat /\ Len(recycled) > 0
      BY <2>2, FrontOK DEF EnvironmentType
    <3>2. /\ recycled' = Front(recycled) /\ new = recycled[Len(recycled)]
          /\ recycled[Len(recycled)] \in Contexts
      BY <1>1, <1>4, <2>2, <3>1 DEF EnvironmentType
    <3> HIDE DEF new
    <3> QED
      BY <3>1, <3>2 DEF Exclusive
  <2> QED
    BY <2>1, <2>2
<1> HIDE DEF new
<1>5. context' \in [All -> Contexts \cup {None}] /\ recycled' \in Seq(Contexts)
  BY <1>1, <1>4 DEF EnvironmentType
<1>6. cStack' \in Seq(All) /\ Len(cStack') = n + 1 /\ cStack'[n + 1] = d
      /\ \A i \in 1 .. n : cStack'[i] = cStack[i]
  BY <1>1, AppendProperties DEF EnvironmentType, All
<1>7. current' = d
  BY <1>6 DEF current, Last
<1>8. StackOK'
  BY <1>1, <1>2, <1>3, <1>6 DEF StackOK, EnvironmentType
<1>9. /\ \A c \in All \ {d} : context'[c] = context[c]
      /\ context'[d] = IF idle THEN new ELSE context[d]
      /\ context'[d] \in Contexts /\ context'[d] # None
  BY <1>1, <1>4, CoroutineAssumption DEF EnvironmentType, HasContext, All, CoroutineAssumption, Contexts
<1>10. HasContext'
  BY <1>1, <1>9, CoroutineAssumption DEF HasContext, EnvironmentType, CoroutineAssumption, All
<1>11. Exclusive'
  BY <1>1, <1>4, <1>9 DEF Exclusive
<1>12. saved' \in [Contexts -> All \cup {None}]
  BY <1>1, <1>2 DEF EnvironmentType, All
<1>13. Saved'
  <2> SUFFICES ASSUME NEW c \in All, c # d, c = Main \/ runtime'[c] = "RUNNING"
               PROVE saved'[context'[c]] = c
    BY <1>7 DEF Saved
  <2>1. context'[c] = context[c] /\ context[c] \in Contexts /\ context'[c] # context'[d]
    BY <1>1, <1>9, <1>10, <1>11 DEF HasContext, Exclusive, EnvironmentType, All
  <2>2. CASE c = current
    BY <1>1, <2>1, <2>2 DEF EnvironmentType
  <2>3. CASE c # current
    <3>1. saved[context[c]] = c
      BY <1>1, <2>3 DEF Saved, EnvironmentType, All
    <3>2. context[c] # context[current]
      BY <1>2, <2>1, <2>3, CoroutineAssumption DEF Exclusive, CoroutineAssumption, Contexts
    <3> QED
      BY <1>1, <2>1, <3>1, <3>2 DEF EnvironmentType
  <2> QED
    BY <2>2, <2>3
<1>14. runtime' \in [Coroutines -> {"IDLE", "RUNNING", "EXIT"}]
  BY <1>1 DEF EnvironmentType
<1> QED
  BY <1>5, <1>6, <1>8, <1>10, <1>11, <1>12, <1>13, <1>14

\* Popping the current coroutine leaves a stack.
LEMMA PopOK ==
    ASSUME EnvironmentType, StackOK, current # Main, cStack' = Front(cStack)
    PROVE /\ cStack' \in Seq(All) /\ cStack' # <<>> /\ cStack'[1] = Main
          /\ Len(cStack') = Len(cStack) - 1
          /\ \A i \in 1 .. Len(cStack') : cStack'[i] = cStack[i] /\ cStack'[i] # current
          /\ current' = cStack[Len(cStack) - 1] /\ current' # current
          /\ \A i, j \in 1 .. Len(cStack') : cStack'[i] = cStack'[j] => i = j
<1>1. /\ current = cStack[Len(cStack)] /\ Len(cStack) \in Nat /\ Len(cStack) > 1
      /\ cStack \in Seq(All) /\ cStack # <<>>
  BY CurrentOK DEF EnvironmentType, StackOK
<1>2. /\ cStack' \in Seq(All) /\ Len(cStack') = Len(cStack) - 1
      /\ \A i \in 1 .. Len(cStack') : cStack'[i] = cStack[i]
  BY <1>1, FrontOK
<1>3. \A i \in 1 .. Len(cStack') : cStack[i] # current
  BY <1>1, <1>2 DEF StackOK
<1>4. current' = cStack[Len(cStack) - 1] /\ cStack' # <<>>
  BY <1>1, <1>2 DEF current, Last
<1> QED
  BY <1>1, <1>2, <1>3, <1>4 DEF StackOK

\* Coroutine::yield of a coroutine that keeps its Context: all but Saved is kept by
\* what it leaves alone.
LEMMA YieldContexts ==
    ASSUME ContextInvariant, current # Main, Yield
    PROVE /\ cStack' \in Seq(All) /\ saved' \in [Contexts -> All \cup {None}]
          /\ StackOK' /\ HasContext' /\ Exclusive' /\ Saved'
<1> USE DEF ContextInvariant
<1>1. /\ cStack' = Front(cStack) /\ saved' = [saved EXCEPT ![context[current]] = current]
      /\ UNCHANGED <<recycled, runtime, context>>
  BY DEF Yield
<1>2. current \in All /\ runtime[current] = "RUNNING" /\ current \in Coroutines
  BY CurrentOK DEF All
<1>3. StackOK' /\ cStack' \in Seq(All)
  BY <1>1, <1>2, PopOK DEF StackOK
<1>4. HasContext' /\ Exclusive'
  BY <1>1 DEF HasContext, Exclusive
<1>5. saved' \in [Contexts -> All \cup {None}]
  BY <1>1, <1>2 DEF EnvironmentType
<1>6. Saved'
  <2> SUFFICES ASSUME NEW c \in All, c = Main \/ runtime[c] = "RUNNING", c # current'
               PROVE saved'[context[c]] = c
    BY <1>1 DEF Saved
  <2>1. context[c] \in Contexts
    BY DEF HasContext, EnvironmentType, All
  <2>2. CASE c = current
    BY <1>1, <2>1, <2>2 DEF EnvironmentType
  <2>3. CASE c # current
    <3>1. saved[context[c]] = c /\ context[c] # context[current]
      BY <2>1, <2>3, <1>2, CoroutineAssumption DEF Saved, Exclusive, CoroutineAssumption, Contexts
    <3> QED
      BY <1>1, <2>1, <3>1 DEF EnvironmentType
  <2> QED
    BY <2>2, <2>3
<1> QED
  BY <1>3, <1>4, <1>5, <1>6

\* The end of routineWrapper, with the Context given away or kept.
LEMMA ExitContexts ==
    ASSUME ContextInvariant, NEW c \in Coroutines, Exit(c)
    PROVE /\ cStack' \in Seq(All) /\ recycled' \in Seq(Contexts)
          /\ runtime' \in [Coroutines -> {"IDLE", "RUNNING", "EXIT"}]
          /\ context' \in [All -> Contexts \cup {None}]
          /\ saved' \in [Contexts -> All \cup {None}]
          /\ StackOK' /\ HasContext' /\ Exclusive' /\ Saved'
<1> USE DEF ContextInvariant
<1>1. /\ current = c /\ runtime[c] = "RUNNING" /\ cStack' = Front(cStack)
      /\ runtime' = [runtime EXCEPT ![c] = "EXIT"] /\ c # Main
  BY CoroutineAssumption DEF Exit, Runs, CoroutineAssumption
<1>2. context[c] \in Contexts /\ context[c] # None
  BY <1>1 DEF HasContext, EnvironmentType, All
<1>3. /\ runtime' \in [Coroutines -> {"IDLE", "RUNNING", "EXIT"}]
      /\ \A d \in Coroutines \ {c} : runtime'[d] = runtime[d]
      /\ runtime'[c] = "EXIT"
  BY <1>1 DEF EnvironmentType
<1>4. cStack' \in Seq(All) /\ StackOK'
  <2>1. \A i \in 1 .. Len(cStack') :
           /\ cStack'[i] = cStack[i] /\ cStack'[i] # c /\ cStack'[i] \in All
           /\ i \in 1 .. Len(cStack)
    BY <1>1, PopOK, CurrentOK DEF EnvironmentType
  <2>2. \A i \in 1 .. Len(cStack') : cStack'[i] # Main => runtime'[cStack'[i]] = "RUNNING"
    BY <1>3, <2>1 DEF StackOK, All
  <2> QED
    BY <1>1, <2>2, PopOK DEF StackOK
<1>5. /\ context' \in [All -> Contexts \cup {None}] /\ recycled' \in Seq(Contexts)
      /\ saved' \in [Contexts -> All \cup {None}]
      /\ \A d \in All \ {c} : context'[d] = context[d]
  <2>1. /\ context \in [All -> Contexts \cup {None}] /\ saved \in [Contexts -> All \cup {None}]
        /\ recycled \in Seq(Contexts) /\ c \in All
    BY DEF EnvironmentType, All
  <2>2. CASE Len(recycled) < RecycleLimit
    <3>1. /\ recycled' = Append(recycled, context[c])
          /\ context' = [context EXCEPT ![c] = None] /\ saved' = saved
      BY <2>2 DEF Exit, Recycles
    <3> QED
      BY <1>2, <2>1, <3>1, AppendProperties
  <2>3. CASE ~ (Len(recycled) < RecycleLimit)
    <3>1. saved' = [saved EXCEPT ![context[c]] = c] /\ UNCHANGED <<recycled, context>>
      BY <2>3 DEF Exit, Recycles
    <3> QED
      BY <1>2, <2>1, <3>1
  <2> QED
    BY <2>2, <2>3
<1>6. HasContext'
  BY <1>3, <1>5, CoroutineAssumption DEF HasContext, CoroutineAssumption, All
<1>7. Exclusive'
  <2>1. CASE recycled' = Append(recycled, context[c]) /\ context' = [context EXCEPT ![c] = None]
    <3>1. /\ Len(recycled') = Len(recycled) + 1 /\ recycled'[Len(recycled) + 1] = context[c]
          /\ \A i \in 1 .. Len(recycled) : recycled'[i] = recycled[i]
          /\ Len(recycled) \in Nat
      BY <1>2, <2>1, AppendProperties DEF EnvironmentType
    <3>2. /\ context'[c] = None
          /\ \A i \in 1 .. Len(recycled) : recycled[i] # None /\ recycled[i] # context[c]
      <4>1. c \in All /\ context \in [All -> Contexts \cup {None}]
        BY DEF All, EnvironmentType
      <4>2. \A i \in 1 .. Len(recycled) : recycled[i] \in Contexts
        BY DEF EnvironmentType
      <4> QED
        BY <2>1, <4>1, <4>2, CoroutineAssumption DEF Exclusive, CoroutineAssumption, Contexts
    <3>3. \A d, e \in All : context'[d] # None /\ d # e => context'[d] # context'[e]
      BY <1>5, <3>2 DEF Exclusive
    <3>4. \A i, j \in 1 .. Len(recycled') : recycled'[i] = recycled'[j] => i = j
      BY <3>1, <3>2 DEF Exclusive
    <3>5. \A i \in 1 .. Len(recycled'), d \in All : recycled'[i] # context'[d]
      <4> TAKE i \in 1 .. Len(recycled'), d \in All
      <4>1. CASE i = Len(recycled) + 1
        BY <4>1, <3>1, <3>2, <1>2, <1>5, CoroutineAssumption DEF Exclusive, CoroutineAssumption, Contexts, All
      <4>2. CASE i \in 1 .. Len(recycled)
        BY <4>2, <3>1, <3>2, <1>5 DEF Exclusive
      <4> QED
        BY <3>1, <4>1, <4>2
    <3> QED
      BY <3>3, <3>4, <3>5 DEF Exclusive
  <2>2. CASE UNCHANGED <<recycled, context>>
    BY <2>2 DEF Exclusive
  <2> QED
    BY <2>1, <2>2 DEF Exit, Recycles
<1>8. Saved'
  <2> SUFFICES ASSUME NEW d \in All, d = Main \/ runtime'[d] = "RUNNING", d # current'
               PROVE saved'[context'[d]] = d
    BY DEF Saved
  <2>1. d # c /\ context'[d] = context[d] /\ (d = Main \/ runtime[d] = "RUNNING")
    BY <1>1, <1>3, <1>5 DEF All
  <2>2. context[d] \in Contexts /\ saved[context[d]] = d /\ context[d] # context[c]
    BY <1>1, <2>1, <1>2 DEF Saved, HasContext, EnvironmentType, All, Exclusive
  <2>3. saved' = saved \/ saved' = [saved EXCEPT ![context[c]] = c]
    BY DEF Exit, Recycles
  <2> QED
    BY <2>1, <2>2, <2>3 DEF EnvironmentType
<1> QED
  BY <1>3, <1>4, <1>5, <1>6, <1>7, <1>8

-----------------------------------------------------------------------------
(* Waiting                                                                 *)

\* Nobody but c is suspended, woken or sent elsewhere.
OthersKept(c) ==
    \A d \in Coroutines \ {c} : at'[d] = at[d] /\ (Suspended(d)' <=> Suspended(d))

\* The descriptor of a wait tells whose it is.
LEMMA FdsOK ==
    /\ \A c \in Coroutines, where \in InCallPc :
          Target(c, where) \in Fds /\ Target(c, where)[2] = c
    /\ \A fd \in Fds : fd[2] \in Coroutines
    /\ \A c \in Coroutines : WaitsFor(c) = Target(c, at[c])
  BY DEF Fds, Target, WaitsFor, Socket, Timer, Epoll

\* The entry of one waiter has that one and no other.
LEMMA OneWaiterOK ==
    ASSUME NEW c \in Coroutines, NEW type \in Types
    PROVE /\ OneWaiter(c, type) \in Entry
          /\ OneWaiter(c, type).routines[type] = c
          /\ \A other \in Types \ {type} : OneWaiter(c, type).routines[other] = None
  BY DEF OneWaiter, NewEvent, Entry, Types

\* Who is not on the stack, nor about to be resumed.
LEMMA SuspendedOK ==
    ASSUME EnvironmentType, NEW c \in Coroutines
    PROVE Suspended(c) <=> /\ at[c] \in InCallPc
                           /\ \A i \in 1 .. Len(cStack) : cStack[i] # c
                           /\ \A i \in 1 .. Len(resuming) : resuming[i] # c
  BY ContainsOK DEF EnvironmentType, Suspended, InCall, InCallPc

\* The running coroutine is on the stack, and no entry is one of its fds.
LEMMA RunningOK ==
    ASSUME EnvironmentType, StackOK, WaitInvariant, NEW c \in Coroutines, current = c
    PROVE /\ ~Suspended(c) /\ \A fd \in DOMAIN events : fd[2] # c
          /\ resuming = <<>> /\ c # Main
<1>1. c # Main
  BY CoroutineAssumption DEF CoroutineAssumption
<1>2. current = cStack[Len(cStack)] /\ Len(cStack) > 1 /\ Len(cStack) \in Nat
  BY <1>1, CurrentOK
<1>3. ~Suspended(c)
  BY <1>2, SuspendedOK
<1>4. resuming = <<>>
  <2>1. cStack # <<Main>>
    BY <1>2
  <2> QED
    BY <2>1 DEF WaitInvariant, ResumingOK
<1> QED
  BY <1>1, <1>3, <1>4 DEF WaitInvariant, EntryWaits

\* A call of the running coroutine that returns, or does not wait.
LEMMA ReturnsKeeps ==
    ASSUME ContextInvariant, WaitInvariant, NEW c \in Coroutines, current = c,
           runtime[c] = "RUNNING", NEW where \in {"user", "yielded"},
           at' = [at EXCEPT ![c] = where], UNCHANGED <<environment, polling, resuming>>
    PROVE ContextInvariant' /\ WaitInvariant' /\ OthersKept(c) /\ at'[c] = where
<1>1. UNCHANGED <<cStack, recycled, runtime, context, saved, events, watched, resuming>>
  BY DEF environment, polling
<1>2. ContextInvariant'
  BY <1>1 DEF ContextInvariant, EnvironmentType, StackOK, HasContext, Exclusive, Saved, current
<1>3. ~Suspended(c) /\ \A fd \in DOMAIN events : fd[2] # c
  BY RunningOK DEF ContextInvariant
<1>4. resuming = <<>>
  BY RunningOK DEF ContextInvariant
<1>5. at \in [Coroutines -> {"user", "yielded"} \cup InCallPc]
  BY DEF ContextInvariant, EnvironmentType
<1>6. \A d \in Coroutines : Suspended(d)' <=> Suspended(d)
  BY <1>1, <1>3, <1>5 DEF Suspended, InCall
<1>7. Entries' /\ InCallRuns' /\ ResumingOK'
  BY <1>1, <1>4, <1>5 DEF WaitInvariant, Entries, InCallRuns, ResumingOK
<1>8. EntryWaits'
  <2> SUFFICES ASSUME NEW fd \in DOMAIN events
               PROVE Suspended(fd[2])' /\ Target(fd[2], at'[fd[2]]) = fd
    BY <1>1 DEF EntryWaits, Target
  <2>1. fd[2] \in Coroutines /\ fd[2] # c
    BY <1>3, FdsOK DEF ContextInvariant, EnvironmentType
  <2> QED
    BY <2>1, <1>5, <1>6 DEF WaitInvariant, EntryWaits
<1>9. WaitsInEntry'
  BY <1>1, <1>3, <1>5, <1>6 DEF WaitInvariant, WaitsInEntry, Target
<1>10. OthersKept(c) /\ at'[c] = where
  BY <1>5, <1>6 DEF OthersKept
<1> QED
  BY <1>2, <1>7, <1>8, <1>9, <1>10 DEF WaitInvariant

\* When the running coroutine is popped, the others stay as they are.
LEMMA OthersStay ==
    ASSUME EnvironmentType, StackOK, WaitInvariant, NEW c \in Coroutines, current = c,
           cStack' = Front(cStack), UNCHANGED resuming,
           \A d \in Coroutines \ {c} : at'[d] = at[d]
    PROVE /\ \A d \in Coroutines \ {c} : Suspended(d)' <=> Suspended(d)
          /\ resuming' = <<>> /\ resuming = <<>>
          /\ \A i \in 1 .. Len(cStack') : cStack'[i] # c
<1>1. c # Main /\ resuming = <<>>
  BY RunningOK
<1>2. /\ cStack' \in Seq(All) /\ Len(cStack') = Len(cStack) - 1
      /\ \A i \in 1 .. Len(cStack') : cStack'[i] = cStack[i] /\ cStack'[i] # c
      /\ c = cStack[Len(cStack)] /\ Len(cStack) \in Nat /\ Len(cStack) > 1
  BY <1>1, PopOK, CurrentOK
<1>3. ASSUME NEW d \in Coroutines \ {c}
      PROVE Contains(cStack', d) <=> Contains(cStack, d)
  <2>1. Contains(cStack, d) <=> \E i \in 1 .. Len(cStack) : cStack[i] = d
    BY ContainsOK DEF EnvironmentType
  <2>2. Contains(cStack', d) <=> \E i \in 1 .. Len(cStack') : cStack'[i] = d
    BY <1>2, ContainsOK
  <2>3. \A i \in 1 .. Len(cStack) : cStack[i] = d => i \in 1 .. Len(cStack')
    BY <1>2
  <2> QED
    BY <1>2, <2>1, <2>2, <2>3
<1>4. \A d \in Coroutines \ {c} : Suspended(d)' <=> Suspended(d)
  BY <1>3 DEF Suspended, InCall
<1> QED
  BY <1>1, <1>2, <1>4

\* A coroutine that yields by itself or ends is on no list.
LEMMA LeavesKeeps ==
    ASSUME EnvironmentType, EnvironmentType', StackOK, WaitInvariant, NEW c \in Coroutines,
           current = c, cStack' = Front(cStack), at'[c] \in {"user", "yielded"},
           at'[c] # "user" => runtime'[c] = "RUNNING",
           \A d \in Coroutines \ {c} : at'[d] = at[d] /\ runtime'[d] = runtime[d],
           UNCHANGED <<polling, resuming>>
    PROVE WaitInvariant' /\ OthersKept(c)
<1>1. UNCHANGED <<events, watched, resuming>>
  BY DEF polling
<1>2. /\ \A d \in Coroutines \ {c} : Suspended(d)' <=> Suspended(d)
      /\ resuming' = <<>>
  BY <1>1, OthersStay
<1>3. ~Suspended(c)' /\ \A fd \in DOMAIN events : fd[2] # c
  BY RunningOK DEF Suspended, InCall
<1>4. Entries' /\ InCallRuns' /\ ResumingOK'
  BY <1>1, <1>2 DEF WaitInvariant, Entries, InCallRuns, ResumingOK
<1>5. EntryWaits'
  <2> SUFFICES ASSUME NEW fd \in DOMAIN events
               PROVE Suspended(fd[2])' /\ Target(fd[2], at'[fd[2]]) = fd
    BY <1>1 DEF EntryWaits, Target
  <2>1. fd[2] \in Coroutines \ {c}
    BY <1>3, FdsOK DEF EnvironmentType
  <2> QED
    BY <2>1, <1>2 DEF WaitInvariant, EntryWaits
<1>6. WaitsInEntry'
  BY <1>1, <1>2, <1>3 DEF WaitInvariant, WaitsInEntry, Target
<1> QED
  BY <1>2, <1>4, <1>5, <1>6 DEF WaitInvariant, OthersKept

\* A call that waits: addEvent() makes an entry for its fd, because there is none,
\* and the coroutine yields.
LEMMA WaitsKeeps ==
    ASSUME ContextInvariant, WaitInvariant, NEW c \in Coroutines, current = c,
           runtime[c] = "RUNNING", NEW where \in InCallPc, NEW type \in Types,
           addEvent(c, Target(c, where), type), Waits(c, where), UNCHANGED resuming
    PROVE ContextInvariant' /\ WaitInvariant' /\ OthersKept(c) /\ Suspended(c)'
<1> DEFINE fd == Target(c, where)
<1> USE DEF ContextInvariant
<1>1. /\ fd \in Fds /\ fd[2] = c /\ fd \notin DOMAIN events /\ c # Main
      /\ resuming = <<>>
  BY FdsOK, RunningOK
<1>2. at' = [at EXCEPT ![c] = where] /\ Yield
  BY DEF Waits
<1> HIDE DEF fd
<1>3. /\ events' = [f \in DOMAIN events \cup {fd} |->
                       IF f # fd THEN events[f] ELSE OneWaiter(c, type)]
      /\ watched' = watched \cup {fd}
  BY <1>1 DEF addEvent, Found, OneWaiter, fd
<1>4. /\ cStack' \in Seq(All) /\ saved' \in [Contexts -> All \cup {None}]
      /\ StackOK' /\ HasContext' /\ Exclusive' /\ Saved'
      /\ UNCHANGED <<recycled, runtime, context>> /\ cStack' = Front(cStack)
  BY <1>1, <1>2, YieldContexts DEF Yield
<1>5. EnvironmentType'
  BY <1>1, <1>2, <1>3, <1>4, OneWaiterOK DEF EnvironmentType
<1>6. at \in [Coroutines -> {"user", "yielded"} \cup InCallPc]
  BY DEF EnvironmentType
<1>7. /\ \A d \in Coroutines \ {c} : Suspended(d)' <=> Suspended(d)
      /\ resuming' = <<>>
      /\ \A i \in 1 .. Len(cStack') : cStack'[i] # c
  BY <1>2, <1>4, <1>6, OthersStay
<1>8. Suspended(c)'
  <2>1. ~Contains(cStack', c) /\ ~Contains(resuming', c)
    BY <1>4, <1>7, ContainsOK DEF Contains
  <2>2. at'[c] = where
    BY <1>2, <1>6
  <2> QED
    BY <2>1, <2>2 DEF Suspended, InCall, InCallPc
<1>9. Entries'
  BY <1>1, <1>3 DEF WaitInvariant, Entries
<1>10. EntryWaits'
  <2> SUFFICES ASSUME NEW f \in DOMAIN events \cup {fd}
               PROVE Suspended(f[2])' /\ Target(f[2], at'[f[2]]) = f
    BY <1>3 DEF EntryWaits, Target
  <2>1. CASE f = fd
    BY <1>1, <1>2, <1>6, <1>8, <2>1 DEF fd
  <2>2. CASE f # fd
    <3>1. f[2] \in Coroutines \ {c}
      BY <2>2, FdsOK, RunningOK DEF EnvironmentType
    <3> QED
      BY <2>2, <3>1, <1>2, <1>6, <1>7 DEF WaitInvariant, EntryWaits
  <2> QED
    BY <2>1, <2>2
<1>11. WaitsInEntry'
  <2> SUFFICES ASSUME NEW d \in Coroutines, Suspended(d)'
               PROVE Target(d, at'[d]) \in DOMAIN events \cup {fd}
    BY <1>3 DEF WaitsInEntry, Target
  <2>1. CASE d = c
    BY <1>2, <1>6, <2>1 DEF fd
  <2>2. CASE d # c
    BY <1>2, <1>6, <1>7, <2>2 DEF WaitInvariant, WaitsInEntry
  <2> QED
    BY <2>1, <2>2
<1>12. InCallRuns' /\ ResumingOK'
  BY <1>2, <1>4, <1>6, <1>7 DEF WaitInvariant, InCallRuns, ResumingOK
<1>13. OthersKept(c)
  BY <1>2, <1>6, <1>7 DEF OthersKept
<1> QED
  BY <1>4, <1>5, <1>8, <1>9, <1>10, <1>11, <1>12, <1>13 DEF WaitInvariant

-----------------------------------------------------------------------------
(* The steps of a coroutine                                                *)

ReturnsNow(c) ==
    at' = [at EXCEPT ![c] = "user"] /\ UNCHANGED <<environment, polling, resuming>>
WaitsNow(c) ==
    /\ UNCHANGED resuming
    /\ \E where \in InCallPc, type \in Types :
          addEvent(c, Target(c, where), type) /\ Waits(c, where)

\* What a call does to who runs and who waits: it returns, or it waits.
LEMMA CallReturnsOrWaits ==
    ASSUME NEW c \in Coroutines,
           Read(c) \/ Write(c) \/ Accept4(c) \/ Sleep(c) \/ Poll(c) \/ PollReturns(c)
              \/ Connect(c) \/ ConnectChecks(c)
    PROVE /\ current = c /\ runtime[c] = "RUNNING"
          /\ ReturnsNow(c) \/ WaitsNow(c)
<1>1. /\ {"READ", "WRITE", "sleep", "poll", "backoff", "connect"} \subseteq InCallPc
      /\ {"READ", "WRITE"} \subseteq Types
      /\ Target(c, "READ") = Socket(c) /\ Target(c, "WRITE") = Socket(c)
      /\ Target(c, "connect") = Socket(c) /\ Target(c, "sleep") = Timer(c)
      /\ Target(c, "poll") = Epoll(c) /\ Target(c, "backoff") = Epoll(c)
  BY DEF InCallPc, Types, Target
<1>2. ASSUME NEW type \in {"READ", "WRITE"}, NEW waitsReady, Try(c, type, waitsReady)
      PROVE current = c /\ runtime[c] = "RUNNING" /\ (ReturnsNow(c) \/ WaitsNow(c))
  <2>1. current = c /\ runtime[c] = "RUNNING"
    BY <1>2 DEF Try, Calls, Runs
  <2>2. \/ ReturnsNow(c)
        \/ addEvent(c, Socket(c), type) /\ Waits(c, type) /\ UNCHANGED resuming
    BY <1>2 DEF Try, Returns, ReturnsNow
  <2> QED
    BY <1>1, <2>1, <2>2 DEF WaitsNow
<1>3. ASSUME NEW type \in {"READ", "WRITE"}, Retry(c, type)
      PROVE current = c /\ runtime[c] = "RUNNING" /\ ReturnsNow(c)
  BY <1>3 DEF Retry, Runs, Returns, ReturnsNow
<1>4. CASE Sleep(c)
  <2>1. current = c /\ runtime[c] = "RUNNING"
    BY <1>4 DEF Sleep, Calls, Runs
  <2>2. \/ ReturnsNow(c)
        \/ addEvent(c, Timer(c), "READ") /\ Waits(c, "sleep") /\ UNCHANGED resuming
    BY <1>4 DEF Sleep, Returns, ReturnsNow
  <2> QED
    BY <1>1, <2>1, <2>2 DEF WaitsNow
<1>5. CASE Poll(c) \/ PollReturns(c)
  <2>1. current = c /\ runtime[c] = "RUNNING"
    BY <1>5 DEF Poll, PollReturns, Calls, Runs
  <2>2. \/ ReturnsNow(c)
        \/ addEvent(c, Epoll(c), "READ") /\ Waits(c, "poll") /\ UNCHANGED resuming
    BY <1>5 DEF Poll, PollReturns, PollWaits, Returns, ReturnsNow
  <2> QED
    BY <1>1, <2>1, <2>2 DEF WaitsNow
<1>6. ASSUME Connects(c), UNCHANGED resuming PROVE ReturnsNow(c) \/ WaitsNow(c)
  <2>1. \/ ReturnsNow(c)
        \/ addEvent(c, Socket(c), "WRITE") /\ Waits(c, "connect") /\ UNCHANGED resuming
    BY <1>6 DEF Connects, Returns, ReturnsNow
  <2> QED
    BY <1>1, <2>1 DEF WaitsNow
<1>7. ASSUME NEW n, Attempt(c, n), UNCHANGED resuming PROVE ReturnsNow(c) \/ WaitsNow(c)
  <2>1. \/ ReturnsNow(c) \/ Connects(c)
        \/ addEvent(c, Epoll(c), "READ") /\ Waits(c, "backoff") /\ UNCHANGED resuming
    BY <1>7 DEF Attempt, Returns, ReturnsNow, PollWaits
  <2> QED
    BY <1>1, <1>6, <1>7, <2>1 DEF WaitsNow
<1>8. CASE Connect(c)
  BY <1>6, <1>7, <1>8 DEF Connect, Calls, Runs
<1>9. CASE ConnectChecks(c)
  BY <1>7, <1>9 DEF ConnectChecks, Runs, Returns, ReturnsNow
<1> QED
  BY <1>2, <1>3, <1>4, <1>5, <1>8, <1>9 DEF Read, Write, Accept4

\* What a running coroutine does in one step.
LEMMA GoesKeeps ==
    ASSUME ContextInvariant, WaitInvariant, NEW c \in Coroutines, Goes(c)
    PROVE /\ ContextInvariant' /\ WaitInvariant'
          /\ OthersKept(c)
          /\ at'[c] \in {"user", "yielded"} \/ Suspended(c)'
<1>1. CASE ReturnsNow(c) /\ current = c /\ runtime[c] = "RUNNING"
  BY <1>1, ReturnsKeeps DEF ReturnsNow
<1>2. CASE WaitsNow(c) /\ current = c /\ runtime[c] = "RUNNING"
  BY <1>2, WaitsKeeps DEF WaitsNow
<1>3. CASE Exit(c)
  <2>1. /\ current = c /\ at[c] = "user" /\ cStack' = Front(cStack)
        /\ runtime' = [runtime EXCEPT ![c] = "EXIT"] /\ at' = at
        /\ UNCHANGED <<polling, resuming>> /\ UNCHANGED events
    BY <1>3 DEF Exit, Runs, polling
  <2>2. ContextInvariant'
    <3>1. /\ cStack' \in Seq(All) /\ recycled' \in Seq(Contexts)
          /\ runtime' \in [Coroutines -> {"IDLE", "RUNNING", "EXIT"}]
          /\ context' \in [All -> Contexts \cup {None}]
          /\ saved' \in [Contexts -> All \cup {None}]
          /\ StackOK' /\ HasContext' /\ Exclusive' /\ Saved'
      BY <1>3, ExitContexts
    <3> QED
      BY <2>1, <3>1 DEF ContextInvariant, EnvironmentType
  <2>3. \A d \in Coroutines \ {c} : runtime'[d] = runtime[d]
    BY <2>1
  <2> QED
    BY <2>1, <2>2, <2>3, LeavesKeeps DEF ContextInvariant
<1>4. CASE YieldsItself(c)
  <2>1. /\ current = c /\ runtime[c] = "RUNNING" /\ Yield /\ c # Main
        /\ at' = [at EXCEPT ![c] = "yielded"]
        /\ UNCHANGED <<polling, resuming>> /\ UNCHANGED events
        /\ UNCHANGED <<recycled, runtime, context>> /\ cStack' = Front(cStack)
    BY <1>4, CoroutineAssumption DEF YieldsItself, Runs, Yield, polling, CoroutineAssumption
  <2>2. at' \in [Coroutines -> {"user", "yielded"} \cup InCallPc] /\ at'[c] = "yielded"
        /\ \A d \in Coroutines \ {c} : at'[d] = at[d]
    BY <2>1 DEF ContextInvariant, EnvironmentType
  <2>3. ContextInvariant'
    <3>1. /\ cStack' \in Seq(All) /\ saved' \in [Contexts -> All \cup {None}]
          /\ StackOK' /\ HasContext' /\ Exclusive' /\ Saved'
      BY <2>1, YieldContexts
    <3> QED
      BY <2>1, <2>2, <3>1 DEF ContextInvariant, EnvironmentType
  <2> QED
    BY <2>1, <2>2, <2>3, LeavesKeeps DEF ContextInvariant
<1> QED
  BY <1>1, <1>2, <1>3, <1>4, CallReturnsOrWaits DEF Goes

-----------------------------------------------------------------------------
(* Starting and resuming                                                   *)

\* Pushing d changes nobody else.
LEMMA PushOK ==
    ASSUME EnvironmentType, NEW d \in Coroutines, cStack' = Append(cStack, d)
    PROVE /\ Contains(cStack', d)
          /\ \A c \in Coroutines \ {d} : Contains(cStack', c) <=> Contains(cStack, c)
<1>1. /\ cStack \in Seq(All) /\ d \in All /\ Len(cStack) \in Nat
      /\ Len(cStack') = Len(cStack) + 1 /\ cStack'[Len(cStack) + 1] = d
      /\ \A i \in 1 .. Len(cStack) : cStack'[i] = cStack[i]
      /\ cStack' \in Seq(All)
  BY AppendProperties DEF EnvironmentType, All
<1>2. \A c : /\ Contains(cStack', c) <=> \E i \in 1 .. Len(cStack) + 1 : cStack'[i] = c
             /\ Contains(cStack, c) <=> \E i \in 1 .. Len(cStack) : cStack[i] = c
  BY <1>1 DEF Contains
<1>3. Contains(cStack', d)
  BY <1>1, <1>2
<1>4. ASSUME NEW c \in Coroutines \ {d} PROVE Contains(cStack', c) <=> Contains(cStack, c)
  <2>1. \A i \in 1 .. Len(cStack) + 1 : i # Len(cStack) + 1 => i \in 1 .. Len(cStack)
    BY <1>1
  <2>2. \A i \in 1 .. Len(cStack) : i \in 1 .. Len(cStack) + 1
    BY <1>1
  <2> QED
    BY <1>1, <1>2, <2>1, <2>2
<1> QED
  BY <1>3, <1>4

\* A coroutine that is started or resumed by user code.
LEMMA StartsKeeps ==
    ASSUME ContextInvariant, WaitInvariant, NEW d \in Coroutines, Starts(d)
    PROVE /\ ContextInvariant' /\ WaitInvariant'
          /\ OthersKept(d) /\ at'[d] = "user" /\ at[d] \in {"user", "yielded"}
<1> USE DEF ContextInvariant
<1>1. /\ ~Contains(cStack, d) /\ Resume(d) /\ at' = [at EXCEPT ![d] = "user"]
      /\ UNCHANGED <<events, watched, resuming>>
      /\ runtime[d] = "IDLE" \/ at[d] = "yielded"
  BY DEF Starts, polling
<1>2. resuming = <<>>
  <2>1. cStack = <<Main>> => current = Main
    BY DEF current, Last
  <2> QED
    BY <2>1 DEF Starts, WaitInvariant, ResumingOK
<1>3. at \in [Coroutines -> {"user", "yielded"} \cup InCallPc] /\ at[d] \in {"user", "yielded"}
      /\ runtime[d] # "EXIT"
  <2>1. at[d] \in {"user", "yielded"} /\ runtime[d] # "EXIT"
    BY <1>1 DEF WaitInvariant, InCallRuns, EnvironmentType
  <2> QED
    BY <2>1 DEF EnvironmentType
<1>4. /\ cStack' \in Seq(All) /\ recycled' \in Seq(Contexts)
      /\ runtime' \in [Coroutines -> {"IDLE", "RUNNING", "EXIT"}]
      /\ context' \in [All -> Contexts \cup {None}]
      /\ saved' \in [Contexts -> All \cup {None}]
      /\ StackOK' /\ HasContext' /\ Exclusive' /\ Saved'
  BY <1>1, <1>3, ResumeContexts
<1>5. ContextInvariant'
  BY <1>1, <1>3, <1>4 DEF EnvironmentType
<1>6. cStack' = Append(cStack, d) /\ runtime' = [runtime EXCEPT ![d] = "RUNNING"]
  BY <1>1, <1>3 DEF Resume
<1>7. /\ \A c \in Coroutines \ {d} : at'[c] = at[c] /\ runtime'[c] = runtime[c]
      /\ runtime'[d] = "RUNNING" /\ at'[d] = "user"
  BY <1>1, <1>3, <1>6 DEF EnvironmentType
<1>8. /\ \A c \in Coroutines \ {d} : Suspended(c)' <=> Suspended(c)
      /\ ~Suspended(d) /\ ~Suspended(d)'
  BY <1>1, <1>3, <1>6, <1>7, PushOK DEF Suspended, InCall
<1>9. Entries' /\ InCallRuns' /\ ResumingOK'
  BY <1>1, <1>2, <1>7 DEF WaitInvariant, Entries, InCallRuns, ResumingOK
<1>10. EntryWaits'
  <2> SUFFICES ASSUME NEW fd \in DOMAIN events
               PROVE Suspended(fd[2])' /\ Target(fd[2], at'[fd[2]]) = fd
    BY <1>1 DEF EntryWaits, Target
  <2>1. fd[2] \in Coroutines \ {d}
    BY <1>8, FdsOK DEF EnvironmentType, WaitInvariant, EntryWaits
  <2> QED
    BY <2>1, <1>7, <1>8 DEF WaitInvariant, EntryWaits
<1>11. WaitsInEntry'
  BY <1>1, <1>7, <1>8 DEF WaitInvariant, WaitsInEntry, Target
<1> QED
  BY <1>3, <1>5, <1>7, <1>8, <1>9, <1>10, <1>11 DEF WaitInvariant, OthersKept

\* epoll reports the fd of an entry: loop() takes it and will resume its waiter.
LEMMA LoopWaitsKeeps ==
    ASSUME ContextInvariant, WaitInvariant, NEW fd \in Fds, LoopWaits(fd)
    PROVE /\ ContextInvariant' /\ WaitInvariant'
          /\ Suspended(fd[2]) /\ Target(fd[2], at[fd[2]]) = fd
          /\ \A c \in Coroutines \ {fd[2]} : Suspended(c)' <=> Suspended(c)
<1> USE DEF ContextInvariant
<1> DEFINE c == fd[2]
<1>1. /\ fd \in DOMAIN events /\ cStack = <<Main>> /\ resuming = <<>>
      /\ watched' = watched \ {fd} /\ resuming' = Routines(fd)
      /\ events' = [f \in DOMAIN events \ {fd} |-> events[f]]
      /\ UNCHANGED <<cStack, recycled, runtime, context, saved, at>>
  BY DEF LoopWaits, Found, Erased, environment
<1>2. c \in Coroutines /\ Suspended(c) /\ Target(c, at[c]) = fd
  BY <1>1, FdsOK DEF WaitInvariant, EntryWaits
<1>3. PICK type \in Types : events[fd] = OneWaiter(c, type)
  BY <1>1 DEF WaitInvariant, Entries
<1> HIDE DEF c
<1>4. resuming' = <<c>>
  <2>1. /\ \A other \in Types \ {type} : Routine(fd, other) = <<>>
        /\ Routine(fd, type) = <<c>>
    BY <1>2, <1>3, OneWaiterOK, CoroutineAssumption DEF CoroutineAssumption, Routine
  <2>2. resuming' = Routine(fd, "READ") \o Routine(fd, "WRITE") \o Routine(fd, "ERROR")
    BY <1>1 DEF Routines
  <2>3. <<c>> \in Seq(Coroutines) /\ <<c>> \o <<>> = <<c>> /\ <<>> \o <<c>> = <<c>>
        /\ <<>> \o <<>> = <<>>
    BY <1>2
  <2> QED
    BY <2>1, <2>2, <2>3 DEF Types
<1>5. \A d \in Coroutines : Contains(resuming', d) <=> d = c
  BY <1>4 DEF Contains
<1>6. \A d \in Coroutines : ~Contains(resuming, d)
  BY <1>1 DEF Contains
<1>7. /\ ~Suspended(c)'
      /\ \A d \in Coroutines \ {c} : Suspended(d)' <=> Suspended(d)
  BY <1>1, <1>2, <1>5, <1>6 DEF Suspended, InCall
<1>8. ContextInvariant'
  <2>1. EnvironmentType'
    BY <1>1, <1>2, <1>4 DEF EnvironmentType
  <2> QED
    BY <1>1, <2>1 DEF StackOK, HasContext, Exclusive, Saved, current
<1>9. Entries' /\ InCallRuns'
  BY <1>1 DEF WaitInvariant, Entries, InCallRuns
<1>10. ResumingOK'
  BY <1>1, <1>2, <1>4 DEF ResumingOK, Suspended, InCall
<1>11. EntryWaits'
  <2> SUFFICES ASSUME NEW f \in DOMAIN events \ {fd}
               PROVE Suspended(f[2])' /\ Target(f[2], at'[f[2]]) = f
    BY <1>1 DEF EntryWaits, Target
  <2>1. Suspended(f[2]) /\ Target(f[2], at[f[2]]) = f /\ f[2] \in Coroutines
    BY FdsOK DEF WaitInvariant, EntryWaits, EnvironmentType
  <2> QED
    BY <1>1, <1>2, <1>7, <2>1
<1>12. WaitsInEntry'
  <2> SUFFICES ASSUME NEW d \in Coroutines, Suspended(d)'
               PROVE Target(d, at[d]) \in DOMAIN events \ {fd}
    BY <1>1 DEF WaitsInEntry, Target
  <2>1. d # c /\ Suspended(d)
    BY <1>7
  <2>2. at[d] \in InCallPc
    BY <2>1, SuspendedOK
  <2> QED
    BY <2>1, <2>2, FdsOK DEF WaitInvariant, WaitsInEntry, c
<1> QED
  BY <1>2, <1>7, <1>8, <1>9, <1>10, <1>11, <1>12 DEF WaitInvariant, c

\* loop() resumes it.
LEMMA LoopResumesKeeps ==
    ASSUME ContextInvariant, WaitInvariant, LoopResumes
    PROVE /\ ContextInvariant' /\ WaitInvariant'
          /\ \A c \in Coroutines : Suspended(c)' <=> Suspended(c)
<1> USE DEF ContextInvariant
<1>1. PICK d \in Coroutines : resuming = <<d>> /\ InCall(d) /\ cStack = <<Main>>
  BY DEF LoopResumes, WaitInvariant, ResumingOK
<1>2. /\ resuming' = <<>> /\ Resume(d) /\ at[d] # "user"
      /\ UNCHANGED <<events, watched, at>>
  BY <1>1 DEF LoopResumes, polling, InCall
<1>3. runtime[d] = "RUNNING" /\ ~Contains(cStack, d)
  BY <1>1, <1>2, CoroutineAssumption DEF WaitInvariant, InCallRuns, Contains, CoroutineAssumption
<1>4. /\ cStack' \in Seq(All) /\ recycled' \in Seq(Contexts)
      /\ runtime' \in [Coroutines -> {"IDLE", "RUNNING", "EXIT"}]
      /\ context' \in [All -> Contexts \cup {None}]
      /\ saved' \in [Contexts -> All \cup {None}]
      /\ StackOK' /\ HasContext' /\ Exclusive' /\ Saved'
  BY <1>2, <1>3, ResumeContexts
<1>5. ContextInvariant'
  BY <1>2, <1>4 DEF EnvironmentType
<1>6. cStack' = Append(cStack, d) /\ runtime' = [runtime EXCEPT ![d] = "RUNNING"]
  BY <1>2, <1>3 DEF Resume
<1>7. runtime' = runtime
  BY <1>3, <1>6 DEF EnvironmentType
<1>8. /\ \A c \in Coroutines : Contains(resuming, c) <=> c = d
      /\ \A c \in Coroutines : ~Contains(resuming', c)
  BY <1>1, <1>2 DEF Contains
<1>9. \A c \in Coroutines : Suspended(c)' <=> Suspended(c)
  BY <1>2, <1>6, <1>8, PushOK DEF Suspended, InCall
<1>10. Entries' /\ InCallRuns' /\ ResumingOK'
  BY <1>2, <1>7 DEF WaitInvariant, Entries, InCallRuns, ResumingOK
<1>11. EntryWaits'
  <2> SUFFICES ASSUME NEW fd \in DOMAIN events
               PROVE Suspended(fd[2])' /\ Target(fd[2], at[fd[2]]) = fd
    BY <1>2 DEF EntryWaits, Target
  <2>1. fd[2] \in Coroutines
    BY FdsOK DEF EnvironmentType
  <2> QED
    BY <2>1, <1>9 DEF WaitInvariant, EntryWaits
<1>12. WaitsInEntry'
  BY <1>2, <1>9 DEF WaitInvariant, WaitsInEntry, Target
<1> QED
  BY <1>5, <1>9, <1>10, <1>11, <1>12 DEF WaitInvariant

\* What changes nothing but the kernel and the values that calls return.
LEMMA Elsewhere ==
    ASSUME ContextInvariant, WaitInvariant, UNCHANGED <<environment, polling, resuming, at>>
    PROVE /\ ContextInvariant' /\ WaitInvariant'
          /\ \A c \in Coroutines : Suspended(c)' <=> Suspended(c)
<1>1. UNCHANGED <<cStack, recycled, runtime, context, saved, events, watched, resuming, at>>
  BY DEF environment, polling
<1>2. ContextInvariant'
  BY <1>1 DEF ContextInvariant, EnvironmentType, StackOK, HasContext, Exclusive, Saved, current
<1>3. \A c : Suspended(c)' <=> Suspended(c)
  BY <1>1 DEF Suspended, InCall
<1>4. WaitInvariant'
  BY <1>1, <1>3 DEF WaitInvariant, Entries, EntryWaits, WaitsInEntry, InCallRuns, ResumingOK,
                    Target, InCall
<1> QED
  BY <1>2, <1>3, <1>4

\* Every step keeps both invariants.
LEMMA NextKeeps ==
    ASSUME ContextInvariant, WaitInvariant, [Next]_vars
    PROVE ContextInvariant' /\ WaitInvariant'
<1>1. ASSUME NEW c \in Coroutines, Goes(c) PROVE ContextInvariant' /\ WaitInvariant'
  BY <1>1, GoesKeeps
<1>2. ASSUME NEW fd \in Fds, LoopWaits(fd) PROVE ContextInvariant' /\ WaitInvariant'
  BY <1>2, LoopWaitsKeeps
<1>3. CASE LoopResumes
  BY <1>3, LoopResumesKeeps
<1>4. ASSUME NEW c \in Coroutines, Starts(c) PROVE ContextInvariant' /\ WaitInvariant'
  BY <1>4, StartsKeeps
<1>5. ASSUME NEW c \in Coroutines, Expires(c) \/ Answers(c) \/ BecomesReady(c)
      PROVE ContextInvariant' /\ WaitInvariant'
  BY <1>5, Elsewhere DEF Expires, Answers, BecomesReady
<1>6. CASE UNCHANGED vars
  BY <1>6, Elsewhere DEF vars
<1> QED
  BY <1>1, <1>2, <1>3, <1>4, <1>5, <1>6 DEF Next, Thread, Kernel

-----------------------------------------------------------------------------
(* Theorems                                                                *)

\* Both invariants hold at first.
LEMMA InitKeeps == Init => ContextInvariant /\ WaitInvariant
<1> SUFFICES ASSUME Init PROVE ContextInvariant /\ WaitInvariant
  OBVIOUS
<1> USE CoroutineAssumption DEF Init, CoroutineAssumption
<1>1. EnvironmentType
  <2>1. Cardinality(Coroutines) \in Nat
    BY FS_CardinalityType
  <2> QED
    BY <2>1 DEF EnvironmentType, All, Contexts
<1>2. StackOK /\ HasContext /\ Exclusive /\ Saved
  BY DEF StackOK, HasContext, Exclusive, Saved, All, current, Last
<1>3. WaitInvariant
  BY DEF WaitInvariant, Entries, EntryWaits, WaitsInEntry, InCallRuns, ResumingOK, Suspended, InCall
<1> QED
  BY <1>1, <1>2, <1>3 DEF ContextInvariant

\* Environment, Coroutine and PollConfig: types, Contexts, entries and waiters in
\* every reachable state.
THEOREM CoroutineTheorem == Spec => [](ContextInvariant /\ WaitInvariant)
  BY InitKeeps, NextKeeps, PTL DEF Spec

\* resume, yield and the recycle stack: no two coroutines have one Context, so
\* nobody runs on the stack of a coroutine that can still be switched to.
THEOREM ContextExclusiveTheorem == Spec => []ContextExclusive
<1>1. ASSUME ContextInvariant PROVE ContextExclusive
  <2> USE <1>1 DEF ContextInvariant
  <2>1. IsInjective(recycled) /\ ToSet(recycled) \cap Range(context) = {}
    <3>1. DOMAIN recycled = 1 .. Len(recycled) /\ DOMAIN context = All
      BY DEF EnvironmentType
    <3> QED
      BY <3>1 DEF Exclusive, IsInjective, ToSet, Range
  <2> QED
    BY <2>1 DEF ContextExclusive, Exclusive, Saved, HasContext, All
<1> QED
  BY <1>1, CoroutineTheorem, PTL

\* read, write, accept4, sleep, poll and connect: whoever is suspended is found by
\* epoll under the fd it waits for, and no entry is left of an earlier wait.
THEOREM WaitersRegisteredTheorem == Spec => []WaitersRegistered
<1>1. ASSUME ContextInvariant, WaitInvariant PROVE WaitersRegistered
  <2>1. ASSUME NEW c \in Coroutines, Suspended(c)
        PROVE /\ Found(WaitsFor(c)) /\ WaitsFor(c) \in watched
              /\ \E type \in Types : events[WaitsFor(c)].routines[type] = c
    <3> DEFINE fd == Target(c, at[c])
    <3>1. WaitsFor(c) = fd /\ fd \in DOMAIN events /\ fd[2] = c
      BY <1>1, <2>1, SuspendedOK, FdsOK DEF ContextInvariant, WaitInvariant, WaitsInEntry
    <3> HIDE DEF fd
    <3>2. fd \in watched /\ \E type \in Types : events[fd] = OneWaiter(c, type)
      BY <1>1, <3>1 DEF WaitInvariant, Entries
    <3> QED
      BY <3>1, <3>2, OneWaiterOK DEF Found
  <2>2. \A fd \in DOMAIN events : Suspended(fd[2]) /\ WaitsFor(fd[2]) = fd
    BY <1>1, FdsOK DEF ContextInvariant, EnvironmentType, WaitInvariant, EntryWaits
  <2> QED
    BY <2>1, <2>2 DEF WaitersRegistered
<1> QED
  BY <1>1, CoroutineTheorem, PTL

-----------------------------------------------------------------------------
(* What connect() and poll() say                                           *)

CallsType ==
    /\ result \in [Coroutines -> Int]
    /\ timer \in [Coroutines -> {"none", "off", "armed", "expired"}]
    /\ interest \in [Coroutines -> SUBSET {"READ", "WRITE"}]
    /\ ready \in [Coroutines -> SUBSET {"READ", "WRITE"}]

\* Who is back from the wait of poll() was woken by its timer or by an fd, and what
\* woke it is still there.
Woken(c) == timer[c] = "expired" \/ interest[c] \cap ready[c] # {}
PollWoken == \A c \in Coroutines : at[c] = "poll" /\ ~Suspended(c) => Woken(c)

\* What CallsHonest says of one coroutine and one step.
Honest(c) ==
    /\ at[c] = "connect" /\ at'[c] = "user" /\ result'[c] = 0 => link[c] = "connected"
    /\ at[c] = "poll" /\ at'[c] = "user" /\ result'[c] = 0 => timer[c] = "expired"

\* A set of events counts as none exactly when it is empty.
LEMMA CountOK ==
    ASSUME NEW S \in SUBSET {"READ", "WRITE"}
    PROVE Cardinality(S) \in Int /\ (Cardinality(S) = 0 <=> S = {})
<1>1. IsFiniteSet({"READ", "WRITE"})
  <2>1. IsFiniteSet({"READ"} \cup {"WRITE"})
    BY FS_Singleton, FS_AddElement
  <2> QED
    BY <2>1
<1>2. IsFiniteSet(S)
  BY <1>1, FS_Subset
<1>3. Cardinality(S) \in Nat
  BY <1>2, FS_CardinalityType
<1>4. Cardinality(S) = 0 <=> S = {}
  BY <1>2, FS_EmptySet
<1> QED
  BY <1>3, <1>4

\* A coroutine's own steps change the timer, the epoll fd, the socket and the result
\* of nobody else.
LEMMA OwnSteps ==
    ASSUME CallsType, NEW c \in Coroutines, Goes(c)
    PROVE /\ CallsType'
          /\ \A d \in Coroutines \ {c} :
                timer'[d] = timer[d] /\ interest'[d] = interest[d] /\ ready'[d] = ready[d]
<1> DEFINE Own == /\ CallsType'
                  /\ \A d \in Coroutines \ {c} :
                        timer'[d] = timer[d] /\ interest'[d] = interest[d] /\ ready'[d] = ready[d]
<1> USE DEF CallsType
<1>1. ASSUME NEW type \in {"READ", "WRITE"}, NEW waitsReady,
             Try(c, type, waitsReady) \/ Retry(c, type)
      PROVE Own
  <2>1. UNCHANGED <<timer, interest>>
    BY <1>1 DEF Try, Retry
  <2>2. ready' \in {ready, [ready EXCEPT ![c] = @ \ {type}]}
    BY <1>1 DEF Try, Retry, Takes
  <2>3. \E v \in Int : result' = result \/ result' = [result EXCEPT ![c] = v]
    BY <1>1 DEF Try, Retry, Returns, Error
  <2> QED
    BY <2>1, <2>2, <2>3
<1>2. CASE Sleep(c)
  BY <1>2 DEF Sleep, Returns, Error
<1>3. CASE Poll(c)
  <2>1. UNCHANGED ready
    BY <1>3 DEF Poll
  <2>2. PICK fds \in SUBSET {"READ", "WRITE"} :
          \/ Returns(c, Cardinality(fds \cap ready[c])) /\ UNCHANGED <<interest, timer>>
          \/ PollWaits(c, fds, "poll") /\ UNCHANGED result
    BY <1>3 DEF Poll
  <2>3. Cardinality(fds \cap ready[c]) \in Int
    BY CountOK
  <2> QED
    BY <2>1, <2>2, <2>3 DEF Returns, PollWaits
<1>4. CASE PollReturns(c)
  <2>1. Cardinality(interest[c] \cap ready[c]) \in Int
    BY CountOK
  <2> QED
    BY <1>4, <2>1 DEF PollReturns, Returns
<1>5. ASSUME Connects(c) PROVE result' \in [Coroutines -> Int]
  BY <1>5 DEF Connects, Returns, Error
<1>6. ASSUME NEW n, Attempt(c, n), UNCHANGED ready PROVE Own
  BY <1>5, <1>6 DEF Attempt, Connects, PollWaits, Returns, Error
<1>7. CASE Connect(c)
  <2>1. CASE Attempt(c, 0) /\ UNCHANGED ready
    BY <2>1, <1>6
  <2>2. CASE timer' = [timer EXCEPT ![c] = "none"] /\ Connects(c) /\ UNCHANGED <<interest, ready>>
    BY <2>2, <1>5
  <2> QED
    BY <1>7, <2>1, <2>2 DEF Connect
<1>8. CASE ConnectChecks(c)
  <2>1. CASE Attempt(c, retries[c]) /\ UNCHANGED ready
    BY <2>1, <1>6
  <2>2. CASE UNCHANGED <<interest, timer, ready>> /\ \E v \in {0, Error} : Returns(c, v)
    BY <2>2 DEF Returns, Error
  <2> QED
    BY <1>8, <2>1, <2>2 DEF ConnectChecks
<1>9. CASE Exit(c) \/ YieldsItself(c)
  BY <1>9 DEF Exit, YieldsItself, kernel
<1> QED
  BY <1>1, <1>2, <1>3, <1>4, <1>7, <1>8, <1>9 DEF Goes, Read, Write, Accept4

\* The steps that take a coroutine out of connect() and poll().
LEMMA OwnHonest ==
    ASSUME ContextInvariant, WaitInvariant, CallsType, PollWoken, NEW c \in Coroutines, Goes(c)
    PROVE Honest(c)
<1> USE DEF CallsType
<1>1. CASE ConnectChecks(c)
  <2>1. at[c] = "connect"
    BY <1>1 DEF ConnectChecks, Runs
  <2>2. ASSUME NEW n, Attempt(c, n), at'[c] = "user", result'[c] = 0 PROVE FALSE
    <3>1. ASSUME NEW where \in InCallPc, Waits(c, where) PROVE FALSE
      BY <2>2, <3>1 DEF Waits, InCallPc, ContextInvariant, EnvironmentType
    <3>2. ~ \E v \in {Error} : Returns(c, v)
      BY <2>2 DEF Returns, Error
    <3> QED
      BY <2>2, <3>1, <3>2 DEF Attempt, Connects, PollWaits, InCallPc
  <2> QED
    BY <1>1, <2>1, <2>2 DEF ConnectChecks, Connected, Honest, Returns, Error
<1>2. CASE PollReturns(c)
  <2>1. at[c] = "poll" /\ current = c
    BY <1>2 DEF PollReturns, Runs
  <2>2. Woken(c)
    BY <2>1, RunningOK DEF ContextInvariant, PollWoken
  <2>3. result' = [result EXCEPT ![c] = Cardinality(interest[c] \cap ready[c])]
    BY <1>2 DEF PollReturns, Returns
  <2>4. result'[c] = 0 => interest[c] \cap ready[c] = {}
    BY <2>3, CountOK
  <2> QED
    BY <2>1, <2>2, <2>4 DEF Honest, Woken
<1>3. CASE at[c] \notin {"connect", "poll"}
  BY <1>3 DEF Honest
<1> QED
  BY <1>1, <1>2, <1>3 DEF Goes, Exit, YieldsItself, Read, Write, Accept4, Try, Retry, Sleep, Poll,
                          Connect, Calls, Runs

\* In every step a call that returns tells the truth.
LEMMA NextHonest ==
    ASSUME ContextInvariant, WaitInvariant, CallsType, PollWoken, [Next]_vars
    PROVE /\ ContextInvariant' /\ WaitInvariant' /\ CallsType' /\ PollWoken'
          /\ \A c \in Coroutines : Honest(c)
<1>1. ContextInvariant' /\ WaitInvariant'
  BY NextKeeps
<1>2. ASSUME NEW c \in Coroutines, Goes(c)
      PROVE CallsType' /\ PollWoken' /\ \A d \in Coroutines : Honest(d)
  <2>1. CallsType' /\ \A d \in Coroutines \ {c} : Woken(d)' <=> Woken(d)
    BY <1>2, OwnSteps DEF Woken
  <2>2. OthersKept(c) /\ (at'[c] \in {"user", "yielded"} \/ Suspended(c)')
    BY <1>2, GoesKeeps
  <2>3. PollWoken'
    BY <2>1, <2>2 DEF PollWoken, OthersKept
  <2>4. \A d \in Coroutines \ {c} : Honest(d)
    BY <2>2 DEF OthersKept, Honest
  <2> QED
    BY <1>2, <2>1, <2>3, <2>4, OwnHonest
<1>3. ASSUME NEW fd \in Fds, LoopWaits(fd)
      PROVE CallsType' /\ PollWoken' /\ \A d \in Coroutines : Honest(d)
  <2> DEFINE c == fd[2]
  <2>1. UNCHANGED <<at, result, interest, ready, link, timer>>
    BY <1>3 DEF LoopWaits, call, kernel
  <2>2. /\ c \in Coroutines /\ Target(c, at[c]) = fd
        /\ \A d \in Coroutines \ {c} : Suspended(d)' <=> Suspended(d)
    BY <1>3, LoopWaitsKeeps, FdsOK
  <2>3. at[c] = "poll" => Woken(c)
    <3>1. SUFFICES ASSUME at[c] = "poll" PROVE Woken(c)
      OBVIOUS
    <3>2. fd[1] = "epoll" /\ IsReady(fd)
      BY <1>3, <2>2, <3>1 DEF LoopWaits, Target, Epoll
    <3> QED
      BY <3>2 DEF IsReady, Woken
  <2>4. PollWoken'
    BY <2>1, <2>2, <2>3 DEF PollWoken, Woken
  <2> QED
    BY <2>1, <2>4 DEF CallsType, Honest
<1>4. CASE LoopResumes
  <2>1. UNCHANGED <<at, result, interest, ready, link, timer>>
    BY <1>4 DEF LoopResumes, call, kernel
  <2>2. \A c \in Coroutines : Suspended(c)' <=> Suspended(c)
    BY <1>4, LoopResumesKeeps
  <2> QED
    BY <1>1, <2>1, <2>2 DEF CallsType, Honest, PollWoken, Woken
<1>5. ASSUME NEW c \in Coroutines, Starts(c)
      PROVE CallsType' /\ PollWoken' /\ \A d \in Coroutines : Honest(d)
  <2>1. UNCHANGED <<result, interest, ready, link, timer>> /\ OthersKept(c)
        /\ at'[c] = "user" /\ at[c] \in {"user", "yielded"}
    BY <1>5, StartsKeeps DEF Starts, call, kernel
  <2> QED
    BY <2>1 DEF CallsType, Honest, PollWoken, Woken, OthersKept
<1>6. ASSUME NEW c \in Coroutines, Expires(c) \/ Answers(c) \/ BecomesReady(c)
      PROVE CallsType' /\ PollWoken' /\ \A d \in Coroutines : Honest(d)
  <2>1. /\ UNCHANGED <<at, result, interest>>
        /\ \A d \in Coroutines : Suspended(d)' <=> Suspended(d)
    BY <1>6, Elsewhere DEF Expires, Answers, BecomesReady, call
  <2>2. CallsType' /\ \A d \in Coroutines : Woken(d) => Woken(d)'
    BY <1>6, <2>1 DEF Expires, Answers, BecomesReady, CallsType, Woken
  <2> QED
    BY <2>1, <2>2 DEF Honest, PollWoken
<1>7. CASE UNCHANGED vars
  <2>1. UNCHANGED <<at, result, interest, ready, link, timer>>
    BY <1>7 DEF vars, call, kernel
  <2>2. \A c \in Coroutines : Suspended(c)' <=> Suspended(c)
    BY <1>7, Elsewhere DEF vars
  <2> QED
    BY <1>1, <2>1, <2>2 DEF CallsType, Honest, PollWoken, Woken
<1> QED
  BY <1>1, <1>2, <1>3, <1>4, <1>5, <1>6, <1>7 DEF Next, Thread, Kernel

\* connect() and poll(): 0 from connect() means that the socket is connected, 0 from
\* poll() that its timer expired, however often a coroutine was switched away.
THEOREM CallsHonestTheorem == Spec => CallsHonest
<1> DEFINE Inv == ContextInvariant /\ WaitInvariant /\ CallsType /\ PollWoken
           Step == \A c \in Coroutines : Honest(c)
<1>1. Init => Inv
  <2>1. Init => CallsType /\ PollWoken
    BY DEF Init, CallsType, PollWoken
  <2> QED
    BY <2>1, InitKeeps
<1>2. Inv /\ [Next]_vars => Inv' /\ Step
  BY NextHonest
<1>3. CallsHonest <=> [][Step]_vars
  BY DEF CallsHonest, Honest
<1> HIDE DEF Inv, Step
<1> QED
  BY <1>1, <1>2, <1>3, PTL DEF Spec
=============================================================================
