------------------------- MODULE FutureChainProofs -------------------------
(***************************************************************************)
(* What holds of promises, futures and the looper for any number of        *)
(* futures and whatever user code does, proved from one inductive          *)
(* invariant: ChainInvariant.                                              *)
(***************************************************************************)
EXTENDS FutureChain, SequenceTheorems, TLAPS

NoDuplicates(s) == \A i, j \in DOMAIN s : s[i] = s[j] => i = j

\* Each future has at most one coroutine.
QueueInv ==
    /\ NoDuplicates(queue)
    /\ running \notin Elements(queue)
    /\ \A f \in suspended : Pending(f)

\* What the state of a future tells of its value, continuation and coroutine.
Block(f) ==
    /\ Pending(f) => /\ state[f] \in {"POSTED", "CANCEL", "DEAD"}
                     /\ value[f] # "default"
                     /\ then[f] # NoThen
    /\ state[f] = "READY" => value[f] # "default" /\ then[f] = NoThen
    /\ state[f] = "POSTED" => Pending(f)
    /\ state[f] = "absent" => then[f] = NoThen /\ upstream[f] = {}
    /\ "default" \notin given[f]

\* A coroutine starts the continuation with its first turn.
Started(f) ==
    /\ runs[f] \in {0, 1}
    /\ state[f] \in {"absent", "NEW", "READY"} => runs[f] = 0
    /\ f \in Elements(queue) /\ f \notin suspended => runs[f] = 0
    /\ running = f \/ f \in suspended => runs[f] = 1

BlockInv == \A f \in Futures : Block(f) /\ Started(f)

\* Until the continuation of f is over nobody else touches the future that
\* waits for it.
Untouched(g) ==
    state[g] \in {"NEW", "DEAD"} /\ runs[g] = 0 /\ ~Pending(g)

Link(f) ==
    then[f] # NoThen =>
        /\ state[then[f].next] # "absent"
        /\ upstream[then[f].next] = upstream[f] \cup {f}
        /\ runs[f] = 0 \/ Pending(f) => Untouched(then[f].next)

LinkInv ==
    /\ \A f \in Futures : Link(f)
    /\ \A f, g \in Futures :
           then[f] # NoThen /\ then[g] # NoThen /\ then[f].next = then[g].next
               => f = g

\* A value comes down a chain only through continuations that have run.
Reached(g) == state[g] \in {"READY", "POSTED"} \/ Pending(g) \/ runs[g] = 1

Line(g) ==
    /\ \A f \in upstream[g] : state[f] # "absent"
    /\ Reached(g) => \A f \in upstream[g] : runs[f] = 1
    /\ state[g] = "CANCEL" /\ upstream[g] # {} => runs[g] = 0 /\ ~Pending(g)

LineInv == \A g \in Futures : Line(g)

ChainInvariant ==
    TypeOK /\ QueueInv /\ BlockInv /\ LinkInv /\ LineInv /\ BatchFits

-----------------------------------------------------------------------------
(* The queue                                                               *)

\* unroll4x() resumes as many coroutines as it was given.
LEMMA UnrolledTurnsExact == ASSUME NEW n \in Nat PROVE UnrolledTurns(n) = n
  BY DEF UnrolledTurns

\* _mq.emplace(co).
LEMMA AppendElements ==
  ASSUME NEW s \in Seq(Futures), NEW f \in Futures
  PROVE  /\ Append(s, f) \in Seq(Futures)
         /\ Elements(Append(s, f)) = Elements(s) \cup {f}
         /\ NoDuplicates(s) /\ f \notin Elements(s) => NoDuplicates(Append(s, f))
<1>1. /\ Append(s, f) \in Seq(Futures)
      /\ DOMAIN Append(s, f) = 1 .. (Len(s) + 1)
      /\ DOMAIN s = 1 .. Len(s) /\ Len(s) \in Nat
      /\ \A i \in 1 .. Len(s) : Append(s, f)[i] = s[i]
      /\ Append(s, f)[Len(s) + 1] = f
  BY AppendProperties, LenProperties
<1>2. Elements(Append(s, f)) = Elements(s) \cup {f}
  <2>1. \A i \in 1 .. (Len(s) + 1) : i \in 1 .. Len(s) \/ i = Len(s) + 1
    BY <1>1
  <2>2. \A i \in 1 .. Len(s) : i \in 1 .. (Len(s) + 1)
    BY <1>1
  <2>3. Len(s) + 1 \in 1 .. (Len(s) + 1)
    BY <1>1
  <2> QED BY <1>1, <2>1, <2>2, <2>3, Zenon DEF Elements
<1>3. ASSUME NoDuplicates(s), f \notin Elements(s) PROVE NoDuplicates(Append(s, f))
  BY <1>1, <1>3 DEF NoDuplicates, Elements
<1> QED BY <1>1, <1>2, <1>3

\* _mq.front() and _mq.pop().
LEMMA TailElements ==
  ASSUME NEW s \in Seq(Futures), s # <<>>, NoDuplicates(s)
  PROVE  /\ Tail(s) \in Seq(Futures) /\ Head(s) \in Futures
         /\ Head(s) \in Elements(s)
         /\ Elements(Tail(s)) = Elements(s) \ {Head(s)}
         /\ NoDuplicates(Tail(s))
<1>1. /\ Tail(s) \in Seq(Futures) /\ Head(s) \in Futures
      /\ Len(s) \in Nat \ {0} /\ DOMAIN s = 1 .. Len(s)
      /\ Len(Tail(s)) = Len(s) - 1 /\ DOMAIN Tail(s) = 1 .. (Len(s) - 1)
      /\ \A i \in 1 .. (Len(s) - 1) : Tail(s)[i] = s[i + 1]
      /\ Head(s) = s[1]
  BY HeadTailProperties, LenProperties, EmptySeq
<1>2. Head(s) \in Elements(s)
  BY <1>1 DEF Elements
<1>3. ASSUME NEW f PROVE f \in Elements(Tail(s)) <=> f \in Elements(s) \ {Head(s)}
  <2>1. ASSUME f \in Elements(Tail(s)) PROVE f \in Elements(s) \ {Head(s)}
    <3>1. PICK i \in 1 .. (Len(s) - 1) : f = s[i + 1]
      BY <1>1, <2>1 DEF Elements
    <3> QED BY <1>1, <3>1 DEF Elements, NoDuplicates
  <2>2. ASSUME f \in Elements(s) \ {Head(s)} PROVE f \in Elements(Tail(s))
    <3>1. PICK i \in 1 .. Len(s) : f = s[i]
      BY <1>1, <2>2 DEF Elements
    <3>2. i - 1 \in 1 .. (Len(s) - 1) /\ Tail(s)[i - 1] = f
      BY <1>1, <2>2, <3>1
    <3> QED BY <1>1, <3>2 DEF Elements
  <2> QED BY <2>1, <2>2
<1>4. NoDuplicates(Tail(s))
  BY <1>1 DEF NoDuplicates
<1> QED BY <1>1, <1>2, <1>3, <1>4

\* The first n coroutines of q have not had their turn.
Fits(q, n, done) == n <= Len(q) /\ \A i \in 1 .. n : q[i] \notin done

\* A coroutine that is posted behind the others changes nothing for the first n.
LEMMA FitsAppend ==
  ASSUME NEW q \in Seq(Futures), NEW f \in Futures, NEW n \in Nat, NEW done,
         Fits(q, n, done)
  PROVE  Fits(Append(q, f), n, done)
BY AppendProperties, LenProperties DEF Fits

\* The coroutine in front has had its turn.
LEMMA FitsTail ==
  ASSUME NEW q \in Seq(Futures), q # <<>>, NoDuplicates(q),
         NEW n \in Nat, n > 0, NEW done, Fits(q, n, done)
  PROVE  Fits(Tail(q), n - 1, done \cup {Head(q)})
<1>1. /\ Len(q) \in Nat \ {0} /\ DOMAIN q = 1 .. Len(q)
      /\ Len(Tail(q)) = Len(q) - 1
      /\ \A i \in 1 .. (Len(q) - 1) : Tail(q)[i] = q[i + 1]
      /\ Head(q) = q[1]
  BY HeadTailProperties, LenProperties, EmptySeq
<1>2. ASSUME NEW i \in 1 .. (n - 1) PROVE Tail(q)[i] \notin done \cup {Head(q)}
  <2>1. /\ i + 1 \in 1 .. n /\ i \in 1 .. (Len(q) - 1)
        /\ i + 1 \in 1 .. Len(q) /\ 1 \in 1 .. Len(q) /\ i + 1 # 1
    BY <1>1 DEF Fits
  <2>2. q[i + 1] \notin done /\ q[i + 1] # q[1]
    BY <1>1, <2>1 DEF Fits, NoDuplicates
  <2> QED BY <1>1, <2>1, <2>2
<1> QED BY <1>1, <1>2 DEF Fits

\* loop() leaves turns only for coroutines that are in the queue.
LEMMA FrontPending ==
  ASSUME ChainInvariant, HasTurn
  PROVE  /\ queue # <<>> /\ Front \in Futures /\ Front \in Elements(queue)
         /\ running = Nobody /\ Tail(queue) \in Seq(Futures)
         /\ Elements(Tail(queue)) = Elements(queue) \ {Front}
         /\ NoDuplicates(Tail(queue))
         /\ then[Front] \in Continuation
<1>1. queue # <<>>
  BY LenProperties, EmptySeq DEF ChainInvariant, HasTurn, BatchFits, TypeOK
<1>2. queue \in Seq(Futures) /\ NoDuplicates(queue)
  BY DEF ChainInvariant, TypeOK, QueueInv
<1>3. /\ Tail(queue) \in Seq(Futures) /\ Front \in Futures
      /\ Front \in Elements(queue)
      /\ Elements(Tail(queue)) = Elements(queue) \ {Front}
      /\ NoDuplicates(Tail(queue))
  BY <1>1, <1>2, TailElements DEF Front
<1>4. then[Front] \in Continuation
  BY <1>3 DEF ChainInvariant, TypeOK, Pending
<1> QED BY <1>1, <1>3, <1>4 DEF HasTurn

\* A turn shortens the queue and the batch together.
LEMMA TurnFits ==
  ASSUME ChainInvariant, Turn
  PROVE  turns' \in Nat /\ resumed' \subseteq Futures
         /\ Fits(Tail(queue), turns', resumed')
<1>1. /\ queue # <<>> /\ Front \in Futures
      /\ queue \in Seq(Futures) /\ NoDuplicates(queue)
      /\ turns \in Nat /\ turns > 0 /\ resumed \subseteq Futures
      /\ Fits(queue, turns, resumed)
  BY FrontPending DEF Turn, HasTurn, ChainInvariant, TypeOK, QueueInv, BatchFits, Fits
<1>2. turns' = turns - 1 /\ resumed' = resumed \cup {Head(queue)}
  BY DEF Turn, Front
<1>3. Fits(Tail(queue), turns - 1, resumed \cup {Head(queue)})
  BY <1>1, FitsTail
<1> QED BY <1>1, <1>2, <1>3 DEF Front

-----------------------------------------------------------------------------
(* setValue                                                                *)

\* Promise::setValue on g, by its user or by a continuation that ends, keeps
\* the invariant: in the second case g is the future linked to it.
LEMMA SettleKeeps ==
  ASSUME ChainInvariant,
         NEW g \in Futures, NEW v \in Value \ {"default"},
         NEW q \in Seq(Futures), NEW ends \in Futures \cup {Nobody},
         NEW spent \in BOOLEAN,
         Settle(g, v, q, ends, spent),
         NoDuplicates(q), Elements(q) = Elements(queue) \ {ends},
         running' \in Futures \cup {Nobody},
         \A f \in Futures : running' = f <=> running = f /\ f # ends,
         suspended' = suspended \ {ends},
         then' = then, upstream' = upstream, given' = given,
         \A f \in Futures : runs'[f] = IF f = ends THEN 1 ELSE runs[f],
         state[g] # "absent",
         ends = Nobody => upstream[g] = {},
         ends # Nobody => Pending(ends) /\ then[ends].next = g
  PROVE  /\ state' \in [Futures -> State] /\ value' \in [Futures -> Value]
         /\ queue' \in Seq(Futures)
         /\ QueueInv' /\ BlockInv' /\ LinkInv' /\ LineInv'
<1> DEFINE posts == state[g] = "NEW" /\ then[g] # NoThen
<1> USE FutureAssumption
<1>1. /\ state \in [Futures -> State] /\ value \in [Futures -> Value]
      /\ queue \in Seq(Futures) /\ suspended \subseteq Futures
      /\ running \in Futures \cup {Nobody}
      /\ QueueInv /\ BlockInv /\ LinkInv /\ LineInv
  BY DEF ChainInvariant, TypeOK
<1>2. g # ends /\ (ends # Nobody => Untouched(g))
  BY <1>1 DEF LinkInv, Link, Untouched, BlockInv, Block
<1>3. \A f \in Futures :
        /\ state'[f] = IF f = ends THEN "DONE"
                       ELSE IF f = g /\ state[g] = "NEW" THEN
                           (IF posts THEN "POSTED" ELSE "READY")
                       ELSE state[f]
        /\ value'[f] = IF f = g /\ state[g] = "NEW" THEN v
                       ELSE IF f = ends /\ spent THEN "moved" ELSE value[f]
  BY DEF Settle, Settable, SettledState
<1>4. state' \in [Futures -> State] /\ value' \in [Futures -> Value]
  BY <1>1, <1>3 DEF Settle, State, Value, Settable, SettledState
<1>5. queue' = IF posts THEN Append(q, g) ELSE q
  BY DEF Settle, Settable, SettledState
<1>6. state[g] = "NEW" => ~Pending(g) /\ g \notin Elements(q) /\ g \notin suspended
  BY <1>1 DEF BlockInv, Block, Pending, QueueInv
<1>7. /\ queue' \in Seq(Futures) /\ NoDuplicates(queue')
      /\ Elements(queue') = IF posts THEN Elements(q) \cup {g} ELSE Elements(q)
  BY <1>5, <1>6, AppendElements
<1>8. \A f \in Futures :
        Pending(f)' <=> (Pending(f) /\ f # ends) \/ (f = g /\ posts)
  BY <1>7 DEF Pending
<1> HIDE DEF posts
<1>9. QueueInv'
  <2>1. running' \notin Elements(queue')
    <3>1. Elements(queue') \subseteq Futures
      BY <1>7 DEF Elements
    <3>2. CASE running' = Nobody
      BY <3>1, <3>2
    <3>3. ASSUME NEW f \in Futures, running' = f PROVE f \notin Elements(queue')
      <4>1. running = f /\ f # ends
        BY <3>3
      <4>2. f \notin Elements(q) /\ (posts => f # g)
        BY <1>1, <1>6, <4>1 DEF QueueInv, Pending, posts
      <4> QED BY <1>7, <4>2
    <3> QED BY <3>2, <3>3
  <2>2. \A f \in suspended' : Pending(f)'
    BY <1>1, <1>8 DEF QueueInv
  <2> QED BY <1>7, <2>1, <2>2 DEF QueueInv
<1>10. BlockInv'
  <2> SUFFICES ASSUME NEW f \in Futures PROVE Block(f)' /\ Started(f)'
    BY DEF BlockInv
  <2>1. Block(f) /\ Started(f)
    BY <1>1 DEF BlockInv
  <2>2. Block(f)'
    BY <1>2, <1>3, <1>6, <1>8, <2>1 DEF Block, posts
  <2>3. f \in Elements(queue') <=>
            (f \in Elements(queue) /\ f # ends) \/ (f = g /\ posts)
    BY <1>7
  <2>4. Started(f)'
    BY <1>2, <1>3, <1>6, <1>8, <2>1, <2>3 DEF Started, posts, Pending
  <2> QED BY <2>2, <2>4
<1>11. LinkInv'
  <2>1. ASSUME NEW f \in Futures PROVE Link(f)'
    <3>1. CASE then[f] = NoThen
      BY <3>1 DEF Link
    <3>2. CASE then[f] # NoThen
      <4>1. PICK h \in Futures : h = then[f].next
        BY <3>2 DEF ChainInvariant, TypeOK, Continuation
      <4>2. Link(f)
        BY <1>1 DEF LinkInv
      <4>3. state'[h] # "absent" /\ upstream'[h] = upstream'[f] \cup {f}
        BY <1>3, <3>2, <4>1, <4>2 DEF Link
      <4>4. ASSUME runs'[f] = 0 \/ Pending(f)' PROVE Untouched(h)'
        <5>1. f # ends
          BY <1>2, <1>8, <4>4
        <5>2. runs[f] = 0 \/ Pending(f)
          BY <1>1, <1>6, <1>8, <4>4, <5>1 DEF BlockInv, Started, posts
        <5>3. Untouched(h) /\ upstream[h] = upstream[f] \cup {f}
          BY <3>2, <4>1, <4>2, <5>2 DEF Link
        <5>4. h # g
          BY <1>1, <3>2, <4>1, <5>1, <5>3 DEF LinkInv, ChainInvariant, TypeOK
        <5>5. ends # Nobody => h # ends
          BY <5>3, Zenon DEF Untouched
        <5>6. state'[h] = state[h] /\ runs'[h] = runs[h] /\ (Pending(h)' <=> Pending(h))
          BY <1>3, <1>8, <5>4, <5>5
        <5> QED BY <5>3, <5>6 DEF Untouched
      <4> QED BY <4>1, <4>3, <4>4 DEF Link
    <3> QED BY <3>1, <3>2
  <2> QED BY <1>1, <2>1 DEF LinkInv
<1>12. LineInv'
  <2> SUFFICES ASSUME NEW h \in Futures PROVE Line(h)'
    BY DEF LineInv
  <2>1. Line(h) /\ upstream[h] \subseteq Futures
    BY <1>1 DEF LineInv, ChainInvariant, TypeOK
  <2>2. \A f \in upstream[h] : state'[f] # "absent"
    BY <1>3, <2>1 DEF Line
  <2>3. ASSUME Reached(h)', NEW f \in upstream[h] PROVE runs'[f] = 1
    <3>1. CASE Reached(h)
      BY <2>1, <3>1 DEF Line
    <3>2. CASE ~Reached(h)
      <4>1. h = g
        BY <1>1, <1>3, <1>8, <2>3, <3>2 DEF Reached, BlockInv, Started
      <4>2. ends # Nobody /\ Pending(ends)
        BY <4>1
      <4>3. f = ends \/ f \in upstream[ends]
        BY <1>1, <4>1, <4>2 DEF LinkInv, Link, BlockInv, Block
      <4> QED BY <1>1, <2>1, <4>2, <4>3 DEF LineInv, Line, Reached
    <3> QED BY <3>1, <3>2
  <2>4. state'[h] = "CANCEL" /\ upstream[h] # {} => runs'[h] = 0 /\ ~Pending(h)'
    BY <1>3, <1>8, <2>1 DEF Line, posts
  <2> QED BY <2>2, <2>3, <2>4 DEF Line
<1> QED BY <1>4, <1>7, <1>9, <1>10, <1>11, <1>12

-----------------------------------------------------------------------------
(* The invariant, action by action                                         *)

\* No future exists at first.
LEMMA InitInvariant == Init => ChainInvariant
<1> SUFFICES ASSUME Init PROVE ChainInvariant
  OBVIOUS
<1> USE FutureAssumption
<1>1. Elements(queue) = {} /\ queue \in Seq(Futures) /\ Len(queue) = 0
  BY DEF Init, Elements
<1>2. \A f \in Futures : ~Pending(f)
  BY <1>1 DEF Init, Pending
<1>3. TypeOK
  BY <1>1, <1>2 DEF Init, TypeOK, State, Value
<1>4. QueueInv
  BY <1>1 DEF Init, QueueInv, NoDuplicates
<1>5. BlockInv
  BY <1>1, <1>2 DEF Init, BlockInv, Block, Started
<1>6. LinkInv
  BY DEF Init, LinkInv, Link
<1>7. LineInv
  BY DEF Init, LineInv, Line
<1>8. BatchFits
  BY <1>1 DEF Init, BatchFits
<1> QED BY <1>3, <1>4, <1>5, <1>6, <1>7, <1>8 DEF ChainInvariant

\* makePromise() of a new control block.
LEMMA MakePromiseKeeps ==
  ASSUME ChainInvariant, NEW f \in Futures, MakePromise(f) PROVE ChainInvariant'
<1>1. /\ TypeOK /\ QueueInv /\ BlockInv /\ LinkInv /\ LineInv /\ BatchFits
      /\ state \in [Futures -> State]
  BY DEF ChainInvariant, TypeOK
<1>2. /\ UNCHANGED <<value, then, queue, turns, running, suspended, histVars, alive>>
      /\ state[f] = "absent"
      /\ \A h \in Futures : state'[h] = IF h = f THEN "NEW" ELSE state[h]
      /\ state' \in [Futures -> State]
  BY <1>1 DEF MakePromise, State
<1>3. \A h \in Futures : Pending(h)' <=> Pending(h)
  BY <1>2 DEF Pending
<1>4. TypeOK'
  BY <1>1, <1>2, <1>3 DEF TypeOK, histVars
<1>5. QueueInv'
  BY <1>1, <1>2, <1>3 DEF QueueInv, Pending
<1>6. BlockInv'
  BY <1>1, <1>2, <1>3 DEF BlockInv, Block, Started, histVars
<1>7. LinkInv'
  BY <1>1, <1>2, <1>3 DEF LinkInv, Link, Untouched, histVars, TypeOK, Continuation
<1>8. LineInv'
  BY <1>1, <1>2, <1>3 DEF LineInv, Line, Reached, histVars, TypeOK
<1>9. BatchFits'
  BY <1>1, <1>2 DEF BatchFits, histVars
<1> QED BY <1>4, <1>5, <1>6, <1>7, <1>8, <1>9 DEF ChainInvariant

\* Promise::setValue() by the user.
LEMMA SetValueKeeps ==
  ASSUME ChainInvariant, NEW f \in Futures, SetValue(f) PROVE ChainInvariant'
<1> USE FutureAssumption
<1>1. /\ TypeOK /\ QueueInv /\ BatchFits
      /\ queue \in Seq(Futures) /\ runs \in [Futures -> Nat]
  BY DEF ChainInvariant, TypeOK
<1>2. /\ UNCHANGED <<then, turns, running, suspended, histVars, alive>>
      /\ Settle(f, "intact", queue, Nobody, FALSE)
      /\ state[f] # "absent" /\ upstream[f] = {}
  BY DEF SetValue, UserPromise
<1>3. Elements(queue) = Elements(queue) \ {Nobody} /\ suspended = suspended \ {Nobody}
  BY <1>1 DEF TypeOK, Elements
<1>4. /\ state' \in [Futures -> State] /\ value' \in [Futures -> Value]
      /\ queue' \in Seq(Futures)
      /\ QueueInv' /\ BlockInv' /\ LinkInv' /\ LineInv'
  <2>1. /\ running' \in Futures \cup {Nobody}
        /\ \A h \in Futures : running' = h <=> running = h /\ h # Nobody
        /\ \A h \in Futures : runs'[h] = IF h = Nobody THEN 1 ELSE runs[h]
        /\ suspended' = suspended \ {Nobody}
        /\ then' = then /\ upstream' = upstream /\ given' = given
    BY <1>1, <1>2, <1>3 DEF histVars, TypeOK
  <2>2. NoDuplicates(queue) /\ "intact" \in Value \ {"default"} /\ Nobody \in Futures \cup {Nobody}
    BY <1>1 DEF QueueInv, Value
  <2> QED BY SettleKeeps, <1>1, <1>2, <1>3, <2>1, <2>2
<1>5. TypeOK'
  BY <1>1, <1>2, <1>4 DEF TypeOK, histVars, BlockInv, Block
<1>6. BatchFits'
  <2>1. queue' = queue \/ queue' = Append(queue, f)
    BY <1>2 DEF Settle
  <2> QED BY <1>1, <1>2, <2>1, FitsAppend DEF BatchFits, Fits, histVars, TypeOK
<1> QED BY <1>4, <1>5, <1>6 DEF ChainInvariant

\* Promise::cancel() by the user.
LEMMA CancelKeeps ==
  ASSUME ChainInvariant, NEW f \in Futures, Cancel(f) PROVE ChainInvariant'
<1>1. /\ TypeOK /\ QueueInv /\ BlockInv /\ LinkInv /\ LineInv /\ BatchFits
      /\ state \in [Futures -> State]
  BY DEF ChainInvariant, TypeOK
<1>2. /\ UNCHANGED <<value, then, queue, turns, running, suspended, histVars, alive>>
      /\ state[f] # "absent" /\ upstream[f] = {}
      /\ \A h \in Futures : state'[h] = IF h = f THEN "CANCEL" ELSE state[h]
      /\ state' \in [Futures -> State]
  BY <1>1 DEF Cancel, UserPromise, State
<1>3. \A h \in Futures : Pending(h)' <=> Pending(h)
  BY <1>2 DEF Pending
<1>4. TypeOK'
  BY <1>1, <1>2, <1>3 DEF TypeOK, histVars
<1>5. QueueInv'
  BY <1>1, <1>2, <1>3 DEF QueueInv, Pending
<1>6. BlockInv'
  BY <1>1, <1>2, <1>3 DEF BlockInv, Block, Started, histVars
<1>7. LinkInv'
  <2>1. ASSUME NEW h \in Futures, then[h] # NoThen
        PROVE  then[h].next \in Futures /\ then[h].next # f
    <3>1. then[h].next \in Futures
      BY <1>1, <2>1 DEF TypeOK, Continuation
    <3>2. h \in upstream[then[h].next]
      BY <1>1, <2>1 DEF LinkInv, Link
    <3> QED BY <1>2, <3>1, <3>2
  <2> QED BY <1>1, <1>2, <1>3, <2>1 DEF LinkInv, Link, Untouched, histVars
<1>8. LineInv'
  BY <1>1, <1>2, <1>3 DEF LineInv, Line, Reached, histVars, TypeOK
<1>9. BatchFits'
  BY <1>1, <1>2 DEF BatchFits, histVars
<1> QED BY <1>4, <1>5, <1>6, <1>7, <1>8, <1>9 DEF ChainInvariant

\* Future::get() leaves the future dead.
LEMMA GetKeeps ==
  ASSUME ChainInvariant, NEW f \in Futures, Get(f) PROVE ChainInvariant'
<1>1. /\ TypeOK /\ QueueInv /\ BlockInv /\ LinkInv /\ LineInv /\ BatchFits
      /\ state \in [Futures -> State] /\ value \in [Futures -> Value]
  BY DEF ChainInvariant, TypeOK
<1>2. /\ UNCHANGED <<then, queue, turns, running, suspended, histVars, alive>>
      /\ state[f] # "absent"
      /\ \A h \in Futures : state'[h] = IF h = f THEN "DEAD" ELSE state[h]
      /\ \A h \in Futures : value'[h] = IF h = f THEN "moved" ELSE value[h]
      /\ state' \in [Futures -> State] /\ value' \in [Futures -> Value]
  BY <1>1 DEF Get, State, Value
<1>3. \A h \in Futures : Pending(h)' <=> Pending(h)
  BY <1>2 DEF Pending
<1>4. TypeOK'
  BY <1>1, <1>2, <1>3 DEF TypeOK, histVars
<1>5. QueueInv'
  BY <1>1, <1>2, <1>3 DEF QueueInv, Pending
<1>6. BlockInv'
  BY <1>1, <1>2, <1>3 DEF BlockInv, Block, Started, histVars
<1>7. LinkInv'
  BY <1>1, <1>2, <1>3 DEF LinkInv, Link, Untouched, histVars, TypeOK, Continuation
<1>8. LineInv'
  BY <1>1, <1>2, <1>3 DEF LineInv, Line, Reached, histVars, TypeOK
<1>9. BatchFits'
  BY <1>1, <1>2 DEF BatchFits, histVars
<1> QED BY <1>4, <1>5, <1>6, <1>7, <1>8, <1>9 DEF ChainInvariant

\* The new future is linked to f, unless f has no use for the continuation.
LEMMA FutureRoutineKeeps ==
  ASSUME ChainInvariant, NEW f \in Futures, NEW c \in Continuation,
         FutureRoutine(f, c)
  PROVE  ChainInvariant'
<1> USE FutureAssumption
<1>0. PICK g \in Futures : g = c.next
  BY DEF Continuation
<1>1. /\ TypeOK /\ QueueInv /\ BlockInv /\ LinkInv /\ LineInv /\ BatchFits
      /\ state \in [Futures -> State] /\ queue \in Seq(Futures)
      /\ then \in [Futures -> Continuation \cup {NoThen}]
      /\ upstream \in [Futures -> SUBSET Futures]
  BY DEF ChainInvariant, TypeOK
<1>2. /\ UNCHANGED <<value, turns, running, suspended, runs, given, resumed, alive>>
      /\ state[f] # "absent" /\ state[g] = "absent" /\ f # g
      /\ queue' = IF state[f] = "READY" THEN Append(queue, f) ELSE queue
  BY <1>0 DEF FutureRoutine, PostsNow
<1>3. \A h \in Futures :
        /\ state'[h] = IF h = g THEN (IF state[f] = "CANCEL" THEN "CANCEL" ELSE "NEW")
                       ELSE IF h = f /\ state[f] = "READY" THEN "POSTED"
                       ELSE state[h]
        /\ then'[h] = IF h = f /\ state[f] \in {"NEW", "READY"} THEN c ELSE then[h]
        /\ upstream'[h] = IF h = g THEN upstream[f] \cup {f} ELSE upstream[h]
  BY <1>0, <1>1, <1>2 DEF FutureRoutine, PostsNow, ChainedState, Registers
<1>4. /\ state' \in [Futures -> State]
      /\ then' \in [Futures -> Continuation \cup {NoThen}]
      /\ upstream' \in [Futures -> SUBSET Futures]
  BY <1>0, <1>1 DEF FutureRoutine, PostsNow, ChainedState, Registers, State
<1>5. \A h \in Futures : upstream[h] \subseteq Futures /\ g \notin upstream[h]
  BY <1>1, <1>2 DEF LineInv, Line
<1>6. /\ Block(f) /\ Started(f) /\ Block(g) /\ Started(g)
      /\ state[f] \in {"NEW", "READY"} => f \notin Elements(queue) /\ ~Pending(f)
      /\ ~Pending(g) /\ runs[g] = 0
  BY <1>1, <1>2 DEF BlockInv, Block, Started, Pending
<1>7. /\ queue' \in Seq(Futures) /\ NoDuplicates(queue')
      /\ Elements(queue') = IF state[f] = "READY" THEN Elements(queue) \cup {f}
                            ELSE Elements(queue)
  BY <1>1, <1>2, <1>6, AppendElements DEF QueueInv
<1>8. \A h \in Futures : Pending(h)' <=> Pending(h) \/ (h = f /\ state[f] = "READY")
  BY <1>2, <1>7 DEF Pending
<1>9. QueueInv'
  BY <1>1, <1>2, <1>6, <1>7, <1>8 DEF QueueInv, Pending, TypeOK
<1>10. BlockInv'
  <2> SUFFICES ASSUME NEW h \in Futures PROVE Block(h)' /\ Started(h)'
    BY DEF BlockInv
  <2>1. Block(h) /\ Started(h)
    BY <1>1 DEF BlockInv
  <2>2. Block(h)'
    BY <1>2, <1>3, <1>6, <1>8, <2>1 DEF Block
  <2>3. Started(h)'
    BY <1>2, <1>3, <1>6, <1>7, <2>1 DEF Started
  <2> QED BY <2>2, <2>3
<1>11. LinkInv'
  <2>1. ASSUME NEW h \in Futures, then[h] # NoThen
        PROVE  then[h].next \in Futures /\ then[h].next # g /\ h # g
    BY <1>1, <1>2, <1>6, <2>1 DEF LinkInv, Link, Block, TypeOK, Continuation
  <2>2. ASSUME NEW h \in Futures PROVE Link(h)'
    <3>1. CASE h = f /\ state[f] \in {"NEW", "READY"}
      <4>1. then'[h] = c /\ state'[g] = "NEW" /\ upstream'[g] = upstream'[h] \cup {h}
        BY <1>2, <1>3, <3>1
      <4>2. Untouched(g)'
        BY <1>2, <1>6, <1>8, <4>1 DEF Untouched
      <4> QED BY <1>0, <4>1, <4>2 DEF Link
    <3>2. CASE ~(h = f /\ state[f] \in {"NEW", "READY"}) /\ then[h] # NoThen
      <4>1. PICK k \in Futures : k = then[h].next
        BY <2>1, <3>2
      <4>2. Link(h) /\ then'[h] = then[h] /\ k # g /\ h # g
        BY <1>1, <1>3, <2>1, <3>2, <4>1 DEF LinkInv
      <4>3. state'[k] # "absent" /\ upstream'[k] = upstream'[h] \cup {h}
        BY <1>3, <3>2, <4>1, <4>2 DEF Link
      <4>4. ASSUME runs'[h] = 0 \/ Pending(h)' PROVE Untouched(k)'
        <5>1. runs[h] = 0 \/ Pending(h)
          BY <1>2, <1>6, <1>8, <4>4 DEF Started
        <5>2. Untouched(k)
          BY <3>2, <4>1, <4>2, <5>1 DEF Link
        <5> QED BY <1>2, <1>3, <1>8, <4>2, <5>2 DEF Untouched
      <4> QED BY <4>1, <4>2, <4>3, <4>4 DEF Link
    <3>3. CASE ~(h = f /\ state[f] \in {"NEW", "READY"}) /\ then[h] = NoThen
      BY <1>3, <3>3 DEF Link
    <3> QED BY <3>1, <3>2, <3>3
  <2>3. ASSUME NEW h \in Futures, NEW k \in Futures,
               then'[h] # NoThen, then'[k] # NoThen, then'[h].next = then'[k].next
        PROVE  h = k
    BY <1>0, <1>1, <1>3, <2>1, <2>3 DEF LinkInv
  <2> QED BY <2>2, <2>3 DEF LinkInv
<1>12. LineInv'
  <2> SUFFICES ASSUME NEW h \in Futures PROVE Line(h)'
    BY DEF LineInv
  <2>1. Line(h) /\ Line(f)
    BY <1>1 DEF LineInv
  <2>2. CASE h = g
    <3>1. ~Reached(g)' /\ runs'[g] = 0 /\ ~Pending(g)'
      BY <1>2, <1>3, <1>6, <1>8 DEF Reached
    <3>2. \A k \in upstream'[g] : state'[k] # "absent"
      BY <1>2, <1>3, <1>5, <2>1 DEF Line
    <3> QED BY <2>2, <3>1, <3>2 DEF Line
  <2>3. CASE h # g
    <3>1. \A k \in upstream[h] : state'[k] # "absent"
      BY <1>3, <1>5, <2>1 DEF Line
    <3>2. Reached(h)' <=> Reached(h)
      BY <1>2, <1>3, <1>8, <2>3 DEF Reached
    <3>3. state'[h] = "CANCEL" <=> state[h] = "CANCEL"
      BY <1>3, <2>3
    <3> QED BY <1>2, <1>3, <1>8, <2>1, <2>3, <3>1, <3>2, <3>3 DEF Line
  <2> QED BY <2>2, <2>3
<1>13. TypeOK'
  BY <1>1, <1>2, <1>4, <1>7, <1>10 DEF TypeOK, BlockInv, Block
<1>14. BatchFits'
  BY <1>1, <1>2, FitsAppend DEF BatchFits, Fits, TypeOK
<1> QED BY <1>9, <1>10, <1>11, <1>12, <1>13, <1>14 DEF ChainInvariant

\* loop() begins a batch.
LEMMA LoopKeeps == ASSUME ChainInvariant, Loop PROVE ChainInvariant'
<1>1. /\ TypeOK /\ QueueInv /\ BlockInv /\ LinkInv /\ LineInv
      /\ queue \in Seq(Futures) /\ Len(queue) \in Nat
  BY LenProperties DEF ChainInvariant, TypeOK
<1>2. /\ UNCHANGED <<state, value, then, queue, running, suspended, upstream,
                     runs, given, alive>>
      /\ turns' = Len(queue) /\ resumed' = {}
  BY <1>1, UnrolledTurnsExact DEF Loop, blockVars
<1>3. \A f \in Futures : Pending(f)' <=> Pending(f)
  BY <1>2 DEF Pending
<1>4. TypeOK'
  BY <1>1, <1>2, <1>3 DEF TypeOK
<1>5. QueueInv'
  BY <1>1, <1>2, <1>3 DEF QueueInv, Pending
<1>6. BlockInv' /\ LinkInv' /\ LineInv'
  BY <1>1, <1>2, <1>3
     DEF BlockInv, Block, Started, LinkInv, Link, Untouched, LineInv, Line, Reached, Pending
<1>7. BatchFits'
  BY <1>1, <1>2 DEF BatchFits
<1> QED BY <1>4, <1>5, <1>6, <1>7 DEF ChainInvariant

\* The coroutine in front leaves the queue and is running.
LEMMA ResumeKeeps == ASSUME ChainInvariant, Resume PROVE ChainInvariant'
<1> USE FutureAssumption
<1>1. /\ TypeOK /\ QueueInv /\ BlockInv /\ LinkInv /\ LineInv
      /\ queue \in Seq(Futures) /\ value \in [Futures -> Value]
      /\ then \in [Futures -> Continuation \cup {NoThen}]
      /\ runs \in [Futures -> Nat] /\ given \in [Futures -> SUBSET Value]
      /\ suspended \subseteq Futures
  BY DEF ChainInvariant, TypeOK
<1>2. /\ Turn /\ ~Exhausted(Front) /\ HasTurn
      /\ queue' = Tail(queue) /\ running' = Front
      /\ UNCHANGED <<state, suspended, upstream, alive>>
  BY DEF Resume, Turn
<1>3. PICK f \in Futures : f = Front
  BY <1>2, FrontPending
<1>4. /\ f \in Elements(queue) /\ running = Nobody
      /\ queue' \in Seq(Futures) /\ NoDuplicates(queue')
      /\ Elements(queue') = Elements(queue) \ {f}
      /\ then[f] \in Continuation
  BY <1>2, <1>3, FrontPending
<1>5. Pending(f) /\ \A h \in Futures : Pending(h)' <=> Pending(h)
  BY <1>2, <1>3, <1>4 DEF Pending
<1>6. Block(f) /\ Started(f)
  BY <1>1 DEF BlockInv
<1>7. /\ \A h \in Futures : runs'[h] = IF h = f THEN 1 ELSE runs[h]
      /\ runs' \in [Futures -> Nat]
  <2>1. runs' = [runs EXCEPT ![f] = IF f \in suspended THEN runs[f] ELSE runs[f] + 1]
    BY <1>3 DEF Resume, Starts
  <2>2. (IF f \in suspended THEN runs[f] ELSE runs[f] + 1) = 1
    BY <1>4, <1>6 DEF Started
  <2> QED BY <1>1, <2>1, <2>2
<1>8. /\ \A h \in Futures : given'[h] = IF h = f THEN given[f] \cup {value[f]} ELSE given[h]
      /\ given' \in [Futures -> SUBSET Value]
  BY <1>1, <1>3 DEF Resume
<1>9. /\ \A h \in Futures : value'[h] = value[h] \/ value'[h] = "moved"
      /\ value' \in [Futures -> Value]
  <2>1. value' = value \/ value' = [value EXCEPT ![f] = "moved"]
    BY <1>3 DEF Resume
  <2> QED BY <1>1, <2>1 DEF Value
<1>10. /\ \A h \in Futures : h # f => then'[h] = then[h]
       /\ then'[f] \in Continuation /\ then'[f].next = then[f].next
       /\ then' \in [Futures -> Continuation \cup {NoThen}]
  <2>1. then' = [then EXCEPT ![f] = Spend(then[f])]
    BY <1>3 DEF Resume
  <2>2. Spend(then[f]) \in Continuation /\ Spend(then[f]).next = then[f].next
    BY <1>2, <1>3, <1>4 DEF Spend, Exhausted, Continuation
  <2> QED BY <1>1, <2>1, <2>2
<1>11. \A h \in Futures : then'[h] # NoThen <=> then[h] # NoThen
  BY <1>4, <1>10
<1>12. QueueInv'
  BY <1>1, <1>2, <1>3, <1>4, <1>5 DEF QueueInv
<1>13. BlockInv'
  <2> SUFFICES ASSUME NEW h \in Futures PROVE Block(h)' /\ Started(h)'
    BY DEF BlockInv
  <2>1. Block(h) /\ Started(h)
    BY <1>1 DEF BlockInv
  <2>2. Block(h)'
    BY <1>2, <1>5, <1>6, <1>8, <1>9, <1>11, <2>1 DEF Block
  <2>3. Started(h)'
    BY <1>1, <1>2, <1>3, <1>4, <1>5, <1>6, <1>7, <2>1 DEF Started, Block, QueueInv
  <2> QED BY <2>2, <2>3
<1>14. LinkInv'
  <2>1. ASSUME NEW h \in Futures, then'[h] # NoThen PROVE Link(h)'
    <3>1. then[h] # NoThen /\ then'[h].next = then[h].next
      BY <1>10, <1>11, <2>1
    <3>2. PICK k \in Futures : k = then[h].next
      BY <1>1, <3>1 DEF Continuation
    <3>3. Link(h)
      BY <1>1 DEF LinkInv
    <3>4. ASSUME runs'[h] = 0 \/ Pending(h)' PROVE Untouched(k)'
      <4>1. Untouched(k)
        BY <1>5, <1>7, <3>1, <3>2, <3>3, <3>4 DEF Link
      <4>2. k # f
        BY <1>5, <4>1 DEF Untouched
      <4> QED BY <1>2, <1>5, <1>7, <4>1, <4>2 DEF Untouched
    <3> QED BY <1>2, <3>1, <3>2, <3>3, <3>4 DEF Link
  <2>2. \A h \in Futures : then'[h] # NoThen =>
            then[h] # NoThen /\ then'[h].next = then[h].next
    BY <1>10, <1>11
  <2> QED BY <1>1, <2>1, <2>2 DEF LinkInv, Link
<1>15. LineInv'
  <2> SUFFICES ASSUME NEW h \in Futures PROVE Line(h)'
    BY DEF LineInv
  <2>1. Line(h) /\ upstream[h] \subseteq Futures
    BY <1>1 DEF LineInv, TypeOK
  <2>2. Reached(h)' => Reached(h)
    BY <1>2, <1>5, <1>7 DEF Reached
  <2> QED BY <1>2, <1>5, <1>7, <2>1, <2>2 DEF Line
<1>16. BatchFits' /\ turns' \in Nat /\ resumed' \subseteq Futures
  BY <1>2, TurnFits DEF BatchFits, Fits
<1>17. TypeOK'
  BY <1>1, <1>2, <1>3, <1>4, <1>7, <1>8, <1>9, <1>10, <1>13, <1>16
     DEF TypeOK, BlockInv, Block
<1> QED BY <1>12, <1>13, <1>14, <1>15, <1>16, <1>17 DEF ChainInvariant

\* The coroutine in front ends and passes its value on.
LEMMA ResumeExhaustedKeeps ==
  ASSUME ChainInvariant, ResumeExhausted PROVE ChainInvariant'
<1> USE FutureAssumption
<1>1. /\ TypeOK /\ QueueInv /\ BlockInv /\ LinkInv /\ LineInv
      /\ queue \in Seq(Futures) /\ value \in [Futures -> Value]
      /\ runs \in [Futures -> Nat] /\ suspended \subseteq Futures
  BY DEF ChainInvariant, TypeOK
<1>2. /\ Turn /\ HasTurn /\ Forward(Front, Tail(queue)) /\ Starts(Front)
      /\ suspended' = suspended \ {Front}
      /\ UNCHANGED <<then, running, upstream, given, alive>>
  BY DEF ResumeExhausted, Turn
<1>3. PICK f \in Futures : f = Front
  BY <1>2, FrontPending
<1>4. /\ f \in Elements(queue) /\ running = Nobody
      /\ Tail(queue) \in Seq(Futures) /\ NoDuplicates(Tail(queue))
      /\ Elements(Tail(queue)) = Elements(queue) \ {f}
      /\ then[f] \in Continuation
  BY <1>2, <1>3, FrontPending
<1>5. Block(f) /\ Started(f) /\ Pending(f) /\ f # Nobody
  BY <1>1, <1>4 DEF BlockInv, Pending
<1>6. PICK g \in Futures : g = then[f].next
  BY <1>4 DEF Continuation
<1>7. PICK spent \in BOOLEAN : Settle(g, value[f], Tail(queue), f, spent)
  BY <1>2, <1>3, <1>6, Zenon DEF Forward
<1>8. /\ \A h \in Futures : runs'[h] = IF h = f THEN 1 ELSE runs[h]
      /\ runs' \in [Futures -> Nat]
  <2>1. runs' = [runs EXCEPT ![f] = IF f \in suspended THEN runs[f] ELSE runs[f] + 1]
    BY <1>2, <1>3 DEF Starts
  <2>2. (IF f \in suspended THEN runs[f] ELSE runs[f] + 1) = 1
    BY <1>4, <1>5 DEF Started
  <2> QED BY <1>1, <2>1, <2>2
<1>9. /\ state' \in [Futures -> State] /\ value' \in [Futures -> Value]
      /\ queue' \in Seq(Futures)
      /\ QueueInv' /\ BlockInv' /\ LinkInv' /\ LineInv'
  <2>1. value[f] \in Value \ {"default"}
    BY <1>1, <1>5 DEF Block
  <2>2. state[g] # "absent"
    BY <1>1, <1>5, <1>6 DEF Block, LinkInv, Link
  <2>3. /\ running' \in Futures \cup {Nobody}
        /\ \A h \in Futures : running' = h <=> running = h /\ h # f
    BY <1>2, <1>4
  <2>4. /\ then' = then /\ upstream' = upstream /\ given' = given
        /\ suspended' = suspended \ {f}
    BY <1>2, <1>3
  <2>5. PICK q \in Seq(Futures), v \in Value \ {"default"} :
            q = Tail(queue) /\ v = value[f]
    BY <1>4, <2>1
  <2>6. Settle(g, v, q, f, spent) /\ NoDuplicates(q) /\ Elements(q) = Elements(queue) \ {f}
    BY <1>4, <1>7, <2>5
  <2> QED BY SettleKeeps, <1>5, <1>6, <1>8, <2>2, <2>3, <2>4, <2>6
<1>10. Fits(Tail(queue), turns', resumed') /\ turns' \in Nat /\ resumed' \subseteq Futures
  BY <1>2, TurnFits
<1>11. BatchFits'
  <2>1. queue' = Tail(queue) \/ queue' = Append(Tail(queue), g)
    BY <1>7 DEF Settle
  <2>2. Fits(Append(Tail(queue), g), turns', resumed')
    BY <1>4, <1>10, FitsAppend
  <2> QED BY <1>10, <2>1, <2>2 DEF BatchFits, Fits
<1>12. TypeOK'
  BY <1>1, <1>2, <1>8, <1>9, <1>10 DEF TypeOK, BlockInv, Block
<1> QED BY <1>9, <1>11, <1>12 DEF ChainInvariant

\* A user function returns; its coroutine ends, setting the linked future.
LEMMA EndsKeeps ==
  ASSUME ChainInvariant, Ends, NEW v \in Value \ {"default"}, NEW spent \in BOOLEAN,
         Settle(then[running].next, v, queue, running, spent)
  PROVE  ChainInvariant'
<1> USE FutureAssumption
<1>1. /\ TypeOK /\ QueueInv /\ BlockInv /\ LinkInv /\ LineInv /\ BatchFits
      /\ queue \in Seq(Futures) /\ runs \in [Futures -> Nat] /\ suspended \subseteq Futures
  BY DEF ChainInvariant, TypeOK
<1>2. /\ running' = Nobody /\ suspended' = suspended \ {running}
      /\ UNCHANGED <<then, turns, upstream, runs, given, resumed, alive>>
  BY DEF Ends
<1>3. PICK f \in Futures : f = running
  BY <1>1 DEF Ends, TypeOK
<1>4. Block(f) /\ Started(f) /\ Pending(f) /\ f # Nobody
  BY <1>1, <1>3 DEF BlockInv, Pending
<1>5. PICK g \in Futures : g = then[f].next
  BY <1>1, <1>4 DEF Block, TypeOK, Continuation
<1>6. /\ state' \in [Futures -> State] /\ value' \in [Futures -> Value]
      /\ queue' \in Seq(Futures)
      /\ QueueInv' /\ BlockInv' /\ LinkInv' /\ LineInv'
  <2>1. NoDuplicates(queue) /\ Elements(queue) = Elements(queue) \ {f}
    BY <1>1, <1>3 DEF QueueInv
  <2>2. state[g] # "absent"
    BY <1>1, <1>4, <1>5 DEF Block, LinkInv, Link
  <2>3. /\ running' \in Futures \cup {Nobody}
        /\ \A h \in Futures : running' = h <=> running = h /\ h # f
    BY <1>2, <1>3
  <2>4. \A h \in Futures : runs'[h] = IF h = f THEN 1 ELSE runs[h]
    BY <1>2, <1>3, <1>4 DEF Started
  <2>5. Settle(g, v, queue, f, spent)
    BY <1>3, <1>5
  <2>6. /\ then' = then /\ upstream' = upstream /\ given' = given
        /\ suspended' = suspended \ {f}
    BY <1>2, <1>3
  <2> QED BY SettleKeeps, <1>1, <1>4, <1>5, <2>1, <2>2, <2>3, <2>4, <2>5, <2>6
<1>7. BatchFits'
  <2>1. queue' = queue \/ queue' = Append(queue, g)
    BY <1>3, <1>5 DEF Settle
  <2> QED BY <1>1, <1>2, <2>1, FitsAppend DEF BatchFits, Fits, TypeOK
<1>8. TypeOK'
  BY <1>1, <1>2, <1>6 DEF TypeOK, BlockInv, Block
<1> QED BY <1>6, <1>7, <1>8 DEF ChainInvariant

\* A cancelIf that stops the chain.
LEMMA CancelsNextKeeps == ASSUME ChainInvariant, CancelsNext PROVE ChainInvariant'
<1> USE FutureAssumption
<1>1. /\ TypeOK /\ QueueInv /\ BlockInv /\ LinkInv /\ LineInv /\ BatchFits
      /\ state \in [Futures -> State] /\ suspended \subseteq Futures
  BY DEF ChainInvariant, TypeOK
<1>2. /\ running' = Nobody /\ suspended' = suspended \ {running}
      /\ UNCHANGED <<value, queue, then, turns, upstream, runs, given, resumed, alive>>
  BY DEF CancelsNext, Ends
<1>3. PICK f \in Futures : f = running
  BY <1>1 DEF CancelsNext, Ends, TypeOK
<1>4. Block(f) /\ Started(f) /\ Pending(f) /\ f \notin Elements(queue)
  BY <1>1, <1>3 DEF BlockInv, Pending, QueueInv
<1>5. PICK g \in Futures : g = then[f].next
  BY <1>1, <1>4 DEF Block, TypeOK, Continuation
<1>6. Untouched(g) /\ g # f /\ upstream[g] = upstream[f] \cup {f}
  BY <1>1, <1>4, <1>5 DEF Block, LinkInv, Link, Untouched
<1>7. /\ \A h \in Futures :
            state'[h] = IF h = f THEN "DONE" ELSE IF h = g THEN "CANCEL" ELSE state[h]
      /\ state' \in [Futures -> State]
  BY <1>1, <1>3, <1>5, <1>6 DEF CancelsNext, State
<1>8. \A h \in Futures : Pending(h)' <=> Pending(h) /\ h # f
  BY <1>2, <1>3, <1>4 DEF Pending
<1>9. QueueInv'
  BY <1>1, <1>2, <1>3, <1>8 DEF QueueInv, TypeOK, Elements
<1>10. BlockInv'
  BY <1>1, <1>2, <1>3, <1>4, <1>6, <1>7, <1>8
     DEF BlockInv, Block, Started, Untouched, Pending
<1>11. LinkInv'
  <2>1. ASSUME NEW h \in Futures, then[h] # NoThen PROVE Link(h)'
    <3>1. PICK k \in Futures : k = then[h].next
      BY <1>1, <2>1 DEF TypeOK, Continuation
    <3>2. Link(h)
      BY <1>1 DEF LinkInv
    <3>3. state'[k] # "absent"
      BY <1>7, <2>1, <3>1, <3>2 DEF Link
    <3>4. ASSUME runs'[h] = 0 \/ Pending(h)' PROVE Untouched(k)'
      <4>1. h # f /\ (runs[h] = 0 \/ Pending(h))
        BY <1>2, <1>3, <1>4, <1>8, <3>4 DEF Started
      <4>2. Untouched(k)
        BY <2>1, <3>1, <3>2, <4>1 DEF Link
      <4>3. k # f /\ k # g
        BY <1>1, <1>4, <1>5, <2>1, <3>1, <4>1, <4>2 DEF Untouched, LinkInv, Block
      <4> QED BY <1>2, <1>7, <1>8, <4>2, <4>3 DEF Untouched
    <3> QED BY <1>2, <2>1, <3>1, <3>2, <3>3, <3>4 DEF Link
  <2> QED BY <1>1, <1>2, <2>1 DEF LinkInv, Link
<1>12. LineInv'
  BY <1>1, <1>2, <1>6, <1>7, <1>8 DEF LineInv, Line, Reached, Untouched, TypeOK
<1>13. TypeOK' /\ BatchFits'
  BY <1>1, <1>2, <1>3, <1>7, <1>10 DEF TypeOK, BatchFits, BlockInv, Block
<1> QED BY <1>9, <1>10, <1>11, <1>12, <1>13 DEF ChainInvariant

\* A poll that is not satisfied goes to the back of the queue.
LEMMA YieldsKeeps == ASSUME ChainInvariant, Yields PROVE ChainInvariant'
<1> USE FutureAssumption
<1>1. /\ TypeOK /\ QueueInv /\ BlockInv /\ LinkInv /\ LineInv /\ BatchFits
      /\ queue \in Seq(Futures) /\ suspended \subseteq Futures
  BY DEF ChainInvariant, TypeOK
<1>2. PICK f \in Futures : f = running
  BY <1>1 DEF Yields, TypeOK
<1>3. /\ running' = Nobody /\ suspended' = suspended \cup {f}
      /\ queue' = Append(queue, f) /\ f \notin Elements(queue)
      /\ UNCHANGED <<blockVars, turns, upstream, runs, given, resumed, alive>>
  BY <1>1, <1>2 DEF Yields, Requeue, QueueInv
<1>4. /\ queue' \in Seq(Futures) /\ NoDuplicates(queue')
      /\ Elements(queue') = Elements(queue) \cup {f}
      /\ Nobody \notin Elements(queue')
  <2>1. /\ queue' \in Seq(Futures) /\ NoDuplicates(queue')
        /\ Elements(queue') = Elements(queue) \cup {f}
    BY <1>1, <1>3, AppendElements DEF QueueInv
  <2> QED BY <2>1 DEF Elements
<1>5. \A h \in Futures : Pending(h)' <=> Pending(h)
  BY <1>2, <1>3, <1>4 DEF Pending
<1>6. QueueInv'
  BY <1>1, <1>2, <1>3, <1>4, <1>5 DEF QueueInv, Pending
<1>7. BlockInv'
  BY <1>1, <1>2, <1>3, <1>4, <1>5 DEF BlockInv, Block, Started, blockVars
<1>8. LinkInv' /\ LineInv'
  BY <1>1, <1>3, <1>5
     DEF LinkInv, Link, Untouched, LineInv, Line, Reached, blockVars, TypeOK, Continuation
<1>9. BatchFits'
  BY <1>1, <1>3, FitsAppend DEF BatchFits, Fits, TypeOK
<1>10. TypeOK'
  BY <1>1, <1>3, <1>4, <1>7 DEF TypeOK, blockVars, BlockInv, Block
<1> QED BY <1>6, <1>7, <1>8, <1>9, <1>10 DEF ChainInvariant

\* A step that changes nothing but alive.
LEMMA StutterKeeps ==
  ASSUME ChainInvariant, alive' \in BOOLEAN,
         UNCHANGED <<blockVars, queue, turns, running, suspended, histVars>>
  PROVE  ChainInvariant'
<1>1. TypeOK'
  BY DEF ChainInvariant, TypeOK, blockVars, histVars, Pending
<1>2. QueueInv' /\ BatchFits'
  BY DEF ChainInvariant, QueueInv, BatchFits, Pending, blockVars, histVars
<1>3. BlockInv' /\ LinkInv' /\ LineInv'
  BY DEF ChainInvariant, BlockInv, Block, Started, LinkInv, Link, Untouched,
         LineInv, Line, Reached, Pending, blockVars, histVars
<1> QED BY <1>1, <1>2, <1>3 DEF ChainInvariant

\* Every step keeps the invariant.
LEMMA NextKeeps == ChainInvariant /\ [Next]_vars => ChainInvariant'
<1> SUFFICES ASSUME ChainInvariant, [Next]_vars PROVE ChainInvariant'
  OBVIOUS
<1> USE FutureAssumption
<1>1. ASSUME NEW f \in Futures, MakePromise(f) PROVE ChainInvariant'
  BY <1>1, MakePromiseKeeps
<1>2. ASSUME NEW f \in Futures, SetValue(f) PROVE ChainInvariant'
  BY <1>2, SetValueKeeps
<1>3. ASSUME NEW f \in Futures, SetValueThrows(f) PROVE ChainInvariant'
  BY <1>3, StutterKeeps DEF SetValueThrows
<1>4. ASSUME NEW f \in Futures, Cancel(f) PROVE ChainInvariant'
  BY <1>4, CancelKeeps
<1>5. ASSUME NEW f \in Futures, Chain(f) PROVE ChainInvariant'
  <2>1. PICK k \in Kinds, p \in Params, g \in Futures :
        \E n \in IF k = "pollCount" THEN Counts ELSE {0} :
            FutureRoutine(f, [kind |-> k, param |-> p, next |-> g, count |-> n])
    BY <1>5 DEF Chain
  <2>2. PICK n \in IF k = "pollCount" THEN Counts ELSE {0} :
            FutureRoutine(f, [kind |-> k, param |-> p, next |-> g, count |-> n])
    BY <2>1
  <2>3. [kind |-> k, param |-> p, next |-> g, count |-> n] \in Continuation
    BY DEF Continuation
  <2> QED BY <2>2, <2>3, FutureRoutineKeeps
<1>6. ASSUME NEW f \in Futures, Get(f) PROVE ChainInvariant'
  BY <1>6, GetKeeps
<1>7. CASE Loop
  BY <1>7, LoopKeeps
<1>8. CASE Resume
  BY <1>8, ResumeKeeps
<1>9. CASE ResumeExhausted
  BY <1>9, ResumeExhaustedKeeps
<1>10. CASE ThenReturns
  BY <1>10, EndsKeeps DEF ThenReturns, Value
<1>11. CASE Forwards
  <2>1. running \in Futures /\ Pending(running)
    BY <1>11 DEF Forwards, Ends, ChainInvariant, TypeOK, Pending
  <2>2. value[running] \in Value \ {"default"}
    BY <2>1 DEF ChainInvariant, TypeOK, BlockInv, Block
  <2>3. PICK spent \in BOOLEAN :
            Ends /\ Settle(then[running].next, value[running], queue, running, spent)
    BY <1>11, Zenon DEF Forwards, Forward
  <2> QED BY <2>2, <2>3, EndsKeeps
<1>12. CASE CancelsNext
  BY <1>12, CancelsNextKeeps
<1>13. CASE Yields
  BY <1>13, YieldsKeeps
<1>14. CASE Terminates
  BY <1>14, StutterKeeps DEF Terminates
<1>15. CASE UNCHANGED vars
  <2>1. UNCHANGED <<blockVars, queue, turns, running, suspended, histVars>> /\ alive' = alive
    BY <1>15 DEF vars, blockVars, histVars
  <2> QED BY <2>1, StutterKeeps DEF ChainInvariant, TypeOK
<1> QED BY <1>1, <1>2, <1>3, <1>4, <1>5, <1>6, <1>7, <1>8, <1>9, <1>10, <1>11,
           <1>12, <1>13, <1>14, <1>15 DEF Next, User, Looper, Returns

\* The inductive invariant of futures, continuations and the queue of the looper.
THEOREM InvariantTheorem == Spec => []ChainInvariant
<1>1. Init => ChainInvariant
  BY InitInvariant
<1>2. ChainInvariant /\ [Next]_vars => ChainInvariant'
  BY NextKeeps
<1> QED BY <1>1, <1>2, PTL DEF Spec

-----------------------------------------------------------------------------
(* The theorems                                                            *)

\* Every variable keeps its type, and a coroutine has a continuation to call.
THEOREM TypeCorrect == Spec => []TypeOK
<1>1. ChainInvariant => TypeOK
  BY DEF ChainInvariant
<1> QED BY <1>1, InvariantTheorem, PTL

\* A continuation is started at most once, whatever user code calls when.
THEOREM RunsOnceTheorem == Spec => []RunsOnce
<1>1. ChainInvariant => RunsOnce
  BY DEF ChainInvariant, BlockInv, Started, RunsOnce
<1> QED BY <1>1, InvariantTheorem, PTL

\* A value that is there and a continuation always meet.
THEOREM NothingForgottenTheorem == Spec => []NothingForgotten
<1>1. ChainInvariant => NothingForgotten
  BY DEF ChainInvariant, BlockInv, Block, NothingForgotten
<1> QED BY <1>1, InvariantTheorem, PTL

\* No continuation gets a value that was not set.
THEOREM NeverUnsetTheorem == Spec => []NeverUnset
<1>1. ChainInvariant => NeverUnset
  BY DEF ChainInvariant, BlockInv, Block, NeverUnset
<1> QED BY <1>1, InvariantTheorem, PTL

\* Below a future that was cancelled by cancelIf, or chained to a cancelled
\* one, nothing ever runs, in chains of any length.
THEOREM CancelIfStopsTheorem == Spec => []CancelIfStops
<1>1. ChainInvariant => CancelIfStops
  <2> SUFFICES ASSUME ChainInvariant, NEW f \in Futures, NEW g \in Futures,
                      state[f] = "CANCEL", upstream[f] # {},
                      f \in upstream[g] \cup {g}
               PROVE  runs[g] = 0
    BY DEF CancelIfStops
  <2>1. Line(f) /\ Line(g) /\ runs[g] \in {0, 1}
    BY DEF ChainInvariant, LineInv, BlockInv, Started
  <2>2. runs[f] = 0
    BY <2>1 DEF Line
  <2> QED BY <2>1, <2>2 DEF Line, Reached
<1> QED BY <1>1, InvariantTheorem, PTL

\* loopOnceUnchecked() finds a coroutine in every turn of a batch of any length,
\* and gives none a second one.
THEOREM BatchFitsTheorem == Spec => []BatchFits
<1>1. ChainInvariant => BatchFits
  BY DEF ChainInvariant
<1> QED BY <1>1, InvariantTheorem, PTL

\* The continuation of a coroutine that is queued, running or suspended is never
\* replaced.
THEOREM ThenStableTheorem == Spec => ThenStable
<1>1. ASSUME ChainInvariant, [Next]_vars, NEW f \in Futures, Pending(f)
      PROVE  then'[f].next = then[f].next
  <2>1. /\ then[f] \in Continuation /\ state[f] \notin {"NEW", "READY"}
        /\ then \in [Futures -> Continuation \cup {NoThen}]
    BY <1>1 DEF ChainInvariant, TypeOK, BlockInv, Block
  <2>2. ASSUME NEW h \in Futures, Chain(h) PROVE then'[f] = then[f]
    <3>1. PICK c : FutureRoutine(h, c)
      BY <2>2 DEF Chain
    <3>2. then' = IF Registers(h) THEN [then EXCEPT ![h] = c] ELSE then
      BY <3>1 DEF FutureRoutine
    <3> QED BY <2>1, <3>2 DEF Registers
  <2>3. CASE Resume
    <3>1. then' = [then EXCEPT ![Front] = Spend(@)]
      BY <2>3 DEF Resume
    <3>2. Spend(then[f]).next = then[f].next
      BY <2>1 DEF Spend, Continuation
    <3> QED BY <2>1, <3>1, <3>2
  <2>4. ASSUME NEW h \in Futures,
               \/ MakePromise(h) \/ SetValue(h) \/ SetValueThrows(h)
               \/ Cancel(h) \/ Get(h)
        PROVE  then' = then
    BY <2>4 DEF MakePromise, SetValue, SetValueThrows, Cancel, Get, blockVars
  <2>5. CASE Loop \/ ResumeExhausted
    BY <2>5 DEF Loop, ResumeExhausted, blockVars
  <2>6. CASE Returns \/ Terminates
    BY <2>6 DEF Returns, ThenReturns, Forwards, CancelsNext, Ends, Yields,
                Terminates, blockVars
  <2>7. CASE UNCHANGED vars
    BY <2>7 DEF vars
  <2> QED BY <1>1, <2>2, <2>3, <2>4, <2>5, <2>6, <2>7 DEF Next, User, Looper
<1>2. ChainInvariant /\ [Next]_vars
          => [\A f \in Futures : Pending(f) => then'[f].next = then[f].next]_vars
  BY <1>1
<1> QED BY <1>2, InvariantTheorem, PTL DEF Spec, ThenStable
=============================================================================
