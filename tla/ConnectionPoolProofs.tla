------------------------ MODULE ConnectionPoolProofs ------------------------
(***************************************************************************)
(* The pool's bookkeeping is safe for every number of Contexts, every      *)
(* PREFETCH and every GC_THRESHOLD.  The invariant is stated of a pool     *)
(* value p, so that it can be carried through the two doUpdate() steps of  *)
(* emplace(), which are not states of the specification.                   *)
(***************************************************************************)
EXTENDS ConnectionPool, TLAPS

ContextTypes ==
    /\ status \in [Contexts -> Status]
    /\ lifecycle \in [Contexts -> BOOLEAN]
    /\ guards \in [Contexts -> Nat]
    /\ \A c \in Contexts : guards[c] > 0 => lifecycle[c]
    /\ \A c \in Contexts : lifecycle[c] => status[c] # "absent"

InBounds(p) ==
    /\ p.index <= p.size
    /\ p.left <= p.right + 1 /\ p.right + 1 <= p.index
    /\ p.left = 0 \/ p.left < p.index

HoldsClosed(p) ==
    \A i \in p.left .. p.right :
        p.slots[i] # NoContext => status[p.slots[i]] = "closed"

Unique(p) ==
    \A i, j \in 0 .. p.size - 1 :
        p.slots[i] = p.slots[j] /\ i # j => p.slots[i] = NoContext

Holds(p) ==
    \A c \in Contexts :
        status[c] # "absent" <=> \E i \in 0 .. p.size - 1 : p.slots[i] = c

PoolOK(p) ==
    PoolType(p) /\ InBounds(p) /\ HoldsClosed(p) /\ Unique(p) /\ Holds(p)

PoolInv == ContextTypes /\ PoolOK(pool)

-----------------------------------------------------------------------------

\* The index is in the window's slots or next to them, so every slot that
\* doUpdate() looks at exists.
LEMMA ReusableClosed ==
    ASSUME NEW p, PoolType(p), NEW i \in 0 .. p.size - 1, IsReusable(p, i)
    PROVE  p.slots[i] # NoContext => status[p.slots[i]] = "closed"
BY DEF IsReusable

\* q is p with its window moved.
Moved(q, p, l, r) ==
    /\ PoolType(q)
    /\ q.slots = p.slots /\ q.size = p.size /\ q.index = p.index
    /\ q.left = l /\ q.right = r

\* The window moves and nothing else changes.
LEMMA MoveWindowType ==
    ASSUME NEW p, PoolType(p), NEW l \in Nat, NEW r \in Int
    PROVE  Moved(MoveWindow(p, l, r), p, l, r)
<1> DEFINE S == [0 .. p.size - 1 -> Contexts \cup {NoContext}]
<1>1. p \in [slots : S, size : Nat, index : Nat, left : Nat, right : Int]
  BY DEF PoolType
<1> HIDE DEF S
<1>2. /\ MoveWindow(p, l, r)
            \in [slots : S, size : Nat, index : Nat, left : Nat, right : Int]
      /\ MoveWindow(p, l, r).slots = p.slots
      /\ MoveWindow(p, l, r).size = p.size
      /\ MoveWindow(p, l, r).index = p.index
      /\ MoveWindow(p, l, r).left = l
      /\ MoveWindow(p, l, r).right = r
  BY <1>1 DEF MoveWindow
<1> QED
  BY <1>2 DEF PoolType, S, Moved

\* The index moves, or the slots change, and nothing else does.
LEMMA IndexType ==
    ASSUME NEW p, PoolType(p), NEW i \in Nat
    PROVE  /\ PoolType([p EXCEPT !.index = i])
           /\ [p EXCEPT !.index = i].slots = p.slots
           /\ [p EXCEPT !.index = i].size = p.size
           /\ [p EXCEPT !.index = i].index = i
<1> DEFINE S == [0 .. p.size - 1 -> Contexts \cup {NoContext}]
           q == [p EXCEPT !.index = i]
<1>1. p \in [slots : S, size : Nat, index : Nat, left : Nat, right : Int]
  BY DEF PoolType
<1> HIDE DEF S
<1>2. /\ q \in [slots : S, size : Nat, index : Nat, left : Nat, right : Int]
      /\ q.slots = p.slots /\ q.size = p.size /\ q.index = i
  BY <1>1
<1> QED
  BY <1>2 DEF PoolType, S

\* Writing other slots leaves the rest of the pool.
LEMMA SlotsType ==
    ASSUME NEW p, PoolType(p),
           NEW s \in [0 .. p.size - 1 -> Contexts \cup {NoContext}]
    PROVE  /\ PoolType([p EXCEPT !.slots = s])
           /\ [p EXCEPT !.slots = s].slots = s
           /\ [p EXCEPT !.slots = s].size = p.size
           /\ [p EXCEPT !.slots = s].index = p.index
<1> DEFINE S == [0 .. p.size - 1 -> Contexts \cup {NoContext}]
           q == [p EXCEPT !.slots = s]
<1>1. /\ p \in [slots : S, size : Nat, index : Nat, left : Nat, right : Int]
      /\ s \in S
  BY DEF PoolType
<1> HIDE DEF S
<1>2. /\ q \in [slots : S, size : Nat, index : Nat, left : Nat, right : Int]
      /\ q.slots = s /\ q.size = p.size /\ q.index = p.index
  BY <1>1
<1> QED
  BY <1>2 DEF PoolType, S

\* A closed window opens on a reusable slot, or moves up, or starts again.
LEMMA SeekWindowOK ==
    ASSUME NEW p, PoolOK(p), p.index # 0, p.left > p.right
    PROVE  PoolOK(SeekWindow(p))
<1> DEFINE q == SeekWindow(p)
<1>0. PoolType(p) /\ p.left \in Nat /\ 0 \in Nat /\ p.left + 1 \in Nat /\ p.right + 1 \in Int /\ -1 \in Int
  BY DEF PoolOK, PoolType
<1>1. /\ p.size \in Nat /\ p.index \in Nat /\ p.left \in Nat /\ p.right \in Int
      /\ p.index <= p.size /\ p.right = p.left - 1 /\ p.left < p.index
  BY DEF PoolOK, PoolType, InBounds
<1>2. CASE IsReusable(p, p.left)
  <2>1. q = MoveWindow(p, p.left, p.right + 1)
    BY <1>2 DEF SeekWindow
  <2>1a. Moved(MoveWindow(p, p.left, p.right + 1), p, p.left, p.right + 1)
    BY <1>0, MoveWindowType, Zenon
  <2>2. /\ q.slots = p.slots /\ q.size = p.size /\ q.index = p.index
        /\ q.left = p.left /\ q.right = p.right + 1 /\ PoolType(q)
    BY <2>1, <2>1a DEF Moved
  <2>3. p.slots[p.left] # NoContext => status[p.slots[p.left]] = "closed"
    BY <1>1, <1>2 DEF IsReusable
  <2>4. InBounds(q) /\ HoldsClosed(q)
    BY <2>2, <2>3, <1>1 DEF InBounds, HoldsClosed
  <2> QED
    BY <2>2, <2>4 DEF PoolOK, Unique, Holds
<1>3. CASE ~IsReusable(p, p.left) /\ p.left + 1 = p.index
  <2>1. q = MoveWindow(p, 0, -1)
    BY <1>3 DEF SeekWindow, ResetWindow
  <2>1a. Moved(MoveWindow(p, 0, -1), p, 0, -1)
    BY <1>0, MoveWindowType, Zenon
  <2>2. /\ q.slots = p.slots /\ q.size = p.size /\ q.index = p.index
        /\ q.left = 0 /\ q.right = -1 /\ PoolType(q)
    BY <2>1, <2>1a DEF Moved
  <2>3. InBounds(q) /\ HoldsClosed(q)
    BY <2>2, <1>1 DEF InBounds, HoldsClosed
  <2> QED
    BY <2>2, <2>3 DEF PoolOK, Unique, Holds
<1>4. CASE ~IsReusable(p, p.left) /\ p.left + 1 # p.index
  <2>1. q = MoveWindow(p, p.left + 1, p.right + 1)
    BY <1>4 DEF SeekWindow
  <2>1a. Moved(MoveWindow(p, p.left + 1, p.right + 1), p, p.left + 1, p.right + 1)
    BY <1>0, MoveWindowType, Zenon
  <2>2. /\ q.slots = p.slots /\ q.size = p.size /\ q.index = p.index
        /\ q.left = p.left + 1 /\ q.right = p.right + 1 /\ PoolType(q)
    BY <2>1, <2>1a DEF Moved
  <2>3. InBounds(q) /\ HoldsClosed(q)
    BY <2>2, <1>1, <1>4 DEF InBounds, HoldsClosed
  <2> QED
    BY <2>2, <2>3 DEF PoolOK, Unique, Holds
<1> QED
  BY <1>2, <1>3, <1>4

\* An open window merges into the index, grows, or moves up by swapping the slot
\* above it with its lowest one: the swap loses and duplicates no Context.
LEMMA SlideWindowOK ==
    ASSUME NEW p, PoolOK(p), p.index # 0, ~(p.left > p.right)
    PROVE  PoolOK(SlideWindow(p))
<1> DEFINE q == SlideWindow(p)
<1>0. PoolType(p) /\ p.left \in Nat /\ 0 \in Nat /\ p.left + 1 \in Nat /\ p.right + 1 \in Int /\ -1 \in Int
  BY DEF PoolOK, PoolType
<1>1. /\ p.size \in Nat /\ p.index \in Nat /\ p.left \in Nat /\ p.right \in Nat
      /\ p.index <= p.size /\ p.left <= p.right /\ p.right + 1 <= p.index
  BY DEF PoolOK, PoolType, InBounds
<1>2. CASE p.right + 1 = p.index
  <2> DEFINE m == [p EXCEPT !.index = p.left]
  <2>0. /\ PoolType(m)
        /\ m.slots = p.slots /\ m.size = p.size /\ m.index = p.left
    BY <1>1, IndexType DEF PoolOK
  <2>1. q = MoveWindow(m, 0, -1)
    BY <1>2 DEF SlideWindow, ResetWindow
  <2> HIDE DEF m
  <2>1a. Moved(MoveWindow(m, 0, -1), m, 0, -1)
    BY <2>0, <1>0, MoveWindowType, Zenon
  <2>2. /\ q.slots = p.slots /\ q.size = p.size /\ q.index = p.left
        /\ q.left = 0 /\ q.right = -1 /\ PoolType(q)
    BY <2>0, <2>1, <2>1a DEF Moved
  <2>3. InBounds(q) /\ HoldsClosed(q)
    BY <2>2, <1>1 DEF InBounds, HoldsClosed
  <2> QED
    BY <2>2, <2>3 DEF PoolOK, Unique, Holds
<1>3. CASE p.right + 1 # p.index /\ IsReusable(p, p.right + 1)
  <2>1. q = MoveWindow(p, p.left, p.right + 1)
    BY <1>3 DEF SlideWindow
  <2>1a. Moved(MoveWindow(p, p.left, p.right + 1), p, p.left, p.right + 1)
    BY <1>0, MoveWindowType, Zenon
  <2>2. /\ q.slots = p.slots /\ q.size = p.size /\ q.index = p.index
        /\ q.left = p.left /\ q.right = p.right + 1 /\ PoolType(q)
    BY <2>1, <2>1a DEF Moved
  <2>3. p.slots[p.right + 1] # NoContext
           => status[p.slots[p.right + 1]] = "closed"
    BY <1>3 DEF IsReusable
  <2>4. InBounds(q)
    BY <2>2, <1>1, <1>3 DEF InBounds, PoolOK
  <2>5. HoldsClosed(q)
    BY <2>2, <2>3, <1>1 DEF HoldsClosed, PoolOK
  <2> QED
    BY <2>2, <2>4, <2>5 DEF PoolOK, Unique, Holds
<1>4. CASE p.right + 1 # p.index /\ ~IsReusable(p, p.right + 1)
  <2> DEFINE r == p.right + 1
             l == p.left
             m == [p EXCEPT !.slots = Swap(p.slots, r, l)]
  <2>1. /\ q = MoveWindow(m, p.left + 1, p.right + 1)
        /\ l \in 0 .. p.size - 1 /\ r \in 0 .. p.size - 1 /\ l < r
        /\ r < p.index
    BY <1>4, <1>1 DEF SlideWindow
  <2>2. p.slots \in [0 .. p.size - 1 -> Contexts \cup {NoContext}]
    BY DEF PoolOK, PoolType
  <2>3. /\ q.slots = Swap(p.slots, r, l)
        /\ q.size = p.size /\ q.index = p.index
        /\ q.left = p.left + 1 /\ q.right = p.right + 1
        /\ PoolType(q)
    <3>1. Swap(p.slots, r, l)
             \in [0 .. p.size - 1 -> Contexts \cup {NoContext}]
      BY <2>1, <2>2 DEF Swap
    <3>2. /\ PoolType(m) /\ m.slots = Swap(p.slots, r, l)
          /\ m.size = p.size /\ m.index = p.index
      BY <3>1, SlotsType DEF PoolOK
    <3> HIDE DEF m
    <3>3. Moved(MoveWindow(m, p.left + 1, p.right + 1),
                m, p.left + 1, p.right + 1)
      BY <3>2, <1>0, MoveWindowType, Zenon
    <3> QED
      BY <3>2, <3>3, <2>1 DEF Moved
  <2>4. /\ q.slots \in [0 .. p.size - 1 -> Contexts \cup {NoContext}]
        /\ q.slots[r] = p.slots[l] /\ q.slots[l] = p.slots[r]
        /\ \A i \in 0 .. p.size - 1 : i # l /\ i # r => q.slots[i] = p.slots[i]
    BY <2>1, <2>2, <2>3 DEF Swap
  <2> HIDE DEF q
  <2>6. InBounds(q)
    BY <2>1, <2>3, <1>1 DEF InBounds
  <2>7. HoldsClosed(q)
    <3>1. SUFFICES ASSUME NEW i \in q.left .. q.right, q.slots[i] # NoContext
                   PROVE  status[q.slots[i]] = "closed"
      BY DEF HoldsClosed
    <3>2. i \in l + 1 .. r /\ i \in 0 .. p.size - 1
      BY <2>1, <2>3, <1>1
    <3>3. CASE i = r
      BY <3>1, <3>3, <2>4, <1>1 DEF PoolOK, HoldsClosed
    <3>4. CASE i # r
      <4>1. i \in p.left .. p.right /\ i # l
        BY <3>2, <3>4, <1>1
      <4> QED
        BY <4>1, <3>1, <3>2, <3>4, <2>4 DEF PoolOK, HoldsClosed
    <3> QED
      BY <3>3, <3>4
  <2>8. Unique(q)
    <3>1. SUFFICES ASSUME NEW i \in 0 .. p.size - 1, NEW j \in 0 .. p.size - 1,
                          q.slots[i] = q.slots[j], i # j
                   PROVE  q.slots[i] = NoContext
      BY <2>3 DEF Unique
    <3> DEFINE from(k) == IF k = l THEN r ELSE IF k = r THEN l ELSE k
    <3>2. \A k \in 0 .. p.size - 1 : /\ from(k) \in 0 .. p.size - 1
                                     /\ q.slots[k] = p.slots[from(k)]
      BY <2>1, <2>4
    <3>3. from(i) # from(j)
      BY <3>1, <2>1
    <3> HIDE DEF from
    <3> QED
      BY <3>1, <3>2, <3>3 DEF PoolOK, Unique
  <2>9. Holds(q)
    <3>1. ASSUME NEW c \in Contexts
          PROVE  (\E i \in 0 .. p.size - 1 : q.slots[i] = c)
                     <=> \E i \in 0 .. p.size - 1 : p.slots[i] = c
      BY <2>1, <2>4
    <3> QED
      BY <3>1, <2>3 DEF PoolOK, Holds
  <2> QED
    BY <2>3, <2>6, <2>7, <2>8, <2>9 DEF PoolOK, q
<1> QED
  BY <1>2, <1>3, <1>4

\* What emplace() finds after its collection step.
LEMMA CollectedOK ==
    ASSUME PoolOK(pool)
    PROVE  PoolOK(Collected)
<1>1. ASSUME NEW p, PoolOK(p) PROVE PoolOK(DoUpdate(p))
  BY <1>1, SeekWindowOK, SlideWindowOK, Zenon DEF DoUpdate
<1>2. PoolOK(DoUpdate(pool))
  BY <1>1
<1>3. PoolOK(DoUpdate(DoUpdate(pool)))
  BY <1>1, <1>2
<1> QED
  BY <1>3 DEF Collected, UpdateReusableIndex

\* What is recorded of a Context keeps its type in every step.
LEMMA ContextTypesInv == ContextTypes /\ [Next]_vars => ContextTypes'
<1> SUFFICES ASSUME ContextTypes, [Next]_vars
             PROVE  ContextTypes'
  OBVIOUS
<1> USE DEF ContextTypes, Status
<1>1. ASSUME NEW c \in Contexts, EmplaceReuse(c) PROVE ContextTypes'
  <2>1. /\ guards' = guards
        /\ status' \in [Contexts -> Status] /\ lifecycle' \in [Contexts -> BOOLEAN]
    BY <1>1 DEF EmplaceReuse, MayEmplace
  <2>2. PICK d : /\ IsReusable(Collected, Collected.index)
                 /\ d = Collected.slots[Collected.index]
                 /\ lifecycle' = [x \in Contexts |-> lifecycle[x] /\ x # d]
                 /\ status' = [x \in Contexts |-> IF x = c THEN "open"
                                                  ELSE IF x = d THEN "absent"
                                                  ELSE status[x]]
    BY <1>1 DEF EmplaceReuse
  <2>3. \A x \in Contexts : guards[x] > 0 => x # d
    BY <2>2, PoolAssumption DEF IsReusable
  <2> QED
    BY <2>1, <2>2, <2>3
<1>2. ASSUME NEW c \in Contexts, EmplaceBack(c) PROVE ContextTypes'
  BY <1>2 DEF EmplaceBack, MayEmplace
<1>3. ASSUME NEW c \in Contexts, Close(c) PROVE ContextTypes'
  BY <1>3 DEF Close
<1>4. ASSUME NEW c \in Contexts, EnsureLifecycle(c) PROVE ContextTypes'
  BY <1>4 DEF EnsureLifecycle
<1>5. ASSUME NEW c \in Contexts, Guard(c) PROVE ContextTypes'
  BY <1>5 DEF Guard
<1>6. ASSUME NEW c \in Contexts, Unguard(c) PROVE ContextTypes'
  BY <1>6 DEF Unguard
<1>7. CASE UNCHANGED vars
  BY <1>7 DEF vars
<1> QED
  BY <1>1, <1>2, <1>3, <1>4, <1>5, <1>6, <1>7 DEF Next, Emplace

\* Reusing a slot keeps the bookkeeping: the Context that leaves was closed and
\* in that slot only, the new one was in none.
LEMMA EmplaceReuseOK ==
    ASSUME ContextTypes, PoolOK(pool), NEW c \in Contexts, EmplaceReuse(c)
    PROVE  PoolOK(pool)'
<1> DEFINE p == Collected
           k == p.index
           d == p.slots[k]
           q == [p EXCEPT !.slots[k] = c, !.index = k + 1]
<1>1. /\ PoolType(p) /\ InBounds(p) /\ HoldsClosed(p) /\ Unique(p) /\ Holds(p)
  BY CollectedOK DEF PoolOK
<1>2. /\ pool' = q /\ k # p.size /\ status[c] = "absent"
      /\ status' = [x \in Contexts |-> IF x = c THEN "open"
                                       ELSE IF x = d THEN "absent"
                                       ELSE status[x]]
  BY DEF EmplaceReuse, MayEmplace
<1> HIDE DEF p
<1>3. /\ p.size \in Nat /\ k \in Nat /\ p.left \in Nat /\ p.right \in Int
      /\ p.slots \in [0 .. p.size - 1 -> Contexts \cup {NoContext}]
  BY <1>1 DEF PoolType
<1>4. /\ k \in 0 .. p.size - 1 /\ p.right < k /\ p.left <= p.right + 1
      /\ p.left = 0 \/ p.left < k
  BY <1>1, <1>2, <1>3 DEF InBounds
<1>5. /\ q.slots = [p.slots EXCEPT ![k] = c] /\ q.size = p.size
      /\ q.index = k + 1 /\ q.left = p.left /\ q.right = p.right
  BY <1>1 DEF PoolType
<1>6. /\ q.slots \in [0 .. p.size - 1 -> Contexts \cup {NoContext}]
      /\ q.slots[k] = c
      /\ \A i \in 0 .. p.size - 1 : i # k => q.slots[i] = p.slots[i]
  BY <1>3, <1>4, <1>5
<1>7. PoolType(q)
  <2> DEFINE S == [0 .. p.size - 1 -> Contexts \cup {NoContext}]
  <2>1. /\ p \in [slots : S, size : Nat, index : Nat, left : Nat, right : Int]
        /\ q.slots \in S /\ k + 1 \in Nat
    BY <1>1, <1>3, <1>6 DEF PoolType
  <2> DEFINE s == [p.slots EXCEPT ![k] = c]
             n == k + 1
  <2>2. s \in S /\ n \in Nat /\ q = [p EXCEPT !.slots = s, !.index = n]
    BY <2>1, <1>5
  <2> HIDE DEF S, s, n
  <2>3. [p EXCEPT !.slots = s, !.index = n]
          \in [slots : S, size : Nat, index : Nat, left : Nat, right : Int]
    BY <2>1, <2>2
  <2>4. q \in [slots : S, size : Nat, index : Nat, left : Nat, right : Int]
    BY <2>2, <2>3
  <2> QED
    BY <2>4, <1>5 DEF PoolType, S
<1> HIDE DEF q, k
<1>8. NoContext \notin Contexts /\ c # NoContext
  BY PoolAssumption
\* c was in no slot.
<1>9. \A i \in 0 .. p.size - 1 : p.slots[i] # c
  BY <1>1, <1>2, <1>3 DEF Holds
<1>10. InBounds(q)
  BY <1>3, <1>4, <1>5 DEF InBounds
<1>11. Unique(q)
  BY <1>1, <1>4, <1>5, <1>6, <1>8, <1>9 DEF Unique
<1>12. HoldsClosed(pool)'
  <2>1. SUFFICES ASSUME NEW i \in p.left .. p.right, q.slots[i] # NoContext
                 PROVE  status'[q.slots[i]] = "closed"
    BY <1>2, <1>5 DEF HoldsClosed
  <2>2. i \in 0 .. p.size - 1 /\ i # k
    BY <1>3, <1>4
  <2>3. /\ q.slots[i] = p.slots[i] /\ p.slots[i] \in Contexts
        /\ p.slots[i] # c /\ p.slots[i] # d
    BY <2>1, <2>2, <1>1, <1>3, <1>4, <1>6, <1>9 DEF Unique
  <2>4. status[p.slots[i]] = "closed"
    BY <2>1, <2>3, <1>1 DEF HoldsClosed
  <2> QED
    BY <2>3, <2>4, <1>2
<1>13. Holds(pool)'
  <2>1. SUFFICES ASSUME NEW x \in Contexts
                 PROVE  status'[x] # "absent"
                            <=> \E i \in 0 .. p.size - 1 : q.slots[i] = x
    BY <1>2, <1>5 DEF Holds
  <2>2. CASE x = c
    BY <2>2, <1>2, <1>4, <1>6
  <2>3. CASE x = d /\ x # c
    <3>1. status'[x] = "absent"
      BY <2>3, <1>2
    <3>2. \A i \in 0 .. p.size - 1 : i # k => p.slots[i] # x
      BY <2>3, <1>1, <1>4, <1>8 DEF Unique
    <3> QED
      BY <3>1, <3>2, <2>3, <1>6
  <2>4. CASE x # d /\ x # c
    <3>1. status'[x] = status[x]
      BY <2>4, <1>2
    <3>2. status[x] # "absent" <=> \E i \in 0 .. p.size - 1 : p.slots[i] = x
      BY <1>1 DEF Holds
    <3> QED
      BY <3>1, <3>2, <2>4, <1>6
  <2> QED
    BY <2>2, <2>3, <2>4
<1>14. PoolType(pool)' /\ InBounds(pool)' /\ Unique(pool)'
  BY <1>2, <1>7, <1>10, <1>11 DEF PoolType, InBounds, Unique
<1> QED
  BY <1>12, <1>13, <1>14 DEF PoolOK

\* Growing the vector keeps the bookkeeping.
LEMMA EmplaceBackOK ==
    ASSUME ContextTypes, PoolOK(pool), NEW c \in Contexts, EmplaceBack(c)
    PROVE  PoolOK(pool)'
<1> DEFINE p == Collected
           s == [i \in 0 .. p.size |-> IF i = p.size THEN c ELSE p.slots[i]]
           n == p.size + 1
           q == [p EXCEPT !.slots = s, !.size = n]
<1>1. /\ PoolType(p) /\ InBounds(p) /\ HoldsClosed(p) /\ Unique(p) /\ Holds(p)
  BY CollectedOK DEF PoolOK
<1>2. /\ pool' = q /\ status[c] = "absent"
      /\ status' = [status EXCEPT ![c] = "open"]
  BY DEF EmplaceBack, MayEmplace
<1> HIDE DEF p
<1>3. /\ p.size \in Nat /\ p.index \in Nat /\ p.left \in Nat /\ p.right \in Int
      /\ p.slots \in [0 .. p.size - 1 -> Contexts \cup {NoContext}]
      /\ p.index <= p.size /\ p.right < p.index
  BY <1>1 DEF PoolType, InBounds
<1>4. /\ s \in [0 .. n - 1 -> Contexts \cup {NoContext}] /\ n \in Nat
      /\ s[p.size] = c
      /\ \A i \in 0 .. p.size - 1 : s[i] = p.slots[i]
      /\ \A i \in 0 .. n - 1 : i = p.size \/ i \in 0 .. p.size - 1
  BY <1>3
<1>5. /\ q.slots = s /\ q.size = n
      /\ q.index = p.index /\ q.left = p.left /\ q.right = p.right
  BY <1>1 DEF PoolType
<1>6. PoolType(q)
  <2> DEFINE S == [0 .. p.size - 1 -> Contexts \cup {NoContext}]
             R == [0 .. n - 1 -> Contexts \cup {NoContext}]
  <2>1. p \in [slots : S, size : Nat, index : Nat, left : Nat, right : Int]
    BY <1>1 DEF PoolType
  <2>2. s \in R /\ n \in Nat
    BY <1>4
  <2> HIDE DEF S, R, s, n
  <2>3. q \in [slots : R, size : Nat, index : Nat, left : Nat, right : Int]
    BY <2>1, <2>2
  <2> QED
    BY <2>3, <1>5 DEF PoolType, R
<1> HIDE DEF q, s
<1>7. NoContext \notin Contexts /\ c # NoContext
  BY PoolAssumption
<1>8. \A i \in 0 .. p.size - 1 : p.slots[i] # c
  BY <1>1, <1>2, <1>3 DEF Holds
<1>9. InBounds(q)
  BY <1>1, <1>3, <1>5 DEF InBounds
<1>10. Unique(q)
  BY <1>1, <1>4, <1>5, <1>7, <1>8 DEF Unique
<1>11. HoldsClosed(pool)'
  <2>1. SUFFICES ASSUME NEW i \in p.left .. p.right, s[i] # NoContext
                 PROVE  status'[s[i]] = "closed"
    BY <1>2, <1>5 DEF HoldsClosed
  <2>2. i \in 0 .. p.size - 1
    BY <1>3
  <2>3. s[i] = p.slots[i] /\ p.slots[i] \in Contexts /\ p.slots[i] # c
    BY <2>1, <2>2, <1>3, <1>4, <1>8
  <2> QED
    BY <2>1, <2>3, <1>1, <1>2 DEF HoldsClosed, ContextTypes
<1>12. Holds(pool)'
  <2>1. SUFFICES ASSUME NEW x \in Contexts
                 PROVE  status'[x] # "absent" <=> \E i \in 0 .. n - 1 : s[i] = x
    BY <1>2, <1>5 DEF Holds
  <2>2. status[x] # "absent" <=> \E i \in 0 .. p.size - 1 : p.slots[i] = x
    BY <1>1 DEF Holds
  <2>3. /\ p.size \in 0 .. n - 1 
        /\ \A i \in 0 .. p.size - 1 : i \in 0 .. n - 1
    BY <1>3
  <2>4. CASE x = c
    BY <2>3, <2>4, <1>2, <1>4 DEF ContextTypes
  <2>5. CASE x # c
    BY <2>2, <2>3, <2>5, <1>2, <1>4 DEF ContextTypes
  <2> QED
    BY <2>4, <2>5
<1>13. PoolType(pool)' /\ InBounds(pool)' /\ Unique(pool)'
  BY <1>2, <1>6, <1>9, <1>10 DEF PoolType, InBounds, Unique
<1> QED
  BY <1>11, <1>12, <1>13 DEF PoolOK

\* The inductive invariant of the pool: types, the window, and what the slots hold.
LEMMA PoolInvariant == Spec => []PoolInv
<1>1. Init => PoolInv
  <2> SUFFICES ASSUME Init PROVE PoolInv
    OBVIOUS
  <2>1. ContextTypes
    BY DEF Init, SInit, ContextTypes, Status
  <2> DEFINE p == [slots |-> [i \in 0 .. Prefetch - 1 |-> NoContext],
                   size |-> Prefetch, index |-> 0, left |-> 0, right |-> -1]
  <2>2. pool = p /\ Prefetch \in Nat /\ NoContext \notin Contexts
    BY PoolAssumption DEF Init
  <2>3. PoolType(p) /\ InBounds(p) /\ HoldsClosed(p) /\ Unique(p)
    BY <2>2 DEF PoolType, InBounds, HoldsClosed, Unique
  <2>4. Holds(p)
    BY <2>2 DEF Holds, Init, SInit
  <2> QED
    BY <2>1, <2>2, <2>3, <2>4 DEF PoolInv, PoolOK
<1>2. PoolInv /\ [Next]_vars => PoolInv'
  <2> SUFFICES ASSUME PoolInv, [Next]_vars PROVE PoolInv'
    OBVIOUS
  <2>1. ContextTypes /\ PoolOK(pool) /\ ContextTypes'
    BY ContextTypesInv DEF PoolInv
  <2>2. ASSUME NEW c \in Contexts, EmplaceReuse(c) PROVE PoolOK(pool)'
    BY <2>1, <2>2, EmplaceReuseOK
  <2>3. ASSUME NEW c \in Contexts, EmplaceBack(c) PROVE PoolOK(pool)'
    BY <2>1, <2>3, EmplaceBackOK
  \* Closing changes only an open Context, the others change no status.
  <2>4. ASSUME pool' = pool,
               \A x \in Contexts :
                   /\ status[x] = "absent" <=> status'[x] = "absent"
                   /\ status[x] = "closed" => status'[x] = "closed"
        PROVE  PoolOK(pool)'
    <3>1. PoolType(pool)' /\ InBounds(pool)' /\ Unique(pool)'
      BY <2>1, <2>4 DEF PoolOK, PoolType, InBounds, Unique
    <3>2. Holds(pool)'
      BY <2>1, <2>4 DEF PoolOK, Holds
    <3>3. HoldsClosed(pool)'
      <4>1. \A i \in pool.left .. pool.right : i \in 0 .. pool.size - 1
        BY <2>1 DEF PoolOK, PoolType, InBounds
      <4>2. \A i \in pool.left .. pool.right :
               pool.slots[i] # NoContext => pool.slots[i] \in Contexts
        BY <2>1, <4>1 DEF PoolOK, PoolType
      <4> QED
        BY <2>1, <2>4, <4>2 DEF PoolOK, HoldsClosed
    <3> QED
      BY <3>1, <3>2, <3>3 DEF PoolOK
  <2>5. ASSUME NEW c \in Contexts, Close(c), UNCHANGED pool
        PROVE  PoolOK(pool)'
    BY <2>1, <2>4, <2>5 DEF Close, ContextTypes
  <2>6. ASSUME NEW c \in Contexts, UNCHANGED pool,
               EnsureLifecycle(c) \/ Guard(c) \/ Unguard(c)
        PROVE  PoolOK(pool)'
    BY <2>4, <2>6 DEF EnsureLifecycle, Guard, Unguard
  <2>7. ASSUME UNCHANGED vars PROVE PoolOK(pool)'
    BY <2>4, <2>7 DEF vars
  <2> QED
    BY <2>1, <2>2, <2>3, <2>5, <2>6, <2>7 DEF Next, Emplace, PoolInv
<1> QED
  BY <1>1, <1>2, PTL DEF Spec
-----------------------------------------------------------------------------

\* TypeOK, for every number of Contexts and every PREFETCH and GC_THRESHOLD.
THEOREM TypeCorrect == Spec => []TypeOK
BY PoolInvariant, PTL DEF PoolInv, PoolOK, ContextTypes, TypeOK

\* WindowInBounds: doUpdate() and emplace() never index past the vector.
THEOREM WindowInBoundsTheorem == Spec => []WindowInBounds
<1>1. PoolInv => WindowInBounds
  BY DEF PoolInv, PoolOK, InBounds, WindowInBounds
<1> QED
  BY <1>1, PoolInvariant, PTL

\* WindowHoldsClosed: the index never drops over a slot in use.
THEOREM WindowHoldsClosedTheorem == Spec => []WindowHoldsClosed
<1>1. PoolInv => WindowHoldsClosed
  BY DEF PoolInv, PoolOK, HoldsClosed, WindowHoldsClosed
<1> QED
  BY <1>1, PoolInvariant, PTL

\* WindowSafe: what the window merges into the index is inside and closed.
THEOREM WindowSafeTheorem == Spec => []WindowSafe
BY WindowInBoundsTheorem, WindowHoldsClosedTheorem, PTL DEF WindowSafe

\* SlotsHoldContexts: swaps, reuse and growth neither lose a Context nor keep
\* two pointers to it.
THEOREM SlotsHoldContextsTheorem == Spec => []SlotsHoldContexts
<1>1. PoolInv => SlotsHoldContexts
  BY DEF PoolInv, PoolOK, Holds, Unique, SlotsHoldContexts
<1> QED
  BY <1>1, PoolInvariant, PTL

\* The Context that a reused slot gives up is one that nobody uses.
LEMMA ReuseDestroysAbandoned ==
    ASSUME ContextTypes, PoolOK(pool), NEW c \in Contexts, EmplaceReuse(c)
    PROVE  LET d == Collected.slots[Collected.index]
           IN  d = NoContext \/ (d \in Contexts /\ Abandoned(d))
<1> DEFINE p == Collected
<1>1. PoolType(p) /\ InBounds(p)
  BY CollectedOK DEF PoolOK
<1>2. p.index # p.size /\ IsReusable(p, p.index)
  BY DEF EmplaceReuse
<1> HIDE DEF p
<1>3. p.slots[p.index] \in Contexts \cup {NoContext}
  BY <1>1, <1>2 DEF PoolType, InBounds
<1> QED
  BY <1>2, <1>3 DEF IsReusable, Abandoned, ContextTypes, p

\* NeverDestroysInUse: a Context that is connected, or closed but strongly
\* guarded by user code, survives every emplace().
THEOREM NeverDestroysInUseTheorem == Spec => NeverDestroysInUse
<1> DEFINE Kept == \A c \in Contexts : InUse(c) => status'[c] # "absent"
<1>1. PoolInv /\ [Next]_vars => [Kept]_vars
  <2> SUFFICES ASSUME PoolInv, Next, NEW x \in Contexts, InUse(x)
               PROVE  status'[x] # "absent"
    BY DEF vars
  <2>1. ContextTypes /\ PoolOK(pool) /\ status[x] # "absent"
    BY DEF PoolInv, ContextTypes, InUse
  <2>2. ASSUME NEW c \in Contexts, EmplaceReuse(c) PROVE status'[x] # "absent"
    <3> DEFINE d == Collected.slots[Collected.index]
    <3>1. d # x
      BY <2>1, <2>2, ReuseDestroysAbandoned, PoolAssumption
         DEF Abandoned, InUse, ContextTypes
    <3>2. status' = [y \in Contexts |-> IF y = c THEN "open"
                                       ELSE IF y = d THEN "absent"
                                       ELSE status[y]]
      BY <2>2 DEF EmplaceReuse
    <3> HIDE DEF d
    <3> QED
      BY <2>1, <3>1, <3>2
  <2>3. ASSUME NEW c \in Contexts, EmplaceBack(c) PROVE status'[x] # "absent"
    BY <2>1, <2>3 DEF EmplaceBack, ContextTypes
  <2>4. ASSUME NEW c \in Contexts, SUse(c) PROVE status'[x] # "absent"
    BY <2>1, <2>4
       DEF SUse, Close, EnsureLifecycle, Guard, Unguard, ContextTypes
  <2> QED
    BY <2>2, <2>3, <2>4 DEF Next, Emplace, SUse
<1> QED
  BY <1>1, PoolInvariant, PTL DEF Spec, NeverDestroysInUse

\* The pool implements ContextStore: every emplace() of the pool is one of the
\* store, whichever slot it takes and however the window moved.
THEOREM StoreRefinedTheorem == Spec => StoreRefined
<1>1. Init => Store!SInit
  BY DEF Init, SInit, Store!SInit
<1>2. PoolInv /\ [Next]_vars => [Store!SNext]_(Store!svars)
  <2> SUFFICES ASSUME PoolInv, [Next]_vars PROVE [Store!SNext]_(Store!svars)
    OBVIOUS
  <2>1. ContextTypes /\ PoolOK(pool) /\ ContextTypes'
    BY ContextTypesInv DEF PoolInv
  <2>2. ASSUME NEW c \in Contexts, EmplaceReuse(c) PROVE Store!SEmplace(c)
    <3> DEFINE d == Collected.slots[Collected.index]
    <3>1. d = NoContext \/ (d \in Contexts /\ Abandoned(d))
      BY <2>1, <2>2, ReuseDestroysAbandoned
    <3>2. /\ status[c] = "absent" /\ guards' = guards
          /\ status' = [x \in Contexts |-> IF x = c THEN "open"
                                           ELSE IF x = d THEN "absent"
                                           ELSE status[x]]
          /\ lifecycle' = [x \in Contexts |-> lifecycle[x] /\ x # d]
      BY <2>2 DEF EmplaceReuse, MayEmplace
    <3> HIDE DEF d
    <3>3. d # c /\ NoContext \notin Contexts
      BY <3>1, <3>2, PoolAssumption DEF Abandoned
    <3>4. \/ status' = [status EXCEPT ![c] = "open"]
          \/ /\ d \in Contexts /\ Store!Abandoned(d)
             /\ status' = [status EXCEPT ![c] = "open", ![d] = "absent"]
      <4>1. CASE d = NoContext
        <5>1. \A x \in Contexts : x # d
          BY <4>1, <3>3
        <5>2. status' = [x \in Contexts |-> IF x = c THEN "open" ELSE status[x]]
          BY <5>1, <3>2
        <5> QED
          BY <5>2, <2>1 DEF ContextTypes
      <4>2. CASE d # NoContext
        BY <4>2, <3>1, <3>2, <3>3, <2>1
           DEF ContextTypes, Abandoned, Store!Abandoned
      <4> QED
        BY <4>1, <4>2
    <3>5. \A x \in Contexts :
             (lifecycle[x] /\ x # d) <=> (lifecycle[x] /\ status'[x] # "absent")
      BY <3>2, <2>1 DEF ContextTypes
    <3>6. lifecycle' = [x \in Contexts |->
                           lifecycle[x] /\ status'[x] # "absent"]
      BY <3>2, <3>5, Zenon
    <3> QED
      BY <3>2, <3>4, <3>6 DEF Store!SEmplace
  <2>3. ASSUME NEW c \in Contexts, EmplaceBack(c) PROVE Store!SEmplace(c)
    <3>1. /\ status[c] = "absent" /\ UNCHANGED <<lifecycle, guards>>
          /\ status' = [status EXCEPT ![c] = "open"]
      BY <2>3 DEF EmplaceBack, MayEmplace
    <3>2. \A x \in Contexts :
             lifecycle[x] = (lifecycle[x] /\ status'[x] # "absent")
      BY <3>1, <2>1 DEF ContextTypes
    <3>3. lifecycle' = [x \in Contexts |-> lifecycle[x]]
      BY <3>1, <2>1 DEF ContextTypes
    <3>4. lifecycle' = [x \in Contexts |->
                           lifecycle[x] /\ status'[x] # "absent"]
      BY <3>2, <3>3, Zenon
    <3> QED
      BY <3>1, <3>4 DEF Store!SEmplace
  <2>4. ASSUME NEW c \in Contexts, SUse(c) PROVE Store!SUse(c)
    BY <2>4 DEF SUse, Close, EnsureLifecycle, Guard, Unguard, Store!SUse,
                Store!Close, Store!EnsureLifecycle, Store!Guard, Store!Unguard
  <2>5. CASE UNCHANGED vars
    BY <2>5 DEF vars, Store!svars
  <2> QED
    BY <2>2, <2>3, <2>4, <2>5 DEF Next, Emplace, SUse, Store!SNext
<1> QED
  BY <1>1, <1>2, PoolInvariant, PTL DEF Spec, StoreRefined, Store!StoreSpec
=============================================================================
