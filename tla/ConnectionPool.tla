--------------------------- MODULE ConnectionPool ---------------------------
(***************************************************************************)
(* Pool (network/Pool.h) over WeakReference (utils/WeakReference.h): a     *)
(* vector of slots that is never shrunk and never swept.  Each emplace()   *)
(* runs two steps of a sliding window over the slots below _reusableIndex; *)
(* when the window reaches the index, the index drops to its left end.     *)
(* The slot at the index is reused if it is reusable, else the vector      *)
(* grows.                                                                  *)
(*                                                                         *)
(* pool is the object: slots is _container (0-based, size entries), index  *)
(* is _reusableIndex, left and right are _window.  The pool is used by the *)
(* loop thread only, so emplace() is one step.                             *)
(***************************************************************************)
EXTENDS ContextStore, FiniteSets

CONSTANTS
    Prefetch,        \* PREFETCH, 16 in the code
    GcThreshold,     \* GC_THRESHOLD, 16 in the code
    MaxInUse,        \* bound: Contexts open or guarded at the same time
    NoContext        \* a null unique_ptr

ASSUME PoolAssumption ==
    /\ Prefetch \in Nat
    /\ GcThreshold \in Nat
    /\ MaxGuards \in Nat
    /\ MaxInUse \in Nat
    /\ NoContext \notin Contexts

VARIABLE pool

vars == <<status, lifecycle, guards, pool>>

\* Mutant of IsReusable: the copies user code holds are forgotten.
IsReusableGuarded(p, i) ==
    p.slots[i] # NoContext => status[p.slots[i]] = "closed"

\* Mutant of IsReusable: the connection's state is forgotten.
IsReusableConnected(p, i) ==
    p.slots[i] # NoContext => guards[p.slots[i]] = 0

\* Pool::isReusable(index): lifecycle disabled, or only the pool's own copy.
IsReusable(p, i) ==
    p.slots[i] # NoContext =>
        /\ status[p.slots[i]] = "closed"
        /\ lifecycle[p.slots[i]] => guards[p.slots[i]] = 0

\* Mutants of Swap: nothing moves; a pointer is copied over another.
SwapNothing(slots, i, j) == slots
SwapCopies(slots, i, j) == [slots EXCEPT ![i] = slots[j]]

Swap(slots, i, j) == [slots EXCEPT ![i] = slots[j], ![j] = slots[i]]

MoveWindow(p, l, r) == [p EXCEPT !.left = l, !.right = r]

ResetWindow(p) == MoveWindow(p, 0, -1)

\* WeakReference::doUpdate, on a closed window ...
SeekWindow(p) ==
    IF IsReusable(p, p.left)
    THEN MoveWindow(p, p.left, p.right + 1)
    ELSE IF p.left + 1 = p.index
         THEN ResetWindow(p)
         ELSE MoveWindow(p, p.left + 1, p.right + 1)

\* ... and on an open one: merge it into the index, extend it, or move it up.
SlideWindow(p) ==
    IF p.right + 1 = p.index
    THEN ResetWindow([p EXCEPT !.index = p.left])
    ELSE IF IsReusable(p, p.right + 1)
         THEN MoveWindow(p, p.left, p.right + 1)
         ELSE MoveWindow([p EXCEPT !.slots = Swap(@, p.right + 1, p.left)],
                         p.left + 1, p.right + 1)

DoUpdate(p) ==
    IF p.index = 0 THEN p
    ELSE IF p.left > p.right THEN SeekWindow(p) ELSE SlideWindow(p)

\* updateReusableIndex(): step = 2.
UpdateReusableIndex(p) == DoUpdate(DoUpdate(p))

\* The pool after the collection step of emplace().
Collected == IF pool.size > GcThreshold THEN UpdateReusableIndex(pool) ELSE pool

Init ==
    /\ SInit
    /\ pool = [slots |-> [i \in 0 .. Prefetch - 1 |-> NoContext],
               size |-> Prefetch, index |-> 0, left |-> 0, right |-> -1]

InUse(c) == status[c] = "open" \/ guards[c] > 0

\* A new Context, while fewer than the bound MaxInUse are in use.
MayEmplace(c) ==
    /\ status[c] = "absent"
    /\ Cardinality({x \in Contexts : InUse(x)}) < MaxInUse

\* The slot at _reusableIndex is reused; what it held is destroyed.
EmplaceReuse(c) ==
    /\ MayEmplace(c)
    /\ LET p == Collected
           d == p.slots[p.index]
       IN  /\ p.index # p.size
           /\ IsReusable(p, p.index)
           /\ pool' = [p EXCEPT !.slots[p.index] = c, !.index = @ + 1]
           /\ status' = [x \in Contexts |-> IF x = c THEN "open"
                                            ELSE IF x = d THEN "absent"
                                            ELSE status[x]]
           /\ lifecycle' = [x \in Contexts |-> lifecycle[x] /\ x # d]
    /\ UNCHANGED guards

\* emplace_back.
EmplaceBack(c) ==
    /\ MayEmplace(c)
    /\ LET p == Collected
       IN  /\ ~(p.index # p.size /\ IsReusable(p, p.index))
           /\ pool' = [p EXCEPT
                         !.slots = [i \in 0 .. p.size |->
                                       IF i = p.size THEN c ELSE p.slots[i]],
                         !.size = @ + 1]
    /\ status' = [status EXCEPT ![c] = "open"]
    /\ UNCHANGED <<lifecycle, guards>>

Emplace(c) == EmplaceReuse(c) \/ EmplaceBack(c)

Next ==
    \E c \in Contexts :
        \/ Emplace(c)
        \/ Close(c) /\ UNCHANGED pool
        \/ EnsureLifecycle(c) /\ UNCHANGED pool
        \/ Guard(c) /\ UNCHANGED pool
        \/ Unguard(c) /\ UNCHANGED pool

Spec == Init /\ [][Next]_vars

-----------------------------------------------------------------------------
(* Properties                                                              *)

PoolType(p) ==
    p \in [slots : [0 .. p.size - 1 -> Contexts \cup {NoContext}],
           size : Nat, index : Nat, left : Nat, right : Int]

\* Every variable keeps its type; only an enabled lifecycle can be guarded.
TypeOK ==
    /\ status \in [Contexts -> Status]
    /\ lifecycle \in [Contexts -> BOOLEAN]
    /\ guards \in [Contexts -> Nat]
    /\ \A c \in Contexts : guards[c] > 0 => lifecycle[c]
    /\ PoolType(pool)

\* Every access of doUpdate and emplace() to _container is inside the vector:
\* the window stays below _reusableIndex, which stays within size.
WindowInBounds ==
    /\ pool.index <= pool.size
    /\ pool.left <= pool.right + 1 /\ pool.right + 1 <= pool.index
    /\ pool.left = 0 \/ pool.left < pool.index

\* What the window will merge into _reusableIndex holds no open Context, although
\* Contexts were swapped, closed and guarded since the window opened.
WindowHoldsClosed ==
    \A i \in pool.left .. pool.right :
        pool.slots[i] # NoContext => status[pool.slots[i]] = "closed"

\* The window is safe to merge: the two above.
WindowSafe == WindowInBounds /\ WindowHoldsClosed

\* The Contexts that exist are exactly those of the slots, each in one slot:
\* swaps, reuse and growth lose none, so the pointers in epoll stay valid.
SlotsHoldContexts ==
    /\ \A c \in Contexts :
          status[c] # "absent" <=> \E i \in 0 .. pool.size - 1 : pool.slots[i] = c
    /\ \A i, j \in 0 .. pool.size - 1 :
          pool.slots[i] = pool.slots[j] /\ i # j => pool.slots[i] = NoContext

\* emplace() never destroys a Context that is connected or strongly guarded.
NeverDestroysInUse ==
    [][\A c \in Contexts : InUse(c) => status'[c] # "absent"]_vars

\* The pool implements the store its users rely on.
Store == INSTANCE ContextStore
    WITH Contexts <- Contexts, MaxGuards <- MaxGuards,
         status <- status, lifecycle <- lifecycle, guards <- guards
StoreRefined == Store!StoreSpec
=============================================================================
