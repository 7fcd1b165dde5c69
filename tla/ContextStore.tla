---------------------------- MODULE ContextStore ----------------------------
(***************************************************************************)
(* What Server and Client need of their connection pool: a Context lives   *)
(* at its address from emplace() until the pool destroys it, and the pool  *)
(* destroys only a Context that is DISCONNECTED and that no StrongLifecycle *)
(* guards, and at most one per emplace().  Nothing is said of where the    *)
(* Contexts are kept or when a slot is reused.                             *)
(***************************************************************************)
EXTENDS Integers

CONSTANTS Contexts, MaxGuards

VARIABLES status, lifecycle, guards

svars == <<status, lifecycle, guards>>

Status == {"absent", "open", "closed"}

\* No one may still use c.
Abandoned(c) == status[c] = "closed" /\ guards[c] = 0

SInit ==
    /\ status = [c \in Contexts |-> "absent"]
    /\ lifecycle = [c \in Contexts |-> FALSE]
    /\ guards = [c \in Contexts |-> 0]

SEmplace(c) ==
    /\ status[c] = "absent"
    /\ \/ status' = [status EXCEPT ![c] = "open"]
       \/ \E d \in Contexts :
             /\ Abandoned(d)
             /\ status' = [status EXCEPT ![c] = "open", ![d] = "absent"]
    /\ lifecycle' = [x \in Contexts |->
                        lifecycle[x] /\ status'[x] # "absent"]
    /\ UNCHANGED guards

\* handleClose leaves the Context DISCONNECTED.
Close(c) ==
    /\ status[c] = "open"
    /\ status' = [status EXCEPT ![c] = "closed"]
    /\ UNCHANGED <<lifecycle, guards>>

\* ensureLifecycle().
EnsureLifecycle(c) ==
    /\ status[c] # "absent" /\ ~lifecycle[c]
    /\ lifecycle' = [lifecycle EXCEPT ![c] = TRUE]
    /\ UNCHANGED <<status, guards>>

\* User code copies the StrongLifecycle (makeStrongFuture, getLifecycle), also
\* of a closed Context, by locking a WeakLifecycle ...
Guard(c) ==
    /\ status[c] # "absent" /\ lifecycle[c] /\ guards[c] < MaxGuards
    /\ guards' = [guards EXCEPT ![c] = @ + 1]
    /\ UNCHANGED <<status, lifecycle>>

\* ... and drops a copy.
Unguard(c) ==
    /\ guards[c] > 0
    /\ guards' = [guards EXCEPT ![c] = @ - 1]
    /\ UNCHANGED <<status, lifecycle>>

SUse(c) == Close(c) \/ EnsureLifecycle(c) \/ Guard(c) \/ Unguard(c)

SNext == \E c \in Contexts : SEmplace(c) \/ SUse(c)

StoreSpec == SInit /\ [][SNext]_svars
=============================================================================
