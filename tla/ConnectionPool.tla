--------------------------- MODULE ConnectionPool ---------------------------
(***************************************************************************)
(* PostgresPersistence._connect and close (persistence.py) in one API       *)
(* process: the pool is created by the first thread that needs it, with a   *)
(* check before and a check under _pool_lock, and close takes it away       *)
(* without that lock.  The process waits for its request threads before it  *)
(* closes, but for the ingestion worker only 5 seconds.                     *)
(***************************************************************************)
EXTENDS Naturals

CONSTANTS
    Requesters,  \* request threads
    worker,      \* the thread of PostgresJobQueue
    MaxPools,    \* bound: pools that are created
    None         \* Python's None

ASSUME PoolAssumption == worker \notin Requesters /\ None \notin Requesters \cup {worker} \cup Nat

VARIABLES
    process,   \* where the process is between its start and its exit
    pool,      \* _pool: the number of the pool object, or None
    created,   \* how many pools were created
    open,      \* the pools that are open
    mutex,     \* who has _pool_lock
    at         \* at[t]: where thread t is in _connect

poolVars == <<process, pool, created, open, mutex, at>>

Users == Requesters \cup {worker}

-----------------------------------------------------------------------------

PoolInit ==
    /\ process = "down"
    /\ pool = None /\ created = 0 /\ open = {}
    /\ mutex = None
    /\ at = [t \in Users |-> "idle"]

Move(t, from, to) == at[t] = from /\ at' = [at EXCEPT ![t] = to]

StartProcess ==
    /\ process = "down"
    /\ process' = "up"
    /\ UNCHANGED <<pool, created, open, mutex, at>>

\* A request, or the worker's next poll: the check without the lock.  A request
\* that was accepted before the signal still connects, and may connect again,
\* while server_close waits for it.
Connect(t) ==
    /\ process \in {"up", "closing"} \/ (t = worker /\ process \in {"closed", "forgotten"})
    /\ Move(t, "idle", IF pool = None THEN "lock" ELSE "use")
    /\ UNCHANGED <<process, pool, created, open, mutex>>

LockPool(t) ==
    /\ mutex = None /\ process # "exited"
    /\ Move(t, "lock", "create")
    /\ mutex' = t
    /\ UNCHANGED <<process, pool, created, open>>

\* Mutant: no second check under the lock.
CreatePool_Unchecked(t) ==
    /\ process # "exited" /\ created < MaxPools
    /\ Move(t, "create", "use")
    /\ mutex' = None
    /\ pool' = created + 1
    /\ created' = created + 1
    /\ open' = open \cup {created'}
    /\ UNCHANGED process

\* The check under the lock, and the pool if there is still none.
CreatePool(t) ==
    /\ process # "exited" /\ created < MaxPools
    /\ Move(t, "create", "use")
    /\ mutex' = None
    /\ IF pool # None THEN UNCHANGED <<pool, created, open>>
       ELSE /\ pool' = created + 1
            /\ created' = created + 1
            /\ open' = open \cup {created'}
    /\ UNCHANGED process

\* self._pool.connection(): reads _pool again.
Borrow(t) ==
    /\ process # "exited"
    /\ Move(t, "use", "idle")
    /\ UNCHANGED <<process, pool, created, open, mutex>>

Shutdown ==
    /\ process = "up"
    /\ process' = "closing"
    /\ UNCHANGED <<pool, created, open, mutex, at>>

\* close: server_close has waited for the requests, but the worker may be busy.
ClosePool ==
    /\ process = "closing" /\ \A t \in Requesters : at[t] = "idle"
    /\ process' = IF pool = None THEN "forgotten" ELSE "closed"
    /\ open' = open \ {pool}
    /\ UNCHANGED <<pool, created, mutex, at>>

\* self._pool = None.
ForgetPool ==
    /\ process = "closed"
    /\ process' = "forgotten"
    /\ pool' = None
    /\ UNCHANGED <<created, open, mutex, at>>

Exit ==
    /\ process = "forgotten"
    /\ process' = "exited"
    /\ UNCHANGED <<pool, created, open, mutex, at>>

UsePool(t) == Connect(t) \/ LockPool(t) \/ CreatePool(t) \/ Borrow(t)

-----------------------------------------------------------------------------
(* Properties.                                                             *)

\* The pool in use exists; the lock belongs to a thread that is creating one.
PoolTypeOK ==
    /\ pool = None \/ pool \in 1..created
    /\ open \subseteq 1..created
    /\ \A t \in Users : at[t] = "create" <=> mutex = t

\* However many threads find no pool at once, one is created, and until the
\* process closes it no other takes its place.  The pool that a request has
\* found is still there when it borrows from it.
OnePool ==
    /\ process \in {"down", "up", "closing"} => created <= 1 /\ open = {pool} \ {None}
    /\ \A t \in Requesters : at[t] = "use" => pool \in open

=============================================================================
