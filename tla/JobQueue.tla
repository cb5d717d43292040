----------------------------- MODULE JobQueue -----------------------------
(***************************************************************************)
(* The durable ingestion queue: workers.PostgresJobQueue and the SQL        *)
(* function claim_ingestion_job() of migrations/004_document_lifecycle.sql. *)
(*                                                                          *)
(* Every replica of the API runs one worker thread that polls the table     *)
(* ingestion_jobs, claims a job in a transaction of its own, runs the       *)
(* handler with no transaction open, and writes the outcome in a second     *)
(* transaction.  In between, the process may crash, a transaction may fail  *)
(* and time passes: a job whose claim is older than Lease is claimable      *)
(* again, whether its worker is dead or only slow.                          *)
(*                                                                          *)
(* A row keeps the columns that steer the queue.  Of the payload only one   *)
(* thing matters, whether it still holds the uploaded bytes: the handler    *)
(* reads job["content_base64"] before anything else and fails with a        *)
(* KeyError, an "other" error, once they have been dropped.                 *)
(***************************************************************************)
EXTENDS Naturals, FiniteSets

CONSTANTS
    Jobs,         \* the ids of the jobs that may be submitted
    Workers,      \* the worker threads, one for each replica
    MaxAttempts,  \* max_attempts, 3 in the table definition
    Lease,        \* the time after which a running job is claimable again
    MaxFaults,    \* bound: how many crashes, stops and database errors happen
    Timely,       \* TRUE: no worker is still busy when its lease expires
    NULL          \* SQL NULL, and "this worker holds no job"

ASSUME QueueAssumption == /\ MaxAttempts \in Nat \ {0}
                          /\ Lease \in Nat
                          /\ MaxFaults \in Nat
                          /\ Timely \in BOOLEAN
                          /\ NULL \notin Nat

\* The delay before a retry in seconds: 2.0**attempts.
RetryDelay == [a \in 1..MaxAttempts |-> 2^a]

ASSUME RetryDelayAssumption == RetryDelay \in [1..MaxAttempts -> Nat]

VARIABLES
    now,       \* the database's clock
    job,       \* job[j]: the row of job j
    pc,        \* pc[w]: where worker w is in _run / run_once
    held,      \* held[w]: the claim worker w works on
    stopping,  \* stopping[w]: the _stopping event
    faults     \* how many faults have happened

vars == <<now, job, pc, held, stopping, faults>>

Terminal == {"completed", "failed"}
Status   == {"absent", "queued", "running"} \cup Terminal
Outcome  == {"ok", "input_error", "error"}

Row == [status : Status, attempts : Nat, run_after : Nat, created_at : Nat,
        locked_at : Nat \cup {NULL}, content : {"present", "removed"}]

\* What run_once keeps in local variables; at is now() of the claim's transaction.
Claim == [job : Jobs, attempts : Nat \ {0}, content : {"present", "removed"}, at : Nat,
          outcome : Outcome \cup {NULL}]

\* A worker that has claimed a job and not yet finished with it.
Busy(w) == pc[w] \in {"handle", "finish"}

-----------------------------------------------------------------------------
(* The claim, as the SQL of claim_ingestion_job() states it.               *)

\* Mutant: the lease is over one tick early.
LeaseExpired_Early(r) == r.locked_at # NULL /\ r.locked_at + Lease <= now

\* locked_at < now() - interval '10 minutes': never true of NULL.
LeaseExpired(r) == r.locked_at # NULL /\ r.locked_at + Lease < now

\* Mutant: the status of a row that is not running is not looked at.
Runnable_AnyStatus(r) == \/ r.status \notin {"absent", "running"} /\ r.run_after <= now
                         \/ r.status = "running" /\ LeaseExpired(r)

\* Mutant: a job left running by a crashed worker is not reclaimed.
Runnable_NoReclaim(r) == r.status = "queued" /\ r.run_after <= now

\* The WHERE clause of the inner SELECT.
Runnable(r) == \/ r.status = "queued" /\ r.run_after <= now
               \/ r.status = "running" /\ LeaseExpired(r)

\* Mutant: the claim does not lock the row it selects.
LockedRows_None == {}

\* Rows another worker's claim has locked and not yet committed.
LockedRows == {held[w].job : w \in {v \in Workers : pc[v] = "locked"}}

\* Mutant: the claim does not skip the rows that are locked.
Candidates_NoSkip == {j \in Jobs : Runnable(job[j])}

\* FOR UPDATE SKIP LOCKED.
Candidates == {j \in Jobs : Runnable(job[j]) /\ j \notin LockedRows}

\* ORDER BY run_after, created_at.
NotAfter(r, s) == \/ r.run_after < s.run_after
                  \/ r.run_after = s.run_after /\ r.created_at <= s.created_at

Oldest(S) == {j \in S : \A k \in S : NotAfter(job[j], job[k])}

\* The UPDATE of the claim.
Claimed(r, at) ==
    [status |-> "running", attempts |-> r.attempts + 1, locked_at |-> at,
     run_after |-> r.run_after, created_at |-> r.created_at, content |-> r.content]

\* Mutant: the bytes are dropped whatever the new status is.
Finished_DropAlways(r, status, delay) ==
    [status |-> status, attempts |-> r.attempts, locked_at |-> NULL,
     run_after |-> now + delay, created_at |-> r.created_at, content |-> "removed"]

\* The UPDATE of _finish: it names the row by id alone.
Finished(r, status, delay) ==
    [status |-> status, attempts |-> r.attempts, locked_at |-> NULL,
     run_after |-> now + delay, created_at |-> r.created_at,
     content |-> IF status \in Terminal THEN "removed" ELSE r.content]

-----------------------------------------------------------------------------

Init == /\ now = 0
        /\ job = [j \in Jobs |-> [status |-> "absent", attempts |-> 0,
                                  run_after |-> 0, created_at |-> 0,
                                  locked_at |-> NULL, content |-> "removed"]]
        /\ pc = [w \in Workers |-> "loop"]
        /\ held = [w \in Workers |-> NULL]
        /\ stopping = [w \in Workers |-> FALSE]
        /\ faults = 0

\* submit: an INSERT with the table's defaults.
Submit(j) ==
    /\ job[j].status = "absent"
    /\ job' = [job EXCEPT ![j] = [status |-> "queued", attempts |-> 0,
                                  run_after |-> now, created_at |-> now,
                                  locked_at |-> NULL, content |-> "present"]]
    /\ UNCHANGED <<now, pc, held, stopping, faults>>

\* The head of _run's loop.  The event is read here and not again until the
\* job that run_once may claim next has been dealt with.
Loop(w) ==
    /\ pc[w] = "loop"
    /\ pc' = [pc EXCEPT ![w] = IF stopping[w] THEN "exited" ELSE "claim"]
    /\ UNCHANGED <<now, job, held, stopping, faults>>

\* claim_ingestion_job() finds no row: run_once returns FALSE and _run waits.
ClaimNone(w) ==
    /\ pc[w] = "claim"
    /\ Candidates = {}
    /\ pc' = [pc EXCEPT ![w] = "loop"]
    /\ UNCHANGED <<now, job, held, stopping, faults>>

\* The inner SELECT picks the oldest row that is not locked, and locks it.
ClaimLock(w) ==
    /\ pc[w] = "claim"
    /\ \E j \in Oldest(Candidates) :
           held' = [held EXCEPT ![w] = [job |-> j, attempts |-> job[j].attempts + 1,
                                        content |-> job[j].content, at |-> now,
                                        outcome |-> NULL]]
    /\ pc' = [pc EXCEPT ![w] = "locked"]
    /\ UNCHANGED <<now, job, stopping, faults>>

\* The claim commits, at the end of the with block, and run_once goes on.
ClaimCommit(w) ==
    /\ pc[w] = "locked"
    /\ job' = [job EXCEPT ![held[w].job] = Claimed(@, held[w].at)]
    /\ pc' = [pc EXCEPT ![w] = "handle"]
    /\ UNCHANGED <<now, held, stopping, faults>>

\* The handler returns, raises ValueError or UnicodeError, or anything else.
Handle(w) ==
    /\ pc[w] = "handle"
    /\ \E o \in IF held[w].content = "present" THEN Outcome ELSE {"error"} :
           held' = [held EXCEPT ![w] = [@ EXCEPT !.outcome = o]]
    /\ pc' = [pc EXCEPT ![w] = "finish"]
    /\ UNCHANGED <<now, job, stopping, faults>>

\* Mutant: one retry too many.
FinishStatus_OneMore(c) ==
    IF c.outcome = "ok" THEN "completed"
    ELSE IF c.outcome = "error" /\ c.attempts <= MaxAttempts THEN "queued"
    ELSE "failed"

\* What run_once asks _finish to write.  It decides with the attempts and the
\* max_attempts that its own claim returned.
FinishStatus(c) ==
    IF c.outcome = "ok" THEN "completed"
    ELSE IF c.outcome = "error" /\ c.attempts < MaxAttempts THEN "queued"
    ELSE "failed"

FinishDelay(c) == IF FinishStatus(c) = "queued" THEN RetryDelay[c.attempts] ELSE 0

\* _finish: the UPDATE waits for a row lock, then run_once returns TRUE.
Finish(w) ==
    /\ pc[w] = "finish"
    /\ held[w].job \notin LockedRows
    /\ job' = [job EXCEPT ![held[w].job] =
                   Finished(@, FinishStatus(held[w]), FinishDelay(held[w]))]
    /\ pc' = [pc EXCEPT ![w] = "loop"]
    /\ held' = [held EXCEPT ![w] = NULL]
    /\ UNCHANGED <<now, stopping, faults>>

-----------------------------------------------------------------------------
(* What may go wrong.  Each of these uses up one of MaxFaults.             *)

Fault == faults < MaxFaults /\ faults' = faults + 1

\* A transaction fails and is rolled back: before the claim commits, or in
\* _finish, which leaves the row as the claim wrote it.  _run logs it and loops.
DatabaseError(w) ==
    /\ Fault
    /\ pc[w] \in {"claim", "locked", "finish"}
    /\ pc' = [pc EXCEPT ![w] = "loop"]
    /\ held' = [held EXCEPT ![w] = NULL]
    /\ UNCHANGED <<now, job, stopping>>

\* The claim commits and the connection breaks before run_once has its row.
ClaimLost(w) ==
    /\ Fault
    /\ pc[w] = "locked"
    /\ job' = [job EXCEPT ![held[w].job] = Claimed(@, held[w].at)]
    /\ pc' = [pc EXCEPT ![w] = "loop"]
    /\ held' = [held EXCEPT ![w] = NULL]
    /\ UNCHANGED <<now, stopping>>

\* The process ends: killed, or it exits after stop() has waited five seconds
\* for a thread that is still busy (a daemon thread dies with its process).
Crash(w) ==
    /\ Fault
    /\ pc[w] # "exited"
    /\ pc' = [pc EXCEPT ![w] = "exited"]
    /\ held' = [held EXCEPT ![w] = NULL]
    /\ UNCHANGED <<now, job, stopping>>

\* stop(): a graceful shutdown asks the thread to leave its loop.
Stop(w) ==
    /\ Fault
    /\ pc[w] # "exited"
    /\ ~stopping[w]
    /\ stopping' = [stopping EXCEPT ![w] = TRUE]
    /\ UNCHANGED <<now, job, pc, held>>

\* A new process takes the place of the one that ended.
Restart(w) ==
    /\ pc[w] = "exited"
    /\ pc' = [pc EXCEPT ![w] = "loop"]
    /\ stopping' = [stopping EXCEPT ![w] = FALSE]
    /\ UNCHANGED <<now, job, held, faults>>

\* Some row is waiting for the clock.  Nothing else compares times, so the
\* clock need not move when no row is.
TimerPending ==
    \E j \in Jobs : \/ job[j].status = "queued" /\ job[j].run_after > now
                    \/ job[j].status = "running" /\ ~LeaseExpired(job[j])

\* Time passes.  Nothing in the code bounds how long the handler takes; Timely
\* adds the assumption the lease rests on.
Tick ==
    /\ TimerPending
    /\ Timely => \A w \in Workers :
                     pc[w] = "locked" \/ Busy(w) => now < held[w].at + Lease
    /\ now' = now + 1
    /\ UNCHANGED <<job, pc, held, stopping, faults>>

-----------------------------------------------------------------------------

Work(w) == \/ Loop(w) \/ ClaimNone(w) \/ ClaimLock(w) \/ ClaimCommit(w)
           \/ Handle(w) \/ Finish(w)

Next == \/ \E j \in Jobs : Submit(j)
        \/ \E w \in Workers :
               \/ Loop(w) \/ ClaimNone(w) \/ ClaimLock(w) \/ ClaimCommit(w)
               \/ Handle(w) \/ Finish(w)
               \/ DatabaseError(w) \/ ClaimLost(w) \/ Crash(w) \/ Stop(w)
               \/ Restart(w)
        \/ Tick

Spec == Init /\ [][Next]_vars

\* The clock runs, a thread that can take a step takes one (every call the
\* handler makes has a timeout), and a replica that ended is started again.
FairSpec == Spec /\ WF_vars(Tick)
                 /\ \A w \in Workers : WF_vars(Work(w)) /\ WF_vars(Restart(w))

-----------------------------------------------------------------------------
(* Properties.                                                             *)

\* The table, the workers' local state and the clock have their types.
TypeOK == /\ now \in Nat
          /\ job \in [Jobs -> Row]
          /\ pc \in [Workers -> {"loop", "claim", "locked", "handle", "finish",
                                 "exited"}]
          /\ held \in [Workers -> Claim \cup {NULL}]
          /\ \A w \in Workers : pc[w] \in {"locked", "handle", "finish"} =>
                                    held[w] \in Claim
          /\ \A w \in Workers : pc[w] = "finish" => held[w].outcome \in Outcome
          /\ stopping \in [Workers -> BOOLEAN]
          /\ faults \in Nat

\* No two workers run the handler of one job at the same time: the lease of
\* claim_ingestion_job() protects a job as long as workers meet it.
OneWorkerPerJob ==
    \A v, w \in Workers :
        Busy(v) /\ Busy(w) /\ held[v].job = held[w].job => v = w

\* A job that may still be run still has its uploaded bytes: _finish drops
\* them only "once the job can no longer run".
RunnableHasContent ==
    \A j \in Jobs :
        job[j].status \in {"queued", "running"} => job[j].content = "present"

\* Retries stop at max_attempts; only a claim that a fault interrupted can
\* push a job's attempts beyond it, and each fault by one at most.
AttemptsBounded == \A j \in Jobs : job[j].attempts <= MaxAttempts + faults

\* However long workers take, the row locks keep two claims of one job apart:
\* claims that overlap carry different attempt numbers, and the row's counter
\* is never behind a claim.
ClaimsAreDistinct ==
    \A w \in Workers : Busy(w) =>
        /\ held[w].attempts <= job[held[w].job].attempts
        /\ \A v \in Workers \ {w} :
               Busy(v) /\ held[v].job = held[w].job => held[v].attempts # held[w].attempts

\* A committed claim takes a job that is queued and due, or whose lease is
\* over: what the SELECT saw still holds when the UPDATE commits.
ClaimTakesRunnable ==
    [][\A j \in Jobs : job'[j].attempts > job[j].attempts => Runnable(job[j])]_vars

\* A client that has read "completed" or "failed" never reads anything else.
TerminalIsFinal ==
    [][\A j \in Jobs : job[j].status \in Terminal => job'[j] = job[j]]_vars

\* Every job that is submitted is completed or failed in the end, whatever
\* crashes and database errors happen on the way.
JobsFinish ==
    \A j \in Jobs : job[j].status = "queued" ~> job[j].status \in Terminal

\* The queue implements its contract.
Runners(j) == {w \in Workers : Busy(w) /\ held[w].job = j}

Contract == INSTANCE JobContract WITH status <- [j \in Jobs |-> job[j].status],
                                      runners <- [j \in Jobs |-> Runners(j)]

ImplementsContract == Contract!Spec

=============================================================================
