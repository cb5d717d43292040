--------------------------- MODULE JobQueueProofs ---------------------------
(***************************************************************************)
(* Proofs about the durable ingestion queue, for any number of jobs,        *)
(* workers and faults, and any max_attempts and lease.                      *)
(***************************************************************************)
EXTENDS JobQueue, TLAPS

-----------------------------------------------------------------------------
(* Type correctness.                                                       *)

\* The UPDATEs of the claim and of _finish keep a row a row.
LEMMA RowUpdates ==
    ASSUME NEW r \in Row, now \in Nat
    PROVE  /\ \A at \in Nat : Claimed(r, at) \in Row
           /\ \A s \in Status, d \in Nat : Finished(r, s, d) \in Row
  <1>1. ASSUME NEW at \in Nat PROVE Claimed(r, at) \in Row
    BY DEF Row, Status, Claimed
  <1>2. ASSUME NEW s \in Status, NEW d \in Nat PROVE Finished(r, s, d) \in Row
    BY DEF Row, Finished
  <1> QED BY <1>1, <1>2

\* What run_once passes to _finish is well typed.
LEMMA FinishArguments ==
    ASSUME NEW c \in Claim, c.outcome \in Outcome
    PROVE  /\ FinishStatus(c) \in {"completed", "failed", "queued"}
           /\ FinishDelay(c) \in Nat
           /\ FinishStatus(c) = "queued" => c.attempts < MaxAttempts
  <1>1. FinishStatus(c) \in {"completed", "failed", "queued"}
    BY DEF FinishStatus, Outcome
  <1>2. FinishStatus(c) = "queued" => c.attempts < MaxAttempts
    BY DEF FinishStatus, Outcome
  <1>3. c.attempts \in Nat \ {0}
    BY DEF Claim
  <1>4. FinishDelay(c) \in Nat
    BY <1>2, <1>3, QueueAssumption, RetryDelayAssumption DEF FinishDelay
  <1> QED BY <1>1, <1>2, <1>4

\* The clock, the rows and the workers' local state keep their types.
LEMMA TypeStep == TypeOK /\ [Next]_vars => TypeOK'
  <1> SUFFICES ASSUME TypeOK, [Next]_vars PROVE TypeOK'
    OBVIOUS
  <1> USE DEF TypeOK
  <1>1. ASSUME NEW j \in Jobs, Submit(j) PROVE TypeOK'
    BY <1>1 DEF Submit, Row, Status
  <1>2. ASSUME NEW w \in Workers, Loop(w) PROVE TypeOK'
    BY <1>2 DEF Loop
  <1>3. ASSUME NEW w \in Workers, ClaimNone(w) PROVE TypeOK'
    BY <1>3 DEF ClaimNone
  <1>4. ASSUME NEW w \in Workers, ClaimLock(w) PROVE TypeOK'
    <2>1. PICK j \in Jobs : held' = [held EXCEPT ![w] =
              [job |-> j, attempts |-> job[j].attempts + 1,
               content |-> job[j].content, at |-> now, outcome |-> NULL]]
      BY <1>4 DEF ClaimLock, Oldest, Candidates
    <2>2. [job |-> j, attempts |-> job[j].attempts + 1,
           content |-> job[j].content, at |-> now, outcome |-> NULL] \in Claim
      BY DEF Claim, Row
    <2> QED BY <1>4, <2>1, <2>2 DEF ClaimLock
  <1>5. ASSUME NEW w \in Workers, ClaimCommit(w) PROVE TypeOK'
    <2>1. held[w].job \in Jobs /\ held[w].at \in Nat
      BY <1>5 DEF ClaimCommit, Claim
    <2>2. Claimed(job[held[w].job], held[w].at) \in Row
      BY <2>1, RowUpdates
    <2> QED BY <1>5, <2>1, <2>2 DEF ClaimCommit
  <1>6. ASSUME NEW w \in Workers, Handle(w) PROVE TypeOK'
    <2>1. PICK o \in Outcome : held' = [held EXCEPT ![w] = [@ EXCEPT !.outcome = o]]
      BY <1>6 DEF Handle, Outcome
    <2>2. held[w] \in Claim
      BY <1>6 DEF Handle
    <2>3. [held[w] EXCEPT !.outcome = o] \in Claim
      BY <2>2 DEF Claim
    <2>4. [held[w] EXCEPT !.outcome = o].outcome = o
      BY <2>2 DEF Claim
    <2> QED BY <1>6, <2>1, <2>3, <2>4 DEF Handle
  <1>7. ASSUME NEW w \in Workers, Finish(w) PROVE TypeOK'
    <2>1. held[w] \in Claim /\ held[w].outcome \in Outcome /\ held[w].job \in Jobs
      BY <1>7 DEF Finish, Claim
    <2>2. FinishStatus(held[w]) \in Status /\ FinishDelay(held[w]) \in Nat
      BY <2>1, FinishArguments DEF Status, Terminal
    <2>3. Finished(job[held[w].job], FinishStatus(held[w]), FinishDelay(held[w])) \in Row
      BY <2>1, <2>2, RowUpdates
    <2> QED BY <1>7, <2>1, <2>3 DEF Finish
  <1>8. ASSUME NEW w \in Workers, DatabaseError(w) PROVE TypeOK'
    BY <1>8 DEF DatabaseError, Fault
  <1>9. ASSUME NEW w \in Workers, ClaimLost(w) PROVE TypeOK'
    <2>1. held[w].job \in Jobs /\ held[w].at \in Nat
      BY <1>9 DEF ClaimLost, Claim
    <2>2. Claimed(job[held[w].job], held[w].at) \in Row
      BY <2>1, RowUpdates
    <2> QED BY <1>9, <2>1, <2>2 DEF ClaimLost, Fault
  <1>10. ASSUME NEW w \in Workers, Crash(w) PROVE TypeOK'
    BY <1>10 DEF Crash, Fault
  <1>11. ASSUME NEW w \in Workers, Stop(w) PROVE TypeOK'
    BY <1>11 DEF Stop, Fault
  <1>12. ASSUME NEW w \in Workers, Restart(w) PROVE TypeOK'
    BY <1>12 DEF Restart
  <1>13. CASE Tick
    BY <1>13 DEF Tick
  <1>14. CASE UNCHANGED vars
    BY <1>14 DEF vars
  <1> QED
    BY <1>1, <1>2, <1>3, <1>4, <1>5, <1>6, <1>7, <1>8, <1>9, <1>10, <1>11, <1>12,
       <1>13, <1>14 DEF Next

\* Every column of ingestion_jobs and every local variable of run_once keeps
\* its type: a worker past its claim always knows which job it holds.
THEOREM TypeCorrect == Spec => []TypeOK
  <1>1. Init => TypeOK
    BY QueueAssumption DEF Init, TypeOK, Row, Status
  <1> QED BY <1>1, TypeStep, PTL DEF Spec

-----------------------------------------------------------------------------
(* The row locks keep claims apart, however long workers take.             *)

\* A worker only ever holds a job that was submitted.
HeldIsSubmitted ==
    \A w \in Workers : pc[w] \in {"locked", "handle", "finish"} =>
        job[held[w].job].status # "absent"

\* While a claim holds its row lock, the row is as the SELECT saw it, and no
\* other claim holds the lock.
LockInv ==
    \A w \in Workers : pc[w] = "locked" =>
        /\ Runnable(job[held[w].job])
        /\ held[w].attempts = job[held[w].job].attempts + 1
        /\ held[w].content = job[held[w].job].content
        /\ \A v \in Workers : pc[v] = "locked" /\ held[v].job = held[w].job => v = w

ClaimInv == TypeOK /\ HeldIsSubmitted /\ LockInv /\ ClaimsAreDistinct

\* Every step keeps the claims of one job apart.
LEMMA ClaimStep == ClaimInv /\ [Next]_vars => ClaimInv'
  <1> SUFFICES ASSUME ClaimInv, [Next]_vars
               PROVE  HeldIsSubmitted' /\ LockInv' /\ ClaimsAreDistinct'
    BY TypeStep DEF ClaimInv
  <1> DEFINE Goal == HeldIsSubmitted' /\ LockInv' /\ ClaimsAreDistinct'
  <1>0. TypeOK /\ TypeOK' /\ HeldIsSubmitted /\ LockInv /\ ClaimsAreDistinct
    BY TypeStep DEF ClaimInv
  <1>h. \A w \in Workers : pc[w] \in {"locked", "handle", "finish"} =>
            /\ held[w].job \in Jobs
            /\ held[w].attempts \in Nat
            /\ held[w].at \in Nat
            /\ job[held[w].job] \in Row
            /\ job[held[w].job].attempts \in Nat
    BY <1>0 DEF TypeOK, Claim, Row
  <1>1. ASSUME NEW j \in Jobs, Submit(j) PROVE Goal
    <2>1. \A w \in Workers : pc[w] \in {"locked", "handle", "finish"} => held[w].job # j
      BY <1>0, <1>1, <1>h DEF HeldIsSubmitted, Submit
    <2>2. \A w \in Workers : pc[w] \in {"locked", "handle", "finish"} =>
              job'[held[w].job] = job[held[w].job]
      BY <1>0, <1>1, <1>h, <2>1 DEF Submit, TypeOK
    <2> QED BY <1>0, <1>1, <1>h, <2>2
            DEF HeldIsSubmitted, LockInv, ClaimsAreDistinct, Submit, Busy, Runnable, LeaseExpired
  <1>2. ASSUME NEW w \in Workers, Loop(w) PROVE Goal
    BY <1>0, <1>2 DEF Loop, HeldIsSubmitted, LockInv, ClaimsAreDistinct, Busy, TypeOK,
                      Runnable, LeaseExpired
  <1>3. ASSUME NEW w \in Workers, ClaimNone(w) PROVE Goal
    BY <1>0, <1>3 DEF ClaimNone, HeldIsSubmitted, LockInv, ClaimsAreDistinct, Busy, TypeOK,
                      Runnable, LeaseExpired
  <1>4. ASSUME NEW w \in Workers, ClaimLock(w) PROVE Goal
    <2>1. PICK j \in Jobs : /\ Runnable(job[j]) /\ j \notin LockedRows
                            /\ held' = [held EXCEPT ![w] =
                                 [job |-> j, attempts |-> job[j].attempts + 1,
                                  content |-> job[j].content, at |-> now, outcome |-> NULL]]
      BY <1>4 DEF ClaimLock, Oldest, Candidates
    <2>2. \A v \in Workers : pc[v] = "locked" => held[v].job # j
      BY <2>1 DEF LockedRows
    <2>3. /\ pc[w] = "claim" /\ pc' = [pc EXCEPT ![w] = "locked"]
          /\ UNCHANGED <<now, job>>
      BY <1>4 DEF ClaimLock
    <2>4. /\ held'[w].job = j /\ held'[w].attempts = job[j].attempts + 1
          /\ held'[w].content = job[j].content
          /\ \A v \in Workers \ {w} : held'[v] = held[v] /\ pc'[v] = pc[v]
          /\ pc'[w] = "locked"
      BY <1>0, <2>1, <2>3 DEF TypeOK
    <2>5. HeldIsSubmitted'
      BY <1>0, <2>1, <2>3, <2>4 DEF HeldIsSubmitted, Runnable
    <2>6. LockInv'
      BY <1>0, <2>1, <2>2, <2>3, <2>4 DEF LockInv, Runnable, LeaseExpired
    <2>7. ClaimsAreDistinct'
      BY <1>0, <2>3, <2>4 DEF ClaimsAreDistinct, Busy
    <2> QED BY <2>5, <2>6, <2>7
  <1>5. ASSUME NEW w \in Workers, pc[w] = "locked", UNCHANGED now,
               job' = [job EXCEPT ![held[w].job] = Claimed(@, held[w].at)],
               \A v \in Workers \ {w} : held'[v] = held[v] /\ pc'[v] = pc[v],
               \/ pc'[w] = "loop"
               \/ pc'[w] = "handle" /\ held'[w] = held[w]
        PROVE  Goal
    <2>1. /\ job'[held[w].job].attempts = job[held[w].job].attempts + 1
          /\ job'[held[w].job].status = "running"
          /\ \A j \in Jobs \ {held[w].job} : job'[j] = job[j]
      BY <1>0, <1>5, <1>h DEF TypeOK, Claimed
    <2>2. HeldIsSubmitted'
      BY <1>0, <1>5, <1>h, <2>1 DEF HeldIsSubmitted
    <2>3. LockInv'
      BY <1>0, <1>5, <1>h, <2>1 DEF LockInv, Runnable, LeaseExpired
    <2>4. ClaimsAreDistinct'
      BY <1>0, <1>5, <1>h, <2>1 DEF LockInv, ClaimsAreDistinct, Busy
    <2> QED BY <2>2, <2>3, <2>4
  <1>6. ASSUME NEW w \in Workers, Handle(w) PROVE Goal
    <2>1. PICK o \in Outcome : held' = [held EXCEPT ![w] = [@ EXCEPT !.outcome = o]]
      BY <1>6 DEF Handle, Outcome
    <2>2. held[w] \in Claim
      BY <1>0, <1>6 DEF Handle, TypeOK
    <2>3. /\ held'[w].job = held[w].job /\ held'[w].attempts = held[w].attempts
          /\ \A v \in Workers \ {w} : held'[v] = held[v] /\ pc'[v] = pc[v]
          /\ pc'[w] = "finish" /\ pc[w] = "handle" /\ UNCHANGED <<now, job>>
      BY <1>0, <1>6, <2>1, <2>2 DEF Handle, TypeOK, Claim
    <2> QED BY <1>0, <2>3
            DEF HeldIsSubmitted, LockInv, ClaimsAreDistinct, Busy, Runnable, LeaseExpired
  <1>7. ASSUME NEW w \in Workers, Finish(w) PROVE Goal
    <2>1. /\ \A v \in Workers : pc[v] = "locked" => held[v].job # held[w].job
          /\ \A v \in Workers \ {w} : held'[v] = held[v] /\ pc'[v] = pc[v]
          /\ pc'[w] = "loop" /\ pc[w] = "finish" /\ UNCHANGED now
      BY <1>0, <1>7 DEF Finish, LockedRows, TypeOK
    <2>2. FinishStatus(held[w]) \in {"completed", "failed", "queued"}
      BY <1>0, <2>1, FinishArguments DEF TypeOK
    <2>3. /\ job'[held[w].job].attempts = job[held[w].job].attempts
          /\ job'[held[w].job].status # "absent"
          /\ \A j \in Jobs \ {held[w].job} : job'[j] = job[j]
      BY <1>0, <1>7, <1>h, <2>1, <2>2 DEF Finish, Finished, TypeOK
    <2>4. HeldIsSubmitted'
      BY <1>0, <1>h, <2>1, <2>3 DEF HeldIsSubmitted
    <2>5. LockInv'
      BY <1>0, <1>h, <2>1, <2>3 DEF LockInv, Runnable, LeaseExpired
    <2>6. ClaimsAreDistinct'
      BY <1>0, <1>h, <2>1, <2>3 DEF ClaimsAreDistinct, Busy
    <2> QED BY <2>4, <2>5, <2>6
  <1>8. ASSUME NEW w \in Workers, pc'[w] \in {"loop", "exited"}, UNCHANGED <<now, job>>,
               \A v \in Workers \ {w} : held'[v] = held[v] /\ pc'[v] = pc[v]
        PROVE  Goal
    BY <1>0, <1>8
       DEF HeldIsSubmitted, LockInv, ClaimsAreDistinct, Busy, Runnable, LeaseExpired
  <1>9. CASE Tick
    <2>1. LockInv'
      <3> SUFFICES ASSUME NEW w \in Workers, pc[w] = "locked"
                   PROVE  Runnable(job[held[w].job])'
        BY <1>0, <1>9 DEF LockInv, Tick
      <3>1. Runnable(job[held[w].job])
        BY <1>0 DEF LockInv
      <3> QED BY <1>0, <1>9, <1>h, <3>1, QueueAssumption
              DEF Tick, TypeOK, Row, Runnable, LeaseExpired
    <2> QED BY <1>0, <1>9, <2>1 DEF Tick, HeldIsSubmitted, ClaimsAreDistinct, Busy
  <1>10. CASE UNCHANGED vars
    BY <1>0, <1>10 DEF vars, HeldIsSubmitted, LockInv, ClaimsAreDistinct, Busy, Runnable,
                       LeaseExpired
  <1>11. ASSUME NEW w \in Workers, ClaimCommit(w) \/ ClaimLost(w) PROVE Goal
    BY <1>0, <1>5, <1>11 DEF ClaimCommit, ClaimLost, TypeOK
  <1>12. ASSUME NEW w \in Workers, DatabaseError(w) \/ Crash(w) \/ Restart(w) PROVE Goal
    BY <1>0, <1>8, <1>12 DEF DatabaseError, Crash, Restart, TypeOK
  <1>13. ASSUME NEW w \in Workers, Stop(w) PROVE Goal
    BY <1>0, <1>13 DEF Stop, HeldIsSubmitted, LockInv, ClaimsAreDistinct, Busy, Runnable,
                       LeaseExpired
  <1> QED
    BY <1>1, <1>2, <1>3, <1>4, <1>6, <1>7, <1>9, <1>10, <1>11, <1>12, <1>13 DEF Next

LEMMA ClaimInvariant == Spec => []ClaimInv
  <1>1. Init => ClaimInv
    BY QueueAssumption
       DEF Init, ClaimInv, TypeOK, Row, Status, HeldIsSubmitted, LockInv, ClaimsAreDistinct, Busy
  <1> QED BY <1>1, ClaimStep, PTL DEF Spec

\* FOR UPDATE SKIP LOCKED does what the migration's comment says: two workers
\* never hold the same claim of a job, however slow they are.
THEOREM ClaimsStayDistinct == Spec => []ClaimsAreDistinct
  <1>1. ClaimInv => ClaimsAreDistinct
    BY DEF ClaimInv
  <1> QED BY <1>1, ClaimInvariant, PTL

\* A claim that commits takes a job that is queued and due, or running with
\* its lease over: no transaction that ran in between can have changed that.
THEOREM ClaimsTakeRunnable == Spec => ClaimTakesRunnable
  <1>1. ASSUME ClaimInv, [Next]_vars, NEW j \in Jobs, job'[j].attempts > job[j].attempts
        PROVE  Runnable(job[j])
    <2>0. TypeOK /\ LockInv /\ job[j] \in Row /\ job[j].attempts \in Nat
      BY <1>1 DEF ClaimInv, TypeOK, Row
    <2>1. ASSUME NEW w \in Workers, ClaimCommit(w) \/ ClaimLost(w) PROVE Runnable(job[j])
      <3>1. pc[w] = "locked" /\ held[w].job \in Jobs
        BY <2>0, <2>1 DEF ClaimCommit, ClaimLost, TypeOK, Claim
      <3>2. held[w].job = j
        BY <1>1, <2>0, <2>1, <3>1 DEF ClaimCommit, ClaimLost, TypeOK
      <3> QED BY <2>0, <3>1, <3>2 DEF LockInv
    <2>2. ASSUME NEW k \in Jobs, Submit(k) PROVE FALSE
      BY <1>1, <2>0, <2>2 DEF Submit, TypeOK
    <2>3. ASSUME NEW w \in Workers, Finish(w) PROVE FALSE
      BY <1>1, <2>0, <2>3 DEF Finish, Finished, TypeOK, Claim
    <2>4. CASE UNCHANGED job
      BY <1>1, <2>0, <2>4
    <2> QED BY <1>1, <2>1, <2>2, <2>3, <2>4
            DEF Next, vars, Loop, ClaimNone, ClaimLock, Handle, DatabaseError, Crash, Stop,
                Restart, Tick
  <1>2. ClaimInv /\ [Next]_vars =>
            [\A j \in Jobs : job'[j].attempts > job[j].attempts => Runnable(job[j])]_vars
    BY <1>1
  <1> QED BY <1>2, ClaimInvariant, PTL DEF Spec, ClaimTakesRunnable

-----------------------------------------------------------------------------
(* While workers meet their lease, a job has one worker and one outcome.   *)

\* A busy worker is within its lease, and the row is as its claim wrote it.
LeaseInv ==
    \A w \in Workers :
        /\ pc[w] = "locked" \/ Busy(w) => now <= held[w].at + Lease
        /\ Busy(w) => LET r == job[held[w].job]
                      IN  /\ r.status = "running"
                          /\ r.locked_at = held[w].at
                          /\ r.attempts = held[w].attempts

\* Only a claim that a fault interrupted leaves a job running without a worker.
AttemptsInv ==
    \A j \in Jobs :
        /\ job[j].status = "queued" => job[j].attempts < MaxAttempts
        /\ job[j].status = "running" /\ (\A w \in Workers : Busy(w) => held[w].job # j)
               => job[j].attempts < MaxAttempts + faults

SafeInv == /\ ClaimInv
           /\ LeaseInv
           /\ OneWorkerPerJob
           /\ RunnableHasContent
           /\ AttemptsInv
           /\ AttemptsBounded

\* A row that a claim has locked is not the row of a busy worker: it would
\* have to be running with its lease over, and busy workers are within theirs.
LEMMA LockedIsFree ==
    ASSUME SafeInv, NEW v \in Workers, NEW w \in Workers, pc[v] = "locked", Busy(w)
    PROVE  held[v].job # held[w].job
  <1>1. /\ held[w].at \in Nat /\ now \in Nat /\ Lease \in Nat
        /\ held[w].at # NULL
    BY QueueAssumption DEF SafeInv, ClaimInv, TypeOK, Claim, Busy
  <1> QED BY <1>1 DEF SafeInv, ClaimInv, LockInv, LeaseInv, Runnable, LeaseExpired

\* While Timely holds, every step preserves the inductive invariant.
LEMMA SafeStep == ASSUME Timely PROVE SafeInv /\ [Next]_vars => SafeInv'
  <1> SUFFICES ASSUME SafeInv, [Next]_vars
               PROVE  /\ LeaseInv' /\ OneWorkerPerJob' /\ RunnableHasContent'
                      /\ AttemptsInv' /\ AttemptsBounded'
    BY ClaimStep DEF SafeInv
  <1> DEFINE Goal == /\ LeaseInv' /\ OneWorkerPerJob' /\ RunnableHasContent'
                     /\ AttemptsInv' /\ AttemptsBounded'
  <1>0. /\ TypeOK /\ TypeOK' /\ HeldIsSubmitted /\ LockInv /\ LeaseInv /\ OneWorkerPerJob
        /\ RunnableHasContent /\ AttemptsInv /\ AttemptsBounded
    BY ClaimStep DEF SafeInv, ClaimInv
  <1>h. \A w \in Workers : pc[w] \in {"locked", "handle", "finish"} =>
            /\ held[w].job \in Jobs
            /\ held[w].attempts \in Nat
            /\ held[w].at \in Nat
    BY <1>0 DEF TypeOK, Claim
  <1>r. /\ \A j \in Jobs : job[j] \in Row /\ job[j].attempts \in Nat
        /\ now \in Nat /\ faults \in Nat /\ Lease \in Nat /\ MaxAttempts \in Nat \ {0}
    BY <1>0, QueueAssumption DEF TypeOK, Row
  <1>1. ASSUME NEW j \in Jobs, Submit(j) PROVE Goal
    <2>1. \A w \in Workers : pc[w] \in {"locked", "handle", "finish"} => held[w].job # j
      BY <1>0, <1>1, <1>h DEF HeldIsSubmitted, Submit
    <2>2. /\ \A k \in Jobs \ {j} : job'[k] = job[k]
          /\ job'[j].status = "queued" /\ job'[j].attempts = 0
          /\ job'[j].content = "present" /\ UNCHANGED <<now, pc, held, faults>>
      BY <1>0, <1>1 DEF Submit, TypeOK
    <2>3. LeaseInv'
      BY <1>0, <1>h, <2>1, <2>2 DEF LeaseInv, Busy
    <2>4. OneWorkerPerJob' /\ RunnableHasContent'
      BY <1>0, <2>2 DEF OneWorkerPerJob, RunnableHasContent, Busy
    <2>5. AttemptsInv' /\ AttemptsBounded'
      BY <1>0, <1>r, <2>2 DEF AttemptsInv, AttemptsBounded, Busy
    <2> QED BY <2>3, <2>4, <2>5
  <1>2. ASSUME NEW w \in Workers, Loop(w) \/ ClaimNone(w) \/ Restart(w) PROVE Goal
    <2>1. /\ \A v \in Workers \ {w} : pc'[v] = pc[v]
          /\ ~Busy(w) /\ ~Busy(w)' /\ pc'[w] # "locked"
          /\ UNCHANGED <<now, job, held, faults>>
      BY <1>0, <1>2 DEF Loop, ClaimNone, Restart, TypeOK, Busy
    <2> QED BY <1>0, <2>1 DEF LeaseInv, OneWorkerPerJob, RunnableHasContent, AttemptsInv,
                              AttemptsBounded, Busy
  <1>3. ASSUME NEW w \in Workers, ClaimLock(w) PROVE Goal
    <2>1. PICK j \in Jobs : held' = [held EXCEPT ![w] =
              [job |-> j, attempts |-> job[j].attempts + 1,
               content |-> job[j].content, at |-> now, outcome |-> NULL]]
      BY <1>3 DEF ClaimLock, Oldest, Candidates
    <2>2. /\ \A v \in Workers \ {w} : pc'[v] = pc[v] /\ held'[v] = held[v]
          /\ ~Busy(w) /\ ~Busy(w)' /\ held'[w].at = now
          /\ UNCHANGED <<now, job, faults>>
      BY <1>0, <1>3, <2>1 DEF ClaimLock, TypeOK, Busy
    <2> QED BY <1>0, <1>r, <2>2 DEF LeaseInv, OneWorkerPerJob, RunnableHasContent,
                                    AttemptsInv, AttemptsBounded, Busy
  <1>4. ASSUME NEW w \in Workers, pc[w] = "locked", UNCHANGED now,
               job' = [job EXCEPT ![held[w].job] = Claimed(@, held[w].at)],
               \A v \in Workers \ {w} : held'[v] = held[v] /\ pc'[v] = pc[v],
               \/ pc'[w] = "loop" /\ faults' = faults + 1
               \/ pc'[w] = "handle" /\ held'[w] = held[w] /\ faults' = faults
        PROVE  Goal
    <2> DEFINE j == held[w].job
    <2>1. \A v \in Workers : Busy(v) => held[v].job # j
      BY <1>4, LockedIsFree
    <2>2. /\ \A k \in Jobs \ {j} : job'[k] = job[k]
          /\ job'[j].status = "running" /\ job'[j].locked_at = held[w].at
          /\ job'[j].attempts = job[j].attempts + 1 /\ job'[j].content = job[j].content
          /\ j \in Jobs
      BY <1>0, <1>4, <1>h DEF TypeOK, Claimed
    <2>3. /\ held[w].attempts = job[j].attempts + 1
          /\ job[j].status \in {"queued", "running"}
      BY <1>0, <1>4 DEF LockInv, Runnable
    <2>4. /\ job[j].attempts < MaxAttempts + faults
          /\ job[j].content = "present"
      BY <1>0, <1>r, <2>1, <2>2, <2>3 DEF AttemptsInv, RunnableHasContent
    <2>5. LeaseInv'
      BY <1>0, <1>4, <1>h, <2>1, <2>2, <2>3 DEF LeaseInv, Busy
    <2>6. OneWorkerPerJob'
      BY <1>0, <1>4, <2>1 DEF OneWorkerPerJob, Busy
    <2>7. RunnableHasContent'
      BY <1>0, <2>2, <2>4 DEF RunnableHasContent
    <2>8. AttemptsInv'
      <3>1. ASSUME NEW k \in Jobs, job'[k].status = "running",
                   \A v \in Workers : Busy(v)' => held'[v].job # k
            PROVE  job'[k].attempts < MaxAttempts + faults'
        <4>1. CASE k = j
          BY <1>4, <1>r, <2>2, <2>4, <3>1, <4>1 DEF Busy
        <4>2. CASE k # j
          BY <1>0, <1>4, <1>r, <2>2, <3>1, <4>2 DEF AttemptsInv, Busy
        <4> QED BY <4>1, <4>2
      <3>2. ASSUME NEW k \in Jobs, job'[k].status = "queued"
            PROVE  job'[k].attempts < MaxAttempts
        BY <1>0, <2>2, <3>2 DEF AttemptsInv
      <3> QED BY <3>1, <3>2 DEF AttemptsInv
    <2>9. AttemptsBounded'
      BY <1>0, <1>4, <1>r, <2>2, <2>4 DEF AttemptsBounded
    <2> QED BY <2>5, <2>6, <2>7, <2>8, <2>9
  <1>5. ASSUME NEW w \in Workers, Handle(w) PROVE Goal
    <2>1. PICK o \in Outcome : held' = [held EXCEPT ![w] = [@ EXCEPT !.outcome = o]]
      BY <1>5 DEF Handle, Outcome
    <2>2. held[w] \in Claim
      BY <1>0, <1>5 DEF Handle, TypeOK
    <2>3. /\ held'[w].job = held[w].job /\ held'[w].attempts = held[w].attempts
          /\ held'[w].at = held[w].at
          /\ \A v \in Workers \ {w} : held'[v] = held[v] /\ pc'[v] = pc[v]
          /\ pc'[w] = "finish" /\ pc[w] = "handle" /\ UNCHANGED <<now, job, faults>>
      BY <1>0, <1>5, <2>1, <2>2 DEF Handle, TypeOK, Claim
    <2> QED BY <1>0, <2>3 DEF LeaseInv, OneWorkerPerJob, RunnableHasContent, AttemptsInv,
                              AttemptsBounded, Busy
  <1>6. ASSUME NEW w \in Workers, Finish(w) PROVE Goal
    <2> DEFINE j == held[w].job
    <2>1. /\ \A v \in Workers \ {w} : held'[v] = held[v] /\ pc'[v] = pc[v]
          /\ pc'[w] = "loop" /\ pc[w] = "finish" /\ UNCHANGED <<now, faults>>
      BY <1>0, <1>6 DEF Finish, TypeOK
    <2>2. \A v \in Workers \ {w} : Busy(v) => held[v].job # j
      BY <1>0, <2>1 DEF OneWorkerPerJob, Busy
    <2>3. /\ FinishStatus(held[w]) \in {"completed", "failed", "queued"}
          /\ FinishStatus(held[w]) = "queued" => held[w].attempts < MaxAttempts
      BY <1>0, <2>1, FinishArguments DEF TypeOK
    <2>4. /\ job'[j].status = FinishStatus(held[w]) /\ job'[j].attempts = job[j].attempts
          /\ job'[j].status = "queued" => job'[j].content = job[j].content
          /\ \A k \in Jobs \ {j} : job'[k] = job[k]
          /\ j \in Jobs
      BY <1>0, <1>6, <1>h, <2>1 DEF Finish, Finished, TypeOK, Terminal
    <2>5. job[j].status = "running" /\ job[j].attempts = held[w].attempts
      BY <1>0, <2>1 DEF LeaseInv, Busy
    <2>6. LeaseInv'
      BY <1>0, <1>h, <2>1, <2>2, <2>4 DEF LeaseInv, Busy
    <2>7. OneWorkerPerJob'
      BY <1>0, <2>1 DEF OneWorkerPerJob, Busy
    <2>8. RunnableHasContent'
      BY <1>0, <2>3, <2>4, <2>5 DEF RunnableHasContent
    <2>9. AttemptsInv' /\ AttemptsBounded'
      BY <1>0, <2>1, <2>3, <2>4, <2>5 DEF AttemptsInv, AttemptsBounded, Busy
    <2> QED BY <2>6, <2>7, <2>8, <2>9
  <1>7. ASSUME NEW w \in Workers, DatabaseError(w) \/ Crash(w) PROVE Goal
    <2>1. /\ \A v \in Workers \ {w} : held'[v] = held[v] /\ pc'[v] = pc[v]
          /\ pc'[w] \in {"loop", "exited"}
          /\ UNCHANGED <<now, job>> /\ faults' = faults + 1
      BY <1>0, <1>7 DEF DatabaseError, Crash, Fault, TypeOK
    <2>2. LeaseInv' /\ OneWorkerPerJob' /\ RunnableHasContent'
      BY <1>0, <2>1 DEF LeaseInv, OneWorkerPerJob, RunnableHasContent, Busy
    <2>3. AttemptsInv' /\ AttemptsBounded'
      BY <1>0, <1>r, <2>1 DEF AttemptsInv, AttemptsBounded
    <2> QED BY <2>2, <2>3
  <1>8. ASSUME NEW w \in Workers, Stop(w) PROVE Goal
    <2>1. UNCHANGED <<now, job, pc, held>> /\ faults' = faults + 1
      BY <1>8 DEF Stop, Fault
    <2> QED BY <1>0, <1>r, <2>1 DEF LeaseInv, OneWorkerPerJob, RunnableHasContent,
                                    AttemptsInv, AttemptsBounded, Busy
  <1>9. CASE Tick
    <2>1. LeaseInv'
      BY <1>0, <1>9, <1>h, <1>r DEF Tick, LeaseInv, Busy
    <2> QED BY <1>0, <1>9, <2>1 DEF Tick, OneWorkerPerJob, RunnableHasContent, AttemptsInv,
                                    AttemptsBounded, Busy
  <1>10. CASE UNCHANGED vars
    BY <1>0, <1>10 DEF vars, LeaseInv, OneWorkerPerJob, RunnableHasContent, AttemptsInv,
                       AttemptsBounded, Busy
  <1>11. ASSUME NEW w \in Workers, ClaimCommit(w) \/ ClaimLost(w) PROVE Goal
    BY <1>0, <1>4, <1>11 DEF ClaimCommit, ClaimLost, Fault, TypeOK
  <1> QED
    BY <1>1, <1>2, <1>3, <1>5, <1>6, <1>7, <1>8, <1>9, <1>10, <1>11 DEF Next

LEMMA SafeInvariant == ASSUME Timely PROVE Spec => []SafeInv
  <1>1. Init => SafeInv
    BY QueueAssumption
       DEF Init, SafeInv, ClaimInv, TypeOK, Row, Status, HeldIsSubmitted, LockInv,
           ClaimsAreDistinct, LeaseInv, OneWorkerPerJob, RunnableHasContent, AttemptsInv,
           AttemptsBounded, Busy
  <1> QED BY <1>1, SafeStep, PTL DEF Spec

\* As long as no worker outlives its lease, no two replicas ingest the same job
\* at the same time, whatever crashes, restarts and database errors happen.
THEOREM TimelyOneWorker == ASSUME Timely PROVE Spec => []OneWorkerPerJob
  <1>1. SafeInv => OneWorkerPerJob
    BY DEF SafeInv
  <1> QED BY <1>1, SafeInvariant, PTL

\* As long as no worker outlives its lease, a job that can still be claimed
\* still has the uploaded bytes that its handler decodes.
THEOREM TimelyContentKept == ASSUME Timely PROVE Spec => []RunnableHasContent
  <1>1. SafeInv => RunnableHasContent
    BY DEF SafeInv
  <1> QED BY <1>1, SafeInvariant, PTL

\* As long as no worker outlives its lease, a job is claimed at most
\* max_attempts times plus once for every fault.
THEOREM TimelyAttemptsBounded == ASSUME Timely PROVE Spec => []AttemptsBounded
  <1>1. SafeInv => AttemptsBounded
    BY DEF SafeInv
  <1> QED BY <1>1, SafeInvariant, PTL

\* As long as no worker outlives its lease, a completed or failed row is never
\* written again.
THEOREM TimelyTerminalIsFinal == ASSUME Timely PROVE Spec => TerminalIsFinal
  <1>1. ASSUME SafeInv, [Next]_vars, NEW j \in Jobs, job[j].status \in Terminal
        PROVE  job'[j] = job[j]
    <2>0. /\ TypeOK /\ LockInv /\ LeaseInv
          /\ job[j].status \notin {"absent", "queued", "running"}
      BY <1>1 DEF SafeInv, ClaimInv, Terminal
    <2>1. ASSUME NEW k \in Jobs, Submit(k) PROVE job'[j] = job[j]
      BY <2>0, <2>1 DEF Submit, TypeOK
    <2>2. ASSUME NEW w \in Workers, ClaimCommit(w) \/ ClaimLost(w) PROVE job'[j] = job[j]
      <3>1. pc[w] = "locked" /\ held[w].job # j
        BY <2>0, <2>2 DEF ClaimCommit, ClaimLost, LockInv, Runnable
      <3> QED BY <2>0, <2>2, <3>1 DEF ClaimCommit, ClaimLost, TypeOK
    <2>3. ASSUME NEW w \in Workers, Finish(w) PROVE job'[j] = job[j]
      <3>1. held[w].job # j
        BY <2>0, <2>3 DEF Finish, LeaseInv, Busy
      <3> QED BY <2>0, <2>3, <3>1 DEF Finish, TypeOK
    <2> QED BY <1>1, <2>1, <2>2, <2>3
            DEF Next, vars, Loop, ClaimNone, ClaimLock, Handle, DatabaseError, Crash, Stop,
                Restart, Tick
  <1>2. SafeInv /\ [Next]_vars =>
            [\A j \in Jobs : job[j].status \in Terminal => job'[j] = job[j]]_vars
    BY <1>1
  <1> QED BY <1>2, SafeInvariant, PTL DEF Spec, TerminalIsFinal

-----------------------------------------------------------------------------
(* Refinement.                                                             *)

\* A step that changes no row and the busy workers' jobs changes nothing that
\* the contract sees.
LEMMA ContractStutter ==
    ASSUME TypeOK, job' = job,
           \A v \in Workers : /\ Busy(v)' <=> Busy(v)
                              /\ Busy(v) => held'[v].job = held[v].job
    PROVE  UNCHANGED <<[j \in Jobs |-> job[j].status], [j \in Jobs |-> Runners(j)]>>
  BY DEF Runners

\* What a worker's becoming idle does to the runners of its job.
LEMMA RunnersDrop ==
    ASSUME SafeInv, NEW w \in Workers, Busy(w), ~Busy(w)', NEW k, k = held[w].job,
           \A v \in Workers \ {w} : /\ Busy(v)' <=> Busy(v)
                                    /\ Busy(v) => held'[v].job = held[v].job
    PROVE  /\ k \in Jobs
           /\ Runners(k) = {w}
           /\ [j \in Jobs |-> Runners(j)'] =
                  [[j \in Jobs |-> Runners(j)] EXCEPT ![k] = {}]
  <1>1. k \in Jobs
    BY DEF SafeInv, ClaimInv, TypeOK, Claim, Busy
  <1>2. \A v \in Workers : Busy(v) /\ held[v].job = k => v = w
    BY DEF SafeInv, OneWorkerPerJob
  <1>3. Runners(k) = {w}
    BY <1>2 DEF Runners
  <1>4. Runners(k)' = {}
    BY <1>2 DEF Runners
  <1>5. \A j \in Jobs \ {k} : Runners(j)' = Runners(j)
    BY DEF Runners
  <1> QED BY <1>1, <1>3, <1>4, <1>5

\* Every step of the queue is a step of the contract, or changes nothing that
\* the contract sees.
LEMMA ContractStep ==
    ASSUME Timely
    PROVE  SafeInv /\ [Next]_vars =>
               [Contract!Next]_<<[j \in Jobs |-> job[j].status], [j \in Jobs |-> Runners(j)]>>
  <1> DEFINE status == [j \in Jobs |-> job[j].status]
             runners == [j \in Jobs |-> Runners(j)]
  <1> SUFFICES ASSUME SafeInv, [Next]_vars
               PROVE  Contract!Next \/ UNCHANGED <<status, runners>>
    OBVIOUS
  <1>0. TypeOK /\ TypeOK' /\ LockInv /\ LeaseInv
    BY ClaimStep DEF SafeInv, ClaimInv
  <1>1. ASSUME NEW j \in Jobs, Submit(j) PROVE Contract!Next
    <2>1. status' = [status EXCEPT ![j] = "queued"] /\ status[j] = "absent"
      BY <1>0, <1>1 DEF Submit, TypeOK
    <2>2. runners' = runners
      BY <1>1 DEF Submit, Runners, Busy
    <2> QED BY <2>1, <2>2 DEF Contract!Next, Contract!Submit
  <1>2. ASSUME NEW w \in Workers, Loop(w) \/ ClaimNone(w) \/ ClaimLock(w) \/ Restart(w)
        PROVE  UNCHANGED <<status, runners>>
    <2>1. /\ job' = job
          /\ \A v \in Workers : /\ Busy(v)' <=> Busy(v)
                                /\ Busy(v) => held'[v].job = held[v].job
      BY <1>0, <1>2 DEF Loop, ClaimNone, ClaimLock, Restart, TypeOK, Busy
    <2> QED BY <1>0, <2>1, ContractStutter
  <1>3. ASSUME NEW w \in Workers, Handle(w) PROVE UNCHANGED <<status, runners>>
    <2>1. held[w] \in Claim
      BY <1>0, <1>3 DEF Handle, TypeOK
    <2>2. /\ job' = job
          /\ \A v \in Workers : /\ Busy(v)' <=> Busy(v)
                                /\ Busy(v) => held'[v].job = held[v].job
      BY <1>0, <1>3, <2>1 DEF Handle, TypeOK, Busy, Claim
    <2> QED BY <1>0, <2>2, ContractStutter
  <1>4. ASSUME NEW w \in Workers, Stop(w) PROVE UNCHANGED <<status, runners>>
    BY <1>4 DEF Stop, Runners, Busy
  <1>5. ASSUME NEW w \in Workers, ClaimCommit(w) \/ ClaimLost(w) PROVE Contract!Next
    <2>1. PICK k \in Jobs : k = held[w].job
      BY <1>0, <1>5 DEF ClaimCommit, ClaimLost, TypeOK, Claim
    <2>2. pc[w] = "locked" /\ ~Busy(w)
      BY <1>5 DEF ClaimCommit, ClaimLost, Busy
    <2>3. status[k] \in {"queued", "running"}
      BY <1>0, <2>1, <2>2 DEF LockInv, Runnable
    <2>4. \A v \in Workers : Busy(v) => held[v].job # k
      BY <2>1, <2>2, LockedIsFree
    <2>5. runners[k] = {}
      BY <2>4 DEF Runners
    <2>6. status' = [status EXCEPT ![k] = "running"]
      <3>1. job' = [job EXCEPT ![k] = Claimed(job[k], held[w].at)]
        BY <1>5, <2>1 DEF ClaimCommit, ClaimLost
      <3>2. Claimed(job[k], held[w].at).status = "running"
        BY DEF Claimed
      <3> QED BY <1>0, <3>1, <3>2 DEF TypeOK
    <2>7. CASE ClaimCommit(w)
      <3>1. /\ Busy(w)' /\ held' = held
            /\ \A v \in Workers \ {w} : Busy(v)' <=> Busy(v)
        BY <1>0, <2>7 DEF ClaimCommit, Busy, TypeOK
      <3>2. Runners(k)' = {w}
        BY <2>1, <2>4, <3>1 DEF Runners
      <3>3. \A j \in Jobs \ {k} : Runners(j)' = Runners(j)
        BY <2>1, <2>2, <3>1 DEF Runners
      <3>4. runners' = [runners EXCEPT ![k] = {w}]
        BY <3>2, <3>3
      <3> QED BY <2>3, <2>5, <2>6, <3>4 DEF Contract!Next, Contract!Take
    <2>8. CASE ClaimLost(w)
      <3>1. \A v \in Workers : /\ Busy(v)' <=> Busy(v)
                               /\ Busy(v) => held'[v].job = held[v].job
        BY <1>0, <2>2, <2>8 DEF ClaimLost, Busy, TypeOK
      <3>2. runners' = runners
        BY <3>1 DEF Runners
      <3> QED BY <2>3, <2>5, <2>6, <3>2 DEF Contract!Next, Contract!TakeLost
    <2> QED BY <1>5, <2>7, <2>8
  <1>6. ASSUME NEW w \in Workers, Finish(w) PROVE Contract!Next
    <2>1. /\ Busy(w) /\ ~Busy(w)'
          /\ \A v \in Workers \ {w} : /\ Busy(v)' <=> Busy(v)
                                      /\ Busy(v) => held'[v].job = held[v].job
      BY <1>0, <1>6 DEF Finish, Busy, TypeOK
    <2>2. PICK k : k = held[w].job
      OBVIOUS
    <2>3. /\ k \in Jobs /\ runners[k] = {w} /\ runners' = [runners EXCEPT ![k] = {}]
      BY <2>1, <2>2, RunnersDrop
    <2>4. FinishStatus(held[w]) \in {"completed", "failed", "queued"}
      BY <1>0, <1>6, FinishArguments DEF Finish, TypeOK
    <2>5. status' = [status EXCEPT ![k] = FinishStatus(held[w])]
      BY <1>0, <1>6, <2>2, <2>3 DEF Finish, Finished, TypeOK
    <2>6. status[k] = "running"
      BY <1>0, <2>1, <2>2, <2>3 DEF LeaseInv
    <2> QED BY <2>3, <2>4, <2>5, <2>6 DEF Contract!Next, Contract!Report, Contract!Terminal
  <1>7. ASSUME NEW w \in Workers, DatabaseError(w) \/ Crash(w)
        PROVE  Contract!Next \/ UNCHANGED <<status, runners>>
    <2>1. /\ ~Busy(w)' /\ job' = job
          /\ \A v \in Workers \ {w} : /\ Busy(v)' <=> Busy(v)
                                      /\ Busy(v) => held'[v].job = held[v].job
      BY <1>0, <1>7 DEF DatabaseError, Crash, Busy, TypeOK
    <2>2. CASE Busy(w)
      <3>1. PICK k : k = held[w].job
        OBVIOUS
      <3>2. /\ k \in Jobs /\ runners[k] = {w} /\ runners' = [runners EXCEPT ![k] = {}]
        BY <2>1, <2>2, <3>1, RunnersDrop
      <3> QED BY <2>1, <3>2 DEF Contract!Next, Contract!Abandon
    <2>3. CASE ~Busy(w)
      BY <1>0, <2>1, <2>3, ContractStutter
    <2> QED BY <2>2, <2>3
  <1>8. CASE Tick \/ UNCHANGED vars
    BY <1>8 DEF Tick, vars, Runners, Busy
  <1> QED BY <1>1, <1>2, <1>3, <1>4, <1>5, <1>6, <1>7, <1>8 DEF Next

\* As long as no worker outlives its lease, the queue keeps the contract its
\* clients rely on: exclusive runs, and outcomes that are final.
THEOREM TimelyImplementsContract == ASSUME Timely PROVE Spec => ImplementsContract
  <1>1. Init => Contract!Init
    BY DEF Init, Contract!Init, Runners, Busy
  <1> QED BY <1>1, ContractStep, SafeInvariant, PTL DEF Spec, ImplementsContract, Contract!Spec

=============================================================================
