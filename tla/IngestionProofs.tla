-------------------------- MODULE IngestionProofs --------------------------
(***************************************************************************)
(* Proofs about the service without a database, for any number of request   *)
(* threads, jobs, callers and versions: no job is lost by an orderly exit,  *)
(* jobs run in the order of the queue, and the two contracts are kept.      *)
(***************************************************************************)
EXTENDS Ingestion, TLAPS, SequenceTheorems, WellFoundedInduction

-----------------------------------------------------------------------------
(* Where a job is.                                                         *)

Putting(k, j) == pc[k] = "put" /\ task[k] = j

\* A job that is queued is in the queue or about to be put there, once; the one
\* that runs is the worker's.
PlacesInv ==
    /\ \A k \in Threads : pc[k] = "put" => jobs[task[k]].status = "queued"
    /\ \A k, l \in Threads : pc[k] = "put" /\ pc[l] = "put" /\ task[k] = task[l] => k = l
    /\ \A i \in 1..Len(queue) : queue[i] # 0 => jobs[queue[i]].status = "queued"
    /\ \A h, i \in 1..Len(queue) : queue[h] = queue[i] => h = i
    /\ \A k \in Threads, i \in 1..Len(queue) : pc[k] = "put" => task[k] # queue[i]
    /\ \A j \in 1..Len(jobs) : jobs[j].status = "queued" =>
           (\E i \in 1..Len(queue) : queue[i] = j) \/ (\E k \in Threads : Putting(k, j))
    /\ \A j \in 1..Len(jobs) : jobs[j].status = "running" => job = j \/ pc[worker] = "killed"
    /\ job # 0 => jobs[job].status = "running"
    /\ job # 0 <=> pc[worker] \in Working

\* The sentinel is put behind the last job, when no thread can put another.
SentinelInv ==
    /\ server \in {"serving", "closing"} =>
           /\ pc[worker] \notin {"ended", "killed"}
           /\ \A i \in 1..Len(queue) : queue[i] # 0
    /\ server \in {"joining", "exited"} => \A k \in Threads : pc[k] = "idle"
    /\ \A i \in 1..Len(queue) : queue[i] = 0 => i = Len(queue)
    /\ pc[worker] = "ended" => queue = <<>>
    /\ pc[worker] = "killed" => server = "exited"

QueueInv == ControlOK /\ PlacesInv /\ SentinelInv

LEMMA ThreadsAndWorker ==
    /\ worker \in Clients /\ worker \notin Threads /\ Threads \subseteq Clients
    /\ \A k \in Clients : k \in Threads \/ k = worker
  BY IngestionAssumption DEF Clients

\* A request goes on from one place to another.
LEMMA WorkStep ==
    ASSUME QueueInv, NEW k \in Clients, pc[k] \in Working, NEW l \in Working, Goto(k, l),
           DOMAIN task' = Clients, task'[k] \in Task,
           \A m \in Clients \ {k} : task'[m] = task[m],
           UNCHANGED <<job, jobs, queue, inline, server>>
    PROVE  QueueInv'
  <1>1. pc'[k] = l /\ \A m \in Clients \ {k} : pc'[m] = pc[m]
    BY DEF QueueInv, ControlOK, Goto
  <1>2. pc[k] # "put" /\ l # "put" /\ pc[k] # "idle" /\ l \notin {"idle", "ended", "killed"}
    BY DEF Working
  <1>3. ControlOK'
    <2>1. pc' \in [Clients -> Working \cup {"idle", "put", "ended", "killed"}]
      BY DEF QueueInv, ControlOK, Goto
    <2> QED BY <1>1, <1>2, <2>1, ThreadsAndWorker DEF QueueInv, ControlOK
  <1>4. \A m \in Threads : /\ pc'[m] = "put" <=> pc[m] = "put"
                           /\ pc[m] = "put" => task'[m] = task[m]
    BY <1>1, <1>2, ThreadsAndWorker
  <1>5. PlacesInv'
    <2>1. pc'[worker] \in Working <=> pc[worker] \in Working
      BY <1>1, ThreadsAndWorker
    <2>2. pc[worker] = "killed" => pc'[worker] = "killed"
      BY <1>1, <1>2, ThreadsAndWorker DEF Working
    <2> QED BY <1>4, <2>1, <2>2 DEF QueueInv, PlacesInv, Putting
  <1>6. SentinelInv'
    <2>1. pc'[worker] \in {"ended", "killed"} => pc'[worker] = pc[worker]
      BY <1>1, <1>2, ThreadsAndWorker
    <2>2. server \in {"joining", "exited"} => \A m \in Threads : pc'[m] = "idle"
      BY <1>1, <1>2, ThreadsAndWorker DEF QueueInv, SentinelInv
    <2> QED BY <2>1, <2>2 DEF QueueInv, SentinelInv
  <1> QED BY <1>3, <1>5, <1>6 DEF QueueInv

LEMMA StatusChange ==
    ASSUME ControlOK, NEW j \in 1..Len(jobs), NEW s \in Statuses,
           jobs' = [jobs EXCEPT ![j].status = s]
    PROVE  /\ jobs' \in Seq([status : Statuses, upload : Uploads]) /\ Len(jobs') = Len(jobs)
           /\ jobs'[j].status = s
           /\ \A i \in 1..Len(jobs) : i # j => jobs'[i] = jobs[i]
  <1> DEFINE Job == [status : Statuses, upload : Uploads]
             new == [jobs[j] EXCEPT !.status = s]
  <1>1. jobs \in Seq(Job)
    BY DEF ControlOK
  <1>2. jobs[j] \in Job
    BY <1>1, ElementOfSeq
  <1>3. new \in Job /\ new.status = s
    BY <1>2
  <1>4. jobs' = [jobs EXCEPT ![j] = new]
    OBVIOUS
  <1> HIDE DEF Job, new
  <1>5. jobs' \in Seq(Job) /\ Len(jobs') = Len(jobs) /\ jobs'[j] = new
        /\ \A i \in 1..Len(jobs) : i # j => jobs'[i] = jobs[i]
    BY <1>1, <1>3, <1>4, ExceptSeq
  <1> QED BY <1>3, <1>5 DEF Job

\* A request is answered, or the worker's job updated.
LEMMA FinishStep ==
    ASSUME QueueInv, NEW k \in Clients, pc[k] \in Working, NEW s \in {"completed", "failed"},
           Finish(k, s), UNCHANGED <<queue, inline, server>>
    PROVE  QueueInv'
  <1>1. /\ pc'[k] = "idle" /\ \A m \in Clients \ {k} : pc'[m] = pc[m]
        /\ pc' \in [Clients -> Working \cup {"idle", "put", "ended", "killed"}]
        /\ DOMAIN task' = Clients /\ \A m \in Clients \ {k} : task'[m] = task[m]
    BY DEF QueueInv, ControlOK, Finish, Goto
  <1>2. pc[k] \notin {"put", "idle", "ended", "killed"} /\ "idle" \notin Working
    BY DEF Working
  <1>3. \A m \in Threads : /\ pc'[m] = "put" <=> pc[m] = "put"
                           /\ pc[m] = "put" => task'[m] = task[m]
    BY <1>1, <1>2, ThreadsAndWorker
  <1>4. SentinelInv'
    <2>1. pc'[worker] \in {"ended", "killed"} => pc'[worker] = pc[worker]
      BY <1>1, ThreadsAndWorker
    <2>2. server \in {"joining", "exited"} => \A m \in Threads : pc'[m] = "idle"
      BY <1>1, <1>2, ThreadsAndWorker DEF QueueInv, SentinelInv
    <2> QED BY <2>1, <2>2 DEF QueueInv, SentinelInv
  <1>5. CASE k # worker
    <2>1. UNCHANGED <<job, jobs>> /\ pc'[worker] = pc[worker]
      BY <1>1, <1>5, ThreadsAndWorker DEF Finish
    <2>2. ControlOK'
      BY <1>1, <1>2, <2>1, ThreadsAndWorker DEF QueueInv, ControlOK
    <2>3. PlacesInv'
      BY <1>3, <2>1 DEF QueueInv, PlacesInv, Putting
    <2> QED BY <1>4, <2>2, <2>3 DEF QueueInv
  <1>6. CASE k = worker
    <2>1. job \in 1..Len(jobs) /\ jobs[job].status = "running"
      BY <1>6 DEF QueueInv, ControlOK, PlacesInv
    <2>2. jobs' = [jobs EXCEPT ![job].status = s] /\ job' = 0
      BY <1>6 DEF Finish
    <2>3. /\ jobs' \in Seq([status : Statuses, upload : Uploads]) /\ Len(jobs') = Len(jobs)
          /\ jobs'[job].status = s
          /\ \A j \in 1..Len(jobs) : j # job => jobs'[j] = jobs[j]
      <3>1. s \in Statuses
        BY DEF Statuses
      <3>2. PICK j \in 1..Len(jobs) : j = job
        BY <2>1
      <3> QED BY <2>2, <3>1, <3>2, StatusChange DEF QueueInv
    <2>4. ControlOK'
      <3>1. queue' \in Seq(0..Len(jobs')) /\ job' \in 0..Len(jobs') /\ Len(jobs') <= MaxJobs
        BY <2>2, <2>3 DEF QueueInv, ControlOK
      <3>2. \A m \in Clients : /\ pc'[m] = "put" => task'[m] \in 1..Len(jobs')
                               /\ pc'[m] \in Working => task'[m] \in Task
        BY <1>1, <1>2, <2>3 DEF QueueInv, ControlOK
      <3> QED BY <1>1, <1>2, <2>3, <3>1, <3>2, ThreadsAndWorker DEF QueueInv, ControlOK
    <2>5. PlacesInv'
      <3>1. \A m \in Threads : pc[m] = "put" => task[m] \in 1..Len(jobs) /\ task[m] # job
        BY <2>1, ThreadsAndWorker DEF QueueInv, ControlOK, PlacesInv
      <3>2. \A i \in 1..Len(queue) : queue[i] # 0 => queue[i] \in 1..Len(jobs) /\ queue[i] # job
        BY <2>1 DEF QueueInv, ControlOK, PlacesInv
      <3>3. \A j \in 1..Len(jobs') : jobs'[j].status = "queued" => jobs[j].status = "queued"
        BY <2>3
      <3>4. \A j \in 1..Len(jobs') : jobs'[j].status # "running"
        BY <1>2, <1>6, <2>1, <2>3 DEF QueueInv, PlacesInv
      <3>5. pc'[worker] \notin Working
        BY <1>1, <1>2, <1>6
      <3> QED BY <1>3, <2>2, <2>3, <3>1, <3>2, <3>3, <3>4, <3>5 DEF QueueInv, PlacesInv, Putting
    <2> QED BY <1>4, <2>4, <2>5 DEF QueueInv
  <1> QED BY <1>5, <1>6

LEMMA CreateStep ==
    ASSUME QueueInv, NEW k \in Threads, NEW up \in Uploads, Create(k, up)
    PROVE  QueueInv'
  <1>1. /\ pc[k] = "idle" /\ pc'[k] = "check" /\ \A m \in Clients \ {k} : pc'[m] = pc[m]
        /\ pc' \in [Clients -> Working \cup {"idle", "put", "ended", "killed"}]
        /\ DOMAIN task' = Clients /\ task'[k] = up /\ \A m \in Clients \ {k} : task'[m] = task[m]
        /\ UNCHANGED <<job, jobs, queue, server>> /\ server \in {"serving", "closing"}
    BY ThreadsAndWorker DEF QueueInv, ControlOK, Create, RequestsRun, Goto, Working
  <1>2. inline' \in 0..MaxInline
    BY IngestionAssumption DEF QueueInv, ControlOK, Create
  <1>3. ControlOK'
    BY <1>1, <1>2, ThreadsAndWorker, IngestionAssumption DEF QueueInv, ControlOK
  <1>4. pc'[worker] = pc[worker] /\ \A m \in Threads : pc'[m] = "put" => m # k /\ pc[m] = "put"
    BY <1>1, ThreadsAndWorker
  <1>5. \A m \in Threads : /\ pc'[m] = "put" <=> pc[m] = "put"
                           /\ pc[m] = "put" => task'[m] = task[m]
    BY <1>1, <1>4, ThreadsAndWorker
  <1>6. PlacesInv'
    BY <1>1, <1>4, <1>5 DEF QueueInv, PlacesInv, Putting
  <1>7. SentinelInv'
    BY <1>1, <1>4 DEF QueueInv, SentinelInv
  <1> QED BY <1>3, <1>6, <1>7 DEF QueueInv

\* A job is recorded, and is to be put by the thread that recorded it.
LEMMA SubmitStep ==
    ASSUME QueueInv, NEW k \in Threads, NEW up \in Uploads, Submit(k, up)
    PROVE  QueueInv'
  <1> DEFINE n == Len(jobs) + 1
  <1>1. /\ pc[k] = "idle" /\ server \in {"serving", "closing"} /\ Len(jobs) < MaxJobs
        /\ jobs' = Append(jobs, [status |-> "queued", upload |-> up])
        /\ UNCHANGED <<job, queue, inline, server>>
    BY DEF Submit, RequestsRun
  <1>2. /\ jobs' \in Seq([status : Statuses, upload : Uploads]) /\ Len(jobs') = n
        /\ jobs'[n].status = "queued" /\ \A j \in 1..Len(jobs) : jobs'[j] = jobs[j]
        /\ Len(jobs) \in Nat /\ n \in 1..MaxJobs
    <2>1. [status |-> "queued", upload |-> up] \in [status : Statuses, upload : Uploads]
      BY DEF Statuses
    <2> QED BY <1>1, <2>1, IngestionAssumption DEF QueueInv, ControlOK
  <1>3. /\ pc'[k] = "put" /\ \A m \in Clients \ {k} : pc'[m] = pc[m]
        /\ pc' \in [Clients -> Working \cup {"idle", "put", "ended", "killed"}]
        /\ DOMAIN task' = Clients /\ task'[k] = n /\ \A m \in Clients \ {k} : task'[m] = task[m]
    BY <1>2, ThreadsAndWorker DEF QueueInv, ControlOK, Submit, Goto
  <1>4. ControlOK'
    <2>1. queue' \in Seq(0..Len(jobs')) /\ job' \in 0..Len(jobs')
      BY <1>1, <1>2 DEF QueueInv, ControlOK
    <2>2. \A m \in Clients : /\ pc'[m] = "put" => task'[m] \in 1..Len(jobs')
                             /\ pc'[m] \in Working => task'[m] \in Task
      BY <1>2, <1>3 DEF QueueInv, ControlOK, Working
    <2> QED BY <1>1, <1>2, <1>3, <2>1, <2>2, ThreadsAndWorker, IngestionAssumption
            DEF QueueInv, ControlOK
  <1>5. PlacesInv'
    <2>1. pc'[worker] = pc[worker]
      BY <1>3, ThreadsAndWorker
    <2>2. \A m \in Threads \ {k} : pc[m] = "put" => task[m] \in 1..Len(jobs)
      BY ThreadsAndWorker DEF QueueInv, ControlOK
    <2>3. \A i \in 1..Len(queue) : queue[i] \in 0..Len(jobs)
      BY DEF QueueInv, ControlOK
    <2>4. job \in 0..Len(jobs)
      BY DEF QueueInv, ControlOK
    <2> HIDE DEF n
    <2>5. n = Len(jobs) + 1
      BY DEF n
    <2>6. \A m \in Threads : pc'[m] = "put" => jobs'[task'[m]].status = "queued"
      BY <1>2, <1>3, <2>2, ThreadsAndWorker DEF QueueInv, PlacesInv
    <2>7. \A m, l \in Threads : pc'[m] = "put" /\ pc'[l] = "put" /\ task'[m] = task'[l] => m = l
      BY <1>2, <1>3, <2>2, <2>5, ThreadsAndWorker DEF QueueInv, PlacesInv
    <2>8. \A i \in 1..Len(queue) : queue[i] # 0 => jobs'[queue[i]].status = "queued"
      BY <1>2, <2>3 DEF QueueInv, PlacesInv
    <2>9. \A m \in Threads, i \in 1..Len(queue) : pc'[m] = "put" => task'[m] # queue[i]
      BY <1>2, <1>3, <2>3, <2>5, ThreadsAndWorker DEF QueueInv, PlacesInv
    <2>10. ASSUME NEW j \in 1..Len(jobs'), jobs'[j].status = "queued"
           PROVE  (\E i \in 1..Len(queue) : queue[i] = j) \/ (\E m \in Threads : Putting(m, j)')
      <3>1. CASE j = n
        BY <1>3, <3>1 DEF Putting
      <3>2. CASE j \in 1..Len(jobs)
        <4>1. \A m \in Threads : Putting(m, j) => Putting(m, j)'
          BY <1>1, <1>3, ThreadsAndWorker DEF Putting
        <4> QED BY <1>2, <2>10, <3>2, <4>1 DEF QueueInv, PlacesInv
      <3> QED BY <1>2, <2>5, <2>10, <3>1, <3>2
    <2>11. \A j \in 1..Len(jobs') : jobs'[j].status = "running" => job = j \/ pc[worker] = "killed"
      BY <1>2, <2>5 DEF QueueInv, PlacesInv
    <2>12. job # 0 => jobs'[job].status = "running"
      BY <1>2, <2>4 DEF QueueInv, PlacesInv
    <2> QED BY <1>1, <2>1, <2>6, <2>7, <2>8, <2>9, <2>10, <2>11, <2>12 DEF QueueInv, PlacesInv
  <1>6. SentinelInv'
    BY <1>1, <1>3, ThreadsAndWorker DEF QueueInv, SentinelInv
  <1> QED BY <1>4, <1>5, <1>6 DEF QueueInv

LEMMA QueueAppend ==
    ASSUME ControlOK, NEW j \in 0..Len(jobs), queue' = Append(queue, j)
    PROVE  /\ queue' \in Seq(0..Len(jobs)) /\ Len(queue) \in Nat /\ Len(queue') = Len(queue) + 1
           /\ queue'[Len(queue) + 1] = j /\ \A i \in 1..Len(queue) : queue'[i] = queue[i]
           /\ \A i \in 1..Len(queue') : i \in 1..Len(queue) \/ i = Len(queue) + 1
  <1>1. queue \in Seq(0..Len(jobs))
    BY DEF ControlOK
  <1> QED BY <1>1, AppendProperties

\* A recorded job reaches the queue; no sentinel is there yet.
LEMMA PutStep ==
    ASSUME QueueInv, NEW k \in Threads, Put(k)
    PROVE  QueueInv'
  <1>1. /\ pc[k] = "put" /\ pc'[k] = "idle" /\ \A m \in Clients \ {k} : pc'[m] = pc[m]
        /\ pc' \in [Clients -> Working \cup {"idle", "put", "ended", "killed"}]
        /\ DOMAIN task' = Clients /\ \A m \in Clients \ {k} : task'[m] = task[m]
        /\ UNCHANGED <<job, jobs, inline, server>>
    BY ThreadsAndWorker DEF QueueInv, ControlOK, Put, Goto
  <1>2. PICK j \in 1..Len(jobs) : j = task[k]
    BY <1>1, ThreadsAndWorker DEF QueueInv, ControlOK
  <1>3. /\ queue' \in Seq(0..Len(jobs)) /\ Len(queue) \in Nat /\ Len(queue') = Len(queue) + 1
        /\ queue'[Len(queue) + 1] = j /\ \A i \in 1..Len(queue) : queue'[i] = queue[i]
        /\ \A i \in 1..Len(queue') : i \in 1..Len(queue) \/ i = Len(queue) + 1
    BY <1>2, QueueAppend DEF QueueInv, Put
  <1>4. \A m \in Threads : pc'[m] = "put" => m # k /\ pc[m] = "put" /\ task'[m] = task[m]
    BY <1>1, ThreadsAndWorker
  <1>5. pc'[worker] = pc[worker] /\ worker \in Clients
    BY <1>1, ThreadsAndWorker
  <1>6. ControlOK'
    <2>1. \A m \in Clients : /\ pc'[m] = "put" => task'[m] \in 1..Len(jobs)
                             /\ pc'[m] \in Working => task'[m] \in Task
      BY <1>1 DEF QueueInv, ControlOK, Working
    <2> QED BY <1>1, <1>3, <1>5, <2>1, ThreadsAndWorker DEF QueueInv, ControlOK
  <1>7. PlacesInv'
    <2>1. jobs[j].status = "queued" /\ \A i \in 1..Len(queue) : queue[i] # j
      BY <1>1, <1>2 DEF QueueInv, PlacesInv
    <2>2. \A i \in 1..Len(queue') : queue'[i] # 0 => jobs[queue'[i]].status = "queued"
      BY <1>3, <2>1 DEF QueueInv, PlacesInv
    <2>3. \A h, i \in 1..Len(queue') : queue'[h] = queue'[i] => h = i
      BY <1>3, <2>1 DEF QueueInv, PlacesInv
    <2>4. \A m \in Threads, i \in 1..Len(queue') : pc'[m] = "put" => task'[m] # queue'[i]
      <3>1. \A m \in Threads : pc'[m] = "put" => task'[m] = task[m] /\ task[m] # j
        BY <1>1, <1>2, <1>4 DEF QueueInv, PlacesInv
      <3>2. \A m \in Threads, i \in 1..Len(queue) : pc'[m] = "put" => task[m] # queue[i]
        BY <1>4 DEF QueueInv, PlacesInv
      <3> QED BY <1>3, <3>1, <3>2
    <2>5. ASSUME NEW l \in 1..Len(jobs), jobs[l].status = "queued"
          PROVE  (\E i \in 1..Len(queue') : queue'[i] = l) \/ (\E m \in Threads : Putting(m, l)')
      <3>1. CASE l = j
        BY <1>3, <3>1
      <3>2. ASSUME NEW i \in 1..Len(queue), queue[i] = l PROVE \E h \in 1..Len(queue') : queue'[h] = l
        BY <1>3, <3>2
      <3>3. ASSUME NEW m \in Threads, Putting(m, l), l # j PROVE Putting(m, l)'
        BY <1>1, <1>2, <3>3, ThreadsAndWorker DEF Putting
      <3> QED BY <2>5, <3>1, <3>2, <3>3 DEF QueueInv, PlacesInv
    <2> QED BY <1>1, <1>4, <1>5, <2>2, <2>3, <2>4, <2>5 DEF QueueInv, PlacesInv
  <1>8. SentinelInv'
    <2>1. server \notin {"joining", "exited"}
      BY <1>1 DEF QueueInv, SentinelInv
    <2>2. server \in {"serving", "closing"}
      BY <2>1 DEF QueueInv, ControlOK
    <2>3. \A i \in 1..Len(queue') : queue'[i] # 0
      BY <1>2, <1>3, <2>2 DEF QueueInv, SentinelInv
    <2> QED BY <1>1, <1>5, <2>1, <2>2, <2>3 DEF QueueInv, SentinelInv
  <1> QED BY <1>6, <1>7, <1>8 DEF QueueInv

\* What is left of the queue when its head was taken.
LEMMA TakeQueue ==
    ASSUME QueueInv, Take
    PROVE  /\ pc[worker] = "idle" /\ server # "exited"
           /\ Len(queue) \in Nat /\ Len(queue) >= 1 /\ Head(queue) = queue[1]
           /\ queue' \in Seq(0..Len(jobs)) /\ Len(queue') = Len(queue) - 1
           /\ \A i \in 1..Len(queue') : i + 1 \in 2..Len(queue) /\ queue'[i] = queue[i + 1]
           /\ \A i \in 2..Len(queue) : i - 1 \in 1..Len(queue') /\ queue'[i - 1] = queue[i]
           /\ queue[1] \in 0..Len(jobs) /\ \A i \in 2..Len(queue) : queue[i] # queue[1]
  <1>1. queue \in Seq(0..Len(jobs)) /\ queue # <<>> /\ queue' = Tail(queue)
    BY DEF QueueInv, ControlOK, Take
  <1>2. Len(queue) \in Nat /\ Len(queue) >= 1
    BY <1>1, EmptySeq
  <1>3. /\ queue' \in Seq(0..Len(jobs)) /\ Len(queue') = Len(queue) - 1
        /\ \A i \in 1..Len(queue') : queue'[i] = queue[i + 1]
    BY <1>1, HeadTailProperties
  <1>4. \A i \in 2..Len(queue) : i - 1 \in 1..Len(queue') /\ (i - 1) + 1 = i /\ i \in 1..Len(queue)
    BY <1>2, <1>3
  <1>5. \A i \in 2..Len(queue) : queue'[i - 1] = queue[i] /\ queue[i] # queue[1]
    BY <1>2, <1>3, <1>4 DEF QueueInv, PlacesInv
  <1>6. Head(queue) = queue[1] /\ queue[1] \in 0..Len(jobs)
    BY <1>1, <1>2
  <1> QED BY <1>2, <1>3, <1>4, <1>5, <1>6 DEF Take

\* The worker takes the sentinel, the last of the queue, or the next job.
LEMMA TakeStep ==
    ASSUME QueueInv, Take
    PROVE  QueueInv'
  <1>1. /\ pc[worker] = "idle" /\ server # "exited" /\ job = 0
        /\ Len(queue) \in Nat /\ Len(queue) >= 1
        /\ queue' \in Seq(0..Len(jobs)) /\ Len(queue') = Len(queue) - 1
        /\ \A i \in 1..Len(queue') : i + 1 \in 2..Len(queue) /\ queue'[i] = queue[i + 1]
        /\ \A i \in 2..Len(queue) : i - 1 \in 1..Len(queue') /\ queue'[i - 1] = queue[i]
    BY TakeQueue DEF QueueInv, PlacesInv, Working
  <1>2. PICK j \in 0..Len(jobs) : j = queue[1] /\ j = Head(queue) /\ \A i \in 2..Len(queue) : queue[i] # j
    BY TakeQueue
  <1>3. UNCHANGED <<inline, server>>
    BY DEF Take
  <1>4. /\ \A h, i \in 1..Len(queue') : queue'[h] = queue'[i] => h = i
        /\ \A m \in Threads, i \in 1..Len(queue') : pc[m] = "put" => task[m] # queue'[i]
        /\ \A i \in 1..Len(queue') : queue'[i] # 0 => jobs[queue'[i]].status = "queued"
        /\ \A i \in 1..Len(queue') : queue'[i] = 0 => i = Len(queue')
        /\ \A i \in 1..Len(queue') : queue'[i] # j
    <2>1. \A i \in 1..Len(queue') : i + 1 \in 1..Len(queue) /\ queue'[i] = queue[i + 1]
      BY <1>1
    <2>2. \A h, i \in 1..Len(queue') : queue'[h] = queue'[i] => h = i
      BY <1>1, <2>1 DEF QueueInv, PlacesInv
    <2>3. \A i \in 1..Len(queue') : queue'[i] = 0 => i = Len(queue')
      BY <1>1, <2>1 DEF QueueInv, SentinelInv
    <2> QED BY <1>1, <1>2, <2>1, <2>2, <2>3 DEF QueueInv, PlacesInv
  <1>5. CASE j = 0
    <2>1. /\ pc'[worker] = "ended" /\ \A m \in Clients \ {worker} : pc'[m] = pc[m]
          /\ pc' \in [Clients -> Working \cup {"idle", "put", "ended", "killed"}]
          /\ UNCHANGED <<task, job, jobs>>
      BY <1>2, <1>5, ThreadsAndWorker DEF QueueInv, ControlOK, Take, Goto
    <2>2. \A m \in Threads : pc'[m] = pc[m]
      BY <2>1, ThreadsAndWorker
    <2>3. queue' = <<>>
      <3>1. 1 = Len(queue)
        BY <1>1, <1>2, <1>5 DEF QueueInv, SentinelInv
      <3>2. Len(queue') = Len(queue) - 1
        BY <1>1
      <3>3. Len(queue') = 0
        BY <3>1, <3>2
      <3> QED BY <1>1, <3>3, EmptySeq
    <2>4. ControlOK'
      BY <1>1, <1>3, <2>1, <2>2, ThreadsAndWorker DEF QueueInv, ControlOK, Working
    <2>5. PlacesInv'
      <3>1. \A l \in 1..Len(jobs) : \A i \in 1..Len(queue) : queue[i] = l => i \in 2..Len(queue)
        BY <1>1, <1>2, <1>5
      <3>2. \A l \in 1..Len(jobs) : (\E i \in 1..Len(queue) : queue[i] = l)
                => \E i \in 1..Len(queue') : queue'[i] = l
        BY <1>1, <3>1
      <3>3. \A l, m : Putting(m, l) /\ m \in Threads => Putting(m, l)'
        BY <2>1, <2>2 DEF Putting
      <3>4. pc'[worker] \notin Working /\ pc[worker] # "killed"
        BY <1>1, <2>1 DEF Working
      <3>5. \A l \in 1..Len(jobs) : jobs[l].status = "queued" =>
                (\E i \in 1..Len(queue') : queue'[i] = l) \/ (\E m \in Threads : Putting(m, l)')
        BY <3>2, <3>3 DEF QueueInv, PlacesInv
      <3>6. \A l \in 1..Len(jobs) : jobs[l].status # "running"
        BY <1>1, <3>4 DEF QueueInv, PlacesInv
      <3>7. /\ \A m \in Threads : pc'[m] = "put" => jobs'[task'[m]].status = "queued"
            /\ \A m, l \in Threads : pc'[m] = "put" /\ pc'[l] = "put" /\ task'[m] = task'[l] => m = l
        BY <2>1, <2>2 DEF QueueInv, PlacesInv
      <3>8. \A m \in Threads, i \in 1..Len(queue') : pc'[m] = "put" => task'[m] # queue'[i]
        BY <1>4, <2>1, <2>2
      <3>9. job' = 0 /\ jobs' = jobs
        BY <1>1, <2>1
      <3> QED BY <1>4, <3>4, <3>5, <3>6, <3>7, <3>8, <3>9 DEF PlacesInv
    <2>6. SentinelInv'
      <3>1. server \notin {"serving", "closing"}
        BY <1>1, <1>2, <1>5 DEF QueueInv, SentinelInv
      <3> QED BY <1>3, <1>4, <2>1, <2>2, <2>3, <3>1 DEF QueueInv, SentinelInv
    <2> QED BY <2>4, <2>5, <2>6 DEF QueueInv
  <1>6. CASE j # 0
    <2>1. /\ pc'[worker] = "check" /\ \A m \in Clients \ {worker} : pc'[m] = pc[m]
          /\ pc' \in [Clients -> Working \cup {"idle", "put", "ended", "killed"}]
          /\ DOMAIN task' = Clients /\ task'[worker] = jobs[j].upload
          /\ \A m \in Clients \ {worker} : task'[m] = task[m]
          /\ jobs' = [jobs EXCEPT ![j].status = "running"] /\ job' = j
      <3>1. /\ pc' = [pc EXCEPT ![worker] = "check"]
            /\ task' = [task EXCEPT ![worker] = jobs[j].upload]
            /\ jobs' = [jobs EXCEPT ![j].status = "running"] /\ job' = j
        BY <1>2, <1>6 DEF Take, Goto
      <3>2. "check" \in Working
        BY DEF Working
      <3> QED BY <3>1, <3>2, ThreadsAndWorker DEF QueueInv, ControlOK
    <2>2. \A m \in Threads : pc'[m] = pc[m] /\ task'[m] = task[m]
      BY <2>1, ThreadsAndWorker
    <2>3. j \in 1..Len(jobs) /\ "running" \in Statuses
      BY <1>6 DEF Statuses
    <2>4. /\ jobs' \in Seq([status : Statuses, upload : Uploads]) /\ Len(jobs') = Len(jobs)
          /\ jobs'[j].status = "running"
          /\ \A i \in 1..Len(jobs) : i # j => jobs'[i] = jobs[i]
      BY <2>1, <2>3, StatusChange DEF QueueInv
    <2>5. ControlOK'
      <3>1. jobs[j] \in [status : Statuses, upload : Uploads]
        BY <2>3, ElementOfSeq DEF QueueInv, ControlOK
      <3>2. task'[worker] \in Task
        BY <2>1, <3>1, IngestionAssumption
      <3>3. \A m \in Clients : /\ pc'[m] = "put" => task'[m] \in 1..Len(jobs')
                               /\ pc'[m] \in Working => task'[m] \in Task
        BY <2>1, <2>4, <3>2 DEF QueueInv, ControlOK
      <3>4. queue' \in Seq(0..Len(jobs')) /\ job' \in 0..Len(jobs') /\ Len(jobs') <= MaxJobs
        BY <1>1, <2>1, <2>4 DEF QueueInv, ControlOK
      <3> QED BY <1>3, <2>1, <2>2, <2>4, <3>3, <3>4, ThreadsAndWorker DEF QueueInv, ControlOK
    <2>6. PlacesInv'
      <3>1. \A m \in Threads : pc[m] = "put" => task[m] \in 1..Len(jobs) /\ task[m] # j
        BY <1>1, <1>2, ThreadsAndWorker DEF QueueInv, ControlOK, PlacesInv
      <3>2. \A i \in 1..Len(queue') : queue'[i] # 0 => jobs'[queue'[i]].status = "queued"
        <4>1. \A i \in 1..Len(queue') : queue'[i] # 0 => queue'[i] \in 1..Len(jobs)
          BY <1>1
        <4> QED BY <1>4, <2>4, <4>1
      <3>3. ASSUME NEW l \in 1..Len(jobs'), jobs'[l].status = "queued"
            PROVE  (\E i \in 1..Len(queue') : queue'[i] = l) \/ (\E m \in Threads : Putting(m, l)')
        <4>1. l # j /\ jobs[l].status = "queued" /\ l \in 1..Len(jobs)
          BY <2>4, <3>3
        <4>2. ASSUME NEW i \in 1..Len(queue), queue[i] = l
              PROVE  \E h \in 1..Len(queue') : queue'[h] = l
          <5>1. i \in 2..Len(queue)
            BY <1>1, <1>2, <4>1, <4>2
          <5> QED BY <1>1, <4>2, <5>1
        <4>3. \A m \in Threads : Putting(m, l) => Putting(m, l)'
          BY <2>2 DEF Putting
        <4> QED BY <4>1, <4>2, <4>3 DEF QueueInv, PlacesInv
      <3>4. \A l \in 1..Len(jobs') : jobs'[l].status = "running" => l = j
        BY <1>1, <2>4 DEF QueueInv, PlacesInv
      <3>5. pc'[worker] \in Working
        BY <2>1 DEF Working
      <3>6. \A m \in Threads : pc'[m] = "put" => jobs'[task'[m]].status = "queued"
        BY <2>2, <2>4, <3>1 DEF QueueInv, PlacesInv
      <3>7. \A m, l \in Threads : pc'[m] = "put" /\ pc'[l] = "put" /\ task'[m] = task'[l] => m = l
        BY <2>2 DEF QueueInv, PlacesInv
      <3>8. \A m \in Threads, i \in 1..Len(queue') : pc'[m] = "put" => task'[m] # queue'[i]
        BY <1>4, <2>2
      <3> QED BY <1>4, <1>6, <2>1, <2>4, <3>2, <3>3, <3>4, <3>5, <3>6, <3>7, <3>8 DEF PlacesInv
    <2>7. SentinelInv'
      <3>1. server \in {"serving", "closing"} => \A i \in 1..Len(queue') : queue'[i] # 0
        BY <1>1 DEF QueueInv, SentinelInv
      <3> QED BY <1>3, <1>4, <2>1, <2>2, <3>1 DEF QueueInv, SentinelInv
    <2> QED BY <2>5, <2>6, <2>7 DEF QueueInv
  <1> QED BY <1>5, <1>6

LEMMA StopStep ==
    ASSUME QueueInv, StopWorker
    PROVE  QueueInv'
  <1>1. /\ server = "closing" /\ server' = "joining" /\ \A k \in Threads : pc[k] = "idle"
        /\ UNCHANGED <<pc, task, job, jobs, inline>> /\ queue' = Append(queue, 0)
    BY DEF StopWorker
  <1>2. 0 \in 0..Len(jobs)
    BY DEF QueueInv, ControlOK
  <1>3. /\ queue' \in Seq(0..Len(jobs)) /\ Len(queue) \in Nat /\ Len(queue') = Len(queue) + 1
        /\ queue'[Len(queue) + 1] = 0 /\ \A i \in 1..Len(queue) : queue'[i] = queue[i]
        /\ \A i \in 1..Len(queue') : i \in 1..Len(queue) \/ i = Len(queue) + 1
    BY <1>1, <1>2, QueueAppend DEF QueueInv
  <1>4. \A i \in 1..Len(queue) : queue[i] # 0
    BY <1>1 DEF QueueInv, SentinelInv
  <1>5. ControlOK'
    BY <1>1, <1>3 DEF QueueInv, ControlOK
  <1>6. PlacesInv'
    <2>1. /\ \A i \in 1..Len(queue') : queue'[i] # 0 => jobs[queue'[i]].status = "queued"
          /\ \A h, i \in 1..Len(queue') : queue'[h] = queue'[i] => h = i
      <3>1. /\ \A i \in 1..Len(queue) : queue[i] # 0 => jobs[queue[i]].status = "queued"
            /\ \A h, i \in 1..Len(queue) : queue[h] = queue[i] => h = i
        BY DEF QueueInv, PlacesInv
      <3>2. \A i \in 1..Len(queue') : queue'[i] # 0 => jobs[queue'[i]].status = "queued"
        BY <1>3, <3>1
      <3>3. \A h, i \in 1..Len(queue') : queue'[h] = queue'[i] => h = i
        BY <1>3, <1>4, <3>1
      <3> QED BY <3>2, <3>3
    <2>2. \A j \in 1..Len(jobs) : jobs[j].status = "queued" => \E i \in 1..Len(queue') : queue'[i] = j
      <3> SUFFICES ASSUME NEW j \in 1..Len(jobs), jobs[j].status = "queued"
                   PROVE  \E i \in 1..Len(queue') : queue'[i] = j
        OBVIOUS
      <3>1. PICK i \in 1..Len(queue) : queue[i] = j
        BY <1>1 DEF QueueInv, PlacesInv, Putting
      <3> QED BY <1>3, <3>1
    <2> QED BY <1>1, <2>1, <2>2 DEF QueueInv, PlacesInv
  <1>7. SentinelInv'
    BY <1>1, <1>3, <1>4 DEF QueueInv, SentinelInv
  <1> QED BY <1>5, <1>6, <1>7 DEF QueueInv

\* SIGTERM, and the two ways in which join ends.
LEMMA ExitStep ==
    ASSUME QueueInv, Sigterm \/ Joined \/ JoinTimeout
    PROVE  QueueInv'
  <1>1. CASE Sigterm
    BY <1>1 DEF Sigterm, QueueInv, ControlOK, PlacesInv, SentinelInv, Putting
  <1>2. CASE Joined
    BY <1>2 DEF Joined, QueueInv, ControlOK, PlacesInv, SentinelInv, Putting
  <1>3. CASE JoinTimeout
    <2>1. /\ server = "joining" /\ server' = "exited" /\ pc'[worker] = "killed"
          /\ \A m \in Clients \ {worker} : pc'[m] = pc[m] /\ task'[m] = task[m]
          /\ pc' \in [Clients -> Working \cup {"idle", "put", "ended", "killed"}]
          /\ DOMAIN task' = Clients
          /\ job' = 0 /\ UNCHANGED <<jobs, queue, inline>>
      BY <1>3, ThreadsAndWorker DEF JoinTimeout, Goto, QueueInv, ControlOK
    <2>2. \A m \in Threads : pc'[m] = pc[m] /\ task'[m] = task[m]
      BY <2>1, ThreadsAndWorker
    <2>3. "killed" \notin Working
      BY DEF Working
    <2>4. ControlOK'
      <3>1. job' \in 0..Len(jobs')
        BY <2>1 DEF QueueInv, ControlOK
      <3> QED BY <2>1, <2>2, <2>3, <3>1, ThreadsAndWorker DEF QueueInv, ControlOK
    <2>5. PlacesInv'
      BY <2>1, <2>2, <2>3 DEF QueueInv, PlacesInv, Putting
    <2>6. SentinelInv'
      BY <2>1, <2>2 DEF QueueInv, SentinelInv
    <2> QED BY <2>4, <2>5, <2>6 DEF QueueInv
  <1> QED BY <1>1, <1>2, <1>3

LEMMA IngestStep ==
    ASSUME QueueInv, NEW k \in Clients, Ingest(k)
    PROVE  QueueInv'
  <1>1. /\ pc[k] \in Working /\ task[k] \in Task /\ UNCHANGED <<queue, inline, server>>
        /\ DOMAIN task = Clients
    <2>1. pc[k] \in Working /\ UNCHANGED <<queue, inline, server>>
      BY DEF Ingest, Unchanged, Changed, Parse, Reject, Persist, Rename, Working
    <2> QED BY <2>1 DEF QueueInv, ControlOK
  <1>2. CASE \E s \in {"completed", "failed"} : Finish(k, s)
    BY <1>1, <1>2, FinishStep
  <1>3. CASE \E l \in Working : Goto(k, l) /\ UNCHANGED <<task, job, jobs>>
    BY <1>1, <1>3, WorkStep
  <1>4. ASSUME NEW c \in Contents, Goto(k, "rename"), task' = [task EXCEPT ![k].content = c],
               UNCHANGED <<job, jobs>>
        PROVE  QueueInv'
    <2>1. [task[k] EXCEPT !.content = c] \in Task
      BY <1>1 DEF Task
    <2>2. /\ task'[k] = [task[k] EXCEPT !.content = c] /\ DOMAIN task' = Clients
          /\ \A m \in Clients \ {k} : task'[m] = task[m]
      BY <1>1, <1>4
    <2>3. "rename" \in Working
      BY DEF Working
    <2> QED BY <1>1, <1>4, <2>1, <2>2, <2>3, WorkStep
  <1>5. CASE Unchanged(k)
    BY <1>2, <1>4, <1>5 DEF Unchanged, Current, Versions
  <1>6. CASE Changed(k) \/ Parse(k)
    BY <1>3, <1>6 DEF Changed, Parse, Working
  <1>7. CASE Reject(k) \/ Persist(k) \/ Rename(k)
    BY <1>2, <1>7 DEF Reject, Persist, Rename
  <1> QED BY <1>5, <1>6, <1>7 DEF Ingest

LEMMA QueueStep == QueueInv /\ [Next]_vars => QueueInv'
  <1> SUFFICES ASSUME QueueInv, [Next]_vars PROVE QueueInv'
    OBVIOUS
  <1>1. CASE UNCHANGED <<pc, task, job, jobs, queue, inline, server>>
    BY <1>1 DEF QueueInv, ControlOK, PlacesInv, SentinelInv, Putting
  <1>2. ASSUME NEW u \in Users, NEW c \in Contents,
               Delete(u, c) \/ \E p \in Patches : Patch(u, c, p)
        PROVE  QueueInv'
    BY <1>1, <1>2 DEF Delete, Patch
  <1>3. CASE Exited \/ UNCHANGED vars
    BY <1>1, <1>3 DEF Exited, vars
  <1> QED BY <1>2, <1>3, CreateStep, SubmitStep, PutStep, IngestStep, TakeStep, StopStep, ExitStep
          DEF Next

LEMMA QueueInit == Init => QueueInv
  <1> SUFFICES ASSUME Init PROVE QueueInv
    OBVIOUS
  <1>1. /\ jobs = <<>> /\ queue = <<>> /\ Len(<<>>) = 0 /\ job = 0 /\ inline = 0
        /\ server = "serving" /\ pc = [k \in Clients |-> "idle"] /\ DOMAIN task = Clients
    BY DEF Init
  <1>2. "idle" \notin Working
    BY DEF Working
  <1>3. \A k \in Clients : pc[k] = "idle"
    BY <1>1
  <1>4. ControlOK
    BY <1>1, <1>2, <1>3, ThreadsAndWorker, IngestionAssumption DEF ControlOK
  <1>5. PlacesInv /\ SentinelInv
    BY <1>1, <1>2, <1>3, ThreadsAndWorker DEF PlacesInv, SentinelInv
  <1> QED BY <1>4, <1>5 DEF QueueInv

LEMMA QueueInvariant == Spec => []QueueInv
  BY QueueInit, QueueStep, PTL DEF Spec

\* However many threads submit jobs while SIGTERM arrives, a worker that has
\* ended leaves no job of a client behind: the sentinel is the last in the queue.
THEOREM ExitIsGraceful == Spec => []GracefulExit
  <1>1. QueueInv => GracefulExit
    <2> SUFFICES ASSUME QueueInv, server = "exited", pc[worker] = "ended", NEW j \in 1..Len(jobs)
                 PROVE  jobs[j].status \in {"completed", "failed"}
      BY DEF GracefulExit
    <2>1. queue = <<>> /\ \A k \in Threads : pc[k] = "idle"
      BY DEF QueueInv, SentinelInv
    <2>2. jobs[j].status # "queued"
      <3>1. ~\E i \in 1..Len(queue) : queue[i] = j
        BY <2>1
      <3>2. ~\E k \in Threads : Putting(k, j)
        BY <2>1 DEF Putting
      <3> QED BY <3>1, <3>2 DEF QueueInv, PlacesInv
    <2>3. jobs[j].status # "running"
      <3>1. "ended" \notin Working
        BY DEF Working
      <3> QED BY <3>1 DEF QueueInv, ControlOK, PlacesInv
    <2>4. jobs[j] \in [status : Statuses, upload : Uploads]
      BY ElementOfSeq DEF QueueInv, ControlOK
    <2> QED BY <2>2, <2>3, <2>4 DEF Statuses
  <1> QED BY <1>1, QueueInvariant, PTL

-----------------------------------------------------------------------------
(* What a step does to the jobs.                                           *)

Submits(up) == /\ Len(jobs) < MaxJobs /\ UNCHANGED job
               /\ jobs' = Append(jobs, [status |-> "queued", upload |-> up])

Takes(j) == /\ queue # <<>> /\ j = queue[1] /\ jobs[j].status = "queued" /\ job = 0 /\ job' = j
            /\ jobs' = [jobs EXCEPT ![j].status = "running"]

Ends(j, s) == /\ job = j /\ jobs[j].status = "running" /\ job' = 0
              /\ jobs' = [jobs EXCEPT ![j].status = s]

Drops == UNCHANGED jobs /\ job' = 0

LEMMA JobSteps ==
    ASSUME QueueInv, [Next]_vars
    PROVE  \/ UNCHANGED <<job, jobs>> \/ Drops
           \/ \E up \in Uploads : Submits(up)
           \/ \E j \in 1..Len(jobs) : Takes(j) \/ \E s \in {"completed", "failed"} : Ends(j, s)
  <1> DEFINE Goal == \/ UNCHANGED <<job, jobs>> \/ Drops
                     \/ \E up \in Uploads : Submits(up)
                     \/ \E j \in 1..Len(jobs) : Takes(j) \/ \E s \in {"completed", "failed"} : Ends(j, s)
  <1>1. ASSUME NEW k \in Clients, pc[k] \in Working, NEW s \in {"completed", "failed"}, Finish(k, s)
        PROVE  Goal
    <2>1. CASE k = worker
      <3>1. PICK j \in 1..Len(jobs) : j = job /\ jobs[j].status = "running"
        BY <1>1, <2>1 DEF QueueInv, ControlOK, PlacesInv
      <3>2. Ends(j, s)
        BY <1>1, <2>1, <3>1 DEF Finish, Ends
      <3> QED BY <3>2
    <2>2. CASE k # worker
      BY <1>1, <2>2 DEF Finish
    <2> QED BY <2>1, <2>2
  <1>2. ASSUME NEW k \in Clients, Ingest(k) PROVE Goal
    <2>1. UNCHANGED <<job, jobs>> \/ (pc[k] \in Working /\ \E s \in {"completed", "failed"} : Finish(k, s))
      BY <1>2 DEF Ingest, Unchanged, Changed, Parse, Reject, Persist, Rename, Working
    <2> QED BY <1>1, <2>1
  <1>3. ASSUME Take PROVE Goal
    <2>1. PICK j \in 0..Len(jobs) : j = queue[1] /\ j = Head(queue)
      BY <1>3, TakeQueue
    <2>2. CASE j = 0
      BY <1>3, <2>1, <2>2 DEF Take
    <2>3. CASE j # 0
      <3>1. j \in 1..Len(jobs) /\ jobs[j].status = "queued" /\ job = 0
        BY <1>3, <2>1, <2>3, TakeQueue DEF QueueInv, PlacesInv, Working
      <3>2. Takes(j)
        BY <1>3, <2>1, <2>3, <3>1 DEF Take, Takes
      <3> QED BY <3>1, <3>2
    <2> QED BY <2>2, <2>3
  <1>4. ASSUME NEW k \in Threads, NEW up \in Uploads, Submit(k, up) PROVE Goal
    BY <1>4 DEF Submit, Submits
  <1>5. ASSUME JoinTimeout PROVE Goal
    BY <1>5 DEF JoinTimeout, Drops
  <1>6. UNCHANGED <<job, jobs>> \/ JoinTimeout \/ Take
        \/ (\E k \in Clients : Ingest(k)) \/ (\E k \in Threads, up \in Uploads : Submit(k, up))
    BY DEF Next, vars, Create, Put, Delete, Patch, Sigterm, StopWorker, Joined, Exited
  <1> HIDE DEF Goal
  <1>7. ASSUME UNCHANGED <<job, jobs>> PROVE Goal
    BY <1>7 DEF Goal
  <1>8. Goal
    BY <1>2, <1>3, <1>4, <1>5, <1>6, <1>7
  <1> QED BY <1>8 DEF Goal

\* Only the job at the head of the queue can start, and a job that waits behind
\* it is not touched by what the worker, the threads or a shutdown do.
THEOREM JobsInOrder == Spec => NoOvertaking
  <1>1. ASSUME QueueInv, [Next]_vars, NEW i \in 1..Len(queue), i > 1, queue[i] # 0
        PROVE  jobs'[queue[i]] = jobs[queue[i]]
    <2>1. PICK n \in 1..Len(jobs) : n = queue[i]
      BY <1>1 DEF QueueInv, ControlOK
    <2>2. jobs[n].status = "queued" /\ queue[1] # n
      BY <1>1, <2>1 DEF QueueInv, ControlOK, PlacesInv
    <2>3. ASSUME NEW j \in 1..Len(jobs), Takes(j) PROVE jobs'[n] = jobs[n]
      <3>1. "running" \in Statuses
        BY DEF Statuses
      <3> QED BY <2>2, <2>3, <3>1, StatusChange DEF QueueInv, Takes
    <2>4. ASSUME NEW j \in 1..Len(jobs), NEW s \in {"completed", "failed"}, Ends(j, s)
          PROVE  jobs'[n] = jobs[n]
      <3>1. s \in Statuses
        BY DEF Statuses
      <3> QED BY <2>2, <2>4, <3>1, StatusChange DEF QueueInv, Ends
    <2>5. ASSUME NEW up \in Uploads, Submits(up) PROVE jobs'[n] = jobs[n]
      BY <2>5 DEF Submits, QueueInv, ControlOK
    <2>6. jobs'[n] = jobs[n]
      BY <1>1, <2>3, <2>4, <2>5, JobSteps DEF Drops
    <2> QED BY <2>1, <2>6
  <1>2. QueueInv /\ [Next]_vars =>
            [\A i \in 1..Len(queue) : i > 1 /\ queue[i] # 0 => jobs'[queue[i]] = jobs[queue[i]]]_vars
    BY <1>1
  <1> QED BY <1>2, QueueInvariant, PTL DEF Spec, NoOvertaking

-----------------------------------------------------------------------------
(* The contract of the queue.                                              *)

LEMMA Override ==
    ASSUME NEW S, NEW f, NEW g, f = [x \in S |-> f[x]], g = [x \in S |-> g[x]],
           NEW y \in S, \A x \in S \ {y} : g[x] = f[x]
    PROVE  g = [f EXCEPT ![y] = g[y]]
  OBVIOUS

LEMMA QueueContractStep ==
    QueueInv /\ [Next]_vars =>
        [Queue!Next]_<<[j \in Jobs |-> StatusOf(j)], [j \in Jobs |-> IF job = j THEN {worker} ELSE {}]>>
  <1> DEFINE status == [j \in Jobs |-> StatusOf(j)]
             runners == [j \in Jobs |-> IF job = j THEN {worker} ELSE {}]
  <1> SUFFICES ASSUME QueueInv, [Next]_vars PROVE Queue!Next \/ UNCHANGED <<status, runners>>
    OBVIOUS
  <1>1. /\ QueueInv' /\ DOMAIN jobs = 1..Len(jobs) /\ DOMAIN jobs' = 1..Len(jobs')
        /\ Len(jobs) \in Nat /\ Len(jobs) <= MaxJobs /\ MaxJobs \in Nat
        /\ job \in 0..Len(jobs) /\ worker \in {worker}
    BY QueueStep, IngestionAssumption DEF QueueInv, ControlOK
  <1>2. \A j \in 1..Len(jobs) : j \in Jobs
    BY <1>1 DEF Jobs
  <1>3. CASE UNCHANGED <<job, jobs>>
    BY <1>3 DEF StatusOf
  <1>4. CASE Drops
    <2>1. UNCHANGED status
      BY <1>4 DEF Drops, StatusOf
    <2>2. CASE job = 0
      BY <1>4, <2>1, <2>2 DEF Drops
    <2>3. CASE job # 0
      <3>1. PICK j \in Jobs : j = job
        BY <1>1, <1>2, <2>3
      <3>2. runners[j] = {worker} /\ runners' = [runners EXCEPT ![j] = {}]
        <4>1. runners[j] = {worker} /\ \A i \in Jobs : i # j => runners[i] = {}
          BY <3>1
        <4>2. \A i \in Jobs : runners'[i] = {}
          BY <1>4 DEF Drops, Jobs
        <4> QED BY <4>1, <4>2, Override
      <3>3. Queue!Abandon(j, worker)
        BY <2>1, <3>2 DEF Queue!Abandon
      <3> QED BY <1>1, <3>3 DEF Queue!Next
    <2> QED BY <2>2, <2>3
  <1>5. ASSUME NEW up \in Uploads, Submits(up) PROVE Queue!Next
    <2>1. PICK n \in Jobs : n = Len(jobs) + 1
      BY <1>1, <1>5 DEF Submits, Jobs
    <2>2. /\ Len(jobs') = n /\ jobs'[n].status = "queued" /\ \A j \in 1..Len(jobs) : jobs'[j] = jobs[j]
      BY <1>1, <1>5, <2>1 DEF Submits, QueueInv, ControlOK
    <2>3. status[n] = "absent"
      BY <1>1, <2>1 DEF StatusOf
    <2>4. status' = [status EXCEPT ![n] = "queued"]
      <3>1. \A j \in Jobs \ {n} : j \in 1..Len(jobs') <=> j \in 1..Len(jobs)
        BY <1>1, <2>1, <2>2 DEF Jobs
      <3>2. n \in 1..Len(jobs')
        BY <1>1, <2>1, <2>2
      <3>3. status'[n] = "queued" /\ \A j \in Jobs \ {n} : status'[j] = status[j]
        BY <1>1, <2>2, <3>1, <3>2 DEF StatusOf
      <3> QED BY <3>3, Override
    <2>5. UNCHANGED runners
      BY <1>5 DEF Submits
    <2>6. Queue!Submit(n)
      BY <2>3, <2>4, <2>5 DEF Queue!Submit
    <2> QED BY <2>6 DEF Queue!Next
  <1>6. ASSUME NEW j \in 1..Len(jobs), NEW s \in Statuses, jobs' = [jobs EXCEPT ![j].status = s]
        PROVE  status' = [status EXCEPT ![j] = s]
    <2>1. Len(jobs') = Len(jobs) /\ jobs'[j].status = s
          /\ \A i \in 1..Len(jobs) : i # j => jobs'[i] = jobs[i]
      BY <1>6, StatusChange DEF QueueInv
    <2> QED BY <1>1, <2>1 DEF StatusOf
  <1>7. ASSUME NEW j \in 1..Len(jobs), Takes(j) PROVE Queue!Next
    <2>1. status[j] = "queued" /\ runners[j] = {}
      BY <1>1, <1>2, <1>7 DEF Takes, StatusOf
    <2>2. status' = [status EXCEPT ![j] = "running"]
      BY <1>6, <1>7 DEF Takes, Statuses
    <2>3. runners' = [runners EXCEPT ![j] = {worker}]
      <3>1. runners'[j] = {worker} /\ \A i \in Jobs \ {j} : runners'[i] = runners[i]
        BY <1>2, <1>7 DEF Takes, Jobs
      <3> QED BY <1>2, <3>1, Override
    <2>4. Queue!Take(j, worker)
      BY <2>1, <2>2, <2>3 DEF Queue!Take
    <2> QED BY <1>1, <1>2, <2>4 DEF Queue!Next
  <1>8. ASSUME NEW j \in 1..Len(jobs), NEW s \in {"completed", "failed"}, Ends(j, s) PROVE Queue!Next
    <2>1. status[j] = "running" /\ runners[j] = {worker}
      BY <1>1, <1>2, <1>8 DEF Ends, StatusOf
    <2>2. status' = [status EXCEPT ![j] = s]
      BY <1>6, <1>8 DEF Ends, Statuses
    <2>3. runners' = [runners EXCEPT ![j] = {}]
      <3>1. runners'[j] = {} /\ \A i \in Jobs \ {j} : runners'[i] = runners[i]
        BY <1>2, <1>8 DEF Ends, Jobs
      <3> QED BY <1>2, <3>1, Override
    <2>4. Queue!Report(j, worker)
      BY <2>1, <2>2, <2>3 DEF Queue!Report, Queue!Terminal
    <2> QED BY <1>1, <1>2, <2>4 DEF Queue!Next
  <1> QED BY <1>3, <1>4, <1>5, <1>7, <1>8, JobSteps

\* The in-process worker promises what the durable queue promises: one run of a
\* job at a time, and no change of one that is completed or failed.
THEOREM ContractImplemented == Spec => ImplementsContract
  <1>1. Init => Queue!Init
    BY DEF Init, Queue!Init, StatusOf, Jobs
  <1> QED BY <1>1, QueueContractStep, QueueInvariant, PTL DEF Spec, ImplementsContract, Queue!Spec

-----------------------------------------------------------------------------
(* The rows.                                                               *)

\* A number above all versions and places: there is always a highest one.
RowsInv ==
    /\ row \in [Contents -> Row]
    /\ \E b \in Nat : \A c \in Contents : row[c].version <= b /\ row[c].added <= b

LEMMA Greatest ==
    ASSUME NEW S \in SUBSET Nat, S # {}, NEW b \in Nat, \A n \in S : n <= b
    PROVE  \E m \in S : \A n \in S : n <= m
  <1> DEFINE R == {ss \in Nat \X Nat : ss[1] < ss[2]}
             T == {k \in Nat : b - k \in S}
  <1>1. \A n \in S : n \in Nat /\ b - n \in Nat /\ b - (b - n) = n
    OBVIOUS
  <1>2. T \in SUBSET Nat /\ T # {}
    BY <1>1
  <1>3. IsWellFoundedOn(R, Nat)
    <2>1. R = OpToRel(<, Nat)
      BY DEF OpToRel
    <2> QED BY <2>1, NatLessThanWellFounded
  <1>4. PICK k \in T : \A l \in T : ~(<<l, k>> \in R)
    <2> HIDE DEF R, T
    <2> QED BY <1>2, <1>3, WFMin
  <1>5. b - k \in S /\ k \in Nat
    BY <1>4
  <1>6. ASSUME NEW n \in S PROVE n <= b - k
    <2>1. b - n \in T
      BY <1>1
    <2>2. ~(<<b - n, k>> \in R) /\ b - n \in Nat
      BY <1>4, <2>1
    <2>3. ~(b - n < k)
      BY <1>5, <2>2
    <2> QED BY <1>1, <1>5, <2>2, <2>3
  <1> QED BY <1>5, <1>6

LEMMA HighestBounds ==
    ASSUME NEW N \in SUBSET Nat, NEW b \in Nat, \A n \in N : n <= b
    PROVE  Highest(N) \in Nat /\ Highest(N) <= b /\ \A n \in N : n <= Highest(N)
  <1>1. CASE N = {}
    BY <1>1 DEF Highest
  <1>2. CASE N # {}
    <2>1. \E m \in N : \A n \in N : n <= m
      BY <1>2, Greatest
    <2>2. Highest(N) \in N /\ \A n \in N : n <= Highest(N)
      BY <1>2, <2>1 DEF Highest
    <2> QED BY <2>2
  <1> QED BY <1>1, <1>2

Siblings(t) == Versions(t.user) \ {t.content}

\* The row that persist makes of an upload whose bytes are not current.
LEMMA StoredRow ==
    ASSUME RowsInv, NEW t \in Task, NEW b \in Nat,
           \A c \in Contents : row[c].version <= b /\ row[c].added <= b
    PROVE  LET new == Stored(t, t.content)
           IN  /\ new \in Row /\ new.status = "ready" /\ new.name = t.name
               /\ new.acl \in IF Exists(t.content) THEN {row[t.content].acl} ELSE Acls
               /\ new.version > 0 /\ new.version <= b + 1 /\ new.added <= b + 1
               /\ \A d \in Siblings(t) : row[d].version < new.version
  <1> DEFINE new == Stored(t, t.content)
             V == {row[c].version : c \in Siblings(t)}
             A == {row[c].added : c \in Contents}
             acl == IF Exists(t.content) THEN row[t.content].acl ELSE Allowed(t)
             marker == IF Exists(t.content) THEN row[t.content].marker ELSE t.marker
             added == IF Exists(t.content) THEN row[t.content].added ELSE NextPlace
  <1>1. /\ t.content \in Contents /\ t.user \in Users /\ t.acl \in {NULL} \cup Acls
        /\ t.name \in Names /\ t.marker \in {NULL} \cup STRING
    BY DEF Task
  <1>2. \A c \in Contents : /\ row[c] \in Row /\ row[c].version \in Nat /\ row[c].added \in Nat
                            /\ row[c].acl \in Acls /\ row[c].marker \in {NULL} \cup STRING
    BY DEF RowsInv, Row
  <1>3. Siblings(t) \subseteq Contents
    BY DEF Siblings, Versions
  <1>4. Highest(V) \in Nat /\ Highest(V) <= b /\ \A d \in Siblings(t) : row[d].version <= Highest(V)
    <2>1. V \in SUBSET Nat /\ \A n \in V : n <= b
      BY <1>2, <1>3
    <2>2. Highest(V) \in Nat /\ Highest(V) <= b /\ \A n \in V : n <= Highest(V)
      <3> HIDE DEF V
      <3> QED BY <2>1, HighestBounds
    <2> QED BY <2>2
  <1>5. NextPlace \in Nat /\ NextPlace <= b + 1
    <2>1. A \in SUBSET Nat /\ \A n \in A : n <= b
      BY <1>2
    <2>2. Highest(A) \in Nat /\ Highest(A) <= b
      <3> HIDE DEF A
      <3> QED BY <2>1, HighestBounds
    <2> QED BY <2>2 DEF NextPlace
  <1>6. Allowed(t) \in Acls
    <2>1. Current(t.user) \subseteq Contents
      BY DEF Current, Versions
    <2>2. CASE t.acl = NULL /\ Current(t.user) # {}
      <3>1. (CHOOSE c \in Current(t.user) : TRUE) \in Current(t.user)
        BY <2>2
      <3> QED BY <1>2, <2>1, <2>2, <3>1 DEF Allowed
    <2> QED BY <1>1, <2>2, IngestionAssumption DEF Allowed
  <1>7. new = [status |-> "ready", version |-> Highest(V) + 1, name |-> t.name, acl |-> acl,
               marker |-> marker, added |-> added]
    BY DEF Stored, Siblings
  <1>8. /\ acl \in Acls /\ marker \in {NULL} \cup STRING /\ added \in Nat /\ added <= b + 1
        /\ acl \in IF Exists(t.content) THEN {row[t.content].acl} ELSE Acls
    <2>1. CASE Exists(t.content)
      BY <1>1, <1>2, <2>1
    <2>2. CASE ~Exists(t.content)
      BY <1>1, <1>5, <1>6, <2>2
    <2> QED BY <2>1, <2>2
  <1>9. Highest(V) + 1 \in Nat
    BY <1>4
  <1> HIDE DEF V, acl, marker, added, new
  <1>10. /\ new.status = "ready" /\ new.version = Highest(V) + 1 /\ new.name = t.name
         /\ new.acl = acl /\ new.added = added
    BY <1>7
  <1>11. new \in Row
    BY <1>1, <1>7, <1>8, <1>9 DEF Row
  <1>12. \A d \in Siblings(t) : row[d].version < new.version
    BY <1>2, <1>3, <1>4, <1>10
  <1>13. new.version > 0 /\ new.version <= b + 1 /\ new.added <= b + 1
    BY <1>4, <1>8, <1>10
  <1> QED BY <1>8, <1>10, <1>11, <1>12, <1>13 DEF new

\* persist leaves the rows as they are or makes its content the current version.
LEMMA PersistRows ==
    ASSUME RowsInv, QueueInv, NEW k \in Clients, Persist(k), row' # row
    PROVE  /\ RowsInv'
           /\ \E t \in Task :
                  /\ ~Ready(t.content) /\ row'[t.content].status = "ready"
                  /\ row'[t.content].name = t.name
                  /\ row'[t.content].acl \in IF Exists(t.content) THEN {row[t.content].acl} ELSE Acls
                  /\ row'[t.content].version \in Nat /\ row'[t.content].version > 0
                  /\ \A d \in Siblings(t) : row[d].version < row'[t.content].version
                  /\ \A d \in Contents \ {t.content} :
                         row'[d] = IF d \in Siblings(t) /\ Ready(d)
                                   THEN [row[d] EXCEPT !.status = "superseded"] ELSE row[d]
  <1>1. PICK t \in Task : t = task[k]
    BY DEF Persist, QueueInv, ControlOK, Working
  <1>2. ~Ready(t.content) /\ row' = [d \in Contents |-> Stored(t, d)]
    BY <1>1 DEF Persist
  <1>3. t.content \in Contents
    BY DEF Task
  <1>4. PICK b \in Nat : \A c \in Contents : row[c].version <= b /\ row[c].added <= b
    BY DEF RowsInv
  <1> DEFINE new == Stored(t, t.content)
  <1>5. /\ new \in Row /\ new.status = "ready" /\ new.name = t.name
        /\ new.acl \in IF Exists(t.content) THEN {row[t.content].acl} ELSE Acls
        /\ new.version > 0 /\ new.version <= b + 1 /\ new.added <= b + 1
        /\ \A d \in Siblings(t) : row[d].version < new.version
    BY <1>4, StoredRow
  <1>6. row'[t.content] = new
    BY <1>2, <1>3
  <1> HIDE DEF new
  <1>7. \A d \in Contents \ {t.content} :
            row'[d] = IF d \in Siblings(t) /\ Ready(d)
                      THEN [row[d] EXCEPT !.status = "superseded"] ELSE row[d]
    BY <1>2 DEF Stored, Siblings
  <1>8. \A d \in Contents : /\ row[d] \in Row /\ row[d].version \in Nat /\ row[d].added \in Nat
                            /\ row[d].version <= b + 1 /\ row[d].added <= b + 1
    BY <1>4 DEF RowsInv, Row
  <1>9. ASSUME NEW d \in Contents
        PROVE  row'[d] \in Row /\ row'[d].version <= b + 1 /\ row'[d].added <= b + 1
    <2>1. CASE d = t.content
      BY <1>5, <1>6, <2>1
    <2>2. CASE d # t.content /\ d \in Siblings(t) /\ Ready(d)
      <3>1. row'[d] = [row[d] EXCEPT !.status = "superseded"] /\ row[d] \in Row
        BY <1>7, <1>8, <2>2
      <3>2. /\ row'[d] \in Row /\ row'[d].version = row[d].version /\ row'[d].added = row[d].added
        BY <3>1 DEF Row
      <3> QED BY <1>8, <3>2
    <2>3. CASE d # t.content /\ ~(d \in Siblings(t) /\ Ready(d))
      BY <1>7, <1>8, <2>3
    <2> QED BY <2>1, <2>2, <2>3
  <1>10. RowsInv'
    <2>1. row' \in [Contents -> Row]
      BY <1>2, <1>9
    <2>2. b + 1 \in Nat
      OBVIOUS
    <2> QED BY <1>9, <2>1, <2>2 DEF RowsInv
  <1>11. new.version \in Nat
    BY <1>5 DEF Row
  <1> QED BY <1>2, <1>5, <1>6, <1>7, <1>10, <1>11

\* What update_document makes of the rows.
LEMMA UpdatedRows ==
    ASSUME RowsInv, NEW u \in Users, NEW c \in Contents, NEW a \in {NULL} \cup Acls,
           NEW n \in {NULL} \cup Names, row' = Updated(u, c, a, n), row' # row
    PROVE  /\ RowsInv'
           /\ \A d \in Contents :
                  /\ ~(Exists(d) /\ Visible(u, d)) => row'[d] = row[d]
                  /\ Exists(d) /\ Visible(u, d) =>
                         /\ row'[d].status = row[d].status /\ row'[d].version = row[d].version
                         /\ row'[d].acl = (IF a = NULL THEN row[d].acl ELSE a)
                         /\ row'[d].name = (IF n = NULL THEN row[d].name ELSE n)
  <1>1. row' = [d \in Contents |->
                    IF Exists(d) /\ Visible(u, d)
                    THEN [row[d] EXCEPT !.acl = IF a = NULL THEN @ ELSE a,
                                        !.name = IF n = NULL THEN @ ELSE n]
                    ELSE row[d]]
    BY DEF Updated
  <1>2. ASSUME NEW d \in Contents
        PROVE  /\ row'[d] \in Row /\ row'[d].version = row[d].version
               /\ row'[d].added = row[d].added
               /\ ~(Exists(d) /\ Visible(u, d)) => row'[d] = row[d]
               /\ Exists(d) /\ Visible(u, d) =>
                      /\ row'[d].status = row[d].status
                      /\ row'[d].acl = (IF a = NULL THEN row[d].acl ELSE a)
                      /\ row'[d].name = (IF n = NULL THEN row[d].name ELSE n)
    <2>1. row[d] \in Row
      BY DEF RowsInv
    <2>2. CASE Exists(d) /\ Visible(u, d)
      <3>1. row'[d] = [row[d] EXCEPT !.acl = IF a = NULL THEN @ ELSE a,
                                     !.name = IF n = NULL THEN @ ELSE n]
        BY <1>1, <2>2
      <3>2. PICK x \in Acls, y \in {NULL} \cup Names : /\ x = IF a = NULL THEN row[d].acl ELSE a
                                                       /\ y = IF n = NULL THEN row[d].name ELSE n
        BY <2>1 DEF Row
      <3>3. row'[d] = [[row[d] EXCEPT !.acl = x] EXCEPT !.name = y]
        BY <2>1, <3>1, <3>2 DEF Row
      <3>4. /\ row'[d] \in Row /\ row'[d].status = row[d].status /\ row'[d].version = row[d].version
            /\ row'[d].added = row[d].added /\ row'[d].acl = x /\ row'[d].name = y
        BY <2>1, <3>3 DEF Row
      <3> QED BY <2>2, <3>2, <3>4
    <2>3. CASE ~(Exists(d) /\ Visible(u, d))
      BY <1>1, <2>1, <2>3
    <2> QED BY <2>2, <2>3
  <1>3. RowsInv'
    BY <1>1, <1>2 DEF RowsInv
  <1> QED BY <1>2, <1>3

LEMMA DeletedRows ==
    ASSUME RowsInv, NEW u \in Users, NEW c \in Contents, Delete(u, c)
    PROVE  RowsInv' /\ row'[c] = Absent /\ \A d \in Contents \ {c} : row'[d] = row[d]
  <1>1. row'[c] = Absent /\ \A d \in Contents \ {c} : row'[d] = row[d]
    BY DEF Delete, RowsInv
  <1>2. Absent \in Row /\ Absent.version = 0 /\ Absent.added = 0
    BY IngestionAssumption DEF Absent, Row
  <1> HIDE DEF Absent
  <1>3. row' \in [Contents -> Row]
    BY <1>2 DEF Delete, RowsInv
  <1>4. \E b \in Nat : \A d \in Contents : row'[d].version <= b /\ row'[d].added <= b
    <2>1. PICK b \in Nat : \A d \in Contents : row[d].version <= b /\ row[d].added <= b
      BY DEF RowsInv
    <2>2. \A d \in Contents : row'[d].version <= b /\ row'[d].added <= b
      BY <1>1, <1>2, <2>1
    <2> QED BY <2>2
  <1> QED BY <1>1, <1>3, <1>4 DEF RowsInv

\* The steps that change rows.
LEMMA RowSteps ==
    ASSUME QueueInv, [Next]_vars
    PROVE  \/ UNCHANGED row
           \/ \E k \in Clients : Persist(k)
           \/ \E u \in Users, c \in Contents, a \in {NULL} \cup Acls, n \in {NULL} \cup Names :
                  row' = Updated(u, c, a, n)
           \/ \E u \in Users, c \in Contents : Delete(u, c)
  <1>1. ASSUME NEW k \in Clients, Rename(k)
        PROVE  \E u \in Users, c \in Contents, a \in {NULL} \cup Acls, n \in {NULL} \cup Names :
                   row' = Updated(u, c, a, n)
    <2>1. task[k] \in Task
      BY <1>1 DEF Rename, QueueInv, ControlOK, Working
    <2>2. PICK u \in Users, c \in Contents, n \in Names :
              u = task[k].user /\ c = task[k].content /\ n = task[k].name
      BY <2>1 DEF Task
    <2>3. row' = Updated(u, c, NULL, n)
      BY <1>1, <2>2 DEF Rename
    <2> QED BY <2>3
  <1>2. ASSUME NEW u \in Users, NEW c \in Contents, NEW p \in Patches, Patch(u, c, p)
        PROVE  \E a \in {NULL} \cup Acls, n \in {NULL} \cup Names : row' = Updated(u, c, a, n)
    <2>1. p \in [acl : {NULL} \cup Acls, name : {NULL} \cup Names]
      BY IngestionAssumption
    <2>2. p.acl \in {NULL} \cup Acls /\ p.name \in {NULL} \cup Names
      BY <2>1
    <2> QED BY <1>2, <2>2 DEF Patch
  <1>3. \/ UNCHANGED row
        \/ \E k \in Clients : Persist(k) \/ Rename(k)
        \/ \E u \in Users, c \in Contents : Delete(u, c) \/ \E p \in Patches : Patch(u, c, p)
    BY DEF Next, vars, Create, Submit, Put, Ingest, Unchanged, Changed, Parse, Reject, Take, Sigterm,
           StopWorker, Joined, JoinTimeout, Exited
  <1> QED BY <1>1, <1>2, <1>3

LEMMA RowsStep == QueueInv /\ RowsInv /\ [Next]_vars => RowsInv'
  <1> SUFFICES ASSUME QueueInv, RowsInv, [Next]_vars PROVE RowsInv'
    OBVIOUS
  <1>1. CASE UNCHANGED row
    BY <1>1 DEF RowsInv
  <1> QED BY <1>1, PersistRows, UpdatedRows, DeletedRows, RowSteps

LEMMA RowsInit == Init => RowsInv
  <1> SUFFICES ASSUME Init PROVE RowsInv
    OBVIOUS
  <1>1. Absent \in Row /\ Absent.version = 0 /\ Absent.added = 0
    BY IngestionAssumption DEF Absent, Row
  <1>2. \A c \in Contents : row[c].version <= 0 /\ row[c].added <= 0
    BY <1>1 DEF Init
  <1>3. row \in [Contents -> Row]
    BY <1>1 DEF Init
  <1> QED BY <1>2, <1>3 DEF RowsInv

LEMMA RowsInvariant == Spec => [](QueueInv /\ RowsInv)
  BY RowsInit, RowsStep, QueueInvariant, PTL DEF Spec

\* Every reachable state has its type, for any number of threads and versions.
THEOREM TypeCorrect == Spec => []TypeOK
  <1>1. QueueInv /\ RowsInv => TypeOK
    BY DEF QueueInv, RowsInv, TypeOK
  <1> QED BY <1>1, RowsInvariant, PTL

-----------------------------------------------------------------------------
(* The contract of versions.                                               *)

LEMMA VersioningStep ==
    QueueInv /\ RowsInv /\ [Next]_vars =>
        [Versioning!Next]_([c \in Contents |-> [status |-> row[c].status, version |-> row[c].version,
                                                acl |-> row[c].acl, name |-> row[c].name]])
  <1> DEFINE abs == [c \in Contents |-> [status |-> row[c].status, version |-> row[c].version,
                                        acl |-> row[c].acl, name |-> row[c].name]]
  <1> SUFFICES ASSUME QueueInv, RowsInv, [Next]_vars PROVE Versioning!Next \/ UNCHANGED abs
    OBVIOUS
  <1>0. \A c \in Contents : /\ row[c] \in Row
                            /\ Versioning!Exists(c) <=> Exists(c)
                            /\ Versioning!Ready(c) <=> Ready(c)
                            /\ \A u \in Users : Versioning!Visible(u, c) <=> Visible(u, c)
    BY DEF RowsInv, Versioning!Exists, Versioning!Ready, Versioning!Visible, Exists, Ready, Visible
  <1>1. CASE UNCHANGED row
    BY <1>1
  <1>2. ASSUME NEW k \in Clients, Persist(k), row' # row PROVE Versioning!Next
    <2>1. PICK t \in Task :
              /\ ~Ready(t.content) /\ row'[t.content].status = "ready"
              /\ row'[t.content].name = t.name
              /\ row'[t.content].acl \in IF Exists(t.content) THEN {row[t.content].acl} ELSE Acls
              /\ row'[t.content].version \in Nat /\ row'[t.content].version > 0
              /\ \A d \in Siblings(t) : row[d].version < row'[t.content].version
              /\ \A d \in Contents \ {t.content} :
                     row'[d] = IF d \in Siblings(t) /\ Ready(d)
                               THEN [row[d] EXCEPT !.status = "superseded"] ELSE row[d]
      BY <1>2, PersistRows
    <2>2. PICK u \in Users, c \in Contents : u = t.user /\ c = t.content /\ t.name \in Names
      BY DEF Task
    <2> DEFINE seen == {d \in Contents \ {c} : Versioning!Exists(d) /\ Versioning!Visible(u, d)}
    <2>3. seen = Siblings(t)
      BY <1>0, <2>2 DEF Siblings, Versions
    <2>4. /\ abs'[c].status = "ready" /\ abs'[c].name \in Names /\ ~Versioning!Ready(c)
          /\ abs'[c].version \in Nat /\ abs'[c].version > 0
          /\ abs'[c].acl \in IF Versioning!Exists(c) THEN {abs[c].acl} ELSE Acls
      BY <1>0, <2>1, <2>2
    <2>5. \A d \in seen : abs[d].version < abs'[c].version
      BY <2>1, <2>2, <2>3
    <2>6. ASSUME NEW d \in Contents \ {c}
          PROVE  abs'[d] = IF d \in seen /\ Versioning!Ready(d)
                           THEN [abs[d] EXCEPT !.status = "superseded"] ELSE abs[d]
      <3>1. row'[d] = IF d \in Siblings(t) /\ Ready(d)
                      THEN [row[d] EXCEPT !.status = "superseded"] ELSE row[d]
        BY <2>1, <2>2
      <3>2. row[d] \in Row /\ (Versioning!Ready(d) <=> Ready(d))
        BY <1>0
      <3>3. CASE d \in Siblings(t) /\ Ready(d)
        <4>1. /\ row'[d].status = "superseded" /\ row'[d].version = row[d].version
              /\ row'[d].acl = row[d].acl /\ row'[d].name = row[d].name
          BY <3>1, <3>2, <3>3 DEF Row
        <4> QED BY <2>3, <3>2, <3>3, <4>1
      <3>4. CASE ~(d \in Siblings(t) /\ Ready(d))
        BY <2>3, <3>1, <3>2, <3>4
      <3> QED BY <3>3, <3>4
    <2>7. Versioning!Persist(u, c)
      <3>1. abs' = [d \in Contents |-> IF d = c THEN abs'[c]
                                       ELSE IF d \in seen /\ Versioning!Ready(d)
                                       THEN [abs[d] EXCEPT !.status = "superseded"] ELSE abs[d]]
        BY <2>6
      <3> QED BY <2>4, <2>5, <3>1 DEF Versioning!Persist
    <2> QED BY <2>7 DEF Versioning!Next
  <1>3. ASSUME NEW u \in Users, NEW c \in Contents, NEW a \in {NULL} \cup Acls,
               NEW n \in {NULL} \cup Names, row' = Updated(u, c, a, n), row' # row
        PROVE  Versioning!Next
    <2>1. ASSUME NEW d \in Contents
          PROVE  abs'[d] = IF Versioning!Exists(d) /\ Versioning!Visible(u, d)
                           THEN [abs[d] EXCEPT !.acl = IF a = NULL THEN @ ELSE a,
                                               !.name = IF n = NULL THEN @ ELSE n]
                           ELSE abs[d]
      <3>1. /\ ~(Exists(d) /\ Visible(u, d)) => row'[d] = row[d]
            /\ Exists(d) /\ Visible(u, d) =>
                   /\ row'[d].status = row[d].status /\ row'[d].version = row[d].version
                   /\ row'[d].acl = (IF a = NULL THEN row[d].acl ELSE a)
                   /\ row'[d].name = (IF n = NULL THEN row[d].name ELSE n)
        BY <1>3, UpdatedRows
      <3>2. CASE Exists(d) /\ Visible(u, d)
        BY <1>0, <3>1, <3>2
      <3>3. CASE ~(Exists(d) /\ Visible(u, d))
        BY <1>0, <3>1, <3>3
      <3> QED BY <3>2, <3>3
    <2>2. Versioning!Update(u, a, n)
      BY <2>1 DEF Versioning!Update
    <2> QED BY <2>2 DEF Versioning!Next
  <1>4. ASSUME NEW u \in Users, NEW c \in Contents, Delete(u, c) PROVE Versioning!Next
    <2>1. Versioning!Exists(c) /\ Versioning!Visible(u, c)
      BY <1>0, <1>4 DEF Delete
    <2>2. row'[c] = Absent /\ \A d \in Contents \ {c} : row'[d] = row[d]
      BY <1>4, DeletedRows
    <2>3. abs' = [abs EXCEPT ![c] = Versioning!Absent]
      <3>1. abs'[c] = Versioning!Absent
        BY <2>2 DEF Absent, Versioning!Absent
      <3>2. \A d \in Contents \ {c} : abs'[d] = abs[d]
        BY <2>2
      <3> HIDE DEF Versioning!Absent
      <3> QED BY <3>1, <3>2
    <2> QED BY <2>1, <2>3 DEF Versioning!Next, Versioning!Delete
  <1> QED BY <1>1, <1>2, <1>3, <1>4, RowSteps

\* The in-memory store changes the versions of a document only in the three
\* ways in which the PostgreSQL store does, for any callers, groups and requests.
THEOREM VersionsImplemented == Spec => ImplementsVersions
  <1>1. Init => Versioning!Init
    BY DEF Init, Absent, Versioning!Init, Versioning!Absent
  <1> QED BY <1>1, VersioningStep, RowsInvariant, PTL
          DEF Spec, ImplementsVersions, Versioning!Spec

=============================================================================
