---------------------------- MODULE JobContract ----------------------------
(***************************************************************************)
(* What the durable ingestion queue promises its clients, without workers'  *)
(* local state, leases, row locks or a clock.  A job is queued once, is run *)
(* by at most one worker at a time, may be run again after a failure or     *)
(* after its worker was lost, and a job that is completed or failed stays   *)
(* so: that is what a client polling GET /v1/ingestion/jobs/{id} relies on  *)
(* when it stops polling.                                                   *)
(***************************************************************************)

CONSTANTS Jobs,    \* every job that may be submitted
          Workers  \* the worker threads of all replicas

VARIABLES status,  \* what a client reads: "absent" until the job is submitted
          runners  \* runners[j]: the workers that are running job j

Terminal == {"completed", "failed"}

-----------------------------------------------------------------------------

Init == /\ status = [j \in Jobs |-> "absent"]
        /\ runners = [j \in Jobs |-> {}]

Submit(j) == /\ status[j] = "absent"
             /\ status' = [status EXCEPT ![j] = "queued"]
             /\ UNCHANGED runners

\* A worker takes a job that nobody is running.
Take(j, w) == /\ status[j] \in {"queued", "running"}
              /\ runners[j] = {}
              /\ status' = [status EXCEPT ![j] = "running"]
              /\ runners' = [runners EXCEPT ![j] = {w}]

\* The claim is recorded but the worker never learns of it.
TakeLost(j) == /\ status[j] \in {"queued", "running"}
               /\ runners[j] = {}
               /\ status' = [status EXCEPT ![j] = "running"]
               /\ UNCHANGED runners

\* The one worker running the job reports what became of it.
Report(j, w) == /\ status[j] = "running"
                /\ runners[j] = {w}
                /\ \E s \in Terminal \cup {"queued"} :
                       status' = [status EXCEPT ![j] = s]
                /\ runners' = [runners EXCEPT ![j] = {}]

\* The worker is gone, or could not report: the job stays "running".
Abandon(j, w) == /\ runners[j] = {w}
                 /\ runners' = [runners EXCEPT ![j] = {}]
                 /\ UNCHANGED status

Next == \E j \in Jobs :
            \/ Submit(j)
            \/ TakeLost(j)
            \/ \E w \in Workers : Take(j, w) \/ Report(j, w) \/ Abandon(j, w)

Spec == Init /\ [][Next]_<<status, runners>>

=============================================================================
