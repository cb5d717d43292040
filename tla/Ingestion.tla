----------------------------- MODULE Ingestion -----------------------------
(***************************************************************************)
(* The service without a database, from an upload to its end: request       *)
(* threads that upload, PATCH and DELETE (api.py), the in-process           *)
(* IngestionWorker with its FIFO queue (workers.py), the InMemoryStore      *)
(* (memory_store.py) with one logical document, and the order in which      *)
(* SIGTERM takes the process down (run, GracefulHTTPServer, close).         *)
(*                                                                          *)
(* Every method of the store holds its lock throughout and is one step;     *)
(* what a request does between two such calls is not protected.  A row is   *)
(* named by its content, as in DocumentStore.  Not modelled: timestamps,    *)
(* and the text (the pieces of a document are the subject of Chunking).     *)
(***************************************************************************)
EXTENDS Naturals, Sequences, FiniteSets

CONSTANTS
    Threads,     \* request threads
    worker,      \* the thread of the IngestionWorker
    Users,       \* the callers
    GroupsOf,    \* GroupsOf[u]: the groups of user u
    Contents,    \* the different bytes that are uploaded
    KindOf,      \* KindOf[c]: what the bytes of c are
    TextOf,      \* TextOf[c]: whether any text can be extracted from c
    Names,       \* file names
    ExtensionOf, \* ExtensionOf[n]: the content type that a name stands for, or NULL
    Acls,        \* the values of allowed_groups
    Uploads,     \* the upload requests that clients send
    Patches,     \* the PATCH requests: a new ACL, a new name, or both
    MaxJobs,     \* bound: how many of them are sent as ingestion jobs
    MaxInline,   \* bound: how many are sent to POST /v1/documents
    NULL         \* Python's None

\* An upload request: its caller, bytes, ACL and name, the source's version
\* marker and the declared content type.
Task == [user : Users, content : Contents, acl : {NULL} \cup Acls, name : Names,
         marker : {NULL} \cup STRING, declared : {NULL} \cup STRING]

ASSUME IngestionAssumption ==
    /\ worker \notin Threads /\ NULL \notin Acls /\ NULL \notin Names /\ {} \in Acls
    /\ Uploads \subseteq Task
    /\ Patches \subseteq [acl : {NULL} \cup Acls, name : {NULL} \cup Names]
    /\ MaxJobs \in Nat /\ MaxInline \in Nat

VARIABLES
    row,     \* row[c]: the metadata of the version with content c, and when its
             \* key was added to the dictionary
    pc,      \* pc[k]: where a request thread or the worker is
    task,    \* task[k]: the upload it works on, or the job it is about to queue
    job,     \* the job that the worker runs, 0 when it runs none
    jobs,    \* the job records, in the order of submission
    queue,   \* the worker's queue: job numbers, and 0 for the stop sentinel
    inline,  \* how many uploads were sent to POST /v1/documents
    server   \* where the process is between serving and its exit

vars == <<row, pc, task, job, jobs, queue, inline, server>>

Clients == Threads \cup {worker}
Jobs == 1..MaxJobs

Absent == [status |-> "absent", version |-> 0, acl |-> {}, name |-> NULL, marker |-> NULL,
           added |-> 0]

Exists(c) == row[c].status # "absent"
Ready(c)  == row[c].status = "ready"

\* _visible.
Visible(u, c) == row[c].acl = {} \/ row[c].acl \cap GroupsOf[u] # {}

\* _versions: the versions a user can see.
Versions(u) == {c \in Contents : Exists(c) /\ Visible(u, c)}

-----------------------------------------------------------------------------

Init == /\ row = [c \in Contents |-> Absent]
        /\ pc = [k \in Clients |-> "idle"]
        /\ task = [k \in Clients |-> NULL]
        /\ job = 0
        /\ jobs = <<>>
        /\ queue = <<>>
        /\ inline = 0
        /\ server = "serving"

Goto(k, l) == pc' = [pc EXCEPT ![k] = l]

\* Requests run until server_close has waited for the last one: those that were
\* accepted before SIGTERM still do their work after it.
RequestsRun == server \in {"serving", "closing"}

\* POST /v1/documents: the upload is validated and handled on its thread.
Create(k, up) ==
    /\ RequestsRun /\ pc[k] = "idle" /\ inline < MaxInline
    /\ inline' = inline + 1
    /\ task' = [task EXCEPT ![k] = up]
    /\ Goto(k, "check")
    /\ UNCHANGED <<row, job, jobs, queue, server>>

\* POST /v1/ingestion/jobs: submit records the job under the worker's lock ...
Submit(k, up) ==
    /\ RequestsRun /\ pc[k] = "idle" /\ Len(jobs) < MaxJobs
    /\ jobs' = Append(jobs, [status |-> "queued", upload |-> up])
    /\ task' = [task EXCEPT ![k] = Len(jobs')]
    /\ Goto(k, "put")
    /\ UNCHANGED <<row, job, queue, inline, server>>

\* ... and puts it into the queue after that; then the request is answered.
Put(k) ==
    /\ pc[k] = "put"
    /\ queue' = Append(queue, task[k])
    /\ task' = [task EXCEPT ![k] = NULL]
    /\ Goto(k, "idle")
    /\ UNCHANGED <<row, job, jobs, inline, server>>

\* Mutant: the worker takes the newest job.
Take_Newest ==
    /\ server # "exited" /\ pc[worker] = "idle" /\ queue # <<>>
    /\ LET j == queue[Len(queue)]
       IN  IF j = 0
           THEN Goto(worker, "ended") /\ UNCHANGED <<task, job, jobs>>
           ELSE /\ jobs' = [jobs EXCEPT ![j].status = "running"]
                /\ task' = [task EXCEPT ![worker] = jobs[j].upload]
                /\ job' = j
                /\ Goto(worker, "check")
    /\ queue' = SubSeq(queue, 1, Len(queue) - 1)
    /\ UNCHANGED <<row, inline, server>>

\* Mutant: the job stays in the queue until it is taken again.
Take_Peek ==
    /\ server # "exited" /\ pc[worker] = "idle" /\ queue # <<>>
    /\ LET j == Head(queue)
       IN  IF j = 0
           THEN Goto(worker, "ended") /\ UNCHANGED <<task, job, jobs>>
           ELSE /\ jobs' = [jobs EXCEPT ![j].status = "running"]
                /\ task' = [task EXCEPT ![worker] = jobs[j].upload]
                /\ job' = j
                /\ Goto(worker, "check")
    /\ UNCHANGED <<row, queue, inline, server>>

\* The worker's loop: the next job, or the sentinel that ends it.
Take ==
    /\ server # "exited" /\ pc[worker] = "idle" /\ queue # <<>>
    /\ LET j == Head(queue)
       IN  IF j = 0
           THEN Goto(worker, "ended") /\ UNCHANGED <<task, job, jobs>>
           ELSE /\ jobs' = [jobs EXCEPT ![j].status = "running"]
                /\ task' = [task EXCEPT ![worker] = jobs[j].upload]
                /\ job' = j
                /\ Goto(worker, "check")
    /\ queue' = Tail(queue)
    /\ UNCHANGED <<row, inline, server>>

Running(k) == k = worker => server # "exited"

\* Mutant: an upload that is rejected leaves its job running.
Finish_CompletedOnly(k, s) ==
    /\ task' = [task EXCEPT ![k] = NULL]
    /\ Goto(k, "idle")
    /\ jobs' = IF k = worker /\ s = "completed"
               THEN [jobs EXCEPT ![job].status = s] ELSE jobs
    /\ job' = IF k = worker THEN 0 ELSE job

\* _ingest_document returns or raises: a request is answered, a job updated.
Finish(k, s) ==
    /\ task' = [task EXCEPT ![k] = NULL]
    /\ Goto(k, "idle")
    /\ jobs' = IF k = worker THEN [jobs EXCEPT ![job].status = s] ELSE jobs
    /\ job' = IF k = worker THEN 0 ELSE job

\* current_version: the ready one of them that is first in the dictionary.
Current(u) == {c \in Versions(u) :
    Ready(c) /\ \A d \in Versions(u) : Ready(d) => row[c].added <= row[d].added}

\* The source's own version marker, or the bytes, match the current version.
Matches(t, c) == (t.marker # NULL /\ row[c].marker = t.marker) \/ c = t.content

IsCurrent(t) == \E c \in Current(t.user) : Matches(t, c)

\* Nothing has changed: a new name is passed on, otherwise all is done.
Unchanged(k) ==
    /\ pc[k] = "check" /\ Running(k)
    /\ \E c \in Current(task[k].user) :
           /\ Matches(task[k], c)
           /\ IF task[k].name = row[c].name
              THEN Finish(k, "completed")
              ELSE /\ task' = [task EXCEPT ![k].content = c]
                   /\ Goto(k, "rename") /\ UNCHANGED <<job, jobs>>
    /\ UNCHANGED <<row, queue, inline, server>>

Changed(k) ==
    /\ pc[k] = "check" /\ Running(k) /\ ~IsCurrent(task[k])
    /\ Goto(k, "parse")
    /\ UNCHANGED <<row, task, job, jobs, queue, inline, server>>

\* sniff: the content type is what the bytes are, and neither the file
\* extension nor the declared type may contradict it.  Text and Markdown differ
\* by the extension only.
Textual == {"text", "markdown"}

Agrees(type, kind) == type = NULL \/ type = kind \/ {type, kind} \subseteq Textual

Sniffed(t) == IF KindOf[t.content] \in Textual
              THEN IF ExtensionOf[t.name] = "markdown" THEN "markdown" ELSE "text"
              ELSE KindOf[t.content]

Accepted(t) == /\ KindOf[t.content] \notin {"rejected", "binary"}
               /\ Agrees(ExtensionOf[t.name], Sniffed(t))
               /\ Agrees(t.declared, Sniffed(t))

\* parse and ingest_segments: an unsupported document, a parser that fails or
\* times out, or a document without text is a ValueError.
Parse(k) ==
    /\ pc[k] = "parse" /\ Running(k)
    /\ Accepted(task[k]) /\ TextOf[task[k].content]
    /\ Goto(k, "persist")
    /\ UNCHANGED <<row, task, job, jobs, queue, inline, server>>

Reject(k) ==
    /\ pc[k] = "parse" /\ Running(k)
    /\ \/ ~Accepted(task[k]) \/ ~TextOf[task[k].content]
       \/ Sniffed(task[k]) \in {"pdf", "html"}
    /\ Finish(k, "failed")
    /\ UNCHANGED <<row, queue, inline, server>>

\* max(..., default=0).
Highest(N) == IF N = {} THEN 0 ELSE CHOOSE n \in N : \A m \in N : m <= n

\* allowed_groups, or those of the first current version when omitted.
Allowed(t) == IF t.acl # NULL THEN t.acl
              ELSE IF Current(t.user) = {} THEN {}
              ELSE row[CHOOSE c \in Current(t.user) : TRUE].acl

\* Where the dictionary puts a new key: behind all others.
NextPlace == Highest({row[c].added : c \in Contents}) + 1

\* Mutant: versions are numbered by how many there are.
Stored_Counted(t, d) ==
    LET siblings == Versions(t.user) \ {t.content}
    IN  IF d = t.content
        THEN [status |-> "ready", version |-> Cardinality(siblings) + 1, name |-> t.name,
              acl |-> IF Exists(d) THEN row[d].acl ELSE Allowed(t),
              marker |-> IF Exists(d) THEN row[d].marker ELSE t.marker,
              added |-> IF Exists(d) THEN row[d].added ELSE NextPlace]
        ELSE IF d \in siblings /\ Ready(d) THEN [row[d] EXCEPT !.status = "superseded"]
        ELSE row[d]

\* What persist makes of row d.
Stored(t, d) ==
    LET siblings == Versions(t.user) \ {t.content}
    IN  IF d = t.content
        THEN [status |-> "ready", version |-> Highest({row[c].version : c \in siblings}) + 1,
              name |-> t.name,
              acl |-> IF Exists(d) THEN row[d].acl ELSE Allowed(t),
              marker |-> IF Exists(d) THEN row[d].marker ELSE t.marker,
              added |-> IF Exists(d) THEN row[d].added ELSE NextPlace]
        ELSE IF d \in siblings /\ Ready(d) THEN [row[d] EXCEPT !.status = "superseded"]
        ELSE row[d]

\* persist, under the store's lock.
Persist(k) ==
    LET c == task[k].content
    IN  /\ pc[k] = "persist" /\ Running(k)
        /\ row' = IF Ready(c) THEN row ELSE [d \in Contents |-> Stored(task[k], d)]
        /\ Finish(k, "completed")
        /\ UNCHANGED <<queue, inline, server>>

\* update_document, under the store's lock.
Updated(u, c, a, n) ==
    IF Exists(c) /\ Visible(u, c)
    THEN [d \in Contents |->
              IF Exists(d) /\ Visible(u, d)
              THEN [row[d] EXCEPT !.acl = IF a = NULL THEN @ ELSE a,
                                  !.name = IF n = NULL THEN @ ELSE n]
              ELSE row[d]]
    ELSE row

Rename(k) ==
    /\ pc[k] = "rename" /\ Running(k)
    /\ row' = Updated(task[k].user, task[k].content, NULL, task[k].name)
    /\ Finish(k, "completed")
    /\ UNCHANGED <<queue, inline, server>>

\* PATCH and DELETE of a version: one call of the store each.
Patch(u, c, p) ==
    /\ RequestsRun
    /\ row' = Updated(u, c, p.acl, p.name)
    /\ UNCHANGED <<pc, task, job, jobs, queue, inline, server>>

Delete(u, c) ==
    /\ RequestsRun
    /\ Exists(c) /\ Visible(u, c)
    /\ row' = [row EXCEPT ![c] = Absent]
    /\ UNCHANGED <<pc, task, job, jobs, queue, inline, server>>

-----------------------------------------------------------------------------
(* The end of the process.                                                 *)

\* SIGTERM: serve_forever returns, no further request is accepted.
Sigterm ==
    /\ server = "serving"
    /\ server' = "closing"
    /\ UNCHANGED <<row, pc, task, job, jobs, queue, inline>>

\* Mutant: the worker is stopped before the requests in flight are done.
StopWorker_First ==
    /\ server = "closing"
    /\ server' = "joining"
    /\ queue' = Append(queue, 0)
    /\ UNCHANGED <<row, pc, task, job, jobs, inline>>

\* server_close has waited for the request threads; close stops the worker.
StopWorker ==
    /\ server = "closing"
    /\ \A k \in Threads : pc[k] = "idle"
    /\ server' = "joining"
    /\ queue' = Append(queue, 0)
    /\ UNCHANGED <<row, pc, task, job, jobs, inline>>

\* join returns because the worker has ended, and the process exits.
Joined ==
    /\ server = "joining" /\ pc[worker] = "ended"
    /\ server' = "exited"
    /\ UNCHANGED <<row, pc, task, job, jobs, queue, inline>>

\* join gives up after 5 seconds; the daemon thread dies with the process.
JoinTimeout ==
    /\ server = "joining" /\ pc[worker] # "ended"
    /\ server' = "exited"
    /\ task' = [task EXCEPT ![worker] = NULL]
    /\ job' = 0
    /\ Goto(worker, "killed")
    /\ UNCHANGED <<row, jobs, queue, inline>>

Exited == server = "exited" /\ UNCHANGED vars

-----------------------------------------------------------------------------

Ingest(k) == \/ Unchanged(k) \/ Changed(k) \/ Parse(k) \/ Reject(k) \/ Persist(k)
             \/ Rename(k)

Next ==
    \/ \E k \in Threads : \/ \E up \in Uploads : Create(k, up) \/ Submit(k, up)
                          \/ Put(k)
    \/ \E k \in Clients : Ingest(k)
    \/ \E u \in Users, c \in Contents : Delete(u, c) \/ \E p \in Patches : Patch(u, c, p)
    \/ Take \/ Sigterm \/ StopWorker \/ Joined \/ JoinTimeout \/ Exited

\* Threads and worker keep running, and so does a shutdown that has begun;
\* nothing obliges a client to send, or anyone to send SIGTERM.
Fairness == /\ \A k \in Threads : WF_vars(Put(k) \/ Ingest(k))
            /\ WF_vars(Take \/ Ingest(worker))
            /\ WF_vars(StopWorker \/ Joined)

Spec == Init /\ [][Next]_vars /\ Fairness

-----------------------------------------------------------------------------
(* Properties.                                                             *)

Row == [status : {"absent", "ready", "superseded"}, version : Nat, acl : Acls,
        name : {NULL} \cup Names, marker : {NULL} \cup STRING, added : Nat]

Statuses == {"queued", "running", "completed", "failed"}
Working == {"check", "parse", "persist", "rename"}

\* Requests, jobs and queue have their types.
ControlOK ==
    /\ jobs \in Seq([status : Statuses, upload : Uploads]) /\ Len(jobs) <= MaxJobs
    /\ queue \in Seq(0..Len(jobs)) /\ job \in 0..Len(jobs)
    /\ pc \in [Clients -> Working \cup {"idle", "put", "ended", "killed"}]
    /\ \A k \in Threads : pc[k] \notin {"ended", "killed"}
    /\ pc[worker] # "put"
    /\ DOMAIN task = Clients
    /\ \A k \in Clients : /\ pc[k] = "put" => task[k] \in 1..Len(jobs)
                          /\ pc[k] \in Working => task[k] \in Task
    /\ inline \in 0..MaxInline
    /\ server \in {"serving", "closing", "joining", "exited"}

\* ... and so have the rows.
TypeOK == row \in [Contents -> Row] /\ ControlOK

\* The in-memory store keeps the contract of versions that the PostgreSQL
\* store keeps, whatever runs between the calls of an upload.
Versioning == INSTANCE VersionContract WITH
    row <- [c \in Contents |-> [status |-> row[c].status, version |-> row[c].version,
                                acl |-> row[c].acl, name |-> row[c].name]]
ImplementsVersions == Versioning!Spec

\* What GET /v1/ingestion/jobs/{id} reads; "absent" when there is no such job.
StatusOf(j) == IF j \in DOMAIN jobs THEN jobs[j].status ELSE "absent"

\* The in-process worker keeps the contract of the durable queue: a job is run
\* by one worker at a time and one that is completed or failed stays so.
Queue == INSTANCE JobContract WITH
    Workers <- {worker},
    status <- [j \in Jobs |-> StatusOf(j)],
    runners <- [j \in Jobs |-> IF job = j THEN {worker} ELSE {}]
ImplementsContract == Queue!Spec

\* A job that a client was told of is finished when the process exits, unless
\* the worker was too slow for the 5 seconds of join: no job slips in behind
\* the sentinel.
GracefulExit ==
    server = "exited" /\ pc[worker] = "ended" =>
        \A j \in 1..Len(jobs) : jobs[j].status \in {"completed", "failed"}

\* Jobs run in the order in which they reached the queue: none overtakes
\* another, so of two jobs for one document the later one is stored last.
NoOvertaking ==
    [][\A i \in 1..Len(queue) : i > 1 /\ queue[i] # 0 => jobs'[queue[i]] = jobs[queue[i]]]_vars

\* Every job is completed or failed in the end, or lost with the process.
JobsFinish ==
    \A j \in Jobs : StatusOf(j) = "queued" ~>
        (StatusOf(j) \in {"completed", "failed"} \/ server = "exited")

=============================================================================
