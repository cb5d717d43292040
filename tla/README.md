# TLA+ specifications of production-rag

This directory specifies the parts of the RAG service in which threads, replicas,
transactions or browser handlers meet: the path of an upload from the request to
the current version of a document, the path of a question from the rate limiter
to the chat history, the model gateway, deploys, and the web console. The modules
are model-checked with TLC on small instances; for nearly every safety property there
is also a proof, checked with TLAPS, that it holds for every size of instance.

`PROJECT.json` holds the data behind this text: components, runs, mutants, the
correspondence of definitions and source lines, findings, hazards and theorems.

    tlc -config jobs_timely.cfg JobQueue       # any run
    tlapm JobQueueProofs.tla                   # any proof module

## The system

An HTTP API (`api.py`, a threading server, one thread per request) accepts
documents and questions of several tenants. Several replicas may share one
PostgreSQL database; without one, everything is kept in memory.

| Component | State | Operations | Interacts with |
|---|---|---|---|
| durable ingestion queue (`workers.PostgresJobQueue`, `claim_ingestion_job()` in migration 004) | table `ingestion_jobs`; per replica a worker thread and a stop event | `submit`, `get`, `run_once` (claim, handle, `_finish`), `stop` | API submits and polls; the handler is `_ingest_document` |
| in-process worker (`workers.IngestionWorker`) | queue, dictionary of jobs | `submit`, `get`, `stop`, `_run` | the same, without a database |
| document store (`persistence.py`) and its twin (`memory_store.py`) | rows of `documents` (status, version, ACL, name) and `chunks` | `persist`, `current_version`, `update_document`, `delete_document`, `search_hybrid` | uploads, PATCH, DELETE, retrieval |
| upload pipeline (`api.py`, `parsers.sniff`) | a request's local variables | `_create_document`, `_submit_job`, `_ingest_document`, `_unchanged` | queue, chunking, store |
| chunking (`rag.py`) | none | `_split`, `ingest_segments` | upload pipeline |
| answer pipeline (`api._answer`, `retrieve`) | a request's local variables | limit, read history, search twice, check budget, generate, charge, append | limiter, budget, store, gateway, history |
| rate limiter, token budget (`observability.py`) | buckets per client, tokens per tenant and day | `acquire`; `remaining`, `spend` | every request; every answer |
| model gateway (`gateway.py`) | a `CircuitBreaker` per provider name; per request an attempt and a deadline | `complete`, `_attempt`, `allow`, `record_success`, `record_failure` | every question; providers over HTTP |
| chat history (`history.py`) | messages of a session, the newest of them | `append`, `get` | answers |
| migrations (`migrate.py`) | `applied_migrations`, an advisory lock | `apply_migrations`, `set_app_password` | deploys |
| connection pool (`persistence._connect`) | pool, lock | create on first use, borrow, `close` | every database access, shutdown |
| web console (`web/app.js`) | key, files, settings, messages, handlers that wait | connect, list, edit, upload, follow a job, ask, new chat, save settings | the API |
| authentication, own model key (`byok.py`), parsers, ranking, metrics | lookups, pure functions, I/O | | |

What is hard to test, and what makes each part correct:

* **Queue.** A claim and its outcome are two transactions with an unbounded
  handler in between; the process can end anywhere, and a lease decides by the
  clock alone that a worker is gone. Correct: one worker per job, one final
  outcome, no claim of a row that another one took, and every job ends.
* **Documents.** Uploads read, work for seconds, then write; deletes and PATCHes
  come in between; callers see different subsets of the versions. Correct: one
  current version, with the highest number, never lost by a failure; nobody
  changes a version they cannot read; both stores keep one contract.
* **Shutdown.** SIGTERM arrives at any moment of an upload. Correct: a job that a
  client was told of is not left behind the stop sentinel.
* **Answers.** Limits are read before and charged after a slow call; times are
  read outside locks; each search is two transactions; appends to a session
  overlap. Correct: rate and budget are exceeded by no more than what is in
  flight, evidence is not older than the request, the model sees no
  question without its answer.
* **Gateway.** Requests share breakers, and between asking a breaker, calling,
  sleeping and reporting, other requests run. Correct: state and counter agree, a
  breaker never waits for a trial that nobody makes, retries respect the
  deadline, every question is answered, a recovered provider is used again.
* **Deploys.** Overlapping deploys release the lock before they apply anything.
  Correct: each file once, in order, and success means complete.
* **Console.** Every `await` lets other handlers in. Correct: answers stay in
  their chat, untested settings are never used, no handler waits forever.

`PROJECT.json` lists each hazard at its line.

## Modules

| Module | Content |
|---|---|
| `JobContract` | abstract: what a client of either queue relies on |
| `JobQueue`, `JobQueueProofs` | the durable queue: table, workers, clock, faults; proofs |
| `VersionContract` | abstract: the three ways in which a request may change the versions of a document |
| `DocumentStore`, `DocumentStoreProofs` | one logical document in PostgreSQL, statement by statement; proofs |
| `Chunking`, `ChunkingProofs` | the window loop over the pages of a document; proofs |
| `Ingestion`, `IngestionProofs` | composition: uploads, in-process worker, in-memory store, shutdown; proofs |
| `ChatHistory` | abstract: the in-memory `ChatHistoryStore` |
| `Answers`, `AnswersProofs` | composition: limiter, budget, searches, citations, `PostgresChatHistory`; proofs about limits, evidence and history |
| `Gateway`, `GatewayProofs` | breakers and requests; proofs |
| `Migrations`, `ConnectionPool`, `Deployment`, `DeploymentProofs` | deploys, the pool, and their composition; proofs about both |
| `Console`, `ConsoleProofs` | the page; proofs |
| `MC...` | constants and symmetry for TLC |

Three refinements connect them: `JobQueue` and `Ingestion` implement `JobContract`,
`DocumentStore` and `Ingestion` implement `VersionContract`, and `Answers` implements
`ChatHistory` for the sessions in `Serial`.

A definition named `X_Something` next to `X` is a mutant: the same definition with a
plausible bug. Each property of a passing run has one that violates it; `Next`
uses none of them. Every module states the types of its variables in `TypeOK`, which is
proved for all of them.

### JobQueue

`job[j]` is the row of job `j`, "absent" before `submit`. `pc[w]` is the place of
worker `w` in `_run` and `run_once`:

    loop -> claim -> locked -> handle -> finish -> loop
      \-> exited (stop event set)

`ClaimLock` is the inner `SELECT ... FOR UPDATE SKIP LOCKED`, `ClaimCommit` the
end of that transaction; a claim in between holds its row lock (`LockedRows`),
which other claims skip and `_finish` waits for. `now()` is fixed when the
claim's transaction begins, hence `held[w].at`. `Handle` is the handler, reduced
to how it ends: it returns, raises `ValueError` or `UnicodeError` (final), or
anything else (retried). A job whose bytes are gone can only end with the last,
the `KeyError` of `job["content_base64"]`. `FinishStatus`, `FinishDelay` and
`Finished` are the three calls of `_finish` and its UPDATE, which names its row
by id alone.

Faults are `DatabaseError` (rolled back; `_run` logs it and loops), `ClaimLost`
(committed, but the answer did not arrive), `Crash` and `Stop`; `MaxFaults` bounds
them. `Restart` is not a fault: Compose and Render restart a container. Time is
discrete and moves only while a row waits for it (`TimerPending`): no other step
compares times, so no behaviour of rows and workers is lost. `Timely` is the
assumption the ten-minute lease rests on. The code does not enforce it, so
`Timely = FALSE` is the code as it is, and `Timely = TRUE` asks what the queue
guarantees while workers are fast enough.

### DocumentStore and VersionContract

One logical document, `row[c]` being the version whose bytes are `c` (the content is
unique within a logical document, and the id is a hash of it). An upload is

    idle -> check -> begun -> locked -> written -> idle
              \-> find -> found -> idle          (_unchanged with another name)

`check` is the transaction of `current_version`, `begun` the beginning of `persist`'s,
which fixes `created_at`, `locked` after the advisory lock and the SELECT that
inherits the ACL, `written` after all statements; `Commit` makes them visible. A
PATCH is `find`, `found`, `Update`: the lookup and the UPDATE under the advisory lock.
`Delete` takes no advisory lock and waits for row locks only. `Visible` is `ACL_FILTER`.
`Fail` ends any request in any place with its transaction rolled back. `uploads`
counts the uploads started, is bounded by `MaxUploads`, and serves as the clock
for `created_at`; ties are resolved both ways.

`VersionContract` says the same in three atomic actions, `Persist`, `Update` and `Delete`.
It leaves open how far a new version is ahead and which ACL a new row gets, where the
stores differ, and says of each step only that *some* user may make it;
`HiddenVersionsStand` ties steps to their own user.

### Chunking

A page is a number of tokens and the positions of sentence ends; `Cut` is one turn of
the `while` loop with `Boundary` (the last sentence end in the latter half of the
window, else the last one in it; either way it is the last one in the window, as
`BoundaryIsLast` shows), `End` and `NextStart`. Chunks may be short and nested within the
overlap, which the code allows.

### Ingestion

Each thread runs `Submit` and `Put` (background), or `Create` and the handler
inline: `check -> parse -> persist`, or `check -> rename` when the content is current. The
worker takes jobs with `Take` and runs the same handler. Methods of the in-memory
store are atomic; nothing protects what lies between two of them. `Sigterm`,
`StopWorker`, `Joined` and `JoinTimeout` are `run`, `server_close` and `close`: the server
waits for its request threads, then puts the sentinel (0) and waits five seconds.
Requests that were accepted before the signal do their work until then (`RequestsRun`).
`Accepted` and `Sniffed` are the type checks; a parser that runs on accepted bytes
may still fail in any way. `row[c].added` is the place of a version in the insertion
order of the store's dictionary: of several current versions that a caller can see,
`current_version` returns the first.

### Answers and ChatHistory

A request thread goes

    limit -> body -> semantic -> keyword -> budget -> model -> ask -> answer -> trim -> commit

with early exits to idle. `Arrive` reads the clock and `Acquire` applies it to the
bucket under the lock, possibly after a newer time. Each search is a transaction and
sees the documents of its moment; `ChangeDocuments` alters them in one step, since how they
change is `DocumentStore`'s subject. `CheckBudget` reads, `Generate` charges.
`Begin` reads the session, leaves out declined exchanges (`HistoryForModel`) and keeps the
newest turns that fit the gateway's budget, any number of them (`TrimHistory`); both calls
that get the history, for the rewriting and for the answer, get the same turns.
`CitedSources` keeps markers that name a source, counting all evidence although
`Packed` may have put fewer into the prompt. The last four labels are
`PostgresChatHistory.append`. `rows` is the table: a function from ids to rows, where
`by` names the thread whose transaction has not committed the row yet; `ids` is the
sequence behind the BIGSERIAL column, which a rollback does not turn back. `ORDER BY id
DESC LIMIT n` is `Latest`, the rows with fewer than `n` newer ones, and `InOrder` lists
rows by id. The trimming DELETE sees committed rows and its own (`Sees`) at one moment
(`Trim`) and takes effect at a later one (`Commit`), in between others may insert, commit and
delete. `Rollback` is a database error anywhere in it. Sessions in
`Serial` have one request at a time, which a client that waits for each answer
ensures; the console does not (Enter asks even while a question is open).

### Gateway

`failures`, `opened_age` and `trial_in_flight` are a breaker's three fields; its
methods run under its lock and are atomic. A request goes

    idle -> next -> call -> answered | failed | rejected
            next <- retry <- failed,  retry -> sleep -> call

with `index` in the chain, `attempt`, and `left` until the deadline. `Try`, `Skip` and
`Fallback` are the loop of `complete`; `Answer`, `Succeed`, `Fail`, `Sleep`, `GiveUp` and
`Wake` are `_attempt`. Recording the failure, then deciding about the retry, are
separate steps, as in the code. `delay` stands for the jittered back-off or
`Retry-After`, any value of `Delays`. Absolute times are replaced by differences
that stop where the code makes no further distinction, so the model has finitely
many states without a bound on time or on the number of requests each thread
serves. Time passes in every state, so a sleep may be overrun: `Wake` is possible from the
moment the delay is over and may come later. `testing` remembers which requests a half-open breaker let through; no
action reads it, only `TrialHasRequest`. `up` is the providers' health (external).

### Migrations, ConnectionPool, Deployment

A deploy goes `start -> lock -> read -> next -> insert -> commit -> next ... -> password -> done`.
`CREATE TABLE IF NOT EXISTS` precedes the lock, so a second deploy may wait for the
first one's uncommitted table (`AwaitTable`) and then fail on it (`TableAppeared`). The
lock ends with the transaction that reads the applied files; after that only the
primary key of `applied_migrations` keeps two deploys apart (`Contended`, `Insert`).
`Fail` and `Retry` are the end of a deploy anywhere and its repetition.

`ConnectionPool` is the double-checked creation in `_connect` and a `close` that takes
no lock (`ClosePool`, `ForgetPool` are its two statements). `Deployment` starts the API of
one release after its deploy (`depends_on` in `compose.yaml`) while others go on.

### Console

A handler that waits at an `await` is an entry of `calls`; what follows the `await` is
an action of its own (`Resume`). `Load` is a (re)load of the page, which ends all
handlers and reads the settings from the tab's or the browser's storage.
`checked` is a history variable: the settings the API has tried out. What the API
answers is open.

## Runs

| Run | Instance | States | Shows |
|---|---|---|---|
| `jobs_timely` | 2 jobs, 2 workers, 1 fault, lease 1, timely | 390 k | `OneWorkerPerJob`, `RunnableHasContent`, `AttemptsBounded`, `TerminalIsFinal`, the refinement `ImplementsContract`, and `JobsFinish` for jobs that compete |
| `jobs_slow` | 1 job, 2 workers, 2 faults, lease 3, any delays | 138 k | overlapping claims stay distinct, a claim commits only what is still claimable, `JobsFinish` |
| `gateway` | 2 requests, 2 providers | 282 k | `ClosedBelowThreshold`, `TrialHasRequest`, `RetryBeforeDeadline`, `RequestsAnswered`, `BreakerCloses`; attempts and chain positions in range |
| `documents_open` | 2 clients, 3 contents, 2 names, 3 uploads, no ACLs | 167 k | `CurrentIsNewest` (so one current version), `CurrentIsKept` |
| `documents_acl` | 2 clients, a member of `hr` and an outsider, 2 contents, 3 uploads | 292 k | `HiddenVersionsStand`, the refinement `ImplementsVersions` |
| `chunking` | 2 pages of up to 7 tokens, window 4, overlap 2 | 402 k | `TokensKept`, `ChunksAdvance` |
| `ingestion` | 2 request threads, a worker, 2 users, 3 contents, 5 kinds of upload, 2 jobs, 1 inline upload | 118 k | both refinements, `GracefulExit`, `NoOvertaking`, `JobsFinish` |
| `answers` | 2 threads, a session that waits and one that does not, 3 questions, 1 source, bucket of 2, budget 1, window of 2 messages | 817 k | `RateBounded`, `BudgetBounded`, `NoStaleEvidence`, `PriorIsAnswered`, `TrimKeepsWindow`, `HistoryBounded`, the refinement `ImplementsHistoryStore` |
| `deployment` | releases of 2 and 3 files, 2 retries, 2 request threads and a worker | 10 k | `EachFileOnceInOrder`, `OnePool`, `WaitsEnd` |
| `console` | 1 key, files below, at and above the limits, 2 settings, 2 handlers, 2 chats, 2 polls | 211 k | `AnswersStayInChat`, `LlmWasChecked`, `StoredIsInUse`, `CallsEnd` |

Why the bounds are enough. *Queue:* `MaxAttempts = 2` has a first, a last and, through
reclaims, a surplus attempt. The back-off of the one retry is 2, so a lease of 1
ends before it and a lease of 3 after it. Two faults allow a lost claim and a crash
of its successor. *Gateway:* a breaker needs one request for the trial and one that
is late; `Deadline = 2` with delays of 0 and 1 has the delay below, at and above the
time left. *Documents:* three contents are what it takes to supersede, reinstate and
supersede again with a gap in the version numbers. *Chunking:* seven tokens are two
windows with a boundary anywhere and a rest. *Ingestion:* two jobs can be reordered,
and a job can be recorded, or put into the queue, before or after SIGTERM, up to the end
of `server_close`. *Answers:*
two threads overlap in every step, the third question meets what the first two left;
the tick of the clock is both a refill and the end of a day; a window of one exchange is
cut before, within and after it. *Deployment:* a file that
both releases have, one that only the newer one has, and a retry of each.
*Console:* two handlers can wait at once while the user goes on.

Deadlock is checked everywhere: where a model may come to an end, an explicit
stuttering action (`Done`, `Rest`, `Exited`) says in which states.

**Fairness.** `JobQueue`: weak fairness of a worker's steps (its thread is
scheduled, every call of the handler has a timeout), of `Restart` (`restart:
unless-stopped` in `compose.yaml`) and of `Tick`; none of faults or of `Submit`.
`JobsFinish` is checked with a bounded number of faults: a job that kills its worker
each time is reclaimed without end, as the claim does not look at `attempts`.
`Gateway`: weak fairness of each request's steps (calls have timeouts), of `Begin`
only for `BreakerCloses` (a breaker closes when somebody asks), and time that goes
on (`Progress`): without that conjunct requests could repeat sleeps of length 0 for ever
in no time at all. `Ingestion`: the
steps of request threads, of the worker and of the shutdown. `Deployment`: the steps
of a deploy and of a thread in `_connect`; none of faults and retries. `Console`: a
pending `fetch`, file read or timer settles (`Resume`); the user need not do anything.

### Runs that end in a violation

Each states what the repository says, and TLC's trace is a behaviour of the code.

* `jobs_stale_finish` - workers.py: the bytes are dropped "once the job can no longer
  run". The late `_finish` of a worker that lost its claim requeues a completed
  job without bytes; it then ends as failed.
* `documents_reinstate` - README.md: "A new version inherits the current version's
  groups when the upload omits `allowed_groups`". Re-uploading the bytes of a
  superseded version brings back that version's groups.

### Other behaviours of the code that the models contain

These follow from the modules and limit what the properties claim.

* A worker slower than ten minutes is joined by the one that reclaims its job,
  although README.md speaks of "unique work" (`OneWorkerPerJob` needs `Timely`).
* A late failure of an older request clears the flag of a trial, so that after
  another cool-down two requests may test a provider at once; a request asleep while
  the breaker opens still calls when it wakes. No property forbids either.
* README.md says that no retry is started "that would end after" the deadline. The code
  compares the deadline with the end of the delay: the call that follows may end after it,
  and after a sleep that was overrun it also starts after it. `RetryBeforeDeadline` says
  what the comparison gives.
* `trim_history` counts turn by turn, so the oldest turn that the model sees may be an
  answer whose question did not fit.
* Appends to a session that overlap trim by what each of them sees: up to one exchange per
  further thread stays stored beyond the window that history.py and README.md speak of
  (`HistoryBounded`). `get` never returns more than the window, and a later append trims it.
* Two questions of one session at once interleave their pairs of messages in
  `PostgresChatHistory`, and a declined answer may then drop the other question from
  the prompt: hence `Serial` in `PriorIsAnswered` and `ImplementsHistoryStore`.
* The two SELECTs of `search_hybrid` may see two versions of a document.
* Calls that rewrite a question are made with the server's key and neither charged
  nor capped.
* A stale `_unchanged` can give the name of an older upload to a newer version. The
  in-memory store keeps `source_version` on a re-upload, PostgreSQL updates it.
* Overlapping deploys are not serialised: the later one fails on the primary key, or
  on the new table, and has to be repeated.
* A worker that outlives the five seconds of `join` may find no pool or create one
  that is never closed; `OnePool` is about the time before and about requests.
* The console's Upload button is enabled again during an upload, a finished upload
  clears a file chosen meanwhile, `upload` reads `state.file` after its `await`, and an
  older list response may overwrite a newer one.

## Proofs

Assumptions are only those on the constants, which every run evaluates
(`QueueAssumption` and the like: bounds and sizes are natural numbers, `NULL` is none of
the values it stands beside, requests have the fields their handlers read, `MaxMessages`
is even as it is `max_turns * 2`, the threads whose costs `BudgetBounded` adds up are
finitely many), and those that a theorem states itself: `Timely` for the theorems
called `Timely...`, and `Acls = {{}}` (nothing is restricted) for `CurrentNewest`.

**JobQueueProofs.** `TypeCorrect` is by induction on `TypeOK` alone. `ClaimsAreDistinct`
is not inductive: that a commit gives a new attempt number needs `LockInv` (while a
claim holds its row lock, the row is as its SELECT saw it and nobody else holds
the lock), and that in turn needs `HeldIsSubmitted`, so that `submit` cannot write
such a row. The conjunction is `ClaimInv`; it gives `ClaimsStayDistinct` and, for each
step, `ClaimsTakeRunnable`, for workers of any speed.

With `Timely`, `SafeInv` adds `LeaseInv` (a busy worker is within its lease and its row is
still as its claim wrote it) and `AttemptsInv` (a job running without a worker was
interrupted by a fault that `AttemptsBounded` has not yet used up). The crux is
`LockedIsFree`: a row that is claimable has no busy worker, as `Tick` cannot pass a busy
worker's lease. From `SafeInv` follow `TimelyOneWorker`, `TimelyContentKept`,
`TimelyAttemptsBounded`, `TimelyTerminalIsFinal` and the refinement
`TimelyImplementsContract`, in which each action is shown to be a step of
`JobContract` or to leave its variables unchanged.

**GatewayProofs.** `IInv` adds `AttemptsLeft` to the properties. The trial flag needs the argument of `TrialKept`: a set
flag has a request in flight that the half-open breaker let through, every way out
of flight records a result, and recording clears the flag of the provider concerned.
It yields `TypeCorrect`, `BreakerMatchesCount`, `NoStuckTrial` and `RetriesDueInTime`,
for any chain, also one that lists a name twice.

**DocumentStoreProofs.** `Inv` adds to `TypeOK` that at most one client holds the advisory
lock, that version numbers have a bound (so that `MaxVersion` has a value however many
rows there are; `Greatest` derives it from the well-foundedness of `<`), what a request has
brought along to its place (`TaskOK`), and `WrittenOK`: what a transaction has
written still fits the committed rows when it commits. That is the crux. Uploads and
PATCHes wait for the lock, and a `Delete` that runs beside the transaction waits for
the rows it has written, so it can only remove rows that the transaction left alone. It gives `CurrentKept`,
`HiddenStand`, the refinement `VersionsImplemented`, and, where nothing is restricted,
`CurrentNewest`: every sibling is then visible to the uploader and superseded.

**ChunkingProofs.** A window ends at its last sentence end (`BoundaryIsLast`), not beyond
the page nor beyond its length (`EndInWindow`), and, starting later, does not end
earlier (`EndGrows`). The invariant `Position` relates the last chunk to `start`: the next
window begins where the last chunk ended or within the overlap before it, and
after that chunk's own start. `NoTokenLost` and `PiecesAdvance` hold for any window, any smaller overlap
and any sentence ends.

**IngestionProofs.** `QueueInv` says where each job is (`PlacesInv`: a queued job is in the
queue or about to be put there by one thread, exactly once, and the running job is the
worker's) and where the sentinel is (`SentinelInv`: it is put when no thread can put
anything more, so it is last, and nothing is left behind it). `ExitIsGraceful`,
`JobsInOrder` and the refinement `ContractImplemented` follow from it. `RowsInv` bounds versions and places as
above; with it the three calls of the store that write are steps of `VersionContract`
(`VersionsImplemented`).

**AnswersProofs.** The limiter: for every request let through, those since and the tokens
left are within a full bucket and the refill since then (`RateInv`). This is kept also
by a thread whose time is behind the bucket's, since the refill is then negative by
as much as the later refill counts again. The budget: what was charged on a day and what
the requests past their check may still cost stay within the limit and one `MaxCost` per
thread (`BudgetInv`; a check passes only below the limit, a charge moves its amount from
the second part to the first). `EvidenceIsFresh` needs that a request's `seen` has grown
with every change of the documents since it arrived (`RequestsInv`).

The chat history rests on `TableInv`: rows that are not committed belong to a request that
is writing them, one per role, and what a thread is about to delete are rows that it sees.

* `HistoryIsBounded`. A bound on the committed rows is not inductive, since the next
  commits may delete little and add two rows each. `StoredInv` bounds, for every
  set of transactions that have trimmed, what is left if exactly they commit (`After`). A trim
  keeps a window of all that it sees, and what else can be left after it are the rows of
  the other transactions, two for each.
* `TrimIsSafe`. `KeepsInv`: from its DELETE to its commit, a thread has a full window of
  newer rows for each row it is going to delete, although others commit deletions
  meanwhile. If two overlap, the one whose newest deleted row is newer has itself left a
  full window after that row, and this serves the other one too (`CommitKeeps`).
* `ImplementsStore`. In sessions whose client waits, only one transaction is under way, so its two
  rows are newer than everything committed, and what it deletes is still what is outside of the
  window when it commits (`SerialInv`). Then `WindowTurns`, `TwoMore` and `CommitWindow` show that
  the rows left, listed by id, are the old list with the exchange at its end, cut as
  `ChatHistoryStore` cuts it; every other step leaves the list as it is.
* `PriorAnswered`. The list consists of whole exchanges (`PriorInv`), because exchanges are added
  whole and the cut falls between two of them: this is where an even window is needed.
  `history_for_model` then keeps the answered ones (`SiftedWhole`). Its definition is
  recursive; that the function exists and that what it has kept is whole after every
  exchange are both proved by looking at the least number for which they fail. Wherever the
  budget then cuts, only the first turn that is left can miss its question (`TrimmedTurns`).

**DeploymentProofs.** `MigrationsInv`: the log is 1, 2, 3, ..., each deploy knows a prefix of it,
and the one that has inserted its row knows all of it, as the primary key lets no other
in before it commits; so the next file is the right one. `PoolInv` ties each
thread's place to the mutex, to the pool and to the phase of the process.

**ConsoleProofs.** `Safe` adds `OneTest` to the three properties: only one handler tries settings out at a
time, so the answer it waits for is about the settings that it then stores. Handlers of other kinds
cannot disturb it (`Undisturbed`).

**Only model-checked.** Liveness, which is outside TLAPS's reach (`JobsFinish`,
`RequestsAnswered`, `BreakerCloses`, `WaitsEnd`, `CallsEnd`). Where a proof needs an
induction over numbers, which the provers cannot take from the library, the least-number
principle (`Least`, from the well-foundedness of `<`) stands in for it.

## Not modelled

Embeddings, scores and prompts are floats and texts: `Answers` allows any ranking and any
gate. Address checks of own endpoints, HTML and PDF extraction and settings parsing are
functions of bytes and strings. API keys are looked up in an immutable table; a request that
fails before the rate limiter changes nothing. Metrics and logs are written and not read
back. The archived scaffold, the evaluation and the hosting scripts are sequential tooling
outside the service. Within modelled components: error texts and results of jobs,
timestamps (`mark_checked`), `source_version` in PostgreSQL, the text of chunks (written
and deleted with their row in one transaction), `ChatHistoryStore.clear`, which no route
calls, and the disabled limiter and budget.

## Plan

Every safety property that a run expects to hold is a theorem. What a further step could
add are properties for the hazards listed without one, for which the code would have
to promise something first: two trials of one breaker, a breaker that opens during the
sleep before a retry, a worker that finds the pool closed, a
retried job that supersedes a newer upload, citations of sources that were not packed, and a
file exchanged while the console reads it.
