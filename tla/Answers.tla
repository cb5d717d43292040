------------------------------ MODULE Answers ------------------------------
(***************************************************************************)
(* POST /v1/query and /v1/chat, from the rate limiter to the history        *)
(* (api.py: _route, _answer, retrieve): several request threads of one user *)
(* share the user's token bucket (RateLimiter), the tenant's daily token    *)
(* budget (DailyTokenBudget), the tenant's documents (search_hybrid) and    *)
(* the user's chat sessions (PostgresChatHistory).  What other requests do  *)
(* to the documents is DocumentStore's subject; here they change in one     *)
(* step.  How the gateway reaches a model is Gateway's; here a call ends    *)
(* with some answer.                                                        *)
(*                                                                          *)
(* A request that fails before the rate limiter (length, route, API key)    *)
(* changes nothing and is left out.  Scores are not modelled: a question    *)
(* may rank and admit the chunks it finds in any way.                       *)
(***************************************************************************)
EXTENDS Integers, Sequences, FiniteSets

CONSTANTS
    Threads,      \* request threads
    Sessions,     \* the chat sessions of the user
    Serial,       \* the sessions whose client waits for each answer
    Requests,     \* the questions: session or NULL, and whether it has its own key
    Sources,      \* chunks of different document versions
    Capacity,     \* capacity of the token bucket
    Rate,         \* tokens per unit of the clock
    Limit,        \* the daily token budget
    MaxCost,      \* the most tokens one generation takes
    TopK,         \* top_k
    MaxMessages,  \* max_messages: twice max_turns
    DayLength,    \* units of the clock per day
    MaxClock,     \* bound: the clock's last value
    MaxRequests,  \* bound: requests
    MaxChanges,   \* bound: changes of the documents
    NULL

ASSUME AnswersAssumption ==
    /\ IsFiniteSet(Threads) /\ Serial \subseteq Sessions
    /\ NULL \notin Sessions \cup Threads /\ NULL \notin [tokens : Int, updated : Nat]
    /\ Requests \subseteq [session : Sessions \cup {NULL}, own : BOOLEAN]
    /\ Capacity \in Nat \ {0} /\ Rate \in Nat \ {0}
    /\ Limit \in Nat \ {0} /\ MaxCost \in Nat /\ DayLength \in Nat \ {0}
    /\ TopK \in Nat \ {0} /\ MaxMessages \in Nat \ {0} /\ MaxMessages % 2 = 0
    /\ MaxClock \in Nat /\ MaxRequests \in Nat /\ MaxChanges \in Nat

VARIABLES
    clock,    \* the time
    bucket,   \* the user's bucket: tokens and the time of its last update
    grants,   \* history: the times at which granted requests read the clock
    used,     \* used[d]: tokens charged to the tenant on day d
    docs,     \* the chunks that are current and readable for the user
    changes,  \* how often docs has changed
    sent,     \* how many requests were sent
    rows,     \* rows[i]: the row of chat_messages with id i, stored or not yet committed
    ids,      \* the last id that the column's sequence has given out
    pc,       \* pc[t]: where thread t is
    local     \* local[t]: the variables of its request, while they are needed

vars == <<clock, bucket, grants, used, docs, changes, sent, rows, ids, pc, local>>

limits == <<bucket, grants, used>>
world == <<clock, docs, changes, sent>>
table == <<rows, ids>>

Days == 0..(MaxClock \div DayLength)
Today == clock \div DayLength

Turn == [role : {"user", "assistant"}, of : 1..MaxRequests, declined : BOOLEAN]
Row == [session : Sessions, turn : Turn, by : Threads \cup {NULL}]

Idle == [number |-> 0, session |-> NULL, own |-> FALSE, now |-> 0, prior |-> <<>>,
         seen |-> {}, evidence |-> {}, declined |-> TRUE, doomed |-> {}]

-----------------------------------------------------------------------------

Init == /\ clock = 0 /\ sent = 0 /\ changes = 0
        /\ bucket = NULL /\ grants = <<>>
        /\ used = [d \in Days |-> 0]
        /\ docs = Sources
        /\ rows = <<>> /\ ids = 0
        /\ pc = [t \in Threads |-> "idle"]
        /\ local = [t \in Threads |-> Idle]

Goto(t, l) == pc' = [pc EXCEPT ![t] = l]

\* The request is over: answered, or refused with an error.
Leave(t) == Goto(t, "idle") /\ local' = [local EXCEPT ![t] = Idle]

Tick == /\ clock < MaxClock
        /\ clock' = clock + 1
        /\ UNCHANGED <<limits, docs, changes, sent, table, pc, local>>

Searching == {"limit", "body", "semantic", "keyword"}

\* Another request adds, supersedes, restricts or deletes documents.
ChangeDocuments(D) ==
    /\ changes < MaxChanges /\ D # docs
    /\ docs' = D
    /\ changes' = changes + 1
    /\ local' = [t \in Threads |-> IF pc[t] \in Searching
                                   THEN [local[t] EXCEPT !.seen = @ \cup D] ELSE local[t]]
    /\ UNCHANGED <<clock, limits, sent, table, pc>>

\* A request arrives and acquire reads the clock, before it has the lock.
Arrive(t, r) ==
    /\ pc[t] = "idle" /\ sent < MaxRequests
    /\ r.session \in Serial => \A u \in Threads : local[u].session # r.session
    /\ sent' = sent + 1
    /\ local' = [local EXCEPT ![t] = [Idle EXCEPT !.number = sent', !.session = r.session,
                                                  !.own = r.own, !.now = clock, !.seen = docs]]
    /\ Goto(t, "limit")
    /\ UNCHANGED <<clock, limits, docs, changes, table>>

\* What the bucket holds at time now; a thread may bring an older time.
Tokens(now) == LET refilled == bucket.tokens + (now - bucket.updated) * Rate
               IN  IF bucket = NULL THEN Capacity
                   ELSE IF refilled > Capacity THEN Capacity ELSE refilled

\* Mutant: the time of the update is not stored with the tokens.
Acquire_KeepsTime(t) ==
    LET now == local[t].now
        granted == Tokens(now) >= 1
    IN  /\ pc[t] = "limit"
        /\ bucket' = [tokens |-> IF granted THEN Tokens(now) - 1 ELSE Tokens(now),
                      updated |-> IF bucket = NULL THEN now ELSE bucket.updated]
        /\ grants' = IF granted THEN Append(grants, now) ELSE grants
        /\ IF granted THEN Goto(t, "body") /\ local' = [local EXCEPT ![t].now = 0] ELSE Leave(t)
        /\ UNCHANGED <<used, table, world>>

\* acquire, under the limiter's lock: a token, or 429.
Acquire(t) ==
    LET now == local[t].now
        granted == Tokens(now) >= 1
    IN  /\ pc[t] = "limit"
        /\ bucket' = [tokens |-> IF granted THEN Tokens(now) - 1 ELSE Tokens(now),
                      updated |-> now]
        /\ grants' = IF granted THEN Append(grants, now) ELSE grants
        /\ IF granted THEN Goto(t, "body") /\ local' = [local EXCEPT ![t].now = 0] ELSE Leave(t)
        /\ UNCHANGED <<used, table, world>>

\* The body is too large or not JSON, the question, tenant, session or model
\* settings are refused, or the route is another one: its token is gone.
Refuse(t) ==
    /\ pc[t] = "body"
    /\ Leave(t)
    /\ UNCHANGED <<limits, table, world>>

-----------------------------------------------------------------------------
(* The history of a session, as PostgresChatHistory reads it.              *)

\* The rows of session s that are committed.
Committed(s) == {i \in DOMAIN rows : rows[i].session = s /\ rows[i].by = NULL}

Newer(S, i) == {j \in S : j > i}

\* ORDER BY id DESC LIMIT n.
Latest(S, n) == {i \in S : Cardinality(Newer(S, i)) < n}

\* The turns of rows S in the order of id: so many are newer than the k-th.
InOrder(S) ==
    LET n == Cardinality(S)
    IN  [k \in 1..n |-> rows[CHOOSE i \in S : Cardinality(Newer(S, i)) = n - k].turn]

\* get: the newest turns, oldest first.
Window(s) == InOrder(Latest(Committed(s), MaxMessages))

\* Mutant: the question of a declined answer stays.
HistoryForModel_KeepsQuestion(turns) ==
    LET kept[i \in 0..Len(turns)] ==
            IF i = 0 THEN <<>>
            ELSE IF turns[i].declined THEN kept[i - 1]
            ELSE Append(kept[i - 1], turns[i])
    IN  kept[Len(turns)]

\* history_for_model: a declined answer is left out, and the question that is
\* the last turn kept so far with it.
HistoryForModel(turns) ==
    LET kept[i \in 0..Len(turns)] ==
            IF i = 0 THEN <<>>
            ELSE LET before == kept[i - 1]
                     n == Len(before)
                 IN  IF ~turns[i].declined THEN Append(before, turns[i])
                     ELSE IF n > 0 /\ before[n].role = "user" THEN SubSeq(before, 1, n - 1)
                     ELSE before
    IN  kept[Len(turns)]

\* trim_history: the newest n turns, however many the budget has room for.  It
\* counts turn by turn and may keep an answer without its question.
TrimHistory(turns, n) == SubSeq(turns, Len(turns) - n + 1, Len(turns))

\* The request is valid; a chat reads the earlier turns of its session.  What
\* fits the budget is what the gateway gives the model, for the rewriting of the
\* question and for the answer.
Begin(t) ==
    LET s == local[t].session
        turns == HistoryForModel(Window(s))
    IN  /\ pc[t] = "body"
        /\ IF s = NULL THEN UNCHANGED local
           ELSE \E n \in 0..Len(turns) : local' = [local EXCEPT ![t].prior = TrimHistory(turns, n)]
        /\ Goto(t, "semantic")
        /\ UNCHANGED <<limits, table, world>>

-----------------------------------------------------------------------------
(* Retrieval: the two SELECTs of search_hybrid are separate statements of a *)
(* READ COMMITTED transaction.                                             *)

\* The rewritten question is refused, or the database fails.
Abort(t) ==
    /\ pc[t] \in {"semantic", "keyword"}
    /\ Leave(t)
    /\ UNCHANGED <<limits, table, world>>

\* The question was rewritten for the search, if it is a follow-up, and the
\* chunks that are nearest to it are read.
SemanticSearch(t) ==
    /\ pc[t] = "semantic"
    /\ local' = [local EXCEPT ![t].evidence = docs]
    /\ Goto(t, "keyword")
    /\ UNCHANGED <<limits, table, world>>

\* The answer is known, or declined: a chat still has to be recorded.
Answered(t, declined) ==
    IF local[t].session = NULL THEN Leave(t)
    ELSE /\ Goto(t, "ask")
         /\ local' = [local EXCEPT ![t].declined = declined, ![t].evidence = {},
                                   ![t].seen = {}, ![t].prior = <<>>, ![t].now = 0]

\* Mutant: superseded and restricted documents match too.
Readable_Any == Sources

\* d.status = 'ready' and ACL_FILTER.
Readable == docs

\* The chunks that match the question's words are added to the nearest ones.
Fused(t) == local[t].evidence \cup Readable

\* evidence: what may be left of chunks C when those that score low are dropped.
Admitted(C) == {E \in SUBSET C : Cardinality(E) <= TopK}

\* retrieve ends.  Without evidence the answer is the abstention.
KeywordSearch(t, E) ==
    /\ pc[t] = "keyword"
    /\ E \in Admitted(Fused(t))
    /\ IF E = {} THEN Answered(t, TRUE)
       ELSE Goto(t, "budget") /\ local' = [local EXCEPT ![t].evidence = E, ![t].seen = {},
                                                         ![t].prior = <<>>]
    /\ UNCHANGED <<limits, table, world>>

-----------------------------------------------------------------------------
(* The answer.                                                             *)

\* Mutant: the last token may be overdrawn again and again.
Exhausted_OffByOne == Limit - used[Today] < 0

\* remaining(tenant) <= 0.
Exhausted == Limit - used[Today] <= 0

\* The server's key is only used while the day's budget lasts.
CheckBudget(t) ==
    /\ pc[t] = "budget"
    /\ IF local[t].own \/ ~Exhausted THEN Goto(t, "model") /\ UNCHANGED local ELSE Leave(t)
    /\ UNCHANGED <<limits, table, world>>

\* strip_invalid_citations and cited_sources.
CitedSources(cited, count) == cited \cap 1..count

\* The providers' or the fallback's answer, which cites some numbers; without one
\* that stands for a source it is declined.  The tokens are charged on the day
\* the answer arrives.
Generate(t, cited, cost) ==
    /\ pc[t] = "model"
    /\ used' = IF local[t].own THEN used ELSE [used EXCEPT ![Today] = @ + cost]
    /\ Answered(t, CitedSources(cited, Cardinality(local[t].evidence)) = {})
    /\ UNCHANGED <<bucket, grants, table, world>>

\* pack_context: how many of n sources fit the prompt, and always the best one.
Packed(n) == 1..n

\* A model cites what it likes; the fallback cites the first three sources that
\* were packed, and is free.
ModelAnswers(t) == \E cited \in SUBSET (1..(TopK + 1)), cost \in 1..MaxCost : Generate(t, cited, cost)

FallbackAnswers(t) ==
    \E packed \in Packed(Cardinality(local[t].evidence)) :
        Generate(t, 1..(IF packed > 3 THEN 3 ELSE packed), 0)

-----------------------------------------------------------------------------
(* append of PostgresChatHistory: one transaction.                         *)

Insert(t, turn) ==
    /\ ids' = ids + 1
    /\ rows' = [i \in DOMAIN rows \cup {ids'} |->
                   IF i = ids' THEN [session |-> local[t].session, turn |-> turn, by |-> t]
                   ELSE rows[i]]

InsertQuestion(t) ==
    /\ pc[t] = "ask"
    /\ Insert(t, [role |-> "user", of |-> local[t].number, declined |-> FALSE])
    /\ Goto(t, "answer")
    /\ UNCHANGED <<limits, local, world>>

InsertAnswer(t) ==
    /\ pc[t] = "answer"
    /\ Insert(t, [role |-> "assistant", of |-> local[t].number, declined |-> local[t].declined])
    /\ Goto(t, "trim")
    /\ UNCHANGED <<limits, local, world>>

\* The rows of its session that thread t sees.
Sees(t) == {i \in DOMAIN rows : rows[i].session = local[t].session /\ rows[i].by \in {NULL, t}}

\* Mutant: the oldest rows are kept.
Outside_Oldest(S) == {i \in S : Cardinality(S \ Newer(S, i)) > MaxMessages}

\* Mutant: nothing is trimmed.
Outside_None(S) == {}

\* The rows of S that are not among its newest.
Outside(S) == S \ Latest(S, MaxMessages)

\* The DELETE takes its snapshot and locks what it deletes.  (A row that another
\* transaction has locked is gone once that one commits: the two commit in
\* either order with the same effect.)
Trim(t) ==
    /\ pc[t] = "trim"
    /\ local' = [local EXCEPT ![t].doomed = Outside(Sees(t))]
    /\ Goto(t, "commit")
    /\ UNCHANGED <<limits, table, world>>

\* The transaction of t ends and leaves rows S.
Ends(t, S) ==
    /\ rows' = [i \in S |-> [rows[i] EXCEPT !.by = IF @ = t THEN NULL ELSE @]]
    /\ Leave(t)
    /\ UNCHANGED <<limits, ids, world>>

Commit(t) == pc[t] = "commit" /\ Ends(t, DOMAIN rows \ local[t].doomed)

\* Mutant: the question was committed on its own.
Rollback_KeepsQuestion(t) ==
    /\ pc[t] \in {"ask", "answer", "trim", "commit"}
    /\ Ends(t, {i \in DOMAIN rows : rows[i].by # t \/ rows[i].turn.role = "user"})

\* The database fails: the request ends with 500 although it was charged.
Rollback(t) ==
    /\ pc[t] \in {"ask", "answer", "trim", "commit"}
    /\ Ends(t, {i \in DOMAIN rows : rows[i].by # t})

-----------------------------------------------------------------------------

Step(t) ==
    \/ \E r \in Requests : Arrive(t, r)
    \/ Acquire(t) \/ Refuse(t) \/ Begin(t)
    \/ SemanticSearch(t) \/ Abort(t)
    \/ \E E \in SUBSET Sources : KeywordSearch(t, E)
    \/ CheckBudget(t) \/ ModelAnswers(t) \/ FallbackAnswers(t)
    \/ InsertQuestion(t) \/ InsertAnswer(t) \/ Trim(t) \/ Commit(t) \/ Rollback(t)

Done == sent = MaxRequests /\ (\A t \in Threads : pc[t] = "idle") /\ UNCHANGED vars

Next == \/ \E t \in Threads : Step(t)
        \/ \E D \in SUBSET Sources : ChangeDocuments(D)
        \/ Tick \/ Done

Spec == Init /\ [][Next]_vars

-----------------------------------------------------------------------------
(* Properties.                                                             *)

\* Bucket, budget, table and requests have their types; rows that are not
\* committed belong to a request that is writing them.
TypeOK ==
    /\ clock \in 0..MaxClock /\ sent \in 0..MaxRequests /\ changes \in 0..MaxChanges
    /\ bucket = NULL \/ bucket \in [tokens : {n \in Int : n <= Capacity}, updated : 0..MaxClock]
    /\ grants \in Seq(0..MaxClock)
    /\ used \in [Days -> Nat]
    /\ docs \subseteq Sources
    /\ ids \in Nat /\ DOMAIN rows \subseteq 1..ids /\ rows \in [DOMAIN rows -> Row]
    /\ \A i \in DOMAIN rows : rows[i].by # NULL => pc[rows[i].by] \in {"answer", "trim", "commit"}
    /\ \A t \in Threads : local[t] = Idle <=> pc[t] = "idle"

\* The limiter holds its rate although threads may apply times that are older
\* than the bucket's: between any two requests that were let through, no more
\* were than a full bucket and what was refilled between them.
RateBounded ==
    \A i, j \in 1..Len(grants) :
        i <= j => j - i + 1 <= Capacity + Rate * (grants[j] - grants[i])

\* The daily budget is overdrawn by at most what the requests can spend that
\* are in flight at once: it is checked before a call and charged after it.
BudgetBounded ==
    \A d \in Days : used[d] <= Limit - 1 + MaxCost * Cardinality(Threads)

\* No answer rests on a document that was already superseded, restricted or
\* deleted for the caller when the request arrived.
NoStaleEvidence ==
    [][\A t \in Threads : pc[t] = "keyword" /\ pc'[t] = "budget" =>
           local'[t].evidence \subseteq local[t].seen]_vars

\* a is the answer to question q, and not the abstention.
RepliesTo(a, q) == a.role = "assistant" /\ a.of = q.of /\ ~a.declined

\* In what the model gets to see of a session whose client waits, every question
\* is followed by its own answer, which was not declined, and every answer comes
\* after its question, but for the first turn: there trim_history may have cut
\* the question off.  No trim, rollback or declined answer leaves a question
\* that nothing answers, or puts it before the answer to another one.
PriorIsAnswered ==
    \A t \in Threads : local[t].session \in Serial =>
        LET prior == local[t].prior
        IN  \A i \in 1..Len(prior) :
                IF prior[i].role = "user" THEN i < Len(prior) /\ RepliesTo(prior[i + 1], prior[i])
                ELSE ~prior[i].declined /\ (i > 1 => prior[i - 1].role = "user")

\* However appends to a session overlap, a turn is deleted only when a full
\* window of newer ones is stored: no client loses a turn that it should read.
TrimKeepsWindow ==
    [][\A i \in DOMAIN rows :
           rows[i].by = NULL /\ i \notin DOMAIN rows' =>
               Cardinality({j \in Newer(DOMAIN rows', i) : rows'[j].session = rows[i].session
                                                          /\ rows'[j].by = NULL}) >= MaxMessages]_rows

\* Storage is bounded too: appends that overlap leave at most one exchange per
\* further thread over.
HistoryBounded ==
    \A s \in Sessions : Cardinality(Committed(s)) <= MaxMessages + 2 * (Cardinality(Threads) - 1)

\* Where a client waits for its answers, the table implements the in-memory
\* ChatHistoryStore, failures included.
Exchange(i, d) == <<[role |-> "user", of |-> i, declined |-> FALSE],
                    [role |-> "assistant", of |-> i, declined |-> d]>>
Store == INSTANCE ChatHistory WITH
    Sessions <- Serial,
    Exchanges <- {Exchange(i, d) : i \in 1..MaxRequests, d \in BOOLEAN},
    messages <- [s \in Serial |-> Window(s)]
ImplementsHistoryStore == Store!Spec

=============================================================================
