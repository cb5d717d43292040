--------------------------- MODULE AnswersProofs ---------------------------
(***************************************************************************)
(* Proofs about the answer pipeline, for any number of threads, any rates,  *)
(* budgets and costs, any documents and any number and length of chats: its *)
(* limits, what its answers rest on, and the history of the chats.          *)
(***************************************************************************)
EXTENDS Answers, TLAPS, FiniteSetTheorems, SequenceTheorems, WellFoundedInduction

-----------------------------------------------------------------------------
(* Requests.                                                               *)

Places == {"idle", "limit", "body", "semantic", "keyword", "budget", "model", "ask", "answer",
           "trim", "commit"}

\* r is a record with the variables of a request.
IsLocal(r) ==
    /\ r = [number |-> r.number, session |-> r.session, own |-> r.own, now |-> r.now,
            prior |-> r.prior, seen |-> r.seen, evidence |-> r.evidence,
            declined |-> r.declined, doomed |-> r.doomed]
    /\ r.own \in BOOLEAN

\* What a request at this place has read.
ReadOK(place, r) ==
    /\ place = "limit" => r.now \in 0..MaxClock
    /\ place \in Searching => docs \subseteq r.seen
    /\ place = "keyword" => r.evidence \subseteq r.seen

RequestsInv ==
    /\ clock \in 0..MaxClock
    /\ docs \subseteq Sources
    /\ pc \in [Threads -> Places]
    /\ local = [t \in Threads |-> local[t]]
    /\ \A t \in Threads : IsLocal(local[t]) /\ ReadOK(pc[t], local[t])

\* Thread t goes on to a place with these variables.
Moves(t, place, r) ==
    /\ pc' = [pc EXCEPT ![t] = place]
    /\ local' = [local EXCEPT ![t] = r]

LEMMA Moved ==
    ASSUME RequestsInv, NEW t \in Threads, NEW place \in Places, NEW r, IsLocal(r), ReadOK(place, r),
           Moves(t, place, r), UNCHANGED <<clock, docs>>
    PROVE  /\ RequestsInv' /\ pc'[t] = place /\ local'[t] = r
           /\ \A u \in Threads \ {t} : pc'[u] = pc[u] /\ local'[u] = local[u]
  <1>1. /\ pc'[t] = place /\ local'[t] = r
        /\ \A u \in Threads \ {t} : pc'[u] = pc[u] /\ local'[u] = local[u]
    BY DEF Moves, RequestsInv
  <1>2. pc' \in [Threads -> Places] /\ local' = [u \in Threads |-> local'[u]]
    BY DEF Moves, RequestsInv
  <1>3. \A u \in Threads : IsLocal(local'[u]) /\ ReadOK(pc'[u], local'[u])
    BY <1>1 DEF RequestsInv
  <1>4. \A u \in Threads : ReadOK(pc[u], local[u])'
    BY <1>3 DEF ReadOK
  <1> QED BY <1>1, <1>2, <1>3, <1>4 DEF RequestsInv, IsLocal

LEMMA IdleIsLocal == IsLocal(Idle)
  BY DEF IsLocal, Idle

\* An assignment to one variable of a request.
LEMMA Assigned ==
    ASSUME NEW r, IsLocal(r), NEW v
    PROVE  /\ IsLocal([r EXCEPT !.now = v]) /\ IsLocal([r EXCEPT !.prior = v])
           /\ IsLocal([r EXCEPT !.seen = v]) /\ IsLocal([r EXCEPT !.evidence = v])
           /\ IsLocal([r EXCEPT !.declined = v]) /\ IsLocal([r EXCEPT !.doomed = v])
           /\ IsLocal([r EXCEPT !.number = v]) /\ IsLocal([r EXCEPT !.session = v])
           /\ v \in BOOLEAN => IsLocal([r EXCEPT !.own = v])
  BY DEF IsLocal

\* A request that is over is idle again.
LEMMA Left ==
    ASSUME RequestsInv, NEW t \in Threads, Leave(t), UNCHANGED <<clock, docs>>
    PROVE  /\ RequestsInv' /\ pc'[t] = "idle"
           /\ \A u \in Threads \ {t} : pc'[u] = pc[u] /\ local'[u] = local[u]
  <1>1. ReadOK("idle", Idle)
    BY DEF ReadOK, Searching
  <1>2. Moves(t, "idle", Idle)
    BY DEF Leave, Goto, Moves
  <1> QED BY <1>1, <1>2, IdleIsLocal, Moved DEF Places

LEMMA AnsweredStep ==
    ASSUME RequestsInv, NEW t \in Threads, NEW declined, Answered(t, declined), UNCHANGED <<clock, docs>>
    PROVE  /\ RequestsInv' /\ pc'[t] \in {"idle", "ask"}
           /\ \A u \in Threads \ {t} : pc'[u] = pc[u] /\ local'[u] = local[u]
  <1>1. CASE Leave(t)
    BY <1>1, Left
  <1>2. CASE ~Leave(t)
    <2> DEFINE r == [local[t] EXCEPT !.declined = declined, !.evidence = {}, !.seen = {},
                                     !.prior = <<>>, !.now = 0]
    <2>1. IsLocal(local[t]) /\ local = [u \in Threads |-> local[u]]
      BY DEF RequestsInv
    <2>2. IsLocal(r)
      <3>1. r = [[[[[local[t] EXCEPT !.declined = declined] EXCEPT !.evidence = {}]
                   EXCEPT !.seen = {}] EXCEPT !.prior = <<>>] EXCEPT !.now = 0]
        OBVIOUS
      <3> QED BY <2>1, <3>1, Assigned
    <2>r. ReadOK("ask", r)
      BY DEF ReadOK, Searching
    <2>3. Moves(t, "ask", r)
      BY <1>2, <2>1 DEF Answered, Goto, Moves
    <2> HIDE DEF r
    <2> QED BY <2>2, <2>r, <2>3, Moved DEF Places
  <1> QED BY <1>1, <1>2

\* A step of one request keeps the others as they are, and calls a model only
\* after the budget was checked.
LEMMA RequestStep ==
    ASSUME RequestsInv, NEW t \in Threads, Step(t)
    PROVE  /\ RequestsInv'
           /\ pc[t] # "budget" => pc'[t] # "model"
           /\ \A u \in Threads \ {t} : pc'[u] = pc[u] /\ local'[u] = local[u]
  <1> DEFINE Goal == /\ RequestsInv'
                     /\ pc[t] # "budget" => pc'[t] # "model"
                     /\ \A u \in Threads \ {t} : pc'[u] = pc[u] /\ local'[u] = local[u]
  <1>0. IsLocal(local[t]) /\ local = [u \in Threads |-> local[u]] /\ ReadOK(pc[t], local[t])
    BY DEF RequestsInv
  <1>1. ASSUME NEW q \in Requests, Arrive(t, q) PROVE Goal
    <2> DEFINE r == [Idle EXCEPT !.number = sent', !.session = q.session, !.own = q.own,
                                 !.now = clock, !.seen = docs]
    <2>1. q.own \in BOOLEAN
      BY AnswersAssumption
    <2>2. IsLocal(r) /\ r.now = clock /\ r.seen = docs
      <3> DEFINE x == [[[Idle EXCEPT !.number = sent'] EXCEPT !.session = q.session]
                       EXCEPT !.own = q.own]
                 y == [x EXCEPT !.now = clock]
      <3>1. r = [y EXCEPT !.seen = docs]
        OBVIOUS
      <3>2. IsLocal(x)
        BY <2>1, IdleIsLocal, Assigned
      <3> HIDE DEF x, r
      <3>3. IsLocal(y) /\ y.now = clock
        BY <3>2 DEF IsLocal
      <3> HIDE DEF y
      <3> QED BY <3>1, <3>3 DEF IsLocal
    <2>r. ReadOK("limit", r)
      BY <2>2 DEF ReadOK, RequestsInv
    <2>3. Moves(t, "limit", r) /\ UNCHANGED <<clock, docs>>
      BY <1>1 DEF Arrive, Goto, Moves
    <2> HIDE DEF r
    <2> QED BY <2>2, <2>r, <2>3, Moved DEF Places
  <1>2. ASSUME Acquire(t) PROVE Goal
    <2>1. pc[t] = "limit" /\ UNCHANGED <<clock, docs>>
      BY <1>2 DEF Acquire, world
    <2>2. CASE Leave(t)
      BY <2>1, <2>2, Left
    <2>3. CASE ~Leave(t)
      <3> DEFINE r == [local[t] EXCEPT !.now = 0]
      <3>1. Moves(t, "body", r)
        BY <1>0, <1>2, <2>3 DEF Acquire, Goto, Moves
      <3>2. IsLocal(r) /\ ReadOK("body", r)
        BY <1>0, <2>1 DEF IsLocal, ReadOK, Searching
      <3> HIDE DEF r
      <3> QED BY <2>1, <3>1, <3>2, Moved DEF Places
    <2> QED BY <2>2, <2>3
  <1>3. ASSUME Refuse(t) \/ Abort(t) PROVE Goal
    <2>1. Leave(t) /\ UNCHANGED <<clock, docs>>
      BY <1>3 DEF Refuse, Abort, world
    <2> QED BY <2>1, Left
  <1>4. ASSUME Begin(t) PROVE Goal
    <2>1. pc[t] = "body" /\ UNCHANGED <<clock, docs>> /\ pc' = [pc EXCEPT ![t] = "semantic"]
      BY <1>4 DEF Begin, Goto, world
    <2>2. PICK h : local' = local \/ local' = [local EXCEPT ![t].prior = h]
      BY <1>4 DEF Begin
    <2>3. PICK r \in {local[t], [local[t] EXCEPT !.prior = h]} : local' = [local EXCEPT ![t] = r]
      BY <1>0, <2>2
    <2>4. IsLocal(r) /\ ReadOK("semantic", r)
      BY <1>0, <2>1, <2>3 DEF IsLocal, ReadOK, Searching
    <2>5. Moves(t, "semantic", r)
      BY <2>1, <2>3 DEF Moves
    <2> QED BY <2>1, <2>4, <2>5, Moved DEF Places
  <1>5. ASSUME SemanticSearch(t) PROVE Goal
    <2> DEFINE r == [local[t] EXCEPT !.evidence = docs]
    <2>1. pc[t] = "semantic" /\ UNCHANGED <<clock, docs>> /\ Moves(t, "keyword", r)
      BY <1>0, <1>5 DEF SemanticSearch, Goto, Moves, world
    <2>2. IsLocal(r) /\ ReadOK("keyword", r)
      BY <1>0, <2>1 DEF IsLocal, ReadOK, Searching
    <2> HIDE DEF r
    <2> QED BY <2>1, <2>2, Moved DEF Places
  <1>6. ASSUME NEW E \in SUBSET Sources, KeywordSearch(t, E) PROVE Goal
    <2>1. UNCHANGED <<clock, docs>>
      BY <1>6 DEF KeywordSearch, world
    <2>2. CASE E = {}
      BY <1>6, <2>1, <2>2, AnsweredStep DEF KeywordSearch
    <2>3. CASE E # {}
      <3> DEFINE r == [local[t] EXCEPT !.evidence = E, !.seen = {}, !.prior = <<>>]
      <3>1. Moves(t, "budget", r)
        BY <1>0, <1>6, <2>3 DEF KeywordSearch, Goto, Moves
      <3>2. IsLocal(r)
        <4>1. r = [[[local[t] EXCEPT !.evidence = E] EXCEPT !.seen = {}] EXCEPT !.prior = <<>>]
          OBVIOUS
        <4> QED BY <1>0, <4>1, Assigned
      <3>3. ReadOK("budget", r)
        BY DEF ReadOK, Searching
      <3> HIDE DEF r
      <3> QED BY <2>1, <3>1, <3>2, <3>3, Moved DEF Places
    <2> QED BY <2>2, <2>3
  <1>7. ASSUME CheckBudget(t) PROVE Goal
    <2>1. pc[t] = "budget" /\ UNCHANGED <<clock, docs>>
      BY <1>7 DEF CheckBudget, world
    <2>2. CASE Leave(t)
      BY <2>1, <2>2, Left
    <2>3. CASE ~Leave(t)
      <3>1. Moves(t, "model", local[t])
        BY <1>0, <1>7, <2>3 DEF CheckBudget, Goto, Moves
      <3>2. ReadOK("model", local[t])
        BY DEF ReadOK, Searching
      <3> QED BY <1>0, <2>1, <3>1, <3>2, Moved DEF Places
    <2> QED BY <2>2, <2>3
  <1>8. ASSUME ModelAnswers(t) \/ FallbackAnswers(t) PROVE Goal
    <2>1. PICK declined : Answered(t, declined)
      BY <1>8 DEF ModelAnswers, FallbackAnswers, Generate
    <2>2. UNCHANGED <<clock, docs>>
      BY <1>8 DEF ModelAnswers, FallbackAnswers, Generate, world
    <2> QED BY <2>1, <2>2, AnsweredStep
  <1>9. ASSUME InsertQuestion(t) \/ InsertAnswer(t) PROVE Goal
    <2>1. PICK place \in {"answer", "trim"} : pc' = [pc EXCEPT ![t] = place]
      BY <1>9 DEF InsertQuestion, InsertAnswer, Goto
    <2>2. Moves(t, place, local[t]) /\ UNCHANGED <<clock, docs>>
      BY <1>0, <1>9, <2>1 DEF InsertQuestion, InsertAnswer, Moves, world
    <2>3. ReadOK(place, local[t])
      BY <2>1 DEF ReadOK, Searching
    <2> QED BY <1>0, <2>2, <2>3, Moved DEF Places
  <1>10. ASSUME Trim(t) PROVE Goal
    <2> DEFINE d == Outside(Sees(t))
               r == [local[t] EXCEPT !.doomed = d]
    <2>1. Moves(t, "commit", r) /\ UNCHANGED <<clock, docs>>
      BY <1>0, <1>10 DEF Trim, Goto, Moves, world
    <2> HIDE DEF d
    <2>2. IsLocal(r) /\ ReadOK("commit", r)
      BY <1>0 DEF IsLocal, ReadOK, Searching
    <2> HIDE DEF r
    <2> QED BY <2>1, <2>2, Moved DEF Places
  <1>11. ASSUME Commit(t) \/ Rollback(t) PROVE Goal
    <2>1. Leave(t) /\ UNCHANGED <<clock, docs>>
      BY <1>11 DEF Commit, Rollback, Ends, world
    <2> QED BY <2>1, Left
  <1> QED BY <1>1, <1>2, <1>3, <1>4, <1>5, <1>6, <1>7, <1>8, <1>9, <1>10, <1>11 DEF Step

LEMMA ChangeStep ==
    ASSUME RequestsInv, NEW D \in SUBSET Sources, ChangeDocuments(D)
    PROVE  RequestsInv' /\ UNCHANGED pc /\ \A t \in Threads : local'[t].own = local[t].own
  <1>1. /\ docs' = D /\ UNCHANGED <<clock, pc>>
        /\ local' = [t \in Threads |-> IF pc[t] \in Searching
                                       THEN [local[t] EXCEPT !.seen = @ \cup D] ELSE local[t]]
    BY DEF ChangeDocuments
  <1>2. ASSUME NEW t \in Threads
        PROVE  IsLocal(local'[t]) /\ ReadOK(pc[t], local[t])' /\ local'[t].own = local[t].own
    <2>1. IsLocal(local[t]) /\ ReadOK(pc[t], local[t])
      BY DEF RequestsInv
    <2>2. CASE pc[t] \in Searching
      <3>1. local'[t] = [local[t] EXCEPT !.seen = @ \cup D]
        BY <1>1, <2>2
      <3>2. /\ IsLocal(local'[t]) /\ local'[t].own = local[t].own /\ local'[t].now = local[t].now
            /\ local'[t].seen = local[t].seen \cup D /\ local'[t].evidence = local[t].evidence
        BY <2>1, <3>1 DEF IsLocal
      <3> QED BY <1>1, <2>1, <3>2 DEF ReadOK
    <2>3. CASE pc[t] \notin Searching
      BY <1>1, <2>1, <2>3 DEF ReadOK, Searching
    <2> QED BY <2>2, <2>3
  <1> QED BY <1>1, <1>2 DEF RequestsInv, IsLocal

-----------------------------------------------------------------------------
(* The daily budget.                                                       *)

LEMMA DivGrows ==
    ASSUME NEW a \in Nat, NEW b \in Nat, NEW k \in Nat \ {0}, a <= b
    PROVE  a \div k \in Nat /\ a \div k <= b \div k
  <1>1. a \div k \in Nat /\ b \div k \in Nat
    OBVIOUS
  <1>2. k * (a \div k) <= a /\ b < k * (b \div k) + k
    OBVIOUS
  <1>3. ASSUME NEW m \in Nat, NEW n \in Nat, m > n PROVE k * m >= k * n + k
    <2>1. k * m >= k * (n + 1)
      BY <1>3
    <2> QED BY <2>1
  <1> QED BY <1>1, <1>2, <1>3

LEMMA ProductGrows ==
    ASSUME NEW a \in Nat, NEW m \in Nat, NEW n \in Nat, m <= n
    PROVE  a * m \in Nat /\ a * n \in Nat /\ a * m <= a * n
  OBVIOUS

\* The requests that were let through to the server's key and are not charged yet.
Spenders == {t \in Threads : pc[t] = "model" /\ ~local[t].own}

Bound == Limit - 1 + MaxCost * Cardinality(Threads)

\* What is charged today and what the requests under way may still cost stay
\* below the bound together; this is what makes BudgetBounded inductive.
BudgetInv ==
    /\ used \in [Days -> Nat]
    /\ BudgetBounded
    /\ \A d \in Days : d > Today => used[d] = 0
    /\ \A d \in Days : d = Today => used[d] + MaxCost * Cardinality(Spenders) <= Bound

LEMMA SpendersBound ==
    ASSUME NEW S \in SUBSET Threads, NEW T \in SUBSET S
    PROVE  /\ IsFiniteSet(S) /\ Cardinality(S) \in Nat /\ Cardinality(T) \in Nat
           /\ MaxCost * Cardinality(T) \in Nat /\ MaxCost * Cardinality(S) \in Nat
           /\ MaxCost * Cardinality(T) <= MaxCost * Cardinality(S)
  <1>1. IsFiniteSet(S) /\ IsFiniteSet(T) /\ Cardinality(T) <= Cardinality(S)
    BY AnswersAssumption, FS_Subset
  <1>2. Cardinality(S) \in Nat /\ Cardinality(T) \in Nat
    BY <1>1, FS_CardinalityType
  <1> QED BY <1>1, <1>2, AnswersAssumption, ProductGrows

\* A step that charges nothing and lets no request through.
LEMMA FewerSpenders ==
    ASSUME BudgetInv, UNCHANGED <<used, clock>>, Spenders' \subseteq Spenders
    PROVE  BudgetInv'
  <1>1. /\ MaxCost * Cardinality(Spenders') <= MaxCost * Cardinality(Spenders)
        /\ MaxCost * Cardinality(Spenders') \in Nat /\ MaxCost * Cardinality(Spenders) \in Nat
    BY SpendersBound DEF Spenders
  <1>2. MaxCost * Cardinality(Threads) \in Nat /\ Limit \in Nat
    BY SpendersBound, AnswersAssumption
  <1>3. \A d \in Days : used[d] \in Nat
    BY DEF BudgetInv
  <1>4. \A d \in Days : d = Today' => used'[d] + MaxCost * Cardinality(Spenders') <= Bound
    BY <1>1, <1>2, <1>3 DEF BudgetInv, Today, Bound
  <1> QED BY <1>4 DEF BudgetInv, BudgetBounded, Today, Bound

LEMMA CheckBudgetStep ==
    ASSUME RequestsInv, BudgetInv, NEW t \in Threads, CheckBudget(t)
    PROVE  BudgetInv'
  <1>1. pc[t] = "budget" /\ UNCHANGED <<used, clock>>
    BY DEF CheckBudget, limits, world
  <1>2. Spenders' \subseteq Threads
    BY DEF Spenders
  <1>3. \A u \in Threads \ {t} : pc'[u] = pc[u] /\ local'[u] = local[u]
    BY RequestStep DEF Step
  <1>4. CASE ~Exhausted
    <2>1. ASSUME NEW d \in Days, d = Today
          PROVE  used'[d] + MaxCost * Cardinality(Spenders') <= Bound
      <3>1. used[d] \in Nat /\ used'[d] = used[d] /\ used[d] <= Limit - 1
        BY <1>1, <1>4, <2>1, AnswersAssumption DEF BudgetInv, Exhausted
      <3>2. /\ MaxCost * Cardinality(Spenders') <= MaxCost * Cardinality(Threads)
            /\ MaxCost * Cardinality(Spenders') \in Nat /\ MaxCost * Cardinality(Threads) \in Nat
        BY <1>2, SpendersBound
      <3> QED BY <3>1, <3>2, AnswersAssumption DEF Bound
    <2> QED BY <1>1, <2>1 DEF BudgetInv, BudgetBounded, Today, Bound
  <1>5. CASE Exhausted
    <2>1. t \notin Spenders'
      <3>1. pc'[t] = "idle" \/ (local' = local /\ local[t].own)
        BY <1>1, <1>5 DEF CheckBudget, Leave, Goto, RequestsInv
      <3> QED BY <3>1 DEF Spenders
    <2>2. Spenders' \subseteq Spenders
      BY <1>3, <2>1 DEF Spenders
    <2> QED BY <1>1, <2>2, FewerSpenders
  <1> QED BY <1>4, <1>5

LEMMA GenerateStep ==
    ASSUME RequestsInv, BudgetInv, NEW t \in Threads, NEW cited, NEW cost \in 0..MaxCost,
           Generate(t, cited, cost), Step(t)
    PROVE  BudgetInv'
  <1>1. /\ pc[t] = "model" /\ UNCHANGED clock
        /\ used' = IF local[t].own THEN used ELSE [used EXCEPT ![Today] = @ + cost]
    BY DEF Generate, world
  <1>2. Spenders' \subseteq Spenders \ {t}
    <2>1. pc'[t] # "model" /\ \A u \in Threads \ {t} : pc'[u] = pc[u] /\ local'[u] = local[u]
      BY <1>1, RequestStep
    <2> QED BY <2>1 DEF Spenders
  <1>3. CASE local[t].own
    BY <1>1, <1>2, <1>3, FewerSpenders
  <1>4. CASE ~local[t].own
    <2>1. t \in Spenders /\ Spenders \in SUBSET Threads
      BY <1>1, <1>4 DEF Spenders
    <2>2. IsFiniteSet(Spenders) /\ Cardinality(Spenders) \in Nat
      BY <2>1, SpendersBound
    <2>3. Cardinality(Spenders \ {t}) = Cardinality(Spenders) - 1
      BY <2>1, <2>2, FS_RemoveElement
    <2>4. /\ MaxCost * Cardinality(Spenders') <= MaxCost * Cardinality(Spenders \ {t})
          /\ MaxCost * Cardinality(Spenders') \in Nat /\ Cardinality(Spenders \ {t}) \in Nat
      BY <1>2, <2>1, SpendersBound
    <2>5. MaxCost * Cardinality(Spenders') + MaxCost <= MaxCost * Cardinality(Spenders)
      <3>1. MaxCost * (Cardinality(Spenders \ {t}) + 1) = MaxCost * Cardinality(Spenders \ {t}) + MaxCost
        BY <2>4, AnswersAssumption
      <3> QED BY <2>2, <2>3, <2>4, <3>1, AnswersAssumption
    <2>6. used' = [used EXCEPT ![Today] = @ + cost] /\ cost \in Nat /\ cost <= MaxCost
      BY <1>1, <1>4, AnswersAssumption
    <2>7. used' \in [Days -> Nat] /\ \A d \in Days : used'[d] = IF d = Today THEN used[d] + cost ELSE used[d]
      <3>1. used \in [Days -> Nat] /\ \A d \in Days : used[d] + cost \in Nat
        BY <2>6 DEF BudgetInv
      <3> HIDE DEF Today
      <3>2. \A d \in Days : used'[d] = IF d = Today THEN used[d] + cost ELSE used[d]
        BY <2>6, <3>1
      <3>3. used' = [d \in Days |-> used'[d]]
        BY <2>6, <3>1
      <3> QED BY <3>1, <3>2, <3>3
    <2>8. MaxCost * Cardinality(Threads) \in Nat /\ MaxCost * Cardinality(Spenders) \in Nat /\ Bound \in Nat
      BY <2>1, SpendersBound, AnswersAssumption DEF Bound
    <2>9. ASSUME NEW d \in Days, d = Today
          PROVE  used'[d] + MaxCost * Cardinality(Spenders') <= Bound
      <3>1. used[d] + MaxCost * Cardinality(Spenders) <= Bound /\ used[d] \in Nat
        BY <2>9 DEF BudgetInv
      <3> QED BY <2>4, <2>5, <2>6, <2>7, <2>8, <2>9, <3>1, AnswersAssumption
    <2>10. \A d \in Days : used'[d] <= Bound
      <3> TAKE d \in Days
      <3>1. CASE d = Today
        BY <2>4, <2>7, <2>8, <2>9, <3>1
      <3>2. CASE d # Today
        BY <2>7, <3>2 DEF BudgetInv, BudgetBounded, Bound
      <3> QED BY <3>1, <3>2
    <2>11. Today' = Today /\ Today \in Nat
      BY <1>1, AnswersAssumption, DivGrows DEF Today, RequestsInv
    <2>12. \A d \in Days : d > Today => used'[d] = 0
      BY <2>7, <2>11 DEF BudgetInv, Days
    <2> QED BY <2>7, <2>9, <2>10, <2>11, <2>12 DEF BudgetInv, BudgetBounded, Bound
  <1> QED BY <1>3, <1>4

LEMMA TickBudget ==
    ASSUME RequestsInv, BudgetInv, Tick
    PROVE  BudgetInv'
  <1>1. clock' = clock + 1 /\ clock \in Nat /\ UNCHANGED <<used, pc, local>>
    BY AnswersAssumption DEF Tick, RequestsInv, limits
  <1>2. Today \in Nat /\ Today' \in Nat /\ Today <= Today'
    BY <1>1, AnswersAssumption, DivGrows DEF Today
  <1>3. Days \subseteq Nat /\ Spenders' = Spenders /\ Spenders \in SUBSET Threads
    BY <1>1 DEF Days, Spenders
  <1>4. /\ MaxCost * Cardinality(Spenders) <= MaxCost * Cardinality(Threads)
        /\ MaxCost * Cardinality(Spenders) \in Nat /\ MaxCost * Cardinality(Threads) \in Nat
    BY <1>3, SpendersBound
  <1>5. ASSUME NEW d \in Days, d = Today'
        PROVE  used[d] + MaxCost * Cardinality(Spenders) <= Bound
    <2>1. CASE d = Today
      BY <2>1 DEF BudgetInv
    <2>2. CASE d > Today
      <3>1. used[d] = 0
        BY <2>2 DEF BudgetInv
      <3> QED BY <1>4, <3>1, AnswersAssumption DEF Bound
    <2> QED BY <1>2, <1>5, <2>1, <2>2
  <1>6. \A d \in Days : d > Today' => used[d] = 0
    BY <1>2, <1>3 DEF BudgetInv
  <1> QED BY <1>1, <1>3, <1>5, <1>6 DEF BudgetInv, BudgetBounded, Bound

LEMMA BudgetStep ==
    ASSUME RequestsInv, BudgetInv, [Next]_vars
    PROVE  BudgetInv'
  <1>1. ASSUME NEW t \in Threads, Step(t), UNCHANGED used, pc'[t] # "model"
        PROVE  BudgetInv'
    <2>1. \A u \in Threads \ {t} : pc'[u] = pc[u] /\ local'[u] = local[u]
      BY <1>1, RequestStep
    <2>2. Spenders' \subseteq Spenders
      BY <1>1, <2>1 DEF Spenders
    <2>3. UNCHANGED clock
      BY <1>1 DEF Step, Arrive, Acquire, Refuse, Begin, SemanticSearch, Abort, KeywordSearch,
                  CheckBudget, ModelAnswers, FallbackAnswers, Generate, InsertQuestion,
                  InsertAnswer, Trim, Commit, Rollback, Ends, world
    <2> QED BY <1>1, <2>2, <2>3, FewerSpenders
  <1>2. ASSUME NEW t \in Threads, Step(t) PROVE BudgetInv'
    <2>1. CASE CheckBudget(t)
      BY <2>1, CheckBudgetStep
    <2>2. CASE ModelAnswers(t)
      <3>1. PICK cited \in SUBSET (1..(TopK + 1)), cost \in 1..MaxCost : Generate(t, cited, cost)
        BY <2>2 DEF ModelAnswers
      <3>2. cost \in 0..MaxCost
        BY AnswersAssumption
      <3> QED BY <1>2, <3>1, <3>2, GenerateStep
    <2>3. CASE FallbackAnswers(t)
      <3>1. PICK packed \in Packed(Cardinality(local[t].evidence)) :
                Generate(t, 1..(IF packed > 3 THEN 3 ELSE packed), 0)
        BY <2>3 DEF FallbackAnswers
      <3>2. 0 \in 0..MaxCost
        BY AnswersAssumption
      <3> QED BY <1>2, <3>1, <3>2, GenerateStep
    <2>4. CASE ~CheckBudget(t) /\ ~ModelAnswers(t) /\ ~FallbackAnswers(t)
      <3>1. pc[t] # "budget" /\ UNCHANGED used
        BY <1>2, <2>4 DEF Step, Arrive, Acquire, Refuse, Begin, SemanticSearch, Abort,
                          KeywordSearch, InsertQuestion, InsertAnswer, Trim, Commit, Rollback, Ends,
                          limits
      <3> QED BY <1>1, <1>2, <3>1, RequestStep
    <2> QED BY <2>1, <2>2, <2>3, <2>4
  <1>3. ASSUME NEW D \in SUBSET Sources, ChangeDocuments(D) PROVE BudgetInv'
    <2>1. Spenders' \subseteq Spenders
      BY <1>3, ChangeStep DEF Spenders
    <2> QED BY <1>3, <2>1, FewerSpenders DEF ChangeDocuments, limits
  <1>4. CASE Done \/ UNCHANGED vars
    BY <1>4, FewerSpenders DEF Done, vars, Spenders
  <1> QED BY <1>2, <1>3, <1>4, TickBudget DEF Next

-----------------------------------------------------------------------------
(* The rate limiter.                                                       *)

\* For every request that was let through, those since then and the tokens that
\* are left do not exceed a full bucket and what was refilled since: this holds
\* although the clock that a thread brings may be behind the bucket's.
RateInv ==
    /\ bucket = NULL \/ bucket \in [tokens : {n \in Int : n <= Capacity}, updated : 0..MaxClock]
    /\ grants \in Seq(0..MaxClock)
    /\ bucket = NULL => grants = <<>>
    /\ bucket # NULL => \A i \in 1..Len(grants) :
           Len(grants) - i + 1 + bucket.tokens <= Capacity + Rate * (bucket.updated - grants[i])
    /\ RateBounded

LEMMA TokensBound ==
    ASSUME RateInv, NEW now \in 0..MaxClock
    PROVE  /\ Tokens(now) \in Int /\ Tokens(now) <= Capacity
           /\ bucket # NULL => Tokens(now) <= bucket.tokens + (now - bucket.updated) * Rate
  <1>1. CASE bucket = NULL
    BY <1>1, AnswersAssumption DEF Tokens
  <1>2. CASE bucket # NULL
    <2>1. bucket.tokens \in Int /\ bucket.updated \in Int /\ now \in Int
      BY <1>2 DEF RateInv
    <2>2. bucket.tokens + (now - bucket.updated) * Rate \in Int
      BY <2>1, AnswersAssumption
    <2> QED BY <1>2, <2>2, AnswersAssumption DEF Tokens
  <1> QED BY <1>1, <1>2

LEMMA Elapsed ==
    ASSUME NEW rate \in Nat, NEW a \in Int, NEW b \in Int, NEW c \in Int
    PROVE  /\ rate * (a - c) = rate * (b - c) + (a - b) * rate
           /\ rate * (a - c) \in Int /\ rate * (b - c) \in Int /\ (a - b) * rate \in Int
  OBVIOUS

LEMMA AcquireStep ==
    ASSUME RequestsInv, RateInv, NEW t \in Threads, Acquire(t)
    PROVE  RateInv'
  <1> DEFINE now == local[t].now
             T == Tokens(now)
             n == Len(grants)
             granted == T >= 1
  <1>1. pc[t] = "limit" /\ now \in 0..MaxClock
    BY DEF Acquire, RequestsInv, ReadOK
  <1>2. /\ bucket' = [tokens |-> IF granted THEN T - 1 ELSE T, updated |-> now]
        /\ grants' = IF granted THEN Append(grants, now) ELSE grants
    BY DEF Acquire
  <1>3. /\ T \in Int /\ T <= Capacity
        /\ bucket # NULL => T <= bucket.tokens + (now - bucket.updated) * Rate
    BY <1>1, TokensBound
  <1>4. now \in Nat /\ n \in Nat /\ Capacity \in Nat /\ Rate \in Nat
    BY <1>1, AnswersAssumption DEF RateInv
  <1> HIDE DEF T, now
  <1>5. /\ bucket'.tokens = (IF granted THEN T - 1 ELSE T) /\ bucket'.updated = now
        /\ bucket' \in [tokens : {i \in Int : i <= Capacity}, updated : 0..MaxClock]
        /\ bucket' # NULL
    <2>1. bucket'.tokens = (IF granted THEN T - 1 ELSE T) /\ bucket'.updated = now
      BY <1>2
    <2>2. (IF granted THEN T - 1 ELSE T) \in {i \in Int : i <= Capacity}
      BY <1>3, <1>4
    <2>3. bucket' \in [tokens : {i \in Int : i <= Capacity}, updated : 0..MaxClock]
      BY <1>1, <1>2, <2>2
    <2>4. bucket' \in [tokens : Int, updated : Nat]
      BY <1>2, <1>4, <2>2
    <2> QED BY <2>1, <2>3, <2>4, AnswersAssumption
  \* Tokens and grants since grant i, before the token is taken.
  <1>6. ASSUME NEW i \in 1..n
        PROVE  /\ grants[i] \in 0..MaxClock /\ Rate * (now - grants[i]) \in Int
               /\ n - i + 1 + T <= Capacity + Rate * (now - grants[i])
    <2>1. grants[i] \in 0..MaxClock
      <3>1. grants \in Seq(0..MaxClock)
        BY DEF RateInv
      <3>2. i \in 1..Len(grants)
        BY <1>6
      <3> QED BY <3>1, <3>2, ElementOfSeq
    <2>2. bucket # NULL
      <3>1. n # 0
        BY <1>4, <1>6
      <3>2. Len(<<>>) = 0
        OBVIOUS
      <3> QED BY <3>1, <3>2 DEF RateInv
    <2>3. bucket.tokens \in Int /\ bucket.updated \in Int /\ grants[i] \in Int /\ now \in Int
      BY <1>4, <2>1, <2>2 DEF RateInv
    <2>4. n - i + 1 + bucket.tokens <= Capacity + Rate * (bucket.updated - grants[i])
      BY <1>6, <2>2 DEF RateInv
    <2>5. PICK a \in Int, b \in Int, c \in Int : a = now /\ b = bucket.updated /\ c = grants[i]
      BY <2>3
    <2>6. /\ Rate * (a - c) = Rate * (b - c) + (a - b) * Rate
          /\ Rate * (a - c) \in Int /\ Rate * (b - c) \in Int /\ (a - b) * Rate \in Int
      BY <1>4, Elapsed
    <2>7. n - i + 1 + T <= Capacity + Rate * (a - c)
      <3>1. T <= bucket.tokens + (a - b) * Rate
        BY <1>3, <2>2, <2>5
      <3>2. n - i + 1 + bucket.tokens <= Capacity + Rate * (b - c)
        BY <2>4, <2>5
      <3> QED BY <1>3, <1>4, <1>6, <2>3, <2>6, <3>1, <3>2
    <2> QED BY <2>1, <2>5, <2>6, <2>7
  <1>7. CASE granted
    <2>1. /\ grants' \in Seq(0..MaxClock) /\ Len(grants') = n + 1 /\ grants'[n + 1] = now
          /\ \A i \in 1..n : grants'[i] = grants[i]
      BY <1>1, <1>2, <1>7 DEF RateInv
    <2>2. T \in Int /\ T >= 1 /\ bucket'.tokens = T - 1 /\ bucket'.updated = now
      BY <1>3, <1>5, <1>7
    <2>3. Rate * (now - now) = 0
      BY <1>4
    <2>4. ASSUME NEW i \in 1..(n + 1)
          PROVE  /\ (n + 1) - i + 1 + bucket'.tokens <= Capacity + Rate * (now - grants'[i])
                 /\ (n + 1) - i + 1 <= Capacity + Rate * (now - grants'[i])
      <3>1. CASE i = n + 1
        BY <1>3, <1>4, <2>1, <2>2, <2>3, <3>1
      <3>2. CASE i \in 1..n
        BY <1>4, <1>6, <2>1, <2>2, <3>2
      <3> QED BY <1>4, <3>1, <3>2
    <2>5. RateBounded'
      <3> SUFFICES ASSUME NEW i \in 1..(n + 1), NEW j \in 1..(n + 1), i <= j
                   PROVE  j - i + 1 <= Capacity + Rate * (grants'[j] - grants'[i])
        BY <2>1 DEF RateBounded
      <3>1. CASE j = n + 1
        BY <2>1, <2>4, <3>1
      <3>2. CASE j \in 1..n
        <4>1. i \in 1..n /\ grants'[i] = grants[i] /\ grants'[j] = grants[j]
          BY <1>4, <2>1, <3>2
        <4> QED BY <3>2, <4>1 DEF RateInv, RateBounded
      <3> QED BY <1>4, <3>1, <3>2
    <2> QED BY <1>5, <2>1, <2>2, <2>4, <2>5 DEF RateInv
  <1>8. CASE ~granted
    <2>1. grants' = grants /\ bucket'.tokens = T /\ bucket'.updated = now
      BY <1>2, <1>5, <1>8
    <2>2. RateBounded'
      BY <2>1 DEF RateInv, RateBounded
    <2> QED BY <1>5, <1>6, <2>1, <2>2 DEF RateInv
  <1> QED BY <1>7, <1>8

LEMMA RateStep ==
    ASSUME RequestsInv, RateInv, [Next]_vars
    PROVE  RateInv'
  <1>1. UNCHANGED <<bucket, grants>> \/ \E t \in Threads : Acquire(t)
    BY DEF Next, vars, Step, Arrive, Refuse, Begin, SemanticSearch, Abort, KeywordSearch,
           CheckBudget, ModelAnswers, FallbackAnswers, Generate, InsertQuestion, InsertAnswer,
           Trim, Commit, Rollback, Ends, ChangeDocuments, Tick, Done, limits
  <1>2. CASE UNCHANGED <<bucket, grants>>
    BY <1>2 DEF RateInv, RateBounded
  <1> QED BY <1>1, <1>2, AcquireStep

-----------------------------------------------------------------------------
(* Sets of ids.                                                            *)

\* The principle of the least number, which the proofs use in place of induction.
LEMMA Least ==
    ASSUME NEW S \in SUBSET Nat, S # {}
    PROVE  \E m \in S : \A n \in S : m <= n
  <1> DEFINE R == {ss \in Nat \X Nat : ss[1] < ss[2]}
  <1>1. IsWellFoundedOn(R, Nat)
    <2>1. R = OpToRel(<, Nat)
      BY DEF OpToRel
    <2> QED BY <2>1, NatLessThanWellFounded
  <1>2. PICK m \in S : \A n \in S : ~(<<n, m>> \in R)
    <2> HIDE DEF R
    <2> QED BY <1>1, WFMin
  <1>3. ASSUME NEW n \in S PROVE m <= n
    <2>1. <<n, m>> \in Nat \X Nat
      OBVIOUS
    <2> QED BY <1>2, <2>1
  <1> QED BY <1>3

LEMMA Smaller ==
    ASSUME NEW S, IsFiniteSet(S), NEW T \in SUBSET S
    PROVE  /\ IsFiniteSet(T) /\ Cardinality(T) <= Cardinality(S)
           /\ Cardinality(T) \in Nat /\ Cardinality(S) \in Nat
  BY FS_Subset, FS_CardinalityType

LEMMA IdsFinite ==
    ASSUME NEW n \in Nat, NEW S \in SUBSET (1..n)
    PROVE  IsFiniteSet(S) /\ Cardinality(S) \in Nat
  <1>1. IsFiniteSet(1..n)
    BY FS_Interval
  <1> QED BY <1>1, Smaller

\* A set of ids has a greatest one.
LEMMA NewestId ==
    ASSUME NEW n \in Nat, NEW S \in SUBSET (1..n), S # {}
    PROVE  \E m \in S : \A i \in S : i <= m
  <1> DEFINE T == {k \in Nat : n - k \in S}
  <1>1. \A i \in S : n - i \in T
    OBVIOUS
  <1>2. PICK k \in T : \A l \in T : k <= l
    <2>1. T \in SUBSET Nat /\ T # {}
      BY <1>1
    <2> HIDE DEF T
    <2> QED BY <2>1, Least
  <1>3. n - k \in S /\ k \in Nat
    BY <1>2
  <1>4. \A i \in S : i <= n - k
    <2> TAKE i \in S
    <2>1. k <= n - i
      BY <1>1, <1>2
    <2> QED BY <1>3, <2>1
  <1> QED BY <1>3, <1>4

LEMMA NewerOf ==
    ASSUME NEW n \in Nat, NEW S \in SUBSET (1..n), NEW i \in 1..n
    PROVE  /\ IsFiniteSet(Newer(S, i)) /\ Cardinality(Newer(S, i)) \in Nat
           /\ \A j \in 1..n : j <= i => Cardinality(Newer(S, i)) <= Cardinality(Newer(S, j))
           /\ \A j \in S : j > i => Cardinality(Newer(S, j)) < Cardinality(Newer(S, i))
  <1>1. \A j \in 1..n : Newer(S, j) \in SUBSET (1..n)
    BY DEF Newer
  <1>2. \A j \in 1..n : IsFiniteSet(Newer(S, j)) /\ Cardinality(Newer(S, j)) \in Nat
    BY <1>1, IdsFinite
  <1>3. ASSUME NEW j \in 1..n, j <= i PROVE Cardinality(Newer(S, i)) <= Cardinality(Newer(S, j))
    <2>1. Newer(S, i) \subseteq Newer(S, j)
      <3>1. \A k \in S : k > i => k > j
        BY <1>3
      <3> QED BY <3>1 DEF Newer
    <2> QED BY <1>2, <2>1, Smaller
  <1>4. ASSUME NEW j \in S, j > i PROVE Cardinality(Newer(S, j)) < Cardinality(Newer(S, i))
    <2>1. Newer(S, j) \subseteq Newer(S, i) /\ j \in Newer(S, i) /\ j \notin Newer(S, j)
      <3>1. ~(j > j) /\ \A k \in S : k > j => k > i
        BY <1>4
      <3> QED BY <1>4, <3>1 DEF Newer
    <2>2. Newer(S, j) # Newer(S, i)
      BY <2>1
    <2>3. /\ Cardinality(Newer(S, j)) <= Cardinality(Newer(S, i))
          /\ Cardinality(Newer(S, j)) # Cardinality(Newer(S, i))
      BY <1>2, <2>1, <2>2, FS_Subset
    <2> QED BY <1>2, <2>3
  <1> QED BY <1>2, <1>3, <1>4

\* A window of m rows has at most m, those outside of it are older, and there are
\* some only if the window is full.
LEMMA WindowOfIds ==
    ASSUME NEW n \in Nat, NEW S \in SUBSET (1..n), NEW m \in Nat \ {0}
    PROVE  /\ Cardinality(Latest(S, m)) <= m
           /\ \A i \in S \ Latest(S, m), j \in Latest(S, m) : i < j
           /\ \A i \in S \ Latest(S, m) : Cardinality(Newer(Latest(S, m), i)) >= m
  <1> DEFINE L == Latest(S, m)
  <1>1. L \in SUBSET S /\ L \in SUBSET (1..n) /\ \A i \in S : i \in L <=> Cardinality(Newer(S, i)) < m
    BY DEF Latest
  <1>2. \A i \in S : Cardinality(Newer(S, i)) \in Nat
    BY NewerOf
  <1> HIDE DEF L
  <1>3. \A i \in S \ L, j \in L : i < j
    <2> SUFFICES ASSUME NEW i \in S \ L, NEW j \in L, j <= i PROVE FALSE
      BY <1>1
    <2>1. Cardinality(Newer(S, i)) <= Cardinality(Newer(S, j))
      BY <1>1, NewerOf
    <2> QED BY <1>1, <1>2, <2>1
  <1>4. Cardinality(L) <= m
    <2>1. CASE L = {}
      BY <2>1, FS_EmptySet
    <2>2. CASE L # {}
      <3>1. PICK k \in L : \A i \in L : k <= i
        <4>1. L \in SUBSET Nat
          BY <1>1
        <4> QED BY <2>2, <4>1, Least
      <3>2. L \subseteq Newer(S, k) \cup {k}
        BY <1>1, <3>1 DEF Newer
      <3>3. IsFiniteSet(Newer(S, k)) /\ k \notin Newer(S, k)
        <4>1. k \in 1..n
          BY <1>1, <3>1
        <4>2. ~(k > k)
          BY <4>1
        <4> QED BY <4>1, <4>2, NewerOf DEF Newer
      <3>4. /\ IsFiniteSet(Newer(S, k) \cup {k})
            /\ Cardinality(Newer(S, k) \cup {k}) = Cardinality(Newer(S, k)) + 1
        BY <3>3, FS_AddElement
      <3>5. Cardinality(L) <= Cardinality(Newer(S, k)) + 1 /\ Cardinality(L) \in Nat
        BY <3>2, <3>4, Smaller
      <3> QED BY <1>1, <1>2, <3>1, <3>5
    <2> QED BY <2>1, <2>2
  <1>5. ASSUME NEW i \in S \ L PROVE Cardinality(Newer(L, i)) >= m
    <2>1. PICK k \in S \ L : \A j \in S \ L : j <= k
      <3>1. S \ L \in SUBSET (1..n)
        OBVIOUS
      <3> QED BY <3>1, NewestId
    <2>2. Newer(S, k) = Newer(L, i)
      <3>1. \A j \in S : j \in Int
        OBVIOUS
      <3>2. \A j \in S : j > k <=> j \in L
        BY <1>1, <1>3, <2>1, <3>1
      <3>3. \A j \in L : j > i
        BY <1>1, <1>3, <3>1
      <3> QED BY <1>1, <3>2, <3>3 DEF Newer
    <2>3. Cardinality(Newer(S, k)) >= m
      BY <1>1, <1>2, <2>1
    <2> QED BY <2>2, <2>3
  <1> QED BY <1>3, <1>4, <1>5 DEF L

-----------------------------------------------------------------------------
(* The variables of a request that its chat needs.                         *)

\* The transaction that records the exchange has begun.
Writing == {"answer", "trim", "commit"}

\* q differs from r in other variables only.
SameChat(r, q) ==
    q.session = r.session /\ q.number = r.number /\ q.doomed = r.doomed

\* A request whose variables have become q, and what it did to the earlier turns.
Continues(r, q) ==
    SameChat(r, q) /\ q.prior \in {r.prior, <<>>} /\ (q.declined = r.declined \/ q.declined \in BOOLEAN)

LEMMA AssignedChat ==
    ASSUME NEW r, IsLocal(r), NEW v
    PROVE  /\ Continues(r, [r EXCEPT !.now = v]) /\ Continues(r, [r EXCEPT !.seen = v])
           /\ Continues(r, [r EXCEPT !.evidence = v]) /\ Continues(r, [r EXCEPT !.prior = <<>>])
           /\ v \in BOOLEAN => Continues(r, [r EXCEPT !.declined = v])
           /\ SameChat(r, [r EXCEPT !.prior = v]) /\ [r EXCEPT !.prior = v].prior = v
           /\ [r EXCEPT !.prior = v].declined = r.declined
           /\ [r EXCEPT !.doomed = v].session = r.session
           /\ [r EXCEPT !.doomed = v].number = r.number /\ [r EXCEPT !.doomed = v].prior = r.prior
           /\ [r EXCEPT !.doomed = v].declined = r.declined /\ [r EXCEPT !.doomed = v].doomed = v
  BY DEF IsLocal, Continues, SameChat

LEMMA ContinuesOn ==
    ASSUME NEW p, NEW q, NEW r, Continues(p, q), Continues(q, r) PROVE Continues(p, r)
  BY DEF Continues, SameChat

\* What a step of thread t does to its request: the request arrives, ends, reads
\* the history, or goes on.
LEMMA ChatVariables ==
    ASSUME RequestsInv, NEW t \in Threads, Step(t)
    PROVE  \/ \E r \in Requests : Arrive(t, r)
           \/ pc[t] # "idle" /\ pc'[t] = "idle" /\ local'[t] = Idle
           \/ Begin(t) \/ Trim(t)
           \/ /\ pc[t] # "idle" /\ pc'[t] # "idle" /\ Continues(local[t], local'[t])
              /\ pc'[t] \in {"ask"} \cup Writing =>
                     pc[t] \in {"ask"} \cup Writing \/ local[t].session # NULL
  <1> DEFINE Goal == \/ pc[t] # "idle" /\ pc'[t] = "idle" /\ local'[t] = Idle
                     \/ /\ pc[t] # "idle" /\ pc'[t] # "idle" /\ Continues(local[t], local'[t])
                        /\ pc'[t] \in {"ask"} \cup Writing =>
                               pc[t] \in {"ask"} \cup Writing \/ local[t].session # NULL
  <1>0. IsLocal(local[t]) /\ local = [u \in Threads |-> local[u]] /\ pc \in [Threads -> Places]
    BY DEF RequestsInv
  <1>1. ASSUME Leave(t) PROVE pc'[t] = "idle" /\ local'[t] = Idle
    BY <1>0, <1>1 DEF Leave, Goto
  <1>c. Continues(local[t], local[t])
    BY DEF Continues, SameChat
  <1>2. ASSUME Acquire(t) PROVE Goal
    <2>1. pc[t] = "limit"
      BY <1>2 DEF Acquire
    <2>2. CASE Leave(t)
      BY <1>1, <2>1, <2>2
    <2>3. CASE ~Leave(t)
      <3>1. local'[t] = [local[t] EXCEPT !.now = 0] /\ pc'[t] = "body"
        BY <1>0, <1>2, <2>3 DEF Acquire, Goto
      <3>2. Continues(local[t], [local[t] EXCEPT !.now = 0])
        BY <1>0, AssignedChat
      <3> QED BY <2>1, <3>1, <3>2 DEF Writing
    <2> QED BY <2>2, <2>3
  <1>3. ASSUME Refuse(t) \/ Abort(t) \/ Commit(t) \/ Rollback(t) PROVE Goal
    BY <1>1, <1>3 DEF Refuse, Abort, Commit, Rollback, Ends
  <1>4. ASSUME SemanticSearch(t) PROVE Goal
    <2>1. /\ local'[t] = [local[t] EXCEPT !.evidence = docs] /\ pc[t] = "semantic"
          /\ pc'[t] = "keyword"
      BY <1>0, <1>4 DEF SemanticSearch, Goto
    <2>2. Continues(local[t], [local[t] EXCEPT !.evidence = docs])
      BY <1>0, AssignedChat
    <2> QED BY <2>1, <2>2 DEF Writing
  <1>5. ASSUME NEW declined \in BOOLEAN, Answered(t, declined), pc[t] # "idle" PROVE Goal
    <2>1. CASE Leave(t)
      BY <1>1, <1>5, <2>1
    <2>2. CASE ~Leave(t)
      <3> DEFINE a == [local[t] EXCEPT !.declined = declined]
                 b == [a EXCEPT !.evidence = {}]
                 c == [b EXCEPT !.seen = {}]
                 d == [c EXCEPT !.prior = <<>>]
                 e == [d EXCEPT !.now = 0]
      <3>1. local'[t] = e /\ pc'[t] = "ask" /\ local[t].session # NULL
        BY <1>0, <1>5, <2>2 DEF Answered, Goto
      <3>2. IsLocal(a) /\ Continues(local[t], a)
        BY <1>0, <1>5, Assigned, AssignedChat
      <3>3. IsLocal(b) /\ Continues(a, b)
        <4> HIDE DEF a
        <4> QED BY <3>2, Assigned, AssignedChat
      <3>4. IsLocal(c) /\ Continues(b, c)
        <4> HIDE DEF b
        <4> QED BY <3>3, Assigned, AssignedChat
      <3>5. IsLocal(d) /\ Continues(c, d)
        <4> HIDE DEF c
        <4> QED BY <3>4, Assigned, AssignedChat
      <3>6. Continues(d, e)
        <4> HIDE DEF d
        <4> QED BY <3>5, AssignedChat
      <3> HIDE DEF a, b, c, d, e
      <3>7. Continues(local[t], e)
        BY <3>2, <3>3, <3>4, <3>5, <3>6, ContinuesOn
      <3> QED BY <1>5, <3>1, <3>7
    <2> QED BY <2>1, <2>2
  <1>6. ASSUME NEW E \in SUBSET Sources, KeywordSearch(t, E) PROVE Goal
    <2>1. CASE E = {}
      BY <1>5, <1>6, <2>1 DEF KeywordSearch
    <2>2. CASE E # {}
      <3> DEFINE a == [local[t] EXCEPT !.evidence = E]
                 b == [a EXCEPT !.seen = {}]
                 c == [b EXCEPT !.prior = <<>>]
      <3>1. local'[t] = c /\ pc[t] = "keyword" /\ pc'[t] = "budget"
        BY <1>0, <1>6, <2>2 DEF KeywordSearch, Goto
      <3>2. IsLocal(a) /\ Continues(local[t], a)
        BY <1>0, Assigned, AssignedChat
      <3>3. IsLocal(b) /\ Continues(a, b)
        <4> HIDE DEF a
        <4> QED BY <3>2, Assigned, AssignedChat
      <3>4. Continues(b, c)
        <4> HIDE DEF b
        <4> QED BY <3>3, AssignedChat
      <3> HIDE DEF a, b, c
      <3>5. Continues(local[t], c)
        BY <3>2, <3>3, <3>4, ContinuesOn
      <3> QED BY <3>1, <3>5 DEF Writing
    <2> QED BY <2>1, <2>2
  <1>7. ASSUME CheckBudget(t) PROVE Goal
    <2>1. CASE Leave(t)
      BY <1>1, <1>7, <2>1 DEF CheckBudget
    <2>2. CASE ~Leave(t)
      BY <1>0, <1>c, <1>7, <2>2 DEF CheckBudget, Goto, Writing
    <2> QED BY <2>1, <2>2
  <1>8. ASSUME ModelAnswers(t) \/ FallbackAnswers(t) PROVE Goal
    <2>1. PICK declined \in BOOLEAN : Answered(t, declined)
      BY <1>8 DEF ModelAnswers, FallbackAnswers, Generate
    <2>2. pc[t] # "idle"
      BY <1>8 DEF ModelAnswers, FallbackAnswers, Generate
    <2> QED BY <1>5, <2>1, <2>2
  <1>9. ASSUME InsertQuestion(t) \/ InsertAnswer(t) PROVE Goal
    BY <1>0, <1>c, <1>9 DEF InsertQuestion, InsertAnswer, Goto, Writing
  <1> QED BY <1>2, <1>3, <1>4, <1>6, <1>7, <1>8, <1>9 DEF Step

\* The variables of a request at a place.
ChatOK(place, r) ==
    /\ place = "idle" => r = Idle
    /\ place # "idle" => r.number \in 1..MaxRequests
    /\ r.session \in Sessions \cup {NULL} /\ r.declined \in BOOLEAN
    /\ place \in {"ask"} \cup Writing => r.session # NULL

\* A client that waits has one request at a time.
OneEach ==
    \A t, u \in Threads :
        local[t].session \in Serial /\ local[u].session = local[t].session => t = u

\* Requests have what their places need, and a waiting client has one at a time.
ChatsInv ==
    /\ sent \in 0..MaxRequests
    /\ \A t \in Threads : ChatOK(pc[t], local[t])
    /\ OneEach

LEMMA IdleChat ==
    /\ Idle.number = 0 /\ Idle.session = NULL /\ Idle.declined = TRUE /\ Idle.prior = <<>>
    /\ Idle.doomed = {} /\ ChatOK("idle", Idle) /\ NULL \notin Serial
  BY AnswersAssumption DEF Idle, ChatOK, Writing

LEMMA ArriveChat ==
    ASSUME RequestsInv, ChatsInv, NEW t \in Threads, NEW q \in Requests, Arrive(t, q)
    PROVE  /\ pc[t] = "idle" /\ pc'[t] = "limit" /\ sent' \in 1..MaxRequests
           /\ local'[t].number = sent' /\ local'[t].session = q.session
           /\ local'[t].declined = TRUE /\ local'[t].prior = <<>>
           /\ q.session \in Serial => \A u \in Threads : local[u].session # q.session
  <1>0. local = [u \in Threads |-> local[u]] /\ pc \in [Threads -> Places]
    BY DEF RequestsInv
  <1> DEFINE a == [Idle EXCEPT !.number = sent']
             b == [a EXCEPT !.session = q.session]
             c == [b EXCEPT !.own = q.own]
             d == [c EXCEPT !.now = clock]
             e == [d EXCEPT !.seen = docs]
  <1>1. local'[t] = e /\ pc'[t] = "limit"
    BY <1>0 DEF Arrive, Goto
  <1>2. q.own \in BOOLEAN
    BY AnswersAssumption
  <1>3. IsLocal(a) /\ a.number = sent' /\ a.declined = TRUE /\ a.prior = <<>>
    BY IdleIsLocal, IdleChat DEF IsLocal
  <1> HIDE DEF a
  <1>4. IsLocal(b) /\ b.number = sent' /\ b.declined = TRUE /\ b.prior = <<>> /\ b.session = q.session
    BY <1>3 DEF IsLocal
  <1> HIDE DEF b
  <1>5. IsLocal(c) /\ c.number = sent' /\ c.declined = TRUE /\ c.prior = <<>> /\ c.session = q.session
    BY <1>2, <1>4 DEF IsLocal
  <1> HIDE DEF c
  <1>6. IsLocal(d) /\ d.number = sent' /\ d.declined = TRUE /\ d.prior = <<>> /\ d.session = q.session
    BY <1>5 DEF IsLocal
  <1> HIDE DEF d
  <1>7. e.number = sent' /\ e.declined = TRUE /\ e.prior = <<>> /\ e.session = q.session
    BY <1>6 DEF IsLocal
  <1> HIDE DEF e
  <1>8. sent' \in 1..MaxRequests
    BY AnswersAssumption DEF Arrive, ChatsInv
  <1> QED BY <1>1, <1>7, <1>8 DEF Arrive

LEMMA TrimChat ==
    ASSUME RequestsInv, NEW t \in Threads, Trim(t)
    PROVE  /\ pc[t] = "trim" /\ pc'[t] = "commit" /\ local'[t].doomed = Outside(Sees(t))
           /\ local'[t].session = local[t].session /\ local'[t].number = local[t].number
           /\ local'[t].prior = local[t].prior /\ local'[t].declined = local[t].declined
  <1> DEFINE d == Outside(Sees(t))
  <1>1. /\ IsLocal(local[t]) /\ local'[t] = [local[t] EXCEPT !.doomed = d]
        /\ pc[t] = "trim" /\ pc'[t] = "commit"
    BY DEF Trim, Goto, RequestsInv
  <1> HIDE DEF d
  <1>2. [local[t] EXCEPT !.doomed = d].doomed = d
    BY <1>1, AssignedChat
  <1>3. /\ [local[t] EXCEPT !.doomed = d].session = local[t].session
        /\ [local[t] EXCEPT !.doomed = d].number = local[t].number
        /\ [local[t] EXCEPT !.doomed = d].prior = local[t].prior
        /\ [local[t] EXCEPT !.doomed = d].declined = local[t].declined
    BY <1>1, AssignedChat
  <1> QED BY <1>1, <1>2, <1>3 DEF d

LEMMA BeginChat ==
    ASSUME RequestsInv, NEW t \in Threads, Begin(t)
    PROVE  /\ pc[t] = "body" /\ pc'[t] = "semantic"
           /\ SameChat(local[t], local'[t]) /\ local'[t].declined = local[t].declined
           /\ local[t].session # NULL =>
                  LET turns == HistoryForModel(Window(local[t].session))
                  IN  \E n \in 0..Len(turns) : local'[t].prior = TrimHistory(turns, n)
  <1> DEFINE turns == HistoryForModel(Window(local[t].session))
  <1>1. IsLocal(local[t]) /\ local = [u \in Threads |-> local[u]] /\ pc \in [Threads -> Places]
    BY DEF RequestsInv
  <1>2. /\ pc[t] = "body" /\ pc'[t] = "semantic"
        /\ local[t].session = NULL => local'[t] = local[t]
        /\ local[t].session # NULL =>
               \E n \in 0..Len(turns) : local'[t] = [local[t] EXCEPT !.prior = TrimHistory(turns, n)]
    BY <1>1 DEF Begin, Goto
  <1> HIDE DEF turns
  <1>3. \A h : /\ SameChat(local[t], [local[t] EXCEPT !.prior = h])
               /\ [local[t] EXCEPT !.prior = h].prior = h
               /\ [local[t] EXCEPT !.prior = h].declined = local[t].declined
    BY <1>1, AssignedChat DEF SameChat
  <1>4. CASE local[t].session = NULL
    BY <1>2, <1>4 DEF SameChat
  <1>5. CASE local[t].session # NULL
    <2>1. PICK n \in 0..Len(turns) : local'[t] = [local[t] EXCEPT !.prior = TrimHistory(turns, n)]
      BY <1>2, <1>5
    <2> QED BY <1>2, <1>3, <2>1 DEF turns
  <1> QED BY <1>4, <1>5

\* What other requests do to the documents changes nothing of a chat.
LEMMA ChangeChat ==
    ASSUME RequestsInv, NEW D \in SUBSET Sources, ChangeDocuments(D), NEW t \in Threads
    PROVE  /\ pc'[t] = pc[t] /\ Continues(local[t], local'[t])
           /\ local'[t].prior = local[t].prior /\ local'[t].declined = local[t].declined
           /\ pc[t] = "idle" => local'[t] = local[t]
  <1>1. IsLocal(local[t]) /\ pc'[t] = pc[t]
    BY DEF RequestsInv, ChangeDocuments
  <1>2. local'[t] = IF pc[t] \in Searching THEN [local[t] EXCEPT !.seen = @ \cup D] ELSE local[t]
    BY DEF ChangeDocuments
  <1>3. CASE pc[t] \notin Searching
    BY <1>1, <1>2, <1>3 DEF Continues, SameChat
  <1>4. CASE pc[t] \in Searching
    <2>1. local'[t] = [local[t] EXCEPT !.seen = @ \cup D]
      BY <1>2, <1>4
    <2>2. /\ SameChat(local[t], local'[t]) /\ local'[t].prior = local[t].prior
          /\ local'[t].declined = local[t].declined
      BY <1>1, <2>1 DEF IsLocal, SameChat
    <2> QED BY <1>1, <1>4, <2>2 DEF Continues, Searching
  <1> QED BY <1>3, <1>4

LEMMA ChatsStep ==
    ASSUME RequestsInv, ChatsInv, [Next]_vars
    PROVE  ChatsInv'
  <1>0. /\ sent \in 0..MaxRequests /\ \A u \in Threads : ChatOK(pc[u], local[u])
        /\ OneEach
    BY DEF ChatsInv
  <1>1. ASSUME NEW t \in Threads, Step(t) PROVE ChatsInv'
    <2>0. \A u \in Threads \ {t} : pc'[u] = pc[u] /\ local'[u] = local[u]
      BY <1>1, RequestStep
    <2>1. sent' \in 0..MaxRequests
      <3>1. CASE \E q \in Requests : Arrive(t, q)
        <4>1. sent' \in 1..MaxRequests
          BY <3>1, ArriveChat
        <4> QED BY <4>1, AnswersAssumption
      <3>2. CASE ~\E q \in Requests : Arrive(t, q)
        BY <1>0, <1>1, <3>2 DEF Step, Acquire, Refuse, Begin, SemanticSearch, Abort, KeywordSearch,
               CheckBudget, ModelAnswers, FallbackAnswers, Generate, InsertQuestion, InsertAnswer,
               Trim, Commit, Rollback, Ends, world
      <3> QED BY <3>1, <3>2
    <2>2. /\ ChatOK(pc'[t], local'[t])
          /\ local'[t].session \in {NULL, local[t].session} \/
             \A u \in Threads \ {t} : local'[t].session \notin Serial \/ local[u].session # local'[t].session
      <3>1. CASE \E q \in Requests : Arrive(t, q)
        <4>1. PICK q \in Requests : Arrive(t, q)
          BY <3>1
        <4>2. q.session \in Sessions \cup {NULL}
          BY AnswersAssumption
        <4>3. /\ pc'[t] = "limit" /\ local'[t].number \in 1..MaxRequests
              /\ local'[t].session = q.session /\ local'[t].declined = TRUE
              /\ q.session \in Serial => \A u \in Threads : local[u].session # q.session
          BY <4>1, ArriveChat
        <4>4. ChatOK(pc'[t], local'[t])
          BY <4>2, <4>3 DEF ChatOK, Writing
        <4> QED BY <4>3, <4>4
      <3>2. CASE pc'[t] = "idle" /\ local'[t] = Idle
        BY <3>2, IdleChat
      <3>3. CASE Begin(t)
        BY <1>0, <3>3, BeginChat DEF ChatOK, SameChat, Writing
      <3>4. CASE Trim(t)
        BY <1>0, <3>4, TrimChat DEF ChatOK, Writing
      <3>5. CASE /\ pc[t] # "idle" /\ pc'[t] # "idle" /\ Continues(local[t], local'[t])
                 /\ pc'[t] \in {"ask"} \cup Writing =>
                        pc[t] \in {"ask"} \cup Writing \/ local[t].session # NULL
        BY <1>0, <3>5 DEF ChatOK, Continues, SameChat
      <3> QED BY <1>1, <3>1, <3>2, <3>3, <3>4, <3>5, ChatVariables
    <2>3. OneEach'
      BY <1>0, <2>0, <2>2, IdleChat DEF OneEach
    <2>4. \A u \in Threads : ChatOK(pc'[u], local'[u])
      BY <1>0, <2>0, <2>2
    <2> QED BY <2>1, <2>3, <2>4 DEF ChatsInv, ChatOK
  <1>2. ASSUME NEW D \in SUBSET Sources, ChangeDocuments(D) PROVE ChatsInv'
    <2>1. \A u \in Threads : /\ pc'[u] = pc[u] /\ Continues(local[u], local'[u])
                             /\ local'[u].declined = local[u].declined
                             /\ pc[u] = "idle" => local'[u] = local[u]
      BY <1>2, ChangeChat
    <2>2. \A u \in Threads : ChatOK(pc'[u], local'[u])
      BY <1>0, <2>1 DEF ChatOK, Continues, SameChat
    <2>3. OneEach'
      BY <1>0, <2>1 DEF OneEach, Continues, SameChat
    <2>4. sent' = sent
      BY <1>2 DEF ChangeDocuments
    <2> QED BY <1>0, <2>2, <2>3, <2>4 DEF ChatsInv, ChatOK
  <1>3. ASSUME Tick \/ Done \/ UNCHANGED vars PROVE ChatsInv'
    BY <1>3 DEF Tick, Done, vars, ChatsInv, ChatOK, OneEach
  <1> QED BY <1>1, <1>2, <1>3 DEF Next

-----------------------------------------------------------------------------
(* The table.                                                              *)

\* A row that is not committed belongs to the request that is writing it.
OwnOK(r) ==
    r.by # NULL => /\ pc[r.by] \in Writing /\ r.session = local[r.by].session
                   /\ pc[r.by] = "answer" => r.turn.role = "user"

\* A thread has at most one row of each role that is not committed, and deletes
\* rows that it sees only.
TableInv ==
    /\ ids \in Nat /\ DOMAIN rows \subseteq 1..ids /\ rows \in [DOMAIN rows -> Row]
    /\ \A i \in DOMAIN rows : OwnOK(rows[i])
    /\ \A i, j \in DOMAIN rows :
           rows[i].by # NULL /\ rows[i].by = rows[j].by /\ rows[i].turn.role = rows[j].turn.role
               => i = j
    /\ \A t \in Threads : pc[t] = "commit" =>
           local[t].doomed \subseteq 1..ids /\ local[t].doomed \cap DOMAIN rows \subseteq Sees(t)

\* A step that has nothing to do with the table.
Quiet ==
    /\ UNCHANGED table
    /\ \A t \in Threads : \/ /\ pc'[t] = pc[t] /\ SameChat(local[t], local'[t])
                             /\ local'[t].declined = local[t].declined
                          \/ pc[t] \notin Writing /\ pc'[t] \notin Writing

LEMMA StepKinds ==
    ASSUME RequestsInv, [Next]_vars
    PROVE  \/ Quiet
           \/ \E t \in Threads : InsertQuestion(t) \/ InsertAnswer(t) \/ Trim(t) \/ Commit(t) \/ Rollback(t)
  <1>0. local = [u \in Threads |-> local[u]] /\ pc \in [Threads -> Places]
    BY DEF RequestsInv
  <1>1. ASSUME NEW t \in Threads, Step(t),
               ~(InsertQuestion(t) \/ InsertAnswer(t) \/ Trim(t) \/ Commit(t) \/ Rollback(t))
        PROVE  Quiet
    <2>1. \A u \in Threads \ {t} : pc'[u] = pc[u] /\ local'[u] = local[u]
      BY <1>1, RequestStep
    <2>2. UNCHANGED table
      BY <1>1 DEF Step, Arrive, Acquire, Refuse, Begin, SemanticSearch, Abort, KeywordSearch,
                  CheckBudget, ModelAnswers, FallbackAnswers, Generate, table
    <2>3. pc[t] \notin Writing
      BY <1>1 DEF Step, Arrive, Acquire, Refuse, Begin, SemanticSearch, Abort, KeywordSearch,
                  CheckBudget, ModelAnswers, FallbackAnswers, Generate, Writing
    <2>4. pc'[t] \notin Writing
      BY <1>0, <1>1 DEF Step, Arrive, Acquire, Refuse, Begin, SemanticSearch, Abort, KeywordSearch,
                  CheckBudget, ModelAnswers, FallbackAnswers, Generate, Answered, Leave, Goto, Writing
    <2> QED BY <2>1, <2>2, <2>3, <2>4 DEF Quiet, SameChat
  <1>2. ASSUME NEW D \in SUBSET Sources, ChangeDocuments(D) PROVE Quiet
    <2>1. UNCHANGED table
      BY <1>2 DEF ChangeDocuments, table
    <2> QED BY <1>2, <2>1, ChangeChat DEF Quiet, Continues
  <1>3. ASSUME Tick \/ Done \/ UNCHANGED vars PROVE Quiet
    BY <1>3 DEF Tick, Done, vars, Quiet, SameChat, table
  <1> QED BY <1>1, <1>2, <1>3 DEF Next

LEMMA Inserted ==
    ASSUME TableInv, NEW t \in Threads, NEW turn \in Turn, Insert(t, turn), local[t].session \in Sessions
    PROVE  /\ ids' = ids + 1 /\ ids' \in Nat /\ ids' \in 1..ids' /\ ids' \notin 1..ids
           /\ 1..ids \subseteq 1..ids'
           /\ DOMAIN rows' = DOMAIN rows \cup {ids'} /\ ids' \notin DOMAIN rows
           /\ \A i \in DOMAIN rows : i < ids' /\ rows'[i] = rows[i]
           /\ rows'[ids'] = [session |-> local[t].session, turn |-> turn, by |-> t]
           /\ rows' \in [DOMAIN rows' -> Row]
  <1>1. /\ ids' = ids + 1 /\ ids \in Nat /\ DOMAIN rows \subseteq 1..ids
        /\ rows' = [i \in DOMAIN rows \cup {ids'} |->
                       IF i = ids' THEN [session |-> local[t].session, turn |-> turn, by |-> t]
                       ELSE rows[i]]
    BY DEF Insert, TableInv
  <1>2. /\ ids' \in Nat /\ ids' \in 1..ids' /\ ids' \notin 1..ids /\ 1..ids \subseteq 1..ids'
        /\ \A i \in 1..ids : i < ids'
    BY <1>1
  <1>3. [session |-> local[t].session, turn |-> turn, by |-> t] \in Row
    BY DEF Row
  <1>4. \A i \in DOMAIN rows : rows[i] \in Row /\ i # ids'
    BY <1>1, <1>2 DEF TableInv
  <1> QED BY <1>1, <1>2, <1>3, <1>4

LEMMA Ended ==
    ASSUME RequestsInv, TableInv, NEW t \in Threads, NEW S \in SUBSET DOMAIN rows, Ends(t, S)
    PROVE  /\ ids' = ids /\ DOMAIN rows' = S /\ rows' \in [S -> Row]
           /\ \A i \in S : /\ rows'[i].session = rows[i].session /\ rows'[i].turn = rows[i].turn
                           /\ rows'[i].by = (IF rows[i].by = t THEN NULL ELSE rows[i].by)
           /\ pc'[t] = "idle" /\ local'[t] = Idle
           /\ \A u \in Threads \ {t} : pc'[u] = pc[u] /\ local'[u] = local[u]
  <1>1. /\ rows' = [i \in S |-> [rows[i] EXCEPT !.by = IF @ = t THEN NULL ELSE @]]
        /\ ids' = ids /\ Leave(t) /\ UNCHANGED <<clock, docs>>
    BY DEF Ends, world
  <1>2. ASSUME NEW i \in S
        PROVE  /\ rows'[i] \in Row
               /\ rows'[i].session = rows[i].session /\ rows'[i].turn = rows[i].turn
               /\ rows'[i].by = (IF rows[i].by = t THEN NULL ELSE rows[i].by)
    <2>1. rows[i] \in Row
      BY DEF TableInv
    <2>2. rows'[i] = [rows[i] EXCEPT !.by = IF rows[i].by = t THEN NULL ELSE rows[i].by]
      BY <1>1, <2>1 DEF Row
    <2> QED BY <2>1, <2>2 DEF Row
  <1>3. local'[t] = Idle
    BY <1>1 DEF Leave, RequestsInv
  <1> QED BY <1>1, <1>2, <1>3, Left

\* The insertion of one turn of its exchange by thread t, which moves on.
InsertsTurn(t, turn, place) ==
    /\ turn \in Turn /\ Insert(t, turn) /\ place \in Writing \ {"commit"}
    /\ pc'[t] = place /\ UNCHANGED local
    /\ local[t].session \in Sessions
    /\ \A u \in Threads \ {t} : pc'[u] = pc[u]
    /\ pc[t] # "commit" /\ (place = "answer" => turn.role = "user")
    /\ \A i \in DOMAIN rows : rows[i].by = t => place # "answer" /\ rows[i].turn.role # turn.role

LEMMA Inserts ==
    ASSUME RequestsInv, ChatsInv, TableInv, NEW t \in Threads, InsertQuestion(t) \/ InsertAnswer(t)
    PROVE  \/ /\ InsertQuestion(t)
              /\ InsertsTurn(t, [role |-> "user", of |-> local[t].number, declined |-> FALSE], "answer")
           \/ /\ InsertAnswer(t)
              /\ InsertsTurn(t, [role |-> "assistant", of |-> local[t].number,
                                 declined |-> local[t].declined], "trim")
  <1>0. pc \in [Threads -> Places] /\ ChatOK(pc[t], local[t])
    BY DEF RequestsInv, ChatsInv
  <1>1. /\ pc[t] \in {"ask", "answer"} /\ local[t].session \in Sessions
        /\ local[t].number \in 1..MaxRequests /\ local[t].declined \in BOOLEAN
    BY <1>0 DEF InsertQuestion, InsertAnswer, ChatOK, Writing
  <1>2. \A i \in DOMAIN rows : rows[i].by = t => pc[t] = "answer" /\ rows[i].turn.role = "user"
    <2> SUFFICES ASSUME NEW i \in DOMAIN rows, rows[i].by = t
                 PROVE  pc[t] = "answer" /\ rows[i].turn.role = "user"
      OBVIOUS
    <2>1. t # NULL
      BY AnswersAssumption
    <2>2. OwnOK(rows[i])
      BY DEF TableInv
    <2>3. pc[t] \in Writing /\ (pc[t] = "answer" => rows[i].turn.role = "user")
      BY <2>1, <2>2 DEF OwnOK
    <2> QED BY <1>1, <2>3 DEF Writing
  <1>3. \A u \in Threads \ {t} : pc'[u] = pc[u]
    BY <1>0 DEF InsertQuestion, InsertAnswer, Goto
  <1>4. CASE InsertQuestion(t)
    <2> DEFINE turn == [role |-> "user", of |-> local[t].number, declined |-> FALSE]
    <2>1. turn \in Turn /\ turn.role = "user"
      BY <1>1 DEF Turn
    <2>2. Insert(t, turn) /\ pc[t] = "ask" /\ pc'[t] = "answer" /\ UNCHANGED local
      BY <1>0, <1>4 DEF InsertQuestion, Goto
    <2> HIDE DEF turn
    <2>3. InsertsTurn(t, turn, "answer")
      BY <1>1, <1>2, <1>3, <2>1, <2>2 DEF InsertsTurn, Writing
    <2> QED BY <1>4, <2>3 DEF turn
  <1>5. CASE InsertAnswer(t)
    <2> DEFINE turn == [role |-> "assistant", of |-> local[t].number, declined |-> local[t].declined]
    <2>1. turn \in Turn /\ turn.role = "assistant"
      BY <1>1 DEF Turn
    <2>2. Insert(t, turn) /\ pc[t] = "answer" /\ pc'[t] = "trim" /\ UNCHANGED local
      BY <1>0, <1>5 DEF InsertAnswer, Goto
    <2> HIDE DEF turn
    <2>3. InsertsTurn(t, turn, "trim")
      BY <1>1, <1>2, <1>3, <2>1, <2>2 DEF InsertsTurn, Writing
    <2> QED BY <1>5, <2>3 DEF turn
  <1> QED BY <1>4, <1>5

LEMMA InsertTable ==
    ASSUME TableInv, NEW t \in Threads, NEW turn, NEW place, InsertsTurn(t, turn, place)
    PROVE  TableInv'
  <1>1. /\ ids' = ids + 1 /\ ids' \in Nat /\ ids' \in 1..ids' /\ ids' \notin 1..ids
        /\ 1..ids \subseteq 1..ids'
        /\ DOMAIN rows' = DOMAIN rows \cup {ids'} /\ ids' \notin DOMAIN rows
        /\ \A i \in DOMAIN rows : i < ids' /\ rows'[i] = rows[i]
        /\ rows'[ids'] = [session |-> local[t].session, turn |-> turn, by |-> t]
        /\ rows' \in [DOMAIN rows' -> Row]
    BY Inserted DEF InsertsTurn
  <1>2. /\ rows'[ids'].session = local[t].session /\ rows'[ids'].turn = turn /\ rows'[ids'].by = t
        /\ t # NULL
    BY <1>1, AnswersAssumption
  <1>3. DOMAIN rows \subseteq 1..ids
    BY DEF TableInv
  <1>4. /\ local' = local /\ pc'[t] = place /\ place \in Writing \ {"commit"}
        /\ \A u \in Threads \ {t} : pc'[u] = pc[u]
        /\ pc[t] # "commit" /\ (place = "answer" => turn.role = "user")
        /\ \A i \in DOMAIN rows : rows[i].by = t => place # "answer" /\ rows[i].turn.role # turn.role
    BY DEF InsertsTurn
  <1>5. \A i \in DOMAIN rows' : OwnOK(rows[i])'
    <2> SUFFICES ASSUME NEW i \in DOMAIN rows' PROVE OwnOK(rows[i])'
      OBVIOUS
    <2>1. CASE i = ids'
      BY <1>2, <1>4, <2>1 DEF OwnOK
    <2>2. CASE i \in DOMAIN rows
      <3>1. OwnOK(rows[i]) /\ rows[i] \in Row /\ rows'[i] = rows[i]
        BY <1>1, <2>2 DEF TableInv
      <3>2. CASE rows[i].by = t
        <4>1. place # "answer"
          BY <1>4, <2>2, <3>2
        <4> QED BY <1>2, <1>4, <3>1, <3>2, <4>1 DEF OwnOK
      <3>3. CASE rows[i].by # t
        BY <1>4, <3>1, <3>3 DEF OwnOK, Row
      <3> QED BY <3>2, <3>3
    <2> QED BY <1>1, <2>1, <2>2
  <1>6. \A i, j \in DOMAIN rows' :
           rows'[i].by # NULL /\ rows'[i].by = rows'[j].by /\ rows'[i].turn.role = rows'[j].turn.role
               => i = j
    BY <1>1, <1>2, <1>4 DEF TableInv
  <1>7. ASSUME NEW u \in Threads, pc'[u] = "commit"
        PROVE  /\ local'[u].doomed \subseteq 1..ids'
               /\ local'[u].doomed \cap DOMAIN rows' \subseteq Sees(u)'
    <2>1. u # t /\ pc[u] = "commit" /\ local'[u] = local[u]
      BY <1>4, <1>7
    <2>2. local[u].doomed \subseteq 1..ids /\ local[u].doomed \cap DOMAIN rows \subseteq Sees(u)
      BY <2>1 DEF TableInv
    <2>3. Sees(u) \subseteq Sees(u)'
      BY <1>1, <2>1 DEF Sees
    <2> QED BY <1>1, <2>1, <2>2, <2>3
  <1>8. DOMAIN rows' \subseteq 1..ids'
    BY <1>1, <1>3
  <1> QED BY <1>1, <1>5, <1>6, <1>7, <1>8 DEF TableInv

LEMMA EndTable ==
    ASSUME RequestsInv, TableInv, NEW t \in Threads, NEW S \in SUBSET DOMAIN rows, Ends(t, S)
    PROVE  TableInv'
  <1>1. /\ ids' = ids /\ DOMAIN rows' = S /\ rows' \in [S -> Row]
        /\ \A i \in S : /\ rows'[i].session = rows[i].session /\ rows'[i].turn = rows[i].turn
                        /\ rows'[i].by = (IF rows[i].by = t THEN NULL ELSE rows[i].by)
        /\ pc'[t] = "idle" /\ local'[t] = Idle
        /\ \A u \in Threads \ {t} : pc'[u] = pc[u] /\ local'[u] = local[u]
    BY Ended
  <1>2. \A i \in S : rows[i].by \in Threads \cup {NULL}
    BY DEF TableInv, Row
  <1>3. \A i \in S : OwnOK(rows[i])'
    BY <1>1, <1>2 DEF TableInv, OwnOK
  <1>4. \A i, j \in S :
           rows'[i].by # NULL /\ rows'[i].by = rows'[j].by /\ rows'[i].turn.role = rows'[j].turn.role
               => i = j
    BY <1>1 DEF TableInv
  <1>5. ASSUME NEW u \in Threads, pc'[u] = "commit"
        PROVE  /\ local'[u].doomed \subseteq 1..ids'
               /\ local'[u].doomed \cap DOMAIN rows' \subseteq Sees(u)'
    <2>1. u # t /\ pc[u] = "commit" /\ local'[u] = local[u]
      BY <1>1, <1>5
    <2>2. local[u].doomed \subseteq 1..ids /\ local[u].doomed \cap DOMAIN rows \subseteq Sees(u)
      BY <2>1 DEF TableInv
    <2>3. Sees(u) \cap S \subseteq Sees(u)'
      BY <1>1, <2>1 DEF Sees
    <2> QED BY <1>1, <2>1, <2>2, <2>3
  <1>6. ids \in Nat /\ S \subseteq 1..ids
    BY DEF TableInv
  <1> QED BY <1>1, <1>3, <1>4, <1>5, <1>6 DEF TableInv

LEMMA QuietTable ==
    ASSUME TableInv, Quiet
    PROVE  /\ TableInv' /\ rows' = rows /\ ids' = ids
           /\ \A t \in Threads : pc'[t] = "commit" =>
                  pc[t] = "commit" /\ local'[t].doomed = local[t].doomed
                  /\ local'[t].session = local[t].session /\ Sees(t)' = Sees(t)
  <1>1. rows' = rows /\ ids' = ids
    BY DEF Quiet, table
  <1>2. \A t \in Threads : pc[t] \in Writing \/ pc'[t] \in Writing =>
            pc'[t] = pc[t] /\ local'[t].doomed = local[t].doomed /\ local'[t].session = local[t].session
    BY DEF Quiet, SameChat
  <1>3. \A t \in Threads : pc'[t] = "commit" =>
            pc[t] = "commit" /\ local'[t].doomed = local[t].doomed
            /\ local'[t].session = local[t].session /\ Sees(t)' = Sees(t)
    BY <1>1, <1>2 DEF Writing, Sees
  <1>4. \A i \in DOMAIN rows : rows[i].by \in Threads \cup {NULL}
    BY DEF TableInv, Row
  <1>5. \A i \in DOMAIN rows : OwnOK(rows[i])'
    BY <1>1, <1>2, <1>4 DEF TableInv, OwnOK
  <1> QED BY <1>1, <1>3, <1>5 DEF TableInv

LEMMA TrimTable ==
    ASSUME RequestsInv, TableInv, NEW t \in Threads, Trim(t)
    PROVE  /\ TableInv' /\ rows' = rows /\ ids' = ids
           /\ \A u \in Threads \ {t} : pc'[u] = pc[u] /\ local'[u] = local[u]
           /\ \A u \in Threads : Sees(u)' = Sees(u)
  <1>1. rows' = rows /\ ids' = ids
    BY DEF Trim, table
  <1>2. /\ pc[t] = "trim" /\ pc'[t] = "commit" /\ local'[t].doomed = Outside(Sees(t))
        /\ local'[t].session = local[t].session
    BY TrimChat
  <1>3. \A u \in Threads \ {t} : pc'[u] = pc[u] /\ local'[u] = local[u]
    BY RequestStep DEF Step
  <1>4. \A u \in Threads : Sees(u)' = Sees(u)
    BY <1>1, <1>2, <1>3 DEF Sees
  <1>5. \A i \in DOMAIN rows : rows[i].by \in Threads \cup {NULL}
    BY DEF TableInv, Row
  <1>6. \A i \in DOMAIN rows : OwnOK(rows[i])'
    BY <1>1, <1>2, <1>3, <1>5 DEF TableInv, OwnOK, Writing
  <1>7. Outside(Sees(t)) \subseteq Sees(t) /\ Sees(t) \subseteq DOMAIN rows /\ DOMAIN rows \subseteq 1..ids
    BY DEF Outside, Sees, TableInv
  <1>8. \A u \in Threads : pc'[u] = "commit" =>
           local'[u].doomed \subseteq 1..ids /\ local'[u].doomed \cap DOMAIN rows \subseteq Sees(u)
    BY <1>2, <1>3, <1>7 DEF TableInv
  <1> QED BY <1>1, <1>3, <1>4, <1>6, <1>8 DEF TableInv

LEMMA TableStep ==
    ASSUME RequestsInv, ChatsInv, TableInv, [Next]_vars
    PROVE  TableInv'
  <1>1. ASSUME NEW t \in Threads, Commit(t) PROVE TableInv'
    BY <1>1, EndTable DEF Commit
  <1>2. ASSUME NEW t \in Threads, Rollback(t) PROVE TableInv'
    <2>1. {i \in DOMAIN rows : rows[i].by # t} \in SUBSET DOMAIN rows
      OBVIOUS
    <2> QED BY <1>2, <2>1, EndTable DEF Rollback
  <1> QED BY <1>1, <1>2, StepKinds, QuietTable, TrimTable, Inserts, InsertTable

-----------------------------------------------------------------------------
(* What a trim deletes.                                                    *)

\* What thread t has left of its session once its transaction commits.
Kept(t) == Sees(t) \ local[t].doomed

\* Whatever other transactions have deleted since the trim took its snapshot,
\* a full window of newer rows than it deletes is left.
KeepsInv ==
    \A t \in Threads : pc[t] = "commit" =>
        \A i \in local[t].doomed : Cardinality(Newer(Kept(t), i)) >= MaxMessages

\* Newer rows stay in sight: T has what S has after k.
LEMMA NewerGrows ==
    ASSUME NEW n \in Nat, NEW S \in SUBSET (1..n), NEW T \in SUBSET (1..n), NEW i \in 1..n, NEW k \in 1..n,
           i <= k, \A j \in S : j > k => j \in T, Cardinality(Newer(S, k)) >= MaxMessages
    PROVE  Cardinality(Newer(T, i)) >= MaxMessages
  <1>1. \A j \in S : j > k => j > i
    OBVIOUS
  <1>2. Newer(S, k) \subseteq Newer(T, i)
    BY <1>1 DEF Newer
  <1>3. /\ IsFiniteSet(Newer(T, i)) /\ Cardinality(Newer(T, i)) \in Nat
        /\ Cardinality(Newer(S, k)) \in Nat
    BY NewerOf
  <1>4. Cardinality(Newer(S, k)) <= Cardinality(Newer(T, i))
    BY <1>2, <1>3, Smaller
  <1> QED BY <1>3, <1>4, AnswersAssumption

\* What one transaction deletes and another one counted on: the one that deletes
\* the newer rows has itself left a full window after them.
LEMMA CommitKeeps ==
    ASSUME RequestsInv, TableInv, KeepsInv, NEW t \in Threads, Commit(t)
    PROVE  KeepsInv'
  <1> DEFINE S == DOMAIN rows \ local[t].doomed
  <1>1. pc[t] = "commit" /\ Ends(t, S)
    BY DEF Commit
  <1>2. /\ ids' = ids /\ DOMAIN rows' = S
        /\ \A i \in S : /\ rows'[i].session = rows[i].session
                        /\ rows'[i].by = (IF rows[i].by = t THEN NULL ELSE rows[i].by)
        /\ pc'[t] = "idle"
        /\ \A u \in Threads \ {t} : pc'[u] = pc[u] /\ local'[u] = local[u]
    BY <1>1, Ended
  <1>3. ids \in Nat /\ DOMAIN rows \subseteq 1..ids
    BY DEF TableInv
  <1> SUFFICES ASSUME NEW u \in Threads, pc'[u] = "commit", NEW i \in local'[u].doomed
               PROVE  Cardinality(Newer(Kept(u)', i)) >= MaxMessages
    BY DEF KeepsInv, Newer
  <1>4. u # t /\ pc[u] = "commit" /\ local'[u] = local[u]
    BY <1>2
  <1> DEFINE d == local[t].doomed
             e == local[u].doomed
  <1>5. /\ d \subseteq 1..ids /\ e \subseteq 1..ids /\ i \in e
        /\ d \cap DOMAIN rows \subseteq Sees(t)
        /\ \A k \in d : Cardinality(Newer(Kept(t), k)) >= MaxMessages
        /\ \A k \in e : Cardinality(Newer(Kept(u), k)) >= MaxMessages
    BY <1>1, <1>4 DEF TableInv, KeepsInv
  <1>6. /\ Kept(t) \subseteq 1..ids /\ Kept(u) \subseteq 1..ids /\ Kept(u)' \subseteq 1..ids
        /\ Kept(t) \cap d = {} /\ Kept(u) \cap e = {} /\ Kept(u)' = Sees(u)' \ e
    BY <1>2, <1>3, <1>4 DEF Kept, Sees
  <1>7. Sees(u) \ d \subseteq Sees(u)'
    BY <1>2, <1>4 DEF Sees
  <1>8. CASE d \cap Sees(u) = {}
    <2>1. Kept(u) \subseteq Kept(u)'
      BY <1>6, <1>7, <1>8 DEF Kept
    <2>2. i \in 1..ids /\ i <= i /\ Cardinality(Newer(Kept(u), i)) >= MaxMessages
      BY <1>3, <1>5
    <2>3. \A j \in Kept(u) : j > i => j \in Kept(u)'
      BY <2>1
    <2> QED BY <1>3, <1>6, <2>2, <2>3, NewerGrows
  <1>9. CASE d \cap Sees(u) # {}
    <2>1. PICK x \in d \cap Sees(u) : TRUE
      BY <1>9
    <2>2. local[u].session = local[t].session
      BY <1>5, <2>1 DEF Sees
    <2>3. Kept(t) \subseteq Sees(u)'
      BY <1>2, <1>4, <2>2 DEF Kept, Sees
    <2>4. PICK m \in d : \A k \in d : k <= m
      BY <1>3, <1>5, <2>1, NewestId
    <2>5. PICK l \in e : \A k \in e : k <= l
      BY <1>3, <1>5, NewestId
    <2>6. m \in 1..ids /\ l \in 1..ids /\ i \in 1..ids /\ i <= l
      BY <1>5, <2>4, <2>5
    <2>7. CASE m <= l
      <3>1. \A j \in Kept(u) : j > l => j \notin d
        BY <1>3, <1>5, <1>6, <2>4, <2>6, <2>7
      <3>2. \A j \in Kept(u) : j > l => j \in Kept(u)'
        BY <1>6, <1>7, <3>1 DEF Kept
      <3> QED BY <1>3, <1>5, <1>6, <2>5, <2>6, <3>2, NewerGrows
    <2>8. CASE m > l
      <3>1. i <= m
        BY <2>6, <2>8
      <3>2. \A j \in Kept(t) : j > m => j \notin e
        BY <1>3, <1>5, <1>6, <2>5, <2>6, <2>8
      <3>3. \A j \in Kept(t) : j > m => j \in Kept(u)'
        BY <1>6, <2>3, <3>2
      <3> QED BY <1>3, <1>5, <1>6, <2>4, <2>6, <3>1, <3>3, NewerGrows
    <2> QED BY <2>6, <2>7, <2>8
  <1> QED BY <1>8, <1>9

LEMMA KeepsStep ==
    ASSUME RequestsInv, ChatsInv, TableInv, KeepsInv, [Next]_vars
    PROVE  KeepsInv'
  \* A step that changes neither what a committing thread sees nor what it deletes.
  <1>1. ASSUME \A u \in Threads : pc'[u] = "commit" => pc[u] = "commit" /\ Sees(u)' = Sees(u)
                                                      /\ local'[u].doomed = local[u].doomed
        PROVE  KeepsInv'
    BY <1>1 DEF KeepsInv, Kept, Newer
  <1>2. ASSUME Quiet PROVE KeepsInv'
    BY <1>1, <1>2, QuietTable
  <1>3. ASSUME NEW t \in Threads, NEW turn, NEW place, InsertsTurn(t, turn, place) PROVE KeepsInv'
    <2>1. /\ DOMAIN rows' = DOMAIN rows \cup {ids'} /\ ids' \notin DOMAIN rows
          /\ \A i \in DOMAIN rows : rows'[i] = rows[i]
          /\ rows'[ids'] = [session |-> local[t].session, turn |-> turn, by |-> t]
      BY <1>3, Inserted DEF InsertsTurn
    <2>2. rows'[ids'].by = t /\ t # NULL
      BY <2>1, AnswersAssumption
    <2>3. local' = local /\ \A u \in Threads : pc'[u] = "commit" => u # t /\ pc[u] = "commit"
      BY <1>3 DEF InsertsTurn
    <2>4. \A u \in Threads \ {t} : Sees(u)' = Sees(u)
      BY <2>1, <2>2, <2>3 DEF Sees
    <2> QED BY <1>1, <2>3, <2>4
  <1>4. ASSUME NEW t \in Threads, Trim(t) PROVE KeepsInv'
    <2>1. /\ rows' = rows /\ ids' = ids
          /\ \A u \in Threads \ {t} : pc'[u] = pc[u] /\ local'[u] = local[u]
          /\ \A u \in Threads : Sees(u)' = Sees(u)
      BY <1>4, TrimTable
    <2>2. local'[t].doomed = Outside(Sees(t))
      BY <1>4, TrimChat
    <2>3. ids \in Nat /\ Sees(t) \in SUBSET (1..ids) /\ MaxMessages \in Nat \ {0}
      BY AnswersAssumption DEF TableInv, Sees
    <2>4. Kept(t)' = Latest(Sees(t), MaxMessages)
      BY <2>1, <2>2 DEF Kept, Outside, Latest
    <2>5. \A i \in local'[t].doomed : Cardinality(Newer(Kept(t)', i)) >= MaxMessages
      BY <2>2, <2>3, <2>4, WindowOfIds DEF Outside
    <2>6. \A u \in Threads \ {t} : pc'[u] = "commit" =>
              \A i \in local'[u].doomed : Cardinality(Newer(Kept(u)', i)) >= MaxMessages
      BY <2>1 DEF KeepsInv, Kept
    <2> QED BY <2>5, <2>6 DEF KeepsInv, Newer
  <1>5. ASSUME NEW t \in Threads, Rollback(t) PROVE KeepsInv'
    <2> DEFINE S == {i \in DOMAIN rows : rows[i].by # t}
    <2>1. S \in SUBSET DOMAIN rows /\ Ends(t, S)
      BY <1>5 DEF Rollback
    <2>2. /\ DOMAIN rows' = S
          /\ \A i \in S : /\ rows'[i].session = rows[i].session
                          /\ rows'[i].by = (IF rows[i].by = t THEN NULL ELSE rows[i].by)
          /\ pc'[t] = "idle"
          /\ \A u \in Threads \ {t} : pc'[u] = pc[u] /\ local'[u] = local[u]
      BY <2>1, Ended
    <2>3. \A u \in Threads : pc'[u] = "commit" => u # t
      BY <2>2
    <2>4. t # NULL
      BY AnswersAssumption
    <2>5. \A u \in Threads \ {t} : Sees(u)' = Sees(u)
      BY <2>2, <2>4 DEF Sees
    <2> QED BY <1>1, <2>2, <2>3, <2>5
  <1> QED BY <1>2, <1>3, <1>4, <1>5, CommitKeeps, StepKinds, Inserts

-----------------------------------------------------------------------------
(* How much is stored.                                                     *)

Committing == {t \in Threads : pc[t] = "commit"}

\* What is stored of session s once the transactions of threads A have committed.
After(s, A) ==
    {i \in DOMAIN rows : /\ rows[i].session = s /\ rows[i].by \in A \cup {NULL}
                         /\ \A t \in A : i \notin local[t].doomed}

MostRows == MaxMessages + 2 * (Cardinality(Threads) - 1)

\* In whatever order the transactions that have trimmed commit.
StoredInv ==
    \A s \in Sessions, A \in SUBSET Committing : Cardinality(After(s, A)) <= MostRows

\* A thread has at most two rows that are not committed.
LEMMA OwnRows ==
    ASSUME TableInv, NEW A \in SUBSET Threads
    PROVE  LET R == {i \in DOMAIN rows : rows[i].by \in A}
           IN  IsFiniteSet(R) /\ Cardinality(R) \in Nat /\ Cardinality(R) <= 2 * Cardinality(A)
  <1> DEFINE R == {i \in DOMAIN rows : rows[i].by \in A}
             Roles == {"user", "assistant"}
             f == [i \in R |-> <<rows[i].by, rows[i].turn.role>>]
  <1>1. IsFiniteSet(A) /\ Cardinality(A) \in Nat
    BY AnswersAssumption, Smaller
  <1>2. IsFiniteSet(Roles) /\ Cardinality(Roles) = 2
    <2>1. IsFiniteSet({"user"}) /\ Cardinality({"user"}) = 1
      BY FS_Singleton
    <2>2. "assistant" \notin {"user"} /\ Roles = {"user"} \cup {"assistant"}
      OBVIOUS
    <2> QED BY <2>1, <2>2, FS_AddElement
  <1> HIDE DEF Roles
  <1>3. IsFiniteSet(A \X Roles) /\ Cardinality(A \X Roles) = Cardinality(A) * 2
    BY <1>1, <1>2, FS_Product
  <1>4. \A i \in R : rows[i] \in Row /\ rows[i].by \in A /\ rows[i].turn.role \in Roles /\ rows[i].by # NULL
    BY AnswersAssumption DEF TableInv, Row, Turn, Roles
  <1>5. f \in Injection(R, A \X Roles)
    <2>1. f \in [R -> A \X Roles]
      BY <1>4
    <2>2. \A i, j \in R : f[i] = f[j] => i = j
      BY <1>4 DEF TableInv
    <2> HIDE DEF f, R
    <2> QED BY <2>1, <2>2 DEF Injection, IsInjective
  <1>6. IsFiniteSet(R) /\ Cardinality(R) <= Cardinality(A \X Roles)
    <2> HIDE DEF f, R
    <2> QED BY <1>3, <1>5, FS_Injection
  <1>7. Cardinality(R) \in Nat
    BY <1>6, FS_CardinalityType
  <1> QED BY <1>1, <1>3, <1>6, <1>7

LEMMA AfterFinite ==
    ASSUME TableInv, NEW s, NEW A
    PROVE  IsFiniteSet(After(s, A)) /\ Cardinality(After(s, A)) \in Nat
  <1>1. ids \in Nat /\ After(s, A) \in SUBSET (1..ids)
    BY DEF TableInv, After
  <1> QED BY <1>1, IdsFinite

LEMMA MostRowsType ==
    /\ MaxMessages \in Nat /\ MaxMessages >= 2 /\ Cardinality(Threads) \in Nat /\ MostRows \in Nat
    /\ MostRows = MaxMessages + 2 * (Cardinality(Threads) - 1)
  <1>1. MaxMessages \in Nat \ {0} /\ MaxMessages % 2 = 0 /\ IsFiniteSet(Threads)
    BY AnswersAssumption
  <1>2. Cardinality(Threads) \in Nat
    BY <1>1, FS_CardinalityType
  <1>3. MaxMessages >= 2
    BY <1>1
  <1> QED BY <1>1, <1>2, <1>3 DEF MostRows

\* Of what the trimming thread sees a window is left; the rest of what can be
\* committed are the rows of the other threads.
LEMMA TrimStored ==
    ASSUME RequestsInv, TableInv, StoredInv, NEW t \in Threads, Trim(t)
    PROVE  StoredInv'
  <1>1. /\ rows' = rows /\ ids' = ids
        /\ \A u \in Threads \ {t} : pc'[u] = pc[u] /\ local'[u] = local[u]
    BY TrimTable
  <1>2. /\ pc[t] = "trim" /\ local'[t].doomed = Outside(Sees(t))
        /\ local'[t].session = local[t].session
    BY TrimChat
  <1> SUFFICES ASSUME NEW s \in Sessions, NEW A \in SUBSET Committing'
               PROVE  Cardinality(After(s, A)') <= MostRows
    BY DEF StoredInv, After, MostRows
  <1> DEFINE B == A \ {t}
  <1>3. B \in SUBSET Committing /\ A \in SUBSET Threads
    BY <1>1 DEF Committing
  <1>4. Cardinality(After(s, B)) <= MostRows /\ Cardinality(After(s, B)) \in Nat
        /\ IsFiniteSet(After(s, B))
    BY <1>3, AfterFinite DEF StoredInv
  <1>5. \A u \in B : local'[u] = local[u]
    BY <1>1, <1>3
  <1>6. CASE t \notin A \/ local[t].session # s
    <2>1. t \notin A \/ \A i \in DOMAIN rows : rows[i].session = s => rows[i].by # t
      <3>1. t # NULL
        BY AnswersAssumption
      <3> QED BY <1>6, <3>1 DEF TableInv, OwnOK
    <2>2. After(s, A)' \subseteq After(s, B)
      BY <1>1, <1>5, <2>1 DEF After
    <2>3. Cardinality(After(s, A)') <= Cardinality(After(s, B)) /\ Cardinality(After(s, A)') \in Nat
      BY <1>4, <2>2, Smaller
    <2> QED BY <1>4, <2>3, MostRowsType
  <1>7. CASE t \in A /\ local[t].session = s
    <2> DEFINE R == {i \in DOMAIN rows : rows[i].by \in B}
               L == Latest(Sees(t), MaxMessages)
    <2>1. After(s, A)' \subseteq L \cup R
      <3> SUFFICES ASSUME NEW i \in After(s, A)', i \notin R PROVE i \in L
        OBVIOUS
      <3>1. /\ i \in DOMAIN rows /\ rows[i].session = s /\ rows[i].by \in A \cup {NULL}
            /\ i \notin local'[t].doomed
        BY <1>1, <1>7 DEF After
      <3>2. i \in Sees(t)
        BY <1>7, <3>1 DEF Sees
      <3> QED BY <1>2, <3>1, <3>2 DEF Outside
    <2>2. ids \in Nat /\ Sees(t) \in SUBSET (1..ids) /\ MaxMessages \in Nat \ {0}
      BY AnswersAssumption DEF TableInv, Sees
    <2>3. IsFiniteSet(L) /\ Cardinality(L) \in Nat /\ Cardinality(L) <= MaxMessages
      <3>1. L \in SUBSET (1..ids)
        BY <2>2 DEF Latest
      <3> QED BY <2>2, <3>1, IdsFinite, WindowOfIds
    <2>4. IsFiniteSet(R) /\ Cardinality(R) \in Nat /\ Cardinality(R) <= 2 * Cardinality(B)
      BY <1>3, OwnRows
    <2>5. Cardinality(B) \in Nat /\ Cardinality(B) <= Cardinality(Threads) - 1
      <3>1. IsFiniteSet(Threads) /\ B \in SUBSET (Threads \ {t})
        BY <1>3, AnswersAssumption
      <3>2. IsFiniteSet(Threads \ {t}) /\ Cardinality(Threads \ {t}) = Cardinality(Threads) - 1
        BY <3>1, FS_RemoveElement
      <3> QED BY <3>1, <3>2, Smaller
    <2> HIDE DEF L, R, B
    <2>6. /\ IsFiniteSet(L \cup R) /\ Cardinality(L \cup R) = Cardinality(L) + Cardinality(R) - Cardinality(L \cap R)
          /\ Cardinality(L \cap R) \in Nat
      <3>1. IsFiniteSet(L \cap R)
        BY <2>3, FS_Subset
      <3> QED BY <2>3, <2>4, <3>1, FS_Union, FS_CardinalityType
    <2>7. Cardinality(After(s, A)') <= Cardinality(L \cup R) /\ Cardinality(After(s, A)') \in Nat
      BY <2>1, <2>6, Smaller
    <2> QED BY <2>3, <2>4, <2>5, <2>6, <2>7, MostRowsType
  <1> QED BY <1>6, <1>7

LEMMA StoredStep ==
    ASSUME RequestsInv, ChatsInv, TableInv, StoredInv, [Next]_vars
    PROVE  StoredInv'
  \* It is enough that the sets of the next state are among those of this one.
  <1>1. ASSUME \A s \in Sessions, A \in SUBSET Committing' :
                   \E B \in SUBSET Committing : After(s, A)' = After(s, B)
        PROVE  StoredInv'
    BY <1>1 DEF StoredInv, MostRows, After
  <1>2. ASSUME Quiet PROVE StoredInv'
    <2>1. /\ rows' = rows
          /\ \A t \in Threads : pc'[t] = "commit" =>
                 pc[t] = "commit" /\ local'[t].doomed = local[t].doomed
      BY <1>2, QuietTable
    <2>2. Committing' \subseteq Committing
      BY <2>1 DEF Committing
    <2>3. \A s \in Sessions, A \in SUBSET Committing' : After(s, A)' = After(s, A)
      BY <2>1 DEF Committing, After
    <2> QED BY <1>1, <2>2, <2>3
  <1>3. ASSUME NEW t \in Threads, NEW turn, NEW place, InsertsTurn(t, turn, place) PROVE StoredInv'
    <2>1. /\ DOMAIN rows' = DOMAIN rows \cup {ids'} /\ ids' \notin DOMAIN rows
          /\ \A i \in DOMAIN rows : rows'[i] = rows[i]
          /\ rows'[ids'] = [session |-> local[t].session, turn |-> turn, by |-> t]
      BY <1>3, Inserted DEF InsertsTurn
    <2>2. rows'[ids'].by = t /\ t # NULL
      BY <2>1, AnswersAssumption
    <2>3. local' = local /\ \A u \in Threads : pc'[u] = "commit" => u # t /\ pc[u] = "commit"
      BY <1>3 DEF InsertsTurn
    <2>4. Committing' \subseteq Committing /\ t \notin Committing'
      BY <2>3 DEF Committing
    <2>5. \A s \in Sessions, A \in SUBSET Committing' : After(s, A)' = After(s, A)
      <3> SUFFICES ASSUME NEW s \in Sessions, NEW A \in SUBSET Committing'
                   PROVE  After(s, A)' = After(s, A)
        OBVIOUS
      <3>1. t \notin A \cup {NULL}
        BY <2>2, <2>4
      <3> QED BY <2>1, <2>2, <2>3, <3>1 DEF After
    <2> QED BY <1>1, <2>4, <2>5
  <1>4. ASSUME NEW t \in Threads, NEW S \in SUBSET DOMAIN rows, Ends(t, S), Commit(t) \/ Rollback(t),
               S = IF Commit(t) THEN DOMAIN rows \ local[t].doomed
                                ELSE {i \in DOMAIN rows : rows[i].by # t}
        PROVE  StoredInv'
    <2>1. /\ DOMAIN rows' = S
          /\ \A i \in S : /\ rows'[i].session = rows[i].session
                          /\ rows'[i].by = (IF rows[i].by = t THEN NULL ELSE rows[i].by)
          /\ pc'[t] = "idle"
          /\ \A u \in Threads \ {t} : pc'[u] = pc[u] /\ local'[u] = local[u]
      BY <1>4, Ended
    <2>2. Committing' \subseteq Committing \ {t} /\ t # NULL
      BY <2>1, AnswersAssumption DEF Committing
    <2>3. \A A \in SUBSET Committing' : t \notin A /\ \A u \in A : local'[u] = local[u]
      BY <2>1, <2>2 DEF Committing
    <2>4. CASE Commit(t)
      <3>1. t \in Committing /\ S = DOMAIN rows \ local[t].doomed
        BY <1>4, <2>4 DEF Commit, Committing
      <3>2. \A s \in Sessions, A \in SUBSET Committing' : After(s, A)' = After(s, A \cup {t})
        <4> SUFFICES ASSUME NEW s \in Sessions, NEW A \in SUBSET Committing'
                     PROVE  After(s, A)' = After(s, A \cup {t})
          OBVIOUS
        <4>1. t \notin A /\ \A u \in A : local'[u] = local[u]
          BY <2>3
        <4> QED BY <2>1, <2>2, <3>1, <4>1 DEF After
      <3> QED BY <1>1, <2>2, <3>1, <3>2
    <2>5. CASE ~Commit(t)
      <3>1. S = {i \in DOMAIN rows : rows[i].by # t}
        BY <1>4, <2>5
      <3>2. \A s \in Sessions, A \in SUBSET Committing' : After(s, A)' = After(s, A)
        <4> SUFFICES ASSUME NEW s \in Sessions, NEW A \in SUBSET Committing'
                     PROVE  After(s, A)' = After(s, A)
          OBVIOUS
        <4>1. t \notin A /\ \A u \in A : local'[u] = local[u]
          BY <2>3
        <4> QED BY <2>1, <2>2, <3>1, <4>1 DEF After
      <3> QED BY <1>1, <2>2, <3>2
    <2> QED BY <2>4, <2>5
  <1>5. ASSUME NEW t \in Threads, Commit(t) \/ Rollback(t) PROVE StoredInv'
    <2>1. CASE Commit(t)
      BY <1>4, <2>1 DEF Commit
    <2>2. CASE ~Commit(t)
      <3>1. {i \in DOMAIN rows : rows[i].by # t} \in SUBSET DOMAIN rows
        OBVIOUS
      <3> QED BY <1>4, <1>5, <2>2, <3>1 DEF Rollback
    <2> QED BY <2>1, <2>2
  <1> QED BY <1>2, <1>3, <1>5, TrimStored, StepKinds, Inserts

-----------------------------------------------------------------------------
(* The turns of some rows in their order.                                  *)

\* The turns of ids S in table f, and the place of id i among them.
TurnsOf(f, S) ==
    [k \in 1..Cardinality(S) |->
        f[CHOOSE i \in S : Cardinality(Newer(S, i)) = Cardinality(S) - k].turn]
Place(S, i) == Cardinality(S) - Cardinality(Newer(S, i))

\* w is a list of c items.
IsList(w, c) == w = [k \in 1..c |-> w[k]]

\* w has the turn of every id of S at its place.
Lists(w, f, S) == IsList(w, Cardinality(S)) /\ \A i \in S : w[Place(S, i)] = f[i].turn

LEMMA PlacesOf ==
    ASSUME NEW n \in Nat, NEW S \in SUBSET (1..n)
    PROVE  /\ IsFiniteSet(S) /\ Cardinality(S) \in Nat
           /\ \A i \in S : Place(S, i) \in 1..Cardinality(S)
           /\ \A i, j \in S : Place(S, i) = Place(S, j) => i = j
           /\ \A k \in 1..Cardinality(S) : \E i \in S : Place(S, i) = k
  <1> DEFINE c == Cardinality(S)
             f == [i \in S |-> Place(S, i)]
  <1>1. IsFiniteSet(S) /\ c \in Nat
    BY IdsFinite
  <1>2. ASSUME NEW i \in S PROVE Cardinality(Newer(S, i)) \in Nat /\ Cardinality(Newer(S, i)) < c
    <2>1. i \in 1..n
      OBVIOUS
    <2>2. IsFiniteSet(Newer(S, i)) /\ Cardinality(Newer(S, i)) \in Nat
      BY <2>1, NewerOf
    <2>3. Newer(S, i) \in SUBSET S /\ Newer(S, i) # S
      <3>1. ~(i > i)
        BY <2>1
      <3> QED BY <3>1 DEF Newer
    <2>4. Cardinality(Newer(S, i)) <= c /\ Cardinality(Newer(S, i)) # c
      BY <1>1, <2>3, FS_Subset
    <2> QED BY <1>1, <2>2, <2>4
  <1>3. \A i \in S : Place(S, i) \in 1..c
    BY <1>1, <1>2 DEF Place
  <1>4. ASSUME NEW i \in S, NEW j \in S, Place(S, i) = Place(S, j) PROVE i = j
    <2>1. Cardinality(Newer(S, i)) = Cardinality(Newer(S, j))
      BY <1>1, <1>2, <1>4 DEF Place
    <2>2. ASSUME NEW x \in S, NEW y \in S, x < y PROVE Cardinality(Newer(S, y)) < Cardinality(Newer(S, x))
      <3>1. y > x /\ x \in 1..n
        BY <2>2
      <3> QED BY <3>1, NewerOf
    <2>3. i \in Nat /\ j \in Nat
      OBVIOUS
    <2>4. ~(i < j)
      BY <1>2, <2>1, <2>2
    <2>5. ~(j < i)
      BY <1>2, <2>1, <2>2
    <2> QED BY <2>3, <2>4, <2>5
  <1>5. f \in Injection(S, 1..c)
    <2>1. f \in [S -> 1..c] /\ \A i, j \in S : f[i] = f[j] => i = j
      BY <1>3, <1>4
    <2> HIDE DEF f, c
    <2> QED BY <2>1 DEF Injection, IsInjective
  <1>6. IsFiniteSet(1..c) /\ Cardinality(1..c) = c
    <2> HIDE DEF c
    <2>1. 1 \in Int /\ c \in Int
      BY <1>1
    <2> QED BY <1>1, <2>1, FS_Interval
  <1>7. f \in Surjection(S, 1..c)
    <2> HIDE DEF f
    <2> QED BY <1>5, <1>6, FS_Injection
  <1>8. \A k \in 1..c : \E i \in S : f[i] = k
    <2> HIDE DEF f, c
    <2> QED BY <1>7 DEF Surjection
  <1> QED BY <1>1, <1>3, <1>4, <1>8

LEMMA Listing ==
    ASSUME NEW n \in Nat, NEW S \in SUBSET (1..n), NEW f
    PROVE  Lists(TurnsOf(f, S), f, S)
  <1>1. IsList(TurnsOf(f, S), Cardinality(S))
    BY DEF TurnsOf, IsList
  <1>2. ASSUME NEW i \in S PROVE TurnsOf(f, S)[Place(S, i)] = f[i].turn
    <2>1. Place(S, i) \in 1..Cardinality(S) /\ Cardinality(S) \in Nat
      BY PlacesOf
    <2>2. \A j \in S : Cardinality(Newer(S, j)) \in Nat
      BY NewerOf
    <2>3. \A j \in S : Cardinality(Newer(S, j)) = Cardinality(S) - Place(S, i) <=> j = i
      <3> TAKE j \in S
      <3>1. Cardinality(Newer(S, j)) = Cardinality(S) - Place(S, i) <=> Place(S, j) = Place(S, i)
        BY <2>1, <2>2 DEF Place
      <3> QED BY <3>1, PlacesOf
    <2>4. (CHOOSE j \in S : Cardinality(Newer(S, j)) = Cardinality(S) - Place(S, i)) = i
      BY <2>3
    <2> QED BY <2>1, <2>4 DEF TurnsOf
  <1> QED BY <1>1, <1>2 DEF Lists

\* A list is known by what it has at the place of each id.
LEMMA Listed ==
    ASSUME NEW n \in Nat, NEW S \in SUBSET (1..n), NEW f, NEW w, Lists(w, f, S)
    PROVE  TurnsOf(f, S) = w
  <1> DEFINE v == TurnsOf(f, S)
  <1>1. Lists(v, f, S)
    BY Listing
  <1> HIDE DEF v
  <1>2. \A k \in 1..Cardinality(S) : v[k] = w[k]
    <2> TAKE k \in 1..Cardinality(S)
    <2>1. PICK i \in S : Place(S, i) = k
      BY PlacesOf
    <2> QED BY <1>1, <2>1 DEF Lists
  <1>3. v = w
    BY <1>1, <1>2 DEF Lists, IsList
  <1> QED BY <1>3 DEF v

LEMMA SameTurns ==
    ASSUME NEW n \in Nat, NEW S \in SUBSET (1..n), NEW f, NEW g, \A i \in S : f[i].turn = g[i].turn
    PROVE  TurnsOf(f, S) = TurnsOf(g, S)
  <1> DEFINE w == TurnsOf(g, S)
  <1>1. Lists(w, g, S)
    BY Listing
  <1> HIDE DEF w
  <1>2. Lists(w, f, S)
    BY <1>1 DEF Lists
  <1>3. TurnsOf(f, S) = w
    BY <1>2, Listed
  <1> QED BY <1>3 DEF w

\* Two newer rows.
LEMMA TwoMore ==
    ASSUME NEW n \in Nat, NEW S \in SUBSET (1..n), NEW p \in 1..n, NEW q \in 1..n, NEW f,
           p < q, \A i \in S : i < p
    PROVE  TurnsOf(f, S \cup {p, q}) = TurnsOf(f, S) \o <<f[p].turn, f[q].turn>>
  <1> DEFINE T == S \cup {p, q}
             c == Cardinality(S)
             v == TurnsOf(f, S)
             x == <<f[p].turn, f[q].turn>>
             w == v \o x
  <1>1. IsFiniteSet(S) /\ c \in Nat /\ T \in SUBSET (1..n)
    BY IdsFinite
  <1>2. \A i \in S : i \in Int /\ i < p /\ i < q /\ i # p /\ i # q
    OBVIOUS
  <1>3. IsFiniteSet(T) /\ Cardinality(T) = c + 2
    <2>1. T = (S \cup {p}) \cup {q} /\ p \notin S /\ q \notin S \cup {p}
      BY <1>2
    <2>2. IsFiniteSet(S \cup {p}) /\ Cardinality(S \cup {p}) = c + 1
      BY <1>1, <2>1, FS_AddElement
    <2>3. IsFiniteSet((S \cup {p}) \cup {q}) /\ Cardinality((S \cup {p}) \cup {q}) = c + 1 + 1
      BY <2>1, <2>2, FS_AddElement
    <2> QED BY <1>1, <2>1, <2>3
  <1>4. ASSUME NEW i \in S PROVE Place(T, i) = Place(S, i)
    <2>1. Newer(T, i) = (Newer(S, i) \cup {p}) \cup {q} /\ p \notin Newer(S, i) /\ q \notin Newer(S, i) \cup {p}
      <3>1. p > i /\ q > i /\ p # q
        BY <1>2
      <3> QED BY <1>2, <3>1 DEF Newer
    <2>2. i \in 1..n
      OBVIOUS
    <2>3. IsFiniteSet(Newer(S, i)) /\ Cardinality(Newer(S, i)) \in Nat
      BY <2>2, NewerOf
    <2>4. /\ IsFiniteSet(Newer(S, i) \cup {p})
          /\ Cardinality(Newer(S, i) \cup {p}) = Cardinality(Newer(S, i)) + 1
      BY <2>1, <2>3, FS_AddElement
    <2>5. Cardinality((Newer(S, i) \cup {p}) \cup {q}) = Cardinality(Newer(S, i)) + 1 + 1
      BY <2>1, <2>4, FS_AddElement
    <2> QED BY <1>1, <1>3, <2>1, <2>3, <2>5 DEF Place
  <1>5. Place(T, p) = c + 1
    <2>1. Newer(T, p) = {q}
      <3>1. q > p /\ ~(p > p) /\ \A i \in S : ~(i > p)
        BY <1>2
      <3> QED BY <3>1 DEF Newer
    <2>2. Cardinality({q}) = 1
      BY FS_Singleton
    <2> HIDE DEF T, c
    <2> QED BY <1>1, <1>3, <2>1, <2>2 DEF Place
  <1>6. Place(T, q) = c + 2
    <2>1. Newer(T, q) = {}
      <3>1. ~(q > q) /\ ~(p > q) /\ \A i \in S : ~(i > q)
        BY <1>2
      <3> QED BY <3>1 DEF Newer
    <2>2. Cardinality({}) = 0
      BY FS_EmptySet
    <2> HIDE DEF T, c
    <2> QED BY <1>1, <1>3, <2>1, <2>2 DEF Place
  <1>7. /\ IsList(v, c) /\ \A i \in S : v[Place(S, i)] = f[i].turn
        /\ \A i \in S : Place(S, i) \in 1..c
    <2>1. IsList(v, c) /\ \A i \in S : v[Place(S, i)] = f[i].turn
      BY Listing DEF Lists
    <2> QED BY <2>1, PlacesOf
  <1>8. /\ IsList(w, c + 2) /\ w[c + 1] = f[p].turn /\ w[c + 2] = f[q].turn
        /\ \A k \in 1..c : w[k] = v[k]
    <2> DEFINE V == {v[k] : k \in 1..c} \cup {f[p].turn, f[q].turn}
    <2>1. v \in Seq(V) /\ Len(v) = c
      <3> HIDE DEF v, c
      <3>1. v \in [1..c -> V] /\ DOMAIN v = 1..c
        BY <1>7 DEF IsList
      <3> HIDE DEF V
      <3> QED BY <1>1, <3>1
    <2>2. x \in Seq(V) /\ Len(x) = 2 /\ x[1] = f[p].turn /\ x[2] = f[q].turn
      <3>1. f[p].turn \in V /\ f[q].turn \in V
        OBVIOUS
      <3> HIDE DEF V
      <3> QED BY <3>1
    <2> HIDE DEF v, x, c, V
    <2>3. w \in Seq(V) /\ Len(w) = Len(v) + Len(x)
          /\ \A k \in 1..(Len(v) + Len(x)) : w[k] = IF k <= Len(v) THEN v[k] ELSE x[k - Len(v)]
      BY <2>1, <2>2, ConcatProperties
    <2> HIDE DEF w
    <2>4. Len(w) = c + 2 /\ \A k \in 1..(c + 2) : w[k] = IF k <= c THEN v[k] ELSE x[k - c]
      BY <2>1, <2>2, <2>3
    <2>5. IsList(w, c + 2)
      <3>1. w \in [1..(c + 2) -> V]
        BY <2>3, <2>4, LenProperties
      <3> QED BY <3>1 DEF IsList
    <2>6. w[c + 1] = x[1] /\ w[c + 2] = x[2] /\ \A k \in 1..c : w[k] = v[k]
      <3>1. ASSUME NEW j \in 1..2 PROVE w[c + j] = x[j]
        <4>1. PICK k \in 1..(c + 2) : k = c + j
          BY <1>1
        <4>2. ~(k <= c) /\ k - c = j
          BY <1>1, <4>1
        <4>3. w[k] = x[j]
          BY <2>4, <4>2
        <4> QED BY <4>1, <4>3
      <3>2. \A k \in 1..c : w[k] = v[k]
        BY <1>1, <2>4
      <3> QED BY <3>1, <3>2
    <2> QED BY <2>2, <2>5, <2>6
  <1> HIDE DEF v, x, c, w, T
  <1>9. \A i \in T : w[Place(T, i)] = f[i].turn
    BY <1>4, <1>5, <1>6, <1>7, <1>8 DEF T
  <1>10. TurnsOf(f, T) = w
    <2>1. Lists(w, f, T)
      BY <1>3, <1>8, <1>9 DEF Lists
    <2> QED BY <1>1, <2>1, Listed
  <1> QED BY <1>10 DEF T, w, v, x

\* A window that is not full has everything.
LEMMA AllLatest ==
    ASSUME NEW n \in Nat, NEW S \in SUBSET (1..n), NEW m \in Nat \ {0}, Cardinality(S) <= m
    PROVE  Latest(S, m) = S
  <1>1. ASSUME NEW i \in S PROVE Cardinality(Newer(S, i)) < m
    <2>1. Place(S, i) \in 1..Cardinality(S) /\ Cardinality(S) \in Nat
      BY PlacesOf
    <2>2. Cardinality(Newer(S, i)) \in Nat
      BY NewerOf
    <2> QED BY <2>1, <2>2 DEF Place
  <1> QED BY <1>1 DEF Latest

\* A window is the end of the list.
LEMMA WindowTurns ==
    ASSUME NEW n \in Nat, NEW S \in SUBSET (1..n), NEW m \in Nat \ {0}, NEW f
    PROVE  TurnsOf(f, Latest(S, m)) = Store!Newest(TurnsOf(f, S), m)
  <1> DEFINE c == Cardinality(S)
             v == TurnsOf(f, S)
             L == Latest(S, m)
             V == {v[k] : k \in 1..c}
  <1>1. c \in Nat /\ IsFiniteSet(S) /\ \A i \in S : Place(S, i) \in 1..c
    BY PlacesOf
  <1>2. Lists(v, f, S)
    BY Listing
  <1>3. v \in Seq(V) /\ Len(v) = c
    <2> HIDE DEF v, c
    <2>1. v \in [1..c -> V] /\ DOMAIN v = 1..c
      BY <1>2 DEF Lists, IsList, c
    <2> HIDE DEF V
    <2> QED BY <1>1, <2>1
  <1>4. CASE c <= m
    <2>1. L = S
      BY <1>4, AllLatest
    <2> HIDE DEF v, c, V
    <2>2. Store!Newest(v, m) = SubSeq(v, 1, c)
      BY <1>1, <1>3, <1>4 DEF Store!Newest
    <2>3. SubSeq(v, 1, Len(v)) = v
      BY <1>3, SubSeqFull
    <2> QED BY <1>3, <2>1, <2>2, <2>3 DEF v
  <1>5. CASE c > m
    <2>1. /\ Cardinality(L) <= m /\ L \in SUBSET S
          /\ \A i \in S \ L, j \in L : i < j
          /\ \A i \in S \ L : Cardinality(Newer(L, i)) >= m
      BY WindowOfIds DEF Latest
    <2> HIDE DEF L
    <2>2. IsFiniteSet(L) /\ Cardinality(L) = m /\ L \in SUBSET (1..n)
      <3>1. L \in SUBSET (1..n) /\ IsFiniteSet(L) /\ Cardinality(L) \in Nat
        BY <2>1, IdsFinite
      <3>2. PICK i \in S \ L : TRUE
        <4>1. L # S
          BY <1>1, <1>5, <2>1, <3>1
        <4> QED BY <2>1, <4>1
      <3>3. Newer(L, i) \in SUBSET L /\ Cardinality(Newer(L, i)) >= m
        BY <2>1 DEF Newer
      <3>4. Cardinality(Newer(L, i)) <= Cardinality(L) /\ Cardinality(Newer(L, i)) \in Nat
        BY <3>1, <3>3, Smaller
      <3> QED BY <2>1, <3>1, <3>3, <3>4
    <2>3. ASSUME NEW i \in L PROVE Place(S, i) = Place(L, i) + (c - m)
      <3>1. Newer(L, i) = Newer(S, i)
        <4>1. \A j \in S : j > i => j \in L
          BY <2>1
        <4> QED BY <2>1, <4>1 DEF Newer
      <3>2. Cardinality(Newer(L, i)) \in Nat
        BY <2>2, NewerOf
      <3> HIDE DEF c
      <3>3. Place(S, i) = c - Cardinality(Newer(L, i)) /\ Place(L, i) = m - Cardinality(Newer(L, i))
        BY <2>2, <3>1 DEF Place, c
      <3> QED BY <1>1, <3>2, <3>3
    <2> DEFINE w == SubSeq(v, c - m + 1, c)
    <2>4. Store!Newest(v, m) = w
      <3> HIDE DEF v
      <3> QED BY <1>3, <1>5 DEF Store!Newest
    <2>5. /\ w \in Seq(V) /\ Len(w) = m
          /\ \A k \in 1..m : w[k] = v[k + (c - m)]
      <3> HIDE DEF v, c
      <3>1. \A k \in (c - m + 1)..c : v[k] \in V
        BY <1>1, <1>5
      <3> HIDE DEF V
      <3>2. c - m + 1 \in Int /\ c \in Int /\ c - (c - m + 1) + 1 = m /\ c - m + 1 <= c
        BY <1>1, <1>5
      <3>3. /\ w \in Seq(V) /\ Len(w) = c - (c - m + 1) + 1
            /\ \A k \in 1..(c - (c - m + 1) + 1) : w[k] = v[c - m + 1 + k - 1]
        BY <3>1, <3>2, SubSeqProperties
      <3> HIDE DEF w
      <3>4. \A k \in 1..m : c - m + 1 + k - 1 = k + (c - m)
        BY <1>1
      <3> QED BY <3>2, <3>3, <3>4
    <2> HIDE DEF w, v, V
    <2>6. IsList(w, m)
      <3>1. w \in [1..m -> V]
        BY <2>5, LenProperties
      <3> QED BY <3>1 DEF IsList
    <2>7. \A i \in L : w[Place(L, i)] = f[i].turn
      <3> TAKE i \in L
      <3>1. Place(L, i) \in 1..m
        BY <2>2, PlacesOf
      <3>2. w[Place(L, i)] = v[Place(S, i)]
        BY <2>3, <2>5, <3>1
      <3> QED BY <1>2, <2>1, <3>2 DEF Lists
    <2>8. Lists(w, f, L)
      BY <2>2, <2>6, <2>7 DEF Lists
    <2>9. TurnsOf(f, L) = w
      BY <2>2, <2>8, Listed
    <2> QED BY <2>4, <2>9 DEF L, v
  <1> QED BY <1>1, <1>4, <1>5

-----------------------------------------------------------------------------
(* The sessions whose client waits.                                        *)

Own(t) == {i \in DOMAIN rows : rows[i].by = t}

Question(r) == [role |-> "user", of |-> r.number, declined |-> FALSE]
Reply(r) == [role |-> "assistant", of |-> r.number, declined |-> r.declined]

\* What request t has written of its exchange is newer than the session's other
\* rows, and what it deletes is still what is outside of the window.
SerialOK(t) ==
    /\ \A i \in Committed(local[t].session), j \in Own(t) : i < j
    /\ pc[t] = "answer" => \E p \in DOMAIN rows : Own(t) = {p} /\ rows[p].turn = Question(local[t])
    /\ pc[t] \in {"trim", "commit"} =>
           \E p, q \in DOMAIN rows : /\ p < q /\ Own(t) = {p, q}
                                     /\ rows[p].turn = Question(local[t])
                                     /\ rows[q].turn = Reply(local[t])
    /\ pc[t] = "commit" => local[t].doomed = Outside(Sees(t))

\* A waiting client's session never stores more than its window.
SerialInv ==
    /\ \A s \in Serial : Cardinality(Committed(s)) <= MaxMessages
    /\ \A t \in Threads : local[t].session \in Serial => SerialOK(t)

LEMMA OwnerWrites ==
    ASSUME TableInv, NEW t \in Threads
    PROVE  /\ Own(t) # {} => pc[t] \in Writing
           /\ \A i \in Own(t) : rows[i].session = local[t].session
           /\ local[t].session # NULL => Sees(t) = Committed(local[t].session) \cup Own(t)
  <1>1. t # NULL
    BY AnswersAssumption
  <1>2. \A i \in Own(t) : pc[t] \in Writing /\ rows[i].session = local[t].session
    BY <1>1 DEF TableInv, OwnOK, Own
  <1>3. Sees(t) = Committed(local[t].session) \cup Own(t)
    BY <1>2 DEF Sees, Committed, Own
  <1> QED BY <1>2, <1>3

\* Only a commit changes what is stored of a session.
LEMMA CommittedStep ==
    ASSUME RequestsInv, ChatsInv, TableInv, [Next]_vars, NEW s \in Sessions
    PROVE  \/ Committed(s)' = Committed(s) /\ \A i \in Committed(s) : rows'[i].turn = rows[i].turn
           \/ \E t \in Threads : Commit(t) /\ local[t].session = s
  <1> DEFINE Goal == Committed(s)' = Committed(s) /\ \A i \in Committed(s) : rows'[i].turn = rows[i].turn
  <1>1. ASSUME rows' = rows PROVE Goal
    BY <1>1 DEF Committed
  <1>2. ASSUME NEW t \in Threads, NEW turn, NEW place, InsertsTurn(t, turn, place) PROVE Goal
    <2>1. /\ DOMAIN rows' = DOMAIN rows \cup {ids'} /\ ids' \notin DOMAIN rows
          /\ \A i \in DOMAIN rows : rows'[i] = rows[i]
          /\ rows'[ids'] = [session |-> local[t].session, turn |-> turn, by |-> t]
      BY <1>2, Inserted DEF InsertsTurn
    <2>2. rows'[ids'].by = t /\ t # NULL
      BY <2>1, AnswersAssumption
    <2> QED BY <2>1, <2>2 DEF Committed
  <1>3. ASSUME NEW t \in Threads, Rollback(t) PROVE Goal
    <2> DEFINE S == {i \in DOMAIN rows : rows[i].by # t}
    <2>1. S \in SUBSET DOMAIN rows /\ Ends(t, S)
      BY <1>3 DEF Rollback
    <2>2. /\ DOMAIN rows' = S
          /\ \A i \in S : /\ rows'[i].session = rows[i].session /\ rows'[i].turn = rows[i].turn
                          /\ rows'[i].by = (IF rows[i].by = t THEN NULL ELSE rows[i].by)
      BY <2>1, Ended
    <2>3. t # NULL
      BY AnswersAssumption
    <2> QED BY <2>2, <2>3 DEF Committed
  <1>4. ASSUME NEW t \in Threads, Commit(t), local[t].session # s PROVE Goal
    <2> DEFINE S == DOMAIN rows \ local[t].doomed
    <2>1. pc[t] = "commit" /\ S \in SUBSET DOMAIN rows /\ Ends(t, S)
      BY <1>4 DEF Commit
    <2>2. /\ DOMAIN rows' = S
          /\ \A i \in S : /\ rows'[i].session = rows[i].session /\ rows'[i].turn = rows[i].turn
                          /\ rows'[i].by = (IF rows[i].by = t THEN NULL ELSE rows[i].by)
      BY <2>1, Ended
    <2>3. \A i \in DOMAIN rows : rows[i].session = s => rows[i].by # t /\ i \in S
      <3>1. \A i \in Own(t) : rows[i].session = local[t].session
        BY OwnerWrites
      <3>2. local[t].doomed \cap DOMAIN rows \subseteq Sees(t)
        BY <2>1 DEF TableInv
      <3> QED BY <1>4, <3>1, <3>2 DEF Own, Sees
    <2>4. t # NULL
      BY AnswersAssumption
    <2> QED BY <2>2, <2>3, <2>4 DEF Committed
  <1>5. CASE Quiet
    BY <1>1, <1>5 DEF Quiet, table
  <1>6. ASSUME NEW t \in Threads, Trim(t) PROVE Goal
    BY <1>1, <1>6 DEF Trim, table
  <1> QED BY <1>2, <1>3, <1>4, <1>5, <1>6, StepKinds, Inserts

\* A request that a step leaves alone.
LEMMA SerialFrame ==
    ASSUME RequestsInv, TableInv, NEW u \in Threads, SerialOK(u), pc'[u] = pc[u],
           SameChat(local[u], local'[u]), local'[u].declined = local[u].declined,
           Committed(local[u].session)' = Committed(local[u].session),
           Sees(u)' = Sees(u), Own(u)' = Own(u), Own(u) \subseteq DOMAIN rows',
           \A i \in Own(u) : rows'[i].turn = rows[i].turn
    PROVE  SerialOK(u)'
  <1>1. /\ local'[u].session = local[u].session /\ local'[u].number = local[u].number
        /\ local'[u].doomed = local[u].doomed
    BY DEF SameChat
  <1>2. Question(local[u])' = Question(local[u]) /\ Reply(local[u])' = Reply(local[u])
    BY <1>1 DEF Question, Reply
  <1>3. Committed(local[u].session)' = Committed(local[u].session)
    OBVIOUS
  <1>4. (\A i \in Committed(local[u].session), j \in Own(u) : i < j)'
    BY <1>3 DEF SerialOK
  <1>5. pc'[u] = "answer" =>
            \E p \in DOMAIN rows' : Own(u)' = {p} /\ rows'[p].turn = Question(local[u])'
    BY <1>2 DEF SerialOK
  <1>6. pc'[u] \in {"trim", "commit"} =>
           \E p, q \in DOMAIN rows' : /\ p < q /\ Own(u)' = {p, q}
                                      /\ rows'[p].turn = Question(local[u])'
                                      /\ rows'[q].turn = Reply(local[u])'
    <2> SUFFICES ASSUME pc'[u] \in {"trim", "commit"}
                 PROVE  \E p, q \in DOMAIN rows' : /\ p < q /\ Own(u)' = {p, q}
                                      /\ rows'[p].turn = Question(local[u])'
                                      /\ rows'[q].turn = Reply(local[u])'
      OBVIOUS
    <2>1. PICK p, q \in DOMAIN rows : /\ p < q /\ Own(u) = {p, q}
                                      /\ rows[p].turn = Question(local[u])
                                      /\ rows[q].turn = Reply(local[u])
      BY DEF SerialOK
    <2> QED BY <1>2, <2>1
  <1>7. pc'[u] = "commit" => local'[u].doomed = Outside(Sees(u))'
    BY <1>1 DEF SerialOK, Outside, Latest, Newer
  <1> QED BY <1>4, <1>5, <1>6, <1>7 DEF SerialOK

\* A commit in such a session leaves the window of what the session had and of
\* the exchange, as ChatHistoryStore does.
LEMMA CommitWindow ==
    ASSUME RequestsInv, ChatsInv, TableInv, SerialInv, NEW s \in Serial, NEW t \in Threads, Commit(t),
           local[t].session = s
    PROVE  /\ Cardinality(Committed(s)') <= MaxMessages
           /\ Window(s)' = Store!Newest(Window(s) \o <<Question(local[t]), Reply(local[t])>>, MaxMessages)
  <1> DEFINE C == Committed(s)
             S == DOMAIN rows \ local[t].doomed
             L == Latest(Sees(t), MaxMessages)
             x == <<Question(local[t]), Reply(local[t])>>
  <1>0. /\ s \in Sessions /\ s # NULL /\ t # NULL /\ ids \in Nat /\ DOMAIN rows \subseteq 1..ids
        /\ MaxMessages \in Nat \ {0}
    BY AnswersAssumption DEF TableInv
  <1>1. pc[t] = "commit" /\ S \in SUBSET DOMAIN rows /\ Ends(t, S)
    BY DEF Commit
  <1>2. /\ DOMAIN rows' = S
        /\ \A i \in S : /\ rows'[i].session = rows[i].session /\ rows'[i].turn = rows[i].turn
                        /\ rows'[i].by = (IF rows[i].by = t THEN NULL ELSE rows[i].by)
    BY <1>1, Ended
  <1>3. /\ SerialOK(t) /\ Cardinality(C) <= MaxMessages
    BY DEF SerialInv
  <1>4. PICK p, q \in DOMAIN rows : /\ p < q /\ Own(t) = {p, q}
                                    /\ rows[p].turn = Question(local[t])
                                    /\ rows[q].turn = Reply(local[t])
    BY <1>1, <1>3 DEF SerialOK
  <1>5. Sees(t) = C \cup {p, q} /\ \A i \in C : i < p
    BY <1>0, <1>3, <1>4, OwnerWrites DEF SerialOK
  <1>6. local[t].doomed = Outside(Sees(t))
    BY <1>1, <1>3 DEF SerialOK
  <1>7. C \in SUBSET (1..ids) /\ Sees(t) \in SUBSET (1..ids) /\ p \in 1..ids /\ q \in 1..ids
    BY <1>0, <1>4, <1>5 DEF Committed
  <1>8. Committed(s)' = L
    <2>1. Sees(t) \subseteq DOMAIN rows /\ L = Sees(t) \cap S
      BY <1>6 DEF Outside, Sees, Latest
    <2>2. \A i \in S : rows'[i].session = s /\ rows'[i].by = NULL <=> i \in Sees(t)
      BY <1>0, <1>2 DEF Sees
    <2>3. Committed(s)' = {i \in S : rows'[i].session = s /\ rows'[i].by = NULL}
      BY <1>2 DEF Committed
    <2> QED BY <2>1, <2>2, <2>3
  <1>9. Cardinality(L) <= MaxMessages /\ L \in SUBSET Sees(t) /\ L \in SUBSET (1..ids)
    BY <1>0, <1>7, WindowOfIds DEF Latest
  <1>10. Window(s) = TurnsOf(rows, C)
    <2>1. Latest(C, MaxMessages) = C
      BY <1>0, <1>3, <1>7, AllLatest
    <2> QED BY <2>1 DEF Window, InOrder, TurnsOf
  <1>11. Window(s)' = TurnsOf(rows', L)
    <2>1. Window(s)' = TurnsOf(rows', Latest(Committed(s)', MaxMessages))
      BY DEF Window, InOrder, TurnsOf, Latest, Newer
    <2> HIDE DEF L
    <2>2. Latest(L, MaxMessages) = L
      BY <1>0, <1>9, AllLatest
    <2> QED BY <1>8, <2>1, <2>2
  <1>12. TurnsOf(rows', L) = TurnsOf(rows, L)
    <2>1. \A i \in L : rows'[i].turn = rows[i].turn
      <3>1. L \subseteq S
        BY <1>6 DEF Outside, Sees, Latest
      <3> QED BY <1>2, <3>1
    <2> HIDE DEF L
    <2> QED BY <1>0, <1>9, <2>1, SameTurns
  <1>13. TurnsOf(rows, L) = Store!Newest(TurnsOf(rows, Sees(t)), MaxMessages)
    BY <1>0, <1>7, WindowTurns
  <1>14. TurnsOf(rows, Sees(t)) = TurnsOf(rows, C) \o x
    <2>1. TurnsOf(rows, C \cup {p, q}) = TurnsOf(rows, C) \o <<rows[p].turn, rows[q].turn>>
      <3> HIDE DEF C
      <3>1. /\ ids \in Nat /\ C \in SUBSET (1..ids) /\ p \in 1..ids /\ q \in 1..ids
            /\ p < q /\ \A i \in C : i < p
        BY <1>0, <1>4, <1>5, <1>7
      <3> QED BY ONLY <3>1, TwoMore
    <2> QED BY <1>4, <1>5, <2>1
  <1> HIDE DEF L, C, x
  <1>15. Window(s)' = Store!Newest(Window(s) \o x, MaxMessages)
    BY <1>10, <1>11, <1>12, <1>13, <1>14
  <1> QED BY <1>8, <1>9, <1>15 DEF x

\* What is stored of a session, and so its window, stays the same otherwise.
LEMMA SameWindow ==
    ASSUME TableInv, NEW s, Committed(s)' = Committed(s),
           \A i \in Committed(s) : rows'[i].turn = rows[i].turn
    PROVE  Window(s)' = Window(s)
  <1> DEFINE L == Latest(Committed(s), MaxMessages)
  <1>1. ids \in Nat /\ L \in SUBSET (1..ids) /\ \A i \in L : rows'[i].turn = rows[i].turn
    BY DEF TableInv, Committed, Latest
  <1>2. Window(s) = TurnsOf(rows, L)
    BY DEF Window, InOrder, TurnsOf
  <1>3. Window(s)' = TurnsOf(rows', L)
    BY DEF Window, InOrder, TurnsOf, Latest, Newer
  <1> HIDE DEF L
  <1> QED BY <1>1, <1>2, <1>3, SameTurns

LEMMA SerialStep ==
    ASSUME RequestsInv, ChatsInv, TableInv, SerialInv, [Next]_vars
    PROVE  SerialInv'
  <1>0. Serial \subseteq Sessions /\ NULL \notin Serial /\ NULL \notin Threads /\ TableInv'
    BY AnswersAssumption, TableStep
  <1>1. ASSUME NEW s \in Serial PROVE Cardinality(Committed(s)') <= MaxMessages
    <2>1. CASE Committed(s)' = Committed(s)
      BY <2>1 DEF SerialInv
    <2>2. ASSUME NEW t \in Threads, Commit(t), local[t].session = s
          PROVE  Cardinality(Committed(s)') <= MaxMessages
      BY <2>2, CommitWindow
    <2> QED BY <1>0, <2>1, <2>2, CommittedStep
  \* A request whose place is outside of the transaction has no rows.
  <1>2. ASSUME NEW u \in Threads, pc'[u] \notin Writing, Own(u)' = {} PROVE SerialOK(u)'
    BY <1>2 DEF SerialOK, Writing
  \* A request that the step does not concern.
  <1>3. ASSUME NEW u \in Threads, local[u].session \in Serial, pc'[u] = pc[u],
               SameChat(local[u], local'[u]), local'[u].declined = local[u].declined,
               Committed(local[u].session)' = Committed(local[u].session),
               Own(u)' = Own(u), Own(u) \subseteq DOMAIN rows',
               \A i \in Own(u) : rows'[i].turn = rows[i].turn
        PROVE  SerialOK(u)'
    <2>1. SerialOK(u) /\ local[u].session # NULL /\ local'[u].session = local[u].session
      BY <1>0, <1>3 DEF SerialInv, SameChat
    <2>2. Sees(u) = Committed(local[u].session) \cup Own(u)
      BY <2>1, OwnerWrites
    <2>3. Sees(u)' = Committed(local[u].session)' \cup Own(u)'
      <3>1. \A i \in Own(u)' : rows'[i].session = local'[u].session
        BY <1>0 DEF TableInv, OwnOK, Own
      <3> QED BY <3>1 DEF Sees, Committed, Own
    <2>4. Sees(u)' = Sees(u)
      BY <1>3, <2>2, <2>3
    <2> QED BY <1>3, <2>1, <2>4, SerialFrame
  <1> SUFFICES ASSUME NEW u \in Threads, local'[u].session \in Serial PROVE SerialOK(u)'
    BY <1>1 DEF SerialInv
  <1>4. CASE Quiet
    <2>1. rows' = rows
      BY <1>4 DEF Quiet, table
    <2>2. Own(u)' = Own(u) /\ Own(u) \subseteq DOMAIN rows'
      BY <2>1 DEF Own
    <2>3. CASE /\ pc'[u] = pc[u] /\ SameChat(local[u], local'[u])
               /\ local'[u].declined = local[u].declined
      <3>1. local'[u].session = local[u].session
        BY <2>3 DEF SameChat
      <3>2. Committed(local[u].session)' = Committed(local[u].session)
        BY <2>1, <3>1 DEF Committed
      <3> QED BY <1>3, <2>1, <2>2, <2>3, <3>1, <3>2
    <2>4. CASE pc[u] \notin Writing /\ pc'[u] \notin Writing
      BY <1>2, <2>2, <2>4, OwnerWrites
    <2> QED BY <1>4, <2>3, <2>4 DEF Quiet
  <1>5. ASSUME NEW t \in Threads, NEW turn, NEW place, InsertsTurn(t, turn, place),
               \/ pc[t] = "ask" /\ place = "answer" /\ turn = Question(local[t])
               \/ pc[t] = "answer" /\ place = "trim" /\ turn = Reply(local[t])
        PROVE  SerialOK(u)'
    <2>1. /\ DOMAIN rows' = DOMAIN rows \cup {ids'} /\ ids' \notin DOMAIN rows
          /\ \A i \in DOMAIN rows : i < ids' /\ rows'[i] = rows[i]
          /\ rows'[ids'] = [session |-> local[t].session, turn |-> turn, by |-> t]
      BY <1>5, Inserted DEF InsertsTurn
    <2>2. rows'[ids'].by = t /\ t # NULL /\ rows'[ids'].turn = turn
      BY <1>0, <2>1
    <2>3. local' = local /\ pc'[t] = place /\ \A v \in Threads \ {t} : pc'[v] = pc[v]
      BY <1>5 DEF InsertsTurn
    <2>4. Committed(local[u].session)' = Committed(local[u].session)
      BY <2>1, <2>2, <2>3 DEF Committed
    <2>5. SerialOK(u) /\ local[u].session \in Serial
      BY <2>3 DEF SerialInv
    <2>6. CASE u # t
      <3>1. Own(u)' = Own(u) /\ Own(u) \subseteq DOMAIN rows' /\ \A i \in Own(u) : rows'[i].turn = rows[i].turn
        BY <2>1, <2>2, <2>6 DEF Own
      <3>2. SameChat(local[u], local'[u]) /\ local'[u].declined = local[u].declined
        BY <2>3 DEF SameChat
      <3> QED BY <1>3, <2>3, <2>4, <2>5, <2>6, <3>1, <3>2
    <2>7. CASE u = t
      <3>1. Own(t)' = Own(t) \cup {ids'} /\ Own(t) \subseteq DOMAIN rows
        BY <2>1, <2>2 DEF Own
      <3>2. \A i \in Committed(local[t].session)', j \in Own(t)' : i < j
        <4>1. \A i \in Committed(local[t].session) : i < ids' /\ \A j \in Own(t) : i < j
          BY <2>1, <2>5, <2>7 DEF SerialOK, Committed
        <4> QED BY <2>4, <2>7, <3>1, <4>1
      <3>3. Question(local[t])' = Question(local[t]) /\ Reply(local[t])' = Reply(local[t])
        BY <2>3
      <3>4. CASE pc[t] = "ask" /\ place = "answer" /\ turn = Question(local[t])
        <4>1. Own(t)' = {ids'} /\ rows'[ids'].turn = Question(local[t])'
          <5>1. Own(t) = {}
            BY <3>4, OwnerWrites DEF Writing
          <5> QED BY <2>2, <3>1, <3>3, <3>4, <5>1
        <4> QED BY <2>1, <2>3, <2>7, <3>2, <3>4, <4>1 DEF SerialOK
      <3>5. CASE pc[t] = "answer" /\ place = "trim" /\ turn = Reply(local[t])
        <4>1. PICK p \in DOMAIN rows : Own(t) = {p} /\ rows[p].turn = Question(local[t])
          BY <2>5, <2>7, <3>5 DEF SerialOK
        <4>2. /\ p \in DOMAIN rows' /\ ids' \in DOMAIN rows' /\ p < ids' /\ Own(t)' = {p, ids'}
              /\ rows'[p].turn = Question(local[t])' /\ rows'[ids'].turn = Reply(local[t])'
          BY <2>1, <2>2, <3>1, <3>3, <3>5, <4>1
        <4> QED BY <2>3, <2>7, <3>2, <3>5, <4>2 DEF SerialOK
      <3> QED BY <1>5, <3>4, <3>5
    <2> QED BY <2>6, <2>7
  <1>6. ASSUME NEW t \in Threads, InsertQuestion(t) \/ InsertAnswer(t) PROVE SerialOK(u)'
    <2>1. CASE /\ InsertQuestion(t)
               /\ InsertsTurn(t, [role |-> "user", of |-> local[t].number, declined |-> FALSE], "answer")
      <3>1. pc[t] = "ask"
        BY <2>1 DEF InsertQuestion
      <3> QED BY <1>5, <2>1, <3>1 DEF Question
    <2>2. CASE /\ InsertAnswer(t)
               /\ InsertsTurn(t, [role |-> "assistant", of |-> local[t].number,
                                  declined |-> local[t].declined], "trim")
      <3>1. pc[t] = "answer"
        BY <2>2 DEF InsertAnswer
      <3> QED BY <1>5, <2>2, <3>1 DEF Reply
    <2> QED BY <1>6, <2>1, <2>2, Inserts
  <1>7. ASSUME NEW t \in Threads, Trim(t) PROVE SerialOK(u)'
    <2>1. /\ rows' = rows /\ ids' = ids
          /\ \A v \in Threads \ {t} : pc'[v] = pc[v] /\ local'[v] = local[v]
          /\ \A v \in Threads : Sees(v)' = Sees(v)
      BY <1>7, TrimTable
    <2>2. /\ pc[t] = "trim" /\ pc'[t] = "commit" /\ local'[t].doomed = Outside(Sees(t))
          /\ local'[t].session = local[t].session /\ local'[t].number = local[t].number
          /\ local'[t].declined = local[t].declined
      BY <1>7, TrimChat
    <2>3. /\ Own(u)' = Own(u) /\ Own(u) \subseteq DOMAIN rows' /\ local'[u].session = local[u].session
          /\ Committed(local[u].session)' = Committed(local[u].session)
      BY <2>1, <2>2 DEF Own, Committed
    <2>4. CASE u # t
      BY <1>3, <2>1, <2>3, <2>4 DEF SameChat
    <2>5. CASE u = t
      <3>1. SerialOK(t)
        BY <2>3, <2>5 DEF SerialInv
      <3>2. Question(local[t])' = Question(local[t]) /\ Reply(local[t])' = Reply(local[t])
        BY <2>2 DEF Question, Reply
      <3>3. \A i \in Committed(local[t].session)', j \in Own(t)' : i < j
        BY <2>3, <2>5, <3>1 DEF SerialOK
      <3>4. \E p, q \in DOMAIN rows' : /\ p < q /\ Own(t)' = {p, q}
                                       /\ rows'[p].turn = Question(local[t])'
                                       /\ rows'[q].turn = Reply(local[t])'
        BY <2>1, <2>2, <2>3, <2>5, <3>1, <3>2 DEF SerialOK
      <3>5. local'[t].doomed = Outside(Sees(t))'
        BY <2>1, <2>2 DEF Outside, Latest, Newer
      <3> QED BY <2>2, <2>5, <3>3, <3>4, <3>5 DEF SerialOK
    <2> QED BY <2>4, <2>5
  <1>8. ASSUME NEW t \in Threads, Commit(t) \/ Rollback(t) PROVE SerialOK(u)'
    <2>1. \A v \in Threads : Commit(v) \/ Rollback(v) => local'[v] = Idle
      BY DEF Commit, Rollback, Ends, Leave, RequestsInv
    <2>2. ~Commit(u) /\ u # t
      BY <1>0, <1>8, <2>1, IdleChat
    <2>3. PICK S \in SUBSET DOMAIN rows : Ends(t, S) /\ Own(u) \subseteq S
      <3>1. CASE Commit(t)
        <4>1. /\ Ends(t, DOMAIN rows \ local[t].doomed)
              /\ local[t].doomed \cap DOMAIN rows \subseteq Sees(t)
          BY <3>1 DEF Commit, TableInv
        <4>2. Own(u) \subseteq DOMAIN rows \ local[t].doomed
          BY <1>0, <2>2, <4>1 DEF Own, Sees
        <4> QED BY <4>1, <4>2
      <3>2. CASE Rollback(t)
        <4>1. Ends(t, {i \in DOMAIN rows : rows[i].by # t})
          BY <3>2 DEF Rollback
        <4>2. Own(u) \subseteq {i \in DOMAIN rows : rows[i].by # t}
          BY <2>2 DEF Own
        <4> QED BY <4>1, <4>2
      <3> QED BY <1>8, <3>1, <3>2
    <2>4. /\ DOMAIN rows' = S
          /\ \A i \in S : /\ rows'[i].turn = rows[i].turn
                          /\ rows'[i].by = (IF rows[i].by = t THEN NULL ELSE rows[i].by)
          /\ pc'[u] = pc[u] /\ local'[u] = local[u]
      BY <2>2, <2>3, Ended
    <2>5. Own(u)' = Own(u) /\ Own(u) \subseteq DOMAIN rows' /\ \A i \in Own(u) : rows'[i].turn = rows[i].turn
      BY <1>0, <2>2, <2>3, <2>4 DEF Own
    <2>6. Committed(local[u].session)' = Committed(local[u].session)
      <3>1. PICK s \in Serial : local[u].session = s /\ local'[u].session = s
        BY <2>4
      <3>2. \A v \in Threads : local[v].session = s => v = u
        BY <3>1 DEF ChatsInv, OneEach
      <3>3. s \in Sessions /\ ~\E v \in Threads : Commit(v) /\ local[v].session = s
        BY <1>0, <2>2, <3>1, <3>2
      <3>4. Committed(s)' = Committed(s)
        BY <3>3, CommittedStep
      <3>5. Committed(local[u].session)' = Committed(s)'
        BY <3>1 DEF Committed
      <3> QED BY <3>1, <3>4, <3>5
    <2> QED BY <1>3, <2>4, <2>5, <2>6 DEF SameChat
  <1> QED BY <1>4, <1>6, <1>7, <1>8, StepKinds

-----------------------------------------------------------------------------
(* What the model sees of the history.                                     *)

\* history_for_model after one more turn.
Sifted(before, turn) ==
    LET n == Len(before)
    IN  IF ~turn.declined THEN Append(before, turn)
        ELSE IF n > 0 /\ before[n].role = "user" THEN SubSeq(before, 1, n - 1)
        ELSE before

\* f has what is kept of the first i turns, for each i up to n.
Sifts(f, turns, n) ==
    f = [i \in 0..n |-> IF i = 0 THEN <<>> ELSE Sifted(f[i - 1], turns[i])]

\* There is such a function for each n: otherwise there were a least one without.
LEMMA SiftsExist ==
    ASSUME NEW turns, NEW n \in Nat
    PROVE  \E f : Sifts(f, turns, n)
  <1> DEFINE Bad == {m \in Nat : ~\E f : Sifts(f, turns, m)}
  <1>1. SUFFICES ASSUME Bad # {} PROVE FALSE
    BY DEF Bad
  <1>2. PICK m \in Bad : \A k \in Bad : m <= k
    <2>1. Bad \in SUBSET Nat
      OBVIOUS
    <2> HIDE DEF Bad
    <2> QED BY <1>1, <2>1, Least
  <1>3. m \in Nat /\ ~\E f : Sifts(f, turns, m)
    OBVIOUS
  <1>4. CASE m = 0
    <2> DEFINE g == [i \in 0..0 |-> <<>>]
    <2>1. g = [i \in 0..0 |-> IF i = 0 THEN <<>> ELSE Sifted(g[i - 1], turns[i])]
      <3>1. \A i \in 0..0 : i = 0
        OBVIOUS
      <3> QED BY <3>1
    <2> HIDE DEF g
    <2> QED BY <1>3, <1>4, <2>1 DEF Sifts
  <1>5. CASE m # 0
    <2>1. m - 1 \in Nat /\ m - 1 \notin Bad
      BY <1>2, <1>3, <1>5
    <2>2. PICK g : Sifts(g, turns, m - 1)
      BY <2>1
    <2>3. \A i \in 0..(m - 1) : g[i] = IF i = 0 THEN <<>> ELSE Sifted(g[i - 1], turns[i])
      BY <2>2 DEF Sifts
    <2> DEFINE h == [i \in 0..m |-> IF i = m THEN Sifted(g[m - 1], turns[m]) ELSE g[i]]
    <2>4. ASSUME NEW i \in 0..m PROVE h[i] = IF i = 0 THEN <<>> ELSE Sifted(h[i - 1], turns[i])
      <3>1. CASE i = 0
        <4>1. 0 \in 0..(m - 1) /\ 0 # m
          BY <1>5, <2>1
        <4> QED BY <2>3, <3>1, <4>1
      <3>2. CASE i # 0
        <4>1. i - 1 \in 0..m /\ i - 1 # m
          BY <1>3, <3>2
        <4>2. h[i - 1] = g[i - 1]
          BY <4>1
        <4>3. CASE i = m
          BY <3>2, <4>2, <4>3
        <4>4. CASE i # m
          <5>1. i \in 0..(m - 1)
            BY <1>3, <4>4
          <5> QED BY <2>3, <3>2, <4>2, <4>4, <5>1
        <4> QED BY <4>3, <4>4
      <3> QED BY <3>1, <3>2
    <2>5. h = [i \in 0..m |-> h[i]]
      OBVIOUS
    <2> HIDE DEF h
    <2>6. Sifts(h, turns, m)
      BY <2>4, <2>5 DEF Sifts
    <2> QED BY <1>3, <2>6
  <1> QED BY <1>4, <1>5

LEMMA Sifting ==
    ASSUME NEW turns, Len(turns) \in Nat
    PROVE  \E f : Sifts(f, turns, Len(turns)) /\ HistoryForModel(turns) = f[Len(turns)]
  <1> DEFINE n == Len(turns)
             P(f) == Sifts(f, turns, n)
             kept == CHOOSE f : P(f)
  <1>1. \E f : P(f)
    BY SiftsExist
  <1>2. HistoryForModel(turns) = kept[n]
    BY DEF HistoryForModel, Sifts, Sifted
  <1> HIDE DEF P
  <1>3. P(kept)
    BY <1>1
  <1> HIDE DEF kept
  <1> QED BY <1>2, <1>3 DEF P

\* A question and its answer.
Pair(a, b) ==
    /\ a \in Turn /\ b \in Turn /\ a.role = "user" /\ ~a.declined
    /\ b.role = "assistant" /\ a.of = b.of

\* w consists of n whole exchanges, and all of them are answered.
Whole(w, n) ==
    w \in Seq(Turn) /\ Len(w) = 2 * n /\ \A k \in 1..n : Pair(w[2 * k - 1], w[2 * k])
AllAnswered(w, n) == \A k \in 1..n : ~w[2 * k].declined

\* One more exchange.
LEMMA WholeMore ==
    ASSUME NEW n \in Nat, NEW w, Whole(w, n), NEW a, NEW b, Pair(a, b)
    PROVE  /\ Whole(Append(Append(w, a), b), n + 1)
           /\ AllAnswered(w, n) /\ ~b.declined => AllAnswered(Append(Append(w, a), b), n + 1)
  <1> DEFINE v == Append(w, a)
             u == Append(v, b)
  <1>1. w \in Seq(Turn) /\ a \in Turn /\ b \in Turn /\ Len(w) = 2 * n
    BY DEF Whole, Pair
  <1>2. /\ v \in Seq(Turn) /\ Len(v) = 2 * n + 1 /\ v[2 * n + 1] = a
        /\ \A i \in 1..(2 * n) : v[i] = w[i]
    BY <1>1, AppendProperties
  <1> HIDE DEF v
  <1>3. /\ u \in Seq(Turn) /\ Len(u) = 2 * n + 2 /\ u[2 * n + 2] = b
        /\ \A i \in 1..(2 * n + 1) : u[i] = v[i]
    BY <1>1, <1>2, AppendProperties
  <1> HIDE DEF u
  <1>4. u[2 * n + 1] = a /\ \A i \in 1..(2 * n) : u[i] = w[i]
    <2>1. 2 * n + 1 \in 1..(2 * n + 1) /\ \A i \in 1..(2 * n) : i \in 1..(2 * n + 1)
      OBVIOUS
    <2> QED BY <1>2, <1>3, <2>1
  <1>5. ASSUME NEW k \in 1..(n + 1)
        PROVE  /\ Pair(u[2 * k - 1], u[2 * k])
               /\ AllAnswered(w, n) /\ ~b.declined => ~u[2 * k].declined
    <2>1. CASE k = n + 1
      <3>1. 2 * k - 1 = 2 * n + 1 /\ 2 * k = 2 * n + 2
        BY <2>1
      <3> QED BY <1>3, <1>4, <3>1
    <2>2. CASE k \in 1..n
      <3>1. 2 * k - 1 \in 1..(2 * n) /\ 2 * k \in 1..(2 * n)
        BY <2>2
      <3>2. u[2 * k - 1] = w[2 * k - 1] /\ u[2 * k] = w[2 * k]
        BY <1>4, <3>1
      <3> QED BY <2>2, <3>2 DEF Whole, AllAnswered
    <2> QED BY <2>1, <2>2
  <1>6. Len(u) = 2 * (n + 1)
    BY <1>3
  <1>7. Whole(u, n + 1) /\ (AllAnswered(w, n) /\ ~b.declined => AllAnswered(u, n + 1))
    BY <1>3, <1>5, <1>6 DEF Whole, AllAnswered
  <1> QED BY <1>7 DEF u, v

\* The end of a list of exchanges, cut after an exchange.
LEMMA WholeNewest ==
    ASSUME NEW n \in Nat, NEW w, Whole(w, n)
    PROVE  \E k \in Nat : Whole(Store!Newest(w, MaxMessages), k)
  <1>1. PICK m \in Nat : MaxMessages = 2 * m /\ m > 0
    <2>1. MaxMessages \in Nat \ {0} /\ MaxMessages % 2 = 0
      BY AnswersAssumption
    <2>2. MaxMessages \div 2 \in Nat /\ MaxMessages = 2 * (MaxMessages \div 2)
      BY <2>1
    <2> QED BY <2>1, <2>2
  <1>2. w \in Seq(Turn) /\ Len(w) = 2 * n
    BY DEF Whole
  <1>3. CASE n <= m
    <2>1. ~(Len(w) > MaxMessages)
      BY <1>1, <1>2, <1>3
    <2>2. Store!Newest(w, MaxMessages) = SubSeq(w, 1, Len(w))
      BY <2>1 DEF Store!Newest
    <2>3. SubSeq(w, 1, Len(w)) = w
      BY <1>2, SubSeqFull
    <2> QED BY <2>2, <2>3
  <1>4. CASE n > m
    <2> DEFINE d == 2 * (n - m)
               v == SubSeq(w, d + 1, 2 * n)
    <2>1. Store!Newest(w, MaxMessages) = v
      <3>1. Len(w) > MaxMessages /\ Len(w) - MaxMessages + 1 = d + 1
        BY <1>1, <1>2, <1>4
      <3> QED BY <1>2, <3>1 DEF Store!Newest
    <2>2. d \in Nat /\ d + 1 \in Int /\ 2 * n \in Int /\ d + 1 <= 2 * n /\ 2 * n - (d + 1) + 1 = 2 * m
      BY <1>1, <1>4
    <2>3. \A i \in (d + 1)..(2 * n) : w[i] \in Turn
      <3>1. \A i \in 1..Len(w) : w[i] \in Turn
        BY <1>2, ElementOfSeq
      <3>2. \A i \in (d + 1)..(2 * n) : i \in 1..(2 * n)
        BY <2>2
      <3> QED BY <1>2, <3>1, <3>2
    <2> HIDE DEF d
    <2>4. /\ v \in Seq(Turn) /\ Len(v) = 2 * n - (d + 1) + 1
          /\ \A i \in 1..(2 * n - (d + 1) + 1) : v[i] = w[d + 1 + i - 1]
      BY <2>2, <2>3, SubSeqProperties
    <2> HIDE DEF v
    <2>5. Len(v) = 2 * m /\ \A i \in 1..(2 * m) : v[i] = w[d + i]
      <3>1. \A i \in 1..(2 * m) : d + 1 + i - 1 = d + i
        BY <2>2
      <3> QED BY <2>2, <2>4, <3>1
    <2>6. ASSUME NEW k \in 1..m PROVE Pair(v[2 * k - 1], v[2 * k])
      <3>1. 2 * k - 1 \in 1..(2 * m) /\ 2 * k \in 1..(2 * m)
        OBVIOUS
      <3>2. v[2 * k - 1] = w[d + (2 * k - 1)] /\ v[2 * k] = w[d + 2 * k]
        BY <2>5, <3>1
      <3>3. PICK l \in 1..n : l = n - m + k
        BY <1>1, <1>4
      <3>4. d + (2 * k - 1) = 2 * l - 1 /\ d + 2 * k = 2 * l
        BY <1>1, <3>3 DEF d
      <3>5. Pair(w[2 * l - 1], w[2 * l])
        BY DEF Whole
      <3> QED BY <3>2, <3>4, <3>5
    <2>7. Whole(v, m)
      BY <2>4, <2>5, <2>6 DEF Whole
    <2> QED BY <2>1, <2>7
  <1> QED BY <1>1, <1>3, <1>4

\* A declined answer takes its question with it.
LEMMA SiftedPair ==
    ASSUME NEW n \in Nat, NEW w, Whole(w, n), AllAnswered(w, n), NEW a, NEW b, Pair(a, b)
    PROVE  LET v == Sifted(Sifted(w, a), b)
           IN  \E k \in Nat : Whole(v, k) /\ AllAnswered(v, k)
  <1> DEFINE v == Append(w, a)
  <1>1. Sifted(w, a) = v
    BY DEF Sifted, Pair
  <1>2. w \in Seq(Turn) /\ a \in Turn /\ Len(w) = 2 * n
    BY DEF Whole, Pair
  <1>3. CASE ~b.declined
    <2>1. Sifted(v, b) = Append(v, b)
      BY <1>3 DEF Sifted
    <2>2. Whole(Append(v, b), n + 1) /\ AllAnswered(Append(v, b), n + 1) /\ n + 1 \in Nat
      BY <1>3, WholeMore
    <2> QED BY <1>1, <2>1, <2>2
  <1>4. CASE b.declined
    <2>1. v \in Seq(Turn) /\ Len(v) = 2 * n + 1 /\ v[2 * n + 1] = a
      BY <1>2, AppendProperties
    <2>2. Len(v) > 0 /\ v[Len(v)].role = "user" /\ Len(v) - 1 = Len(w)
      BY <1>2, <2>1 DEF Pair
    <2>3. SubSeq(v, 1, Len(v) - 1) = w
      <3>1. v = w \o <<a>> /\ <<a>> \in Seq(Turn)
        BY <1>2, AppendIsConcat
      <3>2. SubSeq(w \o <<a>>, 1, Len(w)) = w
        BY <1>2, <3>1, SubSeqOfConcat1, SubSeqFull
      <3> HIDE DEF v
      <3> QED BY <2>2, <3>1, <3>2
    <2> HIDE DEF v
    <2>4. Sifted(v, b) = w
      BY <1>4, <2>2, <2>3 DEF Sifted
    <2> QED BY <1>1, <2>4
  <1> QED BY <1>3, <1>4

LEMMA SiftedWhole ==
    ASSUME NEW n \in Nat, NEW turns, Whole(turns, n)
    PROVE  LET h == HistoryForModel(turns)
           IN  \E k \in Nat : Whole(h, k) /\ AllAnswered(h, k)
  <1>1. Len(turns) = 2 * n /\ Len(turns) \in Nat
    BY DEF Whole
  <1>2. PICK f : Sifts(f, turns, 2 * n) /\ HistoryForModel(turns) = f[2 * n]
    BY <1>1, Sifting
  <1>3. \A i \in 0..(2 * n) : f[i] = IF i = 0 THEN <<>> ELSE Sifted(f[i - 1], turns[i])
    BY <1>2 DEF Sifts
  <1> DEFINE OK(w) == \E k \in Nat : Whole(w, k) /\ AllAnswered(w, k)
             Bad == {m \in 0..n : ~OK(f[2 * m])}
  <1>4. CASE n \notin Bad
    BY <1>2, <1>4
  <1>5. CASE n \in Bad
    <2>1. PICK m \in Bad : \A k \in Bad : m <= k
      <3>1. Bad \in SUBSET Nat /\ Bad # {}
        BY <1>5
      <3> HIDE DEF Bad
      <3> QED BY <3>1, Least
    <2>2. m \in 0..n /\ ~OK(f[2 * m])
      OBVIOUS
    <2>3. CASE m = 0
      <3>1. f[2 * m] = <<>>
        BY <1>3, <2>3
      <3>2. Whole(<<>>, 0) /\ AllAnswered(<<>>, 0)
        BY DEF Whole, AllAnswered
      <3> QED BY <2>2, <3>1, <3>2
    <2>4. CASE m # 0
      <3>1. m - 1 \in 0..n /\ ~(m <= m - 1) /\ 2 * (m - 1) = 2 * m - 2
        BY <2>2, <2>4
      <3>2. OK(f[2 * m - 2])
        BY <2>1, <3>1
      <3>3. PICK k \in Nat : Whole(f[2 * m - 2], k) /\ AllAnswered(f[2 * m - 2], k)
        BY <3>2
      <3>4. Pair(turns[2 * m - 1], turns[2 * m])
        BY <2>2, <2>4 DEF Whole
      <3>5. f[2 * m - 1] = Sifted(f[2 * m - 2], turns[2 * m - 1])
        <4>1. 2 * m - 1 \in 0..(2 * n) /\ 2 * m - 1 # 0 /\ (2 * m - 1) - 1 = 2 * m - 2
          BY <2>2, <2>4
        <4> QED BY <1>3, <4>1
      <3>6. f[2 * m] = Sifted(f[2 * m - 1], turns[2 * m])
        <4>1. 2 * m \in 0..(2 * n) /\ 2 * m # 0 /\ (2 * m) - 1 = 2 * m - 1
          BY <2>2, <2>4
        <4> QED BY <1>3, <4>1
      <3>7. OK(f[2 * m])
        BY <3>3, <3>4, <3>5, <3>6, SiftedPair
      <3> QED BY <2>2, <3>7
    <2> QED BY <2>3, <2>4
  <1> QED BY <1>4, <1>5

\* w is a list of whole exchanges, and one of answered exchanges.
OfExchanges(w) == \E n \in Nat : Whole(w, n)
OfAnswers(w) == \E n \in Nat : Whole(w, n) /\ AllAnswered(w, n)

\* Every question is answered by the next turn, every answer but the first turn
\* comes after a question.
Paired(p) ==
    \A i \in 1..Len(p) :
        IF p[i].role = "user" THEN i < Len(p) /\ RepliesTo(p[i + 1], p[i])
        ELSE ~p[i].declined /\ (i > 1 => p[i - 1].role = "user")

\* A list of answered exchanges has its questions at the odd places.
LEMMA WholeTurns ==
    ASSUME NEW n \in Nat, NEW w, Whole(w, n), AllAnswered(w, n), NEW i \in 1..(2 * n)
    PROVE  \/ w[i].role = "user" /\ i < 2 * n /\ RepliesTo(w[i + 1], w[i])
           \/ w[i].role = "assistant" /\ ~w[i].declined /\ i > 1 /\ w[i - 1].role = "user"
  <1>1. CASE i % 2 = 1
    <2>1. PICK k \in 1..n : i = 2 * k - 1 /\ i + 1 = 2 * k
      <3>1. (i + 1) \div 2 \in 1..n /\ i = 2 * ((i + 1) \div 2) - 1
        BY <1>1
      <3> QED BY <3>1
    <2>2. Pair(w[2 * k - 1], w[2 * k]) /\ ~w[2 * k].declined
      BY DEF Whole, AllAnswered
    <2> QED BY <2>1, <2>2 DEF Pair, RepliesTo
  <1>2. CASE i % 2 # 1
    <2>1. PICK k \in 1..n : i = 2 * k /\ i - 1 = 2 * k - 1
      <3>1. i \div 2 \in 1..n /\ i = 2 * (i \div 2)
        BY <1>2
      <3> QED BY <3>1
    <2>2. Pair(w[2 * k - 1], w[2 * k]) /\ ~w[2 * k].declined
      BY DEF Whole, AllAnswered
    <2> QED BY <2>1, <2>2 DEF Pair
  <1> QED BY <1>1, <1>2

\* Wherever trim_history cuts such a list, what is left is paired.
LEMMA TrimmedTurns ==
    ASSUME NEW w, OfAnswers(w), NEW n \in 0..Len(w)
    PROVE  Paired(TrimHistory(w, n))
  <1>1. PICK k \in Nat : Whole(w, k) /\ AllAnswered(w, k)
    BY DEF OfAnswers
  <1>2. w \in Seq(Turn) /\ Len(w) = 2 * k
    BY <1>1 DEF Whole
  <1> DEFINE p == TrimHistory(w, n)
             c == 2 * k - n
  <1>3. Len(p) = n /\ \A i \in 1..n : p[i] = w[c + i]
    BY <1>2 DEF TrimHistory
  <1> HIDE DEF p
  <1>4. ASSUME NEW i \in 1..n
        PROVE  IF p[i].role = "user" THEN i < n /\ RepliesTo(p[i + 1], p[i])
               ELSE ~p[i].declined /\ (i > 1 => p[i - 1].role = "user")
    <2>1. c + i \in 1..(2 * k) /\ p[i] = w[c + i] /\ c \in Nat
      BY <1>2, <1>3
    <2>2. \/ w[c + i].role = "user" /\ c + i < 2 * k /\ RepliesTo(w[(c + i) + 1], w[c + i])
          \/ w[c + i].role = "assistant" /\ ~w[c + i].declined /\ w[(c + i) - 1].role = "user"
      <3>1. \A j \in 1..(2 * k) :
                \/ w[j].role = "user" /\ j < 2 * k /\ RepliesTo(w[j + 1], w[j])
                \/ w[j].role = "assistant" /\ ~w[j].declined /\ w[j - 1].role = "user"
        BY <1>1, WholeTurns
      <3> HIDE DEF c
      <3> QED BY <2>1, <3>1
    <2>3. i < n => p[i + 1] = w[(c + i) + 1]
      <3>1. i < n => i + 1 \in 1..n /\ c + (i + 1) = (c + i) + 1
        BY <2>1
      <3> QED BY <1>3, <3>1
    <2>4. i > 1 => p[i - 1] = w[(c + i) - 1]
      <3>1. i > 1 => i - 1 \in 1..n /\ c + (i - 1) = (c + i) - 1
        BY <2>1
      <3> QED BY <1>3, <3>1
    <2>5. c + i < 2 * k => i < n
      BY <1>2
    <2> QED BY <2>1, <2>2, <2>3, <2>4, <2>5
  <1> QED BY <1>3, <1>4 DEF Paired, p

\* The windows consist of whole exchanges; a request that has read one has the
\* newest turns of the answered ones of it.
PriorInv ==
    /\ \A s \in Serial : OfExchanges(Window(s))
    /\ \A t \in Threads : local[t].session \in Serial => Paired(local[t].prior)

\* A window stays as it is or takes in an exchange.
LEMMA WindowStep ==
    ASSUME RequestsInv, ChatsInv, TableInv, SerialInv, [Next]_vars, NEW s \in Serial
    PROVE  \/ Window(s)' = Window(s)
           \/ \E t \in Threads :
                  /\ Commit(t) /\ local[t].session = s
                  /\ local[t].number \in 1..MaxRequests /\ local[t].declined \in BOOLEAN
                  /\ Window(s)' = Store!Newest(Window(s) \o <<Question(local[t]), Reply(local[t])>>, MaxMessages)
  <1>1. s \in Sessions
    BY AnswersAssumption
  <1>2. CASE Committed(s)' = Committed(s) /\ \A i \in Committed(s) : rows'[i].turn = rows[i].turn
    BY <1>2, SameWindow
  <1>3. ASSUME NEW t \in Threads, Commit(t), local[t].session = s
        PROVE  /\ local[t].number \in 1..MaxRequests /\ local[t].declined \in BOOLEAN
               /\ Window(s)' = Store!Newest(Window(s) \o <<Question(local[t]), Reply(local[t])>>, MaxMessages)
    <2>1. pc[t] = "commit" /\ ChatOK(pc[t], local[t])
      BY <1>3 DEF Commit, ChatsInv
    <2>2. local[t].number \in 1..MaxRequests /\ local[t].declined \in BOOLEAN
      BY <2>1 DEF ChatOK
    <2> QED BY <1>3, <2>2, CommitWindow
  <1> QED BY <1>1, <1>2, <1>3, CommittedStep

LEMMA WindowWhole ==
    ASSUME RequestsInv, ChatsInv, TableInv, SerialInv, PriorInv, [Next]_vars, NEW s \in Serial
    PROVE  OfExchanges(Window(s)')
  <1>1. OfExchanges(Window(s))
    BY DEF PriorInv
  <1>2. CASE Window(s)' = Window(s)
    BY <1>1, <1>2
  <1>3. ASSUME NEW t \in Threads, local[t].number \in 1..MaxRequests, local[t].declined \in BOOLEAN,
               Window(s)' = Store!Newest(Window(s) \o <<Question(local[t]), Reply(local[t])>>, MaxMessages)
        PROVE  OfExchanges(Window(s)')
    <2> DEFINE a == Question(local[t])
               b == Reply(local[t])
               w == Window(s)
    <2>1. Pair(a, b)
      BY <1>3 DEF Pair, Question, Reply, Turn
    <2>2. PICK n \in Nat : Whole(w, n)
      BY <1>1 DEF OfExchanges
    <2> HIDE DEF a, b, w
    <2>3. w \in Seq(Turn) /\ a \in Turn /\ b \in Turn
      BY <2>1, <2>2 DEF Whole, Pair
    <2>4. w \o <<a, b>> = Append(Append(w, a), b)
      BY <2>3
    <2>5. Whole(w \o <<a, b>>, n + 1) /\ n + 1 \in Nat
      <3>1. Whole(Append(Append(w, a), b), n + 1)
        BY <2>1, <2>2, WholeMore
      <3>2. Whole(w \o <<a, b>>, n + 1)
        BY <2>4, <3>1, Zenon
      <3> QED BY <3>2
    <2>6. \E k \in Nat : Whole(Store!Newest(w \o <<a, b>>, MaxMessages), k)
      BY <2>5, WholeNewest
    <2> QED BY <1>3, <2>6 DEF OfExchanges, a, b, w
  <1> QED BY <1>2, <1>3, WindowStep

LEMMA PriorStep ==
    ASSUME RequestsInv, ChatsInv, TableInv, SerialInv, PriorInv, [Next]_vars
    PROVE  PriorInv'
  <1>0. NULL \notin Serial /\ Paired(<<>>)
    BY IdleChat DEF Paired
  <1>1. \A s \in Serial : OfExchanges(Window(s)')
    BY WindowWhole
  <1>2. ASSUME NEW u \in Threads, local'[u].session \in Serial,
               local'[u].session = local[u].session, local'[u].prior \in {local[u].prior, <<>>}
        PROVE  Paired(local'[u].prior)
    BY <1>0, <1>2 DEF PriorInv
  <1>3. ASSUME NEW t \in Threads, Step(t), NEW u \in Threads, local'[u].session \in Serial
        PROVE  Paired(local'[u].prior)
    <2>1. CASE u # t
      <3>1. local'[u] = local[u]
        BY <1>3, <2>1, RequestStep
      <3> QED BY <1>2, <1>3, <3>1
    <2>2. CASE u = t
      <3>1. ASSUME NEW r \in Requests, Arrive(t, r) PROVE Paired(local'[t].prior)
        BY <1>0, <3>1, ArriveChat
      <3>2. CASE local'[t] = Idle
        BY <1>0, <1>3, <2>2, <3>2, IdleChat
      <3>3. CASE Begin(t)
        <4>1. SameChat(local[t], local'[t])
          BY <3>3, BeginChat
        <4>2. PICK s \in Serial : local[t].session = s
          BY <1>3, <2>2, <4>1 DEF SameChat
        <4> DEFINE turns == HistoryForModel(Window(s))
        <4>3. PICK n \in 0..Len(turns) : local'[t].prior = TrimHistory(turns, n)
          BY <1>0, <3>3, <4>2, BeginChat
        <4>4. PICK k \in Nat : Whole(Window(s), k)
          BY DEF PriorInv, OfExchanges
        <4>5. OfAnswers(turns)
          BY <4>4, SiftedWhole DEF OfAnswers
        <4> HIDE DEF turns
        <4> QED BY <2>2, <4>3, <4>5, TrimmedTurns
      <3>4. CASE Trim(t)
        BY <1>2, <1>3, <2>2, <3>4, TrimChat
      <3>5. CASE Continues(local[t], local'[t])
        BY <1>2, <1>3, <2>2, <3>5 DEF Continues, SameChat
      <3> QED BY <1>3, <2>2, <3>1, <3>2, <3>3, <3>4, <3>5, ChatVariables
    <2> QED BY <2>1, <2>2
  <1>4. ASSUME NEW D \in SUBSET Sources, ChangeDocuments(D), NEW u \in Threads, local'[u].session \in Serial
        PROVE  Paired(local'[u].prior)
    <2>1. Continues(local[u], local'[u])
      BY <1>4, ChangeChat
    <2> QED BY <1>2, <1>4, <2>1 DEF Continues, SameChat
  <1>5. ASSUME Tick \/ Done \/ UNCHANGED vars, NEW u \in Threads, local'[u].session \in Serial
        PROVE  Paired(local'[u].prior)
    BY <1>2, <1>5 DEF Tick, Done, vars
  <1>6. \A u \in Threads : local'[u].session \in Serial => Paired(local'[u].prior)
    BY <1>3, <1>4, <1>5 DEF Next
  <1> QED BY <1>1, <1>6 DEF PriorInv, OfExchanges, Whole, Pair, Turn, Paired, RepliesTo

LEMMA ChangesStep ==
    ASSUME changes \in 0..MaxChanges, [Next]_vars
    PROVE  (changes \in 0..MaxChanges)'
  <1>1. changes' = changes \/ \E D \in SUBSET Sources : ChangeDocuments(D)
    BY DEF Next, vars, Step, Arrive, Acquire, Refuse, Begin, SemanticSearch, Abort, KeywordSearch,
           CheckBudget, ModelAnswers, FallbackAnswers, Generate, InsertQuestion, InsertAnswer,
           Trim, Commit, Rollback, Ends, Tick, Done, world
  <1>2. ASSUME NEW D \in SUBSET Sources, ChangeDocuments(D) PROVE changes' \in 0..MaxChanges
    BY <1>2, AnswersAssumption DEF ChangeDocuments
  <1> QED BY <1>1, <1>2

\* Everything about the chats together.
HistoryInv ==
    ChatsInv /\ TableInv /\ KeepsInv /\ StoredInv /\ SerialInv /\ PriorInv

LEMMA WindowInit ==
    ASSUME Init, NEW s PROVE Window(s) = <<>>
  <1>1. Committed(s) = {}
    BY DEF Init, Committed
  <1>2. Latest(Committed(s), MaxMessages) = {}
    BY <1>1 DEF Latest
  <1>3. InOrder({}) = <<>>
    <2>1. Cardinality({}) = 0 /\ 1..0 = {}
      BY FS_EmptySet
    <2> QED BY <2>1 DEF InOrder
  <1> QED BY <1>2, <1>3 DEF Window

LEMMA HistoryInit ==
    ASSUME Init PROVE HistoryInv
  <1>1. /\ rows = <<>> /\ ids = 0 /\ DOMAIN rows = {} /\ sent = 0
        /\ \A t \in Threads : pc[t] = "idle" /\ local[t] = Idle
    BY DEF Init
  <1>2. ChatsInv
    <2>1. ChatOK("idle", Idle) /\ Idle.session \notin Serial
      BY IdleChat
    <2> QED BY <1>1, <2>1, AnswersAssumption DEF ChatsInv, OneEach
  <1>3. TableInv
    <2>1. rows \in [{} -> Row]
      BY <1>1
    <2> QED BY <1>1, <2>1 DEF TableInv
  <1>4. KeepsInv
    BY <1>1 DEF KeepsInv
  <1>5. StoredInv
    <2>1. \A s, A : After(s, A) = {}
      BY <1>1 DEF After
    <2>2. Cardinality({}) = 0 /\ 0 <= MostRows
      BY FS_EmptySet, MostRowsType
    <2> QED BY <2>1, <2>2 DEF StoredInv
  <1>6. \A s : Committed(s) = {}
    BY <1>1 DEF Committed
  <1>7. SerialInv
    <2>1. Cardinality({}) = 0 /\ 0 <= MaxMessages
      BY FS_EmptySet, MostRowsType
    <2>2. \A t \in Threads : local[t].session \notin Serial
      BY <1>1, IdleChat
    <2> QED BY <1>6, <2>1, <2>2 DEF SerialInv
  <1>8. PriorInv
    <2>1. \A s \in Serial : Window(s) = <<>>
      BY WindowInit
    <2>2. Whole(<<>>, 0)
      BY DEF Whole
    <2>3. \A t \in Threads : local[t].session \notin Serial
      BY <1>1, IdleChat
    <2> QED BY <2>1, <2>2, <2>3 DEF PriorInv, OfExchanges
  <1> QED BY <1>2, <1>3, <1>4, <1>5, <1>7, <1>8 DEF HistoryInv

-----------------------------------------------------------------------------
(* The theorems.                                                           *)

Inv ==
    RequestsInv /\ BudgetInv /\ RateInv /\ changes \in 0..MaxChanges /\ HistoryInv

LEMMA Initially == Init => Inv
  <1> SUFFICES ASSUME Init PROVE Inv
    OBVIOUS
  <1>1. RequestsInv
    <2>1. ReadOK("idle", Idle) /\ "idle" \in Places
      BY DEF ReadOK, Searching, Places
    <2> QED BY <2>1, IdleIsLocal, AnswersAssumption DEF Init, RequestsInv
  <1>2. BudgetInv
    <2>1. /\ MaxCost * Cardinality(Spenders) <= MaxCost * Cardinality(Threads)
          /\ MaxCost * Cardinality(Spenders) \in Nat /\ MaxCost * Cardinality(Threads) \in Nat
      BY SpendersBound DEF Spenders
    <2>2. used \in [Days -> Nat] /\ \A d \in Days : used[d] = 0
      BY DEF Init
    <2> QED BY <2>1, <2>2, AnswersAssumption DEF BudgetInv, BudgetBounded, Bound
  <1>3. RateInv
    BY DEF Init, RateInv, RateBounded
  <1>4. changes \in 0..MaxChanges
    BY AnswersAssumption DEF Init
  <1> QED BY <1>1, <1>2, <1>3, <1>4, HistoryInit DEF Inv

LEMMA NextStep == Inv /\ [Next]_vars => Inv'
  <1> SUFFICES ASSUME Inv, [Next]_vars PROVE Inv'
    OBVIOUS
  <1>1. RequestsInv'
    <2>1. CASE UNCHANGED <<docs, pc, local>> /\ clock' \in 0..MaxClock
      BY <2>1 DEF Inv, RequestsInv, ReadOK, IsLocal
    <2>2. CASE Tick
      <3>1. clock' \in 0..MaxClock
        BY <2>2, AnswersAssumption DEF Tick, Inv, RequestsInv
      <3> QED BY <2>1, <2>2, <3>1 DEF Tick
    <2>3. CASE Done \/ UNCHANGED vars
      BY <2>1, <2>3 DEF Done, vars, Inv, RequestsInv
    <2> QED BY <2>2, <2>3, RequestStep, ChangeStep DEF Inv, Next
  <1>2. HistoryInv'
    BY ChatsStep, TableStep, KeepsStep, StoredStep, SerialStep, PriorStep DEF Inv, HistoryInv
  <1> QED BY <1>1, <1>2, BudgetStep, RateStep, ChangesStep DEF Inv

LEMMA Invariant == Spec => []Inv
  BY Initially, NextStep, PTL DEF Spec

\* For any capacity and rate, and however the threads that share a bucket
\* interleave, the limiter lets no more requests through than a full bucket and
\* what is refilled between the first and the last of them.
THEOREM RateHolds == Spec => []RateBounded
  <1>1. Inv => RateBounded
    BY DEF Inv, RateInv
  <1> QED BY <1>1, Invariant, PTL

\* For any limit, costs and number of threads, a tenant's day ends at most one
\* generation per thread over its budget, also when requests pass midnight.
THEOREM BudgetHolds == Spec => []BudgetBounded
  <1>1. Inv => BudgetBounded
    BY DEF Inv, BudgetInv
  <1> QED BY <1>1, Invariant, PTL

\* Although the two searches see different snapshots, an answer's evidence was
\* readable for its caller at some time after the request arrived.
THEOREM EvidenceIsFresh == Spec => NoStaleEvidence
  <1>1. ASSUME Inv, [Next]_vars, NEW t \in Threads, pc[t] = "keyword", pc'[t] = "budget"
        PROVE  local'[t].evidence \subseteq local[t].seen
    <2>0. IsLocal(local[t]) /\ ReadOK("keyword", local[t]) /\ pc \in [Threads -> Places]
          /\ local = [u \in Threads |-> local[u]]
      BY <1>1 DEF Inv, RequestsInv
    <2>1. ASSUME NEW u \in Threads, Step(u) PROVE u = t
      BY <1>1, <2>1, RequestStep DEF Inv
    <2>2. Step(t)
      BY <1>1, <2>1 DEF Next, vars, ChangeDocuments, Tick, Done
    <2>3. PICK E \in SUBSET Sources : KeywordSearch(t, E)
      BY <1>1, <2>0, <2>2
         DEF Step, Arrive, Acquire, Refuse, Begin, SemanticSearch, Abort, CheckBudget, ModelAnswers,
             FallbackAnswers, Generate, InsertQuestion, InsertAnswer, Trim, Commit, Rollback, Ends,
             Leave, Goto
    <2>4. E \subseteq local[t].evidence \cup docs /\ docs \subseteq local[t].seen
          /\ local[t].evidence \subseteq local[t].seen
      BY <2>0, <2>3 DEF KeywordSearch, Admitted, Fused, Readable, ReadOK, Searching
    <2>5. E # {}
      BY <1>1, <2>0, <2>3 DEF KeywordSearch, Answered, Leave, Goto
    <2>6. local' = [local EXCEPT ![t].evidence = E, ![t].seen = {}, ![t].prior = <<>>]
      BY <2>3, <2>5 DEF KeywordSearch
    <2>7. local'[t].evidence = E
      <3>1. local'[t] = [[[local[t] EXCEPT !.evidence = E] EXCEPT !.seen = {}] EXCEPT !.prior = <<>>]
        BY <2>0, <2>6
      <3> DEFINE x == [local[t] EXCEPT !.evidence = E]
                 y == [x EXCEPT !.seen = {}]
      <3>2. IsLocal(x) /\ x.evidence = E
        BY <2>0 DEF IsLocal
      <3> HIDE DEF x
      <3>3. IsLocal(y) /\ y.evidence = E
        BY <3>2 DEF IsLocal
      <3>4. local'[t] = [y EXCEPT !.prior = <<>>]
        BY <3>1 DEF x
      <3> HIDE DEF y
      <3> QED BY <3>3, <3>4 DEF IsLocal
    <2> QED BY <2>4, <2>7
  <1>2. Inv /\ [Next]_vars =>
            [\A t \in Threads : pc[t] = "keyword" /\ pc'[t] = "budget" =>
                 local'[t].evidence \subseteq local[t].seen]_vars
    BY <1>1
  <1> QED BY <1>2, Invariant, PTL DEF Spec, NoStaleEvidence

\* Requests, limits and rows keep their types; a row that is not committed has a
\* request that is still writing it, so a request that ends, in whatever way,
\* leaves none behind.
THEOREM TypeCorrect == Spec => []TypeOK
  <1>1. ASSUME Inv PROVE TypeOK
    <2>1. \A i \in DOMAIN rows : rows[i].by # NULL => pc[rows[i].by] \in {"answer", "trim", "commit"}
      BY <1>1 DEF Inv, HistoryInv, TableInv, OwnOK, Writing
    <2>2. ASSUME NEW t \in Threads PROVE local[t] = Idle <=> pc[t] = "idle"
      <3>1. ChatOK(pc[t], local[t]) /\ Idle.number = 0
        BY <1>1, IdleChat DEF Inv, HistoryInv, ChatsInv
      <3>2. 0 \notin 1..MaxRequests
        BY AnswersAssumption
      <3> QED BY <3>1, <3>2 DEF ChatOK
    <2> QED BY <1>1, <2>1, <2>2
            DEF Inv, TypeOK, RequestsInv, BudgetInv, RateInv, HistoryInv, ChatsInv, TableInv
  <1> QED BY <1>1, Invariant, PTL

\* For any number of threads that append to a session at once and any length of
\* the history, a session never stores more than its window and one exchange for
\* every further thread.
THEOREM HistoryIsBounded == Spec => []HistoryBounded
  <1>1. ASSUME Inv PROVE HistoryBounded
    <2>1. StoredInv /\ {} \in SUBSET Committing
      BY <1>1 DEF Inv, HistoryInv
    <2>2. \A s \in Sessions : After(s, {}) = Committed(s)
      BY DEF After, Committed
    <2> QED BY <2>1, <2>2 DEF StoredInv, MostRows, HistoryBounded
  <1> QED BY <1>1, Invariant, PTL

\* However transactions that trim the same session overlap, and in whatever order
\* they commit or fail, a turn goes only when a full window of newer committed
\* turns of its session is stored.
THEOREM TrimIsSafe == Spec => TrimKeepsWindow
  <1> DEFINE Rest(i) == {j \in Newer(DOMAIN rows', i) : /\ rows'[j].session = rows[i].session
                                                        /\ rows'[j].by = NULL}
  <1>1. ASSUME Inv, [Next]_vars, NEW i \in DOMAIN rows, rows[i].by = NULL, i \notin DOMAIN rows'
        PROVE  Cardinality(Rest(i)) >= MaxMessages
    <2>0. RequestsInv /\ ChatsInv /\ TableInv /\ KeepsInv
      BY <1>1 DEF Inv, HistoryInv
    <2>1. ASSUME NEW t \in Threads, Commit(t) PROVE Cardinality(Rest(i)) >= MaxMessages
      <3> DEFINE S == DOMAIN rows \ local[t].doomed
      <3>1. pc[t] = "commit" /\ S \in SUBSET DOMAIN rows /\ Ends(t, S)
        BY <2>1 DEF Commit
      <3>2. /\ DOMAIN rows' = S
            /\ \A j \in S : /\ rows'[j].session = rows[j].session
                            /\ rows'[j].by = (IF rows[j].by = t THEN NULL ELSE rows[j].by)
        BY <2>0, <3>1, Ended
      <3>3. /\ i \in local[t].doomed /\ rows[i].session = local[t].session
            /\ Cardinality(Newer(Kept(t), i)) >= MaxMessages
        BY <1>1, <2>0, <3>1, <3>2 DEF TableInv, KeepsInv, Sees
      <3>4. Newer(Kept(t), i) \subseteq Rest(i)
        BY <3>2, <3>3 DEF Kept, Sees, Newer
      <3>5. ids \in Nat /\ Rest(i) \in SUBSET (1..ids)
        BY <2>0, <3>2 DEF TableInv, Newer
      <3>6. IsFiniteSet(Rest(i))
        BY <3>5, IdsFinite
      <3> HIDE DEF Rest
      <3>7. /\ Cardinality(Newer(Kept(t), i)) <= Cardinality(Rest(i))
            /\ Cardinality(Newer(Kept(t), i)) \in Nat /\ Cardinality(Rest(i)) \in Nat
        BY <3>4, <3>6, Smaller
      <3> QED BY <3>3, <3>7, MostRowsType
    <2>2. ASSUME NEW t \in Threads, Rollback(t) PROVE FALSE
      <3>1. t # NULL /\ DOMAIN rows' = {j \in DOMAIN rows : rows[j].by # t}
        BY <2>2, AnswersAssumption DEF Rollback, Ends
      <3> QED BY <1>1, <3>1
    <2>3. ASSUME NEW t \in Threads, InsertQuestion(t) \/ InsertAnswer(t) PROVE FALSE
      <3>1. DOMAIN rows \subseteq DOMAIN rows'
        BY <2>3 DEF InsertQuestion, InsertAnswer, Insert
      <3> QED BY <1>1, <3>1
    <2>4. ASSUME rows' = rows PROVE FALSE
      BY <1>1, <2>4
    <2>5. CASE Quiet
      BY <2>4, <2>5 DEF Quiet, table
    <2>6. ASSUME NEW t \in Threads, Trim(t) PROVE FALSE
      BY <2>4, <2>6 DEF Trim, table
    <2> QED BY <1>1, <2>0, <2>1, <2>2, <2>3, <2>5, <2>6, StepKinds
  <1>2. Inv /\ [Next]_vars =>
            [\A i \in DOMAIN rows :
                rows[i].by = NULL /\ i \notin DOMAIN rows' =>
                    Cardinality({j \in Newer(DOMAIN rows', i) : rows'[j].session = rows[i].session
                                                               /\ rows'[j].by = NULL}) >= MaxMessages]_rows
    BY <1>1
  <1> QED BY <1>2, Invariant, PTL DEF Spec, TrimKeepsWindow

\* Whatever was declined, trimmed or rolled back before, however many exchanges
\* the window holds and wherever the gateway's budget cuts them, the model sees
\* no unanswered question of a client that waits for its answers, and at most
\* its first turn is an answer without the question.
THEOREM PriorAnswered == Spec => []PriorIsAnswered
  <1>1. ASSUME Inv PROVE PriorIsAnswered
    BY <1>1 DEF Inv, HistoryInv, PriorInv, Paired, PriorIsAnswered
  <1> QED BY <1>1, Invariant, PTL

LEMMA StoreStep ==
    ASSUME RequestsInv, ChatsInv, TableInv, SerialInv, [Next]_vars, NEW s \in Serial,
           Window(s)' # Window(s)
    PROVE  /\ \A r \in Serial : r # s => Window(r)' = Window(r)
           /\ \E x \in {Exchange(i, d) : i \in 1..MaxRequests, d \in BOOLEAN} :
                  Window(s)' = Store!Newest(Window(s) \o x, MaxMessages)
  <1>1. PICK t \in Threads :
            /\ Commit(t) /\ local[t].session = s
            /\ local[t].number \in 1..MaxRequests /\ local[t].declined \in BOOLEAN
            /\ Window(s)' = Store!Newest(Window(s) \o <<Question(local[t]), Reply(local[t])>>, MaxMessages)
    BY WindowStep
  <1>2. Exchange(local[t].number, local[t].declined) = <<Question(local[t]), Reply(local[t])>>
    BY DEF Exchange, Question, Reply
  <1>3. ASSUME NEW r \in Serial, r # s PROVE Window(r)' = Window(r)
    <2>1. ASSUME NEW u \in Threads, Commit(u), local[u].session = r PROVE FALSE
      <3>1. pc[t] = "commit" /\ pc[u] = "commit" /\ u # t
        BY <1>1, <1>3, <2>1 DEF Commit
      <3>2. pc'[u] = "idle"
        BY <2>1 DEF Commit, Ends, Leave, Goto, RequestsInv
      <3>3. pc'[u] = pc[u]
        BY <1>1, <3>1, RequestStep DEF Step
      <3> QED BY <3>1, <3>2, <3>3
    <2>2. Window(r)' = Window(r) \/ \E u \in Threads : Commit(u) /\ local[u].session = r
      BY WindowStep
    <2> QED BY <2>1, <2>2
  <1> QED BY <1>1, <1>2, <1>3

\* Of a session whose client waits, the rows in the table and what get returns
\* of them are a ChatHistoryStore, step by step: an exchange is added whole when
\* its transaction commits and never otherwise, and the same turns are kept.
THEOREM ImplementsStore == Spec => ImplementsHistoryStore
  <1> DEFINE messages == [s \in Serial |-> Window(s)]
  <1>1. Init => Store!Init
    <2> SUFFICES ASSUME Init PROVE messages = [s \in Serial |-> <<>>]
      BY DEF Store!Init
    <2>1. \A s \in Serial : Window(s) = <<>>
      BY WindowInit
    <2> QED BY <2>1
  <1>2. Inv /\ [Next]_vars => [Store!Next]_messages
    <2> SUFFICES ASSUME Inv, [Next]_vars, messages' # messages PROVE Store!Next
      OBVIOUS
    <2>1. PICK s \in Serial : Window(s)' # Window(s)
      OBVIOUS
    <2>2. /\ \A r \in Serial : r # s => Window(r)' = Window(r)
          /\ \E x \in {Exchange(i, d) : i \in 1..MaxRequests, d \in BOOLEAN} :
                 Window(s)' = Store!Newest(Window(s) \o x, MaxMessages)
      <3>1. RequestsInv /\ ChatsInv /\ TableInv /\ SerialInv
        BY DEF Inv, HistoryInv
      <3> QED BY ONLY <2>1, <3>1, [Next]_vars, StoreStep
    <2>3. PICK x \in {Exchange(i, d) : i \in 1..MaxRequests, d \in BOOLEAN} :
              Window(s)' = Store!Newest(Window(s) \o x, MaxMessages)
      BY <2>2
    <2>4. messages' = [messages EXCEPT ![s] = Store!Newest(Window(s) \o x, MaxMessages)]
      <3>1. PICK w : w = Store!Newest(Window(s) \o x, MaxMessages)
        OBVIOUS
      <3>2. \A r \in Serial : messages'[r] = IF r = s THEN w ELSE messages[r]
        BY <2>2, <2>3, <3>1
      <3>3. messages' = [r \in Serial |-> messages'[r]] /\ messages = [r \in Serial |-> messages[r]]
        OBVIOUS
      <3> HIDE DEF messages
      <3> QED BY ONLY <3>1, <3>2, <3>3
    <2>5. messages[s] = Window(s)
      OBVIOUS
    <2>6. Store!Add(s, x)
      BY <2>4, <2>5 DEF Store!Add
    <2> QED BY <2>6 DEF Store!Next
  <1> QED BY <1>1, <1>2, Invariant, PTL DEF Spec, ImplementsHistoryStore, Store!Spec

=============================================================================
