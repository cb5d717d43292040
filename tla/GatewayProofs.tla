--------------------------- MODULE GatewayProofs ---------------------------
(***************************************************************************)
(* Proofs about the model gateway and its circuit breakers, for any number  *)
(* of requests, any chain of providers and any threshold, cool-down,        *)
(* deadline and set of delays.                                              *)
(***************************************************************************)
EXTENDS Gateway, TLAPS

\* A retry is only decided on while attempts are left.
AttemptsLeft ==
    \A r \in Requests : pc[r] \in {"retry", "sleep"} => attempt[r] < MaxAttempts

IInv == TypeOK /\ ClosedBelowThreshold /\ TrialHasRequest /\ RetryBeforeDeadline /\ AttemptsLeft

-----------------------------------------------------------------------------
(* The breaker's methods, one fact each.                                   *)

\* A request between "next" and its return is at a provider of the chain.
LEMMA NameInNames ==
    ASSUME TypeOK, NEW r \in Requests, index[r] <= Len(Chain)
    PROVE  Name(r) \in Names
  <1>1. index[r] \in 1..Len(Chain)
    BY GatewayAssumption DEF TypeOK
  <1> QED BY <1>1, GatewayAssumption DEF Name

\* allow only ever sets the flag of a half-open breaker.
LEMMA AllowFacts ==
    ASSUME TypeOK, NEW p \in Names, NEW r \in Requests, Allow(p, r)
    PROVE  /\ trial_in_flight \subseteq trial_in_flight' 
           /\ trial_in_flight' \subseteq trial_in_flight \cup {p}
           /\ p \in trial_in_flight' => State(p) = "half-open" \/ p \in trial_in_flight
           /\ testing' \subseteq Requests /\ testing \subseteq testing'
           /\ p \in trial_in_flight \/ p \notin trial_in_flight' \/ r \in testing'
           /\ UNCHANGED <<failures, opened_age>>
  BY DEF TypeOK, Allow

\* record_success and record_failure clear the flag of their breaker, touch no
\* other breaker, and keep "open" and "threshold reached" the same thing.
LEMMA RecordFacts ==
    ASSUME TypeOK, ClosedBelowThreshold, NEW p \in Names,
           RecordSuccess(p) \/ RecordFailure(p)
    PROVE  /\ failures' \in [Names -> 0..FailureThreshold]
           /\ opened_age' \in [Names -> (0..ResetAfter) \cup {NULL}]
           /\ trial_in_flight' = trial_in_flight \ {p}
           /\ \A q \in Names \ {p} : /\ failures'[q] = failures[q]
                                     /\ opened_age'[q] = opened_age[q]
           /\ opened_age'[p] = NULL <=> failures'[p] < FailureThreshold
  <1>1. CASE RecordSuccess(p)
    BY <1>1, GatewayAssumption DEF TypeOK, RecordSuccess
  <1>2. CASE RecordFailure(p)
    <2> DEFINE n == IF failures[p] < FailureThreshold THEN failures[p] + 1
                    ELSE failures[p]
    <2>1. /\ n \in 0..FailureThreshold
          /\ failures[p] \in 0..FailureThreshold
          /\ opened_age[p] # NULL <=> failures[p] = FailureThreshold
      BY GatewayAssumption DEF TypeOK, ClosedBelowThreshold
    <2>2. /\ failures' = [failures EXCEPT ![p] = n]
          /\ trial_in_flight' = trial_in_flight \ {p}
          /\ opened_age' = IF opened_age[p] # NULL \/ n >= FailureThreshold
                           THEN [opened_age EXCEPT ![p] = 0]
                           ELSE opened_age
      BY <1>2 DEF RecordFailure
    <2>3. CASE opened_age[p] # NULL \/ n >= FailureThreshold
      <3>1. n = FailureThreshold
        BY <2>1, <2>3, GatewayAssumption
      <3> QED BY <2>1, <2>2, <2>3, <3>1, GatewayAssumption DEF TypeOK
    <2>4. CASE ~(opened_age[p] # NULL \/ n >= FailureThreshold)
      BY <2>1, <2>2, <2>4, GatewayAssumption DEF TypeOK
    <2> QED BY <2>3, <2>4
  <1> QED BY <1>1, <1>2

\* Going on to the next provider, and returning, leave the request well typed.
LEMMA MoveFacts ==
    ASSUME TypeOK, NEW r \in Requests,
           (NextProvider(r) /\ index[r] <= Len(Chain)) \/ Return(r)
    PROVE  /\ pc' \in [Requests -> {"idle", "next", "call", "answered", "failed",
                                    "rejected", "retry", "sleep"}]
           /\ index' \in [Requests -> 1..(Len(Chain) + 1)]
           /\ attempt' \in [Requests -> 1..MaxAttempts]
           /\ left' \in [Requests -> 0..Deadline]
           /\ pc'[r] \in {"idle", "next"}
           /\ \A s \in Requests \ {r} : /\ pc'[s] = pc[s] /\ index'[s] = index[s]
                                        /\ left'[s] = left[s] /\ attempt'[s] = attempt[s]
  <1>1. Len(Chain) \in Nat /\ MaxAttempts \in Nat \ {0} /\ Deadline \in Nat
    BY GatewayAssumption
  <1>2. index[r] \in 1..(Len(Chain) + 1)
    BY DEF TypeOK
  <1>3. CASE NextProvider(r) /\ index[r] <= Len(Chain)
    <2>1. index[r] + 1 \in 1..(Len(Chain) + 1)
      BY <1>1, <1>2, <1>3
    <2> QED BY <1>1, <1>3, <2>1 DEF NextProvider, TypeOK
  <1>4. CASE Return(r)
    BY <1>1, <1>4 DEF Return, TypeOK
  <1> QED BY <1>3, <1>4

\* A step that leaves the breakers and every request in flight alone leaves the
\* trials with their requests.
LEMMA TrialKept ==
    ASSUME TypeOK, TrialHasRequest, UNCHANGED <<opened_age, trial_in_flight, testing>>,
           \A s \in Requests : InFlight(s) => InFlight(s)' /\ Name(s)' = Name(s)
    PROVE  TrialHasRequest'
  <1>1. \A p \in trial_in_flight' : State(p)' = State(p)
    BY DEF State
  <1> QED BY <1>1 DEF TrialHasRequest, TypeOK

-----------------------------------------------------------------------------
(* One step.                                                               *)

\* Every step of a request, a provider or the clock preserves the invariant.
LEMMA InvStep == IInv /\ [Next]_vars => IInv'
  <1> SUFFICES ASSUME IInv, [Next]_vars PROVE IInv'
    OBVIOUS
  <1>0. TypeOK /\ ClosedBelowThreshold /\ TrialHasRequest /\ RetryBeforeDeadline /\ AttemptsLeft
    BY DEF IInv
  <1>c. Len(Chain) \in Nat
    BY GatewayAssumption
  <1>1. ASSUME NEW r \in Requests, Begin(r) PROVE IInv'
    <2>1. TypeOK'
      BY <1>0, <1>1, GatewayAssumption DEF TypeOK, Begin, breakers
    <2>2. ClosedBelowThreshold' /\ RetryBeforeDeadline' /\ AttemptsLeft'
      BY <1>0, <1>1 DEF TypeOK, Begin, breakers, ClosedBelowThreshold, RetryBeforeDeadline, AttemptsLeft
    <2>3. TrialHasRequest'
      BY <1>0, <1>1, TrialKept DEF TypeOK, Begin, breakers, InFlight, Name
    <2> QED BY <2>1, <2>2, <2>3 DEF IInv
  <1>2. ASSUME NEW r \in Requests, Try(r) \/ Sleep(r) PROVE IInv'
    <2>1. /\ Allow(Name(r), r) /\ ~InFlight(r) /\ index[r] <= Len(Chain)
          /\ UNCHANGED <<up, index, attempt, left>>
          /\ \/ pc' = [pc EXCEPT ![r] = "call"] /\ delay' = delay
             \/ /\ pc[r] = "retry" /\ pc' = [pc EXCEPT ![r] = "sleep"]
                /\ \E d \in Nat : d < left[r] /\ delay' = [delay EXCEPT ![r] = d]
      BY <1>0, <1>2, GatewayAssumption DEF Try, Sleep, InFlight, TypeOK
    <2>2. Name(r) \in Names
      BY <1>0, <2>1, NameInNames
    <2>3. /\ trial_in_flight' \subseteq trial_in_flight \cup {Name(r)}
          /\ Name(r) \in trial_in_flight' =>
                 State(Name(r)) = "half-open" \/ Name(r) \in trial_in_flight
          /\ testing' \subseteq Requests /\ testing \subseteq testing'
          /\ Name(r) \in trial_in_flight \/ Name(r) \notin trial_in_flight' \/ r \in testing'
          /\ UNCHANGED <<failures, opened_age>>
      BY <1>0, <2>1, <2>2, AllowFacts
    <2>4. TypeOK'
      BY <1>0, <2>1, <2>2, <2>3 DEF TypeOK
    <2>5. ClosedBelowThreshold' /\ AttemptsLeft'
      BY <1>0, <2>1, <2>3 DEF ClosedBelowThreshold, AttemptsLeft, TypeOK
    <2>6. RetryBeforeDeadline'
      BY <1>0, <2>1 DEF RetryBeforeDeadline, TypeOK
    <2>7. /\ InFlight(r)' /\ Name(r)' = Name(r)
          /\ \A s \in Requests : InFlight(s) => InFlight(s)' /\ Name(s)' = Name(s)
      BY <1>0, <2>1 DEF InFlight, Name, TypeOK
    <2>8. \A p \in trial_in_flight' : State(p) = "half-open" /\ State(p)' = State(p)
      BY <1>0, <2>3 DEF TrialHasRequest, State
    <2>9. TrialHasRequest'
      BY <1>0, <2>2, <2>3, <2>7, <2>8 DEF TrialHasRequest, TypeOK
    <2> QED BY <2>4, <2>5, <2>6, <2>9 DEF IInv
  <1>3. ASSUME NEW r \in Requests, Skip(r) \/ Fallback(r) \/ GiveUp(r) PROVE IInv'
    <2>1. /\ UNCHANGED <<failures, opened_age, trial_in_flight, up, delay, testing>>
          /\ ~InFlight(r)
          /\ (NextProvider(r) /\ index[r] <= Len(Chain)) \/ Return(r)
      BY <1>0, <1>3 DEF Skip, Fallback, GiveUp, breakers, InFlight, TypeOK
    <2>2. /\ pc' \in [Requests -> {"idle", "next", "call", "answered", "failed",
                                   "rejected", "retry", "sleep"}]
          /\ index' \in [Requests -> 1..(Len(Chain) + 1)]
          /\ attempt' \in [Requests -> 1..MaxAttempts]
          /\ left' \in [Requests -> 0..Deadline]
          /\ pc'[r] \in {"idle", "next"}
          /\ \A s \in Requests \ {r} : /\ pc'[s] = pc[s] /\ index'[s] = index[s]
                                       /\ left'[s] = left[s] /\ attempt'[s] = attempt[s]
      BY <1>0, <2>1, MoveFacts
    <2>3. TypeOK'
      BY <1>0, <2>1, <2>2 DEF TypeOK
    <2>4. ClosedBelowThreshold' /\ RetryBeforeDeadline' /\ AttemptsLeft'
      BY <1>0, <2>1, <2>2 DEF ClosedBelowThreshold, RetryBeforeDeadline, AttemptsLeft
    <2>5. TrialHasRequest'
      BY <1>0, <2>1, <2>2, TrialKept DEF InFlight, Name
    <2> QED BY <2>3, <2>4, <2>5 DEF IInv
  <1>4. ASSUME NEW r \in Requests, Answer(r) PROVE IInv'
    <2>1. /\ UNCHANGED <<failures, opened_age, trial_in_flight, up, index, attempt, left,
                         delay, testing>>
          /\ pc[r] = "call"
          /\ \E a \in {"answered", "failed", "rejected"} : pc' = [pc EXCEPT ![r] = a]
      BY <1>4 DEF Answer, breakers
    <2>2. TypeOK' /\ ClosedBelowThreshold' /\ RetryBeforeDeadline' /\ AttemptsLeft'
      BY <1>0, <2>1 DEF TypeOK, ClosedBelowThreshold, RetryBeforeDeadline, AttemptsLeft
    <2>3. TrialHasRequest'
      BY <1>0, <2>1, TrialKept DEF TypeOK, InFlight, Name
    <2> QED BY <2>2, <2>3 DEF IInv
  <1>5. ASSUME NEW r \in Requests, Succeed(r) \/ Fail(r) PROVE IInv'
    <2>1. /\ RecordSuccess(Name(r)) \/ RecordFailure(Name(r))
          /\ index[r] <= Len(Chain)
          /\ UNCHANGED <<up, delay>> /\ testing' = testing \ {r}
          /\ \/ (NextProvider(r) /\ index[r] <= Len(Chain)) \/ Return(r)
             \/ /\ pc' = [pc EXCEPT ![r] = "retry"] /\ UNCHANGED <<index, attempt, left>>
                /\ attempt[r] # MaxAttempts
      BY <1>0, <1>5 DEF Succeed, Fail, TypeOK
    <2>2. Name(r) \in Names
      BY <1>0, <2>1, NameInNames
    <2>3. /\ failures' \in [Names -> 0..FailureThreshold]
          /\ opened_age' \in [Names -> (0..ResetAfter) \cup {NULL}]
          /\ trial_in_flight' = trial_in_flight \ {Name(r)}
          /\ \A q \in Names \ {Name(r)} : /\ failures'[q] = failures[q]
                                          /\ opened_age'[q] = opened_age[q]
          /\ opened_age'[Name(r)] = NULL <=> failures'[Name(r)] < FailureThreshold
      BY <1>0, <2>1, <2>2, RecordFacts
    <2>4. /\ pc' \in [Requests -> {"idle", "next", "call", "answered", "failed",
                                   "rejected", "retry", "sleep"}]
          /\ index' \in [Requests -> 1..(Len(Chain) + 1)]
          /\ attempt' \in [Requests -> 1..MaxAttempts]
          /\ left' \in [Requests -> 0..Deadline]
          /\ \/ pc'[r] \in {"idle", "next"}
             \/ pc'[r] = "retry" /\ attempt'[r] # MaxAttempts /\ index'[r] <= Len(Chain)
          /\ \A s \in Requests \ {r} : /\ pc'[s] = pc[s] /\ index'[s] = index[s]
                                       /\ left'[s] = left[s] /\ attempt'[s] = attempt[s]
      <3>1. CASE (NextProvider(r) /\ index[r] <= Len(Chain)) \/ Return(r)
        BY <1>0, <3>1, MoveFacts
      <3>2. CASE pc' = [pc EXCEPT ![r] = "retry"] /\ UNCHANGED <<index, attempt, left>>
                 /\ attempt[r] # MaxAttempts
        BY <1>0, <2>1, <3>2 DEF TypeOK
      <3> QED BY <2>1, <3>1, <3>2
    <2>5. TypeOK'
      BY <1>0, <2>1, <2>3, <2>4 DEF TypeOK
    <2>6. ClosedBelowThreshold'
      BY <1>0, <2>2, <2>3 DEF ClosedBelowThreshold
    <2>7. RetryBeforeDeadline'
      BY <1>0, <2>1, <2>4 DEF RetryBeforeDeadline
    <2>8. AttemptsLeft'
      <3>1. attempt'[r] \in 1..MaxAttempts /\ MaxAttempts \in Nat
        BY <2>4, GatewayAssumption
      <3>2. pc'[r] \in {"retry", "sleep"} => attempt'[r] < MaxAttempts
        BY <2>4, <3>1
      <3> QED BY <1>0, <2>4, <3>2 DEF AttemptsLeft
    <2>9. \A s \in Requests : InFlight(s) /\ Name(s) # Name(r) =>
                                  InFlight(s)' /\ Name(s)' = Name(s)
      BY <2>4 DEF InFlight, Name
    <2>10. \A p \in trial_in_flight' : State(p)' = State(p) /\ p # Name(r)
      BY <1>0, <2>3 DEF State, TypeOK
    <2>11. TrialHasRequest'
      BY <1>0, <2>1, <2>3, <2>9, <2>10 DEF TrialHasRequest, TypeOK
    <2> QED BY <2>5, <2>6, <2>7, <2>8, <2>11 DEF IInv
  <1>6. ASSUME NEW r \in Requests, Wake(r) PROVE IInv'
    <2>1. /\ UNCHANGED <<failures, opened_age, trial_in_flight, up, index, left, delay,
                         testing>>
          /\ pc[r] = "sleep" /\ pc' = [pc EXCEPT ![r] = "call"]
          /\ attempt' = [attempt EXCEPT ![r] = attempt[r] + 1]
      BY <1>6 DEF Wake, breakers
    <2>2. attempt[r] + 1 \in 1..MaxAttempts
      BY <1>0, <2>1, GatewayAssumption DEF AttemptsLeft, TypeOK
    <2>3. TypeOK'
      BY <1>0, <2>1, <2>2 DEF TypeOK
    <2>4. ClosedBelowThreshold' /\ RetryBeforeDeadline' /\ AttemptsLeft'
      BY <1>0, <2>1 DEF ClosedBelowThreshold, RetryBeforeDeadline, AttemptsLeft, TypeOK
    <2>5. TrialHasRequest'
      BY <1>0, <2>1, TrialKept DEF TypeOK, InFlight, Name
    <2> QED BY <2>3, <2>4, <2>5 DEF IInv
  <1>7. ASSUME NEW p \in Names, Outage(p) \/ Recovery(p) PROVE IInv'
    <2>1. /\ UNCHANGED <<failures, opened_age, trial_in_flight, pc, index, attempt, left,
                         delay, testing>>
          /\ up' \subseteq Names
      BY <1>0, <1>7 DEF Outage, Recovery, breakers, TypeOK
    <2>2. TypeOK' /\ ClosedBelowThreshold' /\ RetryBeforeDeadline' /\ AttemptsLeft'
      BY <1>0, <2>1 DEF TypeOK, ClosedBelowThreshold, RetryBeforeDeadline, AttemptsLeft
    <2>3. TrialHasRequest'
      BY <1>0, <2>1, TrialKept DEF InFlight, Name
    <2> QED BY <2>2, <2>3 DEF IInv
  <1>8. CASE Tick
    <2>1. /\ \A p \in Names : State(p) = "open" =>
                 opened_age[p] # NULL /\ opened_age[p] + 1 \in 0..ResetAfter
          /\ \A p \in Names : State(p) # "open" => opened_age'[p] = opened_age[p]
      BY <1>0, <1>8, GatewayAssumption DEF Tick, State, TypeOK
    <2>2. opened_age' \in [Names -> (0..ResetAfter) \cup {NULL}]
      BY <1>0, <1>8, <2>1 DEF Tick, TypeOK
    <2>3. /\ left' \in [Requests -> 0..Deadline] /\ delay' \in [Requests -> Nat]
      BY <1>0, <1>8, GatewayAssumption DEF Tick, TypeOK
    <2>4. TypeOK'
      BY <1>0, <1>8, <2>2, <2>3 DEF Tick, TypeOK
    <2>5. ClosedBelowThreshold'
      BY <1>0, <1>8, <2>1, GatewayAssumption DEF Tick, TypeOK, ClosedBelowThreshold
    <2>6. RetryBeforeDeadline' /\ AttemptsLeft'
      BY <1>0, <1>8, GatewayAssumption DEF Tick, TypeOK, RetryBeforeDeadline, AttemptsLeft
    <2>7. \A p \in trial_in_flight' : p \in trial_in_flight /\ State(p)' = "half-open"
      BY <1>0, <1>8, <2>1 DEF Tick, TypeOK, TrialHasRequest, State
    <2>8. TrialHasRequest'
      BY <1>0, <1>8, <2>7 DEF Tick, TrialHasRequest, InFlight, Name, TypeOK
    <2> QED BY <2>4, <2>5, <2>6, <2>8 DEF IInv
  <1>9. CASE UNCHANGED vars
    <2>1. TypeOK' /\ ClosedBelowThreshold' /\ RetryBeforeDeadline' /\ AttemptsLeft'
      BY <1>0, <1>9 DEF vars, TypeOK, ClosedBelowThreshold, RetryBeforeDeadline, AttemptsLeft
    <2>2. TrialHasRequest'
      BY <1>0, <1>9, TrialKept DEF vars, InFlight, Name
    <2> QED BY <2>1, <2>2 DEF IInv
  <1> QED BY <1>1, <1>2, <1>3, <1>4, <1>5, <1>6, <1>7, <1>8, <1>9 DEF Next

LEMMA Invariant == Spec => []IInv
  <1>1. Init => IInv
    BY GatewayAssumption
       DEF Init, IInv, TypeOK, ClosedBelowThreshold, TrialHasRequest, RetryBeforeDeadline, AttemptsLeft
  <1> QED BY <1>1, InvStep, PTL DEF Spec

-----------------------------------------------------------------------------
(* Theorems.                                                               *)

\* Breakers and requests keep their types: no request makes more than
\* max_attempts calls to a provider or runs off the end of the chain.
THEOREM TypeCorrect == Spec => []TypeOK
  <1>1. IInv => TypeOK
    BY DEF IInv
  <1> QED BY <1>1, Invariant, PTL

\* However requests interleave, a breaker is open or half-open exactly when
\* failure_threshold failures have been recorded since the last success.
THEOREM BreakerMatchesCount == Spec => []ClosedBelowThreshold
  <1>1. IInv => ClosedBelowThreshold
    BY DEF IInv
  <1> QED BY <1>1, Invariant, PTL

\* A breaker never waits for a trial that nobody is making.
THEOREM NoStuckTrial == Spec => []TrialHasRequest
  <1>1. IInv => TrialHasRequest
    BY DEF IInv
  <1> QED BY <1>1, Invariant, PTL

\* _attempt goes to sleep for no retry that is due at or after the deadline, and
\* the clock, which takes from both at the same rate, keeps it so.
THEOREM RetriesDueInTime == Spec => []RetryBeforeDeadline
  <1>1. IInv => RetryBeforeDeadline
    BY DEF IInv
  <1> QED BY <1>1, Invariant, PTL

=============================================================================
