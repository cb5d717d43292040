------------------------------ MODULE Gateway ------------------------------
(***************************************************************************)
(* The model gateway, gateway.py: requests that try a chain of providers    *)
(* with retries and a deadline (GatewayProvider.complete and _attempt), and *)
(* the circuit breaker that all requests to one provider name share         *)
(* (CircuitBreaker).                                                        *)
(*                                                                          *)
(* Every request runs on a thread of its own.  A breaker's methods are      *)
(* atomic (they hold its lock); everything between two of them - the call   *)
(* to the provider, the sleep before a retry, the decision to retry - is    *)
(* not, so other requests run in between.                                   *)
(*                                                                          *)
(* Times are kept as differences, each up to the value beyond which the     *)
(* code makes no distinction: how long ago a breaker opened (up to          *)
(* reset_after) and how long a request has left until its deadline (down    *)
(* to 0).  The failure counter stops at the threshold for the same reason.  *)
(***************************************************************************)
EXTENDS Naturals, Sequences

CONSTANTS
    Requests,          \* the threads that ask the gateway for an answer
    Names,             \* the providers' names: the keys of self.breakers
    Chain,             \* self.providers, by name, in the order they are tried
    FailureThreshold,  \* failure_threshold: 5
    ResetAfter,        \* reset_after: 30 seconds
    MaxAttempts,       \* max_attempts: 3
    Deadline,          \* deadline: 45 seconds
    Delays,            \* the delays before a retry: jitter, or Retry-After
    NULL               \* Python's None

ASSUME GatewayAssumption == /\ Chain \in Seq(Names)
                            /\ FailureThreshold \in Nat \ {0}
                            /\ ResetAfter \in Nat \ {0}
                            /\ MaxAttempts \in Nat \ {0}
                            /\ Deadline \in Nat
                            /\ Delays \subseteq Nat
                            /\ NULL \notin Nat

VARIABLES
    failures,         \* _failures of each breaker, up to FailureThreshold
    opened_age,       \* the time since _opened_at, up to ResetAfter; or NULL
    trial_in_flight,  \* the breakers whose _trial_in_flight is set
    up,               \* the providers that answer now (external)
    pc,               \* where each request is
    index,            \* which provider of the chain it is at
    attempt,          \* the attempt it makes there
    left,             \* the time left until its deadline
    delay,            \* what is left of its sleep
    testing           \* the requests that a half-open breaker let through

breakers == <<failures, opened_age, trial_in_flight>>
vars == <<failures, opened_age, trial_in_flight, up, pc, index, attempt, left, delay,
          testing>>

Name(r) == Chain[index[r]]

\* The request has been let through to the provider and has not yet told the
\* breaker how it went.
InFlight(r) == pc[r] \in {"call", "answered", "failed", "rejected", "sleep"}

-----------------------------------------------------------------------------
(* CircuitBreaker.                                                         *)

\* _state.
State(p) == IF opened_age[p] = NULL THEN "closed"
            ELSE IF opened_age[p] >= ResetAfter THEN "half-open"
            ELSE "open"

\* allow: whether the request may pass, ...
Allowed(p) == \/ State(p) = "closed"
              \/ State(p) = "half-open" /\ p \notin trial_in_flight

\* ... and what letting request r pass changes.
Allow(p, r) ==
    /\ Allowed(p)
    /\ trial_in_flight' = IF State(p) = "half-open" THEN trial_in_flight \cup {p}
                          ELSE trial_in_flight
    /\ testing' = IF State(p) = "half-open" THEN testing \cup {r} ELSE testing
    /\ UNCHANGED <<failures, opened_age>>

\* Mutant: a success does not reset the counter.
RecordSuccess_KeepCount(p) ==
    /\ opened_age' = [opened_age EXCEPT ![p] = NULL]
    /\ trial_in_flight' = trial_in_flight \ {p}
    /\ UNCHANGED failures

\* record_success.
RecordSuccess(p) ==
    /\ failures' = [failures EXCEPT ![p] = 0]
    /\ opened_age' = [opened_age EXCEPT ![p] = NULL]
    /\ trial_in_flight' = trial_in_flight \ {p}

\* Mutant: a failed trial is not taken back.
RecordFailure_KeepTrial(p) ==
    LET n == IF failures[p] < FailureThreshold THEN failures[p] + 1 ELSE failures[p]
    IN  /\ failures' = [failures EXCEPT ![p] = n]
        /\ opened_age' = IF opened_age[p] # NULL \/ n >= FailureThreshold
                         THEN [opened_age EXCEPT ![p] = 0]
                         ELSE opened_age
        /\ UNCHANGED trial_in_flight

\* record_failure.
RecordFailure(p) ==
    LET n == IF failures[p] < FailureThreshold THEN failures[p] + 1 ELSE failures[p]
    IN  /\ failures' = [failures EXCEPT ![p] = n]
        /\ trial_in_flight' = trial_in_flight \ {p}
        /\ opened_age' = IF opened_age[p] # NULL \/ n >= FailureThreshold
                         THEN [opened_age EXCEPT ![p] = 0]
                         ELSE opened_age

-----------------------------------------------------------------------------
(* A request.                                                              *)

Init == /\ failures = [p \in Names |-> 0]
        /\ opened_age = [p \in Names |-> NULL]
        /\ trial_in_flight = {}
        /\ up = Names
        /\ pc = [r \in Requests |-> "idle"]
        /\ index = [r \in Requests |-> 1]
        /\ attempt = [r \in Requests |-> 1]
        /\ left = [r \in Requests |-> 0]
        /\ delay = [r \in Requests |-> 0]
        /\ testing = {}

\* complete starts: the deadline is fixed and the first provider is next.
Begin(r) ==
    /\ pc[r] = "idle"
    /\ pc' = [pc EXCEPT ![r] = "next"]
    /\ left' = [left EXCEPT ![r] = Deadline]
    /\ UNCHANGED <<breakers, up, index, attempt, delay, testing>>

\* The request has its answer; its local variables are gone.
Return(r) ==
    /\ pc' = [pc EXCEPT ![r] = "idle"]
    /\ index' = [index EXCEPT ![r] = 1]
    /\ attempt' = [attempt EXCEPT ![r] = 1]
    /\ left' = [left EXCEPT ![r] = 0]

\* The loop of complete goes on to the next provider.
NextProvider(r) ==
    /\ pc' = [pc EXCEPT ![r] = "next"]
    /\ index' = [index EXCEPT ![r] = @ + 1]
    /\ attempt' = [attempt EXCEPT ![r] = 1]
    /\ UNCHANGED left

\* The breaker lets the request through: _attempt makes its first call.
Try(r) ==
    /\ pc[r] = "next"
    /\ index[r] <= Len(Chain)
    /\ Allow(Name(r), r)
    /\ pc' = [pc EXCEPT ![r] = "call"]
    /\ UNCHANGED <<up, index, attempt, left, delay>>

\* The breaker does not: the provider is skipped.
Skip(r) ==
    /\ pc[r] = "next"
    /\ index[r] <= Len(Chain)
    /\ ~Allowed(Name(r))
    /\ NextProvider(r)
    /\ UNCHANGED <<breakers, up, delay, testing>>

\* Every provider failed: the extractive answer, which cannot fail.
Fallback(r) ==
    /\ pc[r] = "next"
    /\ index[r] > Len(Chain)
    /\ Return(r)
    /\ UNCHANGED <<breakers, up, delay, testing>>

\* The provider answers, or the call ends with a retryable exception or another.
Answer(r) ==
    /\ pc[r] = "call"
    /\ \E a \in IF Name(r) \in up THEN {"answered"} ELSE {"failed", "rejected"} :
           pc' = [pc EXCEPT ![r] = a]
    /\ UNCHANGED <<breakers, up, index, attempt, left, delay, testing>>

\* The else branch of _attempt.
Succeed(r) ==
    /\ pc[r] = "answered"
    /\ RecordSuccess(Name(r))
    /\ Return(r)
    /\ testing' = testing \ {r}
    /\ UNCHANGED <<up, delay>>

\* Mutant: the last attempt is retried as well.
Fail_OneMore(r) ==
    /\ pc[r] \in {"failed", "rejected"}
    /\ RecordFailure(Name(r))
    /\ testing' = testing \ {r}
    /\ IF pc[r] = "rejected"
       THEN NextProvider(r)
       ELSE pc' = [pc EXCEPT ![r] = "retry"] /\ UNCHANGED <<index, attempt, left>>
    /\ UNCHANGED <<up, delay>>

\* The except branch, up to the return for an exception that is not retryable
\* or was the last attempt's.
Fail(r) ==
    /\ pc[r] \in {"failed", "rejected"}
    /\ RecordFailure(Name(r))
    /\ testing' = testing \ {r}
    /\ IF pc[r] = "rejected" \/ attempt[r] = MaxAttempts
       THEN NextProvider(r)
       ELSE pc' = [pc EXCEPT ![r] = "retry"] /\ UNCHANGED <<index, attempt, left>>
    /\ UNCHANGED <<up, delay>>

\* Mutant: the delay may end exactly at the deadline.
Sleep_AtDeadline(r) ==
    /\ pc[r] = "retry"
    /\ \E d \in Delays :
           /\ d <= left[r]
           /\ delay' = [delay EXCEPT ![r] = d]
    /\ Allow(Name(r), r)
    /\ pc' = [pc EXCEPT ![r] = "sleep"]
    /\ UNCHANGED <<up, index, attempt, left>>

\* The delay fits before the deadline and the breaker allows the retry: sleep.
Sleep(r) ==
    /\ pc[r] = "retry"
    /\ \E d \in Delays :
           /\ d < left[r]
           /\ delay' = [delay EXCEPT ![r] = d]
    /\ Allow(Name(r), r)
    /\ pc' = [pc EXCEPT ![r] = "sleep"]
    /\ UNCHANGED <<up, index, attempt, left>>

\* Mutant: a request whose delay does not fit starts over with this provider.
GiveUp_SameProvider(r) ==
    /\ pc[r] = "retry"
    /\ (\E d \in Delays : d >= left[r]) \/ ~Allowed(Name(r))
    /\ pc' = [pc EXCEPT ![r] = "next"]
    /\ attempt' = [attempt EXCEPT ![r] = 1]
    /\ UNCHANGED <<breakers, up, index, left, delay, testing>>

\* The delay does not fit, or the breaker refuses.
GiveUp(r) ==
    /\ pc[r] = "retry"
    /\ (\E d \in Delays : d >= left[r]) \/ ~Allowed(Name(r))
    /\ NextProvider(r)
    /\ UNCHANGED <<breakers, up, delay, testing>>

\* The sleep is over: the next attempt's call, without another look at the breaker.
Wake(r) ==
    /\ pc[r] = "sleep"
    /\ delay[r] = 0
    /\ pc' = [pc EXCEPT ![r] = "call"]
    /\ attempt' = [attempt EXCEPT ![r] = @ + 1]
    /\ UNCHANGED <<breakers, up, index, left, delay, testing>>

-----------------------------------------------------------------------------
(* The environment.                                                        *)

\* A provider stops answering, or answers again (external).
Outage(p)   == p \in up /\ up' = up \ {p}
               /\ UNCHANGED <<breakers, pc, index, attempt, left, delay, testing>>
Recovery(p) == p \notin up /\ up' = up \cup {p}
               /\ UNCHANGED <<breakers, pc, index, attempt, left, delay, testing>>

\* Time passes, for a request whose sleep is over too: a thread may be woken late.
Tick ==
    /\ opened_age' = [p \in Names |-> IF State(p) = "open" THEN opened_age[p] + 1
                                      ELSE opened_age[p]]
    /\ left' = [r \in Requests |-> IF left[r] > 0 THEN left[r] - 1 ELSE 0]
    /\ delay' = [r \in Requests |-> IF delay[r] > 0 THEN delay[r] - 1 ELSE 0]
    /\ UNCHANGED <<failures, trial_in_flight, up, pc, index, attempt, testing>>

-----------------------------------------------------------------------------

Step(r) == \/ Try(r) \/ Skip(r) \/ Fallback(r) \/ Answer(r) \/ Succeed(r) \/ Fail(r)
           \/ Sleep(r) \/ GiveUp(r) \/ Wake(r)

Next == \/ \E r \in Requests :
               \/ Begin(r) \/ Try(r) \/ Skip(r) \/ Fallback(r) \/ Answer(r)
               \/ Succeed(r) \/ Fail(r) \/ Sleep(r) \/ GiveUp(r) \/ Wake(r)
        \/ \E p \in Names : Outage(p) \/ Recovery(p)
        \/ Tick

Spec == Init /\ [][Next]_vars

\* Something is left for the clock to change.
TimePending == \/ \E p \in Names : State(p) = "open"
               \/ \E r \in Requests : left[r] > 0 \/ delay[r] > 0

\* Every thread goes on (a call to a provider has a timeout), and the clock
\* does: no infinite number of steps, such as sleeps of length 0, is taken in
\* no time.  Traffic: users keep asking, on at least this many threads.
Progress == /\ []<>TimePending => []<><<Tick>>_vars
            /\ \A r \in Requests : WF_vars(Step(r))
Traffic  == \A r \in Requests : WF_vars(Begin(r))

FairSpec == Spec /\ Progress /\ Traffic

-----------------------------------------------------------------------------
(* Properties.                                                             *)

\* Breakers and requests have their types; in particular no request goes
\* beyond max_attempts or the end of the chain.
TypeOK ==
    /\ failures \in [Names -> 0..FailureThreshold]
    /\ opened_age \in [Names -> (0..ResetAfter) \cup {NULL}]
    /\ trial_in_flight \subseteq Names
    /\ up \subseteq Names
    /\ pc \in [Requests -> {"idle", "next", "call", "answered", "failed", "rejected",
                            "retry", "sleep"}]
    /\ index \in [Requests -> 1..(Len(Chain) + 1)]
    /\ \A r \in Requests : pc[r] \notin {"idle", "next"} => index[r] <= Len(Chain)
    /\ attempt \in [Requests -> 1..MaxAttempts]
    /\ left \in [Requests -> 0..Deadline]
    /\ delay \in [Requests -> Nat]
    /\ testing \subseteq Requests

\* A breaker is closed exactly while fewer than failure_threshold failures have
\* been recorded since the last success.
ClosedBelowThreshold ==
    \A p \in Names : opened_age[p] = NULL <=> failures[p] < FailureThreshold

\* A breaker that waits for its trial waits for a request that it let through
\* as its trial and that is still under way: no sequence of late answers leaves
\* it refusing everybody for good.
TrialHasRequest ==
    \A p \in trial_in_flight :
        /\ State(p) = "half-open"
        /\ \E r \in testing : InFlight(r) /\ Name(r) = p

\* While a request sleeps, its retry is due before the deadline, however much of
\* both has passed: only a thread that is woken late calls behind it.
RetryBeforeDeadline ==
    \A r \in Requests : pc[r] = "sleep" /\ delay[r] > 0 => delay[r] < left[r]

\* Every request gets an answer, a model's or the extractive one.
RequestsAnswered == \A r \in Requests : pc[r] = "next" ~> pc[r] = "idle"

\* When the first provider is back for good, its breaker closes for good:
\* no late failure or lost trial keeps it open.
BreakerCloses ==
    \A p \in Names : p = Chain[1] =>
        (<>[](p \in up) => <>[](opened_age[p] = NULL))

=============================================================================
