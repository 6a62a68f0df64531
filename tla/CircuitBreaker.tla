--------------------------- MODULE CircuitBreaker ---------------------------
(***************************************************************************)
(* The circuit breaker around the model calls of one AgentRuntime          *)
(* (avo/circuit_breaker.py), and the way handle_model_pending uses it: ask *)
(* allow(), await the provider, record the result.  A runtime makes one    *)
(* model call at a time (_execution_lock), and the breaker outlives runs.  *)
(* A call that is cancelled while it awaits the provider raises            *)
(* CancelledError, which no handler of handle_model_pending records.       *)
(*                                                                         *)
(* Time is counted from the opening: age is clock() - _opened_at, in ticks *)
(* and only up to Cooldown, beyond which the code tells nothing apart.     *)
(***************************************************************************)
EXTENDS Naturals

CONSTANTS FailureThreshold,  \* failure_threshold
          Cooldown,          \* cooldown_seconds
          HalfOpenMaxCalls,  \* half_open_max_calls
          NoTime,            \* _opened_at is None
          MaxCancels         \* bound of the model: calls cancelled in a behaviour

ASSUME BreakerAssumption ==
  /\ FailureThreshold \in Nat \ {0}
  /\ Cooldown \in Nat \ {0}
  /\ HalfOpenMaxCalls \in Nat \ {0}
  /\ NoTime \notin 0 .. Cooldown
  /\ MaxCancels \in Nat

VARIABLES
  state,     \* _state
  failures,  \* _consecutive_failures
  age,       \* time since _opened_at
  probes,    \* _half_open_calls
  \* its caller and the world
  calling,   \* a model call awaits the provider
  healthy,   \* the provider answers
  cancels,   \* calls cancelled so far
  bad,       \* calls that failed in a row, whatever the breaker did
  through    \* calls let through since it last opened, without a success

breaker == <<state, failures, age, probes>>
vars    == <<breaker, calling, healthy, cancels, bad, through>>

CircuitState == {"closed", "open", "half_open"}

TypeOK ==
  /\ state \in CircuitState
  /\ failures \in 0 .. FailureThreshold
  /\ age \in 0 .. Cooldown \cup {NoTime}
  /\ probes \in 0 .. HalfOpenMaxCalls
  /\ calling \in BOOLEAN
  /\ healthy \in BOOLEAN
  /\ cancels \in 0 .. MaxCancels
  /\ bad \in 0 .. FailureThreshold
  /\ through \in 0 .. HalfOpenMaxCalls

Init ==
  /\ state = "closed" /\ failures = 0 /\ age = NoTime /\ probes = 0
  /\ calling = FALSE /\ healthy \in BOOLEAN /\ cancels = 0
  /\ bad = 0 /\ through = 0

-----------------------------------------------------------------------------

(* Mutant: the cooldown ends one tick early.                               *)
CoolTooEarly == state = "open" /\ age \in {Cooldown - 1, Cooldown}

(* _maybe_recover: the state the breaker is in once the clock was read.    *)
CoolEnough == state = "open" /\ age = Cooldown

Recovered ==
  IF CoolEnough THEN [state |-> "half_open", failures |-> 0, probes |-> 0]
  ELSE [state |-> state, failures |-> failures, probes |-> probes]

(* The state property, read by an observer.                                *)
ReadState ==
  /\ CoolEnough
  /\ state' = Recovered.state
  /\ failures' = Recovered.failures
  /\ probes' = Recovered.probes
  /\ UNCHANGED <<age, calling, healthy, cancels, bad, through>>

(* What allow() decides after _maybe_recover.                              *)
Admits(s, n) == s = "closed" \/ (s = "half_open" /\ n < HalfOpenMaxCalls)

(* allow() returns and the provider is called.                             *)
Allow ==
  /\ ~calling
  /\ Admits(Recovered.state, Recovered.probes)
  /\ state' = Recovered.state
  /\ failures' = Recovered.failures
  /\ probes' = Recovered.probes + (IF Recovered.state = "half_open" THEN 1 ELSE 0)
  /\ calling' = TRUE
  /\ through' = IF Recovered.state = "half_open" THEN through + 1 ELSE through
  /\ UNCHANGED <<age, healthy, cancels, bad>>

(* allow() raises BreakerOpen: the run fails, no call is made.             *)
Reject ==
  /\ ~calling
  /\ ~Admits(Recovered.state, Recovered.probes)
  /\ state' = Recovered.state
  /\ failures' = Recovered.failures
  /\ probes' = Recovered.probes
  /\ UNCHANGED <<age, calling, healthy, cancels, bad, through>>

(* record_success, reset: the same assignments.                            *)
Closed ==
  /\ state' = "closed" /\ failures' = 0 /\ age' = NoTime /\ probes' = 0
  /\ bad' = 0 /\ through' = 0

(* Mutant: a success frees its slot but does not close the breaker.        *)
RecordSuccessHalfOpen ==
  /\ calling
  /\ healthy
  /\ failures' = 0
  /\ probes' = IF state = "half_open" THEN probes - 1 ELSE 0
  /\ calling' = FALSE
  /\ bad' = 0 /\ through' = 0
  /\ UNCHANGED <<state, age, healthy, cancels>>

RecordSuccess ==
  /\ calling
  /\ healthy
  /\ Closed
  /\ calling' = FALSE
  /\ UNCHANGED <<healthy, cancels>>

(* _open *)
Open ==
  /\ state' = "open" /\ age' = 0 /\ probes' = 0
  /\ through' = 0

(* Mutants: a failed probe only counts as one more failure; the breaker    *)
(* opens one failure late.                                                 *)
FailUnlessBelow(limit, probing) ==
  /\ calling
  /\ ~healthy
  /\ IF state = "half_open" /\ probing
       THEN Open /\ UNCHANGED failures
       ELSE /\ failures' = failures + 1
            /\ IF failures + 1 >= limit
                 THEN Open
                 ELSE /\ probes' = IF state = "half_open" THEN probes - 1 ELSE probes
                      /\ UNCHANGED <<state, age, through>>
  /\ bad' = IF bad = FailureThreshold THEN bad ELSE bad + 1
  /\ calling' = FALSE
  /\ UNCHANGED <<healthy, cancels>>

RecordFailureNoReopen == FailUnlessBelow(FailureThreshold, FALSE)

RecordFailureLate == FailUnlessBelow(FailureThreshold + 1, TRUE)

(* A timeout, an invalid response or an exception of the provider.         *)
RecordFailure ==
  /\ calling
  /\ ~healthy
  /\ IF state = "half_open"
       THEN Open /\ UNCHANGED failures
       ELSE /\ failures' = failures + 1
            /\ IF failures + 1 >= FailureThreshold
                 THEN Open
                 ELSE UNCHANGED <<state, age, probes, through>>
  /\ bad' = IF bad = FailureThreshold THEN bad ELSE bad + 1
  /\ calling' = FALSE
  /\ UNCHANGED <<healthy, cancels>>

(* The run is cancelled while the provider is awaited.                     *)
CancelCall ==
  /\ calling
  /\ cancels < MaxCancels
  /\ cancels' = cancels + 1
  /\ calling' = FALSE
  /\ UNCHANGED <<breaker, healthy, bad, through>>

(* reset, for tests and operators, at any time.                            *)
Reset ==
  /\ Closed
  /\ UNCHANGED <<calling, healthy, cancels>>

Tick ==
  /\ age \in 0 .. Cooldown - 1
  /\ age' = age + 1
  /\ UNCHANGED <<state, failures, probes, calling, healthy, cancels, bad, through>>

(* The provider goes down or comes back.                                   *)
Weather ==
  /\ healthy' = ~healthy
  /\ UNCHANGED <<breaker, calling, cancels, bad, through>>

Ask == Allow \/ Reject

Answer == RecordSuccess \/ RecordFailure

Next ==
  \/ Ask \/ Answer \/ CancelCall \/ ReadState \/ Reset
  \/ Tick \/ Weather

Spec == Init /\ [][Next]_vars

(* Time passes, runs keep asking, and a provider call returns or times     *)
(* out (provider_timeout_seconds).                                         *)
FairSpec == Spec /\ WF_vars(Tick) /\ WF_vars(Ask) /\ WF_vars(Answer)

-----------------------------------------------------------------------------

(* The asserts of allow and _maybe_recover: an open breaker knows when it  *)
(* was opened; and a closed one has seen fewer failures than the           *)
(* threshold, in a row.  (allow, _maybe_recover, record_failure)           *)
OpensAtThreshold ==
  /\ state = "open" => age # NoTime
  /\ state = "closed" => bad < FailureThreshold /\ failures = bad

(* From an opening to the next success no more than half_open_max_calls    *)
(* calls reach the provider before the next opening, and none of them      *)
(* before the cooldown is over.  (allow, record_failure, _open)            *)
OutageIsContained ==
  /\ through <= HalfOpenMaxCalls
  /\ through > 0 => state = "half_open" /\ age = Cooldown

(* The breaker leaves OPEN only after a full cooldown, or by reset: also   *)
(* when the opening came from a call that was allowed long before.         *)
CooldownServed ==
  [][(state = "open" /\ state' # "open") => (age = Cooldown \/ age' = NoTime)]_vars

(* "The first half_open_max_calls calls are allowed through as probes.  A  *)
(* success closes the breaker; a failure re-opens it": whatever happened   *)
(* before, once the provider stays up the breaker closes for good.  Holds  *)
(* as long as fewer calls are cancelled than there are probe slots.        *)
Recovers == <>[]healthy => <>[](state = "closed")
=============================================================================
