------------------------ MODULE CircuitBreakerProofs ------------------------
(***************************************************************************)
(* The safety of CircuitBreaker, for every threshold, cooldown and number  *)
(* of probe slots.                                                         *)
(***************************************************************************)
EXTENDS CircuitBreaker, TLAPS

(* TypeOK in two parts, for the provers: the numbers and the flags.        *)
Numbers ==
  /\ state \in CircuitState
  /\ failures \in 0 .. FailureThreshold
  /\ age \in 0 .. Cooldown \cup {NoTime}
  /\ probes \in 0 .. HalfOpenMaxCalls
  /\ cancels \in 0 .. MaxCancels
  /\ bad \in 0 .. FailureThreshold
  /\ through \in 0 .. HalfOpenMaxCalls

Flags == calling \in BOOLEAN /\ healthy \in BOOLEAN

LEMMA TypeSplit == TypeOK <=> Numbers /\ Flags
BY DEF TypeOK, Numbers, Flags

(* The two safety invariants are inductive together with: each call let    *)
(* through since the opening still holds its slot; the cooldown of a       *)
(* half-open breaker is over; and Quiet.                                   *)
Link ==
  state = "half_open" => through <= probes /\ age = Cooldown

(* No call is out while the breaker is open.                               *)
Quiet == state = "open" => ~calling

BreakerInv == Numbers /\ OpensAtThreshold /\ OutageIsContained /\ Link /\ Quiet

LEMMA BreakerInit == Init => BreakerInv /\ Flags
<1> SUFFICES ASSUME Init PROVE BreakerInv /\ Flags
  OBVIOUS
<1>1. /\ 0 \in 0 .. FailureThreshold /\ 0 \in 0 .. HalfOpenMaxCalls
      /\ 0 \in 0 .. MaxCancels /\ 0 < FailureThreshold /\ 0 <= HalfOpenMaxCalls
      /\ ~(0 > 0)
  BY BreakerAssumption
<1>2. Numbers
  BY <1>1 DEF Init, Numbers, CircuitState
<1>3. OpensAtThreshold
  BY <1>1 DEF Init, OpensAtThreshold
<1>4. OutageIsContained /\ Link /\ Quiet
  BY <1>1 DEF Init, OutageIsContained, Link, Quiet
<1>5. Flags
  BY DEF Init, Flags
<1> QED BY <1>2, <1>3, <1>4, <1>5 DEF BreakerInv

LEMMA FlagsStep == Flags /\ [Next]_vars => Flags'
BY DEF Flags, Next, Ask, Answer, Allow, Reject, ReadState, RecordSuccess, RecordFailure,
       CancelCall, Reset, Tick, Weather, vars

(* Reading the clock keeps the invariant.                                  *)
LEMMA RecoveredType ==
  ASSUME BreakerInv
  PROVE  /\ Recovered.state \in CircuitState
         /\ Recovered.failures \in 0 .. FailureThreshold
         /\ Recovered.probes \in 0 .. HalfOpenMaxCalls
         /\ CoolEnough => /\ Recovered.state = "half_open" /\ age = Cooldown
                          /\ through = 0 /\ Recovered.probes = 0
         /\ ~CoolEnough => /\ Recovered.state = state /\ Recovered.failures = failures
                           /\ Recovered.probes = probes
BY BreakerAssumption
   DEF BreakerInv, Numbers, Recovered, CoolEnough, CircuitState, OutageIsContained

(* A call let through holds a slot of its own.                             *)
LEMMA SlotTaken ==
  ASSUME BreakerInv, Allow
  PROVE  /\ probes' \in 0 .. HalfOpenMaxCalls
         /\ through' \in 0 .. HalfOpenMaxCalls
         /\ state' = "half_open" => through' <= probes' /\ age = Cooldown
         /\ state' = "closed" => through' = 0
<1> USE BreakerAssumption DEF BreakerInv, Numbers, OutageIsContained, Link, CircuitState
<1>1. CASE CoolEnough
  BY <1>1, RecoveredType DEF Allow, Admits
<1>2. CASE ~CoolEnough /\ state = "half_open"
  BY <1>2, RecoveredType DEF Allow, Admits
<1>3. CASE ~CoolEnough /\ state # "half_open"
  BY <1>3, RecoveredType DEF Allow, Admits
<1> QED BY <1>1, <1>2, <1>3

LEMMA BreakerStep == BreakerInv /\ [Next]_vars => BreakerInv'
<1> SUFFICES ASSUME BreakerInv, [Next]_vars PROVE BreakerInv'
  OBVIOUS
<1> USE BreakerAssumption
    DEF BreakerInv, Numbers, OpensAtThreshold, OutageIsContained, Link, Quiet, CircuitState
<1>1. CASE Allow
  <2>1. Numbers'
    BY <1>1, RecoveredType, SlotTaken DEF Allow, Admits, CoolEnough
  <2>2. OpensAtThreshold'
    BY <1>1, RecoveredType, SlotTaken DEF Allow, Admits, CoolEnough
  <2>3. OutageIsContained'
    BY <1>1, RecoveredType, SlotTaken DEF Allow, Admits, CoolEnough
  <2>4. Link'
    BY <1>1, RecoveredType, SlotTaken DEF Allow, Admits, CoolEnough
  <2>5. Quiet'
    BY <1>1, RecoveredType, SlotTaken DEF Allow, Admits, CoolEnough
  <2> QED BY <2>1, <2>2, <2>3, <2>4, <2>5
<1>2. CASE Reject
  <2>1. Numbers'
    BY <1>2, RecoveredType DEF Reject, CoolEnough
  <2>2. OpensAtThreshold'
    BY <1>2, RecoveredType DEF Reject, CoolEnough
  <2>3. OutageIsContained'
    BY <1>2, RecoveredType DEF Reject, CoolEnough
  <2>4. Link'
    BY <1>2, RecoveredType DEF Reject, CoolEnough
  <2>5. Quiet'
    BY <1>2, RecoveredType DEF Reject, CoolEnough
  <2> QED BY <2>1, <2>2, <2>3, <2>4, <2>5
<1>3. CASE ReadState
  <2>1. Numbers'
    BY <1>3, RecoveredType DEF ReadState, CoolEnough
  <2>2. OpensAtThreshold'
    BY <1>3, RecoveredType DEF ReadState, CoolEnough
  <2>3. OutageIsContained'
    BY <1>3, RecoveredType DEF ReadState, CoolEnough
  <2>4. Link'
    BY <1>3, RecoveredType DEF ReadState, CoolEnough
  <2>5. Quiet'
    BY <1>3, RecoveredType DEF ReadState, CoolEnough
  <2> QED BY <2>1, <2>2, <2>3, <2>4, <2>5
<1>4. CASE RecordSuccess
  <2>1. Numbers'
    BY <1>4 DEF RecordSuccess, Closed
  <2>2. OpensAtThreshold'
    BY <1>4 DEF RecordSuccess, Closed
  <2>3. OutageIsContained'
    BY <1>4 DEF RecordSuccess, Closed
  <2>4. Link'
    BY <1>4 DEF RecordSuccess, Closed
  <2>5. Quiet'
    BY <1>4 DEF RecordSuccess, Closed
  <2> QED BY <2>1, <2>2, <2>3, <2>4, <2>5
<1>5. CASE RecordFailure
  <2>1. Numbers'
    BY <1>5 DEF RecordFailure, Open
  <2>2. OpensAtThreshold'
    BY <1>5 DEF RecordFailure, Open
  <2>3. OutageIsContained'
    BY <1>5 DEF RecordFailure, Open
  <2>4. Link'
    BY <1>5 DEF RecordFailure, Open
  <2>5. Quiet'
    BY <1>5 DEF RecordFailure, Open
  <2> QED BY <2>1, <2>2, <2>3, <2>4, <2>5
<1>6. CASE CancelCall
  <2>1. Numbers'
    BY <1>6 DEF CancelCall, breaker
  <2>2. OpensAtThreshold'
    BY <1>6 DEF CancelCall, breaker
  <2>3. OutageIsContained'
    BY <1>6 DEF CancelCall, breaker
  <2>4. Link'
    BY <1>6 DEF CancelCall, breaker
  <2>5. Quiet'
    BY <1>6 DEF CancelCall, breaker
  <2> QED BY <2>1, <2>2, <2>3, <2>4, <2>5
<1>7. CASE Reset
  <2>1. Numbers'
    BY <1>7 DEF Reset, Closed
  <2>2. OpensAtThreshold'
    BY <1>7 DEF Reset, Closed
  <2>3. OutageIsContained'
    BY <1>7 DEF Reset, Closed
  <2>4. Link'
    BY <1>7 DEF Reset, Closed
  <2>5. Quiet'
    BY <1>7 DEF Reset, Closed
  <2> QED BY <2>1, <2>2, <2>3, <2>4, <2>5
<1>8. CASE Tick
  <2>1. Numbers'
    BY <1>8 DEF Tick
  <2>2. OpensAtThreshold'
    BY <1>8 DEF Tick
  <2>3. OutageIsContained'
    BY <1>8 DEF Tick
  <2>4. Link'
    BY <1>8 DEF Tick
  <2>5. Quiet'
    BY <1>8 DEF Tick
  <2> QED BY <2>1, <2>2, <2>3, <2>4, <2>5
<1>9. CASE Weather
  <2>1. Numbers'
    BY <1>9 DEF Weather, breaker
  <2>2. OpensAtThreshold'
    BY <1>9 DEF Weather, breaker
  <2>3. OutageIsContained'
    BY <1>9 DEF Weather, breaker
  <2>4. Link'
    BY <1>9 DEF Weather, breaker
  <2>5. Quiet'
    BY <1>9 DEF Weather, breaker
  <2> QED BY <2>1, <2>2, <2>3, <2>4, <2>5
<1>10. CASE UNCHANGED vars
  <2>1. Numbers'
    BY <1>10 DEF vars, breaker
  <2>2. OpensAtThreshold'
    BY <1>10 DEF vars, breaker
  <2>3. OutageIsContained'
    BY <1>10 DEF vars, breaker
  <2>4. Link'
    BY <1>10 DEF vars, breaker
  <2>5. Quiet'
    BY <1>10 DEF vars, breaker
  <2> QED BY <2>1, <2>2, <2>3, <2>4, <2>5
<1> QED BY <1>1, <1>2, <1>3, <1>4, <1>5, <1>6, <1>7, <1>8, <1>9, <1>10 DEF Next, Ask, Answer

LEMMA BreakerInvariant == Spec => [](BreakerInv /\ Flags)
BY BreakerInit, BreakerStep, FlagsStep, PTL DEF Spec

(* Every variable of the breaker stays in its range, for every threshold,  *)
(* cooldown and number of slots: no slot counter can run past its limit.   *)
THEOREM BreakerTypeCorrect == Spec => []TypeOK
<1>1. BreakerInv /\ Flags => TypeOK
  BY TypeSplit DEF BreakerInv
<1> QED BY <1>1, BreakerInvariant, PTL

(* A closed breaker has seen fewer failures in a row than the threshold.   *)
(* (record_failure, record_success)                                        *)
THEOREM BreakerOpensInTime == Spec => []OpensAtThreshold
<1>1. BreakerInv => OpensAtThreshold
  BY DEF BreakerInv
<1> QED BY <1>1, BreakerInvariant, PTL

(* No more than half_open_max_calls calls reach a failing provider between *)
(* two openings, and none before the cooldown is over.                     *)
THEOREM BreakerContainsOutage == Spec => []OutageIsContained
<1>1. BreakerInv => OutageIsContained
  BY DEF BreakerInv
<1> QED BY <1>1, BreakerInvariant, PTL

(* No call reaches the provider, and no reader sees the breaker leave      *)
(* OPEN, before the cooldown is over.                                      *)
THEOREM CooldownIsServed == Spec => CooldownServed
<1>1. BreakerInv /\ [Next]_vars
        => [(state = "open" /\ state' # "open") => (age = Cooldown \/ age' = NoTime)]_vars
  BY DEF Next, Ask, Answer, Allow, Reject, ReadState, RecordSuccess, RecordFailure,
         CancelCall, Reset, Tick, Weather, Closed, Open, Recovered, CoolEnough, breaker, vars
<1> QED BY <1>1, BreakerInvariant, PTL DEF Spec, CooldownServed
=============================================================================
