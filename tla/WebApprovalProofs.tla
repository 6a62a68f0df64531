-------------------------- MODULE WebApprovalProofs --------------------------
(***************************************************************************)
(* The safety of WebApproval, for any number of requests and operators.    *)
(***************************************************************************)
EXTENDS WebApproval, TLAPS

LEMMA TypeInit == Init => TypeOK
BY DEF Init, TypeOK, Running, Decided, Decisions

(* A run that moves on stays within the types.                             *)
LEMMA TypeRun ==
  ASSUME TypeOK, NEW r \in Requests,
         Register(r) \/ Asks(r) \/ Returns(r) \/ CancelRun(r) \/ Deliver(r)
  PROVE  TypeOK'
<1> USE DEF TypeOK, bridge, history, Decisions, Decided, Running
<1>1. CASE Register(r)
  BY <1>1 DEF Register
<1>2. CASE Asks(r)
  BY <1>2 DEF Asks, CreateRow, CreateFails
<1>3. CASE Answered(r)
  BY <1>3 DEF Answered, Leaves
<1>4. CASE TimeOut(r)
  BY <1>4 DEF TimeOut, Abandon
<1>5. CASE RecordTimeout(r) \/ RecordTimeoutFails(r)
  BY <1>5 DEF RecordTimeout, RecordTimeoutFails, Leaves
<1>6. CASE Leave(r)
  BY <1>6 DEF Leave
<1>7. CASE CancelRun(r)
  BY <1>7 DEF CancelRun, Abandon, Leaves
<1>8. CASE Deliver(r)
  BY <1>8 DEF Deliver
<1> QED BY <1>1, <1>2, <1>3, <1>4, <1>5, <1>6, <1>7, <1>8 DEF Returns

(* A thread that carries a decision carries it for a request.              *)
LEMMA Carried ==
  ASSUME TypeOK, NEW o \in Operators, operator[o].at = "recorded"
  PROVE  /\ operator[o].request \in Requests
         /\ operator[o].says \in Decisions
BY DEF TypeOK

LEMMA TypeServer ==
  ASSUME TypeOK,
         \/ \E o \in Operators, r \in Requests, d \in Decisions : Record(o, r, d)
         \/ \E o \in Operators : Notify(o)
         \/ Clear \/ Restart
  PROVE  TypeOK'
<1>1. ASSUME NEW o \in Operators, NEW r \in Requests, NEW d \in Decisions, Record(o, r, d)
      PROVE  TypeOK'
  BY <1>1 DEF TypeOK, bridge, Record, Status, Decided, Decisions
<1>2. ASSUME NEW o \in Operators, Notify(o)
      PROVE  TypeOK'
  <2>1. operator[o].says \in Decisions
    BY <1>2, Carried DEF Notify
  <2>2. scheduled' \in [Requests -> Decisions \cup {None}]
    BY <1>2, <2>1 DEF Notify, Schedule, TypeOK
  <2> QED BY <1>2, <2>2 DEF TypeOK, Notify, history
<1>3. CASE Clear
  BY <1>3 DEF TypeOK, Clear, Schedule, Decisions
<1>4. CASE Restart
  BY <1>4 DEF TypeOK, Restart, history, Running
<1> QED BY <1>1, <1>2, <1>3, <1>4

LEMMA TypeStep == TypeOK /\ [Next]_vars => TypeOK'
<1> SUFFICES ASSUME TypeOK, [Next]_vars PROVE TypeOK'
  OBVIOUS
<1>1. CASE UNCHANGED vars
  BY <1>1 DEF TypeOK, vars, bridge, history
<1>2. CASE Next
  BY <1>2, TypeRun, TypeServer DEF Next
<1> QED BY <1>1, <1>2

(* The variables keep their types.                                         *)
THEOREM ApprovalTypeCorrect == Spec => []TypeOK
BY TypeInit, TypeStep, PTL DEF Spec

-----------------------------------------------------------------------------

(* The history variables, to look at when a case leaves them alone.        *)
Asked(r, d) == Posted(r, d) \/ (d = "no" /\ r \in cleared)

(* Every answer, wherever it is kept, comes from an operator who gave it,  *)
(* from clear or from the timeout; and a run that timed out is never told  *)
(* yes.                                                                    *)
Sourced(r) ==
  /\ row[r] = "approved" => Posted(r, "yes")
  /\ row[r] = "denied" => Posted(r, "no") \/ r \in cut
  /\ \A d \in Decisions : scheduled[r] = d \/ future[r] = d => Asked(r, d)
  /\ answer[r] = "yes" => Posted(r, "yes")
  /\ answer[r] = "no" => Asked(r, "no") \/ r \in cut
  /\ pc[r] \in {"idle", "registered", "waiting", "expired"} => answer[r] = None
  /\ pc[r] = "expired" => r \in cut
  /\ r \in cut => pc[r] \in {"expired", "leaving", "done", "lost"} /\ answer[r] # "yes"

(* What a thread carries was posted.                                       *)
Carries == \A o \in Operators :
  operator[o].at = "recorded" => Posted(operator[o].request, operator[o].says)

SourceInv == (\A r \in Requests : Sourced(r)) /\ Carries

LEMMA SourceInit == Init => SourceInv
BY NoneAssumption DEF Init, SourceInv, Sourced, Carries, Asked, Decisions

(* A step of one request keeps its answers accounted for; the others do    *)
(* not change.                                                             *)
LEMMA SourceRun ==
  ASSUME TypeOK, SourceInv, NEW r \in Requests,
         Register(r) \/ Asks(r) \/ Returns(r) \/ CancelRun(r) \/ Deliver(r)
  PROVE  SourceInv'
<1>1. /\ operator' = operator /\ posted' = posted /\ cleared' = cleared
      /\ cut \subseteq cut' /\ cut' \subseteq cut \cup {r}
  BY DEF Register, Asks, CreateRow, CreateFails, Returns, Answered, TimeOut, RecordTimeout,
         RecordTimeoutFails, Leave, CancelRun, Deliver, history
<1>2. Carries'
  BY <1>1 DEF SourceInv, Carries, Posted
<1>3. ASSUME NEW q \in Requests, q # r PROVE Sourced(q)'
  <2>1. /\ row'[q] = row[q] /\ scheduled'[q] = scheduled[q] /\ future'[q] = future[q]
        /\ answer'[q] = answer[q] /\ pc'[q] = pc[q]
    BY <1>3 DEF TypeOK, Register, Asks, CreateRow, CreateFails, Returns, Answered, TimeOut,
                RecordTimeout, RecordTimeoutFails, Leave, CancelRun, Deliver, Leaves, Abandon
  <2> QED BY <1>1, <1>3, <2>1 DEF SourceInv, Sourced, Asked, Posted
<1>4. Sourced(r)'
  <2> USE <1>1, NoneAssumption DEF TypeOK, SourceInv, Sourced, Asked, Posted, Decisions, history
  <2>1. CASE Register(r)
    BY <2>1 DEF Register
  <2>2. CASE Asks(r)
    BY <2>2 DEF Asks, CreateRow, CreateFails
  <2>3. CASE Answered(r)
    BY <2>3 DEF Answered, Leaves
  <2>4. CASE TimeOut(r)
    BY <2>4 DEF TimeOut, Abandon
  <2>5. CASE RecordTimeout(r) \/ RecordTimeoutFails(r)
    BY <2>5 DEF RecordTimeout, RecordTimeoutFails, Leaves
  <2>6. CASE Leave(r)
    BY <2>6 DEF Leave
  <2>7. CASE CancelRun(r)
    BY <2>7 DEF CancelRun, Abandon, Leaves
  <2>8. CASE Deliver(r)
    BY <2>8 DEF Deliver
  <2> QED BY <2>1, <2>2, <2>3, <2>4, <2>5, <2>6, <2>7, <2>8 DEF Returns
<1> QED BY <1>2, <1>3, <1>4 DEF SourceInv

LEMMA SourceServer ==
  ASSUME TypeOK, SourceInv,
         \/ \E o \in Operators, r \in Requests, d \in Decisions : Record(o, r, d)
         \/ \E o \in Operators : Notify(o)
         \/ Clear \/ Restart
  PROVE  SourceInv'
<1> USE DEF SourceInv
<1>1. ASSUME NEW o \in Operators, NEW r \in Requests, NEW d \in Decisions, Record(o, r, d)
      PROVE  SourceInv'
  <2>1. Carries'
    BY <1>1 DEF Record, TypeOK, Carries, Posted
  <2>2. ASSUME NEW q \in Requests PROVE Sourced(q)'
    BY <1>1 DEF Record, TypeOK, Sourced, Asked, Posted, Status, Decisions, bridge
  <2> QED BY <2>1, <2>2
<1>2. ASSUME NEW o \in Operators, Notify(o)
      PROVE  SourceInv'
  <2>1. Carries'
    BY <1>2 DEF Notify, TypeOK, Carries, Posted, history
  <2>2. ASSUME NEW q \in Requests PROVE Sourced(q)'
    <3>1. scheduled'[q] = scheduled[q] \/ Posted(q, scheduled'[q])
      BY <1>2, Carried DEF Notify, Schedule, TypeOK, Carries
    <3> QED BY <1>2, <3>1 DEF Notify, Sourced, Asked, Posted, history
  <2> QED BY <2>1, <2>2
<1>3. CASE Clear
  <2>1. Carries'
    BY <1>3 DEF Clear, Carries, Posted
  <2>2. ASSUME NEW q \in Requests PROVE Sourced(q)'
    <3>1. scheduled'[q] = scheduled[q] \/ (scheduled'[q] = "no" /\ q \in cleared')
      BY <1>3 DEF Clear, Schedule
    <3> QED BY <1>3, <3>1 DEF Clear, Sourced, Asked, Posted, Decisions
  <2> QED BY <2>1, <2>2
<1>4. CASE Restart
  <2>1. Carries'
    BY <1>4 DEF Restart, TypeOK, Carries, Posted, history
  <2>2. ASSUME NEW q \in Requests PROVE Sourced(q)'
    BY <1>4, NoneAssumption
       DEF Restart, TypeOK, Sourced, Asked, Posted, Decisions, history, Running
  <2> QED BY <2>1, <2>2
<1> QED BY <1>1, <1>2, <1>3, <1>4

LEMMA SourceStep == TypeOK /\ SourceInv /\ [Next]_vars => SourceInv'
<1> SUFFICES ASSUME TypeOK, SourceInv, [Next]_vars PROVE SourceInv'
  OBVIOUS
<1>1. CASE UNCHANGED vars
  BY <1>1 DEF SourceInv, Sourced, Asked, Posted, Carries, vars, bridge, history
<1>2. CASE Next
  BY <1>2, SourceRun, SourceServer DEF Next
<1> QED BY <1>1, <1>2

LEMMA SourceAgrees == SourceInv => AnswersAgree
BY DEF SourceInv, Sourced, Asked, AnswersAgree, Decisions

(* No tool runs without an operator's approval of that request, and run    *)
(* and table differ only for the reasons AnswersAgree names.               *)
THEOREM ApprovalsAgree == Spec => []AnswersAgree
BY TypeInit, TypeStep, SourceInit, SourceStep, SourceAgrees, PTL DEF Spec

-----------------------------------------------------------------------------

Undecided(r) == row[r] \in {"none", "pending"}

Excused(r) == r \in cleared \cup early

(* While a row is undecided, an answer on its way, or already given, can   *)
(* only come from clear or from an operator who was early.                 *)
Tidy(r) ==
  /\ pc[r] \in {"idle", "registered"} => row[r] = "none"
  /\ \A d \in Decisions :
       Undecided(r) /\ (scheduled[r] = d \/ future[r] = d) => Excused(r)
  /\ pc[r] \in {"leaving", "done"} /\ row[r] = "pending" => answer[r] = "raised" \/ Excused(r)
  /\ pc[r] = "done" /\ r \in pending => answer[r] = "raised" /\ row[r] = "none"

(* A thread is between the table and the future of an undecided request    *)
(* only if it came before the row.                                         *)
Overtakes == \A o \in Operators :
  LET r == operator[o].request IN
  operator[o].at = "recorded" /\ Undecided(r) => r \in early

TidyInv == (\A r \in Requests : Tidy(r)) /\ Overtakes

LEMMA TidyInit == Init => TidyInv
BY NoneAssumption DEF Init, TidyInv, Tidy, Overtakes, Decisions

LEMMA TidyRun ==
  ASSUME TypeOK, TidyInv, NEW r \in Requests,
         Register(r) \/ Asks(r) \/ Returns(r) \/ CancelRun(r) \/ Deliver(r)
  PROVE  TidyInv'
<1>1. /\ operator' = operator /\ cleared' = cleared /\ early' = early
      /\ pending' = pending \/ pending' = pending \cup {r} \/ pending' = pending \ {r}
  BY DEF Register, Asks, CreateRow, CreateFails, Returns, Answered, TimeOut, RecordTimeout,
         RecordTimeoutFails, Leave, CancelRun, Deliver, history
<1>2. ASSUME NEW q \in Requests, q # r
      PROVE  /\ row'[q] = row[q] /\ scheduled'[q] = scheduled[q] /\ future'[q] = future[q]
             /\ answer'[q] = answer[q] /\ pc'[q] = pc[q]
  BY <1>2 DEF TypeOK, Register, Asks, CreateRow, CreateFails, Returns, Answered, TimeOut,
              RecordTimeout, RecordTimeoutFails, Leave, CancelRun, Deliver, Leaves, Abandon
<1>3. Undecided(r)' => Undecided(r)
  BY DEF TypeOK, Register, Asks, CreateRow, CreateFails, Returns, Answered, TimeOut,
         RecordTimeout, RecordTimeoutFails, Leave, CancelRun, Deliver, Leaves, TidyInv, Tidy,
         Undecided
<1>4. Overtakes'
  BY <1>1, <1>2, <1>3, Carried DEF TidyInv, Overtakes, Undecided
<1>5. ASSUME NEW q \in Requests, q # r PROVE Tidy(q)'
  BY <1>1, <1>2, <1>5 DEF TidyInv, Tidy, Excused, Undecided
<1>6. Tidy(r)'
  <2> USE <1>1, <1>3, NoneAssumption DEF TypeOK, TidyInv, Tidy, Excused, Undecided, Decisions
  <2>1. CASE Register(r)
    BY <2>1 DEF Register
  <2>2. CASE Asks(r)
    BY <2>2 DEF Asks, CreateRow, CreateFails
  <2>3. CASE Answered(r)
    BY <2>3 DEF Answered, Leaves
  <2>4. CASE TimeOut(r)
    BY <2>4 DEF TimeOut, Abandon
  <2>5. CASE RecordTimeout(r) \/ RecordTimeoutFails(r)
    BY <2>5 DEF RecordTimeout, RecordTimeoutFails, Leaves
  <2>6. CASE Leave(r)
    BY <2>6 DEF Leave
  <2>7. CASE CancelRun(r)
    BY <2>7 DEF CancelRun, Abandon, Leaves
  <2>8. CASE Deliver(r)
    BY <2>8 DEF Deliver
  <2> QED BY <2>1, <2>2, <2>3, <2>4, <2>5, <2>6, <2>7, <2>8 DEF Returns
<1> QED BY <1>4, <1>5, <1>6 DEF TidyInv

LEMMA TidyServer ==
  ASSUME TypeOK, TidyInv,
         \/ \E o \in Operators, r \in Requests, d \in Decisions : Record(o, r, d)
         \/ \E o \in Operators : Notify(o)
         \/ Clear \/ Restart
  PROVE  TidyInv'
<1> USE DEF TidyInv
<1>1. ASSUME NEW o \in Operators, NEW r \in Requests, NEW d \in Decisions, Record(o, r, d)
      PROVE  TidyInv'
  <2>1. /\ row'[r] = "none" => r \in early'
        /\ row'[r] # "pending"
        /\ early \subseteq early'
    BY <1>1 DEF Record, TypeOK, Status
  <2>2. \A q \in Requests : row'[q] = row[q] \/ (row[q] = "pending" /\ row'[q] \in Decided)
    BY <1>1 DEF Record, TypeOK, Status, Decided
  <2>3. Overtakes'
    BY <1>1, <2>1, <2>2, Carried DEF Record, TypeOK, Overtakes, Undecided, Decided
  <2>4. ASSUME NEW q \in Requests PROVE Tidy(q)'
    BY <1>1, <2>1, <2>2 DEF Record, Tidy, Excused, Undecided, Decided, bridge
  <2> QED BY <2>3, <2>4
<1>2. ASSUME NEW o \in Operators, Notify(o)
      PROVE  TidyInv'
  <2>1. Overtakes'
    BY <1>2 DEF Notify, TypeOK, Overtakes, Undecided, history
  <2>2. ASSUME NEW q \in Requests PROVE Tidy(q)'
    <3>1. scheduled'[q] = scheduled[q] \/ (Undecided(q) => q \in early)
      BY <1>2, <2>2, Carried DEF Notify, Schedule, TypeOK, Overtakes
    <3> QED BY <1>2, <3>1 DEF Notify, Tidy, Excused, Undecided, history
  <2> QED BY <2>1, <2>2
<1>3. CASE Clear
  <2>1. Overtakes'
    BY <1>3 DEF Clear, Overtakes, Undecided
  <2>2. ASSUME NEW q \in Requests PROVE Tidy(q)'
    <3>1. scheduled'[q] = scheduled[q] \/ q \in cleared'
      BY <1>3 DEF Clear, Schedule
    <3> QED BY <1>3, <3>1 DEF Clear, Tidy, Excused, Undecided
  <2> QED BY <2>1, <2>2
<1>4. CASE Restart
  <2>1. Overtakes'
    BY <1>4 DEF Restart, TypeOK, Overtakes, Undecided, history
  <2>2. ASSUME NEW q \in Requests PROVE Tidy(q)'
    BY <1>4, NoneAssumption
       DEF Restart, TypeOK, Tidy, Excused, Undecided, Decisions, history, Running
  <2> QED BY <2>1, <2>2
<1> QED BY <1>1, <1>2, <1>3, <1>4

LEMMA TidyStep == TypeOK /\ TidyInv /\ [Next]_vars => TidyInv'
<1> SUFFICES ASSUME TypeOK, TidyInv, [Next]_vars PROVE TidyInv'
  OBVIOUS
<1>1. CASE UNCHANGED vars
  BY <1>1 DEF TidyInv, Tidy, Undecided, Excused, Overtakes, vars, bridge, history
<1>2. CASE Next
  BY <1>2, TidyRun, TidyServer DEF Next
<1> QED BY <1>1, <1>2

LEMMA TidyLeaves == TidyInv => NothingLeftBehind
BY DEF TidyInv, Tidy, Excused, NothingLeftBehind

(* A request that has returned leaves a row or an entry behind only in the *)
(* cases NothingLeftBehind names.                                          *)
THEOREM LeftBehind == Spec => []NothingLeftBehind
BY TypeInit, TypeStep, TidyInit, TidyStep, TidyLeaves, PTL DEF Spec

-----------------------------------------------------------------------------

Final(r) ==
  /\ row[r] \in Decided => row'[r] = row[r]
  /\ pc[r] = "done" => answer'[r] = answer[r]

(* create_approval, an INSERT OR REPLACE, only meets a request without row *)
(* (TidyInv); the other writes test the status.                            *)
LEMMA FinalStep ==
  ASSUME TypeOK, TidyInv, [Next]_vars, NEW q \in Requests
  PROVE  Final(q)
<1> USE DEF Final, TypeOK, Decided, bridge, history
<1>1. ASSUME NEW r \in Requests, Asks(r) PROVE Final(q)
  BY <1>1 DEF Asks, CreateRow, CreateFails, TidyInv, Tidy
<1>2. ASSUME NEW r \in Requests, Register(r) \/ Returns(r) \/ CancelRun(r) \/ Deliver(r)
      PROVE  Final(q)
  BY <1>2 DEF Register, Returns, Answered, TimeOut, RecordTimeout, RecordTimeoutFails, Leave,
              CancelRun, Deliver, Leaves
<1>3. ASSUME NEW o \in Operators, NEW r \in Requests, NEW d \in Decisions, Record(o, r, d)
      PROVE  Final(q)
  BY <1>3 DEF Record
<1>4. ASSUME NEW o \in Operators, Notify(o) PROVE Final(q)
  BY <1>4 DEF Notify
<1>5. CASE Clear \/ Restart
  BY <1>5 DEF Clear, Restart, Running
<1>6. CASE UNCHANGED vars
  BY <1>6 DEF vars
<1> QED BY <1>1, <1>2, <1>3, <1>4, <1>5, <1>6 DEF Next

(* What is decided stays decided, in the table and towards the run.        *)
THEOREM DecisionsAreFinal == Spec => DecisionIsFinal
<1>1. TypeOK /\ TidyInv /\ [Next]_vars =>
        [\A r \in Requests :
           /\ row[r] \in Decided => row'[r] = row[r]
           /\ pc[r] = "done" => answer'[r] = answer[r]]_vars
  BY FinalStep DEF Final
<1> QED
  BY <1>1, TypeInit, TypeStep, TidyInit, TidyStep, PTL DEF Spec, DecisionIsFinal
=============================================================================
