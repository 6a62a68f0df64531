------------------------- MODULE AgentRuntimeProofs -------------------------
(***************************************************************************)
(* Theorems about AgentRuntime, for every value of its constants.          *)
(***************************************************************************)
EXTENDS AgentRuntimeInv, TLAPS

-----------------------------------------------------------------------------
(* Types                                                                   *)

(* TypeOK needs the part of the invariant that says what a coroutine holds *)
(* where it stands.                                                        *)
TypeInv == TypeOK /\ Equipped

(* A transition changes the state of the record within the run states, and *)
(* nothing else that is durable.                                           *)
LEMMA TransitionType ==
  ASSUME TypeOK, NEW s, NEW k \in Places, Transition(s, k)
  PROVE  /\ run' \in [state : RunState, reason : StopReason \cup {"none"},
                      steps : 0 .. MaxSteps]
         /\ log' \subseteq Facts /\ tail' \subseteq log'
         /\ ckpt' \in Contexts \cup {NoCheckpoint}
         /\ pc' = k /\ pc' \in Places
<1>1. run.state \in RunState
  BY DEF TypeOK
<1>2. AllowedTransitions[run.state] \subseteq RunState
  BY <1>1 DEF AllowedTransitions, RunState, ActiveStates, TerminalStates, Escapes
<1>3. s \in RunState
  BY <1>2 DEF Transition
<1> QED BY <1>3 DEF TypeOK, Transition

(* An append keeps the types, whether the store accepts it or not.         *)
LEMMA AppendType ==
  ASSUME TypeOK, NEW f \in Facts, NEW k \in Places, Append(f, k)
  PROVE  /\ log' \subseteq Facts /\ tail' \subseteq log'
         /\ pc' \in {k, "refused"} /\ pc' \in Places
BY DEF TypeOK, Append, Places

LEMMA SaveCheckpointType ==
  ASSUME TypeOK, NEW c \in Contexts, SaveCheckpoint(c)
  PROVE  /\ run' = run /\ log' \subseteq Facts /\ tail' \subseteq log'
         /\ ckpt' \in Contexts \cup {NoCheckpoint}
BY DEF TypeOK, SaveCheckpoint

(* An outcome terminate() can be called with.                              *)
LEMMA OutcomeType ==
  ASSUME NEW s \in TerminalStates, NEW r \in ReasonsFor[s]
  PROVE  /\ [state |-> s, reason |-> r] \in Goals
         /\ [state |-> s, reason |-> r] # NoGoal
BY DEF TerminalStates, ReasonsFor, Goals, NoGoal, StopReason, StoppedReasons, FailedReasons

LEMMA TerminateType ==
  ASSUME NEW s \in TerminalStates, NEW r \in ReasonsFor[s], Terminate(s, r)
  PROVE  /\ pc' = "ending" /\ pc' \in Places
         /\ goal' \in Goals /\ Equipped'
BY OutcomeType DEF Terminate, Places, Equipped

LEMMA TriggerType ==
  ASSUME TypeOK, NEW r \in StoppedReasons, Trigger(r)
  PROVE  /\ log' \subseteq Facts /\ tail' \subseteq log'
         /\ run' = run /\ ckpt' = ckpt /\ ctx' = ctx
         /\ pc' \in {"ending", "refused"} /\ pc' \in Places
         /\ goal' \in Goals /\ Equipped'
<1>1. Fact("policy_triggered", NoCall) \in Facts
  BY DEF Fact, Facts, EventTypes
<1>2. "ending" \in Places
  BY DEF Places
<1>3. /\ log' \subseteq Facts /\ tail' \subseteq log'
      /\ pc' \in {"ending", "refused"} /\ pc' \in Places
  BY <1>1, <1>2, AppendType DEF Trigger
<1>4. "stopped" \in TerminalStates /\ r \in ReasonsFor["stopped"]
  BY DEF TerminalStates, ReasonsFor
<1> QED BY <1>3, <1>4, OutcomeType DEF Trigger, Equipped

(* The context after a tool result.                                        *)
LEMMA WithResultsType ==
  ASSUME NEW c \in Contexts, NEW S \in SUBSET Calls, NEW ok \in BOOLEAN
  PROVE  WithResults(c, S, ok) \in Contexts
<1>1. c.done \cup S \in SUBSET Calls
  BY DEF Contexts
<1>2. (IF ok THEN 0 ELSE c.errors + 1) \in Nat
  BY DEF Contexts
<1>3. NoDecision \in Decisions
  BY DEF Decisions
<1> QED BY <1>1, <1>2, <1>3 DEF WithResults, Contexts

LEMMA FreshContextType == FreshContext \in Contexts
BY PolicyAssumption DEF FreshContext, Contexts, Decisions, Runs

LEMMA ReplayedType ==
  ASSUME TypeOK, ckpt # NoCheckpoint
  PROVE  Replayed \in Contexts
<1>1. ckpt \in Contexts
  BY DEF TypeOK
<1>2. Replayable \in SUBSET Calls
  BY DEF Replayable, FinishedIn
<1> QED BY <1>1, <1>2, WithResultsType DEF Replayed

LEMMA TypeInit == Init => TypeInv
<1>1. FreshContext \in Contexts /\ NoGoal \in Goals
  BY FreshContextType DEF Goals
<1>2. "starting" \in Places
  BY DEF Places
<1>3. "created" \in RunState
  BY DEF RunState, ActiveStates
<1>4. 0 \in 0 .. MaxSteps /\ 0 \in 0 .. MaxCrashes
  BY PolicyAssumption
<1> SUFFICES ASSUME Init PROVE TypeInv
  OBVIOUS
<1>5. run \in [state : RunState, reason : StopReason \cup {"none"}, steps : 0 .. MaxSteps]
  BY <1>3, <1>4 DEF Init
<1>6. effects \in [Calls -> Nat] /\ streak \in Runs
  BY DEF Init, Runs
<1> QED BY <1>1, <1>2, <1>4, <1>5, <1>6 DEF Init, TypeInv, TypeOK, Equipped

(* Every step of the model request keeps the types.                        *)
LEMMA TypeModel ==
  ASSUME TypeInv,
         \/ StopBeforeModel \/ RequestModel
         \/ \E d \in ToolCalls \cup {FinalAnswer}, u \in Tokens \cup {NoUsage} :
              ModelResponds(d, u)
         \/ ModelInvalid
         \/ \E retryable \in BOOLEAN : ModelFails(retryable)
         \/ StopOnErrors \/ RecordDecision \/ CheckpointDecision \/ CheckBudget
  PROVE  TypeInv'
<1> USE DEF TypeInv
<1>1. CASE StopBeforeModel
  <2>1. PICK r \in StoppedReasons : Trigger(r)
    BY <1>1 DEF StopBeforeModel, StoppedReasons
  <2> QED BY <1>1, <2>1, TriggerType DEF StopBeforeModel, TypeOK, world
<1>2. CASE RequestModel
  <2>1. ctx.next \in 1 .. MaxSteps /\ ctx.next + 1 \in 1 .. MaxSteps + 1
    BY <1>2, PolicyAssumption DEF RequestModel, TypeOK, Contexts
  <2>2. ctx' \in Contexts
    BY <1>2, <2>1 DEF RequestModel, TypeOK, Contexts
  <2>3. run' \in [state : RunState, reason : StopReason \cup {"none"}, steps : 0 .. MaxSteps]
    BY <1>2, <2>1 DEF RequestModel, TypeOK
  <2>4. requests' \in Nat
    BY <1>2 DEF RequestModel, TypeOK
  <2> QED BY <1>2, <2>2, <2>3, <2>4 DEF RequestModel, TypeOK, Places, Waits, Equipped
<1>3. ASSUME NEW d \in ToolCalls \cup {FinalAnswer}, NEW u \in Tokens \cup {NoUsage},
             ModelResponds(d, u)
      PROVE TypeInv'
  <2>1. /\ log' \subseteq Facts /\ tail' \subseteq log'
        /\ pc' \in {"responded", "refused"} /\ pc' \in Places
    <3>1. Fact("model_responded", NoCall) \in Facts
      BY DEF Fact, Facts, EventTypes
    <3>2. "responded" \in Places
      BY DEF Places
    <3> QED BY <1>3, <3>1, <3>2, AppendType DEF ModelResponds
  <2>2. (IF u = NoUsage THEN ctx.usage ELSE ctx.usage + u) \in Nat
    BY PolicyAssumption DEF TypeOK, Contexts
  <2>3. (IF d \in ToolCalls THEN Extend(ctx.acts, d.action) ELSE ctx.acts) \in Runs
    BY DEF TypeOK, Contexts, Extend, Runs, ToolCalls
  <2>4. d \in Decisions
    BY DEF Decisions
  <2>5. ctx' \in Contexts
    BY <1>3, <2>2, <2>3, <2>4 DEF ModelResponds, TypeOK, Contexts
  <2> QED BY <1>3, <2>1, <2>5 DEF ModelResponds, TypeOK, Equipped, world
<1>4. CASE ModelInvalid
  <2>1. "failed" \in TerminalStates /\ "invalid_model_response" \in ReasonsFor["failed"]
    BY DEF TerminalStates, ReasonsFor, FailedReasons
  <2> QED BY <1>4, <2>1, TerminateType DEF ModelInvalid, TypeOK, durable, world
<1>5. ASSUME NEW retryable \in BOOLEAN, ModelFails(retryable)
      PROVE TypeInv'
  <2> DEFINE failed == [ctx EXCEPT !.errors = @ + 1]
  <2>1. failed \in Contexts
    BY DEF TypeOK, Contexts
  <2>2. /\ run' = run /\ log' \subseteq Facts /\ tail' \subseteq log'
        /\ ckpt' \in Contexts \cup {NoCheckpoint} /\ ctx' \in Contexts
    BY <1>5, <2>1, SaveCheckpointType DEF ModelFails, FailWith
  <2>3. pc' \in Places /\ goal' \in Goals /\ Equipped'
    <3>1. "failed" \in TerminalStates /\ "provider_error" \in ReasonsFor["failed"]
      BY DEF TerminalStates, ReasonsFor, FailedReasons
    <3> QED BY <1>5, <3>1, TerminateType DEF ModelFails, FailWith, TypeOK, Places, Waits, Equipped
  <2> QED BY <1>5, <2>2, <2>3 DEF ModelFails, FailWith, TypeOK, world
<1>6. CASE StopOnErrors
  <2>1. "consecutive_errors" \in StoppedReasons
    BY DEF StoppedReasons
  <2> QED BY <1>6, <2>1, TriggerType DEF StopOnErrors, TypeOK, world
<1>7. CASE RecordDecision
  <2>1. "decided" \in Places
    BY DEF Places
  <2> QED BY <1>7, <2>1, TransitionType DEF RecordDecision, TypeOK, Equipped, world
<1>8. CASE CheckpointDecision
  <2>1. /\ run' = run /\ log' \subseteq Facts /\ tail' \subseteq log'
        /\ ckpt' \in Contexts \cup {NoCheckpoint}
    BY <1>8, SaveCheckpointType DEF CheckpointDecision, TypeOK, durable
  <2> QED BY <1>8, <2>1 DEF CheckpointDecision, TypeOK, Places, Equipped, world
<1>9. CASE CheckBudget
  <2>1. CASE OverBudget(ctx)
    <3>1. "token_budget_exceeded" \in StoppedReasons
      BY DEF StoppedReasons
    <3> QED BY <1>9, <2>1, <3>1, TriggerType DEF CheckBudget, TypeOK, world
  <2>2. CASE ~OverBudget(ctx)
    BY <1>9, <2>2 DEF CheckBudget, TypeOK, Places, Equipped, durable, world
  <2> QED BY <2>1, <2>2
<1> QED BY <1>1, <1>2, <1>3, <1>4, <1>5, <1>6, <1>7, <1>8, <1>9

(* Every step on a decision and an approval keeps the types.               *)
LEMMA TypeDecision ==
  ASSUME TypeInv,
         \/ DecisionMissing \/ Complete \/ ContainRepetition \/ AcceptToolCall
         \/ AskApproval \/ Approve \/ Deny \/ ApprovalFails \/ StopOnDenial
         \/ GrantExecution
  PROVE  TypeInv'
<1> USE DEF TypeInv
<1> "failed" \in TerminalStates /\ "internal_error" \in ReasonsFor["failed"]
  BY DEF TerminalStates, ReasonsFor, FailedReasons
<1>1. CASE DecisionMissing
  BY <1>1, TerminateType DEF DecisionMissing, TypeOK, durable, world
<1>2. CASE Complete
  <2>1. "completed" \in TerminalStates /\ "completed" \in ReasonsFor["completed"]
    BY DEF TerminalStates, ReasonsFor
  <2> QED BY <1>2, <2>1, TerminateType DEF Complete, TypeOK, durable, world
<1>3. CASE ContainRepetition
  <2>1. "repeated_action" \in StoppedReasons
    BY DEF StoppedReasons
  <2> QED BY <1>3, <2>1, TriggerType DEF ContainRepetition, TypeOK, world
<1>4. CASE AcceptToolCall
  <2>1. "drive" \in Places
    BY DEF Places
  <2> QED BY <1>4, <2>1, TransitionType DEF AcceptToolCall, TypeOK, Equipped, world
<1>5. CASE AskApproval
  <2>1. "drive" \in Places
    BY DEF Places
  <2> QED BY <1>5, <2>1, TransitionType DEF AskApproval, TypeOK, Equipped, world
<1>6. CASE Approve
  <2>1. Fact("tool_approved", ctx.pending.call) \in Facts /\ "granted" \in Places
    BY <1>6 DEF Approve, Fact, Facts, EventTypes, ToolCalls, Places
  <2> QED BY <1>6, <2>1, AppendType DEF Approve, TypeOK, Equipped, world
<1>7. CASE Deny
  <2>1. Fact("tool_denied", ctx.pending.call) \in Facts /\ "denied" \in Places
    BY <1>7 DEF Deny, Fact, Facts, EventTypes, ToolCalls, Places
  <2> QED BY <1>7, <2>1, AppendType DEF Deny, TypeOK, Equipped, world
<1>8. CASE ApprovalFails
  BY <1>8, TerminateType DEF ApprovalFails, TypeOK, durable, world
<1>9. CASE StopOnDenial
  <2>1. "policy_denied" \in StoppedReasons
    BY DEF StoppedReasons
  <2> QED BY <1>9, <2>1, TriggerType DEF StopOnDenial, TypeOK, world
<1>10. CASE GrantExecution
  <2>1. "drive" \in Places
    BY DEF Places
  <2> QED BY <1>10, <2>1, TransitionType DEF GrantExecution, TypeOK, Equipped, world
<1> QED BY <1>1, <1>2, <1>3, <1>4, <1>5, <1>6, <1>7, <1>8, <1>9, <1>10

(* Every step of a tool execution keeps the types.                         *)
LEMMA TypeTool ==
  ASSUME TypeInv,
         \/ StopBeforeTool \/ RefuseCompleted \/ StartTool \/ ToolTakesEffect
         \/ \E ok \in BOOLEAN : ToolSettles(ok)
         \/ ToolRaises \/ RecordObservation \/ CheckpointObservation
         \/ \E stuck \in BOOLEAN : ReviewProgress(stuck)
         \/ NextStep
  PROVE  TypeInv'
<1> USE DEF TypeInv
<1> "failed" \in TerminalStates /\ "internal_error" \in ReasonsFor["failed"]
  BY DEF TerminalStates, ReasonsFor, FailedReasons
<1>1. CASE StopBeforeTool
  <2>1. "max_runtime" \in StoppedReasons
    BY DEF StoppedReasons
  <2> QED BY <1>1, <2>1, TriggerType DEF StopBeforeTool, TypeOK, world
<1>2. CASE RefuseCompleted
  BY <1>2, TerminateType DEF RefuseCompleted, TypeOK, durable, world
<1>3. CASE StartTool
  <2>1. Fact("tool_started", ctx.pending.call) \in Facts /\ "invoke" \in Places
    BY <1>3 DEF StartTool, Fact, Facts, EventTypes, ToolCalls, Places, Waits
  <2>2. streak' \in Runs
    BY <1>3 DEF StartTool, Begun, Runs, TypeOK, ToolCalls
  <2> QED BY <1>3, <2>1, <2>2, AppendType DEF StartTool, TypeOK, Equipped
<1>4. CASE ToolTakesEffect
  <2>1. ctx.pending \in ToolCalls
    BY <1>4 DEF ToolTakesEffect, Equipped
  <2>2. effects' \in [Calls -> Nat]
    BY <1>4, <2>1 DEF ToolTakesEffect, TypeOK, ToolCalls
  <2>3. (IF effects[ctx.pending.call] = 0 THEN streak.n + 1 ELSE streak.n) \in Nat
    BY DEF TypeOK, Runs
  <2>4. streak' \in Runs
    BY <1>4, <2>3 DEF ToolTakesEffect, TypeOK, Runs
  <2> QED BY <1>4, <2>1, <2>2, <2>4
          DEF ToolTakesEffect, TypeOK, Equipped, Places, Waits, durable
<1>5. ASSUME NEW ok \in BOOLEAN, ToolSettles(ok)
      PROVE TypeInv'
  <2>1. ctx.pending \in ToolCalls
    BY <1>5 DEF ToolSettles, Equipped
  <2>2. /\ Fact(IF ok THEN "tool_completed" ELSE "tool_failed", ctx.pending.call) \in Facts
        /\ "settled" \in Places
    BY <2>1 DEF Fact, Facts, EventTypes, ToolCalls, Places
  <2> QED BY <1>5, <2>1, <2>2, AppendType DEF ToolSettles, TypeOK, Equipped, world
<1>6. CASE ToolRaises
  <2>1. abandoned' \subseteq Calls
    BY <1>6 DEF ToolRaises, Equipped, TypeOK, ToolCalls
  <2> QED BY <1>6, <2>1, TerminateType DEF ToolRaises, TypeOK, durable
<1>7. CASE RecordObservation
  <2>1. ctx.pending \in ToolCalls /\ "observed" \in Places
    BY <1>7 DEF RecordObservation, Equipped, Places, Waits
  <2>2. {ctx.pending.call} \in SUBSET Calls
    BY <2>1 DEF ToolCalls
  <2>3. ctx' \in Contexts
    <3> DEFINE ok == Fact("tool_completed", ctx.pending.call) \in log
    <3>1. ctx' = WithResults(ctx, {ctx.pending.call}, ok)
      BY <1>7 DEF RecordObservation
    <3>2. ok \in BOOLEAN
      OBVIOUS
    <3> HIDE DEF ok
    <3> QED BY <2>2, <3>1, <3>2, WithResultsType DEF TypeOK
  <2> QED BY <1>7, <2>1, <2>3, TransitionType DEF RecordObservation, TypeOK, Equipped, world
<1>8. CASE CheckpointObservation
  BY <1>8, SaveCheckpointType DEF CheckpointObservation, TypeOK, Places, Equipped, world
<1>9. ASSUME NEW stuck \in BOOLEAN, ReviewProgress(stuck)
      PROVE TypeInv'
  <2>1. CASE \E r \in StoppedReasons : Trigger(r)
    BY <1>9, <2>1, TriggerType DEF ReviewProgress, TypeOK, world
  <2>2. CASE pc' = "drive" /\ UNCHANGED <<durable, ctx, goal>>
    BY <1>9, <2>2 DEF ReviewProgress, TypeOK, Places, Equipped, durable, world
  <2> QED BY <1>9, <2>1, <2>2 DEF ReviewProgress, StoppedReasons
<1>10. CASE NextStep
  <2>1. "drive" \in Places
    BY DEF Places
  <2> QED BY <1>10, <2>1, TransitionType DEF NextStep, TypeOK, Equipped, world
<1> QED BY <1>1, <1>2, <1>3, <1>4, <1>5, <1>6, <1>7, <1>8, <1>9, <1>10

(* Every step at the ends of a run, a process or a resume keeps the types. *)
LEMMA TypeLife ==
  ASSUME TypeInv,
         \/ Begin \/ FirstCheckpoint \/ CheckpointEnding \/ Finalize
         \/ Recover \/ Cancel \/ Crash \/ Deadline \/ UNCHANGED vars
  PROVE  TypeInv'
<1> USE DEF TypeInv
<1>1. CASE Begin
  <2>1. "first_ckpt" \in Places
    BY DEF Places
  <2> QED BY <1>1, <2>1, TransitionType DEF Begin, TypeOK, Equipped, world
<1>2. CASE FirstCheckpoint
  BY <1>2, SaveCheckpointType DEF FirstCheckpoint, TypeOK, Places, Equipped, world
<1>3. CASE CheckpointEnding
  BY <1>3, SaveCheckpointType DEF CheckpointEnding, TypeOK, Places, Equipped, world
<1>4. CASE Finalize
  <2>1. Fact("terminal", NoCall) \in Facts /\ "ended" \in Places
    BY DEF Fact, Facts, EventTypes, Places
  <2>2. /\ log' \subseteq Facts /\ tail' \subseteq log'
        /\ pc' \in {"ended", "refused"} /\ pc' \in Places
    BY <1>4, <2>1, AppendType DEF Finalize
  <2>3. goal \in [state : TerminalStates, reason : StopReason]
    BY <1>4 DEF Finalize, TypeOK, Equipped, Goals
  <2>4. run' \in [state : RunState, reason : StopReason \cup {"none"}, steps : 0 .. MaxSteps]
    BY <1>4, <2>3 DEF Finalize, TypeOK, RunState
  <2>5. goal' \in Goals /\ ctx' \in Contexts
    BY <1>4, FreshContextType DEF Finalize, Goals
  <2> QED BY <1>4, <2>2, <2>4, <2>5 DEF Finalize, TypeOK, Equipped, world
<1>5. CASE Recover
  <2>1. CASE Resume
    BY <1>5, <2>1, ReplayedType
       DEF Resume, CanResume, TypeOK, Places, Equipped, durable, world
  <2>2. CASE ResumeReplaying
    <3>1. "replayed" \in Places
      BY DEF Places
    <3> QED BY <2>2, <3>1, ReplayedType, TransitionType
            DEF ResumeReplaying, CanResume, TypeOK, Equipped, world
  <2>3. CASE CheckpointReplay
    BY <2>3, SaveCheckpointType DEF CheckpointReplay, TypeOK, Places, Equipped, world
  <2> QED BY <1>5, <2>1, <2>2, <2>3 DEF Recover
<1>6. CASE Cancel
  <2>1. "cancelled" \in TerminalStates /\ "user_cancelled" \in ReasonsFor["cancelled"]
    BY DEF TerminalStates, ReasonsFor
  <2>2. abandoned' \subseteq Calls
    BY <1>6 DEF Cancel, Equipped, TypeOK, ToolCalls
  <2> QED BY <1>6, <2>1, <2>2, TerminateType DEF Cancel, TypeOK, durable
<1>7. CASE Crash
  <2>1. ctx' \in Contexts /\ goal' \in Goals
    BY <1>7, FreshContextType DEF Crash, Goals
  <2>2. crashes' \in 0 .. MaxCrashes
    BY <1>7, PolicyAssumption DEF Crash, TypeOK
  <2> QED BY <1>7, <2>1, <2>2 DEF Crash, TypeOK, Places, Equipped, durable
<1>8. CASE Deadline
  BY <1>8 DEF Deadline, TypeOK, Equipped, durable, volatile
<1>9. CASE UNCHANGED vars
  BY <1>9 DEF vars, TypeOK, Equipped, durable, volatile, world
<1> QED BY <1>1, <1>2, <1>3, <1>4, <1>5, <1>6, <1>7, <1>8, <1>9

LEMMA TypeStep == TypeInv /\ [Next]_vars => TypeInv'
BY TypeModel, TypeDecision, TypeTool, TypeLife DEF Next, Drive, Rest

(* Type correctness: whatever the model answers, and wherever the process  *)
(* is lost, the store and the coroutine hold well-formed values.           *)
THEOREM TypeCorrect == Spec => []TypeOK
<1>1. TypeInv => TypeOK
  BY DEF TypeInv
<1> QED BY <1>1, TypeInit, TypeStep, PTL DEF Spec

-----------------------------------------------------------------------------
(* The promises of ToolContract: the inductive invariant                   *)

(* What one more fact changes in the sets read off a log.                  *)
LEMMA FactsAfter ==
  ASSUME NEW S, NEW t, NEW c
  PROVE  /\ StartedIn(S \cup {Fact(t, c)}) =
              IF t = "tool_started" THEN StartedIn(S) \cup ({c} \cap Calls) ELSE StartedIn(S)
         /\ FinishedIn(S \cup {Fact(t, c)}) =
              IF t \in Results THEN FinishedIn(S) \cup ({c} \cap Calls) ELSE FinishedIn(S)
BY DEF StartedIn, FinishedIn, Results, Fact

(* An append that is about no execution leaves those sets alone.           *)
LEMMA AppendOther ==
  ASSUME NEW t, NEW c, NEW k, Append(Fact(t, c), k),
         t \notin {"tool_started"} \cup Results
  PROVE  /\ StartedIn(log') = StartedIn(log) /\ FinishedIn(log') = FinishedIn(log)
         /\ StartedIn(tail') = StartedIn(tail) /\ FinishedIn(tail') = FinishedIn(tail)
         /\ log \subseteq log' /\ log' \subseteq log \cup {Fact(t, c)}
         /\ pc' \in {k, "refused"}
<1>1. CASE Accepts(Fact(t, c))
  <2>1. log' = log \cup {Fact(t, c)} /\ tail' = tail \cup {Fact(t, c)} /\ pc' = k
    BY <1>1 DEF Append
  <2> QED BY <2>1, FactsAfter
<1>2. CASE ~Accepts(Fact(t, c))
  BY <1>2 DEF Append
<1> QED BY <1>1, <1>2

(* The start of a call, and its result, change exactly one of them.        *)
LEMMA StartOfCall ==
  ASSUME NEW S, NEW c \in Calls
  PROVE  /\ StartedIn(S \cup {Fact("tool_started", c)}) = StartedIn(S) \cup {c}
         /\ FinishedIn(S \cup {Fact("tool_started", c)}) = FinishedIn(S)
BY DEF StartedIn, FinishedIn, Results, Fact

LEMMA ResultOfCall ==
  ASSUME NEW S, NEW c \in Calls, NEW t \in Results
  PROVE  /\ StartedIn(S \cup {Fact(t, c)}) = StartedIn(S)
         /\ FinishedIn(S \cup {Fact(t, c)}) = FinishedIn(S) \cup {c}
BY DEF StartedIn, FinishedIn, Results, Fact

(* A held run has not ended.                                               *)
LEMMA HeldRun ==
  ASSUME ContractInv, pc # "ended"
  PROVE  /\ run.state \notin TerminalStates /\ run.reason = "none"
         /\ Fact("terminal", NoCall) \notin log
BY DEF ContractInv, EndsOnce

(* Between two executions: no call is current.                             *)
Idle == pc \notin {"invoke", "invoked", "settled"}

(* trigger_policy keeps the invariant wherever the runtime calls it.       *)
LEMMA KeepTrigger ==
  ASSUME TypeInv, ContractInv, Live, Idle, pc # "decided",
         NEW r \in StoppedReasons, Trigger(r), UNCHANGED world
  PROVE  ContractInv'
<1>1. /\ StartedIn(log') = StartedIn(log) /\ FinishedIn(log') = FinishedIn(log)
      /\ StartedIn(tail') = StartedIn(tail) /\ FinishedIn(tail') = FinishedIn(tail)
      /\ log \subseteq log' /\ log' \subseteq log \cup {Fact("policy_triggered", NoCall)}
      /\ pc' \in {"ending", "refused"}
  BY AppendOther DEF Trigger, Results
<1>2. UNCHANGED <<run, ckpt, ctx>>
  BY DEF Trigger
<1>3. Equipped' /\ StandsAt'
  BY <1>1, TriggerType DEF StandsAt, TypeInv
<1>4. EndsOnce'
  BY <1>1, <1>2, HeldRun DEF Live, EndsOnce, Fact
<1>5. InOrder' /\ CheckpointKnows' /\ AtMostOnceUnlessAbandoned'
  BY <1>1, <1>2 DEF ContractInv, InOrder, CheckpointKnows, AtMostOnceUnlessAbandoned,
                    HasCheckpoint, world
<1>6. DecisionSaved'
  BY <1>1, <1>2 DEF ContractInv, DecisionSaved, Live, HasCheckpoint
<1>7. CoroutineKnows'
  BY <1>1, <1>2 DEF ContractInv, CoroutineKnows, Live, Idle, Current, world
<1>8. ExecutingOnce'
  BY <1>1 DEF ExecutingOnce
<1> QED BY <1>3, <1>4, <1>5, <1>6, <1>7, <1>8 DEF ContractInv

(* terminate() is called with the call at hand, if any, given up.          *)
LEMMA KeepTerminate ==
  ASSUME TypeInv, ContractInv, Live, pc # "decided",
         NEW s \in TerminalStates, NEW r \in ReasonsFor[s], Terminate(s, r),
         UNCHANGED <<durable, ctx, effects>>,
         abandoned \subseteq abandoned',
         Current \subseteq abandoned', pc # "settled"
  PROVE  ContractInv'
<1>1. pc' = "ending"
  BY DEF Terminate
<1>2. Equipped'
  BY TerminateType
<1>3. StandsAt' /\ EndsOnce'
  BY <1>1, HeldRun DEF StandsAt, EndsOnce, Live, durable
<1>4. InOrder' /\ CheckpointKnows' /\ AtMostOnceUnlessAbandoned'
  BY DEF ContractInv, InOrder, CheckpointKnows, AtMostOnceUnlessAbandoned, HasCheckpoint,
         durable
<1>5. DecisionSaved'
  BY <1>1 DEF ContractInv, DecisionSaved, Live, HasCheckpoint, durable
<1>6. StartedIn(log') \subseteq ctx'.done \cup abandoned'
  BY DEF ContractInv, CoroutineKnows, durable
<1>7. FinishedIn(log') \subseteq ctx'.done
  <2>1. Current \cap FinishedIn(log) = {}
    BY DEF ContractInv, ExecutingOnce, Current
  <2> QED BY <2>1 DEF ContractInv, CoroutineKnows, durable
<1>8. CoroutineKnows' /\ ExecutingOnce'
  BY <1>1, <1>6, <1>7 DEF CoroutineKnows, ExecutingOnce
<1> QED BY <1>2, <1>3, <1>4, <1>5, <1>8 DEF ContractInv

(* A checkpoint of the context is taken between executions, when the       *)
(* decision it holds is the one last saved or no tool state is reached.    *)
LEMMA KeepCheckpoint ==
  ASSUME TypeInv, ContractInv, Live, Idle, Live', Idle',
         NEW c \in Contexts, SaveCheckpoint(c), ctx' = c,
         c.done = ctx.done, c.pending = ctx.pending,
         run.state = "tool_executing" => pc = "ending",
         pc' # "granted",
         Equipped', StandsAt', UNCHANGED world
  PROVE  ContractInv'
<1>1. UNCHANGED <<run, log>> /\ ckpt' = c /\ tail' = {}
  BY DEF SaveCheckpoint
<1>2. EndsOnce'
  BY <1>1, HeldRun DEF EndsOnce, Live
<1>3. InOrder' /\ AtMostOnceUnlessAbandoned'
  BY <1>1 DEF ContractInv, InOrder, AtMostOnceUnlessAbandoned, world
<1>4. DecisionSaved'
  <2>1. (run.state = "tool_executing" /\ ctx.pending \in ToolCalls)
          => Fact("tool_approved", ctx.pending.call) \in log
    BY DEF ContractInv, DecisionSaved, ToolStates
  <2>2. HasCheckpoint' /\ ckpt'.pending = ctx'.pending
    BY <1>1, CheckpointAssumption DEF HasCheckpoint
  <2>3. ckpt'.pending = ctx.pending /\ run' = run /\ log' = log
    BY <1>1
  <2> HIDE DEF HasCheckpoint
  <2> QED BY <2>1, <2>2, <2>3 DEF DecisionSaved
<1>5. /\ StartedIn(log) \subseteq c.done \cup abandoned
      /\ FinishedIn(log) \subseteq c.done
  BY DEF ContractInv, CoroutineKnows, Idle, Current
<1>6. CheckpointKnows'
  BY <1>1, <1>5 DEF CheckpointKnows, world
<1>7. CoroutineKnows' /\ ExecutingOnce'
  BY <1>1, <1>5 DEF CoroutineKnows, ExecutingOnce, Idle, world
<1> QED BY <1>2, <1>3, <1>4, <1>6, <1>7 DEF ContractInv

(* A transition between executions, to a state without a tool or with the  *)
(* decision saved before.                                                  *)
LEMMA KeepTransition ==
  ASSUME TypeInv, ContractInv, Live, Idle, Idle',
         NEW s \in ActiveStates, NEW k, Transition(s, k), k \notin {"ended", "granted"},
         ctx' = ctx, goal' = goal, UNCHANGED world,
         s \in ToolStates \cup {"decision_received"}
           => \/ run.state \in (ToolStates \cup {"decision_received"}) /\ pc # "decided"
              \/ k = "decided",
         s = "tool_executing" => pc = "granted",
         Equipped', StandsAt'
  PROVE  ContractInv'
<1>1. run' = [run EXCEPT !.state = s] /\ pc' = k /\ UNCHANGED <<log, tail, ckpt>>
  BY DEF Transition
<1>2. s \notin TerminalStates
  BY DEF ActiveStates, TerminalStates
<1>3. run'.state = s /\ run'.reason = run.reason
  BY <1>1 DEF TypeInv, TypeOK
<1>4. EndsOnce'
  BY <1>1, <1>2, <1>3, HeldRun DEF EndsOnce, Live
<1>5. InOrder' /\ CheckpointKnows' /\ AtMostOnceUnlessAbandoned'
  BY <1>1 DEF ContractInv, InOrder, CheckpointKnows, AtMostOnceUnlessAbandoned,
              HasCheckpoint, world
<1>6. DecisionSaved'
  <2>1. s = "tool_executing" =>
          /\ ckpt.pending = ctx.pending
          /\ Fact("tool_approved", ctx.pending.call) \in log
    BY DEF ContractInv, DecisionSaved, Equipped, StandsAt, Live, ToolStates
  <2>2. (pc # "decided" /\ ctx.pending \in ToolCalls
           /\ run.state \in ToolStates \cup {"decision_received"})
          => HasCheckpoint /\ ckpt.pending = ctx.pending
    BY DEF ContractInv, DecisionSaved
  <2> QED BY <1>1, <1>3, <2>1, <2>2 DEF DecisionSaved, HasCheckpoint
<1>7. CoroutineKnows' /\ ExecutingOnce'
  BY <1>1 DEF ContractInv, CoroutineKnows, ExecutingOnce, Idle, Current, world
<1> QED BY <1>4, <1>5, <1>6, <1>7 DEF ContractInv

(* The coroutine moves on without a write.                                 *)
LEMMA KeepMove ==
  ASSUME TypeInv, ContractInv, Live, Idle, UNCHANGED <<durable, ctx, goal, world>>,
         pc = "decided" => ctx.pending \notin ToolCalls,
         pc' \in {"drive", "budget"}, StandsAt'
  PROVE  ContractInv'
<1>1. Equipped'
  BY DEF Equipped
<1>2. EndsOnce'
  BY HeldRun DEF EndsOnce, Live, durable
<1>3. InOrder' /\ CheckpointKnows' /\ AtMostOnceUnlessAbandoned'
  BY DEF ContractInv, InOrder, CheckpointKnows, AtMostOnceUnlessAbandoned,
         HasCheckpoint, durable, world
<1>4. DecisionSaved'
  BY DEF ContractInv, DecisionSaved, HasCheckpoint, Live, durable
<1>5. CoroutineKnows' /\ ExecutingOnce'
  BY DEF ContractInv, CoroutineKnows, ExecutingOnce, Idle, Current, durable, world
<1> QED BY <1>1, <1>2, <1>3, <1>4, <1>5 DEF ContractInv

LEMMA ContractInit == Init => ContractInv
BY DEF Init, ContractInv, Equipped, StandsAt, EndsOnce, InOrder, DecisionSaved,
       CoroutineKnows, CheckpointKnows, ExecutingOnce, AtMostOnceUnlessAbandoned,
       StartedIn, FinishedIn, HasCheckpoint, Live, TerminalStates, ToolStates, Current

(* Every step of the model request keeps the invariant.                    *)
LEMMA ContractModel ==
  ASSUME TypeInv, TypeInv', ContractInv,
         \/ StopBeforeModel \/ RequestModel
         \/ \E d \in ToolCalls \cup {FinalAnswer}, u \in Tokens \cup {NoUsage} :
              ModelResponds(d, u)
         \/ ModelInvalid
         \/ \E retryable \in BOOLEAN : ModelFails(retryable)
         \/ StopOnErrors \/ RecordDecision \/ CheckpointDecision \/ CheckBudget
  PROVE  ContractInv'
<1>a. Equipped'
  BY DEF TypeInv
<1>1. CASE StopBeforeModel
  <2>1. PICK r \in StoppedReasons : Trigger(r)
    BY <1>1 DEF StopBeforeModel, StoppedReasons
  <2> QED BY <1>1, <2>1, KeepTrigger DEF StopBeforeModel, At, Live, Idle
<1>2. CASE RequestModel
  <2>1. /\ run'.state = "model_pending" /\ run'.reason = run.reason
        /\ run.state = "model_pending" /\ pc = "drive" /\ pc' = "model_call"
        /\ ctx'.done = ctx.done
        /\ UNCHANGED <<log, tail, ckpt, effects, abandoned>>
    BY <1>2 DEF RequestModel, At, TypeInv, TypeOK, Contexts
  <2>2. StandsAt' /\ EndsOnce'
    BY <2>1, HeldRun DEF StandsAt, EndsOnce, TerminalStates
  <2>3. InOrder' /\ CheckpointKnows' /\ AtMostOnceUnlessAbandoned'
    BY <2>1 DEF ContractInv, InOrder, CheckpointKnows, AtMostOnceUnlessAbandoned,
                HasCheckpoint
  <2>4. DecisionSaved' /\ ExecutingOnce'
    BY <2>1 DEF DecisionSaved, ToolStates, ExecutingOnce
  <2>5. CoroutineKnows'
    BY <2>1 DEF ContractInv, CoroutineKnows, Live, Current
  <2> QED BY <1>a, <2>2, <2>3, <2>4, <2>5 DEF ContractInv
<1>3. ASSUME NEW d \in ToolCalls \cup {FinalAnswer}, NEW u \in Tokens \cup {NoUsage},
             ModelResponds(d, u)
      PROVE ContractInv'
  <2>1. /\ StartedIn(log') = StartedIn(log) /\ FinishedIn(log') = FinishedIn(log)
        /\ StartedIn(tail') = StartedIn(tail) /\ FinishedIn(tail') = FinishedIn(tail)
        /\ log \subseteq log' /\ log' \subseteq log \cup {Fact("model_responded", NoCall)}
        /\ pc' \in {"responded", "refused"}
    BY <1>3, AppendOther DEF ModelResponds, Results
  <2>2. /\ run.state = "model_pending" /\ pc = "model_call" /\ ctx'.done = ctx.done
        /\ UNCHANGED <<run, ckpt, effects, abandoned>>
    BY <1>3 DEF ModelResponds, ContractInv, StandsAt, TypeInv, TypeOK, Contexts, world
  <2>3. StandsAt' /\ EndsOnce'
    BY <2>1, <2>2, HeldRun DEF StandsAt, EndsOnce, Fact
  <2>4. InOrder' /\ CheckpointKnows' /\ AtMostOnceUnlessAbandoned'
    BY <2>1, <2>2 DEF ContractInv, InOrder, CheckpointKnows, AtMostOnceUnlessAbandoned,
                      HasCheckpoint
  <2>5. DecisionSaved' /\ ExecutingOnce'
    BY <2>1, <2>2 DEF DecisionSaved, ToolStates, ExecutingOnce
  <2>6. CoroutineKnows'
    BY <2>1, <2>2 DEF ContractInv, CoroutineKnows, Live, Current
  <2> QED BY <1>a, <2>3, <2>4, <2>5, <2>6 DEF ContractInv
<1>4. CASE ModelInvalid
  <2>1. "failed" \in TerminalStates /\ "invalid_model_response" \in ReasonsFor["failed"]
    BY DEF TerminalStates, ReasonsFor, FailedReasons
  <2> QED BY <1>4, <2>1, KeepTerminate DEF ModelInvalid, Live, Current, durable, world
<1>5. ASSUME NEW retryable \in BOOLEAN, ModelFails(retryable)
      PROVE ContractInv'
  <2> DEFINE failed == [ctx EXCEPT !.errors = @ + 1]
  <2>1. failed \in Contexts /\ failed.done = ctx.done /\ failed.pending = ctx.pending
    BY DEF TypeInv, TypeOK, Contexts
  <2>2. /\ pc = "model_call" /\ pc' \in {"ending", "notify", "drive"}
        /\ ctx' = failed /\ SaveCheckpoint(failed) /\ UNCHANGED world
    BY <1>5 DEF ModelFails, FailWith, Terminate
  <2>3. run.state = "model_pending" /\ run' = run
    BY <2>2 DEF ContractInv, StandsAt, SaveCheckpoint
  <2>4. StandsAt' /\ Live /\ Live' /\ Idle /\ Idle'
    BY <2>2, <2>3 DEF StandsAt, Live, Idle
  <2> HIDE DEF failed
  <2> QED BY <1>a, <2>1, <2>2, <2>3, <2>4, KeepCheckpoint
<1>6. CASE StopOnErrors
  <2>1. "consecutive_errors" \in StoppedReasons
    BY DEF StoppedReasons
  <2> QED BY <1>6, <2>1, KeepTrigger DEF StopOnErrors, Live, Idle
<1>7. CASE RecordDecision
  <2>1. "decision_received" \in ActiveStates /\ "decision_received" # "tool_executing"
    BY DEF ActiveStates
  <2>2. StandsAt'
    BY <1>7 DEF RecordDecision, Transition, StandsAt, TypeInv, TypeOK
  <2>3. Transition("decision_received", "decided") /\ Live /\ Idle /\ Idle'
    BY <1>7 DEF RecordDecision, Transition, Live, Idle
  <2> QED BY <1>7, <1>a, <2>1, <2>2, <2>3, KeepTransition DEF RecordDecision
<1>8. CASE CheckpointDecision
  <2>1. /\ run.state = "decision_received" /\ pc = "decided" /\ pc' = "budget"
        /\ run' = run /\ ctx' = ctx /\ ctx \in Contexts
    BY <1>8 DEF CheckpointDecision, SaveCheckpoint, durable, ContractInv, StandsAt,
                TypeInv, TypeOK
  <2>2. StandsAt' /\ Live /\ Live' /\ Idle /\ Idle'
    BY <2>1 DEF StandsAt, Live, Idle
  <2>3. CASE SaveCheckpoint(ctx)
    BY <1>8, <1>a, <2>1, <2>2, <2>3, KeepCheckpoint DEF CheckpointDecision
  <2>4. CASE UNCHANGED durable /\ ctx.pending \notin ToolCalls
    BY <1>8, <2>1, <2>2, <2>4, KeepMove DEF CheckpointDecision
  <2> QED BY <1>8, <2>3, <2>4 DEF CheckpointDecision
<1>9. CASE CheckBudget
  <2>1. "token_budget_exceeded" \in StoppedReasons
    BY DEF StoppedReasons
  <2>2. pc = "budget" /\ Live /\ Idle /\ UNCHANGED world
    BY <1>9 DEF CheckBudget, Live, Idle
  <2>3. CASE Trigger("token_budget_exceeded")
    BY <2>1, <2>2, <2>3, KeepTrigger
  <2>4. CASE pc' = "drive" /\ UNCHANGED <<durable, ctx, goal>>
    BY <2>2, <2>4, KeepMove DEF StandsAt
  <2> QED BY <1>9, <2>3, <2>4 DEF CheckBudget
<1> QED BY <1>1, <1>2, <1>3, <1>4, <1>5, <1>6, <1>7, <1>8, <1>9

(* Every step on a decision and an approval keeps the invariant.           *)
LEMMA ContractDecision ==
  ASSUME TypeInv, TypeInv', ContractInv,
         \/ DecisionMissing \/ Complete \/ ContainRepetition \/ AcceptToolCall
         \/ AskApproval \/ Approve \/ Deny \/ ApprovalFails \/ StopOnDenial
         \/ GrantExecution
  PROVE  ContractInv'
<1> "failed" \in TerminalStates /\ "internal_error" \in ReasonsFor["failed"]
  BY DEF TerminalStates, ReasonsFor, FailedReasons
<1>a. Equipped'
  BY DEF TypeInv
<1>1. CASE DecisionMissing
  BY <1>1, KeepTerminate DEF DecisionMissing, Live, Current, durable, world
<1>2. CASE Complete
  <2>1. "completed" \in TerminalStates /\ "completed" \in ReasonsFor["completed"]
    BY DEF TerminalStates, ReasonsFor
  <2> QED BY <1>2, <2>1, KeepTerminate DEF Complete, At, Live, Current, durable, world
<1>3. CASE ContainRepetition
  <2>1. "repeated_action" \in StoppedReasons
    BY DEF StoppedReasons
  <2> QED BY <1>3, <2>1, KeepTrigger DEF ContainRepetition, At, Live, Idle
<1>4. CASE AcceptToolCall
  <2>1. Transition("tool_pending", "drive") /\ pc = "drive" /\ run.state = "decision_received"
    BY <1>4 DEF AcceptToolCall, At
  <2>2. Live /\ Idle /\ Idle' /\ StandsAt'
    BY <2>1 DEF Transition, Live, Idle, StandsAt
  <2>3. "tool_pending" \in ActiveStates
    BY DEF ActiveStates
  <2> QED BY <1>4, <1>a, <2>1, <2>2, <2>3, KeepTransition DEF AcceptToolCall, ToolStates
<1>5. CASE AskApproval
  <2>1. Transition("approval_pending", "drive") /\ pc = "drive" /\ run.state = "tool_pending"
    BY <1>5 DEF AskApproval, At
  <2>2. Live /\ Idle /\ Idle' /\ StandsAt'
    BY <2>1 DEF Transition, Live, Idle, StandsAt
  <2>3. "approval_pending" \in ActiveStates
    BY DEF ActiveStates
  <2> QED BY <1>5, <1>a, <2>1, <2>2, <2>3, KeepTransition DEF AskApproval, ToolStates
<1>6. ASSUME NEW t \in {"tool_approved", "tool_denied"}, NEW k \in {"granted", "denied"},
             At("approval_pending"), ctx.pending \in ToolCalls,
             Append(Fact(t, ctx.pending.call), k), k = "granted" => t = "tool_approved",
             UNCHANGED <<run, ckpt, ctx, goal, world>>
      PROVE ContractInv'
  <2> DEFINE f == Fact(t, ctx.pending.call)
  <2>1. /\ StartedIn(log') = StartedIn(log) /\ FinishedIn(log') = FinishedIn(log)
        /\ StartedIn(tail') = StartedIn(tail) /\ FinishedIn(tail') = FinishedIn(tail)
        /\ log \subseteq log' /\ log' \subseteq log \cup {f}
        /\ pc' \in {k, "refused"}
    BY <1>6, AppendOther DEF Results
  <2>2. pc' = "granted" => Fact("tool_approved", ctx.pending.call) \in log'
    BY <1>6 DEF Append
  <2>3. pc = "drive" /\ run.state = "approval_pending"
    BY <1>6 DEF At
  <2>4. StandsAt' /\ ExecutingOnce'
    BY <1>6, <2>1, <2>3 DEF StandsAt, ExecutingOnce
  <2>5. EndsOnce'
    BY <1>6, <2>1, <2>3, HeldRun DEF EndsOnce, Fact
  <2>6. InOrder' /\ CheckpointKnows' /\ AtMostOnceUnlessAbandoned'
    BY <1>6, <2>1 DEF ContractInv, InOrder, CheckpointKnows, AtMostOnceUnlessAbandoned,
                      HasCheckpoint, world
  <2>7. DecisionSaved'
    BY <1>6, <2>1, <2>2, <2>3 DEF ContractInv, DecisionSaved, Live, HasCheckpoint
  <2>8. CoroutineKnows'
    BY <1>6, <2>1, <2>3 DEF ContractInv, CoroutineKnows, Live, Current, world
  <2> QED BY <1>a, <2>4, <2>5, <2>6, <2>7, <2>8 DEF ContractInv
<1>7. CASE Approve
  BY <1>6, <1>7 DEF Approve
<1>8. CASE Deny
  BY <1>6, <1>8 DEF Deny
<1>9. CASE ApprovalFails
  BY <1>9, KeepTerminate DEF ApprovalFails, At, Live, Current, durable, world
<1>10. CASE StopOnDenial
  <2>1. "policy_denied" \in StoppedReasons
    BY DEF StoppedReasons
  <2> QED BY <1>10, <2>1, KeepTrigger DEF StopOnDenial, Live, Idle
<1>11. CASE GrantExecution
  <2>1. /\ Transition("tool_executing", "drive") /\ pc = "granted"
        /\ run.state = "approval_pending"
    BY <1>11 DEF GrantExecution, ContractInv, StandsAt
  <2>2. Live /\ Idle /\ Idle' /\ StandsAt'
    BY <2>1 DEF Transition, Live, Idle, StandsAt
  <2>3. "tool_executing" \in ActiveStates
    BY DEF ActiveStates
  <2> QED BY <1>11, <1>a, <2>1, <2>2, <2>3, KeepTransition DEF GrantExecution, ToolStates
<1> QED BY <1>1, <1>2, <1>3, <1>4, <1>5, <1>7, <1>8, <1>9, <1>10, <1>11

(* StartTool: by what the coroutine knows, a call it does not know to be   *)
(* settled was never started, or was abandoned.                            *)
LEMMA ContractStart ==
  ASSUME TypeInv, TypeInv', ContractInv, StartTool
  PROVE  ContractInv'
<1> DEFINE c == ctx.pending.call
<1>1. /\ pc = "drive" /\ run.state = "tool_executing"
      /\ ctx.pending \in ToolCalls /\ c \in Calls /\ c \notin ctx.done
      /\ Append(Fact("tool_started", c), "invoke")
      /\ UNCHANGED <<run, ckpt, ctx, goal, effects, abandoned>>
  BY DEF StartTool, At, ToolCalls, world
<1>2. Fact("tool_approved", c) \in log
  BY <1>1 DEF ContractInv, DecisionSaved, Live, ToolStates
<1>3. c \notin FinishedIn(log) /\ (c \in StartedIn(log) => c \in abandoned)
  BY <1>1 DEF ContractInv, CoroutineKnows, Live, Current
<1>4. effects[c] = 0 \/ c \in abandoned
  <2>1. effects[c] \in Nat
    BY <1>1 DEF TypeInv, TypeOK
  <2> QED BY <1>1, <1>3, <2>1 DEF ContractInv, InOrder
<1>5. CASE pc' = "refused" /\ UNCHANGED <<log, tail>>
  <2>1. Equipped' /\ StandsAt' /\ DecisionSaved' /\ ExecutingOnce' /\ CoroutineKnows'
    BY <1>1, <1>5 DEF Equipped, StandsAt, ContractInv, DecisionSaved, ExecutingOnce,
                      CoroutineKnows, Live, HasCheckpoint
  <2>2. EndsOnce'
    BY <1>1, <1>5, HeldRun DEF EndsOnce
  <2>3. InOrder' /\ CheckpointKnows' /\ AtMostOnceUnlessAbandoned'
    BY <1>1, <1>5 DEF ContractInv, InOrder, CheckpointKnows, AtMostOnceUnlessAbandoned,
                      HasCheckpoint
  <2> QED BY <2>1, <2>2, <2>3 DEF ContractInv
<1>6. CASE /\ pc' = "invoke"
           /\ log' = log \cup {Fact("tool_started", c)}
           /\ tail' = tail \cup {Fact("tool_started", c)}
  <2>1. /\ StartedIn(log') = StartedIn(log) \cup {c} /\ FinishedIn(log') = FinishedIn(log)
        /\ StartedIn(tail') = StartedIn(tail) \cup {c} /\ FinishedIn(tail') = FinishedIn(tail)
    <3>1. c \in Calls
      BY <1>1
    <3> HIDE DEF c
    <3> QED BY <1>6, <3>1, StartOfCall
  <2>2. Equipped' /\ StandsAt'
    BY <1>1, <1>6 DEF StandsAt, TypeInv
  <2>3. EndsOnce'
    BY <1>1, <1>6, HeldRun DEF EndsOnce, Fact
  <2>4. InOrder' /\ CheckpointKnows' /\ AtMostOnceUnlessAbandoned'
    BY <1>1, <1>2, <1>6, <2>1 DEF ContractInv, InOrder, CheckpointKnows,
                                  AtMostOnceUnlessAbandoned, HasCheckpoint
  <2>5. DecisionSaved'
    BY <1>1, <1>6 DEF ContractInv, DecisionSaved, Live, HasCheckpoint
  <2>6. CoroutineKnows'
    BY <1>1, <1>6, <2>1 DEF ContractInv, CoroutineKnows, Live, Current
  <2>7. ExecutingOnce'
    BY <1>1, <1>3, <1>4, <1>6, <2>1 DEF ExecutingOnce
  <2> QED BY <2>2, <2>3, <2>4, <2>5, <2>6, <2>7 DEF ContractInv
<1> QED BY <1>1, <1>5, <1>6 DEF Append

(* The execution and its result.                                           *)
LEMMA ContractExecute ==
  ASSUME TypeInv, TypeInv', ContractInv,
         ToolTakesEffect \/ (\E ok \in BOOLEAN : ToolSettles(ok)) \/ RecordObservation
  PROVE  ContractInv'
<1> DEFINE c == ctx.pending.call
<1>a. Equipped'
  BY DEF TypeInv
<1>b. pc \in {"invoke", "invoked", "settled"} /\ run.state = "tool_executing"
  BY DEF ToolTakesEffect, ToolSettles, RecordObservation, ContractInv, StandsAt
<1>c. ctx.pending \in ToolCalls /\ c \in Calls /\ Current = {c}
  BY <1>b DEF TypeInv, Equipped, ToolCalls, Current
<1>1. CASE ToolTakesEffect
  <2>1. /\ pc = "invoke" /\ pc' = "invoked" /\ effects' = [effects EXCEPT ![c] = @ + 1]
        /\ UNCHANGED <<run, log, tail, ckpt, ctx, goal, abandoned>>
    BY <1>1 DEF ToolTakesEffect, durable
  <2>2. \A d \in Calls : effects'[d] = IF d = c THEN effects[c] + 1 ELSE effects[d]
    BY <2>1, <1>c DEF TypeInv, TypeOK
  <2>3. AtMostOnceUnlessAbandoned'
    BY <2>1, <2>2 DEF ContractInv, AtMostOnceUnlessAbandoned, ExecutingOnce
  <2>4. InOrder'
    BY <2>1, <2>2 DEF ContractInv, InOrder, ExecutingOnce
  <2>5. StandsAt' /\ EndsOnce' /\ DecisionSaved' /\ CheckpointKnows' /\ ExecutingOnce'
    BY <1>b, <2>1 DEF ContractInv, StandsAt, EndsOnce, DecisionSaved, CheckpointKnows,
                      ExecutingOnce, Live, HasCheckpoint
  <2>6. CoroutineKnows'
    BY <2>1 DEF ContractInv, CoroutineKnows, Live, Current
  <2> QED BY <1>a, <2>3, <2>4, <2>5, <2>6 DEF ContractInv
<1>2. ASSUME NEW ok \in BOOLEAN, ToolSettles(ok)
      PROVE ContractInv'
  <2>1. PICK t \in Results : Append(Fact(t, c), "settled")
    BY <1>2 DEF ToolSettles, Results
  <2>2. pc \in {"invoke", "invoked"} /\ UNCHANGED <<run, ckpt, ctx, goal, effects, abandoned>>
    BY <1>2 DEF ToolSettles, world
  <2>3. CASE pc' = "refused" /\ UNCHANGED <<log, tail>>
    <3>1. StandsAt' /\ DecisionSaved' /\ ExecutingOnce' /\ CoroutineKnows'
      BY <1>b, <2>2, <2>3 DEF StandsAt, ContractInv, DecisionSaved, ExecutingOnce,
                              CoroutineKnows, Live, HasCheckpoint
    <3>2. EndsOnce'
      BY <2>2, <2>3, HeldRun DEF EndsOnce
    <3>3. InOrder' /\ CheckpointKnows' /\ AtMostOnceUnlessAbandoned'
      BY <2>2, <2>3 DEF ContractInv, InOrder, CheckpointKnows, AtMostOnceUnlessAbandoned,
                        HasCheckpoint
    <3> QED BY <1>a, <3>1, <3>2, <3>3 DEF ContractInv
  <2>4. CASE /\ pc' = "settled"
             /\ log' = log \cup {Fact(t, c)} /\ tail' = tail \cup {Fact(t, c)}
    <3>1. /\ StartedIn(log') = StartedIn(log) /\ FinishedIn(log') = FinishedIn(log) \cup {c}
          /\ StartedIn(tail') = StartedIn(tail) /\ FinishedIn(tail') = FinishedIn(tail) \cup {c}
      <4>1. c \in Calls /\ t \in Results
        BY <1>c, <2>1
      <4> HIDE DEF c
      <4> QED BY <2>4, <4>1, ResultOfCall
    <3>2. StandsAt' /\ ExecutingOnce'
      BY <1>b, <2>2, <2>4 DEF StandsAt, ExecutingOnce
    <3>3. EndsOnce'
      BY <2>2, <2>4, HeldRun DEF EndsOnce, Fact, Results
    <3>4. InOrder' /\ CheckpointKnows' /\ AtMostOnceUnlessAbandoned'
      BY <2>2, <2>4, <3>1 DEF ContractInv, InOrder, CheckpointKnows, ExecutingOnce,
                              AtMostOnceUnlessAbandoned, HasCheckpoint
    <3>5. DecisionSaved'
      BY <2>2, <2>4 DEF ContractInv, DecisionSaved, Live, HasCheckpoint
    <3>6. CoroutineKnows'
      BY <1>c, <2>2, <2>4, <3>1 DEF ContractInv, CoroutineKnows, Live, Current
    <3> QED BY <1>a, <3>2, <3>3, <3>4, <3>5, <3>6 DEF ContractInv
  <2> QED BY <2>1, <2>3, <2>4 DEF Append
<1>3. CASE RecordObservation
  <2>1. /\ pc = "settled" /\ pc' = "observed"
        /\ run'.state = "observation_recorded" /\ run'.reason = run.reason
        /\ ctx'.done = ctx.done \cup {c}
        /\ UNCHANGED <<log, tail, ckpt, effects, abandoned>>
    BY <1>3 DEF RecordObservation, Transition, WithResults, TypeInv, TypeOK, Contexts, world
  <2>2. StandsAt' /\ ExecutingOnce' /\ DecisionSaved'
    BY <2>1 DEF StandsAt, ExecutingOnce, DecisionSaved, ToolStates
  <2>3. EndsOnce'
    BY <2>1, HeldRun DEF EndsOnce, TerminalStates
  <2>4. InOrder' /\ CheckpointKnows' /\ AtMostOnceUnlessAbandoned'
    BY <2>1 DEF ContractInv, InOrder, CheckpointKnows, AtMostOnceUnlessAbandoned,
                HasCheckpoint
  <2>5. CoroutineKnows'
    BY <1>c, <2>1 DEF ContractInv, CoroutineKnows, Live
  <2> QED BY <1>a, <2>2, <2>3, <2>4, <2>5 DEF ContractInv
<1> QED BY <1>1, <1>2, <1>3

(* The other steps of a tool execution.                                    *)
LEMMA ContractTool ==
  ASSUME TypeInv, TypeInv', ContractInv,
         \/ StopBeforeTool \/ RefuseCompleted \/ ToolRaises
         \/ CheckpointObservation
         \/ \E stuck \in BOOLEAN : ReviewProgress(stuck)
         \/ NextStep
  PROVE  ContractInv'
<1> "failed" \in TerminalStates /\ "internal_error" \in ReasonsFor["failed"]
  BY DEF TerminalStates, ReasonsFor, FailedReasons
<1>a. Equipped'
  BY DEF TypeInv
<1>1. CASE StopBeforeTool
  <2>1. "max_runtime" \in StoppedReasons
    BY DEF StoppedReasons
  <2> QED BY <1>1, <2>1, KeepTrigger DEF StopBeforeTool, At, Live, Idle
<1>2. CASE RefuseCompleted
  BY <1>2, KeepTerminate DEF RefuseCompleted, At, Live, Current, durable, world
<1>3. CASE ToolRaises
  BY <1>3, KeepTerminate DEF ToolRaises, Live, Current, durable
<1>4. CASE CheckpointObservation
  <2>1. /\ run.state = "observation_recorded" /\ pc = "observed" /\ pc' = "review"
        /\ run' = run /\ ctx' = ctx /\ ctx \in Contexts
    BY <1>4 DEF CheckpointObservation, SaveCheckpoint, ContractInv, StandsAt, TypeInv, TypeOK
  <2>2. StandsAt' /\ Live /\ Live' /\ Idle /\ Idle'
    BY <2>1 DEF StandsAt, Live, Idle
  <2> QED BY <1>4, <1>a, <2>1, <2>2, KeepCheckpoint DEF CheckpointObservation
<1>5. ASSUME NEW stuck \in BOOLEAN, ReviewProgress(stuck)
      PROVE ContractInv'
  <2>1. pc = "review" /\ Live /\ Idle /\ UNCHANGED world
    BY <1>5 DEF ReviewProgress, Live, Idle
  <2>2. CASE \E r \in StoppedReasons : Trigger(r)
    BY <2>1, <2>2, KeepTrigger
  <2>3. CASE pc' = "drive" /\ UNCHANGED <<durable, ctx, goal>>
    BY <2>1, <2>3, KeepMove DEF StandsAt
  <2> QED BY <1>5, <2>2, <2>3 DEF ReviewProgress, StoppedReasons
<1>6. CASE NextStep
  <2>1. /\ Transition("model_pending", "drive") /\ pc = "drive"
        /\ run.state = "observation_recorded"
    BY <1>6 DEF NextStep, At
  <2>2. Live /\ Idle /\ Idle' /\ StandsAt'
    BY <2>1 DEF Transition, Live, Idle, StandsAt
  <2>3. "model_pending" \in ActiveStates
    BY DEF ActiveStates
  <2> QED BY <1>6, <1>a, <2>1, <2>2, <2>3, KeepTransition DEF NextStep, ToolStates
<1> QED BY <1>1, <1>2, <1>3, <1>4, <1>5, <1>6

(* finalize_run: the end of the run, or its refusal.                       *)
LEMMA ContractFinalize ==
  ASSUME TypeInv, TypeInv', ContractInv, Finalize
  PROVE  ContractInv'
<1>1. /\ StartedIn(log') = StartedIn(log) /\ FinishedIn(log') = FinishedIn(log)
      /\ StartedIn(tail') = StartedIn(tail) /\ FinishedIn(tail') = FinishedIn(tail)
      /\ log \subseteq log' /\ log' \subseteq log \cup {Fact("terminal", NoCall)}
      /\ pc' \in {"ended", "refused"}
  BY AppendOther DEF Finalize, Results
<1>2. pc = "closing" /\ UNCHANGED <<ckpt, effects, abandoned>>
  BY DEF Finalize, world
<1>3. Equipped' /\ StandsAt' /\ ExecutingOnce' /\ CoroutineKnows'
  BY <1>1 DEF TypeInv, StandsAt, ExecutingOnce, CoroutineKnows, Live
<1>4. InOrder' /\ CheckpointKnows' /\ AtMostOnceUnlessAbandoned'
  BY <1>1, <1>2 DEF ContractInv, InOrder, CheckpointKnows, AtMostOnceUnlessAbandoned,
                    HasCheckpoint
<1>5. goal.state \in TerminalStates /\ goal.reason \in StopReason
  BY <1>2 DEF TypeInv, TypeOK, Equipped, Goals
<1>6. CASE Accepts(Fact("terminal", NoCall))
  <2>1. /\ run'.state = goal.state /\ run'.reason = goal.reason /\ pc' = "ended"
        /\ Fact("terminal", NoCall) \in log'
    BY <1>6 DEF Finalize, Append, TypeInv, TypeOK
  <2>2. goal.reason # "none" /\ goal.state # "tool_executing"
    BY <1>5 DEF StopReason, StoppedReasons, FailedReasons, TerminalStates
  <2>3. EndsOnce'
    BY <1>5, <2>1, <2>2 DEF EndsOnce
  <2>4. DecisionSaved'
    BY <1>1, <2>1, <2>2 DEF DecisionSaved, Live
  <2> QED BY <1>3, <1>4, <2>3, <2>4 DEF ContractInv
<1>7. CASE ~Accepts(Fact("terminal", NoCall))
  <2>1. run' = run /\ log' = log /\ pc' = "refused"
    BY <1>7 DEF Finalize, Append
  <2>2. EndsOnce'
    BY <1>2, <2>1, HeldRun DEF EndsOnce
  <2>3. DecisionSaved'
    BY <1>2, <2>1 DEF ContractInv, DecisionSaved, Live, HasCheckpoint
  <2> QED BY <1>3, <1>4, <2>2, <2>3 DEF ContractInv
<1> QED BY <1>6, <1>7

(* What resume() starts from knows every call the log knows: nothing is    *)
(* uncertain, and what trails the checkpoint is replayed.                  *)
LEMMA ReplayedKnows ==
  ASSUME TypeInv, ContractInv, CanResume
  PROVE  /\ HasCheckpoint /\ Replayed \in Contexts
         /\ StartedIn(log) \subseteq Replayed.done \cup abandoned
         /\ FinishedIn(log) \subseteq Replayed.done
         /\ Replayed.pending \in ToolCalls => Replayed.pending = ckpt.pending
<1>1. HasCheckpoint /\ ckpt \in Contexts /\ Settled = ckpt.done
  BY DEF CanResume, HasCheckpoint, TypeInv, TypeOK, Settled
<1>2. Replayed \in Contexts
  BY ReplayedType DEF CanResume, TypeInv
<1>3. Replayed.done = ckpt.done \cup FinishedIn(tail)
  BY <1>1 DEF Replayed, Replayable, WithResults, Contexts
<1>4. Replayed.pending \in ToolCalls => Replayed.pending = ckpt.pending
  BY <1>1, DistinctAssumption DEF Replayed, WithResults, Contexts
<1>5. StartedIn(tail) \subseteq FinishedIn(tail) \cup ckpt.done
  BY <1>1 DEF CanResume, Uncertain
<1>6. /\ StartedIn(log) \subseteq ckpt.done \cup StartedIn(tail) \cup abandoned
      /\ FinishedIn(log) \subseteq ckpt.done \cup FinishedIn(tail)
  BY <1>1 DEF ContractInv, CheckpointKnows
<1> QED BY <1>1, <1>2, <1>3, <1>4, <1>5, <1>6

LEMMA ContractRecover ==
  ASSUME TypeInv, TypeInv', ContractInv, Recover
  PROVE  ContractInv'
<1>a. Equipped'
  BY DEF TypeInv
<1>1. CASE Resume
  <2>1. /\ pc \in {"down", "refused"} /\ pc' = "drive" /\ ctx' = Replayed
        /\ UNCHANGED <<run, log, tail, ckpt, effects, abandoned>>
    BY <1>1 DEF Resume, CanResume, durable, world
  <2>2. StandsAt' /\ ExecutingOnce'
    BY <2>1 DEF StandsAt, ExecutingOnce
  <2>3. EndsOnce'
    BY <2>1, HeldRun DEF EndsOnce
  <2>4. InOrder' /\ CheckpointKnows' /\ AtMostOnceUnlessAbandoned'
    BY <2>1 DEF ContractInv, InOrder, CheckpointKnows, AtMostOnceUnlessAbandoned,
                HasCheckpoint
  <2>5. DecisionSaved'
    BY <1>1, <2>1, ReplayedKnows DEF Resume, ContractInv, DecisionSaved, HasCheckpoint
  <2>6. CoroutineKnows'
    BY <1>1, <2>1, ReplayedKnows DEF Resume, CoroutineKnows
  <2> QED BY <1>a, <2>2, <2>3, <2>4, <2>5, <2>6 DEF ContractInv
<1>2. CASE ResumeReplaying
  <2>1. /\ pc \in {"down", "refused"} /\ pc' = "replayed" /\ ctx' = Replayed
        /\ run'.state = "observation_recorded" /\ run'.reason = run.reason
        /\ UNCHANGED <<log, tail, ckpt, effects, abandoned>>
    BY <1>2 DEF ResumeReplaying, CanResume, Transition, world, TypeInv, TypeOK
  <2>2. StandsAt' /\ ExecutingOnce' /\ DecisionSaved'
    BY <2>1 DEF StandsAt, ExecutingOnce, DecisionSaved, ToolStates
  <2>3. EndsOnce'
    BY <2>1, HeldRun DEF EndsOnce, TerminalStates
  <2>4. InOrder' /\ CheckpointKnows' /\ AtMostOnceUnlessAbandoned'
    BY <2>1 DEF ContractInv, InOrder, CheckpointKnows, AtMostOnceUnlessAbandoned,
                HasCheckpoint
  <2>5. CoroutineKnows'
    BY <1>2, <2>1, ReplayedKnows DEF ResumeReplaying, CoroutineKnows
  <2> QED BY <1>a, <2>2, <2>3, <2>4, <2>5 DEF ContractInv
<1>3. CASE CheckpointReplay
  <2>1. /\ run.state = "observation_recorded" /\ pc = "replayed" /\ pc' = "drive"
        /\ run' = run /\ ctx' = ctx /\ ctx \in Contexts
    BY <1>3 DEF CheckpointReplay, SaveCheckpoint, ContractInv, StandsAt, TypeInv, TypeOK
  <2>2. StandsAt' /\ Live /\ Live' /\ Idle /\ Idle'
    BY <2>1 DEF StandsAt, Live, Idle
  <2> QED BY <1>3, <1>a, <2>1, <2>2, KeepCheckpoint DEF CheckpointReplay
<1> QED BY <1>1, <1>2, <1>3 DEF Recover

(* The beginning of a run, its cancellation, process loss, and the clock.  *)
LEMMA ContractLife ==
  ASSUME TypeInv, TypeInv', ContractInv,
         \/ Begin \/ FirstCheckpoint \/ CheckpointEnding
         \/ Cancel \/ Crash \/ Deadline \/ UNCHANGED vars
  PROVE  ContractInv'
<1>a. Equipped'
  BY DEF TypeInv
<1>1. CASE Begin
  <2>1. Transition("model_pending", "first_ckpt") /\ pc = "starting"
    BY <1>1 DEF Begin
  <2>2. Live /\ Idle /\ Idle' /\ StandsAt'
    BY <2>1 DEF Transition, Live, Idle, StandsAt, TypeInv, TypeOK
  <2>3. "model_pending" \in ActiveStates
    BY DEF ActiveStates
  <2> QED BY <1>1, <1>a, <2>1, <2>2, <2>3, KeepTransition DEF Begin, ToolStates
<1>2. CASE FirstCheckpoint
  <2>1. /\ run.state = "model_pending" /\ pc = "first_ckpt" /\ pc' = "drive"
        /\ run' = run /\ ctx' = ctx /\ ctx \in Contexts
    BY <1>2 DEF FirstCheckpoint, SaveCheckpoint, ContractInv, StandsAt, TypeInv, TypeOK
  <2>2. StandsAt' /\ Live /\ Live' /\ Idle /\ Idle'
    BY <2>1 DEF StandsAt, Live, Idle
  <2> QED BY <1>2, <1>a, <2>1, <2>2, KeepCheckpoint DEF FirstCheckpoint
<1>3. CASE CheckpointEnding
  <2>1. pc = "ending" /\ pc' = "closing" /\ run' = run /\ ctx' = ctx /\ ctx \in Contexts
    BY <1>3 DEF CheckpointEnding, SaveCheckpoint, TypeInv, TypeOK
  <2>2. StandsAt' /\ Live /\ Live' /\ Idle /\ Idle'
    BY <2>1 DEF StandsAt, Live, Idle
  <2> QED BY <1>3, <1>a, <2>1, <2>2, KeepCheckpoint DEF CheckpointEnding
<1>4. CASE Cancel
  <2>1. "cancelled" \in TerminalStates /\ "user_cancelled" \in ReasonsFor["cancelled"]
    BY DEF TerminalStates, ReasonsFor
  <2>2. /\ pc \in Waits \cup {"drive"}
        /\ Terminate("cancelled", "user_cancelled")
        /\ UNCHANGED <<durable, ctx, effects>>
        /\ abandoned \subseteq abandoned'
    BY <1>4 DEF Cancel, At
  <2>3. Current \subseteq abandoned'
    BY <1>4, <2>2 DEF Cancel, Current, Waits
  <2>4. Live /\ pc # "decided" /\ pc # "settled"
    BY <2>2 DEF Live, Waits
  <2> QED BY <2>1, <2>2, <2>3, <2>4, KeepTerminate
<1>5. CASE Crash
  <2>1. /\ Live /\ pc' = "down"
        /\ UNCHANGED <<run, log, tail, ckpt, effects, abandoned>>
    BY <1>5 DEF Crash, durable
  <2>2. StandsAt' /\ ExecutingOnce' /\ CoroutineKnows'
    BY <2>1 DEF StandsAt, ExecutingOnce, CoroutineKnows, Live
  <2>3. EndsOnce'
    BY <2>1, HeldRun DEF EndsOnce, Live
  <2>4. InOrder' /\ CheckpointKnows' /\ AtMostOnceUnlessAbandoned'
    BY <2>1 DEF ContractInv, InOrder, CheckpointKnows, AtMostOnceUnlessAbandoned,
                HasCheckpoint
  <2>5. DecisionSaved'
    BY <2>1 DEF ContractInv, DecisionSaved, Live, HasCheckpoint
  <2> QED BY <1>a, <2>2, <2>3, <2>4, <2>5 DEF ContractInv
<1>6. CASE Deadline \/ UNCHANGED vars
  <2>1. UNCHANGED <<run, log, tail, ckpt, pc, ctx, goal, effects, abandoned>>
    BY <1>6 DEF Deadline, vars, durable, volatile, world
  <2> QED BY <1>a, <2>1
          DEF ContractInv, StandsAt, EndsOnce, InOrder, DecisionSaved, CoroutineKnows,
              CheckpointKnows, ExecutingOnce, AtMostOnceUnlessAbandoned, HasCheckpoint,
              Live, Current
<1> QED BY <1>1, <1>2, <1>3, <1>4, <1>5, <1>6

LEMMA ContractStep == TypeInv /\ ContractInv /\ [Next]_vars => ContractInv'
<1> SUFFICES ASSUME TypeInv, ContractInv, [Next]_vars PROVE ContractInv'
  OBVIOUS
<1>1. TypeInv'
  BY TypeStep
<1> QED BY <1>1, ContractModel, ContractDecision, ContractStart, ContractExecute,
           ContractTool, ContractFinalize, ContractRecover, ContractLife
        DEF Next, Drive, Rest

(* The inductive invariant holds of every reachable state.                 *)
THEOREM ContractInvariant == Spec => [](TypeInv /\ ContractInv)
BY TypeInit, TypeStep, ContractInit, ContractStep, PTL DEF Spec

(* However often the process is lost and the run resumed, a tool call      *)
(* takes effect at most once, unless an execution of it ended in an        *)
(* exception or a cancellation.                                            *)
THEOREM NoSecondEffect == Spec => []AtMostOnceUnlessAbandoned
<1>1. TypeInv /\ ContractInv => AtMostOnceUnlessAbandoned
  BY DEF ContractInv
<1> QED BY <1>1, ContractInvariant, PTL

(* No tool takes effect before its approval and its start are durable.     *)
THEOREM ApprovalComesFirst == Spec => []EffectsApproved
<1>1. TypeInv /\ ContractInv => EffectsApproved
  BY DEF TypeInv, ContractInv, InOrder, EffectsApproved, StartedIn
<1> QED BY <1>1, ContractInvariant, PTL

(* No result that is durable is unknown to the coroutine that goes on with *)
(* the run, whichever checkpoint it started from.                          *)
THEOREM NoResultForgotten == Spec => []ResultsRemembered
<1>1. TypeInv /\ ContractInv => ResultsRemembered
  <2> SUFFICES ASSUME TypeInv, ContractInv, Live
               PROVE  FinishedIn(log) \subseteq
                        ctx.done \cup (IF pc = "settled" THEN {ctx.pending.call} ELSE {})
    BY DEF ResultsRemembered
  <2>1. pc \in {"invoke", "invoked"} => ctx.pending.call \notin FinishedIn(log)
    BY DEF ContractInv, ExecutingOnce
  <2> QED BY <2>1 DEF ContractInv, CoroutineKnows, Current
<1> QED BY <1>1, ContractInvariant, PTL

-----------------------------------------------------------------------------
(* The end of a run                                                        *)

(* Once a run has ended, the only steps left are to rest.                  *)
LEMMA EndedRests ==
  ASSUME pc = "ended", [Next]_vars
  PROVE  UNCHANGED <<durable, effects, pc>>
<1>1. ~Live /\ pc \notin Waits /\ pc \notin {"down", "refused"}
  BY DEF Live, Waits
<1>2. CASE Drive
  BY <1>1, <1>2
     DEF Drive, At, Begin, FirstCheckpoint, StopBeforeModel, RequestModel, ModelResponds,
         ModelInvalid, ModelFails, FailWith, StopOnErrors, RecordDecision, CheckpointDecision,
         CheckBudget, DecisionMissing, Complete, ContainRepetition, AcceptToolCall,
         AskApproval, Approve, Deny, ApprovalFails, StopOnDenial, GrantExecution,
         StopBeforeTool, RefuseCompleted, StartTool, ToolTakesEffect, ToolSettles,
         ToolRaises, RecordObservation, CheckpointObservation, ReviewProgress, NextStep,
         CheckpointEnding, Finalize
<1>3. CASE Recover \/ Cancel \/ Crash
  BY <1>1, <1>3 DEF Recover, Resume, ResumeReplaying, CheckpointReplay, CanResume, Cancel,
                    At, Crash
<1>4. CASE Deadline \/ Rest \/ UNCHANGED vars
  BY <1>4 DEF Deadline, Rest, vars, durable, volatile, world
<1> QED BY <1>2, <1>3, <1>4 DEF Next

(* Only finalize_run ends a run.                                           *)
LEMMA OnlyFinalizeEnds ==
  ASSUME pc # "ended", pc' = "ended", [Next]_vars
  PROVE  Finalize
<1>1. CASE Drive
  BY <1>1
     DEF Drive, Append, Transition, Terminate, Trigger, Begin, FirstCheckpoint,
         StopBeforeModel, RequestModel, ModelResponds, ModelInvalid, ModelFails, FailWith,
         StopOnErrors, RecordDecision, CheckpointDecision, CheckBudget, DecisionMissing,
         Complete, ContainRepetition, AcceptToolCall, AskApproval, Approve, Deny,
         ApprovalFails, StopOnDenial, GrantExecution, StopBeforeTool, RefuseCompleted,
         StartTool, ToolTakesEffect, ToolSettles, ToolRaises, RecordObservation,
         CheckpointObservation, ReviewProgress, NextStep, CheckpointEnding
<1>2. CASE Recover \/ Cancel \/ Crash
  BY <1>2 DEF Recover, Resume, ResumeReplaying, CheckpointReplay, Transition, Cancel,
              Terminate, Crash
<1>3. CASE Deadline \/ Rest \/ UNCHANGED vars
  BY <1>3 DEF Deadline, Rest, vars, volatile
<1> QED BY <1>1, <1>2, <1>3 DEF Next

(* What a finished run shows: a reason that fits its state, and a model    *)
(* response if it was completed.                                           *)
EndFits ==
  /\ run.state \in TerminalStates => run.reason \in ReasonsFor[run.state]
  /\ run.state = "completed" => Fact("model_responded", NoCall) \in log

LEMMA EndFitsStep ==
  ASSUME TypeInv, ContractInv, ContractInv', EndFits, [Next]_vars
  PROVE  EndFits'
<1>1. run'.state \in TerminalStates => pc' = "ended"
  BY DEF ContractInv, EndsOnce
<1>2. CASE pc = "ended"
  BY <1>2, EndedRests DEF EndFits, durable
<1>3. CASE pc # "ended" /\ run'.state \in TerminalStates
  <2>1. Finalize
    BY <1>1, <1>3, OnlyFinalizeEnds
  <2>2. run.state \notin TerminalStates
    BY <1>3, HeldRun
  <2>3. Accepts(Fact("terminal", NoCall))
    BY <1>3, <2>1, <2>2 DEF Finalize
  <2>4. run'.state = goal.state /\ run'.reason = goal.reason /\ log \subseteq log'
    BY <2>1, <2>3 DEF Finalize, Append, TypeInv, TypeOK
  <2>5. goal.reason \in ReasonsFor[goal.state]
    BY <2>1 DEF Finalize, TypeInv, Equipped
  <2>6. goal.state = "completed" => Fact("model_responded", NoCall) \in log
    BY <2>3 DEF Accepts, Fact
  <2> QED BY <2>4, <2>5, <2>6 DEF EndFits
<1>4. CASE run'.state \notin TerminalStates
  BY <1>4 DEF EndFits, TerminalStates
<1> QED BY <1>2, <1>3, <1>4

(* Record and log agree on how a run ended.                                *)
THEOREM OutcomesAgree == Spec => []OutcomeAgrees
<1>1. Init => EndFits
  BY DEF Init, EndFits, TerminalStates
<1>2. TypeInv /\ ContractInv /\ ContractInv' /\ EndFits /\ [Next]_vars => EndFits'
  BY EndFitsStep
<1>3. ContractInv /\ EndFits => OutcomeAgrees
  BY DEF ContractInv, EndsOnce, EndFits, OutcomeAgrees
<1> QED BY <1>1, <1>2, <1>3, ContractInvariant, PTL DEF Spec

(* A run that has ended changes no more, in the store or outside.          *)
THEOREM EndIsFinal == Spec => TerminalIsFinal
<1>1. ContractInv /\ [Next]_vars
        => [run.state \in TerminalStates => UNCHANGED <<durable, effects>>]_vars
  <2> SUFFICES ASSUME ContractInv, [Next]_vars, run.state \in TerminalStates
               PROVE  UNCHANGED <<durable, effects>>
    OBVIOUS
  <2>1. pc = "ended"
    BY DEF ContractInv, EndsOnce
  <2> QED BY <2>1, EndedRests
<1> QED BY <1>1, ContractInvariant, PTL DEF Spec, TerminalIsFinal

-----------------------------------------------------------------------------
(* The shapes of a step                                                    *)

SameDenials ==
  \A c \in Calls : Fact("tool_denied", c) \in log' => Fact("tool_denied", c) \in log

(* What most steps have in common: no result and no denial is logged,      *)
(* nothing happens outside, no process is lost.                            *)
Quiet ==
  /\ FinishedIn(log') = FinishedIn(log)
  /\ log \subseteq log'
  /\ SameDenials
  /\ UNCHANGED <<effects, streak, requests, crashes>>

(* Places the coroutine leaves by doing the next write only.               *)
Committed ==
  {"starting", "first_ckpt", "responded", "decided", "granted", "settled", "ending", "closing"}

(* A step that begins to terminate the run.                                *)
Stops ==
  /\ Quiet
  /\ Live /\ pc \notin Committed /\ pc' = "ending"
  /\ UNCHANGED <<run, ckpt, ctx>>
  /\ FinishedIn(tail') = FinishedIn(tail)
  /\ goal'.state = "completed" => Responded

(* A step to the next state or place that saves nothing.                   *)
Goes(k, s) == pc' = k /\ run'.state = s

From(k, s) == pc = k /\ run.state = s

Moves ==
  /\ Quiet
  /\ UNCHANGED <<ckpt, ctx, goal>>
  /\ run'.steps = run.steps
  /\ FinishedIn(tail') = FinishedIn(tail)
  /\ \/ From("starting", "created") /\ Goes("first_ckpt", "model_pending")
     \/ From("responded", "model_pending") /\ Goes("decided", "decision_received")
     \/ /\ From("decided", "decision_received") /\ Goes("budget", "decision_received")
        /\ ctx.pending \notin ToolCalls
     \/ From("budget", "decision_received") /\ Goes("drive", "decision_received")
     \/ /\ From("drive", "decision_received") /\ Goes("drive", "tool_pending")
        /\ ctx.pending \in ToolCalls /\ ctx.acts.n < RepeatLimit
     \/ From("drive", "tool_pending") /\ Goes("drive", "approval_pending")
     \/ From("drive", "approval_pending") /\ Goes("granted", "approval_pending")
     \/ From("granted", "approval_pending") /\ Goes("drive", "tool_executing")
     \/ /\ From("review", "observation_recorded") /\ Goes("drive", "observation_recorded")
        /\ ctx.errors < ErrorLimit
     \/ From("drive", "observation_recorded") /\ Goes("drive", "model_pending")

(* A step that checkpoints the context the coroutine goes on with.         *)
Saves ==
  /\ Quiet
  /\ UNCHANGED <<run, log>>
  /\ ckpt' = ctx' /\ ckpt' # NoCheckpoint
  /\ tail' = {} /\ FinishedIn(tail') = {}
  /\ \/ /\ UNCHANGED <<ctx, goal>>
        /\ \/ From("first_ckpt", "model_pending") /\ pc' = "drive"
           \/ From("decided", "decision_received") /\ pc' = "budget"
           \/ From("observed", "observation_recorded") /\ pc' = "review"
           \/ From("replayed", "observation_recorded") /\ pc' = "drive"
           \/ pc = "ending" /\ pc' = "closing"
     \/ /\ From("model_call", "model_pending")
        /\ ctx' = [ctx EXCEPT !.errors = @ + 1]
        /\ goal'.state = "completed" => goal' = goal
        /\ \/ pc' \in {"ending", "notify"}
           \/ pc' = "drive" /\ ctx.errors + 1 < ErrorLimit

(* The log accepts what depends on nothing but the run being held.         *)
LEMMA Accepted ==
  ASSUME ContractInv, pc # "ended", NEW t, NEW c, NEW k,
         t \notin Results \cup {"terminal"}, Append(Fact(t, c), k)
  PROVE  /\ log' = log \cup {Fact(t, c)} /\ tail' = tail \cup {Fact(t, c)} /\ pc' = k
BY HeldRun DEF Append, Accepts, Fact

LEMMA TriggerStops ==
  ASSUME ContractInv, UsableInv, Live, pc \notin Committed,
         NEW r, Trigger(r), UNCHANGED world
  PROVE  Stops
<1>1. /\ log' = log \cup {Fact("policy_triggered", NoCall)} /\ pc' = "ending"
      /\ UNCHANGED <<run, ckpt, ctx, effects, streak, requests, crashes>>
      /\ goal'.state = "stopped"
  BY Accepted DEF Trigger, Results, Live, world
<1>2. FinishedIn(log') = FinishedIn(log) /\ FinishedIn(tail') = FinishedIn(tail)
  BY AppendOther DEF Trigger, Results
<1>3. SameDenials
  BY <1>1 DEF SameDenials, Fact
<1> QED BY <1>1, <1>2, <1>3 DEF Stops, Quiet

LEMMA TerminateStops ==
  ASSUME Live, pc \notin Committed,
         NEW s, NEW r, Terminate(s, r), s = "completed" => Responded,
         UNCHANGED <<durable, ctx, effects, streak, requests, crashes>>
  PROVE  Stops
BY DEF Terminate, Stops, Quiet, SameDenials, durable

LEMMA StopSteps ==
  ASSUME TypeInv, ContractInv, UsableInv,
         \/ StopBeforeModel \/ ModelInvalid \/ StopOnErrors
         \/ CheckBudget /\ pc' # "drive"
         \/ DecisionMissing \/ Complete \/ ContainRepetition \/ ApprovalFails \/ StopOnDenial
         \/ StopBeforeTool \/ RefuseCompleted \/ ToolRaises
         \/ \E stuck \in BOOLEAN : ReviewProgress(stuck) /\ pc' # "drive"
         \/ Cancel
  PROVE  Stops
<1>1. CASE StopBeforeModel \/ StopOnErrors \/ ContainRepetition \/ StopOnDenial \/ StopBeforeTool
  BY <1>1, TriggerStops DEF StopBeforeModel, StopOnErrors, ContainRepetition, StopOnDenial,
                            StopBeforeTool, At, Live, Committed
<1>2. CASE CheckBudget /\ pc' # "drive"
  BY <1>2, TriggerStops DEF CheckBudget, Live, Committed
<1>3. CASE \E stuck \in BOOLEAN : ReviewProgress(stuck) /\ pc' # "drive"
  BY <1>3, TriggerStops DEF ReviewProgress, Live, Committed
<1>4. CASE Complete
  <2>1. Responded
    BY <1>4, DistinctAssumption DEF Complete, UsableInv, Answered
  <2> QED BY <1>4, <2>1, TerminateStops DEF Complete, At, Live, Committed, world
<1>5. CASE ModelInvalid \/ DecisionMissing \/ ApprovalFails \/ RefuseCompleted
  BY <1>5, TerminateStops
     DEF ModelInvalid, DecisionMissing, ApprovalFails, RefuseCompleted, At, Live, Committed,
         world
<1>6. CASE ToolRaises
  BY <1>6, TerminateStops DEF ToolRaises, Live, Committed
<1>7. CASE Cancel
  BY <1>7, TerminateStops DEF Cancel, At, Live, Committed, Waits
<1> QED BY <1>1, <1>2, <1>3, <1>4, <1>5, <1>6, <1>7

LEMMA TransitionMoves ==
  ASSUME TypeInv, NEW s, NEW k, Transition(s, k), UNCHANGED <<ctx, goal, world>>
  PROVE  /\ Quiet /\ UNCHANGED <<ckpt, ctx, goal>> /\ run'.steps = run.steps
         /\ FinishedIn(tail') = FinishedIn(tail) /\ Goes(k, s)
BY DEF Transition, TypeInv, TypeOK, Quiet, SameDenials, Goes, world

LEMMA MoveSteps ==
  ASSUME TypeInv, ContractInv, UsableInv,
         \/ Begin \/ RecordDecision
         \/ CheckpointDecision /\ UNCHANGED durable /\ ctx.pending \notin ToolCalls
         \/ CheckBudget /\ pc' = "drive"
         \/ AcceptToolCall \/ AskApproval \/ Approve \/ GrantExecution
         \/ \E stuck \in BOOLEAN : ReviewProgress(stuck) /\ pc' = "drive"
         \/ NextStep
  PROVE  Moves
<1> USE DEF From
<1>1. CASE Begin
  <2>1. From("starting", "created") /\ Transition("model_pending", "first_ckpt")
    BY <1>1 DEF Begin, UsableInv, Undecided
  <2> QED BY <1>1, <2>1, TransitionMoves DEF Begin, Moves
<1>2. CASE RecordDecision
  <2>1. From("responded", "model_pending") /\ Transition("decision_received", "decided")
    BY <1>2 DEF RecordDecision, ContractInv, StandsAt
  <2> QED BY <1>2, <2>1, TransitionMoves DEF RecordDecision, Moves
<1>3. CASE AcceptToolCall \/ AskApproval \/ NextStep
  BY <1>3, TransitionMoves DEF AcceptToolCall, AskApproval, NextStep, At, Moves
<1>4. CASE GrantExecution
  <2>1. From("granted", "approval_pending") /\ Transition("tool_executing", "drive")
    BY <1>4 DEF GrantExecution, ContractInv, StandsAt
  <2> QED BY <1>4, <2>1, TransitionMoves DEF GrantExecution, Moves
<1>5. CASE CheckpointDecision /\ UNCHANGED durable /\ ctx.pending \notin ToolCalls
  <2>1. From("decided", "decision_received") /\ Goes("budget", "decision_received")
    BY <1>5 DEF CheckpointDecision, ContractInv, StandsAt, durable, Goes
  <2> QED BY <1>5, <2>1 DEF CheckpointDecision, Moves, Quiet, SameDenials, durable, world
<1>6. CASE CheckBudget /\ pc' = "drive"
  <2>1. From("budget", "decision_received")
    BY <1>6 DEF CheckBudget, ContractInv, StandsAt
  <2>2. UNCHANGED <<durable, ctx, goal, world>>
    BY <1>6, <2>1, Accepted DEF CheckBudget, Trigger, Results
  <2> QED BY <1>6, <2>1, <2>2 DEF Moves, Goes, Quiet, SameDenials, durable, world
<1>7. ASSUME NEW stuck \in BOOLEAN, ReviewProgress(stuck), pc' = "drive"
      PROVE Moves
  <2>1. From("review", "observation_recorded")
    BY <1>7 DEF ReviewProgress, ContractInv, StandsAt
  <2>2. ~(late \/ ctx.errors >= ErrorLimit \/ stuck)
    BY <1>7, <2>1, Accepted DEF ReviewProgress, Trigger, Results
  <2>3. UNCHANGED <<durable, ctx, goal, world>>
    BY <1>7, <2>2 DEF ReviewProgress
  <2>4. ctx.errors < ErrorLimit
    BY <2>2, PolicyAssumption DEF TypeInv, TypeOK, Contexts
  <2> QED BY <1>7, <2>1, <2>3, <2>4 DEF Moves, Goes, Quiet, SameDenials, durable, world
<1>8. CASE Approve
  <2>1. /\ From("drive", "approval_pending")
        /\ Append(Fact("tool_approved", ctx.pending.call), "granted")
    BY <1>8 DEF Approve, At
  <2>2. /\ log' = log \cup {Fact("tool_approved", ctx.pending.call)} /\ pc' = "granted"
    BY <2>1, Accepted DEF Results
  <2>3. FinishedIn(log') = FinishedIn(log) /\ FinishedIn(tail') = FinishedIn(tail)
    BY <2>1, AppendOther DEF Results
  <2>4. SameDenials
    BY <2>2 DEF SameDenials, Fact
  <2> QED BY <1>8, <2>1, <2>2, <2>3, <2>4 DEF Approve, Moves, Goes, Quiet, world
<1> QED BY <1>1, <1>2, <1>3, <1>4, <1>5, <1>6, <1>7, <1>8

LEMMA SaveSteps ==
  ASSUME TypeInv, ContractInv, UsableInv,
         \/ FirstCheckpoint
         \/ CheckpointDecision /\ SaveCheckpoint(ctx)
         \/ CheckpointObservation \/ CheckpointReplay \/ CheckpointEnding
         \/ \E retryable \in BOOLEAN : ModelFails(retryable)
  PROVE  Saves
<1> USE DEF From
<1>1. ASSUME NEW c \in Contexts, SaveCheckpoint(c), ctx' = c, UNCHANGED world
      PROVE  /\ Quiet /\ UNCHANGED <<run, log>> /\ ckpt' = ctx' /\ ckpt' # NoCheckpoint
             /\ tail' = {} /\ FinishedIn(tail') = {}
  BY <1>1, CheckpointAssumption DEF SaveCheckpoint, Quiet, SameDenials, FinishedIn, world
<1>2. ctx \in Contexts
  BY DEF TypeInv, TypeOK
<1>3. CASE FirstCheckpoint \/ CheckpointObservation \/ CheckpointReplay
  BY <1>1, <1>2, <1>3 DEF FirstCheckpoint, CheckpointObservation, CheckpointReplay, Saves,
                          ContractInv, StandsAt
<1>4. CASE CheckpointEnding
  BY <1>1, <1>2, <1>4 DEF CheckpointEnding, Saves
<1>5. CASE CheckpointDecision /\ SaveCheckpoint(ctx)
  BY <1>1, <1>2, <1>5 DEF CheckpointDecision, Saves, ContractInv, StandsAt
<1>6. ASSUME NEW retryable \in BOOLEAN, ModelFails(retryable)
      PROVE  Saves
  <2> DEFINE failed == [ctx EXCEPT !.errors = @ + 1]
  <2>1. failed \in Contexts /\ failed.errors = ctx.errors + 1 /\ failed.errors \in Nat
    BY <1>2 DEF Contexts
  <2>2. /\ From("model_call", "model_pending") /\ ctx' = failed /\ SaveCheckpoint(failed)
        /\ UNCHANGED world
    BY <1>6 DEF ModelFails, FailWith, ContractInv, StandsAt
  <2>3. /\ goal'.state = "completed" => goal' = goal
        /\ \/ pc' \in {"ending", "notify"}
           \/ pc' = "drive" /\ failed.errors < ErrorLimit
    BY <1>6, <2>1, PolicyAssumption DEF ModelFails, FailWith, Terminate
  <2> HIDE DEF failed
  <2>4. /\ Quiet /\ UNCHANGED <<run, log>> /\ ckpt' = ctx' /\ ckpt' # NoCheckpoint
        /\ tail' = {} /\ FinishedIn(tail') = {}
    BY <1>1, <2>1, <2>2
  <2> QED BY <2>1, <2>2, <2>3, <2>4 DEF Saves, failed
<1> QED BY <1>3, <1>4, <1>5, <1>6

(* A step of the environment that a run does not notice.                   *)
Rests == UNCHANGED <<run, log, tail, ckpt, pc, ctx, goal, effects, streak, requests, crashes>>

(* The steps that are none of these.                                       *)
Works ==
  \/ RequestModel
  \/ \E d \in ToolCalls \cup {FinalAnswer}, u \in Tokens \cup {NoUsage} : ModelResponds(d, u)
  \/ Deny \/ StartTool \/ ToolTakesEffect
  \/ \E ok \in BOOLEAN : ToolSettles(ok)
  \/ RecordObservation

LEMMA StepShapes ==
  ASSUME TypeInv, ContractInv, UsableInv, [Next]_vars
  PROVE  Stops \/ Moves \/ Saves \/ Rests \/ Works \/ Finalize \/ Crash \/ Resume \/ ResumeReplaying
<1>1. CASE CheckpointDecision
  BY <1>1, MoveSteps, SaveSteps DEF CheckpointDecision
<1>2. CASE Deadline \/ Rest \/ UNCHANGED vars
  BY <1>2 DEF Deadline, Rest, vars, durable, volatile, world, Rests
<1> QED BY <1>1, <1>2, StopSteps, MoveSteps, SaveSteps DEF Next, Drive, Recover, Works

-----------------------------------------------------------------------------
(* The log stays usable                                                     *)

LEMMA UsableInit == Init => UsableInv
BY DEF Init, UsableInv, Answered, DoneIsLogged, Trailing, Undecided, LogStaysUsable,
       OneTrailingResult, HasCheckpoint, FinishedIn, FreshContext, NoGoal, Live, Acting,
       ToolStates, FreeStates

(* Ending a run keeps the decision and all that is logged.                 *)
LEMMA UsableStops ==
  ASSUME TypeInv, ContractInv, UsableInv, Stops
  PROVE  UsableInv'
<1>1. /\ UNCHANGED <<run, ckpt, ctx>> /\ log \subseteq log' /\ pc' = "ending" /\ Live
      /\ pc \notin {"starting", "responded", "decided", "settled"}
      /\ FinishedIn(log') = FinishedIn(log) /\ FinishedIn(tail') = FinishedIn(tail)
  BY DEF Stops, Quiet, Committed
<1>2. Answered'
  BY <1>1 DEF Stops, UsableInv, Answered, HasCheckpoint, Responded
<1>3. DoneIsLogged' /\ Undecided'
  BY <1>1 DEF UsableInv, DoneIsLogged, Undecided, HasCheckpoint, Live
<1>4. Trailing' /\ LogStaysUsable'
  BY <1>1 DEF UsableInv, Trailing, Acting, LogStaysUsable, OneTrailingResult, Live
<1> QED BY <1>2, <1>3, <1>4 DEF UsableInv

(* Nor does a move between two places log a result.                        *)
LEMMA UsableMoves ==
  ASSUME TypeInv, ContractInv, UsableInv, Moves
  PROVE  UsableInv'
<1>1. /\ UNCHANGED <<ckpt, ctx, goal>> /\ log \subseteq log'
      /\ FinishedIn(log') = FinishedIn(log) /\ FinishedIn(tail') = FinishedIn(tail)
  BY DEF Moves, Quiet
<1>2. Answered' /\ DoneIsLogged'
  BY <1>1 DEF UsableInv, Answered, DoneIsLogged, HasCheckpoint, Responded
<1>3. Undecided'
  BY <1>1 DEF UsableInv, Undecided, HasCheckpoint, Live, Moves, From, Goes, FreeStates
<1>4. Trailing' /\ LogStaysUsable'
  BY <1>1 DEF UsableInv, Trailing, Acting, LogStaysUsable, OneTrailingResult, Live, Moves,
              From, Goes, ToolStates
<1> QED BY <1>2, <1>3, <1>4 DEF UsableInv

(* A checkpoint leaves no event behind it.                                 *)
LEMMA UsableSaves ==
  ASSUME TypeInv, ContractInv, UsableInv, Saves
  PROVE  UsableInv'
<1>1. /\ UNCHANGED <<run, log>> /\ ckpt' = ctx' /\ FinishedIn(tail') = {}
      /\ ctx'.pending = ctx.pending /\ ctx'.done = ctx.done
  BY DEF Saves, TypeInv, TypeOK, Contexts
<1>2. pc' \notin {"starting", "responded", "settled", "refused"} /\ Live
      /\ pc \notin {"starting", "settled"} /\ (pc = "decided" => run.state = "decision_received")
      /\ pc # "responded"
  BY DEF Saves, Live, From
<1>3. Answered'
  BY <1>1 DEF UsableInv, Answered, HasCheckpoint, Responded, Saves
<1>4. DoneIsLogged' /\ Undecided'
  BY <1>1, <1>2 DEF UsableInv, DoneIsLogged, Undecided, HasCheckpoint, FreeStates
<1>5. Trailing' /\ LogStaysUsable'
  BY <1>1, <1>2 DEF Trailing, LogStaysUsable, OneTrailingResult
<1> QED BY <1>3, <1>4, <1>5 DEF UsableInv

(* The request, the response, and what becomes of a tool call.             *)
LEMMA UsableWorks ==
  ASSUME TypeInv, ContractInv, UsableInv, Works
  PROVE  UsableInv'
<1>1. CASE RequestModel
  <2>1. /\ pc = "drive" /\ run.state = "model_pending" /\ pc' = "model_call"
        /\ run'.state = run.state
        /\ ctx'.pending = ctx.pending /\ ctx'.done = ctx.done
        /\ UNCHANGED <<log, tail, ckpt, goal>>
    BY <1>1 DEF RequestModel, At, TypeInv, TypeOK, Contexts
  <2>2. Answered' /\ DoneIsLogged' /\ Undecided'
    BY <2>1 DEF UsableInv, Answered, DoneIsLogged, Undecided, HasCheckpoint, Live, FreeStates,
                Responded
  <2>3. Trailing' /\ LogStaysUsable'
    BY <2>1 DEF UsableInv, Trailing, Acting, LogStaysUsable, OneTrailingResult, ToolStates
  <2> QED BY <2>2, <2>3 DEF UsableInv
<1>2. ASSUME NEW d \in ToolCalls \cup {FinalAnswer}, NEW u \in Tokens \cup {NoUsage},
             ModelResponds(d, u)
      PROVE  UsableInv'
  <2>1. /\ pc = "model_call" /\ run.state = "model_pending" /\ ctx'.done = ctx.done
        /\ Append(Fact("model_responded", NoCall), "responded")
        /\ UNCHANGED <<run, ckpt, goal>>
    BY <1>2 DEF ModelResponds, ContractInv, StandsAt, TypeInv, TypeOK, Contexts
  <2>2. log' = log \cup {Fact("model_responded", NoCall)} /\ pc' = "responded"
    BY <2>1, Accepted DEF Results
  <2>3. FinishedIn(log') = FinishedIn(log) /\ FinishedIn(tail') = FinishedIn(tail)
    BY <2>1, AppendOther DEF Results
  <2>4. Answered' /\ DoneIsLogged' /\ Undecided'
    BY <2>1, <2>2, <2>3 DEF UsableInv, Answered, DoneIsLogged, Undecided, HasCheckpoint,
                            Responded
  <2>5. Trailing' /\ LogStaysUsable'
    BY <2>1, <2>2, <2>3 DEF UsableInv, Trailing, Acting, LogStaysUsable, OneTrailingResult,
                            ToolStates
  <2> QED BY <2>4, <2>5 DEF UsableInv
<1>3. ASSUME NEW t \in {"tool_denied", "tool_started"}, NEW k \in {"denied", "invoke"},
             pc = "drive", run.state \in ToolStates, ctx.pending \in ToolCalls,
             Append(Fact(t, ctx.pending.call), k), UNCHANGED <<run, ckpt, ctx, goal>>
      PROVE  UsableInv'
  <2>1. /\ log' = log \cup {Fact(t, ctx.pending.call)}
        /\ tail' = tail \cup {Fact(t, ctx.pending.call)} /\ pc' = k
    BY <1>3, Accepted DEF Results
  <2>2. FinishedIn(log') = FinishedIn(log) /\ FinishedIn(tail') = FinishedIn(tail)
    BY <2>1 DEF FinishedIn, Results, Fact
  <2>3. Answered' /\ DoneIsLogged' /\ Undecided'
    BY <1>3, <2>1, <2>2 DEF UsableInv, Answered, DoneIsLogged, Undecided, HasCheckpoint,
                            Responded, FreeStates, ToolStates
  <2>4. Trailing' /\ LogStaysUsable'
    BY <1>3, <2>1, <2>2 DEF UsableInv, Trailing, Acting, LogStaysUsable, OneTrailingResult,
                            Live
  <2> QED BY <2>3, <2>4 DEF UsableInv
<1>4. CASE Deny \/ StartTool
  BY <1>3, <1>4 DEF Deny, StartTool, At, ToolStates
<1>5. CASE ToolTakesEffect
  <2>1. /\ pc = "invoke" /\ pc' = "invoked" /\ UNCHANGED <<run, log, tail, ckpt, ctx, goal>>
    BY <1>5 DEF ToolTakesEffect, durable
  <2>2. Answered' /\ DoneIsLogged' /\ Undecided'
    BY <2>1 DEF UsableInv, Answered, DoneIsLogged, Undecided, HasCheckpoint, Responded, Live
  <2>3. Trailing' /\ LogStaysUsable'
    BY <2>1 DEF UsableInv, Trailing, Acting, LogStaysUsable, OneTrailingResult, Live
  <2> QED BY <2>2, <2>3 DEF UsableInv
<1>6. ASSUME NEW ok \in BOOLEAN, ToolSettles(ok)
      PROVE  UsableInv'
  <2>0. PICK c \in Calls : c = ctx.pending.call
    BY <1>6 DEF ToolSettles, TypeInv, Equipped, ToolCalls
  <2>1. /\ pc \in {"invoke", "invoked"} /\ run.state = "tool_executing"
        /\ ctx.pending \in ToolCalls /\ UNCHANGED <<run, ckpt, ctx, goal>>
    BY <1>6 DEF ToolSettles, ContractInv, StandsAt, TypeInv, Equipped
  <2>2. PICK t \in Results : Append(Fact(t, c), "settled")
    BY <1>6, <2>0 DEF ToolSettles, Results
  <2>3. c \in StartedIn(log) /\ c \notin FinishedIn(log)
    BY <2>0, <2>1 DEF ContractInv, ExecutingOnce
  <2>4. Accepts(Fact(t, c))
    BY <2>1, <2>3, HeldRun DEF Accepts, Fact, Results
  <2>5. /\ log' = log \cup {Fact(t, c)} /\ tail' = tail \cup {Fact(t, c)} /\ pc' = "settled"
        /\ FinishedIn(log') = FinishedIn(log) \cup {c}
        /\ FinishedIn(tail') = FinishedIn(tail) \cup {c}
    <3>1. log' = log \cup {Fact(t, c)} /\ tail' = tail \cup {Fact(t, c)} /\ pc' = "settled"
      BY <2>2, <2>4 DEF Append
    <3> QED BY <3>1, ResultOfCall
  <2>6. FinishedIn(tail) = {}
    BY <2>1 DEF UsableInv, Trailing, Acting, Live, ToolStates
  <2>7. Answered' /\ DoneIsLogged' /\ Undecided'
    BY <2>1, <2>3, <2>5 DEF UsableInv, Answered, DoneIsLogged, Undecided, HasCheckpoint,
                            Responded, FreeStates
  <2>8. Trailing' /\ LogStaysUsable'
    BY <2>0, <2>1, <2>5, <2>6 DEF Trailing, Acting, LogStaysUsable, OneTrailingResult
  <2> QED BY <2>7, <2>8 DEF UsableInv
<1>7. CASE RecordObservation
  <2>0. PICK c \in Calls : c = ctx.pending.call
    BY <1>7 DEF RecordObservation, TypeInv, Equipped, ToolCalls
  <2>1. /\ pc = "settled" /\ pc' = "observed" /\ run'.state = "observation_recorded"
        /\ ctx'.pending = NoDecision /\ ctx'.done = ctx.done \cup {c}
        /\ UNCHANGED <<log, tail, ckpt, goal>>
    BY <1>7, <2>0 DEF RecordObservation, Transition, WithResults, TypeInv, TypeOK, Contexts
  <2>2. c \in FinishedIn(tail) /\ c \in FinishedIn(log)
    BY <2>0, <2>1 DEF UsableInv, Trailing, TypeInv, TypeOK, FinishedIn
  <2>3. Answered' /\ DoneIsLogged' /\ Undecided'
    BY <2>1, <2>2 DEF UsableInv, Answered, DoneIsLogged, Undecided, HasCheckpoint, Responded
  <2>4. Trailing' /\ LogStaysUsable'
    BY <2>1 DEF UsableInv, Trailing, Acting, LogStaysUsable, OneTrailingResult, ToolStates
  <2> QED BY <2>3, <2>4 DEF UsableInv
<1> QED BY <1>1, <1>2, <1>4, <1>5, <1>6, <1>7 DEF Works

(* A resume clears the decision whose result trails the checkpoint.        *)
LEMMA ReplayedContext ==
  ASSUME TypeInv, ContractInv, UsableInv, CanResume
  PROVE  /\ pc = "down" /\ HasCheckpoint /\ ckpt \in Contexts
         /\ Replayable = FinishedIn(tail)
         /\ Replayed = IF FinishedIn(tail) = {} THEN ckpt
                       ELSE WithResults(ckpt, FinishedIn(tail),
                              \E c \in FinishedIn(tail) : Fact("tool_completed", c) \in tail)
         /\ Replayed.done = ckpt.done \cup FinishedIn(tail)
         /\ Replayed.pending = IF FinishedIn(tail) = {} THEN ckpt.pending ELSE NoDecision
         /\ Replayed.next = ckpt.next /\ Replayed.acts = ckpt.acts
<1>1. pc = "down" /\ HasCheckpoint /\ ckpt \in Contexts /\ Settled = ckpt.done
  BY DEF CanResume, HasCheckpoint, Settled, UsableInv, LogStaysUsable, TypeInv, TypeOK
<1>2. Replayable = FinishedIn(tail)
  BY <1>1 DEF Replayable, UsableInv, DoneIsLogged
<1>3. Replayed = IF FinishedIn(tail) = {} THEN ckpt
                 ELSE WithResults(ckpt, FinishedIn(tail),
                        \E c \in FinishedIn(tail) : Fact("tool_completed", c) \in tail)
  BY <1>2 DEF Replayed
<1>4. /\ Replayed.done = ckpt.done \cup FinishedIn(tail)
      /\ Replayed.pending = IF FinishedIn(tail) = {} THEN ckpt.pending ELSE NoDecision
      /\ Replayed.next = ckpt.next /\ Replayed.acts = ckpt.acts
  BY <1>1, <1>3 DEF WithResults, Contexts
<1> QED BY <1>1, <1>2, <1>3, <1>4

LEMMA UsableResumes ==
  ASSUME TypeInv, ContractInv, UsableInv, Resume \/ ResumeReplaying
  PROVE  UsableInv'
<1>1. /\ CanResume /\ ctx' = Replayed /\ pc' \in {"drive", "replayed"}
      /\ UNCHANGED <<log, tail, ckpt, goal>>
      /\ \/ run' = run
         \/ run'.state = "observation_recorded" /\ FinishedIn(tail) # {}
  BY DEF Resume, ResumeReplaying, CanResume, ResultTrails, Transition, durable, TypeInv, TypeOK
<1>2. /\ pc = "down" /\ HasCheckpoint
      /\ ctx'.done = ckpt.done \cup FinishedIn(tail)
      /\ ctx'.pending = IF FinishedIn(tail) = {} THEN ckpt.pending ELSE NoDecision
  BY <1>1, ReplayedContext
<1>3. FinishedIn(tail) \subseteq FinishedIn(log)
  BY DEF TypeInv, TypeOK, FinishedIn
<1>4. Answered' /\ DoneIsLogged'
  BY <1>1, <1>2, <1>3 DEF UsableInv, Answered, DoneIsLogged, HasCheckpoint, Responded
<1>5. Undecided'
  BY <1>1, <1>2 DEF UsableInv, Undecided, HasCheckpoint
<1>6. Trailing' /\ LogStaysUsable'
  BY <1>1, <1>2, DistinctAssumption
     DEF UsableInv, Trailing, Acting, LogStaysUsable, OneTrailingResult, HasCheckpoint
<1> QED BY <1>4, <1>5, <1>6 DEF UsableInv

(* finalize_run is accepted, and a lost process leaves the log alone.      *)
LEMMA UsableEnds ==
  ASSUME TypeInv, ContractInv, UsableInv, Finalize \/ Crash \/ Rests
  PROVE  UsableInv'
<1>1. CASE Finalize
  <2>1. pc = "closing" /\ Append(Fact("terminal", NoCall), "ended") /\ ckpt' = ckpt
    BY <1>1 DEF Finalize
  <2>2. Accepts(Fact("terminal", NoCall))
    BY <2>1, HeldRun DEF Accepts, Fact, Results, UsableInv, Answered, Responded
  <2>3. log \subseteq log' /\ pc' = "ended"
    BY <2>1, <2>2 DEF Append
  <2>4. FinishedIn(log') = FinishedIn(log) /\ FinishedIn(tail') = FinishedIn(tail)
    BY <2>1, AppendOther DEF Results
  <2>5. run'.state \in TerminalStates
    BY <1>1, <2>1, <2>2 DEF Finalize, TypeInv, TypeOK, Equipped, Goals
  <2>6. ctx' = FreshContext /\ goal' = NoGoal
    BY <1>1 DEF Finalize
  <2>7. Answered' /\ DoneIsLogged'
    BY <2>1, <2>3, <2>4, <2>6 DEF UsableInv, Answered, DoneIsLogged, HasCheckpoint, Responded,
                                  FreshContext, NoGoal
  <2>8. Undecided'
    BY <2>3, <2>5 DEF Undecided, Live, FreeStates, TerminalStates
  <2>9. Trailing' /\ LogStaysUsable'
    BY <2>1, <2>3, <2>4 DEF UsableInv, Trailing, Acting, LogStaysUsable, OneTrailingResult, Live
  <2> QED BY <2>7, <2>8, <2>9 DEF UsableInv
<1>2. CASE Crash
  <2>1. /\ pc' = "down" /\ ctx' = FreshContext /\ goal' = NoGoal
        /\ UNCHANGED <<run, log, tail, ckpt>>
    BY <1>2 DEF Crash, durable
  <2>2. Answered' /\ DoneIsLogged' /\ Undecided'
    BY <2>1 DEF UsableInv, Answered, DoneIsLogged, Undecided, HasCheckpoint, Responded,
                FreshContext, NoGoal, Live
  <2>3. Trailing' /\ LogStaysUsable'
    BY <2>1 DEF UsableInv, Trailing, Acting, LogStaysUsable, OneTrailingResult, Live
  <2> QED BY <2>2, <2>3 DEF UsableInv
<1>3. CASE Rests
  BY <1>3 DEF Rests, UsableInv, Answered, DoneIsLogged, Trailing, Undecided, LogStaysUsable,
              OneTrailingResult, HasCheckpoint, Responded, Acting, Live
<1> QED BY <1>1, <1>2, <1>3

(* Every step keeps what makes the log usable.                             *)
LEMMA UsableStep ==
  TypeInv /\ ContractInv /\ UsableInv /\ [Next]_vars => UsableInv'
BY StepShapes, UsableStops, UsableMoves, UsableSaves, UsableWorks, UsableResumes, UsableEnds

-----------------------------------------------------------------------------
(* The limits                                                              *)

(* What the limits count.                                                  *)
LEMMA Numbers ==
  ASSUME TypeInv
  PROVE  /\ ctx.next \in Nat /\ ctx.errors \in Nat /\ ctx.acts.n \in Nat
         /\ requests \in Nat /\ crashes \in Nat /\ streak.n \in Nat
         /\ run.steps \in Nat /\ run.steps <= MaxSteps
         /\ HasCheckpoint => ckpt.next \in Nat /\ ckpt.errors \in Nat /\ ckpt.acts.n \in Nat
         /\ MaxSteps \in Nat /\ ErrorLimit \in Nat /\ ErrorLimit > 0
         /\ RepeatLimit \in Nat /\ RepeatLimit > 0
         /\ \A c \in Calls : effects[c] \in Nat
BY PolicyAssumption DEF TypeInv, TypeOK, Contexts, Runs, HasCheckpoint

LEMMA LimitStart == Init => LimitInv
<1> SUFFICES ASSUME Init PROVE LimitInv
  OBVIOUS
<1>1. /\ pc = "starting" /\ ~HasCheckpoint /\ run.state = "created" /\ run.steps = 0
      /\ ctx.pending = NoDecision /\ ctx.errors = 0 /\ ctx.next = 1
      /\ requests = 0 /\ crashes = 0 /\ streak.n = 0
  BY DEF Init, HasCheckpoint, FreshContext
<1>2. StepsAccounted /\ ErrorsAccounted
  BY <1>1, PolicyAssumption DEF StepsAccounted, ErrorsAccounted
<1>3. Pace /\ BelowLimit
  BY <1>1, DistinctAssumption DEF Pace, Paced, BelowLimit, Acting, ToolStates
<1>4. LimitsHold
  BY <1>1, PolicyAssumption DEF LimitsHold, StepBudget, ErrorBudget, RepetitionContained
<1> QED BY <1>2, <1>3, <1>4 DEF LimitInv

(* A step that begins to end the run counts nothing.                       *)
LEMMA LimitStops ==
  ASSUME TypeInv, ContractInv, UsableInv, LimitInv, Stops
  PROVE  LimitInv'
<1>1. /\ UNCHANGED <<run, ckpt, ctx, effects, streak, requests, crashes>>
      /\ pc' = "ending" /\ Live /\ pc \notin {"decided", "settled"}
      /\ FinishedIn(tail') = FinishedIn(tail)
  BY DEF Stops, Quiet, Committed
<1>2. StepsAccounted'
  BY <1>1, Numbers DEF LimitInv, StepsAccounted, HasCheckpoint, Unsaved, Live
<1>3. ErrorsAccounted'
  BY <1>1 DEF LimitInv, ErrorsAccounted, HasCheckpoint, Reviewing
<1>4. Pace'
  BY <1>1 DEF LimitInv, Pace, Paced, Covers, HasCheckpoint
<1>5. BelowLimit'
  BY <1>1 DEF LimitInv, BelowLimit, Acting, Live, HasCheckpoint
<1>6. LimitsHold'
  BY <1>1 DEF LimitInv, LimitsHold, StepBudget, ErrorBudget, RepetitionContained
<1> QED BY <1>2, <1>3, <1>4, <1>5, <1>6 DEF LimitInv

(* Nor does a move, but it takes a decision past the repetition check, and *)
(* lets the run go on after a tool only below the error limit.             *)
LEMMA LimitMoves ==
  ASSUME TypeInv, ContractInv, UsableInv, LimitInv, Moves
  PROVE  LimitInv'
<1>1. /\ UNCHANGED <<ckpt, ctx, effects, streak, requests, crashes>>
      /\ FinishedIn(tail') = FinishedIn(tail) /\ run'.steps = run.steps
  BY DEF Moves, Quiet
<1>2. Live /\ Live' /\ pc' \notin {"invoke", "invoked", "settled", "down"}
  BY DEF Moves, From, Goes, Live
<1>3. StepsAccounted'
  <2>1. Unsaved => Unsaved'
    BY <1>1 DEF Moves, From, Goes, Unsaved
  <2> QED BY <1>1, <1>2, <2>1, Numbers DEF LimitInv, StepsAccounted, HasCheckpoint
<1>4. ErrorsAccounted'
  <2>1. pc \in Reviewing => ctx.errors < ErrorLimit
    BY DEF Moves, From, Reviewing
  <2> QED BY <1>1, <1>2, <2>1, Numbers DEF LimitInv, ErrorsAccounted, HasCheckpoint
<1>5. Pace'
  BY <1>1, <1>2 DEF LimitInv, Pace, Paced, Covers, HasCheckpoint
<1>6. BelowLimit'
  <2>1. Acting' => Acting
    BY <1>1, <1>2 DEF Moves, From, Goes, Acting, ToolStates
  <2>2. run'.state \in ToolStates =>
          run.state \in ToolStates \/ (Acting /\ ctx.acts.n < RepeatLimit)
    BY <1>2 DEF Moves, From, Goes, Acting, ToolStates
  <2> QED BY <1>1, <1>2, <2>1, <2>2 DEF LimitInv, BelowLimit, HasCheckpoint
<1>7. LimitsHold'
  BY <1>1 DEF LimitInv, LimitsHold, StepBudget, ErrorBudget, RepetitionContained
<1> QED BY <1>3, <1>4, <1>5, <1>6, <1>7 DEF LimitInv


(* A checkpoint catches up with the coroutine.                             *)
LEMMA LimitSaves ==
  ASSUME TypeInv, ContractInv, UsableInv, LimitInv, Saves
  PROVE  LimitInv'
<1>1. /\ UNCHANGED <<run, effects, streak, requests, crashes>>
      /\ ckpt' = ctx' /\ HasCheckpoint' /\ FinishedIn(tail') = {}
      /\ ctx'.next = ctx.next /\ ctx'.pending = ctx.pending /\ ctx'.acts = ctx.acts
  BY DEF Saves, Quiet, HasCheckpoint, TypeInv, TypeOK, Contexts
<1>2. Live /\ Live' /\ pc' \notin {"invoke", "invoked", "settled", "down"}
  BY DEF Saves, From, Live
<1>3. StepsAccounted'
  BY <1>1, <1>2, Numbers DEF LimitInv, StepsAccounted
<1>4. ErrorsAccounted'
  <2>1. CASE ctx' = ctx
    <3>1. pc' \notin Reviewing => ctx.errors < ErrorLimit + crashes
      BY <2>1 DEF Saves, From, Reviewing, LimitInv, ErrorsAccounted, Live
    <3> QED BY <1>1, <1>2, <2>1, <3>1, Numbers DEF LimitInv, ErrorsAccounted, HasCheckpoint
  <2>2. CASE /\ From("model_call", "model_pending") /\ ctx'.errors = ctx.errors + 1
             /\ \/ pc' \in {"ending", "notify"}
                \/ pc' = "drive" /\ ctx.errors + 1 < ErrorLimit
    <3>1. ctx.pending = NoDecision
      BY <2>2 DEF From, UsableInv, Undecided, Live, FreeStates
    <3>2. ctx.errors < ErrorLimit + crashes
      BY <2>2 DEF From, LimitInv, ErrorsAccounted, Live, Reviewing
    <3>3. ctx'.errors <= ErrorLimit + crashes
      BY <2>2, <3>2, Numbers
    <3>4. pc' \notin Reviewing => ctx'.errors < ErrorLimit + crashes
      BY <2>2, Numbers DEF Reviewing
    <3> QED BY <1>1, <1>2, <3>1, <3>3, <3>4 DEF ErrorsAccounted
  <2> QED BY <2>1, <2>2 DEF Saves, TypeInv, TypeOK, Contexts
<1>5. Pace'
  BY <1>1, <1>2 DEF LimitInv, Pace, Paced, Covers
<1>6. BelowLimit'
  BY <1>1, <1>2 DEF LimitInv, BelowLimit
<1>7. LimitsHold'
  BY <1>1, <1>2, <1>4, Numbers
    DEF LimitInv, LimitsHold, StepBudget, ErrorBudget, RepetitionContained, ErrorsAccounted
<1> QED BY <1>3, <1>4, <1>5, <1>6, <1>7 DEF LimitInv

(* The step of the request is counted by the coroutine alone.              *)
LEMMA LimitRequest ==
  ASSUME TypeInv, ContractInv, UsableInv, LimitInv, RequestModel
  PROVE  LimitInv'
<1>1. /\ pc = "drive" /\ run.state = "model_pending" /\ pc' = "model_call"
      /\ run'.state = run.state /\ run'.steps = ctx.next /\ ctx.next <= MaxSteps
      /\ ctx'.next = ctx.next + 1 /\ requests' = requests + 1
      /\ ctx'.pending = ctx.pending /\ ctx'.acts = ctx.acts /\ ctx'.errors = ctx.errors
      /\ UNCHANGED <<tail, ckpt, effects, streak, crashes>>
  BY DEF RequestModel, At, TypeInv, TypeOK, Contexts
<1>2. ~Unsaved /\ Unsaved' /\ Live /\ Live' /\ ~Acting'
  BY <1>1 DEF Unsaved, Live, Acting, ToolStates
<1>3. StepsAccounted'
  BY <1>1, <1>2, Numbers DEF LimitInv, StepsAccounted, HasCheckpoint
<1>4. ErrorsAccounted'
  BY <1>1, <1>2 DEF LimitInv, ErrorsAccounted, HasCheckpoint, Reviewing
<1>5. Pace' /\ BelowLimit'
  BY <1>1, <1>2 DEF LimitInv, Pace, Paced, Covers, BelowLimit, HasCheckpoint
<1>6. LimitsHold'
  BY <1>1, <1>2, Numbers DEF LimitInv, LimitsHold, StepBudget, ErrorBudget, RepetitionContained,
                        StepsAccounted
<1> QED BY <1>3, <1>4, <1>5, <1>6 DEF LimitInv

(* The response resets the count and is counted by the detector.           *)
LEMMA LimitResponse ==
  ASSUME TypeInv, ContractInv, UsableInv, LimitInv,
         NEW d \in ToolCalls \cup {FinalAnswer}, NEW u \in Tokens \cup {NoUsage},
         ModelResponds(d, u)
  PROVE  LimitInv'
<1>1. /\ pc = "model_call" /\ run.state = "model_pending"
      /\ Append(Fact("model_responded", NoCall), "responded")
      /\ ctx'.next = ctx.next /\ ctx'.errors = 0 /\ ctx'.pending = d
      /\ ctx'.acts = IF d \in ToolCalls THEN Extend(ctx.acts, d.action) ELSE ctx.acts
      /\ UNCHANGED <<run, ckpt, effects, streak, requests, crashes>>
  BY DEF ModelResponds, ContractInv, StandsAt, TypeInv, TypeOK, Contexts, world
<1>2. pc' = "responded" /\ FinishedIn(tail') = FinishedIn(tail)
  BY <1>1, Accepted, AppendOther DEF Results
<1>3. ctx.pending = NoDecision /\ Live /\ Live' /\ Unsaved /\ Unsaved' /\ ~Acting'
  BY <1>1, <1>2 DEF UsableInv, Undecided, Live, FreeStates, Unsaved, Acting, ToolStates
<1>4. StepsAccounted'
  BY <1>1, <1>2, <1>3, Numbers DEF LimitInv, StepsAccounted, HasCheckpoint
<1>5. ErrorsAccounted'
  BY <1>1, <1>2, <1>3, Numbers DEF LimitInv, ErrorsAccounted, HasCheckpoint
<1>6. Paced(ctx)'
  <2>1. streak.n = 0 \/ Covers(ctx.acts)
    BY <1>3, DistinctAssumption DEF LimitInv, Pace, Paced
  <2>2. CASE d \in ToolCalls
    BY <1>1, <2>1, <2>2, Numbers DEF Paced, Covers, Extend
  <2>3. CASE d \notin ToolCalls
    BY <1>1, <2>1, <2>3 DEF Paced, Covers
  <2> QED BY <2>2, <2>3
<1>7. Pace'
  BY <1>1, <1>2, <1>6 DEF LimitInv, Pace, Paced, Covers, HasCheckpoint
<1>8. BelowLimit'
  BY <1>1, <1>2, <1>3 DEF LimitInv, BelowLimit, HasCheckpoint, ToolStates
<1>9. LimitsHold'
  BY <1>1, <1>3, Numbers DEF LimitInv, LimitsHold, StepBudget, ErrorBudget, RepetitionContained
<1> QED BY <1>4, <1>5, <1>7, <1>8, <1>9 DEF LimitInv

(* A denial counts nothing.                                                *)
LEMMA LimitDenies ==
  ASSUME TypeInv, ContractInv, UsableInv, LimitInv, Deny
  PROVE  LimitInv'
<1>1. /\ From("drive", "approval_pending") /\ ctx.pending \in ToolCalls
      /\ Append(Fact("tool_denied", ctx.pending.call), "denied")
      /\ UNCHANGED <<run, ckpt, ctx, effects, streak, requests, crashes>>
  BY DEF Deny, At, From, world
<1>2. pc' = "denied" /\ FinishedIn(tail') = FinishedIn(tail)
  BY <1>1, Accepted, AppendOther DEF Results, From
<1>3. StepsAccounted' /\ ErrorsAccounted'
  BY <1>1, <1>2 DEF LimitInv, StepsAccounted, ErrorsAccounted, HasCheckpoint, Live, From,
                    Unsaved, Reviewing
<1>4. Pace' /\ BelowLimit'
  BY <1>1, <1>2 DEF LimitInv, Pace, Paced, Covers, BelowLimit, HasCheckpoint, Acting, Live, From
<1>5. LimitsHold'
  BY <1>1 DEF LimitInv, LimitsHold, StepBudget, ErrorBudget, RepetitionContained
<1> QED BY <1>3, <1>4, <1>5 DEF LimitInv

(* Whoever acts on a tool call acts on the one in the checkpoint.          *)
LEMMA ActingOnSaved ==
  ASSUME ContractInv, LimitInv, Acting
  PROVE  HasCheckpoint /\ ckpt.pending = ctx.pending /\ ckpt.acts = ctx.acts
BY DEF Acting, ContractInv, DecisionSaved, LimitInv, BelowLimit

(* A call that starts goes on with the streak, or begins one.              *)
LEMMA LimitStarts ==
  ASSUME TypeInv, ContractInv, UsableInv, LimitInv, StartTool
  PROVE  LimitInv'
<1>1. /\ From("drive", "tool_executing") /\ ctx.pending \in ToolCalls
      /\ Append(Fact("tool_started", ctx.pending.call), "invoke")
      /\ streak' = Begun(streak, ctx.pending.action)
      /\ UNCHANGED <<run, ckpt, ctx, effects, requests, crashes>>
  BY DEF StartTool, At, From
<1>2. pc' = "invoke" /\ tail' = tail \cup {Fact("tool_started", ctx.pending.call)}
  BY <1>1, Accepted DEF Results, From
<1>3. FinishedIn(tail') = FinishedIn(tail)
  BY <1>2 DEF FinishedIn, Results, Fact
<1>4. Acting /\ Acting' /\ FinishedIn(tail) = {}
  BY <1>1, <1>2 DEF Acting, Live, From, ToolStates, UsableInv, Trailing
<1>5. HasCheckpoint /\ ckpt.pending = ctx.pending /\ ckpt.acts = ctx.acts
  BY <1>4, ActingOnSaved
<1>6. StepsAccounted' /\ ErrorsAccounted'
  BY <1>1, <1>2, <1>3 DEF LimitInv, StepsAccounted, ErrorsAccounted, HasCheckpoint, Live, From,
                          Unsaved, Reviewing
<1>7. Paced(ctx)' /\ streak'.last = ctx.pending.action
  BY <1>1, <1>4, Numbers DEF LimitInv, Pace, Paced, Begun, Acting
<1>8. Pace'
  BY <1>1, <1>2, <1>3, <1>4, <1>5, <1>7 DEF Pace, Paced, HasCheckpoint
<1>9. BelowLimit'
  BY <1>1, <1>4 DEF LimitInv, BelowLimit, HasCheckpoint, Live, Acting
<1>10. LimitsHold'
  BY <1>1, Numbers DEF LimitInv, LimitsHold, StepBudget, ErrorBudget, RepetitionContained, Begun
<1> QED BY <1>6, <1>8, <1>9, <1>10 DEF LimitInv

(* A call taking effect was counted by the detector when it was requested. *)
LEMMA LimitTakesEffect ==
  ASSUME TypeInv, ContractInv, UsableInv, LimitInv, ToolTakesEffect
  PROVE  LimitInv'
<1> DEFINE c == ctx.pending.call
<1>1. /\ From("invoke", "tool_executing") /\ pc' = "invoked"
      /\ ctx.pending \in ToolCalls /\ c \in Calls
      /\ effects' = [effects EXCEPT ![c] = @ + 1]
      /\ streak' = [streak EXCEPT !.n = IF effects[c] = 0 THEN @ + 1 ELSE @]
      /\ UNCHANGED <<run, tail, ckpt, ctx, requests, crashes>>
  BY DEF ToolTakesEffect, From, TypeInv, Equipped, ToolCalls, ContractInv, StandsAt, durable
<1>2. /\ effects'[c] > 0 /\ streak'.last = streak.last
      /\ streak'.n = IF effects[c] = 0 THEN streak.n + 1 ELSE streak.n
  BY <1>1 DEF TypeInv, TypeOK, Runs
<1>3. Acting /\ Acting' /\ FinishedIn(tail) = {} /\ Live
  BY <1>1 DEF Acting, Live, From, ToolStates, UsableInv, Trailing
<1>4. HasCheckpoint /\ ckpt.pending = ctx.pending /\ ckpt.acts = ctx.acts
  BY <1>3, ActingOnSaved
<1>5. streak.last = ctx.pending.action /\ ctx.acts.last = ctx.pending.action
  BY <1>1, <1>3 DEF LimitInv, Pace, Paced, From
<1>6. streak'.n <= ctx.acts.n
  BY <1>1, <1>2, <1>3, <1>5, Numbers DEF LimitInv, Pace, Paced
<1>7. ctx.acts.n < RepeatLimit
  BY <1>1, <1>3 DEF LimitInv, BelowLimit, From, ToolStates
<1>8. StepsAccounted' /\ ErrorsAccounted'
  BY <1>1 DEF LimitInv, StepsAccounted, ErrorsAccounted, HasCheckpoint, Live, From,
              Unsaved, Reviewing
<1>9. Paced(ctx)'
  BY <1>1, <1>2, <1>3, <1>5, <1>6, Numbers DEF LimitInv, Pace, Paced
<1>10. Pace'
  BY <1>1, <1>2, <1>3, <1>4, <1>5, <1>9 DEF Pace, Paced, HasCheckpoint
<1>11. BelowLimit'
  BY <1>1, <1>3 DEF LimitInv, BelowLimit, HasCheckpoint
<1>12. LimitsHold'
  BY <1>1, <1>6, <1>7, Numbers DEF LimitInv, LimitsHold, StepBudget, ErrorBudget,
                                   RepetitionContained
<1> QED BY <1>8, <1>10, <1>11, <1>12 DEF LimitInv

(* A result counts only once it is recorded.                               *)
LEMMA LimitSettles ==
  ASSUME TypeInv, ContractInv, UsableInv, LimitInv, NEW ok \in BOOLEAN, ToolSettles(ok)
  PROVE  LimitInv'
<1>1. /\ pc \in {"invoke", "invoked"} /\ run.state = "tool_executing"
      /\ ctx.pending \in ToolCalls
      /\ UNCHANGED <<run, ckpt, ctx, effects, streak, requests, crashes>>
      /\ pc' \in {"settled", "refused"}
  BY DEF ToolSettles, ContractInv, StandsAt, TypeInv, Equipped, Append, world
<1>2. Acting /\ ~Acting' /\ pc' = "settled"
  <2>1. UsableInv'
    BY UsableWorks DEF Works
  <2> QED BY <1>1, <2>1 DEF Acting, Live, ToolStates, UsableInv, LogStaysUsable
<1>3. HasCheckpoint /\ ckpt.pending = ctx.pending /\ ckpt.acts = ctx.acts
  BY <1>2, ActingOnSaved
<1>4. StepsAccounted'
  BY <1>1, <1>2 DEF LimitInv, StepsAccounted, HasCheckpoint, Live, Unsaved
<1>5. ErrorsAccounted'
  BY <1>1, <1>2, <1>3, DistinctAssumption
     DEF LimitInv, ErrorsAccounted, HasCheckpoint, Live, Reviewing
<1>6. Pace'
  BY <1>1, <1>2, <1>3 DEF LimitInv, Pace, Paced, Covers, HasCheckpoint, Live
<1>7. BelowLimit'
  BY <1>1, <1>2 DEF LimitInv, BelowLimit, HasCheckpoint, Live
<1>8. LimitsHold'
  BY <1>1 DEF LimitInv, LimitsHold, StepBudget, ErrorBudget, RepetitionContained
<1> QED BY <1>4, <1>5, <1>6, <1>7, <1>8 DEF LimitInv

(* A recorded failure is one error more.                                   *)
LEMMA LimitRecords ==
  ASSUME TypeInv, ContractInv, UsableInv, LimitInv, RecordObservation
  PROVE  LimitInv'
<1>1. /\ From("settled", "tool_executing") /\ Goes("observed", "observation_recorded")
      /\ run'.steps = run.steps
      /\ ctx'.next = ctx.next /\ ctx'.pending = NoDecision /\ ctx'.acts = ctx.acts
      /\ ctx'.errors \in {0, ctx.errors + 1}
      /\ UNCHANGED <<tail, ckpt, effects, streak, requests, crashes>>
  BY DEF RecordObservation, Transition, WithResults, From, Goes, ContractInv, StandsAt, TypeInv,
         TypeOK, Contexts, world
<1>2. /\ Live /\ Live' /\ ~Acting' /\ ctx.pending \in ToolCalls
      /\ ~Unsaved
  BY <1>1 DEF From, Goes, Live, Acting, ToolStates, TypeInv, Equipped, Unsaved
<1>3. StepsAccounted'
  BY <1>1, <1>2, Numbers DEF LimitInv, StepsAccounted, HasCheckpoint
<1>4. ErrorsAccounted'
  <2>1. ctx.errors < ErrorLimit + crashes
    BY <1>1, <1>2 DEF LimitInv, ErrorsAccounted, From, Reviewing
  <2>2. ctx'.errors <= ErrorLimit + crashes
    BY <1>1, <2>1, Numbers
  <2> QED BY <1>1, <2>2 DEF LimitInv, ErrorsAccounted, HasCheckpoint, Goes, Reviewing
<1>5. Pace'
  <2>1. Paced(ctx)'
    BY <1>1, <1>2, Numbers, DistinctAssumption DEF LimitInv, Pace, Paced, Covers, From
  <2> QED BY <1>1, <2>1 DEF LimitInv, Pace, Paced, Covers, HasCheckpoint, Goes
<1>6. BelowLimit'
  BY <1>1, <1>2, DistinctAssumption DEF LimitInv, BelowLimit, HasCheckpoint, Goes, ToolStates
<1>7. LimitsHold'
  BY <1>1, <1>4, Numbers DEF LimitInv, LimitsHold, StepBudget, ErrorBudget,
                             RepetitionContained, ErrorsAccounted
<1> QED BY <1>3, <1>4, <1>5, <1>6, <1>7 DEF LimitInv

(* A loss costs the one request the checkpoint did not count, and lets one *)
(* more error pass.                                                        *)
LEMMA LimitCrash ==
  ASSUME TypeInv, ContractInv, UsableInv, LimitInv, Crash
  PROVE  LimitInv'
<1>1. /\ Live /\ pc' = "down" /\ ~Live' /\ crashes' = crashes + 1
      /\ ctx'.errors = 0 /\ ctx'.pending = NoDecision
      /\ UNCHANGED <<run, log, tail, ckpt, effects, streak, requests>>
  BY DEF Crash, Live, FreshContext, durable
<1>2. StepsAccounted'
  BY <1>1, Numbers DEF LimitInv, StepsAccounted, HasCheckpoint
<1>3. ErrorsAccounted'
  BY <1>1, Numbers DEF LimitInv, ErrorsAccounted, HasCheckpoint
<1>4. Pace' /\ BelowLimit'
  BY <1>1 DEF LimitInv, Pace, Paced, Covers, BelowLimit, HasCheckpoint, Acting
<1>5. LimitsHold'
  BY <1>1, Numbers DEF LimitInv, LimitsHold, StepBudget, ErrorBudget, RepetitionContained
<1> QED BY <1>2, <1>3, <1>4, <1>5 DEF LimitInv

(* A resumed coroutine goes on with the counts of the checkpoint; a        *)
(* trailing result adds one error to none.                                 *)
LEMMA LimitResumes ==
  ASSUME TypeInv, ContractInv, UsableInv, LimitInv, Resume \/ ResumeReplaying
  PROVE  LimitInv'
<1>1. /\ CanResume /\ ctx' = Replayed /\ pc' \in {"drive", "replayed"}
      /\ UNCHANGED <<log, tail, ckpt, effects, streak, requests, crashes>>
      /\ run'.steps = run.steps
      /\ run' = run \/ run'.state = "observation_recorded"
  BY DEF Resume, ResumeReplaying, CanResume, Transition, durable, world, TypeInv, TypeOK
<1>2. /\ pc = "down" /\ HasCheckpoint /\ ckpt \in Contexts
      /\ ctx'.pending = IF FinishedIn(tail) = {} THEN ckpt.pending ELSE NoDecision
      /\ ctx'.next = ckpt.next /\ ctx'.acts = ckpt.acts
  BY <1>1, ReplayedContext
<1>3. Live' /\ pc' \notin {"invoke", "invoked", "settled", "decided", "down"} \cup Reviewing
  BY <1>1 DEF Live, Reviewing
<1>4. ctx'.errors = ckpt.errors \/ (ckpt.errors = 0 /\ ctx'.errors \in {0, 1})
  <2>1. CASE FinishedIn(tail) = {}
    BY <1>1, <2>1, ReplayedContext
  <2>2. CASE FinishedIn(tail) # {}
    <3>1. ckpt.errors = 0
      BY <1>2, <2>2 DEF LimitInv, ErrorsAccounted
    <3> DEFINE ok == \E c \in FinishedIn(tail) : Fact("tool_completed", c) \in tail
    <3>2. ctx' = WithResults(ckpt, FinishedIn(tail), ok)
      BY <1>1, <2>2, ReplayedContext
    <3> HIDE DEF ok
    <3>3. ctx'.errors = IF ok THEN 0 ELSE ckpt.errors + 1
      BY <1>2, <3>2 DEF WithResults, Contexts
    <3> QED BY <3>1, <3>3
  <2> QED BY <2>1, <2>2
<1>5. StepsAccounted'
  BY <1>1, <1>2, <1>3, Numbers DEF LimitInv, StepsAccounted, HasCheckpoint
<1>6. ErrorsAccounted'
  <2>1. ctx'.errors < ErrorLimit + crashes
    BY <1>2, <1>4, Numbers DEF LimitInv, ErrorsAccounted
  <2>2. ctx'.pending # NoDecision => ctx'.errors = 0
    <3>1. SUFFICES ASSUME ctx'.pending # NoDecision PROVE ctx'.errors = 0
      OBVIOUS
    <3>2. FinishedIn(tail) = {}
      BY <1>2, <3>1
    <3>3. ctx' = ckpt
      BY <1>1, <3>2, ReplayedContext
    <3> QED BY <1>2, <3>1, <3>3 DEF LimitInv, ErrorsAccounted
  <2>3. ctx'.errors <= ErrorLimit + crashes
    BY <1>2, <1>4, Numbers DEF LimitInv, ErrorsAccounted
  <2>4. /\ HasCheckpoint' /\ (ckpt'.pending # NoDecision \/ FinishedIn(tail') # {})
             => ckpt'.errors = 0
        /\ HasCheckpoint' => ckpt'.errors <= ErrorLimit + crashes'
    BY <1>1 DEF LimitInv, ErrorsAccounted, HasCheckpoint
  <2> QED BY <1>1, <1>3, <2>1, <2>2, <2>3, <2>4 DEF ErrorsAccounted
<1>7. Paced(ctx)'
  <2>1. CASE FinishedIn(tail) = {}
    BY <1>1, <1>2, <2>1 DEF LimitInv, Pace, Paced, Covers
  <2>2. CASE FinishedIn(tail) # {}
    BY <1>1, <1>2, <2>2, DistinctAssumption DEF LimitInv, Pace, Paced, Covers
  <2> QED BY <2>1, <2>2
<1>8. Pace'
  BY <1>1, <1>2, <1>3, <1>7 DEF LimitInv, Pace, Paced, Covers, HasCheckpoint
<1>9. BelowLimit'
  <2>1. run'.state \in ToolStates => run' = run
    BY <1>1 DEF ToolStates
  <2>2. ctx'.pending \in ToolCalls => ckpt.pending \in ToolCalls
    BY <1>2, DistinctAssumption
  <2>3. ctx'.acts = ckpt.acts /\ ckpt' = ckpt
    BY <1>1, <1>2
  <2> QED BY <1>2, <2>1, <2>2, <2>3 DEF LimitInv, BelowLimit, HasCheckpoint
<1>10. LimitsHold'
  BY <1>1, <1>3, <1>6, Numbers DEF LimitInv, LimitsHold, StepBudget, ErrorBudget,
                             RepetitionContained, ErrorsAccounted
<1> QED BY <1>5, <1>6, <1>8, <1>9, <1>10 DEF LimitInv

(* A terminal run counts nothing any more.                                 *)
LEMMA LimitEnds ==
  ASSUME TypeInv, ContractInv, UsableInv, LimitInv, Finalize
  PROVE  LimitInv'
<1>1. /\ pc' = "ended" /\ ~Live' /\ run'.steps = run.steps
      /\ ctx'.pending = NoDecision /\ ctx'.errors = 0
      /\ FinishedIn(tail') = FinishedIn(tail)
      /\ UNCHANGED <<ckpt, effects, streak, requests, crashes>>
  <2>1. UsableInv'
    BY UsableEnds
  <2>2. pc' = "ended"
    BY <2>1 DEF Finalize, Append, UsableInv, LogStaysUsable
  <2>3. FinishedIn(tail') = FinishedIn(tail)
    BY AppendOther DEF Finalize, Results
  <2> QED BY <2>2, <2>3 DEF Finalize, Live, FreshContext, TypeInv, TypeOK, world
<1>2. run'.state \in TerminalStates
  <2>1. Accepts(Fact("terminal", NoCall))
    BY HeldRun DEF Finalize, Accepts, Fact, Results, UsableInv, Answered, Responded
  <2> QED BY <2>1 DEF Finalize, TypeInv, TypeOK, Equipped, Goals
<1>3. StepsAccounted' /\ ErrorsAccounted'
  BY <1>1, Numbers DEF LimitInv, StepsAccounted, ErrorsAccounted, HasCheckpoint
<1>4. Pace' /\ BelowLimit'
  BY <1>1, <1>2 DEF LimitInv, Pace, Paced, Covers, BelowLimit, HasCheckpoint, Acting,
                    ToolStates, TerminalStates
<1>5. LimitsHold'
  BY <1>1, Numbers DEF LimitInv, LimitsHold, StepBudget, ErrorBudget, RepetitionContained
<1> QED BY <1>3, <1>4, <1>5 DEF LimitInv

LEMMA LimitRests ==
  ASSUME LimitInv, Rests
  PROVE  LimitInv'
BY DEF Rests, LimitInv, StepsAccounted, ErrorsAccounted, Pace, Paced, Covers, BelowLimit,
       LimitsHold, StepBudget, ErrorBudget, RepetitionContained, HasCheckpoint, Live, Unsaved,
       Acting

(* Every step keeps the limits.                                            *)
LEMMA LimitStep ==
  TypeInv /\ ContractInv /\ UsableInv /\ LimitInv /\ [Next]_vars => LimitInv'
<1> SUFFICES ASSUME TypeInv, ContractInv, UsableInv, LimitInv, [Next]_vars
             PROVE  LimitInv'
  OBVIOUS
<1>1. CASE Works
  BY <1>1, LimitRequest, LimitResponse, LimitDenies, LimitStarts, LimitTakesEffect,
     LimitSettles, LimitRecords DEF Works
<1> QED BY <1>1, StepShapes, LimitStops, LimitMoves, LimitSaves, LimitRests, LimitEnds,
           LimitCrash, LimitResumes

-----------------------------------------------------------------------------
(* Denials                                                                 *)

(* An append of any other fact denies nothing.                             *)
LEMMA OtherFactsDenyNothing ==
  ASSUME NEW f, f.type # "tool_denied", NEW k, Append(f, k)
  PROVE  SameDenials
BY DEF Append, SameDenials, Fact

(* Only Deny denies, and no work is done once a denial is on its way.      *)
LEMMA WorkDenies ==
  ASSUME TypeInv, Works, ~Deny
  PROVE  SameDenials /\ pc \notin {"denied", "ending", "closing", "ended"}
<1>1. CASE RequestModel
  BY <1>1 DEF RequestModel, At, SameDenials
<1>2. CASE \E d \in ToolCalls \cup {FinalAnswer}, u \in Tokens \cup {NoUsage} : ModelResponds(d, u)
  BY <1>2, OtherFactsDenyNothing DEF ModelResponds, Fact
<1>3. CASE StartTool
  BY <1>3, OtherFactsDenyNothing DEF StartTool, At, Fact
<1>4. CASE ToolTakesEffect
  BY <1>4 DEF ToolTakesEffect, durable, SameDenials
<1>5. CASE \E ok \in BOOLEAN : ToolSettles(ok)
  BY <1>5, OtherFactsDenyNothing DEF ToolSettles, Fact
<1>6. CASE RecordObservation
  BY <1>6 DEF RecordObservation, Transition, SameDenials
<1> QED BY <1>1, <1>2, <1>3, <1>4, <1>5, <1>6 DEF Works

LEMMA DenialStopsStart == Init => DenialStops
BY DEF Init, DenialStops

(* A denied run is led to its end by every step but the loss of its        *)
(* process.                                                                *)
LEMMA DenialStopsStep ==
  TypeInv /\ ContractInv /\ UsableInv /\ LimitInv /\ DenialStops /\ [Next]_vars => DenialStops'
<1> SUFFICES ASSUME TypeInv, ContractInv, UsableInv, LimitInv, DenialStops, [Next]_vars
             PROVE  DenialStops'
  OBVIOUS
<1>1. CASE Stops
  BY <1>1 DEF Stops, DenialStops
<1>2. CASE Moves
  BY <1>2 DEF Moves, Quiet, SameDenials, DenialStops, From
<1>3. CASE Saves
  BY <1>3 DEF Saves, Quiet, SameDenials, DenialStops, From
<1>4. CASE Rests
  BY <1>4 DEF Rests, DenialStops
<1>5. CASE Works
  <2>1. CASE Deny
    <3>1. pc' = "denied"
      BY <2>1, Accepted DEF Deny, At, Results
    <3> QED BY <3>1 DEF DenialStops
  <2>2. CASE ~Deny
    <3>1. crashes' = crashes
      BY <1>5 DEF Works, RequestModel, ModelResponds, Deny, StartTool, ToolTakesEffect,
                  ToolSettles, RecordObservation, world
    <3> QED BY <1>5, <2>2, <3>1, WorkDenies DEF SameDenials, DenialStops
  <2> QED BY <2>1, <2>2
<1>6. CASE Finalize
  <2>1. UsableInv' /\ pc' \in {"ended", "refused"}
    BY <1>6, UsableEnds DEF Finalize, Append
  <2> QED BY <2>1 DEF UsableInv, LogStaysUsable, DenialStops
<1>7. CASE Crash
  BY <1>7, Numbers DEF Crash, DenialStops
<1>8. CASE Resume \/ ResumeReplaying
  <2>1. pc = "down" /\ crashes' = crashes
    BY <1>8 DEF Resume, ResumeReplaying, CanResume, UsableInv, LogStaysUsable, world
  <2> QED BY <2>1 DEF LimitInv, ErrorsAccounted, DenialStops
<1> QED BY <1>1, <1>2, <1>3, <1>4, <1>5, <1>6, <1>7, <1>8, StepShapes

-----------------------------------------------------------------------------
(* The whole                                                               *)

(* The inductive invariant holds of every reachable state, whatever the    *)
(* order of decisions, results, cancellations, losses and resumes.         *)
THEOREM RuntimeInvariant == Spec => [](TypeInv /\ RuntimeInv)
<1>1. Init => UsableInv /\ LimitInv /\ DenialStops
  BY UsableInit, LimitStart, DenialStopsStart
<1>2. TypeInv /\ RuntimeInv /\ [Next]_vars => UsableInv' /\ LimitInv' /\ DenialStops'
  BY UsableStep, LimitStep, DenialStopsStep DEF RuntimeInv
<1>3. ContractInv /\ UsableInv /\ LimitInv /\ DenialStops <=> RuntimeInv
  BY DEF RuntimeInv
<1> QED BY <1>1, <1>2, <1>3, ContractInvariant, PTL DEF Spec

(* At most one result trails the latest checkpoint, and the rules of the   *)
(* event log never turn down a write of the runtime.                       *)
(* (reconcile_after_checkpoint, validate_event_append)                     *)
THEOREM LogUsable == Spec => []LogStaysUsable
<1>1. RuntimeInv => LogStaysUsable
  BY DEF RuntimeInv, UsableInv
<1> QED BY <1>1, RuntimeInvariant, PTL

(* The limits hold over any number of process losses: the recorded steps   *)
(* stay within max_steps, a loss costs at most one uncounted request and   *)
(* one error, and no action takes effect repeated_action_limit times in a  *)
(* row.  (next_step, handle_provider_error, ProgressDetector)              *)
THEOREM LimitsKept == Spec => []LimitsHold
<1>1. RuntimeInv => LimitsHold
  BY DEF RuntimeInv, LimitInv
<1> QED BY <1>1, RuntimeInvariant, PTL

(* Only an executing tool takes effect.                                    *)
LEMMA EffectStep ==
  ASSUME TypeInv, ContractInv, UsableInv, [Next]_vars, effects' # effects
  PROVE  pc = "invoke"
<1>1. ~(Stops \/ Moves \/ Saves \/ Rests)
  BY DEF Stops, Moves, Saves, Rests, Quiet
<1>2. ~(Finalize \/ Crash \/ Resume \/ ResumeReplaying)
  BY DEF Finalize, Crash, Resume, ResumeReplaying, world
<1>3. Works
  BY <1>1, <1>2, StepShapes
<1> QED BY <1>3 DEF Works, RequestModel, ModelResponds, Deny, StartTool, ToolTakesEffect,
                    ToolSettles, RecordObservation, world

(* A denied call does not take effect in a run whose process was never     *)
(* lost.  (handle_approval_pending, trigger_policy)                        *)
THEOREM DenialsHold == Spec => DenialHolds
<1>1. TypeInv /\ RuntimeInv /\ [Next]_vars
        => [\A c \in Calls : Fact("tool_denied", c) \in log /\ effects'[c] # effects[c]
              => crashes > 0]_vars
  <2> SUFFICES ASSUME TypeInv, RuntimeInv, [Next]_vars,
                      NEW c \in Calls, Fact("tool_denied", c) \in log, effects'[c] # effects[c]
               PROVE  crashes > 0
    OBVIOUS
  <2>1. pc = "invoke"
    BY EffectStep DEF RuntimeInv
  <2> QED BY <2>1, Numbers DEF RuntimeInv, DenialStops
<1> QED BY <1>1, RuntimeInvariant, PTL DEF Spec, DenialHolds

(* The place an action leaves the coroutine at.                            *)
LEMMA DeadlineStep ==
  ASSUME TypeInv, ContractInv, UsableInv, [Next]_vars, late, pc' \in {"model_call", "invoke"}
  PROVE  pc' = pc
<1>1. CASE Works
  BY <1>1 DEF Works, RequestModel, ModelResponds, Deny, StartTool, ToolTakesEffect,
              ToolSettles, RecordObservation, Append, Transition
<1>2. CASE Stops \/ Moves \/ Saves \/ Rests
  BY <1>2 DEF Stops, Moves, Saves, Rests, Goes
<1>3. CASE Finalize \/ Crash \/ Resume \/ ResumeReplaying
  BY <1>3 DEF Finalize, Crash, Resume, ResumeReplaying, Append, Transition
<1> QED BY <1>1, <1>2, <1>3, StepShapes

(* No model call and no tool starts after max_runtime has elapsed.         *)
(* (handle_model_pending, handle_tool_executing)                           *)
THEOREM DeadlineKept == Spec => DeadlineHolds
<1>1. TypeInv /\ RuntimeInv /\ [Next]_vars
        => [late => (pc' \in {"model_call", "invoke"} => pc' = pc)]_vars
  BY DeadlineStep DEF RuntimeInv
<1> QED BY <1>1, RuntimeInvariant, PTL DEF Spec, DeadlineHolds

-----------------------------------------------------------------------------
(* The end of a coroutine                                                  *)

LEMMA RanksOfPlaces ==
  /\ FromPlace["model_call"] = 19 /\ FromPlace["responded"] = 18 /\ FromPlace["decided"] = 17
  /\ FromPlace["budget"] = 16 /\ FromPlace["granted"] = 12 /\ FromPlace["denied"] = 12
  /\ FromPlace["invoke"] = 10 /\ FromPlace["invoked"] = 9 /\ FromPlace["settled"] = 8
  /\ FromPlace["starting"] = 8 /\ FromPlace["first_ckpt"] = 7 /\ FromPlace["observed"] = 7
  /\ FromPlace["review"] = 6 /\ FromPlace["replayed"] = 6 /\ FromPlace["notify"] = 5
  /\ FromPlace["ending"] = 2 /\ FromPlace["closing"] = 1
BY DEF FromPlace, Places, Waits

LEMMA RanksOfStates ==
  /\ FromState["decision_received"] = 15 /\ FromState["tool_pending"] = 14
  /\ FromState["approval_pending"] = 13 /\ FromState["tool_executing"] = 11
  /\ FromState["observation_recorded"] = 5 /\ FromState["model_pending"] = 4
  /\ \A s \in RunState : FromState[s] \in 4 .. 15
BY DEF FromState, RunState, ActiveStates, TerminalStates

Rank == IF pc = "drive" THEN FromState[run.state] ELSE FromPlace[pc]

(* A coroutine that holds a run has something left to do.                  *)
LEMMA SomethingLeft ==
  ASSUME TypeInv
  PROVE  /\ MaxSteps + 1 - ctx.next \in Nat
         /\ Remaining = IF Live THEN 20 * (MaxSteps + 1 - ctx.next) + Rank ELSE 0
         /\ Live => Rank \in 1 .. 19
         /\ Live /\ pc \notin Committed => Rank > 2
<1>1. /\ MaxSteps + 1 - ctx.next \in Nat /\ run.state \in RunState /\ pc \in Places
  BY PolicyAssumption DEF TypeInv, TypeOK, Contexts
<1>2. Live => Rank \in 1 .. 19
  BY <1>1, RanksOfPlaces, RanksOfStates DEF Rank, Live, Places, Waits
<1>3. Live /\ pc \notin Committed => Rank > 2
  BY <1>1, RanksOfPlaces, RanksOfStates DEF Rank, Live, Places, Waits, Committed
<1> QED BY <1>1, <1>2, <1>3 DEF Remaining, Rank, StepLength

LEMMA Within ==
  ASSUME TypeInv, Live
  PROVE  Remaining \in 1 .. StepLength * (MaxSteps + 1)
<1>1. MaxSteps \in Nat /\ ctx.next \in 1 .. MaxSteps + 1
  BY PolicyAssumption DEF TypeInv, TypeOK, Contexts
<1>2. Rank \in 1 .. 19 /\ Remaining = 20 * (MaxSteps + 1 - ctx.next) + Rank
  BY SomethingLeft
<1> QED BY <1>1, <1>2 DEF StepLength

LEMMA SomethingLeftNext ==
  ASSUME TypeInv'
  PROVE  /\ MaxSteps + 1 - ctx'.next \in Nat
         /\ Remaining' = IF Live' THEN 20 * (MaxSteps + 1 - ctx'.next) + Rank' ELSE 0
         /\ Live' => Rank' \in 1 .. 19
<1>1. /\ MaxSteps + 1 - ctx'.next \in Nat /\ run'.state \in RunState /\ pc' \in Places
  BY PolicyAssumption DEF TypeInv, TypeOK, Contexts
<1>2. Live' => Rank' \in 1 .. 19
  BY <1>1, RanksOfPlaces, RanksOfStates DEF Rank, Live, Places, Waits
<1> QED BY <1>1, <1>2 DEF Remaining, Rank, StepLength

(* As long as it does not return to an earlier step, the rank decides.     *)
LEMMA RankDecides ==
  ASSUME TypeInv, TypeInv', Live, ctx'.next >= ctx.next, Rank' < Rank
  PROVE  Remaining' < Remaining
<1>1. /\ MaxSteps + 1 - ctx.next \in Nat /\ MaxSteps + 1 - ctx'.next \in Nat
      /\ Rank \in 1 .. 19
      /\ Live' => Rank' \in 1 .. 19
  BY SomethingLeft, SomethingLeftNext
<1>2. MaxSteps \in Nat /\ ctx.next \in Nat /\ ctx'.next \in Nat
  BY PolicyAssumption DEF TypeInv, TypeOK, Contexts
<1>3. Remaining = 20 * (MaxSteps + 1 - ctx.next) + Rank
  BY SomethingLeft
<1>4. Remaining' = IF Live' THEN 20 * (MaxSteps + 1 - ctx'.next) + Rank' ELSE 0
  BY SomethingLeftNext
<1> QED BY <1>1, <1>2, <1>3, <1>4

LEMMA NearerWorks ==
  ASSUME TypeInv, TypeInv', ContractInv, UsableInv, Works
  PROVE  Remaining' < Remaining
<1>1. CASE RequestModel
  <2>1. /\ Live /\ Live' /\ Rank = 4 /\ Rank' = 19 /\ ctx'.next = ctx.next + 1
    BY <1>1, RanksOfPlaces, RanksOfStates
       DEF RequestModel, At, Live, Rank, TypeInv, TypeOK, Contexts
  <2>2. /\ Remaining = 20 * (MaxSteps + 1 - ctx.next) + 4
        /\ Remaining' = 20 * (MaxSteps + 1 - ctx'.next) + 19
    BY <2>1, SomethingLeft, SomethingLeftNext
  <2>3. MaxSteps \in Nat /\ ctx.next \in Nat
    BY PolicyAssumption DEF TypeInv, TypeOK, Contexts
  <2> QED BY <2>1, <2>2, <2>3
<1>2. CASE ~RequestModel
  <2>1. UsableInv'
    BY UsableWorks
  <2>2. pc' # "refused" /\ Live
    BY <1>2, <2>1 DEF UsableInv, LogStaysUsable, Works, ModelResponds, Deny, StartTool,
                      ToolTakesEffect, ToolSettles, RecordObservation, At, Live
  <2>3. ctx'.next = ctx.next
    BY <1>2 DEF Works, ModelResponds, Deny, StartTool, ToolTakesEffect, ToolSettles,
                RecordObservation, WithResults, TypeInv, TypeOK, Contexts
  <2>4. Rank' < Rank
    <3>1. CASE \E d \in ToolCalls \cup {FinalAnswer}, u \in Tokens \cup {NoUsage} :
                 ModelResponds(d, u)
      <4>1. pc = "model_call" /\ pc' = "responded"
        BY <2>2, <3>1 DEF ModelResponds, Append
      <4> QED BY <4>1, RanksOfPlaces DEF Rank
    <3>2. CASE Deny
      <4>1. pc = "drive" /\ run.state = "approval_pending" /\ pc' = "denied"
        BY <2>2, <3>2 DEF Deny, At, Append
      <4> QED BY <4>1, RanksOfPlaces, RanksOfStates DEF Rank
    <3>3. CASE StartTool
      <4>1. pc = "drive" /\ run.state = "tool_executing" /\ pc' = "invoke"
        BY <2>2, <3>3 DEF StartTool, At, Append
      <4> QED BY <4>1, RanksOfPlaces, RanksOfStates DEF Rank
    <3>4. CASE ToolTakesEffect
      BY <3>4, RanksOfPlaces DEF ToolTakesEffect, Rank
    <3>5. CASE \E ok \in BOOLEAN : ToolSettles(ok)
      <4>1. pc \in {"invoke", "invoked"} /\ pc' = "settled"
        BY <2>2, <3>5 DEF ToolSettles, Append
      <4> QED BY <4>1, RanksOfPlaces DEF Rank
    <3>6. CASE RecordObservation
      <4>1. pc = "settled" /\ pc' = "observed"
        BY <3>6 DEF RecordObservation, Transition
      <4> QED BY <4>1, RanksOfPlaces DEF Rank
    <3> QED BY <1>2, <3>1, <3>2, <3>3, <3>4, <3>5, <3>6 DEF Works
  <2>5. ctx.next \in Nat
    BY DEF TypeInv, TypeOK, Contexts
  <2> QED BY <2>2, <2>3, <2>4, <2>5, RankDecides
<1> QED BY <1>1, <1>2

LEMMA NearerStep ==
  ASSUME TypeInv, TypeInv', RuntimeInv, [Next]_vars, Live,
         <<durable, volatile>>' # <<durable, volatile>>
  PROVE  Remaining' < Remaining
<1>0. /\ ContractInv /\ UsableInv
      /\ ctx.next \in Nat /\ Rank \in 1 .. 19 /\ Remaining > 0
  BY SomethingLeft DEF RuntimeInv, TypeInv, TypeOK, Contexts
<1>1. CASE Stops
  <2>1. Rank > 2 /\ Rank' = 2
    BY <1>1, SomethingLeft, RanksOfPlaces DEF Stops, Rank
  <2> QED BY <1>0, <1>1, <2>1, RankDecides DEF Stops
<1>2. CASE Moves
  <2>1. Rank' < Rank
    BY <1>2, RanksOfPlaces, RanksOfStates DEF Moves, From, Goes, Rank
  <2> QED BY <1>0, <1>2, <2>1, RankDecides DEF Moves
<1>3. CASE Saves
  <2>1. ctx'.next = ctx.next
    BY <1>3 DEF Saves, TypeInv, TypeOK, Contexts
  <2>2. Rank' < Rank
    BY <1>3, RanksOfPlaces, RanksOfStates DEF Saves, From, Rank
  <2> QED BY <1>0, <2>1, <2>2, RankDecides
<1>4. CASE Rests
  BY <1>4 DEF Rests, durable, volatile
<1>5. CASE Works
  BY <1>0, <1>5, NearerWorks
<1>6. CASE Finalize \/ Crash
  <2>1. UsableInv'
    BY <1>0, <1>6, UsableEnds
  <2>2. ~Live'
    BY <1>6, <2>1 DEF Finalize, Append, Crash, Live
  <2> QED BY <1>0, <2>2, SomethingLeftNext
<1>7. CASE Resume \/ ResumeReplaying
  BY <1>7 DEF Resume, ResumeReplaying, CanResume, Live
<1> QED BY <1>0, <1>1, <1>2, <1>3, <1>4, <1>5, <1>6, <1>7, StepShapes

(* A coroutine comes nearer to its end with every step it takes, and by    *)
(* Remaining it has at most StepLength * (MaxSteps + 1) of them: no order  *)
(* of answers, errors and cancellations keeps the driver's loop turning.   *)
(* (_drive, terminate)                                                     *)
THEOREM CoroutineEnds == Spec => ComesNearer
<1>1. TypeInv /\ TypeInv' /\ RuntimeInv /\ [Next]_vars
        => [Live /\ <<durable, volatile>>' # <<durable, volatile>>
              => /\ Remaining \in 1 .. StepLength * (MaxSteps + 1)
                 /\ Remaining' < Remaining]_vars
  BY NearerStep, Within
<1> QED BY <1>1, RuntimeInvariant, PTL DEF Spec, ComesNearer

-----------------------------------------------------------------------------
(* AgentRuntime implements ToolContract: under its mapping, which reads the *)
(* phase of a call off the durable log, every step is a step of            *)
(* ToolContract or leaves its variables alone.                             *)

(* The facts a phase depends on.                                           *)
SamePhases ==
  /\ StartedIn(log') = StartedIn(log) /\ FinishedIn(log') = FinishedIn(log)
  /\ \A c \in Calls : Fact("tool_approved", c) \in log' <=> Fact("tool_approved", c) \in log

(* A step that keeps them, the executions and the outcome is a stutter.    *)
LEMMA StutterStep ==
  ASSUME SamePhases, UNCHANGED <<effects, abandoned>>, run'.reason = run.reason
  PROVE  UNCHANGED Contract!vars
BY DEF SamePhases, PhaseOf, Contract!vars

LEMMA QuietStep ==
  ASSUME UNCHANGED <<log, effects, abandoned>>, run'.reason = run.reason
  PROVE  UNCHANGED Contract!vars
BY DEF PhaseOf, Contract!vars, StartedIn, FinishedIn

(* So is an append that is about no tool.                                  *)
LEMMA AppendStutters ==
  ASSUME NEW t, NEW c, NEW k, Append(Fact(t, c), k),
         t \notin {"tool_started", "tool_approved"} \cup Results,
         UNCHANGED <<effects, abandoned>>, run'.reason = run.reason
  PROVE  UNCHANGED Contract!vars
<1>1. SamePhases
  BY AppendOther DEF SamePhases, Fact
<1> QED BY <1>1, StutterStep

LEMMA TriggerStutters ==
  ASSUME NEW r, Trigger(r), UNCHANGED world
  PROVE  UNCHANGED Contract!vars
BY AppendStutters DEF Trigger, Results, world

LEMMA TransitionStutters ==
  ASSUME TypeInv, NEW s, NEW k, Transition(s, k), UNCHANGED world
  PROVE  UNCHANGED Contract!vars
BY QuietStep DEF Transition, world, TypeInv, TypeOK

LEMMA SaveCheckpointStutters ==
  ASSUME NEW c, SaveCheckpoint(c), UNCHANGED world
  PROVE  UNCHANGED Contract!vars
BY QuietStep DEF SaveCheckpoint, world

LEMMA NoWriteStutters ==
  ASSUME UNCHANGED <<durable, effects, abandoned>>
  PROVE  UNCHANGED Contract!vars
BY QuietStep DEF durable

LEMMA InitRefines == Init => Contract!Init
BY DEF Init, Contract!Init, PhaseOf, StartedIn, FinishedIn

-----------------------------------------------------------------------------
(* The steps that mean something to the contract                           *)

LEMMA ApproveRefines ==
  ASSUME TypeInv, ContractInv, Approve
  PROVE  Contract!Next \/ UNCHANGED Contract!vars
<1>0. PICK c \in Calls : c = ctx.pending.call
  BY DEF Approve, ToolCalls
<1>1. /\ c \in Calls /\ pc = "drive" /\ Append(Fact("tool_approved", c), "granted")
      /\ UNCHANGED <<run, effects, abandoned>>
  BY <1>0 DEF Approve, At, world
<1>2. /\ StartedIn(log') = StartedIn(log) /\ FinishedIn(log') = FinishedIn(log)
      /\ log \subseteq log' /\ log' \subseteq log \cup {Fact("tool_approved", c)}
  BY <1>1, AppendOther DEF Results
<1>3. \A d \in Calls : d # c =>
        (Fact("tool_approved", d) \in log' <=> Fact("tool_approved", d) \in log)
  BY <1>2 DEF Fact
<1>4. CASE Fact("tool_approved", c) \in log \/ Fact("tool_approved", c) \notin log'
  <2>1. SamePhases
    BY <1>2, <1>3, <1>4 DEF SamePhases
  <2> QED BY <1>1, <2>1, StutterStep
<1>5. CASE Fact("tool_approved", c) \notin log /\ Fact("tool_approved", c) \in log'
  <2>1. c \notin StartedIn(log) /\ c \notin FinishedIn(log)
    BY <1>1, <1>5 DEF ContractInv, InOrder
  <2>2. PhaseOf(c) = "new" /\ PhaseOf(c)' = "approved"
    BY <1>2, <1>5, <2>1 DEF PhaseOf
  <2>3. \A d \in Calls : d # c => PhaseOf(d)' = PhaseOf(d)
    BY <1>2, <1>3 DEF PhaseOf
  <2>4. [d \in Calls |-> PhaseOf(d)]' = [[d \in Calls |-> PhaseOf(d)] EXCEPT ![c] = "approved"]
    BY <1>1, <2>2, <2>3
  <2>5. run.reason = "none"
    BY <1>1, HeldRun
  <2>6. Contract!Approve(c)
    BY <1>1, <2>2, <2>4, <2>5 DEF Contract!Approve, Contract!Advance
  <2> QED BY <1>1, <2>6 DEF Contract!Next
<1> QED BY <1>4, <1>5

LEMMA StartRefines ==
  ASSUME TypeInv, ContractInv, StartTool
  PROVE  Contract!Next \/ UNCHANGED Contract!vars
<1>0. PICK c \in Calls : c = ctx.pending.call
  BY DEF StartTool, ToolCalls
<1>1. /\ c \in Calls /\ pc = "drive" /\ run.state = "tool_executing"
      /\ ctx.pending \in ToolCalls /\ c \notin ctx.done
      /\ Append(Fact("tool_started", c), "invoke")
      /\ UNCHANGED <<run, effects, abandoned>>
  BY <1>0 DEF StartTool, At, world
<1>2. Fact("tool_approved", c) \in log /\ c \notin FinishedIn(log)
  BY <1>0, <1>1 DEF ContractInv, DecisionSaved, CoroutineKnows, Current, Live, ToolStates
<1>3. CASE c \in StartedIn(log) \/ log' = log
  <2>1. SamePhases
    BY <1>1, <1>3, StartOfCall DEF SamePhases, Append, Fact
  <2> QED BY <1>1, <2>1, StutterStep
<1>4. CASE c \notin StartedIn(log) /\ log' = log \cup {Fact("tool_started", c)}
  <2>1. /\ StartedIn(log') = StartedIn(log) \cup {c} /\ FinishedIn(log') = FinishedIn(log)
        /\ \A d \in Calls : Fact("tool_approved", d) \in log' <=> Fact("tool_approved", d) \in log
    BY <1>1, <1>4, StartOfCall DEF Fact
  <2>2. PhaseOf(c) = "approved" /\ PhaseOf(c)' = "started"
    BY <1>1, <1>2, <1>4, <2>1 DEF PhaseOf
  <2>3. \A d \in Calls : d # c => PhaseOf(d)' = PhaseOf(d)
    BY <2>1 DEF PhaseOf
  <2>4. [d \in Calls |-> PhaseOf(d)]' = [[d \in Calls |-> PhaseOf(d)] EXCEPT ![c] = "started"]
    BY <1>1, <2>2, <2>3
  <2>5. run.reason = "none"
    BY <1>1, HeldRun
  <2>6. Contract!Start(c)
    BY <1>1, <2>2, <2>4, <2>5 DEF Contract!Start, Contract!Advance
  <2> QED BY <1>1, <2>6 DEF Contract!Next
<1> QED BY <1>1, <1>3, <1>4 DEF Append

(* An effect happens in the "started" phase, a first time or after an      *)
(* abandoned execution.                                                    *)
LEMMA ExecuteRefines ==
  ASSUME TypeInv, ContractInv, ToolTakesEffect
  PROVE  Contract!Next
<1> DEFINE c == ctx.pending.call
<1>1. /\ pc = "invoke" /\ effects' = [effects EXCEPT ![c] = @ + 1]
      /\ UNCHANGED <<run, log, abandoned>>
  BY DEF ToolTakesEffect, durable
<1>2. c \in Calls
  BY <1>1 DEF TypeInv, Equipped, ToolCalls
<1>3. PhaseOf(c) = "started" /\ (effects[c] = 0 \/ c \in abandoned)
  BY <1>1 DEF ContractInv, ExecutingOnce, PhaseOf
<1>4. run.reason = "none"
  BY <1>1, HeldRun
<1>5. [d \in Calls |-> PhaseOf(d)]' = [d \in Calls |-> PhaseOf(d)]
  BY <1>1 DEF PhaseOf, StartedIn, FinishedIn
<1>6. Contract!Execute(c)
  BY <1>1, <1>2, <1>3, <1>4, <1>5 DEF Contract!Execute
<1> QED BY <1>2, <1>6 DEF Contract!Next

LEMMA SettleRefines ==
  ASSUME TypeInv, ContractInv, NEW ok \in BOOLEAN, ToolSettles(ok)
  PROVE  Contract!Next \/ UNCHANGED Contract!vars
<1>0. PICK c \in Calls : c = ctx.pending.call
  BY DEF ToolSettles, TypeInv, Equipped, ToolCalls
<1>1. PICK t \in Results : Append(Fact(t, c), "settled")
  BY <1>0 DEF ToolSettles, Results
<1>2. pc \in {"invoke", "invoked"} /\ UNCHANGED <<run, effects, abandoned>>
  BY DEF ToolSettles, world
<1>3. c \in Calls /\ c \in StartedIn(log) /\ c \notin FinishedIn(log)
  BY <1>0, <1>2 DEF ContractInv, ExecutingOnce, TypeInv, Equipped, ToolCalls
<1>4. CASE log' = log
  BY <1>2, <1>4, QuietStep
<1>5. CASE log' = log \cup {Fact(t, c)}
  <2>1. StartedIn(log') = StartedIn(log) /\ FinishedIn(log') = FinishedIn(log) \cup {c}
    BY <1>1, <1>3, <1>5, ResultOfCall
  <2>2. \A d \in Calls : Fact("tool_approved", d) \in log' <=> Fact("tool_approved", d) \in log
    BY <1>5 DEF Fact, Results
  <2>3. PhaseOf(c) = "started" /\ PhaseOf(c)' = "settled"
    BY <1>3, <2>1 DEF PhaseOf
  <2>4. \A d \in Calls : d # c => PhaseOf(d)' = PhaseOf(d)
    BY <2>1, <2>2 DEF PhaseOf
  <2>5. [d \in Calls |-> PhaseOf(d)]' = [[d \in Calls |-> PhaseOf(d)] EXCEPT ![c] = "settled"]
    BY <1>3, <2>3, <2>4
  <2>6. run.reason = "none"
    BY <1>2, HeldRun
  <2>7. Contract!Settle(c)
    BY <1>2, <1>3, <2>3, <2>5, <2>6 DEF Contract!Settle, Contract!Advance
  <2> QED BY <1>3, <2>7 DEF Contract!Next
<1> QED BY <1>1, <1>4, <1>5 DEF Append

(* An exception or a cancellation in the middle of an execution.           *)
LEMMA AbandonRefines ==
  ASSUME TypeInv, ContractInv, ToolRaises \/ Cancel
  PROVE  Contract!Next \/ UNCHANGED Contract!vars
<1> DEFINE c == ctx.pending.call
<1>1. /\ UNCHANGED <<run, log, effects>>
      /\ \/ pc \in {"invoke", "invoked"} /\ abandoned' = abandoned \cup {c}
         \/ abandoned' = abandoned
  BY DEF ToolRaises, Cancel, durable
<1>2. CASE abandoned' = abandoned
  BY <1>1, <1>2, QuietStep
<1>3. CASE pc \in {"invoke", "invoked"} /\ abandoned' = abandoned \cup {c}
  <2>1. c \in Calls /\ PhaseOf(c) = "started"
    BY <1>3 DEF ContractInv, ExecutingOnce, TypeInv, Equipped, ToolCalls, PhaseOf
  <2>2. run.reason = "none"
    BY <1>3, HeldRun
  <2>3. [d \in Calls |-> PhaseOf(d)]' = [d \in Calls |-> PhaseOf(d)]
    BY <1>1 DEF PhaseOf, StartedIn, FinishedIn
  <2>4. Contract!Abandon(c)
    BY <1>1, <1>3, <2>1, <2>2, <2>3 DEF Contract!Abandon
  <2> QED BY <2>1, <2>4 DEF Contract!Next
<1> QED BY <1>1, <1>2, <1>3

LEMMA CloseRefines ==
  ASSUME TypeInv, ContractInv, Finalize
  PROVE  Contract!Next \/ UNCHANGED Contract!vars
<1>1. /\ pc = "closing" /\ Append(Fact("terminal", NoCall), "ended")
      /\ UNCHANGED <<effects, abandoned>>
  BY DEF Finalize, world
<1>2. SamePhases
  BY <1>1, AppendOther DEF SamePhases, Results, Fact
<1>3. CASE ~Accepts(Fact("terminal", NoCall))
  <2>1. run' = run
    BY <1>3 DEF Finalize
  <2> QED BY <1>1, <1>2, <2>1, StutterStep
<1>4. CASE Accepts(Fact("terminal", NoCall))
  <2>1. run'.reason = goal.reason /\ goal.reason \in StopReason
    BY <1>1, <1>4 DEF Finalize, TypeInv, TypeOK, Equipped, Goals
  <2>2. run.reason = "none"
    BY <1>1, HeldRun
  <2>3. [d \in Calls |-> PhaseOf(d)]' = [d \in Calls |-> PhaseOf(d)]
    BY <1>2 DEF SamePhases, PhaseOf
  <2>4. Contract!Close(goal.reason)
    BY <1>1, <2>1, <2>2, <2>3 DEF Contract!Close
  <2> QED BY <2>1, <2>4 DEF Contract!Next
<1> QED BY <1>3, <1>4

-----------------------------------------------------------------------------

(* All other steps leave the variables of the contract alone.              *)
LEMMA OtherSteps ==
  ASSUME TypeInv, ContractInv,
         \/ Begin \/ FirstCheckpoint
         \/ StopBeforeModel \/ RequestModel
         \/ \E d \in ToolCalls \cup {FinalAnswer}, u \in Tokens \cup {NoUsage} :
              ModelResponds(d, u)
         \/ ModelInvalid
         \/ \E retryable \in BOOLEAN : ModelFails(retryable)
         \/ StopOnErrors \/ RecordDecision \/ CheckpointDecision \/ CheckBudget
         \/ DecisionMissing \/ Complete \/ ContainRepetition \/ AcceptToolCall
         \/ AskApproval \/ Deny \/ ApprovalFails \/ StopOnDenial \/ GrantExecution
         \/ StopBeforeTool \/ RefuseCompleted \/ RecordObservation
         \/ CheckpointObservation
         \/ \E stuck \in BOOLEAN : ReviewProgress(stuck)
         \/ NextStep \/ CheckpointEnding \/ Recover \/ Crash \/ Deadline
         \/ UNCHANGED vars
  PROVE  UNCHANGED Contract!vars
<1>1. CASE Begin \/ RecordDecision \/ AcceptToolCall \/ AskApproval \/ GrantExecution
             \/ RecordObservation \/ NextStep \/ ResumeReplaying
  BY <1>1, TransitionStutters
     DEF Begin, RecordDecision, AcceptToolCall, AskApproval, GrantExecution,
         RecordObservation, NextStep, ResumeReplaying
<1>2. CASE FirstCheckpoint \/ CheckpointObservation \/ CheckpointEnding \/ CheckpointReplay
             \/ \E retryable \in BOOLEAN : ModelFails(retryable)
  BY <1>2, SaveCheckpointStutters
     DEF FirstCheckpoint, CheckpointObservation, CheckpointEnding, CheckpointReplay,
         ModelFails, FailWith
<1>3. CASE CheckpointDecision
  BY <1>3, SaveCheckpointStutters, NoWriteStutters DEF CheckpointDecision, world
<1>4. CASE StopBeforeModel \/ StopOnErrors \/ ContainRepetition \/ StopOnDenial
             \/ StopBeforeTool
  BY <1>4, TriggerStutters
     DEF StopBeforeModel, StopOnErrors, ContainRepetition, StopOnDenial, StopBeforeTool
<1>5. CASE CheckBudget \/ \E stuck \in BOOLEAN : ReviewProgress(stuck)
  BY <1>5, TriggerStutters, NoWriteStutters DEF CheckBudget, ReviewProgress, world
<1>6. CASE ModelInvalid \/ DecisionMissing \/ Complete \/ ApprovalFails \/ RefuseCompleted
             \/ Resume \/ Crash \/ Deadline \/ UNCHANGED vars
  BY <1>6, NoWriteStutters
     DEF ModelInvalid, DecisionMissing, Complete, ApprovalFails, RefuseCompleted, Resume,
         Crash, Deadline, vars, world
<1>7. CASE RequestModel
  BY <1>7, QuietStep DEF RequestModel, TypeInv, TypeOK
<1>8. ASSUME NEW d, NEW u, ModelResponds(d, u)
      PROVE UNCHANGED Contract!vars
  BY <1>8, AppendStutters DEF ModelResponds, Results, world
<1>9. CASE Deny
  BY <1>9, AppendStutters DEF Deny, Results, world
<1> QED BY <1>1, <1>2, <1>3, <1>4, <1>5, <1>6, <1>7, <1>8, <1>9 DEF Recover

LEMMA StepRefines ==
  TypeInv /\ ContractInv /\ [Next]_vars => [Contract!Next]_(Contract!vars)
<1> SUFFICES ASSUME TypeInv, ContractInv, [Next]_vars
             PROVE  Contract!Next \/ UNCHANGED Contract!vars
  OBVIOUS
<1> QED BY ApproveRefines, StartRefines, ExecuteRefines, SettleRefines, AbandonRefines,
           CloseRefines, OtherSteps
        DEF Next, Drive, Rest

(* The runtime keeps the promise of ToolContract.                          *)
THEOREM RuntimeKeepsContract == Spec => KeepsContract
BY InitRefines, StepRefines, ContractInvariant, PTL
   DEF Spec, KeepsContract, Contract!Spec
=============================================================================
