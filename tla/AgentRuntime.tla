---------------------------- MODULE AgentRuntime ----------------------------
(***************************************************************************)
(* One durable run of avo's AgentRuntime: the handlers of the state        *)
(* machine, the event store they write to, checkpoints, cancellation,      *)
(* process loss and resume.                                                *)
(*                                                                         *)
(* A step of this specification ends with at most one durable write, so a  *)
(* Crash between two steps is process loss between two transactions of the *)
(* event store.  The store's operations run synchronously under a lock     *)
(* that is never contended, hence a write and the in-memory work next to   *)
(* it are one step; the places where the coroutine really suspends (model  *)
(* call, approval, tool, hooks) are the places Cancel can strike.          *)
(*                                                                         *)
(* Events that no code reads back (RUN_CREATED, MODEL_REQUESTED,           *)
(* TOOL_REQUESTED, TOOL_APPROVAL_REQUESTED, RUN_RESUMED) are left out of   *)
(* the modelled log; STATE_CHANGED is the change of run.state it commits   *)
(* together with, CHECKPOINT_CREATED the change of ckpt.                   *)
(***************************************************************************)
EXTENDS Naturals, FiniteSets, RunStates

CONSTANTS
  Calls,               \* tool_call_id values a model may use, also twice
  Actions,             \* fingerprints (tool name and arguments) of a call
  NoAction,            \* no fingerprint recorded yet
  NoCall,              \* an event that is not about a tool call
  NoDecision,          \* pending_response is None
  FinalAnswer,         \* a model response without a tool call
  NoCheckpoint,        \* no checkpoint was saved yet
  NoUsage,             \* a response that reports no usage
  Tokens,              \* the usage a response may report
  TokenBudget,         \* max_total_tokens
  MaxSteps,            \* max_steps
  ErrorLimit,          \* consecutive_error_limit
  RepeatLimit,         \* repeated_action_limit
  CheckpointEveryStep, \* checkpoint_every_step
  MaxCrashes           \* bound of the model: process losses in one behaviour

ToolCalls == [call : Calls, action : Actions]

ASSUME PolicyAssumption ==
  /\ MaxSteps \in Nat \ {0}
  /\ ErrorLimit \in Nat \ {0}
  /\ RepeatLimit \in Nat \ {0}
  /\ TokenBudget \in Nat
  /\ Tokens \subseteq Nat
  /\ NoUsage \notin Tokens
  /\ CheckpointEveryStep \in BOOLEAN
  /\ MaxCrashes \in Nat

ASSUME DistinctAssumption ==
  /\ NoAction \notin Actions
  /\ NoCall \notin Calls
  /\ NoDecision \notin ToolCalls
  /\ FinalAnswer \notin ToolCalls
  /\ NoDecision # FinalAnswer

VARIABLES
  \* durable: rows of the event store
  run,        \* RunRecord: state, stop reason, steps
  log,        \* facts the event log holds
  tail,       \* the facts logged after the latest checkpoint
  ckpt,       \* the latest Checkpoint
  \* volatile: the coroutine that drives the run
  pc,         \* where it stands between two durable writes
  ctx,        \* _RunContext
  goal,       \* the outcome terminate() is about to persist
  \* the world outside the program
  effects,    \* how often each tool call took effect
  streak,     \* the action executed latest and how many calls of it in a row took effect
  abandoned,  \* calls whose execution ended in an exception, not a result
  requests,   \* model calls made
  late,       \* max_runtime_seconds have elapsed since created_at
  crashes

durable  == <<run, log, tail, ckpt>>
volatile == <<pc, ctx, goal>>
world    == <<effects, streak, abandoned, requests, late, crashes>>
vars     == <<durable, volatile, world>>

-----------------------------------------------------------------------------
(* Data                                                                    *)

Decisions == ToolCalls \cup {FinalAnswer, NoDecision}

EventTypes ==
  {"model_responded", "tool_approved", "tool_denied", "tool_started",
   "tool_completed", "tool_failed", "policy_triggered", "terminal"}

Results == {"tool_completed", "tool_failed"}

Facts == [type : EventTypes, call : Calls \cup {NoCall}]

Fact(t, c) == [type |-> t, call |-> c]

(* ProgressDetector.action_history, kept as its identical tail.            *)
Runs == [last : Actions \cup {NoAction}, n : Nat]

Extend(r, a) == [last |-> a, n |-> IF r.last = a THEN r.n + 1 ELSE 1]

(* The streak when an execution of a starts: another action ends it.       *)
Begun(r, a) == IF r.last = a THEN r ELSE [last |-> a, n |-> 0]

Contexts ==
  [next : 1 .. MaxSteps + 1, usage : Nat, metered : BOOLEAN, errors : Nat,
   done : SUBSET Calls, pending : Decisions, acts : Runs]

ASSUME CheckpointAssumption == NoCheckpoint \notin Contexts

FreshContext ==
  [next |-> 1, usage |-> 0, metered |-> TRUE, errors |-> 0,
   done |-> {}, pending |-> NoDecision, acts |-> [last |-> NoAction, n |-> 0]]

NoGoal == [state |-> "none", reason |-> "none"]

Goals ==
  [state : TerminalStates, reason : StopReason] \cup {NoGoal}

Waits == {"model_call", "invoke", "invoked", "notify", "observed"}

Places ==
  {"starting", "first_ckpt", "drive", "responded", "decided", "budget",
   "granted", "denied", "settled", "review",
   "ending", "closing", "replayed", "ended", "refused", "down"} \cup Waits

(* A coroutine holds the run and its context.                              *)
Live == pc \notin {"ended", "refused", "down"}

StartedIn(facts)  == {c \in Calls : Fact("tool_started", c) \in facts}
FinishedIn(facts) == {c \in Calls : \E t \in Results : Fact(t, c) \in facts}

TypeOK ==
  /\ run \in [state : RunState, reason : StopReason \cup {"none"}, steps : 0 .. MaxSteps]
  /\ log \subseteq Facts
  /\ tail \subseteq log
  /\ ckpt \in Contexts \cup {NoCheckpoint}
  /\ pc \in Places
  /\ ctx \in Contexts
  /\ goal \in Goals
  /\ effects \in [Calls -> Nat]
  /\ streak \in Runs
  /\ abandoned \subseteq Calls
  /\ requests \in Nat
  /\ late \in BOOLEAN
  /\ crashes \in 0 .. MaxCrashes

(* run() after create_run: the record and RUN_CREATED are durable.         *)
Init ==
  /\ run = [state |-> "created", reason |-> "none", steps |-> 0]
  /\ log = {} /\ tail = {} /\ ckpt = NoCheckpoint
  /\ pc = "starting" /\ ctx = FreshContext /\ goal = NoGoal
  /\ effects = [c \in Calls |-> 0]
  /\ streak = [last |-> NoAction, n |-> 0]
  /\ abandoned = {} /\ requests = 0 /\ late = FALSE /\ crashes = 0

-----------------------------------------------------------------------------
(* The event store                                                         *)

(* validate_event_append, for the rules that depend on the log.            *)
Accepts(f) ==
  /\ Fact("terminal", NoCall) \notin log
  /\ f.type \in Results => /\ f.call \in StartedIn(log)
                           /\ f.call \notin FinishedIn(log)
  /\ (f.type = "terminal" /\ goal.state = "completed")
        => Fact("model_responded", NoCall) \in log

(* Append f and go on at k; when the store refuses, the StorageError       *)
(* leaves run() or resume() and the run stays as it is.                    *)
Append(f, k) ==
  IF Accepts(f)
    THEN log' = log \cup {f} /\ tail' = tail \cup {f} /\ pc' = k
    ELSE pc' = "refused" /\ UNCHANGED <<log, tail>>

(* transition: STATE_CHANGED and the record in one transaction.            *)
Transition(s, k) ==
  /\ s \in AllowedTransitions[run.state]
  /\ run' = [run EXCEPT !.state = s]
  /\ pc' = k
  /\ UNCHANGED <<log, tail, ckpt>>

(* checkpoint: the context c is saved together with CHECKPOINT_CREATED,    *)
(* whose sequence is last_event_sequence, so no event trails it.           *)
SaveCheckpoint(c) ==
  /\ ckpt' = c
  /\ tail' = {}
  /\ UNCHANGED <<run, log>>

(* terminate begins: the outcome is chosen, nothing is durable yet.        *)
Terminate(s, r) ==
  /\ pc' = "ending"
  /\ goal' = [state |-> s, reason |-> r]

(* Mutant: trigger_policy does not terminate the run.                      *)
TriggerOnly(r) ==
  /\ Append(Fact("policy_triggered", NoCall), "drive")
  /\ UNCHANGED <<run, ckpt, ctx, goal>>

(* trigger_policy: POLICY_TRIGGERED, then terminate.                       *)
Trigger(r) ==
  /\ Append(Fact("policy_triggered", NoCall), "ending")
  /\ goal' = [state |-> "stopped", reason |-> r]
  /\ UNCHANGED <<run, ckpt, ctx>>

At(s) == pc = "drive" /\ run.state = s

-----------------------------------------------------------------------------
(* run(): the first transition and checkpoint                              *)

Begin ==
  /\ pc = "starting"
  /\ Transition("model_pending", "first_ckpt")
  /\ UNCHANGED <<ctx, goal, world>>

FirstCheckpoint ==
  /\ pc = "first_ckpt"
  /\ SaveCheckpoint(ctx)
  /\ pc' = "drive"
  /\ UNCHANGED <<ctx, goal, world>>

-----------------------------------------------------------------------------
(* handle_model_pending                                                    *)

(* max_runtime is tested before max_steps, both before any effect.         *)
StopBeforeModel ==
  /\ At("model_pending")
  /\ \/ late /\ Trigger("max_runtime")
     \/ ~late /\ ctx.next > MaxSteps /\ Trigger("max_steps")
  /\ UNCHANGED world

RequestModel ==
  /\ At("model_pending")
  /\ ~late
  /\ ctx.next <= MaxSteps
  /\ ctx' = [ctx EXCEPT !.next = @ + 1]
  /\ run' = [run EXCEPT !.steps = ctx.next]
  /\ pc' = "model_call"
  /\ requests' = requests + 1
  /\ UNCHANGED <<log, tail, ckpt, goal, effects, streak, abandoned, late, crashes>>

ModelResponds(d, u) ==
  /\ pc = "model_call"
  /\ ctx' = [ctx EXCEPT
       !.usage   = IF u = NoUsage THEN @ ELSE @ + u,
       !.metered = @ /\ u # NoUsage,
       !.errors  = 0,
       !.pending = d,
       !.acts    = IF d \in ToolCalls THEN Extend(@, d.action) ELSE @]
  /\ Append(Fact("model_responded", NoCall), "responded")
  /\ UNCHANGED <<run, ckpt, goal, world>>

(* The response fails validation: MODEL_FAILED, then terminate.            *)
ModelInvalid ==
  /\ pc = "model_call"
  /\ Terminate("failed", "invalid_model_response")
  /\ UNCHANGED <<durable, ctx, world>>

(* What handle_provider_error does with the context c of a failed call.    *)
FailWith(c, retryable, limit) ==
  /\ pc = "model_call"
  /\ ctx' = c
  /\ IF ~retryable
       THEN Terminate("failed", "provider_error")
       ELSE pc' = (IF c.errors >= limit THEN "notify" ELSE "drive") /\ UNCHANGED goal
  /\ UNCHANGED world

(* Mutant: a retry does not use up a step.                                  *)
ModelFailsFreeRetry(retryable) ==
  LET failed == [ctx EXCEPT !.errors = @ + 1, !.next = @ - 1]
  IN  FailWith(failed, retryable, ErrorLimit) /\ SaveCheckpoint(failed)

(* handle_provider_error.  A timeout and most provider exceptions can be   *)
(* retried; an open breaker, an exhausted provider and a ProviderError     *)
(* marked so cannot.  MODEL_FAILED and the checkpoint that follows it are  *)
(* one step: losing the process between the two leaves nothing that losing *)
(* it during the call would not.                                           *)
ModelFails(retryable) ==
  LET failed == [ctx EXCEPT !.errors = @ + 1]
  IN  FailWith(failed, retryable, ErrorLimit) /\ SaveCheckpoint(failed)

(* The NOTIFICATION hook has returned.                                     *)
StopOnErrors ==
  /\ pc = "notify"
  /\ Trigger("consecutive_errors")
  /\ UNCHANGED world

RecordDecision ==
  /\ pc = "responded"
  /\ Transition("decision_received", "decided")
  /\ UNCHANGED <<ctx, goal, world>>

(* A final answer is checkpointed only under checkpoint_every_step.        *)
CheckpointDecision ==
  /\ pc = "decided"
  /\ IF CheckpointEveryStep \/ ctx.pending \in ToolCalls
       THEN SaveCheckpoint(ctx)
       ELSE UNCHANGED durable
  /\ pc' = "budget"
  /\ UNCHANGED <<ctx, goal, world>>

(* token_budget_reason: strictly above the budget, and only while every    *)
(* response so far has reported its usage.                                 *)
OverBudget(c) == c.metered /\ c.usage > TokenBudget

CheckBudget ==
  /\ pc = "budget"
  /\ IF OverBudget(ctx)
       THEN Trigger("token_budget_exceeded")
       ELSE pc' = "drive" /\ UNCHANGED <<durable, ctx, goal>>
  /\ UNCHANGED world

-----------------------------------------------------------------------------
(* handle_decision_received, handle_tool_pending, handle_approval_pending  *)

(* States whose handler calls _require_pending_response, all but the first *)
(* followed by _require_tool_call; their RuntimeError ends the run as an   *)
(* internal error.                                                         *)
ToolStates == {"tool_pending", "approval_pending", "tool_executing"}

DecisionMissing ==
  /\ pc = "drive" /\ run.state \in ToolStates \cup {"decision_received"}
  /\ \/ ctx.pending = NoDecision
     \/ run.state \in ToolStates /\ ctx.pending = FinalAnswer
  /\ run.state = "tool_executing" => ~late
  /\ Terminate("failed", "internal_error")
  /\ UNCHANGED <<durable, ctx, world>>

Complete ==
  /\ At("decision_received")
  /\ ctx.pending = FinalAnswer
  /\ Terminate("completed", "completed")
  /\ UNCHANGED <<durable, ctx, world>>

(* repeated_action(limit): the latest action ends limit identical ones.    *)
ContainRepetition ==
  /\ At("decision_received")
  /\ ctx.pending \in ToolCalls
  /\ ctx.acts.n >= RepeatLimit
  /\ Trigger("repeated_action")
  /\ UNCHANGED world

AcceptToolCall ==
  /\ At("decision_received")
  /\ ctx.pending \in ToolCalls
  /\ ctx.acts.n < RepeatLimit
  /\ Transition("tool_pending", "drive")
  /\ UNCHANGED <<ctx, goal, world>>

AskApproval ==
  /\ At("tool_pending")
  /\ ctx.pending \in ToolCalls
  /\ Transition("approval_pending", "drive")
  /\ UNCHANGED <<ctx, goal, world>>

(* Mutants: the approval is not logged; a denial goes on like an approval. *)
ApproveUnlogged ==
  /\ At("approval_pending")
  /\ ctx.pending \in ToolCalls
  /\ pc' = "granted"
  /\ UNCHANGED <<durable, ctx, goal, world>>

DenyAndGrant ==
  /\ At("approval_pending")
  /\ ctx.pending \in ToolCalls
  /\ Append(Fact("tool_denied", ctx.pending.call), "granted")
  /\ UNCHANGED <<run, ckpt, ctx, goal, world>>

(* The PRE_TOOL_USE hook allows the call and the callback answers yes.     *)
Approve ==
  /\ At("approval_pending")
  /\ ctx.pending \in ToolCalls
  /\ Append(Fact("tool_approved", ctx.pending.call), "granted")
  /\ UNCHANGED <<run, ckpt, ctx, goal, world>>

(* The hook blocks the call or the callback answers no.                    *)
Deny ==
  /\ At("approval_pending")
  /\ ctx.pending \in ToolCalls
  /\ Append(Fact("tool_denied", ctx.pending.call), "denied")
  /\ UNCHANGED <<run, ckpt, ctx, goal, world>>

(* The approval callback raises.                                           *)
ApprovalFails ==
  /\ At("approval_pending")
  /\ ctx.pending \in ToolCalls
  /\ Terminate("failed", "internal_error")
  /\ UNCHANGED <<durable, ctx, world>>

StopOnDenial ==
  /\ pc = "denied"
  /\ Trigger("policy_denied")
  /\ UNCHANGED world

GrantExecution ==
  /\ pc = "granted"
  /\ Transition("tool_executing", "drive")
  /\ UNCHANGED <<ctx, goal, world>>

-----------------------------------------------------------------------------
(* handle_tool_executing, handle_observation_recorded                      *)

StopBeforeTool ==
  /\ At("tool_executing")
  /\ late
  /\ Trigger("max_runtime")
  /\ UNCHANGED world

(* ToolAlreadyCompletedError: the model reused the id of a settled call.   *)
RefuseCompleted ==
  /\ At("tool_executing")
  /\ ~late
  /\ ctx.pending \in ToolCalls /\ ctx.pending.call \in ctx.done
  /\ Terminate("failed", "internal_error")
  /\ UNCHANGED <<durable, ctx, world>>

(* Mutants: the completed ids, or the elapsed time, are not tested.        *)
StartCompletedTool ==
  /\ At("tool_executing") /\ ~late /\ ctx.pending \in ToolCalls
  /\ Append(Fact("tool_started", ctx.pending.call), "invoke")
  /\ streak' = Begun(streak, ctx.pending.action)
  /\ UNCHANGED <<run, ckpt, ctx, goal, effects, abandoned, requests, late, crashes>>

StartToolLate ==
  /\ At("tool_executing")
  /\ ctx.pending \in ToolCalls /\ ctx.pending.call \notin ctx.done
  /\ Append(Fact("tool_started", ctx.pending.call), "invoke")
  /\ streak' = Begun(streak, ctx.pending.action)
  /\ UNCHANGED <<run, ckpt, ctx, goal, effects, abandoned, requests, late, crashes>>

StartTool ==
  /\ At("tool_executing")
  /\ ~late
  /\ ctx.pending \in ToolCalls /\ ctx.pending.call \notin ctx.done
  /\ Append(Fact("tool_started", ctx.pending.call), "invoke")
  /\ streak' = Begun(streak, ctx.pending.action)
  /\ UNCHANGED <<run, ckpt, ctx, goal, effects, abandoned, requests, late, crashes>>

(* The tool takes effect outside the program.                              *)
ToolTakesEffect ==
  LET c == ctx.pending.call
  IN
  /\ pc = "invoke"
  /\ effects' = [effects EXCEPT ![c] = @ + 1]
  /\ streak' = [streak EXCEPT !.n = IF effects[c] = 0 THEN @ + 1 ELSE @]
  /\ pc' = "invoked"
  /\ UNCHANGED <<durable, ctx, goal, abandoned, requests, late, crashes>>

(* invoke returns, or is cut off by tool_timeout_seconds: its result is    *)
(* logged.  A call can fail before it takes effect, or time out after.     *)
ToolSettles(ok) ==
  /\ pc \in {"invoke", "invoked"}
  /\ ok => pc = "invoked"
  /\ Append(Fact(IF ok THEN "tool_completed" ELSE "tool_failed", ctx.pending.call),
            "settled")
  /\ UNCHANGED <<run, ckpt, ctx, goal, world>>

(* An exception invoke does not turn into a result.                        *)
ToolRaises ==
  /\ pc \in {"invoke", "invoked"}
  /\ Terminate("failed", "internal_error")
  /\ abandoned' = abandoned \cup {ctx.pending.call}
  /\ UNCHANGED <<durable, ctx, effects, streak, requests, late, crashes>>

(* Mutant: the result is not added to the completed ids.                   *)
WithResultsForgotten(c, calls, ok) ==
  [c EXCEPT !.pending = NoDecision, !.errors = IF ok THEN 0 ELSE @ + 1]

(* record_tool_result and the error count after it.                        *)
WithResults(c, calls, ok) ==
  [c EXCEPT !.done = @ \cup calls,
            !.pending = NoDecision,
            !.errors = IF ok THEN 0 ELSE @ + 1]

RecordObservation ==
  LET call == ctx.pending.call
  IN
  /\ pc = "settled"
  /\ ctx' = WithResults(ctx, {call}, Fact("tool_completed", call) \in log)
  /\ Transition("observation_recorded", "observed")
  /\ UNCHANGED <<goal, world>>

(* The POST_TOOL_USE hook has returned.                                    *)
CheckpointObservation ==
  /\ pc = "observed"
  /\ SaveCheckpoint(ctx)
  /\ pc' = "review"
  /\ UNCHANGED <<ctx, goal, world>>

(* The checks after a tool, in their order.  no_progress compares the      *)
(* fingerprints of observations, responses and markers, which are not      *)
(* modelled: it may hold or not.                                           *)
ReviewProgress(stuck) ==
  /\ pc = "review"
  /\ IF late THEN Trigger("max_runtime")
     ELSE IF ctx.errors >= ErrorLimit THEN Trigger("consecutive_errors")
     ELSE IF stuck THEN Trigger("no_progress")
     ELSE pc' = "drive" /\ UNCHANGED <<durable, ctx, goal>>
  /\ UNCHANGED world

NextStep ==
  /\ At("observation_recorded")
  /\ Transition("model_pending", "drive")
  /\ UNCHANGED <<ctx, goal, world>>

-----------------------------------------------------------------------------
(* terminate                                                               *)

(* Mutant: the run is left at its pre-terminal checkpoint.                 *)
CheckpointAndLeave ==
  pc = "ending" /\ SaveCheckpoint(ctx) /\ pc' = "ended" /\ UNCHANGED <<ctx, goal, world>>

(* "Preserve a resumable pre-terminal boundary": a checkpoint comes first. *)
CheckpointEnding ==
  /\ pc = "ending"
  /\ SaveCheckpoint(ctx)
  /\ pc' = "closing"
  /\ UNCHANGED <<ctx, goal, world>>

(* Mutants: the record is not part of the transaction; the driver does not *)
(* notice that the run has ended and terminates it again.                  *)
FinalizeLogOnly ==
  /\ pc = "closing"
  /\ Append(Fact("terminal", NoCall), "ended")
  /\ goal' = NoGoal /\ ctx' = FreshContext
  /\ UNCHANGED <<run, ckpt, world>>

FinalizeTwice ==
  /\ pc = "closing"
  /\ Append(Fact("terminal", NoCall), "ending")
  /\ run' = [run EXCEPT !.state = goal.state, !.reason = goal.reason]
  /\ UNCHANGED <<goal, ctx, ckpt, world>>

(* finalize_run: transition, terminal event and record in one transaction. *)
Finalize ==
  /\ pc = "closing"
  /\ Append(Fact("terminal", NoCall), "ended")
  /\ run' = IF Accepts(Fact("terminal", NoCall))
              THEN [run EXCEPT !.state = goal.state, !.reason = goal.reason]
              ELSE run
  /\ goal' = NoGoal
  /\ ctx' = FreshContext
  /\ UNCHANGED <<ckpt, world>>

(* asyncio cancellation, delivered where the coroutine is suspended: run() *)
(* and resume() terminate the run as cancelled and re-raise.               *)
Cancel ==
  /\ pc \in Waits \/ At("approval_pending")
  /\ Terminate("cancelled", "user_cancelled")
  /\ abandoned' = IF pc \in {"invoke", "invoked"}
                    THEN abandoned \cup {ctx.pending.call} ELSE abandoned
  /\ UNCHANGED <<durable, ctx, effects, streak, requests, late, crashes>>

-----------------------------------------------------------------------------
(* Process loss and resume                                                 *)

(* The process dies, or a write fails with a StorageError, which run() and *)
(* resume() pass on without touching the run.                              *)
Crash ==
  /\ Live
  /\ crashes < MaxCrashes
  /\ crashes' = crashes + 1
  /\ pc' = "down" /\ ctx' = FreshContext /\ goal' = NoGoal
  /\ UNCHANGED <<durable, effects, streak, abandoned, requests, late>>

(* reconcile_after_checkpoint over the trailing events: results the        *)
(* checkpoint does not know, and calls started without a result.           *)
Settled == IF ckpt = NoCheckpoint THEN {} ELSE ckpt.done

Replayable == FinishedIn(tail) \ Settled

(* Mutant: resume does not look for uncertain calls.                       *)
UncertainIgnored == {}

Uncertain == (StartedIn(tail) \ FinishedIn(tail)) \ Settled

(* Mutant: trailing results are not replayed.                              *)
ReplayedNothing == ckpt

(* The context resume() starts from.  All trailing results are recorded;   *)
(* that there is at most one, so that it alone decides the error count, is *)
(* OneTrailingResult.                                                      *)
Replayed ==
  IF Replayable = {} THEN ckpt
  ELSE WithResults(ckpt, Replayable,
                   \E c \in Replayable : Fact("tool_completed", c) \in tail)

CanResume ==
  /\ pc \in {"down", "refused"}
  /\ run.state \notin TerminalStates
  /\ ckpt # NoCheckpoint
  /\ Uncertain = {}

(* The result of the executing tool is durable but its transition is not.  *)
ResultTrails == run.state = "tool_executing" /\ FinishedIn(tail) # {}

Resume ==
  /\ CanResume
  /\ ~ResultTrails
  /\ ctx' = Replayed
  /\ pc' = "drive"
  /\ UNCHANGED <<durable, goal, world>>

ResumeReplaying ==
  /\ CanResume
  /\ ResultTrails
  /\ ctx' = Replayed
  /\ Transition("observation_recorded", "replayed")
  /\ UNCHANGED <<goal, world>>

CheckpointReplay ==
  /\ pc = "replayed"
  /\ SaveCheckpoint(ctx)
  /\ pc' = "drive"
  /\ UNCHANGED <<ctx, goal, world>>

(* Nothing is left to do: the run is terminal, or resume() refuses it with *)
(* CheckpointNotFoundError or UnsafeResumeError.                           *)
Unresumable ==
  /\ pc \in {"down", "refused"}
  /\ ckpt = NoCheckpoint \/ Uncertain # {}

Halted == pc = "ended" \/ Unresumable

Rest == Halted /\ UNCHANGED vars

(* max_runtime_seconds elapse.                                             *)
Deadline ==
  /\ ~late
  /\ ~Halted
  /\ late' = TRUE
  /\ UNCHANGED <<durable, volatile, effects, streak, abandoned, requests, crashes>>

-----------------------------------------------------------------------------

(* What the coroutine does of itself once its awaits return.               *)
Drive ==
  \/ Begin \/ FirstCheckpoint
  \/ StopBeforeModel \/ RequestModel
  \/ \E d \in ToolCalls \cup {FinalAnswer}, u \in Tokens \cup {NoUsage} :
       ModelResponds(d, u)
  \/ ModelInvalid
  \/ \E retryable \in BOOLEAN : ModelFails(retryable)
  \/ StopOnErrors
  \/ RecordDecision \/ CheckpointDecision \/ CheckBudget
  \/ DecisionMissing \/ Complete \/ ContainRepetition \/ AcceptToolCall
  \/ AskApproval \/ Approve \/ Deny \/ ApprovalFails \/ StopOnDenial
  \/ GrantExecution
  \/ StopBeforeTool \/ RefuseCompleted \/ StartTool \/ ToolTakesEffect
  \/ \E ok \in BOOLEAN : ToolSettles(ok)
  \/ ToolRaises \/ RecordObservation \/ CheckpointObservation
  \/ \E stuck \in BOOLEAN : ReviewProgress(stuck)
  \/ NextStep
  \/ CheckpointEnding \/ Finalize

Recover == Resume \/ ResumeReplaying \/ CheckpointReplay

Next == Drive \/ Recover \/ Cancel \/ Crash \/ Deadline \/ Rest

Spec == Init /\ [][Next]_vars

(* Every await of the coroutine returns (provider and tool timeouts, an    *)
(* approver that answers), and an operator resumes an interrupted run.     *)
FairSpec == Spec /\ WF_vars(Drive) /\ WF_vars(Recover)

-----------------------------------------------------------------------------
(* Safety                                                                  *)

(* A tool takes effect only after its approval and its start are durable.  *)
(* (handle_approval_pending, handle_tool_executing, across resume)         *)
EffectsApproved ==
  \A c \in Calls : effects[c] > 0 =>
    {Fact("tool_approved", c), Fact("tool_started", c)} \subseteq log

(* A tool call takes effect at most once, over any number of process       *)
(* losses, as long as its execution was not ended by an exception.         *)
(* (completed_tool_call_ids and the uncertain ids of                       *)
(* reconcile_after_checkpoint)                                             *)
AtMostOnceUnlessAbandoned ==
  \A c \in Calls : effects[c] <= 1 \/ c \in abandoned

(* The same without the exception: resume "refuses" when a started call    *)
(* has no durable result, so no call is ever repeated.                     *)
AtMostOnce == \A c \in Calls : effects[c] <= 1

(* A coroutine that holds the run knows every durable tool result: none is *)
(* forgotten by a checkpoint or by a resume from an older one.             *)
(* (reconcile_after_checkpoint)                                            *)
ResultsRemembered ==
  Live => FinishedIn(log) \subseteq
            ctx.done \cup (IF pc = "settled" THEN {ctx.pending.call} ELSE {})

(* The log stays usable: at most one result trails the latest checkpoint,  *)
(* so the order in which reconcile_after_checkpoint replays results cannot *)
(* matter, and the log's own rules never turn down a write of the runtime. *)
(* (reconcile_after_checkpoint, validate_event_append)                     *)
OneTrailingResult ==
  ckpt # NoCheckpoint =>
    \A c, d \in FinishedIn(tail) : c = d

LogStaysUsable == OneTrailingResult /\ pc # "refused"

(* The limits hold across process losses, to the extent they can:          *)
(* max_steps bounds the recorded steps, and a loss costs at most one model *)
(* call that no step accounts for; the error count passes its limit by at  *)
(* most one per loss, which drops the stop that was due; and no action     *)
(* takes effect repeated_action_limit times without an execution of        *)
(* another in between, whichever checkpoint the detector was restored      *)
(* from.  (next_step, handle_provider_error, handle_tool_executing,        *)
(* ProgressDetector)                                                       *)
StepBudget ==
  /\ run.steps <= MaxSteps
  /\ requests <= run.steps + crashes

ErrorBudget == ctx.errors <= ErrorLimit + crashes

RepetitionContained == streak.n < RepeatLimit

LimitsHold == StepBudget /\ ErrorBudget /\ RepetitionContained

(* Record and log agree on the end of a run: the terminal event is logged  *)
(* exactly with the terminal state, the reason fits the state, and a       *)
(* completed run had a model response.  (finalize_run)                     *)
OutcomeAgrees ==
  /\ run.state \in TerminalStates <=> Fact("terminal", NoCall) \in log
  /\ run.state \in TerminalStates => run.reason \in ReasonsFor[run.state]
  /\ run.state = "completed" => Fact("model_responded", NoCall) \in log

(* A call the approver or a hook has denied is not executed any more,      *)
(* unless the process is lost before the run is stopped: then resume asks  *)
(* again.  (handle_approval_pending, trigger_policy)                       *)
DenialHolds ==
  [][\A c \in Calls : Fact("tool_denied", c) \in log /\ effects'[c] # effects[c]
       => crashes > 0]_vars

(* A terminal run changes no more, in the store or outside.                *)
TerminalIsFinal ==
  [][run.state \in TerminalStates => UNCHANGED <<durable, effects>>]_vars

(* No model call and no tool starts once max_runtime has elapsed.          *)
(* (the operation boundaries of handle_model_pending, handle_tool_executing)*)
DeadlineHolds ==
  [][late => (pc' \in {"model_call", "invoke"} => pc' = pc)]_vars

(* Under the fairness of FairSpec a run ends, or waits for an operator who *)
(* must look at an uncertain tool call.                                    *)
EventuallyHalts == <>Halted

(* A cancellation that reached the run is recorded as its outcome, unless  *)
(* the process is lost first.                                              *)
CancellationRecorded ==
  (goal.state = "cancelled") ~> (run.state = "cancelled" \/ pc = "down")

-----------------------------------------------------------------------------
(* Refinement                                                              *)

(* How far a call has come, read off the durable log alone.                *)
PhaseOf(c) ==
  IF c \in FinishedIn(log) THEN "settled"
  ELSE IF c \in StartedIn(log) THEN "started"
  ELSE IF Fact("tool_approved", c) \in log THEN "approved"
  ELSE "new"

Contract == INSTANCE ToolContract
  WITH phase <- [c \in Calls |-> PhaseOf(c)], executions <- effects,
       Outcomes <- StopReason, Open <- "none", outcome <- run.reason

(* The runtime, its store, its checkpoints and its resume together keep    *)
(* the promise of ToolContract.                                            *)
KeepsContract == Contract!Spec
=============================================================================
