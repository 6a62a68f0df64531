-------------------------- MODULE AgentRuntimeInv ---------------------------
(***************************************************************************)
(* The inductive invariant behind the safety of AgentRuntime: what the     *)
(* driving coroutine, the latest checkpoint and the log know of each       *)
(* other.  Each part is true of every reachable state, their conjunction   *)
(* is kept by every step.                                                  *)
(***************************************************************************)
EXTENDS AgentRuntime

(* The call the coroutine is executing, or whose result it has just        *)
(* logged.                                                                 *)
Current == IF pc \in {"invoke", "invoked", "settled"} THEN {ctx.pending.call} ELSE {}

HasCheckpoint == ckpt # NoCheckpoint

(* Where the coroutine stands between a decision and its consequences, it  *)
(* holds the decision; where it ends a run, it holds the outcome.          *)
Equipped ==
  /\ pc \in {"granted", "denied", "invoke", "invoked", "settled"}
       => ctx.pending \in ToolCalls
  /\ pc \in {"ending", "closing"}
       => goal # NoGoal /\ goal.reason \in ReasonsFor[goal.state]

(* The durable state a coroutine finds itself in between two writes.       *)
StandsAt ==
  /\ pc \in {"first_ckpt", "model_call", "notify", "responded"}
       => run.state = "model_pending"
  /\ pc \in {"decided", "budget"} => run.state = "decision_received"
  /\ pc \in {"granted", "denied"} => run.state = "approval_pending"
  /\ pc \in {"invoke", "invoked", "settled"} => run.state = "tool_executing"
  /\ pc \in {"observed", "review", "replayed"} => run.state = "observation_recorded"

(* A run has a reason exactly when it has ended, its log is closed then,   *)
(* and no coroutine holds it.                                              *)
EndsOnce ==
  /\ run.state \in TerminalStates <=> run.reason # "none"
  /\ run.state \in TerminalStates <=> Fact("terminal", NoCall) \in log
  /\ run.state \in TerminalStates => pc = "ended"

(* A call is approved before it starts, started before it takes effect or  *)
(* has a result.                                                           *)
InOrder ==
  /\ \A c \in Calls : effects[c] > 0 => c \in StartedIn(log)
  /\ FinishedIn(log) \subseteq StartedIn(log)
  /\ \A c \in StartedIn(log) : Fact("tool_approved", c) \in log

(* The tool call a coroutine acts on is the one in the checkpoint, and     *)
(* whoever executes or resumes into executing it finds it approved.        *)
DecisionSaved ==
  /\ (Live /\ pc # "decided" /\ ctx.pending \in ToolCalls
        /\ run.state \in ToolStates \cup {"decision_received"})
       => HasCheckpoint /\ ckpt.pending = ctx.pending
  /\ (run.state = "tool_executing" /\ HasCheckpoint /\ ckpt.pending \in ToolCalls)
       => Fact("tool_approved", ckpt.pending.call) \in log
  /\ pc = "granted" => Fact("tool_approved", ctx.pending.call) \in log

(* Every started call is one the coroutine knows to be settled, is busy    *)
(* with, or had to abandon; every result is one it knows of.               *)
CoroutineKnows ==
  Live => /\ StartedIn(log) \subseteq ctx.done \cup Current \cup abandoned
          /\ FinishedIn(log) \subseteq ctx.done \cup Current

(* The same of the latest checkpoint and the events that trail it.         *)
CheckpointKnows ==
  HasCheckpoint =>
    /\ StartedIn(log) \subseteq ckpt.done \cup StartedIn(tail) \cup abandoned
    /\ FinishedIn(log) \subseteq ckpt.done \cup FinishedIn(tail)

(* The call being executed is started, has no result, and has taken no     *)
(* effect before unless it was abandoned then.                             *)
ExecutingOnce ==
  pc \in {"invoke", "invoked"} =>
    /\ ctx.pending.call \in StartedIn(log)
    /\ ctx.pending.call \notin FinishedIn(log)
    /\ pc = "invoke" => \/ effects[ctx.pending.call] = 0
                        \/ ctx.pending.call \in abandoned

(* What makes the promises of ToolContract inductive.                      *)
ContractInv ==
  /\ Equipped
  /\ StandsAt
  /\ EndsOnce
  /\ InOrder
  /\ DecisionSaved
  /\ CoroutineKnows
  /\ CheckpointKnows
  /\ ExecutingOnce
  /\ AtMostOnceUnlessAbandoned

-----------------------------------------------------------------------------
(* Why the store accepts every write, and one result at most trails the    *)
(* latest checkpoint                                                       *)

Responded == Fact("model_responded", NoCall) \in log

(* A decision, and the outcome it leads to, come from a logged response.   *)
Answered ==
  /\ ctx.pending # NoDecision => Responded
  /\ HasCheckpoint /\ ckpt.pending # NoDecision => Responded
  /\ goal.state = "completed" => Responded

(* What a context counts as settled is logged, and no result that trails   *)
(* the checkpoint is counted by it.                                        *)
DoneIsLogged ==
  /\ ctx.done \subseteq FinishedIn(log)
  /\ HasCheckpoint => /\ ckpt.done \subseteq FinishedIn(log)
                      /\ ckpt.done \cap FinishedIn(tail) = {}

(* The coroutine is on its way from a saved tool decision to its result.   *)
Acting ==
  /\ Live /\ pc \notin {"decided", "settled"}
  /\ ctx.pending \in ToolCalls
  /\ run.state \in ToolStates \cup {"decision_received"}

(* Nothing is settled since that decision was saved.                       *)
Trailing ==
  /\ Acting => FinishedIn(tail) = {}
  /\ pc = "settled" => ctx.pending.call \in FinishedIn(tail)

(* States in which no decision is pending.                                 *)
FreeStates == {"created", "model_pending", "observation_recorded"}

(* A decision found in the checkpoint in such a state is one whose result  *)
(* trails the checkpoint: resume will clear it.                            *)
Undecided ==
  /\ pc = "starting" => run.state = "created"
  /\ Live /\ pc # "responded" /\ run.state \in FreeStates
       => ctx.pending = NoDecision
  /\ HasCheckpoint /\ run.state \in FreeStates /\ ckpt.pending # NoDecision
       => FinishedIn(tail) # {}

UsableInv ==
  /\ Answered
  /\ DoneIsLogged
  /\ Trailing
  /\ Undecided
  /\ LogStaysUsable

-----------------------------------------------------------------------------
(* Why the limits hold across process losses                               *)

(* The coroutine may hold a step that the checkpoint does not count.       *)
Unsaved ==
  \/ pc \in {"model_call", "responded", "decided", "ending"}
  \/ /\ pc \in {"budget", "drive"}
     /\ run.state = "decision_received" /\ ctx.pending \notin ToolCalls

(* Every request is a step the coroutine, or else the checkpoint, counts,  *)
(* but for one per loss.                                                   *)
StepsAccounted ==
  /\ Live => requests + 1 <= ctx.next + crashes
  /\ Live /\ HasCheckpoint => ctx.next <= ckpt.next + (IF Unsaved THEN 1 ELSE 0)
  /\ pc = "down" /\ HasCheckpoint => requests + 1 <= ckpt.next + crashes

(* Where an error count at its limit has not yet stopped the run.          *)
Reviewing == {"notify", "observed", "review", "ending", "closing"}

(* A decision resets the count.  Only a loss lets the run go on with a     *)
(* count at its limit.                                                     *)
ErrorsAccounted ==
  /\ ctx.pending # NoDecision => ctx.errors = 0
  /\ HasCheckpoint /\ (ckpt.pending # NoDecision \/ FinishedIn(tail) # {})
       => ckpt.errors = 0
  /\ ctx.errors <= ErrorLimit + crashes
  /\ Live /\ pc \notin Reviewing => ctx.errors < ErrorLimit + crashes
  /\ HasCheckpoint => ckpt.errors <= ErrorLimit + crashes
  /\ pc = "down" => /\ crashes > 0
                    /\ HasCheckpoint => ckpt.errors < ErrorLimit + crashes

(* The detector history r covers the streak.                               *)
Covers(r) == streak.last = r.last /\ streak.n <= r.n

(* The history of context x keeps pace with what took effect, whether x    *)
(* waits for a decision or holds one: that one is counted already.         *)
Paced(x) ==
  IF x.pending \in ToolCalls
    THEN /\ x.acts.last = x.pending.action /\ x.acts.n > 0
         /\ streak.last = x.acts.last =>
              /\ streak.n <= x.acts.n
              /\ effects[x.pending.call] = 0 => streak.n < x.acts.n
    ELSE streak.n = 0 \/ Covers(x.acts)

Pace ==
  /\ Live => Paced(ctx)
  /\ HasCheckpoint => Paced(ckpt)
  /\ pc \in {"invoke", "invoked", "settled"} => streak.last = ctx.pending.action
  /\ HasCheckpoint /\ FinishedIn(tail) # {} => Covers(ckpt.acts)

(* Past handle_decision_received the history is below the limit, also the  *)
(* one a resume would start from.                                          *)
BelowLimit ==
  /\ Acting => ckpt.acts = ctx.acts
  /\ Live /\ run.state \in ToolStates /\ ctx.pending \in ToolCalls
       => ctx.acts.n < RepeatLimit
  /\ HasCheckpoint /\ run.state \in ToolStates /\ ckpt.pending \in ToolCalls
       => ckpt.acts.n < RepeatLimit

LimitInv ==
  /\ StepsAccounted
  /\ ErrorsAccounted
  /\ Pace
  /\ BelowLimit
  /\ LimitsHold

-----------------------------------------------------------------------------
(* Why a denial holds: as long as the process is not lost, the run is on   *)
(* its way to its end.                                                     *)
DenialStops ==
  crashes = 0 /\ (\E c \in Calls : Fact("tool_denied", c) \in log)
    => pc \in {"denied", "ending", "closing", "ended"}

-----------------------------------------------------------------------------
(* The inductive invariant of the runtime.                                 *)
RuntimeInv == ContractInv /\ UsableInv /\ LimitInv /\ DenialStops

-----------------------------------------------------------------------------
(* Why a coroutine comes to its end                                        *)

(* How far it is, within a step, from the next request or from the end.    *)
FromState ==
  [s \in RunState |->
     CASE s = "decision_received" -> 15 [] s = "tool_pending" -> 14
       [] s = "approval_pending" -> 13  [] s = "tool_executing" -> 11
       [] s = "observation_recorded" -> 5 [] OTHER -> 4]

FromPlace ==
  [k \in Places |->
     CASE k = "model_call" -> 19 [] k = "responded" -> 18 [] k = "decided" -> 17
       [] k = "budget" -> 16 [] k = "granted" -> 12 [] k = "denied" -> 12
       [] k = "invoke" -> 10 [] k = "invoked" -> 9 [] k = "settled" -> 8
       [] k = "starting" -> 8 [] k = "first_ckpt" -> 7 [] k = "observed" -> 7
       [] k = "review" -> 6 [] k = "replayed" -> 6 [] k = "notify" -> 5
       [] k = "ending" -> 2 [] OTHER -> 1]

StepLength == 20

Remaining ==
  IF Live
    THEN StepLength * (MaxSteps + 1 - ctx.next)
           + (IF pc = "drive" THEN FromState[run.state] ELSE FromPlace[pc])
    ELSE 0

(* Whatever the model, the approver and the tools answer, and wherever it  *)
(* is cancelled, a coroutine that goes on comes nearer to its end: the     *)
(* loop of the driver cannot turn for ever.  (_drive, terminate)           *)
ComesNearer ==
  [][Live /\ <<durable, volatile>>' # <<durable, volatile>>
       => /\ Remaining \in 1 .. StepLength * (MaxSteps + 1)
          /\ Remaining' < Remaining]_vars
=============================================================================
