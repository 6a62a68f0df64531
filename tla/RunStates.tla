----------------------------- MODULE RunStates -----------------------------
(***************************************************************************)
(* The vocabulary of a run: its states, the stop reasons, the transition   *)
(* table and the pairing of terminal states with reasons (avo/state.py).   *)
(***************************************************************************)

ActiveStates ==
  {"created", "model_pending", "decision_received", "tool_pending",
   "approval_pending", "tool_executing", "observation_recorded", "paused"}

TerminalStates == {"completed", "failed", "stopped", "cancelled"}

RunState == ActiveStates \cup TerminalStates

(* The states a run can be abandoned from at any time (paused, failed,     *)
(* stopped, cancelled) are common to every active state but "created",     *)
(* which no policy can stop, and "paused", which does not reach itself.    *)
Escapes == {"paused", "failed", "stopped", "cancelled"}

AllowedTransitions ==
  [s \in RunState |->
     CASE s = "created"              -> {"model_pending", "paused", "failed", "cancelled"}
       [] s = "model_pending"        -> {"decision_received"} \cup Escapes
       [] s = "decision_received"    -> {"tool_pending", "completed"} \cup Escapes
       [] s = "tool_pending"         -> {"approval_pending"} \cup Escapes
       [] s = "approval_pending"     -> {"tool_executing"} \cup Escapes
       [] s = "tool_executing"       -> {"observation_recorded"} \cup Escapes
       [] s = "observation_recorded" -> {"model_pending"} \cup Escapes
       [] s = "paused"               -> (ActiveStates \ {"created", "paused"})
                                          \cup (Escapes \ {"paused"})
       [] OTHER                      -> {}]

StoppedReasons ==
  {"max_steps", "max_runtime", "token_budget_exceeded", "repeated_action",
   "no_progress", "consecutive_errors", "policy_denied"}

FailedReasons ==
  {"provider_error", "tool_error", "invalid_model_response", "internal_error"}

StopReason ==
  StoppedReasons \cup FailedReasons \cup {"completed", "user_cancelled"}

(* validate_terminal_outcome: which reasons a terminal state may carry.    *)
ReasonsFor ==
  [s \in TerminalStates |->
     CASE s = "completed" -> {"completed"}
       [] s = "stopped"   -> StoppedReasons
       [] s = "failed"    -> FailedReasons
       [] s = "cancelled" -> {"user_cancelled"}]
=============================================================================
