---------------------------- MODULE ToolContract ----------------------------
(***************************************************************************)
(* What a run promises about the tools it calls, with no word about        *)
(* states, checkpoints or processes:                                       *)
(*                                                                         *)
(*   - a call is approved, then started, then executed, then settled, and  *)
(*     each of these is remembered for good;                               *)
(*   - it is executed once; a second execution needs a first one that was  *)
(*     abandoned, that is, ended without a result;                         *)
(*   - a settled call is never executed again;                             *)
(*   - once the run is closed nothing happens any more, and how it was     *)
(*     closed stays.                                                       *)
(*                                                                         *)
(* AgentRuntime implements this specification.                             *)
(***************************************************************************)
EXTENDS Naturals

CONSTANTS Calls,     \* tool_call_id values
          Outcomes,  \* the ways a run is closed
          Open       \* the run is not closed yet, not one of Outcomes

VARIABLES phase,      \* how far each call has come
          executions, \* how often it was executed
          abandoned,  \* calls with an execution that ended without a result
          outcome

vars == <<phase, executions, abandoned, outcome>>

Phases == {"new", "approved", "started", "settled"}

TypeOK ==
  /\ phase \in [Calls -> Phases]
  /\ executions \in [Calls -> Nat]
  /\ abandoned \subseteq Calls
  /\ outcome \in Outcomes \cup {Open}

Init ==
  /\ phase = [c \in Calls |-> "new"]
  /\ executions = [c \in Calls |-> 0]
  /\ abandoned = {}
  /\ outcome = Open

(* Call c comes from phase p to phase q.                                   *)
Advance(c, p, q) ==
  /\ outcome = Open
  /\ phase[c] = p
  /\ phase' = [phase EXCEPT ![c] = q]
  /\ UNCHANGED <<executions, abandoned, outcome>>

Approve(c) == Advance(c, "new", "approved")

Start(c) == Advance(c, "approved", "started")

Settle(c) == Advance(c, "started", "settled")

Execute(c) ==
  /\ outcome = Open
  /\ phase[c] = "started"
  /\ executions[c] = 0 \/ c \in abandoned
  /\ executions' = [executions EXCEPT ![c] = @ + 1]
  /\ UNCHANGED <<phase, abandoned, outcome>>

Abandon(c) ==
  /\ outcome = Open
  /\ phase[c] = "started"
  /\ abandoned' = abandoned \cup {c}
  /\ UNCHANGED <<phase, executions, outcome>>

Close(o) ==
  /\ outcome = Open
  /\ outcome' = o
  /\ UNCHANGED <<phase, executions, abandoned>>

Next ==
  \/ \E c \in Calls :
       Approve(c) \/ Start(c) \/ Execute(c) \/ Abandon(c) \/ Settle(c)
  \/ \E o \in Outcomes : Close(o)

Spec == Init /\ [][Next]_vars
=============================================================================
