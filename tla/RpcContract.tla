---------------------------- MODULE RpcContract ----------------------------
(***************************************************************************)
(* What avo promises a caller of an MCP server: a call that was sent ends  *)
(* at most once, with the server's answer to this very call or with an     *)
(* error, and an answer is only returned if the server gave it.            *)
(***************************************************************************)
CONSTANT Calls

VARIABLES phase,    \* of each call
          produced  \* calls the server has answered

vars == <<phase, produced>>

Init == phase = [c \in Calls |-> "new"] /\ produced = {}

(* The request is on its way to the server.                                *)
Open(c) ==
  /\ phase[c] = "new"
  /\ phase' = [phase EXCEPT ![c] = "open"]
  /\ UNCHANGED produced

(* The server answers a request it was sent, also one already given up.    *)
Produce(c) ==
  /\ phase[c] # "new"
  /\ c \notin produced
  /\ produced' = produced \cup {c}
  /\ UNCHANGED phase

Reply(c) ==
  /\ phase[c] = "open"
  /\ c \in produced
  /\ phase' = [phase EXCEPT ![c] = "replied"]
  /\ UNCHANGED produced

(* A refusal, a timeout, a cancellation or the loss of the server.         *)
Fail(c) ==
  /\ phase[c] \in {"new", "open"}
  /\ phase' = [phase EXCEPT ![c] = "failed"]
  /\ UNCHANGED produced

Next == \E c \in Calls : Open(c) \/ Produce(c) \/ Reply(c) \/ Fail(c)

Spec == Init /\ [][Next]_vars
=============================================================================
