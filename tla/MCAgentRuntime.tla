-------------------------- MODULE MCAgentRuntime ---------------------------
(***************************************************************************)
(* AgentRuntime for TLC.  The ids and fingerprints are interchangeable.    *)
(***************************************************************************)
EXTENDS AgentRuntimeInv, TLC

Symmetry == Permutations(Calls) \cup Permutations(Actions)
=============================================================================
