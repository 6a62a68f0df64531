--------------------------- MODULE MCOAuthRefresh ---------------------------
(***************************************************************************)
(* OAuthRefresh for TLC: calls, providers and processes are                *)
(* interchangeable.                                                        *)
(***************************************************************************)
EXTENDS OAuthRefresh, TLC

Symmetry ==
  Permutations(Tasks) \cup Permutations(Providers) \cup Permutations(Processes)
=============================================================================
