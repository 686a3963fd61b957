-------------------------- MODULE MCTokenProvider --------------------------
(* Model-checking instance of TokenProvider: three concurrent handlers and *)
(* three token generations, i.e. two refreshes, so that callers can queue  *)
(* on one refresh, see it fail, and call again across a later refresh.     *)
EXTENDS TokenProvider, TLC

CONSTANTS c1, c2, c3

MCCallers == {c1, c2, c3}
MCMaxGen == 3
MCMaxLogins == 3

MCSymmetry == Permutations(MCCallers)
=============================================================================
