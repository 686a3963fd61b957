------------------------- MODULE MCPrincipalPages --------------------------
(* Model-checking instance of PrincipalPages: the form's handler and the   *)
(* detail load as the two callers of getAccessToken, two ids so that a     *)
(* principal can be created after the first, and two token generations.   *)
EXTENDS PrincipalPages

CONSTANTS submit, detailLoad, i1, i2

MCCallers == {submit, detailLoad}
MCIds == {i1, i2}
MCMaxGen == 2
MCMaxLogins == 1
=============================================================================
