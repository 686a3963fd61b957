------------------------- MODULE MCPrincipalsList -------------------------
(* Model-checking instance of PrincipalsList: the load and two Delete      *)
(* handlers over two principals, so that two deletes of different rows can *)
(* be in flight together, and two token generations, so that a refresh    *)
(* can fall between them.                                                   *)
EXTENDS PrincipalsList, TLC

CONSTANTS load, d1, d2, p1, p2, r1, r2

MCCallers == {load, d1, d2}
MCPrincipals == {p1, p2}
MCMaxGen == 2
MCMaxLogins == 1

\* One realm for the page alone; two, one principal each, for a switch
\* between them.
MCRealms == {r1}
MCHome == [p \in MCPrincipals |-> r1]
MCRealmsSwitch == {r1, r2}
MCHomeSwitch == (p1 :> r1) @@ (p2 :> r2)
=============================================================================
