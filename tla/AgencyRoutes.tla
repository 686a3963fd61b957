----------------------------- MODULE AgencyRoutes -----------------------------
(***************************************************************************)
(* The routes of the admin console's agency pages,                         *)
(* js/apps/admin-ui/src/agency/routes.tsx, and how the router resolves a   *)
(* location against them.                                                  *)
(*                                                                         *)
(* A path template is kept split at "/" into segments: a static segment    *)
(* [lit |-> s] or a dynamic one [param |-> n] (":n").  A location is the   *)
(* sequence of its segments.  react-router (a dependency) ranks the        *)
(* templates that match a location by a score and takes the highest,       *)
(* earliest first on a tie: each static segment counts 10, each dynamic    *)
(* one 3, the empty segment before the leading "/" 1, and the number of    *)
(* segments is added.  useParams() returns the dynamic segments of the     *)
(* matched template with the location's values.                            *)
(***************************************************************************)
EXTENDS Naturals, Sequences, FiniteSets

Lit(s) == [lit |-> s]
Par(n) == [param |-> n]

\* The realm of the location: one realm is open at a time.
CurrentRealm == "realm"

\* Mutant of Routes: the form's path is "principals/create" while the
\* links to it still say "principals/new".
RoutesCreateRenamed ==
    << [name |-> "dashboard", path |-> <<Par("realm"), Lit("agency")>>],
       [name |-> "list",      path |-> <<Par("realm"), Lit("agency"), Lit("principals")>>],
       [name |-> "create",    path |-> <<Par("realm"), Lit("agency"), Lit("principals"),
                                         Lit("create")>>],
       [name |-> "detail",    path |-> <<Par("realm"), Lit("agency"), Lit("principals"),
                                         Par("principalId")>>],
       [name |-> "detail",    path |-> <<Par("realm"), Lit("agency"), Lit("principals"),
                                         Par("principalId"), Par("tab")>>] >>

\* The exported routes array (95-101) with the path of each route object:
\* AgencyDashboardRoute (13-20), PrincipalsListRoute (33-40),
\* CreatePrincipalRoute (49-56), PrincipalDetailRoute (71-78) and
\* PrincipalDetailWithTabRoute (80-83).
Routes ==
    << [name |-> "dashboard", path |-> <<Par("realm"), Lit("agency")>>],
       [name |-> "list",      path |-> <<Par("realm"), Lit("agency"), Lit("principals")>>],
       [name |-> "create",    path |-> <<Par("realm"), Lit("agency"), Lit("principals"),
                                         Lit("new")>>],
       [name |-> "detail",    path |-> <<Par("realm"), Lit("agency"), Lit("principals"),
                                         Par("principalId")>>],
       [name |-> "detail",    path |-> <<Par("realm"), Lit("agency"), Lit("principals"),
                                         Par("principalId"), Par("tab")>>] >>

RouteNames == {Routes[i].name : i \in DOMAIN Routes}

\* No route of the agency pages matches.
NoRoute == [name |-> "none", path |-> << >>]

IsParam(seg) == "param" \in DOMAIN seg

\* react-router's computeScore for a template of these segments.
Score(tpl) ==
    LET static  == {i \in 1..Len(tpl) : ~IsParam(tpl[i])}
        dynamic == {i \in 1..Len(tpl) : IsParam(tpl[i])}
    IN  (Len(tpl) + 1) + 1 + 10 * Cardinality(static) + 3 * Cardinality(dynamic)

Matches(tpl, loc) ==
    /\ Len(tpl) = Len(loc)
    /\ \A i \in 1..Len(tpl) : ~IsParam(tpl[i]) => tpl[i].lit = loc[i]

\* The route the location renders: the best ranked matching route.
RouteOf(loc) ==
    LET M == {i \in DOMAIN Routes : Matches(Routes[i].path, loc)}
        Better(i, j) == \/ Score(Routes[i].path) > Score(Routes[j].path)
                        \/ Score(Routes[i].path) = Score(Routes[j].path) /\ i =< j
    IN  IF M = {} THEN NoRoute
                  ELSE Routes[CHOOSE i \in M : \A j \in M : Better(i, j)]

\* useParams(): parameter name |-> the location's segment.
UseParams(loc) ==
    LET tpl == RouteOf(loc).path
        idx == {i \in 1..Len(tpl) : IsParam(tpl[i])}
    IN  [n \in {tpl[i].param : i \in idx} |->
            loc[CHOOSE i \in idx : tpl[i].param = n]]
=============================================================================
