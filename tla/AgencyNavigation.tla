---------------------------- MODULE AgencyNavigation ---------------------------
(***************************************************************************)
(* The links the admin console's agency pages render, as functions of the  *)
(* page state they depend on: the dashboard renders a spinner until its    *)
(* config is loaded and its links only for an enabled agency; the list     *)
(* renders a row per principal; the form renders "Cancel".  A link opens a *)
(* location of the open realm, which the router resolves against the      *)
(* routes of routes.tsx (AgencyRoutes).  PrincipalPages follows them.      *)
(***************************************************************************)
EXTENDS AgencyRoutes

CONSTANT Ids  \* ids of the principals the server may hold

ASSUME NavIdsAssumption == IsFiniteSet(Ids) /\ Ids # {} /\ Ids \cap {"new"} = {}

\* `/${realm}/agency/...`
Loc(segs) == <<CurrentRealm, "agency">> \o segs

\* A link: the location it opens and the page it was written for.
Link(segs, page) == [to |-> Loc(segs), page |-> page]

\* The "undefined" that a missing route parameter interpolates to.
Undefined == "undefined"

\* The dashboard's config, abstracted to the fields its links depend on.
Config == [enabled : BOOLEAN, agentPassportsEnabled : BOOLEAN]
NoConfig == [enabled |-> FALSE, agentPassportsEnabled |-> FALSE]

-----------------------------------------------------------------------------
(* The links of each page.                                                 *)

\* AgencyDashboard's stats (108-137): a card per count, each a link.
StatLinks ==
    { Link(<<"principals">>, "list"), Link(<<"delegates">>, "delegates"),
      Link(<<"mandates">>, "mandates"), Link(<<"passports">>, "passports") }

\* The configuration cards (216-290): "Configure Agency" (281).
ConfigurationLinks == { Link(<<"config">>, "config") }

\* Quick actions (291-338); "Mint Agent Passport" only when agent passports
\* are enabled (315).
QuickActionLinks(cfg) ==
    { Link(<<"principals", "new">>, "create"),
      Link(<<"delegates", "new">>, "createDelegate") }
    \cup (IF cfg.agentPassportsEnabled
             THEN { Link(<<"passports", "mint">>, "mint") } ELSE {})

\* AgencyDashboard's render (103-215): a spinner until the config is
\* loaded; the links only under "config.enabled" (183).
DashboardLinks(ld, cfg) ==
    IF ld /\ cfg.enabled
       THEN StatLinks \cup ConfigurationLinks \cup QuickActionLinks(cfg)
       ELSE {}

\* PrincipalsList's render (106-160): the empty state and the toolbar both
\* link to the form ("principals === undefined" never holds: the state
\* starts as []).
ListLinks == { Link(<<"principals", "new">>, "create") }

\* The table (161-231): each row's name link (173) and "View Details" (207).
RowLinks(ids) == { Link(<<"principals", p>>, "detail") : p \in ids }

\* CreatePrincipal's form (82-151): "Cancel" (138-143) navigates to the
\* list.  The navigation after a successful submit (75) is the handler's.
CreateLinks == { Link(<<"principals">>, "list") }

\* PrincipalDetail (62): the principal the page loads is useParams' "id".
DetailId(loc) ==
    IF "id" \in DOMAIN UseParams(loc) THEN UseParams(loc)["id"] ELSE Undefined

=============================================================================
