--------------------------- MODULE PrincipalPages ---------------------------
(***************************************************************************)
(* Navigation between the agency pages of the admin console, composed with *)
(* the token provider their handlers call:                                 *)
(*                                                                         *)
(*   agency/CreatePrincipal.tsx  the form and handleSubmit (45-81)         *)
(*   agency/PrincipalDetail.tsx  the detail page's load (59-95)            *)
(*   agency/routes.tsx           the routes the location resolves to       *)
(*   the links every page renders (AgencyNavigation)                       *)
(*                                                                         *)
(* After a successful POST the form navigates to the new principal's       *)
(* detail URL /:realm/agency/principals/:principalId.  The detail page     *)
(* takes its id from useParams and GETs the principal; on 404 it navigates *)
(* back to the list.  A single user follows the links the pages render.   *)
(* The list's and the dashboard's own handlers are modelled in             *)
(* PrincipalsList and AgencyDashboard; here only their loads, abstracted   *)
(* to their results, and their links are.  Entering a page mounts it       *)
(* afresh; leaving one discards its state and its pending useFetch result. *)
(***************************************************************************)
EXTENDS TokenProvider, AgencyNavigation

CONSTANTS
    SubmitCaller,  \* the caller of getAccessToken that is handleSubmit
    DetailCaller   \* the caller of getAccessToken that is the detail load

ASSUME CallersAssumption2 ==
    /\ {SubmitCaller, DetailCaller} \subseteq Callers
    /\ SubmitCaller # DetailCaller

\* Outcome of a request at the server and on its way back.
\*   ok        2xx
\*   notFound  404: the principal asked for does not exist
\*   refused   401: no usable token
\*   lost      a network failure after or before the server acted
Outcome == {"ok", "notFound", "refused", "lost"}

NoReq == [phase |-> "none", auth |-> NoToken, id |-> Undefined, outcome |-> "ok"]
Req == [phase : {"none", "token", "inflight", "answered"}, auth : Gen,
        id : Ids \cup {Undefined}, outcome : Outcome]

VARIABLES
    server,        \* ids of the principals the server holds
    location,      \* the router's location
    followed,      \* the page the last link or navigate() was written for
    dashLoaded,    \* the dashboard's load has settled
    config,        \* the dashboard's config
    nameValid,     \* the form's name.trim() is not empty
    isSubmitting,  \* the form's isSubmitting state
    detail,        \* the detail load: "mount", "running", "shown", "failed"
    req,           \* req[c]: c's request
    bounced        \* the detail page of a principal the server holds
                   \* navigated back to the list

pageVars == <<server, location, followed, dashLoaded, config, nameValid,
              isSubmitting, detail, req, bounced>>
\* The state of the page that is mounted.
mountVars == <<dashLoaded, config, nameValid, isSubmitting, detail>>
allVars == <<vars, pageVars>>

PagesTypeOK ==
    /\ TypeOK
    /\ server \subseteq Ids
    /\ location \in Seq(STRING \cup Ids)
    /\ followed \in STRING
    /\ dashLoaded \in BOOLEAN
    /\ config \in Config
    /\ nameValid \in BOOLEAN
    /\ isSubmitting \in BOOLEAN
    /\ detail \in {"mount", "running", "shown", "failed"}
    /\ req \in [Callers -> Req]
    /\ bounced \in BOOLEAN

\* The page the location renders.
Page == RouteOf(location).name

\* A page mounts: useState's initial values of the form (39-43), the
\* detail page and the dashboard.
Mounted ==
    /\ dashLoaded' = FALSE
    /\ config' = NoConfig
    /\ nameValid' = FALSE
    /\ isSubmitting' = FALSE
    /\ detail' = "mount"

\* The console opens the dashboard or the list from its navigation.
PagesInit ==
    /\ Init
    /\ server = {}
    /\ location \in {Loc(<< >>), Loc(<<"principals">>)}
    /\ followed = "none"
    /\ dashLoaded = FALSE
    /\ config = NoConfig
    /\ nameValid = FALSE
    /\ isSubmitting = FALSE
    /\ detail = "mount"
    /\ req = [c \in Callers |-> NoReq]
    /\ bounced = FALSE

-----------------------------------------------------------------------------
(* Following links.                                                        *)

\* The links the mounted page renders.
PageLinks ==
    CASE Page = "dashboard" -> DashboardLinks(dashLoaded, config)
      [] Page = "list"      -> ListLinks \cup RowLinks(server)
      [] Page = "create"    -> CreateLinks
      [] OTHER              -> {}

\* A link is clicked: the location changes and the page the routes give
\* for it mounts.  The form's Cancel is the one link whose click is code of
\* this repository (its onClick navigate); the others are react-router
\* <Link>s, whose targets AgencyNavigation takes from the pages' JSX.
Follow ==
    /\ Macrotask
    /\ \E l \in PageLinks :
          /\ location' = l.to
          /\ followed' = l.page
    /\ Mounted
    /\ UNCHANGED <<vars, server, req, bounced>>

\* AgencyDashboard's useFetch (65-81) sets the config the server holds.
DashboardLoads ==
    /\ Macrotask
    /\ Page = "dashboard"
    /\ ~dashLoaded
    /\ dashLoaded' = TRUE
    /\ config' \in Config
    /\ UNCHANGED <<vars, server, location, followed, nameValid, isSubmitting,
                   detail, req, bounced>>

-----------------------------------------------------------------------------
(* CreatePrincipal.                                                        *)

\* The name field is edited (89-97); the other fields are not constrained.
EditName ==
    /\ Macrotask
    /\ Page = "create"
    /\ nameValid' \in BOOLEAN
    /\ UNCHANGED <<vars, server, location, followed, dashLoaded, config,
                   isSubmitting, detail, req, bounced>>

\* "Create Principal" is clicked.  It is disabled while isSubmitting or
\* with an empty name (134), so the validation branch (46-49) is not taken;
\* setIsSubmitting(true) is rendered before the next event.  A new id must
\* be left for the server to give.
Submit ==
    /\ Page = "create"
    /\ ~isSubmitting
    /\ nameValid
    /\ req[SubmitCaller].phase = "none"
    /\ server # Ids
    /\ GetAccessToken(SubmitCaller)
    /\ isSubmitting' = TRUE
    /\ req' = [req EXCEPT ![SubmitCaller].phase = "token"]
    /\ UNCHANGED <<server, location, followed, dashLoaded, config, nameValid,
                   detail, bounced>>

\* handleSubmit's answer.  On success it navigates to the new principal's
\* detail URL (73-75), from whatever page is shown; the finally block
\* clears isSubmitting (78-80).
SubmitSettlesNoFinally ==
    /\ Macrotask
    /\ req[SubmitCaller].phase = "answered"
    /\ IF req[SubmitCaller].outcome = "ok"
          THEN /\ location' = Loc(<<"principals", req[SubmitCaller].id>>)
               /\ followed' = "detail"
               /\ Mounted
          ELSE UNCHANGED <<location, followed, mountVars>>
    /\ req' = [req EXCEPT ![SubmitCaller] = NoReq]
    /\ UNCHANGED <<vars, server, bounced>>

SubmitSettles ==
    /\ Macrotask
    /\ req[SubmitCaller].phase = "answered"
    /\ IF req[SubmitCaller].outcome = "ok"
          THEN /\ location' = Loc(<<"principals", req[SubmitCaller].id>>)
               /\ followed' = "detail"
               /\ Mounted
          ELSE /\ isSubmitting' = FALSE
               /\ UNCHANGED <<location, followed, dashLoaded, config, nameValid,
                              detail>>
    /\ req' = [req EXCEPT ![SubmitCaller] = NoReq]
    /\ UNCHANGED <<vars, server, bounced>>

-----------------------------------------------------------------------------
(* PrincipalDetail.                                                        *)

\* The mount effect of useFetch runs the loader for the id of useParams.
DetailLoadStart ==
    /\ Page = "detail"
    /\ detail = "mount"
    /\ req[DetailCaller].phase = "none"
    /\ GetAccessToken(DetailCaller)
    /\ detail' = "running"
    /\ req' = [req EXCEPT ![DetailCaller].phase = "token",
                          ![DetailCaller].id = DetailId(location)]
    /\ UNCHANGED <<server, location, followed, dashLoaded, config, nameValid,
                   isSubmitting, bounced>>

\* The loader's answer: 404 returns null and the callback navigates to the
\* list (80-82, 88-89); any other failure reaches the error boundary.  A
\* result arriving after the page was left is dropped by useFetch.
DetailLoadSettles ==
    /\ Macrotask
    /\ req[DetailCaller].phase = "answered"
    /\ IF Page = "detail" /\ detail = "running"
          THEN CASE req[DetailCaller].outcome = "ok" ->
                      /\ detail' = "shown"
                      /\ UNCHANGED <<location, followed, bounced>>
                 [] req[DetailCaller].outcome = "notFound" ->
                      /\ location' = Loc(<<"principals">>)
                      /\ followed' = "list"
                      /\ bounced' = (bounced \/ UseParams(location)["principalId"] \in server)
                      /\ UNCHANGED detail
                 [] OTHER ->
                      /\ detail' = "failed"
                      /\ UNCHANGED <<location, followed, bounced>>
          ELSE UNCHANGED <<location, followed, detail, bounced>>
    /\ req' = [req EXCEPT ![DetailCaller] = NoReq]
    /\ UNCHANGED <<vars, server, dashLoaded, config, nameValid, isSubmitting>>

-----------------------------------------------------------------------------
(* The handlers' common steps and the server.                              *)

\* The handler resumes with its token and calls fetch.
Send(c) ==
    /\ req[c].phase = "token"
    /\ Finish(c)
    /\ req' = [req EXCEPT ![c].phase = "inflight", ![c].auth = got[c]]
    /\ UNCHANGED <<server, location, followed, mountVars, bounced>>

\* The server handles c's request: 401 without a token; the POST creates a
\* principal with a new id; the GET answers it or 404.  The answer may be
\* lost whether or not the server acted.
ServerHandles(c) ==
    /\ req[c].phase = "inflight"
    /\ LET authorized == req[c].auth # NoToken
           isPost == c = SubmitCaller
           exists == req[c].id \in server
       IN  \E o \in Outcome, newId \in Ids \ server, acted \in BOOLEAN :
              /\ acted => authorized /\ (isPost \/ exists)
              /\ o = "ok" => acted
              /\ o = "refused" => ~authorized
              /\ o = "notFound" => authorized /\ ~isPost /\ ~exists
              /\ req' = [req EXCEPT ![c].phase = "answered", ![c].outcome = o,
                                    ![c].id = IF isPost THEN newId ELSE req[c].id]
              /\ server' = IF acted /\ isPost THEN server \cup {newId} ELSE server
    /\ UNCHANGED <<vars, location, followed, mountVars, bounced>>

PagesNext ==
    \/ Follow \/ DashboardLoads \/ EditName \/ Submit
    \/ SubmitSettles \/ DetailLoadStart \/ DetailLoadSettles
    \/ \E c \in Callers :
          \/ TokenStep(c) /\ UNCHANGED pageVars
          \/ Send(c)
          \/ ServerHandles(c)
    \/ Environment /\ UNCHANGED pageVars
    \/ Gone /\ UNCHANGED pageVars

\* Pending continuations run, the network answers every request, and a
\* started login redirect replaces the page; the user need not act.
PagesFairness ==
    /\ \A c \in Callers :
          /\ WF_allVars(Resume(c) /\ UNCHANGED pageVars)
          /\ WF_allVars(CatchLogin(c) /\ UNCHANGED pageVars)
          /\ WF_allVars(Send(c))
          /\ WF_allVars(ServerHandles(c))
    /\ WF_allVars(RefreshDone /\ UNCHANGED pageVars)
    /\ WF_allVars(Unload /\ UNCHANGED pageVars)
    /\ WF_allVars(SubmitSettles)

PagesSpec == PagesInit /\ [][PagesNext]_allVars /\ PagesFairness

-----------------------------------------------------------------------------
(* Properties.                                                             *)

\* CreatePrincipal.tsx 51 and 78-80: a submitted form does not stay locked;
\* it leaves for the new principal's page, or becomes usable again, or the
\* page is replaced by a login redirect.
FormUnlocks ==
    isSubmitting ~> (~isSubmitting \/ Page # "create" \/ unloaded)

\* PrincipalDetail.tsx 62 and 79-89 with routes.tsx 72: the detail page
\* sends the user back to the list as "not found" only for a principal the
\* server does not hold.
NoBounceOfExisting == ~bounced

\* routes.tsx 49-83 with the links of the pages and the navigate() calls of
\* CreatePrincipal (75) and PrincipalDetail (89): a link or navigation
\* written for one of the agency pages opens that page; "principals/new"
\* is not taken for the detail page of a principal called "new".
LinkOpensItsPage ==
    followed \in RouteNames => Page = followed

\* CreatePrincipal.tsx 73-75 and 138-143: a principal's detail page opens
\* only from a link the page shown renders, or when the submit of the form
\* shown succeeds; a submit the user left with "Cancel" does not pull them
\* off the page they went on to, a new form among them.
DetailOpensOnlyFromShownPage ==
    [][ Page' = "detail" /\ location' # location =>
          \/ \E l \in PageLinks : l.to = location'
          \/ Page = "create" /\ isSubmitting ]_allVars

=============================================================================
