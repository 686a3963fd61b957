---------------------------- MODULE ErrorBoundary ----------------------------
(***************************************************************************)
(* What the admin console's error boundary offers when a page's useFetch  *)
(* loader fails.                                                           *)
(*                                                                         *)
(* useFetch hands a loader's rejection to the error boundary, whose        *)
(* fallback is ErrorRenderer (components/error/ErrorRenderer.tsx).  It     *)
(* offers "sign out" when the error is a NetworkError for a 403 answer and *)
(* "reload" for anything else (17-42).  The agency pages' loaders build    *)
(* their own errors from fetch's answer; the loaders that go through the   *)
(* resource client get the NetworkError that its fetchWithError throws     *)
(* for every non-2xx answer (passport-admin-client/src/utils, not in this  *)
(* repository; modelled from spec 4.5).                                    *)
(*                                                                         *)
(* One page is mounted, its loader gets one answer, and the boundary       *)
(* renders what the loader threw.                                          *)
(***************************************************************************)
EXTENDS Naturals

\* Pages whose loader is modelled, with the source of each loader:
\*   principals  agency/PrincipalsList.tsx 69-85
\*   dashboard   agency/AgencyDashboard.tsx 65-81
\*   detail      agency/PrincipalDetail.tsx 70-95
\*   serverInfo  context/server-info/ServerInfoProvider.tsx 25
Pages == {"principals", "dashboard", "detail", "serverInfo"}

\* HTTP statuses of an answer: success, no content, unauthorized,
\* forbidden, not found, server error.
Statuses == {200, 204, 401, 403, 404, 500}

Pending == [kind |-> "pending", status |-> 0]

VARIABLES
    page,     \* the mounted page
    status,   \* the status of its loader's answer, 0 until it arrives
    outcome,  \* what the loader resolved or rejected with
    link      \* the action link ErrorRenderer shows, "none" until it renders

ebVars == <<page, status, outcome, link>>

Outcomes == [kind : {"pending", "result", "null", "Error", "NetworkError"},
             status : Statuses \cup {0}]

EBTypeOK ==
    /\ page \in Pages
    /\ status \in Statuses \cup {0}
    /\ outcome \in Outcomes
    /\ link \in {"none", "signOut", "reload"}

\* fetchWithError: a non-2xx answer rejects with a NetworkError carrying the
\* response (spec 4.5).
ClientOutcome(s) ==
    IF s \in 200..299 THEN [kind |-> "result", status |-> s]
                      ELSE [kind |-> "NetworkError", status |-> s]

\* The agency loaders: "if (!response.ok) throw new Error(...)", a plain
\* Error without the response; the detail page first returns null on 404.
AgencyOutcome(p, s) ==
    CASE s \in 200..299        -> [kind |-> "result", status |-> s]
      [] p = "detail" /\ s = 404 -> [kind |-> "null", status |-> s]
      [] OTHER                 -> [kind |-> "Error", status |-> 0]

LoaderOutcome(p, s) ==
    IF p = "serverInfo" THEN ClientOutcome(s) ELSE AgencyOutcome(p, s)

\* ErrorRenderer's isPermissionError: error instanceof NetworkError &&
\* error.response.status === 403.
RendererLink(e) ==
    IF e.kind = "NetworkError" /\ e.status = 403 THEN "signOut" ELSE "reload"

EBInit ==
    /\ page \in Pages
    /\ status = 0
    /\ outcome = Pending
    /\ link = "none"

\* The loader's fetch is answered.
Answer ==
    /\ status = 0
    /\ \E s \in Statuses :
          /\ status' = s
          /\ outcome' = LoaderOutcome(page, s)
    /\ UNCHANGED <<page, link>>

\* useFetch passes a rejection to the boundary, which renders ErrorRenderer.
Render ==
    /\ outcome.kind \in {"Error", "NetworkError"}
    /\ link = "none"
    /\ link' = RendererLink(outcome)
    /\ UNCHANGED <<page, status, outcome>>

EBNext == Answer \/ Render

EBSpec == EBInit /\ [][EBNext]_ebVars

\* Spec 4.5 and 7, ErrorRenderer.tsx 17-21: an answer of 403 to a page's
\* loader leads to the "sign out" affordance, and no other answer does.
SignOutOnForbidden ==
    link # "none" => (link = "signOut" <=> status = 403)
=============================================================================
