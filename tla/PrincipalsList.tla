--------------------------- MODULE PrincipalsList ---------------------------
(***************************************************************************)
(* The agency principals page, js/apps/admin-ui/src/agency/PrincipalsList.tsx,*)
(* composed with the token provider every one of its handlers calls.       *)
(*                                                                         *)
(* On mount, useFetch (69-85) loads the list: getAccessToken, then GET     *)
(* /admin/realms/{realm}/agency/principals, then setPrincipals(result).    *)
(* Every row offers Delete (205-217), whose handler handleDelete (87-104)  *)
(* does getAccessToken, DELETE .../principals/{id}, and on success         *)
(*     setPrincipals(principals.filter(p => p.id !== id))                  *)
(* where "principals" is the list of the render the click came from: the  *)
(* closure's copy, not the state at the time the response arrives.         *)
(*                                                                         *)
(* One caller of TokenProvider is the load (LoadCaller); the others are    *)
(* Delete handlers, each running at most one call at a time.  The server   *)
(* processes a request and answers in two separate steps, so requests of   *)
(* different handlers are processed, and answered, in any order.  A        *)
(* principal is a model value; the list is abstracted to the set of ids it *)
(* shows, which is what filter changes.                                    *)
(*                                                                         *)
(* The page's realm comes from the route (useRealm).  Switching realm      *)
(* keeps the page mounted and re-runs the load for the new realm; a        *)
(* handleDelete started before the switch still holds the old realm and    *)
(* the old realm's list.  ListSpec keeps to one realm, RealmSpec adds the  *)
(* switch.                                                                 *)
(***************************************************************************)
EXTENDS TokenProvider

CONSTANTS
    Principals,  \* principal ids held by the server when the page mounts
    LoadCaller,  \* the caller of getAccessToken that is useFetch's load
    Realms,      \* the realms the console can switch between
    Home         \* Home[p]: the realm principal p belongs to

ASSUME PrincipalsAssumption == IsFiniteSet(Principals) /\ Principals # {}
ASSUME LoadCallerAssumption == LoadCaller \in Callers
ASSUME HomeAssumption == Home \in [Principals -> Realms]

Deleters == Callers \ {LoadCaller}

\* Outcome of a request at the server and on its way back.
\*   ok       2xx, the server did what was asked
\*   refused  4xx (401 without a valid token, 404 for a missing principal)
\*   lost     the server did what was asked but fetch rejected (network)
Outcome == {"ok", "refused", "lost"}

\* A request: where it is, the token of its Authorization header, and the
\* answer.
NoReq == [phase |-> "none", auth |-> NoToken, outcome |-> "ok", body |-> {}]
Req == [phase : {"none", "inflight", "answered"}, auth : Gen,
        outcome : Outcome, body : SUBSET Principals]

VARIABLES
    server,      \* ids the server holds
    principals,  \* the "principals" React state: ids the table shows
    fetchState,  \* useFetch's load: "mount", "running", "settled", "failed"
    listed,      \* the ids the load put into the table (history)
    req,         \* req[c]: c's request to the server
    target,      \* target[c]: the id c's handleDelete deletes
    snap,        \* snap[c]: the "principals" captured by c's handleDelete
    confirmed,   \* ids for which "Principal deleted successfully" was shown
    realm,       \* useRealm()'s realm: the one the route names
    scope        \* scope[c]: the realm captured by c's handleDelete

listVars == <<server, principals, fetchState, listed, req, target, snap, confirmed,
              realm, scope>>
allVars == <<vars, listVars>>

ListTypeOK ==
    /\ TypeOK
    /\ server \subseteq Principals
    /\ principals \subseteq Principals
    /\ fetchState \in {"mount", "running", "settled", "failed"}
    /\ listed \subseteq Principals
    /\ req \in [Callers -> Req]
    /\ target \in [Callers -> Principals]
    /\ snap \in [Callers -> SUBSET Principals]
    /\ confirmed \subseteq Principals
    /\ realm \in Realms
    /\ scope \in [Callers -> Realms]

\* useState<Principal[]>([]) (66): the table starts empty.
ListInit ==
    /\ Init
    /\ server = Principals
    /\ principals = {}
    /\ fetchState = "mount"
    /\ listed = {}
    /\ req = [c \in Callers |-> NoReq]
    /\ target = [c \in Callers |-> CHOOSE p \in Principals : TRUE]
    /\ snap = [c \in Callers |-> {}]
    /\ confirmed = {}
    /\ realm \in Realms
    /\ scope = [c \in Callers |-> realm]

-----------------------------------------------------------------------------
(* The page's handlers.                                                    *)

\* The mount effect of useFetch runs the loader, which calls getAccessToken.
LoadStart ==
    /\ fetchState = "mount"
    /\ GetAccessToken(LoadCaller)
    /\ fetchState' = "running"
    /\ UNCHANGED <<server, principals, listed, req, target, snap, confirmed,
                   realm, scope>>

\* Delete is clicked on a shown row: handleDelete captures this render's
\* list and realm and calls getAccessToken synchronously.  The table renders rows only
\* for a non-empty list (110-135), so p is one of the shown ids.
HandleDelete(c, p) ==
    /\ c \in Deleters
    /\ req[c].phase = "none"
    /\ p \in principals
    /\ GetAccessToken(c)
    /\ target' = [target EXCEPT ![c] = p]
    /\ snap' = [snap EXCEPT ![c] = principals]
    /\ scope' = [scope EXCEPT ![c] = realm]
    /\ UNCHANGED <<server, principals, fetchState, listed, req, confirmed, realm>>

\* The handler resumes with its token and calls fetch: the request leaves
\* with the header "Bearer ${token}".
Send(c) ==
    /\ Finish(c)
    /\ req' = [req EXCEPT ![c] = [NoReq EXCEPT !.phase = "inflight", !.auth = got[c]]]
    /\ UNCHANGED <<server, principals, fetchState, listed, target, snap, confirmed,
                   realm, scope>>

\* The server processes c's request.  Without a token it answers 401.  A GET
\* answers the ids it holds in the page's realm; a DELETE of
\* /realms/{scope}/... removes the id, or answers 404 when that realm does
\* not hold it.  A request can be lost on the way there or back, in
\* which case fetch rejects whether or not the server acted.
ServerHandles(c) ==
    /\ req[c].phase = "inflight"
    /\ LET isLoad == c = LoadCaller
           canAct == /\ req[c].auth # NoToken
                     /\ isLoad \/ (target[c] \in server /\ Home[target[c]] = scope[c])
       IN  \E o \in Outcome, acted \in BOOLEAN :
              /\ acted => canAct
              /\ o = "ok" => acted
              /\ o = "refused" => ~canAct
              /\ req' = [req EXCEPT ![c] = [req[c] EXCEPT !.phase = "answered",
                                   !.outcome = o,
                                   !.body = IF isLoad THEN {p \in server : Home[p] = realm}
                                                      ELSE {}]]
              /\ server' = IF acted /\ ~isLoad THEN server \ {target[c]} ELSE server
    /\ UNCHANGED <<vars, principals, fetchState, listed, target, snap, confirmed,
                   realm, scope>>

\* The load's response arrives: useFetch hands the list to setPrincipals,
\* or, when the loader threw, shows the error boundary instead of the page.
LoadSettles ==
    /\ Macrotask
    /\ req[LoadCaller].phase = "answered"
    /\ IF req[LoadCaller].outcome = "ok"
          THEN /\ principals' = req[LoadCaller].body
               /\ listed' = req[LoadCaller].body
               /\ fetchState' = "settled"
          ELSE /\ fetchState' = "failed"
               /\ UNCHANGED <<principals, listed>>
    /\ req' = [req EXCEPT ![LoadCaller] = NoReq]
    /\ UNCHANGED <<vars, server, target, snap, confirmed, realm, scope>>

\* Mutant of DeleteSettles: the "if (!response.ok) throw" check is dropped,
\* so the row is removed whatever the answer was.
DeleteSettlesUnchecked(c) ==
    /\ Macrotask
    /\ c \in Deleters
    /\ req[c].phase = "answered"
    /\ principals' = snap[c] \ {target[c]}
    /\ confirmed' = confirmed \cup {target[c]}
    /\ req' = [req EXCEPT ![c] = NoReq]
    /\ UNCHANGED <<vars, server, fetchState, listed, target, snap, realm, scope>>

\* The DELETE's response arrives in c's handleDelete: on response.ok the
\* captured list without the id is set and the success alert shown;
\* otherwise the error is caught and alerted, the list left alone.
DeleteSettles(c) ==
    /\ Macrotask
    /\ c \in Deleters
    /\ req[c].phase = "answered"
    /\ IF req[c].outcome = "ok"
          THEN /\ principals' = snap[c] \ {target[c]}
               /\ confirmed' = confirmed \cup {target[c]}
          ELSE UNCHANGED <<principals, confirmed>>
    /\ req' = [req EXCEPT ![c] = NoReq]
    /\ UNCHANGED <<vars, server, fetchState, listed, target, snap, realm, scope>>

ListNext ==
    \/ LoadStart
    \/ \E c \in Deleters, p \in Principals : HandleDelete(c, p)
    \/ \E c \in Callers :
          \/ TokenStep(c) /\ UNCHANGED listVars
          \/ Send(c)
          \/ ServerHandles(c)
          \/ DeleteSettles(c)
    \/ LoadSettles
    \/ Environment /\ UNCHANGED listVars
    \/ Gone /\ UNCHANGED listVars

ListSpec == ListInit /\ [][ListNext]_allVars

\* The realm selector switches realm.  The route element stays mounted, so
\* the principals state is kept, and useFetch's deps [realm, adminClient]
\* change: the load runs again for the new realm (69-85).  The switch is
\* taken between loads, once the page's load has settled.
SwitchRealm ==
    /\ Macrotask
    /\ fetchState = "settled"
    /\ realm' \in Realms \ {realm}
    /\ fetchState' = "mount"
    /\ UNCHANGED <<vars, server, principals, listed, req, target, snap, confirmed,
                   scope>>

RealmNext == ListNext \/ SwitchRealm

\* The page with realm switches.
RealmSpec == ListInit /\ [][RealmNext]_allVars

-----------------------------------------------------------------------------
(* Properties.                                                             *)

\* PrincipalsList.tsx 96-100: the table never hides a principal the server
\* still holds; a row disappears only after the server deleted it, whatever
\* order the deletes of several rows are answered in.
NoHiddenPrincipal ==
    \A p \in listed : p \in server => p \in principals

=============================================================================
