------------------------ MODULE PrincipalPagesProofs ------------------------
(***************************************************************************)
(* Proof that a link or a navigate() written for one of the agency pages   *)
(* opens that page (LinkOpensItsPage), for any set of ids and any bounds   *)
(* of the token provider.                                                  *)
(*                                                                         *)
(* The location changes in three places: a link is followed, the form's   *)
(* submit succeeds and navigates to the new principal, the detail page's   *)
(* 404 navigates to the list.  AgencyNavigationProofs shows that every     *)
(* link opens its page.  The submit's navigation opens the detail page     *)
(* because the id the server gave is one of Ids, none of which is "new";   *)
(* the invariant carries that id from the server's answer to the handler,  *)
(* and that the server holds only such ids, which the rows link to.        *)
(***************************************************************************)
EXTENDS PrincipalPages, AgencyNavigationProofs

\* The page's requests, each a record with the fields of Req.
ReqShape ==
    /\ DOMAIN req = Callers
    /\ \A c \in Callers : DOMAIN req[c] = {"phase", "auth", "id", "outcome"}

\* The server holds ids of Ids only.
ServerIds == server \subseteq Ids

\* The answer to the form's POST carries the id the server gave.
SubmitAnswerId ==
    req[SubmitCaller].phase = "answered" => req[SubmitCaller].id \in Ids

PInv == ReqShape /\ ServerIds /\ SubmitAnswerId /\ LinkOpensItsPage

USE CallersAssumption2, NavIdsAssumption

-----------------------------------------------------------------------------
\* Every link the mounted page renders opens the page it was written for.
LEMMA PageLinksOpen == ServerIds => \A l \in PageLinks : LinkOpens(l)
<1> SUFFICES ASSUME ServerIds PROVE \A l \in PageLinks : LinkOpens(l)
  OBVIOUS
<1>1. PageLinks \subseteq StatLinks \cup ConfigurationLinks \cup QuickActionLinks(config)
                          \cup ListLinks \cup RowLinks(server) \cup CreateLinks
  <2>1. DashboardLinks(dashLoaded, config)
          \subseteq StatLinks \cup ConfigurationLinks \cup QuickActionLinks(config)
    BY DEF DashboardLinks
  <2>2. CASE Page = "dashboard"
    BY <2>1, <2>2 DEF PageLinks
  <2>3. CASE Page # "dashboard" /\ Page = "list"
    BY <2>3 DEF PageLinks
  <2>4. CASE Page # "dashboard" /\ Page # "list" /\ Page = "create"
    BY <2>4 DEF PageLinks
  <2>5. CASE Page \notin {"dashboard", "list", "create"}
    BY <2>5 DEF PageLinks
  <2>6. QED
    BY <2>2, <2>3, <2>4, <2>5
<1>2. QED
  BY <1>1, NavLinksOpen DEF ServerIds

LEMMA PagesInitPInv == PagesInit => PInv
<1> SUFFICES ASSUME PagesInit PROVE PInv
  OBVIOUS
<1>1. ReqShape /\ ServerIds /\ SubmitAnswerId
  BY DEF PagesInit, ReqShape, ServerIds, SubmitAnswerId, NoReq
<1>2. LinkOpensItsPage
  BY RouteNamesAre DEF PagesInit, LinkOpensItsPage
<1>3. QED
  BY <1>1, <1>2 DEF PInv

\* A step that moves neither the location nor "followed" keeps the page
\* the link opened.
LEMMA StayKeepsPage ==
  ASSUME LinkOpensItsPage, UNCHANGED <<location, followed>> PROVE LinkOpensItsPage'
BY DEF LinkOpensItsPage, Page

\* PInv is preserved by every step of the pages.
LEMMA PagesNextPInv == ASSUME PInv, [PagesNext]_allVars PROVE PInv'
<1>0. /\ ReqShape /\ ServerIds /\ SubmitAnswerId /\ LinkOpensItsPage
      /\ SubmitCaller \in Callers /\ DetailCaller \in Callers
      /\ SubmitCaller # DetailCaller
  BY DEF PInv
<1>1. CASE Follow
  <2>1. PICK l \in PageLinks : location' = l.to /\ followed' = l.page
    BY <1>1 DEF Follow
  <2>2. LinkOpens(l)
    BY <1>0, PageLinksOpen
  <2>3. LinkOpensItsPage'
    BY <2>1, <2>2 DEF LinkOpens, LinkOpensItsPage, Page
  <2>4. QED
    BY <1>0, <1>1, <2>3 DEF Follow, PInv, ReqShape, ServerIds, SubmitAnswerId
<1>2. CASE DashboardLoads \/ EditName
  BY <1>0, <1>2, StayKeepsPage DEF DashboardLoads, EditName, PInv, ReqShape,
     ServerIds, SubmitAnswerId
<1>3. CASE Submit
  <2>1. req' = [req EXCEPT ![SubmitCaller].phase = "token"]
        /\ UNCHANGED <<server, location, followed>>
    BY <1>3 DEF Submit
  <2>2. req'[SubmitCaller].phase = "token"
    BY <1>0, <2>1 DEF ReqShape
  <2>3. QED
    BY <1>0, <2>1, <2>2, StayKeepsPage DEF PInv, ReqShape, ServerIds, SubmitAnswerId
<1>4. CASE SubmitSettles
  <2>1. /\ req[SubmitCaller].phase = "answered"
        /\ IF req[SubmitCaller].outcome = "ok"
              THEN /\ location' = Loc(<<"principals", req[SubmitCaller].id>>)
                   /\ followed' = "detail"
              ELSE UNCHANGED <<location, followed>>
        /\ req' = [req EXCEPT ![SubmitCaller] = NoReq]
        /\ UNCHANGED server
    BY <1>4 DEF SubmitSettles
  <2>2. req[SubmitCaller].id \in Ids /\ req[SubmitCaller].id # "new"
    BY <1>0, <2>1 DEF SubmitAnswerId
  <2>3. LinkOpensItsPage'
    <3>1. CASE req[SubmitCaller].outcome = "ok"
      BY <2>1, <2>2, <3>1, DetailRoute DEF LinkOpensItsPage, Page
    <3>2. CASE req[SubmitCaller].outcome # "ok"
      BY <1>0, <2>1, <3>2, StayKeepsPage
    <3>3. QED
      BY <3>1, <3>2
  <2>4. QED
    BY <1>0, <2>1, <2>3 DEF PInv, ReqShape, ServerIds, SubmitAnswerId, NoReq
<1>5. CASE DetailLoadStart
  <2>1. req' = [req EXCEPT ![DetailCaller].phase = "token",
                           ![DetailCaller].id = DetailId(location)]
        /\ UNCHANGED <<server, location, followed>>
    BY <1>5 DEF DetailLoadStart
  <2>2. req'[SubmitCaller] = req[SubmitCaller]
    BY <1>0, <2>1 DEF ReqShape
  <2>3. QED
    BY <1>0, <2>1, <2>2, StayKeepsPage DEF PInv, ReqShape, ServerIds, SubmitAnswerId
<1>6. CASE DetailLoadSettles
  <2>1. /\ req' = [req EXCEPT ![DetailCaller] = NoReq]
        /\ UNCHANGED server
    BY <1>6 DEF DetailLoadSettles
  <2>2. \/ UNCHANGED <<location, followed>>
        \/ location' = Loc(<<"principals">>) /\ followed' = "list"
    BY <1>6, Zenon DEF DetailLoadSettles
  <2>3. LinkOpensItsPage'
    BY <1>0, <2>2, StayKeepsPage, ListRoute DEF LinkOpensItsPage, Page
  <2>4. req'[SubmitCaller] = req[SubmitCaller]
    BY <1>0, <2>1 DEF ReqShape
  <2>5. QED
    BY <1>0, <2>1, <2>3, <2>4 DEF PInv, ReqShape, ServerIds, SubmitAnswerId, NoReq
<1>7. ASSUME NEW c \in Callers, Send(c) PROVE PInv'
  <2>1. req' = [req EXCEPT ![c].phase = "inflight", ![c].auth = got[c]]
        /\ UNCHANGED <<server, location, followed>>
    BY <1>7 DEF Send
  <2>2. req'[c].phase = "inflight" /\ \A d \in Callers \ {c} : req'[d] = req[d]
    BY <1>0, <2>1 DEF ReqShape
  <2>3. QED
    BY <1>0, <2>1, <2>2, StayKeepsPage DEF PInv, ReqShape, ServerIds, SubmitAnswerId
<1>8. ASSUME NEW c \in Callers, ServerHandles(c) PROVE PInv'
  <2>1. PICK o \in Outcome, newId \in Ids \ server, acted \in BOOLEAN :
          /\ req' = [req EXCEPT ![c].phase = "answered", ![c].outcome = o,
                                ![c].id = IF c = SubmitCaller THEN newId ELSE req[c].id]
          /\ server' = IF acted /\ c = SubmitCaller THEN server \cup {newId} ELSE server
    BY <1>8 DEF ServerHandles
  <2>2. UNCHANGED <<location, followed>>
    BY <1>8 DEF ServerHandles
  <2>3. /\ req'[c].phase = "answered"
        /\ req'[c].id = IF c = SubmitCaller THEN newId ELSE req[c].id
        /\ \A d \in Callers \ {c} : req'[d] = req[d]
    BY <1>0, <2>1 DEF ReqShape
  <2>4. QED
    BY <1>0, <2>1, <2>2, <2>3, StayKeepsPage DEF PInv, ReqShape, ServerIds, SubmitAnswerId
<1>9. ASSUME NEW c \in Callers, TokenStep(c) /\ UNCHANGED pageVars PROVE PInv'
  BY <1>0, <1>9, StayKeepsPage DEF pageVars, PInv, ReqShape, ServerIds, SubmitAnswerId
<1>10. CASE (Environment \/ Gone) /\ UNCHANGED pageVars
  BY <1>0, <1>10, StayKeepsPage DEF pageVars, PInv, ReqShape, ServerIds, SubmitAnswerId
<1>11. CASE UNCHANGED allVars
  BY <1>0, <1>11, StayKeepsPage DEF allVars, pageVars, PInv, ReqShape, ServerIds,
     SubmitAnswerId
<1>12. QED
  BY <1>1, <1>2, <1>3, <1>4, <1>5, <1>6, <1>7, <1>8, <1>9, <1>10, <1>11 DEF PagesNext
\* routes.tsx 49-83 with the pages' links, CreatePrincipal.tsx 75 and
\* PrincipalDetail.tsx 89: in every behaviour, a link followed or a
\* navigate() called for one of the agency pages renders that page;
\* "principals/new" opens the form, never the detail page of a principal
\* called "new".
THEOREM LinkOpensItsPageHolds == PagesSpec => []LinkOpensItsPage
<1>1. PInv => LinkOpensItsPage
  BY DEF PInv
<1>2. QED
  BY <1>1, PagesInitPInv, PagesNextPInv, PTL DEF PagesSpec
=============================================================================
