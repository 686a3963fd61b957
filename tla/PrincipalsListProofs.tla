------------------------ MODULE PrincipalsListProofs ------------------------
(***************************************************************************)
(* Proof that the principals table never hides a principal the server      *)
(* still holds (NoHiddenPrincipal), for the page in one realm (ListSpec),  *)
(* for any number of Delete handlers, principals and token bounds.         *)
(*                                                                         *)
(* The Delete handler sets the list it captured when clicked, less its     *)
(* id.  That list may be stale, so the argument is about the snapshots:    *)
(* while a handler is active, its snapshot holds every listed id the      *)
(* server still holds, except perhaps its own target; and an ok answer     *)
(* means the server has dropped the target.  The snapshot is taken from    *)
(* the table, which holds them all; the server only ever drops ids.  A     *)
(* handler is active from its click until its answer is handled: it is     *)
(* inside getAccessToken or its request is out.  The table, and "listed",  *)
(* change at the load's answer only while no Delete handler is active,     *)
(* since rows are only shown once the load has settled.                    *)
(***************************************************************************)
EXTENDS PrincipalsList, TokenProviderProofs

\* c's handler is inside getAccessToken or its request is out.
Active(c) == pc[c] # "idle" \/ req[c].phase # "none"

\* The page's functions are indexed by the callers.
ListShape == DOMAIN req = Callers /\ DOMAIN snap = Callers /\ DOMAIN target = Callers

\* A caller whose request is out has left getAccessToken.
ReqMeansIdle == \A c \in Callers : req[c].phase # "none" => pc[c] = "idle"

\* The load is active only while useFetch's load runs.
LoadRuns == Active(LoadCaller) => fetchState = "running"

\* A Delete handler is active only once the load has settled.
DeletesAfterLoad == \A c \in Deleters : Active(c) => fetchState = "settled"

\* Before the load has settled the table is empty.
EmptyUntilSettled == fetchState # "settled" => principals = {} /\ listed = {}

\* An ok answer to a DELETE means the server has dropped its id.
OkRemoved ==
    \A c \in Deleters :
        req[c].phase = "answered" /\ req[c].outcome = "ok" => target[c] \notin server

\* An active handler's snapshot holds every listed id the server still
\* holds, but perhaps its own target.
SnapCovers ==
    \A c \in Deleters :
        Active(c) => \A p \in listed \cap server : p \in snap[c] \/ p = target[c]

ListInv ==
    /\ ListShape
    /\ ReqMeansIdle
    /\ LoadRuns
    /\ DeletesAfterLoad
    /\ EmptyUntilSettled
    /\ OkRemoved
    /\ SnapCovers
    /\ NoHiddenPrincipal

LInv == IInv /\ ListInv

USE CallersAssumption, MaxGenAssumption, MaxLoginsAssumption,
    PrincipalsAssumption, LoadCallerAssumption, HomeAssumption

-----------------------------------------------------------------------------
\* Every step of the list page is, on getAccessToken's variables, a step of
\* TokenProvider or a stutter.
LEMMA ListStepIsTokenStep == [ListNext]_allVars => [Next]_vars
<1> SUFFICES ASSUME [ListNext]_allVars PROVE [Next]_vars
  OBVIOUS
<1>1. CASE LoadStart
  BY <1>1 DEF LoadStart, Next
<1>2. CASE \E c \in Deleters, p \in Principals : HandleDelete(c, p)
  BY <1>2 DEF HandleDelete, Deleters, Next
<1>3. CASE \E c \in Callers : (TokenStep(c) /\ UNCHANGED listVars) \/ Send(c)
                              \/ ServerHandles(c) \/ DeleteSettles(c)
  <2>1. PICK c \in Callers : (TokenStep(c) /\ UNCHANGED listVars) \/ Send(c)
                             \/ ServerHandles(c) \/ DeleteSettles(c)
    BY <1>3
  <2>2. CASE TokenStep(c) /\ UNCHANGED listVars
    BY <2>2 DEF Next
  <2>3. CASE Send(c)
    BY <2>3 DEF Send, Next
  <2>4. CASE ServerHandles(c)
    BY <2>4 DEF ServerHandles
  <2>5. CASE DeleteSettles(c)
    BY <2>5 DEF DeleteSettles
  <2>6. QED
    BY <2>1, <2>2, <2>3, <2>4, <2>5
<1>4. CASE LoadSettles
  BY <1>4 DEF LoadSettles
<1>5. CASE Environment /\ UNCHANGED listVars
  BY <1>5 DEF Next
<1>6. CASE Gone /\ UNCHANGED listVars
  BY <1>6 DEF Next
<1>7. CASE UNCHANGED allVars
  BY <1>7 DEF allVars
<1>8. QED
  BY <1>1, <1>2, <1>3, <1>4, <1>5, <1>6, <1>7 DEF ListNext

\* getAccessToken takes its caller out of "idle" and no other.
LEMMA GetLeavesIdle ==
  ASSUME IInv, NEW c \in Callers, GetAccessToken(c)
  PROVE  /\ pc'[c] # "idle"
         /\ \A d \in Callers \ {c} : pc'[d] = pc[d]
BY DEF GetAccessToken, IInv, FlagTypeOK

\* The handler's resumption after getAccessToken puts its caller, and no
\* other, back to "idle".
LEMMA FinishToIdle ==
  ASSUME IInv, NEW c \in Callers, Finish(c)
  PROVE  /\ pc[c] = "done"
         /\ pc'[c] = "idle"
         /\ \A d \in Callers \ {c} : pc'[d] = pc[d]
BY DEF Finish, IInv, FlagTypeOK

\* No step of getAccessToken after its call, and no step of the
\* environment, takes a caller out of "idle".
LEMMA IdleStaysIdle ==
  ASSUME IInv, NEW c \in Callers, pc[c] = "idle",
         \/ \E d \in Callers : TokenStep(d)
         \/ Environment
         \/ Gone
  PROVE  pc'[c] = "idle"
<1>1. CASE \E d \in Callers : TokenStep(d)
  BY <1>1 DEF TokenStep, Resume, CatchLogin, IInv, FlagTypeOK
<1>2. CASE Environment
  BY <1>2 DEF Environment, RefreshDone, Tick, SessionEnds, Unload, callerVars,
              IInv, FlagTypeOK
<1>3. CASE Gone
  BY <1>3 DEF Gone, vars, callerVars
<1>4. QED
  BY <1>1, <1>2, <1>3

LEMMA ListInitLInv == ListInit => LInv
<1> SUFFICES ASSUME ListInit PROVE LInv
  OBVIOUS
<1>1. IInv
  BY InitIInv DEF ListInit
<1>2. \A c \in Callers : pc[c] = "idle" /\ req[c] = NoReq
  BY DEF ListInit, Init
<1>3. QED
  BY <1>1, <1>2 DEF ListInit, LInv, ListInv, ListShape, ReqMeansIdle, LoadRuns,
     DeletesAfterLoad, EmptyUntilSettled, OkRemoved, SnapCovers,
     NoHiddenPrincipal, Active, NoReq, Deleters
\* A step of getAccessToken or of the environment leaves the page alone and
\* starts no handler.
LEMMA TokenStepKeepsPage ==
  ASSUME IInv, ListInv, UNCHANGED listVars,
         \/ \E d \in Callers : TokenStep(d)
         \/ Environment
         \/ Gone
  PROVE  ListInv'
<1>1. \A c \in Callers : pc[c] = "idle" => pc'[c] = "idle"
  BY IdleStaysIdle
<1>2. \A c \in Callers : Active(c)' => Active(c)
  BY <1>1 DEF Active, listVars
<1>3. QED
  BY <1>1, <1>2 DEF ListInv, ListShape, ReqMeansIdle, LoadRuns, DeletesAfterLoad,
     EmptyUntilSettled, OkRemoved, SnapCovers, NoHiddenPrincipal, listVars, Deleters

\* The page's part of the invariant is preserved by every step of the page.
LEMMA ListStep ==
  ASSUME IInv, ListInv, [ListNext]_allVars PROVE ListInv'
<1>0. /\ ListShape /\ ReqMeansIdle /\ LoadRuns /\ DeletesAfterLoad
      /\ EmptyUntilSettled /\ OkRemoved /\ SnapCovers /\ NoHiddenPrincipal
      /\ Deleters = Callers \ {LoadCaller}
  BY DEF ListInv, Deleters
<1>1. CASE LoadStart
  <2>1. /\ fetchState = "mount" /\ fetchState' = "running"
        /\ GetAccessToken(LoadCaller)
        /\ UNCHANGED <<server, principals, listed, req, target, snap, confirmed>>
    BY <1>1 DEF LoadStart
  <2>2. ~Active(LoadCaller) /\ \A d \in Deleters : ~Active(d)
    BY <1>0, <2>1 DEF LoadRuns, DeletesAfterLoad
  <2>3. \A d \in Deleters : Active(d)' = Active(d)
    BY <1>0, <2>1, GetLeavesIdle DEF Active
  <2>4. QED
    BY <1>0, <2>1, <2>2, <2>3 DEF ListInv, ListShape, ReqMeansIdle, LoadRuns,
       DeletesAfterLoad, EmptyUntilSettled, OkRemoved, SnapCovers,
       NoHiddenPrincipal, Active
<1>2. ASSUME NEW c \in Deleters, NEW p \in Principals, HandleDelete(c, p)
      PROVE ListInv'
  <2>1. /\ req[c].phase = "none" /\ p \in principals
        /\ GetAccessToken(c)
        /\ target' = [target EXCEPT ![c] = p]
        /\ snap' = [snap EXCEPT ![c] = principals]
        /\ UNCHANGED <<server, principals, fetchState, listed, req, confirmed>>
    BY <1>2 DEF HandleDelete
  <2>2. fetchState = "settled" /\ c \in Callers /\ c # LoadCaller
    BY <1>0, <2>1 DEF EmptyUntilSettled
  <2>3. \A d \in Callers \ {c} : Active(d)' = Active(d)
    BY <2>1, <2>2, GetLeavesIdle DEF Active
  <2>4. (ListShape /\ ReqMeansIdle /\ LoadRuns /\ DeletesAfterLoad /\ EmptyUntilSettled)'
    BY <1>0, <2>1, <2>2, <2>3, GetLeavesIdle
       DEF ListShape, ReqMeansIdle, LoadRuns, DeletesAfterLoad, EmptyUntilSettled
  <2>5. OkRemoved'
    BY <1>0, <2>1, <2>2 DEF OkRemoved
  <2>6. SnapCovers'
    <3>1. SUFFICES ASSUME NEW d \in Deleters, Active(d)', NEW q \in listed' \cap server'
                   PROVE  q \in snap'[d] \/ q = target'[d]
      BY DEF SnapCovers
    <3>2. CASE d = c
      BY <1>0, <2>1, <3>1, <3>2 DEF NoHiddenPrincipal, ListShape
    <3>3. CASE d # c
      BY <1>0, <2>1, <2>3, <3>1, <3>3 DEF SnapCovers, ListShape
    <3>4. QED
      BY <3>2, <3>3
  <2>7. QED
    BY <1>0, <2>1, <2>4, <2>5, <2>6 DEF ListInv, NoHiddenPrincipal
<1>3. ASSUME NEW c \in Callers, TokenStep(c) /\ UNCHANGED listVars PROVE ListInv'
  BY <1>3, TokenStepKeepsPage
<1>4. CASE Environment /\ UNCHANGED listVars
  BY <1>4, TokenStepKeepsPage
<1>5. CASE Gone /\ UNCHANGED listVars
  BY <1>5, TokenStepKeepsPage
<1>6. CASE UNCHANGED allVars
  BY <1>0, <1>6 DEF allVars, vars, callerVars, listVars, ListInv, ListShape,
     ReqMeansIdle, LoadRuns, DeletesAfterLoad, EmptyUntilSettled, OkRemoved,
     SnapCovers, NoHiddenPrincipal, Active
<1>7. ASSUME NEW c \in Callers, Send(c) PROVE ListInv'
  <2>1. /\ Finish(c)
        /\ req' = [req EXCEPT ![c] = [NoReq EXCEPT !.phase = "inflight", !.auth = got[c]]]
        /\ UNCHANGED <<server, principals, fetchState, listed, target, snap, confirmed>>
    BY <1>7 DEF Send
  <2>2. pc[c] = "done" /\ pc'[c] = "idle" /\ \A d \in Callers \ {c} : pc'[d] = pc[d]
    BY <2>1, FinishToIdle
  <2>3. /\ Active(c) /\ Active(c)'
        /\ req'[c].phase = "inflight"
        /\ \A d \in Callers \ {c} : req'[d] = req[d] /\ Active(d)' = Active(d)
    BY <1>0, <2>1, <2>2 DEF Active, ListShape, NoReq
  <2>4. QED
    BY <1>0, <2>1, <2>2, <2>3 DEF ListInv, ListShape, ReqMeansIdle, LoadRuns,
       DeletesAfterLoad, EmptyUntilSettled, OkRemoved, SnapCovers, NoHiddenPrincipal
<1>8. ASSUME NEW c \in Callers, ServerHandles(c) PROVE ListInv'
  <2>1. PICK o \in Outcome, acted \in BOOLEAN :
          /\ o = "ok" => acted
          /\ req' = [req EXCEPT ![c] = [req[c] EXCEPT !.phase = "answered",
                               !.outcome = o,
                               !.body = IF c = LoadCaller THEN {q \in server : Home[q] = realm}
                                                          ELSE {}]]
          /\ server' = IF acted /\ ~(c = LoadCaller) THEN server \ {target[c]} ELSE server
    BY <1>8 DEF ServerHandles
  <2>2. /\ req[c].phase = "inflight"
        /\ UNCHANGED <<vars, principals, fetchState, listed, target, snap, confirmed>>
    BY <1>8 DEF ServerHandles
  <2>3. /\ req'[c].phase = "answered" /\ req'[c].outcome = o
        /\ \A d \in Callers \ {c} : req'[d] = req[d]
    BY <1>0, <2>1 DEF ListShape
  <2>4. /\ server' \subseteq server
        /\ (c # LoadCaller /\ o = "ok") => target[c] \notin server'
    BY <2>1
  <2>5. /\ pc' = pc
        /\ \A d \in Callers : Active(d)' = Active(d)
    BY <2>2, <2>3 DEF Active, vars, callerVars
  <2>6. QED
    BY <1>0, <2>1, <2>2, <2>3, <2>4, <2>5 DEF ListInv, ListShape, ReqMeansIdle,
       LoadRuns, DeletesAfterLoad, EmptyUntilSettled, OkRemoved, SnapCovers,
       NoHiddenPrincipal
<1>9. ASSUME NEW c \in Callers, DeleteSettles(c) PROVE ListInv'
  <2>1. /\ c \in Deleters
        /\ req[c].phase = "answered"
        /\ IF req[c].outcome = "ok"
              THEN principals' = snap[c] \ {target[c]}
              ELSE UNCHANGED principals
        /\ req' = [req EXCEPT ![c] = NoReq]
        /\ UNCHANGED <<vars, server, fetchState, listed, target, snap>>
    BY <1>9 DEF DeleteSettles
  <2>2. /\ Active(c) /\ pc[c] = "idle" /\ fetchState = "settled"
        /\ ~Active(c)'
        /\ \A d \in Callers \ {c} : req'[d] = req[d] /\ Active(d)' = Active(d)
    BY <1>0, <2>1 DEF Active, ReqMeansIdle, DeletesAfterLoad, ListShape, NoReq,
       vars, callerVars
  <2>3. NoHiddenPrincipal'
    <3>1. CASE req[c].outcome = "ok"
      <4>1. target[c] \notin server /\ principals' = snap[c] \ {target[c]}
        BY <1>0, <2>1, <3>1 DEF OkRemoved
      <4>2. \A q \in listed \cap server : q \in snap[c] \/ q = target[c]
        BY <1>0, <2>1, <2>2 DEF SnapCovers
      <4>3. QED
        BY <2>1, <4>1, <4>2 DEF NoHiddenPrincipal
    <3>2. CASE req[c].outcome # "ok"
      BY <1>0, <2>1, <3>2 DEF NoHiddenPrincipal
    <3>3. QED
      BY <3>1, <3>2
  <2>4. pc' = pc /\ req'[c].phase = "none" /\ c # LoadCaller
    BY <1>0, <2>1 DEF vars, callerVars, ListShape, NoReq
  <2>5. (ListShape /\ ReqMeansIdle /\ LoadRuns)'
    BY <1>0, <2>1, <2>2, <2>4 DEF ListShape, ReqMeansIdle, LoadRuns
  <2>6. (DeletesAfterLoad /\ EmptyUntilSettled)'
    BY <2>1, <2>2 DEF DeletesAfterLoad, EmptyUntilSettled
  <2>7. OkRemoved'
    BY <1>0, <2>1, <2>2, <2>4 DEF OkRemoved
  <2>8. SnapCovers'
    BY <1>0, <2>1, <2>2 DEF SnapCovers
  <2>9. QED
    BY <2>3, <2>5, <2>6, <2>7, <2>8 DEF ListInv
<1>10. CASE LoadSettles
  <2>1. /\ req[LoadCaller].phase = "answered"
        /\ IF req[LoadCaller].outcome = "ok"
              THEN /\ principals' = req[LoadCaller].body
                   /\ listed' = req[LoadCaller].body
                   /\ fetchState' = "settled"
              ELSE /\ fetchState' = "failed"
                   /\ UNCHANGED <<principals, listed>>
        /\ req' = [req EXCEPT ![LoadCaller] = NoReq]
        /\ UNCHANGED <<vars, server, target, snap, confirmed>>
    BY <1>10 DEF LoadSettles
  <2>2. /\ fetchState = "running" /\ pc[LoadCaller] = "idle"
        /\ \A d \in Deleters : ~Active(d) /\ req'[d] = req[d] /\ Active(d)' = Active(d)
        /\ ~Active(LoadCaller)'
    BY <1>0, <2>1 DEF Active, LoadRuns, ReqMeansIdle, DeletesAfterLoad,
       ListShape, NoReq, vars, callerVars
  <2>3. /\ fetchState' \in {"settled", "failed"}
        /\ (fetchState' = "settled" => principals' = listed')
        /\ (fetchState' = "failed" => principals' = principals /\ listed' = listed)
    BY <2>1
  <2>4. pc' = pc /\ req'[LoadCaller].phase = "none"
    BY <1>0, <2>1 DEF vars, callerVars, ListShape, NoReq
  <2>5. (ListShape /\ ReqMeansIdle /\ LoadRuns)'
    BY <1>0, <2>1, <2>2, <2>4 DEF ListShape, ReqMeansIdle, LoadRuns
  <2>6. (DeletesAfterLoad /\ OkRemoved /\ SnapCovers)'
    BY <1>0, <2>1, <2>2 DEF DeletesAfterLoad, OkRemoved, SnapCovers, Active
  <2>7. (EmptyUntilSettled /\ NoHiddenPrincipal)'
    <3>1. CASE fetchState' = "settled"
      BY <2>3, <3>1 DEF EmptyUntilSettled, NoHiddenPrincipal
    <3>2. CASE fetchState' = "failed"
      BY <1>0, <2>2, <2>3, <3>2 DEF EmptyUntilSettled, NoHiddenPrincipal
    <3>3. QED
      BY <2>3, <3>1, <3>2
  <2>8. QED
    BY <2>5, <2>6, <2>7 DEF ListInv
<1>11. QED
  BY <1>1, <1>2, <1>3, <1>4, <1>5, <1>6, <1>7, <1>8, <1>9, <1>10 DEF ListNext
\* LInv is inductive for the list page in one realm.
LEMMA ListNextLInv == ASSUME LInv, [ListNext]_allVars PROVE LInv'
<1>1. IInv'
  BY ListStepIsTokenStep, NextIInv DEF LInv
<1>2. ListInv'
  BY ListStep DEF LInv
<1>3. QED
  BY <1>1, <1>2 DEF LInv

\* PrincipalsList.tsx 87-104: however many Delete handlers are in flight,
\* and in whatever order the server handles and answers their DELETEs, a
\* principal the load listed and the server still holds is shown in the
\* table; setPrincipals(principals.filter(...)) with a stale closure list
\* never hides one.
THEOREM NoHiddenPrincipalHolds == ListSpec => []NoHiddenPrincipal
<1>1. LInv => NoHiddenPrincipal
  BY DEF LInv, ListInv
<1>2. QED
  BY <1>1, ListInitLInv, ListNextLInv, PTL DEF ListSpec
=============================================================================
