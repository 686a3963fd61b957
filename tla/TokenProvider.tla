--------------------------- MODULE TokenProvider ---------------------------
(***************************************************************************)
(* The bearer-token provider of the admin console and the account console. *)
(*                                                                         *)
(*   js/apps/admin-ui/src/admin-client.ts      getAccessToken  (29-37)     *)
(*   js/apps/account-ui/src/api/request.ts     token(passport)  (65-74)    *)
(*   js/libs/ui-shared/src/context/PassportContext.tsx  onAuthLogout (57)  *)
(*                                                                         *)
(* Both getAccessToken functions are the same code:                        *)
(*                                                                         *)
(*     try { await passport.updateToken(5) } catch { await passport.login() }*)
(*     return passport.token                                               *)
(*                                                                         *)
(* Every handler that talks to the server calls it and puts the result     *)
(* into "Authorization: Bearer ${token}".  Several handlers may be inside  *)
(* getAccessToken at once; they share one keycloak-js adapter object       *)
(* (passport), whose token, refresh queue and session are the environment  *)
(* of this module: keycloak-js is a dependency, not code of this           *)
(* repository, so its steps are modelled as the behaviour its updateToken, *)
(* clearToken and login have, and are not mapped to source lines.          *)
(*                                                                         *)
(* Tokens are numbered by generation: 1 is the token obtained at           *)
(* passport.init, each successful refresh produces the next one, and       *)
(* NoToken (0) is the undefined passport.token left by clearToken.         *)
(*                                                                         *)
(* The browser runs one task at a time.  The continuation of an awaited    *)
(* promise is a microtask; all pending microtasks run before the next      *)
(* macrotask (a user event, an XHR completion, a timer).  The actions that *)
(* stand for macrotasks are therefore guarded by NoMicrotasks.             *)
(***************************************************************************)
EXTENDS Naturals, FiniteSets

CONSTANTS
    Callers,   \* handler invocations that call getAccessToken (model values)
    MaxGen,    \* bound on token generations, i.e. on successful refreshes
    MaxLogins  \* bound on login redirects before no handler is started any more

ASSUME CallersAssumption == IsFiniteSet(Callers) /\ Callers # {}
ASSUME MaxGenAssumption == MaxGen \in Nat \ {0}
ASSUME MaxLoginsAssumption == MaxLogins \in Nat \ {0}

NoToken == 0
Gen == 0..MaxGen

\* Where a caller is inside getAccessToken.
\*   idle       not inside getAccessToken
\*   queued     updateToken(5) is waiting for the shared refresh request
\*   resumeOk   updateToken resolved; the continuation is a pending microtask
\*   resumeErr  updateToken rejected; the catch block is a pending microtask
\*   login      awaiting passport.login(), which never settles: the default
\*              keycloak-js adapter (PassportContext.tsx 68-74 passes none)
\*              assigns the login URL to window.location and returns a
\*              promise that is never resolved, so the page is replaced
\*   done       getAccessToken returned got[c]; the handler's continuation,
\*              which builds the header and calls fetch, is a pending microtask
Phase == {"idle", "queued", "resumeOk", "resumeErr", "login", "done"}

VARIABLES
    token,        \* passport.token (generation, NoToken when cleared)
    fresh,        \* passport.token is valid for more than the 5 s margin
    refreshing,   \* keycloak-js has a refresh request in flight
    sessionAlive, \* the SSO session can still issue tokens by refresh
    logins,       \* number of interactive login redirects started
    unloaded,     \* the page has navigated away to the login page
    pc,           \* pc[c]: phase of caller c
    asked,        \* asked[c]: passport.token when c called updateToken
    askedFresh,   \* askedFresh[c]: whether that token was still fresh
    got           \* got[c]: the token getAccessToken returned to c

envVars == <<token, fresh, refreshing, sessionAlive, logins, unloaded>>
callerVars == <<pc, asked, askedFresh, got>>
vars == <<envVars, callerVars>>

TypeOK ==
    /\ token \in Gen
    /\ fresh \in BOOLEAN
    /\ refreshing \in BOOLEAN
    /\ sessionAlive \in BOOLEAN
    /\ logins \in Nat
    /\ unloaded \in BOOLEAN
    /\ pc \in [Callers -> Phase]
    /\ asked \in [Callers -> Gen]
    /\ askedFresh \in [Callers -> BOOLEAN]
    /\ got \in [Callers -> Gen]

\* After passport.init({onLoad: "login-required"}) has resolved
\* (PassportContext.tsx 68-77) the adapter holds a fresh first token.
Init ==
    /\ token = 1
    /\ fresh = TRUE
    /\ refreshing = FALSE
    /\ sessionAlive = TRUE
    /\ logins = 0
    /\ unloaded = FALSE
    /\ pc = [c \in Callers |-> "idle"]
    /\ asked = [c \in Callers |-> NoToken]
    /\ askedFresh = [c \in Callers |-> FALSE]
    /\ got = [c \in Callers |-> NoToken]

\* No continuation of a settled promise is waiting to run: neither the one
\* after updateToken nor the handler's own one after getAccessToken.
NoMicrotasks == \A c \in Callers : pc[c] \notin {"resumeOk", "resumeErr", "done"}

\* A macrotask can only run while the page is loaded and no microtask is due.
Macrotask == ~unloaded /\ NoMicrotasks

\* keycloak-js clearToken: the token is dropped and, if there was one,
\* onAuthLogout runs, which PassportContext set to () => passport.login()
\* (57); and since init ran with onLoad "login-required" (70), which sets
\* the adapter's loginRequired, clearToken then calls kc.login() itself.
ClearedLogins == IF token # NoToken THEN logins + 2 ELSE logins

-----------------------------------------------------------------------------
(* Operations of getAccessToken.                                           *)

\* A handler calls getAccessToken, which calls passport.updateToken(5).
\* Without a refresh token updateToken rejects at once; with a token valid
\* for more than 5 s it resolves at once; otherwise the caller joins the
\* refresh queue, and the first one in the queue sends the refresh request.
GetAccessToken(c) ==
    /\ Macrotask
    /\ pc[c] = "idle"
    /\ logins < MaxLogins
    /\ asked' = [asked EXCEPT ![c] = token]
    /\ askedFresh' = [askedFresh EXCEPT ![c] = fresh]
    /\ \/ /\ token = NoToken
          /\ pc' = [pc EXCEPT ![c] = "resumeErr"]
          /\ UNCHANGED refreshing
       \/ /\ token # NoToken /\ fresh
          /\ pc' = [pc EXCEPT ![c] = "resumeOk"]
          /\ UNCHANGED refreshing
       \/ /\ token # NoToken /\ ~fresh
          /\ pc' = [pc EXCEPT ![c] = "queued"]
          /\ refreshing' = TRUE
    /\ UNCHANGED <<token, fresh, sessionAlive, logins, unloaded, got>>

\* Mutant of Resume: passport.token is read before the await
\* (const t = passport.token; await passport.updateToken(5); return t).
ResumeStaleRead(c) ==
    /\ ~unloaded
    /\ pc[c] = "resumeOk"
    /\ pc' = [pc EXCEPT ![c] = "done"]
    /\ got' = [got EXCEPT ![c] = asked[c]]
    /\ UNCHANGED <<envVars, asked, askedFresh>>

\* updateToken resolved: getAccessToken returns passport.token.
Resume(c) ==
    /\ ~unloaded
    /\ pc[c] = "resumeOk"
    /\ pc' = [pc EXCEPT ![c] = "done"]
    /\ got' = [got EXCEPT ![c] = token]
    /\ UNCHANGED <<envVars, asked, askedFresh>>

\* Mutant of CatchLogin: the catch block calls updateToken(5) again instead
\* of passport.login().
CatchRetry(c) ==
    /\ ~unloaded
    /\ pc[c] = "resumeErr"
    /\ \/ /\ token = NoToken
          /\ UNCHANGED <<pc, refreshing>>
       \/ /\ token # NoToken /\ fresh
          /\ pc' = [pc EXCEPT ![c] = "resumeOk"]
          /\ UNCHANGED refreshing
       \/ /\ token # NoToken /\ ~fresh
          /\ pc' = [pc EXCEPT ![c] = "queued"]
          /\ refreshing' = TRUE
    /\ UNCHANGED <<token, fresh, sessionAlive, logins, unloaded,
                   asked, askedFresh, got>>

\* updateToken rejected: the catch block starts an interactive login.
CatchLogin(c) ==
    /\ ~unloaded
    /\ pc[c] = "resumeErr"
    /\ pc' = [pc EXCEPT ![c] = "login"]
    /\ logins' = logins + 1
    /\ UNCHANGED <<token, fresh, refreshing, sessionAlive, unloaded,
                   asked, askedFresh, got>>

\* The handler resumes after getAccessToken, sends its request with
\* "Bearer ${token}" and leaves; it may be invoked again.  Its record of the
\* finished call is dropped.
Finish(c) ==
    /\ ~unloaded
    /\ pc[c] = "done"
    /\ pc' = [pc EXCEPT ![c] = "idle"]
    /\ asked' = [asked EXCEPT ![c] = NoToken]
    /\ askedFresh' = [askedFresh EXCEPT ![c] = FALSE]
    /\ got' = [got EXCEPT ![c] = NoToken]
    /\ UNCHANGED envVars

-----------------------------------------------------------------------------
(* The environment: keycloak-js, the SSO server and the clock.             *)

\* The refresh request completes.  With a live session it returns the next
\* token; with a dead one the server answers 400 and keycloak-js calls
\* clearToken; on a network error the old token is kept.  Every queued
\* updateToken settles at once.
RefreshDone ==
    /\ Macrotask
    /\ refreshing
    /\ refreshing' = FALSE
    /\ \/ /\ sessionAlive
          /\ token' = token + 1
          /\ fresh' = TRUE
          /\ pc' = [c \in Callers |-> IF pc[c] = "queued" THEN "resumeOk" ELSE pc[c]]
          /\ UNCHANGED logins
       \/ /\ ~sessionAlive
          /\ token' = NoToken
          /\ fresh' = FALSE
          /\ logins' = ClearedLogins
          /\ pc' = [c \in Callers |-> IF pc[c] = "queued" THEN "resumeErr" ELSE pc[c]]
       \/ /\ pc' = [c \in Callers |-> IF pc[c] = "queued" THEN "resumeErr" ELSE pc[c]]
          /\ UNCHANGED <<token, fresh, logins>>
    /\ UNCHANGED <<sessionAlive, unloaded, asked, askedFresh, got>>

\* Time passes until the token is inside the 5 s margin.
Tick ==
    /\ Macrotask
    /\ fresh
    /\ token \in 1..(MaxGen - 1)
    /\ fresh' = FALSE
    /\ UNCHANGED <<token, refreshing, sessionAlive, logins, unloaded, callerVars>>

\* The SSO session ends (idle timeout or logout elsewhere).  If the session
\* status iframe notices, keycloak-js calls clearToken.
SessionEnds ==
    /\ Macrotask
    /\ sessionAlive
    /\ sessionAlive' = FALSE
    /\ \/ /\ token' = NoToken
          /\ fresh' = FALSE
          /\ logins' = ClearedLogins
       \/ UNCHANGED <<token, fresh, logins>>
    /\ UNCHANGED <<refreshing, unloaded, callerVars>>

\* A login redirect replaces the page; nothing of it runs afterwards.
Unload ==
    /\ Macrotask
    /\ logins > 0
    /\ unloaded' = TRUE
    /\ UNCHANGED <<token, fresh, refreshing, sessionAlive, logins, callerVars>>

\* The page is gone: the only remaining step is stuttering.
Gone == unloaded /\ UNCHANGED vars

\* The steps of getAccessToken after its call, shared with the modules of
\* the handlers that call it.
TokenStep(c) == Resume(c) \/ CatchLogin(c)

Environment == RefreshDone \/ Tick \/ SessionEnds \/ Unload

Next ==
    \/ \E c \in Callers : GetAccessToken(c) \/ TokenStep(c) \/ Finish(c)
    \/ Environment
    \/ Gone

\* Microtasks always run, a refresh request eventually completes or fails
\* (the browser ends every XHR), and a started login redirect eventually
\* replaces the page: window.location was assigned, and the navigation
\* commits however many handlers the page runs meanwhile, hence strong
\* fairness, as Unload is disabled while a microtask is due.  Nothing forces the
\* user, the clock or the session to act.
Fairness ==
    /\ \A c \in Callers :
          WF_vars(Resume(c)) /\ WF_vars(CatchLogin(c)) /\ WF_vars(Finish(c))
    /\ WF_vars(RefreshDone)
    /\ SF_vars(Unload)

Spec == Init /\ [][Next]_vars /\ Fairness

-----------------------------------------------------------------------------
(* Properties.                                                             *)

\* Spec 4.1 / 8.4, admin-client.ts 29-36: a caller that returns from a
\* successful updateToken(5) holds a token at least as new as the one it
\* asked with, and strictly newer when that one was already inside the 5 s
\* margin: the awaited refresh, shared with every other queued caller, is
\* what the header carries, never the token seen before the await.  Since
\* login() never settles, every return is one of these, so the header is
\* never "Bearer undefined" either.
RefreshBeforeReturn ==
    \A c \in Callers :
        pc[c] = "done" =>
            \/ got[c] > asked[c]
            \/ askedFresh[c] /\ got[c] = asked[c] /\ got[c] # NoToken

\* Spec 5 / 8.6, admin-client.ts 30-34 with PassportContext.tsx 57: the
\* callers sharing a refresh, and the adapter, start at most one
\* interactive login between them.
AtMostOneLogin == logins <= 1

\* Spec 8.6, admin-client.ts 31-36: every call of getAccessToken eventually
\* returns, or the page is replaced by the login it started: no caller
\* waits forever on the shared refresh, and none hangs in a login() that
\* never settles while the page stays.
CallSettles ==
    \A c \in Callers : (pc[c] # "idle") ~> (pc[c] = "done" \/ unloaded)

-----------------------------------------------------------------------------
(* Refinement of the abstract token service.                               *)

\* A caller waiting in updateToken or in its settled continuation is still
\* inside its call; one awaiting login() has handed over to the login.
CallStatus(p) ==
    CASE p \in {"queued", "resumeOk", "resumeErr"} -> "calling"
      [] p = "login"                             -> "login"
      [] p = "done"                              -> "returned"
      [] OTHER                                   -> "idle"

TS == INSTANCE TokenService
          WITH tok <- token, valid <- fresh, left <- unloaded,
               status <- [c \in Callers |-> CallStatus(pc[c])], ret <- got

\* Spec 4.1, admin-client.ts 29-37 with the refresh queue of keycloak-js:
\* getAccessToken implements the atomic token service.  A call returns the
\* adapter's token as it is when the call returns, and that token is
\* defined and valid; every call settles and its token is consumed.
ImplementsTokenService == TS!TSSpec
=============================================================================
