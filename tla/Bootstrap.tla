------------------------------ MODULE Bootstrap ------------------------------
(***************************************************************************)
(* Start-up of the admin console, from the Passport provider to the first  *)
(* page that can call getAccessToken:                                      *)
(*                                                                         *)
(*   libs/ui-shared/src/context/PassportContext.tsx  PassportProvider      *)
(*       (42-98): a mount effect calls passport.init({onLoad:              *)
(*       "login-required"}) once, guarded by the calledOnce ref (62-81);   *)
(*       the provider renders ErrorPage on error, a spinner until init,    *)
(*       and its children after (83-97).                                   *)
(*   apps/admin-ui/src/App.tsx  App (48-100): a mount effect runs         *)
(*       initAdminClient (admin-client.ts 20-41) and setAdminClient; a     *)
(*       spinner is shown until the client is set.                         *)
(*                                                                         *)
(* In a development build React's StrictMode runs every mount effect a     *)
(* second time, synchronously in the same commit, keeping refs and state   *)
(* (the "only needed in dev mode" comment, 63).  keycloak-js is the        *)
(* environment: the first init answers "authenticated", fails, or          *)
(* redirects to the login page; any later init of the same instance        *)
(* rejects ("can only be initialized once").                               *)
(*                                                                         *)
(* Once the console renders, its pages call getAccessToken: this module    *)
(* EXTENDS TokenProvider, whose Init is the adapter's state after init     *)
(* resolved, and shares its "unloaded", the login redirect replacing the   *)
(* page.                                                                   *)
(***************************************************************************)
EXTENDS TokenProvider

CONSTANT DevMode  \* TRUE for a development build under StrictMode

ASSUME DevModeAssumption == DevMode \in BOOLEAN

\* How often React runs a component's mount effect.
EffectRuns == IF DevMode THEN 2 ELSE 1

\* Index of passport.init calls; no more can happen than effect runs.
CallIds == 1..EffectRuns

VARIABLES
    providerEffects,  \* runs of PassportProvider's mount effect so far
    calledOnce,       \* the calledOnce ref
    calls,            \* calls[i]: the promise of the i-th passport.init
    init,             \* the provider's "init" state
    error,            \* the provider's "error" state is set
    loginFailed,      \* the login server's check itself failed (history)
    appEffects,       \* runs of App's mount effect so far
    clientsPending,   \* initAdminClient calls whose promise has not resolved
    adminClients      \* setAdminClient calls so far: 0 means no client yet

bootVars == <<providerEffects, calledOnce, calls, init, error, loginFailed,
              appEffects, clientsPending, adminClients>>
allVars == <<vars, bootVars>>

BootTypeOK ==
    /\ TypeOK
    /\ providerEffects \in 0..EffectRuns
    /\ calledOnce \in BOOLEAN
    /\ calls \in [CallIds -> {"none", "pending", "resolved", "failed",
                              "redirect", "refused"}]
    /\ init \in BOOLEAN
    /\ error \in BOOLEAN
    /\ loginFailed \in BOOLEAN
    /\ appEffects \in 0..EffectRuns
    /\ clientsPending \in 0..EffectRuns
    /\ adminClients \in 0..EffectRuns

\* What PassportProvider renders (83-97).
ProviderView ==
    IF error THEN "errorPage"
    ELSE IF ~init THEN "spinner"
    ELSE "children"

\* What App renders (65-99): the console once a client is set.
AppView ==
    IF ProviderView # "children" THEN "unmounted"
    ELSE IF adminClients = 0 THEN "spinner"
    ELSE "console"

\* useRef(false), useState(false), useState<unknown>() (47-49).
BootInit ==
    /\ Init
    /\ providerEffects = 0
    /\ calledOnce = FALSE
    /\ calls = [i \in CallIds |-> "none"]
    /\ init = FALSE
    /\ error = FALSE
    /\ loginFailed = FALSE
    /\ appEffects = 0
    /\ clientsPending = 0
    /\ adminClients = 0

\* Both runs of a mount effect happen in one commit, before any promise
\* settles and before any event.
EffectsDone ==
    /\ providerEffects \in {0, EffectRuns}
    /\ appEffects \in {0, EffectRuns}

-----------------------------------------------------------------------------
(* PassportProvider.                                                       *)

\* Mutant of ProviderEffect: the calledOnce early return is dropped.
ProviderEffectUnguarded ==
    /\ ~unloaded
    /\ providerEffects < EffectRuns
    /\ providerEffects' = providerEffects + 1
    /\ calls' = [calls EXCEPT ![providerEffects + 1] = "pending"]
    /\ calledOnce' = TRUE
    /\ UNCHANGED <<vars, init, error, loginFailed, appEffects,
                   clientsPending, adminClients>>

\* The mount effect (62-81): return when calledOnce, otherwise call
\* passport.init and set calledOnce.
ProviderEffect ==
    /\ ~unloaded
    /\ providerEffects < EffectRuns
    /\ providerEffects' = providerEffects + 1
    /\ IF calledOnce
          THEN UNCHANGED <<calls, calledOnce>>
          ELSE /\ calls' = [calls EXCEPT ![providerEffects + 1] = "pending"]
               /\ calledOnce' = TRUE
    /\ UNCHANGED <<vars, init, error, loginFailed, appEffects,
                   clientsPending, adminClients>>

\* keycloak-js's answers to the i-th init of the instance: the first is
\* answered by the login server (authenticated, a failure) or redirects to
\* the login page; a later one is refused ("can only be initialized once").
InitAnswers(i) ==
    IF i = 1 THEN {"resolved", "failed", "redirect"} ELSE {"refused"}

\* Mutant of InitSettles: the .then(() => setInit(true)) is missing.
InitSettlesNoThen(i) ==
    /\ ~unloaded
    /\ EffectsDone
    /\ calls[i] = "pending"
    /\ \E o \in InitAnswers(i) :
          /\ calls' = [calls EXCEPT ![i] = o]
          /\ error' = (error \/ o \in {"failed", "refused"})
          /\ loginFailed' = (loginFailed \/ o = "failed")
          /\ unloaded' = (o = "redirect")
    /\ UNCHANGED <<token, fresh, refreshing, sessionAlive, logins, callerVars,
                   providerEffects, calledOnce, init, appEffects, clientsPending,
                   adminClients>>

\* The i-th init promise settles; .then sets init, .catch sets error
\* (76-78); a redirect replaces the page.
InitSettles(i) ==
    /\ ~unloaded
    /\ EffectsDone
    /\ calls[i] = "pending"
    /\ \E o \in InitAnswers(i) :
          /\ calls' = [calls EXCEPT ![i] = o]
          /\ init' = (init \/ o = "resolved")
          /\ error' = (error \/ o \in {"failed", "refused"})
          /\ loginFailed' = (loginFailed \/ o = "failed")
          /\ unloaded' = (o = "redirect")
    /\ UNCHANGED <<token, fresh, refreshing, sessionAlive, logins, callerVars,
                   providerEffects, calledOnce, appEffects, clientsPending,
                   adminClients>>

-----------------------------------------------------------------------------
(* App.                                                                    *)

\* App's mount effect (52-63): initAdminClient, then setAdminClient.  It
\* has no guard, so under StrictMode it creates a second client.
AppEffect ==
    /\ ~unloaded
    /\ ProviderView = "children"
    /\ appEffects < EffectRuns
    /\ appEffects' = appEffects + 1
    /\ clientsPending' = clientsPending + 1
    /\ UNCHANGED <<vars, providerEffects, calledOnce, calls, init, error,
                   loginFailed, adminClients>>

\* initAdminClient's promise resolves and setAdminClient(client) runs; the
\* call is lost once App is unmounted.
ClientResolves ==
    /\ ~unloaded
    /\ EffectsDone
    /\ clientsPending > 0
    /\ clientsPending' = clientsPending - 1
    /\ adminClients' = IF ProviderView = "children" THEN adminClients + 1
                                                    ELSE adminClients
    /\ UNCHANGED <<vars, providerEffects, calledOnce, calls, init, error,
                   loginFailed, appEffects>>

\* The console's pages call getAccessToken only once they are rendered, and
\* the adapter's token, session and refreshes exist only after init.
BootNext ==
    \/ ProviderEffect
    \/ \E i \in CallIds : InitSettles(i)
    \/ AppEffect
    \/ ClientResolves
    \/ AppView = "console" /\ \E c \in Callers : GetAccessToken(c) /\ UNCHANGED bootVars
    \/ \E c \in Callers : (TokenStep(c) \/ Finish(c)) /\ UNCHANGED bootVars
    \/ init /\ Environment /\ UNCHANGED bootVars
    \/ Gone /\ UNCHANGED bootVars

\* React runs committed effects and resolved continuations; keycloak-js
\* settles init or redirects (its iframe and token requests time out).
BootFairness ==
    /\ WF_allVars(ProviderEffect)
    /\ \A i \in CallIds : WF_allVars(InitSettles(i))
    /\ WF_allVars(AppEffect)
    /\ WF_allVars(ClientResolves)

BootSpec == BootInit /\ [][BootNext]_allVars /\ BootFairness

-----------------------------------------------------------------------------
(* Properties.                                                             *)

\* PassportContext.tsx 62-66 and 83-85: the console shows its error page
\* only when the login check itself failed, never because the mount effect
\* ran twice and initialised the adapter a second time.
ErrorPageMeansLoginFailed ==
    ProviderView = "errorPage" => loginFailed

\* PassportContext.tsx 76-97 with App.tsx 52-65: start-up ends; the
\* console renders with an admin client, or the error page shows, or the
\* browser leaves for the login page.
ConsoleStarts ==
    <>(AppView = "console" \/ ProviderView = "errorPage" \/ unloaded)
=============================================================================
