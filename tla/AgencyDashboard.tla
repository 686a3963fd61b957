--------------------------- MODULE AgencyDashboard --------------------------
(***************************************************************************)
(* The agency dashboard, js/apps/admin-ui/src/agency/AgencyDashboard.tsx,  *)
(* composed with the token provider its handlers call.                     *)
(*                                                                         *)
(* On mount, useFetch (65-81) loads the realm's agency configuration.  The *)
(* page then shows a Switch whose isChecked is config.enabled (154-160).   *)
(* Its onChange calls toggleAgency(checked) (83-102): getAccessToken, PUT  *)
(* {enabled}, and on response.ok                                           *)
(*     setConfig({ ...config!, enabled })                                  *)
(* The switch is not disabled while the PUT is in flight, so it can be     *)
(* flipped again before the first answer arrives.                          *)
(*                                                                         *)
(* One caller of TokenProvider is the load; each of the others is one      *)
(* onChange of the switch, with at most one call at a time.  The config is *)
(* abstracted to its "enabled" field: toggleAgency changes nothing else.   *)
(***************************************************************************)
EXTENDS TokenProvider

CONSTANT LoadCaller  \* the caller of getAccessToken that is useFetch's load

ASSUME LoadCallerAssumption == LoadCaller \in Callers

Togglers == Callers \ {LoadCaller}

\* Outcome of a request at the server and on its way back: 2xx, 4xx, or a
\* network failure after or before the server acted.
Outcome == {"ok", "refused", "lost"}

\* A request: where it is, the token of its header, the "enabled" it asks
\* for (a PUT) or the one it reads (the load's GET), and its answer.
\*   token     the handler awaits getAccessToken
\*   inflight  fetch was called
\*   answered  the response (or the network error) is back
NoReq == [phase |-> "none", auth |-> NoToken, value |-> FALSE, outcome |-> "ok"]
Req == [phase : {"none", "token", "inflight", "answered"}, auth : Gen,
        value : BOOLEAN, outcome : Outcome]

VARIABLES
    serverEnabled, \* the realm's agency "enabled" flag at the server
    fetchState,    \* useFetch's load: "mount", "running", "settled", "failed"
    shown,         \* config.enabled, the switch's isChecked
    req,           \* req[c]: c's request
    uncertain      \* a PUT the server performed was reported as failed

dashVars == <<serverEnabled, fetchState, shown, req, uncertain>>
allVars == <<vars, dashVars>>

DashTypeOK ==
    /\ TypeOK
    /\ serverEnabled \in BOOLEAN
    /\ fetchState \in {"mount", "running", "settled", "failed"}
    /\ shown \in BOOLEAN
    /\ req \in [Callers -> Req]
    /\ uncertain \in BOOLEAN

\* useState<AgencyConfig | undefined>() (63): nothing is shown until the
\* load settles; the server holds either value.
DashInit ==
    /\ Init
    /\ serverEnabled \in BOOLEAN
    /\ fetchState = "mount"
    /\ shown = FALSE
    /\ req = [c \in Callers |-> NoReq]
    /\ uncertain = FALSE

-----------------------------------------------------------------------------
(* The page's handlers.                                                    *)

\* The mount effect of useFetch runs the loader, which calls getAccessToken.
LoadStart ==
    /\ fetchState = "mount"
    /\ GetAccessToken(LoadCaller)
    /\ fetchState' = "running"
    /\ req' = [req EXCEPT ![LoadCaller].phase = "token"]
    /\ UNCHANGED <<serverEnabled, shown, uncertain>>

\* The switch is flipped: it is rendered only once config is set (104-106),
\* and onChange passes the opposite of what it shows.
Toggle(c) ==
    /\ c \in Togglers
    /\ req[c].phase = "none"
    /\ fetchState = "settled"
    /\ GetAccessToken(c)
    /\ req' = [req EXCEPT ![c] = [NoReq EXCEPT !.phase = "token", !.value = ~shown]]
    /\ UNCHANGED <<serverEnabled, fetchState, shown, uncertain>>

\* The handler resumes with its token and calls fetch.
Send(c) ==
    /\ req[c].phase = "token"
    /\ Finish(c)
    /\ req' = [req EXCEPT ![c].phase = "inflight", ![c].auth = got[c]]
    /\ UNCHANGED <<serverEnabled, fetchState, shown, uncertain>>

\* The server handles c's request: 401 without a token; the GET reads the
\* flag, the PUT sets it.  The answer may be lost whether or not it acted.
ServerHandles(c) ==
    /\ req[c].phase = "inflight"
    /\ LET isLoad == c = LoadCaller
           canAct == req[c].auth # NoToken
       IN  \E o \in Outcome, acted \in BOOLEAN :
              /\ acted => canAct
              /\ o = "ok" => acted
              /\ o = "refused" => ~canAct
              /\ req' = [req EXCEPT ![c].phase = "answered", ![c].outcome = o,
                                    ![c].value = IF isLoad THEN serverEnabled
                                                           ELSE req[c].value]
              /\ serverEnabled' = IF acted /\ ~isLoad THEN req[c].value
                                                      ELSE serverEnabled
              /\ uncertain' = (uncertain \/ (acted /\ ~isLoad /\ o = "lost"))
    /\ UNCHANGED <<vars, fetchState, shown>>

\* The load's answer: setConfig(result), or the error boundary.
LoadSettles ==
    /\ Macrotask
    /\ req[LoadCaller].phase = "answered"
    /\ IF req[LoadCaller].outcome = "ok"
          THEN /\ shown' = req[LoadCaller].value
               /\ fetchState' = "settled"
          ELSE /\ fetchState' = "failed"
               /\ UNCHANGED shown
    /\ req' = [req EXCEPT ![LoadCaller] = NoReq]
    /\ UNCHANGED <<vars, serverEnabled, uncertain>>

\* Mutant of ToggleSettles: the "if (!response.ok) throw" check is dropped.
ToggleSettlesUnchecked(c) ==
    /\ Macrotask
    /\ c \in Togglers
    /\ req[c].phase = "answered"
    /\ shown' = req[c].value
    /\ req' = [req EXCEPT ![c] = NoReq]
    /\ UNCHANGED <<vars, serverEnabled, fetchState, uncertain>>

\* The PUT's answer: on response.ok the closure's config with the value
\* this call sent is set; otherwise the error is alerted.
ToggleSettles(c) ==
    /\ Macrotask
    /\ c \in Togglers
    /\ req[c].phase = "answered"
    /\ shown' = IF req[c].outcome = "ok" THEN req[c].value ELSE shown
    /\ req' = [req EXCEPT ![c] = NoReq]
    /\ UNCHANGED <<vars, serverEnabled, fetchState, uncertain>>

DashNext ==
    \/ LoadStart
    \/ \E c \in Callers :
          \/ Toggle(c)
          \/ TokenStep(c) /\ UNCHANGED dashVars
          \/ Send(c)
          \/ ServerHandles(c)
          \/ ToggleSettles(c)
    \/ LoadSettles
    \/ Environment /\ UNCHANGED dashVars
    \/ Gone /\ UNCHANGED dashVars

DashSpec == DashInit /\ [][DashNext]_allVars

-----------------------------------------------------------------------------
(* Properties.                                                             *)

\* Nothing is in flight and no handler is inside getAccessToken.
Quiet ==
    /\ fetchState = "settled"
    /\ \A c \in Callers : req[c].phase = "none"

\* AgencyDashboard.tsx 94-97 and 158: once every PUT has been answered,
\* the switch shows the flag the server holds, unless a PUT the server
\* performed was reported to the user as failed.
ShownMatchesServer ==
    (Quiet /\ ~uncertain) => shown = serverEnabled
=============================================================================
