---------------------------- MODULE TokenService ----------------------------
(***************************************************************************)
(* What getAccessToken promises its callers, stated without keycloak-js's  *)
(* refresh queue or the browser's task queue (spec 4.1 and 8.4):           *)
(*                                                                         *)
(*   - a call returns the adapter's token at the moment it returns, and    *)
(*     that token is defined and valid beyond the 5 s margin;              *)
(*   - a call that cannot get a token hands over to an interactive login,  *)
(*     which does not return: the login page replaces this one;            *)
(*   - the adapter's token is only ever renewed, expired or cleared, and   *)
(*     clearing a token starts the adapter's login and onAuthLogout's;     *)
(*   - every call returns or hands over to the login, and every returned   *)
(*     token is consumed by its handler, unless the page is left.          *)
(*                                                                         *)
(* Each call is atomic here: the step at which it returns is the only one  *)
(* at which it reads the token.  TokenProvider implements this module      *)
(* under the refinement mapping TokenProvider!TS.                          *)
(***************************************************************************)
EXTENDS Naturals

CONSTANT Callers

VARIABLES
    tok,     \* the adapter's token (generation, 0 when cleared)
    valid,   \* the token is valid beyond the margin
    logins,  \* interactive logins started
    left,    \* the page was replaced by the login page
    status,  \* status[c]: "idle", "calling", "login" or "returned"
    ret      \* ret[c]: the token the call of c returned, 0 otherwise

tsVars == <<tok, valid, logins, left, status, ret>>

TSInit ==
    /\ tok = 1
    /\ valid = TRUE
    /\ logins = 0
    /\ left = FALSE
    /\ status = [c \in Callers |-> "idle"]
    /\ ret = [c \in Callers |-> 0]

Call(c) ==
    /\ ~left
    /\ status[c] = "idle"
    /\ status' = [status EXCEPT ![c] = "calling"]
    /\ UNCHANGED <<tok, valid, logins, left, ret>>

\* The call returns the token it reads now, which is defined and valid.
Return(c) ==
    /\ ~left
    /\ status[c] = "calling"
    /\ valid /\ tok # 0
    /\ status' = [status EXCEPT ![c] = "returned"]
    /\ ret' = [ret EXCEPT ![c] = tok]
    /\ UNCHANGED <<tok, valid, logins, left>>

\* The call could not get a token and starts an interactive login.
Redirect(c) ==
    /\ ~left
    /\ status[c] = "calling"
    /\ status' = [status EXCEPT ![c] = "login"]
    /\ logins' = logins + 1
    /\ UNCHANGED <<tok, valid, left, ret>>

\* The caller consumes the returned token.
Release(c) ==
    /\ ~left
    /\ status[c] = "returned"
    /\ status' = [status EXCEPT ![c] = "idle"]
    /\ ret' = [ret EXCEPT ![c] = 0]
    /\ UNCHANGED <<tok, valid, logins, left>>

Renew ==
    /\ ~left
    /\ tok # 0
    /\ tok' = tok + 1
    /\ valid' = TRUE
    /\ UNCHANGED <<logins, left, status, ret>>

Expire ==
    /\ ~left
    /\ valid
    /\ valid' = FALSE
    /\ UNCHANGED <<tok, logins, left, status, ret>>

\* The token is cleared; if there was one, the adapter's own login and
\* onAuthLogout's both start.
Clear ==
    /\ ~left
    /\ tok' = 0
    /\ valid' = FALSE
    /\ logins' = IF tok # 0 THEN logins + 2 ELSE logins
    /\ UNCHANGED <<left, status, ret>>

Leave ==
    /\ ~left
    /\ logins > 0
    /\ left' = TRUE
    /\ UNCHANGED <<tok, valid, logins, status, ret>>

TSNext ==
    \/ \E c \in Callers :
          Call(c) \/ Return(c) \/ Redirect(c) \/ Release(c)
    \/ Renew \/ Expire \/ Clear \/ Leave

TSSafety == TSInit /\ [][TSNext]_tsVars

\* Every call settles, returned or handed to the login, and every returned
\* token is consumed, as long as the page stays.
TSSpec ==
    /\ TSSafety
    /\ \A c \in Callers : WF_tsVars(Return(c) \/ Redirect(c)) /\ WF_tsVars(Release(c))
=============================================================================
