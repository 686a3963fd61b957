------------------------ MODULE TokenProviderProofs ------------------------
(***************************************************************************)
(* Proofs about TokenProvider for every set of callers and every bound on  *)
(* token generations.                                                      *)
(*                                                                         *)
(* TypeOK alone is not inductive: a successful refresh computes token + 1, *)
(* which stays inside 0..MaxGen only because a refresh is never in flight  *)
(* for a fresh token, a stale token below MaxGen is the only kind Tick     *)
(* makes, and a cleared token means the session is dead.  The same facts,  *)
(* together with what a queued or resumed caller knows about the token it  *)
(* asked with, make RefreshBeforeReturn inductive.                         *)
(***************************************************************************)
EXTENDS TokenProvider, TLAPS

\* A refresh is only ever in flight for a token inside the 5 s margin.
RefreshOnlyWhenStale == refreshing => ~fresh

\* A stale token that is still defined is below the generation bound.
StaleBelowBound == (~fresh /\ token # NoToken) => token < MaxGen

\* passport.token is cleared only once the session is over.
ClearedMeansDead == token = NoToken => ~sessionAlive

\* A queued caller waits on the refresh in flight for the token it asked
\* with, which is unchanged unless it was cleared.
QueuedKnowsToken ==
    \A c \in Callers : pc[c] = "queued" =>
        /\ refreshing
        /\ asked[c] # NoToken
        /\ token \in {asked[c], NoToken}

\* A caller whose updateToken resolved sees a token newer than the one it
\* asked with, or the same one if that was fresh.
ResumedKnowsToken ==
    \A c \in Callers : pc[c] = "resumeOk" =>
        /\ token # NoToken
        /\ \/ token > asked[c]
           \/ askedFresh[c] /\ token = asked[c]

\* TypeOK in two halves, the numbers and the flags: the SMT backend does the
\* first, Zenon the second, and neither both at once.
NumTypeOK ==
    /\ token \in Gen
    /\ logins \in Nat
    /\ asked \in [Callers -> Gen]
    /\ got \in [Callers -> Gen]

FlagTypeOK ==
    /\ fresh \in BOOLEAN
    /\ refreshing \in BOOLEAN
    /\ sessionAlive \in BOOLEAN
    /\ unloaded \in BOOLEAN
    /\ pc \in [Callers -> Phase]
    /\ askedFresh \in [Callers -> BOOLEAN]

\* The environment's three facts, apart from the callers' records.
EnvInv == RefreshOnlyWhenStale /\ StaleBelowBound /\ ClearedMeansDead

\* What the callers' records say about the token.
CallerInv == QueuedKnowsToken /\ ResumedKnowsToken /\ RefreshBeforeReturn

IInv == NumTypeOK /\ FlagTypeOK /\ EnvInv /\ CallerInv

USE CallersAssumption, MaxGenAssumption, MaxLoginsAssumption

-----------------------------------------------------------------------------
LEMMA TypeSplit == TypeOK <=> NumTypeOK /\ FlagTypeOK
  BY DEF TypeOK, NumTypeOK, FlagTypeOK

LEMMA InitIInv == Init => IInv
<1> SUFFICES ASSUME Init PROVE IInv
  OBVIOUS
<1>1. NumTypeOK
  BY DEF Init, NumTypeOK, Gen, NoToken
<1>2. FlagTypeOK
  BY DEF Init, FlagTypeOK, Phase
<1>3. EnvInv
  BY DEF Init, EnvInv, RefreshOnlyWhenStale, StaleBelowBound,
         ClearedMeansDead, NoToken
<1>4. CallerInv
  BY DEF Init, CallerInv, QueuedKnowsToken, ResumedKnowsToken,
         RefreshBeforeReturn
<1>5. QED
  BY <1>1, <1>2, <1>3, <1>4 DEF IInv

\* Each step preserves the invariant.  A macrotask runs only when no caller
\* is between a settled promise and its continuation, so the steps that
\* change the token never meet a caller in resumeOk or done; the callers'
\* own steps leave the token alone.
LEMMA NextIInv == IInv /\ [Next]_vars => IInv'
<1> SUFFICES ASSUME IInv, [Next]_vars PROVE IInv'
  OBVIOUS
<1>. USE DEF IInv, NumTypeOK, FlagTypeOK, EnvInv, CallerInv, Gen, NoToken,
             Phase, RefreshOnlyWhenStale, StaleBelowBound, ClearedMeansDead
<1>1. ASSUME NEW c \in Callers, GetAccessToken(c) PROVE IInv'
  <2>1. NoMicrotasks /\ pc[c] = "idle"
    BY <1>1 DEF GetAccessToken, Macrotask
  <2>2. NumTypeOK'
    BY <1>1 DEF GetAccessToken
  <2>3. FlagTypeOK'
    BY <1>1 DEF GetAccessToken
  <2>4. EnvInv'
    BY <1>1 DEF GetAccessToken
  <2>5. QueuedKnowsToken'
    BY <1>1 DEF GetAccessToken, QueuedKnowsToken
  <2>6. ResumedKnowsToken'
    BY <1>1 DEF GetAccessToken, ResumedKnowsToken
  <2>7. RefreshBeforeReturn'
    BY <1>1, <2>1 DEF GetAccessToken, NoMicrotasks, RefreshBeforeReturn
  <2>8. QED
    BY <2>2, <2>3, <2>4, <2>5, <2>6, <2>7
<1>2. ASSUME NEW c \in Callers, Resume(c) PROVE IInv'
  <2>1. NumTypeOK' /\ FlagTypeOK' /\ EnvInv'
    BY <1>2 DEF Resume, envVars
  <2>2. CallerInv'
    BY <1>2 DEF Resume, envVars, QueuedKnowsToken, ResumedKnowsToken,
       RefreshBeforeReturn
  <2>3. QED
    BY <2>1, <2>2
<1>3. ASSUME NEW c \in Callers, CatchLogin(c) PROVE IInv'
  <2>1. NumTypeOK' /\ FlagTypeOK' /\ EnvInv'
    BY <1>3 DEF CatchLogin
  <2>2. CallerInv'
    BY <1>3 DEF CatchLogin, QueuedKnowsToken, ResumedKnowsToken,
       RefreshBeforeReturn
  <2>3. QED
    BY <2>1, <2>2
<1>4. ASSUME NEW c \in Callers, Finish(c) PROVE IInv'
  <2>1. NumTypeOK' /\ FlagTypeOK' /\ EnvInv'
    BY <1>4 DEF Finish, envVars
  <2>2. CallerInv'
    BY <1>4 DEF Finish, envVars, QueuedKnowsToken, ResumedKnowsToken,
       RefreshBeforeReturn
  <2>3. QED
    BY <2>1, <2>2
<1>5. CASE RefreshDone
  <2>1. NoMicrotasks /\ refreshing /\ ~fresh
    BY <1>5 DEF RefreshDone, Macrotask
  <2>2. \A d \in Callers : pc[d] \notin {"resumeOk", "resumeErr", "done"}
    BY <2>1 DEF NoMicrotasks
  <2>3. UNCHANGED <<sessionAlive, unloaded, asked, askedFresh, got>>
        /\ refreshing' = FALSE
    BY <1>5 DEF RefreshDone
  <2>4. CASE sessionAlive /\ token' = token + 1 /\ fresh' = TRUE
             /\ pc' = [d \in Callers |-> IF pc[d] = "queued" THEN "resumeOk" ELSE pc[d]]
             /\ UNCHANGED logins
    <3>1. token # NoToken /\ token < MaxGen
      BY <2>1, <2>4
    <3>2. NumTypeOK' /\ FlagTypeOK' /\ EnvInv'
      <4>1. NumTypeOK'
        BY <2>3, <2>4, <3>1
      <4>2. FlagTypeOK'
        BY <2>3, <2>4, <3>1
      <4>3. EnvInv'
        BY <2>3, <2>4, <3>1
      <4>4. QED
        BY <4>1, <4>2, <4>3
    <3>3. QueuedKnowsToken'
      BY <2>4 DEF QueuedKnowsToken
    <3>4. ResumedKnowsToken'
      BY <2>2, <2>3, <2>4, <3>1 DEF QueuedKnowsToken, ResumedKnowsToken
    <3>5. RefreshBeforeReturn'
      BY <2>2, <2>3, <2>4 DEF RefreshBeforeReturn
    <3>6. QED
      BY <3>2, <3>3, <3>4, <3>5
  <2>5. CASE ~sessionAlive /\ token' = NoToken /\ fresh' = FALSE
             /\ logins' = ClearedLogins
             /\ pc' = [d \in Callers |-> IF pc[d] = "queued" THEN "resumeErr" ELSE pc[d]]
    <3>1. NumTypeOK' /\ FlagTypeOK' /\ EnvInv'
      <4>1. NumTypeOK'
        BY <2>3, <2>5 DEF ClearedLogins
      <4>2. FlagTypeOK'
        BY <2>3, <2>5 DEF ClearedLogins
      <4>3. EnvInv'
        BY <2>3, <2>5 DEF ClearedLogins
      <4>4. QED
        BY <4>1, <4>2, <4>3
    <3>2. CallerInv'
      BY <2>2, <2>3, <2>5 DEF QueuedKnowsToken, ResumedKnowsToken,
         RefreshBeforeReturn
    <3>3. QED
      BY <3>1, <3>2
  <2>6. CASE pc' = [d \in Callers |-> IF pc[d] = "queued" THEN "resumeErr" ELSE pc[d]]
             /\ UNCHANGED <<token, fresh, logins>>
    <3>1. NumTypeOK' /\ FlagTypeOK' /\ EnvInv'
      BY <2>1, <2>3, <2>6
    <3>2. CallerInv'
      BY <2>2, <2>3, <2>6 DEF QueuedKnowsToken, ResumedKnowsToken,
         RefreshBeforeReturn
    <3>3. QED
      BY <3>1, <3>2
  <2>7. QED
    BY <1>5, <2>4, <2>5, <2>6 DEF RefreshDone
<1>6. CASE Tick
  <2>1. NoMicrotasks /\ ~refreshing /\ token \in 1..(MaxGen - 1)
    BY <1>6 DEF Tick, Macrotask
  <2>2. NumTypeOK' /\ FlagTypeOK' /\ EnvInv'
    <3>1. NumTypeOK'
      BY <1>6, <2>1 DEF Tick, callerVars
    <3>2. FlagTypeOK'
      BY <1>6, <2>1 DEF Tick, callerVars
    <3>3. EnvInv'
      BY <1>6, <2>1 DEF Tick, callerVars
    <3>4. QED
      BY <3>1, <3>2, <3>3
  <2>3. CallerInv'
    BY <1>6, <2>1 DEF Tick, callerVars, NoMicrotasks, QueuedKnowsToken,
       ResumedKnowsToken, RefreshBeforeReturn
  <2>4. QED
    BY <2>2, <2>3
<1>7. CASE SessionEnds
  <2>1. NoMicrotasks
    BY <1>7 DEF SessionEnds, Macrotask
  <2>2. NumTypeOK' /\ FlagTypeOK' /\ EnvInv'
    <3>1. NumTypeOK'
      BY <1>7 DEF SessionEnds, callerVars, ClearedLogins
    <3>2. FlagTypeOK'
      BY <1>7 DEF SessionEnds, callerVars, ClearedLogins
    <3>3. EnvInv'
      BY <1>7 DEF SessionEnds, callerVars, ClearedLogins
    <3>4. QED
      BY <3>1, <3>2, <3>3
  <2>3. CallerInv'
    BY <1>7, <2>1 DEF SessionEnds, callerVars, NoMicrotasks, QueuedKnowsToken,
       ResumedKnowsToken, RefreshBeforeReturn
  <2>4. QED
    BY <2>2, <2>3
<1>8. CASE Unload
  BY <1>8 DEF Unload, callerVars, QueuedKnowsToken, ResumedKnowsToken,
     RefreshBeforeReturn
<1>9. CASE Gone \/ UNCHANGED vars
  BY <1>9 DEF Gone, vars, envVars, callerVars, QueuedKnowsToken,
     ResumedKnowsToken, RefreshBeforeReturn
<1>10. QED
  BY <1>1, <1>2, <1>3, <1>4, <1>5, <1>6, <1>7, <1>8, <1>9
  DEF Next, TokenStep, Environment

-----------------------------------------------------------------------------
\* getAccessToken's state stays well-typed: in particular a successful
\* refresh never produces a generation beyond MaxGen.
THEOREM TypeCorrect == Spec => []TypeOK
  <1>1. IInv => TypeOK
    BY TypeSplit DEF IInv
  <1>. QED
    BY InitIInv, NextIInv, <1>1, PTL DEF Spec

\* A caller that returns from a successful updateToken(5) carries a token at
\* least as new as the one it asked with, and newer when that one was stale
\* (admin-client.ts 29-36), for any number of concurrent callers.
THEOREM RefreshBeforeReturnHolds == Spec => []RefreshBeforeReturn
  <1>1. IInv => RefreshBeforeReturn
    BY DEF IInv, CallerInv
  <1>. QED
    BY InitIInv, NextIInv, <1>1, PTL DEF Spec

-----------------------------------------------------------------------------
(* getAccessToken implements the abstract token service (TokenService).    *)

\* A caller whose updateToken resolved finds the token still valid: only
\* microtasks ran since the refresh gave it, or since it was found fresh.
ResumedSeesFresh == \A c \in Callers : pc[c] = "resumeOk" => fresh

\* The abstract status of the callers under the refinement mapping.
AbsStatus == [c \in Callers |-> CallStatus(pc[c])]

LEMMA InitResumedSeesFresh == Init => ResumedSeesFresh
  BY DEF Init, ResumedSeesFresh

LEMMA NextResumedSeesFresh ==
    IInv /\ ResumedSeesFresh /\ [Next]_vars => ResumedSeesFresh'
<1> SUFFICES ASSUME IInv, ResumedSeesFresh, [Next]_vars
             PROVE ResumedSeesFresh'
  OBVIOUS
<1>. USE DEF IInv, FlagTypeOK, ResumedSeesFresh
<1>1. ASSUME NEW c \in Callers, GetAccessToken(c) PROVE ResumedSeesFresh'
  BY <1>1 DEF GetAccessToken
<1>2. ASSUME NEW c \in Callers, TokenStep(c) \/ Finish(c) PROVE ResumedSeesFresh'
  BY <1>2 DEF TokenStep, Resume, CatchLogin, Finish, envVars
<1>3. CASE RefreshDone
  BY <1>3 DEF RefreshDone, Macrotask, NoMicrotasks
<1>4. CASE Tick \/ SessionEnds
  BY <1>4 DEF Tick, SessionEnds, Macrotask, NoMicrotasks, callerVars
<1>5. CASE Unload \/ Gone \/ UNCHANGED vars
  BY <1>5 DEF Unload, Gone, vars, envVars, callerVars
<1>6. QED
  BY <1>1, <1>2, <1>3, <1>4, <1>5 DEF Next, Environment

\* Re-labelling the pending callers of a settled refresh keeps each one
\* "calling".
LEMMA SettledStatus ==
    ASSUME FlagTypeOK, NEW x \in {"resumeOk", "resumeErr"},
           pc' = [d \in Callers |-> IF pc[d] = "queued" THEN x ELSE pc[d]]
    PROVE  AbsStatus' = AbsStatus
  BY DEF FlagTypeOK, AbsStatus, CallStatus

\* Every step of getAccessToken and of its environment is a step of the
\* token service or leaves its state unchanged.
LEMMA StepRefines ==
    IInv /\ ResumedSeesFresh /\ [Next]_vars => [TS!TSNext]_TS!tsVars
<1> SUFFICES ASSUME IInv, ResumedSeesFresh, [Next]_vars
             PROVE [TS!TSNext]_TS!tsVars
  OBVIOUS
<1>. USE DEF IInv, FlagTypeOK, NumTypeOK
<1>1. ASSUME NEW c \in Callers, GetAccessToken(c) PROVE TS!Call(c)
  BY <1>1 DEF GetAccessToken, Macrotask, TS!Call, CallStatus
<1>2. ASSUME NEW c \in Callers, Resume(c) PROVE TS!Return(c)
  BY <1>2 DEF Resume, envVars, ResumedSeesFresh, CallerInv,
     ResumedKnowsToken, TS!Return, CallStatus, NoToken
<1>3. ASSUME NEW c \in Callers, CatchLogin(c) PROVE TS!Redirect(c)
  BY <1>3 DEF CatchLogin, TS!Redirect, CallStatus
<1>4. ASSUME NEW c \in Callers, Finish(c) PROVE TS!Release(c)
  BY <1>4 DEF Finish, envVars, TS!Release, CallStatus, NoToken
<1>5. CASE RefreshDone
  <2>1. ~unloaded /\ UNCHANGED <<unloaded, got>>
    BY <1>5 DEF RefreshDone, Macrotask
  <2>2. CASE sessionAlive /\ token' = token + 1 /\ fresh' = TRUE
             /\ pc' = [d \in Callers |-> IF pc[d] = "queued" THEN "resumeOk" ELSE pc[d]]
             /\ UNCHANGED logins
    <3>1. token # NoToken
      BY <2>2 DEF EnvInv, ClearedMeansDead
    <3>2. AbsStatus' = AbsStatus
      BY <2>2, SettledStatus
    <3>. QED
      BY <2>1, <2>2, <3>1, <3>2 DEF TS!TSNext, TS!Renew, AbsStatus, NoToken
  <2>3. CASE ~sessionAlive /\ token' = NoToken /\ fresh' = FALSE
             /\ logins' = ClearedLogins
             /\ pc' = [d \in Callers |-> IF pc[d] = "queued" THEN "resumeErr" ELSE pc[d]]
    <3>1. AbsStatus' = AbsStatus
      BY <2>3, SettledStatus
    <3>. QED
      BY <2>1, <2>3, <3>1 DEF TS!TSNext, TS!Clear, AbsStatus, ClearedLogins, NoToken
  <2>4. CASE pc' = [d \in Callers |-> IF pc[d] = "queued" THEN "resumeErr" ELSE pc[d]]
             /\ UNCHANGED <<token, fresh, logins>>
    <3>1. AbsStatus' = AbsStatus
      BY <2>4, SettledStatus
    <3>. QED
      BY <2>1, <2>4, <3>1 DEF TS!tsVars, AbsStatus
  <2>5. QED
    BY <1>5, <2>2, <2>3, <2>4 DEF RefreshDone
<1>6. CASE Tick
  BY <1>6 DEF Tick, Macrotask, callerVars, TS!TSNext, TS!Expire
<1>7. CASE SessionEnds
  <2>1. CASE token' = NoToken /\ fresh' = FALSE /\ logins' = ClearedLogins
    BY <1>7, <2>1 DEF SessionEnds, Macrotask, callerVars, TS!TSNext, TS!Clear,
       ClearedLogins, NoToken
  <2>2. CASE UNCHANGED <<token, fresh, logins>>
    BY <1>7, <2>2 DEF SessionEnds, callerVars, TS!tsVars
  <2>3. QED
    BY <1>7, <2>1, <2>2 DEF SessionEnds
<1>8. CASE Unload
  BY <1>8 DEF Unload, Macrotask, callerVars, TS!TSNext, TS!Leave
<1>9. CASE Gone \/ UNCHANGED vars
  BY <1>9 DEF Gone, vars, envVars, callerVars, TS!tsVars
<1>10. QED
  BY <1>1, <1>2, <1>3, <1>4, <1>5, <1>6, <1>7, <1>8, <1>9
  DEF Next, TokenStep, Environment, TS!TSNext

\* getAccessToken implements the atomic token service: every call that did
\* not log in returns the token the adapter holds at that moment, defined
\* and valid; logins come only from a failed call or a cleared token
\* (admin-client.ts 29-37, PassportContext.tsx 57), for any callers.
THEOREM RefinesTokenService == Spec => TS!TSSafety
  <1>1. Init => TS!TSInit
    BY DEF Init, TS!TSInit, CallStatus, NoToken
  <1>2. IInv /\ ResumedSeesFresh /\ [Next]_vars => (IInv /\ ResumedSeesFresh)'
    BY NextIInv, NextResumedSeesFresh
  <1>3. Init => IInv /\ ResumedSeesFresh
    BY InitIInv, InitResumedSeesFresh
  <1>. QED
    BY <1>1, <1>2, <1>3, StepRefines, PTL DEF Spec, TS!TSSafety
=============================================================================
