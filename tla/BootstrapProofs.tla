-------------------------- MODULE BootstrapProofs --------------------------
(***************************************************************************)
(* Proof that start-up shows the error page only for a failed login, for   *)
(* a development build (the mount effect runs twice) as for a production   *)
(* one, and for every bound of the token provider it starts.               *)
(*                                                                         *)
(* ErrorPageMeansLoginFailed is not inductive alone: a second init would   *)
(* be refused and set "error" without a failed login.  What excludes it is *)
(* that the calledOnce ref is set by the first run of the effect, so that  *)
(* every init promise but the first stays uncreated.                       *)
(***************************************************************************)
EXTENDS Bootstrap, TLAPS

\* Only the first passport.init is ever called.
OnlyFirstInit == \A i \in CallIds : i # 1 => calls[i] = "none"

\* calledOnce is set exactly when the effect has run, and it is clear only
\* while the first init is still to be called.
GuardSet ==
    /\ calledOnce <=> providerEffects # 0
    /\ ~calledOnce => calls[1] = "none"

\* The part of BootTypeOK the argument reads.
GuardTypeOK ==
    /\ providerEffects \in 0..EffectRuns
    /\ calledOnce \in BOOLEAN
    /\ calls \in [CallIds -> {"none", "pending", "resolved", "failed",
                              "redirect", "refused"}]
    /\ error \in BOOLEAN
    /\ loginFailed \in BOOLEAN

\* ErrorPageMeansLoginFailed with ProviderView read off: the error page
\* shows exactly when "error" is set.
ErrorOnlyFromFailedLogin == error => loginFailed

BInv == GuardTypeOK /\ OnlyFirstInit /\ GuardSet /\ ErrorOnlyFromFailedLogin

LEMMA ErrorPageIsError ==
    ASSUME error \in BOOLEAN
    PROVE  ErrorPageMeansLoginFailed <=> ErrorOnlyFromFailedLogin
  BY DEF ErrorPageMeansLoginFailed, ErrorOnlyFromFailedLogin, ProviderView

LEMMA EffectRunsType == EffectRuns \in {1, 2} /\ 1 \in CallIds
  BY DevModeAssumption DEF EffectRuns, CallIds

LEMMA InitBInv == BootInit => BInv
<1> SUFFICES ASSUME BootInit PROVE BInv
  OBVIOUS
<1>1. GuardTypeOK
  <2>1. providerEffects \in 0..EffectRuns
    BY EffectRunsType DEF BootInit
  <2>2. calls \in [CallIds -> {"none", "pending", "resolved", "failed",
                               "redirect", "refused"}]
    BY DEF BootInit
  <2>. QED
    BY <2>1, <2>2 DEF BootInit, GuardTypeOK
<1>2. OnlyFirstInit /\ GuardSet /\ ErrorOnlyFromFailedLogin
  BY EffectRunsType DEF BootInit, OnlyFirstInit, GuardSet, ErrorOnlyFromFailedLogin
<1>. QED
  BY <1>1, <1>2 DEF BInv

\* A step of the token provider leaves start-up's state alone.
LEMMA TokenStepsKeepBInv ==
    ASSUME BInv, UNCHANGED bootVars PROVE BInv'
  BY DEF bootVars, BInv, GuardTypeOK, OnlyFirstInit, GuardSet,
     ErrorOnlyFromFailedLogin

LEMMA NextBInv == BInv /\ [BootNext]_allVars => BInv'
<1> SUFFICES ASSUME BInv, [BootNext]_allVars PROVE BInv'
  OBVIOUS
<1>0. EffectRuns \in {1, 2} /\ 1 \in CallIds
  BY EffectRunsType
<1>1. CASE ProviderEffect
  <2>1. CASE calledOnce
    BY <1>0, <1>1, <2>1 DEF ProviderEffect, BInv, GuardTypeOK, OnlyFirstInit,
       GuardSet, ErrorOnlyFromFailedLogin
  <2>2. CASE ~calledOnce
    <3>1. providerEffects = 0 /\ calls[1] = "none"
      BY <2>2 DEF BInv, GuardSet, GuardTypeOK
    <3>2. calls' = [calls EXCEPT ![1] = "pending"] /\ calledOnce' = TRUE
          /\ providerEffects' = 1
      BY <1>1, <2>2, <3>1 DEF ProviderEffect
    <3>3. UNCHANGED <<error, loginFailed, init>>
      BY <1>1 DEF ProviderEffect
    <3>. QED
      BY <1>0, <3>1, <3>2, <3>3 DEF CallIds, BInv, GuardTypeOK, OnlyFirstInit,
         GuardSet, ErrorOnlyFromFailedLogin
  <2>3. QED
    BY <2>1, <2>2
<1>2. ASSUME NEW i \in CallIds, InitSettles(i) PROVE BInv'
  <2>1. i = 1 /\ calls[1] = "pending"
    BY <1>2 DEF InitSettles, BInv, OnlyFirstInit
  <2>2. PICK o \in {"resolved", "failed", "redirect"} :
          /\ calls' = [calls EXCEPT ![1] = o]
          /\ init' = (init \/ o = "resolved")
          /\ error' = (error \/ o \in {"failed", "refused"})
          /\ loginFailed' = (loginFailed \/ o = "failed")
    BY <1>2, <2>1 DEF InitSettles, InitAnswers
  <2>3. UNCHANGED <<providerEffects, calledOnce>>
    BY <1>2 DEF InitSettles
  <2>. QED
    BY <1>0, <2>1, <2>2, <2>3 DEF BInv, GuardTypeOK, OnlyFirstInit, GuardSet,
       ErrorOnlyFromFailedLogin
<1>3. CASE AppEffect \/ ClientResolves
  BY <1>3 DEF AppEffect, ClientResolves, BInv, GuardTypeOK, OnlyFirstInit,
     GuardSet, ErrorOnlyFromFailedLogin
<1>4. CASE UNCHANGED bootVars
  BY <1>4, TokenStepsKeepBInv
<1>5. CASE UNCHANGED allVars
  BY <1>5, TokenStepsKeepBInv DEF allVars
<1>6. QED
  BY <1>1, <1>2, <1>3, <1>4, <1>5 DEF BootNext

\* PassportContext.tsx 62-85: under React's double run of the mount effect
\* the calledOnce guard keeps the adapter from being initialised twice, so
\* the console shows its error page only when the login check itself
\* failed, for any build and any bounds of the token provider.
THEOREM ErrorPageOnlyOnFailedLogin == BootSpec => []ErrorPageMeansLoginFailed
  <1>1. BInv => ErrorPageMeansLoginFailed
    BY ErrorPageIsError DEF BInv, GuardTypeOK
  <1>. QED
    BY InitBInv, NextBInv, <1>1, PTL DEF BootSpec
=============================================================================
