---------------------------- MODULE MintUiProofs ----------------------------
(***************************************************************************)
(* What the mint page keeps true for any number of mints and verifiers.    *)
(*                                                                         *)
(* The invariants of MintUi rest on which executions may overlap: the main *)
(* function ends before the mint form is shown, and a mint that is under   *)
(* way disables the button.  A logout is final because it takes away the   *)
(* verifier as well: the code that may still be in the URL is never sent   *)
(* with the verifier that it needs.                                        *)
(***************************************************************************)
EXTENDS MintUi, TLAPS

(* The one-shot flag counts the automatic logins.                          *)
FlagCounts == silent = IF tried THEN 1 ELSE 0

Overlap ==
  /\ run[Boot] \in {"idle", "start", "exchanging", "refreshing"}
  /\ \A m \in Mints : run[m] \in {"idle", "refreshing", "posting"}
  /\ \A m, n \in Mints : run[m] # "idle" /\ run[n] # "idle" => m = n
  /\ run[Boot] # "idle" => \A m \in Mints : run[m] = "idle"

Sections ==
  /\ view = "mint" => tokens # None /\ run[Boot] = "idle" /\ away = None
  /\ away # None => run[Boot] = "idle"

Forgotten ==
  out = "clean" =>
    /\ tokens = None
    /\ away = None
    /\ \A x \in Runs : run[x] # "refreshing"
    /\ url # None => verifier # url
    /\ run[Boot] = "exchanging" => presented # url

IInv == TypeOK /\ FlagCounts /\ Overlap /\ Sections /\ Forgotten

-----------------------------------------------------------------------------
LEMMA InitHolds == Init => IInv
<1> SUFFICES ASSUME Init PROVE IInv
  OBVIOUS
<1> USE DEF Init, Idle, Runs
<1>1. TypeOK
  BY BootAssumption DEF TypeOK
<1>2. FlagCounts /\ Overlap /\ Sections /\ Forgotten
  BY BootAssumption DEF FlagCounts, Overlap, Sections, Forgotten
<1> QED  BY <1>1, <1>2 DEF IInv

(* A new verifier fits no code that is around.                             *)
LEMMA NewVerifier ==
  ASSUME TypeOK, StartLogin
  PROVE  /\ verifier' \in Verifiers /\ digests' \subseteq Verifiers
         /\ verifier' # url
BY DEF TypeOK, StartLogin, InUse

LEMMA TokenIsSome == \A t \in Token : t # None
BY NoneAssumption

(* Steps that lead to Keycloak and back.                                   *)
LEMMA LoginKeeps == IInv /\ Login => IInv'
<1> SUFFICES ASSUME IInv, Login PROVE IInv'
  OBVIOUS
<1> USE DEF IInv, Login
<1>1. TypeOK'
  BY NewVerifier DEF TypeOK
<1>2. FlagCounts' /\ Overlap' /\ Sections'
  BY DEF FlagCounts, Overlap, Sections
<1>3. Forgotten'
  BY NewVerifier DEF Forgotten
<1> QED  BY <1>1, <1>2, <1>3

LEMMA RedirectKeeps == \A n \in Verifiers : IInv /\ Redirect(n) => IInv'
<1> SUFFICES ASSUME NEW n \in Verifiers, IInv, Redirect(n) PROVE IInv'
  OBVIOUS
<1> USE DEF IInv, Redirect, storage
<1>1. TypeOK'
  BY DEF TypeOK
<1>2. FlagCounts' /\ Overlap' /\ Sections' /\ Forgotten'
  BY DEF FlagCounts, Overlap, Sections, Forgotten
<1> QED  BY <1>1, <1>2

LEMMA LeaveKeeps == IInv /\ Leave => IInv'
<1> SUFFICES ASSUME IInv, Leave PROVE IInv'
  OBVIOUS
<1> USE DEF IInv, Leave, Unload, Idle, Runs
<1>1. TypeOK'
  BY BootAssumption DEF TypeOK
<1>2. FlagCounts' /\ Overlap' /\ Sections' /\ Forgotten'
  BY DEF FlagCounts, Overlap, Sections, Forgotten
<1> QED  BY <1>1, <1>2

(* A loaded page takes nothing from the one before it.                     *)
LEMMA LoadKeeps ==
  ASSUME IInv, NEW code \in Verifiers \cup {None}, NEW embed \in BOOLEAN,
         LoadPage(code, embed),
         out = "clean" => (code # None => verifier # code)
  PROVE  IInv'
<1> USE DEF IInv, LoadPage, Unload, Idle, Runs
<1>1. TypeOK'
  BY BootAssumption DEF TypeOK
<1>2. FlagCounts' /\ Overlap' /\ Sections'
  BY BootAssumption DEF FlagCounts, Overlap, Sections
<1>3. Forgotten'
  BY BootAssumption DEF Forgotten
<1> QED  BY <1>1, <1>2, <1>3

LEMMA LoadsKeep == IInv /\ (Loads \/ Return) => IInv'
<1>1. CASE IInv /\ Reload
  BY <1>1, LoadKeeps DEF Reload, IInv, TypeOK, Forgotten
<1>2. CASE IInv /\ Open
  BY <1>2, LoadKeeps DEF Open
<1>3. CASE IInv /\ Return
  BY <1>3, LoadKeeps DEF Return, IInv, TypeOK, Forgotten
<1> QED  BY <1>1, <1>2, <1>3 DEF Loads

-----------------------------------------------------------------------------
(* How an execution ends or goes on, given what has become of the storage. *)

(* Nothing else runs beside the main function.                             *)
LEMMA BootAlone ==
  ASSUME IInv, run[Boot] # "idle"
  PROVE  ~disabled /\ view = "login" /\ away = None
BY DEF IInv, TypeOK, Overlap, Sections

LEMMA BootSignedInKeeps ==
  ASSUME IInv, run[Boot] # "idle", BootSignedIn,
         tokens' \in Token, verifier' = verifier, embedded' = embedded,
         url' \in {url, None}, presented' = presented,
         leaving' = leaving, away' = away, out' = out, out # "clean"
  PROVE  IInv'
<1> USE DEF IInv, BootSignedIn, Ends, Runs
<1>1. TypeOK'
  BY BootAssumption DEF TypeOK
<1>2. FlagCounts'
  BY DEF FlagCounts
<1>3. Overlap'
  BY BootAssumption DEF Overlap, TypeOK
<1>4. Sections'
  BY BootAlone, TokenIsSome DEF Sections, TypeOK
<1>5. Forgotten'
  BY DEF Forgotten
<1> QED  BY <1>1, <1>2, <1>3, <1>4, <1>5

LEMMA BootSignedOutKeeps ==
  ASSUME IInv, run[Boot] # "idle", NEW kept \in {verifier, None}, BootSignedOut(kept),
         tokens' = None, embedded' = embedded, url' = url, presented' = presented,
         leaving' = leaving, away' = away, out' = out
  PROVE  IInv'
<1> USE DEF IInv, BootSignedOut, Ends, Runs
<1>1. TypeOK'
  <2>1. CASE embedded /\ ~tried
    BY <2>1, BootAssumption, NewVerifier DEF TypeOK, FlagCounts
  <2>2. CASE ~(embedded /\ ~tried)
    BY <2>2, BootAssumption DEF TypeOK
  <2> QED  BY <2>1, <2>2
<1>2. FlagCounts'
  BY DEF FlagCounts
<1>3. Overlap'
  BY BootAssumption DEF Overlap, TypeOK
<1>4. Sections'
  BY BootAlone DEF Sections, TypeOK
<1>5. Forgotten'
  BY NewVerifier, NoneAssumption DEF Forgotten, TypeOK
<1> QED  BY <1>1, <1>2, <1>3, <1>4, <1>5

(* A mint goes on alone as well.                                           *)
MintMayRun(m) ==
  /\ run[Boot] = "idle"
  /\ \A n \in Mints : n # m => run[n] = "idle"

LEMMA MintPostsKeeps ==
  ASSUME IInv, NEW m \in Mints, MintMayRun(m), MintPosts(m),
         tokens' \in Token, verifier' = verifier, embedded' = embedded, url' = url,
         presented' = presented, leaving' = leaving, away' = away, out' = out,
         out # "clean"
  PROVE  IInv'
<1> USE DEF IInv, MintMayRun, MintPosts, Runs
<1>1. TypeOK'
  BY BootAssumption DEF TypeOK
<1>2. FlagCounts'
  BY DEF FlagCounts
<1>3. Overlap'
  BY BootAssumption DEF Overlap, TypeOK
<1>4. Sections'
  BY BootAssumption, TokenIsSome DEF Sections, TypeOK
<1>5. Forgotten'
  BY DEF Forgotten
<1> QED  BY <1>1, <1>2, <1>3, <1>4, <1>5

LEMMA MintGivesUpKeeps ==
  ASSUME IInv, NEW m \in Mints, MintMayRun(m), NEW kept \in {verifier, None},
         MintGivesUp(m, kept),
         tokens' = None, embedded' = embedded, url' = url, presented' = presented,
         leaving' = leaving, away' = away, out' = out
  PROVE  IInv'
<1> USE DEF IInv, MintMayRun, MintGivesUp, Ends, Runs
<1>1. TypeOK'
  BY BootAssumption DEF TypeOK
<1>2. FlagCounts'
  BY DEF FlagCounts
<1>3. Overlap'
  BY BootAssumption DEF Overlap, TypeOK
<1>4. Sections'
  BY BootAssumption DEF Sections, TypeOK
<1>5. Forgotten'
  BY BootAssumption, NoneAssumption DEF Forgotten, TypeOK
<1> QED  BY <1>1, <1>2, <1>3, <1>4, <1>5

-----------------------------------------------------------------------------
(* The steps of freshToken and its callers.                                *)

(* The frame of every caller of freshToken.                                *)
CallerFrame ==
  UNCHANGED <<embedded, url, leaving, away, out>>

LEMMA BootFreshTokenKeeps ==
  ASSUME IInv, run[Boot] # "idle", FreshToken(Boot), CallerFrame,
         presented' = presented
  PROVE  IInv'
<1> USE DEF FreshToken, CallerFrame, SignedIn, SignedOut
<1>1. CASE tokens = None /\ BootSignedOut(verifier) /\ UNCHANGED tokens
  BY <1>1, BootSignedOutKeeps
<1>2. CASE tokens # None /\ BootSignedIn /\ UNCHANGED <<tokens, verifier>>
  <2>1. out # "clean" /\ tokens' \in Token
    BY <1>2 DEF IInv, TypeOK, Forgotten
  <2> QED  BY <1>2, <2>1, BootSignedInKeeps
<1>3. CASE BootSignedOut(None) /\ tokens' = None
  BY <1>3, BootSignedOutKeeps
<1>4. CASE /\ tokens # None
           /\ run' = [run EXCEPT ![Boot] = "refreshing"]
           /\ disabled' = (disabled \/ Boot # Boot)
           /\ UNCHANGED <<tokens, verifier, tried, view, digests, silent>>
  <2> USE <1>4 DEF IInv
  <2>1. TypeOK'
    BY BootAssumption DEF TypeOK, Runs
  <2>2. FlagCounts'
    BY DEF FlagCounts
  <2>3. Overlap'
    BY BootAssumption DEF Overlap, TypeOK, Runs
  <2>4. Sections' /\ Forgotten'
    BY BootAlone DEF Sections, Forgotten
  <2> QED  BY <2>1, <2>2, <2>3, <2>4
<1> QED  BY <1>1, <1>2, <1>3, <1>4

LEMMA MintStartsKeeps == \A m \in Mints : IInv /\ MintStarts(m) => IInv'
<1> SUFFICES ASSUME NEW m \in Mints, IInv, MintStarts(m) PROVE IInv'
  OBVIOUS
<1> m # Boot
  BY BootAssumption
<1>1. MintMayRun(m) /\ out # "clean" /\ away = None
  BY DEF MintMayRun, MintStarts, Ready, IInv, TypeOK, Sections, Forgotten
<1>2. FreshToken(m) /\ CallerFrame /\ presented' = presented
  BY DEF MintStarts, CallerFrame
<1> USE DEF FreshToken, CallerFrame, SignedIn, SignedOut
<1>3. CASE tokens = None /\ MintGivesUp(m, verifier) /\ UNCHANGED tokens
  BY <1>1, <1>2, <1>3, MintGivesUpKeeps
<1>4. CASE tokens # None /\ MintPosts(m) /\ UNCHANGED <<tokens, verifier>>
  <2>1. tokens' \in Token
    BY <1>4 DEF IInv, TypeOK
  <2> QED  BY <1>1, <1>2, <1>4, <2>1, MintPostsKeeps
<1>5. CASE MintGivesUp(m, None) /\ tokens' = None
  BY <1>1, <1>2, <1>5, MintGivesUpKeeps
<1>6. CASE /\ tokens # None
           /\ run' = [run EXCEPT ![m] = "refreshing"]
           /\ disabled' = (disabled \/ m # Boot)
           /\ UNCHANGED <<tokens, verifier, tried, view, digests, silent>>
  <2> USE <1>1, <1>2, <1>6 DEF IInv
  <2>1. TypeOK'
    BY BootAssumption DEF TypeOK, Runs
  <2>2. FlagCounts'
    BY DEF FlagCounts
  <2>3. Overlap'
    BY BootAssumption DEF Overlap, TypeOK, Runs, MintMayRun
  <2>4. Sections' /\ Forgotten'
    BY BootAssumption DEF Sections, Forgotten, MintMayRun, TypeOK, Runs
  <2> QED  BY <2>1, <2>2, <2>3, <2>4
<1> QED  BY <1>2, <1>3, <1>4, <1>5, <1>6

LEMMA AnsweredKeeps == \A x \in Runs : IInv /\ Answered(x) => IInv'
<1> SUFFICES ASSUME NEW x \in Runs, IInv, Answered(x) PROVE IInv'
  OBVIOUS
<1>1. run[x] = "refreshing" /\ out # "clean"
  BY DEF Answered, Refreshed, RefreshRefused, RefreshBreaks, IInv, Forgotten
<1>2. CASE x = Boot /\ Refreshed(x)
  BY <1>1, <1>2, BootSignedInKeeps DEF Refreshed, SignedIn
<1>3. CASE x = Boot /\ RefreshRefused(x)
  BY <1>1, <1>3, BootSignedOutKeeps DEF RefreshRefused, SignedOut
<1>4. x # Boot => x \in Mints /\ MintMayRun(x)
  BY <1>1 DEF MintMayRun, Runs, IInv, Overlap
<1>5. CASE x # Boot /\ Refreshed(x)
  BY <1>1, <1>4, <1>5, MintPostsKeeps DEF Refreshed, SignedIn
<1>6. CASE x # Boot /\ RefreshRefused(x)
  BY <1>1, <1>4, <1>6, MintGivesUpKeeps DEF RefreshRefused, SignedOut
<1>7. CASE RefreshBreaks(x)
  <2> USE <1>1, <1>7 DEF RefreshBreaks, Ends, IInv, storage, redirect
  <2>1. TypeOK'
    <3>1. disabled' = (\E m \in Mints : run'[m] # "idle")
      <4>1. run \in [Runs -> {"idle", "start", "exchanging", "refreshing", "posting"}]
        BY DEF TypeOK
      <4>2. CASE x = Boot
        <5>1. \A m \in Mints : run'[m] = run[m]
          BY <4>1, <4>2, BootAssumption DEF Runs
        <5> QED  BY <4>2, <5>1 DEF TypeOK
      <4>3. CASE x # Boot
        <5>1. \A m \in Mints : run'[m] = "idle"
          BY <4>1, <4>3, <1>4 DEF Runs, MintMayRun
        <5> QED  BY <4>3, <5>1
      <4> QED  BY <4>2, <4>3
    <3>2. run' \in [Runs -> {"idle", "start", "exchanging", "refreshing", "posting"}]
      BY DEF TypeOK
    <3> QED  BY <3>1, <3>2 DEF TypeOK
  <2>2. FlagCounts' /\ Forgotten'
    BY DEF FlagCounts, Forgotten
  <2>3. Overlap'
    BY BootAssumption DEF Overlap, TypeOK, Runs
  <2>4. Sections'
    BY BootAssumption DEF Sections, TypeOK, Runs
  <2> QED  BY <2>1, <2>2, <2>3, <2>4
<1> QED  BY <1>2, <1>3, <1>5, <1>6, <1>7 DEF Answered

LEMMA BootProceedsKeeps == IInv /\ BootProceeds => IInv'
<1> SUFFICES ASSUME IInv, BootProceeds PROVE IInv'
  OBVIOUS
<1>1. run[Boot] # "idle"
  BY DEF BootProceeds, BootStarts, Exchanged, ExchangeRefused, ExchangeBreaks
<1>2. CASE BootStarts /\ FreshToken(Boot) /\ UNCHANGED presented
  BY <1>1, <1>2, BootFreshTokenKeeps DEF BootStarts, CallerFrame
<1>3. CASE /\ BootStarts
           /\ url # None /\ verifier # None
           /\ presented' = verifier
           /\ run' = [run EXCEPT ![Boot] = "exchanging"]
           /\ UNCHANGED <<tokens, verifier, tried, disabled, view, digests, silent>>
  <2> USE <1>1, <1>3 DEF BootStarts, IInv
  <2>1. TypeOK'
    BY BootAssumption DEF TypeOK, Runs
  <2>2. FlagCounts' /\ Overlap'
    BY BootAssumption DEF FlagCounts, Overlap, TypeOK, Runs
  <2>3. Sections' /\ Forgotten'
    BY BootAlone, BootAssumption DEF Sections, Forgotten, TypeOK, Runs
  <2> QED  BY <2>1, <2>2, <2>3
<1>4. CASE Exchanged
  <2>1. out # "clean"
    BY <1>4 DEF Exchanged, IInv, Forgotten
  <2> QED  BY <1>1, <1>4, <2>1, BootSignedInKeeps DEF Exchanged
<1>5. CASE ExchangeRefused
  BY <1>1, <1>5, BootFreshTokenKeeps DEF ExchangeRefused, CallerFrame
<1>6. CASE ExchangeBreaks
  <2> USE <1>6 DEF ExchangeBreaks, Ends, IInv, storage, redirect
  <2>1. TypeOK'
    BY BootAssumption DEF TypeOK, Runs
  <2>2. FlagCounts' /\ Overlap'
    BY BootAssumption DEF FlagCounts, Overlap, TypeOK, Runs
  <2>3. Sections' /\ Forgotten'
    BY BootAlone, BootAssumption DEF Sections, Forgotten, TypeOK, Runs
  <2> QED  BY <2>1, <2>2, <2>3
<1> QED  BY <1>2, <1>3, <1>4, <1>5, <1>6 DEF BootProceeds, BootStarts

-----------------------------------------------------------------------------
(* The rest.                                                               *)
LEMMA MintEndsKeeps == \A m \in Mints : IInv /\ MintEnds(m) => IInv'
<1> SUFFICES ASSUME NEW m \in Mints, IInv, MintEnds(m) PROVE IInv'
  OBVIOUS
<1> USE DEF MintEnds, Ends, IInv, storage, redirect
<1>1. TypeOK'
  <2>1. \A n \in Mints : run'[n] = "idle"
    BY BootAssumption DEF TypeOK, Runs, Overlap
  <2>2. disabled' = (\E n \in Mints : run'[n] # "idle")
    BY <2>1
  <2> QED  BY <2>2 DEF TypeOK, Runs
<1>2. FlagCounts' /\ Overlap'
  BY BootAssumption DEF FlagCounts, Overlap, TypeOK, Runs
<1>3. Sections' /\ Forgotten'
  BY BootAssumption DEF Sections, Forgotten, TypeOK, Runs
<1> QED  BY <1>1, <1>2, <1>3

LEMMA LogoutKeeps == IInv /\ Logout => IInv'
<1> SUFFICES ASSUME IInv, Logout PROVE IInv'
  OBVIOUS
<1> USE DEF Logout, IInv, redirect
<1>1. TypeOK'
  BY DEF TypeOK
<1>2. FlagCounts' /\ Overlap' /\ Sections'
  BY DEF FlagCounts, Overlap, Sections
<1>3. Forgotten'
  BY NoneAssumption DEF Forgotten, Sections, TypeOK
<1> QED  BY <1>1, <1>2, <1>3

LEMMA AgeKeeps == IInv /\ Age => IInv'
<1> SUFFICES ASSUME IInv, Age PROVE IInv'
  OBVIOUS
<1> USE DEF Age, IInv, redirect
<1>1. TypeOK'
  BY DEF TypeOK, Token
<1>2. FlagCounts' /\ Overlap' /\ Forgotten'
  BY DEF FlagCounts, Overlap, Forgotten
<1>3. Sections'
  BY <1>1, TokenIsSome DEF Sections, TypeOK, Token
<1> QED  BY <1>1, <1>2, <1>3

LEMMA StepKeeps == IInv /\ [Next]_vars => IInv'
<1> SUFFICES ASSUME IInv, [Next]_vars PROVE IInv'
  OBVIOUS
<1>1. CASE UNCHANGED vars
  BY <1>1 DEF vars, storage, redirect, IInv, TypeOK, FlagCounts, Overlap, Sections,
              Forgotten
<1>2. CASE Next
  BY <1>2, LoginKeeps, RedirectKeeps, LeaveKeeps, LoadsKeep, BootProceedsKeeps,
     AnsweredKeeps, MintStartsKeeps, MintEndsKeeps, LogoutKeeps, AgeKeeps DEF Next
<1> QED  BY <1>1, <1>2

LEMMA IInvAlways == Spec => []IInv
BY InitHolds, StepKeeps, PTL DEF Spec

-----------------------------------------------------------------------------
(* Every state of the page is of its type, and the button is disabled      *)
(* exactly while a mint is under way: doMint enables it on every path.     *)
THEOREM TypeCorrect == Spec => []TypeOK
<1>1. IInv => TypeOK
  BY DEF IInv
<1> QED  BY <1>1, IInvAlways, PTL

(* The embedded page never loops through Keycloak (mint-ui.html:369).      *)
THEOREM SignOnOnceAlways == Spec => []SignOnOnce
<1>1. IInv => SignOnOnce
  BY DEF IInv, FlagCounts, SignOnOnce
<1> QED  BY <1>1, IInvAlways, PTL

(* A logout with no refresh under way is final until the tab has been at   *)
(* Keycloak again (mint-ui.html:265).                                      *)
THEOREM LogoutForgetsAlways == Spec => []LogoutForgets
<1>1. IInv => LogoutForgets
  BY DEF IInv, Forgotten, LogoutForgets
<1> QED  BY <1>1, IInvAlways, PTL

(* The mint form is shown over tokens only: no execution clears them under *)
(* a page that another one shows as signed in.                             *)
THEOREM SignedInHasTokensAlways == Spec => []SignedInHasTokens
<1>1. IInv => SignedInHasTokens
  BY DEF IInv, Sections, SignedInHasTokens
<1> QED  BY <1>1, IInvAlways, PTL

(* One page never has two refreshes under way (mint-ui.html:247).          *)
THEOREM OneRefreshAlways == Spec => []OneRefresh
<1>1. IInv => OneRefresh
  BY DEF IInv, Overlap, OneRefresh, Runs
<1> QED  BY <1>1, IInvAlways, PTL
=============================================================================
