--------------------------- MODULE ClientProofs ----------------------------
(***************************************************************************)
(* Theorems of the two small clients: AccountNav, for any items, routes    *)
(* and handles, and WalletHarness, for any keys of the realm.              *)
(***************************************************************************)
EXTENDS AccountNav, WalletHarness, TLAPS

-----------------------------------------------------------------------------
(* AccountNav.                                                             *)

(* A handle that show or loop asks for is new.                             *)
LEMMA FreshHandle ==
  ASSUME NEW handle, Fresh(handle)
  PROVE  handle \in Frames /\ handle # NoFrame /\ handle \notin frames /\ handle # rafId
BY NavAssumption DEF Fresh

-----------------------------------------------------------------------------
LEMMA TypeInitially == NavInit => NavTypeOK
BY NavAssumption DEF NavInit, NavTypeOK, injectNav

LEMMA TypePreserved == NavTypeOK /\ [NavNext]_navVars => NavTypeOK'
<1> SUFFICES ASSUME NavTypeOK, [NavNext]_navVars PROVE NavTypeOK'
  OBVIOUS
<1>1. CASE RenderNav
  BY <1>1, NavAssumption DEF RenderNav, NavTypeOK, injectNav
<1>2. CASE Navigate
  BY <1>2 DEF Navigate, NavTypeOK
<1>3. CASE show
  BY <1>3, FreshHandle DEF show, NavTypeOK
<1>4. CASE loop
  BY <1>4, FreshHandle DEF loop, NavTypeOK
<1>5. CASE hide
  BY <1>5 DEF hide, restoreRouteCurrent, NavTypeOK
<1>6. CASE UNCHANGED navVars
  BY <1>6 DEF navVars, NavTypeOK
<1> QED  BY <1>1, <1>2, <1>3, <1>4, <1>5, <1>6 DEF NavNext

(* The links are those of the console and ours, or none; marks are on      *)
(* links only (injectNav, setCurrent).                                     *)
THEOREM NavTypeCorrect == NavSpec => []NavTypeOK
BY TypeInitially, TypePreserved, PTL DEF NavSpec

-----------------------------------------------------------------------------
LEMMA LoopPreserved == OneLoop /\ [NavNext]_navVars => OneLoop'
<1> SUFFICES ASSUME OneLoop, [NavNext]_navVars PROVE OneLoop'
  OBVIOUS
<1>1. CASE RenderNav \/ Navigate \/ UNCHANGED navVars
  BY <1>1 DEF RenderNav, Navigate, navVars, OneLoop
<1>2. CASE show
  (* Shown or not, the callback that was due is cancelled.                 *)
  <2>1. frames \ {rafId} = {}
    BY DEF OneLoop
  <2> QED  BY <1>2, <2>1 DEF show, OneLoop
<1>3. CASE loop
  (* A callback is due, so the overlay is shown: the next one replaces it. *)
  <2>1. PICK due \in frames : overlay = "shown"
    BY <1>3 DEF loop, OneLoop
  <2>2. frames = {rafId} /\ \A f \in frames : frames \ {f} = {}
    BY <2>1 DEF OneLoop
  <2> QED  BY <1>3, <2>1, <2>2 DEF loop, OneLoop
<1>4. CASE hide
  BY <1>4 DEF hide, OneLoop
<1> QED  BY <1>1, <1>2, <1>3, <1>4 DEF NavNext

(* One animation loop per shown overlay, none for a hidden one (show,      *)
(* hide).                                                                  *)
THEOREM OneLoopRuns == NavSpec => []OneLoop
<1>1. NavInit => OneLoop
  BY DEF NavInit, OneLoop
<1> QED  BY <1>1, LoopPreserved, PTL DEF NavSpec

-----------------------------------------------------------------------------
LEMMA RouteMarkedPreserved == NavTypeOK /\ RouteMarked /\ [NavNext]_navVars => RouteMarked'
<1> SUFFICES ASSUME NavTypeOK, RouteMarked, [NavNext]_navVars PROVE RouteMarked'
  OBVIOUS
<1>1. CASE RenderNav
  BY <1>1, NavAssumption DEF RenderNav, RouteMarked, NavTypeOK, injectNav
<1>2. CASE Navigate
  (* The mark leaves the item of the old path, the only one that had it.   *)
  BY <1>2 DEF Navigate, RouteMarked
<1>3. CASE show
  BY <1>3 DEF show, RouteMarked
<1>4. CASE loop \/ UNCHANGED navVars
  BY <1>4 DEF loop, navVars, RouteMarked
<1>5. CASE hide
  BY <1>5, NavAssumption DEF hide, restoreRouteCurrent, RouteMarked, NavTypeOK
<1> QED  BY <1>1, <1>2, <1>3, <1>4, <1>5 DEF NavNext

(* With the overlay closed the marks are React's again, though the script  *)
(* removed them and React wrote others meanwhile (restoreRouteCurrent).    *)
THEOREM RouteAlwaysMarked == NavSpec => []RouteMarked
<1>1. NavInit => RouteMarked
  BY NavAssumption DEF NavInit, RouteMarked, injectNav
<1> QED  BY <1>1, TypeInitially, TypePreserved, RouteMarkedPreserved, PTL DEF NavSpec

-----------------------------------------------------------------------------
(* WalletHarness.                                                          *)

LEMMA HarnessTypeInitially == HarnessInit => HarnessTypeOK
BY DEF HarnessInit, HarnessTypeOK, Requesting

LEMMA HarnessTypePreserved == HarnessTypeOK /\ [HarnessNext]_harnessVars => HarnessTypeOK'
<1> SUFFICES ASSUME HarnessTypeOK, [HarnessNext]_harnessVars PROVE HarnessTypeOK'
  OBVIOUS
<1> USE DEF HarnessTypeOK, Requesting
<1>1. CASE Start
  BY <1>1 DEF Start
<1>2. CASE Refused
  BY <1>2 DEF Refused, Exit
<1>3. CASE Answered
  BY <1>3 DEF Answered
<1>4. CASE Exchange
  BY <1>4 DEF Exchange
<1>5. CASE GetNonce
  BY <1>5 DEF GetNonce
<1>6. CASE ReceiveCredential
  BY <1>6 DEF ReceiveCredential
<1>7. CASE Verify
  BY <1>7 DEF Verify, Exit
<1>8. CASE RotateKeys
  BY <1>8 DEF RotateKeys
<1>9. CASE UNCHANGED harnessVars
  BY <1>9 DEF harnessVars
<1> QED
  BY <1>1, <1>2, <1>3, <1>4, <1>5, <1>6, <1>7, <1>8, <1>9 DEF HarnessNext, HarnessStep

-----------------------------------------------------------------------------
(* What the verdict rests on: at the certs there is a credential.          *)
OnTheWay == step = "certs" => sdjwt \in Credential

VerdictInv == HarnessTypeOK /\ OnTheWay /\ Verdict

(* A credential that no key or another key matches has been signed with a  *)
(* key that is not published, or its kid is that of another key or of none *)
(* while there is another EC key.                                          *)
LEMMA Explained ==
  ASSUME sdjwt \in Credential,
         MatchingKeys = {} \/ \E key \in MatchingKeys : ~Verifies(key)
  PROVE  Unverifiable # {}
<1>1. sdjwt.signer \in EcKeys
  BY DEF Credential
<1>2. CASE sdjwt.signer \notin published
  BY <1>2 DEF Unverifiable
<1>3. CASE sdjwt.signer \in published
  <2>1. sdjwt.kid # sdjwt.signer
    BY <1>3 DEF MatchingKeys, Verifies
  <2>2. CASE sdjwt.kid \in published
    BY <2>1, <2>2 DEF Unverifiable
  <2>3. CASE sdjwt.kid \notin published
    <3>1. ~(published \cap EcKeys \subseteq {sdjwt.signer})
      BY <1>1, <1>3, <2>3 DEF MatchingKeys, Verifies
    <3> QED  BY <2>1, <3>1 DEF Unverifiable
  <2> QED  BY <2>2, <2>3
<1> QED  BY <1>2, <1>3

LEMMA VerdictPreserved == VerdictInv /\ [HarnessNext]_harnessVars => VerdictInv'
<1> SUFFICES ASSUME VerdictInv, [HarnessNext]_harnessVars PROVE VerdictInv'
  OBVIOUS
<1>t. HarnessTypeOK'
  BY HarnessTypePreserved DEF VerdictInv
<1> USE DEF VerdictInv, OnTheWay, Verdict
<1>1. CASE Start
  BY <1>1, <1>t DEF Start
<1>2. CASE Refused
  <2>1. step' = "failed" /\ step \in trouble'
    BY <1>2 DEF Refused, Exit
  <2> QED  BY <2>1, <1>t
<1>3. CASE Answered
  BY <1>3, <1>t DEF Answered
<1>4. CASE Exchange
  BY <1>4, <1>t DEF Exchange
<1>5. CASE GetNonce
  BY <1>5, <1>t DEF GetNonce
<1>6. CASE ReceiveCredential
  BY <1>6, <1>t DEF ReceiveCredential
<1>7. CASE Verify
  <2>1. CASE step' = "passed"
    <3>1. sdjwt.vct /\ \E key \in MatchingKeys : Verifies(key)
      BY <1>7, <2>1 DEF Verify, Exit
    <3>2. sdjwt.signer \in published
      BY <3>1 DEF Verifies, MatchingKeys
    <3>3. sdjwt # Absent
      BY <1>7, KeysAssumption DEF Verify
    <3> QED  BY <1>7, <1>t, <2>1, <3>1, <3>2, <3>3 DEF Verify
  <2>2. CASE step' = "failed"
    <3>1. trouble' = trouble \cup (Unverifiable \cup Untyped)
      BY <1>7, <2>2 DEF Verify, Exit
    <3>2. Unverifiable # {} \/ Untyped # {}
      BY <1>7, <2>2, Explained DEF Verify, Untyped
    <3> QED  BY <1>t, <2>2, <3>1, <3>2
  <2> QED  BY <1>7, <2>1, <2>2 DEF Verify, Exit
<1>8. CASE RotateKeys
  BY <1>8, <1>t DEF RotateKeys
<1>9. CASE UNCHANGED harnessVars
  BY <1>9, <1>t DEF harnessVars
<1> QED
  BY <1>1, <1>2, <1>3, <1>4, <1>5, <1>6, <1>7, <1>8, <1>9 DEF HarnessNext, HarnessStep

(* Type correctness: the harness is at one of its requests or at an end.   *)
THEOREM HarnessTypeCorrect == HarnessSpec => []HarnessTypeOK
BY HarnessTypeInitially, HarnessTypePreserved, PTL DEF HarnessSpec

(* The verdict of the harness is right for any keys of the realm: success  *)
(* with a verified credential only, and a failure never without a cause in *)
(* the answers or in the keys (main, the key that step 7 chooses).         *)
THEOREM VerdictHolds == HarnessSpec => []Verdict
<1>1. HarnessInit => VerdictInv
  BY HarnessTypeInitially DEF HarnessInit, VerdictInv, OnTheWay, Verdict
<1>2. VerdictInv => Verdict
  BY DEF VerdictInv
<1> QED  BY <1>1, <1>2, VerdictPreserved, PTL DEF HarnessSpec
===============================================================================
