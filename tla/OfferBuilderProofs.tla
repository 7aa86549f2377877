------------------------- MODULE OfferBuilderProofs -------------------------
(***************************************************************************)
(* What the offer builder keeps true for any number of images, boxes and   *)
(* configurations.  Every image in the document carries its mark by the    *)
(* time anything else runs, so only a new image can start a build; and     *)
(* what a run has read from the drop-down is what it will show.            *)
(***************************************************************************)
EXTENDS OfferBuilder, TLAPS

Marked ==
  /\ img # Nothing => here /\ handled
  /\ begun <= 1

Reads ==
  job # Nothing /\ job.step # "metadata" =>
    /\ job.cfg \in Advertised
    /\ fresh /\ selected \in Advertised => job.cfg = selected

(* A wallet works for an offer, never for an error.                        *)
Works == \A b \in Boxes : issue[b] # "idle" => content[b] # Error

IInv ==
  /\ OfferTypeOK /\ Marked /\ Reads /\ Works
  /\ HiddenBehindBox /\ OfferFitsSelection /\ CredentialInItsBox

LEMMA InitHolds == OfferInit => IInv
<1> SUFFICES ASSUME OfferInit PROVE IInv
  OBVIOUS
<1> USE DEF OfferInit
<1>1. OfferTypeOK
  BY DEF OfferTypeOK
<1>2. Marked /\ Reads /\ Works
  BY DEF Marked, Reads, Works
<1>3. HiddenBehindBox /\ OfferFitsSelection
  BY DEF HiddenBehindBox, OfferFitsSelection
<1>4. CredentialInItsBox
  BY NothingAssumption DEF CredentialInItsBox
<1> QED  BY <1>1, <1>2, <1>3, <1>4 DEF IInv

-----------------------------------------------------------------------------
LEMMA JobIsSome == \A j \in Job : j # Nothing /\ j.img \in Imgs /\ j.img # Nothing
BY NothingAssumption DEF Job

-----------------------------------------------------------------------------
(* The console.                                                            *)

LEMMA SelectKeeps == \A c \in Configs : IInv /\ Select(c) => IInv'
<1> SUFFICES ASSUME NEW c \in Configs, IInv, Select(c) PROVE IInv'
  OBVIOUS
<1> USE DEF IInv
<1>1. ASSUME NEW i \in Imgs, UNCHANGED here, Observe(i, FALSE, 0, job), hidden' = FALSE
      PROVE  IInv'
  <2>0. here' \in BOOLEAN /\ here' /\ job \in Job \cup {Nothing} /\ i # Nothing
    BY <1>1, NothingAssumption DEF OfferTypeOK, Select
  <2>1. /\ img' = i /\ handled' = TRUE /\ begun' \in Nat /\ begun' <= 1
        /\ job' = job \/ (job = Nothing /\ job' \in Job /\ job'.step = "metadata")
    <3>1. img' = i /\ handled' = TRUE
      BY <1>1, <2>0 DEF Observe
    <3>2. CASE job = Nothing
      <4>1. job' = [img |-> i, step |-> "metadata", cfg |-> Nothing] /\ begun' = 0 + 1
        BY <1>1, <2>0, <3>2 DEF Observe
      <4> QED  BY <3>1, <3>2, <4>1 DEF Job
    <3>3. CASE job # Nothing
      BY <1>1, <3>1, <3>3 DEF Observe
    <3> QED  BY <3>2, <3>3
  <2>2. job' # job => job' # Nothing
    BY <2>1, JobIsSome
  <2>3. OfferTypeOK'
    BY <1>1, <2>1 DEF OfferTypeOK, Select, wallet
  <2>4. Marked' /\ Works' /\ HiddenBehindBox' /\ CredentialInItsBox'
    BY <1>1, <2>0, <2>1
       DEF Marked, Works, HiddenBehindBox, CredentialInItsBox, Select, wallet
  <2>5. Reads'
    BY <2>1 DEF Reads, Select
  <2>6. OfferFitsSelection'
    BY <2>1, <2>2 DEF OfferFitsSelection, Select
  <2> QED  BY <2>3, <2>4, <2>5, <2>6
<1>2. CASE UNCHANGED <<here, img, handled, hidden, job, begun>>
  <2> USE <1>2 DEF Select, wallet
  <2>1. OfferTypeOK'
    BY DEF OfferTypeOK
  <2>2. Marked' /\ Works' /\ HiddenBehindBox' /\ CredentialInItsBox'
    BY DEF Marked, Works, HiddenBehindBox, CredentialInItsBox
  <2>3. Reads' /\ OfferFitsSelection'
    BY DEF Reads, OfferFitsSelection
  <2> QED  BY <2>1, <2>2, <2>3
<1> QED  BY <1>1, <1>2 DEF Select

LEMMA LeavePageKeeps == IInv /\ LeavePage => IInv'
<1> SUFFICES ASSUME IInv, LeavePage PROVE IInv'
  OBVIOUS
<1> USE DEF IInv, LeavePage, wallet
<1>1. img' = Nothing /\ handled' = FALSE /\ begun' = 0 /\ job' = job
  BY DEF Observe
<1>2. OfferTypeOK'
  BY <1>1 DEF OfferTypeOK
<1>3. Marked' /\ Works' /\ HiddenBehindBox' /\ CredentialInItsBox'
  BY <1>1 DEF Marked, Works, HiddenBehindBox, CredentialInItsBox
<1>4. Reads' /\ OfferFitsSelection'
  BY <1>1 DEF Reads, OfferFitsSelection
<1> QED  BY <1>2, <1>3, <1>4

LEMMA EnterOrCaptureKeeps == IInv /\ (EnterPage \/ Capture) => IInv'
<1> SUFFICES ASSUME IInv, EnterPage \/ Capture PROVE IInv'
  OBVIOUS
<1> USE DEF IInv, EnterPage, Capture, wallet, page
<1>1. OfferTypeOK'
  BY DEF OfferTypeOK
<1>2. Marked' /\ Works' /\ HiddenBehindBox' /\ CredentialInItsBox'
  BY DEF Marked, Works, HiddenBehindBox, CredentialInItsBox
<1>3. Reads' /\ OfferFitsSelection'
  BY DEF Reads, OfferFitsSelection
<1> QED  BY <1>1, <1>2, <1>3

-----------------------------------------------------------------------------
(* The builder.                                                            *)

LEMMA ChooseKeeps == IInv /\ Choose => IInv'
<1> SUFFICES ASSUME IInv, Choose PROVE IInv'
  OBVIOUS
<1> USE DEF IInv, Choose, wallet, page
<1>1. Preferred(selected) \in Advertised
  BY DEF Preferred, Default
<1>2. job \in Job
  BY DEF OfferTypeOK
<1>3. job' \in Job /\ job'.cfg = Preferred(selected)
  BY <1>1, <1>2 DEF Job
<1>4. OfferTypeOK'
  BY <1>3 DEF OfferTypeOK
<1>5. Marked' /\ Works' /\ HiddenBehindBox' /\ CredentialInItsBox'
  BY DEF Marked, Works, HiddenBehindBox, CredentialInItsBox
<1>6. Reads'
  BY <1>1, <1>3 DEF Reads, Preferred
<1>7. OfferFitsSelection'
  BY <1>3, JobIsSome DEF OfferFitsSelection
<1> QED  BY <1>4, <1>5, <1>6, <1>7

LEMMA OfferedKeeps == IInv /\ Offered => IInv'
<1> SUFFICES ASSUME IInv, Offered PROVE IInv'
  OBVIOUS
<1> USE DEF IInv, Offered, wallet, page
<1>1. job' \in Job /\ job'.cfg = job.cfg
  BY DEF OfferTypeOK, Job
<1>2. OfferTypeOK'
  BY <1>1 DEF OfferTypeOK
<1>3. Marked' /\ Works' /\ HiddenBehindBox' /\ CredentialInItsBox'
  BY DEF Marked, Works, HiddenBehindBox, CredentialInItsBox
<1>4. Reads' /\ OfferFitsSelection'
  BY <1>1, JobIsSome DEF Reads, OfferFitsSelection
<1> QED  BY <1>2, <1>3, <1>4

(* render replaces the box, and the document holds no image that the       *)
(* observer has not seen: no build follows.                                *)
LEMMA RenderKeeps ==
  ASSUME IInv, job # Nothing, NEW shown \in Advertised \cup {Error}, Render(shown),
         UNCHANGED fresh,
         shown # Error /\ fresh /\ selected \in Advertised => shown = selected
  PROVE  IInv'
<1> USE DEF IInv, Render, page
<1>1. img' = img /\ handled' = handled /\ begun' = begun /\ job' = Nothing
  BY DEF Observe, Marked, OfferTypeOK
<1>2. PICK b \in Boxes : Replace(b, shown)
  OBVIOUS
<1> USE DEF Replace
<1>3. OfferTypeOK'
  BY <1>1, <1>2 DEF OfferTypeOK
<1>4. Marked' /\ Reads'
  BY <1>1 DEF Marked, Reads
<1>5. Works' /\ CredentialInItsBox'
  BY <1>2, NothingAssumption DEF Works, CredentialInItsBox, OfferTypeOK
<1>6. HiddenBehindBox'
  BY <1>1, <1>2, JobIsSome, NothingAssumption DEF HiddenBehindBox, OfferTypeOK
<1>7. OfferFitsSelection'
  BY <1>2 DEF OfferFitsSelection, OfferTypeOK
<1> QED  BY <1>3, <1>4, <1>5, <1>6, <1>7

LEMMA BuildProceedsKeeps == IInv /\ BuildProceeds => IInv'
<1>1. CASE IInv /\ Built
  <2>1. job.cfg \in Advertised
    BY <1>1 DEF IInv, Reads, Built
  <2> QED  BY <1>1, <2>1, RenderKeeps DEF Built, IInv, Reads
<1>2. CASE IInv /\ Fail
  BY <1>2, RenderKeeps DEF Fail
<1> QED  BY <1>1, <1>2, ChooseKeeps, OfferedKeeps DEF BuildProceeds

-----------------------------------------------------------------------------
(* The wallet.                                                             *)

LEMMA WalletKeeps ==
  ASSUME IInv, NEW b \in Boxes, Click(b) \/ WalletProceeds(b)
  PROVE  IInv'
<1> USE DEF IInv
<1>1. UNCHANGED <<page, img, handled, hidden, token, job, box, content, begun, fresh>>
  BY DEF Click, WalletProceeds
<1>2. /\ content[b] # Error
      /\ \E step \in {"idle", "token", "nonce", "credential"} :
            issue' = [issue EXCEPT ![b] = step]
      /\ \E v \in {b, Error, Nothing} : cred' = cred \/ cred' = [cred EXCEPT ![b] = v]
  BY DEF Click, WalletProceeds, Issue, Authorized, Challenged, Issued, NotIssued, At,
         Goes, Works
<1>3. OfferTypeOK'
  BY <1>1, <1>2 DEF OfferTypeOK, page
<1>4. Marked' /\ Reads' /\ HiddenBehindBox' /\ OfferFitsSelection'
  BY <1>1 DEF Marked, Reads, HiddenBehindBox, OfferFitsSelection, page
<1>5. Works'
  BY <1>1, <1>2 DEF Works, OfferTypeOK
<1>6. CredentialInItsBox'
  BY <1>1, <1>2, NothingAssumption, ErrorAssumption DEF CredentialInItsBox, OfferTypeOK
<1> QED  BY <1>3, <1>4, <1>5, <1>6

LEMMA StepKeeps == IInv /\ [OfferNext]_offerVars => IInv'
<1> SUFFICES ASSUME IInv, [OfferNext]_offerVars PROVE IInv'
  OBVIOUS
<1>1. CASE UNCHANGED offerVars
  BY <1>1 DEF offerVars, page, wallet, IInv, OfferTypeOK, Marked, Reads, Works, HiddenBehindBox,
              OfferFitsSelection, CredentialInItsBox
<1>2. CASE OfferNext
  BY <1>2, SelectKeeps, LeavePageKeeps, EnterOrCaptureKeeps, BuildProceedsKeeps, WalletKeeps
     DEF OfferNext, Console
<1> QED  BY <1>1, <1>2

LEMMA IInvAlways == OfferSpec => []IInv
BY InitHolds, StepKeeps, PTL DEF OfferSpec

-----------------------------------------------------------------------------
(* Every variable of the builder and the wallet keeps its type.            *)
THEOREM TypeCorrect == OfferSpec => []OfferTypeOK
<1>1. IInv => OfferTypeOK
  BY DEF IInv
<1> QED  BY <1>1, IInvAlways, PTL

(* Watching the document that it changes does not make the script build an *)
(* offer twice (mint-credentials.js:411-418).                              *)
THEOREM OneBuildPerImageAlways == OfferSpec => []OneBuildPerImage
<1>1. IInv => OneBuildPerImage
  BY DEF IInv, Marked, OneBuildPerImage
<1> QED  BY <1>1, IInvAlways, PTL

(* The native image is hidden only behind a box (mint-credentials.js:246). *)
THEOREM HiddenBehindBoxAlways == OfferSpec => []HiddenBehindBox
<1>1. IInv => HiddenBehindBox
  BY DEF IInv
<1> QED  BY <1>1, IInvAlways, PTL

(* The box offers what the drop-down said when the last build read it      *)
(* (mint-credentials.js:212).                                              *)
THEOREM OfferFitsSelectionAlways == OfferSpec => []OfferFitsSelection
<1>1. IInv => OfferFitsSelection
  BY DEF IInv
<1> QED  BY <1>1, IInvAlways, PTL

(* A credential appears in the box of its own offer only, also when that   *)
(* box was replaced meanwhile (mint-credentials.js:286).                   *)
THEOREM CredentialInItsBoxAlways == OfferSpec => []CredentialInItsBox
<1>1. IInv => CredentialInItsBox
  BY DEF IInv
<1> QED  BY <1>1, IInvAlways, PTL
=============================================================================
