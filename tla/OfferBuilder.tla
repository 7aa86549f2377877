---------------------------- MODULE OfferBuilder ----------------------------
(***************************************************************************)
(* The second half of the account console script (mint-credentials.js): it *)
(* watches the console for the image of an offer, builds the offer anew    *)
(* with three requests, shows it in a box of its own, and issues the       *)
(* credential from there to a wallet in the browser.                       *)
(*                                                                         *)
(* A step is what the browser runs from one await to the next.  The image, *)
(* the drop-down and the page belong to the console, a React application   *)
(* that replaces them when it likes.                                       *)
(***************************************************************************)
EXTENDS FiniteSets, Naturals

CONSTANTS
  Imgs,        \* image elements; a new one is none that is still in use
  Boxes,       \* elements that render makes; likewise
  Configs,     \* names the drop-down may show
  Advertised,  \* the names that the issuer's metadata list
  Error,       \* what a box shows instead of an offer
  Nothing

ASSUME AdvertisedAssumption == Advertised \subseteq Configs
ASSUME ErrorAssumption == Error \notin Configs \cup Boxes

VARIABLES
  (* the console *)
  here,      \* whether the credentials page is open
  selected,  \* the name on the drop-down
  img,       \* the image in the document
  handled,   \* img.dataset.mintHandled
  hidden,    \* img.style.display = "none"
  (* the builder *)
  token,     \* whether a session token has been captured
  job,       \* the run of buildOffer behind its guard; building is job # Nothing
  box,       \* the element mint-vc-offer in the document
  content,   \* content[b]: the configuration that the offer in b is for
  (* the wallet *)
  issue,     \* issue[b]: where issueCredential is for the box b
  cred,      \* cred[b]: the box whose offer the credential in b comes from
  (* history *)
  begun,     \* builds that have begun for the image
  fresh      \* whether the selection is the one that was last read

page == <<here, selected>>
wallet == <<issue, cred>>
offerVars == <<page, img, handled, hidden, token, job, box, content, wallet, begun, fresh>>

Job == [img : Imgs, step : {"metadata", "offer", "json"}, cfg : Advertised \cup {Nothing}]

ASSUME NothingAssumption == Nothing \notin Imgs \cup Boxes \cup Job

OfferTypeOK ==
  /\ here \in BOOLEAN /\ selected \in Configs
  /\ img \in Imgs \cup {Nothing}
  /\ handled \in BOOLEAN /\ hidden \in BOOLEAN /\ token \in BOOLEAN
  /\ job \in Job \cup {Nothing}
  /\ box \in Boxes \cup {Nothing}
  /\ content \in [Boxes -> Advertised \cup {Error}]
  /\ issue \in [Boxes -> {"idle", "token", "nonce", "credential"}]
  /\ cred \in [Boxes -> Boxes \cup {Error, Nothing}]
  /\ begun \in Nat
  /\ fresh \in BOOLEAN

OfferInit ==
  /\ here \in BOOLEAN /\ selected \in Configs
  /\ img = Nothing /\ handled = FALSE /\ hidden = FALSE
  /\ token = FALSE
  /\ job = Nothing /\ box = Nothing
  /\ content = [b \in Boxes |-> Error]
  /\ issue = [b \in Boxes |-> "idle"] /\ cred = [b \in Boxes |-> Nothing]
  /\ begun = 0 /\ fresh = FALSE

-----------------------------------------------------------------------------
(* The observer runs after every change of the document, before anything   *)
(* else does.  i, mark, count and running are what the change has made of  *)
(* img, handled, begun and job.                                            *)

(* Mutant: the mark of an image is set and never looked at.                *)
ObserveEveryChange(i, mark, count, running) ==
  /\ img' = i
  /\ handled' = (here' /\ i # Nothing)
  /\ IF here' /\ i # Nothing /\ running = Nothing
     THEN /\ job' = [img |-> i, step |-> "metadata", cfg |-> Nothing]
          /\ begun' = count + 1
     ELSE job' = running /\ begun' = count

(* The image is marked before buildOffer is called, which returns at once  *)
(* while another run of it is under way.                                   *)
Observe(i, mark, count, running) ==
  LET unhandled == here' /\ i # Nothing /\ ~mark IN
  /\ img' = i
  /\ handled' = (mark \/ unhandled)
  /\ IF unhandled /\ running = Nothing
     THEN /\ job' = [img |-> i, step |-> "metadata", cfg |-> Nothing]
          /\ begun' = count + 1
     ELSE job' = running /\ begun' = count

-----------------------------------------------------------------------------
(* The console.                                                            *)

NewImg(i) == i # img /\ ~(job # Nothing /\ job.img = i)

(* A credential is selected: the console replaces the image, or gives the  *)
(* one that is there another source, which the observer does not see.      *)
Select(c) ==
  /\ here
  /\ selected' = c
  /\ fresh' = (fresh /\ c = selected)
  /\ \/ \E i \in Imgs : /\ NewImg(i)
                        /\ UNCHANGED here
                        /\ Observe(i, FALSE, 0, job)
                        /\ hidden' = FALSE
     \/ UNCHANGED <<here, img, handled, hidden, job, begun>>
  /\ UNCHANGED <<token, box, content, wallet>>

(* The image goes with the page; the box may have been put elsewhere.      *)
LeavePage ==
  /\ here
  /\ here' = FALSE
  /\ Observe(Nothing, FALSE, 0, job)
  /\ hidden' = FALSE
  /\ box' \in {box, Nothing}
  /\ UNCHANGED <<selected, token, content, wallet, fresh>>

EnterPage ==
  /\ ~here
  /\ here' = TRUE
  /\ UNCHANGED <<selected, img, handled, hidden, token, job, box, content, wallet,
                 begun, fresh>>

(* A request of the console carries a token, or the token endpoint answers. *)
Capture ==
  /\ ~token
  /\ token' = TRUE
  /\ UNCHANGED <<page, img, handled, hidden, job, box, content, wallet, begun, fresh>>

-----------------------------------------------------------------------------
(* buildOffer and render.                                                  *)

(* The box of before is removed, and the image that the run is for hidden. *)
Replace(b, shown) ==
  /\ b # box /\ issue[b] = "idle"
  /\ box' = b
  /\ content' = [content EXCEPT ![b] = shown]
  /\ cred' = [cred EXCEPT ![b] = Nothing]
  /\ hidden' = (hidden \/ job.img = img)

(* The run is over before the observer sees what render has changed.       *)
Render(shown) ==
  /\ UNCHANGED page
  /\ \E b \in Boxes : Replace(b, shown)
  /\ Observe(img, handled, begun, Nothing)
  /\ UNCHANGED <<token, issue>>

(* Configs are matched with the text of the buttons, the first is default. *)
Default == CHOOSE c \in Advertised : TRUE

(* Mutant: the drop-down is not asked.                                     *)
AlwaysDefault(c) == Default

Preferred(c) == IF c \in Advertised THEN c ELSE Default

(* The metadata are there: the drop-down and the token are read.           *)
Choose ==
  /\ job # Nothing /\ job.step = "metadata"
  /\ Advertised # {} /\ token
  /\ job' = [job EXCEPT !.step = "offer", !.cfg = Preferred(selected)]
  /\ fresh' = TRUE
  /\ UNCHANGED <<page, img, handled, hidden, token, box, content, wallet, begun>>

(* The issuer has created an offer and named its address.                  *)
Offered ==
  /\ job # Nothing /\ job.step = "offer"
  /\ job' = [job EXCEPT !.step = "json"]
  /\ UNCHANGED <<page, img, handled, hidden, token, box, content, wallet, begun, fresh>>

(* The address has answered with JSON.  Its status is not looked at        *)
(* (mint-credentials.js:232): an error told in JSON is shown in the place  *)
(* of the offer, under the name of the configuration; a wallet finds no    *)
(* code in it and fails at its first step (NotIssued).                     *)
Built ==
  /\ job # Nothing /\ job.step = "json"
  /\ Render(job.cfg)
  /\ UNCHANGED fresh

(* Mutant: the guard is not lifted when the run has failed.                *)
FailForGood ==
  /\ job # Nothing
  /\ \E b \in Boxes : Replace(b, Error)
  /\ job' = [job EXCEPT !.step = "failed"]
  /\ UNCHANGED <<page, img, handled, token, issue, begun, fresh>>

(* Mutant: the error goes to the console's log.                            *)
FailQuietly ==
  /\ job # Nothing
  /\ UNCHANGED page
  /\ box' = Nothing
  /\ hidden' = (hidden \/ job.img = img)
  /\ Observe(img, handled, begun, Nothing)
  /\ UNCHANGED <<token, content, wallet, fresh>>

(* No configuration, no token, an offer refused by its status, no answer   *)
(* or one that is not JSON: at any step.                                   *)
Fail ==
  /\ job # Nothing
  /\ Render(Error)
  /\ UNCHANGED fresh

-----------------------------------------------------------------------------
(* issueCredential: each box has a button of its own, which is disabled    *)
(* while the wallet is at work for it.  The box may be replaced meanwhile. *)

At(b, step) == issue[b] = step
Goes(b, step) == issue' = [issue EXCEPT ![b] = step]

Issue(b) ==
  /\ b = box /\ content[b] # Error
  /\ At(b, "idle")
  /\ Goes(b, "token")
  /\ cred' = [cred EXCEPT ![b] = Nothing]

(* The answer to the pre-authorized code may bring the nonce with it.  The *)
(* key is made and the nonce signed before the request that follows.       *)
Authorized(b) ==
  /\ At(b, "token")
  /\ Goes(b, "nonce") \/ Goes(b, "credential")
  /\ UNCHANGED cred

Challenged(b) == At(b, "nonce") /\ Goes(b, "credential") /\ UNCHANGED cred

(* Mutant: the place for the credential is looked up by its name.          *)
IssuedByName(b) ==
  /\ At(b, "credential")
  /\ Goes(b, "idle")
  /\ cred' = IF box = Nothing THEN cred ELSE [cred EXCEPT ![box] = b]

Issued(b) ==
  /\ At(b, "credential")
  /\ Goes(b, "idle")
  /\ cred' = [cred EXCEPT ![b] = b]

(* Mutant: whatever has failed is tried again from the code on.            *)
IssueStartsOver(b) ==
  /\ ~At(b, "idle")
  /\ Goes(b, "token")
  /\ UNCHANGED cred

NotIssued(b) ==
  /\ ~At(b, "idle")
  /\ Goes(b, "idle")
  /\ cred' = [cred EXCEPT ![b] = Error]

WalletProceeds(b) ==
  /\ Authorized(b) \/ Challenged(b) \/ Issued(b) \/ NotIssued(b)
  /\ UNCHANGED <<page, img, handled, hidden, token, job, box, content, begun, fresh>>

Click(b) ==
  /\ Issue(b)
  /\ UNCHANGED <<page, img, handled, hidden, token, job, box, content, begun, fresh>>

-----------------------------------------------------------------------------
BuildProceeds == Choose \/ Offered \/ Built \/ Fail

Console == (\E c \in Configs : Select(c)) \/ LeavePage \/ EnterPage \/ Capture

OfferNext ==
  \/ Console
  \/ BuildProceeds
  \/ \E b \in Boxes : Click(b) \/ WalletProceeds(b)

OfferSpec == OfferInit /\ [][OfferNext]_offerVars

(* Every request is answered or broken off by the browser.                 *)
OfferFairness ==
  /\ WF_offerVars(BuildProceeds)
  /\ \A b \in Boxes : WF_offerVars(WalletProceeds(b))

OfferFairSpec == OfferSpec /\ OfferFairness

-----------------------------------------------------------------------------
(* Properties.                                                             *)

(* One offer at most is made for an image, although showing it changes the *)
(* document that is watched (mint-credentials.js:411-418).                 *)
OneBuildPerImage == begun <= 1

(* The native image is hidden only where a box stands in its place.        *)
HiddenBehindBox == hidden => img # Nothing /\ box # Nothing

(* mint-credentials.js:212: when no build is under way and the selection   *)
(* has not changed since the last build to ask has read it, what the box   *)
(* shows was asked for by that name, if it exists: a build that read an    *)
(* earlier selection never has the last word.                              *)
OfferFitsSelection ==
  /\ job = Nothing /\ fresh /\ selected \in Advertised
  /\ box # Nothing /\ content[box] # Error
  => content[box] = selected

(* Whatever boxes come and go while the wallet is at work, a box shows the *)
(* credential that was issued for its own offer, and none over an error.   *)
CredentialInItsBox ==
  \A b \in Boxes : cred[b] \in Boxes => cred[b] = b /\ content[b] # Error

(* The guard against a second build is always lifted again.                *)
BuildEnds == []<>(job = Nothing)

(* So is every wallet's button.                                            *)
WalletEnds == \A b \in Boxes : []<>(issue[b] = "idle")

(* mint-credentials.js:409: an image that appears is the trigger to build  *)
(* the offer anew.  It is hidden in the end, unless it goes away before.   *)
ImageRebuilt == \A i \in Imgs : img = i ~> (img # i \/ hidden)
=============================================================================
