------------------------------- MODULE MintUi -------------------------------
(***************************************************************************)
(* The mint page (mint-ui.html) in one browser tab: its sessionStorage,    *)
(* the asynchronous functions that share it, and the redirects to Keycloak *)
(* and back.  A step is what the browser runs without interruption, from   *)
(* one await to the next.  The page may be reloaded, or its iframe closed  *)
(* and opened again, between any two steps.                                *)
(*                                                                         *)
(* Keycloak and the network answer as they please, but for one thing: a    *)
(* code is redeemed only with the verifier of the login that it came from. *)
(***************************************************************************)
EXTENDS FiniteSets, Naturals

CONSTANTS
  Mints,       \* executions of doMint
  Boot,        \* the execution of the page's main function
  Verifiers,   \* PKCE verifiers; a new one is unlike any in use, and there are
               \* enough of them for every place that may hold one
  MaxDigests,  \* bound on the clicks on Log in before the page is left
  None

ASSUME BootAssumption == Boot \notin Mints
ASSUME VerifiersAssumption ==
  /\ MaxDigests \in Nat
  /\ IsFiniteSet(Verifiers) /\ Cardinality(Verifiers) >= MaxDigests + 5

VARIABLES
  (* sessionStorage *)
  tokens,     \* "_mt"
  verifier,   \* "_pkce"
  tried,      \* "_mint_sso_tried"
  embedded,   \* "_mint_embed"
  (* the page *)
  url,        \* the code in the URL, named by the verifier it needs
  run,        \* run[x]: where the execution x is
  presented,  \* the verifier that handleCallback has sent
  disabled,   \* the mint button
  view,       \* the section that is shown
  digests,    \* logins that wait for the hash of their verifier
  leaving,    \* the login whose redirect has been requested
  away,       \* the login that the tab is at Keycloak for
  (* history *)
  silent,     \* automatic logins since the page last found itself signed in
  out         \* whether the user has logged out since the tab was last sent to
              \* Keycloak, and whether a refresh was under way at the time

storage == <<tokens, verifier, tried, embedded>>
redirect == <<digests, leaving, away>>
vars == <<storage, url, run, presented, disabled, view, redirect, silent, out>>

Runs == Mints \cup {Boot}

(* The answer of the token endpoint: whether the access token has at most  *)
(* 30 seconds left, and whether a refresh token came with it.              *)
Token == [stale : BOOLEAN, refreshable : BOOLEAN]

ASSUME NoneAssumption == None \notin Verifiers \cup Token

Idle == [x \in Runs |-> "idle"]

TypeOK ==
  /\ tokens \in Token \cup {None}
  /\ verifier \in Verifiers \cup {None}
  /\ tried \in BOOLEAN /\ embedded \in BOOLEAN
  /\ url \in Verifiers \cup {None}
  /\ run \in [Runs -> {"idle", "start", "exchanging", "refreshing", "posting"}]
  /\ presented \in Verifiers \cup {None}
  /\ disabled = (\E m \in Mints : run[m] # "idle")
  /\ view \in {"login", "mint"}
  /\ digests \subseteq Verifiers
  /\ leaving \in Verifiers \cup {None} /\ away \in Verifiers \cup {None}
  /\ silent \in Nat
  /\ out \in {"no", "clean", "raced"}

Init ==
  /\ tokens = None /\ verifier = None /\ tried = FALSE
  /\ embedded \in BOOLEAN
  /\ url = None
  /\ run = [Idle EXCEPT ![Boot] = "start"]
  /\ presented = None
  /\ disabled = FALSE
  /\ view = "login"
  /\ digests = {} /\ leaving = None /\ away = None
  /\ silent = 0
  /\ out = "no"

-----------------------------------------------------------------------------
(* login, up to the hash of the verifier and from there on.                *)

InUse == {verifier, url, presented, leaving, away} \cup digests

StartLogin == \E n \in Verifiers \ InUse :
                verifier' = n /\ digests' = digests \cup {n}

(* The section with the button is shown until the page knows better.       *)
Login ==
  /\ view = "login" /\ away = None
  /\ Cardinality(digests) < MaxDigests
  /\ StartLogin
  /\ UNCHANGED <<tokens, tried, embedded, url, run, presented, disabled, view,
                 leaving, away, silent, out>>

(* The hash is there.  A later redirect supersedes one that has not yet    *)
(* happened, and the hashes may come in any order.                         *)
Redirect(n) ==
  /\ n \in digests
  /\ digests' = digests \ {n}
  /\ leaving' = n
  /\ UNCHANGED <<storage, url, run, presented, disabled, view, away, silent, out>>

-----------------------------------------------------------------------------
(* Pages come and go.  What they had under way is forgotten.               *)

Unload ==
  /\ presented' = None
  /\ disabled' = FALSE
  /\ view' = "login"
  /\ digests' = {} /\ leaving' = None
  /\ UNCHANGED <<tokens, verifier, tried, silent>>

Leave ==
  /\ leaving # None
  /\ out' = "no"
  /\ away' = leaving
  /\ url' = None
  /\ run' = Idle
  /\ UNCHANGED embedded
  /\ Unload

LoadPage(code, embed) ==
  /\ url' = code
  /\ embedded' = (embedded \/ embed)
  /\ away' = None
  /\ run' = [Idle EXCEPT ![Boot] = "start"]
  /\ UNCHANGED out
  /\ Unload

Reload == away = None /\ LoadPage(url, FALSE)

(* The console's iframe asks for the embedded page, a visitor does not.    *)
Open == \E embed \in BOOLEAN : LoadPage(None, embed)

(* Keycloak sends the browser back, with a code or with an error.          *)
Return == away # None /\ (LoadPage(away, FALSE) \/ LoadPage(None, FALSE))

-----------------------------------------------------------------------------
(* What the callers of freshToken do with its result.                      *)

Ends(x) == run' = [run EXCEPT ![x] = "idle"]

BootSignedIn ==
  /\ Ends(Boot)
  /\ tried' = FALSE
  /\ silent' = 0
  /\ view' = "mint"
  /\ UNCHANGED <<disabled, digests>>

(* Mutant: the one-shot flag is set when the login has succeeded only.     *)
BootSignsOnAgain(kept) ==
  /\ Ends(Boot)
  /\ IF embedded /\ ~tried
     THEN /\ StartLogin
          /\ silent' = silent + 1
          /\ UNCHANGED <<tried, view>>
     ELSE /\ view' = "login"
          /\ verifier' = kept
          /\ UNCHANGED <<tried, digests, silent>>
  /\ UNCHANGED disabled

(* kept is the verifier that freshToken leaves in the storage.             *)
BootSignedOut(kept) ==
  /\ Ends(Boot)
  /\ IF embedded /\ ~tried
     THEN /\ tried' = TRUE
          /\ StartLogin
          /\ silent' = silent + 1
          /\ UNCHANGED view
     ELSE /\ view' = "login"
          /\ verifier' = kept
          /\ UNCHANGED <<tried, digests, silent>>
  /\ UNCHANGED disabled

(* The mint request goes out.                                              *)
MintPosts(m) ==
  /\ run' = [run EXCEPT ![m] = "posting"]
  /\ disabled' = TRUE
  /\ UNCHANGED <<tried, silent, view, digests>>

(* Mutant: the page stays as it is when the session has ended.             *)
MintGivesUpQuietly(m, kept) ==
  /\ Ends(m)
  /\ disabled' = FALSE
  /\ verifier' = kept
  /\ UNCHANGED <<tried, silent, view, digests>>

MintGivesUp(m, kept) ==
  /\ Ends(m)
  /\ disabled' = FALSE
  /\ view' = "login"
  /\ verifier' = kept
  /\ UNCHANGED <<tried, silent, digests>>

SignedIn(x) == IF x = Boot THEN BootSignedIn ELSE MintPosts(x)
SignedOut(x, kept) == IF x = Boot THEN BootSignedOut(kept) ELSE MintGivesUp(x, kept)

-----------------------------------------------------------------------------
(* freshToken, up to its request and from there on.                        *)

FreshToken(x) ==
  \/ /\ tokens = None
     /\ SignedOut(x, verifier)
     /\ UNCHANGED tokens
  \/ /\ tokens # None /\ ~tokens.stale
     /\ SignedIn(x)
     /\ UNCHANGED <<tokens, verifier>>
  \/ /\ tokens # None /\ tokens.stale /\ ~tokens.refreshable
     /\ SignedOut(x, None)
     /\ tokens' = None
  \/ /\ tokens # None /\ tokens.stale /\ tokens.refreshable
     /\ run' = [run EXCEPT ![x] = "refreshing"]
     /\ disabled' = (disabled \/ x # Boot)
     /\ UNCHANGED <<tokens, verifier, tried, view, digests, silent>>

Refreshed(x) ==
  /\ run[x] = "refreshing"
  /\ tokens' \in Token
  /\ SignedIn(x)
  /\ UNCHANGED <<verifier, embedded, url, presented, leaving, away, out>>

RefreshRefused(x) ==
  /\ run[x] = "refreshing"
  /\ tokens' = None
  /\ SignedOut(x, None)
  /\ UNCHANGED <<embedded, url, presented, leaving, away, out>>

(* Mutant: the button is enabled again after an answer only.               *)
RefreshBreaksOff(x) ==
  /\ run[x] = "refreshing"
  /\ Ends(x)
  /\ UNCHANGED <<storage, url, presented, disabled, view, redirect, silent, out>>

(* fetch or json rejects: the main function ends as it is, doMint reports  *)
(* the error and enables its button.                                       *)
RefreshBreaks(x) ==
  /\ run[x] = "refreshing"
  /\ Ends(x)
  /\ disabled' = (disabled /\ x = Boot)
  /\ UNCHANGED <<storage, url, presented, view, redirect, silent, out>>

-----------------------------------------------------------------------------
(* The main function.                                                      *)

BootStarts ==
  /\ run[Boot] = "start"
  /\ \/ /\ url # None /\ verifier # None
        /\ presented' = verifier
        /\ run' = [run EXCEPT ![Boot] = "exchanging"]
        /\ UNCHANGED <<tokens, verifier, tried, disabled, view, digests, silent>>
     \/ /\ url = None \/ verifier = None
        /\ FreshToken(Boot)
        /\ UNCHANGED presented
  /\ UNCHANGED <<embedded, url, leaving, away, out>>

Exchanged ==
  /\ run[Boot] = "exchanging"
  /\ presented = url
  /\ tokens' \in Token
  /\ url' = None
  /\ BootSignedIn
  /\ UNCHANGED <<verifier, embedded, presented, leaving, away, out>>

(* Mutant: a refused code is presented once more.                          *)
ExchangeTriedAgain ==
  /\ run[Boot] = "exchanging"
  /\ run' = [run EXCEPT ![Boot] = "start"]
  /\ UNCHANGED <<storage, url, presented, disabled, view, redirect, silent, out>>

(* The code stays in the URL.                                              *)
ExchangeRefused ==
  /\ run[Boot] = "exchanging"
  /\ FreshToken(Boot)
  /\ UNCHANGED <<embedded, url, presented, leaving, away, out>>

ExchangeBreaks ==
  /\ run[Boot] = "exchanging"
  /\ Ends(Boot)
  /\ UNCHANGED <<storage, url, presented, disabled, view, redirect, silent, out>>

-----------------------------------------------------------------------------
(* The signed-in section.                                                  *)

(* Mutant: the button is not disabled while a token is being minted.       *)
ReadyAnyTime(m) == view = "mint" /\ run[m] = "idle"

Ready(m) == view = "mint" /\ run[m] = "idle" /\ ~disabled

MintStarts(m) ==
  /\ Ready(m)
  /\ FreshToken(m)
  /\ UNCHANGED <<embedded, url, presented, leaving, away, out>>

(* The mint endpoint has answered, or the request has failed.              *)
MintEnds(m) ==
  /\ run[m] = "posting"
  /\ Ends(m)
  /\ disabled' = FALSE
  /\ UNCHANGED <<storage, url, presented, view, redirect, silent, out>>

(* Mutant: the tokens are removed, the verifier is not.                    *)
LogoutKeepsVerifier ==
  /\ view = "mint" /\ ~embedded
  /\ tokens' = None
  /\ view' = "login"
  /\ out' = IF \E x \in Runs : run[x] = "refreshing" THEN "raced" ELSE "clean"
  /\ UNCHANGED <<verifier, tried, embedded, url, run, presented, disabled, redirect,
                 silent>>

(* The button is in the header, which the embedded page does not show.     *)
Logout ==
  /\ view = "mint" /\ ~embedded
  /\ tokens' = None /\ verifier' = None
  /\ view' = "login"
  /\ out' = IF \E x \in Runs : run[x] = "refreshing" THEN "raced" ELSE "clean"
  /\ UNCHANGED <<tried, embedded, url, run, presented, disabled, redirect, silent>>

(* The access token comes within 30 seconds of its end.                    *)
Age ==
  /\ tokens # None /\ ~tokens.stale
  /\ tokens' = [tokens EXCEPT !.stale = TRUE]
  /\ UNCHANGED <<verifier, tried, embedded, url, run, presented, disabled, view,
                 redirect, silent, out>>

-----------------------------------------------------------------------------
BootProceeds == BootStarts \/ Exchanged \/ ExchangeRefused \/ ExchangeBreaks

Answered(x) == Refreshed(x) \/ RefreshRefused(x) \/ RefreshBreaks(x)

Loads == Reload \/ Open

Next ==
  \/ Login
  \/ \E n \in Verifiers : Redirect(n)
  \/ Leave
  \/ Return
  \/ Loads
  \/ BootProceeds
  \/ \E x \in Runs : Answered(x)
  \/ \E m \in Mints : MintStarts(m) \/ MintEnds(m)
  \/ Logout
  \/ Age

Spec == Init /\ [][Next]_vars

(* The browser answers or breaks off every request.  Users need not do     *)
(* anything, nor Keycloak send anyone back.                                *)
Fairness ==
  /\ WF_vars(BootProceeds)
  /\ \A x \in Runs : WF_vars(Answered(x))
  /\ \A m \in Mints : WF_vars(MintEnds(m))

FairSpec == Spec /\ Fairness

-----------------------------------------------------------------------------
(* Properties.                                                             *)

(* mint-ui.html:369: a failed exchange falls back to the button instead of *)
(* looping.  However often the page is reloaded, its iframe reopened, and  *)
(* its tokens cleared, it logs in by itself at most once until it has been *)
(* signed in again.                                                        *)
SignOnOnce == silent <= 1

(* mint-ui.html:265: after a logout no tokens are left, and none come back *)
(* until the tab has been at Keycloak for a new login: not by a reload, and *)
(* not by the code of an earlier login that is still in the URL.  Excepted  *)
(* is a logout while a refresh is under way: freshToken saves its answer    *)
(* without looking at the storage again.                                    *)
LogoutForgets == out = "clean" => tokens = None

(* Whoever sees the mint form has tokens in the storage: what one function *)
(* clears is never shown as signed in by another.                          *)
SignedInHasTokens == view = "mint" => tokens # None

(* No refresh token is sent twice at the same time, which would end the    *)
(* session where refresh tokens are used once.                             *)
OneRefresh == \A x, y \in Runs : run[x] = "refreshing" /\ run[y] = "refreshing" => x = y

(* The mint button never stays disabled.                                   *)
ButtonComesBack == []<>~disabled

(* Unless the page is reloaded for ever, its main function comes to an     *)
(* end: whatever code is in the URL and whatever Keycloak answers, nothing *)
(* is asked for over and over (mint-ui.html:355-379).  What it shows then  *)
(* is another matter: where fetch or json rejects, the function ends with  *)
(* the login section that the page began with, also over stored tokens     *)
(* (RefreshBreaks, ExchangeBreaks).                                        *)
BootEnds == <>[][~Loads]_vars => (run[Boot] = "start" ~> run[Boot] = "idle")
=============================================================================
