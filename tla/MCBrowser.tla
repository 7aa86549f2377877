------------------------------- MODULE MCBrowser ------------------------------
(***************************************************************************)
(* The mint page and the account console for TLC.  The two share no        *)
(* variable, so each is run while the other has nothing under way: an      *)
(* interleaving of them would only multiply the states.                    *)
(***************************************************************************)
EXTENDS MintUi, OfferBuilder

CONSTANTS m1, m2, boot, v1, v2, v3, v4, v5, v6, i1, i2, i3, b1, b2, c1, c2, c3

(* The page shows its button to log in, before anybody has.                *)
UiRests ==
  /\ tokens = None /\ verifier = None /\ ~tried /\ ~embedded
  /\ url = None /\ presented = None /\ view = "login"
  /\ run = Idle /\ ~disabled
  /\ digests = {} /\ leaving = None /\ away = None
  /\ silent = 0 /\ out = "no"

(* The console is at another page, from where it can get to every state.   *)
OfferRests == OfferInit /\ ~here /\ selected = c1

OnPage(step) == OfferRests /\ step /\ UNCHANGED offerVars
InConsole(step) == UiRests /\ step /\ UNCHANGED vars

MintPage ==
  \/ OnPage(Login) \/ OnPage(\E n \in Verifiers : Redirect(n))
  \/ OnPage(Leave) \/ OnPage(Return) \/ OnPage(Reload) \/ OnPage(Open)
  \/ OnPage(BootStarts) \/ OnPage(Exchanged) \/ OnPage(ExchangeRefused) \/ OnPage(ExchangeBreaks)
  \/ \E x \in Runs : OnPage(Refreshed(x)) \/ OnPage(RefreshRefused(x)) \/ OnPage(RefreshBreaks(x))
  \/ \E m \in Mints : OnPage(MintStarts(m)) \/ OnPage(MintEnds(m))
  \/ OnPage(Logout) \/ OnPage(Age)

AccountConsole ==
  \/ \E c \in Configs : InConsole(Select(c))
  \/ InConsole(LeavePage) \/ InConsole(EnterPage) \/ InConsole(Capture)
  \/ InConsole(Choose) \/ InConsole(Offered) \/ InConsole(Built) \/ InConsole(Fail)
  \/ \E b \in Boxes : InConsole(Click(b)) \/ InConsole(WalletProceeds(b))

BrowserInit == Init /\ OfferRests
BrowserNext == MintPage \/ AccountConsole
BrowserSpec == BrowserInit /\ [][BrowserNext]_<<vars, offerVars>> /\ Fairness /\ OfferFairness
===============================================================================
