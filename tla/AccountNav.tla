------------------------------ MODULE AccountNav ------------------------------
(***************************************************************************)
(* The Credentials item that mint-credentials.js adds to the navigation of *)
(* the account console (lines 4 to 133): the item, the overlay behind it   *)
(* with the animation frames that keep it in place, and the marks of the   *)
(* current item, which the script and React both write.  Each action is    *)
(* one event of the page with the microtasks after it, so the observer has *)
(* put the item back by the end of any that replaces the navigation.       *)
(***************************************************************************)
EXTENDS Integers

CONSTANTS
  Items,     \* the links of the console, each named by its path
  Routes,    \* the paths the page can be at
  Link,      \* mint-credentials-link
  Frames,    \* the handles of requestAnimationFrame
  NoFrame    \* 0

ASSUME NavAssumption ==
  /\ Items \subseteq Routes /\ Items # {} /\ Link \notin Routes
  /\ NoFrame \notin Frames

VARIABLES
  route,     \* location.pathname
  links,     \* the links in the nav element
  active,    \* those with pf-m-current and aria-current
  overlay,   \* "absent", "hidden" or "shown"
  rafId, frames  \* the last handle, and the callbacks that are due

navVars == <<route, links, active, overlay, rafId, frames>>

-----------------------------------------------------------------------------
(* Mutant: the item is put into whatever is there.                         *)
InjectedAnywhere(shown) == shown \cup {Link}

(* injectNav, which needs a link to clone.                                 *)
injectNav(shown) == IF shown = {} THEN {} ELSE shown \cup {Link}

(* The console has rendered its navigation, or has not yet.                *)
NavInit ==
  /\ route \in Routes
  /\ \E shown \in {{}, Items} : links = injectNav(shown) /\ active = shown \cap {route}
  /\ overlay = "absent" /\ rafId = NoFrame /\ frames = {}

(* React mounts, unmounts or replaces the navigation, with its own marks.  *)
RenderNav ==
  \E shown \in {{}, Items} :
    /\ links' = injectNav(shown) /\ active' = shown \cap {route}
    /\ UNCHANGED <<route, overlay, rafId, frames>>

(* The page goes elsewhere, after a click or by the history: React writes  *)
(* the mark of the two items it changes for, and of no other.              *)
Navigate ==
  \E there \in Routes \ {route} :
    /\ route' = there
    /\ active' = (active \ {route}) \cup (links \cap {there})
    /\ UNCHANGED <<links, overlay, rafId, frames>>

-----------------------------------------------------------------------------
Fresh(handle) == handle \in Frames \ (frames \cup {rafId})

(* Mutant: a second click starts a second loop.                            *)
ShowAgain ==
  \E handle \in Frames :
    /\ Fresh(handle) /\ Link \in links
    /\ overlay' = "shown"
    /\ rafId' = handle /\ frames' = frames \cup {handle}
    /\ active' = {Link}
    /\ UNCHANGED <<route, links>>

(* A click on Credentials.                                                 *)
show ==
  \E handle \in Frames :
    /\ Fresh(handle) /\ Link \in links
    /\ overlay' = "shown"
    /\ rafId' = handle /\ frames' = (frames \ {rafId}) \cup {handle}
    /\ active' = {Link}
    /\ UNCHANGED <<route, links>>

(* A callback of requestAnimationFrame.                                    *)
loop ==
  \E due \in frames :
    /\ IF overlay = "shown"
       THEN \E handle \in Frames : Fresh(handle) /\ rafId' = handle
                                   /\ frames' = (frames \ {due}) \cup {handle}
       ELSE frames' = frames \ {due} /\ UNCHANGED rafId
    /\ UNCHANGED <<route, links, active, overlay>>

(* Mutant: what was marked before stays unmarked.                          *)
MarksLeft == active \ {Link}

restoreRouteCurrent == (links \ {Link}) \cap {route}

(* A click on any other link of the navigation, before the console has it. *)
hide ==
  /\ links \ {Link} # {}
  /\ overlay' = (IF overlay = "absent" THEN "absent" ELSE "hidden")
  /\ frames' = frames \ {rafId}
  /\ active' = restoreRouteCurrent
  /\ UNCHANGED <<route, links, rafId>>

NavNext == RenderNav \/ Navigate \/ show \/ loop \/ hide

NavSpec == NavInit /\ [][NavNext]_navVars

-----------------------------------------------------------------------------
(* The navigation is empty or has every item of the console and ours, and  *)
(* only links in it are marked (injectNav, setCurrent).                    *)
NavTypeOK ==
  /\ route \in Routes
  /\ links \in {{}, Items \cup {Link}} /\ active \subseteq links
  /\ overlay \in {"absent", "hidden", "shown"}
  /\ rafId \in Frames \cup {NoFrame} /\ frames \subseteq Frames

(* However often the item is clicked, one loop runs while the overlay is   *)
(* shown, the one rafId can cancel, and none once it is hidden (show,      *)
(* hide).                                                                  *)
OneLoop == frames = IF overlay = "shown" THEN {rafId} ELSE {}

(* Away from the overlay the mark is on the item of the route and nowhere  *)
(* else, whatever the console rendered and wherever it went while the      *)
(* overlay was open (hide, restoreRouteCurrent).  While it is open, a      *)
(* console that renders or navigates marks its own item beside Credentials *)
(* (RenderNav, Navigate), or in its place.                                 *)
RouteMarked == overlay # "shown" => active = links \cap {route}
===============================================================================
