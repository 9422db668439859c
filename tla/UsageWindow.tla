---------------------------- MODULE UsageWindow ----------------------------
(***************************************************************************)
(* The range, the URL and the time window of the usage page                *)
(* (useUsageViewState.ts, useUsageWindow in useUsageQueries.ts).           *)
(*                                                                         *)
(* The view lives in the URL.  A new URL is rendered, which may build the  *)
(* query that turns its range into a window, and then committed, unless a  *)
(* newer URL interrupts the rendering.  The commit moves the observer to   *)
(* the range's query, saves the view, and asks a microtask to remove the   *)
(* query it left.  A window is told by the time it was computed at.        *)
(***************************************************************************)
EXTENDS ViewState

CONSTANTS
    Bookmarks,      \* the query strings a page load may come with, Empty included
    GcTime,         \* how long an entry nothing observes is kept
    MaxClock        \* bound: how long the behaviour lasts

ASSUME WindowAssumption == /\ Empty \in Bookmarks /\ Absent \notin Nat \cup Ranges
                           /\ GcTime \in Nat \ {0} /\ MaxClock \in Nat
ASSUME BookmarksAssumption ==
    \A q \in Bookmarks, d \in Dims : q.filter[d] \in Seq(ToSet(q.filter[d]))

VARIABLES
    where,      \* the route: "usage" or "limits"
    url,        \* the query string on the usage route
    stored,     \* localStorage: a saved view, or Empty
    stores,     \* whether localStorage works
    rendered,   \* whether the newest URL has been rendered
    committed,  \* whether the newest URL is what is on the screen
    shown,      \* the view committed last
    observed,   \* the range whose window the page observes, or Absent
    win,        \* per range: when its window was computed, or Absent: no entry
    gc,         \* per range: when an entry that nobody observes goes
    cleaning,   \* ranges whose clean-up microtask is queued
    asked,      \* what the page last wrote into the URL, or Absent
    clock

viewVars  == <<where, url, rendered, committed, asked>>
entryVars == <<win, gc, cleaning>>
vars == <<viewVars, stored, stores, shown, observed, entryVars, clock>>

View == LoadView(url, stored)

TypeOK ==
    /\ where \in {"usage", "limits"} /\ stores \in BOOLEAN
    /\ rendered \in BOOLEAN /\ committed \in BOOLEAN
    /\ shown.range \in Ranges /\ observed \in Ranges \cup {Absent}
    /\ win \in [Ranges -> (0..MaxClock) \cup {Absent}]
    /\ gc \in [Ranges -> 0..(MaxClock + GcTime)]
    /\ cleaning \subseteq Ranges /\ clock \in 0..MaxClock

Init ==
    /\ where = "usage" /\ url \in Bookmarks /\ stored = Empty /\ stores \in BOOLEAN
    /\ rendered = FALSE /\ committed = FALSE /\ shown = DefaultView
    /\ observed = Absent /\ cleaning = {} /\ asked = Absent /\ clock = 0
    /\ win = [r \in Ranges |-> Absent] /\ gc = [r \in Ranges |-> 0]

-----------------------------------------------------------------------------
(* What the user does.  A microtask never waits for the user.              *)

Idle == cleaning = {}

Navigate(q) == url' = q /\ rendered' = FALSE /\ committed' = FALSE

\* loads the page: only localStorage is kept
Load == \E q \in Bookmarks :
    /\ Idle /\ Navigate(q) /\ where' = "usage" /\ asked' = Absent
    /\ observed' = Absent /\ win' = [r \in Ranges |-> Absent]
    /\ UNCHANGED <<stored, stores, shown, gc, cleaning, clock>>

\* the header's link to the usage page carries no query string
ClickUsage ==
    /\ Idle
    /\ where = "limits" \/ url # Empty
    /\ Navigate(Empty) /\ where' = "usage" /\ asked' = Absent
    /\ UNCHANGED <<stored, stores, shown, observed, entryVars, clock>>

ClickLimits ==
    /\ Idle /\ where = "usage" /\ where' = "limits" /\ Navigate(Empty)
    /\ asked' = Absent /\ observed' = Absent
    /\ cleaning' = {observed} \ {Absent}
    /\ gc' = [r \in Ranges |-> IF r = observed THEN clock + GcTime ELSE gc[r]]
    /\ UNCHANGED <<stored, stores, shown, win, clock>>

\* a click changes the view on the screen, not one still being rendered
Update(v) ==
    /\ Idle /\ where = "usage" /\ observed # Absent
    /\ Navigate(Serialize(v)) /\ asked' = v
    /\ UNCHANGED <<where, stored, stores, shown, observed, entryVars, clock>>

PickRange  == \E r \in Ranges \ {shown.range} : Update([shown EXCEPT !.range = r])
Choose     == \E c \in Pickers : \E o \in Options[c] : Update([shown EXCEPT !.choice[c] = o])
OpenDrawer == \E d \in Dims, k \in Keys : Update([shown EXCEPT !.drawer = <<d, k>>])
Scope      == shown.drawer # NoDrawer /\ Update(ScopeToEntity(shown))

CloseDrawer == shown.drawer # NoDrawer /\ Update([shown EXCEPT !.drawer = NoDrawer])

\* a click on a chosen key removes it, on another adds it at the end
Toggle == \E d \in Dims, k \in Keys :
    Update([shown EXCEPT !.filter[d] =
              IF Contains(@, k) THEN Without(@, k) ELSE Append(@, k)])

\* Refresh reads the time again in the entry of the range on the screen
Refresh ==
    /\ Idle /\ where = "usage" /\ observed # Absent
    /\ win' = [win EXCEPT ![observed] = IF @ = Absent THEN @ ELSE clock]
    /\ UNCHANGED <<viewVars, stored, stores, shown, observed, gc, cleaning, clock>>

-----------------------------------------------------------------------------
(* What React and the query cache do.                                      *)

\* an entry is built with its window, and would go unless it is observed in time
Built(r) == IF win[r] = Absent THEN clock ELSE win[r]

Render ==
    /\ where = "usage" /\ ~rendered /\ rendered' = TRUE
    /\ win' = [win EXCEPT ![View.range] = Built(View.range)]
    /\ gc' = [gc EXCEPT ![View.range] = IF win[View.range] = Absent THEN clock + GcTime ELSE @]
    /\ UNCHANGED <<where, url, committed, asked, stored, stores, shown, observed, cleaning, clock>>

\* every new URL makes a new range object, so the effect is cleaned up each time;
\* an empty query string is replaced by that of the view it restored
Commit ==
    /\ where = "usage" /\ rendered /\ ~committed
    /\ shown' = View /\ observed' = View.range
    /\ cleaning' = cleaning \cup ({observed} \ {Absent})
    /\ win' = [win EXCEPT ![View.range] = Built(View.range)]
    /\ gc' = [r \in Ranges |->
                IF r = observed /\ r # observed' THEN clock + GcTime ELSE gc[r]]
    /\ stored' = IF stores THEN Saved(View) ELSE stored
    /\ IF url = Empty THEN Navigate(Serialize(View)) /\ asked' = View
                      ELSE committed' = TRUE /\ UNCHANGED <<url, rendered, asked>>
    /\ UNCHANGED <<where, stores, clock>>

\* the entry goes whoever observes it
CleanUpBlindly ==
    \E r \in cleaning :
        /\ cleaning' = cleaning \ {r}
        /\ win' = [win EXCEPT ![r] = Absent]
        /\ UNCHANGED <<viewVars, stored, stores, shown, observed, gc, clock>>

\* entries are left to their gcTime
CleanUpNothing ==
    \E r \in cleaning :
        /\ cleaning' = cleaning \ {r}
        /\ UNCHANGED <<viewVars, stored, stores, shown, observed, win, gc, clock>>

CleanUp ==
    \E r \in cleaning :
        /\ cleaning' = cleaning \ {r}
        /\ win' = [win EXCEPT ![r] = IF r = observed THEN @ ELSE Absent]
        /\ UNCHANGED <<viewVars, stored, stores, shown, observed, gc, clock>>

Overdue == {r \in Ranges \ {observed} : win[r] # Absent /\ gc[r] = clock}

Collect == \E r \in Overdue :
    /\ win' = [win EXCEPT ![r] = Absent]
    /\ UNCHANGED <<viewVars, stored, stores, shown, observed, gc, cleaning, clock>>

\* timers and microtasks are not late
Tick == /\ Idle /\ Overdue = {} /\ clock < MaxClock /\ clock' = clock + 1
        /\ UNCHANGED <<viewVars, stored, stores, shown, observed, entryVars>>

Next == \/ Load \/ ClickUsage \/ ClickLimits
        \/ PickRange \/ Choose \/ OpenDrawer \/ CloseDrawer \/ Scope \/ Toggle \/ Refresh
        \/ Render \/ Commit \/ CleanUp \/ Collect \/ Tick

Spec == Init /\ [][Next]_vars

\* React ends what it renders; the user may never do anything
FairSpec == Spec /\ WF_vars(Render) /\ WF_vars(Commit) /\ WF_vars(CleanUp)

-----------------------------------------------------------------------------
(* Properties.                                                             *)

(* While a range stays on the screen its window neither changes nor        *)
(* disappears, except by Refresh, whatever the clean-ups queued by earlier *)
(* URLs remove.                                                            *)
WindowIsKept ==
    [][observed # Absent /\ observed' = observed /\ win'[observed] # win[observed]
         => Refresh]_vars

(* A range that comes on the screen, again or for the first time, shows a  *)
(* window computed for this occasion: at most GcTime old, when a rendering *)
(* interrupted before had built it.                                        *)
WindowIsFresh ==
    [][observed' \notin {observed, Absent}
         => win'[observed'] # Absent /\ win'[observed'] + GcTime >= clock]_vars

(* Whatever query string the page is loaded with, the range on the screen  *)
(* is one that resolves to a window without an error.                      *)
ShownRangeResolves == observed # Absent => observed \in Ranges /\ observed = shown.range

(* What the user asked for in the view on the screen is what the page      *)
(* shows once it has settled: the query string loses nothing.              *)
AskedIsShown == where = "usage" /\ committed /\ asked # Absent => shown = asked

(* Coming back, or following the header's link, restores the view shown    *)
(* last with its drawer closed, if localStorage works; else the default.   *)
ReturnRestores ==
    [][Commit /\ url = Empty /\ (stores => stored # Empty)
         => shown' = IF stores THEN [shown EXCEPT !.drawer = NoDrawer] ELSE DefaultView]_vars

(* The page does not rewrite its URL for ever: once the user pauses, the   *)
(* view of the URL gets on the screen and stays there.                     *)
PageSettles ==
    <>[][Render \/ Commit \/ CleanUp \/ Collect \/ Tick]_vars
      => <>[](where = "usage" => committed)
=============================================================================
