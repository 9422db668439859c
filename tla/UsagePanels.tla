---------------------------- MODULE UsagePanels ----------------------------
(***************************************************************************)
(* The data of the usage page (pages/UsagePage.tsx, DetailDrawer.tsx,      *)
(* useUsage and refresh in useUsageQueries.ts): each panel asks for one    *)
(* response, told by its scope (the window and the filters) and by what it *)
(* asks for.  While a response is on its way the panel goes on showing the *)
(* one it had.  The server reads a response some time before it arrives:   *)
(* seen is a history of that, by which nothing is decided.                 *)
(*                                                                         *)
(* A response that arrived is kept for good; of it only matters whether a  *)
(* summary counts no requests.  The three requests of the drawer are alike *)
(* but for their places in it: they are one panel here.  The request for   *)
(* the filters' options has no window and no panel, and is left out.       *)
(***************************************************************************)
EXTENDS Naturals, FiniteSets

CONSTANTS
    Scopes, WindowOf,   \* windows with filters, and the window of each
    Fixed,              \* scopes whose range does not follow the clock
    Quiet,              \* scopes that may be without usage
    Plain,              \* the panels that always ask for the same: people
    Tabs,               \* the breakdowns that share the tabbed panel
    None,               \* no key
    MaxFailures,        \* bound: how many requests fail
    MaxJoined           \* bound: how many requests Refresh finds already read

ASSUME PanelsAssumption ==
    /\ {"summary", "tabbed", "drawer"} \cap (Plain \cup Tabs) = {}
    /\ Fixed \subseteq Scopes /\ Quiet \subseteq Scopes
    /\ None \notin Scopes /\ {MaxFailures, MaxJoined} \subseteq Nat

Panels == {"summary", "tabbed", "drawer"} \cup Plain
Keys == Scopes \X ({"summary", "drawer"} \cup Plain \cup Tabs)

VARIABLES
    page, scope, tab, drawer,           \* what the user chose
    data, failed, invalid, fetching,    \* the query cache, per key
    seen,                               \* per key: when the response at hand was read
    last,                               \* per panel: the key it last had data of
    failures                            \* how many requests have failed

choiceVars == <<page, scope, tab, drawer>>
cacheVars  == <<data, failed, invalid, fetching>>
vars == <<choiceVars, cacheVars, seen, last, failures>>

(* joined: Refresh found it under way, and its response already read.      *)
Requests == {"no", "sent", "joined"}

(* Since the last Refresh of its window (now); before it, by a request it  *)
(* joined (joined) or that it found answered (before).                     *)
Moments == {"none", "now", "joined", "before"}

TypeOK ==
    /\ page \in {"usage", "limits"} /\ scope \in Scopes /\ tab \in Tabs /\ drawer \in BOOLEAN
    /\ data \in [Keys -> {"none", "some", "empty"}]
    /\ failed \in [Keys -> BOOLEAN] /\ invalid \in [Keys -> BOOLEAN]
    /\ fetching \in [Keys -> Requests] /\ seen \in [Keys -> Moments]
    /\ last \in [Panels -> Keys \cup {None}]
    /\ failures \in 0..MaxFailures

Init ==
    /\ page = "limits" /\ scope \in Scopes /\ tab \in Tabs /\ drawer = FALSE
    /\ data = [k \in Keys |-> "none"] /\ failed = [k \in Keys |-> FALSE]
    /\ invalid = [k \in Keys |-> FALSE] /\ fetching = [k \in Keys |-> "no"]
    /\ seen = [k \in Keys |-> "none"] /\ last = [p \in Panels |-> None] /\ failures = 0

-----------------------------------------------------------------------------
(* What is on the screen.                                                  *)

Key(p) == <<scope, IF p = "tabbed" THEN tab ELSE p>>

Mounted == IF page = "limits" THEN {} ELSE IF drawer THEN Panels ELSE Panels \ {"drawer"}

Observed == {Key(p) : p \in Mounted}

\* a request without a response is pending while it is repeated
IsError(k) == failed[k] /\ (data[k] # "none" \/ fetching[k] = "no")

Response(k, previous) ==
    CASE IsError(k) -> None
      [] ~IsError(k) /\ data[k] # "none" -> k
      [] OTHER -> previous

\* the key of the response a panel shows; the tabbed panel's previous one may
\* be another tab's
Shown(p) == LET k == Response(Key(p), last[p])
            IN  IF p = "tabbed" /\ k # None /\ k[2] # tab THEN None ELSE k

\* the page shows no panels without a summary, nor with an empty one
Totals == Shown("summary")
IsEmpty == Totals # None /\ data[Totals] = "empty"
Visible == {p \in Mounted : p = "drawer" \/ (Totals # None /\ ~IsEmpty)}

Busy(p) == fetching[Key(p)] # "no"

-----------------------------------------------------------------------------
(* Panels observe their keys.  Showing a panel asks for its response unless *)
(* it is there and valid, or was refused; giving it another key asks again  *)
(* for one that was refused.  What is asked for while it is under way joins *)
(* that request; one that nobody observes is aborted.                      *)

\* only a panel that comes into view asks
AskOnMount(p) == p \notin Mounted /\ (data[Key(p)'] = "none" \/ invalid[Key(p)'])

\* a response is asked for again each time it comes into view
AskAlways(p) == TRUE

\* a response is kept, whether or not it is valid
AskMissing(p) == data[Key(p)'] = "none"

Asks(p) == IF p \notin Mounted
           THEN IF data[Key(p)'] = "none" THEN ~failed[Key(p)'] ELSE invalid[Key(p)']
           ELSE Key(p)' # Key(p) /\ (data[Key(p)'] = "none" \/ invalid[Key(p)'])

\* what is under way is left to end
KeepsRunning(k) == fetching[k] # "no"

Goes(k) == fetching[k] # "no" /\ k \in Observed'

Observe(asked, joined) ==
    /\ LET needed == asked \cup {Key(p)' : p \in {q \in Mounted' : Asks(q)}}
       IN  fetching' = [k \in Keys |-> IF Goes(k) THEN IF k \in joined THEN "joined" ELSE fetching[k]
                                       ELSE IF k \in needed THEN "sent" ELSE "no"]
    /\ last' = [p \in Panels |->
          IF p \notin Mounted' THEN None
          ELSE IF data[Key(p)'] # "none" THEN Key(p)' ELSE last[p]]
    /\ UNCHANGED <<data, failed, failures>>

\* a link to the page, the saved view, or a bookmark of any other
Visit == /\ page = "limits" /\ page' = "usage"
         /\ scope' \in Scopes /\ tab' \in Tabs /\ drawer' \in BOOLEAN
         /\ UNCHANGED <<invalid, seen>> /\ Observe({}, {})

Leave == /\ page = "usage" /\ page' = "limits" /\ drawer' = FALSE
         /\ UNCHANGED <<scope, tab, invalid, seen>> /\ Observe({}, {})

\* another range or other filters
Pick == /\ page = "usage" /\ scope' \in Scopes \ {scope}
        /\ UNCHANGED <<page, tab, drawer, invalid, seen>> /\ Observe({}, {})

SwitchTab == /\ "tabbed" \in Visible /\ tab' \in Tabs \ {tab}
             /\ UNCHANGED <<page, scope, drawer, invalid, seen>> /\ Observe({}, {})

\* a click on a row, which a dimmed panel still takes
OpenDrawer == /\ ~drawer /\ \E p \in Visible \ {"summary"} : Shown(p) # None
              /\ drawer' = TRUE
              /\ UNCHANGED <<page, scope, tab, invalid, seen>> /\ Observe({}, {})

\* the page may be filtered to what the drawer was of
CloseDrawer == /\ drawer /\ drawer' = FALSE
               /\ scope' \in {s \in Scopes : WindowOf[s] = WindowOf[scope]}
               /\ UNCHANGED <<page, tab, invalid, seen>> /\ Observe({}, {})

\* the window of a rolling range changes with its keys; in an unchanged window
\* every response is invalid, and those on the screen are asked for again;
\* some of what is under way the server has read before
Refresh ==
    /\ page = "usage" /\ UNCHANGED <<page, tab, drawer>>
    /\ \/ /\ scope \notin Fixed /\ scope' \in {s \in Scopes : WindowOf[s] # WindowOf[scope]}
          /\ UNCHANGED <<invalid, seen>> /\ Observe({}, {})
       \/ /\ scope \in Fixed /\ UNCHANGED scope
          /\ invalid' = [k \in Keys |->
                data[k] # "none" /\ (invalid[k] \/ WindowOf[k[1]] = WindowOf[scope])]
          /\ seen' = [k \in Keys |->
                IF data[k] # "none" /\ WindowOf[k[1]] = WindowOf[scope] THEN "before" ELSE seen[k]]
          /\ \E read \in SUBSET {k \in Observed : fetching[k] = "sent"} :
                /\ Cardinality(read \cup {k \in Keys : "joined" \in {fetching[k], seen[k]}}) <= MaxJoined
                /\ Observe(Observed, read)

-----------------------------------------------------------------------------
(* The server answers, with an error or not.                               *)

Answer(k) ==
    /\ fetching[k] # "no" /\ fetching' = [fetching EXCEPT ![k] = "no"]
    /\ seen' = [seen EXCEPT ![k] = IF fetching[k] = "joined" THEN "joined" ELSE "now"]
    /\ \E d \in {"some"} \cup (IF k[2] = "summary" /\ k[1] \in Quiet THEN {"empty"} ELSE {}) :
          data' = [data EXCEPT ![k] = d]
    /\ failed' = [failed EXCEPT ![k] = FALSE] /\ invalid' = [invalid EXCEPT ![k] = FALSE]
    /\ last' = [p \in Panels |-> IF p \in Mounted /\ Key(p) = k THEN k ELSE last[p]]
    /\ UNCHANGED <<choiceVars, failures>>

Fail(k) ==
    /\ fetching[k] # "no" /\ fetching' = [fetching EXCEPT ![k] = "no"]
    /\ failures < MaxFailures /\ failures' = failures + 1
    /\ failed' = [failed EXCEPT ![k] = TRUE] /\ invalid' = [invalid EXCEPT ![k] = data[k] # "none"]
    /\ UNCHANGED <<choiceVars, data, seen, last>>

Next == \/ Visit \/ Leave \/ Pick \/ SwitchTab \/ OpenDrawer \/ CloseDrawer \/ Refresh
        \/ \E k \in Keys : Answer(k) \/ Fail(k)

Spec == Init /\ [][Next]_vars

\* while there are requests, one is answered some day; the user may never do anything
Fairness == WF_vars(\E k \in Keys : Answer(k) \/ Fail(k))
FairSpec == Spec /\ Fairness

-----------------------------------------------------------------------------
(* Properties.                                                             *)

(* A panel that is neither dimmed nor failed shows what it asks for, and   *)
(* that arrived since the last Refresh of its window, however its key came *)
(* and went.  It may have been read before, by a request that was under    *)
(* way: refresh() joins it (useUsageQueries.ts:51).                        *)
UndimmedIsCurrent ==
    \A p \in Visible : Shown(p) # None /\ ~Busy(p) =>
        Shown(p) = Key(p) /\ seen[Key(p)] \in {"now", "joined"}

(* The browser runs no request that nothing on the page waits for.         *)
NothingRunsUnseen == \A k \in Keys : fetching[k] # "no" => k \in Observed

(* A response that was seen and is still valid is shown again without a    *)
(* request, whichever way the page comes back to it.                       *)
SeenIsNotAskedAgain ==
    [][(\E k \in Keys : /\ data[k] # "none" /\ ~invalid[k]
                        /\ fetching[k] = "no" /\ fetching'[k] # "no") => Refresh]_vars

(* Once the user pauses, each panel on the page shows its own response or  *)
(* its failure: none goes on showing the one before, or a spinner.         *)
PanelsSettle ==
    <>[][\E k \in Keys : Answer(k) \/ Fail(k)]_vars
      => <>[](\A p \in Mounted : IsError(Key(p)) \/ Shown(p) = Key(p))

(* Refresh fetches every request of the view again, in an unchanged window *)
(* too (tanstack-query-migration.md:27): what is then shown undimmed was   *)
(* read since.                                                             *)
RefreshReadsAgain ==
    \A p \in Visible : Shown(p) # None /\ ~Busy(p) => seen[Key(p)] = "now"

(* Whatever on the page was read in an earlier window is dimmed: also the  *)
(* note that there is no usage, and the total of which the drawer shows    *)
(* its entity's share.                                                     *)
EarlierIsDimmed ==
    /\ page = "usage" /\ IsEmpty => WindowOf[Totals[1]] = WindowOf[scope]
    /\ "drawer" \in Mounted /\ Shown("drawer") # None /\ ~Busy("drawer") /\ Totals # None
         => WindowOf[Totals[1]] = WindowOf[scope]
=============================================================================
