----------------------------- MODULE QuotaCard -----------------------------
(***************************************************************************)
(* The Limits page of the frontend (pages/QuotaPage.tsx, QuotaCard.tsx,    *)
(* useQuotaQueries.ts): a card per listed account, with its quota query,   *)
(* the confirmation of a manual reset, and the reset mutations.  The user  *)
(* clicks, leaves and comes back while requests are under way.             *)
(*                                                                         *)
(* A quota response is what the card tells apart: whether it offers manual *)
(* resets, and the revision of the account it was read at, the number of   *)
(* its resets spent by then.  The server may answer from its cache, but    *)
(* never with less than what a confirmed reset left when the request came  *)
(* (QuotaService!ResetIsVisible).  A reset posted from a card that is gone *)
(* runs on without it, so the runs are a set of their own.                 *)
(***************************************************************************)
EXTENDS Naturals

CONSTANTS
    Accounts,   \* the accounts the server may list
    Runs,       \* identities for the reset requests under way
    None,       \* no run, no time
    Resets,     \* the manual resets an account starts with
    MaxClock    \* bound: how many confirmations are opened

ASSUME CardAssumption == /\ None \notin Runs /\ None \notin Nat
                         /\ Resets \in Nat /\ MaxClock \in Nat

VARIABLES
    page, listed, listFetch,          \* the page, the listed accounts, their query
    shows, revision, updatedAt,       \* the response a quota query holds
    failed, fetch, floor,             \* its error, its request, what that may answer
    confirmedAt, opened,              \* the confirmation, and what it was opened against
    mine, run, of, credit, here,      \* the run a card watches; the runs and the credit each is for
    spent, confirmed,                 \* the server: resets spent, and spent with a 204
    clock

listVars   == <<page, listed, listFetch>>
dataVars   == <<shows, revision, updatedAt, failed>>
fetchVars  == <<fetch, floor>>
cardVars   == <<confirmedAt, opened, mine>>
runVars    == <<run, of, credit, here>>
serverVars == <<spent, confirmed>>
vars == <<listVars, dataVars, fetchVars, cardVars, runVars, serverVars, clock>>

Kinds == {"resets", "plain"}    \* a count of manual resets, or anything else
InFlight == {"posted", "spent", "refused", "settling"}

TypeOK ==
    /\ page \in {"limits", "elsewhere"} /\ listed \subseteq Accounts
    /\ listFetch \in {"idle", "asked"}
    /\ shows \in [Accounts -> Kinds \cup {"nothing"}]
    /\ revision \in [Accounts -> 0..Resets]
    /\ updatedAt \in [Accounts -> Nat] /\ failed \in [Accounts -> BOOLEAN]
    /\ fetch \in [Accounts -> Kinds \cup {"idle", "asked", "failed"}]
    /\ floor \in [Accounts -> 0..Resets]
    /\ confirmedAt \in [Accounts -> Nat \cup {None}]
    /\ opened \in [Accounts -> (Kinds \cup {"nothing"}) \X (0..Resets)]
    /\ mine \in [Accounts -> Runs \cup {None}]
    /\ run \in [Runs -> InFlight \cup {"free", "success", "error"}]
    /\ of \in [Runs -> Accounts] /\ credit \in [Runs -> 0..Resets]
    /\ here \in [Runs -> BOOLEAN]
    /\ spent \in [Accounts -> 0..Resets] /\ confirmed \in [Accounts -> 0..Resets]
    /\ clock \in Nat

Init ==
    /\ page = "elsewhere" /\ listed = {} /\ listFetch = "idle"
    /\ shows = [a \in Accounts |-> "nothing"] /\ revision = [a \in Accounts |-> 0]
    /\ updatedAt = [a \in Accounts |-> 0] /\ failed = [a \in Accounts |-> FALSE]
    /\ fetch = [a \in Accounts |-> "idle"] /\ floor = [a \in Accounts |-> 0]
    /\ confirmedAt = [a \in Accounts |-> None]
    /\ opened = [a \in Accounts |-> <<"nothing", 0>>]
    /\ mine = [a \in Accounts |-> None]
    /\ run = [r \in Runs |-> "free"] /\ of \in [Runs -> Accounts]
    /\ credit = [r \in Runs |-> 0] /\ here = [r \in Runs |-> FALSE]
    /\ spent = [a \in Accounts |-> 0] /\ confirmed = [a \in Accounts |-> 0]
    /\ clock = 1

-----------------------------------------------------------------------------
(* What is on the screen.                                                  *)

Cards == IF page = "limits" THEN listed ELSE {}

Pending(a) == mine[a] # None /\ run[mine[a]] \in InFlight

\* credits arrive sorted by expiry and are spent in that order
FirstCredit(a) == revision[a] + 1

CanStartReset(a) == shows[a] = "resets" /\ revision[a] < Resets

\* the confirmation is a flag that no refetch clears
StatusOfFlag(a) ==
    CASE Pending(a) -> "loading"
      [] ~Pending(a) /\ confirmedAt[a] # None -> "confirming"
      [] OTHER -> "settled"

\* a running reset wins over the confirmation
Status(a) ==
    CASE Pending(a) -> "loading"
      [] ~Pending(a) /\ confirmedAt[a] = updatedAt[a] -> "confirming"
      [] OTHER -> "settled"

\* Refresh stays enabled while a reset is loading
RefreshAlways(a) == TRUE

RefreshEnabled(a) == Status(a) # "loading" \/ (shows[a] = "nothing" /\ failed[a])

-----------------------------------------------------------------------------
(* Mounting and unmounting.  A card that mounts asks for its quota, joining *)
(* no older request since none outlives its card; a card that goes takes    *)
(* its request, its confirmation and its view of its reset with it.         *)

Mount(M) ==
    /\ fetch' = [a \in Accounts |-> IF a \in M THEN "asked"
                                    ELSE IF a \in Cards' THEN fetch[a] ELSE "idle"]
    /\ floor' = [a \in Accounts |-> IF a \in M THEN confirmed[a] ELSE floor[a]]
    /\ failed' = [a \in Accounts |->
                    IF a \in M /\ shows[a] = "nothing" THEN FALSE ELSE failed[a]]

Unmount(U) ==
    /\ confirmedAt' = [a \in Accounts |-> IF a \in U THEN None ELSE confirmedAt[a]]
    /\ mine' = [a \in Accounts |-> IF a \in U THEN None ELSE mine[a]]
    /\ run' = [r \in Runs |->
                 IF of[r] \in U /\ run[r] \in {"settling", "success", "error"}
                 THEN "free" ELSE run[r]]
    /\ here' = [r \in Runs |-> here[r] /\ of[r] \notin U]

Remount == /\ Mount(Cards' \ Cards) /\ Unmount(Cards \ Cards')
           /\ UNCHANGED <<shows, revision, updatedAt, opened, of, credit, serverVars, clock>>

Visit == /\ page = "elsewhere" /\ page' = "limits"
         /\ listFetch' = "asked" /\ UNCHANGED listed
         /\ Remount

Leave == /\ page = "limits" /\ page' = "elsewhere"
         /\ listFetch' = "idle" /\ UNCHANGED listed
         /\ Remount

ListArrives == /\ listFetch = "asked" /\ listFetch' = "idle"
               /\ listed' \in SUBSET Accounts /\ UNCHANGED page
               /\ Remount

\* 503 or any other error: a banner over the cards listed before
ListFails == /\ listFetch = "asked" /\ listFetch' = "idle"
             /\ UNCHANGED <<page, listed, dataVars, fetchVars, cardVars, runVars,
                            serverVars, clock>>

-----------------------------------------------------------------------------
(* The quota query.  A refetch replaces the request under way when there is *)
(* a response to go on showing, and joins it otherwise.                     *)

\* the invalidation joins a refresh in flight (cancelRefetch: false)
JoinsAny(a) == fetch[a] # "idle"

\* a refetch starts over although there is nothing to show yet
JoinsNone(a) == FALSE

Joins(a) == fetch[a] # "idle" /\ shows[a] = "nothing"

Refetch(a) ==
    IF Joins(a) THEN UNCHANGED <<fetchVars, failed>>
    ELSE /\ fetch' = [fetch EXCEPT ![a] = "asked"]
         /\ floor' = [floor EXCEPT ![a] = confirmed[a]]
         /\ failed' = [failed EXCEPT ![a] = failed[a] /\ shows[a] # "nothing"]

\* Refresh in the footer, or Retry in the body
Refresh(a) == /\ a \in Cards /\ RefreshEnabled(a)
              /\ Refetch(a)
              /\ UNCHANGED <<listVars, shows, revision, updatedAt, cardVars, runVars,
                             serverVars, clock>>

ServerReads(a) ==
    /\ fetch[a] = "asked"
    /\ \/ /\ fetch' \in {[fetch EXCEPT ![a] = k] : k \in Kinds}
          /\ floor' \in {[floor EXCEPT ![a] = n] : n \in floor[a]..spent[a]}
       \/ fetch' = [fetch EXCEPT ![a] = "failed"] /\ UNCHANGED floor
    /\ UNCHANGED <<listVars, dataVars, cardVars, runVars, serverVars, clock>>

\* the resets that wait for this refetch settle with it, however it ended
Settle(a) == run' = [r \in Runs |->
    CASE of[r] = a /\ run[r] = "settling" -> IF mine[a] = r THEN "success" ELSE "free"
      [] OTHER -> run[r]]

QuotaArrives(a) ==
    /\ fetch[a] \in Kinds
    /\ shows' = [shows EXCEPT ![a] = fetch[a]]
    /\ revision' = [revision EXCEPT ![a] = floor[a]]
    /\ updatedAt' = [updatedAt EXCEPT ![a] = clock]
    /\ failed' = [failed EXCEPT ![a] = FALSE]
    /\ fetch' = [fetch EXCEPT ![a] = "idle"]
    /\ Settle(a)
    /\ UNCHANGED <<listVars, floor, cardVars, of, credit, here, serverVars, clock>>

QuotaFails(a) ==
    /\ fetch[a] = "failed"
    /\ failed' = [failed EXCEPT ![a] = TRUE]
    /\ fetch' = [fetch EXCEPT ![a] = "idle"]
    /\ Settle(a)
    /\ UNCHANGED <<listVars, shows, revision, updatedAt, floor, cardVars, of, credit, here,
                   serverVars, clock>>

-----------------------------------------------------------------------------
(* The manual reset.  A click that opens a confirmation comes at least a    *)
(* millisecond after the response it is opened against.                     *)

Watch(a, r) ==  \* the card's observer turns to r; a finished run it leaves is forgotten
    /\ mine' = [mine EXCEPT ![a] = r]
    /\ run' = [s \in Runs |-> IF s = r THEN "posted"
                              ELSE IF s = mine[a] /\ run[s] \notin InFlight THEN "free" ELSE run[s]]

\* the reset button is not disabled while a reset runs
RequestResetAnyTime(a) ==
    /\ a \in Cards /\ CanStartReset(a) /\ Status(a) # "confirming"
    /\ clock < MaxClock /\ clock' = clock + 1
    /\ Watch(a, None)
    /\ confirmedAt' = [confirmedAt EXCEPT ![a] = updatedAt[a]]
    /\ opened' = [opened EXCEPT ![a] = <<shows[a], revision[a]>>]
    /\ UNCHANGED <<listVars, dataVars, fetchVars, of, credit, here, serverVars>>

RequestReset(a) ==
    /\ a \in Cards /\ CanStartReset(a) /\ Status(a) = "settled"
    /\ clock < MaxClock /\ clock' = clock + 1
    /\ Watch(a, None)
    /\ confirmedAt' = [confirmedAt EXCEPT ![a] = updatedAt[a]]
    /\ opened' = [opened EXCEPT ![a] = <<shows[a], revision[a]>>]
    /\ UNCHANGED <<listVars, dataVars, fetchVars, of, credit, here, serverVars>>

Confirming(a) == a \in Cards /\ CanStartReset(a) /\ Status(a) = "confirming"

CancelReset(a) ==
    /\ Confirming(a)
    /\ confirmedAt' = [confirmedAt EXCEPT ![a] = None]
    /\ UNCHANGED <<listVars, dataVars, fetchVars, opened, mine, runVars, serverVars, clock>>

ConfirmReset(a, r) ==
    /\ Confirming(a) /\ run[r] = "free"
    /\ confirmedAt' = [confirmedAt EXCEPT ![a] = None]
    /\ Watch(a, r)
    /\ of' = [of EXCEPT ![r] = a] /\ here' = [here EXCEPT ![r] = TRUE]
    /\ credit' = [credit EXCEPT ![r] = FirstCredit(a)]
    /\ UNCHANGED <<listVars, dataVars, fetchVars, opened, serverVars, clock>>

\* the server spends a reset and says so, refuses, or spends one and its answer is lost
ServerResets(r) ==
    /\ run[r] = "posted"
    /\ LET a == of[r] IN
       \/ /\ spent[a] < Resets
          /\ spent' = [spent EXCEPT ![a] = @ + 1]
          /\ credit' = [credit EXCEPT ![r] = spent[a] + 1]
          /\ \/ /\ confirmed' = [confirmed EXCEPT ![a] = spent[a] + 1]
                /\ run' = [run EXCEPT ![r] = "spent"]
             \/ run' = [run EXCEPT ![r] = "refused"] /\ UNCHANGED confirmed
       \/ run' = [run EXCEPT ![r] = "refused"] /\ UNCHANGED <<serverVars, credit>>
    /\ UNCHANGED <<listVars, dataVars, fetchVars, cardVars, of, here, clock>>

\* the invalidation also fetches quotas that no card shows (refetchType: "all")
ResetRefetchesAll(r) ==
    /\ run[r] = "spent" /\ Refetch(of[r])
    /\ run' = [run EXCEPT ![r] = "settling"]
    /\ UNCHANGED <<listVars, shows, revision, updatedAt, cardVars, of, credit, here,
                   serverVars, clock>>

\* onSuccess invalidates the account's quota, which is fetched anew if a card shows it
ResetSucceeds(r) ==
    /\ run[r] = "spent"
    /\ LET a == of[r] IN
       \/ /\ a \in Cards /\ Refetch(a)
          /\ run' = [run EXCEPT ![r] = "settling"]
       \/ /\ a \notin Cards /\ UNCHANGED <<fetchVars, failed>>
          /\ run' = [run EXCEPT ![r] = "free"]
    /\ UNCHANGED <<listVars, shows, revision, updatedAt, cardVars, of, credit, here,
                   serverVars, clock>>

ResetFails(r) ==
    /\ run[r] = "refused"
    /\ run' = [run EXCEPT ![r] = IF mine[of[r]] = r THEN "error" ELSE "free"]
    /\ UNCHANGED <<listVars, dataVars, fetchVars, cardVars, of, credit, here, serverVars, clock>>

Clicks(a) == \/ Refresh(a) \/ RequestReset(a) \/ CancelReset(a)
             \/ \E r \in Runs : ConfirmReset(a, r)
Answers(a) == ServerReads(a) \/ QuotaArrives(a) \/ QuotaFails(a)
RunStep(r) == ServerResets(r) \/ ResetSucceeds(r) \/ ResetFails(r)

Next == \/ Visit \/ Leave \/ ListArrives \/ ListFails
        \/ \E a \in Accounts : Clicks(a) \/ Answers(a)
        \/ \E r \in Runs : RunStep(r)

Spec == Init /\ [][Next]_vars

\* every request is answered or fails, and the browser delivers what arrived
Fairness == /\ \A a \in Accounts : WF_vars(Answers(a))
            /\ \A r \in Runs : WF_vars(RunStep(r))

FairSpec == Spec /\ Fairness

-----------------------------------------------------------------------------
(* Properties.                                                             *)

\* A reset is posted (onConfirmReset) only while the card shows the response its confirmation
\* was opened against, whatever refreshes, resets and visits came in between.
ConfirmedIsShown ==
    [][\A r \in Runs : run[r] = "free" /\ run'[r] = "posted" =>
         LET a == of'[r] IN opened[a] = <<shows[a], revision[a]>>]_vars

\* During one visit to a card it has at most one reset under way (the buttons of renderReset).
OneResetAtATime ==
    \A r, s \in {q \in Runs : here[q] /\ run[q] \in InFlight} : of[r] = of[s] => r = s

\* When the card says "Manual reset consumed." and the last refetch did not fail, the response it
\* shows was read after that reset: no refresh begun before it had the last word (useQuotaReset).
SettledIsFresh ==
    \A a \in Accounts :
        mine[a] # None /\ run[mine[a]] = "success" /\ ~failed[a] => credit[mine[a]] <= revision[a]

\* No quota request is under way for an account without a card: requests die with the card that
\* made them, and a reset that succeeds after it starts none (invalidateQueries, active only).
RequestsHaveCards == \A a \in Accounts : fetch[a] # "idle" => a \in Cards

\* A reset posted from a card settles, or the card goes; refreshing cannot put that off for ever.
ResetSettles ==
    \A r \in Runs : (run[r] = "posted" /\ here[r]) ~> (run[r] \notin InFlight \/ ~here[r])

\* A card with nothing to show gets a response or an error, however often Refresh is clicked.
FirstLoadEnds ==
    \A a \in Accounts : (a \in Cards /\ shows[a] = "nothing")
                        ~> (a \notin Cards \/ shows[a] # "nothing" \/ failed[a])

\* "Credits arrive sorted by expiry, so the first row is the credit a reset spends."
\* (QuotaCard.tsx:114): a reset spends the credit its confirmation pointed at.
SpendsTheShownCredit ==
    [][\A r \in Runs : run[r] = "posted" /\ spent'[of[r]] # spent[of[r]] =>
         \/ credit'[r] = credit[r]
         \/ run'[r] = "posted"]_vars
=============================================================================
