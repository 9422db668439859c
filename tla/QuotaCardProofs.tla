-------------------------- MODULE QuotaCardProofs --------------------------
(***************************************************************************)
(* What the Limits page promises, for any number of accounts, requests,    *)
(* resets and clicks.  Every property but two is inductive with the types; *)
(* the two need FreshInv (what a run under way or settled has spent, the   *)
(* requests answer) and OpenInv (a confirmation's time is in the past).    *)
(***************************************************************************)
EXTENDS QuotaCard, TLAPS

USE CardAssumption

-----------------------------------------------------------------------------
(* Types.                                                                  *)

LEMMA RemountTypes ==
    ASSUME TypeOK, Remount, page' \in {"limits", "elsewhere"}, listed' \subseteq Accounts,
           listFetch' \in {"idle", "asked"}
    PROVE  TypeOK'
<1>1. fetch' \in [Accounts -> Kinds \cup {"idle", "asked", "failed"}]
  BY DEF TypeOK, Remount, Mount
<1>2. floor' \in [Accounts -> 0..Resets] /\ failed' \in [Accounts -> BOOLEAN]
  BY DEF TypeOK, Remount, Mount
<1>3. confirmedAt' \in [Accounts -> Nat \cup {None}] /\ mine' \in [Accounts -> Runs \cup {None}]
  BY DEF TypeOK, Remount, Unmount
<1>4. run' \in [Runs -> InFlight \cup {"free", "success", "error"}]
  BY DEF TypeOK, Remount, Unmount
<1>5. here' \in [Runs -> BOOLEAN]
  BY DEF TypeOK, Remount, Unmount
<1> QED  BY <1>1, <1>2, <1>3, <1>4, <1>5 DEF TypeOK, Remount, serverVars

LEMMA RefetchTypes ==
    ASSUME TypeOK, NEW a \in Accounts, Refetch(a)
    PROVE  /\ fetch' \in [Accounts -> Kinds \cup {"idle", "asked", "failed"}]
           /\ floor' \in [Accounts -> 0..Resets] /\ failed' \in [Accounts -> BOOLEAN]
<1>1. CASE Joins(a)   BY <1>1 DEF TypeOK, Refetch, fetchVars
<1>2. CASE ~Joins(a)
  <2>1. fetch' \in [Accounts -> Kinds \cup {"idle", "asked", "failed"}]
    BY <1>2 DEF TypeOK, Refetch
  <2>2. floor' \in [Accounts -> 0..Resets]
    BY <1>2 DEF TypeOK, Refetch
  <2>3. failed' = [failed EXCEPT ![a] = failed[a] /\ shows[a] # "nothing"]
    BY <1>2 DEF Refetch
  <2>4. (failed[a] /\ shows[a] # "nothing") \in BOOLEAN
    OBVIOUS
  <2>5. failed' \in [Accounts -> BOOLEAN]
    BY <2>3, <2>4 DEF TypeOK
  <2> QED  BY <2>1, <2>2, <2>5
<1> QED  BY <1>1, <1>2

LEMMA WatchTypes ==
    ASSUME TypeOK, NEW a \in Accounts, NEW r \in Runs \cup {None}, Watch(a, r)
    PROVE  /\ mine' \in [Accounts -> Runs \cup {None}]
           /\ run' \in [Runs -> InFlight \cup {"free", "success", "error"}]
  BY DEF TypeOK, Watch, InFlight

LEMMA SettleTypes ==
    ASSUME TypeOK, NEW a \in Accounts, Settle(a)
    PROVE  run' \in [Runs -> InFlight \cup {"free", "success", "error"}]
  BY DEF TypeOK, Settle, InFlight

LEMMA ServerResetsTypes ==
    ASSUME TypeOK, NEW r \in Runs, ServerResets(r)
    PROVE  /\ spent' \in [Accounts -> 0..Resets] /\ confirmed' \in [Accounts -> 0..Resets]
           /\ credit' \in [Runs -> 0..Resets]
           /\ run' \in [Runs -> InFlight \cup {"free", "success", "error"}]
<1> DEFINE a == of[r]
<1>1. a \in Accounts
  BY DEF TypeOK
<1>2. CASE UNCHANGED <<serverVars, credit>> /\ run' = [run EXCEPT ![r] = "refused"]
  BY <1>2 DEF TypeOK, serverVars, InFlight
<1>3. CASE /\ spent[a] < Resets /\ spent' = [spent EXCEPT ![a] = spent[a] + 1]
           /\ credit' = [credit EXCEPT ![r] = spent[a] + 1]
           /\ \/ /\ confirmed' = [confirmed EXCEPT ![a] = spent[a] + 1]
                 /\ run' = [run EXCEPT ![r] = "spent"]
              \/ run' = [run EXCEPT ![r] = "refused"] /\ UNCHANGED confirmed
  <2>1. spent[a] + 1 \in 0..Resets
    BY <1>1, <1>3 DEF TypeOK
  <2> HIDE DEF a
  <2>2. spent' \in [Accounts -> 0..Resets] /\ credit' \in [Runs -> 0..Resets]
    BY <1>1, <1>3, <2>1 DEF TypeOK
  <2>3. confirmed' \in [Accounts -> 0..Resets]
    BY <1>1, <1>3, <2>1 DEF TypeOK
  <2>4. run' \in [Runs -> InFlight \cup {"free", "success", "error"}]
    BY <1>3 DEF TypeOK, InFlight
  <2> QED  BY <2>2, <2>3, <2>4
<1> QED  BY <1>2, <1>3 DEF ServerResets

\* What a component of the page's state holds has its type (useQuotaQueries.ts, QuotaPage.tsx).
THEOREM TypeCorrect == Spec => []TypeOK
<1>1. Init => TypeOK
  BY DEF Init, TypeOK, Kinds, InFlight
<1>2. ASSUME TypeOK, [Next]_vars PROVE TypeOK'
  <2> USE DEF listVars, dataVars, fetchVars, cardVars, runVars, serverVars
  <2>1. CASE Visit      BY <2>1, <1>2, RemountTypes DEF Visit, TypeOK
  <2>2. CASE Leave      BY <2>2, <1>2, RemountTypes DEF Leave, TypeOK
  <2>3. CASE ListArrives BY <2>3, <1>2, RemountTypes DEF ListArrives, TypeOK
  <2>4. CASE ListFails  BY <2>4, <1>2 DEF ListFails, TypeOK
  <2>5. ASSUME NEW a \in Accounts, Refresh(a) PROVE TypeOK'
    BY <2>5, <1>2, RefetchTypes DEF Refresh, TypeOK
  <2>6. ASSUME NEW a \in Accounts, RequestReset(a) PROVE TypeOK'
    <3>1. /\ mine' \in [Accounts -> Runs \cup {None}]
          /\ run' \in [Runs -> InFlight \cup {"free", "success", "error"}]
      BY <2>6, <1>2, WatchTypes DEF RequestReset
    <3>2. confirmedAt' \in [Accounts -> Nat \cup {None}] /\ clock' \in Nat
      BY <2>6, <1>2 DEF RequestReset, TypeOK
    <3>3. opened' \in [Accounts -> (Kinds \cup {"nothing"}) \X (0..Resets)]
      BY <2>6, <1>2 DEF RequestReset, TypeOK
    <3> QED  BY <2>6, <1>2, <3>1, <3>2, <3>3 DEF RequestReset, TypeOK
  <2>7. ASSUME NEW a \in Accounts, CancelReset(a) PROVE TypeOK'
    BY <2>7, <1>2 DEF CancelReset, TypeOK
  <2>8. ASSUME NEW a \in Accounts, NEW r \in Runs, ConfirmReset(a, r) PROVE TypeOK'
    <3>1. /\ mine' \in [Accounts -> Runs \cup {None}]
          /\ run' \in [Runs -> InFlight \cup {"free", "success", "error"}]
      BY <2>8, <1>2, WatchTypes DEF ConfirmReset
    <3>2. FirstCredit(a) \in 0..Resets
      BY <2>8, <1>2 DEF ConfirmReset, Confirming, CanStartReset, FirstCredit, TypeOK
    <3> QED  BY <2>8, <1>2, <3>1, <3>2 DEF ConfirmReset, TypeOK
  <2>9. ASSUME NEW a \in Accounts, ServerReads(a) PROVE TypeOK'
    BY <2>9, <1>2 DEF ServerReads, TypeOK
  <2>10. ASSUME NEW a \in Accounts, QuotaArrives(a) PROVE TypeOK'
    BY <2>10, <1>2, SettleTypes DEF QuotaArrives, TypeOK
  <2>11. ASSUME NEW a \in Accounts, QuotaFails(a) PROVE TypeOK'
    BY <2>11, <1>2, SettleTypes DEF QuotaFails, TypeOK
  <2>12. ASSUME NEW r \in Runs, ServerResets(r) PROVE TypeOK'
    BY <2>12, <1>2, ServerResetsTypes DEF ServerResets, TypeOK
  <2>13. ASSUME NEW r \in Runs, ResetSucceeds(r) PROVE TypeOK'
    BY <2>13, <1>2, RefetchTypes DEF ResetSucceeds, TypeOK, InFlight
  <2>14. ASSUME NEW r \in Runs, ResetFails(r) PROVE TypeOK'
    BY <2>14, <1>2 DEF ResetFails, TypeOK
  <2>15. CASE UNCHANGED vars  BY <2>15, <1>2 DEF vars, TypeOK
  <2> QED  BY <1>2, <2>1, <2>2, <2>3, <2>4, <2>5, <2>6, <2>7, <2>8, <2>9, <2>10, <2>11,
              <2>12, <2>13, <2>14, <2>15 DEF Next, Clicks, Answers, RunStep
<1> QED  BY <1>1, <1>2, PTL DEF Spec

-----------------------------------------------------------------------------
(* The steps, as the properties see them.                                  *)

LEMMA StepCases ==
    ASSUME [Next]_vars
    PROVE  \/ Remount
           \/ \E a \in Accounts : Refresh(a) \/ RequestReset(a) \/ CancelReset(a)
           \/ \E a \in Accounts : ServerReads(a) \/ QuotaArrives(a) \/ QuotaFails(a)
           \/ \E a \in Accounts, r \in Runs : ConfirmReset(a, r)
           \/ \E r \in Runs : ServerResets(r) \/ ResetSucceeds(r) \/ ResetFails(r)
           \/ UNCHANGED <<page, listed, dataVars, fetchVars, cardVars, runVars, serverVars, clock>>
  BY DEF Next, vars, Visit, Leave, ListArrives, ListFails, Clicks, Answers, RunStep, listVars

LEMMA CardsStay ==
    ASSUME UNCHANGED <<page, listed>>
    PROVE  Cards' = Cards
  BY DEF Cards

\* Whatever is asked for has a card (RequestsHaveCards).
THEOREM RequestsBelongToCards == Spec => []RequestsHaveCards
<1>1. Init => RequestsHaveCards
  BY DEF Init, RequestsHaveCards
<1>2. ASSUME TypeOK, RequestsHaveCards, [Next]_vars PROVE RequestsHaveCards'
  <2> SUFFICES ASSUME NEW b \in Accounts, fetch'[b] # "idle" PROVE b \in Cards'
    BY DEF RequestsHaveCards
  <2> USE DEF listVars, dataVars, fetchVars, cardVars, runVars, serverVars
  <2>0. fetch[b] # "idle" => b \in Cards
    BY <1>2 DEF RequestsHaveCards
  <2>1. CASE Remount
    BY <2>1, <1>2, <2>0 DEF Remount, Mount, TypeOK
  <2>2. ASSUME NEW a \in Accounts, Refresh(a) PROVE b \in Cards'
    BY <2>2, <1>2, <2>0, CardsStay DEF Refresh, Refetch, TypeOK
  <2>3. ASSUME NEW a \in Accounts, RequestReset(a) \/ CancelReset(a) PROVE b \in Cards'
    BY <2>3, <2>0, CardsStay DEF RequestReset, CancelReset
  <2>4. ASSUME NEW a \in Accounts, ServerReads(a) PROVE b \in Cards'
    BY <2>4, <1>2, <2>0, CardsStay DEF ServerReads, TypeOK
  <2>5. ASSUME NEW a \in Accounts, QuotaArrives(a) \/ QuotaFails(a) PROVE b \in Cards'
    BY <2>5, <1>2, <2>0, CardsStay DEF QuotaArrives, QuotaFails, TypeOK
  <2>6. ASSUME NEW a \in Accounts, NEW r \in Runs, ConfirmReset(a, r) PROVE b \in Cards'
    BY <2>6, <2>0, CardsStay DEF ConfirmReset
  <2>7. ASSUME NEW r \in Runs, ServerResets(r) \/ ResetFails(r) PROVE b \in Cards'
    BY <2>7, <2>0, CardsStay DEF ServerResets, ResetFails
  <2>8. ASSUME NEW r \in Runs, ResetSucceeds(r) PROVE b \in Cards'
    BY <2>8, <1>2, <2>0, CardsStay DEF ResetSucceeds, Refetch, TypeOK
  <2>9. CASE UNCHANGED <<page, listed, dataVars, fetchVars, cardVars, runVars, serverVars, clock>>
    BY <2>9, <2>0, CardsStay
  <2> QED  BY <1>2, StepCases, <2>1, <2>2, <2>3, <2>4, <2>5, <2>6, <2>7, <2>8, <2>9
<1> QED  BY <1>1, <1>2, TypeCorrect, PTL DEF Spec

-----------------------------------------------------------------------------
(* One reset at a time: a reset under way on its visit is the one its card *)
(* watches.                                                                *)

Watched(r) == here[r] /\ run[r] \in InFlight => mine[of[r]] = r

WatchInv == \A r \in Runs : Watched(r)

LEMMA RunsMoveOn ==  \* steps that only move runs on, or off the page
    ASSUME TypeOK, WatchInv, UNCHANGED <<mine, of, here>>,
           \A r \in Runs : run'[r] \in InFlight => run[r] \in InFlight
    PROVE  WatchInv'
  BY DEF WatchInv, Watched

LEMMA WatchAnother ==
    ASSUME TypeOK, WatchInv, NEW a \in Accounts, ~Pending(a), NEW r \in Runs \cup {None},
           Watch(a, r), NEW s \in Runs, s # r, here[s], run'[s] \in InFlight
    PROVE  mine'[of[s]] = s
<1>1. run[s] \in InFlight /\ of[s] \in Accounts
  BY DEF Watch, TypeOK, InFlight
<1>2. mine[of[s]] = s
  BY <1>1 DEF WatchInv, Watched
<1>3. of[s] # a
  BY <1>1, <1>2 DEF Pending
<1> QED  BY <1>1, <1>2, <1>3 DEF Watch, TypeOK

\* A card never has two resets under way, however quickly it is clicked (renderReset).
THEOREM NeverTwoResets == Spec => []OneResetAtATime
<1>1. Init => WatchInv
  BY DEF Init, WatchInv, Watched
<1>2. ASSUME TypeOK, WatchInv, [Next]_vars PROVE WatchInv'
  <2> USE DEF listVars, dataVars, fetchVars, cardVars, runVars, serverVars
  <2>1. CASE Remount
    <3> SUFFICES ASSUME NEW r \in Runs, here'[r], run'[r] \in InFlight PROVE mine'[of'[r]] = r
      BY DEF WatchInv, Watched
    <3>1. here[r] /\ run[r] \in InFlight /\ of'[r] = of[r] /\ of[r] \in Accounts
          /\ of[r] \notin Cards \ Cards'
      BY <2>1, <1>2 DEF Remount, Unmount, TypeOK, InFlight
    <3> QED  BY <2>1, <1>2, <3>1 DEF Remount, Unmount, WatchInv, Watched, TypeOK
  <2>2. ASSUME NEW a \in Accounts, Refresh(a) \/ CancelReset(a) \/ ServerReads(a) PROVE WatchInv'
    BY <2>2, <1>2, RunsMoveOn DEF Refresh, CancelReset, ServerReads
  <2>3. ASSUME NEW a \in Accounts, RequestReset(a) PROVE WatchInv'
    <3>1. ~Pending(a)
      BY <2>3 DEF RequestReset, Status
    <3> QED  BY <2>3, <1>2, <3>1, WatchAnother DEF RequestReset, WatchInv, Watched
  <2>4. ASSUME NEW a \in Accounts, NEW r \in Runs, ConfirmReset(a, r) PROVE WatchInv'
    <3>1. ~Pending(a)
      BY <2>4 DEF ConfirmReset, Confirming, Status
    <3>2. mine'[of'[r]] = r
      BY <2>4, <1>2 DEF ConfirmReset, Watch, TypeOK
    <3>3. \A s \in Runs \ {r} : of'[s] = of[s] /\ here'[s] = here[s]
      BY <2>4, <1>2 DEF ConfirmReset, TypeOK
    <3> QED  BY <2>4, <1>2, <3>1, <3>2, <3>3, WatchAnother DEF ConfirmReset, WatchInv, Watched
  <2>5. ASSUME NEW a \in Accounts, QuotaArrives(a) \/ QuotaFails(a) PROVE WatchInv'
    <3>1. \A r \in Runs : run'[r] \in InFlight => run[r] \in InFlight
      BY <2>5, <1>2 DEF QuotaArrives, QuotaFails, Settle, InFlight
    <3> QED  BY <2>5, <1>2, <3>1, RunsMoveOn DEF QuotaArrives, QuotaFails
  <2>6. ASSUME NEW r \in Runs, ServerResets(r) PROVE WatchInv'
    <3>1. \A s \in Runs : run'[s] \in InFlight => run[s] \in InFlight
      BY <2>6, <1>2 DEF ServerResets, TypeOK, InFlight
    <3> QED  BY <2>6, <1>2, <3>1, RunsMoveOn DEF ServerResets
  <2>7. ASSUME NEW r \in Runs, ResetSucceeds(r) \/ ResetFails(r) PROVE WatchInv'
    <3>1. \A s \in Runs : run'[s] \in InFlight => run[s] \in InFlight
      BY <2>7, <1>2 DEF ResetSucceeds, ResetFails, TypeOK, InFlight
    <3> QED  BY <2>7, <1>2, <3>1, RunsMoveOn DEF ResetSucceeds, ResetFails
  <2>8. CASE UNCHANGED <<page, listed, dataVars, fetchVars, cardVars, runVars, serverVars, clock>>
    BY <2>8, <1>2, RunsMoveOn
  <2> QED  BY <1>2, StepCases, <2>1, <2>2, <2>3, <2>4, <2>5, <2>6, <2>7, <2>8
<1>3. WatchInv => OneResetAtATime
  BY DEF WatchInv, Watched, OneResetAtATime
<1> QED  BY <1>1, <1>2, <1>3, TypeCorrect, PTL DEF Spec

-----------------------------------------------------------------------------
(* What a card watches is a run for its account that has not ended unseen. *)

Mine(a) == mine[a] # None => a \in Cards /\ of[mine[a]] = a /\ run[mine[a]] # "free"

MineInv == \A a \in Accounts : Mine(a)

LEMMA WatchKeepsOthers ==
    ASSUME TypeOK, MineInv, NEW a \in Accounts, NEW r \in Runs \cup {None}, Watch(a, r),
           r # None => run[r] = "free", NEW b \in Accounts, b # a, mine'[b] # None
    PROVE  mine'[b] = mine[b] /\ run'[mine[b]] # "free" /\ mine[b] # r
<1>1. mine'[b] = mine[b] /\ mine[b] \in Runs
  BY DEF Watch, TypeOK
<1>2. of[mine[b]] = b /\ run[mine[b]] # "free"
  BY <1>1 DEF MineInv, Mine
<1>3. mine[b] # mine[a]
  BY <1>1, <1>2 DEF MineInv, Mine
<1>4. mine[b] # r
  BY <1>1, <1>2
<1> QED  BY <1>1, <1>2, <1>3, <1>4 DEF Watch

LEMMA MineInitially == Init => MineInv
  BY DEF Init, MineInv, Mine

LEMMA MineStep == ASSUME TypeOK, MineInv, [Next]_vars PROVE MineInv'
<1> USE DEF listVars, dataVars, fetchVars, cardVars, runVars, serverVars
<1> SUFFICES ASSUME NEW b \in Accounts, mine'[b] # None
             PROVE  b \in Cards' /\ of'[mine'[b]] = b /\ run'[mine'[b]] # "free"
  BY DEF MineInv, Mine
<1>0. mine[b] # None => mine[b] \in Runs /\ b \in Cards /\ of[mine[b]] = b /\ run[mine[b]] # "free"
  BY DEF MineInv, Mine, TypeOK
<1>1. CASE Remount
  <2>1. mine'[b] = mine[b] /\ b \notin Cards \ Cards'
    BY <1>1 DEF Remount, Unmount, TypeOK
  <2> QED  BY <1>0, <1>1, <2>1 DEF Remount, Unmount, TypeOK
<1>2. ASSUME NEW a \in Accounts, Refresh(a) \/ CancelReset(a) \/ ServerReads(a)
      PROVE  b \in Cards' /\ of'[mine'[b]] = b /\ run'[mine'[b]] # "free"
  BY <1>0, <1>2, CardsStay DEF Refresh, CancelReset, ServerReads
<1>3. ASSUME NEW a \in Accounts, RequestReset(a)
      PROVE  b \in Cards' /\ of'[mine'[b]] = b /\ run'[mine'[b]] # "free"
  <2>1. b # a
    BY <1>3 DEF RequestReset, Watch, TypeOK
  <2>2. mine'[b] = mine[b] /\ run'[mine[b]] # "free"
    BY <1>3, <2>1, WatchKeepsOthers DEF RequestReset
  <2> QED  BY <1>0, <1>3, <2>2, CardsStay DEF RequestReset
<1>4. ASSUME NEW a \in Accounts, NEW r \in Runs, ConfirmReset(a, r)
      PROVE  b \in Cards' /\ of'[mine'[b]] = b /\ run'[mine'[b]] # "free"
  <2>1. CASE b = a
    <3>1. mine'[b] = r /\ of'[r] = a /\ run'[r] = "posted"
      BY <1>4, <2>1 DEF ConfirmReset, Watch, TypeOK
    <3> QED  BY <1>4, <2>1, <3>1, CardsStay DEF ConfirmReset, Confirming
  <2>2. CASE b # a
    <3>1. mine'[b] = mine[b] /\ run'[mine[b]] # "free" /\ mine[b] # r
      BY <1>4, <2>2, WatchKeepsOthers DEF ConfirmReset
    <3>2. of'[mine[b]] = of[mine[b]]
      BY <1>0, <1>4, <3>1 DEF ConfirmReset, TypeOK
    <3> QED  BY <1>0, <1>4, <3>1, <3>2, CardsStay DEF ConfirmReset
  <2> QED  BY <2>1, <2>2
<1>5. ASSUME NEW a \in Accounts, QuotaArrives(a) \/ QuotaFails(a)
      PROVE  b \in Cards' /\ of'[mine'[b]] = b /\ run'[mine'[b]] # "free"
  <2>1. UNCHANGED <<page, listed, mine, of>> /\ Settle(a)
    BY <1>5 DEF QuotaArrives, QuotaFails
  <2>2. mine[b] \in Runs /\ of[mine[b]] = b /\ run[mine[b]] # "free"
    BY <1>0, <2>1
  <2>3. run'[mine[b]] # "free"
    BY <2>1, <2>2 DEF Settle
  <2> QED  BY <1>0, <2>1, <2>3, CardsStay
<1>6. ASSUME NEW r \in Runs, ServerResets(r)
      PROVE  b \in Cards' /\ of'[mine'[b]] = b /\ run'[mine'[b]] # "free"
  BY <1>0, <1>6, CardsStay DEF ServerResets, TypeOK
<1>7. ASSUME NEW r \in Runs, ResetSucceeds(r) \/ ResetFails(r)
      PROVE  b \in Cards' /\ of'[mine'[b]] = b /\ run'[mine'[b]] # "free"
  <2>1. UNCHANGED <<page, listed, mine, of>>
    BY <1>7 DEF ResetSucceeds, ResetFails
  <2>2. run'[mine[b]] # "free"
    BY <1>0, <1>7, <2>1 DEF ResetSucceeds, ResetFails, TypeOK
  <2> QED  BY <1>0, <2>1, <2>2, CardsStay
<1>8. CASE UNCHANGED <<page, listed, dataVars, fetchVars, cardVars, runVars, serverVars, clock>>
  BY <1>0, <1>8, CardsStay
<1> QED  BY StepCases, <1>1, <1>2, <1>3, <1>4, <1>5, <1>6, <1>7, <1>8

-----------------------------------------------------------------------------
(* A reset settles with a response read after it.  What the server         *)
(* confirmed bounds every later answer from below; a run that settles does *)
(* so with an answer that was asked for after it.                          *)

Fresh(r) ==
    LET a == of[r] IN
    /\ run[r] # "free" => shows[a] # "nothing"
    /\ run[r] \in {"spent", "settling", "success"} => credit[r] <= confirmed[a]
    /\ run[r] \in {"settling", "success"} /\ fetch[a] # "idle" => credit[r] <= floor[a]
    /\ run[r] = "settling" => fetch[a] # "idle"
    /\ run[r] = "success" /\ ~failed[a] => credit[r] <= revision[a]

FreshInv == /\ \A r \in Runs : Fresh(r)
            /\ \A a \in Accounts : confirmed[a] <= spent[a]

LEMMA FreshInitially == Init => FreshInv
  BY DEF Init, FreshInv, Fresh

\* a run goes on being fresh while its account's query and the server stay or improve
LEMMA FreshKept ==
    ASSUME TypeOK, TypeOK', NEW r \in Runs, Fresh(r), of'[r] = of[r], credit'[r] = credit[r],
           NEW a, a = of[r],
           run'[r] = run[r], shows'[a] = shows[a], revision'[a] = revision[a],
           confirmed[a] <= confirmed'[a], failed'[a] = failed[a],
           \/ fetch[a] # "idle" /\ fetch'[a] # "idle" /\ floor[a] <= floor'[a]
           \/ fetch'[a] # "idle" /\ floor'[a] = confirmed'[a]
           \/ fetch'[a] = "idle" /\ run[r] # "settling"
    PROVE  Fresh(r)'
<1>1. a \in Accounts /\ of'[r] = a
  BY DEF TypeOK
<1>2. /\ confirmed[a] \in Nat /\ confirmed'[a] \in Nat /\ floor[a] \in Nat /\ floor'[a] \in Nat
      /\ credit[r] \in Nat /\ revision[a] \in Nat
  BY <1>1 DEF TypeOK
<1> QED  BY <1>1, <1>2 DEF Fresh

LEMMA FreshFree ==
    ASSUME NEW r \in Runs, run'[r] = "free" PROVE Fresh(r)'
  BY DEF Fresh

LEMMA RefetchAsks ==
    ASSUME TypeOK, NEW a \in Accounts, Refetch(a), shows[a] # "nothing", NEW b \in Accounts
    PROVE  /\ failed'[b] = failed[b]
           /\ b = a => fetch'[b] = "asked" /\ floor'[b] = confirmed[b]
           /\ b # a => fetch'[b] = fetch[b] /\ floor'[b] = floor[b]
<1>1. fetch' = [fetch EXCEPT ![a] = "asked"] /\ floor' = [floor EXCEPT ![a] = confirmed[a]]
      /\ failed' = [failed EXCEPT ![a] = failed[a] /\ shows[a] # "nothing"]
  BY DEF Refetch, Joins
<1>2. failed[a] \in BOOLEAN
  BY DEF TypeOK
<1>3. (failed[a] /\ shows[a] # "nothing") = failed[a]
  BY <1>2
<1>4. failed' = [failed EXCEPT ![a] = failed[a]]
  BY <1>1, <1>3
<1> QED  BY <1>1, <1>4 DEF TypeOK

LEMMA FreshRemount ==
    ASSUME TypeOK, TypeOK', FreshInv, RequestsHaveCards, Remount
    PROVE  FreshInv'
<1> SUFFICES ASSUME NEW r \in Runs, run'[r] # "free" PROVE Fresh(r)'
  BY FreshFree DEF FreshInv, Remount, serverVars
<1> DEFINE a == of[r]
<1>1. a \in Accounts /\ Fresh(r) /\ of'[r] = a /\ credit'[r] = credit[r] /\ run'[r] = run[r]
  BY DEF TypeOK, FreshInv, Remount, Unmount
<1>2. run[r] = "settling" => a \in Cards /\ a \in Cards'
  BY <1>1 DEF Fresh, RequestsHaveCards, Remount, Unmount
<1>3. shows[a] # "nothing" /\ UNCHANGED <<shows, revision, confirmed>>
  BY <1>1 DEF Fresh, Remount, serverVars
<1>4. failed'[a] = failed[a]
  BY <1>1, <1>3 DEF Remount, Mount, TypeOK
<1>5. CASE a \in Cards' \ Cards
  <2>1. fetch'[a] = "asked" /\ floor'[a] = confirmed'[a] /\ confirmed[a] \in Nat
    BY <1>1, <1>3, <1>5 DEF Remount, Mount, TypeOK
  <2> HIDE DEF a
  <2> QED  BY <1>1, <1>3, <1>4, <2>1, FreshKept DEF a
<1>6. CASE a \notin Cards' /\ run[r] # "settling"
  <2>1. fetch'[a] = "idle"
    BY <1>1, <1>6 DEF Remount, Mount
  <2> HIDE DEF a
  <2> QED  BY <1>1, <1>3, <1>4, <1>6, <2>1, FreshKept DEF TypeOK, a
<1>7. CASE a \in Cards' /\ a \in Cards
  <2>1. fetch'[a] = fetch[a] /\ floor'[a] = floor[a]
    BY <1>1, <1>7 DEF Remount, Mount
  <2> QED  BY <1>1, <1>3, <1>4, <2>1, FreshKept DEF TypeOK, Fresh
<1> QED  BY <1>2, <1>5, <1>6, <1>7

LEMMA FreshRefetch ==
    ASSUME TypeOK, TypeOK', FreshInv, NEW a \in Accounts, Refetch(a),
           UNCHANGED <<shows, revision, of, credit, serverVars>>,
           NEW r \in Runs, run'[r] = run[r]
    PROVE  Fresh(r)'
<1> DEFINE b == of[r]
<1>1. b \in Accounts /\ Fresh(r) /\ confirmed[b] \in Nat
  BY DEF TypeOK, FreshInv
<1>2. CASE run[r] = "free"
  BY <1>2, FreshFree
<1>3. CASE run[r] # "free" /\ shows[a] # "nothing"
  <2>1. failed'[b] = failed[b]
    BY <1>1, <1>3, RefetchAsks
  <2>2. CASE b = a
    <3>1. fetch'[b] = "asked" /\ floor'[b] = confirmed'[b]
      BY <1>1, <1>3, <2>2, RefetchAsks DEF serverVars
    <3> QED  BY <1>1, <2>1, <3>1, FreshKept DEF serverVars
  <2>3. CASE b # a
    <3>1. fetch'[b] = fetch[b] /\ floor'[b] = floor[b] /\ floor[b] \in Nat
      BY <1>1, <1>3, <2>3, RefetchAsks DEF TypeOK
    <3> QED  BY <1>1, <2>1, <3>1, FreshKept DEF serverVars, Fresh
  <2> QED  BY <2>2, <2>3
<1>4. CASE run[r] # "free" /\ shows[a] = "nothing"
  <2>1. b # a
    BY <1>1, <1>4 DEF Fresh
  <2>2. fetch'[b] = fetch[b] /\ floor'[b] = floor[b] /\ failed'[b] = failed[b] /\ floor[b] \in Nat
    BY <1>1, <2>1 DEF Refetch, fetchVars, TypeOK
  <2> QED  BY <1>1, <2>2, FreshKept DEF serverVars, Fresh
<1> QED  BY <1>2, <1>3, <1>4

LEMMA FreshStep ==
    ASSUME TypeOK, TypeOK', FreshInv, RequestsHaveCards, [Next]_vars PROVE FreshInv'
<1> USE DEF dataVars, fetchVars, cardVars, runVars
<1>0. /\ \A q \in Runs : Fresh(q) /\ of[q] \in Accounts /\ credit[q] \in Nat
      /\ \A b \in Accounts : /\ confirmed[b] \in Nat /\ spent[b] \in Nat /\ confirmed[b] <= spent[b]
                            /\ floor[b] \in Nat /\ revision[b] \in Nat
  BY DEF FreshInv, TypeOK
<1>1. CASE Remount
  BY <1>1, FreshRemount
<1>2. ASSUME NEW a \in Accounts, Refresh(a) PROVE FreshInv'
  BY <1>0, <1>2, FreshRefetch DEF Refresh, FreshInv, serverVars
<1>3. ASSUME NEW a \in Accounts, RequestReset(a) \/ CancelReset(a) PROVE FreshInv'
  <2> SUFFICES ASSUME NEW q \in Runs, run'[q] # "free" PROVE Fresh(q)'
    BY <1>0, <1>3, FreshFree DEF RequestReset, CancelReset, FreshInv, serverVars
  <2>1. run'[q] = run[q]
    BY <1>3 DEF RequestReset, CancelReset, Watch
  <2>2. UNCHANGED <<dataVars, fetchVars, of, credit, serverVars>>
    BY <1>3 DEF RequestReset, CancelReset
  <2> QED  BY <1>0, <2>1, <2>2 DEF Fresh, serverVars
<1>4. ASSUME NEW a \in Accounts, ServerReads(a) PROVE FreshInv'
  <2>1. /\ fetch[a] = "asked" /\ fetch'[a] # "idle" /\ floor[a] <= floor'[a]
        /\ \A b \in Accounts \ {a} : fetch'[b] = fetch[b] /\ floor'[b] = floor[b]
    BY <1>0, <1>4 DEF ServerReads, TypeOK, Kinds
  <2>2. UNCHANGED <<dataVars, runVars, serverVars>>
    BY <1>4 DEF ServerReads
  <2>3. ASSUME NEW q \in Runs PROVE Fresh(q)'
    <3>1. CASE of[q] = a
      BY <1>0, <2>1, <2>2, <3>1, FreshKept DEF serverVars
    <3>2. CASE of[q] # a
      BY <1>0, <2>1, <2>2, <3>2 DEF Fresh, serverVars
    <3> QED  BY <3>1, <3>2
  <2> QED  BY <1>0, <2>2, <2>3 DEF FreshInv, serverVars
<1>5. ASSUME NEW a \in Accounts, QuotaArrives(a) PROVE FreshInv'
  <2>1. /\ Settle(a) /\ shows'[a] # "nothing" /\ revision'[a] = floor[a] /\ fetch'[a] = "idle"
        /\ fetch[a] # "idle"
        /\ \A b \in Accounts \ {a} : /\ fetch'[b] = fetch[b] /\ shows'[b] = shows[b]
                                    /\ revision'[b] = revision[b] /\ failed'[b] = failed[b]
    BY <1>5 DEF QuotaArrives, TypeOK, Kinds
  <2>2. UNCHANGED <<floor, of, credit, serverVars>>
    BY <1>5 DEF QuotaArrives
  <2>3. ASSUME NEW q \in Runs PROVE Fresh(q)'
    <3>1. CASE of[q] = a
      <4>1. \/ run[q] = "settling" /\ run'[q] \in {"success", "free"}
            \/ run[q] # "settling" /\ run'[q] = run[q]
        BY <2>1, <3>1 DEF Settle
      <4> QED  BY <1>0, <2>1, <2>2, <3>1, <4>1 DEF Fresh, serverVars
    <3>2. CASE of[q] # a
      <4>1. run'[q] = run[q]
        BY <2>1, <3>2 DEF Settle
      <4> QED  BY <1>0, <2>1, <2>2, <3>2, <4>1 DEF Fresh, serverVars
    <3> QED  BY <3>1, <3>2
  <2> QED  BY <1>0, <2>2, <2>3 DEF FreshInv, serverVars
<1>6. ASSUME NEW a \in Accounts, QuotaFails(a) PROVE FreshInv'
  <2>1. /\ Settle(a) /\ failed'[a] /\ fetch'[a] = "idle" /\ fetch[a] # "idle"
        /\ \A b \in Accounts \ {a} : fetch'[b] = fetch[b] /\ failed'[b] = failed[b]
    BY <1>6 DEF QuotaFails, TypeOK
  <2>2. UNCHANGED <<shows, revision, floor, of, credit, serverVars>>
    BY <1>6 DEF QuotaFails
  <2>3. ASSUME NEW q \in Runs PROVE Fresh(q)'
    <3>1. CASE of[q] = a
      <4>1. \/ run[q] = "settling" /\ run'[q] \in {"success", "free"}
            \/ run[q] # "settling" /\ run'[q] = run[q]
        BY <2>1, <3>1 DEF Settle
      <4> QED  BY <1>0, <2>1, <2>2, <3>1, <4>1 DEF Fresh, serverVars
    <3>2. CASE of[q] # a
      <4>1. run'[q] = run[q]
        BY <2>1, <3>2 DEF Settle
      <4> QED  BY <1>0, <2>1, <2>2, <3>2, <4>1 DEF Fresh, serverVars
    <3> QED  BY <3>1, <3>2
  <2> QED  BY <1>0, <2>2, <2>3 DEF FreshInv, serverVars
<1>7. ASSUME NEW a \in Accounts, NEW r \in Runs, ConfirmReset(a, r) PROVE FreshInv'
  <2>1. /\ UNCHANGED <<dataVars, fetchVars, serverVars>> /\ shows[a] = "resets"
        /\ run'[r] = "posted" /\ of'[r] = a
        /\ \A q \in Runs \ {r} : of'[q] = of[q] /\ credit'[q] = credit[q] /\ run'[q] \in {"free", run[q]}
    BY <1>7 DEF ConfirmReset, Confirming, CanStartReset, Watch, TypeOK
  <2>2. Fresh(r)'
    BY <2>1 DEF Fresh
  <2>3. ASSUME NEW q \in Runs \ {r} PROVE Fresh(q)'
    BY <1>0, <2>1 DEF Fresh, serverVars
  <2> QED  BY <1>0, <2>1, <2>2, <2>3 DEF FreshInv, serverVars
<1>8. ASSUME NEW r \in Runs, ServerResets(r) PROVE FreshInv'
  <2> DEFINE a == of[r]
  <2>1. UNCHANGED <<dataVars, fetchVars, of>> /\ a \in Accounts /\ run[r] = "posted"
    BY <1>0, <1>8 DEF ServerResets
  <2>2. /\ \A b \in Accounts : confirmed[b] <= confirmed'[b] /\ confirmed'[b] <= spent'[b]
        /\ run'[r] # "refused" => run'[r] = "spent" /\ credit'[r] <= confirmed'[a]
        /\ \A q \in Runs \ {r} : run'[q] = run[q] /\ credit'[q] = credit[q]
    <3>1. CASE UNCHANGED <<serverVars, credit>> /\ run' = [run EXCEPT ![r] = "refused"]
      <4> HIDE DEF a
      <4>1. /\ UNCHANGED <<spent, confirmed, credit>> /\ run'[r] = "refused"
            /\ \A q \in Runs \ {r} : run'[q] = run[q]
        <5>1. run \in [Runs -> InFlight \cup {"free", "success", "error"}]
          BY DEF TypeOK
        <5> QED  BY <3>1, <5>1 DEF serverVars
      <4> QED  BY <1>0, <4>1
    <3>2. CASE /\ spent' = [spent EXCEPT ![a] = spent[a] + 1]
               /\ credit' = [credit EXCEPT ![r] = spent[a] + 1]
               /\ \/ /\ confirmed' = [confirmed EXCEPT ![a] = spent[a] + 1]
                     /\ run' = [run EXCEPT ![r] = "spent"]
                  \/ run' = [run EXCEPT ![r] = "refused"] /\ UNCHANGED confirmed
      <4> HIDE DEF a
      <4>1. \A q \in Runs \ {r} : run'[q] = run[q] /\ credit'[q] = credit[q]
        BY <3>2 DEF TypeOK
      <4>2. run'[r] # "refused" => run'[r] = "spent" /\ credit'[r] = confirmed'[a]
        <5>1. credit'[r] = spent[a] + 1
          BY <3>2 DEF TypeOK
        <5>2. run'[r] # "refused" => run'[r] = "spent" /\ confirmed'[a] = spent[a] + 1
          <6>1. run \in [Runs -> InFlight \cup {"free", "success", "error"}]
                /\ confirmed \in [Accounts -> 0..Resets]
            BY DEF TypeOK
          <6> QED  BY <2>1, <3>2, <6>1
        <5> QED  BY <5>1, <5>2
      <4>3. \A b \in Accounts : confirmed[b] <= confirmed'[b] /\ confirmed'[b] <= spent'[b]
        BY <1>0, <2>1, <3>2 DEF TypeOK
      <4>4. confirmed'[a] \in Nat
        BY <2>1 DEF TypeOK
      <4> QED  BY <4>1, <4>2, <4>3, <4>4
    <3> QED  BY <1>8, <3>1, <3>2 DEF ServerResets
  <2> HIDE DEF a
  <2>3. Fresh(r)'
    BY <1>0, <2>1, <2>2 DEF Fresh, a
  <2>4. ASSUME NEW q \in Runs \ {r} PROVE Fresh(q)'
    <3>1. of[q] \in Accounts /\ confirmed'[of[q]] \in Nat
      BY <1>0 DEF TypeOK
    <3> QED  BY <1>0, <2>1, <2>2, <3>1 DEF Fresh
  <2> QED  BY <2>2, <2>3, <2>4 DEF FreshInv
<1>9. ASSUME NEW r \in Runs, ResetSucceeds(r) PROVE FreshInv'
  <2> DEFINE a == of[r]
  <2>1. /\ UNCHANGED <<shows, revision, of, credit, serverVars>> /\ run[r] = "spent"
        /\ \A q \in Runs \ {r} : run'[q] = run[q]
    BY <1>9 DEF ResetSucceeds, TypeOK
  <2>2. CASE Refetch(a) /\ run'[r] = "settling"
    <3>1. ASSUME NEW q \in Runs \ {r} PROVE Fresh(q)'
      BY <1>0, <2>1, <2>2, FreshRefetch
    <3>2. Fresh(r)'
      <4>1. a \in Accounts /\ shows[a] # "nothing" /\ credit[r] <= confirmed[a]
        BY <1>0, <2>1 DEF Fresh
      <4>2. fetch'[a] = "asked" /\ floor'[a] = confirmed[a]
        BY <2>2, <4>1, RefetchAsks
      <4> QED  BY <2>1, <2>2, <4>1, <4>2 DEF Fresh, serverVars
    <3> QED  BY <1>0, <2>1, <3>1, <3>2 DEF FreshInv, serverVars
  <2>3. CASE UNCHANGED <<fetchVars, failed>> /\ run'[r] = "free"
    BY <1>0, <2>1, <2>3 DEF FreshInv, Fresh, serverVars
  <2> QED  BY <1>9, <2>2, <2>3 DEF ResetSucceeds, TypeOK
<1>10. ASSUME NEW r \in Runs, ResetFails(r) PROVE FreshInv'
  <2>1. /\ UNCHANGED <<dataVars, fetchVars, of, credit, serverVars>>
        /\ run[r] = "refused" /\ run'[r] \in {"error", "free"}
        /\ \A q \in Runs \ {r} : run'[q] = run[q]
    BY <1>10 DEF ResetFails, TypeOK
  <2> QED  BY <1>0, <2>1 DEF FreshInv, Fresh, serverVars
<1>11. CASE UNCHANGED <<page, listed, dataVars, fetchVars, cardVars, runVars, serverVars, clock>>
  BY <1>0, <1>11 DEF FreshInv, Fresh, serverVars
<1> QED  BY StepCases, <1>1, <1>2, <1>3, <1>4, <1>5, <1>6, <1>7, <1>8, <1>9, <1>10, <1>11

\* "Manual reset consumed." is said over a response that was read after the reset, unless the
\* last refetch failed: the refetch of useQuotaReset replaces every older request.
THEOREM SettlesWithFreshQuota == Spec => []SettledIsFresh
<1>1. TypeOK /\ FreshInv /\ MineInv => SettledIsFresh
  <2> SUFFICES ASSUME TypeOK, FreshInv, MineInv, NEW a \in Accounts, mine[a] # None,
                      run[mine[a]] = "success", ~failed[a]
               PROVE  credit[mine[a]] <= revision[a]
    BY DEF SettledIsFresh
  <2>1. mine[a] \in Runs /\ of[mine[a]] = a
    BY DEF TypeOK, MineInv, Mine
  <2> QED  BY <2>1 DEF FreshInv, Fresh
<1> QED  BY <1>1, TypeCorrect, RequestsBelongToCards, FreshInitially, FreshStep, MineInitially,
            MineStep, PTL DEF Spec

-----------------------------------------------------------------------------
(* A confirmation is opened before the next response, so that one which    *)
(* bears the time of the response shown was opened against it.             *)

OpenInv ==
    \A a \in Accounts :
        /\ updatedAt[a] <= clock
        /\ confirmedAt[a] # None => confirmedAt[a] < clock
        /\ confirmedAt[a] = updatedAt[a] => opened[a] = <<shows[a], revision[a]>>

LEMMA OpenStep ==
    ASSUME TypeOK, OpenInv, [Next]_vars PROVE OpenInv'
<1> USE DEF listVars, dataVars, fetchVars, cardVars, runVars, serverVars
<1>0. /\ clock \in Nat
      /\ \A b \in Accounts : updatedAt[b] \in Nat /\ confirmedAt[b] \in Nat \cup {None}
  BY DEF TypeOK
<1>1. CASE Remount
  BY <1>0, <1>1 DEF Remount, Unmount, OpenInv
<1>2. ASSUME NEW a \in Accounts, Refresh(a) \/ ServerReads(a) \/ QuotaFails(a) PROVE OpenInv'
  BY <1>2 DEF Refresh, ServerReads, QuotaFails, OpenInv
<1>3. ASSUME NEW a \in Accounts, RequestReset(a) PROVE OpenInv'
  <2>1. /\ clock' = clock + 1 /\ UNCHANGED <<updatedAt, shows, revision>>
        /\ confirmedAt'[a] = updatedAt[a] /\ opened'[a] = <<shows[a], revision[a]>>
        /\ \A b \in Accounts \ {a} : confirmedAt'[b] = confirmedAt[b] /\ opened'[b] = opened[b]
    BY <1>3 DEF RequestReset, TypeOK
  <2> QED  BY <1>0, <2>1 DEF OpenInv
<1>4. ASSUME NEW a \in Accounts, QuotaArrives(a) PROVE OpenInv'
  <2>1. /\ UNCHANGED <<clock, confirmedAt, opened>> /\ updatedAt'[a] = clock
        /\ \A b \in Accounts \ {a} : /\ updatedAt'[b] = updatedAt[b] /\ shows'[b] = shows[b]
                                    /\ revision'[b] = revision[b]
    BY <1>4 DEF QuotaArrives, TypeOK
  <2> QED  BY <1>0, <2>1 DEF OpenInv
<1>5. ASSUME NEW a \in Accounts, NEW r \in Runs, CancelReset(a) \/ ConfirmReset(a, r) PROVE OpenInv'
  <2>1. /\ UNCHANGED <<clock, updatedAt, shows, revision, opened>> /\ confirmedAt'[a] = None
        /\ \A b \in Accounts \ {a} : confirmedAt'[b] = confirmedAt[b]
    BY <1>5 DEF CancelReset, ConfirmReset, TypeOK
  <2> QED  BY <1>0, <2>1 DEF OpenInv
<1>6. ASSUME NEW r \in Runs, ServerResets(r) \/ ResetSucceeds(r) \/ ResetFails(r) PROVE OpenInv'
  BY <1>6 DEF ServerResets, ResetSucceeds, ResetFails, OpenInv
<1>7. CASE UNCHANGED <<page, listed, dataVars, fetchVars, cardVars, runVars, serverVars, clock>>
  BY <1>7 DEF OpenInv
<1>8. ASSUME NEW a \in Accounts, CancelReset(a) PROVE OpenInv'
  <2>1. /\ UNCHANGED <<clock, updatedAt, shows, revision, opened>> /\ confirmedAt'[a] = None
        /\ \A b \in Accounts \ {a} : confirmedAt'[b] = confirmedAt[b]
    BY <1>8 DEF CancelReset, TypeOK
  <2> QED  BY <1>0, <2>1 DEF OpenInv
<1> QED  BY StepCases, <1>1, <1>2, <1>3, <1>4, <1>5, <1>6, <1>7, <1>8

LEMMA OpenCorrect == Spec => []OpenInv
<1>1. Init => OpenInv
  <2> SUFFICES ASSUME Init, NEW a \in Accounts
               PROVE  /\ updatedAt[a] <= clock /\ confirmedAt[a] = None
                      /\ confirmedAt[a] # updatedAt[a]
    BY DEF OpenInv
  <2>1. updatedAt[a] = 0 /\ clock = 1 /\ confirmedAt[a] = None
    BY DEF Init
  <2> QED  BY <2>1
<1> QED  BY <1>1, OpenStep, TypeCorrect, PTL DEF Spec

LEMMA ShownWhenConfirmed ==
    ASSUME TypeOK, OpenInv, [Next]_vars, NEW r \in Runs, run[r] = "free", run'[r] = "posted"
    PROVE  opened[of'[r]] = <<shows[of'[r]], revision[of'[r]]>>
<1>1. PICK a \in Accounts, q \in Runs : ConfirmReset(a, q)
  <2>1. ASSUME Remount \/ \E a \in Accounts : Settle(a) PROVE FALSE
    BY <2>1 DEF Remount, Unmount, Settle
  <2>2. ASSUME NEW a \in Accounts, Watch(a, None) PROVE FALSE
    BY <2>2 DEF Watch, TypeOK
  <2>3. ASSUME NEW q \in Runs, ServerResets(q) \/ ResetSucceeds(q) \/ ResetFails(q) PROVE FALSE
    BY <2>3 DEF ServerResets, ResetSucceeds, ResetFails, TypeOK
  <2>4. run' # run
    OBVIOUS
  <2> QED  BY StepCases, <2>1, <2>2, <2>3, <2>4
           DEF Refresh, RequestReset, CancelReset, ServerReads, QuotaArrives, QuotaFails, runVars
<1>2. q = r
  BY <1>1 DEF ConfirmReset, Watch, TypeOK
<1>3. of'[r] = a
  BY <1>1, <1>2 DEF ConfirmReset, TypeOK
<1>4. confirmedAt[a] = updatedAt[a]
  BY <1>1 DEF ConfirmReset, Confirming, Status
<1> QED  BY <1>3, <1>4 DEF OpenInv

\* What is posted is what the user saw: a refetch in between takes the confirmation away.
THEOREM ConfirmsWhatIsShown == Spec => ConfirmedIsShown
<1>1. TypeOK /\ OpenInv /\ [Next]_vars =>
        [\A r \in Runs : run[r] = "free" /\ run'[r] = "posted" =>
           LET a == of'[r] IN opened[a] = <<shows[a], revision[a]>>]_vars
  BY ShownWhenConfirmed
<1> QED  BY <1>1, TypeCorrect, OpenCorrect, PTL DEF Spec, ConfirmedIsShown
=============================================================================
