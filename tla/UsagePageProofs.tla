-------------------------- MODULE UsagePageProofs --------------------------
(***************************************************************************)
(* What the panels of the usage page show, for any scopes, tabs and        *)
(* panels.  That nothing undimmed is old rests on ObservedInv: a response  *)
(* the page needs and does not ask for is there and valid, or was refused. *)
(*                                                                         *)
(* And what its range picker shows as selected, for any lengths of minute  *)
(* and day that nest.  That the days clicked are the days shown rests on   *)
(* AnchorInv and on reading the inputs back (DaysAreRead).                 *)
(*                                                                         *)
(* And that the views of a breakdown agree and add up, for any responses,  *)
(* colors and families.  What they show is rows picked and put in an       *)
(* order: an order has one arrangement (OrderingIsArranged), keeping some  *)
(* or sorting by what has ties leads from one order to another             *)
(* (Rearranged), and a sum depends on what is picked alone (TotalOfPicks). *)
(***************************************************************************)
EXTENDS UsagePanels, RangePicker, Breakdown, SequenceTheorems, FiniteSetTheorems, TLAPS

-----------------------------------------------------------------------------
(***************************************************************************)
(* The range picker (RangePicker).                                         *)
(***************************************************************************)

\* The multiples of b around a.
LEMMA Quotient ==
    ASSUME NEW a \in Int, NEW b \in Nat \ {0}
    PROVE  /\ a \div b \in Int /\ a % b \in 0..(b - 1)
           /\ a = (a \div b) * b + (a % b)
           /\ (a \div b) * b \in Int
  OBVIOUS

\* a lies between the n-th and the next multiple of b only for its quotient n.
LEMMA QuotientUnique ==
    ASSUME NEW a \in Int, NEW b \in Nat \ {0}, NEW n \in Int, n * b <= a, a < (n + 1) * b
    PROVE  a \div b = n
<1> DEFINE q == a \div b
<1>1. q \in Int /\ q * b <= a /\ a < (q + 1) * b
  BY Quotient
<1> HIDE DEF q
<1>2. \A x, y \in Int : x < y => (x + 1) * b <= y * b
  <2> SUFFICES ASSUME NEW x \in Int, NEW y \in Int, x < y PROVE (x + 1) * b <= y * b
    OBVIOUS
  <2>1. PICK k \in Nat : y = (x + 1) + k
    <3>1. y - (x + 1) \in Nat  OBVIOUS
    <3> QED  BY <3>1
  <2>2. y * b = (x + 1) * b + k * b /\ k * b \in Nat
    BY <2>1
  <2> QED  BY <2>2
<1>3. \A x \in Int : x * b \in Int /\ (x + 1) * b \in Int
  OBVIOUS
<1>4. q = n
  <2>1. CASE q < n  BY <1>1, <1>2, <1>3, <2>1
  <2>2. CASE n < q  BY <1>1, <1>2, <1>3, <2>2
  <2> QED  BY <1>1, <2>1, <2>2
<1> QED  BY <1>4 DEF q

LEMMA Extremes ==
    ASSUME NEW a \in Int, NEW b \in Int
    PROVE  /\ Min({a, b}) = IF a <= b THEN a ELSE b
           /\ Max({a, b}) = IF a <= b THEN b ELSE a
<1>1. \E x \in {a, b} : \A y \in {a, b} : x <= y  OBVIOUS
<1>2. \E x \in {a, b} : \A y \in {a, b} : x >= y  OBVIOUS
<1> QED  BY <1>1, <1>2 DEF Min, Max

\* Days begin on full minutes.
LEMMA DaysAreMinutes ==
    ASSUME NEW n \in Int
    PROVE  ToLocalInput(n * Day) = n * Day /\ n * Day \in Int
<1> DEFINE k == Day \div Minute
<1>1. Minute \in Nat \ {0} /\ Day \in Nat \ {0} /\ k \in Int /\ Day = k * Minute
  BY PickerAssumption, Quotient
<1> HIDE DEF k
<1>2. n * Day = (n * k) * Minute /\ n * k \in Int /\ n * Day \in Int
  BY <1>1
<1>3. (n * Day) \div Minute = n * k
  <2>1. (n * k + 1) * Minute = (n * k) * Minute + Minute
    BY <1>1, <1>2
  <2> QED  BY <1>1, <1>2, <2>1, QuotientUnique
<1>4. (n * Day) % Minute = 0
  BY <1>1, <1>2, <1>3, Quotient
<1> QED  BY <1>2, <1>4 DEF ToLocalInput

\* The inputs that a range of days of the calendar sets hold these days, or today's
\* first minute.
LEMMA DaysAreRead ==
    ASSUME now \in Nat, NEW early \in Nat, NEW late \in Nat, early <= late, late <= DayOf(now)
    PROVE  LET s == DayRange(early, late).start
               e == DayRange(early, late).end
           IN  /\ s \in Int /\ e \in Int /\ e <= now
               /\ \/ RangeDays(s, e) = <<early, late>> /\ s < e
                  \/ late = DayOf(now) /\ now % Day < Minute
<1> DEFINE s == DayRange(early, late).start
           e == DayRange(early, late).end
           midnight == (late + 1) * Day
<1>1. Minute \in Nat \ {0} /\ Day \in Nat \ {0} /\ Missing \notin Int
  BY PickerAssumption
<1>2. s = early * Day /\ s \in Int
  BY DaysAreMinutes DEF DayRange
<1>3. /\ midnight \in Int /\ ToLocalInput(midnight) = midnight
      /\ late * Day \in Int /\ midnight = late * Day + Day /\ s <= late * Day
  <2>1. midnight \in Int /\ ToLocalInput(midnight) = midnight
    BY DaysAreMinutes
  <2>2. PICK k \in Nat : late = early + k
    <3>1. late - early \in Nat  OBVIOUS
    <3> QED  BY <3>1
  <2>3. late * Day = early * Day + k * Day /\ k * Day \in Nat
    BY <1>1, <2>2
  <2> QED  BY <1>1, <1>2, <2>1, <2>3
<1>4. e = IF midnight <= now THEN midnight ELSE now - (now % Minute)
  BY <1>3, Extremes DEF DayRange, ToLocalInput
<1>5. now % Minute \in 0..(Minute - 1) /\ now % Day \in 0..(Day - 1)
  BY <1>1, Quotient
<1>6. now = DayOf(now) * Day + (now % Day) /\ DayOf(now) \in Int /\ DayOf(now) * Day \in Int
  BY <1>1, Quotient DEF DayOf
<1>7. e \in Int /\ e <= now /\ e <= midnight
  BY <1>1, <1>3, <1>4, <1>5
<1> HIDE DEF s, e
<1>8. ASSUME late * Day < e PROVE RangeDays(s, e) = <<early, late>> /\ s < e
  <2>1. s < e /\ Max({s, e - 1}) = e - 1
    <3>1. s < e /\ s <= e - 1 /\ e - 1 \in Int
      BY <1>2, <1>3, <1>7, <1>8
    <3>2. Max({s, e - 1}) = IF s <= e - 1 THEN e - 1 ELSE s
      BY <1>2, <3>1, Extremes
    <3> QED  BY <3>1, <3>2
  <2>2. DayOf(e - 1) = late
    <3>1. late * Day <= e - 1 /\ e - 1 < (late + 1) * Day /\ e - 1 \in Int
      BY <1>3, <1>7, <1>8
    <3> QED  BY <1>1, <3>1, QuotientUnique DEF DayOf
  <2>3. DayOf(s) = early
    <3>1. (early + 1) * Day = early * Day + Day /\ early * Day \in Int
      BY <1>1
    <3>2. early * Day <= s /\ s < (early + 1) * Day
      BY <1>1, <1>2, <3>1
    <3> QED  BY <1>1, <1>2, <3>2, QuotientUnique DEF DayOf
  <2>4. Missing \notin {s, e}
    BY <1>1, <1>2, <1>7
  <2> QED  BY <2>1, <2>2, <2>3, <2>4 DEF RangeDays
<1>9. CASE midnight <= now
  <2>1. late * Day < e
    BY <1>1, <1>3, <1>4, <1>9
  <2> QED  BY <1>2, <1>7, <1>8, <2>1 DEF s, e
<1>10. CASE now < midnight
  <2>1. late * Day <= now
    <3>1. PICK k \in Nat : DayOf(now) = late + k
      <4>1. DayOf(now) - late \in Nat  BY <1>6
      <4> QED  BY <4>1, <1>6
    <3>2. DayOf(now) * Day = late * Day + k * Day /\ k * Day \in Nat
      BY <1>1, <3>1
    <3> QED  BY <1>3, <1>5, <1>6, <3>2
  <2>2. late = DayOf(now)
    BY <1>1, <1>10, <2>1, QuotientUnique DEF DayOf
  <2>3. CASE now % Day < Minute
    BY <1>2, <1>7, <2>2, <2>3 DEF s, e
  <2>4. CASE ~(now % Day < Minute)
    <3>1. late * Day < e
      BY <1>1, <1>3, <1>4, <1>5, <1>6, <1>10, <2>2, <2>4
    <3> QED  BY <1>2, <1>7, <1>8, <3>1 DEF s, e
  <2> QED  BY <1>1, <1>5, <2>3, <2>4
<1> QED  BY <1>3, <1>9, <1>10

-----------------------------------------------------------------------------
\* A first click is on a day up to that of opening.
AnchorInv == anchor # Missing => anchor \in 0..DayOf(now)

PickerInv == PickerTypeOK /\ AnchorInv /\ PicksAreShown

LEMMA ClockIsTime == FirstTick..LastTick \subseteq Nat
  BY PickerAssumption

LEMMA PickerInitHolds == PickerInit => PickerInv
<1> SUFFICES ASSUME PickerInit PROVE PickerInv
  OBVIOUS
<1>1. clock \in FirstTick..LastTick /\ clock \in Int
  BY PickerAssumption DEF PickerInit
<1>2. DayOf(clock) * Day \in Int
  BY <1>1, PickerAssumption, Quotient DEF DayOf
<1> QED  BY <1>1, <1>2 DEF PickerInit, PickerInv, PickerTypeOK, AnchorInv, PicksAreShown

LEMMA ClickKeeps ==
    ASSUME PickerInv, NEW day \in 0..DayOf(LastTick), ClickDay(day)
    PROVE  PickerInv'
<1> DEFINE pick == PickDay(day)
           days == DayRange(pick.first, pick.last)
<1>1. /\ anchor' = pick.anchor /\ from' = days.start /\ to' = days.end
      /\ picked' = <<pick.first, pick.last>> /\ day <= DayOf(now)
      /\ UNCHANGED <<open, custom, now, value, start, end, clock>>
  BY DEF ClickDay
<1>2. now \in Nat /\ Missing \notin Int /\ day \in Nat /\ DayOf(now) \in Int
  BY PickerAssumption, Quotient DEF PickerInv, PickerTypeOK, DayOf
<1>3. /\ pick.first \in Nat /\ pick.last \in Nat
      /\ pick.first <= pick.last /\ pick.last <= DayOf(now)
      /\ pick.anchor # Missing => pick.anchor \in 0..DayOf(now)
      /\ pick.anchor \in Int \cup {Missing}
  <2>1. CASE anchor = Missing
    BY <1>1, <1>2, <2>1 DEF PickDay
  <2>2. CASE anchor # Missing
    <3>1. anchor \in 0..DayOf(now)
      BY <2>2 DEF PickerInv, AnchorInv
    <3>2. /\ Min({anchor, day}) = IF anchor <= day THEN anchor ELSE day
          /\ Max({anchor, day}) = IF anchor <= day THEN day ELSE anchor
      BY <1>2, <3>1, Extremes
    <3>3. pick = [anchor |-> Missing, first |-> Min({anchor, day}), last |-> Max({anchor, day})]
      BY <2>2 DEF PickDay
    <3> HIDE DEF pick
    <3> QED  BY <1>1, <1>2, <3>1, <3>2, <3>3
  <2> QED  BY <2>1, <2>2
<1> HIDE DEF pick
<1>4. /\ from' \in Int /\ to' \in Int /\ to' <= now
      /\ \/ RangeDays(from', to') = <<pick.first, pick.last>> /\ from' < to'
         \/ pick.last = DayOf(now) /\ now % Day < Minute
  BY <1>1, <1>2, <1>3, DaysAreRead
<1>5. RangeDays(from, to)' = RangeDays(from', to') /\ DayOf(now)' = DayOf(now)
  BY <1>1 DEF RangeDays, DayOf
<1>6. PicksAreShown'
  BY <1>1, <1>2, <1>4, <1>5 DEF PicksAreShown, Valid
<1>7. PickerTypeOK' /\ AnchorInv'
  BY <1>1, <1>2, <1>3, <1>4, <1>5 DEF PickerInv, PickerTypeOK, AnchorInv
<1> QED  BY <1>6, <1>7 DEF PickerInv

\* Every step but a click on a day forgets the picks, or leaves them and the inputs.
LEMMA OtherwiseKeeps ==
    ASSUME PickerInv, UNCHANGED pickerVars \/ Open \/ Dismiss \/ Flip \/ PickPreset \/ TypeFrom
                      \/ TypeTo \/ Apply \/ Passes
    PROVE  PickerInv'
<1> USE DEF PickerInv
<1>1. Minute \in Nat \ {0} /\ Day \in Nat \ {0} /\ Missing \notin Int
  BY PickerAssumption
<1>2. clock \in Nat
  BY ClockIsTime DEF PickerTypeOK
<1>3. CASE Open
  <2>1. \A t \in Int : ToLocalInput(t) \in Int
    BY <1>1, Quotient DEF ToLocalInput
  <2>2. end - 30 * Day \in Int /\ end \in Int
    BY <1>1 DEF PickerTypeOK
  <2>3. from' \in Int /\ to' \in Int
    BY <1>3, <2>1, <2>2 DEF Open, PickerTypeOK
  <2> QED  BY <1>2, <1>3, <2>3 DEF Open, PickerTypeOK, AnchorInv, PicksAreShown
<1>4. CASE PickPreset
  <2>1. DayOf(clock) * Day \in Int /\ clock - Day \in Int /\ clock \in Int
    BY <1>1, <1>2, Quotient DEF DayOf
  <2>2. start' \in Int \cup {Missing}
    BY <1>4, <2>1 DEF PickPreset
  <2> QED  BY <1>4, <2>1, <2>2 DEF PickPreset, PickerTypeOK, AnchorInv, PicksAreShown, RangeDays, DayOf, Valid
<1>5. CASE TypeFrom \/ TypeTo
  <2>1. Inputs \subseteq Int \cup {Missing}
    BY DEF Inputs
  <2> QED  BY <1>5, <2>1 DEF TypeFrom, TypeTo, PickerTypeOK, AnchorInv, PicksAreShown
<1>6. CASE Apply
  BY <1>6 DEF Apply, Valid, PickerTypeOK, AnchorInv, PicksAreShown, RangeDays, DayOf
<1>7. CASE Passes
  <2>1. clock' \in FirstTick..LastTick
    BY <1>7, PickerAssumption DEF Passes, PickerTypeOK
  <2> QED  BY <1>7, <2>1 DEF Passes, PickerTypeOK, AnchorInv, PicksAreShown, RangeDays, DayOf, Valid
<1>8. CASE UNCHANGED pickerVars \/ Dismiss \/ Flip
  BY <1>8 DEF pickerVars, Dismiss, Flip, PickerTypeOK, AnchorInv, PicksAreShown, RangeDays, DayOf, Valid
<1> QED  BY <1>3, <1>4, <1>5, <1>6, <1>7, <1>8

\* What the picker holds, and the anchor's day, in every reachable state.
THEOREM PickerInvariance == PickerSpec => []PickerInv
<1>1. PickerInv /\ [PickerNext]_pickerVars => PickerInv'
  BY ClickKeeps, OtherwiseKeeps DEF PickerNext
<1> QED  BY <1>1, PickerInitHolds, PTL DEF PickerSpec

\* The days clicked are the days the calendar shows as selected, and can be
\* applied (RangePicker in FilterBar.tsx, dayRange and rangeDays in range.ts).
THEOREM PicksAreShownHolds == PickerSpec => []PicksAreShown
<1>1. PickerInv => PicksAreShown
  BY DEF PickerInv
<1> QED  BY <1>1, PickerInvariance, PTL

-----------------------------------------------------------------------------
(***************************************************************************)
(* The panels (UsagePanels).                                               *)
(***************************************************************************)

USE PanelsAssumption

\* A key on the page that is not being asked for was answered, or refused.
ObservedInv ==
    \A p \in Mounted : LET k == Key(p) IN
        fetching[k] # "no" \/ failed[k] \/ (data[k] # "none" /\ ~invalid[k])

\* What is valid arrived since the last Refresh of its window.
SeenInv == \A k \in Keys : data[k] # "none" /\ ~invalid[k] => seen[k] \in {"now", "joined"}

PanelsInv == TypeOK /\ ObservedInv /\ SeenInv /\ NothingRunsUnseen

-----------------------------------------------------------------------------
(* Keys and observers.                                                     *)

LEMMA KeyTyped == ASSUME TypeOK, NEW p \in Panels PROVE Key(p) \in Keys
  BY DEF TypeOK, Key, Keys, Panels

LEMMA MountedPanels == Mounted \subseteq Panels
  BY DEF Mounted, Panels

\* The choices of the user, without what the observers then do.
Chosen == /\ page' \in {"usage", "limits"} /\ scope' \in Scopes /\ tab' \in Tabs
          /\ drawer' \in BOOLEAN

LEMMA ObserveTypes ==
    ASSUME TypeOK, Chosen, NEW asked, NEW joined, Observe(asked, joined),
           invalid' \in [Keys -> BOOLEAN], seen' \in [Keys -> Moments]
    PROVE  TypeOK'
<1>1. \A p \in Panels : Key(p)' \in Keys
  BY DEF Chosen, Key, Keys, Panels
<1>2. fetching' \in [Keys -> Requests]
  BY DEF Observe, Requests, TypeOK
<1>3. last' \in [Panels -> Keys \cup {None}]
  BY <1>1 DEF Observe, TypeOK
<1> QED  BY <1>2, <1>3 DEF TypeOK, Chosen, Observe

\* A choice whose observers ask for nothing but what they need.
LEMMA ObserveKeeps ==
    ASSUME PanelsInv, Chosen, Observe({}, {}), UNCHANGED <<invalid, seen>>
    PROVE  PanelsInv'
<1>1. TypeOK'
  <2>1. invalid' \in [Keys -> BOOLEAN] /\ seen' \in [Keys -> Moments]
    BY DEF PanelsInv, TypeOK
  <2> QED  BY <2>1, ObserveTypes DEF PanelsInv
<1>2. \A p \in Mounted' : p \in Panels /\ Key(p)' \in Keys
  BY <1>1 DEF Mounted, Panels, TypeOK, Key, Keys
<1>3. ObservedInv'
  <2> SUFFICES ASSUME NEW p \in Mounted', fetching'[Key(p)'] = "no", ~failed'[Key(p)']
               PROVE  data'[Key(p)'] # "none" /\ ~invalid'[Key(p)']
    BY DEF ObservedInv
  <2>1. UNCHANGED <<data, failed, invalid>> /\ ~Goes(Key(p)') /\ ~Asks(p)
    <3> DEFINE k == Key(p)'
               needed == {} \cup {Key(q)' : q \in {r \in Mounted' : Asks(r)}}
    <3>1. /\ UNCHANGED <<data, failed, invalid>> /\ k \in Keys
          /\ fetching'[k] = IF Goes(k) THEN IF k \in {} THEN "joined" ELSE fetching[k]
                            ELSE IF k \in needed THEN "sent" ELSE "no"
      BY <1>2 DEF Observe
    <3>2. ~Goes(k)
      BY <3>1 DEF Goes
    <3>3. k \notin needed
      BY <3>1, <3>2
    <3> QED  BY <3>1, <3>2, <3>3
  <2>2. CASE p \notin Mounted
    BY <2>1, <2>2 DEF Asks
  <2>3. CASE p \in Mounted /\ Key(p)' # Key(p)
    BY <2>1, <2>3 DEF Asks
  <2>4. CASE p \in Mounted /\ Key(p)' = Key(p)
    <3>1. fetching[Key(p)] = "no"
      BY <2>1, <2>4 DEF Goes, Observed
    <3> QED  BY <2>1, <2>4, <3>1 DEF PanelsInv, ObservedInv
  <2> QED  BY <2>2, <2>3, <2>4
<1>4. NothingRunsUnseen'
  <2> SUFFICES ASSUME NEW k \in Keys, fetching'[k] # "no" PROVE k \in Observed'
    BY DEF NothingRunsUnseen
  <2>1. Goes(k) \/ \E p \in Mounted' : Key(p)' = k
    BY DEF Observe
  <2> QED  BY <2>1 DEF Goes, Observed
<1>5. SeenInv'
  BY DEF PanelsInv, SeenInv, Observe
<1> QED  BY <1>1, <1>3, <1>4, <1>5 DEF PanelsInv

-----------------------------------------------------------------------------
(* The invariant holds.                                                    *)

LEMMA RefreshKeeps == ASSUME PanelsInv, Refresh PROVE PanelsInv'
<1>1. CASE /\ scope' \in {s \in Scopes : WindowOf[s] # WindowOf[scope]}
           /\ UNCHANGED <<page, tab, drawer, invalid, seen>> /\ Observe({}, {})
  BY <1>1, ObserveKeeps DEF PanelsInv, TypeOK, Chosen
<1>2. ASSUME UNCHANGED <<page, scope, tab, drawer>>,
             invalid' = [k \in Keys |->
                data[k] # "none" /\ (invalid[k] \/ WindowOf[k[1]] = WindowOf[scope])],
             seen' = [k \in Keys |->
                IF data[k] # "none" /\ WindowOf[k[1]] = WindowOf[scope] THEN "before" ELSE seen[k]],
             NEW read, Observe(Observed, read)
      PROVE  PanelsInv'
  <2>1. invalid' \in [Keys -> BOOLEAN] /\ seen' \in [Keys -> Moments]
    BY <1>2 DEF PanelsInv, TypeOK, Moments
  <2>2. TypeOK'
    BY <1>2, <2>1, ObserveTypes DEF PanelsInv, TypeOK, Chosen
  <2>3. Mounted' = Mounted /\ Observed' = Observed /\ \A p : Key(p)' = Key(p)
    BY <1>2 DEF Mounted, Observed, Key
  <2>4. ObservedInv'
    <3> SUFFICES ASSUME NEW p \in Mounted' PROVE fetching'[Key(p)'] # "no"
      BY DEF ObservedInv
    <3>1. Key(p) \in Observed /\ Key(p) \in Keys
      BY <2>3, KeyTyped, MountedPanels DEF PanelsInv, Observed
    <3>2. fetching'[Key(p)] = "no" => Goes(Key(p)) /\ fetching[Key(p)] = "no"
      BY <1>2, <3>1 DEF Observe
    <3> QED  BY <2>3, <3>2 DEF Goes
  <2>5. NothingRunsUnseen'
    <3> SUFFICES ASSUME NEW k \in Keys, fetching'[k] # "no" PROVE k \in Observed'
      BY DEF NothingRunsUnseen
    <3>1. Goes(k) \/ k \in Observed \/ \E p \in Mounted' : Key(p)' = k
      BY <1>2 DEF Observe
    <3> QED  BY <2>3, <3>1 DEF Goes, Observed
  <2>6. SeenInv'
    BY <1>2 DEF PanelsInv, SeenInv, Observe
  <2> QED  BY <2>2, <2>4, <2>5, <2>6 DEF PanelsInv
<1> QED  BY <1>1, <1>2 DEF Refresh

LEMMA AnswerKeeps == ASSUME PanelsInv, NEW k \in Keys, Answer(k) \/ Fail(k) PROVE PanelsInv'
<1>1. UNCHANGED <<page, scope, tab, drawer>> /\ fetching' = [fetching EXCEPT ![k] = "no"]
  BY DEF Answer, Fail, choiceVars
<1>2. Mounted' = Mounted /\ Observed' = Observed /\ \A p : Key(p)' = Key(p)
  BY <1>1 DEF Mounted, Observed, Key
<1>3. TypeOK'
  <2>1. CASE Answer(k)
    <3>1. PICK d \in {"some", "empty"} : data' = [data EXCEPT ![k] = d]
      BY <2>1 DEF Answer
    <3>2. data' \in [Keys -> {"none", "some", "empty"}]
      BY <3>1 DEF PanelsInv, TypeOK
    <3>3. last' \in [Panels -> Keys \cup {None}]
      BY <2>1 DEF Answer, PanelsInv, TypeOK
    <3>4. failed' \in [Keys -> BOOLEAN] /\ invalid' \in [Keys -> BOOLEAN]
      BY <2>1 DEF Answer, PanelsInv, TypeOK
    <3>5. fetching' \in [Keys -> Requests] /\ seen' \in [Keys -> Moments]
      BY <1>1, <2>1 DEF Answer, PanelsInv, TypeOK, Requests, Moments
    <3> QED  BY <1>1, <2>1, <3>2, <3>3, <3>4, <3>5 DEF Answer, PanelsInv, TypeOK
  <2>2. CASE Fail(k)
    <3>1. failures' \in 0..MaxFailures
      BY <2>2 DEF Fail, PanelsInv, TypeOK
    <3>2. (data[k] # "none") \in BOOLEAN
      OBVIOUS
    <3>3. failed' \in [Keys -> BOOLEAN] /\ invalid' \in [Keys -> BOOLEAN]
      BY <2>2, <3>2 DEF Fail, PanelsInv, TypeOK
    <3>4. fetching' \in [Keys -> Requests]
      BY <1>1 DEF PanelsInv, TypeOK, Requests
    <3> QED  BY <1>1, <2>2, <3>1, <3>3, <3>4 DEF Fail, PanelsInv, TypeOK
  <2> QED  BY <2>1, <2>2
<1>4. ObservedInv'
  <2> SUFFICES ASSUME NEW p \in Mounted
               PROVE  LET q == Key(p) IN
                      fetching'[q] # "no" \/ failed'[q] \/ (data'[q] # "none" /\ ~invalid'[q])
    BY <1>2 DEF ObservedInv
  <2>1. Key(p) \in Keys
    BY KeyTyped, MountedPanels DEF PanelsInv
  <2>2. CASE Key(p) = k
    BY <2>2 DEF Answer, Fail, PanelsInv, TypeOK
  <2>3. CASE Key(p) # k
    BY <2>1, <2>3 DEF Answer, Fail, PanelsInv, TypeOK, ObservedInv
  <2> QED  BY <2>2, <2>3
<1>5. NothingRunsUnseen'
  BY <1>1, <1>2 DEF PanelsInv, TypeOK, NothingRunsUnseen
<1>6. SeenInv'
  <2> SUFFICES ASSUME NEW q \in Keys, data'[q] # "none", ~invalid'[q]
               PROVE  seen'[q] \in {"now", "joined"}
    BY DEF SeenInv
  <2>1. CASE q = k
    BY <2>1 DEF Answer, Fail, PanelsInv, TypeOK
  <2>2. CASE q # k
    BY <2>2 DEF Answer, Fail, PanelsInv, TypeOK, SeenInv
  <2> QED  BY <2>1, <2>2
<1> QED  BY <1>3, <1>4, <1>5, <1>6 DEF PanelsInv

\* What the page needs is there, on its way, or was refused, in every reachable state.
THEOREM PanelsInvariance == Spec => []PanelsInv
<1>1. Init => PanelsInv
  <2> SUFFICES ASSUME Init PROVE PanelsInv
    OBVIOUS
  <2>1. Mounted = {}
    BY DEF Init, Mounted
  <2>2. TypeOK
    <3>1. data \in [Keys -> {"none", "some", "empty"}] /\ last \in [Panels -> Keys \cup {None}]
      BY DEF Init
    <3>2. failed \in [Keys -> BOOLEAN]
      BY DEF Init
    <3>3. invalid \in [Keys -> BOOLEAN]
      BY DEF Init
    <3>4. fetching \in [Keys -> Requests] /\ seen \in [Keys -> Moments]
      BY DEF Init, Requests, Moments
    <3>5. page \in {"usage", "limits"} /\ scope \in Scopes /\ tab \in Tabs
      BY DEF Init
    <3>6. drawer \in BOOLEAN
      BY DEF Init
    <3>7. failures \in 0..MaxFailures
      BY DEF Init
    <3> QED  BY <3>1, <3>2, <3>3, <3>4, <3>5, <3>6, <3>7 DEF TypeOK
  <2> QED  BY <2>1, <2>2 DEF Init, PanelsInv, ObservedInv, SeenInv, NothingRunsUnseen
<1>2. PanelsInv /\ [Next]_vars => PanelsInv'
  <2> SUFFICES ASSUME PanelsInv, [Next]_vars PROVE PanelsInv'
    OBVIOUS
  <2>1. CASE Visit \/ Leave \/ Pick \/ SwitchTab \/ OpenDrawer \/ CloseDrawer
    <3>1. Chosen
      BY <2>1 DEF Visit, Leave, Pick, SwitchTab, OpenDrawer, CloseDrawer, Chosen, PanelsInv, TypeOK
    <3>2. Observe({}, {}) /\ UNCHANGED <<invalid, seen>>
      BY <2>1 DEF Visit, Leave, Pick, SwitchTab, OpenDrawer, CloseDrawer
    <3> QED  BY <3>1, <3>2, ObserveKeeps
  <2>2. CASE Refresh
    BY <2>2, RefreshKeeps
  <2>3. ASSUME NEW k \in Keys, Answer(k) \/ Fail(k) PROVE PanelsInv'
    BY <2>3, AnswerKeeps
  <2>4. CASE UNCHANGED vars
    BY <2>4 DEF vars, choiceVars, cacheVars, PanelsInv, TypeOK, ObservedInv, SeenInv,
       NothingRunsUnseen, Mounted, Observed, Key
  <2> QED  BY <2>1, <2>2, <2>3, <2>4 DEF Next
<1> QED  BY <1>1, <1>2, PTL DEF Spec

-----------------------------------------------------------------------------
(* What follows.                                                           *)

\* The query cache and the page are well-typed in every reachable state.
THEOREM PanelsTypeCorrect == Spec => []TypeOK
<1>1. PanelsInv => TypeOK
  BY DEF PanelsInv
<1> QED  BY <1>1, PanelsInvariance, PTL

\* No request runs that nothing on the page waits for (api.ts, signal).
THEOREM NothingRunsUnseenHolds == Spec => []NothingRunsUnseen
<1>1. PanelsInv => NothingRunsUnseen
  BY DEF PanelsInv
<1> QED  BY <1>1, PanelsInvariance, PTL

\* A panel neither dimmed nor failed shows its own response, arrived since the
\* last Refresh of its window (useUsage, UsagePage.tsx).
THEOREM UndimmedIsCurrentHolds == Spec => []UndimmedIsCurrent
<1>1. PanelsInv => UndimmedIsCurrent
  <2> SUFFICES ASSUME PanelsInv, NEW p \in Visible, Shown(p) # None, ~Busy(p)
               PROVE  Shown(p) = Key(p) /\ seen[Key(p)] \in {"now", "joined"}
    BY DEF UndimmedIsCurrent
  <2>1. p \in Mounted /\ fetching[Key(p)] = "no" /\ Key(p) \in Keys
    BY KeyTyped, MountedPanels DEF Visible, Busy, PanelsInv
  <2>2. Response(Key(p), last[p]) = Shown(p)
    BY DEF Shown
  <2>3. ~IsError(Key(p))
    BY <2>2 DEF Response
  <2>4. ~failed[Key(p)] /\ data[Key(p)] # "none" /\ ~invalid[Key(p)]
    BY <2>1, <2>3 DEF IsError, PanelsInv, ObservedInv
  <2> QED  BY <2>1, <2>2, <2>3, <2>4 DEF Response, PanelsInv, SeenInv
<1> QED  BY <1>1, PanelsInvariance, PTL

\* What was seen and is valid is shown again without a request.
THEOREM SeenIsNotAskedAgainHolds == Spec => SeenIsNotAskedAgain
<1> DEFINE Asked(k) == /\ data[k] # "none" /\ ~invalid[k]
                       /\ fetching[k] = "no" /\ fetching'[k] # "no"
<1>1. TypeOK /\ [Next]_vars => [(\E k \in Keys : Asked(k)) => Refresh]_vars
  <2> SUFFICES ASSUME TypeOK, Next, ~Refresh, NEW k \in Keys, Asked(k) PROVE FALSE
    OBVIOUS
  <2>1. ASSUME Observe({}, {}) PROVE FALSE
    <3>1. PICK p \in Mounted' : Key(p)' = k /\ Asks(p)
      BY <2>1 DEF Observe, Goes
    <3> QED  BY <3>1 DEF Asks
  <2>2. ASSUME NEW j \in Keys, Answer(j) \/ Fail(j) PROVE FALSE
    BY <2>2 DEF Answer, Fail, TypeOK
  <2> QED  BY <2>1, <2>2 DEF Next, Visit, Leave, Pick, SwitchTab, OpenDrawer, CloseDrawer
<1> QED  BY <1>1, PanelsTypeCorrect, PTL DEF Spec, SeenIsNotAskedAgain

-----------------------------------------------------------------------------
(***************************************************************************)
(* Breakdowns: what is arranged in an order.                               *)
(***************************************************************************)

HIDE PanelsAssumption

\* A bijection, element by element.
LEMMA BijectionIs ==
    ASSUME NEW S, NEW T, NEW p
    PROVE  p \in Bijection(S, T) <=> /\ p \in [S -> T]
                                     /\ \A x, y \in S : p[x] = p[y] => x = y
                                     /\ \A t \in T : \E x \in S : p[x] = t
  BY DEF Bijection, Injection, Surjection, IsInjective

\* As many as they are numbers.
LEMMA Counting ==
    ASSUME NEW n \in Nat, NEW T, NEW p \in Bijection(1..n, T)
    PROVE  IsFiniteSet(T) /\ Cardinality(T) = n
<1>1. ExistsBijection(1..n, T)
  BY DEF ExistsBijection
<1> QED  BY <1>1, FS_NatBijection, FS_CountingElements

\* before orders at: of two, one comes first, and never each before the other.
IsOrder(at, before) ==
    /\ \A i \in at : <<i, i>> \in before
    /\ \A i, j \in at : /\ <<i, j>> \in before \/ <<j, i>> \in before
                        /\ <<i, j>> \in before /\ <<j, i>> \in before => i = j
    /\ \A i, j, k \in at : <<i, j>> \in before /\ <<j, k>> \in before => <<i, k>> \in before

\* The ways in which t has f at the indexes of at, in the order of before.
Orderings(t, f, at, before) ==
    {p \in Bijection(1..Len(t), at) :
        /\ \A n \in 1..Len(t) : t[n] = f[p[n]]
        /\ \A m, n \in 1..Len(t) : m <= n => <<p[m], p[n]>> \in before}

\* Where before is an order, Arranged puts f at all of at in that order, each once
\* (the position of an index is the number of those before it).
LEMMA ArrangedIs ==
    ASSUME NEW f, NEW at, IsFiniteSet(at), NEW before, IsOrder(at, before)
    PROVE  LET t == Arranged(f, at, before)
           IN  /\ t \in Seq({f[i] : i \in at}) /\ Len(t) = Cardinality(at)
               /\ \E p : p \in Orderings(t, f, at, before)
<1> DEFINE upTo(i) == {j \in at : <<j, i>> \in before}
           place == [i \in at |-> Cardinality(upTo(i))]
           N == Cardinality(at)
           p == [n \in 1..N |-> CHOOSE i \in at : place[i] = n]
           t == Arranged(f, at, before)
<1>1. N \in Nat /\ \A i \in at : IsFiniteSet(upTo(i)) /\ place[i] \in Nat
  BY FS_CardinalityType, FS_Subset
<1>2. ASSUME NEW i \in at PROVE place[i] \in 1..N
  <2>1. Cardinality(upTo(i)) <= N
    BY FS_Subset
  <2>2. upTo(i) # {}
    BY DEF IsOrder
  <2>3. Cardinality(upTo(i)) # 0
    BY <1>1, <2>2, FS_EmptySet
  <2> HIDE DEF upTo, N
  <2> QED  BY <1>1, <2>1, <2>3
<1>3. ASSUME NEW i \in at, NEW j \in at, <<i, j>> \in before, i # j PROVE place[i] < place[j]
  <2>1. upTo(i) \subseteq upTo(j) /\ upTo(i) # upTo(j)
    BY <1>3 DEF IsOrder
  <2>2. Cardinality(upTo(i)) <= Cardinality(upTo(j)) /\ Cardinality(upTo(i)) # Cardinality(upTo(j))
    <3> HIDE DEF upTo
    <3> QED  BY <1>1, <2>1, FS_Subset
  <2> HIDE DEF upTo
  <2> QED  BY <1>1, <2>2
<1>4. \A i, j \in at : place[i] = place[j] => i = j
  <2> SUFFICES ASSUME NEW i \in at, NEW j \in at, i # j PROVE place[i] # place[j]
    OBVIOUS
  <2>1. <<i, j>> \in before \/ <<j, i>> \in before
    BY DEF IsOrder
  <2>2. place[i] < place[j] \/ place[j] < place[i]
    BY <1>3, <2>1
  <2>3. place[i] \in Nat /\ place[j] \in Nat
    BY <1>1
  <2> HIDE DEF place
  <2> QED  BY <2>2, <2>3
<1>5. place \in Bijection(at, 1..N)
  <2>1. place \in [at -> 1..N]
    BY <1>2
  <2> HIDE DEF place, N
  <2>2. place \in Injection(at, 1..N)
    BY <1>4, <2>1 DEF Injection, IsInjective
  <2>3. IsFiniteSet(1..N) /\ Cardinality(1..N) = N
    BY <1>1, FS_Interval
  <2>4. place \in Surjection(at, 1..N)
    <3>1. Cardinality(at) = Cardinality(1..N)
      BY <2>3 DEF N
    <3> QED  BY <2>2, <2>3, <3>1, FS_Injection
  <2> QED  BY <2>2, <2>4 DEF Bijection
<1>6. ASSUME NEW n \in 1..N PROVE p[n] \in at /\ place[p[n]] = n
  <2> HIDE DEF place, N
  <2>1. \E i \in at : place[i] = n
    BY <1>5 DEF Bijection, Surjection
  <2> QED  BY <2>1 DEF p
<1>7. t = [n \in 1..N |-> f[p[n]]]
  BY DEF Arranged
<1> HIDE DEF p, t, place, N
<1>8. t \in Seq({f[i] : i \in at}) /\ Len(t) = N
  BY <1>1, <1>6, <1>7
<1>9. p \in Bijection(1..N, at)
  <2>1. p \in [1..N -> at]
    <3>1. p = [n \in 1..N |-> p[n]]
      BY DEF p
    <3> QED  BY <1>6, <3>1
  <2>2. \A m, n \in 1..N : p[m] = p[n] => m = n
    BY <1>6
  <2>3. ASSUME NEW i \in at PROVE \E n \in 1..N : p[n] = i
    <3>1. place[i] \in 1..N
      BY <1>2
    <3>2. place[p[place[i]]] = place[i] /\ p[place[i]] \in at
      BY <1>6, <3>1
    <3> QED  BY <1>4, <3>1, <3>2
  <2> QED  BY <2>1, <2>2, <2>3, BijectionIs
<1>10. ASSUME NEW m \in 1..N, NEW n \in 1..N, m <= n PROVE <<p[m], p[n]>> \in before
  <2>1. p[m] \in at /\ p[n] \in at /\ place[p[m]] = m /\ place[p[n]] = n
    BY <1>6
  <2>2. CASE p[m] = p[n]
    BY <2>1, <2>2 DEF IsOrder
  <2>3. CASE p[m] # p[n]
    <3>1. ~(n < m)
      BY <1>1, <1>10
    <3>2. <<p[n], p[m]>> \notin before
      BY <1>3, <2>1, <2>3, <3>1
    <3> QED  BY <2>1, <3>2 DEF IsOrder
  <2> QED  BY <2>2, <2>3
<1>11. p \in Orderings(t, f, at, before)
  <2>1. \A n \in 1..N : t[n] = f[p[n]]
    BY <1>7
  <2> QED  BY <1>8, <1>9, <1>10, <2>1 DEF Orderings
<1> QED  BY <1>8, <1>11 DEF t, N

\* What is in some order is arranged by it.
LEMMA OrderingIsArranged ==
    ASSUME NEW A, NEW t \in Seq(A), NEW f, NEW at, NEW before, IsOrder(at, before),
           NEW p \in Orderings(t, f, at, before)
    PROVE  t = Arranged(f, at, before)
<1> DEFINE upTo(i) == {j \in at : <<j, i>> \in before}
           place == [i \in at |-> Cardinality(upTo(i))]
           N == Len(t)
<1>0. N \in Nat
  OBVIOUS
<1>1. /\ N \in Nat /\ p \in Bijection(1..N, at)
      /\ \A n \in 1..N : t[n] = f[p[n]]
      /\ \A m, n \in 1..N : m <= n => <<p[m], p[n]>> \in before
  <2> HIDE DEF N
  <2> QED  BY <1>0 DEF Orderings, N
<1>2. /\ p \in [1..N -> at] /\ \A m, n \in 1..N : p[m] = p[n] => m = n
      /\ \A i \in at : \E n \in 1..N : p[n] = i
  BY <1>1, BijectionIs
<1>3. Cardinality(at) = N
  BY <1>1, Counting
<1>4. t = [n \in 1..N |-> t[n]]
  OBVIOUS
<1> HIDE DEF N
<1>5. ASSUME NEW n \in 1..N PROVE place[p[n]] = n /\ p[n] \in at
  <2> DEFINE q == [m \in 1..n |-> p[m]]
  <2>1. n \in Nat /\ 1..n \subseteq 1..N /\ p[n] \in at
    BY <1>1, <1>2
  <2>2. q \in [1..n -> upTo(p[n])]
    <3>1. \A m \in 1..n : m <= n
      BY <2>1
    <3> QED  BY <1>1, <1>2, <2>1, <3>1
  <2>3. \A k, m \in 1..n : q[k] = q[m] => k = m
    BY <1>2, <2>1
  <2>4. ASSUME NEW i \in upTo(p[n]) PROVE \E m \in 1..n : q[m] = i
    <3>1. PICK m \in 1..N : p[m] = i
      BY <1>2
    <3>2. m <= n
      <4> SUFFICES ASSUME ~(m <= n) PROVE FALSE
        OBVIOUS
      <4>1. n <= m /\ n # m
        BY <1>1, <2>1
      <4>2. <<p[n], p[m]>> \in before /\ <<p[m], p[n]>> \in before
        BY <1>1, <3>1, <4>1
      <4>3. p[m] = p[n]
        BY <1>2, <2>1, <4>2 DEF IsOrder
      <4> QED  BY <1>2, <4>1, <4>3
    <3>3. m \in 1..n
      BY <1>1, <3>2, <2>1
    <3> QED  BY <3>1, <3>3
  <2> HIDE DEF q
  <2>5. q \in Bijection(1..n, upTo(p[n]))
    BY <2>2, <2>3, <2>4, BijectionIs
  <2> HIDE DEF upTo
  <2>6. Cardinality(upTo(p[n])) = n
    BY <2>1, <2>5, Counting
  <2> QED  BY <2>1, <2>6
<1>6. ASSUME NEW n \in 1..N PROVE (CHOOSE i \in at : place[i] = n) = p[n]
  <2> HIDE DEF place
  <2>1. \A i \in at : place[i] = n => i = p[n]
    BY <1>2, <1>5
  <2> QED  BY <1>5, <2>1
<1>7. Arranged(f, at, before) = [n \in 1..N |-> f[CHOOSE i \in at : place[i] = n]]
  BY <1>3 DEF Arranged
<1> HIDE DEF place
<1>8. \A n \in 1..N : f[CHOOSE i \in at : place[i] = n] = t[n]
  BY <1>1, <1>6
<1> QED  BY <1>4, <1>7, <1>8

\* An arrangement of an arrangement.
LEMMA Rearranged ==
    ASSUME NEW t, NEW f, NEW at, NEW before, NEW p \in Orderings(t, f, at, before),
           NEW u, NEW T \in SUBSET (1..Len(t)), NEW first, NEW q \in Orderings(u, t, T, first),
           NEW into, \A n \in T : p[n] \in into, \A i \in into : \E n \in T : p[n] = i, NEW order,
           \A m, n \in T : <<m, n>> \in first => <<p[m], p[n]>> \in order
    PROVE  \E r : r \in Orderings(u, f, into, order)
<1> DEFINE r == [n \in 1..Len(u) |-> p[q[n]]]
<1>1. /\ p \in [1..Len(t) -> at] /\ \A m, n \in 1..Len(t) : p[m] = p[n] => m = n
      /\ \A n \in 1..Len(t) : t[n] = f[p[n]]
  <2>1. p \in Bijection(1..Len(t), at) /\ \A n \in 1..Len(t) : t[n] = f[p[n]]
    BY DEF Orderings
  <2> QED  BY <2>1, BijectionIs
<1>2. /\ q \in [1..Len(u) -> T] /\ \A m, n \in 1..Len(u) : q[m] = q[n] => m = n
      /\ \A k \in T : \E n \in 1..Len(u) : q[n] = k
      /\ \A n \in 1..Len(u) : u[n] = t[q[n]]
      /\ \A m, n \in 1..Len(u) : m <= n => <<q[m], q[n]>> \in first
  <2>1. /\ q \in Bijection(1..Len(u), T)
        /\ \A n \in 1..Len(u) : u[n] = t[q[n]]
        /\ \A m, n \in 1..Len(u) : m <= n => <<q[m], q[n]>> \in first
    BY DEF Orderings
  <2> QED  BY <2>1, BijectionIs
<1>3. r \in [1..Len(u) -> into]
  BY <1>2
<1>4. \A m, n \in 1..Len(u) : r[m] = r[n] => m = n
  BY <1>1, <1>2
<1>5. \A i \in into : \E n \in 1..Len(u) : r[n] = i
  BY <1>2
<1>6. \A n \in 1..Len(u) : u[n] = f[r[n]]
  BY <1>1, <1>2
<1>7. \A m, n \in 1..Len(u) : m <= n => <<r[m], r[n]>> \in order
  BY <1>2
<1> HIDE DEF r
<1>8. r \in Bijection(1..Len(u), into)
  BY <1>3, <1>4, <1>5, BijectionIs
<1>9. r \in Orderings(u, f, into, order)
  BY <1>6, <1>7, <1>8 DEF Orderings
<1> QED  BY <1>9

\* What is neither less than the other comes in either order.
IsWeakOrder(at, less) ==
    /\ \A i, j \in at : ~(<<i, j>> \in less /\ <<j, i>> \in less)
    /\ \A i, j, k \in at : <<i, k>> \in less => <<i, j>> \in less \/ <<j, k>> \in less

Stable(at, less) == {p \in at \X at : p \in less \/ (p[1] <= p[2] /\ <<p[2], p[1]>> \notin less)}

\* A stable sort has an order: that of less, and of the indexes where neither is less.
LEMMA StableIsOrder ==
    ASSUME NEW at \in SUBSET Int, NEW less, IsWeakOrder(at, less)
    PROVE  IsOrder(at, Stable(at, less))
<1>1. \A i, j \in at : <<i, j>> \in Stable(at, less) <=>
          <<i, j>> \in less \/ (i <= j /\ <<j, i>> \notin less)
  BY DEF Stable
<1>2. \A i, j \in at : <<i, j>> \in less => <<j, i>> \notin less
  BY DEF IsWeakOrder
<1>3. \A i \in at : <<i, i>> \in Stable(at, less)
  BY <1>1, <1>2
<1>4. ASSUME NEW i \in at, NEW j \in at
      PROVE  /\ <<i, j>> \in Stable(at, less) \/ <<j, i>> \in Stable(at, less)
             /\ <<i, j>> \in Stable(at, less) /\ <<j, i>> \in Stable(at, less) => i = j
  <2>1. i <= j \/ j <= i
    OBVIOUS
  <2>2. i <= j /\ j <= i => i = j
    OBVIOUS
  <2> QED  BY <1>1, <1>2, <2>1, <2>2
<1>5. ASSUME NEW i \in at, NEW j \in at, NEW k \in at,
             <<i, j>> \in Stable(at, less), <<j, k>> \in Stable(at, less)
      PROVE  <<i, k>> \in Stable(at, less)
  <2>1. i <= j /\ j <= k => i <= k
    OBVIOUS
  <2>2. \A x, y, z \in at : <<x, z>> \in less => <<x, y>> \in less \/ <<y, z>> \in less
    BY DEF IsWeakOrder
  <2>3. <<k, i>> \notin less
    BY <1>1, <1>2, <1>5, <2>2
  <2>4. CASE <<i, j>> \in less \/ <<j, k>> \in less
    BY <1>1, <1>2, <1>5, <2>2, <2>4
  <2>5. CASE <<i, j>> \notin less /\ <<j, k>> \notin less
    BY <1>1, <1>5, <2>1, <2>3, <2>5
  <2> QED  BY <2>4, <2>5
<1> QED  BY <1>3, <1>4, <1>5 DEF IsOrder

\* The order of the indexes is one.
LEMMA UpwardsIsOrder ==
    ASSUME NEW at \in SUBSET Int
    PROVE  IsOrder(at, Upwards(at))
<1>1. \A i, j \in at : <<i, j>> \in Upwards(at) <=> i <= j
  BY DEF Upwards
<1>2. \A i \in at : i <= i
  OBVIOUS
<1>3. \A i, j \in at : (i <= j \/ j <= i) /\ (i <= j /\ j <= i => i = j)
  OBVIOUS
<1>4. \A i, j, k \in at : i <= j /\ j <= k => i <= k
  OBVIOUS
<1> QED  BY <1>1, <1>2, <1>3, <1>4 DEF IsOrder

\* Indexes of a sequence.
LEMMA Indexes ==
    ASSUME NEW A, NEW s \in Seq(A)
    PROVE  /\ DOMAIN s = 1..Len(s) /\ Len(s) \in Nat /\ IsFiniteSet(DOMAIN s) /\ DOMAIN s \in SUBSET Int
           /\ Cardinality(DOMAIN s) = Len(s)
<1>1. DOMAIN s = 1..Len(s) /\ Len(s) \in Nat
  OBVIOUS
<1> DEFINE n == Len(s)
<1> HIDE DEF n
<1>2. IsFiniteSet(1..n) /\ 1..n \in SUBSET Int /\ Cardinality(1..n) = n
  <2>1. n \in Nat
    BY <1>1 DEF n
  <2> QED  BY <2>1, FS_Interval
<1> QED  BY <1>1, <1>2 DEF n

-----------------------------------------------------------------------------
(* Fractions.                                                              *)

\* What is compared: a fraction with something below it, or an infinite value.
Positive == Nat \ {0}
Fractions == (Int \X Positive) \cup {NegInfinity, Infinity}

\* A positive factor on both sides of a comparison cancels,
LEMMA Cancel == ASSUME NEW x \in Int, NEW y \in Int, NEW k \in Positive PROVE x * k <= y * k => x <= y
<1> SUFFICES ASSUME y < x PROVE y * k < x * k /\ y * k \in Int /\ x * k \in Int
  BY DEF Positive
<1>1. x - y \in Nat \ {0} /\ k \in Nat \ {0}
  BY DEF Positive
<1>2. (x - y) * k > 0 /\ (x - y) * k = x * k - y * k
  BY <1>1
<1> QED  BY <1>2 DEF Positive

\* and may be added.
LEMMA Grow == ASSUME NEW x \in Int, NEW y \in Int, NEW k \in Positive, x <= y PROVE x * k <= y * k
<1>1. y - x \in Nat /\ k \in Nat
  BY DEF Positive
<1>2. (y - x) * k >= 0 /\ (y - x) * k = y * k - x * k
  BY <1>1
<1> QED  BY <1>1, <1>2

\* Of two fractions one is below, or neither; and between them comes any third.
LEMMA FractionsCompare ==
    ASSUME NEW a \in Int, NEW b \in Int, NEW c \in Int,
           NEW i \in Positive, NEW j \in Positive, NEW k \in Positive
    PROVE  a * k < c * i => a * j < b * i \/ b * k < c * j
<1> SUFFICES ASSUME ~(a * j < b * i), ~(b * k < c * j) PROVE c * i <= a * k
  BY DEF Positive
<1>1. /\ a * j \in Int /\ b * i \in Int /\ b * k \in Int /\ c * j \in Int /\ c * i \in Int /\ a * k \in Int
  BY DEF Positive
<1>2. b * i <= a * j /\ c * j <= b * k
  BY <1>1
<1>3. (b * i) * k <= (a * j) * k
  BY <1>1, <1>2, Grow
<1>4. (c * j) * i <= (b * k) * i
  BY <1>1, <1>2, Grow
<1>5. (c * j) * i = (c * i) * j /\ (b * k) * i = (b * i) * k /\ (a * j) * k = (a * k) * j
  BY DEF Positive
<1>6. (c * i) * j \in Int /\ (b * i) * k \in Int /\ (a * k) * j \in Int
  BY DEF Positive
<1> DEFINE x == (c * i) * j
           y == (b * i) * k
           z == (a * k) * j
<1>7. x <= y /\ y <= z
  BY <1>3, <1>4, <1>5
<1> HIDE DEF x, y, z
<1>8. x <= z
  BY <1>6, <1>7 DEF x, y, z
<1> QED  BY <1>1, <1>8, Cancel DEF x, z

\* An infinite value is below or above all others, and fractions compare crosswise.
LEMMA BelowIs ==
    ASSUME NEW a \in Fractions, NEW b \in Fractions
    PROVE  /\ a = NegInfinity => (Below(a, b) <=> b # NegInfinity) /\ ~Below(b, a)
           /\ a = Infinity => (Below(b, a) <=> b # Infinity) /\ ~Below(a, b)
           /\ a \in Int \X Positive /\ b \in Int \X Positive => (Below(a, b) <=> a[1] * b[2] < b[1] * a[2])
<1>1. a \in Int \X Positive \/ a = NegInfinity \/ a = Infinity
  BY DEF Fractions
<1>2. b \in Int \X Positive \/ b = NegInfinity \/ b = Infinity
  BY DEF Fractions
<1>3. \A p \in Int \X Positive : /\ p[1] \in Int /\ p[2] \in Nat /\ p[2] > 0
                                 /\ p # NegInfinity /\ p # Infinity
  BY DEF Positive, NegInfinity, Infinity
<1>4. CASE a \in Int \X Positive /\ b \in Int \X Positive
  BY <1>3, <1>4 DEF Below
<1>5. CASE a \in Int \X Positive /\ ~(b \in Int \X Positive)
  BY <1>2, <1>3, <1>5 DEF Below, NegInfinity, Infinity
<1>6. CASE ~(a \in Int \X Positive)
  BY <1>1, <1>2, <1>3, <1>6 DEF Below, NegInfinity, Infinity
<1> QED  BY <1>4, <1>5, <1>6

\* What a table is sorted by is comparable: a total order up to ties, as the
\* comparison in sortRichRows must be.
LEMMA BelowIsWeak ==
    ASSUME NEW a \in Fractions, NEW b \in Fractions, NEW c \in Fractions
    PROVE  /\ ~(Below(a, b) /\ Below(b, a))
           /\ Below(a, c) => Below(a, b) \/ Below(b, c)
<1> DEFINE Finite(x) == x \in Int \X Positive
<1>1. \A x \in Fractions : Finite(x) \/ x = NegInfinity \/ x = Infinity
  BY DEF Fractions
<1>2. \A x, y \in Fractions :
        /\ x = NegInfinity => (Below(x, y) <=> y # NegInfinity) /\ ~Below(y, x)
        /\ x = Infinity => (Below(y, x) <=> y # Infinity) /\ ~Below(x, y)
        /\ Finite(x) /\ Finite(y) => (Below(x, y) <=> x[1] * y[2] < y[1] * x[2])
  BY BelowIs
<1>3. ASSUME Finite(a), Finite(b) PROVE ~(Below(a, b) /\ Below(b, a))
  <2>1. a[1] \in Int /\ a[2] \in Nat /\ b[1] \in Int /\ b[2] \in Nat
    BY <1>3 DEF Positive
  <2>2. a[1] * b[2] \in Int /\ b[1] * a[2] \in Int
    BY <2>1
  <2>3. ~(a[1] * b[2] < b[1] * a[2] /\ b[1] * a[2] < a[1] * b[2])
    BY <2>2
  <2> QED  BY <1>2, <1>3, <2>3
<1>4. ASSUME Finite(a), Finite(b), Finite(c) PROVE Below(a, c) => Below(a, b) \/ Below(b, c)
  <2>1. a[1] \in Int /\ a[2] \in Positive /\ b[1] \in Int /\ b[2] \in Positive /\ c[1] \in Int /\ c[2] \in Positive
    BY <1>4
  <2>2. a[1] * c[2] < c[1] * a[2] => a[1] * b[2] < b[1] * a[2] \/ b[1] * c[2] < c[1] * b[2]
    BY <2>1, FractionsCompare
  <2> QED  BY <1>2, <1>4, <2>2
<1> HIDE DEF Finite
<1>5. ~(Below(a, b) /\ Below(b, a))
  BY <1>1, <1>2, <1>3
<1>6. Below(a, c) => Below(a, b) \/ Below(b, c)
  BY <1>1, <1>2, <1>4
<1> QED  BY <1>5, <1>6

\* What is kept of an ordering stays in order.
LEMMA FilterOfOrdering ==
    ASSUME NEW t, Len(t) \in Nat, NEW f, NEW at, NEW before, NEW p \in Orderings(t, f, at, before),
           NEW T \in SUBSET (1..Len(t)), NEW into, \A n \in T : p[n] \in into, \A i \in into : \E n \in T : p[n] = i
    PROVE  \E r : r \in Orderings(Arranged(t, T, Upwards(T)), f, into, before)
<1>1. IsFiniteSet(T) /\ T \in SUBSET Int
  <2>1. IsFiniteSet(1..Len(t)) /\ 1..Len(t) \in SUBSET Int
    BY FS_Interval
  <2> QED  BY <2>1, FS_Subset
<1>2. IsOrder(T, Upwards(T))
  BY <1>1, UpwardsIsOrder
<1> DEFINE u == Arranged(t, T, Upwards(T))
           first == Upwards(T)
<1>3. PICK q : q \in Orderings(u, t, T, first)
  BY <1>1, <1>2, ArrangedIs
<1>4. \A m, n \in T : <<m, n>> \in first => <<p[m], p[n]>> \in before
  BY DEF Upwards, Orderings
<1> HIDE DEF u, first
<1>5. (\A n \in T : p[n] \in into) /\ \A i \in into : \E n \in T : p[n] = i
  OBVIOUS
<1>6. T \in SUBSET (1..Len(t))
  OBVIOUS
<1>7. \E r : r \in Orderings(u, f, into, before)
  BY <1>3, <1>4, <1>5, <1>6, Rearranged
<1> QED  BY <1>7 DEF u

\* A stable sort of what is in the order of its indexes.
LEMMA SortOfOrdering ==
    ASSUME NEW t, Len(t) \in Nat, NEW f, NEW at,
           NEW p \in Orderings(t, f, at, Upwards(at)),
           NEW less, NEW lessOf, IsWeakOrder(at, less),
           \A m, n \in 1..Len(t) : <<m, n>> \in lessOf <=> <<p[m], p[n]>> \in less
    PROVE  \E r : r \in Orderings(Arranged(t, 1..Len(t), Stable(1..Len(t), lessOf)), f, at, Stable(at, less))
<1> DEFINE N == 1..Len(t)
           first == Stable(N, lessOf)
           u == Arranged(t, N, first)
<1>1. /\ p \in [N -> at] /\ \A i \in at : \E n \in N : p[n] = i
      /\ \A m, n \in N : m <= n => p[m] <= p[n]
  <2>1. p \in Bijection(N, at) /\ \A m, n \in N : m <= n => <<p[m], p[n]>> \in Upwards(at)
    BY DEF Orderings
  <2> HIDE DEF N
  <2>2. p \in [N -> at] /\ \A i \in at : \E n \in N : p[n] = i
    BY <2>1, BijectionIs
  <2> QED  BY <2>1, <2>2 DEF Upwards
<1>2. IsFiniteSet(N) /\ N \in SUBSET Int
  BY FS_Interval
<1>3. \A m, n \in N : <<m, n>> \in lessOf <=> <<p[m], p[n]>> \in less
  OBVIOUS
<1> HIDE DEF N
<1>4. IsWeakOrder(N, lessOf)
  BY <1>1, <1>3 DEF IsWeakOrder
<1>5. IsOrder(N, first)
  BY <1>2, <1>4, StableIsOrder
<1>6. PICK q : q \in Orderings(u, t, N, first)
  <2> HIDE DEF first
  <2> QED  BY <1>2, <1>5, ArrangedIs
<1>7. \A m, n \in N : <<m, n>> \in first => <<p[m], p[n]>> \in Stable(at, less)
  BY <1>1, <1>3 DEF Stable
<1>8. (\A n \in N : p[n] \in at) /\ \A i \in at : \E n \in N : p[n] = i
  BY <1>1
<1> HIDE DEF first, u
<1>9. N \in SUBSET (1..Len(t))
  BY DEF N
<1> DEFINE before == Upwards(at)
<1>10. p \in Orderings(t, f, at, before)
  OBVIOUS
<1> HIDE DEF before
<1>11. \A n \in N : p[n] \in at
  BY <1>8
<1>12. \A i \in at : \E n \in N : p[n] = i
  BY <1>8
<1> DEFINE order == Stable(at, less)
<1>13. \A m, n \in N : <<m, n>> \in first => <<p[m], p[n]>> \in order
  BY <1>7
<1> HIDE DEF order
<1>14. \E r : r \in Orderings(u, f, at, order)
  BY <1>6, <1>9, <1>10, <1>11, <1>12, <1>13, Rearranged
<1> QED  BY <1>14 DEF N, first, u, order

-----------------------------------------------------------------------------
(* Rows.                                                                   *)

\* The rows of a breakdown are rows of a response: of one entity each, with trends of
\* the same buckets.
LEMMA RowsAreRows ==
    ASSUME BreakdownTypeOK
    PROVE  /\ rows \in Seq(ToSet(rows)) /\ dim \in Dims
           /\ \A i, j \in DOMAIN rows : /\ IsRow(rows[i])
                                        /\ rows[i].key = rows[j].key => i = j
                                        /\ DOMAIN rows[i].trend = DOMAIN rows[j].trend
<1> DEFINE got == [dim |-> dim, rows |-> rows]
<1>1. CASE got \in Responses
  <2>1. got.rows = rows /\ got.dim = dim
    OBVIOUS
  <2> HIDE DEF got
  <2>2. /\ got \in [dim : Dims, rows : Seq(ToSet(got.rows))]
        /\ \A i, j \in DOMAIN got.rows :
             /\ IsRow(got.rows[i])
             /\ got.rows[i].key = got.rows[j].key => i = j
             /\ DOMAIN got.rows[i].trend = DOMAIN got.rows[j].trend
    BY <1>1, ResponsesAssumption
  <2> QED  BY <2>1, <2>2
<1>2. CASE got \notin Responses
  <2>1. rows = <<>> /\ dim \in Dims
    BY <1>2 DEF BreakdownTypeOK
  <2>2. <<>> \in Seq(ToSet(<<>>)) /\ DOMAIN <<>> = {}
    OBVIOUS
  <2> QED  BY <2>1, <2>2
<1> QED  BY <1>1, <1>2

\* What a row or a bucket has of a metric is a number, a missing cost counting as none.
LEMMA ValuesAreNumbers ==
    ASSUME NEW v, Counted(v), NEW m
    PROVE  MetricValue(v, m) \in Nat /\ Tokens(v) \in Nat
  BY DEF Counted, MetricValue, Tokens

\* What a table is sorted by, and where it is without bound.
LEMMA SortValues ==
    ASSUME NEW r, IsRow(r), NEW key \in SortKeys, NEW m
    PROVE  /\ SortValue(r, key, m) \in Fractions
           /\ SortValue(r, key, m) = NegInfinity <=>
                CASE key = "cost"     -> r.cost = Absent
                  [] key = "change"   -> r.previous = Absent
                  [] key = "cacheHit" -> CacheHit(r) = NegInfinity
                  [] OTHER            -> FALSE
           /\ SortValue(r, key, m) = Infinity <=>
                /\ key = "change" /\ r.previous # Absent
                /\ MetricValue(r.previous, m) = 0 /\ MetricValue(r, m) > 0
<1>1. /\ Counted(r) /\ (r.previous # Absent => Counted(r.previous))
      /\ r.requests \in Nat /\ r.failed \in Nat /\ r.cached \in Nat /\ r.name \in Int
  BY DEF IsRow
<1>2. /\ MetricValue(r, m) \in Nat /\ Tokens(r) \in Nat
      /\ r.previous # Absent => MetricValue(r.previous, m) \in Nat
  BY <1>1, ValuesAreNumbers
<1>3. r.cost \in Nat \cup {Absent} /\ r.input \in Nat
  BY <1>1 DEF Counted
<1>4. \A n \in Int, d \in Positive : <<n, d>> \in Fractions /\ <<n, d>> # NegInfinity /\ <<n, d>> # Infinity
  BY DEF Fractions, Positive, NegInfinity, Infinity
<1>5. NegInfinity \in Fractions /\ Infinity \in Fractions /\ NegInfinity # Infinity /\ 1 \in Positive
  BY DEF Fractions, Positive, NegInfinity, Infinity
<1>6. CASE key \in {"name", "share", "tokens"}
  BY <1>1, <1>2, <1>4, <1>5, <1>6 DEF SortValue
<1>7. CASE key = "cost"
  BY <1>3, <1>4, <1>5, <1>7 DEF SortValue
<1>8. CASE key = "change"
  <2> DEFINE current == MetricValue(r, m)
             previous == MetricValue(r.previous, m)
  <2>1. r.previous = Absent => SortValue(r, key, m) = NegInfinity
    BY <1>8 DEF SortValue, Change
  <2>2. ASSUME r.previous # Absent
        PROVE  SortValue(r, key, m) = IF previous > 0 THEN <<current - previous, previous>>
                                      ELSE IF current > 0 THEN Infinity ELSE <<0, 1>>
    <3>1. previous # Absent
      BY <1>2, <2>2, BreakdownAssumption
    <3> QED  BY <1>8, <2>2, <3>1 DEF SortValue, Change
  <2>3. r.previous # Absent => /\ previous \in Nat /\ current \in Nat /\ current - previous \in Int
                               /\ previous > 0 => previous \in Positive
    BY <1>2 DEF Positive
  <2> HIDE DEF current, previous
  <2>4. CASE r.previous = Absent
    BY <1>5, <1>8, <2>1, <2>4
  <2>5. CASE r.previous # Absent /\ previous > 0
    BY <1>4, <1>8, <2>2, <2>3, <2>5 DEF current, previous
  <2>6. CASE r.previous # Absent /\ ~(previous > 0)
    <3>1. previous = 0
      BY <2>3, <2>6
    <3> QED  BY <1>4, <1>5, <1>8, <2>2, <2>3, <2>6, <3>1 DEF current, previous
  <2> QED  BY <2>4, <2>5, <2>6
<1>9. CASE key = "fail"
  <2>1. r.requests > 0 => r.requests \in Positive
    BY <1>1 DEF Positive
  <2> QED  BY <1>1, <1>4, <1>5, <1>9, <2>1 DEF SortValue
<1>10. CASE key = "cacheHit"
  <2> DEFINE denom == r.input + IF r.cachedInInput THEN 0 ELSE r.cached
  <2>1. denom \in Nat /\ (denom > 0 => denom \in Positive)
    BY <1>1, <1>3 DEF Positive
  <2>2. SortValue(r, key, m) = CacheHit(r)
    BY <1>10 DEF SortValue
  <2>3. CacheHit(r) = IF dim = "model" /\ denom > 0 THEN <<r.cached, denom>> ELSE NegInfinity
    BY DEF CacheHit
  <2> HIDE DEF denom
  <2> QED  BY <1>1, <1>4, <1>5, <1>10, <2>1, <2>2, <2>3
<1> QED  BY <1>6, <1>7, <1>8, <1>9, <1>10 DEF SortKeys

\* What is kept of a sequence.
LEMMA KeptIs ==
    ASSUME NEW A, NEW s \in Seq(A), NEW at \in SUBSET DOMAIN s
    PROVE  LET t == Arranged(s, at, Upwards(at))
           IN  /\ IsFiniteSet(at) /\ at \in SUBSET Int /\ IsOrder(at, Upwards(at))
               /\ t \in Seq({s[i] : i \in at}) /\ t \in Seq(A) /\ Len(t) = Cardinality(at)
               /\ \E p : p \in Orderings(t, s, at, Upwards(at))
<1>1. IsFiniteSet(at) /\ at \in SUBSET Int
  BY Indexes, FS_Subset
<1>2. IsOrder(at, Upwards(at))
  BY <1>1, UpwardsIsOrder
<1> DEFINE t == Arranged(s, at, Upwards(at))
<1>3. /\ t \in Seq({s[i] : i \in at}) /\ Len(t) = Cardinality(at)
      /\ \E p : p \in Orderings(t, s, at, Upwards(at))
  BY <1>1, <1>2, ArrangedIs
<1> HIDE DEF t
<1>4. {s[i] : i \in at} \subseteq A
  OBVIOUS
<1>5. t \in Seq(A)
  <2>1. t \in [1..Len(t) -> {s[i] : i \in at}] /\ Len(t) \in Nat
    BY <1>3
  <2>2. t \in [1..Len(t) -> A]
    BY <1>4, <2>1
  <2> QED  BY <2>1, <2>2
<1> QED  BY <1>1, <1>2, <1>3, <1>5 DEF t

\* A sequence sorted.
LEMMA SortedIs ==
    ASSUME NEW A, NEW s \in Seq(A), NEW less, IsWeakOrder(DOMAIN s, less)
    PROVE  LET t == Arranged(s, DOMAIN s, Stable(DOMAIN s, less))
           IN  /\ IsOrder(DOMAIN s, Stable(DOMAIN s, less))
               /\ t \in Seq(A) /\ Len(t) = Len(s)
               /\ \E p : p \in Orderings(t, s, DOMAIN s, Stable(DOMAIN s, less))
<1> DEFINE at == DOMAIN s
           order == Stable(at, less)
           t == Arranged(s, at, order)
<1>1. IsFiniteSet(at) /\ at \in SUBSET Int /\ Cardinality(at) = Len(s)
  BY Indexes
<1>2. {s[i] : i \in at} \subseteq A
  OBVIOUS
<1>0. IsWeakOrder(at, less)
  OBVIOUS
<1> HIDE DEF at
<1>3. IsOrder(at, order)
  BY <1>0, <1>1, StableIsOrder
<1> HIDE DEF order
<1>4. /\ t \in Seq({s[i] : i \in at}) /\ Len(t) = Cardinality(at)
      /\ \E p : p \in Orderings(t, s, at, order)
  BY <1>1, <1>3, ArrangedIs
<1> HIDE DEF t
<1>5. t \in Seq(A)
  <2>1. t \in [1..Len(t) -> {s[i] : i \in at}] /\ Len(t) \in Nat
    BY <1>4
  <2>2. t \in [1..Len(t) -> A]
    BY <1>2, <2>1
  <2> QED  BY <2>1, <2>2
<1> QED  BY <1>1, <1>3, <1>4, <1>5 DEF t, at, order

\* Where the rows are that the table shows.
RichAt(m) == {i \in DOMAIN rows : rows[i].requests > 0 \/ MetricValue(rows[i], m) > 0}

\* The rows of the table are those picked at their indexes,
LEMMA RichRowsIs ==
    ASSUME NEW m
    PROVE  RichRows(m) = Arranged(rows, RichAt(m), Upwards(RichAt(m)))
  BY DEF RichRows, Filtered, RichAt

\* and are rows of the response.
LEMMA RichRowsAreRows ==
    ASSUME BreakdownTypeOK, NEW m
    PROVE  /\ RichRows(m) \in Seq(ToSet(rows))
           /\ \A i \in DOMAIN RichRows(m) : IsRow(RichRows(m)[i])
<1> DEFINE at == RichAt(m)
           t == Arranged(rows, at, Upwards(at))
<1>1. rows \in Seq(ToSet(rows)) /\ \A i \in DOMAIN rows : IsRow(rows[i])
  BY RowsAreRows
<1>2. at \in SUBSET DOMAIN rows
  BY DEF RichAt
<1> HIDE DEF at
<1>3. t \in Seq({rows[i] : i \in at}) /\ t \in Seq(ToSet(rows))
  BY <1>1, <1>2, KeptIs
<1> HIDE DEF t
<1>4. \A i \in DOMAIN t : t[i] \in {rows[j] : j \in at}
  BY <1>3
<1>5. \A i \in DOMAIN t : IsRow(t[i])
  BY <1>1, <1>2, <1>4
<1> QED  BY <1>3, <1>5, RichRowsIs DEF t, at

\* The order of the table's rows.
RowLess(a, b, m, by) ==
    IF by.desc THEN Below(SortValue(b, by.key, m), SortValue(a, by.key, m))
               ELSE Below(SortValue(a, by.key, m), SortValue(b, by.key, m))

\* The places in t of which the first comes first.
Precedes(t, m, by) == {p \in (DOMAIN t) \X (DOMAIN t) : RowLess(t[p[1]], t[p[2]], m, by)}

\* One row precedes another as the comparison has it.
LEMMA PrecedesIs ==
    ASSUME NEW t, NEW m, NEW by, NEW i \in DOMAIN t, NEW j \in DOMAIN t
    PROVE  <<i, j>> \in Precedes(t, m, by) <=> RowLess(t[i], t[j], m, by)
  BY DEF Precedes

\* The sorted table is the stable arrangement of its rows.
LEMMA SortRichRowsIs ==
    ASSUME NEW m, NEW by
    PROVE  LET t == RichRows(m)
           IN  SortRichRows(m, by) = Arranged(t, DOMAIN t, Stable(DOMAIN t, Precedes(t, m, by)))
<1> DEFINE t == RichRows(m)
           D == DOMAIN t
           Less(a, b) == RowLess(a, b, m, by)
           before == {p \in D \X D : Less(t[p[1]], t[p[2]]) \/ (p[1] <= p[2] /\ ~Less(t[p[2]], t[p[1]]))}
<1>1. SortRichRows(m, by) = Arranged(t, D, before)
  BY DEF SortRichRows, StableSort, RowLess
<1> HIDE DEF t, D
<1>2. \A i, j \in D : <<i, j>> \in Precedes(t, m, by) <=> Less(t[i], t[j])
  BY PrecedesIs DEF D
<1> HIDE DEF Less
<1>3. before = Stable(D, Precedes(t, m, by))
  BY <1>2 DEF Stable
<1> HIDE DEF before
<1> QED  BY <1>1, <1>3 DEF t, D

\* The comparison of rows that sortRichRows passes to sort is a total order up to ties,
\* whatever the column and the direction.
LEMMA PrecedesIsWeak ==
    ASSUME NEW t, \A i \in DOMAIN t : IsRow(t[i]), NEW m, NEW by, by.key \in SortKeys
    PROVE  IsWeakOrder(DOMAIN t, Precedes(t, m, by))
<1> DEFINE val(i) == SortValue(t[i], by.key, m)
<1>1. \A i \in DOMAIN t : val(i) \in Fractions
  BY SortValues
<1> HIDE DEF val
<1>2. \A i, j \in DOMAIN t : <<i, j>> \in Precedes(t, m, by) <=>
          IF by.desc THEN Below(val(j), val(i)) ELSE Below(val(i), val(j))
  BY PrecedesIs DEF RowLess, val
<1>3. ASSUME NEW i \in DOMAIN t, NEW j \in DOMAIN t
      PROVE ~(<<i, j>> \in Precedes(t, m, by) /\ <<j, i>> \in Precedes(t, m, by))
  <2>1. ~(Below(val(i), val(j)) /\ Below(val(j), val(i)))
    BY <1>1, BelowIsWeak
  <2> QED  BY <1>2, <2>1
<1>4. ASSUME NEW i \in DOMAIN t, NEW j \in DOMAIN t, NEW k \in DOMAIN t, <<i, k>> \in Precedes(t, m, by)
      PROVE  <<i, j>> \in Precedes(t, m, by) \/ <<j, k>> \in Precedes(t, m, by)
  <2>1. /\ Below(val(i), val(k)) => Below(val(i), val(j)) \/ Below(val(j), val(k))
        /\ Below(val(k), val(i)) => Below(val(k), val(j)) \/ Below(val(j), val(i))
    BY <1>1, BelowIsWeak
  <2> QED  BY <1>2, <1>4, <2>1
<1> QED  BY <1>3, <1>4 DEF IsWeakOrder

-----------------------------------------------------------------------------
(* Types.                                                                  *)

\* What is shown is of a response that arrived, with the colors of an options response,
\* and sorted by a column there is (RichRows.tsx, DetailDrawer.tsx).
THEOREM BreakdownTypeCorrect == BreakdownSpec => []BreakdownTypeOK
<1>1. BreakdownInit => BreakdownTypeOK
  BY DEF BreakdownInit, BreakdownTypeOK, DefaultSort, SortKeys
<1>2. BreakdownTypeOK /\ [BreakdownNext]_breakdownVars => BreakdownTypeOK'
  <2> SUFFICES ASSUME BreakdownTypeOK, [BreakdownNext]_breakdownVars PROVE BreakdownTypeOK'
    OBVIOUS
  <2>0. ASSUME Receives PROVE [dim |-> dim, rows |-> rows]' \in Responses
    <3>1. PICK got \in Responses : dim' = got.dim /\ rows' = got.rows
      BY <2>0 DEF Receives
    <3>2. got \in [dim : Dims, rows : Seq(ToSet(got.rows))]
      BY ResponsesAssumption
    <3>3. [dim |-> got.dim, rows |-> got.rows] = got
      BY <3>2
    <3> QED  BY <3>1, <3>3
  <2>1. CASE Arrives
    BY <2>0, <2>1 DEF Arrives, BreakdownTypeOK
  <2>2. CASE Reloads
    BY <2>0, <2>2 DEF Reloads, BreakdownTypeOK, DefaultSort, SortKeys
  <2>3. CASE OptionsArrive
    BY <2>3 DEF OptionsArrive, BreakdownTypeOK
  <2>4. CASE PickMetric
    BY <2>4 DEF PickMetric, BreakdownTypeOK
  <2>5. CASE ClickHeader
    <3>1. PICK key \in Columns : sort' = NextSort(key)
      BY <2>5 DEF ClickHeader
    <3>2. key \in SortKeys /\ (key # "name") \in BOOLEAN /\ (~sort.desc) \in BOOLEAN
      BY DEF Columns, SortKeys
    <3>3. sort' \in [key : SortKeys, desc : BOOLEAN]
      BY <3>1, <3>2 DEF NextSort
    <3> QED  BY <2>5, <3>3 DEF ClickHeader, BreakdownTypeOK
  <2>6. CASE UNCHANGED breakdownVars
    BY <2>6 DEF breakdownVars, BreakdownTypeOK
  <2> QED  BY <2>1, <2>2, <2>3, <2>4, <2>5, <2>6 DEF BreakdownNext
<1> QED  BY <1>1, <1>2, PTL DEF BreakdownSpec

-----------------------------------------------------------------------------
(* The table.                                                              *)

\* In the sorted table, values that are missing are at one end and those without bound
\* at the other, as no value is below the former nor above the latter.
LEMMA TableIsSorted == ASSUME BreakdownTypeOK PROVE MissingSortsLow
<1> DEFINE key == sort.key
           t == RichRows(metric)
           D == DOMAIN t
           less == Precedes(t, metric, sort)
           shown == SortRichRows(metric, sort)
           val(r) == SortValue(r, key, metric)
           missing(r) == CASE key = "cost"     -> r.cost = Absent
                           [] key = "change"   -> r.previous = Absent
                           [] key = "cacheHit" -> CacheHit(r) = NegInfinity
                           [] OTHER            -> FALSE
           new(r) == /\ key = "change" /\ r.previous # Absent
                     /\ MetricValue(r.previous, metric) = 0 /\ MetricValue(r, metric) > 0
<1>1. /\ t \in Seq(ToSet(rows)) /\ \A i \in D : IsRow(t[i])
  BY RichRowsAreRows
<1>2. key \in SortKeys
  BY DEF BreakdownTypeOK
<1>3. shown = Arranged(t, D, Stable(D, less))
  BY SortRichRowsIs
<1>4. \A r : IsRow(r) => /\ val(r) \in Fractions
                         /\ val(r) = NegInfinity <=> missing(r)
                         /\ val(r) = Infinity <=> new(r)
  BY <1>2, SortValues
<1>5. \A i, j \in D : <<i, j>> \in less <=>
          IF sort.desc THEN Below(val(t[j]), val(t[i])) ELSE Below(val(t[i]), val(t[j]))
  BY PrecedesIs DEF RowLess
<1>6. \A i, j \in D : ~(<<i, j>> \in less /\ <<j, i>> \in less)
  <2> HIDE DEF t, key
  <2>1. IsWeakOrder(DOMAIN t, Precedes(t, metric, sort))
    BY <1>1, <1>2, PrecedesIsWeak DEF key
  <2> QED  BY <2>1 DEF IsWeakOrder
<1>7. /\ Len(shown) \in Nat /\ DOMAIN shown = 1..Len(shown)
      /\ \E q : q \in Orderings(shown, t, D, Stable(D, less))
  <2> HIDE DEF t, shown, key
  <2>1. IsWeakOrder(DOMAIN t, less)
    BY <1>1, <1>2, PrecedesIsWeak DEF key
  <2> HIDE DEF less
  <2>2. shown \in Seq(ToSet(rows)) /\ \E q : q \in Orderings(shown, t, D, Stable(D, less))
    BY <1>1, <1>3, <2>1, SortedIs
  <2> QED  BY <2>2
<1> HIDE DEF val, missing, new, t, less, D, shown, key
<1>8. PICK q : q \in Orderings(shown, t, D, Stable(D, less))
  BY <1>7
<1>9. \A i \in DOMAIN shown : q[i] \in D /\ shown[i] = t[q[i]]
  <2>1. q \in Bijection(1..Len(shown), D) /\ \A i \in 1..Len(shown) : shown[i] = t[q[i]]
    BY <1>8 DEF Orderings
  <2> QED  BY <1>7, <2>1, BijectionIs
<1>10. ASSUME NEW i \in DOMAIN shown, NEW j \in DOMAIN shown, i < j
       PROVE  LET low  == IF sort.desc THEN shown[j] ELSE shown[i]
                  high == IF sort.desc THEN shown[i] ELSE shown[j]
              IN  (missing(high) => missing(low)) /\ (new(low) => new(high))
  <2> DEFINE low  == IF sort.desc THEN shown[j] ELSE shown[i]
             high == IF sort.desc THEN shown[i] ELSE shown[j]
  <2>1. <<q[i], q[j]>> \in Stable(D, less)
    <3>1. i \in 1..Len(shown) /\ j \in 1..Len(shown) /\ i <= j
      BY <1>7, <1>10
    <3> QED  BY <1>8, <3>1 DEF Orderings
  <2>2. <<q[j], q[i]>> \notin less
    BY <1>6, <1>9, <2>1 DEF Stable
  <2>3. ~Below(val(high), val(low))
    BY <1>5, <1>9, <2>2
  <2>4. IsRow(low) /\ IsRow(high)
    BY <1>1, <1>9 DEF D
  <2> HIDE DEF low, high
  <2>5. /\ val(low) \in Fractions /\ val(high) \in Fractions
        /\ (val(high) = NegInfinity <=> missing(high)) /\ (val(low) = NegInfinity <=> missing(low))
        /\ (val(high) = Infinity <=> new(high)) /\ (val(low) = Infinity <=> new(low))
    BY <1>4, <2>4
  <2>6. /\ val(high) = NegInfinity => (Below(val(high), val(low)) <=> val(low) # NegInfinity)
        /\ val(low) = Infinity => (Below(val(high), val(low)) <=> val(high) # Infinity)
    BY <2>5, BelowIs
  <2>7. (missing(high) => missing(low)) /\ (new(low) => new(high))
    BY <2>3, <2>5, <2>6
  <2> QED  BY <2>7 DEF low, high
<1> QED  BY <1>10 DEF MissingSortsLow, missing, new, shown, key

\* Rows without a value in the column sorted by are at the low end, those that are new
\* at the high end of the changes, for all responses (sortRichRows in richRows.ts).
THEOREM MissingSortsLowHolds == BreakdownSpec => []MissingSortsLow
  BY BreakdownTypeCorrect, TableIsSorted, PTL

-----------------------------------------------------------------------------
(***************************************************************************)
(* Sums, in whatever order.                                                *)
(***************************************************************************)

\* The terms of a sum over the indexes of v, and the steps of Total.
EntryTerm(v, a, i) == v[i]
Adds(c, a, x) == a + x

\* Sums over sets of indexes, in no order.
Entries == INSTANCE FoldLemmas WITH Step <- EntryTerm
Adding  == INSTANCE FoldLemmas WITH Step <- Adds

SumOver(v, S) == Entries!Sum(v, S)

\* What holds of nothing and of one element more holds of a finite set.
LEMMA SubsetInduction ==
    ASSUME NEW S, IsFiniteSet(S), NEW P, {} \in P,
           \A T \in SUBSET S : \A x \in S \ T : T \in P => T \cup {x} \in P
    PROVE  S \in P
<1>1. Entries!IsFiniteSet(S)
  BY DEF IsFiniteSet, Entries!IsFiniteSet
<1>2. SUBSET S \subseteq P
  BY <1>1, Entries!SetInduction
<1> QED  BY <1>2

\* A sum is a term and the sum of the others, whichever the term,
LEMMA SumOverStep ==
    ASSUME NEW v, NEW S, IsFiniteSet(S), \A i \in S : v[i] \in Int
    PROVE  /\ SumOver(v, {}) = 0 /\ SumOver(v, S) \in Int
           /\ \A i \in S : SumOver(v, S \ {i}) \in Int /\ SumOver(v, S) = v[i] + SumOver(v, S \ {i})
<1>1. Entries!IsFiniteSet(S)
  BY DEF IsFiniteSet, Entries!IsFiniteSet
<1>2. \A i \in S : Entries!Term(v, i) = v[i]
  BY DEF Entries!Term, EntryTerm
<1>3. \A i \in S : Entries!Term(v, i) \in Int
  BY <1>2
<1>4. /\ Entries!Sum(v, {}) = 0 /\ Entries!Sum(v, S) \in Int
      /\ \A i \in S : /\ Entries!Sum(v, S \ {i}) \in Int
                      /\ Entries!Sum(v, S) = Entries!Term(v, i) + Entries!Sum(v, S \ {i})
  BY <1>1, <1>3, Entries!SumStep
<1> QED  BY <1>2, <1>4 DEF SumOver

\* and with one term more it grows by it.
LEMMA SumOverGrows ==
    ASSUME NEW v, NEW S, IsFiniteSet(S), NEW x, x \notin S, \A i \in S \cup {x} : v[i] \in Int
    PROVE  SumOver(v, S \cup {x}) = v[x] + SumOver(v, S) /\ IsFiniteSet(S \cup {x})
<1> DEFINE T == S \cup {x}
<1>1. IsFiniteSet(T) /\ x \in T /\ T \ {x} = S
  BY FS_AddElement
<1>2. \A i \in T : v[i] \in Int
  OBVIOUS
<1> HIDE DEF T
<1>3. SumOver(v, T) = v[x] + SumOver(v, T \ {x})
  BY <1>1, <1>2, SumOverStep
<1> QED  BY <1>1, <1>3 DEF T

\* What is summed is what is at the indexes, at whatever indexes it is.
LEMMA SumOverImage ==
    ASSUME NEW S, IsFiniteSet(S), NEW T, NEW p \in Bijection(S, T), NEW v, NEW w,
           \A i \in T : v[i] \in Int, \A i \in S : w[i] = v[p[i]]
    PROVE  SumOver(w, S) = SumOver(v, T)
<1> DEFINE image(U) == {p[i] : i \in U}
           P == {U \in SUBSET S : SumOver(w, U) = SumOver(v, image(U)) /\ IsFiniteSet(image(U))}
<1>1. p \in [S -> T] /\ (\A i, j \in S : p[i] = p[j] => i = j) /\ \A t \in T : \E i \in S : p[i] = t
  BY BijectionIs
<1>2. {} \in P
  <2>1. image({}) = {}
    OBVIOUS
  <2>2. SumOver(w, {}) = 0 /\ SumOver(v, {}) = 0 /\ IsFiniteSet({})
    BY FS_EmptySet, SumOverStep
  <2> QED  BY <2>1, <2>2
<1>3. ASSUME NEW U \in SUBSET S, NEW x \in S \ U, U \in P PROVE U \cup {x} \in P
  <2> DEFINE I == image(U)
             y == p[x]
  <2>1. image(U \cup {x}) = I \cup {y}
    OBVIOUS
  <2>2. I \subseteq T /\ y \in T /\ y \notin I /\ w[x] = v[y]
    BY <1>1
  <2>3. IsFiniteSet(U) /\ IsFiniteSet(I)
    BY <1>3, FS_Subset
  <2>4. SumOver(w, U) = SumOver(v, I)
    BY <1>3
  <2> HIDE DEF I, y
  <2>5. SumOver(v, I \cup {y}) = v[y] + SumOver(v, I) /\ IsFiniteSet(I \cup {y})
    BY <2>2, <2>3, SumOverGrows
  <2>6. SumOver(w, U \cup {x}) = w[x] + SumOver(w, U)
    <3>1. \A i \in U \cup {x} : w[i] \in Int
      BY <1>1
    <3> QED  BY <2>3, <3>1, SumOverGrows
  <2> QED  BY <2>1, <2>2, <2>4, <2>5, <2>6
<1> HIDE DEF P
<1>4. S \in P
  BY <1>2, <1>3, SubsetInduction
<1>5. image(S) = T
  BY <1>1
<1> QED  BY <1>4, <1>5 DEF P

\* Sums over indexes with nothing in common.
LEMMA SumOverUnion ==
    ASSUME NEW v, NEW S, IsFiniteSet(S), NEW T, IsFiniteSet(T), S \cap T = {},
           \A i \in S \cup T : v[i] \in Int
    PROVE  SumOver(v, S \cup T) = SumOver(v, S) + SumOver(v, T)
<1>1. Entries!IsFiniteSet(S) /\ Entries!IsFiniteSet(T)
  BY DEF IsFiniteSet, Entries!IsFiniteSet
<1>2. \A i \in S \cup T : Entries!Term(v, i) \in Int
  BY DEF Entries!Term, EntryTerm
<1>3. Entries!Sum(v, S \cup T) = Entries!Sum(v, S) + Entries!Sum(v, T)
  BY <1>1, <1>2, Entries!SumOfUnion
<1> QED  BY <1>3 DEF SumOver

\* Nothing adds nothing; what is not negative adds up to nothing negative.
LEMMA SumOverZeros ==
    ASSUME NEW v, NEW S, IsFiniteSet(S), \A i \in S : v[i] = 0
    PROVE  SumOver(v, S) = 0
<1> DEFINE P == {U \in SUBSET S : SumOver(v, U) = 0}
<1>1. {} \in P
  <2>1. IsFiniteSet({})
    BY FS_EmptySet
  <2> QED  BY <2>1, SumOverStep
<1>2. ASSUME NEW U \in SUBSET S, NEW x \in S \ U, U \in P PROVE U \cup {x} \in P
  <2>1. IsFiniteSet(U) /\ x \notin U /\ \A i \in U \cup {x} : v[i] \in Int
    BY FS_Subset
  <2>2. SumOver(v, U \cup {x}) = v[x] + SumOver(v, U)
    BY <2>1, SumOverGrows
  <2> QED  BY <1>2, <2>2
<1> HIDE DEF P
<1>3. S \in P
  BY <1>1, <1>2, SubsetInduction
<1> QED  BY <1>3 DEF P

\* A sum of what is not negative is not, and no term is larger.
LEMMA SumOverNats ==
    ASSUME NEW v, NEW S, IsFiniteSet(S), \A i \in S : v[i] \in Nat
    PROVE  SumOver(v, S) \in Nat /\ \A i \in S : v[i] <= SumOver(v, S)
<1> DEFINE P == {U \in SUBSET S : SumOver(v, U) \in Nat /\ \A i \in U : v[i] <= SumOver(v, U)}
<1>1. {} \in P
  <2>1. IsFiniteSet({})
    BY FS_EmptySet
  <2> QED  BY <2>1, SumOverStep
<1>2. ASSUME NEW U \in SUBSET S, NEW x \in S \ U, U \in P PROVE U \cup {x} \in P
  <2>1. IsFiniteSet(U) /\ x \notin U /\ \A i \in U \cup {x} : v[i] \in Nat
    BY FS_Subset
  <2>2. SumOver(v, U \cup {x}) = v[x] + SumOver(v, U)
    BY <2>1, SumOverGrows
  <2>3. SumOver(v, U) \in Nat /\ \A i \in U : v[i] <= SumOver(v, U)
    BY <1>2
  <2>4. SumOver(v, U \cup {x}) \in Nat
    BY <2>1, <2>2, <2>3
  <2>5. ASSUME NEW i \in U \cup {x} PROVE v[i] <= SumOver(v, U \cup {x})
    <3>1. v[i] \in Nat /\ v[x] \in Nat /\ (i = x \/ v[i] <= SumOver(v, U))
      BY <2>1, <2>3
    <3> QED  BY <2>2, <2>3, <3>1
  <2> QED  BY <2>4, <2>5
<1> HIDE DEF P
<1>3. S \in P
  BY <1>1, <1>2, SubsetInduction
<1> QED  BY <1>3 DEF P

\* What is zero need not be summed.
LEMMA SumOverPart ==
    ASSUME NEW v, NEW S, IsFiniteSet(S), \A i \in S : v[i] \in Int,
           NEW T \in SUBSET S, \A i \in S \ T : v[i] = 0
    PROVE  SumOver(v, S) = SumOver(v, T)
<1> DEFINE U == S \ T
<1>1. IsFiniteSet(T) /\ IsFiniteSet(U)
  BY FS_Subset
<1>2. S = T \cup U /\ T \cap U = {} /\ \A i \in U : v[i] = 0
  OBVIOUS
<1>3. SumOver(v, T) \in Int
  BY <1>1, SumOverStep
<1> HIDE DEF U
<1>4. SumOver(v, U) = 0
  BY <1>1, <1>2, SumOverZeros
<1>5. SumOver(v, T \cup U) = SumOver(v, T) + SumOver(v, U)
  BY <1>1, <1>2, SumOverUnion
<1> QED  BY <1>2, <1>3, <1>4, <1>5

\* Total, which adds in the order of the sequence, is the sum over its indexes.
LEMMA TotalIs ==
    ASSUME NEW s \in Seq(Int)
    PROVE  Total(s) = SumOver(s, DOMAIN s)
<1> DEFINE n == Len(s)
<1>1. Total(s) = Adding!Fold(0, 0, s)
  BY DEF Total, FoldLeft, MapThenFoldSet, Adds, Adding!Fold, Adding!FoldLeft, Adding!MapThenFoldSet, Max, Adding!Max
<1>2. PICK f : f \in Adding!FoldSteps(0, 0, s, Int)
  <2> DEFINE Z == Int
             c == 0
  <2>1. \A a \in Z, x \in Z : Adds(c, a, x) \in Z
    BY DEF Adds
  <2>2. s \in Seq(Z) /\ c \in Z
    OBVIOUS
  <2> HIDE DEF Z, c
  <2>3. \E f : f \in Adding!FoldSteps(c, c, s, Z)
    BY <2>1, <2>2, Adding!FoldLeftSteps
  <2> QED  BY <2>3 DEF Z, c
<1>3. /\ f \in [0..n -> Int] /\ f[0] = 0 /\ f[n] = Total(s)
      /\ \A k \in 1..n : f[k] = f[k - 1] + s[k]
  BY <1>1, <1>2 DEF Adding!FoldSteps, Adds
<1>4. n \in Nat /\ DOMAIN s = 1..n /\ \A k \in 1..n : s[k] \in Int
  OBVIOUS
<1> HIDE DEF n
<1> DEFINE P == {k \in Nat : k <= n => f[k] = SumOver(s, 1..k)}
<1>5. 0 \in P
  <2>1. 1..0 = {} /\ IsFiniteSet({})
    BY FS_EmptySet
  <2> QED  BY <1>3, <2>1, SumOverStep
<1>6. ASSUME NEW k \in Nat, k \in P PROVE k + 1 \in P
  <2> SUFFICES ASSUME k + 1 <= n PROVE f[k + 1] = SumOver(s, 1..(k + 1))
    OBVIOUS
  <2>1. 1..(k + 1) = (1..k) \cup {k + 1} /\ k + 1 \notin 1..k /\ k + 1 \in 1..n /\ (k + 1) - 1 = k
    BY <1>4
  <2>2. IsFiniteSet(1..k)
    BY FS_Interval
  <2>3. \A i \in (1..k) \cup {k + 1} : s[i] \in Int
    BY <1>4, <2>1
  <2>4. SumOver(s, (1..k) \cup {k + 1}) = s[k + 1] + SumOver(s, 1..k)
    BY <2>1, <2>2, <2>3, SumOverGrows
  <2>5. f[k] = SumOver(s, 1..k) /\ f[k] \in Int /\ s[k + 1] \in Int
    BY <1>3, <1>4, <1>6
  <2>6. f[k + 1] = f[k] + s[k + 1]
    BY <1>3, <2>1
  <2>7. SumOver(s, 1..(k + 1)) = s[k + 1] + SumOver(s, 1..k)
    BY <2>1, <2>4
  <2> HIDE DEF SumOver
  <2> QED  BY <2>5, <2>6, <2>7
<1> HIDE DEF P
<1>7. n \in P
  <2>1. Nat \subseteq P
    BY <1>5, <1>6, Adding!Induction
  <2> QED  BY <1>4, <2>1
<1> QED  BY <1>3, <1>4, <1>7 DEF P

\* The sum of what is arranged.
LEMMA TotalOfOrdering ==
    ASSUME NEW u \in Seq(Int), NEW at, NEW p \in Bijection(1..Len(u), at),
           NEW v, \A n \in 1..Len(u) : u[n] = v[p[n]]
    PROVE  Total(u) = SumOver(v, at)
<1>1. IsFiniteSet(1..Len(u)) /\ DOMAIN u = 1..Len(u) /\ \A n \in 1..Len(u) : u[n] \in Int
  BY FS_Interval
<1>2. \A i \in at : v[i] \in Int
  BY <1>1, BijectionIs
<1>3. SumOver(u, 1..Len(u)) = SumOver(v, at)
  BY <1>1, <1>2, SumOverImage
<1> QED  BY <1>1, <1>3, TotalIs

\* Two sequences one after the other add up to both.
LEMMA TotalOfConcat ==
    ASSUME NEW s \in Seq(Int), NEW t \in Seq(Int)
    PROVE  Total(s \o t) = Total(s) + Total(t)
<1> DEFINE u == s \o t
           n == Len(s)
           k == Len(t)
           high == (n + 1)..(n + k)
           shift == [i \in 1..k |-> n + i]
<1>1. /\ n \in Nat /\ k \in Nat /\ u \in Seq(Int) /\ Len(u) = n + k
      /\ DOMAIN s = 1..n /\ DOMAIN t = 1..k
  OBVIOUS
<1>2. /\ \A i \in 1..n : u[i] = s[i]
      /\ \A i \in 1..k : u[n + i] = t[i]
  OBVIOUS
<1>3. \A i \in 1..n : s[i] \in Int
  OBVIOUS
<1>4. \A i \in 1..k : t[i] \in Int
  OBVIOUS
<1>5. DOMAIN u = 1..(n + k) /\ \A i \in 1..(n + k) : u[i] \in Int
  BY <1>1
<1> HIDE DEF u, n, k
<1>6. shift \in Bijection(1..k, high)
  <2>1. shift \in [1..k -> high]
    BY <1>1
  <2>2. \A i, j \in 1..k : shift[i] = shift[j] => i = j
    BY <1>1
  <2>3. ASSUME NEW h \in high PROVE \E i \in 1..k : shift[i] = h
    <3>1. h - n \in 1..k /\ n + (h - n) = h
      BY <1>1
    <3> QED  BY <3>1
  <2> QED  BY <2>1, <2>2, <2>3, BijectionIs
<1>7. /\ 1..(n + k) = (1..n) \cup high /\ (1..n) \cap high = {} /\ n + 1 \in Int /\ n + k \in Int
      /\ \A i \in high : i \in 1..(n + k)
  BY <1>1
<1>8. IsFiniteSet(1..n) /\ IsFiniteSet(1..k) /\ IsFiniteSet(high)
  BY <1>1, <1>7, FS_Interval
<1>9. \A i \in high : u[i] \in Int
  BY <1>5, <1>7
<1>10. \A i \in 1..k : t[i] = u[shift[i]]
  BY <1>2
<1>11. \A i \in (1..n) \cup high : u[i] \in Int
  BY <1>5, <1>7
<1> DEFINE K == 1..k
           N == 1..n
<1> HIDE DEF shift, high
<1>12. SumOver(t, K) = SumOver(u, high)
  <2>1. shift \in Bijection(K, high) /\ IsFiniteSet(K) /\ \A i \in K : t[i] = u[shift[i]]
    BY <1>6, <1>8, <1>10
  <2> HIDE DEF K
  <2> QED  BY <1>9, <2>1, SumOverImage
<1>15. SumOver(s, N) = SumOver(u, N)
  <2> DEFINE same == [i \in N |-> i]
  <2>1. (\A i \in N : s[i] = u[i]) /\ IsFiniteSet(N) /\ \A i \in N : u[i] \in Int
    BY <1>2, <1>8, <1>11
  <2> HIDE DEF N
  <2>2. same \in [N -> N] /\ \A i \in N : same[i] = i
    OBVIOUS
  <2> HIDE DEF same
  <2>3. same \in Bijection(N, N)
    BY <2>2, BijectionIs
  <2>4. \A i \in N : s[i] = u[same[i]]
    BY <2>1, <2>2
  <2> QED  BY <2>1, <2>3, <2>4, SumOverImage
<1>16. SumOver(u, (1..n) \cup high) = SumOver(u, 1..n) + SumOver(u, high)
  BY <1>7, <1>8, <1>11, SumOverUnion
<1>17. Total(u) = SumOver(u, 1..(n + k))
  <2>1. Total(u) = SumOver(u, DOMAIN u)
    BY <1>1, TotalIs
  <2> QED  BY <1>5, <2>1
<1>18. Total(s) = SumOver(s, 1..n) /\ Total(t) = SumOver(t, 1..k)
  <2>1. Total(s) = SumOver(s, DOMAIN s) /\ Total(t) = SumOver(t, DOMAIN t)
    BY TotalIs
  <2> QED  BY <1>1, <2>1
<1> QED  BY <1>7, <1>12, <1>15, <1>16, <1>17, <1>18 DEF u

-----------------------------------------------------------------------------
(***************************************************************************)
(* What is picked, in whatever order.                                      *)
(***************************************************************************)

\* The ways in which t has f at the indexes of at, in any order.
Picks(t, f, at) == Orderings(t, f, at, at \X at)

\* To pick is to take f at each of at, once.
LEMMA PicksAre ==
    ASSUME NEW t, NEW f, NEW at, NEW p
    PROVE  p \in Picks(t, f, at) <=> p \in Bijection(1..Len(t), at) /\ \A n \in 1..Len(t) : t[n] = f[p[n]]
<1>1. p \in Bijection(1..Len(t), at) => \A m, n \in 1..Len(t) : <<p[m], p[n]>> \in at \X at
  BY BijectionIs
<1> QED  BY <1>1 DEF Picks, Orderings

\* An ordering is one way to pick.
LEMMA OrderingPicks ==
    ASSUME NEW t, NEW f, NEW at, NEW before, NEW p \in Orderings(t, f, at, before)
    PROVE  p \in Picks(t, f, at)
  BY PicksAre DEF Orderings

\* What is picked of what was picked is picked of the first.
LEMMA PicksOfPicks ==
    ASSUME NEW t, NEW f, NEW at, NEW p \in Picks(t, f, at),
           NEW u, NEW T \in SUBSET (1..Len(t)), NEW q \in Picks(u, t, T),
           NEW into, \A n \in T : p[n] \in into, \A i \in into : \E n \in T : p[n] = i
    PROVE  \E r : r \in Picks(u, f, into)
<1> DEFINE before == at \X at
           first == T \X T
           order == into \X into
<1>1. p \in Orderings(t, f, at, before) /\ q \in Orderings(u, t, T, first)
  BY DEF Picks
<1>2. \A m, n \in T : <<m, n>> \in first => <<p[m], p[n]>> \in order
  OBVIOUS
<1> HIDE DEF before, first, order
<1>3. \E r : r \in Orderings(u, f, into, order)
  BY <1>1, <1>2, Rearranged
<1> QED  BY <1>3 DEF order, Picks

\* What is kept of what is picked, and what is picked in another order.
LEMMA KeptPicks ==
    ASSUME NEW A, NEW t \in Seq(A), NEW f, NEW at, NEW p \in Picks(t, f, at),
           NEW T \in SUBSET (1..Len(t)),
           NEW into, \A n \in T : p[n] \in into, \A i \in into : \E n \in T : p[n] = i
    PROVE  \E r : r \in Picks(Arranged(t, T, Upwards(T)), f, into)
<1> DEFINE u == Arranged(t, T, Upwards(T))
           first == Upwards(T)
<1>0. T \in SUBSET DOMAIN t
  OBVIOUS
<1>1. PICK q : q \in Orderings(u, t, T, first)
  BY <1>0, KeptIs
<1> HIDE DEF u, first
<1>2. q \in Picks(u, t, T)
  BY <1>1, OrderingPicks
<1>3. \E r : r \in Picks(u, f, into)
  BY <1>2, PicksOfPicks
<1> QED  BY <1>3 DEF u

\* Sorting picks the same.
LEMMA SortedPicks ==
    ASSUME NEW A, NEW t \in Seq(A), NEW f, NEW at, NEW p \in Picks(t, f, at),
           NEW less, IsWeakOrder(DOMAIN t, less)
    PROVE  \E r : r \in Picks(Arranged(t, DOMAIN t, Stable(DOMAIN t, less)), f, at)
<1> DEFINE D == DOMAIN t
           first == Stable(D, less)
           u == Arranged(t, D, first)
<1>1. PICK q : q \in Orderings(u, t, D, first)
  BY SortedIs
<1>2. D \in SUBSET (1..Len(t))
  OBVIOUS
<1>3. p \in [1..Len(t) -> at] /\ \A i \in at : \E n \in 1..Len(t) : p[n] = i
  BY PicksAre, BijectionIs
<1>4. (\A n \in D : p[n] \in at) /\ \A i \in at : \E n \in D : p[n] = i
  BY <1>3
<1> HIDE DEF u, first, D
<1>5. q \in Picks(u, t, D)
  BY <1>1, OrderingPicks
<1>6. \E r : r \in Picks(u, f, at)
  BY <1>2, <1>4, <1>5, PicksOfPicks
<1> QED  BY <1>6 DEF u, first, D

\* The sum of what is picked.
LEMMA TotalOfPicks ==
    ASSUME NEW t, Len(t) \in Nat, NEW f, NEW at, NEW p \in Picks(t, f, at),
           NEW v, \A i \in at : v[i] \in Int,
           NEW u, DOMAIN u = 1..Len(t), u = [n \in DOMAIN u |-> u[n]], \A n \in DOMAIN u : u[n] = v[p[n]]
    PROVE  Total(u) = SumOver(v, at) /\ u \in Seq(Int)
<1>1. p \in Bijection(1..Len(t), at) /\ p \in [1..Len(t) -> at]
  BY PicksAre, BijectionIs
<1>2. u \in [1..Len(t) -> Int]
  <2>1. \A n \in 1..Len(t) : u[n] \in Int
    BY <1>1
  <2> QED  BY <2>1
<1>3. u \in Seq(Int) /\ Len(u) = Len(t)
  BY <1>2
<1>4. p \in Bijection(1..Len(u), at) /\ \A n \in 1..Len(u) : u[n] = v[p[n]]
  BY <1>1, <1>3
<1> QED  BY <1>3, <1>4, TotalOfOrdering

\* Two sequences one after the other, place by place.
LEMMA ConcatIs ==
    ASSUME NEW A, NEW s \in Seq(A), NEW t \in Seq(A)
    PROVE  s \o t = [n \in 1..(Len(s) + Len(t)) |-> IF n <= Len(s) THEN s[n] ELSE t[n - Len(s)]]
<1> DEFINE u == s \o t
           v == [n \in 1..(Len(s) + Len(t)) |-> IF n <= Len(s) THEN s[n] ELSE t[n - Len(s)]]
<1>1. /\ u \in Seq(A) /\ Len(u) = Len(s) + Len(t)
      /\ \A n \in 1..(Len(s) + Len(t)) : u[n] = IF n <= Len(s) THEN s[n] ELSE t[n - Len(s)]
  OBVIOUS
<1> HIDE DEF u
<1>2. u = [n \in 1..(Len(s) + Len(t)) |-> u[n]]
  BY <1>1
<1> QED  BY <1>1, <1>2 DEF u

\* g has the parts of s, as f takes them.
IsMap(g, f, s) == DOMAIN g = DOMAIN s /\ g = [n \in DOMAIN g |-> g[n]] /\ \A n \in DOMAIN s : g[n] = f[s[n]]

\* The parts of two sequences one after the other.
LEMMA MapOfConcat ==
    ASSUME NEW A, NEW s \in Seq(A), NEW t \in Seq(A), NEW f,
           NEW fs, IsMap(fs, f, s), NEW ft, IsMap(ft, f, t), NEW fu, IsMap(fu, f, s \o t)
    PROVE  fu = fs \o ft
<1> DEFINE u == s \o t
           V == {f[x] : x \in A}
           k == Len(s)
           l == Len(t)
<1>1. /\ k \in Nat /\ l \in Nat /\ DOMAIN s = 1..k /\ DOMAIN t = 1..l
      /\ (\A n \in 1..k : s[n] \in A) /\ \A n \in 1..l : t[n] \in A
  OBVIOUS
<1>2. u = [n \in 1..(k + l) |-> IF n <= k THEN s[n] ELSE t[n - k]]
  BY ConcatIs
<1>3. /\ DOMAIN fs = 1..k /\ fs = [n \in 1..k |-> fs[n]] /\ \A n \in 1..k : fs[n] = f[s[n]]
      /\ DOMAIN ft = 1..l /\ ft = [n \in 1..l |-> ft[n]] /\ \A n \in 1..l : ft[n] = f[t[n]]
  BY <1>1 DEF IsMap
<1>4. fs \in Seq(V) /\ Len(fs) = k /\ ft \in Seq(V) /\ Len(ft) = l
  <2>1. (\A n \in 1..k : fs[n] \in V) /\ \A n \in 1..l : ft[n] \in V
    BY <1>1, <1>3
  <2> HIDE DEF V, k, l
  <2>2. fs \in [1..k -> V] /\ ft \in [1..l -> V]
    BY <1>3, <2>1
  <2> QED  BY <1>1, <2>2
<1>5. fs \o ft = [n \in 1..(Len(fs) + Len(ft)) |-> IF n <= Len(fs) THEN fs[n] ELSE ft[n - Len(fs)]]
  <2> HIDE DEF V, k, l
  <2> QED  BY <1>4, ConcatIs
<1> HIDE DEF u, k, l
<1>6. DOMAIN fu = 1..(k + l) /\ fu = [n \in 1..(k + l) |-> fu[n]] /\ \A n \in 1..(k + l) : fu[n] = f[u[n]]
  <2>1. DOMAIN fu = DOMAIN u /\ fu = [n \in DOMAIN fu |-> fu[n]] /\ \A n \in DOMAIN u : fu[n] = f[u[n]]
    BY DEF IsMap, u
  <2>2. DOMAIN u = 1..(k + l)
    BY <1>2
  <2> QED  BY <2>1, <2>2
<1>7. \A n \in 1..(k + l) : /\ n <= k => n \in 1..k
                           /\ ~(n <= k) => n - k \in 1..l
  BY <1>1
<1>8. ASSUME NEW n \in 1..(k + l) PROVE (fs \o ft)[n] = fu[n]
  <2>0. (fs \o ft)[n] = (IF n <= k THEN fs[n] ELSE ft[n - k]) /\ fu[n] = f[u[n]]
        /\ u[n] = IF n <= k THEN s[n] ELSE t[n - k]
    BY <1>2, <1>4, <1>5, <1>6
  <2>1. CASE n <= k
    <3>1. n \in 1..k
      BY <1>7, <2>1
    <3> QED  BY <1>3, <2>0, <2>1, <3>1
  <2>2. CASE ~(n <= k)
    <3>1. n - k \in 1..l
      BY <1>7, <2>2
    <3> QED  BY <1>3, <2>0, <2>2, <3>1
  <2> QED  BY <2>1, <2>2
<1>9. fs \o ft = [n \in 1..(k + l) |-> fu[n]]
  BY <1>4, <1>5, <1>8
<1> QED  BY <1>6, <1>9

\* Larger numbers first, or smaller ones.
Descending(g) == {p \in (DOMAIN g) \X (DOMAIN g) : g[p[1]] > g[p[2]]}
Ascending(g) == {p \in (DOMAIN g) \X (DOMAIN g) : g[p[1]] < g[p[2]]}

\* Numbers are ordered up to ties, either way.
LEMMA NumbersOrder ==
    ASSUME NEW D, NEW g \in [D -> Int]
    PROVE  /\ \A i, j \in D : /\ <<i, j>> \in Descending(g) <=> g[i] > g[j]
                              /\ <<i, j>> \in Ascending(g) <=> g[i] < g[j]
           /\ IsWeakOrder(D, Descending(g)) /\ IsWeakOrder(D, Ascending(g))
<1>1. \A i, j \in D : /\ <<i, j>> \in Descending(g) <=> g[i] > g[j]
                      /\ <<i, j>> \in Ascending(g) <=> g[i] < g[j]
  BY DEF Descending, Ascending
<1>2. \A i \in D : g[i] \in Int
  OBVIOUS
<1>3. \A i, j \in D : ~(g[i] < g[j] /\ g[j] < g[i]) /\ ~(g[i] > g[j] /\ g[j] > g[i])
  BY <1>2
<1>4. \A i, j, k \in D : /\ g[i] < g[k] => g[i] < g[j] \/ g[j] < g[k]
                         /\ g[i] > g[k] => g[i] > g[j] \/ g[j] > g[k]
  BY <1>2
<1> QED  BY <1>1, <1>3, <1>4 DEF IsWeakOrder

\* The totals of nothing and of one number.
LEMMA SmallTotals ==
    ASSUME NEW x \in Int
    PROVE  Total(<<>>) = 0 /\ Total(<<x>>) = x
<1>1. IsFiniteSet({1}) /\ IsFiniteSet({}) /\ {1} \ {1} = {}
  BY FS_Singleton, FS_EmptySet
<1>2. Total(<<>>) = 0
  <2> DEFINE e == <<>>
  <2>1. e \in Seq(Int) /\ DOMAIN e = {}
    OBVIOUS
  <2> HIDE DEF e
  <2>2. Total(e) = SumOver(e, {}) /\ SumOver(e, {}) = 0
    BY <1>1, <2>1, TotalIs, SumOverStep
  <2> QED  BY <2>2 DEF e
<1> DEFINE u == <<x>>
<1>3. u \in Seq(Int) /\ DOMAIN u = {1} /\ u[1] = x
  OBVIOUS
<1> HIDE DEF u
<1>4. Total(u) = SumOver(u, {1})
  BY <1>3, TotalIs
<1>5. \A j \in {1} : u[j] \in Int
  BY <1>3
<1>6. SumOver(u, {1}) = u[1] + SumOver(u, {1} \ {1}) /\ SumOver(u, {}) = 0
  BY <1>1, <1>5, SumOverStep
<1>7. SumOver(u, {1} \ {1}) = 0
  BY <1>1, <1>6
<1>8. SumOver(u, {1}) = x
  BY <1>3, <1>6, <1>7
<1> QED  BY <1>2, <1>4, <1>8 DEF u

\* A sequence of numbers none of which is negative is one of natural numbers.
LEMMA NumbersAreNats ==
    ASSUME NEW s \in Seq(Int), \A n \in DOMAIN s : s[n] \in Nat
    PROVE  s \in Seq(Nat)
<1>1. Len(s) \in Nat /\ s = [n \in 1..Len(s) |-> s[n]] /\ \A n \in 1..Len(s) : s[n] \in Nat
  OBVIOUS
<1>2. s \in [1..Len(s) -> Nat]
  BY <1>1
<1> QED  BY <1>1, <1>2

-----------------------------------------------------------------------------
(* Layers.                                                                 *)

\* Where the rows are that have something in some bucket, and of those in at the ones
\* with a color slot.
LiveAt(m) == {j \in DOMAIN rows : \E i \in DOMAIN rows[j].trend : MetricValue(rows[j].trend[i], m) > 0}
SlottedAt(at) == {j \in at : slots[rows[j].key] # Absent}

\* An entity has a color slot or none.
LEMMA SlotsAre ==
    ASSUME BreakdownTypeOK, NEW j \in DOMAIN rows
    PROVE  slots[rows[j].key] \in Nat \cup {Absent}
  BY RowsAreRows DEF BreakdownTypeOK, IsRow

\* The rows with a color slot, by slot, and those without.
LEMMA SlottedIs ==
    ASSUME BreakdownTypeOK, NEW t \in Seq(ToSet(rows)), NEW at \in SUBSET DOMAIN rows, NEW p \in Picks(t, rows, at)
    PROVE  LET slotted == StableSort(Filtered(t, LAMBDA r : slots[r.key] # Absent),
                                     LAMBDA a, b : slots[a.key] < slots[b.key])
               others == Filtered(t, LAMBDA r : slots[r.key] = Absent)
           IN  /\ slotted \in Seq(ToSet(rows)) /\ \E q : q \in Picks(slotted, rows, SlottedAt(at))
               /\ others \in Seq(ToSet(rows)) /\ \E q : q \in Picks(others, rows, at \ SlottedAt(at))
<1> DEFINE T == {n \in DOMAIN t : slots[t[n].key] # Absent}
           O == {n \in DOMAIN t : slots[t[n].key] = Absent}
           s == Arranged(t, T, Upwards(T))
           o == Arranged(t, O, Upwards(O))
           slotted == StableSort(Filtered(t, LAMBDA r : slots[r.key] # Absent),
                                 LAMBDA a, b : slots[a.key] < slots[b.key])
           others == Filtered(t, LAMBDA r : slots[r.key] = Absent)
           in == SlottedAt(at)
           out == at \ SlottedAt(at)
<1>1. /\ p \in [1..Len(t) -> at] /\ (\A i \in at : \E n \in 1..Len(t) : p[n] = i)
      /\ \A n \in 1..Len(t) : t[n] = rows[p[n]]
  BY PicksAre, BijectionIs
<1>2. DOMAIN t = 1..Len(t) /\ T \in SUBSET (1..Len(t)) /\ O \in SUBSET (1..Len(t))
  OBVIOUS
<1>3. (\A n \in T : p[n] \in in) /\ \A i \in in : \E n \in T : p[n] = i
  BY <1>1, <1>2 DEF SlottedAt
<1>4. (\A n \in O : p[n] \in out) /\ \A i \in out : \E n \in O : p[n] = i
  BY <1>1, <1>2 DEF SlottedAt
<1>5. others = o
  BY DEF Filtered
<1>6. others \in Seq(ToSet(rows)) /\ \E q : q \in Picks(others, rows, out)
  <2>1. O \in SUBSET DOMAIN t
    OBVIOUS
  <2> HIDE DEF O, out
  <2>2. o \in Seq(ToSet(rows))
    BY <2>1, KeptIs
  <2>3. \E q : q \in Picks(o, rows, out)
    BY <1>2, <1>4, KeptPicks
  <2> QED  BY <1>5, <2>2, <2>3
<1> DEFINE D == DOMAIN s
           g == [n \in D |-> slots[s[n].key]]
           less == Ascending(g)
           before == {q \in D \X D : slots[s[q[1]].key] < slots[s[q[2]].key]
                                     \/ (q[1] <= q[2] /\ ~(slots[s[q[2]].key] < slots[s[q[1]].key]))}
<1>7. slotted = Arranged(s, D, before)
  BY DEF Filtered, StableSort
<1>8. /\ s \in Seq(ToSet(rows)) /\ s \in Seq({t[n] : n \in T})
      /\ \E q : q \in Picks(s, rows, in)
  <2>1. T \in SUBSET DOMAIN t
    OBVIOUS
  <2> HIDE DEF T, in
  <2>2. s \in Seq(ToSet(rows)) /\ s \in Seq({t[n] : n \in T})
    BY <2>1, KeptIs
  <2>3. \E q : q \in Picks(s, rows, in)
    BY <1>2, <1>3, KeptPicks
  <2> QED  BY <2>2, <2>3
<1>9. \A n \in T : slots[t[n].key] \in Int
  <2>1. \A n \in 1..Len(t) : slots[t[n].key] \in Nat \cup {Absent}
    BY <1>1, SlotsAre
  <2> QED  BY <2>1
<1> HIDE DEF s, in
<1>10. g \in [D -> Int]
  <2>1. \A n \in D : s[n] \in {t[k] : k \in T}
    BY <1>8
  <2> QED  BY <1>9, <2>1
<1>11. \A n \in D : g[n] = slots[s[n].key]
  OBVIOUS
<1> HIDE DEF g
<1>12. (\A i, j \in D : <<i, j>> \in less <=> g[i] < g[j]) /\ IsWeakOrder(D, less)
  BY <1>10, NumbersOrder
<1>13. before = Stable(D, less)
  BY <1>11, <1>12 DEF Stable
<1> HIDE DEF before, less
<1>14. slotted \in Seq(ToSet(rows)) /\ \E q : q \in Picks(slotted, rows, in)
  <2>1. slotted = Arranged(s, DOMAIN s, Stable(DOMAIN s, less))
    BY <1>7, <1>13
  <2>2. s \in Seq(ToSet(rows)) /\ IsWeakOrder(DOMAIN s, less)
    BY <1>8, <1>12
  <2> HIDE DEF slotted
  <2>3. slotted \in Seq(ToSet(rows))
    BY <2>1, <2>2, SortedIs
  <2>4. \E q : q \in Picks(slotted, rows, in)
    BY <1>8, <2>1, <2>2, SortedPicks
  <2> QED  BY <2>3, <2>4
<1> QED  BY <1>6, <1>14 DEF in

\* What each row has in a bucket.
LEMMA TrendsAre ==
    ASSUME BreakdownTypeOK, rows # <<>>, NEW i \in DOMAIN rows[1].trend, NEW m, NEW j \in DOMAIN rows
    PROVE  /\ i \in DOMAIN rows[j].trend /\ Trend(rows[j], m)[i] \in Nat
           /\ Trend(rows[j], m)[i] = MetricValue(rows[j].trend[i], m)
           /\ DOMAIN Trend(rows[j], m) = DOMAIN rows[1].trend
<1>1. 1 \in DOMAIN rows
  BY RowsAreRows
<1>2. DOMAIN rows[j].trend = DOMAIN rows[1].trend /\ IsRow(rows[j])
  BY <1>1, RowsAreRows
<1>3. Counted(rows[j].trend[i])
  BY <1>2 DEF IsRow, CountedAll
<1>4. MetricValue(rows[j].trend[i], m) \in Nat
  BY <1>3, ValuesAreNumbers
<1>5. Trend(rows[j], m) = [k \in DOMAIN rows[j].trend |-> MetricValue(rows[j].trend[k], m)]
  BY DEF Trend, Mapped
<1> QED  BY <1>2, <1>4, <1>5

\* What each row has in a bucket.
InBucket(i) == [j \in DOMAIN rows |-> Trend(rows[j], metric)[i]]

\* The rows' values in a bucket, those that are not live adding nothing.
LEMMA RowsAddUp ==
    ASSUME BreakdownTypeOK, rows # <<>>, NEW i \in DOMAIN rows[1].trend
    PROVE  LET at == LiveAt(metric)
           IN  /\ IsFiniteSet(at) /\ at \in SUBSET DOMAIN rows
               /\ \A j \in DOMAIN rows : InBucket(i)[j] \in Nat /\ InBucket(i)[j] = Trend(rows[j], metric)[i]
               /\ Total(Mapped(rows, LAMBDA r : Trend(r, metric)[i])) = SumOver(InBucket(i), at)
<1> DEFINE at == LiveAt(metric)
           v == InBucket(i)
<1>1. at \in SUBSET DOMAIN rows /\ IsFiniteSet(DOMAIN rows) /\ rows \in Seq(ToSet(rows)) /\ DOMAIN rows = 1..Len(rows)
      /\ Len(rows) \in Nat
  BY RowsAreRows, Indexes DEF LiveAt
<1>2. IsFiniteSet(at)
  BY <1>1, FS_Subset
<1>3. \A j \in DOMAIN rows : v[j] \in Nat /\ v[j] = Trend(rows[j], metric)[i]
  BY TrendsAre DEF InBucket
<1>4. ASSUME NEW j \in DOMAIN rows \ at PROVE v[j] = 0
  <2>1. i \in DOMAIN rows[j].trend /\ v[j] = MetricValue(rows[j].trend[i], metric)
    BY <1>3, TrendsAre
  <2>2. ~(MetricValue(rows[j].trend[i], metric) > 0)
    BY <2>1 DEF LiveAt
  <2> QED  BY <1>3, <2>1, <2>2
<1>5. Mapped(rows, LAMBDA r : Trend(r, metric)[i]) = v
  BY DEF Mapped, InBucket
<1>6. v \in Seq(Int) /\ DOMAIN v = DOMAIN rows
  <2>1. v \in [1..Len(rows) -> Nat]
    BY <1>1, <1>3 DEF InBucket
  <2> QED  BY <1>1, <2>1
<1> DEFINE D == DOMAIN rows
<1>7. v \in Seq(Int) /\ DOMAIN v = D /\ IsFiniteSet(D) /\ at \in SUBSET D
      /\ (\A j \in D : v[j] \in Int) /\ \A j \in D \ at : v[j] = 0
  BY <1>1, <1>3, <1>4, <1>6
<1> HIDE DEF v, at, D
<1>8. Total(v) = SumOver(v, D)
  BY <1>7, TotalIs
<1>9. SumOver(v, D) = SumOver(v, at)
  BY <1>7, SumOverPart
<1> QED  BY <1>1, <1>2, <1>3, <1>5, <1>8, <1>9 DEF v, at

\* The layers' values in a bucket.
LEMMA LayersInBucket ==
    ASSUME BreakdownTypeOK, rows # <<>>, NEW i \in DOMAIN rows[1].trend
    PROVE  LET l == Mapped(StackLayers(metric), LAMBDA layer : layer[i])
           IN  /\ l \in Seq(Int) /\ \A n \in DOMAIN l : l[n] \in Nat
               /\ Total(l) = SumOver(InBucket(i), LiveAt(metric))
<1> DEFINE m == metric
           at == LiveAt(m)
           in == SlottedAt(at)
           out == at \ in
           v == InBucket(i)
           t == Live(m)
           slotted == StableSort(Filtered(t, LAMBDA r : slots[r.key] # Absent),
                                 LAMBDA a, b : slots[a.key] < slots[b.key])
           others == Filtered(t, LAMBDA r : slots[r.key] = Absent)
           sum(k) == Total(Mapped(others, LAMBDA r : Trend(r, m)[k]))
           high == Mapped(slotted, LAMBDA r : Trend(r, m))
           rest == IF others = <<>> THEN <<>> ELSE <<[k \in DOMAIN others[1].trend |-> sum(k)]>>
           val == Mapped(StackLayers(m), LAMBDA layer : layer[i])
<1>1. /\ IsFiniteSet(at) /\ at \in SUBSET DOMAIN rows
      /\ \A j \in DOMAIN rows : v[j] \in Nat /\ v[j] = Trend(rows[j], m)[i]
  BY RowsAddUp
<1>2. rows \in Seq(ToSet(rows))
  BY RowsAreRows
<1>3. t \in Seq(ToSet(rows)) /\ \E p : p \in Picks(t, rows, at)
  <2>1. t = Arranged(rows, at, Upwards(at))
    BY DEF Live, Filtered, LiveAt
  <2> HIDE DEF t, at
  <2>2. t \in Seq(ToSet(rows)) /\ \E p : p \in Orderings(t, rows, at, Upwards(at))
    BY <1>1, <1>2, <2>1, KeptIs
  <2> QED  BY <2>2, OrderingPicks
<1>4. StackLayers(m) = high \o rest
  BY DEF StackLayers
<1>5. /\ slotted \in Seq(ToSet(rows)) /\ \E q : q \in Picks(slotted, rows, in)
      /\ others \in Seq(ToSet(rows)) /\ \E q : q \in Picks(others, rows, out)
  <2> HIDE DEF t, at
  <2> QED  BY <1>1, <1>3, SlottedIs
<1> HIDE DEF t, slotted, others, v, at
<1>6. in \in SUBSET at /\ out \in SUBSET at
  BY DEF SlottedAt
<1> HIDE DEF in
<1>7. IsFiniteSet(in) /\ IsFiniteSet(out) /\ (\A j \in at : v[j] \in Nat) /\ in \cap out = {} /\ in \cup out = at
  BY <1>1, <1>6, FS_Subset
<1> HIDE DEF out
<1>8. ASSUME NEW s \in Seq(ToSet(rows)), NEW into \in SUBSET DOMAIN rows, NEW q \in Picks(s, rows, into)
      PROVE  LET u == [n \in DOMAIN s |-> Trend(s[n], m)[i]]
             IN  u \in Seq(Int) /\ (\A n \in DOMAIN s : u[n] \in Nat) /\ Total(u) = SumOver(v, into)
  <2> DEFINE u == [n \in DOMAIN s |-> Trend(s[n], m)[i]]
  <2>1. /\ q \in [1..Len(s) -> into] /\ \A n \in 1..Len(s) : s[n] = rows[q[n]]
    BY PicksAre, BijectionIs
  <2>2. DOMAIN s = 1..Len(s) /\ Len(s) \in Nat
    OBVIOUS
  <2>3. \A n \in 1..Len(s) : u[n] = v[q[n]] /\ u[n] \in Nat
    BY <1>1, <2>1, <2>2
  <2>4. DOMAIN u = 1..Len(s) /\ u = [n \in DOMAIN u |-> u[n]] /\ \A n \in DOMAIN u : u[n] = v[q[n]]
    BY <2>2, <2>3
  <2>5. \A j \in into : v[j] \in Int
    BY <1>1
  <2> HIDE DEF u
  <2>6. Total(u) = SumOver(v, into) /\ u \in Seq(Int)
    BY <2>2, <2>4, <2>5, TotalOfPicks
  <2> QED  BY <2>2, <2>3, <2>6 DEF u
<1> DEFINE ofHigh == [n \in DOMAIN slotted |-> Trend(slotted[n], m)[i]]
           ofRest == IF others = <<>> THEN <<>> ELSE <<sum(i)>>
<1>9. in \in SUBSET DOMAIN rows /\ out \in SUBSET DOMAIN rows
  BY <1>1, <1>6
<1>10. ofHigh \in Seq(Int) /\ (\A n \in DOMAIN ofHigh : ofHigh[n] \in Nat) /\ Total(ofHigh) = SumOver(v, in)
  BY <1>5, <1>8, <1>9
<1>11. sum(i) = SumOver(v, out)
  <2>1. sum(i) = Total([n \in DOMAIN others |-> Trend(others[n], m)[i]])
    BY DEF Mapped
  <2> QED  BY <1>5, <1>8, <1>9, <2>1
<1> HIDE DEF sum
<1>12. sum(i) \in Nat
  <2>1. \A j \in out : v[j] \in Nat
    BY <1>6, <1>7
  <2> QED  BY <1>7, <1>11, <2>1, SumOverNats
<1>13. ofRest \in Seq(Int) /\ (\A n \in DOMAIN ofRest : ofRest[n] \in Nat) /\ Total(ofRest) = SumOver(v, out)
  <2>1. CASE others = <<>>
    <3>1. out = {}
      <4>1. PICK q : q \in Picks(others, rows, out)
        BY <1>5
      <4>2. \A j \in out : \E n \in 1..Len(others) : q[n] = j
        BY <4>1, PicksAre, BijectionIs
      <4> QED  BY <2>1, <4>2
    <3>2. ofRest = <<>> /\ <<>> \in Seq(Int) /\ DOMAIN <<>> = {}
      BY <2>1
    <3>3. SumOver(v, {}) = 0
      BY FS_EmptySet, SumOverStep
    <3>4. Total(<<>>) = 0
      <4>1. 0 \in Int
        OBVIOUS
      <4> QED  BY <4>1, SmallTotals
    <3> HIDE DEF ofRest
    <3> QED  BY <3>1, <3>2, <3>3, <3>4
  <2>2. CASE others # <<>>
    <3>1. ofRest = <<sum(i)>>
      BY <2>2
    <3> HIDE DEF ofRest
    <3>2. Total(<<sum(i)>>) = sum(i)
      BY <1>12, SmallTotals
    <3>3. <<sum(i)>> \in Seq(Int) /\ DOMAIN <<sum(i)>> = {1} /\ <<sum(i)>>[1] = sum(i)
      BY <1>12
    <3> QED  BY <1>11, <1>12, <3>1, <3>2, <3>3
  <2> QED  BY <2>1, <2>2
<1>14. val = ofHigh \o ofRest
  <2> DEFINE other == [k \in DOMAIN others[1].trend |-> sum(k)]
             A == {Trend(slotted[n], m) : n \in DOMAIN slotted} \cup {other}
             f == [layer \in A |-> layer[i]]
  <2>1. high = [n \in DOMAIN slotted |-> Trend(slotted[n], m)]
    BY DEF Mapped
  <2>2. high \in Seq(A) /\ DOMAIN high = DOMAIN slotted /\ \A n \in DOMAIN high : high[n] = Trend(slotted[n], m)
    <3>1. DOMAIN slotted = 1..Len(slotted) /\ Len(slotted) \in Nat
      BY <1>5
    <3> HIDE DEF high
    <3> QED  BY <2>1, <3>1
  <2>3. rest = (IF others = <<>> THEN <<>> ELSE <<other>>) /\ other \in A
    OBVIOUS
  <2>4. others # <<>> => other[i] = sum(i)
    <3> SUFFICES ASSUME others # <<>> PROVE other[i] = sum(i)
      OBVIOUS
    <3>1. 1 \in 1..Len(others)
      BY <1>5
    <3>2. others[1] \in {rows[j] : j \in DOMAIN rows}
      BY <1>5, <3>1 DEF ToSet
    <3>3. i \in DOMAIN others[1].trend
      BY <3>2, TrendsAre
    <3> QED  BY <3>3
  <2> HIDE DEF high, rest, other
  <2>5. rest \in Seq(A)
    <3> HIDE DEF A
    <3>1. <<>> \in Seq(A) /\ <<other>> \in Seq(A)
      BY <2>3
    <3> QED  BY <2>3, <3>1
  <2>6. val = [n \in DOMAIN (high \o rest) |-> (high \o rest)[n][i]]
    BY <1>4 DEF Mapped
  <2>7. \A n \in DOMAIN (high \o rest) : (high \o rest)[n] \in A
    <3> HIDE DEF A
    <3>1. high \o rest \in Seq(A)
      BY <2>2, <2>5, ConcatProperties
    <3> QED  BY <3>1
  <2>8. \A layer \in A : f[layer] = layer[i]
    OBVIOUS
  <2> HIDE DEF A, f, val
  <2>9. IsMap(val, f, high \o rest)
    BY <2>6, <2>7, <2>8 DEF IsMap
  <2>11. IsMap(ofHigh, f, high)
    <3>1. \A n \in DOMAIN high : high[n] \in A
      BY <2>2
    <3> QED  BY <2>2, <2>8, <3>1 DEF IsMap
  <2>12. IsMap(ofRest, f, rest)
    <3>1. CASE others = <<>>
      BY <2>3, <3>1 DEF IsMap
    <3>2. CASE others # <<>>
      <4>1. ofRest = <<sum(i)>> /\ rest = <<other>> /\ f[other] = sum(i)
        BY <2>3, <2>4, <2>8, <3>2
      <4> HIDE DEF ofRest
      <4> QED  BY <4>1 DEF IsMap
    <3> QED  BY <3>1, <3>2
  <2> HIDE DEF ofHigh, ofRest
  <2> QED  BY <2>2, <2>5, <2>9, <2>11, <2>12, MapOfConcat
<1> HIDE DEF ofHigh, ofRest, val
<1>15. Total(val) = SumOver(v, in) + SumOver(v, out)
  BY <1>10, <1>13, <1>14, TotalOfConcat
<1>16. SumOver(v, at) = SumOver(v, in) + SumOver(v, out)
  <2>1. \A j \in in \cup out : v[j] \in Int
    BY <1>7
  <2>2. SumOver(v, in \cup out) = SumOver(v, in) + SumOver(v, out)
    BY <1>7, <2>1, SumOverUnion
  <2> QED  BY <1>7, <2>2
<1>17. val \in Seq(Int) /\ \A n \in DOMAIN val : val[n] \in Nat
  <2>1. ofHigh \in Seq(Nat) /\ ofRest \in Seq(Nat)
    BY <1>10, <1>13, NumbersAreNats
  <2>2. val \in Seq(Nat)
    BY <1>14, <2>1, ConcatProperties
  <2> QED  BY <2>2
<1> QED  BY <1>15, <1>16, <1>17 DEF val, v, at

\* What the tooltip leaves out is zero.
LEMMA TooltipAddsUp ==
    ASSUME BreakdownTypeOK, rows # <<>>, NEW i \in DOMAIN rows[1].trend
    PROVE  Total(Tooltip(metric, i)) = Total(Mapped(StackLayers(metric), LAMBDA layer : layer[i]))
<1> DEFINE l == Mapped(StackLayers(metric), LAMBDA layer : layer[i])
           at == {n \in DOMAIN l : l[n] > 0}
           t == Arranged(l, at, Upwards(at))
           D == DOMAIN t
           before == {q \in D \X D : t[q[1]] > t[q[2]] \/ (q[1] <= q[2] /\ ~(t[q[2]] > t[q[1]]))}
           shown == Tooltip(metric, i)
<1>1. l \in Seq(Int) /\ \A n \in DOMAIN l : l[n] \in Nat
  BY LayersInBucket
<1>2. shown = Arranged(t, D, before)
  BY DEF Tooltip, Filtered, StableSort
<1> HIDE DEF l, shown
<1>3. at \in SUBSET DOMAIN l /\ \A n \in DOMAIN l \ at : l[n] = 0
  BY <1>1
<1> HIDE DEF at
<1>4. t \in Seq(Int) /\ \E p : p \in Orderings(t, l, at, Upwards(at))
  BY <1>1, <1>3, KeptIs
<1>5. \E p : p \in Picks(t, l, at)
  BY <1>4, OrderingPicks
<1> HIDE DEF t
<1>6. t \in [D -> Int]
  BY <1>4
<1>7. (\A j, k \in D : <<j, k>> \in Descending(t) <=> t[j] > t[k]) /\ IsWeakOrder(D, Descending(t))
  BY <1>6, NumbersOrder
<1>8. before = Stable(D, Descending(t))
  BY <1>7 DEF Stable
<1> HIDE DEF before
<1>9. PICK p : p \in Picks(shown, l, at)
  BY <1>2, <1>4, <1>5, <1>7, <1>8, SortedPicks
<1>10. shown \in Seq(Int)
  BY <1>2, <1>4, <1>7, <1>8, SortedIs
<1>11. p \in Bijection(1..Len(shown), at) /\ \A n \in 1..Len(shown) : shown[n] = l[p[n]]
  BY <1>9, PicksAre
<1>12. Total(shown) = SumOver(l, at)
  BY <1>10, <1>11, TotalOfOrdering
<1>13. Total(l) = SumOver(l, DOMAIN l)
  BY <1>1, TotalIs
<1>14. SumOver(l, DOMAIN l) = SumOver(l, at)
  <2>1. IsFiniteSet(DOMAIN l) /\ \A n \in DOMAIN l : l[n] \in Int
    BY <1>1, Indexes
  <2> QED  BY <1>3, <2>1, SumOverPart
<1> QED  BY <1>12, <1>13, <1>14 DEF shown, l

\* In every bucket the layers and the tooltip add up to the rows: what is not live has
\* nothing there, the others are in one layer each or in the shared one.
LEMMA BucketsAddUp == ASSUME BreakdownTypeOK PROVE LayersAddUp
<1> SUFFICES ASSUME rows # <<>>, NEW i \in DOMAIN rows[1].trend
             PROVE  LET sum == Total(Mapped(rows, LAMBDA r : Trend(r, metric)[i]))
                    IN  /\ Total(Mapped(StackLayers(metric), LAMBDA l : l[i])) = sum
                        /\ Total(Tooltip(metric, i)) = sum
  BY DEF LayersAddUp
<1> QED  BY RowsAddUp, LayersInBucket, TooltipAddsUp

\* The layers of the drawer's chart, and what its tooltip lists, add up to the rows in
\* every bucket, for all responses and colors (buildStack in stack.ts, TimeChart.tsx).
THEOREM LayersAddUpHolds == BreakdownSpec => []LayersAddUp
  BY BreakdownTypeCorrect, BucketsAddUp, PTL

-----------------------------------------------------------------------------
(***************************************************************************)
(* The table and the share bar, by value.                                  *)
(***************************************************************************)

\* A weaker order does.
LEMMA Within ==
    ASSUME NEW t, NEW f, NEW at, NEW before, NEW p \in Orderings(t, f, at, before),
           NEW after, \A i, j \in at : <<i, j>> \in before => <<i, j>> \in after
    PROVE  p \in Orderings(t, f, at, after)
<1>1. p \in Bijection(1..Len(t), at)
  BY DEF Orderings
<1>2. p \in [1..Len(t) -> at]
  BY <1>1, BijectionIs
<1> QED  BY <1>1, <1>2 DEF Orderings

\* What is kept of a sequence stays in the order of its indexes, or sorted.
LEMMA FilterUpwards ==
    ASSUME NEW t, Len(t) \in Nat, NEW f, NEW at, NEW p \in Orderings(t, f, at, Upwards(at)),
           NEW T \in SUBSET (1..Len(t)), NEW into \in SUBSET at,
           \A n \in T : p[n] \in into, \A i \in into : \E n \in T : p[n] = i
    PROVE  \E r : r \in Orderings(Arranged(t, T, Upwards(T)), f, into, Upwards(into))
<1> DEFINE before == Upwards(at)
           after == Upwards(into)
           u == Arranged(t, T, Upwards(T))
<1>1. p \in Orderings(t, f, at, before)
  OBVIOUS
<1>2. \A i, j \in into : <<i, j>> \in before => <<i, j>> \in after
  BY DEF Upwards
<1> HIDE DEF before, after
<1>3. PICK r : r \in Orderings(u, f, into, before)
  BY <1>1, FilterOfOrdering
<1> HIDE DEF u
<1>4. r \in Orderings(u, f, into, after)
  BY <1>2, <1>3, Within
<1> QED  BY <1>4 DEF u, after

\* What is kept of a stable sort is the stable sort of what is kept.
LEMMA FilterSorted ==
    ASSUME NEW t, Len(t) \in Nat, NEW f, NEW at, NEW less, NEW p \in Orderings(t, f, at, Stable(at, less)),
           NEW T \in SUBSET (1..Len(t)), NEW into \in SUBSET at,
           \A n \in T : p[n] \in into, \A i \in into : \E n \in T : p[n] = i
    PROVE  \E r : r \in Orderings(Arranged(t, T, Upwards(T)), f, into, Stable(into, less))
<1> DEFINE before == Stable(at, less)
           after == Stable(into, less)
           u == Arranged(t, T, Upwards(T))
<1>1. p \in Orderings(t, f, at, before)
  OBVIOUS
<1>2. \A i, j \in into : <<i, j>> \in before => <<i, j>> \in after
  BY DEF Stable
<1> HIDE DEF before, after
<1>3. PICK r : r \in Orderings(u, f, into, before)
  BY <1>1, FilterOfOrdering
<1> HIDE DEF u
<1>4. r \in Orderings(u, f, into, after)
  BY <1>2, <1>3, Within
<1> QED  BY <1>4 DEF u, after

\* The rows' values, the rows with a value, and the order of the values.
ValueOf(m) == [j \in DOMAIN rows |-> MetricValue(rows[j], m)]
PositiveAt(m) == {j \in DOMAIN rows : MetricValue(rows[j], m) > 0}
ByValue(m, at) == Stable(at, Descending(ValueOf(m)))

\* The rows by their indexes and values.
LEMMA RowsHaveValues ==
    ASSUME BreakdownTypeOK, NEW m
    PROVE  /\ rows \in Seq(ToSet(rows)) /\ DOMAIN rows = 1..Len(rows) /\ Len(rows) \in Nat
           /\ IsFiniteSet(DOMAIN rows) /\ DOMAIN rows \in SUBSET Int
           /\ \A j \in DOMAIN rows : ValueOf(m)[j] \in Nat /\ ValueOf(m)[j] = MetricValue(rows[j], m)
           /\ \A i, j \in DOMAIN rows : <<i, j>> \in Descending(ValueOf(m)) <=> ValueOf(m)[i] > ValueOf(m)[j]
           /\ PositiveAt(m) \in SUBSET DOMAIN rows
<1>1. rows \in Seq(ToSet(rows)) /\ \A j \in DOMAIN rows : Counted(rows[j])
  BY RowsAreRows DEF IsRow
<1>2. \A j \in DOMAIN rows : ValueOf(m)[j] \in Nat /\ ValueOf(m)[j] = MetricValue(rows[j], m)
  BY <1>1, ValuesAreNumbers DEF ValueOf
<1>3. ValueOf(m) \in [DOMAIN rows -> Int]
  <2>1. ValueOf(m) = [j \in DOMAIN rows |-> ValueOf(m)[j]] /\ \A j \in DOMAIN rows : ValueOf(m)[j] \in Int
    BY <1>2 DEF ValueOf
  <2> QED  BY <2>1
<1>4. \A i, j \in DOMAIN rows : <<i, j>> \in Descending(ValueOf(m)) <=> ValueOf(m)[i] > ValueOf(m)[j]
  BY <1>3, NumbersOrder
<1> QED  BY <1>1, <1>2, <1>4, Indexes DEF PositiveAt

\* By value, descending, rows are in an order.
LEMMA ByValueIsOrder ==
    ASSUME BreakdownTypeOK, NEW m, NEW at \in SUBSET DOMAIN rows
    PROVE  /\ IsFiniteSet(at) /\ at \in SUBSET Int /\ IsOrder(at, ByValue(m, at))
           /\ IsWeakOrder(at, Descending(ValueOf(m)))
<1>1. IsFiniteSet(at) /\ at \in SUBSET Int
  BY RowsHaveValues, FS_Subset
<1> DEFINE v == ValueOf(m)
           less == Descending(v)
<1>0. /\ \A j \in DOMAIN rows : v[j] \in Nat
      /\ \A i, j \in DOMAIN rows : <<i, j>> \in less <=> v[i] > v[j]
  BY RowsHaveValues
<1> HIDE DEF v, less
<1>2. (\A i \in at : v[i] \in Int) /\ \A i, j \in at : <<i, j>> \in less <=> v[i] > v[j]
  BY <1>0
<1>3. \A i, j \in at : ~(v[i] > v[j] /\ v[j] > v[i])
  BY <1>2
<1>4. \A i, j, k \in at : v[i] > v[k] => v[i] > v[j] \/ v[j] > v[k]
  BY <1>2
<1>5. IsWeakOrder(at, less)
  BY <1>2, <1>3, <1>4 DEF IsWeakOrder
<1>6. IsOrder(at, Stable(at, less))
  BY <1>1, <1>5, StableIsOrder
<1> QED  BY <1>1, <1>5, <1>6 DEF ByValue, less, v

\* The table, in its default order, has the rows by value.
LEMMA TableByValue ==
    ASSUME BreakdownTypeOK, NEW m
    PROVE  /\ SortRichRows(m, DefaultSort) \in Seq(ToSet(rows))
           /\ \E r : r \in Orderings(SortRichRows(m, DefaultSort), rows, RichAt(m), ByValue(m, RichAt(m)))
<1> DEFINE at == RichAt(m)
           t == RichRows(m)
           D == DOMAIN t
           lessOf == Precedes(t, m, DefaultSort)
           v == ValueOf(m)
           less == Descending(v)
           shown == SortRichRows(m, DefaultSort)
<1>1. /\ rows \in Seq(ToSet(rows)) /\ at \in SUBSET DOMAIN rows
      /\ \A j \in DOMAIN rows : v[j] \in Nat /\ v[j] = MetricValue(rows[j], m)
      /\ \A i, j \in DOMAIN rows : <<i, j>> \in less <=> v[i] > v[j]
  BY RowsHaveValues DEF RichAt
<1>2. t \in Seq(ToSet(rows)) /\ (\A i \in D : IsRow(t[i])) /\ t = Arranged(rows, at, Upwards(at))
  BY RichRowsAreRows, RichRowsIs
<1>3. shown = Arranged(t, D, Stable(D, lessOf))
  BY SortRichRowsIs
<1>4. IsWeakOrder(at, less)
  BY <1>1, ByValueIsOrder
<1>5. IsWeakOrder(D, lessOf)
  <2>1. DefaultSort.key \in SortKeys
    BY DEF DefaultSort, SortKeys
  <2> QED  BY <1>2, <2>1, PrecedesIsWeak
<1> HIDE DEF at, t, v, shown
<1>6. PICK p : p \in Orderings(t, rows, at, Upwards(at))
  BY <1>1, <1>2, KeptIs
<1>7. p \in [1..Len(t) -> at] /\ (\A n \in 1..Len(t) : t[n] = rows[p[n]]) /\ D = 1..Len(t) /\ Len(t) \in Nat
  <2>1. p \in Bijection(1..Len(t), at) /\ \A n \in 1..Len(t) : t[n] = rows[p[n]]
    BY <1>6 DEF Orderings
  <2> QED  BY <1>2, <2>1, BijectionIs
<1>8. ASSUME NEW i \in D, NEW j \in D PROVE <<i, j>> \in lessOf <=> <<p[i], p[j]>> \in less
  <2> DEFINE a == SortValue(t[i], DefaultSort.key, m)
             b == SortValue(t[j], DefaultSort.key, m)
  <2>1. <<i, j>> \in lessOf <=> Below(b, a)
    BY PrecedesIs DEF RowLess, DefaultSort
  <2>2. a = <<v[p[i]], 1>> /\ b = <<v[p[j]], 1>>
    <3>1. a = <<MetricValue(t[i], m), 1>> /\ b = <<MetricValue(t[j], m), 1>>
      BY DEF DefaultSort, SortValue
    <3> QED  BY <1>1, <1>7, <3>1
  <2>3. v[p[i]] \in Int /\ v[p[j]] \in Int
    BY <1>1, <1>7
  <2> HIDE DEF a, b
  <2>4. Below(b, a) <=> v[p[i]] > v[p[j]]
    <3>1. \A x, y \in Int : Below(<<y, 1>>, <<x, 1>>) <=> x > y
      BY DEF Below
    <3> QED  BY <2>2, <2>3, <3>1
  <2>5. p[i] \in DOMAIN rows /\ p[j] \in DOMAIN rows
    BY <1>1, <1>7
  <2> QED  BY <1>1, <2>1, <2>4, <2>5
<1>9. shown \in Seq(ToSet(rows))
  BY <1>2, <1>3, <1>5, SortedIs
<1> DEFINE u == Arranged(t, 1..Len(t), Stable(1..Len(t), lessOf))
<1>10. u = shown
  BY <1>3, <1>7
<1> HIDE DEF lessOf, less
<1>11. \E r : r \in Orderings(u, rows, at, Stable(at, less))
  <2>1. \A i, j \in 1..Len(t) : <<i, j>> \in lessOf <=> <<p[i], p[j]>> \in less
    BY <1>7, <1>8
  <2> QED  BY <1>4, <1>6, <1>7, <2>1, SortOfOrdering
<1> HIDE DEF u
<1> QED  BY <1>9, <1>10, <1>11 DEF ByValue, at, shown, less, v

\* The rows of the table with something in them.
ShownValues(m) == Filtered(SortRichRows(m, DefaultSort), LAMBDA r : MetricValue(r, m) > 0)

\* They are those with a value, by value.
LEMMA ShownByValue ==
    ASSUME BreakdownTypeOK, NEW m
    PROVE  /\ ShownValues(m) \in Seq(ToSet(rows))
           /\ \E r : r \in Orderings(ShownValues(m), rows, PositiveAt(m), ByValue(m, PositiveAt(m)))
<1> DEFINE at == RichAt(m)
           into == PositiveAt(m)
           t == SortRichRows(m, DefaultSort)
           less == Descending(ValueOf(m))
           T == {n \in DOMAIN t : MetricValue(t[n], m) > 0}
<1>1. t \in Seq(ToSet(rows)) /\ \E r : r \in Orderings(t, rows, at, Stable(at, less))
  BY TableByValue DEF ByValue
<1>2. into \in SUBSET at
  BY DEF PositiveAt, RichAt
<1>3. ShownValues(m) = Arranged(t, T, Upwards(T))
  BY DEF ShownValues, Filtered
<1>0. at \in SUBSET DOMAIN rows
  BY DEF RichAt
<1> HIDE DEF t, at, less
<1>4. PICK p : p \in Orderings(t, rows, at, Stable(at, less))
  BY <1>1
<1>5. /\ p \in [1..Len(t) -> at] /\ \A i \in at : \E n \in 1..Len(t) : p[n] = i
      /\ \A n \in 1..Len(t) : t[n] = rows[p[n]]
  <2>1. p \in Bijection(1..Len(t), at) /\ \A n \in 1..Len(t) : t[n] = rows[p[n]]
    BY <1>4 DEF Orderings
  <2> QED  BY <2>1, BijectionIs
<1>6. DOMAIN t = 1..Len(t) /\ Len(t) \in Nat /\ T \in SUBSET (1..Len(t)) /\ T \in SUBSET DOMAIN t
  BY <1>1
<1>7. (\A n \in T : p[n] \in into) /\ \A i \in into : \E n \in T : p[n] = i
  BY <1>0, <1>2, <1>5, <1>6 DEF PositiveAt
<1> HIDE DEF T, into
<1>8. \E r : r \in Orderings(Arranged(t, T, Upwards(T)), rows, into, Stable(into, less))
  BY <1>2, <1>4, <1>6, <1>7, FilterSorted
<1>9. Arranged(t, T, Upwards(T)) \in Seq(ToSet(rows))
  BY <1>1, <1>6, KeptIs
<1> QED  BY <1>3, <1>8, <1>9 DEF ByValue, into, less

\* The index of a row's place.
LEMMA PlacesAre ==
    ASSUME NEW t, NEW f, NEW at, NEW before, NEW p \in Orderings(t, f, at, before)
    PROVE  /\ p \in [1..Len(t) -> at] /\ (\A i \in at : \E n \in 1..Len(t) : p[n] = i)
           /\ \A i, j \in 1..Len(t) : p[i] = p[j] => i = j
           /\ \A n \in 1..Len(t) : t[n] = f[p[n]] /\ p[n] \in at
           /\ \A i, j \in 1..Len(t) : i <= j => <<p[i], p[j]>> \in before
<1>1. p \in Bijection(1..Len(t), at) /\ \A n \in 1..Len(t) : t[n] = f[p[n]]
  BY DEF Orderings
<1>2. \A i, j \in 1..Len(t) : i <= j => <<p[i], p[j]>> \in before
  BY DEF Orderings
<1> QED  BY <1>1, <1>2, BijectionIs

\* The two parts of the share bar's segments.
EntitiesOf(m) == ShareSegments(m).entities
OthersOf(m) == ShareSegments(m).others

\* The share bar has the rows with a color slot by value, and the others.
LEMMA SegmentsAre ==
    ASSUME BreakdownTypeOK, NEW m
    PROVE  LET in == SlottedAt(PositiveAt(m))
           IN  /\ EntitiesOf(m) \in Seq(ToSet(rows)) /\ OthersOf(m) \in Seq(ToSet(rows))
               /\ \E q : q \in Orderings(EntitiesOf(m), rows, in, ByValue(m, in))
               /\ \E q : q \in Picks(OthersOf(m), rows, PositiveAt(m) \ in)
<1> DEFINE at == PositiveAt(m)
           in == SlottedAt(at)
           out == at \ in
           t == Arranged(rows, at, Upwards(at))
           T == {n \in DOMAIN t : slots[t[n].key] # Absent}
           O == {n \in DOMAIN t : slots[t[n].key] = Absent}
           s == Arranged(t, T, Upwards(T))
           o == Arranged(t, O, Upwards(O))
           D == DOMAIN s
           before == {q \in D \X D : MetricValue(s[q[1]], m) > MetricValue(s[q[2]], m)
                                     \/ (q[1] <= q[2] /\ ~(MetricValue(s[q[2]], m) > MetricValue(s[q[1]], m)))}
           v == ValueOf(m)
           less == Descending(v)
           lessOf == {q \in D \X D : MetricValue(s[q[1]], m) > MetricValue(s[q[2]], m)}
           entities == EntitiesOf(m)
           others == OthersOf(m)
<1>1. /\ rows \in Seq(ToSet(rows)) /\ at \in SUBSET DOMAIN rows
      /\ \A j \in DOMAIN rows : v[j] \in Nat /\ v[j] = MetricValue(rows[j], m)
      /\ \A i, j \in DOMAIN rows : <<i, j>> \in less <=> v[i] > v[j]
  BY RowsHaveValues
<1>2. entities = Arranged(s, D, before) /\ others = o
  <2>1. Filtered(rows, LAMBDA r : MetricValue(r, m) > 0) = t
    BY DEF Filtered, PositiveAt
  <2>2. Filtered(t, LAMBDA r : slots[r.key] # Absent) = s /\ Filtered(t, LAMBDA r : slots[r.key] = Absent) = o
    BY DEF Filtered
  <2> HIDE DEF t, s, o
  <2>3. StableSort(s, LAMBDA a, b : MetricValue(a, m) > MetricValue(b, m)) = Arranged(s, D, before)
    BY DEF StableSort
  <2> QED  BY <2>1, <2>2, <2>3 DEF EntitiesOf, OthersOf, ShareSegments
<1>3. in \in SUBSET at /\ out \in SUBSET at
  BY DEF SlottedAt
<1> HIDE DEF entities, others, t
<1>4. t \in Seq(ToSet(rows)) /\ \E p : p \in Orderings(t, rows, at, Upwards(at))
  <2> HIDE DEF at
  <2> QED  BY <1>1, KeptIs DEF t
<1>5. PICK p : p \in Orderings(t, rows, at, Upwards(at))
  BY <1>4
<1>6. /\ p \in [1..Len(t) -> at] /\ (\A i \in at : \E n \in 1..Len(t) : p[n] = i)
      /\ \A n \in 1..Len(t) : t[n] = rows[p[n]] /\ p[n] \in at
  BY <1>5, PlacesAre
<1>7. /\ DOMAIN t = 1..Len(t) /\ Len(t) \in Nat
      /\ T \in SUBSET (1..Len(t)) /\ O \in SUBSET (1..Len(t)) /\ T \in SUBSET DOMAIN t /\ O \in SUBSET DOMAIN t
  BY <1>4
<1>8. (\A n \in T : p[n] \in in) /\ \A i \in in : \E n \in T : p[n] = i
  BY <1>6, <1>7 DEF SlottedAt
<1>9. (\A n \in O : p[n] \in out) /\ \A i \in out : \E n \in O : p[n] = i
  BY <1>6, <1>7 DEF SlottedAt
<1>10. others \in Seq(ToSet(rows)) /\ \E q : q \in Picks(others, rows, out)
  <2> HIDE DEF O, out, at
  <2>1. o \in Seq(ToSet(rows))
    BY <1>4, <1>7, KeptIs
  <2>2. p \in Picks(t, rows, at)
    BY <1>5, OrderingPicks
  <2>3. \E q : q \in Picks(o, rows, out)
    BY <1>4, <1>7, <1>9, <2>2, KeptPicks
  <2> QED  BY <1>2, <2>1, <2>3
<1>11. s \in Seq(ToSet(rows)) /\ \E q : q \in Orderings(s, rows, in, Upwards(in))
  <2> HIDE DEF T, in, at
  <2>1. s \in Seq(ToSet(rows))
    BY <1>4, <1>7, KeptIs
  <2>2. \E q : q \in Orderings(s, rows, in, Upwards(in))
    BY <1>3, <1>5, <1>7, <1>8, FilterUpwards
  <2> QED  BY <2>1, <2>2
<1> HIDE DEF s
<1>12. PICK q : q \in Orderings(s, rows, in, Upwards(in))
  BY <1>11
<1>13. D = 1..Len(s) /\ Len(s) \in Nat /\ \A n \in 1..Len(s) : s[n] = rows[q[n]] /\ q[n] \in in
  BY <1>11, <1>12, PlacesAre
<1>14. \A i, j \in D : <<i, j>> \in lessOf <=> MetricValue(s[i], m) > MetricValue(s[j], m)
  OBVIOUS
<1> HIDE DEF in, lessOf
<1>15. before = Stable(D, lessOf)
  BY <1>14 DEF Stable
<1>16. \A i, j \in D : <<i, j>> \in lessOf <=> <<q[i], q[j]>> \in less
  <2> SUFFICES ASSUME NEW i \in D, NEW j \in D PROVE <<i, j>> \in lessOf <=> <<q[i], q[j]>> \in less
    OBVIOUS
  <2>1. q[i] \in DOMAIN rows /\ q[j] \in DOMAIN rows /\ s[i] = rows[q[i]] /\ s[j] = rows[q[j]]
    BY <1>1, <1>3, <1>13
  <2> HIDE DEF v, less, D
  <2> QED  BY <1>1, <1>14, <2>1
<1>17. in \in SUBSET DOMAIN rows
  BY <1>1, <1>3
<1>18. IsWeakOrder(in, less)
  BY <1>17, ByValueIsOrder
<1>19. IsWeakOrder(D, lessOf)
  <2> HIDE DEF less, D
  <2>1. \A n \in D : q[n] \in in
    BY <1>13
  <2> QED  BY <1>16, <1>18, <2>1 DEF IsWeakOrder
<1> HIDE DEF before, less
<1>20. entities = Arranged(s, DOMAIN s, Stable(DOMAIN s, lessOf)) /\ entities = Arranged(s, 1..Len(s), Stable(1..Len(s), lessOf))
  BY <1>2, <1>13, <1>15
<1>21. entities \in Seq(ToSet(rows))
  BY <1>11, <1>19, <1>20, SortedIs
<1>22. \E r : r \in Orderings(entities, rows, in, Stable(in, less))
  <2> DEFINE u == Arranged(s, 1..Len(s), Stable(1..Len(s), lessOf))
  <2>1. \A i, j \in 1..Len(s) : <<i, j>> \in lessOf <=> <<q[i], q[j]>> \in less
    BY <1>13, <1>16
  <2>2. \E r : r \in Orderings(u, rows, in, Stable(in, less))
    BY <1>12, <1>13, <1>18, <2>1, SortOfOrdering
  <2> QED  BY <1>20, <2>2
<1> QED  BY <1>10, <1>21, <1>22 DEF in, at, less, v, entities, others, ByValue

\* The table, without those that have no color slot, has the entities of the share bar.
LEMMA EntitiesAreShown ==
    ASSUME BreakdownTypeOK, NEW m
    PROVE  EntitiesOf(m) = Filtered(ShownValues(m), LAMBDA r : slots[r.key] # Absent)
<1> DEFINE at == PositiveAt(m)
           in == SlottedAt(at)
           less == Descending(ValueOf(m))
           t == ShownValues(m)
           T == {n \in DOMAIN t : slots[t[n].key] # Absent}
           s == Arranged(t, T, Upwards(T))
           order == Stable(in, less)
           entities == EntitiesOf(m)
<1>1. t \in Seq(ToSet(rows)) /\ \E p : p \in Orderings(t, rows, at, Stable(at, less))
  BY ShownByValue DEF ByValue
<1>2. entities \in Seq(ToSet(rows)) /\ \E q : q \in Orderings(entities, rows, in, order)
  BY SegmentsAre DEF ByValue
<1>3. in \in SUBSET at
  BY DEF SlottedAt
<1>4. in \in SUBSET DOMAIN rows
  BY <1>3 DEF PositiveAt
<1>5. IsOrder(in, order)
  BY <1>4, ByValueIsOrder DEF ByValue
<1>6. Filtered(t, LAMBDA r : slots[r.key] # Absent) = s
  BY DEF Filtered
<1> HIDE DEF t, at, less, entities
<1>7. PICK p : p \in Orderings(t, rows, at, Stable(at, less))
  BY <1>1
<1>8. /\ p \in [1..Len(t) -> at] /\ (\A i \in at : \E n \in 1..Len(t) : p[n] = i)
      /\ \A n \in 1..Len(t) : t[n] = rows[p[n]] /\ p[n] \in at
  BY <1>7, PlacesAre
<1>9. DOMAIN t = 1..Len(t) /\ Len(t) \in Nat /\ T \in SUBSET (1..Len(t)) /\ T \in SUBSET DOMAIN t
  BY <1>1
<1>10. (\A n \in T : p[n] \in in) /\ \A i \in in : \E n \in T : p[n] = i
  BY <1>8, <1>9 DEF SlottedAt
<1> HIDE DEF T, in
<1>11. \E q : q \in Orderings(s, rows, in, order)
  BY <1>3, <1>7, <1>9, <1>10, FilterSorted
<1>12. s \in Seq(ToSet(rows))
  BY <1>1, <1>9, KeptIs
<1> HIDE DEF s, order
<1>13. s = Arranged(rows, in, order)
  BY <1>5, <1>11, <1>12, OrderingIsArranged
<1>14. entities = Arranged(rows, in, order)
  BY <1>2, <1>5, OrderingIsArranged
<1> QED  BY <1>6, <1>13, <1>14 DEF t, entities

\* The values of some rows.
ValuesIn(s, m) == [n \in DOMAIN s |-> MetricValue(s[n], m)]

\* What the segments open, and what they stand for.
LEMMA BarIs ==
    ASSUME BreakdownTypeOK, NEW m
    PROVE  LET e == EntitiesOf(m)
               o == OthersOf(m)
           IN  /\ Mapped(ShareBar(m), LAMBDA sg : sg.value)
                    = ValuesIn(e, m) \o IF o = <<>> THEN <<>> ELSE <<Total(ValuesIn(o, m))>>
               /\ Mapped(ShareBar(m), LAMBDA sg : sg.opens)
                    = KeysOf(e) \o IF o = <<>> THEN <<>> ELSE <<Absent>>
<1> DEFINE e == EntitiesOf(m)
           o == OthersOf(m)
           sum(s) == Total(Mapped(s, LAMBDA r : MetricValue(r, m)))
           all == sum(e) + sum(o)
           segment(opens, s) == [opens |-> opens, value |-> sum(s), labelled |-> 100 * sum(s) >= 7 * all]
           high == [n \in DOMAIN e |-> segment(e[n].key, <<e[n]>>)]
           other == segment(Absent, o)
           rest == IF o = <<>> THEN <<>> ELSE <<other>>
           A == {high[n] : n \in DOMAIN e} \cup {other}
           val == [sg \in A |-> sg.value]
           opens == [sg \in A |-> sg.opens]
<1>1. ShareBar(m) = high \o rest
  BY DEF ShareBar, Mapped, EntitiesOf, OthersOf
<1>2. e \in Seq(ToSet(rows)) /\ o \in Seq(ToSet(rows))
  BY SegmentsAre
<1>3. ASSUME NEW n \in DOMAIN e PROVE high[n].opens = e[n].key /\ high[n].value = MetricValue(e[n], m)
  <2>1. high[n].value = sum(<<e[n]>>)
    OBVIOUS
  <2>2. Mapped(<<e[n]>>, LAMBDA r : MetricValue(r, m)) = <<MetricValue(e[n], m)>>
    BY DEF Mapped
  <2>3. MetricValue(e[n], m) \in Int
    <3>1. e[n] \in {rows[j] : j \in DOMAIN rows}
      BY <1>2 DEF ToSet
    <3> QED  BY <3>1, RowsHaveValues
  <2>4. Total(<<MetricValue(e[n], m)>>) = MetricValue(e[n], m)
    BY <2>3, SmallTotals
  <2> QED  BY <2>1, <2>2, <2>4
<1>4. other.opens = Absent /\ other.value = Total(ValuesIn(o, m))
  BY DEF Mapped, ValuesIn
<1>5. DOMAIN high = DOMAIN e /\ high = [n \in DOMAIN high |-> high[n]]
  OBVIOUS
<1> HIDE DEF high, other, e, o
<1>6. high \in Seq(A)
  <2>1. DOMAIN e = 1..Len(e) /\ Len(e) \in Nat
    BY <1>2
  <2>2. \A n \in DOMAIN e : high[n] \in A
    OBVIOUS
  <2> HIDE DEF A
  <2> QED  BY <1>5, <2>1, <2>2
<1>7. rest \in Seq(A)
  <2>1. other \in A
    OBVIOUS
  <2> HIDE DEF A
  <2>2. <<>> \in Seq(A) /\ <<other>> \in Seq(A)
    BY <2>1
  <2> QED  BY <2>2
<1>8. \A sg \in A : val[sg] = sg.value /\ opens[sg] = sg.opens
  OBVIOUS
<1>9. (\A n \in DOMAIN high : high[n] \in A) /\ \A n \in DOMAIN rest : rest[n] \in A
  BY <1>6, <1>7
<1>10. \A n \in DOMAIN (high \o rest) : (high \o rest)[n] \in A
  <2> HIDE DEF A, rest
  <2>1. high \o rest \in Seq(A)
    BY <1>6, <1>7, ConcatProperties
  <2> QED  BY <2>1
<1> HIDE DEF A, val, opens
<1> DEFINE bar == high \o rest
<1> DEFINE values == Mapped(ShareBar(m), LAMBDA sg : sg.value)
           opened == Mapped(ShareBar(m), LAMBDA sg : sg.opens)
           ofRest == IF o = <<>> THEN <<>> ELSE <<Total(ValuesIn(o, m))>>
           opensRest == IF o = <<>> THEN <<>> ELSE <<Absent>>
<1>12. IsMap(values, val, bar) /\ IsMap(opened, opens, bar)
  <2>1. \A n \in DOMAIN bar : val[bar[n]] = bar[n].value /\ opens[bar[n]] = bar[n].opens
    BY <1>8, <1>10
  <2>2. values = [n \in DOMAIN bar |-> bar[n].value] /\ opened = [n \in DOMAIN bar |-> bar[n].opens]
    BY <1>1 DEF Mapped
  <2> HIDE DEF bar, values, opened
  <2> QED  BY <2>1, <2>2 DEF IsMap
<1> HIDE DEF values, opened
<1>13. IsMap(ValuesIn(e, m), val, high) /\ IsMap(KeysOf(e), opens, high)
  <2>1. \A n \in DOMAIN e : val[high[n]] = MetricValue(e[n], m) /\ opens[high[n]] = e[n].key
    BY <1>3, <1>5, <1>8, <1>9
  <2> QED  BY <1>5, <2>1 DEF ValuesIn, KeysOf, Mapped, IsMap
<1>14. IsMap(ofRest, val, rest) /\ IsMap(opensRest, opens, rest)
  <2>1. CASE o = <<>>
    BY <2>1 DEF IsMap
  <2>2. CASE o # <<>>
    <3>1. rest = <<other>> /\ ofRest = <<Total(ValuesIn(o, m))>> /\ opensRest = <<Absent>>
      BY <2>2
    <3>2. val[other] = Total(ValuesIn(o, m)) /\ opens[other] = Absent
      BY <1>4, <1>8 DEF A
    <3> HIDE DEF rest, ofRest, opensRest
    <3> QED  BY <3>1, <3>2 DEF IsMap
  <2> QED  BY <2>1, <2>2
<1> HIDE DEF rest, ofRest, opensRest
<1>15. values = ValuesIn(e, m) \o ofRest
  BY <1>6, <1>7, <1>12, <1>13, <1>14, MapOfConcat DEF bar
<1>16. opened = KeysOf(e) \o opensRest
  BY <1>6, <1>7, <1>12, <1>13, <1>14, MapOfConcat DEF bar
<1> QED  BY <1>15, <1>16 DEF e, o, values, opened, ofRest, opensRest

\* The values of rows that are picked.
LEMMA ValuesAddUp ==
    ASSUME BreakdownTypeOK, NEW m, NEW s \in Seq(ToSet(rows)), NEW at \in SUBSET DOMAIN rows,
           NEW p \in Picks(s, rows, at)
    PROVE  ValuesIn(s, m) \in Seq(Int) /\ Total(ValuesIn(s, m)) = SumOver(ValueOf(m), at)
<1> DEFINE u == ValuesIn(s, m)
           v == ValueOf(m)
<1>1. \A j \in DOMAIN rows : v[j] \in Nat /\ v[j] = MetricValue(rows[j], m)
  BY RowsHaveValues
<1>2. p \in [1..Len(s) -> at] /\ \A n \in 1..Len(s) : s[n] = rows[p[n]]
  BY PicksAre, BijectionIs
<1>3. DOMAIN s = 1..Len(s) /\ Len(s) \in Nat
  OBVIOUS
<1>4. DOMAIN u = 1..Len(s) /\ u = [n \in DOMAIN u |-> u[n]] /\ \A n \in DOMAIN u : u[n] = MetricValue(s[n], m)
  BY <1>3 DEF ValuesIn
<1> HIDE DEF u, v
<1>5. \A n \in DOMAIN u : u[n] = v[p[n]]
  BY <1>1, <1>2, <1>4
<1>6. \A j \in at : v[j] \in Int
  BY <1>1
<1> QED  BY <1>3, <1>4, <1>5, <1>6, TotalOfPicks DEF u, v

\* Rows without a value add nothing.
LEMMA PositiveSum ==
    ASSUME BreakdownTypeOK, NEW m, NEW at \in SUBSET DOMAIN rows, PositiveAt(m) \subseteq at
    PROVE  SumOver(ValueOf(m), at) = SumOver(ValueOf(m), PositiveAt(m))
<1> DEFINE v == ValueOf(m)
           in == PositiveAt(m)
<1>1. \A j \in DOMAIN rows : v[j] \in Nat /\ v[j] = MetricValue(rows[j], m)
  BY RowsHaveValues
<1>2. IsFiniteSet(at)
  BY ByValueIsOrder
<1>3. (\A j \in at : v[j] \in Int) /\ in \in SUBSET at /\ \A j \in at \ in : v[j] = 0
  <2>1. \A j \in at \ in : ~(MetricValue(rows[j], m) > 0)
    BY DEF PositiveAt
  <2> HIDE DEF v, in
  <2> QED  BY <1>1, <2>1 DEF in
<1> HIDE DEF v, in
<1> QED  BY <1>2, <1>3, SumOverPart DEF v, in

\* The share bar adds up to what the table's shares are of.
LEMMA BarAddsUp ==
    ASSUME BreakdownTypeOK, NEW m
    PROVE  Total(Mapped(ShareBar(m), LAMBDA sg : sg.value)) = ShareTotal(m)
<1> DEFINE at == PositiveAt(m)
           in == SlottedAt(at)
           out == at \ in
           v == ValueOf(m)
           e == EntitiesOf(m)
           o == OthersOf(m)
           ofRest == IF o = <<>> THEN <<>> ELSE <<Total(ValuesIn(o, m))>>
           bar == Mapped(ShareBar(m), LAMBDA sg : sg.value)
<1>1. bar = ValuesIn(e, m) \o ofRest
  BY BarIs
<1>2. /\ e \in Seq(ToSet(rows)) /\ o \in Seq(ToSet(rows))
      /\ \E q : q \in Orderings(e, rows, in, ByValue(m, in))
      /\ \E q : q \in Picks(o, rows, out)
  BY SegmentsAre
<1>3. at \in SUBSET DOMAIN rows /\ in \in SUBSET at /\ out \in SUBSET at /\ in \cup out = at /\ in \cap out = {}
  BY DEF PositiveAt, SlottedAt
<1>4. /\ IsFiniteSet(in) /\ IsFiniteSet(out)
      /\ \A j \in in \cup out : v[j] \in Int
  <2> HIDE DEF at, in, out, v
  <2>1. in \in SUBSET DOMAIN rows /\ out \in SUBSET DOMAIN rows
    BY <1>3
  <2>2. IsFiniteSet(in) /\ IsFiniteSet(out)
    BY <2>1, ByValueIsOrder
  <2>3. \A j \in DOMAIN rows : v[j] \in Nat
    BY RowsHaveValues DEF v
  <2> QED  BY <2>1, <2>2, <2>3
<1> HIDE DEF bar, e, o, v, in, out, at
<1>5. \E q : q \in Picks(e, rows, in)
  BY <1>2, OrderingPicks
<1>6. in \in SUBSET DOMAIN rows /\ out \in SUBSET DOMAIN rows
  BY <1>3
<1>7. /\ ValuesIn(e, m) \in Seq(Int) /\ Total(ValuesIn(e, m)) = SumOver(v, in)
      /\ ValuesIn(o, m) \in Seq(Int) /\ Total(ValuesIn(o, m)) = SumOver(v, out)
  BY <1>2, <1>5, <1>6, ValuesAddUp DEF v
<1>8. ofRest \in Seq(Int) /\ Total(ofRest) = SumOver(v, out)
  <2> DEFINE x == Total(ValuesIn(o, m))
  <2>1. x \in Int
    BY <1>4, <1>7, SumOverStep
  <2>2. Total(<<x>>) = x /\ Total(<<>>) = 0
    BY <2>1, SmallTotals
  <2>3. <<x>> \in Seq(Int) /\ <<>> \in Seq(Int)
    BY <2>1
  <2>4. o = <<>> => x = 0
    <3>1. ASSUME o = <<>> PROVE ValuesIn(o, m) = <<>>
      BY <3>1 DEF ValuesIn
    <3> QED  BY <2>2, <3>1
  <2> HIDE DEF x
  <2>5. ofRest = IF o = <<>> THEN <<>> ELSE <<x>>
    BY DEF x
  <2>6. x = SumOver(v, out)
    BY <1>7 DEF x
  <2> HIDE DEF ofRest
  <2> QED  BY <2>2, <2>3, <2>4, <2>5, <2>6
<1> HIDE DEF ofRest
<1>9. Total(bar) = SumOver(v, in) + SumOver(v, out)
  BY <1>1, <1>7, <1>8, TotalOfConcat
<1>10. SumOver(v, at) = SumOver(v, in) + SumOver(v, out)
  <2>1. SumOver(v, in \cup out) = SumOver(v, in) + SumOver(v, out)
    BY <1>3, <1>4, SumOverUnion
  <2> QED  BY <1>3, <2>1
<1>11. ShareTotal(m) = SumOver(v, at)
  <2> DEFINE r == RichRows(m)
             rich == RichAt(m)
  <2>1. rich \in SUBSET DOMAIN rows /\ at \subseteq rich
    BY DEF RichAt, PositiveAt, at
  <2>2. r \in Seq(ToSet(rows)) /\ r = Arranged(rows, rich, Upwards(rich))
    BY RichRowsAreRows, RichRowsIs
  <2>3. ShareTotal(m) = Total(ValuesIn(r, m))
    BY DEF ShareTotal, Mapped, ValuesIn
  <2>4. rows \in Seq(ToSet(rows))
    BY RowsHaveValues
  <2> HIDE DEF r, rich
  <2>5. \E q : q \in Picks(r, rows, rich)
    BY <2>1, <2>2, <2>4, KeptIs, OrderingPicks
  <2>6. Total(ValuesIn(r, m)) = SumOver(v, rich)
    BY <2>1, <2>2, <2>5, ValuesAddUp DEF v
  <2>7. SumOver(v, rich) = SumOver(v, at)
    BY <2>1, PositiveSum DEF v, at
  <2> QED  BY <2>3, <2>6, <2>7
<1> QED  BY <1>9, <1>10, <1>11 DEF bar

\* A sequence followed by nothing that is kept.
LEMMA BarOpens ==
    ASSUME BreakdownTypeOK, NEW m
    PROVE  Filtered(Mapped(ShareBar(m), LAMBDA sg : sg.opens), LAMBDA k : k # Absent)
             = KeysOf(EntitiesOf(m))
<1> DEFINE e == EntitiesOf(m)
           o == OthersOf(m)
           s == KeysOf(e)
           t == IF o = <<>> THEN <<>> ELSE <<Absent>>
           u == s \o t
           at == {n \in DOMAIN u : u[n] # Absent}
           K == {e[n].key : n \in DOMAIN e} \cup {Absent}
           p == [n \in 1..Len(s) |-> n]
<1>1. Mapped(ShareBar(m), LAMBDA sg : sg.opens) = u
  BY BarIs
<1>2. e \in Seq(ToSet(rows))
  BY SegmentsAre
<1>3. \A n \in DOMAIN e : e[n].key # Absent
  <2> SUFFICES ASSUME NEW n \in DOMAIN e PROVE e[n].key # Absent
    OBVIOUS
  <2>1. e[n] \in {rows[j] : j \in DOMAIN rows}
    BY <1>2 DEF ToSet
  <2> HIDE DEF e
  <2>2. PICK j \in DOMAIN rows : e[n] = rows[j]
    BY <2>1
  <2>3. IsRow(rows[j])
    BY RowsAreRows
  <2> QED  BY <2>2, <2>3 DEF IsRow
<1>4. s \in Seq(K) /\ Len(s) = Len(e) /\ Len(s) \in Nat /\ \A n \in 1..Len(s) : s[n] # Absent
  <2>1. s = [n \in DOMAIN e |-> e[n].key]
    BY DEF KeysOf, Mapped
  <2>2. DOMAIN e = 1..Len(e) /\ Len(e) \in Nat
    BY <1>2
  <2>3. s \in [1..Len(e) -> K]
    BY <2>1, <2>2
  <2> HIDE DEF s, K
  <2>4. s \in Seq(K) /\ Len(s) = Len(e)
    BY <2>2, <2>3
  <2> QED  BY <1>3, <2>1, <2>2, <2>4
<1>5. t \in Seq(K) /\ Len(t) \in Nat /\ \A n \in 1..Len(t) : t[n] = Absent
  <2>1. Absent \in K
    OBVIOUS
  <2> HIDE DEF K
  <2>2. <<>> \in Seq(K) /\ <<Absent>> \in Seq(K)
    BY <2>1
  <2>3. CASE o = <<>>
    BY <2>2, <2>3
  <2>4. CASE o # <<>>
    BY <2>2, <2>4
  <2> QED  BY <2>3, <2>4
<1> HIDE DEF s, t, K
<1>6. u = [n \in 1..(Len(s) + Len(t)) |-> IF n <= Len(s) THEN s[n] ELSE t[n - Len(s)]]
  BY <1>4, <1>5, ConcatIs
<1>7. at = 1..Len(s)
  <2>1. \A n \in 1..(Len(s) + Len(t)) : n \in 1..Len(s) \/ (~(n <= Len(s)) /\ n - Len(s) \in 1..Len(t))
    BY <1>4, <1>5
  <2>2. \A n \in 1..Len(s) : n <= Len(s) /\ n \in 1..(Len(s) + Len(t))
    BY <1>4, <1>5
  <2>3. \A n \in 1..(Len(s) + Len(t)) : u[n] # Absent <=> n \in 1..Len(s)
    BY <1>4, <1>5, <1>6, <2>1, <2>2
  <2>4. DOMAIN u = 1..(Len(s) + Len(t))
    BY <1>6
  <2> HIDE DEF u
  <2> QED  BY <2>2, <2>3, <2>4
<1>8. \A n \in 1..Len(s) : s[n] = u[n]
  BY <1>4, <1>5, <1>6
<1>9. Filtered(u, LAMBDA k : k # Absent) = Arranged(u, at, Upwards(at))
  BY DEF Filtered
<1> HIDE DEF u, at
<1> DEFINE N == 1..Len(s)
<1>10. p \in [N -> N] /\ \A n \in N : p[n] = n
  OBVIOUS
<1>11. p \in Orderings(s, u, N, Upwards(N))
  <2>1. \A i, j \in N : i <= j => <<p[i], p[j]>> \in Upwards(N)
    BY <1>10 DEF Upwards
  <2>2. \A n \in N : s[n] = u[p[n]]
    BY <1>8, <1>10
  <2> HIDE DEF p
  <2>3. p \in Bijection(1..Len(s), N)
    <3> HIDE DEF N
    <3>1. p \in Bijection(N, N)
      BY <1>10, BijectionIs
    <3> QED  BY <3>1 DEF N
  <2> QED  BY <2>1, <2>2, <2>3 DEF Orderings
<1>12. IsOrder(N, Upwards(N))
  BY <1>4, UpwardsIsOrder
<1> HIDE DEF p, N
<1>13. s = Arranged(u, N, Upwards(N))
  BY <1>4, <1>11, <1>12, OrderingIsArranged
<1> QED  BY <1>1, <1>7, <1>9, <1>13 DEF s, e, N

-----------------------------------------------------------------------------
(***************************************************************************)
(* What is distinct, and sequences one after the other.                    *)
(***************************************************************************)

\* Of numbers there is a smallest.
LEMMA Smallest ==
    ASSUME NEW T \in SUBSET Nat, T # {}
    PROVE  \E x \in T : \A y \in T : x <= y
<1> DEFINE P == {n \in Nat : \A U \in SUBSET Nat : (\E x \in U : x <= n) => \E x \in U : \A y \in U : x <= y}
<1>1. 0 \in P
  OBVIOUS
<1>2. ASSUME NEW n \in Nat, n \in P PROVE n + 1 \in P
  <2> SUFFICES ASSUME NEW U \in SUBSET Nat, NEW x \in U, x <= n + 1
               PROVE  \E z \in U : \A y \in U : z <= y
    OBVIOUS
  <2>1. CASE \E y \in U : y <= n
    BY <1>2, <2>1
  <2>2. CASE ~ \E y \in U : y <= n
    BY <2>2
  <2> QED  BY <2>1, <2>2
<1> HIDE DEF P
<1>3. Nat \subseteq P
  BY <1>1, <1>2, Entries!Induction
<1>4. PICK n : n \in T
  OBVIOUS
<1>5. n \in P /\ n <= n
  BY <1>3, <1>4
<1> QED  BY <1>4, <1>5 DEF P

\* Where each element of s comes first.
FirstAt(s) == {i \in DOMAIN s : \A j \in DOMAIN s : s[j] = s[i] => i <= j}

\* Distinct has each element of a sequence once, where it comes first.
LEMMA DistinctIs ==
    ASSUME NEW A, NEW s \in Seq(A)
    PROVE  LET d == Distinct(s)
           IN  /\ d \in Seq(A) /\ \E r : r \in Orderings(d, s, FirstAt(s), Upwards(FirstAt(s)))
               /\ \A i \in DOMAIN s : \E n \in DOMAIN d : d[n] = s[i]
               /\ \A n \in DOMAIN d : \E i \in DOMAIN s : d[n] = s[i]
               /\ \A k, n \in DOMAIN d : d[k] = d[n] => k = n
<1> DEFINE at == FirstAt(s)
           d == Arranged(s, at, Upwards(at))
<1>1. Distinct(s) = d
  BY DEF Distinct, FirstAt
<1>2. at \in SUBSET DOMAIN s /\ DOMAIN s = 1..Len(s) /\ Len(s) \in Nat
  BY DEF FirstAt
<1>3. \A i, j \in at : s[i] = s[j] => i = j
  <2>1. \A i, j \in at : s[i] = s[j] => i <= j /\ j <= i /\ i \in Int /\ j \in Int
    BY <1>2 DEF FirstAt
  <2> QED  BY <2>1
<1>4. ASSUME NEW i \in DOMAIN s PROVE \E j \in at : s[j] = s[i]
  <2> DEFINE T == {j \in DOMAIN s : s[j] = s[i]}
  <2>1. T \in SUBSET Nat /\ T # {}
    BY <1>2
  <2> HIDE DEF T
  <2>2. PICK j \in T : \A k \in T : j <= k
    BY <2>1, Smallest
  <2> QED  BY <2>2 DEF T, FirstAt
<1> HIDE DEF at
<1>5. d \in Seq(A) /\ \E r : r \in Orderings(d, s, at, Upwards(at))
  BY <1>2, KeptIs
<1> HIDE DEF d
<1>6. PICK r : r \in Orderings(d, s, at, Upwards(at))
  BY <1>5
<1>7. /\ r \in [1..Len(d) -> at] /\ (\A i \in at : \E n \in 1..Len(d) : r[n] = i)
      /\ \A k, n \in 1..Len(d) : r[k] = r[n] => k = n
      /\ \A n \in 1..Len(d) : d[n] = s[r[n]] /\ r[n] \in at
  BY <1>6, PlacesAre
<1>8. DOMAIN d = 1..Len(d)
  BY <1>5
<1>9. \A i \in DOMAIN s : \E n \in DOMAIN d : d[n] = s[i]
  BY <1>4, <1>7, <1>8
<1>10. \A n \in DOMAIN d : \E i \in DOMAIN s : d[n] = s[i]
  BY <1>2, <1>7, <1>8
<1>11. \A k, n \in DOMAIN d : d[k] = d[n] => k = n
  BY <1>3, <1>7, <1>8
<1> QED  BY <1>1, <1>5, <1>9, <1>10, <1>11 DEF at

\* The places in sequences one after the other.
PlacesIn(seqs) == UNION {{i} \X DOMAIN seqs[i] : i \in DOMAIN seqs}
InTurn(at) == {q \in at \X at : q[1][1] < q[2][1] \/ (q[1][1] = q[2][1] /\ q[1][2] <= q[2][2])}
AtPlaces(seqs) == [p \in PlacesIn(seqs) |-> seqs[p[1]][p[2]]]

\* A place is that of a sequence and that of an element in it.
LEMMA PlacesInIs ==
    ASSUME NEW seqs
    PROVE  /\ \A i \in DOMAIN seqs : \A k \in DOMAIN seqs[i] : <<i, k>> \in PlacesIn(seqs)
           /\ \A p \in PlacesIn(seqs) : p = <<p[1], p[2]>> /\ p[1] \in DOMAIN seqs /\ p[2] \in DOMAIN seqs[p[1]]
  BY DEF PlacesIn

\* Flattened has the elements at all places, in their order.
LEMMA FlattenedIs ==
    ASSUME NEW A, NEW seqs \in Seq(Seq(A))
    PROVE  LET at == PlacesIn(seqs)
           IN  /\ IsFiniteSet(at) /\ IsOrder(at, InTurn(at)) /\ \A p \in at : p[1] \in Int /\ p[2] \in Int
               /\ Flattened(seqs) \in Seq(A) /\ \A p \in at : AtPlaces(seqs)[p] \in A
               /\ \E q : q \in Orderings(Flattened(seqs), AtPlaces(seqs), at, InTurn(at))
<1> DEFINE at == PlacesIn(seqs)
           f == AtPlaces(seqs)
           before == InTurn(at)
<1>1. /\ DOMAIN seqs = 1..Len(seqs) /\ Len(seqs) \in Nat
      /\ \A i \in DOMAIN seqs : seqs[i] \in Seq(A)
  OBVIOUS
<1>2. \A i \in DOMAIN seqs : DOMAIN seqs[i] = 1..Len(seqs[i]) /\ Len(seqs[i]) \in Nat /\ IsFiniteSet(DOMAIN seqs[i])
  BY <1>1, Indexes
<1>3. IsFiniteSet(at)
  <2>1. ASSUME NEW i \in DOMAIN seqs PROVE IsFiniteSet({i} \X DOMAIN seqs[i])
    BY <1>2, FS_Singleton, FS_Product
  <2>2. IsFiniteSet({{i} \X DOMAIN seqs[i] : i \in DOMAIN seqs})
    <3> DEFINE g == [i \in DOMAIN seqs |-> {i} \X DOMAIN seqs[i]]
               R == {{i} \X DOMAIN seqs[i] : i \in DOMAIN seqs}
    <3>1. g \in Surjection(DOMAIN seqs, R)
      BY DEF Surjection
    <3>2. IsFiniteSet(DOMAIN seqs)
      BY <1>1, FS_Interval
    <3> HIDE DEF g, R
    <3>3. IsFiniteSet(R)
      BY <3>1, <3>2, FS_Surjection
    <3> QED  BY <3>3 DEF R
  <2> QED  BY <2>1, <2>2, FS_UNION DEF PlacesIn
<1>4. \A p \in at : p = <<p[1], p[2]>> /\ p[1] \in Int /\ p[2] \in Int /\ p[1] \in DOMAIN seqs /\ p[2] \in DOMAIN seqs[p[1]]
  BY <1>1, <1>2, PlacesInIs
<1>5. \A p \in at : f[p] = seqs[p[1]][p[2]] /\ f[p] \in A
  BY <1>1, <1>2, <1>4 DEF AtPlaces
<1> HIDE DEF at
<1>6. \A p, q \in at : <<p, q>> \in before <=> p[1] < q[1] \/ (p[1] = q[1] /\ p[2] <= q[2])
  BY DEF InTurn
<1> HIDE DEF before
<1>7. IsOrder(at, before)
  <2>0. \A p \in at : p[1] \in Int /\ p[2] \in Int
    BY <1>4
  <2>1. \A p \in at : <<p, p>> \in before
    BY <1>6, <2>0
  <2>2. ASSUME NEW p \in at, NEW q \in at PROVE <<p, q>> \in before \/ <<q, p>> \in before
    <3>1. \/ p[1] < q[1] \/ (p[1] = q[1] /\ p[2] <= q[2])
          \/ q[1] < p[1] \/ (q[1] = p[1] /\ q[2] <= p[2])
      BY <2>0
    <3> QED  BY <1>6, <3>1
  <2>4. ASSUME NEW p \in at, NEW q \in at, <<p, q>> \in before, <<q, p>> \in before PROVE p = q
    <3>1. /\ p[1] < q[1] \/ (p[1] = q[1] /\ p[2] <= q[2])
          /\ q[1] < p[1] \/ (q[1] = p[1] /\ q[2] <= p[2])
      BY <1>6, <2>4
    <3>2. p[1] = q[1] /\ p[2] = q[2]
      BY <2>0, <3>1
    <3> QED  BY <1>4, <3>2
  <2>5. ASSUME NEW p \in at, NEW q \in at, NEW r \in at, <<p, q>> \in before, <<q, r>> \in before
        PROVE  <<p, r>> \in before
    <3>1. /\ p[1] < q[1] \/ (p[1] = q[1] /\ p[2] <= q[2])
          /\ q[1] < r[1] \/ (q[1] = r[1] /\ q[2] <= r[2])
      BY <1>6, <2>5
    <3>2. p[1] < r[1] \/ (p[1] = r[1] /\ p[2] <= r[2])
      BY <2>0, <3>1
    <3> QED  BY <1>6, <3>2
  <2> QED  BY <2>1, <2>2, <2>4, <2>5 DEF IsOrder
<1>8. Flattened(seqs) = Arranged(f, at, before)
  BY DEF Flattened, AtPlaces, PlacesIn, InTurn, at, before
<1> DEFINE t == Flattened(seqs)
<1> HIDE DEF f, t
<1>9. t \in Seq({f[p] : p \in at}) /\ \E q : q \in Orderings(t, f, at, before)
  BY <1>3, <1>7, <1>8, ArrangedIs DEF t
<1>10. t \in Seq(A)
  <2>1. t \in [1..Len(t) -> {f[p] : p \in at}] /\ Len(t) \in Nat
    BY <1>9
  <2>2. t \in [1..Len(t) -> A]
    BY <1>5, <2>1
  <2> QED  BY <2>1, <2>2
<1> QED  BY <1>3, <1>4, <1>5, <1>7, <1>9, <1>10 DEF t, at, f, before

-----------------------------------------------------------------------------
(***************************************************************************)
(* The heatmap's rows.                                                     *)
(***************************************************************************)

CellsOf(r, m) == [k \in DOMAIN r.mix |-> [row |-> r.key, col |-> r.mix[k].key, value |-> MetricValue(r.mix[k], m)]]
CellRows(m) == [j \in DOMAIN rows |-> CellsOf(rows[j], m)]
CellPlaces(m) == PlacesIn(CellRows(m))
CellAt(m) == AtPlaces(CellRows(m))
CellValue(m) == [p \in CellPlaces(m) |-> CellAt(m)[p].value]
FilledAt(m) == {p \in CellPlaces(m) : CellValue(m)[p] > 0}
Cells(m) == Filtered(PersonModelCells(m), LAMBDA c : c.value > 0)

\* At each place the cell of a row's mix, with its value of the metric.
LEMMA CellsAt ==
    ASSUME BreakdownTypeOK, NEW m
    PROVE  /\ \A j \in DOMAIN rows : \A k \in DOMAIN rows[j].mix : <<j, k>> \in CellPlaces(m)
           /\ \A p \in CellPlaces(m) :
                /\ p = <<p[1], p[2]>> /\ p[1] \in DOMAIN rows /\ p[2] \in DOMAIN rows[p[1]].mix
                /\ CellAt(m)[p].row = rows[p[1]].key /\ CellAt(m)[p].col = rows[p[1]].mix[p[2]].key
                /\ CellAt(m)[p].value = CellValue(m)[p]
                /\ CellValue(m)[p] = MetricValue(rows[p[1]].mix[p[2]], m) /\ CellValue(m)[p] \in Nat
<1> DEFINE c == CellRows(m)
<1>1. DOMAIN c = DOMAIN rows /\ \A j \in DOMAIN rows : c[j] = CellsOf(rows[j], m)
  BY DEF CellRows
<1>2. ASSUME NEW j \in DOMAIN rows
      PROVE  /\ DOMAIN CellsOf(rows[j], m) = DOMAIN rows[j].mix
             /\ \A k \in DOMAIN rows[j].mix :
                  /\ CellsOf(rows[j], m)[k].row = rows[j].key
                  /\ CellsOf(rows[j], m)[k].col = rows[j].mix[k].key
                  /\ CellsOf(rows[j], m)[k].value = MetricValue(rows[j].mix[k], m)
                  /\ MetricValue(rows[j].mix[k], m) \in Nat
  <2>1. \A k \in DOMAIN rows[j].mix : MetricValue(rows[j].mix[k], m) \in Nat
    <3>1. \A k \in DOMAIN rows[j].mix : Counted(rows[j].mix[k])
      BY RowsAreRows DEF IsRow, CountedAll
    <3> QED  BY <3>1, ValuesAreNumbers
  <2> QED  BY <2>1 DEF CellsOf
<1> HIDE DEF c
<1>3. /\ \A i \in DOMAIN c : \A k \in DOMAIN c[i] : <<i, k>> \in PlacesIn(c)
      /\ \A p \in PlacesIn(c) : p = <<p[1], p[2]>> /\ p[1] \in DOMAIN c /\ p[2] \in DOMAIN c[p[1]]
  BY PlacesInIs
<1>4. \A p \in PlacesIn(c) : AtPlaces(c)[p] = c[p[1]][p[2]]
  BY DEF AtPlaces
<1>5. CellPlaces(m) = PlacesIn(c) /\ CellAt(m) = AtPlaces(c)
  BY DEF CellPlaces, CellAt, c
<1>6. \A p \in CellPlaces(m) : CellValue(m)[p] = CellAt(m)[p].value
  BY DEF CellValue
<1>7. ASSUME NEW j \in DOMAIN rows, NEW k \in DOMAIN rows[j].mix PROVE <<j, k>> \in CellPlaces(m)
  <2>1. j \in DOMAIN c /\ k \in DOMAIN c[j]
    BY <1>1, <1>2
  <2> QED  BY <1>3, <1>5, <2>1
<1>8. ASSUME NEW p \in CellPlaces(m)
      PROVE  /\ p = <<p[1], p[2]>> /\ p[1] \in DOMAIN rows /\ p[2] \in DOMAIN rows[p[1]].mix
             /\ CellAt(m)[p].row = rows[p[1]].key /\ CellAt(m)[p].col = rows[p[1]].mix[p[2]].key
             /\ CellAt(m)[p].value = CellValue(m)[p]
             /\ CellValue(m)[p] = MetricValue(rows[p[1]].mix[p[2]], m) /\ CellValue(m)[p] \in Nat
  <2>1. p = <<p[1], p[2]>> /\ p[1] \in DOMAIN rows /\ p[2] \in DOMAIN CellsOf(rows[p[1]], m)
    BY <1>1, <1>3, <1>5
  <2>2. CellAt(m)[p] = CellsOf(rows[p[1]], m)[p[2]]
    BY <1>1, <1>4, <1>5, <2>1
  <2> QED  BY <1>2, <1>6, <2>1, <2>2
<1> QED  BY <1>7, <1>8

\* The cells of a row.
LEMMA RowOfCells ==
    ASSUME BreakdownTypeOK, NEW m \in Metrics, NEW j \in DOMAIN rows
    PROVE  LET at == {p \in FilledAt(m) : p[1] = j}
           IN  /\ SumOver(CellValue(m), at) = MetricValue(rows[j], m)
               /\ IsFiniteSet(at)
               /\ MetricValue(rows[j], m) > 0 <=> at # {}
<1> DEFINE at == {p \in FilledAt(m) : p[1] = j}
           K == DOMAIN rows[j].mix
           all == {<<j, k>> : k \in K}
           v == CellValue(m)
           w == [k \in K |-> MetricValue(rows[j].mix[k], m)]
           place == [k \in K |-> <<j, k>>]
           sum == MetricValue(rows[j], m)
<1>1. /\ sum = Total(w) /\ IsFiniteSet(K) /\ DOMAIN w = K /\ K = 1..Len(rows[j].mix)
      /\ Len(rows[j].mix) \in Nat
  <2>1. IsRow(rows[j])
    BY RowsAreRows
  <2>2. sum = Total(Mapped(rows[j].mix, LAMBDA e : MetricValue(e, m)))
    BY <2>1 DEF IsRow
  <2>3. rows[j].mix \in Seq(ToSet(rows[j].mix))
    BY <2>1 DEF IsRow, CountedAll
  <2> QED  BY <2>2, <2>3, Indexes DEF Mapped
<1>2. \A k \in K : <<j, k>> \in CellPlaces(m) /\ v[<<j, k>>] = w[k] /\ w[k] \in Nat
  <2> SUFFICES ASSUME NEW k \in K PROVE <<j, k>> \in CellPlaces(m) /\ v[<<j, k>>] = w[k] /\ w[k] \in Nat
    OBVIOUS
  <2>1. <<j, k>> \in CellPlaces(m) /\ <<j, k>>[1] = j /\ <<j, k>>[2] = k
    BY CellsAt
  <2>2. v[<<j, k>>] = MetricValue(rows[j].mix[k], m) /\ v[<<j, k>>] \in Nat
    BY <2>1, CellsAt
  <2> QED  BY <2>1, <2>2
<1>3. all \subseteq CellPlaces(m) /\ at \in SUBSET all /\ (\A p \in all : v[p] \in Nat) /\ \A p \in all \ at : v[p] = 0
  <2>1. all \subseteq CellPlaces(m) /\ \A p \in all : v[p] \in Nat
    BY <1>2
  <2>2. ASSUME NEW p \in at PROVE p \in all
    <3>1. p \in CellPlaces(m) /\ p[1] = j
      BY DEF FilledAt
    <3>2. p = <<p[1], p[2]>> /\ p[2] \in DOMAIN rows[p[1]].mix
      BY <3>1, CellsAt
    <3> QED  BY <3>1, <3>2
  <2>3. ASSUME NEW p \in all \ at PROVE v[p] = 0
    <3>1. p \in CellPlaces(m) /\ p[1] = j /\ v[p] \in Nat
      BY <2>1
    <3>2. ~(v[p] > 0)
      BY <3>1 DEF FilledAt
    <3> QED  BY <3>1, <3>2
  <2> QED  BY <2>1, <2>2, <2>3
<1>4. place \in Bijection(K, all)
  <2>1. place \in [K -> all] /\ (\A k, l \in K : place[k] = place[l] => k = l)
        /\ \A p \in all : \E k \in K : place[k] = p
    OBVIOUS
  <2> HIDE DEF place, all, K
  <2> QED  BY <2>1, BijectionIs
<1>5. \A k \in K : w[k] = v[place[k]]
  BY <1>2
<1>6. w \in Seq(Int)
  <2>1. \A k \in 1..Len(rows[j].mix) : w[k] \in Int
    <3> HIDE DEF w, K
    <3>1. \A k \in K : w[k] \in Int
      <4> SUFFICES ASSUME NEW k \in K PROVE w[k] \in Int
        OBVIOUS
      <4>1. w[k] \in Nat
        BY <1>2, Zenon
      <4> QED  BY <4>1
    <3> QED  BY <1>1, <3>1
  <2>2. w = [k \in 1..Len(rows[j].mix) |-> w[k]]
    BY <1>1
  <2> HIDE DEF w
  <2> QED  BY <1>1, <2>1, <2>2
<1> HIDE DEF w, v, place, at, all
<1>7. sum = SumOver(w, K)
  BY <1>1, <1>6, TotalIs
<1>8. \A p \in all : v[p] \in Int
  BY <1>3
<1> HIDE DEF K, sum
<1>9. SumOver(w, K) = SumOver(v, all)
  BY <1>1, <1>4, <1>5, <1>8, SumOverImage
<1>10. IsFiniteSet(all)
  BY <1>1, <1>4, FS_Surjection DEF Bijection
<1>11. SumOver(v, all) = SumOver(v, at) /\ IsFiniteSet(at)
  BY <1>3, <1>8, <1>10, SumOverPart, FS_Subset
<1>12. sum > 0 <=> at # {}
  <2>1. CASE at = {}
    <3>1. SumOver(v, {}) = 0
      BY FS_EmptySet, SumOverStep
    <3> QED  BY <1>7, <1>9, <1>11, <2>1, <3>1
  <2>2. CASE at # {}
    <3>1. PICK p \in at : TRUE
      BY <2>2
    <3>2. v[p] > 0 /\ v[p] \in Nat
      BY <1>3 DEF at, v, FilledAt
    <3>3. v[p] <= SumOver(v, at) /\ SumOver(v, at) \in Nat
      <4>1. \A q \in at : v[q] \in Nat
        BY <1>3
      <4> QED  BY <1>11, <4>1, SumOverNats
    <3> QED  BY <1>7, <1>9, <1>11, <2>2, <3>2, <3>3
  <2> QED  BY <2>1, <2>2
<1> QED  BY <1>7, <1>9, <1>11, <1>12 DEF at, v, sum

\* What is summed along an axis of the heatmap: the values of the cells with a key.
ValuesOf(cells) == [n \in DOMAIN cells |-> cells[n].value]
KeysAlong(cells, axis) == [n \in DOMAIN cells |-> cells[n][axis]]
Along(cells, axis, k) == {n \in DOMAIN cells : cells[n][axis] = k}
SumAlong(cells, axis, k) == SumOver(ValuesOf(cells), Along(cells, axis, k))
KeysIn(cells, axis) == Distinct(KeysAlong(cells, axis))
Singles(cells, axis) ==
    [n \in DOMAIN KeysIn(cells, axis) |->
        [keys |-> {KeysIn(cells, axis)[n]}, total |-> SumAlong(cells, axis, KeysIn(cells, axis)[n])]]
TotalsOf(s) == [n \in DOMAIN s |-> s[n].total]

\* The sum of the cells that are kept.
LEMMA KeptSum ==
    ASSUME NEW C, NEW cells \in Seq(C), \A n \in DOMAIN cells : cells[n].value \in Nat,
           NEW at \in SUBSET DOMAIN cells
    PROVE  /\ Total(ValuesOf(Arranged(cells, at, Upwards(at)))) = SumOver(ValuesOf(cells), at)
           /\ SumOver(ValuesOf(cells), at) \in Nat
<1> DEFINE v == ValuesOf(cells)
           t == Arranged(cells, at, Upwards(at))
           u == ValuesOf(t)
<1>1. \A n \in DOMAIN cells : v[n] \in Nat /\ v[n] = cells[n].value
  BY DEF ValuesOf
<1>2. t \in Seq(C) /\ IsFiniteSet(at) /\ \E p : p \in Orderings(t, cells, at, Upwards(at))
  BY KeptIs
<1> HIDE DEF v, t
<1>3. PICK p : p \in Orderings(t, cells, at, Upwards(at))
  BY <1>2
<1>4. p \in Picks(t, cells, at) /\ \A n \in 1..Len(t) : t[n] = cells[p[n]] /\ p[n] \in at
  BY <1>3, OrderingPicks, PlacesAre
<1>5. DOMAIN t = 1..Len(t) /\ Len(t) \in Nat
  BY <1>2
<1>6. DOMAIN u = DOMAIN t /\ u = [n \in DOMAIN u |-> u[n]] /\ \A n \in DOMAIN u : u[n] = t[n].value
  BY DEF ValuesOf
<1> HIDE DEF u
<1>7. \A n \in DOMAIN u : u[n] = v[p[n]]
  BY <1>1, <1>4, <1>5, <1>6
<1>8. \A n \in at : v[n] \in Int
  BY <1>1
<1>9. Total(u) = SumOver(v, at)
  BY <1>4, <1>5, <1>6, <1>7, <1>8, TotalOfPicks
<1>10. SumOver(v, at) \in Nat
  <2>1. \A n \in at : v[n] \in Nat
    BY <1>1
  <2> QED  BY <1>2, <2>1, SumOverNats
<1> QED  BY <1>9, <1>10 DEF u, t, v

\* The keys there are along an axis, each with what is in its cells, the largest first.
LEMMA RankedIs ==
    ASSUME NEW C, NEW cells \in Seq(C), \A n \in DOMAIN cells : cells[n].value \in Nat, NEW axis
    PROVE  LET d == KeysIn(cells, axis)
               s == Singles(cells, axis)
               D == DOMAIN s
               less == Descending(TotalsOf(s))
           IN  /\ D = 1..Len(d) /\ Len(d) \in Nat /\ DOMAIN d = D /\ s = [n \in D |-> s[n]]
               /\ \A n \in D : /\ s[n] = [keys |-> {d[n]}, total |-> SumAlong(cells, axis, d[n])]
                               /\ TotalsOf(s)[n] = s[n].total /\ s[n].total \in Nat
               /\ RankedPositive(cells, axis) = Arranged(s, D, Stable(D, less))
               /\ IsWeakOrder(D, less)
               /\ \A i, j \in D : <<i, j>> \in less <=> s[i].total > s[j].total
<1> DEFINE d == KeysIn(cells, axis)
           s == Singles(cells, axis)
           D == DOMAIN s
           tot == TotalsOf(s)
           less == Descending(tot)
           K == KeysAlong(cells, axis)
           sum(k) == Total(Mapped(Filtered(cells, LAMBDA c : c[axis] = k), LAMBDA c : c.value))
           base == Mapped(Distinct(Mapped(cells, LAMBDA c : c[axis])), LAMBDA k : [keys |-> {k}, total |-> sum(k)])
<1>1. \A k : sum(k) = SumAlong(cells, axis, k) /\ SumAlong(cells, axis, k) \in Nat
  <2> SUFFICES ASSUME NEW k PROVE sum(k) = SumAlong(cells, axis, k) /\ SumAlong(cells, axis, k) \in Nat
    OBVIOUS
  <2> DEFINE at == Along(cells, axis, k)
             t == Arranged(cells, at, Upwards(at))
  <2>1. Filtered(cells, LAMBDA c : c[axis] = k) = t
    BY DEF Filtered, Along
  <2>2. Mapped(t, LAMBDA c : c.value) = ValuesOf(t)
    BY DEF Mapped, ValuesOf
  <2>3. sum(k) = Total(ValuesOf(t))
    BY <2>1, <2>2
  <2>4. at \in SUBSET DOMAIN cells
    BY DEF Along
  <2> HIDE DEF at
  <2>5. Total(ValuesOf(t)) = SumOver(ValuesOf(cells), at) /\ SumOver(ValuesOf(cells), at) \in Nat
    BY <2>4, KeptSum
  <2> QED  BY <2>3, <2>5 DEF SumAlong, at
<1>2. K \in Seq(ToSet(K)) /\ DOMAIN K = DOMAIN cells
  <2>1. DOMAIN cells = 1..Len(cells) /\ Len(cells) \in Nat
    OBVIOUS
  <2>2. K = [n \in 1..Len(cells) |-> K[n]] /\ DOMAIN K = 1..Len(cells)
    BY <2>1 DEF KeysAlong
  <2> HIDE DEF K
  <2> QED  BY <2>1, <2>2 DEF ToSet
<1>3. Mapped(cells, LAMBDA c : c[axis]) = K
  BY DEF Mapped, KeysAlong
<1>4. d = Distinct(K)
  BY DEF KeysIn
<1>5. d \in Seq(ToSet(K))
  <2> HIDE DEF d, K
  <2> QED  BY <1>2, <1>4, DistinctIs
<1>6. DOMAIN d = 1..Len(d) /\ Len(d) \in Nat
  BY <1>5
<1>7. s = [n \in DOMAIN d |-> [keys |-> {d[n]}, total |-> SumAlong(cells, axis, d[n])]]
  BY DEF Singles
<1>8. base = s
  <2>1. base = [n \in DOMAIN d |-> [keys |-> {d[n]}, total |-> sum(d[n])]]
    <3> DEFINE e == Distinct(Mapped(cells, LAMBDA c : c[axis]))
    <3>1. base = [n \in DOMAIN e |-> [keys |-> {e[n]}, total |-> sum(e[n])]]
      BY DEF Mapped
    <3>2. e = d
      <4> HIDE DEF d, K
      <4> QED  BY <1>3, <1>4
    <3> HIDE DEF d, e, sum, base
    <3> QED  BY <3>1, <3>2
  <2> HIDE DEF sum, base, d, s
  <2> QED  BY <1>1, <1>7, <2>1
<1> HIDE DEF d, K, sum
<1>9. /\ D = DOMAIN d /\ s = [n \in D |-> s[n]]
      /\ \A n \in D : s[n] = [keys |-> {d[n]}, total |-> SumAlong(cells, axis, d[n])]
  BY <1>7
<1>10. \A n \in D : tot[n] = s[n].total /\ s[n].total \in Nat
  <2> HIDE DEF s
  <2> QED  BY <1>1, <1>9 DEF TotalsOf
<1>11. tot \in [D -> Int]
  <2>1. tot = [n \in D |-> tot[n]]
    BY DEF TotalsOf
  <2> HIDE DEF tot, s
  <2> QED  BY <1>10, <2>1
<1> HIDE DEF s, tot, base
<1>12. IsWeakOrder(D, less) /\ \A i, j \in D : <<i, j>> \in less <=> tot[i] > tot[j]
  BY <1>11, NumbersOrder
<1> DEFINE before == {p \in D \X D : s[p[1]].total > s[p[2]].total
                                     \/ (p[1] <= p[2] /\ ~(s[p[2]].total > s[p[1]].total))}
<1>13. RankedPositive(cells, axis) = Arranged(s, D, before)
  <2>1. RankedPositive(cells, axis) = StableSort(base, LAMBDA a, b : a.total > b.total)
    BY DEF RankedPositive, base, sum
  <2>2. StableSort(s, LAMBDA a, b : a.total > b.total) = Arranged(s, D, before)
    BY DEF StableSort
  <2> QED  BY <1>8, <2>1, <2>2
<1>14. \A i, j \in D : <<i, j>> \in less <=> s[i].total > s[j].total
  BY <1>10, <1>12
<1> HIDE DEF less
<1>15. before = Stable(D, less)
  BY <1>14 DEF Stable
<1> QED  BY <1>6, <1>9, <1>10, <1>12, <1>13, <1>14, <1>15 DEF d, s, less, tot

\* All cells of the rows.
CellSet(m) == UNION {{CellsOf(rows[j], m)[k] : k \in DOMAIN rows[j].mix} : j \in DOMAIN rows}

\* The heatmap's cells are those with something in them, in the order of the rows.
LEMMA CellsAre ==
    ASSUME BreakdownTypeOK, NEW m
    PROVE  /\ Cells(m) \in Seq(CellSet(m)) /\ IsFiniteSet(FilledAt(m))
           /\ \E q : q \in Orderings(Cells(m), CellAt(m), FilledAt(m), InTurn(CellPlaces(m)))
           /\ \A n \in DOMAIN Cells(m) : Cells(m)[n].value \in Nat
<1> DEFINE c == CellRows(m)
           A == CellSet(m)
           t == PersonModelCells(m)
           at == CellPlaces(m)
           f == CellAt(m)
           into == FilledAt(m)
           before == InTurn(at)
           T == {n \in DOMAIN t : t[n].value > 0}
           u == Arranged(t, T, Upwards(T))
<1>1. t = Flattened(c)
  BY DEF PersonModelCells, Mapped, CellRows, CellsOf
<1>2. c \in Seq(Seq(A))
  <2>1. DOMAIN rows = 1..Len(rows) /\ Len(rows) \in Nat
    BY RowsHaveValues
  <2>2. ASSUME NEW j \in DOMAIN rows PROVE CellsOf(rows[j], m) \in Seq(A)
    <3> DEFINE x == CellsOf(rows[j], m)
               K == DOMAIN rows[j].mix
    <3>1. DOMAIN x = K /\ x = [k \in K |-> x[k]]
      BY DEF CellsOf
    <3>2. \A k \in K : x[k] \in A
      BY DEF CellSet
    <3>3. K = 1..Len(rows[j].mix) /\ Len(rows[j].mix) \in Nat
      <4>1. rows[j].mix \in Seq(ToSet(rows[j].mix))
        BY RowsAreRows DEF IsRow, CountedAll
      <4> QED  BY <4>1
    <3> HIDE DEF x, A, K
    <3>4. x \in [1..Len(rows[j].mix) -> A]
      BY <3>1, <3>2, <3>3
    <3> QED  BY <3>3, <3>4 DEF x
  <2>3. c = [j \in 1..Len(rows) |-> CellsOf(rows[j], m)]
    BY <2>1 DEF CellRows
  <2> HIDE DEF A, c
  <2>4. c \in [1..Len(rows) -> Seq(A)]
    BY <2>1, <2>2, <2>3
  <2> QED  BY <2>1, <2>4
<1> HIDE DEF A
<1>3. /\ IsFiniteSet(at) /\ t \in Seq(A)
      /\ \E q : q \in Orderings(t, f, at, before)
  BY <1>1, <1>2, FlattenedIs DEF CellPlaces, CellAt
<1>4. \A p \in at : f[p].value = CellValue(m)[p] /\ CellValue(m)[p] \in Nat
  BY CellsAt
<1>5. \A p \in at : p \in into <=> f[p].value > 0
  BY <1>4 DEF FilledAt
<1>6. into \in SUBSET at
  BY DEF FilledAt
<1>7. Cells(m) = u
  BY DEF Cells, Filtered
<1> HIDE DEF t, at, f, into, before
<1>8. PICK q : q \in Orderings(t, f, at, before)
  BY <1>3
<1>9. /\ q \in [1..Len(t) -> at] /\ (\A i \in at : \E n \in 1..Len(t) : q[n] = i)
      /\ \A n \in 1..Len(t) : t[n] = f[q[n]] /\ q[n] \in at
  BY <1>8, PlacesAre
<1>10. DOMAIN t = 1..Len(t) /\ Len(t) \in Nat /\ T \in SUBSET (1..Len(t)) /\ T \in SUBSET DOMAIN t
  BY <1>3
<1>11. (\A n \in T : q[n] \in into) /\ \A i \in into : \E n \in T : q[n] = i
  BY <1>5, <1>6, <1>9, <1>10
<1>13. \A n \in 1..Len(t) : t[n].value \in Nat
  BY <1>4, <1>9
<1> HIDE DEF T
<1>12. \E r : r \in Orderings(u, f, into, before)
  BY <1>8, <1>10, <1>11, FilterOfOrdering
<1>14. u \in Seq(A) /\ u \in Seq({t[n] : n \in T})
  BY <1>3, <1>10, KeptIs
<1>15. \A n \in DOMAIN u : u[n].value \in Nat
  <2>1. \A n \in DOMAIN u : u[n] \in {t[k] : k \in T}
    BY <1>14
  <2> HIDE DEF u
  <2> QED  BY <1>10, <1>13, <2>1
<1>16. IsFiniteSet(into)
  BY <1>3, <1>6, FS_Subset
<1> QED  BY <1>7, <1>12, <1>14, <1>15, <1>16 DEF A, into, f, before, at

\* A row's cells, wherever they come, add up to what the row has.
LEMMA RowAddsUp ==
    ASSUME BreakdownTypeOK, NEW m \in Metrics, NEW j \in DOMAIN rows
    PROVE  SumAlong(Cells(m), "row", rows[j].key) = MetricValue(rows[j], m)
<1> DEFINE c == Cells(m)
           f == CellAt(m)
           v == CellValue(m)
           w == ValuesOf(c)
           S == Along(c, "row", rows[j].key)
           T == {p \in FilledAt(m) : p[1] = j}
<1>1. c \in Seq(CellSet(m)) /\ \E q : q \in Orderings(c, f, FilledAt(m), InTurn(CellPlaces(m)))
  BY CellsAre
<1>2. PICK q : q \in Orderings(c, f, FilledAt(m), InTurn(CellPlaces(m)))
  BY <1>1
<1>3. /\ q \in [1..Len(c) -> FilledAt(m)] /\ (\A i \in FilledAt(m) : \E n \in 1..Len(c) : q[n] = i)
      /\ \A i, n \in 1..Len(c) : q[i] = q[n] => i = n
      /\ \A n \in 1..Len(c) : c[n] = f[q[n]] /\ q[n] \in FilledAt(m)
  BY <1>2, PlacesAre
<1>4. DOMAIN c = 1..Len(c) /\ IsFiniteSet(DOMAIN c)
  BY <1>1, Indexes
<1>5. \A p \in FilledAt(m) : /\ p[1] \in DOMAIN rows /\ f[p].row = rows[p[1]].key
                             /\ f[p].value = v[p] /\ v[p] \in Nat
  BY CellsAt DEF FilledAt
<1>6. \A i \in DOMAIN rows : rows[i].key = rows[j].key => i = j
  BY RowsAreRows
<1>7. \A n \in DOMAIN c : w[n] = c[n].value
  BY DEF ValuesOf
<1> HIDE DEF c, f, v, w
<1>8. \A n \in DOMAIN c : n \in S <=> q[n] \in T
  <2> SUFFICES ASSUME NEW n \in DOMAIN c PROVE n \in S <=> q[n] \in T
    OBVIOUS
  <2>1. n \in S <=> c[n].row = rows[j].key
    BY DEF Along
  <2>2. c[n].row = rows[q[n][1]].key /\ q[n][1] \in DOMAIN rows /\ q[n] \in FilledAt(m)
    BY <1>3, <1>4, <1>5
  <2>3. c[n].row = rows[j].key <=> q[n][1] = j
    BY <1>6, <2>2
  <2> QED  BY <2>1, <2>2, <2>3
<1>9. S \subseteq DOMAIN c /\ IsFiniteSet(S) /\ T \subseteq FilledAt(m)
  BY <1>4, FS_Subset DEF Along
<1> DEFINE p == [n \in S |-> q[n]]
<1>10. p \in Bijection(S, T)
  <2> HIDE DEF S, T
  <2>1. p \in [S -> T]
    BY <1>8, <1>9
  <2>2. \A i, n \in S : p[i] = p[n] => i = n
    BY <1>3, <1>4, <1>9
  <2>3. \A i \in T : \E n \in S : p[n] = i
    BY <1>3, <1>4, <1>8, <1>9
  <2> HIDE DEF p
  <2> QED  BY <2>1, <2>2, <2>3, BijectionIs
<1>11. \A n \in S : w[n] = v[p[n]]
  BY <1>3, <1>4, <1>5, <1>7, <1>9
<1>12. \A i \in T : v[i] \in Int
  BY <1>5, <1>9
<1> HIDE DEF p, S, T
<1>13. SumOver(w, S) = SumOver(v, T)
  BY <1>9, <1>10, <1>11, <1>12, SumOverImage
<1>14. SumOver(v, T) = MetricValue(rows[j], m)
  BY RowOfCells DEF v, T
<1> QED  BY <1>13, <1>14 DEF SumAlong, w, S, c

\* The rows come with their cells: those with something in them, in their order.
LEMMA RowKeysAre ==
    ASSUME BreakdownTypeOK, NEW m \in Metrics
    PROVE  \E s : s \in Orderings(KeysIn(Cells(m), "row"), [j \in DOMAIN rows |-> rows[j].key],
                                  PositiveAt(m), Upwards(PositiveAt(m)))
<1> DEFINE c == Cells(m)
           f == CellAt(m)
           K == KeysAlong(c, "row")
           d == KeysIn(c, "row")
           key == [j \in DOMAIN rows |-> rows[j].key]
           at == PositiveAt(m)
           filled == FilledAt(m)
<1>1. c \in Seq(CellSet(m)) /\ \E q : q \in Orderings(c, f, filled, InTurn(CellPlaces(m)))
  BY CellsAre
<1>2. PICK q : q \in Orderings(c, f, filled, InTurn(CellPlaces(m)))
  BY <1>1
<1>3. /\ q \in [1..Len(c) -> filled] /\ (\A i \in filled : \E n \in 1..Len(c) : q[n] = i)
      /\ \A n \in 1..Len(c) : c[n] = f[q[n]] /\ q[n] \in filled
      /\ \A i, n \in 1..Len(c) : i <= n => <<q[i], q[n]>> \in InTurn(CellPlaces(m))
  BY <1>2, PlacesAre
<1>4. DOMAIN c = 1..Len(c) /\ Len(c) \in Nat
  BY <1>1
<1>5. \A p \in filled : p[1] \in DOMAIN rows /\ f[p].row = rows[p[1]].key
  BY CellsAt DEF FilledAt
<1>6. \A i, j \in DOMAIN rows : rows[i].key = rows[j].key => i = j
  BY RowsAreRows
<1>7. \A j \in DOMAIN rows : j \in at <=> \E p \in filled : p[1] = j
  <2> SUFFICES ASSUME NEW j \in DOMAIN rows PROVE j \in at <=> \E p \in filled : p[1] = j
    OBVIOUS
  <2>1. MetricValue(rows[j], m) > 0 <=> {p \in filled : p[1] = j} # {}
    BY RowOfCells
  <2> QED  BY <2>1 DEF PositiveAt
<1>8. at \in SUBSET DOMAIN rows /\ DOMAIN rows \in SUBSET Int
  BY RowsHaveValues
<1>9. DOMAIN K = 1..Len(c) /\ \A n \in 1..Len(c) : K[n] = c[n].row
  BY <1>4 DEF KeysAlong
<1>10. K \in Seq(ToSet(K))
  <2>1. K = [n \in 1..Len(c) |-> K[n]]
    BY <1>4 DEF KeysAlong
  <2> HIDE DEF K, c
  <2> QED  BY <1>4, <1>9, <2>1 DEF ToSet
<1>11. d = Distinct(K)
  BY DEF KeysIn
<1> HIDE DEF c, f, filled, K, d, at
<1>12. /\ d \in Seq(ToSet(K)) /\ \E r : r \in Orderings(d, K, FirstAt(K), Upwards(FirstAt(K)))
       /\ \A i \in DOMAIN K : \E n \in DOMAIN d : d[n] = K[i]
       /\ \A k, n \in DOMAIN d : d[k] = d[n] => k = n
  BY <1>10, <1>11, DistinctIs
<1>13. PICK r : r \in Orderings(d, K, FirstAt(K), Upwards(FirstAt(K)))
  BY <1>12
<1>14. /\ DOMAIN d = 1..Len(d) /\ Len(d) \in Nat
       /\ \A n \in 1..Len(d) : d[n] = K[r[n]] /\ r[n] \in 1..Len(c)
       /\ \A i, n \in 1..Len(d) : i <= n => r[i] <= r[n]
  <2>1. \A n \in 1..Len(d) : d[n] = K[r[n]] /\ r[n] \in FirstAt(K)
    BY <1>13, PlacesAre
  <2>2. \A i, n \in 1..Len(d) : i <= n => <<r[i], r[n]>> \in Upwards(FirstAt(K))
    BY <1>13, PlacesAre
  <2>3. \A i \in FirstAt(K) : i \in 1..Len(c)
    BY <1>9 DEF FirstAt
  <2>4. \A i, n \in 1..Len(d) : i <= n => r[i] <= r[n]
    BY <2>2 DEF Upwards
  <2> QED  BY <1>12, <2>1, <2>3, <2>4
<1> DEFINE s == [n \in 1..Len(d) |-> q[r[n]][1]]
<1>15. ASSUME NEW n \in 1..Len(d)
       PROVE  s[n] \in at /\ s[n] \in DOMAIN rows /\ d[n] = rows[s[n]].key
  <2>1. s[n] = q[r[n]][1] /\ r[n] \in 1..Len(c) /\ q[r[n]] \in filled
    BY <1>3, <1>14
  <2>2. K[r[n]] = f[q[r[n]]].row
    BY <1>3, <1>9, <2>1
  <2> QED  BY <1>5, <1>7, <1>14, <2>1, <2>2
<1>16. ASSUME NEW i \in 1..Len(d), NEW n \in 1..Len(d), i <= n PROVE s[i] <= s[n]
  <2>1. r[i] <= r[n] /\ r[i] \in 1..Len(c) /\ r[n] \in 1..Len(c)
    BY <1>14, <1>16
  <2>2. <<q[r[i]], q[r[n]]>> \in InTurn(CellPlaces(m))
    BY <1>3, <2>1
  <2>3. q[r[i]][1] < q[r[n]][1] \/ q[r[i]][1] = q[r[n]][1]
    BY <2>2 DEF InTurn
  <2>4. s[i] \in Int /\ s[n] \in Int /\ s[i] = q[r[i]][1] /\ s[n] = q[r[n]][1]
    BY <1>8, <1>15
  <2> HIDE DEF s
  <2> QED  BY <2>3, <2>4
<1>17. ASSUME NEW j \in at PROVE \E n \in 1..Len(d) : s[n] = j
  <2>1. PICK p \in filled : p[1] = j
    BY <1>7, <1>8
  <2>2. PICK i \in 1..Len(c) : q[i] = p
    BY <1>3
  <2>3. K[i] = rows[j].key
    BY <1>3, <1>5, <1>9, <2>1, <2>2
  <2>4. PICK n \in DOMAIN d : d[n] = K[i]
    BY <1>9, <1>12
  <2>5. n \in 1..Len(d) /\ rows[s[n]].key = rows[j].key /\ s[n] \in DOMAIN rows /\ j \in DOMAIN rows
    BY <1>8, <1>14, <1>15, <2>3, <2>4
  <2> QED  BY <1>6, <2>5
<1>18. \A i, n \in 1..Len(d) : s[i] = s[n] => i = n
  <2> SUFFICES ASSUME NEW i \in 1..Len(d), NEW n \in 1..Len(d), s[i] = s[n] PROVE i = n
    OBVIOUS
  <2>1. d[i] = d[n]
    <3> HIDE DEF s
    <3> QED  BY <1>15
  <2> QED  BY <1>12, <1>14, <2>1
<1>19. s \in [1..Len(d) -> at]
  BY <1>15
<1> HIDE DEF s
<1>20. s \in Bijection(1..Len(d), at)
  BY <1>17, <1>18, <1>19, BijectionIs
<1>21. \A n \in 1..Len(d) : d[n] = key[s[n]]
  BY <1>15
<1>22. \A i, n \in 1..Len(d) : i <= n => <<s[i], s[n]>> \in Upwards(at)
  BY <1>15, <1>16 DEF Upwards
<1>23. s \in Orderings(d, key, at, Upwards(at))
  BY <1>20, <1>21, <1>22 DEF Orderings
<1> QED  BY <1>23 DEF d, at, c

\* A row as the heatmap has it, and as the table does.
HeadOf(m) == [j \in DOMAIN rows |-> [keys |-> {rows[j].key}, total |-> MetricValue(rows[j], m)]]
PairOf(m) == [j \in DOMAIN rows |-> <<{rows[j].key}, MetricValue(rows[j], m)>>]
Heads(m) == RankedPositive(Cells(m), "row")

\* The rows of the heatmap are those with something in them, by value.
LEMMA HeadsByValue ==
    ASSUME BreakdownTypeOK, NEW m \in Metrics
    PROVE  /\ \E A : Heads(m) \in Seq(A)
           /\ \E r : r \in Orderings(Heads(m), HeadOf(m), PositiveAt(m), ByValue(m, PositiveAt(m)))
<1> DEFINE c == Cells(m)
           d == KeysIn(c, "row")
           s == Singles(c, "row")
           D == DOMAIN s
           at == PositiveAt(m)
           v == ValueOf(m)
           less == Descending(v)
           lessOf == Descending(TotalsOf(s))
           key == [j \in DOMAIN rows |-> rows[j].key]
           head == HeadOf(m)
           heads == Heads(m)
<1>1. c \in Seq(CellSet(m)) /\ \A n \in DOMAIN c : c[n].value \in Nat
  BY CellsAre
<1> HIDE DEF c
<1>2. /\ D = 1..Len(d) /\ Len(d) \in Nat /\ DOMAIN d = D /\ s = [n \in D |-> s[n]]
      /\ \A n \in D : s[n] = [keys |-> {d[n]}, total |-> SumAlong(c, "row", d[n])]
      /\ RankedPositive(c, "row") = Arranged(s, D, Stable(D, lessOf))
      /\ IsWeakOrder(D, lessOf)
      /\ \A i, j \in D : <<i, j>> \in lessOf <=> s[i].total > s[j].total
  <2> HIDE DEF d, s
  <2> QED  BY <1>1, RankedIs DEF d, s
<1>3. heads = Arranged(s, D, Stable(D, lessOf))
  BY <1>2 DEF Heads, c
<1>4. \E p : p \in Orderings(d, key, at, Upwards(at))
  BY RowKeysAre DEF c
<1>5. /\ at \in SUBSET DOMAIN rows
      /\ \A j \in DOMAIN rows : v[j] \in Nat /\ v[j] = MetricValue(rows[j], m)
      /\ \A i, j \in DOMAIN rows : <<i, j>> \in less <=> v[i] > v[j]
  BY RowsHaveValues
<1>6. \A j \in DOMAIN rows : SumAlong(c, "row", rows[j].key) = MetricValue(rows[j], m)
  BY RowAddsUp DEF c
<1>7. IsWeakOrder(at, less)
  BY <1>5, ByValueIsOrder
<1>8. \A j \in DOMAIN rows : key[j] = rows[j].key /\ head[j] = [keys |-> {rows[j].key}, total |-> MetricValue(rows[j], m)]
  BY DEF HeadOf
<1> HIDE DEF d, s, key, head, at, less, lessOf, v, heads
<1>9. PICK p : p \in Orderings(d, key, at, Upwards(at))
  BY <1>4
<1>10. /\ p \in Bijection(1..Len(d), at)
       /\ \A n \in 1..Len(d) : d[n] = key[p[n]] /\ p[n] \in at
       /\ \A i, j \in 1..Len(d) : i <= j => <<p[i], p[j]>> \in Upwards(at)
  <2>1. p \in Bijection(1..Len(d), at)
    BY <1>9 DEF Orderings
  <2> QED  BY <1>9, <2>1, PlacesAre
<1>11. s \in Seq({s[n] : n \in D}) /\ Len(s) = Len(d) /\ Len(s) \in Nat
  <2> DEFINE A == {s[n] : n \in D}
  <2>1. s = [n \in 1..Len(d) |-> s[n]] /\ \A n \in 1..Len(d) : s[n] \in A
    BY <1>2
  <2> HIDE DEF A
  <2>2. s \in [1..Len(d) -> A]
    BY <2>1
  <2>3. s \in Seq(A) /\ Len(s) = Len(d)
    BY <1>2, <2>2
  <2> QED  BY <1>2, <2>3 DEF A
<1>12. ASSUME NEW n \in 1..Len(d) PROVE s[n] = head[p[n]] /\ s[n].total = v[p[n]] /\ p[n] \in DOMAIN rows
  <2>1. p[n] \in DOMAIN rows /\ d[n] = rows[p[n]].key
    BY <1>5, <1>8, <1>10
  <2>2. SumAlong(c, "row", d[n]) = MetricValue(rows[p[n]], m)
    BY <1>6, <2>1
  <2>3. s[n] = [keys |-> {d[n]}, total |-> SumAlong(c, "row", d[n])]
    BY <1>2
  <2>4. head[p[n]] = [keys |-> {rows[p[n]].key}, total |-> MetricValue(rows[p[n]], m)] /\ v[p[n]] = MetricValue(rows[p[n]], m)
    BY <1>5, <1>8, <2>1
  <2> QED  BY <2>1, <2>2, <2>3, <2>4
<1>13. p \in Orderings(s, head, at, Upwards(at))
  <2>1. \A n \in 1..Len(s) : s[n] = head[p[n]]
    BY <1>11, <1>12
  <2> QED  BY <1>10, <1>11, <2>1 DEF Orderings
<1>14. \A i, j \in 1..Len(s) : <<i, j>> \in lessOf <=> <<p[i], p[j]>> \in less
  <2> SUFFICES ASSUME NEW i \in 1..Len(s), NEW j \in 1..Len(s) PROVE <<i, j>> \in lessOf <=> <<p[i], p[j]>> \in less
    OBVIOUS
  <2>1. i \in 1..Len(d) /\ j \in 1..Len(d) /\ i \in D /\ j \in D
    BY <1>2, <1>11
  <2>2. <<i, j>> \in lessOf <=> s[i].total > s[j].total
    BY <1>2, <2>1
  <2>3. s[i].total = v[p[i]] /\ s[j].total = v[p[j]] /\ p[i] \in DOMAIN rows /\ p[j] \in DOMAIN rows
    BY <1>12, <2>1
  <2>4. <<p[i], p[j]>> \in less <=> v[p[i]] > v[p[j]]
    BY <1>5, <2>3
  <2> QED  BY <2>2, <2>3, <2>4
<1> DEFINE u == Arranged(s, 1..Len(s), Stable(1..Len(s), lessOf))
<1>15. \E r : r \in Orderings(u, head, at, Stable(at, less))
  BY <1>7, <1>11, <1>13, <1>14, SortOfOrdering
<1>16. u = heads
  BY <1>2, <1>3, <1>11
<1>17. \E A : heads \in Seq(A)
  <2>1. D = DOMAIN s
    OBVIOUS
  <2>2. heads \in Seq({s[n] : n \in D})
    BY <1>2, <1>3, <1>11, SortedIs
  <2> QED  BY <2>2
<1> HIDE DEF u
<1> QED  BY <1>15, <1>16, <1>17 DEF heads, head, at, less, v, ByValue

\* What is one thing of each row, in the order of the values.
LEMMA PairsArranged ==
    ASSUME BreakdownTypeOK, NEW m, NEW t, NEW A, t \in Seq(A), NEW f,
           NEW r \in Orderings(t, f, PositiveAt(m), ByValue(m, PositiveAt(m))),
           NEW u, DOMAIN u = DOMAIN t, u = [n \in DOMAIN u |-> u[n]],
           \A n \in DOMAIN t : r[n] \in PositiveAt(m) /\ t[n] = f[r[n]] => u[n] = PairOf(m)[r[n]]
    PROVE  u = Arranged(PairOf(m), PositiveAt(m), ByValue(m, PositiveAt(m)))
<1> DEFINE at == PositiveAt(m)
           order == ByValue(m, at)
           g == PairOf(m)
           B == {u[n] : n \in DOMAIN u}
<1>1. DOMAIN t = 1..Len(t) /\ Len(t) \in Nat
  OBVIOUS
<1>2. IsOrder(at, order)
  <2>1. at \in SUBSET DOMAIN rows
    BY RowsHaveValues
  <2> HIDE DEF at
  <2> QED  BY <2>1, ByValueIsOrder
<1>3. \A n \in DOMAIN t : r[n] \in at /\ t[n] = f[r[n]] => u[n] = g[r[n]]
  OBVIOUS
<1>4. r \in Orderings(t, f, at, order)
  OBVIOUS
<1> HIDE DEF at, order, g
<1>5. \A n \in 1..Len(t) : t[n] = f[r[n]] /\ r[n] \in at
  BY <1>4, PlacesAre
<1>6. u \in Seq(B) /\ Len(u) = Len(t)
  <2>1. u = [n \in 1..Len(t) |-> u[n]] /\ \A n \in 1..Len(t) : u[n] \in B
    BY <1>1
  <2> HIDE DEF B
  <2>2. u \in [1..Len(t) -> B]
    BY <2>1
  <2> QED  BY <1>1, <2>2
<1>7. r \in Orderings(u, g, at, order)
  <2>1. \A n \in 1..Len(t) : u[n] = g[r[n]]
    BY <1>1, <1>3, <1>5
  <2> QED  BY <1>4, <1>6, <2>1 DEF Orderings
<1> HIDE DEF B
<1>8. u = Arranged(g, at, order)
  BY <1>2, <1>6, <1>7, OrderingIsArranged
<1> QED  BY <1>8 DEF g, at, order

\* The heatmap's rows are the table's, in the table's order: both arrange the same
\* values at the same indexes in one order.
LEMMA HeadsAreShown ==
    ASSUME BreakdownTypeOK, NEW m \in Metrics
    PROVE  Mapped(Heads(m), LAMBDA h : <<h.keys, h.total>>)
             = Mapped(ShownValues(m), LAMBDA r : <<{r.key}, MetricValue(r, m)>>)
<1> DEFINE heads == Heads(m)
           shown == ShownValues(m)
           at == PositiveAt(m)
           order == ByValue(m, at)
           a == Mapped(heads, LAMBDA h : <<h.keys, h.total>>)
           b == Mapped(shown, LAMBDA r : <<{r.key}, MetricValue(r, m)>>)
<1>0. at \in SUBSET DOMAIN rows
  BY RowsHaveValues
<1>1. PICK A : heads \in Seq(A)
  BY HeadsByValue
<1>2. PICK p : p \in Orderings(heads, HeadOf(m), at, order)
  BY HeadsByValue
<1>3. shown \in Seq(ToSet(rows))
  BY ShownByValue
<1>4. PICK q : q \in Orderings(shown, rows, at, order)
  BY ShownByValue
<1>5. /\ DOMAIN a = DOMAIN heads /\ a = [n \in DOMAIN a |-> a[n]]
      /\ \A n \in DOMAIN heads : a[n] = <<heads[n].keys, heads[n].total>>
  BY DEF Mapped
<1>6. /\ DOMAIN b = DOMAIN shown /\ b = [n \in DOMAIN b |-> b[n]]
      /\ \A n \in DOMAIN shown : b[n] = <<{shown[n].key}, MetricValue(shown[n], m)>>
  BY DEF Mapped
<1> HIDE DEF a, b, heads, shown
<1>7. \A j \in at : /\ PairOf(m)[j] = <<{rows[j].key}, MetricValue(rows[j], m)>>
                    /\ HeadOf(m)[j] = [keys |-> {rows[j].key}, total |-> MetricValue(rows[j], m)]
  BY <1>0 DEF PairOf, HeadOf
<1>8. \A n \in DOMAIN heads : p[n] \in at /\ heads[n] = HeadOf(m)[p[n]] => a[n] = PairOf(m)[p[n]]
  <2> SUFFICES ASSUME NEW n \in DOMAIN heads, p[n] \in at, heads[n] = HeadOf(m)[p[n]] PROVE a[n] = PairOf(m)[p[n]]
    OBVIOUS
  <2>1. heads[n] = [keys |-> {rows[p[n]].key}, total |-> MetricValue(rows[p[n]], m)]
    BY <1>7
  <2>2. heads[n].keys = {rows[p[n]].key} /\ heads[n].total = MetricValue(rows[p[n]], m)
    BY <2>1
  <2> QED  BY <1>5, <1>7, <2>2
<1>9. \A n \in DOMAIN shown : q[n] \in at /\ shown[n] = rows[q[n]] => b[n] = PairOf(m)[q[n]]
  BY <1>6, <1>7
<1>10. a = Arranged(PairOf(m), at, order)
  BY <1>1, <1>2, <1>5, <1>8, PairsArranged
<1>11. b = Arranged(PairOf(m), at, order)
  BY <1>3, <1>4, <1>6, <1>9, PairsArranged
<1> QED  BY <1>10, <1>11 DEF a, b, heads, shown

\* The share bar, the table and the heatmap agree, as each arranges the rows with a
\* value in the order of the values, and an order has one arrangement.
LEMMA OneOrder == ASSUME BreakdownTypeOK PROVE ViewsAgree
<1> DEFINE m == metric
           shown == SortRichRows(m, DefaultSort)
           positive == Filtered(shown, LAMBDA r : MetricValue(r, m) > 0)
           bar == ShareBar(m)
           heads == Heatmap(m).heads
<1>1. m \in Metrics
  BY DEF BreakdownTypeOK
<1>2. positive = ShownValues(m)
  BY DEF ShownValues
<1>3. heads = Heads(m)
  BY DEF Heatmap, BuildHeatmap, Heads, Cells
<1>4. Total(Mapped(bar, LAMBDA sg : sg.value)) = ShareTotal(m)
  BY BarAddsUp
<1>5. Filtered(Mapped(bar, LAMBDA sg : sg.opens), LAMBDA k : k # Absent)
        = KeysOf(Filtered(positive, LAMBDA r : slots[r.key] # Absent))
  <2>1. Filtered(Mapped(bar, LAMBDA sg : sg.opens), LAMBDA k : k # Absent) = KeysOf(EntitiesOf(m))
    BY BarOpens
  <2>2. EntitiesOf(m) = Filtered(ShownValues(m), LAMBDA r : slots[r.key] # Absent)
    BY EntitiesAreShown
  <2> HIDE DEF positive, bar
  <2> QED  BY <1>2, <2>1, <2>2
<1>6. Mapped(heads, LAMBDA h : <<h.keys, h.total>>)
        = Mapped(positive, LAMBDA r : <<{r.key}, MetricValue(r, m)>>)
  <2>1. Mapped(Heads(m), LAMBDA h : <<h.keys, h.total>>)
             = Mapped(ShownValues(m), LAMBDA r : <<{r.key}, MetricValue(r, m)>>)
    BY <1>1, HeadsAreShown
  <2> HIDE DEF positive, heads, m
  <2> QED  BY <1>2, <1>3, <2>1
<1> QED  BY <1>4, <1>5, <1>6 DEF ViewsAgree

\* The share bar, the table and the heatmap give an entity the same share and order
\* their entities alike, for all responses and colors (share.ts, richRows.ts, heatmap.ts).
THEOREM ViewsAgreeHolds == BreakdownSpec => []ViewsAgree
  BY BreakdownTypeCorrect, OneOrder, PTL

-----------------------------------------------------------------------------
(***************************************************************************)
(* Parts of a sum.                                                         *)
(***************************************************************************)

\* A sum taken part by part.
LEMMA SumByParts ==
    ASSUME NEW v, NEW S, IsFiniteSet(S), \A n \in S : v[n] \in Int, NEW J, IsFiniteSet(J),
           NEW part, \A j \in J : part[j] \in SUBSET S, \A n \in S : \E j \in J : n \in part[j],
           \A i, j \in J : \A n \in S : n \in part[i] /\ n \in part[j] => i = j,
           NEW sums, \A j \in J : sums[j] = SumOver(v, part[j])
    PROVE  SumOver(sums, J) = SumOver(v, S)
<1> DEFINE within(T) == {n \in S : \E j \in T : n \in part[j]}
           P == {T \in SUBSET J : SumOver(sums, T) = SumOver(v, within(T))}
<1>1. {} \in P
  <2>1. within({}) = {} /\ IsFiniteSet({})
    BY FS_EmptySet
  <2>2. SumOver(sums, {}) = 0 /\ SumOver(v, {}) = 0
    BY <2>1, SumOverStep
  <2> HIDE DEF within
  <2> QED  BY <2>1, <2>2
<1>2. ASSUME NEW T \in SUBSET J, NEW x \in J \ T, T \in P PROVE T \cup {x} \in P
  <2> DEFINE a == within(T)
             b == part[x]
  <2>1. within(T \cup {x}) = a \cup b /\ a \cap b = {} /\ a \in SUBSET S /\ b \in SUBSET S
    OBVIOUS
  <2>2. \A j \in J : sums[j] \in Int
    <3> SUFFICES ASSUME NEW j \in J PROVE sums[j] \in Int
      OBVIOUS
    <3> DEFINE U == part[j]
    <3>1. U \in SUBSET S /\ sums[j] = SumOver(v, U)
      OBVIOUS
    <3> HIDE DEF U
    <3>2. IsFiniteSet(U) /\ \A n \in U : v[n] \in Int
      BY <3>1, FS_Subset
    <3>3. SumOver(v, U) \in Int
      BY <3>2, SumOverStep
    <3> QED  BY <3>1, <3>3
  <2>3. sums[x] = SumOver(v, b) /\ SumOver(sums, T) = SumOver(v, a)
    BY <1>2
  <2>4. IsFiniteSet(T) /\ x \notin T /\ \A j \in T \cup {x} : sums[j] \in Int
    BY <2>2, FS_Subset
  <2>5. SumOver(sums, T \cup {x}) = sums[x] + SumOver(sums, T)
    BY <2>4, SumOverGrows
  <2> HIDE DEF a, b
  <2>6. IsFiniteSet(a) /\ IsFiniteSet(b) /\ \A n \in a \cup b : v[n] \in Int
    BY <2>1, FS_Subset
  <2>7. SumOver(v, a \cup b) = SumOver(v, a) + SumOver(v, b)
    BY <2>1, <2>6, SumOverUnion
  <2>8. SumOver(v, a) \in Int /\ SumOver(v, b) \in Int
    <3>1. (\A n \in a : v[n] \in Int) /\ \A n \in b : v[n] \in Int
      BY <2>6
    <3> QED  BY <2>6, <3>1, SumOverStep
  <2>9. SumOver(sums, T \cup {x}) = SumOver(v, within(T \cup {x}))
    <3>1. SumOver(v, within(T \cup {x})) = SumOver(v, a \cup b)
      BY <2>1
    <3> HIDE DEF within
    <3>2. SumOver(sums, T \cup {x}) = SumOver(v, b) + SumOver(v, a)
      BY <2>3, <2>5
    <3>3. SumOver(v, b) + SumOver(v, a) = SumOver(v, a) + SumOver(v, b)
      BY <2>8
    <3> QED  BY <2>7, <3>1, <3>2, <3>3
  <2> QED  BY <2>9
<1> HIDE DEF P
<1>3. J \in P
  BY <1>1, <1>2, SubsetInduction
<1>4. within(J) = S
  OBVIOUS
<1> QED  BY <1>3, <1>4 DEF P

\* The least that the terms are bounded by bounds their sum.
LEMMA SumOverBound ==
    ASSUME NEW v, NEW S, IsFiniteSet(S), \A n \in S : v[n] \in Int,
           NEW k \in Int, NEW b \in Int, \A n \in S : k * v[n] <= b
    PROVE  k * SumOver(v, S) <= b * Cardinality(S)
<1> DEFINE P == {T \in SUBSET S : k * SumOver(v, T) <= b * Cardinality(T)}
<1>1. {} \in P
  <2>1. SumOver(v, {}) = 0 /\ Cardinality({}) = 0
    BY FS_EmptySet, SumOverStep
  <2>2. k * 0 <= b * 0
    OBVIOUS
  <2> QED  BY <2>1, <2>2
<1>2. ASSUME NEW T \in SUBSET S, NEW x \in S \ T, T \in P PROVE T \cup {x} \in P
  <2> DEFINE s == SumOver(v, T)
             n == Cardinality(T)
             y == v[x]
  <2>1. IsFiniteSet(T) /\ x \notin T /\ (\A i \in T \cup {x} : v[i] \in Int) /\ \A i \in T : v[i] \in Int
    BY FS_Subset
  <2>2. SumOver(v, T \cup {x}) = y + s
    BY <2>1, SumOverGrows
  <2>3. Cardinality(T \cup {x}) = n + 1 /\ n \in Nat
    BY <2>1, FS_AddElement, FS_CardinalityType
  <2>4. s \in Int /\ y \in Int
    BY <2>1, SumOverStep
  <2>5. k * s <= b * n /\ k * y <= b
    BY <1>2
  <2> HIDE DEF s, n, y
  <2>6. k * (y + s) <= b * (n + 1)
    <3>1. k * (y + s) = k * y + k * s /\ b * (n + 1) = b * n + b
      BY <2>3, <2>4
    <3>2. k * y \in Int /\ k * s \in Int /\ b * n \in Int
      BY <2>3, <2>4
    <3> QED  BY <2>5, <3>1, <3>2
  <2>7. k * SumOver(v, T \cup {x}) <= b * Cardinality(T \cup {x})
    BY <2>2, <2>3, <2>6
  <2> QED  BY <2>7
<1> HIDE DEF P
<1>3. S \in P
  BY <1>1, <1>2, SubsetInduction
<1> QED  BY <1>3 DEF P

\* The largest of some numbers up to k.
LEMMA Largest ==
    ASSUME NEW k \in Nat, NEW T \in SUBSET (0..k), T # {}
    PROVE  Max(T) \in T /\ \A y \in T : y <= Max(T)
<1> DEFINE U == {k - x : x \in T}
<1>0. \A x \in T : k - x \in Nat /\ x \in Int
  OBVIOUS
<1>1. U \in SUBSET Nat /\ U # {}
  BY <1>0
<1>2. \A x \in T : k - x \in U /\ x \in Int
  BY <1>0
<1>3. \A u \in U : \E x \in T : u = k - x
  OBVIOUS
<1> HIDE DEF U
<1>4. PICK u \in U : \A y \in U : u <= y
  BY <1>1, Smallest
<1>5. PICK x \in T : u = k - x
  BY <1>3
<1>6. \A y \in T : x >= y
  <2> SUFFICES ASSUME NEW y \in T PROVE x >= y
    OBVIOUS
  <2>1. k - x <= k - y /\ x \in Int /\ y \in Int
    BY <1>2, <1>4, <1>5
  <2> QED  BY <2>1
<1>7. Max(T) \in T /\ \A y \in T : Max(T) >= y
  BY <1>6 DEF Max
<1>8. \A y \in T : y \in Int
  BY <1>2
<1> QED  BY <1>7, <1>8

\* A cell is drawn when there is something in it, and the largest are the darkest.
LEMMA BinIs ==
    ASSUME NEW val \in Nat, NEW max \in Nat, val <= max
    PROVE  /\ val > 0 <=> HeatBin(val, max) >= 0
           /\ val = max /\ val > 0 => HeatBin(val, max) = 5
<1> DEFINE T == {b \in 0..5 : b * b * max <= 36 * val}
<1>1. CASE val = 0
  BY <1>1 DEF HeatBin
<1>2. CASE val > 0
  <2>1. HeatBin(val, max) = Max(T)
    BY <1>2 DEF HeatBin
  <2>2. T \in SUBSET (0..5) /\ 0 \in T
    OBVIOUS
  <2>3. val = max => 5 \in T
    OBVIOUS
  <2> HIDE DEF T
  <2>4. Max(T) \in T /\ \A y \in T : y <= Max(T)
    BY <2>2, Largest
  <2>5. Max(T) \in 0..5 /\ (val = max => 5 <= Max(T))
    BY <2>2, <2>3, <2>4
  <2>6. Max(T) >= 0 /\ (val = max => Max(T) = 5)
    BY <2>5
  <2> QED  BY <1>2, <2>1, <2>6
<1> QED  BY <1>1, <1>2

-----------------------------------------------------------------------------
(***************************************************************************)
(* The heatmap's columns.                                                  *)
(***************************************************************************)

\* The indexes of a family, and what is at them in each group.
FamilyAt(fam, f) == {n \in DOMAIN fam : fam[n] = f}
GroupsOf(s, fam, d) == [i \in DOMAIN d |-> Arranged(s, FamilyAt(fam, d[i]), Upwards(FamilyAt(fam, d[i])))]

\* Grouping by family loses nothing and repeats nothing.
LEMMA GroupsPick ==
    ASSUME NEW A, NEW s \in Seq(A), NEW fam, fam \in Seq(ToSet(fam)), DOMAIN fam = DOMAIN s
    PROVE  LET t == Flattened(GroupsOf(s, fam, Distinct(fam)))
           IN  t \in Seq(A) /\ Len(t) = Len(s) /\ \E g : g \in Picks(t, s, DOMAIN s)
<1> DEFINE d == Distinct(fam)
           at(i) == FamilyAt(fam, d[i])
           seqs == GroupsOf(s, fam, d)
           t == Flattened(seqs)
           r == [i \in DOMAIN d |-> CHOOSE p : p \in Orderings(seqs[i], s, at(i), Upwards(at(i)))]
           places == PlacesIn(seqs)
           f == AtPlaces(seqs)
           g == [p \in places |-> r[p[1]][p[2]]]
<1>1. /\ d \in Seq(ToSet(fam))
      /\ \A n \in DOMAIN fam : \E i \in DOMAIN d : d[i] = fam[n]
      /\ \A i, j \in DOMAIN d : d[i] = d[j] => i = j
  BY DistinctIs
<1>2. DOMAIN d = 1..Len(d) /\ Len(d) \in Nat /\ DOMAIN s = 1..Len(s) /\ Len(s) \in Nat
  BY <1>1
<1> HIDE DEF d
<1>3. ASSUME NEW i \in DOMAIN d
      PROVE  /\ seqs[i] \in Seq(A) /\ r[i] \in Orderings(seqs[i], s, at(i), Upwards(at(i)))
             /\ DOMAIN seqs[i] = 1..Len(seqs[i])
  <2> DEFINE a == at(i)
             u == Arranged(s, a, Upwards(a))
  <2>1. a \in SUBSET DOMAIN s
    BY DEF FamilyAt
  <2>2. seqs[i] = u
    BY DEF GroupsOf
  <2> HIDE DEF a
  <2>3. u \in Seq(A) /\ \E p : p \in Orderings(u, s, a, Upwards(a))
    BY <2>1, KeptIs
  <2> HIDE DEF u, seqs
  <2>4. r[i] = CHOOSE p : p \in Orderings(seqs[i], s, a, Upwards(a))
    BY DEF a
  <2>5. r[i] \in Orderings(seqs[i], s, a, Upwards(a))
    BY <2>2, <2>3, <2>4
  <2>6. seqs[i] \in Seq(A) /\ DOMAIN seqs[i] = 1..Len(seqs[i])
    BY <2>2, <2>3
  <2> QED  BY <2>5, <2>6 DEF a
<1>4. DOMAIN seqs = DOMAIN d
  BY DEF GroupsOf
<1>5. seqs \in Seq(Seq(A))
  <2>1. seqs = [i \in 1..Len(d) |-> seqs[i]]
    BY <1>2 DEF GroupsOf
  <2> HIDE DEF seqs
  <2>2. seqs \in [1..Len(d) -> Seq(A)]
    BY <1>2, <1>3, <2>1
  <2> QED  BY <1>2, <2>2
<1> HIDE DEF seqs, r
<1>6. ASSUME NEW i \in DOMAIN d
      PROVE  /\ \A k \in DOMAIN seqs[i] : r[i][k] \in DOMAIN s /\ fam[r[i][k]] = d[i] /\ seqs[i][k] = s[r[i][k]]
             /\ \A k, l \in DOMAIN seqs[i] : r[i][k] = r[i][l] => k = l
             /\ \A n \in DOMAIN s : fam[n] = d[i] => \E k \in DOMAIN seqs[i] : r[i][k] = n
  <2>1. \A n : n \in at(i) <=> n \in DOMAIN s /\ fam[n] = d[i]
    BY DEF FamilyAt
  <2> DEFINE a == at(i)
             x == r[i]
             y == seqs[i]
  <2>2. x \in Orderings(y, s, a, Upwards(a)) /\ DOMAIN y = 1..Len(y)
    BY <1>3
  <2> HIDE DEF a, x, y
  <2>3. /\ \A j \in a : \E n \in 1..Len(y) : x[n] = j
        /\ \A j, k \in 1..Len(y) : x[j] = x[k] => j = k
        /\ \A n \in 1..Len(y) : y[n] = s[x[n]] /\ x[n] \in a
    BY <2>2, PlacesAre
  <2>4. \A n : n \in a <=> n \in DOMAIN s /\ fam[n] = d[i]
    BY <2>1 DEF a
  <2>5. /\ \A k \in DOMAIN y : x[k] \in DOMAIN s /\ fam[x[k]] = d[i] /\ y[k] = s[x[k]]
        /\ \A k, l \in DOMAIN y : x[k] = x[l] => k = l
        /\ \A n \in DOMAIN s : fam[n] = d[i] => \E k \in DOMAIN y : x[k] = n
    BY <2>2, <2>3, <2>4
  <2> QED  BY <2>5 DEF x, y
<1>7. t \in Seq(A) /\ \E q : q \in Orderings(t, f, places, InTurn(places))
  BY <1>5, FlattenedIs
<1>8. /\ \A i \in DOMAIN d : \A k \in DOMAIN seqs[i] : <<i, k>> \in places
      /\ \A p \in places : p = <<p[1], p[2]>> /\ p[1] \in DOMAIN d /\ p[2] \in DOMAIN seqs[p[1]]
  <2>1. /\ \A i \in DOMAIN seqs : \A k \in DOMAIN seqs[i] : <<i, k>> \in PlacesIn(seqs)
        /\ \A p \in PlacesIn(seqs) : p = <<p[1], p[2]>> /\ p[1] \in DOMAIN seqs /\ p[2] \in DOMAIN seqs[p[1]]
    BY PlacesInIs
  <2> QED  BY <1>4, <2>1
<1>9. \A p \in places : f[p] = seqs[p[1]][p[2]]
  BY DEF AtPlaces
<1> HIDE DEF places, f, t
<1>10. ASSUME NEW p \in places PROVE g[p] \in DOMAIN s /\ fam[g[p]] = d[p[1]] /\ f[p] = s[g[p]]
  BY <1>6, <1>8, <1>9
<1>11. ASSUME NEW p \in places, NEW q \in places, g[p] = g[q] PROVE p = q
  <2>1. d[p[1]] = d[q[1]] /\ p[1] \in DOMAIN d /\ q[1] \in DOMAIN d
    <3> HIDE DEF g
    <3> QED  BY <1>8, <1>10, <1>11
  <2>2. p[1] = q[1]
    BY <1>1, <2>1
  <2>3. r[p[1]][p[2]] = r[p[1]][q[2]] /\ p[2] \in DOMAIN seqs[p[1]] /\ q[2] \in DOMAIN seqs[p[1]]
    BY <1>8, <1>11, <2>2
  <2>4. p[2] = q[2]
    BY <1>6, <2>1, <2>3
  <2>5. p = <<p[1], p[2]>> /\ q = <<q[1], q[2]>>
    BY <1>8
  <2> QED  BY <2>2, <2>4, <2>5
<1>12. ASSUME NEW n \in DOMAIN s PROVE \E p \in places : g[p] = n
  <2>1. PICK i \in DOMAIN d : d[i] = fam[n]
    BY <1>1
  <2>2. PICK k \in DOMAIN seqs[i] : r[i][k] = n
    BY <1>6, <2>1
  <2>3. <<i, k>> \in places /\ <<i, k>>[1] = i /\ <<i, k>>[2] = k
    BY <1>8
  <2> QED  BY <2>2, <2>3
<1> HIDE DEF g
<1>13. PICK q : q \in Orderings(t, f, places, InTurn(places))
  BY <1>7
<1>14. /\ q \in [1..Len(t) -> places] /\ (\A i \in places : \E n \in 1..Len(t) : q[n] = i)
       /\ \A i, j \in 1..Len(t) : q[i] = q[j] => i = j
       /\ \A n \in 1..Len(t) : t[n] = f[q[n]] /\ q[n] \in places
  BY <1>13, PlacesAre
<1> DEFINE h == [n \in 1..Len(t) |-> g[q[n]]]
           D == DOMAIN s
<1>15. h \in [1..Len(t) -> D]
  BY <1>10, <1>14
<1>16. \A i, j \in 1..Len(t) : h[i] = h[j] => i = j
  BY <1>11, <1>14
<1>17. \A n \in D : \E k \in 1..Len(t) : h[k] = n
  BY <1>12, <1>14
<1>18. \A n \in 1..Len(t) : t[n] = s[h[n]]
  BY <1>10, <1>14
<1> HIDE DEF h
<1>19. h \in Bijection(1..Len(t), D)
  <2> HIDE DEF D
  <2> QED  BY <1>15, <1>16, <1>17, BijectionIs
<1>20. h \in Picks(t, s, D)
  BY <1>18, <1>19, PicksAre
<1>21. Len(t) = Len(s)
  <2>1. Len(t) \in Nat
    BY <1>7
  <2>2. Cardinality(D) = Len(t)
    <3> HIDE DEF D
    <3> QED  BY <1>19, <2>1, Counting
  <2>3. Cardinality(D) = Len(s)
    BY <1>2, Indexes
  <2> QED  BY <2>2, <2>3
<1> QED  BY <1>7, <1>20, <1>21 DEF t, seqs, d

\* So do the columns grouped as buildHeatmap does.
LEMMA GroupedPicks ==
    ASSUME NEW A, NEW s \in Seq(A)
    PROVE  Grouped(s) \in Seq(A) /\ Len(Grouped(s)) = Len(s) /\ \E g : g \in Picks(Grouped(s), s, DOMAIN s)
<1> DEFINE family(c) == Family[CHOOSE k \in c.keys : TRUE]
           fam == [n \in DOMAIN s |-> family(s[n])]
           d == Distinct(fam)
           seqs == Mapped(Distinct(Mapped(s, family)), LAMBDA f : Filtered(s, LAMBDA c : family(c) = f))
           t == Grouped(s)
<1>1. t = Flattened(seqs)
  BY DEF Grouped
<1>2. Mapped(s, family) = fam
  BY DEF Mapped
<1>3. seqs = [i \in DOMAIN d |-> Filtered(s, LAMBDA c : family(c) = d[i])]
  BY <1>2 DEF Mapped
<1> HIDE DEF d, t
<1>4. ASSUME NEW f PROVE Filtered(s, LAMBDA c : family(c) = f) = Arranged(s, FamilyAt(fam, f), Upwards(FamilyAt(fam, f)))
  <2> DEFINE a == {n \in DOMAIN s : family(s[n]) = f}
  <2>1. Filtered(s, LAMBDA c : family(c) = f) = Arranged(s, a, Upwards(a))
    BY DEF Filtered
  <2>2. a = FamilyAt(fam, f)
    <3>1. DOMAIN fam = DOMAIN s /\ \A n \in DOMAIN s : fam[n] = family(s[n])
      OBVIOUS
    <3> HIDE DEF fam, family
    <3> QED  BY <3>1 DEF FamilyAt
  <2> HIDE DEF a, fam
  <2> QED  BY <2>1, <2>2
<1>5. seqs = GroupsOf(s, fam, d)
  <2> HIDE DEF fam, seqs
  <2> QED  BY <1>3, <1>4 DEF GroupsOf
<1>6. fam \in Seq(ToSet(fam)) /\ DOMAIN fam = DOMAIN s
  <2>1. DOMAIN s = 1..Len(s) /\ Len(s) \in Nat
    OBVIOUS
  <2>2. fam = [n \in 1..Len(s) |-> fam[n]] /\ DOMAIN fam = 1..Len(s)
    BY <2>1
  <2> HIDE DEF fam
  <2> QED  BY <2>1, <2>2 DEF ToSet
<1> HIDE DEF fam, seqs
<1>7. t = Flattened(GroupsOf(s, fam, Distinct(fam)))
  BY <1>1, <1>5 DEF d
<1>8. t \in Seq(A) /\ Len(t) = Len(s) /\ \E g : g \in Picks(t, s, DOMAIN s)
  BY <1>6, <1>7, GroupsPick
<1> QED  BY <1>8 DEF t

\* The cells of some keys.
CellsIn(c, axis, keys) == {n \in DOMAIN c : c[n][axis] \in keys}

\* Each cell is in one of the parts, and each part has the total of its cells.
IsSplit(parts, c, axis) ==
    /\ DOMAIN parts = 1..Len(parts) /\ Len(parts) \in Nat
    /\ \A n \in DOMAIN c : \E i \in DOMAIN parts : c[n][axis] \in parts[i].keys
    /\ \A i, j \in DOMAIN parts : \A n \in DOMAIN c :
         c[n][axis] \in parts[i].keys /\ c[n][axis] \in parts[j].keys => i = j
    /\ \A i \in DOMAIN parts : parts[i].total = SumOver(ValuesOf(c), CellsIn(c, axis, parts[i].keys))

\* Cells with values.
IsCells(c, C) == c \in Seq(C) /\ \A n \in DOMAIN c : c[n].value \in Nat

\* Cells by their indexes and values.
LEMMA CellsHaveValues ==
    ASSUME NEW C, NEW c, IsCells(c, C)
    PROVE  /\ DOMAIN c = 1..Len(c) /\ Len(c) \in Nat /\ IsFiniteSet(DOMAIN c)
           /\ \A n \in DOMAIN c : ValuesOf(c)[n] \in Nat /\ ValuesOf(c)[n] = c[n].value
  BY Indexes DEF IsCells, ValuesOf

\* The keys along an axis split the cells, and there is a cell for each.
LEMMA RankedSplits ==
    ASSUME NEW C, NEW c, IsCells(c, C), NEW axis
    PROVE  LET ranked == RankedPositive(c, axis)
           IN  /\ IsSplit(ranked, c, axis) /\ \E A : ranked \in Seq(A)
               /\ \A i \in DOMAIN ranked : \E n \in DOMAIN c : c[n][axis] \in ranked[i].keys
<1> DEFINE ranked == RankedPositive(c, axis)
           d == KeysIn(c, axis)
           s == Singles(c, axis)
           D == DOMAIN s
           less == Descending(TotalsOf(s))
           order == Stable(D, less)
           K == KeysAlong(c, axis)
<1>1. c \in Seq(C) /\ \A n \in DOMAIN c : c[n].value \in Nat
  BY DEF IsCells
<1>2. /\ D = 1..Len(d) /\ Len(d) \in Nat /\ DOMAIN d = D /\ s = [n \in D |-> s[n]]
      /\ \A n \in D : s[n] = [keys |-> {d[n]}, total |-> SumAlong(c, axis, d[n])]
      /\ ranked = Arranged(s, D, order)
      /\ IsWeakOrder(D, less)
  <2> HIDE DEF d, s
  <2> QED  BY <1>1, RankedIs DEF d, s
<1>3. DOMAIN K = DOMAIN c /\ \A n \in DOMAIN c : K[n] = c[n][axis]
  BY DEF KeysAlong
<1>4. K \in Seq(ToSet(K))
  <2>1. DOMAIN c = 1..Len(c) /\ Len(c) \in Nat
    BY <1>1
  <2>2. K = [n \in 1..Len(c) |-> K[n]] /\ DOMAIN K = 1..Len(c)
    BY <2>1 DEF KeysAlong
  <2> HIDE DEF K
  <2> QED  BY <2>1, <2>2 DEF ToSet
<1>5. d = Distinct(K)
  BY DEF KeysIn
<1> HIDE DEF K, d, s, ranked, less
<1>6. /\ \A n \in DOMAIN K : \E i \in DOMAIN d : d[i] = K[n]
      /\ \A i \in DOMAIN d : \E n \in DOMAIN K : d[i] = K[n]
      /\ \A i, j \in DOMAIN d : d[i] = d[j] => i = j
  BY <1>4, <1>5, DistinctIs
<1>7. s \in Seq({s[n] : n \in D})
  <2> DEFINE A == {s[n] : n \in D}
  <2>1. s = [n \in 1..Len(d) |-> s[n]] /\ \A n \in 1..Len(d) : s[n] \in A
    BY <1>2
  <2> HIDE DEF A
  <2>2. s \in [1..Len(d) -> A]
    BY <2>1
  <2> QED  BY <1>2, <2>2 DEF A
<1>8. ranked \in Seq({s[n] : n \in D}) /\ \E p : p \in Orderings(ranked, s, D, order)
  BY <1>2, <1>7, SortedIs
<1>9. PICK p : p \in Orderings(ranked, s, D, order)
  BY <1>8
<1>10. /\ (\A i \in D : \E n \in 1..Len(ranked) : p[n] = i)
       /\ \A i, j \in 1..Len(ranked) : p[i] = p[j] => i = j
       /\ \A n \in 1..Len(ranked) : ranked[n] = s[p[n]] /\ p[n] \in D
  BY <1>9, PlacesAre
<1>11. DOMAIN ranked = 1..Len(ranked) /\ Len(ranked) \in Nat
  BY <1>8
<1>12. \A i \in DOMAIN ranked : /\ ranked[i].keys = {d[p[i]]} /\ p[i] \in D
                               /\ ranked[i].total = SumAlong(c, axis, d[p[i]])
  BY <1>2, <1>10, <1>11
<1>13. \A n \in DOMAIN c : \E i \in DOMAIN ranked : c[n][axis] \in ranked[i].keys
  <2> SUFFICES ASSUME NEW n \in DOMAIN c PROVE \E i \in DOMAIN ranked : c[n][axis] \in ranked[i].keys
    OBVIOUS
  <2>1. PICK k \in DOMAIN d : d[k] = c[n][axis]
    BY <1>3, <1>6
  <2>2. PICK i \in DOMAIN ranked : p[i] = k
    BY <1>2, <1>10, <1>11
  <2> QED  BY <1>12, <2>1, <2>2
<1>14. ASSUME NEW i \in DOMAIN ranked, NEW j \in DOMAIN ranked, NEW n \in DOMAIN c,
              c[n][axis] \in ranked[i].keys, c[n][axis] \in ranked[j].keys
       PROVE  i = j
  <2>1. d[p[i]] = d[p[j]] /\ p[i] \in D /\ p[j] \in D
    BY <1>12, <1>14
  <2>2. p[i] = p[j]
    BY <1>2, <1>6, <2>1
  <2> QED  BY <1>10, <1>11, <2>2
<1>15. ASSUME NEW i \in DOMAIN ranked
       PROVE  ranked[i].total = SumOver(ValuesOf(c), CellsIn(c, axis, ranked[i].keys))
  <2>1. CellsIn(c, axis, {d[p[i]]}) = Along(c, axis, d[p[i]])
    BY DEF CellsIn, Along
  <2> QED  BY <1>12, <2>1 DEF SumAlong
<1>16. ASSUME NEW i \in DOMAIN ranked PROVE \E n \in DOMAIN c : c[n][axis] \in ranked[i].keys
  <2>1. PICK n \in DOMAIN K : d[p[i]] = K[n]
    BY <1>2, <1>6, <1>12
  <2>2. n \in DOMAIN c /\ c[n][axis] = d[p[i]]
    BY <1>3, <2>1
  <2> QED  BY <1>12, <2>2
<1>17. IsSplit(ranked, c, axis)
  BY <1>11, <1>13, <1>14, <1>15 DEF IsSplit
<1> QED  BY <1>8, <1>16, <1>17 DEF ranked

\* The cells in some of the parts, all at once.
LEMMA PartsAddUp ==
    ASSUME NEW C, NEW c, IsCells(c, C), NEW axis, NEW parts, IsSplit(parts, c, axis),
           NEW S \in SUBSET DOMAIN c, NEW J \in SUBSET DOMAIN parts,
           \A n \in S : \E i \in J : c[n][axis] \in parts[i].keys,
           NEW part, \A i \in J : \A n : n \in part[i] <=> n \in S /\ c[n][axis] \in parts[i].keys,
           NEW sums, \A i \in J : sums[i] = SumOver(ValuesOf(c), part[i])
    PROVE  SumOver(sums, J) = SumOver(ValuesOf(c), S)
<1> DEFINE v == ValuesOf(c)
<1>1. DOMAIN parts = 1..Len(parts) /\ Len(parts) \in Nat
  BY DEF IsSplit
<1>2. \A i, j \in DOMAIN parts : \A n \in DOMAIN c :
         c[n][axis] \in parts[i].keys /\ c[n][axis] \in parts[j].keys => i = j
  BY DEF IsSplit
<1>3. \A i \in J : /\ part[i] \in SUBSET S /\ sums[i] = SumOver(v, part[i])
                   /\ \A n \in S : n \in part[i] <=> c[n][axis] \in parts[i].keys
  OBVIOUS
<1>4. \A n \in S : \E i \in J : n \in part[i]
  BY <1>3
<1>5. \A i, j \in J : \A n \in S : n \in part[i] /\ n \in part[j] => i = j
  BY <1>2, <1>3
<1>6. IsFiniteSet(S) /\ \A n \in S : v[n] \in Int
  BY CellsHaveValues, FS_Subset
<1>7. IsFiniteSet(J)
  <2>1. IsFiniteSet(DOMAIN parts)
    BY <1>1, FS_Interval
  <2> QED  BY <2>1, FS_Subset
<1> HIDE DEF v
<1>8. SumOver(sums, J) = SumOver(v, S)
  BY <1>3, <1>4, <1>5, <1>6, <1>7, SumByParts
<1> QED  BY <1>8 DEF v

\* The smaller of two numbers is one of them.
LEMMA MinOfTwo ==
    ASSUME NEW a \in Nat, NEW b \in Nat
    PROVE  Min({a, b}) \in Nat /\ Min({a, b}) <= a /\ Min({a, b}) <= b /\ (Min({a, b}) = a \/ Min({a, b}) = b)
<1>1. \E x \in {a, b} : \A y \in {a, b} : x <= y
  <2>1. CASE a <= b
    BY <2>1
  <2>2. CASE b <= a
    BY <2>2
  <2> QED  BY <2>1, <2>2
<1>2. Min({a, b}) \in {a, b} /\ \A y \in {a, b} : Min({a, b}) <= y
  BY <1>1 DEF Min
<1> QED  BY <1>2

\* The heatmap's columns, the shared one among them, split the cells as well.
LEMMA ColumnsSplit ==
    ASSUME NEW C, NEW c, IsCells(c, C), NEW axis, NEW A, NEW ranked \in Seq(A), IsSplit(ranked, c, axis)
    PROVE  IsSplit(HeatColumns(ranked), c, axis) /\ Len(HeatColumns(ranked)) <= MaxColumns + 1
<1> DEFINE L == Len(ranked)
           N == Min({MaxColumns, L})
           kept == SubSeq(ranked, 1, N)
           rest == SubSeq(ranked, N + 1, L)
           G == Grouped(kept)
           shared == [keys |-> UNION {x.keys : x \in ToSet(rest)}, total |-> Total(Mapped(rest, LAMBDA x : x.total))]
           R == IF rest = <<>> THEN <<>> ELSE <<shared>>
           columns == HeatColumns(ranked)
           v == ValuesOf(c)
           high == (N + 1)..L
<1>1. columns = G \o R
  BY DEF HeatColumns
<1>2. L \in Nat /\ DOMAIN ranked = 1..L
  OBVIOUS
<1>3. N \in Nat /\ N <= L /\ N <= MaxColumns /\ MaxColumns \in Nat
  <2>1. MaxColumns \in Nat
    BY BreakdownAssumption
  <2> HIDE DEF L
  <2> QED  BY <1>2, <2>1, MinOfTwo
<1> HIDE DEF N, L
<1>4. kept \in Seq(A) /\ Len(kept) = N /\ DOMAIN kept = 1..N /\ \A i \in 1..N : kept[i] = ranked[i]
  <2>1. 1 \in 1..(Len(ranked) + 1) /\ N \in (1 - 1)..Len(ranked)
    BY <1>2, <1>3 DEF L
  <2>2. /\ kept \in Seq(A) /\ Len(kept) = N - 1 + 1 /\ \A i \in 1..(N - 1 + 1) : kept[i] = ranked[1 + i - 1]
    BY <2>1, SubSeqProperties
  <2> HIDE DEF kept
  <2> QED  BY <1>3, <2>2
<1>5. /\ rest \in Seq(A) /\ Len(rest) = L - N /\ DOMAIN rest = 1..(L - N)
      /\ \A k \in 1..(L - N) : rest[k] = ranked[N + k]
  <2>1. N + 1 \in 1..(Len(ranked) + 1) /\ L \in ((N + 1) - 1)..Len(ranked)
    BY <1>2, <1>3 DEF L
  <2>2. /\ rest \in Seq(A) /\ Len(rest) = L - (N + 1) + 1
        /\ \A i \in 1..(L - (N + 1) + 1) : rest[i] = ranked[(N + 1) + i - 1]
    BY <2>1, SubSeqProperties
  <2> HIDE DEF rest
  <2> QED  BY <1>2, <1>3, <2>2
<1>6. high \subseteq DOMAIN ranked /\ \A i \in DOMAIN ranked : i \in 1..N \/ i \in high
  BY <1>2, <1>3
<1>7. \A i \in high : i - N \in 1..(L - N) /\ N + (i - N) = i
  BY <1>2, <1>3
<1>8. \A k \in 1..(L - N) : N + k \in high
  BY <1>2, <1>3
<1>9. rest = <<>> <=> high = {}
  <2>1. rest = <<>> <=> L - N = 0
    <3> HIDE DEF rest
    <3> QED  BY <1>2, <1>3, <1>5
  <2>2. L - N = 0 <=> high = {}
    BY <1>2, <1>3
  <2> QED  BY <2>1, <2>2
<1>10. \A x : x \in shared.keys <=> \E i \in high : x \in ranked[i].keys
  <2> HIDE DEF rest, high
  <2>1. ToSet(rest) = {rest[k] : k \in 1..(L - N)}
    BY <1>5 DEF ToSet
  <2>2. \A x : x \in shared.keys <=> \E k \in 1..(L - N) : x \in rest[k].keys
    BY <2>1
  <2> HIDE DEF shared
  <2> QED  BY <1>5, <1>7, <1>8, <2>2
<1>11. G \in Seq(A) /\ Len(G) = N /\ DOMAIN G = 1..N /\ \E g : g \in Picks(G, kept, DOMAIN kept)
  <2> HIDE DEF kept
  <2> QED  BY <1>4, GroupedPicks
<1> HIDE DEF G, kept
<1>12. PICK g : g \in Picks(G, kept, 1..N)
  BY <1>4, <1>11
<1>13. /\ (\A i \in 1..N : \E j \in 1..N : g[j] = i) /\ (\A i, j \in 1..N : g[i] = g[j] => i = j)
       /\ \A j \in 1..N : G[j] = ranked[g[j]] /\ g[j] \in 1..N
  <2>1. /\ (\A i \in 1..N : \E j \in 1..Len(G) : g[j] = i) /\ (\A i, j \in 1..Len(G) : g[i] = g[j] => i = j)
        /\ \A j \in 1..Len(G) : G[j] = kept[g[j]] /\ g[j] \in 1..N
    <3> DEFINE at == 1..N
    <3>1. g \in Orderings(G, kept, at, at \X at)
      BY <1>12 DEF Picks
    <3> HIDE DEF at
    <3>2. /\ (\A i \in at : \E j \in 1..Len(G) : g[j] = i) /\ (\A i, j \in 1..Len(G) : g[i] = g[j] => i = j)
          /\ \A j \in 1..Len(G) : G[j] = kept[g[j]] /\ g[j] \in at
      BY <3>1, PlacesAre
    <3> QED  BY <3>2 DEF at
  <2> QED  BY <1>4, <1>11, <2>1
<1>14. /\ \A n \in DOMAIN c : \E i \in DOMAIN ranked : c[n][axis] \in ranked[i].keys
       /\ \A i, j \in DOMAIN ranked : \A n \in DOMAIN c :
            c[n][axis] \in ranked[i].keys /\ c[n][axis] \in ranked[j].keys => i = j
       /\ \A i \in DOMAIN ranked : ranked[i].total = SumOver(v, CellsIn(c, axis, ranked[i].keys))
  BY DEF IsSplit
<1>15. shared.total = SumOver(v, CellsIn(c, axis, shared.keys))
  <2> DEFINE S == CellsIn(c, axis, shared.keys)
             totals == Mapped(rest, LAMBDA x : x.total)
             sums == TotalsOf(ranked)
             shift == [k \in 1..(L - N) |-> N + k]
  <2>1. DOMAIN totals = 1..(L - N) /\ totals = [k \in 1..(L - N) |-> totals[k]] /\ \A k \in 1..(L - N) : totals[k] = rest[k].total
    <3> HIDE DEF rest
    <3> QED  BY <1>5 DEF Mapped
  <2>2. \A i \in high : sums[i] = ranked[i].total
    BY <1>6 DEF TotalsOf
  <2>3. \A i \in high : sums[i] = SumOver(v, {n \in S : c[n][axis] \in ranked[i].keys}) /\ sums[i] \in Int
    <3> SUFFICES ASSUME NEW i \in high
                 PROVE  sums[i] = SumOver(v, {n \in S : c[n][axis] \in ranked[i].keys}) /\ sums[i] \in Int
      OBVIOUS
    <3> DEFINE U == CellsIn(c, axis, ranked[i].keys)
    <3>1. {n \in S : c[n][axis] \in ranked[i].keys} = U
      <4> HIDE DEF shared, high
      <4> QED  BY <1>10 DEF CellsIn
    <3>2. i \in DOMAIN ranked /\ ranked[i].total = SumOver(v, U)
      BY <1>6, <1>14
    <3>3. U \subseteq DOMAIN c
      BY DEF CellsIn
    <3> HIDE DEF U, v, S
    <3>4. IsFiniteSet(U) /\ \A n \in U : v[n] \in Int
      BY <3>3, CellsHaveValues, FS_Subset DEF v
    <3>5. SumOver(v, U) \in Int
      BY <3>4, SumOverStep
    <3> QED  BY <2>2, <3>1, <3>2, <3>5
  <2>4. S \in SUBSET DOMAIN c /\ \A n \in S : \E i \in high : c[n][axis] \in ranked[i].keys
    <3> HIDE DEF shared, high
    <3> QED  BY <1>10 DEF CellsIn
  <2> HIDE DEF S, totals, sums, high
  <2>5. SumOver(sums, high) = SumOver(v, S)
    <3>1. high \in SUBSET DOMAIN ranked
      BY <1>6
    <3> DEFINE part == [i \in high |-> {n \in S : c[n][axis] \in ranked[i].keys}]
    <3>2. \A i \in high : \A n : n \in part[i] <=> n \in S /\ c[n][axis] \in ranked[i].keys
      OBVIOUS
    <3>3. \A i \in high : sums[i] = SumOver(ValuesOf(c), part[i])
      BY <2>3
    <3> HIDE DEF part
    <3> QED  BY <2>4, <3>1, <3>2, <3>3, PartsAddUp
  <2>6. shift \in Bijection(1..(L - N), high)
    <3>1. shift \in [1..(L - N) -> high]
      BY <1>8
    <3>2. \A j, k \in 1..(L - N) : shift[j] = shift[k] => j = k
      BY <1>2, <1>3
    <3>3. \A i \in high : \E k \in 1..(L - N) : shift[k] = i
      BY <1>7
    <3> HIDE DEF shift
    <3> DEFINE M == 1..(L - N)
    <3>4. shift \in [M -> high] /\ (\A j, k \in M : shift[j] = shift[k] => j = k) /\ \A i \in high : \E k \in M : shift[k] = i
      BY <3>1, <3>2, <3>3
    <3> HIDE DEF M
    <3>5. shift \in Bijection(M, high)
      BY <3>4, BijectionIs
    <3> QED  BY <3>5 DEF M
  <2>7. \A k \in 1..(L - N) : totals[k] = sums[shift[k]]
    BY <1>5, <1>8, <2>1, <2>2
  <2>8. totals \in Seq(Int) /\ Len(totals) = L - N
    <3>1. \A k \in 1..(L - N) : totals[k] \in Int
      BY <1>8, <2>3, <2>7
    <3>2. L - N \in Nat
      BY <1>2, <1>3
    <3>3. totals \in [1..(L - N) -> Int]
      BY <2>1, <3>1
    <3> QED  BY <3>2, <3>3
  <2> HIDE DEF shift
  <2>9. Total(totals) = SumOver(sums, high)
    BY <2>6, <2>7, <2>8, TotalOfOrdering
  <2>10. shared.total = Total(totals)
    BY DEF totals
  <2> QED  BY <2>5, <2>9, <2>10 DEF S
<1> HIDE DEF shared, rest, high
<1>16. R \in Seq(A \cup {shared}) /\ Len(R) = IF high = {} THEN 0 ELSE 1
  <2> DEFINE B == A \cup {shared}
  <2>1. shared \in B
    OBVIOUS
  <2> HIDE DEF B
  <2>2. <<>> \in Seq(B) /\ <<shared>> \in Seq(B) /\ Len(<<>>) = 0 /\ Len(<<shared>>) = 1
    BY <2>1
  <2>3. R \in Seq(B) /\ Len(R) = IF high = {} THEN 0 ELSE 1
    BY <1>9, <2>2
  <2> QED  BY <2>3 DEF B
<1>17. high # {} => R[1] = shared
  BY <1>9
<1>18. G \in Seq(A \cup {shared})
  <2>1. G = [j \in 1..N |-> G[j]] /\ \A j \in 1..N : G[j] \in A
    BY <1>11
  <2>2. G \in [1..N -> A \cup {shared}]
    BY <2>1
  <2> QED  BY <1>3, <2>2
<1> HIDE DEF R
<1> DEFINE B == A \cup {shared}
           k == Len(R)
<1>19. columns = [j \in 1..(N + k) |-> IF j <= N THEN G[j] ELSE R[j - N]] /\ columns \in Seq(B) /\ k \in Nat
  <2> HIDE DEF B, columns
  <2>1. G \in Seq(B) /\ R \in Seq(B)
    BY <1>16, <1>18 DEF B
  <2>2. G \o R = [j \in 1..(Len(G) + Len(R)) |-> IF j <= Len(G) THEN G[j] ELSE R[j - Len(G)]]
    BY <2>1, ConcatIs
  <2>3. G \o R \in Seq(B)
    BY <2>1, ConcatProperties
  <2> QED  BY <1>1, <1>11, <2>1, <2>2, <2>3
<1>20. DOMAIN columns = 1..(N + k) /\ Len(columns) = N + k
  <2> HIDE DEF columns, B
  <2>1. DOMAIN columns = 1..(N + k)
    BY <1>19
  <2> QED  BY <1>3, <1>19, <2>1
<1>21. Len(columns) <= MaxColumns + 1
  BY <1>3, <1>16, <1>20
<1>22. \A j \in 1..N : j \in DOMAIN columns /\ columns[j] = ranked[g[j]] /\ g[j] \in 1..N /\ g[j] \in DOMAIN ranked
  <2> SUFFICES ASSUME NEW j \in 1..N
               PROVE  j \in DOMAIN columns /\ columns[j] = ranked[g[j]] /\ g[j] \in 1..N /\ g[j] \in DOMAIN ranked
    OBVIOUS
  <2>1. j \in 1..(N + k) /\ j <= N
    BY <1>3, <1>19
  <2>2. columns[j] = G[j] /\ j \in DOMAIN columns
    <3> HIDE DEF columns
    <3> QED  BY <1>19, <1>20, <2>1
  <2>3. g[j] \in 1..N /\ G[j] = ranked[g[j]]
    BY <1>13
  <2>4. g[j] \in DOMAIN ranked
    BY <1>2, <1>3, <2>3
  <2> QED  BY <2>2, <2>3, <2>4
<1>23. high # {} => N + 1 \in DOMAIN columns /\ columns[N + 1] = shared
  <2> SUFFICES ASSUME high # {} PROVE N + 1 \in DOMAIN columns /\ columns[N + 1] = shared
    OBVIOUS
  <2>1. k = 1 /\ R[1] = shared
    BY <1>16, <1>17
  <2>2. N + 1 \in 1..(N + k) /\ ~(N + 1 <= N) /\ (N + 1) - N = 1
    BY <1>3, <2>1
  <2> HIDE DEF columns
  <2> QED  BY <1>19, <1>20, <2>1, <2>2
<1>24. \A j \in DOMAIN columns : j \in 1..N \/ (high # {} /\ j = N + 1)
  <2> HIDE DEF columns
  <2>1. k = IF high = {} THEN 0 ELSE 1
    BY <1>16
  <2> QED  BY <1>3, <1>20, <2>1
<1> HIDE DEF columns, k
<1>25. \A n \in DOMAIN c : \E j \in DOMAIN columns : c[n][axis] \in columns[j].keys
  <2> SUFFICES ASSUME NEW n \in DOMAIN c PROVE \E j \in DOMAIN columns : c[n][axis] \in columns[j].keys
    OBVIOUS
  <2>1. PICK i \in DOMAIN ranked : c[n][axis] \in ranked[i].keys
    BY <1>14
  <2>2. CASE i \in 1..N
    <3>1. PICK j \in 1..N : g[j] = i
      BY <1>13, <2>2
    <3> QED  BY <1>22, <2>1, <3>1
  <2>3. CASE i \in high
    BY <1>10, <1>23, <2>1, <2>3
  <2> QED  BY <1>6, <2>2, <2>3
<1>26. ASSUME NEW j \in DOMAIN columns, NEW n \in DOMAIN c, c[n][axis] \in columns[j].keys
       PROVE  \E i \in DOMAIN ranked : /\ c[n][axis] \in ranked[i].keys
                                       /\ j \in 1..N => i = g[j]
                                       /\ j = N + 1 => i \in high
  <2>1. CASE j \in 1..N
    <3>1. j # N + 1
      BY <1>3, <2>1
    <3> QED  BY <1>22, <1>26, <2>1, <3>1
  <2>2. CASE high # {} /\ j = N + 1
    <3>1. PICK i \in high : c[n][axis] \in ranked[i].keys
      BY <1>10, <1>23, <1>26, <2>2
    <3>2. j \notin 1..N
      BY <1>3, <2>2
    <3> QED  BY <1>6, <3>1, <3>2
  <2> QED  BY <1>24, <2>1, <2>2
<1>27. \A i \in high : i \notin 1..N
  BY <1>2, <1>3 DEF high
<1>28. ASSUME NEW i \in DOMAIN columns, NEW j \in DOMAIN columns, NEW n \in DOMAIN c,
              c[n][axis] \in columns[i].keys, c[n][axis] \in columns[j].keys
       PROVE  i = j
  <2>1. PICK x \in DOMAIN ranked : /\ c[n][axis] \in ranked[x].keys
                                   /\ i \in 1..N => x = g[i]
                                   /\ i = N + 1 => x \in high
    BY <1>26, <1>28
  <2>2. PICK y \in DOMAIN ranked : /\ c[n][axis] \in ranked[y].keys
                                   /\ j \in 1..N => y = g[j]
                                   /\ j = N + 1 => y \in high
    BY <1>26, <1>28
  <2>3. x = y
    BY <1>14, <2>1, <2>2
  <2>4. CASE i \in 1..N /\ j \in 1..N
    BY <1>13, <2>1, <2>2, <2>3, <2>4
  <2>5. CASE i \in 1..N /\ j = N + 1
    <3>1. x \in 1..N
      BY <1>13, <2>1, <2>5
    <3> QED  BY <1>27, <2>2, <2>3, <2>5, <3>1
  <2>6. CASE i = N + 1 /\ j \in 1..N
    <3>1. y \in 1..N
      BY <1>13, <2>2, <2>6
    <3> QED  BY <1>27, <2>1, <2>3, <2>6, <3>1
  <2> QED  BY <1>24, <2>4, <2>5, <2>6
<1>29. ASSUME NEW j \in DOMAIN columns PROVE columns[j].total = SumOver(v, CellsIn(c, axis, columns[j].keys))
  <2> HIDE DEF v
  <2>1. CASE j \in 1..N
    BY <1>14, <1>22, <2>1
  <2>2. CASE high # {} /\ j = N + 1
    BY <1>15, <1>23, <2>2
  <2> QED  BY <1>24, <2>1, <2>2
<1>30. DOMAIN columns = 1..Len(columns) /\ Len(columns) \in Nat
  BY <1>3, <1>19, <1>20
<1>31. IsSplit(columns, c, axis)
  BY <1>25, <1>28, <1>29, <1>30 DEF IsSplit
<1> QED  BY <1>21, <1>31 DEF columns

-----------------------------------------------------------------------------
(***************************************************************************)
(* The heatmap as drawn.                                                   *)
(***************************************************************************)

\* A part adds up to no more than the whole.
LEMMA SumOverWithin ==
    ASSUME NEW v, NEW S, IsFiniteSet(S), \A n \in S : v[n] \in Nat, NEW T \in SUBSET S
    PROVE  SumOver(v, T) <= SumOver(v, S) /\ SumOver(v, T) \in Nat /\ SumOver(v, S) \in Nat
<1> DEFINE U == S \ T
<1>1. S = T \cup U /\ T \cap U = {} /\ IsFiniteSet(T) /\ IsFiniteSet(U)
  BY FS_Subset
<1>2. (\A n \in T \cup U : v[n] \in Int) /\ (\A n \in T : v[n] \in Nat) /\ \A n \in U : v[n] \in Nat
  OBVIOUS
<1> HIDE DEF U
<1>3. SumOver(v, T \cup U) = SumOver(v, T) + SumOver(v, U)
  BY <1>1, <1>2, SumOverUnion
<1>4. SumOver(v, T) \in Nat /\ SumOver(v, U) \in Nat
  BY <1>1, <1>2, SumOverNats
<1>5. SumOver(v, S) = SumOver(v, T) + SumOver(v, U)
  BY <1>1, <1>3
<1> QED  BY <1>4, <1>5

\* The columns of the heatmap, and what is in the cells of a row and a column.
Feet(m) == HeatColumns(RankedPositive(Cells(m), "col"))

CellsOfBoth(m, i, j) ==
    {n \in DOMAIN Cells(m) : Cells(m)[n].row \in Heads(m)[i].keys /\ Cells(m)[n].col \in Feet(m)[j].keys}
HeatValue(m, i, j) == SumOver(ValuesOf(Cells(m)), CellsOfBoth(m, i, j))

\* All of the heatmap's cells are split by its rows and by its columns.
LEMMA AllCells ==
    ASSUME BreakdownTypeOK, NEW m
    PROVE  /\ IsCells(Cells(m), CellSet(m))
           /\ \A n \in DOMAIN Cells(m) : Cells(m)[n].value > 0
           /\ IsSplit(Heads(m), Cells(m), "row") /\ IsSplit(Feet(m), Cells(m), "col")
           /\ Len(Feet(m)) <= MaxColumns + 1
           /\ \A i \in DOMAIN Heads(m) : \E n \in DOMAIN Cells(m) : Cells(m)[n].row \in Heads(m)[i].keys
<1> DEFINE c == Cells(m)
           C == CellSet(m)
           ranked == RankedPositive(c, "col")
<1>1. IsCells(c, C)
  BY CellsAre DEF IsCells
<1>2. \A n \in DOMAIN c : c[n].value > 0
  <2> DEFINE t == PersonModelCells(m)
             T == {n \in DOMAIN t : t[n].value > 0}
             f == CellAt(m)
  <2>1. \E q : q \in Orderings(c, f, FilledAt(m), InTurn(CellPlaces(m)))
    BY CellsAre
  <2>2. \A p \in FilledAt(m) : f[p].value > 0
    BY CellsAt DEF FilledAt
  <2>3. DOMAIN c = 1..Len(c)
    BY <1>1, CellsHaveValues
  <2> HIDE DEF c, f
  <2>4. PICK q : q \in Orderings(c, f, FilledAt(m), InTurn(CellPlaces(m)))
    BY <2>1
  <2>5. \A n \in 1..Len(c) : c[n] = f[q[n]] /\ q[n] \in FilledAt(m)
    BY <2>4, PlacesAre
  <2> QED  BY <2>2, <2>3, <2>5
<1> HIDE DEF c, C
<1>3. /\ IsSplit(RankedPositive(c, "row"), c, "row")
      /\ \A i \in DOMAIN RankedPositive(c, "row") : \E n \in DOMAIN c : c[n]["row"] \in RankedPositive(c, "row")[i].keys
  BY <1>1, RankedSplits
<1>4. IsSplit(ranked, c, "col") /\ \E A : ranked \in Seq(A)
  BY <1>1, RankedSplits
<1> HIDE DEF ranked
<1>5. IsSplit(HeatColumns(ranked), c, "col") /\ Len(HeatColumns(ranked)) <= MaxColumns + 1
  BY <1>1, <1>4, ColumnsSplit
<1> QED  BY <1>1, <1>2, <1>3, <1>5 DEF Heads, Feet, ranked, c, C

\* What is drawn in the heatmap's cells.
LEMMA HeatmapIs ==
    ASSUME BreakdownTypeOK, NEW m
    PROVE  LET heat == Heatmap(m)
           IN  /\ heat.heads = Heads(m) /\ heat.feet = Feet(m)
               /\ DOMAIN heat.cells = DOMAIN Heads(m) /\ heat.max \in Nat
               /\ \A i \in DOMAIN Heads(m) :
                    /\ DOMAIN heat.cells[i] = DOMAIN Feet(m)
                    /\ \A j \in DOMAIN Feet(m) :
                         /\ heat.cells[i][j] = [value |-> HeatValue(m, i, j), bin |-> HeatBin(HeatValue(m, i, j), heat.max),
                                                notable |-> 10 * HeatValue(m, i, j) >= Heads(m)[i].total]
                         /\ HeatValue(m, i, j) \in Nat /\ HeatValue(m, i, j) <= heat.max
<1> DEFINE c == Cells(m)
           v == ValuesOf(c)
           heads == Heads(m)
           feet == Feet(m)
           all == DOMAIN c
           H == DOMAIN heads
           F == DOMAIN feet
           built == BuildHeatmap(m)
           given(h, k) == Total(Mapped(Filtered(c, LAMBDA x : x.row \in h.keys /\ x.col \in k.keys), LAMBDA x : x.value))
           values == Mapped(heads, LAMBDA h : Mapped(feet, LAMBDA k : given(h, k)))
           X == {0} \cup UNION {ToSet(w) : w \in ToSet(values)}
           max == Max(X)
           heat == Heatmap(m)
<1>1. IsCells(c, CellSet(m)) /\ IsFiniteSet(all) /\ \A n \in all : v[n] \in Nat
  BY AllCells, CellsHaveValues
<1>2. built = [rows |-> heads, columns |-> feet, values |-> values]
  BY DEF BuildHeatmap, Heads, Feet, Cells
<1>3. ASSUME NEW i \in H, NEW j \in F PROVE given(heads[i], feet[j]) = HeatValue(m, i, j)
  <2> DEFINE at == CellsOfBoth(m, i, j)
             t == Arranged(c, at, Upwards(at))
  <2>1. Filtered(c, LAMBDA x : x.row \in heads[i].keys /\ x.col \in feet[j].keys) = t
    BY DEF Filtered, CellsOfBoth
  <2>2. Mapped(t, LAMBDA x : x.value) = ValuesOf(t)
    BY DEF Mapped, ValuesOf
  <2>3. given(heads[i], feet[j]) = Total(ValuesOf(t))
    BY <2>1, <2>2
  <2>4. at \in SUBSET DOMAIN c
    BY DEF CellsOfBoth
  <2>5. c \in Seq(CellSet(m)) /\ \A n \in DOMAIN c : c[n].value \in Nat
    BY <1>1 DEF IsCells
  <2> HIDE DEF at, c
  <2>6. Total(ValuesOf(t)) = SumOver(ValuesOf(c), at)
    BY <2>4, <2>5, KeptSum
  <2> QED  BY <2>3, <2>6 DEF HeatValue, at, c
<1>4. DOMAIN values = H /\ \A i \in H : DOMAIN values[i] = F /\ \A j \in F : values[i][j] = given(heads[i], feet[j])
  BY DEF Mapped
<1>5. \A i \in H : \A j \in F : values[i][j] = HeatValue(m, i, j)
  <2> HIDE DEF values, given, heads, feet
  <2> QED  BY <1>3, <1>4
<1> DEFINE M == SumOver(v, all)
<1>6. \A i \in H : \A j \in F : HeatValue(m, i, j) \in Nat /\ HeatValue(m, i, j) <= M /\ M \in Nat
  <2> SUFFICES ASSUME NEW i \in H, NEW j \in F PROVE HeatValue(m, i, j) \in Nat /\ HeatValue(m, i, j) <= M /\ M \in Nat
    OBVIOUS
  <2> DEFINE at == CellsOfBoth(m, i, j)
  <2>1. at \in SUBSET all
    BY DEF CellsOfBoth
  <2> HIDE DEF at, all, v
  <2>2. SumOver(v, at) <= SumOver(v, all) /\ SumOver(v, at) \in Nat /\ SumOver(v, all) \in Nat
    BY <1>1, <2>1, SumOverWithin
  <2> QED  BY <2>2 DEF HeatValue, at, v
<1>7. M \in Nat
  <2> HIDE DEF all, v
  <2> QED  BY <1>1, SumOverNats
<1> HIDE DEF c, v, all, heads, feet, values, given, M
<1>8. \A x : x \in X <=> x = 0 \/ \E i \in H : \E j \in F : x = HeatValue(m, i, j)
  <2>1. \A x : x \in X <=> x = 0 \/ \E i \in H : x \in ToSet(values[i])
    BY <1>4 DEF ToSet
  <2>2. \A x : \A i \in H : x \in ToSet(values[i]) <=> \E j \in F : x = HeatValue(m, i, j)
    BY <1>4, <1>5 DEF ToSet
  <2> HIDE DEF X
  <2> QED  BY <2>1, <2>2
<1>9. X \in SUBSET (0..M) /\ X # {}
  <2>1. \A x \in X : x \in 0..M
    <3> HIDE DEF X
    <3> QED  BY <1>6, <1>7, <1>8
  <2> QED  BY <2>1
<1>10. max \in X /\ \A y \in X : y <= max
  <2> HIDE DEF X
  <2> QED  BY <1>7, <1>9, Largest
<1>11. max \in Nat /\ \A i \in H : \A j \in F : HeatValue(m, i, j) \in Nat /\ HeatValue(m, i, j) <= max
  <2> HIDE DEF X
  <2> HIDE DEF max
  <2>0. max \in 0..M
    BY <1>9, <1>10
  <2>1. max \in Nat
    BY <1>7, <2>0
  <2> QED  BY <1>6, <1>8, <1>10, <2>1
<1>12. heat = [heads |-> heads, feet |-> feet, max |-> max,
               cells |-> [i \in H |-> Mapped(values[i], LAMBDA x :
                   [value |-> x, bin |-> HeatBin(x, max), notable |-> 10 * x >= heads[i].total])]]
  <2> DEFINE drawn(hs, fs, vs) ==
               [heads |-> hs, feet |-> fs, max |-> Max({0} \cup UNION {ToSet(w) : w \in ToSet(vs)}),
                cells |-> [i \in DOMAIN hs |-> Mapped(vs[i], LAMBDA x :
                   [value |-> x, bin |-> HeatBin(x, Max({0} \cup UNION {ToSet(w) : w \in ToSet(vs)})),
                    notable |-> 10 * x >= hs[i].total])]]
  <2>1. built.rows = heads /\ built.columns = feet /\ built.values = values
    BY <1>2
  <2>2. heat = drawn(built.rows, built.columns, built.values)
    BY DEF Heatmap
  <2>3. heat = drawn(heads, feet, values)
    <3> HIDE DEF drawn, built, heat
    <3> QED  BY <2>1, <2>2
  <2> HIDE DEF heat
  <2> QED  BY <2>3
<1> HIDE DEF max, heat
<1>13. /\ heat.heads = heads /\ heat.feet = feet /\ heat.max = max /\ DOMAIN heat.cells = H
       /\ \A i \in H : heat.cells[i] = Mapped(values[i], LAMBDA x :
                   [value |-> x, bin |-> HeatBin(x, max), notable |-> 10 * x >= heads[i].total])
  BY <1>12
<1>14. ASSUME NEW i \in H
       PROVE  /\ DOMAIN heat.cells[i] = F
              /\ \A j \in F : heat.cells[i][j] = [value |-> HeatValue(m, i, j), bin |-> HeatBin(HeatValue(m, i, j), max),
                                                  notable |-> 10 * HeatValue(m, i, j) >= heads[i].total]
  <2>1. heat.cells[i] = [j \in DOMAIN values[i] |->
                   [value |-> values[i][j], bin |-> HeatBin(values[i][j], max), notable |-> 10 * values[i][j] >= heads[i].total]]
    BY <1>13 DEF Mapped
  <2>2. DOMAIN values[i] = F /\ \A j \in F : values[i][j] = HeatValue(m, i, j)
    BY <1>4, <1>5
  <2> QED  BY <2>1, <2>2
<1> QED  BY <1>11, <1>13, <1>14 DEF heads, feet, heat

\* The cells of a row add up to it, and those of a column to its foot.
LEMMA HeatAddsUp ==
    ASSUME BreakdownTypeOK, NEW m
    PROVE  /\ \A i \in DOMAIN Heads(m) :
                SumOver([j \in DOMAIN Feet(m) |-> HeatValue(m, i, j)], DOMAIN Feet(m)) = Heads(m)[i].total
           /\ \A j \in DOMAIN Feet(m) :
                SumOver([i \in DOMAIN Heads(m) |-> HeatValue(m, i, j)], DOMAIN Heads(m)) = Feet(m)[j].total
<1> DEFINE c == Cells(m)
           C == CellSet(m)
           v == ValuesOf(c)
           heads == Heads(m)
           feet == Feet(m)
           H == DOMAIN heads
           F == DOMAIN feet
           both == [i \in H |-> [j \in F |-> CellsOfBoth(m, i, j)]]
<1>1. IsCells(c, C) /\ IsSplit(heads, c, "row") /\ IsSplit(feet, c, "col")
  BY AllCells
<1>2. /\ \A n \in DOMAIN c : \E i \in H : c[n]["row"] \in heads[i].keys
      /\ \A n \in DOMAIN c : \E j \in F : c[n]["col"] \in feet[j].keys
      /\ \A i \in H : heads[i].total = SumOver(v, CellsIn(c, "row", heads[i].keys))
      /\ \A j \in F : feet[j].total = SumOver(v, CellsIn(c, "col", feet[j].keys))
  BY <1>1 DEF IsSplit
<1>3. \A i \in H : \A j \in F : HeatValue(m, i, j) = SumOver(v, CellsOfBoth(m, i, j))
  BY DEF HeatValue
<1>4. \A i \in H : \A j \in F : \A n : n \in CellsOfBoth(m, i, j) <=>
          n \in DOMAIN c /\ c[n]["row"] \in heads[i].keys /\ c[n]["col"] \in feet[j].keys
  BY DEF CellsOfBoth
<1> HIDE DEF c, C, v, heads, feet
<1>5. ASSUME NEW i \in H PROVE SumOver([j \in F |-> HeatValue(m, i, j)], F) = heads[i].total
  <2> DEFINE S == CellsIn(c, "row", heads[i].keys)
             sums == [j \in F |-> HeatValue(m, i, j)]
             part == [j \in F |-> CellsOfBoth(m, i, j)]
  <2>1. \A n : n \in S <=> n \in DOMAIN c /\ c[n]["row"] \in heads[i].keys
    BY DEF CellsIn
  <2> HIDE DEF S
  <2>2. S \in SUBSET DOMAIN c
    BY <2>1
  <2>3. \A n \in S : \E j \in F : c[n]["col"] \in feet[j].keys
    BY <1>2, <2>1
  <2>4. \A j \in F : \A n : n \in part[j] <=> n \in S /\ c[n]["col"] \in feet[j].keys
    <3> SUFFICES ASSUME NEW j \in F, NEW n PROVE n \in part[j] <=> n \in S /\ c[n]["col"] \in feet[j].keys
      OBVIOUS
    <3>1. part[j] = CellsOfBoth(m, i, j)
      OBVIOUS
    <3> QED  BY <1>4, <2>1, <3>1
  <2>5. \A j \in F : sums[j] = SumOver(v, part[j])
    BY <1>3
  <2> HIDE DEF sums, part
  <2>6. SumOver(sums, F) = SumOver(v, S)
    BY <1>1, <2>2, <2>3, <2>4, <2>5, PartsAddUp DEF v
  <2> QED  BY <1>2, <2>6 DEF S, sums
<1>6. ASSUME NEW j \in F PROVE SumOver([i \in H |-> HeatValue(m, i, j)], H) = feet[j].total
  <2> DEFINE S == CellsIn(c, "col", feet[j].keys)
             sums == [i \in H |-> HeatValue(m, i, j)]
             part == [i \in H |-> CellsOfBoth(m, i, j)]
  <2>1. \A n : n \in S <=> n \in DOMAIN c /\ c[n]["col"] \in feet[j].keys
    BY DEF CellsIn
  <2> HIDE DEF S
  <2>2. S \in SUBSET DOMAIN c
    BY <2>1
  <2>3. \A n \in S : \E i \in H : c[n]["row"] \in heads[i].keys
    BY <1>2, <2>1
  <2>4. \A i \in H : \A n : n \in part[i] <=> n \in S /\ c[n]["row"] \in heads[i].keys
    <3> SUFFICES ASSUME NEW i \in H, NEW n PROVE n \in part[i] <=> n \in S /\ c[n]["row"] \in heads[i].keys
      OBVIOUS
    <3>1. part[i] = CellsOfBoth(m, i, j)
      OBVIOUS
    <3> QED  BY <1>4, <2>1, <3>1
  <2>5. \A i \in H : sums[i] = SumOver(v, part[i])
    BY <1>3
  <2> HIDE DEF sums, part
  <2>6. SumOver(sums, H) = SumOver(v, S)
    BY <1>1, <2>2, <2>3, <2>4, <2>5, PartsAddUp DEF v
  <2> QED  BY <1>2, <2>6 DEF S, sums
<1> QED  BY <1>5, <1>6 DEF heads, feet

\* The total of what is at hand is the sum over its indexes.
LEMMA TotalOfNats ==
    ASSUME NEW s, NEW n \in Nat, DOMAIN s = 1..n, s = [i \in DOMAIN s |-> s[i]], \A i \in 1..n : s[i] \in Nat
    PROVE  Total(s) = SumOver(s, 1..n) /\ s \in Seq(Int)
<1>1. s \in [1..n -> Int]
  <2>1. s = [i \in 1..n |-> s[i]] /\ \A i \in 1..n : s[i] \in Int
    OBVIOUS
  <2> QED  BY <2>1
<1>2. s \in Seq(Int)
  BY <1>1
<1> QED  BY <1>2, TotalIs

\* Of a few cells one has its share.
LEMMA OneIsNotable ==
    ASSUME NEW v, NEW F, IsFiniteSet(F), Cardinality(F) <= 10, \A j \in F : v[j] \in Nat,
           NEW total \in Nat, total > 0, SumOver(v, F) = total
    PROVE  \E j \in F : 10 * v[j] >= total /\ v[j] > 0
<1> SUFFICES ASSUME \A j \in F : ~(10 * v[j] >= total /\ v[j] > 0) PROVE FALSE
  OBVIOUS
<1> DEFINE n == Cardinality(F)
           b == total - 1
<1>1. \A j \in F : 10 * v[j] <= b
  OBVIOUS
<1>2. n \in Nat /\ b \in Nat
  BY FS_CardinalityType
<1>3. 10 * SumOver(v, F) <= b * n
  <2>1. \A j \in F : v[j] \in Int
    OBVIOUS
  <2> HIDE DEF b
  <2>2. 10 \in Int /\ b \in Int
    BY <1>2
  <2>3. 10 * SumOver(v, F) <= b * Cardinality(F)
    BY <1>1, <2>1, <2>2, SumOverBound
  <2> QED  BY <2>3
<1>4. b * n <= b * 10
  <2> HIDE DEF b
  <2>1. n <= 10
    OBVIOUS
  <2> HIDE DEF n
  <2>2. 10 - n \in Nat /\ b * (10 - n) = b * 10 - b * n
    BY <1>2, <2>1
  <2>3. b * (10 - n) >= 0 /\ b * n \in Int /\ b * 10 \in Int
    BY <1>2, <2>2
  <2> QED  BY <2>2, <2>3
<1>5. 10 * total <= b * n /\ b * n \in Int
  BY <1>2, <1>3
<1> HIDE DEF n
<1> QED  BY <1>2, <1>4, <1>5

\* The heatmap as drawn adds up both ways; of a row's cells, at most ten, one has a tenth
\* of the row.
LEMMA NothingIsLost == ASSUME BreakdownTypeOK PROVE HeatmapIsWhole
<1> DEFINE m == metric
           heat == Heatmap(m)
           heads == Heads(m)
           feet == Feet(m)
           H == DOMAIN heads
           F == DOMAIN feet
           val(c) == c.value
           c == Cells(m)
           w == ValuesOf(c)
<1>1. /\ heat.heads = heads /\ heat.feet = feet
      /\ DOMAIN heat.cells = H /\ heat.max \in Nat
      /\ \A i \in H :
           /\ DOMAIN heat.cells[i] = F
           /\ \A j \in F :
                /\ heat.cells[i][j] = [value |-> HeatValue(m, i, j), bin |-> HeatBin(HeatValue(m, i, j), heat.max),
                                       notable |-> 10 * HeatValue(m, i, j) >= heads[i].total]
                /\ HeatValue(m, i, j) \in Nat /\ HeatValue(m, i, j) <= heat.max
  <2> HIDE DEF m
  <2> QED  BY HeatmapIs
<1>2. /\ \A i \in H : SumOver([j \in F |-> HeatValue(m, i, j)], F) = heads[i].total
      /\ \A j \in F : SumOver([i \in H |-> HeatValue(m, i, j)], H) = feet[j].total
  <2> HIDE DEF m
  <2> QED  BY HeatAddsUp
<1>3. /\ IsCells(c, CellSet(m)) /\ \A n \in DOMAIN c : c[n].value > 0
      /\ IsSplit(heads, c, "row") /\ IsSplit(feet, c, "col")
      /\ Len(feet) <= MaxColumns + 1
      /\ \A i \in H : \E n \in DOMAIN c : c[n].row \in heads[i].keys
  <2> HIDE DEF m
  <2> QED  BY AllCells
<1>4. H = 1..Len(heads) /\ Len(heads) \in Nat /\ F = 1..Len(feet) /\ Len(feet) \in Nat
  BY <1>3 DEF IsSplit
<1>5. \A i \in H : heads[i].total = SumOver(w, CellsIn(c, "row", heads[i].keys))
  BY <1>3 DEF IsSplit
<1>6. IsFiniteSet(DOMAIN c) /\ \A n \in DOMAIN c : w[n] \in Nat /\ w[n] > 0
  <2> HIDE DEF c
  <2>1. IsFiniteSet(DOMAIN c) /\ \A n \in DOMAIN c : w[n] \in Nat /\ w[n] = c[n].value
    BY <1>3, CellsHaveValues
  <2> QED  BY <1>3, <2>1
<1> HIDE DEF heat, heads, feet, c, w
<1>7. ASSUME NEW i \in H PROVE heads[i].total \in Nat /\ heads[i].total > 0
  <2> DEFINE S == CellsIn(c, "row", heads[i].keys)
  <2>1. PICK n \in DOMAIN c : c[n].row \in heads[i].keys
    BY <1>3
  <2>2. S \in SUBSET DOMAIN c /\ n \in S
    BY <2>1 DEF CellsIn
  <2> HIDE DEF S
  <2>3. IsFiniteSet(S) /\ (\A k \in S : w[k] \in Nat) /\ w[n] > 0
    BY <1>6, <2>2, FS_Subset
  <2>4. SumOver(w, S) \in Nat /\ w[n] <= SumOver(w, S)
    BY <2>2, <2>3, SumOverNats
  <2>5. SumOver(w, S) > 0
    BY <2>2, <2>3, <2>4
  <2> QED  BY <1>5, <2>4, <2>5 DEF S
<1>8. \A i \in H : \A j \in F :
        /\ heat.cells[i][j].value = HeatValue(m, i, j) /\ HeatValue(m, i, j) \in Nat /\ HeatValue(m, i, j) <= heat.max
        /\ heat.cells[i][j].bin = HeatBin(HeatValue(m, i, j), heat.max)
        /\ heat.cells[i][j].notable = (10 * HeatValue(m, i, j) >= heads[i].total)
  <2> SUFFICES ASSUME NEW i \in H, NEW j \in F
               PROVE  /\ heat.cells[i][j].value = HeatValue(m, i, j) /\ HeatValue(m, i, j) \in Nat /\ HeatValue(m, i, j) <= heat.max
                      /\ heat.cells[i][j].bin = HeatBin(HeatValue(m, i, j), heat.max)
                      /\ heat.cells[i][j].notable = (10 * HeatValue(m, i, j) >= heads[i].total)
    OBVIOUS
  <2> DEFINE x == HeatValue(m, i, j)
             b == HeatBin(HeatValue(m, i, j), heat.max)
             large == 10 * HeatValue(m, i, j) >= heads[i].total
  <2>1. heat.cells[i][j] = [value |-> x, bin |-> b, notable |-> large] /\ x \in Nat /\ x <= heat.max
    BY <1>1
  <2> HIDE DEF x, b, large
  <2>2. heat.cells[i][j].value = x /\ heat.cells[i][j].bin = b /\ heat.cells[i][j].notable = large
    BY <2>1
  <2> QED  BY <2>1, <2>2 DEF x, b, large
<1>9. ASSUME NEW i \in H
      PROVE  /\ Total(Mapped(heat.cells[i], val)) = heads[i].total
             /\ \E j \in F : heat.cells[i][j].notable /\ heat.cells[i][j].bin >= 0
  <2> DEFINE s == Mapped(heat.cells[i], val)
             v == [j \in F |-> HeatValue(m, i, j)]
  <2>1. s = v
    <3>1. s = [j \in F |-> heat.cells[i][j].value]
      BY <1>1 DEF Mapped
    <3> QED  BY <1>8, <3>1
  <2>2. DOMAIN v = F /\ v = [j \in DOMAIN v |-> v[j]] /\ \A j \in F : v[j] = HeatValue(m, i, j) /\ v[j] \in Nat
    BY <1>8
  <2>3. SumOver(v, F) = heads[i].total
    BY <1>2
  <2> HIDE DEF s, v
  <2>4. Total(v) = SumOver(v, F)
    <3> DEFINE n == Len(feet)
    <3>1. n \in Nat /\ F = 1..n
      BY <1>4
    <3> HIDE DEF n
    <3> QED  BY <2>2, <3>1, TotalOfNats
  <2>5. IsFiniteSet(F) /\ Cardinality(F) <= 10
    <3> DEFINE n == Len(feet)
    <3>1. n \in Nat /\ F = 1..n /\ n <= MaxColumns + 1 /\ MaxColumns \in 1..9
      BY <1>3, <1>4, BreakdownAssumption
    <3> HIDE DEF n
    <3>2. IsFiniteSet(1..n) /\ Cardinality(1..n) = n
      BY <3>1, FS_Interval
    <3>3. n <= 10
      BY <3>1
    <3> QED  BY <3>1, <3>2, <3>3
  <2>6. PICK j \in F : 10 * v[j] >= heads[i].total /\ v[j] > 0
    <3> DEFINE total == heads[i].total
    <3>1. total \in Nat /\ total > 0 /\ SumOver(v, F) = total
      BY <1>7, <2>3
    <3> HIDE DEF total, F
    <3>2. \E j \in F : 10 * v[j] >= total /\ v[j] > 0
      BY <2>2, <2>5, <3>1, OneIsNotable
    <3> QED  BY <3>2 DEF total
  <2>7. v[j] > 0 <=> HeatBin(v[j], heat.max) >= 0
    BY <1>1, <1>8, <2>2, BinIs
  <2>8. heat.cells[i][j].notable /\ heat.cells[i][j].bin >= 0
    BY <1>8, <2>2, <2>6, <2>7
  <2> QED  BY <2>1, <2>3, <2>4, <2>8 DEF s
<1>10. ASSUME NEW j \in F
       PROVE  Total(Mapped(heat.cells, LAMBDA x : x[j].value)) = feet[j].total
  <2> DEFINE s == Mapped(heat.cells, LAMBDA x : x[j].value)
             v == [i \in H |-> HeatValue(m, i, j)]
  <2>1. s = v
    <3>1. s = [i \in H |-> heat.cells[i][j].value]
      BY <1>1 DEF Mapped
    <3> QED  BY <1>8, <3>1
  <2>2. DOMAIN v = H /\ v = [i \in DOMAIN v |-> v[i]] /\ \A i \in H : v[i] \in Nat
    BY <1>8
  <2>3. SumOver(v, H) = feet[j].total
    BY <1>2
  <2> HIDE DEF s, v
  <2>4. Total(v) = SumOver(v, H)
    <3> DEFINE n == Len(heads)
    <3>1. n \in Nat /\ H = 1..n
      BY <1>4
    <3> HIDE DEF n
    <3> QED  BY <2>2, <3>1, TotalOfNats
  <2> QED  BY <2>1, <2>3, <2>4 DEF s
<1>11. ASSUME NEW j \in F, NEW i \in H
       PROVE  LET x == heat.cells[i][j] IN (x.value > 0) = (x.bin >= 0) /\ (x.value = heat.max => x.bin = 5)
  <2> DEFINE x == HeatValue(m, i, j)
             max == heat.max
             bin == HeatBin(x, max)
  <2>1. x \in Nat /\ x <= max /\ max \in Nat /\ heat.cells[i][j].value = x /\ heat.cells[i][j].bin = bin
    BY <1>1, <1>8
  <2>2. max > 0
    <3>1. PICK k \in F : heat.cells[i][k].bin >= 0
      BY <1>9
    <3>2. HeatValue(m, i, k) > 0 /\ HeatValue(m, i, k) \in Nat /\ HeatValue(m, i, k) <= max
      BY <1>1, <1>8, <3>1, BinIs
    <3> HIDE DEF max
    <3> QED  BY <2>1, <3>2
  <2> HIDE DEF x, max, bin
  <2>3. (x > 0 <=> bin >= 0) /\ (x = max /\ x > 0 => bin = 5)
    BY <2>1, BinIs DEF bin
  <2>4. (x > 0) = (bin >= 0) /\ (x = max => bin = 5)
    BY <2>1, <2>2, <2>3
  <2> QED  BY <2>1, <2>4 DEF max
<1> SUFFICES /\ Len(heat.feet) <= MaxColumns + 1
             /\ \A i \in DOMAIN heat.heads :
                 /\ Total(Mapped(heat.cells[i], val)) = heat.heads[i].total
                 /\ \E j \in DOMAIN heat.feet : heat.cells[i][j].notable /\ heat.cells[i][j].bin >= 0
             /\ \A j \in DOMAIN heat.feet :
                 /\ Total(Mapped(heat.cells, LAMBDA x : x[j].value)) = heat.feet[j].total
                 /\ \A i \in DOMAIN heat.heads : LET x == heat.cells[i][j] IN
                      (x.value > 0) = (x.bin >= 0) /\ (x.value = heat.max => x.bin = 5)
  BY DEF HeatmapIsWhole, heat
<1> HIDE DEF val
<1> QED  BY <1>1, <1>3, <1>9, <1>10, <1>11

\* Folding and grouping the columns loses no cell and counts none twice, for all responses
\* and families and up to nine columns (buildHeatmap and heatBin in heatmap.ts).
THEOREM HeatmapIsWholeHolds == BreakdownSpec => []HeatmapIsWhole
  BY BreakdownTypeCorrect, NothingIsLost, PTL
=============================================================================
