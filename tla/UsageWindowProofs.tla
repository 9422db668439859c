------------------------- MODULE UsageWindowProofs -------------------------
(***************************************************************************)
(* The window of the range on the screen, for any presets, times, choices  *)
(* and bookmarks.  That it is fresh rests on EntryInv (an entry nobody     *)
(* observes is young or about to be cleaned up) and on MoveInv (while a    *)
(* clean-up is queued the page does not move to another range), and that   *)
(* on the range surviving its round trip through the query string.         *)
(* That what was asked for is shown, and that coming back restores it,     *)
(* rests on the round trip of the whole view and on ViewInv.               *)
(***************************************************************************)
EXTENDS UsageWindow, TLAPS

USE ViewAssumption, WindowAssumption

-----------------------------------------------------------------------------
(* Ranges and query strings.                                               *)

LEMMA ParsedRange == ASSUME NEW q PROVE ParseRange(q) \in Ranges
<1>1. CASE q.range = "custom" /\ IsValidCustomRange(q.from, q.to)
  <2>1. <<q.from, q.to>> \in {w \in Times \X Times : w[1] < w[2]}
    BY <1>1 DEF IsValidCustomRange
  <2>2. ParseRange(q) = Custom(<<q.from, q.to>>[1], <<q.from, q.to>>[2])
    BY <1>1 DEF ParseRange
  <2> QED  BY <2>1, <2>2 DEF Ranges
<1>2. CASE ~(q.range = "custom" /\ IsValidCustomRange(q.from, q.to))
  <2>1. PICK p \in Presets : ParseRange(q) = Preset(p)
    BY <1>2 DEF ParseRange
  <2> QED  BY <2>1 DEF Ranges
<1> QED  BY <1>1, <1>2

LEMMA LoadedRange == ASSUME NEW q, NEW s PROVE LoadView(q, s).range \in Ranges
<1>1. \A x : Parse(x).range = ParseRange(x)
  BY DEF Parse
<1>2. DefaultView.range \in Ranges
  BY DEF DefaultView, Ranges
<1>3. LoadView(q, s) \in {Parse(q), Parse(s), DefaultView}
  BY DEF LoadView
<1> QED  BY <1>1, <1>2, <1>3, ParsedRange

\* A range is read back as it was written, whatever else the view holds.
LEMMA RangeWritten ==
    ASSUME NEW v, v.range \in Ranges
    PROVE  ParseRange(Serialize(v)) = v.range /\ Serialize(v) # Empty
<1> DEFINE q == Serialize(v)
           rest == RestOf(v)
<1>2. /\ \A x : [rest EXCEPT !.range = x].range = x
      /\ \A x, y, z : LET e == [rest EXCEPT !.range = x, !.from = y, !.to = z]
                      IN  e.range = x /\ e.from = y /\ e.to = z
  BY DEF RestOf, Empty
<1>3. Empty.range = Absent
  BY DEF Empty
<1> HIDE DEF rest
<1>4. ASSUME NEW p \in Presets, v.range = Preset(p)
      PROVE  q.range = p /\ ParseRange(q) = v.range
  <2>1. q.range = p
    BY <1>2, <1>4 DEF Serialize, RangeParams, Preset, rest
  <2> QED  BY <2>1, <1>4 DEF ParseRange
<1>5. ASSUME NEW w \in Times \X Times, w[1] < w[2], v.range = Custom(w[1], w[2])
      PROVE  q.range = "custom" /\ ParseRange(q) = v.range
  <2>1. q.range = "custom" /\ q.from = w[1] /\ q.to = w[2]
    BY <1>2, <1>5 DEF Serialize, RangeParams, Custom, rest
  <2> QED  BY <2>1, <1>5 DEF ParseRange, IsValidCustomRange
<1> HIDE DEF q
<1>6. ParseRange(q) = v.range /\ q.range # Absent
  <2>1. CASE v.range \in {Preset(p) : p \in Presets}
    BY <1>4, <2>1
  <2>2. CASE v.range \in {Custom(w[1], w[2]) : w \in {w \in Times \X Times : w[1] < w[2]}}
    <3>1. PICK w \in {w \in Times \X Times : w[1] < w[2]} : v.range = Custom(w[1], w[2])
      BY <2>2
    <3> QED  BY <1>5, <3>1
  <2> QED  BY <2>1, <2>2 DEF Ranges
<1>7. q # Empty
  BY <1>6, <1>3
<1> QED  BY <1>6, <1>7 DEF q

LEMMA RangeSurvives ==
    ASSUME NEW v, v.range \in Ranges, NEW s
    PROVE  LoadView(Serialize(v), s).range = v.range
<1>1. \A x : Parse(x).range = ParseRange(x)
  BY DEF Parse
<1> QED  BY <1>1, RangeWritten DEF LoadView

-----------------------------------------------------------------------------
(* Views and their query strings.                                          *)

Universe == Keys \cup UNION {ToSet(q.filter[d]) : q \in Bookmarks, d \in Dims}

Distinct(s) == \A i, j \in DOMAIN s : s[i] = s[j] => i = j

\* the filters the page may have: no empty value, no repetition
KeyLists == {s \in Seq(Universe) : Distinct(s) /\ \A i \in DOMAIN s : s[i] # Absent}

Chosen == {c \in [Pickers -> UNION {Options[p] : p \in Pickers}] :
              \A p \in Pickers : c[p] \in Options[p]}

Views == [range : Ranges, filter : [Dims -> KeyLists], choice : Chosen,
          drawer : (Dims \X Keys) \cup {NoDrawer}]

\* one step of ParseList, of Without
KeepsNew(c, kept, k)  == IF k = Absent \/ Contains(kept, k) THEN kept ELSE Append(kept, k)
KeepsOther(k, kept, x) == IF x = k THEN kept ELSE Append(kept, x)

Read    == INSTANCE FoldLemmas WITH Step <- KeepsNew
Removal == INSTANCE FoldLemmas WITH Step <- KeepsOther

LEMMA Appended ==
    ASSUME NEW s \in KeyLists, NEW k \in Universe, k # Absent, ~Contains(s, k)
    PROVE  Append(s, k) \in KeyLists
<1> DEFINE t == Append(s, k)
<1>1. s \in Seq(Universe) /\ \A i \in 1..Len(s) : s[i] # k /\ s[i] # Absent
  BY DEF KeyLists, Contains
<1>2. t \in Seq(Universe) /\ Len(t) = Len(s) + 1
  BY <1>1
<1>3. \A i \in 1..Len(t) : t[i] = IF i = Len(s) + 1 THEN k ELSE s[i]
  BY <1>1
<1>4. Distinct(s)
  BY DEF KeyLists
<1> HIDE DEF t
<1>5. Distinct(t)
  BY <1>1, <1>2, <1>3, <1>4 DEF Distinct
<1>6. \A i \in DOMAIN t : t[i] # Absent
  BY <1>1, <1>2, <1>3
<1>7. t \in KeyLists
  BY <1>2, <1>5, <1>6 DEF KeyLists
<1> QED  BY <1>7 DEF t

\* What is read from a list is a filter.
LEMMA ReadsKeyLists ==
    ASSUME NEW s \in Seq(Universe)
    PROVE  ParseList(s) \in KeyLists
<1>1. \A a \in KeyLists, x \in Universe : KeepsNew(0, a, x) \in KeyLists
  BY Appended DEF KeepsNew
<1>2. Read!Fold(0, <<>>, s) = ParseList(s)
  BY DEF ParseList, KeepsNew, FoldLeft, MapThenFoldSet, Max, Read!Fold, Read!FoldLeft,
     Read!MapThenFoldSet, Read!Max
<1>3. <<>> \in KeyLists
  BY DEF KeyLists, Distinct
<1>4. PICK f : f \in Read!FoldSteps(0, <<>>, s, KeyLists)
  BY <1>1, <1>3, Read!FoldLeftSteps
<1> QED  BY <1>2, <1>4 DEF Read!FoldSteps

\* A filter is read as it was written.
LEMMA ReadsFiltersBack ==
    ASSUME NEW s \in KeyLists
    PROVE  ParseList(s) = s
<1>0. s \in Seq(Universe) /\ Distinct(s) /\ \A i \in 1..Len(s) : s[i] # Absent
  BY DEF KeyLists
<1>1. \A a \in Seq(Universe), x \in Universe : KeepsNew(0, a, x) \in Seq(Universe)
  BY DEF KeepsNew
<1>2. Read!Fold(0, <<>>, s) = ParseList(s)
  BY DEF ParseList, KeepsNew, FoldLeft, MapThenFoldSet, Max, Read!Fold, Read!FoldLeft,
     Read!MapThenFoldSet, Read!Max
<1> <<>> \in Seq(Universe)
  OBVIOUS
<1>3. PICK f : f \in Read!FoldSteps(0, <<>>, s, Seq(Universe))
  BY <1>0, <1>1, Read!FoldLeftSteps
<1>4. /\ f \in [0..Len(s) -> Seq(Universe)] /\ f[0] = <<>> /\ f[Len(s)] = ParseList(s)
      /\ \A k \in 1..Len(s) : f[k] = KeepsNew(0, f[k - 1], s[k])
  BY <1>2, <1>3 DEF Read!FoldSteps
<1> DEFINE Same(k) == Len(f[k]) = k /\ \A i \in 1..k : f[k][i] = s[i]
           P == {k \in Nat : k <= Len(s) => Same(k)}
<1>5. 0 \in P
  BY <1>4
<1>6. ASSUME NEW k \in Nat, k \in P PROVE k + 1 \in P
  <2> SUFFICES ASSUME k + 1 <= Len(s) PROVE Same(k + 1)
    OBVIOUS
  <2>1. Same(k) /\ k + 1 \in 1..Len(s) /\ (k + 1) - 1 = k
    BY <1>6, <1>0
  <2> DEFINE a == f[k]
             x == s[k + 1]
  <2>2. a \in Seq(Universe) /\ x \in Universe /\ x # Absent
    BY <1>0, <1>4, <2>1
  <2>3. ~Contains(a, x)
    <3>1. \A i \in 1..k : a[i] # x
      BY <1>0, <2>1 DEF Distinct
    <3> QED  BY <2>1, <2>2, <3>1 DEF Contains
  <2>4. f[k + 1] = Append(a, x)
    BY <1>4, <2>1, <2>2, <2>3 DEF KeepsNew
  <2>5. Len(a) = k /\ \A i \in 1..k : a[i] = s[i]
    BY <2>1
  <2> HIDE DEF a
  <2>6. Len(Append(a, x)) = k + 1
    BY <2>2, <2>5
  <2>7. \A i \in 1..(k + 1) : Append(a, x)[i] = s[i]
    BY <2>2, <2>5
  <2> QED  BY <2>4, <2>6, <2>7
<1> HIDE DEF P
<1>7. Len(s) \in P
  BY <1>0, <1>5, <1>6, Read!Induction
<1>8. Same(Len(s)) /\ ParseList(s) \in Seq(Universe)
  BY <1>0, <1>4, <1>7 DEF P
<1>9. Len(ParseList(s)) = Len(s) /\ \A i \in 1..Len(s) : ParseList(s)[i] = s[i]
  BY <1>4, <1>8
<1> HIDE DEF Same
<1> QED  BY <1>0, <1>8, <1>9

\* A filter stays one when a key is taken from it.
LEMMA RemovalKeeps ==
    ASSUME NEW s \in KeyLists, NEW k
    PROVE  Without(s, k) \in KeyLists
<1>0. s \in Seq(Universe) /\ Distinct(s) /\ \A i \in 1..Len(s) : s[i] # Absent
  BY DEF KeyLists
<1>1. \A a \in Seq(Universe), x \in Universe : KeepsOther(k, a, x) \in Seq(Universe)
  BY DEF KeepsOther
<1>2. Removal!Fold(k, <<>>, s) = Without(s, k)
  BY DEF Without, KeepsOther, FoldLeft, MapThenFoldSet, Max, Removal!Fold, Removal!FoldLeft,
     Removal!MapThenFoldSet, Removal!Max
<1> <<>> \in Seq(Universe)
  OBVIOUS
<1>3. PICK f : f \in Removal!FoldSteps(k, <<>>, s, Seq(Universe))
  BY <1>0, <1>1, Removal!FoldLeftSteps
<1>4. /\ f \in [0..Len(s) -> Seq(Universe)] /\ f[0] = <<>> /\ f[Len(s)] = Without(s, k)
      /\ \A n \in 1..Len(s) : f[n] = KeepsOther(k, f[n - 1], s[n])
  BY <1>2, <1>3 DEF Removal!FoldSteps
<1> DEFINE Fits(n) == f[n] \in KeyLists /\ \A i \in 1..Len(f[n]) : \E j \in 1..n : f[n][i] = s[j]
           P == {n \in Nat : n <= Len(s) => Fits(n)}
<1>5. 0 \in P
  BY <1>4 DEF KeyLists, Distinct
<1>6. ASSUME NEW n \in Nat, n \in P PROVE n + 1 \in P
  <2> SUFFICES ASSUME n + 1 <= Len(s) PROVE Fits(n + 1)
    OBVIOUS
  <2>1. Fits(n) /\ n + 1 \in 1..Len(s) /\ (n + 1) - 1 = n
    BY <1>6, <1>0
  <2> DEFINE a == f[n]
             x == s[n + 1]
  <2>2. x \in Universe /\ x # Absent
    BY <1>0, <2>1
  <2>3. f[n + 1] = IF x = k THEN a ELSE Append(a, x)
    BY <1>4, <2>1 DEF KeepsOther
  <2>4. a \in KeyLists /\ a \in Seq(Universe) /\ \A i \in 1..Len(a) : \E j \in 1..n : a[i] = s[j]
    BY <2>1 DEF KeyLists
  <2>5. \A j \in 1..n : s[j] # x
    BY <1>0, <2>1 DEF Distinct
  <2>6. ~Contains(a, x)
    BY <2>4, <2>5 DEF Contains
  <2> HIDE DEF a
  <2>7. Append(a, x) \in KeyLists
    BY <2>2, <2>4, <2>6, Appended
  <2>8. ASSUME NEW i \in 1..Len(Append(a, x))
        PROVE  \E j \in 1..(n + 1) : Append(a, x)[i] = s[j]
    <3>1. CASE i \in 1..Len(a)
      <4>1. Append(a, x)[i] = a[i]
        BY <2>4, <3>1
      <4> QED  BY <2>4, <3>1, <4>1
    <3>2. CASE i = Len(a) + 1
      <4>1. Append(a, x)[i] = s[n + 1]
        BY <2>4, <3>2
      <4> QED  BY <4>1
    <3> QED  BY <2>4, <3>1, <3>2
  <2>9. \A i \in 1..Len(a) : \E j \in 1..(n + 1) : a[i] = s[j]
    BY <2>4
  <2> QED  BY <2>3, <2>4, <2>7, <2>8, <2>9
<1> HIDE DEF P
<1>7. Len(s) \in P
  BY <1>0, <1>5, <1>6, Removal!Induction
<1> QED  BY <1>0, <1>4, <1>7 DEF P

-----------------------------------------------------------------------------
(* The round trip.                                                         *)

\* The fields of a query string that is written.
LEMMA Written ==
    ASSUME NEW v \in Views
    PROVE  /\ Serialize(v).filter = v.filter /\ Serialize(v).detail = v.drawer
           /\ Serialize(v).choice = [c \in Pickers |-> IF v.choice[c] = Usual[c] THEN Absent
                                                       ELSE v.choice[c]]
<1> DEFINE rest == RestOf(v)
           chosen == [c \in Pickers |-> IF v.choice[c] = Usual[c] THEN Absent ELSE v.choice[c]]
<1>1. rest.filter = v.filter /\ rest.detail = v.drawer /\ rest.choice = chosen
  BY DEF RestOf, Empty
<1>2. DOMAIN rest = {"range", "from", "to", "filter", "choice", "detail"}
  BY DEF RestOf, Empty
<1> HIDE DEF rest, chosen
<1>3. Serialize(v) = RangeParams(rest, v.range)
  BY DEF Serialize, rest
<1>4. /\ Serialize(v).filter = rest.filter /\ Serialize(v).detail = rest.detail
      /\ Serialize(v).choice = rest.choice
  BY <1>2, <1>3 DEF RangeParams
<1> QED  BY <1>1, <1>4 DEF chosen

\* A view is read back as it was written (serializeViewState, parseViewState).
LEMMA RoundTrip ==
    ASSUME NEW v \in Views
    PROVE  Parse(Serialize(v)) = v /\ Serialize(v) # Empty
<1> DEFINE q == Serialize(v)
<1>1. v.range \in Ranges /\ \A d \in Dims : v.filter[d] \in KeyLists
  BY DEF Views
<1>2. v.filter = [d \in Dims |-> v.filter[d]] /\ v.choice = [c \in Pickers |-> v.choice[c]]
  BY DEF Views, Chosen
<1>3. v = [range |-> v.range, filter |-> v.filter, choice |-> v.choice, drawer |-> v.drawer]
  BY DEF Views
<1>5. ParseRange(q) = v.range /\ q # Empty
  BY <1>1, RangeWritten
<1>6. [d \in Dims |-> ParseList(q.filter[d])] = v.filter
  BY <1>1, <1>2, Written, ReadsFiltersBack
<1>7. [c \in Pickers |-> IF q.choice[c] \in Options[c] THEN q.choice[c] ELSE Usual[c]] = v.choice
  <2>1. ASSUME NEW c \in Pickers
        PROVE  (IF q.choice[c] \in Options[c] THEN q.choice[c] ELSE Usual[c]) = v.choice[c]
    <3>1. v.choice[c] \in Options[c] /\ Absent \notin Options[c]
      BY DEF Views, Chosen
    <3>2. q.choice = [x \in Pickers |-> IF v.choice[x] = Usual[x] THEN Absent ELSE v.choice[x]]
      BY Written
    <3> QED  BY <3>1, <3>2
  <2> HIDE DEF q
  <2> QED  BY <1>2, <2>1
<1>8. ParseDrawer(q) = v.drawer
  <2>1. NoDrawer \notin Dims \X Keys
    BY DEF NoDrawer
  <2> QED  BY <2>1, Written DEF Views, ParseDrawer
<1> HIDE DEF q
<1>9. Parse(q) = v
  BY <1>3, <1>5, <1>6, <1>7, <1>8 DEF Parse
<1> QED  BY <1>5, <1>9 DEF q

\* What a page load may come with is read as a view.
LEMMA BookmarksAreViews == ASSUME NEW q \in Bookmarks PROVE Parse(q) \in Views
<1>1. ASSUME NEW d \in Dims PROVE ParseList(q.filter[d]) \in KeyLists
  <2>1. ToSet(q.filter[d]) \subseteq Universe
    BY DEF Universe
  <2>2. q.filter[d] \in Seq(ToSet(q.filter[d]))
    BY BookmarksAssumption
  <2>3. q.filter[d] \in Seq(Universe)
    BY <2>1, <2>2
  <2> QED  BY <2>3, ReadsKeyLists
<1>2. ASSUME NEW c \in Pickers
      PROVE  (IF q.choice[c] \in Options[c] THEN q.choice[c] ELSE Usual[c]) \in Options[c]
  OBVIOUS
<1>3. [c \in Pickers |-> IF q.choice[c] \in Options[c] THEN q.choice[c] ELSE Usual[c]] \in Chosen
  BY <1>2 DEF Chosen
<1>4. ParseDrawer(q) \in (Dims \X Keys) \cup {NoDrawer}
  BY DEF ParseDrawer
<1> QED  BY <1>1, <1>3, <1>4, ParsedRange DEF Parse, Views

LEMMA DefaultIsView == DefaultView \in Views
<1>1. <<>> \in KeyLists
  BY DEF KeyLists, Distinct
<1>2. Usual = [c \in Pickers |-> Usual[c]] /\ \A c \in Pickers : Usual[c] \in Options[c]
  OBVIOUS
<1>3. Usual \in Chosen
  BY <1>2 DEF Chosen
<1>4. Preset(DefaultPreset) \in Ranges
  BY DEF Ranges
<1> QED  BY <1>1, <1>3, <1>4 DEF DefaultView, Views

-----------------------------------------------------------------------------
(* The entries and the range on the screen.                                *)

\* The observed range has its entry; one nobody observes is not overdue, and is
\* about to be cleaned up or no older than GcTime when it goes.
EntryInv ==
    /\ observed # Absent => win[observed] # Absent
    /\ \A r \in Ranges : r # observed /\ win[r] # Absent =>
         clock <= gc[r] /\ (r \in cleaning \/ gc[r] <= win[r] + GcTime)

\* What is to be rendered while a clean-up is queued is the range on the screen.
MoveInv == where = "usage" /\ ~committed /\ cleaning # {} => observed = View.range

WindowInv == TypeOK /\ ShownRangeResolves /\ EntryInv /\ MoveInv

LEMMA ViewRange == View.range \in Ranges
  BY LoadedRange DEF View

LEMMA InitHolds == Init => WindowInv
<1> SUFFICES ASSUME Init PROVE WindowInv
  OBVIOUS
<1>1. shown.range \in Ranges
  BY DEF Init, DefaultView, Ranges
<1>2. win \in [Ranges -> (0..MaxClock) \cup {Absent}] /\ gc \in [Ranges -> 0..(MaxClock + GcTime)]
  BY DEF Init
<1>3. /\ where \in {"usage", "limits"} /\ cleaning \subseteq Ranges /\ clock \in 0..MaxClock
      /\ observed = Absent
  BY DEF Init
<1>4. stores \in BOOLEAN /\ rendered = FALSE /\ committed = FALSE
  BY DEF Init
<1>5. TypeOK
  BY <1>1, <1>2, <1>3, <1>4 DEF TypeOK
<1>6. EntryInv /\ MoveInv /\ ShownRangeResolves
  BY DEF Init, EntryInv, MoveInv, ShownRangeResolves
<1> QED  BY <1>5, <1>6 DEF WindowInv

-----------------------------------------------------------------------------
(* The steps on them.                                                      *)

LEMMA ClicksKeep ==
    ASSUME WindowInv, Load \/ ClickUsage \/ ClickLimits \/ \E v : Update(v)
    PROVE  WindowInv'
<1> USE DEF WindowInv, Navigate, Idle, viewVars, entryVars
<1>1. CASE Load
  BY <1>1 DEF Load, TypeOK, ShownRangeResolves, EntryInv, MoveInv
<1>2. CASE ClickUsage
  BY <1>2 DEF ClickUsage, TypeOK, ShownRangeResolves, EntryInv, MoveInv
<1>3. CASE ClickLimits
  <2>1. TypeOK'
    <3>1. gc' \in [Ranges -> 0..(MaxClock + GcTime)]
      BY <1>3 DEF ClickLimits, TypeOK
    <3>2. cleaning' \subseteq Ranges
      BY <1>3 DEF ClickLimits, TypeOK
    <3> QED  BY <1>3, <3>1, <3>2 DEF ClickLimits, TypeOK
  <2>2. EntryInv'
    BY <1>3 DEF ClickLimits, TypeOK, EntryInv
  <2> QED  BY <1>3, <2>1, <2>2 DEF ClickLimits, ShownRangeResolves, MoveInv
<1>4. ASSUME NEW v, Update(v) PROVE WindowInv'
  BY <1>4 DEF Update, TypeOK, ShownRangeResolves, EntryInv, MoveInv
<1> QED  BY <1>1, <1>2, <1>3, <1>4

LEMMA RefreshKeeps == ASSUME WindowInv, Refresh PROVE WindowInv'
<1>1. TypeOK'
  BY DEF WindowInv, TypeOK, Refresh, viewVars
<1>2. EntryInv'
  BY DEF WindowInv, TypeOK, Refresh, viewVars, EntryInv
<1>3. View' = View /\ MoveInv'
  BY DEF WindowInv, Refresh, viewVars, MoveInv, View
<1> QED  BY <1>1, <1>2, <1>3 DEF WindowInv, Refresh, viewVars, ShownRangeResolves

LEMMA RenderKeeps == ASSUME WindowInv, Render PROVE WindowInv'
<1> DEFINE r == View.range
<1>0. r \in Ranges
  BY ViewRange
<1> HIDE DEF r
<1>1. /\ win' = [win EXCEPT ![r] = Built(r)]
      /\ gc' = [gc EXCEPT ![r] = IF win[r] = Absent THEN clock + GcTime ELSE gc[r]]
      /\ UNCHANGED <<where, url, committed, asked, stored, stores, shown, observed, cleaning, clock>>
      /\ rendered' = TRUE
  BY DEF Render, r
<1>2. TypeOK'
  BY <1>0, <1>1 DEF WindowInv, TypeOK, Built
<1>3. EntryInv'
  BY <1>0, <1>1 DEF WindowInv, TypeOK, Built, EntryInv
<1>4. MoveInv' /\ ShownRangeResolves'
  BY <1>1 DEF WindowInv, MoveInv, ShownRangeResolves, View
<1> QED  BY <1>2, <1>3, <1>4 DEF WindowInv

LEMMA CommitKeeps == ASSUME WindowInv, Commit PROVE WindowInv'
<1> DEFINE r == View.range
<1>0. r \in Ranges
  BY ViewRange
<1>1. /\ shown' = View /\ observed' = r
      /\ cleaning' = cleaning \cup ({observed} \ {Absent})
      /\ win' = [win EXCEPT ![r] = Built(r)]
      /\ gc' = [x \in Ranges |-> IF x = observed /\ x # r THEN clock + GcTime ELSE gc[x]]
      /\ UNCHANGED <<where, stores, clock>>
  BY DEF Commit
<1>2. \/ url = Empty /\ url' = Serialize(View) /\ rendered' = FALSE /\ committed' = FALSE
      \/ committed' = TRUE /\ UNCHANGED rendered
  BY DEF Commit, Navigate
<1>3. MoveInv'
  <2>1. CASE url' = Serialize(View)
    BY <2>1, <1>0, <1>1, RangeSurvives DEF MoveInv, View
  <2>2. CASE committed' = TRUE
    BY <2>2 DEF MoveInv
  <2> QED  BY <2>1, <2>2, <1>2
<1>4. shown'.range = r
  BY <1>1
<1> HIDE DEF r
<1>5. TypeOK'
  <2>1. win' \in [Ranges -> (0..MaxClock) \cup {Absent}]
    BY <1>0, <1>1 DEF WindowInv, TypeOK, Built
  <2>2. gc' \in [Ranges -> 0..(MaxClock + GcTime)]
    BY <1>1 DEF WindowInv, TypeOK
  <2>3. where' \in {"usage", "limits"} /\ stores' \in BOOLEAN /\ clock' \in 0..MaxClock
    BY <1>1 DEF WindowInv, TypeOK
  <2>4. rendered' \in BOOLEAN /\ committed' \in BOOLEAN
    BY <1>2 DEF WindowInv, TypeOK
  <2>5. cleaning' \subseteq Ranges
    BY <1>1 DEF WindowInv, TypeOK
  <2> QED  BY <1>0, <1>1, <1>4, <2>1, <2>2, <2>3, <2>4, <2>5 DEF TypeOK
<1>6. EntryInv'
  BY <1>0, <1>1 DEF WindowInv, TypeOK, Built, EntryInv
<1> QED  BY <1>0, <1>1, <1>3, <1>4, <1>5, <1>6 DEF WindowInv, ShownRangeResolves

LEMMA EntriesKeep == ASSUME WindowInv, CleanUp \/ Collect \/ Tick PROVE WindowInv'
<1>1. UNCHANGED <<where, url, committed, rendered, asked, stored, stores, shown, observed, gc>>
  BY DEF CleanUp, Collect, Tick, viewVars, entryVars
<1>2. View' = View /\ cleaning' \subseteq cleaning
  BY <1>1 DEF CleanUp, Collect, Tick, View, entryVars
<1>3. TypeOK'
  <2>1. CASE CleanUp  BY <1>1, <2>1 DEF CleanUp, WindowInv, TypeOK
  <2>2. CASE Collect  BY <1>1, <2>2 DEF Collect, WindowInv, TypeOK
  <2>3. CASE Tick     BY <1>1, <2>3 DEF Tick, entryVars, WindowInv, TypeOK
  <2> QED  BY <2>1, <2>2, <2>3
<1>4. EntryInv'
  <2>1. CASE CleanUp
    BY <1>1, <2>1 DEF CleanUp, WindowInv, TypeOK, EntryInv
  <2>2. CASE Collect
    BY <1>1, <2>2 DEF Collect, Overdue, WindowInv, TypeOK, EntryInv
  <2>3. CASE Tick
    <3>1. ASSUME NEW r \in Ranges, r # observed, win[r] # Absent PROVE clock + 1 <= gc[r]
      <4>1. gc[r] # clock /\ clock <= gc[r]
        BY <2>3, <3>1 DEF Tick, Overdue, WindowInv, EntryInv
      <4> QED  BY <4>1 DEF WindowInv, TypeOK
    <3> QED  BY <1>1, <2>3, <3>1 DEF Tick, entryVars, WindowInv, EntryInv
  <2> QED  BY <2>1, <2>2, <2>3
<1> QED  BY <1>1, <1>2, <1>3, <1>4 DEF WindowInv, ShownRangeResolves, MoveInv

\* Entries, clean-ups and the range on the screen fit together in every reachable state.
THEOREM WindowInvariance == Spec => []WindowInv
<1>1. WindowInv /\ [Next]_vars => WindowInv'
  <2> SUFFICES ASSUME WindowInv, [Next]_vars PROVE WindowInv'
    OBVIOUS
  <2>1. CASE PickRange \/ Choose \/ OpenDrawer \/ CloseDrawer \/ Scope \/ Toggle
    BY <2>1, ClicksKeep DEF PickRange, Choose, OpenDrawer, CloseDrawer, Scope, Toggle
  <2>2. CASE Load \/ ClickUsage \/ ClickLimits
    BY <2>2, ClicksKeep
  <2>3. CASE UNCHANGED vars
    BY <2>3 DEF vars, viewVars, entryVars, WindowInv, TypeOK, ShownRangeResolves, EntryInv, MoveInv,
       View
  <2> QED  BY <2>1, <2>2, <2>3, RefreshKeeps, RenderKeeps, CommitKeeps, EntriesKeep DEF Next
<1> QED  BY <1>1, InitHolds, PTL DEF Spec

-----------------------------------------------------------------------------
(* What follows.                                                           *)

\* What the page, its entries and localStorage hold has its type.
THEOREM WindowTypeCorrect == Spec => []TypeOK
<1>1. WindowInv => TypeOK
  BY DEF WindowInv
<1> QED  BY <1>1, WindowInvariance, PTL

\* Whatever the page is loaded with, its range resolves to a window (viewState.ts, parseRange).
THEOREM ShownRangeResolvesHolds == Spec => []ShownRangeResolves
<1>1. WindowInv => ShownRangeResolves
  BY DEF WindowInv
<1> QED  BY <1>1, WindowInvariance, PTL

\* A range that comes on the screen shows a window computed for this occasion (useUsageWindow).
THEOREM WindowIsFreshHolds == Spec => WindowIsFresh
<1> DEFINE Fresh == observed' \notin {observed, Absent}
                      => win'[observed'] # Absent /\ win'[observed'] + GcTime >= clock
<1>1. WindowInv /\ [Next]_vars => [Fresh]_vars
  <2> SUFFICES ASSUME WindowInv, Next, observed' \notin {observed, Absent}
               PROVE  win'[observed'] # Absent /\ win'[observed'] + GcTime >= clock
    OBVIOUS
  <2>1. Commit
    BY DEF Next, Load, ClickUsage, ClickLimits, PickRange, Choose, OpenDrawer, CloseDrawer, Scope,
       Toggle, Update, Refresh, Render, CleanUp, Collect, Tick, entryVars, viewVars
  <2> DEFINE r == View.range
  <2>2. r \in Ranges /\ observed' = r /\ win' = [win EXCEPT ![r] = Built(r)] /\ r # observed
    BY <2>1, ViewRange DEF Commit
  <2>3. cleaning = {}
    BY <2>1, <2>2 DEF Commit, WindowInv, MoveInv
  <2> HIDE DEF r
  <2>4. win'[r] = Built(r)
    BY <2>2 DEF WindowInv, TypeOK
  <2>5. CASE win[r] = Absent
    BY <2>2, <2>4, <2>5 DEF Built, WindowInv, TypeOK
  <2>6. CASE win[r] # Absent
    BY <2>2, <2>3, <2>4, <2>6 DEF Built, WindowInv, TypeOK, EntryInv
  <2> QED  BY <2>2, <2>5, <2>6
<1> QED  BY <1>1, WindowInvariance, PTL DEF Spec, WindowIsFresh

\* The window of the range on the screen stays, whatever is cleaned up (useUsageWindow).
THEOREM WindowIsKeptHolds == Spec => WindowIsKept
<1> DEFINE Kept == observed # Absent /\ observed' = observed /\ win'[observed] # win[observed]
                     => Refresh
<1>1. WindowInv /\ [Next]_vars => [Kept]_vars
  <2> SUFFICES ASSUME WindowInv, Next, observed # Absent, observed' = observed, ~Refresh
               PROVE  win'[observed] = win[observed]
    OBVIOUS
  <2>1. win[observed] # Absent /\ observed \in Ranges
    BY DEF WindowInv, EntryInv, TypeOK
  <2>2. CASE Load
    BY <2>2 DEF Load
  <2>3. CASE Render \/ Commit
    BY <2>1, <2>3, ViewRange DEF Render, Commit, Built, WindowInv, TypeOK
  <2>4. CASE CleanUp \/ Collect
    BY <2>1, <2>4 DEF CleanUp, Collect, Overdue, WindowInv, TypeOK
  <2> QED  BY <2>2, <2>3, <2>4 DEF Next, ClickUsage, ClickLimits, PickRange, Choose, OpenDrawer,
              CloseDrawer, Scope, Toggle, Update, Tick, entryVars
<1> QED  BY <1>1, WindowInvariance, PTL DEF Spec, WindowIsKept

-----------------------------------------------------------------------------
(* The view: the URL, the screen and localStorage.                         *)

\* What is saved is the view committed last; nothing is where nothing can be.
SavedInv == /\ stored # Empty => stored = Saved(shown)
            /\ ~stores => stored = Empty

\* The URL still holds what was asked for, and what is committed was read from it.
AskedInv == /\ asked # Absent => asked \in Views /\ url = Serialize(asked)
            /\ where = "usage" /\ committed => url # Empty /\ shown = Parse(url)

ViewInv == shown \in Views /\ Parse(url) \in Views /\ SavedInv /\ AskedInv

\* A view to be restored is one, but for its drawer the one shown last.
LEMMA Restored ==
    ASSUME ViewInv
    PROVE  /\ [shown EXCEPT !.drawer = NoDrawer] \in Views
           /\ stored # Empty => Parse(stored) = [shown EXCEPT !.drawer = NoDrawer]
           /\ View \in Views
<1>1. [shown EXCEPT !.drawer = NoDrawer] \in Views
  BY DEF ViewInv, Views
<1>2. stored # Empty => Parse(stored) = [shown EXCEPT !.drawer = NoDrawer]
  BY <1>1, RoundTrip DEF ViewInv, SavedInv, Saved
<1>3. View \in Views
  BY <1>1, <1>2, DefaultIsView DEF ViewInv, View, LoadView
<1> QED  BY <1>1, <1>2, <1>3

LEMMA ViewInitHolds == Init => ViewInv
<1> SUFFICES ASSUME Init PROVE ViewInv
  OBVIOUS
<1>1. shown \in Views /\ Parse(url) \in Views
  BY DefaultIsView, BookmarksAreViews DEF Init
<1> QED  BY <1>1 DEF Init, ViewInv, SavedInv, AskedInv

\* Any view may be asked for.
LEMMA UpdateKeepsView ==
    ASSUME ViewInv, NEW v \in Views, Update(v)
    PROVE  ViewInv'
<1>1. Parse(url') = v /\ url' = Serialize(v)
  BY RoundTrip DEF Update, Navigate
<1> QED  BY <1>1 DEF Update, Navigate, ViewInv, SavedInv, AskedInv

\* What the user can ask for is a view.
LEMMA ClicksAskForViews ==
    ASSUME ViewInv, PickRange \/ Choose \/ OpenDrawer \/ CloseDrawer \/ Scope \/ Toggle
    PROVE  \E v \in Views : Update(v)
<1>0. /\ shown \in Views /\ shown.filter \in [Dims -> KeyLists] /\ shown.choice \in Chosen
      /\ shown.drawer \in (Dims \X Keys) \cup {NoDrawer}
  BY DEF ViewInv, Views
<1>1. ASSUME NEW k \in Keys PROVE k \in Universe /\ k # Absent
  BY DEF Universe
<1>2. CASE PickRange
  <2>1. \A r \in Ranges : [shown EXCEPT !.range = r] \in Views
    BY <1>0 DEF Views
  <2> QED  BY <1>2, <2>1 DEF PickRange
<1>3. CASE Choose
  <2>1. ASSUME NEW c \in Pickers, NEW o \in Options[c]
        PROVE  [shown EXCEPT !.choice[c] = o] \in Views
    <3>1. [shown.choice EXCEPT ![c] = o] \in Chosen
      BY <1>0 DEF Chosen
    <3> QED  BY <1>0, <3>1 DEF Views
  <2> QED  BY <1>3, <2>1 DEF Choose
<1>4. CASE OpenDrawer
  <2>1. \A d \in Dims, k \in Keys : [shown EXCEPT !.drawer = <<d, k>>] \in Views
    BY <1>0 DEF Views
  <2> QED  BY <1>4, <2>1 DEF OpenDrawer
<1>5. CASE CloseDrawer
  BY <1>5, Restored DEF CloseDrawer
<1>6. CASE Scope
  <2>1. PICK d \in Dims, k \in Keys : shown.drawer = <<d, k>>
    BY <1>0, <1>6 DEF Scope
  <2>2. <<k>> \in KeyLists
    BY <1>1 DEF KeyLists, Distinct
  <2>3. ScopeToEntity(shown) = [shown EXCEPT !.filter[d] = <<k>>, !.drawer = NoDrawer]
    BY <2>1 DEF ScopeToEntity
  <2>4. [shown EXCEPT !.filter[d] = <<k>>, !.drawer = NoDrawer] \in Views
    BY <1>0, <2>2 DEF Views
  <2> QED  BY <1>6, <2>3, <2>4 DEF Scope
<1>7. CASE Toggle
  <2>1. PICK d \in Dims, k \in Keys :
          Update([shown EXCEPT !.filter[d] =
                    IF Contains(@, k) THEN Without(@, k) ELSE Append(@, k)])
    BY <1>7 DEF Toggle
  <2> DEFINE s == shown.filter[d]
             t == IF Contains(s, k) THEN Without(s, k) ELSE Append(s, k)
  <2>2. s \in KeyLists
    BY <1>0
  <2> HIDE DEF s
  <2>3. t \in KeyLists
    BY <1>1, <2>2, RemovalKeeps, Appended
  <2>4. Update([shown EXCEPT !.filter[d] = t])
    BY <2>1 DEF s
  <2> HIDE DEF t
  <2>5. [shown EXCEPT !.filter[d] = t] \in Views
    BY <1>0, <2>3 DEF Views
  <2> QED  BY <2>4, <2>5
<1> QED  BY <1>2, <1>3, <1>4, <1>5, <1>6, <1>7

LEMMA CommitKeepsView == ASSUME ViewInv, Commit PROVE ViewInv'
<1>1. shown' = View /\ View \in Views /\ stores' = stores /\ where' = "usage"
  BY Restored DEF Commit
<1>2. SavedInv'
  BY <1>1 DEF Commit, ViewInv, SavedInv
<1>3. CASE url = Empty
  <2>1. url' = Serialize(View) /\ asked' = View /\ committed' = FALSE
    BY <1>3 DEF Commit, Navigate
  <2>2. Parse(url') \in Views
    BY <1>1, <2>1, RoundTrip
  <2> QED  BY <1>1, <1>2, <2>1, <2>2 DEF ViewInv, AskedInv
<1>4. CASE url # Empty
  <2>1. View = Parse(url) /\ UNCHANGED <<url, asked>>
    BY <1>4 DEF Commit, View, LoadView
  <2> QED  BY <1>1, <1>2, <1>4, <2>1 DEF ViewInv, AskedInv
<1> QED  BY <1>3, <1>4

LEMMA OthersKeepView ==
    ASSUME ViewInv, \/ Load \/ ClickUsage \/ ClickLimits \/ Refresh \/ Render
                    \/ CleanUp \/ Collect \/ Tick \/ UNCHANGED vars
    PROVE  ViewInv'
<1>1. CASE Load
  <2>1. /\ url' \in Bookmarks /\ asked' = Absent /\ committed' = FALSE
        /\ UNCHANGED <<stored, stores, shown>>
    BY <1>1 DEF Load, Navigate
  <2> QED  BY <2>1, BookmarksAreViews DEF ViewInv, SavedInv, AskedInv
<1>2. CASE ClickUsage \/ ClickLimits
  <2>1. /\ url' = Empty /\ asked' = Absent /\ committed' = FALSE
        /\ UNCHANGED <<stored, stores, shown>>
    BY <1>2 DEF ClickUsage, ClickLimits, Navigate
  <2> QED  BY <2>1, BookmarksAreViews DEF ViewInv, SavedInv, AskedInv
<1>3. CASE \/ Refresh \/ Render \/ CleanUp \/ Collect \/ Tick \/ UNCHANGED vars
  <2>1. UNCHANGED <<where, url, stored, stores, shown, committed, asked>>
    BY <1>3 DEF Refresh, Render, CleanUp, Collect, Tick, vars, viewVars
  <2> QED  BY <2>1 DEF ViewInv, SavedInv, AskedInv
<1> QED  BY <1>1, <1>2, <1>3

\* The URL, the screen and localStorage agree in every reachable state.
THEOREM ViewInvariance == Spec => []ViewInv
<1>1. ViewInv /\ [Next]_vars => ViewInv'
  BY UpdateKeepsView, ClicksAskForViews, CommitKeepsView, OthersKeepView DEF Next
<1> QED  BY <1>1, ViewInitHolds, PTL DEF Spec

\* What the user asked for is what the page shows once it has settled.
THEOREM AskedIsShownHolds == Spec => []AskedIsShown
<1>1. ViewInv => AskedIsShown
  BY RoundTrip DEF ViewInv, AskedInv, AskedIsShown
<1> QED  BY <1>1, ViewInvariance, PTL

\* Coming back restores the view shown last with its drawer closed.
THEOREM ReturnRestoresHolds == Spec => ReturnRestores
<1> DEFINE Back == Commit /\ url = Empty /\ (stores => stored # Empty)
                     => shown' = IF stores THEN [shown EXCEPT !.drawer = NoDrawer] ELSE DefaultView
<1>1. ViewInv /\ [Next]_vars => [Back]_vars
  <2> SUFFICES ASSUME ViewInv, Commit, url = Empty, stores => stored # Empty
               PROVE  shown' = IF stores THEN [shown EXCEPT !.drawer = NoDrawer] ELSE DefaultView
    OBVIOUS
  <2>1. shown' = IF stored # Empty THEN Parse(stored) ELSE DefaultView
    BY DEF Commit, View, LoadView
  <2> QED  BY <2>1, Restored DEF ViewInv, SavedInv
<1> QED  BY <1>1, ViewInvariance, PTL DEF Spec, ReturnRestores
=============================================================================
