------------------------- MODULE UsageServerProofs -------------------------
(***************************************************************************)
(* The usage server.  UsageRead's properties for every set of rows, every  *)
(* query, redaction and every slice and bucket width that nest; UsageSums' *)
(* axis for every window, any number of changes of a zone and every length *)
(* of slice, hour, day and week that nest, wherever the axis is regular,   *)
(* and its costs for all usages, price maps and thresholds; and what the   *)
(* pricing cache promises, for any number of servers, TTL and latency.     *)
(***************************************************************************)
EXTENDS PricingCache, UsageRead, UsageSums, FiniteSetTheorems, TLAPS

(***************************************************************************)
(* Usage requests against commits (UsageRead).                             *)
(***************************************************************************)

AfterFilters == {"models", "cells", "prev models", "prev cells", "answered"}

\* What each SELECT has established, kept by the commits after it.
FiltersInv ==
    /\ req.at \in AfterFilters => req.todo = {}
    /\ \A col \in DOMAIN req.ask.keys \ req.todo :
         /\ \A v \in req.raw[col] : Shown(col, v) \in req.ask.keys[col]
         /\ \A r \in req.before : Shown(col, Raw(col, r)) \in req.ask.keys[col]
                                    => Raw(col, r) \in req.raw[col]

AxisInv ==
    req.at \in AfterFilters =>
        IF req.ask.start # None THEN req.axis = FloorToBucket(req.ask.start)
        ELSE \A r \in req.before : Positioned(r)

ModelsInv ==
    /\ req.at \in {"cells", "prev cells"} => ModelsOf(req.before) \subseteq req.known
    /\ req.at = "KeyError" => rows # req.before

CellsInv ==
    /\ req.at \in {"prev models", "prev cells", "answered"} =>
         /\ Wanted(req.before, Window) \subseteq req.cells
         /\ req.cells \subseteq Wanted(rows, Window)
    /\ req.at = "answered" /\ req.ask.start # None =>
         /\ Wanted(req.before, Previous) \subseteq req.prev
         /\ req.prev \subseteq Wanted(rows, Previous)
    /\ req.at \in {"prev models", "prev cells"} => req.ask.start # None

\* A request in any state: its fields are those Fresh gives it.
Request == [at : Running \cup Over, ask : Asks \cup {Everything}, todo : SUBSET Columns,
            raw : [Columns -> SUBSET UNION {{Raw(col, r) : r \in Rows} : col \in Columns}],
            known : SUBSET ModelsOf(Rows), axis : Nat,
            cells : SUBSET Rows, prev : SUBSET Rows, before : SUBSET Rows]

\* Only the queries of clients have filters and an axis.
AskInv == req.at = "filters" => req.ask \in Asks

ReadInv ==
    /\ AskInv
    /\ req \in Request
    /\ ReadTypeOK
    /\ FiltersInv
    /\ AxisInv
    /\ ModelsInv
    /\ CellsInv
-----------------------------------------------------------------------------
\* The multiples of b around a.
LEMMA DivisionBounds ==
    ASSUME NEW a \in Nat, NEW b \in Nat \ {0}
    PROVE  /\ a \div b \in Nat
           /\ (a \div b) * b \in Nat
           /\ (a \div b) * b <= a
           /\ a < (a \div b) * b + b
  OBVIOUS

\* Rounding down to a multiple of b keeps every multiple of b below.
LEMMA DivisionKeeps ==
    ASSUME NEW a \in Nat, NEW b \in Nat \ {0}, NEW n \in Nat, n * b <= a
    PROVE  n * b <= (a \div b) * b
<1>1. CASE n <= a \div b
  BY <1>1, DivisionBounds
<1>2. CASE n >= a \div b + 1
  <2>1. n * b >= (a \div b + 1) * b
    BY <1>2, DivisionBounds
  <2>2. (a \div b + 1) * b = (a \div b) * b + b
    BY DivisionBounds
  <2> QED
    BY <2>1, <2>2, DivisionBounds
<1> QED
  BY <1>1, <1>2, DivisionBounds

\* A row of the second of s or a later one lies in a slice of the bucket of s
\* or a later one, since slices hold whole seconds and buckets whole slices.
LEMMA SlicesFollowSeconds ==
    ASSUME NEW s \in Nat, NEW t \in Nat, Truncated(s) <= Truncated(t)
    PROVE  /\ FloorToBucket(s) \in Nat
           /\ FloorToBucket(s) <= (t \div Slice) * Slice
<1> DEFINE q == s \div BucketWidth
           k == BucketWidth \div Slice
           m == Slice \div Second
<1>1. Second \in Nat \ {0} /\ Slice \in Nat \ {0} /\ BucketWidth \in Nat \ {0}
  BY WidthsAssumption
<1>2. BucketWidth = k * Slice /\ k \in Nat
  BY <1>1, WidthsAssumption
<1>3. Slice = m * Second /\ m \in Nat
  BY <1>1, WidthsAssumption
<1>4. q \in Nat /\ q * BucketWidth \in Nat /\ q * BucketWidth <= s
  BY <1>1, DivisionBounds
<1> HIDE DEF q, k, m
<1>5. q * BucketWidth = (q * k) * Slice /\ q * k \in Nat
  BY <1>1, <1>2, <1>4
<1>6. q * BucketWidth = ((q * k) * m) * Second /\ (q * k) * m \in Nat
  BY <1>1, <1>3, <1>5
<1>7. q * BucketWidth <= (s \div Second) * Second
  BY <1>1, <1>4, <1>6, DivisionKeeps
<1>8. (s \div Second) * Second <= (t \div Second) * Second
  <2> DEFINE x == s \div Second
             y == t \div Second
  <2>1. x \in Nat /\ y \in Nat /\ x <= y
    BY <1>1, DivisionBounds DEF Truncated
  <2> HIDE DEF x, y
  <2>2. x * Second <= y * Second
    BY <1>1, <2>1
  <2> QED
    BY <2>2 DEF x, y
<1>9. q * BucketWidth <= t
  BY <1>1, <1>4, <1>7, <1>8, DivisionBounds
<1>10. q * BucketWidth <= (t \div Slice) * Slice
  BY <1>1, <1>5, <1>9, DivisionKeeps
<1> QED
  BY <1>4, <1>10 DEF q, FloorToBucket
-----------------------------------------------------------------------------
LEMMA AsksTyped ==
    ASSUME NEW a \in Asks \cup {Everything}
    PROVE  /\ DOMAIN a.keys \subseteq Columns
           /\ a.start = None \/ (a.start \in Nat /\ a.end \in Nat /\ a.end - a.start <= a.start)
           /\ a.start = None => a.start \notin Nat
<1>1. CASE a \in Asks
  BY <1>1, AsksAssumption DEF None
<1>2. CASE a = Everything
  BY <1>2 DEF Everything, None
<1> QED
  BY <1>1, <1>2

LEMMA InitInv == ReadInit => ReadInv
<1> SUFFICES ASSUME NEW a \in Asks, rows = {}, req = Fresh("none", a, {}) PROVE ReadInv
  BY DEF ReadInit
<1>1. req \in Request
  BY AsksTyped DEF Fresh, Request, Over
<1> QED
  BY <1>1 DEF ReadInv, AskInv, Fresh, ReadTypeOK, Over, FiltersInv, AxisInv, AfterFilters, ModelsInv, CellsInv

\* A commit disturbs nothing a request has established.
LEMMA CommitKeeps == ReadInv /\ Commit => ReadInv'
<1> SUFFICES ASSUME ReadInv, NEW batch \in SUBSET (Rows \ rows), batch # {},
                    rows' = rows \cup batch, req' = req
             PROVE  ReadInv'
  BY DEF Commit
<1>1. ReadTypeOK' /\ (req \in Request)'
  BY DEF ReadInv, ReadTypeOK, ModelsOf, Request
<1>2. FiltersInv'
  BY DEF ReadInv, FiltersInv
<1>3. AxisInv'
  BY DEF ReadInv, AxisInv, Positioned
<1>4. ModelsInv'
  BY DEF ReadInv, ModelsInv, ModelsOf, ReadTypeOK
<1>5. CellsInv'
  BY DEF ReadInv, CellsInv, Wanted, Window, Previous, Within
<1> QED
  BY <1>1, <1>2, <1>3, <1>4, <1>5 DEF ReadInv, AskInv

LEMMA OpenKeeps ==
    ASSUME ReadInv, NEW a \in Asks, Open(a)
    PROVE  ReadInv'
<1> USE DEF Open, Fresh
<1>1. (req \in Request)'
  BY AsksTyped DEF ReadInv, ReadTypeOK, Request, Running
<1>2. ReadTypeOK'
  BY <1>1 DEF ReadInv, ReadTypeOK, Request
<1> QED
  BY <1>1, <1>2 DEF ReadInv, AskInv, FiltersInv, AxisInv, AfterFilters, ModelsInv, CellsInv

LEMMA OpenOptionsKeeps == ReadInv /\ OpenOptions => ReadInv'
<1> SUFFICES ASSUME ReadInv, OpenOptions PROVE ReadInv'
  OBVIOUS
<1> USE DEF OpenOptions, Fresh
<1>1. req' \in Request /\ req'.ask = Everything /\ req'.todo = {} /\ DOMAIN req'.ask.keys = {}
  <2>1. DOMAIN Everything.keys = {}
    BY DEF Everything
  <2> QED
    BY <2>1 DEF ReadInv, ReadTypeOK, Request, Running
<1>2. ReadTypeOK'
  BY <1>1 DEF ReadInv, ReadTypeOK, Request
<1>3. FiltersInv'
  BY <1>1 DEF FiltersInv
<1>4. AxisInv'
  <2>1. \A r \in rows : (Instant(r) \div Slice) * Slice \in Nat
    BY DivisionBounds, WidthsAssumption, InstantAssumption DEF ReadInv, ReadTypeOK
  <2>2. req'.axis = 0 /\ req'.before = rows /\ req'.ask.start = None
    BY DEF Everything
  <2> QED
    BY <2>1, <2>2 DEF AxisInv, Positioned
<1> QED
  BY <1>1, <1>2, <1>3, <1>4 DEF ReadInv, AskInv, ModelsInv, CellsInv

LEMMA ResolveFilterKeeps ==
    ASSUME ReadInv, NEW col \in Columns, ResolveFilter(col)
    PROVE  ReadInv'
<1> DEFINE vals == {v \in {Raw(col, r) : r \in rows} : Shown(col, v) \in req.ask.keys[col]}
<1>1. /\ req' = [req EXCEPT !.todo = @ \ {col}, !.raw[col] = vals]
      /\ rows' = rows
      /\ req.at = "filters"
      /\ col \in req.todo
  BY DEF ResolveFilter
<1>2. (req \in Request)'
  <2>1. vals \in SUBSET UNION {{Raw(c, r) : r \in Rows} : c \in Columns}
    BY DEF ReadInv, ReadTypeOK
  <2> HIDE DEF vals
  <2> QED
    BY <1>1, <2>1 DEF ReadInv, Request
<1>3. ReadTypeOK'
  BY <1>1, <1>2 DEF ReadInv, ReadTypeOK, Request
<1>4. FiltersInv'
  <2>1. \A v \in vals : Shown(col, v) \in req.ask.keys[col]
    OBVIOUS
  <2>2. \A r \in req.before : Shown(col, Raw(col, r)) \in req.ask.keys[col] => Raw(col, r) \in vals
    BY DEF ReadInv, ReadTypeOK
  <2> HIDE DEF vals
  <2>3. req'.raw = [req.raw EXCEPT ![col] = vals] /\ req'.ask = req.ask /\ req'.before = req.before
        /\ req'.todo = req.todo \ {col} /\ req'.at = "filters"
    BY <1>1 DEF ReadInv, Request
  <2>4. \A d \in Columns : req'.raw[d] = IF d = col THEN vals ELSE req.raw[d]
    BY <2>3 DEF ReadInv, Request
  <2>5. DOMAIN req.ask.keys \subseteq Columns
    BY AsksTyped DEF ReadInv, ReadTypeOK
  <2>6. ASSUME NEW d \in DOMAIN req.ask.keys \ req'.todo
        PROVE  /\ \A v \in req'.raw[d] : Shown(d, v) \in req.ask.keys[d]
               /\ \A r \in req.before : Shown(d, Raw(d, r)) \in req.ask.keys[d]
                                          => Raw(d, r) \in req'.raw[d]
    <3>1. CASE d = col
      BY <3>1, <2>1, <2>2, <2>4
    <3>2. CASE d # col
      BY <3>2, <2>3, <2>4, <2>5, <2>6 DEF ReadInv, FiltersInv
    <3> QED
      BY <3>1, <3>2
  <2> QED
    BY <2>3, <2>6 DEF FiltersInv, AfterFilters
<1> QED
  BY <1>1, <1>2, <1>3, <1>4 DEF ReadInv, AskInv, AxisInv, ModelsInv, CellsInv, AfterFilters, Request
LEMMA ReadAxisKeeps == ReadInv /\ ReadAxis => ReadInv'
<1> SUFFICES ASSUME ReadInv, ReadAxis PROVE ReadInv'
  OBVIOUS
<1>0. req.at = "filters" /\ req.todo = {} /\ rows' = rows
  BY DEF ReadAxis
<1>1. PICK start \in IF req.ask.start # None THEN {req.ask.start}
                     ELSE IF rows = {} THEN {req.ask.end}
                     ELSE {Instant(r) : r \in {s \in rows : Oldest(s)}} :
        req' = [req EXCEPT !.at = "models", !.axis = FloorToBucket(start)]
  BY DEF ReadAxis
<1>2. \A r \in rows : Instant(r) \in Nat
  BY InstantAssumption DEF ReadInv, ReadTypeOK
<1>3. FloorToBucket(start) \in Nat
  <2>1. req.ask \in Asks
    BY <1>0 DEF ReadInv, AskInv
  <2>2. start \in Nat
    BY <1>1, <1>2, <2>1, AsksAssumption
  <2> QED
    BY <2>2, SlicesFollowSeconds, DivisionBounds, WidthsAssumption DEF Truncated
<1>4. (req \in Request)'
  BY <1>1, <1>3 DEF ReadInv, Request, Running
<1>5. ReadTypeOK'
  BY <1>0, <1>1, <1>4 DEF ReadInv, ReadTypeOK, Request
<1>6. FiltersInv'
  BY <1>0, <1>1 DEF ReadInv, FiltersInv, Request
<1>7. AxisInv'
  <2>1. CASE req.ask.start # None
    BY <1>1, <2>1 DEF ReadInv, AxisInv, Request
  <2>2. CASE req.ask.start = None /\ rows = {}
    BY <1>1, <2>2 DEF ReadInv, AxisInv, Request, ReadTypeOK
  <2>3. CASE req.ask.start = None /\ rows # {}
    <3>1. PICK s \in rows : Oldest(s) /\ start = Instant(s)
      BY <1>1, <2>3
    <3>2. ASSUME NEW r \in req.before
          PROVE  FloorToBucket(start) <= (Instant(r) \div Slice) * Slice
      <4>1. r \in rows /\ Truncated(start) <= Truncated(Instant(r))
        BY <3>1 DEF Oldest, ReadInv, ReadTypeOK
      <4> QED
        BY <1>2, <3>1, <4>1, SlicesFollowSeconds
    <3>3. \A r \in req.before : (Instant(r) \div Slice) * Slice \in Nat
      BY <1>2, DivisionBounds, WidthsAssumption DEF ReadInv, ReadTypeOK
    <3> QED
      BY <1>1, <1>3, <2>3, <3>2, <3>3 DEF ReadInv, AxisInv, Positioned, Request
  <2> QED
    BY <2>1, <2>2, <2>3
<1> QED
  BY <1>0, <1>1, <1>4, <1>5, <1>6, <1>7 DEF ReadInv, AskInv, ModelsInv, CellsInv, Request

LEMMA ReadModelsKeeps == ReadInv /\ ReadModels => ReadInv'
<1> SUFFICES ASSUME ReadInv, ReadModels PROVE ReadInv'
  OBVIOUS
<1>1. /\ rows' = rows
      /\ req.at \in {"models", "prev models"}
      /\ req' = [req EXCEPT !.at = IF req.at = "models" THEN "cells" ELSE "prev cells",
                            !.known = DistinctModels]
  BY DEF ReadModels
<1>2. DistinctModels = ModelsOf(rows) /\ DistinctModels \subseteq ModelsOf(Rows)
  BY DEF DistinctModels, ModelsOf, ReadInv, ReadTypeOK
<1>3. (req \in Request)'
  BY <1>1, <1>2 DEF ReadInv, Request, Running
<1>4. ReadTypeOK'
  BY <1>1, <1>2, <1>3 DEF ReadInv, ReadTypeOK, Request
<1>5. FiltersInv' /\ AxisInv'
  BY <1>1, <1>4 DEF ReadInv, FiltersInv, AxisInv, AfterFilters, Positioned, Request
<1>6. ModelsInv'
  BY <1>1, <1>2 DEF ReadInv, ModelsInv, ModelsOf, Request, ReadTypeOK
<1>7. CellsInv'
  BY <1>1 DEF ReadInv, CellsInv, Wanted, Window, Previous, Within, Request
<1> QED
  BY <1>1, <1>3, <1>4, <1>5, <1>6, <1>7 DEF ReadInv, AskInv, Request

\* The raw values select what the keys asked for do: all of it that was there
\* when the request began, and nothing else.
LEMMA WhereIsWanted ==
    ASSUME ReadInv, req.at \in AfterFilters, NEW w
    PROVE  /\ Wanted(req.before, w) \subseteq Where(w)
           /\ Where(w) \subseteq Wanted(rows, w)
  BY DEF ReadInv, FiltersInv, Wanted, Where, Passes, ReadTypeOK

\* A model that was not read was committed later.
LEMMA UnknownModelIsNew ==
    ASSUME ReadInv, req.at \in {"cells", "prev cells"}, NEW w,
           ~ ModelsOf(Where(w)) \subseteq req.known
    PROVE  rows # req.before
  BY DEF ReadInv, ModelsInv, ModelsOf, Where

LEMMA ReadCellsKeeps == ReadInv /\ ReadCells => ReadInv'
<1> SUFFICES ASSUME ReadInv, ReadCells PROVE ReadInv'
  OBVIOUS
<1> DEFINE cells == Where(Window)
<1>0. req.at = "cells" /\ rows' = rows
  BY DEF ReadCells
<1>1. CASE ~ ModelsOf(cells) \subseteq req.known /\ req' = [req EXCEPT !.at = "KeyError"]
  <2>1. rows # req.before
    BY <1>0, <1>1, UnknownModelIsNew
  <2> QED
    BY <1>0, <1>1, <2>1 DEF ReadInv, AskInv, Request, Over, ReadTypeOK, FiltersInv, AxisInv, AfterFilters, ModelsInv, CellsInv
<1>2. CASE req' = [req EXCEPT !.at = IF req.ask.start = None THEN "answered" ELSE "prev models",
                              !.cells = cells]
  <2>1. /\ Wanted(req.before, Window) \subseteq cells
        /\ cells \subseteq Wanted(rows, Window)
    BY <1>0, WhereIsWanted DEF AfterFilters
  <2>2. cells \subseteq rows
    BY DEF Where
  <2> HIDE DEF cells
  <2>3. (req \in Request)'
    BY <1>2, <2>2 DEF ReadInv, Request, Running, Over, ReadTypeOK
  <2>4. ReadTypeOK'
    BY <1>0, <1>2, <2>2, <2>3 DEF ReadInv, ReadTypeOK, Request
  <2>5. FiltersInv' /\ AxisInv' /\ ModelsInv'
    BY <1>0, <1>2 DEF ReadInv, FiltersInv, AxisInv, ModelsInv, AfterFilters, Positioned, Request
  <2>6. CellsInv'
    BY <1>0, <1>2, <2>1 DEF ReadInv, CellsInv, Wanted, Window, Previous, Within, Request
  <2> QED
    BY <1>0, <1>2, <2>3, <2>4, <2>5, <2>6 DEF ReadInv, AskInv, Request
<1> QED
  BY <1>1, <1>2 DEF ReadCells

LEMMA ReadPreviousKeeps == ReadInv /\ ReadPrevious => ReadInv'
<1> SUFFICES ASSUME ReadInv, ReadPrevious PROVE ReadInv'
  OBVIOUS
<1> DEFINE cells == Where(Previous)
<1>0. req.at = "prev cells" /\ rows' = rows
  BY DEF ReadPrevious
<1>1. CASE ~ ModelsOf(cells) \subseteq req.known /\ req' = [req EXCEPT !.at = "KeyError"]
  <2>1. rows # req.before
    BY <1>0, <1>1, UnknownModelIsNew
  <2> QED
    BY <1>0, <1>1, <2>1 DEF ReadInv, AskInv, Request, Over, ReadTypeOK, FiltersInv, AxisInv, AfterFilters, ModelsInv, CellsInv
<1>2. CASE req' = [req EXCEPT !.at = "answered", !.prev = cells]
  <2>1. /\ Wanted(req.before, Previous) \subseteq cells
        /\ cells \subseteq Wanted(rows, Previous)
    BY <1>0, WhereIsWanted DEF AfterFilters
  <2>2. cells \subseteq rows
    BY DEF Where
  <2> HIDE DEF cells
  <2>3. (req \in Request)'
    BY <1>2, <2>2 DEF ReadInv, Request, Running, Over, ReadTypeOK
  <2>4. ReadTypeOK'
    BY <1>0, <1>2, <2>2, <2>3 DEF ReadInv, ReadTypeOK, Request
  <2>5. FiltersInv' /\ AxisInv' /\ ModelsInv'
    BY <1>0, <1>2 DEF ReadInv, FiltersInv, AxisInv, ModelsInv, AfterFilters, Positioned, Request
  <2>6. CellsInv'
    BY <1>0, <1>2, <2>1 DEF ReadInv, CellsInv, Wanted, Window, Previous, Within, Request
  <2> QED
    BY <1>0, <1>2, <2>3, <2>4, <2>5, <2>6 DEF ReadInv, AskInv, Request
<1> QED
  BY <1>1, <1>2 DEF ReadPrevious

LEMMA LockedKeeps == ReadInv /\ Locked => ReadInv'
<1> SUFFICES ASSUME ReadInv, Locked PROVE ReadInv'
  OBVIOUS
<1>1. req' = [req EXCEPT !.at = "locked"] /\ rows' = rows
  BY DEF Locked
<1> QED
  BY <1>1 DEF ReadInv, AskInv, Request, Over, ReadTypeOK, FiltersInv, AxisInv, AfterFilters, ModelsInv, CellsInv

LEMMA ReadStep == ReadInv /\ [ReadNext]_readVars => ReadInv'
<1> SUFFICES ASSUME ReadInv, [ReadNext]_readVars PROVE ReadInv'
  OBVIOUS
<1>1. ASSUME NEW a \in Asks, Open(a) PROVE ReadInv'
  BY <1>1, OpenKeeps
<1>2. ASSUME NEW col \in Columns, ResolveFilter(col) PROVE ReadInv'
  BY <1>2, ResolveFilterKeeps
<1>3. CASE UNCHANGED readVars
  BY <1>3 DEF readVars, ReadInv, AskInv, ReadTypeOK, FiltersInv, AxisInv, AfterFilters, Positioned,
              ModelsInv, ModelsOf, CellsInv, Wanted, Window, Previous, Within
<1> QED
  BY <1>1, <1>2, <1>3, CommitKeeps, OpenOptionsKeeps, ReadAxisKeeps, ReadModelsKeeps,
     ReadCellsKeeps, ReadPreviousKeeps, LockedKeeps DEF ReadNext

LEMMA ReadInvariance == ReadSpec => []ReadInv
<1> QED
  BY InitInv, ReadStep, PTL DEF ReadSpec
-----------------------------------------------------------------------------
\* Every reachable state of the database and the request is well-typed, for any
\* rows, queries and widths.
THEOREM ReadTypeCorrect == ReadSpec => []ReadTypeOK
<1>1. ReadInv => ReadTypeOK
  BY DEF ReadInv
<1> QED
  BY <1>1, ReadInvariance, PTL

\* An answer counts every row asked for that was there when its request began,
\* and only such that are there when it ends: aggregate._fetch_cells and
\* resolve_filter, for any redaction and any commits in between.
THEOREM CountsWhatWasThereHolds == ReadSpec => []CountsWhatWasThere
<1>1. ReadInv => CountsWhatWasThere
  BY DEF ReadInv, CellsInv, CountsWhatWasThere
<1> QED
  BY <1>1, ReadInvariance, PTL

\* The window and the one before it (Window.previous) leave no gap and share no
\* row, although SQL compares whole seconds only.
THEOREM PeriodsMeetHolds == ReadSpec => []PeriodsMeet
<1>1. ASSUME ReadInv, req.at = "answered", req.ask.start # None
      PROVE  /\ req.cells \cap req.prev = {}
             /\ Wanted(req.before, [start |-> Previous.start, end |-> req.ask.end])
                  \subseteq req.cells \cup req.prev
  <2>1. /\ Wanted(req.before, Window) \subseteq req.cells
        /\ req.cells \subseteq Wanted(rows, Window)
        /\ Wanted(req.before, Previous) \subseteq req.prev
        /\ req.prev \subseteq Wanted(rows, Previous)
    BY <1>1 DEF ReadInv, CellsInv
  <2>2. Previous.start # None /\ req.ask.start \in Nat
    BY <1>1, AsksTyped DEF ReadInv, ReadTypeOK, Previous, None
  <2>3. \A r \in rows : Truncated(Instant(r)) \in Nat
    BY <1>1, DivisionBounds, InstantAssumption, WidthsAssumption DEF ReadInv, ReadTypeOK, Truncated
  <2>4. Truncated(req.ask.start) \in Nat
    BY <2>2, DivisionBounds, WidthsAssumption DEF Truncated
  <2>5. req.before \subseteq rows
    BY <1>1 DEF ReadInv, ReadTypeOK
  <2>6. req.cells \cap req.prev = {}
    BY <1>1, <2>1, <2>2, <2>3, <2>4 DEF Wanted, Within, Window, Previous
  <2>7. ASSUME NEW r \in Wanted(req.before, [start |-> Previous.start, end |-> req.ask.end])
        PROVE  r \in req.cells \cup req.prev
    <3>1. CASE Truncated(Instant(r)) >= Truncated(req.ask.start)
      BY <2>1, <2>7, <3>1 DEF Wanted, Within, Window
    <3>2. CASE Truncated(Instant(r)) < Truncated(req.ask.start)
      BY <1>1, <2>1, <2>2, <2>7, <3>2 DEF Wanted, Within, Previous
    <3> QED
      BY <2>3, <2>4, <2>5, <2>7, <3>1, <3>2 DEF Wanted
  <2> QED
    BY <2>6, <2>7
<1>2. ReadInv => PeriodsMeet
  BY <1>1 DEF PeriodsMeet
<1> QED
  BY <1>2, ReadInvariance, PTL

\* Every row counted in a window with a start has a bucket, and so has every row
\* that was there when a request for all time began: _axis and SliceIndexer.
THEOREM BucketsHoldWhatWasThereHolds == ReadSpec => []BucketsHoldWhatWasThere
<1>1. ASSUME ReadInv, req.at = "answered", req.ask.start # None
      PROVE  Series = req.cells
  <2>1. req.axis = FloorToBucket(req.ask.start) /\ req.ask.start \in Nat
    BY <1>1, AsksTyped DEF ReadInv, ReadTypeOK, AxisInv, AfterFilters
  <2>2. ASSUME NEW r \in req.cells PROVE Positioned(r)
    <3>1. Truncated(req.ask.start) <= Truncated(Instant(r)) /\ Instant(r) \in Nat
      <4>1. Truncated(req.ask.start) \in Nat /\ Truncated(Instant(r)) \in Nat /\ Instant(r) \in Nat
        BY <1>1, <2>1, <2>2, DivisionBounds, WidthsAssumption, InstantAssumption DEF ReadInv, ReadTypeOK, Truncated
      <4> QED
        BY <1>1, <2>2, <4>1 DEF ReadInv, CellsInv, Wanted, Within, Window
    <3>2. FloorToBucket(req.ask.start) <= (Instant(r) \div Slice) * Slice
      BY <2>1, <3>1, SlicesFollowSeconds
    <3>3. FloorToBucket(req.ask.start) \in Nat /\ (Instant(r) \div Slice) * Slice \in Nat
      BY <2>1, <3>1, SlicesFollowSeconds, DivisionBounds, WidthsAssumption
    <3> QED
      BY <2>1, <3>2, <3>3 DEF Positioned
  <2> QED
    BY <2>2 DEF Series
<1>2. ASSUME ReadInv, req.at = "answered"
      PROVE  Wanted(req.before, Window) \subseteq Series
  <2>1. CASE req.ask.start # None
    BY <1>1, <1>2, <2>1 DEF ReadInv, CellsInv
  <2>2. CASE req.ask.start = None
    BY <1>2, <2>2 DEF ReadInv, CellsInv, AxisInv, AfterFilters, Series, Wanted
  <2> QED
    BY <2>1, <2>2
<1>3. ReadInv => BucketsHoldWhatWasThere
  BY <1>1, <1>2 DEF BucketsHoldWhatWasThere
<1> QED
  BY <1>3, ReadInvariance, PTL

\* The KeyError of _fetch_cells needs a commit during the request.
THEOREM OnlyCommitsBreakItHolds == ReadSpec => []OnlyCommitsBreakIt
<1>1. ReadInv => OnlyCommitsBreakIt
  BY DEF ReadInv, ModelsInv, OnlyCommitsBreakIt
<1> QED
  BY <1>1, ReadInvariance, PTL

-----------------------------------------------------------------------------
(***************************************************************************)
(* The buckets of a window's axis (UsageSums).                             *)
(***************************************************************************)

LEMMA Quotient ==
    ASSUME NEW a \in Int, NEW b \in Nat \ {0}
    PROVE  /\ a \div b \in Int /\ a % b \in 0..(b - 1)
           /\ a = (a \div b) * b + (a % b)
           /\ (a \div b) * b \in Int
  OBVIOUS

Multiple(x, b) == \E k \in Int : x = k * b

LEMMA MultipleIsInt == ASSUME NEW b \in Int, NEW x, Multiple(x, b) PROVE x \in Int
  BY DEF Multiple

LEMMA MultipleOfItself == ASSUME NEW b \in Int PROVE Multiple(b, b)
<1>1. b = 1 * b
  OBVIOUS
<1> QED  BY <1>1 DEF Multiple

LEMMA NoRemainder ==
    ASSUME NEW x \in Int, NEW b \in Nat \ {0}
    PROVE  x % b = 0 => Multiple(x, b)
<1>1. x % b = 0 => x = (x \div b) * b /\ x \div b \in Int
  BY Quotient
<1> QED  BY <1>1 DEF Multiple

LEMMA MultiplesAdd ==
    ASSUME NEW b \in Int, NEW x, NEW y, Multiple(x, b), Multiple(y, b)
    PROVE  Multiple(x + y, b) /\ Multiple(x - y, b)
<1>1. PICK k \in Int : x = k * b
  BY DEF Multiple
<1>2. PICK l \in Int : y = l * b
  BY DEF Multiple
<1>3. (k + l) * b = k * b + l * b /\ (k - l) * b = k * b - l * b
  OBVIOUS
<1>4. k + l \in Int /\ k - l \in Int
  OBVIOUS
<1> QED  BY <1>1, <1>2, <1>3, <1>4 DEF Multiple

LEMMA NextMultiple ==
    ASSUME NEW b \in Nat \ {0}, NEW x, Multiple(x, b)
    PROVE  Multiple(x + b, b) /\ Multiple(x - b, b)
<1>1. b \in Int /\ Multiple(b, b)
  BY MultipleOfItself
<1> QED  BY <1>1, MultiplesAdd

LEMMA MultiplesNest ==
    ASSUME NEW b \in Int, NEW c \in Int, Multiple(b, c), NEW x, Multiple(x, b)
    PROVE  Multiple(x, c)
<1>1. PICK k \in Int : x = k * b
  BY DEF Multiple
<1>2. PICK l \in Int : b = l * c
  BY DEF Multiple
<1>3. x = (k * l) * c /\ k * l \in Int
  BY <1>1, <1>2
<1> QED  BY <1>3 DEF Multiple

LEMMA Scaled ==
    ASSUME NEW b \in Nat \ {0}, NEW x \in Int, NEW y \in Int, x < y
    PROVE  x * b + b <= y * b
<1>1. PICK d \in Nat : y = (x + 1) + d
  <2>1. y - (x + 1) \in Nat
    OBVIOUS
  <2> QED  BY <2>1
<1>2. y * b = x * b + b + d * b /\ d * b \in Nat
  BY <1>1
<1>3. x * b \in Int /\ y * b \in Int
  OBVIOUS
<1> QED  BY <1>2, <1>3

\* Two multiples of b are at least b apart.
LEMMA MultiplesApart ==
    ASSUME NEW b \in Nat \ {0}, NEW x, NEW y, Multiple(x, b), Multiple(y, b), x < y
    PROVE  x + b <= y
<1>1. PICK k \in Int : x = k * b
  BY DEF Multiple
<1>2. PICK l \in Int : y = l * b
  BY DEF Multiple
<1>3. x \in Int /\ y \in Int
  BY <1>1, <1>2
<1>4. l < k => y + b <= x
  BY <1>1, <1>2, Scaled
<1>5. k < l
  BY <1>1, <1>2, <1>3, <1>4
<1> QED  BY <1>1, <1>2, <1>5, Scaled

\* n multiples of b lie below a just if n is at most its quotient.
LEMMA QuotientOrder ==
    ASSUME NEW a \in Int, NEW b \in Nat \ {0}, NEW n \in Int
    PROVE  a \div b \in Int /\ (n <= a \div b <=> n * b <= a)
<1> DEFINE q == a \div b
<1>1. q \in Int /\ q * b <= a /\ a < q * b + b /\ q * b \in Int /\ n * b \in Int
  BY Quotient
<1> HIDE DEF q
<1>2. n < q => n * b + b <= q * b
  BY <1>1, Scaled
<1>3. q < n => q * b + b <= n * b
  BY <1>1, Scaled
<1>4. n <= q <=> n * b <= a
  BY <1>1, <1>2, <1>3
<1> QED  BY <1>1, <1>4 DEF q

\* The multiple of b at or before x.
LEMMA MultipleBelow ==
    ASSUME NEW x \in Int, NEW b \in Nat \ {0}
    PROVE  /\ Multiple(x - (x % b), b) /\ x % b \in 0..(b - 1)
           /\ \A y : Multiple(y, b) /\ y <= x /\ x < y + b => y = x - (x % b)
<1>1. x % b \in 0..(b - 1) /\ x - (x % b) = (x \div b) * b /\ x \div b \in Int
  BY Quotient
<1>2. Multiple(x - (x % b), b)
  BY <1>1 DEF Multiple
<1>3. ASSUME NEW y, Multiple(y, b), y <= x, x < y + b PROVE y = x - (x % b)
  <2> DEFINE z == x - (x % b)
  <2>1. y \in Int /\ z \in Int /\ z <= x /\ x < z + b
    BY <1>1, <1>3, MultipleIsInt
  <2>2. Multiple(z, b)
    BY <1>2
  <2> HIDE DEF z
  <2>3. ~(y < z)
    <3> SUFFICES ASSUME y < z PROVE FALSE
      OBVIOUS
    <3>1. y + b <= z
      BY <1>3, <2>2, MultiplesApart
    <3> QED  BY <1>3, <2>1, <3>1
  <2>5. ~(z < y)
    BY <1>3, <2>1, <2>2, MultiplesApart
  <2>4. y = z
    BY <2>1, <2>3, <2>5
  <2> QED  BY <2>4 DEF z
<1> QED  BY <1>1, <1>2, <1>3

-----------------------------------------------------------------------------
(* Finite sums and sets.                                                   *)

\* The terms of the sums: of what is billed, of its share at the base rates,
\* of what kinds of tokens, cells and requests cost.
BilledTerm(c, a, u) == Billed(c[1], u)[c[2]]
ShareTerm(c, a, u) == BaseShare(c[1], Billed(c[1], u))[c[2]]
KindTerm(c, a, k) == BaseSum(c[1], c[2])[k] * c[1].base[k]
                     + (BilledSum(c[1], c[2])[k] - BaseSum(c[1], c[2])[k]) * c[1].above[k]
CellTerm(c, a, cell) == cell.cost
RequestTerm(c, a, u) == RequestCost(u)

Billings == INSTANCE FoldLemmas WITH Step <- BilledTerm
Shares   == INSTANCE FoldLemmas WITH Step <- ShareTerm
ByKind   == INSTANCE FoldLemmas WITH Step <- KindTerm
ByCell   == INSTANCE FoldLemmas WITH Step <- CellTerm
Requests == INSTANCE FoldLemmas WITH Step <- RequestTerm

LEMMA SameFinite ==
    ASSUME NEW S, IsFiniteSet(S)
    PROVE  /\ Billings!IsFiniteSet(S) /\ Shares!IsFiniteSet(S) /\ ByKind!IsFiniteSet(S)
           /\ ByCell!IsFiniteSet(S) /\ Requests!IsFiniteSet(S)
  BY DEF IsFiniteSet, Billings!IsFiniteSet, Shares!IsFiniteSet, ByKind!IsFiniteSet,
     ByCell!IsFiniteSet, Requests!IsFiniteSet

LEMMA Extremes ==
    ASSUME NEW a \in Int, NEW b \in Int
    PROVE  /\ Min({a, b}) = IF a <= b THEN a ELSE b
           /\ Max({a, b}) = IF a <= b THEN b ELSE a
<1>1. \E x \in {a, b} : \A y \in {a, b} : x <= y  OBVIOUS
<1>2. \E x \in {a, b} : \A y \in {a, b} : x >= y  OBVIOUS
<1> QED  BY <1>1, <1>2 DEF Min, Max

\* Some numbers, finitely many, have a least and a largest.
LEMMA Bounds ==
    ASSUME NEW S, IsFiniteSet(S), S \subseteq Int, S # {}
    PROVE  /\ \E x \in S : \A y \in S : x <= y
           /\ Max(S) \in S /\ \A y \in S : y <= Max(S)
<1> DEFINE Ends(T) == /\ \E x \in T : \A y \in T : x <= y
                      /\ \E x \in T : \A y \in T : x >= y
           P == {T \in SUBSET S : T # {} => Ends(T)}
<1>1. {} \in P
  OBVIOUS
<1>2. ASSUME NEW T \in SUBSET S, NEW a \in S \ T, T \in P PROVE T \cup {a} \in P
  <2>1. a \in Int
    OBVIOUS
  <2>2. CASE T = {}
    <3>1. Ends({a})
      BY <2>1
    <3> QED  BY <2>2, <3>1
  <2>3. CASE T # {}
    <3>1. PICK x \in T : \A y \in T : x <= y
      BY <1>2, <2>3
    <3>2. PICK w \in T : \A y \in T : w >= y
      BY <1>2, <2>3
    <3>3. x \in Int /\ w \in Int
      OBVIOUS
    <3>4. \E v \in T \cup {a} : \A y \in T \cup {a} : v <= y
      <4>1. CASE a <= x
        BY <2>1, <3>1, <3>3, <4>1
      <4>2. CASE ~(a <= x)
        BY <2>1, <3>1, <3>3, <4>2
      <4> QED  BY <4>1, <4>2
    <3>5. \E v \in T \cup {a} : \A y \in T \cup {a} : v >= y
      <4>1. CASE a >= w
        BY <2>1, <3>2, <3>3, <4>1
      <4>2. CASE ~(a >= w)
        BY <2>1, <3>2, <3>3, <4>2
      <4> QED  BY <4>1, <4>2
    <3> QED  BY <3>4, <3>5
  <2> QED  BY <2>2, <2>3
<1> HIDE DEF P
<1>3. S \in P
  BY <1>1, <1>2, SameFinite, Requests!SetInduction
<1>4. Ends(S)
  BY <1>3 DEF P
<1>5. Max(S) \in S /\ \A y \in S : Max(S) >= y
  BY <1>4 DEF Max
<1> QED  BY <1>4, <1>5

-----------------------------------------------------------------------------
(* Zones.                                                                  *)

\* What is assumed of the zone of a question.
IsZone(z) ==
    LET changes == DOMAIN z.changes
    IN  /\ IsFiniteSet(changes) /\ changes \subseteq Int
        /\ z.initial \in -Day .. Day /\ \A c \in changes : z.changes[c] \in -Day .. Day
        /\ \A c, e \in changes : c < e => Wall(z, c, 0) <= Wall(z, e, 1)

Units == {"hour", "day", "week"}

LEMMA Lengths ==
    /\ SliceTicks \in Nat \ {0} /\ Hour \in Nat \ {0} /\ Day \in Nat \ {0} /\ Week \in Nat \ {0}
    /\ Multiple(Hour, SliceTicks) /\ Multiple(Day, SliceTicks)
<1>1. SliceTicks \in Nat \ {0} /\ Hour \in Nat \ {0} /\ Day \in Nat \ {0} /\ Week \in Nat \ {0}
  BY LengthsAssumption
<1>2. Hour % SliceTicks = 0 /\ Day % Hour = 0
  BY LengthsAssumption
<1>3. Multiple(Hour, SliceTicks) /\ Multiple(Day, Hour)
  BY <1>1, <1>2, NoRemainder
<1>4. Multiple(Day, SliceTicks)
  BY <1>1, <1>3, MultiplesNest
<1> QED  BY <1>1, <1>3, <1>4

LEMMA Spans ==
    ASSUME NEW unit \in Units
    PROVE  Span(unit) \in Nat \ {0} /\ Multiple(Span(unit), SliceTicks)
<1>1. CASE unit \in {"hour", "day"}
  BY <1>1, Lengths DEF Span
<1>2. CASE unit = "week"
  <2>1. Span(unit) = Week * Day
    BY <1>2 DEF Span
  <2>2. Week * Day \in Nat \ {0} /\ Multiple(Week * Day, Day)
    BY Lengths DEF Multiple
  <2>3. Multiple(Week * Day, SliceTicks)
    BY <2>2, Lengths, MultiplesNest
  <2> QED  BY <2>1, <2>2, <2>3
<1> QED  BY <1>1, <1>2 DEF Units

LEMMA ZonesAreZones == ASSUME NEW q \in Questions PROVE IsZone(q.zone)
  BY ZonesAssumption DEF IsZone

\* Of the changes, those up to some instant.
Prefix(z, P) ==
    P \subseteq DOMAIN z.changes /\ \A c \in P : \A e \in DOMAIN z.changes : e < c => e \in P

LEMMA UntilIsPrefix == ASSUME NEW z, IsZone(z), NEW t \in Int PROVE Prefix(z, Until(z, t))
  BY DEF Prefix, Until, IsZone

\* The offset after a prefix is that of its last change.
LEMMA LastOf ==
    ASSUME NEW z, IsZone(z), NEW P, P \subseteq DOMAIN z.changes
    PROVE  /\ After(z, P) \in -Day .. Day
           /\ P # {} => /\ Max(P) \in P /\ \A c \in P : c <= Max(P)
                        /\ After(z, P) = z.changes[Max(P)]
<1>1. P # {} => Max(P) \in P /\ \A c \in P : c <= Max(P)
  <2>1. IsFiniteSet(P) /\ P \subseteq Int
    BY FS_Subset DEF IsZone
  <2> QED  BY <2>1, Bounds
<1> QED  BY <1>1 DEF After, IsZone

LEMMA OffsetIsInt == ASSUME NEW z, IsZone(z), NEW t PROVE Offset(z, t) \in -Day .. Day /\ Offset(z, t) \in Int
<1>1. Offset(z, t) \in -Day .. Day
  BY LastOf DEF Offset, Until
<1> QED  BY <1>1

\* A change counts from the later of its local times on, or from the earlier.
LEMMA Walls ==
    ASSUME NEW z, IsZone(z), NEW c \in DOMAIN z.changes
    PROVE  LET before == Offset(z, c - 1)
               after == z.changes[c]
           IN  /\ c \in Int /\ before \in Int /\ after \in Int
               /\ Wall(z, c, 0) = c + IF before <= after THEN after ELSE before
               /\ Wall(z, c, 1) = c + IF before <= after THEN before ELSE after
               /\ Wall(z, c, 0) \in Int /\ Wall(z, c, 1) \in Int
<1> DEFINE before == Offset(z, c - 1)
           after == z.changes[c]
<1>1. c \in Int /\ before \in Int /\ after \in Int
  BY OffsetIsInt DEF IsZone
<1>2. Wall(z, c, 0) = c + Max({before, after}) /\ Wall(z, c, 1) = c + Min({before, after})
  BY DEF Wall
<1> HIDE DEF before, after
<1>3. /\ Max({before, after}) = IF before <= after THEN after ELSE before
      /\ Min({before, after}) = IF before <= after THEN before ELSE after
  BY <1>1, Extremes
<1> QED  BY <1>1, <1>2, <1>3 DEF before, after

\* What counts at a local time is a prefix.
Counts(z, x, fold) == {c \in DOMAIN z.changes : Wall(z, c, fold) <= x}

LEMMA CountsIsPrefix ==
    ASSUME NEW z, IsZone(z), NEW x \in Int, NEW fold \in {0, 1}
    PROVE  /\ Prefix(z, Counts(z, x, fold))
           /\ InstantOf(z, x, fold) = x - After(z, Counts(z, x, fold))
           /\ InstantOf(z, x, fold) \in Int /\ x - Day <= InstantOf(z, x, fold)
<1>1. ASSUME NEW c \in DOMAIN z.changes, NEW e \in DOMAIN z.changes, e < c
      PROVE  Wall(z, e, fold) <= Wall(z, c, fold)
  <2>1. Wall(z, e, 0) <= Wall(z, c, 1)
    BY <1>1 DEF IsZone
  <2> QED  BY <2>1, Walls
<1>2. \A c \in DOMAIN z.changes : Wall(z, c, fold) \in Int
  BY Walls
<1>3. Prefix(z, Counts(z, x, fold))
  BY <1>1, <1>2 DEF Prefix, Counts
<1>4. InstantOf(z, x, fold) = x - After(z, Counts(z, x, fold))
  BY DEF InstantOf, Counts
<1>5. After(z, Counts(z, x, fold)) \in -Day .. Day
  BY LastOf DEF Counts
<1>6. Day \in Nat
  BY Lengths
<1> QED  BY <1>3, <1>4, <1>5, <1>6

\* A prefix that goes on after another: with s, and to p.
Ahead(z, P, E) ==
    \E s, p \in P \ E : /\ s <= p /\ Offset(z, s - 1) = After(z, E)
                         /\ After(z, P) = z.changes[p] /\ p = Max(P) /\ \A c \in P : c <= p

LEMMA GoesOn ==
    ASSUME NEW z, IsZone(z), NEW P, Prefix(z, P), NEW E, Prefix(z, E), P \ E # {}
    PROVE  Ahead(z, P, E)
<1>1. P \subseteq DOMAIN z.changes /\ E \subseteq DOMAIN z.changes /\ DOMAIN z.changes \subseteq Int
  BY DEF Prefix, IsZone
<1>2. IsFiniteSet(P \ E)
  BY <1>1, FS_Subset DEF IsZone
<1>3. PICK s \in P \ E : \A c \in P \ E : s <= c
  BY <1>1, <1>2, Bounds
<1>4. Until(z, s - 1) = E
  <2>1. \A c \in DOMAIN z.changes : c <= s - 1 <=> c < s
    BY <1>1
  <2>2. ASSUME NEW c \in DOMAIN z.changes, c < s PROVE c \in E
    <3>1. c \in P
      BY <2>2 DEF Prefix
    <3> QED  BY <1>1, <1>3, <2>2, <3>1
  <2>3. ASSUME NEW c \in E PROVE c < s
    <3>1. ~(s < c)
      BY <1>1, <1>3 DEF Prefix
    <3> QED  BY <1>1, <1>3, <3>1
  <2> QED  BY <1>1, <2>1, <2>2, <2>3 DEF Until
<1> DEFINE p == Max(P)
<1>5. p \in P /\ (\A c \in P : c <= p) /\ After(z, P) = z.changes[p]
  BY <1>1, LastOf
<1> HIDE DEF p
<1>6. s <= p
  BY <1>5
<1>7. p \notin E
  <2>1. s < p => (p \in E => s \in E)
    BY <1>1 DEF Prefix
  <2> QED  BY <1>1, <1>3, <1>5, <1>6, <2>1
<1>8. Offset(z, s - 1) = After(z, E)
  BY <1>4 DEF Offset
<1> QED  BY <1>3, <1>5, <1>6, <1>7, <1>8 DEF Ahead, p

LEMMA Divergence ==
    ASSUME NEW z, IsZone(z), NEW P, Prefix(z, P), NEW E, Prefix(z, E)
    PROVE  P = E \/ Ahead(z, P, E) \/ Ahead(z, E, P)
  BY GoesOn DEF Prefix

\* A midnight has come by t just if the clock has reached it, when no change by
\* then skips or repeats it.
LEMMA MidnightComes ==
    ASSUME NEW z, IsZone(z), NEW x \in Int, NEW t \in Int,
           \A c \in Until(z, t) : ~(Wall(z, c, 1) < x /\ x < Wall(z, c, 0))
    PROVE  InstantOf(z, x, 0) <= t <=> x <= t + Offset(z, t)
<1> DEFINE P == Until(z, t)
           E == Counts(z, x, 0)
           m == InstantOf(z, x, 0)
           off == Offset(z, t)
           offE == After(z, E)
<1>1. Prefix(z, P) /\ Prefix(z, E) /\ m = x - offE /\ m \in Int /\ offE \in Int /\ off = After(z, P) /\ off \in Int
  <2>1. Prefix(z, P)
    BY UntilIsPrefix
  <2>2. Prefix(z, E) /\ m = x - offE /\ m \in Int
    BY CountsIsPrefix
  <2>3. offE \in -Day .. Day
    BY <2>2, LastOf DEF Prefix
  <2> QED  BY <2>1, <2>2, <2>3, OffsetIsInt DEF Offset
<1>2. /\ \A c \in P : c \in DOMAIN z.changes /\ c <= t
      /\ \A c \in DOMAIN z.changes : c \in Int /\ (c <= t => c \in P)
      /\ \A c \in E : c \in DOMAIN z.changes /\ Wall(z, c, 0) <= x
      /\ \A c \in DOMAIN z.changes : Wall(z, c, 0) <= x => c \in E
  BY DEF Until, Counts, IsZone
<1> HIDE DEF P, E, m, off, offE
<1>3. CASE P = E
  <2>1. off = offE
    BY <1>1, <1>3 DEF offE
  <2> QED  BY <1>1, <2>1 DEF m, off
<1>4. CASE Ahead(z, P, E)
  <2>1. PICK s \in P \ E, p \in P \ E : s <= p /\ Offset(z, s - 1) = offE /\ off = z.changes[p]
    BY <1>1, <1>4 DEF Ahead, offE
  <2>2. /\ s \in Int /\ p \in Int /\ s <= t /\ p <= t
        /\ x <= Wall(z, s, 1) /\ x <= Wall(z, p, 1)
    <3>1. /\ s \in DOMAIN z.changes /\ p \in DOMAIN z.changes
          /\ x < Wall(z, s, 0) /\ x < Wall(z, p, 0)
      BY <1>2, <2>1, Walls
    <3> QED  BY <1>2, <2>1, <3>1, Walls DEF P
  <2>3. Wall(z, s, 1) <= s + offE /\ Wall(z, p, 1) <= p + off /\ Wall(z, s, 1) \in Int /\ Wall(z, p, 1) \in Int
    BY <1>1, <1>2, <2>1, Walls
  <2>4. m <= t <=> x <= t + off
    BY <1>1, <2>2, <2>3
  <2> QED  BY <2>4 DEF m, off
<1>5. CASE Ahead(z, E, P)
  <2>1. PICK s \in E \ P, e \in E \ P : s <= e /\ Offset(z, s - 1) = off /\ offE = z.changes[e]
    BY <1>1, <1>5 DEF Ahead, offE
  <2>2. s \in Int /\ e \in Int /\ t < s /\ t < e /\ Wall(z, s, 0) <= x /\ Wall(z, e, 0) <= x
    BY <1>2, <2>1
  <2>3. s + off <= Wall(z, s, 0) /\ e + offE <= Wall(z, e, 0) /\ Wall(z, s, 0) \in Int /\ Wall(z, e, 0) \in Int
    BY <1>1, <1>2, <2>1, Walls
  <2>4. m <= t <=> x <= t + off
    BY <1>1, <2>2, <2>3
  <2> QED  BY <2>4 DEF m, off
<1>6. P = E \/ Ahead(z, P, E) \/ Ahead(z, E, P)
  BY <1>1, Divergence
<1> QED  BY <1>3, <1>4, <1>5, <1>6 DEF m, off

\* When it comes, the clock is not a span past it, unless a change is as long.
LEMMA MidnightLasts ==
    ASSUME NEW z, IsZone(z), NEW x \in Int, NEW span \in Nat \ {0},
           LET m == InstantOf(z, x, 0)
           IN  \A c \in Until(z, m) : x < Wall(z, c, 0) => /\ x <= Wall(z, c, 1)
                                                           /\ Wall(z, c, 0) - Wall(z, c, 1) < span
    PROVE  LET m == InstantOf(z, x, 0) IN m + Offset(z, m) < x + span
<1> DEFINE m == InstantOf(z, x, 0)
           P == Until(z, m)
           E == Counts(z, x, 0)
           off == Offset(z, m)
           offE == After(z, E)
<1>1. Prefix(z, P) /\ Prefix(z, E) /\ m = x - offE /\ m \in Int /\ offE \in Int /\ off = After(z, P) /\ off \in Int
  <2>2. Prefix(z, E) /\ m = x - offE /\ m \in Int
    BY CountsIsPrefix
  <2>1. Prefix(z, P)
    BY <2>2, UntilIsPrefix
  <2>3. offE \in -Day .. Day
    BY <2>2, LastOf DEF Prefix
  <2> QED  BY <2>1, <2>2, <2>3, OffsetIsInt DEF Offset
<1>2. /\ \A c \in P : c \in DOMAIN z.changes /\ c <= m
      /\ \A c \in DOMAIN z.changes : c \in Int /\ (c <= m => c \in P)
      /\ \A c \in E : c \in DOMAIN z.changes /\ Wall(z, c, 0) <= x
      /\ \A c \in DOMAIN z.changes : Wall(z, c, 0) <= x => c \in E
      /\ \A c \in P : x < Wall(z, c, 0) => /\ x <= Wall(z, c, 1)
                                           /\ Wall(z, c, 0) - Wall(z, c, 1) < span
  BY DEF Until, Counts, IsZone
<1> HIDE DEF P, E, m, off, offE
<1>3. CASE P = E
  <2>1. off = offE
    BY <1>1, <1>3 DEF offE
  <2>2. m + off < x + span
    BY <1>1, <2>1
  <2> QED  BY <2>2 DEF m, off
<1>4. CASE Ahead(z, P, E)
  <2>1. PICK s \in P \ E, p \in P \ E : s <= p /\ Offset(z, s - 1) = offE /\ off = z.changes[p]
    BY <1>1, <1>4 DEF Ahead, offE
  <2>2. /\ s \in DOMAIN z.changes /\ p \in DOMAIN z.changes /\ s \in Int /\ p \in Int /\ s <= m /\ p <= m
        /\ x < Wall(z, s, 0)
    BY <1>2, <2>1, Walls
  <2>3. x <= Wall(z, s, 1) /\ Wall(z, s, 0) - Wall(z, s, 1) < span
    BY <1>2, <2>1, <2>2
  <2>4. /\ Wall(z, s, 1) <= s + offE /\ Wall(z, s, 1) \in Int /\ Wall(z, s, 0) \in Int
        /\ z.changes[s] - offE <= Wall(z, s, 0) - Wall(z, s, 1)
    BY <2>1, <2>2, Walls
  <2>5. s = m /\ p = m
    BY <1>1, <2>1, <2>2, <2>3, <2>4
  <2>6. m + off < x + span
    BY <1>1, <2>1, <2>3, <2>4, <2>5
  <2> QED  BY <2>6 DEF m, off
<1>5. CASE Ahead(z, E, P)
  <2>1. PICK e \in E \ P : offE = z.changes[e]
    BY <1>1, <1>5 DEF Ahead, offE
  <2>2. e \in Int /\ m < e /\ Wall(z, e, 0) <= x
    BY <1>1, <1>2, <2>1
  <2>3. e + offE <= Wall(z, e, 0) /\ Wall(z, e, 0) \in Int
    BY <1>1, <1>2, <2>1, Walls
  <2> QED  BY <1>1, <2>2, <2>3
<1>6. P = E \/ Ahead(z, P, E) \/ Ahead(z, E, P)
  BY <1>1, Divergence
<1> QED  BY <1>3, <1>4, <1>5, <1>6 DEF m, off

\* A change after t is met by the local times after that of t.
LEMMA LaterMeets ==
    ASSUME NEW z, IsZone(z), NEW t \in Int, NEW c \in DOMAIN z.changes, t < c
    PROVE  t + Offset(z, t) < Wall(z, c, 0)
<1> DEFINE P == Until(z, c)
           E == Until(z, t)
           off == Offset(z, t)
<1>1. c \in Int /\ c \in P \ E /\ Prefix(z, P) /\ Prefix(z, E) /\ off = After(z, E) /\ off \in Int
  <2>1. c \in Int
    BY DEF IsZone
  <2> QED  BY <2>1, UntilIsPrefix, OffsetIsInt DEF Until, Offset
<1>2. PICK s \in P \ E : Offset(z, s - 1) = off
  BY <1>1, GoesOn DEF Ahead
<1>3. s \in DOMAIN z.changes /\ s \in Int /\ t < s /\ s <= c
  BY DEF Until, IsZone
<1> HIDE DEF P, E, off
<1>4. s + off <= Wall(z, s, 0) /\ Wall(z, s, 0) \in Int /\ Wall(z, c, 0) \in Int /\ Wall(z, c, 1) <= Wall(z, c, 0)
      /\ Wall(z, c, 1) \in Int
  BY <1>1, <1>2, <1>3, Walls
<1>5. s = c \/ Wall(z, s, 0) <= Wall(z, c, 1)
  BY <1>1, <1>3 DEF IsZone
<1> QED  BY <1>1, <1>3, <1>4, <1>5 DEF off

\* The offset of a later time is the same, or of a change in between.
LEMMA OffsetSince ==
    ASSUME NEW z, IsZone(z), NEW r \in Int, NEW t \in Int, r <= t
    PROVE  \/ Until(z, t) = Until(z, r) /\ Offset(z, t) = Offset(z, r)
           \/ \E c \in DOMAIN z.changes : r < c /\ c <= t /\ Offset(z, t) = z.changes[c]
<1> DEFINE P == Until(z, t)
           E == Until(z, r)
<1>1. Prefix(z, P) /\ Prefix(z, E)
  BY UntilIsPrefix
<1>2. CASE P \ E = {}
  <2>1. P = E
    <3>1. \A c \in DOMAIN z.changes : c \in Int
      BY DEF IsZone
    <3>2. E \subseteq P
      BY <3>1 DEF Until
    <3> QED  BY <1>2, <3>2
  <2> QED  BY <2>1 DEF Offset
<1>3. CASE P \ E # {}
  <2>1. PICK p \in P \ E : After(z, P) = z.changes[p]
    BY <1>1, <1>3, GoesOn DEF Ahead
  <2>2. p \in DOMAIN z.changes /\ r < p /\ p <= t
    BY DEF Until, IsZone
  <2> QED  BY <2>1, <2>2 DEF Offset
<1> QED  BY <1>2, <1>3

-----------------------------------------------------------------------------
(* The buckets of a regular axis, counted from its first.                  *)

LEMMA LocalStarts ==
    ASSUME NEW z, IsZone(z), NEW t \in Int, NEW unit \in Units
    PROVE  LET l == LocalStart(z, t, unit)
               s == Span(unit)
           IN  /\ l \in Int /\ Multiple(l, s) /\ l <= t + Offset(z, t) /\ t + Offset(z, t) < l + s
               /\ \A x : Multiple(x, s) /\ x <= t + Offset(z, t) => x <= l
<1> DEFINE l == LocalStart(z, t, unit)
           s == Span(unit)
           w == t + Offset(z, t)
<1>1. w \in Int /\ s \in Nat \ {0} /\ l = w - (w % s)
  BY OffsetIsInt, Spans DEF LocalStart
<1> HIDE DEF l, s, w
<1>2. Multiple(l, s) /\ w % s \in 0..(s - 1)
  BY <1>1, MultipleBelow
<1>3. l \in Int /\ l <= w /\ w < l + s
  <2> DEFINE r == w % s
  <2> HIDE DEF r
  <2>1. r \in 0..(s - 1) /\ l = w - r
    BY <1>1, <1>2 DEF r
  <2> QED  BY <1>1, <2>1
<1>4. ASSUME NEW x, Multiple(x, s), x <= w PROVE x <= l
  <2>1. x \in Int
    BY <1>1, <1>4, MultipleIsInt
  <2>2. l < x => l + s <= x
    BY <1>1, <1>2, <1>4, MultiplesApart
  <2> QED  BY <1>1, <1>3, <1>4, <2>1, <2>2
<1> QED  BY <1>2, <1>3, <1>4 DEF l, s, w

LEMMA QuestionIs ==
    ASSUME NEW q \in Questions
    PROVE  IsZone(q.zone) /\ q.start \in Int /\ q.end \in Int /\ q.start <= q.end
  BY QuestionsAssumption, ZonesAreZones

\* t falls into the bucket k, by when just the buckets up to k have begun.
FallsInto(q, unit, t, k) ==
    /\ k \in Nat /\ BucketOf(q.zone, t, unit) = Nth(q, unit, k)
    /\ \A j \in Nat : Nth(q, unit, j) <= t <=> j <= k
    /\ t = q.start => k = 0
    /\ \A j \in Nat : t = Nth(q, unit, j) => k = j

LEMMA NthIsInt ==
    ASSUME NEW q \in Questions, NEW unit \in Units, NEW j \in Nat
    PROVE  LET x == LocalStart(q.zone, q.start, unit)
           IN  Nth(q, unit, j) \in Int /\ x + j - Day <= Nth(q, unit, j)
<1> DEFINE z == q.zone
           x == LocalStart(z, q.start, unit)
           s == Span(unit)
<1>1. IsZone(z) /\ x \in Int /\ s \in Nat \ {0} /\ Day \in Nat \ {0}
  BY QuestionIs, LocalStarts, Spans, Lengths
<1>2. j * s \in Nat /\ j <= j * s
  <2> HIDE DEF s
  <2>1. j * s = j + j * (s - 1) /\ s - 1 \in Nat
    BY <1>1
  <2>2. j * (s - 1) \in Nat
    BY <2>1
  <2> QED  BY <1>1, <2>1, <2>2
<1>3. CASE unit = "hour"
  <2>1. Fold(z, q.start) \in {0, 1}
    BY DEF Fold
  <2>2. BucketOf(z, q.start, unit) = InstantOf(z, x, Fold(z, q.start)) /\ s = Hour
    BY <1>3 DEF BucketOf, Span
  <2>3. BucketOf(z, q.start, unit) \in Int /\ x - Day <= BucketOf(z, q.start, unit)
    BY <1>1, <2>1, <2>2, CountsIsPrefix
  <2>4. Nth(q, unit, j) = BucketOf(z, q.start, unit) + j * s
    BY <1>3, <2>2 DEF Nth
  <2> HIDE DEF x, s
  <2> QED  BY <1>1, <1>2, <2>3, <2>4 DEF x
<1>4. CASE unit # "hour"
  <2>1. Nth(q, unit, j) = InstantOf(z, x + j * s, 0)
    BY <1>4 DEF Nth
  <2> HIDE DEF x, s
  <2>2. x + j * s \in Int
    BY <1>1, <1>2
  <2>3. Nth(q, unit, j) \in Int /\ (x + j * s) - Day <= Nth(q, unit, j)
    BY <1>1, <2>1, <2>2, CountsIsPrefix
  <2> QED  BY <1>1, <1>2, <2>2, <2>3 DEF x
<1> QED  BY <1>3, <1>4

\* The midnights of an axis, by local time.
LEMMA DayBoundary ==
    ASSUME NEW q \in Questions, NEW unit \in {"day", "week"}, Regular(q, unit), NEW j \in Nat
    PROVE  LET z == q.zone
               x == LocalStart(z, q.start, unit) + j * Span(unit)
           IN  /\ x \in Int /\ Multiple(x, Span(unit)) /\ Nth(q, unit, j) = InstantOf(z, x, 0)
               /\ LocalStart(z, q.start, unit) <= x
               /\ \A c \in DOMAIN z.changes : c <= q.end /\ x < Wall(z, c, 0) =>
                    /\ c \in Met(q, unit) /\ x <= Wall(z, c, 1)
                    /\ Wall(z, c, 0) - Wall(z, c, 1) < Span(unit)
<1> DEFINE z == q.zone
           l == LocalStart(z, q.start, unit)
           s == Span(unit)
           x == l + j * s
<1>1. IsZone(z) /\ l \in Int /\ s \in Nat \ {0} /\ Multiple(l, s)
  BY QuestionIs, LocalStarts, Spans DEF Units
<1>2. Nth(q, unit, j) = InstantOf(z, x, 0)
  BY DEF Nth
<1>3. j * s \in Nat /\ Multiple(j * s, s)
  <2> HIDE DEF s
  <2>1. j * s \in Nat /\ j \in Int
    BY <1>1
  <2> QED  BY <2>1 DEF Multiple
<1>4. x \in Int /\ l <= x /\ Multiple(x, s)
  <2> HIDE DEF l, s
  <2>1. x \in Int /\ l <= x
    BY <1>1, <1>3
  <2>2. s \in Int
    BY <1>1
  <2>3. Multiple(l + j * s, s)
    BY <1>1, <1>3, <2>2, MultiplesAdd
  <2> QED  BY <2>1, <2>3
<1>5. x % s = 0
  <2> HIDE DEF x, s
  <2>1. x = x - (x % s) /\ x % s \in 0..(s - 1)
    <3>1. x <= x /\ x < x + s
      BY <1>1, <1>4
    <3> QED  BY <1>1, <1>4, <3>1, MultipleBelow
  <2> DEFINE r == x % s
  <2> HIDE DEF r
  <2>2. x = x - r /\ r \in Int
    BY <1>1, <2>1 DEF r
  <2>3. r = 0
    BY <1>4, <2>2
  <2> QED  BY <2>3 DEF r
<1> HIDE DEF x, l
<1>6. ASSUME NEW c \in DOMAIN z.changes, c <= q.end, x < Wall(z, c, 0)
      PROVE  /\ c \in Met(q, unit) /\ x <= Wall(z, c, 1)
             /\ Wall(z, c, 0) - Wall(z, c, 1) < s
  <2>1. Wall(z, c, 0) \in Int /\ Wall(z, c, 1) \in Int
    BY <1>1, Walls
  <2>2. c \in Met(q, unit)
    BY <1>1, <1>4, <1>6, <2>1 DEF Met, l
  <2>3. /\ Wall(z, c, 0) - Wall(z, c, 1) < s
        /\ \A y \in Wall(z, c, 1) + 1 .. Wall(z, c, 0) - 1 : y % s # 0
    BY <2>2 DEF Regular
  <2> QED  BY <1>4, <1>5, <1>6, <2>1, <2>2, <2>3
<1> QED  BY <1>2, <1>4, <1>6 DEF x, l

LEMMA DaysCount ==
    ASSUME NEW q \in Questions, NEW unit \in {"day", "week"}, Regular(q, unit), NEW t \in q.start .. q.end
    PROVE  \E k \in Nat : FallsInto(q, unit, t, k)
<1> DEFINE z == q.zone
           l == LocalStart(z, q.start, unit)
           s == Span(unit)
           Edge(j) == l + j * s
           w == t + Offset(z, t)
           h == LocalStart(z, t, unit)
<1>1. /\ IsZone(z) /\ t \in Int /\ q.start \in Int /\ q.end \in Int /\ q.start <= t /\ t <= q.end
      /\ s \in Nat \ {0} /\ w \in Int
  BY QuestionIs, Spans, OffsetIsInt DEF Units
<1>2. /\ h \in Int /\ Multiple(h, s) /\ h <= w /\ w < h + s /\ \A x : Multiple(x, s) /\ x <= w => x <= h
      /\ l \in Int /\ Multiple(l, s) /\ l <= q.start + Offset(z, q.start)
  BY <1>1, LocalStarts DEF Units
<1>3. ASSUME NEW j \in Nat, NEW r \in Int, r <= q.end
      PROVE  Nth(q, unit, j) <= r <=> Edge(j) <= r + Offset(z, r)
  <2>1. Edge(j) \in Int /\ Nth(q, unit, j) = InstantOf(z, Edge(j), 0)
    BY DayBoundary
  <2>2. ASSUME NEW c \in Until(z, r) PROVE ~(Wall(z, c, 1) < Edge(j) /\ Edge(j) < Wall(z, c, 0))
    <3>1. c \in DOMAIN z.changes /\ c <= q.end
      BY <1>1, <1>3 DEF Until, IsZone
    <3>2. Edge(j) < Wall(z, c, 0) => Edge(j) <= Wall(z, c, 1)
      BY <3>1, DayBoundary
    <3> HIDE DEF Edge
    <3> QED  BY <1>1, <2>1, <3>1, <3>2, Walls
  <2> HIDE DEF Edge
  <2> QED  BY <1>1, <2>1, <2>2, MidnightComes
<1>4. \A j \in Nat : Edge(j) \in Int /\ Multiple(Edge(j), s)
  BY DayBoundary
<1>5. \A j \in Nat : Nth(q, unit, j) <= t <=> Edge(j) <= h
  <2> SUFFICES ASSUME NEW j \in Nat PROVE Nth(q, unit, j) <= t <=> Edge(j) <= h
    OBVIOUS
  <2>1. Nth(q, unit, j) <= t <=> Edge(j) <= w
    BY <1>1, <1>3
  <2>2. Edge(j) \in Int /\ Multiple(Edge(j), s)
    BY <1>4
  <2> HIDE DEF Edge, h, w
  <2> QED  BY <1>1, <1>2, <2>1, <2>2
<1>6. l <= h
  <2>1. Edge(0) = l
    <3> HIDE DEF l, s
    <3> QED  BY <1>1, <1>2
  <2>2. Nth(q, unit, 0) <= q.start
    BY <1>1, <1>2, <1>3, <2>1
  <2>3. Nth(q, unit, 0) \in Int
    BY NthIsInt DEF Units
  <2>4. Nth(q, unit, 0) <= t
    BY <1>1, <2>2, <2>3
  <2> QED  BY <1>5, <2>1, <2>4
<1> HIDE DEF l, s, h
<1>7. PICK k \in Nat : h = Edge(k)
  <2>1. Multiple(h - l, s)
    BY <1>1, <1>2, MultiplesAdd
  <2>2. PICK k \in Int : h - l = k * s
    BY <2>1 DEF Multiple
  <2>3. h = l + k * s /\ 0 <= k * s /\ k * s \in Int
    BY <1>1, <1>2, <1>6, <2>2
  <2>4. ~(k < 0)
    <3>1. k < 0 => k * s + s <= 0 * s
      BY <1>1, Scaled
    <3> QED  BY <1>1, <2>3, <3>1
  <2>5. k \in Nat
    BY <2>4
  <2> QED  BY <2>3, <2>5
<1>8. ASSUME NEW j \in Nat PROVE (Edge(j) <= Edge(k) <=> j <= k) /\ (Edge(j) = Edge(k) => j = k)
  <2>1. (j < k => j * s + s <= k * s) /\ (k < j => k * s + s <= j * s)
    BY <1>1, Scaled
  <2>2. j * s \in Int /\ k * s \in Int
    BY <1>1
  <2> QED  BY <1>1, <1>2, <2>1, <2>2
<1>9. \A j \in Nat : Nth(q, unit, j) <= t <=> j <= k
  BY <1>5, <1>7, <1>8
<1>10. BucketOf(z, t, unit) = Nth(q, unit, k)
  <2>1. BucketOf(z, t, unit) = InstantOf(z, h, 0)
    BY DEF BucketOf, h
  <2>2. Nth(q, unit, k) = InstantOf(z, Edge(k), 0)
    BY DEF Nth, l, s
  <2> QED  BY <1>7, <2>1, <2>2
<1>11. ASSUME t = q.start PROVE k = 0
  <2>1. h = l
    BY <1>11 DEF h, l
  <2>2. Edge(0) = l
    BY <1>1, <1>2
  <2> QED  BY <1>7, <1>8, <2>1, <2>2
<1>12. ASSUME NEW j \in Nat, t = Nth(q, unit, j) PROVE k = j
  <2>1. t = InstantOf(z, Edge(j), 0) /\ Edge(j) \in Int
    BY <1>4, <1>12 DEF Nth, l, s
  <2>2. ASSUME NEW c \in Until(z, t), Edge(j) < Wall(z, c, 0)
        PROVE  Edge(j) <= Wall(z, c, 1) /\ Wall(z, c, 0) - Wall(z, c, 1) < s
    <3>1. c \in DOMAIN z.changes /\ c <= q.end
      BY <1>1 DEF Until, IsZone
    <3> QED  BY <2>2, <3>1, DayBoundary DEF l, s
  <2>3. w < Edge(j) + s
    <3> HIDE DEF Edge
    <3> QED  BY <1>1, <2>1, <2>2, MidnightLasts
  <2>4. Edge(j) <= h
    <3>1. Nth(q, unit, j) <= t
      BY <1>1, <1>12
    <3> QED  BY <1>5, <3>1
  <2>5. Edge(j) = h
    <3>1. Multiple(Edge(j), s)
      BY <1>4
    <3> HIDE DEF Edge, w
    <3>2. Edge(j) < h => Edge(j) + s <= h
      BY <1>1, <1>2, <3>1, MultiplesApart
    <3> QED  BY <1>1, <1>2, <2>1, <2>3, <2>4, <3>2
  <2> QED  BY <1>7, <1>8, <2>5
<1> HIDE DEF Edge
<1>13. FallsInto(q, unit, t, k)
  BY <1>9, <1>10, <1>11, <1>12 DEF FallsInto
<1> QED  BY <1>13

\* An hour of a regular axis begins at a full hour of its own offset.
LEMMA HourStarts ==
    ASSUME NEW q \in Questions, Regular(q, "hour"), NEW t \in q.start .. q.end
    PROVE  BucketOf(q.zone, t, "hour") = LocalStart(q.zone, t, "hour") - Offset(q.zone, t)
<1> DEFINE z == q.zone
           h == LocalStart(z, t, "hour")
           l == LocalStart(z, q.start, "hour")
           f == Fold(z, t)
           P == Until(z, t)
           E == Counts(z, h, f)
           off == Offset(z, t)
           w == t + off
<1>1. /\ IsZone(z) /\ t \in Int /\ q.start \in Int /\ q.end \in Int /\ q.start <= t /\ t <= q.end
      /\ Hour \in Nat \ {0} /\ off \in Int /\ f \in {0, 1} /\ Span("hour") = Hour /\ "hour" \in Units
  BY QuestionIs, OffsetIsInt, Lengths DEF Fold, Span, Units
<1>2. /\ h \in Int /\ Multiple(h, Hour) /\ h <= w /\ w < h + Hour
      /\ l \in Int /\ Multiple(l, Hour) /\ l <= q.start + Offset(z, q.start)
      /\ \A x : Multiple(x, Hour) /\ x <= w => x <= h
  BY <1>1, LocalStarts
<1>3. BucketOf(z, t, "hour") = h - After(z, E) /\ Prefix(z, P) /\ Prefix(z, E) /\ off = After(z, P)
  <2>1. BucketOf(z, t, "hour") = InstantOf(z, h, f)
    BY DEF BucketOf
  <2> QED  BY <1>1, <1>2, <2>1, CountsIsPrefix, UntilIsPrefix DEF Offset
<1>4. /\ \A c \in P : c \in DOMAIN z.changes /\ c <= t
      /\ \A c \in DOMAIN z.changes : c \in Int /\ (c <= t => c \in P)
      /\ \A c \in DOMAIN z.changes : c \in E <=> Wall(z, c, f) <= h
      /\ E \subseteq DOMAIN z.changes
      /\ f = 1 <=> (P # {} /\ w < Wall(z, Max(P), 0))
  <2>1. f = 1 <=> (P # {} /\ w < Wall(z, Max(P), 0))
    BY DEF Fold
  <2> QED  BY <1>1, <2>1 DEF Until, Counts, IsZone
<1> HIDE DEF P, E, h, f, off, l
<1>5. ASSUME Ahead(z, P, E) PROVE FALSE
  <2>1. PICK p \in P \ E : p = Max(P) /\ off = z.changes[p] /\ \A c \in P : c <= p
    BY <1>3, <1>5 DEF Ahead
  <2>2. p \in DOMAIN z.changes /\ p \in Int /\ p <= t
    BY <1>4, <2>1
  <2>3. /\ Wall(z, p, f) \in Int /\ Wall(z, p, 0) \in Int /\ Wall(z, p, 1) \in Int /\ h < Wall(z, p, f)
        /\ Wall(z, p, 1) <= p + off /\ Wall(z, p, 1) <= Wall(z, p, 0)
    BY <1>1, <1>2, <1>4, <2>1, <2>2, Walls
  <2>4. Wall(z, p, f) <= w
    <3>1. CASE f = 1
      BY <1>1, <2>2, <2>3, <3>1
    <3>2. CASE f = 0
      BY <1>1, <1>4, <2>1, <2>3, <3>2
    <3> QED  BY <1>1, <3>1, <3>2
  <2>5. CASE p \in Met(q, "hour")
    <3>1. Wall(z, p, 0) % Hour = 0 /\ Wall(z, p, 1) % Hour = 0
      BY <2>5 DEF Regular
    <3>2. Multiple(Wall(z, p, f), Hour)
      BY <1>1, <2>3, <3>1, NoRemainder
    <3>3. Wall(z, p, f) <= h
      BY <1>2, <2>4, <3>2
    <3> QED  BY <1>2, <2>3, <3>3
  <2>6. CASE p \notin Met(q, "hour")
    <3>1. p <= q.end
      BY <1>1, <2>2
    <3>2. Wall(z, p, 0) <= l
      BY <1>2, <2>2, <2>3, <2>6, <3>1 DEF Met, l
    <3>3. ~(q.start < p)
      <4> DEFINE o == Offset(z, q.start)
      <4>1. o \in Int /\ l <= q.start + o
        BY <1>1, <1>2, OffsetIsInt
      <4>2. q.start < p => q.start + o < Wall(z, p, 0)
        BY <1>1, <2>2, LaterMeets
      <4> HIDE DEF o
      <4> QED  BY <1>1, <1>2, <2>3, <3>2, <4>1, <4>2
    <3>4. Offset(z, q.start) = off
      <4>1. ~\E c \in DOMAIN z.changes : q.start < c /\ c <= t
        BY <1>1, <1>4, <2>1, <2>2, <3>3
      <4> QED  BY <1>1, <4>1, OffsetSince DEF off
    <3>5. l <= h
      BY <1>1, <1>2, <3>4
    <3>6. f = 0 \/ f = 1
      BY <1>1
    <3> QED  BY <1>2, <2>3, <3>2, <3>5, <3>6
  <2> QED  BY <2>5, <2>6
<1>6. ASSUME Ahead(z, E, P) PROVE FALSE
  <2>1. PICK s \in E \ P : Offset(z, s - 1) = off
    BY <1>3, <1>6 DEF Ahead
  <2>2. s \in DOMAIN z.changes /\ s \in Int /\ t < s /\ Wall(z, s, f) <= h
    BY <1>1, <1>4, <2>1
  <2>3. Wall(z, s, 0) \in Int /\ Wall(z, s, 1) \in Int /\ s + off <= Wall(z, s, 0)
    BY <1>1, <2>1, <2>2, Walls
  <2>4. CASE f = 0
    BY <1>1, <1>2, <2>2, <2>3, <2>4
  <2>5. CASE f = 1
    <3> DEFINE p == Max(P)
    <3>1. p \in P /\ w < Wall(z, p, 0)
      BY <1>1, <1>3, <1>4, <2>5, LastOf DEF Prefix
    <3>2. p \in DOMAIN z.changes /\ p \in Int /\ p < s
      BY <1>1, <1>4, <2>2, <3>1
    <3> HIDE DEF p
    <3>3. Wall(z, p, 0) <= Wall(z, s, 1) /\ Wall(z, p, 0) \in Int
      BY <1>1, <2>2, <3>2, Walls DEF IsZone
    <3> QED  BY <1>1, <1>2, <2>2, <2>3, <2>5, <3>1, <3>3
  <2> QED  BY <1>1, <2>4, <2>5
<1>7. P = E
  BY <1>1, <1>3, <1>5, <1>6, Divergence
<1> QED  BY <1>3, <1>7 DEF h, off

\* The offsets of a regular axis of hours are whole hours apart.
LEMMA HoursApart ==
    ASSUME NEW q \in Questions, Regular(q, "hour"), NEW t \in q.start .. q.end
    PROVE  Multiple(Offset(q.zone, t) - Offset(q.zone, q.start), Hour)
<1> DEFINE z == q.zone
           o == Offset(z, q.start)
           B == {c \in DOMAIN z.changes : /\ q.start < c /\ c <= q.end
                                          /\ ~Multiple(z.changes[c] - o, Hour)}
<1>1. /\ IsZone(z) /\ q.start \in Int /\ q.end \in Int /\ q.start <= q.end
      /\ Hour \in Nat \ {0} /\ Hour \in Int /\ o \in Int /\ "hour" \in Units
  BY QuestionIs, OffsetIsInt, Lengths DEF Units
<1>2. Multiple(o - o, Hour)
  <2>1. o - o = 0 * Hour /\ 0 \in Int
    BY <1>1
  <2> QED  BY <2>1 DEF Multiple
<1>3. \A c \in DOMAIN z.changes : c \in Int /\ z.changes[c] \in Int
  BY <1>1, Walls
<1> HIDE DEF o
<1>4. B = {}
  <2> SUFFICES ASSUME B # {} PROVE FALSE
    OBVIOUS
  <2>1. IsFiniteSet(B) /\ B \subseteq Int
    BY <1>1, <1>3, FS_Subset DEF IsZone
  <2>2. PICK c \in B : \A e \in B : c <= e
    BY <2>1, Bounds
  <2>3. c \in DOMAIN z.changes /\ c \in Int /\ c - 1 \in Int /\ q.start <= c - 1 /\ c <= q.end /\ q.start < c
    BY <1>1, <1>3
  <2>4. Multiple(Offset(z, c - 1) - o, Hour)
    <3>1. CASE Offset(z, c - 1) = o
      BY <1>2, <3>1
    <3>2. CASE \E e \in DOMAIN z.changes : q.start < e /\ e <= c - 1 /\ Offset(z, c - 1) = z.changes[e]
      <4>1. PICK e \in DOMAIN z.changes : q.start < e /\ e <= c - 1 /\ Offset(z, c - 1) = z.changes[e]
        BY <3>2
      <4>2. e \notin B /\ e <= q.end
        BY <1>1, <1>3, <2>2, <2>3, <4>1
      <4> QED  BY <4>1, <4>2
    <3> QED  BY <1>1, <2>3, <3>1, <3>2, OffsetSince DEF o
  <2>5. Multiple(z.changes[c] - Offset(z, c - 1), Hour)
    <3> DEFINE l == LocalStart(z, q.start, "hour")
    <3>1. /\ l \in Int /\ l <= q.start + o /\ q.start + o < Wall(z, c, 0)
      BY <1>1, <2>3, LocalStarts, LaterMeets DEF o
    <3> DEFINE low == Wall(z, c, 1)
               high == Wall(z, c, 0)
               a == z.changes[c]
               b == Offset(z, c - 1)
    <3>2. /\ low \in Int /\ high \in Int /\ a \in Int /\ b \in Int
          /\ a - b = high - low \/ a - b = low - high
      <4>1. /\ c \in Int /\ a \in Int /\ b \in Int /\ low \in Int /\ high \in Int
            /\ high = c + (IF b <= a THEN a ELSE b) /\ low = c + (IF b <= a THEN b ELSE a)
        BY <1>1, <2>3, Walls
      <4> HIDE DEF low, high, a, b
      <4> QED  BY <4>1
    <3>3. c \in Met(q, "hour")
      <4>1. l < high
        <5> HIDE DEF l, high
        <5>1. high \in Int /\ q.start + o < high
          BY <3>1, <3>2 DEF high
        <5> QED  BY <1>1, <3>1, <5>1
      <4> QED  BY <2>3, <4>1 DEF Met
    <3>4. low % Hour = 0 /\ high % Hour = 0
      BY <3>3 DEF Regular
    <3>5. Multiple(low, Hour) /\ Multiple(high, Hour)
      BY <1>1, <3>2, <3>4, NoRemainder
    <3>6. Multiple(high - low, Hour) /\ Multiple(low - high, Hour)
      BY <1>1, <3>5, MultiplesAdd
    <3> QED  BY <3>2, <3>6
  <2>6. Multiple(z.changes[c] - o, Hour)
    <3> DEFINE a == z.changes[c]
               b == Offset(z, c - 1)
    <3>1. a \in Int /\ b \in Int
      BY <1>1, <1>3, <2>3, OffsetIsInt
    <3> HIDE DEF a, b
    <3>2. a - o = (a - b) + (b - o)
      BY <1>1, <3>1
    <3>3. Multiple((a - b) + (b - o), Hour)
      BY <1>1, <2>4, <2>5, MultiplesAdd DEF a, b
    <3> QED  BY <3>2, <3>3 DEF a
  <2> QED  BY <2>6
<1>5. t \in Int /\ q.start <= t /\ t <= q.end
  BY <1>1
<1>6. CASE Offset(z, t) = o
  BY <1>2, <1>6 DEF o
<1>7. CASE \E e \in DOMAIN z.changes : q.start < e /\ e <= t /\ Offset(z, t) = z.changes[e]
  <2>1. PICK e \in DOMAIN z.changes : q.start < e /\ e <= t /\ Offset(z, t) = z.changes[e]
    BY <1>7
  <2>2. e \in Int /\ e <= q.end
    BY <1>1, <1>3, <1>5, <2>1
  <2> QED  BY <1>4, <2>1, <2>2 DEF o
<1> QED  BY <1>1, <1>5, <1>6, <1>7, OffsetSince DEF o

LEMMA HoursCount ==
    ASSUME NEW q \in Questions, Regular(q, "hour"), NEW t \in q.start .. q.end
    PROVE  \E k \in Nat : FallsInto(q, "hour", t, k)
<1> DEFINE z == q.zone
           a == BucketOf(z, q.start, "hour")
           b == BucketOf(z, t, "hour")
           l == LocalStart(z, q.start, "hour")
           h == LocalStart(z, t, "hour")
           o == Offset(z, q.start)
           off == Offset(z, t)
<1>1. /\ IsZone(z) /\ t \in Int /\ q.start \in Int /\ q.end \in Int /\ q.start <= t /\ t <= q.end
      /\ Hour \in Nat \ {0} /\ Hour \in Int /\ off \in Int /\ o \in Int /\ Span("hour") = Hour /\ "hour" \in Units
  BY QuestionIs, OffsetIsInt, Lengths DEF Span, Units
<1>2. /\ h \in Int /\ Multiple(h, Hour) /\ h <= t + off /\ t + off < h + Hour
      /\ l \in Int /\ Multiple(l, Hour) /\ l <= q.start + o /\ q.start + o < l + Hour
  BY <1>1, LocalStarts
<1>3. a = l - o /\ b = h - off
  <2>1. q.start \in q.start .. q.end
    BY <1>1
  <2> QED  BY <2>1, HourStarts
<1>4. Multiple(off - o, Hour)
  BY HoursApart
<1>5. \A j \in Nat : Nth(q, "hour", j) = a + j * Hour
  BY DEF Nth
<1>6. t = q.start => a = b
  OBVIOUS
<1> HIDE DEF a, b, l, h, o, off
<1>7. a \in Int /\ b \in Int /\ a <= q.start /\ b <= t /\ t < b + Hour
  BY <1>1, <1>2, <1>3
<1>8. Multiple(b - a, Hour)
  <2>1. b - a = (h - l) - (off - o)
    BY <1>1, <1>2, <1>3
  <2>2. Multiple((h - l) - (off - o), Hour)
    BY <1>1, <1>2, <1>4, MultiplesAdd
  <2> QED  BY <2>1, <2>2
<1>9. PICK k \in Int : b - a = k * Hour
  BY <1>8 DEF Multiple
<1>10. ASSUME NEW j \in Int PROVE (a + j * Hour <= t <=> j <= k) /\ (a + j * Hour = b => j = k)
  <2>1. (j < k => j * Hour + Hour <= k * Hour) /\ (k < j => k * Hour + Hour <= j * Hour)
    BY <1>1, Scaled
  <2>2. j * Hour \in Int /\ k * Hour \in Int
    BY <1>1
  <2> QED  BY <1>1, <1>7, <1>9, <2>1, <2>2
<1>11. k \in Nat
  <2>1. a + 0 * Hour <= t
    BY <1>1, <1>7
  <2>2. 0 <= k
    BY <1>10, <2>1
  <2> QED  BY <2>2
<1>12. b = a + k * Hour
  <2>1. k * Hour \in Int
    BY <1>1
  <2> QED  BY <1>7, <1>9, <2>1
<1>13. t = q.start => k = 0
  <2>1. t = q.start => a + 0 * Hour = b
    BY <1>1, <1>6, <1>7
  <2> QED  BY <1>10, <2>1
<1>14. ASSUME NEW j \in Nat, t = a + j * Hour PROVE k = j
  <2>1. j <= k
    BY <1>1, <1>10, <1>14
  <2>2. ~(j < k)
    <3>1. j < k => j * Hour + Hour <= k * Hour
      BY <1>1, Scaled
    <3>2. j * Hour \in Int /\ k * Hour \in Int
      BY <1>1
    <3> QED  BY <1>1, <1>7, <1>12, <1>14, <3>1, <3>2
  <2> QED  BY <2>1, <2>2
<1>15. FallsInto(q, "hour", t, k)
  BY <1>5, <1>10, <1>11, <1>12, <1>13, <1>14 DEF FallsInto, b
<1> QED  BY <1>11, <1>15

LEMMA BucketsCount ==
    ASSUME NEW q \in Questions, NEW unit \in Units, Regular(q, unit), NEW t \in q.start .. q.end
    PROVE  \E k \in Nat : FallsInto(q, unit, t, k)
  BY HoursCount, DaysCount DEF Units

\* Its buckets begin with slices.
LEMMA BucketsAreSlices ==
    ASSUME NEW q \in Questions, NEW unit \in Units, Regular(q, unit), NEW j \in Nat, Nth(q, unit, j) < q.end
    PROVE  Multiple(Nth(q, unit, j), SliceTicks)
<1> DEFINE z == q.zone
           a == BucketOf(z, q.start, unit)
           l == LocalStart(z, q.start, unit)
           s == Span(unit)
<1>1. /\ IsZone(z) /\ q.start \in Int /\ q.end \in Int /\ SliceTicks \in Nat \ {0} /\ SliceTicks \in Int
      /\ s \in Nat \ {0} /\ Multiple(s, SliceTicks)
  BY QuestionIs, Lengths, Spans
<1>2. Nth(q, unit, 0) = a
  <2>1. l \in Int /\ s \in Int
    BY <1>1, LocalStarts
  <2>2. CASE unit = "hour"
    <3>1. Nth(q, unit, 0) = a + 0 * Hour /\ Nth(q, unit, 0) \in Int /\ Hour \in Int
      BY <2>2, NthIsInt, Lengths DEF Nth
    <3>2. a \in Int
      <4>1. Fold(z, q.start) \in {0, 1}
        BY DEF Fold
      <4>2. a = InstantOf(z, l, Fold(z, q.start))
        BY <2>2 DEF BucketOf
      <4> QED  BY <1>1, <2>1, <4>1, <4>2, CountsIsPrefix
    <3> HIDE DEF a
    <3> QED  BY <3>1, <3>2
  <2>3. CASE unit # "hour"
    <3>1. Nth(q, unit, 0) = InstantOf(z, l + 0 * s, 0) /\ a = InstantOf(z, l, 0)
      BY <2>3 DEF Nth, BucketOf
    <3>2. l + 0 * s = l
      BY <2>1
    <3> QED  BY <3>1, <3>2
  <2> QED  BY <2>2, <2>3
<1>3. a \in Int /\ Multiple(a, SliceTicks)
  <2>1. Nth(q, unit, 0) \in Int
    BY NthIsInt
  <2>2. a % SliceTicks = 0
    BY DEF Regular
  <2> HIDE DEF a
  <2> QED  BY <1>1, <1>2, <2>1, <2>2, NoRemainder
<1>4. CASE unit = "hour"
  <2>1. Nth(q, unit, j) = a + j * s /\ Multiple(j * s, s) /\ j * s \in Int
    <3>1. Nth(q, unit, j) = a + j * s
      BY <1>4 DEF Nth, Span
    <3> HIDE DEF s
    <3> QED  BY <1>1, <3>1 DEF Multiple
  <2>2. Multiple(j * s, SliceTicks)
    <3> HIDE DEF s
    <3>1. s \in Int
      BY <1>1
    <3> QED  BY <1>1, <2>1, <3>1, MultiplesNest
  <2> HIDE DEF a, s
  <2> QED  BY <1>1, <1>3, <2>1, <2>2, MultiplesAdd
<1>5. CASE unit # "hour"
  <2> DEFINE x == l + j * s
             E == Counts(z, x, 0)
             F == Counts(z, l, 0)
             m == Nth(q, unit, j)
  <2>1. unit \in {"day", "week"}
    BY <1>5 DEF Units
  <2>2. /\ x \in Int /\ Multiple(x, s) /\ m = InstantOf(z, x, 0) /\ l <= x
        /\ \A c \in DOMAIN z.changes : c <= q.end /\ x < Wall(z, c, 0) => c \in Met(q, unit)
    BY <2>1, DayBoundary
  <2>3. l \in Int /\ Multiple(l, s)
    BY <1>1, LocalStarts
  <2>4. a = InstantOf(z, l, 0)
    BY <1>5 DEF BucketOf
  <2>5. /\ m = x - After(z, E) /\ Prefix(z, E) /\ a = l - After(z, F) /\ Prefix(z, F) /\ m \in Int
    BY <1>1, <2>2, <2>3, <2>4, CountsIsPrefix
  <2>6. After(z, E) \in Int /\ After(z, F) \in Int
    <3>1. After(z, E) \in -Day .. Day /\ After(z, F) \in -Day .. Day
      BY <1>1, LastOf DEF Counts
    <3> QED  BY <3>1
  <2>7. F \subseteq E
    <3>1. \A c \in DOMAIN z.changes : Wall(z, c, 0) \in Int
      BY <1>1, Walls
    <3> HIDE DEF x, l
    <3> QED  BY <2>2, <2>3, <3>1 DEF Counts
  <2> HIDE DEF x, l, s, a
  <2>8. Multiple(x, SliceTicks) /\ Multiple(l, SliceTicks)
    <3>1. s \in Int
      BY <1>1
    <3> QED  BY <1>1, <2>2, <2>3, <3>1, MultiplesNest
  <2>9. Multiple(After(z, F), SliceTicks)
    <3>1. Multiple(l - a, SliceTicks)
      BY <1>1, <1>3, <2>8, MultiplesAdd
    <3>2. l - a = After(z, F)
      BY <1>3, <2>3, <2>5, <2>6
    <3> QED  BY <3>1, <3>2
  <2>10. Multiple(After(z, E), SliceTicks)
    <3>1. CASE E = F
      BY <2>9, <3>1
    <3>2. CASE E # F
      <4>1. PICK e \in E \ F : After(z, E) = z.changes[e]
        <5>1. E \ F # {}
          BY <2>7, <3>2
        <5>2. Ahead(z, E, F)
          BY <1>1, <2>5, <5>1, GoesOn
        <5> QED  BY <5>2 DEF Ahead
      <4>2. e \in DOMAIN z.changes /\ e \in Int /\ Wall(z, e, 0) <= x /\ ~(Wall(z, e, 0) <= l)
        BY <1>1, <4>1 DEF Counts, IsZone
      <4>3. Wall(z, e, 0) \in Int /\ e + z.changes[e] <= Wall(z, e, 0) /\ z.changes[e] \in Int
        BY <1>1, <4>2, Walls
      <4>4. e <= m
        BY <2>2, <2>5, <2>6, <4>1, <4>2, <4>3
      <4>5. e <= q.end
        BY <1>1, <2>5, <4>2, <4>4
      <4>6. e \in Met(q, unit)
        BY <2>3, <4>2, <4>3, <4>5 DEF Met, l
      <4>7. z.changes[e] % SliceTicks = 0
        BY <1>5, <4>6 DEF Regular
      <4> QED  BY <1>1, <4>1, <4>3, <4>7, NoRemainder
    <3> QED  BY <3>1, <3>2
  <2>11. Multiple(x - After(z, E), SliceTicks)
    BY <1>1, <2>8, <2>10, MultiplesAdd
  <2> QED  BY <2>5, <2>11
<1> QED  BY <1>4, <1>5

-----------------------------------------------------------------------------
(* The axis.                                                               *)

\* The buckets of an axis, from the first to the last before the end of the window.
LEMMA AxisIs ==
    ASSUME NEW q \in Questions, NEW unit \in Units
    PROVE  LET axis == BucketStarts(q, unit)
               n == Len(axis)
           IN  /\ n \in Nat /\ axis \in Seq(Int) /\ DOMAIN axis = 1..n
               /\ \A i \in 1..n : axis[i] = Nth(q, unit, i - 1)
               /\ q.end <= Nth(q, unit, n)
               /\ \A k \in 0..(n - 1) : Nth(q, unit, k) < q.end
<1> DEFINE l == LocalStart(q.zone, q.start, unit)
           most == q.end - l + Day
           Ends(n) == Nth(q, unit, n) >= q.end /\ \A k \in 0 .. n - 1 : Nth(q, unit, k) < q.end
           S == {n \in 0..most : Nth(q, unit, n) >= q.end}
<1>1. IsZone(q.zone) /\ q.start \in Int /\ q.end \in Int /\ q.start <= q.end /\ Day \in Nat \ {0}
  BY QuestionIs, Lengths
<1>2. l \in Int /\ l <= q.start + Day
  <2> DEFINE o == Offset(q.zone, q.start)
  <2>1. l \in Int /\ l <= q.start + o /\ o \in -Day .. Day
    BY <1>1, LocalStarts, OffsetIsInt
  <2> HIDE DEF o, l
  <2> QED  BY <1>1, <2>1
<1>3. \A j \in Nat : Nth(q, unit, j) \in Int /\ l + j - Day <= Nth(q, unit, j)
  BY NthIsInt
<1> HIDE DEF l
<1>4. most \in Nat
  BY <1>1, <1>2
<1>5. most \in S
  BY <1>1, <1>2, <1>3, <1>4
<1> HIDE DEF most
<1>6. PICK m \in S : \A x \in S : m <= x
  <2>1. IsFiniteSet(0..most)
    BY <1>4, FS_Interval
  <2>2. IsFiniteSet(S) /\ S \subseteq Int /\ S # {}
    BY <1>5, <2>1, FS_Subset
  <2> QED  BY <2>2, Bounds
<1>7. m \in 0..most /\ Ends(m)
  <2>1. ASSUME NEW k \in 0 .. m - 1 PROVE Nth(q, unit, k) < q.end
    <3>1. k \in 0..most /\ k \notin S
      BY <1>4, <1>6
    <3>2. Nth(q, unit, k) \in Int
      BY <1>3, <1>4, <3>1
    <3> QED  BY <1>1, <3>1, <3>2
  <2> QED  BY <1>6, <2>1
<1> DEFINE n == CHOOSE n \in 0..most : Ends(n)
<1>8. n \in 0..most /\ Ends(n)
  BY <1>7
<1>9. BucketStarts(q, unit) = [i \in 1..n |-> Nth(q, unit, i - 1)]
  BY DEF BucketStarts, most, l
<1> HIDE DEF n
<1>10. \A i \in 1..n : i - 1 \in Nat /\ Nth(q, unit, i - 1) \in Int
  BY <1>3, <1>4, <1>8
<1>11. n \in Nat
  BY <1>4, <1>8
<1> DEFINE axis == BucketStarts(q, unit)
<1>12. axis \in Seq(Int) /\ Len(axis) = n /\ DOMAIN axis = 1..n /\ \A i \in 1..n : axis[i] = Nth(q, unit, i - 1)
  BY <1>9, <1>10, <1>11
<1>13. q.end <= Nth(q, unit, n)
  BY <1>1, <1>3, <1>8, <1>11
<1> QED  BY <1>8, <1>11, <1>12, <1>13

\* A regular one goes up, with a bucket for each time of the window.
LEMMA AxisGoesUp ==
    ASSUME NEW q \in Questions, NEW unit \in Units, Regular(q, unit)
    PROVE  LET axis == BucketStarts(q, unit)
               n == Len(axis)
           IN  /\ \A i, j \in 1..n : i < j => axis[i] < axis[j]
               /\ \A i \in 2..n : /\ axis[i] \in q.start..(q.end - 1)
                                  /\ axis[i] = BucketOf(q.zone, axis[i], unit)
               /\ n # 0 => axis[1] = BucketOf(q.zone, q.start, unit)
               /\ \A i \in 1..n : Multiple(axis[i], SliceTicks)
               /\ \A t \in q.start..(q.end - 1) :
                    \E p \in 1..n : /\ axis[p] = BucketOf(q.zone, t, unit)
                                    /\ \A i \in 1..n : axis[i] <= t <=> i <= p
<1> DEFINE axis == BucketStarts(q, unit)
           n == Len(axis)
           N(j) == Nth(q, unit, j)
<1>1. /\ n \in Nat /\ axis \in Seq(Int)
      /\ \A i \in 1..n : i - 1 \in Nat /\ i - 1 \in 0..(n - 1) /\ axis[i] = N(i - 1) /\ axis[i] \in Int /\ axis[i] < q.end
      /\ q.end <= N(n)
  <2>1. /\ n \in Nat /\ axis \in Seq(Int)
        /\ \A i \in 1..n : axis[i] = N(i - 1)
        /\ q.end <= N(n) /\ \A k \in 0..(n - 1) : N(k) < q.end
    BY AxisIs
  <2> HIDE DEF n, axis, N
  <2>2. \A i \in 1..n : i - 1 \in 0..(n - 1) /\ i - 1 \in Nat
    BY <2>1
  <2>3. \A j \in Nat : N(j) \in Int
    BY NthIsInt DEF N
  <2> QED  BY <2>1, <2>2, <2>3
<1>2. q.start \in Int /\ q.end \in Int /\ q.start <= q.end
  BY QuestionIs
<1>3. \A j \in Nat : N(j) \in Int
  BY NthIsInt
<1>4. \A t \in q.start..q.end : \E k \in Nat :
        /\ BucketOf(q.zone, t, unit) = N(k) /\ \A j \in Nat : (N(j) <= t <=> j <= k) /\ (t = N(j) => k = j)
        /\ t = q.start => k = 0
  BY BucketsCount DEF FallsInto
<1>5. \A i \in 1..n : Multiple(axis[i], SliceTicks)
  BY <1>1, BucketsAreSlices
<1> HIDE DEF axis, n, N
<1>6. \A j \in Nat \ {0} : q.start < N(j)
  <2>1. q.start \in q.start..q.end
    BY <1>2
  <2>2. \A j \in Nat : N(j) <= q.start <=> j <= 0
    BY <1>4, <2>1
  <2> QED  BY <1>2, <1>3, <2>2
<1>7. ASSUME NEW i \in 2..n
      PROVE  /\ axis[i] \in q.start..(q.end - 1) /\ axis[i] = BucketOf(q.zone, axis[i], unit)
             /\ \A j \in 1..n : j < i => axis[j] < axis[i]
  <2>1. i \in 1..n /\ i - 1 \in Nat \ {0}
    BY <1>1
  <2>2. axis[i] = N(i - 1) /\ axis[i] \in Int /\ axis[i] < q.end /\ q.start < axis[i]
    BY <1>1, <1>6, <2>1
  <2>3. axis[i] \in q.start..(q.end - 1) /\ axis[i] \in q.start..q.end
    BY <1>2, <2>2
  <2>4. PICK k \in Nat : /\ BucketOf(q.zone, axis[i], unit) = N(k)
                         /\ \A j \in Nat : (N(j) <= axis[i] <=> j <= k) /\ (axis[i] = N(j) => k = j)
    BY <1>4, <2>3
  <2>5. k = i - 1
    BY <2>1, <2>2, <2>4
  <2>6. ASSUME NEW j \in 1..n, j < i PROVE axis[j] < axis[i]
    <3>1. j - 1 \in Nat /\ j - 1 <= k /\ j - 1 # k /\ axis[j] = N(j - 1) /\ axis[j] \in Int
      BY <1>1, <2>1, <2>5, <2>6
    <3>2. axis[j] <= axis[i] /\ axis[j] # axis[i]
      BY <2>4, <3>1
    <3> QED  BY <2>2, <3>1, <3>2
  <2> QED  BY <2>2, <2>3, <2>4, <2>5, <2>6
<1>8. \A i, j \in 1..n : i < j => axis[i] < axis[j]
  <2>1. \A i, j \in 1..n : i < j => j \in 2..n
    BY <1>1
  <2> QED  BY <1>7, <2>1
<1>9. n # 0 => axis[1] = BucketOf(q.zone, q.start, unit)
  <2>1. q.start \in q.start..q.end
    BY <1>2
  <2>2. BucketOf(q.zone, q.start, unit) = N(0)
    BY <1>4, <2>1
  <2>3. n # 0 => 1 \in 1..n /\ 1 - 1 = 0
    BY <1>1
  <2> QED  BY <1>1, <2>2, <2>3
<1>10. ASSUME NEW t \in q.start..(q.end - 1)
       PROVE  \E p \in 1..n : /\ axis[p] = BucketOf(q.zone, t, unit)
                              /\ \A i \in 1..n : axis[i] <= t <=> i <= p
  <2>1. t \in q.start..q.end /\ t \in Int /\ t < q.end
    BY <1>2
  <2>2. PICK k \in Nat : BucketOf(q.zone, t, unit) = N(k) /\ \A j \in Nat : N(j) <= t <=> j <= k
    BY <1>4, <2>1
  <2>3. ~(n <= k)
    <3>1. n <= k => N(n) <= t
      BY <1>1, <2>2
    <3>2. N(n) \in Int
      BY <1>1, <1>3
    <3> QED  BY <1>1, <1>2, <2>1, <3>1, <3>2
  <2>4. k + 1 \in 1..n /\ (k + 1) - 1 = k
    BY <1>1, <2>3
  <2>5. ASSUME NEW i \in 1..n PROVE axis[i] <= t <=> i <= k + 1
    <3>1. axis[i] = N(i - 1) /\ i - 1 \in Nat
      BY <1>1
    <3> QED  BY <1>1, <2>2, <3>1
  <2> QED  BY <1>1, <2>2, <2>4, <2>5
<1> QED  BY <1>5, <1>7, <1>8, <1>9, <1>10 DEF axis, n

\* A slice of the window is in the position of the bucket its times fall into.
LEMMA SliceFallsInto ==
    ASSUME NEW q \in Questions, NEW unit \in Units, Regular(q, unit), NEW t \in q.start..(q.end - 1)
    PROVE  LET axis == BucketStarts(q, unit)
               p == Position(axis, t \div SliceTicks)
           IN  p \in 1..Len(axis) /\ axis[p] = BucketOf(q.zone, t, unit)
<1> DEFINE axis == BucketStarts(q, unit)
           n == Len(axis)
           r == (t \div SliceTicks) * SliceTicks
<1>1. PICK p \in 1..n : axis[p] = BucketOf(q.zone, t, unit) /\ \A i \in 1..n : axis[i] <= t <=> i <= p
  BY AxisGoesUp
<1>2. axis \in Seq(Int) /\ DOMAIN axis = 1..n /\ n \in Nat
  BY AxisIs
<1>3. \A i \in 1..n : axis[i] \in Int /\ Multiple(axis[i], SliceTicks)
  <2>1. \A i \in 1..n : Multiple(axis[i], SliceTicks)
    BY AxisGoesUp
  <2> HIDE DEF axis
  <2> QED  BY <1>2, <2>1
<1> HIDE DEF axis
<1>4. DOMAIN axis = 1..n /\ n \in Nat
  BY <1>2
<1> HIDE DEF n
<1>5. r \in Int /\ t \in Int /\ r <= t /\ t < r + SliceTicks /\ Multiple(r, SliceTicks)
  <2>1. t \in Int /\ SliceTicks \in Nat \ {0}
    BY QuestionsAssumption, Lengths
  <2>2. r \in Int /\ t \div SliceTicks \in Int /\ t % SliceTicks \in 0..(SliceTicks - 1) /\ t = r + (t % SliceTicks)
    BY <2>1, Quotient
  <2>3. r <= t /\ t < r + SliceTicks
    <3> DEFINE m == t % SliceTicks
    <3> HIDE DEF r, m
    <3>1. m \in 0..(SliceTicks - 1) /\ t = r + m
      BY <2>2 DEF m
    <3> QED  BY <2>1, <2>2, <3>1
  <2> QED  BY <2>1, <2>2, <2>3 DEF Multiple
<1> HIDE DEF r
<1>6. ASSUME NEW i \in 1..n PROVE axis[i] <= r <=> i <= p
  <2>1. axis[i] \in Int /\ Multiple(axis[i], SliceTicks) /\ (axis[i] <= t <=> i <= p)
    BY <1>1, <1>3
  <2>2. r < axis[i] => r + SliceTicks <= axis[i]
    BY <1>5, <2>1, Lengths, MultiplesApart
  <2>3. SliceTicks \in Int
    BY Lengths
  <2> QED  BY <1>5, <2>1, <2>2, <2>3
<1>7. {i \in DOMAIN axis : axis[i] <= r} = 1..p
  BY <1>1, <1>4, <1>6
<1>8. Cardinality(1..p) = p
  BY <1>1, <1>4, FS_Interval
<1>9. Position(axis, t \div SliceTicks) = p
  BY <1>7, <1>8 DEF Position, r
<1> QED  BY <1>1, <1>9 DEF axis, n

\* The buckets that the times of a window fall into.
Filled(q, unit) == {BucketOf(q.zone, t, unit) : t \in q.start..(q.end - 1)}

\* The buckets of a regular axis are those, once each.
LEMMA AxisIsFilled ==
    ASSUME NEW q \in Questions, NEW unit \in Units, Regular(q, unit), q.start < q.end
    PROVE  LET axis == BucketStarts(q, unit)
           IN  /\ \A i \in DOMAIN axis : axis[i] \in Filled(q, unit)
               /\ Cardinality(Filled(q, unit)) = Len(axis)
<1> DEFINE axis == BucketStarts(q, unit)
           n == Len(axis)
           window == q.start..(q.end - 1)
<1>1. q.start \in Int /\ q.end \in Int /\ q.start \in window
  BY QuestionsAssumption
<1>2. axis \in Seq(Int) /\ DOMAIN axis = 1..n /\ n \in Nat
  BY AxisIs
<1>3. /\ \A i, j \in 1..n : i < j => axis[i] < axis[j]
      /\ \A i \in 2..n : axis[i] \in window /\ axis[i] = BucketOf(q.zone, axis[i], unit)
      /\ n # 0 => axis[1] = BucketOf(q.zone, q.start, unit)
      /\ \A t \in window : \E p \in 1..n : axis[p] = BucketOf(q.zone, t, unit)
  BY AxisGoesUp
<1> HIDE DEF axis
<1>4. DOMAIN axis = 1..n /\ n \in Nat /\ \A i \in 1..n : axis[i] \in Int
  BY <1>2
<1> HIDE DEF n
<1>5. ASSUME NEW i \in 1..n PROVE axis[i] \in Filled(q, unit)
  <2>1. CASE i = 1
    <3>1. axis[i] = BucketOf(q.zone, q.start, unit)
      BY <1>3, <1>4, <2>1
    <3> QED  BY <1>1, <3>1 DEF Filled
  <2>2. CASE i \in 2..n
    <3>1. axis[i] \in window /\ axis[i] = BucketOf(q.zone, axis[i], unit)
      BY <1>3, <2>2
    <3> QED  BY <3>1 DEF Filled
  <2> QED  BY <1>4, <2>1, <2>2
<1>6. axis \in Bijection(1..n, Filled(q, unit))
  <2>1. axis \in [1..n -> Filled(q, unit)]
    BY <1>2, <1>4, <1>5
  <2>2. ASSUME NEW i \in 1..n, NEW j \in 1..n, axis[i] = axis[j] PROVE i = j
    <3>1. (i < j => axis[i] < axis[j]) /\ (j < i => axis[j] < axis[i])
      BY <1>3
    <3>2. axis[i] \in Int /\ axis[j] \in Int
      BY <1>4
    <3>3. ~(axis[i] < axis[j]) /\ ~(axis[j] < axis[i])
      BY <2>2, <3>2
    <3> QED  BY <1>4, <3>1, <3>3
  <2>3. \A b \in Filled(q, unit) : \E i \in 1..n : axis[i] = b
    BY <1>3 DEF Filled
  <2>4. axis \in Surjection(1..n, Filled(q, unit))
    BY <2>1, <2>3 DEF Surjection
  <2>5. axis \in Injection(1..n, Filled(q, unit))
    BY <2>1, <2>2 DEF Injection, IsInjective
  <2> QED  BY <2>4, <2>5 DEF Bijection
<1>7. Cardinality(Filled(q, unit)) = n
  <2>1. IsFiniteSet(1..n) /\ Cardinality(1..n) = n
    BY <1>4, FS_Interval
  <2>2. ExistsBijection(1..n, Filled(q, unit))
    BY <1>6 DEF ExistsBijection
  <2> QED  BY <2>1, <2>2, FS_Bijection
<1> QED  BY <1>4, <1>5, <1>7 DEF axis, n

\* A unit that does not fit is one that the window needs too many buckets of.
LEMMA TooMany ==
    ASSUME NEW q \in Questions, NEW unit \in Units, ~(Len(BucketStarts(q, unit)) <= MaxBuckets),
           Regular(q, unit)
    PROVE  Cardinality(Filled(q, unit)) > MaxBuckets
<1> DEFINE n == Len(BucketStarts(q, unit))
<1>1. MaxBuckets \in Nat \ {0} /\ q.start \in Int /\ q.end \in Int
  BY LengthsAssumption, QuestionsAssumption
<1>2. n \in Nat
  BY AxisIs
<1>3. 2 \in 2..n => q.start < q.end
  <2>1. 2 \in 2..n => BucketStarts(q, unit)[2] \in q.start..(q.end - 1)
    BY AxisGoesUp
  <2> HIDE DEF n
  <2> QED  BY <1>1, <2>1
<1>4. q.start < q.end => Cardinality(Filled(q, unit)) = n
  BY AxisIsFilled
<1> HIDE DEF n
<1>5. ~(n <= MaxBuckets)
  BY DEF n
<1>6. 2 \in 2..n
  BY <1>1, <1>2, <1>5
<1> QED  BY <1>1, <1>2, <1>3, <1>4, <1>5, <1>6

LEMMA UnitsAreUnits ==
    ASSUME NEW q \in Questions
    PROVE  Wished(q) \in Units /\ EffectiveBucket(q) \in Units
<1>1. q.unit \in {"auto", "hour", "day", "week"}
  BY QuestionsAssumption
<1>2. Wished(q) \in Units
  BY <1>1 DEF Wished, AutoBucket, Units
<1> QED  BY <1>2 DEF EffectiveBucket, Units

\* The unit of an axis is the one asked for, or the finest coarser one that fits.
LEMMA UnitFits ==
    ASSUME NEW q \in Questions
    PROVE  LET unit == EffectiveBucket(q)
               finer == IF unit = Wished(q) THEN {}
                        ELSE IF unit = "day" THEN {"hour"} ELSE {Wished(q), "day"}
           IN  /\ unit # "week" => Len(BucketStarts(q, unit)) <= MaxBuckets
               /\ \A u \in finer : Regular(q, u) => Cardinality(Filled(q, u)) > MaxBuckets
<1> DEFINE fits(u) == Len(BucketStarts(q, u)) <= MaxBuckets
           many(u) == Regular(q, u) => Cardinality(Filled(q, u)) > MaxBuckets
<1>1. Wished(q) \in {"hour", "day", "week"} /\ \A u \in Units : ~fits(u) => many(u)
  BY UnitsAreUnits, TooMany DEF Units
<1>2. EffectiveBucket(q) = IF Wished(q) = "week" \/ fits(Wished(q)) THEN Wished(q)
                           ELSE IF Wished(q) = "hour" /\ fits("day") THEN "day" ELSE "week"
  BY DEF EffectiveBucket
<1> HIDE DEF fits, many
<1>3. EffectiveBucket(q) # "week" => fits(EffectiveBucket(q))
  BY <1>1, <1>2
<1>4. CASE EffectiveBucket(q) = Wished(q)
  BY <1>3, <1>4 DEF fits
<1>5. CASE EffectiveBucket(q) # Wished(q) /\ EffectiveBucket(q) = "day"
  <2>1. ~fits("hour")
    BY <1>1, <1>2, <1>5
  <2> QED  BY <1>1, <1>3, <1>5, <2>1 DEF fits, many, Units
<1>6. CASE EffectiveBucket(q) # Wished(q) /\ EffectiveBucket(q) # "day"
  <2>1. ~fits(Wished(q)) /\ ~fits("day")
    BY <1>1, <1>2, <1>6
  <2> QED  BY <1>1, <1>3, <1>6, <2>1 DEF fits, many, Units
<1> QED  BY <1>4, <1>5, <1>6

LEMMA AxisOfQuestion ==
    ASSUME question \in Questions
    PROVE  AxisIsLocal
<1> DEFINE unit == EffectiveBucket(question)
           axis == BucketStarts(question, unit)
           window == question.start..(question.end - 1)
<1>1. unit \in Units
  BY UnitsAreUnits
<1>2. question.start \in Int /\ question.end \in Int /\ question.start <= question.end
  BY QuestionsAssumption
<1>3. axis \in Seq(Int) /\ DOMAIN axis = 1..Len(axis)
  BY <1>1, AxisIs
<1>4. ASSUME Regular(question, unit), NEW t \in window
      PROVE  LET p == Position(axis, t \div SliceTicks)
             IN  p # 0 /\ axis[p] = BucketOf(question.zone, t, unit)
  BY <1>1, <1>3, <1>4, SliceFallsInto
<1>5. ASSUME Regular(question, unit), window # {}
      PROVE  \A i \in DOMAIN axis : axis[i] \in {BucketOf(question.zone, t, unit) : t \in window}
  <2>1. question.start < question.end
    BY <1>2, <1>5
  <2> QED  BY <1>1, <1>5, <2>1, AxisIsFilled DEF Filled
<1> QED  BY <1>4, <1>5, UnitFits DEF AxisIsLocal, Axis, Filled

-----------------------------------------------------------------------------
(* Costs.                                                                  *)

\* What bills at the base rates and above them, of one kind of token.
CostBy(plan, share, billed, k) == share[k] * plan.base[k] + (billed[k] - share[k]) * plan.above[k]

Priced(u) == u.model \in DOMAIN prices
PlanOf(u) == CostPlan(prices[u.model])

LEMMA KindsAre == ASSUME NEW f, NEW g, f \in [Kinds -> g] PROVE f.input \in g /\ f.output \in g /\ f.cached \in g
  BY DEF Kinds

\* The rates of a plan, in terms of what is published.
LEMMA PlanIs ==
    ASSUME NEW ps \in PriceMaps, NEW m \in DOMAIN ps
    PROVE  LET p == ps[m]
               plan == CostPlan(p)
               base == [p.base EXCEPT !.cached = Or(@, IF p.openai THEN p.base.input ELSE p.base.input \div 10)]
               long == Published(p.above272) /\ (p.openai \/ ~Published(p.above200))
               above(k) == IF long THEN Or(p.above272[k], base[k]) ELSE Or(p.above200[k], base[k])
           IN  /\ plan.openai = p.openai /\ p.openai \in BOOLEAN
               /\ plan.switch = (p.openai \/ (Published(p.above272) /\ ~Published(p.above200)))
               /\ plan.threshold = IF long THEN Threshold272 ELSE Threshold200
               /\ plan.threshold \in Int
               /\ plan.base = base /\ \A k \in Kinds : plan.base[k] \in Int
               /\ plan.above \in [Kinds -> Int]
               /\ \A k \in Kinds :
                    plan.above[k] = IF k = "cached" /\ p.openai /\ p.base.cached = NoRate THEN above("input") ELSE above(k)
<1> DEFINE p == ps[m]
           plan == CostPlan(p)
           base == [p.base EXCEPT !.cached = Or(@, IF p.openai THEN p.base.input ELSE p.base.input \div 10)]
           switch == p.openai \/ (Published(p.above272) /\ ~Published(p.above200))
           long == switch /\ Published(p.above272)
           tier == IF long THEN p.above272 ELSE p.above200
           above == [k \in Kinds |-> Or(tier[k], base[k])]
<1>1. /\ p.openai \in BOOLEAN /\ p.base \in Tiers /\ p.above200 \in Tiers /\ p.above272 \in Tiers
      /\ p.base.input \in Int /\ p.base.output \in Int
  BY PricesAssumption
<1>2. Threshold200 \in Int /\ Threshold272 \in Int
  BY UsagesAssumption
<1>3. plan = [openai |-> p.openai, switch |-> switch, base |-> base,
              threshold |-> IF long THEN Threshold272 ELSE Threshold200,
              above |-> IF p.openai /\ p.base.cached = NoRate
                        THEN [above EXCEPT !.cached = above.input] ELSE above]
  BY DEF CostPlan
<1> HIDE DEF p, plan
<1>4. \A k \in Kinds : base[k] \in Int
  <2>1. base \in [Rates -> Int \cup {NoRate}] /\ base.cached = Or(p.base.cached, IF p.openai THEN p.base.input ELSE p.base.input \div 10)
        /\ base.input = p.base.input /\ base.output = p.base.output
    <3>1. (IF p.openai THEN p.base.input ELSE p.base.input \div 10) \in Int
      BY <1>1
    <3> QED  BY <1>1, <3>1 DEF Tiers, Rates, Kinds, Or
  <2>2. base.cached \in Int
    <3>1. p.base.cached \in Int \cup {NoRate}
      BY <1>1 DEF Tiers, Rates, Kinds
    <3>2. (IF p.openai THEN p.base.input ELSE p.base.input \div 10) \in Int
      BY <1>1
    <3> QED  BY <2>1, <3>1, <3>2 DEF Or
  <2> HIDE DEF base
  <2>3. \A k \in Kinds : base[k] \in Int
    BY <1>1, <2>1, <2>2 DEF Kinds
  <2> QED  BY <2>1, <2>3
<1> HIDE DEF base
<1>5. tier \in Tiers
  BY <1>1
<1> HIDE DEF tier
<1>6. above \in [Kinds -> Int] /\ \A k \in Kinds : above[k] = Or(tier[k], base[k])
  <2>1. \A k \in Kinds : Or(tier[k], base[k]) \in Int
    BY <1>4, <1>5 DEF Tiers, Rates, Or
  <2> QED  BY <2>1
<1> HIDE DEF above
<1>7. plan.above = IF p.openai /\ p.base.cached = NoRate THEN [above EXCEPT !.cached = above.input] ELSE above
  BY <1>3
<1>8. /\ plan.above \in [Kinds -> Int]
      /\ \A k \in Kinds : plan.above[k] = IF k = "cached" /\ p.openai /\ p.base.cached = NoRate THEN above.input ELSE above[k]
  <2>1. "input" \in Kinds /\ "cached" \in Kinds /\ above.input \in Int
    BY <1>6 DEF Kinds
  <2> QED  BY <1>6, <1>7, <2>1
<1>9. ASSUME NEW k \in Kinds
      PROVE  Or(tier[k], base[k]) = IF Published(p.above272) /\ (p.openai \/ ~Published(p.above200))
                                    THEN Or(p.above272[k], base[k]) ELSE Or(p.above200[k], base[k])
  BY <1>1 DEF tier
<1>10. "input" \in Kinds
  BY DEF Kinds
<1>11. /\ plan.openai = p.openai
       /\ plan.switch = switch /\ plan.base = base
       /\ plan.threshold = IF long THEN Threshold272 ELSE Threshold200
  BY <1>3
<1>12. plan.threshold = IF Published(p.above272) /\ (p.openai \/ ~Published(p.above200)) THEN Threshold272 ELSE Threshold200
  BY <1>11
<1> QED  BY <1>1, <1>2, <1>4, <1>6, <1>8, <1>9, <1>10, <1>11, <1>12 DEF p, plan, base

\* What is billed of a request, and what of it at the base rates, kind by kind.
LEMMA BilledIs ==
    ASSUME NEW plan, plan.openai \in BOOLEAN, plan.threshold \in Int, NEW u \in Usages
    PROVE  LET b == Billed(plan, u)
               s == BaseShare(plan, b)
               past == b.input + b.cached > plan.threshold
           IN  /\ b \in [Kinds -> Int] /\ s \in [Kinds -> Int]
               /\ b.output = u.output
               /\ b.cached = IF plan.openai /\ u.input < u.cached THEN u.input ELSE u.cached
               /\ b.input = IF plan.openai THEN u.input - b.cached ELSE u.input
               /\ \A k \in Kinds : s[k] = IF ~plan.switch
                                          THEN IF b[k] <= plan.threshold THEN b[k] ELSE plan.threshold
                                          ELSE IF past THEN 0 ELSE b[k]
<1> DEFINE b == Billed(plan, u)
           s == BaseShare(plan, b)
           cached == IF plan.openai THEN Min({u.cached, u.input}) ELSE u.cached
<1>1. u.input \in Int /\ u.output \in Int /\ u.cached \in Int
  BY UsagesAssumption
<1>2. Min({u.cached, u.input}) = IF u.cached <= u.input THEN u.cached ELSE u.input
  BY <1>1, Extremes
<1>3. cached = (IF plan.openai /\ u.input < u.cached THEN u.input ELSE u.cached) /\ cached \in Int
  BY <1>1, <1>2
<1>4. b = [input |-> u.input - IF plan.openai THEN cached ELSE 0, output |-> u.output, cached |-> cached]
  BY DEF Billed
<1> HIDE DEF b, cached
<1>5. b.input = (IF plan.openai THEN u.input - b.cached ELSE u.input) /\ b.output = u.output /\ b.cached = cached
  BY <1>1, <1>3, <1>4
<1>6. b \in [Kinds -> Int]
  <2>1. b \in [{"input", "output", "cached"} -> Int]
    <3>1. (u.input - IF plan.openai THEN cached ELSE 0) \in Int
      BY <1>1, <1>3
    <3> QED  BY <1>1, <1>3, <1>4, <3>1
  <2> QED  BY <2>1 DEF Kinds
<1>7. ASSUME NEW k \in Kinds
      PROVE  /\ s[k] = IF ~plan.switch THEN IF b[k] <= plan.threshold THEN b[k] ELSE plan.threshold
                       ELSE IF b.input + b.cached > plan.threshold THEN 0 ELSE b[k]
             /\ s[k] \in Int
  <2>1. b[k] \in Int
    BY <1>6
  <2>2. Min({b[k], plan.threshold}) = IF b[k] <= plan.threshold THEN b[k] ELSE plan.threshold
    BY <2>1, Extremes
  <2> QED  BY <2>1, <2>2 DEF BaseShare
<1>8. s \in [Kinds -> Int]
  <2>1. s = [k \in Kinds |-> s[k]]
    BY DEF BaseShare
  <2> HIDE DEF s
  <2> QED  BY <1>7, <2>1
<1> QED  BY <1>3, <1>5, <1>6, <1>7, <1>8 DEF b

\* A request costs by its own size what the plan's rates bill of it.
LEMMA RequestIsBilled ==
    ASSUME prices \in PriceMaps, NEW u \in Usages, Priced(u)
    PROVE  LET b == Billed(PlanOf(u), u)
               s == BaseShare(PlanOf(u), b)
           IN  RequestCost(u) = CostBy(PlanOf(u), s, b, "input") + CostBy(PlanOf(u), s, b, "output")
                                + CostBy(PlanOf(u), s, b, "cached")
<1> DEFINE p == prices[u.model]
           plan == PlanOf(u)
           has200 == Published(p.above200)
           has272 == Published(p.above272)
           fresh == IF p.openai THEN Max({u.input - u.cached, 0}) ELSE u.input
           cached == IF p.openai THEN u.input - fresh ELSE u.cached
           context == IF p.openai THEN u.input ELSE u.input + u.cached
           base == [p.base EXCEPT !.cached = Or(@, IF p.openai THEN p.base.input ELSE p.base.input \div 10)]
           above(k) == IF has272 /\ (p.openai \/ ~has200) THEN Or(p.above272[k], base[k])
                       ELSE Or(p.above200[k], base[k])
           long(k) == IF k = "cached" /\ p.openai /\ p.base.cached = NoRate THEN above("input") ELSE above(k)
           whole == p.openai \/ (has272 /\ ~has200)
           bill(k, n) == IF ~whole THEN n * base[k] + Max({n - Threshold200, 0}) * (long(k) - base[k])
                         ELSE IF context > IF has272 THEN Threshold272 ELSE Threshold200
                              THEN n * long(k) ELSE n * base[k]
           b == Billed(plan, u)
           s == BaseShare(plan, b)
<1>1. RequestCost(u) = bill("input", fresh) + bill("output", u.output) + bill("cached", cached)
  BY DEF RequestCost
<1>2. /\ plan.openai = p.openai /\ p.openai \in BOOLEAN /\ plan.switch = whole
      /\ plan.threshold = (IF has272 /\ (p.openai \/ ~has200) THEN Threshold272 ELSE Threshold200)
      /\ plan.threshold \in Int
      /\ plan.base = base /\ (\A k \in Kinds : plan.base[k] \in Int) /\ plan.above \in [Kinds -> Int]
      /\ \A k \in Kinds : plan.above[k] = long(k)
  BY PlanIs DEF Priced, PlanOf
<1>3. u.input \in Int /\ u.output \in Int /\ u.cached \in Int
  BY UsagesAssumption
<1> HIDE DEF plan, base, above, long
<1>4. /\ b \in [Kinds -> Int] /\ s \in [Kinds -> Int] /\ b.output = u.output
      /\ b.cached = IF plan.openai /\ u.input < u.cached THEN u.input ELSE u.cached
      /\ b.input = IF plan.openai THEN u.input - b.cached ELSE u.input
      /\ \A k \in Kinds : s[k] = IF ~plan.switch
                                 THEN IF b[k] <= plan.threshold THEN b[k] ELSE plan.threshold
                                 ELSE IF b.input + b.cached > plan.threshold THEN 0 ELSE b[k]
  BY <1>2, BilledIs
<1> HIDE DEF b, s, p, has200, has272
<1>5. fresh = b.input /\ cached = b.cached
  <2>1. Max({u.input - u.cached, 0}) = IF u.input - u.cached <= 0 THEN 0 ELSE u.input - u.cached
    <3>1. u.input - u.cached \in Int /\ 0 \in Int
      BY <1>3
    <3> QED  BY <3>1, Extremes
  <2> QED  BY <1>2, <1>3, <1>4, <2>1
<1>6. context = b.input + b.cached
  <2>1. b.input \in Int /\ b.cached \in Int
    BY <1>4, KindsAre
  <2> QED  BY <1>2, <1>3, <1>4, <2>1
<1> HIDE DEF fresh, cached, context
<1>7. ASSUME NEW k \in Kinds PROVE bill(k, b[k]) = CostBy(plan, s, b, k)
  <2> DEFINE n == b[k]
             r == base[k]
             l == long(k)
  <2>1. n \in Int /\ r \in Int /\ l \in Int
    BY <1>2, <1>4
  <2>2. CostBy(plan, s, b, k) = s[k] * r + (n - s[k]) * l
    BY <1>2 DEF CostBy
  <2> HIDE DEF n, r, l
  <2>3. CASE ~whole
    <3>1. plan.threshold = Threshold200
      BY <1>2, <2>3
    <3>2. s[k] = IF n <= Threshold200 THEN n ELSE Threshold200
      BY <1>2, <1>4, <2>3, <3>1 DEF n
    <3>3. bill(k, n) = n * r + Max({n - Threshold200, 0}) * (l - r)
      BY <2>3 DEF r, l
    <3>4. Threshold200 \in Int
      BY UsagesAssumption
    <3>5. bill(k, n) = s[k] * r + (n - s[k]) * l
      <4> HIDE DEF bill
      <4> DEFINE past == Max({n - Threshold200, 0})
      <4>1. past = IF n - Threshold200 <= 0 THEN 0 ELSE n - Threshold200
        <5>1. n - Threshold200 \in Int /\ 0 \in Int
          BY <2>1, <3>4
        <5> QED  BY <5>1, Extremes
      <4>2. bill(k, n) = n * r + past * (l - r)
        BY <3>3
      <4> HIDE DEF past
      <4>3. CASE n <= Threshold200
        <5>1. past = 0 /\ s[k] = n /\ n - n = 0
          BY <2>1, <3>2, <3>4, <4>1, <4>3
        <5>2. n * r \in Int /\ 0 * (l - r) = 0 /\ 0 * l = 0
          BY <2>1
        <5> QED  BY <4>2, <5>1, <5>2
      <4>4. CASE ~(n <= Threshold200)
        <5>1. past = n - Threshold200 /\ s[k] = Threshold200
          BY <2>1, <3>2, <3>4, <4>1, <4>4
        <5>2. n * r + (n - Threshold200) * (l - r) = Threshold200 * r + (n - Threshold200) * l
          BY <2>1, <3>4
        <5> QED  BY <4>2, <5>1, <5>2
      <4> QED  BY <4>3, <4>4
    <3> QED  BY <2>2, <3>5 DEF n
  <2>4. CASE whole
    <3>1. plan.threshold = IF has272 THEN Threshold272 ELSE Threshold200
      BY <1>2, <2>4
    <3>2. s[k] = IF context > plan.threshold THEN 0 ELSE n
      BY <1>2, <1>4, <1>6, <2>4 DEF n
    <3>3. bill(k, n) = IF context > plan.threshold THEN n * l ELSE n * r
      BY <2>4, <3>1 DEF r, l
    <3>4. n - 0 = n /\ n - n = 0 /\ 0 * r = 0 /\ 0 * l = 0 /\ n * l \in Int /\ n * r \in Int
      BY <2>1
    <3> QED  BY <2>2, <3>2, <3>3, <3>4 DEF n
  <2> QED  BY <2>3, <2>4
<1> HIDE DEF bill
<1>8. "input" \in Kinds /\ "output" \in Kinds /\ "cached" \in Kinds
  BY DEF Kinds
<1>9. /\ bill("input", fresh) = CostBy(plan, s, b, "input")
      /\ bill("output", u.output) = CostBy(plan, s, b, "output")
      /\ bill("cached", cached) = CostBy(plan, s, b, "cached")
  BY <1>4, <1>5, <1>7, <1>8
<1> QED  BY <1>1, <1>9 DEF b, s, plan

LEMMA BilledSums ==
    ASSUME NEW plan, NEW S, NEW k \in Kinds
    PROVE  /\ BilledSum(plan, S)[k] = Billings!Sum(<<plan, k>>, S)
           /\ BaseSum(plan, S)[k] = Shares!Sum(<<plan, k>>, S)
<1>1. BilledSum(plan, S)[k] = MapThenSumSet(LAMBDA u : Billed(plan, u)[k], S)
  BY DEF BilledSum
<1>2. MapThenSumSet(LAMBDA u : Billed(plan, u)[k], S) = Billings!Sum(<<plan, k>>, S)
  BY DEF MapThenSumSet, MapThenFoldSet, BilledTerm, Billings!Sum, Billings!MapThenSumSet, Billings!MapThenFoldSet
<1>3. BaseSum(plan, S)[k] = MapThenSumSet(LAMBDA u : BaseShare(plan, Billed(plan, u))[k], S)
  BY DEF BaseSum
<1>4. MapThenSumSet(LAMBDA u : BaseShare(plan, Billed(plan, u))[k], S) = Shares!Sum(<<plan, k>>, S)
  BY DEF MapThenSumSet, MapThenFoldSet, ShareTerm, Shares!Sum, Shares!MapThenSumSet, Shares!MapThenFoldSet
<1> QED  BY <1>1, <1>2, <1>3, <1>4

LEMMA Sums ==
    ASSUME NEW plan, NEW S
    PROVE  /\ Price(plan, S) = ByKind!Sum(<<plan, S>>, Kinds)
           /\ CostOf(S) = ByCell!Sum(0, S)
           /\ MapThenSumSet(RequestCost, S) = Requests!Sum(0, S)
<1>1. Price(plan, S) = ByKind!Sum(<<plan, S>>, Kinds)
  BY DEF Price, MapThenSumSet, MapThenFoldSet, KindTerm, ByKind!Sum, ByKind!MapThenSumSet, ByKind!MapThenFoldSet
<1>2. CostOf(S) = ByCell!Sum(0, S)
  BY DEF CostOf, MapThenSumSet, MapThenFoldSet, CellTerm, ByCell!Sum, ByCell!MapThenSumSet, ByCell!MapThenFoldSet
<1>3. MapThenSumSet(RequestCost, S) = Requests!Sum(0, S)
  BY DEF MapThenSumSet, MapThenFoldSet, RequestTerm, Requests!Sum, Requests!MapThenSumSet, Requests!MapThenFoldSet
<1> QED  BY <1>1, <1>2, <1>3

\* What a request costs is a number.
LEMMA RequestCostIsInt ==
    ASSUME prices \in PriceMaps, NEW u \in Usages, Priced(u)
    PROVE  RequestCost(u) \in Int
<1> DEFINE plan == PlanOf(u)
           b == Billed(plan, u)
           s == BaseShare(plan, b)
<1>1. plan.openai \in BOOLEAN /\ plan.threshold \in Int /\ (\A k \in Kinds : plan.base[k] \in Int) /\ plan.above \in [Kinds -> Int]
  BY PlanIs DEF PlanOf, Priced
<1>2. RequestCost(u) = CostBy(plan, s, b, "input") + CostBy(plan, s, b, "output") + CostBy(plan, s, b, "cached")
  BY RequestIsBilled
<1> HIDE DEF plan
<1>3. b \in [Kinds -> Int] /\ s \in [Kinds -> Int]
  BY <1>1, BilledIs
<1> HIDE DEF b, s
<1>4. ASSUME NEW k \in Kinds PROVE CostBy(plan, s, b, k) \in Int
  <2>1. s[k] \in Int /\ b[k] \in Int /\ plan.base[k] \in Int /\ plan.above[k] \in Int
    BY <1>1, <1>3
  <2> QED  BY <2>1 DEF CostBy
<1>5. "input" \in Kinds /\ "output" \in Kinds /\ "cached" \in Kinds
  BY DEF Kinds
<1>6. CostBy(plan, s, b, "input") \in Int /\ CostBy(plan, s, b, "output") \in Int /\ CostBy(plan, s, b, "cached") \in Int
  BY <1>4, <1>5
<1> QED  BY <1>2, <1>6

\* The sums over no requests, and over one more.
LEMMA SumsGrow ==
    ASSUME NEW plan, plan.openai \in BOOLEAN, plan.threshold \in Int,
           NEW S, S \subseteq Usages, IsFiniteSet(S), NEW k \in Kinds
    PROVE  /\ BilledSum(plan, {})[k] = 0 /\ BaseSum(plan, {})[k] = 0
           /\ BilledSum(plan, S)[k] \in Int /\ BaseSum(plan, S)[k] \in Int
           /\ \A u \in S :
                /\ BilledSum(plan, S)[k] = Billed(plan, u)[k] + BilledSum(plan, S \ {u})[k]
                /\ BaseSum(plan, S)[k] = BaseShare(plan, Billed(plan, u))[k] + BaseSum(plan, S \ {u})[k]
<1> DEFINE c == <<plan, k>>
<1>1. ASSUME NEW u \in S PROVE /\ Billings!Term(c, u) = Billed(plan, u)[k] /\ Billed(plan, u)[k] \in Int
                               /\ Shares!Term(c, u) = BaseShare(plan, Billed(plan, u))[k]
                               /\ BaseShare(plan, Billed(plan, u))[k] \in Int
  <2>1. u \in Usages
    OBVIOUS
  <2>2. Billed(plan, u) \in [Kinds -> Int] /\ BaseShare(plan, Billed(plan, u)) \in [Kinds -> Int]
    BY <2>1, BilledIs
  <2>3. Billings!Term(c, u) = Billed(plan, u)[k] /\ Shares!Term(c, u) = BaseShare(plan, Billed(plan, u))[k]
    BY DEF Billings!Term, Shares!Term, BilledTerm, ShareTerm
  <2> QED  BY <2>2, <2>3
<1>2. \A u \in S : Billings!Term(c, u) \in Int /\ Shares!Term(c, u) \in Int
  BY <1>1
<1>3. /\ Billings!Sum(c, {}) = 0 /\ Billings!Sum(c, S) \in Int
      /\ \A u \in S : Billings!Sum(c, S) = Billings!Term(c, u) + Billings!Sum(c, S \ {u})
  <2> HIDE DEF c
  <2> QED  BY <1>2, SameFinite, Billings!SumStep
<1>4. /\ Shares!Sum(c, {}) = 0 /\ Shares!Sum(c, S) \in Int
      /\ \A u \in S : Shares!Sum(c, S) = Shares!Term(c, u) + Shares!Sum(c, S \ {u})
  <2> HIDE DEF c
  <2> QED  BY <1>2, SameFinite, Shares!SumStep
<1>5. \A T : BilledSum(plan, T)[k] = Billings!Sum(c, T) /\ BaseSum(plan, T)[k] = Shares!Sum(c, T)
  BY BilledSums
<1> HIDE DEF c
<1> QED  BY <1>1, <1>3, <1>4, <1>5

LEMMA SumsGain ==
    ASSUME NEW plan, plan.openai \in BOOLEAN, plan.threshold \in Int,
           NEW T, T \subseteq Usages, IsFiniteSet(T), NEW u \in Usages \ T, NEW k \in Kinds
    PROVE  /\ BilledSum(plan, T \cup {u})[k] = Billed(plan, u)[k] + BilledSum(plan, T)[k]
           /\ BaseSum(plan, T \cup {u})[k] = BaseShare(plan, Billed(plan, u))[k] + BaseSum(plan, T)[k]
<1> DEFINE S == T \cup {u}
<1>1. IsFiniteSet(S)
  BY FS_AddElement
<1>2. S \subseteq Usages /\ u \in S /\ S \ {u} = T
  OBVIOUS
<1> HIDE DEF S
<1>3. /\ BilledSum(plan, S)[k] = Billed(plan, u)[k] + BilledSum(plan, S \ {u})[k]
      /\ BaseSum(plan, S)[k] = BaseShare(plan, Billed(plan, u))[k] + BaseSum(plan, S \ {u})[k]
  BY <1>1, <1>2, SumsGrow
<1> QED  BY <1>2, <1>3 DEF S

LEMMA PriceIsThreeTerms ==
    ASSUME NEW plan, NEW S, \A k \in Kinds : KindTerm(<<plan, S>>, 0, k) \in Int
    PROVE  Price(plan, S) = KindTerm(<<plan, S>>, 0, "input") + KindTerm(<<plan, S>>, 0, "output")
                            + KindTerm(<<plan, S>>, 0, "cached")
<1> DEFINE c == <<plan, S>>
           term(k) == KindTerm(c, 0, k)
<1>1. Price(plan, S) = ByKind!Sum(c, Kinds)
  BY Sums
<1>2. \A k : ByKind!Term(c, k) = term(k)
  BY DEF ByKind!Term
<1> HIDE DEF c, term
<1>3. \A k \in Kinds : term(k) \in Int
  BY DEF c, term
<1>4. ASSUME NEW T \in SUBSET Kinds
      PROVE  ByKind!Sum(c, {}) = 0 /\ \A k \in T : ByKind!Sum(c, T) = term(k) + ByKind!Sum(c, T \ {k})
  <2>1. IsFiniteSet(T)
    <3>1. IsFiniteSet({}) /\ IsFiniteSet({} \cup {"input"}) /\ IsFiniteSet(({} \cup {"input"}) \cup {"output"})
          /\ IsFiniteSet((({} \cup {"input"}) \cup {"output"}) \cup {"cached"})
      BY FS_EmptySet, FS_AddElement
    <3>2. Kinds = (({} \cup {"input"}) \cup {"output"}) \cup {"cached"}
      BY DEF Kinds
    <3> QED  BY <3>1, <3>2, FS_Subset
  <2>2. \A k \in T : ByKind!Term(c, k) \in Int
    BY <1>2, <1>3
  <2>3. ByKind!Sum(c, {}) = 0 /\ \A k \in T : ByKind!Sum(c, T) = ByKind!Term(c, k) + ByKind!Sum(c, T \ {k})
    BY <2>1, <2>2, SameFinite, ByKind!SumStep
  <2> QED  BY <1>2, <2>3
<1>5. /\ Kinds \in SUBSET Kinds /\ "input" \in Kinds
      /\ Kinds \ {"input"} = {"output", "cached"}
      /\ {"output", "cached"} \in SUBSET Kinds /\ {"output", "cached"} \ {"output"} = {"cached"}
      /\ {"cached"} \in SUBSET Kinds /\ {"cached"} \ {"cached"} = {}
      /\ "output" \in Kinds /\ "cached" \in Kinds
  BY DEF Kinds
<1>6. /\ ByKind!Sum(c, Kinds) = term("input") + ByKind!Sum(c, {"output", "cached"})
      /\ ByKind!Sum(c, {"output", "cached"}) = term("output") + ByKind!Sum(c, {"cached"})
      /\ ByKind!Sum(c, {"cached"}) = term("cached") + ByKind!Sum(c, {})
      /\ ByKind!Sum(c, {}) = 0
  BY <1>4, <1>5
<1>7. term("input") \in Int /\ term("output") \in Int /\ term("cached") \in Int
  BY <1>3, <1>5
<1>8. Price(plan, S) = term("input") + term("output") + term("cached")
  BY <1>1, <1>6, <1>7
<1> QED  BY <1>8 DEF term, c

\* A slice of one model costs what its requests cost.
LEMMA SliceCost ==
    ASSUME prices \in PriceMaps, NEW m \in DOMAIN prices,
           NEW S, S \subseteq Usages, IsFiniteSet(S), \A u \in S : u.model = m
    PROVE  Price(CostPlan(prices[m]), S) = Requests!Sum(0, S)
<1> DEFINE plan == CostPlan(prices[m])
           term(T, k) == KindTerm(<<plan, T>>, 0, k)
           P == {T \in SUBSET S : Price(plan, T) = Requests!Sum(0, T)}
<1>1. plan.openai \in BOOLEAN /\ plan.threshold \in Int /\ (\A k \in Kinds : plan.base[k] \in Int) /\ plan.above \in [Kinds -> Int]
  BY PlanIs
<1>2. \A T, k : term(T, k) = BaseSum(plan, T)[k] * plan.base[k]
                             + (BilledSum(plan, T)[k] - BaseSum(plan, T)[k]) * plan.above[k]
  BY DEF KindTerm
<1>3. \A u \in S : Priced(u) /\ PlanOf(u) = plan /\ u \in Usages
  BY DEF Priced, PlanOf
<1> HIDE DEF plan
<1>4. ASSUME NEW T \in SUBSET S, NEW k \in Kinds
      PROVE  BaseSum(plan, T)[k] \in Int /\ BilledSum(plan, T)[k] \in Int /\ term(T, k) \in Int
  <2>1. T \subseteq Usages /\ IsFiniteSet(T)
    BY FS_Subset
  <2>2. BilledSum(plan, T)[k] \in Int /\ BaseSum(plan, T)[k] \in Int
    BY <1>1, <2>1, SumsGrow
  <2>3. plan.base[k] \in Int /\ plan.above[k] \in Int
    BY <1>1
  <2> QED  BY <1>2, <2>2, <2>3
<1>5. ASSUME NEW T \in SUBSET S
      PROVE  Price(plan, T) = term(T, "input") + term(T, "output") + term(T, "cached")
  <2>1. \A k \in Kinds : term(T, k) \in Int
    BY <1>4
  <2> QED  BY <2>1, PriceIsThreeTerms
<1> HIDE DEF term
<1>6. "input" \in Kinds /\ "output" \in Kinds /\ "cached" \in Kinds
  BY DEF Kinds
<1>7. {} \in P
  <2>1. ASSUME NEW k \in Kinds PROVE term({}, k) = 0
    <3>1. BilledSum(plan, {})[k] = 0 /\ BaseSum(plan, {})[k] = 0
      BY <1>1, SumsGrow
    <3>2. plan.base[k] \in Int /\ plan.above[k] \in Int
      BY <1>1
    <3> QED  BY <1>2, <3>1, <3>2
  <2>2. Price(plan, {}) = 0
    <3>1. Price(plan, {}) = term({}, "input") + term({}, "output") + term({}, "cached")
      BY <1>5
    <3> QED  BY <1>6, <2>1, <3>1
  <2>3. Requests!Sum(0, {}) = 0
    <3>1. IsFiniteSet({}) /\ \A x \in {} : Requests!Term(0, x) \in Int
      BY FS_EmptySet
    <3> QED  BY <3>1, SameFinite, Requests!SumStep
  <2> QED  BY <2>2, <2>3
<1>8. ASSUME NEW T \in SUBSET S, NEW u \in S \ T, T \in P PROVE T \cup {u} \in P
  <2> DEFINE U == T \cup {u}
             b == Billed(plan, u)
             s == BaseShare(plan, b)
             cost(k) == CostBy(plan, s, b, k)
  <2>1. U \in SUBSET S /\ u \in U /\ U \ {u} = T
    OBVIOUS
  <2>2. U \subseteq Usages /\ IsFiniteSet(U) /\ u \in Usages
    BY <2>1, FS_Subset
  <2>3. b \in [Kinds -> Int] /\ s \in [Kinds -> Int]
    BY <1>1, <2>2, BilledIs
  <2> HIDE DEF b, s
  <2>4. ASSUME NEW k \in Kinds PROVE term(U, k) = cost(k) + term(T, k) /\ cost(k) \in Int
    <3> DEFINE sx == s[k]  bx == b[k]  st == BaseSum(plan, T)[k]  bt == BilledSum(plan, T)[k]
               r == plan.base[k]  l == plan.above[k]
    <3>1. BilledSum(plan, U)[k] = bx + bt /\ BaseSum(plan, U)[k] = sx + st
      <4>1. T \subseteq Usages /\ IsFiniteSet(T) /\ u \in Usages \ T
        BY <2>2, FS_Subset
      <4>2. /\ BilledSum(plan, T \cup {u})[k] = Billed(plan, u)[k] + BilledSum(plan, T)[k]
            /\ BaseSum(plan, T \cup {u})[k] = BaseShare(plan, Billed(plan, u))[k] + BaseSum(plan, T)[k]
        <5>1. plan.openai \in BOOLEAN /\ plan.threshold \in Int
          BY <1>1
        <5> QED  BY <4>1, <5>1, SumsGain
      <4> QED  BY <4>2 DEF b, s
    <3>2. sx \in Int /\ bx \in Int /\ st \in Int /\ bt \in Int /\ r \in Int /\ l \in Int
      BY <1>1, <1>4, <2>3
    <3>3. /\ cost(k) = sx * r + (bx - sx) * l
          /\ term(T, k) = st * r + (bt - st) * l
      BY <1>2 DEF CostBy
    <3>4. term(U, k) = (sx + st) * r + ((bx + bt) - (sx + st)) * l
      BY <1>2, <3>1
    <3> HIDE DEF sx, bx, st, bt, r, l, cost
    <3>5. (sx + st) * r + ((bx + bt) - (sx + st)) * l = (sx * r + (bx - sx) * l) + (st * r + (bt - st) * l)
      BY <3>2
    <3>6. sx * r + (bx - sx) * l \in Int
      BY <3>2
    <3> QED  BY <3>3, <3>4, <3>5, <3>6
  <2>5. RequestCost(u) = cost("input") + cost("output") + cost("cached")
    <3>1. Priced(u) /\ PlanOf(u) = plan
      BY <1>3
    <3> QED  BY <2>2, <3>1, RequestIsBilled DEF b, s
  <2>6. Requests!Sum(0, U) = RequestCost(u) + Requests!Sum(0, T)
    <3>1. ASSUME NEW x \in U PROVE Requests!Term(0, x) = RequestCost(x) /\ RequestCost(x) \in Int
      BY RequestCostIsInt, <1>3, <2>1 DEF Requests!Term, RequestTerm
    <3>2. \A x \in U : Requests!Term(0, x) \in Int
      BY <3>1
    <3>3. Requests!Sum(0, U) = Requests!Term(0, u) + Requests!Sum(0, U \ {u})
      BY <2>1, <2>2, <3>2, SameFinite, Requests!SumStep
    <3> QED  BY <2>1, <3>1, <3>3
  <2> HIDE DEF cost
  <2>7. Price(plan, U) = term(U, "input") + term(U, "output") + term(U, "cached")
        /\ Price(plan, T) = term(T, "input") + term(T, "output") + term(T, "cached")
        /\ Price(plan, T) = Requests!Sum(0, T)
    BY <1>5, <1>8, <2>1
  <2>8. /\ term(U, "input") = cost("input") + term(T, "input")
        /\ term(U, "output") = cost("output") + term(T, "output")
        /\ term(U, "cached") = cost("cached") + term(T, "cached")
        /\ cost("input") \in Int /\ cost("output") \in Int /\ cost("cached") \in Int
        /\ term(T, "input") \in Int /\ term(T, "output") \in Int /\ term(T, "cached") \in Int
    BY <1>4, <1>6, <2>4
  <2>9. Price(plan, U) = RequestCost(u) + Price(plan, T)
    BY <2>5, <2>7, <2>8
  <2> QED  BY <2>1, <2>6, <2>7, <2>9
<1> HIDE DEF P
<1>9. S \in P
  BY <1>7, <1>8, SameFinite, Requests!SetInduction
<1> QED  BY <1>9 DEF P, plan

\* The requests of an answer, the cell each counts in, and those of some cells
\* that have a price.
AskedFor == {u \in recorded : Asked(u)}
KeyOf(u) == [slice |-> u.at \div SliceTicks, person |-> u.person, model |-> u.model]
Cell(k) == LET S == {u \in AskedFor : KeyOf(u) = k}
               priced == k.model \in DOMAIN prices
           IN  [key |-> k, priced |-> priced,
                cost |-> IF priced THEN Price(CostPlan(prices[k.model]), S) ELSE 0]
PricedIn(S) == {u \in S : u.model \in DOMAIN prices}
RequestsOf(C) == {u \in AskedFor : \E c \in C : c.key = KeyOf(u)}

LEMMA CellsAre ==
    /\ Cells = {Cell(KeyOf(u)) : u \in AskedFor}
    /\ \A u \in AskedFor : Cell(KeyOf(u)) \in Cells /\ Cell(KeyOf(u)).key = KeyOf(u)
    /\ \A c \in Cells : /\ \E u \in AskedFor : c.key = KeyOf(u)
                        /\ c = Cell(c.key)
                        /\ c.priced = (c.key.model \in DOMAIN prices)
                        /\ c.cost = IF c.priced
                                    THEN Price(CostPlan(prices[c.key.model]),
                                               {u \in AskedFor : KeyOf(u) = c.key})
                                    ELSE 0
<1>1. Cells = {Cell(KeyOf(u)) : u \in AskedFor}
  <2>1. Cells = {Cell(k) : k \in {KeyOf(u) : u \in AskedFor}}
    BY DEF Cells, Cell, KeyOf, AskedFor
  <2> QED  BY <2>1
<1>2. \A k : /\ Cell(k).key = k /\ Cell(k).priced = (k.model \in DOMAIN prices)
             /\ Cell(k).cost = IF Cell(k).priced
                               THEN Price(CostPlan(prices[k.model]), {u \in AskedFor : KeyOf(u) = k})
                               ELSE 0
  BY DEF Cell
<1>3. ASSUME NEW c \in Cells
      PROVE  /\ \E u \in AskedFor : c.key = KeyOf(u)
             /\ c = Cell(c.key)
  <2>1. PICK u \in AskedFor : c = Cell(KeyOf(u))
    BY <1>1
  <2>2. c.key = KeyOf(u)
    BY <1>2, <2>1
  <2> QED  BY <2>1, <2>2
<1>4. ASSUME NEW c \in Cells
      PROVE  /\ c.priced = (c.key.model \in DOMAIN prices)
             /\ c.cost = IF c.priced
                         THEN Price(CostPlan(prices[c.key.model]), {u \in AskedFor : KeyOf(u) = c.key})
                         ELSE 0
  <2>1. c = Cell(c.key)
    BY <1>3
  <2> DEFINE k == c.key
  <2>2. c = Cell(k)
    BY <2>1
  <2> HIDE DEF k
  <2>3. c.priced = (k.model \in DOMAIN prices)
        /\ c.cost = IF c.priced
                    THEN Price(CostPlan(prices[k.model]), {u \in AskedFor : KeyOf(u) = k})
                    ELSE 0
    BY <1>2, <2>2
  <2> QED  BY <2>3 DEF k
<1> QED  BY <1>1, <1>2, <1>3, <1>4

LEMMA CellsAreFinite ==
    ASSUME IsFiniteSet(recorded)
    PROVE  IsFiniteSet(AskedFor) /\ IsFiniteSet(Cells)
<1>1. IsFiniteSet(AskedFor)
  BY FS_Subset DEF AskedFor
<1> DEFINE f == [u \in AskedFor |-> Cell(KeyOf(u))]
<1>2. f \in Surjection(AskedFor, Cells)
  <2>1. f \in [AskedFor -> Cells]
    BY CellsAre
  <2>2. \A c \in Cells : \E u \in AskedFor : f[u] = c
    BY CellsAre
  <2> QED  BY <2>1, <2>2 DEF Surjection
<1> HIDE DEF f
<1> QED  BY <1>1, <1>2, FS_Surjection

\* Some cells cost what their requests cost.
LEMMA CellsCost ==
    ASSUME prices \in PriceMaps, recorded \subseteq Usages, IsFiniteSet(recorded),
           NEW C, C \subseteq Cells
    PROVE  CostOf(C) = MapThenSumSet(RequestCost, PricedIn(RequestsOf(C)))
<1> DEFINE of(D) == PricedIn(RequestsOf(D))
           P == {D \in SUBSET Cells : ByCell!Sum(0, D) = Requests!Sum(0, of(D))}
<1>1. IsFiniteSet(AskedFor) /\ IsFiniteSet(Cells)
  BY CellsAreFinite
<1>2. \A D : of(D) \subseteq AskedFor /\ IsFiniteSet(of(D)) /\ of(D) \subseteq Usages
  BY <1>1, FS_Subset DEF PricedIn, RequestsOf, AskedFor
<1>3. ASSUME NEW D, NEW u \in of(D) PROVE Requests!Term(0, u) \in Int
  <2>1. u \in Usages /\ Priced(u)
    BY <1>2 DEF PricedIn, Priced
  <2> QED  BY <2>1, RequestCostIsInt DEF Requests!Term, RequestTerm
<1>4. \A D : Requests!Sum(0, of(D)) \in Int
  <2> SUFFICES ASSUME NEW D PROVE Requests!Sum(0, of(D)) \in Int
    OBVIOUS
  <2>1. IsFiniteSet(of(D)) /\ \A u \in of(D) : Requests!Term(0, u) \in Int
    BY <1>2, <1>3
  <2> HIDE DEF of
  <2> QED  BY <2>1, SameFinite, Requests!SumStep
<1>5. ASSUME NEW c \in Cells PROVE c.cost = Requests!Sum(0, of({c}))
  <2> DEFINE S == {u \in AskedFor : KeyOf(u) = c.key}
             m == c.key.model
  <2>1. /\ c.priced = (m \in DOMAIN prices)
        /\ c.cost = IF c.priced THEN Price(CostPlan(prices[m]), S) ELSE 0
    BY CellsAre
  <2>2. S \subseteq Usages /\ IsFiniteSet(S) /\ \A u \in S : u.model = m
    <3>1. S \subseteq AskedFor /\ AskedFor \subseteq Usages
      BY DEF AskedFor
    <3>2. \A u : KeyOf(u).model = u.model
      BY DEF KeyOf
    <3>3. \A u \in S : KeyOf(u) = c.key
      OBVIOUS
    <3>4. \A u \in S : u.model = m
      BY <3>2, <3>3
    <3> QED  BY <1>1, <3>1, <3>4, FS_Subset
  <2>3. of({c}) = IF c.priced THEN S ELSE {}
    BY <2>1, <2>2 DEF PricedIn, RequestsOf
  <2> HIDE DEF S, m
  <2>4. CASE c.priced
    BY <2>1, <2>2, <2>3, <2>4, SliceCost
  <2>5. CASE ~c.priced
    <3>1. IsFiniteSet({}) /\ \A x \in {} : Requests!Term(0, x) \in Int
      BY FS_EmptySet
    <3>2. Requests!Sum(0, {}) = 0
      BY <3>1, SameFinite, Requests!SumStep
    <3> QED  BY <2>1, <2>3, <2>5, <3>2
  <2> QED  BY <2>4, <2>5
<1>6. \A c \in Cells : ByCell!Term(0, c) = c.cost /\ c.cost \in Int
  BY <1>4, <1>5 DEF ByCell!Term, CellTerm
<1>7. {} \in P
  <2>1. IsFiniteSet({}) /\ (\A x \in {} : Requests!Term(0, x) \in Int)
        /\ \A x \in {} : ByCell!Term(0, x) \in Int
    BY FS_EmptySet
  <2>2. Requests!Sum(0, {}) = 0 /\ ByCell!Sum(0, {}) = 0
    BY <2>1, SameFinite, Requests!SumStep, ByCell!SumStep
  <2>3. of({}) = {}
    BY DEF PricedIn, RequestsOf
  <2> QED  BY <2>2, <2>3
<1>8. ASSUME NEW D \in SUBSET Cells, NEW c \in Cells \ D, D \in P PROVE D \cup {c} \in P
  <2> DEFINE E == D \cup {c}
  <2>1. E \in SUBSET Cells /\ c \in E /\ E \ {c} = D
    OBVIOUS
  <2>2. ByCell!Sum(0, E) = c.cost + ByCell!Sum(0, D)
    <3>1. IsFiniteSet(E) /\ \A d \in E : ByCell!Term(0, d) \in Int
      BY <1>1, <1>6, <2>1, FS_Subset
    <3> HIDE DEF E
    <3>2. ByCell!Sum(0, E) = ByCell!Term(0, c) + ByCell!Sum(0, E \ {c})
      BY <2>1, <3>1, SameFinite, ByCell!SumStep
    <3> QED  BY <1>6, <2>1, <3>2
  <2>3. of(E) = of({c}) \cup of(D)
    BY DEF PricedIn, RequestsOf
  <2>4. of({c}) \cap of(D) = {}
    <3>1. \A d \in D : d.key # c.key
      BY CellsAre
    <3> QED  BY <3>1 DEF PricedIn, RequestsOf
  <2>5. Requests!Sum(0, of({c}) \cup of(D)) = Requests!Sum(0, of({c})) + Requests!Sum(0, of(D))
    <3> DEFINE S == of({c})
               T == of(D)
    <3>1. IsFiniteSet(S) /\ IsFiniteSet(T) /\ \A u \in S \cup T : Requests!Term(0, u) \in Int
      BY <1>2, <1>3
    <3>2. S \cap T = {}
      BY <2>4
    <3> HIDE DEF S, T
    <3>3. Requests!Sum(0, S \cup T) = Requests!Sum(0, S) + Requests!Sum(0, T)
      BY <3>1, <3>2, SameFinite, Requests!SumOfUnion
    <3> QED  BY <3>3 DEF S, T
  <2>6. ByCell!Sum(0, D) = Requests!Sum(0, of(D))
    BY <1>8
  <2> HIDE DEF of
  <2>7. ByCell!Sum(0, E) = Requests!Sum(0, of(E))
    BY <1>5, <2>2, <2>3, <2>5, <2>6
  <2> QED  BY <2>1, <2>7
<1>9. ByCell!Sum(0, C) = Requests!Sum(0, of(C))
  <2> HIDE DEF P
  <2>1. C \in P
    BY <1>1, <1>7, <1>8, SameFinite, Requests!SetInduction
  <2> QED  BY <2>1 DEF P
<1> QED  BY <1>9, Sums

\* Some cells and some requests are each other's.
SameRequests(C, S) == C \subseteq Cells /\ S \subseteq AskedFor /\ S = RequestsOf(C)

\* Their cost is the same, or missing for both.
LEMMA SameCost ==
    ASSUME prices \in PriceMaps, recorded \subseteq Usages, IsFiniteSet(recorded),
           NEW C, NEW S, SameRequests(C, S)
    PROVE  /\ CostOf(C) = MapThenSumSet(RequestCost, PricedIn(S))
           /\ CostValue(C) = IF prices = <<>> \/ (S # {} /\ \A u \in S : u.model \notin DOMAIN prices)
                             THEN NoRate ELSE MapThenSumSet(RequestCost, PricedIn(S))
<1>1. C \subseteq Cells /\ S = RequestsOf(C)
  BY DEF SameRequests
<1>2. CostOf(C) = MapThenSumSet(RequestCost, PricedIn(S))
  BY <1>1, CellsCost
<1>3. /\ \A c \in C : \E u \in S : u.model = c.key.model
      /\ \A u \in S : \E c \in C : u.model = c.key.model
  <2>1. \A u : KeyOf(u).model = u.model
    BY DEF KeyOf
  <2>2. \A c \in C : \E u \in S : c.key = KeyOf(u)
    BY <1>1, CellsAre DEF RequestsOf
  <2>3. \A u \in S : \E c \in C : c.key = KeyOf(u)
    BY <1>1 DEF RequestsOf
  <2> QED  BY <2>1, <2>2, <2>3
<1>4. \A c \in C : c.priced = (c.key.model \in DOMAIN prices)
  BY <1>1, CellsAre
<1>5. (C # {} /\ \A c \in C : ~c.priced) <=> (S # {} /\ \A u \in S : u.model \notin DOMAIN prices)
  BY <1>3, <1>4
<1> QED  BY <1>2, <1>5 DEF CostValue

\* So is it in each bucket of a regular axis.
LEMMA SameSeries ==
    ASSUME prices \in PriceMaps, recorded \subseteq Usages, IsFiniteSet(recorded),
           question \in Questions, Regular(question, EffectiveBucket(question)),
           NEW C, NEW S, SameRequests(C, S)
    PROVE  CostSeries(Axis, C) =
             [i \in DOMAIN Axis |->
                MapThenSumSet(RequestCost,
                    PricedIn({u \in S : BucketOf(question.zone, u.at, EffectiveBucket(question)) = Axis[i]}))]
<1> DEFINE unit == EffectiveBucket(question)
           axis == BucketStarts(question, unit)
<1>1. unit \in Units
  BY UnitsAreUnits
<1>2. axis = Axis
  BY DEF Axis
<1>3. axis \in Seq(Int) /\ DOMAIN axis = 1..Len(axis) /\ \A i, j \in 1..Len(axis) : i < j => axis[i] < axis[j]
  <2>1. axis \in Seq(Int) /\ \A i, j \in 1..Len(axis) : i < j => axis[i] < axis[j]
    BY <1>1, AxisIs, AxisGoesUp
  <2> HIDE DEF axis
  <2> QED  BY <2>1
<1>4. ASSUME NEW u \in AskedFor
      PROVE  LET p == Position(axis, u.at \div SliceTicks)
             IN  p \in 1..Len(axis) /\ axis[p] = BucketOf(question.zone, u.at, unit)
  <2>1. u.at \in question.start..(question.end - 1)
    <3>1. u.at \in Int /\ question.start \in Int /\ question.end \in Int
      BY UsagesAssumption, QuestionsAssumption DEF AskedFor
    <3> QED  BY <3>1 DEF AskedFor, Asked
  <2> QED  BY <1>1, <2>1, SliceFallsInto
<1> HIDE DEF axis, unit
<1>5. ASSUME NEW i \in DOMAIN axis, NEW u \in AskedFor
      PROVE  Position(axis, KeyOf(u).slice) = i <=> BucketOf(question.zone, u.at, unit) = axis[i]
  <2> DEFINE p == Position(axis, u.at \div SliceTicks)
  <2>1. p \in 1..Len(axis) /\ axis[p] = BucketOf(question.zone, u.at, unit)
    BY <1>4
  <2>2. KeyOf(u).slice = u.at \div SliceTicks
    BY DEF KeyOf
  <2> HIDE DEF p
  <2>3. axis[p] = axis[i] => p = i
    <3>1. axis[p] \in Int /\ axis[i] \in Int /\ p \in Int /\ i \in Int /\ i \in 1..Len(axis)
      BY <1>3, <2>1
    <3>2. (p < i => axis[p] < axis[i]) /\ (i < p => axis[i] < axis[p])
      BY <1>3, <2>1, <3>1
    <3> QED  BY <3>1, <3>2
  <2>4. p = i <=> BucketOf(question.zone, u.at, unit) = axis[i]
    BY <2>1, <2>3
  <2> QED  BY <2>2, <2>4 DEF p
<1>6. ASSUME NEW i \in DOMAIN axis
      PROVE  CostOf({c \in C : Position(axis, c.key.slice) = i}) =
               MapThenSumSet(RequestCost, PricedIn({u \in S : BucketOf(question.zone, u.at, unit) = axis[i]}))
  <2> DEFINE D == {c \in C : Position(axis, c.key.slice) = i}
             T == {u \in S : BucketOf(question.zone, u.at, unit) = axis[i]}
  <2>1. SameRequests(D, T)
    <3>1. S = RequestsOf(C) /\ C \subseteq Cells /\ S \subseteq AskedFor
      BY DEF SameRequests
    <3>2. ASSUME NEW u \in AskedFor PROVE u \in T <=> \E c \in D : c.key = KeyOf(u)
      <4>1. u \in S <=> \E c \in C : c.key = KeyOf(u)
        BY <3>1 DEF RequestsOf
      <4> QED  BY <1>5, <4>1
    <3>3. T = RequestsOf(D)
      BY <3>1, <3>2 DEF RequestsOf
    <3> QED  BY <3>1, <3>3 DEF SameRequests
  <2> HIDE DEF D, T
  <2>2. CostOf(D) = MapThenSumSet(RequestCost, PricedIn(T))
    BY <2>1, SameCost
  <2> QED  BY <2>2 DEF D, T
<1> QED  BY <1>2, <1>6 DEF CostSeries, unit

\* Some cells agree with some requests, in all and by bucket.
Agree(C, S) ==
    LET cost(T) == MapThenSumSet(RequestCost, {u \in T : u.model \in DOMAIN prices})
    IN  /\ CostValue(C) = IF prices = <<>> \/ (S # {} /\ \A u \in S : u.model \notin DOMAIN prices)
                          THEN NoRate ELSE cost(S)
        /\ Regular(question, EffectiveBucket(question)) =>
             CostSeries(Axis, C) = [i \in DOMAIN Axis |->
                cost({u \in S : BucketOf(question.zone, u.at, EffectiveBucket(question)) = Axis[i]})]

LEMMA CostsOfAnswer ==
    ASSUME SumsTypeOK, IsFiniteSet(recorded)
    PROVE  CostsArePerRequest
<1>1. prices \in PriceMaps /\ recorded \subseteq Usages /\ question \in Questions
  BY DEF SumsTypeOK
<1>2. ASSUME NEW C, NEW S, SameRequests(C, S) PROVE Agree(C, S)
  BY <1>1, <1>2, SameCost, SameSeries DEF Agree, PricedIn
<1>3. SameRequests(Cells, AskedFor)
  BY CellsAre DEF SameRequests, RequestsOf
<1>4. ASSUME NEW dim \in {"person", "model"}, NEW e
      PROVE  SameRequests({c \in Cells : c.key[dim] = e}, {u \in AskedFor : u[dim] = e})
  <2>1. \A u : KeyOf(u)[dim] = u[dim]
    BY DEF KeyOf
  <2> QED  BY <2>1, CellsAre DEF SameRequests, RequestsOf
<1>5. /\ Agree(Cells, AskedFor)
      /\ \A dim \in {"person", "model"} : \A e :
           Agree({c \in Cells : c.key[dim] = e}, {u \in AskedFor : u[dim] = e})
  BY <1>2, <1>3, <1>4
<1>6. Agree(Cells, AskedFor)
      /\ \A dim \in {"person", "model"} : \A e \in {u[dim] : u \in AskedFor} :
           Agree({c \in Cells : c.key[dim] = e}, {u \in AskedFor : u[dim] = e})
  BY <1>5
<1> QED  BY <1>6, Zenon DEF CostsArePerRequest, Agree, AskedFor

-----------------------------------------------------------------------------

\* Only finitely many requests are ever recorded.
LEMMA SumsInvariance == SumsSpec => [](SumsTypeOK /\ IsFiniteSet(recorded))
<1>1. SumsInit => SumsTypeOK /\ IsFiniteSet(recorded)
  BY FS_EmptySet DEF SumsInit, SumsTypeOK
<1>2. SumsTypeOK /\ IsFiniteSet(recorded) /\ [SumsNext]_sumsVars
      => (SumsTypeOK /\ IsFiniteSet(recorded))'
  <2> SUFFICES ASSUME SumsTypeOK, IsFiniteSet(recorded), [SumsNext]_sumsVars
               PROVE  SumsTypeOK' /\ IsFiniteSet(recorded')
    OBVIOUS
  <2>1. CASE Record
    <3>1. PICK u \in Usages : recorded' = recorded \cup {u}
      BY <2>1 DEF Record
    <3>2. IsFiniteSet(recorded')
      BY <3>1, FS_AddElement
    <3> QED  BY <2>1, <3>1, <3>2 DEF Record, SumsTypeOK
  <2>2. CASE Reprice \/ Ask \/ UNCHANGED sumsVars
    BY <2>2 DEF Reprice, Ask, sumsVars, SumsTypeOK
  <2> QED  BY <2>1, <2>2 DEF SumsNext
<1> QED  BY <1>1, <1>2, PTL DEF SumsSpec

(* What is recorded, published and asked for stays what it may be.         *)
THEOREM SumsTypeCorrect == SumsSpec => []SumsTypeOK
  BY SumsInvariance, PTL

(* However often the clock changes, every slice of a window falls into the *)
(* bucket of its local hour, day or week, no bucket is empty of the        *)
(* window, and a unit is coarsened only when it takes too many (db.py):    *)
(* wherever the changes that the window meets leave hours or days whole.   *)
THEOREM AxisIsLocalHolds == SumsSpec => []AxisIsLocal
<1>1. SumsTypeOK => AxisIsLocal
  BY AxisOfQuestion DEF SumsTypeOK
<1> QED  BY <1>1, SumsTypeCorrect, PTL

(* Whatever is recorded and published, the costs computed from the sums of *)
(* the slices are those of the requests one by one (aggregate.py,          *)
(* pricing.py): in all and in every bucket of the axis, for everything, a  *)
(* person and a model, and missing where no request has a price.           *)
THEOREM CostsArePerRequestHolds == SumsSpec => []CostsArePerRequest
<1>1. SumsTypeOK /\ IsFiniteSet(recorded) => CostsArePerRequest
  BY CostsOfAnswer
<1> QED  BY <1>1, SumsInvariance, PTL

-----------------------------------------------------------------------------
(***************************************************************************)
(* The pricing cache (PricingCache).                                       *)
(***************************************************************************)

USE TtlAssumption, LatencyAssumption, MaxClockAssumption
-----------------------------------------------------------------------------
\* A download or a write failed since the map of time t was downloaded.
FailedSince(t) == \E u \in failure : u >= t

\* There is one file, and its map was downloaded during the call that wrote it.
FileInv ==
    \A f \in file :
        /\ f.map <= f.mtime /\ f.mtime <= clock /\ f.mtime <= f.map + Latency
        /\ \A g \in file : f = g

\* A call is in time, a sleeper does not oversleep.
TimeInv ==
    \A s \in Servers :
        /\ server[s].at \in Fetching => /\ server[s].began <= clock
                                        /\ clock <= server[s].began + Latency
        /\ server[s].at = "asleep" => clock <= server[s].wake

\* What a call is about to write it has downloaded itself; what it is about to
\* load was fresh when it looked, or replaced what was by something newer still,
\* or is all there is after a failed download.
CallInv ==
    \A s \in Servers :
        /\ server[s].at \in {"writing", "replacing"} => /\ server[s].began <= server[s].map
                                                        /\ server[s].map <= clock
        /\ server[s].at = "replacing" => /\ server[s].map <= server[s].mtime
                                         /\ server[s].mtime <= clock
        /\ server[s].at = "loading" =>
             \A f \in file : server[s].began < f.map + Ttl + Latency \/ FailedSince(f.map)

\* The age of the prices when the server's next call begins, or its last began.
PriceInv ==
    \A s \in Servers : \A t \in server[s].pricing :
        /\ t <= clock
        /\ \/ FailedSince(t)
           \/ /\ server[s].at = "asleep"
              /\ server[s].wake < t + 2 * Ttl + 2 * Latency
           \/ /\ server[s].at \in Fetching
              /\ server[s].began < t + 2 * Ttl + 2 * Latency

PricingInv ==
    /\ TypeOK
    /\ FileInv
    /\ TimeInv
    /\ CallInv
    /\ PriceInv
-----------------------------------------------------------------------------
\* The record of a server that is not running, and of one that starts.
LEMMA DownTyped ==
  ASSUME TypeOK
  PROVE  /\ Down \in Server /\ Down.at = "down" /\ ~ Down.up /\ Down.pricing = {}
         /\ [Down EXCEPT !.at = "checking", !.began = clock] \in Server
         /\ [Down EXCEPT !.at = "checking", !.began = clock].at = "checking"
         /\ [Down EXCEPT !.at = "checking", !.began = clock].began = clock
         /\ [Down EXCEPT !.at = "checking", !.began = clock].pricing = {}
<1>1. Down \in Server /\ Down.at = "down" /\ ~ Down.up /\ Down.pricing = {}
  BY DEF Down, Server, Fetching
<1>2. clock \in Nat
  BY DEF TypeOK
<1> QED
  BY <1>1, <1>2 DEF Server, Fetching

\* What Delivered makes of each server's record, field by field.
LEMMA DeliveredEffect ==
  ASSUME TypeOK, NEW s \in Servers, NEW map \in SUBSET Nat, server' = Delivered(s, map)
  PROVE  /\ server' \in [Servers -> Server]
         /\ \A q \in Servers : q # s => server'[q] = server[q]
         /\ server'[s].at = "asleep"
         /\ server'[s].up
         /\ server'[s].pricing = map
         /\ server'[s].wake = clock + Ttl
<1> DEFINE r == [Down EXCEPT !.at = "asleep", !.up = TRUE, !.pricing = map, !.wake = clock + Ttl]
<1>1. clock + Ttl \in Nat
  BY DEF TypeOK
<1>2. /\ r \in Server
      /\ r.at = "asleep" /\ r.up /\ r.pricing = map /\ r.wake = clock + Ttl
  BY <1>1, DownTyped DEF Server
<1>3. server' = [server EXCEPT ![s] = r]
  BY DEF Delivered
<1> HIDE DEF r
<1> QED
  BY <1>2, <1>3 DEF TypeOK

LEMMA TypeStep == TypeOK /\ [Next]_vars => TypeOK'
<1> SUFFICES ASSUME TypeOK, [Next]_vars
             PROVE  TypeOK'
  OBVIOUS
<1>1. CASE UNCHANGED vars
  BY <1>1 DEF vars, TypeOK
<1>2. CASE Tick
  BY <1>2 DEF Tick, TypeOK
<1>3. ASSUME NEW s \in Servers, Start(s) \/ Stop(s)
      PROVE  TypeOK'
  BY <1>3, DownTyped DEF Start, Stop, TypeOK
<1>4. ASSUME NEW s \in Servers, Wake(s)
      PROVE  TypeOK'
  <2>1. clock \in Nat /\ server[s] \in Server
    BY DEF TypeOK
  <2>2. [server[s] EXCEPT !.at = "checking", !.began = clock] \in Server
    BY <2>1 DEF Server, Fetching
  <2>3. server' = [server EXCEPT ![s] = [server[s] EXCEPT !.at = "checking", !.began = clock]]
    BY <1>4 DEF Wake, TypeOK
  <2> QED
    BY <1>4, <2>2, <2>3 DEF Wake, TypeOK
<1>5. ASSUME NEW s \in Servers, Check(s)
      PROVE  TypeOK'
  BY <1>5 DEF Check, TypeOK, Server, Fetching
<1>6. ASSUME NEW s \in Servers, Downloaded(s) \/ WriteTemporary(s)
      PROVE  TypeOK'
  BY <1>6 DEF Downloaded, WriteTemporary, TypeOK, Server, Fetching
<1>7. ASSUME NEW s \in Servers, Load(s)
      PROVE  TypeOK'
  <2>1. {f.map : f \in file} \in SUBSET Nat
    BY DEF TypeOK
  <2> QED
    BY <1>7, <2>1, DeliveredEffect DEF Load, TypeOK
<1>8. ASSUME NEW s \in Servers, DownloadFails(s)
      PROVE  TypeOK'
  <2>1. {clock} \subseteq 0 .. MaxClock
    BY DEF TypeOK
  <2>2. CASE file = {}
    BY <1>8, <2>1, <2>2, DeliveredEffect DEF DownloadFails, TypeOK
  <2>3. CASE file # {}
    <3>1. [server EXCEPT ![s].at = "loading"] \in [Servers -> Server]
      BY DEF TypeOK, Server, Fetching
    <3> QED
      BY <1>8, <2>1, <2>3, <3>1 DEF DownloadFails, TypeOK
  <2> QED
    BY <2>2, <2>3
<1>9. ASSUME NEW s \in Servers, Replace(s) \/ WriteFails(s)
      PROVE  TypeOK'
  <2>1. {server[s].map} \in SUBSET Nat /\ server[s].mtime \in Nat /\ clock \in 0 .. MaxClock
    BY DEF TypeOK, Server
  <2>2. server' \in [Servers -> Server]
    BY <1>9, <2>1, DeliveredEffect DEF Replace, WriteFails
  <2>3. CASE Replace(s)
    <3>1. \A f \in file' : f.map \in Nat /\ f.mtime \in Nat
      BY <2>1, <2>3 DEF Replace
    <3> QED
      BY <2>2, <2>3, <3>1 DEF Replace, TypeOK
  <2>4. CASE WriteFails(s)
    BY <2>1, <2>2, <2>4 DEF WriteFails, TypeOK
  <2> QED
    BY <1>9, <2>3, <2>4
<1> QED
  BY <1>1, <1>2, <1>3, <1>4, <1>5, <1>6, <1>7, <1>8, <1>9 DEF Next, Fetch

\* Every reachable state is well-typed.
THEOREM PricingTypeCorrect == Spec => []TypeOK
<1>1. Init => TypeOK
  BY DEF Init, TypeOK, Server, Fetching, Down
<1> QED
  BY <1>1, TypeStep, PTL DEF Spec
-----------------------------------------------------------------------------
\* A failure is forgotten only for a later one.
LEMMA FailureKept ==
  ASSUME failure' = failure \/ failure' = {clock},
         NEW t \in Nat, t <= clock, FailedSince(t)
  PROVE  FailedSince(t)'
BY DEF FailedSince

\* What has been downloaded, at the latest now.
LEMMA TimesTyped ==
  ASSUME TypeOK, NEW s \in Servers
  PROVE  /\ clock \in Nat
         /\ server[s].began \in Nat /\ server[s].wake \in Nat
         /\ server[s].map \in Nat /\ server[s].mtime \in Nat
         /\ server[s].pricing \subseteq Nat
BY DEF TypeOK, Server

\* The end of a call: what is delivered is younger than a TTL and two calls, or
\* of before a failure, and the file is what it was or about as young.
LEMMA DeliveredKeeps ==
  ASSUME PricingInv, NEW s \in Servers, NEW map \in SUBSET Nat,
         server[s].at \in Fetching, server' = Delivered(s, map), clock' = clock,
         failure' = failure \/ failure' = {clock}, TypeOK', FileInv',
         \A f \in file' : f \in file \/ clock <= f.map + Latency,
         \A t \in map : t <= clock /\ (FailedSince(t)' \/ clock < t + Ttl + 2 * Latency)
  PROVE  PricingInv'
<1>1. /\ \A q \in Servers : q # s => server'[q] = server[q]
      /\ server'[s].at = "asleep" /\ server'[s].pricing = map /\ server'[s].wake = clock + Ttl
  BY DeliveredEffect DEF PricingInv
<1>3. TimeInv'
  BY <1>1, TimesTyped DEF PricingInv, TimeInv, Fetching
<1>4. CallInv'
  <2>1. \A f \in file' : f.map \in Nat
    BY DEF TypeOK
  <2>2. \A f \in file' : f \in file => f.map <= clock
    BY DEF PricingInv, FileInv, TypeOK
  <2> QED
    BY <1>1, <2>1, <2>2, TimesTyped, FailureKept DEF PricingInv, TimeInv, CallInv, Fetching
<1>5. PriceInv'
  <2>1. ASSUME NEW q \in Servers, q # s, NEW t \in server[q].pricing
        PROVE  /\ t \in Nat /\ t <= clock
               /\ \/ FailedSince(t)'
                  \/ /\ server[q].at = "asleep"
                     /\ server[q].wake < t + 2 * Ttl + 2 * Latency
                  \/ /\ server[q].at \in Fetching
                     /\ server[q].began < t + 2 * Ttl + 2 * Latency
    BY TimesTyped, FailureKept DEF PricingInv, PriceInv
  <2>2. ASSUME NEW t \in map
        PROVE  t <= clock /\ (FailedSince(t)' \/ clock + Ttl < t + 2 * Ttl + 2 * Latency)
    BY TimesTyped DEF PricingInv
  <2> QED
    BY <1>1, <2>1, <2>2 DEF PriceInv
<1> QED
  BY <1>3, <1>4, <1>5 DEF PricingInv

LEMMA PricingStep == PricingInv /\ [Next]_vars => PricingInv'
<1> SUFFICES ASSUME PricingInv, [Next]_vars
             PROVE  PricingInv'
  OBVIOUS
<1>1. TypeOK /\ TypeOK'
  BY TypeStep DEF PricingInv
<1>2. CASE UNCHANGED vars
  BY <1>2 DEF vars, PricingInv, TypeOK, FileInv, TimeInv, CallInv, PriceInv, FailedSince
<1>3. CASE Tick
  <2>1. FileInv' /\ CallInv' /\ PriceInv'
    BY <1>1, <1>3, TimesTyped DEF Tick, TypeOK, PricingInv, FileInv, CallInv, PriceInv, FailedSince
  <2>2. TimeInv'
    BY <1>1, <1>3, TimesTyped DEF Tick, Due, PricingInv, TimeInv
  <2> QED
    BY <1>1, <2>1, <2>2 DEF PricingInv
<1>4. ASSUME NEW s \in Servers, Start(s) \/ Stop(s)
      PROVE  PricingInv'
  <2>1. /\ server'[s].at \in {"checking", "down"} /\ server'[s].pricing = {}
        /\ server'[s].at = "checking" => server'[s].began = clock
        /\ \A q \in Servers : q # s => server'[q] = server[q]
    <3> DEFINE r == [Down EXCEPT !.at = "checking", !.began = clock]
    <3>1. server' = [server EXCEPT ![s] = r] \/ server' = [server EXCEPT ![s] = Down]
      BY <1>4 DEF Start, Stop
    <3>2. r.at = "checking" /\ r.began = clock /\ r.pricing = {}
      BY <1>1, DownTyped
    <3> HIDE DEF r
    <3> QED
      BY <1>1, <3>1, <3>2, DownTyped DEF TypeOK
  <2>2. UNCHANGED <<clock, file, failure>>
    BY <1>4 DEF Start, Stop
  <2> QED
    BY <1>1, <2>1, <2>2, TimesTyped
       DEF PricingInv, FileInv, TimeInv, CallInv, PriceInv, FailedSince, Fetching
<1>5. ASSUME NEW s \in Servers, Wake(s)
      PROVE  PricingInv'
  <2>1. /\ server'[s].at = "checking" /\ server'[s].began = clock
        /\ server'[s].pricing = server[s].pricing
        /\ \A q \in Servers : q # s => server'[q] = server[q]
    BY <1>1, <1>5 DEF Wake, TypeOK, Server
  <2>2. server[s].at = "asleep" /\ clock = server[s].wake
    BY <1>1, <1>5, TimesTyped DEF Wake, PricingInv, TimeInv
  <2>3. UNCHANGED <<clock, file, failure>>
    BY <1>5 DEF Wake
  <2> QED
    BY <1>1, <2>1, <2>2, <2>3, TimesTyped
       DEF PricingInv, FileInv, TimeInv, CallInv, PriceInv, FailedSince, Fetching
<1>6. ASSUME NEW s \in Servers, Check(s)
      PROVE  PricingInv'
  <2>1. /\ server'[s].at \in {"loading", "downloading"}
        /\ server'[s].at = "loading" => FreshFile(s)
        /\ server'[s].began = server[s].began /\ server'[s].pricing = server[s].pricing
        /\ \A q \in Servers : q # s => server'[q] = server[q]
    BY <1>1, <1>6 DEF Check, TypeOK, Server
  <2>2. server[s].at = "checking" /\ UNCHANGED <<clock, file, failure>>
    BY <1>6 DEF Check
  <2>3. FreshFile(s) => \A f \in file : server[s].began < f.map + Ttl + Latency
    BY <1>1, TimesTyped DEF TypeOK, PricingInv, FileInv, FreshFile
  <2>4. CallInv'
    BY <1>1, <2>1, <2>2, <2>3 DEF PricingInv, CallInv, FailedSince
  <2> QED
    BY <1>1, <2>1, <2>2, <2>4
       DEF PricingInv, FileInv, TimeInv, PriceInv, FailedSince, Fetching
<1>7. ASSUME NEW s \in Servers, Downloaded(s) \/ WriteTemporary(s)
      PROVE  PricingInv'
  <2>1. /\ server[s].at \in {"downloading", "writing"}
        /\ server'[s].began = server[s].began /\ server'[s].pricing = server[s].pricing
        /\ server[s].at = "downloading" =>
             server'[s].at = "writing" /\ server'[s].map = clock
        /\ server[s].at = "writing" =>
             /\ server'[s].at = "replacing"
             /\ server'[s].map = server[s].map /\ server'[s].mtime = clock
        /\ \A q \in Servers : q # s => server'[q] = server[q]
    BY <1>1, <1>7 DEF Downloaded, WriteTemporary, TypeOK, Server
  <2>2. UNCHANGED <<clock, file, failure>>
    BY <1>7 DEF Downloaded, WriteTemporary
  <2> QED
    BY <1>1, <2>1, <2>2, TimesTyped
       DEF PricingInv, FileInv, TimeInv, CallInv, PriceInv, FailedSince, Fetching
<1>8. ASSUME NEW s \in Servers, Load(s)
      PROVE  PricingInv'
  <2> DEFINE map == {f.map : f \in file}
  <2>1. map \in SUBSET Nat
    BY <1>1 DEF TypeOK
  <2>2. \A t \in map : t <= clock /\ (FailedSince(t)' \/ clock < t + Ttl + 2 * Latency)
    <3>1. server[s].at = "loading" /\ UNCHANGED <<clock, file, failure>>
      BY <1>8 DEF Load
    <3>2. ASSUME NEW f \in file
          PROVE  f.map <= clock /\ (FailedSince(f.map) \/ clock < f.map + Ttl + 2 * Latency)
      <4>1. f.map \in Nat /\ f.mtime \in Nat /\ f.map <= f.mtime /\ f.mtime <= clock
        BY <1>1 DEF TypeOK, PricingInv, FileInv
      <4>2. clock <= server[s].began + Latency
        BY <3>1 DEF PricingInv, TimeInv, Fetching
      <4>3. server[s].began < f.map + Ttl + Latency \/ FailedSince(f.map)
        BY <3>1 DEF PricingInv, CallInv
      <4> QED
        BY <1>1, <4>1, <4>2, <4>3, TimesTyped
    <3> QED
      BY <3>1, <3>2 DEF FailedSince
  <2>3. /\ server[s].at \in Fetching /\ server' = Delivered(s, map)
        /\ UNCHANGED <<clock, file, failure>>
    BY <1>8 DEF Load, Fetching
  <2>4. FileInv'
    BY <2>3 DEF PricingInv, FileInv
  <2> HIDE DEF map
  <2> QED
    BY <1>1, <2>1, <2>2, <2>3, <2>4, DeliveredKeeps
<1>9. ASSUME NEW s \in Servers, DownloadFails(s)
      PROVE  PricingInv'
  <2>1. /\ server[s].at = "downloading" /\ failure' = {clock} /\ UNCHANGED <<clock, file>>
    BY <1>9 DEF DownloadFails
  <2>2. FileInv'
    BY <2>1 DEF PricingInv, FileInv
  <2>3. CASE file = {}
    BY <1>1, <1>9, <2>1, <2>2, <2>3, DeliveredKeeps DEF DownloadFails, Fetching
  <2>4. CASE file # {}
    <3>1. /\ server'[s].at = "loading"
          /\ server'[s].began = server[s].began /\ server'[s].pricing = server[s].pricing
          /\ \A q \in Servers : q # s => server'[q] = server[q]
      BY <1>1, <1>9, <2>4 DEF DownloadFails, TypeOK, Server
    <3>2. \A f \in file : f.map \in Nat /\ f.map <= clock
      BY <1>1 DEF TypeOK, PricingInv, FileInv
    <3>3. \A f \in file : FailedSince(f.map)'
      BY <2>1, <3>2 DEF FailedSince
    <3>4. TimeInv' /\ CallInv'
      BY <1>1, <2>1, <3>1, <3>3, TimesTyped DEF PricingInv, TimeInv, CallInv, Fetching
    <3>5. PriceInv'
      BY <1>1, <2>1, <3>1, FailureKept, TimesTyped DEF PricingInv, PriceInv, Fetching
    <3> QED
      BY <1>1, <2>2, <3>4, <3>5 DEF PricingInv
  <2> QED
    BY <2>3, <2>4
<1>10. ASSUME NEW s \in Servers, Replace(s) \/ WriteFails(s)
      PROVE  PricingInv'
  <2> DEFINE t == server[s].map
  <2>1. /\ server[s].at \in {"writing", "replacing"} /\ server' = Delivered(s, {t})
        /\ clock' = clock /\ (failure' = failure \/ failure' = {clock})
    BY <1>10 DEF Replace, WriteFails
  <2>2. /\ t \in Nat /\ server[s].began <= t /\ t <= clock
        /\ clock <= server[s].began + Latency /\ server[s].began \in Nat
        /\ clock \in Nat
    BY <1>1, <2>1, TimesTyped DEF PricingInv, TimeInv, CallInv, Fetching
  <2>3. FileInv' /\ \A f \in file' : f \in file \/ clock <= f.map + Latency
    <3>1. CASE WriteFails(s)
      BY <3>1 DEF WriteFails, PricingInv, FileInv
    <3>2. CASE Replace(s)
      <4>1. /\ t <= server[s].mtime /\ server[s].mtime <= clock /\ server[s].mtime \in Nat
            /\ file' = {[map |-> t, mtime |-> server[s].mtime]} /\ clock' = clock
        BY <1>1, <3>2, TimesTyped DEF Replace, PricingInv, CallInv
      <4> QED
        BY <2>2, <4>1 DEF FileInv
    <3> QED
      BY <1>10, <3>1, <3>2
  <2>4. \A u \in {t} : u <= clock /\ (FailedSince(u)' \/ clock < u + Ttl + 2 * Latency)
    BY <2>2
  <2> HIDE DEF t
  <2> QED
    BY <1>1, <2>1, <2>2, <2>3, <2>4, DeliveredKeeps DEF Fetching
<1> QED
  BY <1>2, <1>3, <1>4, <1>5, <1>6, <1>7, <1>8, <1>9, <1>10 DEF Next, Fetch

LEMMA PricingInvariance == Spec => []PricingInv
<1>1. Init => PricingInv
  BY DEF Init, PricingInv, TypeOK, FileInv, TimeInv, CallInv, PriceInv, Server, Fetching, Down
<1> QED
  BY <1>1, PricingStep, PTL DEF Spec

\* The prices served are at most two TTLs and three calls old, unless a download
\* or a write failed since: however many servers refresh, race for the file, stop
\* and start.
THEOREM PricesAreRecentHolds == Spec => []PricesAreRecent
<1>1. PricingInv => PricesAreRecent
  <2> SUFFICES ASSUME PricingInv, NEW s \in Servers, NEW t \in server[s].pricing
               PROVE  clock - t < 2 * Ttl + 3 * Latency \/ FailedSince(t)
    BY DEF PricesAreRecent, FailedSince
  <2> QED
    BY TimesTyped DEF PricingInv, TimeInv, PriceInv
<1> QED
  BY <1>1, PricingInvariance, PTL

\* No server's write, failure or end ever leaves the cache file missing.
THEOREM FileIsKeptHolds == Spec => FileIsKept
<1>1. TypeOK /\ [Next]_vars => [file # {} => file' # {}]_vars
  BY DEF Next, Fetch, Start, Wake, Check, Load, Downloaded, DownloadFails, WriteTemporary,
         Replace, WriteFails, Stop, Tick, vars
<1> QED
  BY <1>1, PricingTypeCorrect, PTL DEF Spec, FileIsKept

\* While there is a cache file, no server that serves prices loses them.
THEOREM PricesAreKeptHolds == Spec => PricesAreKept
<1> DEFINE Kept == \A s \in Servers :
             server[s].pricing # {} /\ server'[s].up /\ server'[s].pricing = {} => file = {}
<1>1. TypeOK /\ [Next]_vars => [Kept]_vars
  <2> SUFFICES ASSUME TypeOK, Next
               PROVE  Kept
    OBVIOUS
  <2>1. CASE Tick
    BY <2>1 DEF Tick
  <2>2. ASSUME NEW s \in Servers, Start(s) \/ Stop(s)
        PROVE  Kept
    BY <2>2, DownTyped DEF Start, Stop, TypeOK, Server
  <2>3. ASSUME NEW s \in Servers,
               Wake(s) \/ Check(s) \/ Downloaded(s) \/ WriteTemporary(s)
        PROVE  Kept
    BY <2>3 DEF Wake, Check, Downloaded, WriteTemporary, TypeOK, Server
  <2>4. ASSUME NEW s \in Servers, NEW map \in SUBSET Nat,
               server' = Delivered(s, map), map # {} \/ file = {}
        PROVE  Kept
    BY <2>4, DeliveredEffect
  <2>5. ASSUME NEW s \in Servers, Load(s)
        PROVE  Kept
    <3>1. {f.map : f \in file} \in SUBSET Nat
      BY DEF TypeOK
    <3>2. {f.map : f \in file} # {} \/ file = {}
      OBVIOUS
    <3> QED
      BY <2>4, <2>5, <3>1, <3>2 DEF Load
  <2>6. ASSUME NEW s \in Servers, DownloadFails(s)
        PROVE  Kept
    <3>1. CASE file = {}
      BY <3>1
    <3>2. CASE file # {}
      BY <2>6, <3>2 DEF DownloadFails, TypeOK, Server
    <3> QED
      BY <3>1, <3>2
  <2>7. ASSUME NEW s \in Servers, Replace(s) \/ WriteFails(s)
        PROVE  Kept
    <3>1. {server[s].map} \in SUBSET Nat
      BY TimesTyped
    <3> QED
      BY <2>4, <2>7, <3>1 DEF Replace, WriteFails
  <2> QED
    BY <2>1, <2>2, <2>3, <2>5, <2>6, <2>7 DEF Next, Fetch
<1> QED
  BY <1>1, PricingTypeCorrect, PTL DEF Spec, PricesAreKept
=============================================================================
