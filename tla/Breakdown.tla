----------------------------- MODULE Breakdown -----------------------------
(***************************************************************************)
(* How a breakdown is shown on the usage page: the share bar, the table    *)
(* of rows, the people by models heatmap, and the layers of the drawer's   *)
(* chart (utils/usage/share.ts, richRows.ts, heatmap.ts, stack.ts and the  *)
(* components that draw them).  Each folds and orders the same rows its    *)
(* own way, while options, metric and sorting change.                      *)
(*                                                                         *)
(* A fraction is a pair, with 0 below it for an infinite value.  A row has *)
(* a rank in place of its name.  Latency and last use are numbers sorted   *)
(* like tokens, and left out.                                              *)
(***************************************************************************)
EXTENDS Integers, SequencesExt, FiniteSetsExt

CONSTANTS
    Responses,      \* the breakdowns that may arrive: a dimension and its rows
    OptionSets,     \* per options response: the color slot of each entity, or Absent
    Family,         \* the family of each model
    MaxColumns,     \* HEATMAP_MAX_COLUMNS
    Absent            \* no slot, no cost, no previous period

\* NOTABLE_SHARE, the tenth of a row, is larger than no row's largest cell
ASSUME BreakdownAssumption == MaxColumns \in 1..9 /\ Absent \notin Int

VARIABLES dim, rows, slots, metric, sort
breakdownVars == <<dim, rows, slots, metric, sort>>

Dims == {"person", "model", "credential"}
Metrics == {"cost", "tokens"}
SortKeys == {"name", "share", "cost", "tokens", "change", "fail", "cacheHit"}

BreakdownTypeOK ==
    /\ [dim |-> dim, rows |-> rows] \in Responses \cup [dim : Dims, rows : {<<>>}]
    /\ slots \in OptionSets
    /\ metric \in Metrics /\ sort \in [key : SortKeys, desc : BOOLEAN]

-----------------------------------------------------------------------------
(* Sequences.                                                              *)

Total(s) == FoldLeft(LAMBDA sum, x : sum + x, 0, s)

Mapped(s, Op(_)) == [i \in DOMAIN s |-> Op(s[i])]

\* f at the indexes of at, in the order of before
Arranged(f, at, before) ==
    LET place == [i \in at |-> Cardinality({j \in at : <<j, i>> \in before})]
    IN  [n \in 1..Cardinality(at) |-> f[CHOOSE i \in at : place[i] = n]]

\* the order of the indexes themselves
Upwards(at) == {p \in at \X at : p[1] <= p[2]}

\* what compares equal stays in its order
StableSort(s, Less(_, _)) ==
    LET at == DOMAIN s
    IN  Arranged(s, at, {p \in at \X at : Less(s[p[1]], s[p[2]])
                                          \/ (p[1] <= p[2] /\ ~Less(s[p[2]], s[p[1]]))})

Filtered(s, Test(_)) == LET at == {i \in DOMAIN s : Test(s[i])} IN Arranged(s, at, Upwards(at))

\* each element where it comes first
Distinct(s) ==
    LET at == {i \in DOMAIN s : \A j \in DOMAIN s : s[j] = s[i] => i <= j}
    IN  Arranged(s, at, Upwards(at))

Flattened(seqs) ==
    LET at == UNION {{i} \X DOMAIN seqs[i] : i \in DOMAIN seqs}
    IN  Arranged([p \in at |-> seqs[p[1]][p[2]]], at,
                 {q \in at \X at : q[1][1] < q[2][1] \/ (q[1][1] = q[2][1] /\ q[1][2] <= q[2][2])})

Below(a, b) == \/ a[1] * b[2] < b[1] * a[2]
               \/ a[2] = 0 /\ b[2] = 0 /\ a[1] < b[1]
NegInfinity == <<-1, 0>>
Infinity    == <<1, 0>>

-----------------------------------------------------------------------------
(* The table.                                                              *)

Tokens(v) == v.input + v.output

MetricValue(v, m) ==
    IF m = "tokens" THEN Tokens(v) ELSE IF v.cost = Absent THEN 0 ELSE v.cost

Counted(v) == v.cost \in Nat \cup {Absent} /\ v.input \in Nat /\ v.output \in Nat
CountedAll(s) == s \in Seq(ToSet(s)) /\ \A i \in DOMAIN s : Counted(s[i])

\* A response has a row per entity; all trends have a value per bucket; a mix adds up.
IsRow(r) ==
    /\ Counted(r) /\ (r.previous # Absent => Counted(r.previous))
    /\ {r.requests, r.failed, r.cached} \subseteq Nat /\ r.cachedInInput \in BOOLEAN
    /\ r.name \in Int /\ r.key # Absent
    /\ CountedAll(r.mix) /\ CountedAll(r.trend)
    /\ \A s \in OptionSets : s[r.key] \in Nat \cup {Absent}
    /\ \A m \in Metrics : MetricValue(r, m) = Total(Mapped(r.mix, LAMBDA e : MetricValue(e, m)))
ASSUME ResponsesAssumption ==
    \A data \in Responses :
        /\ data \in [dim : Dims, rows : Seq(ToSet(data.rows))]
        /\ \A i, j \in DOMAIN data.rows :
             /\ IsRow(data.rows[i])
             /\ data.rows[i].key = data.rows[j].key => i = j
             /\ DOMAIN data.rows[i].trend = DOMAIN data.rows[j].trend

RichRows(m) == Filtered(rows, LAMBDA r : r.requests > 0 \/ MetricValue(r, m) > 0)

ShareTotal(m) == Total(Mapped(RichRows(m), LAMBDA r : MetricValue(r, m)))

Change(current, previous) ==
    IF previous = Absent THEN NegInfinity
    ELSE IF previous > 0 THEN <<current - previous, previous>>
    ELSE IF current > 0 THEN Infinity ELSE <<0, 1>>

\* models only
CacheHit(r) == LET denom == r.input + IF r.cachedInInput THEN 0 ELSE r.cached
               IN  IF dim = "model" /\ denom > 0 THEN <<r.cached, denom>> ELSE NegInfinity

\* what is missing counts as zero
SortValueOrZero(r, key, m) ==
    CASE key = "share"    -> <<MetricValue(r, m), 1>>
      [] key = "cost"     -> <<MetricValue(r, "cost"), 1>>
      [] key = "tokens"   -> <<Tokens(r), 1>>
      [] key = "change"   -> <<0, 1>>
      [] key = "fail"     -> <<r.failed, 1>>
      [] key = "cacheHit" -> <<r.cached, 1>>
      [] key = "name"     -> <<r.name, 1>>

\* a share's total is the same for every row
SortValue(r, key, m) ==
    CASE key = "share"    -> <<MetricValue(r, m), 1>>
      [] key = "cost"     -> IF r.cost = Absent THEN NegInfinity ELSE <<r.cost, 1>>
      [] key = "tokens"   -> <<Tokens(r), 1>>
      [] key = "change"   -> Change(MetricValue(r, m),
                                    IF r.previous = Absent THEN Absent ELSE MetricValue(r.previous, m))
      [] key = "fail"     -> IF r.requests > 0 THEN <<r.failed, r.requests>> ELSE <<0, 1>>
      [] key = "cacheHit" -> CacheHit(r)
      [] key = "name"     -> <<r.name, 1>>

SortRichRows(m, by) ==
    StableSort(RichRows(m), LAMBDA a, b :
        IF by.desc THEN Below(SortValue(b, by.key, m), SortValue(a, by.key, m))
                   ELSE Below(SortValue(a, by.key, m), SortValue(b, by.key, m)))

\* the headers there are
Columns ==
    {"name", "share", "cost", "tokens", "fail"}
    \cup {c \in {"change"} : \E i \in DOMAIN rows : rows[i].previous # Absent}
    \cup {c \in {"cacheHit"} : dim = "model"}

DefaultSort == [key |-> "share", desc |-> TRUE]

NextSort(key) == [key |-> key, desc |-> IF sort.key = key THEN ~sort.desc ELSE key # "name"]

-----------------------------------------------------------------------------
(* The share bar, and the layers of the chart.                             *)

\* a row without a color slot has no segment
SegmentsOfSlots(m) ==
    [entities |-> StableSort(Filtered(rows, LAMBDA r : MetricValue(r, m) > 0 /\ slots[r.key] # Absent),
                             LAMBDA a, b : MetricValue(a, m) > MetricValue(b, m)),
     others |-> <<>>]

\* those with a color slot by descending value, the rest as Other
ShareSegments(m) ==
    LET positive == Filtered(rows, LAMBDA r : MetricValue(r, m) > 0)
    IN  [entities |-> StableSort(Filtered(positive, LAMBDA r : slots[r.key] # Absent),
                                 LAMBDA a, b : MetricValue(a, m) > MetricValue(b, m)),
         others |-> Filtered(positive, LAMBDA r : slots[r.key] = Absent)]

Live(m) == Filtered(rows, LAMBDA r : \E i \in DOMAIN r.trend : MetricValue(r.trend[i], m) > 0)

Trend(r, m) == Mapped(r.trend, LAMBDA v : MetricValue(v, m))

\* the Other layer is the last of the rows without a slot
LayersOfLast(m) ==
    LET slotted == StableSort(Filtered(Live(m), LAMBDA r : slots[r.key] # Absent),
                              LAMBDA a, b : slots[a.key] < slots[b.key])
        others == Filtered(Live(m), LAMBDA r : slots[r.key] = Absent)
    IN  Mapped(slotted, LAMBDA r : Trend(r, m))
        \o IF others = <<>> THEN <<>> ELSE <<Trend(others[Len(others)], m)>>

StackLayers(m) ==
    LET slotted == StableSort(Filtered(Live(m), LAMBDA r : slots[r.key] # Absent),
                              LAMBDA a, b : slots[a.key] < slots[b.key])
        others == Filtered(Live(m), LAMBDA r : slots[r.key] = Absent)
    IN  Mapped(slotted, LAMBDA r : Trend(r, m))
        \o IF others = <<>> THEN <<>>
           ELSE <<[i \in DOMAIN others[1].trend |->
                     Total(Mapped(others, LAMBDA r : Trend(r, m)[i]))]>>

\* what the chart's tooltip lists for a bucket, the largest first
Tooltip(m, i) ==
    StableSort(Filtered(Mapped(StackLayers(m), LAMBDA l : l[i]), LAMBDA v : v > 0),
               LAMBDA a, b : a > b)

\* a segment of 7 % is labelled, one that stands for an entity opens it
ShareBar(m) ==
    LET sg == ShareSegments(m)
        sum(s) == Total(Mapped(s, LAMBDA r : MetricValue(r, m)))
        all == sum(sg.entities) + sum(sg.others)
        segment(opens, s) == [opens |-> opens, value |-> sum(s), labelled |-> 100 * sum(s) >= 7 * all]
    IN  Mapped(sg.entities, LAMBDA r : segment(r.key, <<r>>))
        \o IF sg.others = <<>> THEN <<>> ELSE <<segment(Absent, sg.others)>>

-----------------------------------------------------------------------------
(* The heatmap.                                                            *)

PersonModelCells(m) ==
    Flattened(Mapped(rows, LAMBDA r :
        Mapped(r.mix, LAMBDA e : [row |-> r.key, col |-> e.key, value |-> MetricValue(e, m)])))

\* the keys of the cells' rows ("row") or columns ("col") with their totals, largest first
RankedPositive(cells, axis) ==
    LET sum(k) == Total(Mapped(Filtered(cells, LAMBDA c : c[axis] = k), LAMBDA c : c.value))
    IN  StableSort(Mapped(Distinct(Mapped(cells, LAMBDA c : c[axis])),
                          LAMBDA k : [keys |-> {k}, total |-> sum(k)]),
                   LAMBDA a, b : a.total > b.total)

\* the families of the kept columns, in the order of their largest
Grouped(kept) ==
    LET family(c) == Family[CHOOSE k \in c.keys : TRUE]
    IN  Flattened(Mapped(Distinct(Mapped(kept, family)), LAMBDA f :
            Filtered(kept, LAMBDA c : family(c) = f)))

\* the columns past the last are dropped
KeptColumns(ranked) == Grouped(SubSeq(ranked, 1, Min({MaxColumns, Len(ranked)})))

\* past MaxColumns they share one column
HeatColumns(ranked) ==
    LET n == Min({MaxColumns, Len(ranked)})
        rest == SubSeq(ranked, n + 1, Len(ranked))
    IN  Grouped(SubSeq(ranked, 1, n))
        \o IF rest = <<>> THEN <<>>
           ELSE <<[keys |-> UNION {c.keys : c \in ToSet(rest)},
                   total |-> Total(Mapped(rest, LAMBDA c : c.total))]>>

BuildHeatmap(m) ==
    LET cells == Filtered(PersonModelCells(m), LAMBDA c : c.value > 0)
        heads == RankedPositive(cells, "row")
        columns == HeatColumns(RankedPositive(cells, "col"))
    IN  [rows |-> heads, columns |-> columns,
         values |-> Mapped(heads, LAMBDA h : Mapped(columns, LAMBDA k :
             Total(Mapped(Filtered(cells, LAMBDA c : c.row \in h.keys /\ c.col \in k.keys),
                          LAMBDA c : c.value))))]

\* floor(6 sqrt(value / max)), at most 5; nothing for an empty cell
HeatBin(value, max) ==
    IF value <= 0 \/ max <= 0 THEN -1
    ELSE Max({b \in 0..5 : b * b * max <= 36 * value})

\* what is drawn: a cell's value with its bin and whether it is notable, and the
\* foot of each column
Heatmap(m) ==
    LET heat == BuildHeatmap(m)
        max == Max({0} \cup UNION {ToSet(v) : v \in ToSet(heat.values)})
    IN  [heads |-> heat.rows, feet |-> heat.columns, max |-> max,
         cells |-> [i \in DOMAIN heat.rows |-> Mapped(heat.values[i], LAMBDA v :
             [value |-> v, bin |-> HeatBin(v, max), notable |-> 10 * v >= heat.rows[i].total])]]

-----------------------------------------------------------------------------

BreakdownInit == /\ dim \in Dims /\ rows = <<>> /\ slots \in OptionSets
                 /\ metric \in Metrics /\ sort = DefaultSort

\* the people have a panel of their own, models and credentials take turns in another
Receives == \E data \in Responses :
    /\ data # [dim |-> dim, rows |-> rows] /\ (data.dim = "person") = (dim = "person")
    /\ dim' = data.dim /\ rows' = data.rows

\* what is at hand replaces what is shown
Arrives == Receives /\ UNCHANGED <<slots, metric, sort>>

\* a spinner, or no usage, in between
Reloads == rows # <<>> /\ Receives /\ sort' = DefaultSort /\ UNCHANGED <<slots, metric>>

OptionsArrive == slots' \in OptionSets \ {slots} /\ UNCHANGED <<dim, rows, metric, sort>>

PickMetric == metric' \in Metrics \ {metric} /\ UNCHANGED <<dim, rows, slots, sort>>

ClickHeader == /\ rows # <<>> /\ \E key \in Columns : sort' = NextSort(key)
               /\ UNCHANGED <<dim, rows, slots, metric>>

BreakdownNext == Arrives \/ Reloads \/ OptionsArrive \/ PickMetric \/ ClickHeader

BreakdownSpec == BreakdownInit /\ [][BreakdownNext]_breakdownVars

-----------------------------------------------------------------------------
(* Properties.                                                             *)

KeysOf(s) == Mapped(s, LAMBDA r : r.key)

(* The share bar, the table and the heatmap, each with a total of its own, *)
(* give an entity the same share, and order their entities alike.          *)
ViewsAgree ==
    LET shown == SortRichRows(metric, DefaultSort)
        positive == Filtered(shown, LAMBDA r : MetricValue(r, metric) > 0)
        bar == ShareBar(metric)
        heads == Heatmap(metric).heads
    IN  /\ Total(Mapped(bar, LAMBDA sg : sg.value)) = ShareTotal(metric)
        /\ Filtered(Mapped(bar, LAMBDA sg : sg.opens), LAMBDA k : k # Absent)
             = KeysOf(Filtered(positive, LAMBDA r : slots[r.key] # Absent))
        /\ dim = "person" =>
             Mapped(heads, LAMBDA h : <<h.keys, h.total>>)
               = Mapped(positive, LAMBDA r : <<{r.key}, MetricValue(r, metric)>>)

(* Folding columns and grouping families loses no cell of the heatmap and  *)
(* counts none twice: rows and feet add up; a cell is drawn when there is  *)
(* something in it, and the darkest are those of the largest value.        *)
HeatmapIsWhole ==
    dim = "person" => \A heat \in {Heatmap(metric)} :
        LET value(c) == c.value
        IN  /\ Len(heat.feet) <= MaxColumns + 1
            /\ \A i \in DOMAIN heat.heads :
                 /\ Total(Mapped(heat.cells[i], value)) = heat.heads[i].total
                 /\ \E j \in DOMAIN heat.feet : heat.cells[i][j].notable /\ heat.cells[i][j].bin >= 0
            /\ \A j \in DOMAIN heat.feet :
                 /\ Total(Mapped(heat.cells, LAMBDA c : c[j].value)) = heat.feet[j].total
                 /\ \A i \in DOMAIN heat.heads : LET c == heat.cells[i][j] IN
                      (c.value > 0) = (c.bin >= 0) /\ (c.value = heat.max => c.bin = 5)

(* In every bucket the layers of the chart, and what its tooltip lists,    *)
(* add up to the rows.                                                     *)
LayersAddUp ==
    rows # <<>> => \A i \in DOMAIN rows[1].trend :
        LET sum == Total(Mapped(rows, LAMBDA r : Trend(r, metric)[i]))
        IN  /\ Total(Mapped(StackLayers(metric), LAMBDA l : l[i])) = sum
            /\ Total(Tooltip(metric, i)) = sum

(* Whatever the table is sorted by, a column no longer shown included,     *)
(* rows without a value there are at the low end and those that are new at *)
(* the high end of the changes.                                            *)
MissingSortsLow ==
    LET shown == SortRichRows(metric, sort)
        missing(r) == CASE sort.key = "cost"     -> r.cost = Absent
                        [] sort.key = "change"   -> r.previous = Absent
                        [] sort.key = "cacheHit" -> CacheHit(r) = NegInfinity
                        [] OTHER                 -> FALSE
        new(r) == /\ sort.key = "change" /\ r.previous # Absent
                  /\ MetricValue(r.previous, metric) = 0 /\ MetricValue(r, metric) > 0
    IN  \A i, j \in DOMAIN shown : i < j =>
          LET low  == IF sort.desc THEN shown[j] ELSE shown[i]
              high == IF sort.desc THEN shown[i] ELSE shown[j]
          IN  (missing(high) => missing(low)) /\ (new(low) => new(high))
=============================================================================
