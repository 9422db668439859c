----------------------------- MODULE UsageSums -----------------------------
(***************************************************************************)
(* The numbers of a usage answer: what each recorded request costs, summed *)
(* by slice (aggregate.py, pricing.py), and the buckets of the viewer's    *)
(* time zone the slices fall into (db.py).                                 *)
(*                                                                         *)
(* Time runs in ticks.  A zone has an initial offset and changes, each the *)
(* offset from an instant on.  Which entry of the price map stands for a   *)
(* model is part of the map.  Tokens written to a cache are not recorded;  *)
(* their rates only tell which tiers are published.  Rates are tenths.     *)
(***************************************************************************)
EXTENDS Integers, SequencesExt, FiniteSetsExt

CONSTANTS
    Usages,         \* the requests that may be recorded
    PriceMaps,      \* what a refresh may bring, by model
    Questions,      \* the windows, zones and granularities asked for
    SliceTicks, Hour, Day,  \* their lengths in ticks
    Week,           \* in days
    AutoHourMax, AutoDayMax, MaxBuckets,
    Threshold200, Threshold272,
    NoRate          \* a rate that is not published; a cost that is not known

ASSUME LengthsAssumption ==
    /\ {SliceTicks, Hour, Day, Week, MaxBuckets} \subseteq Nat \ {0}
    /\ Hour % SliceTicks = 0 /\ Day % Hour = 0
    /\ AutoHourMax <= AutoDayMax
ASSUME QuestionsAssumption ==
    \A q \in Questions : /\ {q.start, q.end} \subseteq Int /\ q.start <= q.end
                         /\ q.unit \in {"auto", "hour", "day", "week"}
ASSUME UsagesAssumption ==
    /\ {Threshold200, Threshold272} \subseteq Int
    /\ \A u \in Usages : {u.at, u.input, u.output, u.cached} \subseteq Int

VARIABLES recorded, prices, question
sumsVars == <<recorded, prices, question>>

-----------------------------------------------------------------------------
(* What a request costs: pricing.py and the SQL of _fetch_cells.           *)

Kinds == {"input", "output", "cached"}

\* An entry of the price map has base rates for input and output.
Rates == Kinds \cup {"creation"}
Tiers == [Rates -> Int \cup {NoRate}]
ASSUME PricesAssumption ==
    \A ps \in PriceMaps : \A m \in DOMAIN ps :
        /\ ps[m].openai \in BOOLEAN
        /\ {ps[m].base, ps[m].above200, ps[m].above272} \subseteq Tiers
        /\ {ps[m].base.input, ps[m].base.output} \subseteq Int

Or(rate, default) == IF rate = NoRate THEN default ELSE rate
Published(tier) == \E k \in Rates : tier[k] # NoRate

CostPlan(p) ==
    LET base == [p.base EXCEPT !.cached =
                    Or(@, IF p.openai THEN p.base.input ELSE p.base.input \div 10)]
        switch == p.openai \/ (Published(p.above272) /\ ~Published(p.above200))
        long == switch /\ Published(p.above272)
        tier == IF long THEN p.above272 ELSE p.above200
        above == [k \in Kinds |-> Or(tier[k], base[k])]
    IN  [openai |-> p.openai, switch |-> switch, base |-> base,
         threshold |-> IF long THEN Threshold272 ELSE Threshold200,
         above |-> IF p.openai /\ p.base.cached = NoRate
                   THEN [above EXCEPT !.cached = above.input] ELSE above]

\* OpenAI reports cached input as part of the input
Billed(plan, u) ==
    LET cached == IF plan.openai THEN Min({u.cached, u.input}) ELSE u.cached
    IN  [input |-> u.input - IF plan.openai THEN cached ELSE 0,
         output |-> u.output, cached |-> cached]

BilledSum(plan, S) == [k \in Kinds |-> MapThenSumSet(LAMBDA u : Billed(plan, u)[k], S)]

\* the part of some amounts that bills at the base rates
BaseShare(plan, amounts) ==
    [k \in Kinds |-> IF ~plan.switch THEN Min({amounts[k], plan.threshold})
                     ELSE IF amounts.input + amounts.cached > plan.threshold THEN 0
                     ELSE amounts[k]]

\* Faulty: the sums are held against the threshold.
BaseOfSum(plan, S) == BaseShare(plan, BilledSum(plan, S))

BaseSum(plan, S) ==
    [k \in Kinds |-> MapThenSumSet(LAMBDA u : BaseShare(plan, Billed(plan, u))[k], S)]

Price(plan, S) ==
    MapThenSumSet(LAMBDA k : BaseSum(plan, S)[k] * plan.base[k]
                             + (BilledSum(plan, S)[k] - BaseSum(plan, S)[k]) * plan.above[k],
                  Kinds)

Asked(u) == question.start <= u.at /\ u.at < question.end

\* one cell per slice, person and model
Cells ==
    LET key(u) == [slice |-> u.at \div SliceTicks, person |-> u.person, model |-> u.model]
        asked == {u \in recorded : Asked(u)}
        cell(k) == LET S == {u \in asked : key(u) = k}
                       priced == k.model \in DOMAIN prices
                   IN  [key |-> k, priced |-> priced,
                        cost |-> IF priced THEN Price(CostPlan(prices[k.model]), S) ELSE 0]
    IN  {cell(k) : k \in {key(u) : u \in asked}}

CostOf(C) == MapThenSumSet(LAMBDA c : c.cost, C)

\* nothing priced among what there is, or no prices at all
CostValue(C) ==
    IF prices = <<>> \/ (C # {} /\ \A c \in C : ~c.priced) THEN NoRate ELSE CostOf(C)

-----------------------------------------------------------------------------
(* Buckets of local time: db.py, with zoneinfo's reading of a zone.        *)

\* the offset after some of a zone's changes
After(z, past) == IF past = {} THEN z.initial ELSE z.changes[Max(past)]

Until(z, t) == {c \in DOMAIN z.changes : c <= t}
Offset(z, t) == After(z, Until(z, t))

\* The local time from which on a change counts.  One that is skipped is read
\* with the offset before (fold 0), one that comes twice with either.
Wall(z, c, fold) ==
    LET offsets == {Offset(z, c - 1), z.changes[c]}
    IN  c + IF fold = 0 THEN Max(offsets) ELSE Min(offsets)

InstantOf(z, local, fold) ==
    local - After(z, {c \in DOMAIN z.changes : Wall(z, c, fold) <= local})

\* a local time that has come before has fold 1
Fold(z, t) ==
    LET past == Until(z, t)
    IN  IF past # {} /\ t + Offset(z, t) < Wall(z, Max(past), 0) THEN 1 ELSE 0

\* The changes of a zone are far enough apart for no local time to come three times.
ASSUME ZonesAssumption ==
    \A q \in Questions :
        LET z == q.zone
            changes == DOMAIN z.changes
        IN  /\ IsFiniteSet(changes) /\ changes \subseteq Int
            /\ {z.initial} \cup {z.changes[c] : c \in changes} \subseteq -Day .. Day
            /\ \A c, e \in changes : c < e => Wall(z, c, 0) <= Wall(z, e, 1)

Span(unit) == CASE unit = "hour" -> Hour [] unit = "day" -> Day [] unit = "week" -> Week * Day

LocalStart(z, t, unit) == LET local == t + Offset(z, t) IN local - (local % Span(unit))

BucketOf(z, t, unit) ==
    InstantOf(z, LocalStart(z, t, unit), IF unit = "hour" THEN Fold(z, t) ELSE 0)

\* Faulty: the hours of the clock, past the one that is repeated.
NthOnTheClock(q, unit, k) ==
    InstantOf(q.zone, LocalStart(q.zone, q.start, unit) + k * Span(unit), 0)

\* Hours are counted in absolute time, midnights on the calendar.
Nth(q, unit, k) ==
    IF unit = "hour" THEN BucketOf(q.zone, q.start, unit) + k * Hour
    ELSE InstantOf(q.zone, LocalStart(q.zone, q.start, unit) + k * Span(unit), 0)

\* from the first on, to the end of the window: no offset is more than a day
BucketStarts(q, unit) ==
    LET most == q.end - LocalStart(q.zone, q.start, unit) + Day
        n == CHOOSE n \in 0..most : /\ Nth(q, unit, n) >= q.end
                                    /\ \A k \in 0 .. n - 1 : Nth(q, unit, k) < q.end
    IN  [i \in 1..n |-> Nth(q, unit, i - 1)]

AutoBucket(q) ==
    CASE q.end - q.start <= AutoHourMax -> "hour"
      [] q.end - q.start > AutoDayMax   -> "week"
      [] OTHER                          -> "day"

Wished(q) == IF q.unit = "auto" THEN AutoBucket(q) ELSE q.unit

EffectiveBucket(q) ==
    LET fits(unit) == Len(BucketStarts(q, unit)) <= MaxBuckets
    IN  IF Wished(q) = "week" \/ fits(Wished(q)) THEN Wished(q)
        ELSE IF Wished(q) = "hour" /\ fits("day") THEN "day"
        ELSE "week"

Axis == BucketStarts(question, EffectiveBucket(question))

\* 0 for a slice before the first bucket
Position(axis, slice) == Cardinality({i \in DOMAIN axis : axis[i] <= slice * SliceTicks})

\* the cost series of some cells: a summary's, or an entity's trend
CostSeries(axis, C) ==
    [i \in DOMAIN axis |-> CostOf({c \in C : Position(axis, c.key.slice) = i})]

-----------------------------------------------------------------------------

SumsInit ==
    /\ recorded = {}
    /\ prices \in PriceMaps
    /\ question \in Questions

\* the collector's
Record ==
    /\ \E u \in Usages : /\ \A v \in recorded : v.id # u.id
                         /\ recorded' = recorded \cup {u}
    /\ UNCHANGED <<prices, question>>

\* the refresh loop's
Reprice == prices' \in PriceMaps \ {prices} /\ UNCHANGED <<recorded, question>>

Ask == question' \in Questions \ {question} /\ UNCHANGED <<recorded, prices>>

SumsNext == Record \/ Reprice \/ Ask

SumsSpec == SumsInit /\ [][SumsNext]_sumsVars

SumsTypeOK ==
    /\ recorded \subseteq Usages
    /\ prices \in PriceMaps
    /\ question \in Questions

-----------------------------------------------------------------------------
(* Properties.                                                             *)

\* The changes that the local hours, days or weeks of a window meet.
Met(q, unit) ==
    {c \in DOMAIN q.zone.changes :
        c <= q.end /\ LocalStart(q.zone, q.start, unit) < Wall(q.zone, c, 0)}

\* From full hour to full hour, or from and to a time of one day or week (at a
\* midnight it is of both); and buckets begin with a slice.
Regular(q, unit) ==
    /\ BucketOf(q.zone, q.start, unit) % SliceTicks = 0
    /\ \A c \in Met(q, unit) :
         LET low == Wall(q.zone, c, 1)
             high == Wall(q.zone, c, 0)
         IN  IF unit = "hour" THEN low % Hour = 0 /\ high % Hour = 0
             ELSE /\ q.zone.changes[c] % SliceTicks = 0 /\ high - low < Span(unit)
                  /\ \A x \in low + 1 .. high - 1 : x % Span(unit) # 0

(* What one request costs by README.md:125 and usage-scan-dedup.md:19-22:  *)
(* by its own size, whatever is summed with it.                            *)
RequestCost(u) ==
    LET p == prices[u.model]
        has200 == Published(p.above200)
        has272 == Published(p.above272)
        fresh == IF p.openai THEN Max({u.input - u.cached, 0}) ELSE u.input
        cached == IF p.openai THEN u.input - fresh ELSE u.cached
        context == IF p.openai THEN u.input ELSE u.input + u.cached
        base == [p.base EXCEPT !.cached =
                    Or(@, IF p.openai THEN p.base.input ELSE p.base.input \div 10)]
        above(k) == IF has272 /\ (p.openai \/ ~has200) THEN Or(p.above272[k], base[k])
                    ELSE Or(p.above200[k], base[k])
        long(k) == IF k = "cached" /\ p.openai /\ p.base.cached = NoRate
                   THEN above("input") ELSE above(k)
        whole == p.openai \/ (has272 /\ ~has200)
        bill(k, n) == IF ~whole THEN n * base[k] + Max({n - Threshold200, 0}) * (long(k) - base[k])
                      ELSE IF context > IF has272 THEN Threshold272 ELSE Threshold200
                           THEN n * long(k) ELSE n * base[k]
    IN  bill("input", fresh) + bill("output", u.output) + bill("cached", cached)

(* Costs are computed from the sums of a slice, yet in every bucket, and   *)
(* in all, a person, a model and everything together cost what their       *)
(* requests cost one by one; a request counts in the bucket of its own     *)
(* local time, as far as AxisIsLocal holds of the buckets.  A cost is      *)
(* missing only where no request has a price.                              *)
CostsArePerRequest ==
    LET unit == EffectiveBucket(question)
        axis == Axis
        cells == Cells
        cost(S) == MapThenSumSet(RequestCost, {u \in S : u.model \in DOMAIN prices})
        agree(C, S) ==
            /\ CostValue(C) = IF prices = <<>> \/ (S # {} /\ \A u \in S : u.model \notin DOMAIN prices)
                              THEN NoRate ELSE cost(S)
            /\ Regular(question, unit) =>
                 CostSeries(axis, C) = [i \in DOMAIN axis |->
                    cost({u \in S : BucketOf(question.zone, u.at, unit) = axis[i]})]
        asked == {u \in recorded : Asked(u)}
    IN  /\ agree(cells, asked)
        /\ \A dim \in {"person", "model"} : \A e \in {u[dim] : u \in asked} :
             agree({c \in cells : c.key[dim] = e}, {u \in asked : u[dim] = e})

(* Across changes of the clock, a skipped or repeated midnight included,   *)
(* every slice of the window falls into the bucket of its local hour, day  *)
(* or week; buckets follow each other, none of them empty of the window;   *)
(* and a unit is coarsened when it takes more than MaxBuckets, only then.  *)
(* A zone may change as often as it likes: the axis has only to be regular *)
(* (Regular), as it is where clocks change by full hours and leave the     *)
(* days whole.                                                             *)
AxisIsLocal ==
    LET z == question.zone
        unit == EffectiveBucket(question)
        axis == Axis
        window == question.start .. question.end - 1
        needed(u) == Cardinality({BucketOf(z, t, u) : t \in window})
        finer == IF unit = Wished(question) THEN {}
                 ELSE IF unit = "day" THEN {"hour"}
                 ELSE {Wished(question), "day"}
    IN  /\ Regular(question, unit) =>
             /\ \A t \in window :
                  LET p == Position(axis, t \div SliceTicks)
                  IN  p # 0 /\ axis[p] = BucketOf(z, t, unit)
             /\ window # {} => \A i \in DOMAIN axis : axis[i] \in {BucketOf(z, t, unit) : t \in window}
        /\ unit # "week" => Len(axis) <= MaxBuckets
        /\ \A u \in finer : Regular(question, u) => needed(u) > MaxBuckets
=============================================================================
