----------------------------- MODULE UsageRead -----------------------------
(***************************************************************************)
(* aggregate.py and routes/usage.py: one usage request, a sequence of      *)
(* SELECTs on a connection of its own, each of them atomic but with no     *)
(* transaction around them, while the collector commits batches to the     *)
(* same database.  Requests share nothing with each other, so one stands   *)
(* for all; it may be followed by another.                                 *)
(*                                                                         *)
(* Every number of an answer is a sum over a set of rows, and the answer   *)
(* is represented by these sets.                                           *)
(***************************************************************************)
EXTENDS Integers

CONSTANTS
    Rows,           \* the rows the collector may ever commit
    Instant(_),     \* a row's timestamp
    Raw(_, _),      \* Raw(col, r): the value of column col
    Shown(_, _),    \* Shown(col, v): the key v is displayed and filtered by
    Asks,           \* the queries a client may send
    Second, Slice, BucketWidth  \* lengths, in units of Instant

Columns == {"api_key", "model", "source"}
\* resolve_filter's calls, in the order of _RangeParams.filters.
Earlier == {<<"api_key", "model">>, <<"api_key", "source">>, <<"model", "source">>}
None == -1  \* no start, no end

ASSUME WidthsAssumption ==
    /\ {Second, Slice, BucketWidth} \subseteq Nat \ {0}
    /\ Slice % Second = 0
    /\ BucketWidth % Slice = 0
ASSUME InstantAssumption == \A r \in Rows : Instant(r) \in Nat
ASSUME AsksAssumption ==
    \A a \in Asks :
        /\ a.start \in Nat \cup {None}
        /\ a.end \in Nat /\ a.start <= a.end  \* otherwise 422
        /\ a.start # None => a.end - a.start <= a.start
        /\ DOMAIN a.keys \subseteq Columns  \* the filters given

VARIABLES
    rows,   \* the committed rows
    req     \* the request

readVars == <<rows, req>>

(* Which SELECT comes next:
     filters      DISTINCT column, for the columns todo
     axis         the oldest timestamp, asked only without a start
     models       DISTINCT model, then
     cells        the grouped query of the window
     prev models, prev cells   the same for the previous window
   and how the request ended; "KeyError" and "locked" are both a 500.      *)
Running == {"filters", "axis", "models", "cells", "prev models", "prev cells"}
Over == {"none", "answered", "KeyError", "locked"}

(* raw: the values the filters were resolved to; known: the models read;
   axis: the first bucket's start; cells and prev: the rows summed; before, a
   ghost, is what the database held when the request began.                *)
\* Nothing asked, or the request `ask` before its first SELECT.
Fresh(stage, ask, before) ==
    [at |-> stage, ask |-> ask, todo |-> DOMAIN ask.keys,
     raw |-> [col \in Columns |-> {}], known |-> {}, axis |-> 0, cells |-> {}, prev |-> {}, before |-> before]

ReadInit ==
    /\ rows = {}
    /\ \E a \in Asks : req = Fresh("none", a, {})

\* The collector's transaction (Collector!Commit).
Commit ==
    /\ \E batch \in SUBSET (Rows \ rows) : batch # {} /\ rows' = rows \cup batch
    /\ UNCHANGED req

\* What /options asks: every row, unfiltered, and no axis.
Everything == [start |-> None, end |-> None, keys |-> <<>>]

Open(a) ==
    /\ req.at \in Over
    /\ req' = Fresh("filters", a, rows)
    /\ UNCHANGED rows

OpenOptions ==
    /\ req.at \in Over
    /\ req' = Fresh("models", Everything, rows)
    /\ UNCHANGED rows

\* resolve_filter: the raw values whose display key was asked for, maybe none.
ResolveFilter(col) ==
    /\ req.at = "filters"
    /\ col \in req.todo
    /\ \A d \in req.todo : <<d, col>> \notin Earlier
    /\ req' = [req EXCEPT !.todo = @ \ {col},
                          !.raw[col] = {v \in {Raw(col, r) : r \in rows} :
                                          Shown(col, v) \in req.ask.keys[col]}]
    /\ UNCHANGED rows

\* Faulty: the first bucket begins with the window.
FloorNone(t) == t

FloorToBucket(t) == (t \div BucketWidth) * BucketWidth

\* datetime() drops fractions of a second, on both sides of a comparison.
Truncated(t) == t \div Second

\* _data_start: ORDER BY datetime(timestamp) LIMIT 1.
Oldest(r) == \A s \in rows : Truncated(Instant(r)) <= Truncated(Instant(s))

\* _axis: the first bucket holds the window's start, the oldest row, or the end.
ReadAxis ==
    /\ req.at = "filters"
    /\ req.todo = {}
    /\ \E start \in IF req.ask.start # None THEN {req.ask.start}
                    ELSE IF rows = {} THEN {req.ask.end}
                    ELSE {Instant(r) : r \in {s \in rows : Oldest(s)}} :
         req' = [req EXCEPT !.at = "models", !.axis = FloorToBucket(start)]
    /\ UNCHANGED rows

Window == [start |-> req.ask.start, end |-> req.ask.end]
Previous == [start |-> req.ask.start - (req.ask.end - req.ask.start), end |-> req.ask.start]

\* Faulty: the end is included.
WithinClosed(w, r) ==
    /\ w.start # None => Truncated(Instant(r)) >= Truncated(w.start)
    /\ w.end # None => Truncated(Instant(r)) <= Truncated(w.end)

Within(w, r) ==
    /\ w.start # None => Truncated(Instant(r)) >= Truncated(w.start)
    /\ w.end # None => Truncated(Instant(r)) < Truncated(w.end)

\* Faulty: a filter that resolved to nothing is no filter.
PassesUnlessEmpty(r) ==
    \A col \in DOMAIN req.ask.keys : req.raw[col] = {} \/ Raw(col, r) \in req.raw[col]

Passes(r) == \A col \in DOMAIN req.ask.keys : Raw(col, r) \in req.raw[col]

Where(w) == {r \in rows : Within(w, r) /\ Passes(r)}

ModelsOf(S) == {Raw("model", r) : r \in S}

DistinctModels == ModelsOf(rows)

ReadModels ==
    /\ \/ req.at = "models" /\ req' = [req EXCEPT !.at = "cells", !.known = DistinctModels]
       \/ req.at = "prev models" /\ req' = [req EXCEPT !.at = "prev cells", !.known = DistinctModels]
    /\ UNCHANGED rows

\* Pricing the cells: resolved[model] raises for a model not read before.
ReadCells ==
    /\ req.at = "cells"
    /\ LET cells == Where(Window) IN
         \/ /\ ~ ModelsOf(cells) \subseteq req.known
            /\ req' = [req EXCEPT !.at = "KeyError"]
         \/ /\ ModelsOf(cells) \subseteq req.known
            /\ req' = [req EXCEPT !.at = IF req.ask.start = None THEN "answered" ELSE "prev models",
                                  !.cells = cells]
    /\ UNCHANGED rows

ReadPrevious ==
    /\ req.at = "prev cells"
    /\ LET cells == Where(Previous) IN
         \/ /\ ~ ModelsOf(cells) \subseteq req.known
            /\ req' = [req EXCEPT !.at = "KeyError"]
         \/ /\ ModelsOf(cells) \subseteq req.known
            /\ req' = [req EXCEPT !.at = "answered", !.prev = cells]
    /\ UNCHANGED rows

\* There is no database file, or the collector keeps it locked for too long.
Locked ==
    /\ req.at \in Running
    /\ req' = [req EXCEPT !.at = "locked"]
    /\ UNCHANGED rows

ReadNext ==
    \/ Commit
    \/ \E a \in Asks : Open(a)
    \/ OpenOptions
    \/ \E col \in Columns : ResolveFilter(col)
    \/ ReadAxis \/ ReadModels \/ ReadCells \/ ReadPrevious \/ Locked

ReadSpec == ReadInit /\ [][ReadNext]_readVars
-----------------------------------------------------------------------------
ReadTypeOK ==
    /\ rows \subseteq Rows
    /\ req.at \in Running \cup Over
    /\ req.ask \in Asks \cup {Everything}
    /\ req.todo \subseteq DOMAIN req.ask.keys
    /\ DOMAIN req.raw = Columns
    /\ req.known \subseteq ModelsOf(rows)
    /\ req.axis \in Nat
    /\ req.cells \cup req.prev \cup req.before \subseteq rows

\* SliceIndexer: a slice before the first bucket has no position.
Positioned(r) == (Instant(r) \div Slice) * Slice >= req.axis
Series == {r \in req.cells : Positioned(r)}

\* The rows of S a query asks for, by the keys it shows.
Wanted(S, w) ==
    {r \in S : Within(w, r) /\ \A col \in DOMAIN req.ask.keys :
                                Shown(col, Raw(col, r)) \in req.ask.keys[col]}

\* Filters are resolved to raw values by one SELECT and applied by another: an
\* answer still counts every row it asks for that was there when it began, and
\* only such that are there when it ends.
CountsWhatWasThere ==
    req.at = "answered" =>
        /\ Wanted(req.before, Window) \subseteq req.cells
        /\ req.cells \subseteq Wanted(rows, Window)

\* The window and the period before it meet without a gap and without a row
\* counted in both, fractions of a second at their boundary included.
PeriodsMeet ==
    req.at = "answered" /\ req.ask.start # None =>
        /\ req.cells \cap req.prev = {}
        /\ Wanted(req.before, [start |-> Previous.start, end |-> req.ask.end])
             \subseteq req.cells \cup req.prev

\* The buckets hold every row counted, or for all time at least those that were
\* there when the request began.
BucketsHoldWhatWasThere ==
    req.at = "answered" =>
        /\ req.ask.start # None => Series = req.cells
        /\ Wanted(req.before, Window) \subseteq Series

\* A request whose database nobody writes meanwhile prices all it reads.
OnlyCommitsBreakIt == req.at = "KeyError" => rows # req.before
-----------------------------------------------------------------------------
\* db.py:41-42: "The URI enforces read-only, so there is no concurrent-write
\* hazard; connections are per-request, not shared."
AnswersDespiteCommits == req.at # "KeyError"
=============================================================================
