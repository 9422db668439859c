---------------------------- MODULE MCUsageRead ----------------------------
(* Five rows, of two keys that are redacted alike and a third.  Time in    *)
(* half seconds; a slice is two seconds, a bucket four.                    *)
(* The numbers of an answer are a machine of their own, with requests      *)
(* around two thresholds, prices of every shape, and zones that change at  *)
(* midnight, before it, and not at all.  The two share no state: one moves *)
(* while the other is where it begins.                                     *)
EXTENDS UsageRead, UsageSums

R(t, key, model) == <<t, [api_key |-> key, model |-> model, source |-> "s"]>>
MCRows == {R(1, "sk-x-1", "m"),     \* long ago
           R(9, "sk-y-1", "n"),     \* in the period before the window
           R(16, "sk-x-1", "m"),    \* in the second in which the window starts
           R(20, "sk-z-2", "n"),    \* inside it
           R(24, "sk-y-1", "m")}    \* in the second in which it ends
MCInstant(r) == r[1]
MCRaw(col, r) == r[2][col]
MCShown(col, v) == IF v \in {"sk-x-1", "sk-y-1"} THEN "sk-*-1" ELSE v

NoKeys == <<>>
MCAsks ==
    {[start |-> s, end |-> 25, keys |-> k] :
        s \in {None, 17},
        k \in {NoKeys,
               [api_key |-> {"sk-*-1"}, model |-> {"m"}, source |-> {"s"}],
               [model |-> {"n"}]}}
    \cup {[start |-> 17, end |-> 25, keys |-> [api_key |-> {"nobody"}]]}

-----------------------------------------------------------------------------
\* A slice has two ticks, an hour two slices, a day three hours, a week two days.
Tier(i, o, c) == [input |-> i, output |-> o, cached |-> c, creation |-> NoRate]
Unpublished == Tier(NoRate, NoRate, NoRate)
P(openai, base, above200, above272) ==
    [openai |-> openai, base |-> base, above200 |-> above200, above272 |-> above272]
LongPrices == [m |-> P(TRUE, Tier(10, 30, 3), Tier(20, 50, 5), Tier(40, NoRate, 7))]
MCPriceMaps ==
    {<<>>, LongPrices, [n |-> P(FALSE, Tier(10, 30, 3), Unpublished, Unpublished)]}
    \cup {[m |-> p] : p \in
            {P(FALSE, Tier(10, 30, NoRate), Tier(20, NoRate, 5), Tier(40, 50, 7)),
             P(FALSE, Tier(10, 30, 3), Unpublished, Tier(40, NoRate, 7)),
             P(FALSE, Tier(10, 30, 3), [Unpublished EXCEPT !.creation = 9], Tier(40, NoRate, 7)),
             P(TRUE, Tier(10, 30, NoRate), Tier(20, 50, 5), Unpublished)}}

U(id, at, person, model, i, o, c) ==
    [id |-> id, at |-> at, person |-> person, model |-> model, input |-> i, output |-> o, cached |-> c]
Few == {U(3, 16, "q", "n", 1, 1, 1), U(4, 23, "p", "m", 4, 1, 0), U(5, 27, "q", "m", 1, 3, 1)}
MCUsages ==
    {U(1, 14, "p", "m", i, o, c) : i \in 0..4, o \in {0, 3}, c \in {0, 2, 4}}
    \cup {U(2, 15, "p", "m", i, 1, c) : i \in {2, 3}, c \in {0, 1}}
    \cup Few

Zone(initial, changes) == [initial |-> initial, changes |-> changes]
Still == Zone(0, <<>>)
Changing(before, after, c) == Zone(before, c :> after)
Zones ==
    {Still, Zone(2, <<>>)}
    \cup {Changing(0, 4, c) : c \in {20, 24, 28}}   \* forward to, at, and after midnight
    \cup {Changing(6, 2, c) : c \in {18, 22, 26}}   \* back from, to, and after midnight
    \cup {Zone(0, 24 :> 4 @@ 44 :> 0), Zone(6, 18 :> 2 @@ 22 :> 10)}     \* twice
    \cup {Changing(0, 1, 24), Changing(2, 0, 22)}   \* by less than an hour
    \cup {Changing(6, 2, 20), Changing(-6, 6, 30)}  \* across midnight, and over a whole day
Q(s, e, z, u) == [start |-> s, end |-> e, zone |-> z, unit |-> u]
MCQuestions ==
    {Q(12, 20, Still, "hour")}
    \cup {Q(s, e, z, u) : s \in {12, 19, 24, 28}, e \in {28, 31, 48, 90}, z \in Zones,
                          u \in {"auto", "hour", "day", "week"}}

\* Every request and price is tried on one question, every question on a few.
Default == Q(12, 20, Still, "hour")
SumsBound == question = Default \/ (recorded \subseteq Few /\ prices = LongPrices)
SumsPath == question' # question => Default \in {question, question'}

AnswerAtRest == rows = {} /\ req.at = "none" /\ req.ask.keys = NoKeys /\ req.ask.start = None
SumsAtRest == recorded = {} /\ prices = <<>> /\ question = Default

MCInit == ReadInit /\ SumsInit /\ SumsBound /\ (SumsAtRest \/ AnswerAtRest)

MCNext == \/ ReadNext /\ SumsAtRest /\ UNCHANGED sumsVars
          \/ SumsNext /\ SumsBound' /\ SumsPath /\ AnswerAtRest /\ UNCHANGED readVars

MCSpec == MCInit /\ [][MCNext]_<<readVars, sumsVars>>
============================================================================
