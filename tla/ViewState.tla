----------------------------- MODULE ViewState -----------------------------
(***************************************************************************)
(* What the usage page shows, and how it is written into a query string    *)
(* and read back (frontend/src/utils/usage/viewState.ts, range.ts).        *)
(*                                                                         *)
(* A query string is the record of its parameters, each Absent or holding  *)
(* a value, possibly one the page would never write.  Local times are      *)
(* numbers; one that does not parse is Junk.  The granularity, the metric  *)
(* and the tab differ only in their values, so they are a set of choices.  *)
(***************************************************************************)
EXTENDS Naturals, SequencesExt

CONSTANTS
    Presets, DefaultPreset,     \* the named ranges, and the one of the default view
    Times,                      \* the local times a custom range may name
    Pickers, Options, Usual,    \* what is chosen from Options[c], Usual[c] by default
    Dims, Keys,                 \* the entities: dimensions and keys
    Absent, Junk                \* a parameter that is missing, or that nobody can read

ASSUME ViewAssumption ==
    /\ DefaultPreset \in Presets /\ "custom" \notin Presets
    /\ Times \subseteq Nat /\ Absent # Junk
    /\ \A c \in Pickers : Usual[c] \in Options[c] /\ {Absent, Junk} \cap Options[c] = {}
    /\ {Absent, Junk} \cap (Presets \cup {"custom"} \cup Keys) = {} /\ {Absent, Junk} \cap Times = {}
    /\ Usual = [c \in Pickers |-> Usual[c]]

Preset(p)    == [kind |-> "preset", id |-> p]
Custom(s, e) == [kind |-> "custom", start |-> s, end |-> e]

\* an end parses to an instant, and the start comes strictly before the end
IsValidCustomRange(s, e) == {s, e} \subseteq Times /\ s < e

Ranges == {Preset(p) : p \in Presets}
          \cup {Custom(w[1], w[2]) : w \in {w \in Times \X Times : w[1] < w[2]}}

NoDrawer == <<Absent, Absent>>

DefaultView ==
    [range |-> Preset(DefaultPreset), filter |-> [d \in Dims |-> <<>>],
     choice |-> Usual, drawer |-> NoDrawer]

\* the view narrowed to the entity of its drawer
ScopeToEntity(v) ==
    [v EXCEPT !.filter[v.drawer[1]] = <<v.drawer[2]>>, !.drawer = NoDrawer]

\* the keys of a filter but k
Without(s, k) == FoldLeft(LAMBDA kept, x : IF x = k THEN kept ELSE Append(kept, x), <<>>, s)

-----------------------------------------------------------------------------

Empty == [range |-> Absent, from |-> Absent, to |-> Absent,
          filter |-> [d \in Dims |-> <<>>], choice |-> [c \in Pickers |-> Absent],
          detail |-> NoDrawer]

RangeParams(q, r) ==
    IF r.kind = "preset" THEN [q EXCEPT !.range = r.id]
    ELSE [q EXCEPT !.range = "custom", !.from = r.start, !.to = r.end]

RestOf(v) ==
    [Empty EXCEPT !.filter = v.filter, !.detail = v.drawer,
                  !.choice = [c \in Pickers |->
                                IF v.choice[c] = Usual[c] THEN Absent ELSE v.choice[c]]]

\* the default range is left out like every other default
SerializeTersely(v) ==
    IF v.range = DefaultView.range THEN RestOf(v) ELSE RangeParams(RestOf(v), v.range)

\* the choices are forgotten
SerializeLoosely(v) == RangeParams([RestOf(v) EXCEPT !.choice = Empty.choice], v.range)

\* the range is always written, so the query string is never empty
Serialize(v) == RangeParams(RestOf(v), v.range)

\* a custom range is taken as it stands
ParseRangeUnchecked(q) ==
    IF q.range = "custom" THEN Custom(q.from, q.to)
    ELSE Preset(IF q.range \in Presets THEN q.range ELSE DefaultPreset)

ParseRange(q) ==
    IF q.range = "custom" /\ IsValidCustomRange(q.from, q.to) THEN Custom(q.from, q.to)
    ELSE Preset(IF q.range \in Presets THEN q.range ELSE DefaultPreset)

ParseDrawer(q) == IF q.detail \in Dims \X Keys THEN q.detail ELSE NoDrawer

\* without empty values and repetitions, in the order of first occurrence
ParseList(s) ==
    FoldLeft(LAMBDA kept, k : IF k = Absent \/ Contains(kept, k) THEN kept
                              ELSE Append(kept, k), <<>>, s)

\* what is missing or unreadable falls back to its default, field by field
Parse(q) ==
    [range  |-> ParseRange(q),
     filter |-> [d \in Dims |-> ParseList(q.filter[d])],
     choice |-> [c \in Pickers |->
                   IF q.choice[c] \in Options[c] THEN q.choice[c] ELSE Usual[c]],
     drawer |-> ParseDrawer(q)]

\* a query string wins over what is stored (Empty: nothing)
LoadView(q, stored) ==
    IF q # Empty THEN Parse(q) ELSE IF stored # Empty THEN Parse(stored) ELSE DefaultView

\* the drawer is saved with the rest
SavedWithDrawer(v) == Serialize(v)

\* everything but the drawer, which is transient
Saved(v) == Serialize([v EXCEPT !.drawer = NoDrawer])
=============================================================================
