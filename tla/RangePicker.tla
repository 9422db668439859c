---------------------------- MODULE RangePicker ----------------------------
(***************************************************************************)
(* The range picker of the usage page (RangePicker in FilterBar.tsx, with  *)
(* the calendar arithmetic of utils/usage/range.ts): presets, two inputs   *)
(* for local times, and a calendar that fills them with whole days up to   *)
(* the time at which the picker was opened.                                *)
(*                                                                         *)
(* Time runs in ticks, Minute to an input's minute and Day to a local day; *)
(* days that are longer or shorter are left out.                           *)
(***************************************************************************)
EXTENDS Integers, FiniteSetsExt

CONSTANTS
    Minute, Day,        \* their lengths in ticks
    FirstTick, LastTick, \* bounds: when the behaviour starts and ends
    Missing             \* no start, no anchor, no picks; an input without a time

ASSUME PickerAssumption ==
    /\ Minute \in Nat \ {0} /\ Day \in Nat \ {0} /\ Day % Minute = 0
    /\ FirstTick \in Nat /\ LastTick \in Nat /\ FirstTick <= LastTick
    /\ Missing \notin Int

VARIABLES
    open, custom,       \* the popover, and whether it shows the calendar
    from, to,           \* its inputs
    anchor,             \* the day of a first click on the calendar
    now,                \* the time at which it was opened
    value, start, end,  \* the range chosen, and its window
    picked,             \* the days of the calendar's last click, if nothing was typed since
    clock

pickerVars == <<open, custom, from, to, anchor, now, value, start, end, picked, clock>>

Inputs == {t \in 0..LastTick : t % Minute = 0} \cup {Missing}

PickerTypeOK ==
    /\ open \in BOOLEAN /\ custom \in BOOLEAN /\ value \in {"preset", "custom"}
    /\ {from, to, start, anchor} \subseteq Int \cup {Missing}
    /\ now \in Nat /\ end \in Int /\ clock \in FirstTick..LastTick

-----------------------------------------------------------------------------
(* Local times and days.                                                   *)

ToLocalInput(t) == t - (t % Minute)
DayOf(t) == t \div Day

\* the last day runs to its end, capped at now
DayRange(first, last) ==
    [start |-> ToLocalInput(first * Day),
     end   |-> ToLocalInput(Min({(last + 1) * Day, now}))]

\* the first click picks a day, the second the days to or from it
PickDay(day) ==
    IF anchor = Missing THEN [anchor |-> day, first |-> day, last |-> day]
    ELSE [anchor |-> Missing, first |-> Min({anchor, day}), last |-> Max({anchor, day})]

\* an end at midnight counts that day
DaysThroughEnd(s, e) ==
    IF Missing \in {s, e} THEN Missing ELSE <<DayOf(s), DayOf(Max({s, e}))>>

\* an end at midnight excludes that day
RangeDays(s, e) ==
    IF Missing \in {s, e} THEN Missing ELSE <<DayOf(s), DayOf(Max({s, e - 1}))>>

Valid == Missing \notin {from, to} /\ from < to

-----------------------------------------------------------------------------

PickerInit ==
    /\ open = FALSE /\ custom = FALSE /\ from = Missing /\ to = Missing
    /\ anchor = Missing /\ now = 0 /\ value = "preset" /\ picked = Missing
    /\ clock = FirstTick /\ end = clock /\ start \in {Missing, DayOf(clock) * Day}

\* the inputs start with the window on the page, a month of it without a start
Open ==
    /\ ~open /\ open' = TRUE /\ now' = clock
    /\ from' = ToLocalInput(IF start = Missing THEN end - 30 * Day ELSE start)
    /\ to' = ToLocalInput(end)
    /\ custom' = (value = "custom") /\ anchor' = Missing /\ picked' = Missing
    /\ UNCHANGED <<value, start, end, clock>>

Dismiss == open /\ open' = FALSE
           /\ UNCHANGED <<custom, from, to, anchor, now, value, start, end, picked, clock>>

Flip == open /\ custom' = ~custom
        /\ UNCHANGED <<open, from, to, anchor, now, value, start, end, picked, clock>>

\* a preset's window ends when it is computed
PickPreset ==
    /\ open /\ ~custom /\ open' = FALSE /\ value' = "preset"
    /\ end' = clock /\ start' \in {Missing, DayOf(clock) * Day, clock - Day}
    /\ UNCHANGED <<custom, from, to, anchor, now, picked, clock>>

\* days after that of opening are disabled
ClickDay(day) ==
    LET pick == PickDay(day)
        days == DayRange(pick.first, pick.last)
    IN  /\ open /\ custom /\ day <= DayOf(now)
        /\ anchor' = pick.anchor /\ from' = days.start /\ to' = days.end
        /\ picked' = <<pick.first, pick.last>>
        /\ UNCHANGED <<open, custom, now, value, start, end, clock>>

TypeFrom == /\ open /\ custom /\ from' \in Inputs /\ picked' = Missing
            /\ UNCHANGED <<open, custom, to, anchor, now, value, start, end, clock>>

TypeTo == /\ open /\ custom /\ to' \in Inputs /\ picked' = Missing
          /\ UNCHANGED <<open, custom, from, anchor, now, value, start, end, clock>>

Apply ==
    /\ open /\ custom /\ Valid /\ open' = FALSE
    /\ value' = "custom" /\ start' = from /\ end' = to
    /\ UNCHANGED <<custom, from, to, anchor, now, picked, clock>>

Passes == /\ clock < LastTick /\ clock' = clock + 1
          /\ UNCHANGED <<open, custom, from, to, anchor, now, value, start, end, picked>>

PickerNext == \/ Open \/ Dismiss \/ Flip \/ PickPreset \/ TypeFrom \/ TypeTo \/ Apply
              \/ Passes \/ \E day \in 0..DayOf(LastTick) : ClickDay(day)

PickerSpec == PickerInit /\ [][PickerNext]_pickerVars

-----------------------------------------------------------------------------
(* Properties.                                                             *)

(* The days clicked on the calendar are the days it shows as selected,     *)
(* although only the inputs are kept; they do not reach past the opening,  *)
(* and can be applied.  Only today's first minute is too short to be seen. *)
PicksAreShown ==
    picked # Missing =>
        /\ to <= now
        /\ \/ RangeDays(from, to) = picked /\ Valid
           \/ picked[2] = DayOf(now) /\ now % Day < Minute
=============================================================================
