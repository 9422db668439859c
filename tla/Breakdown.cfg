SPECIFICATION MCSpec
CONSTANTS
    Responses <- MCResponses
    OptionSets <- MCOptionSets
    Family <- MCFamily
    MaxColumns = 2
    Absent = Absent
    Minute = 2
    Day = 4
    FirstTick = 6
    LastTick = 8
    Missing = Missing
INVARIANTS ViewsAgree HeatmapIsWhole LayersAddUp MissingSortsLow PicksAreShown
