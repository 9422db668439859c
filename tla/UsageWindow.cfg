SPECIFICATION FairSpec
CONSTANTS
    Presets = {"today", "7d"}
    DefaultPreset = "today"
    Times = {1, 2}
    Pickers = {"tab"}
    Options <- MCOptions
    Usual <- MCUsual
    Dims = {"person"}
    Keys = {"k"}
    Absent = Absent
    Junk = Junk
    Bookmarks <- MCBookmarks
    GcTime = 1
    MaxClock = 2
INVARIANTS ShownRangeResolves AskedIsShown
PROPERTIES WindowIsKept WindowIsFresh ReturnRestores PageSettles
