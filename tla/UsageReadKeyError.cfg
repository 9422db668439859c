SPECIFICATION MCSpec
CONSTANTS
    Rows <- MCRows
    Instant <- MCInstant
    Raw <- MCRaw
    Shown <- MCShown
    Asks <- MCAsks
    Second = 2
    Slice = 4
    BucketWidth = 8
    Usages <- MCUsages
    PriceMaps <- MCPriceMaps
    Questions <- MCQuestions
    SliceTicks = 2
    Hour = 4
    Day = 12
    Week = 2
    AutoHourMax = 12
    AutoDayMax = 48
    MaxBuckets = 4
    Threshold200 = 2
    Threshold272 = 3
    NoRate = NoRate
INVARIANT AnswersDespiteCommits
