SPECIFICATION FairSpec
CONSTANTS
    UnitCnt = 1
    GroupCnt = 2
    DayLen = 2
    HourLen = 3
    DayCnt = 2
    Wrap = 4
    DefaultLimit = 1
    Contents <- MCContents
    Saved <- MCSaved
    Grouped <- MCGrouped
    Clocks <- MCClocks
    Modes = {0, 1, 2, 3}
    MaxSkip = 1
    MaxEvents = 2
INVARIANTS RunsAtMost Whole
PROPERTIES EachStart UserKept ModesSettle
