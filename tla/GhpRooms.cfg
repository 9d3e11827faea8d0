SPECIFICATION MCSpec
CONSTANTS
    UnitCnt = 2
    FloorCnt = 2
    LetterCnt = 1
    AllEnd = 2
    Joined = {0}
    Place <- MCPlace
    GroupCnt = 1
    DayLen = 1
    HourLen = 2
    DayCnt = 1
    Wrap = 3
    DefaultLimit = 0
    Contents = {}
    Saved <- MCSaved
    Grouped <- MCGrouped
    Clocks = {}
    Modes = {0, 1, 2}
    MaxSkip = 1
    MaxEvents = 3
    MaxTimed = 2
    MaxLoops = 1
    Commands <- MCCommands
    Touched <- MCTouched
PROPERTIES StopReaches GroupReaches
