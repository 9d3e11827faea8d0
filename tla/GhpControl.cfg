SPECIFICATION FairSpec
CONSTANTS
    UnitCnt = 2
    Values = {0, 1, 2}
    Initial <- MCInitial
    Wishes <- MCWishes
    Remotes <- MCRemotes
    QueueRoom = 2
    BatchSize = 1
    MaxLoops = 2
    ReadSize = 1
    MaxTexts = 2
    MaxEvents = 4
    AsksAgain = TRUE
INVARIANTS NoEcho WishesKept
PROPERTY TableSettles
