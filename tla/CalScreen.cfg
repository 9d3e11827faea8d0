SPECIFICATION Spec
CONSTANTS
    Groups <- MCGroups
    InputGroups <- MCInputGroups
    FollowsScreen = TRUE
INVARIANTS JptPairs PairInv
PROPERTIES PassUndisturbed CommandReturns
