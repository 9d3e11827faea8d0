SPECIFICATION Spec
CONSTANTS
    Groups <- MCGroups
    InputGroups <- MCInputGroups
    FollowsScreen = FALSE
PROPERTY CommandReturns
