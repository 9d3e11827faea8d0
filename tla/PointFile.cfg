SPECIFICATION Spec
CONSTANTS
    MaxPoint = 2
    Values <- MCValues
INVARIANTS Genuine FileInv
PROPERTIES CompleteStays DurableSpec FileFollows
