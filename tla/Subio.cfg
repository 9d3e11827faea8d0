SPECIFICATION Spec
CONSTANTS
    LastGroup = 2
    Type <- MCType
    MaxUnderway = 2
INVARIANTS AnswersGoHome SubioInv
PROPERTIES ZeroedWhenSilent SilentIsZeroed AllSilentIsZeroed
