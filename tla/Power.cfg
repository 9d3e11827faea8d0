SPECIFICATION MCSpec
CONSTANTS
    Clients = {a, b}
    Descriptors = {0, 4, 5}
    Values = {0, 1}
    Retries = 1
    None = None
    Unknown = Unknown
    MaxEvents = 3
    Threads = {s, t}
    Limit = 7
    MaxCalls = 3
INVARIANTS NewsKept CommandKept OwnDescriptors LeaksCounted
PROPERTIES PlcReached
CHECK_DEADLOCK FALSE
