SPECIFICATION Spec
CONSTANTS
    scanner = scanner
    net32 = net32
    p0 = p0
    p1 = p1
    NoThread = NoThread
    Setters = {}
    Scanners = {scanner}
    SubioThreads = {}
    Net32Threads = {net32}
    ElbaThreads = {}
    Observers = {}
    Touches <- TouchesNet32
    Pcms = {p0, p1}
    MyPcm = p0
    Points = {1, 2}
    Outputs = {1}
    Inputs = {2}
    Values = {1, 2, 5}
    MinVal <- MCMinVal
    MaxVal <- MCMaxVal
    Hyst <- MCHyst
    Initial <- MCInitial
    MultiDdc = FALSE
    Net32Capacity = 2
    ElbaCapacity = 0
    UclientCapacity = 0
INVARIANTS NetworkFollows TablesAgree WithinLimits TableInv
