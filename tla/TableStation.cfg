SPECIFICATION MCSpec
CONSTANTS
    setter = setter
    subio = subio
    net32 = net32
    elba = elba
    station = station
    observer = observer
    p0 = p0
    p1 = p1
    NoThread = NoThread
    Setters = {setter}
    Scanners = {}
    SubioThreads = {subio}
    Net32Threads = {net32}
    ElbaThreads = {elba, station}
    Observers = {observer}
    Touches <- TouchesStation
    Pcms = {p0, p1}
    MyPcm = p0
    Points = {1, 2, 3}
    Outputs = {1, 3}
    Inputs = {2}
    Values = {0, 5}
    MinVal <- MCMinVal
    MaxVal <- MCMaxVal
    Hyst <- MCHyst
    Initial <- MCInitial
    MultiDdc = FALSE
    Net32Capacity = 0
    ElbaCapacity = 1
    UclientCapacity = 0
INVARIANTS StationFollows TablesAgree
