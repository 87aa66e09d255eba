SPECIFICATION Spec
CONSTANTS
    c1 = c1
    c2 = c2
    Clients = {c1, c2}
    NameOf <- MCNames
    Plans <- MCPlans
    Kinds = {"voice", "burst"}
    Freqs = {1, 2}
    ScanList <- MCScan
    KeyTime = 1
    ClipLen = 2
    AudioCap = 2
    MaxQueue = 2
    NoOne = NoOne
    NoScan = NoScan
INVARIANTS AirIsLogged RxOnChannel ScanOnChannel ReleasedGoesQuiet FreshAudio
PROPERTIES TxEnds
