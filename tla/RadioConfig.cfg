SPECIFICATION Spec
CONSTANTS
    c1 = c1
    c2 = c2
    c3 = c3
    Clients = {c1, c2}
    Calls <- ConfigCalls
    Pipelines = {p1, p2, p3}
    Modes <- MCModes
    SdrModes <- MCSdrModes
    RetuneModes <- MCRetuneModes
    ContinuousModes <- MCContinuousModes
    AudioModes <- MCAudioModes
    BootModes <- MCBootModes
    Freqs = {1, 2}
    Devices = {d1}
    PresetMode = "nbfm"
    PresetFreq = 1
    MaxQueue = 1
    NoPipe = NoPipe
    NoDevice = NoDevice
    NoDraft = NoDraft
INVARIANTS
    VoiceMatchesPipeline
    PipelineFollowsConfig
