CONSTANTS
    Contexts = {c1, c2}
    Programs <- TwoPrograms
    MaxTime = 2
    MaxCrashes = 1
    MaxStepBacks = 1
    Tolerance = 0
    None = None
    r1 = r1  r2 = r2  r3 = r3
    Machines = {c1, c2}
    Manifests <- TwoManifests
    ActionRequests <- ThreeRequests
    ApprovalLife = 1
    SmMaxTime = 1
    SmMaxSteps = 4
    t1 = t1  t2 = t2  t3 = t3  m1 = m1  m2 = m2  NoTask = NoTask
    Tasks = {t1, t2, t3}
    Deps <- FanIn
    TaskTimers = {m1, m2}
    TaskOf <- TwoTimers
    Orphans = {}
    TbMaxCrashes = 1
    TbMaxRetries = 1
    n1 = n1  n2 = n2  agent = agent
    Declared <- ScreenerAndMiner
    Markers = {marker}
    LoadedManifests <- WithAndWithoutSignals
    Window = 1
    RetireAt = 1
    MaxEvents = 2
    MaxIssued = 4
    NvMaxTime = 1
    NvMaxFaults = 1
SPECIFICATION McSpec
CHECK_DEADLOCK FALSE
INVARIANTS
    RunIsReplayable
    MachineIsSound
    DispatchIsSound
PROPERTIES
    TimersFireOnce
    FireIsAnswered
    NervesAreSound
