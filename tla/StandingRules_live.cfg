CONSTANTS
    r1 = r1  r2 = r2  act = act  cp = cp  f1 = f1  f2 = f2  a1 = a1  a2 = a2  a3 = a3
    None = None
    Rules = {r1, r2}
    MaxVersion = 1
    Actions = {act}
    ScopedActions = {}
    Counterparties = {}
    Manifest <- TwoLives
    Prints = {f1}
    PrintAction <- OnePrintAction
    PrintScope <- NoPrintScope
    Undecodable = {}
    GrantExpiry <- OneExpiry
    Attempts = {a1}
    AttemptPrint <- AllOnOne
    MaxTime = 2
    RequestHorizon = 1
    MaxCrashes = 1
    StoreFaults = TRUE
SPECIFICATION FairSpec
CHECK_DEADLOCK FALSE
INVARIANTS
    OneLiveRulePerScope
PROPERTIES
    ExceptionsComeToRest
