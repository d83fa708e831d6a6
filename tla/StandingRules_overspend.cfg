CONSTANTS
    r1 = r1  r2 = r2  act = act  cp = cp  f1 = f1  f2 = f2  a1 = a1  a2 = a2  a3 = a3
    None = None
    Rules = {r1}
    MaxVersion = 1
    Actions = {act}
    ScopedActions = {act}
    Counterparties = {cp}
    Manifest <- ScopedManifest
    Prints = {f1}
    PrintAction <- OnePrintAction
    PrintScope <- OnePrintScope
    Undecodable = {}
    GrantExpiry <- OneExpiry
    Attempts = {a1, a2}
    AttemptPrint <- AllOnOne
    MaxTime = 1
    RequestHorizon = 1
    MaxCrashes = 0
    StoreFaults = FALSE
SPECIFICATION Spec
CHECK_DEADLOCK FALSE
INVARIANTS
    EffectsWithinBudget
