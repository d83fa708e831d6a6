CONSTANTS
    r1 = r1  r2 = r2  act = act  cp = cp  f1 = f1  f2 = f2  a1 = a1  a2 = a2  a3 = a3
    None = None
    Rules = {r1}
    MaxVersion = 1
    Actions = {act}
    ScopedActions = {}
    Counterparties = {cp}
    Manifest <- DarkManifest
    Prints = {f1, f2}
    PrintAction <- TwoPrintAction
    PrintScope <- TwoPrintScope
    Undecodable = {f2}
    GrantExpiry <- TwoExpiry
    Attempts = {a1, a2, a3}
    AttemptPrint <- TwoOnOne
    MaxTime = 2
    RequestHorizon = 1
    MaxCrashes = 1
    StoreFaults = TRUE
    w1 = w1  w2 = w2  t1 = t1  t2 = t2  c1 = c1  c2 = c2
    Accounts = {w1, w2}
    Talks = {t1, t2}
    MaxArmings = 2
    SiMaxFaults = 2
    SiMaxCrashes = 1
    Callers = {c1, c2}
    MaxIssue = 3
    OaMaxFaults = 1
SPECIFICATION McSpec
SYMMETRY McSymmetry
CHECK_DEADLOCK FALSE
INVARIANTS
    FiredAtMostOnce
    UsableTokenHoldsNoBudget
    OutstandingCapped
    SecretsAreSound
    RenewalIsSound
PROPERTIES
    ConsentIsFinal
    SurfacedNeverRerun
