\* Two handlers, two requests, two attempts; a thread that moves, a crash.
SPECIFICATION FairSpec
CONSTANTS
    l1 = l1 l2 = l2 g1 = g1 t1 = t1 a1 = a1 a2 = a2 p1 = p1
    r1 = r1 r2 = r2 r3 = r3 f1 = f1 f2 = f2 s1 = s1 s2 = s2
    Lanes = {l1, l2}
    GrantIds = {g1}
    Threads = {t1}
    Recipients = {a1, a2}
    Payloads = {p1}
    Surfaces = {s1, s2}
    GrantRow <- OneGrant
    RequestIds = {r1, r2}
    FenceIds = {f1, f2}
    ApprovalTtl = 1
    Retention = 0
    MaxTime = 3
    MaxCrashes = 1
    None = None
INVARIANTS
    DraftMatchesApproval
    OneDraftPerRequest
    NoWriteBesideUnknown
PROPERTIES
    TapEnds
    ResolvedIsSettled
\* The bounded clock and ids run out.
CHECK_DEADLOCK FALSE
