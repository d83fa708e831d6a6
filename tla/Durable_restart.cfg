\* Two reports of any kind in any order, two attempts and a crash; two keys of
\* one counterparty; two requests on the data of two counterparties;
\* a mined rule, narrowed twice; two versions of a learned workflow and a placed agent.
SPECIFICATION McSpec
CONSTANTS
    Surfaces = {"chat", "terminal"}
    MaxAttempts = 2
    MaxCounted = 3
    MaxEvents = 2
    MaxStops = 1
    MaxKeys = 2
    Parties = {p1, p2}
    Names = {n1}
    MaxRequests = 2
    MaxWork = 1
    Classes = {a}
    Targets = {x, y}
    MaxReviews = 3
    MaxDirect = 1
    MaxChanges = 1
    MaxFaults = 1
    Learned <- WorkflowAndAgent
    Placed <- PlacedAgent
    Touched <- WorkflowAndAgent
    Refs <- SecondNeedsAgent
    Bases <- WithAndWithoutAgent
    BaseVersion = 1
    MaxReconfirmations = 2
INVARIANTS
    ReportsAreAccountedFor
    AckedIsReadable
    ErasureOutlivesRestore
    OverlayIsBacked
PROPERTIES
    ReportsKeepOrder
    ReportsArrive
    ErasureIsFinal
    RestoreLosesNothing
    ReviewsAreSound
    OwnerDecides
