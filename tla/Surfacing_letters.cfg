\* What becomes of a worker nobody settles: both sweeps, a stop; and of two messages
\* that fail and a failure in the digest, through one fault.
SPECIFICATION McSpec
CONSTANTS
    l1 = l1 l2 = l2 m1 = m1 m2 = m2 w1 = w1 w2 = w2 w3 = w3 x1 = x1
    rc1 = rc1 rc2 = rc2 rc3 = rc3 rq1 = rq1 rq2 = rq2 gmail = gmail c1 = c1 c2 = c2
    Lanes = {l1}
    Masters = {m1}
    Workers = {w1}
    Legacy = {w1}
    LegacyMaster = m1
    Receipts = {rc1}
    Requests = {rq1}
    Connectors = {gmail}
    Conversations = {c1, c2}
    ConnectorOf <- OneRoute
    ConversationOf <- OneThread
    Telegram = {m1}
    Limit = 2
    Window = 1
    MaxAge = 0
    MaxTime = 2
    MaxStops = 1
    None = None
    Callers = {c1}
    OwnerLoop = c1
    PageCap = 1
    MaxMessages = 2
    MaxBatched = 1
    MaxItems = 6
    MaxFsFaults = 1
PROPERTIES
    StrandedIsShownOnce
    SurfacingIsSound
\* The bounded clock and ids run out.
CHECK_DEADLOCK FALSE
