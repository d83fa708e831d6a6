\* Two handlers of one conversation, workers that commission workers, a cap of one;
\* and chains of three grants over every kind of action.
SPECIFICATION McSpec
CONSTANTS
    l1 = l1 l2 = l2 m1 = m1 m2 = m2 w1 = w1 w2 = w2 w3 = w3 x1 = x1
    rc1 = rc1 rc2 = rc2 rc3 = rc3 rq1 = rq1 rq2 = rq2 gmail = gmail c1 = c1 c2 = c2
    Lanes = {l1, l2}
    Masters = {m1}
    Workers = {w1, w2}
    Legacy = {}
    LegacyMaster = m1
    Receipts = {rc1, rc2}
    Requests = {rq1}
    Connectors = {gmail}
    Conversations = {c1, c2}
    ConnectorOf <- OneRoute
    ConversationOf <- OneThread
    Telegram = {m1, m2}
    Limit = 1
    Window = 1
    MaxAge = 2
    MaxTime = 0
    MaxStops = 0
    None = None
    commission = commission  report = report  search = search  reply = reply
    read = read  erase = erase  draft = draft  notify = notify
    web = web  tg = tg  thread = thread  k = k  v1 = v1  v2 = v2
    owner = owner  tk = tk  d1 = d1  g1 = g1  g2 = g2  g3 = g3  NoValue = NoValue
    Actions = {commission, report, search, reply, draft, erase, read, notify}
    Catalog = {commission, report, search, reply, draft, erase, read, notify}
    Declared = {commission, report, search, reply, draft, erase, read, notify}
    KernelOrigin = {notify}
    NonDelegable = {erase}
    EgressClassOf <- Classed
    Routed = {reply}
    ChannelsOf <- Channelled
    TokenTypeOf <- Tokened
    Classes = {web}  Channels = {tg}  TokenTypes = {thread}
    Params = {k}  ParamValues = {v1, v2}
    Users = {owner}  TokenIds = {tk}  Digests = {d1}
    GrantIds = {g1, g2, g3}
    Roots <- WideRoots
    Specs <- SomeSpecs
    CommissionAction = commission  ReportAction = report
    GrantRetention = 0
    DgMaxTime = 2
SYMMETRY McSymmetry
INVARIANTS
    OneAnswer
    OneSupervisedPerConversation
    MintIsSound
    DelegationNeverWidens
PROPERTIES
    CommissionsAreBounded
\* The bounded clock and ids run out.
CHECK_DEADLOCK FALSE
