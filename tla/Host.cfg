SPECIFICATION HostSpec
CONSTANTS
    ra = ra
    rb = rb
    rc = rc
    past = past
    create = create
    delete = delete
    task = task
    one = one
    two = two
    t1 = t1
    t2 = t2
    d1 = d1
    d2 = d2
    d3 = d3
    g1 = g1
    g2 = g2
    q1 = q1
    q2 = q2
    q3 = q3
    tea = tea
    water = water
    drink = drink
    j1 = j1
    j2 = j2
    s1 = s1
    s2 = s2
    e1 = e1
    e2 = e2
    e3 = e3
    key = key
    n1 = n1
    n2 = n2
    p1 = p1
    p2 = p2
    i1 = i1
    i2 = i2
    None = None
    NoDigest = NoDigest
    NoReport = NoReport
    NoRecord = NoRecord
    light = light
    heat = heat
    event = event
    panel = panel
    NoBase = NoBase
    NoProvider = NoProvider
    PartNames = {"tickets", "broker", "start", "runner", "backup", "delegations", "tasks", "memory", "jobs", "calendar", "vault", "profile", "authoring", "resolution"}
    Actions = {create, delete, task}
    SelfExecuting = {task}
    Unbound = {delete}
    Calls = {one, two}
    MaxTickets = 2
    MaxRequests = 2
    HistoryLimit = 1
    Starts = {ra, rb}
    Past = past
    MaxAttempts = 3
    MaxCrashes = 1
    RunnerCalls = {t1, t2}
    MaxLines = 3
    MaxAuthority = 3
    MaxDamage = 2
    Delegates = {d1, d2, d3}
    MaxChildren = 2
    MaxDisposals = 2
    Agents = {g1}
    Questions = {q1, q2, q3}
    QuestionOf <- AskedBy
    Notified = {q1, q3}
    MaxGoalRevision = 3
    MaxFacts = 3
    Facts = {tea, water}
    TopicKeys = {drink}
    MaxSaveFaults = 1
    JobRuns = {j1, j2}
    Owners = {g1}
    NoOwner = None
    Sources = {s1, s2}
    MaxPerOwner = 1
    Every = 2
    MaxTime = 3
    Creates = {e1, e2, e3}
    Keys = {key}
    NoKey = None
    KeyOf <- CarriedKey
    FeishuCreates = {e3}
    Notes = {n1, n2}
    FirstNotes = {n1}
    Proposals = {p1, p2}
    MaxEdits = 3
    MaxRevision = 2
    MaxSpecs = 2
    Fixtures = {2}
    Budgets <- Stories
    Capabilities = {light, heat, event, panel}
    DomainOf <- CapabilityDomain
    Catalogs <- SomeCatalogs
    Wishes <- Claimed
    MaxDrafts = 3
    Launches = {ra, rb}
    Profiles = {i1, i2}
    Unfit = {}
    ProfileName = ProfileName
    Unreadable = Unreadable
    Nobody = None
    Missing = Missing
    Transcripts = {t1}
INVARIANTS
    NoOrphan
    SingleWriter
    OwnerKept
    PlacesCounted
    QuestionsHeard
    BriefsPaced
    OneEvent
    HistoryFollows
    BindingsResolve
PROPERTIES
    TicketsOneShot
    BrokerOneShot
    OperationsWanted
    RestoreWhole
    ForgottenStays
    AppendsToSeen
    BlockersCarried
    AdviceFollowed
    RequestedSound
CHECK_DEADLOCK FALSE
