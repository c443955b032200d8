\* Two workers and the run-now button.
SPECIFICATION ServicesSpec
CONSTANTS
    Dumpers = {d1, d2}  Restorers = {r1}  LockLife = 1  DumpLimit = 1  Keep = 1  MaxBackups = 2  MaxUpsets = 2
    Callers = {c1, c2}  NoCaller = NoCaller  RefreshTTL = 1  MaxTokens = 2  MaxFailures = 1
    Extractors = {e1, e2}  Resolvers = {v1, v2}  Checkers = {k1}  MaxCalls = 2  MaxMishaps = 1
    Horizons = 2  Workers = {w1, w2}  MaxQueued = 2  MaxClicks = 1  MaxDeaths = 2
    Ticks = {t1, t2}  Firers = {f1, f2}  FireTTL = 2  MaxDays = 2  MaxFires = 3  MaxLosses = 1
    Schedules = {s1, s2}  Prompts = {p, q}  NoPrompt = NoPrompt  MaxMessages = 4
    Pollers = {o1, o2}  Results = 2  MaxBatches = 2  MaxBreaks = 1
    Slots = {x1, x2}  MaxRows = 2  MaxCost = 2  DailyCap = 2  MonthlyCap = 3  NoCap = NoCap  Window = 2
    LastDay = 3  MaxSubmitted = 1  MaxPolled = 2
    Quotes = {0, 1, 2}  Levels = {1}  NoValue = NoValue  MaxLeaves = 2
    Requesters = {q1, q2}  Nobody = Nobody  MaxAccess = 2  MaxSessions = 2  MaxServerFaults = 1
    Sweepers = {g1, g2}  Anomalies = {a1, a2}  NoAnomaly = NoAnomaly  TopK = 2  OriginationCap = 1
    CooldownTime = 1  DayTime = 2  LastTime = 2  MaxWaiting = 1  MaxSweepLosses = 1
    Personas <- BullAndBear  Viewer = "viewer"  Judge = "judge"  Rounds = 1  MaxPosts = 10  MaxQuestions = 1
    Snapshots = {n1, n2}  SectionKinds = {vix, image}  Vix = vix  ImageKind = image
    Screenshots = {i1}  Render = render  Unclaimed = unclaimed
    MaxIterations = 2  MaxToolCalls = 2  MaxTurns = 4
INVARIANT OneNarrator
CHECK_DEADLOCK FALSE
