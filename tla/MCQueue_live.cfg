SPECIFICATION FairSpec
CONSTANTS
    MaxJobs = 2
    MaxStops = 1
    MaxTokens = 2
    MaxAttempts = 2
    MaxRoots = 2
    Topics = {t1}
    Scopes = {root}
    ScopeOf <- MCScopeOf
    Agents = {codex}
    Bindings = {b1}
    AgentOf <- MCAgentOf
    Workers = {w1}
    NoWorker = NoWorker
    WorkerAgent <- MCWorkerAgent
    Capacity <- MCCapacity
    Resolutions = {acknowledged}
    AvailableNow = {TRUE, FALSE}
    JournalAgents = {codex}
    SteerAgents = {codex}
    codex = codex
    root = root
PROPERTIES JobsEnd StopsComplete
