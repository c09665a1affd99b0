SPECIFICATION Spec
CONSTANTS
    MaxJobs = 3
    MaxStops = 0
    MaxTokens = 1
    MaxAttempts = 1
    MaxRoots = 2
    Topics = {t1}
    Scopes = {root}
    ScopeOf <- MCScopeOf
    Agents = {codex}
    Bindings = {b1, b2}
    AgentOf <- MCAgentOf
    Workers = {w1}
    NoWorker = NoWorker
    WorkerAgent <- MCWorkerAgent
    Capacity <- MCCapacity
    Resolutions = {acknowledged}
    AvailableNow = {TRUE, FALSE}
    JournalAgents = {codex}
    SteerAgents = {codex}
    codex = codex
    root = root
PROPERTIES TopicOrder StartsOnFreeRoot
