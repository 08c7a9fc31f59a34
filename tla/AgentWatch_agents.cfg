CONSTANTS
    pi = pi
    claude = claude
    piAgent = piAgent
    claudeAgent = claudeAgent
    NoAgent = NoAgent
    Nobody = Nobody
    NoSession = NoSession
    s1 = s1
    s2 = s2
    Reporters = {pi, claude}
    Agents = {piAgent, claudeAgent}
    Sessions = {s1, s2}
    AgentOf <- MCAgentOf
    Lifecycle = {pi}
    Native = {claude}
    Resumable = {pi, claude}
    Replaceable = {pi, claude}
    Rethreading = {}
    PathSessions = {}
    Kinds = {"state", "session", "release", "clear"}
    Reported = {"working"}
    Shown = {"idle"}
    MaxProcs = 2
    MaxSent = 2
    MaxNews = 1
    Respawns = TRUE
    Answered = TRUE
    Repeats = TRUE
SPECIFICATION Spec
INVARIANTS
    PublishedIsArbitrated
    
    
PROPERTIES
    ReportsInOrderAtFirst
CHECK_DEADLOCK FALSE
