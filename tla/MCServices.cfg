SPECIFICATION PartsSpec
CONSTANTS
    Languages = {ts, py}
    MaxServers = 2
    Calls = {c1, c2, c3}
    McpServers = {1, 2, 3}
    MaxConnects = 3
    MaxJobs = 4
    MaxConcurrent = 2
    MaxCapture = 2
    MaxOutput = 4
    MaxLines = 3
    MaxPushes = 1
    InlineCommands = {j1, j2}
    MaxRuns = 3
    NoQuestion = none
    MaxRounds = 3
    Fetchers = {f1, f2}
    maxRedirects = 1
    maxBytes = 1
    maxResults = 1
    TraceCap = 2
    MaxOps = 3
INVARIANTS
    ServersSound
    ProcessesSound
    StdioSound
    
    DriverSound
PROPERTIES
    
    ServiceSteps
