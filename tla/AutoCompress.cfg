CONSTANTS
    s1 = s1
    s2 = s2
    d1 = d1
    r1 = r1
    None = None
    Sources  = {s1, s2}
    Daemons  = {d1}
    Requests = {r1}
    Deleters = {d1, r1}
    Prefix  <- MCPrefixNone
    Empty   <- MCEmpty
    ShortReads <- MCShortReads
    IndexFaults = {"emptied"}
    MaxOut   = 2
    MaxCrash = 1
SPECIFICATION FairSpec
PROPERTY DeleteOnlyWithCopy
PROPERTY IngestOnlyAfterRun
PROPERTY StopHonoured
