CONSTANTS
    s1 = s1
    s2 = s2
    d1 = d1
    r1 = r1
    None = None
    Sources  = {s1, s2}
    Daemons  = {d1}
    Requests = {r1}
    Deleters = {d1, r1}
    Prefix  <- MCPrefixClip
    Empty   <- MCNobodyEmpty
    ShortReads <- MCNobodyEmpty
    IndexFaults = {"emptied"}
    MaxOut   = 2
    MaxCrash = 1
SPECIFICATION Spec
INVARIANT OutputIsOwn
