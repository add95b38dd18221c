CONSTANTS
    NumCalls = 2
    InputSize = 2
    MaxOutput = 1
    StdinCap = 1
    StdoutCap = 1
    Sandboxed = {TRUE, FALSE}
    MaxRestarts = 1
    None = None
SPECIFICATION Safe
INVARIANTS TypeOK ErrorsDoNotSpread MetaIsOwn VerdictMatchesRun
