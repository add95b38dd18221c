CONSTANTS
    NumCalls = 1
    InputSize = 3
    MaxOutput = 3
    StdinCap = 2
    StdoutCap = 1
    Sandboxed = {TRUE, FALSE}
    MaxRestarts = 0
    None = None
SPECIFICATION Spec
PROPERTY TesterReturns
