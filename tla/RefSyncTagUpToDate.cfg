SPECIFICATION Spec
CONSTANTS
    MaxVersion = 1
    MaxFaults = 2
    NoRef = NoRef
    Broken = Broken
    Other = Other
    NoCache = NoCache
    Empty = Empty
INVARIANTS UpToDateTagIsCheckedOut
