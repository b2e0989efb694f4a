SPECIFICATION FairSpec
CONSTANTS
    MaxVersion = 2
    MaxFaults = 3
    NoRef = NoRef
    Broken = Broken
    Other = Other
    NoCache = NoCache
    Empty = Empty
INVARIANTS TypeOK ReportedIsCheckedOut BorrowedObjectsKept
PROPERTIES ImplementsVisit SyncIsBounded Heals
