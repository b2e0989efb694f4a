SPECIFICATION FairSpec
CONSTANTS
    g1 = g1
    g2 = g2
    g3 = g3
    k1 = k1
    k2 = k2
    e1 = e1
    e2 = e2
    e3 = e3
    NoEntry = NoEntry
    NoKey = NoKey
    NoOwner = NoOwner
    Goroutines <- MCGoroutines
    Keys <- MCKeys
    Entries <- MCEntries
INVARIANTS TypeOK NoStrandedWaiter NoIdleEntry
PROPERTIES ImplementsExclusion AcquireReturns
