SPECIFICATION FairSpec
CONSTANTS
    main = main
    dev = dev
    prod = prod
    tag = tag
    w1 = w1
    w2 = w2
    nMain = nMain
    nDev = nDev
    nProd = nProd
    nTag = nTag
    Absent = Absent
    Broken = Broken
    NoLink = NoLink
    NoRef = NoRef
    Branches <- MCBranchesProd
    Tags <- NoTags
    NameOf <- MCNames
    Dirs <- MCDirs
    DirOf <- MCDirOf
    Production = nProd
    Alias = TRUE
    Workers <- TwoWorkers
INVARIANTS TypeOK
PROPERTIES SyncEnds
