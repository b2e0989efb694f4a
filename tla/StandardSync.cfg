SPECIFICATION FairSpec
CONSTANTS
    main = main
    dev = dev
    v1 = v1
    v2 = v2
    Unset = Unset
    NoRef = NoRef
    Other = Other
    BranchNames <- MCBranches
    TagNames <- MCTags
    Files <- MCFiles
    Commands <- MCCommands
    MaxVersion = 1
    MaxChanges = 2
    MaxFaults = 1
INVARIANTS TypeOK SyncedInPlace DeployedInPlace EveryRefAccounted PollSkipsStaleOnly
PROPERTIES PrunedAsAsked ImplementsVisits SyncIsBounded Converges
