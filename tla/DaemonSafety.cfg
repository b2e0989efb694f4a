SPECIFICATION Spec
CONSTANTS
    r1 = r1
    r2 = r2
    c1 = c1
    c2 = c2
    h1 = h1
    h2 = h2
    hup = hup
    n1 = n1
    n2 = n2
    n3 = n3
    NoRepo = NoRepo
    NoJob = NoJob
    NoThread = NoThread
    NoConfig = NoConfig
    Repos <- TwoRepos
    CronThreads <- OneCron
    HttpThreads <- OneHttp
    Hup = hup
    Instances <- TwoInstances
    MaxVersion = 1
CHECK_DEADLOCK FALSE
SYMMETRY InstanceSymmetry
INVARIANTS TypeOK JobsMatchConfig CleanStop
