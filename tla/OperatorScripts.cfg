SPECIFICATION MCSpec
CONSTANTS
    j1 = j1
    j2 = j2
    f1 = f1
    f2 = f2
    t1 = t1
    t2 = t2
    File <- MCFile
    Token <- MCToken
    Bundles <- MCBundles
    Runs <- MCRuns
    MaxTriggers = 2
    Job <- MCJob
    Cold <- MCFirst
    Follower <- MCFirst
    Manual <- MCFirst
    MaxKills = 2
    MaxDeaths = 1
    MaxLosses = 1
    MaxKeys = 3
    MaxKeyKills = 1
    Version = {"staged"}
    Attempts = 2
    MaxAccounts = 3
    MaxBridgeKills = 1
INVARIANTS
    
    
    
    PackageKept
    
    CloudScriptsAgree
    KeysServed
    
    PublisherKept
PROPERTY JobReports
CONSTRAINT Bound
CHECK_DEADLOCK FALSE
