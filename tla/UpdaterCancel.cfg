CONSTANTS
    Files <- TheFiles
    Launcher = "cs.exe"
    NewLauncher = "cs_new.exe"
    FaultsStop = FALSE
    MaxActiveRequests = 2
    MaxRetries = 0
SPECIFICATION FairSpec
INVARIANTS UpdatedMeansNew
CHECK_DEADLOCK FALSE
