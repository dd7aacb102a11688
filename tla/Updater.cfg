CONSTANTS
    Files <- TwoFiles
    Launcher = "cs.exe"
    NewLauncher = "cs_new.exe"
    FaultsStop = TRUE
    MaxActiveRequests = 2
    MaxRetries = 1
SPECIFICATION FairSpec
INVARIANTS DownloaderTypeOK UpdaterTypeOK DownloadsAccounted
INVARIANTS UpdatedIsComplete Recoverable StartsOneVersion
PROPERTIES Repairs UpToDateIsUntouched
CHECK_DEADLOCK FALSE
