CONSTANTS
    Client = {c1}
    NoOne = none
    MaxClients = 2
    ConnectionRetries = 1
    TestRetries = 2
    NetworkCapacity = 1
    MaxCookie = 2
    MaxBacklog = 2
    MaxLevel = 2
SPECIFICATION FairSpec
INVARIANTS HandshakeTypeOK AdmittedByThisLevel SameLevel OneLevelPerSession SignonInTurn
PROPERTIES SignonEnds
CHECK_DEADLOCK FALSE
