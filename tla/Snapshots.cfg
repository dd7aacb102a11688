CONSTANTS
    UpdateBackup = 4
    ByteRange = 4
    PacketEntities = 1
    ServerEntities = 4
    MaxEntity = 2
    Worlds <- TheWorlds
    InFlight = 2
    MaxBehind = 3
SPECIFICATION FairSpec
INVARIANTS SnapshotsTypeOK FramesAgree
PROPERTIES FramesResume
