CONSTANTS
  FileName = {"decal"}
  ChunkSize = 1
  MaxFragment = 2
  MaxReliablePayload = 1
  MaxMessage = 1
  MaxFragbufs = 4
  UseCookie = TRUE
  SequenceWindow = 0
  InGame = FALSE
  CmdRateLimited = FALSE
  DatagramSizes = {0, 1}
  ServerSequences = {1}
  FilesOf <- ServerFile
  FileLen <- FileLen1
  BlockSizes = {}
  BroadcastSizes = {0, 1}
  MaxSequence <- ServerFour
  MaxWritten <- OneEach
  OneWriter = FALSE
SPECIFICATION Spec
INVARIANTS HostsTypeOK FilesIntact NeverReconnects
CHECK_DEADLOCK FALSE
VIEW FreshView
