CONSTANTS
  FileName = {"decal"}
  ChunkSize = 1
  MaxFragment = 5
  MaxReliablePayload = 1
  MaxMessage = 10
  MaxFragbufs = 4
  UseCookie = TRUE
  SequenceWindow = 0
  InGame = FALSE
  CmdRateLimited = FALSE
  DatagramSizes = {0, 1}
  ServerSequences = {1}
  FilesOf <- NoFiles
  FileLen <- FileLen2
  BlockSizes = {2}
  BroadcastSizes = {0}
  MaxSequence <- Sequence8
  MaxOutageSequence = 3
  MaxWritten <- ServerThreeClientOne
  OneWriter = FALSE
SPECIFICATION RecoverySpec
CHECK_DEADLOCK FALSE
PROPERTIES Recovers
