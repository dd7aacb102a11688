CONSTANTS
  FileName = {"decal"}
  ChunkSize = 1
  MaxFragment = 5
  MaxReliablePayload = 1
  MaxMessage = 10
  MaxFragbufs = 10
  UseCookie = FALSE
  SequenceWindow = 1
  InGame = TRUE
  CmdRateLimited = TRUE
  DatagramSizes = {1}
  ServerSequences = {1}
  FilesOf <- NoFiles
  FileLen <- FileLen2
  BlockSizes = {2}
  BroadcastSizes = {0}
  MaxSequence <- Sequence4
  MaxWritten <- ThreeEach
  OneWriter = TRUE
SPECIFICATION Spec
INVARIANTS ChannelTypeOK ReliableInv ExactlyOnce CommandsInOrder DrainedMeansDelivered
PROPERTIES OnlyLostIsSentAgain OnlyAcceptedIsCleared ImplementsStream
CHECK_DEADLOCK FALSE
VIEW FreshView
