CONSTANTS
  Slots = 2
  Dedicated = TRUE
  LocalClients = {}
  MaxMessage = 3
  MaxDatagram = 2
  MaxReliablePayload = 1
  BlockSizes = {2}
  MaxWritten <- ServerFive
SPECIFICATION Spec
INVARIANTS ReliablesGoToAll
CHECK_DEADLOCK FALSE
