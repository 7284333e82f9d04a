CONSTANTS
  QSize = 4
  StartBurst = 4
  MaxPackets = 11
  PiecesOf <- MCPiecesOf
SPECIFICATION FairQueueSpec
INVARIANTS QueueTypeOK SlotNotReused
PROPERTIES ImplementsFifo EveryPacketRead
