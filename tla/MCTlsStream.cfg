SPECIFICATION StreamSpec
CONSTANTS
  Scripts <- MCScripts
  Reply <- MCReply
  MaxRecord = 4
  MaxHandshakeBytes = 7
  MaxReasm = 4
  KernelCap = 4
  ReadCap = 8
  FlushFuel = 2
  DrainFuel = 3
INVARIANTS
  MessagesAsWritten
  NoOctetLost
  RepliesInOrder
PROPERTY
  EverythingFramed
CHECK_DEADLOCK FALSE
