SPECIFICATION FairSpec
CONSTANTS
  Char <- CharDef
  Text <- TextDef
  CmdlineText <- CmdlineDef
  KbdbufDelay = TRUE
  QueueSize = 5
  BufferSize = 2
  Word = 16
  MaxFeeds = 3
  MaxResets = 2
  MaxKeys = 2
  InDelay = {}
INVARIANTS TypeOK NoOverrun HeldReturn
PROPERTIES ImplementsFifo Drained
