SPECIFICATION Spec
CONSTANTS
  Char <- CharDef
  Text <- TextDef
  CmdlineText <- NoCmdline
  KbdbufDelay = FALSE
  QueueSize = 5
  BufferSize = 2
  Word = 16
  MaxFeeds = 2
  MaxResets = 1
  MaxKeys = 1
  InDelay = {"reset"}
INVARIANT NoOverrun
