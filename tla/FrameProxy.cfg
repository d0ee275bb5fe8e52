CONSTANTS
  FRAME_HEADER_SIZE = 2
  MaxPcm = 2
  MaxPos = 2
  MaxMeta = 2
  MaxPic = 2
  PosLen = 1
  MetaLen = 1
  PicLen = 1
  Streams <- MCStreams
  BufSize = 8
  Metas <- MCMetas
  Garbage <- MCGarbage
  SplitXml = FALSE
  None = None
  a = a
  b = b
  x = x
  y = y
SPECIFICATION FairSpec
INVARIANTS
  TypeOK
  NoLeak
  InOrder
  NothingLost
  InStep
  CorruptOnlyIfSent
  NothingHeldBack
  BeliefHeld
PROPERTIES
  EveryFrameRefreshes
  NoRepeat
  WellFramed
  ReadsComplete
