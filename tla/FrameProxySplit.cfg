CONSTANTS
  FRAME_HEADER_SIZE = 2
  MaxPcm = 2
  MaxPos = 2
  MaxMeta = 2
  MaxPic = 2
  PosLen = 1
  MetaLen = 1
  PicLen = 1
  Streams <- MCSplitStreams
  BufSize = 8
  Metas <- MCMetas
  Garbage <- MCGarbage
  SplitXml = TRUE
  None = None
  a = a
  b = b
  x = x
  y = y
SPECIFICATION Spec
INVARIANTS
  MetaNeverLeaks
