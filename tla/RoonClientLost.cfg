CONSTANTS
  Tracks <- MCTracks
  Images <- MCImages
  ImageOf <- MCImageOf
  HasLength <- MCTracks
  Names <- MCNames
  Zone = zone
  MaxSeek = 1
  None = None
  OthersPlay = FALSE
  MayVanish = TRUE
  MaxEvents = 2
  t1 = t1
  t2 = t2
  k1 = k1
  k2 = k2
  zone = zone
  other = other
SPECIFICATION FairSpec
PROPERTIES
  CatchesUp
