SPECIFICATION MCSpec
CONSTANTS
  BlkSz = 32
  ChunkDefault = 1000
  Limits = {104}
  FetchSize = 3
  MaxFetch = 2
  DeviceKinds = {"framed", "silent", "refuses"}
  UpdateTable <- MCUpdateTable
  ImageSize <- MCImageSize
  NameSize = 2
  None = None
  MaxRetries = 2
  Numbers = 16
  FirstSeqs = {14}
  MaxOps = 2
  MaxChunks = 2
  MaxParts = 2
INVARIANTS StaysInStep SplitIsExact ImagesRoundTrip  PayloadAndCommandsApart SuccessIsTrue
  
CHECK_DEADLOCK FALSE
