CONSTANTS
  t1 = t1
  t2 = t2
  s1 = s1
  s2 = s2
  s3 = s3
  s4 = s4
  Threads <- FourThreads
  SEM_VALUE_MAX = 2
  SemValues = {1}
  SemCalls <- OneCallsTwice
  Sigs = {1, 2}
  FatalSigs = {1}
  SigActions <- SomeActions
  SigMasks <- SomeMasks
  HostSigs = {TRUE, FALSE}
  MaxSends = 3
  MaxFrames = 3
  MaxSets = 3
  PAGE = 2
  Pages = 3
  FileLen = 3
  MapLens = {1, 3}
  FirstCap = 2
  MaxMmanCalls = 4
  MaxWrites = 1
  TsdThreads <- TwoThreads
  KEYS_MAX = 2
  ITERATIONS = 2
  MaxKeys = 3
  MaxStores = 2
  COUNT = 2
  MaxFuncs = 6
  Chars = {"a", "b", "/", "."}
  Paths <- SomePaths
  PreopenNames <- SomePrefixes
  Dirs <- SomeDirs
  StartDirs <- SomeDirs
  StartCap = 1
  MaxPreopens = 2
  MaxChdirs = 2
  BUFSIZ = 2
  UNGET = 1
  VbufSizes = {1}
  StreamModes = {"r", "w", "r+", "a+"}
  FileContents <- SomeContents
  StreamWrites <- SomeWrites
  ReadLens = {1, 2}
  SeekOffsets = {0, 1}
  MaxStreamCalls = 4
SPECIFICATION Spec
SYMMETRY Symmetry
INVARIANTS SemTokensKept SemTokenServed
INVARIANTS SigSettled SigOneShot MmanTable TsdDestroyed ExitOrder PathReached
PROPERTIES MmanContents StreamAsPromised
CHECK_DEADLOCK FALSE
