SPECIFICATION MCSpec
CONSTANTS
  NrEntries = 11
  AddrWrap = 15
  Device <- Devices
  Map <- Platform3
  NoDev = NoDev
  RamDevs <- Rams
  U32 = 8
  BlkSize = 2
  MaxImage = 2
  Images <- TwoBlocks
  Rom <- OneBlock
  LoadAddrs = {0, 13, 14}
  Zero = "zero"
  Junk = "junk"
  Width = 6
  Height = 2
  WordBits = 32
  Depths = {8, 16, 64}
  ScalesX = {1, 4}
  ScalesY = {1, 2}
  FbBases = {0, 4}
  Colours = {0, 1}
  PalIdx = {0}
  ByteBits = 2
  MaxLen = 1
  MaxBits = 10
  CPU = CPU
  Thread = {CPU}
  Line <- Lines
  BufSize = 5
  Byte = {"a", "nl"}
  Newline = "nl"
  SetLog <- LogLines
  MaxSent = 4
  MaxConns = 2
  Drivers <- Guests
  Unmapped = {2}
  RegValues <- DiskRegs
  Contents <- Stored
  GpioLines = {0}
  OldFiles <- Files
INVARIANTS IntcTypeOK EiFollowsActive AnsweredByMap SavedIsTheMachine LinesAsSent
PROPERTIES EdgesAreKept CopiesTheRequest  ExchangesItsBits
CHECK_DEADLOCK FALSE
