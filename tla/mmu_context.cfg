SPECIFICATION Spec
CONSTANTS
  NrSegs = 1
  SegPages = 4
  ApiPages = 1
  NrBats = 1
  BatPages = 1
  MaxBl = 1
  NrPtegs = 1
  NrSlots = 1
  MaxMask = 0
  MaxVsid = 0
  UtlbEntries = 1
  GenWrap = 2
  Hash <- MCHash
  BitOr <- MCBitOr
  BitAnd <- MCBitAnd
  Requests <- ContextRequests
  IrDrValues <- AllOnOff
  Sdr1Values <- NoSdr1Change
  BatUppers <- ContextUppers
  BatLowers <- ContextLowers
  SegValues <- ContextSegs
  PtelValues <- ContextPtel
  PtehValues <- ContextPteh
INVARIANTS TypeOK UtlbCoherent
PROPERTIES GenerationCoversMappings ImplementsArch
