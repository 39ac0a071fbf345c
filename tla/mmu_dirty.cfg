SPECIFICATION Spec
CONSTANTS
  NrSegs = 2
  SegPages = 1
  ApiPages = 1
  NrBats = 0
  BatPages = 1
  MaxBl = 0
  NrPtegs = 1
  NrSlots = 1
  MaxMask = 0
  MaxVsid = 0
  UtlbEntries = 1
  GenWrap = 1
  Hash <- MCHash
  BitOr <- MCBitOr
  BitAnd <- MCBitAnd
  Requests <- DirtyRequests
  IrDrValues <- DataOnOff
  Sdr1Values <- NoSdr1Change
  BatUppers = {}
  BatLowers = {}
  SegValues <- DirtySegs
  PtelValues <- DirtyPtel
  PtehValues <- DirtyPteh
INVARIANTS UtlbCoherent AccessCompletes
PROPERTIES ChangedOnlyByStores ImplementsArch
