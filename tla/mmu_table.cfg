SPECIFICATION Spec
CONSTANTS
  NrSegs = 1
  SegPages = 4
  ApiPages = 2
  NrBats = 0
  BatPages = 1
  MaxBl = 0
  NrPtegs = 4
  NrSlots = 1
  MaxMask = 1
  MaxVsid = 3
  UtlbEntries = 1
  GenWrap = 1
  Hash <- MCHash
  BitOr <- MCBitOr
  BitAnd <- MCBitAnd
  Requests = {}
  IrDrValues = {}
  Sdr1Values <- TableSdr1
  BatUppers = {}
  BatLowers = {}
  SegValues <- TableSegs
  PtelValues <- TablePtel
  PtehValues <- TablePteh
INVARIANTS WalkIsInjective
