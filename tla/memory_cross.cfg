SPECIFICATION MemorySpec
CONSTANTS
  NrRegs = 3
  ZeroCount = 8
  Count = {0, 3, 4, 12}
  Base = {0, 3, 7, 9, 12, 13}
  PageBytes = 16
  NrPages = 2
  Granule = 8
  Align = 1
INVARIANTS StoresStayInside
