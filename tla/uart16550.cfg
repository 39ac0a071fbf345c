SPECIFICATION UartSpec
CONSTANTS
  MaxPending = 2
  MaxTx = 3
INVARIANTS RestsOnlyWhenDone
PROPERTIES InputIsRead
