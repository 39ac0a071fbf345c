SPECIFICATION ConsoleSpec
CONSTANTS
  Backends = {"PTY"}
  MaxPending = 1
  Polite = TRUE
PROPERTIES RxneReadReturns
