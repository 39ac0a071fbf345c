SPECIFICATION ConsoleSpec
CONSTANTS
  Backends = {"PTY", "TCP"}
  MaxPending = 2
  Polite = FALSE
INVARIANTS ConsoleTypeOK NoStrandedInput
PROPERTIES RisingReasonTriggers InputReported
