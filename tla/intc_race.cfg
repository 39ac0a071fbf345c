SPECIFICATION IntcSpec
CONSTANTS
  CPU = CPU
  Thread = {CPU, listener}
  Line <- UartOnly
INVARIANTS EiFollowsActive
