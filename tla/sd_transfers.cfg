SPECIFICATION MCSpec
CONSTANTS
  Value = {zeros, info}
  Zero = zeros
  Info = info
  Cmd = {0, 17, 25, 51, 55}
  MaxLba = 1
  MaxCount = 2
  MaxBlocks = 2
  Masks <- AllOrNone
  Wrap = 8
INVARIANTS RequestsAnswered OrderWasAccepted
PROPERTIES ImplementsStore CompletionInterrupts
