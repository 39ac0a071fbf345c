SPECIFICATION CoreSpec
CONSTANTS
  Task = {t1, t2}
  Program <- MixedProgram
  StartMsr <- ResetMsr
  KernelWord = "other"
  MaxDec = 1
  Values = 2
INVARIANTS  LlScAtomic ExactlyOnce
PROPERTIES TimerFires
