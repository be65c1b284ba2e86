SPECIFICATION MCSpec
CONSTANTS
  Writers = {w1, w2}
  Readers = {r1}
  Bytes = {0, 1}
  None = None
  PIPESIZE = 2
  UMOD = 4
  MaxN = 2
  Scripts <- MCScripts
  NSLOT = 7
  MAXARGS = 3
  MaxLine = 9
  PIPECAP = 1
  MaxOut = 2
CHECK_DEADLOCK FALSE
INVARIANTS PipeSleepersJustified WiredAsWritten RunsInOrder
PROPERTIES ImplementsByteQueue PromptReturns ZombiesReaped
