SPECIFICATION FairSpec
CONSTANTS
  Interfaces = {if1, if2}
  Empty = Empty
  Unknown = Unknown
  MaxSetups = 1
  SignalThreads = {"handler"}
  Interrupts = {"SIGINT"}
  if1 = if1
  if2 = if2
PROPERTIES
  SignalEnds
CHECK_DEADLOCK FALSE
