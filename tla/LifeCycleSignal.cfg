SPECIFICATION FairSpec
CONSTANTS
  Interfaces = {if1, if2}
  Empty = Empty
  Unknown = Unknown
  MaxSetups = 2
  SignalThreads = {"other"}
  Interrupts = {"SIGINT"}
  if1 = if1
  if2 = if2
INVARIANTS
  WaitedForRuns
PROPERTIES
  SignalEndsOrHangs
CHECK_DEADLOCK FALSE
