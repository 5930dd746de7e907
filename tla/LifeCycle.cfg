SPECIFICATION Spec
CONSTANTS
  Interfaces = {if1, if2}
  Empty = Empty
  Unknown = Unknown
  MaxSetups = 3
  SignalThreads = {"handler"}
  Interrupts = {"SIGINT", "SIGTERM"}
  if1 = if1
  if2 = if2
INVARIANTS
  UserPlaneTypeOK
  LinkedIsLive
  LinksAccounted
  UnlinksOwn
  ExitLeavesOnlyUnrecorded
PROPERTIES
  DestroyedIsReleased
CHECK_DEADLOCK FALSE
