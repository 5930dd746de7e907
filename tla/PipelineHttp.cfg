SPECIFICATION FairSpec
CONSTANTS
  Threads = {t1, t2}
  HttpServer = TRUE
  Flows = {f1, f2}
  Fars = {farA, farB}
  Requests <- TwoFlows
  Seids = {1, 2}
  SeidModulus = 4
  PadValues = {0}
  MaxIndexEntries = 2
  MaxRuleProg = 3
  MaxPrograms = 3
  NoFlow = NoFlow
  NoFar = NoFar
  f1 = f1
  f2 = f2
  f3 = f3
  farA = farA
  farB = farB
INVARIANTS
  IndexedIsForwarded
  MixUpNeedsSharedId
  IntactUnlessShared
PROPERTIES
  OwnFlowUnlessShared
  BlackholeEnds
CHECK_DEADLOCK FALSE
