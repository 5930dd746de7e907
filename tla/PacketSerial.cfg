SPECIFICATION PSpec
CONSTANTS
  Threads = {t1}
  HttpServer = FALSE
  Flows = {f1, f2}
  Fars = {farA, farB, farC}
  Requests <- Sessions
  Seids = {1, 2}
  SeidModulus = 4
  PadValues = {0}
  MaxIndexEntries = 2
  MaxRuleProg = 3
  MaxPrograms = 3
  NoFlow = NoFlow
  NoFar = NoFar
  f1 = f1
  f2 = f2
  farA = farA
  farB = farB
  farC = farC
  Cpus = {c1}
  Frames <- Traffic
  Rule <- Rules
INVARIANTS
  PacketRunsRequested
  FateWasRoute
  UplinkIsDecapsulated
