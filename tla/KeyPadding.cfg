SPECIFICATION Spec
CONSTANTS
  Threads = {t1}
  HttpServer = FALSE
  Flows = {f1, f2}
  Fars = {farA, farB}
  Requests <- TwoFlows
  Seids = {1, 2}
  SeidModulus = 4
  PadValues = {0, 1}
  MaxIndexEntries = 2
  MaxRuleProg = 4
  MaxPrograms = 4
  NoFlow = NoFlow
  NoFar = NoFar
  f1 = f1
  f2 = f2
  f3 = f3
  farA = farA
  farB = farB
PROPERTIES
  AppliedOnReturn
