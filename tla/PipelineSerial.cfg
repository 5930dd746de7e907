SPECIFICATION FairSpec
CONSTANTS
  Threads = {t1}
  HttpServer = FALSE
  Flows = {f1, f2, f3}
  Fars = {farA, farB}
  Requests <- AllRequests
  Seids = {1, 2, 3}
  SeidModulus = 2
  PadValues = {0}
  MaxIndexEntries = 2
  MaxRuleProg = 4
  MaxPrograms = 4
  NoFlow = NoFlow
  NoFar = NoFar
  f1 = f1
  f2 = f2
  f3 = f3
  farA = farA
  farB = farB
INVARIANTS
  TypeOK
  RoutesRequested
  PipelineIntact
  ArpGoesToOwnProgram
PROPERTIES
  StepTouchesOwnFlow
  AppliedOnReturn
  ImplementsFlowTable
