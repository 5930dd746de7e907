SPECIFICATION Spec
CONSTANTS
  Seids = {1, 2, 5}
  RuledSeids = {5}
  SeidModulus = 4
  Teids = {7}
  Ues = {8}
  FarIds = {1}
  Hops = {9, 10}
  Pdrs <- Rules
  Fars <- Actions
  Frames <- Traffic
  Cpus = {c1}
  IndexValues = {0, 1}
  NoPdr = NoPdr
  NoFar = NoFar
  MaxRules = 1
  MaxArp = 1
  MaxPrograms = 2
INVARIANTS
  SessionTypeOK
  EntriesLive
  LiveIsAccounted
  AbortsNeedLostInterface
  RedirectedShape
  QuietPacketFollowsRules
CHECK_DEADLOCK FALSE
