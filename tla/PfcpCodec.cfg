CONSTANTS
  TextOctets = 3
  LongOctets = 64
  SdfIdDigits = 4
  Kinds <- MCKinds
  Stray <- MCStray
  MaxOwnIes = 3
  MaxPeerIes = 3
  MaxPeerTop = 2
SPECIFICATION Spec
CHECK_DEADLOCK FALSE
INVARIANTS
  CodecTypeOK
  SoundMessageArrives
  UnusableIsRejected
  NothingSilentlyAltered
  
  CrashNeedsUrr
PROPERTY EveryMessageJudged
