CONSTANTS
  PdrIds = {1, 2}
  FarIds = {1, 2}
  Precedences = {1, 2}
  f1 = f1
  f2 = f2
  Flows <- MCFlows
  Destinations = {0, 1}
  Headers = {0, 1}
  CreatePdrs <- MCCreatePdrs
  CreateFars <- MCCreateFars
  UpdatePdrs <- MCUpdatePdrs
  UpdateFars <- MCUpdateFars
  UniqueIds = TRUE
  MaxRules = 2
  None = None
SPECIFICATION Spec
INVARIANT PfcpTypeOK
PROPERTIES ImplementsRuleTable DeployedIsHighest
