SPECIFICATION Spec
CONSTANTS
  Plans = {"OMMF", "USDY", "Mantle", "OUSGProd", "OUSGStaging", "Local"}
  MaxMishaps = 1
  Mishandled <- FirstScripts
INVARIANTS
  CompleteIsOperational
  NoDeadProposal
  ManagersMatchTheirTokens
CHECK_DEADLOCK FALSE
PROPERTY RolloutCompletes
