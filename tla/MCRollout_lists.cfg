SPECIFICATION Spec
CONSTANTS
  Plans = {"USDY"}
  MaxMishaps = 0
  Mishandled <- FirstScripts
INVARIANT ListConfigurersAsChecked
CHECK_DEADLOCK FALSE
