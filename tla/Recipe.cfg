SPECIFICATION Spec
CONSTANTS
  Flags <- MCFlags
  Values <- MCValues
  BySeed = BySeed
  None = None
CHECK_DEADLOCK FALSE
PROPERTY Reproducible
