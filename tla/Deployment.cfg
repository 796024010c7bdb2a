SPECIFICATION Spec
CONSTANTS
  Releases = {"r1", "r2", "r3", "r4"}
  NoRelease = "none"
  History <- const_History
  RiverOf <- const_RiverOf
  Deployers = {"script", "bootstrap"}
  Jobs = {j1}
  Free = Free
  MaxEpoch = 2
  MaxFaults = 2
  MaxCrashes = 1
  MaxKills = 1
  MaxToggles = 1
CHECK_DEADLOCK FALSE
CONSTRAINT FewIncidents
INVARIANTS WorkIsOfTheActiveBuild ReleasesServe
PROPERTIES ActivationIsOrderly
