CONSTANTS
  Models = {m1, m2}
  Defaults = {m1}
  Switchers = {s1, s2}
  Projected = {m1}
  MaxCrashes = 0
  MaxExits = 0
  NoModel = NoModel
SPECIFICATION FairSpec
CHECK_DEADLOCK FALSE
PROPERTIES
  SwitchesEnd
