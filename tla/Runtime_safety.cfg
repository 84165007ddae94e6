CONSTANTS
  Models = {m1, m2}
  Defaults = {m1, NoModel}
  Switchers = {s1, s2}
  Projected = {m1}
  MaxCrashes = 1
  MaxExits = 2
  NoModel = NoModel
SPECIFICATION Spec
SYMMETRY Symmetry
CHECK_DEADLOCK FALSE
INVARIANTS
  OneSwitchAtATime
  NoLimbo
  
PROPERTIES
  SuccessNamesCurrentModel
