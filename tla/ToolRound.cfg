\* One reply of two rounds of two calls; a tool that writes, and the search.
CONSTANTS
  Loops = {"g1"}
  ReadOnly = {}
  Writing = {"write"}
  Undeclared = {}
  Search = "search"
  Modes = {"auto", "always"}
  MaxRounds = 2
  MaxCalls = 2
  Providers = 1
  Threshold = 2
  NoLoop = NoLoop
SPECIFICATION Spec
INVARIANTS
  RunsWithConsent
  StoredBeforeNext
  CircuitMatchesFailures
PROPERTIES
  LoopsEnd
