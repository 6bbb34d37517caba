SPECIFICATION Spec
CONSTANTS
  Servers = {"a", "b"}
  Groups = {1}
  Flushes = FALSE
  MaxIndex = 3
  MaxImages = 2
INVARIANT EngineMatchesApplied
CHECK_DEADLOCK FALSE
