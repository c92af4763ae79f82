SPECIFICATION StartSpec
CONSTANTS
  StorageTypes = {"mysql", "es", "elasticsearch"}
  VectorTypes = {"mysql", "elasticsearch"}
INVARIANT SubAgentsHaveTheirTools
CHECK_DEADLOCK FALSE
