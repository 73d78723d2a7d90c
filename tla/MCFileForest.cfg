SPECIFICATION Spec
CONSTANTS
  Session = {"s1", "s2"}
  User = {"ana", "bob"}
  Wild = {"_", "%"}
  Many = {"%"}
  Typed <- All
  World <- AllWorlds
  UniqueNames = TRUE
  MaxRow <- Rows
  MaxFailures <- Failures
  Nobody = Nobody
INVARIANTS TreesConsistent WorksInOwnTree AccountsHaveOneRoot NoTwins NoOrphans
PROPERTIES RemovesPlainSubtree
