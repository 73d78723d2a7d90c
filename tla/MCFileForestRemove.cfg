SPECIFICATION Spec
CONSTANTS
  Session = {"s1", "s2"}
  User = {"ana", "bob"}
  Wild = {"_", "%"}
  Many = {"%"}
  Typed <- Removals
  World <- JustBoth
  UniqueNames = TRUE
  MaxRow <- FourRows
  MaxFailures <- NoFailures
  Nobody = Nobody
PROPERTY RemovesItsSubtree
