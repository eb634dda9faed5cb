SPECIFICATION Spec
CONSTANTS
  Call = {"c1", "c2"}
  Code = {"", "python", "kotlin", "haskell"}
  Length = {4, 5, 1024, 1025}
  None = None
CHECK_DEADLOCK FALSE
INVARIANTS
  ListedIsServed
