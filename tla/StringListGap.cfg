CONSTANTS
  Strings = {s, t}
  MaxPerNode = 4
  MaxStrings = 7
SPECIFICATION Spec
INVARIANT IteratorStaysInside
