SPECIFICATION Spec
CONSTANTS
  Writers = {w1}
  MaxEntries = 3
  Faults = {}
  Lengths = {TRUE, FALSE}
INVARIANT RefusedOnlyCorrupt
