SPECIFICATION Spec
CONSTANTS
  Writers = {w1, w2}
  MaxEntries = 3
  Faults = {}
  Lengths = {FALSE}
INVARIANT ChainVerifies
