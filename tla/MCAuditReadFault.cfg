SPECIFICATION Spec
CONSTANTS
  Writers = {w1}
  MaxEntries = 3
  Faults = {"read"}
  Lengths = {FALSE}
INVARIANT NeverReanchored
