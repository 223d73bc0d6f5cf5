SPECIFICATION Spec
CONSTANTS
  Writers = {w1, w2}
  MaxEntries = 4
  Faults = {"read", "write"}
  Lengths = {TRUE, FALSE}
INVARIANTS EntriesRooted BrokenIffForked AckedReadable
PROPERTY ImplementsTamperEvidentLog
