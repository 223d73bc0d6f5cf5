SPECIFICATION FairSpec
CONSTANTS
  c1 = c1
  c2 = c2
  Callers = {c1, c2}
  Routes = {"stalls"}
  Props <- MCProps
  Board <- MCBoard
  Assigned <- MCAssigned
  Free = {1, 2}
  Faults = {"refuse", "torn", "unterminated", "issue", "restart"}
  Replies = {"demo"}
  MaxButtons = 1
  MaxMishaps = 1
INVARIANTS MarkedOnFeed FloodBounded PreauthBacked
PROPERTY Surfaced
