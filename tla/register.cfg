SPECIFICATION Spec
CONSTANTS
  c1 = c1  c2 = c2  r1 = r1  r2 = r2  o1 = o1  o2 = o2
  None = None
  Commands = {c1, c2}
  Rows = {r1, r2}
  Others = {o1, o2}
  StartStates <- MCStartStates
  MaxHands = 2
  MaxFaults = 2
INVARIANTS TypeOK BranchAddsOneRow PullIsNeverEmpty OnlyAPushAfterTheLookIsLost DoneMeansProposed
