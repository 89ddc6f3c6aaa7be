SPECIFICATION Spec
CONSTANTS
  w1 = w1  w2 = w2  w3 = w3
  Free = Free
  Writers = {w1, w2, w3}
  Interval = 2
  RetryWait = 1
  MaxWait = 3
  SecondaryPause = 2
  Patience <- MCPatience
INVARIANTS TypeOK OneWriteAtATime
PROPERTIES Spaced EveryWriteEnds
