SPECIFICATION Spec
CONSTANTS
  i1 = i1  i2 = i2  i3 = i3  i4 = i4
  c1 = c1  c2 = c2  None = None  Free = Free
  Commands = {c1, c2}
  Issues = {i1, i2, i3, i4}
  Unlisted = {i4}
  Tampered = {i3}
  Arguments <- MCArguments
  OldRows <- MCOldRows
  StartChecks <- MCStartChecks
  Largest = 9
  MaxJump = 2
  FirstYear = 1
  LastYear = 2
  Vouched = {c2}
  Faults = {"read", "refused write", "lost answer", "title", "label"}
  MaxFaults = 1
INVARIANTS TypeOK NoTwoChecksWhenWhole
PROPERTIES NextIsPastEveryClaim EveryReservationEnds
