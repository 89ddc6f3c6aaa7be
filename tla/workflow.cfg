SPECIFICATION Spec
CONSTANTS
  c1 = c1  c2 = c2  inst = inst
  Nobody = Nobody  None = None  Unread = Unread
  Commands = {c1, c2}
  Kinds = {"start", "finish", "status", "assign", "remove"}
  Coders = {inst}
  Institutional = {inst}
  StartLabels <- MCStartLabels
  Rules = {"placeholders", "none", "undecided", "no target"}
  StartThreads <- MCStartThreads
  MaxTrouble = 1
SYMMETRY MCSymmetry
INVARIANTS TypeOK DoneIsDone NoteIsAboutNow PointerHasItsNote AnsweredOrApologised
