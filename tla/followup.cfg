SPECIFICATION Spec
CONSTANTS
  newcomer = newcomer  other = other
  Nobody = Nobody  None = None
  Newcomer = newcomer
  Other = other
  Scenes <- MCScenes
  RemindAfter = 2  MostReminders = 2
  ArchiveEvery = 2  MostArchive = 3
  QuietAfter = 2  MostQuiet = 2
  RecentlyClosed = 7
  DueIn = 2
  MaxHands = 3
  MaxFaults = 1
INVARIANTS TypeOK NeverTooOften
PROPERTIES Spaced PromisesAreKept ArchiveComesToAnEnd
