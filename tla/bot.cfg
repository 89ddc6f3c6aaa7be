SPECIFICATION Spec
CONSTANTS
  Scenes = {"teams", "commands", "links", "announce", "collections", "membership", "rules"}
  d1 = d1  d2 = d2  p = p  q = q
  Team <- MCTeam
  People = {p, q}
  Delivery = {d1}
  Startup = startup
  Asker <- MCAsker
  Nobody = Nobody  Never = Never
  TTL = 2  RetryAfterFailure = 1  ReadTime = 1  MaxTime = 3  MaxChanges = 1
  Bot = chekhovbot  NoEvent = NoEvent  AdminIssue = 1  Recorded = p  MaxTrouble = 1
  Silent = Silent  Unasked = Unasked  NoRow = NoRow  MaxSilent = 1  Jobs <- MCJobs
  Link <- MCLink  HostOf <- MCHostOf  IsDOI = {l3}  SkipHosts = {hidden}  Deposit = {z1}
  LinksIn <- MCLinksIn  Mentions <- MCMentions  LinksInFlight = 2  LinksPerHost = 1
  WorthANotice = 3  Worlds <- MCWorlds
  l1 = l1  l2 = l2  l3 = l3  l4 = l4  z1 = z1  host = host  doi = doi  hidden = hidden
  Announcer = {d1, d2}  Editions = 2  MaxAmiss = 2
  a1 = a1  a2 = a2  a3 = a3  Follower <- MCFollower  Account <- MCAccount  Titles <- MCTitles
  Named <- MCNamed  MaxCollectionItems = 2  MaxAnswers = 1  MaxWrong = 1
  Joiner = {d1}  Sweep = sweep  Ordinary = Ordinary  Institutional = Institutional
  Unmanaged = Unmanaged  NoTeam = NoTeam  MaxMoves = 2  MaxAway = 1
INVARIANTS TypeOK GrantIsRecent RefreshSeesTheChange OwnCommandIsOffered VerdictIsTheSites
INVARIANTS AnnouncedOnce SilenceIsNoVerdict OneReportOneWorld NothingIsProposedUnjudged
PROPERTIES AskedOnce WritesAreNoGuess EverythingEnds
CHECK_DEADLOCK FALSE
