SPECIFICATION Spec
CONSTANTS
  c1 = c1  c2 = c2  c3 = c3  d1 = d1  d2 = d2
  ann = ann  bob = bob  eve = eve  id1 = id1
  Nobody = Nobody  NoIdentifier = NoIdentifier  Free = Free
  People = {ann, bob, eve}
  Identifiers = {id1}
  Commands = {c1, c2}
  Deployments = {d1}
  DeploymentOf <- MCOneDeployment
  Operations <- MCOperations
  StartRecords <- MCStartRecords
  HandEdits <- MCHandEdits
  Signs = TRUE
  Editors = {eve}
  Outsiders = {}
  MaxTries = 2
  MaxEdits = 2
  MaxFaults = 2
INVARIANTS TypeOK NoLostUpdate TrustedIsConflictFree
PROPERTIES EveryCommandEnds ImplementsStore
