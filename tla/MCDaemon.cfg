SPECIFICATION Spec
CONSTANTS
  Rank <- MCRank
  OctetSize = 32
  Installations <- MCInstallations
  RootFile = "root"
  Threads = {t1, t2}
  Handlers = {h1, h2}
  MaxLogs = 3
  MaxFd = 9
SYMMETRY MCSymmetry
INVARIANTS
  TypeOK
  DictionaryAsDeclared
  ConfigurationAsWritten
  LogFollowsRotation
  ConnectionsIntact
CHECK_DEADLOCK FALSE
