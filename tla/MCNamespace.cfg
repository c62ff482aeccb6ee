SPECIFICATION FairSpec
CONSTANTS
  c1 = c1
  c2 = c2
  root = root
  d1 = d1
  d2 = d2
  f1 = f1
  f2 = f2
  na = na
  nb = nb
  Root = root
  Dirs = {root, d1, d2}
  Files = {f1, f2}
  Names = {na, nb}
  Clients = {c1, c2}
  Asks <- MCAsks
  NoRights <- MCNoRights
  Trees <- MCTrees
  FilesTable = FilesTable
  DirsTable = DirsTable
  None = None
  LongNames = {}
  AllRequests = FALSE
  MaxRequests = 3
CHECK_DEADLOCK FALSE
INVARIANTS
  NothingDangles
  CountsExact
PROPERTIES
  RequestsAnswered
