SPECIFICATION Spec
CONSTANTS
  readme = readme
  guide = guide
  conf = conf
  project = project
  docs = docs
  sub = sub
  out = out
  Pages <- MCPages
  Conf = conf
  Dirs <- MCDirs
  Outside = out
  Parent <- MCParent
  Under <- MCUnder
  CfgRoot = project
  DocsDir = docs
  InitDirs = {project, docs, sub}
  Nav <- MCNav
  RelevantNames <- MCRelevant
  QueueCap = 2
  MaxChanges = 3
  DiskOps = {"write", "replace", "create", "remove"}
  IOFaults = FALSE
PROPERTIES WatchedDirsMissNothing Refreshes
