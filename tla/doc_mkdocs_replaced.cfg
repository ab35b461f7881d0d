SPECIFICATION Spec
CONSTANTS
  readme = readme
  guide = guide
  conf = conf
  project = project
  docs = docs
  sub = sub
  out = out
  Pages <- MCPages
  Conf = conf
  Dirs <- MCDirsBeside
  Outside = out
  Parent <- MCParentBeside
  Under <- MCUnderBeside
  CfgRoot = docs
  DocsDir = docs
  InitDirs = {docs, sub}
  Nav <- MCNav
  RelevantNames <- MCRelevant
  QueueCap = 2
  MaxChanges = 1
  DiskOps = {"replace"}
  IOFaults = FALSE
PROPERTIES MkDocsStaysWatched
