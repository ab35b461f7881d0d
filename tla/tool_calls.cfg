SPECIFICATION Spec
CONSTANTS
  home = home
  guide = guide
  slashHome = slashHome
  Pages <- MCPages
  Normalise <- MCNormalise
  Clients = {a}
  Indexes <- MCIndexes
  MaxIndexes = 4
CHECK_DEADLOCK FALSE
INVARIANTS TypeOK ShownPagesCanBeRead FullNeverStepsBack
