SPECIFICATION Spec
CONSTANTS
  home = home
  guide = guide
  slashHome = slashHome
  Pages <- MCPages
  Normalise <- MCNormalise
  Clients = {a}
  Indexes <- MCFilledIndexes
  MaxIndexes = 2
INVARIANTS SearchWithinArray
