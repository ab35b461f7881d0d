SPECIFICATION LifeSpec
CONSTANTS
  Delay = 3
  MaxWait = 2
  Conns = {c1, c2}
INVARIANTS LifeTypeOK CleanExit
PROPERTIES Spaced ReindexStarts StopsWhenAsked
