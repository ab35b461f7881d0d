SPECIFICATION SearchSpec
CONSTANTS
  MaxContent = 60
  MaxLower = 60
  maxLen = 16
  Words <- MCWords
  Lower <- MCLower
  Fold <- MCFold
  Plain <- MCPlain
  First <- MCFirst
  Parts <- MCParts
  Size <- MCSize
  Inside <- MCInside
  StopWords = {"the"}
  Pages <- MCPages
  PathWords <- MCPathWords
  FileTitle <- MCFileTitle
  MaxKeywords = 3
  Library <- MCLibrary
  NavLists <- MCNavLists
  Queries <- MCQueries
  Limits <- MCLimits
  MaxResults = 3
  Split <- MCSplit
  Dist <- MCDist
CHECK_DEADLOCK FALSE
INVARIANTS SearchTypeOK ResultsRanked ProseFound KeywordsAreTop RelatedMutual
           WindowInContent MatchShown WholeWords
