SPECIFICATION Spec
CONSTANTS
  install = install
  api = api
  None = none
  Paths <- MCPaths
  Titles <- MCTitles
  Navs <- MCNavs
  Depth <- MCDepth
  TitleOf <- MCTitleOf
CHECK_DEADLOCK FALSE
INVARIANTS TypeOK SectionHeadsBreadcrumb BreadcrumbIsAWay SectionsCoverPathOrder
