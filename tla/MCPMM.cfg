SPECIFICATION PmmSpec
CONSTANTS
  PAGE_COUNT = 9
  PMM_PAGE_SIZE = 2
  LOW_PAGE = 1
  UINT64_MAX = 31
  INFO_SIZE = 1
  NULL = NULL
  BootInfos <- MCBootInfos
INVARIANTS
  PmmTypeOK
  PagesAccounted
  CursorBelowFree
  AllocFindsFreePage
PROPERTIES
  LowestFirst
