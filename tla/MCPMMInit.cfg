SPECIFICATION InitOnlySpec
CONSTANTS
  PAGE_COUNT = 4
  PMM_PAGE_SIZE = 2
  LOW_PAGE = 1
  UINT64_MAX = 15
  INFO_SIZE = 1
  NULL = NULL
  BootInfos <- MCBootInfos
INVARIANTS
  EligibleExact
CHECK_DEADLOCK FALSE
