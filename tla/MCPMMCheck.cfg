SPECIFICATION Spec
CONSTANTS
  PAGE_COUNT = 7
  PMM_PAGE_SIZE = 2
  LOW_PAGE = 1
  UINT64_MAX = 16
  INFO_SIZE = 1
  NULL = NULL
  BootInfos <- MCBootInfos
INVARIANTS
  NoFalseAlarm
  TestLeavesNoTrace
