SPECIFICATION CheckSpec
CONSTANTS
  PAGE_COUNT = 48
  PMM_PAGE_SIZE = 2
  LOW_PAGE = 1
  UINT64_MAX = 127
  INFO_SIZE = 1
  NULL = NULL
  BootInfos <- MCBootInfos
  MAX_TABLES = 16
  TABLE_ENTRIES = 4
  Text = {1}
  Rodata = {2}
  DfGuards = {4, 6}
  Windows <- MCWindows
  Outside <- MCOutside
  V <- MCV
  Other <- MCOther
  BeyondWindow <- MCBeyond
  FlagSets = {}
  MaxOwned = 1
INVARIANTS
  PagingTypeOK
  IdentityMapExact
  FailedInitLeavesNothing
  PagingSelfTestSound
