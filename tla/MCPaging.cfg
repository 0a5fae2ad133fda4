SPECIFICATION Spec
CONSTANTS
  PAGE_COUNT = 20
  PMM_PAGE_SIZE = 2
  LOW_PAGE = 1
  UINT64_MAX = 63
  INFO_SIZE = 1
  NULL = NULL
  BootInfos <- MCBootInfos
  MAX_TABLES = 9
  TABLE_ENTRIES = 32
  Text = {1}
  Rodata = {2}
  DfGuards = {4, 6}
  Windows <- MCWindows
  Outside <- MCOutside
  FlagSets <- MCFlagSets
  MaxOwned = 2
INVARIANTS
  PagesHaveOneOwner
  TablesFormTree
  CachedTableLive
  CacheCoherent
  WindowShowsOwnedPages
PROPERTIES
  WindowIsMap
