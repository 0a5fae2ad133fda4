SPECIFICATION Spec
CONSTANTS
  PAGE = 2
  IMAGE_LOW = 4
  IMAGE_TOP = 16
  MAX_SPAN = 6
  HEADER_SIZE = 2
  PROGRAM_SIZE = 1
  PH_ALIGN = 2
  MAX_PROGRAMS = 3
  ELF_MAX = 31
  ADDRESS_MAX = 999423
  Files <- MCFiles
  MAX_FILE = 6
  MAX_ATTEMPTS = 3
  HandoffBases = {4096, 856064}
  MaxMapChanges = 2
  NULL = NULL
INVARIANTS
  LoadedImageExact
  NothingLeaked
  FirmwareLeftAlone
  HandoffComplete
PROPERTIES
  LoaderDecides
