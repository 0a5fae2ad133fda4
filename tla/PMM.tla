--------------------------------- MODULE PMM ---------------------------------
(***************************************************************************)
(* The physical page allocator, kernel/pmm.c.                              *)
(*                                                                         *)
(* The two bitmaps are sets of page numbers; the byte arithmetic on        *)
(* addresses, with its 64-bit width, is kept.  The allocator is called on  *)
(* one CPU with interrupts disabled, so every call is one atomic step.     *)
(***************************************************************************)
EXTENDS Integers, FiniteSets, FiniteSetsExt, Sequences

CONSTANTS
  PAGE_COUNT,     \* pages below PMM_LIMIT
  PMM_PAGE_SIZE,  \* bytes in a page
  LOW_PAGE,       \* first page the allocator may manage (1 MiB)
  UINT64_MAX,     \* largest value of an unsigned 64-bit integer
  INFO_SIZE,      \* sizeof(BOOT_INFO)
  BootInfos,      \* the boot information blocks pmm_init may be given
  NULL            \* no boot information accepted yet

PMM_LIMIT  == PAGE_COUNT * PMM_PAGE_SIZE
LOW_MEMORY == LOW_PAGE * PMM_PAGE_SIZE
Pages      == 0 .. PAGE_COUNT - 1
U64        == 0 .. UINT64_MAX

(* The low bits that a 64-bit register keeps of a sum or a product.        *)
Wrap(n) == n % (UINT64_MAX + 1)

(* EFI memory types the kernel tells apart (boot_info.h, UEFI).            *)
LoaderCode   == 1
LoaderData   == 2
Conventional == 7

BOOT_MEMORY_DESCRIPTOR ==
  [type : Nat, physical_start : U64, number_of_pages : U64,
   runtime : BOOLEAN, write_back : BOOLEAN]

(* header_ok stands for the comparisons of valid_boot_info that involve no *)
(* address: magic, version, size, flags, descriptor size and version, and  *)
(* alignment and size limit of the map.  self is the block's own address.  *)
BOOT_INFO ==
  [header_ok : BOOLEAN, self : U64, map : Seq(BOOT_MEMORY_DESCRIPTOR),
   memory_map : U64, memory_map_size : U64, kernel_base : U64,
   kernel_size : U64, stack_base : U64, stack_size : U64]

ASSUME PmmAssumption ==
  /\ PAGE_COUNT \in Nat \ {0}
  /\ PMM_PAGE_SIZE \in Nat \ {0}
  /\ LOW_PAGE \in Nat \ {0}
  /\ UINT64_MAX \in Nat
  /\ INFO_SIZE \in U64
  /\ PMM_LIMIT + PMM_PAGE_SIZE <= UINT64_MAX
  /\ LOW_MEMORY <= UINT64_MAX
  /\ BootInfos \subseteq BOOT_INFO
  /\ NULL \notin BootInfos

VARIABLES
  eligible,     \* pages under management
  allocated,    \* pages handed out
  total_pages,
  free_pages,
  cursor,       \* where the next search starts
  ready,
  boot_info     \* the accepted boot information; it stays in memory unchanged

pmmVars == <<eligible, allocated, total_pages, free_pages, cursor, ready, boot_info>>

-----------------------------------------------------------------------------
(* Validation of the boot information.                                     *)

(* Faulty variant: a region may run past the last address.                 *)
valid_range_unchecked(base, size) == size # 0

valid_range(base, size) == size # 0 /\ base <= UINT64_MAX - size

valid_boot_info(info) ==
  /\ info.header_ok
  /\ valid_range(info.memory_map, info.memory_map_size)
  /\ valid_range(info.kernel_base, info.kernel_size)
  /\ valid_range(info.stack_base, info.stack_size)
  /\ valid_range(info.self, INFO_SIZE)

valid_descriptor(d) ==
  /\ d.physical_start % PMM_PAGE_SIZE = 0
  /\ d.number_of_pages # 0
  /\ d.number_of_pages <= (UINT64_MAX - d.physical_start) \div PMM_PAGE_SIZE

physical_end(d) == Wrap(d.physical_start + Wrap(d.number_of_pages * PMM_PAGE_SIZE))

valid_map_ranges(info) ==
  \A i \in DOMAIN info.map :
    /\ valid_descriptor(info.map[i])
    /\ \A j \in 1 .. i - 1 :
         ~ /\ info.map[i].physical_start < physical_end(info.map[j])
           /\ info.map[j].physical_start < physical_end(info.map[i])

-----------------------------------------------------------------------------
(* The page numbers the loops of mark_usable_pages and reserve visit.      *)

usable(d) == d.type = Conventional /\ ~d.runtime

(* Faulty variant: regions are not cut off at PMM_LIMIT.                   *)
marked_pages_unclamped(d) ==
  (Max({d.physical_start, LOW_MEMORY}) \div PMM_PAGE_SIZE)
    .. ((physical_end(d) \div PMM_PAGE_SIZE) - 1)

marked_pages(d) ==
  LET begin == Max({d.physical_start, LOW_MEMORY})
      end   == Min({physical_end(d), PMM_LIMIT})
  IN  (begin \div PMM_PAGE_SIZE) .. ((end \div PMM_PAGE_SIZE) - 1)

mark_usable_pages(info) ==
  UNION {marked_pages(info.map[i]) : i \in {k \in DOMAIN info.map : usable(info.map[k])}}

reserve(base, size) ==
  IF base >= PMM_LIMIT
  THEN {}
  ELSE LET end == Min({Wrap(base + size), PMM_LIMIT})
       IN  (base \div PMM_PAGE_SIZE) .. (((end + PMM_PAGE_SIZE - 1) \div PMM_PAGE_SIZE) - 1)

reserve_boot_regions(info) ==
  UNION {reserve(info.kernel_base, info.kernel_size),
         reserve(info.self, INFO_SIZE),
         reserve(info.memory_map, info.memory_map_size),
         reserve(info.stack_base, info.stack_size)}

-----------------------------------------------------------------------------
PmmInit ==
  /\ eligible = {} /\ allocated = {}
  /\ total_pages = 0 /\ free_pages = 0 /\ cursor = 0
  /\ ready = FALSE
  /\ boot_info = NULL

accepts(info) == ~ready /\ valid_boot_info(info) /\ valid_map_ranges(info)

pmm_init(info) ==
  \/ /\ accepts(info)
     /\ eligible' = (eligible \cup mark_usable_pages(info)) \ reserve_boot_regions(info)
     /\ total_pages' = total_pages + Cardinality(eligible')
     /\ free_pages' = total_pages'
     /\ ready' = TRUE
     /\ boot_info' = info
     /\ UNCHANGED <<allocated, cursor>>
  \/ ~accepts(info) /\ UNCHANGED pmmVars

(* The page the search looks at after skipping `scanned' pages.            *)
probe(scanned) == (cursor + scanned) % PAGE_COUNT

is_free(page) == page \in eligible /\ page \notin allocated

(* The search loop of pmm_alloc stops at this page.                        *)
first_free(page) ==
  \E scanned \in 0 .. PAGE_COUNT - 1 :
    /\ page = probe(scanned)
    /\ is_free(page)
    /\ \A earlier \in 0 .. scanned - 1 : ~is_free(probe(earlier))

alloc_finds(page) == ready /\ free_pages # 0 /\ first_free(page)

(* A successful pmm_alloc that stores page * PMM_PAGE_SIZE in *address.    *)
pmm_alloc(page) ==
  /\ alloc_finds(page)
  /\ allocated' = allocated \cup {page}
  /\ free_pages' = free_pages - 1
  /\ cursor' = (page + 1) % PAGE_COUNT
  /\ UNCHANGED <<eligible, total_pages, ready, boot_info>>

(* A pmm_alloc that returns false and leaves *address alone.               *)
pmm_alloc_fails ==
  /\ \A page \in Pages : ~alloc_finds(page)
  /\ UNCHANGED pmmVars

pmm_is_allocated(address) ==
  /\ ready /\ address < PMM_LIMIT /\ address % PMM_PAGE_SIZE = 0
  /\ address \div PMM_PAGE_SIZE \in eligible
  /\ address \div PMM_PAGE_SIZE \in allocated

(* Faulty variant: a page that is already free may be freed again.         *)
frees_twice(address) ==
  /\ ready /\ address % PMM_PAGE_SIZE = 0 /\ address < PMM_LIMIT
  /\ address \div PMM_PAGE_SIZE \in eligible

frees(address) ==
  /\ ready /\ address % PMM_PAGE_SIZE = 0 /\ address < PMM_LIMIT
  /\ address \div PMM_PAGE_SIZE \in eligible
  /\ address \div PMM_PAGE_SIZE \in allocated

(* Faulty variant: the search does not go back to the freed page.          *)
pmm_free_keeps_cursor(address) ==
  \/ /\ frees(address)
     /\ allocated' = allocated \ {address \div PMM_PAGE_SIZE}
     /\ free_pages' = free_pages + 1
     /\ UNCHANGED <<cursor, eligible, total_pages, ready, boot_info>>
  \/ ~frees(address) /\ UNCHANGED pmmVars

pmm_free(address) ==
  \/ LET page == address \div PMM_PAGE_SIZE IN
     /\ frees(address)
     /\ allocated' = allocated \ {page}
     /\ free_pages' = free_pages + 1
     /\ cursor' = IF page < cursor THEN page ELSE cursor
     /\ UNCHANGED <<eligible, total_pages, ready, boot_info>>
  \/ ~frees(address) /\ UNCHANGED pmmVars

PmmNext ==
  \/ \E info \in BootInfos : pmm_init(info)
  \/ \E page \in Pages : pmm_alloc(page)
  \/ pmm_alloc_fails
  \/ \E address \in U64 : pmm_free(address)

PmmSpec == PmmInit /\ [][PmmNext]_pmmVars

-----------------------------------------------------------------------------
(* Every variable has its type; in particular no bitmap has a bit outside  *)
(* the managed pages, which would be a store outside the bitmap array of   *)
(* pmm.c (set, clear), and the cursor is a page (pmm_alloc, pmm_free).     *)
PmmTypeOK ==
  /\ eligible \subseteq Pages
  /\ allocated \subseteq Pages
  /\ total_pages \in Nat
  /\ free_pages \in Nat
  /\ cursor \in Pages
  /\ ready \in BOOLEAN
  /\ boot_info \in BootInfos \cup {NULL}

(* The counters printed by the console's mem command agree with the        *)
(* bitmaps, and nothing outside the managed pages is ever handed out,      *)
(* whatever addresses pmm_free is called with and however often pmm_init   *)
(* is called again (the ++ and -- of pmm_init, pmm_alloc and pmm_free).    *)
PagesAccounted ==
  /\ allocated \subseteq eligible
  /\ total_pages = Cardinality(eligible)
  /\ free_pages = Cardinality(eligible \ allocated)

(* No free page lies below the cursor: pmm_free moves it back and          *)
(* pmm_alloc never moves it past a free page.                              *)
CursorBelowFree == \A page \in eligible : page < cursor => page \in allocated

(* pmm_available() > 0 guarantees that the search of pmm_alloc succeeds:   *)
(* the `return false' after its loop is dead code.                         *)
AllocFindsFreePage ==
  ready /\ free_pages # 0 => \E page \in Pages : first_free(page)

(* Pages are handed out lowest address first, across every wrap-around of  *)
(* the cursor and every free.  pmm_boot_check depends on it: it expects    *)
(* the page it just freed to come back (pmm_check.c, again != pages[1]).   *)
LowestFirst ==
  [][\A page \in allocated' \ allocated :
       \A other \in eligible \ allocated : page <= other]_pmmVars

(* Nothing is managed before pmm_init succeeds: it accumulates into        *)
(* total_pages and the bitmaps, and relies on finding them zero (BSS).     *)
UntouchedBeforeInit == ~ready => eligible = {} /\ cursor = 0

(* The inductive invariant of the allocator.                               *)
PmmInv == PmmTypeOK /\ PagesAccounted /\ CursorBelowFree /\ UntouchedBeforeInit

(* The bytes of a region and of a page.                                    *)
RegionBytes(base, size) == base .. base + size - 1
PageBytes(page) == page * PMM_PAGE_SIZE .. (page + 1) * PMM_PAGE_SIZE - 1

(* Once pmm_init has accepted a map, the managed pages are exactly those   *)
(* at or above 1 MiB that lie in one conventional, non-runtime region and  *)
(* share no byte with the kernel, the boot information, the memory map or  *)
(* the stack, for regions and maps up to the last representable address.   *)
EligibleExact ==
  ready =>
    eligible = {page \in LOW_PAGE .. PAGE_COUNT - 1 :
      /\ \E i \in DOMAIN boot_info.map :
           LET d == boot_info.map[i] IN
           /\ usable(d)
           /\ PageBytes(page) \subseteq
                RegionBytes(d.physical_start, d.number_of_pages * PMM_PAGE_SIZE)
      /\ \A r \in {<<boot_info.kernel_base, boot_info.kernel_size>>,
                   <<boot_info.self, INFO_SIZE>>,
                   <<boot_info.memory_map, boot_info.memory_map_size>>,
                   <<boot_info.stack_base, boot_info.stack_size>>} :
           PageBytes(page) \cap RegionBytes(r[1], r[2]) = {}}
=============================================================================
