------------------------------ MODULE PMMProofs ------------------------------
(***************************************************************************)
(* The allocator of kernel/pmm.c is correct for every memory size, page    *)
(* size, register width and set of boot maps: proofs about module PMM.     *)
(***************************************************************************)
EXTENDS PMM, TLAPS, FiniteSetTheorems, NaturalsInduction, WellFoundedInduction

-----------------------------------------------------------------------------
(* The arithmetic of the bitmaps.                                          *)

(* The smaller of two integers, as mark_usable_pages and reserve compute it. *)
LEMMA MinOfTwo ==
  ASSUME NEW a \in Int, NEW b \in Int
  PROVE  Min({a, b}) \in {a, b} /\ Min({a, b}) <= a /\ Min({a, b}) <= b
<1>1. \E x \in {a, b} : \A y \in {a, b} : x =< y
  <2>1. CASE a <= b
    BY <2>1
  <2>2. CASE ~(a <= b)
    BY <2>2
  <2>. QED BY <2>1, <2>2
<1>. QED BY <1>1 DEF Min

(* The larger of two integers, as mark_usable_pages computes it.           *)
LEMMA MaxOfTwo ==
  ASSUME NEW a \in Int, NEW b \in Int
  PROVE  Max({a, b}) \in {a, b} /\ Max({a, b}) >= a /\ Max({a, b}) >= b
<1>1. \E x \in {a, b} : \A y \in {a, b} : x >= y
  <2>1. CASE a >= b
    BY <2>1
  <2>2. CASE ~(a >= b)
    BY <2>2
  <2>. QED BY <2>1, <2>2
<1>. QED BY <1>1 DEF Max

(* Every byte below the limit lies in a page of the bitmap.                *)
LEMMA DivBound ==
  ASSUME NEW e \in Nat, NEW n \in Nat, NEW s \in Nat \ {0}, e <= n * s
  PROVE  e \div s \in 0 .. n
BY SMTT(20)

(* An address register holds a natural number.                             *)
LEMMA WrapNat ==
  ASSUME NEW n \in Nat
  PROVE  Wrap(n) \in Nat
BY PmmAssumption, SMTT(20) DEF Wrap

(* The end of a descriptor is an address, whatever the descriptor says.    *)
LEMMA PhysicalEndNat ==
  ASSUME NEW d \in BOOT_MEMORY_DESCRIPTOR
  PROVE  physical_end(d) \in Nat
<1>1. d.physical_start \in Nat /\ d.number_of_pages \in Nat
  BY PmmAssumption DEF BOOT_MEMORY_DESCRIPTOR, U64
<1>2. d.number_of_pages * PMM_PAGE_SIZE \in Nat
  BY <1>1, PmmAssumption, SMTT(20)
<1>3. Wrap(d.number_of_pages * PMM_PAGE_SIZE) \in Nat
  BY <1>2, WrapNat
<1>. QED BY <1>1, <1>3, WrapNat DEF physical_end

(* The loop of mark_usable_pages stays inside the bitmap.                  *)
LEMMA MarkedPagesInside ==
  ASSUME NEW d \in BOOT_MEMORY_DESCRIPTOR
  PROVE  marked_pages(d) \subseteq Pages
<1>. DEFINE begin == Max({d.physical_start, LOW_MEMORY})
            end   == Min({physical_end(d), PMM_LIMIT})
<1>1. d.physical_start \in Nat
  BY PmmAssumption DEF BOOT_MEMORY_DESCRIPTOR, U64
<1>2. LOW_MEMORY \in Nat /\ PMM_LIMIT \in Nat
  BY PmmAssumption, SMTT(20) DEF LOW_MEMORY, PMM_LIMIT
<1>3. begin \in Nat
  <2>1. d.physical_start \in Int /\ LOW_MEMORY \in Int
    BY <1>1, <1>2
  <2>2. begin \in {d.physical_start, LOW_MEMORY}
    BY <2>1, MaxOfTwo, Zenon
  <2>. HIDE DEF begin
  <2>. QED BY <1>1, <1>2, <2>2
<1>4. end \in Nat /\ end <= PMM_LIMIT
  BY <1>2, PhysicalEndNat, MinOfTwo
<1>5. end \div PMM_PAGE_SIZE \in 0 .. PAGE_COUNT
  BY <1>4, DivBound, PmmAssumption DEF PMM_LIMIT
<1>6. begin \div PMM_PAGE_SIZE \in Nat
  BY <1>3, PmmAssumption, SMTT(20)
<1>7. marked_pages(d) = (begin \div PMM_PAGE_SIZE) .. ((end \div PMM_PAGE_SIZE) - 1)
  BY DEF marked_pages
<1>. HIDE DEF begin, end
<1>. QED BY <1>5, <1>6, <1>7, PmmAssumption DEF Pages

(* So does the loop over all descriptors.                                  *)
LEMMA MarkUsableInside ==
  ASSUME NEW info \in BootInfos
  PROVE  mark_usable_pages(info) \subseteq Pages
<1>1. info.map \in Seq(BOOT_MEMORY_DESCRIPTOR)
  BY PmmAssumption DEF BOOT_INFO
<1>2. \A i \in DOMAIN info.map : marked_pages(info.map[i]) \subseteq Pages
  BY <1>1, MarkedPagesInside
<1>. QED BY <1>2 DEF mark_usable_pages

(* The bitmaps are finite.                                                 *)
LEMMA PagesFinite == IsFiniteSet(Pages)
BY FS_Interval, PmmAssumption DEF Pages

-----------------------------------------------------------------------------
(* The initial state: every object of pmm.c is zero (BSS).                 *)
LEMMA PmmInitInv == PmmInit => PmmInv
<1>. SUFFICES ASSUME PmmInit PROVE PmmInv
  OBVIOUS
<1>1. PmmTypeOK
  <2>1. 0 \in Pages
    BY PmmAssumption DEF Pages
  <2>. QED BY <2>1 DEF PmmInit, PmmTypeOK
<1>2. PagesAccounted
  BY FS_EmptySet DEF PmmInit, PagesAccounted
<1>3. CursorBelowFree /\ UntouchedBeforeInit
  BY DEF PmmInit, CursorBelowFree, UntouchedBeforeInit
<1>. QED BY <1>1, <1>2, <1>3 DEF PmmInv

(* pmm_init preserves the invariant.                                       *)
LEMMA InitStep ==
  ASSUME PmmInv, NEW info \in BootInfos, pmm_init(info)
  PROVE  PmmInv'
<1>. USE DEF PmmInv
<1>1. CASE ~accepts(info)
  <2>1. UNCHANGED pmmVars
    BY <1>1 DEF pmm_init
  <2>. QED BY <2>1 DEF pmmVars, PmmTypeOK, PagesAccounted, CursorBelowFree, UntouchedBeforeInit, Pages
<1>2. CASE accepts(info)
  <2>1. /\ ~ready /\ eligible = {} /\ cursor = 0 /\ allocated = {} /\ total_pages = 0
        /\ UNCHANGED <<allocated, cursor>>
    BY <1>2, FS_EmptySet DEF accepts, pmm_init, UntouchedBeforeInit, PagesAccounted
  <2>2. /\ eligible' = (eligible \cup mark_usable_pages(info)) \ reserve_boot_regions(info)
        /\ total_pages' = total_pages + Cardinality(eligible')
        /\ free_pages' = total_pages'
        /\ ready' = TRUE
        /\ boot_info' = info
    BY <1>2 DEF pmm_init
  <2>3. eligible' \subseteq Pages
    BY <2>1, <2>2, MarkUsableInside
  <2>4. Cardinality(eligible') \in Nat
    BY <2>3, PagesFinite, FS_Subset, FS_CardinalityType
  <2>5. PmmTypeOK'
    BY <2>1, <2>2, <2>3, <2>4 DEF PmmTypeOK, Pages
  <2>6. eligible' \ allocated' = eligible'
    BY <2>1
  <2>7. PagesAccounted'
    BY <2>1, <2>2, <2>4, <2>6 DEF PagesAccounted
  <2>8. CursorBelowFree' /\ UntouchedBeforeInit'
    BY <2>1, <2>2, <2>3, PmmAssumption DEF CursorBelowFree, UntouchedBeforeInit, Pages
  <2>. QED BY <2>5, <2>7, <2>8
<1>. QED BY <1>1, <1>2

-----------------------------------------------------------------------------
(* The search of pmm_alloc.                                                *)

(* Every nonempty set of pages has a lowest one.                           *)
LEMMA LowestPage ==
  ASSUME NEW S, S \subseteq Pages, S # {}
  PROVE  \E page \in S : \A other \in S : page <= other
<1>1. S \subseteq Nat
  BY PmmAssumption DEF Pages
<1>2. \E page \in S : \A other \in S : ~(<<other, page>> \in OpToRel(<, Nat))
  BY <1>1, WFMin, NatLessThanWellFounded
<1>3. PICK page \in S : \A other \in S : ~(<<other, page>> \in OpToRel(<, Nat))
  BY <1>2
<1>4. \A other \in S : ~(other < page)
  BY <1>1, <1>3 DEF OpToRel
<1>. QED BY <1>1, <1>4

(* The search looks at the pages from the cursor upwards, then wraps.      *)
LEMMA ProbeValue ==
  ASSUME PmmTypeOK, NEW scanned \in 0 .. PAGE_COUNT - 1
  PROVE  probe(scanned) = IF cursor + scanned < PAGE_COUNT
                          THEN cursor + scanned
                          ELSE cursor + scanned - PAGE_COUNT
<1>1. PAGE_COUNT \in Nat \ {0} /\ cursor \in 0 .. PAGE_COUNT - 1
  BY PmmAssumption DEF PmmTypeOK, Pages
<1>. QED BY <1>1, SMTT(20) DEF probe

(* The search stops at the lowest free page: the cursor never lies above   *)
(* one, so the part of the search that wraps around never succeeds.        *)
LEMMA FirstFreeIsLowest ==
  ASSUME PmmInv, NEW page \in Pages, first_free(page)
  PROVE  /\ page \in eligible \ allocated
         /\ \A other \in eligible \ allocated : page <= other
<1>1. PICK scanned \in 0 .. PAGE_COUNT - 1 :
         /\ page = probe(scanned)
         /\ is_free(page)
         /\ \A earlier \in 0 .. scanned - 1 : ~is_free(probe(earlier))
  BY DEF first_free
<1>2. page \in eligible \ allocated
  BY <1>1 DEF is_free
<1>3. PAGE_COUNT \in Nat /\ cursor \in 0 .. PAGE_COUNT - 1 /\ eligible \subseteq 0 .. PAGE_COUNT - 1
  BY PmmAssumption DEF PmmInv, PmmTypeOK, Pages
<1>4. page >= cursor
  BY <1>2, <1>3 DEF PmmInv, CursorBelowFree
<1>5. page = cursor + scanned
  BY <1>1, <1>3, <1>4, ProbeValue DEF PmmInv
<1>6. ASSUME NEW other \in eligible \ allocated, other < page
      PROVE  FALSE
  <2>1. other >= cursor
    BY <1>3, <1>6 DEF PmmInv, CursorBelowFree
  <2>2. other - cursor \in 0 .. scanned - 1
    BY <1>3, <1>5, <1>6, <2>1
  <2>3. other - cursor \in 0 .. PAGE_COUNT - 1 /\ cursor + (other - cursor) < PAGE_COUNT
    BY <1>3, <2>1
  <2>4. probe(other - cursor) = other
    BY <1>3, <2>3, ProbeValue DEF PmmInv
  <2>. QED BY <1>1, <1>6, <2>2, <2>4 DEF is_free
<1>. QED BY <1>2, <1>3, <1>6

(* A successful pmm_alloc preserves the invariant.                         *)
LEMMA AllocStep ==
  ASSUME PmmInv, NEW page \in Pages, pmm_alloc(page)
  PROVE  PmmInv'
<1>1. /\ ready /\ free_pages # 0 /\ first_free(page)
      /\ allocated' = allocated \cup {page}
      /\ free_pages' = free_pages - 1
      /\ cursor' = (page + 1) % PAGE_COUNT
      /\ UNCHANGED <<eligible, total_pages, ready, boot_info>>
  BY DEF pmm_alloc, alloc_finds
<1>2. page \in eligible \ allocated /\ \A other \in eligible \ allocated : page <= other
  BY <1>1, FirstFreeIsLowest
<1>3. page \in 0 .. PAGE_COUNT - 1 /\ PAGE_COUNT \in Nat \ {0}
  BY PmmAssumption DEF Pages
<1>4. cursor' = IF page + 1 = PAGE_COUNT THEN 0 ELSE page + 1
  BY <1>1, <1>3, SMTT(20)
<1>5. PmmTypeOK'
  <2>1. cursor' \in Pages /\ free_pages' \in Nat
    BY <1>1, <1>3, <1>4 DEF PmmInv, PmmTypeOK, Pages
  <2>. QED BY <1>1, <2>1 DEF PmmInv, PmmTypeOK, Pages
<1>6. PagesAccounted'
  <2>1. IsFiniteSet(eligible \ allocated)
    BY PagesFinite, FS_Subset DEF PmmInv, PmmTypeOK
  <2>2. eligible' \ allocated' = (eligible \ allocated) \ {page}
    BY <1>1
  <2>3. Cardinality((eligible \ allocated) \ {page}) = Cardinality(eligible \ allocated) - 1
    BY <1>2, <2>1, FS_RemoveElement
  <2>. QED BY <1>1, <1>2, <2>2, <2>3 DEF PmmInv, PagesAccounted
<1>7. CursorBelowFree'
  <2>1. ASSUME NEW other \in eligible, other < cursor'
        PROVE  other \in allocated \cup {page}
    <3>1. other \in 0 .. PAGE_COUNT - 1
      BY DEF PmmInv, PmmTypeOK, Pages
    <3>2. other <= page
      BY <1>3, <1>4, <2>1, <3>1
    <3>. QED BY <1>2, <1>3, <3>1, <3>2
  <2>. QED BY <1>1, <2>1 DEF CursorBelowFree
<1>8. UntouchedBeforeInit'
  BY <1>1 DEF UntouchedBeforeInit
<1>. QED BY <1>5, <1>6, <1>7, <1>8 DEF PmmInv

(* pmm_free, whatever address it is given, preserves the invariant.        *)
LEMMA FreeStep ==
  ASSUME PmmInv, NEW address \in U64, pmm_free(address)
  PROVE  PmmInv'
<1>1. CASE ~frees(address)
  <2>1. UNCHANGED pmmVars
    BY <1>1 DEF pmm_free
  <2>. QED BY <2>1 DEF pmmVars, PmmInv, PmmTypeOK, PagesAccounted, CursorBelowFree, UntouchedBeforeInit, Pages
<1>2. CASE frees(address)
  <2>. DEFINE page == address \div PMM_PAGE_SIZE
  <2>1. /\ ready /\ page \in eligible /\ page \in allocated
        /\ allocated' = allocated \ {page}
        /\ free_pages' = free_pages + 1
        /\ cursor' = IF page < cursor THEN page ELSE cursor
        /\ UNCHANGED <<eligible, total_pages, ready, boot_info>>
    BY <1>2 DEF pmm_free, frees
  <2>. HIDE DEF page
  <2>2. PmmTypeOK'
    <3>1. cursor' \in Pages /\ free_pages' \in Nat
      BY <2>1 DEF PmmInv, PmmTypeOK
    <3>. QED BY <2>1, <3>1 DEF PmmInv, PmmTypeOK, Pages
  <2>3. PagesAccounted'
    <3>1. IsFiniteSet(eligible \ allocated)
      BY PagesFinite, FS_Subset DEF PmmInv, PmmTypeOK
    <3>2. eligible' \ allocated' = (eligible \ allocated) \cup {page}
      BY <2>1
    <3>3. Cardinality((eligible \ allocated) \cup {page}) = Cardinality(eligible \ allocated) + 1
      BY <2>1, <3>1, FS_AddElement
    <3>. QED BY <2>1, <3>2, <3>3 DEF PmmInv, PagesAccounted
  <2>4. CursorBelowFree'
    <3>1. ASSUME NEW other \in eligible, other < cursor'
          PROVE  other \in allocated \ {page}
      <4>1. other \in 0 .. PAGE_COUNT - 1 /\ cursor \in 0 .. PAGE_COUNT - 1 /\ page \in 0 .. PAGE_COUNT - 1
        BY <2>1 DEF PmmInv, PmmTypeOK, Pages
      <4>2. other < cursor /\ other # page
        BY <2>1, <3>1, <4>1, PmmAssumption
      <4>. QED BY <4>2 DEF PmmInv, CursorBelowFree
    <3>. QED BY <2>1, <3>1 DEF CursorBelowFree
  <2>5. UntouchedBeforeInit'
    BY <2>1 DEF UntouchedBeforeInit
  <2>. QED BY <2>2, <2>3, <2>4, <2>5 DEF PmmInv
<1>. QED BY <1>1, <1>2

-----------------------------------------------------------------------------
(* Every call of the allocator keeps the invariant.                        *)
LEMMA PmmNextInv ==
  ASSUME PmmInv, [PmmNext]_pmmVars
  PROVE  PmmInv'
<1>1. CASE \E info \in BootInfos : pmm_init(info)
  BY <1>1, InitStep
<1>2. CASE \E page \in Pages : pmm_alloc(page)
  BY <1>2, AllocStep
<1>3. CASE \E address \in U64 : pmm_free(address)
  BY <1>3, FreeStep
<1>4. CASE UNCHANGED pmmVars
  BY <1>4 DEF pmmVars, PmmInv, PmmTypeOK, PagesAccounted, CursorBelowFree, UntouchedBeforeInit, Pages
<1>5. CASE pmm_alloc_fails
  BY <1>4, <1>5 DEF pmm_alloc_fails
<1>. QED BY <1>1, <1>2, <1>3, <1>4, <1>5 DEF PmmNext

(* The invariant holds however the allocator is called: pmm_init may be    *)
(* repeated, and pmm_free given any address in any order.                  *)
THEOREM PmmInvariant == PmmSpec => []PmmInv
<1>1. PmmInit => PmmInv
  BY PmmInitInv
<1>2. PmmInv /\ [PmmNext]_pmmVars => PmmInv'
  BY PmmNextInv
<1>. QED BY <1>1, <1>2, PTL DEF PmmSpec

(* pmm.c never sets or clears a bit outside its bitmaps and keeps its      *)
(* cursor a page number.                                                   *)
THEOREM PmmTypeCorrect == PmmSpec => []PmmTypeOK
<1>1. PmmInv => PmmTypeOK
  BY DEF PmmInv
<1>. QED BY <1>1, PmmInvariant, PTL

(* The counters pmm_total and pmm_available report are the sizes of the    *)
(* managed and of the free set, and only managed pages are handed out.     *)
THEOREM PmmAccounting == PmmSpec => []PagesAccounted
<1>1. PmmInv => PagesAccounted
  BY DEF PmmInv
<1>. QED BY <1>1, PmmInvariant, PTL

(* No free page is ever below the cursor of pmm.c.                         *)
THEOREM PmmCursor == PmmSpec => []CursorBelowFree
<1>1. PmmInv => CursorBelowFree
  BY DEF PmmInv
<1>. QED BY <1>1, PmmInvariant, PTL

(* The search finds a page whenever the counter says there is one.         *)
LEMMA SearchSucceeds ==
  ASSUME PmmInv, free_pages # 0
  PROVE  \E page \in Pages : first_free(page)
<1>1. eligible \subseteq Pages
  BY DEF PmmInv, PmmTypeOK
<1>2. eligible \ allocated # {}
  BY FS_EmptySet DEF PmmInv, PagesAccounted
<1>3. PICK page \in eligible \ allocated :
        \A other \in eligible \ allocated : page <= other
  BY <1>1, <1>2, LowestPage
<1>4. /\ page \in 0 .. PAGE_COUNT - 1 /\ PAGE_COUNT \in Nat
      /\ cursor \in 0 .. PAGE_COUNT - 1 /\ page >= cursor
  BY <1>1, PmmAssumption DEF PmmInv, PmmTypeOK, CursorBelowFree, Pages
<1>5. page - cursor \in 0 .. PAGE_COUNT - 1
  BY <1>4
<1>6. probe(page - cursor) = page
  BY <1>4, <1>5, ProbeValue DEF PmmInv
<1>7. ASSUME NEW earlier \in 0 .. (page - cursor) - 1
      PROVE  ~is_free(probe(earlier))
  <2>1. earlier \in 0 .. PAGE_COUNT - 1 /\ cursor + earlier < page
    BY <1>4
  <2>2. probe(earlier) = cursor + earlier
    BY <1>4, <2>1, ProbeValue DEF PmmInv
  <2>. QED BY <1>3, <1>4, <2>1, <2>2 DEF is_free
<1>8. first_free(page)
  BY <1>5, <1>6, <1>7 DEF first_free, is_free
<1>. QED BY <1>1, <1>8

(* pmm_alloc succeeds whenever pmm_available is not zero.                  *)
THEOREM PmmAllocSucceeds == PmmSpec => []AllocFindsFreePage
<1>1. PmmInv => AllocFindsFreePage
  BY SearchSucceeds DEF AllocFindsFreePage
<1>. QED BY <1>1, PmmInvariant, PTL

(* Every page pmm_alloc hands out is the lowest free one.                  *)
THEOREM PmmLowestFirst == PmmSpec => LowestFirst
<1>. DEFINE Step == \A page \in allocated' \ allocated :
                      \A other \in eligible \ allocated : page <= other
<1>1. PmmInv /\ [PmmNext]_pmmVars => [Step]_pmmVars
  <2>. SUFFICES ASSUME PmmInv, [PmmNext]_pmmVars, NEW page \in allocated' \ allocated
                PROVE  \A other \in eligible \ allocated : page <= other
    OBVIOUS
  <2>1. \A info \in BootInfos : ~pmm_init(info)
    BY DEF pmm_init, pmmVars
  <2>2. \A address \in U64 : ~pmm_free(address)
    BY DEF pmm_free, pmmVars
  <2>3. ~pmm_alloc_fails /\ ~UNCHANGED pmmVars
    BY DEF pmm_alloc_fails, pmmVars
  <2>4. PICK found \in Pages : pmm_alloc(found)
    BY <2>1, <2>2, <2>3 DEF PmmNext
  <2>5. page = found /\ first_free(found)
    BY <2>4 DEF pmm_alloc, alloc_finds
  <2>. QED BY <2>5, FirstFreeIsLowest
<1>. QED BY <1>1, PmmInvariant, PTL DEF PmmSpec, LowestFirst

-----------------------------------------------------------------------------
(* The bytes of a page and of a region.                                    *)

(* Products with the page size keep and reflect the order of page numbers. *)
LEMMA PageOrder ==
  ASSUME NEW a \in Int, NEW b \in Int, NEW s \in Nat \ {0}
  PROVE  /\ a * s \in Int
         /\ a <= b <=> a * s <= b * s
         /\ (a + 1) * s = a * s + s
BY SMTT(20)

(* The quotient by the page size, from both sides.                         *)
LEMMA PageOf ==
  ASSUME NEW a \in Nat, NEW s \in Nat \ {0}, NEW n \in Int
  PROVE  /\ a \div s \in Nat
         /\ n <= a \div s <=> n * s <= a
         /\ a \div s <= n <=> a < (n + 1) * s
<1>1. /\ a \div s \in Nat /\ (a \div s) * s <= a /\ a < (a \div s + 1) * s
  BY SMTT(20)
<1>. DEFINE q == a \div s
<1>2. q \in Nat /\ q * s <= a /\ a < (q + 1) * s
  BY <1>1
<1>. HIDE DEF q
<1>3. n <= q => n * s <= a
  BY <1>2, PageOrder
<1>4. ~(n <= q) => a < n * s
  <2>1. n >= q + 1 => (q + 1) * s <= n * s
    BY <1>2, PageOrder
  <2>. QED BY <1>2, <2>1, PageOrder
<1>5. q <= n => a < (n + 1) * s
  <2>1. q <= n => (q + 1) * s <= (n + 1) * s
    BY <1>2, PageOrder
  <2>. QED BY <1>2, <2>1, PageOrder
<1>6. ~(q <= n) => (n + 1) * s <= a
  <2>1. q >= n + 1 => (n + 1) * s <= q * s
    BY <1>2, PageOrder
  <2>. QED BY <1>2, <2>1, PageOrder
<1>7. n * s \in Int /\ (n + 1) * s \in Int
  BY PageOrder
<1>8. (n <= q <=> n * s <= a) /\ (q <= n <=> a < (n + 1) * s)
  BY <1>3, <1>4, <1>5, <1>6, <1>7
<1>. QED BY <1>2, <1>8 DEF q

(* When one nonempty range of addresses holds another.                     *)
LEMMA RangeInside ==
  ASSUME NEW x \in Int, NEW u \in Int, NEW y \in Int, NEW z \in Int, x <= u
  PROVE  x .. u \subseteq y .. z <=> y <= x /\ u <= z
<1>1. x \in x .. u /\ u \in x .. u
  OBVIOUS
<1>2. ASSUME x .. u \subseteq y .. z PROVE y <= x /\ u <= z
  <2>1. x \in y .. z /\ u \in y .. z
    BY <1>1, <1>2, Zenon
  <2>. QED BY <2>1
<1>3. ASSUME y <= x /\ u <= z PROVE x .. u \subseteq y .. z
  BY <1>3
<1>. QED BY <1>2, <1>3

(* Two ranges share an address when each starts before the other ends.     *)
LEMMA RangesMeet ==
  ASSUME NEW x \in Int, NEW u \in Int, NEW y \in Int, NEW z \in Int, x <= u, y <= z
  PROVE  (x .. u) \cap (y .. z) # {} <=> y <= u /\ x <= z
<1>1. ASSUME y <= u, x <= z PROVE (x .. u) \cap (y .. z) # {}
  <2>1. CASE y <= x
    <3>1. x \in x .. u /\ x \in y .. z
      BY <1>1, <2>1
    <3>. QED BY <3>1, Zenon
  <2>2. CASE ~(y <= x)
    <3>1. y \in x .. u /\ y \in y .. z
      BY <1>1, <2>2
    <3>. QED BY <3>1, Zenon
  <2>. QED BY <2>1, <2>2
<1>2. ASSUME (x .. u) \cap (y .. z) # {} PROVE y <= u /\ x <= z
  <2>1. PICK a : a \in x .. u /\ a \in y .. z
    BY <1>2, Zenon
  <2>. QED BY <2>1
<1>. QED BY <1>1, <1>2

(* The bytes of a page start at its address.                               *)
LEMMA BytesOfPage ==
  ASSUME NEW page \in Int
  PROVE  /\ page * PMM_PAGE_SIZE \in Int
         /\ PageBytes(page) = page * PMM_PAGE_SIZE .. page * PMM_PAGE_SIZE + PMM_PAGE_SIZE - 1
<1>1. PMM_PAGE_SIZE \in Nat \ {0}
  BY PmmAssumption
<1>2. page * PMM_PAGE_SIZE \in Int /\ (page + 1) * PMM_PAGE_SIZE = page * PMM_PAGE_SIZE + PMM_PAGE_SIZE
  BY <1>1, PageOrder
<1>. DEFINE first == page * PMM_PAGE_SIZE
            next  == (page + 1) * PMM_PAGE_SIZE
<1>3. PageBytes(page) = first .. next - 1 /\ next = first + PMM_PAGE_SIZE
      /\ first \in Int
  BY <1>2 DEF PageBytes
<1>. HIDE DEF first, next
<1>4. PageBytes(page) = first .. first + PMM_PAGE_SIZE - 1
  BY <1>1, <1>3
<1>. QED BY <1>2, <1>4 DEF first

(* A sum that fits a register is not cut.                                  *)
LEMMA WrapFits ==
  ASSUME NEW n \in Nat, n <= UINT64_MAX
  PROVE  Wrap(n) = n
BY PmmAssumption, SMTT(20) DEF Wrap

(* A descriptor that passes valid_descriptor ends below the last address.  *)
LEMMA DescriptorEnd ==
  ASSUME NEW d \in BOOT_MEMORY_DESCRIPTOR, valid_descriptor(d)
  PROVE  /\ d.physical_start \in Nat /\ d.number_of_pages \in Nat \ {0}
         /\ d.number_of_pages * PMM_PAGE_SIZE \in Nat
         /\ d.physical_start + d.number_of_pages * PMM_PAGE_SIZE <= UINT64_MAX
         /\ physical_end(d) = d.physical_start + d.number_of_pages * PMM_PAGE_SIZE
<1>. DEFINE b == d.physical_start
            n == d.number_of_pages
            length == n * PMM_PAGE_SIZE
<1>1. b \in Nat /\ n \in Nat \ {0} /\ b <= UINT64_MAX
      /\ UINT64_MAX \in Nat /\ PMM_PAGE_SIZE \in Nat \ {0}
      /\ n <= (UINT64_MAX - b) \div PMM_PAGE_SIZE
  BY PmmAssumption DEF BOOT_MEMORY_DESCRIPTOR, U64, valid_descriptor
<1>. HIDE DEF b, n
<1>2. length \in Nat
  BY <1>1, SMTT(20)
<1>3. length <= UINT64_MAX - b
  <2>1. UINT64_MAX - b \in Nat
    BY <1>1
  <2>. QED BY <1>1, <2>1, PageOf
<1>. HIDE DEF length
<1>4. Wrap(length) = length
  BY <1>1, <1>2, <1>3, WrapFits
<1>5. Wrap(b + length) = b + length
  BY <1>1, <1>2, <1>3, WrapFits
<1>. QED BY <1>1, <1>2, <1>3, <1>4, <1>5 DEF physical_end, b, n, length

(* The loop of mark_usable_pages visits exactly the managed pages that lie *)
(* inside the region, wherever the region is.                              *)
LEMMA MarkedExact ==
  ASSUME NEW d \in BOOT_MEMORY_DESCRIPTOR, valid_descriptor(d), NEW page
  PROVE  page \in marked_pages(d) <=>
           /\ page \in LOW_PAGE .. PAGE_COUNT - 1
           /\ PageBytes(page) \subseteq
                RegionBytes(d.physical_start, d.number_of_pages * PMM_PAGE_SIZE)
<1>. DEFINE b == d.physical_start
            length == d.number_of_pages * PMM_PAGE_SIZE
            s == PMM_PAGE_SIZE
            begin == Max({b, LOW_MEMORY})
            end   == Min({physical_end(d), PMM_LIMIT})
<1>1. /\ b \in Nat /\ length \in Nat /\ physical_end(d) = b + length /\ s \in Nat \ {0}
      /\ LOW_PAGE \in Nat /\ PAGE_COUNT \in Nat
  BY DescriptorEnd, PmmAssumption
<1>2. LOW_MEMORY = LOW_PAGE * s /\ PMM_LIMIT = PAGE_COUNT * s /\ LOW_MEMORY \in Nat /\ PMM_LIMIT \in Nat
  BY PmmAssumption, SMTT(20) DEF LOW_MEMORY, PMM_LIMIT
<1>3. begin \in {b, LOW_MEMORY} /\ begin >= b /\ begin >= LOW_MEMORY
  <2>1. b \in Int /\ LOW_MEMORY \in Int
    BY <1>1, <1>2
  <2>. QED BY <2>1, MaxOfTwo, Zenon
<1>4. end \in {b + length, PMM_LIMIT} /\ end <= b + length /\ end <= PMM_LIMIT
  <2>1. b + length \in Int /\ PMM_LIMIT \in Int /\ physical_end(d) = b + length
    BY <1>1, <1>2
  <2>. QED BY <2>1, MinOfTwo, Zenon
<1>5. marked_pages(d) = (begin \div s) .. ((end \div s) - 1)
  BY DEF marked_pages
<1>6. PICK first \in Nat : b = first * s
  <2>1. b % s = 0
    BY DEF valid_descriptor
  <2>. HIDE DEF b, s
  <2>2. b = (b \div s) * s /\ b \div s \in Nat
    BY <1>1, <2>1, SMTT(20)
  <2>. QED BY <2>2
<1>7. d.number_of_pages \in Nat
  BY DescriptorEnd
<1>. DEFINE n == d.number_of_pages
<1>8. length = n * s /\ b + length = (first + n) * s
  BY <1>1, <1>6, <1>7, SMTT(20)
<1>. HIDE DEF b, length, s, begin, end, n
<1>9. n \in Nat
  BY <1>7 DEF n
<1>10. \A k \in Int : k >= begin \div s <=> k >= first /\ k >= LOW_PAGE
  <2>. SUFFICES ASSUME NEW k \in Int PROVE k >= begin \div s <=> k >= first /\ k >= LOW_PAGE
    OBVIOUS
  <2>1. begin \in Nat /\ begin \div s \in Nat
    BY <1>1, <1>2, <1>3, PageOf
  <2>2. begin \div s <= k <=> begin < (k + 1) * s
    BY <1>1, <2>1, PageOf
  <2>3. /\ first <= k <=> first * s <= k * s
        /\ LOW_PAGE <= k <=> LOW_PAGE * s <= k * s
        /\ k + 1 <= first <=> (k + 1) * s <= first * s
        /\ k + 1 <= LOW_PAGE <=> (k + 1) * s <= LOW_PAGE * s
        /\ k * s \in Int /\ (k + 1) * s \in Int
    BY <1>1, <1>6, PageOrder
  <2>. QED BY <1>1, <1>2, <1>3, <1>6, <2>1, <2>2, <2>3
<1>11. \A k \in Int : k <= end \div s - 1 <=> k < first + n /\ k < PAGE_COUNT
  <2>. SUFFICES ASSUME NEW k \in Int PROVE k <= end \div s - 1 <=> k < first + n /\ k < PAGE_COUNT
    OBVIOUS
  <2>1. end \in Nat /\ end \div s \in Nat
    BY <1>1, <1>2, <1>4, PageOf
  <2>2. k + 1 <= end \div s <=> (k + 1) * s <= end
    BY <1>1, <2>1, PageOf
  <2>3. /\ k + 1 <= first + n <=> (k + 1) * s <= (first + n) * s
        /\ k + 1 <= PAGE_COUNT <=> (k + 1) * s <= PAGE_COUNT * s
        /\ (k + 1) * s \in Int /\ (first + n) * s \in Int
    BY <1>1, <1>6, <1>9, PageOrder
  <2>. QED BY <1>1, <1>2, <1>4, <1>8, <1>9, <2>1, <2>2, <2>3
<1>12. \A k \in Int : PageBytes(k) \subseteq RegionBytes(b, length) <=> first <= k /\ k < first + n
  <2>. SUFFICES ASSUME NEW k \in Int
                PROVE PageBytes(k) \subseteq RegionBytes(b, length) <=> first <= k /\ k < first + n
    OBVIOUS
  <2>1. /\ first <= k <=> first * s <= k * s
        /\ k + 1 <= first + n <=> (k + 1) * s <= (first + n) * s
        /\ k * s \in Int /\ (k + 1) * s = k * s + s /\ (first + n) * s \in Int
    BY <1>1, <1>6, <1>9, PageOrder
  <2>2. PageBytes(k) = k * s .. k * s + s - 1
    BY BytesOfPage DEF s
  <2>3. RegionBytes(b, length) = first * s .. (first + n) * s - 1 /\ first * s \in Int
    <3>. DEFINE x == first * s
                z == (first + n) * s
    <3>1. b = x /\ b + length = z
      BY <1>6, <1>8
    <3>. HIDE DEF x, z
    <3>2. RegionBytes(b, length) = x .. z - 1 /\ x \in Int
      BY <1>1, <3>1 DEF RegionBytes
    <3>. QED BY <3>2 DEF x, z
  <2>4. PageBytes(k) \subseteq RegionBytes(b, length)
          <=> first * s <= k * s /\ k * s + s <= (first + n) * s
    <3>. DEFINE x == k * s
                y == first * s
                z == (first + n) * s
    <3>1. x \in Int /\ y \in Int /\ z \in Int
      BY <1>1, <1>6, <2>1
    <3>. HIDE DEF x, y, z
    <3>2. x .. x + s - 1 \subseteq y .. z - 1 <=> y <= x /\ x + s - 1 <= z - 1
      <4>1. x + s - 1 \in Int /\ z - 1 \in Int /\ x <= x + s - 1
        BY <1>1, <3>1
      <4>. QED BY <3>1, <4>1, RangeInside
    <3>3. x + s - 1 <= z - 1 <=> x + s <= z
      BY <1>1, <3>1
    <3>4. PageBytes(k) = x .. x + s - 1 /\ RegionBytes(b, length) = y .. z - 1
      BY <2>2, <2>3 DEF x, y, z
    <3>5. PageBytes(k) \subseteq RegionBytes(b, length) <=> y <= x /\ x + s <= z
      BY <3>2, <3>3, <3>4, Zenon
    <3>. QED BY <3>5 DEF x, y, z
  <2>. QED BY <1>1, <1>6, <1>9, <2>1, <2>4
<1>13. page \in marked_pages(d) <=> /\ page \in LOW_PAGE .. PAGE_COUNT - 1
                                   /\ PageBytes(page) \subseteq RegionBytes(b, length)
  <2>1. begin \div s \in Int /\ end \div s \in Int
    BY <1>1, <1>2, <1>3, <1>4, PageOf
  <2>2. page \in marked_pages(d) <=>
          page \in Int /\ page >= begin \div s /\ page <= end \div s - 1
    BY <1>5, <2>1
  <2>3. page \in LOW_PAGE .. PAGE_COUNT - 1 <=> page \in Int /\ page >= LOW_PAGE /\ page < PAGE_COUNT
    BY <1>1
  <2>4. CASE page \in Int
    <3>1. page >= begin \div s <=> page >= first /\ page >= LOW_PAGE
      BY <1>10, <2>4
    <3>2. page <= end \div s - 1 <=> page < first + n /\ page < PAGE_COUNT
      BY <1>11, <2>4
    <3>3. PageBytes(page) \subseteq RegionBytes(b, length) <=> first <= page /\ page < first + n
      BY <1>12, <2>4
    <3>. HIDE DEF PageBytes, RegionBytes
    <3>4. page >= first <=> first <= page
      BY <1>6, <2>4
    <3>. QED BY <2>2, <2>3, <3>1, <3>2, <3>3, <3>4
  <2>5. CASE page \notin Int
    BY <2>2, <2>3, <2>5
  <2>. QED BY <2>4, <2>5
<1>. QED BY <1>13 DEF b, length

(* The loop of reserve visits exactly the pages that share a byte with the *)
(* region, wherever the region is.                                         *)
LEMMA ReserveExact ==
  ASSUME NEW base \in U64, NEW size \in U64, valid_range(base, size), NEW page \in Pages
  PROVE  page \in reserve(base, size) <=> PageBytes(page) \cap RegionBytes(base, size) # {}
<1>. DEFINE s == PMM_PAGE_SIZE
            lo == page * s
            end == Min({Wrap(base + size), PMM_LIMIT})
<1>1. /\ base \in Nat /\ size \in Nat \ {0} /\ base + size <= UINT64_MAX /\ s \in Nat \ {0}
      /\ page \in Nat /\ page < PAGE_COUNT /\ PAGE_COUNT \in Nat
  BY PmmAssumption DEF U64, valid_range, Pages
<1>2. PMM_LIMIT = PAGE_COUNT * s /\ PMM_LIMIT \in Nat
  BY PmmAssumption, SMTT(20) DEF PMM_LIMIT
<1>. HIDE DEF s
<1>3. lo \in Nat /\ (page + 1) * s = lo + s /\ lo + s <= PMM_LIMIT
  <2>1. page + 1 <= PAGE_COUNT <=> (page + 1) * s <= PAGE_COUNT * s
    BY <1>1, PageOrder
  <2>2. 0 <= page <=> 0 * s <= page * s
    BY <1>1, PageOrder
  <2>3. page * s \in Int /\ (page + 1) * s = page * s + s /\ 0 * s = 0
    BY <1>1, PageOrder
  <2>. QED BY <1>1, <1>2, <2>1, <2>2, <2>3
<1>4. PageBytes(page) = lo .. lo + s - 1
  BY <1>1, BytesOfPage DEF s
<1>. HIDE DEF lo
<1>5. PageBytes(page) \cap RegionBytes(base, size) # {} <=> base < lo + s /\ lo < base + size
  <2>1. /\ lo \in Int /\ lo + s - 1 \in Int /\ base \in Int /\ base + size - 1 \in Int
        /\ lo <= lo + s - 1 /\ base <= base + size - 1
    BY <1>1, <1>3
  <2>2. (lo .. lo + s - 1) \cap (base .. base + size - 1) # {}
          <=> base <= lo + s - 1 /\ lo <= base + size - 1
    BY <2>1, RangesMeet, Zenon
  <2>3. (base <= lo + s - 1 <=> base < lo + s) /\ (lo <= base + size - 1 <=> lo < base + size)
    BY <1>1, <1>3
  <2>. QED BY <1>4, <2>2, <2>3, Zenon DEF RegionBytes
<1>6. CASE base >= PMM_LIMIT
  BY <1>1, <1>2, <1>3, <1>5, <1>6 DEF reserve
<1>7. CASE ~(base >= PMM_LIMIT)
  <2>1. Wrap(base + size) = base + size
    BY <1>1, WrapFits
  <2>2. end \in {base + size, PMM_LIMIT} /\ end <= base + size /\ end <= PMM_LIMIT
    <3>1. base + size \in Int /\ PMM_LIMIT \in Int
      BY <1>1, <1>2
    <3>. QED BY <2>1, <3>1, MinOfTwo, Zenon
  <2>. DEFINE top == (end + s - 1) \div s
  <2>3. reserve(base, size) = (base \div s) .. (top - 1)
    BY <1>7 DEF reserve, s
  <2>. HIDE DEF end
  <2>4. end \in Nat /\ end + s - 1 \in Nat
    BY <1>1, <1>2, <2>2
  <2>5. base \div s <= page <=> base < lo + s
    <3>1. base \div s <= page <=> base < (page + 1) * s
      BY <1>1, PageOf
    <3>. QED BY <1>3, <3>1, Zenon
  <2>6. page <= top - 1 <=> lo < end
    <3>1. page + 1 <= top <=> (page + 1) * s <= end + s - 1
      BY <1>1, <2>4, PageOf
    <3>2. top \in Nat
      BY <1>1, <2>4, PageOf
    <3>. HIDE DEF top
    <3>. QED BY <1>1, <1>3, <2>4, <3>1, <3>2
  <2>7. lo < end <=> lo < base + size
    BY <1>1, <1>2, <1>3, <2>2
  <2>8. base \div s \in Int /\ top \in Int
    BY <1>1, <2>4, PageOf
  <2>. HIDE DEF top
  <2>9. page \in reserve(base, size) <=> base \div s <= page /\ page <= top - 1
    BY <1>1, <2>3, <2>8
  <2>. QED BY <1>5, <2>5, <2>6, <2>7, <2>9
<1>. QED BY <1>6, <1>7

(* What pmm_init manages, in terms of bytes.                               *)
Managed(info) ==
  {page \in LOW_PAGE .. PAGE_COUNT - 1 :
    /\ \E i \in DOMAIN info.map :
         LET d == info.map[i] IN
         /\ usable(d)
         /\ PageBytes(page) \subseteq
              RegionBytes(d.physical_start, d.number_of_pages * PMM_PAGE_SIZE)
    /\ \A r \in {<<info.kernel_base, info.kernel_size>>,
                 <<info.self, INFO_SIZE>>,
                 <<info.memory_map, info.memory_map_size>>,
                 <<info.stack_base, info.stack_size>>} :
         PageBytes(page) \cap RegionBytes(r[1], r[2]) = {}}

(* The marking and the reserving loops of pmm_init leave those pages.      *)
LEMMA ManagedExact ==
  ASSUME NEW info \in BootInfos, valid_boot_info(info), valid_map_ranges(info)
  PROVE  mark_usable_pages(info) \ reserve_boot_regions(info) = Managed(info)
<1>1. /\ info.map \in Seq(BOOT_MEMORY_DESCRIPTOR)
      /\ info.self \in U64 /\ INFO_SIZE \in U64
      /\ info.memory_map \in U64 /\ info.memory_map_size \in U64
      /\ info.kernel_base \in U64 /\ info.kernel_size \in U64
      /\ info.stack_base \in U64 /\ info.stack_size \in U64
  BY PmmAssumption DEF BOOT_INFO
<1>. DEFINE Inside(page, i) ==
              PageBytes(page) \subseteq
                RegionBytes(info.map[i].physical_start, info.map[i].number_of_pages * PMM_PAGE_SIZE)
            Clear(page, base, size) == PageBytes(page) \cap RegionBytes(base, size) = {}
<1>2. \A page : page \in mark_usable_pages(info) <=>
        /\ page \in LOW_PAGE .. PAGE_COUNT - 1
        /\ \E i \in DOMAIN info.map : usable(info.map[i]) /\ Inside(page, i)
  <2>1. \A i \in DOMAIN info.map : info.map[i] \in BOOT_MEMORY_DESCRIPTOR /\ valid_descriptor(info.map[i])
    BY <1>1 DEF valid_map_ranges
  <2>2. \A i \in DOMAIN info.map : \A page :
          page \in marked_pages(info.map[i]) <=> page \in LOW_PAGE .. PAGE_COUNT - 1 /\ Inside(page, i)
    BY <2>1, MarkedExact
  <2>. HIDE DEF Inside
  <2>3. \A page : page \in mark_usable_pages(info) <=>
          \E i \in DOMAIN info.map : usable(info.map[i]) /\ page \in marked_pages(info.map[i])
    BY DEF mark_usable_pages
  <2>. QED BY <2>2, <2>3
<1>3. \A page \in Pages : page \notin reserve_boot_regions(info) <=>
        /\ Clear(page, info.kernel_base, info.kernel_size) /\ Clear(page, info.self, INFO_SIZE)
        /\ Clear(page, info.memory_map, info.memory_map_size) /\ Clear(page, info.stack_base, info.stack_size)
  <2>. SUFFICES ASSUME NEW page \in Pages
       PROVE page \notin reserve_boot_regions(info) <=>
        /\ Clear(page, info.kernel_base, info.kernel_size) /\ Clear(page, info.self, INFO_SIZE)
        /\ Clear(page, info.memory_map, info.memory_map_size) /\ Clear(page, info.stack_base, info.stack_size)
    OBVIOUS
  <2>1. page \in reserve(info.kernel_base, info.kernel_size) <=> ~Clear(page, info.kernel_base, info.kernel_size)
    BY <1>1, ReserveExact DEF valid_boot_info
  <2>2. page \in reserve(info.self, INFO_SIZE) <=> ~Clear(page, info.self, INFO_SIZE)
    BY <1>1, ReserveExact DEF valid_boot_info
  <2>3. page \in reserve(info.memory_map, info.memory_map_size)
          <=> ~Clear(page, info.memory_map, info.memory_map_size)
    BY <1>1, ReserveExact DEF valid_boot_info
  <2>4. page \in reserve(info.stack_base, info.stack_size) <=> ~Clear(page, info.stack_base, info.stack_size)
    BY <1>1, ReserveExact DEF valid_boot_info
  <2>. HIDE DEF Clear
  <2>. QED BY <2>1, <2>2, <2>3, <2>4 DEF reserve_boot_regions
<1>4. \A page : page \in Managed(info) <=>
        /\ page \in LOW_PAGE .. PAGE_COUNT - 1
        /\ \E i \in DOMAIN info.map : usable(info.map[i]) /\ Inside(page, i)
        /\ Clear(page, info.kernel_base, info.kernel_size) /\ Clear(page, info.self, INFO_SIZE)
        /\ Clear(page, info.memory_map, info.memory_map_size) /\ Clear(page, info.stack_base, info.stack_size)
  BY DEF Managed
<1>5. \A page \in LOW_PAGE .. PAGE_COUNT - 1 : page \in Pages
  BY PmmAssumption DEF Pages
<1>. HIDE DEF Inside, Clear
<1>. QED BY <1>2, <1>3, <1>4, <1>5

(* The managed pages do not change after pmm_init has set them.            *)
LEMMA EligibleStep ==
  ASSUME PmmInv, EligibleExact, [PmmNext]_pmmVars
  PROVE  EligibleExact'
<1>0. EligibleExact <=> (ready => eligible = Managed(boot_info))
  BY DEF EligibleExact, Managed
<1>1. EligibleExact' <=> (ready' => eligible' = Managed(boot_info'))
  BY DEF EligibleExact, Managed, LOW_MEMORY, PMM_LIMIT
<1>2. CASE UNCHANGED <<eligible, ready, boot_info>>
  BY <1>0, <1>1, <1>2
<1>3. CASE ~UNCHANGED <<eligible, ready, boot_info>>
  <2>1. PICK info \in BootInfos : pmm_init(info)
    BY <1>3 DEF PmmNext, pmm_alloc, pmm_alloc_fails, pmm_free, pmmVars
  <2>2. accepts(info)
    BY <1>3, <2>1 DEF pmm_init, pmmVars
  <2>3. eligible' = mark_usable_pages(info) \ reserve_boot_regions(info) /\ boot_info' = info
    BY <2>1, <2>2 DEF pmm_init, accepts, PmmInv, UntouchedBeforeInit
  <2>. QED BY <1>1, <2>2, <2>3, ManagedExact DEF accepts
<1>. QED BY <1>2, <1>3

(* pmm_init manages exactly the pages it should, for every memory map it   *)
(* accepts and every register width: EligibleExact.                        *)
THEOREM PmmManagesExactly == PmmSpec => []EligibleExact
<1>1. PmmInit => EligibleExact
  BY DEF PmmInit, EligibleExact
<1>2. PmmInv /\ EligibleExact /\ [PmmNext]_pmmVars => EligibleExact'
  BY EligibleStep
<1>. QED BY <1>1, <1>2, PmmInvariant, PTL DEF PmmSpec
=============================================================================
