------------------------------- MODULE Paging -------------------------------
(***************************************************************************)
(* The kernel's own page tables, kernel/paging.c, on top of the page       *)
(* allocator: building and activating the identity map, and mapping,       *)
(* unmapping and protecting pages of the dynamic window.                   *)
(*                                                                         *)
(* The code runs on one CPU with interrupts disabled, but the CPU itself   *)
(* walks the tables at any time and keeps what it read: every store to a   *)
(* table and every invlpg is a step of its own.  A table is a function on  *)
(* its present entries.                                                    *)
(***************************************************************************)
EXTENDS PMM, Functions, SequencesExt

CONSTANTS
  MAX_TABLES,
  TABLE_ENTRIES,  \* entries of a table (512)
  Text, Rodata,   \* page numbers between the linker's symbols
  DfGuards,       \* double_fault_guard_low and _high
  Windows,        \* addresses of the dynamic window, as index paths
  Outside,        \* addresses outside of it
  FlagSets,       \* the flags arguments callers use
  MaxOwned        \* bound: pages the callers of the API hold

DYNAMIC == 1  \* the root index of the dynamic window; the identity map has 0

ASSUME PagingAssumption ==
  /\ MAX_TABLES \in Nat /\ TABLE_ENTRIES \in Nat \ {0} /\ MaxOwned \in Nat
  /\ Text \subseteq Pages /\ Rodata \subseteq Pages /\ DfGuards \subseteq Pages
  /\ PAGE_COUNT <= TABLE_ENTRIES * TABLE_ENTRIES * TABLE_ENTRIES  \* 4 GiB, 512 GiB
  /\ \A va \in Windows : va \in Seq(Nat) /\ Len(va) = 4 /\ va[1] = DYNAMIC
  /\ \A va \in Outside : va \in Seq(Nat) /\ Len(va) = 4 /\ va[1] # DYNAMIC

VARIABLES
  table_pages,  \* table_pages[0 .. paging_table_count - 1], from 1
  mem,          \* contents of the table pages
  paging_root, active,
  pc,           \* next statement of the operation under way, or "idle"
  op,           \* its arguments and local variables
  cached,       \* one translation or table pointer the CPU has cached
  owned         \* pages the callers have allocated

vars == <<pmmVars, table_pages, mem, paging_root, active, pc, op, cached, owned>>

(* An entry: a page and its permissions.  Links carry both (FLAGS).        *)
entry(page, flags) == [page |-> page, flags |-> flags]
link(page) == entry(page, {"W", "X"})

put(table, index, e) == [i \in DOMAIN table \cup {index} |-> IF i = index THEN e ELSE table[i]]
drop(table, index) == Restrict(table, DOMAIN table \ {index})
EmptyTable == [i \in {} |-> link(0)]

(* The four table indices of an identity-mapped address, root first.       *)
identity(page) ==
  LET shift21 == page \div TABLE_ENTRIES
      shift30 == shift21 \div TABLE_ENTRIES
      shift39 == shift30 \div TABLE_ENTRIES
  IN  <<shift39, shift30 % TABLE_ENTRIES, shift21 % TABLE_ENTRIES, page % TABLE_ENTRIES>>

Idle == [va |-> <<>>]
NothingCached == [prefix |-> <<>>, page |-> 0, flags |-> {}]

(* The present entries at an index of the tables that entries link to.     *)
below(entries, index) ==
  {mem[e.page][index] : e \in {f \in entries : index \in DOMAIN mem[f.page]}}

(* The entries a walk from the root finds at the four levels; a set is     *)
(* empty where the walk has stopped.                                       *)
pml4e(va) == below({link(paging_root)}, va[1])
pdpte(va) == below(pml4e(va), va[2])
pde(va)   == below(pdpte(va), va[3])
leaf(va)  == below(pde(va), va[4])
walk(va)  == <<pml4e(va), pdpte(va), pde(va), leaf(va)>>

(* The tables a complete walk goes through, tables[level] in the code.     *)
table_at(va, level) ==
  IF level = 0 THEN paging_root ELSE (CHOOSE e \in walk(va)[level] : TRUE).page

Init ==
  /\ PmmInit
  /\ table_pages = <<>> /\ mem = <<>> /\ paging_root = 0 /\ active = FALSE
  /\ pc = "boot" /\ op = Idle
  /\ cached = NothingCached
  /\ owned = {}

-----------------------------------------------------------------------------
(* new_table, when it succeeds with this page and when it fails.           *)
new_table(page) ==
  /\ Len(table_pages) # MAX_TABLES
  /\ pmm_alloc(page)
  /\ table_pages' = Append(table_pages, page)

no_table == Len(table_pages) = MAX_TABLES \/ \A page \in Pages : ~alloc_finds(page)

(* Faulty variant: the page is not given back to the allocator.            *)
release_table_leaks(page) ==
  LET i == CHOOSE k \in DOMAIN table_pages : table_pages[k] = page
  IN  /\ table_pages' = Front([table_pages EXCEPT ![i] = Last(table_pages)])
      /\ mem' = Restrict(mem, DOMAIN mem \ {page})
      /\ UNCHANGED pmmVars

release_table(page) ==
  LET i == CHOOSE k \in DOMAIN table_pages : table_pages[k] = page
  IN  /\ table_pages' = Front([table_pages EXCEPT ![i] = Last(table_pages)])
      /\ pmm_free(page * PMM_PAGE_SIZE)
      /\ mem' = Restrict(mem, DOMAIN mem \ {page})

(* The loops of map_page and paging_map go down one level.                 *)
descend(label) ==
  /\ pc = label /\ op.level < 4
  /\ op.va[op.level] \in DOMAIN mem[op.table]
  /\ op' = [op EXCEPT !.level = @ + 1, !.table = mem[op.table][op.va[op.level]].page]
  /\ UNCHANGED <<pmmVars, table_pages, mem, paging_root, active, pc, cached, owned>>

add_table(label) ==
  /\ pc = label /\ op.level < 4
  /\ op.va[op.level] \notin DOMAIN mem[op.table]
  /\ \E page \in Pages :
       /\ new_table(page)
       /\ mem' = put([mem EXCEPT ![op.table] = put(@, op.va[op.level], link(page))], page, EmptyTable)
       /\ op' = [op EXCEPT !.level = @ + 1, !.table = page,
                           !.created = Append(@, [table |-> op.table, index |-> op.va[op.level], child |-> page])]
  /\ UNCHANGED <<paging_root, active, pc, cached, owned>>

out_of_tables(label, next) ==
  /\ pc = label /\ op.level < 4
  /\ op.va[op.level] \notin DOMAIN mem[op.table]
  /\ no_table
  /\ pc' = next
  /\ UNCHANGED <<pmmVars, table_pages, mem, paging_root, active, op, cached, owned>>

-----------------------------------------------------------------------------
(* paging_init.                                                            *)

(* The pages map_boot_ram visits in order; a region that is not write-back *)
(* stops it.                                                               *)
NotWriteBack == -1

(* Faulty variant: regions are not cut off at PMM_LIMIT.                   *)
region_pages_unclamped(d) ==
  LET begin == Max({d.physical_start, LOW_MEMORY})
      end   == physical_end(d)
      first == begin \div PMM_PAGE_SIZE
  IN  CASE d.type \notin {LoaderCode, LoaderData, Conventional} \/ d.runtime \/ begin >= end -> <<>>
        [] OTHER -> IF ~d.write_back THEN <<NotWriteBack>>
                    ELSE [i \in 1 .. (end \div PMM_PAGE_SIZE) - first |-> first + i - 1]

region_pages(d) ==
  LET begin == Max({d.physical_start, LOW_MEMORY})
      end   == Min({physical_end(d), PMM_LIMIT})
      first == begin \div PMM_PAGE_SIZE
  IN  CASE d.type \notin {LoaderCode, LoaderData, Conventional} \/ d.runtime \/ begin >= end -> <<>>
        [] OTHER -> IF ~d.write_back THEN <<NotWriteBack>>
                    ELSE [i \in 1 .. (end \div PMM_PAGE_SIZE) - first |-> first + i - 1]

boot_ram(info) == FlattenSeq([i \in DOMAIN info.map |-> region_pages(info.map[i])])

(* Start on the first page of todo, or go on to the checks.                *)
next_page(todo) ==
  IF todo = <<>> THEN pc' = "verify" /\ op' = Idle
  ELSE IF Head(todo) = NotWriteBack THEN pc' = "discard" /\ op' = Idle
  ELSE /\ pc' = "map_page"
       /\ op' = [va |-> identity(Head(todo)), level |-> 1, table |-> paging_root, created |-> <<>>,
                 todo |-> todo]

(* pmm_init has accepted the boot information; paging_init starts, or      *)
(* refuses an unsupported CPU state or an allocator without pages.         *)
boot(info) ==
  /\ pc = "boot" /\ pmm_init(info) /\ ready'
  /\ pc' \in IF total_pages' = 0 THEN {"failed"} ELSE {"failed", "root"}
  /\ UNCHANGED <<table_pages, mem, paging_root, active, op, cached, owned>>

paging_init ==
  /\ pc = "root"
  /\ IF no_table
     THEN pc' = "failed" /\ UNCHANGED <<pmmVars, table_pages, mem, paging_root>>
     ELSE \E page \in Pages :
            /\ new_table(page)
            /\ mem' = put(mem, page, EmptyTable)
            /\ paging_root' = page
            /\ pc' = "map_boot_ram"
  /\ UNCHANGED <<active, op, cached, owned>>

map_boot_ram ==
  /\ pc = "map_boot_ram"
  /\ next_page(boot_ram(boot_info))
  /\ UNCHANGED <<pmmVars, table_pages, mem, paging_root, active, cached, owned>>

(* Faulty variant: read-only data is writable.                             *)
identity_flags_two_kinds(page) == IF page \in Text THEN {"X"} ELSE {"W"}

identity_flags(page) ==
  IF page \in Text THEN {"X"} ELSE IF page \in Rodata THEN {} ELSE {"W"}

map_page_leaf ==
  /\ pc = "map_page" /\ op.level = 4
  /\ mem' = [mem EXCEPT ![op.table] =
               put(@, op.va[4], entry(Head(op.todo), identity_flags(Head(op.todo))))]
  /\ next_page(Tail(op.todo))
  /\ UNCHANGED <<pmmVars, table_pages, paging_root, active, cached, owned>>

mapped_page(page) == \E e \in leaf(identity(page)) : e.page = page

mapped_range(base, size) ==
  /\ size # 0 /\ base >= LOW_MEMORY /\ base < PMM_LIMIT /\ size <= PMM_LIMIT - base
  /\ \A page \in base \div PMM_PAGE_SIZE .. (base + size - 1) \div PMM_PAGE_SIZE : mapped_page(page)

required_regions_mapped(info) ==
  /\ mapped_range(info.kernel_base, info.kernel_size)
  /\ mapped_range(info.stack_base, info.stack_size)
  /\ mapped_range(info.self, INFO_SIZE)
  /\ mapped_range(info.memory_map, info.memory_map_size)
  /\ \A i \in DOMAIN table_pages : mapped_range(table_pages[i] * PMM_PAGE_SIZE, PMM_PAGE_SIZE)

guards(info) ==
  {info.stack_base \div PMM_PAGE_SIZE - 1, (info.stack_base + info.stack_size) \div PMM_PAGE_SIZE}
    \cup DfGuards

(* The linker puts the kernel's text, read-only data and inner guards in   *)
(* the kernel image, and the loader puts the stack's guards in the         *)
(* allocation of the stack: the allocator manages none of these pages.     *)
ASSUME PlacementAssumption ==
  \A info \in BootInfos :
    (mark_usable_pages(info) \ reserve_boot_regions(info))
      \cap (Text \cup Rodata \cup guards(info)) = {}

(* All guards are distinct pages: removing one leaves the others mapped.   *)
guards_mapped(info) ==
  \A page \in guards(info) : mapped_range(page * PMM_PAGE_SIZE, PMM_PAGE_SIZE)

without_guards(info) ==
  [t \in DOMAIN mem |->
     Restrict(mem[t], {i \in DOMAIN mem[t] :
        ~\E page \in guards(info) : table_at(identity(page), 3) = t /\ identity(page)[4] = i})]

(* The checks, unmap_stack_guards and activate_page_tables: CR3 changes    *)
(* when everything is in place.                                            *)
activate_page_tables ==
  /\ pc = "verify"
  /\ IF required_regions_mapped(boot_info) /\ guards_mapped(boot_info)
     THEN mem' = without_guards(boot_info) /\ active' = TRUE /\ pc' = "idle"
     ELSE UNCHANGED <<mem, active>> /\ pc' = "discard"
  /\ UNCHANGED <<pmmVars, table_pages, paging_root, op, cached, owned>>

(* Faulty variant: the root is not given back.                             *)
discard_page_tables_keeps_root ==
  /\ pc = "discard"
  /\ IF Len(table_pages) = 1
     THEN paging_root' = 0 /\ pc' = "failed" /\ UNCHANGED <<pmmVars, table_pages, mem>>
     ELSE /\ table_pages' = Front(table_pages)
          /\ pmm_free(Last(table_pages) * PMM_PAGE_SIZE)
          /\ mem' = Restrict(mem, DOMAIN mem \ {Last(table_pages)})
          /\ UNCHANGED <<paging_root, pc>>
  /\ UNCHANGED <<active, op, cached, owned>>

discard_page_tables ==
  /\ pc = "discard"
  /\ IF table_pages = <<>>
     THEN paging_root' = 0 /\ pc' = "failed" /\ UNCHANGED <<pmmVars, table_pages, mem>>
     ELSE /\ table_pages' = Front(table_pages)
          /\ pmm_free(Last(table_pages) * PMM_PAGE_SIZE)
          /\ mem' = Restrict(mem, DOMAIN mem \ {Last(table_pages)})
          /\ UNCHANGED <<paging_root, pc>>
  /\ UNCHANGED <<active, op, cached, owned>>

-----------------------------------------------------------------------------
(* The dynamic window.                                                     *)

dynamic_address(va) == active /\ va \in Windows

valid_flags(flags) == flags \subseteq {"W", "X"}

(* path succeeds when every level of the walk is present.                  *)
path(va) == leaf(va) # {}

(* Faulty variant: a page table may be mapped.                             *)
maps_tables(va, page, flags) ==
  /\ dynamic_address(va) /\ valid_flags(flags)
  /\ pmm_is_allocated(page * PMM_PAGE_SIZE)

maps(va, page, flags) ==
  /\ dynamic_address(va) /\ valid_flags(flags)
  /\ pmm_is_allocated(page * PMM_PAGE_SIZE)
  /\ page \notin Range(table_pages)

(* The call; a call that is refused at once has no effect.                 *)
paging_map(va, page, flags) ==
  /\ pc = "idle"
  /\ maps(va, page, flags)
  /\ pc' = "map"
  /\ op' = [va |-> va, level |-> 1, table |-> paging_root, created |-> <<>>,
            page |-> page, flags |-> flags]
  /\ UNCHANGED <<pmmVars, table_pages, mem, paging_root, active, cached, owned>>

return ==
  /\ pc' = "idle" /\ op' = Idle

(* Faulty variant: an address that is mapped already is mapped again.      *)
map_leaf_replaces ==
  /\ pc = "map" /\ op.level = 4
  /\ mem' = [mem EXCEPT ![op.table] = put(@, op.va[4], entry(op.page, op.flags))]
  /\ pc' = "invalidate"
  /\ UNCHANGED <<op, pmmVars, table_pages, paging_root, active, cached, owned>>

map_leaf ==
  /\ pc = "map" /\ op.level = 4
  /\ \/ /\ op.va[4] \in DOMAIN mem[op.table]
        /\ return
        /\ UNCHANGED mem
     \/ /\ op.va[4] \notin DOMAIN mem[op.table]
        /\ mem' = [mem EXCEPT ![op.table] = put(@, op.va[4], entry(op.page, op.flags))]
        /\ pc' = "invalidate"
        /\ UNCHANGED op
  /\ UNCHANGED <<pmmVars, table_pages, paging_root, active, cached, owned>>

(* invlpg drops the translation of the address and every cached pointer to *)
(* a table.                                                                *)
x86_invalidate_page(va) ==
  cached' = IF Len(cached.prefix) < 4 \/ cached.prefix = va THEN NothingCached ELSE cached

invalidate_step(label, next) ==
  /\ pc = label
  /\ x86_invalidate_page(op.va)
  /\ pc' = next
  /\ UNCHANGED <<pmmVars, table_pages, mem, paging_root, active, op, owned>>

(* The last store of map and protect is followed by one invlpg.            *)
invalidate_and_return ==
  /\ pc = "invalidate"
  /\ x86_invalidate_page(op.va)
  /\ return
  /\ UNCHANGED <<pmmVars, table_pages, mem, paging_root, active, owned>>

(* A map that ran out of tables removes the ones it made, deepest first.   *)
roll_back ==
  /\ pc = "roll_back"
  /\ IF op.created = <<>>
     THEN return /\ UNCHANGED mem
     ELSE LET made == Last(op.created) IN
          /\ mem' = [mem EXCEPT ![made.table] = drop(@, made.index)]
          /\ pc' = "roll_back_invalidate"
          /\ UNCHANGED op
  /\ UNCHANGED <<pmmVars, table_pages, paging_root, active, cached, owned>>

roll_back_release ==
  /\ pc = "roll_back_release"
  /\ release_table(Last(op.created).child)
  /\ op' = [op EXCEPT !.created = Front(@)]
  /\ pc' = "roll_back"
  /\ UNCHANGED <<paging_root, active, cached, owned>>

(* unmap keeps the path it found; level counts down from the last-level    *)
(* table.                                                                  *)
paging_unmap(va) ==
  /\ pc = "idle"
  /\ dynamic_address(va) /\ path(va)
  /\ mem' = [mem EXCEPT ![table_at(va, 3)] = drop(@, va[4])]
  /\ op' = [va |-> va, level |-> 3,
            tables |-> [level \in 0 .. 3 |-> table_at(va, level)]]
  /\ pc' = "unmap_invalidate"
  /\ UNCHANGED <<pmmVars, table_pages, paging_root, active, cached, owned>>

(* Faulty variant: the loop ends one level early.                          *)
reclaim_keeps_one ==
  /\ pc = "reclaim"
  /\ IF op.level = 1 \/ DOMAIN mem[op.tables[op.level]] # {}
     THEN return /\ UNCHANGED mem
     ELSE /\ mem' = [mem EXCEPT ![op.tables[op.level - 1]] = drop(@, op.va[op.level])]
          /\ pc' = "reclaim_invalidate"
          /\ UNCHANGED op
  /\ UNCHANGED <<pmmVars, table_pages, paging_root, active, cached, owned>>

(* Faulty variant: a table is released without an invlpg.                  *)
reclaim_no_invalidate ==
  /\ pc = "reclaim"
  /\ IF op.level = 0 \/ DOMAIN mem[op.tables[op.level]] # {}
     THEN return /\ UNCHANGED mem
     ELSE /\ mem' = [mem EXCEPT ![op.tables[op.level - 1]] = drop(@, op.va[op.level])]
          /\ pc' = "reclaim_release"
          /\ UNCHANGED op
  /\ UNCHANGED <<pmmVars, table_pages, paging_root, active, cached, owned>>

reclaim ==
  /\ pc = "reclaim"
  /\ IF op.level = 0 \/ DOMAIN mem[op.tables[op.level]] # {}
     THEN return /\ UNCHANGED mem
     ELSE /\ mem' = [mem EXCEPT ![op.tables[op.level - 1]] = drop(@, op.va[op.level])]
          /\ pc' = "reclaim_invalidate"
          /\ UNCHANGED op
  /\ UNCHANGED <<pmmVars, table_pages, paging_root, active, cached, owned>>

reclaim_release ==
  /\ pc = "reclaim_release"
  /\ release_table(op.tables[op.level])
  /\ op' = [op EXCEPT !.level = @ - 1]
  /\ pc' = "reclaim"
  /\ UNCHANGED <<paging_root, active, cached, owned>>

(* Faulty variant: the old permissions are not invalidated.                *)
paging_protect_no_invalidate(va, flags) ==
  /\ pc = "idle"
  /\ dynamic_address(va) /\ valid_flags(flags) /\ path(va)
  /\ mem' = [mem EXCEPT ![table_at(va, 3)] = put(@, va[4], entry(table_at(va, 4), flags))]
  /\ UNCHANGED <<pmmVars, table_pages, paging_root, active, pc, op, cached, owned>>

paging_protect(va, flags) ==
  /\ pc = "idle"
  /\ dynamic_address(va) /\ valid_flags(flags) /\ path(va)
  /\ mem' = [mem EXCEPT ![table_at(va, 3)] = put(@, va[4], entry(table_at(va, 4), flags))]
  /\ op' = [va |-> va]
  /\ pc' = "invalidate"
  /\ UNCHANGED <<pmmVars, table_pages, paging_root, active, cached, owned>>

(* What paging_query stores in its outputs, for addresses it accepts.      *)
paging_query(va) == leaf(va)

-----------------------------------------------------------------------------
(* The CPU fetches one more level of a dynamic address, starting from the  *)
(* root or from the table pointer it has cached, for a program's access or *)
(* speculatively.  A table that was released holds anything.               *)
cpu_walk ==
  /\ active
  /\ \E va \in Windows, prefix \in {<<>>, cached.prefix} :
       LET depth == Len(prefix)
           table == IF depth = 0 THEN paging_root ELSE cached.page
       IN  /\ depth < 4 /\ prefix = SubSeq(va, 1, depth)
           /\ table \in DOMAIN mem
           /\ va[depth + 1] \in DOMAIN mem[table]
           /\ cached' = [prefix |-> SubSeq(va, 1, depth + 1),
                         page |-> mem[table][va[depth + 1]].page,
                         flags |-> mem[table][va[depth + 1]].flags]
  /\ UNCHANGED <<pmmVars, table_pages, mem, paging_root, active, pc, op, owned>>

(* Callers of the API: they keep a page allocated while it is mapped.      *)
caller_alloc ==
  /\ pc = "idle" /\ Cardinality(owned) < MaxOwned
  /\ \E page \in Pages : pmm_alloc(page) /\ owned' = owned \cup {page}
  /\ UNCHANGED <<table_pages, mem, paging_root, active, pc, op, cached>>

caller_free ==
  /\ pc = "idle"
  /\ \E page \in owned :
       /\ \A va \in Windows : \A e \in leaf(va) : e.page # page
       /\ pmm_free(page * PMM_PAGE_SIZE)
       /\ owned' = owned \ {page}
  /\ UNCHANGED <<table_pages, mem, paging_root, active, pc, op, cached>>

(* initialize_memory reports the failure and the kernel spins.             *)
boot_failure == pc = "failed" /\ UNCHANGED vars

Next ==
  \/ \E info \in BootInfos : boot(info)
  \/ paging_init \/ map_boot_ram
  \/ descend("map_page") \/ add_table("map_page") \/ out_of_tables("map_page", "discard")
  \/ map_page_leaf
  \/ activate_page_tables
  \/ discard_page_tables
  \/ \E va \in Windows \cup Outside, page \in Pages, flags \in FlagSets : paging_map(va, page, flags)
  \/ descend("map") \/ add_table("map") \/ out_of_tables("map", "roll_back")
  \/ map_leaf
  \/ invalidate_and_return
  \/ roll_back
  \/ invalidate_step("roll_back_invalidate", "roll_back_release")
  \/ roll_back_release
  \/ \E va \in Windows \cup Outside : paging_unmap(va)
  \/ invalidate_step("unmap_invalidate", "reclaim")
  \/ reclaim
  \/ invalidate_step("reclaim_invalidate", "reclaim_release")
  \/ reclaim_release
  \/ \E va \in Windows \cup Outside, flags \in FlagSets : paging_protect(va, flags)
  \/ cpu_walk
  \/ caller_alloc \/ caller_free
  \/ boot_failure

Spec == Init /\ [][Next]_vars

-----------------------------------------------------------------------------
(* Every variable has its type; no entry points outside of memory.         *)
PagingTypeOK ==
  /\ Range(table_pages) \subseteq Pages /\ DOMAIN mem \subseteq Pages
  /\ \A t \in DOMAIN mem : Range(mem[t]) \subseteq [page : Pages, flags : SUBSET {"W", "X"}]
  /\ paging_root \in Pages /\ active \in BOOLEAN
  /\ owned \subseteq Pages

(* The allocated pages are the tables and the callers' pages, each one     *)
(* held by exactly one of them, at every step of every operation and of    *)
(* its roll-back; the tables stay within the budget (table_pages).         *)
PagesHaveOneOwner ==
  /\ IsInjective(table_pages) /\ Len(table_pages) <= MAX_TABLES
  /\ allocated = Range(table_pages) \cup owned
  /\ Range(table_pages) \cap owned = {}

(* The tables one level below a set of tables.                             *)
Below(tables) == UNION {{e.page : e \in Range(mem[t])} : t \in tables}
LinksIn(tables) == UNION {{<<t, i>> : i \in DOMAIN mem[t]} : t \in tables}

(* Between operations the tables are a tree under the root: each one but   *)
(* the root has one link to it, none is lost or shared, and none in the    *)
(* window is empty.  So paging_unmap reclaims every table it empties, and  *)
(* a paging_map that fails half way leaves none behind.                    *)
TablesFormTree ==
  pc = "idle" =>
    LET second == Below({paging_root})
        third  == Below(second)
        fourth == Below(third)
    IN  /\ Range(table_pages) = {paging_root} \cup second \cup third \cup fourth
        /\ Cardinality(LinksIn({paging_root} \cup second \cup third)) = Len(table_pages) - 1
        /\ \A va \in Windows : \A level \in 1 .. 3 :
             \A e \in walk(va)[level] : DOMAIN mem[e.page] # {}

(* The CPU never holds a pointer to a table that has been freed, not even  *)
(* between the stores of one operation: unlink, invlpg, release.           *)
CachedTableLive ==
  Len(cached.prefix) \in 1 .. 3 => cached.page \in Range(table_pages)

(* Between operations nothing the CPU has cached is stale.                 *)
CacheCoherent ==
  pc = "idle" /\ cached.prefix # <<>> =>
    \E va \in Windows :
      /\ SubSeq(va, 1, Len(cached.prefix)) = cached.prefix
      /\ walk(va)[Len(cached.prefix)] = {entry(cached.page, cached.flags)}

(* What a dynamic address can reach is always a page its callers hold:     *)
(* never a page table, the kernel, a guard or a free page.                 *)
WindowShowsOwnedPages ==
  active => \A va \in Windows : \A e \in paging_query(va) : e.page \in owned

Space == INSTANCE AddressSpace WITH
  Address <- Windows, Absent <- {},
  mapping <- [va \in Windows |-> IF active THEN paging_query(va) ELSE {}],
  target <- op.va

(* Every step of map, unmap and protect, with its table management, is a   *)
(* change of an abstract map at the address of the call and at no other,   *)
(* or invisible: no roll-back and no reclaimed table takes a neighbour     *)
(* along; map never replaces a mapping and protect keeps the page.         *)
WindowIsMap == Space!SpaceSpec

(* The pages of boot RAM: loader and conventional memory above 1 MiB.      *)
BootRam(info) ==
  {page \in LOW_PAGE .. PAGE_COUNT - 1 : \E i \in DOMAIN info.map :
     LET d == info.map[i] IN
     /\ d.type \in {LoaderCode, LoaderData, Conventional} /\ ~d.runtime
     /\ PageBytes(page) \subseteq RegionBytes(d.physical_start, d.number_of_pages * PMM_PAGE_SIZE)}

(* Once CR3 points to it, the identity map has exactly the boot RAM but    *)
(* the guards, nothing is both writable and executable, only the kernel's  *)
(* text is executable, and every page the allocator may hand out is        *)
(* writable: new_table clears its tables through the identity map.         *)
IdentityMapExact ==
  active =>
    /\ \A page \in Pages : leaf(identity(page)) # {} <=> page \in BootRam(boot_info) \ guards(boot_info)
    /\ \A page \in Pages : \A e \in leaf(identity(page)) :
         /\ e.page = page
         /\ "X" \in e.flags <=> page \in Text
         /\ "W" \in e.flags <=> page \notin Text \cup Rodata
    /\ \A page \in eligible : leaf(identity(page)) = {entry(page, {"W"})}

(* A paging_init that fails gives every page back and leaves the           *)
(* firmware's tables in use.                                               *)
FailedInitLeavesNothing ==
  pc = "failed" => ~active /\ allocated = {} /\ table_pages = <<>> /\ mem = <<>>
=============================================================================
