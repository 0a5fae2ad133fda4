---------------------------- MODULE PagingCheck ----------------------------
(***************************************************************************)
(* The self test of the dynamic window, kernel/paging_check.c, run on the  *)
(* tables paging_init has built.  The test is a script; its calls run      *)
(* through the steps of module Paging, and its stores and loads through    *)
(* the translation the CPU happens to have.                                *)
(***************************************************************************)
EXTENDS Paging

CONSTANTS V, Other, BeyondWindow  \* PAGING_DYNAMIC_BASE, 2 MiB above it, an address outside

ASSUME CheckAssumption == {V, Other} \subseteq Windows /\ BeyondWindow \in Outside

VARIABLES
  at,       \* position in the script, 0 once it has failed
  local,    \* the variables p, q, before and held
  content,  \* what the pages that are not tables hold
  entered   \* history: pages allocated and tables in use at entry

checkVars == <<at, local, content, entered>>
quiet == UNCHANGED <<table_pages, mem, paging_root, active, pc, op, cached>>

Map(va, who, flags, ok) == [do |-> "map", va |-> va, who |-> who, flags |-> flags, ok |-> ok]
Unmap(va, ok) == [do |-> "unmap", va |-> va, ok |-> ok]
Protect(va, flags, ok) == [do |-> "protect", va |-> va, flags |-> flags, ok |-> ok]
Query(va, who, flags) == [do |-> "query", va |-> va, who |-> who, flags |-> flags, ok |-> TRUE]
Unmapped(va) == Query(va, "none", {})
Store(va, value) == [do |-> "store", va |-> va, value |-> value]
Loads(va, value) == [do |-> "load", va |-> va, value |-> value]
Holds(who, value) == [do |-> "holds", who |-> who, value |-> value]
Alloc(who) == [do |-> "alloc", who |-> who]
Free(who) == [do |-> "free", who |-> who]
Do(what) == [do |-> what]

(* Addresses that are not page-aligned or canonical have no counterpart.   *)
rejects_invalid_mappings ==
  <<Map(V, "text", {"W"}, FALSE), Map(V, "rodata", {"W"}, FALSE), Map(V, "stack_guard", {"W"}, FALSE),
    Map(V, "df_guard", {"W"}, FALSE), Map(BeyondWindow, "p", {}, FALSE), Map(V, "none", {}, FALSE),
    Map(V, "p", {"bad"}, FALSE), Unmap(V, FALSE), Protect(V, {}, FALSE), Unmapped(V)>>

check_aliases_and_permissions ==
  <<Do("enter"), Alloc("p"), Alloc("q")>> \o rejects_invalid_mappings \o
  <<Map(V, "p", {"W"}, TRUE), Map(V, "q", {}, FALSE), Map(Other, "p", {}, TRUE),
    Store(V, 77), Holds("p", 77), Loads(Other, 77), Loads(V, 77), Query(V, "p", {"W"}),
    Protect(V, {}, TRUE), Query(V, "p", {}), Protect(V, {"W"}, TRUE), Store(V, 42),
    Unmap(V, TRUE), Unmapped(V), Unmap(V, FALSE), Map(V, "q", {"W"}, TRUE), Store(V, 99),
    Holds("q", 99), Holds("p", 42), Unmap(V, TRUE), Unmap(Other, TRUE),
    Free("p"), Free("q"), Do("balanced")>>

check_failed_map_cleanup ==
  <<Do("enter"), Alloc("p"), Do("hoard"), Map(V, "p", {"W"}, FALSE), Do("two_left"), Unmapped(V),
    Do("release"), Map(V, "p", {"W"}, TRUE), Unmap(V, TRUE), Free("p"), Do("balanced")>>

paging_boot_check == check_aliases_and_permissions \o check_failed_map_cleanup

Passed == Len(paging_boot_check) + 1

CheckInit ==
  /\ Init
  /\ at = 1 /\ local = [p |-> 0, q |-> 0, before |-> 0, held |-> 0]
  /\ content = [page \in Pages |-> 0] /\ entered = <<{}, 0>>

page_of(who) ==
  CASE who \in {"p", "q"} -> local[who]
    [] who = "text" -> Min(Text)
    [] who = "rodata" -> Min(Rodata)
    [] who = "stack_guard" -> boot_info.stack_base \div PMM_PAGE_SIZE - 1
    [] who = "df_guard" -> Min(DfGuards)
    [] who = "none" -> 0

statement == paging_boot_check[at]
next(what) == pc = "idle" /\ at \in 1 .. Passed - 1 /\ statement.do = what
expect(ok) == at' = IF ok THEN at + 1 ELSE 0

can_alloc == \E page \in Pages : alloc_finds(page)

-----------------------------------------------------------------------------
(* Calls of the paging interface.                                          *)

accepted ==
  CASE statement.do = "map" -> maps(statement.va, page_of(statement.who), statement.flags)
    [] statement.do = "unmap" -> dynamic_address(statement.va) /\ path(statement.va)
    [] statement.do = "protect" ->
         dynamic_address(statement.va) /\ valid_flags(statement.flags) /\ path(statement.va)

refused ==
  /\ next("map") \/ next("unmap") \/ next("protect")
  /\ ~accepted /\ expect(~statement.ok)
  /\ UNCHANGED <<vars, local, content, entered>>

call ==
  /\ \/ next("map") /\ paging_map(statement.va, page_of(statement.who), statement.flags)
     \/ next("unmap") /\ paging_unmap(statement.va)
     \/ next("protect") /\ paging_protect(statement.va, statement.flags)
  /\ UNCHANGED checkVars

(* The steps of a call; where it returns decides what it returns.  A page  *)
(* that becomes a table loses what it held.                                *)
call_step ==
  /\ \/ descend("map") \/ add_table("map") \/ out_of_tables("map", "roll_back")
     \/ map_leaf \/ invalidate_and_return
     \/ roll_back \/ roll_back_release
     \/ invalidate_step("roll_back_invalidate", "roll_back_release")
     \/ invalidate_step("unmap_invalidate", "reclaim")
     \/ reclaim \/ reclaim_release
     \/ invalidate_step("reclaim_invalidate", "reclaim_release")
  /\ IF pc' = "idle" THEN expect(statement.ok = (pc \in {"invalidate", "reclaim"})) ELSE UNCHANGED at
  /\ content' = [page \in Pages |-> IF page \in DOMAIN mem' THEN 0 ELSE content[page]]
  /\ UNCHANGED <<local, entered>>

query ==
  /\ next("query")
  /\ expect(paging_query(statement.va) =
              IF statement.who = "none" THEN {} ELSE {entry(page_of(statement.who), statement.flags)})
  /\ UNCHANGED <<vars, local, content, entered>>

-----------------------------------------------------------------------------
(* Memory accesses, and calls of the page allocator.                       *)

translation(va) ==
  IF cached.prefix = va THEN {entry(cached.page, cached.flags)} ELSE leaf(va)

(* Without a writable translation the access is a page fault.              *)
store ==
  /\ next("store")
  /\ LET target == {e.page : e \in {t \in translation(statement.va) : "W" \in t.flags}}
     IN  /\ content' = [page \in Pages |-> IF page \in target THEN statement.value ELSE content[page]]
         /\ expect(target # {})
  /\ UNCHANGED <<vars, local, entered>>

compare ==
  /\ \/ next("load") /\ expect(\E e \in translation(statement.va) : content[e.page] = statement.value)
     \/ next("holds") /\ expect(content[page_of(statement.who)] = statement.value)
     \/ next("balanced") /\ expect(free_pages = local.before)
     \/ next("two_left") /\ expect(free_pages = 2)
  /\ UNCHANGED <<vars, local, content, entered>>

enter ==
  /\ next("enter") /\ expect(TRUE)
  /\ local' = [local EXCEPT !.before = free_pages]
  /\ entered' = <<allocated, Len(table_pages)>>
  /\ UNCHANGED <<vars, content>>

alloc ==
  /\ next("alloc") /\ expect(can_alloc)
  /\ IF can_alloc
     THEN \E page \in Pages :
            /\ pmm_alloc(page) /\ owned' = owned \cup {page}
            /\ local' = [local EXCEPT ![statement.who] = page]
     ELSE pmm_alloc_fails /\ UNCHANGED <<owned, local>>
  /\ quiet /\ UNCHANGED <<content, entered>>

free ==
  /\ next("free")
  /\ LET page == local[statement.who]
     IN  /\ expect(frees(page * PMM_PAGE_SIZE)) /\ pmm_free(page * PMM_PAGE_SIZE)
         /\ owned' = owned \ {page}
  /\ quiet /\ UNCHANGED <<local, content, entered>>

(* All pages but two, linked through their first word.                     *)
hoard ==
  /\ next("hoard")
  /\ IF free_pages > 2
     THEN \E page \in Pages :
            /\ pmm_alloc(page) /\ owned' = owned \cup {page}
            /\ content' = [content EXCEPT ![page] = local.held]
            /\ local' = [local EXCEPT !.held = page]
            /\ UNCHANGED at
     ELSE expect(TRUE) /\ UNCHANGED <<pmmVars, owned, content, local>>
  /\ quiet /\ UNCHANGED entered

release ==
  /\ next("release")
  /\ IF local.held # 0
     THEN /\ at' = IF frees(local.held * PMM_PAGE_SIZE) THEN at ELSE 0
          /\ pmm_free(local.held * PMM_PAGE_SIZE) /\ owned' = owned \ {local.held}
          /\ local' = [local EXCEPT !.held = content[local.held]]
     ELSE expect(TRUE) /\ UNCHANGED <<pmmVars, owned, local>>
  /\ quiet /\ UNCHANGED <<content, entered>>

paging_init_step ==
  /\ \/ \E info \in BootInfos : boot(info)
     \/ paging_init \/ map_boot_ram
     \/ descend("map_page") \/ add_table("map_page") \/ out_of_tables("map_page", "discard")
     \/ map_page_leaf \/ activate_page_tables \/ discard_page_tables
     \/ boot_failure
  /\ UNCHANGED checkVars

(* The kernel goes on to the timer, or spins.                              *)
checked == at \in {0, Passed} /\ UNCHANGED <<vars, checkVars>>

CheckNext ==
  \/ paging_init_step
  \/ refused \/ call \/ call_step \/ query
  \/ store \/ compare \/ enter \/ alloc \/ free \/ hoard \/ release
  \/ cpu_walk /\ UNCHANGED checkVars
  \/ checked

CheckSpec == CheckInit /\ [][CheckNext]_<<vars, checkVars>>

-----------------------------------------------------------------------------
(* The self test stops the boot only on a machine too small for it (six    *)
(* pages and four tables), whatever the CPU had cached when it stores      *)
(* through an alias, and one that passes leaves neither a page nor a table *)
(* behind, not even after the map that must fail half way                  *)
(* (paging_boot_check, initialize_memory).                                 *)
PagingSelfTestSound ==
  /\ at = 0 => local.before < 6 \/ entered[2] + 4 > MAX_TABLES
  /\ at = Passed => allocated = entered[1] /\ Len(table_pages) = entered[2]
=============================================================================
