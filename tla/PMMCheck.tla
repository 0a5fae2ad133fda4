------------------------------ MODULE PMMCheck ------------------------------
(***************************************************************************)
(* The boot-time self test of the allocator, kernel/pmm_check.c, run from  *)
(* any state the allocator can reach: main.c calls it once on a fresh      *)
(* allocator and again when the page tables hold pages.  One step per      *)
(* allocator call; the test is the only caller while it runs.              *)
(***************************************************************************)
EXTENDS PMM, Functions

(* The address after a page's own is not aligned.                          *)
ASSUME CheckAssumption == PMM_PAGE_SIZE > 1

VARIABLES
  pc,       \* next statement of pmm_boot_check, "idle" outside
  before,   \* pmm_available() at entry
  pages,    \* pages[0..2], shifted to 1..3 as they are allocated
  content,  \* the pattern each page of RAM holds; 0 is anything else
  held      \* history: the pages allocated when the test was entered

checkVars == <<pc, before, pages, content, held>>
vars == <<pmmVars, checkVars>>

address_of(page) == page * PMM_PAGE_SIZE

can_alloc == \E page \in Pages : alloc_finds(page)

Init ==
  /\ PmmInit
  /\ pc = "idle" /\ before = 0 /\ pages = <<>>
  /\ content = [page \in Pages |-> 0]
  /\ held = {}

(* Other calls of the allocator, before the test and between two tests.    *)
Caller ==
  /\ pc \in {"idle", "passed"}
  /\ PmmNext
  /\ pc' = "idle"
  /\ UNCHANGED <<before, pages, content, held>>

(* Faulty variant: the test starts with fewer than three free pages.       *)
pmm_boot_check_unguarded ==
  /\ pc \in {"idle", "passed"} /\ ready
  /\ before' = free_pages
  /\ pages' = <<>>
  /\ held' = allocated
  /\ pc' = "alloc"
  /\ UNCHANGED <<pmmVars, content>>

pmm_boot_check ==
  /\ pc \in {"idle", "passed"} /\ ready
  /\ before' = free_pages
  /\ pages' = <<>>
  /\ held' = allocated
  /\ pc' = IF free_pages < 3 THEN "failed" ELSE "alloc"
  /\ UNCHANGED <<pmmVars, content>>

(* Allocate a page that differs from the earlier ones and fill it.         *)
alloc_page ==
  /\ pc = "alloc"
  /\ IF ~can_alloc
     THEN pmm_alloc_fails /\ pc' = "failed" /\ UNCHANGED <<pages, content>>
     ELSE \E page \in Pages :
            /\ pmm_alloc(page)
            /\ pages' = Append(pages, page)
            /\ content' = [content EXCEPT ![page] = page]
            /\ pc' = IF page \in Range(pages) THEN "failed"
                     ELSE IF Len(pages) = 2 THEN "verify" ELSE "alloc"
  /\ UNCHANGED <<before, held>>

verify ==
  /\ pc = "verify"
  /\ pc' = IF /\ \A i \in 1 .. 3 : content[pages[i]] = pages[i]
              /\ free_pages = before - 3
           THEN "misaligned" ELSE "failed"
  /\ UNCHANGED <<pmmVars, before, pages, content, held>>

(* One pmm_free whose result must be `expected'.                           *)
expect_free(at, address, expected, next) ==
  /\ pc = at
  /\ pmm_free(address)
  /\ pc' = IF frees(address) = expected THEN next ELSE "failed"
  /\ UNCHANGED <<before, pages, content, held>>

(* The freed page must be the next one handed out.                         *)
alloc_again ==
  /\ pc = "again"
  /\ IF ~can_alloc
     THEN pmm_alloc_fails /\ pc' = "failed"
     ELSE \E page \in Pages :
            /\ pmm_alloc(page)
            /\ pc' = IF page = pages[2] THEN "free0" ELSE "failed"
  /\ UNCHANGED <<before, pages, content, held>>

finish ==
  /\ pc = "finish"
  /\ pc' = IF free_pages = before THEN "passed" ELSE "failed"
  /\ UNCHANGED <<pmmVars, before, pages, content, held>>

(* boot_failure: the kernel spins for ever.                                *)
spin_forever == pc = "failed" /\ UNCHANGED vars

Next ==
  \/ Caller
  \/ pmm_boot_check
  \/ alloc_page
  \/ verify
  \/ expect_free("misaligned", address_of(pages[1]) + 1, FALSE, "page0")
  \/ expect_free("page0", 0, FALSE, "free1")
  \/ expect_free("free1", address_of(pages[2]), TRUE, "refree")
  \/ expect_free("refree", address_of(pages[2]), FALSE, "again")
  \/ alloc_again
  \/ expect_free("free0", address_of(pages[1]), TRUE, "free_again")
  \/ expect_free("free_again", address_of(pages[2]), TRUE, "free2")
  \/ expect_free("free2", address_of(pages[3]), TRUE, "finish")
  \/ finish
  \/ spin_forever

Spec == Init /\ [][Next]_vars

-----------------------------------------------------------------------------
(* The self test raises no false alarm: on a correct allocator with three  *)
(* free pages or more it never stops the boot (boot_failure in main.c),    *)
(* whatever was allocated and freed before.                                *)
NoFalseAlarm == pc = "failed" => before < 3

(* Passed or not, the test leaves exactly the pages allocated that were    *)
(* allocated when it was entered: its early `return false' statements leak *)
(* the pages taken so far, but only the first of them is ever executed     *)
(* (pmm_check.c: leave every page free on success).                        *)
TestLeavesNoTrace == pc \in {"passed", "failed"} => allocated = held
=============================================================================
