--------------------------- MODULE PMMCheckProofs ---------------------------
(***************************************************************************)
(* The self test of kernel/pmm_check.c passes on every allocator state     *)
(* that has three free pages, and leaves it as it was: proofs about module *)
(* PMMCheck.                                                               *)
(***************************************************************************)
EXTENDS PMMCheck, PMMProofs

-----------------------------------------------------------------------------
(* The inductive invariant.  The statements of the test, by the pages they *)
(* find allocated.                                                         *)
AllTaken == {"verify", "misaligned", "page0", "free1", "free0"}
SecondFreed == {"refree", "again"}
Filled == AllTaken \cup SecondFreed \cup {"free_again", "free2", "finish"}
Running == Filled \cup {"alloc"}

(* The pages taken are different, were free and hold their pattern; the    *)
(* second is the lowest that was free after the first.                     *)
PagesTaken ==
  /\ ready /\ before \in Nat /\ before >= 3
  /\ pages \in Seq(Pages) /\ Len(pages) <= 3
  /\ \A i \in 1 .. Len(pages) : pages[i] \in eligible \ held /\ content[pages[i]] = pages[i]
  /\ \A i, j \in 1 .. Len(pages) : i # j => pages[i] # pages[j]
  /\ Len(pages) >= 2 => \A other \in eligible \ held : other # pages[1] => pages[2] <= other

(* What is allocated while the test runs: everything that was, and the     *)
(* pages the test has not given back.                                      *)
TestBooks ==
  /\ pc = "alloc" =>
       /\ Len(pages) < 3 /\ free_pages = before - Len(pages)
       /\ allocated = held \cup {pages[i] : i \in 1 .. Len(pages)}
  /\ pc \in Filled => Len(pages) = 3
  /\ pc \in AllTaken => free_pages = before - 3 /\ allocated = held \cup {pages[1], pages[2], pages[3]}
  /\ pc \in SecondFreed => free_pages = before - 2 /\ allocated = held \cup {pages[1], pages[3]}
  /\ pc = "free_again" => free_pages = before - 2 /\ allocated = held \cup {pages[2], pages[3]}
  /\ pc = "free2" => free_pages = before - 1 /\ allocated = held \cup {pages[3]}
  /\ pc = "finish" => free_pages = before /\ allocated = held
  /\ pc \in {"passed", "failed"} => allocated = held
  /\ pc = "failed" => before < 3

CheckInv ==
  /\ PmmInv /\ EligibleExact
  /\ pc \in Running \cup {"idle", "passed", "failed"}
  /\ content \in [Pages -> Pages]
  /\ pc \in Running => PagesTaken
  /\ TestBooks

-----------------------------------------------------------------------------
(* What the test relies on.                                                *)

(* Page 0 is never managed, so freeing address 0 must fail.                *)
LEMMA ZeroUnmanaged ==
  ASSUME PmmInv, EligibleExact
  PROVE  0 \notin eligible
<1>1. CASE ready
  <2>1. eligible \subseteq LOW_PAGE .. PAGE_COUNT - 1
    BY <1>1 DEF EligibleExact
  <2>. QED BY <2>1, PmmAssumption
<1>2. CASE ~ready
  BY <1>2 DEF PmmInv, UntouchedBeforeInit
<1>. QED BY <1>1, <1>2

(* The address of a page is aligned, the one after it is not.              *)
LEMMA PageAddress ==
  ASSUME NEW page \in Pages
  PROVE  /\ address_of(page) \in U64 /\ address_of(page) + 1 \in U64
         /\ address_of(page) < PMM_LIMIT
         /\ address_of(page) % PMM_PAGE_SIZE = 0
         /\ address_of(page) \div PMM_PAGE_SIZE = page
         /\ (address_of(page) + 1) % PMM_PAGE_SIZE # 0
<1>. DEFINE s == PMM_PAGE_SIZE
<1>1. /\ page \in Nat /\ page < PAGE_COUNT /\ PAGE_COUNT \in Nat /\ s \in Nat \ {0} /\ s > 1
      /\ UINT64_MAX \in Nat /\ PAGE_COUNT * s + s <= UINT64_MAX
  BY PmmAssumption, CheckAssumption DEF Pages, PMM_LIMIT
<1>. HIDE DEF s
<1>2. page * s \in Nat /\ PAGE_COUNT * s \in Nat /\ page * s < PAGE_COUNT * s
  <2>1. /\ page + 1 <= PAGE_COUNT <=> (page + 1) * s <= PAGE_COUNT * s
        /\ (page + 1) * s = page * s + s /\ page * s \in Int
    BY <1>1, PageOrder
  <2>2. page * s \in Nat /\ PAGE_COUNT * s \in Nat
    BY <1>1, SMTT(20)
  <2>. QED BY <1>1, <2>1, <2>2
<1>3. (page * s) % s = 0 /\ (page * s) \div s = page
  BY <1>1, SMTT(20)
<1>4. (page * s + 1) % s = 1
  <2>1. (page * s + 1) \div s = page
    BY <1>1, <1>2, SMTT(20)
  <2>2. \A x \in Nat : x % s = x - (x \div s) * s
    BY <1>1, SMTT(20)
  <2>3. (page * s + 1) % s = (page * s + 1) - page * s
    BY <1>2, <2>1, <2>2
  <2>. QED BY <1>2, <2>3
<1>. QED BY <1>1, <1>2, <1>3, <1>4 DEF address_of, U64, PMM_LIMIT, s

(* pmm_free of a page succeeds exactly when the page is allocated.         *)
LEMMA FreeEffect ==
  ASSUME PmmInv, ready, NEW page \in Pages, pmm_free(address_of(page))
  PROVE  /\ frees(address_of(page)) <=> page \in allocated
         /\ page \in allocated =>
              /\ allocated' = allocated \ {page} /\ free_pages' = free_pages + 1
              /\ UNCHANGED <<eligible, ready>>
         /\ page \notin allocated => UNCHANGED pmmVars
<1>1. frees(address_of(page)) <=> page \in allocated
  BY PageAddress DEF frees, PmmInv, PagesAccounted
<1>2. address_of(page) \div PMM_PAGE_SIZE = page
  BY PageAddress
<1>. QED BY <1>1, <1>2 DEF pmm_free

(* With a free page left pmm_alloc succeeds, and takes the lowest.         *)
LEMMA AllocEffect ==
  ASSUME PmmInv, ready, free_pages # 0
  PROVE  /\ can_alloc
         /\ \A page \in Pages : pmm_alloc(page) =>
              /\ page \in eligible \ allocated
              /\ \A other \in eligible \ allocated : page <= other
              /\ allocated' = allocated \cup {page} /\ free_pages' = free_pages - 1
              /\ UNCHANGED <<eligible, ready>>
<1>1. can_alloc
  BY SearchSucceeds DEF can_alloc, alloc_finds
<1>2. ASSUME NEW page \in Pages, pmm_alloc(page)
      PROVE  /\ page \in eligible \ allocated
             /\ \A other \in eligible \ allocated : page <= other
             /\ allocated' = allocated \cup {page} /\ free_pages' = free_pages - 1
             /\ UNCHANGED <<eligible, ready>>
  <2>1. first_free(page)
    BY <1>2 DEF pmm_alloc, alloc_finds
  <2>. QED BY <1>2, <2>1, FirstFreeIsLowest DEF pmm_alloc
<1>. QED BY <1>1, <1>2

(* What was taken stays taken while the test frees and allocates.          *)
LEMMA TakenKept ==
  ASSUME PagesTaken, UNCHANGED <<ready, before, pages, content, held, eligible>>
  PROVE  PagesTaken'
BY DEF PagesTaken, Pages

-----------------------------------------------------------------------------
(* The steps.                                                              *)

(* Other callers, and the entry of the test.                               *)
LEMMA OutsideSteps ==
  ASSUME CheckInv, Caller \/ pmm_boot_check \/ spin_forever \/ UNCHANGED vars
  PROVE  CheckInv'
<1>1. PmmInv' /\ EligibleExact'
  <2>1. [PmmNext]_pmmVars
    BY DEF Caller, pmm_boot_check, spin_forever, vars
  <2>. QED BY <2>1, PmmNextInv, EligibleStep DEF CheckInv
<1>2. content' \in [Pages -> Pages]
  BY DEF CheckInv, Caller, pmm_boot_check, spin_forever, vars, checkVars
<1>3. CASE Caller
  <2>1. pc' = "idle"
    BY <1>3 DEF Caller
  <2>. QED BY <1>1, <1>2, <2>1 DEF CheckInv, TestBooks, Running, Filled, AllTaken, SecondFreed
<1>4. CASE pmm_boot_check
  <2>1. /\ ready /\ before' = free_pages /\ pages' = <<>> /\ held' = allocated
        /\ pc' = IF free_pages < 3 THEN "failed" ELSE "alloc"
        /\ UNCHANGED <<eligible, allocated, free_pages, ready>>
    BY <1>4 DEF pmm_boot_check, pmmVars
  <2>2. free_pages \in Nat
    BY DEF CheckInv, PmmInv, PmmTypeOK
  <2>3. pc' = "alloc" => PagesTaken'
    BY <2>1, <2>2 DEF PagesTaken
  <2>4. TestBooks'
    BY <2>1, <2>2 DEF TestBooks, Filled, AllTaken, SecondFreed
  <2>. QED BY <1>1, <1>2, <2>1, <2>3, <2>4 DEF CheckInv, Running, Filled, AllTaken, SecondFreed
<1>5. CASE spin_forever \/ UNCHANGED vars
  <2>1. UNCHANGED <<pc, before, pages, content, held, ready, eligible, allocated, free_pages>>
    BY <1>5 DEF spin_forever, vars, checkVars, pmmVars
  <2>2. TestBooks'
    BY <2>1 DEF CheckInv, TestBooks
  <2>. QED BY <1>1, <1>2, <2>1, <2>2, TakenKept DEF CheckInv
<1>. QED BY <1>3, <1>4, <1>5

(* The loop that takes three pages never fails.                            *)
LEMMA AllocPageStep ==
  ASSUME CheckInv, alloc_page
  PROVE  CheckInv'
<1>1. /\ pc = "alloc" /\ PagesTaken /\ TestBooks /\ PmmInv /\ EligibleExact /\ UNCHANGED <<before, held>>
      /\ content \in [Pages -> Pages]
  BY DEF CheckInv, alloc_page, Running
<1>. DEFINE n == Len(pages)
<1>2. /\ n \in Nat /\ n < 3 /\ before \in Nat /\ before >= 3 /\ free_pages = before - n /\ ready
      /\ allocated = held \cup {pages[i] : i \in 1 .. n} /\ pages \in Seq(Pages)
  BY <1>1 DEF PagesTaken, TestBooks
<1>3. free_pages # 0
  BY <1>2
<1>4. PICK page \in Pages :
        /\ pmm_alloc(page)
        /\ pages' = Append(pages, page)
        /\ content' = [content EXCEPT ![page] = page]
        /\ pc' = IF page \in Range(pages) THEN "failed"
                 ELSE IF Len(pages) = 2 THEN "verify" ELSE "alloc"
  BY <1>1, <1>2, <1>3, AllocEffect DEF alloc_page
<1>5. /\ page \in eligible /\ page \notin allocated
      /\ \A other \in eligible \ allocated : page <= other
      /\ allocated' = allocated \cup {page} /\ free_pages' = free_pages - 1
      /\ UNCHANGED <<eligible, ready>>
  BY <1>1, <1>2, <1>3, <1>4, AllocEffect
<1>6. PmmInv' /\ EligibleExact'
  <2>1. [PmmNext]_pmmVars
    BY <1>4 DEF PmmNext
  <2>. QED BY <1>1, <2>1, PmmNextInv, EligibleStep
<1>7. content' \in [Pages -> Pages]
  BY <1>1, <1>4
<1>8. page \notin held /\ \A i \in 1 .. n : pages[i] # page
  BY <1>2, <1>5
<1>9. pc' = IF n = 2 THEN "verify" ELSE "alloc"
  <2>1. page \notin Range(pages)
    BY <1>2, <1>8 DEF Range
  <2>. QED BY <1>4, <2>1
<1>10. /\ pages' \in Seq(Pages) /\ Len(pages') = n + 1 /\ pages'[n + 1] = page
       /\ \A i \in 1 .. n : pages'[i] = pages[i]
  BY <1>2, <1>4
<1>. HIDE DEF n
<1>11. PagesTaken'
  <2>1. \A i \in 1 .. n + 1 : pages'[i] \in eligible' \ held' /\ content'[pages'[i]] = pages'[i]
    <3>1. \A i \in 1 .. n : pages[i] \in eligible \ held /\ content[pages[i]] = pages[i]
      BY <1>1 DEF PagesTaken, n
    <3>2. ASSUME NEW i \in 1 .. n
          PROVE  pages'[i] \in eligible' \ held' /\ content'[pages'[i]] = pages'[i]
      <4>1. pages'[i] = pages[i] /\ pages[i] # page
        BY <1>8, <1>10
      <4>2. pages[i] \in Pages
        BY <1>1, <3>1 DEF PmmInv, PmmTypeOK
      <4>3. content'[pages[i]] = content[pages[i]]
        BY <1>1, <1>4, <4>1, <4>2
      <4>. QED BY <1>1, <1>5, <3>1, <4>1, <4>3
    <3>3. pages'[n + 1] \in eligible' \ held' /\ content'[pages'[n + 1]] = pages'[n + 1]
      BY <1>1, <1>4, <1>5, <1>8, <1>10
    <3>. QED BY <1>2, <3>2, <3>3
  <2>2. \A i, j \in 1 .. n + 1 : i # j => pages'[i] # pages'[j]
    <3>1. \A i, j \in 1 .. n : i # j => pages[i] # pages[j]
      BY <1>1 DEF PagesTaken, n
    <3>. QED BY <1>2, <1>8, <1>10, <3>1
  <2>3. n + 1 >= 2 => \A other \in eligible' \ held' : other # pages'[1] => pages'[2] <= other
    <3>1. CASE n = 0
      BY <3>1
    <3>2. CASE n = 1
      <4>1. allocated = held \cup {pages[1]} /\ pages'[1] = pages[1] /\ pages'[2] = page
        BY <1>2, <1>10, <3>2
      <4>. QED BY <1>1, <1>5, <4>1
    <3>3. CASE n = 2
      <4>1. \A other \in eligible \ held : other # pages[1] => pages[2] <= other
        BY <1>1, <3>3 DEF PagesTaken, n
      <4>2. pages'[1] = pages[1] /\ pages'[2] = pages[2]
        BY <1>10, <3>3
      <4>. QED BY <1>1, <1>5, <4>1, <4>2
    <3>. QED BY <1>2, <3>1, <3>2, <3>3
  <2>. QED BY <1>1, <1>2, <1>5, <1>10, <2>1, <2>2, <2>3 DEF PagesTaken
<1>12. allocated' = held' \cup {pages'[i] : i \in 1 .. n + 1} /\ free_pages' = before' - (n + 1)
  <2>1. {pages'[i] : i \in 1 .. n + 1} = {pages[i] : i \in 1 .. n} \cup {page}
    BY <1>2, <1>10
  <2>. DEFINE old == {pages[i] : i \in 1 .. n}
  <2>2. allocated = held \cup old /\ {pages'[i] : i \in 1 .. n + 1} = old \cup {page}
    BY <1>2, <2>1
  <2>. HIDE DEF old
  <2>3. allocated' = held' \cup (old \cup {page})
    BY <1>1, <1>5, <2>2
  <2>4. free_pages' = before' - (n + 1)
    BY <1>1, <1>2, <1>5
  <2>. QED BY <2>2, <2>3, <2>4
<1>13. TestBooks'
  <2>1. CASE n = 2
    <3>1. {pages'[i] : i \in 1 .. 3} = {pages'[1], pages'[2], pages'[3]}
      OBVIOUS
    <3>2. allocated' = held' \cup {pages'[1], pages'[2], pages'[3]}
      BY <1>12, <2>1, <3>1
    <3>. QED BY <1>9, <1>10, <1>12, <2>1, <3>2 DEF TestBooks, Filled, AllTaken, SecondFreed
  <2>2. CASE n # 2
    BY <1>2, <1>9, <1>10, <1>12, <2>2 DEF TestBooks, Filled, AllTaken, SecondFreed
  <2>. QED BY <2>1, <2>2
<1>. QED BY <1>6, <1>7, <1>9, <1>11, <1>13 DEF CheckInv, Running, Filled, AllTaken

(* The three pages, as the rest of the test uses them.                     *)
LEMMA ThreePages ==
  ASSUME CheckInv, pc \in Filled
  PROVE  /\ PmmInv /\ EligibleExact /\ ready /\ before \in Nat /\ before >= 3
         /\ \A i \in 1 .. 3 : pages[i] \in Pages /\ pages[i] \notin held /\ pages[i] \in eligible
                              /\ content[pages[i]] = pages[i]
         /\ pages[1] # pages[2] /\ pages[1] # pages[3] /\ pages[2] # pages[3]
         /\ \A other \in eligible \ held : other # pages[1] => pages[2] <= other
<1>1. PagesTaken /\ Len(pages) = 3 /\ PmmInv /\ EligibleExact
  BY DEF CheckInv, TestBooks, Running
<1>. QED BY <1>1 DEF PagesTaken, PmmInv, PmmTypeOK

(* verify and finish only look.                                            *)
LEMMA LookSteps ==
  ASSUME CheckInv, verify \/ finish
  PROVE  CheckInv'
<1>1. UNCHANGED <<before, pages, content, held, ready, eligible, allocated, free_pages>> /\ UNCHANGED pmmVars
  BY DEF verify, finish, pmmVars
<1>2. pc \in Filled /\ TestBooks /\ PagesTaken
  BY DEF CheckInv, verify, finish, Filled, AllTaken, Running
<1>3. PmmInv' /\ EligibleExact'
  BY <1>1, PmmNextInv, EligibleStep DEF CheckInv
<1>4. PagesTaken'
  BY <1>1, <1>2, TakenKept
<1>5. content' \in [Pages -> Pages]
  BY <1>1 DEF CheckInv
<1>6. \/ pc = "verify" /\ pc' = "misaligned"
      \/ pc = "finish" /\ pc' = "passed"
  BY <1>2, ThreePages DEF verify, finish, TestBooks, AllTaken
<1>7. TestBooks'
  BY <1>1, <1>2, <1>6 DEF TestBooks, Filled, AllTaken, SecondFreed
<1>. QED BY <1>3, <1>4, <1>5, <1>6, <1>7 DEF CheckInv, Running, Filled, AllTaken

(* A pmm_free the test expects to fail does, and changes nothing.          *)
LEMMA RefusedStep ==
  ASSUME CheckInv, pc \in Filled, UNCHANGED <<before, pages, content, held>>, UNCHANGED pmmVars,
         \/ pc \in AllTaken /\ pc' \in AllTaken
         \/ pc \in SecondFreed /\ pc' \in SecondFreed
  PROVE  CheckInv'
<1>1. UNCHANGED <<ready, eligible, allocated, free_pages>>
  BY DEF pmmVars
<1>2. PagesTaken /\ TestBooks
  BY DEF CheckInv, Running
<1>3. PmmInv' /\ EligibleExact' /\ PagesTaken'
  BY <1>1, <1>2, PmmNextInv, EligibleStep, TakenKept DEF CheckInv
<1>4. TestBooks'
  BY <1>1, <1>2 DEF TestBooks, Filled, AllTaken, SecondFreed
<1>. QED BY <1>3, <1>4 DEF CheckInv, Running, Filled

(* A pmm_free or pmm_alloc the test expects to succeed does.               *)
LEMMA BooksStep ==
  ASSUME CheckInv, pc \in Filled, UNCHANGED <<before, pages, content, held, eligible, ready>>,
         [PmmNext]_pmmVars, pc' \in Filled, TestBooks'
  PROVE  CheckInv'
<1>1. PagesTaken
  BY DEF CheckInv, Running
<1>2. PmmInv' /\ EligibleExact' /\ PagesTaken'
  BY <1>1, PmmNextInv, EligibleStep, TakenKept DEF CheckInv
<1>. QED BY <1>2 DEF CheckInv, Running

(* The frees that must be refused: an address that is not aligned, page 0, *)
(* and a page that was freed just before.                                  *)
LEMMA RefusedFrees ==
  ASSUME CheckInv,
         \/ expect_free("misaligned", address_of(pages[1]) + 1, FALSE, "page0")
         \/ expect_free("page0", 0, FALSE, "free1")
         \/ expect_free("refree", address_of(pages[2]), FALSE, "again")
  PROVE  CheckInv'
<1>1. pc \in Filled
  BY DEF expect_free, Filled, AllTaken, SecondFreed
<1>2. /\ \A i \in 1 .. 3 : pages[i] \in Pages /\ pages[i] \notin held
      /\ pages[1] # pages[2] /\ pages[2] # pages[3]
      /\ PmmInv /\ EligibleExact /\ ready
  BY <1>1, ThreePages
<1>3. CASE expect_free("misaligned", address_of(pages[1]) + 1, FALSE, "page0")
  <2>1. ~frees(address_of(pages[1]) + 1)
    BY <1>2, PageAddress DEF frees
  <2>2. UNCHANGED pmmVars
    BY <1>3, <2>1 DEF expect_free, pmm_free
  <2>3. pc = "misaligned" /\ pc' = "page0" /\ UNCHANGED <<before, pages, content, held>>
    BY <1>3, <2>1 DEF expect_free
  <2>. QED BY <1>1, <2>2, <2>3, RefusedStep DEF AllTaken
<1>4. CASE expect_free("page0", 0, FALSE, "free1")
  <2>1. ~frees(0)
    <3>1. 0 \div PMM_PAGE_SIZE = 0
      BY PmmAssumption, SMTT(20)
    <3>. QED BY <1>2, <3>1, ZeroUnmanaged DEF frees
  <2>2. UNCHANGED pmmVars
    BY <1>4, <2>1 DEF expect_free, pmm_free
  <2>3. pc = "page0" /\ pc' = "free1" /\ UNCHANGED <<before, pages, content, held>>
    BY <1>4, <2>1 DEF expect_free
  <2>. QED BY <1>1, <2>2, <2>3, RefusedStep DEF AllTaken
<1>5. CASE expect_free("refree", address_of(pages[2]), FALSE, "again")
  <2>1. pages[2] \notin allocated
    BY <1>2, <1>5 DEF expect_free, CheckInv, TestBooks, SecondFreed
  <2>2. ~frees(address_of(pages[2])) /\ UNCHANGED pmmVars
    <3>1. pages[2] \in Pages /\ pmm_free(address_of(pages[2]))
      BY <1>2, <1>5 DEF expect_free
    <3>. QED BY <1>2, <2>1, <3>1, FreeEffect, Zenon
  <2>3. pc = "refree" /\ pc' = "again" /\ UNCHANGED <<before, pages, content, held>>
    BY <1>5, <2>2 DEF expect_free
  <2>. QED BY <1>1, <2>2, <2>3, RefusedStep DEF SecondFreed
<1>. QED BY <1>3, <1>4, <1>5

(* The frees that must succeed: each page of the test is given back once.  *)
LEMMA GrantedFrees ==
  ASSUME CheckInv,
         \/ expect_free("free1", address_of(pages[2]), TRUE, "refree")
         \/ expect_free("free0", address_of(pages[1]), TRUE, "free_again")
         \/ expect_free("free_again", address_of(pages[2]), TRUE, "free2")
         \/ expect_free("free2", address_of(pages[3]), TRUE, "finish")
  PROVE  CheckInv'
<1>1. pc \in Filled /\ TestBooks
  BY DEF expect_free, Filled, AllTaken, SecondFreed, CheckInv
<1>2. /\ \A i \in 1 .. 3 : pages[i] \in Pages /\ pages[i] \notin held
      /\ pages[1] # pages[2] /\ pages[1] # pages[3] /\ pages[2] # pages[3]
      /\ PmmInv /\ ready /\ before \in Nat
  BY <1>1, ThreePages
<1>3. PICK i \in 1 .. 3 :
        /\ pmm_free(address_of(pages[i])) /\ UNCHANGED <<before, pages, content, held>>
        /\ \/ i = 2 /\ pc = "free1" /\ (frees(address_of(pages[i])) => pc' = "refree")
           \/ i = 1 /\ pc = "free0" /\ (frees(address_of(pages[i])) => pc' = "free_again")
           \/ i = 2 /\ pc = "free_again" /\ (frees(address_of(pages[i])) => pc' = "free2")
           \/ i = 3 /\ pc = "free2" /\ (frees(address_of(pages[i])) => pc' = "finish")
  <2>1. CASE expect_free("free1", address_of(pages[2]), TRUE, "refree")
    BY <2>1 DEF expect_free
  <2>2. CASE expect_free("free0", address_of(pages[1]), TRUE, "free_again")
    BY <2>2 DEF expect_free
  <2>3. CASE expect_free("free_again", address_of(pages[2]), TRUE, "free2")
    BY <2>3 DEF expect_free
  <2>4. CASE expect_free("free2", address_of(pages[3]), TRUE, "finish")
    BY <2>4 DEF expect_free
  <2>. QED BY <2>1, <2>2, <2>3, <2>4
<1>4. pages[i] \in allocated
  BY <1>1, <1>3 DEF TestBooks, AllTaken
<1>5. /\ frees(address_of(pages[i])) /\ allocated' = allocated \ {pages[i]} /\ free_pages' = free_pages + 1
      /\ UNCHANGED <<eligible, ready>>
  BY <1>2, <1>3, <1>4, FreeEffect
<1>6. [PmmNext]_pmmVars
  BY <1>2, <1>3, PageAddress DEF PmmNext
<1>7. pc' \in {"refree", "free_again", "free2", "finish"}
  BY <1>3, <1>5
<1>8. TestBooks'
  <2>1. CASE pc = "free1"
    BY <1>1, <1>2, <1>3, <1>5, <2>1 DEF TestBooks, Filled, AllTaken, SecondFreed
  <2>2. CASE pc = "free0"
    BY <1>1, <1>2, <1>3, <1>5, <2>2 DEF TestBooks, Filled, AllTaken, SecondFreed
  <2>3. CASE pc = "free_again"
    BY <1>1, <1>2, <1>3, <1>5, <2>3 DEF TestBooks, Filled, AllTaken, SecondFreed
  <2>4. CASE pc = "free2"
    BY <1>1, <1>2, <1>3, <1>5, <2>4 DEF TestBooks, Filled, AllTaken, SecondFreed
  <2>. QED BY <1>3, <2>1, <2>2, <2>3, <2>4
<1>. QED BY <1>1, <1>3, <1>5, <1>6, <1>7, <1>8, BooksStep DEF Filled, SecondFreed

(* The freed page is the lowest free one, so pmm_alloc returns it again.   *)
LEMMA AgainStep ==
  ASSUME CheckInv, alloc_again
  PROVE  CheckInv'
<1>1. pc = "again" /\ TestBooks /\ UNCHANGED <<before, pages, content, held>>
  BY DEF alloc_again, CheckInv
<1>2. /\ \A i \in 1 .. 3 : pages[i] \in Pages /\ pages[i] \notin held /\ pages[i] \in eligible
      /\ pages[1] # pages[2] /\ pages[1] # pages[3] /\ pages[2] # pages[3]
      /\ \A other \in eligible \ held : other # pages[1] => pages[2] <= other
      /\ PmmInv /\ ready /\ before \in Nat /\ before >= 3
  BY <1>1, ThreePages DEF Filled, SecondFreed
<1>3. free_pages = before - 2 /\ allocated = held \cup {pages[1], pages[3]}
  BY <1>1 DEF TestBooks, SecondFreed
<1>4. free_pages # 0 /\ can_alloc
  <2>1. free_pages # 0
    BY <1>2, <1>3
  <2>. QED BY <1>2, <2>1, AllocEffect
<1>5. PICK page \in Pages : pmm_alloc(page) /\ pc' = IF page = pages[2] THEN "free0" ELSE "failed"
  BY <1>1, <1>4 DEF alloc_again
<1>6. /\ page \in eligible \ allocated /\ \A other \in eligible \ allocated : page <= other
      /\ allocated' = allocated \cup {page} /\ free_pages' = free_pages - 1
      /\ UNCHANGED <<eligible, ready>>
  BY <1>2, <1>4, <1>5, AllocEffect
<1>7. page = pages[2]
  <2>1. page <= pages[2] /\ pages[2] <= page
    BY <1>2, <1>3, <1>6
  <2>2. page \in Int /\ pages[2] \in Int
    BY <1>2, PmmAssumption DEF Pages
  <2>. QED BY <2>1, <2>2
<1>8. TestBooks'
  BY <1>1, <1>2, <1>3, <1>5, <1>6, <1>7 DEF TestBooks, Filled, AllTaken, SecondFreed
<1>9. [PmmNext]_pmmVars
  BY <1>5 DEF PmmNext
<1>. QED BY <1>1, <1>5, <1>6, <1>7, <1>8, <1>9, BooksStep DEF Filled, AllTaken, SecondFreed

-----------------------------------------------------------------------------
(* Whatever was allocated and freed before, the self test finds what it    *)
(* expects at every statement (pmm_boot_check).                            *)
THEOREM CheckInvariant == Spec => []CheckInv
<1>1. Init => CheckInv
  <2>. SUFFICES ASSUME Init PROVE CheckInv
    OBVIOUS
  <2>1. PmmInv
    BY PmmInitInv DEF Init
  <2>2. EligibleExact
    BY DEF Init, PmmInit, EligibleExact
  <2>3. content \in [Pages -> Pages]
    BY PmmAssumption DEF Init, Pages
  <2>. QED BY <2>1, <2>2, <2>3 DEF Init, CheckInv, TestBooks, Running, Filled, AllTaken, SecondFreed
<1>2. CheckInv /\ [Next]_vars => CheckInv'
  BY OutsideSteps, AllocPageStep, LookSteps, RefusedFrees, GrantedFrees, AgainStep DEF Next
<1>. QED BY <1>1, <1>2, PTL DEF Spec

(* The self test raises no false alarm: NoFalseAlarm.                      *)
THEOREM CheckRaisesNoAlarm == Spec => []NoFalseAlarm
<1>1. CheckInv => NoFalseAlarm
  BY DEF CheckInv, TestBooks, NoFalseAlarm
<1>. QED BY <1>1, CheckInvariant, PTL

(* The self test gives back every page it took: TestLeavesNoTrace.         *)
THEOREM CheckLeavesNoTrace == Spec => []TestLeavesNoTrace
<1>1. CheckInv => TestLeavesNoTrace
  BY DEF CheckInv, TestBooks, TestLeavesNoTrace
<1>. QED BY <1>1, CheckInvariant, PTL
=============================================================================
