---------------------------- MODULE LoaderProofs ----------------------------
(***************************************************************************)
(* The checks boot/load.c makes of kernel.elf are the right ones, and the  *)
(* loader keeps its books with the firmware, enters the kernel only with a *)
(* complete hand-off and places exactly the files it should, for every     *)
(* file, page size, register width and limit: proofs about modules         *)
(* ElfImage, Loader and Handoff.                                           *)
(***************************************************************************)
EXTENDS Loader, TLAPS, NaturalsInduction, WellFoundedInduction, FiniteSetTheorems

-----------------------------------------------------------------------------
(* Arithmetic.                                                             *)

(* Division rounds down.                                                   *)
LEMMA DivMod ==
  ASSUME NEW a \in Nat, NEW s \in Nat \ {0}
  PROVE  /\ a \div s \in Nat
         /\ (a \div s) * s <= a
         /\ a < (a \div s) * s + s
BY SMTT(20)

(* The quotient is the one number with that property.                      *)
LEMMA DivUnique ==
  ASSUME NEW a \in Nat, NEW s \in Nat \ {0}, NEW q \in Nat, q * s <= a, a < q * s + s
  PROVE  a \div s = q
BY SMTT(20)

(* A quotient is a bound exactly when the product is.                      *)
LEMMA DivAtLeast ==
  ASSUME NEW a \in Nat, NEW s \in Nat \ {0}, NEW n \in Nat
  PROVE  n <= a \div s <=> n * s <= a
BY SMTT(20)

(* Dividing keeps order.                                                   *)
LEMMA DivMonotone ==
  ASSUME NEW a \in Nat, NEW b \in Nat, NEW s \in Nat \ {0}, a <= b
  PROVE  a \div s <= b \div s
BY SMTT(20)

(* Division with remainder of any integer, and its uniqueness.             *)
LEMMA Remainder ==
  ASSUME NEW x \in Int, NEW m \in Nat \ {0}
  PROVE  x % m = x - (x \div m) * m
BY SMTT(20)

(* A remainder lies below its modulus.                                     *)
LEMMA RemainderType ==
  ASSUME NEW x \in Int, NEW m \in Nat \ {0}
  PROVE  x \div m \in Int /\ x % m \in Int /\ 0 <= x % m /\ x % m < m
BY SMTT(20)

(* There is only one division with remainder.                              *)
LEMMA RemainderUnique ==
  ASSUME NEW x \in Int, NEW m \in Nat \ {0}, NEW q \in Int, NEW r \in Int,
         x = q * m + r, 0 <= r, r < m
  PROVE  x % m = r
BY SMTT(20)

(* Equal remainders, as valid_segment compares them, and the reference's   *)
(* divisible difference are the same.                                      *)
LEMMA SameRemainder ==
  ASSUME NEW a \in Nat, NEW b \in Nat, NEW m \in Nat \ {0}
  PROVE  a % m = b % m <=> (a - b) % m = 0
<1>. DEFINE p == a \div m
            q == b \div m
            d == (a - b) \div m
            ra == a % m
            rb == b % m
            rd == (a - b) % m
<1>1. a \in Int /\ b \in Int /\ a - b \in Int
  OBVIOUS
<1>2. p \in Int /\ q \in Int /\ d \in Int /\ rb \in Int /\ 0 <= rb /\ rb < m
  BY <1>1, RemainderType
<1>3. ra = a - p * m /\ rb = b - q * m
  BY <1>1, Remainder, Zenon
<1>4. rd = (a - b) - d * m
  BY <1>1, Remainder, Zenon
<1>. HIDE DEF p, q, d, ra, rb, rd
<1>5. ASSUME ra = rb PROVE rd = 0
  <2>1. p - q \in Int /\ a - b = (p - q) * m + 0
    BY <1>2, <1>3, <1>5, SMTT(20)
  <2>2. 0 \in Int /\ 0 <= 0 /\ 0 < m
    OBVIOUS
  <2>. QED BY <1>1, <2>1, <2>2, RemainderUnique, Zenon DEF rd
<1>6. ASSUME rd = 0 PROVE ra = rb
  <2>1. d + q \in Int /\ a = (d + q) * m + rb
    BY <1>2, <1>3, <1>4, <1>6, SMTT(20)
  <2>. QED BY <1>1, <1>2, <2>1, RemainderUnique, Zenon DEF ra
<1>. QED BY <1>5, <1>6 DEF ra, rb, rd

(* The least and the greatest number of a set, as inspect_segments         *)
(* accumulates them in low and high.                                       *)
LEMMA LeastNat ==
  ASSUME NEW S, S \subseteq Nat, S # {}
  PROVE  Min(S) \in S /\ \A x \in S : Min(S) <= x
<1>1. PICK least \in S : \A x \in S : ~(<<x, least>> \in OpToRel(<, Nat))
  BY WFMin, NatLessThanWellFounded
<1>2. \A x \in S : ~(x < least)
  BY <1>1 DEF OpToRel
<1>3. \A x \in S : least =< x
  BY <1>2
<1>. QED BY <1>3 DEF Min

(* A bounded, nonempty set of naturals has a greatest element.             *)
LEMMA GreatestNat ==
  ASSUME NEW S, NEW bound \in Nat, S \subseteq 0 .. bound, S # {}
  PROVE  Max(S) \in S /\ \A x \in S : x <= Max(S)
<1>. DEFINE T == {bound - x : x \in S}
<1>1. T \subseteq Nat /\ T # {}
  <2>1. \A x \in S : bound - x \in Nat
    OBVIOUS
  <2>. QED BY <2>1
<1>2. Min(T) \in T /\ \A y \in T : Min(T) <= y
  BY <1>1, LeastNat
<1>3. PICK greatest \in S : Min(T) = bound - greatest
  BY <1>2
<1>4. ASSUME NEW x \in S
      PROVE  greatest >= x
  <2>1. bound - greatest <= bound - x
    BY <1>2, <1>3
  <2>. QED BY <2>1
<1>5. \E y \in S : \A x \in S : y >= x
  BY <1>4
<1>6. Max(S) \in S /\ \A x \in S : Max(S) >= x
  BY <1>5 DEF Max
<1>. QED BY <1>6

(* Pages are ordered as their numbers are.                                 *)
LEMMA TimesOrder ==
  ASSUME NEW a \in Nat, NEW b \in Nat, NEW s \in Nat \ {0}
  PROVE  /\ a * s \in Nat
         /\ a * s <= b * s <=> a <= b
         /\ a * s < b * s <=> a < b
BY SMTT(20)

-----------------------------------------------------------------------------
(* Program headers.                                                        *)

(* The fields of a program header are machine words.                       *)
LEMMA Fields ==
  ASSUME NEW p \in ELF_PROGRAM
  PROVE  /\ p.offset \in Nat /\ p.vaddr \in Nat /\ p.paddr \in Nat
         /\ p.filesz \in Nat /\ p.memsz \in Nat /\ p.align \in Nat
BY ElfAssumption DEF ELF_PROGRAM, Word

(* The program headers are records of words.                               *)
LEMMA Programs ==
  ASSUME NEW h \in ELF_HEADER
  PROVE  /\ DOMAIN h.ph = 1 .. h.phnum /\ h.phnum \in Nat
         /\ \A i \in DOMAIN h.ph : h.ph[i] \in ELF_PROGRAM
         /\ h.size \in Nat /\ h.phoff \in Nat /\ h.entry \in Nat
BY ElfAssumption DEF ELF_HEADER, Word

(* valid_segment keeps both ends of a segment inside the memory for images *)
(* and its bytes inside the file.                                          *)
LEMMA SegmentExact ==
  ASSUME NEW p \in ELF_PROGRAM, NEW size \in Nat
  PROVE  valid_segment(p, size) <=>
           /\ p.vaddr \in IMAGE_LOW .. IMAGE_TOP - 1 /\ p.paddr = p.vaddr
           /\ MemoryBytes(p) \subseteq IMAGE_LOW .. IMAGE_TOP - 1
           /\ FileBytes(p) \subseteq MemoryBytes(p)
           /\ p.offset + p.filesz <= size
           /\ p.align > 1 => \E k \in 1 .. p.align : p.align = 2^k /\ (p.vaddr - p.offset) % p.align = 0
<1>1. /\ p.offset \in Nat /\ p.vaddr \in Nat /\ p.paddr \in Nat
      /\ p.filesz \in Nat /\ p.memsz \in Nat /\ p.align \in Nat
      /\ IMAGE_LOW \in Nat /\ IMAGE_TOP \in Nat
  BY Fields, ElfAssumption
<1>2. p.vaddr \in IMAGE_LOW .. IMAGE_TOP - 1 <=> p.vaddr >= IMAGE_LOW /\ p.vaddr < IMAGE_TOP
  BY <1>1
<1>3. ASSUME p.vaddr \in IMAGE_LOW .. IMAGE_TOP - 1
      PROVE  MemoryBytes(p) \subseteq IMAGE_LOW .. IMAGE_TOP - 1 <=> p.memsz <= IMAGE_TOP - p.vaddr
  <2>1. CASE p.memsz = 0
    BY <1>1, <1>3, <2>1 DEF MemoryBytes
  <2>2. CASE p.memsz # 0
    <3>1. p.vaddr + p.memsz - 1 \in MemoryBytes(p)
      BY <1>1, <2>2 DEF MemoryBytes
    <3>2. MemoryBytes(p) \subseteq IMAGE_LOW .. IMAGE_TOP - 1 => p.memsz <= IMAGE_TOP - p.vaddr
      BY <1>1, <3>1
    <3>3. p.memsz <= IMAGE_TOP - p.vaddr => MemoryBytes(p) \subseteq IMAGE_LOW .. IMAGE_TOP - 1
      BY <1>1, <1>3 DEF MemoryBytes
    <3>. QED BY <3>2, <3>3
  <2>. QED BY <2>1, <2>2
<1>4. FileBytes(p) \subseteq MemoryBytes(p) <=> p.filesz <= p.memsz
  <2>1. CASE p.filesz = 0
    BY <1>1, <2>1 DEF FileBytes
  <2>2. CASE p.filesz # 0
    <3>1. p.vaddr + p.filesz - 1 \in FileBytes(p)
      BY <1>1, <2>2 DEF FileBytes
    <3>2. FileBytes(p) \subseteq MemoryBytes(p) => p.filesz <= p.memsz
      BY <1>1, <3>1 DEF MemoryBytes
    <3>3. p.filesz <= p.memsz => FileBytes(p) \subseteq MemoryBytes(p)
      BY <1>1 DEF FileBytes, MemoryBytes
    <3>. QED BY <3>2, <3>3
  <2>. QED BY <2>1, <2>2
<1>5. p.offset + p.filesz <= size <=> p.offset <= size /\ p.filesz <= size - p.offset
  BY <1>1
<1>6. ASSUME p.align > 1
      PROVE  power_of_two(p.align) /\ p.vaddr % p.align = p.offset % p.align
               <=> \E k \in 1 .. p.align : p.align = 2^k /\ (p.vaddr - p.offset) % p.align = 0
  <2>1. p.vaddr % p.align = p.offset % p.align <=> (p.vaddr - p.offset) % p.align = 0
    <3>1. p.align \in Nat \ {0}
      BY <1>1, <1>6
    <3>. QED BY <1>1, <3>1, SameRemainder, Zenon
  <2>2. power_of_two(p.align) <=> \E k \in 1 .. p.align : p.align = 2^k
    <3>1. 2^0 = 1
      OBVIOUS
    <3>2. p.align # 1
      BY <1>1, <1>6
    <3>3. \A k : k \in 1 .. p.align <=> k \in 0 .. p.align /\ k # 0
      BY <1>1
    <3>. QED BY <3>1, <3>2, <3>3, Zenon DEF power_of_two
  <2>. QED BY <2>1, <2>2, Zenon
<1>7. p.align > 1 <=> ~(p.align <= 1)
  BY <1>1
<1>. QED BY <1>2, <1>3, <1>4, <1>5, <1>6, <1>7, Zenon DEF valid_segment

(* The comparison of overlaps_previous_segment, for segments whose ends    *)
(* are not cut to the width of a register.                                 *)
LEMMA OverlapExact ==
  ASSUME NEW p \in ELF_PROGRAM, NEW q \in ELF_PROGRAM, p.memsz # 0, q.memsz # 0
  PROVE  MemoryBytes(p) \cap MemoryBytes(q) = {}
           <=> ~(p.vaddr < q.vaddr + q.memsz /\ q.vaddr < p.vaddr + p.memsz)
<1>1. p.vaddr \in Nat /\ p.memsz \in Nat /\ q.vaddr \in Nat /\ q.memsz \in Nat
  BY Fields
<1>2. ASSUME p.vaddr < q.vaddr + q.memsz /\ q.vaddr < p.vaddr + p.memsz
      PROVE  MemoryBytes(p) \cap MemoryBytes(q) # {}
  <2>1. CASE p.vaddr <= q.vaddr
    <3>1. q.vaddr \in MemoryBytes(p) \cap MemoryBytes(q)
      BY <1>1, <1>2, <2>1 DEF MemoryBytes
    <3>. QED BY <3>1
  <2>2. CASE q.vaddr <= p.vaddr
    <3>1. p.vaddr \in MemoryBytes(p) \cap MemoryBytes(q)
      BY <1>1, <1>2, <2>2 DEF MemoryBytes
    <3>. QED BY <3>1
  <2>. QED BY <1>1, <2>1, <2>2
<1>3. ASSUME NEW a \in MemoryBytes(p) \cap MemoryBytes(q)
      PROVE  p.vaddr < q.vaddr + q.memsz /\ q.vaddr < p.vaddr + p.memsz
  BY <1>1 DEF MemoryBytes
<1>. QED BY <1>2, <1>3

-----------------------------------------------------------------------------
(* The range inspect_segments computes.                                    *)

first_page(p) == p.vaddr \div PAGE
last_page(p) == (p.vaddr + p.memsz - 1) \div PAGE

(* The program headers that need memory are in the memory for images, and  *)
(* no sum of theirs is cut.                                                *)
LEMMA LoadedInRange ==
  ASSUME NEW h \in ELF_HEADER, \A i \in DOMAIN h.ph : passes(h, i), NEW i \in loaded(h)
  PROVE  /\ h.ph[i] \in ELF_PROGRAM /\ h.ph[i].type = LOAD /\ valid_segment(h.ph[i], h.size)
         /\ h.ph[i].vaddr \in Nat /\ h.ph[i].memsz \in Nat \ {0}
         /\ h.ph[i].vaddr >= IMAGE_LOW /\ h.ph[i].vaddr + h.ph[i].memsz <= IMAGE_TOP
         /\ trunc(h.ph[i].vaddr + h.ph[i].memsz) = h.ph[i].vaddr + h.ph[i].memsz
         /\ trunc(h.ph[i].vaddr + h.ph[i].memsz + PAGE - 1) = h.ph[i].vaddr + h.ph[i].memsz + PAGE - 1
<1>. DEFINE p == h.ph[i]
<1>1. p \in ELF_PROGRAM /\ p.type = LOAD /\ p.memsz # 0 /\ valid_segment(p, h.size)
  BY Programs DEF loaded, passes
<1>. HIDE DEF p
<1>2. p.vaddr \in Nat /\ p.memsz \in Nat \ {0} /\ p.vaddr >= IMAGE_LOW /\ p.memsz <= IMAGE_TOP - p.vaddr
  BY <1>1, Fields DEF valid_segment
<1>3. {IMAGE_TOP, ELF_MAX, PAGE} \subseteq Nat /\ IMAGE_TOP + PAGE <= ELF_MAX /\ PAGE # 0
  BY ElfAssumption
<1>4. p.vaddr + p.memsz <= IMAGE_TOP
  BY <1>2, <1>3
<1>5. \A n \in 0 .. ELF_MAX : trunc(n) = n
  BY <1>3, SMTT(20) DEF trunc
<1>6. p.vaddr + p.memsz \in 0 .. ELF_MAX /\ p.vaddr + p.memsz + PAGE - 1 \in 0 .. ELF_MAX
  BY <1>2, <1>3, <1>4
<1>. QED BY <1>1, <1>2, <1>4, <1>5, <1>6 DEF p

(* Rounding the end of a segment up is the end of its last page.           *)
LEMMA RoundUp ==
  ASSUME NEW b \in Nat
  PROVE  page_down(b + PAGE) = (b \div PAGE + 1) * PAGE
<1>1. PAGE \in Nat \ {0}
  BY ElfAssumption
<1>. DEFINE q == b \div PAGE
<1>2. q \in Nat /\ q * PAGE <= b /\ b < q * PAGE + PAGE
  BY <1>1, DivMod
<1>. HIDE DEF q
<1>3. q + 1 \in Nat /\ (q + 1) * PAGE <= b + PAGE /\ b + PAGE < (q + 1) * PAGE + PAGE
  BY <1>1, <1>2, SMTT(20)
<1>4. b + PAGE \in Nat
  BY <1>1
<1>5. (b + PAGE) \div PAGE = q + 1
  BY <1>1, <1>3, <1>4, DivUnique
<1>. QED BY <1>5 DEF page_down, q

(* The range is from the first page of some segment to the last page of    *)
(* some segment, and every segment lies in it.                             *)
LEMMA Span ==
  ASSUME NEW h \in ELF_HEADER, \A i \in DOMAIN h.ph : passes(h, i), loaded(h) # {}
  PROVE  \E i, j \in loaded(h) :
           LET lo == first_page(h.ph[i])
               hi == last_page(h.ph[j])
           IN  /\ lo \in Nat /\ hi \in Nat /\ lo <= hi
               /\ low(h) = lo * PAGE /\ high(h) = (hi + 1) * PAGE
               /\ \A k \in loaded(h) : lo <= first_page(h.ph[k]) /\ last_page(h.ph[k]) <= hi
<1>1. /\ PAGE \in Nat \ {0} /\ ELF_MAX \in Nat /\ IMAGE_TOP \in Nat
      /\ IMAGE_TOP < ELF_MAX /\ IMAGE_TOP + PAGE <= ELF_MAX
  BY ElfAssumption
<1>2. ASSUME NEW i \in loaded(h)
      PROVE  /\ first_page(h.ph[i]) \in Nat /\ last_page(h.ph[i]) \in Nat
             /\ first_page(h.ph[i]) <= last_page(h.ph[i])
             /\ page_down(h.ph[i].vaddr) = first_page(h.ph[i]) * PAGE
             /\ page_down(trunc(h.ph[i].vaddr + h.ph[i].memsz + PAGE - 1)) = (last_page(h.ph[i]) + 1) * PAGE
             /\ page_down(h.ph[i].vaddr) < ELF_MAX /\ page_down(h.ph[i].vaddr) \in Nat
             /\ (last_page(h.ph[i]) + 1) * PAGE \in 1 .. ELF_MAX
  <2>. DEFINE p == h.ph[i]
              b == p.vaddr + p.memsz - 1
  <2>1. /\ p.vaddr \in Nat /\ p.memsz \in Nat \ {0} /\ p.vaddr + p.memsz <= IMAGE_TOP
        /\ trunc(p.vaddr + p.memsz + PAGE - 1) = p.vaddr + p.memsz + PAGE - 1
    BY LoadedInRange
  <2>. HIDE DEF p
  <2>2. b \in Nat /\ p.vaddr <= b /\ p.vaddr + p.memsz + PAGE - 1 = b + PAGE /\ b + PAGE <= ELF_MAX
    BY <1>1, <2>1
  <2>3. first_page(p) \in Nat /\ first_page(p) * PAGE <= p.vaddr
    BY <1>1, <2>1, DivMod DEF first_page
  <2>4. last_page(p) = b \div PAGE
    BY DEF last_page
  <2>. HIDE DEF b
  <2>5. last_page(p) \in Nat /\ last_page(p) * PAGE <= b /\ b < last_page(p) * PAGE + PAGE
    BY <1>1, <2>2, <2>4, DivMod
  <2>6. first_page(p) <= last_page(p)
    BY <1>1, <2>1, <2>2, <2>4, DivMonotone DEF first_page
  <2>7. page_down(p.vaddr) = first_page(p) * PAGE
    BY DEF page_down, first_page
  <2>8. page_down(trunc(p.vaddr + p.memsz + PAGE - 1)) = (last_page(p) + 1) * PAGE
    BY <2>1, <2>2, <2>4, RoundUp
  <2>9. page_down(p.vaddr) \in Nat /\ page_down(p.vaddr) < ELF_MAX
    BY <1>1, <2>1, <2>2, <2>3, <2>7, TimesOrder
  <2>10. (last_page(p) + 1) * PAGE \in 1 .. ELF_MAX
    BY <1>1, <2>2, <2>5, SMTT(20)
  <2>. QED BY <2>3, <2>5, <2>6, <2>7, <2>8, <2>9, <2>10 DEF p
<1>3. PICK i \in loaded(h) :
        low(h) = page_down(h.ph[i].vaddr) /\ \A k \in loaded(h) : low(h) <= page_down(h.ph[k].vaddr)
  <2>. DEFINE S == {ELF_MAX} \cup {page_down(h.ph[k].vaddr) : k \in loaded(h)}
  <2>1. S \subseteq Nat /\ S # {}
    BY <1>1, <1>2
  <2>2. Min(S) \in S /\ \A x \in S : Min(S) <= x
    BY <2>1, LeastNat
  <2>3. low(h) = Min(S)
    BY DEF low
  <2>4. PICK k \in loaded(h) : TRUE
    OBVIOUS
  <2>5. Min(S) <= page_down(h.ph[k].vaddr)
    BY <2>2
  <2>. HIDE DEF S
  <2>6. Min(S) # ELF_MAX
    BY <1>1, <1>2, <2>5
  <2>. QED BY <2>2, <2>3, <2>6 DEF S
<1>4. PICK j \in loaded(h) :
        /\ high(h) = (last_page(h.ph[j]) + 1) * PAGE
        /\ \A k \in loaded(h) : (last_page(h.ph[k]) + 1) * PAGE <= high(h)
  <2>. DEFINE S == {0} \cup {page_down(trunc(h.ph[k].vaddr + h.ph[k].memsz + PAGE - 1)) : k \in loaded(h)}
  <2>1. S \subseteq 0 .. ELF_MAX /\ S # {}
    BY <1>1, <1>2
  <2>2. Max(S) \in S /\ \A x \in S : x <= Max(S)
    BY <1>1, <2>1, GreatestNat
  <2>3. high(h) = Max(S)
    BY DEF high
  <2>4. PICK k \in loaded(h) : TRUE
    OBVIOUS
  <2>5. \A n \in loaded(h) : (last_page(h.ph[n]) + 1) * PAGE \in S
    BY <1>2
  <2>6. Max(S) # 0
    BY <1>2, <2>2, <2>4, <2>5
  <2>7. PICK n \in loaded(h) : Max(S) = page_down(trunc(h.ph[n].vaddr + h.ph[n].memsz + PAGE - 1))
    BY <2>2, <2>6
  <2>. HIDE DEF S
  <2>. QED BY <1>2, <2>2, <2>3, <2>5, <2>7
<1>5. ASSUME NEW k \in loaded(h)
      PROVE  first_page(h.ph[i]) <= first_page(h.ph[k]) /\ last_page(h.ph[k]) <= last_page(h.ph[j])
  <2>1. first_page(h.ph[i]) * PAGE <= first_page(h.ph[k]) * PAGE
    BY <1>2, <1>3
  <2>2. (last_page(h.ph[k]) + 1) * PAGE <= (last_page(h.ph[j]) + 1) * PAGE
    BY <1>4
  <2>3. last_page(h.ph[k]) + 1 \in Nat /\ last_page(h.ph[j]) + 1 \in Nat
    BY <1>2
  <2>4. last_page(h.ph[k]) + 1 <= last_page(h.ph[j]) + 1
    BY <1>1, <2>2, <2>3, TimesOrder
  <2>. QED BY <1>1, <1>2, <2>1, <2>4, TimesOrder
<1>6. first_page(h.ph[i]) <= last_page(h.ph[j])
  BY <1>2, <1>5
<1>. QED BY <1>2, <1>3, <1>4, <1>5, <1>6

-----------------------------------------------------------------------------
(* The verdict of place_kernel.                                            *)

(* inspect_segments returns EFI_SUCCESS only after its last check.         *)
LEMMA Accepts ==
  ASSUME NEW h \in ELF_HEADER
  PROVE  verdict(h) = "EFI_SUCCESS" <=>
           /\ ~(h.size < HEADER_SIZE) /\ valid_elf_header(h)
           /\ \A i \in DOMAIN h.ph : passes(h, i)
           /\ entry_valid(h) /\ ~(high(h) <= low(h)) /\ ~(high(h) - low(h) > MAX_SPAN)
<1>. DEFINE bad == {i \in DOMAIN h.ph : ~passes(h, i)}
<1>1. CASE bad = {}
  BY <1>1 DEF verdict, inspect_segments
<1>2. CASE bad # {}
  <2>1. inspect_segments(h) # "EFI_SUCCESS"
    BY <1>2 DEF inspect_segments
  <2>. QED BY <1>2, <2>1 DEF verdict
<1>. QED BY <1>1, <1>2

(* The loop over the program headers checks what the reference asks of     *)
(* every segment, and of every two of them, whatever their order.          *)
LEMMA PassesExact ==
  ASSUME NEW h \in ELF_HEADER
  PROVE  LET Segments == {i \in DOMAIN h.ph : h.ph[i].type = LOAD}
         IN  (\A i \in DOMAIN h.ph : passes(h, i)) <=>
               /\ \A i \in DOMAIN h.ph : h.ph[i].type \notin Dynamic
               /\ \A i \in Segments : valid_segment(h.ph[i], h.size)
               /\ \A i \in Segments : \A j \in Segments \ {i} :
                    MemoryBytes(h.ph[i]) \cap MemoryBytes(h.ph[j]) = {}
<1>. DEFINE Segments == {i \in DOMAIN h.ph : h.ph[i].type = LOAD}
<1>1. DOMAIN h.ph = 1 .. h.phnum /\ h.phnum \in Nat /\ \A i \in DOMAIN h.ph : h.ph[i] \in ELF_PROGRAM
  BY Programs
<1>2. \A i \in DOMAIN h.ph : h.ph[i].memsz = 0 => MemoryBytes(h.ph[i]) = {}
  BY <1>1, Fields DEF MemoryBytes
<1>3. ASSUME \A i \in Segments : valid_segment(h.ph[i], h.size),
             NEW i \in Segments, NEW j \in Segments, h.ph[i].memsz # 0, h.ph[j].memsz # 0
      PROVE  MemoryBytes(h.ph[i]) \cap MemoryBytes(h.ph[j]) = {}
               <=> ~(/\ h.ph[i].vaddr < trunc(h.ph[j].vaddr + h.ph[j].memsz)
                     /\ h.ph[j].vaddr < trunc(h.ph[i].vaddr + h.ph[i].memsz))
  <2>1. ASSUME NEW k \in Segments
        PROVE  trunc(h.ph[k].vaddr + h.ph[k].memsz) = h.ph[k].vaddr + h.ph[k].memsz
    <3>1. h.ph[k].vaddr \in Nat /\ h.ph[k].memsz \in Nat /\ h.ph[k].memsz <= IMAGE_TOP - h.ph[k].vaddr
      BY <1>1, <1>3, Fields DEF valid_segment
    <3>2. IMAGE_TOP \in Nat /\ ELF_MAX \in Nat /\ IMAGE_TOP <= ELF_MAX
      BY ElfAssumption
    <3>3. h.ph[k].vaddr + h.ph[k].memsz \in 0 .. ELF_MAX
      BY <3>1, <3>2
    <3>. QED BY <3>2, <3>3, SMTT(20) DEF trunc
  <2>. QED BY <1>1, <1>3, <2>1, OverlapExact
<1>4. ASSUME \A i \in DOMAIN h.ph : passes(h, i)
      PROVE  /\ \A i \in DOMAIN h.ph : h.ph[i].type \notin Dynamic
             /\ \A i \in Segments : valid_segment(h.ph[i], h.size)
             /\ \A i \in Segments : \A j \in Segments \ {i} :
                  MemoryBytes(h.ph[i]) \cap MemoryBytes(h.ph[j]) = {}
  <2>1. \A i \in DOMAIN h.ph : h.ph[i].type \notin Dynamic
    BY <1>4 DEF passes
  <2>2. \A i \in Segments : valid_segment(h.ph[i], h.size)
    BY <1>4 DEF passes
  <2>3. ASSUME NEW i \in Segments, NEW j \in Segments, j < i
        PROVE  MemoryBytes(h.ph[i]) \cap MemoryBytes(h.ph[j]) = {}
    <3>1. CASE h.ph[i].memsz = 0 \/ h.ph[j].memsz = 0
      BY <1>2, <3>1
    <3>2. CASE h.ph[i].memsz # 0 /\ h.ph[j].memsz # 0
      <4>1. ~overlaps_previous_segment(h.ph, i)
        BY <1>4, <3>2 DEF passes
      <4>2. j \in 1 .. i - 1
        BY <1>1, <2>3
      <4>. QED BY <1>3, <2>2, <3>2, <4>1, <4>2 DEF overlaps_previous_segment
    <3>. QED BY <3>1, <3>2
  <2>4. ASSUME NEW i \in Segments, NEW j \in Segments \ {i}
        PROVE  MemoryBytes(h.ph[i]) \cap MemoryBytes(h.ph[j]) = {}
    <3>1. j < i \/ i < j
      BY <1>1
    <3>. QED BY <2>3, <3>1
  <2>. QED BY <2>1, <2>2, <2>4
<1>5. ASSUME /\ \A i \in DOMAIN h.ph : h.ph[i].type \notin Dynamic
             /\ \A i \in Segments : valid_segment(h.ph[i], h.size)
             /\ \A i \in Segments : \A j \in Segments \ {i} :
                  MemoryBytes(h.ph[i]) \cap MemoryBytes(h.ph[j]) = {},
             NEW i \in DOMAIN h.ph
      PROVE  passes(h, i)
  <2>1. ASSUME h.ph[i].type = LOAD, h.ph[i].memsz # 0, overlaps_previous_segment(h.ph, i)
        PROVE  FALSE
    <3>1. PICK j \in 1 .. i - 1 :
            /\ h.ph[j].type = LOAD /\ h.ph[j].memsz # 0
            /\ h.ph[i].vaddr < trunc(h.ph[j].vaddr + h.ph[j].memsz)
            /\ h.ph[j].vaddr < trunc(h.ph[i].vaddr + h.ph[i].memsz)
      BY <2>1 DEF overlaps_previous_segment
    <3>2. i \in Segments /\ j \in Segments \ {i}
      BY <1>1, <2>1, <3>1
    <3>. QED BY <1>3, <1>5, <2>1, <3>1, <3>2
  <2>. QED BY <1>5, <2>1 DEF passes
<1>. QED BY <1>4, <1>5

(* The pages the segments cover, and the range inspect_segments computes.  *)
LEMMA CoveredSpan ==
  ASSUME NEW h \in ELF_HEADER, \A i \in DOMAIN h.ph : passes(h, i), loaded(h) # {}
  PROVE  LET Segments == {i \in DOMAIN h.ph : h.ph[i].type = LOAD}
             Covered  == {a \div PAGE : a \in UNION {MemoryBytes(h.ph[i]) : i \in Segments}}
         IN  /\ high(h) - low(h) = (Max(Covered) - Min(Covered) + 1) * PAGE
             /\ high(h) > low(h)
<1>. DEFINE Segments == {i \in DOMAIN h.ph : h.ph[i].type = LOAD}
            Covered  == {a \div PAGE : a \in UNION {MemoryBytes(h.ph[i]) : i \in Segments}}
<1>1. PAGE \in Nat \ {0}
  BY ElfAssumption
<1>2. PICK i \in loaded(h), j \in loaded(h) :
           /\ first_page(h.ph[i]) \in Nat /\ last_page(h.ph[j]) \in Nat
           /\ first_page(h.ph[i]) <= last_page(h.ph[j])
           /\ low(h) = first_page(h.ph[i]) * PAGE /\ high(h) = (last_page(h.ph[j]) + 1) * PAGE
           /\ \A k \in loaded(h) : /\ first_page(h.ph[i]) <= first_page(h.ph[k])
                                   /\ last_page(h.ph[k]) <= last_page(h.ph[j])
  BY Span
<1>. DEFINE lo == first_page(h.ph[i])
            hi == last_page(h.ph[j])
<1>3. ASSUME NEW c \in Covered
      PROVE  c \in Nat /\ lo <= c /\ c <= hi
  <2>0. PICK k \in Segments : \E a \in MemoryBytes(h.ph[k]) : c = a \div PAGE
    OBVIOUS
  <2>1. PICK a \in MemoryBytes(h.ph[k]) : c = a \div PAGE
    BY <2>0
  <2>2. h.ph[k].vaddr \in Nat /\ h.ph[k].memsz \in Nat
    BY Programs, Fields
  <2>3. /\ a \in Nat /\ h.ph[k].vaddr <= a /\ a <= h.ph[k].vaddr + h.ph[k].memsz - 1
        /\ h.ph[k].memsz # 0 /\ h.ph[k].vaddr + h.ph[k].memsz - 1 \in Nat
    BY <2>1, <2>2 DEF MemoryBytes
  <2>4. k \in loaded(h)
    BY <2>3 DEF loaded
  <2>5. first_page(h.ph[k]) <= c /\ c <= last_page(h.ph[k]) /\ c \in Nat
    BY <1>1, <2>1, <2>2, <2>3, DivMonotone, DivMod DEF first_page, last_page
  <2>6. first_page(h.ph[k]) \in Nat /\ last_page(h.ph[k]) \in Nat
    BY <1>1, <2>2, <2>3, DivMod DEF first_page, last_page
  <2>. QED BY <1>2, <2>4, <2>5, <2>6
<1>4. ASSUME NEW k \in loaded(h)
      PROVE  first_page(h.ph[k]) \in Covered /\ last_page(h.ph[k]) \in Covered
  <2>1. h.ph[k].vaddr \in Nat /\ h.ph[k].memsz \in Nat \ {0} /\ k \in Segments
    BY LoadedInRange DEF loaded
  <2>2. h.ph[k].vaddr \in MemoryBytes(h.ph[k]) /\ h.ph[k].vaddr + h.ph[k].memsz - 1 \in MemoryBytes(h.ph[k])
    BY <2>1 DEF MemoryBytes
  <2>. QED BY <2>1, <2>2 DEF first_page, last_page
<1>5. lo \in Covered /\ hi \in Covered
  BY <1>4
<1>. HIDE DEF Covered
<1>6. Covered \subseteq Nat /\ Covered \subseteq 0 .. hi /\ Covered # {} /\ lo \in Nat /\ hi \in Nat
  BY <1>2, <1>3, <1>5
<1>. HIDE DEF lo, hi
<1>7. Min(Covered) = lo
  <2>1. Min(Covered) \in Covered /\ Min(Covered) <= lo
    BY <1>5, <1>6, LeastNat
  <2>2. Min(Covered) \in Nat /\ lo <= Min(Covered)
    BY <1>3, <2>1, Zenon
  <2>. QED BY <1>6, <2>1, <2>2
<1>8. Max(Covered) = hi
  <2>1. Max(Covered) \in Covered /\ hi <= Max(Covered)
    BY <1>5, <1>6, GreatestNat
  <2>2. Max(Covered) \in Nat /\ Max(Covered) <= hi
    BY <1>3, <2>1, Zenon
  <2>. QED BY <1>6, <2>1, <2>2
<1>9. lo <= hi /\ low(h) = lo * PAGE /\ high(h) = (hi + 1) * PAGE
  BY <1>2 DEF lo, hi
<1>10. (hi + 1) * PAGE - lo * PAGE = (hi - lo + 1) * PAGE
  BY <1>1, <1>6, SMTT(20)
<1>11. (hi + 1) * PAGE > lo * PAGE /\ (hi + 1) * PAGE \in Nat /\ lo * PAGE \in Nat
  <2>1. hi + 1 \in Nat /\ lo < hi + 1
    BY <1>6, <1>9
  <2>2. lo * PAGE < (hi + 1) * PAGE /\ (hi + 1) * PAGE \in Nat /\ lo * PAGE \in Nat
    BY <1>1, <1>6, <2>1, TimesOrder
  <2>. QED BY <2>2
<1>12. high(h) - low(h) = (Max(Covered) - Min(Covered) + 1) * PAGE /\ high(h) > low(h)
  BY <1>7, <1>8, <1>9, <1>10, <1>11
<1>. QED BY <1>12 DEF Covered

(* valid_elf_header keeps the table of program headers inside the file.    *)
LEMMA HeaderExact ==
  ASSUME NEW h \in ELF_HEADER
  PROVE  valid_elf_header(h) <=>
           /\ h.ident_ok /\ h.phnum \in 1 .. MAX_PROGRAMS
           /\ h.phoff % PH_ALIGN = 0 /\ h.phoff + h.phnum * PROGRAM_SIZE <= h.size
<1>1. /\ h.phnum \in Nat /\ h.size \in Nat /\ h.phoff \in Nat
      /\ PROGRAM_SIZE \in Nat \ {0} /\ MAX_PROGRAMS \in Nat
  BY Programs, ElfAssumption
<1>2. h.phnum * PROGRAM_SIZE \in Nat
  BY <1>1, TimesOrder
<1>3. ASSUME h.phoff <= h.size
      PROVE  h.phnum <= (h.size - h.phoff) \div PROGRAM_SIZE <=> h.phoff + h.phnum * PROGRAM_SIZE <= h.size
  <2>1. h.size - h.phoff \in Nat
    BY <1>1, <1>3
  <2>2. h.phnum <= (h.size - h.phoff) \div PROGRAM_SIZE <=> h.phnum * PROGRAM_SIZE <= h.size - h.phoff
    BY <1>1, <2>1, DivAtLeast
  <2>. QED BY <1>1, <1>2, <2>2
<1>4. h.phoff + h.phnum * PROGRAM_SIZE <= h.size => h.phoff <= h.size
  BY <1>1, <1>2
<1>5. h.phnum \in 1 .. MAX_PROGRAMS <=> h.phnum # 0 /\ h.phnum <= MAX_PROGRAMS
  BY <1>1
<1>. QED BY <1>3, <1>4, <1>5, Zenon DEF valid_elf_header

(* A segment with an entry point in its file bytes needs memory.           *)
LEMMA EntryExact ==
  ASSUME NEW h \in ELF_HEADER, \A i \in DOMAIN h.ph : passes(h, i)
  PROVE  entry_valid(h) <=>
           \E i \in {i \in DOMAIN h.ph : h.ph[i].type = LOAD} :
             h.ph[i].exec /\ h.entry \in FileBytes(h.ph[i])
<1>1. h.entry \in Nat /\ \A i \in DOMAIN h.ph : h.ph[i] \in ELF_PROGRAM
  BY Programs
<1>2. ASSUME NEW i \in DOMAIN h.ph
      PROVE  h.entry \in FileBytes(h.ph[i]) <=> h.entry >= h.ph[i].vaddr /\ h.entry - h.ph[i].vaddr < h.ph[i].filesz
  BY <1>1, Fields DEF FileBytes
<1>3. ASSUME NEW i \in DOMAIN h.ph, h.ph[i].type = LOAD, h.entry \in FileBytes(h.ph[i])
      PROVE  i \in loaded(h)
  <2>1. h.ph[i].filesz <= h.ph[i].memsz
    BY <1>3 DEF passes, valid_segment
  <2>2. h.ph[i].filesz # 0 /\ h.ph[i].filesz \in Nat /\ h.ph[i].memsz \in Nat
    BY <1>1, <1>3, Fields DEF FileBytes
  <2>. QED BY <1>3, <2>1, <2>2 DEF loaded
<1>. QED BY <1>2, <1>3 DEF entry_valid, loaded

(* place_kernel accepts exactly the files the reference calls well formed, *)
(* whatever their headers say: both directions, every file.                *)
THEOREM VerdictExact ==
  ASSUME NEW h \in ELF_HEADER, ~(h.size < HEADER_SIZE)
  PROVE  verdict(h) = "EFI_SUCCESS" <=> WellFormed(h)
<1>. DEFINE Segments == {i \in DOMAIN h.ph : h.ph[i].type = LOAD}
            Covered  == {a \div PAGE : a \in UNION {MemoryBytes(h.ph[i]) : i \in Segments}}
            Header   == /\ h.ident_ok /\ h.phnum \in 1 .. MAX_PROGRAMS
                        /\ h.phoff % PH_ALIGN = 0 /\ h.phoff + h.phnum * PROGRAM_SIZE <= h.size
            Static   == \A i \in DOMAIN h.ph : h.ph[i].type \notin Dynamic
            Valid(i) == LET p == h.ph[i] IN
                        /\ p.vaddr \in IMAGE_LOW .. IMAGE_TOP - 1 /\ p.paddr = p.vaddr
                        /\ MemoryBytes(p) \subseteq IMAGE_LOW .. IMAGE_TOP - 1
                        /\ FileBytes(p) \subseteq MemoryBytes(p)
                        /\ p.offset + p.filesz <= h.size
                        /\ p.align > 1 => \E k \in 1 .. p.align : p.align = 2^k /\ (p.vaddr - p.offset) % p.align = 0
            Apart(i) == \A j \in Segments \ {i} : MemoryBytes(h.ph[i]) \cap MemoryBytes(h.ph[j]) = {}
            Entry    == \E i \in Segments : h.ph[i].exec /\ h.entry \in FileBytes(h.ph[i])
            Small    == (Max(Covered) - Min(Covered) + 1) * PAGE <= MAX_SPAN
            Passing  == \A i \in DOMAIN h.ph : passes(h, i)
<1>1. WellFormed(h) <=> /\ Header /\ Static /\ \A i \in Segments : Valid(i) /\ Apart(i)
                        /\ Entry /\ Small
  BY Zenon DEF WellFormed
<1>2. Header <=> valid_elf_header(h)
  BY HeaderExact, Zenon
<1>3. \A i \in Segments : Valid(i) <=> valid_segment(h.ph[i], h.size)
  <2>1. h.size \in Nat /\ \A i \in Segments : h.ph[i] \in ELF_PROGRAM
    BY Programs
  <2>. QED BY <2>1, SegmentExact, Zenon
<1>4. Passing <=> Static /\ (\A i \in Segments : valid_segment(h.ph[i], h.size))
                         /\ \A i \in Segments : Apart(i)
  BY PassesExact, Zenon
<1>5. Passing => (Entry <=> entry_valid(h))
  BY EntryExact, Zenon
<1>6. entry_valid(h) => loaded(h) # {}
  BY DEF entry_valid
<1>7. ASSUME Passing, loaded(h) # {}
      PROVE  /\ high(h) - low(h) = (Max(Covered) - Min(Covered) + 1) * PAGE
             /\ high(h) > low(h) /\ high(h) \in Int /\ low(h) \in Int
  <2>1. high(h) - low(h) = (Max(Covered) - Min(Covered) + 1) * PAGE /\ high(h) > low(h)
    BY <1>7, CoveredSpan, Zenon
  <2>2. high(h) \in Int /\ low(h) \in Int
    BY <1>7, Span, ElfAssumption, TimesOrder
  <2>. QED BY <2>1, <2>2
<1>8. verdict(h) = "EFI_SUCCESS" <=>
        /\ valid_elf_header(h) /\ Passing
        /\ entry_valid(h) /\ ~(high(h) <= low(h)) /\ ~(high(h) - low(h) > MAX_SPAN)
  BY Accepts, Zenon
<1>. HIDE DEF Header, Static, Valid, Apart, Entry, Passing, Covered, Segments
<1>9. ASSUME Passing, loaded(h) # {}
      PROVE  Small <=> ~(high(h) <= low(h)) /\ ~(high(h) - low(h) > MAX_SPAN)
  BY <1>7, <1>9, ElfAssumption
<1>. HIDE DEF Small
<1>. QED BY <1>1, <1>2, <1>3, <1>4, <1>5, <1>6, <1>8, <1>9, Zenon

-----------------------------------------------------------------------------
(* The pages place_kernel allocates and what copy_segments puts there.     *)

(* The range is a whole number of pages inside the memory for images, and  *)
(* holds every segment.                                                    *)
LEMMA RangeExact ==
  ASSUME NEW h \in ELF_HEADER, verdict(h) = "EFI_SUCCESS"
  PROVE  /\ low(h) \in Nat /\ high(h) \in Nat
         /\ IMAGE_LOW <= low(h) /\ low(h) < high(h) /\ high(h) <= IMAGE_TOP
         /\ ((high(h) - low(h)) \div PAGE) * PAGE = high(h) - low(h)
         /\ \A k \in loaded(h) : low(h) <= h.ph[k].vaddr /\ h.ph[k].vaddr + h.ph[k].memsz <= high(h)
<1>1. PAGE \in Nat \ {0} /\ IMAGE_LOW \in Nat /\ IMAGE_TOP \in Nat
  BY ElfAssumption
<1>2. (\A i \in DOMAIN h.ph : passes(h, i)) /\ loaded(h) # {} /\ ~(high(h) <= low(h))
  BY Accepts DEF entry_valid
<1>3. PICK i \in loaded(h), j \in loaded(h) :
           /\ first_page(h.ph[i]) \in Nat /\ last_page(h.ph[j]) \in Nat
           /\ first_page(h.ph[i]) <= last_page(h.ph[j])
           /\ low(h) = first_page(h.ph[i]) * PAGE /\ high(h) = (last_page(h.ph[j]) + 1) * PAGE
           /\ \A k \in loaded(h) : /\ first_page(h.ph[i]) <= first_page(h.ph[k])
                                   /\ last_page(h.ph[k]) <= last_page(h.ph[j])
  BY <1>2, Span
<1>. DEFINE lo == first_page(h.ph[i])
            hi == last_page(h.ph[j])
<1>4. lo \in Nat /\ hi + 1 \in Nat /\ lo < hi + 1 /\ low(h) = lo * PAGE /\ high(h) = (hi + 1) * PAGE
  BY <1>3
<1>5. \A k \in loaded(h) : /\ h.ph[k].vaddr \in Nat /\ h.ph[k].memsz \in Nat \ {0}
                           /\ h.ph[k].vaddr >= IMAGE_LOW /\ h.ph[k].vaddr + h.ph[k].memsz <= IMAGE_TOP
  BY <1>2, LoadedInRange
<1>6. IMAGE_LOW = (IMAGE_LOW \div PAGE) * PAGE /\ IMAGE_LOW \div PAGE \in Nat
  <2>0. IMAGE_LOW \in Int /\ IMAGE_LOW % PAGE = 0
    BY <1>1, ElfAssumption
  <2>1. IMAGE_LOW % PAGE = IMAGE_LOW - (IMAGE_LOW \div PAGE) * PAGE
    BY <1>1, <2>0, Remainder, Zenon
  <2>2. IMAGE_LOW \div PAGE \in Nat
    BY <1>1, DivMod
  <2>3. (IMAGE_LOW \div PAGE) * PAGE \in Nat
    BY <1>1, <2>2, TimesOrder
  <2>. QED BY <1>1, <2>0, <2>1, <2>2, <2>3
<1>7. IMAGE_TOP = (IMAGE_TOP \div PAGE) * PAGE /\ IMAGE_TOP \div PAGE \in Nat
  <2>0. IMAGE_TOP \in Int /\ IMAGE_TOP % PAGE = 0
    BY <1>1, ElfAssumption
  <2>1. IMAGE_TOP % PAGE = IMAGE_TOP - (IMAGE_TOP \div PAGE) * PAGE
    BY <1>1, <2>0, Remainder, Zenon
  <2>2. IMAGE_TOP \div PAGE \in Nat
    BY <1>1, DivMod
  <2>3. (IMAGE_TOP \div PAGE) * PAGE \in Nat
    BY <1>1, <2>2, TimesOrder
  <2>. QED BY <1>1, <2>0, <2>1, <2>2, <2>3
<1>8. IMAGE_LOW <= low(h)
  <2>1. IMAGE_LOW \div PAGE <= lo
    BY <1>1, <1>5, DivMonotone DEF first_page
  <2>2. (IMAGE_LOW \div PAGE) * PAGE <= lo * PAGE
    BY <1>1, <1>4, <1>6, <2>1, TimesOrder
  <2>. QED BY <1>4, <1>6, <2>2
<1>9. high(h) <= IMAGE_TOP
  <2>. DEFINE b == h.ph[j].vaddr + h.ph[j].memsz - 1
              T == IMAGE_TOP \div PAGE
  <2>1. b \in Nat /\ b < IMAGE_TOP /\ hi = b \div PAGE
    BY <1>1, <1>5 DEF last_page
  <2>. HIDE DEF b, T
  <2>2. hi \in Nat /\ hi * PAGE <= b
    BY <1>1, <2>1, DivMod
  <2>3. T \in Nat /\ IMAGE_TOP = T * PAGE
    BY <1>7 DEF T
  <2>4. hi * PAGE < T * PAGE
    BY <1>1, <2>1, <2>2, <2>3, TimesOrder
  <2>5. hi + 1 <= T
    BY <1>1, <2>2, <2>3, <2>4, TimesOrder
  <2>6. (hi + 1) * PAGE <= T * PAGE
    BY <1>1, <1>4, <2>3, <2>5, TimesOrder
  <2>. QED BY <1>4, <2>3, <2>6
<1>10. ((high(h) - low(h)) \div PAGE) * PAGE = high(h) - low(h)
  <2>. HIDE DEF lo, hi
  <2>1. hi \in Nat
    BY <1>3 DEF hi
  <2>. DEFINE n == (hi + 1) - lo
  <2>2. n \in Nat /\ (hi + 1) * PAGE - lo * PAGE = n * PAGE
    BY <1>1, <1>4, <2>1, SMTT(20)
  <2>. HIDE DEF n
  <2>3. n * PAGE \in Nat /\ n * PAGE <= n * PAGE /\ n * PAGE < n * PAGE + PAGE
    BY <1>1, <2>2, TimesOrder
  <2>4. (n * PAGE) \div PAGE = n
    BY <1>1, <2>2, <2>3, DivUnique
  <2>5. high(h) - low(h) = n * PAGE
    BY <1>4, <2>2
  <2>. QED BY <2>4, <2>5, Zenon
<1>11. ASSUME NEW k \in loaded(h)
       PROVE  low(h) <= h.ph[k].vaddr /\ h.ph[k].vaddr + h.ph[k].memsz <= high(h)
  <2>. DEFINE b == h.ph[k].vaddr + h.ph[k].memsz - 1
              f == h.ph[k].vaddr \div PAGE
              l == b \div PAGE
  <2>1. b \in Nat /\ h.ph[k].vaddr \in Nat /\ h.ph[k].memsz \in Nat
    BY <1>5
  <2>2. lo <= f /\ l <= hi
    BY <1>3 DEF first_page, last_page
  <2>3. f \in Nat /\ f * PAGE <= h.ph[k].vaddr
    BY <1>1, <2>1, DivMod
  <2>4. l \in Nat /\ b < l * PAGE + PAGE
    BY <1>1, <2>1, DivMod
  <2>5. h.ph[k].vaddr + h.ph[k].memsz = b + 1
    BY <2>1
  <2>. HIDE DEF b, f, l
  <2>6. lo * PAGE <= h.ph[k].vaddr
    <3>1. lo * PAGE \in Nat /\ f * PAGE \in Nat /\ lo * PAGE <= f * PAGE
      BY <1>1, <1>4, <2>2, <2>3, TimesOrder
    <3>. HIDE DEF lo
    <3>. QED BY <2>1, <2>3, <3>1
  <2>7. b + 1 <= (hi + 1) * PAGE
    <3>1. l + 1 <= hi + 1 /\ l + 1 \in Nat
      BY <1>3, <2>2, <2>4
    <3>2. (l + 1) * PAGE <= (hi + 1) * PAGE /\ (hi + 1) * PAGE \in Nat
      BY <1>1, <1>4, <3>1, TimesOrder
    <3>3. (l + 1) * PAGE = l * PAGE + PAGE /\ l * PAGE \in Nat
      BY <1>1, <2>4, SMTT(20)
    <3>. HIDE DEF hi
    <3>. QED BY <1>1, <2>1, <2>4, <3>2, <3>3
  <2>. QED BY <1>4, <2>5, <2>6, <2>7
<1>12. low(h) \in Nat /\ high(h) \in Nat
  BY <1>1, <1>4, TimesOrder
<1>. QED BY <1>2, <1>8, <1>9, <1>10, <1>11, <1>12

(* With the whole file in the buffer, copy_segments writes nothing outside *)
(* the range although it stores wherever the segments say; the range       *)
(* contains every segment, its bytes are those of the segments (they do    *)
(* not overlap, so the order of the copy does not matter) and zeros, and   *)
(* the entry point is a byte of the file.                                  *)
THEOREM ImageExact ==
  ASSUME NEW h \in ELF_HEADER, verdict(h) = "EFI_SUCCESS"
  PROVE  /\ DOMAIN copy_segments(h, h.size) = low(h) .. high(h) - 1
         /\ ImageOf(h, copy_segments(h, h.size))
         /\ copy_segments(h, h.size)[h.entry] \notin {0, Garbage}
<1>. DEFINE image == copy_segments(h, h.size)
            writers(a) == {i \in segments(h) : a \in destination(h.ph[i])}
            value(i, a) == buffered(h.ph[i].offset + (a - h.ph[i].vaddr), h.size)
            written == UNION {destination(h.ph[i]) : i \in segments(h)}
<1>1. (\A i \in DOMAIN h.ph : passes(h, i)) /\ entry_valid(h)
  BY Accepts
<1>2. low(h) \in Nat /\ high(h) \in Nat
  BY RangeExact
<1>3. ASSUME NEW i \in segments(h)
      PROVE  /\ i \in DOMAIN h.ph /\ h.size \in Nat /\ h.ph[i].offset \in Nat /\ h.ph[i].vaddr \in Nat
             /\ h.ph[i].filesz \in Nat /\ h.ph[i].memsz \in Nat /\ h.ph[i].filesz <= h.ph[i].memsz
             /\ h.ph[i].offset + h.ph[i].filesz <= h.size
             /\ h.ph[i].memsz # 0 => i \in loaded(h)
  <2>1. i \in DOMAIN h.ph /\ h.ph[i].type = LOAD /\ h.size \in Nat
    BY Programs DEF segments
  <2>2. /\ h.ph[i].offset \in Nat /\ h.ph[i].vaddr \in Nat
        /\ h.ph[i].filesz \in Nat /\ h.ph[i].memsz \in Nat
    BY <2>1, Programs, Fields
  <2>3. h.ph[i].filesz <= h.ph[i].memsz /\ h.ph[i].offset <= h.size /\ h.ph[i].filesz <= h.size - h.ph[i].offset
    BY <1>1, <2>1 DEF passes, valid_segment
  <2>. QED BY <2>1, <2>2, <2>3 DEF loaded
<1>4. DOMAIN image = low(h) .. high(h) - 1
  <2>1. ASSUME NEW i \in segments(h), NEW a \in destination(h.ph[i])
        PROVE  a \in low(h) .. high(h) - 1
    <3>1. i \in loaded(h)
      BY <1>3 DEF destination
    <3>2. low(h) <= h.ph[i].vaddr /\ h.ph[i].vaddr + h.ph[i].memsz <= high(h)
      BY <3>1, RangeExact
    <3>. QED BY <1>2, <1>3, <3>2 DEF destination
  <2>2. written \subseteq low(h) .. high(h) - 1
    BY <2>1
  <2>3. DOMAIN image = (low(h) .. high(h) - 1) \cup written
    BY DEF copy_segments
  <2>. QED BY <2>2, <2>3
<1>5. ASSUME NEW a \in low(h) .. high(h) - 1
      PROVE  image[a] = IF writers(a) = {} THEN 0 ELSE value(Max(writers(a)), a)
  BY DEF copy_segments
<1>6. ASSUME NEW a, NEW i \in writers(a)
      PROVE  value(i, a) = h.ph[i].offset + (a - h.ph[i].vaddr) + 1
  <2>1. i \in segments(h) /\ a \in destination(h.ph[i])
    OBVIOUS
  <2>. QED BY <1>3, <2>1 DEF buffered, destination
<1>7. ASSUME NEW a \in Nat
      PROVE  writers(a) = {i \in loaded(h) : a \in FileBytes(h.ph[i])}
  <2>1. ASSUME NEW i \in segments(h), a \in destination(h.ph[i])
        PROVE  i \in loaded(h)
    BY <1>3, <2>1 DEF destination
  <2>2. loaded(h) \subseteq segments(h)
    BY DEF loaded, segments
  <2>. QED BY <2>1, <2>2 DEF destination, FileBytes
<1>8. ASSUME NEW a \in Nat, NEW i \in writers(a), NEW j \in writers(a)
      PROVE  i = j
  <2>1. i \in loaded(h) /\ j \in loaded(h) /\ a \in FileBytes(h.ph[i]) /\ a \in FileBytes(h.ph[j])
    BY <1>7
  <2>2. FileBytes(h.ph[i]) \subseteq MemoryBytes(h.ph[i]) /\ FileBytes(h.ph[j]) \subseteq MemoryBytes(h.ph[j])
    BY <1>1, <2>1, LoadedInRange, SegmentExact, Programs
  <2>3. MemoryBytes(h.ph[i]) \cap MemoryBytes(h.ph[j]) # {}
    BY <2>1, <2>2
  <2>. QED BY <1>1, <2>1, <2>3, PassesExact DEF loaded
<1>9. ASSUME NEW a \in Nat, NEW i \in writers(a)
      PROVE  /\ Max(writers(a)) = i
             /\ (CHOOSE k \in loaded(h) : a \in FileBytes(h.ph[k])) = i
  <2>1. writers(a) = {i}
    BY <1>8
  <2>2. DOMAIN h.ph \subseteq Nat
    BY Programs
  <2>3. i \in Nat
    BY <1>3, <2>2
  <2>4. Max({i}) = i
    <3>1. {i} \subseteq 0 .. i /\ {i} # {}
      BY <2>3
    <3>. QED BY <2>3, <3>1, GreatestNat
  <2>5. \A k \in loaded(h) : a \in FileBytes(h.ph[k]) => k = i
    BY <1>7, <1>8
  <2>6. i \in loaded(h) /\ a \in FileBytes(h.ph[i])
    BY <1>7
  <2>. QED BY <2>1, <2>4, <2>5, <2>6
<1>10. ASSUME NEW i \in loaded(h) PROVE MemoryBytes(h.ph[i]) \subseteq low(h) .. high(h) - 1
  <2>1. h.ph[i].vaddr \in Nat /\ h.ph[i].memsz \in Nat
    BY <1>1, LoadedInRange
  <2>2. low(h) <= h.ph[i].vaddr /\ h.ph[i].vaddr + h.ph[i].memsz <= high(h)
    BY RangeExact
  <2>. QED BY <1>2, <2>1, <2>2 DEF MemoryBytes
<1>11. ImageOf(h, image)
  <2>. SUFFICES ASSUME NEW a \in low(h) .. high(h) - 1
                PROVE  image[a] =
                         IF \E i \in loaded(h) : a \in FileBytes(h.ph[i])
                         THEN LET p == h.ph[CHOOSE i \in loaded(h) : a \in FileBytes(h.ph[i])]
                              IN  p.offset + a - p.vaddr + 1
                         ELSE 0
    BY <1>4, <1>10 DEF ImageOf
  <2>1. a \in Nat
    BY <1>2
  <2>2. CASE writers(a) = {}
    <3>1. ~\E i \in loaded(h) : a \in FileBytes(h.ph[i])
      BY <1>7, <2>1, <2>2
    <3>. QED BY <1>5, <2>2, <3>1
  <2>3. CASE writers(a) # {}
    <3>1. PICK i \in writers(a) : TRUE
      BY <2>3
    <3>2. i \in loaded(h) /\ a \in FileBytes(h.ph[i]) /\ i \in DOMAIN h.ph
      BY <1>7, <2>1 DEF loaded
    <3>3. image[a] = h.ph[i].offset + (a - h.ph[i].vaddr) + 1
      <4>. HIDE DEF image, writers, value
      <4>. QED BY <1>5, <1>6, <1>9, <2>1, <2>3
    <3>4. (CHOOSE k \in loaded(h) : a \in FileBytes(h.ph[k])) = i
      BY <1>9, <2>1
    <3>5. h.ph[i].offset \in Nat /\ h.ph[i].vaddr \in Nat
      BY <3>2, Programs, Fields
    <3>6. h.ph[i].offset + (a - h.ph[i].vaddr) + 1 = h.ph[i].offset + a - h.ph[i].vaddr + 1
      BY <2>1, <3>5
    <3>. HIDE DEF image
    <3>. QED BY <3>2, <3>3, <3>4, <3>6
  <2>. QED BY <2>2, <2>3
<1>12. image[h.entry] \notin {0, Garbage}
  <2>1. PICK i \in loaded(h) : h.entry >= h.ph[i].vaddr /\ h.entry - h.ph[i].vaddr < h.ph[i].filesz
    BY <1>1 DEF entry_valid
  <2>2. /\ h.ph[i].offset \in Nat /\ h.ph[i].vaddr \in Nat /\ h.ph[i].filesz \in Nat
        /\ h.ph[i].memsz \in Nat /\ h.entry \in Nat /\ h.ph[i].filesz <= h.ph[i].memsz
    <3>1. valid_segment(h.ph[i], h.size) /\ h.ph[i] \in ELF_PROGRAM
      BY <1>1, LoadedInRange
    <3>. QED BY <3>1, Programs, Fields DEF valid_segment
  <2>3. low(h) <= h.ph[i].vaddr /\ h.ph[i].vaddr + h.ph[i].memsz <= high(h)
    BY RangeExact
  <2>4. h.entry \in low(h) .. high(h) - 1
    BY <1>2, <2>1, <2>2, <2>3
  <2>5. i \in writers(h.entry)
    BY <2>1, <2>2 DEF loaded, segments, destination
  <2>6. image[h.entry] = h.ph[i].offset + (h.entry - h.ph[i].vaddr) + 1
    <3>. HIDE DEF image, writers, value
    <3>. QED BY <1>5, <1>6, <1>9, <2>2, <2>4, <2>5
  <2>. HIDE DEF image
  <2>. QED BY <2>1, <2>2, <2>6 DEF Garbage
<1>. QED BY <1>4, <1>11, <1>12

-----------------------------------------------------------------------------
(* The inductive invariant.  The calls of the loader, in groups that hold  *)
(* the same resources.                                                     *)

Starting ==
  {"SetWatchdogTimer", "LocateProtocol", "SetAttributes", "Write_banner",
   "HandleProtocol_image", "HandleProtocol_volume", "OpenVolume"}
Opened == {"SetPosition_end", "GetPosition", "SetPosition_0", "AllocatePool"}
Buffered == {"Read", "place_kernel"}
Placed == {"Write_entry", "AllocatePages_handoff", "FreePages_kernel"}
Leaving == {"GetMemoryMap", "ExitBootServices", "FreePages_handoff", "kernel", "spin"}

(* The kernel's pages are held at the cleanup label when all went well.    *)
image_pages == IF status = "EFI_SUCCESS" THEN {"kernel"} ELSE {}

(* Every call site holds exactly what the calls before it have obtained.   *)
ResourcesHeld ==
  /\ ~misused
  /\ pc \in Starting \cup {"Open"} \cup Opened \cup Buffered \cup {"cleanup", "Close_file", "Close_root"}
             \cup Placed \cup Leaving \cup {"report_error", "returned"}
  /\ pc \in Starting => held = {} /\ pointers = {} /\ status = "EFI_SUCCESS"
  /\ pc = "Open" => held = {"root"} /\ pointers = {} /\ status = "EFI_SUCCESS"
  /\ pc \in Opened => held = {"root", "file"} /\ pointers = {"file"} /\ status = "EFI_SUCCESS"
  /\ pc \in Buffered =>
       held = {"root", "file", "buffer"} /\ pointers = {"file", "buffer"} /\ status = "EFI_SUCCESS"
  /\ pc \in {"cleanup", "Close_file"} => pointers \in {{}, {"file"}, {"file", "buffer"}}
  /\ pc = "cleanup" => held = {"root"} \cup pointers \cup image_pages
  /\ pc = "Close_file" => held = {"root"} \cup (pointers \ {"buffer"}) \cup image_pages
  /\ pc = "Close_root" => held = {"root"} \cup image_pages
  /\ pc \in Placed => held = {"kernel"}
  /\ pc \in Leaving => held = {"kernel", "handoff"}
  /\ pc \in {"report_error", "returned"} => held = {}

(* After the first attempt to exit, the attempt counter is not zero while  *)
(* the loop runs, and the loop or its end is where the loader is.          *)
ServicesLeft ==
  /\ attempt \in Nat
  /\ services \in {"running", "leaving", "exited"}
  /\ services # "running" =>
       /\ pc \in {"GetMemoryMap", "ExitBootServices", "kernel", "spin"}
       /\ call \in {"GetMemoryMap", "ExitBootServices"}
       /\ pc \in {"GetMemoryMap", "ExitBootServices"} => attempt > 0
  /\ pc = "kernel" => services = "exited" /\ ~interrupts

(* The kernel in memory is the image of an accepted file, the one still    *)
(* open if it is.                                                          *)
ImagePlaced ==
  \E h \in ELF_HEADER :
    /\ verdict(h) = "EFI_SUCCESS" /\ memory = copy_segments(h, h.size)
    /\ kernel = [base |-> low(h), pages |-> (high(h) - low(h)) \div PAGE, entry |-> h.entry]
    /\ file # NULL => file = h

KernelMatchesFile ==
  /\ kernel # NULL => ImagePlaced
  /\ pc \in Starting \cup {"Open"} \cup Opened \cup Buffered => kernel = NULL
  /\ pc \in {"cleanup", "Close_file", "Close_root"} /\ status = "EFI_SUCCESS" => ImagePlaced
  /\ pc \in Placed \cup Leaving => ImagePlaced
  /\ pc \in Opened \cup Buffered => file \in ELF_HEADER
  /\ pc \in {"SetPosition_0", "AllocatePool"} \cup Buffered => ~(file.size < HEADER_SIZE)
  /\ pc = "place_kernel" => total = file.size

(* The boot information block when size bytes of map have been read.       *)
block(base, size, descriptor, version, flags) ==
  [self |-> base, magic |-> "BOOT_INFO_MAGIC", version |-> 2, size |-> sizeof_BOOT_INFO,
   memory_map |-> base + 4096, memory_map_size |-> size, descriptor_size |-> descriptor,
   descriptor_version |-> version, reserved |-> 0, kernel_base |-> kernel.base,
   kernel_size |-> kernel.pages * PAGE, stack_base |-> stack_base_of(base + 4096),
   stack_size |-> 16 * 4096, flags |-> flags]

BlockReady ==
  /\ key \in Nat
  /\ pc = "GetMemoryMap" =>
       \E base \in HandoffBases, size \in Nat, descriptor \in Nat, version \in Nat :
         info = block(base, size, descriptor, version, 0)
  /\ pc = "ExitBootServices" =>
       map_key \in Nat /\ \E base \in HandoffBases : info = block(base, map_size(map_key), 48, 1, 0)
  /\ pc = "kernel" =>
       map_key = key /\ \E base \in HandoffBases : info = block(base, map_size(key), 48, 1, 1)

LoaderInv == ResourcesHeld /\ ServicesLeft /\ KernelMatchesFile /\ BlockReady

-----------------------------------------------------------------------------
(* The groups of calls, for steps that need their elements.                *)
LEMMA PlainCalls ==
  ASSUME NEW label \in DOMAIN plain_calls, NEW outcome \in {1, 2}
  PROVE  LET target == plain_calls[label][outcome]
         IN  \/ label \in Starting /\ target \in Starting \cup {"report_error"}
             \/ label = "SetPosition_end" /\ target \in {"GetPosition", "cleanup"}
             \/ label = "SetPosition_0" /\ target \in {"AllocatePool", "cleanup"}
             \/ label = "Write_entry" /\ target \in {"AllocatePages_handoff", "FreePages_kernel"}
<1>1. label \in {"SetWatchdogTimer", "LocateProtocol", "SetAttributes", "Write_banner",
                 "HandleProtocol_image", "HandleProtocol_volume", "SetPosition_end", "SetPosition_0",
                 "Write_entry"}
  BY DEF plain_calls
<1>. QED BY <1>1 DEF plain_calls, Starting

(* When the firmware starts the loader.                                    *)
LEMMA LoaderInitInv == Init => LoaderInv
BY DEF Init, LoaderInv, ResourcesHeld, ServicesLeft, KernelMatchesFile, BlockReady,
       Starting, Opened, Buffered, Placed, Leaving

(* What the placed image and the block are made of does not change.        *)
LEMMA ImageKept ==
  ASSUME UNCHANGED <<kernel, memory>>, UNCHANGED file \/ file' = NULL, ImagePlaced
  PROVE  ImagePlaced'
BY DEF ImagePlaced

(* Calls that allocate and place nothing.                                  *)
LEMMA PlainStep ==
  ASSUME LoaderInv, plain_call
  PROVE  LoaderInv'
<1>1. PICK label \in DOMAIN plain_calls, outcome \in {1, 2} :
        /\ at(label)
        /\ goto(plain_calls[label][outcome])
        /\ load_status(plain_calls[label][outcome])
        /\ keep
        /\ UNCHANGED <<pointers, file, total, kernelVars, exitVars, interrupts, firmwareVars>>
  BY DEF plain_call
<1>. DEFINE target == plain_calls[label][outcome]
<1>2. \/ label \in Starting /\ target \in Starting \cup {"report_error"}
      \/ label = "SetPosition_end" /\ target \in {"GetPosition", "cleanup"}
      \/ label = "SetPosition_0" /\ target \in {"AllocatePool", "cleanup"}
      \/ label = "Write_entry" /\ target \in {"AllocatePages_handoff", "FreePages_kernel"}
  BY PlainCalls
<1>3. /\ pc = label /\ pc' = target
      /\ status' = IF target = "cleanup" THEN "EFI_ERROR" ELSE status
      /\ UNCHANGED <<held, misused, pointers, file, kernel, memory, info, attempt, map_key,
                     interrupts, services, key>>
  BY <1>1 DEF at, goto, load_status, keep, kernelVars, exitVars, firmwareVars
<1>. HIDE DEF target
<1>4. ResourcesHeld'
  BY <1>2, <1>3 DEF LoaderInv, ResourcesHeld, Starting, Opened, Buffered, Placed, Leaving, image_pages
<1>5. ServicesLeft' /\ BlockReady'
  BY <1>2, <1>3 DEF LoaderInv, ServicesLeft, BlockReady, Starting
<1>6. KernelMatchesFile'
  BY <1>2, <1>3, ImageKept DEF LoaderInv, KernelMatchesFile, Starting, Opened, Buffered, Placed, Leaving
<1>. QED BY <1>4, <1>5, <1>6 DEF LoaderInv

(* load_kernel up to the file: report_error, OpenVolume, Open.             *)
LEMMA OpenSteps ==
  ASSUME LoaderInv, report_error \/ open_volume \/ open_file
  PROVE  LoaderInv'
<1>1. /\ pc \in {"report_error", "OpenVolume", "Open"}
      /\ UNCHANGED <<kernel, memory, info, attempt, map_key, interrupts, services, key>>
  BY DEF report_error, open_volume, open_file, at, loadVars, kernelVars, exitVars, firmwareVars
<1>2. pc' \in {"returned", "Open", "report_error", "SetPosition_end", "cleanup"}
  BY DEF report_error, open_volume, open_file, goto
<1>3. ResourcesHeld'
  <2>1. CASE report_error
    BY <2>1 DEF LoaderInv, ResourcesHeld, report_error, at, goto, keep, Starting, Opened, Buffered, Placed, Leaving
  <2>2. CASE open_volume
    BY <2>2 DEF LoaderInv, ResourcesHeld, open_volume, at, goto, keep, acquire, loadVars,
                Starting, Opened, Buffered, Placed, Leaving
  <2>3. CASE open_file
    BY <2>3 DEF LoaderInv, ResourcesHeld, open_file, at, goto, keep, acquire, load_status, image_pages,
                Starting, Opened, Buffered, Placed, Leaving
  <2>. QED BY <2>1, <2>2, <2>3
<1>4. ServicesLeft' /\ BlockReady'
  BY <1>1, <1>2 DEF LoaderInv, ServicesLeft, BlockReady
<1>5. KernelMatchesFile'
  <2>1. CASE report_error \/ open_volume
    <3>1. /\ UNCHANGED <<status, file>> /\ pc' \in {"returned", "Open", "report_error"}
          /\ pc' = "Open" => pc = "OpenVolume"
      BY <2>1 DEF report_error, open_volume, at, goto, loadVars
    <3>. QED BY <1>1, <3>1, ImageKept
             DEF LoaderInv, KernelMatchesFile, Starting, Opened, Buffered, Placed, Leaving
  <2>2. CASE open_file
    <3>1. kernel' = NULL
      BY <1>1, <2>2 DEF LoaderInv, KernelMatchesFile, open_file, at
    <3>2. \/ pc' = "SetPosition_end" /\ file' \in ELF_HEADER
          \/ pc' = "cleanup" /\ status' = "EFI_ERROR"
      BY <2>2, LoaderAssumption DEF open_file, goto, load_status
    <3>. QED BY <3>1, <3>2 DEF KernelMatchesFile, Starting, Opened, Buffered, Placed, Leaving
  <2>. QED BY <2>1, <2>2
<1>. QED BY <1>3, <1>4, <1>5 DEF LoaderInv

(* load_kernel with the file open: its size, the buffer, Read.             *)
LEMMA ReadSteps ==
  ASSUME LoaderInv, get_position \/ allocate_pool \/ read_file
  PROVE  LoaderInv'
<1>1. /\ pc \in {"GetPosition", "AllocatePool", "Read"}
      /\ UNCHANGED <<file, kernel, memory, info, attempt, map_key, interrupts, services, key>>
  BY DEF get_position, allocate_pool, read_file, at, loadVars, kernelVars, exitVars, firmwareVars
<1>2. \/ pc' = "cleanup" /\ status' = "EFI_ERROR" /\ UNCHANGED <<held, misused, pointers>>
      \/ /\ pc = "GetPosition" /\ pc' = "SetPosition_0" /\ ~(file.size < HEADER_SIZE)
         /\ UNCHANGED <<status, held, misused, pointers>>
      \/ /\ pc = "AllocatePool" /\ pc' = "Read" /\ held' = held \cup {"buffer"}
         /\ pointers' = pointers \cup {"buffer"} /\ UNCHANGED <<status, misused>>
      \/ /\ pc = "Read" /\ pc' \in {"Read", "place_kernel"} /\ UNCHANGED <<status, held, misused, pointers>>
         /\ pc' = "place_kernel" => total' = file.size
  <2>1. CASE get_position
    BY <2>1 DEF get_position, at, goto, load_status, keep
  <2>2. CASE allocate_pool
    BY <2>2 DEF allocate_pool, at, goto, load_status, keep, acquire
  <2>3. CASE read_file
    BY <2>3 DEF read_file, at, goto, load_status, keep
  <2>. QED BY <2>1, <2>2, <2>3
<1>3. ResourcesHeld'
  BY <1>1, <1>2 DEF LoaderInv, ResourcesHeld, Starting, Opened, Buffered, Placed, Leaving, image_pages
<1>4. ServicesLeft' /\ BlockReady'
  BY <1>1, <1>2 DEF LoaderInv, ServicesLeft, BlockReady
<1>5. KernelMatchesFile'
  BY <1>1, <1>2, ImageKept DEF LoaderInv, KernelMatchesFile, Starting, Opened, Buffered, Placed, Leaving
<1>. QED BY <1>3, <1>4, <1>5 DEF LoaderInv

(* place_kernel: a file that is refused, or has no memory, leaves nothing. *)
LEMMA PlaceStep ==
  ASSUME LoaderInv, place_kernel
  PROVE  LoaderInv'
<1>1. /\ pc = "place_kernel" /\ pc' = "cleanup"
      /\ UNCHANGED <<pointers, file, info, attempt, map_key, interrupts, services, key>>
  BY DEF place_kernel, goto, exitVars, firmwareVars
<1>2. \/ /\ verdict(file) = "EFI_SUCCESS" /\ held' = held \cup {"kernel"} /\ UNCHANGED <<misused, status>>
         /\ memory' = copy_segments(file, total)
         /\ kernel' = [base |-> low(file), pages |-> (high(file) - low(file)) \div PAGE, entry |-> file.entry]
      \/ status' # "EFI_SUCCESS" /\ UNCHANGED <<held, misused, kernel, memory>>
  BY DEF place_kernel, acquire, keep, kernelVars
<1>3. file \in ELF_HEADER /\ kernel = NULL /\ status = "EFI_SUCCESS" /\ total = file.size
  BY <1>1 DEF LoaderInv, KernelMatchesFile, ResourcesHeld, Buffered
<1>4. ResourcesHeld'
  BY <1>1, <1>2, <1>3
     DEF LoaderInv, ResourcesHeld, Starting, Opened, Buffered, Placed, Leaving, image_pages
<1>5. ServicesLeft' /\ BlockReady'
  BY <1>1 DEF LoaderInv, ServicesLeft, BlockReady
<1>6. ImagePlaced' \/ (kernel' = NULL /\ status' # "EFI_SUCCESS")
  BY <1>1, <1>2, <1>3 DEF ImagePlaced
<1>7. KernelMatchesFile'
  BY <1>1, <1>6 DEF KernelMatchesFile, Starting, Opened, Buffered, Placed, Leaving
<1>. QED BY <1>4, <1>5, <1>7 DEF LoaderInv

(* The cleanup label: each resource is given back once, if it was taken.   *)
LEMMA CleanupSteps ==
  ASSUME LoaderInv, cleanup_buffer \/ cleanup_file \/ cleanup_root
  PROVE  LoaderInv'
<1>1. /\ pc \in {"cleanup", "Close_file", "Close_root"}
      /\ pc' \in {"Close_file", "Close_root", "Write_entry", "report_error"}
      /\ UNCHANGED <<status, kernel, memory, info, attempt, map_key, interrupts, services, key>>
      /\ UNCHANGED file \/ file' = NULL
      /\ pc' = "Write_entry" => status = "EFI_SUCCESS"
  BY DEF cleanup_buffer, cleanup_file, cleanup_root, at, goto, loadVars, kernelVars, exitVars, firmwareVars
<1>2. ResourcesHeld'
  <2>1. CASE cleanup_buffer
    BY <2>1 DEF LoaderInv, ResourcesHeld, cleanup_buffer, goto, keep, release, loadVars, image_pages,
                Starting, Opened, Buffered, Placed, Leaving
  <2>2. CASE cleanup_file
    BY <2>2 DEF LoaderInv, ResourcesHeld, cleanup_file, goto, keep, release, loadVars, image_pages,
                Starting, Opened, Buffered, Placed, Leaving
  <2>3. CASE cleanup_root
    BY <2>3 DEF LoaderInv, ResourcesHeld, cleanup_root, at, goto, release, image_pages,
                Starting, Opened, Buffered, Placed, Leaving
  <2>. QED BY <2>1, <2>2, <2>3
<1>3. ServicesLeft' /\ BlockReady'
  BY <1>1 DEF LoaderInv, ServicesLeft, BlockReady
<1>4. KernelMatchesFile'
  BY <1>1, ImageKept DEF LoaderInv, KernelMatchesFile, Starting, Opened, Buffered, Placed, Leaving
<1>. QED BY <1>2, <1>3, <1>4 DEF LoaderInv

-----------------------------------------------------------------------------
(* start_kernel.                                                           *)

(* Giving back what start_kernel holds, before any attempt to exit.        *)
LEMMA FreeSteps ==
  ASSUME LoaderInv, free_kernel \/ free_handoff
  PROVE  LoaderInv'
<1>1. services = "running"
  BY DEF LoaderInv, ServicesLeft, free_kernel, free_handoff, at
<1>2. ResourcesHeld'
  <2>1. CASE free_kernel
    BY <2>1 DEF LoaderInv, ResourcesHeld, free_kernel, at, goto, release, loadVars,
                Starting, Opened, Buffered, Placed, Leaving
  <2>2. CASE free_handoff
    BY <2>2 DEF LoaderInv, ResourcesHeld, free_handoff, at, goto, release, loadVars,
                Starting, Opened, Buffered, Placed, Leaving
  <2>. QED BY <2>1, <2>2
<1>3. ServicesLeft' /\ BlockReady'
  BY <1>1 DEF LoaderInv, ServicesLeft, BlockReady, free_kernel, free_handoff, at, goto,
              exitVars, firmwareVars
<1>4. KernelMatchesFile'
  <2>1. CASE free_kernel
    <3>1. kernel' = NULL /\ pc' = "report_error"
      BY <2>1 DEF free_kernel, goto
    <3>. QED BY <3>1 DEF KernelMatchesFile, Starting, Opened, Buffered, Placed, Leaving
  <2>2. CASE free_handoff
    <3>1. /\ pc = "FreePages_handoff" /\ pc' = "FreePages_kernel"
          /\ UNCHANGED <<kernel, memory, file>>
      BY <2>2 DEF free_handoff, at, goto, loadVars, kernelVars
    <3>. QED BY <3>1, ImageKept
             DEF LoaderInv, KernelMatchesFile, Starting, Opened, Buffered, Placed, Leaving
  <2>. QED BY <2>1, <2>2
<1>. QED BY <1>2, <1>3, <1>4 DEF LoaderInv

(* The block as allocate_handoff leaves it, and as the two calls that      *)
(* complete it do.                                                         *)
LEMMA BlockCleared ==
  ASSUME NEW base
  PROVE  allocate_handoff(base, kernel.base, kernel.pages * PAGE) = block(base, 0, 0, 0, 0)
BY DEF allocate_handoff, block

mapped(old, size) ==
  [old EXCEPT !.memory_map_size = size, !.descriptor_size = 48, !.descriptor_version = 1]

(* GetMemoryMap sets three fields of the handoff block.                    *)
LEMMA BlockMapped ==
  ASSUME NEW base, NEW size, NEW descriptor, NEW version, NEW flags, NEW n
  PROVE  mapped(block(base, size, descriptor, version, flags), n) = block(base, n, 48, 1, flags)
<1>. DEFINE r == block(base, size, descriptor, version, flags)
<1>1. [r EXCEPT !.memory_map_size = n] = block(base, n, descriptor, version, flags)
  BY DEF block
<1>2. [block(base, n, descriptor, version, flags) EXCEPT !.descriptor_size = 48]
        = block(base, n, 48, version, flags)
  BY DEF block
<1>3. [block(base, n, 48, version, flags) EXCEPT !.descriptor_version = 1] = block(base, n, 48, 1, flags)
  BY DEF block
<1>. HIDE DEF r
<1>4. [r EXCEPT !.memory_map_size = n, !.descriptor_size = 48, !.descriptor_version = 1]
        = [[[r EXCEPT !.memory_map_size = n] EXCEPT !.descriptor_size = 48] EXCEPT !.descriptor_version = 1]
  OBVIOUS
<1>. QED BY <1>1, <1>2, <1>3, <1>4 DEF r, mapped

(* A successful ExitBootServices sets its flags.                           *)
LEMMA BlockFlagged ==
  ASSUME NEW base, NEW size, NEW descriptor, NEW version, NEW flags
  PROVE  [block(base, size, descriptor, version, flags) EXCEPT !.flags = 1]
           = block(base, size, descriptor, version, 1)
BY DEF block

(* The pages of the handoff are allocated.                                 *)
LEMMA AllocateHandoffStep ==
  ASSUME LoaderInv, allocate_handoff_pages
  PROVE  LoaderInv'
<1>1. /\ pc = "AllocatePages_handoff" /\ pc' \in {"GetMemoryMap", "FreePages_kernel"}
      /\ UNCHANGED <<status, pointers, file, kernel, memory, attempt, map_key, interrupts, services, key>>
  BY DEF allocate_handoff_pages, at, goto, loadVars, kernelVars, firmwareVars
<1>2. ResourcesHeld'
  BY DEF LoaderInv, ResourcesHeld, allocate_handoff_pages, at, goto, acquire, keep, loadVars,
         Starting, Opened, Buffered, Placed, Leaving
<1>3. ServicesLeft'
  BY <1>1 DEF LoaderInv, ServicesLeft
<1>4. KernelMatchesFile'
  BY <1>1, ImageKept DEF LoaderInv, KernelMatchesFile, Starting, Opened, Buffered, Placed, Leaving
<1>5. BlockReady'
  <2>1. ASSUME pc' = "GetMemoryMap"
        PROVE  \E base \in HandoffBases : info' = block(base, 0, 0, 0, 0)'
    <3>1. PICK base \in HandoffBases : info' = allocate_handoff(base, kernel.base, kernel.pages * PAGE)
      BY <2>1 DEF allocate_handoff_pages, goto
    <3>2. info' = block(base, 0, 0, 0, 0)
      BY <3>1, BlockCleared
    <3>. QED BY <1>1, <3>2 DEF block
  <2>2. 0 \in Nat
    OBVIOUS
  <2>. QED BY <1>1, <2>1, <2>2 DEF LoaderInv, BlockReady
<1>. QED BY <1>2, <1>3, <1>4, <1>5 DEF LoaderInv

(* GetMemoryMap fills the block and gives the key, or the loader gives up. *)
LEMMA MapStep ==
  ASSUME LoaderInv, get_memory_map
  PROVE  LoaderInv'
<1>1. /\ pc = "GetMemoryMap" /\ call' = "GetMemoryMap"
      /\ UNCHANGED <<pointers, file, kernel, memory, attempt, interrupts, services, key, held, misused>>
  BY DEF get_memory_map, at, keep, kernelVars, firmwareVars
<1>2. \/ /\ pc' = "ExitBootServices" /\ map_key' = key
         /\ info' = [info EXCEPT !.memory_map_size = map_size(key), !.descriptor_size = 48,
                                 !.descriptor_version = 1]
      \/ pc' = IF attempt = 0 THEN "FreePages_handoff" ELSE "spin"
  BY DEF get_memory_map, goto, after_failed_map
<1>3. ResourcesHeld'
  BY <1>1, <1>2 DEF LoaderInv, ResourcesHeld, Starting, Opened, Buffered, Placed, Leaving
<1>4. ServicesLeft'
  BY <1>1, <1>2 DEF LoaderInv, ServicesLeft
<1>5. KernelMatchesFile'
  BY <1>1, <1>2, ImageKept DEF LoaderInv, KernelMatchesFile, Starting, Opened, Buffered, Placed, Leaving
<1>6. BlockReady'
  <2>1. ASSUME pc' = "ExitBootServices"
        PROVE  \E base \in HandoffBases : info' = block(base, map_size(key), 48, 1, 0)
    <3>1. PICK base \in HandoffBases, size \in Nat, descriptor \in Nat, version \in Nat :
            info = block(base, size, descriptor, version, 0)
      BY <1>1 DEF LoaderInv, BlockReady
    <3>2. info' = mapped(info, map_size(key))
      BY <1>2, <2>1 DEF mapped
    <3>3. mapped(info, map_size(key)) = block(base, map_size(key), 48, 1, 0)
      BY <3>1, BlockMapped
    <3>4. info' = block(base, map_size(key), 48, 1, 0)
      BY <3>2, <3>3
    <3>. QED BY <3>4
  <2>2. ASSUME pc' = "ExitBootServices" PROVE map_key' = key
    BY <1>2, <2>2
  <2>3. pc' \in {"ExitBootServices", "FreePages_handoff", "spin"}
    BY <1>2
  <2>. QED BY <1>1, <2>1, <2>2, <2>3 DEF LoaderInv, BlockReady, block, map_size
<1>. QED BY <1>3, <1>4, <1>5, <1>6 DEF LoaderInv

(* ExitBootServices: success is only possible with the key of the map in   *)
(* the block; a failure leads back to GetMemoryMap or to the end.          *)
LEMMA ExitStep ==
  ASSUME LoaderInv, exit_boot_services
  PROVE  LoaderInv'
<1>1. /\ pc = "ExitBootServices" /\ call' = "ExitBootServices"
      /\ UNCHANGED <<pointers, file, kernel, memory, map_key, key, held, misused>>
  BY DEF exit_boot_services, at, keep, kernelVars
<1>2. \/ /\ map_key = key /\ services' = "exited" /\ pc' = "kernel" /\ ~interrupts'
         /\ info' = [info EXCEPT !.flags = 1] /\ UNCHANGED attempt
      \/ /\ services' = "leaving" /\ pc' \in {"GetMemoryMap", "spin"} /\ UNCHANGED info
         /\ attempt' = attempt + 1
      \/ services' = "leaving" /\ pc' = "spin" /\ UNCHANGED attempt
  BY DEF exit_boot_services, goto, retry
<1>3. ResourcesHeld'
  BY <1>1, <1>2 DEF LoaderInv, ResourcesHeld, Starting, Opened, Buffered, Placed, Leaving
<1>4. ServicesLeft'
  BY <1>1, <1>2 DEF LoaderInv, ServicesLeft
<1>5. KernelMatchesFile'
  BY <1>1, <1>2, ImageKept DEF LoaderInv, KernelMatchesFile, Starting, Opened, Buffered, Placed, Leaving
<1>6. BlockReady'
  <2>1. PICK base \in HandoffBases : info = block(base, map_size(map_key), 48, 1, 0)
    BY <1>1 DEF LoaderInv, BlockReady
  <2>2. map_key \in Nat /\ key \in Nat
    BY <1>1 DEF LoaderInv, BlockReady
  <2>3. CASE pc' = "kernel"
    <3>1. map_key = key /\ info' = [block(base, map_size(key), 48, 1, 0) EXCEPT !.flags = 1]
      BY <1>2, <2>1, <2>3
    <3>2. info' = block(base, map_size(key), 48, 1, 1)
      BY <3>1, BlockFlagged
    <3>. QED BY <1>1, <2>2, <2>3, <3>1, <3>2 DEF BlockReady, block, map_size
  <2>4. CASE pc' = "GetMemoryMap"
    <3>1. info' = block(base, map_size(map_key), 48, 1, 0)
      BY <1>2, <2>1, <2>4
    <3>2. map_size(map_key) \in Nat /\ 48 \in Nat /\ 1 \in Nat
      BY <2>2 DEF map_size
    <3>3. info' = block(base, map_size(map_key), 48, 1, 0)'
      BY <1>1, <3>1 DEF block, map_size
    <3>4. map_size(map_key)' \in Nat
      BY <1>1, <3>2 DEF map_size
    <3>. QED BY <1>1, <2>2, <2>4, <3>2, <3>3, <3>4 DEF BlockReady
  <2>5. CASE pc' = "spin"
    BY <1>1, <2>2, <2>5 DEF BlockReady
  <2>. QED BY <1>2, <2>3, <2>4, <2>5
<1>. QED BY <1>3, <1>4, <1>5, <1>6 DEF LoaderInv

(* The ends of the loader, and the firmware's own events.                  *)
LEMMA EndSteps ==
  ASSUME LoaderInv, kernel_returns \/ spin_forever \/ returned \/ map_changes \/ UNCHANGED vars
  PROVE  LoaderInv'
<1>1. /\ UNCHANGED <<pointers, file, total, kernel, memory, info, attempt, map_key, held, misused, services, call>>
      /\ \/ pc = "kernel" /\ pc' = "spin" /\ UNCHANGED key
         \/ pc = "spin" /\ UNCHANGED <<pc, status, key>>
         \/ /\ pc \in {"GetMemoryMap", "ExitBootServices"} /\ UNCHANGED <<pc, status, interrupts>>
            /\ key' = key + 1
         \/ UNCHANGED <<pc, status, interrupts, key>>
  BY DEF kernel_returns, spin_forever, returned, map_changes, goto, vars,
         loadVars, kernelVars, exitVars, firmwareVars
<1>2. ResourcesHeld'
  BY <1>1 DEF LoaderInv, ResourcesHeld, Starting, Opened, Buffered, Placed, Leaving, image_pages
<1>3. ServicesLeft'
  BY <1>1 DEF LoaderInv, ServicesLeft
<1>4. KernelMatchesFile'
  BY <1>1, ImageKept DEF LoaderInv, KernelMatchesFile, Starting, Opened, Buffered, Placed, Leaving
<1>5. BlockReady'
  BY <1>1 DEF LoaderInv, BlockReady, block, map_size
<1>. QED BY <1>2, <1>3, <1>4, <1>5 DEF LoaderInv

-----------------------------------------------------------------------------
(* Whatever the firmware answers, every call site holds what it should,    *)
(* and the kernel and its boot information are complete when they are used *)
(* (efi_main, load_kernel, start_kernel).                                  *)
THEOREM LoaderInvariant == Spec => []LoaderInv
<1>1. LoaderInv /\ [Next]_vars => LoaderInv'
  <2>. SUFFICES ASSUME LoaderInv, [Next]_vars PROVE LoaderInv'
    OBVIOUS
  <2>1. CASE plain_call
    BY <2>1, PlainStep
  <2>2. CASE report_error
    BY <2>2, OpenSteps
  <2>3. CASE load_kernel
    BY <2>3, OpenSteps, ReadSteps, PlaceStep, CleanupSteps DEF load_kernel
  <2>4. CASE start_kernel
    BY <2>4, AllocateHandoffStep, FreeSteps, MapStep, ExitStep DEF start_kernel
  <2>5. CASE kernel_returns \/ spin_forever \/ returned \/ map_changes \/ UNCHANGED vars
    BY <2>5, EndSteps
  <2>. QED BY <2>1, <2>2, <2>3, <2>4, <2>5 DEF Next, efi_main
<1>. QED BY <1>1, LoaderInitInv, PTL DEF Spec

(* Everything opened or allocated is given back exactly once whichever     *)
(* call fails, and a loader that returns holds nothing: NothingLeaked.     *)
THEOREM LoaderLeaksNothing == Spec => []NothingLeaked
<1>1. LoaderInv => NothingLeaked
  BY DEF LoaderInv, ResourcesHeld, NothingLeaked, Buffered
<1>. QED BY <1>1, LoaderInvariant, PTL

(* After an attempt to exit boot services only the two services that are   *)
(* still allowed are called and no memory is freed: FirmwareLeftAlone.     *)
THEOREM LoaderLeavesFirmware == Spec => []FirmwareLeftAlone
<1>1. LoaderInv => FirmwareLeftAlone
  BY DEF LoaderInv, ResourcesHeld, ServicesLeft, FirmwareLeftAlone, Leaving
<1>. QED BY <1>1, LoaderInvariant, PTL

(* The placed kernel in numbers: its pages are the range of its file.      *)
LEMMA PlacedKernel ==
  ASSUME ImagePlaced
  PROVE  /\ kernel.base \in Nat /\ kernel.pages * PAGE \in Nat /\ kernel.pages * PAGE > 0
         /\ DOMAIN memory = kernel.base .. kernel.base + kernel.pages * PAGE - 1
         /\ IMAGE_LOW <= kernel.base /\ kernel.base + kernel.pages * PAGE <= IMAGE_TOP
         /\ memory[kernel.entry] \notin {0, Garbage}
         /\ file # NULL => ImageOf(file, memory)
<1>1. PICK h \in ELF_HEADER :
        /\ verdict(h) = "EFI_SUCCESS" /\ memory = copy_segments(h, h.size)
        /\ kernel = [base |-> low(h), pages |-> (high(h) - low(h)) \div PAGE, entry |-> h.entry]
        /\ file # NULL => file = h
  BY DEF ImagePlaced
<1>2. kernel.base = low(h) /\ kernel.pages = (high(h) - low(h)) \div PAGE /\ kernel.entry = h.entry
  BY <1>1
<1>3. /\ low(h) \in Nat /\ high(h) \in Nat
      /\ IMAGE_LOW <= low(h) /\ low(h) < high(h) /\ high(h) <= IMAGE_TOP
      /\ ((high(h) - low(h)) \div PAGE) * PAGE = high(h) - low(h)
  BY <1>1, RangeExact
<1>4. /\ DOMAIN memory = low(h) .. high(h) - 1 /\ ImageOf(h, memory) /\ memory[h.entry] \notin {0, Garbage}
  BY <1>1, ImageExact
<1>5. kernel.pages * PAGE = high(h) - low(h)
  BY <1>2, <1>3
<1>6. kernel.base + kernel.pages * PAGE = high(h)
  BY <1>2, <1>3, <1>5
<1>7. file # NULL => ImageOf(file, memory)
  BY <1>1, <1>4
<1>. QED BY <1>2, <1>3, <1>4, <1>5, <1>6, <1>7

(* Only a file that was read to its end is checked; it is placed exactly   *)
(* when it is well formed, and the pages contain its segments, hold their  *)
(* bytes and zeros, lie inside the allowed memory and are all that was     *)
(* written: LoadedImageExact.                                              *)
THEOREM LoaderPlacesExactly == Spec => []LoadedImageExact
<1>1. LoaderInv => LoadedImageExact
  <2>. SUFFICES ASSUME LoaderInv PROVE LoadedImageExact
    OBVIOUS
  <2>1. ASSUME pc = "place_kernel"
        PROVE  total = file.size /\ (verdict(file) = "EFI_SUCCESS" <=> WellFormed(file))
    <3>1. file \in ELF_HEADER /\ ~(file.size < HEADER_SIZE) /\ total = file.size
      BY <2>1 DEF LoaderInv, KernelMatchesFile, Buffered
    <3>. QED BY <3>1, VerdictExact
  <2>2. ASSUME kernel # NULL
        PROVE  /\ DOMAIN memory = kernel.base .. kernel.base + kernel.pages * PAGE - 1
               /\ DOMAIN memory \subseteq IMAGE_LOW .. IMAGE_TOP - 1
               /\ memory[kernel.entry] \notin {0, Garbage}
               /\ file # NULL => ImageOf(file, memory)
    <3>1. ImagePlaced
      BY <2>2 DEF LoaderInv, KernelMatchesFile
    <3>2. /\ kernel.base \in Nat /\ kernel.pages * PAGE \in Nat
          /\ DOMAIN memory = kernel.base .. kernel.base + kernel.pages * PAGE - 1
          /\ IMAGE_LOW <= kernel.base /\ kernel.base + kernel.pages * PAGE <= IMAGE_TOP
          /\ memory[kernel.entry] \notin {0, Garbage}
          /\ file # NULL => ImageOf(file, memory)
      BY <3>1, PlacedKernel
    <3>3. IMAGE_LOW \in Nat /\ IMAGE_TOP \in Nat
      BY ElfAssumption
    <3>4. DOMAIN memory \subseteq IMAGE_LOW .. IMAGE_TOP - 1
      BY <3>2, <3>3
    <3>. QED BY <3>2, <3>4
  <2>. QED BY <2>1, <2>2 DEF LoadedImageExact
<1>. QED BY <1>1, LoaderInvariant, PTL

-----------------------------------------------------------------------------
(* The block for every place AllocatePages may choose: the kernel accepts  *)
(* it, and the guard pages on both sides of the stack are nobody's.        *)
LEMMA BlockAccepted ==
  ASSUME NEW base \in HandoffBases, NEW version \in Nat, info = block(base, map_size(version), 48, 1, 1)
  PROVE  /\ valid_boot_header(info) /\ valid_memory_map(info)
         /\ valid_stack(info, info.stack_base + info.stack_size)
         /\ GuardsAreFree(info)
<1>1. /\ base \in Nat \ {0} /\ base % 4096 = 0 /\ base + 35 * 4096 - 1 <= ADDRESS_MAX
      /\ ADDRESS_MAX \in Nat
  BY LoaderAssumption, HandoffAssumption DEF handoff_pages
<1>2. /\ info.self = base /\ info.memory_map = base + 4096 /\ info.memory_map_size = 48 * (version + 4)
      /\ info.descriptor_size = 48 /\ info.descriptor_version = 1
      /\ info.stack_base = base + 18 * 4096 /\ info.stack_size = 16 * 4096
  BY <1>1 DEF block, map_size, stack_base_of, map_capacity
<1>3. valid_boot_header(info)
  BY DEF valid_boot_header, block
<1>4. valid_memory_map(info)
  <2>1. (48 * (version + 4)) % 48 = 0
    BY RemainderUnique
  <2>. QED BY <1>1, <1>2, <2>1 DEF valid_memory_map, sizeof_BOOT_MEMORY_DESCRIPTOR
<1>5. valid_stack(info, info.stack_base + info.stack_size)
  <2>. DEFINE top == info.stack_base + info.stack_size
  <2>1. top = base + 34 * 4096 /\ top \in Nat
    BY <1>1, <1>2
  <2>2. base = (base \div 4096) * 4096 /\ base \div 4096 \in Nat
    BY <1>1, Remainder, DivMod
  <2>3. top = ((base \div 4096 + 34) * 256) * 16 + 0 /\ (base \div 4096 + 34) * 256 \in Int
    BY <2>1, <2>2
  <2>. HIDE DEF top
  <2>4. top % 16 = 0
    BY <2>3
  <2>5. kernel_initial_rsp(top) = top
    BY <2>1, <2>4 DEF kernel_initial_rsp
  <2>. QED BY <1>1, <1>2, <2>1, <2>4, <2>5 DEF valid_stack, top
<1>6. GuardsAreFree(info)
  <2>. DEFINE page(address) == (address - info.self) \div 4096
  <2>1. page(info.stack_base) = 18 /\ page(info.stack_base + info.stack_size) = 34
    BY <1>1, <1>2
  <2>. QED BY <2>1 DEF GuardsAreFree, map_capacity, handoff_pages
<1>. QED BY <1>3, <1>4, <1>5, <1>6

(* The kernel is entered with boot services gone, interrupts disabled, the *)
(* final map and a block it accepts: HandoffComplete (start_kernel,        *)
(* kernel_main).                                                           *)
THEOREM LoaderHandsOver == Spec => []HandoffComplete
<1>1. LoaderInv => HandoffComplete
  <2>. SUFFICES ASSUME LoaderInv, pc = "kernel" PROVE HandoffComplete
    BY DEF HandoffComplete
  <2>1. services = "exited" /\ ~interrupts /\ held = {"kernel", "handoff"}
    BY DEF LoaderInv, ServicesLeft, ResourcesHeld, Leaving
  <2>2. PICK base \in HandoffBases : info = block(base, map_size(key), 48, 1, 1)
    BY DEF LoaderInv, BlockReady
  <2>3. map_key = key /\ key \in Nat
    BY DEF LoaderInv, BlockReady
  <2>4. /\ info.memory_map_size = map_size(key) /\ info.kernel_base = kernel.base
        /\ info.kernel_size = kernel.pages * PAGE
    BY <2>2 DEF block
  <2>5. Cardinality(DOMAIN memory) = kernel.pages * PAGE
    <3>1. ImagePlaced
      BY DEF LoaderInv, KernelMatchesFile, Leaving
    <3>2. /\ kernel.base \in Nat /\ kernel.pages * PAGE \in Nat /\ kernel.pages * PAGE > 0
          /\ DOMAIN memory = kernel.base .. kernel.base + kernel.pages * PAGE - 1
      BY <3>1, PlacedKernel
    <3>. DEFINE n == kernel.pages * PAGE
                b == kernel.base
    <3>3. n \in Nat /\ n > 0 /\ b \in Nat /\ DOMAIN memory = b .. b + n - 1
      BY <3>2
    <3>. HIDE DEF n, b
    <3>4. Cardinality(b .. (b + n - 1)) = IF b > (b + n - 1) THEN 0 ELSE (b + n - 1) - b + 1
      BY <3>3, FS_Interval
    <3>5. Cardinality(DOMAIN memory) = n
      BY <3>3, <3>4
    <3>. QED BY <3>5 DEF n
  <2>6. /\ valid_boot_header(info) /\ valid_memory_map(info)
        /\ valid_stack(info, info.stack_base + info.stack_size)
        /\ GuardsAreFree(info)
    BY <2>2, <2>3, BlockAccepted
  <2>. QED BY <2>1, <2>3, <2>4, <2>5, <2>6 DEF HandoffComplete
<1>. QED BY <1>1, LoaderInvariant, PTL
=============================================================================
