------------------------------ MODULE ElfImage ------------------------------
(***************************************************************************)
(* The checks the loader makes of kernel.elf and where it puts the         *)
(* segments, boot/load.c.  A file is its header, its program headers and   *)
(* its size; byte k of it is the number k + 1, so that 0 is cleared        *)
(* memory.  Sums are cut to the width of a register (UINT64_MAX).          *)
(***************************************************************************)
EXTENDS Integers, Sequences, FiniteSets, FiniteSetsExt

CONSTANTS
  PAGE, IMAGE_LOW, IMAGE_TOP,  \* page size; images lie from 1 MiB to 4 GiB
  MAX_SPAN,                    \* 64 MiB
  HEADER_SIZE, PROGRAM_SIZE, PH_ALIGN, MAX_PROGRAMS,
  ELF_MAX                      \* largest value of a 64-bit register

ASSUME ElfAssumption ==
  /\ {PAGE, MAX_SPAN, HEADER_SIZE, PROGRAM_SIZE, PH_ALIGN, MAX_PROGRAMS} \subseteq Nat \ {0}
  /\ {IMAGE_LOW, IMAGE_TOP, ELF_MAX} \subseteq Nat \ {0}
  /\ IMAGE_LOW < IMAGE_TOP /\ IMAGE_TOP + PAGE <= ELF_MAX
  /\ IMAGE_LOW % PAGE = 0 /\ IMAGE_TOP % PAGE = 0

LOAD == 1
Dynamic == {2, 3}  \* PT_DYNAMIC and PT_INTERP

Word == 0 .. ELF_MAX

ELF_PROGRAM ==
  [type : Nat, exec : BOOLEAN, offset : Word, vaddr : Word, paddr : Word, filesz : Word,
   memsz : Word, align : Word]

(* A file with its header and program headers.                             *)
ELF_HEADER ==
  {h \in [ident_ok : BOOLEAN, phoff : Word, phnum : Nat, ph : Seq(ELF_PROGRAM), entry : Word, size : Word] :
     h.phnum = Len(h.ph)}

trunc(n) == n % (ELF_MAX + 1)

(* ident_ok: magic, class, type, machine, version and structure sizes.     *)
valid_elf_header(h) ==
  /\ h.ident_ok
  /\ h.phnum # 0 /\ h.phnum <= MAX_PROGRAMS
  /\ h.phoff % PH_ALIGN = 0 /\ h.phoff <= h.size
  /\ h.phnum <= (h.size - h.phoff) \div PROGRAM_SIZE

power_of_two(n) == \E k \in 0 .. n : n = 2^k

valid_segment(p, size) ==
  /\ p.filesz <= p.memsz /\ p.offset <= size
  /\ p.filesz <= size - p.offset
  /\ p.paddr = p.vaddr
  /\ p.vaddr >= IMAGE_LOW /\ p.vaddr < IMAGE_TOP
  /\ p.memsz <= IMAGE_TOP - p.vaddr
  /\ p.align <= 1 \/ (power_of_two(p.align) /\ p.vaddr % p.align = p.offset % p.align)

(* Faulty variant: segments that touch count as overlapping only when      *)
(* the later one starts inside the earlier.                                *)
overlaps_previous_one_sided(ph, index) ==
  \E i \in 1 .. index - 1 :
    /\ ph[i].type = LOAD /\ ph[i].memsz # 0
    /\ ph[index].vaddr >= ph[i].vaddr /\ ph[index].vaddr < trunc(ph[i].vaddr + ph[i].memsz)

overlaps_previous_segment(ph, index) ==
  \E i \in 1 .. index - 1 :
    /\ ph[i].type = LOAD /\ ph[i].memsz # 0
    /\ ph[index].vaddr < trunc(ph[i].vaddr + ph[i].memsz)
    /\ ph[i].vaddr < trunc(ph[index].vaddr + ph[index].memsz)

loaded(h) == {i \in DOMAIN h.ph : h.ph[i].type = LOAD /\ h.ph[i].memsz # 0}

(* The loop of inspect_segments goes on to the next program header.        *)
passes(h, i) ==
  LET p == h.ph[i] IN
  /\ p.type \notin Dynamic
  /\ p.type = LOAD =>
       /\ valid_segment(p, h.size)
       /\ p.memsz # 0 => ~overlaps_previous_segment(h.ph, i)

entry_valid(h) ==
  \E i \in loaded(h) :
    LET p == h.ph[i] IN p.exec /\ h.entry >= p.vaddr /\ h.entry - p.vaddr < p.filesz

page_down(n) == (n \div PAGE) * PAGE

low(h)  == Min({ELF_MAX} \cup {page_down(h.ph[i].vaddr) : i \in loaded(h)})
high(h) == Max({0} \cup {page_down(trunc(h.ph[i].vaddr + h.ph[i].memsz + PAGE - 1)) : i \in loaded(h)})

inspect_segments(h) ==
  LET bad == {i \in DOMAIN h.ph : ~passes(h, i)}
  IN  CASE bad # {} ->
             IF h.ph[Min(bad)].type \in Dynamic THEN "EFI_UNSUPPORTED" ELSE "EFI_LOAD_ERROR"
        [] bad = {} ->
             IF ~entry_valid(h) \/ high(h) <= low(h) \/ high(h) - low(h) > MAX_SPAN
             THEN "EFI_LOAD_ERROR" ELSE "EFI_SUCCESS"

(* What place_kernel finds before it allocates memory.                     *)
verdict(h) ==
  IF h.size < HEADER_SIZE \/ ~valid_elf_header(h) THEN "EFI_LOAD_ERROR" ELSE inspect_segments(h)

(* Byte k of the file buffer after filled bytes were read into it: the     *)
(* rest is pool memory that nobody has written.                            *)
Garbage == -1
buffered(k, filled) == IF k < filled THEN k + 1 ELSE Garbage

(* Where the inner loop of copy_segments stores, whatever the range is.    *)
destination(p) == p.vaddr .. p.vaddr + p.filesz - 1

segments(h) == {i \in DOMAIN h.ph : h.ph[i].type = LOAD}

(* The memory written: the range is cleared, then the segments are copied  *)
(* in order from the buffer.                                               *)
copy_segments(h, filled) ==
  LET writers(a) == {i \in segments(h) : a \in destination(h.ph[i])}
      source(a) == LET p == h.ph[Max(writers(a))] IN p.offset + (a - p.vaddr)
  IN  [a \in (low(h) .. high(h) - 1) \cup UNION {destination(h.ph[i]) : i \in segments(h)} |->
         IF writers(a) = {} THEN 0 ELSE buffered(source(a), filled)]

-----------------------------------------------------------------------------
(* The reference: a file the loader's documentation says can be loaded,    *)
(* in terms of the addresses its segments cover.                           *)
MemoryBytes(p) == p.vaddr .. p.vaddr + p.memsz - 1
FileBytes(p)   == p.vaddr .. p.vaddr + p.filesz - 1

WellFormed(h) ==
  LET Segments == {i \in DOMAIN h.ph : h.ph[i].type = LOAD}
      Covered  == {a \div PAGE : a \in UNION {MemoryBytes(h.ph[i]) : i \in Segments}}
  IN  /\ h.ident_ok /\ h.phnum \in 1 .. MAX_PROGRAMS
      /\ h.phoff % PH_ALIGN = 0 /\ h.phoff + h.phnum * PROGRAM_SIZE <= h.size
      /\ \A i \in DOMAIN h.ph : h.ph[i].type \notin Dynamic
      /\ \A i \in Segments :
           LET p == h.ph[i] IN
           /\ p.vaddr \in IMAGE_LOW .. IMAGE_TOP - 1 /\ p.paddr = p.vaddr
           /\ MemoryBytes(p) \subseteq IMAGE_LOW .. IMAGE_TOP - 1
           /\ FileBytes(p) \subseteq MemoryBytes(p)
           /\ p.offset + p.filesz <= h.size
           /\ p.align > 1 => \E k \in 1 .. p.align : p.align = 2^k /\ (p.vaddr - p.offset) % p.align = 0
           /\ \A j \in Segments \ {i} : MemoryBytes(p) \cap MemoryBytes(h.ph[j]) = {}
      /\ \E i \in Segments : h.ph[i].exec /\ h.entry \in FileBytes(h.ph[i])
      /\ (Max(Covered) - Min(Covered) + 1) * PAGE <= MAX_SPAN

(* The memory written holds every segment, and every byte of it is the     *)
(* byte of the one segment that covers it, or zero.                        *)
ImageOf(h, memory) ==
  /\ \A i \in loaded(h) : MemoryBytes(h.ph[i]) \subseteq DOMAIN memory
  /\ \A a \in DOMAIN memory :
       memory[a] =
         IF \E i \in loaded(h) : a \in FileBytes(h.ph[i])
         THEN LET p == h.ph[CHOOSE i \in loaded(h) : a \in FileBytes(h.ph[i])]
              IN  p.offset + a - p.vaddr + 1
         ELSE 0
=============================================================================
