------------------------------ MODULE MCLoader ------------------------------
(* kernel.elf at the edges of what is allowed: two-byte pages, memory for  *)
(* images from 4 to 16, spans up to 6, files up to 6 bytes, 5-bit sums.    *)
EXTENDS Loader

Segment(type, exec, offset, vaddr, filesz, memsz, align) ==
  [type |-> type, exec |-> exec, offset |-> offset, vaddr |-> vaddr, paddr |-> vaddr,
   filesz |-> filesz, memsz |-> memsz, align |-> align]

File(ph, entry, size) ==
  [ident_ok |-> TRUE, phoff |-> 0, phnum |-> Len(ph), ph |-> ph, entry |-> entry, size |-> size]

(* One segment anywhere in the file and in memory.                         *)
OneSegment ==
  {File(<<Segment(LOAD, TRUE, s[1], s[2], s[3], s[4], s[5])>>, s[2], 4) :
     s \in {0, 1, 3, 4, 5} \X {3, 4, 5, 14, 15, 16} \X (0 .. 3) \X {0, 1, 2, 3, 7, 12, 31} \X {0, 2, 3}}

Entries ==
  {File(<<[Segment(LOAD, exec, 1, 5, 2, 3, 1) EXCEPT !.paddr = p]>>, entry, 4) :
     exec \in BOOLEAN, p \in {5, 6}, entry \in 4 .. 8}

(* Two segments in either order, apart, touching, overlapping or empty.    *)
TwoSegments ==
  {File(<<Segment(s[1], TRUE, 0, s[2], 1, s[3], 1), Segment(s[4], FALSE, 1, s[5], 1, s[6], 1)>>, s[2], 3) :
     s \in {LOAD, 4} \X {6, 9} \X {1, 2, 4} \X {LOAD, 2, 4} \X {4, 5, 7, 8, 10, 12} \X {0, 1, 3}}

Headers ==
  {[File([i \in 1 .. n |-> Segment(IF i = 1 THEN LOAD ELSE 0, TRUE, 0, 4, 1, 1, 1)], 4, size)
      EXCEPT !.ident_ok = ok, !.phoff = off] :
     n \in 0 .. 4, off \in 0 .. 4, size \in {1, 2, 4, 6, 7}, ok \in BOOLEAN}

MCFiles == <<OneSegment, Entries, TwoSegments, Headers>>
=============================================================================
