-------------------------------- MODULE MCPMM --------------------------------
(* Allocation and release on a nine-page machine.                          *)
EXTENDS PMM

Region(kind, start, pages) ==
  [type |-> kind, physical_start |-> start, number_of_pages |-> pages,
   runtime |-> FALSE, write_back |-> TRUE]

(* Two-byte pages.  The boot block, map and stack share page 1; the kernel *)
(* image covers page 4, so that the managed pages are not contiguous.      *)
Info(ok, map) ==
  [header_ok |-> ok, self |-> 2, map |-> map, memory_map |-> 2,
   memory_map_size |-> 1, kernel_base |-> 8, kernel_size |-> 2,
   stack_base |-> 3, stack_size |-> 1]

MCBootInfos ==
  {Info(TRUE,  <<Region(Conventional, 0, 11)>>),
   Info(TRUE,  <<Region(Conventional, 8, 2), Region(LoaderData, 2, 1), Region(Conventional, 4, 1)>>),
   Info(TRUE,  <<Region(LoaderCode, 8, 1)>>),
   Info(TRUE,  <<Region(Conventional, 4, 2), Region(LoaderData, 6, 1)>>),
   Info(FALSE, <<Region(Conventional, 0, 7)>>)}
=============================================================================
