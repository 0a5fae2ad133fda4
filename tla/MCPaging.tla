------------------------------ MODULE MCPaging ------------------------------
(* The dynamic window on machines with 7 and 9 pages of conventional       *)
(* memory.  The identity map takes four for tables; the four tables of the *)
(* three addresses and two pages of the callers never all fit, so that     *)
(* paging_map fails with none, one and two new tables to give back.  With  *)
(* two pages the identity map fails.                                       *)
EXTENDS Paging

Region(kind, first, pages) ==
  [type |-> kind, physical_start |-> first * PMM_PAGE_SIZE, number_of_pages |-> pages,
   runtime |-> FALSE, write_back |-> TRUE]

(* Pages 1-6: kernel image; 7: boot block and map; 8-10: guard, stack,     *)
(* guard; from 11 conventional memory.                                     *)
Machine(conventional) ==
  [header_ok |-> TRUE, self |-> 14,
   map |-> <<Region(Conventional, 11, conventional), Region(LoaderCode, 1, 6),
             Region(LoaderData, 7, 4)>>,
   memory_map |-> 15, memory_map_size |-> 1, kernel_base |-> 2, kernel_size |-> 12,
   stack_base |-> 18, stack_size |-> 2]

MCBootInfos == {Machine(2), Machine(7), Machine(9)}

MCWindows == {<<1, 0, 0, 0>>, <<1, 0, 0, 1>>, <<1, 0, 1, 0>>}
MCOutside == {<<0, 0, 0, 11>>}
MCFlagSets == {{}, {"W"}, {"bad"}}
=============================================================================
