---------------------------- MODULE MCPagingInit ----------------------------
(* paging_init over many memory maps: every amount of conventional memory  *)
(* before and after the loader's regions in the map, memory that is not   *)
(* write-back, runtime memory, a region that ends past PMM_LIMIT, and maps *)
(* that leave out the kernel, the boot block, the stack or its guards; the *)
(* self test of the dynamic window on every one it succeeds on.            *)
EXTENDS PagingCheck

Region(kind, first, pages) ==
  [type |-> kind, physical_start |-> first * PMM_PAGE_SIZE, number_of_pages |-> pages,
   runtime |-> FALSE, write_back |-> TRUE]

(* Pages 1-6: kernel image; 7: boot block and map; 8-10: guard, stack,     *)
(* guard.                                                                  *)
Machine(map) ==
  [header_ok |-> TRUE, self |-> 14, map |-> map, memory_map |-> 15, memory_map_size |-> 1,
   kernel_base |-> 2, kernel_size |-> 12, stack_base |-> 18, stack_size |-> 2]

Kernel == Region(LoaderCode, 1, 6)
Loader == Region(LoaderData, 7, 4)
High(pages) == Region(Conventional, 11, pages)

(* From 17 pages on the self test has enough memory, with 22 too few       *)
(* tables; with 37 the identity map itself takes more than there are.      *)
Amounts == 1 .. 22 \cup {37}
Complete == {<<High(n), Kernel, Loader>> : n \in Amounts} \cup {<<Kernel, Loader, High(n)>> : n \in Amounts}

(* A hole above page 11 and a region that ends past the last page.         *)
Clamped == {<<Region(Conventional, 36, 12 + n), Kernel, High(1), Loader>> : n \in 0 .. 3}

NotOrdinary ==
  {<<[High(9) EXCEPT !.runtime = r, !.write_back = w], [Kernel EXCEPT !.write_back = v],
     Loader, Region(type, 20, 2)>> :
     r \in BOOLEAN, w \in BOOLEAN, v \in BOOLEAN, type \in {Conventional, LoaderData, 0}}

Incomplete ==
  {<<High(9), Region(LoaderCode, k, 7 - k), Region(LoaderData, 7, n)>> : k \in 1 .. 3, n \in 1 .. 4}
    \cup {<<High(9), Kernel, Region(LoaderData, 8, 3)>>, <<Kernel, Loader>>}

MCV == <<1, 0, 0, 0>>
MCOther == <<1, 0, 1, 0>>
MCBeyond == <<0, 0, 1, 0>>
MCWindows == {MCV, MCOther}
MCOutside == {MCBeyond}

MCBootInfos == {Machine(map) : map \in Complete \cup Clamped \cup NotOrdinary \cup Incomplete}
=============================================================================
