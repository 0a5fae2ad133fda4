----------------------------- MODULE MCPMMCheck -----------------------------
(* The self test on a seven-page machine, from every allocator state.      *)
EXTENDS PMMCheck

(* Page 1 holds the boot block, map and stack; the kernel image is page 3. *)
MCBootInfos ==
  {[header_ok |-> TRUE, self |-> 2,
    map |-> <<[type |-> Conventional, physical_start |-> 2, number_of_pages |-> n,
               runtime |-> FALSE, write_back |-> TRUE]>>,
    memory_map |-> 2, memory_map_size |-> 1, kernel_base |-> 6, kernel_size |-> 2,
    stack_base |-> 3, stack_size |-> 1] : n \in {4, 6}}
=============================================================================
