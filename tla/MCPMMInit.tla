------------------------------ MODULE MCPMMInit ------------------------------
(* pmm_init on every memory map of one descriptor and many of two, with    *)
(* addresses up to the last one a 64-bit register can hold.  Two-byte      *)
(* pages, four of them below the limit, 4-bit registers.                   *)
EXTENDS PMM

Descriptors(starts, counts, kinds, runtime) ==
  [type : kinds, physical_start : starts, number_of_pages : counts,
   runtime : runtime, write_back : {TRUE}]

Infos(maps, kernels, selves) ==
  {[header_ok |-> TRUE, self |-> self, map |-> map, memory_map |-> 13,
    memory_map_size |-> 1, kernel_base |-> k[1], kernel_size |-> k[2],
    stack_base |-> 14, stack_size |-> 1] : map \in maps, k \in kernels, self \in selves}

(* One descriptor anywhere, the kernel image anywhere.                     *)
OneRegion ==
  Infos({<<d>> : d \in Descriptors(U64, 0 .. 8, {Conventional}, {FALSE})},
        U64 \X {0, 1, 3, 8, 15}, {13})

(* Two descriptors, possibly overlapping; the boot block anywhere.         *)
TwoRegions ==
  LET ds == Descriptors({0, 2, 4, 6, 8, 14}, {1, 2, 7}, {LoaderData, Conventional}, BOOLEAN)
  IN  Infos({<<d, e>> : d \in ds, e \in ds}, {<<2, 1>>}, {4, 7, 15})

MCBootInfos == OneRegion \cup TwoRegions

(* Calls of pmm_init until a map is accepted; MCPMM repeats the call after. *)
UntilAccepted == ~ready /\ \E info \in BootInfos : pmm_init(info)

InitOnlySpec == PmmInit /\ [][UntilAccepted]_pmmVars
=============================================================================
