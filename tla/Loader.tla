------------------------------- MODULE Loader -------------------------------
(***************************************************************************)
(* The UEFI loader, boot/main.c and boot/load.c: it reads kernel.elf,      *)
(* places it, leaves boot services and enters the kernel.                  *)
(*                                                                         *)
(* Every firmware call is a step and may fail.  The firmware runs events   *)
(* of its own between the calls, and they may change the memory map.       *)
(***************************************************************************)
EXTENDS ElfImage, Handoff

CONSTANTS
  Files,          \* what kernel.elf may be: a sequence of sets of files
  MAX_FILE,       \* 16 MiB
  MAX_ATTEMPTS,   \* 8
  HandoffBases,   \* where AllocatePages may put the boot information
  MaxMapChanges,  \* bound: changes of the memory map after it was first read
  NULL

ASSUME LoaderAssumption ==
  /\ MAX_FILE \in Nat /\ MAX_ATTEMPTS \in Nat \ {0} /\ MaxMapChanges \in Nat
  /\ \A k \in DOMAIN Files : \A f \in Files[k] : f \in ELF_HEADER
  /\ \A base \in HandoffBases :
       base \in Nat \ {0} /\ base % 4096 = 0 /\ base + handoff_pages * 4096 - 1 <= ADDRESS_MAX

VARIABLES
  pc,                \* the next call, or where the loader has ended
  status,            \* of load_kernel, or of the attempt to exit
  pointers,          \* load_kernel's local pointers that are not NULL
  file, total,       \* the file opened; bytes of it read so far
  kernel,            \* LOADED_KERNEL, once placed
  memory,            \* the memory place_kernel has written, by address
  info,              \* the boot information block
  attempt, map_key,
  interrupts,        \* the IF flag
  held, misused,     \* firmware: what the loader holds; a wrong release
  services,          \* firmware: "running", "leaving" after an attempt, "exited"
  key,               \* firmware: version of the memory map
  call               \* history: the last firmware service called

loadVars == <<status, pointers, file, total>>
kernelVars == <<kernel, memory>>
exitVars == <<info, attempt, map_key>>
firmwareVars == <<services, key>>
vars == <<pc, loadVars, kernelVars, exitVars, interrupts, held, misused, firmwareVars, call>>

Init ==
  /\ pc = "SetWatchdogTimer" /\ status = "EFI_SUCCESS" /\ pointers = {}
  /\ file = NULL /\ total = 0 /\ kernel = NULL /\ memory = <<>>
  /\ info = NULL /\ attempt = 0 /\ map_key = 0
  /\ interrupts = TRUE /\ held = {} /\ misused = FALSE
  /\ services = "running" /\ key = 0 /\ call = "none"

(* The effect of a step on the firmware's resources.                       *)
acquire(r) == held' = held \cup {r} /\ UNCHANGED misused
release(r) == held' = held \ {r} /\ misused' = (misused \/ r \notin held)
keep == UNCHANGED <<held, misused>>

at(label) == pc = label /\ call' = label
goto(label) == pc' = label

-----------------------------------------------------------------------------
(* Calls without a resource: where the loader goes on success and failure. *)
(* A serial interface that is NULL or a short write counts as a failure.   *)
plain_calls ==
  [SetWatchdogTimer |-> <<"LocateProtocol", "report_error">>,
   LocateProtocol   |-> <<"SetAttributes", "report_error">>,
   SetAttributes    |-> <<"Write_banner", "report_error">>,
   Write_banner     |-> <<"HandleProtocol_image", "report_error">>,
   HandleProtocol_image  |-> <<"HandleProtocol_volume", "report_error">>,
   HandleProtocol_volume |-> <<"OpenVolume", "report_error">>,
   SetPosition_end  |-> <<"GetPosition", "cleanup">>,
   SetPosition_0    |-> <<"AllocatePool", "cleanup">>,
   Write_entry      |-> <<"AllocatePages_handoff", "FreePages_kernel">>]

(* The status of the calls inside load_kernel decides at its end.          *)
load_status(next) == status' = IF next = "cleanup" THEN "EFI_ERROR" ELSE status

plain_call ==
  \E label \in DOMAIN plain_calls, outcome \in {1, 2} :
    /\ at(label)
    /\ goto(plain_calls[label][outcome])
    /\ load_status(plain_calls[label][outcome])
    /\ keep
    /\ UNCHANGED <<pointers, file, total, kernelVars, exitVars, interrupts, firmwareVars>>

(* report_error writes to the firmware's console; then efi_main returns.   *)
report_error ==
  /\ at("report_error")
  /\ goto("returned")
  /\ keep
  /\ UNCHANGED <<loadVars, kernelVars, exitVars, interrupts, firmwareVars>>

-----------------------------------------------------------------------------
(* load_kernel.                                                            *)

open_volume ==
  /\ at("OpenVolume")
  /\ \/ acquire("root") /\ goto("Open")
     \/ keep /\ goto("report_error")
  /\ UNCHANGED <<loadVars, kernelVars, exitVars, interrupts, firmwareVars>>

open_file ==
  /\ at("Open")
  /\ \/ /\ acquire("file") /\ pointers' = pointers \cup {"file"}
        /\ \E k \in DOMAIN Files : \E f \in Files[k] : file' = f
        /\ goto("SetPosition_end") /\ UNCHANGED status
     \/ /\ keep /\ UNCHANGED <<pointers, file>>
        /\ goto("cleanup") /\ load_status("cleanup")
  /\ UNCHANGED <<total, kernelVars, exitVars, interrupts, firmwareVars>>

get_position ==
  /\ at("GetPosition")
  /\ \E next \in (IF file.size < HEADER_SIZE \/ file.size > MAX_FILE THEN {} ELSE {"SetPosition_0"})
                   \cup {"cleanup"} :
       goto(next) /\ load_status(next)
  /\ keep
  /\ UNCHANGED <<pointers, file, total, kernelVars, exitVars, interrupts, firmwareVars>>

allocate_pool ==
  /\ at("AllocatePool")
  /\ \/ acquire("buffer") /\ pointers' = pointers \cup {"buffer"} /\ goto("Read") /\ UNCHANGED status
     \/ keep /\ UNCHANGED pointers /\ goto("cleanup") /\ load_status("cleanup")
  /\ UNCHANGED <<file, total, kernelVars, exitVars, interrupts, firmwareVars>>

(* read_entire_file: Read returns any number of bytes, or fails.           *)
read_file ==
  /\ at("Read")
  /\ \/ \E count \in 0 .. file.size - total + 1 :
          IF count = 0 \/ count > file.size - total
          THEN goto("cleanup") /\ load_status("cleanup") /\ UNCHANGED total
          ELSE /\ total' = total + count
               /\ goto(IF total' = file.size THEN "place_kernel" ELSE "Read")
               /\ UNCHANGED status
     \/ goto("cleanup") /\ load_status("cleanup") /\ UNCHANGED total
  /\ keep
  /\ UNCHANGED <<pointers, file, kernelVars, exitVars, interrupts, firmwareVars>>

(* The checks, the allocation at the image's address and the copy.         *)
place_kernel ==
  /\ pc = "place_kernel" /\ goto("cleanup")
  /\ \/ /\ verdict(file) = "EFI_SUCCESS"
        /\ call' = "AllocatePages" /\ acquire("kernel")
        /\ memory' = copy_segments(file, total)
        /\ kernel' = [base |-> low(file), pages |-> (high(file) - low(file)) \div PAGE, entry |-> file.entry]
        /\ UNCHANGED status
     \/ /\ verdict(file) = "EFI_SUCCESS"
        /\ call' = "AllocatePages" /\ keep
        /\ status' = "EFI_ERROR"
        /\ UNCHANGED kernelVars
     \/ /\ verdict(file) # "EFI_SUCCESS"
        /\ status' = verdict(file)
        /\ keep
        /\ UNCHANGED <<kernelVars, call>>
  /\ UNCHANGED <<pointers, file, total, exitVars, interrupts, firmwareVars>>

(* Faulty variant: the buffer is freed whether or not it was allocated.    *)
cleanup_buffer_always ==
  /\ pc = "cleanup"
  /\ call' = "FreePool" /\ release("buffer")
  /\ goto("Close_file")
  /\ UNCHANGED <<loadVars, kernelVars, exitVars, interrupts, firmwareVars>>

cleanup_buffer ==
  /\ pc = "cleanup"
  /\ IF "buffer" \in pointers THEN call' = "FreePool" /\ release("buffer") ELSE keep /\ UNCHANGED call
  /\ goto("Close_file")
  /\ UNCHANGED <<loadVars, kernelVars, exitVars, interrupts, firmwareVars>>

cleanup_file ==
  /\ pc = "Close_file"
  /\ IF "file" \in pointers THEN call' = "Close_file" /\ release("file") ELSE keep /\ UNCHANGED call
  /\ goto("Close_root")
  /\ UNCHANGED <<loadVars, kernelVars, exitVars, interrupts, firmwareVars>>

(* load_kernel returns and its local variables are gone.                   *)
cleanup_root ==
  /\ at("Close_root")
  /\ release("root")
  /\ goto(IF status = "EFI_SUCCESS" THEN "Write_entry" ELSE "report_error")
  /\ pointers' = {} /\ file' = NULL /\ total' = 0
  /\ UNCHANGED <<status, kernelVars, exitVars, interrupts, firmwareVars>>

-----------------------------------------------------------------------------
(* start_kernel.                                                           *)

free_kernel ==
  /\ at("FreePages_kernel")
  /\ release("kernel")
  /\ goto("report_error")
  /\ kernel' = NULL /\ memory' = <<>>
  /\ UNCHANGED <<loadVars, exitVars, interrupts, firmwareVars>>

free_handoff ==
  /\ at("FreePages_handoff")
  /\ release("handoff")
  /\ goto("FreePages_kernel")
  /\ info' = NULL
  /\ UNCHANGED <<loadVars, kernelVars, attempt, map_key, interrupts, firmwareVars>>

allocate_handoff_pages ==
  /\ at("AllocatePages_handoff")
  /\ \/ /\ acquire("handoff")
        /\ \E base \in HandoffBases : info' = allocate_handoff(base, kernel.base, kernel.pages * PAGE)
        /\ goto("GetMemoryMap")
     \/ keep /\ UNCHANGED info /\ goto("FreePages_kernel")
  /\ UNCHANGED <<loadVars, kernelVars, attempt, map_key, interrupts, firmwareVars>>

(* The size in bytes of a version of the memory map.                       *)
map_size(version) == 48 * (version + 4)

(* Faulty variant: a failure after an attempt to exit is cleaned up, too.  *)
after_failed_map_frees == "FreePages_handoff"

after_failed_map == IF attempt = 0 THEN "FreePages_handoff" ELSE "spin"

get_memory_map ==
  /\ at("GetMemoryMap")
  /\ \/ /\ map_key' = key
        /\ info' = [info EXCEPT !.memory_map_size = map_size(key), !.descriptor_size = 48,
                                !.descriptor_version = 1]
        /\ goto("ExitBootServices") /\ UNCHANGED status
     \/ /\ goto(after_failed_map) /\ status' = "EFI_ERROR"
        /\ UNCHANGED <<map_key, info>>
  /\ keep
  /\ UNCHANGED <<pointers, file, total, kernelVars, attempt, interrupts, firmwareVars>>

(* Faulty variant: the loop has no end.                                    *)
retry_for_ever == attempt' = Min({attempt + 1, MAX_ATTEMPTS}) /\ goto("GetMemoryMap")

retry == attempt' = attempt + 1 /\ goto(IF attempt' < MAX_ATTEMPTS THEN "GetMemoryMap" ELSE "spin")

(* ExitBootServices can succeed only with the key of the current map.      *)
exit_boot_services ==
  /\ at("ExitBootServices")
  /\ \/ /\ map_key = key
        /\ services' = "exited" /\ status' = "EFI_SUCCESS"
        /\ info' = [info EXCEPT !.flags = 1]
        /\ interrupts' = FALSE
        /\ goto("kernel")
        /\ UNCHANGED attempt
     \/ /\ services' = "leaving" /\ status' = "EFI_INVALID_PARAMETER"
        /\ retry
        /\ UNCHANGED <<info, interrupts>>
     \/ /\ services' = "leaving" /\ status' = "EFI_ERROR"
        /\ goto("spin")
        /\ UNCHANGED <<info, interrupts, attempt>>
  /\ keep
  /\ UNCHANGED <<pointers, file, total, kernelVars, map_key, key>>

(* A kernel that returns ends in the same loop.                            *)
kernel_returns ==
  /\ pc = "kernel" /\ goto("spin")
  /\ status' = "EFI_LOAD_ERROR"
  /\ UNCHANGED <<pointers, file, total, kernelVars, exitVars, interrupts, held, misused, firmwareVars, call>>

spin_forever ==
  /\ pc = "spin" /\ interrupts' = FALSE
  /\ UNCHANGED <<pc, loadVars, kernelVars, exitVars, held, misused, firmwareVars, call>>

returned == pc = "returned" /\ UNCHANGED vars

-----------------------------------------------------------------------------
(* Firmware: an event changes the memory map.  Before the loader first     *)
(* reads the map such a change cannot be seen.                             *)
map_changes ==
  /\ services # "exited" /\ pc \in {"GetMemoryMap", "ExitBootServices"} /\ key < MaxMapChanges
  /\ key' = key + 1
  /\ UNCHANGED <<pc, loadVars, kernelVars, exitVars, interrupts, held, misused, services, call>>

load_kernel ==
  \/ open_volume \/ open_file \/ get_position \/ allocate_pool \/ read_file
  \/ place_kernel \/ cleanup_buffer \/ cleanup_file \/ cleanup_root

start_kernel ==
  \/ allocate_handoff_pages \/ free_kernel \/ free_handoff
  \/ get_memory_map \/ exit_boot_services

efi_main == plain_call \/ report_error \/ load_kernel \/ start_kernel

Next == efi_main \/ kernel_returns \/ spin_forever \/ returned \/ map_changes

(* The loader executes, and every firmware call returns.                   *)
Spec == Init /\ [][Next]_vars /\ WF_vars(efi_main)

-----------------------------------------------------------------------------
(* The loader checks a file only when all of it has been read, however    *)
(* short the reads were (read_entire_file).  It takes the file exactly     *)
(* when it is well formed, for segments at both ends of the allowed memory *)
(* and of the file; then the pages it allocated contain every segment and  *)
(* hold their bytes and zeros, none of them from the unread part of the    *)
(* buffer, and nothing outside the pages was written (inspect_segments,    *)
(* copy_segments).                                                         *)
LoadedImageExact ==
  /\ pc = "place_kernel" =>
       /\ total = file.size
       /\ verdict(file) = "EFI_SUCCESS" <=> WellFormed(file)
  /\ kernel # NULL =>
       /\ DOMAIN memory = kernel.base .. kernel.base + kernel.pages * PAGE - 1
       /\ DOMAIN memory \subseteq IMAGE_LOW .. IMAGE_TOP - 1
       /\ memory[kernel.entry] \notin {0, Garbage}
       /\ file # NULL => ImageOf(file, memory)

(* Whatever call fails, everything opened or allocated is given back once, *)
(* nothing is given back that was not obtained, and a loader that returns  *)
(* to the firmware holds nothing (the cleanup label, start_kernel).        *)
NothingLeaked ==
  /\ ~misused
  /\ pc \in {"report_error", "returned"} => held = {}
  /\ pc = "place_kernel" => held = {"root", "file", "buffer"}

(* Once ExitBootServices has been attempted the loader calls no service    *)
(* but the two that are still allowed, gives back no memory and never      *)
(* returns (comment in start_kernel).                                      *)
FirmwareLeftAlone ==
  services # "running" =>
    /\ call \in {"GetMemoryMap", "ExitBootServices"}
    /\ held = {"kernel", "handoff"}
    /\ pc \notin {"report_error", "returned"}

(* The kernel is entered with interrupts disabled, boot services gone and  *)
(* the final memory map, however often the map had to be read again; it    *)
(* accepts the block, and the guard pages it will unmap around its stack   *)
(* are the loader's own.                                                   *)
HandoffComplete ==
  pc = "kernel" =>
    /\ services = "exited" /\ ~interrupts /\ held = {"kernel", "handoff"}
    /\ map_key = key /\ info.memory_map_size = map_size(key)
    /\ info.kernel_base = kernel.base /\ info.kernel_size = Cardinality(DOMAIN memory)
    /\ valid_boot_header(info) /\ valid_memory_map(info)
    /\ valid_stack(info, info.stack_base + info.stack_size)
    /\ GuardsAreFree(info)

(* The loader comes to an end: it enters the kernel, returns an error or   *)
(* stops, even if the firmware rejects every key (the attempt loop) and    *)
(* reads the file in small pieces (read_entire_file).                      *)
LoaderDecides == <>(pc \in {"kernel", "returned", "spin"})
=============================================================================
