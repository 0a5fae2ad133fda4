------------------------------ MODULE Handoff ------------------------------
(***************************************************************************)
(* The boot information block: how the loader lays it out (boot/main.c)    *)
(* and what the kernel checks of it before it does anything else           *)
(* (kernel/main.c).  Sizes are the real ones, in bytes.                    *)
(***************************************************************************)
EXTENDS Integers

CONSTANT ADDRESS_MAX  \* largest address

ASSUME HandoffAssumption == ADDRESS_MAX \in Nat

handoff_pages == 35
map_capacity  == 16 * 4096
sizeof_BOOT_INFO == 88
sizeof_BOOT_MEMORY_DESCRIPTOR == 40

(* Faulty variant: there is no page between the map and the stack.         *)
stack_base_unguarded(memory_map) == memory_map + map_capacity

stack_base_of(memory_map) == memory_map + map_capacity + 4096

(* The cleared block with everything known before the memory map is.       *)
allocate_handoff(handoff_base, kernel_base, kernel_size) ==
  [self |-> handoff_base, magic |-> "BOOT_INFO_MAGIC", version |-> 2, size |-> sizeof_BOOT_INFO,
   memory_map |-> handoff_base + 4096, memory_map_size |-> 0, descriptor_size |-> 0,
   descriptor_version |-> 0, reserved |-> 0, kernel_base |-> kernel_base, kernel_size |-> kernel_size,
   stack_base |-> stack_base_of(handoff_base + 4096), stack_size |-> 16 * 4096, flags |-> 0]

valid_boot_header(info) ==
  /\ info.magic = "BOOT_INFO_MAGIC" /\ info.version = 2 /\ info.size = sizeof_BOOT_INFO
  /\ info.flags = 1 /\ info.reserved = 0

valid_memory_map(info) ==
  /\ info.memory_map # 0 /\ info.memory_map_size # 0
  /\ info.descriptor_size >= sizeof_BOOT_MEMORY_DESCRIPTOR
  /\ info.memory_map_size % info.descriptor_size = 0
  /\ info.descriptor_version = 1

(* kernel_entry aligns the stack it was given; the call of kernel_main     *)
(* pushes eight bytes.                                                     *)
kernel_initial_rsp(stack_top) == (stack_top \div 16) * 16

valid_stack(info, stack_top) ==
  LET top == info.stack_base + info.stack_size
      rsp == kernel_initial_rsp(stack_top) - 8
  IN  /\ info.stack_size >= 4096
      /\ info.stack_base <= ADDRESS_MAX - info.stack_size
      /\ rsp >= info.stack_base /\ rsp < top
      /\ kernel_initial_rsp(stack_top) = top /\ top % 16 = 0

(* The pages the kernel will unmap on both sides of its stack              *)
(* (unmap_stack_guards) belong to the block and hold nothing.              *)
GuardsAreFree(info) ==
  LET Used == {0} \cup 1 .. map_capacity \div 4096
      page(address) == (address - info.self) \div 4096
      stack == page(info.stack_base) .. page(info.stack_base + info.stack_size) - 1
  IN  \A guard \in {page(info.stack_base) - 1, page(info.stack_base + info.stack_size)} :
        guard \in 0 .. handoff_pages - 1 /\ guard \notin Used \cup stack
=============================================================================
