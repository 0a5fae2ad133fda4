# A TLA+ model of OS_by_AI

OS_by_AI is a small x86_64 operating system: a UEFI loader (`boot/`) and a
kernel (`kernel/`) that manages physical pages, builds its own page tables,
takes timer and serial interrupts through the legacy PIC, and runs a line
console on COM1. This directory models the loader and the parts of the kernel
that keep state, checks them with TLC on small instances, and proves what
matters most with TLAPS for every value of the constants.

Run a model with `tlc -workers 2 -config MCPMM.cfg MCPMM` (`PROJECT.json` lists
all of them) and a proof with `tlapm PMMProofs.tla`.

## The system

| part | source | state | operations | used by |
|---|---|---|---|---|
| boot loader | `boot/main.c`, `boot/load.c` | firmware resources held, the hand-off block | read and place the ELF image, leave boot services | firmware |
| boot sequence | `kernel/main.c`, `entry.S` | - | checks of the hand-off block, the order of initialisation | loader |
| descriptor tables | `kernel/tables.c`, `interrupts.S` | GDT, IDT, TSS | `tables_init`, the exception and interrupt entries, panic | boot sequence, CPU |
| page allocator | `kernel/pmm.c` | two bitmaps, two counters, cursor, `ready` | `pmm_init`, `pmm_alloc`, `pmm_free`, `pmm_is_allocated` | self tests, paging, console (`mem`) |
| allocator self test | `kernel/pmm_check.c` | locals | `pmm_boot_check`, run twice during boot | boot sequence |
| paging | `kernel/paging.c` | list of table pages, the tables, root, `active` | `paging_init`, `paging_map`, `paging_unmap`, `paging_protect`, `paging_query` | boot sequence, self test |
| paging self test | `kernel/paging_check.c` | locals | `paging_boot_check` | boot sequence |
| receive ring | `kernel/rx_buffer.c` | array, two indices, `failed` | `rx_reset`, `rx_fail`, `rx_push`, `rx_read` | serial |
| serial port | `kernel/serial.c` | the ring, `receive_enabled`, UART registers | polled output; interrupt-driven input | console, IRQ4 |
| interrupts, timer | `kernel/irq.c`, `timer.c`, `interrupts.S` | PIC registers, `unexpected_irqs`, `ticks` | `irq_init`, `irq_enable`, `timer_init`, dispatch | boot sequence, CPU |
| console | `kernel/console.c` | `LINE_EDITOR` | edit a line, execute it, sleep | boot sequence |

Everything runs on one CPU. The concurrency is between the main program, the
interrupt handlers, the UART with whoever sends to it, and the CPU's own page
walks. The hard parts are: the line status register that both the main program
and the handler read and thereby clear; the edge-triggered interrupt line; going
to sleep without missing a byte; table memory that runs out half way through an
operation; stale translations; interrupt requests withdrawn while they are
being acknowledged; firmware calls that fail at any point, and a memory map
that changes while the loader leaves; and the arithmetic at the edges of
memory and of a file. Each
is a hazard of `PROJECT.json`, with the line where it bites and the properties
that would catch it.

## The modules

`PMM` is the allocator. The bitmaps are sets of page numbers. Addresses stay
byte addresses with a register width (`UINT64_MAX`), so that wrap-around in
`valid_range`, `reserve` and `mark_usable_pages` can happen; the instance in
`MCPMMInit` puts regions at the very end of that range. The comparisons of
`valid_boot_info` that involve no address are one Boolean, `header_ok`. The
allocator's callers run with interrupts disabled, so a call is one step.

`PMMCheck` extends it with `pmm_boot_check`, one step per allocator call, entered
from every state the allocator reaches. RAM is assumed to work.

`Paging` extends `PMM` with `paging.c`. A table is a function on its present
entries, an address is the path of its four indices (`identity` computes it for
identity-mapped pages with `TABLE_ENTRIES` entries a table). Each store to a
table and each `invlpg` is a step. `cpu_walk` is the hardware: between any two
steps it reads one more level, starting from the root or from the table pointer
it has cached, for any address of the window. One cached item is enough, since
the properties speak about each item by itself and any sequence of walks may
come before. `caller_alloc` and `caller_free` are the users of the API, who
keep a page allocated while it is mapped (the contract in `paging.h`).
`unmap_stack_guards` and `activate_page_tables` are one step together with the
checks before them: nothing else runs before the write to CR3, and the CPU
walks the old tables until then. The features `supported_cpu_state` looks at are
a free choice. `AddressSpace` is the abstract promise: a map in which a call
changes the address it names and no other. Its `target` is the address of the
operation under way (`op.va`), so that a table reclaimed with a neighbour's leaf
still in it does not pass for an unmap of the neighbour.

`PagingCheck` extends it with `paging_boot_check`. The self test is data: a
sequence of statements, each with the result it expects, executed one at a time
through the steps of `Paging`. Stores and loads go through the translation the
CPU has cached, if it has one. Addresses that are not page-aligned have no
counterpart in `Paging`, so that those of the refused calls that differ from
another one only in this are left out.

`ElfImage` has the checks of `load.c` as operators on a file (header, program
headers, size) and, next to them, what a well-formed image is in terms of the
sets of addresses its segments cover. Byte k of a file is the number k + 1, so
that a wrong or a missing copy shows; a byte of the buffer that no `Read` has
filled is `Garbage`. `copy_segments` is the memory written: the range that is
cleared and whatever addresses the segments name, inside the range or not. Sums
are cut to the register width.
`Handoff` is the boot information block with its real sizes: how the loader
lays it out and what the kernel checks of it.

`Loader` extends both with `efi_main`, `load_kernel` and `start_kernel`. The
position `pc` is named after the next firmware call. The calls that hold no
resource are a table (`plain_calls`) with the place the code goes to on success
and on failure; a serial write that is cut short is a failure. `held` and
`misused` are the firmware's books. The firmware is modelled from how the loader
uses it: a file is read in pieces of any size, an event may change the memory
map, a stale key is never accepted, and a good one need not be.

`Irq` is `irq.c` and `timer.c` on two cascaded controllers. The CPU accepts a
request, asks the master, then the slave; between these steps devices raise and
withdraw their lines. `irq_dispatch` is one step, since it runs with interrupts
disabled and reads nothing a device can change. `serial_interrupt` has no effect
here: `SerialRx` has it in full. The firmware leaves masks, requests and the
local APIC in any state, but nothing in service.

`KernelBoot` composes `Irq` with the boot sequence. `boot_order` is
`kernel_main` with the functions it calls; a part with a module of its own
succeeds or reports a failure. `enable_driver` stands for code that later uses
the public `irq_enable` for a line of its own, so that unexpected interrupts and
the slave are exercised. A `fault` may hit the kernel anywhere once its tables
are loaded, also in a handler. That `irq_common` keeps the registers
(`timer_check_registers` compares them) is taken for granted.

`RxBuffer` is the ring, `LossyQueue` its abstract promise.

`SerialRx` extends the ring with `serial.c`, the delivery of IRQ4 and the input
loop of `console_run`. Bytes are numbered in the order they are sent; 0 stands
for the character of a break. Every access to a UART register is a step of the
main program or of the handler. Modelled from how the code uses them are the
UART (FIFO, error bits cleared by a read of LSR, FIFO reset by FCR, which
clears the errors of its bytes but not an overrun), the PIC (a request is
latched on a rising edge, ICW1 = 0x11) and the CPU. `sampled` says that the CPU
saw a pending interrupt at the last instruction boundary: the main program then
executes nothing more before the handler, while a request that rises later has
to wait for one instruction at most. Status 0xff and an exhausted `POLL_LIMIT`
end in the spin loop. Output is an arbitrary number of bytes, each with its
polling; the timer matters only as a wake-up; the statistics counters are left
out. `LossyStream` is the promise to the reader of the stream. The bytes sent,
the bytes delivered (their number and the last of them) and whether a loss was
reported since are history variables. The number is there so that handing a byte
out is never a stuttering step, whatever byte it is; reception is enabled once.

`Console` is the line editor with one byte for each class the code tells apart
(`1` is a parameter of a CSI sequence, `a` and `CSI` end one, `CSI` stands for
the characters `[` and `O`, `SP` for a space), and with the uninitialised array and its
stale contents. What the
commands print is left out; `HaltText` is the one command with an effect on the
loop. `ConsoleRef` adds the history of bytes typed and reads it as a grammar,
where the editor works byte by byte.

The `MC...` modules give the constants their values. A definition called a
faulty variant is a plausible bug, used to show that a property can fail.

## What the runs check

| run | instance | properties |
|---|---|---|
| `pmm` | a few pages, two maps, every address freed | `PmmTypeOK`, `PagesAccounted`, `CursorBelowFree`, `AllocFindsFreePage`, `LowestFirst` |
| `pmm_init` | 3000 boot blocks around page, 1 MiB, limit and register boundaries | `EligibleExact` |
| `pmm_check` | the self test in every allocator state | `NoFalseAlarm`, `TestLeavesNoTrace` |
| `paging` | three addresses that share tables at different levels, two callers' pages, 2, 7 and 9 pages of memory | `PagesHaveOneOwner`, `TablesFormTree`, `CachedTableLive`, `CacheCoherent`, `WindowShowsOwnedPages`, `WindowIsMap` |
| `paging_init` | 87 memory maps, tables of four entries, a budget of 16 tables | `PagingTypeOK`, `IdentityMapExact`, `FailedInitLeavesNothing`, `PagingSelfTestSound` |
| `rx_buffer` | four slots, two byte values | `RxTypeOK`, `FailedIsEmpty`, `RingIsQueue` |
| `serial` | a ring of three, a FIFO of two, five bytes, overruns, breaks, device errors | `SerialTypeOK`, `NoSleepWithInput`, `BoundMeansLoss`, `StreamContract` |
| `serial_live` | four bytes, breaks | `LineServed`, `InputConsumed` |
| `serial_overrun` | a ring and a FIFO of two, six bytes, overruns | `InputRecovers` (violated) |
| `loader` | 3400 files with pages of two bytes and images from 4 to 16, three attempts, two map changes | `LoadedImageExact`, `NothingLeaked`, `FirmwareLeftAlone`, `HandoffComplete`, `LoaderDecides` |
| `boot` | lines 0, 4, 7 and 15, two ticks, two lines enabled later | `EventsHandled`, `EveryInterruptEnded`, `UnexpectedBounded`, `NoFalseStop`, `InterruptsServed` |
| `console` | an array of three bytes, four bytes a line | `ConsoleTypeOK`, `ScreenShowsLine`, `ExecutesWhatWasTyped` |

Why the bounds are enough to see the interesting cases:

- `paging`: the identity map needs four tables and the three addresses four
  more, so that `paging_map` fails with none, one and two tables to give back,
  and `paging_unmap` reclaims none, one, two and three levels.
- `paging_init`: up to 22, and 37, pages of conventional memory make it fail
  at every table it allocates, at the budget, on memory that is not write-back,
  on missing regions and on missing guards; the self test that follows runs out
  of pages, runs out of tables, and passes with six to nine free pages.
- `loader`: one segment at either end of memory and of the file with every
  combination of sizes, two segments apart, touching, overlapping and empty in
  either order, program headers beyond the file, entry points inside and
  outside. Three attempts to exit are more than the two map changes, so that the
  loader gets through after one and after two failures, and gives up.
- `boot`: 7 and 15 are the lines spurious interrupts appear as, 0 and 4 the ones
  the kernel handles. Two ticks are enough for one in the timer check and one
  at the console. Requests and withdrawals have no bound.
- `serial`: five bytes are more than the ring and the FIFO hold together with
  the handler's bound of three rounds, so that every loss can happen. The
  sender's bound `MaxBytes` and the others are guards of the actions they limit.
- `console`: with an array of three, four bytes make a line overlong, and are
  enough for a complete CSI sequence with a parameter, or a deletion after two
  characters and one more. An uninitialised byte of the array is a character
  or a NUL, the two that make a difference when it is read.

`CHECK_DEADLOCK FALSE` is said where the modelled part ends by design: in
`MCPMMInit`, which follows one initialisation to its end.

### Fairness

`FairSpec` of `SerialRx` assumes weak fairness of the handler's and of the main
program's steps (a CPU executes instructions), of the transmitter, and strong
fairness of taking a latched interrupt, because the main program keeps
disabling and enabling interrupts, and of the end of an output, because every
text printed is finite. No fairness is assumed of the sender, of the timer or of
any fault.

`Spec` of `Loader` assumes weak fairness of the loader's steps: it executes and
every firmware call returns. Nothing is assumed of a call's result.

`Spec` of `KernelBoot` assumes weak fairness of the handlers and of the timer,
strong fairness of accepting an interrupt (the console keeps disabling them;
the CPU takes a pending one at the next boundary where it may) and strong
fairness of the main program (handlers are short and the timer ticks 100 times
a second, so that interrupts leave it time). The bound on ticks would hide that
IRQ0 can starve the lines below it; `InterruptsServed` therefore allows a
request to wait while more urgent lines keep the CPU busy.
The other modules state safety only.

### The finding

`serial_overrun` is expected to fail. `serial_interrupt` bounds its loop at
`RX_CAPACITY` rounds; if input keeps coming it reports a loss, clears the
receive FIFO and returns (serial.c:123-124). If the FIFO overruns after the
last read of LSR, the FIFO reset leaves the overrun bit set, the interrupt line
stays asserted, and the PIC, which is edge-triggered, never sees another edge.
The console reports the loss, prints nothing, and sleeps; no further byte is
fetched. The repository's README says that one more Enter, or Ctrl-C, recovers
from a loss (README.md:117). Without overruns (`serial_live`) the same
properties hold.

## What is proved

`PMMProofs` proves for every number of pages, page size, register width and set
of boot blocks (`PmmAssumption`: sizes are positive, the limit fits the
register) that `PmmSpec` keeps `PmmTypeOK` (`PmmTypeCorrect`), `PagesAccounted`
(`PmmAccounting`), `CursorBelowFree` (`PmmCursor`), `AllocFindsFreePage`
(`PmmAllocSucceeds`), `LowestFirst` (`PmmLowestFirst`) and `EligibleExact`
(`PmmManagesExactly`).
The inductive invariant `PmmInv` is the conjunction of type correctness, the
accounting, the cursor property, and `UntouchedBeforeInit`: `pmm_init` adds to
counters and bitmaps and is right only because it finds them zero. The cursor
property is needed for the order of allocation: it makes the wrapped part of the
search unsuccessful, so that the first hit is the lowest free page
(`FirstFreeIsLowest`). `EligibleExact` is a fact about one call: `MarkedExact`
shows that the rounded page range of a descriptor holds the whole pages inside
it, `ReserveExact` that a reserved range removes the pages it shares a byte
with, in both cases because the validation before has excluded wrap-around
(`WrapFits`, `DescriptorEnd`).

`PMMCheckProofs` proves `NoFalseAlarm` and `TestLeavesNoTrace`, for pages of more
than one byte (`CheckAssumption`; the size is 4096, and the test needs an
address inside a page that is not its first). `CheckInv` adds to `PmmInv` what
the local variables of the self test hold at each statement: which of the three
pages are taken, that they differ, and how the free count relates to the one
read on entry.

`LoaderProofs` begins with the operators of `ElfImage`, for every header with fields
of the register's width (`ElfAssumption`): `VerdictExact`, the checks of
`place_kernel` accept exactly the well-formed files, in both directions, and
`ImageExact`: `copy_segments` writes the range and nothing else, the range
contains every segment, and its bytes are those of the reference. The first rests on arithmetic lemmas that say when a truncated sum
is the sum and when two segments that are compared by their ends share no
address; the second on the segments being disjoint, so that the order of the
copies does not matter.

It then proves `NothingLeaked`, `FirmwareLeftAlone`, `LoadedImageExact`
and `HandoffComplete` for every set of files, every answer of the firmware and
every page-aligned place below `ADDRESS_MAX` where it may put the hand-off block
(`LoaderAssumption`). `LoaderInv` says for each position of `pc` which
resources are held (`ResourcesHeld`), whether boot services are still there
(`ServicesLeft`), that the whole file is in the buffer when it is checked and
`kernel` and `memory` come from it (`KernelMatchesFile`), and how far the block is filled in (`BlockReady`).

`BootProofs` proves `EventsHandled`, `EveryInterruptEnded`, `UnexpectedBounded` and
`NoFalseStop` for every set of lines, ticks and drivers. `BootInv` ties the
position in `kernel_main` to the state of IDT, controllers and APIC
(`BootProgress`), says where interrupts may be enabled at all
(`InterruptsOnlyOpen`), what is in service at each step of an acknowledgement,
the withdrawn requests included (`ServiceMatchesCpu`), that the open lines
without a handler plus the interrupts counted never exceed the calls of
`irq_enable` (`LinesPaidFor`), and what a wait of the timer check may end with
(`CheckEnded`).

`RxProofs` proves for every capacity and byte set that `RxSpec` keeps `RxTypeOK`
and `FailedIsEmpty`, and that it implements `LossyQueue` (`RxRefinesQueue`). The
invariant is the conjunction of the two. The refinement maps the queue to
`contents`, the bytes from `tail` to `head` in ring order; `StoreAppends` and
`ReadTakesHead` show that a push appends and a read removes the first element
through every wrap-around, `FullContents` that the one empty slot tells a full
ring from an empty one.

`SerialProofs` proves `SerialTypeOK`, `NoSleepWithInput`, `BoundMeansLoss` and the
refinement `StreamContract` for every ring, FIFO depth, polling limit, number
of bytes and set of faults, and `LineServed` when overruns are not among the
faults; with overruns it is false, which is the finding above. `MachineInv` is
about the three actors: handler and main program exclude each other
(`Exclusion`), reception is off before it is enabled (`BeforeEnable`), and every
round of the handler has stored a byte or found the ring failed (`Rounds`). As
the ring never holds `RX_CAPACITY` bytes, `RX_CAPACITY` rounds imply a loss.
`StreamInv` is about the bytes. Unless a loss will be reported before the next
read (`Condemned`), the ring holds consecutive bytes the reader may be given; and
the FIFO holds the last bytes sent, unless an error is pending, a handler will
empty it before the ring is read (`Draining`), or nobody will ever fetch from it
(`Blocked`, the state of the finding). `Blocked` and `Draining` are needed for
the moment after `wait_status` has taken an error out of LSR: the error is
gone, the bytes behind it are still in the FIFO, and only the request latched in
the PIC decides what happens to them. The proof uses the lemmas of `RxProofs`
about `contents`.

`PagingProofs` proves every property of `Paging`: `PagingTypeOK` (`PagingTypes`),
`PagesHaveOneOwner` (`PagingOwnership`), `TablesFormTree` (`PagingTree`),
`CachedTableLive` (`PagingCacheLive`), `CacheCoherent` (`PagingCacheCoherent`),
`WindowShowsOwnedPages` (`PagingWindow`), `IdentityMapExact` (`PagingIdentity`),
`FailedInitLeavesNothing` (`PagingFailure`) and the refinement `WindowIsMap`
(`PagingImplementsMap`), for every memory map, amount of memory, budget and size
of tables, and every set of addresses in the window. It assumes
(`PagingAssumption`) that managed memory fits under one entry of the root, as
4 GiB do under 512 GiB, so that the identity map and the window share only the
root; and (`PlacementAssumption`) that no managed page is text, read-only data
or a guard. The second is a promise of code outside `paging.c`: the linker
script puts text, read-only data and the guards of the double fault stack in
the kernel image, which `pmm_init` reserves, and the loader allocates the
stack's guards together with the stack as loader data, which `pmm_init` does not
manage. Only the last conjunct of `IdentityMapExact` uses it.

That the tables are a tree holds between operations; the invariant has to say
what they are in the middle of one. `PagingInv` says that there are a `depth` and
a `route` (the indices on the way) for each table such that (`Tree`)

- a table is known by its depth and route, and each link leads one level down
  along them (`Shape`); each table but the root and the one being released has a
  link to it (`Attached`);
- the operation's local variables lie on the walk of its address; the tables a
  `paging_map` has made form a chain whose last table is empty and whose first
  hangs on a table with another entry or on the root (`OpOK`), so that a
  roll-back empties no older table;
- what the CPU has cached lies where a walk finds it, is not a table about to be
  released, and is a stale leaf only where an `invlpg` for this address is the
  next step (`CacheOK`);
- the window shows only pages of the callers (`WindowOK`), none of its tables is
  empty but those the operation will still fill or reclaim (`NoneEmpty`), and the
  identity map has what the loop over the memory map has visited, without the
  guards at the end (`IdentityOK`).

Neither `depth` nor `route` is a variable: the step that adds a table extends
them, all others keep them, and the walk of the code (`walk`, `table_at`) is
shown to find exactly the tables they describe. Next to `Tree` stand `PmmInv`,
the books of `table_pages` (`Ownership`) and what each stage of `paging_init` has
done (`Stages`). That `map_boot_ram` visits exactly the boot RAM is proved from
the defining equation of the concatenation of the regions' pages. For the
refinement each step is shown to leave what the window shows as it was
(`Unseen`) or to change the address of the call alone (`SeenAt`), and the three
stores that do the latter are matched with map, unmap and protect of `AddressSpace`.

`ConsoleProofs` proves `ConsoleTypeOK` (`ConsoleTypes`) and `ExecutesShownLine`
(`ConsoleExecutesShown`) for every size of the array and every content an
uninitialised byte of it may have (`Leftover`). The invariant adds that the
visible part of the line holds no NUL: `execute` stores one into it, so that this
is true only because the editor resets the line before it goes on, and no longer
once the console has halted. `CommandIsShown` follows the C string from the first
byte that is not blank to the first NUL and shows that it ends inside the
visible line. `ExecutesShownLine` is the half of `ExecutesWhatWasTyped` that needs
no history of the bytes typed; `ScreenShowsLine` is the other half.

Only model-checked are: the liveness properties `LoaderDecides`,
`InterruptsServed`, `InputConsumed` and `InputRecovers`, since TLAPS does not
reason about fairness; `ScreenShowsLine` and `ExecutesWhatWasTyped`, whose
reference is a recursive reading of the bytes typed; and `PagingSelfTestSound`, which is about
one script of some fifty calls and would need an assertion at each of them.

### What the runs of the loader and of the boot sequence show

The loader accepts a file exactly if it is well formed (`LoadedImageExact`);
none of the comparisons overflows at the edges. However short the reads are, no
unread byte of the buffer reaches the image, and the copy stays in the pages
that were allocated. Whatever call fails, nothing is
kept or given back twice, and after the first attempt to leave boot services
only the two calls that are still allowed follow, as the repository's README
promises (README.md:127, 137). The memory map the kernel gets is the one whose
key was accepted.

`NoFalseStop` names three reasons for giving up. The last is a weakness the code
has by design: `timer_check_registers` sleeps once, and if the interrupt that
ends the sleep is spurious, the tick count is still zero and the boot stops.

## What is not modelled, and the plan

Not modelled: the bits of the descriptors in `tables.c`, the linker script, the
texts printed, the saving of registers in `interrupts.S` (straight-line code),
the fixtures of `paging_check.c` (test code, never called in a normal boot), the
structure definitions of `efi.h`, the build files and the test drivers.

Left for later is a proof of `PagingSelfTestSound` from `PagingInv`, in the
manner of `PMMCheckProofs`.
