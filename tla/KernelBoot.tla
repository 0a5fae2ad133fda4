---------------------------- MODULE KernelBoot ----------------------------
(***************************************************************************)
(* The kernel from its entry to the console: the order of initialisation   *)
(* in kernel/main.c, the descriptor tables (tables.c, interrupts.S), the   *)
(* timer check and the console's idle loop, run against module Irq.  The   *)
(* parts other modules specify either succeed or report a failure here.    *)
(***************************************************************************)
EXTENDS Irq, Sequences

CONSTANTS
  Drivers,        \* lines later code of the kernel enables
  MaxDriverCalls  \* bound: how often it does

ASSUME BootAssumption == Drivers \subseteq Lines \ {0, 4} /\ MaxDriverCalls \in Nat

VARIABLES
  step,            \* position in boot_order
  stopped,         \* "no", "spin", "halt", "exception" or "reset"
  idt,             \* "firmware" or "kernel"
  receive_enabled,
  driver_calls,    \* history: calls of irq_enable by later code
  excuses          \* history: what has gone wrong outside the interrupt code

bootVars == <<step, stopped, idt, receive_enabled, driver_calls, excuses>>
hardware == <<picVars, irqVars, cpuVars>>
vars == <<hardware, bootVars>>

(* kernel_main.  The last three steps are console_run's loop.              *)
boot_order ==
  <<"boot_info", "serial_init", "boot_log", "tables_init", "boot_log",
    "pmm_init", "pmm_boot_check", "boot_log",
    "paging_init", "pmm_boot_check", "boot_log", "paging_boot_check", "boot_log",
    "timer_init", "timer_check", "timer_hlt", "timer_ticks", "boot_log",
    "serial_enable_receive", "boot_log", "sti",
    "console", "serial_read", "console_hlt">>

console == CHOOSE i \in DOMAIN boot_order : boot_order[i] = "console"

(* Steps that return false, or find the serial port dead, for reasons of   *)
(* their own; boot_log, boot_failure and kernel_main then spin.            *)
fallible ==
  {"boot_info", "serial_init", "boot_log", "pmm_init", "pmm_boot_check", "paging_init",
   "paging_boot_check"}

Init ==
  /\ IrqInit
  /\ step = 1 /\ stopped = "no" /\ idt = "firmware" /\ receive_enabled = FALSE
  /\ driver_calls = 0 /\ excuses = {}

at(label) == cpu = "main" /\ stopped = "no" /\ boot_order[step] = label
next == step' = step + 1 /\ UNCHANGED stopped
spin == stopped' = "spin" /\ UNCHANGED step

-----------------------------------------------------------------------------
(* kernel_main.                                                            *)

component_call ==
  /\ \E label \in fallible : at(label)
  /\ \/ next /\ UNCHANGED excuses
     \/ spin /\ excuses' = excuses \cup {"component"}
  /\ UNCHANGED <<hardware, idt, receive_enabled, driver_calls>>

tables_init ==
  /\ at("tables_init")
  /\ idt' = "kernel" /\ interrupts' = FALSE
  /\ next
  /\ UNCHANGED <<picVars, irqVars, cpu, vector, receive_enabled, driver_calls, excuses>>

initialize_timer ==
  /\ at("timer_init")
  /\ IF timer_init_allowed
     THEN timer_init /\ next /\ UNCHANGED unexpected_irqs
     ELSE spin /\ UNCHANGED <<picVars, irqVars>>
  /\ UNCHANGED <<cpuVars, idt, receive_enabled, driver_calls, excuses>>

(* sti; hlt in timer_check_registers.                                      *)
timer_check ==
  /\ at("timer_check")
  /\ interrupts' = TRUE
  /\ next
  /\ UNCHANGED <<picVars, irqVars, cpu, vector, idt, receive_enabled, driver_calls, excuses>>

(* Faulty variant: the check returns with interrupts enabled.              *)
timer_checked_open ==
  /\ at("timer_ticks")
  /\ UNCHANGED interrupts
  /\ IF ticks = 0 THEN spin ELSE next
  /\ UNCHANGED <<picVars, irqVars, cpu, vector, idt, receive_enabled, driver_calls, excuses>>

(* cli; irq_common has kept the registers, so the ticks decide.            *)
timer_checked ==
  /\ at("timer_ticks")
  /\ interrupts' = FALSE
  /\ IF ticks = 0 THEN spin ELSE next
  /\ UNCHANGED <<picVars, irqVars, cpu, vector, idt, receive_enabled, driver_calls, excuses>>

serial_enable_receive ==
  /\ at("serial_enable_receive")
  /\ IF ~receive_enabled /\ ~interrupts /\ enable_allowed(4)
     THEN imr' = irq_enable(imr, 4) /\ receive_enabled' = TRUE /\ next
     ELSE spin /\ UNCHANGED <<imr, receive_enabled>>
  /\ UNCHANGED <<irr, isr, remapped, apic, irqVars, cpuVars, idt, driver_calls, excuses>>

enable_interrupts ==
  /\ at("sti")
  /\ interrupts' = TRUE
  /\ next
  /\ UNCHANGED <<picVars, irqVars, cpu, vector, idt, receive_enabled, driver_calls, excuses>>

-----------------------------------------------------------------------------
(* console_run: sleep when there is no input, read it when there is.       *)

console_poll ==
  /\ at("console")
  /\ interrupts' = FALSE
  /\ next
  /\ UNCHANGED <<picVars, irqVars, cpu, vector, idt, receive_enabled, driver_calls, excuses>>

console_read ==
  /\ at("serial_read")
  /\ interrupts' = TRUE
  /\ step' \in {step + 1, console} /\ UNCHANGED stopped
  /\ UNCHANGED <<picVars, irqVars, cpu, vector, idt, receive_enabled, driver_calls, excuses>>

(* The halt command, and output to a serial port that no longer works.     *)
console_stops ==
  /\ at("console")
  /\ \/ stopped' = "halt" /\ interrupts' = FALSE /\ UNCHANGED <<step, excuses>>
     \/ spin /\ excuses' = excuses \cup {"component"} /\ UNCHANGED interrupts
  /\ UNCHANGED <<picVars, irqVars, cpu, vector, idt, receive_enabled, driver_calls>>

(* Later code enables a line of its own with interrupts disabled.          *)
enable_driver(irq) ==
  /\ at("console") /\ driver_calls < MaxDriverCalls
  /\ initialized /\ irq < 16
  /\ imr' = irq_enable(imr, irq)
  /\ driver_calls' = driver_calls + 1
  /\ UNCHANGED <<irr, isr, remapped, apic, irqVars, cpuVars, step, stopped, idt, receive_enabled, excuses>>

-----------------------------------------------------------------------------
(* Interrupts and exceptions.                                              *)

(* Faulty variant: a trap gate, which leaves IF as it is.                  *)
trap_gate(number) == [ist |-> IF number = 8 THEN 1 ELSE 0, clears_if |-> FALSE]

(* An entry of kernel_idt: an interrupt gate, for the double fault with a  *)
(* stack of its own.                                                       *)
gate(number) == [ist |-> IF number = 8 THEN 1 ELSE 0, clears_if |-> TRUE]

(* An interrupt ends HLT: the handler returns behind it.                   *)
interrupt ==
  /\ accept
  /\ step' = CASE boot_order[step] = "timer_hlt" -> step + 1
               [] boot_order[step] = "console_hlt" -> console
               [] OTHER -> step
  /\ UNCHANGED <<stopped, idt, receive_enabled, driver_calls, excuses>>

controller == (acknowledge \/ acknowledge_slave) /\ UNCHANGED bootVars

dispatch ==
  /\ irq_dispatch
  /\ excuses' = IF spurious THEN excuses \cup {"spurious"} ELSE excuses
  /\ UNCHANGED <<step, stopped, idt, receive_enabled, driver_calls>>

(* exception_common enters exception_panic through the gate of number.     *)
exception(number) ==
  /\ stopped' = "exception" /\ cpu' = "main"
  /\ interrupts' = (interrupts /\ ~gate(number).clears_if)

(* A fault of the kernel, in a handler or outside.  One whose frame the    *)
(* stack cannot take (an overflow into the guard page) is a double fault,  *)
(* and without a stack for that the machine resets.                        *)
fault ==
  /\ idt = "kernel" /\ stopped \in {"no", "spin"} /\ cpu \in {"main", "dispatch"}
  /\ \/ exception(14)
     \/ IF gate(8).ist = 1 THEN exception(8) ELSE stopped' = "reset" /\ UNCHANGED <<cpu, interrupts>>
  /\ UNCHANGED <<picVars, irqVars, vector, step, idt, receive_enabled, driver_calls, excuses>>

(* The end of exception_panic; serial output has a bound on its waiting.   *)
exception_halt ==
  /\ stopped = "exception" /\ cpu = "main"
  /\ stopped' = "halt" /\ interrupts' = FALSE
  /\ UNCHANGED <<picVars, irqVars, cpu, vector, step, idt, receive_enabled, driver_calls, excuses>>

stays_stopped == stopped \in {"spin", "halt", "reset"} /\ UNCHANGED vars

kernel_main ==
  \/ component_call \/ tables_init \/ initialize_timer \/ timer_check \/ timer_checked
  \/ serial_enable_receive \/ enable_interrupts \/ console_poll \/ console_read

handler == controller \/ dispatch \/ exception_halt

devices == (\E line \in Lines : raise(line) \/ withdraw(line)) /\ UNCHANGED bootVars

Next ==
  \/ kernel_main \/ console_stops \/ interrupt \/ handler \/ fault \/ devices
  \/ (\E irq \in Drivers : enable_driver(irq))
  \/ stays_stopped

tick == raise(0) /\ UNCHANGED bootVars

(* The CPU executes; it takes a pending interrupt at an instruction        *)
(* boundary, so not even a loop that keeps disabling interrupts can put    *)
(* one off for ever; interrupts leave the main program time; the timer     *)
(* keeps running.                                                          *)
Spec ==
  /\ Init /\ [][Next]_vars
  /\ SF_vars(kernel_main) /\ WF_vars(handler) /\ SF_vars(interrupt) /\ WF_vars(tick)

-----------------------------------------------------------------------------
(* An interrupt is only ever taken with the kernel's own IDT loaded, the   *)
(* controllers remapped and the local APIC out of the way (the order of    *)
(* kernel_main, irq_init), never while an exception is being reported      *)
(* (exception_panic runs with interrupts disabled), and a stack overflow   *)
(* is reported instead of resetting the machine (tables_init).             *)
EventsHandled ==
  /\ cpu # "main" =>
       /\ idt = "kernel" /\ remapped /\ apic \in {"absent", "off"}
       /\ stopped \in {"no", "spin"}
  /\ stopped # "reset"

(* Whenever no handler runs, neither controller believes one does: a bit   *)
(* left in service would block its line and the ones below it for good.    *)
(* That covers requests withdrawn at any moment (irq_dispatch, spurious    *)
(* IRQ7 and IRQ15).                                                        *)
EveryInterruptEnded ==
  cpu = "main" /\ remapped /\ stopped \in {"no", "spin"} => isr = {}

(* An interrupt nobody handles is masked: it is counted once for each time *)
(* its line was enabled, and a spurious one is not counted (irq_dispatch). *)
UnexpectedBounded == unexpected_irqs <= driver_calls

(* The kernel gives up only for a reason: a part reported a failure, the   *)
(* machine has an x2APIC, or a spurious interrupt ended the timer check.   *)
(* The conditions the parts put on IF and on the order of calls are met    *)
(* (initialize_timer, irq_enable).                                         *)
NoFalseStop == stopped = "spin" => excuses # {} \/ apic = "x2apic"

(* The kernel reaches the console or stops, and from there on no request   *)
(* of an enabled line waits for ever, unless the device withdraws it or    *)
(* more urgent lines keep the CPU busy (the EOIs, the cascade opened by    *)
(* irq_enable, HLT only with a source enabled).                            *)
InterruptsServed ==
  /\ <>(step >= console \/ stopped # "no")
  /\ \A line \in Lines :
       []<>(\/ step < console \/ stopped \in {"exception", "halt"}
            \/ line \notin irr \ imr
            \/ cpu = "dispatch" /\ urgency(vector - 32) < urgency(line))
=============================================================================
