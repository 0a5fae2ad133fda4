-------------------------------- MODULE Irq --------------------------------
(***************************************************************************)
(* Interrupt delivery: kernel/irq.c and kernel/timer.c on one CPU with two *)
(* cascaded 8259 controllers.                                              *)
(*                                                                         *)
(* The controllers work in steps the devices can interleave with: the CPU  *)
(* accepts a request, then asks the master and then, for a line of the     *)
(* slave, the slave which one it was.  A request withdrawn in between      *)
(* comes out as a spurious IRQ7 or IRQ15.                                  *)
(***************************************************************************)
EXTENDS Integers, FiniteSets, FiniteSetsExt

CONSTANTS
  Lines,    \* the lines devices use
  MaxTicks  \* bound: interrupts of the timer

ASSUME IrqAssumption ==
  Lines \subseteq (0 .. 15) \ {2} /\ 0 \in Lines /\ MaxTicks \in Nat

VARIABLES
  irr, imr, isr,       \* request, mask and in-service registers, both controllers
  remapped,            \* vectors 32 to 47
  apic,                \* local APIC: "absent", "off", "xapic" or "x2apic"
  initialized, timer_initialized, unexpected_irqs, ticks,
  interrupts,          \* the IF flag
  cpu,                 \* "main", or how far the CPU is with an interrupt
  vector

picVars == <<irr, imr, isr, remapped, apic>>
irqVars == <<initialized, timer_initialized, unexpected_irqs, ticks>>
cpuVars == <<interrupts, cpu, vector>>

(* As the firmware left it; with boot services gone nothing is in service. *)
IrqInit ==
  /\ irr \in {{}, Lines} /\ imr \in {{}, 0 .. 15} /\ isr = {} /\ remapped = FALSE
  /\ apic \in {"absent", "xapic", "x2apic"}
  /\ initialized = FALSE /\ timer_initialized = FALSE
  /\ unexpected_irqs = 0 /\ ticks = 0
  /\ interrupts = FALSE /\ cpu = "main" /\ vector = 0

-----------------------------------------------------------------------------
(* The controllers and the devices (hardware).                             *)

Slave == 8 .. 15

(* The input of the master a line arrives at.                              *)
input(line) == IF line \in Slave THEN 2 ELSE line

urgency(line) == 16 * input(line) + line

blocked(line) ==
  \E served \in isr : IF served \in Slave THEN line \in Slave /\ served <= line
                                          ELSE served <= input(line)

requests == {line \in irr \ imr : input(line) \notin imr /\ ~blocked(line)}

raise(line) ==
  /\ line \notin irr
  /\ line = 0 => ticks < MaxTicks
  /\ irr' = irr \cup {line}
  /\ UNCHANGED <<imr, isr, remapped, apic, irqVars, cpuVars>>

withdraw(line) ==
  /\ line \in irr
  /\ irr' = irr \ {line}
  /\ UNCHANGED <<imr, isr, remapped, apic, irqVars, cpuVars>>

accept ==
  /\ cpu = "main" /\ interrupts /\ requests # {}
  /\ cpu' = "acknowledge" /\ interrupts' = FALSE
  /\ UNCHANGED <<picVars, irqVars, vector>>

(* The first line of a controller's vectors.                               *)
base == IF remapped THEN 32 ELSE 8

(* The master answers with its most urgent input, or IRQ7 if it has none.  *)
acknowledge ==
  /\ cpu = "acknowledge"
  /\ LET asked == {input(line) : line \in requests}
         slave == asked # {} /\ Min(asked) = 2
     IN  /\ isr' = isr \cup (IF asked = {} THEN {} ELSE {Min(asked)})
         /\ irr' = irr \ (IF asked = {} \/ slave THEN {} ELSE {Min(asked)})
         /\ vector' = base + (IF asked = {} THEN 7 ELSE Min(asked))
         /\ cpu' = IF slave THEN "acknowledge_slave" ELSE "dispatch"
  /\ UNCHANGED <<imr, remapped, apic, irqVars, interrupts>>

acknowledge_slave ==
  /\ cpu = "acknowledge_slave"
  /\ LET asked == (irr \ imr) \cap Slave
     IN  /\ isr' = isr \cup (IF asked = {} THEN {} ELSE {Min(asked)})
         /\ irr' = irr \ (IF asked = {} THEN {} ELSE {Min(asked)})
         /\ vector' = base + (IF asked = {} THEN 15 ELSE Min(asked))
  /\ cpu' = "dispatch"
  /\ UNCHANGED <<imr, remapped, apic, irqVars, interrupts>>

(* The end-of-interrupt command (0x20): the most urgent line is done.      *)
eoi(served) == IF served = {} THEN {} ELSE served \ {Min(served)}
eoi_master(served) == eoi(served \ Slave) \cup (served \cap Slave)
eoi_slave(served) == eoi(served \cap Slave) \cup (served \ Slave)

-----------------------------------------------------------------------------
(* irq.c and timer.c.                                                      *)

irq_init_allowed == ~initialized /\ ~interrupts /\ apic # "x2apic"

(* The controllers forget their requests when they are initialised.        *)
irq_init ==
  /\ apic' = IF apic = "xapic" THEN "off" ELSE apic
  /\ remapped' = TRUE /\ irr' = {} /\ isr' = {}
  /\ initialized' = TRUE

init_mask == 0 .. 15

enable_allowed(irq) == initialized /\ irq < 16 /\ ~interrupts

(* Faulty variant: the cascade stays masked.                               *)
enable_one(mask, irq) == mask \ {irq}

irq_enable(mask, irq) == mask \ {irq, input(irq)}

timer_init_allowed == ~timer_initialized /\ ~interrupts /\ irq_init_allowed

(* Once irq_init has succeeded, so does irq_enable(0).                     *)
timer_init ==
  /\ irq_init
  /\ ticks' = 0 /\ timer_initialized' = TRUE
  /\ imr' = irq_enable(init_mask, 0)

(* Faulty variant: every IRQ7 and IRQ15 is taken for real.                 *)
never_spurious == FALSE

(* IRQ7 or IRQ15 without a bit in service.                                 *)
spurious == vector \in {39, 47} /\ vector - 32 \notin isr

(* Faulty variant: the master is not told of a spurious IRQ15.             *)
end_spurious_silently == UNCHANGED isr

end_spurious == isr' = IF vector = 47 THEN eoi_master(isr) ELSE isr

(* serial_interrupt is the business of module SerialRx.                    *)
handle ==
  CASE vector = 32 -> ticks' = ticks + 1 /\ UNCHANGED <<unexpected_irqs, imr>>
    [] vector = 36 -> UNCHANGED <<ticks, unexpected_irqs, imr>>
    [] OTHER -> /\ unexpected_irqs' = unexpected_irqs + 1
                /\ imr' = imr \cup {vector - 32}
                /\ UNCHANGED ticks

(* irq_common calls irq_dispatch and returns with iretq.                   *)
irq_dispatch ==
  /\ cpu = "dispatch" /\ vector \in 32 .. 47
  /\ IF spurious
     THEN end_spurious /\ UNCHANGED <<ticks, unexpected_irqs, imr>>
     ELSE handle /\ isr' = eoi_master(IF vector >= 40 THEN eoi_slave(isr) ELSE isr)
  /\ cpu' = "main" /\ interrupts' = TRUE
  /\ UNCHANGED <<irr, remapped, apic, initialized, timer_initialized, vector>>
=============================================================================
