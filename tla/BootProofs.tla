----------------------------- MODULE BootProofs -----------------------------
(***************************************************************************)
(* The order of kernel_main and the interrupt code of irq.c fit together   *)
(* for every set of lines, drivers and bounds: proofs about modules        *)
(* KernelBoot and Irq.                                                     *)
(***************************************************************************)
EXTENDS KernelBoot, TLAPS, FiniteSetTheorems, NaturalsInduction, WellFoundedInduction

-----------------------------------------------------------------------------
(* The inductive invariant.                                                *)

(* The range of every variable but the flags, which the parts below fix.   *)
BootTypeOK ==
  /\ irr \subseteq Lines /\ imr \subseteq 0 .. 15
  /\ apic \in {"absent", "off", "xapic", "x2apic"}
  /\ unexpected_irqs \in Nat /\ ticks \in Nat /\ driver_calls \in Nat
  /\ cpu \in {"main", "acknowledge", "acknowledge_slave", "dispatch"}
  /\ vector \in Int
  /\ step \in 1 .. 24
  /\ stopped \in {"no", "spin", "halt", "exception"}
  /\ idt \in {"firmware", "kernel"}

(* The steps of kernel_main at which interrupts may be enabled: from the   *)
(* sti of the timer check to its cli, and in the console's loop.           *)
open_steps == {16, 17} \cup 22 .. 24

(* What kernel_main has done by the time it reaches a step.                *)
BootProgress ==
  /\ step > 4 => idt = "kernel"
  /\ (initialized <=> step > 14) /\ (timer_initialized <=> step > 14) /\ (remapped <=> step > 14)
  /\ step > 14 => apic \in {"absent", "off"}
  /\ (receive_enabled <=> step > 19)
  /\ step \in 15 .. 19 => imr = 1 .. 15
  /\ step <= 14 => unexpected_irqs = 0 /\ driver_calls = 0

(* Interrupts are enabled, or one is being taken, only at the open steps   *)
(* and never once an exception is reported.                                *)
InterruptsOnlyOpen ==
  /\ interrupts => cpu = "main"
  /\ interrupts \/ cpu # "main" => step \in open_steps /\ stopped \in {"no", "spin"}
  /\ step = 16 => cpu = "main"

(* The line the CPU is about to handle is in service and not masked; the   *)
(* spurious vectors have no bit of their own.                              *)
VectorInService ==
  \/ vector = 39 /\ isr = {}
  \/ vector = 47 /\ isr = {2}
  \/ vector - 32 \in (0 .. 7) \ {2} /\ vector - 32 \notin imr /\ isr = {vector - 32}
  \/ vector - 32 \in 8 .. 15 /\ vector - 32 \notin imr /\ isr = {2, vector - 32}

(* The in-service registers follow the CPU; an exception abandons them.    *)
ServiceMatchesCpu ==
  stopped \in {"no", "spin"} =>
    /\ cpu \in {"main", "acknowledge"} => isr = {}
    /\ cpu = "acknowledge_slave" => isr = {2}
    /\ cpu = "dispatch" => VectorInService

(* The lines open to an interrupt that nobody handles.                     *)
unhandled == ((0 .. 15) \ {0, 2, 4}) \ imr

(* Every call of a driver pays for one open line or one counted interrupt. *)
LinesPaidFor == step > 14 => unexpected_irqs + Cardinality(unhandled) <= driver_calls

(* The timer check is left by a tick or by a spurious interrupt, the only  *)
(* ones that can come while all other lines are masked.                    *)
CheckEnded == step = 17 /\ cpu = "main" /\ stopped = "no" => ticks > 0 \/ excuses # {}

BootInv ==
  /\ BootTypeOK /\ BootProgress /\ InterruptsOnlyOpen /\ ServiceMatchesCpu
  /\ LinesPaidFor /\ CheckEnded /\ NoFalseStop

-----------------------------------------------------------------------------
(* Positions in boot_order.                                                *)

(* Where each statement of kernel_main stands.                             *)
LEMMA Labels ==
  ASSUME NEW n \in 1 .. 24
  PROVE  /\ boot_order[n] = "tables_init" => n = 4
         /\ boot_order[n] = "timer_init" => n = 14
         /\ boot_order[n] = "timer_check" => n = 15
         /\ boot_order[n] = "timer_hlt" <=> n = 16
         /\ boot_order[n] = "timer_ticks" => n = 17
         /\ boot_order[n] = "serial_enable_receive" => n = 19
         /\ boot_order[n] = "sti" => n = 21
         /\ boot_order[n] = "console" <=> n = 22
         /\ boot_order[n] = "serial_read" => n = 23
         /\ boot_order[n] = "console_hlt" <=> n = 24
         /\ boot_order[n] \in fallible => n \in (1 .. 13) \ {4} \/ n = 18 \/ n = 20
<1>1. n \in {1, 2, 3, 4, 5, 6, 7, 8, 9, 10, 11, 12, 13, 14, 15, 16, 17, 18, 19, 20, 21, 22, 23, 24}
  OBVIOUS
<1>. QED BY <1>1 DEF boot_order, fallible

(* The console starts at its own statement.                                *)
LEMMA ConsoleStep == console = 22
<1>1. DOMAIN boot_order = 1 .. 24
  BY DEF boot_order
<1>2. boot_order[22] = "console"
  BY Labels
<1>3. \A i \in 1 .. 24 : boot_order[i] = "console" => i = 22
  BY Labels
<1>. QED BY <1>1, <1>2, <1>3 DEF console

-----------------------------------------------------------------------------
(* The operators of the controllers.                                       *)

(* A nonempty set of lines has a most urgent one.                          *)
LEMMA MinOfLines ==
  ASSUME NEW S, S \subseteq Nat, S # {}
  PROVE  Min(S) \in S
<1>1. PICK least \in S : \A other \in S : ~(<<other, least>> \in OpToRel(<, Nat))
  BY WFMin, NatLessThanWellFounded
<1>2. \A other \in S : ~(other < least)
  BY <1>1 DEF OpToRel
<1>3. \A other \in S : least =< other
  BY <1>2
<1>. QED BY <1>3 DEF Min

(* End-of-interrupt clears the only bit that is set.                       *)
LEMMA EoiOne ==
  ASSUME NEW line \in Nat
  PROVE  eoi({line}) = {}
<1>1. Min({line}) = line
  BY MinOfLines
<1>. QED BY <1>1 DEF eoi

(* irq_dispatch leaves nothing in service: one command for a line of the   *)
(* master, two for one of the slave, none or one for a spurious interrupt. *)
LEMMA EoiMaster ==
  /\ \A line \in 0 .. 7 : eoi_master({line}) = {}
  /\ \A line \in 8 .. 15 : eoi_master(eoi_slave({2, line})) = {}
<1>1. ASSUME NEW line \in 0 .. 7
      PROVE  eoi_master({line}) = {}
  <2>1. {line} \ Slave = {line} /\ {line} \cap Slave = {}
    BY DEF Slave
  <2>. QED BY <2>1, EoiOne DEF eoi_master
<1>2. ASSUME NEW line \in 8 .. 15
      PROVE  eoi_slave({2, line}) = {2}
  <2>1. 2 \notin Slave /\ line \in Slave /\ line # 2
    BY DEF Slave
  <2>2. {2, line} \ Slave = {2} /\ {2, line} \cap Slave = {line}
    BY <2>1
  <2>3. {} \cup {2} = {2}
    OBVIOUS
  <2>. QED BY <2>2, <2>3, EoiOne DEF eoi_slave
<1>. QED BY <1>1, <1>2

(* What the master can answer when nothing is in service.                  *)
LEMMA AskedInputs ==
  ASSUME BootTypeOK, isr = {}, NEW asked, asked = {input(line) : line \in requests}, asked # {}
  PROVE  /\ Min(asked) \in 0 .. 7
         /\ Min(asked) # 2 => Min(asked) \notin imr
<1>1. \A line \in requests : line \in (0 .. 15) \ {2} /\ line \notin imr /\ input(line) \notin imr
  BY IrqAssumption DEF BootTypeOK, requests
<1>2. \A line \in requests : input(line) \in 0 .. 7
  BY <1>1 DEF input, Slave
<1>3. asked \subseteq Nat
  BY <1>2
<1>4. Min(asked) \in asked
  BY <1>3, MinOfLines
<1>5. PICK line \in requests : Min(asked) = input(line)
  BY <1>4
<1>. QED BY <1>1, <1>2, <1>5

-----------------------------------------------------------------------------
(* Counting the open lines.                                                *)

(* The open lines without a handler can be counted.                        *)
LEMMA UnhandledFinite == IsFiniteSet(unhandled) /\ Cardinality(unhandled) \in Nat
<1>1. IsFiniteSet(0 .. 15)
  <2>1. 0 \in Int /\ 15 \in Int
    OBVIOUS
  <2>. QED BY <2>1, FS_Interval, Zenon
<1>2. IsFiniteSet(unhandled)
  BY <1>1, FS_Subset DEF unhandled
<1>. QED BY <1>2, FS_CardinalityType

(* A driver that enables its line opens at most that one: the cascade it   *)
(* opens with it carries no line of its own (irq_enable).                  *)
LEMMA EnableOpensOne ==
  ASSUME BootTypeOK, NEW irq \in Drivers, imr' = irq_enable(imr, irq)
  PROVE  Cardinality(unhandled') \in Nat /\ Cardinality(unhandled') <= Cardinality(unhandled) + 1
<1>1. irq \in (0 .. 15) \ {0, 2, 4}
  BY IrqAssumption, BootAssumption
<1>2. input(irq) \in {irq, 2}
  BY DEF input
<1>3. unhandled' = unhandled \cup {irq}
  BY <1>1, <1>2 DEF unhandled, irq_enable
<1>4. Cardinality(unhandled \cup {irq}) \in {Cardinality(unhandled), Cardinality(unhandled) + 1}
  BY UnhandledFinite, FS_AddElement
<1>. QED BY <1>3, <1>4, UnhandledFinite

(* An interrupt nobody handles closes its line (irq_dispatch).             *)
LEMMA MaskClosesOne ==
  ASSUME BootTypeOK, NEW line \in ((0 .. 15) \ {0, 2, 4}) \ imr, imr' = imr \cup {line}
  PROVE  Cardinality(unhandled') = Cardinality(unhandled) - 1
<1>1. line \in unhandled
  BY DEF unhandled
<1>2. unhandled' = unhandled \ {line}
  BY DEF unhandled
<1>. QED BY <1>1, <1>2, UnhandledFinite, FS_RemoveElement

-----------------------------------------------------------------------------
(* The steps of kernel_main.                                               *)

(* At kernel entry.                                                        *)
LEMMA BootInitInv == Init => BootInv
<1>. SUFFICES ASSUME Init PROVE BootInv
  OBVIOUS
<1>1. BootTypeOK
  BY IrqAssumption DEF Init, IrqInit, BootTypeOK
<1>. QED BY <1>1 DEF Init, IrqInit, BootInv, BootProgress, InterruptsOnlyOpen, ServiceMatchesCpu,
                     LinesPaidFor, CheckEnded, NoFalseStop, open_steps

(* Nothing the invariant speaks of changes.                                *)
LEMMA BootStutter ==
  ASSUME BootInv, UNCHANGED vars
  PROVE  BootInv'
BY DEF BootInv, BootTypeOK, BootProgress, InterruptsOnlyOpen, ServiceMatchesCpu, VectorInService,
       LinesPaidFor, CheckEnded, NoFalseStop, open_steps, unhandled,
       vars, hardware, picVars, irqVars, cpuVars, bootVars

(* A part called from kernel_main returns, or kernel_main gives up.        *)
LEMMA ComponentStep ==
  ASSUME BootInv, component_call
  PROVE  BootInv'
<1>1. /\ cpu = "main" /\ stopped = "no" /\ boot_order[step] \in fallible
      /\ UNCHANGED <<hardware, idt, receive_enabled, driver_calls>>
  BY DEF component_call, at
<1>2. step \in (1 .. 13) \ {4} \/ step = 18 \/ step = 20
  BY <1>1, Labels DEF BootInv, BootTypeOK
<1>3. CASE next /\ UNCHANGED excuses
  BY <1>1, <1>2, <1>3
     DEF next, BootInv, BootTypeOK, BootProgress, InterruptsOnlyOpen, ServiceMatchesCpu,
         LinesPaidFor, CheckEnded, NoFalseStop, open_steps, unhandled,
         hardware, picVars, irqVars, cpuVars
<1>4. CASE spin /\ excuses' = excuses \cup {"component"}
  BY <1>1, <1>2, <1>4
     DEF spin, BootInv, BootTypeOK, BootProgress, InterruptsOnlyOpen, ServiceMatchesCpu,
         LinesPaidFor, CheckEnded, NoFalseStop, open_steps, unhandled,
         hardware, picVars, irqVars, cpuVars
<1>. QED BY <1>3, <1>4 DEF component_call

(* tables_init installs the IDT with interrupts disabled.                  *)
LEMMA TablesStep ==
  ASSUME BootInv, tables_init
  PROVE  BootInv'
<1>1. step = 4 /\ cpu = "main" /\ stopped = "no"
  BY Labels DEF tables_init, at, BootInv, BootTypeOK
<1>. QED
  BY <1>1 DEF tables_init, next, BootInv, BootTypeOK, BootProgress, InterruptsOnlyOpen,
              ServiceMatchesCpu, LinesPaidFor, CheckEnded, NoFalseStop, open_steps,
              picVars, irqVars

(* timer_init finds the conditions it checks fulfilled, unless the machine *)
(* has an x2APIC; afterwards only the timer's line is open.                *)
LEMMA TimerInitStep ==
  ASSUME BootInv, initialize_timer
  PROVE  BootInv'
<1>1. step = 14 /\ cpu = "main" /\ stopped = "no"
  BY Labels DEF initialize_timer, at, BootInv, BootTypeOK
<1>2. ~interrupts /\ ~initialized /\ ~timer_initialized
  BY <1>1 DEF BootInv, BootProgress, InterruptsOnlyOpen, open_steps
<1>3. CASE timer_init_allowed
  <2>1. /\ apic' = IF apic = "xapic" THEN "off" ELSE apic
        /\ apic # "x2apic"
        /\ remapped' = TRUE /\ irr' = {} /\ isr' = {} /\ initialized' = TRUE
        /\ ticks' = 0 /\ timer_initialized' = TRUE
        /\ step' = 15
        /\ UNCHANGED <<stopped, unexpected_irqs, cpuVars, idt, receive_enabled, driver_calls, excuses>>
    BY <1>1, <1>3 DEF initialize_timer, timer_init, irq_init, timer_init_allowed, irq_init_allowed, next
  <2>2. imr' = 1 .. 15
    <3>1. imr' = (0 .. 15) \ {0, input(0)} /\ input(0) = 0
      BY <1>3 DEF initialize_timer, timer_init, irq_enable, init_mask, input, Slave
    <3>. QED BY <3>1
  <2>3. Cardinality(unhandled') = 0
    <3>1. unhandled' = {}
      BY <2>2 DEF unhandled
    <3>. QED BY <3>1, FS_EmptySet
  <2>4. LinesPaidFor'
    BY <1>1, <2>1, <2>3 DEF LinesPaidFor, BootInv, BootProgress
  <2>5. BootTypeOK'
    BY <2>1, <2>2 DEF BootInv, BootTypeOK, cpuVars
  <2>6. BootProgress'
    BY <1>1, <2>1, <2>2 DEF BootInv, BootTypeOK, BootProgress
  <2>7. InterruptsOnlyOpen' /\ ServiceMatchesCpu' /\ CheckEnded' /\ NoFalseStop'
    BY <1>1, <1>2, <2>1
       DEF BootInv, InterruptsOnlyOpen, ServiceMatchesCpu, CheckEnded, NoFalseStop, open_steps, cpuVars
  <2>. QED BY <2>4, <2>5, <2>6, <2>7 DEF BootInv
<1>4. CASE ~timer_init_allowed
  <2>1. apic = "x2apic"
    BY <1>2, <1>4 DEF timer_init_allowed, irq_init_allowed
  <2>. QED
    BY <1>1, <1>4, <2>1
       DEF initialize_timer, spin, BootInv, BootTypeOK, BootProgress, InterruptsOnlyOpen,
           ServiceMatchesCpu, LinesPaidFor, CheckEnded, NoFalseStop, open_steps, unhandled,
           picVars, irqVars, cpuVars
<1>. QED BY <1>3, <1>4

(* timer_check enables interrupts and starts to wait for ticks.            *)
LEMMA TimerCheckStep ==
  ASSUME BootInv, timer_check
  PROVE  BootInv'
<1>1. step = 15 /\ cpu = "main" /\ stopped = "no"
  BY Labels DEF timer_check, at, BootInv, BootTypeOK
<1>. QED
  BY <1>1 DEF timer_check, next, BootInv, BootTypeOK, BootProgress, InterruptsOnlyOpen,
              ServiceMatchesCpu, LinesPaidFor, CheckEnded, NoFalseStop, open_steps, unhandled,
              picVars, irqVars

(* timer_check ends its wait: enough ticks, or too few and a stop.         *)
LEMMA TimerCheckedStep ==
  ASSUME BootInv, timer_checked
  PROVE  BootInv'
<1>1. step = 17 /\ cpu = "main" /\ stopped = "no"
  BY Labels DEF timer_checked, at, BootInv, BootTypeOK
<1>. QED
  BY <1>1 DEF timer_checked, next, spin, BootInv, BootTypeOK, BootProgress, InterruptsOnlyOpen,
              ServiceMatchesCpu, LinesPaidFor, CheckEnded, NoFalseStop, open_steps, unhandled,
              picVars, irqVars

(* serial_enable_receive finds the conditions it checks fulfilled.         *)
LEMMA SerialEnableStep ==
  ASSUME BootInv, serial_enable_receive
  PROVE  BootInv'
<1>1. step = 19 /\ cpu = "main" /\ stopped = "no"
  BY Labels DEF serial_enable_receive, at, BootInv, BootTypeOK
<1>2. ~receive_enabled /\ ~interrupts /\ enable_allowed(4)
  BY <1>1 DEF BootInv, BootProgress, InterruptsOnlyOpen, open_steps, enable_allowed
<1>3. imr' = irq_enable(imr, 4) /\ receive_enabled' = TRUE /\ next
  BY <1>2 DEF serial_enable_receive
<1>4. imr' = imr \ {4}
  BY <1>3 DEF irq_enable, input, Slave
<1>5. unhandled' = unhandled
  BY <1>4 DEF unhandled
<1>. QED
  BY <1>1, <1>2, <1>3, <1>4, <1>5
     DEF serial_enable_receive, next, BootInv, BootTypeOK, BootProgress, InterruptsOnlyOpen,
         ServiceMatchesCpu, LinesPaidFor, CheckEnded, NoFalseStop, open_steps, irqVars, cpuVars

(* Interrupts are enabled.                                                 *)
LEMMA StiStep ==
  ASSUME BootInv, enable_interrupts
  PROVE  BootInv'
<1>1. step = 21 /\ cpu = "main" /\ stopped = "no"
  BY Labels DEF enable_interrupts, at, BootInv, BootTypeOK
<1>. QED
  BY <1>1 DEF enable_interrupts, next, BootInv, BootTypeOK, BootProgress, InterruptsOnlyOpen,
              ServiceMatchesCpu, LinesPaidFor, CheckEnded, NoFalseStop, open_steps, unhandled,
              picVars, irqVars

(* The console's loop: console_poll, console_read and console_stops.       *)
LEMMA ConsoleSteps ==
  ASSUME BootInv, console_poll \/ console_read \/ console_stops
  PROVE  BootInv'
<1>1. cpu = "main" /\ stopped = "no" /\ step \in {22, 23}
  BY Labels DEF console_poll, console_read, console_stops, at, BootInv, BootTypeOK
<1>2. CASE console_poll
  <2>1. step = 22
    BY <1>2, Labels DEF console_poll, at, BootInv, BootTypeOK
  <2>. QED
    BY <1>1, <1>2, <2>1
       DEF console_poll, next, BootInv, BootTypeOK, BootProgress, InterruptsOnlyOpen,
           ServiceMatchesCpu, LinesPaidFor, CheckEnded, NoFalseStop, open_steps, unhandled,
           picVars, irqVars
<1>3. CASE console_read
  <2>1. step = 23 /\ step' \in {24, 22}
    BY <1>3, Labels, ConsoleStep DEF console_read, at, BootInv, BootTypeOK
  <2>. QED
    BY <1>1, <1>3, <2>1
       DEF console_read, BootInv, BootTypeOK, BootProgress, InterruptsOnlyOpen,
           ServiceMatchesCpu, LinesPaidFor, CheckEnded, NoFalseStop, open_steps, unhandled,
           picVars, irqVars
<1>4. CASE console_stops
  BY <1>1, <1>4
     DEF console_stops, spin, BootInv, BootTypeOK, BootProgress, InterruptsOnlyOpen,
         ServiceMatchesCpu, LinesPaidFor, CheckEnded, NoFalseStop, open_steps, unhandled,
         picVars, irqVars
<1>. QED BY <1>2, <1>3, <1>4

(* A driver calls irq_enable for its line.                                 *)
LEMMA DriverStep ==
  ASSUME BootInv, NEW irq \in Drivers, enable_driver(irq)
  PROVE  BootInv'
<1>1. cpu = "main" /\ stopped = "no" /\ step = 22 /\ imr' = irq_enable(imr, irq)
  BY Labels DEF enable_driver, at, BootInv, BootTypeOK
<1>2. LinesPaidFor'
  BY <1>1, EnableOpensOne, UnhandledFinite
     DEF enable_driver, LinesPaidFor, BootInv, BootTypeOK, irqVars
<1>3. imr' \subseteq 0 .. 15
  BY <1>1 DEF irq_enable, BootInv, BootTypeOK
<1>4. BootTypeOK'
  BY <1>1, <1>3 DEF enable_driver, BootInv, BootTypeOK, irqVars, cpuVars
<1>5. BootProgress'
  BY <1>1 DEF enable_driver, BootInv, BootProgress, irqVars
<1>6. InterruptsOnlyOpen' /\ ServiceMatchesCpu' /\ CheckEnded' /\ NoFalseStop'
  BY <1>1 DEF enable_driver, BootInv, InterruptsOnlyOpen, ServiceMatchesCpu, CheckEnded, NoFalseStop,
              open_steps, irqVars, cpuVars
<1>. QED BY <1>2, <1>4, <1>5, <1>6 DEF BootInv

-----------------------------------------------------------------------------
(* Interrupts, exceptions and devices.                                     *)

(* Devices and spurious requests touch the request register only.          *)
LEMMA DeviceStep ==
  ASSUME BootInv, devices
  PROVE  BootInv'
<1>1. irr' \subseteq Lines
  BY DEF devices, raise, withdraw, BootInv, BootTypeOK
<1>2. UNCHANGED <<imr, isr, remapped, apic, irqVars, cpuVars, bootVars>>
  BY DEF devices, raise, withdraw
<1>. QED
  BY <1>1, <1>2
     DEF BootInv, BootTypeOK, BootProgress, InterruptsOnlyOpen, ServiceMatchesCpu, VectorInService,
         LinesPaidFor, CheckEnded, NoFalseStop, open_steps, unhandled, irqVars, cpuVars, bootVars

(* The CPU takes an interrupt; one that ends hlt moves kernel_main on.     *)
LEMMA InterruptStep ==
  ASSUME BootInv, interrupt
  PROVE  BootInv'
<1>1. /\ cpu = "main" /\ interrupts /\ cpu' = "acknowledge" /\ interrupts' = FALSE
      /\ UNCHANGED <<picVars, irqVars, vector, stopped, idt, receive_enabled, driver_calls, excuses>>
  BY DEF interrupt, accept
<1>2. step \in open_steps /\ stopped \in {"no", "spin"}
  BY <1>1 DEF BootInv, InterruptsOnlyOpen
<1>3. step' = IF step = 16 THEN 17 ELSE IF step = 24 THEN 22 ELSE step
  <2>1. step \in 1 .. 24
    BY DEF BootInv, BootTypeOK
  <2>. QED BY <2>1, Labels, ConsoleStep DEF interrupt
<1>4. BootTypeOK'
  BY <1>1, <1>3 DEF BootInv, BootTypeOK, picVars, irqVars
<1>5. BootProgress' /\ LinesPaidFor'
  BY <1>1, <1>2, <1>3
     DEF BootInv, BootProgress, LinesPaidFor, open_steps, unhandled, picVars, irqVars
<1>6. InterruptsOnlyOpen' /\ ServiceMatchesCpu' /\ CheckEnded' /\ NoFalseStop'
  BY <1>1, <1>2, <1>3
     DEF BootInv, InterruptsOnlyOpen, ServiceMatchesCpu, CheckEnded, NoFalseStop, open_steps,
         picVars, irqVars
<1>. QED BY <1>4, <1>5, <1>6 DEF BootInv

(* What a step of the controllers must establish: it changes only the      *)
(* request and in-service registers, the vector and the CPU's state.       *)
LEMMA ControllerStep ==
  ASSUME BootInv, controller
  PROVE  BootInv'
<1>1. /\ cpu \in {"acknowledge", "acknowledge_slave"} /\ irr' \subseteq irr
      /\ UNCHANGED <<imr, remapped, apic, irqVars, interrupts, bootVars>>
  BY DEF controller, acknowledge, acknowledge_slave
<1>2. step \in open_steps /\ stopped \in {"no", "spin"} /\ ~interrupts
  BY <1>1 DEF BootInv, InterruptsOnlyOpen
<1>3. remapped
  BY <1>2 DEF BootInv, BootProgress, open_steps
<1>4. /\ cpu' \in {"acknowledge_slave", "dispatch"} /\ vector' \in Int
      /\ cpu' = "acknowledge_slave" => isr' = {2}
      /\ cpu' = "dispatch" => VectorInService'
  <2>1. CASE acknowledge
    <3>. DEFINE asked == {input(line) : line \in requests}
    <3>1. isr = {} /\ cpu = "acknowledge"
      BY <1>2, <2>1 DEF acknowledge, BootInv, ServiceMatchesCpu
    <3>2. base = 32
      BY <1>3 DEF base
    <3>3. CASE asked = {}
      <4>1. isr' = {} /\ vector' = 39 /\ cpu' = "dispatch"
        BY <2>1, <3>1, <3>2, <3>3 DEF acknowledge
      <4>. QED BY <4>1 DEF VectorInService
    <3>4. CASE asked # {}
      <4>1. Min(asked) \in 0 .. 7 /\ (Min(asked) # 2 => Min(asked) \notin imr)
        BY <3>1, <3>4, AskedInputs DEF BootInv
      <4>2. /\ isr' = {Min(asked)} /\ vector' = 32 + Min(asked)
            /\ cpu' = IF Min(asked) = 2 THEN "acknowledge_slave" ELSE "dispatch"
            /\ imr' = imr
        BY <2>1, <3>1, <3>2, <3>4 DEF acknowledge
      <4>. HIDE DEF asked
      <4>. QED BY <4>1, <4>2 DEF VectorInService
    <3>. QED BY <3>3, <3>4
  <2>2. CASE acknowledge_slave
    <3>. DEFINE asked == (irr \ imr) \cap Slave
    <3>1. isr = {2} /\ cpu' = "dispatch" /\ imr' = imr
      BY <1>2, <2>2 DEF acknowledge_slave, BootInv, ServiceMatchesCpu
    <3>2. base = 32
      BY <1>3 DEF base
    <3>3. CASE asked = {}
      <4>1. isr' = {2} /\ vector' = 47
        BY <2>2, <3>1, <3>2, <3>3 DEF acknowledge_slave
      <4>. QED BY <3>1, <4>1 DEF VectorInService
    <3>4. CASE asked # {}
      <4>1. asked \subseteq Nat
        BY DEF Slave
      <4>2. Min(asked) \in asked
        BY <3>4, <4>1, MinOfLines
      <4>3. Min(asked) \in 8 .. 15 /\ Min(asked) \notin imr
        BY <4>2 DEF Slave
      <4>4. isr' = {2, Min(asked)} /\ vector' = 32 + Min(asked)
        BY <2>2, <3>1, <3>2, <3>4 DEF acknowledge_slave
      <4>. HIDE DEF asked
      <4>5. vector' - 32 = Min(asked) /\ vector' \in Int
        BY <4>3, <4>4
      <4>. QED BY <3>1, <4>3, <4>4, <4>5 DEF VectorInService
    <3>. QED BY <3>3, <3>4
  <2>. QED BY <2>1, <2>2 DEF controller
<1>5. BootTypeOK'
  BY <1>1, <1>4 DEF BootInv, BootTypeOK, irqVars, bootVars
<1>6. BootProgress' /\ LinesPaidFor'
  BY <1>1 DEF BootInv, BootProgress, LinesPaidFor, unhandled, irqVars, bootVars
<1>7. InterruptsOnlyOpen' /\ ServiceMatchesCpu' /\ CheckEnded' /\ NoFalseStop'
  BY <1>1, <1>2, <1>4
     DEF BootInv, InterruptsOnlyOpen, ServiceMatchesCpu, CheckEnded, NoFalseStop, open_steps,
         irqVars, bootVars
<1>. QED BY <1>5, <1>6, <1>7 DEF BootInv

(* irq_dispatch: whatever arrived, nothing stays in service; a line nobody *)
(* handles is counted and masked; the timer's line counts a tick.          *)
LEMMA DispatchStep ==
  ASSUME BootInv, dispatch
  PROVE  BootInv'
<1>1. /\ cpu = "dispatch" /\ cpu' = "main" /\ interrupts' = TRUE
      /\ UNCHANGED <<irr, remapped, apic, initialized, timer_initialized, vector,
                     step, stopped, idt, receive_enabled, driver_calls>>
  BY DEF dispatch, irq_dispatch
<1>2. step \in open_steps /\ stopped \in {"no", "spin"}
  BY <1>1 DEF BootInv, InterruptsOnlyOpen
<1>3. VectorInService
  BY <1>1, <1>2 DEF BootInv, ServiceMatchesCpu
<1>4. /\ isr' = {}
      /\ \/ /\ UNCHANGED <<ticks, unexpected_irqs, imr>>
            /\ vector = 36 \/ excuses' # {}
         \/ ticks' = ticks + 1 /\ UNCHANGED <<unexpected_irqs, imr>>
         \/ /\ vector - 32 \in ((0 .. 15) \ {0, 2, 4}) \ imr
            /\ unexpected_irqs' = unexpected_irqs + 1
            /\ imr' = imr \cup {vector - 32}
            /\ UNCHANGED ticks
      /\ excuses \subseteq excuses'
  <2>1. excuses \subseteq excuses' /\ (spurious => excuses' # {})
    BY DEF dispatch
  <2>2. CASE spurious
    <3>1. end_spurious /\ UNCHANGED <<ticks, unexpected_irqs, imr>>
      BY <2>2 DEF dispatch, irq_dispatch
    <3>2. (vector = 39 /\ isr = {}) \/ (vector = 47 /\ isr = {2})
      <4>1. vector \in {39, 47} /\ vector - 32 \notin isr
        BY <2>2 DEF spurious
      <4>2. vector - 32 \in isr \/ (vector = 39 /\ isr = {}) \/ (vector = 47 /\ isr = {2})
        BY <1>3 DEF VectorInService
      <4>. QED BY <4>1, <4>2
    <3>3. isr' = {}
      BY <3>1, <3>2, EoiMaster DEF end_spurious
    <3>. QED BY <2>1, <2>2, <3>1, <3>3
  <2>3. CASE ~spurious
    <3>1. handle /\ isr' = eoi_master(IF vector >= 40 THEN eoi_slave(isr) ELSE isr)
      BY <2>3 DEF dispatch, irq_dispatch
    <3>2. \/ vector - 32 \in (0 .. 7) \ {2} /\ vector - 32 \notin imr /\ isr = {vector - 32}
          \/ vector - 32 \in 8 .. 15 /\ vector - 32 \notin imr /\ isr = {2, vector - 32}
      BY <1>3, <2>3 DEF VectorInService, spurious
    <3>3. vector \in Int
      BY DEF BootInv, BootTypeOK
    <3>4. isr' = {}
      <4>1. CASE vector - 32 \in 0 .. 7 /\ isr = {vector - 32}
        <5>1. ~(vector >= 40)
          BY <3>3, <4>1
        <5>. QED BY <3>1, <4>1, <5>1, EoiMaster
      <4>2. CASE vector - 32 \in 8 .. 15 /\ isr = {2, vector - 32}
        <5>1. vector >= 40
          BY <3>3, <4>2
        <5>. QED BY <3>1, <4>2, <5>1, EoiMaster
      <4>. QED BY <3>2, <4>1, <4>2
    <3>5. vector - 32 \in ((0 .. 15) \ {2}) \ imr
      BY <3>2
    <3>6. CASE vector = 32
      BY <2>1, <3>1, <3>4, <3>6 DEF handle
    <3>7. CASE vector = 36
      BY <2>1, <3>1, <3>4, <3>7 DEF handle
    <3>8. CASE vector # 32 /\ vector # 36
      <4>1. vector - 32 \in ((0 .. 15) \ {0, 2, 4}) \ imr
        BY <3>3, <3>5, <3>8
      <4>. QED BY <2>1, <3>1, <3>4, <3>8, <4>1 DEF handle
    <3>. QED BY <3>6, <3>7, <3>8
  <2>. QED BY <2>2, <2>3
<1>5. BootTypeOK'
  <2>1. imr \subseteq 0 .. 15 /\ ticks \in Nat /\ unexpected_irqs \in Nat
    BY DEF BootInv, BootTypeOK
  <2>2. imr' \subseteq 0 .. 15
    <3>1. imr' = imr \/ (vector - 32 \in 0 .. 15 /\ imr' = imr \cup {vector - 32})
      BY <1>4
    <3>. QED BY <2>1, <3>1
  <2>3. ticks' \in Nat /\ unexpected_irqs' \in Nat
    BY <1>4, <2>1
  <2>. QED BY <1>1, <2>2, <2>3 DEF BootInv, BootTypeOK
<1>6. LinesPaidFor'
  <2>1. Cardinality(unhandled) \in Nat /\ unexpected_irqs \in Nat /\ driver_calls \in Nat
    BY UnhandledFinite DEF BootInv, BootTypeOK
  <2>2. CASE UNCHANGED <<unexpected_irqs, imr>>
    BY <1>1, <2>2 DEF BootInv, LinesPaidFor, unhandled
  <2>3. CASE /\ vector - 32 \in ((0 .. 15) \ {0, 2, 4}) \ imr
             /\ unexpected_irqs' = unexpected_irqs + 1
             /\ imr' = imr \cup {vector - 32}
    <3>1. Cardinality(unhandled') = Cardinality(unhandled) - 1
      BY <2>3, MaskClosesOne DEF BootInv
    <3>. QED BY <1>1, <2>1, <2>3, <3>1 DEF BootInv, LinesPaidFor
  <2>. QED BY <1>4, <2>2, <2>3
<1>7. BootProgress'
  BY <1>1, <1>2, <1>4 DEF BootInv, BootTypeOK, BootProgress, open_steps
<1>8. CheckEnded'
  <2>1. CASE step = 17
    <3>1. imr = 1 .. 15
      BY <2>1 DEF BootInv, BootProgress
    <3>2. vector # 36
      BY <1>3, <3>1 DEF VectorInService
    <3>3. ~(vector - 32 \in ((0 .. 15) \ {0, 2, 4}) \ imr)
      BY <3>1
    <3>. QED BY <1>4, <3>2, <3>3 DEF CheckEnded, BootInv, BootTypeOK
  <2>. QED BY <1>1, <2>1 DEF CheckEnded
<1>9. InterruptsOnlyOpen' /\ ServiceMatchesCpu' /\ NoFalseStop'
  BY <1>1, <1>2, <1>4 DEF BootInv, InterruptsOnlyOpen, ServiceMatchesCpu, NoFalseStop, open_steps
<1>. QED BY <1>5, <1>6, <1>7, <1>8, <1>9 DEF BootInv

(* A fault, in a handler or outside, goes through an interrupt gate and    *)
(* finds a stack, and the machine stays as it is until it is halted.       *)
LEMMA FaultStep ==
  ASSUME BootInv, fault \/ exception_halt
  PROVE  BootInv'
<1>1. /\ stopped' \in {"exception", "halt"} /\ cpu' = "main" /\ ~interrupts'
      /\ UNCHANGED <<picVars, irqVars, vector, step, idt, receive_enabled, driver_calls, excuses>>
  BY DEF fault, exception, exception_halt, gate
<1>2. BootTypeOK' /\ BootProgress' /\ LinesPaidFor'
  BY <1>1 DEF BootInv, BootTypeOK, BootProgress, LinesPaidFor, unhandled, picVars, irqVars
<1>. QED
  BY <1>1, <1>2
     DEF BootInv, InterruptsOnlyOpen, ServiceMatchesCpu, CheckEnded, NoFalseStop, open_steps

-----------------------------------------------------------------------------
(* The invariant holds in every behaviour, whatever devices do and         *)
(* whichever part fails.                                                   *)
THEOREM BootInvariant == Spec => []BootInv
<1>1. Init => BootInv
  BY BootInitInv
<1>2. BootInv /\ [Next]_vars => BootInv'
  <2>. SUFFICES ASSUME BootInv, [Next]_vars PROVE BootInv'
    OBVIOUS
  <2>1. CASE kernel_main
    BY <2>1, ComponentStep, TablesStep, TimerInitStep, TimerCheckStep, TimerCheckedStep,
       SerialEnableStep, StiStep, ConsoleSteps DEF kernel_main
  <2>2. CASE console_stops
    BY <2>2, ConsoleSteps
  <2>3. CASE interrupt
    BY <2>3, InterruptStep
  <2>4. CASE handler
    BY <2>4, ControllerStep, DispatchStep, FaultStep DEF handler
  <2>5. CASE fault
    BY <2>5, FaultStep
  <2>6. CASE devices
    BY <2>6, DeviceStep
  <2>7. CASE \E irq \in Drivers : enable_driver(irq)
    BY <2>7, DriverStep
  <2>8. CASE stays_stopped \/ UNCHANGED vars
    BY <2>8, BootStutter DEF stays_stopped
  <2>. QED BY <2>1, <2>2, <2>3, <2>4, <2>5, <2>6, <2>7, <2>8 DEF Next
<1>. QED BY <1>1, <1>2, PTL DEF Spec

(* Interrupts are only taken with the kernel's IDT loaded, the controllers *)
(* remapped and the APIC out of the way, and never during an exception's   *)
(* report; no fault resets the machine.                                    *)
THEOREM BootEventsHandled == Spec => []EventsHandled
<1>1. BootInv => EventsHandled
  BY DEF BootInv, BootTypeOK, BootProgress, InterruptsOnlyOpen, EventsHandled, open_steps
<1>. QED BY <1>1, BootInvariant, PTL

(* Outside the handlers no line is in service, however requests are        *)
(* withdrawn while the controllers answer.                                 *)
THEOREM BootInterruptsEnded == Spec => []EveryInterruptEnded
<1>1. BootInv => EveryInterruptEnded
  BY DEF BootInv, ServiceMatchesCpu, EveryInterruptEnded
<1>. QED BY <1>1, BootInvariant, PTL

(* irq_dispatch counts an unexpected interrupt at most once for each call  *)
(* of irq_enable for its line.                                             *)
THEOREM BootUnexpectedBounded == Spec => []UnexpectedBounded
<1>1. BootInv => UnexpectedBounded
  BY UnhandledFinite DEF BootInv, BootTypeOK, BootProgress, LinesPaidFor, UnexpectedBounded
<1>. QED BY <1>1, BootInvariant, PTL

(* kernel_main gives up only when a part failed, on an x2APIC, or after a  *)
(* spurious interrupt in the timer check.                                  *)
THEOREM BootNoFalseStop == Spec => []NoFalseStop
<1>1. BootInv => NoFalseStop
  BY DEF BootInv
<1>. QED BY <1>1, BootInvariant, PTL
=============================================================================
