------------------------------ MODULE SerialRx ------------------------------
(***************************************************************************)
(* Interrupt-driven serial input: kernel/serial.c with the receive ring,   *)
(* the interrupt dispatcher of irq.c and the input loop of console.c, run  *)
(* against the UART and the interrupt controller.                          *)
(*                                                                         *)
(* Three actors interleave: the UART with the sender at the far end, the   *)
(* IRQ4 handler, and the main program.  Each access to a UART register is  *)
(* a step of its own.  Bytes are numbered in the order they are sent; what *)
(* they say is module Console's business.                                  *)
(***************************************************************************)
EXTENDS RxBuffer

CONSTANTS
  FIFO_DEPTH,  \* bytes the UART's receive FIFO holds
  POLL_LIMIT,  \* LSR reads before wait_status gives up
  MaxBytes,    \* bound: bytes the sender sends
  Faults       \* which of "overrun", "break" and "device" may happen

ASSUME SerialAssumption ==
  /\ FIFO_DEPTH \in Nat \ {0} /\ POLL_LIMIT \in Nat \ {0} /\ MaxBytes \in Nat
  /\ Faults \subseteq {"overrun", "break", "device"}
  /\ Byte = 0 .. MaxBytes

Garbled == 0  \* what the UART stores for a broken character

VARIABLES
  fifo, errors, ier, tx_busy,        \* UART: FIFO, LSR error bits, IER = 5, transmitting
  irr,                               \* PIC: request latched for IRQ4
  interrupts, sampled,               \* CPU: the IF flag; interrupt seen at the last boundary
  isr, iteration,                    \* serial_interrupt: next statement and loop index
  pc, polls, status_ready,           \* main program: next statement, wait_status locals
  receive_enabled,
  sent, delivered, last, told        \* history: see LossyStream

uartVars == <<fifo, errors, ier, tx_busy>>
isrVars == <<isr, iteration>>
localVars == <<polls, status_ready, receive_enabled>>
mainVars == <<pc, localVars>>
history == <<sent, delivered, last, told>>
elsewhere == <<rxVars, uartVars, isrVars, localVars, history>>
vars == <<rxVars, uartVars, irr, interrupts, sampled, isrVars, mainVars, history>>

SerialInit ==
  /\ data = [slot \in Slots |-> 0] /\ head = 0 /\ tail = 0 /\ failed = FALSE
  /\ result = <<"reset">>
  /\ fifo = <<>> /\ errors = {} /\ ier = FALSE /\ tx_busy = FALSE
  /\ irr = FALSE /\ interrupts = FALSE /\ sampled = FALSE
  /\ isr = "none" /\ iteration = 0
  /\ pc = "output" /\ polls = 0 /\ status_ready = FALSE /\ receive_enabled = FALSE
  /\ sent = 0 /\ delivered = 0 /\ last = 0 /\ told = FALSE

-----------------------------------------------------------------------------
(* The UART's interrupt output, and the PIC's edge-triggered input: a      *)
(* request is latched when the line rises and dropped when the CPU takes   *)
(* the interrupt (irq_init programs ICW1 = 0x11).                          *)
line == ier /\ (errors # {} \/ fifo # <<>>)

taken == isr = "none" /\ isr' # "none"

pic_latch == irr' = ((irr /\ ~taken) \/ (~line /\ line'))

(* A CPU step ends at an instruction boundary, where a pending interrupt   *)
(* is seen: the main program then executes nothing before the handler.  A  *)
(* request that rises later waits for the instruction under way.           *)
cpu_step == pic_latch /\ sampled' = (irr' /\ interrupts')
uart_step == pic_latch /\ UNCHANGED sampled

-----------------------------------------------------------------------------
(* The sender and the UART.                                                *)

Receives(byte) ==
  IF Len(fifo) < FIFO_DEPTH
  THEN fifo' = Append(fifo, byte) /\ UNCHANGED errors
  ELSE "overrun" \in Faults /\ errors' = errors \cup {"overrun"} /\ UNCHANGED fifo

receive_good ==
  /\ sent < MaxBytes
  /\ sent' = sent + 1
  /\ Receives(sent + 1)
  /\ UNCHANGED <<rxVars, ier, tx_busy, interrupts, isrVars, mainVars, delivered, last, told>>
  /\ uart_step

(* A break: the next byte arrives as a character with an error bit.        *)
receive_break ==
  /\ "break" \in Faults
  /\ sent < MaxBytes /\ Len(fifo) < FIFO_DEPTH
  /\ sent' = sent + 1
  /\ fifo' = Append(fifo, Garbled) /\ errors' = errors \cup {"break"}
  /\ UNCHANGED <<rxVars, ier, tx_busy, interrupts, isrVars, mainVars, delivered, last, told>>
  /\ uart_step

transmitted ==
  /\ tx_busy /\ tx_busy' = FALSE
  /\ UNCHANGED <<rxVars, fifo, errors, ier, interrupts, isrVars, mainVars, history>>
  /\ uart_step

(* Reading LSR reports and clears the errors; resetting the FIFO through   *)
(* FCR drops its bytes and their errors, but not an overrun.               *)
read_lsr == errors' = {}
fcr_reset == fifo' = <<>> /\ errors' = errors \ {"break"}

-----------------------------------------------------------------------------
(* The IRQ4 handler.  It runs with interrupts disabled.                    *)

take_irq4 ==
  /\ irr /\ interrupts /\ isr = "none"
  /\ isr' = "iir" /\ iteration' = 0
  /\ interrupts' = FALSE
  /\ pc' = IF pc = "idle" THEN "cli" ELSE pc
  /\ UNCHANGED <<rxVars, uartVars, localVars, history>>
  /\ cpu_step

(* Faulty variants of the loop bound: one round too many, one too few.     *)
next_iteration_late(i) == IF i > RX_CAPACITY THEN "bound" ELSE "iir"
next_iteration_early(i) == IF i = RX_CAPACITY - 1 THEN "bound" ELSE "iir"

(* The loop of serial_interrupt: read the cause, or stop at the bound.     *)
next_iteration(i) == IF i = RX_CAPACITY THEN "bound" ELSE "iir"

read_iir ==
  /\ isr = "iir"
  /\ isr' = IF line THEN "lsr" ELSE "eoi"
  /\ UNCHANGED <<rxVars, uartVars, interrupts, iteration, mainVars, history>>
  /\ cpu_step

(* A cause that was never enabled: switch the UART's interrupts off.       *)
unconfigured_cause ==
  /\ isr = "iir" /\ "device" \in Faults
  /\ ier' = FALSE
  /\ rx_fail
  /\ isr' = "eoi"
  /\ UNCHANGED <<fifo, errors, tx_busy, interrupts, iteration, mainVars, history>>
  /\ cpu_step

(* receive_byte up to its early return.                                    *)
receive_status ==
  /\ isr = "lsr"
  /\ read_lsr
  /\ IF errors # {} THEN rx_fail ELSE UNCHANGED rxVars
  /\ IF fifo # <<>>
     THEN isr' = "rbr" /\ UNCHANGED iteration
     ELSE isr' = next_iteration(iteration + 1) /\ iteration' = iteration + 1
  /\ UNCHANGED <<fifo, ier, tx_busy, interrupts, mainVars, history>>
  /\ cpu_step

receive_data ==
  /\ isr = "rbr"
  /\ fifo' = Tail(fifo)
  /\ rx_push(Head(fifo))
  /\ isr' = next_iteration(iteration + 1) /\ iteration' = iteration + 1
  /\ UNCHANGED <<errors, ier, tx_busy, interrupts, mainVars, history>>
  /\ cpu_step

(* Faulty variant: the bytes left in the UART are not dropped.             *)
loop_bound_keeps_fifo ==
  /\ isr = "bound"
  /\ rx_fail
  /\ isr' = "eoi"
  /\ UNCHANGED <<uartVars, interrupts, iteration, mainVars, history>>
  /\ cpu_step

loop_bound ==
  /\ isr = "bound"
  /\ rx_fail
  /\ fcr_reset
  /\ isr' = "eoi"
  /\ UNCHANGED <<ier, tx_busy, interrupts, iteration, mainVars, history>>
  /\ cpu_step

(* irq_dispatch ends the interrupt and iretq restores IF.                  *)
return_from_irq ==
  /\ isr = "eoi"
  /\ isr' = "none" /\ iteration' = 0
  /\ interrupts' = TRUE
  /\ UNCHANGED <<rxVars, uartVars, mainVars, history>>
  /\ cpu_step

isr_step ==
  \/ read_iir \/ unconfigured_cause \/ receive_status \/ receive_data
  \/ loop_bound \/ return_from_irq

-----------------------------------------------------------------------------
(* The main program: it runs while no handler does or is about to.         *)

at(label) == pc = label /\ isr = "none" /\ ~sampled

(* One pass of the polling loop of wait_status ends.                       *)
polled(ready) ==
  IF ready
  THEN pc' = "output" /\ polls' = 0 /\ tx_busy' \in BOOLEAN  \* put_byte sends, flush does not
  ELSE /\ pc' = IF polls + 1 = POLL_LIMIT THEN "spin" ELSE "poll"
       /\ polls' = polls + 1
       /\ UNCHANGED tx_busy

output_byte ==
  /\ at("output")
  /\ pc' = "poll" /\ polls' = 0
  /\ UNCHANGED <<rxVars, uartVars, interrupts, isrVars, status_ready, receive_enabled, history>>
  /\ cpu_step

(* Faulty variant: errors are cleared and forgotten.                       *)
wait_status_forgets ==
  /\ at("poll")
  /\ read_lsr
  /\ polled(~tx_busy)
  /\ UNCHANGED <<rxVars, fifo, ier, interrupts, isrVars, status_ready, receive_enabled, history>>
  /\ cpu_step

(* LSR is read for the transmitter's sake; errors seen on the way count.   *)
wait_status ==
  /\ at("poll")
  /\ read_lsr
  /\ IF receive_enabled /\ errors # {}
     THEN pc' = "error" /\ status_ready' = ~tx_busy /\ UNCHANGED <<polls, tx_busy>>
     ELSE polled(~tx_busy) /\ UNCHANGED status_ready
  /\ UNCHANGED <<rxVars, fifo, ier, interrupts, isrVars, receive_enabled, history>>
  /\ cpu_step

(* receive_error disables interrupts around rx_fail.                       *)
receive_error ==
  /\ at("error")
  /\ rx_fail
  /\ polled(status_ready)
  /\ status_ready' = FALSE
  /\ UNCHANGED <<fifo, errors, ier, interrupts, isrVars, receive_enabled, history>>
  /\ cpu_step

(* The output of this boot stage, or of this input byte, is complete.      *)
output_done ==
  /\ at("output")
  /\ pc' = IF ~receive_enabled THEN "enable" ELSE IF ~interrupts THEN "sti" ELSE "cli"
  /\ UNCHANGED <<elsewhere, interrupts>>
  /\ cpu_step

(* The console's halt command.                                             *)
halt ==
  /\ at("output") /\ interrupts
  /\ pc' = "halted" /\ interrupts' = FALSE
  /\ UNCHANGED elsewhere
  /\ cpu_step

(* serial_enable_receive up to its last register write.                    *)
serial_enable_receive ==
  /\ at("enable")
  /\ rx_reset
  /\ fcr_reset
  /\ receive_enabled' = TRUE
  /\ pc' = "ier"
  /\ last' = sent
  /\ UNCHANGED <<ier, tx_busy, interrupts, isrVars, polls, status_ready, sent, delivered, told>>
  /\ cpu_step

write_ier ==
  /\ at("ier")
  /\ ier' = TRUE
  /\ pc' = "output"
  /\ UNCHANGED <<rxVars, fifo, errors, tx_busy, interrupts, isrVars, localVars, history>>
  /\ cpu_step

(* Faulty variant: the ring is read with interrupts enabled.               *)
x86_disable_interrupts_missing ==
  /\ at("cli")
  /\ pc' = "read"
  /\ UNCHANGED <<elsewhere, interrupts>>
  /\ cpu_step

x86_disable_interrupts ==
  /\ at("cli")
  /\ interrupts' = FALSE
  /\ pc' = "read"
  /\ UNCHANGED elsewhere
  /\ cpu_step

(* serial_read, and what the reader learns from it.                        *)
serial_read ==
  /\ at("read")
  /\ rx_read
  /\ pc' = IF result' = <<"read", 0>> THEN "sti_hlt" ELSE "sti"
  /\ IF result'[2] = 1
     THEN delivered' = delivered + 1 /\ last' = result'[3] /\ told' = FALSE
     ELSE told' = (told \/ result'[2] = -1) /\ UNCHANGED <<delivered, last>>
  /\ UNCHANGED <<uartVars, interrupts, isrVars, localVars, sent>>
  /\ cpu_step

(* A byte read may cause output; a loss only marks the line (console_run). *)
x86_enable_interrupts ==
  /\ at("sti")
  /\ interrupts' = TRUE
  /\ pc' = IF result = <<"read", -1>> THEN "cli" ELSE "output"
  /\ UNCHANGED elsewhere
  /\ cpu_step

(* sti; hlt: no interrupt is taken between the two instructions.           *)
x86_enable_and_idle ==
  /\ at("sti_hlt")
  /\ interrupts' = TRUE
  /\ pc' = "idle"
  /\ UNCHANGED elsewhere
  /\ cpu_step

(* The timer interrupt; elsewhere it has no effect on serial input.        *)
timer_wakeup ==
  /\ at("idle")
  /\ pc' = "cli"
  /\ UNCHANGED <<elsewhere, interrupts>>
  /\ cpu_step

(* The program has stopped: PAUSE loop, or HLT with interrupts disabled.   *)
stop == (at("spin") \/ at("halted")) /\ UNCHANGED vars

main_step ==
  \/ output_byte \/ wait_status \/ receive_error \/ output_done
  \/ serial_enable_receive \/ write_ier
  \/ x86_disable_interrupts \/ serial_read \/ x86_enable_interrupts \/ x86_enable_and_idle

Next ==
  \/ receive_good \/ receive_break \/ transmitted
  \/ take_irq4 \/ isr_step
  \/ main_step \/ halt \/ timer_wakeup \/ stop

Spec == SerialInit /\ [][Next]_vars

(* The CPU executes instructions and takes a pending interrupt at some     *)
(* instruction with IF set; the transmitter finishes; every text the       *)
(* program prints has an end.                                              *)
Fairness ==
  /\ WF_vars(isr_step) /\ WF_vars(main_step)
  /\ SF_vars(take_irq4)
  /\ WF_vars(transmitted)
  /\ SF_vars(output_done)

FairSpec == Spec /\ Fairness

-----------------------------------------------------------------------------
(* Every variable has its type: the handler's FIFO read never finds it     *)
(* empty and neither loop exceeds its bound.                               *)
SerialTypeOK ==
  /\ RxTypeOK
  /\ fifo \in Seq(Byte) /\ Len(fifo) <= FIFO_DEPTH
  /\ errors \subseteq {"overrun", "break"}
  /\ {ier, tx_busy, irr, interrupts, sampled, status_ready, receive_enabled, told} \subseteq BOOLEAN
  /\ isr \in {"none", "iir", "lsr", "rbr", "bound", "eoi"}
  /\ iteration \in 0 .. RX_CAPACITY
  /\ pc \in {"output", "poll", "error", "spin", "enable", "ier", "cli", "read",
             "sti", "sti_hlt", "idle", "halted"}
  /\ polls \in 0 .. POLL_LIMIT
  /\ sent \in 0 .. MaxBytes /\ last \in 0 .. MaxBytes /\ delivered \in Nat

Stream == INSTANCE LossyStream WITH enabled <- receive_enabled

(* The console never gets bytes out of order, twice or garbled, and never  *)
(* misses one without a -1 from serial_read in between, whatever overruns, *)
(* breaks and full buffers happen between the two status register readers  *)
(* (wait_status and receive_byte) and the two users of the ring.           *)
StreamContract == Stream!StreamSpec

(* The CPU never sleeps on input it could read: no interrupt can enqueue   *)
(* data between the empty check and sti; hlt (console.c).                  *)
NoSleepWithInput == pc = "idle" => head = tail /\ ~failed

(* When serial_interrupt gives up after RX_CAPACITY rounds the ring has    *)
(* failed already: the bound discards no byte a reader could have had.     *)
BoundMeansLoss == isr = "bound" => failed

(* While the UART asks for service and no handler runs, the request is     *)
(* latched: the edge-triggered PIC misses none between the handler's last  *)
(* look at the cause and its return, nor when wait_status clears errors.   *)
LineServed == line /\ isr = "none" => irr

Stopped == pc \in {"spin", "halted"}

(* Unless the program stops, everything received is read or reported: UART *)
(* and ring are empty again and again.                                     *)
InputConsumed ==
  fifo # <<>> \/ head # tail \/ failed
    ~> Stopped \/ (fifo = <<>> /\ head = tail /\ ~failed)

(* Input goes on after a loss: bytes that wait in the UART are fetched,    *)
(* unless the program has stopped or switched the UART's interrupts off    *)
(* (README: after a loss one more Enter or Ctrl-C recovers).               *)
InputRecovers == fifo # <<>> ~> fifo = <<>> \/ Stopped \/ ~ier
=============================================================================
