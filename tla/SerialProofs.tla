---------------------------- MODULE SerialProofs ----------------------------
(***************************************************************************)
(* Serial input delivers a stream: proofs about module SerialRx, for every *)
(* ring, FIFO and polling bound, every number of bytes and every fault.    *)
(***************************************************************************)
EXTENDS SerialRx, RxProofs

-----------------------------------------------------------------------------
(* The inductive invariant: who may run, and what each statement finds.    *)

Looping == {"iir", "lsr", "rbr"}

(* The handler runs with interrupts disabled, and never while the main     *)
(* program is between its check of the ring and sti.                       *)
Exclusion ==
  /\ isr # "none" => ~interrupts /\ receive_enabled
  /\ sampled => irr /\ interrupts /\ isr = "none"
  /\ pc \in {"read", "sti", "sti_hlt", "ier", "enable"} => ~interrupts /\ isr = "none"
  /\ pc = "idle" => isr = "none"
  /\ pc \in {"sti_hlt", "idle"} => head = tail /\ ~failed
  /\ pc = "enable" => ~receive_enabled

(* Reception is off until serial_enable_receive, and nobody has read.      *)
BeforeEnable ==
  ~receive_enabled =>
    /\ ~interrupts /\ ~ier /\ pc \in {"output", "poll", "spin", "enable"}
    /\ last = 0 /\ ~told

(* The handler's loop: a cause it saw stays, and every round stores a byte *)
(* or finds the ring failed.                                               *)
Rounds ==
  /\ isr \in Looping => iteration < RX_CAPACITY
  /\ isr = "bound" => iteration = RX_CAPACITY
  /\ isr \in {"lsr", "rbr"} => ier
  /\ isr = "lsr" => errors # {} \/ fifo # <<>>
  /\ isr = "rbr" => fifo # <<>>
  /\ isr \in Looping \cup {"bound"} => failed \/ count >= iteration
  /\ pc \in {"poll", "error"} => polls < POLL_LIMIT

MachineInv == SerialTypeOK /\ FailedIsEmpty /\ Exclusion /\ BeforeEnable /\ Rounds

-----------------------------------------------------------------------------
(* The stream.  The bytes after number b, in order.                        *)
Consecutive(bytes, b) == \A i \in 1 .. Len(bytes) : bytes[i] = b + i

(* The ring will be emptied before anybody reads it.                       *)
Condemned == failed \/ pc = "error"

(* The reader may be given the bytes after number b.                       *)
MayFollow(b) == last <= b /\ (b = last \/ told)

(* The FIFO holds the last bytes sent.                                     *)
FifoClean == last <= sent - Len(fifo) /\ Consecutive(fifo, sent - Len(fifo))

(* No handler will fetch another byte from the FIFO: the UART's interrupts *)
(* were switched off, or its line is high without a request.               *)
Blocked ==
  \/ ~ier /\ pc # "ier"
  \/ ier /\ fifo # <<>> /\ ~irr /\ isr = "none"

(* A handler empties the FIFO before the ring is read.                     *)
Draining ==
  /\ Condemned
  /\ \/ isr \in Looping \cup {"bound"}
     \/ /\ isr = "none" /\ irr
        /\ sampled \/ (~interrupts /\ pc \in {"output", "poll", "error", "sti", "spin"})

(* What is in the ring can be read, and so can what is in the FIFO, unless *)
(* a loss will be reported or nothing will be fetched.                     *)
RingDeliverable ==
  Condemned \/ \E b \in Nat : MayFollow(b) /\ b + count <= sent /\ Consecutive(contents, b)

FifoDeliverable == FifoClean \/ errors # {} \/ Blocked \/ Draining

Linked ==
  \/ Condemned \/ errors # {} \/ Blocked
  \/ LET b == sent - Len(fifo) - count
     IN  FifoClean /\ MayFollow(b) /\ Consecutive(contents, b)

(* The byte the handler is about to store follows the ring.                *)
HeadFollows ==
  isr = "rbr" =>
    Condemned \/ \E b \in Nat : /\ MayFollow(b) /\ b + count + 1 <= sent /\ Consecutive(contents, b)
                                /\ Head(fifo) = b + count + 1

StreamInv ==
  /\ last <= sent
  /\ receive_enabled => RingDeliverable /\ FifoDeliverable /\ Linked /\ HeadFollows

(* Without overruns every request of the UART is latched.                  *)
RequestLatched ==
  "overrun" \notin Faults =>
    /\ "overrun" \notin errors
    /\ line /\ isr \in {"none", "eoi"} => irr

-----------------------------------------------------------------------------
(* What SerialTypeOK says of the variables that are no flags and not in    *)
(* the ring, and of the flags.                                             *)
Shapes ==
  /\ fifo \in Seq(Byte) /\ Len(fifo) <= FIFO_DEPTH
  /\ errors \subseteq {"overrun", "break"}
  /\ isr \in {"none", "iir", "lsr", "rbr", "bound", "eoi"}
  /\ iteration \in 0 .. RX_CAPACITY
  /\ pc \in {"output", "poll", "error", "spin", "enable", "ier", "cli", "read",
             "sti", "sti_hlt", "idle", "halted"}
  /\ polls \in 0 .. POLL_LIMIT
  /\ sent \in 0 .. MaxBytes /\ last \in 0 .. MaxBytes /\ delivered \in Nat

Flags ==
  /\ ier \in BOOLEAN /\ tx_busy \in BOOLEAN /\ irr \in BOOLEAN /\ interrupts \in BOOLEAN
  /\ sampled \in BOOLEAN /\ status_ready \in BOOLEAN /\ receive_enabled \in BOOLEAN
  /\ told \in BOOLEAN

(* The type invariant in parts each prover can handle.                     *)
LEMMA TypeParts == SerialTypeOK <=> RxTypeOK /\ Shapes /\ Flags
<1>1. {ier, tx_busy, irr, interrupts, sampled, status_ready, receive_enabled, told} \subseteq BOOLEAN
        <=> Flags
  BY Zenon DEF Flags
<1>. QED BY <1>1, Zenon DEF SerialTypeOK, Shapes

(* The constants.                                                          *)
LEMMA Bounds ==
  /\ FIFO_DEPTH \in Nat \ {0} /\ POLL_LIMIT \in Nat \ {0} /\ MaxBytes \in Nat
  /\ RX_CAPACITY \in Nat \ {0} /\ Byte = 0 .. MaxBytes
BY SerialAssumption, RxAssumption

(* The request latched by the PIC, and the CPU's view of it.               *)
LEMMA LatchValue ==
  ASSUME pic_latch
  PROVE  irr' <=> ((irr /\ ~taken) \/ (~line /\ line'))
BY Zenon DEF pic_latch

(* A CPU step samples the request it leaves behind.                        *)
LEMMA SampledValue ==
  ASSUME cpu_step
  PROVE  pic_latch /\ (sampled' <=> (irr' /\ interrupts'))
BY Zenon DEF cpu_step

(* The flags stay Boolean.                                                 *)
LEMMA FlagsStep ==
  ASSUME Flags, Next
  PROVE  Flags'
<1>1. ASSUME pic_latch PROVE irr' \in BOOLEAN
  BY <1>1, Zenon DEF pic_latch
<1>2. ASSUME cpu_step PROVE irr' \in BOOLEAN /\ sampled' \in BOOLEAN
  BY <1>1, <1>2, Zenon DEF cpu_step
<1>3. ASSUME uart_step PROVE irr' \in BOOLEAN /\ sampled' \in BOOLEAN
  BY <1>1, <1>3, Zenon DEF uart_step, Flags
<1>. USE DEF rxVars, uartVars, isrVars, localVars, mainVars, history, elsewhere, Flags
<1>4. CASE receive_good
  BY <1>3, <1>4, Zenon DEF receive_good
<1>5. CASE receive_break
  BY <1>3, <1>5, Zenon DEF receive_break
<1>6. CASE transmitted
  BY <1>3, <1>6, Zenon DEF transmitted
<1>7. CASE take_irq4
  BY <1>2, <1>7, Zenon DEF take_irq4
<1>8. CASE isr_step
  BY <1>2, <1>8, Zenon DEF isr_step, read_iir, unconfigured_cause, receive_status, receive_data,
     loop_bound, return_from_irq
<1>9. ASSUME NEW ready, polled(ready) PROVE tx_busy' \in BOOLEAN
  BY <1>9, Zenon DEF polled
<1>10. CASE main_step
  BY <1>2, <1>9, <1>10, Zenon DEF main_step, output_byte, wait_status, receive_error, output_done,
     serial_enable_receive, write_ier, x86_disable_interrupts, serial_read,
     x86_enable_interrupts, x86_enable_and_idle
<1>11. CASE halt
  BY <1>2, <1>11, Zenon DEF halt
<1>12. CASE timer_wakeup
  BY <1>2, <1>12, Zenon DEF timer_wakeup
<1>13. CASE stop
  BY <1>13, Zenon DEF stop, vars
<1>. QED BY <1>4, <1>5, <1>6, <1>7, <1>8, <1>10, <1>11, <1>12, <1>13 DEF Next

-----------------------------------------------------------------------------
(* The ring in the machine: every step calls it at most once.              *)

(* A step of the machine is a call of the ring, or leaves it alone.        *)
LEMMA RingStep ==
  ASSUME MachineInv, [Next]_vars
  PROVE  [RxNext]_rxVars
<1>. USE DEF elsewhere
<1>1. ASSUME isr = "rbr" PROVE Head(fifo) \in Byte
  BY <1>1 DEF MachineInv, SerialTypeOK, Rounds
<1>2. CASE receive_data
  BY <1>1, <1>2, Zenon DEF receive_data, RxNext
<1>3. CASE isr_step /\ ~receive_data
  BY <1>3, Zenon DEF isr_step, read_iir, unconfigured_cause, receive_status, loop_bound,
     return_from_irq, RxNext
<1>4. CASE main_step
  BY <1>4, Zenon DEF main_step, output_byte, wait_status, receive_error, output_done,
     serial_enable_receive, write_ier, x86_disable_interrupts, serial_read,
     x86_enable_interrupts, x86_enable_and_idle, RxNext
<1>5. CASE receive_good \/ receive_break \/ transmitted \/ take_irq4 \/ halt \/ timer_wakeup
  BY <1>5, Zenon DEF receive_good, receive_break, transmitted, take_irq4, halt, timer_wakeup
<1>6. CASE stop \/ UNCHANGED vars
  BY <1>6, Zenon DEF stop, vars
<1>. QED BY <1>2, <1>3, <1>4, <1>5, <1>6 DEF Next

(* So the invariant of the ring holds in the machine.                      *)
LEMMA RingInv ==
  ASSUME MachineInv, [Next]_vars
  PROVE  RxTypeOK' /\ FailedIsEmpty'
BY RingStep, RxStepInv DEF MachineInv, SerialTypeOK, RxInv

(* What a call does to the number of bytes in the ring and to the bytes.   *)
LEMMA SameRing ==
  ASSUME UNCHANGED rxVars
  PROVE  count' = count /\ contents' = contents
BY DEF rxVars, count, contents, slot_at

(* rx_fail and rx_reset leave nothing.                                     *)
LEMMA EmptiedRing ==
  ASSUME RxTypeOK', emptied(TRUE) \/ emptied(FALSE)
  PROVE  count' = 0 /\ contents' = <<>>
<1>1. head' = 0 /\ tail' = 0
  BY DEF emptied
<1>2. count' = 0
  BY <1>1 DEF count
<1>. QED BY <1>1, <1>2, EmptyContentsNext

(* A push leaves the ring failed, or stores the byte in it.                *)
LEMMA PushOutcome ==
  ASSUME NEW byte, rx_push(byte)
  PROVE  failed' \/ (~failed /\ after(head) # tail /\ store(byte) /\ failed' = failed)
<1>1. failed /\ failed' = failed => failed'
  OBVIOUS
<1>2. emptied(TRUE) => failed'
  BY DEF emptied
<1>3. store(byte) => failed' = failed
  BY DEF store
<1>. QED BY <1>1, <1>2, <1>3, Zenon DEF rx_push

(* A stored byte is the last one in the ring.                              *)
LEMMA StoredRing ==
  ASSUME RxTypeOK, RxTypeOK', NEW byte \in Byte, store(byte), after(head) # tail
  PROVE  count' = count + 1 /\ contents' = Append(contents, byte)
<1>1. contents' = Append(contents, byte)
  BY StoreAppends
<1>2. Len(contents') = count' /\ contents \in Seq(Byte) /\ Len(contents) = count
  BY ContentsType, ContentsTypeNext DEF ContentsShape
<1>. HIDE DEF contents, count
<1>. QED BY <1>1, <1>2

(* A byte read was the first one in the ring.                              *)
LEMMA ReadRing ==
  ASSUME RxTypeOK, RxTypeOK', read_byte
  PROVE  /\ count \in Nat \ {0} /\ count' = count - 1
         /\ data[tail] = contents[1] /\ contents' = Tail(contents)
<1>1. contents # <<>> /\ data[tail] = Head(contents) /\ contents' = Tail(contents)
  BY ReadTakesHead
<1>2. Len(contents') = count' /\ contents \in Seq(Byte) /\ Len(contents) = count
  BY ContentsType, ContentsTypeNext DEF ContentsShape
<1>. HIDE DEF contents, count
<1>. QED BY <1>1, <1>2

-----------------------------------------------------------------------------
(* The machine's part of the invariant, one lemma per actor.               *)

(* At boot.                                                                *)
LEMMA MachineInitInv == SerialInit => MachineInv
<1>. SUFFICES ASSUME SerialInit PROVE MachineInv
  OBVIOUS
<1>1. RxInit
  BY Bounds DEF SerialInit, RxInit
<1>2. RxTypeOK /\ FailedIsEmpty
  BY <1>1, RxInitInv DEF RxInv
<1>3. Shapes
  BY Bounds DEF SerialInit, Shapes
<1>4. Flags
  BY DEF SerialInit, Flags
<1>5. Exclusion /\ BeforeEnable /\ Rounds
  BY Bounds DEF SerialInit, Exclusion, BeforeEnable, Rounds, Looping
<1>. QED BY <1>2, <1>3, <1>4, <1>5, TypeParts DEF MachineInv

(* What is left to show of a step: the ring and the flags are done.        *)
Left == Shapes /\ Exclusion /\ BeforeEnable /\ Rounds

(* The parts of the invariant the step lemmas use.                         *)
LEMMA Known ==
  ASSUME MachineInv
  PROVE  Left /\ count \in 0 .. RX_CAPACITY - 1
<1>1. SerialTypeOK /\ RxTypeOK /\ Shapes
  BY TypeParts DEF MachineInv
<1>. QED BY <1>1, CountType DEF MachineInv, Left

(* The sender and the transmitter.                                         *)
LEMMA UartStep ==
  ASSUME MachineInv, receive_good \/ receive_break \/ transmitted
  PROVE  Left'
<1>. USE DEF rxVars, uartVars, isrVars, localVars, mainVars, history
<1>1. /\ UNCHANGED <<rxVars, ier, interrupts, isrVars, mainVars, delivered, last, told>>
      /\ pic_latch /\ sampled' = sampled
  BY Zenon DEF receive_good, receive_break, transmitted, uart_step
<1>2. irr => irr'
  BY <1>1, LatchValue DEF taken
<1>3. Left /\ count' = count
  BY <1>1, Known, SameRing
<1>4. /\ fifo' \in Seq(Byte) /\ Len(fifo') <= FIFO_DEPTH
      /\ errors' \subseteq {"overrun", "break"} /\ sent' \in 0 .. MaxBytes
      /\ (fifo # <<>> => fifo' # <<>>) /\ (errors # {} => errors' # {})
  <2>1. ASSUME NEW byte \in Byte, Len(fifo) < FIFO_DEPTH, fifo' = Append(fifo, byte)
        PROVE  fifo' \in Seq(Byte) /\ Len(fifo') <= FIFO_DEPTH /\ fifo' # <<>>
    BY <2>1, <1>3, Bounds DEF Left, Shapes
  <2>2. CASE receive_good
    <3>1. sent + 1 \in Byte /\ sent' \in 0 .. MaxBytes
      BY <2>2, <1>3, Bounds DEF receive_good, Left, Shapes
    <3>. QED BY <2>1, <2>2, <3>1, <1>3 DEF receive_good, Receives, Left, Shapes
  <2>3. CASE receive_break
    <3>1. Garbled \in Byte /\ sent' \in 0 .. MaxBytes
      BY <2>3, <1>3, Bounds DEF receive_break, Left, Shapes, Garbled
    <3>. QED BY <2>1, <2>3, <3>1, <1>3 DEF receive_break, Left, Shapes
  <2>4. CASE transmitted
    BY <2>4, <1>3 DEF transmitted, Left, Shapes
  <2>. QED BY <2>2, <2>3, <2>4
<1>5. Shapes'
  BY <1>1, <1>3, <1>4 DEF Left, Shapes
<1>6. Exclusion' /\ BeforeEnable'
  BY <1>1, <1>2, <1>3 DEF Left, Exclusion, BeforeEnable
<1>7. Rounds'
  <2>. HIDE DEF count
  <2>. QED BY <1>1, <1>3, <1>4 DEF Left, Rounds, Looping
<1>. QED BY <1>5, <1>6, <1>7 DEF Left

(* The CPU takes the interrupt.                                            *)
LEMMA TakeStep ==
  ASSUME MachineInv, take_irq4
  PROVE  Left'
<1>. USE DEF rxVars, uartVars, isrVars, localVars, mainVars, history
<1>1. Left /\ count' = count /\ count \in 0 .. RX_CAPACITY - 1
  BY Known, SameRing DEF take_irq4
<1>2. Shapes'
  BY <1>1, Bounds DEF take_irq4, Left, Shapes
<1>3. ~sampled'
  BY SampledValue DEF take_irq4
<1>4. Exclusion' /\ BeforeEnable'
  BY <1>1, <1>3 DEF take_irq4, Left, Exclusion, BeforeEnable
<1>5. Rounds'
  <2>. HIDE DEF count
  <2>. QED BY <1>1, Bounds DEF take_irq4, Left, Rounds, Looping
<1>. QED BY <1>2, <1>4, <1>5 DEF Left

(* serial_interrupt, statement by statement.                               *)
LEMMA HandlerStep ==
  ASSUME MachineInv, isr_step
  PROVE  Left'
<1>. USE DEF rxVars, uartVars, isrVars, localVars, mainVars, history
<1>1. Left /\ count \in 0 .. RX_CAPACITY - 1 /\ RxTypeOK /\ RxTypeOK'
  BY Known, RingInv DEF Next, MachineInv, SerialTypeOK
<1>2. cpu_step /\ UNCHANGED <<mainVars, history>> /\ isr # "none"
  BY Zenon DEF isr_step, read_iir, unconfigured_cause, receive_status, receive_data,
     loop_bound, return_from_irq
<1>3. ~interrupts /\ receive_enabled /\ pc \notin {"read", "sti", "sti_hlt", "ier", "enable", "idle"}
  BY <1>1, <1>2 DEF Left, Exclusion
<1>4. BeforeEnable'
  BY <1>2, <1>3 DEF BeforeEnable
<1>5. sampled' => irr' /\ interrupts'
  BY <1>2, SampledValue
<1>6. interrupts' => isr' = "none"
  BY <1>3 DEF isr_step, read_iir, unconfigured_cause, receive_status, receive_data,
     loop_bound, return_from_irq
<1>7. Exclusion'
  BY <1>2, <1>3, <1>5, <1>6 DEF Exclusion
<1>8. ASSUME iteration < RX_CAPACITY, isr' = next_iteration(iteration + 1), iteration' = iteration + 1
      PROVE  /\ iteration' \in 0 .. RX_CAPACITY /\ isr' \in {"iir", "bound"}
             /\ isr' \in Looping => iteration' < RX_CAPACITY
             /\ isr' = "bound" => iteration' = RX_CAPACITY
  BY <1>1, <1>8, Bounds DEF Left, Shapes, next_iteration, Looping
<1>9. CASE read_iir
  <2>1. Shapes'
    BY <1>9, <1>1 DEF read_iir, Left, Shapes
  <2>2. Rounds'
    <3>1. count' = count
      BY <1>9, SameRing DEF read_iir
    <3>. HIDE DEF count
    <3>. QED BY <3>1, <1>9, <1>1 DEF read_iir, Left, Rounds, Looping, line
  <2>. QED BY <2>1, <2>2, <1>4, <1>7 DEF Left
<1>10. CASE unconfigured_cause
  <2>1. Shapes'
    BY <1>10, <1>1 DEF unconfigured_cause, Left, Shapes
  <2>2. Rounds'
    BY <1>10, <1>1 DEF unconfigured_cause, Left, Rounds, Looping
  <2>. QED BY <2>1, <2>2, <1>4, <1>7 DEF Left
<1>11. CASE receive_status
  <2>1. iteration < RX_CAPACITY
    BY <1>11, <1>1 DEF receive_status, Left, Rounds, Looping
  <2>2. Shapes'
    BY <2>1, <1>8, <1>11, <1>1 DEF receive_status, read_lsr, Left, Shapes
  <2>3. CASE errors # {}
    <3>1. failed'
      BY <2>3, <1>11 DEF receive_status, rx_fail, emptied
    <3>. QED BY <3>1, <2>1, <2>2, <1>8, <1>11, <1>1, <1>4, <1>7
         DEF receive_status, Left, Rounds, Looping
  <2>4. CASE errors = {}
    <3>1. fifo # <<>> /\ count' = count /\ failed' = failed
      BY <2>4, <1>11, <1>1, SameRing DEF receive_status, Left, Rounds
    <3>2. Rounds'
      <4>. HIDE DEF count
      <4>. QED BY <3>1, <1>11, <1>1 DEF receive_status, Left, Rounds, Looping
    <3>. QED BY <3>2, <2>2, <1>4, <1>7 DEF Left
  <2>. QED BY <2>3, <2>4
<1>12. CASE receive_data
  <2>1. iteration < RX_CAPACITY /\ fifo # <<>> /\ ier /\ (failed \/ count >= iteration)
    BY <1>12, <1>1 DEF receive_data, Left, Rounds, Looping
  <2>2. Head(fifo) \in Byte /\ Tail(fifo) \in Seq(Byte) /\ Len(Tail(fifo)) <= FIFO_DEPTH
    BY <2>1, <1>1, Bounds DEF Left, Shapes
  <2>3. Shapes'
    BY <2>1, <2>2, <1>8, <1>12, <1>1 DEF receive_data, Left, Shapes
  <2>4. failed' \/ count' >= iteration'
    <3>1. failed' \/ (after(head) # tail /\ store(Head(fifo)) /\ failed' = failed)
      <4>1. rx_push(Head(fifo))
        BY <1>12 DEF receive_data
      <4>. QED BY <4>1, PushOutcome
    <3>2. CASE after(head) # tail /\ store(Head(fifo)) /\ failed' = failed
      <4>1. count' = count + 1
        BY <3>2, <2>2, <1>1, StoredRing
      <4>2. iteration' = iteration + 1 /\ iteration \in Nat /\ count \in Nat
        BY <1>12, <1>1, Bounds DEF receive_data, Left, Shapes
      <4>3. failed \/ count' >= iteration'
        <5>. HIDE DEF count
        <5>. QED BY <4>1, <4>2, <2>1
      <4>. QED BY <4>3, <3>2
    <3>. QED BY <3>1, <3>2
  <2>5. Rounds'
    <3>. HIDE DEF count
    <3>. QED BY <2>1, <2>4, <1>8, <1>12, <1>1 DEF receive_data, Left, Rounds, Looping
  <2>. QED BY <2>3, <2>5, <1>4, <1>7 DEF Left
<1>13. CASE loop_bound
  <2>1. Shapes'
    BY <1>13, <1>1, Bounds DEF loop_bound, fcr_reset, Left, Shapes
  <2>2. Rounds'
    BY <1>13, <1>1 DEF loop_bound, Left, Rounds, Looping
  <2>. QED BY <2>1, <2>2, <1>4, <1>7 DEF Left
<1>14. CASE return_from_irq
  <2>1. Shapes'
    BY <1>14, <1>1, Bounds DEF return_from_irq, Left, Shapes
  <2>2. Rounds'
    BY <1>14, <1>1 DEF return_from_irq, Left, Rounds, Looping
  <2>. QED BY <2>1, <2>2, <1>4, <1>7 DEF Left
<1>. QED BY <1>9, <1>10, <1>11, <1>12, <1>13, <1>14 DEF isr_step

(* Calls of serial_read.                                                   *)
LEMMA ReadOutcome ==
  ASSUME MachineInv, serial_read
  PROVE  \/ /\ read_loss /\ pc' = "sti" /\ delivered' = delivered /\ last' = last /\ told'
         \/ /\ read_empty /\ pc' = "sti_hlt" /\ delivered' = delivered
            /\ last' = last /\ (told' <=> told)
         \/ /\ read_byte /\ pc' = "sti" /\ delivered' = delivered + 1
            /\ last' = data[tail] /\ ~told'
<1>1. CASE read_loss
  <2>1. result' = <<"read", -1>>
    BY <1>1 DEF read_loss
  <2>2. result' # <<"read", 0>> /\ result'[2] = -1 /\ result'[2] # 1
    BY <2>1
  <2>3. pc' = "sti" /\ delivered' = delivered /\ last' = last
        /\ told' = (told \/ result'[2] = -1)
    BY <2>2 DEF serial_read
  <2>. QED BY <1>1, <2>2, <2>3, Zenon
<1>2. CASE read_empty
  <2>1. result' = <<"read", 0>>
    BY <1>2 DEF read_empty
  <2>2. result'[2] # -1 /\ result'[2] # 1
    BY <2>1
  <2>3. pc' = "sti_hlt" /\ delivered' = delivered /\ last' = last
        /\ told' = (told \/ result'[2] = -1)
    BY <2>1, <2>2 DEF serial_read
  <2>. QED BY <1>2, <2>2, <2>3, Zenon
<1>3. CASE read_byte
  <2>1. result' = <<"read", 1, data[tail]>>
    BY <1>3 DEF read_byte
  <2>2. result' # <<"read", 0>> /\ result'[2] = 1 /\ result'[3] = data[tail]
    BY <2>1
  <2>3. pc' = "sti" /\ delivered' = delivered + 1 /\ last' = result'[3] /\ told' = FALSE
    BY <2>2 DEF serial_read
  <2>. QED BY <1>3, <2>2, <2>3, Zenon
<1>. QED BY <1>1, <1>2, <1>3, Zenon DEF serial_read, rx_read

(* The polling loop of wait_status keeps its bound.                        *)
LEMMA PollStep ==
  ASSUME Shapes, polls < POLL_LIMIT, NEW ready, polled(ready)
  PROVE  /\ polls' \in 0 .. POLL_LIMIT
         /\ pc' \in {"output", "poll", "spin"}
         /\ pc' = "poll" => polls' < POLL_LIMIT
BY Bounds DEF Shapes, polled

(* The main program, the halt command and the timer.                       *)
LEMMA MainStep ==
  ASSUME MachineInv, main_step \/ halt \/ timer_wakeup
  PROVE  Left'
<1>. USE DEF rxVars, uartVars, isrVars, localVars, mainVars, history, elsewhere, at
<1>1. Left /\ RxTypeOK /\ FailedIsEmpty /\ RxTypeOK'
  BY Known, RingInv DEF Next, MachineInv, SerialTypeOK
<1>2. cpu_step /\ UNCHANGED isrVars /\ isr = "none"
  BY Zenon DEF main_step, output_byte, wait_status, receive_error, output_done,
     serial_enable_receive, write_ier, x86_disable_interrupts, serial_read,
     x86_enable_interrupts, x86_enable_and_idle, halt, timer_wakeup
<1>3. /\ isr' = "none" /\ (sampled' => irr' /\ interrupts')
      /\ ((pc' \in {"poll", "error"} => polls' < POLL_LIMIT) => Rounds')
  BY <1>2, SampledValue DEF Rounds, Looping
<1>4. CASE output_byte
  BY <1>1, <1>3, <1>4, Bounds DEF output_byte, Left, Shapes, Exclusion, BeforeEnable
<1>5. CASE wait_status
  <2>1. polls < POLL_LIMIT
    BY <1>1, <1>5 DEF wait_status, Left, Rounds
  <2>2. CASE receive_enabled /\ errors # {}
    BY <2>1, <2>2, <1>1, <1>3, <1>5 DEF wait_status, read_lsr, Left, Shapes, Exclusion, BeforeEnable
  <2>3. CASE ~(receive_enabled /\ errors # {})
    <3>1. polled(~tx_busy)
      BY <2>3, <1>5, Zenon DEF wait_status
    <3>. QED BY <2>1, <3>1, <1>1, <1>3, <1>5, PollStep
         DEF wait_status, read_lsr, Left, Shapes, Exclusion, BeforeEnable
  <2>. QED BY <2>2, <2>3
<1>6. CASE receive_error
  <2>1. polls < POLL_LIMIT /\ polled(status_ready) /\ receive_enabled
    BY <1>1, <1>6 DEF receive_error, Left, Rounds, BeforeEnable
  <2>. QED BY <2>1, <1>1, <1>3, <1>6, PollStep
       DEF receive_error, Left, Shapes, Exclusion, BeforeEnable
<1>7. CASE output_done
  BY <1>1, <1>3, <1>7 DEF output_done, Left, Shapes, Exclusion, BeforeEnable
<1>8. CASE serial_enable_receive
  BY <1>1, <1>3, <1>8, Bounds DEF serial_enable_receive, fcr_reset, Left, Shapes, Exclusion, BeforeEnable
<1>9. CASE write_ier
  BY <1>1, <1>3, <1>9 DEF write_ier, Left, Shapes, Exclusion, BeforeEnable
<1>10. CASE x86_disable_interrupts
  BY <1>1, <1>3, <1>10 DEF x86_disable_interrupts, Left, Shapes, Exclusion, BeforeEnable
<1>11. CASE serial_read
  <2>1. data[tail] \in 0 .. MaxBytes
    BY <1>1, Bounds DEF RxTypeOK
  <2>2. last' \in 0 .. MaxBytes /\ pc' \in {"sti", "sti_hlt"}
    BY <2>1, <1>1, <1>11, ReadOutcome DEF Left, Shapes
  <2>3. pc' = "sti_hlt" => head' = tail' /\ ~failed'
    BY <1>11, ReadOutcome DEF read_empty
  <2>4. Shapes'
    BY <2>2, <1>1, <1>11 DEF serial_read, Left, Shapes
  <2>5. receive_enabled /\ ~interrupts /\ receive_enabled' /\ ~interrupts'
    BY <1>1, <1>11 DEF serial_read, Left, Exclusion, BeforeEnable
  <2>6. Exclusion' /\ BeforeEnable'
    BY <2>2, <2>3, <2>5, <1>3 DEF Exclusion, BeforeEnable
  <2>. QED BY <2>2, <2>4, <2>6, <1>3 DEF Left
<1>12. CASE x86_enable_interrupts
  BY <1>1, <1>3, <1>12 DEF x86_enable_interrupts, Left, Shapes, Exclusion, BeforeEnable
<1>13. CASE x86_enable_and_idle
  BY <1>1, <1>3, <1>13 DEF x86_enable_and_idle, Left, Shapes, Exclusion, BeforeEnable
<1>14. CASE halt
  BY <1>1, <1>3, <1>14 DEF halt, Left, Shapes, Exclusion, BeforeEnable
<1>15. CASE timer_wakeup
  BY <1>1, <1>3, <1>15 DEF timer_wakeup, Left, Shapes, Exclusion, BeforeEnable
<1>. QED BY <1>4, <1>5, <1>6, <1>7, <1>8, <1>9, <1>10, <1>11, <1>12, <1>13, <1>14, <1>15
     DEF main_step

(* Every step preserves the machine's part of the invariant.               *)
LEMMA MachineStep ==
  ASSUME MachineInv, [Next]_vars
  PROVE  MachineInv'
<1>1. RxTypeOK' /\ FailedIsEmpty'
  BY RingInv
<1>2. Flags'
  <2>1. Flags
    BY TypeParts DEF MachineInv
  <2>2. CASE UNCHANGED vars
    BY <2>1, <2>2, Zenon DEF vars, uartVars, mainVars, localVars, history, Flags
  <2>. QED BY <2>1, <2>2, FlagsStep
<1>3. Left'
  <2>1. CASE stop \/ UNCHANGED vars
    <3>1. UNCHANGED vars
      BY <2>1, Zenon DEF stop
    <3>2. Left /\ count' = count
      BY <3>1, Known, SameRing DEF vars
    <3>3. Shapes' /\ Exclusion' /\ BeforeEnable'
      BY <3>1, <3>2 DEF vars, rxVars, uartVars, isrVars, mainVars, localVars, history,
         Left, Shapes, Exclusion, BeforeEnable
    <3>4. Rounds'
      <4>. HIDE DEF count
      <4>. QED BY <3>1, <3>2 DEF vars, rxVars, uartVars, isrVars, mainVars, localVars,
           Left, Rounds, Looping
    <3>. QED BY <3>3, <3>4 DEF Left
  <2>. QED BY <2>1, UartStep, TakeStep, HandlerStep, MainStep DEF Next
<1>4. SerialTypeOK'
  <2>1. (RxTypeOK /\ Shapes /\ Flags => SerialTypeOK)'
    BY TypeParts, PTL
  <2>. QED BY <2>1, <1>1, <1>2, <1>3 DEF Left
<1>. QED BY <1>1, <1>3, <1>4 DEF Left, MachineInv

(* In every state the handler and the main program exclude each other, the *)
(* handler finds what its last look promised it, and each of its rounds    *)
(* has stored a byte or found the ring failed.                             *)
THEOREM SerialInvariant == Spec => []MachineInv
BY MachineInitInv, MachineStep, PTL DEF Spec

(* Every variable has its type: receive_byte never reads an empty FIFO,    *)
(* and neither the loop of serial_interrupt nor the one of wait_status     *)
(* exceeds its bound.                                                      *)
THEOREM SerialTypeCorrect == Spec => []SerialTypeOK
<1>1. MachineInv => SerialTypeOK
  BY DEF MachineInv
<1>. QED BY <1>1, SerialInvariant, PTL

(* The CPU never sleeps on input it could read (console_run: cli, rx_read, *)
(* sti; hlt).                                                              *)
THEOREM SerialNoSleep == Spec => []NoSleepWithInput
<1>1. MachineInv => NoSleepWithInput
  BY DEF MachineInv, Exclusion, NoSleepWithInput
<1>. QED BY <1>1, SerialInvariant, PTL

(* When serial_interrupt gives up after RX_CAPACITY rounds the ring has    *)
(* failed already: RX_CAPACITY rounds cannot all have stored a byte.       *)
THEOREM SerialBoundMeansLoss == Spec => []BoundMeansLoss
<1>1. MachineInv => BoundMeansLoss
  <2>. SUFFICES ASSUME MachineInv, isr = "bound" PROVE failed
    BY DEF BoundMeansLoss
  <2>1. iteration = RX_CAPACITY /\ (failed \/ count >= iteration)
    BY DEF MachineInv, Rounds
  <2>2. count \in 0 .. RX_CAPACITY - 1
    BY Known
  <2>. HIDE DEF count
  <2>. QED BY <2>1, <2>2, Bounds
<1>. QED BY <1>1, SerialInvariant, PTL

-----------------------------------------------------------------------------
(* Requests of the UART.                                                   *)

(* No request before the UART is enabled.                                  *)
LEMMA LatchedInit == SerialInit => RequestLatched
BY DEF SerialInit, RequestLatched, line

(* A request is latched when the line rises, and when the handler ends     *)
(* without a look at the cause the line is low.                            *)
LEMMA LatchedStep ==
  ASSUME MachineInv, RequestLatched, [Next]_vars
  PROVE  RequestLatched'
<1>. SUFFICES ASSUME "overrun" \notin Faults
              PROVE  "overrun" \notin errors' /\ (line' /\ isr' \in {"none", "eoi"} => irr')
  BY DEF RequestLatched
<1>. USE DEF rxVars, uartVars, isrVars, localVars, mainVars, history, elsewhere, at
<1>1. "overrun" \notin errors /\ (line /\ isr \in {"none", "eoi"} => irr)
  BY DEF RequestLatched
<1>2. errors \subseteq {"overrun", "break"}
  BY DEF MachineInv, SerialTypeOK
<1>3. "overrun" \notin errors'
  <2>1. CASE receive_good
    BY <2>1, <1>1 DEF receive_good, Receives
  <2>2. CASE receive_break
    BY <2>2, <1>1 DEF receive_break
  <2>3. CASE isr_step \/ take_irq4 \/ transmitted
    BY <2>3, <1>1 DEF isr_step, read_iir, unconfigured_cause, receive_status, receive_data,
       loop_bound, return_from_irq, take_irq4, transmitted, read_lsr, fcr_reset
  <2>4. CASE main_step \/ halt \/ timer_wakeup
    BY <2>4, <1>1 DEF main_step, output_byte, wait_status, receive_error, output_done,
       serial_enable_receive, write_ier, x86_disable_interrupts, serial_read, read_lsr, fcr_reset,
       x86_enable_interrupts, x86_enable_and_idle, halt, timer_wakeup
  <2>5. CASE stop \/ UNCHANGED vars
    BY <2>5, <1>1 DEF stop, vars
  <2>. QED BY <2>1, <2>2, <2>3, <2>4, <2>5 DEF Next
<1>4. CASE UNCHANGED vars
  BY <1>1, <1>3, <1>4 DEF vars, line
<1>5. ASSUME pic_latch, ~taken, line /\ line' /\ isr' \in {"none", "eoi"} => isr \in {"none", "eoi"}
      PROVE  line' /\ isr' \in {"none", "eoi"} => irr'
  BY <1>1, <1>5, LatchValue
<1>6. CASE receive_good \/ receive_break \/ transmitted
  <2>1. pic_latch /\ isr' = isr
    BY <1>6, Zenon DEF receive_good, receive_break, transmitted, uart_step
  <2>. QED BY <2>1, <1>3, <1>5 DEF taken
<1>7. CASE take_irq4
  BY <1>7, <1>3 DEF take_irq4
<1>8. CASE isr_step
  <2>1. pic_latch /\ ~taken
    BY <1>8, SampledValue, Zenon DEF isr_step, read_iir, unconfigured_cause, receive_status,
       receive_data, loop_bound, return_from_irq, taken
  <2>2. CASE read_iir
    BY <2>1, <2>2, <1>3, <1>5 DEF read_iir
  <2>3. CASE unconfigured_cause
    BY <2>3, <1>3 DEF unconfigured_cause, line
  <2>4. CASE receive_status \/ receive_data
    BY <2>4, <1>3 DEF receive_status, receive_data, next_iteration
  <2>5. CASE loop_bound
    BY <2>5, <1>1, <1>2, <1>3 DEF loop_bound, fcr_reset, line
  <2>6. CASE return_from_irq
    BY <2>1, <2>6, <1>3, <1>5 DEF return_from_irq
  <2>. QED BY <1>8, <2>2, <2>3, <2>4, <2>5, <2>6 DEF isr_step
<1>9. CASE main_step \/ halt \/ timer_wakeup
  <2>1. cpu_step /\ UNCHANGED isrVars /\ isr = "none"
    BY <1>9, Zenon DEF main_step, output_byte, wait_status, receive_error, output_done,
       serial_enable_receive, write_ier, x86_disable_interrupts, serial_read,
       x86_enable_interrupts, x86_enable_and_idle, halt, timer_wakeup
  <2>2. pic_latch /\ ~taken
    BY <2>1, SampledValue DEF taken
  <2>. QED BY <2>1, <2>2, <1>3, <1>5
<1>10. CASE stop
  BY <1>4, <1>10 DEF stop
<1>. QED BY <1>4, <1>6, <1>7, <1>8, <1>9, <1>10 DEF Next

(* As long as the FIFO never overruns, the edge-triggered PIC holds every  *)
(* request of the UART while no handler runs.                              *)
THEOREM SerialLineServed == "overrun" \notin Faults => (Spec => []LineServed)
<1>. SUFFICES ASSUME "overrun" \notin Faults PROVE Spec => []LineServed
  OBVIOUS
<1>1. Spec => []RequestLatched
  BY LatchedInit, LatchedStep, SerialInvariant, PTL DEF Spec
<1>2. RequestLatched => LineServed
  BY DEF RequestLatched, LineServed
<1>. QED BY <1>1, <1>2, PTL

-----------------------------------------------------------------------------
(* The stream's part of the invariant.                                     *)

(* The types the stream's lemmas use.                                      *)
LEMMA StreamFacts ==
  ASSUME MachineInv
  PROVE  /\ sent \in Nat /\ last \in Nat /\ fifo \in Seq(Byte) /\ Len(fifo) \in Nat
         /\ count \in Nat /\ contents \in Seq(Byte) /\ Len(contents) = count
<1>1. RxTypeOK /\ Shapes
  BY TypeParts DEF MachineInv
<1>2. count \in Nat
  BY <1>1, CountType, Bounds
<1>3. contents \in Seq(Byte) /\ Len(contents) = count
  BY <1>1, ContentsType DEF ContentsShape
<1>. HIDE DEF contents, count
<1>. QED BY <1>1, <1>2, <1>3, Bounds DEF Shapes

(* Runs of bytes.                                                          *)
LEMMA EmptyRun == \A b : Consecutive(<<>>, b)
BY DEF Consecutive

(* A run grows by the byte that follows it.                                *)
LEMMA LongerRun ==
  ASSUME NEW s \in Seq(Byte), NEW b \in Int, Consecutive(s, b), NEW c, c = b + Len(s) + 1
  PROVE  Consecutive(Append(s, c), b)
<1>. SUFFICES ASSUME NEW i \in 1 .. Len(s) + 1 PROVE Append(s, c)[i] = b + i
  BY DEF Consecutive
<1>1. CASE i = Len(s) + 1
  BY <1>1
<1>2. CASE i # Len(s) + 1
  BY <1>2 DEF Consecutive
<1>. QED BY <1>1, <1>2

(* A run without its first byte is a run.                                  *)
LEMMA ShorterRun ==
  ASSUME NEW s \in Seq(Byte), NEW b \in Int, Consecutive(s, b), s # <<>>
  PROVE  Head(s) = b + 1 /\ Consecutive(Tail(s), b + 1)
<1>1. Len(s) \in Nat \ {0}
  OBVIOUS
<1>2. Head(s) = b + 1
  BY <1>1 DEF Consecutive
<1>3. ASSUME NEW i \in 1 .. Len(Tail(s)) PROVE Tail(s)[i] = b + 1 + i
  BY <1>1 DEF Consecutive
<1>. QED BY <1>2, <1>3 DEF Consecutive

(* Steps that move only the two programs.                                  *)
LEMMA QuietStep ==
  ASSUME StreamInv, contents' = contents, count' = count,
         UNCHANGED <<fifo, errors, sent, last, told, receive_enabled>>,
         Condemned => Condemned',
         receive_enabled /\ Blocked => Blocked',
         receive_enabled /\ Draining => Draining' \/ Blocked' \/ fifo = <<>>,
         isr' = "rbr" => isr = "rbr",
         sent \in Nat, last \in Nat
  PROVE  StreamInv'
<1>. HIDE DEF contents, count
<1>1. last' <= sent'
  BY DEF StreamInv
<1>. SUFFICES ASSUME receive_enabled' PROVE RingDeliverable' /\ FifoDeliverable' /\ Linked' /\ HeadFollows'
  BY <1>1 DEF StreamInv
<1>2. RingDeliverable /\ FifoDeliverable /\ Linked /\ HeadFollows /\ last <= sent
  BY DEF StreamInv
<1>3. FifoClean' <=> FifoClean
  BY DEF FifoClean
<1>4. ASSUME NEW b PROVE MayFollow(b)' <=> MayFollow(b)
  BY DEF MayFollow
<1>5. fifo = <<>> => FifoClean
  BY <1>2, EmptyRun DEF FifoClean
<1>6. RingDeliverable'
  BY <1>2, <1>4 DEF RingDeliverable
<1>7. FifoDeliverable'
  BY <1>2, <1>3, <1>5 DEF FifoDeliverable
<1>8. Linked'
  BY <1>2, <1>3, <1>4 DEF Linked
<1>9. HeadFollows'
  BY <1>2, <1>4 DEF HeadFollows
<1>. QED BY <1>6, <1>7, <1>8, <1>9

(* Bytes arrive: one good byte more in the FIFO, or an error.              *)
LEMMA ArrivalStep ==
  ASSUME MachineInv, StreamInv, receive_good \/ receive_break
  PROVE  StreamInv'
<1>. USE DEF rxVars, isrVars, localVars, mainVars
<1>1. /\ UNCHANGED <<rxVars, ier, interrupts, isrVars, mainVars, last, told>>
      /\ pic_latch /\ sampled' = sampled /\ sent' = sent + 1
  BY Zenon DEF receive_good, receive_break, uart_step
<1>2. contents' = contents /\ count' = count
  BY <1>1, SameRing
<1>. HIDE DEF contents, count
<1>3. /\ sent \in Nat /\ last \in Nat /\ fifo \in Seq(Byte) /\ Len(fifo) \in Nat
      /\ count \in Nat /\ contents \in Seq(Byte) /\ Len(contents) = count
  BY StreamFacts
<1>4. last' <= sent'
  BY <1>1, <1>3 DEF StreamInv
<1>. SUFFICES ASSUME receive_enabled' PROVE RingDeliverable' /\ FifoDeliverable' /\ Linked' /\ HeadFollows'
  BY <1>4 DEF StreamInv
<1>5. RingDeliverable /\ FifoDeliverable /\ Linked /\ HeadFollows
  BY <1>1 DEF StreamInv
<1>6. (Condemned' <=> Condemned) /\ \A b : MayFollow(b)' <=> MayFollow(b)
  BY <1>1 DEF Condemned, MayFollow
<1>7. RingDeliverable'
  <2>. SUFFICES ASSUME ~Condemned
                PROVE  \E b \in Nat : MayFollow(b)' /\ b + count' <= sent' /\ Consecutive(contents', b)
    BY <1>6 DEF RingDeliverable
  <2>1. PICK b \in Nat : MayFollow(b) /\ b + count <= sent /\ Consecutive(contents, b)
    BY <1>5 DEF RingDeliverable
  <2>2. b + count' <= sent'
    BY <2>1, <1>1, <1>2, <1>3
  <2>. QED BY <2>1, <2>2, <1>2, <1>6
<1>8. fifo # <<>> => fifo' # <<>> /\ Head(fifo') = Head(fifo)
  <2>1. fifo' = fifo \/ \E byte : fifo' = Append(fifo, byte)
    BY Zenon DEF receive_good, receive_break, Receives
  <2>2. ASSUME NEW byte, fifo # <<>>, fifo' = Append(fifo, byte)
        PROVE  fifo' # <<>> /\ Head(fifo') = Head(fifo)
    BY <2>2, <1>3
  <2>. QED BY <2>1, <2>2
<1>9. HeadFollows'
  <2>. SUFFICES ASSUME isr' = "rbr", ~Condemned
                PROVE  \E b \in Nat : /\ MayFollow(b)' /\ b + count' + 1 <= sent'
                                      /\ Consecutive(contents', b)
                                      /\ Head(fifo') = b + count' + 1
    BY <1>6 DEF HeadFollows
  <2>1. isr = "rbr" /\ fifo # <<>>
    BY <1>1 DEF MachineInv, Rounds
  <2>2. PICK b \in Nat : /\ MayFollow(b) /\ b + count + 1 <= sent /\ Consecutive(contents, b)
                         /\ Head(fifo) = b + count + 1
    BY <2>1, <1>5 DEF HeadFollows
  <2>3. b + count' + 1 <= sent'
    BY <2>2, <1>1, <1>2, <1>3
  <2>. QED BY <2>1, <2>2, <2>3, <1>2, <1>6, <1>8
<1>10. CASE errors' # {}
  BY <1>10, <1>7, <1>9 DEF FifoDeliverable, Linked
<1>11. CASE errors' = {}
  <2>1. fifo' = Append(fifo, sent + 1) /\ errors' = errors
    BY <1>11 DEF receive_good, receive_break, Receives
  <2>2. sent' - Len(fifo') = sent - Len(fifo) /\ sent + 1 \in Byte
    <3>1. sent + 1 \in Byte
      <4>1. sent < MaxBytes
        BY DEF receive_good, receive_break
      <4>. QED BY <4>1, <1>3, Bounds
    <3>. QED BY <3>1, <2>1, <1>1, <1>3
  <2>3. FifoClean => FifoClean'
    <3>. SUFFICES ASSUME FifoClean PROVE FifoClean'
      OBVIOUS
    <3>1. sent + 1 = (sent - Len(fifo)) + Len(fifo) + 1 /\ sent - Len(fifo) \in Int
      BY <1>3
    <3>2. Consecutive(Append(fifo, sent + 1), sent - Len(fifo))
      BY <3>1, <1>3, LongerRun DEF FifoClean
    <3>. QED BY <3>2, <2>1, <2>2, <1>1 DEF FifoClean
  <2>4. irr => irr'
    BY <1>1, LatchValue DEF taken
  <2>5. Blocked => Blocked'
    <3>1. ier /\ fifo # <<>> => line /\ line'
      BY <1>1, <1>8 DEF line
    <3>. QED BY <3>1, <1>1, <1>8, LatchValue DEF Blocked
  <2>6. Draining => Draining'
    BY <2>4, <1>1, <1>6 DEF Draining
  <2>7. FifoDeliverable'
    BY <2>1, <2>3, <2>5, <2>6, <1>5 DEF FifoDeliverable
  <2>8. Linked'
    BY <2>1, <2>2, <2>3, <2>5, <1>2, <1>5, <1>6 DEF Linked
  <2>. QED BY <2>7, <2>8, <1>7, <1>9
<1>. QED BY <1>10, <1>11

(* The UART, the CPU and the handler where they touch no byte.             *)
LEMMA QuietHandlerStep ==
  ASSUME MachineInv, StreamInv, transmitted \/ take_irq4 \/ read_iir \/ return_from_irq
  PROVE  StreamInv'
<1>. USE DEF rxVars, uartVars, isrVars, localVars, mainVars, history
<1>1. /\ UNCHANGED <<rxVars, fifo, errors, ier, receive_enabled, history>> /\ pic_latch
  BY SampledValue, Zenon DEF transmitted, take_irq4, read_iir, return_from_irq, uart_step
<1>2. contents' = contents /\ count' = count
  BY <1>1, SameRing
<1>. HIDE DEF contents, count
<1>3. sent \in Nat /\ last \in Nat
  BY StreamFacts
<1>4. irr' <=> (irr /\ ~taken)
  BY <1>1, LatchValue DEF line
<1>5. Condemned => Condemned'
  BY <1>1 DEF Condemned, transmitted, take_irq4, read_iir, return_from_irq
<1>6. Exclusion
  BY DEF MachineInv
<1>7. Blocked => Blocked'
  BY <1>1, <1>4, <1>6 DEF Blocked, taken, Exclusion, transmitted, take_irq4, read_iir, return_from_irq
<1>8. Draining => Draining' \/ Blocked' \/ fifo = <<>>
  <2>1. CASE transmitted
    BY <2>1, <1>1, <1>4, <1>5 DEF Draining, transmitted, uart_step, taken
  <2>2. CASE take_irq4
    BY <2>2, <1>5 DEF Draining, take_irq4, Looping
  <2>3. CASE read_iir
    BY <2>3, <1>5, <1>6 DEF Draining, read_iir, Looping, Blocked, line, Exclusion
  <2>4. CASE return_from_irq
    BY <2>4 DEF Draining, return_from_irq, Looping
  <2>. QED BY <2>1, <2>2, <2>3, <2>4
<1>9. isr' = "rbr" => isr = "rbr"
  BY DEF transmitted, take_irq4, read_iir, return_from_irq
<1>. QED BY <1>1, <1>2, <1>3, <1>5, <1>7, <1>8, <1>9, QuietStep

(* The main program where it touches no byte.                              *)
QuietMain ==
  \/ output_byte \/ output_done \/ write_ier \/ x86_disable_interrupts
  \/ x86_enable_interrupts \/ x86_enable_and_idle \/ halt \/ timer_wakeup

(* Between two calls of the driver nothing in the stream moves.            *)
LEMMA QuietMainStep ==
  ASSUME MachineInv, StreamInv, QuietMain
  PROVE  StreamInv'
<1>. USE DEF rxVars, uartVars, isrVars, localVars, mainVars, history, elsewhere, at
<1>1. /\ UNCHANGED <<rxVars, fifo, errors, isr, receive_enabled, history>> /\ cpu_step
      /\ isr = "none" /\ ~sampled
  BY Zenon DEF QuietMain, output_byte, output_done, write_ier, x86_disable_interrupts,
     x86_enable_interrupts, x86_enable_and_idle, halt, timer_wakeup
<1>2. contents' = contents /\ count' = count
  BY <1>1, SameRing
<1>. HIDE DEF contents, count
<1>3. sent \in Nat /\ last \in Nat
  BY StreamFacts
<1>4. /\ irr' <=> (irr \/ (~line /\ line'))
      /\ sampled' <=> (irr' /\ interrupts')
  BY <1>1, SampledValue, LatchValue DEF taken
<1>5. Condemned => Condemned'
  BY <1>1 DEF Condemned, QuietMain, output_byte, output_done, write_ier, x86_disable_interrupts,
     x86_enable_interrupts, x86_enable_and_idle, halt, timer_wakeup
<1>6. Exclusion
  BY DEF MachineInv
<1>7. Blocked => Blocked'
  <2>1. CASE write_ier
    BY <2>1, <1>1, <1>4 DEF Blocked, write_ier, line
  <2>2. CASE ~write_ier
    <3>1. UNCHANGED ier /\ pc' # "ier"
      BY <2>2 DEF QuietMain, output_byte, output_done, x86_disable_interrupts,
         x86_enable_interrupts, x86_enable_and_idle, halt, timer_wakeup
    <3>2. line' <=> line
      BY <3>1, <1>1 DEF line
    <3>. QED BY <3>1, <3>2, <1>1, <1>4 DEF Blocked
  <2>. QED BY <2>1, <2>2
<1>8. receive_enabled /\ Draining => Draining'
  BY <1>1, <1>4, <1>5 DEF Draining, QuietMain, output_byte, output_done, write_ier,
     x86_disable_interrupts, x86_enable_interrupts, x86_enable_and_idle, halt, timer_wakeup
<1>. QED BY <1>1, <1>2, <1>3, <1>5, <1>7, <1>8, QuietStep

(* A loss the handler or wait_status finds condemns the ring; the bytes    *)
(* still in the FIFO are good, or fetched before the loss is reported, or  *)
(* never fetched.                                                          *)
LEMMA LossStep ==
  ASSUME MachineInv, StreamInv, UNCHANGED <<sent, last>>, Condemned',
         Draining' \/ Blocked' \/ fifo' = <<>> \/ (receive_enabled' => FifoDeliverable')
  PROVE  StreamInv'
<1>1. sent \in Nat /\ last \in Nat /\ last <= sent
  BY StreamFacts DEF StreamInv
<1>2. fifo' = <<>> => FifoClean'
  <2>1. fifo' = <<>> => Consecutive(fifo', sent' - Len(fifo'))
    BY EmptyRun
  <2>. QED BY <2>1, <1>1 DEF FifoClean
<1>3. receive_enabled' => FifoDeliverable'
  BY <1>2 DEF FifoDeliverable
<1>4. RingDeliverable' /\ Linked' /\ HeadFollows'
  BY DEF RingDeliverable, Linked, HeadFollows
<1>. QED BY <1>1, <1>3, <1>4 DEF StreamInv

(* An unexpected cause switches reception off for good.                    *)
LEMMA UnconfiguredStep ==
  ASSUME MachineInv, StreamInv, unconfigured_cause
  PROVE  StreamInv'
<1>1. Condemned' /\ UNCHANGED <<sent, last>>
  BY DEF unconfigured_cause, rx_fail, emptied, Condemned, history
<1>2. pc' # "ier" /\ ~ier'
  BY DEF unconfigured_cause, MachineInv, Exclusion, mainVars
<1>. QED BY <1>1, <1>2, LossStep DEF Blocked

(* Giving up drops the FIFO with the ring.                                 *)
LEMMA BoundStep ==
  ASSUME MachineInv, StreamInv, loop_bound
  PROVE  StreamInv'
<1>1. Condemned' /\ UNCHANGED <<sent, last>> /\ fifo' = <<>>
  BY DEF loop_bound, rx_fail, emptied, fcr_reset, Condemned, history
<1>. QED BY <1>1, LossStep

(* The handler reads LSR: errors condemn the ring, without errors the      *)
(* FIFO's first byte follows it.                                           *)
LEMMA StatusStep ==
  ASSUME MachineInv, StreamInv, receive_status
  PROVE  StreamInv'
<1>. USE DEF rxVars, localVars, mainVars, history
<1>1. /\ UNCHANGED <<fifo, ier, sent, last, told, receive_enabled, pc>> /\ isr = "lsr" /\ errors' = {}
      /\ isr' \in {"rbr", "iir", "bound"} /\ ier
  BY DEF receive_status, read_lsr, next_iteration, MachineInv, Rounds
<1>2. CASE errors # {}
  <2>1. Condemned'
    BY <1>2 DEF receive_status, rx_fail, emptied, Condemned
  <2>. QED BY <2>1, <1>1, LossStep DEF Draining, Looping
<1>3. CASE errors = {}
  <2>1. fifo # <<>> /\ isr' = "rbr" /\ UNCHANGED rxVars
    BY <1>3 DEF receive_status, MachineInv, Rounds
  <2>2. contents' = contents /\ count' = count
    BY <2>1, SameRing
  <2>. HIDE DEF contents, count
  <2>3. /\ sent \in Nat /\ last \in Nat /\ fifo \in Seq(Byte) /\ Len(fifo) \in Nat
        /\ count \in Nat /\ contents \in Seq(Byte) /\ Len(contents) = count
    BY StreamFacts
  <2>4. last' <= sent'
    BY <1>1 DEF StreamInv
  <2>. SUFFICES ASSUME receive_enabled' PROVE RingDeliverable' /\ FifoDeliverable' /\ Linked' /\ HeadFollows'
    BY <2>4 DEF StreamInv
  <2>5. RingDeliverable /\ FifoDeliverable /\ Linked
    BY <1>1 DEF StreamInv
  <2>6. /\ Condemned' <=> Condemned
        /\ FifoClean' <=> FifoClean
        /\ \A b : MayFollow(b)' <=> MayFollow(b)
    BY <2>1, <1>1 DEF Condemned, FifoClean, MayFollow
  <2>7. ~Blocked
    BY <1>1 DEF Blocked
  <2>8. RingDeliverable'
    BY <2>2, <2>5, <2>6, <1>1 DEF RingDeliverable
  <2>9. FifoDeliverable'
    BY <2>1, <2>5, <2>6, <2>7, <1>3 DEF FifoDeliverable, Draining, Looping
  <2>10. Linked'
    BY <2>2, <2>5, <2>6, <2>7, <1>1, <1>3 DEF Linked
  <2>11. HeadFollows'
    <3>. SUFFICES ASSUME ~Condemned
                  PROVE  \E b \in Nat : /\ MayFollow(b)' /\ b + count' + 1 <= sent'
                                        /\ Consecutive(contents', b)
                                        /\ Head(fifo') = b + count' + 1
      BY <2>6 DEF HeadFollows
    <3>. DEFINE b == sent - Len(fifo) - count
    <3>1. FifoClean /\ MayFollow(b) /\ Consecutive(contents, b)
      BY <2>5, <2>7, <1>3 DEF Linked
    <3>2. b \in Int /\ last <= b
      BY <3>1, <2>3 DEF MayFollow
    <3>3. b \in Nat
      BY <3>2, <2>3
    <3>4. sent - Len(fifo) \in Int /\ sent - Len(fifo) = b + count /\ Len(fifo) >= 1
      BY <2>1, <2>3
    <3>5. Head(fifo) = sent - Len(fifo) + 1
      BY <3>1, <3>4, <2>1, <2>3, ShorterRun DEF FifoClean
    <3>6. b + count' + 1 <= sent' /\ Head(fifo') = b + count' + 1
      BY <3>4, <3>5, <2>2, <2>3, <1>1
    <3>. HIDE DEF b
    <3>. QED BY <3>1, <3>3, <3>6, <2>2, <2>6
  <2>. QED BY <2>8, <2>9, <2>10, <2>11
<1>. QED BY <1>2, <1>3

(* The handler stores the byte that follows the ring, or condemns it.      *)
LEMMA DataStep ==
  ASSUME MachineInv, StreamInv, receive_data
  PROVE  StreamInv'
<1>. USE DEF localVars, mainVars, history
<1>1. /\ UNCHANGED <<errors, ier, sent, last, told, receive_enabled, pc>> /\ isr = "rbr"
      /\ isr' \in {"iir", "bound"} /\ ier /\ fifo # <<>> /\ fifo' = Tail(fifo)
  BY DEF receive_data, next_iteration, MachineInv, Rounds
<1>2. failed' \/ (after(head) # tail /\ store(Head(fifo)) /\ failed' = failed)
  BY PushOutcome DEF receive_data
<1>3. CASE Condemned'
  BY <1>1, <1>3, LossStep DEF Draining, Looping
<1>4. CASE ~Condemned'
  <2>1. after(head) # tail /\ store(Head(fifo)) /\ failed' = failed /\ ~Condemned
    BY <1>1, <1>2, <1>4 DEF Condemned
  <2>2. /\ sent \in Nat /\ last \in Nat /\ fifo \in Seq(Byte) /\ Len(fifo) \in Nat
        /\ count \in Nat /\ contents \in Seq(Byte) /\ Len(contents) = count
    BY StreamFacts
  <2>3. Head(fifo) \in Byte /\ Len(fifo') = Len(fifo) - 1
    BY <2>2, <1>1
  <2>4. count' = count + 1 /\ contents' = Append(contents, Head(fifo))
    <3>1. RxTypeOK /\ RxTypeOK'
      BY RingInv DEF Next, isr_step, MachineInv, SerialTypeOK
    <3>. QED BY <3>1, <2>1, <2>3, StoredRing
  <2>. HIDE DEF contents, count
  <2>5. last' <= sent'
    BY <1>1 DEF StreamInv
  <2>. SUFFICES ASSUME receive_enabled' PROVE RingDeliverable' /\ FifoDeliverable' /\ Linked' /\ HeadFollows'
    BY <2>5 DEF StreamInv
  <2>6. FifoDeliverable /\ Linked /\ HeadFollows
    BY <1>1 DEF StreamInv
  <2>7. ASSUME NEW b PROVE MayFollow(b)' <=> MayFollow(b)
    BY <1>1 DEF MayFollow
  <2>8. HeadFollows'
    BY <1>1 DEF HeadFollows
  <2>9. RingDeliverable'
    <3>1. PICK b \in Nat : /\ MayFollow(b) /\ b + count + 1 <= sent /\ Consecutive(contents, b)
                           /\ Head(fifo) = b + count + 1
      BY <2>1, <2>6, <1>1 DEF HeadFollows
    <3>2. Consecutive(contents', b)
      <4>1. b \in Int /\ Head(fifo) = b + Len(contents) + 1 /\ contents \in Seq(Byte)
        BY <3>1, <2>2
      <4>2. Consecutive(Append(contents, Head(fifo)), b)
        BY <4>1, <3>1, LongerRun
      <4>. QED BY <4>2, <2>4
    <3>3. b + count' <= sent'
      BY <3>1, <2>2, <2>4, <1>1
    <3>. QED BY <3>1, <3>2, <3>3, <2>7 DEF RingDeliverable
  <2>10. ~Blocked /\ ~Draining
    BY <2>1, <1>1 DEF Blocked, Draining
  <2>11. FifoClean => FifoClean'
    <3>. SUFFICES ASSUME FifoClean PROVE FifoClean'
      OBVIOUS
    <3>1. sent - Len(fifo) \in Int /\ sent' - Len(fifo') = sent - Len(fifo) + 1
      BY <2>2, <2>3, <1>1
    <3>2. Consecutive(Tail(fifo), sent - Len(fifo) + 1)
      BY <3>1, <2>2, <1>1, ShorterRun DEF FifoClean
    <3>3. last' <= sent' - Len(fifo')
      BY <3>1, <2>2, <1>1 DEF FifoClean
    <3>. QED BY <3>1, <3>2, <3>3, <1>1 DEF FifoClean
  <2>12. FifoDeliverable'
    BY <2>6, <2>10, <2>11, <1>1 DEF FifoDeliverable
  <2>13. CASE errors # {}
    BY <2>8, <2>9, <2>12, <2>13, <1>1 DEF Linked
  <2>14. CASE errors = {}
    <3>. DEFINE b == sent - Len(fifo) - count
    <3>1. FifoClean /\ MayFollow(b) /\ Consecutive(contents, b)
      BY <2>1, <2>6, <2>10, <2>14 DEF Linked
    <3>2. /\ b \in Int /\ sent - Len(fifo) \in Int
          /\ sent - Len(fifo) + 1 = b + Len(contents) + 1
          /\ sent' - Len(fifo') - count' = b
      BY <2>2, <2>3, <2>4, <1>1
    <3>3. Head(fifo) = b + Len(contents) + 1
      BY <3>1, <3>2, <2>2, <1>1, ShorterRun DEF FifoClean
    <3>. HIDE DEF b
    <3>4. Consecutive(contents', b)
      BY <3>1, <3>2, <3>3, <2>2, <2>4, LongerRun
    <3>5. Linked'
      BY <3>1, <3>2, <3>4, <2>7, <2>11 DEF Linked
    <3>. QED BY <3>5, <2>8, <2>9, <2>12
  <2>. QED BY <2>13, <2>14
<1>. QED BY <1>3, <1>4

(* wait_status takes errors from the handler: it owes the reader a loss.   *)
LEMMA PollStatusStep ==
  ASSUME MachineInv, StreamInv, wait_status
  PROVE  StreamInv'
<1>. USE DEF isrVars, history, at
<1>1. /\ UNCHANGED <<rxVars, fifo, ier, interrupts, isr, receive_enabled, sent, last, told>>
      /\ cpu_step /\ pc = "poll" /\ isr = "none" /\ ~sampled /\ errors' = {}
  BY Zenon DEF wait_status, read_lsr
<1>2. /\ irr' <=> (irr \/ (~line /\ line'))
      /\ sampled' <=> (irr' /\ interrupts')
  BY <1>1, SampledValue, LatchValue DEF taken
<1>3. line' => line
  BY <1>1 DEF line
<1>4. CASE receive_enabled /\ errors # {}
  <2>1. pc' = "error"
    BY <1>4, Zenon DEF wait_status
  <2>2. Draining' \/ Blocked' \/ fifo' = <<>>
    <3>1. CASE ~ier
      BY <3>1, <2>1, <1>1 DEF Blocked
    <3>2. CASE ier /\ irr
      BY <3>2, <2>1, <1>1, <1>2 DEF Draining, Condemned
    <3>3. CASE ier /\ ~irr
      BY <3>3, <1>1, <1>2, <1>3 DEF Blocked
    <3>. QED BY <3>1, <3>2, <3>3
  <2>. QED BY <2>1, <2>2, <1>1, LossStep DEF Condemned
<1>5. CASE ~receive_enabled
  BY <1>1, <1>5 DEF StreamInv
<1>6. CASE errors = {}
  <2>1. pc' \in {"output", "poll", "spin"}
    BY <1>6 DEF wait_status, polled
  <2>2. contents' = contents /\ count' = count
    BY <1>1, SameRing
  <2>. HIDE DEF contents, count
  <2>3. Condemned => Condemned'
    BY <1>1 DEF Condemned, rxVars
  <2>4. Blocked => Blocked'
    BY <2>1, <1>1, <1>2, <1>3 DEF Blocked
  <2>5. Draining => Draining'
    BY <2>1, <2>3, <1>1, <1>2 DEF Draining
  <2>6. sent \in Nat /\ last \in Nat
    BY StreamFacts
  <2>. QED BY <2>2, <2>3, <2>4, <2>5, <2>6, <1>1, <1>6, QuietStep
<1>. QED BY <1>4, <1>5, <1>6

(* receive_error pays what wait_status owes.                               *)
LEMMA ErrorStep ==
  ASSUME MachineInv, StreamInv, receive_error
  PROVE  StreamInv'
<1>. USE DEF isrVars, history, at
<1>1. /\ UNCHANGED <<fifo, errors, ier, interrupts, isr, receive_enabled, sent, last, told>>
      /\ cpu_step /\ pc = "error" /\ isr = "none" /\ ~sampled
  BY Zenon DEF receive_error
<1>2. /\ irr' <=> irr
      /\ sampled' <=> (irr' /\ interrupts')
  <2>1. line' <=> line
    BY <1>1 DEF line
  <2>. QED BY <2>1, <1>1, SampledValue, LatchValue DEF taken
<1>3. Condemned /\ Condemned'
  BY <1>1 DEF receive_error, rx_fail, emptied, Condemned
<1>4. pc' \in {"output", "poll", "spin"}
  BY DEF receive_error, polled
<1>5. Blocked => Blocked'
  BY <1>1, <1>2, <1>4 DEF Blocked
<1>6. Draining => Draining'
  BY <1>1, <1>2, <1>3, <1>4 DEF Draining
<1>7. receive_enabled' => FifoDeliverable'
  <2>1. FifoClean => FifoClean'
    BY <1>1 DEF FifoClean
  <2>. QED BY <2>1, <1>1, <1>5, <1>6 DEF StreamInv, FifoDeliverable
<1>. QED BY <1>1, <1>3, <1>7, LossStep

(* Reception starts with nothing in the FIFO and nothing in the ring.      *)
LEMMA EnableStep ==
  ASSUME MachineInv, StreamInv, serial_enable_receive
  PROVE  StreamInv'
<1>1. emptied(FALSE) /\ fifo' = <<>> /\ last' = sent /\ sent' = sent /\ isr' = "none"
  BY DEF serial_enable_receive, rx_reset, fcr_reset, isrVars, at
<1>2. count' = 0 /\ contents' = <<>>
  BY <1>1, RingInv, EmptiedRing DEF Next, main_step
<1>3. sent \in Nat
  BY StreamFacts
<1>. HIDE DEF contents, count
<1>4. MayFollow(sent)' /\ last' <= sent'
  BY <1>1, <1>3 DEF MayFollow
<1>5. sent' - Len(fifo') = sent /\ sent' - Len(fifo') - count' = sent /\ sent + count' <= sent'
  BY <1>1, <1>2, <1>3
<1>6. FifoClean'
  BY <1>1, <1>4, <1>5, EmptyRun DEF FifoClean
<1>7. Consecutive(contents', sent)
  BY <1>2, EmptyRun
<1>8. RingDeliverable'
  BY <1>1, <1>3, <1>4, <1>5, <1>7 DEF RingDeliverable, MayFollow
<1>9. Linked'
  BY <1>1, <1>4, <1>5, <1>6, <1>7 DEF Linked, MayFollow
<1>10. FifoDeliverable' /\ HeadFollows'
  BY <1>1, <1>6 DEF FifoDeliverable, HeadFollows
<1>. QED BY <1>4, <1>8, <1>9, <1>10 DEF StreamInv

(* The byte serial_read returns is the first of the bytes in the ring.     *)
LEMMA ReadByte ==
  ASSUME MachineInv, StreamInv, serial_read, read_byte
  PROVE  \E b \in Nat : /\ MayFollow(b) /\ b + count <= sent /\ Consecutive(contents, b)
                        /\ last' = b + 1
<1>1. receive_enabled /\ ~Condemned
  BY DEF serial_read, at, MachineInv, BeforeEnable, read_byte, Condemned
<1>2. PICK b \in Nat : MayFollow(b) /\ b + count <= sent /\ Consecutive(contents, b)
  BY <1>1 DEF StreamInv, RingDeliverable
<1>3. count \in Nat \ {0} /\ data[tail] = contents[1]
  BY RingInv, ReadRing DEF Next, main_step, MachineInv, SerialTypeOK
<1>4. Len(contents) = count
  BY StreamFacts
<1>5. last' = data[tail]
  BY ReadOutcome DEF read_byte, read_loss, read_empty
<1>. HIDE DEF contents, count
<1>6. contents[1] = b + 1
  BY <1>2, <1>3, <1>4 DEF Consecutive
<1>. QED BY <1>2, <1>3, <1>5, <1>6

(* serial_read: a loss makes room for any later byte, a byte moves last.   *)
LEMMA ReadStep ==
  ASSUME MachineInv, StreamInv, serial_read
  PROVE  StreamInv'
<1>. USE DEF uartVars, isrVars, localVars, at
<1>1. /\ UNCHANGED <<fifo, errors, ier, interrupts, isr, receive_enabled, sent>> /\ cpu_step
      /\ pc = "read" /\ isr = "none" /\ ~sampled
  BY Zenon DEF serial_read
<1>2. receive_enabled /\ isr' = "none" /\ ~Draining
  BY <1>1 DEF MachineInv, BeforeEnable, Draining, Looping
<1>3. irr' <=> irr
  <2>1. line' <=> line
    BY <1>1 DEF line
  <2>. QED BY <2>1, <1>1, SampledValue, LatchValue DEF taken
<1>4. pc' \in {"sti", "sti_hlt"} /\ (Blocked => Blocked') /\ (Blocked' => Blocked)
  BY <1>1, <1>3, ReadOutcome DEF Blocked
<1>5. /\ sent \in Nat /\ last \in Nat /\ fifo \in Seq(Byte) /\ Len(fifo) \in Nat
      /\ count \in Nat /\ contents \in Seq(Byte) /\ Len(contents) = count
  BY StreamFacts
<1>6. RingDeliverable /\ FifoDeliverable /\ Linked /\ last <= sent
  BY <1>2 DEF StreamInv
<1>7. RxTypeOK /\ RxTypeOK'
  BY RingInv DEF Next, main_step, MachineInv, SerialTypeOK
<1>8. HeadFollows'
  BY <1>2 DEF HeadFollows
<1>9. CASE read_loss
  <2>1. last' = last /\ told' /\ failed
    BY <1>9, ReadOutcome DEF read_loss, read_empty, read_byte
  <2>2. count' = 0 /\ contents' = <<>>
    BY <1>7, <1>9, EmptiedRing DEF read_loss
  <2>. HIDE DEF contents, count
  <2>3. RingDeliverable'
    <3>1. last + count' <= sent' /\ Consecutive(contents', last)
      BY <2>2, <1>1, <1>5, <1>6, EmptyRun
    <3>2. last' <= last /\ last = last'
      BY <2>1, <1>5
    <3>. QED BY <3>1, <3>2, <1>5 DEF RingDeliverable, MayFollow
  <2>4. FifoClean' \/ errors' # {} \/ Blocked'
    <3>1. FifoClean => FifoClean'
      BY <2>1, <1>1 DEF FifoClean
    <3>. QED BY <3>1, <1>1, <1>2, <1>4, <1>6 DEF FifoDeliverable
  <2>5. FifoClean' => Linked'
    <3>. SUFFICES ASSUME FifoClean' PROVE Linked'
      OBVIOUS
    <3>1. sent' - Len(fifo') - count' = sent' - Len(fifo')
      BY <2>2, <1>1, <1>5
    <3>2. last' <= sent' - Len(fifo')
      BY DEF FifoClean
    <3>3. Consecutive(contents', sent' - Len(fifo'))
      BY <2>2, EmptyRun
    <3>. QED BY <3>1, <3>2, <3>3, <2>1 DEF Linked, MayFollow
  <2>6. FifoDeliverable' /\ Linked'
    BY <2>4, <2>5 DEF FifoDeliverable, Linked
  <2>7. last' <= sent'
    BY <2>1, <1>1, <1>6
  <2>. QED BY <2>3, <2>6, <2>7, <1>8 DEF StreamInv
<1>10. CASE read_empty
  <2>1. last' = last /\ (told' <=> told) /\ pc' = "sti_hlt" /\ UNCHANGED <<data, head, tail, failed>>
    BY <1>10, ReadOutcome DEF read_loss, read_empty, read_byte
  <2>2. told' = told
    <3>1. told \in BOOLEAN
      BY TypeParts DEF MachineInv, Flags
    <3>2. told' \in BOOLEAN
      <4>1. Flags /\ Next
        BY TypeParts, Zenon DEF MachineInv, Next, main_step
      <4>. QED BY <4>1, FlagsStep DEF Flags
    <3>. QED BY <3>1, <3>2, <2>1, Zenon
  <2>3. contents' = contents /\ count' = count
    BY <2>1 DEF contents, count, slot_at
  <2>. HIDE DEF contents, count
  <2>4. Condemned => Condemned'
    BY <2>1, <1>1 DEF Condemned
  <2>. QED BY <2>1, <2>2, <2>3, <2>4, <1>1, <1>2, <1>4, <1>5, QuietStep
<1>11. CASE read_byte
  <2>1. /\ count \in Nat \ {0} /\ count' = count - 1
        /\ data[tail] = contents[1] /\ contents' = Tail(contents)
    BY <1>7, <1>11, ReadRing
  <2>2. PICK b \in Nat : /\ MayFollow(b) /\ b + count <= sent /\ Consecutive(contents, b)
                         /\ last' = b + 1
    BY <1>11, ReadByte
  <2>3. ~Condemned
    BY <1>1, <1>11 DEF read_byte, Condemned
  <2>. HIDE DEF contents, count
  <2>4. contents # <<>> /\ b \in Int
    BY <2>1, <1>5
  <2>5. Consecutive(contents', b + 1) /\ contents[1] = b + 1
    <3>1. Head(contents) = b + 1 /\ Consecutive(Tail(contents), b + 1)
      BY <2>2, <2>4, <1>5, ShorterRun
    <3>. QED BY <3>1, <2>1, <2>4, <1>5
  <2>6. last' <= sent' /\ b + 1 + count' <= sent' /\ b + 1 \in Nat
    BY <2>1, <2>2, <1>1, <1>5
  <2>7. RingDeliverable'
    <3>1. MayFollow(b + 1)'
      BY <2>2 DEF MayFollow
    <3>. QED BY <3>1, <2>5, <2>6 DEF RingDeliverable
  <2>8. CASE errors # {} \/ Blocked
    BY <2>6, <2>7, <2>8, <1>1, <1>4, <1>8 DEF StreamInv, FifoDeliverable, Linked
  <2>9. CASE ~(errors # {} \/ Blocked)
    <3>. DEFINE c == sent - Len(fifo) - count
    <3>1. FifoClean /\ Consecutive(contents, c)
      BY <2>3, <2>9, <1>6 DEF Linked
    <3>2. c \in Int
      BY <1>5
    <3>3. c = b
      <4>. HIDE DEF c
      <4>1. Head(contents) = c + 1
        BY <3>1, <3>2, <2>4, <1>5, ShorterRun
      <4>2. Head(contents) = b + 1
        BY <2>2, <2>4, <1>5, ShorterRun
      <4>. QED BY <4>1, <4>2, <3>2, <2>4
    <3>4. last' <= sent' - Len(fifo') /\ sent' - Len(fifo') - count' = b + 1
      BY <3>3, <2>1, <2>2, <1>1, <1>5
    <3>5. FifoClean'
      BY <3>1, <3>4, <1>1 DEF FifoClean
    <3>6. Linked'
      BY <3>4, <3>5, <2>2, <2>5 DEF Linked, MayFollow
    <3>. QED BY <3>5, <3>6, <2>6, <2>7, <1>8 DEF StreamInv, FifoDeliverable
  <2>. QED BY <2>8, <2>9
<1>. QED BY <1>9, <1>10, <1>11, Zenon DEF serial_read, rx_read

(* Before reception is enabled there is nothing to show.                   *)
LEMMA StreamInitInv == SerialInit => StreamInv
BY DEF SerialInit, StreamInv

(* Every step preserves the stream's part of the invariant.                *)
LEMMA StreamStep ==
  ASSUME MachineInv, StreamInv, [Next]_vars
  PROVE  StreamInv'
<1>1. CASE UNCHANGED vars
  <2>1. UNCHANGED <<rxVars, fifo, errors, ier, irr, interrupts, sampled, isr, pc,
                    receive_enabled, sent, last, told>>
    BY <1>1, Zenon DEF vars, uartVars, isrVars, mainVars, localVars, history
  <2>2. contents' = contents /\ count' = count
    BY <2>1, SameRing
  <2>. HIDE DEF contents, count
  <2>3. (Condemned => Condemned') /\ (Blocked => Blocked') /\ (Draining => Draining')
    BY <2>1 DEF Condemned, Blocked, Draining, rxVars
  <2>. QED BY <2>1, <2>2, <2>3, StreamFacts, QuietStep
<1>2. CASE isr_step
  BY <1>2, QuietHandlerStep, UnconfiguredStep, StatusStep, DataStep, BoundStep DEF isr_step
<1>3. CASE main_step
  BY <1>3, QuietMainStep, PollStatusStep, ErrorStep, EnableStep, ReadStep DEF main_step, QuietMain
<1>4. CASE receive_good \/ receive_break \/ transmitted \/ take_irq4 \/ halt \/ timer_wakeup
  BY <1>4, ArrivalStep, QuietHandlerStep, QuietMainStep DEF QuietMain
<1>. QED BY <1>1, <1>2, <1>3, <1>4 DEF Next, stop

-----------------------------------------------------------------------------
(* Serial input implements the lossy stream.                               *)

(* Every step is a step of the stream, or invisible to it.                 *)
LEMMA StreamRefines ==
  ASSUME MachineInv, MachineInv', StreamInv, [Next]_vars
  PROVE  [Stream!StreamNext]_(Stream!streamVars)
<1>. USE DEF Stream!StreamNext, Stream!streamVars
<1>1. told \in BOOLEAN /\ told' \in BOOLEAN
  <2>1. (SerialTypeOK => Flags)'
    BY TypeParts, PTL
  <2>. QED BY <2>1, TypeParts DEF MachineInv, Flags
<1>2. CASE receive_good \/ receive_break
  BY <1>2 DEF receive_good, receive_break, mainVars, localVars, Stream!Send
<1>3. CASE serial_enable_receive
  <2>1. ~receive_enabled
    BY <1>3 DEF serial_enable_receive, at, MachineInv, Exclusion
  <2>2. receive_enabled' = TRUE /\ last' = sent /\ UNCHANGED <<sent, delivered, told>>
    BY <1>3 DEF serial_enable_receive
  <2>. QED BY <2>1, <2>2 DEF Stream!Enable
<1>4. CASE serial_read
  <2>1. receive_enabled /\ UNCHANGED <<sent, receive_enabled>>
    BY <1>4 DEF serial_read, at, localVars, MachineInv, BeforeEnable
  <2>2. CASE read_byte
    <3>1. delivered' = delivered + 1 /\ last' = data[tail] /\ ~told'
      BY <1>4, <2>2, ReadOutcome DEF read_byte, read_loss, read_empty
    <3>2. told' = FALSE
      BY <3>1, <1>1, Zenon
    <3>3. PICK b \in Nat : MayFollow(b) /\ b + count <= sent /\ last' = b + 1
      BY <1>4, <2>2, ReadByte
    <3>4. count \in Nat \ {0} /\ sent \in Nat /\ last \in Nat
      BY <2>2, RingInv, ReadRing, StreamFacts DEF MachineInv, SerialTypeOK
    <3>5. b + 1 \in last + 1 .. sent /\ (b + 1 = last + 1 \/ told)
      <4>. HIDE DEF count
      <4>. QED BY <3>3, <3>4 DEF MayFollow
    <3>6. Stream!Deliver
      BY <2>1, <3>1, <3>2, <3>3, <3>5 DEF Stream!Deliver
    <3>. QED BY <3>6
  <2>3. CASE read_loss
    <3>1. delivered' = delivered /\ last' = last /\ told'
      BY <1>4, <2>3, ReadOutcome DEF read_byte, read_loss, read_empty
    <3>2. told' = TRUE
      BY <3>1, <1>1, Zenon
    <3>. QED BY <2>1, <3>1, <3>2 DEF Stream!Report
  <2>4. CASE read_empty
    <3>1. delivered' = delivered /\ last' = last /\ (told' <=> told)
      BY <1>4, <2>4, ReadOutcome DEF read_byte, read_loss, read_empty
    <3>2. told' = told
      BY <3>1, <1>1, Zenon
    <3>. QED BY <2>1, <3>1, <3>2
  <2>. QED BY <1>4, <2>2, <2>3, <2>4, Zenon DEF serial_read, rx_read
<1>5. CASE UNCHANGED <<receive_enabled, history>>
  BY <1>5 DEF history
<1>. USE DEF localVars, mainVars
<1>6. CASE isr_step \/ take_irq4 \/ transmitted \/ halt \/ timer_wakeup
  BY <1>5, <1>6, Zenon DEF isr_step, read_iir, unconfigured_cause, receive_status, receive_data,
     loop_bound, return_from_irq, take_irq4, transmitted, halt, timer_wakeup, elsewhere
<1>7. CASE main_step /\ ~serial_read /\ ~serial_enable_receive
  BY <1>5, <1>7, Zenon DEF main_step, output_byte, wait_status, receive_error, output_done,
     write_ier, x86_disable_interrupts, x86_enable_interrupts, x86_enable_and_idle, elsewhere
<1>8. CASE stop \/ UNCHANGED vars
  BY <1>5, <1>8, Zenon DEF stop, vars
<1>. QED BY <1>2, <1>3, <1>4, <1>6, <1>7, <1>8, Zenon DEF Next

(* serial_read delivers a stream, whatever overruns, breaks and device     *)
(* faults happen: bytes in order, each at most once, none garbled, and     *)
(* none missing without a -1 before the next.                              *)
THEOREM SerialStreams == Spec => StreamContract
<1>1. SerialInit => Stream!StreamInit
  BY DEF SerialInit, Stream!StreamInit
<1>2. Spec => []StreamInv
  BY StreamInitInv, StreamStep, SerialInvariant, PTL DEF Spec
<1>. QED BY <1>1, <1>2, StreamRefines, SerialInvariant, PTL DEF Spec, StreamContract, Stream!StreamSpec
=============================================================================
