------------------------------ MODULE RxBuffer ------------------------------
(***************************************************************************)
(* The receive ring, kernel/rx_buffer.c.  Every call is made with          *)
(* interrupts disabled on the only CPU, so every call is one step.         *)
(***************************************************************************)
EXTENDS Integers, Sequences

CONSTANTS
  RX_CAPACITY,  \* slots of the ring, one of which stays empty
  Byte          \* the values a byte may have

ASSUME RxAssumption == RX_CAPACITY \in Nat \ {0} /\ Byte # {}

VARIABLES
  data, head, tail, failed,
  result        \* the last call and what it returned, the byte read included

rxVars == <<data, head, tail, failed, result>>

Slots == 0 .. RX_CAPACITY - 1

(* The index that follows another in the ring.                             *)
after(slot) == (slot + 1) % RX_CAPACITY

(* Both rx_reset and rx_fail empty the ring.                               *)
emptied(loss) == head' = 0 /\ tail' = 0 /\ failed' = loss /\ UNCHANGED data

(* A static object: the array is zero, which is one of the bytes.          *)
RxInit ==
  /\ \E zero \in Byte : data = [slot \in Slots |-> zero]
  /\ head = 0 /\ tail = 0 /\ failed = FALSE
  /\ result = <<"reset">>

rx_reset == emptied(FALSE) /\ result' = <<"reset">>

(* Faulty variant: the queued bytes survive the loss.                      *)
rx_fail_keeps_data ==
  /\ failed' = TRUE
  /\ result' = <<"fail">>
  /\ UNCHANGED <<data, head, tail>>

rx_fail == emptied(TRUE) /\ result' = <<"fail">>

store(byte) ==
  /\ data' = [data EXCEPT ![head] = byte]
  /\ head' = after(head)
  /\ result' = <<"push", TRUE>>
  /\ UNCHANGED <<tail, failed>>

(* Faulty variant: the last empty slot is filled too.                      *)
rx_push_no_gap(byte) ==
  \/ failed /\ result' = <<"push", FALSE>> /\ UNCHANGED <<data, head, tail, failed>>
  \/ ~failed /\ store(byte)

rx_push(byte) ==
  \/ failed /\ result' = <<"push", FALSE>> /\ UNCHANGED <<data, head, tail, failed>>
  \/ ~failed /\ after(head) = tail /\ emptied(TRUE) /\ result' = <<"push", FALSE>>
  \/ ~failed /\ after(head) # tail /\ store(byte)

(* The three outcomes of rx_read: -1, 0 and 1.                             *)
read_loss == failed /\ emptied(FALSE) /\ result' = <<"read", -1>>

read_empty ==
  /\ ~failed /\ head = tail
  /\ result' = <<"read", 0>>
  /\ UNCHANGED <<data, head, tail, failed>>

(* Faulty variant: the index runs off the end of the array's last slot.    *)
read_byte_no_wrap ==
  /\ ~failed /\ head # tail
  /\ result' = <<"read", 1, data[tail]>>
  /\ tail' = tail + 1
  /\ UNCHANGED <<data, head, failed>>

read_byte ==
  /\ ~failed /\ head # tail
  /\ result' = <<"read", 1, data[tail]>>
  /\ tail' = after(tail)
  /\ UNCHANGED <<data, head, failed>>

rx_read == read_loss \/ read_empty \/ read_byte

RxNext ==
  \/ rx_reset
  \/ rx_fail
  \/ \E byte \in Byte : rx_push(byte)
  \/ rx_read

RxSpec == RxInit /\ [][RxNext]_rxVars

-----------------------------------------------------------------------------
Results ==
  {<<"reset">>, <<"fail">>, <<"push", TRUE>>, <<"push", FALSE>>, <<"read", -1>>, <<"read", 0>>}
    \cup {<<"read", 1, byte>> : byte \in Byte}

(* Every variable has its type: both indices stay inside the array.        *)
RxTypeOK ==
  /\ data \in [Slots -> Byte]
  /\ head \in Slots /\ tail \in Slots
  /\ failed \in BOOLEAN
  /\ result \in Results

(* Bytes in the ring, and the bytes themselves in the order of reading.    *)
count == IF tail <= head THEN head - tail ELSE head - tail + RX_CAPACITY

slot_at(i) == IF tail + i < RX_CAPACITY THEN tail + i ELSE tail + i - RX_CAPACITY

contents == [i \in 1 .. count |-> data[slot_at(i - 1)]]

(* A ring with a pending loss is empty: no byte that was queued before a   *)
(* loss is readable after the loss has been reported.                      *)
FailedIsEmpty == failed => head = tail

Queue == INSTANCE LossyQueue WITH queue <- contents, lost <- failed, Bound <- RX_CAPACITY - 1

(* The ring is a bounded queue that loses everything at once and says so:  *)
(* its two indices wrap alike, a full ring is told apart from an empty     *)
(* one, and every call returns what the queue would return.                *)
RingIsQueue == Queue!QueueSpec
=============================================================================
