------------------------------ MODULE RxProofs ------------------------------
(***************************************************************************)
(* Proofs about the receive ring, for every capacity and every set of      *)
(* bytes: its indices stay inside the array, a loss empties it, and it     *)
(* implements the bounded queue of LossyQueue.                             *)
(***************************************************************************)
EXTENDS RxBuffer, TLAPS

(* The inductive invariant of the ring.                                    *)
RxInv == RxTypeOK /\ FailedIsEmpty

(* The capacity is a positive number.                                      *)
LEMMA CapacityType == RX_CAPACITY \in Nat \ {0}
BY RxAssumption

(* (index + 1) % RX_CAPACITY by cases.                                     *)
LEMMA AfterValue ==
  ASSUME NEW slot \in Slots
  PROVE  after(slot) = IF slot + 1 = RX_CAPACITY THEN 0 ELSE slot + 1
<1>1. slot \in 0 .. RX_CAPACITY - 1
  BY DEF Slots
<1>. QED BY <1>1, CapacityType, SMTT(20) DEF after

(* The next index lies inside the array.                                   *)
LEMMA AfterType ==
  ASSUME NEW slot \in Slots
  PROVE  after(slot) \in Slots
<1>1. slot \in 0 .. RX_CAPACITY - 1
  BY DEF Slots
<1>. QED BY <1>1, AfterValue, CapacityType DEF Slots

(* So does the first.                                                      *)
LEMMA ZeroType == 0 \in Slots
BY CapacityType DEF Slots

(* The static object satisfies the invariant.                              *)
LEMMA RxInitInv == RxInit => RxInv
<1>. SUFFICES ASSUME RxInit PROVE RxInv
  OBVIOUS
<1>. QED BY ZeroType DEF RxInit, RxInv, RxTypeOK, FailedIsEmpty, Results

(* Every call preserves the invariant.                                     *)
LEMMA RxStepInv ==
  ASSUME RxInv, [RxNext]_rxVars
  PROVE  RxInv'
<1>. USE DEF RxInv, RxTypeOK, FailedIsEmpty, Results
<1>1. CASE rx_reset
  BY <1>1, ZeroType DEF rx_reset, emptied
<1>2. CASE rx_fail
  BY <1>2, ZeroType DEF rx_fail, emptied
<1>3. ASSUME NEW byte \in Byte, rx_push(byte) PROVE RxInv'
  <2>1. CASE failed /\ result' = <<"push", FALSE>> /\ UNCHANGED <<data, head, tail, failed>>
    BY <2>1
  <2>2. CASE emptied(TRUE) /\ result' = <<"push", FALSE>>
    BY <2>2, ZeroType DEF emptied
  <2>3. CASE ~failed /\ store(byte)
    <3>1. data' \in [Slots -> Byte]
      BY <2>3 DEF store
    <3>2. head' \in Slots
      BY <2>3, AfterType DEF store
    <3>. QED BY <2>3, <3>1, <3>2 DEF store
  <2>. QED BY <1>3, <2>1, <2>2, <2>3 DEF rx_push
<1>4. CASE rx_read
  <2>1. CASE read_loss
    BY <2>1, ZeroType DEF read_loss, emptied
  <2>2. CASE read_empty
    BY <2>2 DEF read_empty
  <2>3. CASE read_byte
    <3>1. data[tail] \in Byte
      OBVIOUS
    <3>2. tail' \in Slots
      BY <2>3, AfterType DEF read_byte
    <3>. QED BY <2>3, <3>1, <3>2 DEF read_byte
  <2>. QED BY <1>4, <2>1, <2>2, <2>3 DEF rx_read
<1>5. CASE UNCHANGED rxVars
  BY <1>5 DEF rxVars
<1>. QED BY <1>1, <1>2, <1>3, <1>4, <1>5 DEF RxNext

(* Everything below follows from it.                                       *)
THEOREM RxInvariant == RxSpec => []RxInv
<1>1. RxInit => RxInv
  BY RxInitInv
<1>2. RxInv /\ [RxNext]_rxVars => RxInv'
  BY RxStepInv
<1>. QED BY <1>1, <1>2, PTL DEF RxSpec

(* Both indices always lie inside the array (rx_push, rx_read).            *)
THEOREM RxTypeCorrect == RxSpec => []RxTypeOK
<1>1. RxInv => RxTypeOK
  BY DEF RxInv
<1>. QED BY <1>1, RxInvariant, PTL

(* A ring with a pending loss is empty (rx_fail, rx_push).                 *)
THEOREM RxFailedEmpty == RxSpec => []FailedIsEmpty
<1>1. RxInv => FailedIsEmpty
  BY DEF RxInv
<1>. QED BY <1>1, RxInvariant, PTL

-----------------------------------------------------------------------------
(* The ring implements the queue.                                          *)

(* The ring never holds RX_CAPACITY bytes: one slot stays empty.           *)
LEMMA CountType ==
  ASSUME RxTypeOK
  PROVE  count \in 0 .. RX_CAPACITY - 1
BY CapacityType DEF RxTypeOK, Slots, count

(* Every position is a slot.                                               *)
LEMMA SlotType ==
  ASSUME RxTypeOK, NEW i \in 0 .. RX_CAPACITY - 1
  PROVE  slot_at(i) \in Slots
BY CapacityType DEF RxTypeOK, Slots, slot_at

(* contents is the sequence its definition suggests.                       *)
ContentsShape ==
  /\ contents \in Seq(Byte)
  /\ Len(contents) = count
  /\ \A i \in 1 .. count : contents[i] = data[slot_at(i - 1)]

(* contents is a sequence of bytes, count bytes long.                      *)
LEMMA ContentsType == RxTypeOK => ContentsShape
<1>. SUFFICES ASSUME RxTypeOK PROVE ContentsShape
  OBVIOUS
<1>1. count \in Nat
  BY CountType, CapacityType
<1>2. \A i \in 1 .. count : data[slot_at(i - 1)] \in Byte
  <2>. SUFFICES ASSUME NEW i \in 1 .. count PROVE data[slot_at(i - 1)] \in Byte
    OBVIOUS
  <2>1. i - 1 \in 0 .. RX_CAPACITY - 1
    BY <1>1, CountType, CapacityType
  <2>. QED BY <2>1, SlotType DEF RxTypeOK
<1>. QED BY <1>1, <1>2 DEF contents, ContentsShape

(* The same after a step.                                                  *)
LEMMA ContentsTypeNext ==
  ASSUME RxTypeOK'
  PROVE  /\ contents' \in Seq(Byte)
         /\ Len(contents') = count'
         /\ \A i \in 1 .. count' : contents'[i] = data'[slot_at(i - 1)']
<1>1. (RxTypeOK => ContentsShape)'
  BY ContentsType, PTL
<1>. QED BY <1>1 DEF ContentsShape

(* head = tail says that there is nothing to read.                         *)
LEMMA EmptyContents == RxTypeOK => ((head = tail) <=> (contents = <<>>))
<1>. SUFFICES ASSUME RxTypeOK PROVE (head = tail) <=> (contents = <<>>)
  OBVIOUS
<1>1. (head = tail) <=> (count = 0)
  BY CapacityType DEF RxTypeOK, Slots, count
<1>2. (count = 0) <=> (contents = <<>>)
  BY CountType, ContentsType DEF ContentsShape
<1>. QED BY <1>1, <1>2

(* The write index would meet the read index exactly when RX_CAPACITY - 1  *)
(* bytes are in the ring.                                                  *)
LEMMA FullContents ==
  ASSUME RxTypeOK
  PROVE  (after(head) = tail) <=> (Len(contents) = RX_CAPACITY - 1)
<1>1. (after(head) = tail) <=> (count = RX_CAPACITY - 1)
  BY CapacityType, AfterValue DEF RxTypeOK, Slots, count
<1>. QED BY <1>1, ContentsType DEF ContentsShape

(* Storing a byte appends it: the wrapped positions of the others stay.    *)
LEMMA StoreAppends ==
  ASSUME RxTypeOK, RxTypeOK', NEW byte \in Byte, store(byte), after(head) # tail
  PROVE  contents' = Append(contents, byte)
<1>1. /\ head' = after(head) /\ tail' = tail
      /\ data' = [data EXCEPT ![head] = byte]
  BY DEF store
<1>2. /\ head \in 0 .. RX_CAPACITY - 1 /\ tail \in 0 .. RX_CAPACITY - 1
      /\ data \in [Slots -> Byte]
  BY DEF RxTypeOK, Slots
<1>3. count' = count + 1
  <2>1. head' = IF head + 1 = RX_CAPACITY THEN 0 ELSE head + 1
    BY <1>1, AfterValue DEF RxTypeOK
  <2>2. head' # tail
    BY <1>1
  <2>. QED BY <1>1, <1>2, <2>1, <2>2, CapacityType DEF count
<1>4. slot_at(count) = head
  BY <1>2, CapacityType DEF count, slot_at
<1>5. \A i \in 0 .. count - 1 : slot_at(i) # head
  BY <1>2, CapacityType DEF count, slot_at
<1>6. \A i : slot_at(i)' = slot_at(i)
  BY <1>1 DEF slot_at
<1>7. contents' \in Seq(Byte) /\ Len(contents') = count + 1
  BY <1>3, ContentsTypeNext
<1>8. \A i \in 1 .. count + 1 : contents'[i] = Append(contents, byte)[i]
  <2>. SUFFICES ASSUME NEW i \in 1 .. count + 1 PROVE contents'[i] = Append(contents, byte)[i]
    OBVIOUS
  <2>1. contents'[i] = data'[slot_at(i - 1)]
    <3>1. \A k \in 1 .. count' : contents'[k] = data'[slot_at(k - 1)']
      BY ContentsTypeNext
    <3>. QED BY <3>1, <1>3, <1>6
  <2>2. CASE i = count + 1
    <3>1. data'[slot_at(i - 1)] = byte
      BY <2>2, <1>1, <1>2, <1>4, CountType, CapacityType DEF Slots
    <3>2. Append(contents, byte)[i] = byte
      BY <2>2, ContentsType, CountType, CapacityType DEF ContentsShape
    <3>. QED BY <2>1, <3>1, <3>2
  <2>3. CASE i # count + 1
    <3>1. i \in 1 .. count /\ i - 1 \in 0 .. count - 1 /\ i - 1 \in 0 .. RX_CAPACITY - 1
      BY <2>3, CountType, CapacityType
    <3>2. data'[slot_at(i - 1)] = data[slot_at(i - 1)]
      BY <3>1, <1>1, <1>2, <1>5, SlotType
    <3>3. Append(contents, byte)[i] = contents[i]
      BY <3>1, ContentsType, CountType, CapacityType DEF ContentsShape
    <3>. QED BY <2>1, <3>1, <3>2, <3>3, ContentsType DEF ContentsShape
  <2>. QED BY <2>2, <2>3
<1>. HIDE DEF contents, count
<1>9. Append(contents, byte) \in Seq(Byte) /\ Len(Append(contents, byte)) = count + 1
  BY ContentsType DEF ContentsShape
<1>. QED BY <1>7, <1>8, <1>9, CountType, CapacityType

(* Reading a byte takes the first one away.                                *)
LEMMA ReadTakesHead ==
  ASSUME RxTypeOK, RxTypeOK', read_byte
  PROVE  /\ contents # <<>>
         /\ data[tail] = Head(contents)
         /\ contents' = Tail(contents)
<1>1. head # tail /\ tail' = after(tail) /\ head' = head /\ data' = data
  BY DEF read_byte
<1>2. /\ head \in 0 .. RX_CAPACITY - 1 /\ tail \in 0 .. RX_CAPACITY - 1
  BY DEF RxTypeOK, Slots
<1>3. count' = count - 1 /\ count \in 1 .. RX_CAPACITY - 1
  BY <1>1, <1>2, AfterValue, CapacityType DEF count, Slots
<1>4. contents # <<>>
  BY <1>1, EmptyContents
<1>5. slot_at(0) = tail
  BY <1>2, CapacityType DEF slot_at
<1>6. data[tail] = Head(contents)
  <2>1. 1 \in 1 .. count /\ 1 - 1 = 0
    BY <1>3, CapacityType
  <2>2. contents[1] = data[slot_at(0)]
    BY <2>1, ContentsType DEF ContentsShape
  <2>3. Head(contents) = contents[1]
    BY <1>4, ContentsType DEF ContentsShape
  <2>. QED BY <2>2, <2>3, <1>5
<1>7. \A i \in 0 .. count - 1 : slot_at(i)' = slot_at(i + 1)
  BY <1>1, <1>2, AfterValue, CapacityType DEF slot_at, count, Slots
<1>8. \A i \in 1 .. count - 1 : contents'[i] = Tail(contents)[i]
  <2>. SUFFICES ASSUME NEW i \in 1 .. count - 1 PROVE contents'[i] = Tail(contents)[i]
    OBVIOUS
  <2>1. i \in 1 .. count' /\ i - 1 \in 0 .. count - 1 /\ i + 1 \in 1 .. count /\ i - 1 + 1 = i
    BY <1>3, CapacityType
  <2>2. contents'[i] = data'[slot_at(i - 1)']
    BY <2>1, ContentsTypeNext
  <2>3. slot_at(i - 1)' = slot_at(i)
    BY <2>1, <1>7
  <2>4. contents[i + 1] = data[slot_at(i)]
    <3>1. i + 1 - 1 = i
      BY <2>1, <1>3, CapacityType
    <3>. QED BY <3>1, <2>1, ContentsType DEF ContentsShape
  <2>5. Tail(contents)[i] = contents[i + 1]
    BY <1>3, <1>4, ContentsType, CapacityType DEF ContentsShape
  <2>. QED BY <1>1, <2>2, <2>3, <2>4, <2>5
<1>9. contents' \in Seq(Byte) /\ Len(contents') = count - 1
  BY <1>3, ContentsTypeNext
<1>10. Tail(contents) \in Seq(Byte) /\ Len(Tail(contents)) = count - 1
  BY <1>3, <1>4, ContentsType, CapacityType DEF ContentsShape
<1>11. contents' = Tail(contents)
  <2>. HIDE DEF contents, count
  <2>. QED BY <1>3, <1>8, <1>9, <1>10, CapacityType
<1>. QED BY <1>4, <1>6, <1>11

(* The empty ring is the empty queue.                                      *)
LEMMA InitRefines == RxInit => Queue!QueueInit
<1>. SUFFICES ASSUME RxInit PROVE Queue!QueueInit
  OBVIOUS
<1>1. RxTypeOK
  BY RxInitInv DEF RxInv
<1>2. contents = <<>>
  BY <1>1, EmptyContents DEF RxInit
<1>. QED BY <1>2 DEF RxInit, Queue!QueueInit

(* head = tail says so after a step as well.                               *)
LEMMA EmptyContentsNext ==
  ASSUME RxTypeOK', head' = tail'
  PROVE  contents' = <<>>
<1>1. (RxTypeOK => ((head = tail) <=> (contents = <<>>)))'
  BY EmptyContents, PTL
<1>. QED BY <1>1

(* Every call of the ring is the call of the queue with the same result.   *)
LEMMA StepRefines ==
  ASSUME RxInv, RxInv', [RxNext]_rxVars
  PROVE  [Queue!QueueNext]_(Queue!queueVars)
<1>. USE DEF RxInv
<1>1. emptied(TRUE) \/ emptied(FALSE) => contents' = <<>>
  BY EmptyContentsNext DEF emptied
<1>2. CASE rx_reset
  BY <1>1, <1>2 DEF rx_reset, emptied, Queue!QueueNext, Queue!Reset, Queue!Emptied
<1>3. CASE rx_fail
  BY <1>1, <1>3 DEF rx_fail, emptied, Queue!QueueNext, Queue!Fail, Queue!Emptied
<1>4. ASSUME NEW byte \in Byte, rx_push(byte) PROVE Queue!QueueNext
  <2>1. CASE failed /\ result' = <<"push", FALSE>> /\ UNCHANGED <<data, head, tail, failed>>
    <3>1. contents' = <<>> /\ failed' = TRUE
      BY <2>1, EmptyContentsNext DEF FailedIsEmpty, RxTypeOK
    <3>2. Queue!Refuse
      BY <2>1, <3>1 DEF Queue!Refuse, Queue!Emptied
    <3>. QED BY <3>2 DEF Queue!QueueNext
  <2>2. CASE ~failed /\ after(head) = tail /\ emptied(TRUE) /\ result' = <<"push", FALSE>>
    <3>1. Len(contents) = RX_CAPACITY - 1
      BY <2>2, FullContents
    <3>2. Queue!Refuse
      BY <2>2, <3>1, <1>1 DEF emptied, Queue!Refuse, Queue!Emptied
    <3>. QED BY <3>2 DEF Queue!QueueNext
  <2>3. CASE ~failed /\ after(head) # tail /\ store(byte)
    <3>1. Len(contents) \in 0 .. RX_CAPACITY - 1 /\ Len(contents) # RX_CAPACITY - 1
      BY <2>3, FullContents, ContentsType, CountType DEF ContentsShape
    <3>2. Len(contents) < RX_CAPACITY - 1
      BY <3>1, CapacityType
    <3>3. contents' = Append(contents, byte)
      BY <2>3, StoreAppends
    <3>4. Queue!Accept(byte)
      BY <2>3, <3>2, <3>3 DEF store, Queue!Accept
    <3>. QED BY <3>4 DEF Queue!QueueNext
  <2>. QED BY <1>4, <2>1, <2>2, <2>3 DEF rx_push
<1>5. CASE read_loss
  BY <1>1, <1>5 DEF read_loss, emptied, Queue!QueueNext, Queue!Report, Queue!Emptied
<1>6. CASE read_empty
  <2>1. contents = <<>> /\ contents' = <<>>
    BY <1>6, EmptyContents, EmptyContentsNext DEF read_empty
  <2>2. Queue!Nothing
    BY <1>6, <2>1 DEF read_empty, Queue!Nothing
  <2>. QED BY <2>2 DEF Queue!QueueNext
<1>7. CASE read_byte
  <2>1. contents # <<>> /\ data[tail] = Head(contents) /\ contents' = Tail(contents)
    BY <1>7, ReadTakesHead
  <2>2. Queue!Deliver
    BY <1>7, <2>1 DEF read_byte, Queue!Deliver
  <2>. QED BY <2>2 DEF Queue!QueueNext
<1>8. CASE UNCHANGED rxVars
  <2>1. contents' = contents
    BY <1>8 DEF rxVars, contents, count, slot_at
  <2>. QED BY <1>8, <2>1 DEF rxVars, Queue!queueVars
<1>. QED BY <1>2, <1>3, <1>4, <1>5, <1>6, <1>7, <1>8 DEF RxNext, rx_read

(* The ring of rx_buffer.c implements the bounded, lossy queue, for every  *)
(* capacity: the wrap-around of its two indices is invisible, full and     *)
(* empty are told apart, and every call returns what the queue returns.    *)
THEOREM RxRefinesQueue == RxSpec => RingIsQueue
<1>1. RxInit => Queue!QueueInit
  BY InitRefines
<1>2. RxInv /\ RxInv' /\ [RxNext]_rxVars => [Queue!QueueNext]_(Queue!queueVars)
  BY StepRefines
<1>. QED BY <1>1, <1>2, RxInvariant, PTL DEF RxSpec, RingIsQueue, Queue!QueueSpec
=============================================================================
