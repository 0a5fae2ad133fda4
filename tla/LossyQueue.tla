----------------------------- MODULE LossyQueue -----------------------------
(***************************************************************************)
(* What the serial receive buffer promises its users (the comment in       *)
(* kernel/rx_buffer.h): a bounded FIFO which, once a byte is lost, holds   *)
(* nothing and accepts nothing until the reader has been told.             *)
(***************************************************************************)
EXTENDS Integers, Sequences

CONSTANTS Byte, Bound

VARIABLES
  queue,   \* the bytes a reader will get
  lost,    \* a byte was lost and the reader has not been told
  result   \* the last call and what it returned

queueVars == <<queue, lost, result>>

Emptied(loss) == queue' = <<>> /\ lost' = loss

QueueInit == queue = <<>> /\ lost = FALSE /\ result = <<"reset">>

Reset == Emptied(FALSE) /\ result' = <<"reset">>

Fail == Emptied(TRUE) /\ result' = <<"fail">>

Accept(byte) ==
  /\ ~lost /\ Len(queue) < Bound
  /\ queue' = Append(queue, byte)
  /\ result' = <<"push", TRUE>>
  /\ UNCHANGED lost

Refuse ==
  /\ lost \/ Len(queue) = Bound
  /\ Emptied(TRUE)
  /\ result' = <<"push", FALSE>>

Report == lost /\ Emptied(FALSE) /\ result' = <<"read", -1>>

Nothing == ~lost /\ queue = <<>> /\ result' = <<"read", 0>> /\ UNCHANGED <<queue, lost>>

Deliver ==
  /\ ~lost /\ queue # <<>>
  /\ result' = <<"read", 1, Head(queue)>>
  /\ queue' = Tail(queue)
  /\ UNCHANGED lost

QueueNext ==
  \/ Reset \/ Fail \/ Refuse \/ Report \/ Nothing \/ Deliver
  \/ \E byte \in Byte : Accept(byte)

QueueSpec == QueueInit /\ [][QueueNext]_queueVars
=============================================================================
