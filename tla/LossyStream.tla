----------------------------- MODULE LossyStream -----------------------------
(***************************************************************************)
(* What serial_read promises the console (kernel/serial.h): the bytes come *)
(* in the order they were sent, each at most once, and whenever one is     *)
(* missing the reader has been told so since the byte before the gap.      *)
(* The reader counts the bytes it gets, so that no delivery, a repeated or *)
(* an invented byte included, looks like a step in which nothing happens.  *)
(***************************************************************************)
EXTENDS Naturals

VARIABLES
  sent,       \* bytes sent so far; the n-th byte sent is called n
  enabled,    \* reception was enabled, which happens once
  delivered,  \* how many bytes the reader was given
  last,       \* the last byte it was given, or sent when reception was enabled
  told        \* a loss was reported since then

streamVars == <<sent, enabled, delivered, last, told>>

StreamInit ==
  sent = 0 /\ enabled = FALSE /\ delivered = 0 /\ last = 0 /\ told = FALSE

Send == sent' = sent + 1 /\ UNCHANGED <<enabled, delivered, last, told>>

(* Reception starts with the next byte; nothing is delivered before.       *)
Enable ==
  /\ ~enabled /\ enabled' = TRUE
  /\ last' = sent
  /\ UNCHANGED <<sent, delivered, told>>

Deliver ==
  /\ enabled
  /\ \E byte \in last + 1 .. sent : (byte = last + 1 \/ told) /\ last' = byte
  /\ delivered' = delivered + 1
  /\ told' = FALSE
  /\ UNCHANGED <<sent, enabled>>

Report == enabled /\ told' = TRUE /\ UNCHANGED <<sent, enabled, delivered, last>>

StreamNext == Send \/ Enable \/ Deliver \/ Report

StreamSpec == StreamInit /\ [][StreamNext]_streamVars
=============================================================================
