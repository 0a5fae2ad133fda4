----------------------------- MODULE MCRxBuffer -----------------------------
(* The ring with four slots and two byte values, from every call sequence. *)
EXTENDS RxBuffer
=============================================================================
