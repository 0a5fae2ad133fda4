----------------------------- MODULE MCSerialRx -----------------------------
(* Serial input with a three-slot ring and a two-byte FIFO: both overflow  *)
(* with five bytes, and the handler's loop reaches its bound.              *)
EXTENDS SerialRx

MCByte == 0 .. MaxBytes
=============================================================================
