---------------------------- MODULE MCKernelBoot ----------------------------
(* The timer, the serial port and a line of the slave and the last of both *)
(* controllers, where spurious interrupts appear.                          *)
EXTENDS KernelBoot

MCLines == {0, 4, 7, 15}
=============================================================================
