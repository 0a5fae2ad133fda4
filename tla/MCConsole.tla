------------------------------ MODULE MCConsole ------------------------------
(* Lines of up to four bytes of every class in a three-byte array: two     *)
(* characters fit, and a CSI sequence with a parameter, ESC CSI 1 a.       *)
EXTENDS ConsoleRef

MCHaltText == <<"a", "a">>
=============================================================================
