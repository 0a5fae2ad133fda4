------------------------------ MODULE Console ------------------------------
(***************************************************************************)
(* The line editor and command loop of kernel/console.c.  Its input is     *)
(* what serial_read returns: a byte, or -1 for a loss.                     *)
(***************************************************************************)
EXTENDS Integers, Sequences, FiniteSets, FiniteSetsExt

CONSTANTS
  LINE_SIZE,  \* sizeof(editor.line)
  HaltText,   \* the text of the halt command
  Leftover    \* what an uninitialised byte of the array may be

(* One byte of every class the code tells apart: a letter and a digit (a   *)
(* CSI sequence ends with 0x40..0x7e), space, the CSI or SS3 introducer    *)
(* (printable, and a final byte), and the control characters.              *)
Printable == {"a", "1", "SP", "CSI"}
Final     == {"a", "CSI"}
Control   == {"TAB", "BS", "ESC", "ETX", "CR", "LF", "CTL"}
Bytes     == Printable \cup Control

ASSUME ConsoleAssumption ==
  LINE_SIZE \in Nat \ {0} /\ Leftover \subseteq Printable \cup {"NUL"}

VARIABLES
  line,       \* the array, as [0 .. LINE_SIZE - 1 -> Printable \cup {"NUL"}]
  length, escape, after_cr, discard,
  outcome,    \* what the last input did: <<"none">>, <<"cancelled">>, <<"discarded">>
              \* or <<"executed", text>>
  running     \* "yes", or why the loop has ended

editor == <<line, length, escape, after_cr, discard>>
vars == <<editor, outcome, running>>

(* The array is on the stack and uninitialised.                            *)
Init ==
  /\ line \in [0 .. LINE_SIZE - 1 -> Leftover]
  /\ length = 0 /\ escape = 0 /\ after_cr = FALSE /\ discard = FALSE
  /\ outcome = <<"none">>
  /\ running = "yes"

reset_line == length' = 0 /\ escape' = 0 /\ discard' = FALSE

-----------------------------------------------------------------------------
(* execute cuts trailing blanks by storing a NUL, skips leading ones, and  *)
(* compares what is left up to the first NUL with the command names.       *)
trimmed_length == Max({0} \cup {i \in 1 .. length : line[i - 1] # "SP"})

terminated == [line EXCEPT ![trimmed_length] = "NUL"]

command(buffer) ==
  LET first == Min({i \in DOMAIN buffer : buffer[i] # "SP"})
      nul   == Min({i \in first .. LINE_SIZE - 1 : buffer[i] = "NUL"})
  IN  [i \in 1 .. nul - first |-> buffer[first + i - 1]]

execute ==
  /\ line' = terminated
  /\ outcome' = <<"executed", command(terminated)>>
  /\ running' = IF command(terminated) = HaltText THEN "halted" ELSE "yes"

finish_line ==
  /\ IF discard THEN outcome' = <<"discarded">> /\ UNCHANGED <<line, running>> ELSE execute
  /\ IF running' = "yes" THEN reset_line ELSE UNCHANGED <<length, escape, discard>>

-----------------------------------------------------------------------------
(* consume_escape returns true in these states and moves to this one.      *)
in_escape(byte) == escape # 0 \/ byte = "ESC"

(* Faulty variant: a parameter byte ends a CSI sequence.                   *)
consume_escape_early(byte) ==
  escape' = IF escape = 0 THEN 1 ELSE IF escape = 1 /\ byte = "CSI" THEN 2 ELSE 0

consume_escape(byte) ==
  escape' = CASE escape = 0 -> 1
              [] escape = 1 -> IF byte = "CSI" THEN 2 ELSE 0
              [] escape = 2 -> IF byte \in Final THEN 0 ELSE 2

insert(byte) ==
  /\ line' = [line EXCEPT ![length] = IF byte = "TAB" THEN "SP" ELSE byte]
  /\ length' = length + 1
  /\ UNCHANGED <<escape, discard>>

(* Faulty variant: the last slot, kept for the NUL, is filled as well.     *)
type_character_over(byte) ==
  IF length = LINE_SIZE
  THEN discard' = TRUE /\ UNCHANGED <<line, length, escape>>
  ELSE insert(byte)

type_character(byte) ==
  IF length = LINE_SIZE - 1
  THEN discard' = TRUE /\ UNCHANGED <<line, length, escape>>
  ELSE insert(byte)

edit_character(byte) ==
  \/ discard /\ UNCHANGED <<line, length, escape, discard>>
  \/ /\ ~discard /\ in_escape(byte)
     /\ consume_escape(byte)
     /\ UNCHANGED <<line, length, discard>>
  \/ /\ ~discard /\ ~in_escape(byte) /\ byte = "BS"
     /\ length' = IF length = 0 THEN 0 ELSE length - 1
     /\ UNCHANGED <<line, escape, discard>>
  \/ /\ ~discard /\ ~in_escape(byte) /\ byte = "CTL"
     /\ UNCHANGED <<line, length, escape, discard>>
  \/ /\ ~discard /\ ~in_escape(byte) /\ byte \in Printable \cup {"TAB"}
     /\ type_character(byte)

(* Faulty variant: the line feed of a CRLF is taken for a second Enter.    *)
is_enter_twice(byte) == byte \in {"CR", "LF"}

is_enter(byte) == byte = "CR" \/ (byte = "LF" /\ ~after_cr)

accept_input(byte) ==
  /\ after_cr' = (byte = "CR")
  /\ \/ /\ is_enter(byte)
        /\ finish_line
     \/ /\ byte = "LF" /\ ~is_enter(byte)
        /\ outcome' = <<"none">>
        /\ UNCHANGED <<line, length, escape, discard, running>>
     \/ /\ byte = "ETX"
        /\ reset_line
        /\ outcome' = <<"cancelled">>
        /\ UNCHANGED <<line, running>>
     \/ /\ byte \notin {"CR", "LF", "ETX"}
        /\ edit_character(byte)
        /\ outcome' = <<"none">>
        /\ UNCHANGED running

(* serial_read returned -1.                                                *)
input_lost ==
  /\ discard' = TRUE /\ escape' = 0 /\ after_cr' = FALSE
  /\ outcome' = <<"none">>
  /\ UNCHANGED <<line, length, running>>

(* serial_write fails on the echo or the answer: output spins for ever.    *)
output_fails ==
  /\ running' = "spin"
  /\ UNCHANGED <<editor, outcome>>

(* One round of console_run that found input.                              *)
console_run ==
  /\ running = "yes"
  /\ \/ \E byte \in Bytes : accept_input(byte)
     \/ input_lost
     \/ output_fails

stopped == running # "yes" /\ UNCHANGED vars

Next == console_run \/ stopped

Spec == Init /\ [][Next]_vars

-----------------------------------------------------------------------------
(* Every variable has its type; the array index of a store is inside the   *)
(* array, the one for the NUL included.                                    *)
ConsoleTypeOK ==
  /\ line \in [0 .. LINE_SIZE - 1 -> Printable \cup {"NUL"}]
  /\ length \in 0 .. LINE_SIZE - 1
  /\ escape \in 0 .. 2
  /\ after_cr \in BOOLEAN /\ discard \in BOOLEAN
  /\ running \in {"yes", "halted", "spin"}

(* The line as the user sees it, and a text without its outer blanks.      *)
Shown == [i \in 1 .. length |-> line[i - 1]]

Trim(text) ==
  LET ink == {i \in DOMAIN text : text[i] # "SP"}
  IN  IF ink = {} THEN <<>> ELSE SubSeq(text, Min(ink), Max(ink))

(* A line that is executed is the visible one without its outer blanks:    *)
(* neither the NUL that execute stored for an earlier line, nor a byte     *)
(* deleted or never written, is ever read as part of a command.            *)
ExecutesShownLine ==
  [][running = "yes" /\ running' # "spin" /\ outcome'[1] = "executed" =>
       outcome' = <<"executed", Trim(Shown)>>]_vars
=============================================================================
