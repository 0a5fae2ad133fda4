----------------------------- MODULE ConsoleRef -----------------------------
(***************************************************************************)
(* What the user typed against what the console does.  The history keeps   *)
(* the bytes delivered since the last line ended; the reference reads them *)
(* as a grammar (escape sequences, corrections, blanks) where the editor   *)
(* works byte by byte on a fixed array.                                    *)
(***************************************************************************)
EXTENDS Console, SequencesExt

CONSTANT MaxTyped  \* bound: bytes between two line ends

VARIABLES
  typed,     \* delivered since the last line end, which is typed[1]
  gap        \* a loss was reported since then

histVars == <<typed, gap>>

RefInit == Init /\ typed = <<"ETX">> /\ gap = FALSE

(* A byte that ends a line: Enter, not the LF of a CRLF, or Ctrl-C.        *)
EndsLine(byte) ==
  byte \in {"CR", "ETX"} \/ (byte = "LF" /\ (typed # <<"CR">> \/ gap))

Deliver(byte) ==
  /\ Len(typed) <= MaxTyped \/ EndsLine(byte)
  /\ accept_input(byte)
  /\ IF EndsLine(byte)
     THEN typed' = <<byte>> /\ gap' = FALSE
     ELSE typed' = Append(typed, byte) /\ UNCHANGED gap

Lose == input_lost /\ gap' = TRUE /\ UNCHANGED typed

RefNext ==
  \/ running = "yes" /\ \E byte \in Bytes : Deliver(byte)
  \/ running = "yes" /\ Lose
  \/ running = "yes" /\ output_fails /\ UNCHANGED histVars
  \/ stopped /\ UNCHANGED histVars

RefSpec == RefInit /\ [][RefNext]_<<vars, histVars>>

-----------------------------------------------------------------------------
(* The length of the escape sequence at the head of s: ESC and a byte, or  *)
(* ESC CSI and bytes up to a final one.                                    *)
EscapeLength(s) ==
  IF Len(s) < 2 \/ s[2] # "CSI"
  THEN 2
  ELSE Min({Len(s)} \cup {i \in 3 .. Len(s) : s[i] \in Final})

RECURSIVE Keys(_)
Keys(s) ==
  IF s = <<>> THEN <<>>
  ELSE IF Head(s) = "ESC" THEN Keys(SubSeq(s, EscapeLength(s) + 1, Len(s)))
  ELSE <<Head(s)>> \o Keys(Tail(s))

(* The text on the screen after the keys, on an endless line.              *)
Apply(text, key) ==
  CASE key = "BS"  -> SubSeq(text, 1, Len(text) - 1)
    [] key = "TAB" -> Append(text, "SP")
    [] key \in Printable -> Append(text, key)
    [] OTHER -> text

Text(keys) == FoldLeft(Apply, <<>>, keys)

Overlong(keys) == \E i \in 1 .. Len(keys) : Len(Text(SubSeq(keys, 1, i))) > LINE_SIZE - 1

(* The LF of a CRLF belongs to the line end before it.                     *)
Body(bytes) == IF bytes # <<>> /\ Head(bytes) = "LF" THEN Tail(bytes) ELSE bytes

-----------------------------------------------------------------------------
(* A line is executed exactly when Enter ends it, nothing of it was lost   *)
(* and it never grew past the array; the command is then what the user     *)
(* sees on the line, without outer blanks (finish_line, edit_character,    *)
(* consume_escape, execute).                                               *)
ExecutesWhatWasTyped ==
  [][running' # "spin" =>
       LET keys  == Keys(Body(Tail(typed)))
           ended == Len(typed') = 1 /\ ~gap'
       IN outcome' = CASE ~ended -> <<"none">>
                       [] ended /\ typed' = <<"ETX">> -> <<"cancelled">>
                       [] ended /\ typed' # <<"ETX">> ->
                            IF gap \/ Overlong(keys)
                            THEN <<"discarded">> ELSE <<"executed", Trim(Text(keys))>>
    ]_<<vars, histVars>>

(* Deletions and overlong lines never expose a stale byte of the array:    *)
(* the editor's text is what the user sees (length and line together),     *)
(* until the console halts.                                                *)
ScreenShowsLine ==
  LET keys == Keys(Body(Tail(typed))) IN
  running = "yes" /\ ~discard => Shown = Text(keys)
=============================================================================
