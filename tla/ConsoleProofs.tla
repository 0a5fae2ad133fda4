---------------------------- MODULE ConsoleProofs ----------------------------
(***************************************************************************)
(* The line editor stays inside its array and executes the line it shows,  *)
(* for every size of the array and whatever the stack held before: proofs  *)
(* about module Console.                                                   *)
(***************************************************************************)
EXTENDS Console, TLAPS, NaturalsInduction, WellFoundedInduction

-----------------------------------------------------------------------------
(* Smallest and largest elements.                                          *)

(* A number of a set that is below all others is its minimum.              *)
LEMMA MinIs ==
  ASSUME NEW S, S \subseteq Int, NEW least \in S, \A x \in S : least <= x
  PROVE  Min(S) = least
<1>1. Min(S) \in S /\ \A y \in S : Min(S) <= y
  BY DEF Min
<1>2. Min(S) \in Int /\ least \in Int /\ Min(S) <= least /\ least <= Min(S)
  BY <1>1
<1>. QED
  BY <1>2

(* A number of a set that is above all others is its maximum.              *)
LEMMA MaxIs ==
  ASSUME NEW S, S \subseteq Int, NEW greatest \in S, \A x \in S : x <= greatest
  PROVE  Max(S) = greatest
<1>1. Max(S) \in S /\ \A y \in S : Max(S) >= y
  BY DEF Max
<1>2. Max(S) \in Int /\ greatest \in Int /\ Max(S) >= greatest /\ greatest >= Max(S)
  BY <1>1
<1>. QED
  BY <1>2

(* A set of natural numbers with an element has a minimum.                 *)
LEMMA HasMin ==
  ASSUME NEW S, S \subseteq Nat, S # {}
  PROVE  \E least \in S : \A x \in S : least <= x
<1>1. PICK least \in S : \A x \in S : ~(<<x, least>> \in OpToRel(<, Nat))
  BY WFMin, NatLessThanWellFounded
<1>2. \A x \in S : ~(x < least)
  BY <1>1 DEF OpToRel
<1>. QED
  BY <1>2

(* If it is bounded, it also has a maximum.                                *)
LEMMA HasMax ==
  ASSUME NEW S, NEW n \in Nat, S \subseteq 0 .. n, S # {}
  PROVE  \E greatest \in S : \A x \in S : x <= greatest
<1>. DEFINE T == {n - x : x \in S}
<1>1. \A x \in S : x \in 0 .. n /\ n - x \in Nat
  OBVIOUS
<1>2. PICK least \in T : \A y \in T : least <= y
  BY <1>1, HasMin
<1>3. PICK greatest \in S : least = n - greatest
  BY <1>2
<1>4. \A x \in S : n - greatest <= n - x
  BY <1>2, <1>3
<1>. QED
  BY <1>1, <1>3, <1>4

-----------------------------------------------------------------------------
(* What execute reads.                                                     *)

(* The visible part of the array holds characters, no NUL.                 *)
ShownPrintable == \A i \in 0 .. length - 1 : line[i] \in Printable

(* The characters of the visible line that are not blank.                  *)
Ink == {i \in 1 .. length : line[i - 1] # "SP"}

(* The same characters, as Trim finds them.                                *)
LEMMA InkShown ==
  ASSUME length \in Nat
  PROVE  Trim(Shown) = IF Ink = {} THEN <<>> ELSE SubSeq(Shown, Min(Ink), Max(Ink))
<1>1. DOMAIN Shown = 1 .. length /\ \A i \in 1 .. length : Shown[i] = line[i - 1]
  BY DEF Shown
<1>2. {i \in DOMAIN Shown : Shown[i] # "SP"} = Ink
  BY <1>1 DEF Ink
<1>. QED
  BY <1>2 DEF Trim

(* The first byte that is not blank is at f, the first NUL after it at n.  *)
StringAt(buffer, f, n) ==
  /\ DOMAIN buffer = 0 .. LINE_SIZE - 1 /\ f <= n /\ n <= LINE_SIZE - 1
  /\ buffer[n] = "NUL" /\ \A i \in f .. n - 1 : buffer[i] # "NUL"
  /\ buffer[f] # "SP" /\ \A i \in 0 .. f - 1 : buffer[i] = "SP"

(* command reads this part of the array and no other.                      *)
LEMMA CommandFrom ==
  ASSUME NEW buffer, NEW f \in Nat, NEW n \in Nat, StringAt(buffer, f, n)
  PROVE  command(buffer) = [i \in 1 .. n - f |-> buffer[f + i - 1]]
<1>. DEFINE Filled == {i \in DOMAIN buffer : buffer[i] # "SP"}
            Nuls   == {i \in f .. LINE_SIZE - 1 : buffer[i] = "NUL"}
<1>1. /\ LINE_SIZE \in Nat \ {0}
      /\ DOMAIN buffer = 0 .. LINE_SIZE - 1 /\ f <= n /\ n <= LINE_SIZE - 1
      /\ buffer[n] = "NUL" /\ \A i \in f .. n - 1 : buffer[i] # "NUL"
      /\ buffer[f] # "SP" /\ \A i \in 0 .. f - 1 : buffer[i] = "SP"
  BY ConsoleAssumption DEF StringAt
<1>2. Min(Filled) = f
  <2>1. Filled \subseteq Int
    BY <1>1
  <2>2. f \in DOMAIN buffer
    BY <1>1
  <2>3. f \in Filled
    BY <1>1, <2>2
  <2>4. ASSUME NEW x \in Filled
        PROVE  f <= x
    <3>1. x \in 0 .. LINE_SIZE - 1 /\ buffer[x] # "SP"
      BY <1>1
    <3>2. x \notin 0 .. f - 1
      BY <1>1, <3>1
    <3>. QED
      BY <1>1, <3>1, <3>2
  <2>. QED
    BY <2>1, <2>3, <2>4, MinIs
<1>3. Min(Nuls) = n
  <2>1. Nuls \subseteq Int
    BY <1>1
  <2>2. n \in f .. LINE_SIZE - 1
    BY <1>1
  <2>3. n \in Nuls
    BY <1>1, <2>2
  <2>4. ASSUME NEW x \in Nuls
        PROVE  n <= x
    <3>1. x \in f .. LINE_SIZE - 1 /\ buffer[x] = "NUL"
      OBVIOUS
    <3>2. x \notin f .. n - 1
      BY <1>1, <3>1
    <3>. QED
      BY <1>1, <3>1, <3>2
  <2>. QED
    BY <2>1, <2>3, <2>4, MinIs
<1>. QED
  BY <1>2, <1>3 DEF command

(* The array execute has cut: the NUL lies inside of it.                   *)
LEMMA TerminatedIs ==
  ASSUME ConsoleTypeOK, trimmed_length \in 0 .. LINE_SIZE - 1
  PROVE  /\ terminated \in [0 .. LINE_SIZE - 1 -> Printable \cup {"NUL"}]
         /\ DOMAIN terminated = 0 .. LINE_SIZE - 1
         /\ terminated[trimmed_length] = "NUL"
         /\ \A i \in 0 .. trimmed_length - 1 : terminated[i] = line[i]
<1>1. line \in [0 .. LINE_SIZE - 1 -> Printable \cup {"NUL"}] /\ LINE_SIZE \in Nat
  BY ConsoleAssumption DEF ConsoleTypeOK
<1>2. \A i \in 0 .. trimmed_length - 1 : i \in 0 .. LINE_SIZE - 1 /\ i # trimmed_length
  BY <1>1
<1>. QED
  BY <1>1, <1>2 DEF terminated

(* Where the last character that is not blank lies.                        *)
LEMMA TrimmedIs ==
  ASSUME ConsoleTypeOK
  PROVE  /\ trimmed_length \in 0 .. length /\ trimmed_length \in 0 .. LINE_SIZE - 1
         /\ Ink = {} => trimmed_length = 0
         /\ Ink # {} => trimmed_length \in Ink /\ trimmed_length = Max(Ink)
<1>1. LINE_SIZE \in Nat \ {0} /\ length \in 0 .. LINE_SIZE - 1 /\ length \in Nat
  BY ConsoleAssumption DEF ConsoleTypeOK
<1>2. Ink \subseteq 1 .. length /\ trimmed_length = Max({0} \cup Ink)
  BY DEF Ink, trimmed_length
<1>3. CASE Ink = {}
  <2>1. {0} \cup Ink \subseteq Int /\ 0 \in {0} \cup Ink /\ \A x \in {0} \cup Ink : x <= 0
    BY <1>3
  <2>2. trimmed_length = 0
    BY <1>2, <2>1, MaxIs
  <2>. QED
    BY <1>1, <1>3, <2>2
<1>4. CASE Ink # {}
  <2>0. Ink \subseteq 0 .. length
    BY <1>1, <1>2
  <2>1. PICK g \in Ink : \A x \in Ink : x <= g
    BY <1>1, <1>4, <2>0, HasMax
  <2>2. g \in 1 .. length
    BY <1>2
  <2>3. Ink \subseteq Int /\ {0} \cup Ink \subseteq Int /\ \A x \in {0} \cup Ink : x <= g
    BY <1>1, <1>2, <2>1, <2>2
  <2>4. Max(Ink) = g
    BY <2>1, <2>3, MaxIs
  <2>5. Max({0} \cup Ink) = g
    BY <2>1, <2>3, MaxIs
  <2>6. trimmed_length = g
    BY <1>2, <2>5
  <2>. QED
    BY <1>1, <1>4, <2>2, <2>4, <2>6
<1>. QED
  BY <1>3, <1>4

(* What execute compares with the names of the commands is the visible     *)
(* line without its outer blanks.                                          *)
LEMMA CommandIsShown ==
  ASSUME ConsoleTypeOK, ShownPrintable
  PROVE  command(terminated) = Trim(Shown)
<1>1. LINE_SIZE \in Nat \ {0} /\ length \in 0 .. LINE_SIZE - 1 /\ length \in Nat
  BY ConsoleAssumption DEF ConsoleTypeOK
<1>. DEFINE n == trimmed_length
<1>2. /\ n \in Nat /\ n <= length /\ n <= LINE_SIZE - 1 /\ n \in 0 .. LINE_SIZE - 1
      /\ DOMAIN terminated = 0 .. LINE_SIZE - 1 /\ terminated[n] = "NUL"
      /\ \A i \in 0 .. n - 1 : terminated[i] = line[i]
  BY <1>1, TrimmedIs, TerminatedIs
<1>3. CASE Ink = {}
  <2>1. n = 0
    BY <1>3, TrimmedIs
  <2>2. command(terminated) = [i \in 1 .. 0 - 0 |-> terminated[0 + i - 1]]
    <3>1. terminated[0] = "NUL" /\ "NUL" # "SP"
      BY <1>2, <2>1
    <3>. HIDE DEF n
    <3>2. 0 <= LINE_SIZE - 1 /\ (\A i \in 0 .. 0 - 1 : FALSE)
      BY <1>1
    <3>3. StringAt(terminated, 0, 0)
      BY <1>2, <3>1, <3>2 DEF StringAt
    <3>. QED
      BY <3>3, CommandFrom
  <2>3. command(terminated) = <<>>
    BY <2>2
  <2>. QED
    BY <1>1, <1>3, <2>3, InkShown
<1>4. CASE Ink # {}
  <2>1. n \in Ink /\ n = Max(Ink)
    BY <1>4, TrimmedIs
  <2>2. Ink \subseteq Nat /\ \A i \in Ink : i \in 1 .. length /\ line[i - 1] # "SP"
    BY <1>1 DEF Ink
  <2>3. PICK m \in Ink : \A x \in Ink : m <= x
    BY <1>4, <2>2, HasMin
  <2>4. Min(Ink) = m /\ m \in 1 .. length /\ m <= n /\ line[m - 1] # "SP"
    <3>1. Ink \subseteq Int
      BY <2>2
    <3>2. Min(Ink) = m
      BY <2>3, <3>1, MinIs
    <3>. QED
      BY <2>1, <2>2, <2>3, <3>2
  <2>. HIDE DEF n
  <2>5. \A i \in 0 .. n - 1 : terminated[i] # "NUL"
    <3>1. \A i \in 0 .. n - 1 : line[i] \in Printable
      BY <1>1, <1>2 DEF ShownPrintable
    <3>2. "NUL" \notin Printable
      BY DEF Printable
    <3>. QED
      BY <1>2, <3>1, <3>2
  <2>6. m - 1 \in Nat /\ m - 1 <= n /\ m - 1 \in 0 .. n - 1 /\ terminated[m - 1] # "SP"
    BY <1>1, <1>2, <2>4
  <2>7. \A i \in 0 .. (m - 1) - 1 : terminated[i] = "SP"
    <3>1. ASSUME NEW i \in 0 .. (m - 1) - 1
          PROVE  line[i] = "SP"
      <4>1. i + 1 \in 1 .. length /\ ~(m <= i + 1) /\ (i + 1) - 1 = i
        BY <1>1, <2>4
      <4>2. i + 1 \notin Ink
        BY <2>3, <4>1
      <4>. QED
        BY <4>1, <4>2 DEF Ink
    <3>2. \A i \in 0 .. (m - 1) - 1 : i \in 0 .. n - 1
      BY <1>1, <1>2, <2>4
    <3>. QED
      BY <1>2, <3>1, <3>2
  <2>8. \A i \in m - 1 .. n - 1 : terminated[i] # "NUL"
    BY <1>2, <2>5, <2>6
  <2>9. command(terminated) = [i \in 1 .. n - (m - 1) |-> terminated[(m - 1) + i - 1]]
    <3>1. StringAt(terminated, m - 1, n)
      BY <1>2, <2>6, <2>7, <2>8 DEF StringAt
    <3>. QED
      BY <1>2, <2>6, <3>1, CommandFrom
  <2>10. Trim(Shown) = SubSeq(Shown, m, n)
    BY <1>1, <1>4, <2>1, <2>4, InkShown DEF n
  <2>11. SubSeq(Shown, m, n) = [i \in 1 .. n - (m - 1) |-> Shown[m + i - 1]]
    BY <1>2, <2>4
  <2>12. ASSUME NEW i \in 1 .. n - (m - 1)
         PROVE  terminated[(m - 1) + i - 1] = Shown[m + i - 1]
    <3>1. /\ (m - 1) + i - 1 \in 0 .. n - 1 /\ m + i - 1 \in 1 .. length
          /\ (m + i - 1) - 1 = (m - 1) + i - 1
      BY <1>1, <1>2, <2>4
    <3>2. terminated[(m - 1) + i - 1] = line[(m - 1) + i - 1]
      BY <1>2, <3>1
    <3>3. Shown[m + i - 1] = line[(m + i - 1) - 1]
      BY <3>1 DEF Shown
    <3>. QED
      BY <3>1, <3>2, <3>3
  <2>. QED
    BY <2>9, <2>10, <2>11, <2>12
<1>. QED
  BY <1>3, <1>4

-----------------------------------------------------------------------------
(* The inductive invariant.  execute cuts the visible line with its NUL    *)
(* before the editor resets it, and the halt command leaves it like that.  *)
ConsoleInv == ConsoleTypeOK /\ (running # "halted" => ShownPrintable)

(* The end of a line: the array is cut inside of it, and the editor starts *)
(* again with an empty line or stops.                                      *)
LEMMA FinishLineKeeps ==
  ASSUME ConsoleInv, running = "yes", finish_line, after_cr' \in BOOLEAN
  PROVE  ConsoleInv'
<1>1. LINE_SIZE \in Nat \ {0} /\ 0 \in 0 .. LINE_SIZE - 1 /\ ConsoleTypeOK
  BY ConsoleAssumption DEF ConsoleInv
<1>2. /\ line' \in [0 .. LINE_SIZE - 1 -> Printable \cup {"NUL"}]
      /\ running' \in {"yes", "halted"}
  <2>1. CASE discard
    BY <1>1, <2>1 DEF finish_line, ConsoleTypeOK
  <2>2. CASE ~discard
    <3>1. line' = terminated /\ running' \in {"yes", "halted"}
      BY <2>2 DEF finish_line, execute
    <3>. QED
      BY <1>1, <3>1, TrimmedIs, TerminatedIs
  <2>. QED
    BY <2>1, <2>2
<1>3. CASE running' = "yes"
  <2>1. length' = 0 /\ escape' = 0 /\ discard' = FALSE
    BY <1>3 DEF finish_line, reset_line
  <2>2. ShownPrintable'
    BY <2>1 DEF ShownPrintable
  <2>3. length' \in 0 .. LINE_SIZE - 1 /\ escape' \in 0 .. 2
    BY <1>1, <2>1
  <2>4. discard' \in BOOLEAN
    BY <2>1
  <2>. QED
    BY <1>2, <2>2, <2>3, <2>4 DEF ConsoleInv, ConsoleTypeOK
<1>4. CASE running' = "halted"
  <2>1. UNCHANGED <<length, escape, discard>>
    BY <1>4 DEF finish_line
  <2>. QED
    BY <1>1, <1>2, <1>4, <2>1 DEF ConsoleInv, ConsoleTypeOK
<1>. QED
  BY <1>2, <1>3, <1>4

(* A character is stored only below the last byte of the array.            *)
LEMMA TypeCharacterKeeps ==
  ASSUME ConsoleInv, running = "yes", running' = "yes", after_cr' \in BOOLEAN,
         NEW byte \in Printable \cup {"TAB"}, type_character(byte)
  PROVE  ConsoleInv'
<1>1. LINE_SIZE \in Nat \ {0} /\ ConsoleTypeOK /\ ShownPrintable
  BY ConsoleAssumption DEF ConsoleInv
<1>2. CASE length = LINE_SIZE - 1
  <2>1. discard' = TRUE /\ UNCHANGED <<line, length, escape>>
    BY <1>2 DEF type_character
  <2>. QED
    BY <1>1, <2>1 DEF ConsoleInv, ConsoleTypeOK, ShownPrintable
<1>3. CASE length # LINE_SIZE - 1
  <2>. DEFINE c == IF byte = "TAB" THEN "SP" ELSE byte
  <2>1. c \in Printable
    BY DEF Printable
  <2>2. line' = [line EXCEPT ![length] = c] /\ length' = length + 1 /\ UNCHANGED <<escape, discard>>
    BY <1>3 DEF type_character, insert
  <2>. HIDE DEF c
  <2>3. length \in 0 .. LINE_SIZE - 1 /\ length' \in 0 .. LINE_SIZE - 1 /\ length' - 1 = length
    BY <1>1, <1>3, <2>2 DEF ConsoleTypeOK
  <2>4. line' \in [0 .. LINE_SIZE - 1 -> Printable \cup {"NUL"}]
    BY <1>1, <2>1, <2>2 DEF ConsoleTypeOK
  <2>5. ASSUME NEW i \in 0 .. length
        PROVE  line'[i] \in Printable
    <3>1. i \in 0 .. LINE_SIZE - 1 /\ (i = length \/ i \in 0 .. length - 1)
      BY <1>1, <2>3
    <3>2. line'[i] = IF i = length THEN c ELSE line[i]
      BY <1>1, <2>2, <2>3, <3>1 DEF ConsoleTypeOK
    <3>. QED
      BY <1>1, <2>1, <3>1, <3>2 DEF ShownPrintable
  <2>6. ShownPrintable'
    BY <2>3, <2>5 DEF ShownPrintable
  <2>. QED
    BY <1>1, <2>2, <2>3, <2>4, <2>6 DEF ConsoleInv, ConsoleTypeOK
<1>. QED
  BY <1>2, <1>3

(* Every other byte of a line shortens it, or moves within an escape       *)
(* sequence.                                                               *)
LEMMA EditKeeps ==
  ASSUME ConsoleInv, running = "yes", running' = "yes", after_cr' \in BOOLEAN,
         NEW byte, edit_character(byte)
  PROVE  ConsoleInv'
<1>1. LINE_SIZE \in Nat \ {0} /\ ConsoleTypeOK /\ ShownPrintable
  BY ConsoleAssumption DEF ConsoleInv
<1>2. CASE UNCHANGED <<line, length, escape, discard>>
  BY <1>1, <1>2 DEF ConsoleInv, ConsoleTypeOK, ShownPrintable
<1>3. CASE consume_escape(byte) /\ UNCHANGED <<line, length, discard>>
  <2>1. escape' \in 0 .. 2
    BY <1>1, <1>3 DEF consume_escape, ConsoleTypeOK
  <2>. QED
    BY <1>1, <1>3, <2>1 DEF ConsoleInv, ConsoleTypeOK, ShownPrintable
<1>4. CASE /\ length' = IF length = 0 THEN 0 ELSE length - 1
           /\ UNCHANGED <<line, escape, discard>>
  <2>1. length' \in 0 .. LINE_SIZE - 1 /\ \A i \in 0 .. length' - 1 : i \in 0 .. length - 1
    BY <1>1, <1>4 DEF ConsoleTypeOK
  <2>2. ShownPrintable'
    BY <1>1, <1>4, <2>1 DEF ShownPrintable
  <2>. QED
    BY <1>1, <1>4, <2>1, <2>2 DEF ConsoleInv, ConsoleTypeOK
<1>5. CASE byte \in Printable \cup {"TAB"} /\ type_character(byte)
  BY <1>5, TypeCharacterKeeps
<1>. QED
  BY <1>2, <1>3, <1>4, <1>5 DEF edit_character

(* A byte that serial_read returned.                                       *)
LEMMA AcceptInputKeeps ==
  ASSUME ConsoleInv, running = "yes", NEW byte \in Bytes, accept_input(byte)
  PROVE  ConsoleInv'
<1>1. /\ LINE_SIZE \in Nat \ {0} /\ 0 \in 0 .. LINE_SIZE - 1
      /\ ConsoleTypeOK /\ ShownPrintable /\ after_cr' \in BOOLEAN
  BY ConsoleAssumption DEF ConsoleInv, accept_input
<1>2. CASE finish_line
  BY <1>1, <1>2, FinishLineKeeps
<1>3. CASE UNCHANGED <<line, length, escape, discard, running>>
  BY <1>1, <1>3 DEF ConsoleInv, ConsoleTypeOK, ShownPrintable
<1>4. CASE reset_line /\ UNCHANGED <<line, running>>
  <2>1. length' = 0 /\ escape' = 0 /\ discard' = FALSE
    BY <1>4 DEF reset_line
  <2>2. ShownPrintable'
    BY <2>1 DEF ShownPrintable
  <2>3. length' \in 0 .. LINE_SIZE - 1 /\ escape' \in 0 .. 2
    BY <1>1, <2>1
  <2>4. discard' \in BOOLEAN
    BY <2>1
  <2>. QED
    BY <1>1, <1>4, <2>2, <2>3, <2>4 DEF ConsoleInv, ConsoleTypeOK
<1>5. CASE edit_character(byte) /\ UNCHANGED running
  BY <1>1, <1>5, EditKeeps
<1>. QED
  BY <1>2, <1>3, <1>4, <1>5 DEF accept_input

(* The invariant holds in every reachable state of the console.            *)
THEOREM ConsoleInvariant == Spec => []ConsoleInv
<1>1. ASSUME Init
      PROVE  ConsoleInv
  <2>1. line \in [0 .. LINE_SIZE - 1 -> Printable \cup {"NUL"}] /\ running = "yes"
    BY <1>1, ConsoleAssumption DEF Init
  <2>2. length = 0 /\ escape = 0 /\ after_cr \in BOOLEAN /\ discard \in BOOLEAN
    BY <1>1 DEF Init
  <2>3. length \in 0 .. LINE_SIZE - 1 /\ escape \in 0 .. 2
    BY <2>2, ConsoleAssumption
  <2>4. ShownPrintable
    BY <2>2 DEF ShownPrintable
  <2>. QED
    BY <2>1, <2>2, <2>3, <2>4 DEF ConsoleInv, ConsoleTypeOK
<1>2. ASSUME ConsoleInv, [Next]_vars
      PROVE  ConsoleInv'
  <2>1. CASE running = "yes" /\ \E byte \in Bytes : accept_input(byte)
    BY <1>2, <2>1, AcceptInputKeeps
  <2>2. CASE running = "yes" /\ input_lost
    <3>1. UNCHANGED <<line, length, running>> /\ escape' = 0
      BY <2>2 DEF input_lost
    <3>2. escape' \in 0 .. 2
      BY <3>1
    <3>3. after_cr' \in BOOLEAN /\ discard' \in BOOLEAN
      BY <2>2 DEF input_lost
    <3>. QED
      BY <1>2, <3>1, <3>2, <3>3 DEF ConsoleInv, ConsoleTypeOK, ShownPrintable
  <2>3. CASE running = "yes" /\ output_fails
    BY <1>2, <2>3 DEF output_fails, editor, ConsoleInv, ConsoleTypeOK, ShownPrintable
  <2>4. CASE UNCHANGED vars
    BY <1>2, <2>4 DEF vars, editor, ConsoleInv, ConsoleTypeOK, ShownPrintable
  <2>. QED
    BY <1>2, <2>1, <2>2, <2>3, <2>4 DEF Next, console_run, stopped
<1>. QED
  BY <1>1, <1>2, PTL DEF Spec

(* The editor never stores outside of its array, the NUL of execute        *)
(* included, whatever is typed, lost or deleted.                           *)
THEOREM ConsoleTypes == Spec => []ConsoleTypeOK
<1>1. ConsoleInv => ConsoleTypeOK
  BY DEF ConsoleInv
<1>. QED
  BY ConsoleInvariant, <1>1, PTL

(* The console executes the line it shows, without its outer blanks; bytes *)
(* left over from the stack, from deletions and from earlier lines are     *)
(* never read.                                                             *)
THEOREM ConsoleExecutesShown == Spec => ExecutesShownLine
<1>1. ASSUME ConsoleInv, [Next]_vars
      PROVE  [running = "yes" /\ running' # "spin" /\ outcome'[1] = "executed" =>
                outcome' = <<"executed", Trim(Shown)>>]_vars
  <2>1. SUFFICES ASSUME Next, running = "yes", running' # "spin", outcome'[1] = "executed"
                 PROVE  outcome' = <<"executed", Trim(Shown)>>
    BY <1>1
  <2>2. command(terminated) = Trim(Shown)
    BY <1>1, <2>1, CommandIsShown DEF ConsoleInv
  <2>3. PICK byte \in Bytes : accept_input(byte)
    BY <2>1 DEF Next, console_run, stopped, input_lost, output_fails
  <2>4. finish_line
    BY <2>1, <2>3 DEF accept_input
  <2>5. outcome' = <<"executed", command(terminated)>>
    BY <2>1, <2>4 DEF finish_line, execute
  <2>. QED
    BY <2>2, <2>5
<1>. QED
  BY ConsoleInvariant, <1>1, PTL DEF Spec, ExecutesShownLine
=============================================================================
