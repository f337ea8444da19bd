----------------------------- MODULE Registers -----------------------------
(***************************************************************************)
(* The kill buffers and registers (editor.Buffers), as operators on a      *)
(* record: num and alpha are the maps of the code, active the selected     *)
(* register and selected whether there is one.  (The field waiting of the  *)
(* code is never set.)                                                     *)
(***************************************************************************)
EXTENDS Integers, Sequences, FiniteSets, Functions

CONSTANTS
  numRegisters,  \* 10 in the code
  Digits,        \* the registers named by a digit, as function digit -> number
  Letters,       \* the lower case letters that name a register
  Capitals,      \* function from the upper case letters to their lower case
  NoRegister     \* rune(0)

ASSUME RegistersAssumption ==
  /\ numRegisters \in Nat \ {0}
  /\ \A c \in DOMAIN Capitals : Capitals[c] \in Letters

NewBuffers ==
  [num |-> <<>>, alpha |-> <<>>, active |-> NoRegister, selected |-> FALSE]

ResetBuffers(buf) == [buf EXCEPT !.active = NoRegister, !.selected = FALSE]

\* Whatever the key, it becomes the active register.
SetActive(buf, register) == [buf EXCEPT !.active = register, !.selected = TRUE]

\* Reading a key that a Go map does not hold gives the empty slice.
Read(map, k) == IF k \in DOMAIN map THEN map[k] ELSE <<>>

GetKill(buf) == Read(buf.num, 0)

Get(buf, register) ==
  IF register = NoRegister THEN GetKill(buf)
  ELSE IF register \in DOMAIN Digits THEN Read(buf.num, Digits[register])
  ELSE Read(buf.alpha, register)

\* The text that a put or a yank inserts; the register is then forgotten.
Active(buf) == IF buf.selected THEN Get(buf, buf.active) ELSE GetKill(buf)

\* Adds or replaces an entry of a map.
Assign(map, k, text) == [i \in DOMAIN map \cup {k} |-> IF i = k THEN text ELSE map[i]]

\* Removes an entry of a map.
Remove(map, k) == Restrict(map, DOMAIN map \ {k})

\* Takes the kill off and moves the others down one by one.
PopKill(buf) ==
  LET first == Remove(buf.num, 0)
      shift[i \in 0 .. Cardinality(DOMAIN first)] ==
        IF i = 0 THEN first
        ELSE Remove(Assign(shift[i - 1], i - 1, Read(shift[i - 1], i)), i)
  IN  IF DOMAIN buf.num = {} THEN buf
      ELSE [buf EXCEPT !.num = shift[Cardinality(DOMAIN first)]]

\* Mutant: a full map is given an entry more.
writeNumMore(num, text) ==
  LET n == Cardinality(DOMAIN num)
      move[i \in 0 .. n] ==
        IF i = 0 THEN num
        ELSE LET k == n - i + 1 IN Assign(move[i - 1], k, Read(move[i - 1], k - 1))
  IN  Assign(move[n], 0, text)

\* Moves the kills up, from the oldest on, and puts the text first.  A full
\* map is not given an entry more: its oldest kill is overwritten.
writeNum(num, text) ==
  LET n == Cardinality(DOMAIN num)
      top == IF n = numRegisters THEN n - 1 ELSE n
      move[i \in 0 .. top] ==
        IF i = 0 THEN num
        ELSE LET k == top - i + 1 IN Assign(move[i - 1], k, Read(move[i - 1], k - 1))
  IN  Assign(move[top], 0, text)

\* An upper case letter appends to the register of its lower case.
writeAlpha(alpha, register, text) ==
  IF register \in DOMAIN Capitals
  THEN Assign(alpha, Capitals[register], Read(alpha, Capitals[register]) \o text)
  ELSE Assign(alpha, register, text)

\* A numbered register is never written: the code asks for the error of a
\* conversion that succeeded.
WriteTo(buf, register, text) ==
  IF register \in Letters \cup DOMAIN Capitals
  THEN [buf EXCEPT !.alpha = writeAlpha(@, register, text)]
  ELSE buf

\* The text goes to the selected register, or else to the kills.
Write(buf, text) ==
  ResetBuffers(IF text = <<>> THEN buf
               ELSE IF buf.selected THEN WriteTo(buf, buf.active, text)
               ELSE [buf EXCEPT !.num = writeNum(@, text)])
=============================================================================
