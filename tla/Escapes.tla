------------------------------- MODULE Escapes -------------------------------
(***************************************************************************)
(* How key sequences are written in inputrc text and read back: escape,    *)
(* unescapeRunes, findStringEnd and decodeKey of the package inputrc.      *)
(* Runes are their code points, of ASCII and Latin-1.                      *)
(***************************************************************************)
EXTENDS Integers, Sequences, SequencesExt

Backslash == 92
DoubleQuote == 34
SingleQuote == 39
Dash == 45
Question == 63
UpperC == 67
UpperM == 77
LowerX == 120
Esc == 27
Delete == 127
Return == 13

\* The escapes of one letter: a, b, d, e, f, n, r, t, v, and the literal ones.
\* Escape writes them all but d and r.
Letters ==
  LET written == {<<97, 7>>, <<98, 8>>, <<101, Esc>>, <<102, 12>>, <<110, 10>>,
                  <<116, 9>>, <<118, 11>>, <<Backslash, Backslash>>,
                  <<DoubleQuote, DoubleQuote>>, <<SingleQuote, SingleQuote>>}
  IN  [write |-> written, read |-> written \cup {<<100, Delete>>, <<114, Return>>}]

-----------------------------------------------------------------------------
(* Codes                                                                   *)

\* Two letters of Latin-1 have an upper case outside of it.
ToUpper(c) ==
  CASE c \in 97 .. 122 \/ c \in (224 .. 254) \ {247} -> c - 32
    [] c = 181 -> 924
    [] c = 255 -> 376
    [] OTHER -> c

Encontrol(c) == ToUpper(c) % 32
Decontrol(c) == c + 64  \* of a control code
IsControl(c) == c < 32
Enmeta(c) == IF (c \div 128) % 2 = 1 THEN c ELSE c + 128
Demeta(c) == c - 128
IsMeta(c) == c \in Delete + 1 .. 255
IsPrint(c) == c \in 32 .. 126 \/ c \in (161 .. 255) \ {173}

octDigit(c) == c \in 48 .. 55
hexDigit(c) == c \in (48 .. 57) \cup (65 .. 70) \cup (97 .. 102)
hexVal(c) == CASE c \in 97 .. 102 -> c - 87
               [] c \in 65 .. 70 -> c - 55
               [] OTHER -> c - 48

-----------------------------------------------------------------------------
(* Writing                                                                 *)

\* The digits of a code below 256 as %2x prints them, padded with a space.
Hex2(c) ==
  LET digit(d) == IF d < 10 THEN 48 + d ELSE 87 + d
  IN  <<IF c < 16 THEN 32 ELSE digit(c \div 16), digit(c % 16)>>

escapeRune(c) ==
  CASE \E e \in Letters.write : e[2] = c ->
         <<Backslash, (CHOOSE e \in Letters.write : e[2] = c)[1]>>
    [] c = Delete -> <<Backslash, UpperC, Dash, Question>>
    [] c = Return -> <<Backslash, UpperC, Dash, UpperM>>
    [] OTHER ->
         LET control == IF IsControl(c) THEN <<Backslash, UpperC, Dash>> ELSE << >>
             c1 == IF IsControl(c) THEN Decontrol(c) ELSE c
             meta == IF IsMeta(c1) THEN <<Backslash, UpperM, Dash>> ELSE << >>
             c2 == IF IsMeta(c1) THEN Demeta(c1) ELSE c1
         IN  control \o meta
               \o IF IsPrint(c2) THEN <<c2>> ELSE <<Backslash, LowerX>> \o Hex2(c2)

Escape(s) == FlattenSeq([i \in DOMAIN s |-> escapeRune(s[i])])

-----------------------------------------------------------------------------
(* Reading                                                                 *)

grab(r, i) == IF i <= Len(r) THEN r[i] ELSE 0

\* Mutant: a backslash does not protect the quote that follows.
findStringEndPlain(seq, pos) ==
  LET ends == {i \in pos + 1 .. Len(seq) : seq[i] = seq[pos]}
  IN  IF ends = {} THEN 0 ELSE CHOOSE i \in ends : \A j \in ends : i <= j

\* Where a string that opens at pos ends, 0 when nothing closes it.
findStringEnd(seq, pos) ==
  LET end[i \in pos + 1 .. Len(seq) + 2] ==
        CASE i > Len(seq) -> 0
          [] i <= Len(seq) /\ seq[i] = Backslash -> end[i + 2]
          [] i <= Len(seq) /\ seq[i] = seq[pos] -> i
          [] OTHER -> end[i + 1]
  IN  end[pos + 1]

\* What the escape at i stands for, and how many runes of the text it takes: a
\* hexadecimal one takes one less than it has.
unescapeAt(r, i) ==
  LET c(k) == grab(r, i + k)
      got(out, n) == [out |-> out, taken |-> n]
      octal(k) == c(k) - 48
      both == /\ <<c(1), c(4)>> \in {<<UpperC, UpperM>>, <<UpperM, UpperC>>}
              /\ c(2) = Dash /\ c(3) = Backslash /\ c(5) = Dash
  IN  IF r[i] # Backslash THEN got(<<r[i]>>, 1)
      ELSE CASE \E e \in Letters.read : e[1] = c(1) ->
                  got(<<(CHOOSE e \in Letters.read : e[1] = c(1))[2]>>, 2)
             [] c(1) = LowerX /\ hexDigit(c(2)) ->
                  IF hexDigit(c(3)) THEN got(<<16 * hexVal(c(2)) + hexVal(c(3))>>, 3)
                  ELSE got(<<hexVal(c(2))>>, 2)
             [] octDigit(c(1)) ->
                  IF ~octDigit(c(2)) THEN got(<<octal(1)>>, 2)
                  ELSE IF ~octDigit(c(3)) THEN got(<<8 * octal(1) + octal(2)>>, 3)
                  ELSE got(<<64 * octal(1) + 8 * octal(2) + octal(3)>>, 4)
             [] both -> got(IF c(6) = 0 THEN << >> ELSE <<Esc, Encontrol(c(6))>>, 7)
             [] c(1) = UpperC /\ c(2) = Dash /\ ~both ->
                  got(<<IF c(3) = Question THEN Delete ELSE Encontrol(c(3))>>, 4)
             [] c(1) = UpperM /\ c(2) = Dash /\ ~both ->
                  IF c(3) = 0 THEN got(<<Esc>>, 3) ELSE got(<<Enmeta(c(3))>>, 4)
             [] OTHER -> got(<<c(1)>>, 2)

unescapeRunes(r) ==
  LET from[i \in 1 .. Len(r) + 7] ==
        IF i > Len(r) THEN << >>
        ELSE unescapeAt(r, i).out \o from[i + unescapeAt(r, i).taken]
  IN  IF Len(r) = 1 THEN r ELSE from[1]

\* decodeKey: a key by its name, a rune here, after modifiers by their names.
\* The control of a meta key is an escape and the control key.  Modifiers alone,
\* with no name (0), give the empty sequence.
decodeKey(mods, char) ==
  LET control == \E m \in Range(mods) : m \in {"control", "ctrl", "c"}
      meta == \E m \in Range(mods) : m \in {"meta", "m"}
  IN  CASE char = 0 -> << >>
        [] char # 0 /\ control /\ meta -> <<Esc, Encontrol(char)>>
        [] char # 0 /\ control /\ ~meta -> <<Encontrol(char)>>
        [] char # 0 /\ meta /\ ~control -> <<Enmeta(char)>>
        [] OTHER -> <<char>>
=============================================================================
