------------------------------- MODULE Words -------------------------------
(***************************************************************************)
(* How the code finds words, quotes and brackets in a line: the tokenizers *)
(* and selectors of core.Line, and the surround helpers of strutil.        *)
(*                                                                         *)
(* A tokenizer of the code returns the tokens, the index of the one that   *)
(* holds the cursor, and the offset of the cursor in it.  Tokens partition *)
(* the line, so that they are given here by the set of their first         *)
(* positions.  The code measures tokens in bytes and moves the cursor by   *)
(* characters: Wide holds the characters encoded on two bytes.             *)
(***************************************************************************)
EXTENDS LineCursor, Functions

CONSTANTS
  Punct,        \* unicode.IsPunct
  Alnum,        \* the class [0-9a-zA-Z_]
  Wide,         \* the characters that take two bytes
  Upper,        \* unicode.ToUpper, as a function on the lower case letters
  Nul,          \* rune(0), which the code takes for the character past the end
  SingleQuote, DoubleQuote, Backslash,
  Open, Close   \* a pair of brackets

ASSUME ClassAssumption ==
  /\ Punct \subseteq Char \ {Newline, Space}
  /\ Alnum \subseteq Char \ (Punct \cup Wide \cup {Newline, Space})
  /\ Nul \notin Char
  /\ IsInjective(Upper)
  /\ Range(Upper) \cap DOMAIN Upper = {}
  /\ Range(Upper) \cup DOMAIN Upper \subseteq Char

\* isSpace of selection.go: a blank that is not a newline.
isSpace(c) == c = Space

ToUpper(c) == IF c \in DOMAIN Upper THEN Upper[c] ELSE c

ToLower(c) ==
  IF c \in Range(Upper) THEN CHOOSE d \in DOMAIN Upper : Upper[d] = c ELSE c

\* The bytes of the slice l[b:e].
Bytes(l, b, e) == (e - b) + Cardinality({i \in b .. e - 1 : At(l, i) \in Wide})

-----------------------------------------------------------------------------
(* The tokenizers: the first positions of the tokens of a non-empty line   *)

\* Words: a punctuation other than the one before it, a newline after a
\* newline, or a word character after anything else begin one.
Tokenize(l) ==
  {0} \cup {i \in 1 .. Len(l) - 1 :
              LET c == At(l, i)
                  before == At(l, i - 1)
              IN  \/ c \in Punct /\ before # c
                  \/ c = Newline /\ before = Newline
                  \/ c \notin Punct \cup {Space, Newline}
                     /\ before \in Punct \cup {Space, Newline}}

\* Blank words.
TokenizeSpace(l) ==
  {0} \cup {i \in 1 .. Len(l) - 1 :
              IF IsBlank(At(l, i))
              THEN At(l, i) = Newline /\ At(l, i - 1) = Newline
              ELSE IsBlank(At(l, i - 1))}

\* The token that holds position p, and the offset in bytes of the last byte
\* of the character at p in it; past the end of the line, the whole token.
token(l, b, e, cpos) ==
  [bpos |-> b, epos |-> e, last |-> e = Len(l),
   pos |-> IF cpos = Len(l) THEN Bytes(l, b, e) ELSE Bytes(l, b, cpos + 1) - 1]

tokenOf(l, starts, cpos) ==
  token(l, Max({i \in starts : i <= cpos}),
        Min({i \in starts : i > cpos} \cup {Len(l)}), cpos)

TokenAt(l, starts, p) == tokenOf(l, starts, checkPosRange(l, p))

\* The bytes of token t, and those of t without its trailing blanks.
TokenSize(l, t) == Bytes(l, t.bpos, t.epos)

Trimmed(l, t) ==
  Bytes(l, t.bpos, Max({i + 1 : i \in {j \in t.bpos .. t.epos - 1 : ~IsBlank(At(l, j))}}
                       \cup {t.bpos}))

\* Mutant: one short.
ForwardShort(l, starts, p) ==
  LET from(t) == IF t.last THEN Len(l) - t.pos ELSE TokenSize(l, t) - t.pos - 1
  IN  IF Len(l) = 0 THEN 0 ELSE from(TokenAt(l, starts, p))

\* The offset to the next token.
toNext(l, t) == (IF t.last THEN Len(l) ELSE TokenSize(l, t)) - t.pos

Forward(l, starts, p) == IF Len(l) = 0 THEN 0 ELSE toNext(l, TokenAt(l, starts, p))

\* The offset to the end of the token, or of the next one when already there.
toEnd(l, starts, t) ==
  IF t.pos < Trimmed(l, t) - 1 THEN Trimmed(l, t) - t.pos - 1
  ELSE IF t.last THEN 0
  ELSE TokenSize(l, t) - t.pos + Trimmed(l, TokenAt(l, starts, t.epos)) - 1

ForwardEnd(l, starts, p) ==
  IF Len(l) = 0 THEN 0 ELSE toEnd(l, starts, TokenAt(l, starts, p))

\* The (negative) offset to the beginning of the token, or of the one before.
toBegin(l, starts, t) ==
  IF t.pos # 0 THEN -t.pos
  ELSE IF t.bpos = 0 THEN 0
  ELSE -TokenSize(l, TokenAt(l, starts, t.bpos - 1))

Backward(l, starts, p) ==
  IF Len(l) = 0 THEN 0 ELSE toBegin(l, starts, TokenAt(l, starts, p))

-----------------------------------------------------------------------------
(* Selectors                                                               *)

\* The longest range around p of characters in the given class: its first
\* and last positions.
Run(l, p, class) ==
  [bpos |-> Min({b \in 0 .. p : \A i \in b .. p - 1 : At(l, i) \in class}),
   epos |-> Max({e \in p .. Len(l) - 1 : \A i \in p + 1 .. e : At(l, i) \in class})]

onLine(l, p) == IF checkPosRange(l, p) = Len(l) THEN Len(l) - 1 ELSE checkPosRange(l, p)

\* On a punctuation, the blanks around it are taken.
SelectWord(l, p) ==
  IF Len(l) = 0 THEN [bpos |-> 0, epos |-> 0]
  ELSE Run(l, onLine(l, p),
           IF At(l, onLine(l, p)) \in Alnum THEN Alnum ELSE {Space, Newline})

SelectBlankWord(l, p) ==
  IF Len(l) = 0 THEN [bpos |-> 0, epos |-> 0]
  ELSE Run(l, onLine(l, p),
           IF IsBlank(At(l, onLine(l, p))) THEN {Space, Newline}
           ELSE (Char \cup {Nul}) \ {Space, Newline})

-----------------------------------------------------------------------------
(* Surrounds                                                               *)

\* strutil.MatchSurround, on the one pair of brackets of the model.
MatchSurround(c) ==
  IF c \in {Open, Close} THEN [bchar |-> Open, echar |-> Close]
  ELSE [bchar |-> c, echar |-> c]

FindSurround(l, c, p) ==
  [bpos |-> Find(l, MatchSurround(c).bchar, p + 1, FALSE),
   epos |-> Find(l, MatchSurround(c).echar, p - 1, TRUE)]

quotes(l, quote, positions) == Cardinality({i \in positions : At(l, i) = quote})

\* The code searches both ways at once and stops when one side has no more
\* quotes, so that the longer side is counted one further at most.
evenBoth(nb, na) ==
  /\ (IF nb > na THEN na + 1 ELSE nb) % 2 = 0
  /\ (IF na > nb THEN nb + 1 ELSE na) % 2 = 0

SurroundQuotes(l, quote, p) ==
  IF evenBoth(quotes(l, quote, 0 .. checkPosRange(l, p + 1) - 1),
              quotes(l, quote, checkPosRange(l, p) + 1 .. Len(l) - 1))
  THEN [bpos |-> -1, epos |-> -1]
  ELSE [bpos |-> Find(l, quote, p + 1, FALSE), epos |-> Find(l, quote, p, TRUE)]

\* The outer one of the two pairs of quotes; none when they overlap.
AdjustSurroundQuotes(d, s) ==
  LET found(q) == q.bpos # -1 /\ q.epos # -1
      around(q, r) == q.bpos < r.bpos /\ q.epos > r.epos
  IN  IF found(d) /\ (~found(s) \/ (around(d, s))) THEN d
      ELSE IF found(s) /\ (~found(d) \/ (around(s, d))) THEN s
      ELSE [bpos |-> -1, epos |-> -1]

\* The opening quote of the word that text l leaves unclosed, or -1.
GetQuotedWordStart(l) ==
  LET scan[n \in 0 .. Len(l)] ==
        IF n = 0 THEN [quote |-> Space, pos |-> -1, escape |-> FALSE]
        ELSE LET st == scan[n - 1]
                 c == l[n]
             IN  IF st.escape THEN [st EXCEPT !.escape = FALSE]
                 ELSE IF c = Backslash /\ st.quote # SingleQuote
                      THEN [st EXCEPT !.escape = TRUE]
                 ELSE IF c \notin {SingleQuote, DoubleQuote} THEN st
                 ELSE IF st.quote = c THEN [st EXCEPT !.quote = Space, !.pos = -1]
                 ELSE IF st.quote = Space THEN [st EXCEPT !.quote = c, !.pos = n - 1]
                 ELSE st
  IN  scan[Len(l)].pos

\* TokenizeBlock, openToken and closeToken: scans from the start of the line
\* for the block whose bracket is at p, with the stack of the brackets that
\* are open.  The result is how many tokens were split, the bytes of the last
\* one and the offset of p in it; callers index the second token.
TokenizeBlock(l, p) ==
  LET none == [split |-> 0, size |-> 0, pos |-> 0]
      cpos == onLine(l, p)
      begin(st) == IF st.open = <<>> THEN 0 ELSE st.open[Len(st.open)]
      popped(st) == SubSeq(st.open, 1, Len(st.open) - 1)
      quoted(st) == st.quote # Space
      done(st, r) == [st EXCEPT !.done = TRUE, !.result = r]
      open(st, i) ==
        [st EXCEPT !.open = Append(@, i),
                   !.match = IF i = cpos THEN Len(st.open) + 1 ELSE @,
                   !.split = IF i = cpos THEN 1 ELSE @]
      close(st, i) ==
        IF st.match = Len(st.open)
        THEN done(st, [split |-> st.split + 1, size |-> Bytes(l, begin(st), i), pos |-> 0])
        ELSE IF i = cpos
        THEN done(st, [split |-> 2, size |-> Bytes(l, begin(st), i),
                       pos |-> Bytes(l, begin(st), i)])
        ELSE IF st.match = Len(st.open) - 1
        THEN done(st, [split |-> st.split, size |-> 0, pos |-> 0])
        ELSE [st EXCEPT !.open = popped(st)]
      step(st, i) ==
        LET c == At(l, i)
        IN  IF st.done THEN st
            ELSE IF c \in {SingleQuote, DoubleQuote}
            THEN [st EXCEPT !.quote = IF @ = c THEN Space
                                      ELSE IF @ = Space THEN c ELSE @]
            ELSE IF c \notin {Open, Close} THEN st
            ELSE IF quoted(st) THEN IF i = cpos THEN done(st, none) ELSE st
            ELSE IF c = Open THEN open(st, i) ELSE close(st, i)
      scan[n \in 0 .. Len(l)] ==
        IF n = 0 THEN [open |-> <<>>, match |-> 0, split |-> 0, quote |-> Space,
                       done |-> FALSE, result |-> none]
        ELSE step(scan[n - 1], n - 1)
  IN  IF Len(l) = 0 \/ At(l, cpos) \notin {Open, Close} THEN none
      ELSE scan[Len(l)].result
=============================================================================
