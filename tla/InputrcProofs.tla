---------------------------- MODULE InputrcProofs ----------------------------
(***************************************************************************)
(* Proofs about the loading of the configuration: the types, that no       *)
(* reload changes the type of a variable, and that each parser follows the *)
(* branches and the keymaps of its own file, for every set of files.       *)
(***************************************************************************)
EXTENDS Inputrc, SequenceTheorems, FiniteSetTheorems, InductionLemmas

-----------------------------------------------------------------------------
(* Key sequences                                                           *)

\* What an escape stands for, and the runes it takes.
Got(x) == x.out \in Seq(Nat) /\ x.taken \in 1 .. 7

\* A rune alone.
One(c, n) == [out |-> <<c>>, taken |-> n]

\* It is well typed.
LEMMA GotRune ==
  ASSUME NEW c \in Nat, NEW n \in 1 .. 7
  PROVE  Got(One(c, n))
  <1>1. <<c>> \in Seq(Nat)
    OBVIOUS
  <1>2. One(c, n).out = <<c>> /\ One(c, n).taken = n
    BY DEF One
  <1> QED
    BY <1>1, <1>2 DEF Got

\* The codes of keys with control or meta.
LEMMA Codes ==
  ASSUME NEW c \in Nat
  PROVE  /\ Encontrol(c) \in Nat /\ Enmeta(c) \in Nat
         /\ hexDigit(c) => hexVal(c) \in Nat
         /\ octDigit(c) => c - 48 \in Nat
  <1>1. Encontrol(c) \in Nat
    <2>1. ToUpper(c) \in Nat
      BY DEF ToUpper
    <2> QED
      BY <2>1 DEF Encontrol
  <1>2. Enmeta(c) \in Nat
    BY DEF Enmeta
  <1>3. ASSUME hexDigit(c) PROVE hexVal(c) \in Nat
    <2>1. CASE c \in 97 .. 102
      BY <2>1 DEF hexVal
    <2>2. CASE c \in 65 .. 70
      BY <2>2 DEF hexVal
    <2>3. CASE c \in 48 .. 57
      BY <2>3 DEF hexVal
    <2> QED
      BY <1>3, <2>1, <2>2, <2>3 DEF hexDigit
  <1>4. octDigit(c) => c - 48 \in Nat
    BY DEF octDigit
  <1> QED
    BY <1>1, <1>2, <1>3, <1>4

\* The escapes of one letter.
LEMMA LetterCodes == \A x \in Letters.read : x[2] \in Nat
  BY DEF Letters, Esc, Backslash, DoubleQuote, SingleQuote, Delete, Return

\* One escape is read.
LEMMA UnescapeAt ==
  ASSUME NEW r \in Seq(Nat), NEW i \in 1 .. Len(r)
  PROVE  Got(unescapeAt(r, i))
  <1> DEFINE c(k) == grab(r, i + k)
             octal(k) == c(k) - 48
             both == /\ <<c(1), c(4)>> \in {<<UpperC, UpperM>>, <<UpperM, UpperC>>}
                     /\ c(2) = Dash /\ c(3) = Backslash /\ c(5) = Dash
             letter == \E x \in Letters.read : x[1] = c(1)
             hex == c(1) = LowerX /\ hexDigit(c(2))
             oct == octDigit(c(1))
             control == c(1) = UpperC /\ c(2) = Dash /\ ~both
             meta == c(1) = UpperM /\ c(2) = Dash /\ ~both
             u1 == One((CHOOSE x \in Letters.read : x[1] = c(1))[2], 2)
             u2 == IF hexDigit(c(3)) THEN One(16 * hexVal(c(2)) + hexVal(c(3)), 3)
                   ELSE One(hexVal(c(2)), 2)
             u3 == IF ~octDigit(c(2)) THEN One(octal(1), 2)
                   ELSE IF ~octDigit(c(3)) THEN One(8 * octal(1) + octal(2), 3)
                   ELSE One(64 * octal(1) + 8 * octal(2) + octal(3), 4)
             u4 == [out |-> IF c(6) = 0 THEN << >> ELSE <<Esc, Encontrol(c(6))>>, taken |-> 7]
             u5 == One(IF c(3) = Question THEN Delete ELSE Encontrol(c(3)), 4)
             u6 == IF c(3) = 0 THEN One(Esc, 3) ELSE One(Enmeta(c(3)), 4)
             u7 == One(c(1), 2)
  <1>1. \A k \in 0 .. 6 : c(k) \in Nat
    <2> SUFFICES ASSUME NEW k \in 0 .. 6 PROVE grab(r, i + k) \in Nat
      OBVIOUS
    <2>1. CASE i + k <= Len(r)
      <3>1. i + k \in 1 .. Len(r)
        BY <2>1
      <3>2. r[i + k] \in Nat
        BY <3>1, ElementOfSeq
      <3> QED
        BY <2>1, <3>2 DEF grab
    <2>2. CASE ~(i + k <= Len(r))
      BY <2>2 DEF grab
    <2> QED
      BY <2>1, <2>2
  <1>2. c(1) \in Nat /\ c(2) \in Nat /\ c(3) \in Nat /\ c(6) \in Nat
    BY <1>1
  <1>3. r[i] \in Nat
    BY ElementOfSeq
  <1>4. unescapeAt(r, i) =
          IF r[i] # Backslash THEN One(r[i], 1)
          ELSE CASE letter -> u1 [] hex -> u2 [] oct -> u3 [] both -> u4
                 [] control -> u5 [] meta -> u6 [] OTHER -> u7
    BY DEF unescapeAt, One
  <1> HIDE DEF c
  <1>5. letter => Got(u1)
    <2> SUFFICES ASSUME letter PROVE Got(u1)
      OBVIOUS
    <2> DEFINE x == CHOOSE x \in Letters.read : x[1] = c(1)
    <2>1. x \in Letters.read
      OBVIOUS
    <2> HIDE DEF x
    <2>2. x[2] \in Nat
      BY <2>1, LetterCodes
    <2>3. Got(One(x[2], 2))
      BY <2>2, GotRune
    <2> QED
      BY <2>3 DEF x
  <1>6. hex => Got(u2)
    <2> SUFFICES ASSUME hex PROVE Got(u2)
      OBVIOUS
    <2>4. hexVal(c(2)) \in Nat
      BY <1>2, Codes
    <2>5. hexDigit(c(3)) => hexVal(c(3)) \in Nat
      BY <1>2, Codes
    <2>1. hexVal(c(2)) \in Nat /\ (hexDigit(c(3)) => 16 * hexVal(c(2)) + hexVal(c(3)) \in Nat)
      BY <2>4, <2>5
    <2>2. Got(One(hexVal(c(2)), 2))
      BY <2>1, GotRune
    <2>3. hexDigit(c(3)) => Got(One(16 * hexVal(c(2)) + hexVal(c(3)), 3))
      BY <2>1, GotRune
    <2> QED
      BY <2>2, <2>3
  <1>7. oct => Got(u3)
    <2> SUFFICES ASSUME oct PROVE Got(u3)
      OBVIOUS
    <2>1. octal(1) \in Nat
      BY <1>2, Codes
    <2>2. octDigit(c(2)) => octal(2) \in Nat
      BY <1>2, Codes
    <2>3. octDigit(c(3)) => octal(3) \in Nat
      BY <1>2, Codes
    <2> HIDE DEF octal
    <2>4. Got(One(octal(1), 2))
      BY <2>1, GotRune
    <2>5. octDigit(c(2)) => Got(One(8 * octal(1) + octal(2), 3))
      <3>1. octDigit(c(2)) => 8 * octal(1) + octal(2) \in Nat
        BY <2>1, <2>2
      <3> QED
        BY <3>1, GotRune
    <2>6. octDigit(c(2)) /\ octDigit(c(3)) =>
            Got(One(64 * octal(1) + 8 * octal(2) + octal(3), 4))
      <3>1. ASSUME octDigit(c(2)), octDigit(c(3))
            PROVE  64 * octal(1) + 8 * octal(2) + octal(3) \in Nat
        <4>1. octal(1) \in Nat /\ octal(2) \in Nat /\ octal(3) \in Nat
          BY <2>1, <2>2, <2>3, <3>1
        <4> QED
          BY ONLY <4>1
      <3> QED
        BY <3>1, GotRune
    <2> QED
      BY <2>4, <2>5, <2>6
  <1>8. Got(u4)
    <2>1. Encontrol(c(6)) \in Nat
      BY <1>2, Codes
    <2>2. << >> \in Seq(Nat) /\ <<Esc, Encontrol(c(6))>> \in Seq(Nat)
      BY <2>1 DEF Esc
    <2> QED
      BY <2>2 DEF Got
  <1>9. Got(u5)
    <2>1. (IF c(3) = Question THEN Delete ELSE Encontrol(c(3))) \in Nat
      BY <1>2, Codes DEF Delete
    <2> QED
      BY <2>1, GotRune
  <1>10. Got(u6)
    <2>1. Enmeta(c(3)) \in Nat /\ Esc \in Nat
      BY <1>2, Codes DEF Esc
    <2>2. Got(One(Esc, 3))
      BY <2>1, GotRune
    <2>3. Got(One(Enmeta(c(3)), 4))
      BY <2>1, GotRune
    <2> QED
      BY <2>2, <2>3
  <1>11. Got(u7)
    BY <1>2, GotRune
  <1>12. Got(One(r[i], 1))
    BY <1>3, GotRune
  <1> HIDE DEF u1, u2, u3, u4, u5, u6, u7, letter, hex, oct, both, control, meta
  <1> QED
    BY <1>4, <1>5, <1>6, <1>7, <1>8, <1>9, <1>10, <1>11, <1>12

\* The runes of a text that is unescaped.
LEMMA UnescapeTyped ==
  ASSUME NEW r \in Seq(Nat)
  PROVE  unescapeRunes(r) \in Seq(Nat)
  <1> DEFINE L == Len(r)
             N == L + 7
             S == Seq(Nat)
             out(i) == unescapeAt(r, i).out
             to(i) == i + unescapeAt(r, i).taken
             At(f, i) == IF i > L THEN << >> ELSE out(i) \o f[to(i)]
             Def(f) == [i \in 1 .. N |-> At(f, i)]
             T == [f \in [1 .. N -> S] |-> Def(f)]
             from == CHOOSE f : f = Def(f)
  <1>1. L \in Nat /\ N \in Nat
    OBVIOUS
  <1>2. \A i \in 1 .. L : out(i) \in S /\ to(i) \in i + 1 .. N /\ to(i) \in 1 .. N
    <2> SUFFICES ASSUME NEW i \in 1 .. L
                 PROVE  out(i) \in S /\ to(i) \in i + 1 .. N /\ to(i) \in 1 .. N
      OBVIOUS
    <2>1. Got(unescapeAt(r, i))
      BY UnescapeAt
    <2>2. out(i) \in S /\ unescapeAt(r, i).taken \in 1 .. 7
      BY <2>1 DEF Got
    <2> DEFINE t == unescapeAt(r, i).taken
    <2>3. t \in 1 .. 7 /\ to(i) = i + t
      BY <2>2
    <2> HIDE DEF t, L, to
    <2>4. to(i) \in i + 1 .. N /\ to(i) \in 1 .. N
      BY <1>1, <2>3
    <2> QED
      BY <2>2, <2>4
  <1>3. << >> \in S
    OBVIOUS
  <1>4. unescapeRunes(r) = IF Len(r) = 1 THEN r ELSE from[1]
    BY DEF unescapeRunes
  <1>5. ASSUME NEW f, NEW i \in 1 .. N, i <= L => f[to(i)] \in S PROVE At(f, i) \in S
    <2>1. CASE i > L
      BY <1>3, <2>1
    <2>2. CASE ~(i > L)
      <3>1. i \in 1 .. L
        BY <1>1, <2>2
      <3>2. out(i) \in S /\ f[to(i)] \in S
        BY <1>2, <1>5, <3>1
      <3> HIDE DEF out, to
      <3>3. out(i) \o f[to(i)] \in S
        BY <3>2, ConcatProperties
      <3> QED
        BY <2>2, <3>3
    <2> QED
      BY <2>1, <2>2
  <1> HIDE DEF L, S, out, to
  <1>6. T \in [[1 .. N -> S] -> [1 .. N -> S]]
    <2> SUFFICES ASSUME NEW f \in [1 .. N -> S] PROVE Def(f) \in [1 .. N -> S]
      OBVIOUS
    <2> SUFFICES ASSUME NEW i \in 1 .. N PROVE At(f, i) \in S
      OBVIOUS
    <2>1. i <= L => to(i) \in 1 .. N
      BY <1>1, <1>2
    <2>2. i <= L => f[to(i)] \in S
      BY <2>1
    <2> QED
      BY <1>5, <2>2
  <1>7. ASSUME NEW f \in [1 .. N -> S], NEW g \in [1 .. N -> S], NEW i \in 1 .. N,
               \A j \in i + 1 .. N : f[j] = g[j]
        PROVE  T[f][i] = T[g][i]
    <2>1. T[f][i] = At(f, i) /\ T[g][i] = At(g, i)
      OBVIOUS
    <2>2. CASE i > L
      BY <2>1, <2>2
    <2>3. CASE ~(i > L)
      <3>1. to(i) \in i + 1 .. N
        BY <1>1, <1>2, <2>3
      <3> QED
        BY <1>7, <2>1, <3>1
    <2> QED
      BY <2>2, <2>3
  <1>8. PICK f \in [1 .. N -> S] : T[f] = f
    <2>1. S # {}
      BY <1>3
    <2> HIDE DEF T, N
    <2>2. LooksAhead(T, N, S)
      BY <1>6, <1>7 DEF LooksAhead
    <2> QED
      BY <1>1, <2>1, <2>2, BackwardRecursion
  <1>9. f = Def(f)
    BY <1>8
  <1>10. from = Def(from)
    <2> HIDE DEF Def
    <2> QED
      BY <1>9
  <1> HIDE DEF from
  <1>11. \A i \in 1 .. N : from[i] = At(from, i)
    <2>1. \A i \in 1 .. N : Def(from)[i] = At(from, i)
      OBVIOUS
    <2> HIDE DEF Def, At
    <2> QED
      BY <1>10, <2>1
  <1> DEFINE A == {n \in Nat : \A i \in 1 .. N : N - n < i => from[i] \in S}
  <1>12. 0 \in A
    <2>1. \A i \in 1 .. N : ~(N - 0 < i)
      BY <1>1
    <2> QED
      BY <2>1
  <1>13. ASSUME NEW n \in Nat, n \in A PROVE n + 1 \in A
    <2> SUFFICES ASSUME NEW i \in 1 .. N, N - (n + 1) < i PROVE from[i] \in S
      OBVIOUS
    <2>1. ASSUME i <= L PROVE from[to(i)] \in S
      <3>1. to(i) \in i + 1 .. N /\ to(i) \in 1 .. N
        BY <1>1, <1>2, <2>1
      <3>2. N - n < to(i)
        BY <1>1, <3>1
      <3> QED
        BY <1>13, <3>1, <3>2
    <2>2. At(from, i) \in S
      BY <1>5, <2>1
    <2> HIDE DEF At
    <2> QED
      BY <1>11, <2>2
  <1>14. N \in A
    <2> HIDE DEF A
    <2> QED
      BY <1>1, <1>12, <1>13, NatSetInduction
  <1>15. from[1] \in S
    <2>1. 1 \in 1 .. N /\ N - N < 1
      BY <1>1
    <2> QED
      BY <1>14, <2>1
  <1> QED
    BY <1>4, <1>15 DEF S

\* The key sequence of a line.
LEMMA KeySeqTyped ==
  ASSUME NEW d, NEW l, IsLine(d, l), l.t = "bind"
  PROVE  KeySeq(l) \in Seq(Nat)
  <1>1. CASE l.quoted
    <2>1. l.key \in Seq(Nat)
      BY <1>1 DEF IsLine
    <2> QED
      BY <1>1, <2>1, UnescapeTyped DEF KeySeq
  <1>2. CASE ~l.quoted
    <2> DEFINE c == l.key
    <2>1. c \in Nat
      BY <1>2 DEF IsLine
    <2>2. KeySeq(l) = decodeKey(l.mods, c)
      BY <1>2 DEF KeySeq
    <2> HIDE DEF c
    <2>3. Encontrol(c) \in Nat /\ Enmeta(c) \in Nat
      BY <2>1, Codes
    <2>4. /\ <<Esc, Encontrol(c)>> \in Seq(Nat) /\ <<Encontrol(c)>> \in Seq(Nat)
          /\ <<Enmeta(c)>> \in Seq(Nat) /\ <<c>> \in Seq(Nat) /\ << >> \in Seq(Nat)
      BY <2>1, <2>3 DEF Esc
    <2>5. decodeKey(l.mods, c) \in
            {<<Esc, Encontrol(c)>>, <<Encontrol(c)>>, <<Enmeta(c)>>, <<c>>, << >>}
      BY DEF decodeKey
    <2> QED
      BY <2>2, <2>4, <2>5
  <1> QED
    BY <1>1, <1>2

-----------------------------------------------------------------------------
(* The types                                                               *)

Files == UNION {DOMAIN d : d \in Disks}
Texts == UNION {{d[f] : f \in DOMAIN d} : d \in Disks}

\* The provers do not know that a literal is a string.
Strings == STRING \cup {"emacs", "go", ""}

Parser ==
  [file : Files, lines : Texts, line : Nat, keymap : Strings, conds : Seq(BOOLEAN),
   errs : Nat, app : Strings, mode : Strings, term : Strings, halt : BOOLEAN, strict : BOOLEAN]

\* A parser is at a line of its file or past the last one.
Good(p) ==
  /\ p \in Parser
  /\ Len(p.lines) \in Nat /\ p.line \in 1 .. Len(p.lines) + 1
  /\ \A i \in 1 .. Len(p.lines) : IsLine(disk, p.lines[i])
  /\ p.conds # << >>

\* The editing mode is a string for ever.
IsConfig(c) ==
  /\ DOMAIN c = {"vars", "binds"}
  /\ IsVars(c.vars) /\ IsBinds(c.binds)
  /\ "editing-mode" \in DOMAIN c.vars
  /\ c.vars["editing-mode"].type = "string"

\* No variable of c is lost or has another type in the configuration after.
Typed(c, after) ==
  \A n \in DOMAIN c.vars : n \in DOMAIN after.vars /\ after.vars[n].type = c.vars[n].type

\* The types of the variables of the specification.
IInv ==
  /\ disk \in Disks /\ opts \in UserOpts
  /\ stage \in {"idle", "go", "user", "override"}
  /\ IsConfig(cfg)
  /\ parsers \in Seq(Parser) /\ \A i \in 1 .. Len(parsers) : Good(parsers[i])
  /\ stage \in {"idle", "override"} => parsers = << >>
  /\ main \in {"emacs", "vi-insert"} /\ failed \in BOOLEAN /\ reloads \in Nat

\* Config.Set: with the type the variable has.
LEMMA SetVarKeeps ==
  ASSUME NEW c, IsConfig(c), NEW name, NEW value, value.type \in Types,
         name \in DOMAIN c.vars => value.type = c.vars[name].type
  PROVE  IsConfig(SetVar(c, name, value)) /\ Typed(c, SetVar(c, name, value))
  <1> DEFINE s == SetVar(c, name, value)
             V == c.vars
             W == [n \in DOMAIN V \cup {name} |-> IF n = name THEN value ELSE V[n]]
  <1>1. DOMAIN s = {"vars", "binds"} /\ s.vars = W /\ s.binds = c.binds
    BY DEF SetVar, IsConfig
  <1>2. /\ \A n \in DOMAIN V : V[n].type \in Types
        /\ "editing-mode" \in DOMAIN V /\ V["editing-mode"].type = "string"
    BY DEF IsConfig, IsVars
  <1>3. name \in DOMAIN V => value.type = V[name].type
    OBVIOUS
  <1>4. /\ DOMAIN W = DOMAIN V \cup {name} /\ W[name] = value
        /\ \A n \in DOMAIN V : n # name => W[n] = V[n]
    OBVIOUS
  <1>5. V = c.vars
    OBVIOUS
  <1> HIDE DEF W, V, s
  <1>6. \A n \in DOMAIN V : n \in DOMAIN W /\ W[n].type = V[n].type
    BY <1>3, <1>4
  <1>7. \A n \in DOMAIN W : W[n].type \in Types
    BY <1>2, <1>4
  <1>8. IsConfig(s)
    BY <1>1, <1>2, <1>6, <1>7 DEF IsConfig, IsVars
  <1>9. Typed(c, s)
    BY <1>1, <1>5, <1>6 DEF Typed
  <1> QED
    BY <1>8, <1>9 DEF s

\* Config.Bind: the new binds replace those of the same sequences.
LEMMA SetBindsKeeps ==
  ASSUME NEW c, IsConfig(c), NEW binds, IsBinds(binds)
  PROVE  IsConfig(SetBinds(c, binds)) /\ Typed(c, SetBinds(c, binds))
  <1> DEFINE s == SetBinds(c, binds)
             old == {b \in c.binds : ~\E n \in binds : n.keymap = b.keymap /\ n.seq = b.seq}
  <1>1. DOMAIN s = {"vars", "binds"} /\ s.vars = c.vars /\ s.binds = old \cup binds
    BY DEF SetBinds, IsConfig
  <1>2. IsBinds(c.binds)
    BY DEF IsConfig
  <1>3. IsBinds(old \cup binds)
    BY <1>2 DEF IsBinds
  <1> HIDE DEF s, old
  <1>4. IsConfig(s) /\ Typed(c, s)
    BY <1>1, <1>3 DEF IsConfig, Typed
  <1> QED
    BY <1>4 DEF s

\* A configuration that stays.
LEMMA SameTyped == ASSUME NEW c PROVE Typed(c, c)
  BY DEF Typed

\* The types one after the other.
LEMMA TypedTwice ==
  ASSUME NEW a, NEW b, NEW c, Typed(a, b), Typed(b, c)
  PROVE  Typed(a, c)
  BY DEF Typed

\* The conditions that a line leaves.
NextConds(p, l) ==
  IF l.t = "$if" THEN Append(p.conds, Evaluated(p, l))
  ELSE IF Len(p.conds) = 1 THEN p.conds
  ELSE IF l.t = "$else" THEN [p.conds EXCEPT ![Len(p.conds)] = ~@]
  ELSE IF l.t = "$endif" THEN Front(p.conds)
  ELSE p.conds

\* The line sets the keymap of the binds that follow it.
SetsKeymap(p, l) ==
  /\ l.t = "set" /\ l.name = "keymap"
  /\ p.strict => l.value \in ValidKeymaps

NextKeymap(p, l) == IF SetsKeymap(p, l) /\ Active(p) THEN l.value ELSE p.keymap

\* The parser q is p after the line l.
ParsedTo(p, l, q) ==
  /\ q \in Parser
  /\ q.lines = p.lines /\ q.line = p.line /\ q.errs = p.errs
  /\ q.app = p.app /\ q.mode = p.mode /\ q.term = p.term
  /\ q.halt = p.halt /\ q.strict = p.strict
  /\ q.conds = NextConds(p, l)
  /\ q.keymap = NextKeymap(p, l)

\* What a line does to the parser and to the configuration.
Outcome(p, c, l, res) ==
  /\ ParsedTo(p, l, res.p)
  /\ IsConfig(res.c) /\ Typed(c, res.c)
  /\ res.err \in BOOLEAN

\* A line that changes neither.
LEMMA NoOutcome ==
  ASSUME NEW p \in Parser, NEW c, IsConfig(c), NEW l,
         l.t \notin {"$if", "$else", "$endif"} \/ (l.t # "$if" /\ Len(p.conds) = 1),
         ~(SetsKeymap(p, l) /\ Active(p))
  PROVE  Outcome(p, c, l, Ok(p, c)) /\ Outcome(p, c, l, Err(p, c))
  <1>1. NextConds(p, l) = p.conds /\ NextKeymap(p, l) = p.keymap
    BY DEF NextConds, NextKeymap
  <1>2. Typed(c, c)
    BY SameTyped
  <1> QED
    BY <1>1, <1>2 DEF Outcome, ParsedTo, Ok, Err

\* doBind.
LEMMA BindOutcome ==
  ASSUME NEW p \in Parser, NEW c, IsConfig(c), NEW l, IsLine(disk, l), l.t = "bind"
  PROVE  Outcome(p, c, l, doBind(p, c, l))
  <1> DEFINE b == bind(p.keymap, KeySeq(l), l.action, l.macro)
             d == IF Active(p) THEN SetBinds(c, {b}) ELSE c
  <1>1. KeySeq(l) \in Seq(Nat) /\ l.macro \in BOOLEAN
    BY KeySeqTyped DEF IsLine
  <1>2. b.seq \in Seq(Nat) /\ b.macro \in BOOLEAN
    BY <1>1 DEF bind
  <1>3. doBind(p, c, l) = Ok(p, d)
    BY DEF doBind
  <1> HIDE DEF b
  <1>4. IsBinds({b})
    BY <1>2 DEF IsBinds
  <1>5. IsConfig(d) /\ Typed(c, d)
    BY <1>4, SetBindsKeeps, SameTyped
  <1>6. NextConds(p, l) = p.conds /\ NextKeymap(p, l) = p.keymap
    BY DEF NextConds, NextKeymap, SetsKeymap
  <1> HIDE DEF d
  <1> QED
    BY <1>3, <1>5, <1>6 DEF Outcome, ParsedTo, Ok

\* The values of doSet have one of the types, that of the variable if it has one.
LEMMA DataTyped ==
  ASSUME NEW value
  PROVE  /\ guessedData(value).type \in Types
         /\ \A type \in Types : \A d \in typedData(type, value) : d.type = type
  <1>1. guessedData(value).type \in Types
    <2>1. \A t \in Types : \A v : data(t, v).type \in Types
      BY DEF data
    <2>2. "int" \in Types /\ "bool" \in Types /\ "string" \in Types
      BY DEF Types
    <2>3. guessedData(value) \in {data("int", IntOf[value]), data("bool", "false"),
                                  data("bool", "true"), data("string", value)}
      BY DEF guessedData
    <2> HIDE DEF data, Types
    <2> QED
      BY <2>1, <2>2, <2>3
  <1>2. ASSUME NEW d \in typedData("bool", value) PROVE d.type = "bool"
    BY <1>2 DEF typedData, data
  <1>3. ASSUME NEW d \in typedData("string", value) PROVE d.type = "string"
    BY <1>3 DEF typedData, data
  <1>4. ASSUME NEW d \in typedData("int", value) PROVE d.type = "int"
    BY <1>4 DEF typedData, data
  <1> QED
    BY <1>1, <1>2, <1>3, <1>4 DEF Types

\* A variable that has a value is not nil.
LEMMA GetVarTyped ==
  ASSUME NEW c, IsConfig(c), NEW name
  PROVE  /\ name \in DOMAIN c.vars => GetVar(c, name) = c.vars[name] /\ GetVar(c, name) # nil
         /\ name \notin DOMAIN c.vars => GetVar(c, name) = nil
  <1>1. name \in DOMAIN c.vars => GetVar(c, name) = c.vars[name] /\ c.vars[name].type \in Types
    BY DEF GetVar, IsConfig, IsVars
  <1>2. nil.type = "nil" /\ "nil" \notin Types
    BY DEF nil, Types
  <1>3. name \notin DOMAIN c.vars => GetVar(c, name) = nil
    BY DEF GetVar
  <1> HIDE DEF nil
  <1> QED
    BY <1>1, <1>2, <1>3

\* A line that only sets a variable.
LEMMA VarOutcome ==
  ASSUME NEW p \in Parser, NEW c, IsConfig(c), NEW l, l.t = "set", l.name # "keymap",
         NEW value, value.type \in Types,
         l.name \in DOMAIN c.vars => value.type = c.vars[l.name].type
  PROVE  Outcome(p, c, l, Ok(p, SetVar(c, l.name, value)))
  <1> DEFINE d == SetVar(c, l.name, value)
  <1>1. IsConfig(d) /\ Typed(c, d)
    BY SetVarKeeps
  <1>2. NextConds(p, l) = p.conds /\ NextKeymap(p, l) = p.keymap
    BY DEF NextConds, NextKeymap, SetsKeymap
  <1> HIDE DEF d
  <1>3. Outcome(p, c, l, Ok(p, d))
    BY <1>1, <1>2 DEF Outcome, ParsedTo, Ok
  <1> QED
    BY <1>3 DEF d

\* doSet.
LEMMA SetOutcome ==
  ASSUME NEW p \in Parser, NEW c, IsConfig(c), NEW l, IsLine(disk, l), l.t = "set",
         Active(p) \in BOOLEAN
  PROVE  Outcome(p, c, l, doSet(p, c, l))
  <1> DEFINE val == GetVar(c, l.name)
  <1>0. l.t \notin {"$if", "$else", "$endif"}
    OBVIOUS
  <1>1. CASE ~Active(p)
    <2>1. doSet(p, c, l) = Ok(p, c)
      BY <1>1 DEF doSet
    <2> QED
      BY <1>0, <1>1, <2>1, NoOutcome
  <1>2. CASE Active(p) /\ l.name = "keymap"
    <2>1. doSet(p, c, l) = IF p.strict /\ l.value \notin ValidKeymaps THEN Err(p, c)
                           ELSE Ok([p EXCEPT !.keymap = l.value], c)
      BY <1>2 DEF doSet
    <2>2. CASE p.strict /\ l.value \notin ValidKeymaps
      <3>1. ~SetsKeymap(p, l)
        BY <2>2 DEF SetsKeymap
      <3> QED
        BY <1>0, <2>1, <2>2, <3>1, NoOutcome
    <2>3. CASE ~(p.strict /\ l.value \notin ValidKeymaps)
      <3> DEFINE q == [p EXCEPT !.keymap = l.value]
      <3>1. SetsKeymap(p, l) /\ Active(p)
        BY <1>2, <2>3 DEF SetsKeymap
      <3>2. l.value \in Strings
        BY DEF IsLine, Strings
      <3>3. ParsedTo(p, l, q)
        <4>1. NextConds(p, l) = p.conds /\ NextKeymap(p, l) = l.value
          BY <3>1 DEF NextConds, NextKeymap
        <4>2. /\ q \in Parser /\ q.lines = p.lines /\ q.line = p.line /\ q.errs = p.errs
              /\ q.app = p.app /\ q.mode = p.mode /\ q.term = p.term
              /\ q.halt = p.halt /\ q.strict = p.strict
              /\ q.conds = p.conds /\ q.keymap = l.value
          BY <3>2 DEF Parser
        <4> QED
          BY <4>1, <4>2 DEF ParsedTo
      <3> HIDE DEF q
      <3>4. Outcome(p, c, l, Ok(q, c))
        BY <3>3, SameTyped DEF Outcome, Ok
      <3> QED
        BY <2>1, <2>3, <3>4 DEF q
    <2> QED
      BY <2>2, <2>3
  <1>3. CASE Active(p) /\ l.name = "editing-mode"
    <2> DEFINE v == data("string", l.value)
    <2>1. doSet(p, c, l) = IF l.value \in {"emacs", "vi"} THEN Ok(p, SetVar(c, l.name, v))
                           ELSE Err(p, c)
      BY <1>3 DEF doSet
    <2>2. v.type = "string" /\ "string" \in Types /\ c.vars[l.name].type = "string"
      BY <1>3 DEF data, Types, IsConfig
    <2> HIDE DEF v
    <2>3. Outcome(p, c, l, Ok(p, SetVar(c, l.name, v)))
      BY <1>3, <2>2, VarOutcome
    <2>4. Outcome(p, c, l, Err(p, c))
      <3>1. ~SetsKeymap(p, l)
        BY <1>3 DEF SetsKeymap
      <3> QED
        BY <1>0, <3>1, NoOutcome
    <2> QED
      BY <2>1, <2>3, <2>4
  <1>4. CASE Active(p) /\ l.name \notin {"keymap", "editing-mode"}
    <2>0. ~SetsKeymap(p, l)
      BY <1>4 DEF SetsKeymap
    <2> DEFINE D == typedData(val.type, l.value)
               v == CHOOSE d \in D : TRUE
               g == guessedData(l.value)
    <2>1. doSet(p, c, l) = IF val = nil THEN Ok(p, SetVar(c, l.name, g))
                           ELSE IF D = {} THEN Err(p, c)
                           ELSE Ok(p, SetVar(c, l.name, v))
      BY <1>4 DEF doSet
    <2>2. CASE val = nil
      <3>1. l.name \notin DOMAIN c.vars
        BY <2>2, GetVarTyped
      <3>2. g.type \in Types
        BY DataTyped
      <3> HIDE DEF g
      <3>3. Outcome(p, c, l, Ok(p, SetVar(c, l.name, g)))
        BY <1>4, <3>1, <3>2, VarOutcome
      <3> QED
        BY <2>1, <2>2, <3>3
    <2>3. CASE val # nil /\ D = {}
      BY <1>0, <2>0, <2>1, <2>3, NoOutcome
    <2>4. CASE val # nil /\ D # {}
      <3>1. l.name \in DOMAIN c.vars /\ val = c.vars[l.name]
        BY <2>4, GetVarTyped
      <3>2. val.type \in Types /\ val.type = c.vars[l.name].type
        BY <3>1 DEF IsConfig, IsVars
      <3>3. v \in D
        BY <2>4
      <3> HIDE DEF v
      <3>4. v.type = val.type
        BY <3>2, <3>3, DataTyped
      <3>5. Outcome(p, c, l, Ok(p, SetVar(c, l.name, v)))
        <4> HIDE DEF val
        <4> QED
          BY <1>4, <3>2, <3>4, VarOutcome
      <3> QED
        BY <2>1, <2>4, <3>5
    <2> QED
      BY <2>2, <2>3, <2>4
  <1> QED
    BY <1>1, <1>2, <1>3, <1>4

\* The conditions of a parser, the last of which tells whether it is active.
LEMMA CondsThere ==
  ASSUME NEW s \in Seq(BOOLEAN), s # << >>
  PROVE  /\ Len(s) \in Nat \ {0} /\ Len(s) \in 1 .. Len(s)
         /\ Last(s) = s[Len(s)] /\ Last(s) \in BOOLEAN
  <1>1. Len(s) \in Nat /\ Len(s) # 0
    BY LenProperties, EmptySeq
  <1>2. Len(s) \in 1 .. Len(s)
    BY <1>1
  <1>3. Last(s) = s[Len(s)]
    BY DEF Last
  <1>4. s[Len(s)] \in BOOLEAN
    BY <1>2, ElementOfSeq
  <1> QED
    BY <1>1, <1>2, <1>3, <1>4

\* Those that a line leaves.
LEMMA NextCondsTyped ==
  ASSUME NEW p \in Parser, p.conds # << >>, NEW l, IsLine(disk, l)
  PROVE  /\ NextConds(p, l) \in Seq(BOOLEAN) /\ NextConds(p, l) # << >>
         /\ l.t = "$if" => Evaluated(p, l) \in BOOLEAN
  <1> DEFINE s == p.conds
             n == Len(s)
  <1>1. s \in Seq(BOOLEAN) /\ s # << >>
    BY DEF Parser
  <1>2. n \in Nat \ {0} /\ n \in 1 .. n /\ s[n] \in BOOLEAN
    <2> HIDE DEF s
    <2> QED
      BY <1>1, CondsThere
  <1>3. l.t = "$if" => Evaluated(p, l) \in BOOLEAN
    BY DEF Evaluated, IsLine
  <1>4. NextConds(p, l) =
          IF l.t = "$if" THEN Append(s, Evaluated(p, l))
          ELSE IF n = 1 THEN s
          ELSE IF l.t = "$else" THEN [s EXCEPT ![n] = ~@]
          ELSE IF l.t = "$endif" THEN SubSeq(s, 1, n - 1)
          ELSE s
    BY DEF NextConds, Front
  <1> HIDE DEF s, n
  <1>5. CASE l.t = "$if"
    <2> DEFINE b == Evaluated(p, l)
    <2>1. b \in BOOLEAN
      BY <1>3, <1>5
    <2> HIDE DEF b
    <2>2. Append(s, b) \in Seq(BOOLEAN) /\ Append(s, b) # << >>
      BY <1>1, <2>1, AppendProperties
    <2> QED
      BY <1>3, <1>4, <1>5, <2>2 DEF b
  <1>6. CASE l.t # "$if" /\ n = 1
    BY <1>1, <1>4, <1>6
  <1>7. CASE l.t = "$else" /\ n # 1
    <2> DEFINE b == ~s[n]
    <2>1. b \in BOOLEAN /\ n \in 1 .. Len(s)
      BY <1>2 DEF n
    <2>2. NextConds(p, l) = [s EXCEPT ![n] = b]
      BY <1>4, <1>7
    <2> HIDE DEF b
    <2> DEFINE t == [s EXCEPT ![n] = b]
    <2>3. t \in Seq(BOOLEAN) /\ Len(t) = Len(s)
      BY <1>1, <2>1, ExceptSeq
    <2> HIDE DEF t
    <2>4. t # << >>
      BY <1>2, <2>3, EmptySeq DEF n
    <2> QED
      BY <1>7, <2>2, <2>3, <2>4 DEF t
  <1>8. CASE l.t = "$endif" /\ n # 1
    <2> DEFINE t == SubSeq(s, 1, n - 1)
    <2>0. Len(s) = n /\ n \in Nat /\ n # 0 /\ n # 1
      BY <1>2, <1>8 DEF n
    <2>4. n - 1 >= 1 /\ 1 \in 1 .. n + 1 /\ n - 1 \in 0 .. n
      BY <2>0
    <2>1. 1 \in 1 .. Len(s) + 1 /\ n - 1 \in 0 .. Len(s) /\ n - 1 >= 1
      BY <2>0, <2>4
    <2>2. t \in Seq(BOOLEAN) /\ Len(t) = n - 1
      <3>1. \A j \in 1 .. n - 1 : s[j] \in BOOLEAN
        <4>1. 1 .. n - 1 \subseteq 1 .. Len(s)
          BY <1>2 DEF n
        <4> QED
          BY <1>1, <4>1, ElementOfSeq
      <3> QED
        BY <1>1, <1>2, <2>1, <3>1, SubSeqProperties
    <2> HIDE DEF t
    <2>3. t # << >>
      BY <2>1, <2>2, EmptySeq
    <2> QED
      BY <1>4, <1>8, <2>2, <2>3 DEF t
  <1>9. CASE l.t \notin {"$if", "$else", "$endif"} /\ n # 1
    BY <1>1, <1>4, <1>9
  <1> QED
    BY <1>5, <1>6, <1>7, <1>8, <1>9

\* A line that only changes the conditions.
LEMMA CondsOutcome ==
  ASSUME NEW p \in Parser, p.conds # << >>, NEW c, IsConfig(c), NEW l, IsLine(disk, l),
         l.t # "set"
  PROVE  Outcome(p, c, l, Ok([p EXCEPT !.conds = NextConds(p, l)], c))
  <1> DEFINE s == NextConds(p, l)
             q == [p EXCEPT !.conds = s]
  <1>1. s \in Seq(BOOLEAN)
    BY NextCondsTyped
  <1>2. s = NextConds(p, l) /\ NextKeymap(p, l) = p.keymap
    BY DEF NextKeymap, SetsKeymap
  <1> HIDE DEF s
  <1>3. /\ q \in Parser /\ q.lines = p.lines /\ q.line = p.line /\ q.errs = p.errs
        /\ q.app = p.app /\ q.mode = p.mode /\ q.term = p.term
        /\ q.halt = p.halt /\ q.strict = p.strict
        /\ q.conds = s /\ q.keymap = p.keymap
    BY <1>1 DEF Parser
  <1> HIDE DEF q
  <1>4. Outcome(p, c, l, Ok(q, c))
    BY <1>2, <1>3, SameTyped DEF Outcome, ParsedTo, Ok
  <1> QED
    BY <1>4 DEF q, s

\* Parser.next.
LEMMA NextOutcome ==
  ASSUME NEW p \in Parser, p.conds # << >>, NEW c, IsConfig(c), NEW l, IsLine(disk, l),
         l.t # "$include"
  PROVE  Outcome(p, c, l, next(p, c, l))
  <1>0. Active(p) \in BOOLEAN
    <2>1. p.conds \in Seq(BOOLEAN)
      BY DEF Parser
    <2> QED
      BY <2>1, CondsThere DEF Active
  <1>1. CASE l.t \in {"blank", "bad", "other"}
    <2>1. ~SetsKeymap(p, l) /\ l.t \notin {"$if", "$else", "$endif"}
      BY <1>1 DEF SetsKeymap
    <2>2. next(p, c, l) \in {Ok(p, c), Err(p, c)}
      <3>1. CASE l.t = "blank"
        BY <3>1 DEF next
      <3>2. CASE l.t = "bad"
        BY <3>2 DEF next
      <3>3. CASE l.t = "other"
        <4>1. next(p, c, l) = doOther(p, c, l)
          BY <3>3 DEF next
        <4> QED
          BY <4>1 DEF doOther
      <3> QED
        BY <1>1, <3>1, <3>2, <3>3
    <2>3. Outcome(p, c, l, Ok(p, c)) /\ Outcome(p, c, l, Err(p, c))
      BY <2>1, NoOutcome
    <2> QED
      BY <2>2, <2>3
  <1>2. CASE l.t = "bind"
    <2>1. next(p, c, l) = doBind(p, c, l)
      BY <1>2 DEF next
    <2> QED
      BY <1>2, <2>1, BindOutcome
  <1>3. CASE l.t = "set"
    <2>1. next(p, c, l) = doSet(p, c, l)
      BY <1>3 DEF next
    <2> QED
      BY <1>0, <1>3, <2>1, SetOutcome
  <1>4. CASE l.t = "$if"
    <2>1. next(p, c, l) = doIf(p, c, l)
      BY <1>4 DEF next
    <2>2. doIf(p, c, l) = Ok([p EXCEPT !.conds = NextConds(p, l)], c)
      BY <1>4 DEF doIf, NextConds
    <2> QED
      BY <1>4, <2>1, <2>2, CondsOutcome
  <1>5. CASE l.t = "$else"
    <2>1. next(p, c, l) = doElse(p, c)
      BY <1>5 DEF next
    <2>2. CASE Len(p.conds) = 1
      <3>1. doElse(p, c) = Err(p, c)
        BY <2>2 DEF doElse
      <3>2. ~SetsKeymap(p, l)
        BY <1>5 DEF SetsKeymap
      <3> QED
        BY <1>5, <2>1, <2>2, <3>1, <3>2, NoOutcome
    <2>3. CASE Len(p.conds) # 1
      <3>1. doElse(p, c) = Ok([p EXCEPT !.conds = NextConds(p, l)], c)
        <4>1. doElse(p, c) = Ok([p EXCEPT !.conds[Len(p.conds)] = ~@], c)
          BY <2>3 DEF doElse
        <4>2. NextConds(p, l) = [p.conds EXCEPT ![Len(p.conds)] = ~@]
          BY <1>5, <2>3 DEF NextConds
        <4> QED
          BY <4>1, <4>2
      <3> QED
        BY <1>5, <2>1, <3>1, CondsOutcome
    <2> QED
      BY <2>2, <2>3
  <1>6. CASE l.t = "$endif"
    <2>1. next(p, c, l) = doEndif(p, c)
      BY <1>6 DEF next
    <2>2. CASE Len(p.conds) = 1
      <3>1. doEndif(p, c) = Err(p, c)
        BY <2>2 DEF doEndif
      <3>2. ~SetsKeymap(p, l)
        BY <1>6 DEF SetsKeymap
      <3> QED
        BY <1>6, <2>1, <2>2, <3>1, <3>2, NoOutcome
    <2>3. CASE Len(p.conds) # 1
      <3>1. doEndif(p, c) = Ok([p EXCEPT !.conds = NextConds(p, l)], c)
        BY <1>6, <2>3 DEF doEndif, NextConds
      <3> QED
        BY <1>6, <2>1, <3>1, CondsOutcome
    <2> QED
      BY <2>2, <2>3
  <1> QED
    BY <1>1, <1>2, <1>3, <1>4, <1>5, <1>6 DEF IsLine

-----------------------------------------------------------------------------
(* What a step does to the parsers                                         *)

\* The parser q is p after its line.
Moves(p, q) ==
  /\ p.line <= Len(p.lines)
  /\ q \in Parser
  /\ q.lines = p.lines /\ q.line = p.line + 1
  /\ q.app = p.app /\ q.mode = p.mode /\ q.term = p.term
  /\ q.halt = p.halt /\ q.strict = p.strict
  /\ q.conds = NextConds(p, p.lines[p.line])
  /\ q.keymap = NextKeymap(p, p.lines[p.line])

\* The parser q has just been made.
Fresh(q) == Good(q) /\ q.line = 1 /\ q.conds = <<TRUE>> /\ q.keymap = "emacs"

\* Each parser after the step was there before, has read a line or is new.
Step(before, after) ==
  /\ after \in Seq(Parser)
  /\ \A i \in 1 .. Len(after) :
       \/ i \in 1 .. Len(before) /\ after[i] = before[i]
       \/ i \in 1 .. Len(before) /\ Moves(before[i], after[i])
       \/ Fresh(after[i])

\* A parser that has read a line is at the next one.
LEMMA MovesGood ==
  ASSUME NEW p, Good(p), NEW q, Moves(p, q)
  PROVE  Good(q)
  <1> DEFINE N == Len(p.lines)
             n == p.line
             l == p.lines[n]
  <1>1. N \in Nat /\ n \in 1 .. N + 1 /\ n <= N
    BY DEF Good, Moves
  <1>2. IsLine(disk, l)
    <2> HIDE DEF N, n
    <2>1. n \in 1 .. N
      BY <1>1
    <2> QED
      BY <2>1 DEF Good, N
  <1>3. NextConds(p, l) # << >>
    BY <1>2, NextCondsTyped DEF Good
  <1>4. q \in Parser /\ q.lines = p.lines /\ q.line = n + 1 /\ q.conds = NextConds(p, l)
    BY DEF Moves
  <1>5. Len(q.lines) = N
    BY <1>4
  <1>6. q.line \in 1 .. N + 1
    <2> HIDE DEF N, n
    <2> QED
      BY <1>1, <1>4
  <1>7. \A i \in 1 .. N : IsLine(disk, q.lines[i])
    BY <1>4 DEF Good
  <1> HIDE DEF N, n, l
  <1> QED
    BY <1>1, <1>3, <1>4, <1>5, <1>6, <1>7 DEF Good

\* Parse, before the first line.
LEMMA NewParserFresh ==
  ASSUME disk \in Disks, NEW f \in DOMAIN disk, Readable(f), NEW o,
         o.app \in Strings, o.mode \in Strings, o.term \in Strings,
         o.halt \in BOOLEAN, o.strict \in BOOLEAN
  PROVE  Fresh(NewParser(f, o))
  <1> DEFINE q == NewParser(f, o)
  <1>1. f \in Files /\ disk[f] \in Texts
    BY DEF Files, Texts
  <1>2. <<TRUE>> \in Seq(BOOLEAN) /\ <<TRUE>> # << >>
    OBVIOUS
  <1>3. Len(disk[f]) \in Nat /\ \A i \in 1 .. Len(disk[f]) : IsLine(disk, disk[f][i])
    BY InputrcAssumption DEF Readable
  <1>4. q \in Parser
    <2> DEFINE text == disk[f]
               first == <<TRUE>>
               a == o.app
               m == o.mode
               t == o.term
               h == o.halt
               x == o.strict
               one == 1
               zero == 0
               emacs == "emacs"
    <2>1. text \in Texts /\ first \in Seq(BOOLEAN)
      BY <1>1, <1>2
    <2>2. /\ a \in Strings /\ m \in Strings /\ t \in Strings
          /\ h \in BOOLEAN /\ x \in BOOLEAN /\ one \in Nat /\ zero \in Nat
          /\ emacs \in Strings
      <3>1. a \in Strings /\ m \in Strings /\ t \in Strings /\ h \in BOOLEAN /\ x \in BOOLEAN
        BY Zenon
      <3>2. one \in Nat /\ zero \in Nat
        OBVIOUS
      <3>3. emacs \in Strings
        BY DEF Strings
      <3> QED
        BY <3>1, <3>2, <3>3, Zenon
    <2>3. q = [file |-> f, lines |-> text, line |-> one, keymap |-> emacs, conds |-> first,
               errs |-> zero, app |-> a, mode |-> m, term |-> t, halt |-> h, strict |-> x]
      BY DEF NewParser
    <2> HIDE DEF text, first, a, m, t, h, x, one, zero, emacs, q
    <2> QED
      BY <1>1, <2>1, <2>2, <2>3 DEF Parser
  <1>5. q.lines = disk[f] /\ q.line = 1 /\ q.conds = <<TRUE>> /\ q.keymap = "emacs"
    BY DEF NewParser
  <1> HIDE DEF q
  <1>6. 1 \in 1 .. Len(disk[f]) + 1
    BY <1>3
  <1>7. Fresh(q)
    BY <1>2, <1>3, <1>4, <1>5, <1>6 DEF Fresh, Good
  <1> QED
    BY <1>7 DEF q

\* The parsers after a step are at a line of their file.
LEMMA StepGood ==
  ASSUME NEW before, \A i \in 1 .. Len(before) : Good(before[i]),
         NEW after, Step(before, after)
  PROVE  \A i \in 1 .. Len(after) : Good(after[i])
  <1> SUFFICES ASSUME NEW i \in 1 .. Len(after) PROVE Good(after[i])
    OBVIOUS
  <1>1. CASE i \in 1 .. Len(before) /\ after[i] = before[i]
    BY <1>1
  <1>2. CASE i \in 1 .. Len(before) /\ Moves(before[i], after[i])
    BY <1>2, MovesGood
  <1>3. CASE Fresh(after[i])
    BY <1>3 DEF Fresh
  <1> QED
    BY <1>1, <1>2, <1>3 DEF Step

\* No parser is left, or there was none.
LEMMA StepToNone == ASSUME NEW before PROVE Step(before, << >>)
  BY DEF Step

\* The parsers stay.
LEMMA StepStays ==
  ASSUME NEW before \in Seq(Parser)
  PROVE  Step(before, before)
  BY DEF Step

\* The last parser reads its line.
LEMMA StepMoves ==
  ASSUME NEW before \in Seq(Parser), before # << >>, NEW q, Moves(before[Len(before)], q)
  PROVE  /\ Step(before, [before EXCEPT ![Len(before)] = q])
         /\ Len([before EXCEPT ![Len(before)] = q]) = Len(before)
  <1> DEFINE n == Len(before)
             after == [before EXCEPT ![n] = q]
  <1>1. n \in Nat /\ n # 0
    BY LenProperties, EmptySeq
  <1>2. n \in 1 .. n /\ q \in Parser
    BY <1>1 DEF Moves
  <1>3. after \in Seq(Parser) /\ Len(after) = n
    BY <1>2, ExceptSeq
  <1>4. after[n] = q /\ \A i \in 1 .. n : i # n => after[i] = before[i]
    BY <1>2
  <1>5. n = Len(before)
    OBVIOUS
  <1> HIDE DEF n, after
  <1>6. Step(before, after)
    BY <1>2, <1>3, <1>4, <1>5 DEF Step
  <1> QED
    BY <1>3, <1>5, <1>6 DEF after, n

\* A file is included.
LEMMA StepAppends ==
  ASSUME NEW before \in Seq(Parser), NEW after, Step(before, after),
         NEW q, Fresh(q)
  PROVE  Step(before, Append(after, q))
  <1> DEFINE n == Len(after)
             t == Append(after, q)
  <1>1. after \in Seq(Parser) /\ q \in Parser
    BY DEF Step, Fresh, Good
  <1>2. n \in Nat
    BY <1>1, LenProperties
  <1>3. /\ t \in Seq(Parser) /\ Len(t) = n + 1 /\ t[n + 1] = q
        /\ \A i \in 1 .. n : t[i] = after[i]
    BY <1>1, AppendProperties
  <1>4. \A i \in 1 .. n : \/ i \in 1 .. Len(before) /\ after[i] = before[i]
                          \/ i \in 1 .. Len(before) /\ Moves(before[i], after[i])
                          \/ Fresh(after[i])
    BY DEF Step
  <1> HIDE DEF n, t
  <1>5. ASSUME NEW i \in 1 .. n + 1 PROVE i \in 1 .. n \/ i = n + 1
    BY <1>2
  <1>6. Step(before, t)
    BY <1>3, <1>4, <1>5 DEF Step
  <1> QED
    BY <1>6 DEF t

\* The file that was included ends.
LEMMA StepDrops ==
  ASSUME NEW before \in Seq(Parser), Len(before) > 1
  PROVE  Step(before, Front(before))
  <1> DEFINE n == Len(before)
             t == SubSeq(before, 1, n - 1)
  <1>1. n \in Nat /\ n > 1
    BY LenProperties
  <1>2. \A i \in 1 .. n - 1 : i \in 1 .. n /\ before[i] \in Parser
    <2> SUFFICES ASSUME NEW i \in 1 .. n - 1 PROVE i \in 1 .. n /\ before[i] \in Parser
      OBVIOUS
    <2>1. i \in 1 .. n
      BY <1>1
    <2> QED
      BY <2>1, ElementOfSeq
  <1>3. 1 \in 1 .. n + 1 /\ n - 1 \in 0 .. n
    BY <1>1
  <1>4. /\ t \in Seq(Parser) /\ Len(t) = n - 1 /\ \A i \in 1 .. n - 1 : t[i] = before[i]
    <2>1. Len(t) = n - 1 /\ \A i \in 1 .. n - 1 : t[i] = before[1 + i - 1]
      BY <1>1, <1>3, SubSeqProperties
    <2>2. t \in Seq(Parser)
      BY <1>1, <1>2, <1>3, SubSeqProperties
    <2> QED
      BY <2>1, <2>2
  <1>5. Front(before) = t
    BY DEF Front
  <1> HIDE DEF t
  <1>6. Step(before, t)
    BY <1>2, <1>4 DEF Step
  <1> QED
    BY <1>5, <1>6

-----------------------------------------------------------------------------
(* The steps                                                               *)

\* What every step does.
Effect ==
  /\ disk' = disk /\ opts' = opts
  /\ stage' \in {"idle", "go", "user", "override"}
  /\ IsConfig(cfg') /\ Typed(cfg, cfg')
  /\ Step(parsers, parsers')
  /\ stage' \in {"idle", "override"} => parsers' = << >>
  /\ main' \in {"emacs", "vi-insert"} /\ failed' \in BOOLEAN /\ reloads' \in Nat

\* UserDefault returns.
LEMMA PassEndsEffect ==
  ASSUME IInv, stage \in {"go", "user"}, NEW err \in BOOLEAN, PassEnds(err),
         IsConfig(cfg'), Typed(cfg, cfg')
  PROVE  Effect
  <1>1. Step(parsers, parsers')
    BY StepToNone DEF PassEnds
  <1>2. stage' \in {"idle", "go", "user", "override"} /\ parsers' = << >>
    BY DEF PassEnds
  <1>3. failed' \in BOOLEAN
    BY DEF PassEnds
  <1> QED
    BY <1>1, <1>2, <1>3 DEF PassEnds, Effect, IInv

\* The parser that runs.
LEMMA Running ==
  ASSUME IInv, parsers # << >>
  PROVE  /\ stage \in {"go", "user"} /\ parsers \in Seq(Parser)
         /\ Len(parsers) \in 1 .. Len(parsers)
         /\ p0 = parsers[Len(parsers)] /\ Good(p0)
  <1>1. parsers \in Seq(Parser) /\ stage \in {"go", "user"}
    BY DEF IInv
  <1>2. Len(parsers) \in Nat /\ Len(parsers) # 0
    BY <1>1, LenProperties, EmptySeq
  <1>3. Len(parsers) \in 1 .. Len(parsers)
    BY <1>2
  <1>4. p0 = parsers[Len(parsers)]
    BY DEF p0, Last
  <1> QED
    BY <1>1, <1>3, <1>4 DEF IInv

\* The line it is at.
LEMMA LineThere ==
  ASSUME IInv, Reading
  PROVE  IsLine(disk, line0) /\ p0.line <= Len(p0.lines) /\ line0 = p0.lines[p0.line]
  <1> DEFINE n == p0.line
             N == Len(p0.lines)
  <1>1. N \in Nat /\ n \in 1 .. N + 1 /\ n <= N
    BY Running DEF Reading, Good
  <1>2. n \in 1 .. N
    <2> HIDE DEF n, N
    <2> QED
      BY <1>1
  <1>3. Good(p0)
    BY Running DEF Reading
  <1>4. IsLine(disk, p0.lines[n])
    BY <1>2, <1>3 DEF Good
  <1> QED
    BY <1>1, <1>4 DEF line0

\* What the parser does with the outcome of its line.
LEMMA AfterEffect ==
  ASSUME IInv, Reading, NEW res, Outcome(p0, cfg, line0, res), After(res)
  PROVE  Effect
  <1> DEFINE p == [res.p EXCEPT !.errs = @ + IF res.err THEN 1 ELSE 0, !.line = @ + 1]
             r == res.p
  <1>1. /\ ParsedTo(p0, line0, r) /\ IsConfig(res.c) /\ Typed(cfg, res.c)
        /\ res.err \in BOOLEAN
    BY DEF Outcome
  <1>2. parsers # << >>
    BY DEF Reading
  <1>3. CASE res.err /\ p.halt
    <2>1. cfg' = res.c /\ PassEnds(TRUE)
      BY <1>3 DEF After
    <2> QED
      BY <1>1, <1>2, <2>1, Running, PassEndsEffect
  <1>4. CASE ~(res.err /\ p.halt)
    <2>1. /\ cfg' = res.c /\ parsers' = [parsers EXCEPT ![Len(parsers)] = p]
          /\ UNCHANGED <<disk, opts, stage, main, failed, reloads>>
      BY <1>4 DEF After
    <2>2. Moves(p0, p)
      <3> DEFINE k == IF res.err THEN 1 ELSE 0
                 e == r.errs
                 n == r.line
      <3>1. k \in Nat /\ e \in Nat /\ n \in Nat /\ r \in Parser
        BY <1>1 DEF ParsedTo, Parser
      <3>2. e + k \in Nat /\ n + 1 \in Nat
        <4> HIDE DEF k, e, n
        <4> QED
          BY <3>1
      <3> DEFINE u == e + k
                 v == n + 1
      <3>3. p = [r EXCEPT !.errs = u, !.line = v]
        OBVIOUS
      <3>4. u \in Nat /\ v \in Nat /\ v = r.line + 1
        BY <3>2
      <3> HIDE DEF u, v, p, r
      <3>5. /\ p \in Parser /\ p.lines = r.lines /\ p.line = v /\ p.app = r.app
            /\ p.mode = r.mode /\ p.term = r.term /\ p.halt = r.halt /\ p.strict = r.strict
            /\ p.conds = r.conds /\ p.keymap = r.keymap
        BY <3>1, <3>3, <3>4 DEF Parser
      <3>6. p0.line <= Len(p0.lines) /\ line0 = p0.lines[p0.line]
        BY LineThere
      <3> QED
        BY <1>1, <3>4, <3>5, <3>6 DEF Moves, ParsedTo
    <2> HIDE DEF p
    <2>3. Step(parsers, parsers')
      BY <1>2, <2>1, <2>2, Running, StepMoves
    <2> QED
      BY <1>1, <1>2, <2>1, <2>3, Running DEF Effect, IInv
  <1> QED
    BY <1>3, <1>4

\* loadBuiltinOptions and loadBuiltinBinds.
LEMMA ReloadEffect == ASSUME IInv, Reload PROVE Effect
  <1> DEFINE c1 == loadBuiltinOptions(cfg)
             V == cfg.vars
             W == [n \in DOMAIN V \cup DOMAIN Options |-> IF n \in DOMAIN V THEN V[n] ELSE Options[n]]
             c2 == SetBinds(c1, Builtin)
             aborts == {bind(b.keymap, <<Encontrol(UpperC)>>, "abort", FALSE) : b \in c2.binds}
             c3 == SetBinds(c2, aborts)
  <1>0. IsConfig(cfg)
    BY DEF IInv
  <1>1. IsConfig(c1) /\ Typed(cfg, c1)
    <2>1. DOMAIN c1 = {"vars", "binds"} /\ c1.vars = W /\ c1.binds = cfg.binds
      BY <1>0 DEF loadBuiltinOptions, IsConfig
    <2>2. /\ \A n \in DOMAIN V : V[n].type \in Types
          /\ "editing-mode" \in DOMAIN V /\ V["editing-mode"].type = "string"
          /\ \A n \in DOMAIN Options : Options[n].type \in Types
      BY <1>0, InputrcAssumption DEF IsConfig, IsVars
    <2>3. /\ DOMAIN W = DOMAIN V \cup DOMAIN Options
          /\ \A n \in DOMAIN V : W[n] = V[n]
          /\ \A n \in DOMAIN Options : n \notin DOMAIN V => W[n] = Options[n]
      OBVIOUS
    <2>4. V = cfg.vars
      OBVIOUS
    <2> HIDE DEF V, W, c1
    <2>5. \A n \in DOMAIN W : W[n].type \in Types
      BY <2>2, <2>3
    <2>6. "editing-mode" \in DOMAIN W /\ W["editing-mode"].type = "string"
      BY <2>2, <2>3
    <2>7. IsConfig(c1)
      BY <1>0, <2>1, <2>5, <2>6 DEF IsConfig, IsVars
    <2>8. Typed(cfg, c1)
      BY <2>1, <2>3, <2>4 DEF Typed
    <2> QED
      BY <2>7, <2>8
  <1> HIDE DEF c1
  <1>2. IsConfig(c2) /\ Typed(c1, c2)
    BY <1>1, InputrcAssumption, SetBindsKeeps
  <1> HIDE DEF c2
  <1>3. IsBinds(aborts)
    <2> DEFINE s == <<Encontrol(UpperC)>>
    <2>1. s \in Seq(Nat)
      BY Codes DEF UpperC
    <2> HIDE DEF s
    <2>2. \A b \in aborts : b.seq = s /\ b.macro = FALSE /\ b.action = "abort"
                            /\ b = bind(b.keymap, s, "abort", FALSE)
      BY DEF bind, s
    <2> HIDE DEF aborts
    <2> QED
      BY <2>1, <2>2 DEF IsBinds
  <1> HIDE DEF aborts
  <1>4. IsConfig(c3) /\ Typed(c2, c3)
    BY <1>2, <1>3, SetBindsKeeps
  <1>5. cfg' = c3
    BY DEF Reload, loadBuiltinBinds, c1, c2, aborts
  <1> HIDE DEF c3
  <1>6. IsConfig(cfg') /\ Typed(cfg, cfg')
    <2>1. Typed(cfg, c2)
      BY <1>1, <1>2, TypedTwice
    <2> QED
      BY <1>4, <1>5, <2>1, TypedTwice
  <1>7. Step(parsers, parsers')
    BY StepStays DEF IInv, Reload
  <1> QED
    <2>1. reloads' \in Nat
      BY DEF Reload, IInv
    <2>2. failed' \in BOOLEAN /\ main' \in {"emacs", "vi-insert"}
      BY DEF Reload, IInv
    <2>3. stage' = "go" /\ disk' = disk /\ opts' = opts
      BY DEF Reload
    <2> QED
      BY <1>6, <1>7, <2>1, <2>2, <2>3 DEF Effect

\* The options of a pass.
LEMMA PassOptsTyped ==
  ASSUME IInv
  PROVE  /\ PassOpts.app \in Strings /\ PassOpts.mode \in Strings /\ PassOpts.term \in Strings
         /\ PassOpts.halt \in BOOLEAN /\ PassOpts.strict \in BOOLEAN
  <1>1. CASE stage = "go"
    BY <1>1 DEF PassOpts, Strings
  <1>2. CASE stage # "go"
    <2>1. opts \in [app : STRING, mode : STRING, term : STRING, halt : BOOLEAN, strict : BOOLEAN]
      BY InputrcAssumption DEF IInv
    <2>2. PassOpts = opts
      BY <1>2 DEF PassOpts
    <2> QED
      BY <2>1, <2>2 DEF Strings
  <1> QED
    BY <1>1, <1>2

\* The file of a pass.
LEMMA UserDefaultEffect == ASSUME IInv, UserDefault PROVE Effect
  <1> DEFINE found == {i \in 1 .. Len(Candidates) : disk[Candidates[i]] # Missing}
             k == Min(found)
             first == Candidates[k]
  <1>1. stage \in {"go", "user"} /\ parsers = << >>
    BY DEF UserDefault
  <1>2. CASE PassEnds(found # {}) /\ UNCHANGED cfg
    <2>1. IsConfig(cfg') /\ Typed(cfg, cfg')
      BY <1>2, SameTyped DEF IInv
    <2>2. (found # {}) \in BOOLEAN
      OBVIOUS
    <2> DEFINE e == found # {}
    <2>3. e \in BOOLEAN /\ PassEnds(e)
      BY <1>2, <2>2
    <2> HIDE DEF e
    <2> QED
      BY <1>1, <2>1, <2>3, PassEndsEffect
  <1>3. CASE /\ found # {} /\ Readable(first)
             /\ parsers' = <<NewParser(first, PassOpts)>>
             /\ UNCHANGED <<disk, opts, stage, cfg, main, failed, reloads>>
    <2>0. disk \in Disks
      BY DEF IInv
    <2>1. Candidates \in Seq(DOMAIN disk)
      BY <2>0, InputrcAssumption
    <2>2. Len(Candidates) \in Nat
      BY <2>1, LenProperties
    <2>3. k \in 1 .. Len(Candidates)
      <3>1. 1 \in Int /\ found \in SUBSET Int /\ found # {} /\ \A t \in found : 1 <= t
        BY <1>3, <2>2
      <3>2. \A i \in found : i \in 1 .. Len(Candidates)
        OBVIOUS
      <3> HIDE DEF found
      <3>3. k \in found
        BY <3>1, MinInRange
      <3> QED
        BY <3>2, <3>3
    <2> HIDE DEF k, found
    <2>4. first \in DOMAIN disk
      BY <2>1, <2>3, ElementOfSeq
    <2> HIDE DEF first
    <2> DEFINE q == NewParser(first, PassOpts)
    <2>5. Fresh(q)
      BY <1>3, <2>0, <2>4, PassOptsTyped, NewParserFresh
    <2> HIDE DEF q
    <2>6. Step(parsers, parsers')
      <3>1. Step(parsers, Append(<< >>, q))
        BY <1>1, <2>5, StepStays, StepAppends DEF IInv
      <3>2. Append(<< >>, q) = <<q>>
        OBVIOUS
      <3> QED
        BY <1>3, <3>1, <3>2 DEF q
    <2> QED
      BY <1>1, <1>3, <2>6, SameTyped DEF Effect, IInv
  <1> QED
    BY <1>2, <1>3 DEF UserDefault

\* A line other than an $include, and an $include that is not followed.
LEMMA LineEffect == ASSUME IInv, ParseLine \/ SkipInclude PROVE Effect
  <1>1. Reading /\ parsers # << >>
    BY DEF ParseLine, SkipInclude, Reading
  <1>2. /\ p0 \in Parser /\ p0.conds # << >> /\ IsLine(disk, line0) /\ IsConfig(cfg)
    BY <1>1, Running, LineThere DEF Good, IInv
  <1>3. CASE ParseLine
    <2>1. line0.t # "$include" /\ After(next(p0, cfg, line0))
      BY <1>3 DEF ParseLine
    <2> DEFINE res == next(p0, cfg, line0)
    <2>2. Outcome(p0, cfg, line0, res)
      BY <1>2, <2>1, NextOutcome
    <2> HIDE DEF res
    <2>3. After(res)
      BY <2>1 DEF res
    <2> QED
      BY <1>1, <2>2, <2>3, AfterEffect
  <1>4. CASE SkipInclude
    <2>1. /\ line0.t = "$include"
          /\ After(IF Active(p0) /\ disk[line0.file] = Unreadable THEN Err(p0, cfg)
                   ELSE Ok(p0, cfg))
      BY <1>4 DEF SkipInclude
    <2> DEFINE res == IF Active(p0) /\ disk[line0.file] = Unreadable THEN Err(p0, cfg)
                      ELSE Ok(p0, cfg)
    <2>2. ~SetsKeymap(p0, line0) /\ line0.t \notin {"$if", "$else", "$endif"}
      BY <2>1 DEF SetsKeymap
    <2>3. Outcome(p0, cfg, line0, Ok(p0, cfg)) /\ Outcome(p0, cfg, line0, Err(p0, cfg))
      BY <1>2, <2>2, NoOutcome
    <2>4. Outcome(p0, cfg, line0, res)
      BY <2>3
    <2> HIDE DEF res
    <2>5. After(res)
      BY <2>1 DEF res
    <2> QED
      BY <1>1, <2>4, <2>5, AfterEffect
  <1> QED
    BY <1>3, <1>4

\* An $include that is followed: the parser is past it, and one for the file runs.
LEMMA IncludeEffect == ASSUME IInv, Include PROVE Effect
  <1> DEFINE n == Len(parsers)
             f == line0.file
             o == [p0 EXCEPT !.halt = FALSE, !.strict = FALSE]
             q == [p0 EXCEPT !.line = @ + 1]
             r == NewParser(f, o)
             after == [parsers EXCEPT ![n] = q]
  <1>1. /\ Reading /\ line0.t = "$include" /\ Active(p0) /\ Readable(f)
        /\ UNCHANGED <<disk, opts, stage, cfg, main, failed, reloads>>
        /\ parsers' = Append([parsers EXCEPT ![Len(parsers)].line = @ + 1], r)
    BY DEF Include
  <1>2. parsers # << >>
    BY <1>1 DEF Reading
  <1>3. /\ stage \in {"go", "user"} /\ parsers \in Seq(Parser) /\ n \in 1 .. n
        /\ p0 = parsers[n] /\ Good(p0)
    BY <1>2, Running
  <1>4. IsLine(disk, line0) /\ p0.line <= Len(p0.lines) /\ line0 = p0.lines[p0.line]
    BY <1>1, LineThere
  <1>5. parsers' = Append(after, r)
    BY <1>1, <1>3
  <1>6. Moves(p0, q)
    <2>1. NextConds(p0, line0) = p0.conds /\ NextKeymap(p0, line0) = p0.keymap
      BY <1>1 DEF NextConds, NextKeymap, SetsKeymap
    <2> DEFINE k == p0.line
               v == k + 1
    <2>2. v \in Nat
      <3>1. k \in Nat
        BY <1>3 DEF Good, Parser
      <3> HIDE DEF k
      <3> QED
        BY <3>1
    <2>3. q = [p0 EXCEPT !.line = v] /\ v = p0.line + 1 /\ p0 \in Parser
      BY <1>3 DEF Good
    <2> HIDE DEF q, v
    <2>4. /\ q \in Parser /\ q.lines = p0.lines /\ q.line = v /\ q.app = p0.app
          /\ q.mode = p0.mode /\ q.term = p0.term /\ q.halt = p0.halt
          /\ q.strict = p0.strict /\ q.conds = p0.conds /\ q.keymap = p0.keymap
      BY <2>2, <2>3 DEF Parser
    <2> QED
      BY <1>4, <2>1, <2>3, <2>4 DEF Moves
  <1>7. Fresh(r)
    <2>1. f \in DOMAIN disk /\ disk \in Disks
      BY <1>1, <1>4 DEF IsLine, IInv
    <2>2. /\ o.app \in Strings /\ o.mode \in Strings /\ o.term \in Strings
          /\ o.halt \in BOOLEAN /\ o.strict \in BOOLEAN
      BY <1>3 DEF Good, Parser
    <2> HIDE DEF o, f
    <2> QED
      BY <1>1, <2>1, <2>2, NewParserFresh
  <1> HIDE DEF q, r
  <1>8. Step(parsers, after)
    BY <1>2, <1>3, <1>6, StepMoves
  <1> HIDE DEF after
  <1>9. Step(parsers, parsers')
    BY <1>3, <1>5, <1>7, <1>8, StepAppends
  <1> QED
    BY <1>1, <1>3, <1>9, SameTyped DEF Effect, IInv

\* The end of a file.
LEMMA EndOfFileEffect == ASSUME IInv, EndOfFile PROVE Effect
  <1>1. parsers # << >> /\ stage \in {"go", "user"} /\ parsers \in Seq(Parser)
    BY Running DEF EndOfFile
  <1>2. CASE /\ Len(parsers) > 1 /\ parsers' = Front(parsers)
             /\ UNCHANGED <<disk, opts, stage, cfg, main, failed, reloads>>
    <2>1. Step(parsers, parsers')
      BY <1>1, <1>2, StepDrops
    <2> QED
      BY <1>1, <1>2, <2>1, SameTyped DEF Effect, IInv
  <1>3. CASE PassEnds(FALSE) /\ UNCHANGED cfg
    <2>1. IsConfig(cfg') /\ Typed(cfg, cfg')
      BY <1>3, SameTyped DEF IInv
    <2> QED
      BY <1>1, <1>3, <2>1, PassEndsEffect
  <1> QED
    BY <1>2, <1>3 DEF EndOfFile

\* overrideBindsSpecial keeps the sequence of every bind.
LEMMA OverrideEffect == ASSUME IInv, Override PROVE Effect
  <1> DEFINE special(b) ==
               IF /\ GetBool(cfg, "disable-completion")
                  /\ b.action \in {"complete", "menu-complete", "possible-completions"}
               THEN bind(b.keymap, b.seq, "self-insert", FALSE) ELSE b
             B == cfg.binds
             S == {special(b) : b \in B}
             c == overrideBindsSpecial(cfg)
  <1>0. IsConfig(cfg) /\ cfg' = c
    BY DEF IInv, Override
  <1>1. DOMAIN c = {"vars", "binds"} /\ c.vars = cfg.vars /\ c.binds = S
    BY <1>0 DEF overrideBindsSpecial, IsConfig
  <1>2. \A b \in B : /\ special(b).keymap = b.keymap /\ special(b).seq = b.seq
                     /\ special(b).macro \in BOOLEAN
    BY <1>0 DEF IsConfig, IsBinds, bind
  <1>3. IsBinds(B)
    BY <1>0 DEF IsConfig
  <1>4. IsBinds(S)
    <2>1. ASSUME NEW x \in S PROVE x.seq \in Seq(Nat) /\ x.macro \in BOOLEAN
      <3>1. PICK b \in B : x = special(b)
        OBVIOUS
      <3> HIDE DEF B, special
      <3> QED
        BY <1>2, <1>3, <3>1 DEF IsBinds
    <2>2. ASSUME NEW x \in S, NEW y \in S, x.keymap = y.keymap, x.seq = y.seq
          PROVE  x = y
      <3>1. PICK b \in B : x = special(b)
        OBVIOUS
      <3>2. PICK d \in B : y = special(d)
        OBVIOUS
      <3> HIDE DEF B, special
      <3>3. b = d
        BY <1>2, <1>3, <2>2, <3>1, <3>2 DEF IsBinds
      <3> QED
        BY <3>1, <3>2, <3>3
    <2> HIDE DEF S
    <2> QED
      BY <2>1, <2>2 DEF IsBinds
  <1> HIDE DEF S, c
  <1>5. IsConfig(cfg') /\ Typed(cfg, cfg')
    BY <1>0, <1>1, <1>4 DEF IsConfig, Typed
  <1>6. main' \in {"emacs", "vi-insert"}
    BY DEF Override, IInv
  <1>7. Step(parsers, parsers') /\ parsers' = << >>
    BY StepStays DEF Override, IInv
  <1> QED
    BY <1>5, <1>6, <1>7 DEF Effect, Override, IInv

\* Every step.
LEMMA NextEffect == ASSUME IInv, [Next]_vars PROVE Effect
  <1>1. CASE UNCHANGED vars
    BY <1>1, StepStays, SameTyped DEF vars, Effect, IInv
  <1>2. CASE Next
    BY <1>2, ReloadEffect, UserDefaultEffect, LineEffect, IncludeEffect, EndOfFileEffect,
       OverrideEffect DEF Next
  <1> QED
    BY <1>1, <1>2

\* The types stay.
LEMMA Typing == ASSUME IInv, [Next]_vars PROVE IInv'
  <1>1. Effect
    BY NextEffect
  <1>2. \A i \in 1 .. Len(parsers') : Good(parsers'[i])
    BY <1>1, StepGood DEF Effect, IInv
  <1>3. \A i \in 1 .. Len(parsers') : Good(parsers[i])'
    BY <1>1, <1>2 DEF Good, Effect
  <1>4. parsers' \in Seq(Parser)
    BY <1>1 DEF Effect, Step
  <1>5. IsConfig(cfg)'
    BY <1>1 DEF Effect
  <1> QED
    BY <1>1, <1>3, <1>4, <1>5 DEF IInv, Effect

\* At the start.
LEMMA InitTyping == ASSUME Init PROVE IInv
  <1>1. IsConfig(cfg)
    BY InputrcAssumption DEF Init, IsConfig
  <1>2. parsers = << >> /\ parsers \in Seq(Parser) /\ Len(parsers) = 0
    BY DEF Init
  <1>3. \A i \in 1 .. Len(parsers) : Good(parsers[i])
    BY <1>2
  <1>4. failed \in BOOLEAN /\ reloads \in Nat
    BY DEF Init
  <1> QED
    BY <1>1, <1>2, <1>3, <1>4 DEF Init, IInv

\* Every parser of a reload (Parser.Parse) is at a line of its file or past the
\* last one and has a condition to look at, even after a stray $else or $endif;
\* the values and the binds of the Config are of the kinds the code knows.
THEOREM TypeCorrect == Spec => []TypeOK
  <1>1. ASSUME IInv PROVE TypeOK
    <2>1. DOMAIN parsers = 1 .. Len(parsers)
      BY <1>1, LenProperties DEF IInv
    <2>2. ASSUME NEW i \in 1 .. Len(parsers)
          PROVE  /\ parsers[i].line \in 1 .. Len(parsers[i].lines) + 1
                 /\ parsers[i].conds \in Seq(BOOLEAN) /\ parsers[i].conds # << >>
                 /\ parsers[i].errs \in Nat
      BY <1>1 DEF IInv, Good, Parser
    <2> QED
      BY <1>1, <2>1, <2>2 DEF TypeOK, IInv, IsConfig
  <1> QED
    BY <1>1, InitTyping, Typing, PTL DEF Spec

\* No line of any file, no default and no reload changes the type of a variable
\* of the Config (Parser.doSet, loadBuiltinOptions), nor takes one away.
THEOREM VariablesKeepTheirType == Spec => VarsKeepType
  <1>1. ASSUME IInv, [Next]_vars PROVE [KeepsTypes]_vars
    BY <1>1, NextEffect DEF Effect, Typed, KeepsTypes
  <1> QED
    BY <1>1, InitTyping, Typing, PTL DEF Spec, VarsKeepType

-----------------------------------------------------------------------------
(* The $ifs that are open                                                  *)

\* What a line does to the number of $ifs that are open.
LevelAfter(v, l) ==
  IF l.t = "$if" THEN v + 1
  ELSE IF l.t = "$endif" /\ v > 0 THEN v - 1
  ELSE v

\* The function lv counts the $ifs that are open after each line.
LevelOf(lines, lv) ==
  /\ lv \in [0 .. Len(lines) -> Nat] /\ lv[0] = 0
  /\ \A k \in 1 .. Len(lines) : lv[k] = LevelAfter(lv[k - 1], lines[k])

\* The recursion of Level defines that function.
LEMMA LevelIs ==
  ASSUME NEW lines, Len(lines) \in Nat
  PROVE  LevelOf(lines, Level(lines))
  <1> DEFINE len == Len(lines)
             step == [x \in Nat \X Nat |-> LevelAfter(x[1], lines[x[2]])]
             Def(f) == [k \in 0 .. len |->
                          IF k = 0 THEN 0
                          ELSE CASE lines[k].t = "$if" -> f[k - 1] + 1
                                 [] lines[k].t = "$endif" /\ f[k - 1] > 0 -> f[k - 1] - 1
                                 [] OTHER -> f[k - 1]]
             lv == CHOOSE f : f = Def(f)
  <1>1. len \in Nat
    OBVIOUS
  <1>2. \A v \in Nat : \A l : LevelAfter(v, l) \in Nat
    BY DEF LevelAfter
  <1>3. step \in [Nat \X Nat -> Nat]
    BY <1>2
  <1>4. PICK f \in [0 .. len -> Nat] : FoldsTo(f, 0, step, len)
    <2> HIDE DEF step, len
    <2> QED
      BY <1>1, <1>3, PrimitiveRecursion
  <1>5. f[0] = 0
    BY <1>4 DEF FoldsTo
  <1>6. ASSUME NEW k \in 1 .. len PROVE f[k] = LevelAfter(f[k - 1], lines[k])
    <2> HIDE DEF len
    <2>0. k - 1 \in 0 .. len /\ k \in Nat
      BY <1>1
    <2>1. <<f[k - 1], k>> \in Nat \X Nat
      BY <2>0, <1>4
    <2>2. f[k] = step[<<f[k - 1], k>>]
      BY <1>4 DEF FoldsTo
    <2> QED
      BY <2>1, <2>2
  <1>7. f = Def(f)
    <2>1. ASSUME NEW k \in 0 .. len PROVE f[k] = Def(f)[k]
      <3>1. CASE k = 0
        BY <3>1, <1>5
      <3>2. CASE k # 0
        <4>1. k \in 1 .. len
          BY <3>2, <1>1
        <4>2. f[k] = LevelAfter(f[k - 1], lines[k])
          BY <4>1, <1>6
        <4> QED
          BY <3>2, <4>1, <4>2 DEF LevelAfter
      <3> QED
        BY <3>1, <3>2
    <2>2. /\ DOMAIN f = 0 .. len /\ DOMAIN Def(f) = 0 .. len
          /\ f = [k \in DOMAIN f |-> f[k]]
          /\ Def(f) = [k \in 0 .. len |-> Def(f)[k]]
      BY <1>4
    <2> HIDE DEF Def
    <2> QED
      BY <2>1, <2>2
  <1>8. lv = Def(lv)
    <2> HIDE DEF Def
    <2> QED
      BY <1>7
  <1>9. Level(lines) = lv
    BY DEF Level
  <1> HIDE DEF lv
  <1>10. lv[0] = 0 /\ DOMAIN lv = 0 .. len
    <2>1. Def(lv)[0] = 0 /\ DOMAIN Def(lv) = 0 .. len
      BY <1>1
    <2> HIDE DEF Def
    <2> QED
      BY <1>8, <2>1
  <1>11. ASSUME NEW k \in 1 .. len PROVE lv[k] = LevelAfter(lv[k - 1], lines[k])
    <2>1. Def(lv)[k] = LevelAfter(lv[k - 1], lines[k])
      BY <1>1 DEF LevelAfter
    <2> HIDE DEF Def
    <2> QED
      BY <1>8, <2>1
  <1>12. lv \in [0 .. len -> Nat]
    <2> DEFINE T == {k \in Nat : k \in 0 .. len => lv[k] \in Nat}
    <2>1. 0 \in T
      BY <1>10
    <2>2. ASSUME NEW k \in Nat, k \in T PROVE k + 1 \in T
      <3> SUFFICES ASSUME k + 1 \in 0 .. len PROVE lv[k + 1] \in Nat
        OBVIOUS
      <3>1. k + 1 \in 1 .. len /\ k \in 0 .. len /\ (k + 1) - 1 = k
        BY <1>1
      <3>2. lv[k] \in Nat
        BY <2>2, <3>1
      <3>3. lv[k + 1] = LevelAfter(lv[k], lines[k + 1])
        BY <1>11, <3>1
      <3> QED
        BY <1>2, <3>2, <3>3
    <2>3. Nat \subseteq T
      <3> HIDE DEF T
      <3> QED
        BY <2>1, <2>2, NatSetInduction
    <2>4. \A k \in 0 .. len : lv[k] \in Nat
      BY <1>1, <2>3
    <2>5. lv = [k \in 0 .. len |-> lv[k]]
      <3>1. Def(lv) = [k \in 0 .. len |-> Def(lv)[k]]
        OBVIOUS
      <3> HIDE DEF Def
      <3> QED
        BY <1>8, <3>1
    <2> QED
      BY <2>4, <2>5
  <1> HIDE DEF Def
  <1> QED
    BY <1>9, <1>10, <1>11, <1>12 DEF LevelOf

\* The $if at line j is the d-th of those open after line n.
Opens(lines, lv, n, d, j) ==
  /\ j \in 1 .. n /\ lines[j].t = "$if" /\ lv[j] = d
  /\ \A k \in j .. n : lv[k] >= d

\* Its $elses so far.
Elses(lines, lv, n, d, j) == {k \in j .. n : lines[k].t = "$else" /\ lv[k] = d}

Even(S) == Cardinality(S) % 2 = 0

\* One $if is the d-th.
LEMMA OpensOnce ==
  ASSUME NEW lines, Len(lines) \in Nat, NEW lv, LevelOf(lines, lv),
         NEW n \in 0 .. Len(lines), NEW d, NEW i, NEW j,
         Opens(lines, lv, n, d, i), Opens(lines, lv, n, d, j)
  PROVE  ~(i < j)
  <1> SUFFICES ASSUME i < j PROVE FALSE
    OBVIOUS
  <1> DEFINE N == Len(lines)
  <1>1. i \in 1 .. n /\ j \in 1 .. n /\ lines[j].t = "$if" /\ lv[j] = d
    BY DEF Opens
  <1>2. N \in Nat /\ n \in 0 .. N
    OBVIOUS
  <1> HIDE DEF N
  <1>3. j - 1 \in i .. n /\ j \in 1 .. N /\ j - 1 \in 0 .. N
    BY <1>1, <1>2
  <1>4. lv[j - 1] >= d
    BY <1>3 DEF Opens
  <1>5. lv[j - 1] \in Nat
    BY <1>3 DEF LevelOf, N
  <1>6. lv[j] = LevelAfter(lv[j - 1], lines[j])
    BY <1>3 DEF LevelOf, N
  <1>7. d = lv[j - 1] + 1
    BY <1>1, <1>6 DEF LevelAfter
  <1> QED
    BY <1>4, <1>5, <1>7

\* What Follows says.
LEMMA FollowsIs ==
  ASSUME NEW p, Len(p.lines) \in Nat, NEW n \in 0 .. Len(p.lines), NEW d, NEW j,
         Opens(p.lines, Level(p.lines), n, d, j)
  PROVE  Follows(p, n, d)
           = (Evaluated(p, p.lines[j]) = Even(Elses(p.lines, Level(p.lines), n, d, j)))
  <1> DEFINE L == p.lines
             lv == Level(L)
             if == CHOOSE i \in 1 .. n : /\ L[i].t = "$if" /\ lv[i] = d
                                         /\ \A k \in i .. n : lv[k] >= d
             i0 == if
  <1>1. Opens(L, lv, n, d, j) /\ j \in 1 .. n
    BY DEF Opens
  <1>2. Opens(L, lv, n, d, i0)
    BY <1>1 DEF Opens
  <1>3. LevelOf(L, lv)
    BY LevelIs
  <1>4. Follows(p, n, d)
          = (Evaluated(p, L[i0]) = (Cardinality({k \in i0 .. n : L[k].t = "$else" /\ lv[k] = d}) % 2 = 0))
    BY DEF Follows
  <1>5. Len(L) \in Nat /\ n \in 0 .. Len(L)
    OBVIOUS
  <1> HIDE DEF i0, lv, L
  <1>6. ~(i0 < j) /\ ~(j < i0)
    BY <1>1, <1>2, <1>3, <1>5, OpensOnce
  <1>7. i0 \in Nat /\ j \in Nat
    <2>1. i0 \in 1 .. n /\ j \in 1 .. n /\ n \in Int
      BY <1>1, <1>2, <1>5 DEF Opens
    <2> QED
      BY <2>1
  <1>8. i0 = j
    BY <1>6, <1>7
  <1>9. Follows(p, n, d) = (Evaluated(p, L[j]) = Even(Elses(L, lv, n, d, j)))
    BY <1>4, <1>8 DEF Even, Elses
  <1> QED
    BY <1>9 DEF lv, L

\* b tells whether the branch of the d-th $if open after line n is followed.
Branch(p, n, d, b) ==
  \E j \in 1 .. n :
    /\ Opens(p.lines, Level(p.lines), n, d, j)
    /\ b = (Evaluated(p, p.lines[j]) = Even(Elses(p.lines, Level(p.lines), n, d, j)))

\* That is what Follows says.
LEMMA BranchIsFollows ==
  ASSUME NEW p, Len(p.lines) \in Nat, NEW n \in 0 .. Len(p.lines), NEW d, NEW b, Branch(p, n, d, b)
  PROVE  Follows(p, n, d) = b
  <1>1. PICK j \in 1 .. n :
          /\ Opens(p.lines, Level(p.lines), n, d, j)
          /\ b = (Evaluated(p, p.lines[j]) = Even(Elses(p.lines, Level(p.lines), n, d, j)))
    BY DEF Branch
  <1>2. Follows(p, n, d)
          = (Evaluated(p, p.lines[j]) = Even(Elses(p.lines, Level(p.lines), n, d, j)))
    BY <1>1, FollowsIs
  <1> QED
    BY <1>1, <1>2

\* One $else more turns the branch round.
LEMMA EvenFlips ==
  ASSUME NEW S, IsFiniteSet(S), NEW x, x \notin S
  PROVE  Even(S \cup {x}) = ~Even(S)
  <1> DEFINE c == Cardinality(S)
             e == Cardinality(S \cup {x})
  <1>1. c \in Nat
    BY FS_CardinalityType
  <1>2. e = c + 1
    BY FS_AddElement
  <1>3. Even(S) = (c % 2 = 0) /\ Even(S \cup {x}) = (e % 2 = 0)
    BY DEF Even
  <1> HIDE DEF c, e
  <1>4. (e % 2 = 0) = ~(c % 2 = 0)
    BY <1>1, <1>2
  <1> QED
    BY <1>3, <1>4

\* An $if that stays open.
LEMMA OpensStays ==
  ASSUME NEW lines, Len(lines) \in Nat, NEW lv, LevelOf(lines, lv), NEW m \in 1 .. Len(lines),
         NEW d \in Nat, d <= lv[m], NEW j, Opens(lines, lv, m - 1, d, j)
  PROVE  /\ j \in 1 .. m /\ Opens(lines, lv, m, d, j)
         /\ IsFiniteSet(Elses(lines, lv, m - 1, d, j))
         /\ m \notin Elses(lines, lv, m - 1, d, j)
         /\ Elses(lines, lv, m, d, j)
              = IF lines[m].t = "$else" /\ lv[m] = d
                THEN Elses(lines, lv, m - 1, d, j) \cup {m}
                ELSE Elses(lines, lv, m - 1, d, j)
  <1> DEFINE N == Len(lines)
             E == Elses(lines, lv, m - 1, d, j)
  <1>1. /\ j \in 1 .. m - 1 /\ lines[j].t = "$if" /\ lv[j] = d
        /\ \A k \in j .. m - 1 : lv[k] >= d
    BY DEF Opens
  <1>2. N \in Nat /\ m \in 1 .. N
    OBVIOUS
  <1> HIDE DEF N
  <1>3. j \in 1 .. m /\ m \in j .. m /\ j \in Int /\ m - 1 \in Int /\ m \notin j .. m - 1
    BY <1>1, <1>2
  <1>4. \A k \in j .. m : k \in j .. m - 1 \/ k = m
    BY <1>1, <1>2
  <1>5. \A k \in j .. m - 1 : k \in j .. m
    BY <1>1, <1>2
  <1>6. lv[m] >= d
    <2>1. lv[m] \in Nat
      BY <1>2 DEF LevelOf, N
    <2> QED
      BY <2>1
  <1>7. Opens(lines, lv, m, d, j)
    BY <1>1, <1>3, <1>4, <1>6 DEF Opens
  <1>8. IsFiniteSet(E)
    <2>1. IsFiniteSet(j .. m - 1)
      BY <1>3, FS_Interval
    <2>2. E \in SUBSET (j .. m - 1)
      BY DEF Elses
    <2> HIDE DEF E
    <2> QED
      BY <2>1, <2>2, FS_Subset
  <1>9. m \notin E
    BY <1>3 DEF Elses
  <1>10. CASE lines[m].t = "$else" /\ lv[m] = d
    <2>1. Elses(lines, lv, m, d, j) = E \cup {m}
      BY <1>3, <1>4, <1>5, <1>10 DEF Elses
    <2> QED
      BY <1>3, <1>7, <1>8, <1>9, <1>10, <2>1
  <1>11. CASE ~(lines[m].t = "$else" /\ lv[m] = d)
    <2>1. Elses(lines, lv, m, d, j) = E
      BY <1>4, <1>5, <1>11 DEF Elses
    <2> QED
      BY <1>3, <1>7, <1>8, <1>9, <1>11, <2>1
  <1> QED
    BY <1>10, <1>11

\* A line that is no $else of the d-th $if.
LEMMA BranchStays ==
  ASSUME NEW p, Len(p.lines) \in Nat, NEW m \in 1 .. Len(p.lines), NEW d \in Nat,
         d <= Level(p.lines)[m], ~(p.lines[m].t = "$else" /\ Level(p.lines)[m] = d),
         NEW b, Branch(p, m - 1, d, b)
  PROVE  Branch(p, m, d, b)
  <1> DEFINE L == p.lines
             lv == Level(L)
  <1>1. LevelOf(L, lv)
    BY LevelIs
  <1>2. PICK j \in 1 .. m - 1 :
          Opens(L, lv, m - 1, d, j) /\ b = (Evaluated(p, L[j]) = Even(Elses(L, lv, m - 1, d, j)))
    BY DEF Branch
  <1>3. Len(L) \in Nat /\ m \in 1 .. Len(L) /\ d <= lv[m] /\ ~(L[m].t = "$else" /\ lv[m] = d)
    OBVIOUS
  <1> HIDE DEF lv, L
  <1>4. j \in 1 .. m /\ Opens(L, lv, m, d, j) /\ Elses(L, lv, m, d, j) = Elses(L, lv, m - 1, d, j)
    BY <1>1, <1>2, <1>3, OpensStays
  <1> QED
    BY <1>2, <1>4 DEF Branch, lv, L

\* An $else of the d-th.
LEMMA BranchFlips ==
  ASSUME NEW p, Good(p), NEW m \in 1 .. Len(p.lines), NEW d \in Nat,
         p.lines[m].t = "$else", Level(p.lines)[m] = d,
         NEW b \in BOOLEAN, Branch(p, m - 1, d, b)
  PROVE  Branch(p, m, d, ~b)
  <1> DEFINE L == p.lines
             lv == Level(L)
  <1>0. Len(L) \in Nat /\ \A i \in 1 .. Len(L) : IsLine(disk, L[i])
    BY DEF Good
  <1>1. LevelOf(L, lv)
    BY <1>0, LevelIs
  <1>2. PICK j \in 1 .. m - 1 :
          Opens(L, lv, m - 1, d, j) /\ b = (Evaluated(p, L[j]) = Even(Elses(L, lv, m - 1, d, j)))
    BY DEF Branch
  <1>3. /\ m \in 1 .. Len(L) /\ L[m].t = "$else" /\ lv[m] = d /\ d <= d
    OBVIOUS
  <1> HIDE DEF lv, L
  <1> DEFINE E == Elses(L, lv, m - 1, d, j)
  <1>4. /\ j \in 1 .. m /\ Opens(L, lv, m, d, j) /\ Elses(L, lv, m, d, j) = E \cup {m}
        /\ IsFiniteSet(E) /\ m \notin E
    <2>1. d <= lv[m]
      BY <1>3
    <2>2. /\ j \in 1 .. m /\ Opens(L, lv, m, d, j) /\ IsFiniteSet(E) /\ m \notin E
          /\ Elses(L, lv, m, d, j) = IF L[m].t = "$else" /\ lv[m] = d THEN E \cup {m} ELSE E
      BY <1>0, <1>1, <1>2, <1>3, <2>1, OpensStays
    <2> HIDE DEF E
    <2> QED
      BY <1>3, <2>2
  <1>5. b = (Evaluated(p, L[j]) = Even(E))
    BY <1>2
  <1> HIDE DEF E
  <1>6. Even(E \cup {m}) = ~Even(E) /\ Even(E) \in BOOLEAN
    BY <1>4, EvenFlips DEF Even
  <1> DEFINE x == Evaluated(p, L[j])
             y == Even(E)
             z == Even(E \cup {m})
  <1>7. (~b) = (x = z)
    <2>0. x \in BOOLEAN
      <3>1. j \in 1 .. Len(L) /\ L[j].t = "$if"
        <4> DEFINE N == Len(L)
        <4>1. N \in Nat /\ m \in 1 .. N /\ j \in 1 .. m
          BY <1>0, <1>3, <1>4
        <4>2. j \in 1 .. N
          <5> HIDE DEF N
          <5> QED
            BY <4>1
        <4> QED
          BY <1>4, <4>2 DEF Opens
      <3>2. L[j].test \in {"mode", "term", "app"}
        BY <1>0, <3>1 DEF IsLine
      <3> QED
        BY <3>2 DEF Evaluated
    <2>1. b = (x = y) /\ z = ~y /\ y \in BOOLEAN
      BY <1>5, <1>6
    <2> HIDE DEF x, y, z
    <2> QED
      BY <2>0, <2>1
  <1> QED
    BY <1>4, <1>7 DEF Branch, lv, L

\* An $if that was just read.
LEMMA BranchOpens ==
  ASSUME NEW p, Len(p.lines) \in Nat, NEW m \in 1 .. Len(p.lines), NEW d \in Nat,
         p.lines[m].t = "$if", Level(p.lines)[m] = d, Evaluated(p, p.lines[m]) \in BOOLEAN
  PROVE  Branch(p, m, d, Evaluated(p, p.lines[m]))
  <1> DEFINE L == p.lines
             lv == Level(L)
             b == Evaluated(p, L[m])
             E == Elses(L, lv, m, d, m)
  <1>0. m \in Nat /\ m \in 1 .. m /\ \A k \in m .. m : k = m
    OBVIOUS
  <1>1. Opens(L, lv, m, d, m)
    BY <1>0 DEF Opens
  <1>2. E = {}
    BY <1>0 DEF Elses
  <1>3. Even(E) = TRUE
    BY <1>2, FS_EmptySet DEF Even
  <1>4. b = (b = Even(E))
    <2>1. b \in BOOLEAN
      OBVIOUS
    <2> HIDE DEF b, E
    <2> QED
      BY <1>3, <2>1
  <1> QED
    BY <1>0, <1>1, <1>4 DEF Branch

\* The conditions are those of the $ifs that are open after line n.
CondsMatch(p, n, conds) ==
  /\ conds \in Seq(BOOLEAN) /\ Len(conds) = Level(p.lines)[n] + 1 /\ conds[1] = TRUE
  /\ \A d \in 1 .. Level(p.lines)[n] : Branch(p, n, d, conds[d + 1])

\* A line leaves the conditions of the $ifs that are open after it.
LEMMA CondsStep ==
  ASSUME NEW p, Good(p), p.line <= Len(p.lines), CondsMatch(p, p.line - 1, p.conds)
  PROVE  CondsMatch(p, p.line, NextConds(p, p.lines[p.line]))
  <1> DEFINE L == p.lines
             N == Len(L)
             m == p.line
             l == L[m]
             lv == Level(L)
             v == lv[m - 1]
             w == lv[m]
             s == p.conds
             t == NextConds(p, l)
  <1>0. N \in Nat /\ m \in 1 .. N /\ m - 1 \in 0 .. N /\ m \in 0 .. N
    <2>1. N \in Nat /\ m \in 1 .. N + 1 /\ m <= N
      BY DEF Good
    <2> HIDE DEF N, m
    <2> QED
      BY <2>1
  <1>1. IsLine(disk, l) /\ LevelOf(L, lv)
    BY <1>0, LevelIs DEF Good
  <1>2. v \in Nat /\ w \in Nat /\ w = LevelAfter(v, l)
    BY <1>0, <1>1 DEF LevelOf
  <1>3. /\ s \in Seq(BOOLEAN) /\ Len(s) = v + 1 /\ s[1] = TRUE
        /\ \A d \in 1 .. v : Branch(p, m - 1, d, s[d + 1])
    BY DEF CondsMatch
  <1>4. /\ t \in Seq(BOOLEAN) /\ (l.t = "$if" => Evaluated(p, l) \in BOOLEAN)
    BY <1>1, NextCondsTyped DEF Good
  <1>5. t = IF l.t = "$if" THEN Append(s, Evaluated(p, l))
            ELSE IF Len(s) = 1 THEN s
            ELSE IF l.t = "$else" THEN [s EXCEPT ![Len(s)] = ~@]
            ELSE IF l.t = "$endif" THEN Front(s)
            ELSE s
    BY DEF NextConds
  <1>6. l = p.lines[m] /\ w = Level(p.lines)[m] /\ Len(p.lines) = N
    OBVIOUS
  <1>7. SUFFICES Len(t) = w + 1 /\ t[1] = TRUE /\ \A d \in 1 .. w : Branch(p, m, d, t[d + 1])
    BY <1>4 DEF CondsMatch
  <1> HIDE DEF L, N, m, l, lv, v, w, s, t
  \* What stays as it was.
  <1>8. ASSUME NEW d \in Nat, d >= 1, d <= v, d <= w, ~(l.t = "$else" /\ w = d), t[d + 1] = s[d + 1]
        PROVE  Branch(p, m, d, t[d + 1])
    <2>1. Branch(p, m - 1, d, s[d + 1])
      BY <1>2, <1>3, <1>8
    <2> DEFINE b == s[d + 1]
    <2>2. Branch(p, m - 1, d, b) /\ t[d + 1] = b
      BY <1>8, <2>1
    <2> HIDE DEF b
    <2>3. Branch(p, m, d, b)
      BY <1>0, <1>6, <1>8, <2>2, BranchStays
    <2> QED
      BY <2>2, <2>3
  <1>9. CASE l.t = "$if"
    <2> DEFINE e == Evaluated(p, l)
    <2>1. t = Append(s, e) /\ e \in BOOLEAN /\ w = v + 1
      BY <1>2, <1>4, <1>5, <1>9 DEF LevelAfter
    <2>2. Branch(p, m, w, e)
      BY <1>0, <1>2, <1>4, <1>6, <1>9, BranchOpens
    <2> HIDE DEF e
    <2>3. Len(t) = Len(s) + 1 /\ t[Len(s) + 1] = e /\ \A i \in 1 .. Len(s) : t[i] = s[i]
      BY <1>3, <2>1, AppendProperties
    <2>4. Len(t) = w + 1 /\ t[w + 1] = e /\ \A i \in 1 .. v + 1 : t[i] = s[i]
      BY <1>2, <1>3, <2>1, <2>3
    <2>5. t[1] = TRUE
      BY <1>2, <1>3, <2>4
    <2>6. ASSUME NEW d \in 1 .. w PROVE Branch(p, m, d, t[d + 1])
      <3>1. CASE d = w
        BY <2>2, <2>4, <3>1
      <3>2. CASE d # w
        <4>1. d \in Nat /\ d >= 1 /\ d <= v /\ d <= w /\ d + 1 \in 1 .. v + 1
          BY <1>2, <2>1, <3>2
        <4> QED
          BY <1>8, <1>9, <2>4, <4>1
      <3> QED
        BY <3>1, <3>2
    <2> QED
      BY <2>4, <2>5, <2>6
  <1>10. CASE l.t # "$if" /\ v = 0
    <2>1. t = s /\ w = 0
      BY <1>2, <1>3, <1>5, <1>10 DEF LevelAfter
    <2> QED
      BY <1>3, <1>10, <2>1
  <1>11. CASE l.t = "$else" /\ v # 0
    <2>1. w = v /\ Len(s) # 1
      BY <1>2, <1>3, <1>11 DEF LevelAfter
    <2> DEFINE k == v + 1
    <2>2. t = [s EXCEPT ![k] = ~@]
      BY <1>3, <1>5, <1>11, <2>1
    <2>3. k \in Nat /\ k > 1 /\ k \in 1 .. k /\ Len(s) = k
      BY <1>2, <1>3, <1>11
    <2>4. s \in [1 .. k -> BOOLEAN]
      BY <1>3, <2>3, LenProperties
    <2> HIDE DEF k
    <2>5. t[k] = (~s[k]) /\ s[k] \in BOOLEAN /\ \A i \in 1 .. k : i # k => t[i] = s[i]
      BY <2>2, <2>3, <2>4
    <2>6. Len(t) = k
      <3>1. (~s[k]) \in BOOLEAN
        BY <2>5
      <3> DEFINE x == ~s[k]
      <3>2. x \in BOOLEAN /\ t = [s EXCEPT ![k] = x]
        BY <2>2, <3>1
      <3> HIDE DEF x
      <3> QED
        BY <1>3, <2>3, <3>2, ExceptSeq
    <2>7. t[1] = TRUE
      BY <1>3, <2>3, <2>5
    <2>8. ASSUME NEW d \in 1 .. w PROVE Branch(p, m, d, t[d + 1])
      <3>1. CASE d = w
        <4>1. d + 1 = k /\ d \in 1 .. v /\ d \in Nat
          BY <1>2, <2>1, <3>1 DEF k
        <4> DEFINE b == s[k]
        <4>2. Branch(p, m - 1, d, b) /\ b \in BOOLEAN
          BY <1>3, <2>5, <4>1
        <4>3. t[k] = ~b
          BY <2>5
        <4> HIDE DEF b
        <4>4. Branch(p, m, d, ~b)
          BY <1>0, <1>6, <1>11, <3>1, <4>1, <4>2, BranchFlips
        <4> QED
          BY <4>1, <4>3, <4>4
      <3>2. CASE d # w
        <4>1. d \in Nat /\ d >= 1 /\ d <= v /\ d <= w /\ d + 1 \in 1 .. k /\ d + 1 # k
          BY <1>2, <2>1, <3>2 DEF k
        <4> QED
          BY <1>8, <2>5, <3>2, <4>1
      <3> QED
        BY <3>1, <3>2
    <2> QED
      BY <2>1, <2>6, <2>7, <2>8 DEF k
  <1>12. CASE l.t = "$endif" /\ v # 0
    <2>1. w = v - 1 /\ Len(s) # 1
      BY <1>2, <1>3, <1>12 DEF LevelAfter
    <2>2. t = SubSeq(s, 1, v)
      <3>1. t = Front(s)
        BY <1>5, <1>12, <2>1
      <3>2. Front(s) = SubSeq(s, 1, Len(s) - 1)
        BY DEF Front
      <3>3. Len(s) - 1 = v
        BY <1>2, <1>3
      <3> QED
        BY <3>1, <3>2, <3>3
    <2>3. \A i \in 1 .. v : s[i] \in BOOLEAN
      <3> SUFFICES ASSUME NEW i \in 1 .. v PROVE s[i] \in BOOLEAN
        OBVIOUS
      <3>1. i \in 1 .. Len(s)
        BY <1>2, <1>3
      <3> QED
        BY <1>3, <3>1, ElementOfSeq
    <2>4. Len(t) = v /\ \A i \in 1 .. v : t[i] = s[i]
      <3>1. v \in Int /\ 1 \in Int /\ 1 <= v
        BY <1>2, <1>12
      <3>2. /\ Len(t) = IF 1 <= v THEN v - 1 + 1 ELSE 0
            /\ \A i \in 1 .. v - 1 + 1 : t[i] = s[1 + i - 1]
        BY <2>2, <2>3, <3>1, SubSeqProperties
      <3> QED
        BY <3>1, <3>2
    <2>5. t[1] = TRUE /\ Len(t) = w + 1
      BY <1>2, <1>3, <1>12, <2>1, <2>4
    <2>6. ASSUME NEW d \in 1 .. w PROVE Branch(p, m, d, t[d + 1])
      <3>1. d \in Nat /\ d >= 1 /\ d <= v /\ d <= w /\ d + 1 \in 1 .. v
        BY <1>2, <2>1
      <3> QED
        BY <1>8, <1>12, <2>4, <3>1
    <2> QED
      BY <2>5, <2>6
  <1>13. CASE l.t \notin {"$if", "$else", "$endif"}
    <2>1. t = s /\ w = v
      BY <1>2, <1>5, <1>13 DEF LevelAfter
    <2>2. ASSUME NEW d \in 1 .. w PROVE Branch(p, m, d, t[d + 1])
      <3>1. d \in Nat /\ d >= 1 /\ d <= v /\ d <= w
        BY <1>2, <2>1
      <3> QED
        BY <1>8, <1>13, <2>1, <3>1
    <2> QED
      BY <1>3, <2>1, <2>2
  <1> QED
    BY <1>9, <1>10, <1>11, <1>12, <1>13

\* The innermost condition.
LEMMA ActiveIs ==
  ASSUME NEW p, Len(p.lines) \in Nat, NEW n \in 0 .. Len(p.lines), NEW conds, CondsMatch(p, n, conds)
  PROVE  Last(conds) = (Level(p.lines)[n] > 0 => Follows(p, n, Level(p.lines)[n]))
  <1> DEFINE v == Level(p.lines)[n]
  <1>1. v \in Nat
    BY LevelIs DEF LevelOf
  <1>2. /\ conds \in Seq(BOOLEAN) /\ Len(conds) = v + 1 /\ conds[1] = TRUE
        /\ \A d \in 1 .. v : Branch(p, n, d, conds[d + 1])
    BY DEF CondsMatch
  <1> HIDE DEF v
  <1> DEFINE b == conds[v + 1]
  <1>3. Last(conds) = b /\ b \in BOOLEAN
    <2>1. v + 1 \in 1 .. Len(conds)
      BY <1>1, <1>2
    <2> QED
      BY <1>2, <2>1, ElementOfSeq DEF Last
  <1>4. v = 0 => b = TRUE
    BY <1>2
  <1>5. v > 0 => Branch(p, n, v, b)
    BY <1>1, <1>2
  <1> HIDE DEF b
  <1>6. v > 0 => Follows(p, n, v) = b
    BY <1>5, BranchIsFollows
  <1>7. b = (v > 0 => Follows(p, n, v))
    BY <1>1, <1>3, <1>4, <1>6
  <1> QED
    BY <1>3, <1>7 DEF v

\* The lines that set the keymap, and the keymap they leave.
Sets(p, k) ==
  /\ SetsKeymap(p, p.lines[k])
  /\ Level(p.lines)[k] > 0 => Follows(p, k, Level(p.lines)[k])

Keymaps(p, n) == {k \in 1 .. n : Sets(p, k)}

KeymapOf(p, n) ==
  IF Keymaps(p, n) = {} THEN "emacs"
  ELSE p.lines[CHOOSE k \in Keymaps(p, n) : \A m \in Keymaps(p, n) : m <= k].value

\* A line leaves the keymap of the last line that sets one.
LEMMA KeymapStep ==
  ASSUME NEW p, Good(p), p.line <= Len(p.lines), CondsMatch(p, p.line - 1, p.conds),
         p.keymap = KeymapOf(p, p.line - 1)
  PROVE  NextKeymap(p, p.lines[p.line]) = KeymapOf(p, p.line)
  <1> DEFINE L == p.lines
             N == Len(L)
             m == p.line
             l == L[m]
  <1>0. N \in Nat /\ m \in 1 .. N /\ m \in 0 .. N
    <2>1. N \in Nat /\ m \in 1 .. N + 1 /\ m <= N
      BY DEF Good
    <2> HIDE DEF N, m
    <2> QED
      BY <2>1
  <1>1. (SetsKeymap(p, l) /\ Active(p)) = Sets(p, m)
    <2>1. CASE ~SetsKeymap(p, l)
      BY <2>1 DEF Sets
    <2>2. CASE SetsKeymap(p, l)
      <3>1. NextConds(p, l) = p.conds
        BY <2>2 DEF SetsKeymap, NextConds
      <3>2. CondsMatch(p, m, p.conds)
        BY <3>1, CondsStep
      <3>3. Last(p.conds) = (Level(L)[m] > 0 => Follows(p, m, Level(L)[m]))
        BY <1>0, <3>2, ActiveIs
      <3> QED
        BY <2>2, <3>3 DEF Sets, Active
    <2> QED
      BY <2>1, <2>2
  <1>2. NextKeymap(p, l) = IF SetsKeymap(p, l) /\ Active(p) THEN l.value ELSE p.keymap
    BY DEF NextKeymap
  <1>3. l = p.lines[m] /\ p.keymap = KeymapOf(p, m - 1)
    OBVIOUS
  <1> SUFFICES NextKeymap(p, l) = KeymapOf(p, m)
    OBVIOUS
  <1> HIDE DEF L, N, m, l
  <1>4. /\ \A k \in 1 .. m : k \in 1 .. m - 1 \/ k = m
        /\ \A k \in 1 .. m - 1 : k \in 1 .. m /\ k < m /\ k \in Int
        /\ m \in 1 .. m /\ m \in Int
    BY <1>0
  <1>5. CASE Sets(p, m)
    <2> DEFINE K == Keymaps(p, m)
               last == CHOOSE k \in K : \A i \in K : i <= k
    <2>1. m \in K /\ \A i \in K : i <= m /\ i \in Int
      BY <1>4, <1>5 DEF Keymaps
    <2> HIDE DEF K
    <2>2. last \in K /\ \A i \in K : i <= last
      BY <2>1
    <2> HIDE DEF last
    <2>3. last = m
      BY <1>4, <2>1, <2>2
    <2>4. KeymapOf(p, m) = IF K = {} THEN "emacs" ELSE p.lines[last].value
      BY DEF KeymapOf, K, last
    <2>5. K # {}
      BY <2>1
    <2> QED
      BY <1>1, <1>2, <1>3, <1>5, <2>3, <2>4, <2>5
  <1>6. CASE ~Sets(p, m)
    <2>1. Keymaps(p, m) = Keymaps(p, m - 1)
      BY <1>4, <1>6 DEF Keymaps
    <2>2. KeymapOf(p, m) = KeymapOf(p, m - 1)
      BY <2>1 DEF KeymapOf
    <2> QED
      BY <1>1, <1>2, <1>3, <1>6, <2>2
  <1> QED
    BY <1>5, <1>6

\* What a parser has kept of the lines it has read.
Matches(p) ==
  CondsMatch(p, p.line - 1, p.conds) /\ p.keymap = KeymapOf(p, p.line - 1)

\* A parser that reads a line.
LEMMA MovesMatches ==
  ASSUME NEW p, Good(p), Matches(p), NEW q, Moves(p, q)
  PROVE  Matches(q)
  <1> DEFINE m == p.line
  <1>1. /\ p.line <= Len(p.lines) /\ q.lines = p.lines /\ q.line = m + 1
        /\ q.app = p.app /\ q.mode = p.mode /\ q.term = p.term /\ q.strict = p.strict
        /\ q.conds = NextConds(p, p.lines[m]) /\ q.keymap = NextKeymap(p, p.lines[m])
    BY DEF Moves
  <1>2. CondsMatch(p, m, q.conds) /\ q.keymap = KeymapOf(p, m)
    BY <1>1, CondsStep, KeymapStep DEF Matches
  <1>3. m \in Nat
    BY DEF Good, Parser
  <1> HIDE DEF m
  <1>4. q.line - 1 = m
    BY <1>1, <1>3
  <1>5. \A l : Evaluated(q, l) = Evaluated(p, l)
    BY <1>1 DEF Evaluated
  <1>6. \A l : SetsKeymap(q, l) = SetsKeymap(p, l)
    BY <1>1 DEF SetsKeymap
  <1>7. \A n, d : Follows(q, n, d) = Follows(p, n, d)
    BY <1>1, <1>5 DEF Follows
  <1>8. ASSUME NEW d, NEW b, Branch(p, m, d, b) PROVE Branch(q, m, d, b)
    BY <1>1, <1>5, <1>8 DEF Branch
  <1>9. CondsMatch(q, m, q.conds)
    BY <1>1, <1>2, <1>8 DEF CondsMatch
  <1>10. \A k : Sets(q, k) = Sets(p, k)
    BY <1>1, <1>6, <1>7 DEF Sets
  <1>11. Keymaps(q, m) = Keymaps(p, m)
    BY <1>10 DEF Keymaps
  <1>12. KeymapOf(q, m) = KeymapOf(p, m)
    BY <1>1, <1>11 DEF KeymapOf
  <1> QED
    BY <1>2, <1>4, <1>9, <1>12 DEF Matches

\* One that has read none.
LEMMA FreshMatches ==
  ASSUME NEW q, Fresh(q)
  PROVE  Matches(q)
  <1>1. Good(q) /\ q.line = 1 /\ q.conds = <<TRUE>> /\ q.keymap = "emacs"
    BY DEF Fresh
  <1>2. Len(q.lines) \in Nat /\ q.line - 1 = 0
    BY <1>1 DEF Good
  <1>3. Level(q.lines)[0] = 0
    BY <1>2, LevelIs DEF LevelOf
  <1>4. CondsMatch(q, 0, <<TRUE>>)
    <2>1. <<TRUE>> \in Seq(BOOLEAN) /\ Len(<<TRUE>>) = 1 /\ <<TRUE>>[1] = TRUE
      OBVIOUS
    <2>2. 1 .. Level(q.lines)[0] = {} /\ 0 + 1 = 1
      BY <1>3
    <2> QED
      BY <1>3, <2>1, <2>2 DEF CondsMatch
  <1>5. Keymaps(q, 0) = {}
    BY DEF Keymaps
  <1> QED
    BY <1>1, <1>2, <1>4, <1>5 DEF Matches, KeymapOf

\* Every parser keeps what the lines it has read say.
LEMMA StepMatches ==
  ASSUME NEW before, \A i \in 1 .. Len(before) : Good(before[i]) /\ Matches(before[i]),
         NEW after, Step(before, after)
  PROVE  \A i \in 1 .. Len(after) : Matches(after[i])
  <1> SUFFICES ASSUME NEW i \in 1 .. Len(after) PROVE Matches(after[i])
    OBVIOUS
  <1>1. CASE i \in 1 .. Len(before) /\ after[i] = before[i]
    BY <1>1
  <1>2. CASE i \in 1 .. Len(before) /\ Moves(before[i], after[i])
    BY <1>2, MovesMatches
  <1>3. CASE Fresh(after[i])
    BY <1>3, FreshMatches
  <1> QED
    BY <1>1, <1>2, <1>3 DEF Step

\* The property, for one parser.
LEMMA MatchesSays ==
  ASSUME NEW p, Good(p), Matches(p)
  PROVE  /\ p.conds = <<TRUE>> \o [d \in 1 .. Level(p.lines)[p.line - 1] |-> Follows(p, p.line - 1, d)]
         /\ p.keymap = KeymapOf(p, p.line - 1)
  <1> DEFINE n == p.line - 1
             N == Len(p.lines)
             v == Level(p.lines)[n]
             s == p.conds
             F == [d \in 1 .. v |-> Follows(p, n, d)]
             one == <<TRUE>>
  <1>1. N \in Nat /\ n \in 0 .. N
    <2> DEFINE m == p.line
    <2>1. N \in Nat /\ m \in 1 .. N + 1
      BY DEF Good
    <2> HIDE DEF m, N
    <2>2. m - 1 \in 0 .. N
      BY <2>1
    <2> QED
      BY <2>1, <2>2 DEF m
  <1>2. v \in Nat
    BY <1>1, LevelIs DEF LevelOf
  <1>3. /\ s \in Seq(BOOLEAN) /\ Len(s) = v + 1 /\ s[1] = TRUE
        /\ \A d \in 1 .. v : Branch(p, n, d, s[d + 1])
    BY DEF Matches, CondsMatch
  <1>4. \A d \in 1 .. v : Follows(p, n, d) = s[d + 1]
    BY <1>1, <1>3, BranchIsFollows
  <1> HIDE DEF n, N, v, s
  <1>5. \A d \in 1 .. v : F[d] = s[d + 1] /\ s[d + 1] \in BOOLEAN
    <2> SUFFICES ASSUME NEW d \in 1 .. v PROVE F[d] = s[d + 1] /\ s[d + 1] \in BOOLEAN
      OBVIOUS
    <2>1. d + 1 \in 1 .. Len(s)
      BY <1>2, <1>3
    <2>2. s[d + 1] \in BOOLEAN
      BY <1>3, <2>1, ElementOfSeq
    <2> QED
      BY <1>4, <2>2
  <1>6. F \in Seq(BOOLEAN) /\ Len(F) = v
    <2>1. DOMAIN F = 1 .. v /\ F \in [1 .. v -> BOOLEAN]
      BY <1>4, <1>5
    <2> HIDE DEF F
    <2> QED
      BY <1>2, <2>1
  <1>7. one \in Seq(BOOLEAN) /\ Len(one) = 1 /\ one[1] = TRUE
    OBVIOUS
  <1> HIDE DEF F, one
  <1>8. /\ one \o F \in Seq(BOOLEAN) /\ Len(one \o F) = Len(one) + Len(F)
        /\ \A i \in 1 .. Len(one) + Len(F) :
             (one \o F)[i] = IF i <= Len(one) THEN one[i] ELSE F[i - Len(one)]
    <2>1. one \in Seq(BOOLEAN) /\ F \in Seq(BOOLEAN)
      BY <1>6, <1>7
    <2> QED
      BY <2>1, ConcatProperties, Zenon
  <1> DEFINE r == one \o F
  <1>9. /\ r \in Seq(BOOLEAN) /\ Len(r) = v + 1
        /\ \A i \in 1 .. v + 1 : r[i] = IF i <= 1 THEN one[i] ELSE F[i - 1]
    BY <1>2, <1>6, <1>7, <1>8
  <1> HIDE DEF r
  <1>10. ASSUME NEW i \in 1 .. v + 1 PROVE s[i] = r[i]
    <2>1. CASE i = 1
      BY <1>3, <1>7, <1>9, <2>1
    <2>2. CASE i # 1
      <3>1. i - 1 \in 1 .. v /\ (i - 1) + 1 = i /\ ~(i <= 1)
        BY <1>2, <2>2
      <3>2. F[i - 1] = s[(i - 1) + 1]
        BY <1>5, <3>1
      <3>3. r[i] = F[i - 1]
        BY <1>9, <3>1
      <3> QED
        BY <3>1, <3>2, <3>3
    <2> QED
      BY <2>1, <2>2
  <1>11. s = r
    BY <1>3, <1>9, <1>10, SeqEqual
  <1> QED
    BY <1>11 DEF Matches, r, one, F, s, v, n

\* Whatever files it includes in between, a parser's conditions are those of
\* the $ifs of its own file that are open, each turned round by its own $elses,
\* and its keymap is the one the last set keymap in a followed branch named
\* (Parser.do, Parser.doSet): for files of every length and nesting.
THEOREM ParsersMatch == Spec => []ParserMatchesLines
  <1> DEFINE Kept == \A i \in 1 .. Len(parsers) : Matches(parsers[i])
  <1>1. ASSUME Init PROVE Kept
    <2>1. parsers = << >> /\ Len(<< >>) = 0
      BY <1>1 DEF Init
    <2>2. 1 .. Len(parsers) = {}
      BY <2>1
    <2> QED
      BY <2>2
  <1>2. ASSUME IInv, Kept, [Next]_vars PROVE Kept'
    <2>1. Step(parsers, parsers')
      BY <1>2, NextEffect DEF Effect
    <2>2. \A i \in 1 .. Len(parsers) : Good(parsers[i]) /\ Matches(parsers[i])
      BY <1>2 DEF IInv
    <2>3. \A i \in 1 .. Len(parsers') : Matches(parsers'[i])
      BY <2>1, <2>2, StepMatches
    <2> QED
      BY <2>3
  <1>3. ASSUME IInv, Kept PROVE ParserMatchesLines
    <2>1. DOMAIN parsers = 1 .. Len(parsers)
      BY <1>3, LenProperties DEF IInv
    <2>2. ASSUME NEW i \in 1 .. Len(parsers)
          PROVE  LET p == parsers[i]
                     n == p.line - 1
                     level == Level(p.lines)
                     keymaps == {k \in 1 .. n :
                                   /\ p.lines[k].t = "set" /\ p.lines[k].name = "keymap"
                                   /\ p.strict => p.lines[k].value \in ValidKeymaps
                                   /\ level[k] > 0 => Follows(p, k, level[k])}
                 IN  /\ p.conds = <<TRUE>> \o [d \in 1 .. level[n] |-> Follows(p, n, d)]
                     /\ p.keymap = IF keymaps = {} THEN "emacs"
                                   ELSE p.lines[CHOOSE k \in keymaps : \A m \in keymaps : m <= k].value
      <3> DEFINE p == parsers[i]
                 n == p.line - 1
                 keymaps == {k \in 1 .. n :
                               /\ p.lines[k].t = "set" /\ p.lines[k].name = "keymap"
                               /\ p.strict => p.lines[k].value \in ValidKeymaps
                               /\ Level(p.lines)[k] > 0 => Follows(p, k, Level(p.lines)[k])}
      <3>1. Good(p) /\ Matches(p)
        BY <1>3 DEF IInv
      <3>2. p.conds = <<TRUE>> \o [d \in 1 .. Level(p.lines)[n] |-> Follows(p, n, d)]
        BY <3>1, MatchesSays
      <3>3. p.keymap = KeymapOf(p, n)
        BY <3>1, MatchesSays
      <3>4. keymaps = Keymaps(p, n)
        BY DEF Keymaps, Sets, SetsKeymap
      <3>5. p.keymap = IF keymaps = {} THEN "emacs"
                       ELSE p.lines[CHOOSE k \in keymaps : \A m \in keymaps : m <= k].value
        <4> HIDE DEF keymaps
        <4> QED
          BY <3>3, <3>4 DEF KeymapOf
      <3> QED
        BY <3>2, <3>5
    <2> QED
      BY <2>1, <2>2 DEF ParserMatchesLines
  <1> QED
    BY <1>1, <1>2, <1>3, InitTyping, Typing, PTL DEF Spec
=============================================================================
