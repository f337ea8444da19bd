-------------------------- MODULE CompletionProofs --------------------------
(***************************************************************************)
(* Proofs about Completion, for any candidates and histories, any number   *)
(* of columns and any binds of the main keymaps.  An operation of the      *)
(* engine is shown to keep it sound and to touch only some of its fields   *)
(* (AllBut); a command is composed of operations, and a step of a key, a   *)
(* command and the refresh of the display (Passes, Fine, Shows).           *)
(***************************************************************************)
EXTENDS Completion, SequenceTheorems, FiniteSetTheorems, InductionLemmas

-----------------------------------------------------------------------------
(* Types                                                                   *)

Texts == STRING \cup {""}

Candidate == [value : Line, desc : Texts, tag : Texts]

\* A group of candidates in A, in rows none of which is empty.
NotEmpty(A) == Seq(A) \ {<< >>}

Group(A) ==
  [rows : Seq(NotEmpty(A)), aliased : BOOLEAN, maxX : Nat, posX : Int, posY : Int]

Mains == {"emacs", "vi-insert", "vi-command"}

\* The fields of the engine.
Shots == [line : Line, pos : Int]
Menus == Seq(Group(Candidate))
Cached == {"", "commands", "history"}
Locals == {"", "menu-select", "isearch"}
Buffers == Line \cup {Nil}
Exits == Mains \cup {""}
Sources == 1 .. Len(HistLines)
Settings == [autocomplete : BOOLEAN, displayPrefix : BOOLEAN]

Engine ==
  [line : Line, pos : Int, comp : Shots, selected : Line, prefix : Line,
   groups : Menus, cur : Nat, cached : Cached, auto : BOOLEAN,
   local : Locals, main : Mains, nonInc : BOOLEAN,
   buf : Buffers, regex : Buffers, insert : BOOLEAN, replace : BOOLEAN,
   startBuf : Line, startPos : Int, modeExit : Exits,
   source : Sources, options : Settings, fault : BOOLEAN]

\* The selector of a group is in its grid, which may have holes, or was not
\* used.
InGrid(g, x, y) == x \in 0 .. g.maxX - 1 /\ y \in 0 .. Len(g.rows) - 1

Fresh(g) == g.posX = -1 /\ g.posY = -1

Laid(g) ==
  /\ \A i \in 1 .. Len(g.rows) : Len(g.rows[i]) <= g.maxX
  /\ Fresh(g) \/ InGrid(g, g.posX, g.posY)

Pane(A) == {g \in Group(A) : Laid(g)}

\* The candidates that have no fewer bytes than what they replace.
Fit(prefix) == {c \in Candidate : Bytes(prefix) <= Bytes(c.value)}

\* Cursors are on their lines and the current group is one of the menu.
Sound(s) ==
  /\ s \in Engine
  /\ s.pos \in 0 .. Len(s.line)
  /\ s.comp.pos \in 0 .. Len(s.comp.line)
  /\ s.cur \in 0 .. Len(s.groups)
  /\ s.groups \in Seq(Pane(Fit(s.prefix)))

\* All groups have candidates.
Full(gs) == \A i \in 1 .. Len(gs) : gs[i].rows # << >>

\* Which modes go together: a minibuffer is open in either kind of search, and
\* only an incremental one filters groups.
Modes(s) ==
  /\ s.local = "isearch" => s.buf # Nil
  /\ s.nonInc => s.buf # Nil /\ s.local = "" /\ s.selected = << >>
  /\ s.buf # Nil => s.local = "isearch" \/ s.nonInc
  /\ s.local # "isearch" => Full(s.groups)

\* A search remembers where it was started.
Remembers ==
  /\ e.buf # Nil => /\ e.modeExit = origin.main /\ origin.main \in Mains
                    /\ e.main # "vi-command"
  /\ (e.local = "isearch" /\ e.replace) => e.startBuf = origin.line

\* The completed line is the one with the candidate that is inserted.
InSync(s) ==
  (/\ IsInserting(s) /\ s.cur # 0
   /\ -1 \notin {s.groups[s.cur].posX, s.groups[s.cur].posY}
   /\ s.main # "vi-command")
    => s.comp = Complete(s, s.selected)

-----------------------------------------------------------------------------
(* Sequences                                                               *)

\* f holds, for each n, what Keep makes of the first n elements of s.
KeptBy(f, s, T) ==
  /\ f[0] = << >>
  /\ \A n \in 1 .. Len(s) :
       f[n] = IF s[n] \in T THEN Append(f[n - 1], s[n]) ELSE f[n - 1]

\* Keep goes over the sequence once.
LEMMA KeepRuns ==
  ASSUME NEW A, NEW s \in Seq(A), NEW T
  PROVE  \E f \in [0 .. Len(s) -> Seq(A)] : KeptBy(f, s, T) /\ Keep(s, T) = f[Len(s)]
  <1> DEFINE len == Len(s)
             S == Seq(A)
             Turn(v, n) == IF n \in 1 .. len THEN IF s[n] \in T THEN Append(v, s[n]) ELSE v ELSE v
             step == [x \in S \X Nat |-> Turn(x[1], x[2])]
             Def(f) == [n \in 0 .. len |-> IF n = 0 THEN << >>
                                           ELSE IF s[n] \in T THEN Append(f[n - 1], s[n])
                                           ELSE f[n - 1]]
             kept == CHOOSE f : f = Def(f)
  <1>1. len \in Nat /\ \A n \in 1 .. len : s[n] \in A
    BY LenProperties, ElementOfSeq
  <1>2. Keep(s, T) = kept[len]
    BY DEF Keep
  <1>3. step \in [S \X Nat -> S]
    <2> SUFFICES ASSUME NEW v \in S, NEW n \in Nat PROVE Turn(v, n) \in S
      OBVIOUS
    <2>1. CASE n \in 1 .. len
      <3>1. Append(v, s[n]) \in S
        BY <1>1, <2>1, AppendProperties
      <3> QED
        BY <3>1
    <2>2. CASE n \notin 1 .. len
      BY <2>2
    <2> QED
      BY <2>1, <2>2
  <1>4. PICK f \in [0 .. len -> S] : FoldsTo(f, << >>, step, len)
    <2>1. << >> \in S
      OBVIOUS
    <2> HIDE DEF step, len, S
    <2> QED
      BY <1>1, <1>3, <2>1, PrimitiveRecursion
  <1>5. KeptBy(f, s, T)
    <2>1. ASSUME NEW n \in 1 .. len
          PROVE  f[n] = IF s[n] \in T THEN Append(f[n - 1], s[n]) ELSE f[n - 1]
      <3>1. n \in Nat /\ f[n - 1] \in S
        BY <1>1, <1>4
      <3>2. f[n] = step[<<f[n - 1], n>>]
        BY <1>4 DEF FoldsTo
      <3>3. step[<<f[n - 1], n>>] = Turn(f[n - 1], n)
        <4> HIDE DEF Turn, S
        <4> QED
          BY <3>1
      <3> QED
        BY <3>2, <3>3
    <2> QED
      BY <1>4, <2>1 DEF KeptBy, FoldsTo
  <1>6. f = Def(f)
    <2> HIDE DEF S
    <2>1. ASSUME NEW n \in 0 .. len PROVE f[n] = Def(f)[n]
      <3>1. CASE n = 0
        BY <1>5, <3>1 DEF KeptBy
      <3>2. CASE n # 0
        <4>1. n \in 1 .. len
          BY <1>1, <3>2
        <4> QED
          BY <1>5, <3>2, <4>1 DEF KeptBy
      <3> QED
        BY <3>1, <3>2
    <2> QED
      BY <1>4, <2>1
  <1>7. \A g : g = Def(g) => g = f
    <2> SUFFICES ASSUME NEW g, g = Def(g) PROVE g = f
      OBVIOUS
    <2> DEFINE B == {n \in Nat : n \in 0 .. len => g[n] = f[n]}
    <2>1. 0 \in B
      BY <1>1, <1>6
    <2>2. ASSUME NEW n \in Nat, n \in B PROVE n + 1 \in B
      <3> SUFFICES ASSUME n + 1 \in 0 .. len PROVE g[n + 1] = f[n + 1]
        OBVIOUS
      <3>1. n \in 0 .. len /\ n + 1 # 0 /\ n + 1 - 1 = n
        BY <1>1
      <3>2. g[n] = f[n]
        BY <2>2, <3>1
      <3>3. /\ Def(g)[n + 1] = IF s[n + 1] \in T THEN Append(g[n], s[n + 1]) ELSE g[n]
            /\ Def(f)[n + 1] = IF s[n + 1] \in T THEN Append(f[n], s[n + 1]) ELSE f[n]
        BY <3>1
      <3> HIDE DEF Def
      <3> QED
        BY <1>6, <3>2, <3>3
    <2>3. Nat \subseteq B
      <3> HIDE DEF B
      <3> QED
        BY <2>1, <2>2, NatSetInduction
    <2>4. ASSUME NEW n \in 0 .. len PROVE g[n] = f[n]
      <3>1. n \in Nat
        BY <1>1
      <3>2. n \in B
        BY <2>3, <3>1
      <3> QED
        BY <3>2
    <2> QED
      BY <1>6, <2>4
  <1>8. kept = f
    <2>1. kept = Def(kept)
      <3> HIDE DEF Def
      <3> QED
        BY <1>6
    <2> HIDE DEF kept, Def
    <2> QED
      BY <1>7, <2>1
  <1> QED
    BY <1>2, <1>4, <1>5, <1>8

\* Keep gives elements of s that are in T, and some if there are any.
LEMMA KeepGives ==
  ASSUME NEW A, NEW s \in Seq(A), NEW T
  PROVE  /\ Keep(s, T) \in Seq(A \cap T)
         /\ (\E n \in 1 .. Len(s) : s[n] \in T) => Keep(s, T) # << >>
  <1> DEFINE len == Len(s)
  <1>1. PICK f \in [0 .. len -> Seq(A)] : KeptBy(f, s, T) /\ Keep(s, T) = f[len]
    BY KeepRuns
  <1>2. len \in Nat /\ \A n \in 1 .. len : s[n] \in A
    BY LenProperties, ElementOfSeq
  <1> DEFINE B == {n \in Nat : n \in 0 .. len =>
                     /\ f[n] \in Seq(A \cap T)
                     /\ (\E m \in 1 .. n : s[m] \in T) => f[n] # << >>}
  <1>3. 0 \in B
    <2>1. f[0] = << >> /\ << >> \in Seq(A \cap T)
      BY <1>1 DEF KeptBy
    <2>2. \A m \in 1 .. 0 : FALSE
      OBVIOUS
    <2> QED
      BY <2>1, <2>2
  <1>4. ASSUME NEW n \in Nat, n \in B PROVE n + 1 \in B
    <2> SUFFICES ASSUME n + 1 \in 0 .. len
                 PROVE  /\ f[n + 1] \in Seq(A \cap T)
                        /\ (\E m \in 1 .. n + 1 : s[m] \in T) => f[n + 1] # << >>
      OBVIOUS
    <2>1. n \in 0 .. len /\ n + 1 \in 1 .. len /\ n + 1 - 1 = n
      BY <1>2
    <2>2. f[n] \in Seq(A \cap T) /\ ((\E m \in 1 .. n : s[m] \in T) => f[n] # << >>)
      BY <1>4, <2>1
    <2>3. f[n + 1] = IF s[n + 1] \in T THEN Append(f[n], s[n + 1]) ELSE f[n]
      BY <1>1, <2>1 DEF KeptBy
    <2>4. CASE s[n + 1] \in T
      <3>1. s[n + 1] \in A \cap T
        BY <1>2, <2>1, <2>4
      <3>2. Append(f[n], s[n + 1]) \in Seq(A \cap T) /\ Append(f[n], s[n + 1]) # << >>
        BY SMTT(30), <2>2, <3>1, AppendProperties
      <3> QED
        BY <2>3, <2>4, <3>2
    <2>5. CASE s[n + 1] \notin T
      <3>1. \A m \in 1 .. n + 1 : s[m] \in T => m \in 1 .. n
        BY <2>5
      <3> QED
        BY <2>2, <2>3, <2>5, <3>1
    <2> QED
      BY <2>4, <2>5
  <1>5. Nat \subseteq B
    <2> HIDE DEF B
    <2> QED
      BY <1>3, <1>4, NatSetInduction
  <1>6. len \in B /\ len \in 0 .. len
    BY <1>2, <1>5
  <1> QED
    BY <1>1, <1>6

\* f holds, for each i, the first i sequences of q one after the other.
Joins(f, q) ==
  /\ f[1] = q[1]
  /\ \A i \in 2 .. Len(q) : f[i] = f[i - 1] \o q[i]

\* FlattenSeq puts the sequences one after the other.
LEMMA FlattenJoins ==
  ASSUME NEW A, NEW q \in Seq(Seq(A)), q # << >>
  PROVE  \E f \in [1 .. Len(q) -> Seq(A)] : Joins(f, q) /\ FlattenSeq(q) = f[Len(q)]
  <1> DEFINE len == Len(q)
             S == Seq(A)
             Turn(v, n) == IF n + 1 \in 1 .. len THEN v \o q[n + 1] ELSE v
             step == [x \in S \X Nat |-> Turn(x[1], x[2])]
             Def(f) == [i \in 1 .. len |-> IF i = 1 THEN q[i] ELSE f[i - 1] \o q[i]]
             flatten == CHOOSE f : f = Def(f)
  <1>1. len \in Nat /\ len # 0 /\ \A i \in 1 .. len : q[i] \in S
    BY EmptySeq, ElementOfSeq
  <1>2. FlattenSeq(q) = flatten[len]
    BY <1>1 DEF FlattenSeq
  <1>3. step \in [S \X Nat -> S]
    <2> SUFFICES ASSUME NEW v \in S, NEW n \in Nat PROVE Turn(v, n) \in S
      OBVIOUS
    <2>1. CASE n + 1 \in 1 .. len
      <3>1. q[n + 1] \in S
        BY <1>1, <2>1
      <3>2. v \o q[n + 1] \in S
        BY <3>1, ConcatProperties
      <3> QED
        BY <2>1, <3>2
    <2>2. CASE n + 1 \notin 1 .. len
      BY <2>2
    <2> QED
      BY <2>1, <2>2
  <1>4. PICK f0 \in [0 .. len - 1 -> S] : FoldsTo(f0, q[1], step, len - 1)
    <2>1. q[1] \in S /\ len - 1 \in Nat
      BY <1>1
    <2> HIDE DEF step, len, S
    <2> QED
      BY <1>3, <2>1, PrimitiveRecursion
  <1> DEFINE f == [i \in 1 .. len |-> f0[i - 1]]
  <1>5. ASSUME NEW i \in 2 .. len
        PROVE  f[i] = f[i - 1] \o q[i] /\ f[i - 1] \in S
    <2>1. i - 1 \in 1 .. len - 1 /\ i - 1 \in Nat /\ i - 1 - 1 \in 0 .. len - 1 /\ i - 1 \in 1 .. len
      BY <1>1
    <2>2. f0[i - 1 - 1] \in S
      BY <1>4, <2>1
    <2>3. f0[i - 1] = step[<<f0[i - 1 - 1], i - 1>>]
      BY <1>4, <2>1 DEF FoldsTo
    <2>4. step[<<f0[i - 1 - 1], i - 1>>] = Turn(f0[i - 1 - 1], i - 1)
      <3> HIDE DEF Turn, S
      <3> QED
        BY <2>1, <2>2
    <2>5. Turn(f0[i - 1 - 1], i - 1) = f0[i - 1 - 1] \o q[i]
      <3>1. i - 1 + 1 = i /\ i \in 1 .. len
        BY <1>1
      <3> HIDE DEF S
      <3> QED
        BY <3>1
    <2>6. f[i] = f0[i - 1] /\ f[i - 1] = f0[i - 1 - 1]
      BY <2>1
    <2> HIDE DEF f, Turn, step
    <2> QED
      BY <2>2, <2>3, <2>4, <2>5, <2>6
  <1>6. f \in [1 .. len -> S] /\ f[1] = q[1] /\ DOMAIN f = 1 .. len
    BY <1>1, <1>4 DEF FoldsTo
  <1> HIDE DEF f
  <1>7. f = Def(f)
    <2>1. ASSUME NEW i \in 1 .. len PROVE f[i] = Def(f)[i]
      <3>1. CASE i = 1
        BY <1>6, <3>1
      <3>2. CASE i # 1
        <4>1. i \in 2 .. len
          BY <1>1, <3>2
        <4> QED
          BY <1>5, <3>2, <4>1
      <3> QED
        BY <3>1, <3>2
    <2> HIDE DEF S
    <2> QED
      BY <1>6, <2>1
  <1>8. ASSUME NEW g, g = Def(g) PROVE g = f
    <2> DEFINE B == {n \in Nat : n + 1 \in 1 .. len => g[n + 1] = f[n + 1]}
    <2>1. 0 \in B
      BY <1>1, <1>6, <1>8
    <2>2. ASSUME NEW n \in Nat, n \in B PROVE n + 1 \in B
      <3> SUFFICES ASSUME n + 1 + 1 \in 1 .. len PROVE g[n + 1 + 1] = f[n + 1 + 1]
        OBVIOUS
      <3> DEFINE i == n + 1 + 1
      <3>1. i \in 1 .. len /\ i # 1 /\ i - 1 = n + 1 /\ n + 1 \in 1 .. len /\ i \in 2 .. len
        BY <1>1
      <3> HIDE DEF i
      <3>2. g[i - 1] = f[i - 1]
        BY <2>2, <3>1
      <3>3. Def(g)[i] = g[i - 1] \o q[i]
        BY <3>1
      <3>4. f[i] = f[i - 1] \o q[i]
        BY <1>5, <3>1
      <3>5. g[i] = f[i]
        <4> HIDE DEF Def
        <4> QED
          BY <1>8, <3>2, <3>3, <3>4
      <3> QED
        BY <3>5 DEF i
    <2>3. Nat \subseteq B
      <3> HIDE DEF B
      <3> QED
        BY <2>1, <2>2, NatSetInduction
    <2>4. ASSUME NEW i \in 1 .. len PROVE g[i] = f[i]
      <3>1. i - 1 \in Nat /\ i - 1 + 1 = i
        BY <1>1
      <3>2. i - 1 \in B
        BY <2>3, <3>1
      <3> QED
        BY <3>1, <3>2
    <2>5. DOMAIN g = 1 .. len /\ g = [i \in 1 .. len |-> g[i]]
      BY <1>8
    <2> HIDE DEF Def
    <2> QED
      BY <1>6, <2>4, <2>5
  <1>9. flatten = f
    <2>1. flatten = Def(flatten)
      <3> HIDE DEF Def
      <3> QED
        BY <1>7
    <2> HIDE DEF flatten, Def
    <2> QED
      BY <1>8, <2>1
  <1> QED
    BY <1>2, <1>5, <1>6, <1>9 DEF Joins

\* FlattenSeq gives elements of the sequences it is given, and some if one of
\* them is not empty.
LEMMA FlattenGives ==
  ASSUME NEW A, NEW q \in Seq(Seq(A))
  PROVE  /\ FlattenSeq(q) \in Seq(A)
         /\ (\E i \in 1 .. Len(q) : q[i] # << >>) => FlattenSeq(q) # << >>
  <1>1. CASE q = << >>
    <2>1. Len(q) = 0
      BY <1>1, EmptySeq
    <2>2. FlattenSeq(q) = q
      BY <2>1 DEF FlattenSeq
    <2>3. << >> \in Seq(A) /\ ~(\E i \in 1 .. Len(q) : q[i] # << >>)
      BY <2>1
    <2> QED
      BY <1>1, <2>2, <2>3
  <1>2. CASE q # << >>
    <2> DEFINE len == Len(q)
    <2>1. PICK f \in [1 .. len -> Seq(A)] : Joins(f, q) /\ FlattenSeq(q) = f[len]
      BY <1>2, FlattenJoins
    <2>2. len \in Nat /\ len # 0 /\ \A i \in 1 .. len : q[i] \in Seq(A)
      BY <1>2, EmptySeq, ElementOfSeq
    <2> DEFINE B == {n \in Nat : n + 1 \in 1 .. len =>
                       ((\E i \in 1 .. n + 1 : q[i] # << >>) => f[n + 1] # << >>)}
    <2>3. 0 \in B
      BY <2>1, <2>2 DEF Joins
    <2>4. ASSUME NEW n \in Nat, n \in B PROVE n + 1 \in B
      <3> SUFFICES ASSUME n + 1 + 1 \in 1 .. len, NEW i \in 1 .. n + 1 + 1, q[i] # << >>
                   PROVE  f[n + 1 + 1] # << >>
        OBVIOUS
      <3> DEFINE m == n + 1 + 1
                 u == f[n + 1]
                 v == q[m]
      <3>1. m \in 2 .. len /\ m - 1 = n + 1 /\ n + 1 \in 1 .. len /\ m \in 1 .. len
        BY <2>2
      <3>2. f[m] = u \o v /\ u \in Seq(A) /\ v \in Seq(A)
        <4> HIDE DEF m
        <4> QED
          BY <2>1, <2>2, <3>1 DEF Joins
      <3>3. u # << >> \/ v # << >>
        <4>1. CASE i = m
          BY <4>1
        <4>2. CASE i # m
          <5>1. i \in 1 .. n + 1
            BY <4>2
          <5> QED
            BY <2>4, <3>1, <5>1
        <4> QED
          BY <4>1, <4>2
      <3> HIDE DEF u, v
      <3>4. u \o v # << >>
        <4>1. Len(u) \in Nat /\ Len(v) \in Nat /\ (Len(u) # 0 \/ Len(v) # 0)
          BY <3>2, <3>3, EmptySeq, LenProperties
        <4>2. Len(u \o v) = Len(u) + Len(v) /\ u \o v \in Seq(A)
          BY <3>2, ConcatProperties
        <4>3. Len(u \o v) # 0
          BY <4>1, <4>2
        <4> QED
          BY <4>2, <4>3, EmptySeq
      <3> QED
        BY <3>2, <3>4
    <2>5. Nat \subseteq B
      <3> HIDE DEF B
      <3> QED
        BY <2>3, <2>4, NatSetInduction
    <2>6. len - 1 \in B /\ len - 1 + 1 = len /\ len \in 1 .. len
      <3>1. len - 1 \in Nat /\ len - 1 + 1 = len /\ len \in 1 .. len
        BY <2>2
      <3> HIDE DEF B, len
      <3> QED
        BY <2>5, <3>1
    <2>7. f[len] \in Seq(A)
      BY <2>1, <2>6
    <2> QED
      BY <2>1, <2>6, <2>7
  <1> QED
    BY <1>1, <1>2

-----------------------------------------------------------------------------
(* Layout of a menu                                                        *)

\* Wrap leaves no row empty, and some row if there is a candidate.
LEMMA WrapGives ==
  ASSUME NEW A, NEW row \in Seq(A), NEW n \in Nat \ {0}
  PROVE  /\ Wrap(row, n) \in Seq(Seq(A) \ {<< >>})
         /\ row # << >> => Wrap(row, n) # << >>
  <1> DEFINE len == Len(row)
             m == (len + n - 1) \div n
             Row(i) == SubSeq(row, (i - 1) * n + 1, IF i * n < len THEN i * n ELSE len)
             w == [i \in 1 .. m |-> Row(i)]
  <1>1. len \in Nat
    BY LenProperties
  <1>2. m \in Nat /\ m * n <= len + n - 1 /\ (len # 0 => m # 0)
    <2> HIDE DEF len
    <2> QED
      BY <1>1
  <1>3. ASSUME NEW i \in 1 .. m PROVE Row(i) \in Seq(A) \ {<< >>}
    <2> DEFINE b == (i - 1) * n + 1
               e1 == IF i * n < len THEN i * n ELSE len
    <2>1. i \in Nat /\ i # 0 /\ i <= m
      BY <1>2
    <2>2. i * n <= m * n
      <3> HIDE DEF m
      <3> QED
        BY <1>2, <2>1
    <2>3. (i - 1) * n = i * n - n /\ (i - 1) * n \in Nat /\ i * n \in Nat
      <3> HIDE DEF m
      <3> QED
        BY <2>1
    <2>4. b \in Nat \ {0} /\ e1 \in Nat /\ b <= e1 /\ e1 <= len
      <3> DEFINE u == i * n
                 v == (i - 1) * n
                 mn == m * n
      <3>1. u <= mn /\ mn <= len + n - 1 /\ v = u - n /\ v \in Nat /\ u \in Nat /\ mn \in Int
        BY <1>2, <2>2, <2>3
      <3>2. b = v + 1 /\ e1 = IF u < len THEN u ELSE len
        OBVIOUS
      <3> HIDE DEF u, v, mn, b, e1, len, m
      <3> QED
        BY ONLY <1>1, <3>1, <3>2, n \in Nat \ {0}
    <2> HIDE DEF b, e1
    <2>5. \A j \in b .. e1 : row[j] \in A
      <3>1. \A j \in b .. e1 : j \in 1 .. len
        <4> HIDE DEF len
        <4> QED
          BY <1>1, <2>4
      <3> QED
        BY <3>1, ElementOfSeq
    <2>6. SubSeq(row, b, e1) \in Seq(A) /\ Len(SubSeq(row, b, e1)) = e1 - b + 1
      BY <2>4, <2>5, SubSeqProperties
    <2>7. SubSeq(row, b, e1) # << >>
      <3>1. Len(SubSeq(row, b, e1)) # 0
        BY <2>4, <2>6
      <3> QED
        BY <3>1, EmptySeq
    <2> QED
      BY <2>6, <2>7 DEF b, e1
  <1> HIDE DEF Row, m, len
  <1>4. w \in Seq(Seq(A) \ {<< >>}) /\ Len(w) = m
    BY <1>2, <1>3
  <1>5. Wrap(row, n) = w
    BY DEF Wrap, w, Row, m, len
  <1>6. ASSUME row # << >> PROVE w # << >>
    <2>1. len # 0
      BY <1>6, EmptySeq DEF len
    <2>2. m # 0
      BY <1>2, <2>1
    <2> HIDE DEF w
    <2> QED
      BY <1>4, <2>2, EmptySeq
  <1> QED
    BY <1>4, <1>5, <1>6

\* What Firsts picks are elements of s, and some if there is one to pick.
LEMMA PickGives ==
  ASSUME NEW A, NEW s \in Seq(A), NEW T, NEW p,
         p = PickAt(s, Keep([i \in DOMAIN s |-> i], T))
  PROVE  p \in Seq(A) /\ ((\E n \in 1 .. Len(s) : n \in T) => p # << >>)
  <1> DEFINE N == 1 .. Len(s)
             idx == [i \in DOMAIN s |-> i]
             is == Keep(idx, T)
  <1>1. Len(s) \in Nat /\ DOMAIN s = N
    BY LenProperties
  <1>2. idx \in Seq(N) /\ Len(idx) = Len(s) /\ \A n \in N : idx[n] = n
    BY <1>1
  <1>3. p = PickAt(s, is)
    OBVIOUS
  <1> HIDE DEF N, idx
  <1>4. is \in Seq(N \cap T) /\ ((\E n \in 1 .. Len(idx) : idx[n] \in T) => is # << >>)
    BY <1>2, KeepGives
  <1> HIDE DEF is
  <1>5. is \in Seq(N)
    BY <1>4
  <1>6. Len(is) \in Nat /\ DOMAIN is = 1 .. Len(is) /\ \A i \in 1 .. Len(is) : is[i] \in N
    BY <1>5, LenProperties, ElementOfSeq
  <1>7. p = [i \in 1 .. Len(is) |-> s[is[i]]]
    BY <1>3, <1>6 DEF PickAt
  <1>8. \A i \in 1 .. Len(is) : s[is[i]] \in A
    BY <1>6, ElementOfSeq DEF N
  <1>9. p \in Seq(A) /\ Len(p) = Len(is)
    BY <1>6, <1>7, <1>8
  <1>10. ASSUME NEW n \in 1 .. Len(s), n \in T PROVE p # << >>
    <2>1. n \in N /\ n \in 1 .. Len(idx) /\ idx[n] \in T
      BY <1>2, <1>10 DEF N
    <2>2. is # << >>
      BY <1>4, <2>1
    <2>3. Len(is) # 0
      BY <1>5, <2>2, EmptySeq
    <2> QED
      BY <1>9, <2>3, EmptySeq
  <1> QED
    BY <1>9, <1>10

\* A sequence is one of its own elements.
LEMMA OfItsOwn ==
  ASSUME NEW A, NEW s \in Seq(A)
  PROVE  /\ s \in Seq(Range(s)) /\ Range(s) \subseteq A
         /\ \A x \in Range(s) : \E i \in 1 .. Len(s) : x = s[i]
         /\ \A i \in 1 .. Len(s) : s[i] \in Range(s)
  <1>1. Len(s) \in Nat /\ DOMAIN s = 1 .. Len(s) /\ s = [i \in 1 .. Len(s) |-> s[i]]
    BY LenProperties
  <1>2. \A i \in 1 .. Len(s) : s[i] \in Range(s) /\ s[i] \in A
    BY <1>1, ElementOfSeq DEF Range
  <1>3. s \in Seq(Range(s))
    BY <1>1, <1>2
  <1> QED
    BY <1>1, <1>2, <1>3 DEF Range

\* Keep gives a sequence of the elements that are kept.
LEMMA KeepTyped ==
  ASSUME NEW A, NEW s \in Seq(A), NEW T
  PROVE  Keep(s, T) \in Seq(A)
  <1> DEFINE X == A \cap T
  <1>1. Keep(s, T) \in Seq(X) /\ X \subseteq A
    BY KeepGives
  <1> HIDE DEF X
  <1> QED
    BY <1>1

\* Rows that are not empty are rows.
LEMMA NotEmptyRows ==
  ASSUME NEW A, NEW q \in Seq(NotEmpty(A))
  PROVE  q \in Seq(Seq(A))
  <1>1. NotEmpty(A) \subseteq Seq(A)
    BY DEF NotEmpty
  <1> QED
    BY <1>1

\* For each element of F, the candidates that have its description.
Alike(vals, F) == [i \in DOMAIN F |-> Keep(vals, {x \in Range(vals) : x.desc = F[i].desc})]

\* The aliases of a description share rows of their own, none of them empty.
LEMMA DescribedRowsGive ==
  ASSUME NEW A, NEW vals \in Seq(A), NEW T, NEW F, NEW q, vals # << >>,
         F = PickAt(vals, Keep([i \in DOMAIN vals |-> i], T)), 1 \in T,
         q = Alike(vals, F)
  PROVE  q \in Seq(Seq(A)) /\ q # << >> /\ \A i \in 1 .. Len(q) : q[i] # << >>
  <1> DEFINE R == Range(vals)
             K(i) == Keep(vals, {x \in Range(vals) : x.desc = F[i].desc})
  <1>1. vals \in Seq(R) /\ \A x \in R : \E i \in 1 .. Len(vals) : x = vals[i]
    BY OfItsOwn
  <1>2. Len(vals) \in Nat /\ Len(vals) # 0
    BY EmptySeq, LenProperties
  <1> HIDE DEF R
  <1>3. F \in Seq(R) /\ F # << >>
    <2>1. 1 \in 1 .. Len(vals)
      BY <1>2
    <2> QED
      BY <1>1, <2>1, PickGives
  <1>4. Len(F) \in Nat /\ Len(F) # 0 /\ DOMAIN F = 1 .. Len(F) /\ \A i \in 1 .. Len(F) : F[i] \in R
    BY <1>3, EmptySeq, LenProperties, ElementOfSeq
  <1>5. ASSUME NEW i \in 1 .. Len(F) PROVE K(i) \in Seq(A) /\ K(i) # << >>
    <2> DEFINE X == {x \in Range(vals) : x.desc = F[i].desc}
    <2>1. PICK j \in 1 .. Len(vals) : F[i] = vals[j]
      BY <1>1, <1>4
    <2>2. vals[j] \in X
      BY <1>4, <2>1 DEF R
    <2> HIDE DEF X
    <2>3. Keep(vals, X) \in Seq(A)
      BY KeepTyped
    <2>4. Keep(vals, X) # << >>
      BY <2>2, KeepGives
    <2> QED
      BY <2>3, <2>4 DEF X
  <1> HIDE DEF K
  <1>6. q = [i \in 1 .. Len(F) |-> K(i)]
    BY <1>4 DEF K, Alike
  <1>7. q \in Seq(Seq(A)) /\ Len(q) = Len(F)
    <2> DEFINE S == Seq(A)
    <2>1. \A i \in 1 .. Len(F) : K(i) \in S
      BY <1>5
    <2> HIDE DEF S
    <2>2. q \in Seq(S) /\ Len(q) = Len(F)
      BY <1>4, <1>6, <2>1
    <2> QED
      BY <2>2 DEF S
  <1>8. q # << >>
    BY <1>4, <1>7, EmptySeq
  <1> QED
    BY <1>5, <1>6, <1>7, <1>8

\* Rows leaves no row empty, and some row if there is a candidate.
LEMMA RowsGive ==
  ASSUME NEW A, NEW vals \in Seq(A), NEW n \in Nat \ {0}
  PROVE  /\ Rows(vals, n) \in Seq(NotEmpty(A))
         /\ vals # << >> => Rows(vals, n) # << >>
  <1>1. CASE completionsAreAliases(vals)
    <2> DEFINE idx == [i \in DOMAIN vals |-> i]
               T == {i \in Range(idx) : \A j \in 1 .. i - 1 : Desc(vals[j]) # Desc(vals[i])}
               F == PickAt(vals, Keep(idx, T))
               q == Alike(vals, F)
               w == [i \in DOMAIN q |-> Wrap(q[i], n)]
    <2>1. createDescribedRows(vals) = q
      <3>1. Firsts(vals, Desc) = F
        BY DEF Firsts, Filter
      <3> QED
        BY <3>1 DEF createDescribedRows, Map, Filter, Alike
    <2>2. Rows(vals, n) = FlattenSeq(w)
      <3> HIDE DEF q
      <3> QED
        BY <1>1, <2>1 DEF Rows, Map
    <2>3. vals # << >> /\ 1 \in T
      <3>1. Len(vals) \in Nat /\ DOMAIN vals = 1 .. Len(vals)
        BY LenProperties
      <3>2. PICK i \in DOMAIN vals : TRUE
        BY <1>1 DEF completionsAreAliases
      <3>3. Len(vals) # 0 /\ 1 \in DOMAIN vals
        BY <3>1, <3>2
      <3>4. 1 \in Range(idx)
        BY <3>3 DEF Range
      <3>5. \A j \in 1 .. 1 - 1 : FALSE
        OBVIOUS
      <3> QED
        BY <3>3, <3>4, <3>5, EmptySeq
    <2>4. F = PickAt(vals, Keep([i \in DOMAIN vals |-> i], T))
      OBVIOUS
    <2>5. q = Alike(vals, F)
      OBVIOUS
    <2> HIDE DEF T, F, q
    <2>6. q \in Seq(Seq(A)) /\ q # << >> /\ \A i \in 1 .. Len(q) : q[i] # << >>
      BY SMTT(30), <2>3, <2>4, <2>5, DescribedRowsGive
    <2>7. Len(q) \in Nat /\ Len(q) # 0 /\ DOMAIN q = 1 .. Len(q) /\ \A i \in 1 .. Len(q) : q[i] \in Seq(A)
      BY <2>6, EmptySeq, LenProperties, ElementOfSeq
    <2>8. \A i \in 1 .. Len(q) : Wrap(q[i], n) \in Seq(NotEmpty(A)) /\ Wrap(q[i], n) # << >>
      BY <2>6, <2>7, WrapGives DEF NotEmpty
    <2>9. w \in Seq(Seq(NotEmpty(A))) /\ Len(w) = Len(q) /\ \A i \in 1 .. Len(q) : w[i] # << >>
      BY <2>7, <2>8
    <2> HIDE DEF w
    <2>10. FlattenSeq(w) \in Seq(NotEmpty(A)) /\ FlattenSeq(w) # << >>
      <3>1. 1 \in 1 .. Len(w) /\ w[1] # << >>
        BY <2>7, <2>9
      <3> QED
        BY <2>9, <3>1, FlattenGives
    <2> QED
      BY <2>2, <2>10
  <1>2. CASE ~completionsAreAliases(vals)
    BY <1>2, WrapGives DEF Rows, NotEmpty
  <1> QED
    BY <1>1, <1>2

\* The rows of a group have a longest one.
LEMMA Longest ==
  ASSUME NEW A, NEW q \in Seq(Seq(A))
  PROVE  \E b \in Nat : \A i \in 1 .. Len(q) : Len(q[i]) <= b
  <1> DEFINE UpTo(n) == \E b \in Nat : \A i \in 1 .. Len(q) : i <= n => Len(q[i]) <= b
             B == {n \in Nat : UpTo(n)}
  <1>1. Len(q) \in Nat /\ \A i \in 1 .. Len(q) : Len(q[i]) \in Nat
    BY LenProperties, ElementOfSeq
  <1>2. 0 \in B
    <2>1. \A i \in 1 .. Len(q) : ~(i <= 0)
      BY <1>1
    <2> QED
      BY <2>1
  <1>3. ASSUME NEW n \in Nat, n \in B PROVE n + 1 \in B
    <2>1. PICK b \in Nat : \A i \in 1 .. Len(q) : i <= n => Len(q[i]) <= b
      BY <1>3
    <2>2. CASE n + 1 \in 1 .. Len(q)
      <3> DEFINE c == IF Len(q[n + 1]) <= b THEN b ELSE Len(q[n + 1])
      <3>1. c \in Nat /\ b <= c /\ Len(q[n + 1]) <= c
        BY <1>1, <2>2
      <3> HIDE DEF c
      <3>2. ASSUME NEW i \in 1 .. Len(q), i <= n + 1 PROVE Len(q[i]) <= c
        <4>1. CASE i = n + 1
          BY <3>1, <4>1
        <4>2. CASE i # n + 1
          <5>1. i <= n
            BY <1>1, <3>2, <4>2
          <5>2. Len(q[i]) <= b /\ Len(q[i]) \in Nat
            BY <1>1, <2>1, <5>1
          <5> QED
            BY <3>1, <5>2
        <4> QED
          BY <4>1, <4>2
      <3>3. UpTo(n + 1)
        BY <3>1, <3>2
      <3> HIDE DEF UpTo
      <3> QED
        BY <3>3
    <2>3. CASE n + 1 \notin 1 .. Len(q)
      <3>1. \A i \in 1 .. Len(q) : i <= n + 1 => i <= n
        BY <1>1, <2>3
      <3>2. UpTo(n + 1)
        BY <2>1, <3>1
      <3> HIDE DEF UpTo
      <3> QED
        BY <3>2
    <2> QED
      BY <2>2, <2>3
  <1>4. Nat \subseteq B
    <2> HIDE DEF B
    <2> QED
      BY <1>2, <1>3, NatSetInduction
  <1>5. Len(q) \in B
    BY <1>1, <1>4
  <1>6. PICK b \in Nat : \A i \in 1 .. Len(q) : i <= Len(q) => Len(q[i]) <= b
    BY <1>5
  <1>7. \A i \in 1 .. Len(q) : Len(q[i]) <= b
    BY <1>1, <1>6
  <1> QED
    BY <1>7

\* Grid is as wide as the longest of its rows.
LEMMA GridLaid ==
  ASSUME NEW A, NEW rows \in Seq(NotEmpty(A)), NEW aliased \in BOOLEAN
  PROVE  /\ Grid(rows, aliased) \in Pane(A) /\ Fresh(Grid(rows, aliased))
         /\ Grid(rows, aliased).rows = rows
  <1> DEFINE T == {Len(rows[i]) : i \in DOMAIN rows} \cup {0}
             g == Grid(rows, aliased)
  <1>1. rows \in Seq(Seq(A))
    BY NotEmptyRows
  <1>2. Len(rows) \in Nat /\ DOMAIN rows = 1 .. Len(rows) /\ \A i \in 1 .. Len(rows) : Len(rows[i]) \in Nat
    BY <1>1, LenProperties, ElementOfSeq
  <1>3. PICK b \in Nat : \A i \in 1 .. Len(rows) : Len(rows[i]) <= b
    BY <1>1, Longest
  <1>4. T \in SUBSET Int /\ T # {} /\ \A t \in T : t <= b
    BY <1>2, <1>3
  <1>5. T \subseteq Nat /\ \A i \in 1 .. Len(rows) : Len(rows[i]) \in T
    BY <1>2
  <1>6. g = [rows |-> rows, aliased |-> aliased, maxX |-> Max(T), posX |-> -1, posY |-> -1]
    BY DEF Grid
  <1> HIDE DEF T, g
  <1>7. Max(T) \in T /\ \A t \in T : t <= Max(T)
    <2>1. b \in Int
      OBVIOUS
    <2> QED
      BY <1>4, <2>1, MaxInRange
  <1>8. Max(T) \in Nat /\ \A i \in 1 .. Len(rows) : Len(rows[i]) <= Max(T)
    BY <1>5, <1>7
  <1>9. g \in Group(A)
    BY <1>6, <1>8 DEF Group, NotEmpty
  <1>10. Laid(g)
    BY <1>6, <1>8 DEF Laid, Fresh
  <1>11. Fresh(g) /\ g.rows = rows
    BY <1>6 DEF Fresh
  <1> QED
    BY <1>9, <1>10, <1>11 DEF g, Pane

\* A layout has the candidates it is given, and rows if there are any.
LEMMA LayoutGives ==
  ASSUME NEW A, NEW vals \in Seq(A), NEW n \in Nat \ {0}, NEW aliased \in BOOLEAN
  PROVE  /\ Layout(vals, n, aliased) \in Pane(A) /\ Fresh(Layout(vals, n, aliased))
         /\ vals # << >> => Layout(vals, n, aliased).rows # << >>
  <1> DEFINE rows == Rows(vals, n)
             al == aliased \/ completionsAreAliases(vals)
  <1>1. rows \in Seq(NotEmpty(A)) /\ (vals # << >> => rows # << >>)
    BY RowsGive
  <1>2. al \in BOOLEAN
    OBVIOUS
  <1>3. Layout(vals, n, aliased) = Grid(rows, al)
    BY DEF Layout
  <1> HIDE DEF rows, al
  <1> QED
    BY <1>1, <1>2, <1>3, GridLaid

\* A group that was just made.
NewPane(A) == {g \in Pane(A) : Fresh(g) /\ g.rows # << >>}

\* Groups makes groups that all have candidates.
LEMMA GroupsGive ==
  ASSUME NEW A, NEW vals \in Seq(A), NEW n \in Nat \ {0}
  PROVE  Groups(vals, n) \in Seq(NewPane(A))
  <1> DEFINE idx == [i \in DOMAIN vals |-> i]
             T == {i \in Range(idx) : \A j \in 1 .. i - 1 : Tag(vals[j]) # Tag(vals[i])}
             F == PickAt(vals, Keep(idx, T))
             D(t) == Keep(vals, {x \in Range(vals) : x.tag = t /\ x.desc # ""})
             O(t) == Keep(vals, {x \in Range(vals) : x.tag = t /\ x.desc = ""})
             Two(t) == Keep(<<D(t), O(t)>>, {x \in Range(<<D(t), O(t)>>) : x # << >>})
             q == [i \in DOMAIN F |-> Two(F[i].tag)]
             fl == FlattenSeq(q)
             gs == [i \in DOMAIN fl |-> Layout(fl[i], n, FALSE)]
  <1>1. Groups(vals, n) = gs
    BY Zenon DEF Groups, Firsts, Map, Filter
  <1>2. F \in Seq(A)
    <2> HIDE DEF T
    <2> QED
      BY PickGives
  <1>3. Len(F) \in Nat /\ DOMAIN F = 1 .. Len(F)
    BY <1>2, LenProperties
  <1>4. ASSUME NEW t PROVE Two(t) \in Seq(NotEmpty(A))
    <2> DEFINE d == D(t)
               o == O(t)
               X == {x \in Range(<<d, o>>) : x # << >>}
    <2>1. d \in Seq(A) /\ o \in Seq(A)
      BY KeepTyped
    <2>2. \A x \in X : x # << >>
      OBVIOUS
    <2>3. Two(t) = Keep(<<d, o>>, X)
      OBVIOUS
    <2> HIDE DEF d, o, X
    <2> DEFINE S == Seq(A)
               s == <<d, o>>
    <2>4. s \in Seq(S)
      BY <2>1
    <2> HIDE DEF S, s
    <2>5. Keep(s, X) \in Seq(S \cap X)
      BY <2>4, KeepGives
    <2> DEFINE Y == S \cap X
    <2>6. Y \subseteq NotEmpty(A)
      BY <2>2 DEF NotEmpty, S
    <2>7. Keep(s, X) \in Seq(Y)
      BY <2>5
    <2> HIDE DEF Y
    <2>8. Keep(s, X) \in Seq(NotEmpty(A))
      BY <2>6, <2>7
    <2> QED
      BY <2>3, <2>8 DEF s
  <1> HIDE DEF F, Two
  <1>5. q \in Seq(Seq(NotEmpty(A)))
    <2> DEFINE S == Seq(NotEmpty(A))
    <2>1. \A i \in 1 .. Len(F) : Two(F[i].tag) \in S
      BY <1>4
    <2> HIDE DEF S
    <2>2. q \in Seq(S)
      BY <1>3, <2>1
    <2> QED
      BY <2>2 DEF S
  <1> HIDE DEF q
  <1>6. fl \in Seq(NotEmpty(A))
    BY <1>5, FlattenGives
  <1> HIDE DEF fl
  <1>7. Len(fl) \in Nat /\ DOMAIN fl = 1 .. Len(fl) /\ \A i \in 1 .. Len(fl) : fl[i] \in NotEmpty(A)
    BY <1>6, LenProperties, ElementOfSeq
  <1>8. ASSUME NEW i \in 1 .. Len(fl) PROVE Layout(fl[i], n, FALSE) \in NewPane(A)
    <2>1. fl[i] \in Seq(A) /\ fl[i] # << >>
      BY <1>7 DEF NotEmpty
    <2> QED
      BY <2>1, LayoutGives DEF NewPane
  <1>9. gs \in Seq(NewPane(A))
    <2> DEFINE L(i) == Layout(fl[i], n, FALSE)
    <2>1. gs = [i \in 1 .. Len(fl) |-> L(i)] /\ \A i \in 1 .. Len(fl) : L(i) \in NewPane(A)
      BY <1>7, <1>8
    <2> HIDE DEF gs, L
    <2> QED
      BY <1>7, <2>1
  <1> QED
    BY <1>1, <1>9

\* A filtered group is a group of the same candidates.
LEMMA FilterGroupGives ==
  ASSUME NEW A, NEW g \in Pane(A), NEW n \in Nat \ {0}, NEW T
  PROVE  Layout(Keep(FlattenSeq(g.rows), T), n, g.aliased) \in Pane(A)
  <1>1. g.rows \in Seq(NotEmpty(A)) /\ g.aliased \in BOOLEAN
    BY DEF Pane, Group
  <1>2. g.rows \in Seq(Seq(A))
    BY <1>1, NotEmptyRows
  <1>3. FlattenSeq(g.rows) \in Seq(A)
    BY <1>2, FlattenGives
  <1>4. Keep(FlattenSeq(g.rows), T) \in Seq(A)
    BY <1>3, KeepTyped
  <1> QED
    BY <1>1, <1>4, LayoutGives

-----------------------------------------------------------------------------
(* The selector                                                            *)

\* The parts of a group with candidates.
LEMMA PaneParts ==
  ASSUME NEW A, NEW g \in Pane(A), g.rows # << >>
  PROVE  /\ Len(g.rows) \in Nat \ {0} /\ g.maxX \in Nat \ {0}
         /\ g.posX \in Int /\ g.posY \in Int /\ g.aliased \in BOOLEAN
         /\ \A y \in 0 .. Len(g.rows) - 1 : LastX(g, y) \in 0 .. g.maxX - 1
         /\ \A y \in 0 .. Len(g.rows) - 1 : \A x \in 0 .. LastX(g, y) : g.rows[y + 1][x + 1] \in A
  <1>1. g \in Group(A) /\ Laid(g)
    BY DEF Pane
  <1>2. /\ g.rows \in Seq(NotEmpty(A)) /\ g.aliased \in BOOLEAN
        /\ g.maxX \in Nat /\ g.posX \in Int /\ g.posY \in Int
    BY <1>1 DEF Group
  <1>3. Len(g.rows) \in Nat \ {0}
    BY <1>2, EmptySeq, LenProperties
  <1>4. ASSUME NEW y \in 0 .. Len(g.rows) - 1
        PROVE  /\ g.rows[y + 1] \in Seq(A) /\ LastX(g, y) \in Nat
               /\ LastX(g, y) = Len(g.rows[y + 1]) - 1 /\ LastX(g, y) <= g.maxX - 1
    <2>1. y + 1 \in 1 .. Len(g.rows)
      BY <1>3
    <2>2. g.rows[y + 1] \in NotEmpty(A)
      BY <1>2, <2>1, ElementOfSeq
    <2>3. g.rows[y + 1] \in Seq(A) /\ Len(g.rows[y + 1]) \in Nat /\ Len(g.rows[y + 1]) # 0
      BY <2>2, EmptySeq, LenProperties DEF NotEmpty
    <2>4. Len(g.rows[y + 1]) <= g.maxX
      BY <1>1, <2>1 DEF Laid
    <2>5. LastX(g, y) = Len(g.rows[y + 1]) - 1
      BY DEF LastX
    <2> QED
      BY <1>2, <2>3, <2>4, <2>5
  <1>5. \A y \in 0 .. Len(g.rows) - 1 : LastX(g, y) \in 0 .. g.maxX - 1
    BY <1>2, <1>4
  <1>6. g.maxX # 0
    <2>1. 0 \in 0 .. Len(g.rows) - 1
      BY <1>3
    <2>2. LastX(g, 0) \in 0 .. g.maxX - 1
      BY <1>5, <2>1
    <2> QED
      BY <1>2, <2>2
  <1>7. ASSUME NEW y \in 0 .. Len(g.rows) - 1, NEW x \in 0 .. LastX(g, y)
        PROVE  g.rows[y + 1][x + 1] \in A
    <2>1. x + 1 \in 1 .. Len(g.rows[y + 1])
      BY <1>4
    <2> QED
      BY <1>4, <2>1, ElementOfSeq
  <1> QED
    BY <1>2, <1>3, <1>5, <1>6, <1>7

\* At2 only moves the selector.
LEMMA At2Parts ==
  ASSUME NEW A, NEW g \in Group(A), NEW x \in Int, NEW y \in Int
  PROVE  /\ At2(g, x, y) \in Group(A)
         /\ At2(g, x, y).posX = x /\ At2(g, x, y).posY = y
         /\ At2(g, x, y).rows = g.rows /\ At2(g, x, y).maxX = g.maxX
         /\ At2(g, x, y).aliased = g.aliased
         /\ \A u, v \in Int : At2(At2(g, x, y), u, v) = At2(g, u, v)
  BY DEF At2, Group

\* A selector that is moved in the grid leaves the group laid out.
LEMMA At2Laid ==
  ASSUME NEW A, NEW g \in Pane(A), NEW x, NEW y, InGrid(g, x, y)
  PROVE  At2(g, x, y) \in Pane(A)
  <1>1. g \in Group(A) /\ Laid(g) /\ x \in Int /\ y \in Int
    BY DEF Pane, InGrid
  <1>2. Laid(At2(g, x, y))
    BY <1>1, At2Parts DEF Laid, InGrid
  <1> QED
    BY <1>1, <1>2, At2Parts DEF Pane

\* A cell that can be selected is in the grid.
LEMMA SelectableInGrid ==
  ASSUME NEW A, NEW g \in Pane(A), g.rows # << >>, NEW x, NEW y, Selectable(g, x, y)
  PROVE  InGrid(g, x, y) /\ x \in Int /\ y \in Int
  <1>1. y \in 0 .. Len(g.rows) - 1 /\ x \in 0 .. LastX(g, y)
    BY DEF Selectable
  <1>2. LastX(g, y) \in 0 .. g.maxX - 1 /\ g.maxX \in Nat
    BY <1>1, PaneParts
  <1>3. x \in 0 .. g.maxX - 1 /\ x \in Int /\ y \in Int
    BY <1>1, <1>2
  <1> QED
    BY <1>1, <1>3 DEF InGrid

\* Where a move may lead: to a candidate, or out of the group.
Lands(m, g) ==
  \E x, y \in Int :
    /\ InGrid(g, x, y)
    /\ \/ m = Move(g, x, y, TRUE, TRUE)
       \/ m = Move(g, x, y, TRUE, FALSE)
       \/ m = Stay(g, x, y) /\ Selectable(g, x, y)

\* The parts of a move.
LEMMA MoveParts ==
  ASSUME NEW g, NEW x, NEW y, NEW next
  PROVE  /\ Move(g, x, y, TRUE, next).g = At2(g, x, y) /\ Stay(g, x, y).g = At2(g, x, y)
         /\ Move(g, x, y, TRUE, next).done /\ ~Stay(g, x, y).done
  BY DEF Move, Stay

\* From a hole, the selector lands on a candidate or leaves the group; it finds
\* one if there is one on its way.
LEMMA FindLands ==
  ASSUME NEW A, NEW g \in Pane(A), g.rows # << >>, NEW x \in Int, NEW y \in Int,
         NEW d \in {1, -1}
  PROVE  LET m == findFirstCandidate(At2(g, x, y), d)
         IN  /\ Lands(m, g)
             /\ (d = -1 /\ x * Len(g.rows) + y > 0) => ~m.done
  <1> DEFINE n == Len(g.rows)
             h == At2(g, x, y)
             found == {i \in 0 .. n * g.maxX - 1 :
                         /\ (i - (x * n + y)) * d > 0
                         /\ Selectable(g, i \div n, i % n)}
             m == findFirstCandidate(h, d)
             best == IF d > 0 THEN Min(found) ELSE Max(found)
  <1>1. g \in Group(A) /\ n \in Nat \ {0} /\ g.maxX \in Nat \ {0} /\ x * n + y \in Int
    <2>1. g \in Group(A) /\ n \in Nat \ {0} /\ g.maxX \in Nat \ {0}
      BY PaneParts DEF Pane
    <2> QED
      BY <2>1
  <1>2. /\ h.rows = g.rows /\ h.maxX = g.maxX /\ h.posX = x /\ h.posY = y
        /\ \A u, v \in Int : At2(h, u, v) = At2(g, u, v)
    BY <1>1, At2Parts
  <1>3. \A u, v : Selectable(h, u, v) <=> Selectable(g, u, v)
    BY <1>2 DEF Selectable, LastX
  <1> HIDE DEF h
  <1>4. m = IF found = {} THEN IF d > 0 THEN Move(h, g.maxX - 1, 0, TRUE, TRUE)
                                ELSE Move(h, 0, 0, TRUE, FALSE)
            ELSE Stay(h, best \div n, best % n)
    BY <1>2, <1>3 DEF findFirstCandidate
  <1>5. \A u, v \in Int : /\ Move(h, u, v, TRUE, TRUE) = Move(g, u, v, TRUE, TRUE)
                         /\ Move(h, u, v, TRUE, FALSE) = Move(g, u, v, TRUE, FALSE)
                         /\ Stay(h, u, v) = Stay(g, u, v)
    BY <1>2 DEF Move, Stay
  <1>6. found \in SUBSET Int /\ \A i \in found : 0 <= i /\ i <= n * g.maxX - 1
    <2> DEFINE k == n * g.maxX - 1
    <2>1. k \in Int
      BY <1>1
    <2>2. found \subseteq 0 .. k
      OBVIOUS
    <2> HIDE DEF k, found
    <2>3. found \in SUBSET Int /\ \A i \in found : 0 <= i /\ i <= k
      BY <2>1, <2>2
    <2> QED
      BY <2>3 DEF k
  <1>7. CASE found = {}
    <2>1. InGrid(g, g.maxX - 1, 0) /\ InGrid(g, 0, 0) /\ g.maxX - 1 \in Int
      BY <1>1 DEF InGrid
    <2>2. Lands(Move(g, g.maxX - 1, 0, TRUE, TRUE), g) /\ Lands(Move(g, 0, 0, TRUE, FALSE), g)
      BY <2>1, 0 \in Int DEF Lands
    <2>3. m = Move(g, g.maxX - 1, 0, TRUE, TRUE) \/ m = Move(g, 0, 0, TRUE, FALSE)
      <3> HIDE DEF found, m
      <3> QED
        BY <1>4, <1>5, <1>7, <2>1, 0 \in Int
    <2>4. ~(d = -1 /\ x * n + y > 0)
      <3> SUFFICES ASSUME d = -1, x * n + y > 0 PROVE FALSE
        OBVIOUS
      <3>1. 0 \in 0 .. n * g.maxX - 1
        <4>1. n * g.maxX >= 1
          BY <1>1
        <4> QED
          BY <1>1, <4>1
      <3>2. (0 - (x * n + y)) * d > 0
        BY <1>1
      <3>3. 0 \div n = 0 /\ 0 % n = 0
        <4> HIDE DEF n
        <4> QED
          BY <1>1
      <3>4. Selectable(g, 0, 0)
        BY <1>1, PaneParts DEF Selectable
      <3>5. 0 \in found
        BY <3>1, <3>2, <3>3, <3>4
      <3> QED
        BY <1>7, <3>5
    <2>5. Lands(m, g)
      BY <2>2, <2>3
    <2> HIDE DEF m
    <2>6. Lands(m, g) /\ ((d = -1 /\ x * n + y > 0) => ~m.done)
      BY <2>4, <2>5
    <2> QED
      BY <2>6 DEF m, h
  <1>8. CASE found # {}
    <2>1. best \in found
      <3>1. Min(found) \in found
        <4>1. 0 \in Int
          OBVIOUS
        <4> HIDE DEF found
        <4> QED
          BY <1>6, <1>8, <4>1, MinInRange
      <3>2. Max(found) \in found
        <4>1. n * g.maxX - 1 \in Int
          BY <1>1
        <4> HIDE DEF found
        <4> QED
          BY <1>6, <1>8, <4>1, MaxInRange
      <3> QED
        BY <3>1, <3>2
    <2>2. Selectable(g, best \div n, best % n)
      BY <2>1
    <2> DEFINE u == best \div n
               v == best % n
    <2>3. m = Stay(h, u, v)
      BY <1>4, <1>8
    <2>4. InGrid(g, u, v) /\ u \in Int /\ v \in Int
      BY <2>2, SelectableInGrid
    <2> HIDE DEF u, v, m
    <2>5. m = Stay(g, u, v)
      BY <1>5, <2>3, <2>4
    <2>6. Selectable(g, u, v)
      BY <2>2 DEF u, v
    <2>7. Lands(m, g)
      BY <2>4, <2>5, <2>6 DEF Lands
    <2>8. ~m.done
      BY <2>5, MoveParts
    <2> QED
      BY <2>7, <2>8 DEF m, h
  <1> QED
    BY <1>7, <1>8 DEF h

\* Move m of group g is not done.
Moving(m, g, x, y) ==
  /\ ~m.done /\ m.g = At2(g, x, y)
  /\ m.g.posX = x /\ m.g.posY = y /\ m.g.rows = g.rows
  /\ m.g.maxX = g.maxX /\ m.g.aliased = g.aliased
  /\ \A v : LastX(m.g, v) = LastX(g, v)
  /\ \A u, v \in Int : /\ Move(m.g, u, v, TRUE, TRUE) = Move(g, u, v, TRUE, TRUE)
                       /\ Move(m.g, u, v, TRUE, FALSE) = Move(g, u, v, TRUE, FALSE)
                       /\ Stay(m.g, u, v) = Stay(g, u, v)

\* What a move that is not done tells of its group.
LEMMA StayParts ==
  ASSUME NEW A, NEW g \in Group(A), NEW x \in Int, NEW y \in Int
  PROVE  Moving(Stay(g, x, y), g, x, y)
  <1> DEFINE h == At2(g, x, y)
  <1>1. Stay(g, x, y).g = h /\ ~Stay(g, x, y).done
    BY MoveParts
  <1>2. /\ h.posX = x /\ h.posY = y /\ h.rows = g.rows /\ h.maxX = g.maxX /\ h.aliased = g.aliased
        /\ \A u, v \in Int : At2(h, u, v) = At2(g, u, v)
    BY At2Parts
  <1> HIDE DEF h
  <1>3. \A v : LastX(h, v) = LastX(g, v)
    BY <1>2 DEF LastX
  <1>4. \A u, v \in Int : /\ Move(h, u, v, TRUE, TRUE) = Move(g, u, v, TRUE, TRUE)
                          /\ Move(h, u, v, TRUE, FALSE) = Move(g, u, v, TRUE, FALSE)
                          /\ Stay(h, u, v) = Stay(g, u, v)
    BY <1>2 DEF Move, Stay
  <1> QED
    BY <1>1, <1>2, <1>3, <1>4 DEF h, Moving

\* A move that is done is not changed any more.
LEMMA DoneStays ==
  ASSUME NEW m, m.done, NEW d
  PROVE  NextRow(m, d) = m /\ NextColumn(m) = m /\ PreviousColumn(m) = m
  BY DEF NextRow, NextColumn, PreviousColumn

\* A move that leaves the group in the grid has landed.
LEMMA LeavingLands ==
  ASSUME NEW g, NEW x \in Int, NEW y \in Int, InGrid(g, x, y), NEW m,
         m = Move(g, x, y, TRUE, TRUE) \/ m = Move(g, x, y, TRUE, FALSE)
  PROVE  Lands(m, g) /\ m.done
  <1>1. Lands(m, g)
    BY DEF Lands
  <1>2. m.done
    BY ZenonT(30), MoveParts
  <1> QED
    BY <1>1, <1>2

\* From right of the row's candidates the selector goes on to the next row, or
\* to the next candidate in the columns of an aliased group.
LEMMA NextRowLands ==
  ASSUME NEW A, NEW g \in Pane(A), g.rows # << >>, NEW d \in {1, -1},
         NEW x \in 0 .. g.maxX, NEW y \in 0 .. Len(g.rows) - 1
  PROVE  Lands(NextRow(Stay(g, x, y), d), g)
  <1> DEFINE m == Stay(g, x, y)
             n == Len(g.rows)
  <1>1. /\ n \in Nat \ {0} /\ g.maxX \in Nat \ {0} /\ g \in Group(A)
        /\ \A v \in 0 .. n - 1 : LastX(g, v) \in 0 .. g.maxX - 1
    BY PaneParts DEF Pane
  <1>2. x \in Int /\ y \in Int
    BY <1>1
  <1>3. Moving(m, g, x, y)
    BY <1>1, <1>2, StayParts
  <1> HIDE DEF m
  <1>4. CASE x <= LastX(g, y)
    <2>1. NextRow(m, d) = m
      BY <1>3, <1>4 DEF NextRow, Moving
    <2>2. x \in 0 .. LastX(g, y)
      BY <1>1, <1>4
    <2>3. Selectable(g, x, y)
      BY <2>2 DEF Selectable
    <2>4. InGrid(g, x, y)
      BY <2>3, SelectableInGrid
    <2>5. Lands(m, g)
      BY <1>2, <2>3, <2>4 DEF Lands, m
    <2> QED
      BY <2>1, <2>5 DEF m
  <1>5. CASE ~(x <= LastX(g, y)) /\ g.aliased
    <2>1. NextRow(m, d) = findFirstCandidate(At2(g, x, y), d)
      BY <1>3, <1>5 DEF NextRow, Moving
    <2> QED
      BY <1>2, <2>1, FindLands DEF m
  <1>6. CASE ~(x <= LastX(g, y)) /\ ~g.aliased /\ y < n - 1
    <2>1. y + 1 \in 0 .. n - 1 /\ y + 1 \in Int
      BY <1>1, <1>2, <1>6
    <2>2. NextRow(m, d) = Stay(g, 0, y + 1)
      BY <1>3, <1>6, <2>1, 0 \in Int DEF NextRow, Moving
    <2>3. 0 \in 0 .. LastX(g, y + 1)
      BY <1>1, <2>1
    <2>4. Selectable(g, 0, y + 1)
      BY <2>1, <2>3 DEF Selectable
    <2>5. InGrid(g, 0, y + 1)
      BY <2>4, SelectableInGrid
    <2>6. Lands(Stay(g, 0, y + 1), g)
      BY <2>1, <2>4, <2>5, 0 \in Int DEF Lands
    <2> QED
      BY <2>2, <2>6 DEF m
  <1>7. CASE ~(x <= LastX(g, y)) /\ ~g.aliased /\ ~(y < n - 1)
    <2>1. NextRow(m, d) = Move(g, 0, y, TRUE, TRUE)
      BY <1>2, <1>3, <1>7, 0 \in Int DEF NextRow, Moving
    <2>2. InGrid(g, 0, y)
      BY <1>1 DEF InGrid
    <2>3. Lands(Move(g, 0, y, TRUE, TRUE), g)
      BY <1>2, <2>2, 0 \in Int, LeavingLands
    <2> QED
      BY <2>1, <2>3 DEF m
  <1> QED
    BY <1>4, <1>5, <1>6, <1>7

\* From below the last row it goes to the top of the next column.
LEMMA NextColumnLands ==
  ASSUME NEW A, NEW g \in Pane(A), g.rows # << >>, NEW d \in {1, -1}, NEW x \in Int, NEW y \in Int,
         \/ x \in 0 .. g.maxX - 1 /\ y \in 0 .. Len(g.rows)
         \/ x \in 0 .. g.maxX /\ y \in 0 .. Len(g.rows) - 1
  PROVE  Lands(NextRow(NextColumn(Stay(g, x, y)), d), g)
  <1> DEFINE m == Stay(g, x, y)
             n == Len(g.rows)
  <1>1. n \in Nat \ {0} /\ g.maxX \in Nat \ {0} /\ g \in Group(A)
    BY PaneParts DEF Pane
  <1>2. Moving(m, g, x, y)
    BY <1>1, StayParts
  <1> HIDE DEF m
  <1>3. CASE y < n
    <2>1. NextColumn(m) = m
      BY <1>2, <1>3 DEF NextColumn, Moving
    <2>2. x \in 0 .. g.maxX /\ y \in 0 .. n - 1
      BY <1>1, <1>3
    <2>3. Lands(NextRow(m, d), g)
      BY <2>2, NextRowLands DEF m
    <2> QED
      BY <2>1, <2>3 DEF m
  <1>4. CASE ~(y < n) /\ x < g.maxX - 1
    <2>1. x + 1 \in Int /\ x + 1 \in 0 .. g.maxX /\ 0 \in 0 .. n - 1
      BY <1>1, <1>4
    <2>2. NextColumn(m) = Stay(g, x + 1, 0)
      BY <1>2, <1>4, <2>1, 0 \in Int DEF NextColumn, Moving
    <2>3. Lands(NextRow(Stay(g, x + 1, 0), d), g)
      BY <2>1, NextRowLands
    <2> QED
      BY <2>2, <2>3 DEF m
  <1>5. CASE ~(y < n) /\ ~(x < g.maxX - 1)
    <2> DEFINE k == Move(g, x, 0, TRUE, TRUE)
    <2>1. NextColumn(m) = k
      BY <1>2, <1>5, 0 \in Int DEF NextColumn, Moving
    <2>2. InGrid(g, x, 0)
      BY <1>1, <1>5 DEF InGrid
    <2>3. Lands(k, g) /\ k.done
      BY <2>2, 0 \in Int, LeavingLands
    <2> HIDE DEF k
    <2>4. NextRow(k, d) = k
      BY <2>3, DoneStays
    <2> QED
      BY <2>1, <2>3, <2>4 DEF m
  <1> QED
    BY <1>3, <1>4, <1>5

\* From above the first row it goes to the bottom of the previous column.
LEMMA PreviousColumnLands ==
  ASSUME NEW A, NEW g \in Pane(A), g.rows # << >>, NEW d \in {1, -1}, NEW x \in Int, NEW y \in Int,
         \/ x \in 0 .. g.maxX - 1 /\ y \in -2 .. Len(g.rows)
         \/ x \in 0 .. g.maxX /\ y \in 0 .. Len(g.rows) - 1
  PROVE  Lands(NextRow(NextColumn(PreviousColumn(Stay(g, x, y))), d), g)
  <1> DEFINE m == Stay(g, x, y)
             n == Len(g.rows)
  <1>1. n \in Nat \ {0} /\ g.maxX \in Nat \ {0} /\ g \in Group(A)
    BY PaneParts DEF Pane
  <1>2. Moving(m, g, x, y)
    BY <1>1, StayParts
  <1> HIDE DEF m
  <1>3. CASE y >= 0
    <2>1. PreviousColumn(m) = m
      BY <1>2, <1>3 DEF PreviousColumn, Moving
    <2>2. (x \in 0 .. g.maxX - 1 /\ y \in 0 .. n) \/ (x \in 0 .. g.maxX /\ y \in 0 .. n - 1)
      BY <1>1, <1>3
    <2>3. Lands(NextRow(NextColumn(m), d), g)
      BY <2>2, NextColumnLands DEF m
    <2> QED
      BY <2>1, <2>3 DEF m
  <1>4. CASE ~(y >= 0) /\ x = 0
    <2> DEFINE k == Move(g, 0, 0, TRUE, FALSE)
    <2>1. PreviousColumn(m) = k
      BY <1>2, <1>4, 0 \in Int DEF PreviousColumn, Moving
    <2>2. InGrid(g, 0, 0)
      BY <1>1 DEF InGrid
    <2>3. Lands(k, g) /\ k.done
      BY <2>2, 0 \in Int, LeavingLands
    <2> HIDE DEF k
    <2>4. NextRow(k, d) = k /\ NextColumn(k) = k
      BY <2>3, DoneStays
    <2> QED
      BY <2>1, <2>3, <2>4 DEF m
  <1>5. CASE ~(y >= 0) /\ x # 0
    <2>1. x - 1 \in Int /\ n - 1 \in Int /\ x - 1 \in 0 .. g.maxX - 1 /\ n - 1 \in 0 .. n
      BY <1>1, <1>5
    <2>2. PreviousColumn(m) = Stay(g, x - 1, n - 1)
      BY ZenonT(30), <1>2, <1>5, <2>1 DEF PreviousColumn, Moving
    <2>3. Lands(NextRow(NextColumn(Stay(g, x - 1, n - 1)), d), g)
      BY <2>1, NextColumnLands
    <2> QED
      BY <2>2, <2>3 DEF m
  <1> QED
    BY <1>3, <1>4, <1>5

\* From left of the first column it goes to the end of the previous row.
LEMMA PreviousRowLands ==
  ASSUME NEW A, NEW g \in Pane(A), g.rows # << >>, NEW d \in {1, -1}, NEW x \in Int, NEW y \in Int,
         \/ x \in 0 .. g.maxX - 1 /\ y \in -2 .. Len(g.rows)
         \/ x \in -2 .. g.maxX /\ y \in 0 .. Len(g.rows) - 1
  PROVE  Lands(NextRow(NextColumn(PreviousColumn(PreviousRow(Stay(g, x, y)))), d), g)
  <1> DEFINE m == Stay(g, x, y)
             n == Len(g.rows)
  <1>1. /\ n \in Nat \ {0} /\ g.maxX \in Nat \ {0} /\ g \in Group(A)
        /\ \A v \in 0 .. n - 1 : LastX(g, v) \in 0 .. g.maxX - 1
    BY PaneParts DEF Pane
  <1>2. Moving(m, g, x, y)
    BY <1>1, StayParts
  <1> HIDE DEF m
  <1>3. CASE x >= 0
    <2>1. PreviousRow(m) = m
      BY <1>2, <1>3 DEF PreviousRow, Moving
    <2>2. (x \in 0 .. g.maxX - 1 /\ y \in -2 .. n) \/ (x \in 0 .. g.maxX /\ y \in 0 .. n - 1)
      BY <1>1, <1>3
    <2>3. Lands(NextRow(NextColumn(PreviousColumn(m)), d), g)
      BY <2>2, PreviousColumnLands DEF m
    <2> QED
      BY <2>1, <2>3 DEF m
  <1>4. CASE ~(x >= 0) /\ y = 0
    <2> DEFINE k == Move(g, 0, 0, TRUE, FALSE)
    <2>1. PreviousRow(m) = k
      BY <1>2, <1>4, 0 \in Int DEF PreviousRow, Moving
    <2>2. InGrid(g, 0, 0)
      BY <1>1 DEF InGrid
    <2>3. Lands(k, g) /\ k.done
      BY <2>2, 0 \in Int, LeavingLands
    <2> HIDE DEF k
    <2>4. NextRow(k, d) = k /\ NextColumn(k) = k /\ PreviousColumn(k) = k
      BY <2>3, DoneStays
    <2> QED
      BY <2>1, <2>3, <2>4 DEF m
  <1>5. CASE ~(x >= 0) /\ y # 0
    <2> DEFINE u == LastX(g, y - 1)
    <2>1. y - 1 \in 0 .. n - 1 /\ y - 1 \in Int
      BY <1>1, <1>5
    <2>2. u \in 0 .. g.maxX - 1
      BY <1>1, <2>1
    <2>3. u \in Int /\ y - 1 \in -2 .. n
      BY <1>1, <2>1, <2>2
    <2>4. PreviousRow(m) = Stay(g, u, y - 1)
      BY ZenonT(30), <1>2, <1>5, <2>1, <2>3 DEF PreviousRow, Moving
    <2> HIDE DEF u
    <2>5. Lands(NextRow(NextColumn(PreviousColumn(Stay(g, u, y - 1))), d), g)
      BY <2>1, <2>2, <2>3, PreviousColumnLands
    <2> QED
      BY <2>4, <2>5 DEF m
  <1> QED
    BY <1>3, <1>4, <1>5

\* A step of the selector, from wherever it is, lands.
LEMMA MoveLands ==
  ASSUME NEW A, NEW g \in Pane(A), g.rows # << >>, NEW d \in {1, -1}, NEW key
  PROVE  Lands(MoveBy(g, d, key), g)
  <1> DEFINE n == Len(g.rows)
  <1>1. /\ n \in Nat \ {0} /\ g.maxX \in Nat \ {0} /\ g.posX \in Int /\ g.posY \in Int
        /\ Fresh(g) \/ InGrid(g, g.posX, g.posY)
    BY PaneParts DEF Pane, Laid
  <1>2. Lands(moveSelector(g, 0, d), g)
    <2> DEFINE x == g.posX + 0 + (IF Fresh(g) THEN 1 ELSE 0)
               y == g.posY + d + 0
    <2>1. moveSelector(g, 0, d)
            = NextRow(NextColumn(PreviousColumn(PreviousRow(Stay(g, x, y)))), 0 + d)
      BY DEF moveSelector, Fresh
    <2>2. x \in Int /\ y \in Int /\ x \in 0 .. g.maxX - 1 /\ y \in -2 .. n /\ 0 + d = d
      <3>1. CASE Fresh(g)
        BY <1>1, <3>1 DEF Fresh
      <3>2. CASE ~Fresh(g)
        BY <1>1, <3>2 DEF InGrid
      <3> QED
        BY <3>1, <3>2
    <2> HIDE DEF x, y
    <2> QED
      BY <2>1, <2>2, PreviousRowLands
  <1>3. Lands(moveSelector(g, d, 0), g)
    <2> DEFINE x == g.posX + d + 0
               y == g.posY + 0 + (IF Fresh(g) THEN 1 ELSE 0)
    <2>1. moveSelector(g, d, 0)
            = NextRow(NextColumn(PreviousColumn(PreviousRow(Stay(g, x, y)))), d + 0)
      BY DEF moveSelector, Fresh
    <2>2. x \in Int /\ y \in Int /\ x \in -2 .. g.maxX /\ y \in 0 .. n - 1 /\ d + 0 = d
      <3>1. CASE Fresh(g)
        BY <1>1, <3>1 DEF Fresh
      <3>2. CASE ~Fresh(g)
        BY <1>1, <3>2 DEF InGrid
      <3> QED
        BY <3>1, <3>2
    <2> HIDE DEF x, y
    <2> QED
      BY <2>1, <2>2, PreviousRowLands
  <1> QED
    BY <1>2, <1>3 DEF MoveBy

\* The selector of a group with candidates is on one of them, or unused.
Steady(g) == g.rows # << >> /\ (Fresh(g) \/ Selectable(g, g.posX, g.posY))

\* Moving the selector to a candidate makes the group steady.
LEMMA At2Steady ==
  ASSUME NEW A, NEW g \in Pane(A), g.rows # << >>, NEW x, NEW y, Selectable(g, x, y)
  PROVE  At2(g, x, y) \in Pane(A) /\ At2(g, x, y).rows = g.rows /\ Steady(At2(g, x, y))
  <1> DEFINE h == At2(g, x, y)
  <1>1. InGrid(g, x, y) /\ x \in Int /\ y \in Int /\ g \in Group(A)
    BY SelectableInGrid DEF Pane
  <1>2. h \in Pane(A)
    BY <1>1, At2Laid
  <1>3. h.posX = x /\ h.posY = y /\ h.rows = g.rows
    BY <1>1, At2Parts
  <1> HIDE DEF h
  <1>4. Selectable(h, h.posX, h.posY)
    BY <1>3 DEF Selectable, LastX
  <1>5. Steady(h)
    BY <1>3, <1>4 DEF Steady
  <1> QED
    BY <1>2, <1>3, <1>5 DEF h

\* A move that has landed leaves the group as it was but for the selector.
LEMMA LandsGives ==
  ASSUME NEW A, NEW g \in Pane(A), g.rows # << >>, NEW m, Lands(m, g)
  PROVE  m.g \in Pane(A) /\ m.g.rows = g.rows /\ (~m.done => Steady(m.g))
  <1>1. PICK x \in Int, y \in Int :
          /\ InGrid(g, x, y)
          /\ \/ m = Move(g, x, y, TRUE, TRUE)
             \/ m = Move(g, x, y, TRUE, FALSE)
             \/ m = Stay(g, x, y) /\ Selectable(g, x, y)
    BY DEF Lands
  <1>2. m.g = At2(g, x, y) /\ (~m.done => Selectable(g, x, y))
    BY ZenonT(30), <1>1, MoveParts
  <1>3. At2(g, x, y) \in Pane(A) /\ At2(g, x, y).rows = g.rows
    BY <1>1, At2Laid, At2Parts DEF Pane
  <1>4. ~m.done => Steady(At2(g, x, y))
    BY <1>2, At2Steady
  <1> QED
    BY <1>2, <1>3, <1>4

\* A group is entered on a candidate, by its first cell,
LEMMA FirstCellSteady ==
  ASSUME NEW A, NEW g \in Pane(A), g.rows # << >>
  PROVE  firstCell(g) \in Pane(A) /\ firstCell(g).rows = g.rows /\ Steady(firstCell(g))
  <1>1. Selectable(g, 0, 0)
    BY PaneParts DEF Selectable
  <1> QED
    BY <1>1, At2Steady DEF firstCell

\* or by its last one.
LEMMA LastCellSteady ==
  ASSUME NEW A, NEW g \in Pane(A), g.rows # << >>
  PROVE  lastCell(g) \in Pane(A) /\ lastCell(g).rows = g.rows /\ Steady(lastCell(g))
  <1> DEFINE n == Len(g.rows)
             end == n - 1
             c == g.maxX - 1
  <1>1. /\ n \in Nat \ {0} /\ g.maxX \in Nat \ {0} /\ end \in 0 .. n - 1 /\ end \in Int /\ c \in Int
        /\ LastX(g, end) \in Nat
    <2>1. n \in Nat \ {0} /\ g.maxX \in Nat \ {0}
      BY PaneParts
    <2>2. end \in 0 .. n - 1
      BY <2>1
    <2>3. LastX(g, end) \in 0 .. g.maxX - 1
      <3> HIDE DEF end
      <3> QED
        BY <2>2, PaneParts
    <2> QED
      BY <2>1, <2>2, <2>3
  <1>2. CASE ~g.aliased
    <2>1. lastCell(g) = At2(g, LastX(g, end), end)
      BY <1>2 DEF lastCell
    <2>2. Selectable(g, LastX(g, end), end)
      BY <1>1 DEF Selectable
    <2> QED
      BY <2>1, <2>2, At2Steady
  <1>3. CASE g.aliased /\ Selectable(g, c, end)
    <2>1. lastCell(g) = At2(g, c, end)
      BY <1>3 DEF lastCell
    <2> QED
      BY <1>3, <2>1, At2Steady
  <1>4. CASE g.aliased /\ ~Selectable(g, c, end)
    <2> DEFINE m == findFirstCandidate(At2(g, c, end), -1)
    <2>1. lastCell(g) = m.g
      BY <1>4 DEF lastCell
    <2>2. c * n + end > 0
      <3>1. Selectable(g, 0, 0)
        BY PaneParts DEF Selectable
      <3>2. c # 0 \/ end # 0
        BY <1>4, <3>1
      <3>3. c \in Nat /\ end \in Nat
        BY <1>1
      <3> HIDE DEF c, end, n
      <3>4. c * n \in Nat /\ (c # 0 => c * n > 0)
        BY <1>1, <3>3
      <3> QED
        BY <3>2, <3>3, <3>4
    <2>3. Lands(m, g) /\ ~m.done
      BY <1>1, <2>2, -1 \in {1, -1}, FindLands
    <2> HIDE DEF m
    <2>4. m.g \in Pane(A) /\ m.g.rows = g.rows /\ Steady(m.g)
      BY <2>3, LandsGives
    <2> QED
      BY <2>1, <2>4
  <1> QED
    BY <1>2, <1>3, <1>4

\* The candidate that the selector is on.
LEMMA SelectedCellGives ==
  ASSUME NEW A, NEW g \in Pane(A), Steady(g)
  PROVE  SelectedCell(g) \in A
  <1>1. /\ g.rows # << >> /\ Len(g.rows) \in Nat \ {0}
        /\ \A y \in 0 .. Len(g.rows) - 1 : LastX(g, y) \in 0 .. g.maxX - 1
        /\ \A y \in 0 .. Len(g.rows) - 1 : \A x \in 0 .. LastX(g, y) : g.rows[y + 1][x + 1] \in A
        /\ g.maxX \in Nat
    BY PaneParts DEF Steady
  <1>2. CASE g.posX = -1 \/ g.posY = -1
    <2>1. 0 \in 0 .. Len(g.rows) - 1
      BY <1>1
    <2>2. LastX(g, 0) \in 0 .. g.maxX - 1
      BY <1>1, <2>1
    <2>3. 0 \in 0 .. LastX(g, 0)
      BY <1>1, <2>2
    <2>4. g.rows[0 + 1][0 + 1] \in A
      BY <1>1, <2>1, <2>3
    <2> QED
      BY <1>2, <2>4 DEF SelectedCell
  <1>3. CASE ~(g.posX = -1 \/ g.posY = -1)
    <2>1. Selectable(g, g.posX, g.posY)
      BY <1>3 DEF Steady, Fresh
    <2>2. g.posY \in 0 .. Len(g.rows) - 1 /\ g.posX \in 0 .. LastX(g, g.posY)
      BY <2>1 DEF Selectable
    <2>3. g.rows[g.posY + 1][g.posX + 1] \in A
      BY <1>1, <2>2
    <2> QED
      BY <1>3, <2>3 DEF SelectedCell
  <1> QED
    BY <1>2, <1>3

-----------------------------------------------------------------------------
(* From group to group                                                     *)

\* Whole turns do not count.
LEMMA WholeTurns ==
  ASSUME NEW n \in Nat \ {0}, NEW a \in 0 .. n - 1, NEW q \in Int
  PROVE  (a + q * n) % n = a
  <1> DEFINE t == a + q * n
             r == t % n
             p == t \div n
  <1>1. t \in Int /\ q * n \in Int
    OBVIOUS
  <1>2. r \in 0 .. n - 1 /\ p \in Int /\ t = n * p + r
    <2> HIDE DEF t
    <2> QED
      BY <1>1
  <1> HIDE DEF r, p
  <1>3. CASE p = q
    <2>1. n * p = q * n
      BY <1>2, <1>3
    <2>2. t = a + q * n
      OBVIOUS
    <2> DEFINE u == n * p
               v == q * n
    <2>3. u = v /\ t = u + r /\ t = a + v /\ u \in Int /\ v \in Int
      BY <1>1, <1>2, <2>1, <2>2
    <2> HIDE DEF u, v, t
    <2>4. r = a
      BY <1>2, <2>3
    <2> QED
      BY <2>4 DEF r, t
  <1>4. CASE p > q
    <2>1. n * p >= n * q + n
      <3>1. p >= q + 1
        BY <1>2, <1>4
      <3>2. n * p >= n * (q + 1)
        BY <1>2, <3>1
      <3>3. n * (q + 1) = n * q + n
        OBVIOUS
      <3> QED
        BY <3>2, <3>3
    <2>2. n * q = q * n /\ n * p \in Int
      BY <1>2
    <2> DEFINE u == n * p
               v == q * n
    <2>3. u >= v + n /\ a + v = u + r /\ u \in Int /\ v \in Int
      BY <1>1, <1>2, <2>1, <2>2
    <2> HIDE DEF u, v, t
    <2> QED
      BY <1>2, <2>3
  <1>5. CASE p < q
    <2>1. n * q >= n * p + n
      <3>1. q >= p + 1
        BY <1>2, <1>5
      <3>2. n * q >= n * (p + 1)
        BY <1>2, <3>1
      <3>3. n * (p + 1) = n * p + n
        BY <1>2
      <3> QED
        BY <3>2, <3>3
    <2>2. n * q = q * n /\ n * p \in Int
      BY <1>2
    <2> DEFINE u == n * p
               v == q * n
    <2>3. v >= u + n /\ a + v = u + r /\ u \in Int /\ v \in Int
      BY <1>1, <1>2, <2>1, <2>2
    <2> HIDE DEF u, v, t
    <2> QED
      BY <1>2, <2>3
  <1> QED
    BY <1>2, <1>3, <1>4, <1>5

\* From any group, all groups are within one turn, forwards and backwards.
LEMMA WithinOneTurn ==
  ASSUME NEW n \in Nat \ {0}, NEW c \in 1 .. n, NEW k \in 1 .. n, NEW d \in {1, -1}
  PROVE  \E j \in 1 .. n : 1 + ((c - 1 + d * j + n * n) % n) = k
  <1>1. n * n \in Int /\ (n + 1) * n = n * n + n /\ (n - 1) * n = n * n - n
    OBVIOUS
  <1>2. k - 1 \in 0 .. n - 1
    OBVIOUS
  <1>3. /\ (k - 1 + n * n) % n = k - 1
        /\ (k - 1 + (n + 1) * n) % n = k - 1
        /\ (k - 1 + (n - 1) * n) % n = k - 1
    BY <1>2, WholeTurns
  <1> DEFINE nn == n * n
             j == IF d = 1 THEN IF k > c THEN k - c ELSE k - c + n
                  ELSE IF c > k THEN c - k ELSE c - k + n
             t == c - 1 + d * j + nn
  <1>4. nn \in Int /\ (n + 1) * n = nn + n /\ (n - 1) * n = nn - n
    BY <1>1
  <1> HIDE DEF nn
  <1>5. j \in 1 .. n
    OBVIOUS
  <1>6. t = k - 1 + nn \/ t = k - 1 + nn + n \/ t = k - 1 + nn - n
    <2>1. CASE d = 1
      BY <1>4, <2>1
    <2>2. CASE d = -1
      BY <1>4, <2>2
    <2> QED
      BY <2>1, <2>2
  <1>7. /\ k - 1 + nn + n = k - 1 + (n + 1) * n
        /\ k - 1 + nn - n = k - 1 + (n - 1) * n
    BY <1>4
  <1>8. t % n = k - 1
    <2> HIDE DEF t
    <2> QED
      BY <1>3, <1>6, <1>7 DEF nn
  <1>9. 1 + ((c - 1 + d * j + n * n) % n) = k
    BY <1>8 DEF nn
  <1> QED
    BY <1>5, <1>9

\* Cycling over the groups stops at one that has candidates.
LEMMA CycleStops ==
  ASSUME NEW S, NEW gs \in Seq(S), NEW cur \in 0 .. Len(gs), NEW d \in {1, -1}, NonEmpty(gs) # {}
  PROVE  CycleGroup(gs, cur, d) \in NonEmpty(gs)
  <1> DEFINE n == Len(gs)
             At1(i) == 1 + ((cur - 1 + d * i + n * n) % n)
             J == {j \in 1 .. n : At1(j) \in NonEmpty(gs)}
  <1>1. n \in Nat /\ DOMAIN gs = 1 .. n
    BY LenProperties
  <1>2. NonEmpty(gs) \subseteq 1 .. n
    BY <1>1 DEF NonEmpty
  <1>3. PICK k \in NonEmpty(gs) : TRUE
    OBVIOUS
  <1>4. k \in 1 .. n /\ n # 0
    BY <1>1, <1>2
  <1>5. CASE cur = 0
    <2>1. NonEmpty(gs) \subseteq Nat
      BY <1>1, <1>2
    <2>2. Min(NonEmpty(gs)) \in NonEmpty(gs)
      BY <2>1, MinInSet
    <2> QED
      BY <1>5, <2>2 DEF CycleGroup
  <1>6. CASE cur # 0
    <2>1. CycleGroup(gs, cur, d) = At1(Min(J))
      BY <1>6 DEF CycleGroup
    <2>2. cur \in 1 .. n
      BY <1>1, <1>6
    <2>3. PICK j \in 1 .. n : 1 + ((cur - 1 + d * j + n * n) % n) = k
      <3> HIDE DEF n
      <3> QED
        BY <1>1, <1>4, <2>2, WithinOneTurn
    <2>4. j \in J
      BY <2>3
    <2>5. J \subseteq 1 .. n
      OBVIOUS
    <2>6. \A i \in J : At1(i) \in NonEmpty(gs)
      OBVIOUS
    <2> HIDE DEF J, At1
    <2>7. J \subseteq Nat /\ J # {}
      BY <1>1, <2>4, <2>5
    <2>8. Min(J) \in J
      BY <2>7, MinInSet
    <2> QED
      BY <2>1, <2>6, <2>8
  <1> QED
    BY <1>5, <1>6

\* The current group has candidates when it is found by looking for one.
LEMMA CurrentGroupGives ==
  ASSUME NEW S, NEW gs \in Seq(S), NEW cur \in 0 .. Len(gs)
  PROVE  /\ currentGroup(gs, cur) \in 0 .. Len(gs)
         /\ cur # 0 => currentGroup(gs, cur) = cur
         /\ cur = 0 => IF NonEmpty(gs) = {} THEN currentGroup(gs, cur) = 0
                       ELSE currentGroup(gs, cur) \in NonEmpty(gs)
  <1>1. Len(gs) \in Nat /\ DOMAIN gs = 1 .. Len(gs)
    BY LenProperties
  <1>2. NonEmpty(gs) \subseteq 1 .. Len(gs)
    BY <1>1 DEF NonEmpty
  <1>3. CASE cur # 0 \/ NonEmpty(gs) = {}
    BY <1>3 DEF currentGroup
  <1>4. CASE ~(cur # 0 \/ NonEmpty(gs) = {})
    <2>1. NonEmpty(gs) \subseteq Nat
      BY <1>1, <1>2
    <2>2. Min(NonEmpty(gs)) \in NonEmpty(gs)
      BY <1>4, <2>1, MinInSet
    <2>3. Min(NonEmpty(gs)) \in 0 .. Len(gs)
      BY <1>1, <1>2, <2>2
    <2> QED
      BY <1>4, <2>2, <2>3 DEF currentGroup
  <1> QED
    BY <1>3, <1>4

-----------------------------------------------------------------------------
(* Lines                                                                   *)

\* CheckAppend brings any position onto the line, and leaves one that is.
LEMMA AppendRange ==
  ASSUME NEW l \in Line, NEW p \in Int
  PROVE  CheckAppend(l, p) \in 0 .. Len(l) /\ (p \in 0 .. Len(l) => CheckAppend(l, p) = p)
  BY DEF CheckAppend, checkPosRange, Line

\* CheckCommand brings any position onto the line.
LEMMA CommandRange ==
  ASSUME NEW l \in Line, NEW p \in Int
  PROVE  CheckCommand(l, p) \in 0 .. Len(l)
  <1>1. Len(l) \in Nat
    BY DEF Line
  <1>2. ASSUME NEW q \in 0 .. Len(l) PROVE offEnd(l, q) \in 0 .. Len(l)
    <2>1. ASSUME Len(l) = 0 PROVE OnEmptyLine(l, q)
      BY <2>1 DEF OnEmptyLine
    <2>2. QED
      BY <1>1, <2>1 DEF offEnd
  <1>3. ASSUME NEW q \in 0 .. Len(l) PROVE offNewline(l, q) \in 0 .. Len(l)
    BY <1>1 DEF offNewline
  <1>4. QED
    BY <1>2, <1>3, AppendRange DEF CheckCommand

\* A slice of a line is one.
LEMMA SliceGives ==
  ASSUME NEW l \in Line, NEW a \in Int, NEW b \in Int, 0 <= a, b <= Len(l)
  PROVE  Slice(l, a, b) \in Line /\ (a <= b => Len(Slice(l, a, b)) = b - a)
  BY DEF Slice, Line

\* Lines are put together.
LEMMA JoinGives ==
  ASSUME NEW u \in Line, NEW v \in Line
  PROVE  u \o v \in Line /\ Len(u \o v) = Len(u) + Len(v) /\ Len(u) \in Nat /\ Len(v) \in Nat
  BY DEF Line

\* An insertion on the line makes it longer.
LEMMA InsertGives ==
  ASSUME NEW l \in Line, NEW p \in 0 .. Len(l), NEW chars \in Line
  PROVE  /\ Insert(l, p, chars) = Slice(l, 0, p) \o chars \o Slice(l, p, Len(l))
         /\ Insert(l, p, chars) \in Line /\ Len(Insert(l, p, chars)) = Len(l) + Len(chars)
         /\ Len(l) \in Nat /\ Len(chars) \in Nat
  <1> DEFINE u == Slice(l, 0, p)
             v == Slice(l, p, Len(l))
  <1>1. Len(l) \in Nat
    BY DEF Line
  <1>2. u \in Line /\ v \in Line /\ Len(u) = p /\ Len(v) = Len(l) - p
    <2>1. p \in Int /\ 0 \in Int /\ Len(l) \in Int /\ 0 <= p /\ p <= Len(l)
      BY <1>1
    <2>2. u \in Line /\ Len(u) = p - 0
      BY <2>1, SliceGives
    <2>3. v \in Line /\ Len(v) = Len(l) - p
      BY <2>1, SliceGives
    <2> QED
      BY <2>1, <2>2, <2>3
  <1>3. Insert(l, p, chars) = u \o chars \o v
    BY <1>1 DEF Insert
  <1> HIDE DEF u, v
  <1>4. u \o chars \in Line /\ Len(u \o chars) = p + Len(chars) /\ Len(chars) \in Nat
    BY <1>2, JoinGives
  <1> DEFINE w == u \o chars
  <1>5. w \in Line /\ Len(w) = p + Len(chars)
    BY <1>4
  <1>6. Insert(l, p, chars) = w \o v
    BY <1>3
  <1> HIDE DEF w
  <1>7. w \o v \in Line /\ Len(w \o v) = Len(w) + Len(v)
    BY <1>2, <1>5, JoinGives
  <1>8. Len(w) + Len(v) = Len(l) + Len(chars)
    BY <1>1, <1>2, <1>4, <1>5
  <1>9. Insert(l, p, chars) = Slice(l, 0, p) \o chars \o Slice(l, p, Len(l))
    BY <1>3 DEF u, v
  <1> QED
    BY <1>1, <1>4, <1>6, <1>7, <1>8, <1>9

\* A deletion makes it shorter.
LEMMA DeleteGives ==
  ASSUME NEW l \in Line, NEW a \in Nat, NEW b \in Nat, a <= b, b <= Len(l)
  PROVE  Delete(l, a, b) \in Line /\ Len(Delete(l, a, b)) = Len(l) - (b - a)
  <1>1. Len(l) \in Nat
    BY DEF Line
  <1>2. /\ Slice(l, 0, a) \in Line /\ Len(Slice(l, 0, a)) = a - 0
        /\ Slice(l, b, Len(l)) \in Line /\ Len(Slice(l, b, Len(l))) = Len(l) - b
    BY SMTT(30), <1>1, SliceGives
  <1>3. /\ Delete(l, a, b) \in Line
        /\ Len(Delete(l, a, b)) = Len(Slice(l, 0, a)) + Len(Slice(l, b, Len(l)))
    BY <1>2, JoinGives DEF Delete
  <1> QED
    BY <1>1, <1>2, <1>3

\* Cutting a rune leaves a line, one character shorter if there is one.
LEMMA CutRuneGives ==
  ASSUME NEW l \in Line, NEW p \in 0 .. Len(l)
  PROVE  /\ CutRune(l, p) \in Line
         /\ Len(l) # 0 => Len(CutRune(l, p)) = Len(l) - 1
  <1>1. Len(l) \in Nat
    BY DEF Line
  <1>2. CASE Len(l) = 0
    BY <1>2 DEF CutRune
  <1>3. CASE Len(l) # 0 /\ p = Len(l)
    <2>1. Delete(l, p - 1, p) \in Line /\ Len(Delete(l, p - 1, p)) = Len(l) - (p - (p - 1))
      <3>1. p - 1 \in Nat /\ p \in Nat /\ p - 1 <= p /\ p <= Len(l)
        BY <1>1, <1>3
      <3> QED
        BY <3>1, DeleteGives
    <2>2. CutRune(l, p) = Delete(l, p - 1, p)
      BY <1>1, <1>3 DEF CutRune
    <2> QED
      BY <1>1, <1>3, <2>1, <2>2
  <1>4. CASE Len(l) # 0 /\ p # Len(l)
    <2>1. Delete(l, p, p + 1) \in Line /\ Len(Delete(l, p, p + 1)) = Len(l) - (p + 1 - p)
      <3>1. p + 1 \in Nat /\ p \in Nat /\ p <= p + 1 /\ p + 1 <= Len(l)
        BY <1>1, <1>4
      <3> QED
        BY <3>1, DeleteGives
    <2>2. CutRune(l, p) = Delete(l, p, p + 1)
      BY <1>1, <1>4 DEF CutRune
    <2> QED
      BY <1>1, <1>4, <2>1, <2>2
  <1> QED
    BY <1>2, <1>3, <1>4

\* A cut from a position of the line.
LEMMA CutGives ==
  ASSUME NEW l \in Line, NEW p \in 0 .. Len(l), NEW k \in Nat
  PROVE  /\ Cut(l, p, p + k) \in Line
         /\ p + k <= Len(l) => Cut(l, p, p + k) = Delete(l, p, p + k)
  <1>1. Len(l) \in Nat
    BY DEF Line
  <1> DEFINE q == IF p + k > Len(l) THEN Len(l) ELSE p + k
  <1>2. q \in Nat /\ p \in Nat /\ p <= q /\ q <= Len(l) /\ (p + k <= Len(l) => q = p + k)
    BY <1>1
  <1>3. checkRange(l, p, p + k) = [bpos |-> p, epos |-> q]
    BY <1>1 DEF checkRange
  <1>4. Cut(l, p, p + k) = Delete(l, p, q)
    BY <1>1, <1>2, <1>3 DEF Cut
  <1> HIDE DEF q
  <1>5. Delete(l, p, q) \in Line
    BY <1>2, DeleteGives
  <1> QED
    BY <1>2, <1>4, <1>5

\* The word before the cursor is a line.
LEMMA WordGives ==
  ASSUME NEW l \in Line, NEW p \in 0 .. Len(l)
  PROVE  Word(l, p) \in Line
  <1> DEFINE c == IF p = 0 THEN 0 ELSE p - 1
             T == {i \in 0 .. c : \A j \in i .. c : ~IsBlank(At(l, j))}
             from == Min(T)
  <1>1. << >> \in Line /\ Len(l) \in Nat
    BY DEF Line
  <1>2. CASE l = << >> \/ IsBlank(At(l, c))
    <2>1. Word(l, p) = << >>
      BY <1>2 DEF Word
    <2> QED
      BY <1>1, <2>1
  <1>3. CASE ~(l = << >> \/ IsBlank(At(l, c)))
    <2>1. Word(l, p) = Slice(l, from, c + 1)
      BY <1>3 DEF Word
    <2>2. c \in 0 .. Len(l) - 1
      <3>1. Len(l) # 0
        BY <1>3, EmptySeq DEF Line
      <3> QED
        BY <1>1, <3>1
    <2>3. c \in T
      <3>1. \A j \in c .. c : j = c
        BY <2>2
      <3>2. c \in 0 .. c
        BY <2>2
      <3> QED
        BY <1>3, <3>1, <3>2
    <2>4. T \subseteq 0 .. c
      OBVIOUS
    <2> HIDE DEF T, c
    <2>5. T \subseteq Nat /\ T # {}
      BY <2>2, <2>3, <2>4
    <2>6. from \in T
      BY <2>5, MinInSet
    <2> HIDE DEF from
    <2>7. from \in 0 .. c
      BY <2>4, <2>6
    <2>8. from \in Int /\ 0 <= from /\ c + 1 \in Int /\ c + 1 <= Len(l)
      BY <1>1, <2>2, <2>7
    <2>9. Slice(l, from, c + 1) \in Line
      BY <2>8, SliceGives
    <2> QED
      BY <2>1, <2>9
  <1> QED
    BY <1>2, <1>3

-----------------------------------------------------------------------------
(* Candidates in the line                                                  *)

\* Groups of some candidates are groups.
LEMMA PanesAreMenus ==
  ASSUME NEW A, A \subseteq Candidate, NEW gs \in Seq(Pane(A))
  PROVE  gs \in Menus
  <1>1. Seq(A) \subseteq Seq(Candidate)
    OBVIOUS
  <1>2. NotEmpty(A) \subseteq NotEmpty(Candidate)
    BY <1>1 DEF NotEmpty
  <1>3. Seq(NotEmpty(A)) \subseteq Seq(NotEmpty(Candidate))
    BY <1>2
  <1>4. Group(A) \subseteq Group(Candidate)
    BY <1>3 DEF Group
  <1>5. Pane(A) \subseteq Group(Candidate)
    BY <1>4 DEF Pane
  <1> QED
    BY <1>5 DEF Menus

\* A line has finitely many wide characters.
LEMMA WideGives ==
  ASSUME NEW l \in Line
  PROVE  LET W == {i \in DOMAIN l : l[i] \in Wide}
         IN  IsFiniteSet(W) /\ Cardinality(W) \in Nat
  <1> DEFINE W == {i \in DOMAIN l : l[i] \in Wide}
             D == 1 .. Len(l)
  <1>1. DOMAIN l = D /\ Len(l) \in Int
    BY DEF Line
  <1>2. W \in SUBSET D
    BY <1>1
  <1>3. IsFiniteSet(D)
    BY <1>1, FS_Interval
  <1> HIDE DEF W, D
  <1>4. IsFiniteSet(W)
    BY <1>2, <1>3, FS_Subset
  <1>5. Cardinality(W) \in Nat
    BY <1>4, FS_CardinalityType
  <1> QED
    BY <1>4, <1>5 DEF W

\* The bytes of a line are a number; those of a prefix are no more.
LEMMA BytesGive ==
  ASSUME NEW l \in Line
  PROVE  Bytes(l) \in Nat
  <1>1. Len(l) \in Nat
    BY DEF Line
  <1> QED
    BY <1>1, WideGives DEF Bytes

LEMMA BytesNone == Bytes(<< >>) = 0
  <1>1. {i \in DOMAIN << >> : << >>[i] \in Wide} = {}
    OBVIOUS
  <1>2. Len(<< >>) = 0
    OBVIOUS
  <1> QED
    BY <1>1, <1>2, FS_EmptySet DEF Bytes

LEMMA BytesPrefix ==
  ASSUME NEW p \in Line, NEW v \in Line, IsPrefix(p, v)
  PROVE  Bytes(p) <= Bytes(v)
  <1> DEFINE P == {i \in DOMAIN p : p[i] \in Wide}
             V == {i \in DOMAIN v : v[i] \in Wide}
  <1>1. Len(p) \in Nat /\ Len(v) \in Nat /\ DOMAIN p = 1 .. Len(p) /\ DOMAIN v = 1 .. Len(v)
    BY DEF Line
  <1>2. Len(p) <= Len(v)
    BY DEF IsPrefix
  <1>3. ASSUME NEW i \in 1 .. Len(p) PROVE p[i] = v[i]
    <2>1. SubSeq(p, 1, Len(p)) = SubSeq(v, 1, Len(p))
      BY DEF IsPrefix
    <2>2. SubSeq(p, 1, Len(p))[i] = p[i] /\ SubSeq(v, 1, Len(p))[i] = v[i]
      BY <1>1, <1>2 DEF Line
    <2> QED
      BY <2>1, <2>2
  <1>4. P \in SUBSET V
    BY <1>1, <1>2, <1>3
  <1>5. IsFiniteSet(V) /\ Cardinality(V) \in Nat /\ Cardinality(P) \in Nat
    BY WideGives
  <1>6. Bytes(p) = Len(p) + Cardinality(P) /\ Bytes(v) = Len(v) + Cardinality(V)
    BY DEF Bytes
  <1> HIDE DEF P, V
  <1>7. Cardinality(P) <= Cardinality(V)
    BY <1>4, <1>5, FS_Subset
  <1> QED
    BY <1>1, <1>2, <1>5, <1>6, <1>7

\* The fields of a sound engine.
LEMMA SoundParts ==
  ASSUME NEW s, Sound(s)
  PROVE  /\ s \in Engine
         /\ s.line \in Line /\ s.pos \in Int /\ s.comp \in Shots /\ s.selected \in Line
         /\ s.prefix \in Line /\ s.groups \in Menus /\ s.cur \in Nat
         /\ s.comp.line \in Line /\ s.comp.pos \in Int
         /\ Len(s.line) \in Nat /\ Bytes(s.prefix) \in Nat /\ Len(s.groups) \in Nat
  <1>1. s \in Engine
    BY DEF Sound
  <1>2. /\ s.line \in Line /\ s.pos \in Int /\ s.comp \in Shots /\ s.selected \in Line
        /\ s.prefix \in Line /\ s.groups \in Menus /\ s.cur \in Nat
    BY <1>1 DEF Engine
  <1>3. s.comp.line \in Line /\ s.comp.pos \in Int
    BY <1>2 DEF Shots
  <1>4. Len(s.line) \in Nat /\ Bytes(s.prefix) \in Nat
    BY <1>2, BytesGive DEF Line
  <1>5. Len(s.groups) \in Nat
    BY <1>2 DEF Menus
  <1> QED
    BY <1>1, <1>2, <1>3, <1>4, <1>5

\* The engine r is s, but for some fields.
Fields ==
  {"line", "pos", "comp", "selected", "prefix", "groups", "cur", "cached", "auto", "local", "main",
   "nonInc", "buf", "regex", "insert", "replace", "startBuf", "startPos", "modeExit", "source",
   "options", "fault"}

AllBut(s, r, F) == \A f \in Fields \ F : r[f] = s[f]

\* The fields are what an engine is a function of.
LEMMA EngineDomain ==
  ASSUME NEW s \in Engine
  PROVE  DOMAIN s = Fields
  BY DEF Engine, Fields

\* A change of some fields is one of more.
LEMMA AllButMore ==
  ASSUME NEW s, NEW r, NEW F, NEW G, AllBut(s, r, F), F \subseteq G
  PROVE  AllBut(s, r, G)
  BY DEF AllBut

\* Completing gives a line with the cursor on it.
LEMMA CompleteGives ==
  ASSUME NEW s, Sound(s), NEW val \in Line
  PROVE  /\ Complete(s, val) \in [line : Line, pos : Int]
         /\ Complete(s, val).pos \in 0 .. Len(Complete(s, val).line)
  <1> DEFINE p == CheckAppend(s.line, s.pos - Bytes(s.prefix))
             l == Cut(s.line, p, p + Bytes(s.prefix))
             q == CheckAppend(l, p)
             c == [line |-> Insert(l, q, val), pos |-> q + Len(val)]
  <1>1. s.line \in Line /\ s.pos \in Int /\ s.prefix \in Line /\ Bytes(s.prefix) \in Nat
    BY SoundParts
  <1>2. p \in 0 .. Len(s.line)
    <2>1. s.pos - Bytes(s.prefix) \in Int
      BY <1>1
    <2> QED
      BY <1>1, <2>1, AppendRange
  <1>3. Complete(s, val) = c
    BY DEF Complete
  <1>4. p \in Int
    BY <1>1, <1>2 DEF Line
  <1> HIDE DEF p
  <1>5. l \in Line
    BY <1>1, <1>2, CutGives
  <1> HIDE DEF l
  <1>6. q \in 0 .. Len(l)
    BY <1>4, <1>5, AppendRange
  <1> HIDE DEF q
  <1>7. /\ Insert(l, q, val) \in Line /\ Len(Insert(l, q, val)) = Len(l) + Len(val)
        /\ Len(l) \in Nat /\ Len(val) \in Nat
    BY <1>5, <1>6, InsertGives
  <1>8. q + Len(val) \in 0 .. Len(Insert(l, q, val))
    BY <1>6, <1>7
  <1>9. c \in [line : Line, pos : Int] /\ c.pos \in 0 .. Len(c.line)
    BY <1>6, <1>7, <1>8
  <1> QED
    BY <1>3, <1>9

\* Setting the line keeps the cursor on it.
LEMMA SetLineSound ==
  ASSUME NEW s, Sound(s), NEW l \in Line, NEW p \in Int
  PROVE  /\ Sound(SetLine(s, l, p)) /\ AllBut(s, SetLine(s, l, p), {"line", "pos"})
         /\ SetLine(s, l, p).line = l
  <1> DEFINE q == CheckAppend(l, p)
             r == [s EXCEPT !.line = l, !.pos = q]
  <1>1. s \in Engine /\ DOMAIN s = Fields
    BY EngineDomain DEF Sound
  <1>2. q \in 0 .. Len(l) /\ q \in Int
    BY AppendRange DEF Line
  <1>3. SetLine(s, l, p) = r
    BY DEF SetLine
  <1> HIDE DEF q
  <1>4. r \in Engine
    BY <1>1, <1>2 DEF Engine
  <1>5. AllBut(s, r, {"line", "pos"})
    BY <1>1 DEF AllBut
  <1>6. r.line = l /\ r.pos = q
    BY <1>1 DEF Fields
  <1> HIDE DEF r
  <1>7. Sound(r)
    BY <1>2, <1>4, <1>5, <1>6 DEF Sound, AllBut, Fields
  <1> QED
    BY <1>3, <1>5, <1>6, <1>7

\* The candidate that is inserted is taken back.
LEMMA CancelLineSound ==
  ASSUME NEW s, Sound(s)
  PROVE  /\ Sound(cancelCompletedLine(s)) /\ AllBut(s, cancelCompletedLine(s), {"comp", "selected"})
         /\ cancelCompletedLine(s).selected = << >>
  <1> DEFINE r == [s EXCEPT !.comp = NoCompletion, !.selected = << >>]
  <1>1. s \in Engine /\ DOMAIN s = Fields
    BY EngineDomain DEF Sound
  <1>2. << >> \in Line /\ NoCompletion \in Shots /\ NoCompletion.pos \in 0 .. Len(NoCompletion.line)
    BY DEF Line, Shots, NoCompletion
  <1>3. cancelCompletedLine(s) = r
    BY DEF cancelCompletedLine
  <1>4. r \in Engine
    BY <1>1, <1>2 DEF Engine
  <1>5. AllBut(s, r, {"comp", "selected"})
    BY <1>1 DEF AllBut
  <1>6. r.comp = NoCompletion /\ r.selected = << >>
    BY <1>1 DEF Fields
  <1> HIDE DEF r
  <1>7. Sound(r)
    BY <1>2, <1>4, <1>5, <1>6 DEF Sound, AllBut, Fields
  <1> QED
    BY <1>3, <1>5, <1>6, <1>7

\* Setting fields that no part of Sound but the types mentions.
LEMMA SoundAside ==
  ASSUME NEW s, Sound(s), NEW r \in Engine, NEW F, AllBut(s, r, F),
         {"line", "pos", "comp", "cur", "groups", "prefix"} \cap F = {}
  PROVE  Sound(r)
  <1>1. /\ r.line = s.line /\ r.pos = s.pos /\ r.comp = s.comp /\ r.cur = s.cur
        /\ r.groups = s.groups /\ r.prefix = s.prefix
    BY DEF AllBut, Fields
  <1> QED
    BY <1>1 DEF Sound

\* What Cancel leaves: no candidate is inserted any more, unless it is put in
\* the line.
LEMMA CancelSound ==
  ASSUME NEW s, Sound(s), NEW inserted \in BOOLEAN, NEW cached \in BOOLEAN
  PROVE  LET r == Cancel(s, inserted, cached)
         IN  /\ Sound(r) /\ AllBut(s, r, {"line", "pos", "comp", "selected", "cached"})
             /\ r.selected = << >>
             /\ inserted => AllBut(s, r, {"comp", "selected", "cached"})
             /\ ~inserted => r.line = Shown(s).line
             /\ ~IsInserting(s) => AllBut(s, r, {"comp", "selected", "cached"})
  <1> DEFINE ca == IF cached THEN "" ELSE s.cached
             a == [s EXCEPT !.cached = ca]
             b == SetLine(a, a.comp.line, a.comp.pos)
             r == Cancel(s, inserted, cached)
  <1>1. s \in Engine /\ DOMAIN s = Fields
    BY EngineDomain DEF Sound
  <1>2. ca \in Cached
    BY <1>1 DEF Engine, Cached
  <1>3. r = IF ~IsInserting(a) /\ ~inserted THEN a
            ELSE IF inserted THEN cancelCompletedLine(a)
            ELSE cancelCompletedLine(b)
    BY <1>1 DEF Cancel, Fields
  <1> HIDE DEF ca
  <1>4. a \in Engine /\ AllBut(s, a, {"cached"})
    BY <1>1, <1>2 DEF Engine, AllBut
  <1> HIDE DEF a
  <1>5. Sound(a)
    BY <1>4, SoundAside
  <1>6. a.comp.line \in Line /\ a.comp.pos \in Int
    BY <1>5, SoundParts
  <1>7. Sound(b) /\ AllBut(a, b, {"line", "pos"}) /\ b.line = a.comp.line
    BY <1>5, <1>6, SetLineSound
  <1> HIDE DEF b
  <1>8. /\ a.comp = s.comp /\ a.selected = s.selected /\ a.line = s.line
        /\ (IsInserting(a) <=> IsInserting(s))
    BY <1>4 DEF AllBut, Fields, IsInserting
  <1> HIDE DEF r
  <1>9. CASE ~IsInserting(a) /\ ~inserted
    <2>1. r = a /\ a.selected = << >>
      BY <1>3, <1>9 DEF IsInserting
    <2>2. AllBut(s, r, {"comp", "selected", "cached"})
      BY <1>4, <2>1 DEF AllBut
    <2>3. AllBut(s, r, {"line", "pos", "comp", "selected", "cached"})
      BY <2>2, AllButMore
    <2>4. r.line = Shown(s).line
      BY <1>8, <1>9, <2>1 DEF Shown
    <2> QED
      BY <1>5, <2>1, <2>2, <2>3, <2>4 DEF r
  <1>10. CASE inserted
    <2>1. r = cancelCompletedLine(a)
      BY <1>3, <1>10
    <2>2. Sound(r) /\ AllBut(a, r, {"comp", "selected"}) /\ r.selected = << >>
      BY <1>5, <2>1, CancelLineSound
    <2>3. AllBut(s, r, {"comp", "selected", "cached"})
      BY <1>4, <2>2 DEF AllBut
    <2>4. AllBut(s, r, {"line", "pos", "comp", "selected", "cached"})
      BY <2>3, AllButMore
    <2> QED
      BY <1>10, <2>2, <2>3, <2>4 DEF r
  <1>11. CASE ~inserted /\ IsInserting(a)
    <2>1. r = cancelCompletedLine(b)
      BY <1>3, <1>11
    <2>2. Sound(r) /\ AllBut(b, r, {"comp", "selected"}) /\ r.selected = << >>
      BY <1>7, <2>1, CancelLineSound
    <2>3. AllBut(s, r, {"line", "pos", "comp", "selected", "cached"})
      BY <1>4, <1>7, <2>2 DEF AllBut
    <2>4. r.line = Shown(s).line
      BY <1>7, <1>8, <1>11, <2>2 DEF AllBut, Fields, Shown
    <2> QED
      BY <1>8, <1>11, <2>2, <2>3, <2>4 DEF r
  <1> QED
    BY <1>9, <1>10, <1>11

\* What resetValues leaves.
LEMMA ResetValuesSound ==
  ASSUME NEW s, Sound(s), NEW comps \in BOOLEAN
  PROVE  LET r == resetValues(s, comps)
         IN  /\ Sound(r) /\ AllBut(s, r, {"selected", "comp", "groups", "cur"})
             /\ r.selected = << >> /\ r.groups = IF comps THEN << >> ELSE s.groups
  <1> DEFINE gs == IF comps THEN << >> ELSE s.groups
             c == IF comps \/ s.groups = << >> THEN 0 ELSE 1
             r == [s EXCEPT !.selected = << >>, !.comp = NoCompletion, !.groups = gs, !.cur = c]
  <1>1. s \in Engine /\ DOMAIN s = Fields
    BY EngineDomain DEF Sound
  <1>2. resetValues(s, comps) = r
    BY <1>1 DEF resetValues, Fields
  <1>3. << >> \in Line /\ NoCompletion \in Shots /\ NoCompletion.pos \in 0 .. Len(NoCompletion.line)
    BY DEF Line, Shots, NoCompletion
  <1>4. s.groups \in Menus /\ Len(s.groups) \in Nat /\ s.groups \in Seq(Pane(Fit(s.prefix)))
    BY SoundParts DEF Sound
  <1>5. gs \in Menus /\ c \in Nat /\ gs \in Seq(Pane(Fit(s.prefix)))
    <2>1. << >> \in Menus /\ << >> \in Seq(Pane(Fit(s.prefix)))
      BY DEF Menus
    <2>2. gs = << >> \/ gs = s.groups
      OBVIOUS
    <2> QED
      BY <1>4, <2>1, <2>2
  <1>6. c \in 0 .. Len(gs)
    <2>1. CASE comps \/ s.groups = << >>
      BY <1>4, <2>1
    <2>2. CASE ~(comps \/ s.groups = << >>)
      <3>1. Len(s.groups) # 0
        BY <1>4, <2>2, EmptySeq
      <3> QED
        BY <1>4, <2>2, <3>1
    <2> QED
      BY <2>1, <2>2
  <1>7. gs = IF comps THEN << >> ELSE s.groups
    OBVIOUS
  <1> HIDE DEF gs, c
  <1>8. r \in Engine
    BY <1>1, <1>3, <1>5 DEF Engine
  <1>9. AllBut(s, r, {"selected", "comp", "groups", "cur"})
    BY <1>1 DEF AllBut
  <1>10. r.selected = << >> /\ r.comp = NoCompletion /\ r.groups = gs /\ r.cur = c
    BY <1>1 DEF Fields
  <1> HIDE DEF r
  <1>11. Sound(r)
    BY <1>3, <1>5, <1>6, <1>8, <1>9, <1>10 DEF Sound, AllBut, Fields
  <1> QED
    BY <1>2, <1>7, <1>9, <1>10, <1>11

\* What ClearMenu leaves.
LEMMA ClearMenuSound ==
  ASSUME NEW s, Sound(s), NEW comps \in BOOLEAN
  PROVE  LET r == ClearMenu(s, comps)
         IN  /\ Sound(r) /\ AllBut(s, r, {"selected", "comp", "groups", "cur", "local"})
             /\ r.selected = << >> /\ r.groups = IF comps THEN << >> ELSE s.groups
             /\ r.local = IF s.local = "menu-select" THEN "" ELSE s.local
  <1> DEFINE a == resetValues(s, comps)
             lo == IF a.local = "menu-select" THEN "" ELSE a.local
             r == [a EXCEPT !.local = lo]
  <1>1. /\ Sound(a) /\ AllBut(s, a, {"selected", "comp", "groups", "cur"})
        /\ a.selected = << >> /\ a.groups = IF comps THEN << >> ELSE s.groups
    BY ResetValuesSound
  <1> HIDE DEF a
  <1>2. a \in Engine /\ DOMAIN a = Fields
    BY <1>1, EngineDomain DEF Sound
  <1>3. ClearMenu(s, comps) = r
    BY <1>2 DEF ClearMenu, a, Fields
  <1>4. lo \in Locals /\ lo = IF s.local = "menu-select" THEN "" ELSE s.local
    BY <1>1, <1>2 DEF Engine, Locals, AllBut, Fields
  <1> HIDE DEF lo
  <1>5. r \in Engine
    BY <1>2, <1>4 DEF Engine
  <1>6. AllBut(a, r, {"local"})
    BY <1>2 DEF AllBut
  <1>7. r.local = lo /\ r.selected = a.selected /\ r.groups = a.groups
    BY <1>2 DEF Fields
  <1> HIDE DEF r
  <1>8. Sound(r)
    BY <1>1, <1>5, <1>6, SoundAside
  <1>9. AllBut(s, r, {"selected", "comp", "groups", "cur", "local"})
    BY <1>1, <1>6 DEF AllBut
  <1> QED
    BY <1>1, <1>3, <1>4, <1>7, <1>8, <1>9

-----------------------------------------------------------------------------
(* Starting and ending searches                                            *)

\* A search is edited in an insert mode, and remembers the one it came from.
LEMMA AdaptSound ==
  ASSUME NEW s, Sound(s)
  PROVE  LET r == adaptIsearchInsertMode(s)
         IN  /\ Sound(r) /\ AllBut(s, r, {"modeExit", "main"})
             /\ r.modeExit = s.main /\ r.main # "vi-command"
  <1> DEFINE to == IF s.main = "emacs" THEN "emacs" ELSE "vi-insert"
             r == [s EXCEPT !.modeExit = s.main, !.main = to]
  <1>1. s \in Engine /\ DOMAIN s = Fields
    BY EngineDomain DEF Sound
  <1>2. adaptIsearchInsertMode(s) = r
    BY <1>1 DEF adaptIsearchInsertMode, Fields
  <1>3. to \in Mains /\ s.main \in Exits /\ to # "vi-command"
    BY <1>1 DEF Engine, Mains, Exits
  <1> HIDE DEF to
  <1>4. r \in Engine
    BY <1>1, <1>3 DEF Engine
  <1>5. AllBut(s, r, {"modeExit", "main"})
    BY <1>1 DEF AllBut
  <1>6. r.modeExit = s.main /\ r.main = to
    BY <1>1 DEF Fields
  <1> HIDE DEF r
  <1>7. Sound(r)
    BY <1>4, <1>5, SoundAside
  <1> QED
    BY <1>2, <1>3, <1>5, <1>6, <1>7

\* The mode of r is the one that s remembers, if it does.
Returns(s, r) ==
  /\ r.main = IF s.modeExit = "" THEN s.main ELSE s.modeExit
  /\ r.modeExit \in {"", r.main}

\* The end of a search goes back to the mode it remembers.
LEMMA ResetModeSound ==
  ASSUME NEW s, Sound(s)
  PROVE  LET r == resetIsearchInsertMode(s)
         IN  Sound(r) /\ AllBut(s, r, {"modeExit", "main", "pos"}) /\ Returns(s, r)
  <1>1. CASE s.modeExit = ""
    <2>1. resetIsearchInsertMode(s) = s
      BY <1>1 DEF resetIsearchInsertMode
    <2>2. AllBut(s, s, {"modeExit", "main", "pos"})
      BY DEF AllBut
    <2>3. Returns(s, s)
      BY <1>1 DEF Returns
    <2> QED
      BY <1>1, <2>1, <2>2, <2>3
  <1>2. CASE s.modeExit # ""
    <2> DEFINE x == IF s.main = s.modeExit THEN s.modeExit ELSE ""
               p == IF s.modeExit = "vi-command" THEN CheckCommand(s.line, s.pos) ELSE s.pos
               r == [s EXCEPT !.main = s.modeExit, !.modeExit = x, !.pos = p]
    <2>1. s \in Engine /\ DOMAIN s = Fields
      BY EngineDomain DEF Sound
    <2>2. resetIsearchInsertMode(s) = r
      BY <1>2, <2>1 DEF resetIsearchInsertMode, Fields
    <2>3. s.line \in Line /\ s.pos \in 0 .. Len(s.line) /\ Len(s.line) \in Nat
      BY SoundParts DEF Sound
    <2>4. p \in 0 .. Len(s.line)
      BY <2>3, CommandRange
    <2>5. p \in Int /\ s.modeExit \in Mains /\ x \in {"", s.modeExit}
      <3>1. s.modeExit \in Exits
        BY <2>1 DEF Engine
      <3>2. p \in Int
        BY <2>3, <2>4
      <3> QED
        BY <1>2, <3>1, <3>2 DEF Exits
    <2>6. x \in Exits
      BY <2>5 DEF Exits
    <2> HIDE DEF x, p
    <2>7. r \in Engine
      BY <2>1, <2>5, <2>6 DEF Engine
    <2>8. AllBut(s, r, {"modeExit", "main", "pos"})
      BY <2>1 DEF AllBut
    <2>9. r.main = s.modeExit /\ r.pos = p /\ r.modeExit = x
      BY <2>1 DEF Fields
    <2> HIDE DEF r
    <2>10. Sound(r)
      BY <2>4, <2>7, <2>8, <2>9 DEF Sound, AllBut, Fields
    <2>11. Returns(s, r)
      BY <1>2, <2>5, <2>9 DEF Returns
    <2> QED
      BY <2>2, <2>8, <2>10, <2>11
  <1> QED
    BY <1>1, <1>2

\* The fields that the end of an incremental search sets.
Stopping ==
  {"line", "pos", "buf", "regex", "startBuf", "startPos", "replace", "auto", "local", "main",
   "modeExit"}

\* What the end of an incremental search leaves.
LEMMA IsearchStopSound ==
  ASSUME NEW s, Sound(s), NEW revertLine \in BOOLEAN
  PROVE  LET r == IsearchStop(s, revertLine)
         IN  /\ Sound(r) /\ AllBut(s, r, Stopping) /\ r.buf = Nil /\ r.local = "" /\ r.auto = FALSE
             /\ r.line = IF s.replace /\ revertLine THEN s.startBuf ELSE s.line
             /\ Returns(s, r)
  <1> DEFINE a == IF s.replace /\ revertLine THEN SetLine(s, s.startBuf, s.startPos) ELSE s
             b == [a EXCEPT !.buf = Nil, !.regex = Nil, !.startBuf = << >>, !.startPos = 0,
                            !.replace = FALSE, !.auto = FALSE, !.local = ""]
             r == IsearchStop(s, revertLine)
  <1>1. s.startBuf \in Line /\ s.startPos \in Int
    BY DEF Sound, Engine
  <1>2. /\ Sound(a) /\ AllBut(s, a, {"line", "pos"})
        /\ a.line = IF s.replace /\ revertLine THEN s.startBuf ELSE s.line
    <2>1. CASE s.replace /\ revertLine
      BY <1>1, <2>1, SetLineSound
    <2>2. CASE ~(s.replace /\ revertLine)
      BY <2>2 DEF AllBut
    <2> QED
      BY <2>1, <2>2
  <1>3. r = resetIsearchInsertMode(b)
    BY DEF IsearchStop
  <1> HIDE DEF a
  <1>4. a \in Engine /\ DOMAIN a = Fields
    BY <1>2, EngineDomain DEF Sound
  <1>5. Nil \in Buffers /\ << >> \in Line /\ "" \in Locals /\ 0 \in Int
    BY DEF Buffers, Line, Locals
  <1>6. b \in Engine
    BY <1>4, <1>5 DEF Engine
  <1>7. AllBut(a, b, {"buf", "regex", "startBuf", "startPos", "replace", "auto", "local"})
    BY <1>4 DEF AllBut
  <1>8. b.buf = Nil /\ b.local = "" /\ b.auto = FALSE /\ b.line = a.line /\ b.modeExit = a.modeExit
    BY <1>4 DEF Fields
  <1> HIDE DEF b, r
  <1>9. Sound(b)
    BY <1>2, <1>6, <1>7, SoundAside
  <1>10. Sound(r) /\ AllBut(b, r, {"modeExit", "main", "pos"}) /\ Returns(b, r)
    BY <1>3, <1>9, ResetModeSound
  <1>11. AllBut(s, r, Stopping)
    BY <1>2, <1>7, <1>10 DEF AllBut, Stopping
  <1>12. r.buf = Nil /\ r.local = "" /\ r.auto = FALSE /\ r.line = a.line
    BY <1>8, <1>10 DEF AllBut, Fields
  <1>13. b.modeExit = s.modeExit /\ b.main = s.main
    BY <1>2, <1>7, <1>8 DEF AllBut, Fields
  <1>14. Returns(s, r)
    BY <1>10, <1>13 DEF Returns
  <1> QED
    BY <1>2, <1>10, <1>11, <1>12, <1>14 DEF r

\* What the end of a non-incremental search leaves.
LEMMA NonIsearchStopSound ==
  ASSUME NEW s, Sound(s)
  PROVE  LET r == NonIsearchStop(s)
         IN  /\ Sound(r) /\ AllBut(s, r, {"buf", "regex", "nonInc", "main", "modeExit", "pos"})
             /\ r.buf = Nil /\ r.nonInc = FALSE /\ Returns(s, r)
  <1> DEFINE b == [s EXCEPT !.buf = Nil, !.regex = Nil, !.nonInc = FALSE]
             r == NonIsearchStop(s)
  <1>1. s \in Engine /\ DOMAIN s = Fields
    BY EngineDomain DEF Sound
  <1>2. r = resetIsearchInsertMode(b)
    BY DEF NonIsearchStop
  <1>3. Nil \in Buffers
    BY DEF Buffers
  <1>4. b \in Engine
    BY <1>1, <1>3 DEF Engine
  <1>5. AllBut(s, b, {"buf", "regex", "nonInc"})
    BY <1>1 DEF AllBut
  <1>6. b.buf = Nil /\ b.nonInc = FALSE /\ b.modeExit = s.modeExit /\ b.main = s.main
    BY <1>1 DEF Fields
  <1> HIDE DEF b, r
  <1>7. Sound(b)
    BY <1>4, <1>5, SoundAside
  <1>8. Sound(r) /\ AllBut(b, r, {"modeExit", "main", "pos"}) /\ Returns(b, r)
    BY <1>2, <1>7, ResetModeSound
  <1>9. AllBut(s, r, {"buf", "regex", "nonInc", "main", "modeExit", "pos"})
    BY <1>5, <1>8 DEF AllBut
  <1>10. r.buf = Nil /\ r.nonInc = FALSE
    BY <1>6, <1>8 DEF AllBut, Fields
  <1>11. Returns(s, r)
    BY <1>6, <1>8 DEF Returns
  <1> QED
    BY <1>8, <1>9, <1>10, <1>11 DEF r

\* What the start of an incremental search sets.
LEMMA IsearchStartSound ==
  ASSUME NEW s, Sound(s), NEW autoinsert \in BOOLEAN, NEW replaceLine \in BOOLEAN
  PROVE  LET r == IsearchStart(s, autoinsert, replaceLine)
         IN  /\ Sound(r)
             /\ AllBut(s, r, {"insert", "replace", "startBuf", "startPos", "buf", "auto", "local",
                              "modeExit", "main"})
             /\ r.local = "isearch" /\ r.buf = << >> /\ r.replace = replaceLine
             /\ r.startBuf = s.line /\ r.startPos = s.pos
             /\ r.modeExit = s.main /\ r.main # "vi-command"
  <1> DEFINE b == [s EXCEPT !.insert = autoinsert, !.replace = replaceLine,
                            !.startBuf = s.line, !.startPos = s.pos,
                            !.buf = << >>, !.auto = TRUE, !.local = "isearch"]
             r == IsearchStart(s, autoinsert, replaceLine)
  <1>1. s \in Engine /\ DOMAIN s = Fields /\ s.line \in Line /\ s.pos \in Int
    BY EngineDomain, SoundParts
  <1>2. r = adaptIsearchInsertMode(b)
    BY DEF IsearchStart
  <1>3. << >> \in Buffers /\ "isearch" \in Locals
    BY DEF Buffers, Line, Locals
  <1>4. b \in Engine
    BY <1>1, <1>3 DEF Engine
  <1>5. AllBut(s, b, {"insert", "replace", "startBuf", "startPos", "buf", "auto", "local"})
    BY <1>1 DEF AllBut
  <1>6. /\ b.local = "isearch" /\ b.buf = << >> /\ b.replace = replaceLine
        /\ b.startBuf = s.line /\ b.startPos = s.pos /\ b.main = s.main
    BY <1>1 DEF Fields
  <1> HIDE DEF b, r
  <1>7. Sound(b)
    BY <1>4, <1>5, SoundAside
  <1>8. /\ Sound(r) /\ AllBut(b, r, {"modeExit", "main"})
        /\ r.modeExit = b.main /\ r.main # "vi-command"
    BY <1>2, <1>7, AdaptSound
  <1>9. AllBut(s, r, {"insert", "replace", "startBuf", "startPos", "buf", "auto", "local",
                      "modeExit", "main"})
    BY <1>5, <1>8 DEF AllBut
  <1>10. /\ r.local = "isearch" /\ r.buf = << >> /\ r.replace = replaceLine
         /\ r.startBuf = s.line /\ r.startPos = s.pos
    BY <1>6, <1>8 DEF AllBut, Fields
  <1> QED
    BY <1>6, <1>8, <1>9, <1>10 DEF r

\* What the start of a non-incremental search sets.
LEMMA NonIsearchStartSound ==
  ASSUME NEW s, Sound(s)
  PROVE  LET r == NonIsearchStart(s)
         IN  /\ Sound(r) /\ AllBut(s, r, {"buf", "nonInc", "modeExit", "main"})
             /\ r.buf = << >> /\ r.nonInc /\ r.modeExit = s.main /\ r.main # "vi-command"
  <1> DEFINE b == [s EXCEPT !.buf = << >>, !.nonInc = TRUE]
             r == NonIsearchStart(s)
  <1>1. s \in Engine /\ DOMAIN s = Fields
    BY EngineDomain DEF Sound
  <1>2. r = adaptIsearchInsertMode(b)
    BY DEF NonIsearchStart
  <1>3. << >> \in Buffers
    BY DEF Buffers, Line
  <1>4. b \in Engine
    BY <1>1, <1>3 DEF Engine
  <1>5. AllBut(s, b, {"buf", "nonInc"})
    BY <1>1 DEF AllBut
  <1>6. b.buf = << >> /\ b.nonInc = TRUE /\ b.main = s.main
    BY <1>1 DEF Fields
  <1> HIDE DEF b, r
  <1>7. Sound(b)
    BY <1>4, <1>5, SoundAside
  <1>8. /\ Sound(r) /\ AllBut(b, r, {"modeExit", "main"})
        /\ r.modeExit = b.main /\ r.main # "vi-command"
    BY <1>2, <1>7, AdaptSound
  <1>9. AllBut(s, r, {"buf", "nonInc", "modeExit", "main"})
    BY <1>5, <1>8 DEF AllBut
  <1>10. r.buf = << >> /\ r.nonInc
    BY <1>6, <1>8 DEF AllBut, Fields
  <1> QED
    BY <1>6, <1>8, <1>9, <1>10 DEF r

\* What ResetForce leaves: neither a menu nor a search.
LEMMA ResetForceSound ==
  ASSUME NEW s, Sound(s)
  PROVE  LET r == ResetForce(s)
         IN  /\ Sound(r)
             /\ AllBut(s, r, {"comp", "selected", "cached", "groups", "cur"} \cup Stopping)
             /\ r.selected = << >> /\ r.groups = << >> /\ r.buf = Nil /\ r.local = "" /\ r.auto = FALSE
             /\ r.line = IF s.replace /\ s.local = "isearch" THEN s.startBuf ELSE s.line
             /\ Returns(s, r)
  <1> DEFINE a == Cancel(s, TRUE, TRUE)
             b == ClearMenu(a, TRUE)
             r == IsearchStop(b, b.local = "isearch")
  <1>1. ResetForce(s) = r
    BY DEF ResetForce
  <1>2. Sound(a) /\ AllBut(s, a, {"comp", "selected", "cached"})
    BY CancelSound
  <1> HIDE DEF a
  <1>3. /\ Sound(b) /\ AllBut(a, b, {"selected", "comp", "groups", "cur", "local"})
        /\ b.selected = << >> /\ b.groups = << >>
        /\ b.local = IF a.local = "menu-select" THEN "" ELSE a.local
    BY <1>2, ClearMenuSound
  <1> HIDE DEF b
  <1>4. (b.local = "isearch") \in BOOLEAN
    OBVIOUS
  <1>5. /\ Sound(r) /\ AllBut(b, r, Stopping) /\ r.buf = Nil /\ r.local = "" /\ r.auto = FALSE
        /\ r.line = IF b.replace /\ b.local = "isearch" THEN b.startBuf ELSE b.line
        /\ Returns(b, r)
    BY <1>3, <1>4, IsearchStopSound
  <1> HIDE DEF r
  <1>6. /\ b.modeExit = s.modeExit /\ b.main = s.main /\ b.replace = s.replace
        /\ b.startBuf = s.startBuf /\ b.line = s.line
    BY <1>2, <1>3 DEF AllBut, Fields
  <1>7. (b.local = "isearch") <=> (s.local = "isearch")
    <2>1. a.local = s.local
      BY <1>2 DEF AllBut, Fields
    <2> QED
      BY <1>3, <2>1
  <1>8. r.line = IF s.replace /\ s.local = "isearch" THEN s.startBuf ELSE s.line
    BY <1>5, <1>6, <1>7
  <1>9. Returns(s, r)
    BY <1>5, <1>6 DEF Returns
  <1>10. AllBut(s, r, {"comp", "selected", "cached", "groups", "cur"} \cup Stopping)
    <2>1. "local" \in Stopping
      BY DEF Stopping
    <2> QED
      BY <1>2, <1>3, <1>5, <2>1 DEF AllBut
  <1>11. r.selected = << >> /\ r.groups = << >>
    BY <1>3, <1>5 DEF AllBut, Fields, Stopping
  <1> QED
    BY <1>1, <1>5, <1>8, <1>9, <1>10, <1>11

\* What Reset leaves: no menu, and no search if there was an active one; the
\* line only changes when a candidate was inserted.
LEMMA ResetSound ==
  ASSUME NEW s, Sound(s)
  PROVE  LET r == Reset(s)
         IN  /\ Sound(r)
             /\ AllBut(s, r, {"comp", "selected", "cached", "groups", "cur"} \cup Stopping)
             /\ r.selected = << >> /\ r.groups = << >>
             /\ r.local = "" \/ (r.local = s.local /\ r.local # "isearch")
             /\ s.selected = << >> => r.line = s.line
             /\ ~IsActive(s) => AllBut(s, r, {"selected", "comp", "groups", "cur", "local"})
             /\ IsActive(s) => r.buf = Nil /\ r.local = "" /\ Returns(s, r)
  <1> DEFINE r == Reset(s)
  <1>1. CASE ~IsActive(s)
    <2>1. r = ClearMenu(s, TRUE)
      BY <1>1 DEF Reset
    <2> HIDE DEF r
    <2>2. /\ Sound(r) /\ AllBut(s, r, {"selected", "comp", "groups", "cur", "local"})
          /\ r.selected = << >> /\ r.groups = << >>
          /\ r.local = IF s.local = "menu-select" THEN "" ELSE s.local
      BY <2>1, ClearMenuSound
    <2>3. s.local # "isearch"
      BY <1>1 DEF IsActive, Searching
    <2>4. r.local = "" \/ (r.local = s.local /\ r.local # "isearch")
      BY <2>2, <2>3
    <2>5. r.line = s.line
      BY <2>2 DEF AllBut, Fields
    <2>6. AllBut(s, r, {"comp", "selected", "cached", "groups", "cur"} \cup Stopping)
      BY <2>2 DEF AllBut, Stopping
    <2> QED
      BY <1>1, <2>2, <2>4, <2>5, <2>6 DEF r
  <1>2. CASE IsActive(s)
    <2> DEFINE a == Cancel(s, FALSE, TRUE)
               b == ClearMenu(a, TRUE)
    <2>1. r = IsearchStop(b, FALSE)
      BY <1>2 DEF Reset
    <2>2. /\ Sound(a) /\ AllBut(s, a, {"line", "pos", "comp", "selected", "cached"})
          /\ ~IsInserting(s) => AllBut(s, a, {"comp", "selected", "cached"})
      BY CancelSound
    <2> HIDE DEF a
    <2>3. /\ Sound(b) /\ AllBut(a, b, {"selected", "comp", "groups", "cur", "local"})
          /\ b.selected = << >> /\ b.groups = << >>
      BY <2>2, ClearMenuSound
    <2> HIDE DEF b, r
    <2>4. /\ Sound(r) /\ AllBut(b, r, Stopping) /\ r.buf = Nil /\ r.local = ""
          /\ r.line = b.line /\ Returns(b, r)
      BY <2>1, <2>3, IsearchStopSound
    <2>5. b.modeExit = s.modeExit /\ b.main = s.main
      BY <2>2, <2>3 DEF AllBut, Fields
    <2>6. Returns(s, r)
      BY <2>4, <2>5 DEF Returns
    <2>7. s.selected = << >> => r.line = s.line
      BY <2>2, <2>3, <2>4 DEF AllBut, Fields, IsInserting
    <2>8. AllBut(s, r, {"comp", "selected", "cached", "groups", "cur"} \cup Stopping)
      <3>1. {"local", "line", "pos"} \subseteq Stopping
        BY DEF Stopping
      <3> QED
        BY <2>2, <2>3, <2>4, <3>1 DEF AllBut
    <2>9. r.selected = << >> /\ r.groups = << >>
      BY <2>3, <2>4 DEF AllBut, Fields, Stopping
    <2> QED
      BY <1>2, <2>4, <2>6, <2>7, <2>8, <2>9 DEF r
  <1> QED
    BY <1>1, <1>2

-----------------------------------------------------------------------------
(* Inserting candidates                                                    *)

\* A candidate of the current group can be selected.
Choosable(s) == s.cur \in 1 .. Len(s.groups) /\ Steady(Current(s))

\* Candidates that replace something can replace nothing.
LEMMA FitsNothing ==
  ASSUME NEW prefix \in Line, NEW gs \in Seq(Pane(Fit(prefix)))
  PROVE  gs \in Seq(Pane(Fit(<< >>)))
  <1> DEFINE A == Fit(prefix)
             B == Fit(<< >>)
  <1>1. A \subseteq B
    BY BytesGive, BytesNone DEF Fit, Candidate
  <1> HIDE DEF A, B
  <1>2. Seq(A) \subseteq Seq(B)
    BY <1>1
  <1>3. NotEmpty(A) \subseteq NotEmpty(B)
    BY <1>2 DEF NotEmpty
  <1>4. Seq(NotEmpty(A)) \subseteq Seq(NotEmpty(B))
    BY <1>3
  <1>5. Group(A) \subseteq Group(B)
    BY <1>4 DEF Group
  <1>6. Pane(A) \subseteq Pane(B)
    BY <1>5 DEF Pane
  <1>7. gs \in Seq(Pane(A))
    BY DEF A
  <1>8. gs \in Seq(Pane(B))
    BY <1>6, <1>7
  <1> QED
    BY <1>8 DEF B

\* The selector is on a candidate: taking it is no fault, and it is no shorter
\* than what it replaces.
LEMMA ChoosableGives ==
  ASSUME NEW s, Sound(s), Choosable(s)
  PROVE  /\ Current(s) \in Pane(Fit(s.prefix)) /\ ~CellFault(s)
         /\ SelectedValue(s) \in Line /\ Bytes(s.prefix) <= Bytes(SelectedValue(s))
  <1>1. s.groups \in Seq(Pane(Fit(s.prefix))) /\ s.cur \in 1 .. Len(s.groups) /\ Steady(Current(s))
    BY DEF Sound, Choosable
  <1>2. Current(s) \in Pane(Fit(s.prefix))
    BY <1>1, ElementOfSeq DEF Current
  <1>3. SelectedCell(Current(s)) \in Fit(s.prefix)
    BY <1>1, <1>2, SelectedCellGives
  <1>4. SelectedValue(s) \in Line /\ Bytes(s.prefix) <= Bytes(SelectedValue(s))
    BY <1>3 DEF SelectedValue, Fit, Candidate
  <1>5. ~CellFault(s)
    BY <1>1 DEF CellFault, Steady, Fresh
  <1> QED
    BY <1>2, <1>4, <1>5

\* Accepting a candidate puts it in the line.
LEMMA AcceptSound ==
  ASSUME NEW s, Sound(s), Choosable(s)
  PROVE  LET r == acceptCandidate(s)
         IN  Sound(r) /\ AllBut(s, r, {"selected", "line", "pos", "prefix"})
  <1> DEFINE val == SelectedValue(s)
             c == Complete(s, val)
             r == [s EXCEPT !.selected = val, !.line = c.line, !.pos = c.pos, !.prefix = << >>]
  <1>1. ~CellFault(s) /\ val \in Line /\ Bytes(s.prefix) <= Bytes(val)
    BY ChoosableGives
  <1>2. s \in Engine /\ DOMAIN s = Fields /\ s.prefix \in Line /\ Bytes(s.prefix) \in Nat
    BY EngineDomain, SoundParts
  <1>3. Bytes(val) \in Nat
    BY <1>1, BytesGive
  <1>4. acceptCandidate(s) = r
    <2>1. ~(Bytes(val) < Bytes(s.prefix))
      BY <1>1, <1>2, <1>3
    <2> QED
      BY <1>1, <2>1 DEF acceptCandidate
  <1> HIDE DEF val
  <1>5. c \in [line : Line, pos : Int] /\ c.pos \in 0 .. Len(c.line)
    BY <1>1, CompleteGives
  <1>6. c.line \in Line /\ c.pos \in Int /\ << >> \in Line
    BY <1>5 DEF Line
  <1> HIDE DEF c
  <1>7. r \in Engine
    BY <1>1, <1>2, <1>6 DEF Engine
  <1>8. AllBut(s, r, {"selected", "line", "pos", "prefix"})
    BY <1>2 DEF AllBut
  <1>9. r.line = c.line /\ r.pos = c.pos /\ r.prefix = << >>
    BY <1>2 DEF Fields
  <1> HIDE DEF r
  <1>10. r.comp = s.comp /\ r.cur = s.cur /\ r.groups = s.groups
    BY <1>8 DEF AllBut, Fields
  <1>11. s.groups \in Seq(Pane(Fit(<< >>)))
    BY <1>2, FitsNothing DEF Sound
  <1>12. Sound(r)
    BY <1>5, <1>7, <1>9, <1>10, <1>11 DEF Sound
  <1> QED
    BY <1>4, <1>8, <1>12

\* Completing depends on the line, on its cursor and on the prefix.
LEMMA CompleteSame ==
  ASSUME NEW s, NEW r, r.line = s.line, r.pos = s.pos, r.prefix = s.prefix, NEW val
  PROVE  Complete(r, val) = Complete(s, val)
  BY DEF Complete

\* Inserting a candidate makes the completed line.
LEMMA InsertCandidateSound ==
  ASSUME NEW s, Sound(s), Choosable(s)
  PROVE  LET r == insertCandidate(s)
         IN  Sound(r) /\ AllBut(s, r, {"selected", "comp"}) /\ r.comp = Complete(r, r.selected)
  <1> DEFINE val == SelectedValue(s)
             c == Complete(s, val)
             r == [s EXCEPT !.selected = val, !.comp = c]
  <1>1. ~CellFault(s) /\ val \in Line /\ Bytes(s.prefix) <= Bytes(val)
    BY ChoosableGives
  <1>2. s \in Engine /\ DOMAIN s = Fields /\ Bytes(s.prefix) \in Nat
    BY EngineDomain, SoundParts
  <1>3. Bytes(val) \in Nat
    BY <1>1, BytesGive
  <1>4. insertCandidate(s) = r
    <2>1. ~(Bytes(val) < Bytes(s.prefix))
      BY <1>1, <1>2, <1>3
    <2> QED
      BY <1>1, <2>1 DEF insertCandidate
  <1> HIDE DEF val
  <1>5. c \in Shots /\ c.pos \in 0 .. Len(c.line)
    BY <1>1, CompleteGives DEF Shots
  <1>6. c = Complete(s, val)
    OBVIOUS
  <1> HIDE DEF c
  <1>7. r \in Engine
    BY <1>1, <1>2, <1>5 DEF Engine
  <1>8. AllBut(s, r, {"selected", "comp"})
    BY <1>2 DEF AllBut
  <1>9. r.selected = val /\ r.comp = c
    BY <1>2 DEF Fields
  <1> HIDE DEF r
  <1>10. /\ r.line = s.line /\ r.pos = s.pos /\ r.prefix = s.prefix /\ r.cur = s.cur
         /\ r.groups = s.groups
    BY <1>8 DEF AllBut, Fields
  <1>11. Sound(r)
    BY <1>5, <1>7, <1>9, <1>10 DEF Sound
  <1>12. Complete(r, val) = Complete(s, val)
    BY <1>10, CompleteSame
  <1> QED
    BY <1>4, <1>6, <1>8, <1>9, <1>11, <1>12

\* What browsing a menu may change: in an incremental search only the line and
\* the menu, else anything but a few modes.
Viewing == {"line", "pos", "comp", "selected", "prefix", "groups", "cur", "cached", "fault"}
Fetching == Viewing \cup {"local"}
Outside == {"nonInc", "insert", "source", "options"}

Browse(s, r) ==
  /\ s.local = "isearch" => AllBut(s, r, Viewing)
  /\ s.local # "isearch" => /\ r.local # "isearch" /\ AllBut(s, r, Fields \ Outside)
                            /\ r.buf = s.buf \/ r.buf = Nil

\* Browsing goes on.
LEMMA BrowseBoth ==
  ASSUME NEW s, NEW r, NEW t, Browse(s, r), Browse(r, t)
  PROVE  Browse(s, t)
  <1>1. CASE s.local = "isearch"
    <2>1. AllBut(s, r, Viewing) /\ r.local = s.local
      BY <1>1 DEF Browse, AllBut, Viewing, Fields
    <2>2. AllBut(r, t, Viewing)
      BY <1>1, <2>1 DEF Browse
    <2>3. AllBut(s, t, Viewing)
      BY <2>1, <2>2 DEF AllBut
    <2> QED
      BY <1>1, <2>3 DEF Browse
  <1>2. CASE s.local # "isearch"
    <2>1. r.local # "isearch" /\ AllBut(s, r, Fields \ Outside) /\ (r.buf = s.buf \/ r.buf = Nil)
      BY <1>2 DEF Browse
    <2>2. t.local # "isearch" /\ AllBut(r, t, Fields \ Outside) /\ (t.buf = r.buf \/ t.buf = Nil)
      BY <2>1 DEF Browse
    <2>3. AllBut(s, t, Fields \ Outside)
      BY <2>1, <2>2 DEF AllBut
    <2> QED
      BY <1>2, <2>1, <2>2, <2>3 DEF Browse
  <1> QED
    BY <1>1, <1>2

\* A change of what is viewed is browsing.
LEMMA ViewingBrowses ==
  ASSUME NEW s, NEW r, AllBut(s, r, Viewing)
  PROVE  Browse(s, r)
  <1>1. r.local = s.local /\ r.buf = s.buf
    BY DEF AllBut, Viewing, Fields
  <1>2. AllBut(s, r, Fields \ Outside)
    BY DEF AllBut, Viewing, Outside
  <1> QED
    BY <1>1, <1>2 DEF Browse

\* So is one of the local keymap outside of searches.
LEMMA LocalBrowses ==
  ASSUME NEW s, NEW r, AllBut(s, r, Viewing \cup {"local"}), s.local # "isearch", r.local # "isearch"
  PROVE  Browse(s, r)
  <1>1. r.buf = s.buf
    BY DEF AllBut, Viewing, Fields
  <1>2. AllBut(s, r, Fields \ Outside)
    BY DEF AllBut, Viewing, Outside
  <1> QED
    BY <1>1, <1>2 DEF Browse

\* And the end of a menu.
LEMMA ResetForceBrowses ==
  ASSUME NEW s, Sound(s), s.local # "isearch"
  PROVE  Browse(s, ResetForce(s)) /\ ResetForce(s).fault = s.fault
  <1> DEFINE r == ResetForce(s)
  <1>1. /\ AllBut(s, r, {"comp", "selected", "cached", "groups", "cur"} \cup Stopping)
        /\ r.local = "" /\ r.buf = Nil
    BY ResetForceSound
  <1> HIDE DEF r
  <1>2. AllBut(s, r, Fields \ Outside)
    BY <1>1 DEF AllBut, Outside, Stopping
  <1>3. Browse(s, r)
    BY <1>1, <1>2 DEF Browse
  <1>4. r.fault = s.fault
    BY <1>1 DEF AllBut, Fields, Stopping
  <1> QED
    BY <1>3, <1>4 DEF r

\* What the selection of a candidate gives: it is inserted, or the menu is
\* closed.
Inserted(r) == r.comp = Complete(r, r.selected) \/ r.selected = << >>

\* A candidate that is inserted, or none, is in sync.
LEMMA InsertedInSync ==
  ASSUME NEW r, Inserted(r)
  PROVE  InSync(r)
  BY DEF Inserted, InSync, IsInserting

\* Setting a field to what it is changes nothing.
LEMMA SameCur ==
  ASSUME NEW s \in Engine
  PROVE  [s EXCEPT !.cur = s.cur] = s
  BY EngineDomain DEF Engine

\* refreshLine inserts the candidate the selector is on; a single one ends the
\* menu.
LEMMA RefreshSound ==
  ASSUME NEW s, Sound(s), Choosable(s)
  PROVE  LET r == refreshLine(s)
         IN  /\ Sound(r) /\ Browse(s, r) /\ r.fault = s.fault /\ Inserted(r)
             /\ Full(s.groups) => Full(r.groups)
  <1> DEFINE r == refreshLine(s)
             a == acceptCandidate(s)
  <1>1. s \in Engine /\ s.cur \in 1 .. Len(s.groups) /\ Len(s.groups) \in Nat
    BY SoundParts DEF Choosable
  <1>2. ~noCompletions(s)
    <2>1. DOMAIN s.groups = 1 .. Len(s.groups)
      BY LenProperties DEF Sound
    <2>2. s.cur \in NonEmpty(s.groups)
      BY <1>1, <2>1 DEF NonEmpty, Choosable, Steady, Current
    <2> QED
      BY <2>2 DEF noCompletions
  <1>3. [s EXCEPT !.cur = currentGroup(s.groups, s.cur)] = s
    <2>1. currentGroup(s.groups, s.cur) = s.cur
      BY <1>1 DEF currentGroup
    <2> QED
      BY <1>1, <2>1, SameCur
  <1>4. r = IF hasUniqueCandidate(s.groups) /\ s.local # "isearch" THEN ResetForce(a)
            ELSE insertCandidate(s)
    BY <1>2, <1>3 DEF refreshLine
  <1> HIDE DEF r
  <1>5. CASE hasUniqueCandidate(s.groups) /\ s.local # "isearch"
    <2>1. r = ResetForce(a)
      BY <1>4, <1>5
    <2>2. Sound(a) /\ AllBut(s, a, {"selected", "line", "pos", "prefix"})
      BY AcceptSound
    <2> HIDE DEF a
    <2>3. Browse(s, a) /\ a.local # "isearch" /\ a.fault = s.fault
      <3>1. AllBut(s, a, Viewing)
        BY <2>2 DEF AllBut, Viewing
      <3>2. a.local = s.local /\ a.fault = s.fault
        BY <2>2 DEF AllBut, Fields
      <3> QED
        BY <1>5, <3>1, <3>2, ViewingBrowses
    <2>4. Sound(r) /\ r.selected = << >> /\ r.groups = << >>
      BY <2>1, <2>2, ResetForceSound
    <2>5. Browse(a, r) /\ r.fault = a.fault
      BY <2>1, <2>2, <2>3, ResetForceBrowses
    <2>6. Browse(s, r)
      BY <2>3, <2>5, BrowseBoth
    <2>7. Full(r.groups)
      BY <2>4 DEF Full
    <2> QED
      BY <2>3, <2>4, <2>5, <2>6, <2>7 DEF r, Inserted
  <1>6. CASE ~(hasUniqueCandidate(s.groups) /\ s.local # "isearch")
    <2>1. r = insertCandidate(s)
      BY <1>4, <1>6
    <2>2. Sound(r) /\ AllBut(s, r, {"selected", "comp"}) /\ r.comp = Complete(r, r.selected)
      BY <2>1, InsertCandidateSound
    <2>3. AllBut(s, r, Viewing)
      BY <2>2 DEF AllBut, Viewing
    <2>4. Browse(s, r)
      BY <2>3, ViewingBrowses
    <2>5. r.fault = s.fault /\ r.groups = s.groups
      BY <2>2 DEF AllBut, Fields
    <2> QED
      BY <2>2, <2>4, <2>5 DEF r, Inserted
  <1> QED
    BY <1>5, <1>6

-----------------------------------------------------------------------------
(* Generating candidates                                                   *)

\* The completers give candidates.
LEMMA ValuesGive ==
  ASSUME NEW s \in Engine
  PROVE  Values(s) \in Seq(Candidate)
  <1>1. Words \in Seq(Candidate)
    <2> DEFINE W == [value : Line, desc : STRING, tag : STRING]
    <2>1. W \subseteq Candidate
      BY DEF Candidate, Texts
    <2>2. Words \in Seq(W)
      BY CompletionAssumption
    <2> HIDE DEF W
    <2> QED
      BY <2>1, <2>2
  <1>2. HistoryValues(s) \in Seq(Candidate)
    <2> DEFINE hl == HistLines[s.source]
               idx == [i \in DOMAIN hl |-> i]
               T == {i \in Range(idx) : \A j \in 1 .. i - 1 : hl[j] # hl[i]}
               F == PickAt(hl, Keep(idx, T))
               U == {x \in Range(F) : s.regex # Nil => Contains2(x, s.regex)}
               lines == Keep(F, U)
               vs == [i \in DOMAIN lines |-> [value |-> lines[i], desc |-> "", tag |-> ""]]
    <2>1. HistoryValues(s) = vs
      BY Zenon DEF HistoryValues, Firsts, Filter
    <2>2. hl \in Seq(Line)
      <3>1. s.source \in 1 .. Len(HistLines)
        BY DEF Engine, Sources
      <3>2. HistLines \in Seq(Seq(Line))
        BY CompletionAssumption
      <3> QED
        BY <3>1, <3>2, ElementOfSeq
    <2> HIDE DEF T, hl
    <2>3. F \in Seq(Line)
      BY <2>2, PickGives
    <2> HIDE DEF F, U
    <2>4. lines \in Seq(Line)
      BY <2>3, KeepTyped
    <2> HIDE DEF lines
    <2>5. Len(lines) \in Nat /\ DOMAIN lines = 1 .. Len(lines) /\ \A i \in 1 .. Len(lines) : lines[i] \in Line
      BY <2>4, LenProperties, ElementOfSeq
    <2> DEFINE V(i) == [value |-> lines[i], desc |-> "", tag |-> ""]
    <2>6. \A i \in 1 .. Len(lines) : V(i) \in Candidate
      BY <2>5 DEF Candidate, Texts
    <2>7. vs = [i \in 1 .. Len(lines) |-> V(i)]
      BY <2>5
    <2> HIDE DEF V, vs
    <2>8. vs \in Seq(Candidate)
      BY <2>5, <2>6, <2>7
    <2> QED
      BY <2>1, <2>8
  <1> QED
    BY <1>1, <1>2 DEF Values

\* Groups that were just made.
AllFresh(gs) == \A i \in 1 .. Len(gs) : Fresh(gs[i])

\* A menu with no selector used inserts no candidate of its own.
LEMMA FreshInSync ==
  ASSUME NEW r, Sound(r), AllFresh(r.groups)
  PROVE  InSync(r)
  <1> SUFFICES ASSUME r.cur # 0 PROVE r.groups[r.cur].posX = -1
    BY DEF InSync
  <1>1. r.cur \in 1 .. Len(r.groups)
    BY SoundParts DEF Sound
  <1> QED
    BY <1>1 DEF AllFresh, Fresh

\* prepare makes a new menu of candidates that the prefix is a prefix of.
LEMMA PrepareSound ==
  ASSUME NEW s, Sound(s), NEW completer \in {"commands", "history"}
  PROVE  LET r == prepare(s, completer)
         IN  /\ Sound(r) /\ AllBut(s, r, {"prefix", "cur", "groups"})
             /\ Full(r.groups) /\ AllFresh(r.groups) /\ r.cur = 0
  <1> DEFINE c == [s EXCEPT !.cached = completer]
             p == setPrefix(c)
             V == Values(c)
             T == {x \in Range(V) : IsPrefix(p, x.value)}
             k == Keep(V, T)
             gs == Groups(k, ColumnsOf(c))
             r == [s EXCEPT !.prefix = p, !.cur = 0, !.groups = gs]
  <1>1. s \in Engine /\ DOMAIN s = Fields /\ s.line \in Line
    BY EngineDomain, SoundParts
  <1>2. prepare(s, completer) = r
    BY DEF prepare, Filter
  <1>3. c \in Engine /\ c.line = s.line /\ c.pos = s.pos
    BY <1>1 DEF Engine, Cached
  <1> HIDE DEF c
  <1>4. p \in Line
    <2>1. Word(c.line, c.pos) \in Line
      BY <1>1, <1>3, WordGives DEF Sound
    <2> QED
      BY <1>1, <1>3, <2>1 DEF setPrefix
  <1>5. ColumnsOf(c) \in Nat \ {0}
    BY CompletionAssumption DEF ColumnsOf
  <1>6. V \in Seq(Candidate)
    BY <1>3, ValuesGive
  <1> HIDE DEF p, V
  <1>7. \A x \in Candidate \cap T : x \in Fit(p)
    BY <1>4, BytesPrefix DEF Fit, Candidate
  <1> HIDE DEF T
  <1>8. k \in Seq(Fit(p))
    <2> DEFINE X == Candidate \cap T
    <2>1. k \in Seq(X) /\ X \subseteq Fit(p)
      BY <1>6, <1>7, KeepGives
    <2> HIDE DEF X, k
    <2> QED
      BY <2>1
  <1> HIDE DEF k
  <1>9. gs \in Seq(NewPane(Fit(p)))
    BY <1>5, <1>8, GroupsGive
  <1> HIDE DEF gs
  <1>10. gs \in Seq(Pane(Fit(p)))
    <2>1. NewPane(Fit(p)) \subseteq Pane(Fit(p))
      BY DEF NewPane
    <2> QED
      BY <1>9, <2>1
  <1>11. gs \in Menus
    <2>1. Fit(p) \subseteq Candidate
      BY DEF Fit
    <2> QED
      BY <1>10, <2>1, PanesAreMenus
  <1>12. Full(gs) /\ AllFresh(gs)
    <2>1. \A i \in 1 .. Len(gs) : gs[i] \in NewPane(Fit(p))
      BY <1>9, ElementOfSeq
    <2> QED
      BY <2>1 DEF Full, AllFresh, NewPane
  <1>13. r \in Engine
    BY <1>1, <1>4, <1>11 DEF Engine
  <1>14. AllBut(s, r, {"prefix", "cur", "groups"})
    BY <1>1 DEF AllBut
  <1>15. r.prefix = p /\ r.cur = 0 /\ r.groups = gs
    BY <1>1 DEF Fields
  <1> HIDE DEF r
  <1>16. Len(gs) \in Nat
    BY <1>9, LenProperties
  <1>17. Sound(r)
    BY <1>10, <1>13, <1>14, <1>15, <1>16 DEF Sound, AllBut, Fields
  <1> QED
    BY <1>2, <1>12, <1>14, <1>15, <1>17

\* Another group is made current.
LEMMA CurSound ==
  ASSUME NEW s, Sound(s), NEW c \in 0 .. Len(s.groups), NEW r, r = [s EXCEPT !.cur = c]
  PROVE  /\ Sound(r) /\ AllBut(s, r, {"cur"}) /\ Browse(s, r) /\ r.fault = s.fault
         /\ r.groups = s.groups /\ r.cur = c
  <1>1. s \in Engine /\ DOMAIN s = Fields /\ Len(s.groups) \in Nat
    BY EngineDomain, SoundParts
  <1>2. r \in Engine
    BY <1>1 DEF Engine
  <1>3. AllBut(s, r, {"cur"})
    BY <1>1 DEF AllBut
  <1>4. r.groups = s.groups /\ r.cur = c
    BY <1>1 DEF Fields
  <1>5. Sound(r)
    BY <1>2, <1>3, <1>4 DEF Sound, AllBut, Fields
  <1>6. AllBut(s, r, Viewing) /\ r.fault = s.fault
    BY <1>3 DEF AllBut, Viewing, Fields
  <1> QED
    BY <1>3, <1>4, <1>5, <1>6, ViewingBrowses

\* Closing a menu is browsing.
LEMMA ClearMenuBrowses ==
  ASSUME NEW s, Sound(s), NEW comps \in BOOLEAN
  PROVE  LET r == ClearMenu(s, comps)
         IN  /\ Sound(r) /\ Browse(s, r) /\ r.fault = s.fault /\ r.selected = << >>
             /\ s.local = "isearch" => AllBut(s, r, {"selected", "comp", "groups", "cur"})
             /\ r.groups = (IF comps THEN << >> ELSE s.groups)
             /\ AllBut(s, r, {"selected", "comp", "groups", "cur", "local"})
             /\ r.local \in {s.local, ""}
  <1> DEFINE r == ClearMenu(s, comps)
  <1>1. /\ Sound(r) /\ AllBut(s, r, {"selected", "comp", "groups", "cur", "local"})
        /\ r.selected = << >> /\ r.groups = (IF comps THEN << >> ELSE s.groups)
        /\ r.local = IF s.local = "menu-select" THEN "" ELSE s.local
    BY ClearMenuSound
  <1> HIDE DEF r
  <1>2. r.fault = s.fault
    BY <1>1 DEF AllBut, Fields
  <1>3. CASE s.local = "isearch"
    <2>1. AllBut(s, r, {"selected", "comp", "groups", "cur"})
      BY <1>1, <1>3 DEF AllBut
    <2>2. AllBut(s, r, Viewing)
      BY <2>1 DEF AllBut, Viewing
    <2> QED
      BY <1>1, <1>2, <2>1, <2>2, ViewingBrowses DEF r
  <1>4. CASE s.local # "isearch"
    <2>1. r.local # "isearch"
      BY <1>1, <1>4
    <2>2. AllBut(s, r, Viewing \cup {"local"})
      BY <1>1 DEF AllBut, Viewing
    <2> QED
      BY <1>1, <1>2, <1>4, <2>1, <2>2, LocalBrowses DEF r
  <1> QED
    BY <1>3, <1>4

\* Generate makes a menu whose groups all have candidates and unused selectors,
\* or accepts the only candidate; in a search the line is not changed.
LEMMA GenerateSound ==
  ASSUME NEW s, Sound(s), s.cached \in {"commands", "history"}
  PROVE  LET r == Generate(s)
         IN  /\ Sound(r) /\ Browse(s, r) /\ r.fault = s.fault
             /\ Full(r.groups) /\ AllFresh(r.groups)
             /\ s.selected = << >> => r.selected = << >>
             /\ s.local = "isearch" => r.line = s.line /\ r.pos = s.pos
             /\ AllBut(s, r, Fetching) /\ r.local \in {s.local, ""}
  <1> DEFINE p == prepare(s, s.cached)
             q == IF noCompletions(p) THEN ClearMenu(p, TRUE) ELSE p
             c == currentGroup(q.groups, q.cur)
             t == IF Len(q.groups) = 1 THEN [q EXCEPT !.cur = c] ELSE q
             a == acceptCandidate(t)
             r == IF hasUniqueCandidate(t.groups) /\ t.local # "isearch" THEN ClearMenu(a, TRUE) ELSE t
  <1>1. Generate(s) = r
    BY DEF Generate
  <1>2. /\ Sound(p) /\ AllBut(s, p, {"prefix", "cur", "groups"})
        /\ Full(p.groups) /\ AllFresh(p.groups) /\ p.cur = 0
    BY PrepareSound
  <1>3. /\ Browse(s, p) /\ p.fault = s.fault /\ p.selected = s.selected /\ p.line = s.line
        /\ p.pos = s.pos /\ AllBut(s, p, Fetching) /\ p.local = s.local
    <2>1. AllBut(s, p, Viewing) /\ AllBut(s, p, Fetching)
      BY <1>2 DEF AllBut, Viewing, Fetching
    <2>2. /\ p.fault = s.fault /\ p.selected = s.selected /\ p.line = s.line /\ p.pos = s.pos
          /\ p.local = s.local
      BY <1>2 DEF AllBut, Fields
    <2> QED
      BY <2>1, <2>2, ViewingBrowses
  <1> HIDE DEF p
  <1>4. /\ Sound(q) /\ Browse(p, q) /\ q.fault = p.fault /\ Full(q.groups) /\ AllFresh(q.groups)
        /\ s.selected = << >> => q.selected = << >>
        /\ p.local = "isearch" => q.line = p.line /\ q.pos = p.pos
        /\ noCompletions(p) \/ (q = p /\ ~noCompletions(q))
        /\ AllBut(p, q, Fetching) /\ q.local \in {p.local, ""}
    <2>1. CASE noCompletions(p)
      <3>1. q = ClearMenu(p, TRUE)
        BY <2>1
      <3>2. /\ Sound(q) /\ Browse(p, q) /\ q.fault = p.fault /\ q.selected = << >> /\ q.groups = << >>
            /\ p.local = "isearch" => AllBut(p, q, {"selected", "comp", "groups", "cur"})
            /\ AllBut(p, q, {"selected", "comp", "groups", "cur", "local"}) /\ q.local \in {p.local, ""}
        BY <1>2, <3>1, ClearMenuBrowses
      <3>3. Full(q.groups) /\ AllFresh(q.groups)
        <4> HIDE DEF q
        <4>1. q.groups = << >>
          BY <3>2
        <4> QED
          BY ONLY <4>1 DEF Full, AllFresh
      <3>4. p.local = "isearch" => q.line = p.line /\ q.pos = p.pos
        <4> HIDE DEF q
        <4> QED
          BY <3>2 DEF AllBut, Fields
      <3> HIDE DEF q
      <3>5. AllBut(p, q, Fetching)
        BY <3>2 DEF AllBut, Viewing, Fetching
      <3> QED
        BY <2>1, <3>2, <3>3, <3>4, <3>5
    <2>2. CASE ~noCompletions(p)
      <3>1. q = p
        BY <2>2
      <3>2. AllBut(p, p, Viewing) /\ AllBut(p, p, Fetching)
        BY DEF AllBut
      <3> HIDE DEF q
      <3> QED
        BY <1>2, <1>3, <2>2, <3>1, <3>2, ViewingBrowses
    <2> QED
      BY <2>1, <2>2
  <1> HIDE DEF q
  <1>5. q.groups \in Seq(Pane(Fit(q.prefix))) /\ q.cur \in 0 .. Len(q.groups) /\ Len(q.groups) \in Nat
    BY <1>4, SoundParts DEF Sound
  <1>6. c \in 0 .. Len(q.groups)
    BY <1>5, CurrentGroupGives
  <1> HIDE DEF c
  <1>7. /\ Sound(t) /\ Browse(q, t) /\ t.fault = q.fault /\ t.groups = q.groups
        /\ t.selected = q.selected /\ t.line = q.line /\ t.pos = q.pos /\ t.local = q.local
        /\ (Len(q.groups) = 1 => t.cur = c) /\ AllBut(q, t, Fetching)
    <2>1. CASE Len(q.groups) = 1
      <3>1. t = [q EXCEPT !.cur = c]
        BY <2>1
      <3> HIDE DEF t
      <3>2. /\ Sound(t) /\ AllBut(q, t, {"cur"}) /\ Browse(q, t) /\ t.fault = q.fault
            /\ t.groups = q.groups /\ t.cur = c
        <4>1. Sound(q)
          BY <1>4
        <4> QED
          BY ONLY <1>6, <3>1, <4>1, CurSound
      <3>3. t.selected = q.selected /\ t.line = q.line /\ t.pos = q.pos /\ t.local = q.local
        BY <3>2 DEF AllBut, Fields
      <3>4. AllBut(q, t, Fetching)
        BY <3>2 DEF AllBut, Viewing, Fetching
      <3> QED
        BY <3>2, <3>3, <3>4
    <2>2. CASE Len(q.groups) # 1
      <3>1. t = q
        BY <2>2
      <3>2. AllBut(q, q, Viewing) /\ AllBut(q, q, Fetching)
        BY DEF AllBut
      <3> HIDE DEF t
      <3> QED
        BY <1>4, <2>2, <3>1, <3>2, ViewingBrowses
    <2> QED
      BY <2>1, <2>2
  <1> HIDE DEF t
  <1>8. AllBut(s, t, Fetching)
    BY <1>3, <1>4, <1>7 DEF AllBut
  <1>9. t.local \in {s.local, ""}
    BY <1>3, <1>4, <1>7
  <1>10. Browse(s, t)
    <2>1. Browse(s, q)
      BY <1>3, <1>4, BrowseBoth
    <2> QED
      BY <1>7, <2>1, BrowseBoth
  <1>11. s.local = "isearch" => t.line = s.line /\ t.pos = s.pos /\ t.local = "isearch"
    <2>1. s.local = "isearch" => p.local = s.local /\ t.local = s.local
      BY <1>2, <1>10 DEF Browse, AllBut, Viewing, Fields
    <2> QED
      BY <1>3, <1>4, <1>7, <2>1
  <1>12. CASE hasUniqueCandidate(t.groups) /\ t.local # "isearch"
    <2>1. r = ClearMenu(a, TRUE)
      BY <1>12
    <2>2. Choosable(t)
      <3>1. Len(q.groups) = 1 /\ t.cur = c
        BY <1>7, <1>12 DEF hasUniqueCandidate
      <3>2. 1 \in 1 .. Len(t.groups) /\ t.groups[1].rows # << >> /\ Fresh(t.groups[1])
        <4>1. Full(t.groups) /\ AllFresh(t.groups) /\ Len(t.groups) = 1
          BY <1>4, <1>7, <3>1
        <4> QED
          BY ONLY <4>1 DEF Full, AllFresh
      <3>3. NonEmpty(q.groups) # {} /\ NonEmpty(q.groups) \subseteq 1 .. 1
        <4>1. DOMAIN q.groups = 1 .. 1
          BY <1>5, <3>1, LenProperties
        <4> QED
          BY <1>7, <3>2, <4>1 DEF NonEmpty
      <3>4. c \in 1 .. 1
        <4>1. q.cur = 0 => c \in NonEmpty(q.groups)
          BY <1>5, <3>3, CurrentGroupGives DEF c
        <4>2. q.cur # 0 => c = q.cur
          BY <1>5, CurrentGroupGives DEF c
        <4> QED
          BY <1>5, <3>1, <3>3, <4>1, <4>2
      <3>5. t.cur = 1
        BY <3>1, <3>4
      <3> QED
        BY <3>2, <3>5 DEF Choosable, Steady, Current
    <2>3. Sound(a) /\ AllBut(t, a, {"selected", "line", "pos", "prefix"})
      BY <1>7, <2>2, AcceptSound
    <2> HIDE DEF a
    <2>4. Browse(t, a) /\ a.fault = t.fault
      <3>1. AllBut(t, a, Viewing) /\ a.fault = t.fault
        BY <2>3 DEF AllBut, Viewing, Fields
      <3> QED
        BY <3>1, ViewingBrowses
    <2> HIDE DEF r
    <2>5. /\ Sound(r) /\ Browse(a, r) /\ r.fault = a.fault /\ r.selected = << >> /\ r.groups = << >>
          /\ AllBut(a, r, {"selected", "comp", "groups", "cur", "local"}) /\ r.local \in {a.local, ""}
      BY <2>1, <2>3, ClearMenuBrowses
    <2>6. Browse(s, r)
      <3>1. Browse(s, a)
        BY <1>10, <2>4, BrowseBoth
      <3> QED
        BY <2>5, <3>1, BrowseBoth
    <2>7. Full(r.groups) /\ AllFresh(r.groups)
      <3>1. r.groups = << >>
        BY <2>5
      <3> QED
        BY ONLY <3>1 DEF Full, AllFresh
    <2>8. r.fault = s.fault
      BY <1>3, <1>4, <1>7, <2>4, <2>5
    <2>9. AllBut(s, r, Fetching)
      <3>1. AllBut(t, a, Fetching)
        BY <2>3 DEF AllBut, Viewing, Fetching
      <3>2. AllBut(a, r, Fetching)
        BY <2>5 DEF AllBut, Viewing, Fetching
      <3> QED
        BY <1>8, <3>1, <3>2 DEF AllBut
    <2>10. r.local \in {s.local, ""}
      <3>1. a.local = t.local
        BY <2>3 DEF AllBut, Fields
      <3> QED
        BY <1>9, <2>5, <3>1
    <2> QED
      BY <1>1, <1>11, <1>12, <2>5, <2>6, <2>7, <2>8, <2>9, <2>10
  <1>13. CASE ~(hasUniqueCandidate(t.groups) /\ t.local # "isearch")
    <2>1. r = t
      BY <1>13
    <2> HIDE DEF r
    <2>2. Full(t.groups) /\ AllFresh(t.groups) /\ t.fault = s.fault
      BY <1>3, <1>4, <1>7
    <2>3. s.selected = << >> => t.selected = << >>
      BY <1>4, <1>7
    <2> QED
      BY <1>1, <1>7, <1>10, <1>11, <1>8, <1>9, <2>1, <2>2, <2>3
  <1> QED
    BY <1>12, <1>13

\* GenerateWith, by the completer that is cached or by none.
LEMMA GenerateWithSound ==
  ASSUME NEW s, Sound(s), NEW completer \in Cached
  PROVE  LET r == GenerateWith(s, completer)
         IN  /\ Sound(r) /\ Browse(s, r) /\ r.fault = s.fault
             /\ completer # "" => Full(r.groups) /\ AllFresh(r.groups)
             /\ completer = "" => AllBut(s, r, {"cached"})
             /\ s.selected = << >> => r.selected = << >>
             /\ s.local = "isearch" => r.line = s.line /\ r.pos = s.pos
             /\ AllBut(s, r, Fetching) /\ r.local \in {s.local, ""}
  <1> DEFINE b == [s EXCEPT !.cached = completer]
             r == GenerateWith(s, completer)
  <1>1. s \in Engine /\ DOMAIN s = Fields
    BY EngineDomain DEF Sound
  <1>2. b \in Engine /\ AllBut(s, b, {"cached"}) /\ b.cached = completer
    BY <1>1 DEF Engine, AllBut, Fields
  <1>3. r = IF completer = "" THEN b ELSE Generate(b)
    BY DEF GenerateWith
  <1> HIDE DEF b, r
  <1>4. Sound(b)
    BY <1>2, SoundAside
  <1>5. /\ b.fault = s.fault /\ b.selected = s.selected /\ b.line = s.line /\ b.pos = s.pos
        /\ b.local = s.local
    BY <1>2 DEF AllBut, Fields
  <1>6. Browse(s, b)
    <2>1. AllBut(s, b, Viewing)
      BY <1>2 DEF AllBut, Viewing
    <2> QED
      BY <2>1, ViewingBrowses
  <1>7. CASE completer = ""
    <2>1. AllBut(s, b, Fetching)
      BY <1>2 DEF AllBut, Viewing, Fetching
    <2> QED
      BY <1>2, <1>3, <1>4, <1>5, <1>6, <1>7, <2>1 DEF r
  <1>8. CASE completer # ""
    <2>1. b.cached \in {"commands", "history"} /\ r = Generate(b)
      BY <1>2, <1>3, <1>8 DEF Cached
    <2>2. /\ Sound(r) /\ Browse(b, r) /\ r.fault = b.fault
          /\ Full(r.groups) /\ AllFresh(r.groups)
          /\ b.selected = << >> => r.selected = << >>
          /\ b.local = "isearch" => r.line = b.line /\ r.pos = b.pos
          /\ AllBut(b, r, Fetching) /\ r.local \in {b.local, ""}
      BY <1>4, <2>1, GenerateSound
    <2>3. Browse(s, r)
      BY <1>6, <2>2, BrowseBoth
    <2>4. AllBut(s, r, Fetching)
      BY <1>2, <2>2 DEF AllBut, Viewing, Fetching
    <2> QED
      BY <1>5, <1>8, <2>2, <2>3, <2>4 DEF r
  <1> QED
    BY <1>7, <1>8

-----------------------------------------------------------------------------
(* Selecting                                                               *)

\* A group is replaced by one with the same candidates.
LEMMA SwapGroup ==
  ASSUME NEW P, NEW gs \in Seq(P), NEW i \in 1 .. Len(gs), NEW g \in P, g.rows = gs[i].rows
  PROVE  LET hs == [gs EXCEPT ![i] = g]
         IN  /\ hs \in Seq(P) /\ Len(hs) = Len(gs) /\ hs[i] = g
             /\ Full(gs) => Full(hs)
             /\ NonEmpty(hs) = NonEmpty(gs)
  <1> DEFINE hs == [gs EXCEPT ![i] = g]
  <1>1. Len(gs) \in Nat /\ DOMAIN gs = 1 .. Len(gs)
    BY LenProperties
  <1>2. hs \in Seq(P) /\ Len(hs) = Len(gs) /\ DOMAIN hs = DOMAIN gs /\ hs[i] = g
    BY <1>1
  <1>3. \A j \in 1 .. Len(gs) : hs[j].rows = gs[j].rows
    <2> SUFFICES ASSUME NEW j \in 1 .. Len(gs) PROVE hs[j].rows = gs[j].rows
      OBVIOUS
    <2>1. CASE j = i
      BY <1>2, <2>1
    <2>2. CASE j # i
      BY <1>1, <2>2
    <2> QED
      BY <2>1, <2>2
  <1> HIDE DEF hs
  <1>4. Full(gs) => Full(hs)
    BY <1>2, <1>3 DEF Full
  <1>5. NonEmpty(hs) = NonEmpty(gs)
    BY <1>1, <1>2, <1>3 DEF NonEmpty
  <1> QED
    BY <1>2, <1>4, <1>5 DEF hs

\* Other groups, and the same with another current one.
WithGroups(s, gs) == [s EXCEPT !.groups = gs]

Entered(s, to, g) == [s EXCEPT !.cur = to, !.groups[to] = g]

\* The groups are changed.
LEMMA GroupsSound ==
  ASSUME NEW s, Sound(s), NEW gs \in Seq(Pane(Fit(s.prefix))), s.cur \in 0 .. Len(gs),
         NEW r, r = WithGroups(s, gs)
  PROVE  /\ Sound(r) /\ AllBut(s, r, {"groups"}) /\ Browse(s, r) /\ r.fault = s.fault
         /\ r.groups = gs /\ r.cur = s.cur
  <1>1. s \in Engine /\ DOMAIN s = Fields
    BY EngineDomain DEF Sound
  <1>2. gs \in Menus
    <2>1. Fit(s.prefix) \subseteq Candidate
      BY DEF Fit
    <2> QED
      BY <2>1, PanesAreMenus
  <1>3. r \in Engine
    BY <1>1, <1>2 DEF Engine, WithGroups
  <1>4. AllBut(s, r, {"groups"})
    BY <1>1 DEF AllBut, WithGroups
  <1>5. r.groups = gs /\ r.cur = s.cur
    BY <1>1 DEF Fields, WithGroups
  <1>6. Sound(r)
    BY <1>3, <1>4, <1>5 DEF Sound, AllBut, Fields
  <1>7. AllBut(s, r, Viewing) /\ r.fault = s.fault
    BY <1>4 DEF AllBut, Viewing, Fields
  <1> QED
    BY <1>4, <1>5, <1>6, <1>7, ViewingBrowses

\* Entering a group with candidates, by its first cell or by its last one.
LEMMA EnterSound ==
  ASSUME NEW s, Sound(s), NEW to \in NonEmpty(s.groups), NEW g, NEW r,
         g = firstCell(s.groups[to]) \/ g = lastCell(s.groups[to]),
         r = Entered(s, to, g)
  PROVE  /\ Sound(r) /\ Browse(s, r) /\ r.fault = s.fault /\ Choosable(r)
         /\ Full(s.groups) => Full(r.groups)
  <1> DEFINE gs == s.groups
             hs == [gs EXCEPT ![to] = g]
             a == [s EXCEPT !.cur = to]
             P == Pane(Fit(s.prefix))
  <1>1. gs \in Seq(P) /\ s.prefix \in Line
    BY SoundParts DEF Sound
  <1>2. to \in 1 .. Len(gs) /\ gs[to].rows # << >> /\ Len(gs) \in Nat
    BY <1>1, LenProperties DEF NonEmpty
  <1>3. gs[to] \in P
    BY <1>1, <1>2, ElementOfSeq
  <1>4. g \in P /\ g.rows = gs[to].rows /\ Steady(g)
    BY <1>2, <1>3, FirstCellSteady, LastCellSteady
  <1> HIDE DEF P
  <1>5. hs \in Seq(P) /\ Len(hs) = Len(gs) /\ hs[to] = g /\ (Full(gs) => Full(hs))
    BY <1>1, <1>2, <1>4, SwapGroup
  <1>6. s \in Engine /\ DOMAIN s = Fields
    BY EngineDomain DEF Sound
  <1>7. r = WithGroups(a, hs)
    BY <1>6 DEF Fields, Entered, WithGroups
  <1>8. to \in 0 .. Len(s.groups)
    BY <1>2
  <1> HIDE DEF a
  <1>9. /\ Sound(a) /\ AllBut(s, a, {"cur"}) /\ Browse(s, a) /\ a.fault = s.fault /\ a.cur = to
        /\ a.groups = s.groups
    BY <1>8, CurSound DEF a
  <1>10. a.prefix = s.prefix
    BY <1>9 DEF AllBut, Fields
  <1>11. hs \in Seq(Pane(Fit(a.prefix))) /\ a.cur \in 0 .. Len(hs)
    BY <1>5, <1>8, <1>9, <1>10 DEF P
  <1> HIDE DEF hs
  <1>12. Sound(r) /\ Browse(a, r) /\ r.fault = a.fault /\ r.groups = hs /\ r.cur = a.cur
    BY <1>7, <1>9, <1>11, GroupsSound
  <1>13. Browse(s, r)
    BY <1>9, <1>12, BrowseBoth
  <1>14. Choosable(r)
    BY <1>2, <1>4, <1>5, <1>9, <1>12 DEF Choosable, Current
  <1> QED
    BY <1>5, <1>9, <1>12, <1>13, <1>14

\* The selector has moved, in its group or to another one: it is on a candidate.
LEMMA MovedSound ==
  ASSUME NEW s, Sound(s), s.cur \in 1 .. Len(s.groups), Current(s).rows # << >>,
         NEW m, Lands(m, Current(s))
  PROVE  LET r == Moved(s, m)
         IN  /\ Sound(r) /\ Browse(s, r) /\ r.fault = s.fault /\ Choosable(r)
             /\ Full(s.groups) => Full(r.groups)
  <1> DEFINE P == Pane(Fit(s.prefix))
             gs == s.groups
             hs == [gs EXCEPT ![s.cur] = m.g]
             a == [s EXCEPT !.groups[s.cur] = m.g]
             d == IF m.next THEN 1 ELSE -1
             to == CycleGroup(a.groups, a.cur, d)
             g == IF m.next THEN firstCell(a.groups[to]) ELSE lastCell(a.groups[to])
             b == [a EXCEPT !.cur = to, !.groups[to] = g]
             r == Moved(s, m)
  <1>1. gs \in Seq(P) /\ Len(gs) \in Nat
    BY SoundParts DEF Sound
  <1>2. Current(s) = gs[s.cur] /\ gs[s.cur] \in P
    BY <1>1, ElementOfSeq DEF Current
  <1>3. m.g \in P /\ m.g.rows = gs[s.cur].rows /\ (~m.done => Steady(m.g))
    BY <1>2, LandsGives
  <1> HIDE DEF P
  <1>4. /\ hs \in Seq(P) /\ Len(hs) = Len(gs) /\ hs[s.cur] = m.g /\ (Full(gs) => Full(hs))
        /\ NonEmpty(hs) = NonEmpty(gs)
    BY <1>1, <1>3, SwapGroup
  <1>5. s \in Engine /\ DOMAIN s = Fields
    BY EngineDomain DEF Sound
  <1>6. a = WithGroups(s, hs)
    BY <1>5 DEF Fields, WithGroups
  <1>7. r = IF m.done THEN b ELSE a
    BY DEF Moved
  <1> HIDE DEF a
  <1>8. Sound(a) /\ Browse(s, a) /\ a.fault = s.fault /\ a.groups = hs /\ a.cur = s.cur
    <2>1. hs \in Seq(Pane(Fit(s.prefix))) /\ s.cur \in 0 .. Len(hs)
      BY <1>1, <1>4 DEF P
    <2> HIDE DEF hs
    <2> QED
      BY <1>6, <2>1, GroupsSound
  <1> HIDE DEF r
  <1>9. CASE m.done
    <2>1. d \in {1, -1}
      OBVIOUS
    <2>2. s.cur \in NonEmpty(a.groups)
      <3>1. DOMAIN gs = 1 .. Len(gs)
        BY <1>1, LenProperties
      <3> QED
        BY <1>2, <1>4, <1>8, <3>1 DEF NonEmpty
    <2> HIDE DEF d
    <2>3. to \in NonEmpty(a.groups)
      <3>1. a.cur \in 0 .. Len(a.groups) /\ a.groups \in Seq(P)
        BY <1>1, <1>4, <1>8
      <3>2. NonEmpty(a.groups) # {}
        BY <2>2
      <3> QED
        BY <2>1, <3>1, <3>2, CycleStops
    <2> HIDE DEF to
    <2>4. g = firstCell(a.groups[to]) \/ g = lastCell(a.groups[to])
      OBVIOUS
    <2> HIDE DEF g
    <2>5. r = Entered(a, to, g)
      BY <1>7, <1>9 DEF Entered
    <2>6. /\ Sound(r) /\ Browse(a, r) /\ r.fault = a.fault /\ Choosable(r)
          /\ Full(a.groups) => Full(r.groups)
      <3> HIDE DEF hs
      <3>1. Sound(a) /\ to \in NonEmpty(a.groups)
        BY <1>8, <2>3
      <3> QED
        BY ONLY <2>4, <2>5, <3>1, EnterSound
    <2>7. Browse(s, r)
      BY <1>8, <2>6, BrowseBoth
    <2>8. Full(s.groups) => Full(r.groups)
      BY <1>4, <1>8, <2>6
    <2> QED
      BY <1>8, <2>6, <2>7, <2>8 DEF r
  <1>10. CASE ~m.done
    <2>1. r = a
      BY <1>7, <1>10
    <2>2. Choosable(a)
      BY <1>3, <1>4, <1>8, <1>10 DEF Choosable, Current
    <2>3. Full(s.groups) => Full(a.groups)
      BY <1>4, <1>8
    <2> QED
      BY <1>8, <2>1, <2>2, <2>3 DEF r
  <1> QED
    BY <1>9, <1>10

\* The keymap of the menu is set, except in a search.
LEMMA AdjustSound ==
  ASSUME NEW s, Sound(s)
  PROVE  LET r == adjustSelectKeymap(s)
         IN  /\ Sound(r) /\ Browse(s, r) /\ r.fault = s.fault
             /\ AllBut(s, r, {"local"}) /\ (s.local = "isearch" => r.local = "isearch")
  <1> DEFINE lo == IF s.local = "isearch" THEN s.local ELSE "menu-select"
             r == [s EXCEPT !.local = lo]
  <1>1. s \in Engine /\ DOMAIN s = Fields
    BY EngineDomain DEF Sound
  <1>2. adjustSelectKeymap(s) = r
    BY <1>1 DEF adjustSelectKeymap, Fields
  <1>3. lo \in Locals /\ (lo = "isearch" <=> s.local = "isearch")
    BY DEF Locals
  <1> HIDE DEF lo
  <1>4. r \in Engine /\ r.local = lo
    BY <1>1, <1>3 DEF Engine
  <1>5. AllBut(s, r, {"local"})
    BY <1>1 DEF AllBut
  <1> HIDE DEF r
  <1>6. Sound(r)
    BY <1>4, <1>5, SoundAside
  <1>7. r.fault = s.fault
    BY <1>5 DEF AllBut, Fields
  <1>8. Browse(s, r)
    <2>1. CASE s.local = "isearch"
      <3>1. AllBut(s, r, Viewing)
        BY <1>3, <1>4, <1>5, <2>1 DEF AllBut, Viewing
      <3> QED
        BY <3>1, ViewingBrowses
    <2>2. CASE s.local # "isearch"
      <3>1. AllBut(s, r, Viewing \cup {"local"})
        BY <1>5 DEF AllBut, Viewing
      <3> QED
        BY <1>3, <1>4, <2>2, <3>1, LocalBrowses
    <2> QED
      BY <2>1, <2>2
  <1> QED
    BY <1>2, <1>3, <1>4, <1>5, <1>6, <1>7, <1>8

\* The candidate that was inserted is taken back before the next one is.
LEMMA UninsertedSound ==
  ASSUME NEW s, Sound(s)
  PROVE  LET r == Uninserted(s)
         IN  /\ Sound(r) /\ Browse(s, r) /\ r.fault = s.fault /\ AllBut(s, r, {"comp", "selected"})
             /\ r.groups = s.groups /\ r.cur = s.cur
  <1> DEFINE r == Uninserted(s)
  <1>1. Sound(r) /\ AllBut(s, r, {"comp", "selected"})
    <2>1. CASE IsInserting(s)
      BY <2>1, CancelLineSound DEF Uninserted
    <2>2. CASE ~IsInserting(s)
      BY <2>2 DEF Uninserted, AllBut
    <2> QED
      BY <2>1, <2>2
  <1> HIDE DEF r
  <1>2. AllBut(s, r, Viewing) /\ r.fault = s.fault /\ r.groups = s.groups /\ r.cur = s.cur
    BY <1>1 DEF AllBut, Viewing, Fields
  <1>3. Browse(s, r)
    BY <1>2, ViewingBrowses
  <1> QED
    BY <1>1, <1>2, <1>3 DEF r

-----------------------------------------------------------------------------
(* Browsing                                                                *)

\* What a step of browsing guarantees: it is no fault, groups with candidates
\* are left with candidates, and the completed line stays in sync.
Views(s, r) ==
  /\ Sound(r) /\ Browse(s, r) /\ r.fault = s.fault
  /\ Full(s.groups) => Full(r.groups)
  /\ InSync(s) => InSync(r)

\* No step is one.
LEMMA ViewsSame ==
  ASSUME NEW s, Sound(s)
  PROVE  Views(s, s)
  <1>1. AllBut(s, s, Viewing)
    BY DEF AllBut
  <1> QED
    BY <1>1, ViewingBrowses DEF Views

\* One step after another.
LEMMA ViewsBoth ==
  ASSUME NEW s, NEW r, NEW t, Views(s, r), Views(r, t)
  PROVE  Views(s, t)
  <1>1. Browse(s, t)
    BY BrowseBoth DEF Views
  <1> QED
    BY <1>1 DEF Views

\* Select moves the selector to a candidate and inserts it, or finds none.
LEMMA SelectViews ==
  ASSUME NEW s, Sound(s), NEW d \in {1, -1}, NEW key
  PROVE  Views(s, Select(s, d, key))
  <1> DEFINE c == currentGroup(s.groups, s.cur)
             a == [s EXCEPT !.cur = c]
             b == adjustSelectKeymap(a)
             u == Uninserted(b)
             m == MoveBy(Current(a), d, key)
             v == Moved(u, m)
             w == refreshLine(v)
             r == Select(s, d, key)
  <1>1. s \in Engine /\ s.groups \in Seq(Pane(Fit(s.prefix))) /\ s.cur \in 0 .. Len(s.groups)
    BY SoundParts DEF Sound
  <1>2. c \in 0 .. Len(s.groups)
    BY <1>1, CurrentGroupGives
  <1>3. s.cur # 0 => c = s.cur
    BY <1>1, CurrentGroupGives
  <1>4. s.cur = 0 /\ c # 0 => c \in NonEmpty(s.groups)
    BY <1>1, CurrentGroupGives
  <1>5. r = IF a.cur = 0 THEN a ELSE IF Current(a).rows = << >> THEN a ELSE w
    BY DEF Select
  <1> HIDE DEF c, r
  <1>6. Sound(a) /\ Browse(s, a) /\ a.fault = s.fault /\ a.groups = s.groups /\ a.cur = c
    BY <1>2, CurSound
  <1>7. c = s.cur => a = s
    BY <1>1, SameCur
  <1> HIDE DEF a
  <1>8. CASE a.cur = 0 \/ Current(a).rows = << >>
    <2>1. r = a
      BY <1>5, <1>8
    <2>2. c = s.cur
      <3>1. c \notin NonEmpty(s.groups) \/ c = 0
        BY <1>6, <1>8 DEF NonEmpty, Current
      <3> QED
        BY <1>3, <1>4, <3>1
    <2> QED
      BY <1>7, <2>1, <2>2, ViewsSame DEF r
  <1>9. CASE ~(a.cur = 0 \/ Current(a).rows = << >>)
    <2>1. r = w
      BY <1>5, <1>9
    <2> HIDE DEF m, v, w
    <2>2. /\ Sound(b) /\ Browse(a, b) /\ b.fault = a.fault /\ AllBut(a, b, {"local"})
      BY <1>6, AdjustSound
    <2> HIDE DEF b
    <2>3. b.groups = a.groups /\ b.cur = a.cur
      BY <2>2 DEF AllBut, Fields
    <2>4. /\ Sound(u) /\ Browse(b, u) /\ u.fault = b.fault /\ u.groups = b.groups /\ u.cur = b.cur
      BY <2>2, UninsertedSound
    <2> HIDE DEF u
    <2>5. Current(u) = Current(a) /\ Current(u).rows # << >>
      BY <1>9, <2>3, <2>4 DEF Current
    <2>6. u.cur \in 1 .. Len(u.groups) /\ Len(u.groups) \in Nat
      BY <1>9, <2>3, <2>4, SoundParts DEF Sound
    <2>7. Current(u) \in Pane(Fit(u.prefix))
      <3>1. u.groups \in Seq(Pane(Fit(u.prefix)))
        BY <2>4 DEF Sound
      <3> QED
        BY <2>6, <3>1, ElementOfSeq DEF Current
    <2>8. Lands(m, Current(u))
      BY <2>5, <2>7, MoveLands DEF m
    <2>9. /\ Sound(v) /\ Browse(u, v) /\ v.fault = u.fault /\ Choosable(v)
          /\ Full(u.groups) => Full(v.groups)
      BY <2>4, <2>5, <2>6, <2>8, MovedSound DEF v
    <2>10. /\ Sound(w) /\ Browse(v, w) /\ w.fault = v.fault /\ Inserted(w)
           /\ Full(v.groups) => Full(w.groups)
      BY <2>9, RefreshSound DEF w
    <2>11. Browse(s, w)
      <3>1. Browse(s, b)
        BY <1>6, <2>2, BrowseBoth
      <3>2. Browse(s, u)
        BY <2>4, <3>1, BrowseBoth
      <3>3. Browse(s, v)
        BY <2>9, <3>2, BrowseBoth
      <3> QED
        BY <2>10, <3>3, BrowseBoth
    <2>12. InSync(w)
      BY <2>10, InsertedInSync
    <2>13. Full(s.groups) => Full(w.groups)
      BY <1>6, <2>3, <2>4, <2>9, <2>10
    <2>14. w.fault = s.fault
      BY <1>6, <2>2, <2>4, <2>9, <2>10
    <2> QED
      BY <2>1, <2>10, <2>11, <2>12, <2>13, <2>14 DEF r, Views
  <1> QED
    BY <1>8, <1>9

\* SelectTag enters another group, if not all of several are empty.
LEMMA SelectTagViews ==
  ASSUME NEW s, Sound(s), NEW d \in {1, -1}, InSync(s)
  PROVE  LET r == SelectTag(s, d)
         IN  /\ Sound(r) /\ Browse(s, r) /\ InSync(r)
             /\ Full(s.groups) => Full(r.groups) /\ r.fault = s.fault
  <1> DEFINE b == adjustSelectKeymap(s)
             u == Uninserted(b)
             to == CycleGroup(b.groups, b.cur, d)
             g == firstCell(u.groups[to])
             v == [u EXCEPT !.cur = to, !.groups[to] = firstCell(@)]
             w == refreshLine(v)
             x == [b EXCEPT !.fault = TRUE]
             r == SelectTag(s, d)
  <1>1. r = IF Len(b.groups) <= 1 THEN b ELSE IF noCompletions(b) THEN x ELSE w
    BY DEF SelectTag
  <1> HIDE DEF r
  <1>2. /\ Sound(b) /\ Browse(s, b) /\ b.fault = s.fault /\ AllBut(s, b, {"local"})
    BY AdjustSound
  <1> HIDE DEF b
  <1>3. b.groups = s.groups /\ b.cur = s.cur /\ InSync(b)
    <2>1. /\ b.groups = s.groups /\ b.cur = s.cur /\ b.selected = s.selected /\ b.comp = s.comp
          /\ b.main = s.main /\ b.line = s.line /\ b.pos = s.pos /\ b.prefix = s.prefix
      BY <1>2 DEF AllBut, Fields
    <2>2. Complete(b, s.selected) = Complete(s, s.selected)
      BY <2>1, CompleteSame
    <2> QED
      BY <2>1, <2>2 DEF InSync, IsInserting
  <1>4. CASE Len(b.groups) <= 1
    <2>1. r = b
      BY <1>1, <1>4
    <2> QED
      BY <1>2, <1>3, <2>1 DEF r
  <1>5. CASE ~(Len(b.groups) <= 1) /\ noCompletions(b)
    <2>1. r = x
      BY <1>1, <1>5
    <2>2. b \in Engine /\ DOMAIN b = Fields
      BY <1>2, EngineDomain DEF Sound
    <2>3. x \in Engine
      BY <2>2 DEF Engine
    <2>4. AllBut(b, x, {"fault"})
      BY <2>2 DEF AllBut
    <2> HIDE DEF x
    <2>5. Sound(x)
      BY <1>2, <2>3, <2>4, SoundAside
    <2>6. Browse(s, x)
      <3>1. AllBut(b, x, Viewing)
        BY <2>4 DEF AllBut, Viewing
      <3>2. Browse(b, x)
        BY <3>1, ViewingBrowses
      <3> QED
        BY <1>2, <3>2, BrowseBoth
    <2>7. InSync(x)
      <3>1. /\ x.groups = b.groups /\ x.cur = b.cur /\ x.selected = b.selected /\ x.comp = b.comp
            /\ x.main = b.main /\ x.line = b.line /\ x.pos = b.pos /\ x.prefix = b.prefix
        BY <2>4 DEF AllBut, Fields
      <3>2. Complete(x, b.selected) = Complete(b, b.selected)
        BY <3>1, CompleteSame
      <3> QED
        BY <1>3, <3>1, <3>2 DEF InSync, IsInserting
    <2>8. ~Full(s.groups)
      <3>1. b.groups \in Seq(Pane(Fit(b.prefix))) /\ Len(b.groups) \in Nat
        BY <1>2, SoundParts DEF Sound
      <3>2. 1 \in DOMAIN b.groups /\ 1 \in 1 .. Len(b.groups)
        BY <1>5, <3>1, LenProperties
      <3> QED
        BY <1>3, <1>5, <3>2 DEF noCompletions, NonEmpty, Full
    <2> QED
      BY <2>1, <2>5, <2>6, <2>7, <2>8 DEF r
  <1>6. CASE ~(Len(b.groups) <= 1) /\ ~noCompletions(b)
    <2>1. r = w
      BY <1>1, <1>6
    <2>2. to \in NonEmpty(b.groups)
      <3>1. b.groups \in Seq(Pane(Fit(b.prefix))) /\ b.cur \in 0 .. Len(b.groups)
        BY <1>2 DEF Sound
      <3>2. NonEmpty(b.groups) # {}
        BY <1>6 DEF noCompletions
      <3> QED
        BY <3>1, <3>2, CycleStops
    <2> HIDE DEF to
    <2>3. /\ Sound(u) /\ Browse(b, u) /\ u.fault = b.fault /\ u.groups = b.groups /\ u.cur = b.cur
      BY <1>2, UninsertedSound
    <2>4. v = Entered(u, to, g)
      <3>1. DOMAIN u = Fields
        BY <2>3, EngineDomain DEF Sound
      <3> QED
        BY <3>1 DEF Entered, Fields
    <2> HIDE DEF u, v, w
    <2>5. /\ Sound(v) /\ Browse(u, v) /\ v.fault = u.fault /\ Choosable(v)
          /\ Full(u.groups) => Full(v.groups)
      <3>1. to \in NonEmpty(u.groups)
        BY <2>2, <2>3
      <3>2. g = firstCell(u.groups[to])
        OBVIOUS
      <3> HIDE DEF g
      <3> QED
        BY <2>3, <2>4, <3>1, <3>2, EnterSound
    <2>6. /\ Sound(w) /\ Browse(v, w) /\ w.fault = v.fault /\ Inserted(w)
          /\ Full(v.groups) => Full(w.groups)
      BY <2>5, RefreshSound DEF w
    <2>7. Browse(s, w)
      <3>1. Browse(s, u)
        BY <1>2, <2>3, BrowseBoth
      <3>2. Browse(s, v)
        BY <2>5, <3>1, BrowseBoth
      <3> QED
        BY <2>6, <3>2, BrowseBoth
    <2>8. InSync(w)
      BY <2>6, InsertedInSync
    <2>9. (Full(s.groups) => Full(w.groups)) /\ w.fault = s.fault
      BY <1>2, <1>3, <2>3, <2>5, <2>6
    <2> QED
      BY <2>1, <2>6, <2>7, <2>8, <2>9 DEF r
  <1> QED
    BY <1>4, <1>5, <1>6

\* A completed line stays in sync when nothing it depends on is changed.
LEMMA InSyncAside ==
  ASSUME NEW s, NEW r, NEW F, InSync(s), AllBut(s, r, F),
         {"line", "pos", "prefix", "selected", "comp", "cur", "groups", "main"} \cap F = {}
  PROVE  InSync(r)
  <1>1. /\ r.groups = s.groups /\ r.cur = s.cur /\ r.selected = s.selected /\ r.comp = s.comp
        /\ r.main = s.main /\ r.line = s.line /\ r.pos = s.pos /\ r.prefix = s.prefix
    BY DEF AllBut, Fields
  <1>2. Complete(r, s.selected) = Complete(s, s.selected)
    BY <1>1, CompleteSame
  <1> QED
    BY <1>1, <1>2 DEF InSync, IsInserting

\* So does one without a candidate.
LEMMA InSyncNone ==
  ASSUME NEW r, r.selected = << >>
  PROVE  InSync(r)
  BY DEF InSync, IsInserting

\* Cancelling the inserted candidate, or putting it in the line.
LEMMA CancelViews ==
  ASSUME NEW s, Sound(s), NEW inserted \in BOOLEAN, NEW cached \in BOOLEAN
  PROVE  Views(s, Cancel(s, inserted, cached)) /\ Cancel(s, inserted, cached).selected = << >>
  <1> DEFINE r == Cancel(s, inserted, cached)
  <1>1. /\ Sound(r) /\ AllBut(s, r, {"line", "pos", "comp", "selected", "cached"})
        /\ r.selected = << >>
    BY CancelSound
  <1> HIDE DEF r
  <1>2. AllBut(s, r, Viewing) /\ r.fault = s.fault /\ r.groups = s.groups
    BY <1>1 DEF AllBut, Viewing, Fields
  <1> QED
    BY <1>1, <1>2, ViewingBrowses, InSyncNone DEF Views, r

\* Closing the menu, with its candidates or without.
LEMMA ClearMenuViews ==
  ASSUME NEW s, Sound(s), NEW comps \in BOOLEAN
  PROVE  Views(s, ClearMenu(s, comps)) /\ ClearMenu(s, comps).selected = << >>
  <1> DEFINE r == ClearMenu(s, comps)
  <1>1. /\ Sound(r) /\ Browse(s, r) /\ r.fault = s.fault /\ r.selected = << >>
        /\ r.groups = (IF comps THEN << >> ELSE s.groups)
    BY ClearMenuBrowses
  <1> HIDE DEF r
  <1>2. Full(<< >>)
    BY DEF Full
  <1> QED
    BY <1>1, <1>2, InSyncNone DEF Views, r

\* A menu is opened outside of incremental searches.
LEMMA StartViews ==
  ASSUME NEW s, Sound(s), s.local # "isearch"
  PROVE  Views(s, startMenuComplete(s, "commands"))
  <1> DEFINE a == [s EXCEPT !.local = "menu-select"]
             r == startMenuComplete(s, "commands")
  <1>1. s \in Engine /\ DOMAIN s = Fields
    BY EngineDomain DEF Sound
  <1>2. a \in Engine /\ AllBut(s, a, {"local"}) /\ a.local = "menu-select"
    <2>1. "menu-select" \in Locals
      BY DEF Locals
    <2> QED
      BY <1>1, <2>1 DEF Engine, AllBut, Fields
  <1>3. r = GenerateWith(a, "commands")
    BY DEF startMenuComplete
  <1> HIDE DEF a, r
  <1>4. Sound(a) /\ a.fault = s.fault
    <2>1. Sound(a)
      BY <1>2, SoundAside
    <2> QED
      BY <1>2, <2>1 DEF AllBut, Fields
  <1>5. Browse(s, a)
    <2>1. AllBut(s, a, Viewing \cup {"local"})
      BY <1>2 DEF AllBut, Viewing
    <2> QED
      BY <1>2, <2>1, LocalBrowses
  <1>6. /\ Sound(r) /\ Browse(a, r) /\ r.fault = a.fault /\ Full(r.groups) /\ AllFresh(r.groups)
    <2>1. "commands" \in Cached
      BY DEF Cached
    <2> QED
      BY <1>3, <1>4, <2>1, GenerateWithSound
  <1>7. Browse(s, r) /\ InSync(r)
    BY <1>5, <1>6, BrowseBoth, FreshInSync
  <1> QED
    BY <1>4, <1>6, <1>7 DEF Views, r

\* An incremental search is active.
LEMMA SearchIsActive ==
  ASSUME NEW s, s.local = "isearch"
  PROVE  IsActive(s)
  BY DEF IsActive, Searching

\* The menu that the completion commands work on.
LEMMA StartedViews ==
  ASSUME NEW s, Sound(s)
  PROVE  Views(s, Started(s))
  BY ViewsSame, StartViews, SearchIsActive DEF Started

\* The completion commands.
LEMMA MenuCompleteViews ==
  ASSUME NEW s, Sound(s), NEW key
  PROVE  Views(s, menuComplete(s, key)) /\ Views(s, menuCompleteBackward(s, key))
  <1> DEFINE a == Started(s)
  <1>1. Views(s, a) /\ Sound(a)
    BY StartedViews DEF Views
  <1>2. /\ menuComplete(s, key) \in {a, Select(a, 1, key)}
        /\ menuCompleteBackward(s, key) = Select(a, -1, key)
    BY DEF menuComplete, menuCompleteBackward
  <1> HIDE DEF a
  <1>3. Views(a, Select(a, 1, key)) /\ Views(a, Select(a, -1, key))
    BY <1>1, SelectViews
  <1> QED
    BY <1>1, <1>2, <1>3, ViewsBoth

\* The inserted candidate is accepted and the next one inserted.
LEMMA AcceptAndMenuViews ==
  ASSUME NEW s, Sound(s)
  PROVE  Views(s, acceptAndMenuComplete(s))
  <1> DEFINE a == Cancel(s, FALSE, FALSE)
  <1>1. Views(s, a) /\ Sound(a)
    BY CancelViews DEF Views
  <1>2. acceptAndMenuComplete(s) \in {s, Select(a, 1, "key")}
    BY DEF acceptAndMenuComplete
  <1> HIDE DEF a
  <1>3. Views(a, Select(a, 1, "key"))
    BY <1>1, SelectViews
  <1> QED
    BY <1>1, <1>2, <1>3, ViewsBoth, ViewsSame

\* A character is deleted, or the candidates are listed at the end of the line.
LEMMA DeleteOrListViews ==
  ASSUME NEW s, Sound(s), s.local # "isearch", s.selected = << >>
  PROVE  Views(s, deleteCharOrList(s))
  <1> DEFINE l == CutRune(s.line, s.pos)
             a == [s EXCEPT !.line = l]
  <1>1. CASE s.pos < Len(s.line)
    <2>1. s \in Engine /\ DOMAIN s = Fields
      BY EngineDomain DEF Sound
    <2>2. s.line \in Line /\ s.pos \in 0 .. Len(s.line) /\ Len(s.line) \in Nat
      BY SoundParts DEF Sound
    <2>3. l \in Line /\ Len(l) = Len(s.line) - 1
      BY <1>1, <2>2, CutRuneGives
    <2> HIDE DEF l
    <2>4. a \in Engine
      BY <2>1, <2>3 DEF Engine
    <2>5. AllBut(s, a, {"line"}) /\ a.line = l
      BY <2>1 DEF AllBut, Fields
    <2>6. deleteCharOrList(s) = a
      BY <1>1 DEF deleteCharOrList, l
    <2> HIDE DEF a
    <2>7. a.pos = s.pos /\ a.selected = s.selected /\ a.groups = s.groups /\ a.fault = s.fault
      BY <2>5 DEF AllBut, Fields
    <2>8. a.pos \in 0 .. Len(a.line)
      BY <1>1, <2>2, <2>3, <2>5, <2>7
    <2>9. Sound(a)
      BY <2>4, <2>5, <2>8 DEF Sound, AllBut, Fields
    <2>10. AllBut(s, a, Viewing)
      BY <2>5 DEF AllBut, Viewing
    <2> QED
      BY <2>6, <2>7, <2>9, <2>10, ViewingBrowses, InSyncNone DEF Views
  <1>2. CASE ~(s.pos < Len(s.line))
    BY <1>2, StartViews DEF deleteCharOrList, possibleCompletions
  <1> QED
    BY <1>1, <1>2

\* Every candidate is inserted in turn.
LEMMA InsertCompletionsViews ==
  ASSUME NEW s, Sound(s)
  PROVE  Views(s, insertCompletions(s))
  <1> DEFINE Step(r, i) == IF i > Matches(r) THEN r ELSE Cancel(Select(r, 1, "key"), FALSE, FALSE)
             a == Started(s)
             n == Matches(a)
             Def(f) == [i \in 0 .. n |-> IF i = 0 THEN a ELSE Step(f[i - 1], i)]
             f == CHOOSE f : f = Def(f)
             S == {r \in Engine : Views(a, r)}
             step == [x \in S \X Nat |-> Step(x[1], x[2])]
             b == Cancel(f[n], FALSE, FALSE)
  <1>1. insertCompletions(s) = ClearMenu(b, TRUE)
    BY DEF insertCompletions
  <1>2. Views(s, a) /\ Sound(a)
    BY StartedViews DEF Views
  <1> HIDE DEF a
  <1>3. n \in Nat
    <2> DEFINE q == [i \in DOMAIN a.groups |-> FlattenSeq(a.groups[i].rows)]
    <2>1. a.groups \in Seq(Pane(Fit(a.prefix)))
      BY <1>2 DEF Sound
    <2>2. Len(a.groups) \in Nat /\ DOMAIN a.groups = 1 .. Len(a.groups)
      BY <2>1, LenProperties
    <2>3. ASSUME NEW i \in 1 .. Len(a.groups) PROVE FlattenSeq(a.groups[i].rows) \in Seq(Candidate)
      <3>1. a.groups[i] \in Pane(Fit(a.prefix))
        BY <2>1, ElementOfSeq
      <3>2. a.groups[i].rows \in Seq(NotEmpty(Fit(a.prefix)))
        BY <3>1 DEF Pane, Group
      <3>3. FlattenSeq(a.groups[i].rows) \in Seq(Fit(a.prefix))
        BY <3>2, NotEmptyRows, FlattenGives
      <3> QED
        BY <3>3 DEF Fit
    <2>4. q \in Seq(Seq(Candidate))
      BY <2>2, <2>3
    <2>5. n = Len(FlattenSeq(q))
      BY DEF Matches
    <2> HIDE DEF q, n
    <2>6. FlattenSeq(q) \in Seq(Candidate)
      BY <2>4, FlattenGives
    <2> QED
      BY <2>5, <2>6
  <1> HIDE DEF n
  <1>4. ASSUME NEW r \in S, NEW i PROVE Step(r, i) \in S
    <2>1. Views(a, r) /\ Sound(r)
      BY DEF Views
    <2> DEFINE x == Select(r, 1, "key")
               y == Cancel(x, FALSE, FALSE)
    <2>2. Views(r, x) /\ Sound(x)
      BY <2>1, SelectViews DEF Views
    <2> HIDE DEF x
    <2>3. Views(x, y)
      BY <2>2, CancelViews
    <2>4. Step(r, i) \in {r, y}
      BY DEF x
    <2> HIDE DEF y
    <2>5. Views(a, y)
      <3>1. Views(a, x)
        BY <2>1, <2>2, ViewsBoth
      <3> QED
        BY <2>3, <3>1, ViewsBoth
    <2>6. y \in S
      BY <2>5 DEF Views, Sound
    <2> HIDE DEF S, Step
    <2> QED
      BY <2>4, <2>6
  <1>5. a \in S
    BY <1>2, ViewsSame DEF Sound
  <1>6. \E g : g = Def(g)
    <2>1. step \in [S \X Nat -> S]
      <3> HIDE DEF Step, S
      <3> QED
        BY <1>4
    <2>2. ASSUME NEW r \in S, NEW i \in Nat PROVE step[<<r, i>>] = Step(r, i)
      <3> HIDE DEF Step, S
      <3> QED
        OBVIOUS
    <2> HIDE DEF step, S
    <2>3. PICK g \in [0 .. n -> S] : FoldsTo(g, a, step, n)
      BY <1>3, <1>5, <2>1, PrimitiveRecursion
    <2> HIDE DEF Step
    <2>4. ASSUME NEW i \in 0 .. n PROVE g[i] = IF i = 0 THEN a ELSE Step(g[i - 1], i)
      <3>1. CASE i = 0
        BY <2>3, <3>1 DEF FoldsTo
      <3>2. CASE i # 0
        <4>1. i \in 1 .. n /\ i \in Nat /\ i - 1 \in 0 .. n
          BY <1>3, <3>2
        <4>2. g[i - 1] \in S
          BY <2>3, <4>1
        <4> QED
          BY <2>2, <2>3, <3>2, <4>1, <4>2 DEF FoldsTo
      <3> QED
        BY <3>1, <3>2
    <2> QED
      BY <2>3, <2>4
  <1>7. f = Def(f)
    <2> HIDE DEF Def
    <2> QED
      BY <1>6
  <1> HIDE DEF f, Step, S
  <1>8. f[n] \in S
    <2> DEFINE B == {i \in Nat : i \in 0 .. n => f[i] \in S}
    <2>1. 0 \in B
      BY <1>3, <1>5, <1>7
    <2>2. ASSUME NEW i \in Nat, i \in B PROVE i + 1 \in B
      <3> SUFFICES ASSUME i + 1 \in 0 .. n PROVE f[i + 1] \in S
        OBVIOUS
      <3>1. i \in 0 .. n /\ i + 1 # 0 /\ i + 1 - 1 = i
        BY <1>3
      <3>2. f[i + 1] = Step(f[i], i + 1)
        BY <1>7, <3>1
      <3> QED
        BY <1>4, <2>2, <3>1, <3>2
    <2>3. Nat \subseteq B
      <3> HIDE DEF B
      <3> QED
        BY <2>1, <2>2, NatSetInduction
    <2>4. n \in B
      BY <1>3, <2>3
    <2> QED
      BY <1>3, <2>4
  <1> DEFINE z == f[n]
  <1>9. Views(a, z) /\ Sound(z)
    BY <1>8 DEF S, Views
  <1>10. b = Cancel(z, FALSE, FALSE)
    OBVIOUS
  <1> HIDE DEF z, b
  <1>11. Views(z, b) /\ Sound(b)
    BY <1>9, <1>10, CancelViews DEF Views
  <1>12. Views(b, ClearMenu(b, TRUE))
    BY <1>11, ClearMenuViews
  <1>13. Views(s, b)
    <2>1. Views(s, z)
      BY <1>2, <1>9, ViewsBoth
    <2> QED
      BY <1>11, <2>1, ViewsBoth
  <1> QED
    BY <1>1, <1>12, <1>13, ViewsBoth

-----------------------------------------------------------------------------
(* Between commands                                                        *)

\* What holds of the engine after a command, and once the display is refreshed.
Ready(s) == Sound(s) /\ Modes(s) /\ InSync(s)

Good(s) == Ready(s) /\ (s.auto => s.local = "")

\* The check of the cursor only moves it in vi-command mode.
LEMMA CheckCursorReady ==
  ASSUME NEW before, NEW s, Ready(s)
  PROVE  LET r == CheckCursor(before, s)
         IN  Ready(r) /\ AllBut(s, r, {"pos"}) /\ r.line = s.line
  <1> DEFINE p == IF s.main = "vi-command" THEN CheckCommand(s.line, s.pos)
                  ELSE CheckAppend(s.line, s.pos)
             a == [s EXCEPT !.pos = p]
             r == CheckCursor(before, s)
  <1>1. s \in Engine /\ DOMAIN s = Fields /\ s.line \in Line /\ s.pos \in 0 .. Len(s.line)
        /\ Len(s.line) \in Nat
    BY EngineDomain, SoundParts DEF Ready, Sound
  <1>2. r = s \/ r = a
    BY <1>1 DEF CheckCursor, Fields
  <1>3. p \in 0 .. Len(s.line) /\ (s.main # "vi-command" => p = s.pos)
    <2>1. CheckCommand(s.line, s.pos) \in 0 .. Len(s.line)
      BY <1>1, CommandRange
    <2>2. CheckAppend(s.line, s.pos) = s.pos
      BY <1>1, AppendRange
    <2> QED
      BY <1>1, <2>1, <2>2
  <1> HIDE DEF p
  <1>4. a \in Engine
    BY <1>1, <1>3 DEF Engine
  <1>5. AllBut(s, a, {"pos"}) /\ a.pos = p
    BY <1>1 DEF AllBut, Fields
  <1>6. s.main # "vi-command" => a = s
    BY <1>1, <1>3 DEF Engine
  <1> HIDE DEF a, r
  <1>7. /\ a.line = s.line /\ a.main = s.main /\ a.local = s.local /\ a.buf = s.buf
        /\ a.nonInc = s.nonInc /\ a.selected = s.selected /\ a.groups = s.groups
    BY <1>5 DEF AllBut, Fields
  <1>8. Sound(a)
    BY <1>3, <1>4, <1>5 DEF Ready, Sound, AllBut, Fields
  <1>9. Modes(a)
    BY <1>7 DEF Ready, Modes
  <1>10. InSync(a)
    BY <1>6, <1>7 DEF Ready, InSync
  <1>11. AllBut(s, s, {"pos"})
    BY DEF AllBut
  <1> QED
    BY <1>2, <1>5, <1>7, <1>8, <1>9, <1>10, <1>11 DEF Ready, r

\* What a search filters groups by.
Searched(gs, n, buf) ==
  LET Filtered(g) == FilterGroup(g, n, LAMBDA v : Found(v, buf))
  IN  Map(gs, Filtered)

\* The groups that a search filters are groups of the same candidates.
LEMMA FilteredGroups ==
  ASSUME NEW P, NEW gs \in Seq(Pane(P)), NEW n \in Nat \ {0}, NEW buf
  PROVE  Searched(gs, n, buf) \in Seq(Pane(P)) /\ Len(Searched(gs, n, buf)) = Len(gs)
  <1> DEFINE Filtered(g) == FilterGroup(g, n, LAMBDA v : Found(v, buf))
             T(g) == {v \in Range(FlattenSeq(g.rows)) : Found(v, buf)}
             hs == Searched(gs, n, buf)
  <1>1. Len(gs) \in Nat /\ DOMAIN gs = 1 .. Len(gs)
    BY LenProperties
  <1>2. hs = [i \in 1 .. Len(gs) |-> Filtered(gs[i])]
    BY <1>1, Zenon DEF Map, Searched
  <1>3. ASSUME NEW i \in 1 .. Len(gs) PROVE Filtered(gs[i]) \in Pane(P)
    <2> DEFINE g == gs[i]
    <2>1. g \in Pane(P)
      BY ElementOfSeq
    <2>2. Filtered(g) = Layout(Keep(FlattenSeq(g.rows), T(g)), n, g.aliased)
      BY Zenon DEF FilterGroup, Filter
    <2> HIDE DEF g, T, Filtered
    <2>3. Filtered(g) \in Pane(P)
      BY <2>1, <2>2, FilterGroupGives
    <2> QED
      BY <2>3 DEF g
  <1> HIDE DEF hs, Filtered
  <1>4. hs \in [1 .. Len(gs) -> Pane(P)]
    BY <1>2, <1>3
  <1>5. hs \in Seq(Pane(P)) /\ Len(hs) = Len(gs)
    BY <1>1, <1>4
  <1> QED
    BY <1>5 DEF hs, Filtered

\* The line is cleared for the match of a search.
LEMMA BlankSound ==
  ASSUME NEW s, Sound(s), NEW r, r = [s EXCEPT !.prefix = << >>, !.line = << >>, !.pos = 0]
  PROVE  Sound(r) /\ AllBut(s, r, {"prefix", "line", "pos"})
  <1>1. s \in Engine /\ DOMAIN s = Fields /\ s.prefix \in Line
    BY EngineDomain, SoundParts DEF Sound
  <1>2. << >> \in Line /\ Len(<< >>) = 0
    BY DEF Line
  <1>3. r \in Engine
    <2> DEFINE x == [s EXCEPT !.prefix = << >>, !.line = << >>]
    <2>1. x \in Engine
      BY <1>1, <1>2 DEF Engine
    <2>2. r = [x EXCEPT !.pos = 0]
      BY <1>1
    <2> HIDE DEF x
    <2>3. 0 \in Int
      OBVIOUS
    <2> QED
      BY ONLY <2>1, <2>2, <2>3 DEF Engine
  <1>4. AllBut(s, r, {"prefix", "line", "pos"})
    BY <1>1 DEF AllBut
  <1>5. r.prefix = << >> /\ r.line = << >> /\ r.pos = 0
    BY <1>1 DEF Fields
  <1>6. s.groups \in Seq(Pane(Fit(<< >>)))
    <2>1. s.groups \in Seq(Pane(Fit(s.prefix)))
      BY DEF Sound
    <2> QED
      BY <1>1, <2>1, FitsNothing
  <1>7. r.pos \in 0 .. Len(r.line)
    BY <1>2, <1>5
  <1> QED
    BY <1>3, <1>4, <1>5, <1>6, <1>7 DEF Sound, AllBut, Fields

\* What a search is shown by: the menu is generated and filtered again, and a
\* match is inserted in the line that is cleared for it, or the line is put
\* back.
LEMMA SearchShown ==
  ASSUME NEW s, Ready(s), s.local = "isearch", s.selected = << >>
  PROVE  LET r == updateIncrementalSearch(s)
         IN  /\ Sound(r) /\ InSync(r) /\ r.fault = s.fault
             /\ AllBut(s, r, Viewing \cup {"regex"})
             /\ s.buf = << >> /\ s.replace => r.line = s.startBuf
  <1> DEFINE rx == IF s.buf \in Malformed THEN Nil ELSE s.buf
             a == [s EXCEPT !.regex = rx]
             g == GenerateWith(a, s.cached)
             n == ColumnsOf(s)
             Filtered(x) == FilterGroup(x, n, LAMBDA v : Found(v, s.buf))
             hs == IF rx = Nil THEN g.groups ELSE Map(g.groups, Filtered)
             k == [g EXCEPT !.groups = hs]
             b == [k EXCEPT !.prefix = << >>, !.line = << >>, !.pos = 0]
             c == IF s.replace THEN b ELSE k
             back == SetLine(k, s.startBuf, s.startPos)
             w == Select(c, 1, "key")
             r == updateIncrementalSearch(s)
             F == Viewing \cup {"regex"}
  <1>1. r = IF s.insert /\ Matches(k) > 0 /\ s.buf # << >> THEN w
            ELSE IF s.replace THEN back ELSE k
    <2>1. g \in Engine
      <3>1. a \in Engine /\ s.cached \in Cached
        BY DEF Engine, Ready, Sound, Buffers
      <3>2. Sound(a)
        <4>1. AllBut(s, a, {"regex"})
          BY EngineDomain DEF AllBut, Ready, Sound
        <4> HIDE DEF a
        <4> QED
          BY <3>1, <4>1, SoundAside DEF Ready
      <3> HIDE DEF a
      <3> QED
        BY <3>1, <3>2, GenerateWithSound DEF Sound
    <2>2. DOMAIN g = Fields
      BY <2>1, EngineDomain
    <2>3. k = [g EXCEPT !.groups = IF rx = Nil THEN @ ELSE Map(@, Filtered)]
      BY <2>2 DEF Fields
    <2> QED
      BY <2>3, Zenon DEF updateIncrementalSearch
  <1>2. s \in Engine /\ DOMAIN s = Fields
    BY EngineDomain DEF Ready, Sound
  <1>3. /\ s.buf \in Buffers /\ s.cached \in Cached /\ s.startBuf \in Line /\ s.startPos \in Int
        /\ s.insert \in BOOLEAN
    BY <1>2 DEF Engine
  <1>4. a \in Engine
    BY <1>2, <1>3 DEF Engine, Buffers
  <1>5. AllBut(s, a, {"regex"})
    BY <1>2 DEF AllBut
  <1> HIDE DEF a, r
  <1>6. Sound(a) /\ a.local = "isearch" /\ a.selected = << >> /\ a.fault = s.fault
    <2>1. Sound(a)
      BY <1>4, <1>5, SoundAside DEF Ready
    <2> QED
      BY <1>5, <2>1 DEF AllBut, Fields
  <1>7. /\ Sound(g) /\ Browse(a, g) /\ g.fault = a.fault /\ g.selected = << >>
    BY <1>3, <1>6, GenerateWithSound
  <1> HIDE DEF g
  <1>8. AllBut(s, g, F)
    BY <1>5, <1>6, <1>7 DEF Browse, AllBut
  <1>9. g.groups \in Seq(Pane(Fit(g.prefix))) /\ g.cur \in 0 .. Len(g.groups)
    BY <1>7 DEF Sound
  <1>10. n \in Nat \ {0}
    BY CompletionAssumption DEF ColumnsOf
  <1> HIDE DEF n
  <1>11. hs \in Seq(Pane(Fit(g.prefix))) /\ Len(hs) = Len(g.groups)
    <2>1. hs = IF rx = Nil THEN g.groups ELSE Searched(g.groups, n, s.buf)
      BY Zenon DEF Searched
    <2> HIDE DEF hs, rx
    <2> QED
      BY <1>9, <1>10, <2>1, FilteredGroups
  <1> HIDE DEF hs
  <1>12. Sound(k) /\ AllBut(g, k, {"groups"}) /\ k.fault = g.fault
    <2>1. k = WithGroups(g, hs)
      BY DEF WithGroups
    <2> HIDE DEF k
    <2>2. g.cur \in 0 .. Len(hs)
      BY <1>9, <1>11
    <2> QED
      BY <1>7, <1>11, <2>1, <2>2, GroupsSound
  <1> HIDE DEF k
  <1>13. AllBut(s, k, F) /\ k.selected = << >> /\ k.fault = s.fault
    BY <1>6, <1>7, <1>8, <1>12 DEF AllBut, Viewing, Fields
  <1>14. Sound(c) /\ AllBut(s, c, F) /\ c.selected = << >> /\ c.fault = s.fault
    <2>1. Sound(b) /\ AllBut(k, b, {"prefix", "line", "pos"})
      BY <1>12, BlankSound
    <2> HIDE DEF b
    <2>2. AllBut(s, b, F) /\ b.selected = << >> /\ b.fault = s.fault
      BY <1>13, <2>1 DEF AllBut, Viewing, Fields
    <2> QED
      BY <1>12, <1>13, <2>1, <2>2
  <1> HIDE DEF c
  <1>15. Sound(w) /\ InSync(w) /\ AllBut(s, w, F) /\ w.fault = s.fault
    <2>1. Views(c, w)
      BY <1>14, SelectViews
    <2>2. InSync(c) /\ c.local = "isearch"
      <3>1. c.local = s.local
        BY <1>14 DEF AllBut, Viewing, Fields
      <3> QED
        BY <1>14, <3>1, InSyncNone
    <2> HIDE DEF w
    <2>3. AllBut(c, w, Viewing)
      BY <2>1, <2>2 DEF Views, Browse
    <2> QED
      BY <1>14, <2>1, <2>2, <2>3 DEF Views, AllBut
  <1> HIDE DEF w
  <1>16. /\ Sound(back) /\ InSync(back) /\ AllBut(s, back, F) /\ back.fault = s.fault
         /\ back.line = s.startBuf
    <2>1. Sound(back) /\ AllBut(k, back, {"line", "pos"}) /\ back.line = s.startBuf
      BY <1>3, <1>12, SetLineSound
    <2> HIDE DEF back
    <2>2. AllBut(s, back, F) /\ back.selected = << >> /\ back.fault = s.fault
      BY <1>13, <2>1 DEF AllBut, Viewing, Fields
    <2> QED
      BY <2>1, <2>2, InSyncNone
  <1> HIDE DEF back
  <1>17. InSync(k)
    BY <1>13, InSyncNone
  <1> HIDE DEF F
  <1>18. Sound(r) /\ InSync(r) /\ r.fault = s.fault /\ AllBut(s, r, F)
    BY <1>1, <1>12, <1>13, <1>15, <1>16, <1>17
  <1>19. s.buf = << >> /\ s.replace => r.line = s.startBuf
    BY <1>1, <1>16
  <1> QED
    BY <1>18, <1>19 DEF r, F

\* UpdateIsearch shows the search that goes on.
LEMMA UpdateIsearchReady ==
  ASSUME NEW s, Ready(s)
  PROVE  LET r == UpdateIsearch(s)
         IN  /\ Ready(r) /\ r.fault = s.fault /\ AllBut(s, r, Viewing \cup {"regex"})
             /\ s.local # "isearch" => r = s
             /\ s.buf = << >> /\ s.replace /\ s.line = s.startBuf => r.line = s.startBuf
  <1> DEFINE r == UpdateIsearch(s)
  <1>1. CASE s.local = "isearch" /\ ~IsInserting(s)
    <2>1. r = updateIncrementalSearch(s) /\ s.selected = << >>
      BY <1>1 DEF UpdateIsearch, IsInserting
    <2> HIDE DEF r
    <2>2. /\ Sound(r) /\ InSync(r) /\ r.fault = s.fault /\ AllBut(s, r, Viewing \cup {"regex"})
          /\ s.buf = << >> /\ s.replace => r.line = s.startBuf
      BY <1>1, <2>1, SearchShown
    <2>3. r.local = s.local /\ r.buf = s.buf /\ r.nonInc = s.nonInc
      BY <2>2 DEF AllBut, Viewing, Fields
    <2>4. Modes(r)
      BY <1>1, <2>3 DEF Ready, Modes
    <2> QED
      BY <1>1, <2>2, <2>4 DEF Ready, r
  <1>2. CASE ~(s.local = "isearch" /\ ~IsInserting(s))
    <2>1. UpdateIsearch(s) = s
      BY <1>2 DEF UpdateIsearch
    <2>2. AllBut(s, s, Viewing \cup {"regex"})
      BY DEF AllBut
    <2> QED
      BY <2>1, <2>2
  <1> QED
    BY <1>1, <1>2

\* What the refresh of the display may change.
Offering == {"auto", "selected", "comp", "groups", "cur", "prefix"}

\* Autocomplete offers candidates outside of menus and searches only.
LEMMA AutocompleteGood ==
  ASSUME NEW s, Ready(s)
  PROVE  LET r == Autocomplete(s)
         IN  Good(r) /\ r.fault = s.fault /\ AllBut(s, r, Offering)
  <1> DEFINE n == needsAutoComplete(s)
             a == [s EXCEPT !.auto = n]
             b == IF a.auto \/ (~IsActive(a) /\ a.pos = 0) THEN resetValues(a, TRUE) ELSE a
             c == IF s.cached # "" THEN s.cached ELSE "commands"
             p == prepare(b, c)
             r == Autocomplete(s)
  <1>1. r = IF b.auto THEN p ELSE b
    BY DEF Autocomplete
  <1>2. s \in Engine /\ DOMAIN s = Fields
    BY EngineDomain DEF Ready, Sound
  <1>3. n \in BOOLEAN /\ (n => s.local = "")
    <2>1. s.local \in Locals
      BY <1>2 DEF Engine
    <2>2. n \in BOOLEAN
      BY DEF needsAutoComplete
    <2>3. n => s.local = ""
      BY <2>1 DEF needsAutoComplete, Locals
    <2> QED
      BY <2>2, <2>3
  <1> HIDE DEF n, r
  <1>4. a \in Engine /\ AllBut(s, a, {"auto"}) /\ a.auto = n
    BY <1>2, <1>3 DEF Engine, AllBut, Fields
  <1>5. c \in {"commands", "history"}
    <2>1. s.cached \in Cached
      BY <1>2 DEF Engine
    <2> QED
      BY <2>1 DEF Cached
  <1> HIDE DEF a, c
  <1>6. Sound(a) /\ InSync(a)
    BY <1>4, SoundAside, InSyncAside DEF Ready
  <1>7. /\ a.groups = s.groups /\ a.selected = s.selected /\ a.fault = s.fault
    BY <1>4 DEF AllBut, Fields
  <1>8. /\ Sound(b) /\ InSync(b) /\ AllBut(a, b, {"selected", "comp", "groups", "cur"})
        /\ b.groups = a.groups \/ b.groups = << >>
        /\ b.selected = a.selected \/ b.selected = << >>
    <2> DEFINE d == resetValues(a, TRUE)
    <2>1. /\ Sound(d) /\ AllBut(a, d, {"selected", "comp", "groups", "cur"})
          /\ d.selected = << >> /\ d.groups = << >>
      BY <1>6, ResetValuesSound
    <2>2. b = d \/ b = a
      OBVIOUS
    <2> HIDE DEF d, b
    <2>3. AllBut(a, a, {"selected", "comp", "groups", "cur"})
      BY DEF AllBut
    <2> QED
      BY <1>6, <2>1, <2>2, <2>3, InSyncNone
  <1> HIDE DEF b
  <1>9. /\ Sound(p) /\ AllBut(b, p, {"prefix", "cur", "groups"}) /\ Full(p.groups)
        /\ AllFresh(p.groups)
    BY <1>5, <1>8, PrepareSound
  <1>10. InSync(p)
    BY <1>9, FreshInSync
  <1> HIDE DEF p
  <1>11. AllBut(s, b, Offering) /\ AllBut(s, p, Offering) /\ p.selected = b.selected
    BY <1>4, <1>8, <1>9 DEF AllBut, Offering, Fields
  <1>12. Sound(r) /\ InSync(r) /\ AllBut(s, r, Offering)
    BY <1>1, <1>8, <1>9, <1>10, <1>11
  <1>13. Full(s.groups) => Full(r.groups)
    <2>1. Full(<< >>)
      BY DEF Full
    <2> QED
      BY <1>1, <1>7, <1>8, <1>9, <2>1
  <1>14. s.selected = << >> => r.selected = << >>
    BY <1>1, <1>7, <1>8, <1>11
  <1>15. /\ r.local = s.local /\ r.buf = s.buf /\ r.nonInc = s.nonInc /\ r.fault = s.fault
    BY <1>12 DEF AllBut, Offering, Fields
  <1>16. Modes(r)
    BY <1>13, <1>14, <1>15 DEF Ready, Modes
  <1>17. r.auto => r.local = ""
    <2>1. b.auto = n /\ p.auto = n
      BY <1>4, <1>8, <1>9 DEF AllBut, Fields
    <2> QED
      BY <1>1, <1>3, <1>15, <2>1
  <1> QED
    BY <1>12, <1>15, <1>16, <1>17 DEF Good, Ready, r

\* What the end of a command may change: the display, and in a search the line.
Display == Viewing \cup {"regex", "auto"}

Shows(t, r) ==
  /\ Good(r) /\ r.fault = t.fault /\ AllBut(t, r, Display)
  /\ t.local # "isearch" => r.line = t.line
  /\ t.buf = << >> /\ t.replace /\ t.line = t.startBuf => r.line = t.startBuf

\* The end of Shell.run and the refresh of the display.
LEMMA AfterRunShows ==
  ASSUME NEW before, NEW t, Ready(t)
  PROVE  Shows(t, AfterRun(before, t))
  <1> DEFINE a == CheckCursor(before, t)
             b == UpdateIsearch(a)
             r == Autocomplete(b)
  <1>1. AfterRun(before, t) = r
    BY DEF AfterRun
  <1>2. Ready(a) /\ AllBut(t, a, {"pos"}) /\ a.line = t.line
    BY CheckCursorReady
  <1> HIDE DEF a
  <1>3. /\ Ready(b) /\ b.fault = a.fault /\ AllBut(a, b, Viewing \cup {"regex"})
        /\ a.local # "isearch" => b = a
        /\ a.buf = << >> /\ a.replace /\ a.line = a.startBuf => b.line = a.startBuf
    BY <1>2, UpdateIsearchReady
  <1> HIDE DEF b
  <1>4. Good(r) /\ r.fault = b.fault /\ AllBut(b, r, Offering)
    BY <1>3, AutocompleteGood
  <1> HIDE DEF r
  <1>5. AllBut(t, r, Display)
    BY <1>2, <1>3, <1>4 DEF AllBut, Display, Offering, Viewing
  <1>6. /\ a.fault = t.fault /\ a.local = t.local /\ a.buf = t.buf /\ a.replace = t.replace
        /\ a.startBuf = t.startBuf
    BY <1>2 DEF AllBut, Fields
  <1>7. r.line = b.line
    BY <1>4 DEF AllBut, Offering, Fields
  <1> QED
    BY <1>1, <1>2, <1>3, <1>4, <1>5, <1>6, <1>7 DEF Shows

-----------------------------------------------------------------------------
(* Searches                                                                *)

\* A search that goes on remembers what it did, one that starts remembers the
\* main keymap and the line it starts with.
Carries(s, t) ==
  /\ s.buf # Nil /\ t.buf # Nil =>
       /\ t.modeExit = s.modeExit /\ t.main = s.main
       /\ t.local = "isearch" /\ t.replace =>
            s.local = "isearch" /\ s.replace /\ t.startBuf = s.startBuf
  /\ s.buf = Nil /\ t.buf # Nil =>
       /\ t.modeExit = s.main /\ t.main # "vi-command"
       /\ t.local = "isearch" /\ t.replace => t.buf = << >> /\ t.line = t.startBuf

\* A search that ends goes back to the keymap it remembers.
Homes(s, t) ==
  s.buf # Nil /\ t.buf = Nil => t.main = IF s.modeExit = "" THEN s.main ELSE s.modeExit

\* What a command does to the engine that it is given.
Fine(s, t) == Ready(t) /\ t.fault = s.fault /\ Carries(s, t) /\ Homes(s, t)

\* What may happen between a key and the command it runs: the candidate that is
\* inserted goes, or is put in the line, and a menu is closed.
Passing == Viewing \cup {"local", "regex"}

Passes(s, r) ==
  /\ Good(r) /\ AllBut(s, r, Passing) /\ r.fault = s.fault
  /\ r.local = "isearch" <=> s.local = "isearch"

\* From the key to the refresh of the display.
LEMMA CarriesThrough ==
  ASSUME NEW s, NEW a, NEW t, NEW r, Passes(s, a), Carries(a, t), Shows(t, r)
  PROVE  Carries(s, r) /\ (Homes(a, t) => Homes(s, r))
  <1>1. /\ a.buf = s.buf /\ a.modeExit = s.modeExit /\ a.main = s.main /\ a.replace = s.replace
        /\ a.startBuf = s.startBuf
    BY DEF Passes, AllBut, Passing, Viewing, Fields
  <1>2. /\ r.buf = t.buf /\ r.modeExit = t.modeExit /\ r.main = t.main /\ r.replace = t.replace
        /\ r.startBuf = t.startBuf /\ r.local = t.local
    BY DEF Shows, AllBut, Display, Viewing, Fields
  <1>3. a.local = "isearch" <=> s.local = "isearch"
    BY DEF Passes
  <1>4. t.buf = << >> /\ t.replace /\ t.line = t.startBuf => r.line = t.startBuf
    BY DEF Shows
  <1>5. Carries(s, r)
    BY <1>1, <1>2, <1>3, <1>4 DEF Carries
  <1>6. Homes(a, t) => Homes(s, r)
    BY <1>1, <1>2 DEF Homes
  <1> QED
    BY <1>5, <1>6

\* Browsing a menu leaves searches alone.
LEMMA BrowseReady ==
  ASSUME NEW s, NEW t, Ready(s), ~s.nonInc, Sound(t), Browse(s, t), InSync(t),
         Full(s.groups) => Full(t.groups)
  PROVE  Ready(t) /\ Carries(s, t) /\ Homes(s, t)
  <1>1. CASE s.local = "isearch"
    <2>1. AllBut(s, t, Viewing)
      BY <1>1 DEF Browse
    <2>2. /\ t.buf = s.buf /\ t.local = s.local /\ t.nonInc = s.nonInc /\ t.main = s.main
          /\ t.modeExit = s.modeExit /\ t.replace = s.replace /\ t.startBuf = s.startBuf
      BY <2>1 DEF AllBut, Viewing, Fields
    <2>3. s.buf # Nil
      BY <1>1 DEF Ready, Modes
    <2>4. Modes(t)
      BY <1>1, <2>2, <2>3 DEF Modes
    <2>5. Carries(s, t) /\ Homes(s, t)
      BY <2>2, <2>3 DEF Carries, Homes
    <2> QED
      BY <2>4, <2>5 DEF Ready
  <1>2. CASE s.local # "isearch"
    <2>1. /\ t.local # "isearch" /\ AllBut(s, t, Fields \ Outside)
          /\ t.buf = s.buf \/ t.buf = Nil
      BY <1>2 DEF Browse
    <2>2. t.nonInc = s.nonInc
      BY <2>1 DEF AllBut, Outside, Fields
    <2>3. s.buf = Nil /\ Full(s.groups)
      BY <1>2 DEF Ready, Modes
    <2>4. Full(t.groups)
      BY <2>3
    <2>5. Modes(t)
      BY <2>1, <2>2, <2>3, <2>4 DEF Modes
    <2>6. Carries(s, t) /\ Homes(s, t)
      BY <2>1, <2>3 DEF Carries, Homes
    <2> QED
      BY <2>5, <2>6 DEF Ready
  <1> QED
    BY <1>1, <1>2

\* Browsing without a fault.
LEMMA ViewsFine ==
  ASSUME NEW s, NEW t, Ready(s), ~s.nonInc, Views(s, t)
  PROVE  Fine(s, t)
  BY BrowseReady DEF Views, Fine, Ready

\* So does editing, with no candidate inserted.
LEMMA EditFine ==
  ASSUME NEW s, NEW t, NEW F, Ready(s), Sound(t), t.selected = << >>, AllBut(s, t, F),
         {"local", "nonInc", "main", "modeExit", "replace", "startBuf", "groups", "fault"} \cap F = {},
         s.buf = Nil <=> t.buf = Nil
  PROVE  Fine(s, t)
  <1>1. /\ t.local = s.local /\ t.nonInc = s.nonInc /\ t.main = s.main /\ t.groups = s.groups
        /\ t.modeExit = s.modeExit /\ t.replace = s.replace /\ t.startBuf = s.startBuf
        /\ t.fault = s.fault
    BY DEF AllBut, Fields
  <1>2. Modes(t)
    BY <1>1 DEF Ready, Modes
  <1>3. Carries(s, t) /\ Homes(s, t)
    BY <1>1 DEF Carries, Homes
  <1> QED
    BY <1>1, <1>2, <1>3, InSyncNone DEF Fine, Ready

\* UpdateInserted: a candidate goes with the key, or is put in the line for the
\* keys that end a search.
LEMMA UpdateInsertedPasses ==
  ASSUME NEW s, Good(s), NEW key
  PROVE  LET r == UpdateInserted(s, key)
         IN  /\ Passes(s, r) /\ r.selected = << >>
             /\ r.local \in {"", "isearch"}
             /\ key = "return" => r.line = Shown(s).line
  <1> DEFINE inserted == s.local = "isearch" /\ key \notin {"escape", "return", ""}
             cached == s.local # "isearch"
             comps == IsInserting(s)
             a == Cancel(s, inserted, cached)
             c == ClearMenu(a, comps)
             r == IF s.auto THEN a ELSE c
  <1>1. UpdateInserted(s, key) = r
    BY DEF UpdateInserted
  <1>2. inserted \in BOOLEAN /\ cached \in BOOLEAN /\ comps \in BOOLEAN
        /\ (key = "return" => inserted = FALSE)
    BY DEF IsInserting
  <1> HIDE DEF inserted, cached, comps
  <1>3. Sound(s) /\ Modes(s) /\ (s.auto => s.local = "") /\ s.local \in Locals
    BY DEF Good, Ready, Sound, Engine
  <1>4. /\ Sound(a) /\ AllBut(s, a, {"line", "pos", "comp", "selected", "cached"})
        /\ a.selected = << >>
        /\ ~inserted => a.line = Shown(s).line
    BY <1>2, <1>3, CancelSound
  <1> HIDE DEF a
  <1>5. /\ Sound(c) /\ AllBut(a, c, {"selected", "comp", "groups", "cur", "local"})
        /\ c.selected = << >> /\ c.groups = (IF comps THEN << >> ELSE a.groups)
        /\ c.local = IF a.local = "menu-select" THEN "" ELSE a.local
    BY <1>2, <1>4, ClearMenuSound
  <1> HIDE DEF c
  <1>6. a.local = s.local /\ a.groups = s.groups /\ a.auto = s.auto
    BY <1>4 DEF AllBut, Fields
  <1>7. c.auto = s.auto /\ c.line = a.line
    BY <1>5, <1>6 DEF AllBut, Fields
  <1>8. AllBut(s, a, Passing) /\ AllBut(s, c, Passing)
    BY <1>4, <1>5 DEF AllBut, Passing, Viewing
  <1>9. Sound(r) /\ r.selected = << >> /\ AllBut(s, r, Passing) /\ r.auto = s.auto
        /\ (r.groups = s.groups \/ r.groups = << >>) /\ r.line = a.line
    BY <1>4, <1>5, <1>6, <1>7, <1>8
  <1>10. r.local \in {"", "isearch"} /\ (r.local = "isearch" <=> s.local = "isearch")
         /\ (s.local = "" => r.local = "")
    BY <1>3, <1>5, <1>6 DEF Locals
  <1> HIDE DEF r
  <1>11. r.buf = s.buf /\ r.nonInc = s.nonInc /\ r.fault = s.fault
    <2>1. a.fault = s.fault /\ c.fault = a.fault
      BY <1>4, <1>5 DEF AllBut, Fields
    <2> QED
      BY <1>9, <2>1 DEF AllBut, Passing, Viewing, Fields, r
  <1>12. Full(s.groups) => Full(r.groups)
    BY <1>9 DEF Full
  <1>13. Modes(r)
    BY <1>3, <1>9, <1>10, <1>11, <1>12 DEF Modes
  <1>14. Good(r)
    BY <1>3, <1>9, <1>10, <1>13, InSyncNone DEF Good, Ready
  <1>15. key = "return" => r.line = Shown(s).line
    BY <1>2, <1>4, <1>9
  <1> QED
    BY <1>1, <1>9, <1>10, <1>11, <1>14, <1>15 DEF Passes

-----------------------------------------------------------------------------
(* The commands                                                            *)

\* A command that is fine is so after a key has passed.
LEMMA PassesFine ==
  ASSUME NEW s, NEW r, NEW t, Passes(s, r), Fine(r, t)
  PROVE  Fine(s, t)
  <1>1. /\ r.buf = s.buf /\ r.modeExit = s.modeExit /\ r.main = s.main /\ r.replace = s.replace
        /\ r.startBuf = s.startBuf
    BY DEF Passes, AllBut, Passing, Viewing, Fields
  <1>2. (r.local = "isearch" <=> s.local = "isearch") /\ r.fault = s.fault
    BY DEF Passes
  <1>3. Carries(s, t)
    BY <1>1, <1>2 DEF Fine, Carries
  <1>4. Homes(s, t)
    BY <1>1 DEF Fine, Homes
  <1> QED
    BY <1>2, <1>3, <1>4 DEF Fine

\* A minibuffer is edited when there is one.
LEMMA MinibufferIsLine ==
  ASSUME NEW s, Ready(s), OnMinibuffer(s)
  PROVE  s.buf \in Line /\ s.buf # Nil
  <1>1. s.buf # Nil
    BY DEF OnMinibuffer, Searching, Ready, Modes
  <1>2. s.buf \in Buffers
    BY DEF Ready, Sound, Engine
  <1> QED
    BY <1>1, <1>2 DEF Buffers

\* The minibuffer is changed.
LEMMA BufferFine ==
  ASSUME NEW s, Ready(s), s.selected = << >>, OnMinibuffer(s), NEW b \in Line,
         NEW t, t = [s EXCEPT !.buf = b]
  PROVE  Fine(s, t)
  <1>1. s \in Engine /\ DOMAIN s = Fields
    BY EngineDomain DEF Ready, Sound
  <1>2. b \in Buffers /\ b # Nil /\ s.buf # Nil
    BY MinibufferIsLine, CompletionAssumption DEF Buffers
  <1>3. t \in Engine
    BY <1>1, <1>2 DEF Engine
  <1>4. AllBut(s, t, {"buf"}) /\ t.buf = b
    BY <1>1 DEF AllBut, Fields
  <1>5. Sound(t)
    BY <1>3, <1>4, SoundAside DEF Ready
  <1>6. t.selected = << >>
    BY <1>4 DEF AllBut, Fields
  <1> QED
    BY <1>2, <1>4, <1>5, <1>6, EditFine

\* The line and its cursor are changed.
LEMMA LineFine ==
  ASSUME NEW s, Ready(s), s.selected = << >>, NEW l \in Line, NEW p \in 0 .. Len(l),
         NEW t, t = [s EXCEPT !.line = l, !.pos = p]
  PROVE  Fine(s, t)
  <1>1. s \in Engine /\ DOMAIN s = Fields
    BY EngineDomain DEF Ready, Sound
  <1>2. p \in Int
    OBVIOUS
  <1>3. t \in Engine
    BY <1>1, <1>2 DEF Engine
  <1>4. AllBut(s, t, {"line", "pos"}) /\ t.line = l /\ t.pos = p
    BY <1>1 DEF AllBut, Fields
  <1>5. Sound(t)
    <2>1. Sound(s)
      BY DEF Ready
    <2> QED
      BY <1>3, <1>4, <2>1 DEF Sound, AllBut, Fields
  <1>6. t.selected = << >> /\ t.buf = s.buf
    BY <1>4 DEF AllBut, Fields
  <1> QED
    BY <1>4, <1>5, <1>6, EditFine

\* self-insert edits the minibuffer or the line.
LEMMA SelfInsertFine ==
  ASSUME NEW s, Ready(s), s.selected = << >>, NEW ch \in Char
  PROVE  Fine(s, selfInsert(s, ch))
  <1>1. DOMAIN s = Fields /\ s.line \in Line /\ s.pos \in 0 .. Len(s.line) /\ Len(s.line) \in Nat
    BY EngineDomain, SoundParts DEF Ready, Sound
  <1>2. CASE OnMinibuffer(s)
    <2> DEFINE b == Append(s.buf, ch)
    <2>1. selfInsert(s, ch) = [s EXCEPT !.buf = b]
      BY <1>1, <1>2 DEF selfInsert, Fields
    <2>2. b \in Line
      BY <1>2, MinibufferIsLine, AppendProperties DEF Line
    <2> HIDE DEF b
    <2> QED
      BY <1>2, <2>1, <2>2, BufferFine
  <1>3. CASE ~OnMinibuffer(s)
    <2> DEFINE l == Insert(s.line, s.pos, <<ch>>)
               p == s.pos + 1
    <2>1. selfInsert(s, ch) = [s EXCEPT !.line = l, !.pos = p]
      BY <1>1, <1>3 DEF selfInsert, Fields
    <2>2. <<ch>> \in Line /\ Len(<<ch>>) = 1
      BY DEF Line
    <2>3. l \in Line /\ Len(l) = Len(s.line) + 1
      BY <1>1, <2>2, InsertGives
    <2> HIDE DEF l
    <2>4. p \in 0 .. Len(l)
      BY <1>1, <2>3
    <2> HIDE DEF p
    <2> QED
      BY <2>1, <2>3, <2>4, LineFine
  <1> QED
    BY <1>2, <1>3

\* backward-delete-char takes the inserted candidate away first.
LEMMA BackwardDeleteFine ==
  ASSUME NEW s, Good(s)
  PROVE  Fine(s, backwardDeleteChar(s))
  <1> DEFINE r == UpdateInserted(s, "")
             b == IF r.buf = << >> THEN r.buf ELSE SubSeq(r.buf, 1, Len(r.buf) - 1)
             l == CutRune(r.line, r.pos - 1)
             p == r.pos - 1
             t == backwardDeleteChar(s)
  <1>1. Passes(s, r) /\ r.selected = << >>
    BY UpdateInsertedPasses
  <1>2. Ready(r) /\ DOMAIN r = Fields /\ r.line \in Line /\ r.pos \in 0 .. Len(r.line)
        /\ Len(r.line) \in Nat
    BY <1>1, EngineDomain, SoundParts DEF Passes, Good, Ready, Sound
  <1>3. t = IF OnMinibuffer(s) THEN [r EXCEPT !.buf = b]
            ELSE IF r.pos = 0 THEN r ELSE [r EXCEPT !.line = l, !.pos = p]
    <2>1. t = IF OnMinibuffer(s)
              THEN [r EXCEPT !.buf = IF @ = << >> THEN @ ELSE SubSeq(@, 1, Len(@) - 1)]
              ELSE IF r.pos = 0 THEN r
              ELSE [r EXCEPT !.line = CutRune(@, r.pos - 1), !.pos = @ - 1]
      BY DEF backwardDeleteChar
    <2> HIDE DEF t, r
    <2> QED
      BY <1>2, <2>1 DEF Fields
  <1> HIDE DEF t, r
  <1>4. CASE OnMinibuffer(s)
    <2>1. OnMinibuffer(r)
      <3>1. r.buf = s.buf /\ (r.local = "isearch" <=> s.local = "isearch")
        BY <1>1 DEF Passes, AllBut, Passing, Viewing, Fields
      <3> QED
        BY <1>4, <3>1 DEF OnMinibuffer, Searching
    <2>2. r.buf \in Line
      BY <1>2, <2>1, MinibufferIsLine
    <2>3. b \in Line
      <3>1. CASE r.buf = << >>
        BY <2>2, <3>1
      <3>2. CASE r.buf # << >>
        <4>1. Len(r.buf) \in Nat /\ Len(r.buf) # 0
          BY <2>2, <3>2, EmptySeq DEF Line
        <4>2. SubSeq(r.buf, 1, Len(r.buf) - 1) \in Line
          BY <2>2, <4>1, SubSeqProperties DEF Line
        <4> QED
          BY <3>2, <4>2
      <3> QED
        BY <3>1, <3>2
    <2>4. t = [r EXCEPT !.buf = b]
      BY <1>3, <1>4
    <2> HIDE DEF b
    <2>5. Fine(r, t)
      BY <1>1, <1>2, <2>1, <2>3, <2>4, BufferFine
    <2> QED
      BY <1>1, <2>5, PassesFine DEF t
  <1>5. CASE ~OnMinibuffer(s) /\ r.pos = 0
    <2>1. t = r
      BY <1>3, <1>5
    <2>2. Fine(r, r)
      <3>1. AllBut(r, r, {})
        BY DEF AllBut
      <3>2. Sound(r)
        BY <1>2 DEF Ready
      <3> QED
        BY <1>1, <1>2, <3>1, <3>2, EditFine
    <2> QED
      BY <1>1, <2>1, <2>2, PassesFine DEF t
  <1>6. CASE ~OnMinibuffer(s) /\ r.pos # 0
    <2>1. t = [r EXCEPT !.line = l, !.pos = p]
      BY <1>3, <1>6
    <2>2. l \in Line /\ Len(l) = Len(r.line) - 1
      <3>1. p \in 0 .. Len(r.line) /\ Len(r.line) # 0
        BY <1>2, <1>6
      <3> QED
        BY <1>2, <3>1, CutRuneGives
    <2> HIDE DEF l
    <2>3. p \in 0 .. Len(l)
      BY <1>2, <1>6, <2>2
    <2> HIDE DEF p
    <2>4. Fine(r, t)
      BY <1>1, <1>2, <2>1, <2>2, <2>3, LineFine
    <2> QED
      BY <1>1, <2>4, PassesFine DEF t
  <1> QED
    BY <1>4, <1>5, <1>6

\* backward-char moves the cursor.
LEMMA BackwardCharFine ==
  ASSUME NEW s, Ready(s), s.selected = << >>
  PROVE  Fine(s, backwardChar(s))
  <1> DEFINE p == Dec(s.pos)
  <1>1. s \in Engine /\ DOMAIN s = Fields /\ s.line \in Line /\ s.pos \in 0 .. Len(s.line)
        /\ Len(s.line) \in Nat
    BY EngineDomain, SoundParts DEF Ready, Sound
  <1>2. p \in 0 .. Len(s.line)
    BY <1>1 DEF Dec
  <1>3. backwardChar(s) = [s EXCEPT !.line = s.line, !.pos = p]
    BY <1>1 DEF backwardChar, Engine
  <1> HIDE DEF p
  <1> QED
    BY <1>1, <1>2, <1>3, LineFine

\* Neither a menu nor a search is left, and the keymap is the one to go back to.
Closed(s, r) ==
  /\ Ready(r) /\ r.fault = s.fault /\ r.selected = << >> /\ r.groups = << >> /\ r.buf = Nil
  /\ r.nonInc = FALSE /\ r.local # "isearch" /\ Homes(s, r)

\* Closing is fine.
LEMMA ClosedFine ==
  ASSUME NEW s, NEW r, Closed(s, r)
  PROVE  Fine(s, r)
  BY DEF Closed, Fine, Carries

\* A menu without groups.
LEMMA FullNone == Full(<< >>)
  BY DEF Full

\* Reset closes what is active, outside of non-incremental searches.
LEMMA ResetCloses ==
  ASSUME NEW s, Ready(s), ~s.nonInc
  PROVE  /\ Closed(s, Reset(s)) /\ (s.selected = << >> => Reset(s).line = s.line)
         /\ s.buf # Nil => Returns(s, Reset(s))
  <1> DEFINE r == Reset(s)
  <1>1. /\ Sound(r)
        /\ AllBut(s, r, {"comp", "selected", "cached", "groups", "cur"} \cup Stopping)
        /\ r.selected = << >> /\ r.groups = << >>
        /\ r.local = "" \/ (r.local = s.local /\ r.local # "isearch")
        /\ s.selected = << >> => r.line = s.line
        /\ ~IsActive(s) => AllBut(s, r, {"selected", "comp", "groups", "cur", "local"})
        /\ IsActive(s) => r.buf = Nil /\ r.local = "" /\ Returns(s, r)
    BY ResetSound DEF Ready
  <1> HIDE DEF r
  <1>2. r.fault = s.fault /\ r.nonInc = s.nonInc
    BY <1>1 DEF AllBut, Stopping, Fields
  <1>3. s.nonInc \in BOOLEAN
    BY DEF Ready, Sound, Engine
  <1>4. s.buf # Nil => s.local = "isearch"
    BY DEF Ready, Modes
  <1>5. s.buf # Nil => IsActive(s)
    BY <1>4, SearchIsActive
  <1>6. ~IsActive(s) => r.buf = s.buf
    BY <1>1 DEF AllBut, Fields
  <1>7. r.buf = Nil /\ r.local # "isearch" /\ r.nonInc = FALSE
    BY <1>1, <1>2, <1>3, <1>5, <1>6
  <1>8. Full(r.groups)
    BY <1>1, FullNone
  <1>9. Ready(r)
    BY <1>1, <1>7, <1>8, InSyncNone DEF Ready, Modes
  <1>10. s.buf # Nil => Returns(s, r)
    BY <1>1, <1>5
  <1>11. Homes(s, r)
    BY <1>10 DEF Homes, Returns
  <1> QED
    BY <1>1, <1>2, <1>7, <1>9, <1>10, <1>11 DEF Closed, r

\* ResetForce closes all, and an incremental search gives the line back.
LEMMA ResetForceCloses ==
  ASSUME NEW s, Sound(s), ~s.nonInc
  PROVE  LET r == ResetForce(s)
         IN  /\ Closed(s, r) /\ r.local = "" /\ Returns(s, r)
             /\ r.line = IF s.replace /\ s.local = "isearch" THEN s.startBuf ELSE s.line
  <1> DEFINE r == ResetForce(s)
  <1>1. /\ Sound(r)
        /\ AllBut(s, r, {"comp", "selected", "cached", "groups", "cur"} \cup Stopping)
        /\ r.selected = << >> /\ r.groups = << >> /\ r.buf = Nil /\ r.local = "" /\ r.auto = FALSE
        /\ r.line = IF s.replace /\ s.local = "isearch" THEN s.startBuf ELSE s.line
        /\ Returns(s, r)
    BY ResetForceSound
  <1> HIDE DEF r
  <1>2. r.fault = s.fault /\ r.nonInc = s.nonInc
    BY <1>1 DEF AllBut, Stopping, Fields
  <1>3. s.nonInc \in BOOLEAN
    BY DEF Sound, Engine
  <1>4. Full(r.groups)
    BY <1>1, FullNone
  <1>5. r.nonInc = FALSE
    BY <1>2, <1>3
  <1>6. Ready(r)
    BY <1>1, <1>4, <1>5, InSyncNone DEF Ready, Modes
  <1>7. Homes(s, r)
    BY <1>1 DEF Homes, Returns
  <1> QED
    BY <1>1, <1>2, <1>5, <1>6, <1>7 DEF Closed, r

\* Changing modes once all is closed.
InMode(r, p, lo, m) == [r EXCEPT !.pos = p, !.local = lo, !.main = m]

Idle(r) ==
  /\ Ready(r) /\ r.selected = << >> /\ Full(r.groups) /\ r.buf = Nil /\ r.nonInc = FALSE
  /\ r.local # "isearch"

Moded(r, t) == Ready(t) /\ t.fault = r.fault /\ t.buf = Nil

\* That is fine.
LEMMA ModeReady ==
  ASSUME NEW r, Idle(r), NEW p \in 0 .. Len(r.line), NEW lo, lo = r.local \/ lo = "", NEW m \in Mains
  PROVE  Moded(r, InMode(r, p, lo, m))
  <1> DEFINE t == InMode(r, p, lo, m)
  <1>1. Sound(r) /\ r \in Engine /\ DOMAIN r = Fields /\ Len(r.line) \in Nat
    BY EngineDomain, SoundParts DEF Idle, Ready, Sound
  <1>2. lo \in Locals /\ p \in Int
    <2>1. r.local \in Locals
      BY <1>1 DEF Engine
    <2>2. "" \in Locals
      BY DEF Locals
    <2>3. lo \in Locals
      BY <2>1, <2>2
    <2>4. p \in Int
      <3>1. Len(r.line) \in Nat
        BY <1>1
      <3> QED
        BY ONLY <3>1
    <2> QED
      BY <2>3, <2>4
  <1>3. t \in Engine
    BY <1>1, <1>2 DEF Engine, InMode
  <1>4. AllBut(r, t, {"pos", "local", "main"}) /\ t.pos = p /\ t.local = lo
    BY <1>1 DEF AllBut, Fields, InMode
  <1> HIDE DEF t
  <1>5. /\ t.line = r.line /\ t.buf = Nil /\ t.nonInc = r.nonInc /\ t.selected = << >>
        /\ t.groups = r.groups /\ t.fault = r.fault
    BY <1>4 DEF AllBut, Fields, Idle
  <1>6. Sound(t)
    BY <1>1, <1>3, <1>4, <1>5 DEF Sound, AllBut, Fields
  <1>7. Modes(t)
    BY <1>4, <1>5 DEF Modes, Idle
  <1> QED
    BY <1>5, <1>6, <1>7, InSyncNone DEF Ready, Moded, t

\* vi-movement-mode and emacs-editing-mode end what is active.
LEMMA ModesReady ==
  ASSUME NEW s, Ready(s), ~s.nonInc, NEW t \in {viCommandMode(s), emacsEditingMode(s)}
  PROVE  Ready(t) /\ t.fault = s.fault /\ t.buf = Nil
  <1> DEFINE r == Reset(s)
             q == IF r.main = "vi-insert" /\ ~AtBeginningOfLine(r.line, r.pos) THEN r.pos - 1 ELSE r.pos
             p == CheckCommand(r.line, q)
  <1>1. Closed(s, r)
    BY ResetCloses
  <1>2. viCommandMode(s) = InMode(r, p, "", "vi-command")
    BY DEF viCommandMode, InMode
  <1>3. emacsEditingMode(s) = [r EXCEPT !.main = "emacs"]
    BY DEF emacsEditingMode
  <1> HIDE DEF r
  <1>4. /\ r \in Engine /\ r.line \in Line /\ r.pos \in 0 .. Len(r.line) /\ Len(r.line) \in Nat
        /\ Ready(r) /\ r.selected = << >> /\ r.groups = << >> /\ r.buf = Nil /\ r.nonInc = FALSE
        /\ r.local # "isearch" /\ r.fault = s.fault
    BY <1>1, SoundParts DEF Closed, Ready, Sound
  <1>5. q \in Int
    BY <1>4
  <1> HIDE DEF q
  <1>6. p \in 0 .. Len(r.line)
    BY <1>4, <1>5, CommandRange
  <1> HIDE DEF p
  <1>7. Full(r.groups) /\ "vi-command" \in Mains /\ "emacs" \in Mains
    BY <1>4, FullNone DEF Mains
  <1>8. Idle(r)
    BY <1>4, <1>7 DEF Idle
  <1>9. Moded(r, InMode(r, p, "", "vi-command")) /\ Moded(r, InMode(r, r.pos, r.local, "emacs"))
    BY ONLY <1>4, <1>6, <1>7, <1>8, ModeReady
  <1>10. emacsEditingMode(s) = InMode(r, r.pos, r.local, "emacs")
    BY <1>3, <1>4 DEF Engine, InMode
  <1> QED
    BY <1>2, <1>4, <1>9, <1>10 DEF Moded

\* vi-insertion-mode, which no search allows.
LEMMA ViInsertReady ==
  ASSUME NEW s, Ready(s), ~s.nonInc, s.local # "isearch", s.selected = << >>
  PROVE  Fine(s, viInsertMode(s))
  <1> DEFINE t == viInsertMode(s)
  <1>1. s \in Engine /\ s.pos \in 0 .. Len(s.line)
    BY DEF Ready, Sound
  <1>2. s.buf = Nil /\ Full(s.groups) /\ s.nonInc = FALSE
    BY DEF Ready, Modes, Sound, Engine
  <1>3. "vi-insert" \in Mains
    BY DEF Mains
  <1>4. t = InMode(s, s.pos, "", "vi-insert")
    BY <1>1 DEF viInsertMode, Engine, InMode
  <1> HIDE DEF t
  <1>5. Ready(t) /\ t.fault = s.fault /\ t.buf = Nil
    <2>1. Idle(s)
      BY <1>2 DEF Idle
    <2>2. Moded(s, InMode(s, s.pos, "", "vi-insert"))
      BY ONLY <1>1, <1>3, <2>1, ModeReady
    <2> QED
      BY <1>4, <2>2 DEF Moded
  <1>6. Carries(s, t) /\ Homes(s, t)
    BY <1>2, <1>5 DEF Carries, Homes
  <1> QED
    BY <1>5, <1>6 DEF Fine, t

\* A non-incremental search puts the line it finds, if any, and ends.
LEMMA MatchStops ==
  ASSUME NEW s, Sound(s), s.selected = << >>, Full(s.groups), s.local # "isearch",
         NEW m \in InsertMatch(s)
  PROVE  LET t == NonIsearchStop(m)
         IN  Ready(t) /\ t.fault = s.fault /\ t.buf = Nil /\ Returns(s, t)
  <1> DEFINE t == NonIsearchStop(m)
  <1>1. Sound(m) /\ AllBut(s, m, {"line", "pos"})
    <2>1. CASE m = s
      BY <2>1 DEF AllBut
    <2>2. CASE m # s
      <3>1. PICK l \in Range(HistLines[s.source]) : m = SetLine(s, l, Len(l))
        BY <2>2 DEF InsertMatch
      <3>2. l \in Line
        <4>1. HistLines \in Seq(Seq(Line)) /\ s.source \in 1 .. Len(HistLines)
          BY CompletionAssumption DEF Sound, Engine, Sources
        <4>2. HistLines[s.source] \in Seq(Line)
          BY <4>1, ElementOfSeq
        <4> DEFINE h == HistLines[s.source]
        <4> HIDE DEF h
        <4>3. h \in Seq(Line) /\ l \in Range(h)
          BY <4>2 DEF h
        <4> QED
          BY <4>3, ElementOfSeq, LenProperties DEF Range
      <3>3. Len(l) \in Int
        BY <3>2 DEF Line
      <3> QED
        BY <3>1, <3>2, <3>3, SetLineSound
    <2> QED
      BY <2>1, <2>2
  <1>2. /\ Sound(t) /\ AllBut(m, t, {"buf", "regex", "nonInc", "main", "modeExit", "pos"})
        /\ t.buf = Nil /\ t.nonInc = FALSE /\ Returns(m, t)
    BY <1>1, NonIsearchStopSound
  <1> HIDE DEF t
  <1>3. t.selected = << >> /\ t.groups = s.groups /\ t.local = s.local /\ t.fault = s.fault
    BY <1>1, <1>2 DEF AllBut, Fields
  <1>4. m.main = s.main /\ m.modeExit = s.modeExit
    BY <1>1 DEF AllBut, Fields
  <1>5. Returns(s, t)
    BY <1>2, <1>4 DEF Returns
  <1>6. Modes(t)
    BY <1>2, <1>3 DEF Modes
  <1> QED
    BY <1>2, <1>3, <1>5, <1>6, InSyncNone DEF Ready, t

\* A search that ends so is fine.
LEMMA MatchFine ==
  ASSUME NEW s, Ready(s), s.selected = << >>, s.local # "isearch", NEW m \in InsertMatch(s)
  PROVE  Fine(s, NonIsearchStop(m))
  <1> DEFINE t == NonIsearchStop(m)
  <1>1. Sound(s) /\ Full(s.groups)
    BY DEF Ready, Modes
  <1>2. Ready(t) /\ t.fault = s.fault /\ t.buf = Nil /\ Returns(s, t)
    BY <1>1, MatchStops
  <1> HIDE DEF t
  <1>3. Carries(s, t) /\ Homes(s, t)
    BY <1>2 DEF Carries, Homes, Returns
  <1> QED
    BY <1>2, <1>3 DEF Fine, t

\* The empty line is not the nil pointer.
LEMMA EmptyLine == << >> \in Line /\ << >> # Nil
  <1>1. << >> \in Line
    BY DEF Line
  <1> QED
    BY <1>1, CompletionAssumption

\* A non-incremental search is started, where none is.
LEMMA NonStartFine ==
  ASSUME NEW s, Ready(s), ~s.nonInc, s.local = "", s.selected = << >>
  PROVE  Fine(s, NonIsearchStart(s))
  <1> DEFINE r == NonIsearchStart(s)
  <1>1. /\ Sound(r) /\ AllBut(s, r, {"buf", "nonInc", "modeExit", "main"})
        /\ r.buf = << >> /\ r.nonInc /\ r.modeExit = s.main /\ r.main # "vi-command"
    BY NonIsearchStartSound DEF Ready
  <1> HIDE DEF r
  <1>2. /\ r.local = "" /\ r.selected = << >> /\ r.groups = s.groups /\ r.fault = s.fault
    BY <1>1 DEF AllBut, Fields
  <1>3. s.buf = Nil /\ Full(s.groups)
    BY DEF Ready, Modes
  <1>4. << >> # Nil
    BY EmptyLine
  <1>5. Modes(r)
    BY <1>1, <1>2, <1>3, <1>4 DEF Modes
  <1>6. Carries(s, r) /\ Homes(s, r)
    BY <1>1, <1>2, <1>3 DEF Carries, Homes
  <1> QED
    BY <1>1, <1>2, <1>5, <1>6, InSyncNone DEF Fine, Ready, r

\* A whole non-incremental search in one command.
LEMMA SearchAgainFine ==
  ASSUME NEW s, Ready(s), ~s.nonInc, s.local = "", s.selected = << >>,
         NEW m \in InsertMatch(NonIsearchStart(s))
  PROVE  Fine(s, NonIsearchStop(m))
  <1> DEFINE r == NonIsearchStart(s)
             t == NonIsearchStop(m)
  <1>1. /\ Sound(r) /\ AllBut(s, r, {"buf", "nonInc", "modeExit", "main"})
    BY NonIsearchStartSound DEF Ready
  <1> HIDE DEF r
  <1>2. /\ r.local # "isearch" /\ r.selected = << >> /\ r.groups = s.groups /\ r.fault = s.fault
    BY <1>1 DEF AllBut, Fields
  <1>3. s.buf = Nil /\ Full(s.groups)
    BY DEF Ready, Modes
  <1>4. Ready(t) /\ t.fault = r.fault /\ t.buf = Nil
    <2>1. Full(r.groups) /\ m \in InsertMatch(r)
      BY <1>2, <1>3 DEF r
    <2> QED
      BY <1>1, <1>2, <2>1, MatchStops
  <1> HIDE DEF t
  <1>5. Carries(s, t) /\ Homes(s, t)
    BY <1>3, <1>4 DEF Carries, Homes
  <1> QED
    BY <1>2, <1>4, <1>5 DEF Fine, t

\* An incremental search is started: it remembers where from, unless one was
\* going on.
LEMMA SearchStarts ==
  ASSUME NEW s, Ready(s), ~s.nonInc, NEW r, Sound(r), AllBut(s, r, {"source"}),
         NEW completer \in {"commands", "history"},
         NEW autoinsert \in BOOLEAN, NEW replaceLine \in BOOLEAN
  PROVE  LET t == IsearchStart(GenerateWith(r, completer), autoinsert, replaceLine)
         IN  /\ Ready(t) /\ t.fault = s.fault
             /\ s.local # "isearch" => Carries(s, t) /\ Homes(s, t)
  <1> DEFINE g == GenerateWith(r, completer)
             t == IsearchStart(g, autoinsert, replaceLine)
  <1>1. completer \in Cached /\ completer # ""
    BY DEF Cached
  <1>2. Sound(g) /\ g.fault = r.fault /\ AllFresh(g.groups) /\ AllBut(r, g, Fetching)
    BY <1>1, GenerateWithSound
  <1> HIDE DEF g
  <1>3. /\ Sound(t)
        /\ AllBut(g, t, {"insert", "replace", "startBuf", "startPos", "buf", "auto", "local",
                         "modeExit", "main"})
        /\ t.local = "isearch" /\ t.buf = << >> /\ t.startBuf = g.line
        /\ t.modeExit = g.main /\ t.main # "vi-command"
    BY <1>2, IsearchStartSound
  <1> HIDE DEF t
  <1>4. t.fault = s.fault /\ t.nonInc = s.nonInc /\ g.main = s.main
    <2>1. r.fault = s.fault /\ r.nonInc = s.nonInc /\ r.main = s.main
      BY DEF AllBut, Fields
    <2>2. g.nonInc = r.nonInc /\ g.main = r.main
      BY <1>2 DEF AllBut, Fetching, Viewing, Fields
    <2>3. t.nonInc = g.nonInc /\ t.fault = g.fault
      BY <1>3 DEF AllBut, Fields
    <2> QED
      BY <1>2, <2>1, <2>2, <2>3
  <1>5. t.groups = g.groups /\ t.line = g.line
    BY <1>3 DEF AllBut, Fields
  <1>6. InSync(t)
    BY <1>2, <1>3, <1>5, FreshInSync
  <1>7. << >> # Nil
    BY EmptyLine
  <1>8. Modes(t)
    BY <1>3, <1>4, <1>7 DEF Modes
  <1>9. ASSUME s.local # "isearch" PROVE Carries(s, t) /\ Homes(s, t)
    <2>1. s.buf = Nil
      BY <1>9 DEF Ready, Modes
    <2> QED
      BY <1>3, <1>4, <1>5, <2>1 DEF Carries, Homes
  <1> QED
    BY <1>3, <1>4, <1>6, <1>8, <1>9 DEF Ready, t, g

\* menu-incremental-search.
LEMMA MenuSearchReady ==
  ASSUME NEW s, Ready(s), ~s.nonInc
  PROVE  LET t == menuIncrementalSearch(s)
         IN  /\ Ready(t) /\ t.fault = s.fault
             /\ s.local # "isearch" => Carries(s, t) /\ Homes(s, t)
  <1>1. AllBut(s, s, {"source"}) /\ Sound(s)
    BY DEF AllBut, Ready
  <1> QED
    BY <1>1, SearchStarts DEF menuIncrementalSearch

\* reverse-search-history: with a single source, a second call ends the search.
LEMMA HistoryReady ==
  ASSUME NEW s, Ready(s), ~s.nonInc
  PROVE  LET t == historyCompletion(s)
         IN  /\ Ready(t) /\ t.fault = s.fault
             /\ Len(HistLines) = 1 => Carries(s, t) /\ Homes(s, t)
  <1> DEFINE again == s.local \in {"menu-select", "isearch"}
             onLast == s.source = Len(HistLines)
             n == IF ~again THEN s.source ELSE IF onLast THEN 1 ELSE s.source + 1
             r == [s EXCEPT !.source = n]
             t == historyCompletion(s)
  <1>1. s \in Engine /\ DOMAIN s = Fields
    BY EngineDomain DEF Ready, Sound
  <1>2. t = IF again /\ onLast THEN ResetForce(r)
            ELSE IsearchStart(GenerateWith(r, "history"), TRUE, TRUE)
    <2>1. r = [s EXCEPT !.source = IF ~again THEN @ ELSE IF onLast THEN 1 ELSE @ + 1]
      BY <1>1 DEF Fields
    <2> QED
      BY <2>1 DEF historyCompletion
  <1>3. s.source \in 1 .. Len(HistLines) /\ Len(HistLines) \in Nat
    BY <1>1, CompletionAssumption, LenProperties DEF Engine, Sources
  <1>4. n \in Sources
    BY <1>3 DEF Sources
  <1>5. Len(HistLines) = 1 => onLast
    BY <1>3
  <1> HIDE DEF n, t, onLast
  <1>6. r \in Engine /\ AllBut(s, r, {"source"})
    BY <1>1, <1>4 DEF Engine, AllBut
  <1> HIDE DEF r
  <1>7. Sound(r)
    BY <1>6, SoundAside DEF Ready
  <1>8. /\ r.nonInc = s.nonInc /\ r.fault = s.fault /\ r.buf = s.buf /\ r.modeExit = s.modeExit
        /\ r.main = s.main
    BY <1>6 DEF AllBut, Fields
  <1>9. CASE again /\ onLast
    <2>1. Closed(r, t)
      BY <1>2, <1>7, <1>8, <1>9, ResetForceCloses
    <2>2. Homes(s, t)
      BY <1>8, <2>1 DEF Closed, Homes
    <2>3. Carries(s, t)
      BY <2>1 DEF Closed, Carries
    <2> QED
      BY <1>8, <2>1, <2>2, <2>3 DEF Closed, t
  <1>10. CASE ~(again /\ onLast)
    <2>1. t = IsearchStart(GenerateWith(r, "history"), TRUE, TRUE)
      BY <1>2, <1>10
    <2>2. Ready(t) /\ t.fault = s.fault /\ (s.local # "isearch" => Carries(s, t) /\ Homes(s, t))
      <3>1. TRUE \in BOOLEAN /\ "history" \in {"commands", "history"}
        OBVIOUS
      <3> QED
        BY <1>6, <1>7, <2>1, <3>1, SearchStarts
    <2>3. Len(HistLines) = 1 => s.local # "isearch"
      BY <1>5, <1>10
    <2> QED
      BY <2>2, <2>3 DEF t
  <1> QED
    BY <1>9, <1>10

\* The next call of Readline starts with no menu and no search.
LEMMA NextCallFine ==
  ASSUME NEW s, Ready(s), ~s.nonInc
  PROVE  \E q : /\ Closed(s, q) /\ Returns(s, q) /\ NextCall(s) = Autocomplete(q)
  <1> DEFINE a == SetLine(s, << >>, 0)
             q == ResetForce(a)
  <1>1. NextCall(s) = Autocomplete(q)
    BY DEF NextCall
  <1>2. Sound(a) /\ AllBut(s, a, {"line", "pos"})
    <2>1. << >> \in Line /\ 0 \in Int
      BY DEF Line
    <2> QED
      BY <2>1, SetLineSound DEF Ready
  <1> HIDE DEF a
  <1>3. /\ a.nonInc = s.nonInc /\ a.fault = s.fault /\ a.buf = s.buf /\ a.modeExit = s.modeExit
        /\ a.main = s.main
    BY <1>2 DEF AllBut, Fields
  <1>4. Closed(a, q) /\ Returns(a, q)
    BY <1>2, <1>3, ResetForceCloses
  <1> HIDE DEF q
  <1>5. Closed(s, q) /\ Returns(s, q)
    <2>1. Homes(s, q)
      BY <1>3, <1>4 DEF Closed, Homes
    <2> QED
      BY <1>3, <1>4, <2>1 DEF Closed, Returns
  <1> QED
    BY <1>1, <1>5

\* The menu is generated anew, whichever mode there is.
LEMMA ResizeFine ==
  ASSUME NEW s, Ready(s)
  PROVE  Fine(s, GenerateWith(s, s.cached))
  <1> DEFINE r == GenerateWith(s, s.cached)
  <1>1. Sound(s) /\ Modes(s) /\ InSync(s) /\ s.cached \in Cached
    BY DEF Ready, Sound, Engine
  <1>2. /\ Sound(r) /\ Browse(s, r) /\ r.fault = s.fault
        /\ s.cached # "" => Full(r.groups) /\ AllFresh(r.groups)
        /\ s.cached = "" => AllBut(s, r, {"cached"})
        /\ s.selected = << >> => r.selected = << >>
        /\ AllBut(s, r, Fetching) /\ r.local \in {s.local, ""}
    BY <1>1, GenerateWithSound
  <1> HIDE DEF r
  <1>3. InSync(r)
    <2>1. CASE s.cached = ""
      BY <1>1, <1>2, <2>1, InSyncAside
    <2>2. CASE s.cached # ""
      BY <1>2, <2>2, FreshInSync
    <2> QED
      BY <2>1, <2>2
  <1>4. /\ r.buf = s.buf /\ r.nonInc = s.nonInc /\ r.main = s.main /\ r.modeExit = s.modeExit
        /\ r.replace = s.replace /\ r.startBuf = s.startBuf
    BY <1>2 DEF AllBut, Fetching, Viewing, Fields
  <1>5. r.local = "isearch" <=> s.local = "isearch"
    <2>1. s.local = "isearch" => r.local = s.local
      BY <1>2 DEF Browse, AllBut, Viewing, Fields
    <2> QED
      BY <1>2, <2>1 DEF Browse
  <1>6. Full(s.groups) => Full(r.groups)
    <2>1. s.cached = "" => r.groups = s.groups
      BY <1>2 DEF AllBut, Fields
    <2> QED
      BY <1>2, <2>1
  <1>7. Modes(r)
    BY <1>1, <1>2, <1>4, <1>5, <1>6 DEF Modes
  <1>8. Carries(s, r) /\ Homes(s, r)
    BY <1>4, <1>5 DEF Carries, Homes
  <1> QED
    BY <1>2, <1>3, <1>7, <1>8 DEF Fine, Ready, r

-----------------------------------------------------------------------------
(* The steps                                                               *)

\* The commands of menuselectKeys, and abort: the local keymaps hold no other.
MenuCommands ==
  {"menu-complete", "menu-complete-backward", "accept-and-menu-complete",
   "menu-incremental-search", "menu-complete-prev-tag", "menu-complete-next-tag", "abort"}

MenuOnly == MenuBinds \subseteq MenuCommands /\ IsearchBinds \subseteq MenuCommands

\* A search binds no command that goes from one group to another.
NoTags == {"menu-complete-prev-tag", "menu-complete-next-tag"} \cap IsearchBinds = {}

\* A search binds no command that starts another, and there is no other source
\* for it to go on to.
OneSearch == "menu-incremental-search" \notin IsearchBinds /\ Len(HistLines) = 1

\* What a step does to the engine: r is the next one, and m says how it ended
\* a search.
StepsTo(r, m) ==
  /\ Good(r)
  /\ NoTags => r.fault = e.fault
  /\ OneSearch => Carries(e, r) /\ (m # "mode" => Homes(e, r))

\* What the history variables record of it.
Records ==
  /\ origin' = IF e'.buf = Nil THEN NoOrigin
               ELSE IF e.buf # Nil THEN origin
               ELSE [line |-> e'.line, main |-> e.main]

Stepped == StepsTo(e', last') /\ Records

\* The engine a command is given, and which commands a search allows.
LEMMA BeforeGives ==
  ASSUME Good(e), MenuOnly, NEW c, NEW key, NEW s \in Before(c, key)
  PROVE  /\ Passes(e, s)
         /\ c \notin nonIsearchCommands => ~s.nonInc
         /\ c \notin MenuCommands => /\ s = UpdateInserted(e, key) /\ s.selected = << >>
                                     /\ s.local \in {"", "isearch"}
         /\ c \notin isearchCommands \cup IsearchBinds => s.local # "isearch"
  <1> DEFINE u == UpdateInserted(e, key)
  <1>1. (s = e /\ c \in LocalBinds(e)) \/ (s = u /\ c \in MainBinds(u))
    BY DEF Before
  <1>2. CASE s = e /\ c \in LocalBinds(e)
    <2>1. Passes(e, e)
      <3>1. AllBut(e, e, Passing)
        BY DEF AllBut
      <3> QED
        BY <3>1 DEF Passes
    <2>2. e.local = "menu-select" \/ (e.local = "isearch" /\ c \in IsearchBinds)
      BY <1>2 DEF LocalBinds
    <2>3. c \in MenuCommands
      BY <1>2 DEF LocalBinds, MenuOnly
    <2>4. ~e.nonInc
      BY <2>2 DEF Good, Ready, Modes
    <2> QED
      BY <1>2, <2>1, <2>2, <2>3, <2>4
  <1>3. CASE s = u /\ c \in MainBinds(u)
    <2>1. Passes(e, u) /\ u.selected = << >> /\ u.local \in {"", "isearch"}
      BY UpdateInsertedPasses
    <2> HIDE DEF u
    <2>2. u.local = "isearch" => c \in isearchCommands /\ ~u.nonInc
      <3>1. u.local = "isearch" => c \in isearchCommands
        BY <1>3 DEF MainBinds
      <3>2. u.local = "isearch" => ~u.nonInc
        BY <2>1 DEF Passes, Good, Ready, Modes
      <3> QED
        BY <3>1, <3>2
    <2>3. u.local # "isearch" /\ u.nonInc => c \in nonIsearchCommands
      BY <1>3 DEF MainBinds
    <2> QED
      BY <1>3, <2>1, <2>2, <2>3 DEF u
  <1> QED
    BY <1>1, <1>2, <1>3

\* From the key to the refresh of the display, whatever a command does.
LEMMA StepsBy ==
  ASSUME NEW s, NEW t, NEW r, NEW m, Passes(e, s), Ready(t), NoTags => t.fault = s.fault,
         OneSearch => Carries(s, t), OneSearch /\ m # "mode" => Homes(s, t), Shows(t, r)
  PROVE  StepsTo(r, m)
  <1>1. Good(r) /\ r.fault = t.fault
    BY DEF Shows
  <1>2. s.fault = e.fault
    BY DEF Passes
  <1>3. OneSearch => Carries(e, r)
    BY CarriesThrough
  <1>4. OneSearch /\ m # "mode" => Homes(e, r)
    BY CarriesThrough
  <1> QED
    BY <1>1, <1>2, <1>3, <1>4 DEF StepsTo

\* The same of a command that is fine.
LEMMA FineSteps ==
  ASSUME NEW s, NEW t, NEW r, NEW m, Passes(e, s), Fine(s, t), Shows(t, r)
  PROVE  StepsTo(r, m)
  BY StepsBy DEF Fine

\* What the history variables record.
LEMMA BecomesRecords ==
  ASSUME NEW s, NEW c, Becomes(s, c)
  PROVE  /\ e' = s /\ Records
         /\ c # "abort" => last' # "abort"
         /\ last' = "mode" => c \in {"vi-movement-mode", "emacs-editing-mode"}
         /\ c \in {"vi-movement-mode", "emacs-editing-mode"} => last' = "mode"
  BY DEF Becomes, Records

\* A step of a command that is fine.
LEMMA RunSteps ==
  ASSUME NEW s, NEW t, NEW c, Passes(e, s), Fine(s, t), Becomes(AfterRun(s, t), c)
  PROVE  Stepped
  <1> DEFINE r == AfterRun(s, t)
  <1>1. Shows(t, r)
    BY AfterRunShows DEF Fine
  <1>2. e' = r /\ Records
    BY BecomesRecords
  <1> HIDE DEF r
  <1>3. StepsTo(r, last')
    BY <1>1, FineSteps
  <1> QED
    BY <1>2, <1>3 DEF Stepped

\* The completion commands.
LEMMA CompletingSteps ==
  ASSUME Good(e), MenuOnly, Completing
  PROVE  Stepped
  <1>1. ASSUME NEW c, c \notin nonIsearchCommands, NEW key, NEW s \in Before(c, key), NEW t,
               Sound(s) => Views(s, t), Becomes(AfterRun(s, t), c)
        PROVE  Stepped
    <2>1. Passes(e, s) /\ ~s.nonInc
      BY <1>1, BeforeGives
    <2>2. Ready(s) /\ Sound(s)
      BY <2>1 DEF Passes, Good, Ready
    <2>3. Fine(s, t)
      BY <1>1, <2>1, <2>2, ViewsFine
    <2> QED
      BY <1>1, <2>1, <2>3, RunSteps
  <1>2. ASSUME NEW d \in {1, -1}, NEW c \in {"menu-complete-next-tag", "menu-complete-prev-tag"},
               NEW s \in Before(c, "key"), Becomes(AfterRun(s, menuCompleteTag(s, d)), c)
        PROVE  Stepped
    <2> DEFINE t == menuCompleteTag(s, d)
               r == AfterRun(s, t)
    <2>1. /\ Passes(e, s) /\ ~s.nonInc /\ (NoTags => s.local # "isearch")
      <3>1. c \notin nonIsearchCommands /\ c \notin isearchCommands
        BY DEF nonIsearchCommands, isearchCommands
      <3>2. NoTags => c \notin IsearchBinds
        BY DEF NoTags
      <3> QED
        BY <3>1, <3>2, BeforeGives
    <2>2. Ready(s) /\ Sound(s) /\ InSync(s)
      BY <2>1 DEF Passes, Good, Ready
    <2>3. /\ Sound(t) /\ Browse(s, t) /\ InSync(t)
          /\ Full(s.groups) => Full(t.groups) /\ t.fault = s.fault
      <3>1. t = s \/ t = SelectTag(s, d)
        BY DEF menuCompleteTag
      <3>2. Browse(s, s)
        BY <2>2, ViewsSame DEF Views
      <3> HIDE DEF t
      <3> QED
        BY <2>2, <3>1, <3>2, SelectTagViews
    <2> HIDE DEF t
    <2>4. Ready(t) /\ Carries(s, t) /\ Homes(s, t)
      BY <2>1, <2>2, <2>3, BrowseReady
    <2>5. NoTags => t.fault = s.fault
      <3>1. s.local # "isearch" => Full(s.groups)
        BY <2>2 DEF Ready, Modes
      <3> QED
        BY <2>1, <2>3, <3>1
    <2>6. Shows(t, r)
      BY <2>4, AfterRunShows
    <2>7. e' = r /\ Records
      BY <1>2, BecomesRecords DEF t
    <2> HIDE DEF r
    <2>8. StepsTo(r, last')
      BY <2>1, <2>4, <2>5, <2>6, StepsBy
    <2> QED
      BY <2>7, <2>8 DEF Stepped
  <1>3. CASE MenuComplete
    <2>1. PICK key \in Keys1 : \E s \in Before("menu-complete", key) :
            Becomes(AfterRun(s, menuComplete(s, key)), "menu-complete")
      BY <1>3 DEF MenuComplete, Run
    <2>2. "menu-complete" \notin nonIsearchCommands
      BY DEF nonIsearchCommands
    <2> QED
      BY <1>1, <2>1, <2>2, MenuCompleteViews
  <1>4. CASE MenuCompleteBackward
    <2>1. PICK key \in Keys1 : \E s \in Before("menu-complete-backward", key) :
            Becomes(AfterRun(s, menuCompleteBackward(s, key)), "menu-complete-backward")
      BY <1>4 DEF MenuCompleteBackward, Run
    <2>2. "menu-complete-backward" \notin nonIsearchCommands
      BY DEF nonIsearchCommands
    <2> QED
      BY <1>1, <2>1, <2>2, MenuCompleteViews
  <1>5. CASE PossibleCompletions
    <2>1. PICK s \in Before("possible-completions", "key") :
            Becomes(AfterRun(s, possibleCompletions(s)), "possible-completions")
      BY <1>5 DEF PossibleCompletions, Run
    <2>2. /\ "possible-completions" \notin nonIsearchCommands
          /\ "possible-completions" \notin isearchCommands \cup IsearchBinds
      BY DEF nonIsearchCommands, isearchCommands, MenuOnly, MenuCommands
    <2>3. s.local # "isearch"
      BY <2>2, BeforeGives
    <2> QED
      BY <1>1, <2>1, <2>2, <2>3, StartViews DEF possibleCompletions
  <1>6. CASE InsertCompletions
    <2>1. PICK s \in Before("insert-completions", "key") :
            Becomes(AfterRun(s, insertCompletions(s)), "insert-completions")
      BY <1>6 DEF InsertCompletions, Run
    <2>2. "insert-completions" \notin nonIsearchCommands
      BY DEF nonIsearchCommands
    <2> QED
      BY <1>1, <2>1, <2>2, InsertCompletionsViews
  <1>7. CASE DeleteCharOrList
    <2>1. PICK s \in Before("delete-char-or-list", "key") :
            Becomes(AfterRun(s, deleteCharOrList(s)), "delete-char-or-list")
      BY <1>7 DEF DeleteCharOrList, Run
    <2>2. /\ "delete-char-or-list" \notin nonIsearchCommands
          /\ "delete-char-or-list" \notin isearchCommands \cup IsearchBinds
          /\ "delete-char-or-list" \notin MenuCommands
      BY DEF nonIsearchCommands, isearchCommands, MenuOnly, MenuCommands
    <2>3. s.local # "isearch" /\ s.selected = << >>
      BY <2>2, BeforeGives
    <2> QED
      BY <1>1, <2>1, <2>2, <2>3, DeleteOrListViews
  <1>8. CASE MenuCompleteNextTag
    BY <1>2, <1>8 DEF MenuCompleteNextTag, Run
  <1>9. CASE MenuCompletePrevTag
    BY <1>2, <1>9 DEF MenuCompletePrevTag, Run
  <1>10. CASE AcceptAndMenuComplete
    <2>1. PICK s \in Before("accept-and-menu-complete", "key") :
            Becomes(AfterRun(s, acceptAndMenuComplete(s)), "accept-and-menu-complete")
      BY <1>10 DEF AcceptAndMenuComplete, Run
    <2>2. "accept-and-menu-complete" \notin nonIsearchCommands
      BY DEF nonIsearchCommands
    <2> QED
      BY <1>1, <2>1, <2>2, AcceptAndMenuViews
  <1> QED
    BY <1>3, <1>4, <1>5, <1>6, <1>7, <1>8, <1>9, <1>10 DEF Completing

\* The commands that start a search.
LEMMA StartSearchSteps ==
  ASSUME Good(e), MenuOnly, StartSearch
  PROVE  Stepped
  <1>1. ASSUME NEW c, NEW key, NEW s \in Before(c, key), NEW t, Ready(t), t.fault = s.fault,
               OneSearch => Carries(s, t) /\ Homes(s, t), Becomes(AfterRun(s, t), c)
        PROVE  Stepped
    <2> DEFINE r == AfterRun(s, t)
    <2>1. Passes(e, s)
      BY <1>1, BeforeGives
    <2>2. Shows(t, r)
      BY <1>1, AfterRunShows
    <2>3. e' = r /\ Records
      BY <1>1, BecomesRecords
    <2> HIDE DEF r
    <2>4. StepsTo(r, last')
      BY <1>1, <2>1, <2>2, StepsBy
    <2> QED
      BY <2>3, <2>4 DEF Stepped
  <1>2. CASE MenuIncrementalSearch
    <2> DEFINE c == "menu-incremental-search"
    <2>1. PICK s \in Before(c, "key") : Becomes(AfterRun(s, menuIncrementalSearch(s)), c)
      BY <1>2 DEF MenuIncrementalSearch, Run
    <2>2. /\ c \notin nonIsearchCommands
          /\ OneSearch => c \notin isearchCommands \cup IsearchBinds
      BY DEF nonIsearchCommands, isearchCommands, OneSearch
    <2> HIDE DEF c
    <2>3. Passes(e, s) /\ ~s.nonInc /\ (OneSearch => s.local # "isearch")
      BY <2>2, BeforeGives
    <2> DEFINE t == menuIncrementalSearch(s)
    <2>4. /\ Ready(t) /\ t.fault = s.fault
          /\ s.local # "isearch" => Carries(s, t) /\ Homes(s, t)
      BY <2>3, MenuSearchReady DEF Passes, Good
    <2> HIDE DEF t
    <2> QED
      BY <1>1, <2>1, <2>3, <2>4 DEF t
  <1>3. CASE ReverseSearchHistory
    <2> DEFINE c == "reverse-search-history"
    <2>1. PICK s \in Before(c, "key") : Becomes(AfterRun(s, historyCompletion(s)), c)
      BY <1>3 DEF ReverseSearchHistory, Run
    <2>2. c \notin nonIsearchCommands
      BY DEF nonIsearchCommands
    <2> HIDE DEF c
    <2>3. Passes(e, s) /\ ~s.nonInc
      BY <2>2, BeforeGives
    <2> DEFINE t == historyCompletion(s)
    <2>4. /\ Ready(t) /\ t.fault = s.fault
          /\ Len(HistLines) = 1 => Carries(s, t) /\ Homes(s, t)
      BY <2>3, HistoryReady DEF Passes, Good
    <2> HIDE DEF t
    <2> QED
      BY <1>1, <2>1, <2>4 DEF t, OneSearch
  <1>4. ASSUME NEW c \in {"non-incremental-reverse-search-history", "vi-search-again"},
               NEW s \in Before(c, "key")
        PROVE  Passes(e, s) /\ Ready(s) /\ ~s.nonInc /\ s.local = "" /\ s.selected = << >>
    <2>1. /\ c \notin nonIsearchCommands /\ c \notin MenuCommands
          /\ c \notin isearchCommands \cup IsearchBinds
      BY DEF nonIsearchCommands, isearchCommands, MenuOnly, MenuCommands
    <2>2. /\ Passes(e, s) /\ ~s.nonInc /\ s.local # "isearch" /\ s.selected = << >>
          /\ s.local \in {"", "isearch"}
      BY <2>1, BeforeGives
    <2> QED
      BY <2>2 DEF Passes, Good
  <1>5. CASE NonIncrementalSearch
    <2> DEFINE c == "non-incremental-reverse-search-history"
    <2>1. PICK s \in Before(c, "key") : Becomes(AfterRun(s, NonIsearchStart(s)), c)
      BY <1>5 DEF NonIncrementalSearch, Run
    <2>2. Passes(e, s) /\ Fine(s, NonIsearchStart(s))
      BY <1>4, NonStartFine
    <2> HIDE DEF c
    <2> QED
      BY <2>1, <2>2, RunSteps
  <1>6. CASE ViSearchAgain
    <2> DEFINE c == "vi-search-again"
    <2>1. PICK s \in Before(c, "key") : \E m \in InsertMatch(NonIsearchStart(s)) :
            Becomes(AfterRun(s, NonIsearchStop(m)), c)
      BY <1>6 DEF ViSearchAgain
    <2>2. PICK m \in InsertMatch(NonIsearchStart(s)) : Becomes(AfterRun(s, NonIsearchStop(m)), c)
      BY <2>1
    <2>3. Passes(e, s) /\ Fine(s, NonIsearchStop(m))
      BY <1>4, SearchAgainFine
    <2> HIDE DEF c
    <2> QED
      BY <2>2, <2>3, RunSteps
  <1> QED
    BY <1>2, <1>3, <1>5, <1>6 DEF StartSearch

\* The editing commands, and those that change modes.
LEMMA EditSteps ==
  ASSUME Good(e), MenuOnly, Edit
  PROVE  Stepped
  <1>1. ASSUME NEW s, NEW t, Passes(e, s), ~s.nonInc, t \in {viCommandMode(s), emacsEditingMode(s)},
               NEW c \in {"vi-movement-mode", "emacs-editing-mode"}, Becomes(AfterRun(s, t), c)
        PROVE  Stepped
    <2> DEFINE r == AfterRun(s, t)
    <2>1. Ready(s)
      BY <1>1 DEF Passes, Good
    <2>2. Ready(t) /\ t.fault = s.fault /\ t.buf = Nil
      BY <1>1, <2>1, ModesReady
    <2>3. Shows(t, r)
      BY <2>2, AfterRunShows
    <2>4. e' = r /\ Records /\ last' = "mode"
      BY <1>1, BecomesRecords
    <2> HIDE DEF r
    <2>5. Carries(s, t)
      BY <2>2 DEF Carries
    <2>6. StepsTo(r, last')
      BY <1>1, <2>2, <2>3, <2>4, <2>5, StepsBy
    <2> QED
      BY <2>4, <2>6 DEF Stepped
  <1>2. ASSUME NEW c, c \notin MenuCommands, NEW key, NEW s \in Before(c, key)
        PROVE  Passes(e, s) /\ Good(s) /\ Ready(s) /\ s.selected = << >>
    BY <1>2, BeforeGives DEF Passes, Good
  <1>3. CASE SelfInsert
    <2> DEFINE c == "self-insert"
    <2>1. PICK ch \in Char : \E s \in Before(c, "key") : Becomes(AfterRun(s, selfInsert(s, ch)), c)
      BY <1>3 DEF SelfInsert, Run
    <2>2. PICK s \in Before(c, "key") : Becomes(AfterRun(s, selfInsert(s, ch)), c)
      BY <2>1
    <2>3. c \notin MenuCommands
      BY DEF MenuCommands
    <2> HIDE DEF c
    <2>4. Passes(e, s) /\ Fine(s, selfInsert(s, ch))
      BY <1>2, <2>3, SelfInsertFine
    <2> QED
      BY <2>2, <2>4, RunSteps
  <1>4. CASE BackwardDeleteChar
    <2> DEFINE c == "backward-delete-char"
    <2>1. PICK s \in Before(c, "key") : Becomes(AfterRun(s, backwardDeleteChar(s)), c)
      BY <1>4 DEF BackwardDeleteChar, Run
    <2>2. c \notin MenuCommands
      BY DEF MenuCommands
    <2> HIDE DEF c
    <2>3. Passes(e, s) /\ Fine(s, backwardDeleteChar(s))
      BY <1>2, <2>2, BackwardDeleteFine
    <2> QED
      BY <2>1, <2>3, RunSteps
  <1>5. CASE BackwardChar
    <2> DEFINE c == "backward-char"
    <2>1. PICK s \in Before(c, "key") : Becomes(AfterRun(s, backwardChar(s)), c)
      BY <1>5 DEF BackwardChar, Run
    <2>2. c \notin MenuCommands
      BY DEF MenuCommands
    <2> HIDE DEF c
    <2>3. Passes(e, s) /\ Fine(s, backwardChar(s))
      BY <1>2, <2>2, BackwardCharFine
    <2> QED
      BY <2>1, <2>3, RunSteps
  <1>6. CASE ViMovementMode
    <2> DEFINE c == "vi-movement-mode"
    <2>1. PICK s \in Before(c, "escape") : Becomes(AfterRun(s, viCommandMode(s)), c)
      BY <1>6 DEF ViMovementMode, Run
    <2>2. c \notin nonIsearchCommands /\ c \in {"vi-movement-mode", "emacs-editing-mode"}
      BY DEF nonIsearchCommands
    <2> HIDE DEF c
    <2>3. Passes(e, s) /\ ~s.nonInc
      BY <2>2, BeforeGives
    <2> QED
      BY <1>1, <2>1, <2>2, <2>3
  <1>7. CASE ViInsertionMode
    <2> DEFINE c == "vi-insertion-mode"
    <2>1. PICK s \in Before(c, "key") : Becomes(AfterRun(s, viInsertMode(s)), c)
      BY <1>7 DEF ViInsertionMode, Run
    <2>2. /\ c \notin nonIsearchCommands /\ c \notin MenuCommands
          /\ c \notin isearchCommands \cup IsearchBinds
      BY DEF nonIsearchCommands, isearchCommands, MenuOnly, MenuCommands
    <2> HIDE DEF c
    <2>3. Passes(e, s) /\ ~s.nonInc /\ s.local # "isearch" /\ s.selected = << >>
      BY <2>2, BeforeGives
    <2>4. Fine(s, viInsertMode(s))
      BY <2>3, ViInsertReady DEF Passes, Good
    <2> QED
      BY <2>1, <2>3, <2>4, RunSteps
  <1>8. CASE EmacsEditingMode
    <2> DEFINE c == "emacs-editing-mode"
    <2>1. c \notin nonIsearchCommands /\ c \in {"vi-movement-mode", "emacs-editing-mode"}
      BY DEF nonIsearchCommands
    <2>2. \/ \E s \in Before(c, "key") : Becomes(AfterRun(s, emacsEditingMode(s)), c)
          \/ e.local = "isearch" /\ Becomes(AfterRun(e, emacsEditingMode(e)), c)
      BY <1>8 DEF EmacsEditingMode, Run
    <2> HIDE DEF c
    <2>3. ASSUME NEW s \in Before(c, "key"), Becomes(AfterRun(s, emacsEditingMode(s)), c)
          PROVE  Stepped
      <3>1. Passes(e, s) /\ ~s.nonInc
        BY <2>1, BeforeGives
      <3> QED
        BY <1>1, <2>1, <2>3, <3>1
    <2>4. ASSUME e.local = "isearch", Becomes(AfterRun(e, emacsEditingMode(e)), c)
          PROVE  Stepped
      <3>1. Passes(e, e)
        <4>1. AllBut(e, e, Passing)
          BY DEF AllBut
        <4> QED
          BY <4>1 DEF Passes
      <3>2. ~e.nonInc
        BY <2>4 DEF Good, Ready, Modes
      <3> QED
        BY <1>1, <2>1, <2>4, <3>1, <3>2
    <2> QED
      BY <2>2, <2>3, <2>4
  <1> QED
    BY <1>3, <1>4, <1>5, <1>6, <1>7, <1>8 DEF Edit

\* The refresh of the display alone.
LEMMA AutocompleteShows ==
  ASSUME NEW t, Ready(t)
  PROVE  Shows(t, Autocomplete(t))
  <1> DEFINE r == Autocomplete(t)
  <1>1. Good(r) /\ r.fault = t.fault /\ AllBut(t, r, Offering)
    BY AutocompleteGood
  <1> HIDE DEF r
  <1>2. AllBut(t, r, Display) /\ r.line = t.line
    BY <1>1 DEF AllBut, Offering, Display, Viewing, Fields
  <1> QED
    BY <1>1, <1>2 DEF Shows, r

\* Readline returns, and is called again.
LEMMA NextCallShows ==
  ASSUME NEW s, Ready(s), ~s.nonInc
  PROVE  \E q : Closed(s, q) /\ Returns(s, q) /\ Shows(q, NextCall(s))
  <1>1. PICK q : Closed(s, q) /\ Returns(s, q) /\ NextCall(s) = Autocomplete(q)
    BY NextCallFine
  <1>2. Shows(q, NextCall(s))
    BY <1>1, AutocompleteShows DEF Closed
  <1> QED
    BY <1>1, <1>2

\* A step that closes all.
LEMMA ClosedSteps ==
  ASSUME NEW s, NEW q, NEW r, NEW c, Passes(e, s), Closed(s, q), Shows(q, r), Becomes(r, c)
  PROVE  Stepped
  <1>1. Fine(s, q)
    BY ClosedFine
  <1>2. StepsTo(r, last')
    BY <1>1, FineSteps
  <1>3. e' = r /\ Records
    BY BecomesRecords
  <1> QED
    BY <1>2, <1>3 DEF Stepped

\* accept-line returns the line, or ends a non-incremental search.
LEMMA AcceptLineSteps ==
  ASSUME Good(e), MenuOnly, AcceptLine
  PROVE  Stepped /\ (returned' # Nil => returned' = Shown(e).line)
  <1> DEFINE c == "accept-line"
  <1> DEFINE Accepts(key, s) ==
          \/ /\ Searching(Reset(s))
             /\ \E m \in InsertMatch(Reset(s)) : Becomes(AfterRun(s, NonIsearchStop(m)), c)
             /\ returned' = Nil
          \/ /\ ~Searching(Reset(s))
             /\ Becomes(NextCall(Reset(s)), c)
             /\ returned' = IF key = "return" THEN Reset(s).line ELSE Nil
  <1>1. PICK key \in {"return", "key"} : \E s \in Before(c, key) : Accepts(key, s)
    BY DEF AcceptLine
  <1>2. PICK s \in Before(c, key) : Accepts(key, s)
    BY <1>1
  <1> DEFINE r == Reset(s)
  <1>3. c \notin MenuCommands
    BY DEF MenuCommands
  <1> HIDE DEF c
  <1>4. Passes(e, s) /\ s = UpdateInserted(e, key) /\ s.selected = << >>
    BY <1>3, BeforeGives
  <1>5. Ready(s) /\ Sound(s)
    BY <1>4 DEF Passes, Good, Ready
  <1>6. CASE s.nonInc
    <2>1. s.buf # Nil /\ s.local = "" /\ Full(s.groups)
      BY <1>5, <1>6 DEF Ready, Modes
    <2>2. ~IsActive(s)
      BY <2>1 DEF IsActive, Searching
    <2>3. /\ Sound(r) /\ r.selected = << >> /\ r.groups = << >>
          /\ AllBut(s, r, {"selected", "comp", "groups", "cur", "local"})
          /\ r.local # "isearch"
      BY <1>5, <2>1, <2>2, ResetSound
    <2> HIDE DEF r
    <2>4. r.buf = s.buf /\ r.modeExit = s.modeExit /\ r.main = s.main /\ r.fault = s.fault
      BY <2>3 DEF AllBut, Fields
    <2>5. Searching(r)
      BY <2>1, <2>3, <2>4 DEF Searching
    <2>6. PICK m \in InsertMatch(r) : Becomes(AfterRun(s, NonIsearchStop(m)), c)
      BY <1>2, <2>5 DEF r
    <2> DEFINE t == NonIsearchStop(m)
    <2>7. Ready(t) /\ t.fault = r.fault /\ t.buf = Nil /\ Returns(r, t)
      BY <2>3, <2>6, FullNone, MatchStops
    <2> HIDE DEF t
    <2>8. Carries(s, t) /\ Homes(s, t)
      BY <2>4, <2>7 DEF Carries, Homes, Returns
    <2>9. Fine(s, t)
      BY <2>4, <2>7, <2>8 DEF Fine
    <2>10. Stepped
      BY <1>4, <2>6, <2>9, RunSteps DEF t
    <2> QED
      BY <1>2, <2>5, <2>10 DEF r
  <1>7. CASE ~s.nonInc
    <2>1. /\ Closed(s, r) /\ r.line = s.line
          /\ s.buf # Nil => Returns(s, r)
      BY <1>4, <1>5, <1>7, ResetCloses
    <2>2. ~Searching(r)
      BY <2>1 DEF Searching, Closed
    <2>3. Becomes(NextCall(r), c) /\ returned' = IF key = "return" THEN r.line ELSE Nil
      BY <1>2, <2>2
    <2> HIDE DEF r
    <2>4. PICK q : Closed(r, q) /\ Returns(r, q) /\ Shows(q, NextCall(r))
      <3>1. Ready(r) /\ ~r.nonInc
        BY <2>1 DEF Closed
      <3> QED
        BY <3>1, NextCallShows
    <2>5. Homes(s, q)
      BY <2>1, <2>4 DEF Homes, Returns
    <2>6. Closed(s, q)
      BY <2>1, <2>4, <2>5 DEF Closed
    <2>7. Stepped
      BY <1>4, <2>3, <2>4, <2>6, ClosedSteps
    <2>8. key = "return" => s.line = Shown(e).line
      BY <1>4, UpdateInsertedPasses
    <2> QED
      BY <2>1, <2>3, <2>7, <2>8
  <1> QED
    BY <1>6, <1>7

\* No change at all is fine, outside of non-incremental searches.
LEMMA SameFine ==
  ASSUME NEW s, Ready(s), ~s.nonInc
  PROVE  Fine(s, s)
  BY ViewsSame, ViewsFine DEF Ready

\* Nothing happens between two keys.
LEMMA SamePasses ==
  ASSUME Good(e)
  PROVE  Passes(e, e)
  <1>1. AllBut(e, e, Passing)
    BY DEF AllBut
  <1> QED
    BY <1>1 DEF Passes

\* abort gives back the line that a history search was started on.
LEMMA AbortSteps ==
  ASSUME Good(e), MenuOnly, Abort
  PROVE  /\ Stepped
         /\ e.local = "isearch" /\ e.replace => e'.line = e.startBuf /\ e'.local = ""
  <1> DEFINE c == "abort"
             Outcomes(s) == IF AutoCompleting(s) \/ IsInserting(s) THEN {AfterRun(s, ResetForce(s))}
                            ELSE IF Searching(s) THEN {AfterRun(s, NonIsearchStop(s))}
                            ELSE {NextCall(s), AfterRun(s, s)}
  <1>1. PICK s \in Before(c, "key") : \E r \in Outcomes(s) : Becomes(r, c)
    BY DEF Abort
  <1>2. PICK r \in Outcomes(s) : Becomes(r, c)
    BY <1>1
  <1> HIDE DEF c
  <1>3. Passes(e, s) /\ Ready(s) /\ Sound(s)
    BY BeforeGives DEF Passes, Good, Ready
  <1>4. CASE AutoCompleting(s) \/ IsInserting(s)
    <2> DEFINE t == ResetForce(s)
    <2>1. r = AfterRun(s, t)
      BY <1>4
    <2>2. ~s.nonInc
      BY <1>3, <1>4 DEF AutoCompleting, IsInserting, Ready, Modes
    <2>3. /\ Closed(s, t) /\ t.local = ""
          /\ t.line = IF s.replace /\ s.local = "isearch" THEN s.startBuf ELSE s.line
      BY <1>3, <2>2, ResetForceCloses
    <2> HIDE DEF t
    <2>4. Fine(s, t) /\ Shows(t, r)
      BY <2>1, <2>3, ClosedFine, AfterRunShows DEF Closed
    <2>5. Stepped
      BY <1>2, <1>3, <2>1, <2>4, RunSteps
    <2>6. r.line = t.line /\ r.local = t.local
      BY <2>3, <2>4 DEF Shows, AllBut, Display, Viewing, Fields
    <2>7. s.replace = e.replace /\ s.startBuf = e.startBuf
      BY <1>3 DEF Passes, AllBut, Passing, Viewing, Fields
    <2>8. s.local = "isearch" <=> e.local = "isearch"
      BY <1>3 DEF Passes
    <2>9. e' = r
      BY <1>2, BecomesRecords
    <2> QED
      BY <2>3, <2>5, <2>6, <2>7, <2>8, <2>9
  <1>5. CASE ~(AutoCompleting(s) \/ IsInserting(s))
    <2>1. s.local # "isearch" /\ s.selected = << >> /\ e.local # "isearch"
      BY <1>3, <1>5 DEF AutoCompleting, IsInserting, Passes
    <2>2. CASE Searching(s)
      <3>1. r = AfterRun(s, NonIsearchStop(s))
        BY <1>5, <2>2
      <3>2. s \in InsertMatch(s)
        BY DEF InsertMatch
      <3>3. Fine(s, NonIsearchStop(s))
        BY <1>3, <2>1, <3>2, MatchFine
      <3> QED
        BY <1>2, <1>3, <2>1, <3>1, <3>3, RunSteps
    <2>3. CASE ~Searching(s)
      <3>1. ~s.nonInc
        BY <1>3, <2>1, <2>3 DEF Searching, Ready, Modes
      <3>2. CASE r = NextCall(s)
        <4>1. PICK q : Closed(s, q) /\ Shows(q, NextCall(s))
          BY <1>3, <3>1, NextCallShows
        <4> QED
          BY <1>2, <1>3, <2>1, <3>2, <4>1, ClosedSteps
      <3>3. CASE r = AfterRun(s, s)
        <4>1. Fine(s, s)
          BY <1>3, <3>1, SameFine
        <4> QED
          BY <1>2, <1>3, <2>1, <3>3, <4>1, RunSteps
      <3>4. r = NextCall(s) \/ r = AfterRun(s, s)
        BY <1>2, <1>5, <2>3
      <3> QED
        BY <3>2, <3>3, <3>4
    <2> QED
      BY <2>2, <2>3
  <1> QED
    BY <1>4, <1>5

\* A step of what is fine, up to the refresh of the display.
LEMMA RefreshSteps ==
  ASSUME NEW s, NEW t, NEW c, Passes(e, s), Fine(s, t), Becomes(Autocomplete(t), c)
  PROVE  Stepped
  <1> DEFINE r == Autocomplete(t)
  <1>1. Shows(t, r)
    BY AutocompleteShows DEF Fine
  <1>2. e' = r /\ Records
    BY BecomesRecords
  <1> HIDE DEF r
  <1>3. StepsTo(r, last')
    BY <1>1, FineSteps
  <1> QED
    BY <1>2, <1>3 DEF Stepped

\* A key without a bind.
LEMMA UndefinedSteps ==
  ASSUME Good(e), Undefined
  PROVE  Stepped
  <1> DEFINE u == UpdateInserted(e, "key")
             a == CheckCursor(u, u)
             r == UpdateIsearch(a)
             t == IF r.local = "isearch" THEN Reset(r) ELSE r
  <1>1. ~u.nonInc /\ Becomes(Autocomplete(t), "")
    BY DEF Undefined
  <1>2. Passes(e, u)
    BY UpdateInsertedPasses
  <1> HIDE DEF u
  <1>3. Ready(a) /\ AllBut(u, a, {"pos"})
    BY <1>2, CheckCursorReady DEF Passes, Good
  <1> HIDE DEF a
  <1>4. Ready(r) /\ r.fault = a.fault /\ AllBut(a, r, Viewing \cup {"regex"})
    BY <1>3, UpdateIsearchReady
  <1> HIDE DEF r
  <1>5. /\ r.fault = u.fault /\ r.local = u.local /\ r.auto = u.auto /\ r.nonInc = u.nonInc
    BY <1>1, <1>3, <1>4 DEF AllBut, Viewing, Fields
  <1>6. AllBut(e, r, Passing)
    BY <1>2, <1>3, <1>4 DEF Passes, AllBut, Passing, Viewing
  <1>7. Passes(e, r)
    BY <1>2, <1>4, <1>5, <1>6 DEF Passes, Good
  <1>8. Fine(r, t)
    <2>1. ~r.nonInc
      BY <1>1, <1>5
    <2>2. Fine(r, Reset(r)) /\ Fine(r, r)
      BY ONLY <1>4, <2>1, ResetCloses, ClosedFine, SameFine
    <2> QED
      BY <2>2
  <1> HIDE DEF t
  <1> QED
    BY <1>1, <1>7, <1>8, RefreshSteps

\* The first key of a longer sequence.
LEMMA PrefixedSteps ==
  ASSUME Good(e), Prefixed
  PROVE  Stepped
  <1>1. PICK key \in {"key", "escape"} :
          /\ ~UpdateInserted(e, key).nonInc
          /\ Becomes(Autocomplete(UpdateInserted(e, key)), "")
    BY DEF Prefixed
  <1> DEFINE u == UpdateInserted(e, key)
  <1>2. Passes(e, u)
    BY UpdateInsertedPasses
  <1>3. ~u.nonInc /\ Becomes(Autocomplete(u), "")
    BY <1>1
  <1> HIDE DEF u
  <1>4. Fine(u, u)
    BY <1>2, <1>3, SameFine DEF Passes, Good
  <1> QED
    BY <1>2, <1>3, <1>4, RefreshSteps

\* A change of the size of the terminal.
LEMMA ResizeSteps ==
  ASSUME Good(e), Resize
  PROVE  Stepped
  <1>1. Becomes(Autocomplete(GenerateWith(e, e.cached)), "")
    BY DEF Resize
  <1>2. Passes(e, e) /\ Fine(e, GenerateWith(e, e.cached))
    BY SamePasses, ResizeFine DEF Good
  <1> QED
    BY <1>1, <1>2, RefreshSteps

\* Every step of the engine, and what the variables that observe it record.
LEMMA NextSteps ==
  ASSUME Good(e), MenuOnly, Next
  PROVE  /\ Stepped
         /\ returned' # Nil => returned' = Shown(e).line
         /\ last' = "abort" /\ e.local = "isearch" /\ e.replace
              => e'.line = e.startBuf /\ e'.local = ""
  <1>1. CASE Completing
    <2>1. Stepped
      BY <1>1, CompletingSteps
    <2>2. returned' = Nil /\ last' # "abort"
      BY <1>1 DEF Completing, MenuComplete, MenuCompleteBackward, PossibleCompletions,
                  InsertCompletions, DeleteCharOrList, MenuCompleteNextTag, MenuCompletePrevTag,
                  AcceptAndMenuComplete, Run, Becomes
    <2> QED
      BY <2>1, <2>2
  <1>2. CASE StartSearch
    <2>1. Stepped
      BY <1>2, StartSearchSteps
    <2>2. returned' = Nil /\ last' # "abort"
      BY <1>2 DEF StartSearch, MenuIncrementalSearch, ReverseSearchHistory, NonIncrementalSearch,
                  ViSearchAgain, Run, Becomes
    <2> QED
      BY <2>1, <2>2
  <1>3. CASE Edit
    <2>1. Stepped
      BY <1>3, EditSteps
    <2>2. returned' = Nil /\ last' # "abort"
      BY <1>3 DEF Edit, SelfInsert, BackwardDeleteChar, BackwardChar, ViMovementMode,
                  ViInsertionMode, EmacsEditingMode, Run, Becomes
    <2> QED
      BY <2>1, <2>2
  <1>4. CASE AcceptLine
    <2>1. last' # "abort"
      BY <1>4 DEF AcceptLine, Becomes
    <2> QED
      BY <1>4, <2>1, AcceptLineSteps
  <1>5. CASE Abort
    <2>1. returned' = Nil
      BY <1>5 DEF Abort
    <2> QED
      BY <1>5, <2>1, AbortSteps
  <1>6. CASE Undefined
    <2>1. returned' = Nil /\ last' # "abort"
      BY <1>6 DEF Undefined, Becomes
    <2> QED
      BY <1>6, <2>1, UndefinedSteps
  <1>7. CASE Prefixed
    <2>1. returned' = Nil /\ last' # "abort"
      BY <1>7 DEF Prefixed, Becomes
    <2> QED
      BY <1>7, <2>1, PrefixedSteps
  <1>8. CASE Resize
    <2>1. returned' = Nil /\ last' # "abort"
      BY <1>8 DEF Resize, Becomes
    <2> QED
      BY <1>8, <2>1, ResizeSteps
  <1> QED
    BY <1>1, <1>2, <1>3, <1>4, <1>5, <1>6, <1>7, <1>8 DEF Next

-----------------------------------------------------------------------------
(* The theorems                                                            *)

\* The engine that Readline starts with.
LEMMA InitGood ==
  ASSUME Init
  PROVE  Good(e) /\ Remembers /\ ~e.fault
  <1>1. PICK m \in Keymaps, o \in Options :
       e = [line |-> << >>, pos |-> 0, comp |-> NoCompletion,
            selected |-> << >>, prefix |-> << >>,
            groups |-> << >>, cur |-> 0, cached |-> "", auto |-> FALSE,
            local |-> "", main |-> m, nonInc |-> FALSE,
            buf |-> Nil, regex |-> Nil, insert |-> FALSE, replace |-> FALSE,
            startBuf |-> << >>, startPos |-> 0, modeExit |-> "",
            source |-> 1, options |-> o, fault |-> FALSE]
    BY DEF Init
  <1>2. m \in Mains /\ o \in Settings /\ 1 \in Sources
    <2>1. HistLines \in Seq(Seq(Line)) /\ HistLines # << >>
      BY CompletionAssumption
    <2>2. Len(HistLines) \in Nat /\ Len(HistLines) # 0
      BY <2>1, EmptySeq
    <2> QED
      BY <2>2, CompletionAssumption DEF Mains, Settings, Sources
  <1>3. << >> \in Line /\ << >> \in Menus /\ Len(<< >>) = 0 /\ NoCompletion \in Shots
    BY DEF Line, Menus, NoCompletion, Shots
  <1>4. e \in Engine
    <2>1. "" \in Cached /\ "" \in Locals /\ "" \in Exits /\ Nil \in Buffers
      BY DEF Cached, Locals, Exits, Buffers
    <2>2. 0 \in Int /\ 0 \in Nat /\ FALSE \in BOOLEAN
      OBVIOUS
    <2>3. << >> \in Line /\ << >> \in Menus /\ NoCompletion \in Shots
      BY <1>3
    <2> QED
      BY ONLY <1>1, <1>2, <2>1, <2>2, <2>3 DEF Engine
  <1>5. /\ e.line = << >> /\ e.pos = 0 /\ e.comp = NoCompletion /\ e.selected = << >>
        /\ e.groups = << >> /\ e.cur = 0 /\ e.auto = FALSE /\ e.local = ""
        /\ e.nonInc = FALSE /\ e.buf = Nil /\ e.fault = FALSE
    BY <1>1
  <1>6. << >> \in Seq(Pane(Fit(e.prefix)))
    OBVIOUS
  <1>7. Sound(e)
    <2>1. Len(<< >>) = 0 /\ 0 \in 0 .. 0
      OBVIOUS
    <2>2. NoCompletion.line = << >> /\ NoCompletion.pos = 0
      BY DEF NoCompletion
    <2>3. e.pos \in 0 .. Len(e.line) /\ e.cur \in 0 .. Len(e.groups)
      BY ONLY <1>5, <2>1
    <2>4. e.comp.pos \in 0 .. Len(e.comp.line)
      BY ONLY <1>5, <2>1, <2>2
    <2>5. e.groups \in Seq(Pane(Fit(e.prefix)))
      BY <1>5, <1>6
    <2> QED
      BY <1>4, <2>3, <2>4, <2>5 DEF Sound
  <1>8. Modes(e) /\ InSync(e) /\ Remembers
    BY <1>5, FullNone DEF Modes, InSync, IsInserting, Remembers
  <1> QED
    BY <1>5, <1>7, <1>8 DEF Good, Ready

\* Inserting a candidate changes nothing but what it replaces.
LEMMA CompleteIs ==
  ASSUME NEW s, Sound(s), NEW val \in Line, s.pos - Len(s.prefix) >= 0,
         Bytes(s.prefix) = Len(s.prefix)
  PROVE  LET from == s.pos - Len(s.prefix)
         IN  Complete(s, val) =
               [line |-> Slice(s.line, 0, from) \o val \o Slice(s.line, s.pos, Len(s.line)),
                pos  |-> from + Len(val)]
  <1> DEFINE from == s.pos - Len(s.prefix)
             u == Slice(s.line, 0, from)
             v == Slice(s.line, s.pos, Len(s.line))
             l == Cut(s.line, from, from + Len(s.prefix))
  <1>1. /\ s.line \in Line /\ s.pos \in 0 .. Len(s.line) /\ s.prefix \in Line
        /\ Bytes(s.prefix) = Len(s.prefix) /\ Len(s.prefix) \in Nat /\ Len(s.line) \in Nat
    BY SoundParts DEF Sound, Line
  <1>2. from \in 0 .. Len(s.line) /\ from + Len(s.prefix) = s.pos
    BY <1>1
  <1>3. CheckAppend(s.line, s.pos - Len(s.prefix)) = from
    BY <1>1, <1>2 DEF CheckAppend, checkPosRange
  <1>4. from \in Nat /\ from <= s.pos /\ s.pos <= Len(s.line) /\ s.pos \in Nat
    BY <1>1, <1>2
  <1> HIDE DEF from
  <1>5. l = Delete(s.line, from, s.pos)
    BY ZenonT(30), <1>1, <1>2, <1>4, CutGives
  <1>6. l = u \o v
    BY <1>5 DEF Delete
  <1>7. u \in Line /\ Len(u) = from - 0 /\ v \in Line /\ Len(v) = Len(s.line) - s.pos
    <2>1. 0 \in Int /\ from \in Int /\ s.pos \in Int /\ Len(s.line) \in Int /\ 0 <= 0
          /\ from <= Len(s.line) /\ 0 <= from
      BY <1>1, <1>4
    <2> QED
      BY SMTT(30), <1>1, <1>4, <2>1, SliceGives
  <1> HIDE DEF l, u, v
  <1>8. u \o v \in Line /\ Len(u \o v) = Len(u) + Len(v) /\ Len(u) \in Nat /\ Len(v) \in Nat
    BY <1>7, JoinGives
  <1>9. l \in Line /\ Len(l) = from + Len(v) /\ from \in 0 .. Len(l) /\ Len(v) \in Nat
        /\ Len(u) = from
    BY <1>4, <1>6, <1>7, <1>8
  <1>10. Slice(l, 0, from) = u /\ Slice(l, from, Len(l)) = v
    <2>1. /\ Slice(l, 0, from) \in Line /\ Len(Slice(l, 0, from)) = from
          /\ Slice(l, from, Len(l)) \in Line /\ Len(Slice(l, from, Len(l))) = Len(v)
      <3>1. 0 \in Int /\ from \in Int /\ Len(l) \in Int /\ 0 <= from /\ from <= Len(l)
            /\ 0 <= 0 /\ Len(l) <= Len(l)
        BY <1>4, <1>9
      <3>2. /\ Slice(l, 0, from) \in Line /\ Len(Slice(l, 0, from)) = from - 0
            /\ Slice(l, from, Len(l)) \in Line /\ Len(Slice(l, from, Len(l))) = Len(l) - from
        BY <1>9, <3>1, SliceGives
      <3> QED
        BY <1>4, <1>9, <3>2
    <2>2. \A i \in 1 .. Len(l) : l[i] = IF i <= from THEN u[i] ELSE v[i - from]
      BY <1>6, <1>7, <1>9, ConcatProperties DEF Line
    <2>3. ASSUME NEW i \in 1 .. from PROVE Slice(l, 0, from)[i] = u[i]
      <3>1. Slice(l, 0, from)[i] = l[i]
        BY <1>4, <1>9 DEF Slice, Line
      <3> QED
        BY <1>4, <1>7, <1>9, <2>2, <3>1
    <2>4. ASSUME NEW i \in 1 .. Len(v) PROVE Slice(l, from, Len(l))[i] = v[i]
      <3>1. Slice(l, from, Len(l))[i] = l[from + i]
        BY <1>4, <1>7, <1>9 DEF Slice, Line
      <3>2. from + i \in 1 .. Len(l) /\ ~(from + i <= from) /\ (from + i) - from = i
        BY <1>1, <1>4, <1>7, <1>9
      <3> QED
        BY <2>2, <3>1, <3>2
    <2>5. Slice(l, 0, from) = u
      BY <1>7, <2>1, <2>3, SeqEqual DEF Line
    <2>6. Slice(l, from, Len(l)) = v
      BY <1>7, <2>1, <2>4, SeqEqual DEF Line
    <2> QED
      BY <2>5, <2>6
  <1>11. CheckAppend(l, from) = from
    BY <1>4, <1>9 DEF CheckAppend, checkPosRange
  <1>12. Insert(l, from, val) = u \o val \o v
    BY ZenonT(30), <1>9, <1>10, InsertGives
  <1>13. Complete(s, val) = [line |-> Insert(l, from, val), pos |-> from + Len(val)]
    BY <1>3, <1>11 DEF Complete, l
  <1> QED
    BY <1>12, <1>13 DEF u, v, from

\* What the invariant says of the engine.
LEMMA GoodGives ==
  ASSUME Good(e)
  PROVE  TypeOK /\ (e.main # "vi-command" => CompletedLine)
  <1>1. Sound(e) /\ Modes(e) /\ InSync(e) /\ e \in Engine
    BY DEF Good, Ready, Sound
  <1>2. TypeOK
    <2>1. e.line \in Line /\ e.comp \in Shots /\ e.local \in Locals /\ e.main \in Mains
      BY <1>1 DEF Engine
    <2>2. e.comp.line \in Line
      BY <2>1 DEF Shots
    <2> QED
      BY <1>1, <2>1, <2>2 DEF TypeOK, Sound, Modes, Locals, Mains
  <1>3. ASSUME e.main # "vi-command" PROVE CompletedLine
    <2> DEFINE from == e.pos - Len(e.prefix)
    <2>1. SUFFICES ASSUME Pointed, from >= 0, Bytes(e.prefix) = Len(e.prefix)
                   PROVE  /\ e.comp.line = Slice(e.line, 0, from) \o e.selected
                                             \o Slice(e.line, e.pos, Len(e.line))
                          /\ e.comp.pos = from + Len(e.selected)
      BY DEF CompletedLine
    <2>2. e.comp = Complete(e, e.selected)
      BY <1>1, <1>3, <2>1 DEF Pointed, InSync
    <2>3. e.selected \in Line
      BY <1>1 DEF Engine
    <2>4. Complete(e, e.selected) =
            [line |-> Slice(e.line, 0, from) \o e.selected \o Slice(e.line, e.pos, Len(e.line)),
             pos  |-> from + Len(e.selected)]
      BY <1>1, <2>1, <2>3, CompleteIs
    <2> DEFINE L == Slice(e.line, 0, from) \o e.selected \o Slice(e.line, e.pos, Len(e.line))
               p == from + Len(e.selected)
    <2>5. e.comp = [line |-> L, pos |-> p]
      BY <2>2, <2>4
    <2> HIDE DEF L, p
    <2>6. e.comp.line = L /\ e.comp.pos = p
      BY ONLY <2>5
    <2> QED
      BY <2>6 DEF L, p
  <1> QED
    BY <1>2, <1>3

\* A step that changes nothing keeps the invariant.
LEMMA StutterGood ==
  ASSUME Good(e), UNCHANGED vars
  PROVE  Good(e)'
  <1>1. e' = e
    BY DEF vars
  <1>2. \A a, b : a = b /\ Good(a) => Good(b)
    OBVIOUS
  <1> QED
    BY <1>1, <1>2

\* A search that goes on keeps what it remembers, a new one starts to.
LEMMA StepRemembers ==
  ASSUME OneSearch, Remembers, Good(e), Stepped
  PROVE  Remembers'
  <1>1. /\ Modes(e') /\ Carries(e, e') /\ Records /\ e.main \in Mains
    BY DEF Stepped, StepsTo, Good, Ready, Sound, Engine
  <1>2. e'.local = "isearch" => e'.buf # Nil
    BY <1>1 DEF Modes
  <1>3. CASE e'.buf = Nil
    BY <1>2, <1>3 DEF Remembers
  <1>4. CASE e'.buf # Nil /\ e.buf # Nil
    <2>1. origin' = origin
      BY <1>1, <1>4 DEF Records
    <2> QED
      BY <1>1, <1>2, <1>4, <2>1 DEF Carries, Remembers
  <1>5. CASE e'.buf # Nil /\ e.buf = Nil
    <2>1. origin' = [line |-> e'.line, main |-> e.main]
      BY <1>1, <1>5 DEF Records
    <2>2. origin'.line = e'.line /\ origin'.main = e.main
      BY <2>1
    <2> QED
      BY <1>1, <1>5, <2>2 DEF Carries, Remembers
  <1> QED
    BY <1>3, <1>4, <1>5

\* The engine is in good order between two keys, if the keymaps of menus and
\* searches hold none but the commands for them: cursors are on their lines, the
\* selector is on a cell of its grid or unused, candidates are no shorter than
\* what they replace, modes that exclude each other do, and the completed line is
\* the one with the candidate that is inserted.
THEOREM EngineGood ==
  ASSUME MenuOnly
  PROVE  Spec => []Good(e)
  <1>1. Init => Good(e)
    BY InitGood
  <1>2. Good(e) /\ [Next]_vars => Good(e)'
    <2>1. ASSUME Good(e), Next PROVE Good(e)'
      BY <2>1, NextSteps DEF Stepped, StepsTo
    <2> QED
      BY <2>1, StutterGood
  <1> QED
    BY <1>1, <1>2, PTL DEF Spec

\* The fields of the engine have their types and both cursors are on their lines,
\* whatever commands menus, searches and edits are mixed of.
THEOREM EngineTyped ==
  ASSUME MenuOnly
  PROVE  Spec => []TypeOK
  <1>1. Good(e) => TypeOK
    BY GoodGives
  <1> QED
    BY <1>1, EngineGood, PTL

\* The selector never indexes a cell that does not exist, provided the isearch
\* keymap has no command that goes from one group to another: a search may leave
\* a menu with several groups and no candidates, where SelectTag does not end.
THEOREM NeverFaults ==
  ASSUME MenuOnly, NoTags
  PROVE  Spec => []NoFault
  <1>1. Init => NoFault
    BY InitGood DEF NoFault
  <1>2. Good(e) /\ NoFault /\ [Next]_vars => NoFault'
    <2>1. ASSUME Good(e), NoFault, Next PROVE NoFault'
      BY <2>1, NextSteps DEF Stepped, StepsTo, NoFault
    <2>2. ASSUME NoFault, UNCHANGED vars PROVE NoFault'
      BY <2>2 DEF NoFault, vars
    <2> QED
      BY <2>1, <2>2
  <1> QED
    BY <1>1, <1>2, EngineGood, PTL DEF Spec

\* A candidate that is inserted replaces its prefix and touches nothing else of
\* the line, when the prefix has one-byte characters (insertCandidate cuts as many
\* characters as the prefix has bytes), outside of vi-command mode, in which the
\* check of the cursor after a command moves it back from the end of a line, with
\* the candidate in place.
THEOREM CandidateReplacesPrefix ==
  ASSUME MenuOnly
  PROVE  Spec => [](e.main # "vi-command" => CompletedLine)
  <1>1. Good(e) => (e.main # "vi-command" => CompletedLine)
    BY GoodGives
  <1> QED
    BY <1>1, EngineGood, PTL

\* The return key returns the line that is displayed, candidate included.
THEOREM ReturnGivesShown ==
  ASSUME MenuOnly
  PROVE  Spec => ReturnsShown
  <1>1. Good(e) /\ [Next]_vars => [returned' # Nil => returned' = Shown(e).line]_vars
    BY NextSteps
  <1> QED
    BY <1>1, EngineGood, PTL DEF Spec, ReturnsShown

\* A search remembers the line and the keymap that it was started on, as long as
\* no other search can be started within it.
THEOREM SearchRemembers ==
  ASSUME MenuOnly, OneSearch
  PROVE  Spec => []Remembers
  <1>1. Init => Remembers
    BY InitGood
  <1>2. Good(e) /\ Remembers /\ [Next]_vars => Remembers'
    <2>1. ASSUME Good(e), Remembers, Next PROVE Remembers'
      BY <2>1, NextSteps, StepRemembers
    <2>2. ASSUME Remembers, UNCHANGED vars PROVE Remembers'
      BY <2>2 DEF Remembers, vars
    <2> QED
      BY <2>1, <2>2
  <1> QED
    BY <1>1, <1>2, EngineGood, PTL DEF Spec

\* Aborting a history search gives back the line that it was started on.
THEOREM AbortGivesBack ==
  ASSUME MenuOnly, OneSearch
  PROVE  Spec => AbortRestores
  <1>1. Good(e) /\ Remembers /\ [Next]_vars =>
          [(last' = "abort" /\ e.local = "isearch" /\ e.replace)
             => e'.line = origin.line /\ e'.local = ""]_vars
    BY NextSteps DEF Remembers
  <1> QED
    BY <1>1, EngineGood, SearchRemembers, PTL DEF Spec, AbortRestores

\* The end of a search, whichever command ends it, allows all commands again and
\* brings back the main keymap, unless that command changes modes.
THEOREM SearchGivesKeymapBack ==
  ASSUME MenuOnly, OneSearch
  PROVE  Spec => KeymapRestored
  <1>1. Good(e) /\ Remembers /\ [Next]_vars =>
          [(e.buf # Nil /\ e'.buf = Nil)
             => ~e'.nonInc /\ (last' # "mode" => e'.main = origin.main)]_vars
    <2>1. ASSUME Good(e), Remembers, Next, e.buf # Nil, e'.buf = Nil
          PROVE  ~e'.nonInc /\ (last' # "mode" => e'.main = origin.main)
      <3>1. Modes(e') /\ (last' # "mode" => Homes(e, e'))
        BY <2>1, NextSteps DEF Stepped, StepsTo, Good, Ready
      <3>2. e.modeExit = origin.main /\ e.modeExit # ""
        BY <2>1 DEF Remembers, Mains
      <3> QED
        BY <2>1, <3>1, <3>2 DEF Modes, Homes
    <2> QED
      BY <2>1
  <1> QED
    BY <1>1, EngineGood, SearchRemembers, PTL DEF Spec, KeymapRestored
=============================================================================
