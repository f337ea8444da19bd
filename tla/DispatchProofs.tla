--------------------------- MODULE DispatchProofs ---------------------------
(***************************************************************************)
(* Proofs about Dispatch, for any keymaps, any keys and any way the input  *)
(* is cut into reads.                                                      *)
(***************************************************************************)
EXTENDS Dispatch, SequenceTheorems, InductionLemmas

\* What the engine may remember as a bind.
Names == Actions \cup {"", "self-insert"}

\* What may be run.
Commands == Names \cup {"vi-movement-mode", "emacs-editing-mode"}

\* The key stack and the matches.
KeyStack ==
  [buf : Seq(KeySet), macroKeys : Seq(KeySet), mustWait : BOOLEAN,
   matched : Seq(KeySet), active : Names, prefixed : Names]

\* One command run.
Entry == [cmd : Commands, keys : Seq(KeySet), map : Mains \cup Locals]

\* A keymap, or a part of one.
Binding(b) == \A x \in DOMAIN b : b[x] \in Actions

-----------------------------------------------------------------------------
(* The key stack                                                           *)

\* Any part of a sequence of keys is one.
LEMMA PartOfKeys ==
  ASSUME NEW s \in Seq(KeySet), NEW a \in Nat \ {0}, NEW b \in Nat, b <= Len(s)
  PROVE  /\ SubSeq(s, a, b) \in Seq(KeySet)
         /\ Len(SubSeq(s, a, b)) = IF a <= b THEN b - a + 1 ELSE 0
         /\ \A i \in 1 .. b - a + 1 : SubSeq(s, a, b)[i] = s[a + i - 1]
  <1>1. \A i \in a .. b : s[i] \in KeySet
    OBVIOUS
  <1> QED
    BY <1>1, SubSeqProperties

\* The sequence c is a followed by b.
Joined(c, a, b) ==
  /\ c \in Seq(KeySet) /\ Len(c) = Len(a) + Len(b)
  /\ \A i \in 1 .. Len(a) + Len(b) : c[i] = IF i <= Len(a) THEN a[i] ELSE b[i - Len(a)]

\* What concatenation makes of two sequences of keys.
LEMMA JoinsTwo ==
  ASSUME NEW a \in Seq(KeySet), NEW b \in Seq(KeySet)
  PROVE  Joined(a \o b, a, b)
  BY ConcatProperties DEF Joined

\* The two ways of cutting three sequences.
Groups(x1, x2, x3) == (x1 \o x2) \o x3 = x1 \o (x2 \o x3)

\* Three sequences of keys one after the other.
LEMMA ConcatThree ==
  ASSUME NEW x1 \in Seq(KeySet), NEW x2 \in Seq(KeySet), NEW x3 \in Seq(KeySet)
  PROVE  Groups(x1, x2, x3)
  <1> DEFINE u == x1 \o x2
             v == x2 \o x3
             p == u \o x3
             q == x1 \o v
             n1 == Len(x1)
             n2 == Len(x2)
             n3 == Len(x3)
  <1>1. n1 \in Nat /\ n2 \in Nat /\ n3 \in Nat
    BY LenProperties
  <1>2. Joined(u, x1, x2) /\ Joined(v, x2, x3)
    BY JoinsTwo, Zenon
  <1> SUFFICES p = q
    BY DEF Groups
  <1> HIDE DEF u, v
  <1>3. u \in Seq(KeySet) /\ v \in Seq(KeySet)
    BY <1>2 DEF Joined
  <1>4. Joined(p, u, x3) /\ Joined(q, x1, v)
    BY <1>3, JoinsTwo, Zenon
  <1> HIDE DEF p, q
  <1>5. /\ Len(u) = n1 + n2 /\ \A i \in 1 .. n1 + n2 : u[i] = IF i <= n1 THEN x1[i] ELSE x2[i - n1]
        /\ Len(v) = n2 + n3 /\ \A i \in 1 .. n2 + n3 : v[i] = IF i <= n2 THEN x2[i] ELSE x3[i - n2]
    BY <1>2 DEF Joined
  <1>6. /\ \A i \in 1 .. n1 + n2 + n3 : p[i] = IF i <= n1 + n2 THEN u[i] ELSE x3[i - (n1 + n2)]
        /\ p \in Seq(KeySet) /\ Len(p) = n1 + n2 + n3
    BY <1>4, <1>5 DEF Joined
  <1>7. /\ \A i \in 1 .. n1 + (n2 + n3) : q[i] = IF i <= n1 THEN x1[i] ELSE v[i - n1]
        /\ q \in Seq(KeySet) /\ Len(q) = n1 + (n2 + n3)
    BY <1>4, <1>5 DEF Joined
  <1> HIDE DEF n1, n2, n3
  <1>8. Len(p) = Len(q)
    BY <1>1, <1>6, <1>7
  <1>9. ASSUME NEW i \in 1 .. Len(p) PROVE p[i] = q[i]
    <2>0. i \in 1 .. n1 + n2 + n3 /\ i \in 1 .. n1 + (n2 + n3)
      BY <1>1, <1>6
    <2>1. p[i] = IF i <= n1 + n2 THEN u[i] ELSE x3[i - (n1 + n2)]
      BY <1>6, <2>0
    <2>2. q[i] = IF i <= n1 THEN x1[i] ELSE v[i - n1]
      BY <1>7, <2>0
    <2>3. CASE i <= n1
      <3>1. i \in 1 .. n1 + n2 /\ i <= n1 + n2
        BY <1>1, <2>0, <2>3
      <3> QED
        BY <1>5, <2>1, <2>2, <2>3, <3>1
    <2>4. CASE n1 < i /\ i <= n1 + n2
      <3>1. i - n1 \in 1 .. n2 + n3 /\ i - n1 <= n2 /\ i \in 1 .. n1 + n2 /\ ~(i <= n1)
        BY <1>1, <2>4
      <3> QED
        BY <1>5, <2>1, <2>2, <2>4, <3>1
    <2>5. CASE n1 + n2 < i
      <3>1. /\ i - n1 \in 1 .. n2 + n3 /\ ~(i - n1 <= n2) /\ ~(i <= n1) /\ ~(i <= n1 + n2)
            /\ (i - n1) - n2 = i - (n1 + n2)
        BY <1>1, <2>0, <2>5
      <3> QED
        BY <1>5, <2>1, <2>2, <3>1
    <2> QED
      BY <1>1, <2>0, <2>3, <2>4, <2>5
  <1> QED
    BY <1>6, <1>7, <1>8, <1>9, SeqEqual

\* What is on the stack is a sequence of keys.
LEMMA StackTyped ==
  ASSUME NEW s \in KeyStack
  PROVE  /\ Stack(s) \in Seq(KeySet)
         /\ Len(Stack(s)) = Len(s.buf) + Len(s.macroKeys)
         /\ Len(s.buf) \in Nat /\ Len(s.macroKeys) \in Nat
  <1>1. s.buf \in Seq(KeySet) /\ s.macroKeys \in Seq(KeySet)
    BY DEF KeyStack
  <1> QED
    BY <1>1, ConcatProperties DEF Stack

\* PopKey leaves a stack, and all but the keys.
LEMMA PopTyped ==
  ASSUME NEW s \in KeyStack, NEW n \in Nat
  PROVE  /\ Pop(s, n) \in KeyStack
         /\ Pop(s, n).mustWait = s.mustWait /\ Pop(s, n).matched = s.matched
         /\ Pop(s, n).active = s.active /\ Pop(s, n).prefixed = s.prefixed
         /\ Pop(s, n).buf = SubSeq(s.buf, n + 1, Len(s.buf))
         /\ Pop(s, n).macroKeys = IF n > Len(s.buf)
                                  THEN SubSeq(s.macroKeys, n - Len(s.buf) + 1, Len(s.macroKeys))
                                  ELSE s.macroKeys
  <1>1. /\ s.buf \in Seq(KeySet) /\ s.macroKeys \in Seq(KeySet)
        /\ Len(s.buf) \in Nat /\ Len(s.macroKeys) \in Nat
    BY DEF KeyStack
  <1>2. SubSeq(s.buf, n + 1, Len(s.buf)) \in Seq(KeySet)
    BY <1>1, PartOfKeys
  <1>3. ASSUME n > Len(s.buf)
        PROVE  SubSeq(s.macroKeys, n - Len(s.buf) + 1, Len(s.macroKeys)) \in Seq(KeySet)
    BY <1>1, <1>3, PartOfKeys
  <1> QED
    BY <1>1, <1>2, <1>3 DEF Pop, KeyStack

\* It takes the keys from the top, the macros' ones last.
LEMMA PopTakes ==
  ASSUME NEW s \in KeyStack, NEW n \in 0 .. Len(Stack(s))
  PROVE  Stack(Pop(s, n)) = SubSeq(Stack(s), n + 1, Len(Stack(s)))
  <1> DEFINE b == s.buf
             q == s.macroKeys
             p == Pop(s, n)
             u == Stack(p)
             v == SubSeq(Stack(s), n + 1, Len(Stack(s)))
  <1>1. /\ b \in Seq(KeySet) /\ q \in Seq(KeySet) /\ Stack(s) \in Seq(KeySet)
        /\ Len(b) \in Nat /\ Len(q) \in Nat /\ Len(Stack(s)) = Len(b) + Len(q)
        /\ \A i \in 1 .. Len(b) + Len(q) :
             Stack(s)[i] = IF i <= Len(b) THEN b[i] ELSE q[i - Len(b)]
    <2>1. b \in Seq(KeySet) /\ q \in Seq(KeySet)
      BY DEF KeyStack
    <2> HIDE DEF b, q
    <2>2. Stack(s) = b \o q
      BY DEF Stack, b, q
    <2> QED
      BY <2>1, <2>2, ConcatProperties
  <1>0. n \in Nat /\ n <= Len(b) + Len(q)
    <2>1. Len(b) \in Nat /\ Len(q) \in Nat /\ Len(Stack(s)) = Len(b) + Len(q)
      BY StackTyped
    <2> HIDE DEF b, q
    <2> QED
      BY <2>1
  <1>2. /\ p \in KeyStack /\ p.buf = SubSeq(b, n + 1, Len(b))
        /\ p.macroKeys = IF n > Len(b) THEN SubSeq(q, n - Len(b) + 1, Len(q)) ELSE q
    <2> HIDE DEF p
    <2> QED
      BY <1>0, PopTyped DEF p
  <1> HIDE DEF b, q, p
  <1>3. /\ v \in Seq(KeySet) /\ Len(v) = Len(b) + Len(q) - n
        /\ \A i \in 1 .. Len(b) + Len(q) - n : v[i] = Stack(s)[n + i]
    <2>2. /\ v \in Seq(KeySet)
          /\ Len(v) = IF n + 1 <= Len(Stack(s)) THEN Len(Stack(s)) - (n + 1) + 1 ELSE 0
          /\ \A i \in 1 .. Len(Stack(s)) - (n + 1) + 1 : v[i] = Stack(s)[n + 1 + i - 1]
      BY <1>0, <1>1, PartOfKeys
    <2> HIDE DEF v
    <2> QED
      BY <1>0, <1>1, <2>2
  <1>4. /\ u \in Seq(KeySet) /\ Len(u) = Len(p.buf) + Len(p.macroKeys)
        /\ \A i \in 1 .. Len(p.buf) + Len(p.macroKeys) :
             u[i] = IF i <= Len(p.buf) THEN p.buf[i] ELSE p.macroKeys[i - Len(p.buf)]
    <2>1. p.buf \in Seq(KeySet) /\ p.macroKeys \in Seq(KeySet)
      BY <1>2 DEF KeyStack
    <2> QED
      BY <2>1, ConcatProperties DEF Stack
  <1>5. CASE n <= Len(b)
    <2>1. /\ Len(p.buf) = Len(b) - n /\ p.macroKeys = q
          /\ \A i \in 1 .. Len(b) - n : p.buf[i] = b[n + i]
      BY <1>1, <1>2, <1>5, PartOfKeys
    <2>2. Len(u) = Len(v)
      BY <1>1, <1>3, <1>4, <2>1
    <2>3. ASSUME NEW i \in 1 .. Len(u) PROVE u[i] = v[i]
      <3>0. i \in Nat /\ 1 <= i /\ i <= Len(b) + Len(q) - n
        BY <1>0, <1>1, <1>3, <2>2
      <3>1. /\ i \in 1 .. Len(b) + Len(q) - n /\ n + i \in 1 .. Len(b) + Len(q)
            /\ v[i] = Stack(s)[n + i]
        <4> HIDE DEF v
        <4>1. i \in 1 .. Len(b) + Len(q) - n /\ n + i \in 1 .. Len(b) + Len(q)
          BY <1>0, <1>1, <3>0
        <4> QED
          BY ONLY <1>3, <4>1
      <3>2. CASE i <= Len(b) - n
        <4>1. i \in 1 .. Len(b) - n /\ i <= Len(p.buf) /\ n + i <= Len(b)
          BY <1>1, <2>1, <3>0, <3>2
        <4>2. i \in 1 .. Len(p.buf) + Len(p.macroKeys)
          BY <1>4
        <4>3. u[i] = p.buf[i]
          BY <1>4, <4>1, <4>2
        <4>4. v[i] = b[n + i]
          BY <1>1, <3>1, <4>1
        <4> QED
          BY <2>1, <4>1, <4>3, <4>4
      <3>3. CASE i > Len(b) - n
        <4>1. u[i] = q[i - (Len(b) - n)]
          BY <1>1, <1>4, <2>1, <3>1, <3>3
        <4>2. v[i] = q[n + i - Len(b)]
          BY <1>1, <3>1, <3>3
        <4>3. i - (Len(b) - n) = n + i - Len(b)
          BY <1>1, <3>1
        <4> QED
          BY <4>1, <4>2, <4>3
      <3> QED
        BY <1>1, <3>1, <3>2, <3>3
    <2> HIDE DEF u, v
    <2> QED
      BY <1>3, <1>4, <2>2, <2>3, SeqEqual DEF u, v, p
  <1>6. CASE n > Len(b)
    <2>1. /\ Len(p.buf) = 0
          /\ Len(p.macroKeys) = Len(b) + Len(q) - n
          /\ \A i \in 1 .. Len(b) + Len(q) - n : p.macroKeys[i] = q[n - Len(b) + i]
      <3>0. Len(p.buf) = 0
        <4>1. n + 1 \in Nat \ {0} /\ ~(n + 1 <= Len(b)) /\ Len(b) <= Len(b)
          BY <1>1, <1>6
        <4>2. Len(SubSeq(b, n + 1, Len(b))) = 0
          BY <1>1, <4>1, PartOfKeys
        <4> QED
          BY <1>2, <4>2
      <3>1. n - Len(b) + 1 \in Nat \ {0}
        BY <1>1, <1>6
      <3>2. /\ Len(p.macroKeys) = IF n - Len(b) + 1 <= Len(q) THEN Len(q) - (n - Len(b) + 1) + 1 ELSE 0
            /\ \A i \in 1 .. Len(q) - (n - Len(b) + 1) + 1 :
                 p.macroKeys[i] = q[n - Len(b) + 1 + i - 1]
        BY <1>1, <1>2, <1>6, <3>1, PartOfKeys
      <3> QED
        BY <1>1, <1>6, <3>0, <3>2
    <2>2. Len(u) = Len(v)
      BY <1>1, <1>3, <1>4, <2>1
    <2>3. ASSUME NEW i \in 1 .. Len(u) PROVE u[i] = v[i]
      <3>0. i \in Nat /\ 1 <= i /\ i <= Len(b) + Len(q) - n
        BY <1>0, <1>1, <1>3, <2>2
      <3>1. /\ i \in 1 .. Len(b) + Len(q) - n /\ n + i \in 1 .. Len(b) + Len(q)
            /\ v[i] = Stack(s)[n + i]
        <4> HIDE DEF v
        <4>1. i \in 1 .. Len(b) + Len(q) - n /\ n + i \in 1 .. Len(b) + Len(q)
          BY <1>0, <1>1, <3>0
        <4> QED
          BY ONLY <1>3, <4>1
      <3>2. u[i] = q[n - Len(b) + i]
        BY <1>1, <1>4, <2>1, <3>1
      <3>3. v[i] = q[n + i - Len(b)]
        BY <1>1, <1>6, <3>1
      <3>4. n - Len(b) + i = n + i - Len(b)
        BY <1>1, <3>1
      <3> QED
        BY <3>2, <3>3, <3>4
    <2> HIDE DEF u, v
    <2> QED
      BY <1>3, <1>4, <2>2, <2>3, SeqEqual DEF u, v, p
  <1> QED
    BY <1>1, <1>5, <1>6

-----------------------------------------------------------------------------
(* Matching: what a call of dispatchKeys finds                             *)

\* The first n keys of the stack.
First(s, n) == SubSeq(Stack(s), 1, n)

\* n is the number of keys read until no bind is longer.
Stops(s, b, n) ==
  /\ n \in 1 .. Len(Stack(s))
  /\ ~IsPrefixed(First(s, n), b)
  /\ \A m \in 1 .. n - 1 : IsPrefixed(First(s, m), b)

\* a is the bind of the most of the first keys that have one, or the one that
\* was kept before if none have.
KeptFrom(s, b, to, a) ==
  \/ a = s.prefixed /\ \A m \in 1 .. to : First(s, m) \notin DOMAIN b
  \/ \E m \in 1 .. to :
       /\ First(s, m) \in DOMAIN b /\ a = b[First(s, m)]
       /\ \A j \in 1 .. to : First(s, j) \in DOMAIN b => j <= m

\* What is returned: the stack, whether more keys are needed, the keys read and
\* the keys matched.
Returns(d, s, prefix, read, matched) ==
  d.s = s /\ d.prefix = prefix /\ d.read = read /\ d.matched = matched

\* There was nothing to read.
Idle(s, d) == Stack(s) = << >> /\ Returns(d, s, FALSE, << >>, << >>)

\* There was a character of two bytes.
Wide(s, d) ==
  /\ Len(s.buf) > 1 /\ s.buf[1] = Lead /\ s.buf[2] = Trail
  /\ Returns(d, makeMatch(Pop(s, 2), "self-insert"), FALSE, First(s, 2), First(s, 2))

\* All the keys were read, and a longer bind may follow.
Waiting(s, b, d) ==
  /\ Stack(s) # << >>
  /\ \A m \in 1 .. Len(Stack(s)) : IsPrefixed(First(s, m), b)
  /\ \E a : /\ KeptFrom(s, b, Len(Stack(s)), a)
            /\ Returns(d, [Pop(s, Len(Stack(s))) EXCEPT !.prefixed = a], TRUE, Stack(s), Stack(s))

\* The keys read have a bind.
Bound(s, b, d) ==
  \E n : /\ Stops(s, b, n) /\ First(s, n) \in DOMAIN b
         /\ Returns(d, makeMatch(Pop(s, n), b[First(s, n)]), FALSE, First(s, n), First(s, n))

\* They have none: a shorter one may have been kept.
Unbound(s, b, d) ==
  \E n, a : /\ Stops(s, b, n) /\ First(s, n) \notin DOMAIN b
            /\ KeptFrom(s, b, n - 1, a)
            /\ Returns(d, makeMatch(Pop(s, n), a), FALSE, First(s, n), First(s, n - 1))

\* One of the five is what happened.
LEMMA Dispatched ==
  ASSUME NEW s \in KeyStack, NEW b, NEW d, d = dispatchKeys(s, b)
  PROVE  Idle(s, d) \/ Wide(s, d) \/ Waiting(s, b, d) \/ Bound(s, b, d) \/ Unbound(s, b, d)
  <1> DEFINE keys == Stack(s)
             Cut(n) == SubSeq(keys, 1, n)
             stops == {n \in 1 .. Len(keys) : ~IsPrefixed(Cut(n), b)}
             n == Min(stops)
             bound(to) == {m \in 1 .. to : Cut(m) \in DOMAIN b}
             Kept(to) == IF bound(to) = {} THEN s.prefixed ELSE b[Cut(Max(bound(to)))]
             Match(m, a) == makeMatch(Pop(s, m), a)
             res == IF keys = << >>
                    THEN [s |-> s, prefix |-> FALSE, read |-> << >>, matched |-> << >>]
                    ELSE IF CharLen(s.buf) = 2
                    THEN [s |-> Match(2, "self-insert"), prefix |-> FALSE,
                          read |-> Cut(2), matched |-> Cut(2)]
                    ELSE IF stops = {}
                    THEN [s |-> [Pop(s, Len(keys)) EXCEPT !.prefixed = Kept(Len(keys))],
                          prefix |-> TRUE, read |-> keys, matched |-> keys]
                    ELSE IF Cut(n) \in DOMAIN b
                    THEN [s |-> Match(n, b[Cut(n)]), prefix |-> FALSE,
                          read |-> Cut(n), matched |-> Cut(n)]
                    ELSE [s |-> Match(n, Kept(n - 1)), prefix |-> FALSE,
                          read |-> Cut(n), matched |-> Cut(n - 1)]
  <1>1. d = res
    BY DEF dispatchKeys
  <1>2. keys \in Seq(KeySet) /\ Len(keys) \in Nat
    <2>1. keys \in Seq(KeySet)
      BY StackTyped
    <2> QED
      BY <2>1, LenProperties
  <1>3. \A m : Cut(m) = First(s, m)
    BY DEF First
  <1>4. ASSUME NEW to \in Int PROVE KeptFrom(s, b, to, Kept(to))
    <2>1. CASE bound(to) = {}
      <3>1. Kept(to) = s.prefixed /\ \A m \in 1 .. to : Cut(m) \notin DOMAIN b
        BY <2>1
      <3> HIDE DEF Kept, Cut
      <3> QED
        BY <1>3, <3>1 DEF KeptFrom
    <2>2. CASE bound(to) # {}
      <3> DEFINE B == bound(to)
      <3>1. B \in SUBSET Int /\ B # {} /\ \A t \in B : t <= to
        BY <2>2
      <3>2. Max(B) \in B /\ \A t \in B : t <= Max(B)
        <4> HIDE DEF B
        <4> QED
          BY <3>1, MaxInRange
      <3>3. /\ Max(B) \in 1 .. to /\ Cut(Max(B)) \in DOMAIN b
            /\ \A j \in 1 .. to : Cut(j) \in DOMAIN b => j <= Max(B)
        BY <3>2
      <3>4. Kept(to) = b[Cut(Max(B))]
        BY <2>2
      <3> HIDE DEF B, Kept, Cut
      <3> QED
        BY <1>3, <3>3, <3>4 DEF KeptFrom
    <2> QED
      BY <2>1, <2>2
  <1>5. ASSUME stops # {}
        PROVE  Stops(s, b, n)
    <2>1. stops \subseteq Nat
      OBVIOUS
    <2>2. n \in stops /\ \A y \in stops : n <= y
      <3> HIDE DEF stops
      <3> QED
        BY <1>5, <2>1, MinInSet
    <2>3. n \in 1 .. Len(keys) /\ ~IsPrefixed(Cut(n), b)
      BY <2>2
    <2> HIDE DEF n
    <2>4. ASSUME NEW m \in 1 .. n - 1 PROVE IsPrefixed(Cut(m), b)
      <3>1. m \in 1 .. Len(keys) /\ ~(n <= m)
        BY <1>2, <2>3
      <3>2. m \notin stops
        BY <2>2, <3>1
      <3> QED
        BY <3>1, <3>2
    <2> HIDE DEF Cut
    <2> QED
      BY <2>3, <2>4, <1>3 DEF Stops
  <1> HIDE DEF Kept
  <1>6. CASE keys = << >>
    <2>1. d = [s |-> s, prefix |-> FALSE, read |-> << >>, matched |-> << >>]
      BY <1>1, <1>6
    <2> QED
      BY <2>1, <1>6 DEF Idle, Returns
  <1>7. CASE keys # << >> /\ CharLen(s.buf) = 2
    <2>1. d = [s |-> Match(2, "self-insert"), prefix |-> FALSE, read |-> Cut(2), matched |-> Cut(2)]
      BY <1>1, <1>7
    <2>2. Len(s.buf) > 1 /\ s.buf[1] = Lead /\ s.buf[2] = Trail
      BY <1>7 DEF CharLen
    <2> QED
      BY <2>1, <2>2 DEF Wide, Returns, First
  <1>8. CASE keys # << >> /\ CharLen(s.buf) # 2 /\ stops = {}
    <2>1. d = [s |-> [Pop(s, Len(keys)) EXCEPT !.prefixed = Kept(Len(keys))],
               prefix |-> TRUE, read |-> keys, matched |-> keys]
      BY <1>1, <1>8
    <2>2. \A m \in 1 .. Len(keys) : IsPrefixed(Cut(m), b)
      BY <1>8
    <2>3. KeptFrom(s, b, Len(keys), Kept(Len(keys)))
      BY <1>2, <1>4
    <2>4. Returns(d, [Pop(s, Len(keys)) EXCEPT !.prefixed = Kept(Len(keys))], TRUE, keys, keys)
      BY <2>1 DEF Returns
    <2> QED
      BY <1>8, <2>2, <2>3, <2>4 DEF Waiting, First
  <1>9. CASE keys # << >> /\ CharLen(s.buf) # 2 /\ stops # {}
    <2>1. Stops(s, b, n)
      BY <1>5, <1>9
    <2>2. CASE Cut(n) \in DOMAIN b
      <3>1. d = [s |-> Match(n, b[Cut(n)]), prefix |-> FALSE, read |-> Cut(n), matched |-> Cut(n)]
        BY <1>1, <1>9, <2>2
      <3> HIDE DEF n, Cut
      <3>2. Returns(d, makeMatch(Pop(s, n), b[First(s, n)]), FALSE, First(s, n), First(s, n))
        BY <3>1, <1>3 DEF Returns
      <3>3. First(s, n) \in DOMAIN b
        BY <2>2, <1>3
      <3> QED
        BY <2>1, <3>2, <3>3 DEF Bound
    <2>3. CASE Cut(n) \notin DOMAIN b
      <3>1. d = [s |-> Match(n, Kept(n - 1)), prefix |-> FALSE, read |-> Cut(n), matched |-> Cut(n - 1)]
        BY <1>1, <1>9, <2>3
      <3> HIDE DEF n, Cut
      <3>2. Returns(d, makeMatch(Pop(s, n), Kept(n - 1)), FALSE, First(s, n), First(s, n - 1))
        BY <3>1, <1>3 DEF Returns
      <3>3. First(s, n) \notin DOMAIN b
        BY <2>3, <1>3
      <3>4. n - 1 \in Int
        BY <1>2, <2>1 DEF Stops
      <3>5. KeptFrom(s, b, n - 1, Kept(n - 1))
        BY <3>4, <1>4
      <3> QED
        BY <2>1, <3>2, <3>3, <3>5 DEF Unbound
    <2> QED
      BY <2>2, <2>3
  <1> QED
    BY <1>6, <1>7, <1>8, <1>9

-----------------------------------------------------------------------------
(* Matching: the stack that a reading of it leaves                         *)

\* A bind that was kept is a bind.
LEMMA KeptTyped ==
  ASSUME NEW s \in KeyStack, NEW b, Binding(b), NEW to, NEW a, KeptFrom(s, b, to, a)
  PROVE  a \in Names
  <1>1. s.prefixed \in Names
    BY DEF KeyStack
  <1>2. \A x \in DOMAIN b : b[x] \in Names
    BY DEF Binding, Names
  <1> QED
    BY <1>1, <1>2 DEF KeptFrom

\* The stack t is s with n keys less, and a is the bind found.
Matching(t, s, n, a) ==
  /\ t \in KeyStack
  /\ t.active = a /\ t.prefixed = "" /\ t.matched = s.matched
  /\ Stack(t) = Stack(Pop(s, n))

\* makeMatch after some keys were popped.
LEMMA MatchTyped ==
  ASSUME NEW s \in KeyStack, NEW n \in Nat, NEW a \in Names
  PROVE  Matching(makeMatch(Pop(s, n), a), s, n, a)
  <1> DEFINE p == Pop(s, n)
             t == makeMatch(p, a)
  <1>1. p \in KeyStack /\ p.matched = s.matched
    BY PopTyped
  <1>2. t = [p EXCEPT !.active = a, !.prefixed = ""]
    BY DEF makeMatch
  <1>3. "" \in Names
    BY DEF Names
  <1> HIDE DEF p
  <1>4. /\ t \in KeyStack /\ t.active = a /\ t.prefixed = "" /\ t.matched = p.matched
        /\ t.buf = p.buf /\ t.macroKeys = p.macroKeys
    BY <1>1, <1>2, <1>3 DEF KeyStack
  <1>5. Stack(t) = Stack(p)
    BY <1>4 DEF Stack
  <1> HIDE DEF t
  <1>6. Matching(t, s, n, a)
    BY <1>1, <1>4, <1>5 DEF Matching, p
  <1> QED
    BY <1>6 DEF t, p

\* The stack t is s with the keys args more, m having been matched.
Matched(t, s, m, args) ==
  /\ t \in KeyStack /\ t.mustWait = FALSE
  /\ t.active = s.active /\ t.prefixed = s.prefixed
  /\ t.matched = IF m = << >> THEN s.matched ELSE m
  /\ Stack(t) = args \o Stack(s)

\* MatchedKeys puts back the keys that were not matched.
LEMMA MatchedKeysTyped ==
  ASSUME NEW s \in KeyStack, NEW m \in Seq(KeySet), NEW args \in Seq(KeySet)
  PROVE  Matched(MatchedKeys(s, m, args), s, m, args)
  <1> DEFINE t == MatchedKeys(s, m, args)
  <1>1. s.buf \in Seq(KeySet) /\ s.macroKeys \in Seq(KeySet) /\ s.matched \in Seq(KeySet)
    BY DEF KeyStack
  <1>2. args \o s.buf \in Seq(KeySet)
    BY <1>1, ConcatProperties
  <1>3. /\ t \in KeyStack /\ t.mustWait = FALSE
        /\ t.active = s.active /\ t.prefixed = s.prefixed
        /\ t.matched = IF m = << >> THEN s.matched ELSE m
        /\ t.buf = args \o s.buf /\ t.macroKeys = s.macroKeys
    BY <1>1, <1>2 DEF KeyStack, MatchedKeys
  <1>4. Stack(t) = args \o Stack(s)
    <2> DEFINE B == s.buf
               Q == s.macroKeys
    <2>1. Stack(t) = (args \o B) \o Q /\ Stack(s) = B \o Q
      BY <1>3 DEF Stack
    <2>2. B \in Seq(KeySet) /\ Q \in Seq(KeySet)
      BY <1>1
    <2> HIDE DEF B, Q
    <2>5. Groups(args, B, Q)
      BY <2>2, ConcatThree
    <2>3. (args \o B) \o Q = args \o (B \o Q)
      BY <2>5 DEF Groups
    <2> QED
      BY <2>1, <2>3
  <1> HIDE DEF t
  <1>5. Matched(t, s, m, args)
    BY <1>3, <1>4 DEF Matched
  <1> QED
    BY <1>5 DEF t

\* The stack t waits with the keys of a prefix.
Waits(t, s, prefix) ==
  /\ t \in KeyStack /\ t.mustWait = TRUE
  /\ t.active = s.active /\ t.prefixed = s.prefixed
  /\ t.matched = prefix /\ t.buf = prefix /\ Stack(t) = prefix

\* MatchedPrefix puts back all the keys, and waits.
LEMMA MatchedPrefixTyped ==
  ASSUME NEW s \in KeyStack, s.buf = << >>, s.macroKeys = << >>,
         NEW prefix \in Seq(KeySet), prefix # << >>
  PROVE  Waits(MatchedPrefix(s, prefix), s, prefix)
  <1> DEFINE t == MatchedPrefix(s, prefix)
  <1>1. prefix \o << >> = prefix
    BY ConcatEmptySeq
  <1>2. /\ t \in KeyStack /\ t.mustWait = TRUE
        /\ t.active = s.active /\ t.prefixed = s.prefixed
        /\ t.matched = prefix /\ t.buf = prefix \o << >> /\ t.macroKeys = << >>
    <2>1. t = [s EXCEPT !.mustWait = TRUE, !.buf = prefix \o << >>, !.matched = prefix]
      BY DEF MatchedPrefix, KeyStack
    <2> QED
      BY <1>1, <2>1 DEF KeyStack
  <1> HIDE DEF t
  <1>3. Waits(t, s, prefix)
    BY <1>1, <1>2 DEF Stack, Waits
  <1> QED
    BY <1>3 DEF t

\* Nothing was read.
Same(s, r) ==
  /\ r.active = s.active /\ r.prefixed = s.prefixed /\ r.matched = s.matched
  /\ r.mustWait = FALSE /\ Stack(r) = << >>

\* The first n keys were taken, for the bind a.
Took(s, r, n, a) ==
  /\ r.active = a /\ r.prefixed = "" /\ r.mustWait = FALSE
  /\ r.matched = First(s, n)
  /\ Stack(r) = SubSeq(Stack(s), n + 1, Len(Stack(s)))

\* The first n - 1 keys were taken, for the bind a, and the next one put back.
GaveBack(s, r, n, a) ==
  /\ r.active = a /\ r.prefixed = "" /\ r.mustWait = FALSE
  /\ r.matched = IF n = 1 THEN s.matched ELSE First(s, n - 1)
  /\ Stack(r) = SubSeq(Stack(s), n, Len(Stack(s)))

\* All the keys wait for others, a being kept for them.
Held(s, r, a) ==
  /\ r.active = s.active /\ r.prefixed = a /\ r.mustWait = TRUE
  /\ r.matched = Stack(s) /\ r.buf = Stack(s) /\ Stack(r) = Stack(s)

\* The five cases again.  Nothing was there to read.
ReadsNone(s, p, r) == p = FALSE /\ Stack(s) = << >> /\ Same(s, r)
\* A character of two bytes was taken.
ReadsWide(s, p, r) ==
  /\ p = FALSE /\ Len(s.buf) > 1 /\ s.buf[1] = Lead /\ s.buf[2] = Trail
  /\ Took(s, r, 2, "self-insert")
\* All the keys start a longer bind.
ReadsOn(s, b, p, r) ==
  /\ p = TRUE /\ Stack(s) # << >>
  /\ \A m \in 1 .. Len(Stack(s)) : IsPrefixed(First(s, m), b)
  /\ \E a : KeptFrom(s, b, Len(Stack(s)), a) /\ Held(s, r, a)
\* The keys read have a bind.
ReadsBind(s, b, p, r) ==
  /\ p = FALSE
  /\ \E n : Stops(s, b, n) /\ First(s, n) \in DOMAIN b /\ Took(s, r, n, b[First(s, n)])
\* They have none, and all of them are given to the bind kept.
ReadsKept(s, b, p, r) ==
  /\ p = FALSE
  /\ \E n, a : /\ Stops(s, b, n) /\ First(s, n) \notin DOMAIN b
              /\ KeptFrom(s, b, n - 1, a) /\ Took(s, r, n, a)
\* They have none, and the last one is put back.
ReadsBack(s, b, p, r) ==
  /\ p = FALSE
  /\ \E n, a : Stops(s, b, n) /\ KeptFrom(s, b, n - 1, a) /\ GaveBack(s, r, n, a)

\* The keys of a stack, cut at the n-th.
LEMMA CutStack ==
  ASSUME NEW s \in KeyStack, NEW n \in 0 .. Len(Stack(s))
  PROVE  /\ First(s, n) \in Seq(KeySet) /\ Len(First(s, n)) = n
         /\ SubSeq(Stack(s), n + 1, Len(Stack(s))) \in Seq(KeySet)
         /\ First(s, n) \o SubSeq(Stack(s), n + 1, Len(Stack(s))) = Stack(s)
  <1> DEFINE q == Stack(s)
  <1>1. q \in Seq(KeySet) /\ Len(q) \in Nat
    <2>1. q \in Seq(KeySet)
      BY StackTyped
    <2> QED
      BY <2>1, LenProperties
  <1> HIDE DEF q
  <1>2. n \in Nat /\ n <= Len(q)
    BY <1>1 DEF q
  <1>3. /\ SubSeq(q, 1, n) \in Seq(KeySet)
        /\ Len(SubSeq(q, 1, n)) = IF 1 <= n THEN n - 1 + 1 ELSE 0
        /\ SubSeq(q, n + 1, Len(q)) \in Seq(KeySet)
    BY <1>1, <1>2, PartOfKeys
  <1>4. SubSeq(q, 1, n) \o SubSeq(q, n + 1, Len(q)) = SubSeq(q, 1, Len(q))
    <2>1. 1 \in 1 .. Len(q) + 1 /\ n \in 1 - 1 .. Len(q) /\ Len(q) \in n .. Len(q)
      BY <1>1, <1>2
    <2> QED
      BY <1>1, <2>1, ConcatAdjacentSubSeq
  <1>5. SubSeq(q, 1, Len(q)) = q
    BY <1>1, SubSeqFull
  <1>6. Len(SubSeq(q, 1, n)) = n
    BY <1>2, <1>3
  <1>7. First(s, n) = SubSeq(q, 1, n) /\ q = Stack(s)
    BY DEF First, q
  <1> QED
    BY <1>3, <1>4, <1>5, <1>6, <1>7

\* PopKey until the stack is empty.
LEMMA PopAll ==
  ASSUME NEW s \in KeyStack
  PROVE  /\ Len(Stack(s)) \in Nat
         /\ Pop(s, Len(Stack(s))).buf = << >> /\ Pop(s, Len(Stack(s))).macroKeys = << >>
  <1> DEFINE n == Len(Stack(s))
             B == s.buf
             Q == s.macroKeys
  <1>1. n = Len(B) + Len(Q) /\ B \in Seq(KeySet) /\ Q \in Seq(KeySet)
    BY StackTyped DEF KeyStack
  <1>2. n \in Nat
    <2>1. Stack(s) \in Seq(KeySet)
      BY StackTyped
    <2> QED
      BY <2>1, LenProperties
  <1>3. /\ Pop(s, n).buf = SubSeq(B, n + 1, Len(B))
        /\ Pop(s, n).macroKeys = IF n > Len(B) THEN SubSeq(Q, n - Len(B) + 1, Len(Q)) ELSE Q
    <2> HIDE DEF n
    <2> QED
      BY <1>2, PopTyped
  <1> HIDE DEF n, B, Q
  <1>4. Len(B) \in Nat /\ Len(Q) \in Nat
    BY <1>1, LenProperties
  <1>5. Pop(s, n).buf = << >>
    <2>1. Len(B) < n + 1
      BY <1>1, <1>4
    <2> QED
      BY <1>2, <1>3, <1>4, <2>1, SubSeqEmpty
  <1>6. Pop(s, n).macroKeys = << >>
    <2>1. CASE n > Len(B)
      <3>1. Len(Q) < n - Len(B) + 1 /\ n - Len(B) + 1 \in Int
        BY <1>1, <1>4
      <3>2. SubSeq(Q, n - Len(B) + 1, Len(Q)) = << >>
        BY <1>4, <3>1, SubSeqEmpty
      <3> QED
        BY <1>3, <2>1, <3>2
    <2>2. CASE ~(n > Len(B))
      <3>1. Len(Q) = 0
        BY <1>1, <1>4, <2>2
      <3>2. Q = << >>
        BY <1>1, <3>1, EmptySeq
      <3> QED
        BY <1>3, <2>2, <3>2
    <2> QED
      BY <2>1, <2>2
  <1> QED
    BY <1>2, <1>5, <1>6 DEF n

\* The keys matched are taken.
LEMMA TookKeys ==
  ASSUME NEW s \in KeyStack, NEW n \in 1 .. Len(Stack(s)), NEW a \in Names,
         NEW r, r = MatchedKeys(makeMatch(Pop(s, n), a), First(s, n), << >>)
  PROVE  r \in KeyStack /\ Took(s, r, n, a)
  <1> DEFINE t == makeMatch(Pop(s, n), a)
             m == First(s, n)
             e == << >>
  <1>0. n \in 0 .. Len(Stack(s)) /\ n \in Nat /\ n # 0
    OBVIOUS
  <1>1. /\ t \in KeyStack /\ t.active = a /\ t.prefixed = ""
        /\ Stack(t) = Stack(Pop(s, n))
    <2>1. Matching(t, s, n, a)
      BY <1>0, MatchTyped
    <2> HIDE DEF t
    <2> QED
      BY <2>1 DEF Matching
  <1>2. m \in Seq(KeySet) /\ Len(m) = n
    BY <1>0, CutStack
  <1>3. e \in Seq(KeySet) /\ m # << >>
    BY <1>0, <1>2
  <1>4. Stack(Pop(s, n)) = SubSeq(Stack(s), n + 1, Len(Stack(s)))
    BY <1>0, PopTakes
  <1>5. r = MatchedKeys(t, m, e)
    OBVIOUS
  <1>6. e \o Stack(t) = Stack(t)
    <2>1. Stack(t) \in Seq(KeySet)
      <3> HIDE DEF t
      <3> QED
        BY <1>1, StackTyped
    <2> QED
      BY <2>1, ConcatEmptySeq
  <1>9. m = First(s, n)
    OBVIOUS
  <1> HIDE DEF t, m, e
  <1>7. /\ r \in KeyStack /\ r.mustWait = FALSE
        /\ r.active = t.active /\ r.prefixed = t.prefixed
        /\ r.matched = (IF m = << >> THEN t.matched ELSE m)
        /\ Stack(r) = e \o Stack(t)
    <2>1. Matched(MatchedKeys(t, m, e), t, m, e)
      BY <1>1, <1>2, <1>3, MatchedKeysTyped
    <2> QED
      BY <2>1, <1>5 DEF Matched
  <1>8. r.matched = m
    BY <1>3, <1>7
  <1> QED
    BY <1>1, <1>4, <1>6, <1>7, <1>8, <1>9 DEF Took

\* The last key read is put back.
LEMMA GaveBackKeys ==
  ASSUME NEW s \in KeyStack, NEW n \in 1 .. Len(Stack(s)), NEW a \in Names, NEW r,
         r = MatchedKeys(makeMatch(Pop(s, n), a), First(s, n - 1),
                         SubSeq(First(s, n), Len(First(s, n - 1)) + 1, Len(First(s, n))))
  PROVE  r \in KeyStack /\ GaveBack(s, r, n, a)
  <1> DEFINE q == Stack(s)
             t == makeMatch(Pop(s, n), a)
             m == First(s, n - 1)
             f == First(s, n)
             e == SubSeq(f, Len(m) + 1, Len(f))
  <1>0. q \in Seq(KeySet) /\ Len(q) \in Nat
    <2>1. q \in Seq(KeySet)
      BY StackTyped
    <2> QED
      BY <2>1, LenProperties
  <1>1. n \in 0 .. Len(q) /\ n - 1 \in 0 .. Len(q) /\ n \in Nat /\ n # 0 /\ n \in 1 .. Len(q)
    BY <1>0
  <1>2. /\ t \in KeyStack /\ t.active = a /\ t.prefixed = "" /\ t.matched = s.matched
        /\ Stack(t) = Stack(Pop(s, n))
    <2>1. Matching(t, s, n, a)
      BY <1>1, MatchTyped
    <2> HIDE DEF t
    <2> QED
      BY <2>1 DEF Matching
  <1>3. m \in Seq(KeySet) /\ Len(m) = n - 1 /\ f \in Seq(KeySet) /\ Len(f) = n
    BY <1>1, CutStack
  <1>4. Stack(Pop(s, n)) = SubSeq(q, n + 1, Len(q))
    BY <1>1, PopTakes
  <1>5. r = MatchedKeys(t, m, e)
    OBVIOUS
  <1>6. f[n] = q[n]
    <2>1. f = SubSeq(q, 1, n)
      BY DEF First
    <2> HIDE DEF q, f
    <2>2. \A i \in 1 .. n - 1 + 1 : SubSeq(q, 1, n)[i] = q[1 + i - 1]
      BY <1>0, <1>1, PartOfKeys
    <2> QED
      BY <1>1, <2>1, <2>2
  <1>10. m = First(s, n - 1) /\ q = Stack(s)
    OBVIOUS
  <1>7. /\ e \in Seq(KeySet) /\ e = <<q[n]>>
    <2> HIDE DEF f, m, q
    <2>1. Len(m) + 1 = n
      BY <1>1, <1>3
    <2>2. e = SubSeq(f, n, n)
      BY <1>3, <2>1
    <2>3. /\ SubSeq(f, n, n) \in Seq(KeySet)
          /\ Len(SubSeq(f, n, n)) = IF n <= n THEN n - n + 1 ELSE 0
          /\ \A i \in 1 .. n - n + 1 : SubSeq(f, n, n)[i] = f[n + i - 1]
      BY <1>1, <1>3, PartOfKeys
    <2> HIDE DEF e
    <2>4. Len(e) = 1 /\ e[1] = q[n] /\ e \in Seq(KeySet)
      BY <1>1, <1>6, <2>2, <2>3
    <2>5. q[n] \in KeySet
      BY <1>0, <1>1
    <2> QED
      BY <2>4, <2>5, SeqEqual
  <1> HIDE DEF t, m, e, f, q
  <1>8. /\ r \in KeyStack /\ r.mustWait = FALSE
        /\ r.active = t.active /\ r.prefixed = t.prefixed
        /\ r.matched = (IF m = << >> THEN t.matched ELSE m)
        /\ Stack(r) = e \o Stack(t)
    <2>1. Matched(MatchedKeys(t, m, e), t, m, e)
      BY <1>2, <1>3, <1>7, MatchedKeysTyped
    <2> QED
      BY <2>1, <1>5 DEF Matched
  <1>9. Stack(r) = SubSeq(q, n, Len(q))
    <2>1. Len(q) \in n .. Len(q)
      BY <1>0, <1>1
    <2>2. SubSeq(q, n, Len(q)) = <<q[n]>> \o SubSeq(q, n + 1, Len(q))
      BY <1>0, <1>1, <2>1, SubSeqRecursiveFirst
    <2> QED
      BY <1>2, <1>4, <1>7, <1>8, <2>2
  <1>11. r.matched = IF n = 1 THEN s.matched ELSE m
    <2>1. CASE n = 1
      <3>1. m = << >>
        BY <1>3, <2>1, EmptySeq
      <3> QED
        BY <1>2, <1>8, <2>1, <3>1
    <2>2. CASE n # 1
      <3>1. m # << >>
        BY <1>1, <1>3, <2>2
      <3> QED
        BY <1>8, <2>2, <3>1
    <2> QED
      BY <2>1, <2>2
  <1> QED
    BY <1>2, <1>8, <1>9, <1>10, <1>11 DEF GaveBack

\* All the keys wait.
LEMMA HeldKeys ==
  ASSUME NEW s \in KeyStack, Stack(s) # << >>, NEW a \in Names, NEW r,
         r = MatchedPrefix([Pop(s, Len(Stack(s))) EXCEPT !.prefixed = a], Stack(s))
  PROVE  r \in KeyStack /\ Held(s, r, a)
  <1> DEFINE n == Len(Stack(s))
             p == Pop(s, n)
             t == [p EXCEPT !.prefixed = a]
             q == Stack(s)
  <1>1. n \in Nat /\ p.buf = << >> /\ p.macroKeys = << >>
    BY PopAll
  <1>2. p \in KeyStack /\ p.active = s.active
    <2> HIDE DEF n
    <2> QED
      BY <1>1, PopTyped
  <1>3. q \in Seq(KeySet) /\ q # << >>
    BY StackTyped
  <1>4. r = MatchedPrefix(t, q) /\ q = Stack(s)
    OBVIOUS
  <1> HIDE DEF p, q
  <1>5. /\ t \in KeyStack /\ t.active = p.active /\ t.prefixed = a
        /\ t.buf = << >> /\ t.macroKeys = << >>
    BY <1>1, <1>2 DEF KeyStack
  <1> HIDE DEF t
  <1>6. /\ r \in KeyStack /\ r.mustWait = TRUE
        /\ r.active = t.active /\ r.prefixed = t.prefixed
        /\ r.matched = q /\ r.buf = q /\ Stack(r) = q
    <2>1. Waits(MatchedPrefix(t, q), t, q)
      BY <1>3, <1>5, MatchedPrefixTyped
    <2> QED
      BY <2>1, <1>4 DEF Waits
  <1> QED
    BY <1>2, <1>4, <1>5, <1>6 DEF Held

\* A character of two bytes is on the stack.
LEMMA WideFits ==
  ASSUME NEW s \in KeyStack, Len(s.buf) > 1
  PROVE  2 \in 1 .. Len(Stack(s)) /\ 2 \in 0 .. Len(Stack(s))
  <1> DEFINE x == Len(s.buf)
             y == Len(s.macroKeys)
             z == Len(Stack(s))
  <1>1. z = x + y /\ x \in Nat /\ y \in Nat /\ x > 1
    BY StackTyped
  <1> HIDE DEF x, y, z
  <1>2. 2 \in 1 .. z /\ 2 \in 0 .. z
    BY <1>1
  <1> QED
    BY <1>2 DEF z

\* What MatchMain does to the stack before it looks at the bind.
LEMMA MainRead ==
  ASSUME NEW s \in KeyStack, NEW b, Binding(b), NEW d, d = dispatchKeys(s, b), NEW r,
         r = IF d.prefix THEN MatchedPrefix(d.s, d.read) ELSE MatchedKeys(d.s, d.read, << >>)
  PROVE  /\ r \in KeyStack
         /\ \/ ReadsNone(s, d.prefix, r) \/ ReadsWide(s, d.prefix, r)
            \/ ReadsOn(s, b, d.prefix, r) \/ ReadsBind(s, b, d.prefix, r)
            \/ ReadsKept(s, b, d.prefix, r)
  <1>0. "self-insert" \in Names /\ \A x \in DOMAIN b : b[x] \in Names
    BY DEF Names, Binding
  <1>1. CASE Idle(s, d)
    <2>1. d.prefix = FALSE /\ d.s = s /\ d.read = << >> /\ Stack(s) = << >>
      BY <1>1 DEF Idle, Returns
    <2>2. << >> \in Seq(KeySet)
      OBVIOUS
    <2>3. Matched(MatchedKeys(s, << >>, << >>), s, << >>, << >>)
      BY <2>2, MatchedKeysTyped
    <2>4. r = MatchedKeys(s, << >>, << >>)
      BY <2>1
    <2>5. << >> \o << >> = << >>
      BY <2>2, ConcatEmptySeq
    <2> QED
      BY <2>1, <2>3, <2>4, <2>5 DEF Matched, ReadsNone, Same
  <1>2. CASE Wide(s, d)
    <2>1. /\ d.prefix = FALSE /\ d.s = makeMatch(Pop(s, 2), "self-insert") /\ d.read = First(s, 2)
          /\ Len(s.buf) > 1 /\ s.buf[1] = Lead /\ s.buf[2] = Trail
      BY <1>2 DEF Wide, Returns
    <2>2. r = MatchedKeys(makeMatch(Pop(s, 2), "self-insert"), First(s, 2), << >>)
      BY <2>1
    <2>3. 2 \in 1 .. Len(Stack(s))
      BY <2>1, WideFits
    <2>4. r \in KeyStack /\ Took(s, r, 2, "self-insert")
      BY <1>0, <2>2, <2>3, TookKeys
    <2> QED
      BY <2>1, <2>4 DEF ReadsWide
  <1>3. CASE Waiting(s, b, d)
    <2>1. PICK a : /\ KeptFrom(s, b, Len(Stack(s)), a)
                   /\ Returns(d, [Pop(s, Len(Stack(s))) EXCEPT !.prefixed = a], TRUE, Stack(s), Stack(s))
      BY <1>3 DEF Waiting
    <2>2. a \in Names
      BY <2>1, KeptTyped
    <2>3. r = MatchedPrefix([Pop(s, Len(Stack(s))) EXCEPT !.prefixed = a], Stack(s)) /\ d.prefix = TRUE
      BY <2>1 DEF Returns
    <2>4. Stack(s) # << >>
      BY <1>3 DEF Waiting
    <2>5. r \in KeyStack /\ Held(s, r, a)
      BY <2>2, <2>3, <2>4, HeldKeys
    <2> QED
      BY <1>3, <2>1, <2>3, <2>5 DEF ReadsOn, Waiting
  <1>4. CASE Bound(s, b, d)
    <2>1. PICK n : /\ Stops(s, b, n) /\ First(s, n) \in DOMAIN b
                   /\ Returns(d, makeMatch(Pop(s, n), b[First(s, n)]), FALSE, First(s, n), First(s, n))
      BY <1>4 DEF Bound
    <2>2. d.prefix = FALSE /\ r = MatchedKeys(makeMatch(Pop(s, n), b[First(s, n)]), First(s, n), << >>)
      BY <2>1 DEF Returns
    <2>3. n \in 1 .. Len(Stack(s)) /\ b[First(s, n)] \in Names
      BY <1>0, <2>1 DEF Stops
    <2>4. r \in KeyStack /\ Took(s, r, n, b[First(s, n)])
      BY <2>2, <2>3, TookKeys
    <2> QED
      BY <2>1, <2>2, <2>4 DEF ReadsBind
  <1>5. CASE Unbound(s, b, d)
    <2>1. PICK n, a : /\ Stops(s, b, n) /\ First(s, n) \notin DOMAIN b /\ KeptFrom(s, b, n - 1, a)
                      /\ Returns(d, makeMatch(Pop(s, n), a), FALSE, First(s, n), First(s, n - 1))
      BY <1>5 DEF Unbound
    <2>2. d.prefix = FALSE /\ r = MatchedKeys(makeMatch(Pop(s, n), a), First(s, n), << >>)
      BY <2>1 DEF Returns
    <2>3. n \in 1 .. Len(Stack(s)) /\ a \in Names
      BY <2>1, KeptTyped DEF Stops
    <2>4. r \in KeyStack /\ Took(s, r, n, a)
      BY <2>2, <2>3, TookKeys
    <2> QED
      BY <2>1, <2>2, <2>4 DEF ReadsKept
  <1> QED
    BY <1>1, <1>2, <1>3, <1>4, <1>5, Dispatched

\* What MatchLocal does to it.
LEMMA LocalRead ==
  ASSUME NEW s \in KeyStack, NEW b, Binding(b), NEW d, d = dispatchKeys(s, b), NEW r,
         r = IF d.prefix THEN MatchedPrefix(d.s, d.read)
             ELSE MatchedKeys(d.s, d.matched, SubSeq(d.read, Len(d.matched) + 1, Len(d.read)))
  PROVE  /\ r \in KeyStack
         /\ \/ ReadsNone(s, d.prefix, r) \/ ReadsWide(s, d.prefix, r)
            \/ ReadsOn(s, b, d.prefix, r) \/ ReadsBind(s, b, d.prefix, r)
            \/ ReadsBack(s, b, d.prefix, r)
  <1>0. "self-insert" \in Names /\ \A x \in DOMAIN b : b[x] \in Names
    BY DEF Names, Binding
  <1>1. ASSUME NEW f \in Seq(KeySet) PROVE SubSeq(f, Len(f) + 1, Len(f)) = << >>
    BY SubSeqEmpty
  <1>2. CASE Idle(s, d)
    <2>1. /\ d.prefix = FALSE /\ d.s = s /\ d.read = << >> /\ d.matched = << >> /\ Stack(s) = << >>
      BY <1>2 DEF Idle, Returns
    <2>2. << >> \in Seq(KeySet)
      OBVIOUS
    <2>3. Matched(MatchedKeys(s, << >>, << >>), s, << >>, << >>)
      BY <2>2, MatchedKeysTyped
    <2>4. r = MatchedKeys(s, << >>, << >>)
      <3>1. SubSeq(d.read, Len(d.matched) + 1, Len(d.read)) = << >>
        BY <1>1, <2>1, <2>2
      <3> QED
        BY <2>1, <3>1
    <2>5. << >> \o << >> = << >>
      BY <2>2, ConcatEmptySeq
    <2> QED
      BY <2>1, <2>3, <2>4, <2>5 DEF Matched, ReadsNone, Same
  <1>3. CASE Wide(s, d)
    <2>1. /\ d.prefix = FALSE /\ d.s = makeMatch(Pop(s, 2), "self-insert")
          /\ d.read = First(s, 2) /\ d.matched = First(s, 2)
          /\ Len(s.buf) > 1 /\ s.buf[1] = Lead /\ s.buf[2] = Trail
      BY <1>3 DEF Wide, Returns
    <2>2. 2 \in 1 .. Len(Stack(s))
      BY <2>1, WideFits
    <2>3. First(s, 2) \in Seq(KeySet)
      BY <2>2, CutStack
    <2>4. SubSeq(d.read, Len(d.matched) + 1, Len(d.read)) = << >>
      BY <1>1, <2>1, <2>3
    <2>5. r = MatchedKeys(makeMatch(Pop(s, 2), "self-insert"), First(s, 2), << >>)
      BY <2>1, <2>4
    <2>6. r \in KeyStack /\ Took(s, r, 2, "self-insert")
      BY <1>0, <2>2, <2>5, TookKeys
    <2> QED
      BY <2>1, <2>6 DEF ReadsWide
  <1>4. CASE Waiting(s, b, d)
    <2>1. PICK a : /\ KeptFrom(s, b, Len(Stack(s)), a)
                   /\ Returns(d, [Pop(s, Len(Stack(s))) EXCEPT !.prefixed = a], TRUE, Stack(s), Stack(s))
      BY <1>4 DEF Waiting
    <2>2. a \in Names
      BY <2>1, KeptTyped
    <2>3. r = MatchedPrefix([Pop(s, Len(Stack(s))) EXCEPT !.prefixed = a], Stack(s)) /\ d.prefix = TRUE
      BY <2>1 DEF Returns
    <2>4. Stack(s) # << >>
      BY <1>4 DEF Waiting
    <2>5. r \in KeyStack /\ Held(s, r, a)
      BY <2>2, <2>3, <2>4, HeldKeys
    <2> QED
      BY <1>4, <2>1, <2>3, <2>5 DEF ReadsOn, Waiting
  <1>5. CASE Bound(s, b, d)
    <2>1. PICK n : /\ Stops(s, b, n) /\ First(s, n) \in DOMAIN b
                   /\ Returns(d, makeMatch(Pop(s, n), b[First(s, n)]), FALSE, First(s, n), First(s, n))
      BY <1>5 DEF Bound
    <2>2. n \in 1 .. Len(Stack(s)) /\ b[First(s, n)] \in Names
      BY <1>0, <2>1 DEF Stops
    <2>3. First(s, n) \in Seq(KeySet)
      <3>1. n \in 0 .. Len(Stack(s))
        BY <2>2
      <3> QED
        BY <3>1, CutStack
    <2>4. SubSeq(d.read, Len(d.matched) + 1, Len(d.read)) = << >>
      BY <1>1, <2>1, <2>3 DEF Returns
    <2>5. d.prefix = FALSE /\ r = MatchedKeys(makeMatch(Pop(s, n), b[First(s, n)]), First(s, n), << >>)
      BY <2>1, <2>4 DEF Returns
    <2>6. r \in KeyStack /\ Took(s, r, n, b[First(s, n)])
      BY <2>2, <2>5, TookKeys
    <2> QED
      BY <2>1, <2>5, <2>6 DEF ReadsBind
  <1>6. CASE Unbound(s, b, d)
    <2>1. PICK n, a : /\ Stops(s, b, n) /\ KeptFrom(s, b, n - 1, a)
                      /\ Returns(d, makeMatch(Pop(s, n), a), FALSE, First(s, n), First(s, n - 1))
      BY <1>6 DEF Unbound
    <2>2. /\ d.prefix = FALSE
          /\ r = MatchedKeys(makeMatch(Pop(s, n), a), First(s, n - 1),
                             SubSeq(First(s, n), Len(First(s, n - 1)) + 1, Len(First(s, n))))
      BY <2>1 DEF Returns
    <2>3. n \in 1 .. Len(Stack(s)) /\ a \in Names
      BY <2>1, KeptTyped DEF Stops
    <2>4. r \in KeyStack /\ GaveBack(s, r, n, a)
      BY <2>2, <2>3, GaveBackKeys
    <2> QED
      BY <2>1, <2>2, <2>4 DEF ReadsBack
  <1> QED
    BY <1>2, <1>3, <1>4, <1>5, <1>6, Dispatched

-----------------------------------------------------------------------------
(* The two matchers                                                        *)

\* The binds of a keymap are binds, and those of the main keymap in its context
\* are some of them.
LEMMA KeymapBinds ==
  /\ \A m \in DOMAIN Binds : Binding(Binds[m]) /\ \A x \in DOMAIN Binds[m] : Binds[m][x] \in ActionsOf(m)
  /\ main \in Mains => /\ Binding(MainBinds)
                       /\ \A x \in DOMAIN MainBinds : x \in DOMAIN Binds[main] /\ MainBinds[x] = Binds[main][x]
  <1>1. ASSUME NEW m \in DOMAIN Binds
        PROVE  Binding(Binds[m]) /\ \A x \in DOMAIN Binds[m] : Binds[m][x] \in ActionsOf(m)
    BY DEF Binding, Actions, ActionsOf
  <1>2. ASSUME main \in Mains
        PROVE  \A x \in DOMAIN MainBinds : x \in DOMAIN Binds[main] /\ MainBinds[x] = Binds[main][x]
    <2>1. CASE local = "isearch"
      BY <2>1 DEF MainBinds, Restrict
    <2>2. CASE local # "isearch" /\ nonInc
      BY <2>2 DEF MainBinds, Restrict
    <2>3. CASE local # "isearch" /\ ~nonInc
      BY <2>3 DEF MainBinds
    <2> QED
      BY <2>1, <2>2, <2>3
  <1>3. ASSUME main \in Mains PROVE Binding(MainBinds)
    <2>1. main \in DOMAIN Binds
      BY <1>3, DispatchAssumption
    <2> QED
      BY <1>1, <1>2, <1>3, <2>1 DEF Binding
  <1> QED
    BY <1>1, <1>2, <1>3

\* A key is discarded.
Forced(t, s) ==
  /\ t \in KeyStack /\ t.mustWait = FALSE
  /\ t.matched = s.matched /\ t.active = s.active /\ t.prefixed = s.prefixed
  /\ Len(Stack(s)) = 1 => Stack(t) = << >>

\* PopForce.
LEMMA PopForced ==
  ASSUME NEW s \in KeyStack
  PROVE  Forced(PopForce(s), s)
  <1> DEFINE p == Pop(s, 1)
             t == PopForce(s)
  <1>1. /\ p \in KeyStack /\ p.matched = s.matched /\ p.active = s.active
        /\ p.prefixed = s.prefixed
    BY PopTyped
  <1>2. t = [p EXCEPT !.mustWait = FALSE]
    BY DEF PopForce
  <1>3. ASSUME Len(Stack(s)) = 1 PROVE Stack(p) = << >>
    <2>1. 1 \in 0 .. Len(Stack(s))
      BY <1>3
    <2>2. Stack(p) = SubSeq(Stack(s), 1 + 1, 1)
      BY <1>3, <2>1, PopTakes
    <2> QED
      BY <2>2, SubSeqEmpty
  <1> HIDE DEF p, t
  <1>4. /\ t \in KeyStack /\ t.mustWait = FALSE /\ t.matched = p.matched
        /\ t.active = p.active /\ t.prefixed = p.prefixed
        /\ t.buf = p.buf /\ t.macroKeys = p.macroKeys
    BY <1>1, <1>2 DEF KeyStack
  <1>5. Stack(t) = Stack(p)
    BY <1>4 DEF Stack
  <1>6. Forced(t, s)
    BY <1>1, <1>3, <1>4, <1>5 DEF Forced
  <1> QED
    BY <1>6 DEF t

\* What handleEscape makes of an escape key in the main keymap.
EscapedMain(m, s) ==
  /\ m.s \in KeyStack /\ m.prefix = FALSE /\ m.bind \in {"", "vi-movement-mode"}
  /\ m.s.prefixed = "" /\ m.s.matched = s.matched /\ m.s.mustWait = FALSE
  /\ Len(Stack(s)) = 1 => Stack(m.s) = << >>

\* And in a local one: the key is put back, or else discarded.
EscapedLocal(m, s) ==
  /\ m.s \in KeyStack /\ m.prefix = FALSE
  /\ m.s.prefixed = "" /\ m.s.matched = s.matched
  /\ \/ /\ m.bind = "" \/ (m.bind = "vi-movement-mode" /\ s.prefixed = "vi-movement-mode")
        /\ m.s.buf = s.buf /\ m.s.mustWait = s.mustWait /\ Stack(m.s) = Stack(s)
     \/ m.bind = "emacs-editing-mode" /\ m.s.mustWait = FALSE

\* handleEscape.
LEMMA Escaped ==
  ASSUME NEW s \in KeyStack
  PROVE  EscapedMain(handleEscape(s, TRUE), s) /\ EscapedLocal(handleEscape(s, FALSE), s)
  <1> DEFINE r == [s EXCEPT !.prefixed = ""]
             f == PopForce(r)
  <1>1. /\ r \in KeyStack /\ r.prefixed = "" /\ r.matched = s.matched /\ r.mustWait = s.mustWait
        /\ r.buf = s.buf /\ r.macroKeys = s.macroKeys
    BY DEF KeyStack, Names
  <1>2. Stack(r) = Stack(s)
    BY <1>1 DEF Stack
  <1>3. Forced(f, r)
    <2> HIDE DEF r
    <2> QED
      BY <1>1, PopForced
  <1>4. /\ f \in KeyStack /\ f.mustWait = FALSE /\ f.matched = s.matched /\ f.prefixed = ""
        /\ Len(Stack(s)) = 1 => Stack(f) = << >>
    <2> HIDE DEF f, r
    <2> QED
      BY <1>1, <1>2, <1>3 DEF Forced
  <1>5. ASSUME NEW m, m = handleEscape(s, TRUE) PROVE EscapedMain(m, s)
    <2>1. \/ m = [s |-> f, bind |-> "vi-movement-mode", prefix |-> FALSE]
          \/ m = [s |-> f, bind |-> "", prefix |-> FALSE]
      BY <1>5 DEF handleEscape
    <2> HIDE DEF f
    <2>2. m.s = f /\ m.prefix = FALSE /\ m.bind \in {"", "vi-movement-mode"}
      <3>1. CASE m = [s |-> f, bind |-> "vi-movement-mode", prefix |-> FALSE]
        BY <3>1
      <3>2. CASE m = [s |-> f, bind |-> "", prefix |-> FALSE]
        BY <3>2
      <3> QED
        BY <2>1, <3>1, <3>2
    <2> QED
      BY <1>4, <2>2 DEF EscapedMain
  <1>6. ASSUME NEW m, m = handleEscape(s, FALSE) PROVE EscapedLocal(m, s)
    <2>1. \/ /\ m = [s |-> r, bind |-> "vi-movement-mode", prefix |-> FALSE]
             /\ s.prefixed = "vi-movement-mode"
          \/ m = [s |-> r, bind |-> "", prefix |-> FALSE]
          \/ m = [s |-> f, bind |-> "emacs-editing-mode", prefix |-> FALSE]
      <3>1. CASE s.prefixed = "vi-movement-mode"
        BY <1>6, <3>1 DEF handleEscape
      <3>2. CASE s.prefixed # "vi-movement-mode" /\ main \notin Vi /\ local = "isearch"
        BY <1>6, <3>2 DEF handleEscape
      <3>3. CASE s.prefixed # "vi-movement-mode" /\ ~(main \notin Vi /\ local = "isearch")
        BY <1>6, <3>3 DEF handleEscape
      <3> QED
        BY <3>1, <3>2, <3>3
    <2> HIDE DEF f, r
    <2>2. CASE /\ m = [s |-> r, bind |-> "vi-movement-mode", prefix |-> FALSE]
               /\ s.prefixed = "vi-movement-mode"
      <3>1. m.s = r /\ m.bind = "vi-movement-mode" /\ m.prefix = FALSE
        BY <2>2
      <3> QED
        BY <1>1, <1>2, <2>2, <3>1 DEF EscapedLocal
    <2>3. CASE m = [s |-> r, bind |-> "", prefix |-> FALSE]
      <3>1. m.s = r /\ m.bind = "" /\ m.prefix = FALSE
        BY <2>3
      <3> QED
        BY <1>1, <1>2, <3>1 DEF EscapedLocal
    <2>4. CASE m = [s |-> f, bind |-> "emacs-editing-mode", prefix |-> FALSE]
      <3>1. m.s = f /\ m.bind = "emacs-editing-mode" /\ m.prefix = FALSE
        BY <2>4
      <3> QED
        BY <1>4, <3>1 DEF EscapedLocal
    <2> QED
      BY <2>1, <2>2, <2>3, <2>4
  <1> QED
    BY <1>5, <1>6

\* What a reading of the stack for each keymap leaves, p telling whether more
\* keys are needed.
LocalReads(s, p, r) ==
  /\ r \in KeyStack
  /\ \/ ReadsNone(s, p, r) \/ ReadsWide(s, p, r) \/ ReadsOn(s, Binds[local], p, r)
     \/ ReadsBind(s, Binds[local], p, r) \/ ReadsBack(s, Binds[local], p, r)

\* The same for the main keymap, which puts no key back.
MainReads(s, p, r) ==
  /\ r \in KeyStack
  /\ \/ ReadsNone(s, p, r) \/ ReadsWide(s, p, r) \/ ReadsOn(s, MainBinds, p, r)
     \/ ReadsBind(s, MainBinds, p, r) \/ ReadsKept(s, MainBinds, p, r)

\* The bind found is returned.
PlainMatch(m, p, r) == m.s = r /\ m.bind = r.active /\ m.prefix = p

\* The minibuffer of a non-incremental search inserts the keys.
Inserts(m, p, r) ==
  /\ nonInc /\ (p \/ ~HasCommand(r.active))
  /\ m.s = [r EXCEPT !.active = "self-insert"] /\ m.bind = "self-insert" /\ m.prefix = FALSE

\* A reading is boolean.
LEMMA ReadsBoolean ==
  ASSUME NEW s, NEW p, NEW r, LocalReads(s, p, r) \/ MainReads(s, p, r)
  PROVE  p \in BOOLEAN
  BY DEF LocalReads, MainReads, ReadsNone, ReadsWide, ReadsOn, ReadsBind, ReadsBack, ReadsKept

\* MatchLocal.
LEMMA MatchedLocal ==
  ASSUME NEW s \in KeyStack, local \in Locals, NEW m, m = MatchLocal(s)
  PROVE  \E p, r : /\ LocalReads(s, p, r)
                   /\ IF r.matched = <<Esc>> /\ (p \/ ~HasCommand(r.active))
                      THEN EscapedLocal(m, r)
                      ELSE PlainMatch(m, p, r)
  <1> DEFINE d == dispatchKeys(s, Binds[local])
             r == IF d.prefix THEN MatchedPrefix(d.s, d.read)
                  ELSE MatchedKeys(d.s, d.matched, SubSeq(d.read, Len(d.matched) + 1, Len(d.read)))
  <1>1. m = IF isEscapeKey(r) /\ (d.prefix \/ ~HasCommand(r.active))
            THEN handleEscape(r, FALSE)
            ELSE [s |-> r, bind |-> r.active, prefix |-> d.prefix]
    BY DEF MatchLocal
  <1>2. Binding(Binds[local])
    BY KeymapBinds, DispatchAssumption
  <1>3. LocalReads(s, d.prefix, r)
    <2>1. d = dispatchKeys(s, Binds[local])
      OBVIOUS
    <2> HIDE DEF d
    <2>2. r = IF d.prefix THEN MatchedPrefix(d.s, d.read)
              ELSE MatchedKeys(d.s, d.matched, SubSeq(d.read, Len(d.matched) + 1, Len(d.read)))
      OBVIOUS
    <2> HIDE DEF r
    <2> QED
      BY <1>2, <2>1, <2>2, LocalRead DEF LocalReads
  <1> HIDE DEF d, r
  <1>4. CASE isEscapeKey(r) /\ (d.prefix \/ ~HasCommand(r.active))
    <2>1. m = handleEscape(r, FALSE) /\ r \in KeyStack
      BY <1>1, <1>3, <1>4 DEF LocalReads
    <2>2. EscapedLocal(m, r)
      BY <2>1, Escaped
    <2> QED
      BY <1>3, <1>4, <2>2 DEF isEscapeKey
  <1>5. CASE ~(isEscapeKey(r) /\ (d.prefix \/ ~HasCommand(r.active)))
    <2>1. m = [s |-> r, bind |-> r.active, prefix |-> d.prefix]
      BY <1>1, <1>5
    <2>2. PlainMatch(m, d.prefix, r)
      BY <2>1 DEF PlainMatch
    <2> QED
      BY <1>3, <1>5, <2>2 DEF isEscapeKey
  <1> QED
    BY <1>4, <1>5

\* MatchMain.
LEMMA MatchedMain ==
  ASSUME NEW s \in KeyStack, main \in Mains, NEW m, m = MatchMain(s)
  PROVE  \E p, r : /\ MainReads(s, p, r)
                   /\ \/ Inserts(m, p, r)
                      \/ p /\ ~nonInc /\ main \in Vi /\ r.matched = <<Esc>> /\ EscapedMain(m, r)
                      \/ ~(nonInc /\ p) /\ PlainMatch(m, p, r)
  <1> DEFINE d == dispatchKeys(s, MainBinds)
             r == IF d.prefix THEN MatchedPrefix(d.s, d.read) ELSE MatchedKeys(d.s, d.read, << >>)
             insert == nonInc /\ (d.prefix \/ ~HasCommand(r.active))
  <1>1. m = IF insert
            THEN [s |-> [r EXCEPT !.active = "self-insert"], bind |-> "self-insert", prefix |-> FALSE]
            ELSE IF isEscapeKey(r) /\ main \in Vi /\ d.prefix
            THEN handleEscape(r, TRUE)
            ELSE [s |-> r, bind |-> r.active, prefix |-> d.prefix]
    BY DEF MatchMain
  <1>2. Binding(MainBinds)
    BY KeymapBinds
  <1>3. MainReads(s, d.prefix, r)
    <2>1. d = dispatchKeys(s, MainBinds)
      OBVIOUS
    <2> HIDE DEF d
    <2>2. r = IF d.prefix THEN MatchedPrefix(d.s, d.read) ELSE MatchedKeys(d.s, d.read, << >>)
      OBVIOUS
    <2> HIDE DEF r
    <2> QED
      BY <1>2, <2>1, <2>2, MainRead DEF MainReads
  <1> HIDE DEF d, r
  <1>4. CASE insert
    <2>1. m = [s |-> [r EXCEPT !.active = "self-insert"], bind |-> "self-insert", prefix |-> FALSE]
      BY <1>1, <1>4
    <2>2. Inserts(m, d.prefix, r)
      BY <1>4, <2>1 DEF Inserts
    <2> QED
      BY <1>3, <2>2
  <1>5. CASE ~insert /\ isEscapeKey(r) /\ main \in Vi /\ d.prefix
    <2>1. m = handleEscape(r, TRUE) /\ r \in KeyStack
      BY <1>1, <1>3, <1>5 DEF MainReads
    <2>2. EscapedMain(m, r)
      BY <2>1, Escaped
    <2> QED
      BY <1>3, <1>5, <2>2 DEF isEscapeKey
  <1>6. CASE ~insert /\ ~(isEscapeKey(r) /\ main \in Vi /\ d.prefix)
    <2>1. m = [s |-> r, bind |-> r.active, prefix |-> d.prefix]
      BY <1>1, <1>6
    <2>2. PlainMatch(m, d.prefix, r)
      BY <2>1 DEF PlainMatch
    <2> QED
      BY <1>3, <1>6, <2>2
  <1> QED
    BY <1>4, <1>5, <1>6

-----------------------------------------------------------------------------
(* The types                                                               *)

\* The types of the variables.
IInv ==
  /\ k \in KeyStack /\ main \in Mains /\ local \in Locals \cup {""} /\ nonInc \in BOOLEAN
  /\ pc \in {"wait", "local", "main"}
  /\ typed \in Seq(KeySet)
  /\ ran \in Seq(Entry)

\* What a matcher returns.
Found(m) == m.s \in KeyStack /\ m.bind \in Commands /\ m.prefix \in BOOLEAN

\* MatchLocal returns a stack and a command, or the empty bind.
LEMMA LocalFound ==
  ASSUME NEW s \in KeyStack, local \in Locals
  PROVE  Found(MatchLocal(s))
  <1> DEFINE m == MatchLocal(s)
  <1>1. PICK p, r : /\ LocalReads(s, p, r)
                    /\ IF r.matched = <<Esc>> /\ (p \/ ~HasCommand(r.active))
                       THEN EscapedLocal(m, r)
                       ELSE PlainMatch(m, p, r)
    BY MatchedLocal
  <1>2. p \in BOOLEAN /\ r \in KeyStack /\ r.active \in Commands
    BY <1>1, ReadsBoolean DEF LocalReads, KeyStack, Commands
  <1> SUFFICES Found(m)
    OBVIOUS
  <1> HIDE DEF m
  <1>3. CASE EscapedLocal(m, r)
    BY <1>3 DEF EscapedLocal, Found, Commands, Names
  <1>4. CASE PlainMatch(m, p, r)
    BY <1>2, <1>4 DEF PlainMatch, Found
  <1> QED
    BY <1>1, <1>3, <1>4

\* So does MatchMain.
LEMMA MainFound ==
  ASSUME NEW s \in KeyStack, main \in Mains
  PROVE  Found(MatchMain(s))
  <1> DEFINE m == MatchMain(s)
  <1>1. PICK p, r : /\ MainReads(s, p, r)
                    /\ \/ Inserts(m, p, r)
                       \/ p /\ ~nonInc /\ main \in Vi /\ r.matched = <<Esc>> /\ EscapedMain(m, r)
                       \/ ~(nonInc /\ p) /\ PlainMatch(m, p, r)
    BY MatchedMain
  <1>2. p \in BOOLEAN /\ r \in KeyStack /\ r.active \in Commands
    BY <1>1, ReadsBoolean DEF MainReads, KeyStack, Commands
  <1> SUFFICES Found(m)
    OBVIOUS
  <1> HIDE DEF m
  <1>3. CASE Inserts(m, p, r)
    <2>1. [r EXCEPT !.active = "self-insert"] \in KeyStack
      BY <1>2 DEF KeyStack, Names
    <2>2. "self-insert" \in Commands
      BY DEF Commands, Names
    <2> QED
      BY <1>3, <2>1, <2>2 DEF Inserts, Found
  <1>4. CASE EscapedMain(m, r)
    BY <1>4 DEF EscapedMain, Found, Commands, Names
  <1>5. CASE PlainMatch(m, p, r)
    BY <1>2, <1>5 DEF PlainMatch, Found
  <1> QED
    BY <1>1, <1>3, <1>4, <1>5

\* Shell.run only adds the keys of a macro to the stack.
LEMMA RunKeeps ==
  ASSUME IInv, NEW s \in KeyStack, NEW cmd \in Commands, NEW map \in Mains \cup Locals,
         Run(s, cmd, map)
  PROVE  /\ k' \in KeyStack /\ ran' \in Seq(Entry)
         /\ k'.buf = s.buf /\ k'.mustWait = s.mustWait /\ k'.matched = s.matched
         /\ k'.active = s.active /\ k'.prefixed = s.prefixed
         /\ Fed(cmd) \in Seq(KeySet) /\ Stack(k') = Stack(s) \o Fed(cmd)
         /\ ran' = Append(ran, [cmd |-> cmd, keys |-> s.matched, map |-> map])
  <1> DEFINE e == [cmd |-> cmd, keys |-> s.matched, map |-> map]
  <1>1. Fed(cmd) \in Seq(KeySet)
    <2>1. CASE cmd \in DOMAIN MacroText
      <3>1. MacroText[cmd] \in Seq(KeySet)
        BY <2>1, DispatchAssumption
      <3> QED
        BY <2>1, <3>1 DEF Fed
    <2>2. CASE cmd \notin DOMAIN MacroText
      BY <2>2 DEF Fed
    <2> QED
      BY <2>1, <2>2
  <1>2. s.buf \in Seq(KeySet) /\ s.macroKeys \in Seq(KeySet) /\ s.matched \in Seq(KeySet)
    BY DEF KeyStack
  <1>3. s.macroKeys \o Fed(cmd) \in Seq(KeySet)
    BY <1>1, <1>2, ConcatProperties
  <1>4. /\ k' \in KeyStack
        /\ k'.buf = s.buf /\ k'.mustWait = s.mustWait /\ k'.matched = s.matched
        /\ k'.active = s.active /\ k'.prefixed = s.prefixed
        /\ k'.macroKeys = s.macroKeys \o Fed(cmd)
    BY <1>3 DEF Run, KeyStack
  <1>5. Stack(k') = Stack(s) \o Fed(cmd)
    <2> DEFINE B == s.buf
               Q == s.macroKeys
               F == Fed(cmd)
    <2>1. Stack(k') = B \o (Q \o F) /\ Stack(s) = B \o Q
      BY <1>4 DEF Stack
    <2>2. B \in Seq(KeySet) /\ Q \in Seq(KeySet) /\ F \in Seq(KeySet)
      BY <1>1, <1>2
    <2>4. F = Fed(cmd)
      OBVIOUS
    <2> HIDE DEF B, Q, F
    <2>5. Groups(B, Q, F)
      BY <2>2, ConcatThree
    <2>3. (B \o Q) \o F = B \o (Q \o F)
      BY <2>5 DEF Groups
    <2> QED
      BY <2>1, <2>3, <2>4
  <1>6. e \in Entry
    BY <1>2 DEF Entry
  <1>7. ran' = Append(ran, e)
    BY DEF Run
  <1>8. ran' \in Seq(Entry)
    <2>1. ran \in Seq(Entry)
      BY DEF IInv
    <2> HIDE DEF e
    <2> QED
      BY <1>6, <1>7, <2>1, AppendProperties
  <1> QED
    BY <1>1, <1>4, <1>5, <1>7, <1>8

\* The commands that select a local keymap.
Entering == {"menu-complete", "reverse-search-history", "vi-visual-mode"} \cup Operators

\* What a command may do to the keymaps.
LEMMA EffectKeeps ==
  ASSUME IInv, NEW cmd, NEW l \in Locals \cup {""}, Effect(cmd, l)
  PROVE  /\ main' \in Mains /\ local' \in Locals \cup {""} /\ nonInc' \in BOOLEAN
         /\ cmd = "vi-movement-mode" => main' = "vi-command" /\ local' = ""
         /\ cmd = "self-insert" /\ (l # "vi-opp" \/ nonInc) => main' = main /\ local' = l
         /\ main' # main => local' = ""
         /\ cmd \notin Entering => local' \in {l, ""}
         /\ nonInc' => nonInc \/ cmd = "non-incremental-reverse-search-history"
  <1>1. /\ main' \in Mains
        /\ main' # main => local' = ""
        /\ cmd = "vi-movement-mode" => main' = "vi-command" /\ local' = ""
    <2>1. main' \in {"vi-command", "vi-insert", "emacs", main}
      BY DEF Effect, Vi
    <2>2. main' # main => local' = ""
      BY DEF Effect
    <2>3. cmd = "vi-movement-mode" => main' = "vi-command" /\ local' = ""
      BY DEF Effect, Operators
    <2> QED
      BY <2>1, <2>2, <2>3 DEF IInv, Mains, Vi
  <1>2. local' \in Locals \cup {""}
    BY DEF Effect, Locals
  <1>3. cmd \notin Entering => local' \in {l, ""}
    BY DEF Effect, Entering, Operators
  <1>4. ASSUME cmd = "self-insert", l # "vi-opp" \/ nonInc PROVE main' = main /\ local' = l
    <2>1. ~RunsOperator(cmd, l)
      BY <1>4 DEF RunsOperator, Operators
    <2> QED
      BY <1>4, <2>1 DEF Effect, Operators
  <1>5. nonInc' \in BOOLEAN /\ (nonInc' => nonInc \/ cmd = "non-incremental-reverse-search-history")
    BY DEF Effect, IInv
  <1> QED
    BY <1>1, <1>2, <1>3, <1>4, <1>5 DEF IInv

\* What one read returns is a sequence of keys.
LEMMA ChunkTyped ==
  ASSUME NEW chunk \in SeqOf(KeySet, MaxChunk)
  PROVE  chunk \in Seq(KeySet)
  <1>1. PICK m \in 0 .. MaxChunk : chunk \in [1 .. m -> KeySet]
    BY DEF SeqOf
  <1>2. m \in Nat
    <2>1. MaxChunk \in Nat
      BY DispatchAssumption
    <2> QED
      BY <1>1, <2>1
  <1> QED
    BY <1>1, <1>2, SeqDef

\* Waiting for keys: those that are typed come last.
LEMMA WaitKeeps ==
  ASSUME IInv, Wait
  PROVE  /\ k' \in KeyStack /\ typed' \in Seq(KeySet) /\ pc' = "local"
         /\ k'.matched = << >> /\ k'.prefixed = k.prefixed /\ k'.active = k.active
         /\ Stack(k') # << >>
         /\ UNCHANGED <<main, local, nonInc, ran>>
  <1> DEFINE e == << >>
  <1>0. e \in Seq(KeySet)
    BY EmptySeq
  <1>1. /\ k.buf \in Seq(KeySet) /\ k.macroKeys \in Seq(KeySet) /\ k \in KeyStack
        /\ typed \in Seq(KeySet)
    BY DEF IInv, KeyStack
  <1>2. pc' = "local" /\ UNCHANGED <<main, local, nonInc, ran>>
    BY DEF Wait
  <1>3. CASE (k.buf # << >> /\ ~k.mustWait) \/ k.macroKeys # << >>
    <2>1. k' = [k EXCEPT !.matched = << >>] /\ typed' = typed
      BY <1>3 DEF Wait
    <2>2. /\ k' \in KeyStack /\ k'.buf = k.buf /\ k'.macroKeys = k.macroKeys
          /\ k'.matched = << >> /\ k'.prefixed = k.prefixed /\ k'.active = k.active
      <3>1. k' = [k EXCEPT !.matched = e]
        BY <2>1
      <3>2. e = << >>
        OBVIOUS
      <3> HIDE DEF e
      <3>3. /\ k' \in KeyStack /\ k'.buf = k.buf /\ k'.macroKeys = k.macroKeys
            /\ k'.matched = e /\ k'.prefixed = k.prefixed /\ k'.active = k.active
        BY <1>0, <1>1, <3>1 DEF KeyStack
      <3> QED
        BY <3>2, <3>3
    <2>3. k.buf \o k.macroKeys # << >>
      BY <1>1, <1>3, ConcatEqualIffEmpty
    <2>4. Stack(k') # << >>
      BY <2>2, <2>3 DEF Stack
    <2> QED
      BY <1>1, <1>2, <2>1, <2>2, <2>4
  <1>4. CASE ~((k.buf # << >> /\ ~k.mustWait) \/ k.macroKeys # << >>)
    <2>1. PICK chunk \in SeqOf(KeySet, MaxChunk) :
            /\ chunk # << >>
            /\ k' = [k EXCEPT !.matched = << >>, !.buf = @ \o chunk]
            /\ typed' = typed \o chunk
      BY <1>4 DEF Wait
    <2>2. chunk \in Seq(KeySet)
      BY ChunkTyped
    <2>3. k.buf \o chunk \in Seq(KeySet) /\ typed \o chunk \in Seq(KeySet)
      BY <1>1, <2>2, ConcatProperties
    <2>4. /\ k' \in KeyStack /\ k'.buf = k.buf \o chunk /\ k'.macroKeys = k.macroKeys
          /\ k'.matched = << >> /\ k'.prefixed = k.prefixed /\ k'.active = k.active
      <3> DEFINE g == k.buf \o chunk
      <3>1. k' = [k EXCEPT !.matched = e, !.buf = g] /\ g \in Seq(KeySet)
        BY <2>1, <2>3
      <3>2. e = << >> /\ g = k.buf \o chunk
        OBVIOUS
      <3> HIDE DEF e, g
      <3>3. /\ k' \in KeyStack /\ k'.buf = g /\ k'.macroKeys = k.macroKeys
            /\ k'.matched = e /\ k'.prefixed = k.prefixed /\ k'.active = k.active
        BY <1>0, <1>1, <3>1 DEF KeyStack
      <3> QED
        BY <3>2, <3>3
    <2>5. k.buf \o chunk # << >>
      BY <1>1, <2>1, <2>2, ConcatEqualIffEmpty
    <2>6. (k.buf \o chunk) \o k.macroKeys # << >>
      BY <1>1, <2>3, <2>5, ConcatEqualIffEmpty
    <2>7. Stack(k') # << >>
      BY <2>4, <2>6 DEF Stack
    <2> QED
      BY <1>2, <2>1, <2>3, <2>4, <2>7
  <1> QED
    BY <1>3, <1>4

\* The local keymap is one when it is consulted.
LEMMA LocalThere ==
  ASSUME IInv, ~NoLocal
  PROVE  local \in Locals
  BY DEF IInv, NoLocal

\* Every step keeps the types.
LEMMA TypesKept ==
  ASSUME IInv, [Next]_vars
  PROVE  IInv'
  <1>1. CASE Wait
    BY <1>1, WaitKeeps DEF IInv
  <1>2. CASE LocalSkip
    BY <1>2 DEF LocalSkip, IInv
  <1>3. CASE LocalMatch
    <2> DEFINE m == MatchLocal(k)
    <2>0. local \in Locals
      BY <1>3, LocalThere DEF LocalMatch
    <2>1. Found(m)
      BY <2>0, LocalFound DEF IInv
    <2>2. /\ typed' = typed
          /\ IF m.prefix
             THEN pc' = "wait" /\ k' = m.s /\ UNCHANGED <<main, local, nonInc, ran>>
             ELSE IF m.bind = ""
             THEN pc' = "main" /\ k' = m.s /\ UNCHANGED <<main, local, nonInc, ran>>
             ELSE /\ Run(m.s, m.bind, local)
                  /\ Effect(m.bind, local)
                  /\ pc' = IF HasCommand(m.bind) THEN "wait" ELSE "main"
      BY <1>3 DEF LocalMatch
    <2> HIDE DEF m
    <2>3. CASE m.prefix \/ m.bind = ""
      BY <2>1, <2>2, <2>3 DEF IInv, Found
    <2>4. CASE ~m.prefix /\ m.bind # ""
      <3>1. /\ Run(m.s, m.bind, local) /\ Effect(m.bind, local)
            /\ pc' \in {"wait", "main"}
        BY <2>2, <2>4
      <3>2. m.s \in KeyStack /\ m.bind \in Commands
        BY <2>1 DEF Found
      <3>3. k' \in KeyStack /\ ran' \in Seq(Entry)
        BY <2>0, <3>1, <3>2, RunKeeps
      <3>4. main' \in Mains /\ local' \in Locals \cup {""} /\ nonInc' \in BOOLEAN
        BY <2>0, <3>1, EffectKeeps
      <3> QED
        BY <2>2, <3>1, <3>3, <3>4 DEF IInv
    <2> QED
      BY <2>3, <2>4
  <1>4. CASE MainMatch
    <2> DEFINE m == MatchMain(k)
    <2>1. Found(m)
      BY MainFound DEF IInv
    <2>2. /\ typed' = typed /\ pc' = "wait"
          /\ \E l \in {local, IF local = "menu-select" THEN "" ELSE local} :
               IF m.prefix
               THEN k' = m.s /\ local' = l /\ UNCHANGED <<main, nonInc, ran>>
               ELSE Run(m.s, m.bind, main) /\ Effect(m.bind, l)
      BY <1>4 DEF MainMatch
    <2> HIDE DEF m
    <2>3. PICK l \in {local, ""} :
            IF m.prefix
            THEN k' = m.s /\ local' = l /\ UNCHANGED <<main, nonInc, ran>>
            ELSE Run(m.s, m.bind, main) /\ Effect(m.bind, l)
      BY <2>2
    <2>4. l \in Locals \cup {""}
      BY DEF IInv
    <2>5. CASE m.prefix
      BY <2>1, <2>2, <2>3, <2>4, <2>5 DEF IInv, Found
    <2>6. CASE ~m.prefix
      <3>1. Run(m.s, m.bind, main) /\ Effect(m.bind, l)
        BY <2>3, <2>6
      <3>2. m.s \in KeyStack /\ m.bind \in Commands /\ main \in Mains
        BY <2>1 DEF Found, IInv
      <3>3. k' \in KeyStack /\ ran' \in Seq(Entry)
        BY <3>1, <3>2, RunKeeps
      <3>4. main' \in Mains /\ local' \in Locals \cup {""} /\ nonInc' \in BOOLEAN
        BY <2>4, <3>1, EffectKeeps
      <3> QED
        BY <2>2, <3>3, <3>4 DEF IInv
    <2> QED
      BY <2>5, <2>6
  <1>5. CASE UNCHANGED vars
    BY <1>5 DEF vars, IInv
  <1> QED
    BY <1>1, <1>2, <1>3, <1>4, <1>5 DEF Next

\* The engine starts with these types.
LEMMA TypesStart ==
  ASSUME Init
  PROVE  IInv
  <1> DEFINE e == << >>
  <1>1. e \in Seq(KeySet) /\ e \in Seq(Entry) /\ "" \in Names
    BY EmptySeq DEF Names
  <1>2. /\ k = [buf |-> e, macroKeys |-> e, mustWait |-> FALSE, matched |-> e,
               active |-> "", prefixed |-> ""]
        /\ main \in StartMains /\ local = "" /\ nonInc = FALSE /\ pc = "wait"
        /\ typed = e /\ ran = e
    BY DEF Init
  <1> HIDE DEF e
  <1>3. k \in KeyStack
    BY <1>1, <1>2 DEF KeyStack
  <1>4. main \in Mains
    BY <1>2, DispatchAssumption
  <1> QED
    BY <1>1, <1>2, <1>3, <1>4 DEF IInv

(* Type correctness, for any keymaps: the stack only ever holds keys, the  *)
(* binds that the engine remembers come from the keymaps, and the keymaps  *)
(* it selects are those it has.                                            *)
THEOREM TypeCorrect == Spec => []TypeOK
  <1>1. Init => IInv
    BY TypesStart
  <1>2. IInv /\ [Next]_vars => IInv'
    BY TypesKept
  <1>3. IInv => TypeOK
    <2> SUFFICES ASSUME IInv PROVE TypeOK
      OBVIOUS
    <2>1. Stack(k) \in Seq(KeySet)
      BY StackTyped DEF IInv
    <2>2. k.active \in Names /\ k.prefixed \in Names
      BY DEF IInv, KeyStack
    <2> QED
      BY <2>1, <2>2 DEF IInv, TypeOK, Names
  <1> QED
    BY <1>1, <1>2, <1>3, PTL DEF Spec

-----------------------------------------------------------------------------
(* What the shell waits with                                               *)

\* The keys that wait are the prefix of a bind.
LEMMA OnPrefix ==
  ASSUME NEW s \in KeyStack, NEW b, NEW p, NEW r, ReadsOn(s, b, p, r)
  PROVE  IsPrefixed(r.buf, b) /\ r.buf = Stack(s) /\ r.matched = Stack(s)
  <1> DEFINE q == Stack(s)
  <1>1. q \in Seq(KeySet) /\ q # << >>
    BY StackTyped DEF ReadsOn
  <1> HIDE DEF q
  <1>2. Len(q) \in 1 .. Len(q) /\ SubSeq(q, 1, Len(q)) = q
    <2>1. Len(q) \in Nat \ {0}
      BY <1>1, EmptySeq
    <2> QED
      BY <1>1, <2>1, SubSeqFull
  <1>3. IsPrefixed(First(s, Len(q)), b)
    BY <1>2 DEF ReadsOn, q
  <1>4. r.buf = q /\ r.matched = q
    BY DEF ReadsOn, Held, q
  <1>5. First(s, Len(q)) = q
    BY <1>2 DEF First, q
  <1> QED
    BY <1>3, <1>4, <1>5 DEF q

\* A reading that needs no more keys leaves nothing to wait for.
LEMMA OnlyOnWaits ==
  ASSUME NEW s, NEW p, NEW r, r.mustWait = TRUE
  PROVE  /\ LocalReads(s, p, r) => ReadsOn(s, Binds[local], p, r) /\ p = TRUE
         /\ MainReads(s, p, r) => ReadsOn(s, MainBinds, p, r) /\ p = TRUE
  BY DEF LocalReads, MainReads, ReadsNone, ReadsWide, ReadsOn, ReadsBind, ReadsBack, ReadsKept,
         Same, Took, GaveBack

\* In the main keymap.
LEMMA MainWaits ==
  ASSUME NEW s \in KeyStack, main \in Mains, NEW m, m = MatchMain(s), m.s.mustWait = TRUE
  PROVE  /\ IsPrefixed(m.s.buf, Binds[main])
         /\ m.prefix = TRUE \/ (m.bind = "self-insert" /\ nonInc)
  <1>1. PICK p, r : /\ MainReads(s, p, r)
                    /\ \/ Inserts(m, p, r)
                       \/ p /\ ~nonInc /\ main \in Vi /\ r.matched = <<Esc>> /\ EscapedMain(m, r)
                       \/ ~(nonInc /\ p) /\ PlainMatch(m, p, r)
    BY MatchedMain
  <1>2. r \in KeyStack
    BY <1>1 DEF MainReads
  <1>3. /\ m.s.buf = r.buf /\ r.mustWait = TRUE
        /\ (m.bind = "self-insert" /\ nonInc) \/ m.prefix = p
    <2>1. CASE Inserts(m, p, r)
      <3>1. m.s = [r EXCEPT !.active = "self-insert"] /\ m.bind = "self-insert" /\ nonInc
        BY <2>1 DEF Inserts
      <3>2. m.s.buf = r.buf /\ m.s.mustWait = r.mustWait
        BY <1>2, <3>1 DEF KeyStack
      <3> QED
        BY <3>1, <3>2
    <2>2. CASE EscapedMain(m, r)
      BY <2>2 DEF EscapedMain
    <2>3. CASE PlainMatch(m, p, r)
      BY <2>3 DEF PlainMatch
    <2> QED
      BY <1>1, <2>1, <2>2, <2>3
  <1>4. ReadsOn(s, MainBinds, p, r) /\ p = TRUE
    BY <1>1, <1>3, OnlyOnWaits
  <1>5. IsPrefixed(r.buf, MainBinds)
    BY <1>4, OnPrefix
  <1>6. IsPrefixed(r.buf, Binds[main])
    BY <1>5, KeymapBinds DEF IsPrefixed
  <1> QED
    BY <1>3, <1>4, <1>6

\* In a local keymap: the escape key may be left to the main one.
LEMMA LocalWaits ==
  ASSUME NEW s \in KeyStack, local \in Locals, NEW m, m = MatchLocal(s), m.s.mustWait = TRUE
  PROVE  \/ m.prefix = TRUE /\ IsPrefixed(m.s.buf, Binds[local])
         \/ m.prefix = FALSE /\ m.bind = ""
         \/ m.prefix = FALSE /\ m.bind = "vi-movement-mode" /\ m.s.buf = <<Esc>>
  <1>1. PICK p, r : /\ LocalReads(s, p, r)
                    /\ IF r.matched = <<Esc>> /\ (p \/ ~HasCommand(r.active))
                       THEN EscapedLocal(m, r)
                       ELSE PlainMatch(m, p, r)
    BY MatchedLocal
  <1>2. CASE r.matched = <<Esc>> /\ (p \/ ~HasCommand(r.active))
    <2>1. EscapedLocal(m, r)
      BY <1>1, <1>2
    <2>2. /\ m.prefix = FALSE /\ m.bind \in {"", "vi-movement-mode"}
          /\ m.s.buf = r.buf /\ r.mustWait = TRUE
      BY <2>1 DEF EscapedLocal
    <2>3. ReadsOn(s, Binds[local], p, r)
      BY <1>1, <2>2, OnlyOnWaits
    <2>4. r.buf = <<Esc>>
      BY <1>2, <2>3, OnPrefix
    <2> QED
      BY <2>2, <2>4
  <1>3. CASE ~(r.matched = <<Esc>> /\ (p \/ ~HasCommand(r.active)))
    <2>1. m.s = r /\ m.prefix = p
      BY <1>1, <1>3 DEF PlainMatch
    <2>2. ReadsOn(s, Binds[local], p, r) /\ p = TRUE
      BY <1>1, <2>1, OnlyOnWaits
    <2>3. IsPrefixed(r.buf, Binds[local])
      BY <2>2, OnPrefix
    <2> QED
      BY <2>1, <2>2, <2>3
  <1> QED
    BY <1>2, <1>3

\* Every step keeps it.
LEMMA WaitsKept ==
  ASSUME IsPrefixed(<<Esc>>, Binds["vi-command"]), IInv, WaitsOnPrefix, [Next]_vars
  PROVE  WaitsOnPrefix'
  <1> SUFFICES ASSUME pc' = "wait", k'.mustWait = TRUE, k'.buf # << >>
               PROVE  \E m \in {main', local'} \ {""} : IsPrefixed(k'.buf, Binds[m])
    <2>1. IInv'
      BY TypesKept
    <2>2. k'.mustWait \in BOOLEAN
      BY <2>1 DEF IInv, KeyStack
    <2> QED
      BY <2>2 DEF WaitsOnPrefix, IsPrefixed
  <1>1. ASSUME NEW m, m \in {main', local'}, m \in Mains \cup Locals, IsPrefixed(k'.buf, Binds[m])
        PROVE  \E n \in {main', local'} \ {""} : IsPrefixed(k'.buf, Binds[n])
    <2>1. m # ""
      BY <1>1 DEF Mains, Vi, Locals
    <2> QED
      BY <1>1, <2>1
  <1>2. CASE Wait
    BY <1>2, WaitKeeps
  <1>3. CASE LocalSkip
    BY <1>3 DEF LocalSkip
  <1>4. CASE LocalMatch
    <2> DEFINE m == MatchLocal(k)
    <2>0. local \in Locals /\ k \in KeyStack
      BY <1>4, LocalThere DEF LocalMatch, IInv
    <2>1. Found(m)
      BY <2>0, LocalFound
    <2>2. IF m.prefix
          THEN pc' = "wait" /\ k' = m.s /\ UNCHANGED <<main, local, nonInc, ran>>
          ELSE IF m.bind = ""
          THEN pc' = "main" /\ k' = m.s /\ UNCHANGED <<main, local, nonInc, ran>>
          ELSE /\ Run(m.s, m.bind, local)
               /\ Effect(m.bind, local)
               /\ pc' = IF HasCommand(m.bind) THEN "wait" ELSE "main"
      BY <1>4 DEF LocalMatch
    <2>5. m = MatchLocal(k)
      OBVIOUS
    <2> HIDE DEF m
    <2>3. CASE m.prefix
      <3>1. k' = m.s /\ local' = local
        BY <2>2, <2>3
      <3>2. IsPrefixed(m.s.buf, Binds[local])
        BY <2>0, <2>3, <2>5, <3>1, LocalWaits
      <3> QED
        BY <1>1, <2>0, <3>1, <3>2
    <2>4. CASE ~m.prefix
      <3>1. m.bind # ""
        BY <2>2, <2>4
      <3>2. Run(m.s, m.bind, local) /\ Effect(m.bind, local)
        BY <2>2, <2>4, <3>1
      <3>3. k'.mustWait = m.s.mustWait /\ k'.buf = m.s.buf
        BY <2>0, <2>1, <3>2, RunKeeps DEF Found
      <3>4. m.bind = "vi-movement-mode" /\ m.s.buf = <<Esc>>
        BY <2>0, <2>4, <2>5, <3>1, <3>3, LocalWaits
      <3>5. main' = "vi-command"
        BY <2>0, <3>2, <3>4, EffectKeeps
      <3>6. main' \in Mains
        BY <3>5 DEF Mains, Vi
      <3> QED
        BY <1>1, <3>3, <3>4, <3>5, <3>6
    <2> QED
      BY <2>3, <2>4
  <1>5. CASE MainMatch
    <2> DEFINE m == MatchMain(k)
    <2>0. main \in Mains /\ k \in KeyStack
      BY DEF IInv
    <2>1. Found(m)
      BY <2>0, MainFound
    <2>2. PICK l \in {local, IF local = "menu-select" THEN "" ELSE local} :
            IF m.prefix
            THEN k' = m.s /\ local' = l /\ UNCHANGED <<main, nonInc, ran>>
            ELSE Run(m.s, m.bind, main) /\ Effect(m.bind, l)
      BY <1>5 DEF MainMatch
    <2>3. m = MatchMain(k)
      OBVIOUS
    <2>4. l \in Locals \cup {""}
      BY DEF IInv
    <2> HIDE DEF m
    <2>5. CASE m.prefix
      <3>1. k' = m.s /\ main' = main
        BY <2>2, <2>5
      <3>2. IsPrefixed(m.s.buf, Binds[main])
        BY <2>0, <2>3, <3>1, MainWaits
      <3> QED
        BY <1>1, <2>0, <3>1, <3>2
    <2>6. CASE ~m.prefix
      <3>1. Run(m.s, m.bind, main) /\ Effect(m.bind, l)
        BY <2>2, <2>6
      <3>2. k'.mustWait = m.s.mustWait /\ k'.buf = m.s.buf
        BY <2>0, <2>1, <3>1, RunKeeps DEF Found
      <3>3. IsPrefixed(m.s.buf, Binds[main]) /\ m.bind = "self-insert" /\ nonInc
        BY <2>0, <2>3, <2>6, <3>2, MainWaits
      <3>4. main' = main
        BY <2>4, <3>1, <3>3, EffectKeeps
      <3> QED
        BY <1>1, <2>0, <3>2, <3>3, <3>4
    <2> QED
      BY <2>5, <2>6
  <1>6. CASE UNCHANGED vars
    <2>1. k' = k /\ pc' = pc /\ main' = main /\ local' = local
      BY <1>6 DEF vars
    <2>2. k.buf # << >> => \E m \in {main, local} \ {""} : IsPrefixed(k.buf, Binds[m])
      BY <2>1 DEF WaitsOnPrefix
    <2> QED
      BY <2>1, <2>2
  <1> QED
    BY <1>2, <1>3, <1>4, <1>5, <1>6 DEF Next

(* The shell only blocks for input with the prefix of a bind on its stack, *)
(* for any keymaps in which an escape starts a bind of vi-command (as the  *)
(* default ones do): an escape that a local keymap has given to            *)
(* vi-movement-mode is not taken off the stack, and is waited with there.  *)
THEOREM WaitsForBinds ==
  ASSUME IsPrefixed(<<Esc>>, Binds["vi-command"])
  PROVE  Spec => []WaitsOnPrefix
  <1>1. Init => IInv /\ WaitsOnPrefix
    <2> SUFFICES ASSUME Init PROVE IInv /\ WaitsOnPrefix
      OBVIOUS
    <2>1. k.buf = << >>
      BY DEF Init
    <2> QED
      BY <2>1, TypesStart DEF WaitsOnPrefix
  <1>2. IInv /\ WaitsOnPrefix /\ [Next]_vars => (IInv /\ WaitsOnPrefix)'
    BY TypesKept, WaitsKept
  <1> QED
    BY <1>1, <1>2, PTL DEF Spec

-----------------------------------------------------------------------------
(* What the local keymap runs                                              *)

\* No bind extends another one.
PrefixFree(b) == \A x \in DOMAIN b : ~IsPrefixed(x, b)

\* A local keymap has no macro for the escape key.
EscapeRuns ==
  \A l \in Locals : <<Esc>> \in DOMAIN Binds[l] => HasCommand(Binds[l][<<Esc>>])

\* No bind of a local keymap extends another one, nor does any of a main keymap
\* that leads to one; the keys are single bytes.
Discrete ==
  /\ \A l \in Locals : PrefixFree(Binds[l])
  /\ \A m \in Mains : ActionsOf(m) \cap Entering # {} => PrefixFree(Binds[m])
  /\ Lead \notin KeySet \/ Trail \notin KeySet
  /\ EscapeRuns

\* The matchers always find keys on the stack.
Supplied == pc # "wait" => Stack(k) # << >>

\* The bind that is kept for a prefix is one of the main keymap, and none is
\* while there is a local keymap.
KeptByMain ==
  /\ local # "" => k.prefixed = "" /\ PrefixFree(Binds[main])
  /\ local = "" => k.prefixed \in ActionsOf(main) \cup {""}

\* The keys taken, then those left, are those that were there.
LEMMA TookAll ==
  ASSUME NEW s \in KeyStack, NEW n \in 1 .. Len(Stack(s)), NEW r, NEW a
  PROVE  /\ Took(s, r, n, a) => r.matched \o Stack(r) = Stack(s)
         /\ GaveBack(s, r, n, a) => Stack(r) # << >>
         /\ GaveBack(s, r, 1, a) => r.matched = s.matched /\ Stack(r) = Stack(s)
  <1> DEFINE q == Stack(s)
  <1>1. q \in Seq(KeySet) /\ Len(q) \in Nat
    <2>1. q \in Seq(KeySet)
      BY StackTyped
    <2> QED
      BY <2>1, LenProperties
  <1>2. n \in 0 .. Len(q) /\ n \in Nat \ {0} /\ n <= Len(q)
    BY <1>1
  <1>3. First(s, n) \o SubSeq(q, n + 1, Len(q)) = q
    BY <1>2, CutStack
  <1>4. Took(s, r, n, a) => r.matched \o Stack(r) = q
    BY <1>3 DEF Took
  <1>5. GaveBack(s, r, 1, a) => r.matched = s.matched /\ Stack(r) = SubSeq(q, 1, Len(q))
    BY DEF GaveBack
  <1>6. GaveBack(s, r, n, a) => Stack(r) = SubSeq(q, n, Len(q))
    BY DEF GaveBack
  <1>7. q = Stack(s)
    OBVIOUS
  <1> HIDE DEF q
  <1>8. SubSeq(q, 1, Len(q)) = q
    BY <1>1, SubSeqFull
  <1>9. SubSeq(q, n, Len(q)) # << >>
    <2>1. Len(SubSeq(q, n, Len(q))) = IF n <= Len(q) THEN Len(q) - n + 1 ELSE 0
      BY <1>1, <1>2, PartOfKeys
    <2>2. Len(SubSeq(q, n, Len(q))) # 0
      BY <1>1, <1>2, <2>1
    <2> DEFINE x == SubSeq(q, n, Len(q))
    <2>3. Len(x) # 0
      BY <2>2
    <2> HIDE DEF x
    <2>4. x # << >>
      BY <2>3, EmptySeq
    <2> QED
      BY <2>4 DEF x
  <1> QED
    BY <1>4, <1>5, <1>6, <1>7, <1>8, <1>9

\* The keys read are not empty, and no key is matched alone when two are read.
LEMMA FirstKeys ==
  ASSUME NEW s \in KeyStack, NEW b, NEW n, Stops(s, b, n)
  PROVE  n \in 1 .. Len(Stack(s)) /\ Len(First(s, n)) = n
  <1>1. n \in 1 .. Len(Stack(s))
    BY DEF Stops
  <1>2. n \in 0 .. Len(Stack(s))
    BY <1>1
  <1> QED
    BY <1>1, <1>2, CutStack

\* A local keymap with no bind leaves the keys, one at least, to the main one.
LEMMA LocalLeaves ==
  ASSUME EscapeRuns, NEW s \in KeyStack, local \in Locals, Stack(s) # << >>,
         NEW m, m = MatchLocal(s), m.prefix = FALSE, m.bind = ""
  PROVE  Stack(m.s) # << >>
  <1>1. PICK p, r : /\ LocalReads(s, p, r)
                    /\ IF r.matched = <<Esc>> /\ (p \/ ~HasCommand(r.active))
                       THEN EscapedLocal(m, r)
                       ELSE PlainMatch(m, p, r)
    BY MatchedLocal
  <1> DEFINE b == Binds[local]
             escape == r.matched = <<Esc>> /\ (p \/ ~HasCommand(r.active))
  <1>2. Stack(m.s) = Stack(r) /\ (~escape => r.active = "" /\ p = FALSE)
    BY <1>1 DEF EscapedLocal, PlainMatch
  <1>3. CASE ReadsNone(s, p, r)
    BY <1>3 DEF ReadsNone
  <1>4. CASE ReadsWide(s, p, r)
    <2>1. r.active = "self-insert" /\ p = FALSE
      BY <1>4 DEF ReadsWide, Took
    <2>2. HasCommand(r.active)
      BY <2>1, DispatchAssumption DEF HasCommand
    <2> QED
      BY <1>2, <2>1, <2>2
  <1>5. CASE ReadsOn(s, b, p, r)
    BY <1>2, <1>5 DEF ReadsOn, Held
  <1>6. CASE ReadsBind(s, b, p, r)
    <2>1. PICK n : Stops(s, b, n) /\ First(s, n) \in DOMAIN b /\ Took(s, r, n, b[First(s, n)])
      BY <1>6 DEF ReadsBind
    <2>2. r.active = b[First(s, n)] /\ r.matched = First(s, n) /\ p = FALSE
      BY <1>6, <2>1 DEF Took, ReadsBind
    <2>3. r.active # ""
      <3>1. local \in DOMAIN Binds /\ "" \notin Actions
        BY DispatchAssumption
      <3>2. Binding(b)
        BY <3>1, KeymapBinds
      <3> QED
        BY <2>1, <2>2, <3>1, <3>2 DEF Binding
    <2>4. ~escape
      BY <2>1, <2>2 DEF EscapeRuns
    <2> QED
      BY <1>2, <2>3, <2>4
  <1>7. CASE ReadsBack(s, b, p, r)
    <2>1. PICK n, a : Stops(s, b, n) /\ GaveBack(s, r, n, a)
      BY <1>7 DEF ReadsBack
    <2>2. Stack(r) # << >>
      BY <2>1, FirstKeys, TookAll
    <2> QED
      BY <1>2, <2>2
  <1> QED
    BY <1>1, <1>3, <1>4, <1>5, <1>6, <1>7 DEF LocalReads

\* There are keys after every step that is not the last of a round.
LEMMA FedKept ==
  ASSUME EscapeRuns, IInv, Supplied, [Next]_vars
  PROVE  Supplied'
  <1>1. CASE Wait
    BY <1>1, WaitKeeps DEF Supplied
  <1>2. CASE LocalSkip
    BY <1>2 DEF LocalSkip, Supplied
  <1>3. CASE LocalMatch
    <2> DEFINE m == MatchLocal(k)
    <2>0. local \in Locals /\ k \in KeyStack /\ Stack(k) # << >>
      BY <1>3, LocalThere DEF LocalMatch, IInv, Supplied
    <2>1. Found(m)
      BY <2>0, LocalFound
    <2>2. IF m.prefix
          THEN pc' = "wait" /\ k' = m.s /\ UNCHANGED <<main, local, nonInc, ran>>
          ELSE IF m.bind = ""
          THEN pc' = "main" /\ k' = m.s /\ UNCHANGED <<main, local, nonInc, ran>>
          ELSE /\ Run(m.s, m.bind, local)
               /\ Effect(m.bind, local)
               /\ pc' = IF HasCommand(m.bind) THEN "wait" ELSE "main"
      BY <1>3 DEF LocalMatch
    <2>3. m = MatchLocal(k)
      OBVIOUS
    <2> HIDE DEF m
    <2>4. CASE m.prefix
      BY <2>2, <2>4 DEF Supplied
    <2>5. CASE ~m.prefix /\ m.bind = ""
      <3>1. k' = m.s /\ m.prefix = FALSE
        BY <2>1, <2>2, <2>5 DEF Found
      <3>2. Stack(m.s) # << >>
        BY <2>0, <2>3, <2>5, <3>1, LocalLeaves
      <3> QED
        BY <3>1, <3>2 DEF Supplied
    <2>6. CASE ~m.prefix /\ m.bind # "" /\ HasCommand(m.bind)
      BY <2>2, <2>6 DEF Supplied
    <2>7. CASE ~m.prefix /\ m.bind # "" /\ ~HasCommand(m.bind)
      <3>1. m.bind \in DOMAIN MacroText
        BY <2>7 DEF HasCommand
      <3>2. Fed(m.bind) # << >>
        BY <3>1, DispatchAssumption DEF Fed
      <3>3. Run(m.s, m.bind, local)
        BY <2>2, <2>7
      <3>4. Fed(m.bind) \in Seq(KeySet) /\ Stack(k') = Stack(m.s) \o Fed(m.bind)
        BY <2>0, <2>1, <3>3, RunKeeps DEF Found
      <3>5. Stack(m.s) \in Seq(KeySet)
        BY <2>1, StackTyped DEF Found
      <3>6. Stack(k') # << >>
        BY <3>2, <3>4, <3>5, ConcatEqualIffEmpty
      <3> QED
        BY <3>6 DEF Supplied
    <2> QED
      BY <2>4, <2>5, <2>6, <2>7
  <1>4. CASE MainMatch
    BY <1>4 DEF MainMatch, Supplied
  <1>5. CASE UNCHANGED vars
    BY <1>5 DEF vars, Supplied
  <1> QED
    BY <1>1, <1>2, <1>3, <1>4, <1>5 DEF Next

\* When no bind extends another, none is kept.
LEMMA NothingKept ==
  ASSUME NEW s, NEW b, PrefixFree(b), NEW to, NEW a, KeptFrom(s, b, to, a),
         \A m \in 1 .. to : IsPrefixed(First(s, m), b)
  PROVE  a = s.prefixed
  BY DEF KeptFrom, PrefixFree

\* Nor in the part of a keymap that a search allows.
LEMMA MainPrefixFree ==
  ASSUME main \in Mains, PrefixFree(Binds[main])
  PROVE  PrefixFree(MainBinds)
  <1> SUFFICES ASSUME NEW x \in DOMAIN MainBinds, IsPrefixed(x, MainBinds) PROVE FALSE
    BY DEF PrefixFree
  <1>1. x \in DOMAIN Binds[main] /\ IsPrefixed(x, Binds[main])
    BY KeymapBinds DEF IsPrefixed
  <1> QED
    BY <1>1 DEF PrefixFree

\* The keys are single bytes.
LEMMA NothingWide ==
  ASSUME Lead \notin KeySet \/ Trail \notin KeySet, NEW s \in KeyStack, NEW p, NEW r
  PROVE  ~ReadsWide(s, p, r)
  <1> SUFFICES ASSUME ReadsWide(s, p, r) PROVE FALSE
    OBVIOUS
  <1> DEFINE q == s.buf
  <1>1. q \in Seq(KeySet) /\ Len(q) > 1 /\ q[1] = Lead /\ q[2] = Trail
    BY DEF ReadsWide, KeyStack
  <1> HIDE DEF q
  <1>2. Len(q) \in Nat
    BY <1>1, LenProperties
  <1>3. q[1] \in KeySet /\ q[2] \in KeySet
    BY <1>1, <1>2, ElementOfSeq
  <1> QED
    BY <1>1, <1>3

\* A local keymap runs its binds only, and keeps none.
LEMMA LocalRuns ==
  ASSUME Discrete, NEW s \in KeyStack, local \in Locals, Stack(s) # << >>, s.prefixed = "",
         NEW m, m = MatchLocal(s)
  PROVE  /\ m.s.prefixed = ""
         /\ m.prefix = FALSE /\ m.bind # "" =>
              m.s.matched = <<Esc>> \/ m.s.matched \in DOMAIN Binds[local]
  <1>1. PICK p, r : /\ LocalReads(s, p, r)
                    /\ IF r.matched = <<Esc>> /\ (p \/ ~HasCommand(r.active))
                       THEN EscapedLocal(m, r)
                       ELSE PlainMatch(m, p, r)
    BY MatchedLocal
  <1> DEFINE b == Binds[local]
  <1>2. CASE EscapedLocal(m, r) /\ r.matched = <<Esc>>
    BY <1>2 DEF EscapedLocal
  <1>3. CASE PlainMatch(m, p, r)
    <2>0. m.s = r /\ m.bind = r.active /\ m.prefix = p /\ PrefixFree(b)
      BY <1>3 DEF PlainMatch, Discrete
    <2>1. ~ReadsNone(s, p, r)
      BY DEF ReadsNone
    <2>2. ~ReadsWide(s, p, r)
      BY NothingWide DEF Discrete
    <2>3. CASE ReadsOn(s, b, p, r)
      <3>1. PICK a : KeptFrom(s, b, Len(Stack(s)), a) /\ Held(s, r, a)
        BY <2>3 DEF ReadsOn
      <3>2. a = s.prefixed
        BY <2>0, <2>3, <3>1, NothingKept DEF ReadsOn
      <3> QED
        BY <2>0, <2>3, <3>1, <3>2 DEF Held, ReadsOn
    <2>4. CASE ReadsBind(s, b, p, r)
      BY <2>0, <2>4 DEF ReadsBind, Took
    <2>5. CASE ReadsBack(s, b, p, r)
      <3>1. PICK n, a : Stops(s, b, n) /\ KeptFrom(s, b, n - 1, a) /\ GaveBack(s, r, n, a)
        BY <2>5 DEF ReadsBack
      <3>2. a = s.prefixed
        BY <2>0, <3>1, NothingKept DEF Stops
      <3> QED
        BY <2>0, <3>1, <3>2 DEF GaveBack
    <2> QED
      BY <1>1, <2>1, <2>2, <2>3, <2>4, <2>5 DEF LocalReads
  <1> QED
    BY <1>1, <1>2, <1>3

\* What the main keymap runs and keeps is its own.
LEMMA MainRuns ==
  ASSUME NEW s \in KeyStack, main \in Mains, Stack(s) # << >>, NEW m, m = MatchMain(s)
  PROVE  /\ m.s.prefixed \in ActionsOf(main) \cup {"", s.prefixed}
         /\ PrefixFree(Binds[main]) => m.s.prefixed \in {"", s.prefixed}
         /\ m.s.prefixed # "" => m.prefix = TRUE \/ m.bind = "self-insert"
         /\ m.bind \in ActionsOf(main) \cup {"", s.prefixed, "self-insert", "vi-movement-mode"} \/ m.prefix = TRUE
  <1>1. PICK p, r : /\ MainReads(s, p, r)
                    /\ \/ Inserts(m, p, r)
                       \/ p /\ ~nonInc /\ main \in Vi /\ r.matched = <<Esc>> /\ EscapedMain(m, r)
                       \/ ~(nonInc /\ p) /\ PlainMatch(m, p, r)
    BY MatchedMain
  <1> DEFINE b == MainBinds
  <1>0. /\ r \in KeyStack
        /\ \A x \in DOMAIN b : b[x] \in ActionsOf(main)
    <2>1. main \in DOMAIN Binds
      BY DispatchAssumption
    <2> QED
      BY <1>1, <2>1, KeymapBinds DEF MainReads
  <1>2. ASSUME NEW to, NEW a, KeptFrom(s, b, to, a) PROVE a \in ActionsOf(main) \cup {"", s.prefixed}
    BY <1>0, <1>2 DEF KeptFrom
  <1>3. /\ r.prefixed \in ActionsOf(main) \cup {"", s.prefixed}
        /\ PrefixFree(Binds[main]) => r.prefixed \in {"", s.prefixed}
        /\ r.prefixed # "" => p = TRUE
        /\ r.active \in ActionsOf(main) \cup {"", s.prefixed, "self-insert"} \/ p = TRUE
    <2> HIDE DEF b
    <2>1. CASE ReadsNone(s, p, r)
      BY <2>1 DEF ReadsNone
    <2>2. CASE ReadsWide(s, p, r)
      BY <2>2 DEF ReadsWide, Took
    <2>3. CASE ReadsOn(s, b, p, r)
      <3>1. PICK a : KeptFrom(s, b, Len(Stack(s)), a) /\ Held(s, r, a)
        BY <2>3 DEF ReadsOn
      <3>2. ASSUME PrefixFree(Binds[main]) PROVE a = s.prefixed
        <4>1. PrefixFree(b)
          BY <3>2, MainPrefixFree DEF b
        <4> QED
          BY <2>3, <3>1, <4>1, NothingKept DEF ReadsOn
      <3>3. r.prefixed = a /\ p = TRUE
        BY <2>3, <3>1 DEF Held, ReadsOn
      <3> QED
        BY <1>2, <3>1, <3>2, <3>3
    <2>4. CASE ReadsBind(s, b, p, r)
      BY <1>0, <2>4 DEF ReadsBind, Took
    <2>5. CASE ReadsKept(s, b, p, r)
      <3>1. PICK n, a : KeptFrom(s, b, n - 1, a) /\ Took(s, r, n, a)
        BY <2>5 DEF ReadsKept
      <3>2. r.active = a /\ r.prefixed = ""
        BY <3>1 DEF Took
      <3> QED
        BY <1>2, <3>1, <3>2
    <2> QED
      BY <1>1, <2>1, <2>2, <2>3, <2>4, <2>5 DEF MainReads, b
  <1>4. CASE Inserts(m, p, r)
    <2>1. m.s = [r EXCEPT !.active = "self-insert"] /\ m.bind = "self-insert"
      BY <1>4 DEF Inserts
    <2>2. m.s.prefixed = r.prefixed
      BY <1>0, <2>1 DEF KeyStack
    <2> QED
      BY <1>3, <2>1, <2>2
  <1>5. CASE EscapedMain(m, r)
    BY <1>5 DEF EscapedMain
  <1>6. CASE PlainMatch(m, p, r)
    BY <1>3, <1>6 DEF PlainMatch
  <1> QED
    BY <1>1, <1>4, <1>5, <1>6

\* One more command run.
LEMMA RunsLocalAppend ==
  ASSUME IInv, LocalRunsLocal, NEW e \in Entry, ran' = Append(ran, e),
         e.map \in Locals => e.keys = <<Esc>> \/ e.keys \in DOMAIN Binds[e.map]
  PROVE  LocalRunsLocal'
  <1> SUFFICES ASSUME NEW i \in 1 .. Len(ran'), ran'[i].map \in Locals
               PROVE  ran'[i].keys = <<Esc>> \/ ran'[i].keys \in DOMAIN Binds[ran'[i].map]
    BY DEF LocalRunsLocal
  <1>0. ran \in Seq(Entry) /\ Len(ran) \in Nat
    BY LenProperties DEF IInv
  <1>1. /\ Len(ran') = Len(ran) + 1
        /\ ran'[Len(ran) + 1] = e
        /\ \A j \in 1 .. Len(ran) : ran'[j] = ran[j]
    BY <1>0, AppendProperties
  <1>2. CASE i \in 1 .. Len(ran)
    BY <1>1, <1>2 DEF LocalRunsLocal
  <1>3. CASE i = Len(ran) + 1
    BY <1>1, <1>3
  <1> QED
    BY <1>0, <1>1, <1>2, <1>3

\* Every step keeps it.
LEMMA RunsLocalKept ==
  ASSUME Discrete, IInv, Supplied, KeptByMain, LocalRunsLocal, [Next]_vars
  PROVE  KeptByMain' /\ LocalRunsLocal'
  <1>1. CASE Wait
    <2>1. k'.prefixed = k.prefixed /\ UNCHANGED <<main, local, nonInc, ran>>
      BY <1>1, WaitKeeps
    <2> QED
      BY <2>1 DEF KeptByMain, LocalRunsLocal, PrefixFree, IsPrefixed, ActionsOf
  <1>2. CASE LocalSkip
    BY <1>2 DEF LocalSkip, KeptByMain, LocalRunsLocal, PrefixFree, IsPrefixed, ActionsOf
  <1>3. CASE LocalMatch
    <2> DEFINE m == MatchLocal(k)
    <2>0. /\ local \in Locals /\ k \in KeyStack /\ Stack(k) # << >>
          /\ k.prefixed = "" /\ PrefixFree(Binds[main]) /\ main \in Mains /\ local # ""
      BY <1>3, LocalThere DEF LocalMatch, IInv, Supplied, KeptByMain, Locals
    <2>1. Found(m)
      BY <2>0, LocalFound
    <2>2. IF m.prefix
          THEN pc' = "wait" /\ k' = m.s /\ UNCHANGED <<main, local, nonInc, ran>>
          ELSE IF m.bind = ""
          THEN pc' = "main" /\ k' = m.s /\ UNCHANGED <<main, local, nonInc, ran>>
          ELSE /\ Run(m.s, m.bind, local)
               /\ Effect(m.bind, local)
               /\ pc' = IF HasCommand(m.bind) THEN "wait" ELSE "main"
      BY <1>3 DEF LocalMatch
    <2>3. /\ m.s.prefixed = ""
          /\ m.prefix = FALSE /\ m.bind # "" =>
               m.s.matched = <<Esc>> \/ m.s.matched \in DOMAIN Binds[local]
      BY <2>0, LocalRuns
    <2> HIDE DEF m
    <2>4. CASE m.prefix \/ m.bind = ""
      <3>1. k' = m.s /\ UNCHANGED <<main, local, nonInc, ran>>
        BY <2>2, <2>4
      <3> QED
        BY <2>0, <2>3, <3>1 DEF KeptByMain, LocalRunsLocal, PrefixFree, IsPrefixed
    <2>5. CASE ~m.prefix /\ m.bind # ""
      <3> DEFINE e == [cmd |-> m.bind, keys |-> m.s.matched, map |-> local]
      <3>1. Run(m.s, m.bind, local) /\ Effect(m.bind, local)
        BY <2>2, <2>5
      <3>2. k'.prefixed = "" /\ ran' = Append(ran, e)
        BY <2>0, <2>1, <2>3, <3>1, RunKeeps DEF Found
      <3>3. main' # main => local' = ""
        BY <2>0, <3>1, EffectKeeps
      <3>4. KeptByMain'
        BY <2>0, <3>2, <3>3 DEF KeptByMain, PrefixFree, IsPrefixed
      <3>5. /\ e.map = local /\ e.keys = m.s.matched /\ e \in Entry
        BY <2>0, <2>1 DEF Entry, Found, KeyStack
      <3>6. e.keys = <<Esc>> \/ e.keys \in DOMAIN Binds[e.map]
        <4> HIDE DEF e
        <4> QED
          BY <2>1, <2>3, <2>5, <3>5 DEF Found
      <3> HIDE DEF e
      <3>7. LocalRunsLocal'
        BY <3>2, <3>5, <3>6, RunsLocalAppend
      <3> QED
        BY <3>4, <3>7
    <2> QED
      BY <2>4, <2>5
  <1>4. CASE MainMatch
    <2> DEFINE m == MatchMain(k)
    <2>0. main \in Mains /\ k \in KeyStack /\ Stack(k) # << >>
      BY <1>4 DEF IInv, MainMatch, Supplied
    <2>1. Found(m)
      BY <2>0, MainFound
    <2>2. PICK l \in {local, IF local = "menu-select" THEN "" ELSE local} :
            IF m.prefix
            THEN k' = m.s /\ local' = l /\ UNCHANGED <<main, nonInc, ran>>
            ELSE Run(m.s, m.bind, main) /\ Effect(m.bind, l)
      BY <1>4 DEF MainMatch
    <2>3. /\ m.s.prefixed \in ActionsOf(main) \cup {"", k.prefixed}
          /\ PrefixFree(Binds[main]) => m.s.prefixed \in {"", k.prefixed}
          /\ m.s.prefixed # "" => m.prefix = TRUE \/ m.bind = "self-insert"
          /\ m.bind \in ActionsOf(main) \cup {"", k.prefixed, "self-insert", "vi-movement-mode"} \/ m.prefix = TRUE
      BY <2>0, MainRuns
    <2>4. l \in Locals \cup {""} /\ l \in {local, ""}
      BY DEF IInv
    <2> HIDE DEF m
    <2>5. local # "" => m.s.prefixed = "" /\ PrefixFree(Binds[main])
      BY <2>3 DEF KeptByMain
    <2>6. local = "" => m.s.prefixed \in ActionsOf(main) \cup {""}
      BY <2>3 DEF KeptByMain
    <2>7. CASE m.prefix
      <3>1. k' = m.s /\ local' = l /\ UNCHANGED <<main, nonInc, ran>>
        BY <2>2, <2>7
      <3>2. LocalRunsLocal'
        BY <3>1 DEF LocalRunsLocal
      <3>3. KeptByMain'
        BY <2>4, <2>5, <2>6, <3>1 DEF KeptByMain, PrefixFree, IsPrefixed, ActionsOf
      <3> QED
        BY <3>2, <3>3
    <2>8. CASE ~m.prefix
      <3> DEFINE e == [cmd |-> m.bind, keys |-> m.s.matched, map |-> main]
      <3>1. Run(m.s, m.bind, main) /\ Effect(m.bind, l)
        BY <2>2, <2>8
      <3>2. k'.prefixed = m.s.prefixed /\ ran' = Append(ran, e)
        BY <2>0, <2>1, <3>1, RunKeeps DEF Found
      <3>3. /\ m.bind = "self-insert" /\ l = "" => main' = main /\ local' = l
            /\ main' # main => local' = ""
            /\ m.bind \notin Entering => local' \in {l, ""}
        BY <2>4, <3>1, EffectKeeps
      <3>4. /\ e.map = main /\ e \in Entry
        BY <2>0, <2>1 DEF Entry, Found, KeyStack
      <3>5. main \notin Locals
        BY <2>0 DEF Mains, Vi, Locals
      <3> HIDE DEF e
      <3>6. LocalRunsLocal'
        BY <3>2, <3>4, <3>5, RunsLocalAppend
      <3>7. ASSUME local' # "" PROVE k'.prefixed = "" /\ PrefixFree(Binds[main]) /\ main' = main
        <4>1. main' = main
          BY <3>3, <3>7
        <4>2. CASE local # ""
          BY <2>5, <3>2, <4>1, <4>2
        <4>3. CASE local = ""
          <5>1. l = "" /\ m.bind \in Entering
            BY <2>4, <3>3, <3>7, <4>3
          <5>2. m.bind \in ActionsOf(main)
            BY <2>1, <2>3, <2>8, <4>3, <5>1 DEF KeptByMain, Entering, Operators, Found
          <5>3. PrefixFree(Binds[main])
            BY <2>0, <5>1, <5>2 DEF Discrete
          <5>4. m.s.prefixed = ""
            BY <2>1, <2>3, <2>8, <5>1 DEF Entering, Operators, Found
          <5> QED
            BY <3>2, <4>1, <5>3, <5>4
        <4> QED
          BY <4>2, <4>3
      <3>8. ASSUME local' = "" PROVE k'.prefixed = "" \/ (main' = main /\ k'.prefixed \in ActionsOf(main))
        <4>1. CASE m.s.prefixed = ""
          BY <3>2, <4>1
        <4>2. CASE m.s.prefixed # ""
          <5>1. m.bind = "self-insert"
            BY <2>1, <2>3, <2>8, <4>2 DEF Found
          <5>2. main' = main /\ m.s.prefixed \in ActionsOf(main)
            BY <2>4, <2>5, <2>6, <3>3, <4>2, <5>1
          <5> QED
            BY <3>2, <5>2
        <4> QED
          BY <4>1, <4>2
      <3>9. KeptByMain'
        BY <3>7, <3>8 DEF KeptByMain, PrefixFree, IsPrefixed, ActionsOf
      <3> QED
        BY <3>6, <3>9
    <2> QED
      BY <2>7, <2>8
  <1>5. CASE UNCHANGED vars
    BY <1>5 DEF vars, KeptByMain, LocalRunsLocal, PrefixFree, IsPrefixed, ActionsOf
  <1> QED
    BY <1>1, <1>2, <1>3, <1>4, <1>5 DEF Next

(* A local keymap only ever runs its own binds, or handles the escape key, *)
(* whatever the main keymap was waiting for, when no bind extends another  *)
(* in the local keymaps and in the main ones that lead to them.            *)
THEOREM LocalRunsItsBinds ==
  ASSUME Discrete
  PROVE  Spec => []LocalRunsLocal
  <1> DEFINE J == IInv /\ Supplied /\ KeptByMain /\ LocalRunsLocal
  <1>1. Init => J
    <2> SUFFICES ASSUME Init PROVE J
      OBVIOUS
    <2>1. pc = "wait" /\ local = "" /\ k.prefixed = "" /\ Len(ran) = 0
      BY EmptySeq DEF Init
    <2>2. Supplied /\ KeptByMain
      BY <2>1 DEF Supplied, KeptByMain
    <2> DEFINE n == Len(ran)
    <2>3. n = 0
      BY <2>1
    <2> HIDE DEF n
    <2>4. \A i \in 1 .. n : FALSE
      BY <2>3
    <2>5. LocalRunsLocal
      BY <2>4 DEF LocalRunsLocal, n
    <2> QED
      BY <2>2, <2>5, TypesStart
  <1>2. J /\ [Next]_vars => J'
    <2> SUFFICES ASSUME J, [Next]_vars PROVE J'
      OBVIOUS
    <2>1. EscapeRuns
      BY DEF Discrete
    <2> QED
      BY <2>1, TypesKept, FedKept, RunsLocalKept
  <1> QED
    BY <1>1, <1>2, PTL DEF Spec

-----------------------------------------------------------------------------
(* Every key is dispatched once and in order                               *)

\* f holds, for each i, the first i sequences of q one after the other.
Joins(f, q) ==
  /\ f \in [1 .. Len(q) -> Seq(KeySet)]
  /\ f[1] = q[1]
  /\ \A i \in 2 .. Len(q) : f[i] = f[i - 1] \o q[i]

\* FlattenSeq puts the sequences one after the other.
LEMMA FlattenJoins ==
  ASSUME NEW q \in Seq(Seq(KeySet)), q # << >>
  PROVE  \E f : Joins(f, q) /\ FlattenSeq(q) = f[Len(q)]
  <1> DEFINE len == Len(q)
             S == Seq(KeySet)
             Turn(v, n) == IF n + 1 \in 1 .. len THEN v \o q[n + 1] ELSE v
             step == [x \in S \X Nat |-> Turn(x[1], x[2])]
             Def(f) == [i \in 1 .. len |-> IF i = 1 THEN q[i] ELSE f[i - 1] \o q[i]]
             flatten == CHOOSE f : f = Def(f)
  <1>1. len \in Nat /\ len # 0 /\ \A i \in 1 .. len : q[i] \in S
    BY EmptySeq, ElementOfSeq
  <1>2. FlattenSeq(q) = flatten[len]
    BY <1>1 DEF FlattenSeq
  <1>3. step \in [S \X Nat -> S]
    <2> SUFFICES ASSUME NEW v \in S, NEW n \in Nat PROVE Turn(v, n) \in S
      OBVIOUS
    <2>1. CASE n + 1 \in 1 .. len
      <3>1. q[n + 1] \in S
        BY <1>1, <2>1
      <3>2. v \o q[n + 1] \in S
        BY <3>1, ConcatProperties
      <3> QED
        BY <2>1, <3>2
    <2>2. CASE n + 1 \notin 1 .. len
      BY <2>2
    <2> QED
      BY <2>1, <2>2
  <1>4. PICK f0 \in [0 .. len - 1 -> S] : FoldsTo(f0, q[1], step, len - 1)
    <2>1. q[1] \in S /\ len - 1 \in Nat
      BY <1>1
    <2> HIDE DEF step, len, S
    <2> QED
      BY <1>3, <2>1, PrimitiveRecursion
  <1> DEFINE f == [i \in 1 .. len |-> f0[i - 1]]
  <1>5. f = Def(f)
    <2>1. ASSUME NEW i \in 1 .. len PROVE f[i] = Def(f)[i]
      <3>1. CASE i = 1
        BY <1>4, <3>1 DEF FoldsTo
      <3>2. CASE i # 1
        <4>1. i - 1 \in 1 .. len - 1 /\ i - 1 \in Nat /\ i - 1 - 1 \in 0 .. len - 1 /\ i - 1 \in 1 .. len
          BY <1>1, <3>2
        <4>2. f0[i - 1 - 1] \in S
          BY <1>4, <4>1
        <4>3. f0[i - 1] = step[<<f0[i - 1 - 1], i - 1>>]
          BY <1>4, <4>1 DEF FoldsTo
        <4>4. step[<<f0[i - 1 - 1], i - 1>>] = Turn(f0[i - 1 - 1], i - 1)
          <5> HIDE DEF Turn, S
          <5> QED
            BY <4>1, <4>2
        <4>5. Turn(f0[i - 1 - 1], i - 1) = f0[i - 1 - 1] \o q[i]
          <5>1. i - 1 + 1 = i
            OBVIOUS
          <5> HIDE DEF S
          <5> QED
            BY <5>1
        <4>6. f[i] = f0[i - 1] /\ f[i - 1] = f0[i - 1 - 1]
          BY <4>1
        <4>7. Def(f)[i] = f[i - 1] \o q[i]
          BY <3>2
        <4> QED
          BY <4>3, <4>4, <4>5, <4>6, <4>7
      <3> QED
        BY <3>1, <3>2
    <2>2. /\ DOMAIN f = 1 .. len /\ DOMAIN Def(f) = 1 .. len
          /\ f = [i \in 1 .. len |-> f[i]]
          /\ Def(f) = [i \in 1 .. len |-> Def(f)[i]]
      OBVIOUS
    <2> HIDE DEF Def, f
    <2> QED
      BY <2>1, <2>2
  <1>6. flatten = Def(flatten)
    <2> HIDE DEF Def, f
    <2> QED
      BY <1>5
  <1> HIDE DEF flatten
  <1>7. /\ DOMAIN flatten = 1 .. len /\ flatten[1] = q[1]
        /\ \A i \in 2 .. len : flatten[i] = flatten[i - 1] \o q[i]
    <2>1. /\ DOMAIN Def(flatten) = 1 .. len /\ Def(flatten)[1] = q[1]
          /\ \A i \in 2 .. len : Def(flatten)[i] = flatten[i - 1] \o q[i]
      <3>1. DOMAIN Def(flatten) = 1 .. len
        OBVIOUS
      <3>2. Def(flatten)[1] = q[1]
        BY <1>1
      <3>3. ASSUME NEW i \in 2 .. len PROVE Def(flatten)[i] = flatten[i - 1] \o q[i]
        <4>1. i \in 1 .. len /\ i # 1
          BY <1>1
        <4> QED
          BY <4>1
      <3> QED
        BY <3>1, <3>2, <3>3
    <2> HIDE DEF Def
    <2> QED
      BY <1>6, <2>1
  <1>8. \A i \in 1 .. len : flatten[i] \in S
    <2> DEFINE T == {n \in Nat : n + 1 <= len => flatten[n + 1] \in S}
    <2>1. 0 \in T
      BY <1>1, <1>7
    <2>2. ASSUME NEW n \in Nat, n \in T PROVE n + 1 \in T
      <3> SUFFICES ASSUME n + 1 + 1 <= len PROVE flatten[n + 1 + 1] \in S
        OBVIOUS
      <3>1. flatten[n + 1] \in S
        BY <1>1, <2>2
      <3>2. n + 1 + 1 \in 2 .. len /\ n + 1 + 1 - 1 = n + 1 /\ n + 1 + 1 \in 1 .. len
        BY <1>1
      <3>3. flatten[n + 1 + 1] = flatten[n + 1] \o q[n + 1 + 1] /\ q[n + 1 + 1] \in S
        BY <1>1, <1>7, <3>2
      <3> QED
        BY <3>1, <3>3, ConcatProperties
    <2> HIDE DEF T
    <2>3. Nat \subseteq T
      BY <2>1, <2>2, NatSetInduction
    <2>4. ASSUME NEW i \in 1 .. len PROVE flatten[i] \in S
      <3>1. i - 1 \in T /\ i - 1 + 1 = i /\ i <= len
        BY <1>1, <2>3
      <3> QED
        BY <3>1 DEF T
    <2> QED
      BY <2>4
  <1>9. flatten \in [1 .. len -> S]
    <2>1. flatten = [i \in 1 .. len |-> flatten[i]]
      <3>1. Def(flatten) = [i \in 1 .. len |-> Def(flatten)[i]]
        OBVIOUS
      <3> HIDE DEF Def
      <3> QED
        BY <1>6, <3>1
    <2> QED
      BY <1>8, <2>1
  <1> QED
    BY <1>2, <1>7, <1>9 DEF Joins

\* The keys given to each command.
KeysOf(r) == [i \in 1 .. Len(r) |-> r[i].keys]

\* They are a sequence of sequences of keys.
LEMMA KeysOfTyped ==
  ASSUME NEW r \in Seq(Entry)
  PROVE  /\ KeysOf(r) \in Seq(Seq(KeySet)) /\ Len(KeysOf(r)) = Len(r) /\ Len(r) \in Nat
         /\ \A i \in 1 .. Len(r) : KeysOf(r)[i] = r[i].keys
  <1>1. \A i \in 1 .. Len(r) : r[i].keys \in Seq(KeySet)
    <2> SUFFICES ASSUME NEW i \in 1 .. Len(r) PROVE r[i].keys \in Seq(KeySet)
      OBVIOUS
    <2>1. r[i] \in Entry
      BY ElementOfSeq
    <2> QED
      BY <2>1 DEF Entry
  <1> DEFINE n == Len(r)
             S == Seq(KeySet)
  <1>2. n \in Nat
    OBVIOUS
  <1>3. KeysOf(r) \in [1 .. n -> S]
    BY <1>1 DEF KeysOf
  <1>4. \A i \in 1 .. n : KeysOf(r)[i] = r[i].keys
    BY DEF KeysOf
  <1>5. KeysOf(r) \in Seq(S) /\ Len(KeysOf(r)) = n
    <2> HIDE DEF n, S
    <2> QED
      BY <1>2, <1>3
  <1> QED
    BY <1>2, <1>4, <1>5

\* One more command is given its keys.
LEMMA GivenAppend ==
  ASSUME NEW r \in Seq(Entry), NEW e \in Entry
  PROVE  /\ Given(r) \in Seq(KeySet)
         /\ Given(Append(r, e)) = Given(r) \o e.keys
  <1> DEFINE t == Append(r, e)
             n == Len(r)
             S == Seq(KeySet)
             q == KeysOf(r)
             u == KeysOf(t)
  <1>1. /\ t \in Seq(Entry) /\ Len(t) = n + 1 /\ t[n + 1] = e /\ n \in Nat
        /\ \A i \in 1 .. n : t[i] = r[i]
    BY AppendProperties, LenProperties
  <1>2. /\ q \in Seq(S) /\ Len(q) = n
        /\ \A i \in 1 .. n : q[i] = r[i].keys
    BY KeysOfTyped
  <1>3. /\ u \in Seq(S) /\ Len(u) = n + 1
        /\ \A i \in 1 .. n + 1 : u[i] = t[i].keys
    <2> HIDE DEF t
    <2> QED
      BY <1>1, KeysOfTyped
  <1>4. Given(r) = FlattenSeq(q) /\ Given(t) = FlattenSeq(u)
    BY DEF Given, KeysOf
  <1>5. e.keys \in S
    BY DEF Entry
  <1> SUFFICES Given(r) \in S /\ Given(t) = Given(r) \o e.keys
    OBVIOUS
  <1> HIDE DEF t, n, S, q, u
  <1>6. u # << >>
    <2>1. Len(u) # 0
      BY <1>1, <1>3
    <2> QED
      BY <2>1, EmptySeq
  <1>7. PICK g : Joins(g, u) /\ FlattenSeq(u) = g[Len(u)]
    BY <1>3, <1>6, FlattenJoins DEF S
  <1>8. g \in [1 .. n + 1 -> S] /\ g[1] = u[1] /\ \A i \in 2 .. n + 1 : g[i] = g[i - 1] \o u[i]
    BY <1>3, <1>7 DEF Joins, S
  <1>12. \A i \in 2 .. n + 1 : g[i] = g[i - 1] \o u[i]
    BY <1>8
  <1>9. u[n + 1] = e.keys /\ \A i \in 1 .. n : u[i] = q[i]
    <2>1. n + 1 \in 1 .. n + 1 /\ 1 .. n \subseteq 1 .. n + 1
      BY <1>1
    <2> QED
      BY <1>1, <1>2, <1>3, <2>1
  <1>10. CASE n = 0
    <2>1. FlattenSeq(q) = q
      BY <1>2, <1>10 DEF FlattenSeq
    <2>2. q = << >>
      BY <1>2, <1>10, EmptySeq
    <2>3. FlattenSeq(u) = e.keys
      <3>1. Len(u) = 1 /\ n + 1 = 1
        BY <1>1, <1>3, <1>10
      <3> QED
        BY <1>7, <1>8, <1>9, <3>1
    <2>4. << >> \in S /\ << >> \o e.keys = e.keys
      BY <1>5, EmptySeq, ConcatEmptySeq DEF S
    <2> QED
      BY <1>4, <2>1, <2>2, <2>3, <2>4
  <1>11. CASE n # 0
    <2>1. q # << >>
      <3>1. Len(q) # 0
        BY <1>2, <1>11
      <3> QED
        BY <3>1, EmptySeq
    <2>2. PICK f : Joins(f, q) /\ FlattenSeq(q) = f[Len(q)]
      BY <1>2, <2>1, FlattenJoins DEF S
    <2>3. f \in [1 .. n -> S] /\ f[1] = q[1] /\ \A i \in 2 .. n : f[i] = f[i - 1] \o q[i]
      BY <1>2, <2>2 DEF Joins, S
    <2>10. \A i \in 2 .. n : f[i] = f[i - 1] \o q[i]
      BY <2>3
    <2> DEFINE T == {m \in Nat : m + 1 <= n => f[m + 1] = g[m + 1]}
    <2>4. 0 \in T
      <3>1. 1 \in 1 .. n
        BY <1>1, <1>11
      <3> QED
        BY <1>8, <1>9, <2>3, <3>1
    <2>5. ASSUME NEW m \in Nat, m \in T PROVE m + 1 \in T
      <3> SUFFICES ASSUME m + 1 + 1 <= n PROVE f[m + 1 + 1] = g[m + 1 + 1]
        OBVIOUS
      <3>1. f[m + 1] = g[m + 1]
        BY <1>1, <2>5
      <3>2. /\ m + 1 + 1 \in 2 .. n /\ m + 1 + 1 \in 2 .. n + 1 /\ m + 1 + 1 - 1 = m + 1
            /\ m + 1 + 1 \in 1 .. n
        BY <1>1
      <3> DEFINE j == m + 1 + 1
                 p == m + 1
      <3>5. j \in 2 .. n /\ j \in 2 .. n + 1 /\ j - 1 = p /\ j \in 1 .. n
        BY <3>2
      <3>6. f[p] = g[p]
        BY <3>1
      <3> SUFFICES f[j] = g[j]
        OBVIOUS
      <3> HIDE DEF j, p
      <3>3. f[j] = f[j - 1] \o q[j]
        BY ONLY <2>10, <3>5
      <3>4. g[j] = g[j - 1] \o u[j]
        BY ONLY <1>12, <3>5
      <3>7. u[j] = q[j]
        BY ONLY <1>9, <3>5
      <3> QED
        BY ONLY <3>3, <3>4, <3>5, <3>6, <3>7
    <2> HIDE DEF T
    <2>6. Nat \subseteq T
      BY <2>4, <2>5, NatSetInduction
    <2>7. f[n] = g[n]
      <3>1. n - 1 \in T /\ n - 1 + 1 = n
        BY <1>1, <1>11, <2>6
      <3> QED
        BY <1>1, <3>1 DEF T
    <2>8. g[n + 1] = g[n] \o u[n + 1]
      <3>1. n + 1 \in 2 .. n + 1 /\ n + 1 - 1 = n
        BY <1>1, <1>11
      <3> DEFINE j == n + 1
      <3>2. j \in 2 .. n + 1 /\ j - 1 = n
        BY <1>1, <3>1
      <3> SUFFICES g[j] = g[n] \o u[j]
        OBVIOUS
      <3> HIDE DEF j
      <3>3. g[j] = g[j - 1] \o u[j]
        BY ONLY <1>12, <3>2
      <3> QED
        BY ONLY <3>2, <3>3
    <2>9. f[n] \in S
      <3>1. n \in 1 .. n
        BY <1>1, <1>11
      <3> QED
        BY <2>3, <3>1
    <2> QED
      BY <1>2, <1>3, <1>4, <1>7, <1>9, <2>2, <2>7, <2>8, <2>9
  <1> QED
    BY <1>10, <1>11

\* The binds of the local keymaps are single keys, and so are those that the
\* searches allow when the minibuffer of one may be open.
Flat ==
  /\ \A l \in Locals : \A x \in DOMAIN Binds[l] : Len(x) = 1
  /\ "non-incremental-reverse-search-history" \in Actions =>
       \A m \in Mains : \A x \in DOMAIN Binds[m] :
         Binds[m][x] \in isearchCommands \cup nonIsearchCommands => Len(x) = 1
  /\ EscapeRuns

\* The local keymap is tried first, when nothing was matched, and a minibuffer
\* was opened by its command.
Opened ==
  /\ pc = "local" => k.matched = << >>
  /\ nonInc => "non-incremental-reverse-search-history" \in Actions

\* Nothing is the prefix of a bind of one key.
LEMMA NoPrefix ==
  ASSUME NEW s \in KeyStack, NEW b, \A x \in DOMAIN b : Len(x) = 1,
         NEW n \in 1 .. Len(Stack(s))
  PROVE  ~IsPrefixed(First(s, n), b)
  <1>1. n \in 0 .. Len(Stack(s))
    OBVIOUS
  <1>2. Len(First(s, n)) = n
    BY <1>1, CutStack
  <1> HIDE DEF First
  <1>3. ASSUME NEW x \in DOMAIN b, Len(x) > Len(First(s, n)) PROVE FALSE
    BY <1>2, <1>3
  <1> QED
    BY <1>3 DEF IsPrefixed

\* So no key is waited for, and the first one is the last one read.
LEMMA ReadsOneKey ==
  ASSUME NEW s \in KeyStack, NEW b, \A x \in DOMAIN b : Len(x) = 1
  PROVE  /\ \A p, r : ~ReadsOn(s, b, p, r)
         /\ \A n : Stops(s, b, n) => n = 1
  <1> DEFINE N == Len(Stack(s))
  <1>1. N \in Nat
    BY StackTyped, LenProperties
  <1>2. ASSUME NEW p, NEW r, ReadsOn(s, b, p, r) PROVE FALSE
    <2>1. Stack(s) # << >> /\ \A m \in 1 .. N : IsPrefixed(First(s, m), b)
      BY <1>2 DEF ReadsOn
    <2>2. N # 0
      BY <2>1, StackTyped, EmptySeq
    <2>3. 1 \in 1 .. N
      BY <1>1, <2>2
    <2>4. ~IsPrefixed(First(s, 1), b)
      BY <2>3, NoPrefix
    <2> QED
      BY <2>1, <2>3, <2>4
  <1>3. ASSUME NEW n, Stops(s, b, n), n # 1 PROVE FALSE
    <2>1. n \in 1 .. N /\ \A m \in 1 .. n - 1 : IsPrefixed(First(s, m), b)
      BY <1>3 DEF Stops
    <2> HIDE DEF N
    <2>2. 1 \in 1 .. n - 1 /\ 1 \in 1 .. N
      BY <1>1, <1>3, <2>1
    <2>3. ~IsPrefixed(First(s, 1), b)
      BY <2>2, NoPrefix DEF N
    <2> QED
      BY <2>1, <2>2, <2>3
  <1> QED
    BY <1>2, <1>3

\* The local keymap gives a command the keys it takes, and takes none for no
\* command.
LEMMA LocalConserves ==
  ASSUME Flat, NEW s \in KeyStack, local \in Locals, Stack(s) # << >>, s.matched = << >>,
         NEW m, m = MatchLocal(s)
  PROVE  /\ m.prefix = FALSE
         /\ m.bind = "" => Stack(m.s) = Stack(s)
         /\ m.bind # "" => m.s.matched \o Stack(m.s) = Stack(s)
  <1>1. PICK p, r : /\ LocalReads(s, p, r)
                    /\ IF r.matched = <<Esc>> /\ (p \/ ~HasCommand(r.active))
                       THEN EscapedLocal(m, r)
                       ELSE PlainMatch(m, p, r)
    BY MatchedLocal
  <1> DEFINE b == Binds[local]
             escape == r.matched = <<Esc>> /\ (p \/ ~HasCommand(r.active))
  <1>2. \A x \in DOMAIN b : Len(x) = 1
    BY DEF Flat
  <1>3. ~ReadsNone(s, p, r)
    BY DEF ReadsNone
  <1>4. ~ReadsOn(s, b, p, r)
    BY <1>2, ReadsOneKey
  <1>5. CASE ReadsWide(s, p, r)
    <2>1. r.active = "self-insert" /\ p = FALSE /\ Took(s, r, 2, "self-insert")
      BY <1>5 DEF ReadsWide, Took
    <2>2. HasCommand(r.active)
      BY <2>1, DispatchAssumption DEF HasCommand
    <2>3. PlainMatch(m, p, r)
      BY <1>1, <2>1, <2>2
    <2>4. 2 \in 1 .. Len(Stack(s))
      BY <1>5, WideFits DEF ReadsWide
    <2>5. r.matched \o Stack(r) = Stack(s)
      BY <2>1, <2>4, TookAll
    <2> QED
      BY <2>1, <2>3, <2>5 DEF PlainMatch
  <1>6. CASE ReadsBind(s, b, p, r)
    <2>1. PICK n : Stops(s, b, n) /\ First(s, n) \in DOMAIN b /\ Took(s, r, n, b[First(s, n)])
      BY <1>6 DEF ReadsBind
    <2>2. r.active = b[First(s, n)] /\ r.matched = First(s, n) /\ p = FALSE
      BY <1>6, <2>1 DEF Took, ReadsBind
    <2>3. r.active # ""
      <3>1. local \in DOMAIN Binds /\ "" \notin Actions
        BY DispatchAssumption
      <3>2. Binding(b)
        BY <3>1, KeymapBinds
      <3> QED
        BY <2>1, <2>2, <3>1, <3>2 DEF Binding
    <2>4. ~escape
      BY <2>1, <2>2 DEF Flat, EscapeRuns
    <2>5. r.matched \o Stack(r) = Stack(s)
      BY <2>1, FirstKeys, TookAll
    <2> QED
      BY <1>1, <2>2, <2>3, <2>4, <2>5 DEF PlainMatch
  <1>7. CASE ReadsBack(s, b, p, r)
    <2>1. PICK n, a : Stops(s, b, n) /\ GaveBack(s, r, n, a)
      BY <1>7 DEF ReadsBack
    <2>2. n = 1 /\ n \in 1 .. Len(Stack(s)) /\ p = FALSE
      BY <1>2, <1>7, <2>1, ReadsOneKey, FirstKeys DEF ReadsBack
    <2>3. r.matched = << >> /\ Stack(r) = Stack(s)
      BY <2>1, <2>2, TookAll
    <2>4. << >> # <<Esc>>
      OBVIOUS
    <2>5. ~escape
      BY <2>3, <2>4
    <2>6. << >> \o Stack(s) = Stack(s)
      BY StackTyped, ConcatEmptySeq
    <2> QED
      BY <1>1, <2>2, <2>3, <2>5, <2>6 DEF PlainMatch
  <1> QED
    BY <1>1, <1>3, <1>4, <1>5, <1>6, <1>7 DEF LocalReads

\* The main keymap gives a command the keys it takes, and takes none to wait.
LEMMA MainConserves ==
  ASSUME Flat, NEW s \in KeyStack, main \in Mains, Stack(s) # << >>,
         nonInc => "non-incremental-reverse-search-history" \in Actions,
         NEW m, m = MatchMain(s)
  PROVE  /\ m.prefix = TRUE => Stack(m.s) = Stack(s)
         /\ m.prefix = FALSE => m.s.matched \o Stack(m.s) = Stack(s)
  <1>1. PICK p, r : /\ MainReads(s, p, r)
                    /\ \/ Inserts(m, p, r)
                       \/ p /\ ~nonInc /\ main \in Vi /\ r.matched = <<Esc>> /\ EscapedMain(m, r)
                       \/ ~(nonInc /\ p) /\ PlainMatch(m, p, r)
    BY MatchedMain
  <1> DEFINE b == MainBinds
  <1>2. r \in KeyStack /\ p \in BOOLEAN
    BY <1>1, ReadsBoolean DEF MainReads
  <1>3. ~ReadsNone(s, p, r)
    BY DEF ReadsNone
  <1>4. ASSUME nonInc PROVE \A x \in DOMAIN b : Len(x) = 1
    <2>1. \A x \in DOMAIN b : x \in DOMAIN Binds[main]
                              /\ Binds[main][x] \in isearchCommands \cup nonIsearchCommands
      BY <1>4 DEF MainBinds, Restrict
    <2> HIDE DEF b
    <2> QED
      BY <1>4, <2>1 DEF Flat
  <1>5. ASSUME Inserts(m, p, r)
        PROVE  nonInc /\ m.prefix = FALSE /\ m.s.matched = r.matched /\ Stack(m.s) = Stack(r)
    <2>1. m.s = [r EXCEPT !.active = "self-insert"]
      BY <1>5 DEF Inserts
    <2>2. m.s.matched = r.matched /\ m.s.buf = r.buf /\ m.s.macroKeys = r.macroKeys
      BY <1>2, <2>1 DEF KeyStack
    <2> QED
      BY <1>5, <2>2 DEF Stack, Inserts
  <1>6. ASSUME r.matched \o Stack(r) = Stack(s), p = FALSE
        PROVE  m.prefix = FALSE /\ m.s.matched \o Stack(m.s) = Stack(s)
    <2>1. CASE Inserts(m, p, r)
      BY <1>5, <1>6, <2>1
    <2>2. CASE PlainMatch(m, p, r)
      BY <1>6, <2>2 DEF PlainMatch
    <2> QED
      BY <1>1, <1>6, <2>1, <2>2
  <1> HIDE DEF b
  <1>7. CASE ReadsWide(s, p, r)
    <2>1. p = FALSE /\ Took(s, r, 2, "self-insert")
      BY <1>7 DEF ReadsWide
    <2>2. 2 \in 1 .. Len(Stack(s))
      BY <1>7, WideFits DEF ReadsWide
    <2>3. r.matched \o Stack(r) = Stack(s)
      BY <2>1, <2>2, TookAll
    <2> QED
      BY <1>6, <2>1, <2>3
  <1>8. CASE ReadsBind(s, b, p, r)
    <2>1. PICK n : Stops(s, b, n) /\ Took(s, r, n, b[First(s, n)])
      BY <1>8 DEF ReadsBind
    <2>2. r.matched \o Stack(r) = Stack(s) /\ p = FALSE
      BY <1>8, <2>1, FirstKeys, TookAll DEF ReadsBind
    <2> QED
      BY <1>6, <2>2
  <1>9. CASE ReadsKept(s, b, p, r)
    <2>1. PICK n, a : Stops(s, b, n) /\ Took(s, r, n, a)
      BY <1>9 DEF ReadsKept
    <2>2. r.matched \o Stack(r) = Stack(s) /\ p = FALSE
      BY <1>9, <2>1, FirstKeys, TookAll DEF ReadsKept
    <2> QED
      BY <1>6, <2>2
  <1>10. CASE ReadsOn(s, b, p, r)
    <2>1. p = TRUE /\ Stack(r) = Stack(s) /\ r.matched = Stack(s)
      BY <1>10 DEF ReadsOn, Held
    <2>2. ~nonInc
      BY <1>4, <1>10, ReadsOneKey
    <2>3. CASE r.matched = <<Esc>> /\ EscapedMain(m, r)
      <3>1. Stack(r) = <<Esc>> /\ Len(<<Esc>>) = 1
        BY <2>1, <2>3
      <3>2. Len(Stack(r)) = 1
        BY <3>1
      <3>3. m.prefix = FALSE /\ m.s.matched = Stack(s) /\ Stack(m.s) = << >>
        BY <2>1, <2>3, <3>2 DEF EscapedMain
      <3>4. Stack(s) \o << >> = Stack(s)
        BY StackTyped, ConcatEmptySeq
      <3> QED
        BY <3>3, <3>4
    <2>4. CASE PlainMatch(m, p, r)
      BY <2>1, <2>4 DEF PlainMatch
    <2> QED
      BY <1>1, <1>5, <2>2, <2>3, <2>4
  <1> QED
    BY <1>1, <1>3, <1>7, <1>8, <1>9, <1>10 DEF MainReads, b

\* The two ways of cutting four sequences that a command's run relates.
Regroups(x1, x2, x3, x4) == (x1 \o x2) \o (x3 \o x4) = (x1 \o (x2 \o x3)) \o x4

\* Four sequences one after the other.
LEMMA ConcatFour ==
  ASSUME NEW x1 \in Seq(KeySet), NEW x2 \in Seq(KeySet), NEW x3 \in Seq(KeySet),
         NEW x4 \in Seq(KeySet)
  PROVE  Regroups(x1, x2, x3, x4)
  <1>1. x2 \o x3 \in Seq(KeySet) /\ x3 \o x4 \in Seq(KeySet)
    BY JoinsTwo DEF Joined
  <1>2. Groups(x1, x2 \o x3, x4) /\ Groups(x1, x2, x3 \o x4) /\ Groups(x2, x3, x4)
    BY <1>1, ConcatThree
  <1>3. (x1 \o (x2 \o x3)) \o x4 = x1 \o ((x2 \o x3) \o x4)
    BY <1>2 DEF Groups
  <1>4. (x1 \o x2) \o (x3 \o x4) = x1 \o (x2 \o (x3 \o x4))
    BY <1>2 DEF Groups
  <1>5. (x2 \o x3) \o x4 = x2 \o (x3 \o x4)
    BY <1>2 DEF Groups
  <1> QED
    BY <1>3, <1>4, <1>5 DEF Regroups

\* Running a command with the keys taken.
LEMMA RunConserves ==
  ASSUME IInv, NEW s \in KeyStack, NEW cmd \in Commands, NEW map \in Mains \cup Locals,
         Run(s, cmd, map), s.matched \o Stack(s) = Stack(k)
  PROVE  Conserving
  <1> DEFINE e == [cmd |-> cmd, keys |-> s.matched, map |-> map]
             G == Given(ran)
             M == s.matched
             T == Stack(s)
             F == Fed(cmd)
  <1>1. F \in Seq(KeySet) /\ Stack(k') = T \o F /\ ran' = Append(ran, e)
    BY RunKeeps
  <1>2. e \in Entry /\ e.keys = M /\ e.cmd = cmd
    BY DEF Entry, KeyStack
  <1>3. ran \in Seq(Entry)
    BY DEF IInv
  <1>4. M \in Seq(KeySet) /\ T \in Seq(KeySet)
    BY StackTyped DEF KeyStack
  <1> HIDE DEF e
  <1>5. G \in Seq(KeySet) /\ Given(ran') = G \o M
    BY <1>1, <1>2, <1>3, GivenAppend
  <1>6. ran' # ran /\ Last(ran').cmd = cmd
    <2>1. Len(ran) \in Nat /\ Len(ran') = Len(ran) + 1 /\ ran'[Len(ran) + 1] = e
      BY <1>1, <1>2, <1>3, AppendProperties, LenProperties
    <2>2. Len(ran') # Len(ran)
      BY <2>1
    <2> QED
      BY <1>2, <2>1, <2>2 DEF Last
  <1>7. Stack(k) = M \o T
    OBVIOUS
  <1>8. (G \o M) \o (T \o F) = (G \o (M \o T)) \o F
    <2>1. F \in Seq(KeySet)
      BY <1>1
    <2>2. G \in Seq(KeySet)
      BY <1>5
    <2>3. M \in Seq(KeySet)
      BY <1>4
    <2>4. T \in Seq(KeySet)
      BY <1>4
    <2> HIDE DEF G, M, T, F
    <2>5. Regroups(G, M, T, F)
      BY <2>1, <2>2, <2>3, <2>4, ConcatFour
    <2> QED
      BY <2>5 DEF Regroups
  <1>9. Given(ran') \o Stack(k') = Given(ran) \o Stack(k) \o Fed(cmd)
    <2>1. Given(ran') \o Stack(k') = (G \o M) \o (T \o F)
      BY <1>1, <1>5
    <2>2. Given(ran) \o Stack(k) \o Fed(cmd) = (G \o (M \o T)) \o F
      BY <1>7
    <2> QED
      BY <1>8, <2>1, <2>2
  <1> QED
    BY <1>6, <1>9 DEF Conserving

\* A step that runs nothing and leaves the stack.
LEMMA StillConserves ==
  ASSUME IInv, ran' = ran, Stack(k') = Stack(k)
  PROVE  Conserving
  <1> DEFINE G == Given(ran)
             T == Stack(k)
  <1>1. T \in Seq(KeySet)
    BY StackTyped DEF IInv
  <1>2. G \in Seq(KeySet)
    <2>1. ran \in Seq(Entry)
      BY DEF IInv
    <2>2. Given(ran) \in Seq(KeySet)
      <3>1. [cmd |-> "", keys |-> << >>, map |-> "emacs"] \in Entry
        BY DEF Entry, Commands, Names, Mains
      <3> QED
        BY <2>1, <3>1, GivenAppend
    <2> QED
      BY <2>2
  <1>3. Given(ran') \o Stack(k') = G \o T
    OBVIOUS
  <1>4. G \o T \o << >> = G \o T
    <2> HIDE DEF G, T
    <2>1. G \o T \in Seq(KeySet)
      BY <1>1, <1>2, ConcatProperties
    <2> QED
      BY <2>1, ConcatEmptySeq
  <1> QED
    BY <1>3, <1>4 DEF Conserving

\* A step of the dispatcher takes from the stack what it gives to a command.
LEMMA StepConserves ==
  ASSUME Flat, IInv, Supplied, Opened, Next
  PROVE  Conserving
  <1>1. CASE Wait
    BY <1>1 DEF Wait, Conserving
  <1>2. CASE LocalSkip
    BY <1>2, StillConserves DEF LocalSkip
  <1>3. CASE LocalMatch
    <2> DEFINE m == MatchLocal(k)
    <2>0. local \in Locals /\ k \in KeyStack /\ Stack(k) # << >> /\ k.matched = << >>
      BY <1>3, LocalThere DEF LocalMatch, IInv, Supplied, Opened
    <2>1. Found(m)
      BY <2>0, LocalFound
    <2>2. IF m.prefix
          THEN pc' = "wait" /\ k' = m.s /\ UNCHANGED <<main, local, nonInc, ran>>
          ELSE IF m.bind = ""
          THEN pc' = "main" /\ k' = m.s /\ UNCHANGED <<main, local, nonInc, ran>>
          ELSE /\ Run(m.s, m.bind, local)
               /\ Effect(m.bind, local)
               /\ pc' = IF HasCommand(m.bind) THEN "wait" ELSE "main"
      BY <1>3 DEF LocalMatch
    <2>3. /\ m.prefix = FALSE
          /\ m.bind = "" => Stack(m.s) = Stack(k)
          /\ m.bind # "" => m.s.matched \o Stack(m.s) = Stack(k)
      BY <2>0, LocalConserves
    <2> HIDE DEF m
    <2>4. CASE m.bind = ""
      BY <2>2, <2>3, <2>4, StillConserves
    <2>5. CASE m.bind # ""
      <3>1. Run(m.s, m.bind, local)
        BY <2>2, <2>3, <2>5
      <3> QED
        BY <2>0, <2>1, <2>3, <2>5, <3>1, RunConserves DEF Found
    <2> QED
      BY <2>4, <2>5
  <1>4. CASE MainMatch
    <2> DEFINE m == MatchMain(k)
    <2>0. main \in Mains /\ k \in KeyStack /\ Stack(k) # << >>
      BY <1>4 DEF IInv, MainMatch, Supplied
    <2>1. Found(m)
      BY <2>0, MainFound
    <2>2. PICK l \in {local, IF local = "menu-select" THEN "" ELSE local} :
            IF m.prefix
            THEN k' = m.s /\ local' = l /\ UNCHANGED <<main, nonInc, ran>>
            ELSE Run(m.s, m.bind, main) /\ Effect(m.bind, l)
      BY <1>4 DEF MainMatch
    <2>3. /\ m.prefix = TRUE => Stack(m.s) = Stack(k)
          /\ m.prefix = FALSE => m.s.matched \o Stack(m.s) = Stack(k)
      BY <2>0, MainConserves DEF Opened
    <2> HIDE DEF m
    <2>4. CASE m.prefix = TRUE
      BY <2>2, <2>3, <2>4, StillConserves
    <2>5. CASE m.prefix = FALSE
      <3>1. Run(m.s, m.bind, main)
        BY <2>2, <2>5
      <3> QED
        BY <2>0, <2>1, <2>3, <2>5, <3>1, RunConserves DEF Found
    <2> QED
      BY <2>1, <2>4, <2>5 DEF Found
  <1> QED
    BY <1>1, <1>2, <1>3, <1>4 DEF Next

\* Every step keeps what the proof above uses of the state.
LEMMA OpenedKept ==
  ASSUME IInv, Opened, [Next]_vars
  PROVE  Opened'
  <1>0. Commands = Actions \cup {"", "self-insert", "vi-movement-mode", "emacs-editing-mode"}
    BY DEF Commands, Names
  <1>1. CASE Wait
    <2>1. k'.matched = << >> /\ UNCHANGED nonInc
      BY <1>1 DEF Wait, IInv, KeyStack
    <2> QED
      BY <2>1 DEF Opened
  <1>2. CASE LocalSkip
    BY <1>2 DEF LocalSkip, Opened
  <1>3. CASE LocalMatch
    <2> DEFINE m == MatchLocal(k)
    <2>0. local \in Locals /\ k \in KeyStack
      BY <1>3, LocalThere DEF LocalMatch, IInv
    <2>1. Found(m)
      BY <2>0, LocalFound
    <2>2. IF m.prefix
          THEN pc' = "wait" /\ k' = m.s /\ UNCHANGED <<main, local, nonInc, ran>>
          ELSE IF m.bind = ""
          THEN pc' = "main" /\ k' = m.s /\ UNCHANGED <<main, local, nonInc, ran>>
          ELSE /\ Run(m.s, m.bind, local)
               /\ Effect(m.bind, local)
               /\ pc' = IF HasCommand(m.bind) THEN "wait" ELSE "main"
      BY <1>3 DEF LocalMatch
    <2> HIDE DEF m
    <2>3. pc' # "local"
      BY <2>2
    <2>4. nonInc' => nonInc \/ m.bind = "non-incremental-reverse-search-history"
      <3>1. CASE m.prefix \/ m.bind = ""
        BY <2>2, <3>1
      <3>2. CASE ~m.prefix /\ m.bind # ""
        <4>1. Effect(m.bind, local)
          BY <2>2, <3>2
        <4> QED
          BY <2>0, <4>1, EffectKeeps
      <3> QED
        BY <3>1, <3>2
    <2> QED
      BY <1>0, <2>1, <2>3, <2>4 DEF Opened, Found
  <1>4. CASE MainMatch
    <2> DEFINE m == MatchMain(k)
    <2>0. main \in Mains /\ k \in KeyStack
      BY DEF IInv
    <2>1. Found(m)
      BY <2>0, MainFound
    <2>2. PICK l \in {local, IF local = "menu-select" THEN "" ELSE local} :
            IF m.prefix
            THEN k' = m.s /\ local' = l /\ UNCHANGED <<main, nonInc, ran>>
            ELSE Run(m.s, m.bind, main) /\ Effect(m.bind, l)
      BY <1>4 DEF MainMatch
    <2>3. pc' # "local" /\ l \in Locals \cup {""}
      BY <1>4 DEF MainMatch, IInv
    <2> HIDE DEF m
    <2>4. nonInc' => nonInc \/ m.bind = "non-incremental-reverse-search-history"
      <3>1. CASE m.prefix
        BY <2>2, <3>1
      <3>2. CASE ~m.prefix
        <4>1. Effect(m.bind, l)
          BY <2>2, <3>2
        <4> QED
          BY <2>3, <4>1, EffectKeeps
      <3> QED
        BY <3>1, <3>2
    <2> QED
      BY <1>0, <2>1, <2>3, <2>4 DEF Opened, Found
  <1>5. CASE UNCHANGED vars
    BY <1>5 DEF vars, Opened
  <1> QED
    BY <1>1, <1>2, <1>3, <1>4, <1>5 DEF Next

(* Every key is given to one command, in the order of the stack, and no    *)
(* key is given twice or dropped, for any reads, macros and binds, when    *)
(* the local keymaps and the minibuffers only bind single keys.            *)
THEOREM KeysDispatchedOnce ==
  ASSUME Flat
  PROVE  Spec => KeysConserved
  <1> DEFINE J == IInv /\ Supplied /\ Opened
  <1>1. Init => J
    BY TypesStart DEF Init, Supplied, Opened
  <1>2. J /\ [Next]_vars => J'
    BY TypesKept, FedKept, OpenedKept DEF Flat
  <1>3. J /\ [Next]_vars => [Conserving]_vars
    <2> SUFFICES ASSUME J, Next PROVE Conserving
      OBVIOUS
    <2> QED
      BY StepConserves
  <1> QED
    BY <1>1, <1>2, <1>3, PTL DEF Spec, KeysConserved

-----------------------------------------------------------------------------
(* What runs does not depend on how the input is cut into reads            *)

\* The first n of the keys q are the ones read: they start no longer bind.
ReadOf(q, b, n) ==
  /\ n \in 1 .. Len(q)
  /\ ~IsPrefixed(SubSeq(q, 1, n), b)
  /\ \A m \in 1 .. n - 1 : IsPrefixed(SubSeq(q, 1, m), b)

\* a is the bind of the most of the first keys of q that have one.
LongestOf(q, b, to, a) ==
  \/ a = "" /\ \A m \in 1 .. to : SubSeq(q, 1, m) \notin DOMAIN b
  \/ \E m \in 1 .. to :
       /\ SubSeq(q, 1, m) \in DOMAIN b /\ a = b[SubSeq(q, 1, m)]
       /\ \A j \in 1 .. to : SubSeq(q, 1, j) \in DOMAIN b => j <= m

\* a is what the first n of the keys q run.
RunBy(q, b, n, a) ==
  IF SubSeq(q, 1, n) \in DOMAIN b THEN a = b[SubSeq(q, 1, n)] ELSE LongestOf(q, b, n - 1, a)

\* The keys q start with those of the command e, which is what they run.
Fits(q, b, e) ==
  \E n : ReadOf(q, b, n) /\ e.keys = SubSeq(q, 1, n) /\ RunBy(q, b, n, e.cmd)

\* The keys to read are the first ones for which there is no longer bind.
LEMMA ReadOnce ==
  ASSUME NEW q \in Seq(KeySet), NEW b, NEW n, NEW m, ReadOf(q, b, n), ReadOf(q, b, m)
  PROVE  n = m
  <1>1. Len(q) \in Nat
    BY LenProperties
  <1>2. n \in Nat /\ m \in Nat /\ 1 <= n /\ 1 <= m
    BY <1>1 DEF ReadOf
  <1>3. ASSUME n < m PROVE FALSE
    <2>1. n \in 1 .. m - 1
      BY <1>2, <1>3
    <2> QED
      BY <2>1 DEF ReadOf
  <1>4. ASSUME m < n PROVE FALSE
    <2>1. m \in 1 .. n - 1
      BY <1>2, <1>4
    <2> QED
      BY <2>1 DEF ReadOf
  <1> QED
    BY <1>2, <1>3, <1>4

\* And there is one bind for the most of them.
LEMMA LongestOnce ==
  ASSUME NEW q, NEW b, NEW to, NEW a, NEW c, LongestOf(q, b, to, a), LongestOf(q, b, to, c)
  PROVE  a = c
  <1>1. CASE \A m \in 1 .. to : SubSeq(q, 1, m) \notin DOMAIN b
    BY <1>1 DEF LongestOf
  <1>2. CASE ~ \A m \in 1 .. to : SubSeq(q, 1, m) \notin DOMAIN b
    <2>1. PICK m \in 1 .. to :
            /\ SubSeq(q, 1, m) \in DOMAIN b /\ a = b[SubSeq(q, 1, m)]
            /\ \A j \in 1 .. to : SubSeq(q, 1, j) \in DOMAIN b => j <= m
      BY <1>2 DEF LongestOf
    <2>2. PICK n \in 1 .. to :
            /\ SubSeq(q, 1, n) \in DOMAIN b /\ c = b[SubSeq(q, 1, n)]
            /\ \A j \in 1 .. to : SubSeq(q, 1, j) \in DOMAIN b => j <= n
      BY <1>2 DEF LongestOf
    <2>3. m <= n /\ n <= m
      BY <2>1, <2>2
    <2>4. m = n
      BY <2>3
    <2> QED
      BY <2>1, <2>2, <2>4
  <1> QED
    BY <1>1, <1>2

\* The same of a stack.
LEMMA OfStack ==
  ASSUME NEW s, NEW b
  PROVE  /\ \A n : Stops(s, b, n) <=> ReadOf(Stack(s), b, n)
         /\ \A to, a : s.prefixed = "" => (KeptFrom(s, b, to, a) <=> LongestOf(Stack(s), b, to, a))
  BY DEF Stops, ReadOf, KeptFrom, LongestOf, First

\* dispatchKeys finds what fits all the keys there are.
LEMMA WholeFound ==
  ASSUME Lead \notin KeySet \/ Trail \notin KeySet, NEW s \in KeyStack, s.prefixed = "",
         NEW b, Binding(b), NEW e, Fits(Stack(s), b, e), NEW d, d = dispatchKeys(s, b)
  PROVE  ~d.prefix /\ d.read = e.keys /\ d.s.active = e.cmd
  <1> DEFINE q == Stack(s)
  <1>1. PICK n : ReadOf(q, b, n) /\ e.keys = SubSeq(q, 1, n) /\ RunBy(q, b, n, e.cmd)
    BY DEF Fits
  <1>2. q \in Seq(KeySet) /\ Len(q) \in Nat
    BY StackTyped, LenProperties
  <1>3. n \in 1 .. Len(q) /\ n \in Nat /\ 1 <= n /\ n <= Len(q) /\ ~IsPrefixed(SubSeq(q, 1, n), b)
    <2>1. n \in 1 .. Len(q) /\ ~IsPrefixed(SubSeq(q, 1, n), b)
      BY <1>1 DEF ReadOf
    <2>2. n \in Nat /\ 1 <= n /\ n <= Len(q)
      <3> HIDE DEF q
      <3> QED
        BY ONLY <1>2, <2>1
    <2> QED
      BY <2>1, <2>2
  <1>4. ~Idle(s, d)
    <2> SUFFICES ASSUME Stack(s) = << >> PROVE FALSE
      BY DEF Idle
    <2>1. Len(q) = 0
      BY EmptySeq
    <2> HIDE DEF q
    <2> QED
      BY ONLY <1>3, <2>1
  <1>5. ~Wide(s, d)
    <2> SUFFICES ASSUME Len(s.buf) > 1, s.buf[1] = Lead, s.buf[2] = Trail PROVE FALSE
      BY DEF Wide
    <2> DEFINE u == s.buf
    <2>1. u \in Seq(KeySet) /\ Len(u) > 1 /\ u[1] = Lead /\ u[2] = Trail
      BY DEF KeyStack
    <2> HIDE DEF u
    <2>2. Len(u) \in Nat
      BY <2>1, LenProperties
    <2>3. 1 \in 1 .. Len(u) /\ 2 \in 1 .. Len(u)
      BY ONLY <2>1, <2>2
    <2>4. u[1] \in KeySet /\ u[2] \in KeySet
      BY ONLY <2>1, <2>3, ElementOfSeq
    <2> QED
      BY <2>1, <2>4
  <1>6. ~Waiting(s, b, d)
    BY <1>3 DEF Waiting, First
  <1>7. \A a \in Names : makeMatch(Pop(s, n), a).active = a
    BY <1>3, MatchTyped DEF Matching
  <1>8. \A m : Stops(s, b, m) => m = n
    BY <1>1, <1>2, OfStack, ReadOnce
  <1>9. First(s, n) = SubSeq(q, 1, n)
    BY DEF First
  <1>10. CASE Bound(s, b, d)
    <2>1. PICK m : /\ Stops(s, b, m) /\ First(s, m) \in DOMAIN b
                   /\ Returns(d, makeMatch(Pop(s, m), b[First(s, m)]), FALSE, First(s, m), First(s, m))
      BY <1>10 DEF Bound
    <2>2. m = n
      BY <1>8, <2>1
    <2>3. b[First(s, n)] \in Names /\ First(s, n) \in DOMAIN b
      BY <2>1, <2>2 DEF Binding, Names
    <2>4. d.s.active = b[First(s, n)] /\ d.prefix = FALSE /\ d.read = First(s, n)
      BY <1>7, <2>1, <2>2, <2>3 DEF Returns
    <2>5. e.cmd = b[First(s, n)]
      BY <1>1, <1>9, <2>3 DEF RunBy
    <2> QED
      BY <1>1, <1>9, <2>4, <2>5
  <1>11. CASE Unbound(s, b, d)
    <2>1. PICK m, a : /\ Stops(s, b, m) /\ First(s, m) \notin DOMAIN b
                      /\ KeptFrom(s, b, m - 1, a)
                      /\ Returns(d, makeMatch(Pop(s, m), a), FALSE, First(s, m), First(s, m - 1))
      BY <1>11 DEF Unbound
    <2>2. m = n
      BY <1>8, <2>1
    <2>3. a \in Names
      BY <2>1, KeptTyped
    <2>4. d.s.active = a /\ d.prefix = FALSE /\ d.read = First(s, n)
      BY <1>7, <2>1, <2>2, <2>3 DEF Returns
    <2>5. LongestOf(q, b, n - 1, a)
      BY <2>1, <2>2, OfStack
    <2>6. LongestOf(q, b, n - 1, e.cmd)
      BY <1>1, <1>9, <2>1, <2>2 DEF RunBy
    <2>7. e.cmd = a
      <3> HIDE DEF q
      <3> QED
        BY <2>5, <2>6, LongestOnce
    <2> QED
      BY <1>1, <1>9, <2>4, <2>7
  <1> QED
    BY <1>4, <1>5, <1>6, <1>10, <1>11, Dispatched

\* What follows a sequence changes nothing of its first keys.
LEMMA CutLonger ==
  ASSUME NEW q \in Seq(KeySet), NEW c \in Seq(KeySet), NEW m \in 0 .. Len(q)
  PROVE  SubSeq(q \o c, 1, m) = SubSeq(q, 1, m)
  <1> DEFINE t == q \o c
  <1>1. Joined(t, q, c)
    BY JoinsTwo
  <1>2. Len(q) \in Nat /\ Len(c) \in Nat /\ m \in Nat /\ m <= Len(q)
    BY LenProperties
  <1> SUFFICES SubSeq(t, 1, m) = SubSeq(q, 1, m)
    OBVIOUS
  <1> HIDE DEF t
  <1>3. t \in Seq(KeySet) /\ Len(t) = Len(q) + Len(c) /\ \A i \in 1 .. Len(q) : t[i] = q[i]
    BY <1>1, <1>2 DEF Joined
  <1> DEFINE u == SubSeq(t, 1, m)
             v == SubSeq(q, 1, m)
  <1>4. m <= Len(t)
    BY <1>2, <1>3
  <1>5. u \in Seq(KeySet) /\ Len(u) = (IF 1 <= m THEN m - 1 + 1 ELSE 0)
        /\ \A i \in 1 .. m - 1 + 1 : u[i] = t[1 + i - 1]
    BY <1>2, <1>3, <1>4, PartOfKeys
  <1>6. v \in Seq(KeySet) /\ Len(v) = (IF 1 <= m THEN m - 1 + 1 ELSE 0)
        /\ \A i \in 1 .. m - 1 + 1 : v[i] = q[1 + i - 1]
    BY <1>2, PartOfKeys
  <1> SUFFICES u = v
    OBVIOUS
  <1> HIDE DEF u, v
  <1>7. Len(u) = m /\ Len(v) = m
    BY <1>2, <1>5, <1>6
  <1>8. ASSUME NEW i \in 1 .. m PROVE u[i] = v[i]
    <2>1. i \in 1 .. m - 1 + 1 /\ 1 + i - 1 = i /\ i \in 1 .. Len(q)
      BY <1>2
    <2> QED
      BY <1>3, <1>5, <1>6, <2>1
  <1> QED
    BY <1>5, <1>6, <1>7, <1>8, SeqEqual

\* So more keys change nothing of what fits the first ones.
LEMMA FitsLonger ==
  ASSUME NEW q \in Seq(KeySet), NEW c \in Seq(KeySet), NEW b, NEW e, Fits(q, b, e)
  PROVE  Fits(q \o c, b, e)
  <1> DEFINE t == q \o c
  <1>1. PICK n : ReadOf(q, b, n) /\ e.keys = SubSeq(q, 1, n) /\ RunBy(q, b, n, e.cmd)
    BY DEF Fits
  <1>2. Len(q) \in Nat /\ Len(c) \in Nat
    BY LenProperties
  <1>3. Len(t) = Len(q) + Len(c)
    BY JoinsTwo DEF Joined
  <1>4. \A m \in 0 .. Len(q) : SubSeq(t, 1, m) = SubSeq(q, 1, m)
    BY CutLonger
  <1> SUFFICES Fits(t, b, e)
    OBVIOUS
  <1> HIDE DEF t
  <1>5. n \in 1 .. Len(q) /\ n \in Int
    BY <1>1, <1>2 DEF ReadOf
  <1>6. n \in 1 .. Len(t) /\ n \in 0 .. Len(q) /\ \A m \in 1 .. n - 1 : m \in 0 .. Len(q)
    BY <1>2, <1>3, <1>5
  <1>7. SubSeq(t, 1, n) = SubSeq(q, 1, n) /\ \A m \in 1 .. n - 1 : SubSeq(t, 1, m) = SubSeq(q, 1, m)
    BY <1>4, <1>6
  <1>8. ReadOf(t, b, n)
    BY <1>1, <1>6, <1>7 DEF ReadOf
  <1>9. LongestOf(q, b, n - 1, e.cmd) => LongestOf(t, b, n - 1, e.cmd)
    BY <1>7 DEF LongestOf
  <1>10. RunBy(t, b, n, e.cmd)
    BY <1>1, <1>7, <1>9 DEF RunBy
  <1> QED
    BY <1>1, <1>7, <1>8, <1>10 DEF Fits

\* Reading adds the same keys to the stack and to what was typed.
LEMMA WaitReads ==
  ASSUME IInv, Wait
  PROVE  \E c \in Seq(KeySet) : Stack(k') = Stack(k) \o c /\ typed' = typed \o c
  <1> DEFINE e == << >>
             B == k.buf
             Q == k.macroKeys
  <1>1. B \in Seq(KeySet) /\ Q \in Seq(KeySet) /\ typed \in Seq(KeySet) /\ k \in KeyStack
    BY DEF IInv, KeyStack
  <1>2. e \in Seq(KeySet)
    BY EmptySeq
  <1>3. Stack(k) = B \o Q /\ Stack(k) \in Seq(KeySet)
    BY <1>1, StackTyped DEF Stack
  <1>4. CASE (k.buf # << >> /\ ~k.mustWait) \/ k.macroKeys # << >>
    <2>1. k' = [k EXCEPT !.matched = << >>] /\ typed' = typed
      BY <1>4 DEF Wait
    <2>2. k'.buf = B /\ k'.macroKeys = Q
      BY <1>1, <2>1 DEF KeyStack
    <2>3. Stack(k') = Stack(k)
      BY <2>2 DEF Stack
    <2>4. Stack(k) \o e = Stack(k) /\ typed \o e = typed
      BY <1>1, <1>3, ConcatEmptySeq
    <2> QED
      BY <1>2, <2>1, <2>3, <2>4
  <1>5. CASE ~((k.buf # << >> /\ ~k.mustWait) \/ k.macroKeys # << >>)
    <2>1. PICK chunk \in SeqOf(KeySet, MaxChunk) :
            /\ chunk # << >>
            /\ k' = [k EXCEPT !.matched = << >>, !.buf = @ \o chunk]
            /\ typed' = typed \o chunk
      BY <1>5 DEF Wait
    <2>2. chunk \in Seq(KeySet)
      BY ChunkTyped
    <2>3. k'.buf = B \o chunk /\ k'.macroKeys = e /\ Q = e
      BY <1>1, <1>5, <2>1 DEF KeyStack
    <2>4. Stack(k') = (B \o chunk) \o e /\ Stack(k) = B \o e
      BY <1>3, <2>3 DEF Stack
    <2> HIDE DEF B
    <2>5. B \o chunk \in Seq(KeySet)
      BY <1>1, <2>2, JoinsTwo DEF Joined
    <2>6. Stack(k') = B \o chunk
      BY <2>4, <2>5, ConcatEmptySeq
    <2>7. Stack(k) = B
      BY <1>1, <2>4, ConcatEmptySeq
    <2> QED
      BY <2>1, <2>2, <2>6, <2>7
  <1> QED
    BY <1>4, <1>5

\* The bind that is kept is the one of some of the keys on the stack, all of
\* which start longer ones.
KeptFor(s, b) ==
  s.prefixed # "" =>
    \E m \in 1 .. Len(Stack(s)) :
      First(s, m) \in DOMAIN b /\ \A j \in 1 .. m : IsPrefixed(First(s, j), b)

\* The binds of the main keymap in its context are some of its binds.
LEMMA PartOfMain ==
  ASSUME main \in Mains
  PROVE  /\ \A x \in DOMAIN MainBinds : x \in DOMAIN Binds[main]
         /\ \A x : IsPrefixed(x, MainBinds) => IsPrefixed(x, Binds[main])
  BY KeymapBinds DEF IsPrefixed

\* What the main keymap keeps is kept for its keys.
LEMMA MainKeepsFor ==
  ASSUME Flat, NEW s \in KeyStack, main \in Mains, Stack(s) # << >>,
         nonInc => "non-incremental-reverse-search-history" \in Actions,
         KeptFor(s, Binds[main]), NEW m, m = MatchMain(s)
  PROVE  m.s.prefixed # "" => m.prefix = TRUE /\ KeptFor(m.s, Binds[main])
  <1> SUFFICES ASSUME m.s.prefixed # "" PROVE m.prefix = TRUE /\ KeptFor(m.s, Binds[main])
    OBVIOUS
  <1>1. PICK p, r : /\ MainReads(s, p, r)
                    /\ \/ Inserts(m, p, r)
                       \/ p /\ ~nonInc /\ main \in Vi /\ r.matched = <<Esc>> /\ EscapedMain(m, r)
                       \/ ~(nonInc /\ p) /\ PlainMatch(m, p, r)
    BY MatchedMain
  <1> DEFINE b == MainBinds
  <1>2. r \in KeyStack
    BY <1>1 DEF MainReads
  <1>3. m.s.prefixed = r.prefixed /\ (p = TRUE => m.prefix = TRUE /\ m.s = r)
    <2>1. CASE Inserts(m, p, r)
      <3>1. m.s = [r EXCEPT !.active = "self-insert"] /\ nonInc
        BY <2>1 DEF Inserts
      <3>2. m.s.prefixed = r.prefixed
        BY <1>2, <3>1 DEF KeyStack
      <3>3. p # TRUE
        <4>1. \A x \in DOMAIN b : x \in DOMAIN Binds[main]
                                  /\ Binds[main][x] \in isearchCommands \cup nonIsearchCommands
          BY <3>1 DEF MainBinds, Restrict
        <4> HIDE DEF b
        <4>2. \A x \in DOMAIN b : Len(x) = 1
          BY <3>1, <4>1 DEF Flat
        <4>3. ~ReadsOn(s, b, p, r)
          BY <4>2, ReadsOneKey
        <4> QED
          BY <1>1, <4>3 DEF MainReads, ReadsNone, ReadsWide, ReadsBind, ReadsKept, b
      <3> QED
        BY <3>2, <3>3
    <2>2. CASE EscapedMain(m, r)
      BY <2>2 DEF EscapedMain
    <2>3. CASE PlainMatch(m, p, r)
      BY <2>3 DEF PlainMatch
    <2> QED
      BY <1>1, <2>1, <2>2, <2>3
  <1>4. ReadsOn(s, b, p, r)
    BY <1>1, <1>3 DEF MainReads, ReadsNone, ReadsWide, ReadsBind, ReadsKept, Same, Took
  <1>5. PICK a : KeptFrom(s, b, Len(Stack(s)), a) /\ Held(s, r, a)
    BY <1>4 DEF ReadsOn
  <1>6. /\ p = TRUE /\ Stack(r) = Stack(s) /\ r.prefixed = a
        /\ \A j \in 1 .. Len(Stack(s)) : IsPrefixed(First(s, j), b)
    BY <1>4, <1>5 DEF ReadsOn, Held
  <1>7. \A j : First(r, j) = First(s, j)
    BY <1>6 DEF First
  <1>8. \E n \in 1 .. Len(Stack(s)) :
          First(s, n) \in DOMAIN Binds[main] /\ \A j \in 1 .. n : IsPrefixed(First(s, j), Binds[main])
    <2>1. CASE a = s.prefixed
      BY <1>3, <1>6, <2>1 DEF KeptFor
    <2>2. CASE a # s.prefixed
      <3>1. PICK n \in 1 .. Len(Stack(s)) : First(s, n) \in DOMAIN b
        BY <1>5, <2>2 DEF KeptFrom
      <3>2. Len(Stack(s)) \in Nat
        BY StackTyped, LenProperties
      <3> DEFINE N == Len(Stack(s))
      <3>3. \A j \in 1 .. n : j \in 1 .. N
        <4> HIDE DEF N
        <4>1. N \in Nat /\ n \in 1 .. N
          BY <3>1, <3>2 DEF N
        <4> QED
          BY ONLY <4>1
      <3>4. \A j \in 1 .. n : IsPrefixed(First(s, j), Binds[main])
        BY <1>6, <3>3, PartOfMain
      <3>5. First(s, n) \in DOMAIN Binds[main]
        BY <3>1, PartOfMain
      <3> QED
        BY <3>4, <3>5
    <2> QED
      BY <2>1, <2>2
  <1>9. KeptFor(r, Binds[main])
    <2>1. \E n \in 1 .. Len(Stack(r)) :
            First(r, n) \in DOMAIN Binds[main] /\ \A j \in 1 .. n : IsPrefixed(First(r, j), Binds[main])
      <3>1. Len(Stack(r)) = Len(Stack(s))
        BY <1>6
      <3> QED
        BY ONLY <1>7, <1>8, <3>1
    <2> QED
      BY <2>1 DEF KeptFor
  <1> QED
    BY <1>3, <1>6, <1>9

\* The keys a bind is kept for are fewer than those read in the end.
LEMMA KeptBefore ==
  ASSUME NEW s \in KeyStack, NEW b, KeptFor(s, b), s.prefixed # "", NEW n, Stops(s, b, n)
  PROVE  \E m \in 1 .. n - 1 : First(s, m) \in DOMAIN b
  <1> DEFINE N == Len(Stack(s))
  <1>1. N \in Nat
    BY StackTyped, LenProperties
  <1>2. PICK m \in 1 .. N : First(s, m) \in DOMAIN b /\ \A j \in 1 .. m : IsPrefixed(First(s, j), b)
    BY DEF KeptFor
  <1>3. n \in 1 .. N /\ ~IsPrefixed(First(s, n), b)
    BY DEF Stops
  <1>4. n \notin 1 .. m
    BY <1>2, <1>3
  <1> HIDE DEF N
  <1>5. m \in 1 .. n - 1
    BY ONLY <1>1, <1>2, <1>3, <1>4
  <1> QED
    BY <1>2, <1>5

\* A command run by the main keymap fits the keys on the stack, but for an
\* escape that came alone.
LEMMA MainFits ==
  ASSUME Lead \notin KeySet \/ Trail \notin KeySet, NEW s \in KeyStack, main \in Mains,
         Stack(s) # << >>, nonInc = FALSE, local # "isearch", KeptFor(s, Binds[main]),
         NEW m, m = MatchMain(s), m.prefix = FALSE, NEW e, e.cmd = m.bind, e.keys = m.s.matched
  PROVE  (e.keys = <<Esc>> /\ main \in Vi) \/ Fits(Stack(s), Binds[main], e)
  <1> DEFINE b == Binds[main]
  <1>1. PICK p, r : /\ MainReads(s, p, r)
                    /\ \/ Inserts(m, p, r)
                       \/ p /\ ~nonInc /\ main \in Vi /\ r.matched = <<Esc>> /\ EscapedMain(m, r)
                       \/ ~(nonInc /\ p) /\ PlainMatch(m, p, r)
    BY MatchedMain
  <1>2. ~Inserts(m, p, r)
    BY DEF Inserts
  <1>3. MainBinds = b
    BY DEF MainBinds
  <1>4. CASE r.matched = <<Esc>> /\ main \in Vi /\ EscapedMain(m, r)
    BY <1>4 DEF EscapedMain
  <1>5. CASE PlainMatch(m, p, r)
    <2>1. p = FALSE /\ e.cmd = r.active /\ e.keys = r.matched
      BY <1>5 DEF PlainMatch
    <2>2. ~ReadsNone(s, p, r) /\ ~ReadsWide(s, p, r) /\ ~ReadsOn(s, b, p, r)
      BY <2>1, NothingWide DEF ReadsNone, ReadsOn
    <2> HIDE DEF b
    <2>3. CASE ReadsBind(s, b, p, r)
      <3>1. PICK n : Stops(s, b, n) /\ First(s, n) \in DOMAIN b /\ Took(s, r, n, b[First(s, n)])
        BY <2>3 DEF ReadsBind
      <3>2. ReadOf(Stack(s), b, n)
        BY <3>1, OfStack
      <3>3. e.keys = SubSeq(Stack(s), 1, n) /\ RunBy(Stack(s), b, n, e.cmd)
        BY <2>1, <3>1 DEF Took, RunBy, First
      <3> QED
        BY <3>2, <3>3 DEF Fits, b
    <2>4. CASE ReadsKept(s, b, p, r)
      <3>1. PICK n, a : /\ Stops(s, b, n) /\ First(s, n) \notin DOMAIN b
                        /\ KeptFrom(s, b, n - 1, a) /\ Took(s, r, n, a)
        BY <2>4 DEF ReadsKept
      <3>2. ReadOf(Stack(s), b, n)
        BY <3>1, OfStack
      <3>3. LongestOf(Stack(s), b, n - 1, a)
        <4>1. CASE s.prefixed = ""
          BY <3>1, <4>1, OfStack
        <4>2. CASE s.prefixed # ""
          <5>1. PICK j \in 1 .. n - 1 : First(s, j) \in DOMAIN b
            BY <3>1, <4>2, KeptBefore DEF b
          <5> QED
            BY <3>1, <5>1 DEF KeptFrom, LongestOf, First
        <4> QED
          BY <4>1, <4>2
      <3>4. e.keys = SubSeq(Stack(s), 1, n) /\ RunBy(Stack(s), b, n, e.cmd)
        BY <2>1, <3>1, <3>3 DEF Took, RunBy, First
      <3> QED
        BY <3>2, <3>4 DEF Fits, b
    <2> QED
      BY <1>1, <1>3, <2>2, <2>3, <2>4 DEF MainReads
  <1> QED
    BY <1>1, <1>2, <1>4, <1>5

\* So does a command run by a local keymap.
LEMMA LocalFits ==
  ASSUME Flat, Lead \notin KeySet \/ Trail \notin KeySet, NEW s \in KeyStack, local \in Locals,
         Stack(s) # << >>, s.matched = << >>, s.prefixed = "", NEW m, m = MatchLocal(s),
         m.bind # "", NEW e, e.cmd = m.bind, e.keys = m.s.matched
  PROVE  Fits(Stack(s), Binds[local], e)
  <1>1. PICK p, r : /\ LocalReads(s, p, r)
                    /\ IF r.matched = <<Esc>> /\ (p \/ ~HasCommand(r.active))
                       THEN EscapedLocal(m, r)
                       ELSE PlainMatch(m, p, r)
    BY MatchedLocal
  <1> DEFINE b == Binds[local]
             escape == r.matched = <<Esc>> /\ (p \/ ~HasCommand(r.active))
  <1>2. \A x \in DOMAIN b : Len(x) = 1
    BY DEF Flat
  <1>3. ~ReadsNone(s, p, r) /\ ~ReadsWide(s, p, r) /\ ~ReadsOn(s, b, p, r)
    BY <1>2, ReadsOneKey, NothingWide DEF ReadsNone
  <1>4. CASE ReadsBind(s, b, p, r)
    <2>1. PICK n : Stops(s, b, n) /\ First(s, n) \in DOMAIN b /\ Took(s, r, n, b[First(s, n)])
      BY <1>4 DEF ReadsBind
    <2>2. r.active = b[First(s, n)] /\ r.matched = First(s, n) /\ p = FALSE
      BY <1>4, <2>1 DEF Took, ReadsBind
    <2>3. ~escape
      BY <2>1, <2>2 DEF Flat, EscapeRuns
    <2>4. m.s = r /\ m.bind = r.active
      BY <1>1, <2>3 DEF PlainMatch
    <2> HIDE DEF b
    <2>5. ReadOf(Stack(s), b, n)
      BY <2>1, OfStack
    <2>6. e.keys = SubSeq(Stack(s), 1, n) /\ RunBy(Stack(s), b, n, e.cmd)
      BY <2>1, <2>2, <2>4 DEF RunBy, First
    <2> QED
      BY <2>5, <2>6 DEF Fits, b
  <1>5. CASE ReadsBack(s, b, p, r)
    <2>1. PICK n, a : Stops(s, b, n) /\ KeptFrom(s, b, n - 1, a) /\ GaveBack(s, r, n, a)
      BY <1>5 DEF ReadsBack
    <2>2. n = 1 /\ n \in 1 .. Len(Stack(s)) /\ p = FALSE
      BY <1>2, <1>5, <2>1, ReadsOneKey, FirstKeys DEF ReadsBack
    <2>3. r.matched = << >>
      BY <2>1, <2>2, TookAll
    <2>4. << >> # <<Esc>>
      OBVIOUS
    <2>5. m.bind = r.active
      BY <1>1, <2>3, <2>4 DEF PlainMatch
    <2>6. a = ""
      <3>1. ~ \E j \in 1 .. n - 1 : TRUE
        BY ONLY <2>2
      <3> QED
        BY <2>1, <3>1 DEF KeptFrom
    <2> QED
      BY <2>1, <2>5, <2>6 DEF GaveBack
  <1> QED
    BY <1>1, <1>3, <1>4, <1>5 DEF LocalReads

\* None of the first n runs starts a search or a macro.
Plain(r, n) == \A j \in 1 .. n : r[j].cmd \notin SearchStarts \cup DOMAIN MacroText

\* Until then no search is on, and what was typed is what was given to commands
\* and what is on the stack.
InStep ==
  Plain(ran, Len(ran)) =>
    nonInc = FALSE /\ local # "isearch" /\ Given(ran) \o Stack(k) = typed

\* The keys t that the i-th run and those after it are made of.
RestOf(t, r, i) == SubSeq(t, Len(Given(SubSeq(r, 1, i - 1))) + 1, Len(t))

\* The run is an escape that came alone.
Lone(e) == e.keys = <<Esc>> /\ e.map \in Vi

\* What was run fits all the keys t from its first key on.
FitIn(r, t) ==
  \A i \in 1 .. Len(r) :
    Plain(r, i - 1) => Lone(r[i]) \/ Fits(RestOf(t, r, i), Binds[r[i].map], r[i])

\* The keys are all that was typed.
AllFit == FitIn(ran, typed)

\* Only the commands that start a search start one.
LEMMA EffectStarts ==
  ASSUME NEW cmd, NEW l, Effect(cmd, l), cmd \notin SearchStarts, nonInc = FALSE, l # "isearch"
  PROVE  nonInc' = FALSE /\ local' # "isearch"
  <1>1. cmd # "reverse-search-history" /\ cmd # "non-incremental-reverse-search-history"
    BY DEF SearchStarts
  <1>2. nonInc' = FALSE
    BY <1>1 DEF Effect
  <1>3. local' \in {"menu-select", "vi-visual", "vi-opp", "", l}
    BY <1>1 DEF Effect
  <1> QED
    BY <1>2, <1>3

\* The rest of a sequence of keys of which the first ones were given.
LEMMA RestIs ==
  ASSUME NEW g \in Seq(KeySet), NEW t \in Seq(KeySet)
  PROVE  SubSeq(g \o t, Len(g) + 1, Len(g \o t)) = t
  <1> DEFINE w == g \o t
             n == Len(g)
             v == SubSeq(w, n + 1, Len(w))
  <1>1. n \in Nat /\ Len(t) \in Nat
    BY LenProperties
  <1>2. Joined(w, g, t)
    BY JoinsTwo
  <1> SUFFICES v = t
    OBVIOUS
  <1> HIDE DEF w
  <1>3. w \in Seq(KeySet) /\ Len(w) = n + Len(t) /\ Len(w) \in Nat
        /\ \A i \in 1 .. n + Len(t) : w[i] = IF i <= n THEN g[i] ELSE t[i - n]
    BY <1>1, <1>2 DEF Joined
  <1> HIDE DEF n
  <1>4. v \in Seq(KeySet) /\ Len(v) = (IF n + 1 <= Len(w) THEN Len(w) - (n + 1) + 1 ELSE 0)
        /\ \A i \in 1 .. Len(w) - (n + 1) + 1 : v[i] = w[n + 1 + i - 1]
    BY <1>1, <1>3, PartOfKeys
  <1> HIDE DEF v
  <1>5. Len(v) = Len(t)
    BY <1>1, <1>3, <1>4
  <1>6. ASSUME NEW i \in 1 .. Len(v) PROVE v[i] = t[i]
    <2>1. /\ i \in 1 .. Len(w) - (n + 1) + 1 /\ n + 1 + i - 1 = n + i
          /\ n + i \in 1 .. n + Len(t) /\ ~(n + i <= n) /\ n + i - n = i
      BY <1>1, <1>3, <1>5
    <2>2. v[i] = w[n + i]
      BY ONLY <1>4, <2>1
    <2> DEFINE j == n + i
    <2>3. j \in 1 .. n + Len(t) /\ ~(j <= n) /\ j - n = i
      BY <1>1, <1>3, <1>5
    <2> HIDE DEF j
    <2>4. w[j] = t[j - n]
      BY ONLY <1>3, <2>3
    <2> QED
      BY <2>2, <2>3, <2>4 DEF j
  <1> QED
    BY <1>4, <1>5, <1>6, SeqEqual

\* The rest of more keys.
LEMMA RestLonger ==
  ASSUME NEW t \in Seq(KeySet), NEW c \in Seq(KeySet), NEW f \in Nat, f <= Len(t)
  PROVE  /\ SubSeq(t, f + 1, Len(t)) \in Seq(KeySet)
         /\ SubSeq(t \o c, f + 1, Len(t \o c)) = SubSeq(t, f + 1, Len(t)) \o c
  <1> DEFINE g == SubSeq(t, 1, f)
             v == SubSeq(t, f + 1, Len(t))
  <1>1. Len(t) \in Nat
    BY LenProperties
  <1>2. g \in Seq(KeySet) /\ Len(g) = (IF 1 <= f THEN f - 1 + 1 ELSE 0)
    BY <1>1, PartOfKeys
  <1>3. Len(g) = f
    <2> HIDE DEF g
    <2> QED
      BY <1>2
  <1>4. v \in Seq(KeySet)
    BY <1>1, PartOfKeys
  <1>5. g \o v = t
    <2>1. 1 \in 1 .. Len(t) + 1 /\ f \in 1 - 1 .. Len(t) /\ Len(t) \in f .. Len(t)
      BY <1>1
    <2>2. SubSeq(t, 1, f) \o SubSeq(t, f + 1, Len(t)) = SubSeq(t, 1, Len(t))
      BY <2>1, ConcatAdjacentSubSeq
    <2> QED
      BY <2>2, SubSeqFull
  <1> SUFFICES SubSeq(t \o c, f + 1, Len(t \o c)) = v \o c
    BY <1>4
  <1> HIDE DEF g, v
  <1>6. v \o c \in Seq(KeySet)
    BY <1>4, JoinsTwo DEF Joined
  <1>7. (g \o v) \o c = g \o (v \o c)
    <2>1. Groups(g, v, c)
      BY <1>2, <1>4, ConcatThree
    <2> QED
      BY <2>1 DEF Groups
  <1> DEFINE y == v \o c
  <1>8. t \o c = g \o y /\ y \in Seq(KeySet)
    BY <1>5, <1>6, <1>7
  <1> SUFFICES SubSeq(g \o y, Len(g) + 1, Len(g \o y)) = y
    BY <1>3, <1>8
  <1> HIDE DEF y
  <1> QED
    BY <1>2, <1>8, RestIs

\* What fits the rest of what was typed still does when more is.
LEMMA FitsRest ==
  ASSUME NEW t \in Seq(KeySet), NEW c \in Seq(KeySet), NEW f \in Nat, NEW b, NEW e,
         Fits(SubSeq(t, f + 1, Len(t)), b, e)
  PROVE  Fits(SubSeq(t \o c, f + 1, Len(t \o c)), b, e)
  <1> DEFINE v == SubSeq(t, f + 1, Len(t))
  <1>1. Len(t) \in Nat
    BY LenProperties
  <1>2. f <= Len(t)
    <2> SUFFICES ASSUME Len(t) < f + 1 PROVE FALSE
      BY <1>1
    <2>1. v = << >>
      BY <1>1, SubSeqEmpty
    <2>2. PICK n : n \in 1 .. Len(v)
      BY DEF Fits, ReadOf
    <2>3. Len(v) = 0
      BY <2>1, EmptySeq
    <2> HIDE DEF v
    <2> QED
      BY <2>2, <2>3
  <1>3. v \in Seq(KeySet) /\ SubSeq(t \o c, f + 1, Len(t \o c)) = v \o c
    BY <1>2, RestLonger
  <1>4. Fits(v \o c, b, e)
    <2>1. Fits(v, b, e)
      OBVIOUS
    <2> HIDE DEF v
    <2> QED
      BY <1>3, <2>1, FitsLonger
  <1> QED
    BY <1>3, <1>4

\* What the first commands were given is a sequence of keys.
LEMMA GivenPart ==
  ASSUME NEW r \in Seq(Entry), NEW n \in 0 .. Len(r)
  PROVE  Given(SubSeq(r, 1, n)) \in Seq(KeySet) /\ Len(Given(SubSeq(r, 1, n))) \in Nat
  <1> DEFINE u == SubSeq(r, 1, n)
  <1>1. Len(r) \in Nat
    BY LenProperties
  <1>2. u \in Seq(Entry)
    <2>1. \A i \in 1 .. n : r[i] \in Entry
      BY <1>1, ElementOfSeq
    <2> QED
      BY <1>1, <2>1, SubSeqProperties
  <1>3. [cmd |-> "", keys |-> << >>, map |-> "emacs"] \in Entry
    <2>1. << >> \in Seq(KeySet) /\ "" \in Commands /\ "emacs" \in Mains
      BY DEF Commands, Names, Mains
    <2> QED
      BY ONLY <2>1 DEF Entry
  <1> SUFFICES Given(u) \in Seq(KeySet) /\ Len(Given(u)) \in Nat
    OBVIOUS
  <1> HIDE DEF u
  <1>4. Given(u) \in Seq(KeySet)
    BY <1>2, <1>3, GivenAppend
  <1> QED
    BY <1>4, LenProperties

\* One more command changes nothing of the ones before it.
LEMMA PartBefore ==
  ASSUME NEW r \in Seq(Entry), NEW e \in Entry, NEW n \in 0 .. Len(r)
  PROVE  SubSeq(Append(r, e), 1, n) = SubSeq(r, 1, n)
  <1> DEFINE t == Append(r, e)
  <1>1. Len(r) \in Nat /\ n \in Nat /\ n <= Len(r)
    BY LenProperties
  <1>2. t \in Seq(Entry) /\ Len(t) = Len(r) + 1 /\ \A i \in 1 .. Len(r) : t[i] = r[i]
    BY AppendProperties
  <1> SUFFICES SubSeq(t, 1, n) = SubSeq(r, 1, n)
    OBVIOUS
  <1> HIDE DEF t
  <1> DEFINE u == SubSeq(t, 1, n)
             v == SubSeq(r, 1, n)
  <1>3. \A i \in 1 .. n : t[i] = r[i] /\ r[i] \in Entry /\ t[i] \in Entry
    <2>1. \A i \in 1 .. n : i \in 1 .. Len(r)
      BY <1>1
    <2> QED
      BY <1>2, <2>1, ElementOfSeq
  <1>4. u \in Seq(Entry) /\ Len(u) = (IF 1 <= n THEN n - 1 + 1 ELSE 0)
        /\ \A i \in 1 .. n - 1 + 1 : u[i] = t[1 + i - 1]
    BY <1>1, <1>3, SubSeqProperties
  <1>5. v \in Seq(Entry) /\ Len(v) = (IF 1 <= n THEN n - 1 + 1 ELSE 0)
        /\ \A i \in 1 .. n - 1 + 1 : v[i] = r[1 + i - 1]
    BY <1>1, <1>3, SubSeqProperties
  <1> SUFFICES u = v
    OBVIOUS
  <1> HIDE DEF u, v
  <1>6. Len(u) = n /\ Len(v) = n
    BY <1>1, <1>4, <1>5
  <1>7. ASSUME NEW i \in 1 .. n PROVE u[i] = v[i]
    <2>1. i \in 1 .. n - 1 + 1 /\ 1 + i - 1 = i
      BY <1>1
    <2> QED
      BY <1>3, <1>4, <1>5, <2>1
  <1> QED
    BY <1>4, <1>5, <1>6, <1>7, SeqEqual

\* More keys are typed.
LEMMA FitsWait ==
  ASSUME IInv, AllFit, ran' = ran, NEW c \in Seq(KeySet), typed' = typed \o c
  PROVE  AllFit'
  <1> SUFFICES ASSUME NEW i \in 1 .. Len(ran), Plain(ran, i - 1)
               PROVE  Lone(ran[i]) \/ Fits(RestOf(typed', ran, i), Binds[ran[i].map], ran[i])
    BY DEF AllFit, FitIn
  <1>1. Lone(ran[i]) \/ Fits(RestOf(typed, ran, i), Binds[ran[i].map], ran[i])
    BY DEF AllFit, FitIn
  <1>2. ran \in Seq(Entry) /\ typed \in Seq(KeySet)
    BY DEF IInv
  <1> DEFINE f == Len(Given(SubSeq(ran, 1, i - 1)))
             b == Binds[ran[i].map]
             e == ran[i]
  <1>3. f \in Nat
    <2>1. Len(ran) \in Nat
      BY <1>2, LenProperties
    <2>2. i - 1 \in 0 .. Len(ran)
      BY <2>1
    <2> QED
      BY <1>2, <2>2, GivenPart
  <1>4. /\ RestOf(typed, ran, i) = SubSeq(typed, f + 1, Len(typed))
        /\ RestOf(typed', ran, i) = SubSeq(typed \o c, f + 1, Len(typed \o c))
    BY DEF RestOf
  <1>5. Fits(RestOf(typed, ran, i), b, e) => Fits(RestOf(typed', ran, i), b, e)
    <2> HIDE DEF f, b, e
    <2> QED
      BY <1>2, <1>3, <1>4, FitsRest
  <1> QED
    BY <1>1, <1>5

\* A command is run.
LEMMA FitsRun ==
  ASSUME IInv, InStep, AllFit, typed' = typed, NEW e \in Entry, ran' = Append(ran, e),
         Plain(ran, Len(ran)) => Lone(e) \/ Fits(Stack(k), Binds[e.map], e)
  PROVE  AllFit'
  <1> DEFINE r == Append(ran, e)
  <1>1. ran \in Seq(Entry) /\ typed \in Seq(KeySet) /\ Len(ran) \in Nat /\ k \in KeyStack
    BY LenProperties DEF IInv
  <1>2. Len(r) = Len(ran) + 1 /\ r[Len(ran) + 1] = e /\ \A i \in 1 .. Len(ran) : r[i] = ran[i]
    BY <1>1, AppendProperties
  <1> SUFFICES ASSUME NEW i \in 1 .. Len(r), Plain(r, i - 1)
               PROVE  Lone(r[i]) \/ Fits(RestOf(typed, r, i), Binds[r[i].map], r[i])
    BY DEF AllFit, FitIn
  <1>3. SubSeq(r, 1, i - 1) = SubSeq(ran, 1, i - 1)
    <2>1. i - 1 \in 0 .. Len(ran)
      BY <1>1, <1>2
    <2> QED
      BY <1>1, <2>1, PartBefore
  <1> HIDE DEF r
  <1>4. Plain(ran, i - 1)
    <2>1. \A j \in 1 .. i - 1 : j \in 1 .. Len(ran)
      BY <1>1, <1>2
    <2> QED
      BY <1>2, <2>1 DEF Plain
  <1>5. RestOf(typed, r, i) = RestOf(typed, ran, i)
    BY <1>3 DEF RestOf
  <1>6. CASE i \in 1 .. Len(ran)
    BY <1>2, <1>4, <1>5, <1>6 DEF AllFit, FitIn
  <1>7. CASE i = Len(ran) + 1
    <2>1. Plain(ran, Len(ran)) /\ SubSeq(ran, 1, i - 1) = ran
      <3>1. i - 1 = Len(ran)
        BY <1>1, <1>7
      <3> QED
        BY <1>1, <1>4, <3>1, SubSeqFull
    <2>2. Given(ran) \o Stack(k) = typed
      BY <2>1 DEF InStep
    <2>3. Given(ran) \in Seq(KeySet) /\ Stack(k) \in Seq(KeySet)
      BY <1>1, GivenAppend, StackTyped
    <2>4. RestOf(typed, ran, i) = Stack(k)
      <3> DEFINE g == Given(ran)
                 t == Stack(k)
      <3>1. g \in Seq(KeySet) /\ t \in Seq(KeySet) /\ typed = g \o t
        BY <2>2, <2>3
      <3>2. RestOf(typed, ran, i) = SubSeq(typed, Len(g) + 1, Len(typed))
        BY <2>1 DEF RestOf
      <3> SUFFICES RestOf(typed, ran, i) = t
        OBVIOUS
      <3> HIDE DEF g, t
      <3> QED
        BY <3>1, <3>2, RestIs
    <2> QED
      BY <1>2, <1>5, <1>7, <2>1, <2>4
  <1> QED
    BY <1>1, <1>2, <1>6, <1>7

\* The bind that the engine keeps is kept for the keys on its stack.
KeptHere == KeptFor(k, Binds[main])

\* One more run.
LEMMA PlainAppend ==
  ASSUME NEW r \in Seq(Entry), NEW e \in Entry, Plain(Append(r, e), Len(Append(r, e)))
  PROVE  Plain(r, Len(r)) /\ e.cmd \notin SearchStarts \cup DOMAIN MacroText
  <1> DEFINE t == Append(r, e)
  <1>1. Len(r) \in Nat
    BY LenProperties
  <1>2. Len(t) = Len(r) + 1 /\ t[Len(r) + 1] = e /\ \A i \in 1 .. Len(r) : t[i] = r[i]
    BY AppendProperties
  <1>3. \A j \in 1 .. Len(t) : t[j].cmd \notin SearchStarts \cup DOMAIN MacroText
    BY DEF Plain
  <1> HIDE DEF t
  <1>4. Len(r) + 1 \in 1 .. Len(t) /\ \A j \in 1 .. Len(r) : j \in 1 .. Len(t)
    BY <1>1, <1>2
  <1> QED
    BY <1>2, <1>3, <1>4 DEF Plain

\* The keys typed stay those given and those on the stack.
LEMMA TypedKept ==
  ASSUME IInv, InStep, Plain(ran, Len(ran)), Conserving, pc # "wait", typed' = typed,
         \/ ran' = ran
         \/ \E e \in Entry : ran' = Append(ran, e) /\ e.cmd \notin DOMAIN MacroText
  PROVE  Given(ran') \o Stack(k') = typed'
  <1> DEFINE fed == IF ran' = ran THEN << >> ELSE Fed(Last(ran').cmd)
  <1>1. Given(ran') \o Stack(k') = Given(ran) \o Stack(k) \o fed
    BY DEF Conserving
  <1>2. Given(ran) \o Stack(k) = typed
    BY DEF InStep
  <1>3. fed = << >>
    <2>1. CASE ran' = ran
      BY <2>1
    <2>2. CASE ran' # ran
      <3>1. PICK e \in Entry : ran' = Append(ran, e) /\ e.cmd \notin DOMAIN MacroText
        BY <2>2
      <3>2. ran \in Seq(Entry) /\ Len(ran) \in Nat
        BY LenProperties DEF IInv
      <3>3. Len(ran') = Len(ran) + 1 /\ ran'[Len(ran) + 1] = e
        BY <3>1, <3>2, AppendProperties
      <3>4. Last(ran').cmd = e.cmd
        BY <3>3 DEF Last
      <3> QED
        BY <2>2, <3>1, <3>4 DEF Fed
    <2> QED
      BY <2>1, <2>2
  <1>4. typed \o << >> = typed
    BY ConcatEmptySeq DEF IInv
  <1> QED
    BY <1>1, <1>2, <1>3, <1>4

\* Keys are read.
LEMMA WholeWait ==
  ASSUME IInv, KeptHere, InStep, AllFit, Wait
  PROVE  KeptHere' /\ InStep' /\ AllFit'
  <1>1. PICK c \in Seq(KeySet) : Stack(k') = Stack(k) \o c /\ typed' = typed \o c
    BY WaitReads
  <1>2. k'.prefixed = k.prefixed /\ main' = main /\ local' = local /\ nonInc' = nonInc /\ ran' = ran
    BY WaitKeeps
  <1> DEFINE q == Stack(k)
  <1>3. q \in Seq(KeySet) /\ ran \in Seq(Entry) /\ typed \in Seq(KeySet)
    BY StackTyped DEF IInv
  <1>4. KeptHere'
    <2> SUFFICES ASSUME k.prefixed # ""
                 PROVE  \E m \in 1 .. Len(Stack(k')) :
                          /\ First(k', m) \in DOMAIN Binds[main]
                          /\ \A j \in 1 .. m : IsPrefixed(First(k', j), Binds[main])
      BY <1>2 DEF KeptHere, KeptFor
    <2>1. PICK m \in 1 .. Len(q) :
            /\ First(k, m) \in DOMAIN Binds[main]
            /\ \A j \in 1 .. m : IsPrefixed(First(k, j), Binds[main])
      BY DEF KeptHere, KeptFor
    <2>2. Len(q) \in Nat /\ Len(c) \in Nat /\ Len(Stack(k')) = Len(q) + Len(c)
      <3>1. Joined(q \o c, q, c)
        BY <1>3, JoinsTwo
      <3>2. Len(q) \in Nat /\ Len(c) \in Nat
        BY <1>3, LenProperties
      <3> QED
        BY <1>1, <3>1, <3>2 DEF Joined
    <2>3. \A j \in 0 .. Len(q) : First(k', j) = First(k, j)
      <3>1. \A j \in 0 .. Len(q) : SubSeq(q \o c, 1, j) = SubSeq(q, 1, j)
        BY <1>3, CutLonger
      <3> QED
        BY <1>1, <3>1 DEF First
    <2>4. m \in 1 .. Len(Stack(k')) /\ m \in 0 .. Len(q) /\ \A j \in 1 .. m : j \in 0 .. Len(q)
      <3> DEFINE x == Len(q)
                 y == Len(Stack(k'))
                 z == Len(c)
      <3>1. x \in Nat /\ z \in Nat /\ y = x + z /\ m \in 1 .. x
        BY <2>1, <2>2
      <3> SUFFICES m \in 1 .. y /\ m \in 0 .. x /\ \A j \in 1 .. m : j \in 0 .. x
        OBVIOUS
      <3> HIDE DEF x, y, z
      <3> QED
        BY ONLY <3>1
    <2> QED
      BY <2>1, <2>3, <2>4
  <1>5. InStep'
    <2> SUFFICES ASSUME Plain(ran, Len(ran))
                 PROVE  nonInc = FALSE /\ local # "isearch" /\ Given(ran) \o Stack(k') = typed'
      BY <1>2 DEF InStep
    <2>1. nonInc = FALSE /\ local # "isearch" /\ Given(ran) \o q = typed
      BY DEF InStep
    <2> DEFINE g == Given(ran)
    <2>2. g \in Seq(KeySet)
      <3>1. [cmd |-> "", keys |-> << >>, map |-> "emacs"] \in Entry
        <4>1. << >> \in Seq(KeySet) /\ "" \in Commands /\ "emacs" \in Mains
          BY DEF Commands, Names, Mains
        <4> QED
          BY ONLY <4>1 DEF Entry
      <3> QED
        BY <1>3, <3>1, GivenAppend
    <2>3. g \o q = typed /\ Stack(k') = q \o c
      BY <1>1, <2>1
    <2> SUFFICES g \o Stack(k') = typed'
      BY <2>1
    <2> HIDE DEF g, q
    <2>4. Groups(g, q, c)
      BY <1>3, <2>2, ConcatThree
    <2> QED
      BY <1>1, <2>3, <2>4 DEF Groups
  <1>6. AllFit'
    BY <1>1, <1>2, FitsWait
  <1> QED
    BY <1>4, <1>5, <1>6

\* The local keymap is tried.
LEMMA WholeLocal ==
  ASSUME Flat, Discrete, IInv, Supplied, KeptByMain, Opened, InStep, AllFit, LocalMatch
  PROVE  KeptHere' /\ InStep' /\ AllFit'
  <1> DEFINE m == MatchLocal(k)
             e == [cmd |-> m.bind, keys |-> m.s.matched, map |-> local]
  <1>0. /\ local \in Locals /\ k \in KeyStack /\ Stack(k) # << >> /\ k.matched = << >>
        /\ k.prefixed = "" /\ pc # "wait" /\ typed' = typed /\ local # ""
    BY LocalThere DEF LocalMatch, IInv, Supplied, Opened, KeptByMain, Locals
  <1>1. Found(m)
    BY <1>0, LocalFound
  <1>2. IF m.prefix
        THEN pc' = "wait" /\ k' = m.s /\ UNCHANGED <<main, local, nonInc, ran>>
        ELSE IF m.bind = ""
        THEN pc' = "main" /\ k' = m.s /\ UNCHANGED <<main, local, nonInc, ran>>
        ELSE /\ Run(m.s, m.bind, local)
             /\ Effect(m.bind, local)
             /\ pc' = IF HasCommand(m.bind) THEN "wait" ELSE "main"
    BY DEF LocalMatch
  <1>3. m.prefix = FALSE
    BY <1>0, LocalConserves
  <1>4. m.s.prefixed = ""
    BY <1>0, LocalRuns
  <1>5. e.cmd = m.bind /\ e.keys = m.s.matched /\ e.map = local /\ e \in Entry
    BY <1>0, <1>1 DEF Entry, Found, KeyStack
  <1>6. m.bind # "" => Fits(Stack(k), Binds[local], e)
    <2>1. m = MatchLocal(k)
      OBVIOUS
    <2> HIDE DEF m, e
    <2> QED
      BY <1>0, <1>5, <2>1, LocalFits DEF Discrete
  <1>7. Conserving
    BY StepConserves DEF Next
  <1> HIDE DEF m
  <1>8. CASE m.bind = ""
    <2>1. k' = m.s /\ main' = main /\ local' = local /\ nonInc' = nonInc /\ ran' = ran
      BY <1>2, <1>3, <1>8
    <2>2. KeptHere'
      BY <1>4, <2>1 DEF KeptHere, KeptFor
    <2>3. AllFit'
      BY <1>0, <2>1 DEF AllFit
    <2>4. InStep'
      <3> SUFFICES ASSUME Plain(ran, Len(ran))
                   PROVE  nonInc = FALSE /\ local # "isearch" /\ Given(ran') \o Stack(k') = typed'
        BY <2>1 DEF InStep
      <3>1. Given(ran') \o Stack(k') = typed'
        BY <1>0, <1>7, <2>1, TypedKept
      <3> QED
        BY <3>1 DEF InStep
    <2> QED
      BY <2>2, <2>3, <2>4
  <1>9. CASE m.bind # ""
    <2>1. Run(m.s, m.bind, local) /\ Effect(m.bind, local)
      BY <1>2, <1>3, <1>9
    <2>2. ran' = Append(ran, e) /\ k'.prefixed = ""
      BY <1>0, <1>1, <1>4, <2>1, RunKeeps DEF Found
    <2> HIDE DEF e
    <2>3. KeptHere'
      BY <2>2 DEF KeptHere, KeptFor
    <2>4. AllFit'
      BY <1>0, <1>5, <1>6, <1>9, <2>2, FitsRun
    <2>5. InStep'
      <3> SUFFICES ASSUME Plain(ran', Len(ran'))
                   PROVE  nonInc' = FALSE /\ local' # "isearch" /\ Given(ran') \o Stack(k') = typed'
        BY DEF InStep
      <3>1. Plain(ran, Len(ran)) /\ e.cmd \notin SearchStarts \cup DOMAIN MacroText
        BY <1>5, <2>2, PlainAppend DEF IInv
      <3>2. nonInc = FALSE /\ local # "isearch"
        BY <3>1 DEF InStep
      <3>3. nonInc' = FALSE /\ local' # "isearch"
        BY <1>5, <2>1, <3>1, <3>2, EffectStarts
      <3>4. Given(ran') \o Stack(k') = typed'
        BY <1>0, <1>5, <1>7, <2>2, <3>1, TypedKept
      <3> QED
        BY <3>3, <3>4
    <2> QED
      BY <2>3, <2>4, <2>5
  <1> QED
    BY <1>8, <1>9

\* The main keymap is tried.
LEMMA WholeMain ==
  ASSUME Flat, Discrete, IInv, Supplied, KeptByMain, Opened, KeptHere, InStep, AllFit, MainMatch
  PROVE  KeptHere' /\ InStep' /\ AllFit'
  <1> DEFINE m == MatchMain(k)
             e == [cmd |-> m.bind, keys |-> m.s.matched, map |-> main]
  <1>0. /\ main \in Mains /\ k \in KeyStack /\ Stack(k) # << >> /\ pc # "wait" /\ typed' = typed
        /\ KeptFor(k, Binds[main])
        /\ nonInc => "non-incremental-reverse-search-history" \in Actions
    BY DEF IInv, MainMatch, Supplied, KeptHere, Opened
  <1>1. Found(m)
    BY <1>0, MainFound
  <1>2. PICK l \in {local, IF local = "menu-select" THEN "" ELSE local} :
          IF m.prefix
          THEN k' = m.s /\ local' = l /\ UNCHANGED <<main, nonInc, ran>>
          ELSE Run(m.s, m.bind, main) /\ Effect(m.bind, l)
    BY DEF MainMatch
  <1>3. l \in Locals \cup {""} /\ (local # "isearch" => l # "isearch")
    BY DEF IInv
  <1>4. m.s.prefixed # "" => m.prefix = TRUE /\ KeptFor(m.s, Binds[main])
    BY <1>0, MainKeepsFor
  <1>5. e.cmd = m.bind /\ e.keys = m.s.matched /\ e.map = main /\ e \in Entry
    BY <1>0, <1>1 DEF Entry, Found, KeyStack
  <1>6. ASSUME m.prefix = FALSE, Plain(ran, Len(ran))
        PROVE  Lone(e) \/ Fits(Stack(k), Binds[main], e)
    <2>1. m = MatchMain(k) /\ nonInc = FALSE /\ local # "isearch"
      BY <1>6 DEF InStep
    <2> HIDE DEF m, e
    <2>2. (e.keys = <<Esc>> /\ main \in Vi) \/ Fits(Stack(k), Binds[main], e)
      BY <1>0, <1>5, <1>6, <2>1, MainFits DEF Discrete
    <2> QED
      BY <1>5, <2>2 DEF Lone
  <1>7. Conserving
    BY StepConserves DEF Next
  <1> HIDE DEF m
  <1>8. CASE m.prefix = TRUE
    <2>1. k' = m.s /\ local' = l /\ main' = main /\ nonInc' = nonInc /\ ran' = ran
      BY <1>2, <1>8
    <2>2. KeptHere'
      BY <1>4, <2>1 DEF KeptHere, KeptFor
    <2>3. AllFit'
      BY <1>0, <2>1 DEF AllFit
    <2>4. InStep'
      <3> SUFFICES ASSUME Plain(ran, Len(ran))
                   PROVE  nonInc = FALSE /\ l # "isearch" /\ Given(ran') \o Stack(k') = typed'
        BY <2>1 DEF InStep
      <3>1. Given(ran') \o Stack(k') = typed'
        BY <1>0, <1>7, <2>1, TypedKept
      <3> QED
        BY <1>3, <3>1 DEF InStep
    <2> QED
      BY <2>2, <2>3, <2>4
  <1>9. CASE m.prefix = FALSE
    <2>1. Run(m.s, m.bind, main) /\ Effect(m.bind, l)
      BY <1>2, <1>9
    <2>2. ran' = Append(ran, e) /\ k'.prefixed = ""
      BY <1>0, <1>1, <1>4, <1>9, <2>1, RunKeeps DEF Found
    <2> HIDE DEF e
    <2>3. KeptHere'
      BY <2>2 DEF KeptHere, KeptFor
    <2>4. AllFit'
      BY <1>0, <1>5, <1>6, <1>9, <2>2, FitsRun
    <2>5. InStep'
      <3> SUFFICES ASSUME Plain(ran', Len(ran'))
                   PROVE  nonInc' = FALSE /\ local' # "isearch" /\ Given(ran') \o Stack(k') = typed'
        BY DEF InStep
      <3>1. Plain(ran, Len(ran)) /\ e.cmd \notin SearchStarts \cup DOMAIN MacroText
        BY <1>5, <2>2, PlainAppend DEF IInv
      <3>2. nonInc = FALSE /\ l # "isearch"
        BY <1>3, <3>1 DEF InStep
      <3>3. nonInc' = FALSE /\ local' # "isearch"
        BY <1>5, <2>1, <3>1, <3>2, EffectStarts
      <3>4. Given(ran') \o Stack(k') = typed'
        BY <1>0, <1>5, <1>7, <2>2, <3>1, TypedKept
      <3> QED
        BY <3>3, <3>4
    <2> QED
      BY <2>3, <2>4, <2>5
  <1> QED
    BY <1>1, <1>8, <1>9 DEF Found

\* Every step keeps it.
LEMMA WholeKept ==
  ASSUME Flat, Discrete, IInv, Supplied, KeptByMain, Opened, KeptHere, InStep, AllFit, [Next]_vars
  PROVE  KeptHere' /\ InStep' /\ AllFit'
  <1>1. CASE Wait
    BY <1>1, WholeWait
  <1>2. CASE LocalSkip
    BY <1>2 DEF LocalSkip, KeptHere, InStep, AllFit
  <1>3. CASE LocalMatch
    BY <1>3, WholeLocal
  <1>4. CASE MainMatch
    BY <1>4, WholeMain
  <1>5. CASE UNCHANGED vars
    BY <1>5 DEF vars, KeptHere, InStep, AllFit
  <1> QED
    BY <1>1, <1>2, <1>3, <1>4, <1>5 DEF Next

\* What fits is what dispatchKeys finds.
LEMMA FitIsSame ==
  ASSUME Lead \notin KeySet \/ Trail \notin KeySet, IInv, AllFit
  PROVE  SameAsWhole
  <1> SUFFICES ASSUME NEW i \in 1 .. Len(ran),
                      \A j \in 1 .. i - 1 : ran[j].cmd \notin SearchStarts \cup DOMAIN MacroText,
                      NEW d,
                      d = dispatchKeys([k EXCEPT !.buf = RestOf(typed, ran, i),
                                                 !.macroKeys = << >>, !.prefixed = ""],
                                       Binds[ran[i].map])
               PROVE  \/ ran[i].keys = <<Esc>> /\ ran[i].map \in Vi
                      \/ ~d.prefix /\ d.read = ran[i].keys /\ d.s.active = ran[i].cmd
    BY DEF SameAsWhole, RestOf
  <1> DEFINE e == ran[i]
             q == RestOf(typed, ran, i)
             s == [k EXCEPT !.buf = q, !.macroKeys = << >>, !.prefixed = ""]
             b == Binds[e.map]
  <1>1. ran \in Seq(Entry) /\ Len(ran) \in Nat /\ k \in KeyStack /\ typed \in Seq(KeySet)
    BY LenProperties DEF IInv
  <1>2. e \in Entry
    BY <1>1, ElementOfSeq
  <1>3. Lone(e) \/ Fits(q, b, e)
    BY DEF AllFit, FitIn, Plain
  <1>4. q \in Seq(KeySet)
    <2>1. i - 1 \in 0 .. Len(ran)
      BY <1>1
    <2> DEFINE f == Len(Given(SubSeq(ran, 1, i - 1)))
    <2>2. f \in Nat
      BY <1>1, <2>1, GivenPart
    <2>3. q = SubSeq(typed, f + 1, Len(typed))
      BY DEF RestOf
    <2>4. Len(typed) \in Nat
      BY <1>1, LenProperties
    <2> HIDE DEF f, q
    <2> QED
      BY <1>1, <2>2, <2>3, <2>4, PartOfKeys
  <1>5. Binding(b)
    <2>1. e.map \in DOMAIN Binds
      BY <1>2, DispatchAssumption DEF Entry
    <2> QED
      BY <2>1, KeymapBinds
  <1>6. d = dispatchKeys(s, b)
    OBVIOUS
  <1> HIDE DEF q
  <1>7. << >> \in Seq(KeySet) /\ "" \in Names
    BY DEF Names
  <1>8. s \in KeyStack /\ s.prefixed = "" /\ s.buf = q /\ s.macroKeys = << >>
    BY <1>1, <1>4, <1>7 DEF KeyStack
  <1>9. Stack(s) = q
    BY <1>4, <1>8, ConcatEmptySeq DEF Stack
  <1>10. ASSUME Fits(q, b, e) PROVE ~d.prefix /\ d.read = e.keys /\ d.s.active = e.cmd
    <2>1. Fits(Stack(s), b, e)
      BY <1>9, <1>10
    <2>2. Lead \notin KeySet \/ Trail \notin KeySet
      OBVIOUS
    <2> HIDE DEF s, b, e
    <2> QED
      BY ONLY <1>5, <1>6, <1>8, <2>1, <2>2, WholeFound
  <1> QED
    BY <1>3, <1>10 DEF Lone

(* What a sequence of keys runs does not depend on how the reads cut it:   *)
(* before any search or macro each command is the one that dispatchKeys    *)
(* finds when all that was typed is on the stack at once, or an escape     *)
(* that came alone in a Vi keymap.  It is so for any keymaps, any keys of  *)
(* one byte and any reads, when local keymaps bind single keys and no bind *)
(* extends another in the main keymaps that lead to one.                   *)
THEOREM ReadsDoNotMatter ==
  ASSUME Flat, Discrete
  PROVE  Spec => []SameAsWhole
  <1> DEFINE J == /\ IInv /\ Supplied /\ KeptByMain /\ LocalRunsLocal /\ Opened
                  /\ KeptHere /\ InStep /\ AllFit
  <1>1. Init => J
    <2> SUFFICES ASSUME Init PROVE J
      OBVIOUS
    <2>1. /\ pc = "wait" /\ local = "" /\ nonInc = FALSE /\ k.prefixed = "" /\ ran = << >>
          /\ typed = << >> /\ k.buf = << >> /\ k.macroKeys = << >>
      BY DEF Init
    <2>2. IInv /\ Supplied /\ KeptByMain /\ Opened /\ KeptHere
      BY <2>1, TypesStart DEF Supplied, KeptByMain, Opened, KeptHere, KeptFor
    <2> DEFINE n == Len(ran)
    <2>3. n = 0
      BY <2>1, EmptySeq
    <2>4. LocalRunsLocal /\ AllFit
      <3>1. \A i \in 1 .. n : FALSE
        <4> HIDE DEF n
        <4> QED
          BY <2>3
      <3> QED
        BY <3>1 DEF LocalRunsLocal, AllFit, FitIn
    <2>5. << >> \o << >> = << >>
      OBVIOUS
    <2>6. Given(ran) = << >>
      <3> DEFINE w == KeysOf(ran)
      <3>1. ran \in Seq(Entry)
        BY <2>2 DEF IInv
      <3>2. w \in Seq(Seq(KeySet)) /\ Len(w) = 0
        BY <2>3, <3>1, KeysOfTyped
      <3>3. Given(ran) = FlattenSeq(w)
        BY DEF Given, KeysOf
      <3> HIDE DEF w
      <3>4. FlattenSeq(w) = w
        BY <3>2 DEF FlattenSeq
      <3>5. w = << >>
        BY <3>2, EmptySeq
      <3> QED
        BY <3>3, <3>4, <3>5
    <2>7. InStep
      BY <2>1, <2>5, <2>6 DEF InStep, Stack
    <2> QED
      BY <2>2, <2>4, <2>7
  <1>2. J /\ [Next]_vars => J'
    <2> SUFFICES ASSUME J, [Next]_vars PROVE J'
      OBVIOUS
    <2>1. EscapeRuns
      BY DEF Discrete
    <2>2. IInv' /\ Supplied' /\ KeptByMain' /\ LocalRunsLocal' /\ Opened'
      BY <2>1, TypesKept, FedKept, RunsLocalKept, OpenedKept
    <2>3. KeptHere' /\ InStep' /\ AllFit'
      BY WholeKept
    <2> QED
      BY <2>2, <2>3
  <1>3. J => SameAsWhole
    BY FitIsSame DEF Discrete
  <1> QED
    BY <1>1, <1>2, <1>3, PTL DEF Spec
=============================================================================
