----------------------------- MODULE KeysProofs -----------------------------
(***************************************************************************)
(* Proofs about Keys: whatever the two goroutines, the terminal and the    *)
(* commands do, a report reaches the key stack only when a read has cut it *)
(* in two, a key is handled twice only when the two goroutines have        *)
(* changed the stack at the same time, and the main goroutine alone keeps  *)
(* the keys in the order they were typed; for every number of keys, of     *)
(* resizes, and of such reads and changes.                                 *)
(***************************************************************************)
EXTENDS Keys, SequenceTheorems, InductionLemmas

\* kept holds, for each n, what is in no report among the first n pieces read.
IsKept(kept, chunk) ==
  /\ kept \in [0 .. Len(chunk) -> Seq(Piece)]
  /\ kept[0] = << >>
  /\ \A n \in 1 .. Len(chunk) :
       kept[n] = IF InReport(chunk, n) THEN kept[n - 1] ELSE Append(kept[n - 1], chunk[n])

-----------------------------------------------------------------------------
(* extractCursorPos                                                        *)

(* The scan of what was read goes through each of its keys once.           *)
LEMMA KeystrokesDefined ==
  ASSUME NEW chunk \in Seq(Piece)
  PROVE  \E kept : IsKept(kept, chunk) /\ Keystrokes(chunk) = kept[Len(chunk)]
  <1> DEFINE len == Len(chunk)
             Turn(v, n) == IF n \in 1 .. len /\ ~InReport(chunk, n) THEN Append(v, chunk[n]) ELSE v
             step == [p \in Seq(Piece) \X Nat |-> Turn(p[1], p[2])]
             Def(f) == [n \in 0 .. len |->
                          IF n = 0 THEN << >>
                          ELSE IF InReport(chunk, n) THEN f[n - 1]
                          ELSE Append(f[n - 1], chunk[n])]
             kept == CHOOSE f : f = Def(f)
  <1>1. len \in Nat
    OBVIOUS
  <1>2. \A n \in 1 .. len : chunk[n] \in Piece
    OBVIOUS
  <1>3. step \in [Seq(Piece) \X Nat -> Seq(Piece)]
    <2> SUFFICES ASSUME NEW v \in Seq(Piece), NEW n \in Nat PROVE Turn(v, n) \in Seq(Piece)
      OBVIOUS
    <2> QED
      BY <1>2
  <1>4. PICK f \in [0 .. len -> Seq(Piece)] : FoldsTo(f, << >>, step, len)
    <2>1. << >> \in Seq(Piece)
      OBVIOUS
    <2> HIDE DEF step, len
    <2> QED
      BY <1>1, <1>3, <2>1, PrimitiveRecursion
  <1>5. f[0] = << >>
    BY <1>4 DEF FoldsTo
  <1>6. ASSUME NEW n \in 1 .. len PROVE f[n] = Turn(f[n - 1], n)
    <2> HIDE DEF Turn, len
    <2>0. n - 1 \in 0 .. len /\ n \in Nat
      BY <1>1
    <2>1. <<f[n - 1], n>> \in Seq(Piece) \X Nat
      BY <2>0, <1>4
    <2>2. f[n] = step[<<f[n - 1], n>>]
      BY <1>4 DEF FoldsTo
    <2> QED
      BY <2>1, <2>2
  <1>7. f = Def(f)
    <2>1. ASSUME NEW n \in 0 .. len PROVE f[n] = Def(f)[n]
      <3>1. CASE n = 0
        BY <3>1, <1>5
      <3>2. CASE n # 0
        <4>1. n \in 1 .. len
          BY <3>2, <1>1
        <4>2. f[n] = Turn(f[n - 1], n)
          BY <4>1, <1>6
        <4> QED
          BY <4>1, <4>2
      <3> QED
        BY <3>1, <3>2
    <2>2. /\ DOMAIN f = 0 .. len /\ DOMAIN Def(f) = 0 .. len
          /\ f = [n \in DOMAIN f |-> f[n]]
          /\ Def(f) = [n \in 0 .. len |-> Def(f)[n]]
      BY <1>4
    <2> HIDE DEF Def
    <2> QED
      BY <2>1, <2>2
  <1>8. kept = Def(kept)
    <2> HIDE DEF Def
    <2> QED
      BY <1>7
  <1>9. Keystrokes(chunk) = kept[len]
    BY DEF Keystrokes
  <1> HIDE DEF kept
  <1>10. kept[0] = << >> /\ DOMAIN kept = 0 .. len
    <2>1. Def(kept)[0] = << >> /\ DOMAIN Def(kept) = 0 .. len
      BY <1>1
    <2> HIDE DEF Def
    <2> QED
      BY <1>8, <2>1
  <1>11. ASSUME NEW n \in 1 .. len
         PROVE  kept[n] = IF InReport(chunk, n) THEN kept[n - 1] ELSE Append(kept[n - 1], chunk[n])
    <2>1. Def(kept)[n] = IF InReport(chunk, n) THEN kept[n - 1] ELSE Append(kept[n - 1], chunk[n])
      BY <1>1
    <2> HIDE DEF Def
    <2> QED
      BY <1>8, <2>1
  <1> HIDE DEF len
  <1>12. \A n \in 0 .. len : kept[n] \in Seq(Piece)
    <2> DEFINE T == {n \in Nat : n <= len => kept[n] \in Seq(Piece)}
    <2>1. 0 \in T
      <3>1. << >> \in Seq(Piece)
        OBVIOUS
      <3>2. kept[0] \in Seq(Piece)
        BY <1>10, <3>1
      <3> QED
        BY <3>2
    <2>2. ASSUME NEW n \in Nat, n \in T PROVE n + 1 \in T
      <3> SUFFICES ASSUME n + 1 <= len PROVE kept[n + 1] \in Seq(Piece)
        OBVIOUS
      <3>1. n + 1 \in 1 .. len /\ (n + 1) - 1 = n /\ kept[n] \in Seq(Piece)
        BY <2>2, <1>1
      <3>2. kept[n + 1] = IF InReport(chunk, n + 1) THEN kept[n] ELSE Append(kept[n], chunk[n + 1])
        BY <3>1, <1>11
      <3> QED
        BY <3>1, <3>2, <1>2
    <2>3. Nat \subseteq T
      <3> HIDE DEF T
      <3> QED
        BY <2>1, <2>2, NatSetInduction
    <2> QED
      BY <2>3, <1>1
  <1>13. kept \in [0 .. len -> Seq(Piece)]
    <2>1. kept = [n \in 0 .. len |-> kept[n]]
      BY <1>8
    <2> HIDE DEF Def
    <2> QED
      BY <2>1, <1>12
  <1> QED
    BY <1>9, <1>10, <1>11, <1>13 DEF IsKept, len

(* at says where the elements of s come from in t: later ones from later   *)
(* places.                                                                 *)
Embeds(at, s, t) ==
  /\ at \in [1 .. Len(s) -> 1 .. Len(t)]
  /\ \A i \in 1 .. Len(s) : s[i] = t[at[i]]
  /\ \A i, j \in 1 .. Len(s) : i < j => at[i] < at[j]

(* What is kept is a subsequence of what was read, and in no report.       *)
LEMMA KeystrokesEmbed ==
  ASSUME NEW chunk \in Seq(Piece)
  PROVE  /\ Keystrokes(chunk) \in Seq(Piece)
         /\ \E at : /\ Embeds(at, Keystrokes(chunk), chunk)
                   /\ \A i \in 1 .. Len(Keystrokes(chunk)) : ~InReport(chunk, at[i])
  <1>1. PICK kept : IsKept(kept, chunk) /\ Keystrokes(chunk) = kept[Len(chunk)]
    BY KeystrokesDefined
  <1> DEFINE len == Len(chunk)
             From(at, n) == /\ at \in [1 .. Len(kept[n]) -> 1 .. n]
                            /\ \A i \in 1 .. Len(kept[n]) :
                                 kept[n][i] = chunk[at[i]] /\ ~InReport(chunk, at[i])
                            /\ \A i, j \in 1 .. Len(kept[n]) : i < j => at[i] < at[j]
             T == {n \in Nat : n <= len => \E at : From(at, n)}
  <1>2. /\ len \in Nat
        /\ kept \in [0 .. len -> Seq(Piece)]
        /\ kept[0] = << >>
        /\ \A n \in 1 .. len :
             kept[n] = IF InReport(chunk, n) THEN kept[n - 1] ELSE Append(kept[n - 1], chunk[n])
    BY <1>1 DEF IsKept
  <1>3. 0 \in T
    <2>1. From([i \in 1 .. 0 |-> 0], 0)
      BY <1>2
    <2> HIDE DEF From
    <2> QED
      BY <2>1
  <1>4. ASSUME NEW n \in Nat, n \in T PROVE n + 1 \in T
    <2> SUFFICES ASSUME n + 1 <= len PROVE \E at : From(at, n + 1)
      OBVIOUS
    <2>1. PICK at : From(at, n)
      BY <1>4, <1>2
    <2>2. n + 1 \in 1 .. len /\ n \in 0 .. len /\ kept[n] \in Seq(Piece) /\ (n + 1) - 1 = n
      <3> HIDE DEF len
      <3>1. n + 1 \in 1 .. len /\ n \in 0 .. len /\ (n + 1) - 1 = n
        BY <1>2
      <3>2. kept[n] \in Seq(Piece)
        BY <1>2, <3>1
      <3> QED
        BY <3>1, <3>2
    <2>3. CASE InReport(chunk, n + 1)
      <3>1. kept[n + 1] = kept[n]
        BY <1>2, <2>2, <2>3
      <3>2. From(at, n + 1)
        BY <3>1, <2>1, <2>2
      <3> HIDE DEF From
      <3> QED
        BY <3>2
    <2>4. CASE ~InReport(chunk, n + 1)
      <3> DEFINE k  == Len(kept[n])
                 at1 == [i \in 1 .. k + 1 |-> IF i = k + 1 THEN n + 1 ELSE at[i]]
      <3>1. kept[n + 1] = Append(kept[n], chunk[n + 1])
        BY <1>2, <2>2, <2>4
      <3>2. /\ k \in Nat
            /\ Len(kept[n + 1]) = k + 1
            /\ kept[n + 1][k + 1] = chunk[n + 1]
            /\ \A i \in 1 .. k : kept[n + 1][i] = kept[n][i]
        BY <3>1, <2>2
      <3>3. \A i \in 1 .. k : at[i] \in 1 .. n
        BY <2>1
      <3>4. at1 \in [1 .. k + 1 -> 1 .. n + 1]
        BY <3>2, <3>3, <2>2
      <3>5. ASSUME NEW i \in 1 .. k + 1
            PROVE  kept[n + 1][i] = chunk[at1[i]] /\ ~InReport(chunk, at1[i])
        BY <3>2, <2>1, <2>4
      <3>6. ASSUME NEW i \in 1 .. k + 1, NEW j \in 1 .. k + 1, i < j PROVE at1[i] < at1[j]
        <4>1. CASE j = k + 1
          <5>1. i \in 1 .. k
            BY <4>1, <3>2, <3>6
          <5>2. at1[i] = at[i] /\ at1[j] = n + 1
            BY <4>1, <5>1, <3>2
          <5>3. at[i] \in 1 .. n
            BY <5>1, <3>3
          <5> HIDE DEF at1
          <5> QED
            BY <5>2, <5>3
        <4>2. CASE j # k + 1
          <5>1. i \in 1 .. k /\ j \in 1 .. k
            BY <4>2, <3>2, <3>6
          <5> QED
            BY <5>1, <3>2, <2>1, <3>6
        <4> QED
          BY <4>1, <4>2
      <3>7. From(at1, n + 1)
        BY <3>2, <3>4, <3>5, <3>6
      <3> HIDE DEF From, at1
      <3> QED
        BY <3>7
    <2> QED
      BY <2>3, <2>4
  <1>5. Nat \subseteq T
    <2> HIDE DEF T
    <2> QED
      BY <1>3, <1>4, NatSetInduction
  <1>6. PICK at : From(at, len)
    <2> HIDE DEF From, len
    <2> QED
      BY <1>2, <1>5
  <1>7. Keystrokes(chunk) = kept[len] /\ kept[len] \in Seq(Piece)
    BY <1>1, <1>2
  <1>8. /\ Embeds(at, Keystrokes(chunk), chunk)
        /\ \A i \in 1 .. Len(Keystrokes(chunk)) : ~InReport(chunk, at[i])
    BY <1>6, <1>7 DEF Embeds
  <1> QED
    BY <1>7, <1>8

-----------------------------------------------------------------------------
(* Order                                                                   *)

(* The key k may be handled before j: they differ and, when the main       *)
(* goroutine alone reads (q), k was typed first.                           *)
Precedes(q, k, j) == k # j /\ (q => k < j)

(* The keys of a sequence, and those of two sequences, are in order.       *)
Sorted(q, s) ==
  \A i, j \in 1 .. Len(s) : i < j /\ s[i] \in Key /\ s[j] \in Key => Precedes(q, s[i], s[j])

\* Every key of s that is sorted by q comes before those of t.
Before(q, s, t) ==
  \A i \in 1 .. Len(s), j \in 1 .. Len(t) :
    s[i] \in Key /\ t[j] \in Key => Precedes(q, s[i], t[j])

\* An empty sequence is sorted.
LEMMA EmptySorted ==
  ASSUME NEW q, NEW s
  PROVE  Sorted(q, << >>) /\ Before(q, << >>, s) /\ Before(q, s, << >>)
  BY DEF Sorted, Before

(* Two sorted sequences, one before the other, make a sorted one.          *)
LEMMA ConcatSorted ==
  ASSUME NEW q, NEW s \in Seq(Piece), NEW t \in Seq(Piece),
         Sorted(q, s), Sorted(q, t), Before(q, s, t)
  PROVE  Sorted(q, s \o t)
  <1> SUFFICES ASSUME NEW i \in 1 .. Len(s \o t), NEW j \in 1 .. Len(s \o t), i < j,
                      (s \o t)[i] \in Key, (s \o t)[j] \in Key
               PROVE  Precedes(q, (s \o t)[i], (s \o t)[j])
    BY DEF Sorted
  <1>1. Len(s) \in Nat /\ Len(t) \in Nat /\ Len(s \o t) = Len(s) + Len(t)
    OBVIOUS
  <1>2. CASE j <= Len(s)
    <2>1. i \in 1 .. Len(s) /\ j \in 1 .. Len(s) /\ (s \o t)[i] = s[i] /\ (s \o t)[j] = s[j]
      BY <1>1, <1>2
    <2> QED
      BY <2>1 DEF Sorted
  <1>3. CASE i > Len(s)
    <2>1. /\ i - Len(s) \in 1 .. Len(t) /\ j - Len(s) \in 1 .. Len(t)
          /\ i - Len(s) < j - Len(s)
          /\ (s \o t)[i] = t[i - Len(s)] /\ (s \o t)[j] = t[j - Len(s)]
      BY <1>1, <1>3
    <2> QED
      BY <2>1 DEF Sorted
  <1>4. CASE i <= Len(s) /\ j > Len(s)
    <2>1. /\ i \in 1 .. Len(s) /\ j - Len(s) \in 1 .. Len(t)
          /\ (s \o t)[i] = s[i] /\ (s \o t)[j] = t[j - Len(s)]
      BY <1>1, <1>4
    <2> QED
      BY <2>1 DEF Before
  <1> QED
    BY <1>1, <1>2, <1>3, <1>4

\* Sorted before a concatenation: before both parts.
LEMMA ConcatBefore ==
  ASSUME NEW q, NEW s \in Seq(Piece), NEW t \in Seq(Piece), NEW u \in Seq(Piece)
  PROVE  /\ Before(q, s, u) /\ Before(q, t, u) => Before(q, s \o t, u)
         /\ Before(q, u, s) /\ Before(q, u, t) => Before(q, u, s \o t)
  <1>1. Len(s) \in Nat /\ Len(t) \in Nat /\ Len(s \o t) = Len(s) + Len(t)
    OBVIOUS
  <1>2. ASSUME NEW i \in 1 .. Len(s \o t)
        PROVE  \/ i \in 1 .. Len(s) /\ (s \o t)[i] = s[i]
               \/ i - Len(s) \in 1 .. Len(t) /\ (s \o t)[i] = t[i - Len(s)]
    BY <1>1
  <1> QED
    BY <1>2 DEF Before

\* A sorted sequence splits into its head and its tail.
LEMMA HeadTailSorted ==
  ASSUME NEW q, NEW s \in Seq(Piece), s # << >>, Sorted(q, s)
  PROVE  /\ Head(s) \in Piece /\ <<Head(s)>> \in Seq(Piece) /\ Tail(s) \in Seq(Piece)
         /\ Sorted(q, <<Head(s)>>) /\ Sorted(q, Tail(s)) /\ Before(q, <<Head(s)>>, Tail(s))
         /\ \A u : Before(q, u, s) => Before(q, u, <<Head(s)>>) /\ Before(q, u, Tail(s))
         /\ \A u : Before(q, s, u) => Before(q, <<Head(s)>>, u) /\ Before(q, Tail(s), u)
  <1>1. /\ Len(s) \in Nat \ {0} /\ Head(s) = s[1] /\ s[1] \in Piece
        /\ Tail(s) \in Seq(Piece) /\ Len(Tail(s)) = Len(s) - 1
        /\ \A i \in 1 .. Len(Tail(s)) : i + 1 \in 1 .. Len(s) /\ Tail(s)[i] = s[i + 1]
    OBVIOUS
  <1>2. Len(<<Head(s)>>) = 1 /\ <<Head(s)>>[1] = s[1]
    BY <1>1
  <1>3. Sorted(q, <<Head(s)>>) /\ Sorted(q, Tail(s)) /\ Before(q, <<Head(s)>>, Tail(s))
    BY <1>1, <1>2 DEF Sorted, Before
  <1> QED
    BY <1>1, <1>2, <1>3 DEF Before

(* What holds of what was read holds of what is kept of it.                *)
LEMMA KeystrokesSorted ==
  ASSUME NEW q, NEW s \in Seq(Piece)
  PROVE  /\ Sorted(q, s) => Sorted(q, Keystrokes(s))
         /\ \A u : Before(q, u, s) => Before(q, u, Keystrokes(s))
         /\ \A u : Before(q, s, u) => Before(q, Keystrokes(s), u)
  <1>1. PICK at : Embeds(at, Keystrokes(s), s)
    BY KeystrokesEmbed
  <1>2. \A i \in 1 .. Len(Keystrokes(s)) : at[i] \in 1 .. Len(s) /\ Keystrokes(s)[i] = s[at[i]]
    BY <1>1 DEF Embeds
  <1>3. Sorted(q, s) => Sorted(q, Keystrokes(s))
    BY <1>1, <1>2 DEF Sorted, Embeds
  <1> QED
    BY <1>2, <1>3 DEF Before

(* A read cuts the input in two: what it takes, and what is left.          *)
LEMMA SplitParts ==
  ASSUME NEW s \in Seq(Piece), NEW n \in 1 .. Len(s)
  PROVE  LET c == SubSeq(s, 1, n)
             r == SubSeq(s, n + 1, Len(s))
         IN  /\ c \in Seq(Piece) /\ r \in Seq(Piece)
             /\ Len(c) = n /\ Len(r) = Len(s) - n
             /\ \A i \in 1 .. n : c[i] = s[i]
             /\ \A i \in 1 .. Len(s) - n : r[i] = s[n + i]
  <1> DEFINE len == Len(s)
  <1>1. len \in Nat /\ n \in Nat /\ n <= len /\ 1 <= n
    OBVIOUS
  <1>2. \A i \in 1 .. len : s[i] \in Piece
    OBVIOUS
  <1>3. /\ SubSeq(s, 1, n) \in Seq(Piece) /\ Len(SubSeq(s, 1, n)) = n
        /\ \A i \in 1 .. n : SubSeq(s, 1, n)[i] = s[i]
    <2>1. /\ SubSeq(s, 1, n) \in Seq(Piece)
          /\ Len(SubSeq(s, 1, n)) = IF 1 <= n THEN n - 1 + 1 ELSE 0
          /\ \A i \in 1 .. n - 1 + 1 : SubSeq(s, 1, n)[i] = s[1 + i - 1]
      <3>1. \A i \in 1 .. n : s[i] \in Piece
        BY <1>1, <1>2
      <3> QED
        BY <1>1, <3>1, SubSeqProperties
    <2> QED
      BY <1>1, <2>1
  <1>4. /\ SubSeq(s, n + 1, len) \in Seq(Piece) /\ Len(SubSeq(s, n + 1, len)) = len - n
        /\ \A i \in 1 .. len - n : SubSeq(s, n + 1, len)[i] = s[n + i]
    <2>1. /\ SubSeq(s, n + 1, len) \in Seq(Piece)
          /\ Len(SubSeq(s, n + 1, len)) = IF n + 1 <= len THEN len - (n + 1) + 1 ELSE 0
          /\ \A i \in 1 .. len - (n + 1) + 1 : SubSeq(s, n + 1, len)[i] = s[n + 1 + i - 1]
      <3>1. \A i \in n + 1 .. len : s[i] \in Piece
        BY <1>1, <1>2
      <3> QED
        BY <1>1, <3>1, SubSeqProperties
    <2> QED
      BY <1>1, <2>1
  <1> QED
    BY <1>3, <1>4

(* When the other goroutine reads too, only the identity of keys matters.  *)
LEMMA BeforeSymmetric ==
  ASSUME NEW s, NEW t, Before(FALSE, s, t)
  PROVE  Before(FALSE, t, s)
  BY DEF Before, Precedes

-----------------------------------------------------------------------------
(* Reports that are whole                                                  *)

\* Every report of s is whole: both of its pieces are there.
Whole(s) ==
  \A i \in 1 .. Len(s) :
    /\ s[i] = Esc => i < Len(s) /\ s[i + 1] = Rest
    /\ s[i] = Rest => i > 1 /\ s[i - 1] = Esc

\* Without reports, or once they are cut out, only keys are left.
LEMMA WholeKeys ==
  ASSUME NEW s \in Seq(Piece), Whole(s)
  PROVE  /\ ~HasReply(s) => s \in Seq(Key)
         /\ Keystrokes(s) \in Seq(Key)
  <1>1. Len(s) \in Nat /\ s \in [1 .. Len(s) -> Piece]
    OBVIOUS
  <1>2. ASSUME NEW i \in 1 .. Len(s), ~InReport(s, i) PROVE s[i] \in Key
    <2>1. s[i] # Esc
      BY <1>1, <1>2 DEF Whole, InReport, ReportAt
    <2>2. s[i] # Rest
      <3> SUFFICES ASSUME s[i] = Rest PROVE FALSE
        OBVIOUS
      <3>1. i > 1 /\ s[i - 1] = Esc /\ (i - 1) + 1 = i
        BY <1>1 DEF Whole
      <3> QED
        BY <3>1, <1>2 DEF InReport, ReportAt
    <2> QED
      BY <1>1, <2>1, <2>2 DEF Piece
  <1>3. ASSUME ~HasReply(s) PROVE s \in Seq(Key)
    <2>1. ASSUME NEW i \in 1 .. Len(s) PROVE s[i] \in Key
      <3>1. i < Len(s) => i \in 1 .. Len(s) - 1
        BY <1>1
      <3>2. i > 1 => i - 1 \in 1 .. Len(s) - 1
        BY <1>1
      <3>3. ~InReport(s, i)
        BY <1>3, <3>1, <3>2 DEF HasReply, InReport
      <3> QED
        BY <3>3, <1>2
    <2> QED
      BY <1>1, <2>1
  <1>4. Keystrokes(s) \in Seq(Key)
    <2>1. PICK at : /\ Embeds(at, Keystrokes(s), s)
                    /\ \A i \in 1 .. Len(Keystrokes(s)) : ~InReport(s, at[i])
      BY KeystrokesEmbed
    <2>2. Keystrokes(s) \in Seq(Piece)
      BY KeystrokesEmbed
    <2> DEFINE k == Keystrokes(s)
    <2>3. ASSUME NEW i \in 1 .. Len(k) PROVE k[i] \in Key
      <3>1. at[i] \in 1 .. Len(s) /\ k[i] = s[at[i]] /\ ~InReport(s, at[i])
        BY <2>1 DEF Embeds
      <3> QED
        BY <3>1, <1>2
    <2> HIDE DEF k
    <2>4. k \in Seq(Key)
      BY <2>2, <2>3 DEF k
    <2> QED
      BY <2>4 DEF k
  <1> QED
    BY <1>3, <1>4

\* A read that does not end inside of a report leaves whole ones on both sides.
LEMMA SplitWhole ==
  ASSUME NEW s \in Seq(Piece), NEW n \in 1 .. Len(s), Whole(s), s[n] # Esc
  PROVE  Whole(SubSeq(s, 1, n)) /\ Whole(SubSeq(s, n + 1, Len(s)))
  <1> DEFINE c == SubSeq(s, 1, n)
             r == SubSeq(s, n + 1, Len(s))
  <1>1. /\ Len(c) = n /\ Len(r) = Len(s) - n
        /\ \A i \in 1 .. n : c[i] = s[i]
        /\ \A i \in 1 .. Len(s) - n : r[i] = s[n + i]
    BY SplitParts
  <1>2. Len(s) \in Nat /\ n \in Nat /\ 1 <= n /\ n <= Len(s)
    OBVIOUS
  <1> HIDE DEF c, r
  <1>3. Whole(c)
    <2> SUFFICES ASSUME NEW i \in 1 .. n
                 PROVE  /\ c[i] = Esc => i < n /\ c[i + 1] = Rest
                        /\ c[i] = Rest => i > 1 /\ c[i - 1] = Esc
      BY <1>1 DEF Whole
    <2>1. i \in 1 .. Len(s) /\ c[i] = s[i]
      BY <1>1, <1>2
    <2>2. ASSUME c[i] = Esc PROVE i < n /\ c[i + 1] = Rest
      <3>1. i # n /\ s[i + 1] = Rest
        BY <2>1, <2>2 DEF Whole
      <3>2. i < n /\ i + 1 \in 1 .. n
        BY <3>1, <1>2
      <3> QED
        BY <3>1, <3>2, <1>1
    <2>3. ASSUME c[i] = Rest PROVE i > 1 /\ c[i - 1] = Esc
      <3>1. i > 1 /\ s[i - 1] = Esc
        BY <2>1, <2>3 DEF Whole
      <3>2. i - 1 \in 1 .. n
        BY <3>1, <1>2
      <3> QED
        BY <3>1, <3>2, <1>1
    <2> QED
      BY <2>2, <2>3
  <1>4. Whole(r)
    <2> SUFFICES ASSUME NEW i \in 1 .. Len(s) - n
                 PROVE  /\ r[i] = Esc => i < Len(s) - n /\ r[i + 1] = Rest
                        /\ r[i] = Rest => i > 1 /\ r[i - 1] = Esc
      BY <1>1 DEF Whole
    <2>1. n + i \in 1 .. Len(s) /\ r[i] = s[n + i]
      BY <1>1, <1>2
    <2>2. ASSUME r[i] = Esc PROVE i < Len(s) - n /\ r[i + 1] = Rest
      <3>1. n + i < Len(s) /\ s[(n + i) + 1] = Rest
        BY <2>1, <2>2 DEF Whole
      <3>2. i < Len(s) - n /\ i + 1 \in 1 .. Len(s) - n /\ n + (i + 1) = (n + i) + 1
        BY <3>1, <1>2
      <3> QED
        BY <3>1, <3>2, <1>1
    <2>3. ASSUME r[i] = Rest PROVE i > 1 /\ r[i - 1] = Esc
      <3>1. s[(n + i) - 1] = Esc
        BY <2>1, <2>3 DEF Whole
      <3>2. i # 1
        <4> SUFFICES ASSUME i = 1 PROVE FALSE
          OBVIOUS
        <4>1. (n + i) - 1 = n
          BY <1>2
        <4> QED
          BY <3>1, <4>1
      <3>3. i > 1 /\ i - 1 \in 1 .. Len(s) - n /\ n + (i - 1) = (n + i) - 1
        BY <3>2, <1>2
      <3> QED
        BY <3>1, <3>3, <1>1
    <2> QED
      BY <2>2, <2>3
  <1> QED
    BY <1>3, <1>4 DEF c, r

\* Keys and whole reports arrive.
LEMMA ArrivalWhole ==
  ASSUME NEW s \in Seq(Piece), Whole(s)
  PROVE  /\ \A k \in Key : Whole(Append(s, k))
         /\ Whole(s \o <<Esc, Rest>>)
  <1>1. Len(s) \in Nat
    OBVIOUS
  <1>2. Esc \notin Key /\ Rest \notin Key /\ Esc # Rest /\ Esc \in Piece /\ Rest \in Piece
    BY KeysAssumption DEF Key, Piece
  <1>3. ASSUME NEW k \in Key PROVE Whole(Append(s, k))
    <2>1. /\ Len(Append(s, k)) = Len(s) + 1 /\ Append(s, k)[Len(s) + 1] = k
          /\ \A i \in 1 .. Len(s) : Append(s, k)[i] = s[i]
      OBVIOUS
    <2> DEFINE t == Append(s, k)
    <2> HIDE DEF t
    <2> SUFFICES ASSUME NEW i \in 1 .. Len(s) + 1
                 PROVE  /\ t[i] = Esc => i < Len(s) + 1 /\ t[i + 1] = Rest
                        /\ t[i] = Rest => i > 1 /\ t[i - 1] = Esc
      BY <2>1 DEF Whole, t
    <2>2. CASE i = Len(s) + 1
      BY <2>1, <2>2, <1>2 DEF t
    <2>3. CASE i # Len(s) + 1
      <3>1. i \in 1 .. Len(s)
        BY <2>3, <1>1
      <3>2. /\ t[i] = s[i]
            /\ s[i] = Esc => i < Len(s) /\ s[i + 1] = Rest
            /\ s[i] = Rest => i > 1 /\ s[i - 1] = Esc
        BY <3>1, <2>1 DEF Whole, t
      <3>3. /\ i < Len(s) => i + 1 \in 1 .. Len(s) /\ i < Len(s) + 1
            /\ i > 1 => i - 1 \in 1 .. Len(s)
        BY <3>1, <1>1
      <3> QED
        BY <3>2, <3>3, <2>1 DEF t
    <2> QED
      BY <2>2, <2>3
  <1>4. Whole(s \o <<Esc, Rest>>)
    <2> DEFINE t == s \o <<Esc, Rest>>
    <2>1. /\ Len(t) = Len(s) + 2 /\ t[Len(s) + 1] = Esc /\ t[Len(s) + 2] = Rest
          /\ \A i \in 1 .. Len(s) : t[i] = s[i]
      BY <1>2
    <2> HIDE DEF t
    <2> SUFFICES ASSUME NEW i \in 1 .. Len(s) + 2
                 PROVE  /\ t[i] = Esc => i < Len(s) + 2 /\ t[i + 1] = Rest
                        /\ t[i] = Rest => i > 1 /\ t[i - 1] = Esc
      BY <2>1 DEF Whole, t
    <2>2. CASE i = Len(s) + 1
      <3>1. i + 1 = Len(s) + 2 /\ i < Len(s) + 2
        BY <2>2, <1>1
      <3> QED
        BY <3>1, <2>1, <2>2, <1>2
    <2>3. CASE i = Len(s) + 2
      <3>1. i - 1 = Len(s) + 1 /\ i > 1
        BY <2>3, <1>1
      <3> QED
        BY <3>1, <2>1, <2>3, <1>2
    <2>4. CASE i # Len(s) + 1 /\ i # Len(s) + 2
      <3>1. i \in 1 .. Len(s)
        BY <2>4, <1>1
      <3>2. /\ t[i] = s[i]
            /\ s[i] = Esc => i < Len(s) /\ s[i + 1] = Rest
            /\ s[i] = Rest => i > 1 /\ s[i - 1] = Esc
        BY <3>1, <2>1 DEF Whole
      <3>3. /\ i < Len(s) => i + 1 \in 1 .. Len(s) /\ i < Len(s) + 2
            /\ i > 1 => i - 1 \in 1 .. Len(s)
        BY <3>1, <1>1
      <3> QED
        BY <3>2, <3>3, <2>1
    <2> QED
      BY <2>2, <2>3, <2>4
  <1> QED
    BY <1>3, <1>4

-----------------------------------------------------------------------------
(* Order of the places                                                     *)

(* The keys given to commands (d), those of the stack (b), those in the    *)
(* hands of a goroutine (h, t) and those of the input (i): none is above   *)
(* the last one typed, and they are in order.                              *)
Fresh(n, s) == \A i \in 1 .. Len(s) : s[i] \in Key => s[i] <= n

AllFresh(n, d, b, h, t, i) ==
  Fresh(n, d) /\ Fresh(n, b) /\ Fresh(n, h) /\ Fresh(n, t) /\ Fresh(n, i)

AllSorted(q, d, b, h, t, i) ==
  /\ Sorted(q, d) /\ Sorted(q, b) /\ Sorted(q, h) /\ Sorted(q, t) /\ Sorted(q, i)
  /\ Before(q, d, b) /\ Before(q, d, h) /\ Before(q, d, t) /\ Before(q, d, i)
  /\ Before(q, b, h) /\ Before(q, b, t) /\ Before(q, b, i)
  /\ Before(q, h, t) /\ Before(q, h, i)
  /\ Before(q, t, i)

Keeping(n, q, d, b, h, t, i) == AllFresh(n, d, b, h, t, i) /\ AllSorted(q, d, b, h, t, i)

-----------------------------------------------------------------------------
(* What the steps do to the keys                                           *)

\* What is fresh in the whole is fresh in each place.
LEMMA FreshParts ==
  ASSUME NEW n, NEW s \in Seq(Piece), NEW t \in Seq(Piece), Fresh(n, s)
  PROVE  /\ Fresh(n, << >>)
         /\ Fresh(n, t) => Fresh(n, s \o t)
         /\ s # << >> => Fresh(n, <<Head(s)>>) /\ Fresh(n, Tail(s))
         /\ Fresh(n, Keystrokes(s))
         /\ \A m \in 1 .. Len(s) :
              Fresh(n, SubSeq(s, 1, m)) /\ Fresh(n, SubSeq(s, m + 1, Len(s)))
  <1>1. Fresh(n, << >>)
    BY DEF Fresh
  <1>2. ASSUME Fresh(n, t) PROVE Fresh(n, s \o t)
    <2>1. Len(s) \in Nat /\ Len(t) \in Nat /\ Len(s \o t) = Len(s) + Len(t)
      OBVIOUS
    <2>2. ASSUME NEW i \in 1 .. Len(s \o t)
          PROVE  \/ i \in 1 .. Len(s) /\ (s \o t)[i] = s[i]
                 \/ i - Len(s) \in 1 .. Len(t) /\ (s \o t)[i] = t[i - Len(s)]
      BY <2>1
    <2> QED
      BY <1>2, <2>2 DEF Fresh
  <1>3. ASSUME s # << >> PROVE Fresh(n, <<Head(s)>>) /\ Fresh(n, Tail(s))
    <2>1. /\ Len(s) \in Nat \ {0} /\ Head(s) = s[1] /\ Len(Tail(s)) = Len(s) - 1
          /\ \A i \in 1 .. Len(Tail(s)) : i + 1 \in 1 .. Len(s) /\ Tail(s)[i] = s[i + 1]
      BY <1>3
    <2> QED
      BY <2>1 DEF Fresh
  <1>4. Fresh(n, Keystrokes(s))
    <2>1. PICK at : Embeds(at, Keystrokes(s), s)
      BY KeystrokesEmbed
    <2> QED
      BY <2>1 DEF Fresh, Embeds
  <1>5. ASSUME NEW m \in 1 .. Len(s)
        PROVE  Fresh(n, SubSeq(s, 1, m)) /\ Fresh(n, SubSeq(s, m + 1, Len(s)))
    <2> DEFINE c == SubSeq(s, 1, m)
               r == SubSeq(s, m + 1, Len(s))
    <2>1. /\ Len(c) = m /\ Len(r) = Len(s) - m
          /\ \A i \in 1 .. m : c[i] = s[i]
          /\ \A i \in 1 .. Len(s) - m : r[i] = s[m + i]
      BY SplitParts
    <2>2. /\ \A i \in 1 .. m : i \in 1 .. Len(s)
          /\ \A i \in 1 .. Len(s) - m : m + i \in 1 .. Len(s)
      OBVIOUS
    <2> HIDE DEF c, r
    <2>3. Fresh(n, c) /\ Fresh(n, r)
      BY <2>1, <2>2 DEF Fresh
    <2> QED
      BY <2>3 DEF c, r
  <1> QED
    BY <1>1, <1>2, <1>3, <1>4, <1>5

(* A key is typed, or a report arrives.                                    *)
LEMMA ArrivalKeeps ==
  ASSUME NEW n \in Nat, NEW q, NEW d \in Seq(Piece), NEW b \in Seq(Piece),
         NEW h \in Seq(Piece), NEW t \in Seq(Piece), NEW i \in Seq(Piece),
         Keeping(n, q, d, b, h, t, i)
  PROVE  /\ n + 1 \in Key => Keeping(n + 1, q, d, b, h, t, Append(i, n + 1))
         /\ Keeping(n, q, d, b, h, t, i \o <<Esc, Rest>>)
  <1>1. Esc \notin Key /\ Rest \notin Key /\ Key \subseteq Nat
    BY KeysAssumption DEF Key
  <1>2. Fresh(n, d) /\ Fresh(n, b) /\ Fresh(n, h) /\ Fresh(n, t) /\ Fresh(n, i)
    BY DEF Keeping, AllFresh
  <1>3. ASSUME NEW s, Fresh(n, s) PROVE Fresh(n + 1, s)
    <2> SUFFICES ASSUME NEW j \in 1 .. Len(s), s[j] \in Key PROVE s[j] <= n + 1
      BY DEF Fresh
    <2>1. s[j] \in Nat /\ s[j] <= n
      BY <1>3, <1>1 DEF Fresh
    <2> QED
      BY <2>1
  <1>4. ASSUME NEW s, Fresh(n, s) PROVE Before(q, s, <<n + 1>>) /\ Before(q, s, <<Esc, Rest>>)
    <2>1. ASSUME NEW j \in 1 .. Len(s), s[j] \in Key PROVE s[j] # n + 1 /\ s[j] < n + 1
      <3>1. s[j] \in Nat /\ s[j] <= n
        BY <1>4, <1>1, <2>1 DEF Fresh
      <3> QED
        BY <3>1
    <2>2. Len(<<n + 1>>) = 1 /\ <<n + 1>>[1] = n + 1 /\ Len(<<Esc, Rest>>) = 2 /\ <<Esc, Rest>>[1] = Esc /\ <<Esc, Rest>>[2] = Rest
      OBVIOUS
    <2> QED
      BY <2>1, <2>2, <1>1 DEF Before, Precedes
  <1>5. /\ Sorted(q, <<n + 1>>) /\ Sorted(q, <<Esc, Rest>>)
        /\ Fresh(n + 1, <<n + 1>>) /\ Fresh(n, <<Esc, Rest>>)
    BY <1>1 DEF Sorted, Fresh
  <1>6. <<Esc, Rest>> \in Seq(Piece)
    <2>1. Esc \in Piece /\ Rest \in Piece
      BY DEF Piece
    <2> QED
      BY <2>1
  <1>7. Keeping(n, q, d, b, h, t, i \o <<Esc, Rest>>)
    <2>1. Fresh(n, i \o <<Esc, Rest>>)
      BY <1>2, <1>5, <1>6, FreshParts
    <2>2. Sorted(q, i \o <<Esc, Rest>>)
      BY <1>2, <1>4, <1>5, <1>6, ConcatSorted DEF Keeping, AllSorted
    <2>3. \A s \in {d, b, h, t} : Before(q, s, i \o <<Esc, Rest>>)
      BY <1>2, <1>4, <1>6, ConcatBefore DEF Keeping, AllSorted
    <2> QED
      BY <2>1, <2>2, <2>3 DEF Keeping, AllFresh, AllSorted
  <1>8. ASSUME n + 1 \in Key PROVE Keeping(n + 1, q, d, b, h, t, Append(i, n + 1))
    <2>1. <<n + 1>> \in Seq(Piece) /\ Append(i, n + 1) = i \o <<n + 1>>
      <3>1. n + 1 \in Piece
        BY <1>8 DEF Piece
      <3> QED
        BY <3>1, AppendIsConcat
    <2>2. Fresh(n + 1, i \o <<n + 1>>)
      BY <1>2, <1>3, <1>5, <2>1, FreshParts
    <2>3. Sorted(q, i \o <<n + 1>>)
      BY <1>2, <1>4, <1>5, <2>1, ConcatSorted DEF Keeping, AllSorted
    <2>4. \A s \in {d, b, h, t} : Before(q, s, i \o <<n + 1>>)
      BY <1>2, <1>4, <2>1, ConcatBefore DEF Keeping, AllSorted
    <2> QED
      BY <1>2, <1>3, <2>1, <2>2, <2>3, <2>4 DEF Keeping, AllFresh, AllSorted
  <1> QED
    BY <1>6, <1>7, <1>8

(* The pieces of a read and those that are left.                           *)
LEMMA SplitSorted ==
  ASSUME NEW q, NEW s \in Seq(Piece), NEW n \in 1 .. Len(s), Sorted(q, s)
  PROVE  LET c == SubSeq(s, 1, n)
             r == SubSeq(s, n + 1, Len(s))
         IN  /\ Sorted(q, c) /\ Sorted(q, r) /\ Before(q, c, r)
             /\ \A u : Before(q, u, s) => Before(q, u, c) /\ Before(q, u, r)
             /\ \A u : Before(q, s, u) => Before(q, c, u) /\ Before(q, r, u)
  <1> DEFINE c == SubSeq(s, 1, n)
             r == SubSeq(s, n + 1, Len(s))
             len == Len(s)
  <1>1. /\ Len(c) = n /\ Len(r) = len - n
        /\ \A i \in 1 .. n : c[i] = s[i]
        /\ \A i \in 1 .. len - n : r[i] = s[n + i]
    BY SplitParts
  <1>2. len \in Nat /\ n \in Nat /\ 1 <= n /\ n <= len
    OBVIOUS
  <1>3. \A i, j \in 1 .. len : i < j /\ s[i] \in Key /\ s[j] \in Key => Precedes(q, s[i], s[j])
    BY DEF Sorted
  <1> HIDE DEF c, r, len
  <1>4. /\ \A i \in 1 .. n : i \in 1 .. len
        /\ \A i \in 1 .. len - n : n + i \in 1 .. len
        /\ \A i \in 1 .. n, j \in 1 .. len - n : i < n + j
        /\ \A i, j \in 1 .. len - n : i < j => n + i < n + j
    BY <1>2
  <1>5. Sorted(q, c)
    BY <1>1, <1>3, <1>4 DEF Sorted
  <1>6. Sorted(q, r)
    BY <1>1, <1>3, <1>4 DEF Sorted
  <1>7. Before(q, c, r)
    BY <1>1, <1>3, <1>4 DEF Before
  <1>8. ASSUME NEW u, Before(q, u, s) PROVE Before(q, u, c) /\ Before(q, u, r)
    <2>1. \A i \in 1 .. Len(u), j \in 1 .. len :
            u[i] \in Key /\ s[j] \in Key => Precedes(q, u[i], s[j])
      BY <1>8 DEF Before, len
    <2> QED
      BY <2>1, <1>1, <1>4 DEF Before
  <1>9. ASSUME NEW u, Before(q, s, u) PROVE Before(q, c, u) /\ Before(q, r, u)
    <2>1. \A i \in 1 .. len, j \in 1 .. Len(u) :
            s[i] \in Key /\ u[j] \in Key => Precedes(q, s[i], u[j])
      BY <1>9 DEF Before, len
    <2> QED
      BY <2>1, <1>1, <1>4 DEF Before
  <1> QED
    BY <1>5, <1>6, <1>7, <1>8, <1>9 DEF c, r, len

(* A read of the loop holds what it has taken, or what is left of it once  *)
(* the reports are cut out, or nothing; it cannot overtake what the other  *)
(* goroutine has taken unless that one runs.                               *)
LEMMA ReadKeeps ==
  ASSUME NEW n \in Nat, NEW q \in BOOLEAN, NEW d \in Seq(Piece), NEW b \in Seq(Piece),
         NEW t \in Seq(Piece), NEW i \in Seq(Piece), NEW m \in 1 .. Len(i),
         q => t = << >>,
         Keeping(n, q, d, b, << >>, t, i)
  PROVE  LET c == SubSeq(i, 1, m)
             r == SubSeq(i, m + 1, Len(i))
         IN  /\ Keeping(n, q, d, b, << >>, t, r)
             /\ Keeping(n, q, d, b, c, t, r)
             /\ Keeping(n, q, d, b, Keystrokes(c), t, r)
  <1> DEFINE c == SubSeq(i, 1, m)
             r == SubSeq(i, m + 1, Len(i))
  <1>1. Fresh(n, d) /\ Fresh(n, b) /\ Fresh(n, t) /\ Fresh(n, i) /\ Fresh(n, << >>)
    BY DEF Keeping, AllFresh
  <1>2. /\ Sorted(q, d) /\ Sorted(q, b) /\ Sorted(q, t) /\ Sorted(q, i) /\ Sorted(q, << >>)
        /\ Before(q, d, b) /\ Before(q, d, t) /\ Before(q, d, i)
        /\ Before(q, b, t) /\ Before(q, b, i) /\ Before(q, t, i)
    BY DEF Keeping, AllSorted
  <1>3. \A s : Before(q, << >>, s) /\ Before(q, s, << >>)
    BY EmptySorted
  <1>4. /\ Sorted(q, c) /\ Sorted(q, r) /\ Before(q, c, r)
        /\ \A u : Before(q, u, i) => Before(q, u, c) /\ Before(q, u, r)
        /\ c \in Seq(Piece) /\ r \in Seq(Piece) /\ Fresh(n, c) /\ Fresh(n, r)
    BY <1>1, <1>2, SplitSorted, SplitParts, FreshParts
  <1> HIDE DEF c, r
  <1>5. Before(q, c, t)
    <2>1. CASE q
      BY <2>1, <1>3
    <2>2. CASE ~q
      <3>1. Before(q, t, c)
        BY <1>2, <1>4
      <3> QED
        BY <2>2, <3>1, BeforeSymmetric
    <2> QED
      BY <2>1, <2>2
  <1>6. Keeping(n, q, d, b, << >>, t, r)
    BY <1>1, <1>2, <1>3, <1>4 DEF Keeping, AllFresh, AllSorted
  <1>7. Keeping(n, q, d, b, c, t, r)
    BY <1>1, <1>2, <1>3, <1>4, <1>5 DEF Keeping, AllFresh, AllSorted
  <1>8. Keeping(n, q, d, b, Keystrokes(c), t, r)
    <2>1. Fresh(n, Keystrokes(c))
      BY <1>4, FreshParts
    <2>2. /\ Sorted(q, Keystrokes(c)) /\ Before(q, d, Keystrokes(c))
          /\ Before(q, b, Keystrokes(c)) /\ Before(q, Keystrokes(c), t)
          /\ Before(q, Keystrokes(c), r)
      BY <1>2, <1>4, <1>5, KeystrokesSorted
    <2> QED
      BY <1>1, <1>2, <1>3, <1>4, <2>1, <2>2 DEF Keeping, AllFresh, AllSorted
  <1> QED
    BY <1>6, <1>7, <1>8 DEF c, r

(* The stack is popped to match a prefix, and put back.                    *)
LEMMA PrefixKeeps ==
  ASSUME NEW n \in Nat, NEW q \in BOOLEAN, NEW d \in Seq(Piece), NEW b \in Seq(Piece),
         NEW h \in Seq(Piece), NEW t \in Seq(Piece), NEW i \in Seq(Piece),
         Keeping(n, q, d, b, h, t, i)
  PROVE  /\ h = << >> => Keeping(n, q, d, << >>, b, t, i)
         /\ (q => b = << >>) => Keeping(n, q, d, h \o b, << >>, t, i)
  <1>1. Fresh(n, d) /\ Fresh(n, b) /\ Fresh(n, h) /\ Fresh(n, t) /\ Fresh(n, i)
    BY DEF Keeping, AllFresh
  <1>2. /\ Sorted(q, d) /\ Sorted(q, b) /\ Sorted(q, h) /\ Sorted(q, t) /\ Sorted(q, i)
        /\ Before(q, d, b) /\ Before(q, d, h) /\ Before(q, d, t) /\ Before(q, d, i)
        /\ Before(q, b, h) /\ Before(q, b, t) /\ Before(q, b, i)
        /\ Before(q, h, t) /\ Before(q, h, i) /\ Before(q, t, i)
    BY DEF Keeping, AllSorted
  <1>3. /\ Sorted(q, << >>) /\ Fresh(n, << >>)
        /\ \A s : Before(q, << >>, s) /\ Before(q, s, << >>)
    BY EmptySorted, FreshParts, <1>1
  <1>4. h = << >> => Keeping(n, q, d, << >>, b, t, i)
    BY <1>1, <1>2, <1>3 DEF Keeping, AllFresh, AllSorted
  <1>5. ASSUME q => b = << >> PROVE Keeping(n, q, d, h \o b, << >>, t, i)
    <2>1. Before(q, h, b)
      <3>1. CASE q
        BY <3>1, <1>3, <1>5
      <3>2. CASE ~q
        BY <3>2, <1>2, BeforeSymmetric
      <3> QED
        BY <3>1, <3>2
    <2>2. Fresh(n, h \o b)
      BY <1>1, FreshParts
    <2>3. /\ Sorted(q, h \o b) /\ Before(q, d, h \o b)
          /\ Before(q, h \o b, t) /\ Before(q, h \o b, i)
      BY <1>2, <2>1, ConcatSorted, ConcatBefore
    <2> QED
      BY <1>1, <1>2, <1>3, <2>2, <2>3 DEF Keeping, AllFresh, AllSorted
  <1> QED
    BY <1>4, <1>5

(* What is held reaches the stack, or the first of it a command; or it is  *)
(* dropped.                                                                *)
LEMMA HandOverKeeps ==
  ASSUME NEW n \in Nat, NEW q \in BOOLEAN, NEW d \in Seq(Piece), NEW b \in Seq(Piece),
         NEW h \in Seq(Piece), NEW t \in Seq(Piece), NEW i \in Seq(Piece),
         Keeping(n, q, d, b, h, t, i)
  PROVE  /\ Keeping(n, q, d, b, << >>, t, i)
         /\ Keeping(n, q, d, b \o h, << >>, t, i)
         /\ ~q /\ h # << >> => Keeping(n, q, Append(d, Head(h)), b, << >>, t, i)
  <1>1. Fresh(n, d) /\ Fresh(n, b) /\ Fresh(n, h) /\ Fresh(n, t) /\ Fresh(n, i)
    BY DEF Keeping, AllFresh
  <1>2. /\ Sorted(q, d) /\ Sorted(q, b) /\ Sorted(q, h) /\ Sorted(q, t) /\ Sorted(q, i)
        /\ Before(q, d, b) /\ Before(q, d, h) /\ Before(q, d, t) /\ Before(q, d, i)
        /\ Before(q, b, h) /\ Before(q, b, t) /\ Before(q, b, i)
        /\ Before(q, h, t) /\ Before(q, h, i) /\ Before(q, t, i)
    BY DEF Keeping, AllSorted
  <1>3. /\ Sorted(q, << >>) /\ Fresh(n, << >>)
        /\ \A s : Before(q, << >>, s) /\ Before(q, s, << >>)
    BY EmptySorted, FreshParts, <1>1
  <1>4. Keeping(n, q, d, b, << >>, t, i)
    BY <1>1, <1>2, <1>3 DEF Keeping, AllFresh, AllSorted
  <1>5. Keeping(n, q, d, b \o h, << >>, t, i)
    <2>1. Fresh(n, b \o h)
      BY <1>1, FreshParts
    <2>2. /\ Sorted(q, b \o h) /\ Before(q, d, b \o h)
          /\ Before(q, b \o h, t) /\ Before(q, b \o h, i)
      BY <1>2, ConcatSorted, ConcatBefore
    <2> QED
      BY <1>1, <1>2, <1>3, <2>1, <2>2 DEF Keeping, AllFresh, AllSorted
  <1>6. ASSUME ~q, h # << >> PROVE Keeping(n, q, Append(d, Head(h)), b, << >>, t, i)
    <2> DEFINE k == <<Head(h)>>
    <2>1. /\ Head(h) \in Piece /\ k \in Seq(Piece) /\ Sorted(q, k)
          /\ \A u : Before(q, u, h) => Before(q, u, k)
          /\ \A u : Before(q, h, u) => Before(q, k, u)
      BY <1>2, <1>6, HeadTailSorted
    <2>2. Append(d, Head(h)) = d \o k
      BY <2>1, AppendIsConcat
    <2>3. Before(q, h, b)
      BY <1>2, <1>6, BeforeSymmetric
    <2> HIDE DEF k
    <2>4. Fresh(n, d \o k)
      BY <1>1, <1>6, <2>1, FreshParts DEF k
    <2>5. /\ Sorted(q, d \o k)
          /\ Before(q, d \o k, b) /\ Before(q, d \o k, t) /\ Before(q, d \o k, i)
      BY <1>2, <2>1, <2>3, ConcatSorted, ConcatBefore
    <2> QED
      BY <1>1, <1>2, <1>3, <2>2, <2>4, <2>5 DEF Keeping, AllFresh, AllSorted
  <1> QED
    BY <1>4, <1>5, <1>6

(* A key is taken from the stack and given to a command.                   *)
LEMMA DispatchKeeps ==
  ASSUME NEW n \in Nat, NEW q \in BOOLEAN, NEW d \in Seq(Piece), NEW b \in Seq(Piece),
         NEW h \in Seq(Piece), NEW t \in Seq(Piece), NEW i \in Seq(Piece),
         Keeping(n, q, d, b, h, t, i), b # << >>
  PROVE  Keeping(n, q, Append(d, Head(b)), Tail(b), h, t, i)
  <1> DEFINE k == <<Head(b)>>
             r == Tail(b)
  <1>1. Fresh(n, d) /\ Fresh(n, b) /\ Fresh(n, h) /\ Fresh(n, t) /\ Fresh(n, i)
    BY DEF Keeping, AllFresh
  <1>2. /\ Sorted(q, d) /\ Sorted(q, b) /\ Sorted(q, h) /\ Sorted(q, t) /\ Sorted(q, i)
        /\ Before(q, d, b) /\ Before(q, d, h) /\ Before(q, d, t) /\ Before(q, d, i)
        /\ Before(q, b, h) /\ Before(q, b, t) /\ Before(q, b, i)
        /\ Before(q, h, t) /\ Before(q, h, i) /\ Before(q, t, i)
    BY DEF Keeping, AllSorted
  <1>3. /\ Head(b) \in Piece /\ k \in Seq(Piece) /\ r \in Seq(Piece)
        /\ Sorted(q, k) /\ Sorted(q, r) /\ Before(q, k, r)
        /\ \A u : Before(q, u, b) => Before(q, u, k) /\ Before(q, u, r)
        /\ \A u : Before(q, b, u) => Before(q, k, u) /\ Before(q, r, u)
    BY <1>2, HeadTailSorted
  <1>4. Append(d, Head(b)) = d \o k
    BY <1>3, AppendIsConcat
  <1>5. Fresh(n, k) /\ Fresh(n, r)
    BY <1>1, FreshParts
  <1> HIDE DEF k, r
  <1>6. Fresh(n, d \o k)
    BY <1>1, <1>3, <1>5, FreshParts
  <1>7. /\ Sorted(q, d \o k) /\ Before(q, d \o k, r)
        /\ Before(q, d \o k, h) /\ Before(q, d \o k, t) /\ Before(q, d \o k, i)
    BY <1>2, <1>3, ConcatSorted, ConcatBefore
  <1> QED
    BY <1>1, <1>2, <1>3, <1>4, <1>5, <1>6, <1>7 DEF Keeping, AllFresh, AllSorted, r

(* The resize goroutine takes the input, and passes it back or drops it.   *)
LEMMA WatchKeeps ==
  ASSUME NEW n \in Nat, NEW q \in BOOLEAN, NEW d \in Seq(Piece), NEW b \in Seq(Piece),
         NEW h \in Seq(Piece), NEW t \in Seq(Piece), NEW i \in Seq(Piece),
         Keeping(n, q, d, b, h, t, i)
  PROVE  /\ \A m \in 1 .. Len(i) :
              t = << >> => /\ Keeping(n, q, d, b, h, << >>, SubSeq(i, m + 1, Len(i)))
                           /\ Keeping(n, q, d, b, h, SubSeq(i, 1, m), SubSeq(i, m + 1, Len(i)))
         /\ ~q => Keeping(n, q, d, b \o t, h, << >>, i)
  <1>1. Fresh(n, d) /\ Fresh(n, b) /\ Fresh(n, h) /\ Fresh(n, t) /\ Fresh(n, i)
    BY DEF Keeping, AllFresh
  <1>2. /\ Sorted(q, d) /\ Sorted(q, b) /\ Sorted(q, h) /\ Sorted(q, t) /\ Sorted(q, i)
        /\ Before(q, d, b) /\ Before(q, d, h) /\ Before(q, d, t) /\ Before(q, d, i)
        /\ Before(q, b, h) /\ Before(q, b, t) /\ Before(q, b, i)
        /\ Before(q, h, t) /\ Before(q, h, i) /\ Before(q, t, i)
    BY DEF Keeping, AllSorted
  <1>3. /\ Sorted(q, << >>) /\ Fresh(n, << >>)
        /\ \A s : Before(q, << >>, s) /\ Before(q, s, << >>)
    BY EmptySorted, FreshParts, <1>1
  <1>4. ASSUME NEW m \in 1 .. Len(i), t = << >>
        PROVE  /\ Keeping(n, q, d, b, h, << >>, SubSeq(i, m + 1, Len(i)))
               /\ Keeping(n, q, d, b, h, SubSeq(i, 1, m), SubSeq(i, m + 1, Len(i)))
    <2> DEFINE c == SubSeq(i, 1, m)
               r == SubSeq(i, m + 1, Len(i))
    <2>1. /\ Sorted(q, c) /\ Sorted(q, r) /\ Before(q, c, r)
          /\ \A u : Before(q, u, i) => Before(q, u, c) /\ Before(q, u, r)
          /\ Fresh(n, c) /\ Fresh(n, r)
      BY <1>1, <1>2, SplitSorted, FreshParts
    <2> HIDE DEF c, r
    <2>2. Keeping(n, q, d, b, h, << >>, r) /\ Keeping(n, q, d, b, h, c, r)
      BY <1>1, <1>2, <1>3, <2>1 DEF Keeping, AllFresh, AllSorted
    <2> QED
      BY <2>2 DEF c, r
  <1>5. ASSUME ~q PROVE Keeping(n, q, d, b \o t, h, << >>, i)
    <2>1. Fresh(n, b \o t)
      BY <1>1, FreshParts
    <2>2. Before(q, t, h)
      BY <1>2, <1>5, BeforeSymmetric
    <2>3. /\ Sorted(q, b \o t) /\ Before(q, d, b \o t)
          /\ Before(q, b \o t, h) /\ Before(q, b \o t, i)
      BY <1>2, <2>2, ConcatSorted, ConcatBefore
    <2> QED
      BY <1>1, <1>2, <1>3, <2>1, <2>3 DEF Keeping, AllFresh, AllSorted
  <1> QED
    BY <1>4, <1>5

-----------------------------------------------------------------------------
(* The inductive invariant                                                 *)

(* Where keys and reports can be: what was held or taken is empty unless   *)
(* the goroutine that holds it is about to pass it on, a dispatch has a    *)
(* key, and nobody reads behind the back of the loop when it is alone.     *)
Places ==
  /\ quiet \in BOOLEAN
  /\ mpc \notin {"pass", "send", "store", "prefix", "send-key", "use-key"} => held = << >>
  /\ mpc \in {"pass", "store", "use-key"} => held # << >>
  /\ taken = << >> <=> wpc \notin {"load", "append"}
  /\ mpc = "dispatch" \/ (mpc = "waited" /\ ~eof) => buf # << >>
  /\ quiet => wpc = "idle" /\ mpc \notin {"read-key", "send-key", "use-key"}
  /\ quiet /\ mpc = "prefix" => buf = << >>

(* An append that no change of the stack overlaps finds it as it was       *)
(* loaded; the main goroutine alone has no such change.                    *)
Appending ==
  /\ races = 0 /\ wpc = "append" => loaded = buf
  /\ races = 0 => ~overwritten
  /\ quiet => races = 0

(* As long as no report is cut, the input has whole ones and nothing else  *)
(* has a piece of one.                                                     *)
Uncut ==
  cuts = 0 => /\ Whole(stdin)
              /\ buf \in Seq(Key) /\ held \in Seq(Key) /\ done \in Seq(Key)
              /\ loaded \in Seq(Key) /\ taken \in Seq(Key)

Ordered == races = 0 => Keeping(typed, quiet, done, buf, held, taken, stdin)

IInv == TypeOK /\ Places /\ Appending /\ Uncut /\ Ordered

(* The parts of TypeOK: the sequences, and the rest.                       *)
SeqTypes ==
  /\ stdin \in Seq(Piece) /\ taken \in Seq(Piece)
  /\ buf \in Seq(Piece) /\ loaded \in Seq(Piece)
  /\ held \in Seq(Piece) /\ done \in Seq(Piece)

ControlTypes ==
  /\ typed \in 0 .. MaxKeys /\ resizes \in 0 .. MaxResizes /\ queries \in Nat
  /\ cuts \in Nat /\ races \in Nat
  /\ closed \in BOOLEAN /\ overwritten \in BOOLEAN
  /\ mustWait \in BOOLEAN /\ waiting \in BOOLEAN /\ reading \in BOOLEAN /\ eof \in BOOLEAN
  /\ again \in BOOLEAN /\ wagain \in BOOLEAN /\ stale \in BOOLEAN
  /\ mpc \in {"refresh", "query", "pass", "ensure", "wait", "read", "send", "store", "waited",
              "dispatch", "prefix", "read-key", "send-key", "use-key", "paste", "returned",
              "panic"}
  /\ caller \in {"dispatch", "paste"}
  /\ wpc \in {"idle", "query", "receive", "read", "load", "append", "ensure"}

\* The type invariant, in parts.
LEMMA TypeParts ==
  /\ TypeOK => SeqTypes /\ ControlTypes
  /\ SeqTypes /\ ControlTypes /\ Uncut => TypeOK
  BY DEF TypeOK, SeqTypes, ControlTypes, Uncut

\* The invariant holds at first.
LEMMA InitIInv == Init => IInv
  <1> SUFFICES ASSUME Init PROVE IInv
    OBVIOUS
  <1>1. MaxKeys \in Nat /\ MaxResizes \in Nat
    BY KeysAssumption
  <1>2. SeqTypes
    BY DEF Init, SeqTypes
  <1>3. ControlTypes
    <2>1. typed \in 0 .. MaxKeys /\ resizes \in 0 .. MaxResizes
      BY <1>1 DEF Init
    <2> QED
      BY <2>1 DEF Init, ControlTypes
  <1>4. Places /\ Appending
    BY DEF Init, Places, Appending
  <1>5. Uncut
    BY DEF Init, Uncut, Whole
  <1>6. Ordered
    BY EmptySorted DEF Init, Ordered, Keeping, AllFresh, AllSorted, Fresh
  <1> QED
    BY <1>2, <1>3, <1>4, <1>5, <1>6, TypeParts DEF IInv

-----------------------------------------------------------------------------
(* The steps, as moves of keys: a key or a report arrives, the loop reads, *)
(* what it holds reaches the stack or a command, a command takes a key     *)
(* from the stack, the stack is popped and put back, the resize goroutine  *)
(* reads, or appends, or no key moves.                                     *)
Still == UNCHANGED <<typed, cuts>>

Arrival ==
  /\ UNCHANGED <<cuts, done, buf, held, taken, loaded>>
  /\ \/ typed' = typed + 1 /\ typed + 1 \in Key /\ stdin' = Append(stdin, typed + 1)
     \/ typed' = typed /\ stdin' = stdin \o <<Esc, Rest>>

Reading(n) ==
  /\ stdin' = SubSeq(stdin, n + 1, Len(stdin))
  /\ cuts' = IF stdin[n] = Esc THEN cuts + 1 ELSE cuts
  /\ UNCHANGED <<typed, done, buf, loaded>>

Intake(n) ==
  /\ Reading(n) /\ held = << >> /\ taken' = taken
  /\ \/ held' = << >>
     \/ ~HasReply(SubSeq(stdin, 1, n)) /\ held' = SubSeq(stdin, 1, n)
     \/ held' = Keystrokes(SubSeq(stdin, 1, n))

HandOver ==
  /\ Still /\ held' = << >>
  /\ UNCHANGED <<taken, loaded, stdin>>
  /\ \/ buf' = buf \o held /\ done' = done
     \/ ~quiet /\ held # << >> /\ done' = Append(done, Head(held)) /\ buf' = buf

Taking ==
  /\ Still /\ buf # << >>
  /\ done' = Append(done, Head(buf)) /\ buf' = Tail(buf)
  /\ UNCHANGED <<held, taken, loaded, stdin>>

Prefixing ==
  /\ Still /\ UNCHANGED <<done, taken, loaded, stdin>>
  /\ \/ held = << >> /\ held' = buf /\ buf' = << >>
     \/ (quiet => buf = << >>) /\ held' = << >> /\ buf' = held \o buf

WatchIntake(n) ==
  /\ Reading(n) /\ taken = << >> /\ held' = held
  /\ \/ taken' = << >>
     \/ ~HasReply(SubSeq(stdin, 1, n)) /\ taken' = SubSeq(stdin, 1, n)

Loading ==
  /\ Still /\ loaded' = buf
  /\ UNCHANGED <<done, buf, held, taken, stdin>>

Returning ==
  /\ Still /\ taken' = << >> /\ loaded' = << >>
  /\ UNCHANGED <<done, held, stdin>>
  /\ \/ buf' = buf /\ races # 0
     \/ buf' = loaded \o taken /\ (races = 0 => ~quiet /\ loaded = buf)

NoMove == Still /\ UNCHANGED <<done, buf, held, taken, loaded, stdin>>

Moves ==
  \/ Arrival
  \/ \E n \in 1 .. Len(stdin) : Intake(n) \/ WatchIntake(n)
  \/ HandOver \/ Taking \/ Prefixing \/ Loading \/ Returning \/ NoMove

\* Every step moves input in one of these ways, and no race is forgotten.
LEMMA StepsAreMoves ==
  ASSUME ControlTypes, Places, Appending, Next
  PROVE  quiet' = quiet /\ (races' = 0 => races = 0) /\ Moves
  <1> USE DEF Places, Moves, NoMove, Still, input, flags, stack, main, watch
  <1>0. ASSUME NEW k, StackStore(k) PROVE buf' = k /\ (races' = 0 => races = 0)
    <2>1. races \in Nat
      BY DEF ControlTypes
    <2> QED
      BY <1>0, <2>1 DEF StackStore, Counted
  <1>00. ASSUME NEW n, Take(n)
         PROVE  /\ stdin' = SubSeq(stdin, n + 1, Len(stdin))
                /\ cuts' = IF stdin[n] = Esc THEN cuts + 1 ELSE cuts
                /\ UNCHANGED <<quiet, typed>>
    BY <1>00 DEF Take, Counted
  <1>1. CASE Type
    BY <1>1, KeysAssumption DEF Type, ControlTypes, Arrival, Key
  <1>2. CASE Answer
    BY <1>2 DEF Answer, Arrival
  <1>3. CASE Close
    BY <1>3 DEF Close
  <1>4. CASE Refresh
    BY <1>4 DEF Refresh, Query
  <1>5. CASE QueryRead
    <2>1. PICK n \in 1 .. Len(stdin) :
            /\ Take(n)
            /\ IF HasReply(SubSeq(stdin, 1, n)) THEN held' = held
               ELSE held' = SubSeq(stdin, 1, n)
      BY <1>5 DEF QueryRead
    <2>2. held = << >> /\ UNCHANGED <<stack, watch, done>>
      BY <1>5 DEF QueryRead
    <2>3. Intake(n)
      BY <2>1, <2>2, <1>00 DEF Intake, Reading
    <2> QED
      BY <2>1, <2>2, <2>3, <1>00
  <1>6. CASE QueryPass
    BY <1>6, <1>0 DEF QueryPass, PassBack, HandOver
  <1>7. CASE QueryFails
    BY <1>7 DEF QueryFails
  <1>8. CASE EnsureInputSpace
    BY <1>8 DEF EnsureInputSpace, Query
  <1>9. CASE Wait
    BY <1>9 DEF Wait
  <1>10. CASE Read
    <2>1. PICK n \in 1 .. Len(stdin) : Take(n) /\ held' = Keystrokes(SubSeq(stdin, 1, n))
      BY <1>10 DEF Read
    <2>2. held = << >> /\ UNCHANGED <<stack, watch, done>>
      BY <1>10 DEF Read
    <2>3. Intake(n)
      BY <2>1, <2>2, <1>00 DEF Intake, Reading
    <2> QED
      BY <2>1, <2>2, <2>3, <1>00
  <1>11. CASE ReadEOF
    BY <1>11 DEF ReadEOF
  <1>12. CASE Send
    BY <1>12 DEF Send
  <1>13. CASE Store
    BY <1>13, <1>0 DEF Store, HandOver
  <1>14. CASE Waited
    BY <1>14 DEF Waited
  <1>15. CASE Dispatch
    BY <1>15, <1>0 DEF Dispatch, Pop, Taking
  <1>16. CASE DispatchPrefix
    BY <1>16, <1>0 DEF DispatchPrefix, Prefixing
  <1>17. CASE MatchedPrefix
    BY <1>17, <1>0 DEF MatchedPrefix, Prefixing
  <1>18. CASE DispatchReader
    BY <1>18, <1>0 DEF DispatchReader, Pop, Taking
  <1>19. CASE ReadKey
    <2>1. PICK n \in 1 .. Len(stdin) : Take(n) /\ held' = Keystrokes(SubSeq(stdin, 1, n))
      BY <1>19 DEF ReadKey
    <2>2. held = << >> /\ UNCHANGED <<stack, watch, done>>
      BY <1>19 DEF ReadKey
    <2>3. Intake(n)
      BY <2>1, <2>2, <1>00 DEF Intake, Reading
    <2> QED
      BY <2>1, <2>2, <2>3, <1>00
  <1>20. CASE SendKey
    BY <1>20 DEF SendKey
  <1>21. CASE UseKey
    BY <1>21 DEF UseKey, HandOver
  <1>22. CASE ReadKeyEOF
    BY <1>22 DEF ReadKeyEOF
  <1>23. CASE DispatchPaste
    BY <1>23, <1>0 DEF DispatchPaste, Pop, Taking
  <1>24. CASE Paste
    BY <1>24, <1>0 DEF Paste, Pop, Taking
  <1>25. CASE Resize
    BY <1>25 DEF Resize, Query
  <1>26. CASE WatchCheck
    BY <1>26 DEF WatchCheck
  <1>27. CASE WatchRead
    <2>1. PICK n \in 1 .. Len(stdin) :
            /\ Take(n)
            /\ IF HasReply(SubSeq(stdin, 1, n)) THEN taken' = taken
               ELSE taken' = SubSeq(stdin, 1, n)
      BY <1>27 DEF WatchRead
    <2>2. taken = << >> /\ UNCHANGED <<stack, main, loaded, done>>
      BY <1>27 DEF WatchRead
    <2>3. WatchIntake(n)
      BY <2>1, <2>2, <1>00 DEF WatchIntake, Reading
    <2> QED
      BY <2>1, <2>2, <2>3, <1>00
  <1>28. CASE WatchLoad
    BY <1>28 DEF WatchLoad, Loading
  <1>29. CASE WatchAppend
    BY <1>29 DEF WatchAppend, PassBack, Returning, Appending
  <1>30. CASE WatchFails
    BY <1>30 DEF WatchFails
  <1>31. CASE WatchEnsure
    BY <1>31 DEF WatchEnsure, Query
  <1> QED
    BY <1>1, <1>2, <1>3, <1>4, <1>5, <1>6, <1>7, <1>8, <1>9, <1>10, <1>11, <1>12, <1>13,
       <1>14, <1>15, <1>16, <1>17, <1>18, <1>19, <1>20, <1>21, <1>22, <1>23, <1>24, <1>25,
       <1>26, <1>27, <1>28, <1>29, <1>30, <1>31
       DEF Next, Environment, Main, Refreshing

\* A key is a piece.
LEMMA KeysArePieces ==
  /\ Key \subseteq Piece /\ Esc \in Piece /\ Rest \in Piece
  /\ \A s \in Seq(Key) : s \in Seq(Piece)
  <1>1. Key \subseteq Piece /\ Esc \in Piece /\ Rest \in Piece
    BY DEF Piece
  <1> QED
    BY <1>1, SeqMonotonic

(* What moves is pieces of the input.                                      *)
LEMMA SeqTypesNext ==
  ASSUME SeqTypes, Moves
  PROVE  SeqTypes'
  <1> USE DEF SeqTypes
  <1>1. CASE Arrival
    <2>1. CASE typed + 1 \in Key /\ stdin' = Append(stdin, typed + 1)
      <3>1. typed + 1 \in Piece
        BY <2>1, KeysArePieces
      <3> QED
        BY <1>1, <2>1, <3>1 DEF Arrival
    <2>2. CASE stdin' = stdin \o <<Esc, Rest>>
      <3>1. <<Esc, Rest>> \in Seq(Piece)
        BY KeysArePieces
      <3>2. stdin' \in Seq(Piece)
        BY <2>2, <3>1
      <3> QED
        BY <1>1, <3>2 DEF Arrival
    <2> QED
      BY <1>1, <2>1, <2>2 DEF Arrival
  <1>2. CASE \E n \in 1 .. Len(stdin) : Intake(n) \/ WatchIntake(n)
    <2>1. PICK n \in 1 .. Len(stdin) : Intake(n) \/ WatchIntake(n)
      BY <1>2
    <2>2. SubSeq(stdin, 1, n) \in Seq(Piece) /\ SubSeq(stdin, n + 1, Len(stdin)) \in Seq(Piece)
      BY SplitParts
    <2>3. Keystrokes(SubSeq(stdin, 1, n)) \in Seq(Piece)
      BY <2>2, KeystrokesEmbed
    <2>4. << >> \in Seq(Piece)
      OBVIOUS
    <2> QED
      BY <2>1, <2>2, <2>3, <2>4 DEF Intake, WatchIntake, Reading
  <1>3. CASE HandOver
    <2>1. CASE buf' = buf \o held /\ done' = done
      BY <1>3, <2>1 DEF HandOver
    <2>2. CASE held # << >> /\ done' = Append(done, Head(held)) /\ buf' = buf
      <3>1. Head(held) \in Piece
        BY <2>2
      <3> QED
        BY <1>3, <2>2, <3>1 DEF HandOver
    <2> QED
      BY <1>3, <2>1, <2>2 DEF HandOver
  <1>4. CASE Taking
    <2>1. Head(buf) \in Piece /\ Tail(buf) \in Seq(Piece)
      BY <1>4 DEF Taking
    <2> QED
      BY <1>4, <2>1 DEF Taking
  <1>5. CASE Prefixing
    <2>1. held \o buf \in Seq(Piece) /\ << >> \in Seq(Piece)
      OBVIOUS
    <2>2. buf' \in Seq(Piece) /\ held' \in Seq(Piece)
      BY <1>5, <2>1 DEF Prefixing
    <2> QED
      BY <1>5, <2>2 DEF Prefixing
  <1>6. CASE Loading
    BY <1>6 DEF Loading
  <1>7. CASE Returning
    <2>1. loaded \o taken \in Seq(Piece) /\ << >> \in Seq(Piece)
      OBVIOUS
    <2>2. buf' \in Seq(Piece) /\ taken' \in Seq(Piece) /\ loaded' \in Seq(Piece)
      BY <1>7, <2>1 DEF Returning
    <2> QED
      BY <1>7, <2>2 DEF Returning
  <1>8. CASE NoMove
    BY <1>8 DEF NoMove
  <1> QED
    BY <1>1, <1>2, <1>3, <1>4, <1>5, <1>6, <1>7, <1>8 DEF Moves

(* Only keys leave the input, as long as no report is cut.                 *)
LEMMA UncutNext ==
  ASSUME SeqTypes, cuts \in Nat, Uncut, Moves
  PROVE  Uncut'
  <1> SUFFICES ASSUME cuts' = 0
               PROVE  /\ Whole(stdin')
                      /\ buf' \in Seq(Key) /\ held' \in Seq(Key) /\ done' \in Seq(Key)
                      /\ loaded' \in Seq(Key) /\ taken' \in Seq(Key)
    BY DEF Uncut, Whole
  <1>0. cuts = 0
    BY DEF Moves, Arrival, Intake, WatchIntake, Reading, HandOver, Taking, Prefixing, Loading,
           Returning, NoMove, Still
  <1>1. /\ Whole(stdin) /\ stdin \in Seq(Piece)
        /\ buf \in Seq(Key) /\ held \in Seq(Key) /\ done \in Seq(Key)
        /\ loaded \in Seq(Key) /\ taken \in Seq(Key)
    BY <1>0 DEF Uncut, SeqTypes
  <1>2. CASE Arrival
    <2>1. Whole(stdin')
      BY <1>1, <1>2, ArrivalWhole DEF Arrival
    <2> QED
      BY <1>1, <1>2, <2>1 DEF Arrival
  <1>3. CASE \E n \in 1 .. Len(stdin) : Intake(n) \/ WatchIntake(n)
    <2>1. PICK n \in 1 .. Len(stdin) : Intake(n) \/ WatchIntake(n)
      BY <1>3
    <2> DEFINE c == SubSeq(stdin, 1, n)
    <2>2. Reading(n) /\ stdin[n] # Esc
      BY <2>1, <1>0 DEF Intake, WatchIntake, Reading
    <2>3. Whole(c) /\ Whole(stdin') /\ c \in Seq(Piece)
      BY <1>1, <2>2, SplitWhole, SplitParts DEF Reading
    <2>4. (~HasReply(c) => c \in Seq(Key)) /\ Keystrokes(c) \in Seq(Key)
      BY <2>3, WholeKeys
    <2>5. << >> \in Seq(Key)
      OBVIOUS
    <2> QED
      BY <1>1, <2>1, <2>3, <2>4, <2>5 DEF Intake, WatchIntake, Reading
  <1>4. CASE HandOver
    <2>1. CASE buf' = buf \o held /\ done' = done
      BY <1>1, <1>4, <2>1 DEF HandOver
    <2>2. CASE held # << >> /\ done' = Append(done, Head(held)) /\ buf' = buf
      <3>1. Head(held) \in Key
        BY <1>1, <2>2
      <3> QED
        BY <1>1, <1>4, <2>2, <3>1 DEF HandOver
    <2> QED
      BY <1>4, <2>1, <2>2 DEF HandOver
  <1>5. CASE Taking
    <2>1. Head(buf) \in Key /\ Tail(buf) \in Seq(Key)
      BY <1>1, <1>5 DEF Taking
    <2> QED
      BY <1>1, <1>5, <2>1 DEF Taking
  <1>6. CASE Prefixing
    <2>1. held \o buf \in Seq(Key) /\ << >> \in Seq(Key)
      BY <1>1
    <2>2. buf' \in Seq(Key) /\ held' \in Seq(Key)
      BY <1>1, <1>6, <2>1 DEF Prefixing
    <2> QED
      BY <1>1, <1>6, <2>2 DEF Prefixing
  <1>7. CASE Loading
    BY <1>1, <1>7 DEF Loading
  <1>8. CASE Returning
    <2>1. loaded \o taken \in Seq(Key) /\ << >> \in Seq(Key)
      BY <1>1
    <2>2. buf' \in Seq(Key) /\ taken' \in Seq(Key) /\ loaded' \in Seq(Key)
      BY <1>1, <1>8, <2>1 DEF Returning
    <2> QED
      BY <1>1, <1>8, <2>2 DEF Returning
  <1>9. CASE NoMove
    BY <1>1, <1>9 DEF NoMove
  <1> QED
    BY <1>2, <1>3, <1>4, <1>5, <1>6, <1>7, <1>8, <1>9 DEF Moves

(* The keys stay in order, as long as no changes of the stack overlap.     *)
LEMMA OrderedNext ==
  ASSUME SeqTypes, ControlTypes, Places, Ordered, quiet' = quiet, races' = 0 => races = 0, Moves
  PROVE  Ordered'
  <1>1. /\ typed \in Nat /\ quiet \in BOOLEAN
        /\ done \in Seq(Piece) /\ buf \in Seq(Piece) /\ held \in Seq(Piece)
        /\ taken \in Seq(Piece) /\ stdin \in Seq(Piece)
        /\ quiet => taken = << >>
    BY DEF SeqTypes, ControlTypes, Places
  <1> SUFFICES ASSUME races' = 0
               PROVE  Keeping(typed', quiet, done', buf', held', taken', stdin')
    BY DEF Ordered
  <1>2. races = 0 /\ Keeping(typed, quiet, done, buf, held, taken, stdin)
    BY DEF Ordered
  <1>3. CASE Arrival
    <2>1. /\ Keeping(typed, quiet, done, buf, held, taken, stdin \o <<Esc, Rest>>)
          /\ typed + 1 \in Key =>
               Keeping(typed + 1, quiet, done, buf, held, taken, Append(stdin, typed + 1))
      BY <1>1, <1>2, ArrivalKeeps
    <2> QED
      BY <1>3, <2>1 DEF Arrival
  <1>4. CASE \E n \in 1 .. Len(stdin) : Intake(n)
    <2>1. PICK n \in 1 .. Len(stdin) : Intake(n)
      BY <1>4
    <2> DEFINE c == SubSeq(stdin, 1, n)
               r == SubSeq(stdin, n + 1, Len(stdin))
    <2>2. Keeping(typed, quiet, done, buf, << >>, taken, stdin)
      BY <1>2, <2>1 DEF Intake
    <2>3. /\ Keeping(typed, quiet, done, buf, << >>, taken, r)
          /\ Keeping(typed, quiet, done, buf, c, taken, r)
          /\ Keeping(typed, quiet, done, buf, Keystrokes(c), taken, r)
      BY <1>1, <2>2, ReadKeeps
    <2> QED
      BY <2>1, <2>3 DEF Intake, Reading
  <1>5. CASE \E n \in 1 .. Len(stdin) : WatchIntake(n)
    <2>1. PICK n \in 1 .. Len(stdin) : WatchIntake(n)
      BY <1>5
    <2> DEFINE c == SubSeq(stdin, 1, n)
               r == SubSeq(stdin, n + 1, Len(stdin))
    <2>2. taken = << >>
      BY <2>1 DEF WatchIntake
    <2>3. /\ Keeping(typed, quiet, done, buf, held, << >>, r)
          /\ Keeping(typed, quiet, done, buf, held, c, r)
      BY <1>1, <1>2, <2>2, WatchKeeps
    <2> QED
      BY <2>1, <2>3 DEF WatchIntake, Reading
  <1>6. CASE HandOver
    <2>1. /\ Keeping(typed, quiet, done, buf \o held, << >>, taken, stdin)
          /\ ~quiet /\ held # << >> =>
               Keeping(typed, quiet, Append(done, Head(held)), buf, << >>, taken, stdin)
      BY <1>1, <1>2, HandOverKeeps
    <2> QED
      BY <1>6, <2>1 DEF HandOver, Still
  <1>7. CASE Taking
    BY <1>1, <1>2, <1>7, DispatchKeeps DEF Taking, Still
  <1>8. CASE Prefixing
    <2>1. /\ held = << >> => Keeping(typed, quiet, done, << >>, buf, taken, stdin)
          /\ (quiet => buf = << >>) =>
               Keeping(typed, quiet, done, held \o buf, << >>, taken, stdin)
      BY <1>1, <1>2, PrefixKeeps
    <2> QED
      BY <1>8, <2>1 DEF Prefixing, Still
  <1>9. CASE Returning
    <2>1. ~quiet /\ buf' = buf \o taken
      BY <1>2, <1>9 DEF Returning
    <2>2. ~quiet => Keeping(typed, quiet, done, buf \o taken, held, << >>, stdin)
      BY <1>1, <1>2, WatchKeeps
    <2> QED
      BY <1>9, <2>1, <2>2 DEF Returning, Still
  <1>10. CASE Loading \/ NoMove
    BY <1>2, <1>10 DEF Loading, NoMove, Still
  <1> QED
    BY <1>3, <1>4, <1>5, <1>6, <1>7, <1>8, <1>9, <1>10 DEF Moves

-----------------------------------------------------------------------------
(* The control: where the goroutines are, and what that says of the keys.  *)

(* A read without a report takes a key at least.                           *)
LEMMA KeystrokesSome ==
  ASSUME NEW chunk \in Seq(Piece), chunk # << >>, ~HasReply(chunk)
  PROVE  Keystrokes(chunk) # << >>
  <1> DEFINE len == Len(chunk)
  <1>1. PICK kept : IsKept(kept, chunk) /\ Keystrokes(chunk) = kept[len]
    BY KeystrokesDefined
  <1>2. len \in Nat /\ 1 <= len
    OBVIOUS
  <1>3. ~InReport(chunk, len)
    <2>1. len > 1 => len - 1 \in 1 .. len - 1 /\ (len - 1) + 1 = len
      BY <1>2
    <2> HIDE DEF len
    <2>2. ~(len > 1 /\ ReportAt(chunk, len - 1))
      BY <2>1 DEF HasReply, len
    <2>3. ~(len < len)
      BY <1>2
    <2> QED
      BY <2>2, <2>3 DEF InReport, len
  <1> HIDE DEF len
  <1>4. len \in 1 .. len /\ len - 1 \in 0 .. len
    BY <1>2
  <1>5. kept[len] = Append(kept[len - 1], chunk[len]) /\ kept[len - 1] \in Seq(Piece)
    BY <1>1, <1>3, <1>4 DEF IsKept, len
  <1>6. chunk[len] \in Piece
    BY <1>4 DEF len
  <1>7. Len(Append(kept[len - 1], chunk[len])) # 0
    BY <1>5, <1>6
  <1> QED
    BY <1>1, <1>5, <1>7

(* What a read without a report takes, and what is appended to, is there.  *)
LEMMA ReadsSome ==
  ASSUME SeqTypes
  PROVE  /\ \A n \in 1 .. Len(stdin) :
              /\ SubSeq(stdin, 1, n) # << >>
              /\ ~HasReply(SubSeq(stdin, 1, n)) => Keystrokes(SubSeq(stdin, 1, n)) # << >>
         /\ held # << >> => buf \o held # << >>
         /\ taken # << >> => loaded \o taken # << >>
  <1>1. ASSUME NEW n \in 1 .. Len(stdin)
        PROVE  /\ SubSeq(stdin, 1, n) # << >>
               /\ ~HasReply(SubSeq(stdin, 1, n)) => Keystrokes(SubSeq(stdin, 1, n)) # << >>
    <2> DEFINE c == SubSeq(stdin, 1, n)
    <2>1. c \in Seq(Piece) /\ Len(c) = n
      BY SplitParts DEF SeqTypes
    <2>2. c # << >>
      BY <2>1
    <2> QED
      BY <2>1, <2>2, KeystrokesSome
  <1>2. ASSUME NEW s \in Seq(Piece), NEW t \in Seq(Piece), t # << >> PROVE s \o t # << >>
    <2>1. Len(s \o t) = Len(s) + Len(t) /\ Len(t) # 0
      BY <1>2
    <2> QED
      BY <2>1
  <1> QED
    BY <1>1, <1>2 DEF SeqTypes

(* A change of the stack during an append is counted.                      *)
LEMMA StackStored ==
  ASSUME races \in Nat, overwritten \in BOOLEAN, NEW k, StackStore(k)
  PROVE  /\ races' \in Nat /\ overwritten' \in BOOLEAN
         /\ races' = 0 => races = 0 /\ wpc # "append" /\ overwritten' = FALSE
         /\ wpc # "append" => races' = races
  <1>1. CASE wpc # "append"
    <2>1. Unlocked
      BY <1>1 DEF Unlocked
    <2>2. overwritten' \in {FALSE} /\ races' = races
      BY <2>1 DEF StackStore, Counted
    <2> QED
      BY <1>1, <2>2
  <1>2. CASE wpc = "append"
    <2>1. ~Unlocked
      BY <1>2 DEF Unlocked
    <2>2. overwritten' \in {overwritten, TRUE} /\ races' = races + 1
      BY <2>1 DEF StackStore, Counted
    <2>3. races' \in Nat /\ races' # 0
      BY <2>2
    <2>4. overwritten' \in BOOLEAN
      BY <2>2, Zenon
    <2> QED
      BY <1>2, <2>3, <2>4
  <1> QED
    BY <1>1, <1>2

LEMMA ControlNext ==
  ASSUME ControlTypes, Next
  PROVE  ControlTypes'
  <1> USE DEF ControlTypes, input, flags, stack, main, watch
  <1>0. MaxKeys \in Nat /\ MaxResizes \in Nat
    BY KeysAssumption
  <1>a. ASSUME NEW k, StackStore(k) PROVE races' \in Nat /\ overwritten' \in BOOLEAN
    BY <1>a, StackStored
  <1>b. ASSUME NEW n, Take(n) PROVE cuts' \in Nat /\ UNCHANGED <<quiet, typed, closed, queries>>
    BY <1>b DEF Take, Counted
  <1>1. CASE Type
    BY <1>0, <1>1 DEF Type
  <1>2. CASE Answer
    BY <1>2 DEF Answer
  <1>3. CASE Close
    BY <1>3 DEF Close
  <1>4. CASE Refresh
    <2>1. queries' \in Nat /\ UNCHANGED <<typed, closed, cuts>>
      BY <1>4 DEF Refresh, Query
    <2> QED
      BY <1>4, <2>1 DEF Refresh
  <1>5. CASE QueryRead
    <2>1. cuts' \in Nat /\ UNCHANGED <<quiet, typed, closed, queries>>
      BY <1>5, <1>b DEF QueryRead
    <2> QED
      BY <1>5, <2>1 DEF QueryRead, AfterQuery
  <1>6. CASE QueryPass
    <2>1. races' \in Nat /\ overwritten' \in BOOLEAN
      BY <1>6, <1>a DEF QueryPass
    <2> QED
      BY <1>6, <2>1 DEF QueryPass
  <1>7. CASE QueryFails
    BY <1>7 DEF QueryFails, AfterQuery
  <1>8. CASE EnsureInputSpace
    BY <1>8 DEF EnsureInputSpace, Query
  <1>9. CASE Wait
    <2>1. stale' \in BOOLEAN /\ waiting' \in BOOLEAN
      BY <1>9, Zenon DEF Wait
    <2>2. mpc' \in {"read", "returned", "dispatch", "paste"}
      BY <1>9 DEF Wait, Returns
    <2> QED
      BY <1>9, <2>1, <2>2 DEF Wait
  <1>10. CASE Read
    <2>1. cuts' \in Nat /\ UNCHANGED <<quiet, typed, closed, queries>>
      BY <1>10, <1>b DEF Read
    <2> QED
      BY <1>10, <2>1 DEF Read
  <1>11. CASE ReadEOF
    BY <1>11 DEF ReadEOF
  <1>12. CASE Send
    BY <1>12 DEF Send, AfterQuery
  <1>13. CASE Store
    <2>1. races' \in Nat /\ overwritten' \in BOOLEAN
      BY <1>13, <1>a DEF Store
    <2> QED
      BY <1>13, <2>1 DEF Store
  <1>14. CASE Waited
    BY <1>14 DEF Waited, Returns
  <1>15. CASE Dispatch
    <2>1. races' \in Nat /\ overwritten' \in BOOLEAN
      BY <1>15, <1>a DEF Dispatch, Pop
    <2> QED
      BY <1>15, <2>1 DEF Dispatch, Pop
  <1>16. CASE DispatchPrefix
    <2>1. races' \in Nat /\ overwritten' \in BOOLEAN
      BY <1>16, <1>a DEF DispatchPrefix
    <2> QED
      BY <1>16, <2>1 DEF DispatchPrefix
  <1>17. CASE MatchedPrefix
    <2>1. races' \in Nat /\ overwritten' \in BOOLEAN
      BY <1>17, <1>a DEF MatchedPrefix
    <2> QED
      BY <1>17, <2>1 DEF MatchedPrefix
  <1>18. CASE DispatchReader
    <2>1. races' \in Nat /\ overwritten' \in BOOLEAN
      BY <1>18, <1>a DEF DispatchReader, Pop
    <2> QED
      BY <1>18, <2>1 DEF DispatchReader, Pop
  <1>19. CASE ReadKey
    <2>1. cuts' \in Nat /\ UNCHANGED <<quiet, typed, closed, queries>>
      BY <1>19, <1>b DEF ReadKey
    <2> QED
      BY <1>19, <2>1 DEF ReadKey
  <1>20. CASE SendKey
    BY <1>20 DEF SendKey, AfterQuery
  <1>21. CASE UseKey
    BY <1>21 DEF UseKey
  <1>22. CASE ReadKeyEOF
    BY <1>22 DEF ReadKeyEOF
  <1>23. CASE DispatchPaste
    <2>1. races' \in Nat /\ overwritten' \in BOOLEAN
      BY <1>23, <1>a DEF DispatchPaste, Pop
    <2> QED
      BY <1>23, <2>1 DEF DispatchPaste, Pop
  <1>24. CASE Paste
    <2>1. races' \in Nat /\ overwritten' \in BOOLEAN
      BY <1>24, <1>a DEF Paste, Pop
    <2> QED
      BY <1>24, <2>1 DEF Paste, Pop
  <1>25. CASE Resize
    <2>1. queries' \in Nat /\ UNCHANGED <<typed, closed, cuts>>
      BY <1>25 DEF Resize, Query
    <2>2. resizes' \in 0 .. MaxResizes
      BY <1>0, <1>25 DEF Resize
    <2>3. /\ wpc' = "query" /\ wagain' \in BOOLEAN
          /\ UNCHANGED <<mustWait, waiting, reading, eof, overwritten, races, mpc, caller, again, stale>>
      BY <1>25 DEF Resize
    <2> QED
      BY ONLY ControlTypes, <2>1, <2>2, <2>3 DEF ControlTypes
  <1>26. CASE WatchCheck
    <2>1. wpc' \in {"receive", "read"} /\ stale' \in BOOLEAN
      BY <1>26 DEF WatchCheck
    <2> QED
      BY <1>26, <2>1 DEF WatchCheck
  <1>27. CASE WatchRead
    <2>1. cuts' \in Nat /\ UNCHANGED <<quiet, typed, closed, queries>>
      BY <1>27, <1>b DEF WatchRead
    <2> QED
      BY <1>27, <2>1 DEF WatchRead, AfterQuery
  <1>28. CASE WatchLoad
    BY <1>28 DEF WatchLoad
  <1>29. CASE WatchAppend
    <2>1. overwritten' \in BOOLEAN
      BY <1>29 DEF WatchAppend
    <2> QED
      BY <1>29, <2>1 DEF WatchAppend
  <1>30. CASE WatchFails
    BY <1>30 DEF WatchFails, AfterQuery
  <1>31. CASE WatchEnsure
    BY <1>31 DEF WatchEnsure, Query
  <1> QED
    BY <1>1, <1>2, <1>3, <1>4, <1>5, <1>6, <1>7, <1>8, <1>9, <1>10, <1>11, <1>12, <1>13,
       <1>14, <1>15, <1>16, <1>17, <1>18, <1>19, <1>20, <1>21, <1>22, <1>23, <1>24,
       <1>25, <1>26, <1>27, <1>28, <1>29, <1>30, <1>31
       DEF Next, Environment, Main, Refreshing

LEMMA PlacesNext ==
  ASSUME SeqTypes, ControlTypes, Places, Next
  PROVE  Places'
  <1> USE DEF Places, input, flags, stack, main, watch
  <1>0. /\ \A n \in 1 .. Len(stdin) :
             /\ SubSeq(stdin, 1, n) # << >>
             /\ ~HasReply(SubSeq(stdin, 1, n)) => Keystrokes(SubSeq(stdin, 1, n)) # << >>
        /\ held # << >> => buf \o held # << >>
        /\ taken # << >> => loaded \o taken # << >>
        /\ eof \in BOOLEAN
    BY ReadsSome DEF ControlTypes
  <1>1. CASE Type
    BY <1>1 DEF Type
  <1>2. CASE Answer
    BY <1>2 DEF Answer
  <1>3. CASE Close
    BY <1>3 DEF Close
  <1>4. CASE Refresh
    BY <1>4 DEF Refresh, Query, Unlocked
  <1>5. CASE QueryRead
    BY <1>0, <1>5 DEF QueryRead, AfterQuery, Take, Counted
  <1>6. CASE QueryPass
    BY <1>0, <1>6 DEF QueryPass, Counted, StackStore, Unlocked, PassBack
  <1>7. CASE QueryFails
    BY <1>7 DEF QueryFails, AfterQuery
  <1>8. CASE EnsureInputSpace
    BY <1>8 DEF EnsureInputSpace, Query
  <1>9. CASE Wait
    <2>1. /\ mpc' = "dispatch" => buf # << >>
          /\ mpc' \in {"read", "returned", caller}
      BY <1>9 DEF Wait, Returns
    <2>2. mpc' \in {"read", "returned", "dispatch", "paste"}
      BY <2>1 DEF ControlTypes
    <2>3. UNCHANGED <<quiet, buf, held, taken, wpc, eof>> /\ mpc = "wait"
      BY <1>9 DEF Wait
    <2> QED
      BY <2>1, <2>2, <2>3
  <1>10. CASE Read
    BY <1>0, <1>10 DEF Read, Take, Counted
  <1>11. CASE ReadEOF
    BY <1>11 DEF ReadEOF
  <1>12. CASE Send
    BY <1>12 DEF Send, AfterQuery
  <1>13. CASE Store
    BY <1>0, <1>13 DEF Store, Counted, StackStore, Unlocked
  <1>14. CASE Waited
    <2>1. /\ mpc' = "dispatch" => ~eof
          /\ mpc' \in {"returned", caller}
      BY <1>0, <1>14 DEF Waited, Returns, ControlTypes
    <2>2. mpc' \in {"returned", "dispatch", "paste"}
      BY <2>1 DEF ControlTypes
    <2>3. UNCHANGED <<quiet, buf, held, taken, wpc, eof>> /\ mpc = "waited"
      BY <1>14 DEF Waited
    <2> QED
      BY <2>1, <2>2, <2>3
  <1>15. CASE Dispatch
    BY <1>15 DEF Dispatch, Pop, Counted, StackStore, Unlocked
  <1>16. CASE DispatchPrefix
    BY <1>16 DEF DispatchPrefix, Counted, StackStore, Unlocked
  <1>17. CASE MatchedPrefix
    BY <1>17 DEF MatchedPrefix, Counted, StackStore, Unlocked
  <1>18. CASE DispatchReader
    BY <1>18 DEF DispatchReader, Pop, Counted, StackStore, Unlocked
  <1>19. CASE ReadKey
    BY <1>0, <1>19 DEF ReadKey, Take, Counted
  <1>20. CASE SendKey
    BY <1>20 DEF SendKey, AfterQuery
  <1>21. CASE UseKey
    BY <1>21 DEF UseKey
  <1>22. CASE ReadKeyEOF
    BY <1>22 DEF ReadKeyEOF
  <1>23. CASE DispatchPaste
    BY <1>23 DEF DispatchPaste, Pop, Counted, StackStore, Unlocked
  <1>24. CASE Paste
    BY <1>24 DEF Paste, Pop, Counted, StackStore, Unlocked
  <1>25. CASE Resize
    BY <1>25 DEF Resize, Query
  <1>26. CASE WatchCheck
    BY <1>26 DEF WatchCheck
  <1>27. CASE WatchRead
    BY <1>0, <1>27 DEF WatchRead, AfterQuery, Take, Counted
  <1>28. CASE WatchLoad
    BY <1>28 DEF WatchLoad
  <1>29. CASE WatchAppend
    BY <1>0, <1>29 DEF WatchAppend, PassBack
  <1>30. CASE WatchFails
    BY <1>30 DEF WatchFails, AfterQuery
  <1>31. CASE WatchEnsure
    BY <1>31 DEF WatchEnsure, Query
  <1> QED
    BY <1>1, <1>2, <1>3, <1>4, <1>5, <1>6, <1>7, <1>8, <1>9, <1>10, <1>11, <1>12, <1>13,
       <1>14, <1>15, <1>16, <1>17, <1>18, <1>19, <1>20, <1>21, <1>22, <1>23, <1>24,
       <1>25, <1>26, <1>27, <1>28, <1>29, <1>30, <1>31
       DEF Next, Environment, Main, Refreshing

LEMMA AppendingNext ==
  ASSUME ControlTypes, Places, Appending, Next
  PROVE  Appending'
  <1> USE DEF Places, Appending, input, flags, stack, main, watch
  <1>0. races \in Nat
    BY DEF ControlTypes
  <1>a. ASSUME NEW k, StackStore(k)
        PROVE  /\ races' = 0 => races = 0 /\ wpc # "append" /\ overwritten' = FALSE
               /\ wpc # "append" => races' = races
    BY <1>a, StackStored DEF ControlTypes
  <1>1. CASE Type
    BY <1>1 DEF Type
  <1>2. CASE Answer
    BY <1>2 DEF Answer
  <1>3. CASE Close
    BY <1>3 DEF Close
  <1>4. CASE Refresh
    BY <1>4 DEF Refresh, Query, Unlocked
  <1>5. CASE QueryRead
    BY <1>5 DEF QueryRead, AfterQuery, Take
  <1>6. CASE QueryPass
    <2>1. quiet' = quiet /\ wpc' = wpc
      BY <1>6 DEF QueryPass
    <2>2. /\ races' = 0 => races = 0 /\ wpc # "append" /\ overwritten' = FALSE
          /\ wpc # "append" => races' = races
      BY <1>6, <1>a DEF QueryPass, Unlocked
    <2> QED
      BY <2>1, <2>2
  <1>7. CASE QueryFails
    BY <1>7 DEF QueryFails, AfterQuery
  <1>8. CASE EnsureInputSpace
    BY <1>8 DEF EnsureInputSpace, Query
  <1>9. CASE Wait
    BY <1>9 DEF Wait, Returns, Unlocked
  <1>10. CASE Read
    BY <1>10 DEF Read, Take
  <1>11. CASE ReadEOF
    BY <1>11 DEF ReadEOF
  <1>12. CASE Send
    BY <1>12 DEF Send, AfterQuery
  <1>13. CASE Store
    <2>1. quiet' = quiet /\ wpc' = wpc
      BY <1>13 DEF Store
    <2>2. /\ races' = 0 => races = 0 /\ wpc # "append" /\ overwritten' = FALSE
          /\ wpc # "append" => races' = races
      BY <1>13, <1>a DEF Store, Unlocked
    <2> QED
      BY <2>1, <2>2
  <1>14. CASE Waited
    BY <1>14 DEF Waited, Returns, Unlocked
  <1>15. CASE Dispatch
    <2>1. quiet' = quiet /\ wpc' = wpc
      BY <1>15 DEF Dispatch, Pop
    <2>2. /\ races' = 0 => races = 0 /\ wpc # "append" /\ overwritten' = FALSE
          /\ wpc # "append" => races' = races
      BY <1>15, <1>a DEF Dispatch, Pop, Unlocked
    <2> QED
      BY <2>1, <2>2
  <1>16. CASE DispatchPrefix
    <2>1. quiet' = quiet /\ wpc' = wpc
      BY <1>16 DEF DispatchPrefix
    <2>2. /\ races' = 0 => races = 0 /\ wpc # "append" /\ overwritten' = FALSE
          /\ wpc # "append" => races' = races
      BY <1>16, <1>a DEF DispatchPrefix, Unlocked
    <2> QED
      BY <2>1, <2>2
  <1>17. CASE MatchedPrefix
    <2>1. quiet' = quiet /\ wpc' = wpc
      BY <1>17 DEF MatchedPrefix
    <2>2. /\ races' = 0 => races = 0 /\ wpc # "append" /\ overwritten' = FALSE
          /\ wpc # "append" => races' = races
      BY <1>17, <1>a DEF MatchedPrefix, Unlocked
    <2> QED
      BY <2>1, <2>2
  <1>18. CASE DispatchReader
    <2>1. quiet' = quiet /\ wpc' = wpc
      BY <1>18 DEF DispatchReader, Pop
    <2>2. /\ races' = 0 => races = 0 /\ wpc # "append" /\ overwritten' = FALSE
          /\ wpc # "append" => races' = races
      BY <1>18, <1>a DEF DispatchReader, Pop, Unlocked
    <2> QED
      BY <2>1, <2>2
  <1>19. CASE ReadKey
    BY <1>19 DEF ReadKey, Take
  <1>20. CASE SendKey
    BY <1>20 DEF SendKey, AfterQuery
  <1>21. CASE UseKey
    BY <1>21 DEF UseKey
  <1>22. CASE ReadKeyEOF
    BY <1>22 DEF ReadKeyEOF
  <1>23. CASE DispatchPaste
    <2>1. quiet' = quiet /\ wpc' = wpc
      BY <1>23 DEF DispatchPaste, Pop
    <2>2. /\ races' = 0 => races = 0 /\ wpc # "append" /\ overwritten' = FALSE
          /\ wpc # "append" => races' = races
      BY <1>23, <1>a DEF DispatchPaste, Pop, Unlocked
    <2> QED
      BY <2>1, <2>2
  <1>24. CASE Paste
    <2>1. quiet' = quiet /\ wpc' = wpc /\ loaded' = loaded
      BY <1>24 DEF Paste
    <2>2. CASE UNCHANGED stack
      BY <2>1, <2>2
    <2>3. CASE StackStore(Tail(buf))
      BY <2>1, <2>3, <1>a
    <2> QED
      BY <1>24, <2>2, <2>3 DEF Paste, Pop
  <1>25. CASE Resize
    BY <1>25 DEF Resize, Query
  <1>26. CASE WatchCheck
    BY <1>26 DEF WatchCheck
  <1>27. CASE WatchRead
    BY <1>27 DEF WatchRead, AfterQuery, Take
  <1>28. CASE WatchLoad
    BY <1>28 DEF WatchLoad
  <1>29. CASE WatchAppend
    BY <1>29 DEF WatchAppend
  <1>30. CASE WatchFails
    BY <1>30 DEF WatchFails, AfterQuery
  <1>31. CASE WatchEnsure
    BY <1>31 DEF WatchEnsure, Query
  <1> QED
    BY <1>1, <1>2, <1>3, <1>4, <1>5, <1>6, <1>7, <1>8, <1>9, <1>10, <1>11, <1>12, <1>13,
       <1>14, <1>15, <1>16, <1>17, <1>18, <1>19, <1>20, <1>21, <1>22, <1>23, <1>24,
       <1>25, <1>26, <1>27, <1>28, <1>29, <1>30, <1>31
       DEF Next, Environment, Main, Refreshing

\* Every step keeps the invariant.
LEMMA NextIInv == IInv /\ [Next]_vars => IInv'
  <1> SUFFICES ASSUME IInv, [Next]_vars PROVE IInv'
    OBVIOUS
  <1>1. SeqTypes /\ ControlTypes /\ Places /\ Appending /\ Uncut /\ Ordered
    BY TypeParts DEF IInv
  <1>2. CASE Next
    <2>1. quiet' = quiet /\ (races' = 0 => races = 0) /\ Moves
      BY <1>1, <1>2, StepsAreMoves
    <2>2. SeqTypes' /\ ControlTypes' /\ Places' /\ Appending'
      BY <1>1, <1>2, <2>1, SeqTypesNext, ControlNext, PlacesNext, AppendingNext
    <2>3. Uncut'
      <3>1. cuts \in Nat
        BY <1>1 DEF ControlTypes
      <3> QED
        BY <1>1, <2>1, <3>1, UncutNext
    <2>4. Ordered'
      BY <1>1, <2>1, OrderedNext
    <2>5. TypeOK'
      BY <2>2, <2>3, TypeParts DEF TypeOK, SeqTypes, ControlTypes, Uncut
    <2> QED
      BY <2>2, <2>3, <2>4, <2>5 DEF IInv
  <1>3. CASE UNCHANGED vars
    <2>1. UNCHANGED <<quiet, typed, stdin, closed, queries, cuts>>
      BY <1>3 DEF vars, input
    <2>2. UNCHANGED <<mustWait, waiting, reading, eof, buf, overwritten, races>>
      BY <1>3 DEF vars, flags, stack
    <2>3. UNCHANGED <<mpc, caller, held, again, taken, loaded, wpc, wagain, stale, resizes, done>>
      BY <1>3 DEF vars, main, watch
    <2>4. TypeOK'
      BY <2>1, <2>2, <2>3 DEF IInv, TypeOK
    <2>5. Places' /\ Appending'
      BY <1>1, <2>1, <2>2, <2>3 DEF Places, Appending
    <2>6. Uncut' /\ Ordered'
      BY <1>1, <2>1, <2>2, <2>3 DEF Uncut, Ordered
    <2> QED
      BY <2>4, <2>5, <2>6 DEF IInv
  <1> QED
    BY <1>2, <1>3

\* The invariant holds in every state.
LEMMA Invariance == Spec => []IInv
  BY InitIInv, NextIInv, PTL DEF Spec

-----------------------------------------------------------------------------
(* The variables have their types; as long as no read ends inside of a     *)
(* cursor report, no piece of one reaches the stack or a command, whichever*)
(* of WaitAvailableKeys, ReadKey and the two GetCursorPos reads it         *)
(* (extractCursorPos).                                                     *)
THEOREM TypeCorrect == Spec => []TypeOK
  <1>1. IInv => TypeOK
    BY DEF IInv
  <1> QED
    BY <1>1, Invariance, PTL

\* What is pending is in order, when what is in each place is.
LEMMA PendingSorted ==
  ASSUME SeqTypes, quiet \in BOOLEAN, Keeping(typed, quiet, done, buf, held, taken, stdin)
  PROVE  Sorted(quiet, Pending)
  <1>1. /\ Sorted(quiet, done) /\ Sorted(quiet, buf) /\ Sorted(quiet, held)
        /\ Sorted(quiet, taken) /\ Sorted(quiet, stdin)
        /\ Before(quiet, done, buf) /\ Before(quiet, done, held) /\ Before(quiet, done, taken)
        /\ Before(quiet, done, stdin) /\ Before(quiet, buf, held) /\ Before(quiet, buf, taken)
        /\ Before(quiet, buf, stdin) /\ Before(quiet, held, taken)
        /\ Before(quiet, held, stdin) /\ Before(quiet, taken, stdin)
    BY DEF Keeping, AllSorted
  <1> DEFINE two == done \o buf
             three == two \o held
             four == three \o taken
  <1>2. done \in Seq(Piece) /\ buf \in Seq(Piece) /\ held \in Seq(Piece)
        /\ taken \in Seq(Piece) /\ stdin \in Seq(Piece)
    BY DEF SeqTypes
  <1>3. /\ two \in Seq(Piece) /\ Sorted(quiet, two) /\ Before(quiet, two, held)
        /\ Before(quiet, two, taken) /\ Before(quiet, two, stdin)
    BY <1>1, <1>2, ConcatSorted, ConcatBefore
  <1> HIDE DEF two
  <1>4. /\ three \in Seq(Piece) /\ Sorted(quiet, three)
        /\ Before(quiet, three, taken) /\ Before(quiet, three, stdin)
    BY <1>1, <1>2, <1>3, ConcatSorted, ConcatBefore
  <1> HIDE DEF three
  <1>5. four \in Seq(Piece) /\ Sorted(quiet, four) /\ Before(quiet, four, stdin)
    BY <1>1, <1>2, <1>4, ConcatSorted, ConcatBefore
  <1> HIDE DEF four
  <1>6. Sorted(quiet, four \o stdin)
    BY <1>1, <1>2, <1>5, ConcatSorted
  <1> QED
    BY <1>6 DEF Pending, two, three, four

(* As long as no change of the stack by the main goroutine falls inside of *)
(* an append of the resize goroutine, no key is given to a command and     *)
(* kept, or kept twice; and while the main goroutine is alone the keys     *)
(* reach the commands in the order they were typed (WaitAvailableKeys,     *)
(* GetCursorPos, MatchedPrefix), for any number of keys and resizes and    *)
(* wherever the reads end.                                                 *)
THEOREM KeysInOrder == Spec => []InOrder
  <1>1. IInv => InOrder
    <2> SUFFICES ASSUME IInv, NEW i \in 1 .. Len(Pending), NEW j \in 1 .. Len(Pending),
                        i < j, Pending[i] \in Key, Pending[j] \in Key
                 PROVE  /\ races = 0 => Pending[i] # Pending[j]
                        /\ quiet => Pending[i] < Pending[j]
      BY DEF InOrder
    <2>1. SeqTypes /\ quiet \in BOOLEAN /\ (quiet => races = 0)
      BY TypeParts DEF IInv, Places, Appending
    <2>2. CASE races = 0
      <3>1. Sorted(quiet, Pending)
        BY <2>1, <2>2, PendingSorted DEF IInv, Ordered
      <3>2. Precedes(quiet, Pending[i], Pending[j])
        BY <3>1 DEF Sorted
      <3>3. Pending[i] \in Nat /\ Pending[j] \in Nat
        BY KeysAssumption DEF Key
      <3> QED
        BY <2>1, <3>2, <3>3 DEF Precedes
    <2>3. CASE races # 0
      BY <2>1, <2>3
    <2> QED
      BY <2>2, <2>3
  <1> QED
    BY <1>1, Invariance, PTL

=============================================================================
