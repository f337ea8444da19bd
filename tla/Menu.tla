-------------------------------- MODULE Menu --------------------------------
(***************************************************************************)
(* completion.group: the candidates of one tag laid out in rows, and the   *)
(* selector that moves over them; and how the engine moves from one group  *)
(* to another.  A candidate is a record [value, desc, tag], desc is "" for *)
(* a candidate without a description.  A group is a record:                *)
(*   rows         the rows of candidates, not all of the same length       *)
(*   aliased      some candidates share a description, and hence a row     *)
(*   maxX         the number of columns                                    *)
(*   posX, posY   the selector, counted from 0, or -1 before its first use *)
(* maxY is the number of rows wherever the selector looks at it.  Widths   *)
(* are abstracted to the number of columns that fit in the terminal.       *)
(***************************************************************************)
EXTENDS Integers, Sequences, SequencesExt

-----------------------------------------------------------------------------
(* Layout                                                                  *)

Map(s, op(_)) == [i \in DOMAIN s |-> op(s[i])]

PickAt(s, is) == [i \in DOMAIN is |-> s[is[i]]]

\* The elements of s that are in S, in order.  A recursive function, and not
\* SelectSeq, for the provers to know what it gives.
Keep(s, S) ==
  LET kept[n \in 0 .. Len(s)] ==
        IF n = 0 THEN << >>
        ELSE IF s[n] \in S THEN Append(kept[n - 1], s[n]) ELSE kept[n - 1]
  IN  kept[Len(s)]

Filter(s, test(_)) == Keep(s, {x \in Range(s) : test(x)})

\* createGrid and wrapExcessAliases: rows of at most n candidates.
Wrap(row, n) ==
  [i \in 1 .. (Len(row) + n - 1) \div n |->
     SubSeq(row, (i - 1) * n + 1, IF i * n < Len(row) THEN i * n ELSE Len(row))]

\* The elements of s, in order, that no earlier one equals under key.
Firsts(s, key(_)) ==
  PickAt(s, Filter([i \in DOMAIN s |-> i],
                   LAMBDA i : \A j \in 1 .. i - 1 : key(s[j]) # key(s[i])))

Desc(v) == v.desc
Tag(v) == v.tag

\* One row for each description.
createDescribedRows(vals) ==
  LET RowOf(head) == Filter(vals, LAMBDA v : v.desc = head.desc)
  IN  Map(Firsts(vals, Desc), RowOf)

completionsAreAliases(vals) ==
  \E i, j \in DOMAIN vals : i < j /\ vals[i].desc = vals[j].desc /\ vals[i].desc # ""

\* createRows, on n columns.
Rows(vals, n) ==
  IF completionsAreAliases(vals)
  THEN LET Wrapped(row) == Wrap(row, n)
       IN  FlattenSeq(Map(createDescribedRows(vals), Wrapped))
  ELSE Wrap(vals, n)

Grid(rows, aliased) ==
  [rows |-> rows, aliased |-> aliased,
   maxX |-> Max({Len(rows[i]) : i \in DOMAIN rows} \cup {0}),
   posX |-> -1, posY |-> -1]

\* initCompletionsGrid or initCompletionAliased on n columns.  A group that was
\* aliased once stays marked.
Layout(vals, n, aliased) == Grid(Rows(vals, n), aliased \/ completionsAreAliases(vals))

\* EachTag and groupNonDescribed: the groups of the values, in order.
Groups(vals, n) ==
  LET Described(t) == Filter(vals, LAMBDA v : v.tag = t /\ v.desc # "")
      Others(t) == Filter(vals, LAMBDA v : v.tag = t /\ v.desc = "")
      OfTag(head) == Filter(<<Described(head.tag), Others(head.tag)>>,
                            LAMBDA vs : vs # << >>)
      Laid(vs) == Layout(vs, n, FALSE)
  IN  Map(FlattenSeq(Map(Firsts(vals, Tag), OfTag)), Laid)

\* group.updateIsearch: the group keeps the candidates that pass.
FilterGroup(g, n, pass(_)) ==
  Layout(Filter(FlattenSeq(g.rows), pass), n, g.aliased)

-----------------------------------------------------------------------------
(* The selector of a group                                                 *)

At2(g, x, y) == [g EXCEPT !.posX = x, !.posY = y]

\* The last column of row y.
LastX(g, y) == Len(g.rows[y + 1]) - 1

Selectable(g, x, y) ==
  y \in 0 .. Len(g.rows) - 1 /\ x \in 0 .. LastX(g, y)

\* Where a move has led: done when it leaves the group, to the next one or to
\* the previous one.
Move(g, x, y, done, next) == [g |-> At2(g, x, y), done |-> done, next |-> next]
Stay(g, x, y) == Move(g, x, y, FALSE, FALSE)

\* From a hole of an aliased group, down (d = 1) or up its columns to the next
\* candidate; done when there is none in this group.
findFirstCandidate(g, d) ==
  LET n == Len(g.rows)
      Nearest(found) ==
        IF found = {} THEN IF d > 0 THEN Move(g, g.maxX - 1, 0, TRUE, TRUE)
                           ELSE Move(g, 0, 0, TRUE, FALSE)
        ELSE LET To(i) == Stay(g, i \div n, i % n)
             IN  To(IF d > 0 THEN Min(found) ELSE Max(found))
  IN  Nearest({i \in 0 .. n * g.maxX - 1 :
                 /\ (i - (g.posX * n + g.posY)) * d > 0
                 /\ Selectable(g, i \div n, i % n)})

\* The four numbered cases of moveSelector, each on a move that is not done.
PreviousRow(m) ==
  IF m.g.posX >= 0 THEN m
  ELSE IF m.g.posY = 0 THEN Move(m.g, 0, 0, TRUE, FALSE)
  ELSE Stay(m.g, LastX(m.g, m.g.posY - 1), m.g.posY - 1)

PreviousColumn(m) ==
  IF m.done \/ m.g.posY >= 0 THEN m
  ELSE IF m.g.posX = 0 THEN Move(m.g, 0, 0, TRUE, FALSE)
  ELSE Stay(m.g, m.g.posX - 1, Len(m.g.rows) - 1)

NextColumn(m) ==
  IF m.done \/ m.g.posY < Len(m.g.rows) THEN m
  ELSE IF m.g.posX < m.g.maxX - 1 THEN Stay(m.g, m.g.posX + 1, 0)
  ELSE Move(m.g, m.g.posX, 0, TRUE, TRUE)

NextRow(m, d) ==
  IF m.done \/ m.g.posX <= LastX(m.g, m.g.posY) THEN m
  ELSE IF m.g.aliased THEN findFirstCandidate(m.g, d)
  ELSE IF m.g.posY < Len(m.g.rows) - 1 THEN Stay(m.g, 0, m.g.posY + 1)
  ELSE Move(m.g, 0, m.g.posY, TRUE, TRUE)

\* The first move of a selector also brings it into the grid.
moveSelector(g, x, y) ==
  LET fresh == g.posX = -1 /\ g.posY = -1
  IN  NextRow(NextColumn(PreviousColumn(PreviousRow(
        Stay(g, g.posX + x + (IF fresh /\ x = 0 THEN 1 ELSE 0),
                g.posY + y + (IF fresh /\ x # 0 THEN 1 ELSE 0))))), x + y)

firstCell(g) == At2(g, 0, 0)

lastCell(g) ==
  LET last == Len(g.rows) - 1
  IN  IF ~g.aliased THEN At2(g, LastX(g, last), last)
      ELSE IF Selectable(g, g.maxX - 1, last) THEN At2(g, g.maxX - 1, last)
      ELSE findFirstCandidate(At2(g, g.maxX - 1, last), -1).g

\* group.selected; an index out of range panics, which Selectable tells.
SelectedCell(g) ==
  IF g.posX = -1 \/ g.posY = -1 THEN g.rows[1][1] ELSE g.rows[g.posY + 1][g.posX + 1]

-----------------------------------------------------------------------------
(* The groups: gs is the list, cur the current one, 0 when none is.        *)

NonEmpty(gs) == {i \in DOMAIN gs : gs[i].rows # << >>}

\* currentGroup makes the first group that is not empty current if none is.
currentGroup(gs, cur) ==
  IF cur # 0 \/ NonEmpty(gs) = {} THEN cur ELSE Min(NonEmpty(gs))

\* Mutant: always the first group.
CycleGroupFirst(gs, cur, d) == Min(NonEmpty(gs))

\* cycleNextGroup (d = 1) and cyclePreviousGroup (d = -1), on a list that is
\* not all empty.
CycleGroup(gs, cur, d) ==
  LET n == Len(gs)
      At1(i) == 1 + ((cur - 1 + d * i + n * n) % n)
      i == Min({j \in 1 .. n : At1(j) \in NonEmpty(gs)})
  IN  IF cur = 0 THEN Min(NonEmpty(gs)) ELSE At1(i)

\* hasUniqueCandidate: with several groups it counts rows and candidates
\* together, and so never finds one.
hasUniqueCandidate(gs) ==
  Len(gs) = 1 /\ Len(gs[1].rows) = 1 /\ Len(gs[1].rows[1]) = 1
=============================================================================
