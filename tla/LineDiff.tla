------------------------------- MODULE LineDiff -------------------------------
(***************************************************************************)
(* The textual diff of one captured file (src/infrastructure/              *)
(* local-worktree.ts): common prefix and suffix, a table of longest common *)
(* subsequences of the rest, the walk through it, and the one hunk that is *)
(* rendered.  A step is a row of the table or a line of the walk.          *)
(***************************************************************************)
EXTENDS Integers, Sequences, SequencesExt, FiniteSets, FiniteSetsExt

CONSTANTS DiffLines, MaxDiffLines,
          MaxTable,   \* the bound on the table, 1 000 000 cells
          Around      \* lines of context: 3

ASSUME DiffAssumption == MaxDiffLines \in Nat /\ MaxTable \in Nat /\ Around \in Nat

VARIABLES texts,      \* [old, new]: the two texts
          work        \* [step, a, b, prefix, suffix, table, i, j, ops]

diffVars == <<texts, work>>

Old == texts.old
New == texts.new
Shorter == Min({Len(Old), Len(New)})
Operation(kind, l) == [kind |-> kind, line |-> l]
Each(kind, s) == [i \in DOMAIN s |-> Operation(kind, s[i])]

DiffInit ==
  /\ texts = [old |-> <<>>, new |-> <<>>]
  /\ work = [step |-> "old", a |-> <<>>, b |-> <<>>, prefix |-> 0, suffix |-> 0, table |-> <<>>,
             i |-> 1, j |-> 1, ops |-> <<>>]

AppendLine(l) ==
  /\ work.step \in {"old", "new"} /\ Len(texts[work.step]) < MaxDiffLines
  /\ texts' = [texts EXCEPT ![work.step] = Append(@, l)] /\ UNCHANGED work
OtherText == work.step = "old" /\ work' = [work EXCEPT !.step = "new"] /\ UNCHANGED texts

\* Mutant: the suffix may reach into the prefix.
SuffixOfAll(prefix) ==
  Max({n \in 0..Shorter : SubSeq(Old, Len(Old) - n + 1, Len(Old)) = SubSeq(New, Len(New) - n + 1, Len(New))})

Prefix == Max({n \in 0..Shorter : SubSeq(Old, 1, n) = SubSeq(New, 1, n)})
Suffix(prefix) ==
  Max({n \in 0..(Shorter - prefix) :
         SubSeq(Old, Len(Old) - n + 1, Len(Old)) = SubSeq(New, Len(New) - n + 1, Len(New))})

\* What is left between prefix and suffix; too much of it is deleted and inserted as a whole.
Trim ==
  /\ work.step = "new"
  /\ LET p == Prefix
         s == Suffix(p)
         a == SubSeq(Old, p + 1, Len(Old) - s)
         b == SubSeq(New, p + 1, Len(New) - s)
     IN  work' = IF (Len(a) + 1) * (Len(b) + 1) > MaxTable
                 THEN [work EXCEPT !.step = "done", !.prefix = p, !.suffix = s,
                                   !.ops = Each("DELETE", a) \o Each("INSERT", b)]
                 ELSE [work EXCEPT !.step = "table", !.a = a, !.b = b, !.prefix = p, !.suffix = s,
                                   !.table = <<[j \in 1..(Len(b) + 1) |-> 0]>>]
  /\ UNCHANGED texts

\* A cell, given the one diagonally below, the one below and the one to its right
CellOf(x, y, diagonal, below, right) == IF x = y THEN diagonal + 1 ELSE IF below >= right THEN below ELSE right

\* A row for line l, from its last column to its first: the cells of columns Len(b) + 1 - k
Cells(l, b, below) ==
  LET r[k \in 0..Len(b)] ==
        IF k = 0 THEN 0 ELSE CellOf(l, b[Len(b) + 1 - k], below[Len(b) + 2 - k], below[Len(b) + 1 - k], r[k - 1])
  IN  r
Row(l, b, below) == [j \in 1..(Len(b) + 1) |-> Cells(l, b, below)[Len(b) + 1 - j]]

\* The row above the first one of the table
FillRow ==
  /\ work.step = "table"
  /\ work' = IF Len(work.table) > Len(work.a) THEN [work EXCEPT !.step = "walk"]
             ELSE LET row == Row(work.a[Len(work.a) + 1 - Len(work.table)], work.b, work.table[1])
                  IN  [work EXCEPT !.table = <<row>> \o work.table]
  /\ UNCHANGED texts

\* Mutant: the walk prefers the side with less in common.
DeleteAstray == work.j > Len(work.b) \/ work.table[work.i + 1][work.j] < work.table[work.i][work.j + 1]

DeleteFirst == work.j > Len(work.b) \/ work.table[work.i + 1][work.j] >= work.table[work.i][work.j + 1]

Walk ==
  /\ work.step = "walk"
  /\ LET i == work.i
         j == work.j
         more == i <= Len(work.a)
         both == more /\ j <= Len(work.b)
     IN  work' =
           IF ~more /\ j > Len(work.b) THEN [work EXCEPT !.step = "done"]
           ELSE IF both /\ work.a[i] = work.b[j]
           THEN [work EXCEPT !.ops = Append(work.ops, Operation("EQUAL", work.a[i])), !.i = i + 1, !.j = j + 1]
           ELSE IF more /\ DeleteFirst
           THEN [work EXCEPT !.ops = Append(work.ops, Operation("DELETE", work.a[i])), !.i = i + 1]
           ELSE IF j <= Len(work.b)
           THEN [work EXCEPT !.ops = Append(work.ops, Operation("INSERT", work.b[j])), !.j = j + 1]
           ELSE [work EXCEPT !.step = "threw"]
  /\ UNCHANGED texts

DiffNext == OtherText \/ Trim \/ FillRow \/ Walk \/ \E l \in DiffLines : AppendLine(l)

DiffSpec == DiffInit /\ [][DiffNext]_diffVars

LineOperations ==
  Each("EQUAL", SubSeq(Old, 1, work.prefix)) \o work.ops
    \o Each("EQUAL", SubSeq(Old, Len(Old) - work.suffix + 1, Len(Old)))

\* The lines of the operations of some kinds, and so far
KeepOne(s, o, kinds) == IF o.kind \in kinds THEN Append(s, o.line) ELSE s
Keeping(ops, kinds) ==
  LET at[n \in 0..Len(ops)] == IF n = 0 THEN <<>> ELSE KeepOne(at[n - 1], ops[n], kinds) IN at
Kept(ops, kinds) == Keeping(ops, kinds)[Len(ops)]
OldSide(ops) == Kept(ops, {"EQUAL", "DELETE"})
NewSide(ops) == Kept(ops, {"EQUAL", "INSERT"})

\* Mutant: an empty side is numbered like any other.
AnyRange(n, count) == n

Range0(n, count) == IF count = 0 THEN n - 1 ELSE n

\* renderedTextHunk: the changed part with its context, and where it starts on both sides
Hunk ==
  LET ops == LineOperations
      changed == {i \in DOMAIN ops : ops[i].kind # "EQUAL"}
      start == Max({0, Min(changed) - 1 - Around})
      end == Min({Len(ops), Max(changed) + Around})
      prior == SubSeq(ops, 1, start)
      shown == SubSeq(ops, start + 1, end)
  IN  [ops |-> shown, oldCount |-> Len(OldSide(shown)), newCount |-> Len(NewSide(shown)),
       oldStart |-> Range0(1 + Len(OldSide(prior)), Len(OldSide(shown))),
       newStart |-> Range0(1 + Len(NewSide(prior)), Len(NewSide(shown)))]

-----------------------------------------------------------------------------
(* Properties *)

\* The operations are the two texts: nothing of a candidate is missing from its diff, and the
\* walk never gets stuck.
DiffReproduces ==
  /\ work.step # "threw"
  /\ work.step = "done" => OldSide(LineOperations) = Old /\ NewSide(LineOperations) = New

Ascents(s, n) == {f \in [1..n -> DOMAIN s] : \A k, m \in 1..n : k < m => f[k] < f[m]}
Subsequences(s, n) == {[k \in 1..n |-> s[f[k]]] : f \in Ascents(s, n)}

\* Within the table bound no unchanged line is shown as removed and added again: no longer
\* common subsequence exists.
DiffIsShortest ==
  work.step = "done" /\ work.table # <<>> =>
    LET kept == Len(Kept(LineOperations, {"EQUAL"}))
    IN  Subsequences(Old, kept + 1) \cap Subsequences(New, kept + 1) = {}

\* An empty side stands behind the line its header names, any other begins there.
HunkBegins(start, count) == IF count = 0 THEN start + 1 ELSE start

\* Applied where its header says, by a reader that knows only the old text, the hunk gives
\* the new one, and what it shows of the new text stands where the header says.
HunkApplies ==
  work.step = "done" /\ Old # New =>
    LET h == Hunk
        from == HunkBegins(h.oldStart, h.oldCount)
        to == HunkBegins(h.newStart, h.newCount)
    IN  /\ from + h.oldCount - 1 <= Len(Old)
        /\ SubSeq(Old, from, from + h.oldCount - 1) = OldSide(h.ops)
        /\ SubSeq(New, to, to + h.newCount - 1) = NewSide(h.ops)
        /\ SubSeq(Old, 1, from - 1) \o NewSide(h.ops) \o SubSeq(Old, from + h.oldCount, Len(Old)) = New

\* The literal diff and its rendered hunk against the two texts.
DiffIsExact == DiffReproduces /\ DiffIsShortest /\ HunkApplies
=============================================================================
