----------------------------- MODULE ImportCycles -----------------------------
(***************************************************************************)
(* The import cycles of deriveStructuralHealth (src/domain/health.ts):     *)
(* strongly connected components by one depth-first walk with lowlinks,    *)
(* over the IMPORTS relations in the order the snapshot lists them.        *)
(***************************************************************************)
EXTENDS Naturals, Sequences, FiniteSets, SequencesExt

CONSTANTS
  ImportNodes,    \* the files that import one another
  MaxImports      \* bound on the relations

ASSUME ImportAssumption == IsFiniteSet(ImportNodes) /\ MaxImports \in Nat

VARIABLE
  imports         \* the IMPORTS relations, [from, to]

importVars == <<imports>>

ImportInit == imports = <<>>

\* The snapshot of another revision: one relation more, at the end of the list.
ImportNext ==
  \E e \in [from : ImportNodes, to : ImportNodes] :
    /\ Len(imports) < MaxImports
    /\ imports' = Append(imports, e)

-----------------------------------------------------------------------------
\* adjacency.get(node) ?? []
ImportsOf(node) ==
  LET own == SelectSeq(imports, LAMBDA e : e.from = node)
  IN  [i \in DOMAIN own |-> own[i].to]

LowerOf(a, b) == IF a < b THEN a ELSE b

\* indices and lowlinks are -1, as 0 here and counted from 1, before a node is met.
NotWalked == [next |-> 1, index |-> [n \in ImportNodes |-> 0], low |-> [n \in ImportNodes |-> 0],
              stack |-> <<>>, components |-> <<>>]

MeetFile(w, node) ==
  [w EXCEPT !.index[node] = w.next, !.low[node] = w.next, !.next = @ + 1,
            !.stack = Append(@, node)]

\* Mutant: an edge to a component that is already complete lowers the link too.
LinkBackAny(w, node, next) ==
  [w EXCEPT !.low[node] = LowerOf(@, w.index[next])]

\* An edge to a node already met: it counts only while that node is on the stack.
LinkBack(w, node, next) ==
  IF \E i \in DOMAIN w.stack : w.stack[i] = next
  THEN [w EXCEPT !.low[node] = LowerOf(@, w.index[next])] ELSE w

\* The root of a component pops everything above itself.
CloseComponent(w, node) ==
  IF w.low[node] # w.index[node] THEN w
  ELSE LET at == CHOOSE i \in DOMAIN w.stack : w.stack[i] = node
       IN  [w EXCEPT !.stack = SubSeq(@, 1, at - 1),
                     !.components = Append(@, ToSet(SubSeq(w.stack, at, Len(w.stack))))]

RECURSIVE StrongConnect(_, _), FollowImports(_, _, _)

StrongConnect(w, node) == CloseComponent(FollowImports(MeetFile(w, node), node, ImportsOf(node)), node)

FollowImports(w, node, todo) ==
  IF todo = <<>> THEN w
  ELSE LET next == Head(todo)
           done == IF w.index[next] # 0 THEN LinkBack(w, node, next)
                   ELSE LET below == StrongConnect(w, next)
                        IN  [below EXCEPT !.low[node] = LowerOf(@, below.low[next])]
       IN  FollowImports(done, node, Tail(todo))

\* Every file that imports something is a root, in the order of the relations.
WalkImports ==
  FoldLeft(LAMBDA w, e : IF w.index[e.from] = 0 THEN StrongConnect(w, e.from) ELSE w,
           NotWalked, imports)

\* A component of several files, or a file that imports itself.
CycleComponents ==
  SelectSeq(WalkImports.components,
            LAMBDA c : Cardinality(c) > 1 \/ \E n \in c : \E i \in DOMAIN ImportsOf(n) : ImportsOf(n)[i] = n)

-----------------------------------------------------------------------------
(* Reference and property. *)

Imported == {<<imports[i].from, imports[i].to>> : i \in DOMAIN imports}

\* Which files a file reaches over one import or more.
ReachedFiles ==
  LET Longer(r) == r \cup {p \in ImportNodes \X ImportNodes :
                             \E n \in ImportNodes : <<p[1], n>> \in r /\ <<n, p[2]>> \in r}
  IN  FoldLeft(LAMBDA r, i : Longer(r), Imported, [i \in 1..Cardinality(ImportNodes) |-> i])

\* What is reported as an import cycle is exactly what one is: the cycles are the
\* sets of files that reach one another, each once, whatever order the relations
\* were listed in and however cycles share files or hang off one another.
CyclesAreExact ==
  imports # <<>> =>
  LET reached == ReachedFiles
      cycles == CycleComponents
      mutual(n) == {m \in ImportNodes : <<n, m>> \in reached /\ <<m, n>> \in reached}
  IN  /\ ToSet(cycles) = {mutual(n) : n \in {k \in ImportNodes : <<k, k>> \in reached}}
      /\ Len(cycles) = Cardinality(ToSet(cycles))
================================================================================
