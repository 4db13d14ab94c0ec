--------------------------- MODULE ScopeDiscovery ---------------------------
(***************************************************************************)
(* What concern discovery (src/domain/concern-discovery.ts) concludes from *)
(* a candidate's patch: which changed lines are proven irrelevant, which   *)
(* statements a concern covers, and whether the changed scope is accounted *)
(* for completely.                                                         *)
(*                                                                         *)
(* The patch grows line by line; every state is one patch, read afresh.    *)
(* A line is the set of the shapes the detectors look for in it.  A        *)
(* statement is one line, or several where one ends with an operator, a    *)
(* comma or inside a bracket; the place of its last line names it.  Two    *)
(* statements on one line are two lines here, and a file has one hunk.     *)
(***************************************************************************)
EXTENDS Naturals, Sequences, SequencesExt, FiniteSets

CONSTANTS ScopeFiles,  \* the kinds of file a patch may touch
          ScopeLines,  \* the lines it may change or show: [side, has, joined]
          MaxScope     \* files and lines of a patch

VARIABLE patch  \* what the candidate changes

scopeVars == <<patch>>

Sides == {"ADDED", "REMOVED", "CONTEXT"}
\* What a detector finds anywhere in a statement, and what only the whole of one is.
Detected == {"fixed literal", "literal", "credential", "origin", "hidden", "use", "sink", "environment", "decision", "command"}
Formed == {"scalar", "type import", "whole origin", "whole use", "condition", "pure"}
Shapes == Detected \cup Formed \cup
          {"comment", "opens", "opens late", "closes", "rest", "tick", "quoted tick", "prose", "markup", "brace", "continues"}
\* joined: what the statement is as a whole when the line ends one that began above it
PatchLines == [side : Sides, has : SUBSET Shapes, joined : SUBSET Formed]
FilePatches == [kind : ScopeFiles, boundary : BOOLEAN, lines : Seq(PatchLines)]

\* A line that reads the environment declares no plain number.  (The one that could is a number
\* whose type annotation names the environment: it counts as absence and still binds its name.)
ASSUME ScopeAssumption ==
  /\ ScopeLines \subseteq PatchLines
  /\ \A l \in ScopeLines : "environment" \in l.has => "scalar" \notin l.has

-----------------------------------------------------------------------------
(* Lexical state: a line is irrelevant only when its context proves it. *)

\* classifyLexicalLine, for the comments and templates of a TypeScript file.  A block comment
\* that opens after code on its line ("opens late") goes unseen.
NextLexical(state, has) ==
  IF state = "UNKNOWN" THEN "UNKNOWN"
  ELSE IF state = "JS_TEMPLATE" THEN (IF has \cap {"tick", "quoted tick"} # {} THEN "CODE" ELSE state)
  ELSE IF state = "BLOCK_COMMENT" THEN (IF "closes" \in has THEN "CODE" ELSE state)
  ELSE IF "opens" \in has THEN "BLOCK_COMMENT"
  ELSE IF "comment" \in has THEN state
  ELSE IF has \cap {"tick", "quoted tick"} # {} THEN "JS_TEMPLATE" ELSE state

ProvenIn(state, has) ==
  \/ state = "CODE" /\ has \cap {"comment", "opens"} # {}
  \/ state = "BLOCK_COMMENT" /\ ~({"closes", "rest"} \subseteq has)

\* Mutant: every hunk is read as if it began in code.
StartInCode(f) == "CODE"

StartState(f) == IF f.boundary THEN "CODE" ELSE "UNKNOWN"

\* The lines of one side, with the context that leads to them.
Seen(f, side) == {i \in DOMAIN f.lines : f.lines[i].side \in {side, "CONTEXT"}}

\* The state after each line.
StatesOf(f, side) ==
  LET at[m \in 0..Len(f.lines)] ==
        IF m = 0 THEN StartState(f)
        ELSE IF m \in Seen(f, side) THEN NextLexical(at[m - 1], f.lines[m].has) ELSE at[m - 1]
  IN at

Irrelevant(f, side) ==
  LET states == StatesOf(f, side)
  IN  {i \in DOMAIN f.lines : f.lines[i].side = side /\ ProvenIn(states[i - 1], f.lines[i].has)}

\* The lines of one side that stay in the analysis, and its statements: the lines after which
\* one ends.
Remaining(f, side) == {i \in DOMAIN f.lines : f.lines[i].side = side} \ Irrelevant(f, side)
JoinsNext(f, i) == "continues" \in f.lines[i].has
Statements(f, side) == {i \in Remaining(f, side) : ~(JoinsNext(f, i) /\ \E j \in Remaining(f, side) : i < j)}

\* The lines of the statement that line i ends, and what that statement is.
StatementLines(f, i) ==
  LET kept == Remaining(f, f.lines[i].side)
  IN  {j \in kept : j <= i /\ \A m \in kept : j <= m /\ m < i => JoinsNext(f, m)}
Says(f, i) ==
  LET found == Detected \cap UNION {f.lines[j].has : j \in StatementLines(f, i)}
      joined == f.lines[i].joined
  IN  IF StatementLines(f, i) \subseteq {i} THEN f.lines[i].has
      ELSE found \cup (IF "environment" \in found THEN joined \ {"scalar"} ELSE joined)

-----------------------------------------------------------------------------
(* What happens to a file as a whole. *)

Changed(f) == {i \in DOMAIN f.lines : f.lines[i].side # "CONTEXT"}

Hybrid == {"mdx", "svg"}

\* isPositivelyPlainProse, and what classifyHybridContent asks of each of its two formats
PlainProse(f) ==
  \A i \in Changed(f) : IF f.kind = "svg" THEN "markup" \notin f.lines[i].has ELSE "prose" \in f.lines[i].has

PositivelyInert(f) == f.kind \in {"prose"} \cup Hybrid /\ PlainProse(f)

\* Material that becomes one uninspectable unit, whatever its lines say.
Opaque(f) == \/ f.kind \in {"opaque", "dependency", "data"}
             \/ f.kind = "prose" /\ ~PositivelyInert(f)

\* discoveryCoverageFor, and the hybrid formats nobody can execute here
FileCoverage(f) ==
  IF Opaque(f) \/ f.kind \in Hybrid \cup {"config"} THEN "UNSUPPORTED" ELSE IF f.kind = "shell" THEN "PARTIAL" ELSE "FULL"

-----------------------------------------------------------------------------
(* Concerns.  An attribution is [at, full]: a statement, and whether the concern *)
(* covers the whole of it.                                                       *)

\* A statement and the next two.
Window(s, i) == {j \in s : i <= j /\ Cardinality({m \in s : i <= m /\ m < j}) <= 2}

Near(f, s, i, shapes) == {j \in Window(s, i) : Says(f, j) \cap shapes # {}}
With(f, s, shape) == {i \in s : shape \in Says(f, i)}

\* An environment read that reaches a sink or has a credential's name beside it.
Raised(f, s, i) == "environment" \in Says(f, i) /\ Near(f, s, i, {"sink", "credential"}) # {}

\* locallySensitiveBindings is not empty at i; an import binds nothing here.
BoundBefore(f, s, i) ==
  \E j \in s : j < i /\ \/ "origin" \in Says(f, j)
                        \/ Raised(f, s, j) /\ "type import" \notin Says(f, j)

Whole(f, s, i) == BoundBefore(f, s, i) /\ "whole use" \in Says(f, i)

\* The literal is looked for line by line: the one line that declares it covers all of its
\* statement.  (Where an earlier statement repeats the line, that one is covered instead.)
FullyAt(f, s) ==
  UNION {With(f, s, "fixed literal"),
         With(f, s, "origin") \cap With(f, s, "whole origin"),
         {i \in s : Whole(f, s, i)},
         {i \in With(f, s, "brace") :
            \E p \in With(f, s, "condition") : p < i /\ Whole(f, s, p) /\ \A m \in s : ~(p < m /\ m < i)},
         With(f, s, "decision") \cap With(f, s, "pure")}

\* exposurePairs, as FlowEvidence has them: a hidden value and a sink that names it, anywhere
\* in the file, leave every statement that names it partly covered.
Paired(f, s) ==
  LET naming == UNION {With(f, s, shape) : shape \in {"hidden", "use", "whole use"}}
  IN  {i \in naming : With(f, s, "hidden") # {} /\ naming \cap With(f, s, "sink") # {}}

PartlyAt(f, s) ==
  LET reach(is) == is \cup UNION {Near(f, s, i, {"sink"}) : i \in is}
      commands == With(f, s, "command")
  IN  UNION {With(f, s, "literal"),
             With(f, s, "origin") \ With(f, s, "whole origin"),
             {i \in With(f, s, "use") : BoundBefore(f, s, i)},
             reach({i \in With(f, s, "credential") : Near(f, s, i, {"sink"}) # {}}),
             reach({i \in s : Raised(f, s, i)}),
             With(f, s, "decision") \ With(f, s, "pure"),
             {i \in commands : \E j \in commands : (\A k \in commands : j <= k) /\ Says(f, i) = Says(f, j)},
             Paired(f, s)}

Attributions(f) ==
  LET s == Statements(f, "ADDED")
  IN  [at : FullyAt(f, s), full : {TRUE}] \cup [at : PartlyAt(f, s), full : {FALSE}]

\* The concerns a file raises: an attribution that is no use of a known value.
Concerns(f) ==
  \E a \in Attributions(f) :
    Says(f, a.at) \cap {"fixed literal", "literal", "origin", "hidden", "credential", "environment", "decision", "command"} # {}

\* Mutant: one complete attribution is enough.
CoveredOnce(attributions, i) == \E a \in attributions : a.at = i /\ a.full

\* attribute: conjunctive, whatever the order of registration.
Covered(attributions, i) ==
  /\ \E a \in attributions : a.at = i
  /\ \A a \in attributions : a.at = i => a.full

\* establishesPromotionAbsence: an erased import, or an added unquoted scalar
EstablishesAbsence(f, i) ==
  \/ "type import" \in Says(f, i)
  \/ f.lines[i].side = "ADDED" /\ "scalar" \in Says(f, i)

-----------------------------------------------------------------------------
(* The accounting of the whole patch. *)

Analyzed(f) == ~PositivelyInert(f) /\ ~Opaque(f)
FileUnits(f) ==
  IF Analyzed(f) THEN Statements(f, "ADDED") \cup Statements(f, "REMOVED") ELSE {}

\* The units of a file that nothing accounts for; 0 stands for the uninspectable one.
Residual(f) ==
  IF Opaque(f) THEN {0}
  ELSE IF f.kind \in Hybrid /\ Analyzed(f) /\ FileUnits(f) = {} THEN {0}
  ELSE IF FileCoverage(f) = "UNSUPPORTED" THEN FileUnits(f)
  ELSE LET attributions == Attributions(f)
       IN  {i \in FileUnits(f) : ~Covered(attributions, i) /\ ~EstablishesAbsence(f, i)}

\* Atoms without a terminal disposition, or with an unsupported one.
AtomsOpen(f) == Opaque(f)

ScopeComplete(files) == \A k \in DOMAIN files : Residual(files[k]) = {} /\ ~AtomsOpen(files[k])

ConcernsFound(files) == \E k \in DOMAIN files : Analyzed(files[k]) /\ Concerns(files[k])

\* Mutant: a finding settles the scope it was found in.
FindingFirst(files) ==
  IF ConcernsFound(files) THEN "CONCERNS_FOUND" ELSE IF ScopeComplete(files) THEN "ABSENCE_ESTABLISHED" ELSE "INCOMPLETE"

\* scopeAdequacy.conclusion
AdequacyConclusion(files) ==
  IF ~ScopeComplete(files) THEN "INCOMPLETE" ELSE IF ConcernsFound(files) THEN "CONCERNS_FOUND" ELSE "ABSENCE_ESTABLISHED"

-----------------------------------------------------------------------------
ScopeInit == patch = <<>>

PatchSize == FoldLeft(LAMBDA n, f : n + 1 + Len(f.lines), 0, patch)

\* A file whose patch has no text (binary, a mode change) brings no line.
TouchFile(kind, boundary, lines) ==
  /\ lines = <<>> <=> kind = "opaque"
  /\ kind # "source" => boundary   \* no other kind looks at it
  /\ PatchSize + 1 + Len(lines) <= MaxScope
  /\ patch' = Append(patch, [kind |-> kind, boundary |-> boundary, lines |-> lines])

GrowFile(line) ==
  /\ patch # <<>> /\ Last(patch).kind # "opaque"
  /\ patch' = [patch EXCEPT ![Len(patch)].lines = Append(@, line)]

ScopeNext ==
  /\ PatchSize < MaxScope
  /\ \/ \E kind \in ScopeFiles, boundary \in BOOLEAN :
          TouchFile(kind, boundary, <<>>) \/ \E l \in ScopeLines : TouchFile(kind, boundary, <<l>>)
     \/ \E l \in ScopeLines : GrowFile(l)

ScopeSpec == ScopeInit /\ [][ScopeNext]_scopeVars

-----------------------------------------------------------------------------
(* A second reading of a line, from what the language says. *)

\* Where the real parser may be when the hunk begins.
TrueStarts(f) == IF f.boundary THEN {"CODE"} ELSE {"CODE", "JS_TEMPLATE", "BLOCK_COMMENT"}

TrueNext(state, has) ==
  LET code == IF "opens late" \in has THEN "BLOCK_COMMENT" ELSE "CODE" IN
  IF state = "JS_TEMPLATE" THEN (IF "tick" \in has THEN code ELSE state)
  ELSE IF state = "BLOCK_COMMENT" THEN (IF "closes" \in has THEN code ELSE state)
  ELSE IF "opens" \in has THEN "BLOCK_COMMENT"
  ELSE IF "comment" \in has THEN state
  ELSE IF "tick" \in has THEN "JS_TEMPLATE" ELSE code

TrueStates(f, side, start) ==
  LET at[m \in 0..Len(f.lines)] ==
        IF m = 0 THEN start
        ELSE IF m \in Seen(f, side) THEN TrueNext(at[m - 1], f.lines[m].has) ELSE at[m - 1]
  IN at

TrulyInert(f, i) ==
  \A start \in TrueStarts(f) :
    LET state == TrueStates(f, f.lines[i].side, start)[i - 1] IN
    \/ state = "CODE" /\ f.lines[i].has \cap {"comment", "opens"} # {}
    \/ state = "BLOCK_COMMENT" /\ ("closes" \in f.lines[i].has => "rest" \notin f.lines[i].has)

\* Two things mislead the classifier: a back-quote that is no delimiter, which it counts, and a
\* block comment that opens behind code, which it does not see.
Misled(f) == \E i \in DOMAIN f.lines : f.lines[i].has \cap {"quoted tick", "opens late"} # {}

\* "Detector silence is not absence": where the scope is declared accounted for, every
\* changed line is inert by the language's own rules, text the file's format is excluded by,
\* or part of a statement that is an added scalar, an erased import, or inside concerns each
\* of which claims the whole of it, wherever the hunk began and whatever surrounds the line.
\* Excepted are files that mislead the classifier (ProvenIsInert).
AccountedIsAccounted(files) ==
  AdequacyConclusion(files) # "INCOMPLETE" =>
    \A k \in DOMAIN files : LET f == files[k]  attributions == Attributions(f) IN
      /\ f.kind \notin {"opaque", "dependency", "data"}
      /\ ~Misled(f) => \A i \in Changed(f) :
           \/ f.kind \in {"prose", "mdx"} /\ "prose" \in f.lines[i].has
           \/ f.kind = "svg" /\ "markup" \notin f.lines[i].has
           \/ TrulyInert(f, i)
           \/ /\ f.kind \notin {"prose", "config"} \cup Hybrid
              /\ \E e \in DOMAIN f.lines :
                   /\ i \in StatementLines(f, e)
                   /\ \/ "type import" \in Says(f, e)
                      \/ f.lines[e].side = "ADDED" /\ "scalar" \in Says(f, e)
                      \/ {a.full : a \in {b \in attributions : b.at = e}} = {TRUE}

\* The last line of the patch goes on with a statement that an earlier one left open.
GoesOn(files) ==
  /\ files # <<>> /\ Last(files).lines # <<>>
  /\ LET f == Last(files)  n == Len(f.lines) IN
     n \in Remaining(f, f.lines[n].side) /\ StatementLines(f, n) # {n}

\* A finding or an empty looking file next to it never closes a gap: what is incomplete
\* stays incomplete when the candidate changes more, unless the change is the rest of a
\* statement that was cut short.
GapsStay(old, new) ==
  AdequacyConclusion(old) = "INCOMPLETE" => GoesOn(new) \/ AdequacyConclusion(new) = "INCOMPLETE"

\* The conclusion of concern discovery over a growing candidate.
ScopeIsSound ==
  [][UNCHANGED scopeVars \/ (AccountedIsAccounted(patch') /\ GapsStay(patch, patch'))]_scopeVars

-----------------------------------------------------------------------------
(* Three things concern-discovery.ts and its plan say, which the code does not keep. *)

\* "Changed-line indices whose lexical context positively proves behavioral irrelevance": a line
\* dropped from the analysis is inert by the language's own rules.
ProvenIsInert ==
  \A k \in DOMAIN patch : LET f == patch[k] IN
    \A side \in {"ADDED", "REMOVED"} : \A i \in Irrelevant(f, side) : TrulyInert(f, i)

\* A hybrid file is excluded for "a POSITIVE reason to know that changed material is not
\* executable", never because no pattern matched: each changed line fits the prose grammar.
ExcludedIsProse ==
  \A k \in DOMAIN patch : LET f == patch[k] IN
    f.kind \in Hybrid /\ PositivelyInert(f) => \A i \in Changed(f) : "prose" \in f.lines[i].has

\* "A relevant changed-local unit is complete only when the whole unit is concern-covered": a
\* concern that covers a statement of several lines covers it by what the whole of it is.
FullIsWhole ==
  \A k \in DOMAIN patch : LET f == patch[k] IN
    \A e \in FullyAt(f, Statements(f, "ADDED")) : StatementLines(f, e) # {e} => Says(f, e) \cap Formed # {}
=============================================================================
