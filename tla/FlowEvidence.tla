----------------------------- MODULE FlowEvidence -----------------------------
(***************************************************************************)
(* The evidence for the two flow concerns: the enumeration of every later  *)
(* use of a sensitive binding (src/domain/concern-evidence.ts) and the     *)
(* source to sink pairing (src/domain/semantic-sensitivity.ts).  The state *)
(* is the added statements of the files that raised the concern; a step    *)
(* appends one.  A statement is [form, binds, reads]; a sink whose value   *)
(* is on another of its lines is the form "call".                          *)
(***************************************************************************)
EXTENDS Naturals, Sequences, FiniteSets, Functions

CONSTANTS Languages,  \* of the files, in order: "FULL", "PARTIAL", "UNSUPPORTED", or "NONE" for a test file
          FlowNames, FlowForms, MaxFlow, MaxFlowOf(_)

VARIABLE added  \* the added statements of each file

flowVars == <<added>>

FlowFiles == DOMAIN Languages
LanguageOf(f) == Languages[f]
Of(f) == added[f]
Statement == [form : FlowForms, binds : FlowNames, reads : FlowNames]

Sources == {"concealed", "env", "named"}                          \* b = getpass(), b = process.env.X, password = f()
Leaving == {"call", "sink", "index", "write", "return", "hidden"} \* hidden: inside a template
Observing == {"observe", "derive"}                                \* a.length, b = a === 1
Carrying == {"alias", "split", "expression", "embedded"}          \* b = a on one line or two, b = a + x, b = f(x, a)
Skipped == {"comment", "masked"}                                  \* masked: code behind /* note */, * or #

\* A patch lists its files in an order and names finitely many identifiers.
ASSUME FlowAssumption ==
  /\ Languages \in Seq({"FULL", "PARTIAL", "UNSUPPORTED", "NONE"})
  /\ IsFiniteSet(FlowNames)

FlowInit == added = [f \in FlowFiles |-> <<>>]
FlowNext ==
  /\ SumFunction([f \in FlowFiles |-> Len(Of(f))]) < MaxFlow
  /\ \E f \in FlowFiles, k \in FlowForms, b, r \in FlowNames :
    /\ Len(Of(f)) < MaxFlowOf(f)
    /\ (k \in Sources \cup {"composed", "overwrite"} => r = b)
    /\ (k \in Leaving \cup Skipped \cup {"observe", "mutate", "unbalanced"} => b = r)
    /\ (k \in Carrying \cup {"derive"} => b # r)
    /\ added' = [added EXCEPT ![f] = Append(@, [form |-> k, binds |-> b, reads |-> r])]
FlowSpec == FlowInit /\ [][FlowNext]_flowVars

-----------------------------------------------------------------------------
(* analyzeLocalUseCompleteness, one file after the other *)

Binds(s) == s.form \in Sources \cup Carrying \cup {"composed", "derive", "overwrite"}
Origin(s) == s.form \in Sources \cup {"composed"}
Occurs(s, n) == \/ Binds(s) /\ s.binds = n
                \/ s.form \notin Sources \cup {"composed", "overwrite"} /\ s.reads = n

\* Mutant: the copy of a sensitive value is not followed.
CopyIsObserved(s, n) ==
  IF s.form \in Observing \cup {"alias"} /\ s.reads = n THEN "observation" ELSE "escape"

\* What a use of n in s is: a copy, which is followed, an observation, or an escape.
ClassifyUse(s, n) ==
  IF s.form \in {"alias", "split"} /\ s.reads = n THEN "copy"
  ELSE IF s.form \in Observing /\ s.reads = n THEN "observation" ELSE "escape"

\* The uses of the bindings known before the statement.  A region that does not close may
\* hold any of them.
Used(t, s) == {n \in t.names : s.form = "unbalanced" \/ Occurs(s, n)}
Uses(t, s) ==
  LET escapes == {n \in Used(t, s) : ClassifyUse(s, n) = "escape"}
      copies == {n \in Used(t, s) : ClassifyUse(s, n) = "copy"}
  IN  [t EXCEPT !.uses = @ + Cardinality(Used(t, s)),
                !.classified = @ + Cardinality(Used(t, s) \ escapes),
                !.reasons = @ + Cardinality(escapes),
                !.names = @ \cup {s.binds : n \in copies}]

\* A statement of the file: what is already known first, then a new origin.  What begins
\* like a comment in some language is passed over.
Enumerate(t, s) ==
  IF s.form \in Skipped THEN t
  ELSE LET u == Uses([t EXCEPT !.reasons = @ + (IF s.form = "unbalanced" THEN 1 ELSE 0)], s)
       IN  IF ~Origin(s) THEN u
           ELSE IF s.form = "composed" THEN [u EXCEPT !.origins = @ + 1, !.reasons = @ + 1]
           ELSE [u EXCEPT !.origins = @ + 1, !.bound = @ + 1, !.names = @ \cup {s.binds}]

\* The tuple after each statement of a file, and after each file.
Enumerated(start, q) ==
  LET at[n \in 0..Len(q)] == IF n = 0 THEN start ELSE Enumerate(at[n - 1], q[n]) IN at
Walked(files) ==
  LET after[k \in 0..Len(Languages)] ==
        IF k = 0 THEN [names |-> {}, origins |-> 0, bound |-> 0, uses |-> 0, classified |-> 0, reasons |-> 0]
        ELSE Enumerated([after[k - 1] EXCEPT !.names = {}], files[k])[Len(files[k])]
  IN after
Tuple == Walked(added)[Len(Languages)]

LocalUseComplete ==
  LET t == Tuple IN t.origins > 0 /\ t.bound = t.origins /\ t.classified = t.uses /\ t.reasons = 0

-----------------------------------------------------------------------------
(* deriveSemanticSensitivity: coverage and pairs *)

Scanned == {f \in FlowFiles : LanguageOf(f) # "NONE" /\ \E i \in DOMAIN Of(f) : Of(f)[i].form \notin Skipped}

CombineCoverage ==
  LET found == {LanguageOf(f) : f \in Scanned} IN
  IF "UNSUPPORTED" \in found THEN "UNSUPPORTED"
  ELSE IF "PARTIAL" \in found THEN "PARTIAL"
  ELSE IF "FULL" \in found THEN "FULL" ELSE "NOT_APPLICABLE"

\* sensitiveIdentifiersOn: the bindings of a source that conceals what it reads
SensitiveNames(f) == {Of(f)[i].binds : i \in {j \in DOMAIN Of(f) : Of(f)[j].form = "concealed"}}

\* One pass over the file's lines: the target of a sensitive name that directly follows the
\* sign becomes one.
Rebound(names, q) ==
  LET at[n \in 0..Len(q)] ==
        IF n = 0 THEN names
        ELSE IF q[n].form \in {"alias", "derive", "expression"} /\ q[n].reads \in at[n - 1]
        THEN at[n - 1] \cup {q[n].binds} ELSE at[n - 1]
  IN at
Round(f, names) == Rebound(names, Of(f))[Len(Of(f))]

\* Mutant: only the names a source was bound to.
NoRounds(f) == SensitiveNames(f)

Propagated(f) == Round(f, Round(f, Round(f, SensitiveNames(f))))

ExposurePairs ==
  {p \in Scanned \X FlowNames :
     p[2] \in Propagated(p[1]) /\ \E i \in DOMAIN Of(p[1]) : Of(p[1])[i].form = "sink" /\ Of(p[1])[i].reads = p[2]}

\* deriveConcernEvidence, for the flow concerns
FlowOutcome ==
  IF ExposurePairs # {} THEN "WARN"
  ELSE IF LocalUseComplete /\ CombineCoverage \in {"FULL", "NOT_APPLICABLE"} THEN "PASS" ELSE "NOT_CHECKED"

-----------------------------------------------------------------------------
(* Properties, against the flow of values themselves, statement by statement: which *)
(* names hold a sensitive value, and whether one left the file or reached a sink.   *)

Flow(t, s, forms, carriers) ==
  LET hot == s.reads \in t.hot IN
  IF Origin(s) THEN [t EXCEPT !.hot = IF s.form \in forms THEN @ \cup {s.binds} ELSE @]
  ELSE IF Binds(s) THEN [t EXCEPT !.hot = IF hot /\ s.form \in carriers THEN @ \cup {s.binds} ELSE @ \ {s.binds}]
  ELSE [t EXCEPT !.sunk = @ \/ (hot /\ s.form = "sink"),
                 !.left = @ \/ (hot /\ s.form \in Leaving \cup {"mutate", "masked"})]

\* forms: the origins whose values count as sensitive; carriers: the bindings that pass one on
Flows(q, forms, carriers) ==
  LET at[n \in 0..Len(q)] ==
        IF n = 0 THEN [hot |-> {}, left |-> FALSE, sunk |-> FALSE] ELSE Flow(at[n - 1], q[n], forms, carriers)
  IN at
Flowing(f, forms, carriers) == Flows(Of(f), forms, carriers)[Len(Of(f))]
LeftFile(f) == Flowing(f, Sources \cup {"composed"}, Carrying).left
Masked(f) == \E i \in DOMAIN Of(f) : Of(f)[i].form = "masked"

\* A clean record for a flow concern is earned: in no file that raised it does a sensitive
\* value, or a copy of one, reach a call, a key, a write, a return or a template, and every
\* one of those files is in a language the scanner reads.  Excepted is a file with code the
\* enumeration took for a comment (PassIsAlwaysLocal).
FlowPassIsLocal ==
  FlowOutcome = "PASS" =>
    \A f \in FlowFiles : /\ ~Masked(f) => ~LeftFile(f)
                         /\ f \in Scanned => LanguageOf(f) = "FULL"

\* A value read without echo that reaches a raise, a log or a print on a line that is read, under
\* a name it was passed to through any number of one-line bindings that begin with the old name,
\* is a finding and not merely unproven.  One that went through a literal, a call or a second
\* line is not paired; FlowPassIsLocal says that it is no all-clear either.
SinkIsFlagged ==
  (\E f \in Scanned : Flowing(f, {"concealed"}, {"alias", "expression"}).sunk) => FlowOutcome = "WARN"

\* What the enumeration's own comment promises, without the exception: a failure at any stage,
\* a statement that cannot be proven free of the binding among them, is never a PASS.  The code
\* drops a statement that begins with a closed block comment whatever follows it.
PassIsAlwaysLocal == FlowOutcome = "PASS" => \A f \in FlowFiles : ~LeftFile(f)

\* Flow evidence is neither a false all-clear nor silent about what reached a sink.
FlowEvidenceIsSound == (\E f \in FlowFiles : Of(f) # <<>>) => FlowPassIsLocal /\ SinkIsFlagged
=============================================================================
