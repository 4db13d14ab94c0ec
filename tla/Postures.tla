------------------------------- MODULE Postures -------------------------------
(***************************************************************************)
(* What a candidate's diff makes worth measuring, and what the             *)
(* measurements then say: src/domain/performance.ts, resilience.ts and the *)
(* two verifiers of src/infrastructure.  The diff grows line by line; then *)
(* the verifiers run, scenario by scenario and sample by sample.           *)
(***************************************************************************)
EXTENDS Integers, Sequences, FiniteSets

CONSTANTS PostureLines,      \* what a diff may have: a line, or a file's binary patch: [path, signal, sign, comment]
          MaxPostureLines,
          Scenarios,         \* spec.scenarios, or the empty set for no filter
          Readings,          \* values a sample may print, doubled so that a median is whole
          SampleCount, MaxRegressionPercent

\* A line is added or removed, and a binary patch has nothing to match; a reading is a doubled value,
\* and at least one is taken.
ASSUME PostureAssumption ==
  /\ \A l \in PostureLines : l.sign \in {"+", "-"} \/ (l.sign = "binary" /\ l.signal = "none")
  /\ \A v \in Readings : v \in Int /\ v % 2 = 0
  /\ SampleCount \in Nat \ {0} /\ MaxRegressionPercent \in Nat

VARIABLES change,   \* the lines of the diff
          posture   \* [step, ran, lower, baseline, candidate]

postureVars == <<change, posture>>

\* path: "code", "migration", "lockfile", "operational" or "test"; signal: a pattern, or "none";
\* comment: the line begins as a comment does, and is not read, whatever follows
EvidencePaths == {"code", "migration", "lockfile"}
Production(l) == l.path \in EvidencePaths /\ ~l.comment
Matching(sign) == {l \in change : Production(l) /\ l.sign = sign /\ l.signal # "none"}

-----------------------------------------------------------------------------
(* derivePerformanceSensitivity *)

StrongKinds == {"DB_QUERY", "SCHEMA_INDEX", "NETWORK_CALL", "HOT_LOOP", "BUNDLE"}
PathKinds ==
  UNION {IF l.path = "migration" THEN {"DB_QUERY", "SCHEMA_INDEX"}
         ELSE IF l.path = "lockfile" THEN {"BUNDLE"} ELSE {} : l \in change}
RemovalSensitive == {"DB_QUERY", "PAGINATION", "SCHEMA_INDEX"}
PerformanceKinds == StrongKinds \cup {"PAGINATION", "SERIALIZATION"}
Removals == {l \in Matching("-") : l.signal \in RemovalSensitive}
FoundKinds == PathKinds \cup ({l.signal : l \in Matching("+") \cup Removals} \cap PerformanceKinds)

\* Mutant: removed lines are not read.
SensitivityOfAdded ==
  LET kinds == PathKinds \cup ({l.signal : l \in Matching("+")} \cap PerformanceKinds) IN
  IF Cardinality(kinds) >= 3 \/ {"DB_QUERY", "SCHEMA_INDEX"} \subseteq kinds THEN 2
  ELSE IF kinds \cap StrongKinds # {} \/ Cardinality(kinds) >= 2 THEN 1 ELSE 0

PerformanceSensitivity ==
  IF Cardinality(FoundKinds) >= 3 \/ {"DB_QUERY", "SCHEMA_INDEX"} \subseteq FoundKinds THEN 2
  ELSE IF FoundKinds \cap StrongKinds # {} \/ Removals # {} \/ Cardinality(FoundKinds) >= 2 THEN 1
  ELSE 0

-----------------------------------------------------------------------------
(* deriveResilienceRelevance *)

NetworkScenarios == {"TIMEOUT", "MALFORMED_UPSTREAM_RESPONSE"}   \* two of the five
Owed(signal) ==
  CASE signal \in {"NETWORK_CALL", "DB_QUERY"} -> NetworkScenarios
    [] signal = "TRANSACTION" -> {"DUPLICATE_REQUEST"}
    [] signal = "PROMISE_ALL" -> {"OUT_OF_ORDER_RESPONSE"}
    [] OTHER -> {}
Relevant == UNION {Owed(l.signal) : l \in Matching("+") \cup Matching("-")}
UncoveredOperational == {l \in change : l.path = "operational"}
Uninspectable == \E l \in change : l.path \in EvidencePaths /\ l.sign = "binary"

-----------------------------------------------------------------------------
(* The two verifiers, and deriveResiliencePosture and derivePerformancePosture *)

PostureInit ==
  change = {} /\ posture = [step |-> "diff", ran |-> <<>>, lower |-> TRUE, baseline |-> <<>>, candidate |-> <<>>]

AddLine(l) ==
  /\ posture.step = "diff" /\ l \notin change /\ Cardinality(change) < MaxPostureLines
  /\ change' = change \cup {l} /\ UNCHANGED posture

Execute == posture.step = "diff" /\ Relevant # {} /\ posture' = [posture EXCEPT !.step = "scenarios"] /\ UNCHANGED change

\* CommandResilienceVerifier.verify: the relevant scenarios the specification names, one at a time
Executable == IF Scenarios = {} THEN Relevant ELSE Relevant \cap Scenarios
RunScenario(s, outcome) ==
  /\ posture.step = "scenarios" /\ s \in Executable /\ \A i \in DOMAIN posture.ran : posture.ran[i].scenario # s
  /\ posture' = [posture EXCEPT !.ran = Append(@, [scenario |-> s, outcome |-> outcome])] /\ UNCHANGED change
EndScenarios ==
  /\ posture.step = "scenarios" /\ Len(posture.ran) = Cardinality(Executable)
  /\ posture' = [posture EXCEPT !.step = "EXECUTED"] /\ UNCHANGED change

\* No environment, or inputs that changed meanwhile: nothing was checked.
VoidScenarios ==
  posture.step = "scenarios" /\ posture' = [posture EXCEPT !.step = "NOT_CHECKED", !.ran = <<>>] /\ UNCHANGED change

Outcomes == {posture.ran[i].outcome : i \in {j \in DOMAIN posture.ran : posture.ran[j].scenario \in Relevant}}
Missing == Relevant \ {posture.ran[i].scenario : i \in DOMAIN posture.ran}

\* Mutant: what the specification left out is not missed.
ResilienceOfRan ==
  CASE Relevant = {} \/ posture.step # "EXECUTED" -> "NOT_CHECKED"
    [] "FAILED" \in Outcomes -> "FAIL"
    [] UncoveredOperational # {} -> "NOT_CHECKED"
    [] OTHER -> "PASS"

\* Nothing relevant is NOT_CHECKED, whether a file was out of reach, unreadable or silent; once
\* something is relevant, Uninspectable is not looked at again.
ResiliencePosture ==
  IF Relevant = {} \/ posture.step # "EXECUTED" \/ Missing # {} THEN "NOT_CHECKED"
  ELSE IF "FAILED" \in Outcomes THEN "FAIL"
  ELSE IF UncoveredOperational # {} THEN "NOT_CHECKED" ELSE "PASS"

\* CommandPerformanceVerifier.measure: a clean baseline worktree first, then the candidate
StartSampling(lower) ==
  /\ posture.step = "diff" /\ change = {}
  /\ posture' = [posture EXCEPT !.step = "baseline", !.lower = lower] /\ UNCHANGED change
Sample(v) ==
  /\ posture.step \in {"baseline", "candidate"} /\ Len(posture[posture.step]) < SampleCount
  /\ posture' = [posture EXCEPT ![posture.step] = Append(@, v),
                                !.step = IF Len(posture[posture.step]) + 1 < SampleCount THEN @
                                         ELSE IF @ = "baseline" THEN "candidate" ELSE "MEASURED"]
  /\ UNCHANGED change

\* order[i] is where the i-th smallest sample stands
Sorts(order, s) ==
  /\ \A i, j \in DOMAIN s : order[i] = order[j] => i = j
  /\ \A i, j \in DOMAIN s : i < j => s[order[i]] <= s[order[j]]
Median(s) ==
  LET order == CHOOSE p \in [DOMAIN s -> DOMAIN s] : Sorts(p, s)
      m == Len(s) \div 2
  IN  IF Len(s) % 2 = 0 THEN (s[order[m]] + s[order[m + 1]]) \div 2 ELSE s[order[m + 1]]
Magnitude(v) == IF v < 0 THEN -v ELSE v

\* Mutant: a metric that should rise is compared as one that should fall.
OneSided ==
  LET b == Median(posture.baseline) c == Median(posture.candidate) IN
  CASE posture.step # "MEASURED" \/ b = 0 -> "NOT_CHECKED"
    [] (c - b) * 100 > MaxRegressionPercent * Magnitude(b) -> "FAIL"
    [] OTHER -> "PASS"

PerformancePosture ==
  LET b == Median(posture.baseline)
      c == Median(posture.candidate)
      worse == IF posture.lower THEN c - b ELSE b - c
  IN  IF posture.step # "MEASURED" \/ b = 0 THEN "NOT_CHECKED"
      ELSE IF worse * 100 > MaxRegressionPercent * Magnitude(b) THEN "FAIL" ELSE "PASS"

PostureNext ==
  \/ \E l \in PostureLines : AddLine(l)
  \/ Execute \/ EndScenarios \/ VoidScenarios
  \/ \E s \in Relevant, o \in {"PASSED", "FAILED"} : RunScenario(s, o)
  \/ \E lower \in BOOLEAN : StartSampling(lower)
  \/ \E v \in Readings : Sample(v)

PostureSpec == PostureInit /\ [][PostureNext]_postureVars

-----------------------------------------------------------------------------
(* Properties *)

\* A resilience PASS answers for every line that was read: each scenario a production line owes was
\* run and passed, whatever the specification selected, and no operational file changed.  It does not
\* answer for a binary patch: see UninspectableFailsClosed.
ResiliencePassAnswers ==
  posture.step = "EXECUTED" /\ ResiliencePosture = "PASS" =>
    \A l \in change :
      /\ l.path # "operational"
      /\ Production(l) => \A s \in Owed(l.signal) :
           [scenario |-> s, outcome |-> "PASSED"] \in {posture.ran[i] : i \in DOMAIN posture.ran}

\* "An uninspectable binary patch on an evidence path fails closed to NOT_CHECKED" (RELIABILITY.md):
\* not when another file's scenarios were run.
UninspectableFailsClosed == Uninspectable => ResiliencePosture # "PASS"

\* A metric every sample of which got worse by more than the threshold never passes, whichever
\* direction is the better one.
WorseNeverPasses ==
  posture.step = "MEASURED" /\ PerformancePosture = "PASS" =>
    \E i, j \in 1..SampleCount :
      LET b == posture.baseline[i] c == posture.candidate[j] IN
      (IF posture.lower THEN c - b ELSE b - c) * 100 <= MaxRegressionPercent * Magnitude(b)

\* A diff that takes a bound, an index or a query away is never rated insensitive, and more
\* changed lines never lower the rating.
SensitivityOnlyRises ==
  change' # change =>
     /\ PerformanceSensitivity' >= PerformanceSensitivity
     /\ (\E l \in change' : Production(l) /\ l.sign = "-" /\ l.signal \in RemovalSensitive)
          => PerformanceSensitivity' > 0

\* What a resilience or performance posture says of the change it is about.
PosturesAreEarned ==
  [][UNCHANGED postureVars \/ ((ResiliencePassAnswers /\ WorseNeverPasses)' /\ SensitivityOnlyRises)]_postureVars
=============================================================================
