------------------------------ MODULE TrustFold ------------------------------
(* From evidence about one candidate to its trust state: risk vector, assurance plan,  *)
(* quality report, obligations, trust (risk, assurance, quality, assurance-obligation, *)
(* review).  The inputs change one at a time, as scanners, providers and the reviewer  *)
(* report and as a repair captures another candidate.                                  *)
EXTENDS Adequacy

CONSTANTS TrustCandidates,   \* candidate id and diff digest, as one identity
          ConcernFindings,   \* what a scan may find: sets of [concern, class, by]
          ConcernRecords,    \* the evidence records providers may report
          VerdictFiles,      \* the verdict files a reviewer may leave
          MaxInputs          \* how many inputs may differ from the clean candidate

\* concern-evidence and projectCapabilityConcerns: a PASS claims absence, and what is
\* adverse is claimed by a capability that may establish the concern.
ASSUME TrustAssumption ==
  /\ \A found \in ConcernFindings : \A c \in found : c.class \in LanguageClasses
  /\ \A r \in ConcernRecords :
       /\ r.coverage \in {"UNSUPPORTED", "PARTIAL", "FULL", "NOT_APPLICABLE"}
       /\ r.strength \in {"LEXICAL", "STRUCTURAL", "BEHAVIORAL", "MEASURED"}
       /\ r.outcome = "PASS" => r.claim = Negative
       /\ r.outcome \in {"FAIL", "WARN"} => SupportsClaim(r.by, r.concern, r.claim)

VARIABLES current,    \* the candidate under assessment
          counts,     \* what its diff touches, per risk dimension
          preference, \* the task's quality preference
          checked,    \* verification, performance and resilience results
          facts,      \* what the scanners of the quality report found
          remainder,  \* discovery left changed units unaccounted
          raised,     \* concerns found by discovery or by a provider
          records,    \* concern evidence, stamped with the candidate it is about
          verdict,    \* the reviewer's verdict file
          inputs      \* how many inputs were changed

trustVars == <<current, counts, preference, checked, facts, remainder, raised, records, verdict, inputs>>

\* Where a dimension becomes MEDIUM and HIGH (deriveRiskVector).
Thresholds ==
  [CodeCoupling |-> <<2, 4>>, BlastRadius |-> <<2, 3>>, ArchitectureSensitivity |-> <<2, 5>>,
   SecuritySensitivity |-> <<1, 3>>, DataConsistencyRisk |-> <<1, 2>>,
   NetworkBoundaryChanges |-> <<1, 3>>, OperationalSensitivity |-> <<1, 2>>,
   DebtRisk |-> <<2, 5>>]
RiskDimensions == DOMAIN Thresholds
Facts == {"leak", "flaggedLiteral", "layering", "domainUnread", "debtUnread", "binding",
          "exposure", "commandUnread", "languageUnread"}
NoVerdict == [candidate |-> "none", approved |-> FALSE, reasons |-> FALSE]

TrustInit ==
  /\ current = CHOOSE c \in TrustCandidates : TRUE
  /\ counts = [d \in RiskDimensions |-> 0]
  /\ preference = "BALANCED"
  /\ checked = [verification |-> "VERIFIED", performance |-> "none", resilience |-> "none"]
  /\ facts = {} /\ remainder = FALSE /\ raised = {} /\ records = {}
  /\ verdict = NoVerdict /\ inputs = 0

Input == inputs < MaxInputs /\ inputs' = inputs + 1

------------------------------------------------------------------------------
(* The inputs. *)

RaiseCount(d) ==
  /\ Input
  /\ \E n \in {Thresholds[d][1], Thresholds[d][2]} : n > counts[d] /\ counts' = [counts EXCEPT ![d] = n]
  /\ UNCHANGED <<current, preference, checked, facts, remainder, raised, records, verdict>>

RaisePreference ==
  /\ \/ preference = "BALANCED" /\ preference' \in {"HIGH", "CRITICAL"}
     \/ preference = "HIGH" /\ preference' = "CRITICAL"
  /\ UNCHANGED <<current, counts, checked, facts, remainder, raised, records, verdict, inputs>>

ReportCheck ==
  /\ Input
  /\ \/ \E v \in {"FAILED", "UNCONFIGURED"} : checked' = [checked EXCEPT !.verification = v]
     \/ \E s \in {"PASS", "FAIL", "NOT_CHECKED"} : checked' = [checked EXCEPT !.performance = s]
     \/ \E s \in {"PASS", "FAIL", "NOT_CHECKED", "PASS_NOTHING_RUN"} :
          checked' = [checked EXCEPT !.resilience = s]
  /\ checked' # checked
  /\ UNCHANGED <<current, counts, preference, facts, remainder, raised, records, verdict>>

ReportFact(f) ==
  /\ Input /\ f \notin facts /\ facts' = facts \cup {f}
  /\ UNCHANGED <<current, counts, preference, checked, remainder, raised, records, verdict>>

RaiseConcerns(found) ==
  /\ Input /\ raised' = raised \cup found /\ raised' # raised
  /\ UNCHANGED <<current, counts, preference, checked, facts, remainder, records, verdict>>

LeaveRemainder ==
  /\ Input /\ ~remainder /\ remainder' = TRUE
  /\ UNCHANGED <<current, counts, preference, checked, facts, raised, records, verdict>>

ReportRecord(r) ==
  /\ Input /\ r \notin records /\ records' = records \cup {r}
  /\ UNCHANGED <<current, counts, preference, checked, facts, remainder, raised, verdict>>

WriteVerdict ==
  /\ verdict = NoVerdict /\ verdict' \in VerdictFiles
  /\ UNCHANGED <<current, counts, preference, checked, facts, remainder, raised, records, inputs>>

\* A repair captures another candidate: everything read off the diff is read again, the
\* measurements are taken again, and only the stamped evidence remains.
Recapture ==
  /\ Input
  /\ current' \in TrustCandidates \ {current}
  /\ counts' = [d \in RiskDimensions |-> 0]
  /\ checked' = [verification |-> "VERIFIED", performance |-> "none", resilience |-> "none"]
  /\ facts' = {} /\ remainder' = FALSE /\ raised' = {}
  /\ UNCHANGED <<preference, records, verdict>>

------------------------------------------------------------------------------
(* The risk vector and the assurance plan. *)

LevelOf(d) == IF counts[d] >= Thresholds[d][2] THEN 2 ELSE IF counts[d] >= Thresholds[d][1] THEN 1 ELSE 0
RiskLevel(d) ==
  IF d # "SecuritySensitivity" THEN LevelOf(d)
  ELSE IF "exposure" \in facts THEN 2
  ELSE IF "binding" \in facts THEN 1 ELSE LevelOf(d)

Critical == preference = "CRITICAL"
HighQuality == preference \in {"HIGH", "CRITICAL"}

\* buildAssurancePlan: what evidence about the candidate, and what the preference, asks for.
RiskAsks ==
  {"CORRECTNESS"}
  \cup {c \in {"INTEGRATION"} : RiskLevel("CodeCoupling") >= 1}
  \cup {c \in {"ARCHITECTURE"} : RiskLevel("ArchitectureSensitivity") >= 1 \/ RiskLevel("BlastRadius") >= 1}
  \cup {c \in {"DEBT"} : RiskLevel("DebtRisk") >= 1}
  \cup {c \in {"SECURITY"} : RiskLevel("SecuritySensitivity") >= 1}
  \cup {c \in {"PERFORMANCE"} : RiskLevel("DataConsistencyRisk") >= 1}
  \cup {c \in {"CONCURRENCY"} : RiskLevel("DataConsistencyRisk") >= 2}
  \cup {c \in {"RESILIENCE"} : RiskLevel("NetworkBoundaryChanges") >= 1
                               \/ RiskLevel("OperationalSensitivity") >= 1}
  \cup {c \in {"INDEPENDENT_REVIEW"} : RiskLevel("SecuritySensitivity") >= 2 /\ Critical}
PreferenceAsks ==
  (IF HighQuality THEN {"INTEGRATION", "DEBT"} ELSE {})
  \cup (IF Critical THEN {"SECURITY", "RESILIENCE"} ELSE {})
\* decide: when both ask, the candidate's evidence is the recorded origin.
PreferenceFirst == RiskAsks \ PreferenceAsks
EvidenceAsks == RiskAsks
RequiredChecks == RiskAsks \cup PreferenceAsks

------------------------------------------------------------------------------
(* The quality report. *)

Result(state, provenance, coverage) == [state |-> state, provenance |-> provenance, coverage |-> coverage]
Deterministic(state, coverage) == Result(state, "DETERMINISTIC", coverage)

DeriveCorrectness ==
  Deterministic(CASE checked.verification = "UNCONFIGURED" -> "NOT_CHECKED"
                  [] checked.verification = "VERIFIED" -> "PASS"
                  [] OTHER -> "FAIL", "NOT_APPLICABLE")

DeriveArchitecture ==
  LET coverage == IF "domainUnread" \in facts THEN "PARTIAL" ELSE "FULL" IN
  Deterministic(IF "layering" \in facts THEN "FAIL"
                ELSE IF "ARCHITECTURE" \notin RequiredChecks THEN "NOT_REQUIRED"
                ELSE IF coverage = "PARTIAL" THEN "UNKNOWN" ELSE "PASS", coverage)

DeriveDebt ==
  LET coverage == IF "debtUnread" \in facts THEN "PARTIAL" ELSE "FULL" IN
  Deterministic(IF coverage = "PARTIAL" THEN "UNKNOWN"
                ELSE IF counts["DebtRisk"] >= 5 THEN "FAIL"
                ELSE IF counts["DebtRisk"] > 0 THEN "WARN" ELSE "PASS", coverage)

DerivePerformance ==
  IF "PERFORMANCE" \notin RequiredChecks THEN Deterministic("NOT_REQUIRED", "NOT_APPLICABLE")
  ELSE IF checked.performance \in {"PASS", "FAIL"} THEN Result(checked.performance, "MEASURED", "NOT_APPLICABLE")
  ELSE Deterministic("NOT_CHECKED", "NOT_APPLICABLE")

DeriveResilience ==
  IF "RESILIENCE" \notin RequiredChecks THEN Deterministic("NOT_REQUIRED", "NOT_APPLICABLE")
  ELSE IF checked.resilience \in {"PASS", "FAIL"} THEN Result(checked.resilience, "MEASURED", "NOT_APPLICABLE")
  ELSE Deterministic("NOT_CHECKED", "NOT_APPLICABLE")

AbsenceEstablished == raised = {} /\ ~remainder

\* deriveSecurity: the first case that applies.
DeriveSecurityBlind ==
  LET required == "SECURITY" \in RequiredChecks IN
  Deterministic(IF "leak" \in facts THEN "FAIL"
                ELSE IF "flaggedLiteral" \in facts THEN (IF required THEN "WARN" ELSE "UNKNOWN")
                ELSE IF "commandUnread" \in facts THEN (IF required THEN "NOT_CHECKED" ELSE "UNKNOWN")
                ELSE IF required /\ "languageUnread" \in facts THEN "NOT_CHECKED"
                ELSE IF ~required THEN "NOT_REQUIRED"
                ELSE IF ~AbsenceEstablished THEN "NOT_CHECKED" ELSE "PASS",
                IF AbsenceEstablished THEN "FULL" ELSE "PARTIAL")
DeriveSecurity ==
  LET required == "SECURITY" \in RequiredChecks IN
  Deterministic(IF "leak" \in facts THEN "FAIL"
                ELSE IF "flaggedLiteral" \in facts THEN (IF required THEN "WARN" ELSE "UNKNOWN")
                ELSE IF "commandUnread" \in facts THEN (IF required THEN "NOT_CHECKED" ELSE "UNKNOWN")
                ELSE IF required /\ "languageUnread" \in facts THEN "NOT_CHECKED"
                ELSE IF {"exposure", "binding"} \cap facts # {} THEN (IF required THEN "WARN" ELSE "UNKNOWN")
                ELSE IF ~required THEN "NOT_REQUIRED"
                ELSE IF ~AbsenceEstablished THEN "NOT_CHECKED" ELSE "PASS",
                IF AbsenceEstablished THEN "FULL" ELSE "PARTIAL")

QualityReport == [Correctness |-> DeriveCorrectness, Architecture |-> DeriveArchitecture,
                  DebtDelta |-> DeriveDebt, Performance |-> DerivePerformance,
                  Resilience |-> DeriveResilience,
                  Security |-> DeriveSecurity]

------------------------------------------------------------------------------
(* Obligations. *)

Obligation(check, status, material) == [check |-> check, status |-> status, material |-> material]
Found == {c \in raised : c.by = "discovery"}
\* The classes of the changed files, whatever a provider raises elsewhere.
TouchedClasses == {"TS_JS"} \cup {c.class : c \in Found}

\* Evidence weighed against the adequacy matrix.
Adequate(r, classes, required) ==
  LET coverage == IF r.claim = Positive THEN r.coverage
                  ELSE WeakerCoverage(r.coverage, CapabilityCoverageFor(r.by, r.concern, classes, Negative))
      strength == WeakerStrength(r.strength, CapabilityStrength(r.by, r.concern))
  IN /\ SupportsClaim(r.by, r.concern, r.claim)
     /\ r.completeness = IF r.claim = Positive THEN "NOT_APPLICABLE" ELSE "COMPLETE"
     /\ r.claim = Positive \/ CoversAll(coverage)
     /\ MeetsStrength(strength, required)
Adverse(r) == r.outcome \in {"FAIL", "WARN"} /\ SupportsClaim(r.by, r.concern, r.claim)

\* deriveAssuranceQuestionEvidence and deriveDiscoveryAdequacyEvidence, for this candidate.
SecurityQuestion ==
  LET absent == Found = {} /\ ~remainder IN
  [concern |-> "SECURITY.MATERIAL_CONCERN_DISCOVERY", check |-> "SECURITY",
   by |-> IF absent THEN "SECURITY.NON_BEHAVIORAL_CHANGE_CLASSIFIER" ELSE "SECURITY.CONCERN_DISCOVERY",
   outcome |-> IF Found # {} \/ absent THEN "PASS" ELSE "NOT_CHECKED",
   claim |-> IF Found # {} THEN Positive ELSE Negative,
   completeness |-> IF Found # {} THEN "NOT_APPLICABLE" ELSE IF absent THEN "COMPLETE" ELSE "INCOMPLETE",
   coverage |-> IF Found # {} THEN "NOT_APPLICABLE" ELSE IF absent THEN "FULL" ELSE "PARTIAL",
   strength |-> "STRUCTURAL"]
ScopeQuestion ==
  LET witness == Found # {} /\ ~remainder IN
  [concern |-> "DISCOVERY.MATERIAL_CONCERN_SCOPE_ADEQUACY", check |-> "DISCOVERY_ADEQUACY",
   by |-> IF witness THEN "DISCOVERY.CONCERN_WITNESS" ELSE "DISCOVERY.BOUNDED_CHANGE_CLASSIFIER",
   outcome |-> IF remainder THEN "NOT_CHECKED" ELSE "PASS",
   claim |-> IF witness THEN Positive ELSE Negative,
   completeness |-> IF witness THEN "NOT_APPLICABLE" ELSE IF remainder THEN "INCOMPLETE" ELSE "COMPLETE",
   coverage |-> IF remainder THEN "PARTIAL" ELSE "FULL", strength |-> "STRUCTURAL"]
ResilienceQuestion ==
  LET ran == checked.resilience \in {"PASS", "FAIL"}
      passed == checked.resilience \in {"PASS", "PASS_NOTHING_RUN"}
      failed == checked.resilience = "FAIL"
  IN [concern |-> IF ran THEN "RESILIENCE.REQUIRED_SCENARIO_EXECUTION"
                  ELSE "RESILIENCE.MATERIAL_SCENARIO_DISCOVERY",
      check |-> "RESILIENCE",
      by |-> IF ran THEN "RESILIENCE.FAULT_SCENARIO_EXECUTION" ELSE "RESILIENCE.CODE_RELEVANCE_SCAN",
      outcome |-> IF passed THEN "PASS" ELSE IF failed THEN "FAIL" ELSE "NOT_CHECKED",
      claim |-> IF failed THEN Positive ELSE Negative,
      completeness |-> IF passed THEN "COMPLETE" ELSE IF failed THEN "NOT_APPLICABLE" ELSE "INCOMPLETE",
      coverage |-> "NOT_APPLICABLE", strength |-> IF ran THEN "MEASURED" ELSE "STRUCTURAL"]
QuestionEvidence ==
  {SecurityQuestion, ScopeQuestion} \cup (IF checked.resilience = "none" THEN {} ELSE {ResilienceQuestion})

\* deriveQuestionObligation: adverse evidence wins, then complete absence; a witness counts
\* only for a scope without remainder.
QuestionObligation(check, evidenceAsks) ==
  LET mine == {q \in QuestionEvidence : q.check = check}
      need(q) == IF q.concern = "RESILIENCE.REQUIRED_SCENARIO_EXECUTION" THEN "MEASURED" ELSE "STRUCTURAL"
      adverse == \E q \in mine : Adverse(q)
      clean == \E q \in mine :
                 /\ q.outcome = "PASS" /\ Adequate(q, TouchedClasses, need(q))
                 /\ q.claim = Positive => ~(check = "DISCOVERY_ADEQUACY" /\ remainder)
  IN Obligation(check, IF adverse THEN "FAIL" ELSE IF clean THEN "PASS" ELSE "OPEN", TRUE)

PlanObligation(check) ==
  LET evidenceAsks == check \in EvidenceAsks
      result == CASE check = "CORRECTNESS" -> DeriveCorrectness [] check = "ARCHITECTURE" -> DeriveArchitecture
                  [] check = "DEBT" -> DeriveDebt [] check = "PERFORMANCE" -> DerivePerformance
      noCapability == \/ check \in {"INTEGRATION", "CONCURRENCY"}
                      \/ check = "ARCHITECTURE" /\ RiskLevel("BlastRadius") >= 1
  IN IF check \in {"SECURITY", "RESILIENCE"} THEN QuestionObligation(check, evidenceAsks)
     ELSE IF noCapability THEN Obligation(check, "OPEN", evidenceAsks)
     ELSE Obligation(check, IF result.state = "PASS" /\ ~CoversAll(result.coverage) THEN "OPEN"
                            ELSE result.state, TRUE)

ClaimedDimensions ==
  {d \in {"Correctness", "Architecture", "DebtDelta", "Performance"} :
     CASE d = "Correctness" -> TRUE
       [] d = "Architecture" -> "ARCHITECTURE" \in RequiredChecks /\ RiskLevel("BlastRadius") = 0
       [] d = "DebtDelta" -> "DEBT" \in RequiredChecks
       [] d = "Performance" -> "PERFORMANCE" \in RequiredChecks}
FailObligations ==
  LET report == QualityReport
      failed == {d \in DOMAIN report \ ClaimedDimensions : report[d].state = "FAIL"}
  IN {Obligation(d, "FAIL", TRUE) : d \in failed}

RequiredStrength == IF Critical THEN "BEHAVIORAL" ELSE IF preference = "HIGH" THEN "STRUCTURAL" ELSE "LEXICAL"

AnyBinding(r) == TRUE
Bound(r) == r.candidate = current

\* deriveConcernObligations: one per concern type, over the classes it was found in.
ConcernObligation(concern, recs) ==
  LET classes == {c.class : c \in {x \in raised : x.concern = concern}}
      mine == {r \in recs : /\ r.concern = concern /\ r.by \in CapabilitiesEstablishing(concern)
                            /\ Bound(r)}
      clean == \E r \in mine : r.outcome = "PASS" /\ Adequate(r, classes, RequiredStrength)
  IN Obligation(concern, IF \E r \in mine : Adverse(r) THEN "FAIL" ELSE IF clean THEN "PASS" ELSE "OPEN", TRUE)

Obligations(recs) ==
  {QuestionObligation("DISCOVERY_ADEQUACY", TRUE)}
  \cup {PlanObligation(check) : check \in RequiredChecks \ {"INDEPENDENT_REVIEW"}}
  \cup FailObligations
  \cup {ConcernObligation(c.concern, recs) : c \in raised}

Unresolved(recs) == {o \in Obligations(recs) : o.material /\ o.status \notin {"PASS", "NOT_REQUIRED"}}

\* parseReviewVerdict: only a reasoned approval that echoes this candidate.
ApprovedByAnyone(v) == v.approved /\ v.reasons
Approved(v) == v.candidate = current /\ v.reasons /\ v.approved

\* deriveTrustState
Trust(recs, v) ==
  LET resilience == "RESILIENCE" \in RequiredChecks
      durable == resilience /\ DeriveResilience.provenance = "MEASURED" /\ DeriveResilience.state = "PASS"
  IN IF checked.verification # "VERIFIED" THEN "PROPOSED"
     ELSE IF Unresolved(recs) # {} \/ (resilience /\ ~durable) THEN "CORRECTNESS_VERIFIED"
     ELSE IF "INDEPENDENT_REVIEW" \in RequiredChecks /\ ~Approved(v)
          THEN (IF durable THEN "DURABLE_VERIFIED" ELSE "QUALITY_VERIFIED")
     ELSE "MERGE_ELIGIBLE"

MergeEligible == Trust(records, verdict) = "MERGE_ELIGIBLE"

TrustNext ==
  \/ \E d \in RiskDimensions : RaiseCount(d)
  \/ \E f \in Facts : ReportFact(f)
  \/ \E found \in ConcernFindings : RaiseConcerns(found)
  \/ \E r \in ConcernRecords : ReportRecord(r)
  \/ RaisePreference \/ ReportCheck \/ LeaveRemainder \/ WriteVerdict \/ Recapture

TrustSpec == TrustInit /\ [][TrustNext]_trustVars

------------------------------------------------------------------------------
(* A merge-eligible candidate was verified, broke no deterministic rule, left nothing of    *)
(* its diff unaccounted, needs no check this build cannot do, and every concern raised      *)
(* about it was answered, for this very candidate and in every language it was raised in.   *)
Earned ==
  /\ checked.verification = "VERIFIED" /\ ~remainder
  /\ {"leak", "layering"} \cap facts = {}
  /\ counts["CodeCoupling"] < 2 /\ counts["BlastRadius"] < 2 /\ counts["DataConsistencyRisk"] < 2
  /\ \A c \in raised : \E r \in records :
       /\ r.candidate = current /\ r.concern = c.concern /\ r.outcome = "PASS"
       /\ CapabilityCoverageFor(r.by, c.concern, {c.class}, r.claim) = "FULL"
  /\ \A c \in raised, r \in records :
       r.candidate = current /\ r.concern = c.concern => r.outcome \notin {"FAIL", "WARN"}
MergeIsEarned == inputs > 0 /\ ~Earned => ~MergeEligible

(* Evidence and verdicts about another candidate decide nothing: the trust state is the one *)
(* without them (evidenceBindingMatches, parseReviewVerdict).                               *)
StaleDecidesNothing ==
  (verdict.candidate \notin {current, NoVerdict.candidate} \/ \E r \in records : r.candidate # current) =>
    Trust(records, verdict) =
      Trust({r \in records : r.candidate = current}, IF verdict.candidate = current THEN verdict ELSE NoVerdict)

(* What the diff shows only adds to what its paths show: "semantic sensitivity evidence     *)
(* from the diff's added code raises SecuritySensitivity" (risk.ts).                        *)
SemanticsNeverLower == RiskLevel("SecuritySensitivity") >= LevelOf("SecuritySensitivity")

(* More risk, a stricter preference, a failed check, a finding or adverse evidence never    *)
(* makes a candidate eligible that was not.                                                 *)
BadNewsNeverPromotes ==
  [][(/\ ~UNCHANGED trustVars /\ current' = current /\ verdict' = verdict
      /\ \A r \in records' \ records : r.outcome # "PASS"
      /\ \A k \in DOMAIN checked :
           checked'[k] \in {"PASS", "PASS_NOTHING_RUN"} => checked'[k] = checked[k]
      /\ RiskLevel("SecuritySensitivity")' >= RiskLevel("SecuritySensitivity"))
     => (MergeEligible \/ ~MergeEligible')]_trustVars

(* Once a scanner has found a secret, a flagged literal, a sensitive binding or command     *)
(* text it could not read, the security line of the report is neither PASS nor NOT_REQUIRED. *)
SecurityLineIsHonest ==
  {"leak", "flaggedLiteral", "commandUnread", "exposure", "binding"} \cap facts # {} =>
    DeriveSecurity.state \notin {"PASS", "NOT_REQUIRED"}

\* The trust state and the report that explains it rest on evidence about this candidate.
TrustIsEarned == MergeIsEarned /\ StaleDecidesNothing /\ SecurityLineIsHonest
=============================================================================
