----------------------------- MODULE CapabilityRun -----------------------------
(***************************************************************************)
(* One execution of the registered capability providers for a candidate:   *)
(* src/application/capability-registry.ts and capability-execution.ts,     *)
(* src/domain/capability/binding.ts and fold.ts, and assessCapabilities of *)
(* the run service.  All providers run at once; meanwhile a tool may be    *)
(* upgraded and the worktree may be written.                               *)
(***************************************************************************)
EXTENDS Integers, FiniteSets

CONSTANTS CapProviders,     \* registered providers
          CapabilityOf,     \* the capability each was registered under
          MayEstablish,      \* capability -> the concern types it may establish
          NegativeCeiling,  \* capability -> what the registry lets its silence claim
          CandidateClasses, \* language classes of the changed files
          InventoryFiles,   \* changed files that are dependency inventories
          Answers,          \* provider -> the results it may return
          Scanner,          \* SECURITY.DEPENDENCY_VULNERABILITY_SCAN
          MaxUpgrades, MaxWrites

CoverageValues == {"FULL", "PARTIAL", "UNSUPPORTED", "NOT_APPLICABLE", "MISSING"}

ASSUME CapAssumption ==
  \A p \in CapProviders :
    /\ NegativeCeiling[CapabilityOf[p]] \in {"FULL", "PARTIAL", "UNSUPPORTED"}
    /\ \A a \in Answers[p], c \in CandidateClasses :
         a.coverage[c] \in CoverageValues /\ a.negative[c] \in CoverageValues

VARIABLES tools,    \* [version: provider -> 0 (absent) .. , since: versions seen since the execution began]
          bytes,    \* [now: the worktree, 0 being the candidate; writes, reverted]
          probes,   \* the registry's probeCache
          calls     \* provider -> [step, probe, seen, answer, evidence]

capVars == <<tools, bytes, probes, calls>>

NoCapEvidence == [binding |-> "NONE"]
IdleCall == [step |-> "idle", probe |-> -1, seen |-> 0, answer |-> <<>>, evidence |-> NoCapEvidence]

CapInit ==
  /\ tools = [version |-> [p \in CapProviders |-> 1], since |-> [p \in CapProviders |-> {}], upgrades |-> 0]
  /\ bytes = [now |-> 0, writes |-> 0, reverted |-> FALSE]
  /\ probes = [p \in CapProviders |-> -1]
  /\ calls = [p \in CapProviders |-> IdleCall]

Executing == \E p \in CapProviders : calls[p].step \notin {"idle", "folded"}

\* The operator upgrades or removes a tool (external).
Upgrade(p) ==
  /\ tools.upgrades < MaxUpgrades
  /\ \E v \in {0, tools.version[p] + 1} :
       tools' = [tools EXCEPT !.version[p] = v, !.upgrades = @ + 1, !.since[p] = IF Executing THEN @ \cup {v} ELSE @]
  /\ UNCHANGED <<bytes, probes, calls>>

\* Something writes to the worktree (external).
WriteDuring(v) ==
  /\ Executing /\ bytes.writes < MaxWrites /\ v # bytes.now
  /\ bytes' = [now |-> v, writes |-> bytes.writes + 1, reverted |-> bytes.reverted \/ v = 0]
  /\ UNCHANGED <<tools, probes, calls>>

-----------------------------------------------------------------------------
(* CapabilityRegistry *)

\* resolve: a listing is content with the cached probe.
Resolve(p) ==
  /\ calls[p].step = "idle" /\ probes[p] = -1
  /\ probes' = [probes EXCEPT ![p] = tools.version[p]]
  /\ UNCHANGED <<tools, bytes, calls>>

\* Mutant: the execution is content with it too.
ProbeCached(p) ==
  /\ calls[p].step = "probing"
  /\ probes' = [probes EXCEPT ![p] = IF @ = -1 THEN tools.version[p] ELSE @]
  /\ calls' = [calls EXCEPT ![p].step = "probed", ![p].probe = probes'[p]]
  /\ UNCHANGED <<tools, bytes>>

\* probe, with freshProbe: the cache is passed over and then overwritten.
Probe(p) ==
  /\ calls[p].step = "probing"
  /\ probes' = [probes EXCEPT ![p] = tools.version[p]]
  /\ calls' = [calls EXCEPT ![p].step = "probed", ![p].probe = tools.version[p]]
  /\ UNCHANGED <<tools, bytes>>

-----------------------------------------------------------------------------
(* foldCapabilityResult *)

\* Mutant: a finding-free result is not asked what its silence may claim.
FoldSilence(p, a) ==
  CASE a.outcome # "COMPLETED" -> IF a.outcome = "UNSUPPORTED" THEN "UNSUPPORTED" ELSE "NOT_CHECKED"
    [] a.findings # {} -> IF \E f \in a.findings : f.severity = "HIGH" THEN "FAIL" ELSE "WARN"
    [] a.files = {} \/ \E c \in CandidateClasses : a.coverage[c] \in {"MISSING", "UNSUPPORTED"} -> "UNSUPPORTED"
    [] \E c \in CandidateClasses : a.coverage[c] # "FULL" -> "UNKNOWN"
    [] OTHER -> "PASS"

FoldResult(p, a) ==
  IF a.outcome # "COMPLETED"
  THEN IF a.outcome = "UNSUPPORTED" THEN "UNSUPPORTED" ELSE "NOT_CHECKED"
  ELSE IF a.findings # {}
  THEN IF \E f \in a.findings : f.severity = "HIGH" THEN "FAIL" ELSE "WARN"
  ELSE IF CandidateClasses = {} THEN "NOT_REQUIRED"
  ELSE IF \/ a.files = {} \/ NegativeCeiling[CapabilityOf[p]] = "UNSUPPORTED"
          \/ \E c \in CandidateClasses : \/ a.coverage[c] \in {"MISSING", "UNSUPPORTED"}
                                         \/ a.negative[c] \in {"MISSING", "UNSUPPORTED", "NOT_APPLICABLE"}
  THEN "UNSUPPORTED"
  ELSE IF \/ NegativeCeiling[CapabilityOf[p]] = "PARTIAL"
          \/ \E c \in CandidateClasses : \/ a.coverage[c] \in {"PARTIAL", "NOT_APPLICABLE"}
                                         \/ a.negative[c] = "PARTIAL"
  THEN "UNKNOWN"
  ELSE "PASS"

-----------------------------------------------------------------------------
(* executeRegisteredCapabilities and executeResolution *)

ExecuteAll ==
  /\ \A p \in CapProviders : calls[p].step = "idle"
  /\ calls' = [p \in CapProviders |-> [IdleCall EXCEPT !.step = "probing"]]
  /\ tools' = [tools EXCEPT !.since = [p \in CapProviders |-> {tools.version[p]}]]
  /\ UNCHANGED <<bytes, probes>>

\* nonResult: nothing the provider said is kept.
NonResult(p, binding, outcome) ==
  calls' = [calls EXCEPT ![p].step = "observing",
                         ![p].evidence = [binding |-> binding, outcome |-> outcome, status |-> "NOT_CHECKED",
                                          findings |-> {}, files |-> {}]]

Unavailable(p) ==
  /\ calls[p].step = "probed" /\ calls[p].probe = 0
  /\ NonResult(p, "NOT_EVALUATED", "UNAVAILABLE") /\ UNCHANGED <<tools, bytes, probes>>

\* provider.analyze starts reading the worktree ...
AnalyzeStarts(p) ==
  /\ calls[p].step = "probed" /\ calls[p].probe # 0
  /\ calls' = [calls EXCEPT ![p].step = "analyzing", ![p].seen = bytes.now]
  /\ UNCHANGED <<tools, bytes, probes>>

\* ... and returns what it likes: a result for this invocation or for another, or one that changes
\* while it is copied.
Returns(p, a) ==
  /\ calls[p].step = "analyzing"
  /\ calls' = [calls EXCEPT ![p].step = "returned", ![p].answer = <<a>>]
  /\ UNCHANGED <<tools, bytes, probes>>
AnalyzeThrows(p) ==
  /\ calls[p].step = "analyzing"
  /\ NonResult(p, "NOT_EVALUATED", "ANALYZE_THREW") /\ UNCHANGED <<tools, bytes, probes>>

\* resultShapeIsValid, of the result and of its copy: the findings lie in the files it says it read.
ShapeIsValid(a) == a.shape = "VALID" /\ \A f \in a.findings : f.file \in a.files

\* validateCapabilityResultBinding
BindsResult(p, a) == ShapeIsValid(a) /\ a.bound /\ a.version = calls[p].probe

\* revalidate, the binding check and the fold: no await lies between the last two.
Validate(p) ==
  LET a == calls[p].answer[1]
      status == FoldResult(p, a) IN
  /\ calls[p].step = "returned"
  /\ IF bytes.now # 0 \/ ~BindsResult(p, a) THEN NonResult(p, "REJECTED", "BINDING_REJECTED")
     ELSE calls' = [calls EXCEPT ![p].step = "observing",
                      ![p].evidence = [binding |-> "MATCHED", outcome |-> a.outcome, status |-> status,
                                       findings |-> IF status \in {"FAIL", "WARN"} THEN a.findings ELSE {},
                                       files |-> a.files]]
  /\ UNCHANGED <<tools, bytes, probes>>
RevalidateThrows(p) ==
  /\ calls[p].step = "returned"
  /\ NonResult(p, "REJECTED", "BINDING_REJECTED") /\ UNCHANGED <<tools, bytes, probes>>

\* deliverObservation: DISABLED, EMITTED or FAILED, the evidence is the same.
Observe(p, telemetry) ==
  /\ calls[p].step = "observing"
  /\ calls' = [calls EXCEPT ![p].step = "folded"]
  /\ UNCHANGED <<tools, bytes, probes>>

Folded == {p \in CapProviders : calls[p].step = "folded"}
AllFolded == Folded = CapProviders

CapNext ==
  \/ ExecuteAll
  \/ \E p \in CapProviders :
       \/ Upgrade(p) \/ Resolve(p) \/ Probe(p) \/ Unavailable(p) \/ AnalyzeStarts(p) \/ AnalyzeThrows(p)
       \/ \E a \in Answers[p] : Returns(p, a)
       \/ Validate(p) \/ RevalidateThrows(p)
       \/ \E t \in {"DISABLED", "EMITTED", "FAILED"} : Observe(p, t)
  \/ \E v \in 0..1 : WriteDuring(v)

CapSpec == CapInit /\ [][CapNext]_capVars

-----------------------------------------------------------------------------
(* projectCapabilityConcerns *)

\* A finding becomes a concern only if its capability may establish it.
Projected(p) ==
  LET e == calls[p].evidence IN
  IF e.binding = "MATCHED" /\ e.outcome = "COMPLETED" /\ e.status \in {"FAIL", "WARN"}
  THEN {[concern |-> f.target, file |-> f.file, outcome |-> IF f.severity = "HIGH" THEN "FAIL" ELSE "WARN"] :
          f \in {g \in e.findings : g.target \in MayEstablish[CapabilityOf[p]]}}
  ELSE {}

Scanners == {p \in Folded : CapabilityOf[p] = Scanner}

\* Mutant: an inventory is a question only where a scanner answered.
InventoryAsked ==
  {[concern |-> "DEPENDENCY_VULNERABILITY", file |-> f, outcome |-> "NOT_CHECKED"] :
     f \in {g \in InventoryFiles : \E p \in Scanners : calls[p].evidence.binding = "MATCHED"}}

InventoryConcerns ==
  {[concern |-> "DEPENDENCY_VULNERABILITY", file |-> f, outcome |-> "NOT_CHECKED"] : f \in InventoryFiles}

Projection == (UNION {Projected(p) : p \in Folded}) \cup InventoryConcerns

-----------------------------------------------------------------------------
(* Properties *)

\* Evidence that is taken as the candidate's was read from the candidate's bytes and from a tool
\* version that was installed while this execution ran, however old the registry's cache is.
\* (Bytes that changed and changed back are beyond a digest.)
MatchedIsCurrent ==
  \A p \in CapProviders :
    calls[p].evidence.binding = "MATCHED" =>
      /\ calls[p].probe \in tools.since[p]
      /\ bytes.reverted \/ calls[p].seen = 0

\* A provider's silence passes only where it read something and both it and the registry vouch for
\* absence in every language class that changed.
SilenceNeedsAuthority ==
  \A p \in Folded :
    calls[p].evidence.binding = "MATCHED" /\ calls[p].evidence.status = "PASS" =>
      LET a == calls[p].answer[1] IN
      /\ a.files # {} /\ a.findings = {} /\ NegativeCeiling[CapabilityOf[p]] = "FULL"
      /\ \A c \in CandidateClasses : a.coverage[c] = "FULL" /\ a.negative[c] = "FULL"

\* Providers only add questions.  Whatever is unavailable, throws, is rejected or cannot be
\* observed, the changed inventories are asked about, and every acceptable finding is.
ConcernsSurvive ==
  /\ \A f \in InventoryFiles : \E c \in Projection : c.concern = "DEPENDENCY_VULNERABILITY" /\ c.file = f
  /\ \A p \in Folded :
       calls[p].evidence.binding = "MATCHED" /\ calls[p].answer[1].outcome = "COMPLETED" =>
         \A f \in calls[p].answer[1].findings :
           f.target \in MayEstablish[CapabilityOf[p]] =>
             \E c \in Projection : c.concern = f.target /\ c.file = f.file

\* What providers say is current, absence needs authority, and no question is lost.
CapabilityEvidenceIsSound == MatchedIsCurrent /\ SilenceNeedsAuthority /\ ConcernsSurvive
=============================================================================
