----------------------------- MODULE MCServices -----------------------------
(* The services that share no state with each other, one of them in every behaviour: *)
(* `part` says which one moves; the others stay in their initial state.             *)
EXTENDS ModeEnforcement,
        MissionTree,
        DeliveryLedger,
        NativeLogin,
        Connections,
        TrustFold,
        ScopeDiscovery,
        LocalCode,
        PatchText,
        FlowEvidence,
        CandidateGate,
        SessionBudget,
        ProcessControl,
        Postures,
        LineDiff,
        CapabilityRun,
        ScannerRun,
        ScipQuery,
        RepositoryKnowledge,
        ContextPaging,
        StrategyLearning,
        PricedGateway,
        RuntimeSignals,
        AgentStream,
        ImportCycles

VARIABLE part

\* What the CI verifier may report.
MCReports == {<<"PENDING", NoHead>>, <<"PASS", "x">>, <<"FAIL", "y">>}
MCConcern(concern, class, by) == [concern |-> concern, class |-> class, by |-> by]
MCFindings ==
  LET flow(class) == MCConcern("SECURITY.SENSITIVE_INPUT_FLOW", class, "discovery") IN
  {{flow("TS_JS")}, {flow("TS_JS"), flow("GENERIC_SCRIPTING")},
   {MCConcern("SECURITY.CREDENTIAL_LITERAL", "TS_JS", "discovery")},
   {MCConcern("SECURITY.AUTHORIZATION_BEHAVIOR", "TS_JS", "discovery")},
   {MCConcern("RESILIENCE.CODE_FAULT_SCENARIO", "PYTHON", "provider")}}
MCVerdicts == {[candidate |-> "c1", approved |-> TRUE, reasons |-> TRUE],
  [candidate |-> "c2", approved |-> TRUE, reasons |-> TRUE]}
MCRecord(concern, by, outcome, claim, strength, candidate) ==
  [concern |-> concern, by |-> by, outcome |-> outcome, claim |-> claim, strength |-> strength, candidate |-> candidate,
   completeness |-> IF claim = Positive THEN "NOT_APPLICABLE" ELSE "COMPLETE", coverage |-> "FULL"]
MCRecords == {MCRecord("SECURITY.CREDENTIAL_LITERAL", "SECURITY.CREDENTIAL_LITERAL_SCAN", o, IF o = "PASS" THEN Negative ELSE Positive, "STRUCTURAL", c) : o \in {"PASS", "FAIL"}, c \in TrustCandidates}
  \cup {MCRecord("SECURITY.SENSITIVE_INPUT_FLOW", "SECURITY.SEMANTIC_FLOW_SCAN", "PASS", Negative, "STRUCTURAL", c) : c \in TrustCandidates}
  \cup {MCRecord("SECURITY.SENSITIVE_INPUT_FLOW", "SECURITY.CREDENTIAL_LITERAL_SCAN", "PASS", Negative, "STRUCTURAL", "c1"),
        MCRecord("RESILIENCE.CODE_FAULT_SCENARIO", "RESILIENCE.FAULT_SCENARIO_EXECUTION", "PASS", Negative, "MEASURED", "c1"),
        MCRecord("RESILIENCE.CODE_FAULT_SCENARIO", "RESILIENCE.CODE_RELEVANCE_SCAN", "WARN", Positive, "STRUCTURAL", "c1")}
MCLine(side, has) == [side |-> side, has |-> has, joined |-> {}]
MCScopeLines ==
  {MCLine("ADDED", h) : h \in
     {{"comment"}, {"comment", "closes", "rest"}, {"prose"}, {"scalar", "sink"}, {"fixed literal", "credential"},
      {"origin", "whole origin", "hidden"}, {"whole use", "condition"}, {"use", "sink"}, {"brace", "markup"}, {"environment"},
      {"continues"}}}
  \cup {MCLine("REMOVED", h) : h \in {{"scalar"}, {"type import"}}}
  \cup {MCLine("CONTEXT", h) : h \in {{"opens"}, {"opens late"}, {"tick"}}}
  \cup {[side |-> "ADDED", has |-> {}, joined |-> {"scalar"}]}
MCTextOf(k) ==
  CASE k = "split" -> {"a", ",", "(", ")", "'", ";", "NL"}
    [] k = "call" -> {"a", "(", ")", "'", "()."}
    [] k = "scalar" -> {"a", "-", "=", ">", "!", " "}
    [] k = "tokens" -> {"id", "size", ".", "(", ")", "-", "?", ":"}
MCMaxText(k) == IF k = "call" THEN 6 ELSE 5
\* A file the scanner reads in full, and one line of a language it does not read.
MCLanguages == <<"FULL", "UNSUPPORTED">>
MCMaxFlowOf(f) == IF f = 1 THEN 3 ELSE 1
PostureLineSet ==
  {[path |-> "code", signal |-> g, sign |-> "+", comment |-> FALSE] :
     g \in {"NETWORK_CALL", "TRANSACTION", "PROMISE_ALL", "SERIALIZATION", "SCHEMA_INDEX"}} \cup
  {[path |-> "code", signal |-> g, sign |-> "-", comment |-> FALSE] : g \in {"PAGINATION", "DB_QUERY"}} \cup
  {[path |-> "code", signal |-> "NETWORK_CALL", sign |-> "+", comment |-> TRUE],
   [path |-> "code", signal |-> "none", sign |-> "binary", comment |-> FALSE],
   [path |-> "operational", signal |-> "none", sign |-> "+", comment |-> FALSE],
   [path |-> "migration", signal |-> "none", sign |-> "+", comment |-> FALSE],
   [path |-> "lockfile", signal |-> "none", sign |-> "-", comment |-> FALSE],
   [path |-> "test", signal |-> "DB_QUERY", sign |-> "+", comment |-> FALSE]}
GateContents == 0..1
GateTaskSet ==
  {[spec |-> "CONFIGURED", verifier |-> "normalized-local", wants |-> {"PERFORMANCE", "RESILIENCE", "INDEPENDENT_REVIEW"}],
   [spec |-> "CONFIGURED", verifier |-> "command", wants |-> {}],
   [spec |-> "INVALID", verifier |-> "normalized-local", wants |-> {}]}
GateEvidence ==
  LET e == [expectedOnly |-> FALSE, resolution |-> "RESOLVED", termination |-> "COMPLETED", text |-> "none", exit127 |-> FALSE]
  IN  {[e EXCEPT !.expectedOnly = TRUE], [e EXCEPT !.exit127 = TRUE], e, [e EXCEPT !.termination = "TIMED_OUT"]}
BudgetReports == {-1, 0, 2, 3}
CapProvs == {"grep", "osv"}
CapOf == [p \in CapProvs |-> IF p = "osv" THEN "SCAN" ELSE "FLOW"]
CapEstablishes == [c \in {"SCAN", "FLOW"} |-> IF c = "SCAN" THEN {"DEPENDENCY_VULNERABILITY"} ELSE {"INJECTION"}]
CapCeiling == [c \in {"SCAN", "FLOW"} |-> IF c = "SCAN" THEN "UNSUPPORTED" ELSE "FULL"]
CapClasses == {"TS_JS"}
CapInventory == {"lock"}
CapAnswer(v, o, fs, cov, neg, files) ==
  [version |-> v, bound |-> TRUE, shape |-> "VALID", outcome |-> o, findings |-> fs, files |-> files,
   coverage |-> [c \in CapClasses |-> cov], negative |-> [c \in CapClasses |-> neg]]
CapFinding(t, f, s) == [target |-> t, file |-> f, severity |-> s]
CapAnswers ==
  [p \in CapProvs |->
     IF p = "osv"
     THEN {CapAnswer(1, "COMPLETED", {}, "FULL", "FULL", {"lock"}),
           CapAnswer(2, "COMPLETED", {CapFinding("DEPENDENCY_VULNERABILITY", "lock", "HIGH")}, "FULL", "MISSING", {"lock"})}
     ELSE {CapAnswer(1, "COMPLETED", {}, "FULL", "PARTIAL", {"a"}), CapAnswer(1, "COMPLETED", {}, "FULL", "FULL", {"a"}),
           [CapAnswer(1, "COMPLETED", {}, "FULL", "FULL", {"a"}) EXCEPT !.bound = FALSE],
           [CapAnswer(1, "COMPLETED", {}, "FULL", "FULL", {"a"}) EXCEPT !.shape = "MUTATES"],
           CapAnswer(1, "TIMED_OUT", {}, "MISSING", "MISSING", {}),
           CapAnswer(1, "COMPLETED", {CapFinding("INJECTION", "b", "LOW")}, "PARTIAL", "MISSING", {"a"}),
           CapAnswer(1, "COMPLETED", {CapFinding("INJECTION", "a", "LOW"), CapFinding("OTHER", "a", "HIGH")}, "PARTIAL", "MISSING", {"a"})}]
ScanTargets == 1..2
ScanClasses == <<"TS_JS", "SHELL">>
ScanRuleClasses == {"TS_JS"}
ScanFinding == [file |-> 1, severity |-> "manifest", ignored |-> FALSE]
ScanDocs ==
  {[scanned |-> {1, 2}, findings |-> {ScanFinding}, trouble |-> "none"], [scanned |-> {1}, findings |-> {}, trouble |-> "errors"],
   [scanned |-> {1, 0}, findings |-> {}, trouble |-> "none"]}
ScanVulns == {{}, {1, 2}}
ScanGroups == {<<>>, <<1>>, <<1, 2>>, <<2>>}
ScipDocs == 1..2
ScipOccurrences == {[doc |-> 1, line |-> n, sym |-> 8, def |-> FALSE] : n \in 1..5}
  \cup {[doc |-> 2, line |-> 1, sym |-> 8, def |-> TRUE], [doc |-> 2, line |-> 2, sym |-> 9, def |-> TRUE],
          [doc |-> 2, line |-> 3, sym |-> 7, def |-> FALSE]}
ScipInfos == {[doc |-> 2, sym |-> 8, rels |-> <<[to |-> 7, kind |-> "reference"]>>],
          [doc |-> 2, sym |-> 9, rels |-> <<[to |-> 8, kind |-> "implementation"]>>]}
ScipNames == {7, 8, 9}
ScipLocals == {9}
ScipAsk(op, d, n, o, s) ==
  [op |-> op, doc |-> 1, line |-> n, completeness |-> IF op = "FIND_DEFINITION" THEN "UNKNOWN" ELSE "COMPLETE",
   bounds |-> [documents |-> d, occurrences |-> o, semantic |-> s]]
ScipQueries == {ScipAsk("FIND_REFERENCES", 2, 2, 8, 4), ScipAsk("FIND_IMPLEMENTATIONS", 2, 2, 7, 4), ScipAsk("FIND_SYMBOL", 1, 8, 8, 4),
  ScipAsk("FIND_DEFINITION", 2, 2, 8, 1), ScipAsk("FIND_DEFINITION", 2, 2, 8, 4)}
LDeployments == {<<"memory", "BALANCED">>, <<"postgres", "CRITICAL">>}
LRuns == 1..2
LEnding(s, v, d, c, a, h) == [scope |-> s, verified |-> v, durable |-> d, cost |-> c, quality |-> IF v THEN "PASS" ELSE "UNKNOWN", assurance |-> a, health |-> h]
LEndings == {LEnding("BALANCED", TRUE, TRUE, TRUE, "PASS", "STABLE"), LEnding("BALANCED", FALSE, FALSE, FALSE, "NOT_CHECKED", "STABLE"), LEnding("BALANCED", TRUE, FALSE, FALSE, "FAIL", "DEGRADING"), LEnding("CRITICAL", TRUE, TRUE, TRUE, "PASS", "STABLE")}
LEvents == <<[run |-> 1, material |-> TRUE, revision |-> 1], [run |-> 1, material |-> FALSE, revision |-> 1]>>
PSource(k, ks, l) == [kids |-> k, kind |-> ks, large |-> l]
PSources == {PSource(<<<<2, 3>>, <<>>, <<>>>>, <<"node", "leaf", "leaf">>, FALSE), PSource(<<<<2, 2>>, <<3>>, <<>>>>, <<"node", "node", "leaf">>, FALSE), PSource(<<<<2, 3>>, <<3, 3>>, <<>>>>, <<"node", "node", "leaf">>, FALSE), PSource(<<<<2, 3>>, <<3, 3>>, <<4>>, <<>>>>, <<"node", "node", "node", "leaf">>, FALSE), PSource(<<<<2>>, <<3>>, <<4>>, <<>>>>, <<"node", "node", "node", "leaf">>, FALSE), PSource(<<<<2>>, <<1>>>>, <<"node", "node">>, FALSE), PSource(<<<<2>>, <<>>>>, <<"node", "odd">>, FALSE), PSource(<<<<>>>>, <<"leaf">>, TRUE)}
PEntry(w, i, o, c, m, s) == [raw |-> w, input |-> i, output |-> o, cache |-> c, modifier |-> m, sound |-> s]
PEntries == {PEntry(<<"m">>, 1, 3, -1, FALSE, TRUE), PEntry(<<"p", "m">>, 1, 2, 1, FALSE, TRUE), PEntry(<<"p", "p", "m">>, 2, -2, 1, FALSE, TRUE), PEntry(<<"m">>, -1, -1, 1, FALSE, TRUE), PEntry(<<"p", "m">>, 1, 1, 1, TRUE, TRUE), PEntry(<<"p", "m">>, 1, 1, 1, FALSE, FALSE)}
PCatalogues == {<<e, PEntry(<<"p", "m">>, 1, 2, 1, FALSE, TRUE)>> : e \in PEntries} \cup {<<PEntry(<<"m">>, 1, 3, -1, FALSE, TRUE), e>> : e \in {PEntry(<<"m">>, 2, 2, 2, FALSE, TRUE), PEntry(<<"p", "p", "m">>, 2, -2, 1, FALSE, TRUE)}}
PRequests == {<<"m">>, <<"p", "m">>, <<>>}
PUsage(i, o, c, s) == [input |-> i, output |-> o, cached |-> c, sound |-> s]
PUsages == {PUsage(0, 0, 0, TRUE), PUsage(2, 1, 1, TRUE), PUsage(1, 0, 1, TRUE), PUsage(0, 0, 1, TRUE), PUsage(1, 1, 0, FALSE)}
SgModule == <<"A", "A", "B">>
SgLinks == {<<1, 3>>}

Parts == {"mode", "mission", "delivery", "login", "connections", "trust", "scope", "local", "patch", "flow", "gate", "budget", "process", "posture", "diff", "capability", "scanner", "scip", "knowledge", "context", "learning", "pricing", "signals", "stream", "imports"}

Init ==
  /\ part \in Parts
  /\ ModeInit /\ (part # "mode" => capability = "neither")
  /\ MissionInit /\ (part # "mission" => node[MissionRoot].dep = NoId)
  /\ DeliveryInit
  /\ LoginInit
  /\ ConnInit
  /\ TrustInit
  /\ ScopeInit
  /\ LocalInit
  /\ PatchInit
  /\ FlowInit
  /\ GateInit
  /\ BudgetInit
  /\ ProcInit
  /\ PostureInit
  /\ DiffInit
  /\ CapInit
  /\ ScanInit
  /\ ScipInit
  /\ KnowInit
  /\ ContextInit
  /\ LearnInit
  /\ PricedInit
  /\ SignalInit
  /\ StreamInit
  /\ ImportInit

vars == <<part,
          modeVars,
          missionVars,
          deliveryVars,
          loginVars,
          connVars,
          trustVars,
          scopeVars,
          localVars,
          patchVars,
          flowVars,
          gateVars,
          budgetVars,
          procVars,
          postureVars,
          diffVars,
          capVars,
          scanVars,
          scipVars,
          knowVars,
          contextVars,
          learnVars,
          pricedVars,
          signalVars,
          streamVars,
          importVars>>

\* The part that moves; every other one rests.
Moves(p) ==
  /\ IF p = "mode" THEN ModeNext ELSE UNCHANGED modeVars
  /\ IF p = "login" THEN LoginNext ELSE UNCHANGED loginVars
  /\ IF p = "connections" THEN ConnNext ELSE UNCHANGED connVars
  /\ IF p = "trust" THEN TrustNext ELSE UNCHANGED trustVars
  /\ IF p = "scope" THEN ScopeNext ELSE UNCHANGED scopeVars
  /\ IF p = "local" THEN LocalNext ELSE UNCHANGED localVars
  /\ IF p = "patch" THEN PatchNext ELSE UNCHANGED patchVars
  /\ IF p = "flow" THEN FlowNext ELSE UNCHANGED flowVars
  /\ IF p = "gate" THEN GateNext ELSE UNCHANGED gateVars
  /\ IF p = "budget" THEN BudgetNext ELSE UNCHANGED budgetVars
  /\ IF p = "process" THEN ProcNext ELSE UNCHANGED procVars
  /\ IF p = "posture" THEN PostureNext ELSE UNCHANGED postureVars
  /\ IF p = "diff" THEN DiffNext ELSE UNCHANGED diffVars
  /\ IF p = "capability" THEN CapNext ELSE UNCHANGED capVars
  /\ IF p = "scanner" THEN ScanNext ELSE UNCHANGED scanVars
  /\ IF p = "scip" THEN ScipNext ELSE UNCHANGED scipVars
  /\ IF p = "signals" THEN SignalNext ELSE UNCHANGED signalVars
  /\ IF p = "stream" THEN StreamNext ELSE UNCHANGED streamVars
  /\ IF p = "imports" THEN ImportNext ELSE UNCHANGED importVars
  /\ IF p = "pricing" THEN PricedNext ELSE UNCHANGED pricedVars
  /\ IF p = "learning" THEN LearnNext ELSE UNCHANGED learnVars
  /\ IF p = "delivery" THEN DeliveryNext ELSE UNCHANGED deliveryVars
  /\ IF p = "context" THEN ContextNext ELSE UNCHANGED contextVars
  /\ IF p = "mission" THEN MissionNext ELSE UNCHANGED missionVars
  /\ IF p = "knowledge" THEN KnowNext ELSE UNCHANGED knowVars

\* Two states of one part differ in that part alone, so it alone identifies them.
RestView ==
  CASE part = "mode" -> <<part, modeVars>>
    [] part = "mission" -> <<part, missionVars>>
    [] part = "delivery" -> <<part, deliveryVars>>
    [] part = "login" -> <<part, loginVars>>
    [] part = "connections" -> <<part, connVars>>
    [] part = "trust" -> <<part, trustVars>>
    [] part = "scope" -> <<part, scopeVars>>
    [] part = "local" -> <<part, localVars>>
    [] part = "patch" -> <<part, patchVars>>
    [] part = "flow" -> <<part, flowVars>>
    [] part = "gate" -> <<part, gateVars>>
    [] part = "budget" -> <<part, budgetVars>>
    [] part = "process" -> <<part, procVars>>
    [] part = "posture" -> <<part, postureVars>>
    [] part = "diff" -> <<part, diffVars>>
    [] part = "capability" -> <<part, capVars>>
    [] part = "scanner" -> <<part, scanVars>>
    [] part = "scip" -> <<part, scipVars>>
    [] part = "knowledge" -> <<part, knowVars>>
    [] part = "context" -> <<part, contextVars>>
    [] part = "learning" -> <<part, learnVars>>
    [] part = "pricing" -> <<part, pricedVars>>
    [] part = "signals" -> <<part, signalVars>>
    [] part = "stream" -> <<part, streamVars>>
    [] part = "imports" -> <<part, importVars>>

Next == UNCHANGED part /\ Moves(part)

Spec == Init /\ [][Next]_vars
=============================================================================
