------------------------------ MODULE Adequacy ------------------------------
(* capability-adequacy: what each checker of this build can establish, how strongly, in *)
(* which direction and in which language classes.  A PASS settles a question only here. *)
EXTENDS Naturals, FiniteSets

LanguageClasses == {"TS_JS", "PYTHON", "SHELL", "GENERIC_SCRIPTING", "BOUNDED_COMPILED",
                    "UNMODELLED", "CONFIG_WORKFLOW"}
Positive == "POSITIVE_FINDING"
Negative == "NEGATIVE_ABSENCE"

\* languageClassOf, over file extensions; an unknown one is UNMODELLED.
LanguageClassOf(extension) ==
  CASE extension \in {"ts", "tsx", "js", "mjs", "vue"} -> "TS_JS"
    [] extension \in {"py", "pyi"} -> "PYTHON"
    [] extension \in {"sh", "bash", "zsh"} -> "SHELL"
    [] extension \in {"rb", "php", "lua", "ps1"} -> "GENERIC_SCRIPTING"
    [] extension \in {"go", "rs", "kt", "swift"} -> "BOUNDED_COMPILED"
    [] extension \in {"yml", "toml", "ini", "conf"} -> "CONFIG_WORKFLOW"
    [] OTHER -> "UNMODELLED"

CoverageRank(coverage) ==
  CASE coverage = "UNSUPPORTED" -> 0 [] coverage = "PARTIAL" -> 1
    [] coverage = "FULL" -> 2 [] coverage = "NOT_APPLICABLE" -> 3
WeakerCoverage(x, y) == IF CoverageRank(x) <= CoverageRank(y) THEN x ELSE y
CoversAll(coverage) == coverage \in {"FULL", "NOT_APPLICABLE"}

StrengthRank(strength) ==
  CASE strength = "LEXICAL" -> 0 [] strength = "STRUCTURAL" -> 1
    [] strength = "BEHAVIORAL" -> 2 [] strength = "MEASURED" -> 3
MeetsStrength(actual, required) == StrengthRank(actual) >= StrengthRank(required)
WeakerStrength(x, y) == IF StrengthRank(x) <= StrengthRank(y) THEN x ELSE y

\* The classes a detector reads in full and in part; it cannot read the others.
Reads(full, partial) ==
  [c \in LanguageClasses |-> IF c \in full THEN "FULL"
                             ELSE IF c \in partial THEN "PARTIAL" ELSE "UNSUPPORTED"]
Nothing == Reads({}, {})
Modelled == {"TS_JS", "PYTHON", "BOUNDED_COMPILED"}
Scripts == {"TS_JS", "PYTHON", "SHELL", "GENERIC_SCRIPTING"}

Establishes(capability, concern, strength, claims, reads, negativeReads) ==
  [capability |-> capability, concern |-> concern, strength |-> strength,
   claims |-> claims, reads |-> reads, negativeReads |-> negativeReads]
BothWays(capability, concern, strength, reads) ==
  Establishes(capability, concern, strength, {Positive, Negative}, reads, reads)

DiscoveryEstablishments ==
  LET scope == "DISCOVERY.MATERIAL_CONCERN_SCOPE_ADEQUACY"
      bounded == Reads(Modelled, {"SHELL"})
  IN {Establishes("DISCOVERY.CONCERN_WITNESS", scope, "STRUCTURAL", {Positive},
        Reads(Modelled \cup {"UNMODELLED", "CONFIG_WORKFLOW"}, {"SHELL", "GENERIC_SCRIPTING"}),
        Nothing),
      Establishes("DISCOVERY.BOUNDED_CHANGE_CLASSIFIER", scope, "STRUCTURAL", {Negative},
        bounded, bounded)}

SecurityEstablishments ==
  LET question == "SECURITY.MATERIAL_CONCERN_DISCOVERY"
      bounded == Reads(Modelled, {"SHELL"})
  IN {BothWays("SECURITY.CREDENTIAL_LITERAL_SCAN", "SECURITY.CREDENTIAL_LITERAL", "STRUCTURAL",
        Reads(Scripts, {"BOUNDED_COMPILED", "UNMODELLED", "CONFIG_WORKFLOW"})),
      Establishes("SECURITY.CONCERN_DISCOVERY", question, "STRUCTURAL", {Positive},
        Reads(Modelled \cup {"UNMODELLED"}, {"SHELL", "GENERIC_SCRIPTING"}), Nothing),
      Establishes("SECURITY.NON_BEHAVIORAL_CHANGE_CLASSIFIER", question, "STRUCTURAL",
        {Negative}, bounded, bounded),
      Establishes("SECURITY.DEPENDENCY_VULNERABILITY_SCAN", "SECURITY.DEPENDENCY_VULNERABILITY",
        "STRUCTURAL", {Positive}, Reads({}, LanguageClasses), Nothing),
      BothWays("SECURITY.SEMANTIC_FLOW_SCAN", "SECURITY.SENSITIVE_INPUT_FLOW", "STRUCTURAL",
        Reads({"TS_JS", "PYTHON", "SHELL"}, {"GENERIC_SCRIPTING"})),
      BothWays("SECURITY.SEMANTIC_FLOW_SCAN", "SECURITY.ENV_SECRET_EXPOSURE", "STRUCTURAL",
        Reads({}, Scripts))}

ResilienceEstablishments ==
  LET code == Reads({"TS_JS"}, {"PYTHON", "SHELL", "GENERIC_SCRIPTING"})
  IN {BothWays("RESILIENCE.CODE_RELEVANCE_SCAN", "RESILIENCE.MATERIAL_SCENARIO_DISCOVERY",
        "STRUCTURAL", code),
      BothWays("RESILIENCE.CODE_RELEVANCE_SCAN", "RESILIENCE.CODE_FAULT_SCENARIO",
        "STRUCTURAL", code),
      BothWays("RESILIENCE.FAULT_SCENARIO_EXECUTION", "RESILIENCE.REQUIRED_SCENARIO_EXECUTION",
        "MEASURED", Reads(Scripts, {})),
      BothWays("RESILIENCE.FAULT_SCENARIO_EXECUTION", "RESILIENCE.CODE_FAULT_SCENARIO",
        "MEASURED", Reads(Scripts, {}))}

Establishments == DiscoveryEstablishments \cup SecurityEstablishments \cup ResilienceEstablishments

Entries(capability, concern) ==
  {e \in Establishments : e.capability = capability /\ e.concern = concern}
CapabilitiesEstablishing(concern) == {e.capability : e \in {x \in Establishments : x.concern = concern}}
SupportsClaim(capability, concern, claim) ==
  \E e \in Entries(capability, concern) : claim \in e.claims

WorstOf(coverages) ==
  IF coverages = {} THEN "NOT_APPLICABLE"
  ELSE CHOOSE c \in coverages : \A d \in coverages : CoverageRank(c) <= CoverageRank(d)

\* capabilityCoverageFor: the worst language class wins.
CapabilityCoverageFor(capability, concern, classes, claim) ==
  IF Entries(capability, concern) = {} THEN "UNSUPPORTED"
  ELSE LET e == CHOOSE x \in Entries(capability, concern) : TRUE
           reads == IF claim = Negative THEN e.negativeReads ELSE e.reads
       IN WorstOf({reads[c] : c \in classes})
CapabilityStrength(capability, concern) ==
  (CHOOSE e \in Entries(capability, concern) : TRUE).strength

\* capabilityNegativeAbsenceCeiling: what a provider may claim for a capability as a whole.
NegativeAbsenceCeiling(capability, classes) ==
  LET entries == {e \in Establishments : e.capability = capability}
  IN IF entries = {} \/ \E e \in entries : Negative \notin e.claims THEN "UNSUPPORTED"
     ELSE IF classes = {} THEN "NOT_APPLICABLE"
     ELSE WorstOf({"FULL"} \cup {e.negativeReads[c] : e \in entries, c \in classes})
=============================================================================
