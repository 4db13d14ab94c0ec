---------------------------- MODULE RuntimeSignals ----------------------------
(***************************************************************************)
(* EvidenceRuntimeSignalCollector (src/application/                        *)
(* runtime-signal-collector.ts): what it remembers of a run's events,      *)
(* diffs and verifications, and the two heuristic signals, scopeStabilized *)
(* and mechanicalRemainingWork, it derives after every one of them.        *)
(***************************************************************************)
EXTENDS Integers, Sequences, FiniteSets

CONSTANTS SignalFiles, SignalModule,   \* the repository's files, file -> module
          InitialFiles,                \* the files selected for the agent
          ImportLinks,                 \* the imports a scope index may resolve, pairs of files
          SignalPatterns,              \* structural patterns of an edit
          StabilizationWindow,         \* 5 in the code, at least 2
          MechanicalEdits, MechanicalTargets,
          MaxSignals                   \* observations of one run

\* A repository is finite, and the constructor refuses a smaller window.
ASSUME SignalAssumption ==
  /\ IsFiniteSet(SignalFiles) /\ IsFiniteSet(ImportLinks)
  /\ StabilizationWindow \in Nat \ {0} /\ MechanicalTargets \in Nat

VARIABLES
  collected,  \* the collector's state
  signal,     \* the heuristic signals of the last snapshot
  quietFor    \* history: meaningful activities since the scope last grew, and since a verifier failure

signalVars == <<collected, signal, quietFor>>

Modules(files) == {SignalModule[f] : f \in files}

\* meaningfulCrossModuleEdges: resolved imports between two modules that were both observed.
CrossEdges(links, modules) ==
  {<<SignalModule[l[1]], SignalModule[l[2]]>> :
     l \in {k \in links : /\ SignalModule[k[1]] # SignalModule[k[2]]
                          /\ {SignalModule[k[1]], SignalModule[k[2]]} \subseteq modules}}

\* The state observe creates for INITIAL_CONTEXT.
SignalInit ==
  /\ collected = [links |-> {}, files |-> InitialFiles, modules |-> Modules(InitialFiles), changed |-> {},
                  recent |-> <<>>, stabilized |-> FALSE, targets |-> {}, invalidations |-> 0,
                  unresolved |-> FALSE, mechanical |-> "unsaid", count |-> 0]
  /\ signal = [stabilized |-> FALSE, mechanical |-> FALSE]
  /\ quietFor = [growth |-> 0, failure |-> StabilizationWindow]

Activity(newFiles, newModules, newEdges, targets, failure, pattern) ==
  [expanded |-> newFiles # {} \/ newModules # {} \/ newEdges > 0, edges |-> newEdges, targets |-> targets,
   failure |-> failure, pattern |-> pattern]

\* recordActivity: the activity joins the history (of which the last window matters); what a
\* stabilized scope cannot absorb invalidates it.
InvalidatesGrowthOnly(c, a) == c.stabilized /\ (a.expanded \/ a.edges > 0 \/ a.targets \ c.targets # {})
Invalidates(c, a) == c.stabilized /\ (a.expanded \/ a.edges > 0 \/ a.failure \/ a.targets \ c.targets # {})
LastWindow(s) == SubSeq(s, IF Len(s) > StabilizationWindow THEN Len(s) - StabilizationWindow + 1 ELSE 1, Len(s))
RecordActivity(c, a) ==
  [c EXCEPT !.recent = LastWindow(Append(@, a)),
            !.stabilized = @ /\ ~Invalidates(c, a),
            !.invalidations = IF Invalidates(c, a) THEN @ + 1 ELSE @]

RecentTargets(c) == UNION {c.recent[i].targets : i \in DOMAIN c.recent}
StabilizedEarly(c) ==
  /\ Len(c.recent) = StabilizationWindow /\ c.modules # {}
  /\ ~c.recent[Len(c.recent)].expanded
  /\ Cardinality(RecentTargets(c)) <= MechanicalTargets
  /\ ~c.unresolved /\ \A i \in DOMAIN c.recent : ~c.recent[i].failure
\* The multi-signal policy of snapshot.
ScopeStabilized(c) ==
  /\ Len(c.recent) = StabilizationWindow /\ c.modules # {}
  /\ \A i \in DOMAIN c.recent : ~c.recent[i].expanded /\ c.recent[i].edges = 0 /\ ~c.recent[i].failure
  /\ Cardinality(RecentTargets(c)) <= MechanicalTargets
  /\ ~c.unresolved

MechanicalWork(c) ==
  LET edits == {i \in DOMAIN c.recent : c.recent[i].pattern # "none"} IN
  /\ ScopeStabilized(c) /\ Cardinality(edits) >= MechanicalEdits
  /\ Cardinality({c.recent[i].pattern : i \in edits}) = 1
  /\ RecentTargets(c) # {} /\ c.mechanical # "denied"

\* Every observation ends with a snapshot.
Snapshot(c) ==
  /\ collected' = [c EXCEPT !.stabilized = ScopeStabilized(c), !.count = @ + 1,
                            !.targets = IF ScopeStabilized(c) THEN RecentTargets(c) ELSE @]
  /\ signal' = [stabilized |-> ScopeStabilized(c), mechanical |-> MechanicalWork(c)]

Saturating(n) == IF n < StabilizationWindow THEN n + 1 ELSE n

\* observeAgentEvent: the grown repository is adopted before the edges are counted, so an import
\* that was only just resolved between two observed modules is never a new edge. Only a tool call
\* or a context expansion is a meaningful activity; any event may widen what was observed.
ObserveAgentEvent(files, links, meaningful, pattern, said) ==
  LET newFiles == files \ collected.files
      newModules == Modules(files) \ collected.modules
      modules == collected.modules \cup newModules
      newEdges == Cardinality(CrossEdges(links, modules)) - Cardinality(CrossEdges(links, collected.modules))
      c == [collected EXCEPT !.links = links, !.files = @ \cup files, !.modules = modules,
                             !.mechanical = IF said = "unsaid" THEN @ ELSE said]
      a == Activity(newFiles, newModules, newEdges, IF pattern = "none" THEN {} ELSE files, FALSE, pattern)
  IN /\ collected.count < MaxSignals /\ collected.links \subseteq links
     /\ Snapshot(IF meaningful THEN RecordActivity(c, a) ELSE c)
     /\ quietFor' = IF ~meaningful THEN quietFor
                    ELSE [growth |-> IF newFiles # {} \/ newModules # {} THEN 0 ELSE Saturating(quietFor.growth),
                          failure |-> Saturating(quietFor.failure)]

\* observeDiff: git's changed files; a file the index does not know counts like any other.
ObserveDiff(files) ==
  LET newFiles == files \ collected.files
      newModules == Modules(files) \ collected.modules
      modules == collected.modules \cup newModules
      newEdges == Cardinality(CrossEdges(collected.links, modules)) - Cardinality(CrossEdges(collected.links, collected.modules))
      c == [collected EXCEPT !.files = @ \cup files, !.modules = modules, !.changed = @ \cup files]
  IN /\ collected.count < MaxSignals
     /\ Snapshot(RecordActivity(c, Activity(newFiles, newModules, newEdges, files, FALSE, "none")))
     /\ quietFor' = [growth |-> IF newFiles # {} \/ newModules # {} THEN 0 ELSE Saturating(quietFor.growth),
                     failure |-> Saturating(quietFor.failure)]

\* observeVerification: a failure is an activity of its own, a success only resolves the last one.
ObserveVerification(verified) ==
  LET c == [collected EXCEPT !.unresolved = ~verified]
  IN /\ collected.count < MaxSignals
     /\ Snapshot(IF verified THEN c ELSE RecordActivity(c, Activity({}, {}, 0, {}, TRUE, "none")))
     /\ quietFor' = IF verified THEN quietFor ELSE [growth |-> Saturating(quietFor.growth), failure |-> 0]

SignalNext ==
  \/ \E f \in SignalFiles, links \in SUBSET ImportLinks, meaningful \in BOOLEAN,
        pattern \in SignalPatterns \cup {"none"}, said \in {"unsaid", "denied"} :
        ObserveAgentEvent({f}, links, meaningful, pattern, said)
  \/ \E files \in SUBSET SignalFiles \ {{}} : ObserveDiff(files)
  \/ \E verified \in BOOLEAN : ObserveVerification(verified)

SignalSpec == SignalInit /\ [][SignalNext]_signalVars

-----------------------------------------------------------------------------

\* A scope is called stable, and work mechanical, only after a whole window of activities in which
\* no file or module was reached for the first time and no verification failed. (What an event
\* that is no activity reaches is observed without ending the quiet.)
StableMeansQuiet ==
  signal.stabilized \/ signal.mechanical =>
    quietFor.growth >= StabilizationWindow /\ quietFor.failure >= StabilizationWindow

\* Whenever a scope stops being stable the invalidation is counted, although the flag is recomputed
\* by the snapshot and not only by what invalidates it.
LossIsCounted ==
  signal.stabilized /\ ~signal'.stabilized => collected'.invalidations = collected.invalidations + 1

\* The stability signals the mode controller decides from.
SignalsAreSound ==
  [][UNCHANGED signalVars \/ (StableMeansQuiet' /\ LossIsCounted)]_signalVars
=============================================================================
