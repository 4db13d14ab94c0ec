--------------------------- MODULE StrategyLearning ---------------------------
(***************************************************************************)
(* Learning which execution strategy to trust: the observation a run       *)
(* leaves behind (src/domain/strategy.ts and both stores), the production  *)
(* feedback on what was released (src/domain/production-feedback.ts), and   *)
(* RunService.selectExecutionStrategy, which reads them one after the      *)
(* other and lets a challenger have a share of the work.                   *)
(***************************************************************************)
EXTENDS Integers, Sequences, FiniteSets

CONSTANTS LearnRuns,          \* 1..n: the runs, in the order in which they end
          RunEndings,         \* how a run may end: [scope, verified, durable, cost, quality, assurance, health]
          Selectors,          \* 1..n: callers of selectExecutionStrategy, numbered as they start
          Deployments,        \* the pairs of a store and a scope that are asked about
          FeedbackEvents,     \* event id -> [run, material, revision]
          CanaryMinimum, PromotionMinimum, DurableMinimum, CostMinimum, RecentWindow, HealthEvents,
          PromotionRate,      \* tenths of the observations that must be verified: 9 in the code
          CanaryPeriod,       \* 10 in the code
          ListLimit,          \* 500 in the code
          MaxLearnRestarts

\* The thresholds are counts, and every CanaryPeriod-th ordinal exists.
ASSUME LearnAssumption ==
  /\ LearnRuns \subseteq Nat \ {0} /\ Selectors \subseteq Nat \ {0}
  /\ PromotionMinimum \in Nat /\ PromotionRate \in Nat /\ ListLimit \in Nat
  /\ CanaryPeriod \in Nat \ {0}

VARIABLES learn,      \* [store, scope, ended: runs ended, record: run -> its record, pending: the observation
                      \*  execute has still to save, restarts]
          observed,   \* the stored observations, in time order
          production,   \* the stored production feedback, in time order
          canary,     \* [next: the ordinal counter, taken: canary slots given]
          chooser     \* selector -> its call

learnVars == <<learn, observed, production, canary, chooser>>

NoObservation == [run |-> 0]
NoRecord == [state |-> "CREATED", candidate |-> 0, ending |-> "none"]
NoSelection == [step |-> "idle", view |-> FALSE, lifecycle |-> "SHADOW", chosen |-> "none",
                by |-> "none", failedBefore |-> FALSE, runsBefore |-> 0, verifiedBefore |-> 0]

LearnInit ==
  /\ learn = [store |-> "none", scope |-> "BALANCED", ended |-> 0, record |-> [r \in LearnRuns |-> NoRecord],
              pending |-> NoObservation, restarts |-> 0]
  /\ observed = <<>> /\ production = <<>>
  /\ canary = [next |-> 0, taken |-> 0]
  /\ chooser = [s \in Selectors |-> NoSelection]

\* The process starts on the memory store or on Postgres; the questions are about one scope.
StartLearning(store, scope) ==
  /\ learn.store = "none"
  /\ learn' = [learn EXCEPT !.store = store, !.scope = scope]
  /\ UNCHANGED <<observed, production, canary, chooser>>

\* buildRunStrategyObservation: what the tail of execute derives from the run that has just ended;
\* strategyObservationBinding goes into the run's record, the observation is saved later.
Observation(r, candidate, ending) ==
  [run |-> r, candidate |-> candidate, scope |-> ending.scope, verified |-> ending.verified,
   durable |-> ending.verified /\ ending.durable, cost |-> ending.cost, quality |-> ending.quality,
   assurance |-> ending.assurance, health |-> IF ending.verified THEN ending.health ELSE "UNKNOWN"]

EndRun(r, ending) ==
  /\ learn.store # "none" /\ learn.pending = NoObservation
  /\ r = learn.ended + 1 \/ (r <= learn.ended /\ learn.record[r].state = "RUNNING")
  /\ learn' = [learn EXCEPT
       !.ended = IF r > @ THEN r ELSE @,
       !.record[r] = [state |-> IF ending.verified THEN "COMPLETED" ELSE "FAILED",
                      candidate |-> @.candidate + 1, ending |-> ending],
       !.pending = Observation(r, learn.record[r].candidate + 1, ending)]
  /\ UNCHANGED <<observed, production, canary, chooser>>

\* The process stops before the observation was saved, or a failed run is taken up again.
RestartLearning ==
  /\ learn.restarts < MaxLearnRestarts
  /\ \/ learn.pending # NoObservation /\ learn' = [learn EXCEPT !.pending = NoObservation, !.restarts = @ + 1]
     \/ \E r \in LearnRuns : /\ learn.pending = NoObservation /\ learn.record[r].state = "FAILED"
                             /\ learn' = [learn EXCEPT !.record[r].state = "RUNNING", !.restarts = @ + 1]
  /\ UNCHANGED <<observed, production, canary, chooser>>

\* What both stores compare: the run has ended as observed, with this very candidate and binding.
BoundToRun(o) ==
  LET record == learn.record[o.run] IN
  /\ record.state \in {"COMPLETED", "FAILED"}
  /\ o.verified = (record.state = "COMPLETED")
  /\ o = Observation(o.run, record.candidate, record.ending)
Unobserved(r) == \A i \in DOMAIN observed : observed[i].run # r

SaveInMemory(check) ==
  /\ learn.store = "memory" /\ learn.pending # NoObservation
  /\ observed' = IF BoundToRun(learn.pending) /\ (check => Unobserved(learn.pending.run))
                 THEN Append(observed, learn.pending) ELSE observed
  /\ learn' = [learn EXCEPT !.pending = NoObservation]
  /\ UNCHANGED <<production, canary, chooser>>

\* MemoryStore.saveStrategyObservation; a rejection only leaves a StrategyObservationFailed event.
AppendObservationAgain == SaveInMemory(FALSE)
AppendObservation == SaveInMemory(TRUE)

\* PostgresStore.saveStrategyObservation: one INSERT ... SELECT, with run_id unique in the table.
InsertObservation ==
  /\ learn.store = "postgres" /\ learn.pending # NoObservation
  /\ observed' = IF BoundToRun(learn.pending) /\ Unobserved(learn.pending.run)
                 THEN Append(observed, learn.pending) ELSE observed
  /\ learn' = [learn EXCEPT !.pending = NoObservation]
  /\ UNCHANGED <<production, canary, chooser>>

\* The last ListLimit observations of the project, whatever their scope.
Listed(seq) == SubSeq(seq, IF Len(seq) > ListLimit THEN Len(seq) - ListLimit + 1 ELSE 1, Len(seq))
ListObservationsInMemory == Listed(observed)
ListObservations == Listed(observed)   \* the rows of the table, compared with their payload

\* collectProductionFeedback: the event must be about the released candidate of an observed run
\* (revision 1 is the one CI reported), and is recorded once.
CollectProductionEvent(e) ==
  LET event == FeedbackEvents[e]
      kept == {i \in DOMAIN observed : observed[i].run = event.run}
  IN /\ learn.store # "none" /\ event.run <= learn.ended
     /\ \A i \in DOMAIN production : production[i].event # e
     /\ kept # {} /\ event.revision = 1
     /\ learn.record[event.run].state = "COMPLETED"
     /\ production' = Append(production, [event |-> e, material |-> event.material,
                                      scope |-> observed[CHOOSE i \in kept : TRUE].scope])
     /\ UNCHANGED <<learn, observed, canary, chooser>>

\* An event of another revision, of a run without observation, or delivered twice, is refused.
RefuseProductionEvent(e) ==
  /\ learn.store # "none"
  /\ \/ FeedbackEvents[e].revision # 1
     \/ \A i \in DOMAIN observed : observed[i].run # FeedbackEvents[e].run
     \/ \E i \in DOMAIN production : production[i].event = e
  /\ UNCHANGED learnVars

\* deriveProductionImpact over the feedback on this scope and this challenger.
DemotionRequiredLatest == Len(production) > 0 /\ production[Len(production)].material
DemotionRequired == \E i \in DOMAIN production : production[i].scope = learn.scope /\ production[i].material

\* assessStrategy's own filter: where the list has an observation of the scope that is the first
\* of its (run, candidate).
Scoped(list) ==
  {i \in DOMAIN list :
     /\ list[i].scope = learn.scope
     /\ \A j \in 1..(i - 1) : list[j].scope = learn.scope =>
          list[j].run # list[i].run \/ list[j].candidate # list[i].candidate}
Verified(list, scoped) == {i \in scoped : list[i].verified}

Demotes(list, scoped) ==
  LET recent == {i \in scoped : Cardinality({j \in scoped : j > i}) < RecentWindow} IN
  \/ \E i \in scoped : list[i].assurance = "FAIL"
  \/ Cardinality({i \in scoped : list[i].quality = "FAIL"}) >= 2
  \/ /\ Cardinality(recent) = RecentWindow
     /\ 10 * Cardinality(recent \ Verified(list, scoped)) > 4 * RecentWindow
  \/ Cardinality({i \in scoped : list[i].health = "DEGRADING"}) >= HealthEvents

Promotes(list, scoped) ==
  /\ Cardinality(scoped) >= PromotionMinimum
  /\ Cardinality({i \in scoped : list[i].durable}) >= DurableMinimum
  /\ Cardinality({i \in scoped : list[i].cost}) >= CostMinimum
  /\ 10 * Cardinality(Verified(list, scoped)) >= PromotionRate * Cardinality(scoped)
  /\ learn.scope = "CRITICAL" => \A i \in scoped : list[i].assurance = "PASS"

Lifecycle(list) ==
  LET scoped == Scoped(list) IN
  CASE scoped = {} -> "SHADOW"
    [] scoped # {} /\ Demotes(list, scoped) -> "DEMOTED"
    [] scoped # {} /\ ~Demotes(list, scoped) /\ Promotes(list, scoped) -> "PROMOTED"
    [] OTHER -> IF /\ Cardinality(scoped) >= CanaryMinimum
                   /\ 10 * Cardinality(Verified(list, scoped)) >= 8 * Cardinality(scoped)
                THEN "CANARY" ELSE "SHADOW"

\* selectStrategy: by promotion, by a canary slot, or the native frontier.
Selected(lifecycle, ordinal) ==
  CASE lifecycle = "PROMOTED" -> "promotion"
    [] lifecycle = "CANARY" /\ learn.scope # "CRITICAL" /\ ordinal % CanaryPeriod = 0 -> "slot"
    [] OTHER -> "native"

\* A caller reads the observations: to select, or (view) to show the assessment to an operator.
ReadObservations(s, view) ==
  LET list == IF learn.store = "memory" THEN ListObservationsInMemory ELSE ListObservations
      here == {i \in DOMAIN observed : observed[i].scope = learn.scope}
  IN /\ learn.store # "none" /\ chooser[s].step = "idle" /\ \A t \in 1..(s - 1) : chooser[t].step # "idle"
     /\ chooser' = [chooser EXCEPT ![s] =
          [step |-> "observed", view |-> view, lifecycle |-> Lifecycle(list), chosen |-> "none",
           by |-> "none",
           failedBefore |-> \/ \E i \in here : i > Len(observed) - ListLimit /\ observed[i].assurance = "FAIL"
                            \/ \E i \in DOMAIN production : production[i].scope = learn.scope /\ production[i].material,
           runsBefore |-> Cardinality({observed[i].run : i \in here}),
           verifiedBefore |-> Cardinality({observed[i].run : i \in {j \in here : observed[j].verified}})]]
     /\ UNCHANGED <<learn, observed, production, canary>>

Decide(s, by) == chooser' = [chooser EXCEPT ![s].step = "decided", ![s].by = by,
                                            ![s].chosen = IF by = "native" THEN "native" ELSE "challenger"]

\* Then the feedback: a material event demotes whatever the observations said.
ReadFeedback(s) ==
  /\ chooser[s].step = "observed" /\ ~chooser[s].view
  /\ \/ DemotionRequired /\ Decide(s, "native")
     \/ ~DemotionRequired /\ chooser[s].lifecycle # "CANARY" /\ Decide(s, Selected(chooser[s].lifecycle, 1))
     \/ ~DemotionRequired /\ chooser[s].lifecycle = "CANARY" /\ chooser' = [chooser EXCEPT ![s].step = "ordinal"]
  /\ UNCHANGED <<learn, observed, production, canary>>

\* strategyAssessment: the same two reads, nothing chosen.
ShowAssessment(s) ==
  /\ chooser[s].step = "observed" /\ chooser[s].view
  /\ chooser' = [chooser EXCEPT ![s].step = "decided", ![s].lifecycle = IF DemotionRequired THEN "DEMOTED" ELSE @]
  /\ UNCHANGED <<learn, observed, production, canary>>

\* allocateStrategyCanaryOrdinal: one upsert, or one synchronous read and write; then the selection
\* is made again from the observations read at the start, that is with the lifecycle found then.
TakeOrdinal(s, step) ==
  LET by == Selected(chooser[s].lifecycle, canary.next) IN
  /\ chooser[s].step = "ordinal"
  /\ Decide(s, by)
  /\ canary' = [canary EXCEPT !.next = @ + step, !.taken = @ + (IF by = "slot" THEN 1 ELSE 0)]
  /\ UNCHANGED <<learn, observed, production>>
AllocateOrdinalUncounted(s) == TakeOrdinal(s, IF canary.next = 0 THEN 0 ELSE 1)
AllocateOrdinal(s) == TakeOrdinal(s, 1)

LearnNext ==
  \/ \E d \in Deployments : StartLearning(d[1], d[2])
  \/ \E r \in LearnRuns, ending \in RunEndings : EndRun(r, ending)
  \/ RestartLearning \/ AppendObservation \/ InsertObservation
  \/ \E e \in DOMAIN FeedbackEvents : CollectProductionEvent(e) \/ RefuseProductionEvent(e)
  \/ \E s \in Selectors : \/ \E view \in BOOLEAN : ReadObservations(s, view)
                          \/ ReadFeedback(s) \/ ShowAssessment(s) \/ AllocateOrdinal(s)

LearnSpec == LearnInit /\ [][LearnNext]_learnVars

-----------------------------------------------------------------------------

\* The canary share is bounded however many callers select at once: of every CanaryPeriod ordinals
\* given out at most one makes the challenger run, and none for critical work.
CanaryShareBounded ==
  canary.taken > 0 => /\ learn.scope # "CRITICAL"
                      /\ canary.taken <= (canary.next + CanaryPeriod - 1) \div CanaryPeriod

\* A selection that began after an assurance failure (among the observations the store still lists)
\* or a material production event was stored never lets the challenger run, although it decides
\* from a list it read several awaits earlier.
BarredNeverChosen ==
  \A s \in Selectors : chooser[s].chosen = "challenger" => ~chooser[s].failedBefore

\* Promotion is earned by that many different runs, PromotionRate tenths of them verified: a failed run that
\* is taken up again and ends once more adds nothing.
PromotionEarned ==
  \A s \in Selectors : chooser[s].by = "promotion" =>
    /\ chooser[s].runsBefore >= PromotionMinimum
    /\ 10 * chooser[s].verifiedBefore >= PromotionRate * PromotionMinimum

\* When a challenger strategy may run, with several selectors at work.
LearningIsEarned == CanaryShareBounded /\ BarredNeverChosen /\ PromotionEarned
=============================================================================
