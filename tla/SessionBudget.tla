---------------------------- MODULE SessionBudget ----------------------------
(***************************************************************************)
(* What a run may spend (src/domain/budget.ts) and where RunService asks:  *)
(* before the first session of an execution, before a repair and before an *)
(* automatic retry.  A policy restart and the reviewer do not ask.  Costs  *)
(* are what the agent reports, in cents, event by event.                   *)
(***************************************************************************)
EXTENDS Integers, FiniteSets

CONSTANTS BudgetMode,          \* "HARD" or "ADVISORY"
          ExecutionAlloc, RecoveryAlloc,
          Reported,            \* what a usage event may claim: a number no event could cost included
          MaxPlausible,        \* maxPlausibleSingleEventCostUsd
          MaxUsageEvents, MaxRecoveryUsed, MaxRestarts, MaxBudgetRepairs, MaxBudgetExecutions

ASSUME BudgetAssumption ==
  /\ BudgetMode \in {"HARD", "ADVISORY"}
  /\ ExecutionAlloc \in Nat /\ RecoveryAlloc \in Nat
  /\ Reported \subseteq Int /\ MaxPlausible \in Nat \ {0}
  /\ MaxUsageEvents \in Nat \ {0}

VARIABLES cost,      \* run.cost: model and recovery
          session,   \* [step, category, events]
          used       \* recoveryAttempts, policyRestarts, repairs, executions; reviews (history)

budgetVars == <<cost, session, used>>

At0(step) == [step |-> step, category |-> "execution", events |-> 0]

BudgetInit ==
  /\ cost = [model |-> 0, recovery |-> 0]
  /\ session = At0("queued")
  /\ used = [recovery |-> 0, restarts |-> 0, repairs |-> 0, executions |-> 1, reviews |-> 0]

\* Mutant: a negative report is applied.
SanitizeAbove(v) == IF v <= MaxPlausible THEN {v} ELSE {}

\* sanitizeReportedCost: the value, or nothing
SanitizeReportedCost(v) ==
  IF v >= 0 /\ v <= MaxPlausible THEN {v} ELSE {}

SpentByCategory == [execution |-> cost.model, recovery |-> cost.recovery]
Allocated == [execution |-> ExecutionAlloc, recovery |-> RecoveryAlloc]
AuthorizeSpend(category) ==
  BudgetMode = "ADVISORY" \/ Allocated[category] - SpentByCategory[category] > 0

\* Mutant: a retry is charged to, and authorised against, what executions may spend.
RecoverFromExecution == AuthorizeSpend("execution")

RetryAuthorized == AuthorizeSpend("recovery")

-----------------------------------------------------------------------------
Running == {"attempt", "review"}

\* A usage event: the attempt's category, and always "model" for the reviewer.
Usage(v) ==
  /\ session.step \in Running /\ session.events < MaxUsageEvents
  /\ session' = [session EXCEPT !.events = @ + 1]
  /\ LET field == IF session.step = "attempt" /\ session.category = "recovery" THEN "recovery" ELSE "model" IN
     cost' = IF SanitizeReportedCost(v) = {} THEN cost
             ELSE [cost EXCEPT ![field] = @ + CHOOSE c \in SanitizeReportedCost(v) : TRUE]
  /\ UNCHANGED used

\* requireExecutionBudget before the first session, after a resume too
FirstSession ==
  /\ session.step = "queued"
  /\ session' = At0(IF AuthorizeSpend("execution") THEN "attempt" ELSE "paused")
  /\ UNCHANGED <<cost, used>>

\* runAgentAttemptWithRecovery: a failed attempt is retried, or the run pauses.
AttemptFails(retryable) ==
  /\ session.step = "attempt"
  /\ IF retryable /\ used.recovery < MaxRecoveryUsed /\ RetryAuthorized
     THEN /\ used' = [used EXCEPT !.recovery = @ + 1]
          /\ session' = [step |-> "attempt", category |-> "recovery", events |-> 0]
     ELSE session' = At0("paused") /\ UNCHANGED used
  /\ UNCHANGED cost

\* runGovernedSession: the mode changed, and the session starts again in the workspace.
PolicyRestart ==
  /\ session.step = "attempt" /\ used.restarts < MaxRestarts
  /\ used' = [used EXCEPT !.restarts = @ + 1] /\ session' = At0("attempt") /\ UNCHANGED cost

AttemptEnds == session.step = "attempt" /\ session' = At0("verify") /\ UNCHANGED <<cost, used>>

\* Mutant: a repair is only bounded by the number of repairs.
RepairUnasked ==
  /\ session.step = "verify" /\ used.repairs < MaxBudgetRepairs
  /\ session' = At0("attempt") /\ used' = [used EXCEPT !.repairs = @ + 1] /\ UNCHANGED cost

Repair ==
  /\ session.step = "verify" /\ used.repairs < MaxBudgetRepairs /\ AuthorizeSpend("execution")
  /\ session' = At0("attempt") /\ used' = [used EXCEPT !.repairs = @ + 1] /\ UNCHANGED cost
StopRepairing == session.step = "verify" /\ session' = At0("done") /\ UNCHANGED <<cost, used>>

\* runReviewerSession: mandatory trust is not skipped for budget.
Review ==
  /\ session.step = "verify" /\ session' = At0("review")
  /\ used' = [used EXCEPT !.reviews = @ + 1] /\ UNCHANGED cost
ReviewEnds == session.step = "review" /\ session' = At0("done") /\ UNCHANGED <<cost, used>>

\* Anything thrown after the session pauses the run with its capsule.
LateFailure == session.step \in {"verify", "review"} /\ session' = At0("paused") /\ UNCHANGED <<cost, used>>

\* resume: the record keeps its cost, the capsule the safety counters.
ResumeSpending ==
  /\ session.step = "paused" /\ used.executions < MaxBudgetExecutions
  /\ used' = [used EXCEPT !.executions = @ + 1, !.repairs = 0]
  /\ session' = At0("queued") /\ UNCHANGED cost

BudgetNext ==
  \/ \E v \in Reported : Usage(v)
  \/ \E retryable \in BOOLEAN : AttemptFails(retryable)
  \/ FirstSession \/ PolicyRestart \/ AttemptEnds \/ Repair \/ StopRepairing
  \/ Review \/ ReviewEnds \/ LateFailure \/ ResumeSpending

BudgetSpec == BudgetInit /\ [][BudgetNext]_budgetVars

-----------------------------------------------------------------------------
(* Properties *)

\* The most one session can add: every event the plausible maximum.
SessionCost == MaxUsageEvents * MaxPlausible

\* Under a HARD budget the execution reserve is overdrawn by one session at most, and by one
\* more for every session that is started without asking, however often the run is resumed.
ExecutionSpendBounded ==
  BudgetMode = "HARD" =>
    cost.model <= ExecutionAlloc - 1 + SessionCost * (1 + used.restarts + used.reviews)

\* The retries of all executions together overdraw their own reserve by one attempt at most.
RecoverySpendBounded ==
  BudgetMode = "HARD" => cost.recovery <= RecoveryAlloc - 1 + SessionCost

\* What was spent is never forgotten: no step of the run lowers a cost.
CostNeverFalls ==
  cost' # cost => cost'.model >= cost.model /\ cost'.recovery >= cost.recovery

\* A HARD budget over retries, restarts, repairs, reviews and resumes.
BudgetHolds ==
  [][UNCHANGED budgetVars \/ ((ExecutionSpendBounded /\ RecoverySpendBounded)' /\ CostNeverFalls)]_budgetVars
=============================================================================
