--------------------------- MODULE CircuitBreaker ---------------------------
(***************************************************************************)
(* One provider's record of ProviderCircuitBreaker                         *)
(* (src/domain/circuit-breaker.ts) and the two call sites that use it:     *)
(* runAgentAttemptWithRecovery and runReviewerSession of                   *)
(* src/application/run-service.ts.  The service runs many runs at once on  *)
(* one event loop: everything between two awaits is one step, and the      *)
(* provider call itself is the await that separates Begin from the         *)
(* actions that end an attempt.                                            *)
(*                                                                         *)
(* Records of different providers never touch each other, so one provider  *)
(* is enough.  A provider without a record behaves as one with no failure. *)
(***************************************************************************)
EXTENDS Integers

CONSTANTS
  AgentCallers,      \* runs inside runAgentAttemptWithRecovery
  ReviewCallers,     \* runs inside runReviewerSession
  FailureThreshold,  \* policy.failureThreshold
  DegradedThreshold, \* policy.degradedThreshold
  Cooldown           \* policy.cooldownMs, in clock ticks

Callers == AgentCallers \union ReviewCallers

\* The constructor refuses any other policy.
ASSUME PolicyAssumption ==
  /\ FailureThreshold \in Nat \ {0}
  /\ DegradedThreshold \in Nat \ {0}
  /\ Cooldown \in Nat

VARIABLES
  failures,     \* consecutiveFailures; every value from the threshold up is alike
  sinceOpened,  \* now - openedAt, which only matters up to the cooldown
  probing,      \* halfOpenTrialInFlight
  attempt       \* per caller: none, an ordinary attempt, or a HALF_OPEN probe

vars == <<failures, sinceOpened, probing, attempt>>

NotOpened == -1    \* openedAt is undefined

TypeOK ==
  /\ failures \in 0..FailureThreshold
  /\ sinceOpened \in NotOpened..Cooldown
  /\ probing \in BOOLEAN
  /\ attempt \in [Callers -> {"none", "ordinary", "probe"}]

Init ==
  /\ failures = 0
  /\ sinceOpened = NotOpened
  /\ probing = FALSE
  /\ attempt = [c \in Callers |-> "none"]

-----------------------------------------------------------------------------
(* The breaker's methods. *)

State ==
  IF failures < FailureThreshold
  THEN IF failures >= DegradedThreshold THEN "DEGRADED" ELSE "HEALTHY"
  ELSE IF sinceOpened # NotOpened /\ sinceOpened >= Cooldown
       THEN "HALF_OPEN" ELSE "OPEN_CIRCUIT"

CanAttempt ==
  /\ State # "OPEN_CIRCUIT"
  /\ State = "HALF_OPEN" => ~probing

BeginAttempt == probing' = (probing \/ State = "HALF_OPEN")

\* Mutant: releaseProbe forgets the flag.
ReleaseProbeForgets == UNCHANGED <<failures, sinceOpened, probing>>

ReleaseProbe ==
  /\ probing' = FALSE
  /\ UNCHANGED <<failures, sinceOpened>>

RecordSuccess ==
  /\ failures' = 0
  /\ sinceOpened' = NotOpened
  /\ probing' = FALSE

\* Mutant: a failure spreads the old record and so keeps the flag.
RecordFailureKeepsProbe ==
  /\ failures' = IF failures < FailureThreshold THEN failures + 1 ELSE failures
  /\ sinceOpened' = IF failures' >= FailureThreshold THEN 0 ELSE NotOpened
  /\ UNCHANGED probing

\* Mutant: only the failure that reaches the threshold stamps openedAt.
RecordFailureStampsOnce ==
  /\ failures' = IF failures < FailureThreshold THEN failures + 1 ELSE failures
  /\ sinceOpened' = IF failures + 1 = FailureThreshold THEN 0 ELSE NotOpened
  /\ probing' = FALSE

RecordFailure ==
  /\ failures' = IF failures < FailureThreshold THEN failures + 1 ELSE failures
  /\ sinceOpened' = IF failures' >= FailureThreshold THEN 0 ELSE NotOpened
  /\ probing' = FALSE

-----------------------------------------------------------------------------
(* The call sites.  A refused caller throws ProviderCircuitOpenError before *)
(* it begins anything: no step.                                             *)

Begin(c) ==
  /\ attempt[c] = "none"
  /\ CanAttempt
  /\ BeginAttempt
  /\ attempt' = [attempt EXCEPT ![c] = IF State = "HALF_OPEN" THEN "probe" ELSE "ordinary"]
  /\ UNCHANGED <<failures, sinceOpened>>

End(c) ==
  /\ attempt[c] # "none"
  /\ attempt' = [attempt EXCEPT ![c] = "none"]

Succeed(c) == End(c) /\ RecordSuccess

\* The error's class is in providerRelatedClassifications.
FailOnProvider(c) == End(c) /\ RecordFailure

\* Any other class: agent code, verification, budget, ...
FailElsewhere(c) == End(c) /\ ReleaseProbe

\* The attempt of a cancelled run fails: runAgentAttemptWithRecovery rethrows
\* before it reaches the breaker.
CancelledThrow(c) ==
  /\ c \in AgentCallers
  /\ End(c)
  /\ UNCHANGED <<failures, sinceOpened, probing>>

Tick ==
  /\ sinceOpened # NotOpened /\ sinceOpened < Cooldown
  /\ sinceOpened' = sinceOpened + 1
  /\ UNCHANGED <<failures, probing, attempt>>

Next ==
  \/ \E c \in Callers :
       \/ Begin(c) \/ Succeed(c) \/ FailOnProvider(c) \/ FailElsewhere(c)
       \/ CancelledThrow(c)
  \/ Tick

Spec == Init /\ [][Next]_vars

\* Time passes, and an attempt that was begun ends.  The second is assumed of
\* the provider's process: the service sets no time limit on an agent session
\* and the breaker's contract speaks of "once the attempt finishes".  No run is
\* obliged to begin another attempt.
Fairness ==
  /\ WF_vars(Tick)
  /\ \A c \in Callers :
       WF_vars(Succeed(c) \/ FailOnProvider(c) \/ FailElsewhere(c) \/ CancelledThrow(c))

FairSpec == Spec /\ Fairness

-----------------------------------------------------------------------------
(* Properties. *)

\* The clock exists exactly while the circuit is open, and the probe slot is
\* taken only in a circuit that has waited its whole cooldown, whatever order
\* the other attempts end in.  A slot taken in a circuit that is closed, or
\* that a late failure has reopened, would stay behind and refuse the probe
\* that recordOutcome promises after "a fresh cooldown".
ProbeOnlyHalfOpen ==
  /\ (sinceOpened = NotOpened) <=> (failures < FailureThreshold)
  /\ probing => State = "HALF_OPEN"

\* "One of the two MUST be called every time": a taken slot belongs to an
\* attempt that is still running and will give it back (beginAttempt,
\* recordOutcome, releaseProbe).
ProbeHasOwner == probing => \E c \in Callers : attempt[c] = "probe"

\* A provider is never written off: however it fails, a caller that comes back
\* often enough finds the circuit willing to try it.
AttemptAgain == []<>CanAttempt

=============================================================================
