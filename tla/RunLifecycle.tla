----------------------------- MODULE RunLifecycle -----------------------------
(***************************************************************************)
(* The life of one run in RunService (src/application/run-service.ts):     *)
(* execute, cancel, resume and reconcileInterruptedRuns, interleaved at    *)
(* their awaits on one event loop, with crashes of the process.            *)
(*                                                                         *)
(* An execution is one call of execute: number 1 belongs to create, the    *)
(* others to resume.  Each has its own live Run object: create's, or the   *)
(* copy resume read from the store.  The active map has one entry per run, *)
(* found by the run's id, so executions of one run share and replace it.   *)
(* A store call takes effect when it is made.                              *)
(***************************************************************************)
EXTENDS Naturals

CONSTANTS
  MaxExecutions,  \* bound on the calls of execute (one create, then resumes)
  MaxRecovery,    \* recoveryPolicy.maxRecoveryAttempts
  MaxRepairs,     \* repairPolicy.maxRepairAttempts
  EagerResume,    \* whether resume may be called while the run is not idle
  EventsFail      \* whether store.addEvent may reject

ASSUME PolicyAssumption ==
  /\ MaxExecutions \in Nat \ {0}
  /\ MaxRecovery \in Nat
  /\ MaxRepairs \in Nat
  /\ EagerResume \in BOOLEAN /\ EventsFail \in BOOLEAN

Executions == 1..MaxExecutions
NoEntry == 0

VARIABLES
  store,          \* the durable run record
  capsule,        \* the durable recovery capsule: why, and the retries it carries
  run,            \* per execution: the live Run object
  pc,             \* per execution: the await it stands at
  repairs,        \* per execution: repairAttempts
  result,         \* per execution: the state of the last verification
  active,         \* which execution's entry the active map holds for the run
  entry,          \* per execution: its ActiveRunState
  canceller,      \* the execution whose entry a cancel call is ending
  process,        \* serving, or reconciling after a restart
  retries         \* history: automatic retries in the whole life of the run

vars == <<store, capsule, run, pc, repairs, result, active, entry, canceller,
          process, retries>>

RunStates == {"QUEUED", "RUNNING", "PAUSED", "COMPLETED", "FAILED", "CANCELLED"}
VerificationStates == {"PROPOSED", "NOT_CHECKED", "VERIFYING", "VERIFIED",
                       "QUARANTINED", "FAILED", "CANCELLED"}
TrustStates == {"none", "PROPOSED", "CORRECTNESS_VERIFIED", "MERGE_ELIGIBLE"}
Records == [state : RunStates, verification : VerificationStates,
            trust : TrustStates, handoff : {"none", "bound"}]
Idle == {"unused", "done", "rejected"}
Steps == Idle \union
  {"admitting", "resuming", "resumed", "setup", "session", "verifying", "assuring",
   "reviewing", "deciding", "recording", "caught", "capturing", "pausing", "paused",
   "cleanup"}

TypeOK ==
  /\ store \in Records
  /\ capsule \in [reason : {"none", "FAILURE", "PROCESS_RESTART"}, used : 0..MaxRecovery]
  /\ run \in [Executions -> Records]
  /\ pc \in [Executions -> Steps]
  /\ repairs \in [Executions -> 0..MaxRepairs]
  /\ result \in [Executions -> VerificationStates]
  /\ active \in Executions \union {NoEntry}
  /\ entry \in [Executions -> [cancelled : BOOLEAN, used : 0..MaxRecovery]]
  /\ canceller \in Executions \union {NoEntry}
  /\ process \in {"serving", "reconciling", "capsule saved"}
  /\ retries \in Nat

Created == [state |-> "QUEUED", verification |-> "PROPOSED", trust |-> "none",
            handoff |-> "none"]

\* create has written the task and the run and is emitting its events.
Init ==
  /\ store = Created
  /\ capsule = [reason |-> "none", used |-> 0]
  /\ run = [e \in Executions |-> Created]
  /\ pc = [e \in Executions |-> IF e = 1 THEN "admitting" ELSE "unused"]
  /\ repairs = [e \in Executions |-> 0]
  /\ result = [e \in Executions |-> "PROPOSED"]
  /\ active = NoEntry
  /\ entry = [e \in Executions |-> [cancelled |-> FALSE, used |-> 0]]
  /\ canceller = NoEntry
  /\ process = "serving"
  /\ retries = 0

\* this.active.get(run.id)?.cancelled
Cancelled == active # NoEntry /\ \E e \in Executions : active = e /\ entry[e].cancelled

At(e, from, to) == pc[e] = from /\ pc' = [pc EXCEPT ![e] = to]

\* store.updateRun(run) with the live object as the step leaves it.
Update(e) == store' = run'[e]

others == <<capsule, repairs, result, active, entry, canceller, process, retries>>

-----------------------------------------------------------------------------
(* Admission, once the emergency stop has been looked at (EmergencyStop.tla). *)

\* active.set and the synchronous head of execute.
Start(e) ==
  /\ pc[e] \in {"admitting", "resumed"}
  /\ pc' = [pc EXCEPT ![e] = "setup"]
  /\ active' = e
  /\ run' = [run EXCEPT ![e].state = "RUNNING"]
  /\ Update(e)
  /\ UNCHANGED <<capsule, repairs, result, entry, canceller, process, retries>>

\* An emergency stop won: the entry is set, cancelled and deleted again.
StartStopped(e) ==
  /\ pc[e] \in {"admitting", "resumed"}
  /\ pc' = [pc EXCEPT ![e] = "done"]
  /\ active' = NoEntry
  /\ entry' = [entry EXCEPT ![e].cancelled = TRUE]
  /\ run' = [run EXCEPT ![e] = [state |-> "CANCELLED", verification |-> "CANCELLED",
                                trust |-> "none", handoff |-> "none"]]
  /\ Update(e)
  /\ UNCHANGED <<capsule, repairs, result, canceller, process, retries>>

\* An event cannot be appended: create or resume rejects and nothing executes.
StartFails(e) ==
  /\ EventsFail
  /\ pc[e] \in {"admitting", "resumed"}
  /\ pc' = [pc EXCEPT ![e] = "rejected"]
  /\ UNCHANGED <<store, run, others>>

Busy == {e \in Executions : pc[e] \notin Idle}

\* Mutant: a resumed run is handed a fresh allowance.
ResumeFresh(e) ==
  /\ process = "serving"
  /\ EagerResume \/ (Busy = {} /\ active = NoEntry /\ canceller = NoEntry)
  /\ store.state = "PAUSED"
  /\ capsule.reason = "FAILURE"
  /\ \A d \in Executions : d < e => pc[d] # "unused"
  /\ At(e, "unused", "resuming")
  /\ run' = [run EXCEPT ![e] = store]
  /\ entry' = [entry EXCEPT ![e].used = 0]
  /\ UNCHANGED <<store, capsule, repairs, result, active, canceller, process, retries>>

\* resume reads the run and its capsule.
Resume(e) ==
  /\ process = "serving"
  /\ EagerResume \/ (Busy = {} /\ active = NoEntry /\ canceller = NoEntry)
  /\ store.state = "PAUSED"
  /\ capsule.reason = "FAILURE"
  /\ \A d \in Executions : d < e => pc[d] # "unused"
  /\ At(e, "unused", "resuming")
  /\ run' = [run EXCEPT ![e] = store]
  /\ entry' = [entry EXCEPT ![e].used = capsule.used]
  /\ UNCHANGED <<store, capsule, repairs, result, active, canceller, process, retries>>

\* The workspace is gone, or the source revision moved or cannot be resolved.
ResumeRefused(e) ==
  /\ At(e, "resuming", "done")
  /\ UNCHANGED <<store, run, others>>

ResumeAccepted(e) ==
  /\ At(e, "resuming", "resumed")
  /\ run' = [run EXCEPT ![e].state = "RUNNING"]
  /\ Update(e)
  /\ UNCHANGED others

-----------------------------------------------------------------------------
(* The body of execute. *)

\* The sandbox exists, its path is recorded and the context is built.
Setup(e) ==
  /\ At(e, "setup", "session")
  /\ UNCHANGED run
  /\ Update(e)
  /\ UNCHANGED others

\* The agent's stream ends: the candidate is captured and goes to the verifier.
SessionEnds(e) ==
  /\ At(e, "session", "verifying")
  /\ run' = [run EXCEPT ![e].verification = "VERIFYING"]
  /\ Update(e)
  /\ UNCHANGED others

\* The next event of a cancelled run's session.
SessionCancelled(e) ==
  /\ Cancelled
  /\ At(e, "session", "caught")
  /\ UNCHANGED <<store, run, others>>

\* runAgentAttemptWithRecovery retries on the allowance of the active entry.
SessionRetried(e) ==
  /\ pc[e] = "session"
  /\ active # NoEntry /\ ~Cancelled
  /\ \E a \in Executions :
       /\ a = active
       /\ entry[a].used < MaxRecovery
       /\ entry' = [entry EXCEPT ![a].used = @ + 1]
  /\ retries' = retries + 1
  /\ UNCHANGED <<store, capsule, run, pc, repairs, result, active, canceller, process>>

\* Anything the body awaits before the outcome rejects.
BodyFails(e) ==
  /\ pc[e] \in {"setup", "session", "verifying", "assuring", "reviewing", "deciding"}
  /\ pc' = [pc EXCEPT ![e] = "caught"]
  /\ UNCHANGED <<store, run, others>>

\* Mutant: the repair loop has lost its limit.
RepairAlways(e) ==
  /\ At(e, "verifying", "session")
  /\ UNCHANGED run
  /\ Update(e)
  /\ UNCHANGED others

\* The verification failed and a repair session is worth its cost.
Repair(e) ==
  /\ repairs[e] < MaxRepairs
  /\ At(e, "verifying", "session")
  /\ repairs' = [repairs EXCEPT ![e] = @ + 1]
  /\ UNCHANGED run
  /\ Update(e)
  /\ UNCHANGED <<capsule, result, active, entry, canceller, process, retries>>

\* The verification failed and the loop stops: limit, budget, no change, ...
Rejected(e) ==
  /\ At(e, "verifying", "deciding")
  /\ \E v \in {"QUARANTINED", "NOT_CHECKED", "CANCELLED"} :
       result' = [result EXCEPT ![e] = v]
  /\ run' = [run EXCEPT ![e].trust = "PROPOSED"]
  /\ UNCHANGED <<store, capsule, repairs, active, entry, canceller, process, retries>>

Verified(e) ==
  /\ At(e, "verifying", "assuring")
  /\ result' = [result EXCEPT ![e] = "VERIFIED"]
  /\ UNCHANGED <<store, capsule, run, repairs, active, entry, canceller, process, retries>>

\* assessQuality's last lines.
Assess(e) ==
  /\ \E t \in {"CORRECTNESS_VERIFIED", "MERGE_ELIGIBLE"} :
       run' = [run EXCEPT ![e].trust = t]
  /\ Update(e)
  /\ UNCHANGED others

\* No review is required, or it cannot change the outcome.
AssessUnreviewed(e) ==
  /\ ~Cancelled
  /\ At(e, "assuring", "deciding")
  /\ Assess(e)

BeginReview(e) ==
  /\ ~Cancelled
  /\ At(e, "assuring", "reviewing")
  /\ UNCHANGED <<store, run, others>>

\* The reviewer's stream has ended: nothing looks at the flag again.
ReviewEnds(e) ==
  /\ At(e, "reviewing", "deciding")
  /\ Assess(e)

\* A check before or during assurance sees the flag.
AssuranceCancelled(e) ==
  /\ Cancelled
  /\ pc[e] \in {"assuring", "reviewing"}
  /\ pc' = [pc EXCEPT ![e] = "caught"]
  /\ UNCHANGED <<store, run, others>>

Outcome(e, bound) ==
  [run[e] EXCEPT !.verification = result[e],
                 !.state = IF result[e] = "VERIFIED" THEN "COMPLETED" ELSE "FAILED",
                 !.handoff = IF result[e] = "VERIFIED" THEN bound ELSE "none"]

\* buildDeliveryHandoff throws for a verified run without a trust state.  A
\* merge-eligible one without verification authority gets no handoff.
Deliverable(e, bound) ==
  result[e] = "VERIFIED" =>
    /\ run[e].trust # "none"
    /\ bound = "none" => run[e].trust = "MERGE_ELIGIBLE"

\* Mutant: the outcome is written without a last look at the flag.
DecideUnchecked(e) ==
  /\ At(e, "deciding", "recording")
  /\ \E bound \in {"none", "bound"} :
       Deliverable(e, bound) /\ run' = [run EXCEPT ![e] = Outcome(e, bound)]
  /\ Update(e)
  /\ UNCHANGED others

\* The last check of the flag and the outcome.
Decide(e) ==
  /\ ~Cancelled
  /\ At(e, "deciding", "recording")
  /\ \E bound \in {"none", "bound"} :
       Deliverable(e, bound) /\ run' = [run EXCEPT ![e] = Outcome(e, bound)]
  /\ Update(e)
  /\ UNCHANGED others

\* The live object has its outcome and the handoff cannot be built or recorded.
DecideFails(e) ==
  /\ ~Cancelled
  /\ At(e, "deciding", "caught")
  /\ run' = [run EXCEPT ![e] = Outcome(e, "none")]
  /\ UNCHANGED <<store, others>>

DecideCancelled(e) ==
  /\ Cancelled
  /\ At(e, "deciding", "caught")
  /\ UNCHANGED <<store, run, others>>

\* RunCompleted, telemetry, health, strategy and delivery evidence.
Record(e) ==
  /\ At(e, "recording", "cleanup")
  /\ UNCHANGED <<store, run, others>>

RecordFails(e) ==
  /\ EventsFail
  /\ At(e, "recording", "caught")
  /\ UNCHANGED <<store, run, others>>

-----------------------------------------------------------------------------
(* The catch and finally blocks of execute. *)

\* The stored record says CANCELLED: nothing more is written.
CatchCancelled(e) ==
  /\ store.state = "CANCELLED"
  /\ At(e, "caught", "cleanup")
  /\ UNCHANGED <<store, run, others>>

\* Mutant: the catch block keeps what an earlier step granted.
CatchKeepsAuthority(e) ==
  /\ store.state # "CANCELLED"
  /\ At(e, "caught", "capturing")
  /\ run' = [run EXCEPT ![e].verification = IF @ = "VERIFYING" THEN "QUARANTINED" ELSE "FAILED"]
  /\ UNCHANGED <<store, others>>

Catch(e) ==
  /\ store.state # "CANCELLED"
  /\ At(e, "caught", "capturing")
  /\ run' = [run EXCEPT ![e].trust = "none", ![e].handoff = "none",
               ![e].verification = IF @ = "VERIFYING" THEN "QUARANTINED" ELSE "FAILED"]
  /\ UNCHANGED <<store, others>>

\* Mutant: the run is paused before its capsule is written.
CaptureLate(e) ==
  /\ At(e, "capturing", "pausing")
  /\ run' = [run EXCEPT ![e].state = "PAUSED"]
  /\ Update(e)
  /\ UNCHANGED others

\* The capsule carries what the active entry has spent, or zero without one.
Capture(e) ==
  /\ At(e, "capturing", "pausing")
  /\ \E used \in 0..MaxRecovery :
       /\ active = NoEntry => used = 0
       /\ \A a \in Executions : active = a => used = entry[a].used
       /\ capsule' = [reason |-> "FAILURE", used |-> used]
  /\ UNCHANGED <<store, run, repairs, result, active, entry, canceller, process, retries>>

Pause(e) ==
  /\ At(e, "pausing", "paused")
  /\ run' = [run EXCEPT ![e].state = "PAUSED"]
  /\ Update(e)
  /\ UNCHANGED others

\* RunPaused is appended.
Announce(e) ==
  /\ At(e, "paused", "cleanup")
  /\ UNCHANGED <<store, run, others>>

\* The capsule cannot be built or saved, or RunPaused cannot be appended.
CaptureFails(e) ==
  /\ pc[e] = "capturing" \/ (EventsFail /\ pc[e] = "paused")
  /\ pc' = [pc EXCEPT ![e] = "cleanup"]
  /\ run' = [run EXCEPT ![e].state = "FAILED"]
  /\ Update(e)
  /\ UNCHANGED others

\* finally: the sandbox is cleaned up and the run's entry deleted, whoever set it.
Cleanup(e) ==
  /\ At(e, "cleanup", "done")
  /\ active' = NoEntry
  /\ UNCHANGED <<store, capsule, run, repairs, result, entry, canceller, process, retries>>

-----------------------------------------------------------------------------
(* cancel, one call at a time. *)

\* Mutant: a run whose outcome is already stored can be cancelled.
CancelLate ==
  /\ process = "serving"
  /\ canceller = NoEntry
  /\ \E e \in Executions :
       /\ active = e
       /\ entry' = [entry EXCEPT ![e].cancelled = TRUE]
       /\ canceller' = e
  /\ UNCHANGED <<store, capsule, run, pc, repairs, result, active, process, retries>>

CancelBegin ==
  /\ process = "serving"
  /\ canceller = NoEntry
  /\ \E e \in Executions :
       /\ active = e
       /\ run[e].state \notin {"COMPLETED", "FAILED"}
       /\ entry' = [entry EXCEPT ![e].cancelled = TRUE]
       /\ canceller' = e
  /\ UNCHANGED <<store, capsule, run, pc, repairs, result, active, process, retries>>

\* verifier.cancel has answered.
CancelEnd ==
  /\ \E e \in Executions :
       /\ canceller = e
       /\ run' = [run EXCEPT ![e] = [state |-> "CANCELLED", verification |-> "CANCELLED",
                                     trust |-> "none", handoff |-> "none"]]
       /\ Update(e)
  /\ canceller' = NoEntry
  /\ UNCHANGED <<capsule, pc, repairs, result, active, entry, process, retries>>

-----------------------------------------------------------------------------
(* Crash, and reconcileInterruptedRuns before the new process serves. *)

Crash ==
  /\ pc' = [e \in Executions |-> IF pc[e] = "unused" THEN "unused" ELSE "done"]
  /\ active' = NoEntry
  /\ canceller' = NoEntry
  /\ process' = "reconciling"
  /\ UNCHANGED <<store, capsule, run, repairs, result, entry, retries>>

\* Mutant: a run that never started is not reconciled.
InterruptedRunning == store.state = "RUNNING"

Interrupted == store.state \in {"RUNNING", "QUEUED"}

ReconcileCapsule ==
  /\ process = "reconciling" /\ Interrupted
  /\ capsule' = [reason |-> "PROCESS_RESTART", used |-> MaxRecovery]
  /\ process' = "capsule saved"
  /\ UNCHANGED <<store, run, pc, repairs, result, active, entry, canceller, retries>>

ReconcileRun ==
  /\ process = "capsule saved"
  /\ store' = [state |-> "PAUSED", verification |-> "NOT_CHECKED", trust |-> "none",
               handoff |-> "none"]
  /\ process' = "serving"
  /\ UNCHANGED <<capsule, run, pc, repairs, result, active, entry, canceller, retries>>

ReconcileNothing ==
  /\ process = "reconciling" /\ ~Interrupted
  /\ process' = "serving"
  /\ UNCHANGED <<store, capsule, run, pc, repairs, result, active, entry, canceller, retries>>

-----------------------------------------------------------------------------
Body(e) ==
  \/ Setup(e) \/ SessionEnds(e) \/ SessionCancelled(e) \/ SessionRetried(e)
  \/ BodyFails(e) \/ Repair(e) \/ Rejected(e) \/ Verified(e) \/ AssessUnreviewed(e)
  \/ BeginReview(e) \/ ReviewEnds(e) \/ AssuranceCancelled(e) \/ Decide(e)
  \/ DecideFails(e) \/ DecideCancelled(e) \/ Record(e) \/ RecordFails(e)
  \/ CatchCancelled(e) \/ Catch(e)
  \/ Capture(e) \/ Pause(e) \/ Announce(e) \/ CaptureFails(e) \/ Cleanup(e)

Admission(e) ==
  \/ Start(e) \/ StartStopped(e) \/ StartFails(e)
  \/ Resume(e) \/ ResumeRefused(e) \/ ResumeAccepted(e)

Next ==
  \/ \E e \in Executions : Body(e) \/ Admission(e)
  \/ CancelBegin \/ CancelEnd
  \/ Crash \/ ReconcileCapsule \/ ReconcileRun \/ ReconcileNothing

Spec == Init /\ [][Next]_vars

\* Every await of execute settles: agent sessions end (assumed of the agent's
\* process), verification has a timeout, the store and git answer.  A session
\* may be retried, but not for ever in place of anything else.  Nobody is
\* obliged to cancel or to resume, and the process need not crash.
FairSpec == Spec /\ \A e \in Executions : WF_vars(Body(e))

-----------------------------------------------------------------------------
(* Properties. *)

\* A delivery handoff is bound only to a completed, verified run, a run completes
\* only with a trust state that assurance gave it, and a paused run has no
\* authority left: no failure after assurance, cancellation, resume or restart
\* leaves any behind, in whatever order they meet ("Trust and delivery are
\* current-run authority, not durable success labels").
AuthorityMatchesState ==
  /\ store.handoff = "bound" => store.state = "COMPLETED"
  /\ store.state = "COMPLETED" =>
       /\ store.verification = "VERIFIED"
       /\ store.trust \in {"CORRECTNESS_VERIFIED", "MERGE_ELIGIBLE"}
  /\ store.state = "PAUSED" => store.trust = "none" /\ store.handoff = "none"

\* A cancelled execution never completes: its entry's flag is seen before the
\* outcome is written, wherever the cancel landed.
NeverResurrected ==
  \A e \in Executions : entry[e].cancelled => run[e].state # "COMPLETED"

\* "PAUSED is used whenever a capsule was successfully captured": a paused run
\* can say why it is paused.
PausedHasCapsule == store.state = "PAUSED" => capsule.reason # "none"

\* Automatic retries are bounded over the whole life of the run, pauses and
\* resumes included: "A resume continues the SAME run under the SAME bounded
\* allowance."
RecoveryBounded == retries <= MaxRecovery

\* While the process serves, a run recorded as in flight has an execution, or an
\* admission, behind it.  The one orphan there is: create or resume rejected
\* because an event could not be appended between its record and active.set, and
\* that one lasts until the process restarts.
NoOrphan ==
  process = "serving" /\ store.state \in {"RUNNING", "QUEUED"} =>
    Busy # {} \/ \E e \in Executions : pc[e] = "rejected"

\* Every execution leaves the active map: waitForIdle ends, whatever is retried,
\* repaired or cancelled on the way.
ExecutionEnds ==
  \A e \in Executions : (pc[e] = "setup") ~> (pc[e] = "done")

\* "a cancelled run stays CANCELLED"
CancelStays == [][store.state = "CANCELLED" => store'.state = "CANCELLED"]_vars

\* A run whose agent works is in the active map under its own entry, so cancel
\* and the sweep of emergencyStop reach it.
Cancellable == \A e \in Executions : pc[e] = "session" => active = e
===============================================================================
