---------------------------- MODULE CandidateGate ----------------------------
(***************************************************************************)
(* The candidate of a run, from the agent's session to its quality         *)
(* evidence (src/application/run-service.ts): capture, verification in a   *)
(* fresh copy, the fences, the retry and repair loop, and the measurements *)
(* and the review made on the worktree afterwards.  The worktree is read   *)
(* file by file, and anyone may write to it between two reads.             *)
(***************************************************************************)
EXTENDS Naturals, Sequences

CONSTANTS GateFiles,          \* number of files; capture visits them in order
          Contents,           \* a range 0..k: fresh bytes are a larger number
          MaxEdits, MaxRepairAttempts,
          GateTasks,          \* the tasks: [spec, verifier, wants]
          TestEvidence        \* what a failing command shows, see Attribute

ASSUME GateAssumption ==
  GateFiles \in Nat /\ Contents \subseteq Nat /\ MaxRepairAttempts \in Nat

VARIABLES disk,      \* the worktree
          edits,     \* writes to it, bounded by MaxEdits
          reverted,  \* history: a write restored bytes a file had before
          strayed,   \* history: the worktree was not the candidate during this measurement
          gate,      \* execute's local state
          gathered   \* per kind: the posture or verdict, and strayed when it was taken

gateVars == <<disk, edits, reverted, strayed, gate, gathered>>

Kinds == {"PERFORMANCE", "RESILIENCE", "INDEPENDENT_REVIEW"}
FenceOf == [PERFORMANCE |-> "PERFORMANCEFence", RESILIENCE |-> "RESILIENCEFence",
            INDEPENDENT_REVIEW |-> "INDEPENDENT_REVIEWFence"]
NoEvidence == [state |-> "NONE", strayed |-> FALSE]
FreshGate == [task |-> CHOOSE t \in GateTasks : TRUE, pc |-> "idle", seen |-> <<>>, cand |-> <<>>,
            tested |-> <<>>, raw |-> "PROPOSED", state |-> "PROPOSED", authority |-> FALSE,
            kind |-> "none", previous |-> "none", attempts |-> 0, repairs |-> 0,
            retried |-> FALSE, retrying |-> FALSE, last |-> <<>>]

GateInit ==
  /\ disk = [f \in 1..GateFiles |-> 0] /\ edits = 0 /\ reverted = FALSE /\ strayed = FALSE
  /\ gate = FreshGate /\ gathered = [k \in Kinds |-> NoEvidence]

At(step) == gate.pc = step
Go(step) == [gate EXCEPT !.pc = step, !.seen = <<>>]
Quiet == UNCHANGED <<disk, edits, reverted, strayed, gathered>>

\* The agent, a process it left behind, the reviewer or the operator writes a file.
Edit(f, c) ==
  /\ gate.pc \notin {"idle", "done", "stopped"} /\ edits < MaxEdits /\ disk[f] # c
  /\ disk' = [disk EXCEPT ![f] = c] /\ edits' = edits + 1
  /\ reverted' = (reverted \/ c < disk[f])
  /\ strayed' = (strayed \/ disk' # gate.cand)
  /\ UNCHANGED <<gate, gathered>>

Begin(t) == At("idle") /\ gate' = [Go("session") EXCEPT !.task = t] /\ Quiet
EndSession == At("session") /\ gate' = Go("capture") /\ Quiet

-----------------------------------------------------------------------------
(* collectDiff, wherever it is awaited *)

Collecting == {"capture", "fence", "capabilityFence"} \cup {FenceOf[k] : k \in Kinds}
Collected == Len(gate.seen) = GateFiles

ReadFile ==
  /\ gate.pc \in Collecting /\ ~Collected
  /\ gate' = [gate EXCEPT !.seen = Append(@, disk[Len(@) + 1])] /\ Quiet

\* captureCandidate
CaptureCandidate ==
  /\ At("capture") /\ Collected
  /\ gate' = [Go(IF gate.task.spec # "CONFIGURED" THEN "verified"
                 ELSE IF gate.task.verifier = "command" THEN "legacy" ELSE "materialize")
              EXCEPT !.cand = gate.seen, !.attempts = @ + 1, !.previous = gate.state,
                     !.raw = "NOT_CHECKED", !.kind = "UNKNOWN", !.retrying = FALSE,
                     !.tested = <<>>, !.authority = FALSE]
  /\ Quiet

-----------------------------------------------------------------------------
(* CommandVerifier.verify and what the run service makes of its result *)

\* attributeVerificationFailure: what the verifier's process showed first, then the text.
Attribute(e) ==
  IF e.expectedOnly THEN "CANDIDATE"
  ELSE IF e.resolution # "RESOLVED" THEN "ENVIRONMENT"
  ELSE IF e.termination # "COMPLETED" THEN "EXECUTION_LIMIT"
  ELSE IF e.text # "none" THEN e.text
  ELSE IF e.exit127 THEN "ENVIRONMENT" ELSE "UNKNOWN"
RetryUseful(kind) == kind \notin {"CANDIDATE", "EXECUTION_LIMIT"}
Unrepairable == {"ENVIRONMENT", "DEPENDENCY", "INFRASTRUCTURE"}

\* Mutant: the copy is made without comparing the bytes with the manifest.
CopyUnchecked ==
  /\ At("materialize") /\ ~Collected
  /\ gate' = [gate EXCEPT !.seen = Append(@, disk[Len(@) + 1])] /\ Quiet

\* materializeVerificationCandidate: one file more, unless it changed after the capture
Materialize ==
  /\ At("materialize") /\ ~Collected
  /\ LET f == Len(gate.seen) + 1 IN
     gate' = IF disk[f] = gate.cand[f] THEN [gate EXCEPT !.seen = Append(@, disk[f])]
             ELSE [Go("verified") EXCEPT !.raw = "NOT_CHECKED", !.kind = "UNKNOWN"]
  /\ Quiet

RunCommand ==
  /\ At("materialize") /\ Collected
  /\ \/ gate' = [Go("authority") EXCEPT !.tested = gate.seen, !.raw = "VERIFIED"]
     \/ \E e \in TestEvidence :
          gate' = [Go("verified") EXCEPT !.tested = gate.seen, !.raw = "QUARANTINED", !.kind = Attribute(e)]
  /\ Quiet

\* A verifier of an earlier interface: it reads the worktree and returns no binding.
RunLegacy ==
  /\ At("legacy")
  /\ \/ gate' = [Go("authority") EXCEPT !.tested = disk, !.raw = "VERIFIED"]
     \/ gate' = [Go("verified") EXCEPT !.tested = disk, !.raw = "QUARANTINED", !.kind = "UNKNOWN"]
  /\ Quiet

\* enforceVerificationAuthorityBinding: the record names the candidate it was made for
AuthorityBinding ==
  /\ At("authority")
  /\ gate' = [Go("fence") EXCEPT !.authority = gate.task.verifier = "normalized-local"] /\ Quiet

\* enforcePostVerificationCandidateFence: the raw success stands if the worktree is
\* still the candidate; "failed" is a collectDiff that throws.
Fence ==
  /\ At("fence")
  /\ \/ Collected /\ gate' = [Go("judge") EXCEPT !.previous = gate.state,
                              !.state = IF gate.seen = gate.cand THEN "VERIFIED" ELSE "QUARANTINED"]
     \/ gate.seen = <<>> /\ gate' = [Go("judge") EXCEPT !.previous = gate.state, !.state = "QUARANTINED"]
  /\ Quiet

Unverified ==
  /\ At("verified")
  /\ gate' = [Go("judge") EXCEPT !.previous = gate.state, !.state = gate.raw] /\ Quiet

-----------------------------------------------------------------------------
(* The loop *)

Severity(s) == CASE s = "VERIFIED" -> 0 [] s = "QUARANTINED" -> 1 [] s = "FAILED" -> 2 [] OTHER -> 3
WorseState == gate.attempts > 1 /\ Severity(gate.state) > Severity(gate.previous)

MayRepair ==
  /\ gate.repairs < MaxRepairAttempts
  /\ ~WorseState
  /\ gate.cand # gate.last

\* Mutant: every candidate gets an environment retry of its own.
RetryEach == RetryUseful(gate.kind) /\ ~gate.retrying

MayRetry == RetryUseful(gate.kind) /\ ~gate.retried

Settled == gate.raw = "VERIFIED" \/ gate.task.spec # "CONFIGURED"

Accept == At("judge") /\ gate.state = "VERIFIED" /\ gate' = Go("capability") /\ Quiet
Discard == At("judge") /\ gate.state # "VERIFIED" /\ Settled /\ gate' = Go("stopped") /\ Quiet
EnvironmentRetry ==
  /\ At("judge") /\ gate.state # "VERIFIED" /\ ~Settled /\ MayRetry
  /\ gate' = [Go(IF gate.task.verifier = "command" THEN "legacy" ELSE "materialize")
              EXCEPT !.retried = TRUE, !.retrying = TRUE, !.attempts = @ + 1]
  /\ Quiet
\* The budget is authorised or not: see SessionBudget.
RepairOrStop ==
  /\ At("judge") /\ gate.state # "VERIFIED" /\ ~Settled /\ ~MayRetry
  /\ \/ gate' = Go("stopped")
     \/ /\ MayRepair /\ ~(gate.retrying /\ gate.kind \in Unrepairable)
        /\ gate' = [Go("session") EXCEPT !.repairs = @ + 1, !.last = gate.cand]
  /\ Quiet

-----------------------------------------------------------------------------
(* The evidence about a verified candidate: assessCapabilities, then assessQuality *)

RunCapabilities ==
  /\ At("capability") /\ gate' = Go("capabilityFence") /\ Quiet
CapabilityFence ==
  /\ At("capabilityFence") /\ Collected
  /\ gate' = Go(IF gate.seen = gate.cand THEN "PERFORMANCE" ELSE "stopped") /\ Quiet

After(k) == CASE k = "PERFORMANCE" -> "RESILIENCE" [] k = "RESILIENCE" -> "INDEPENDENT_REVIEW"
              [] OTHER -> "done"

\* deriveTrustState caps what an unfavourable posture leaves, so no review is asked for
Wanted(k) ==
  /\ k \in gate.task.wants
  /\ k = "INDEPENDENT_REVIEW" => \A j \in Kinds \ {k} : gathered[j].state \in {"NONE", "PASS"}

Skip(k) == At(k) /\ ~Wanted(k) /\ gate' = Go(After(k)) /\ Quiet
StartMeasure(k) ==
  /\ At(k) /\ Wanted(k) /\ gate' = Go("measuring")
  /\ strayed' = (disk # gate.cand)
  /\ gathered' = [gathered EXCEPT ![k].state = "RUNNING"]
  /\ UNCHANGED <<disk, edits, reverted>>
\* The commands and the reviewer run in the worktree; a failed one is no evidence.
EndMeasure(k, outcome) ==
  /\ At("measuring") /\ gathered[k].state = "RUNNING"
  /\ gate' = Go(FenceOf[k])
  /\ gathered' = [gathered EXCEPT ![k] = [state |-> outcome, strayed |-> strayed]]
  /\ UNCHANGED <<disk, edits, reverted, strayed>>

\* Mutant: the measurement is used without a second capture.
NoSecondCapture(k) ==
  /\ At(FenceOf[k]) /\ gate' = Go(After(k)) /\ UNCHANGED <<disk, edits, reverted, strayed, gathered>>

\* The second capture of measurePerformance, verifyResilience and consumeReviewerSession
EvidenceFence(k) ==
  /\ At(FenceOf[k]) /\ Collected /\ gate' = Go(After(k))
  /\ gathered' = IF gate.seen = gate.cand THEN gathered ELSE [gathered EXCEPT ![k].state = "NOT_CHECKED"]
  /\ UNCHANGED <<disk, edits, reverted, strayed>>

\* collectDiff throws: before a candidate exists the run pauses, afterwards the evidence is void.
CaptureFails ==
  /\ gate.pc \in Collecting \ {"fence"} /\ gate.seen = <<>>
  /\ IF gate.pc \in {"capture", "capabilityFence"} THEN gate' = Go("stopped") /\ Quiet
     ELSE \E k \in Kinds :
            /\ gate.pc = FenceOf[k] /\ gate' = Go(After(k))
            /\ gathered' = [gathered EXCEPT ![k].state = "NOT_CHECKED"]
            /\ UNCHANGED <<disk, edits, reverted, strayed>>

GateNext ==
  \/ \E f \in 1..GateFiles, c \in Contents : Edit(f, c)
  \/ \E t \in GateTasks : Begin(t)
  \/ EndSession \/ ReadFile \/ CaptureCandidate \/ CaptureFails
  \/ Materialize \/ RunCommand \/ RunLegacy \/ AuthorityBinding \/ Fence \/ Unverified
  \/ Accept \/ Discard \/ EnvironmentRetry \/ RepairOrStop
  \/ RunCapabilities \/ CapabilityFence
  \/ \E k \in Kinds : \/ Skip(k) \/ StartMeasure(k) \/ EvidenceFence(k)
                      \/ \E o \in {"PASS", "FAIL", "NOT_CHECKED"} : EndMeasure(k, o)

GateSpec == GateInit /\ [][GateNext]_gateVars

-----------------------------------------------------------------------------
(* Properties *)

\* An authorised verification tested exactly the bytes of the captured candidate, whatever
\* was written to the worktree meanwhile, restored bytes included.
VerifiedIsTested ==
  gate.state = "VERIFIED" /\ gate.authority => gate.tested = gate.cand

\* A posture that passes, or an approval, was obtained while the worktree was the candidate
\* all the time.  A write that is undone before the second capture escapes it, so the
\* property is about worktrees in which no bytes came back.
EvidenceIsOfCandidate ==
  reverted \/ \A k \in Kinds : (gathered[k].state = "PASS" => ~gathered[k].strayed) \/ gate.pc # "done"

\* A run verifies its first candidate, each repaired one and, once in all, an unchanged
\* candidate again: the loop cannot spend verifier time beyond that.
AttemptsBounded == gate.attempts <= MaxRepairAttempts + 2

\* The gate between an agent's worktree and a verdict, with a writer loose in the worktree.
GateIsSound == VerifiedIsTested /\ EvidenceIsOfCandidate /\ AttemptsBounded
=============================================================================
