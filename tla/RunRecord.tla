------------------------------- MODULE RunRecord -------------------------------
(***************************************************************************)
(* What a reader of the run store may rely on: the durable record of one   *)
(* run and the automatic retries spent on it, with nothing of executions,  *)
(* the active map, capsules, cancellers or crashes.  RunLifecycle          *)
(* implements it while resume is called on idle runs (RunRefinement).      *)
(***************************************************************************)
EXTENDS Naturals

CONSTANTS
  Allowance       \* automatic retries over the whole life of the run

VARIABLES
  record,         \* state, verification, trust, handoff
  spent           \* the automatic retries made so far

recordVars == <<record, spent>>

\* Nobody may merge or deliver on the strength of this record.
WithoutAuthority(r) == r.trust = "none" /\ r.handoff = "none"

NewRecord == [state |-> "QUEUED", verification |-> "PROPOSED", trust |-> "none",
              handoff |-> "none"]

RecordInit == record = NewRecord /\ spent = 0

\* A queued run starts, a paused one is resumed: what it was granted stays behind.
Begin ==
  /\ record.state \in {"QUEUED", "PAUSED"}
  /\ record' = [record EXCEPT !.state = "RUNNING"]
  /\ WithoutAuthority(record')
  /\ UNCHANGED spent

\* A run is verified and assured; nothing is delivered yet.  What is still under
\* way when a run is cancelled writes its verdicts to the cancelled record.
Work ==
  /\ record.state \in {"RUNNING", "CANCELLED"}
  /\ \E v \in {record.verification, "VERIFYING"},
        t \in {record.trust, "CORRECTNESS_VERIFIED", "MERGE_ELIGIBLE"} :
       record' = [record EXCEPT !.verification = v, !.trust = t]
  /\ UNCHANGED spent

\* A transient failure of the agent is retried in place.
Retry ==
  /\ record.state = "RUNNING"
  /\ spent < Allowance
  /\ spent' = spent + 1
  /\ UNCHANGED record

\* The one step that completes a run, and with it the one that may deliver.
Complete ==
  /\ record.state = "RUNNING"
  /\ record.trust \in {"CORRECTNESS_VERIFIED", "MERGE_ELIGIBLE"}
  /\ \E h \in {"none", "bound"} :
       /\ h = "none" => record.trust = "MERGE_ELIGIBLE"
       /\ record' = [record EXCEPT !.state = "COMPLETED", !.verification = "VERIFIED",
                                   !.handoff = h]
  /\ UNCHANGED spent

\* The candidate was judged and refused.
Refuse ==
  /\ record.state = "RUNNING"
  /\ \E v \in {"QUARANTINED", "NOT_CHECKED", "CANCELLED"} :
       record' = [state |-> "FAILED", verification |-> v, trust |-> "PROPOSED",
                  handoff |-> "none"]
  /\ UNCHANGED spent

\* Something threw: the run stops where it stood and whatever it had been granted
\* is withdrawn.  A cancelled record may be overwritten too (CancelStays).
Withdraw ==
  /\ record.state # "QUEUED"
  /\ record' \in [state : {"PAUSED", "FAILED"},
                  verification : {"FAILED", "QUARANTINED", "CANCELLED"},
                  trust : {"none"}, handoff : {"none"}]
  /\ UNCHANGED spent

\* The process died under a run in flight: it waits for an operator, unjudged.
Interrupt ==
  /\ record.state \in {"QUEUED", "RUNNING"}
  /\ record' = [state |-> "PAUSED", verification |-> "NOT_CHECKED", trust |-> "none",
                handoff |-> "none"]
  /\ UNCHANGED spent

\* An operator or an emergency stop ends a run that has not completed.
Cancel ==
  /\ record.state # "COMPLETED"
  /\ record' = [state |-> "CANCELLED", verification |-> "CANCELLED", trust |-> "none",
                handoff |-> "none"]
  /\ UNCHANGED spent

RecordNext ==
  Begin \/ Work \/ Retry \/ Complete \/ Refuse \/ Withdraw \/ Interrupt \/ Cancel

RecordSpec == RecordInit /\ [][RecordNext]_recordVars
================================================================================
