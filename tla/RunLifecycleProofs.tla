-------------------------- MODULE RunLifecycleProofs --------------------------
(***************************************************************************)
(* Proofs about RunLifecycle for every value of its constants: any number  *)
(* of executions of a run, resumed as early as a caller likes, with events *)
(* that may fail and crashes anywhere.  The second half has the hypothesis *)
(* that resume is called on idle runs only.                                *)
(***************************************************************************)
EXTENDS RunRefinement, TLAPS

\* Every step of execute, cancel, resume and reconciliation preserves the types.
LEMMA TypeStep == TypeOK /\ [Next]_vars => TypeOK'
<1> SUFFICES ASSUME TypeOK, [Next]_vars PROVE TypeOK'
  OBVIOUS
<1>1. ASSUME NEW e \in Executions, Body(e) PROVE TypeOK'
  <2>1. pc' \in [Executions -> Steps]
    BY <1>1, ZenonT(60) DEF TypeOK, Body, At, Steps, Idle, others, Assess,
       Setup, SessionEnds, SessionCancelled, SessionRetried, BodyFails, Repair, Rejected,
       Verified, AssessUnreviewed, BeginReview, ReviewEnds, AssuranceCancelled,
       Decide, DecideFails, DecideCancelled, Record, RecordFails, CatchCancelled,
       Catch, Capture, Pause, Announce, CaptureFails, Cleanup
  <2>2. run' \in [Executions -> Records]
    <3>0. run \in [Executions -> Records] /\ run[e] \in Records
          /\ result[e] \in VerificationStates
      BY DEF TypeOK
    <3> USE <3>0 DEF Records, RunStates, TrustStates
    <3>1. CASE SessionEnds(e)  BY <3>1 DEF SessionEnds, VerificationStates
    <3>2. CASE Rejected(e)  BY <3>2 DEF Rejected
    <3>3. CASE AssessUnreviewed(e) \/ ReviewEnds(e)
      BY <3>3 DEF AssessUnreviewed, ReviewEnds, Assess
    <3>4. CASE Decide(e) \/ DecideFails(e)
      <4>1. \A bound \in {"none", "bound"} : Outcome(e, bound) \in Records
        BY DEF Outcome
      <4> QED BY <3>4, <4>1 DEF Decide, DecideFails
    <3>5. CASE Catch(e)  BY <3>5 DEF Catch, VerificationStates
    <3>6. CASE Pause(e) \/ CaptureFails(e)  BY <3>6 DEF Pause, CaptureFails
    <3>7. CASE run' = run  BY <3>7
    <3> QED
      BY <1>1, <3>1, <3>2, <3>3, <3>4, <3>5, <3>6, <3>7 DEF Body, others,
         Setup, SessionCancelled, SessionRetried, BodyFails, Repair, Verified, BeginReview,
       AssuranceCancelled, DecideCancelled, Record, RecordFails, CatchCancelled,
       Capture, Announce, Cleanup
  <2>3. store' \in Records
    <3>1. store' = store \/ store' = run'[e]
      BY <1>1 DEF Body, Update, Assess, others,
         Setup, SessionEnds, SessionCancelled, SessionRetried, BodyFails, Repair, Rejected,
       Verified, AssessUnreviewed, BeginReview, ReviewEnds, AssuranceCancelled,
       Decide, DecideFails, DecideCancelled, Record, RecordFails, CatchCancelled,
       Catch, Capture, Pause, Announce, CaptureFails, Cleanup
    <3>2. store \in Records /\ run'[e] \in Records  BY <2>2 DEF TypeOK
    <3> QED BY <3>1, <3>2
  <2>4. repairs' \in [Executions -> 0..MaxRepairs]
    <3>1. CASE Repair(e)
      <4>1. repairs \in [Executions -> 0..MaxRepairs] /\ repairs[e] < MaxRepairs
        BY <3>1 DEF Repair, TypeOK
      <4>2. repairs[e] + 1 \in 0..MaxRepairs  BY <4>1, PolicyAssumption
      <4> QED BY <3>1, <4>1, <4>2 DEF Repair
    <3>2. CASE repairs' = repairs  BY <3>2 DEF TypeOK
    <3> QED BY <1>1, <3>1, <3>2 DEF Body, Assess, others,
         Setup, SessionEnds, SessionCancelled, SessionRetried, BodyFails, Rejected, Verified,
       AssessUnreviewed, BeginReview, ReviewEnds, AssuranceCancelled, Decide,
       DecideFails, DecideCancelled, Record, RecordFails, CatchCancelled, Catch,
       Capture, Pause, Announce, CaptureFails, Cleanup
  <2>5. result' \in [Executions -> VerificationStates]
    BY <1>1 DEF TypeOK, Body, Assess, others, VerificationStates,
       Setup, SessionEnds, SessionCancelled, SessionRetried, BodyFails, Repair, Rejected,
       Verified, AssessUnreviewed, BeginReview, ReviewEnds, AssuranceCancelled,
       Decide, DecideFails, DecideCancelled, Record, RecordFails, CatchCancelled,
       Catch, Capture, Pause, Announce, CaptureFails, Cleanup
  <2>6. /\ entry' \in [Executions -> [cancelled : BOOLEAN, used : 0..MaxRecovery]]
        /\ retries' \in Nat
    <3>1. CASE SessionRetried(e)
      <4>1. PICK a \in Executions : /\ entry[a].used < MaxRecovery
                                    /\ entry' = [entry EXCEPT ![a].used = @ + 1]
        BY <3>1 DEF SessionRetried
      <4>2. entry[a] \in [cancelled : BOOLEAN, used : 0..MaxRecovery]  BY DEF TypeOK
      <4>3. entry[a].used \in 0..MaxRecovery  BY <4>2
      <4>4. entry[a].used + 1 \in 0..MaxRecovery  BY <4>1, <4>3, PolicyAssumption
      <4>5. [entry[a] EXCEPT !.used = @ + 1] \in [cancelled : BOOLEAN, used : 0..MaxRecovery]
        BY <4>2, <4>4
      <4>6. entry' \in [Executions -> [cancelled : BOOLEAN, used : 0..MaxRecovery]]
        BY <4>1, <4>5 DEF TypeOK
      <4>7. retries \in Nat /\ retries' = retries + 1  BY <3>1 DEF SessionRetried, TypeOK
      <4>8. retries' \in Nat  BY <4>7
      <4> QED BY <4>6, <4>8
    <3>2. CASE ~SessionRetried(e)
      <4>1. entry' = entry /\ retries' = retries
        BY <1>1, <3>2 DEF Body, Assess, others,
           Setup, SessionEnds, SessionCancelled, BodyFails, Repair, Rejected, Verified,
       AssessUnreviewed, BeginReview, ReviewEnds, AssuranceCancelled, Decide,
       DecideFails, DecideCancelled, Record, RecordFails, CatchCancelled, Catch,
       Capture, Pause, Announce, CaptureFails, Cleanup
      <4> QED BY <4>1 DEF TypeOK
    <3> QED BY <3>1, <3>2
  <2>7. capsule' \in [reason : {"none", "FAILURE", "PROCESS_RESTART"}, used : 0..MaxRecovery]
    <3>1. CASE Capture(e)  BY <3>1 DEF Capture
    <3>2. CASE capsule' = capsule  BY <3>2 DEF TypeOK
    <3> QED BY <1>1, <3>1, <3>2 DEF Body, Assess, others,
         Setup, SessionEnds, SessionCancelled, SessionRetried, BodyFails, Repair, Rejected,
       Verified, AssessUnreviewed, BeginReview, ReviewEnds, AssuranceCancelled,
       Decide, DecideFails, DecideCancelled, Record, RecordFails, CatchCancelled,
       Catch, Pause, Announce, CaptureFails, Cleanup
  <2>8. active' \in Executions \union {NoEntry} /\ canceller' = canceller /\ process' = process
    BY <1>1 DEF TypeOK, Body, Assess, others,
       Setup, SessionEnds, SessionCancelled, SessionRetried, BodyFails, Repair, Rejected,
       Verified, AssessUnreviewed, BeginReview, ReviewEnds, AssuranceCancelled,
       Decide, DecideFails, DecideCancelled, Record, RecordFails, CatchCancelled,
       Catch, Capture, Pause, Announce, CaptureFails, Cleanup
  <2> QED BY <2>1, <2>2, <2>3, <2>4, <2>5, <2>6, <2>7, <2>8 DEF TypeOK
<1>2. ASSUME NEW e \in Executions, Admission(e) PROVE TypeOK'
  <2>1. pc' \in [Executions -> Steps]
    BY <1>2 DEF TypeOK, Admission, At, Steps, Idle, others,
       Start, StartStopped, StartFails, Resume, ResumeRefused, ResumeAccepted
  <2>2. run' \in [Executions -> Records]
    <3>0. run \in [Executions -> Records] /\ run[e] \in Records /\ store \in Records
      BY DEF TypeOK
    <3>1. CASE Start(e) \/ ResumeAccepted(e)
      BY <3>0, <3>1 DEF Start, ResumeAccepted, Records, RunStates
    <3>2. CASE StartStopped(e)
      BY <3>0, <3>2 DEF StartStopped, Records, RunStates, VerificationStates, TrustStates
    <3>3. CASE Resume(e)  BY <3>0, <3>3 DEF Resume
    <3>4. CASE StartFails(e) \/ ResumeRefused(e)
      BY <3>0, <3>4 DEF StartFails, ResumeRefused
    <3> QED BY <1>2, <3>1, <3>2, <3>3, <3>4 DEF Admission
  <2>3. store' \in Records
    <3>1. store' = store \/ store' = run'[e]
      BY <1>2 DEF Admission, Update, others,
         Start, StartStopped, StartFails, Resume, ResumeRefused, ResumeAccepted
    <3>2. store \in Records /\ run'[e] \in Records  BY <2>2 DEF TypeOK
    <3> QED BY <3>1, <3>2
  <2>4. entry' \in [Executions -> [cancelled : BOOLEAN, used : 0..MaxRecovery]]
    <3>0. /\ entry \in [Executions -> [cancelled : BOOLEAN, used : 0..MaxRecovery]]
          /\ entry[e] \in [cancelled : BOOLEAN, used : 0..MaxRecovery]
      BY DEF TypeOK
    <3>1. CASE StartStopped(e)
      <4>1. [entry[e] EXCEPT !.cancelled = TRUE] \in [cancelled : BOOLEAN, used : 0..MaxRecovery]
        BY <3>0
      <4> QED BY <3>0, <3>1, <4>1 DEF StartStopped
    <3>2. CASE Resume(e)
      <4>1. capsule.used \in 0..MaxRecovery  BY DEF TypeOK
      <4>2. [entry[e] EXCEPT !.used = capsule.used]
              \in [cancelled : BOOLEAN, used : 0..MaxRecovery]
        BY <3>0, <4>1
      <4> QED BY <3>0, <3>2, <4>2 DEF Resume
    <3>3. CASE ~StartStopped(e) /\ ~Resume(e)
      <4>1. entry' = entry
        BY <1>2, <3>3 DEF Admission, others, Start, StartFails, ResumeRefused, ResumeAccepted
      <4> QED BY <3>0, <4>1
    <3> QED BY <3>1, <3>2, <3>3
  <2>5. /\ capsule' = capsule /\ repairs' = repairs /\ result' = result /\ retries' = retries
        /\ canceller' = canceller /\ process' = process
    BY <1>2 DEF Admission, others,
       Start, StartStopped, StartFails, Resume, ResumeRefused, ResumeAccepted
  <2>6. active' \in Executions \union {NoEntry}
    BY <1>2 DEF TypeOK, Admission, others,
       Start, StartStopped, StartFails, Resume, ResumeRefused, ResumeAccepted
  <2> QED BY <2>1, <2>2, <2>3, <2>4, <2>5, <2>6 DEF TypeOK
<1>3. CASE CancelBegin
  <2>1. PICK e \in Executions :
          entry' = [entry EXCEPT ![e].cancelled = TRUE] /\ canceller' = e
    BY <1>3 DEF CancelBegin
  <2>2. entry[e] \in [cancelled : BOOLEAN, used : 0..MaxRecovery]  BY DEF TypeOK
  <2>3. [entry[e] EXCEPT !.cancelled = TRUE] \in [cancelled : BOOLEAN, used : 0..MaxRecovery]
    BY <2>2
  <2>4. entry' \in [Executions -> [cancelled : BOOLEAN, used : 0..MaxRecovery]]
    BY <2>1, <2>3 DEF TypeOK
  <2> QED BY <1>3, <2>1, <2>4 DEF CancelBegin, TypeOK
<1>4. CASE CancelEnd
  <2>1. PICK e \in Executions :
          /\ run' = [run EXCEPT ![e] = [state |-> "CANCELLED", verification |-> "CANCELLED",
                                        trust |-> "none", handoff |-> "none"]]
          /\ store' = run'[e]
    BY <1>4 DEF CancelEnd, Update
  <2>2. run' \in [Executions -> Records] /\ store' \in Records
    BY <2>1 DEF TypeOK, Records, RunStates, VerificationStates, TrustStates
  <2>3. canceller' \in Executions \union {NoEntry}  BY <1>4 DEF CancelEnd
  <2> QED BY <1>4, <2>2, <2>3 DEF CancelEnd, TypeOK
<1>5. CASE Crash
  <2>1. pc' \in [Executions -> Steps]  BY <1>5 DEF Crash, Steps, Idle
  <2> QED BY <1>5, <2>1 DEF Crash, TypeOK
<1>6. CASE ReconcileCapsule
  <2>0. MaxRecovery \in 0..MaxRecovery  BY PolicyAssumption
  <2>1. capsule' \in [reason : {"none", "FAILURE", "PROCESS_RESTART"}, used : 0..MaxRecovery]
    BY <1>6, <2>0 DEF ReconcileCapsule
  <2> QED BY <1>6, <2>1 DEF ReconcileCapsule, TypeOK
<1>7. CASE ReconcileRun
  <2>1. store' \in Records
    BY <1>7 DEF ReconcileRun, Records, RunStates, VerificationStates, TrustStates
  <2> QED BY <1>7, <2>1 DEF ReconcileRun, TypeOK
<1>8. CASE ReconcileNothing  BY <1>8 DEF ReconcileNothing, TypeOK
<1>9. CASE UNCHANGED vars  BY <1>9 DEF vars, TypeOK
<1> QED BY <1>1, <1>2, <1>3, <1>4, <1>5, <1>6, <1>7, <1>8, <1>9 DEF Next

\* TypeOK holds in every behaviour of the specification.
THEOREM TypeCorrect == Spec => []TypeOK
<1>1. Init => TypeOK
  BY PolicyAssumption DEF Init, TypeOK, Created, Executions, NoEntry, Records, RunStates,
     VerificationStates, TrustStates, Steps, Idle
<1> QED BY <1>1, TypeStep, PTL DEF Spec

-----------------------------------------------------------------------------
(* The inductive invariant. *)

\* The steps of execute before its outcome.
Working == {"setup", "session", "verifying", "assuring", "reviewing", "deciding"}

\* What the live object r may hold at step p, after verification result v, so that
\* the next write of it grants nothing it must not: no authority before the
\* outcome, none from the catch block on, and no step but the last one of the
\* catch block records PAUSED.
Fit(p, r, v) ==
  /\ p \in Working => r.handoff = "none" /\ r.state # "PAUSED" /\ r.state # "COMPLETED"
  /\ p = "deciding" /\ v = "VERIFIED" => r.trust # "PROPOSED"
  /\ p \in {"admitting", "resuming", "resumed"} => r.handoff = "none"
  /\ p \in {"capturing", "pausing", "paused"} => r.handoff = "none" /\ r.trust = "none"

\* Whoever is about to record PAUSED has saved a capsule.
CapsuleFirst ==
  /\ \A e \in Executions : pc[e] = "pausing" => capsule.reason # "none"
  /\ process = "capsule saved" => capsule.reason # "none"

IInv ==
  /\ AuthorityMatchesState
  /\ PausedHasCapsule
  /\ \A e \in Executions : Fit(pc[e], run[e], result[e])
  /\ CapsuleFirst

\* A step of one execution leaves the position and the live object of the others
\* alone.
LEMMA OthersStay ==
  ASSUME TypeOK, NEW e \in Executions, Body(e) \/ Admission(e),
         NEW d \in Executions, d # e
  PROVE  pc'[d] = pc[d] /\ run'[d] = run[d] /\ result'[d] = result[d]
<1> USE DEF TypeOK
<1>1. CASE Body(e)
  BY <1>1 DEF Body, At, others, Assess,
     Setup, SessionEnds, SessionCancelled, SessionRetried, BodyFails, Repair, Rejected,
     Verified, AssessUnreviewed, BeginReview, ReviewEnds, AssuranceCancelled, Decide,
     DecideFails, DecideCancelled, Record, RecordFails, CatchCancelled, Catch, Capture,
     Pause, Announce, CaptureFails, Cleanup
<1>2. CASE Admission(e)
  BY <1>2 DEF Admission, At, others,
     Start, StartStopped, StartFails, Resume, ResumeRefused, ResumeAccepted
<1> QED BY <1>1, <1>2

\* Every step of an execution leaves its live object fit for where it stands, and
\* reaches the write of PAUSED only with a capsule.
LEMMA FitStep ==
  ASSUME TypeOK, IInv, NEW e \in Executions, Body(e) \/ Admission(e)
  PROVE  Fit(pc[e], run[e], result[e])' /\ (pc'[e] = "pausing" => capsule'.reason # "none")
<1>0. /\ run \in [Executions -> Records] /\ pc \in [Executions -> Steps]
      /\ result \in [Executions -> VerificationStates]
      /\ run[e] \in Records /\ Fit(pc[e], run[e], result[e])
      /\ pc[e] = "pausing" => capsule.reason # "none"
      /\ store.state = "PAUSED" => store.handoff = "none"
  BY DEF TypeOK, IInv, CapsuleFirst, AuthorityMatchesState
<1>1. CASE Body(e)
  <2> USE <1>0 DEF Fit, Working, Records
  <2>1. CASE Setup(e)  BY <2>1 DEF Setup, At, Update, others
  <2>2. CASE SessionEnds(e)  BY <2>2 DEF SessionEnds, At, Update, others
  <2>3. CASE SessionCancelled(e)  BY <2>3 DEF SessionCancelled, At, others
  <2>4. CASE SessionRetried(e)  BY <2>4 DEF SessionRetried, others
  <2>5. CASE BodyFails(e)  BY <2>5 DEF BodyFails, others
  <2>6. CASE Repair(e)  BY <2>6 DEF Repair, At, Update, others
  <2>7. CASE Rejected(e)  BY <2>7 DEF Rejected, At, others
  <2>8. CASE Verified(e)  BY <2>8 DEF Verified, At, others
  <2>9. CASE AssessUnreviewed(e)  BY <2>9 DEF AssessUnreviewed, At, Update, Assess, others
  <2>10. CASE BeginReview(e)  BY <2>10 DEF BeginReview, At, others
  <2>11. CASE ReviewEnds(e)  BY <2>11 DEF ReviewEnds, At, Update, Assess, others
  <2>12. CASE AssuranceCancelled(e)  BY <2>12 DEF AssuranceCancelled, others
  <2>13. CASE Decide(e)  BY <2>13 DEF Decide, At, Update, Outcome, Deliverable, others
  <2>14. CASE DecideFails(e)  BY <2>14 DEF DecideFails, At, Outcome, Deliverable, others
  <2>15. CASE DecideCancelled(e)  BY <2>15 DEF DecideCancelled, At, others
  <2>16. CASE Record(e)  BY <2>16 DEF Record, At, others
  <2>17. CASE RecordFails(e)  BY <2>17 DEF RecordFails, At, others
  <2>18. CASE CatchCancelled(e)  BY <2>18 DEF CatchCancelled, At, others
  <2>19. CASE Catch(e)  BY <2>19 DEF Catch, At, others
  <2>20. CASE Capture(e)  BY <2>20 DEF Capture, At, others
  <2>21. CASE Pause(e)  BY <2>21 DEF Pause, At, Update, others
  <2>22. CASE Announce(e)  BY <2>22 DEF Announce, At, others
  <2>23. CASE CaptureFails(e)  BY <2>23 DEF CaptureFails, Update, others
  <2>24. CASE Cleanup(e)  BY <2>24 DEF Cleanup, At, others
  <2> QED
    BY <1>1, <2>1, <2>2, <2>3, <2>4, <2>5, <2>6, <2>7, <2>8, <2>9, <2>10, <2>11, <2>12, <2>13,
       <2>14, <2>15, <2>16, <2>17, <2>18, <2>19, <2>20, <2>21, <2>22, <2>23, <2>24 DEF Body
<1>2. CASE Admission(e)
  <2> USE <1>0 DEF Fit, Working, Records
  <2>1. CASE Start(e)  BY <2>1 DEF Start, Update, others
  <2>2. CASE StartStopped(e)  BY <2>2 DEF StartStopped, Update, others
  <2>3. CASE StartFails(e)  BY <2>3 DEF StartFails, others
  <2>4. CASE Resume(e)  BY <2>4 DEF Resume, At, others
  <2>5. CASE ResumeRefused(e)  BY <2>5 DEF ResumeRefused, At, others
  <2>6. CASE ResumeAccepted(e)  BY <2>6 DEF ResumeAccepted, At, Update, others
  <2> QED BY <1>2, <2>1, <2>2, <2>3, <2>4, <2>5, <2>6 DEF Admission
<1> QED BY <1>1, <1>2

\* What the store holds after the step of an execution: what it held, or what a
\* live object fit for the step may write.
LEMMA StoreStep ==
  ASSUME TypeOK, IInv, NEW e \in Executions, Body(e) \/ Admission(e)
  PROVE  \/ store' = store
         \/ /\ store'.handoff = "bound" => store'.state = "COMPLETED"
            /\ store'.state = "COMPLETED" =>
                 /\ store'.verification = "VERIFIED"
                 /\ store'.trust \in {"CORRECTNESS_VERIFIED", "MERGE_ELIGIBLE"}
            /\ store'.state = "PAUSED" =>
                 pc[e] = "pausing" /\ store'.trust = "none" /\ store'.handoff = "none"
<1>0. /\ run \in [Executions -> Records] /\ run[e] \in Records /\ Fit(pc[e], run[e], result[e])
  BY DEF TypeOK, IInv
<1>1. CASE Body(e)
  <2> USE <1>0 DEF Fit, Working, Records
  <2>1. CASE Setup(e)  BY <2>1 DEF Setup, At, Update, others
  <2>2. CASE SessionEnds(e)  BY <2>2 DEF SessionEnds, At, Update, others
  <2>3. CASE SessionCancelled(e)  BY <2>3 DEF SessionCancelled, At, others
  <2>4. CASE SessionRetried(e)  BY <2>4 DEF SessionRetried, others
  <2>5. CASE BodyFails(e)  BY <2>5 DEF BodyFails, others
  <2>6. CASE Repair(e)  BY <2>6 DEF Repair, At, Update, others
  <2>7. CASE Rejected(e)  BY <2>7 DEF Rejected, At, others
  <2>8. CASE Verified(e)  BY <2>8 DEF Verified, At, others
  <2>9. CASE AssessUnreviewed(e)  BY <2>9 DEF AssessUnreviewed, At, Update, Assess, others
  <2>10. CASE BeginReview(e)  BY <2>10 DEF BeginReview, At, others
  <2>11. CASE ReviewEnds(e)  BY <2>11 DEF ReviewEnds, At, Update, Assess, others
  <2>12. CASE AssuranceCancelled(e)  BY <2>12 DEF AssuranceCancelled, others
  <2>13. CASE Decide(e)
    <3>1. PICK bound \in {"none", "bound"} :
            Deliverable(e, bound) /\ run' = [run EXCEPT ![e] = Outcome(e, bound)]
      BY <2>13 DEF Decide
    <3>2. store' = Outcome(e, bound) /\ pc[e] = "deciding"
      BY <2>13, <3>1 DEF Decide, At, Update
    <3>3. CASE result[e] = "VERIFIED"
      <4>1. run[e].trust \in {"CORRECTNESS_VERIFIED", "MERGE_ELIGIBLE"}
        BY <3>1, <3>2, <3>3 DEF Deliverable, TrustStates
      <4> QED BY <3>2, <3>3, <4>1 DEF Outcome
    <3>4. CASE result[e] # "VERIFIED"  BY <3>2, <3>4 DEF Outcome
    <3> QED BY <3>3, <3>4
  <2>14. CASE DecideFails(e)  BY <2>14 DEF DecideFails, At, Outcome, Deliverable, others
  <2>15. CASE DecideCancelled(e)  BY <2>15 DEF DecideCancelled, At, others
  <2>16. CASE Record(e)  BY <2>16 DEF Record, At, others
  <2>17. CASE RecordFails(e)  BY <2>17 DEF RecordFails, At, others
  <2>18. CASE CatchCancelled(e)  BY <2>18 DEF CatchCancelled, At, others
  <2>19. CASE Catch(e)  BY <2>19 DEF Catch, At, others
  <2>20. CASE Capture(e)  BY <2>20 DEF Capture, At, others
  <2>21. CASE Pause(e)  BY <2>21 DEF Pause, At, Update, others
  <2>22. CASE Announce(e)  BY <2>22 DEF Announce, At, others
  <2>23. CASE CaptureFails(e)  BY <2>23 DEF CaptureFails, Update, others
  <2>24. CASE Cleanup(e)  BY <2>24 DEF Cleanup, At, others
  <2> QED
    BY <1>1, <2>1, <2>2, <2>3, <2>4, <2>5, <2>6, <2>7, <2>8, <2>9, <2>10, <2>11, <2>12, <2>13,
       <2>14, <2>15, <2>16, <2>17, <2>18, <2>19, <2>20, <2>21, <2>22, <2>23, <2>24 DEF Body
<1>2. CASE Admission(e)
  <2> USE <1>0 DEF Fit, Working, Records
  <2>1. CASE Start(e)  BY <2>1 DEF Start, Update, others
  <2>2. CASE StartStopped(e)  BY <2>2 DEF StartStopped, Update, others
  <2>3. CASE StartFails(e)  BY <2>3 DEF StartFails, others
  <2>4. CASE Resume(e)  BY <2>4 DEF Resume, At, others
  <2>5. CASE ResumeRefused(e)  BY <2>5 DEF ResumeRefused, At, others
  <2>6. CASE ResumeAccepted(e)  BY <2>6 DEF ResumeAccepted, At, Update, others
  <2> QED BY <1>2, <2>1, <2>2, <2>3, <2>4, <2>5, <2>6 DEF Admission
<1> QED BY <1>1, <1>2

\* No step of an execution loses a saved capsule or touches the restart.
LEMMA CapsuleStays ==
  ASSUME TypeOK, NEW e \in Executions, Body(e) \/ Admission(e)
  PROVE  process' = process /\ (capsule.reason # "none" => capsule'.reason # "none")
<1>1. CASE Body(e)
  BY <1>1 DEF Body, others, Assess,
     Setup, SessionEnds, SessionCancelled, SessionRetried, BodyFails, Repair, Rejected,
     Verified, AssessUnreviewed, BeginReview, ReviewEnds, AssuranceCancelled, Decide,
     DecideFails, DecideCancelled, Record, RecordFails, CatchCancelled, Catch, Capture,
     Pause, Announce, CaptureFails, Cleanup
<1>2. CASE Admission(e)
  BY <1>2 DEF Admission, others,
     Start, StartStopped, StartFails, Resume, ResumeRefused, ResumeAccepted
<1> QED BY <1>1, <1>2

\* Every step preserves the inductive invariant.
LEMMA InvariantStep == TypeOK /\ IInv /\ [Next]_vars => IInv'
<1> SUFFICES ASSUME TypeOK, IInv, [Next]_vars PROVE IInv'
  OBVIOUS
<1>1. ASSUME NEW e \in Executions, Body(e) \/ Admission(e) PROVE IInv'
  <2>1. Fit(pc[e], run[e], result[e])' /\ (pc'[e] = "pausing" => capsule'.reason # "none")
    BY <1>1, FitStep
  <2>2. \A d \in Executions : d # e =>
          pc'[d] = pc[d] /\ run'[d] = run[d] /\ result'[d] = result[d]
    BY <1>1, OthersStay
  <2>3. process' = process /\ (capsule.reason # "none" => capsule'.reason # "none")
    BY <1>1, CapsuleStays
  <2>4. \A d \in Executions : Fit(pc[d], run[d], result[d])'
    BY <2>1, <2>2 DEF IInv, Fit
  <2>5. CapsuleFirst'
    BY <2>1, <2>2, <2>3 DEF IInv, CapsuleFirst
  <2>6. AuthorityMatchesState'
    BY <1>1, StoreStep DEF IInv, AuthorityMatchesState
  <2>7. PausedHasCapsule'
    BY <1>1, <2>3, StoreStep DEF IInv, PausedHasCapsule, CapsuleFirst
  <2> QED BY <2>4, <2>5, <2>6, <2>7 DEF IInv
<1>2. CASE CancelBegin
  BY <1>2 DEF CancelBegin, IInv, Fit, CapsuleFirst, AuthorityMatchesState, PausedHasCapsule
<1>3. CASE CancelEnd
  <2>1. PICK e \in Executions :
          /\ run' = [run EXCEPT ![e] = [state |-> "CANCELLED", verification |-> "CANCELLED",
                                        trust |-> "none", handoff |-> "none"]]
          /\ store' = run'[e]
    BY <1>3 DEF CancelEnd, Update
  <2>2. pc' = pc /\ capsule' = capsule /\ process' = process /\ result' = result
    BY <1>3 DEF CancelEnd
  <2>3. store'.state = "CANCELLED" /\ store'.handoff = "none"  BY <2>1 DEF TypeOK
  <2>4. \A d \in Executions : Fit(pc[d], run[d], result[d])'
    BY <2>1, <2>2 DEF IInv, Fit, TypeOK
  <2> QED BY <2>2, <2>3, <2>4 DEF IInv, CapsuleFirst, AuthorityMatchesState, PausedHasCapsule
<1>4. CASE Crash
  <2>1. \A e \in Executions : pc'[e] \in {"unused", "done"}  BY <1>4 DEF Crash
  <2>2. process' # "capsule saved"  BY <1>4 DEF Crash
  <2> QED BY <1>4, <2>1, <2>2
       DEF Crash, IInv, Fit, Working, CapsuleFirst, AuthorityMatchesState, PausedHasCapsule
<1>5. CASE ReconcileCapsule
  BY <1>5 DEF ReconcileCapsule, IInv, Fit, CapsuleFirst, AuthorityMatchesState, PausedHasCapsule
<1>6. CASE ReconcileRun
  BY <1>6 DEF ReconcileRun, IInv, Fit, CapsuleFirst, AuthorityMatchesState, PausedHasCapsule
<1>7. CASE ReconcileNothing
  BY <1>7 DEF ReconcileNothing, IInv, Fit, CapsuleFirst, AuthorityMatchesState, PausedHasCapsule
<1>8. CASE UNCHANGED vars
  BY <1>8 DEF vars, IInv, Fit, CapsuleFirst, AuthorityMatchesState, PausedHasCapsule
<1> QED BY <1>1, <1>2, <1>3, <1>4, <1>5, <1>6, <1>7, <1>8 DEF Next

\* IInv holds in every behaviour of the specification.
THEOREM InvariantHolds == Spec => []IInv
<1>1. Init => IInv
  BY PolicyAssumption DEF Init, IInv, AuthorityMatchesState, PausedHasCapsule, Fit,
     CapsuleFirst, Created, Executions, Working
<1> QED BY <1>1, TypeCorrect, InvariantStep, PTL DEF Spec

\* Authority matches the recorded state of the run, however its executions, the
\* cancels, the resumes and the crashes interleave.
THEOREM AuthorityHolds == Spec => []AuthorityMatchesState
<1>1. IInv => AuthorityMatchesState  BY DEF IInv
<1> QED BY <1>1, InvariantHolds, PTL

\* A run recorded as paused has a recovery capsule, wherever the process died.
THEOREM CapsuleHolds == Spec => []PausedHasCapsule
<1>1. IInv => PausedHasCapsule  BY DEF IInv
<1> QED BY <1>1, InvariantHolds, PTL

-----------------------------------------------------------------------------
(* Nothing in flight is orphaned. *)

\* The steps of an execution that still has to write its outcome.
Unsettled == {"admitting", "resumed", "caught", "capturing", "pausing"} \union Working

\* A run in flight has an execution that owes it an outcome, or was rejected.
Attended ==
  process = "serving" /\ store.state \in {"RUNNING", "QUEUED"} =>
    \E e \in Executions : pc[e] \in Unsettled \union {"rejected"}

\* An execution that no longer owes an outcome has recorded one, or found one.
LEMMA SettledStep ==
  ASSUME TypeOK, NEW e \in Executions, Body(e) \/ Admission(e)
  PROVE  \/ store'.state \notin {"RUNNING", "QUEUED"}
         \/ pc'[e] \in Unsettled \union {"rejected"}
         \/ store' = store /\ pc[e] \notin Unsettled \union {"rejected"}
<1>0. /\ store \in Records /\ run \in [Executions -> Records] /\ run[e] \in Records
      /\ pc \in [Executions -> Steps]
  BY DEF TypeOK
<1> USE <1>0 DEF Records, Unsettled, Working
<1>1. CASE Body(e)
  <2>1. CASE Decide(e)  BY <2>1 DEF Decide, At, Update, Outcome
  <2>2. CASE Pause(e) \/ CaptureFails(e)  BY <2>2 DEF Pause, CaptureFails, At, Update
  <2>3. CASE ~Decide(e) /\ ~Pause(e) /\ ~CaptureFails(e)
    BY <1>1, <2>3 DEF Body, At, others, Assess,
       Setup, SessionEnds, SessionCancelled, SessionRetried, BodyFails, Repair, Rejected,
       Verified, AssessUnreviewed, BeginReview, ReviewEnds, AssuranceCancelled,
       DecideFails, DecideCancelled, Record, RecordFails, CatchCancelled, Catch, Capture,
       Announce, Cleanup
  <2> QED BY <2>1, <2>2, <2>3
<1>2. CASE Admission(e)
  BY <1>2 DEF Admission, At, Update, others,
     Start, StartStopped, StartFails, Resume, ResumeRefused, ResumeAccepted
<1> QED BY <1>1, <1>2

\* Every step leaves a run in flight attended.
LEMMA AttendedStep == TypeOK /\ Attended /\ [Next]_vars => Attended'
<1> SUFFICES ASSUME TypeOK, Attended, [Next]_vars PROVE Attended'
  OBVIOUS
<1>1. ASSUME NEW e \in Executions, Body(e) \/ Admission(e) PROVE Attended'
  <2>1. process' = process  BY <1>1, CapsuleStays
  <2>2. \A d \in Executions : d # e => pc'[d] = pc[d]  BY <1>1, OthersStay
  <2> QED BY <1>1, <2>1, <2>2, SettledStep DEF Attended
<1>2. CASE CancelBegin  BY <1>2 DEF CancelBegin, Attended
<1>3. CASE CancelEnd
  <2>0. PICK e \in Executions :
          /\ run' = [run EXCEPT ![e] = [state |-> "CANCELLED", verification |-> "CANCELLED",
                                        trust |-> "none", handoff |-> "none"]]
          /\ store' = run'[e]
    BY <1>3 DEF CancelEnd, Update
  <2>1. store'.state = "CANCELLED"  BY <2>0 DEF TypeOK
  <2> QED BY <2>1 DEF Attended
<1>4. CASE Crash  BY <1>4 DEF Crash, Attended
<1>5. CASE ReconcileCapsule  BY <1>5 DEF ReconcileCapsule, Attended
<1>6. CASE ReconcileRun
  <2>1. store'.state = "PAUSED"  BY <1>6 DEF ReconcileRun
  <2> QED BY <2>1 DEF Attended
<1>7. CASE ReconcileNothing
  <2>1. store'.state \notin {"RUNNING", "QUEUED"}  BY <1>7 DEF ReconcileNothing, Interrupted
  <2> QED BY <2>1 DEF Attended
<1>8. CASE UNCHANGED vars  BY <1>8 DEF vars, Attended
<1> QED BY <1>1, <1>2, <1>3, <1>4, <1>5, <1>6, <1>7, <1>8 DEF Next

\* A run recorded as in flight by a serving process has an execution behind it, or
\* was rejected at the door: no end of an execution, cancel, early resume or
\* restart orphans it.
THEOREM NoOrphanHolds == Spec => []NoOrphan
<1>1. ASSUME Init PROVE Attended
  <2>1. 1 \in Executions  BY PolicyAssumption DEF Executions
  <2>2. pc[1] = "admitting"  BY <1>1, <2>1 DEF Init
  <2> QED BY <2>1, <2>2 DEF Attended, Unsettled
<1>2. Attended => NoOrphan
  BY DEF Attended, NoOrphan, Busy, Unsettled, Working, Idle
<1> QED BY <1>1, <1>2, TypeCorrect, AttendedStep, PTL DEF Spec

-----------------------------------------------------------------------------
(* While resume is called on idle runs only (EagerResume = FALSE, the hypothesis of every theorem *)
(* from here on) there is one execution at a time, so that the store, the live object and the     *)
(* active entry speak of the same one.  RunEagerResume shows what fails without.                  *)

\* The steps at which an execution has its entry in the active map.
Inside == Working \union
  {"recording", "caught", "capturing", "pausing", "paused", "cleanup"}

\* At most one execution is under way, it owns the active entry from Start to
\* Cleanup, and a cancel in progress can only be ending that one.
OneAtATime ==
  /\ \A d, e \in Executions : pc[d] \notin Idle /\ pc[e] \notin Idle => d = e
  /\ \A e \in Executions : pc[e] \in Inside <=> active = e
  /\ \A e \in Executions : canceller = e =>
       /\ entry[e].cancelled /\ pc[e] \in Inside \union {"done"}
       /\ store.state # "COMPLETED"
       /\ \A d \in Executions : pc[d] \notin Idle => d = e

\* Nothing executes and nobody cancels before reconciliation is through.
DownIsQuiet ==
  /\ process # "serving" =>
       canceller = NoEntry /\ \A e \in Executions : pc[e] \in Idle
  /\ process = "capsule saved" =>
       Interrupted /\ capsule.reason = "PROCESS_RESTART"

\* The allowance an execution, or the next resume, works with counts every retry.
Carried ==
  /\ \A e \in Executions : pc[e] \notin Idle => retries <= entry[e].used
  /\ \A e \in Executions : pc[e] = "pausing" => retries <= capsule.used
  /\ store.state = "PAUSED" /\ capsule.reason = "FAILURE" => retries <= capsule.used

\* What the store says of an execution that stands at step p with live object r,
\* verification result v and cancel flag c.
Recorded(p, r, v, c) ==
  /\ p \in {"admitting", "resuming", "resumed"} =>
       store = r /\ r.trust = "none" /\ r.handoff = "none"
  /\ p = "admitting" => r.state = "QUEUED"
  /\ p = "resuming" => r.state = "PAUSED"
  /\ p = "resumed" => r.state = "RUNNING"
  /\ p \in Working =>
       /\ p # "deciding" \/ v = "VERIFIED" => store = r
       /\ store.state = r.state /\ r.state \in {"RUNNING", "CANCELLED"}
       /\ c \/ r.state = "RUNNING"
  /\ p \in {"assuring", "reviewing"} => v = "VERIFIED"
  /\ p = "deciding" =>
       /\ v \in {"VERIFIED", "QUARANTINED", "NOT_CHECKED", "CANCELLED"}
       /\ c \/ v = "VERIFIED" \/ r.trust = "PROPOSED"
  /\ p = "recording" => store.state \in {"COMPLETED", "FAILED", "CANCELLED"}
  /\ p \in {"caught", "capturing", "pausing"} => store.state \notin {"QUEUED", "PAUSED"}
  /\ p \in {"paused", "cleanup"} => store.state \notin {"QUEUED", "RUNNING"}
  /\ p \in {"capturing", "pausing", "paused"} =>
       r.verification \in {"FAILED", "QUARANTINED", "CANCELLED"}
  /\ p \in Inside /\ store.state = "COMPLETED" => r.state = "COMPLETED"

IdleInv ==
  /\ OneAtATime /\ DownIsQuiet /\ Carried
  /\ NeverResurrected /\ RecoveryBounded
  /\ \A e \in Executions : Recorded(pc[e], run[e], result[e], entry[e].cancelled)

-----------------------------------------------------------------------------
(* What a step of one execution may change. *)

\* An execution moves only while it is under way, unless it is being resumed; its
\* entry is in the active map exactly while it is inside, and Cleanup or an
\* emergency stop takes it out.
LEMMA EntryStep ==
  ASSUME TypeOK, NEW e \in Executions, Body(e) \/ Admission(e)
  PROVE  /\ canceller' = canceller /\ process' = process
         /\ pc[e] \in Idle => Resume(e)
         /\ pc[e] \in Inside =>
              \/ pc'[e] \in Inside /\ active' = active
              \/ pc'[e] = "done" /\ active' = NoEntry
         /\ pc[e] \notin Inside =>
              \/ pc'[e] \in Inside /\ active' = e
              \/ pc'[e] \notin Inside /\ (active' = active \/ active' = NoEntry)
<1> USE DEF TypeOK, Inside, Working, Idle
<1>1. CASE Body(e)
  BY <1>1 DEF Body, At, others, Assess,
     Setup, SessionEnds, SessionCancelled, SessionRetried, BodyFails, Repair, Rejected,
     Verified, AssessUnreviewed, BeginReview, ReviewEnds, AssuranceCancelled, Decide,
     DecideFails, DecideCancelled, Record, RecordFails, CatchCancelled, Catch, Capture,
     Pause, Announce, CaptureFails, Cleanup
<1>2. CASE Admission(e)
  BY <1>2 DEF Admission, At, others,
     Start, StartStopped, StartFails, Resume, ResumeRefused, ResumeAccepted
<1> QED BY <1>1, <1>2

\* While resumes wait for an idle run, no other execution is under way when one
\* takes a step.
LEMMA OthersIdle ==
  ASSUME ~EagerResume, TypeOK, OneAtATime, NEW e \in Executions, Body(e) \/ Admission(e),
         NEW d \in Executions, d # e
  PROVE  pc[d] \in Idle /\ pc'[d] = pc[d]
<1>1. pc'[d] = pc[d]  BY OthersStay
<1>2. CASE pc[e] \notin Idle  BY <1>1, <1>2 DEF OneAtATime
<1>3. CASE pc[e] \in Idle
  <2>1. Resume(e)  BY <1>3, EntryStep
  <2>2. Busy = {}  BY <2>1 DEF Resume
  <2> QED BY <1>1, <2>2 DEF Busy
<1> QED BY <1>2, <1>3

\* The flag of a run is the flag of the execution that works on it.
LEMMA FlagIsOwn ==
  ASSUME OneAtATime, NEW e \in Executions, pc[e] \in Inside
  PROVE  active = e /\ (Cancelled <=> entry[e].cancelled)
<1>1. active = e  BY DEF OneAtATime
<1>2. e # NoEntry  BY PolicyAssumption DEF Executions, NoEntry
<1> QED BY <1>1, <1>2 DEF Cancelled

\* A step of an execution cancels no entry but its own, and that only when an
\* emergency stop keeps it from starting.
LEMMA FlagStep ==
  ASSUME TypeOK, NEW e \in Executions, Body(e) \/ Admission(e), NEW d \in Executions
  PROVE  \/ entry'[d].cancelled = entry[d].cancelled
         \/ d = e /\ StartStopped(e)
<1>0. entry \in [Executions -> [cancelled : BOOLEAN, used : 0..MaxRecovery]]
  BY DEF TypeOK
<1>1. CASE SessionRetried(e)
  <2>1. PICK a \in Executions : entry' = [entry EXCEPT ![a].used = @ + 1]
    BY <1>1 DEF SessionRetried
  <2> QED BY <1>0, <2>1
<1>2. CASE Resume(e)  BY <1>0, <1>2 DEF Resume
<1>3. CASE StartStopped(e)  BY <1>0, <1>3 DEF StartStopped
<1>4. CASE Body(e) /\ ~SessionRetried(e)
  BY <1>4 DEF Body, others, Assess,
     Setup, SessionEnds, SessionCancelled, BodyFails, Repair, Rejected, Verified,
     AssessUnreviewed, BeginReview, ReviewEnds, AssuranceCancelled, Decide, DecideFails,
     DecideCancelled, Record, RecordFails, CatchCancelled, Catch, Capture, Pause,
     Announce, CaptureFails, Cleanup
<1>5. CASE Admission(e) /\ ~Resume(e) /\ ~StartStopped(e)
  BY <1>5 DEF Admission, others, Start, StartFails, ResumeRefused, ResumeAccepted
<1> QED BY <1>1, <1>2, <1>3, <1>4, <1>5

-----------------------------------------------------------------------------
(* The invariant is inductive. *)

\* Every step of an execution leaves the store in step with where it stands.
LEMMA RecordedStep ==
  ASSUME TypeOK, IInv, IdleInv, ~EagerResume,
         NEW e \in Executions, Body(e) \/ Admission(e)
  PROVE  Recorded(pc[e], run[e], result[e], entry[e].cancelled)'
<1>0. /\ store \in Records /\ run \in [Executions -> Records] /\ run[e] \in Records
      /\ pc \in [Executions -> Steps] /\ result \in [Executions -> VerificationStates]
      /\ Fit(pc[e], run[e], result[e])
      /\ Recorded(pc[e], run[e], result[e], entry[e].cancelled)
      /\ pc[e] \in Inside => active = e /\ (Cancelled <=> entry[e].cancelled)
  BY FlagIsOwn DEF TypeOK, IInv, IdleInv
<1>1. ~StartStopped(e) => entry'[e].cancelled = entry[e].cancelled
  BY FlagStep
<1>2. CASE Body(e)
  <2>0. ~StartStopped(e) /\ entry'[e].cancelled = entry[e].cancelled
    <3>1. pc[e] \notin {"admitting", "resumed"}
      BY <1>2 DEF Body, At, Setup, SessionEnds, SessionCancelled, SessionRetried,
         BodyFails, Repair, Rejected, Verified, AssessUnreviewed, BeginReview, ReviewEnds,
         AssuranceCancelled, Decide, DecideFails, DecideCancelled, Record, RecordFails,
         CatchCancelled, Catch, Capture, Pause, Announce, CaptureFails, Cleanup
    <3> QED BY <1>1, <3>1 DEF StartStopped
  <2> USE <1>0, <2>0 DEF Recorded, Fit, Working, Inside, Records
  <2>1. CASE Setup(e)  BY <2>1 DEF Setup, At, Update, others
  <2>2. CASE SessionEnds(e)  BY <2>2 DEF SessionEnds, At, Update, others
  <2>3. CASE SessionCancelled(e)  BY <2>3 DEF SessionCancelled, At, others
  <2>4. CASE SessionRetried(e)  BY <2>4 DEF SessionRetried
  <2>5. CASE BodyFails(e)  BY <2>5 DEF BodyFails, others
  <2>6. CASE Repair(e)  BY <2>6 DEF Repair, At, Update
  <2>7. CASE Rejected(e)  BY <2>7 DEF Rejected, At
  <2>8. CASE Verified(e)  BY <2>8 DEF Verified, At
  <2>9. CASE AssessUnreviewed(e)  BY <2>9 DEF AssessUnreviewed, At, Assess, Update, others
  <2>10. CASE BeginReview(e)  BY <2>10 DEF BeginReview, At, others
  <2>11. CASE ReviewEnds(e)  BY <2>11 DEF ReviewEnds, At, Assess, Update, others
  <2>12. CASE AssuranceCancelled(e)  BY <2>12 DEF AssuranceCancelled, others
  <2>13. CASE Decide(e)  BY <2>13 DEF Decide, At, Update, Outcome, others
  <2>14. CASE DecideFails(e)  BY <2>14 DEF DecideFails, At, Outcome, others
  <2>15. CASE DecideCancelled(e)  BY <2>15 DEF DecideCancelled, At, others
  <2>16. CASE Record(e)  BY <2>16 DEF Record, At, others
  <2>17. CASE RecordFails(e)  BY <2>17 DEF RecordFails, At, others
  <2>18. CASE CatchCancelled(e)  BY <2>18 DEF CatchCancelled, At, others
  <2>19. CASE Catch(e)  BY <2>19 DEF Catch, At, others
  <2>20. CASE Capture(e)  BY <2>20 DEF Capture, At
  <2>21. CASE Pause(e)  BY <2>21 DEF Pause, At, Update, others
  <2>22. CASE Announce(e)  BY <2>22 DEF Announce, At, others
  <2>23. CASE CaptureFails(e)  BY <2>23 DEF CaptureFails, Update, others
  <2>24. CASE Cleanup(e)  BY <2>24 DEF Cleanup, At
  <2> QED
    BY <1>2, <2>1, <2>2, <2>3, <2>4, <2>5, <2>6, <2>7, <2>8, <2>9, <2>10, <2>11, <2>12,
       <2>13, <2>14, <2>15, <2>16, <2>17, <2>18, <2>19, <2>20, <2>21, <2>22, <2>23, <2>24
       DEF Body
<1>3. CASE Admission(e)
  <2> USE <1>0 DEF Recorded, Working, Inside, Records
  <2>1. CASE Start(e)  BY <2>1 DEF Start, Update
  <2>2. CASE StartStopped(e)  BY <2>2 DEF StartStopped
  <2>3. CASE StartFails(e)  BY <2>3 DEF StartFails, others
  <2>4. CASE Resume(e)  BY <2>4 DEF Resume, At, IInv, AuthorityMatchesState
  <2>5. CASE ResumeRefused(e)  BY <2>5 DEF ResumeRefused, At, others
  <2>6. CASE ResumeAccepted(e)  BY <2>6 DEF ResumeAccepted, At, Update, others
  <2> QED BY <1>3, <2>1, <2>2, <2>3, <2>4, <2>5, <2>6 DEF Admission
<1> QED BY <1>2, <1>3

\* An execution's outcome is COMPLETED only because Decide, or a handoff that cannot be
\* built, saw the flag of the run unset.
LEMMA OutcomeStep ==
  ASSUME TypeOK, IInv, IdleInv, NEW e \in Executions, Body(e) \/ Admission(e)
  PROVE  /\ run'[e].state = "COMPLETED" =>
              run[e].state = "COMPLETED" \/ (pc[e] = "deciding" /\ ~Cancelled)
         /\ store'.state = "COMPLETED" =>
              store.state = "COMPLETED" \/ (pc[e] = "deciding" /\ ~Cancelled)
<1>0. /\ store \in Records /\ run \in [Executions -> Records] /\ run[e] \in Records
      /\ pc \in [Executions -> Steps]
      /\ Fit(pc[e], run[e], result[e])
      /\ Recorded(pc[e], run[e], result[e], entry[e].cancelled)
  BY DEF TypeOK, IInv, IdleInv
<1>1. CASE Body(e)
  BY <1>0, <1>1 DEF Body, At, Update, others, Assess, Records, Fit, Recorded, Working, Idle,
     Setup, SessionEnds, SessionCancelled, SessionRetried, BodyFails, Repair, Rejected,
     Verified, AssessUnreviewed, BeginReview, ReviewEnds, AssuranceCancelled, Decide,
     DecideFails, DecideCancelled, Record, RecordFails, CatchCancelled, Catch, Capture,
     Pause, Announce, CaptureFails, Cleanup
<1>2. CASE Admission(e)
  BY <1>0, <1>2 DEF Admission, At, Update, others, Records, Recorded, Working, Idle,
     Start, StartStopped, StartFails, Resume, ResumeRefused, ResumeAccepted
<1> QED BY <1>1, <1>2

\* The allowance follows the retries through every step of an execution.
LEMMA CarriedStep ==
  ASSUME TypeOK, IInv, IdleInv, ~EagerResume,
         NEW e \in Executions, Body(e) \/ Admission(e)
  PROVE  Carried' /\ RecoveryBounded'
<1>0. /\ entry \in [Executions -> [cancelled : BOOLEAN, used : 0..MaxRecovery]]
      /\ pc \in [Executions -> Steps] /\ retries \in Nat /\ MaxRecovery \in Nat
      /\ entry[e].used \in 0..MaxRecovery /\ capsule.used \in 0..MaxRecovery
      /\ Carried /\ RecoveryBounded
      /\ Recorded(pc[e], run[e], result[e], entry[e].cancelled)
      /\ pc[e] \in Inside => active = e
      /\ \A d \in Executions : d # e => pc[d] \in Idle /\ pc'[d] = pc[d]
  BY PolicyAssumption, FlagIsOwn, OthersIdle DEF TypeOK, IdleInv
<1>1. store'.state = "PAUSED" => store.state = "PAUSED" \/ pc[e] = "pausing"
  BY StoreStep
<1>2. CASE SessionRetried(e)
  <2>1. pc'[e] = "session" /\ pc[e] = "session" /\ active = e /\ capsule' = capsule
        /\ store' = store /\ retries' = retries + 1 /\ pc' = pc
    BY <1>0, <1>2 DEF SessionRetried, Inside, Working
  <2>2. entry[e].used < MaxRecovery /\ entry'[e].used = entry[e].used + 1
    BY <1>0, <1>2, <2>1 DEF SessionRetried
  <2>3. store.state # "PAUSED"  BY <1>0, <2>1 DEF Recorded, Working
  <2>4. retries <= entry[e].used  BY <1>0, <2>1 DEF Carried, Idle
  <2>5. retries' <= entry'[e].used /\ retries' <= MaxRecovery  BY <1>0, <2>1, <2>2, <2>4
  <2> QED BY <1>0, <2>1, <2>3, <2>5 DEF Carried, RecoveryBounded, Idle
<1>3. CASE Capture(e)
  <2>1. /\ pc[e] = "capturing" /\ pc'[e] = "pausing" /\ active = e
        /\ retries' = retries /\ entry' = entry /\ store' = store
    BY <1>0, <1>3 DEF Capture, At, Inside
  <2>2. capsule'.used = entry[e].used  BY <1>3, <2>1 DEF Capture
  <2>3. store.state # "PAUSED"  BY <1>0, <2>1 DEF Recorded
  <2>4. retries <= entry[e].used  BY <1>0, <2>1 DEF Carried, Idle
  <2> QED BY <1>0, <2>1, <2>2, <2>3, <2>4 DEF Carried, RecoveryBounded, Idle
<1>4. CASE Resume(e)
  <2>1. /\ pc'[e] = "resuming" /\ store' = store /\ capsule' = capsule
        /\ retries' = retries /\ entry'[e].used = capsule.used
    BY <1>0, <1>4 DEF Resume, At
  <2>2. retries <= capsule.used  BY <1>0, <1>4 DEF Resume, Carried
  <2> QED BY <1>0, <2>1, <2>2 DEF Carried, RecoveryBounded, Idle
<1>5. CASE ~SessionRetried(e) /\ ~Capture(e) /\ ~Resume(e)
  <2>1. /\ retries' = retries /\ capsule' = capsule /\ entry'[e].used = entry[e].used
        /\ pc'[e] # "pausing" /\ pc[e] \notin Idle
    <3>1. CASE Body(e)
      BY <1>0, <1>5, <3>1 DEF Body, At, Update, others, Assess, Idle,
         Setup, SessionEnds, SessionCancelled, BodyFails, Repair, Rejected,
     Verified, AssessUnreviewed, BeginReview, ReviewEnds, AssuranceCancelled, Decide,
     DecideFails, DecideCancelled, Record, RecordFails, CatchCancelled, Catch,
     Pause, Announce, CaptureFails, Cleanup
    <3>2. CASE Admission(e)
      BY <1>0, <1>5, <3>2 DEF Admission, At, others, Idle,
         Start, StartStopped, StartFails, ResumeRefused, ResumeAccepted
    <3> QED BY <3>1, <3>2
  <2>2. retries <= entry[e].used  BY <1>0, <2>1 DEF Carried
  <2> QED BY <1>0, <1>1, <2>1, <2>2 DEF Carried, RecoveryBounded, Idle
<1> QED BY <1>2, <1>3, <1>4, <1>5

\* One execution at a time stays one, and its entry and a cancel stay with it.
LEMMA OneAtATimeStep ==
  ASSUME TypeOK, IInv, IdleInv, ~EagerResume,
         NEW e \in Executions, Body(e) \/ Admission(e)
  PROVE  OneAtATime' /\ DownIsQuiet'
<1>0. \A d \in Executions : d # e => pc[d] \in Idle /\ pc'[d] = pc[d]
  BY OthersIdle DEF IdleInv
<1>1. /\ canceller' = canceller /\ process' = process
      /\ pc[e] \in Idle => Resume(e)
      /\ OneAtATime
  BY EntryStep DEF IdleInv
<1>2. \A d, c \in Executions : pc'[d] \notin Idle /\ pc'[c] \notin Idle => d = c
  BY <1>0
<1>3. ASSUME NEW d \in Executions PROVE pc'[d] \in Inside <=> active' = d
  <2>0. d # NoEntry /\ e # NoEntry /\ (pc[d] \in Inside <=> active = d)
        /\ (pc[e] \in Inside <=> active = e)
    BY <1>1, PolicyAssumption DEF Executions, NoEntry, OneAtATime
  <2>1. CASE d = e  BY <2>0, <2>1, EntryStep DEF Inside, Working
  <2>2. CASE d # e
    <3>1. pc'[d] \notin Inside /\ active # d  BY <1>0, <2>0, <2>2 DEF Idle, Inside, Working
    <3>2. active' # d  BY <2>0, <2>2, <3>1, EntryStep
    <3> QED BY <3>1, <3>2
  <2> QED BY <2>1, <2>2
<1>4. ASSUME NEW c \in Executions, canceller' = c
      PROVE  /\ entry'[c].cancelled /\ store'.state # "COMPLETED"
             /\ pc'[c] \in Inside \union {"done"}
             /\ \A d \in Executions : pc'[d] \notin Idle => d = c
  <2>1. canceller = c /\ entry[c].cancelled /\ store.state # "COMPLETED"
    BY <1>1, <1>4 DEF OneAtATime
  <2>2. c # NoEntry  BY PolicyAssumption DEF Executions, NoEntry
  <2>3. pc[e] \notin Idle  BY <1>1, <2>1, <2>2 DEF Resume
  <2>4. c = e  BY <1>1, <2>1, <2>3 DEF OneAtATime
  <2>5. entry'[c].cancelled
    <3>1. CASE StartStopped(e)  BY <3>1, <2>4 DEF StartStopped, TypeOK
    <3>2. CASE ~StartStopped(e)  BY <3>2, <2>1, FlagStep
    <3> QED BY <3>1, <3>2
  <2>6. pc[e] \in Inside => Cancelled  BY <1>1, <2>1, <2>4, FlagIsOwn
  <2>7. store'.state # "COMPLETED"  BY <2>1, <2>6, OutcomeStep DEF Inside, Working
  <2>8. pc[e] \in Inside  BY <1>1, <2>1, <2>3, <2>4 DEF OneAtATime, Idle
  <2>9. pc'[e] \in Inside \union {"done"}  BY <2>8, EntryStep
  <2> QED BY <1>0, <2>4, <2>5, <2>7, <2>9
<1>5. process = "serving"
  <2>1. CASE pc[e] \in Idle  BY <1>1, <2>1 DEF Resume
  <2>2. CASE pc[e] \notin Idle  BY <2>2 DEF IdleInv, DownIsQuiet
  <2> QED BY <2>1, <2>2
<1>6. DownIsQuiet'  BY <1>1, <1>5 DEF DownIsQuiet
<1> QED BY <1>2, <1>3, <1>4, <1>6 DEF OneAtATime

\* Every step of an execution preserves the invariant of idle resumes.
LEMMA ExecutionStep ==
  ASSUME TypeOK, IInv, IdleInv, ~EagerResume,
         NEW e \in Executions, Body(e) \/ Admission(e)
  PROVE  IdleInv'
<1>0. \A d \in Executions : d # e =>
        pc[d] \in Idle /\ pc'[d] = pc[d] /\ run'[d] = run[d]
  BY OthersIdle, OthersStay DEF IdleInv
<1>1. OneAtATime' /\ DownIsQuiet' /\ Carried' /\ RecoveryBounded'
  BY OneAtATimeStep, CarriedStep
<1>2. \A d \in Executions : Recorded(pc[d], run[d], result[d], entry[d].cancelled)'
  <2> TAKE d \in Executions
  <2>1. CASE d = e  BY <2>1, RecordedStep
  <2>2. CASE d # e
    <3>1. pc'[d] \in Idle  BY <1>0, <2>2
    <3> QED BY <3>1 DEF Idle, Recorded, Working, Inside
  <2> QED BY <2>1, <2>2
<1>3. NeverResurrected'
  <2> SUFFICES ASSUME NEW d \in Executions, entry'[d].cancelled
               PROVE  run'[d].state # "COMPLETED"
    BY DEF NeverResurrected
  <2>1. CASE d # e
    <3>1. entry[d].cancelled  BY <2>1, FlagStep
    <3> QED BY <1>0, <2>1, <3>1 DEF IdleInv, NeverResurrected
  <2>2. CASE StartStopped(e) /\ d = e  BY <2>2 DEF StartStopped, TypeOK
  <2>3. CASE ~StartStopped(e) /\ d = e
    <3>1. entry[e].cancelled  BY <2>3, FlagStep
    <3>2. run[e].state # "COMPLETED"  BY <3>1 DEF IdleInv, NeverResurrected
    <3>3. pc[e] = "deciding" => Cancelled
      BY <3>1, FlagIsOwn DEF IdleInv, Inside, Working
    <3> QED BY <2>3, <3>2, <3>3, OutcomeStep
  <2> QED BY <2>1, <2>2, <2>3
<1> QED BY <1>1, <1>2, <1>3 DEF IdleInv

\* So does every step of cancel, of a crash and of reconciliation.
LEMMA IdleStep ==
  ASSUME TypeOK, IInv, IdleInv, ~EagerResume, [Next]_vars PROVE IdleInv'
<1>0. \A e \in Executions : e # NoEntry  BY PolicyAssumption DEF Executions, NoEntry
<1>1. ASSUME NEW e \in Executions, Body(e) \/ Admission(e) PROVE IdleInv'
  BY <1>1, ExecutionStep
<1>2. CASE CancelBegin
  <2>1. PICK e \in Executions :
          /\ active = e /\ run[e].state \notin {"COMPLETED", "FAILED"}
          /\ entry' = [entry EXCEPT ![e].cancelled = TRUE] /\ canceller' = e
    BY <1>2 DEF CancelBegin
  <2>2. /\ store' = store /\ capsule' = capsule /\ run' = run /\ pc' = pc
        /\ result' = result /\ active' = active /\ process' = process
        /\ retries' = retries /\ process = "serving"
    BY <1>2 DEF CancelBegin
  <2>3. /\ entry'[e].cancelled
        /\ \A d \in Executions : /\ entry'[d].used = entry[d].used
                                 /\ d # e => entry'[d].cancelled = entry[d].cancelled
    BY <2>1 DEF TypeOK
  <2>4. pc[e] \in Inside  BY <2>1 DEF IdleInv, OneAtATime
  <2>5. store.state # "COMPLETED"  BY <2>1, <2>4 DEF IdleInv, Recorded
  <2>6. \A d \in Executions : pc[d] \notin Idle => d = e
    BY <2>4 DEF IdleInv, OneAtATime, Inside, Working, Idle
  <2>7. OneAtATime'
    BY <2>1, <2>2, <2>3, <2>4, <2>5, <2>6 DEF IdleInv, OneAtATime
  <2>8. DownIsQuiet' /\ Carried' /\ RecoveryBounded'
    BY <2>2, <2>3 DEF IdleInv, DownIsQuiet, Carried, RecoveryBounded
  <2>9. NeverResurrected'  BY <2>1, <2>2, <2>3 DEF IdleInv, NeverResurrected
  <2>10. \A d \in Executions : Recorded(pc[d], run[d], result[d], entry[d].cancelled)'
    BY <2>2, <2>3 DEF IdleInv, Recorded
  <2> QED BY <2>7, <2>8, <2>9, <2>10 DEF IdleInv
<1>3. CASE CancelEnd
  <2>1. PICK e \in Executions :
          /\ canceller = e /\ store' = run'[e]
          /\ run' = [run EXCEPT ![e] = [state |-> "CANCELLED", verification |-> "CANCELLED",
                                        trust |-> "none", handoff |-> "none"]]
    BY <1>3 DEF CancelEnd, Update
  <2>2. /\ capsule' = capsule /\ pc' = pc /\ result' = result /\ active' = active
        /\ entry' = entry /\ process' = process /\ retries' = retries /\ canceller' = NoEntry
    BY <1>3 DEF CancelEnd
  <2>3. /\ run'[e] = [state |-> "CANCELLED", verification |-> "CANCELLED",
                      trust |-> "none", handoff |-> "none"]
        /\ \A d \in Executions : d # e => run'[d] = run[d] /\ pc[d] \in Idle
    BY <2>1 DEF TypeOK, IdleInv, OneAtATime
  <2>4. entry[e].cancelled /\ pc[e] \in Inside \union {"done"}
    BY <2>1 DEF IdleInv, OneAtATime
  <2>5. OneAtATime' /\ DownIsQuiet'
    BY <1>0, <2>1, <2>2 DEF IdleInv, OneAtATime, DownIsQuiet
  <2>6. Carried' /\ RecoveryBounded' /\ NeverResurrected'
    BY <2>1, <2>2, <2>3 DEF IdleInv, Carried, RecoveryBounded, NeverResurrected
  <2>7. \A d \in Executions : Recorded(pc[d], run[d], result[d], entry[d].cancelled)'
    BY <2>1, <2>2, <2>3, <2>4 DEF IdleInv, Recorded, Working, Inside, Idle
  <2> QED BY <2>5, <2>6, <2>7 DEF IdleInv
<1>4. CASE Crash
  <2>1. /\ \A e \in Executions : pc'[e] \in Idle /\ pc'[e] # "rejected"
        /\ active' = NoEntry /\ canceller' = NoEntry /\ process' = "reconciling"
        /\ store' = store /\ capsule' = capsule /\ run' = run /\ result' = result
        /\ entry' = entry /\ retries' = retries
    BY <1>4 DEF Crash, Idle
  <2>2. OneAtATime' /\ DownIsQuiet'
    BY <1>0, <2>1 DEF OneAtATime, DownIsQuiet, Idle, Inside, Working
  <2>3. Carried' /\ RecoveryBounded' /\ NeverResurrected'
    BY <2>1 DEF IdleInv, Carried, RecoveryBounded, NeverResurrected, Idle
  <2>4. \A e \in Executions : Recorded(pc[e], run[e], result[e], entry[e].cancelled)'
    BY <2>1 DEF Recorded, Idle, Inside, Working
  <2> QED BY <2>2, <2>3, <2>4 DEF IdleInv
<1>5. CASE ReconcileCapsule \/ ReconcileRun \/ ReconcileNothing
  <2>1. /\ run' = run /\ pc' = pc /\ result' = result /\ active' = active
        /\ entry' = entry /\ canceller' = canceller /\ retries' = retries
        /\ process # "serving"
    BY <1>5 DEF ReconcileCapsule, ReconcileRun, ReconcileNothing
  <2>2. canceller = NoEntry /\ \A e \in Executions : pc[e] \in Idle
    BY <2>1 DEF IdleInv, DownIsQuiet
  <2>3. OneAtATime'  BY <1>0, <2>1, <2>2 DEF IdleInv, OneAtATime
  <2>4. DownIsQuiet' /\ Carried'
    <3>1. CASE ReconcileCapsule
      <4>1. /\ store' = store /\ Interrupted /\ process' = "capsule saved"
            /\ capsule'.reason = "PROCESS_RESTART"
        BY <3>1 DEF ReconcileCapsule
      <4> QED BY <2>1, <2>2, <4>1 DEF DownIsQuiet, Carried, Interrupted, Idle
    <3>2. CASE ReconcileRun
      <4>1. /\ store'.state = "PAUSED" /\ capsule' = capsule /\ process' = "serving"
            /\ capsule.reason = "PROCESS_RESTART"
        BY <3>2 DEF ReconcileRun, IdleInv, DownIsQuiet
      <4> QED BY <2>1, <2>2, <4>1 DEF DownIsQuiet, Carried, Idle
    <3>3. CASE ReconcileNothing
      <4>1. store' = store /\ capsule' = capsule /\ process' = "serving" /\ ~Interrupted
        BY <3>3 DEF ReconcileNothing
      <4> QED
        BY <2>1, <2>2, <4>1 DEF IdleInv, DownIsQuiet, Carried, Interrupted, Idle
    <3> QED BY <1>5, <3>1, <3>2, <3>3
  <2>5. RecoveryBounded' /\ NeverResurrected'
    BY <2>1 DEF IdleInv, RecoveryBounded, NeverResurrected
  <2>6. \A e \in Executions : Recorded(pc[e], run[e], result[e], entry[e].cancelled)'
    BY <2>1, <2>2 DEF Recorded, Idle, Inside, Working
  <2> QED BY <2>3, <2>4, <2>5, <2>6 DEF IdleInv
<1>6. CASE UNCHANGED vars
  <2>1. OneAtATime' /\ DownIsQuiet' /\ Carried'
    BY <1>6 DEF vars, IdleInv, OneAtATime, DownIsQuiet, Carried, Interrupted
  <2>2. NeverResurrected' /\ RecoveryBounded'
    BY <1>6 DEF vars, IdleInv, NeverResurrected, RecoveryBounded
  <2>3. \A e \in Executions : Recorded(pc[e], run[e], result[e], entry[e].cancelled)'
    BY <1>6 DEF vars, IdleInv, Recorded
  <2> QED BY <2>1, <2>2, <2>3 DEF IdleInv
<1> QED BY <1>1, <1>2, <1>3, <1>4, <1>5, <1>6 DEF Next

-----------------------------------------------------------------------------
(* The theorems. *)

\* While resume is called on idle runs, the invariant holds in every behaviour.
THEOREM IdleInvHolds == ~EagerResume => (Spec => []IdleInv)
<1> SUFFICES ASSUME ~EagerResume PROVE Spec => []IdleInv
  OBVIOUS
<1>1. ASSUME Init PROVE IdleInv
  <2>0. /\ 1 \in Executions /\ \A e \in Executions : e # NoEntry
        /\ \A e \in Executions : pc[e] = IF e = 1 THEN "admitting" ELSE "unused"
    BY <1>1, PolicyAssumption DEF Init, Executions, NoEntry
  <2>1. OneAtATime /\ DownIsQuiet
    BY <1>1, <2>0 DEF Init, OneAtATime, DownIsQuiet, Idle, Inside, Working
  <2>2. Carried /\ RecoveryBounded
    BY <1>1, <2>0, PolicyAssumption DEF Init, Carried, RecoveryBounded, Created
  <2>3. NeverResurrected
    BY <1>1, <2>0 DEF Init, NeverResurrected
  <2>4. \A e \in Executions : Recorded(pc[e], run[e], result[e], entry[e].cancelled)
    BY <1>1, <2>0 DEF Init, Recorded, Created, Inside, Working
  <2> QED BY <2>1, <2>2, <2>3, <2>4 DEF IdleInv
<1>2. TypeOK /\ IInv /\ IdleInv /\ [Next]_vars => IdleInv'
  BY IdleStep
<1> QED BY <1>1, <1>2, TypeCorrect, InvariantHolds, PTL DEF Spec

\* A cancelled execution never completes, wherever among its awaits the cancel landed.
THEOREM NeverResurrectedHolds == ~EagerResume => (Spec => []NeverResurrected)
<1>1. IdleInv => NeverResurrected  BY DEF IdleInv
<1> QED BY <1>1, IdleInvHolds, PTL

\* However often a run is paused and resumed, retried and repaired, its automatic
\* retries stay within one allowance.
THEOREM RecoveryHolds == ~EagerResume => (Spec => []RecoveryBounded)
<1>1. IdleInv => RecoveryBounded  BY DEF IdleInv
<1> QED BY <1>1, IdleInvHolds, PTL

-----------------------------------------------------------------------------
(* RunLifecycle implements RunRecord. *)

\* A created run is a new record on which nothing is spent.
LEMMA RecordInitial == Init => Abstract!RecordInit
BY DEF Init, Created, Abstract!RecordInit, Abstract!NewRecord

\* Every step of an execution is a step of the record or leaves it alone.
LEMMA RecordStep ==
  ASSUME TypeOK, IInv, IdleInv, ~EagerResume,
         NEW e \in Executions, Body(e) \/ Admission(e)
  PROVE  Abstract!RecordNext \/ UNCHANGED <<store, retries>>
<1>0. /\ store \in Records /\ run \in [Executions -> Records] /\ run[e] \in Records
      /\ Fit(pc[e], run[e], result[e])
      /\ Recorded(pc[e], run[e], result[e], entry[e].cancelled)
      /\ pc[e] \in Inside => active = e /\ (Cancelled <=> entry[e].cancelled)
  BY FlagIsOwn DEF TypeOK, IInv, IdleInv
<1>1. CASE Setup(e) \/ Repair(e)
  <2>1. store' = run[e] /\ store = run[e] /\ retries' = retries
    BY <1>0, <1>1 DEF Setup, Repair, At, Update, others, Recorded, Working
  <2> QED BY <2>1
<1>2. CASE SessionEnds(e)
  <2>1. /\ store = run[e] /\ store.state \in {"RUNNING", "CANCELLED"}
    BY <1>0, <1>2 DEF SessionEnds, At, Recorded, Working
  <2>2. store' = [store EXCEPT !.verification = "VERIFYING", !.trust = store.trust]
        /\ retries' = retries
    BY <1>0, <1>2, <2>1 DEF SessionEnds, Update, others, Records
  <2>3. Abstract!Work  BY <2>1, <2>2 DEF Abstract!Work
  <2> QED BY <2>3 DEF Abstract!RecordNext
<1>3. CASE SessionRetried(e)
  <2>1. /\ pc[e] = "session" /\ active = e /\ ~entry[e].cancelled
        /\ retries' = retries + 1 /\ store' = store
    BY <1>0, <1>3 DEF SessionRetried, Inside, Working
  <2>2. store.state = "RUNNING"  BY <1>0, <2>1 DEF Recorded, Working
  <2>3. retries <= entry[e].used  BY <2>1 DEF IdleInv, Carried, Idle
  <2>4. entry[e].used < MaxRecovery  BY <1>3, <2>1 DEF SessionRetried
  <2>5. retries \in Nat /\ entry[e].used \in 0..MaxRecovery /\ MaxRecovery \in Nat
    BY PolicyAssumption DEF TypeOK
  <2>6. retries < MaxRecovery  BY <2>3, <2>4, <2>5
  <2>7. Abstract!Retry  BY <2>1, <2>2, <2>6 DEF Abstract!Retry
  <2> QED BY <2>7 DEF Abstract!RecordNext
<1>4. CASE AssessUnreviewed(e) \/ ReviewEnds(e)
  <2>1. store = run[e] /\ store.state \in {"RUNNING", "CANCELLED"}
    BY <1>0, <1>4 DEF AssessUnreviewed, ReviewEnds, At, Recorded, Working
  <2>2. PICK t \in {"CORRECTNESS_VERIFIED", "MERGE_ELIGIBLE"} :
          run' = [run EXCEPT ![e].trust = t]
    BY <1>4 DEF AssessUnreviewed, ReviewEnds, Assess
  <2>3. store' = [store EXCEPT !.verification = store.verification, !.trust = t]
        /\ retries' = retries
    BY <1>0, <1>4, <2>1, <2>2
       DEF AssessUnreviewed, ReviewEnds, Assess, Update, others, Records
  <2>4. Abstract!Work  BY <2>1, <2>3 DEF Abstract!Work
  <2> QED BY <2>4 DEF Abstract!RecordNext
<1>5. CASE Decide(e)
  <2>1. PICK bound \in {"none", "bound"} :
          Deliverable(e, bound) /\ run' = [run EXCEPT ![e] = Outcome(e, bound)]
    BY <1>5 DEF Decide
  <2>2. /\ pc[e] = "deciding" /\ ~entry[e].cancelled
        /\ store' = Outcome(e, bound) /\ retries' = retries
    BY <1>0, <1>5, <2>1 DEF Decide, At, Update, others, Inside, Working
  <2>3. store.state = "RUNNING" /\ run[e].state = "RUNNING"
    BY <1>0, <2>2 DEF Recorded, Working
  <2>4. CASE result[e] = "VERIFIED"
    <3>1. store = run[e]  BY <1>0, <2>2, <2>4 DEF Recorded, Working
    <3>2. /\ run[e].trust \in {"CORRECTNESS_VERIFIED", "MERGE_ELIGIBLE"}
          /\ bound = "none" => run[e].trust = "MERGE_ELIGIBLE"
      BY <1>0, <2>1, <2>2, <2>4 DEF Deliverable, Fit, Records, TrustStates
    <3>3. store' = [store EXCEPT !.state = "COMPLETED", !.verification = "VERIFIED",
                                 !.handoff = bound]
      BY <1>0, <2>2, <2>4, <3>1 DEF Outcome, Records
    <3>4. Abstract!Complete  BY <2>2, <2>3, <3>1, <3>2, <3>3 DEF Abstract!Complete
    <3> QED BY <3>4 DEF Abstract!RecordNext
  <2>5. CASE result[e] # "VERIFIED"
    <3>1. /\ result[e] \in {"QUARANTINED", "NOT_CHECKED", "CANCELLED"}
          /\ run[e].trust = "PROPOSED"
      BY <1>0, <2>2, <2>5 DEF Recorded
    <3>2. store' = [state |-> "FAILED", verification |-> result[e], trust |-> "PROPOSED",
                    handoff |-> "none"]
      BY <1>0, <2>2, <2>5, <3>1 DEF Outcome, Records
    <3>3. Abstract!Refuse  BY <2>2, <2>3, <3>1, <3>2 DEF Abstract!Refuse
    <3> QED BY <3>3 DEF Abstract!RecordNext
  <2> QED BY <2>4, <2>5
<1>6. CASE Pause(e) \/ CaptureFails(e)
  <2>1. /\ pc[e] \in {"capturing", "pausing", "paused"} /\ retries' = retries
        /\ store' = [run[e] EXCEPT !.state = "PAUSED"]
             \/ store' = [run[e] EXCEPT !.state = "FAILED"]
    BY <1>0, <1>6 DEF Pause, CaptureFails, At, Update, others
  <2>2. /\ store.state # "QUEUED"
        /\ run[e].verification \in {"FAILED", "QUARANTINED", "CANCELLED"}
        /\ run[e].trust = "none" /\ run[e].handoff = "none"
    BY <1>0, <2>1 DEF Recorded, Fit
  <2>3. store' \in [state : {"PAUSED", "FAILED"},
                    verification : {"FAILED", "QUARANTINED", "CANCELLED"},
                    trust : {"none"}, handoff : {"none"}]
    BY <1>0, <2>1, <2>2 DEF Records
  <2>4. Abstract!Withdraw  BY <2>1, <2>2, <2>3 DEF Abstract!Withdraw
  <2> QED BY <2>4 DEF Abstract!RecordNext
<1>7. CASE Start(e)
  <2>1. /\ store = run[e] /\ run[e].trust = "none" /\ run[e].handoff = "none"
        /\ run[e].state \in {"QUEUED", "RUNNING"}
    BY <1>0, <1>7 DEF Start, Recorded
  <2>2. store' = [store EXCEPT !.state = "RUNNING"] /\ retries' = retries
    BY <1>0, <1>7, <2>1 DEF Start, Update
  <2>3. CASE run[e].state = "RUNNING"
    <3>1. store' = store  BY <1>0, <2>1, <2>2, <2>3 DEF Records
    <3> QED BY <2>2, <3>1
  <2>4. CASE run[e].state = "QUEUED"
    <3>1. Abstract!Begin
      BY <1>0, <2>1, <2>2, <2>4 DEF Abstract!Begin, Abstract!WithoutAuthority, Records
    <3> QED BY <3>1 DEF Abstract!RecordNext
  <2> QED BY <2>1, <2>3, <2>4
<1>8. CASE ResumeAccepted(e)
  <2>1. /\ store = run[e] /\ run[e].trust = "none" /\ run[e].handoff = "none"
        /\ run[e].state = "PAUSED"
    BY <1>0, <1>8 DEF ResumeAccepted, At, Recorded
  <2>2. store' = [store EXCEPT !.state = "RUNNING"] /\ retries' = retries
    BY <1>0, <1>8, <2>1 DEF ResumeAccepted, Update, others
  <2>3. Abstract!Begin
    BY <1>0, <2>1, <2>2 DEF Abstract!Begin, Abstract!WithoutAuthority, Records
  <2> QED BY <2>3 DEF Abstract!RecordNext
<1>9. CASE StartStopped(e)
  <2>1. store.state # "COMPLETED"
    BY <1>0, <1>9 DEF StartStopped, Recorded
  <2>2. /\ store' = [state |-> "CANCELLED", verification |-> "CANCELLED",
                     trust |-> "none", handoff |-> "none"]
        /\ retries' = retries
    BY <1>0, <1>9 DEF StartStopped, Update
  <2>3. Abstract!Cancel  BY <2>1, <2>2 DEF Abstract!Cancel
  <2> QED BY <2>3 DEF Abstract!RecordNext
<1>10. CASE store' = store /\ retries' = retries
  BY <1>10
<1> QED
  BY <1>1, <1>2, <1>3, <1>4, <1>5, <1>6, <1>7, <1>8, <1>9, <1>10 DEF Body, Admission, others,
     SessionCancelled, BodyFails, Rejected, Verified, BeginReview, AssuranceCancelled,
     DecideFails, DecideCancelled, Record, RecordFails, CatchCancelled, Catch, Capture,
     Announce, Cleanup, StartFails, Resume, ResumeRefused

\* While resume is called on idle runs, the durable record and the retries spent on
\* it change only as RunRecord says.
THEOREM Refinement == ~EagerResume => (Spec => ImplementsRunRecord)
<1> SUFFICES ASSUME ~EagerResume PROVE Spec => ImplementsRunRecord
  OBVIOUS
<1>1. TypeOK /\ IInv /\ IdleInv /\ [Next]_vars => [Abstract!RecordNext]_(Abstract!recordVars)
  <2> SUFFICES ASSUME TypeOK, IInv, IdleInv, [Next]_vars
               PROVE  Abstract!RecordNext \/ UNCHANGED <<store, retries>>
    BY DEF Abstract!recordVars
  <2>1. ASSUME NEW e \in Executions, Body(e) \/ Admission(e)
        PROVE  Abstract!RecordNext \/ UNCHANGED <<store, retries>>
    BY <2>1, RecordStep
  <2>2. CASE CancelEnd
    <3>1. PICK e \in Executions : canceller = e /\ store' = run'[e]
          /\ run' = [run EXCEPT ![e] = [state |-> "CANCELLED", verification |-> "CANCELLED",
                                        trust |-> "none", handoff |-> "none"]]
      BY <2>2 DEF CancelEnd, Update
    <3>2. store.state # "COMPLETED"  BY <3>1 DEF IdleInv, OneAtATime
    <3>3. /\ store' = [state |-> "CANCELLED", verification |-> "CANCELLED",
                       trust |-> "none", handoff |-> "none"]
          /\ retries' = retries
      BY <2>2, <3>1 DEF CancelEnd, TypeOK
    <3>4. Abstract!Cancel  BY <3>2, <3>3 DEF Abstract!Cancel
    <3> QED BY <3>4 DEF Abstract!RecordNext
  <2>3. CASE ReconcileRun
    <3>1. store.state \in {"QUEUED", "RUNNING"}
      BY <2>3 DEF ReconcileRun, IdleInv, DownIsQuiet, Interrupted
    <3>2. Abstract!Interrupt  BY <2>3, <3>1 DEF ReconcileRun, Abstract!Interrupt
    <3> QED BY <3>2 DEF Abstract!RecordNext
  <2>4. CASE CancelBegin \/ Crash \/ ReconcileCapsule \/ ReconcileNothing \/ UNCHANGED vars
    BY <2>4 DEF CancelBegin, Crash, ReconcileCapsule, ReconcileNothing, vars
  <2> QED BY <2>1, <2>2, <2>3, <2>4 DEF Next
<1> QED BY <1>1, RecordInitial, TypeCorrect, InvariantHolds, IdleInvHolds, PTL
        DEF Spec, ImplementsRunRecord, Abstract!RecordSpec
===============================================================================
