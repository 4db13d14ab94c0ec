------------------------- MODULE EmergencyStopProofs -------------------------
(***************************************************************************)
(* An emergency stop holds for as long as the process lives, for any       *)
(* number of runs and requests and whatever the store does: reads and      *)
(* writes that fail, and writes that land out of order.  In front of a     *)
(* store that keeps its order the stop is durable before the sweep, and in *)
(* front of one without faults it holds through crashes and restarts.      *)
(***************************************************************************)
EXTENDS EmergencyStop, TLAPS

\* The decision stands in memory: the process knows of it, and the flag says so
\* unless a late read replaced it.
FlagStands ==
  /\ decision = "stopped" => hydrated = TRUE
  /\ decision = "stopped" /\ overwritten = FALSE => stopped = "stopped"

\* While the sweep runs, what executes is still on its list.
SweepCovers ==
  stop = "sweeping" /\ decision = "stopped" /\ overwritten = FALSE =>
    \A r \in Runs : phase[r] = "executing" => r \in toCancel

\* The inductive invariant: a stop that holds, why it holds, and how the sweep
\* makes it so.
StopInv ==
  /\ phase \in [Runs -> Phases]
  /\ hydrated \in BOOLEAN /\ overwritten \in BOOLEAN
  /\ FlagStands
  /\ SweepCovers
  /\ stop = "acknowledged" /\ decision = "stopped" /\ overwritten = FALSE => Quiet

\* No admission step lets a run execute under a stop that stands in memory:
\* the re-check of create and resume, between active.set and execute.
LEMMA StartRefused ==
  ASSUME StopInv, NEW r \in Runs, Start(r),
         decision = "stopped", overwritten = FALSE
  PROVE  phase' = [phase EXCEPT ![r] = "none"]
  BY DEF StopInv, FlagStands, Start, Move

\* A step that leaves the control state alone and starts nothing keeps the
\* invariant.
LEMMA QuietStep ==
  ASSUME StopInv, NEW r \in Runs, NEW to \in Phases \ {"executing"},
         phase' = [phase EXCEPT ![r] = to],
         UNCHANGED <<stopped, hydrated, stop, toCancel, decision, overwritten>>
  PROVE  StopInv'
  BY DEF StopInv, FlagStands, SweepCovers, Quiet, Phases

\* The same for a step that moves no run at all.
LEMMA IdleStep ==
  ASSUME StopInv,
         UNCHANGED <<phase, stopped, hydrated, stop, toCancel, decision, overwritten>>
  PROVE  StopInv'
  BY DEF StopInv, FlagStands, SweepCovers, Quiet

\* A fresh process with no request behind it satisfies the invariant.
LEMMA StopInvInit == Init => StopInv
<1>1. Init => hydrated \in BOOLEAN /\ overwritten \in BOOLEAN
  BY Zenon DEF Init
<1>2. Init => phase \in [Runs -> Phases] /\ decision = "open"
  BY DEF Init, Phases
<1> QED
  BY <1>1, <1>2 DEF StopInv, FlagStands, SweepCovers

\* Every step of a process that does not crash keeps the invariant.
LEMMA StopInvStep ==
  ASSUME StopInv, [Next]_vars, ~Crash
  PROVE  StopInv'
<1> USE DEF control, admission, sweep, Rest
<1>1. CASE EmergencyStop
  BY <1>1 DEF EmergencyStop, StopInv, FlagStands, SweepCovers, Quiet
<1>2. CASE BeginSweep
  \* Every executing run is active, so it is on the list the sweep takes.
  BY <1>2 DEF BeginSweep, Active, StopInv, FlagStands, SweepCovers, Quiet
<1>3. CASE Acknowledge
  BY <1>3 DEF Acknowledge, StopInv, FlagStands, SweepCovers, Quiet
<1>4. CASE SweepFails
  BY <1>4 DEF SweepFails, StopInv, FlagStands, SweepCovers, Quiet
<1>5. CASE ResumeNewRuns
  BY <1>5 DEF ResumeNewRuns, StopInv, FlagStands, SweepCovers, Quiet
<1>6. ASSUME NEW r \in Runs, CancelNext(r) PROVE StopInv'
  BY <1>6 DEF CancelNext, StopInv, FlagStands, SweepCovers, Quiet, Phases
<1>7. ASSUME NEW r \in Runs, Call(r) PROVE StopInv'
  BY <1>7, QuietStep DEF Call, Move, Phases
<1>8. ASSUME NEW r \in Runs, WriteAwaited(r) PROVE StopInv'
  BY <1>8, QuietStep DEF WriteAwaited, Move, Phases
<1>9. ASSUME NEW r \in Runs, RowRead(r) PROVE StopInv'
  BY <1>9, QuietStep DEF RowRead, Move, Phases
<1>10. ASSUME NEW r \in Runs, Hydrate(r) PROVE StopInv'
  \* Under a decision to stop the process is hydrated, so a read that changes
  \* the flag is recorded as an overwrite.
  <2>1. phase' \in [Runs -> Phases] /\ (Quiet => Quiet')
    BY <1>10 DEF Hydrate, Move, StopInv, Phases, Quiet
  <2>2. hydrated' \in BOOLEAN /\ overwritten' \in BOOLEAN
    BY <1>10, Zenon DEF Hydrate, StopInv
  <2>3. overwritten' = FALSE /\ decision = "stopped" =>
          overwritten = FALSE /\ stopped' = stopped
    BY <1>10, Zenon DEF Hydrate, StopInv, FlagStands
  <2>4. \A s \in Runs : phase'[s] = "executing" => phase[s] = "executing"
    BY <1>10 DEF Hydrate, Move, StopInv
  <2>5. hydrated' = TRUE /\ UNCHANGED <<stop, toCancel, decision>>
    BY <1>10 DEF Hydrate
  <2> QED
    BY <2>1, <2>2, <2>3, <2>4, <2>5 DEF StopInv, FlagStands, SweepCovers
<1>11. ASSUME NEW r \in Runs, ReadFails(r) PROVE StopInv'
  BY <1>11, QuietStep DEF ReadFails, Move, Phases
<1>12. ASSUME NEW r \in Runs, Admit(r) PROVE StopInv'
  BY <1>12, QuietStep DEF Admit, Move, Phases
<1>13. ASSUME NEW r \in Runs, Start(r) PROVE StopInv'
  <2>1. CASE decision = "stopped" /\ overwritten = FALSE
    <3>1. phase' = [phase EXCEPT ![r] = "none"]
      BY <1>13, <2>1, StartRefused
    <3> QED
      BY <1>13, <3>1, QuietStep DEF Start, Phases
  <2>2. CASE ~(decision = "stopped" /\ overwritten = FALSE)
    BY <1>13, <2>2 DEF Start, Move, StopInv, FlagStands, SweepCovers, Phases
  <2> QED
    BY <2>1, <2>2
<1>14. ASSUME NEW r \in Runs, AdmissionFails(r) PROVE StopInv'
  BY <1>14, QuietStep DEF AdmissionFails, Move, Phases
<1>15. ASSUME NEW r \in Runs, Finish(r) PROVE StopInv'
  BY <1>15, QuietStep DEF Finish, Phases
<1>16. ASSUME NEW n \in Requests, WriteLands(n) \/ WriteFails(n) PROVE StopInv'
  BY <1>16, IdleStep DEF WriteLands, WriteFails
<1>17. CASE UNCHANGED vars
  BY <1>17, IdleStep DEF vars
<1> QED
  BY <1>1, <1>2, <1>3, <1>4, <1>5, <1>6, <1>7, <1>8, <1>9, <1>10, <1>11, <1>12,
     <1>13, <1>14, <1>15, <1>16, <1>17 DEF Next

\* In one life of the process, an acknowledged emergencyStop keeps every run
\* from executing until resumeNewRuns: for any number of concurrent create and
\* resume calls, any number of operator requests and any behaviour of the store.
THEOREM StopHoldsWhileAlive ==
  ASSUME MaxCrashes = 0
  PROVE  Spec => []StopHolds
<1> DEFINE Alive == crashes = 0
<1>1. Init => StopInv /\ Alive
  BY StopInvInit DEF Init
<1>2. StopInv /\ Alive /\ [Next]_vars => (StopInv /\ Alive)'
  <2> SUFFICES ASSUME StopInv, Alive, [Next]_vars PROVE (StopInv /\ Alive)'
    OBVIOUS
  <2>1. ~Crash
    BY DEF Crash
  <2>2. Alive'
    BY <2>1 DEF Next, vars, EmergencyStop, BeginSweep, Acknowledge, SweepFails,
       ResumeNewRuns, CancelNext, Call, WriteAwaited, RowRead, Hydrate, ReadFails,
       Admit, Start, AdmissionFails, Finish, WriteLands, WriteFails, Rest
  <2> QED
    BY <2>1, <2>2, StopInvStep
<1>3. StopInv => StopHolds
  BY DEF StopInv, StopHolds
<1> QED
  BY <1>1, <1>2, <1>3, PTL DEF Spec

-----------------------------------------------------------------------------
(* Durability, and the stop across crashes. *)

\* Every step of the operator, of an admission, of the store and of a crash
\* preserves the types.
LEMMA TypeStep == TypeOK /\ [Next]_vars => TypeOK'
<1> SUFFICES ASSUME TypeOK, [Next]_vars PROVE TypeOK'
  OBVIOUS
<1> USE DEF control, admission, sweep, Rest
<1>0. ASSUME NEW value \in Settings, PersistControlState(value)
      PROVE  /\ tail' \in 0..MaxRequests
             /\ writes' \in [Requests -> {"none", "settled"} \union Settings]
  <2>1. PICK n \in Requests : writes' = [writes EXCEPT ![n] = value] /\ tail' = n
    BY <1>0 DEF PersistControlState
  <2> QED BY <2>1, BoundsAssumption DEF TypeOK, Requests
<1>1. CASE EmergencyStop
  <2>1. PersistControlState("stopped") /\ "stopped" \in Settings
    BY <1>1 DEF EmergencyStop, Settings
  <2>2. hydrated' \in BOOLEAN /\ overwritten' \in BOOLEAN
    BY <1>1, Zenon DEF EmergencyStop
  <2> QED BY <1>0, <1>1, <2>1, <2>2 DEF EmergencyStop, TypeOK, Settings
<1>2. CASE ResumeNewRuns
  <2>1. PersistControlState("open") /\ "open" \in Settings
    BY <1>2 DEF ResumeNewRuns, Settings
  <2>2. hydrated' \in BOOLEAN /\ overwritten' \in BOOLEAN
    BY <1>2, Zenon DEF ResumeNewRuns
  <2> QED BY <1>0, <1>2, <2>1, <2>2 DEF ResumeNewRuns, TypeOK, Settings
<1>3. CASE BeginSweep  BY <1>3 DEF BeginSweep, TypeOK, Active
<1>4. CASE Acknowledge \/ SweepFails  BY <1>4 DEF Acknowledge, SweepFails, TypeOK
<1>5. ASSUME NEW r \in Runs,
             CancelNext(r) \/ Call(r) \/ WriteAwaited(r) \/ ReadFails(r) \/ Admit(r)
               \/ Start(r) \/ AdmissionFails(r) \/ Finish(r)
      PROVE  TypeOK'
  <2>1. phase' \in [Runs -> Phases]
    BY <1>5 DEF CancelNext, Call, WriteAwaited, ReadFails, Admit, Start, AdmissionFails,
       Finish, Move, TypeOK, Phases
  <2>2. awaits' \in [Runs -> 0..MaxRequests] /\ toCancel' \subseteq Runs
    BY <1>5 DEF CancelNext, Call, WriteAwaited, ReadFails, Admit, Start, AdmissionFails,
       Finish, TypeOK
  <2>3. UNCHANGED <<row, writes, stopped, hydrated, tail, answer, stop, stopWrite, crashes,
                    decision, overwritten>>
    BY <1>5 DEF CancelNext, Call, WriteAwaited, ReadFails, Admit, Start, AdmissionFails,
       Finish
  <2> QED BY <2>1, <2>2, <2>3 DEF TypeOK
<1>6. ASSUME NEW r \in Runs, RowRead(r) PROVE TypeOK'
  BY <1>6 DEF RowRead, Move, TypeOK, Phases
<1>7. ASSUME NEW r \in Runs, Hydrate(r) PROVE TypeOK'
  <2>1. hydrated' \in BOOLEAN /\ overwritten' \in BOOLEAN
    BY <1>7, Zenon DEF Hydrate, TypeOK
  <2>2. stopped' \in Settings /\ phase' \in [Runs -> Phases]
    BY <1>7 DEF Hydrate, Move, TypeOK, Phases
  <2> QED BY <1>7, <2>1, <2>2 DEF Hydrate, TypeOK
<1>8. ASSUME NEW n \in Requests, WriteLands(n) \/ WriteFails(n) PROVE TypeOK'
  BY <1>8 DEF WriteLands, WriteFails, InFlight, TypeOK
<1>9. CASE Crash
  <2>1. hydrated' \in BOOLEAN /\ overwritten' \in BOOLEAN
    BY <1>9, Zenon DEF Crash
  <2>2. crashes' \in 0..MaxCrashes /\ tail' \in 0..MaxRequests
    BY <1>9, BoundsAssumption DEF Crash, TypeOK
  <2>3. writes' \in [Requests -> {"none", "settled"} \union Settings]
    BY <1>9 DEF Crash, TypeOK
  <2> QED BY <1>9, <2>1, <2>2, <2>3 DEF Crash, TypeOK, Settings, Phases
<1>10. CASE UNCHANGED vars  BY <1>10 DEF vars, TypeOK
<1> QED BY <1>1, <1>2, <1>3, <1>4, <1>5, <1>6, <1>7, <1>8, <1>9, <1>10 DEF Next

\* TypeOK holds in every behaviour of the specification.
THEOREM TypeCorrect == Spec => []TypeOK
<1>1. ASSUME Init PROVE TypeOK
  <2>1. hydrated \in BOOLEAN /\ overwritten \in BOOLEAN  BY <1>1, Zenon DEF Init
  <2> QED BY <1>1, <2>1, BoundsAssumption DEF Init, TypeOK, Settings, Phases
<1> QED BY <1>1, TypeStep, PTL DEF Spec

\* Requests are numbered in the order they are made.
WritesInOrder ==
  \A j, k \in Requests : j < k /\ writes[k] # "none" => writes[j] # "none"

\* While emergencyStop waits for its write nothing was sent after it; once that is
\* settled it is the row.
StopIsLast ==
  stop = "persisting" /\ decision = "stopped" =>
    /\ stopWrite \in Requests
    /\ \A k \in Requests : k > stopWrite => writes[k] = "none"
    /\ \/ writes[stopWrite] = "stopped"
       \/ writes[stopWrite] = "settled" /\ row = "stopped" /\ InFlight = {}

\* From the sweep on the stop is durable and nothing on its way can replace it.
StopLanded ==
  stop \in {"sweeping", "acknowledged"} /\ decision = "stopped" =>
    row = "stopped" /\ InFlight = {}

DurableInv == WritesInOrder /\ StopIsLast /\ StopLanded

\* The store neither loses a write of a living process nor reorders two.
Ordered == "write fails" \notin Faults /\ "reorders" \notin Faults

\* A step that touches neither the row, the writes, the call nor the decision.
LEMMA DurableFrame ==
  ASSUME DurableInv, UNCHANGED <<row, writes, stop, stopWrite, decision>>
  PROVE  DurableInv'
BY DEF DurableInv, WritesInOrder, StopIsLast, StopLanded, InFlight

\* persistControlState numbers its write after all the others.
LEMMA PersistIsLast ==
  ASSUME TypeOK, WritesInOrder, NEW value \in Settings, PersistControlState(value)
  PROVE  /\ WritesInOrder' /\ tail' \in Requests /\ writes'[tail'] = value
         /\ \A k \in Requests : k > tail' => writes'[k] = "none"
<1>1. PICK n \in Requests :
        /\ writes[n] = "none" /\ writes' = [writes EXCEPT ![n] = value] /\ tail' = n
        /\ \A k \in Requests : k < n => writes[k] # "none"
  BY DEF PersistControlState
<1>2. n \in Nat /\ \A k \in Requests : k \in Nat  BY BoundsAssumption DEF Requests
<1>3. \A k \in Requests : k > n => writes[k] = "none"
  BY <1>1, <1>2 DEF WritesInOrder
<1>4. \A k \in Requests : writes'[k] = IF k = n THEN value ELSE writes[k]
  BY <1>1 DEF TypeOK
<1>5. value # "none"  BY DEF Settings
<1>6. WritesInOrder'
  <2> SUFFICES ASSUME NEW j \in Requests, NEW k \in Requests, j < k, writes'[k] # "none"
               PROVE  writes'[j] # "none"
    BY DEF WritesInOrder
  <2>1. CASE k = n  BY <1>1, <1>4, <1>5, <2>1
  <2>2. CASE k # n  BY <1>4, <1>5, <2>2 DEF WritesInOrder
  <2> QED BY <2>1, <2>2
<1> QED BY <1>1, <1>2, <1>3, <1>4, <1>6

\* Every step keeps the stop durable while the store keeps the order of its writes,
\* crashes included.
LEMMA DurableStep ==
  ASSUME Ordered, TypeOK, DurableInv, [Next]_vars
  PROVE  DurableInv'
<1> USE DEF control, admission, sweep, Rest
<1>0. \A k \in Requests : k \in Nat  BY BoundsAssumption DEF Requests
<1>1. CASE EmergencyStop
  <2>1. PersistControlState("stopped") /\ stop' = "persisting" /\ stopWrite' = tail'
    BY <1>1 DEF EmergencyStop
  <2>2. "stopped" \in Settings  BY DEF Settings
  <2>3. /\ WritesInOrder' /\ tail' \in Requests /\ writes'[tail'] = "stopped"
        /\ \A k \in Requests : k > tail' => writes'[k] = "none"
    BY <2>1, <2>2, PersistIsLast DEF DurableInv
  <2> QED BY <2>1, <2>3 DEF DurableInv, StopIsLast, StopLanded
<1>2. CASE ResumeNewRuns
  <2>1. PersistControlState("open") /\ decision' = "open"  BY <1>2 DEF ResumeNewRuns
  <2>2. "open" \in Settings  BY DEF Settings
  <2>3. WritesInOrder'  BY <2>1, <2>2, PersistIsLast DEF DurableInv
  <2> QED BY <2>1, <2>3 DEF DurableInv, StopIsLast, StopLanded
<1>3. CASE BeginSweep
  <2>1. /\ stop = "persisting" /\ Settled(stopWrite) /\ stop' = "sweeping"
        /\ UNCHANGED <<row, writes, stopWrite, decision>>
    BY <1>3 DEF BeginSweep
  <2>2. decision = "stopped" => row = "stopped" /\ InFlight = {}
    BY <2>1 DEF DurableInv, StopIsLast, Settled
  <2> QED BY <2>1, <2>2 DEF DurableInv, WritesInOrder, StopIsLast, StopLanded, InFlight
<1>4. CASE Acknowledge \/ SweepFails
  BY <1>4 DEF Acknowledge, SweepFails, DurableInv, WritesInOrder, StopIsLast, StopLanded,
     InFlight
<1>5. ASSUME NEW r \in Runs,
             \/ CancelNext(r) \/ Call(r) \/ WriteAwaited(r) \/ RowRead(r) \/ Hydrate(r)
             \/ ReadFails(r) \/ Admit(r) \/ Start(r) \/ AdmissionFails(r) \/ Finish(r)
      PROVE  DurableInv'
  BY <1>5, DurableFrame DEF CancelNext, Call, WriteAwaited, RowRead, Hydrate, ReadFails,
     Admit, Start, AdmissionFails, Finish
<1>6. ASSUME NEW n \in Requests, WriteLands(n) PROVE DurableInv'
  <2>1. /\ n \in InFlight /\ \A k \in InFlight : n <= k
        /\ row' = writes[n] /\ writes' = [writes EXCEPT ![n] = "settled"]
        /\ UNCHANGED <<stop, stopWrite, decision>>
    BY <1>6 DEF WriteLands, Ordered
  <2>2. \A k \in Requests : writes'[k] = IF k = n THEN "settled" ELSE writes[k]
    BY <2>1 DEF TypeOK
  <2>3. writes[n] \in Settings /\ writes[n] # "none"  BY <2>1 DEF InFlight, Settings
  <2>4. WritesInOrder'  BY <2>2, <2>3 DEF DurableInv, WritesInOrder
  <2>5. StopLanded'
    BY <2>1 DEF DurableInv, StopLanded
  <2>6. StopIsLast'
    <3> SUFFICES ASSUME stop = "persisting", decision = "stopped" PROVE StopIsLast'
      BY <2>1 DEF StopIsLast
    <3>1. /\ stopWrite \in Requests /\ writes[stopWrite] = "stopped"
          /\ \A k \in Requests : k > stopWrite => writes[k] = "none"
      BY <2>1 DEF DurableInv, StopIsLast
    <3>2. stopWrite \in InFlight  BY <3>1 DEF InFlight, Settings
    <3>3. \A k \in Requests : k > stopWrite => writes'[k] = "none"
      BY <2>2, <2>3, <3>1
    <3>4. CASE n = stopWrite
      <4>1. row' = "stopped" /\ writes'[stopWrite] = "settled"  BY <2>1, <2>2, <3>1, <3>4
      <4>2. ASSUME NEW k \in InFlight' PROVE FALSE
        <5>1. k \in Requests /\ writes'[k] \in Settings  BY <4>2 DEF InFlight
        <5>2. k # n /\ writes[k] \in Settings  BY <2>2, <5>1 DEF Settings
        <5>3. k \in InFlight  BY <5>1, <5>2 DEF InFlight
        <5>4. n <= k  BY <2>1, <5>3
        <5>5. k > n  BY <1>0, <5>1, <5>2, <5>4
        <5> QED BY <3>1, <3>4, <5>1, <5>2, <5>5 DEF Settings
      <4> QED BY <2>1, <3>1, <3>3, <4>1, <4>2 DEF StopIsLast
    <3>5. CASE n # stopWrite  BY <2>1, <2>2, <3>1, <3>3, <3>5 DEF StopIsLast
    <3> QED BY <3>4, <3>5
  <2> QED BY <2>4, <2>5, <2>6 DEF DurableInv
<1>7. ASSUME NEW n \in Requests, WriteFails(n) PROVE DurableInv'
  BY <1>7 DEF WriteFails, Ordered
<1>8. CASE Crash
  <2>1. PICK lost \in SUBSET InFlight :
          writes' = [n \in Requests |-> IF n \in lost THEN "settled" ELSE writes[n]]
    BY <1>8 DEF Crash
  <2>2. \A k \in Requests : writes'[k] = "none" <=> writes[k] = "none"
    BY <2>1 DEF InFlight, Settings
  <2>3. InFlight' \subseteq InFlight  BY <2>1 DEF InFlight, Settings
  <2>4. /\ row' = row /\ decision' = decision
        /\ stop' = IF stop = "acknowledged" THEN stop ELSE "idle"
    BY <1>8 DEF Crash
  <2> QED BY <2>2, <2>3, <2>4 DEF DurableInv, WritesInOrder, StopIsLast, StopLanded
<1>9. CASE UNCHANGED vars  BY <1>9, DurableFrame DEF vars
<1> QED BY <1>1, <1>2, <1>3, <1>4, <1>5, <1>6, <1>7, <1>8, <1>9 DEF Next

\* In front of a store that keeps the order of its writes, a stop is in the durable
\* row before the sweep begins, whatever requests cross and wherever the process
\* dies.
THEOREM StopDurableHolds == ASSUME Ordered PROVE Spec => []StopDurable
<1>1. Init => DurableInv
  BY DEF Init, DurableInv, WritesInOrder, StopIsLast, StopLanded
<1>2. TypeOK /\ DurableInv /\ [Next]_vars => DurableInv'
  BY DurableStep
<1>3. DurableInv => StopDurable
  BY DEF DurableInv, StopLanded, StopDurable
<1> QED BY <1>1, <1>2, <1>3, TypeCorrect, PTL DEF Spec

-----------------------------------------------------------------------------
\* A process that has not read the row admits nobody past the read, and what its
\* admissions were told is the stop.
Unread ==
  stop = "acknowledged" /\ decision = "stopped" /\ hydrated = FALSE =>
    \A r \in Runs : /\ phase[r] \in {"none", "awaiting write", "reading", "answered"}
                    /\ phase[r] = "answered" => answer[r] = "stopped"

\* The stop in memory, now of a process that may have been restarted since: the one
\* that serves the call knows of it, a later one as soon as it has read the row.
FlagReturns ==
  decision = "stopped" =>
    /\ stop \in {"persisting", "sweeping"} => hydrated = TRUE
    /\ stop # "idle" /\ hydrated = TRUE /\ overwritten = FALSE => stopped = "stopped"

CrashInv ==
  /\ FlagReturns /\ Unread /\ SweepCovers
  /\ stop = "acknowledged" /\ decision = "stopped" /\ overwritten = FALSE => Quiet

\* A step that leaves the control state alone, starts nothing, and does not let an
\* admission past the read of a process that has not read.
LEMMA CrashFrame ==
  ASSUME TypeOK, CrashInv, NEW r \in Runs, NEW to \in Phases \ {"executing"},
         phase' = [phase EXCEPT ![r] = to], answer' = answer,
         hydrated = FALSE /\ stop = "acknowledged" /\ decision = "stopped" =>
           to \in {"none", "awaiting write", "reading"},
         UNCHANGED <<stopped, hydrated, stop, toCancel, decision, overwritten>>
  PROVE  CrashInv'
BY DEF TypeOK, CrashInv, FlagReturns, Unread, SweepCovers, Quiet, Phases

\* Every step keeps the stop, crashes included, in front of a store that answers.
LEMMA CrashStep ==
  ASSUME Faults = {}, TypeOK, DurableInv, CrashInv, [Next]_vars
  PROVE  CrashInv'
<1> USE DEF control, admission, sweep, Rest
<1> DEFINE Held == stop = "acknowledged" /\ decision = "stopped"
<1>0. Held /\ hydrated = FALSE =>
        \A r \in Runs : /\ phase[r] \in {"none", "awaiting write", "reading", "answered"}
                        /\ phase[r] = "answered" => answer[r] = "stopped"
  BY DEF CrashInv, Unread
<1>1. CASE EmergencyStop
  BY <1>1 DEF EmergencyStop, CrashInv, FlagReturns, Unread, SweepCovers, Quiet
<1>2. CASE ResumeNewRuns
  BY <1>2 DEF ResumeNewRuns, CrashInv, FlagReturns, Unread, SweepCovers, Quiet
<1>3. CASE BeginSweep
  BY <1>3 DEF BeginSweep, Active, CrashInv, FlagReturns, Unread, SweepCovers, Quiet
<1>4. CASE Acknowledge
  BY <1>4 DEF Acknowledge, CrashInv, FlagReturns, Unread, SweepCovers, Quiet
<1>5. CASE SweepFails
  BY <1>5 DEF SweepFails, CrashInv, FlagReturns, Unread, SweepCovers, Quiet
<1>6. ASSUME NEW r \in Runs, CancelNext(r) PROVE CrashInv'
  BY <1>6 DEF CancelNext, TypeOK, CrashInv, FlagReturns, Unread, SweepCovers, Quiet, Phases
<1>7. ASSUME NEW r \in Runs, Call(r) PROVE CrashInv'
  BY <1>7, CrashFrame DEF Call, Move, Phases
<1>8. ASSUME NEW r \in Runs, WriteAwaited(r) PROVE CrashInv'
  BY <1>8, CrashFrame DEF WriteAwaited, Move, Phases
<1>9. ASSUME NEW r \in Runs, RowRead(r) PROVE CrashInv'
  <2>1. Held => row = "stopped"  BY DEF DurableInv, StopLanded
  <2>2. /\ phase' = [phase EXCEPT ![r] = "answered"]
        /\ answer' = [answer EXCEPT ![r] = row]
        /\ UNCHANGED <<stopped, hydrated, stop, toCancel, decision, overwritten>>
    BY <1>9 DEF RowRead, Move
  <2>3. Unread'  BY <1>0, <2>1, <2>2 DEF Unread, TypeOK
  <2>4. FlagReturns' /\ SweepCovers' /\ (Quiet => Quiet')
    BY <2>2 DEF CrashInv, FlagReturns, SweepCovers, Quiet, TypeOK
  <2> QED BY <2>2, <2>3, <2>4 DEF CrashInv
<1>10. ASSUME NEW r \in Runs, Hydrate(r) PROVE CrashInv'
  <2>1. /\ phase[r] = "answered" /\ hydrated' = TRUE /\ UNCHANGED <<stop, toCancel, decision>>
        /\ stopped' = IF answer[r] = "absent" THEN stopped ELSE answer[r]
    BY <1>10 DEF Hydrate, Move
  <2>2. overwritten' = FALSE => overwritten = FALSE /\ (hydrated = FALSE \/ stopped' = stopped)
    BY <1>10, Zenon DEF Hydrate, TypeOK
  <2>3. \A s \in Runs : phase'[s] = "executing" => phase[s] = "executing"
    BY <1>10 DEF Hydrate, Move, TypeOK
  <2>4. Unread'  BY <2>1 DEF Unread
  <2>5. SweepCovers' /\ (Quiet => Quiet')
    BY <2>1, <2>2, <2>3 DEF CrashInv, SweepCovers, Quiet
  <2>6. hydrated = TRUE \/ hydrated = FALSE  BY Zenon DEF TypeOK
  <2>7. FlagReturns'
    <3>1. CASE hydrated = TRUE
      BY <2>1, <2>2, <3>1 DEF CrashInv, FlagReturns
    <3>2. CASE hydrated = FALSE
      <4>1. Held => stopped' = "stopped"  BY <1>0, <2>1, <3>2
      <4>2. decision = "stopped" => stop \notin {"persisting", "sweeping"}
        BY <3>2 DEF CrashInv, FlagReturns
      <4>3. stop \in {"idle", "persisting", "sweeping", "acknowledged"}  BY DEF TypeOK
      <4> QED BY <2>1, <4>1, <4>2, <4>3 DEF FlagReturns
    <3> QED BY <2>6, <3>1, <3>2
  <2> QED BY <2>1, <2>2, <2>4, <2>5, <2>7 DEF CrashInv
<1>11. ASSUME NEW r \in Runs, ReadFails(r) PROVE CrashInv'
  BY <1>11 DEF ReadFails
<1>12. ASSUME NEW r \in Runs, Admit(r) PROVE CrashInv'
  BY <1>0, <1>12, CrashFrame DEF Admit, Move, Phases
<1>13. ASSUME NEW r \in Runs, Start(r) PROVE CrashInv'
  <2>1. /\ phase[r] = "preparing"
        /\ phase' = [phase EXCEPT ![r] = IF stopped = "stopped" THEN "none" ELSE "executing"]
        /\ UNCHANGED <<answer, stopped, hydrated, stop, toCancel, decision, overwritten>>
    BY <1>13 DEF Start, Move
  <2>2. Held => hydrated # FALSE  BY <1>0, <2>1
  <2>3. hydrated = TRUE \/ hydrated = FALSE  BY Zenon DEF TypeOK
  <2>4. CASE decision = "stopped" /\ stop # "idle" /\ overwritten = FALSE
    <3>1. stop \in {"persisting", "sweeping", "acknowledged"}  BY <2>4 DEF TypeOK
    <3>2. hydrated = TRUE  BY <2>2, <2>3, <2>4, <3>1 DEF CrashInv, FlagReturns
    <3>3. stopped = "stopped"  BY <2>4, <3>2 DEF CrashInv, FlagReturns
    <3>4. phase' = [phase EXCEPT ![r] = "none"]  BY <2>1, <3>3
    <3> QED BY <2>1, <3>4, CrashFrame DEF Phases
  <2>5. CASE ~(decision = "stopped" /\ stop # "idle" /\ overwritten = FALSE)
    <3>1. Unread'  BY <1>0, <2>1 DEF Unread, TypeOK
    <3> QED BY <2>1, <2>5, <3>1 DEF CrashInv, FlagReturns, SweepCovers
  <2> QED BY <2>4, <2>5
<1>14. ASSUME NEW r \in Runs, AdmissionFails(r) \/ Finish(r) PROVE CrashInv'
  BY <1>14, CrashFrame DEF AdmissionFails, Finish, Move, Phases
<1>15. ASSUME NEW n \in Requests, WriteLands(n) \/ WriteFails(n) PROVE CrashInv'
  BY <1>15 DEF WriteLands, WriteFails, CrashInv, FlagReturns, Unread, SweepCovers, Quiet
<1>16. CASE Crash
  BY <1>16 DEF Crash, CrashInv, FlagReturns, Unread, SweepCovers, Quiet
<1>17. CASE UNCHANGED vars
  BY <1>17 DEF vars, CrashInv, FlagReturns, Unread, SweepCovers, Quiet
<1> QED
  BY <1>1, <1>2, <1>3, <1>4, <1>5, <1>6, <1>7, <1>8, <1>9, <1>10, <1>11, <1>12, <1>13,
     <1>14, <1>15, <1>16, <1>17 DEF Next

\* An acknowledged emergencyStop keeps every run from executing until resumeNewRuns,
\* through any number of crashes of the process, in front of a store that answers
\* reads and writes in order.
THEOREM StopHoldsAcrossCrashes == ASSUME Faults = {} PROVE Spec => []StopHolds
<1>1. Init => DurableInv /\ CrashInv
  BY DEF Init, DurableInv, WritesInOrder, StopIsLast, StopLanded, CrashInv, FlagReturns,
     Unread, SweepCovers
<1>2. TypeOK /\ DurableInv /\ CrashInv /\ [Next]_vars => DurableInv' /\ CrashInv'
  BY DurableStep, CrashStep DEF Ordered
<1>3. TypeOK /\ CrashInv => StopHolds
  <2>1. TypeOK /\ ~overwritten => overwritten = FALSE  BY Zenon DEF TypeOK
  <2> QED BY <2>1 DEF CrashInv, StopHolds
<1> QED BY <1>1, <1>2, <1>3, TypeCorrect, PTL DEF Spec
==============================================================================
