---------------------------- MODULE EmergencyStop ----------------------------
(***************************************************************************)
(* The operator's emergency stop and the admission of runs                 *)
(* (src/application/run-service.ts): emergencyStop, resumeNewRuns,         *)
(* persistControlState, loadControlState, and the admission that create    *)
(* and resume share.  The durable control row lives in the store           *)
(* (src/infrastructure/postgres/store.ts), reached through a connection    *)
(* pool: a read or a write is sent, takes effect and is answered at three  *)
(* different times.  The process may crash at any of them; the row stays.  *)
(*                                                                         *)
(* Everything between two awaits is one step.  What a run does once it     *)
(* executes, and how cancel ends it, is left to RunLifecycle.              *)
(***************************************************************************)
EXTENDS Naturals

CONSTANTS
  Runs,         \* admissions: calls of create or resume
  MaxRequests,  \* bound on the operator's requests
  MaxCrashes,   \* bound on process crashes
  Faults        \* what the store may do besides answering in order

ASSUME BoundsAssumption == MaxRequests \in Nat /\ MaxCrashes \in Nat
ASSUME FaultsAssumption == Faults \subseteq {"read fails", "write fails", "reorders"}

VARIABLES
  row,          \* the durable control row, or "absent"
  writes,       \* saveControlState calls: the value sent and how far it got
  stopped,      \* emergencyStopped
  hydrated,     \* controlStateHydrated
  tail,         \* the write controlStateWrite holds; 0 when it is resolved at boot
  phase,        \* where each admission stands
  awaits,       \* the write each admission waits for
  answer,       \* the row each admission's read saw
  stop,         \* the emergencyStop call: idle, persisting, sweeping, acknowledged
  stopWrite,    \* the write that call waits for
  toCancel,     \* the runs its sweep has still to cancel
  crashes,
  decision,     \* history: what the operator asked for last
  overwritten   \* history: a late read replaced that decision in memory

control == <<row, writes, stopped, hydrated, tail>>
admission == <<phase, awaits, answer>>
sweep == <<stop, stopWrite, toCancel>>
vars == <<control, admission, sweep, crashes, decision, overwritten>>

Settings == {"open", "stopped"}
Requests == 1..MaxRequests
Phases == {"none", "awaiting write", "reading", "answered", "loaded", "preparing",
           "executing", "cancelled"}

TypeOK ==
  /\ row \in Settings \union {"absent"}
  /\ writes \in [Requests -> {"none", "settled"} \union Settings]
  /\ stopped \in Settings
  /\ hydrated \in BOOLEAN
  /\ tail \in 0..MaxRequests
  /\ phase \in [Runs -> Phases]
  /\ awaits \in [Runs -> 0..MaxRequests]
  /\ answer \in [Runs -> Settings \union {"absent"}]
  /\ stop \in {"idle", "persisting", "sweeping", "acknowledged"}
  /\ stopWrite \in 0..MaxRequests
  /\ toCancel \subseteq Runs
  /\ crashes \in 0..MaxCrashes
  /\ decision \in Settings
  /\ overwritten \in BOOLEAN

Init ==
  /\ row = "absent"
  /\ writes = [n \in Requests |-> "none"]
  /\ stopped = "open"
  /\ hydrated = FALSE
  /\ tail = 0
  /\ phase = [r \in Runs |-> "none"]
  /\ awaits = [r \in Runs |-> 0]
  /\ answer = [r \in Runs |-> "absent"]
  /\ stop = "idle"
  /\ stopWrite = 0
  /\ toCancel = {}
  /\ crashes = 0
  /\ decision = "open"
  /\ overwritten = FALSE

Settled(n) == n \in Requests => writes[n] = "settled"
InFlight == {n \in Requests : writes[n] \in Settings}
Active == {r \in Runs : phase[r] \in {"executing", "cancelled"}}

-----------------------------------------------------------------------------
(* The operator. *)

\* persistControlState: the value is taken now and sent; controlStateWrite
\* becomes this write's promise.
PersistControlState(value) ==
  \E n \in Requests :
    /\ writes[n] = "none"
    /\ \A k \in Requests : k < n => writes[k] # "none"
    /\ writes' = [writes EXCEPT ![n] = value]
    /\ tail' = n

\* One emergencyStop call at a time.
EmergencyStop ==
  /\ stop \in {"idle", "acknowledged"}
  /\ stopped' = "stopped"
  /\ hydrated' = TRUE
  /\ PersistControlState("stopped")
  /\ stop' = "persisting"
  /\ stopWrite' = tail'
  /\ decision' = "stopped"
  /\ overwritten' = FALSE
  /\ UNCHANGED <<row, admission, toCancel, crashes>>

\* Mutant: the sweep does not wait for the write.
BeginSweepUnawaited ==
  /\ stop = "persisting"
  /\ stop' = "sweeping"
  /\ toCancel' = Active
  /\ UNCHANGED <<stopWrite, control, admission, crashes, decision, overwritten>>

\* The write is settled (or gave up): take the keys of the active runs.
BeginSweep ==
  /\ stop = "persisting"
  /\ Settled(stopWrite)
  /\ stop' = "sweeping"
  /\ toCancel' = Active
  /\ UNCHANGED <<stopWrite, control, admission, crashes, decision, overwritten>>

\* Mutant: one failing entry ends the sweep as if it were complete.
CancelNextLosesRest(r) ==
  /\ stop = "sweeping"
  /\ r \in toCancel
  /\ toCancel' = {}
  /\ phase' = [phase EXCEPT ![r] = IF @ = "executing" THEN "cancelled" ELSE @]
  /\ UNCHANGED <<control, awaits, answer, stop, stopWrite, crashes, decision, overwritten>>

CancelNext(r) ==
  /\ stop = "sweeping"
  /\ r \in toCancel
  /\ toCancel' = toCancel \ {r}
  /\ phase' = [phase EXCEPT ![r] = IF @ = "executing" THEN "cancelled" ELSE @]
  /\ UNCHANGED <<control, awaits, answer, stop, stopWrite, crashes, decision, overwritten>>

Acknowledge ==
  /\ stop = "sweeping"
  /\ toCancel = {}
  /\ stop' = "acknowledged"
  /\ UNCHANGED <<control, admission, stopWrite, toCancel, crashes, decision, overwritten>>

\* cancel rejects (verifier.cancel or updateRun): so does emergencyStop, and
\* the rest of the sweep is not done.
SweepFails ==
  /\ stop = "sweeping"
  /\ toCancel # {}
  /\ stop' = "idle"
  /\ toCancel' = {}
  /\ UNCHANGED <<control, admission, stopWrite, crashes, decision, overwritten>>

ResumeNewRuns ==
  /\ stopped' = "open"
  /\ hydrated' = TRUE
  /\ PersistControlState("open")
  /\ decision' = "open"
  /\ overwritten' = FALSE
  /\ UNCHANGED <<row, admission, sweep, crashes>>

-----------------------------------------------------------------------------
(* The store's side of saveControlState. *)

WriteLands(n) ==
  /\ n \in InFlight
  /\ "reorders" \in Faults \/ \A k \in InFlight : n <= k
  /\ row' = writes[n]
  /\ writes' = [writes EXCEPT ![n] = "settled"]
  /\ UNCHANGED <<stopped, hydrated, tail, admission, sweep, crashes,
                 decision, overwritten>>

\* The rejection is swallowed: the promise resolves all the same.
WriteFails(n) ==
  /\ "write fails" \in Faults
  /\ n \in InFlight
  /\ writes' = [writes EXCEPT ![n] = "settled"]
  /\ UNCHANGED <<row, stopped, hydrated, tail, admission, sweep, crashes,
                 decision, overwritten>>

-----------------------------------------------------------------------------
(* Admission: create and resume begin with loadControlState. *)

Rest == <<sweep, crashes, decision>>

Move(r, from, to) ==
  /\ phase[r] = from
  /\ phase' = [phase EXCEPT ![r] = to]

Call(r) ==
  /\ Move(r, "none", "awaiting write")
  /\ awaits' = [awaits EXCEPT ![r] = tail]
  /\ UNCHANGED <<control, answer, Rest, overwritten>>

\* Mutant: loadControlState trusts the process's own memory.
WriteAwaitedSkipsRead(r) ==
  /\ Settled(awaits[r])
  /\ Move(r, "awaiting write", "loaded")
  /\ UNCHANGED <<control, awaits, answer, Rest, overwritten>>

WriteAwaited(r) ==
  /\ Settled(awaits[r])
  /\ Move(r, "awaiting write", IF hydrated THEN "loaded" ELSE "reading")
  /\ UNCHANGED <<control, awaits, answer, Rest, overwritten>>

RowRead(r) ==
  /\ Move(r, "reading", "answered")
  /\ answer' = [answer EXCEPT ![r] = row]
  /\ UNCHANGED <<control, awaits, Rest, overwritten>>

\* The answer arrives and is cached, whatever happened since it was read.
Hydrate(r) ==
  /\ Move(r, "answered", "loaded")
  /\ stopped' = IF answer[r] = "absent" THEN stopped ELSE answer[r]
  /\ hydrated' = TRUE
  /\ overwritten' = (overwritten \/ (hydrated /\ stopped' # stopped))
  /\ UNCHANGED <<row, writes, tail, awaits, answer, Rest>>

\* getControlState rejects: the cache is left as it is.
ReadFails(r) ==
  /\ "read fails" \in Faults
  /\ Move(r, "reading", "loaded")
  /\ UNCHANGED <<control, awaits, answer, Rest, overwritten>>

Admit(r) ==
  /\ Move(r, "loaded", IF stopped = "stopped" THEN "none" ELSE "preparing")
  /\ UNCHANGED <<control, awaits, answer, Rest, overwritten>>

\* Mutant: execute starts without looking at the flag again.
StartUnchecked(r) ==
  /\ Move(r, "preparing", "executing")
  /\ UNCHANGED <<control, awaits, answer, Rest, overwritten>>

\* active.set, the re-check and the start of execute, with no await between.
\* A stopped run is cancelled, leaves the active map and never executes.
Start(r) ==
  /\ Move(r, "preparing", IF stopped = "stopped" THEN "none" ELSE "executing")
  /\ UNCHANGED <<control, awaits, answer, Rest, overwritten>>

\* A check before execute throws: the request is answered with an error.
AdmissionFails(r) ==
  /\ Move(r, "preparing", "none")
  /\ UNCHANGED <<control, awaits, answer, Rest, overwritten>>

\* execute settles and its finally block deletes the active entry.
Finish(r) ==
  /\ phase[r] \in {"executing", "cancelled"}
  /\ phase' = [phase EXCEPT ![r] = "none"]
  /\ UNCHANGED <<control, awaits, answer, Rest, overwritten>>

-----------------------------------------------------------------------------
\* The process dies and boots again: memory is lost, and a write it sent may
\* still land or be lost with its connection.
Crash ==
  /\ crashes < MaxCrashes
  /\ crashes' = crashes + 1
  /\ stopped' = "open"
  /\ hydrated' = FALSE
  /\ tail' = 0
  /\ \E lost \in SUBSET InFlight :
       writes' = [n \in Requests |-> IF n \in lost THEN "settled" ELSE writes[n]]
  /\ phase' = [r \in Runs |-> "none"]
  /\ stop' = IF stop = "acknowledged" THEN stop ELSE "idle"
  /\ toCancel' = {}
  /\ overwritten' = FALSE
  /\ UNCHANGED <<row, awaits, answer, stopWrite, decision>>

Next ==
  \/ EmergencyStop \/ BeginSweep \/ Acknowledge \/ SweepFails \/ ResumeNewRuns
  \/ \E r \in Runs :
       \/ CancelNext(r) \/ Call(r) \/ WriteAwaited(r) \/ RowRead(r) \/ Hydrate(r)
       \/ ReadFails(r) \/ Admit(r) \/ Start(r) \/ AdmissionFails(r) \/ Finish(r)
  \/ \E n \in Requests : WriteLands(n) \/ WriteFails(n)
  \/ Crash

Spec == Init /\ [][Next]_vars

\* The store answers what it was sent and the sweep goes on: emergencyStop is
\* code the process runs to its end.  Nobody is obliged to call, to finish a run
\* or to crash.
Fairness ==
  /\ WF_vars(BeginSweep) /\ WF_vars(Acknowledge)
  /\ WF_vars(\E r \in Runs : CancelNext(r))
  /\ WF_vars(\E n \in Requests : WriteLands(n))

FairSpec == Spec /\ Fairness

-----------------------------------------------------------------------------
(* Properties. *)

Quiet == \A r \in Runs : phase[r] # "executing"

\* Once emergencyStop has returned, and until the operator resumes, no run
\* executes except one already cancelled: not one that was being admitted while
\* the stop was made, and not one admitted by a restarted process.  The one case
\* set aside is a late read that replaced the decision in memory (StopStands).
StopHolds ==
  stop = "acknowledged" /\ decision = "stopped" /\ ~overwritten => Quiet

\* The same without the exception: emergencyStop "Cancels every active run and
\* blocks new run creation until resumeNewRuns() is called".
StopStands == stop = "acknowledged" /\ decision = "stopped" => Quiet

\* "if this process dies mid-sweep, the stop must already be durable"
StopDurable ==
  stop \in {"sweeping", "acknowledged"} /\ decision = "stopped" => row = "stopped"

\* The stop reaches every run: after the call, unless it fails, the process dies
\* or the operator resumes, there comes a time when nothing executes.
StopReachesEveryRun ==
  (stop = "persisting" /\ decision = "stopped")
    ~> (Quiet \/ stop = "idle" \/ decision = "open" \/ overwritten)
==============================================================================
