--------------------------- MODULE ModeEnforcement ---------------------------
(***************************************************************************)
(* How a run's execution mode changes while it works: decide and apply     *)
(* (src/domain/mode-controller.ts), planEnforcement                        *)
(* (src/domain/policy-enforcement.ts), and transition, observeAndDecide,   *)
(* requestModeChange, handlePolicyAcknowledgement, runGovernedSession and  *)
(* applyPendingAtBoundary of src/application/run-service.ts.               *)
(*                                                                         *)
(* One execution: its loop drives one agent session after another and asks *)
(* for changes itself; operators ask through the API.  A request is cut at *)
(* its awaits.                                                             *)
(***************************************************************************)
EXTENDS Naturals

CONSTANTS
  ModeOperators,      \* callers of transition
  MaxModeRequests,    \* bound on all requests
  MaxPolicyRestarts,  \* enforcementPolicy.maxPolicyRestarts
  MaxSessions         \* bound on agent sessions: repairs and retries

ASSUME ModeAssumption == MaxPolicyRestarts \in Nat

VARIABLES
  desired, effective,  \* run.desiredMode, run.effectiveMode
  pending,             \* active.pendingPolicy
  sessionOn,           \* active.sessionActive
  restarts,            \* active.policyRestartsUsed
  capability,          \* what the agent declares: live, restart or neither
  request,             \* per requester: its phase, its decision, its plan
  asked,               \* requests so far; the number is the requestId
  updates,             \* policy updates the session has been sent
  loop,                \* where the execution stands
  sessions,
  overlap              \* history: a request was under way when another began
                       \* or when the session began or ended

modeVars == <<desired, effective, pending, sessionOn, restarts, capability, request,
              asked, updates, loop, sessions, overlap>>

Modes == {"STRICT", "GUIDED", "SOLO_NATIVE"}
Freedom == [STRICT |-> 0, GUIDED |-> 1, SOLO_NATIVE |-> 2]
Requesters == ModeOperators \union {"loop"}
NoRequest == [phase |-> "none", to |-> "GUIDED", id |-> 0, method |-> "none"]
NoPolicy == [to |-> "GUIDED", method |-> "none", id |-> 0]

ModeInit ==
  /\ desired = "GUIDED" /\ effective = "GUIDED"
  /\ pending = NoPolicy
  /\ sessionOn = FALSE
  /\ restarts = 0
  /\ capability \in {"live", "restart", "neither"}
  /\ request = [q \in Requesters |-> NoRequest]
  /\ asked = 0
  /\ updates = {}
  /\ loop = "between"
  /\ sessions = 0
  /\ overlap = FALSE

UnderWay == {q \in Requesters : request[q].phase # "none"}
LoopFree == request["loop"].phase = "none"

\* What the controller may want next, over all signals: re-expansion leaves
\* STRICT, an expanding surface leaves GUIDED, a stable scope enters STRICT.
DecideMode(current) ==
  CASE current = "STRICT" -> {"GUIDED", "SOLO_NATIVE"}
    [] current = "GUIDED" -> {"SOLO_NATIVE", "STRICT"}
    [] OTHER -> {"STRICT"}

\* modeController.apply, unless the mode is already in force.
Enforce(to) ==
  /\ effective' = to
  /\ desired' = IF effective = to THEN desired ELSE to

\* Mutant: nothing bounds the restarts.
PlanUnbounded(to) ==
  IF ~sessionOn THEN "SESSION_BOUNDARY"
  ELSE IF capability = "live" THEN "LIVE_UPDATE"
  ELSE IF capability = "restart" /\ Freedom[to] >= Freedom[effective] THEN "SAFE_RESTART"
  ELSE "DEFERRED_BOUNDARY"

PlanEnforcement(to) ==
  IF ~sessionOn THEN "SESSION_BOUNDARY"
  ELSE IF capability = "live" THEN "LIVE_UPDATE"
  ELSE IF capability = "restart" /\ Freedom[to] >= Freedom[effective]
          /\ restarts < MaxPolicyRestarts THEN "SAFE_RESTART"
  ELSE "DEFERRED_BOUNDARY"

-----------------------------------------------------------------------------
(* A request: transition of an operator, observeAndDecide of the loop. *)

Ask(q, to) ==
  /\ asked < MaxModeRequests
  /\ request[q].phase = "none"
  /\ q = "loop" => loop \in {"between", "session"} /\ to \in DecideMode(desired)
  /\ q # "loop" => loop # "done" /\ ~(desired = to /\ effective = to)
  /\ asked' = asked + 1
  /\ request' = [request EXCEPT ![q] =
                   [phase |-> "recorded", to |-> to, id |-> asked', method |-> "none"]]
  /\ desired' = to
  /\ overlap' = (overlap \/ UnderWay # {})
  /\ UNCHANGED <<effective, pending, sessionOn, restarts, capability, updates, loop, sessions>>

\* The run is stored and the capabilities are known.
Plan(q) ==
  /\ request[q].phase = "recorded"
  /\ request' = [request EXCEPT ![q].phase = "planned",
                                ![q].method = PlanEnforcement(request[q].to)]
  /\ UNCHANGED <<desired, effective, pending, sessionOn, restarts, capability, asked,
                 updates, loop, sessions, overlap>>

Pend(q, method) ==
  pending' = [to |-> request[q].to, method |-> method, id |-> request[q].id]

\* ModeChangeRequested is appended.
Act(q) ==
  /\ request[q].phase = "planned"
  /\ request' = [request EXCEPT ![q] = NoRequest]
  /\ \/ /\ request[q].method = "SESSION_BOUNDARY"
        /\ Enforce(request[q].to)
        /\ UNCHANGED <<pending, updates>>
     \/ /\ request[q].method = "LIVE_UPDATE"
        /\ \/ /\ sessionOn
              /\ Pend(q, "LIVE_UPDATE")
              /\ updates' = updates \union {[to |-> request[q].to, id |-> request[q].id]}
           \/ Pend(q, "DEFERRED_BOUNDARY") /\ UNCHANGED updates
        /\ UNCHANGED <<desired, effective>>
     \/ /\ request[q].method \in {"SAFE_RESTART", "DEFERRED_BOUNDARY"}
        /\ Pend(q, request[q].method)
        /\ UNCHANGED <<desired, effective, updates>>
  /\ UNCHANGED <<sessionOn, restarts, capability, asked, loop, sessions, overlap>>

-----------------------------------------------------------------------------
(* The loop. *)

\* Between two points of the loop a request that is under way sees both.
Crosses == overlap' = (overlap \/ UnderWay # {})

StartSession ==
  /\ loop \in {"between", "retrying"} /\ LoopFree
  /\ sessions < MaxSessions
  /\ sessions' = sessions + 1
  /\ loop' = "session"
  /\ sessionOn' = TRUE
  /\ updates' = {}
  /\ Crosses
  /\ UNCHANGED <<desired, effective, pending, restarts, capability, request, asked>>

\* Only the echo of the pending request's own id counts.
Acknowledge ==
  /\ loop = "session" /\ LoopFree
  /\ \E u \in updates :
       /\ updates' = updates \ {u}
       /\ IF pending.method = "LIVE_UPDATE" /\ pending.id = u.id /\ pending.to = u.to
          THEN pending' = NoPolicy /\ Enforce(u.to)
          ELSE UNCHANGED <<pending, desired, effective>>
  /\ UNCHANGED <<sessionOn, restarts, capability, request, asked, loop, sessions, overlap>>

LeaveSession(to) ==
  /\ loop = "session" /\ LoopFree
  /\ loop' = to
  /\ sessionOn' = FALSE
  /\ Crosses
  /\ UNCHANGED <<desired, effective, pending, restarts, capability, request, asked,
                 updates, sessions>>

\* After an event: a pending restart ends the session.
Interrupt == pending.method = "SAFE_RESTART" /\ LeaveSession("interrupted")
SessionOver == pending.method # "SAFE_RESTART" /\ LeaveSession("ended")
SessionFails == \E to \in {"retrying", "done"} : LeaveSession(to)

Restart ==
  /\ loop = "interrupted" /\ pending.method = "SAFE_RESTART"
  /\ restarts' = restarts + 1
  /\ pending' = NoPolicy
  /\ Enforce(pending.to)
  /\ loop' = "retrying"
  /\ Crosses
  /\ UNCHANGED <<sessionOn, capability, request, asked, updates, sessions>>

\* Mutant: the boundary applies only what was planned for it.
BoundaryDeferredOnly ==
  /\ loop = "ended" \/ (loop = "interrupted" /\ pending.method # "SAFE_RESTART")
  /\ loop' = "between"
  /\ IF pending.method # "DEFERRED_BOUNDARY" THEN UNCHANGED <<pending, desired, effective>>
     ELSE pending' = NoPolicy /\ Enforce(pending.to)
  /\ Crosses
  /\ UNCHANGED <<sessionOn, restarts, capability, request, asked, updates, sessions>>

ApplyPendingAtBoundary ==
  /\ loop = "ended" \/ (loop = "interrupted" /\ pending.method # "SAFE_RESTART")
  /\ loop' = "between"
  /\ IF pending = NoPolicy THEN UNCHANGED <<pending, desired, effective>>
     ELSE pending' = NoPolicy /\ Enforce(pending.to)
  /\ Crosses
  /\ UNCHANGED <<sessionOn, restarts, capability, request, asked, updates, sessions>>

\* The verdict is in: no more sessions.
Conclude ==
  /\ loop \in {"between", "retrying"} /\ LoopFree
  /\ loop' = "done"
  /\ UNCHANGED <<desired, effective, pending, sessionOn, restarts, capability, request,
                 asked, updates, sessions, overlap>>

ModeNext ==
  \/ \E q \in Requesters : Plan(q) \/ Act(q) \/ \E to \in Modes : Ask(q, to)
  \/ StartSession \/ Acknowledge \/ Interrupt \/ SessionOver \/ SessionFails
  \/ Restart \/ ApplyPendingAtBoundary \/ Conclude

ModeSpec == ModeInit /\ [][ModeNext]_modeVars

-----------------------------------------------------------------------------
\* Between two sessions nothing is left over: no policy is pending and the
\* effective mode is the desired one, whatever was superseded, acknowledged late,
\* lost or retried.  Set aside: requests that met each other or a session's edge.
ModeSettled ==
  loop = "between" /\ UnderWay = {} /\ ~overlap =>
    pending = NoPolicy /\ desired = effective

\* A run's sessions are restarted for their policy at most maxPolicyRestarts times.
RestartsBounded == ~overlap => restarts <= MaxPolicyRestarts

\* requestModeChange and the session boundaries together: what was decided is what is
\* enforced, at a bounded price.
ModeIsEnforced == ModeSettled /\ RestartsBounded
=============================================================================
