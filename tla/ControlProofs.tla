---------------------------- MODULE ControlProofs ----------------------------
(***************************************************************************)
(* Proofs about what an operator controls: the mode a run works in, for    *)
(* any operators, requests, sessions and restart limit; the provider       *)
(* connections of an owner, for any calls, OAuth states and secrets; what  *)
(* a run may spend, for any reserves, reports and sessions; and the        *)
(* signals the mode is decided from, for any repository and window; and    *)
(* the breaker in front of a provider, for every policy and any callers.   *)
(***************************************************************************)
EXTENDS ModeEnforcement, Connections, SessionBudget, RuntimeSignals, CircuitBreaker,
        FunctionTheorems, FiniteSetTheorems, SequenceTheorems, WellFoundedInduction, TLAPS

-----------------------------------------------------------------------------
(* ModeEnforcement. *)

Methods == {"SESSION_BOUNDARY", "LIVE_UPDATE", "SAFE_RESTART", "DEFERRED_BOUNDARY"}
RequestRecords ==
  [phase : {"none", "recorded", "planned"}, to : Modes, id : Nat, method : Methods \union {"none"}]
PolicyRecords == [to : Modes, method : Methods \union {"none"}, id : Nat]
LoopStates == {"between", "session", "retrying", "interrupted", "ended", "done"}

ModeTypeOK ==
  /\ desired \in Modes /\ effective \in Modes
  /\ pending \in PolicyRecords /\ (pending.method = "none" => pending = NoPolicy)
  /\ restarts \in Nat
  /\ request \in [Requesters -> RequestRecords]
  /\ \A q \in Requesters : request[q].phase = "planned" => request[q].method \in Methods
  /\ asked \in Nat
  /\ updates \in SUBSET [to : Modes, id : Nat]
  /\ loop \in LoopStates
  /\ sessionOn = (loop = "session")
  /\ overlap \in BOOLEAN

\* With effective mode e and desired mode d, enforcing this mode leaves them the same.
Lands(e, d, to) == e = to => d = to

\* What holds as long as no request met another or a session's edge.
ModeQuiet ==
  /\ \A p, q \in UnderWay : p = q
  /\ \A q \in UnderWay : Lands(effective, desired, request[q].to)
  /\ \A q \in Requesters : request[q].phase = "planned" =>
       /\ request[q].method = "SESSION_BOUNDARY" <=> ~sessionOn
       /\ request[q].method = "SAFE_RESTART" => restarts < MaxPolicyRestarts
  /\ UnderWay = {} => IF pending = NoPolicy THEN desired = effective ELSE Lands(effective, desired, pending.to)
  /\ pending.method = "SAFE_RESTART" => restarts < MaxPolicyRestarts
  /\ loop = "between" => pending = NoPolicy
  /\ restarts <= MaxPolicyRestarts

ModeInv == ModeTypeOK /\ (~overlap => ModeQuiet)

\* Enforcing a mode that lands leaves both the same; any other one still lands after it.
LEMMA EnforceLands ==
  ASSUME desired \in Modes, effective \in Modes, NEW to \in Modes, Enforce(to)
  PROVE  /\ effective' = to /\ desired' \in Modes
         /\ Lands(effective, desired, to) => desired' = to
         /\ Lands(effective', desired', to) <=> desired' = to
         /\ \A other \in Modes : other # to => Lands(effective', desired', other)
BY DEF Enforce, Lands

\* Whatever the agent can do, the plan is one of the four methods, the first of them
\* exactly outside a session, and a restart only below the limit.
LEMMA PlanKinds ==
  ASSUME ModeTypeOK, NEW to \in Modes
  PROVE  /\ PlanEnforcement(to) \in Methods
         /\ PlanEnforcement(to) = "SESSION_BOUNDARY" <=> ~sessionOn
         /\ PlanEnforcement(to) = "SAFE_RESTART" => restarts < MaxPolicyRestarts
BY DEF PlanEnforcement, Methods, ModeTypeOK

\* Steps of the loop that touch neither the requests nor the modes, and that no
\* request saw if they were quiet.
LEMMA LoopStep ==
  ASSUME ModeInv, loop' \in LoopStates, sessionOn' = (loop' = "session"),
         updates' \in SUBSET [to : Modes, id : Nat], overlap' \in BOOLEAN,
         ~overlap' => ~overlap,
         ~overlap' /\ sessionOn' # sessionOn => UnderWay = {},
         loop' # "between",
         UNCHANGED <<desired, effective, pending, restarts, request, asked>>
  PROVE  ModeInv'
<1>1. ModeTypeOK'  BY DEF ModeInv, ModeTypeOK
<1>2. ASSUME ~overlap' PROVE ModeQuiet'
  <2>1. ModeQuiet /\ UnderWay' = UnderWay /\ \A to : Lands(effective', desired', to) <=> Lands(effective, desired, to)
    BY <1>2 DEF ModeInv, UnderWay, Lands
  <2>2. \A q \in Requesters : request[q].phase = "planned" => q \in UnderWay
    BY DEF UnderWay
  <2>3. \A q \in Requesters : request'[q].phase = "planned" =>
          /\ request'[q].method = "SESSION_BOUNDARY" <=> ~sessionOn'
          /\ request'[q].method = "SAFE_RESTART" => restarts' < MaxPolicyRestarts
    <3>1. CASE sessionOn' = sessionOn
      BY <2>1, <3>1 DEF ModeQuiet
    <3>2. CASE sessionOn' # sessionOn
      BY <1>2, <2>2, <3>2
    <3> QED BY <3>1, <3>2
  <2> QED BY <2>1, <2>3 DEF ModeQuiet
<1> QED BY <1>1, <1>2 DEF ModeInv

\* A pending policy is taken over at a point of the loop that no request saw, or there
\* is none: nothing is left over.
LEMMA TakeOverStep ==
  ASSUME ModeInv, loop' \in LoopStates \ {"session"}, ~sessionOn, sessionOn' = sessionOn,
         restarts' \in Nat,
         (pending.method = "SAFE_RESTART" /\ restarts' = restarts + 1) \/ restarts' = restarts,
         overlap' = (overlap \/ UnderWay # {}),
         \/ pending' = NoPolicy /\ Enforce(pending.to) /\ pending # NoPolicy
         \/ pending = NoPolicy /\ UNCHANGED <<pending, desired, effective>>,
         UNCHANGED <<request, asked, updates>>
  PROVE  ModeInv'
<1>1. pending.to \in Modes /\ desired \in Modes /\ effective \in Modes
  BY DEF ModeInv, ModeTypeOK, PolicyRecords
<1>2. pending' = NoPolicy /\ desired' \in Modes /\ effective' \in Modes
  BY <1>1, EnforceLands
<1>3. NoPolicy \in PolicyRecords /\ NoPolicy.method = "none"
  BY DEF NoPolicy, PolicyRecords, Modes
<1>4. ModeTypeOK'
  <2>1. sessionOn' = (loop' = "session") /\ overlap' \in BOOLEAN
    BY DEF ModeInv, ModeTypeOK
  <2> QED BY <1>2, <1>3, <2>1 DEF ModeInv, ModeTypeOK
<1>5. ASSUME ~overlap' PROVE ModeQuiet'
  <2>1. ModeQuiet /\ UnderWay = {}  BY <1>5 DEF ModeInv
  <2>2. UnderWay' = {} /\ \A q \in Requesters : request'[q].phase = "none"
    BY <2>1 DEF UnderWay
  <2>3. desired' = effective'
    <3>1. CASE pending = NoPolicy
      BY <2>1, <3>1 DEF ModeQuiet
    <3>2. CASE pending # NoPolicy
      <4>1. Lands(effective, desired, pending.to) /\ Enforce(pending.to)  BY <2>1, <3>2 DEF ModeQuiet
      <4> QED BY <1>1, <4>1, EnforceLands
    <3> QED BY <3>1, <3>2
  <2>4. restarts' <= MaxPolicyRestarts
    BY <2>1, ModeAssumption DEF ModeQuiet, ModeInv, ModeTypeOK
  <2> QED BY <1>2, <1>3, <2>2, <2>3, <2>4 DEF ModeQuiet
<1> QED BY <1>4, <1>5 DEF ModeInv

\* Every step of an operator, the loop or the agent keeps the invariant.
LEMMA ModeStep == ASSUME ModeInv, [ModeNext]_modeVars PROVE ModeInv'
<1>0. ModeTypeOK  BY DEF ModeInv
<1>1. ASSUME NEW q \in Requesters, NEW to \in Modes, Ask(q, to) PROVE ModeInv'
  <2> DEFINE new == [phase |-> "recorded", to |-> to, id |-> asked + 1, method |-> "none"]
  <2>1. /\ request[q].phase = "none" /\ asked' = asked + 1 /\ desired' = to
        /\ request' = [request EXCEPT ![q] = new]
        /\ overlap' = (overlap \/ UnderWay # {})
        /\ UNCHANGED <<effective, pending, sessionOn, restarts, updates, loop>>
    BY <1>1 DEF Ask
  <2>2. new \in RequestRecords  BY <1>0 DEF ModeTypeOK, RequestRecords
  <2>3. request' \in [Requesters -> RequestRecords]  BY <1>0, <2>1, <2>2 DEF ModeTypeOK
  <2>4. /\ request'[q] = new /\ \A p \in Requesters : p # q => request'[p] = request[p]
    BY <1>0, <2>1 DEF ModeTypeOK
  <2>5. new.phase = "recorded" /\ new.to = to  OBVIOUS
  <2> HIDE DEF new
  <2>6. ModeTypeOK'
    <3>1. \A p \in Requesters : request'[p].phase = "planned" => request'[p].method \in Methods
      BY <1>0, <2>4, <2>5 DEF ModeTypeOK
    <3> QED BY <1>0, <2>1, <2>3, <3>1 DEF ModeTypeOK
  <2>7. ASSUME ~overlap' PROVE ModeQuiet'
    <3>1. ModeQuiet /\ UnderWay = {}  BY <2>1, <2>7 DEF ModeInv
    <3>2. \A p \in Requesters : p # q => request'[p].phase = "none"
      BY <2>4, <3>1 DEF UnderWay
    <3>3. UnderWay' = {q}  BY <2>4, <2>5, <3>2 DEF UnderWay
    <3>4. Lands(effective', desired', to)  BY <2>1 DEF Lands
    <3>5. \A p \in Requesters : request'[p].phase # "planned"  BY <2>4, <2>5, <3>2
    <3>6. \A p \in UnderWay' : Lands(effective', desired', request'[p].to)
      BY <2>1, <2>4, <2>5, <3>3 DEF Lands
    <3> QED BY <2>1, <3>1, <3>3, <3>5, <3>6 DEF ModeQuiet
  <2> QED BY <2>6, <2>7 DEF ModeInv
<1>2. ASSUME NEW q \in Requesters, Plan(q) PROVE ModeInv'
  <2> DEFINE method == PlanEnforcement(request[q].to)
  <2>1. /\ request[q].phase = "recorded"
        /\ request' = [request EXCEPT ![q].phase = "planned", ![q].method = method]
        /\ UNCHANGED <<desired, effective, pending, sessionOn, restarts, asked, updates, loop, overlap>>
    BY <1>2 DEF Plan
  <2>2. request[q] \in RequestRecords /\ request[q].to \in Modes
    BY <1>0 DEF ModeTypeOK, RequestRecords
  <2>3. /\ method \in Methods /\ (method = "SESSION_BOUNDARY" <=> ~sessionOn)
        /\ method = "SAFE_RESTART" => restarts < MaxPolicyRestarts
    BY <1>0, <2>2, PlanKinds
  <2> HIDE DEF method
  <2>4. /\ request'[q] \in RequestRecords /\ request'[q].phase = "planned"
        /\ request'[q].to = request[q].to /\ request'[q].method = method
        /\ \A p \in Requesters : p # q => request'[p] = request[p]
    BY <1>0, <2>1, <2>2, <2>3 DEF ModeTypeOK, RequestRecords
  <2>5. request' \in [Requesters -> RequestRecords]
    BY <1>0, <2>1, <2>4 DEF ModeTypeOK
  <2>6. ModeTypeOK'
    <3>1. \A p \in Requesters : request'[p].phase = "planned" => request'[p].method \in Methods
      BY <1>0, <2>3, <2>4 DEF ModeTypeOK
    <3> QED BY <1>0, <2>1, <2>5, <3>1 DEF ModeTypeOK
  <2>7. ASSUME ~overlap' PROVE ModeQuiet'
    <3>1. ModeQuiet  BY <2>1, <2>7 DEF ModeInv
    <3>2. UnderWay' = UnderWay /\ q \in UnderWay  BY <2>1, <2>4 DEF UnderWay
    <3>3. \A p \in Requesters : Lands(effective', desired', request'[p].to) <=> Lands(effective, desired, request[p].to)
      BY <2>1, <2>4 DEF Lands
    <3>4. Lands(effective', desired', pending.to) <=> Lands(effective, desired, pending.to)  BY <2>1 DEF Lands
    <3>5. \A p \in UnderWay' : Lands(effective', desired', request'[p].to)
      BY <3>1, <3>2, <3>3 DEF ModeQuiet, UnderWay
    <3>6. \A p \in Requesters : request'[p].phase = "planned" =>
            /\ request'[p].method = "SESSION_BOUNDARY" <=> ~sessionOn'
            /\ request'[p].method = "SAFE_RESTART" => restarts' < MaxPolicyRestarts
      BY <2>1, <2>3, <2>4, <3>1 DEF ModeQuiet
    <3> QED BY <2>1, <3>1, <3>2, <3>4, <3>5, <3>6 DEF ModeQuiet
  <2> QED BY <2>6, <2>7 DEF ModeInv
<1>3. ASSUME NEW q \in Requesters, Act(q) PROVE ModeInv'
  <2> DEFINE to == request[q].to
  <2>1. /\ request[q].phase = "planned" /\ request' = [request EXCEPT ![q] = NoRequest]
        /\ UNCHANGED <<sessionOn, restarts, asked, loop, overlap>>
    BY <1>3 DEF Act
  <2>2. request[q] \in RequestRecords /\ to \in Modes /\ request[q].id \in Nat
    BY <1>0 DEF ModeTypeOK, RequestRecords
  <2>3. NoRequest \in RequestRecords /\ NoRequest.phase = "none"
    BY DEF NoRequest, RequestRecords, Modes
  <2>4. /\ request'[q] = NoRequest /\ \A p \in Requesters : p # q => request'[p] = request[p]
        /\ request' \in [Requesters -> RequestRecords]
    BY <1>0, <2>1, <2>3 DEF ModeTypeOK
  <2>5. \A p \in Requesters : request'[p].phase = "planned" => request'[p].method \in Methods
    BY <1>0, <2>3, <2>4 DEF ModeTypeOK
  <2>6. ASSUME ~overlap'
        PROVE  /\ ModeQuiet /\ q \in UnderWay /\ Lands(effective, desired, to) /\ UnderWay' = {}
               /\ \A p \in Requesters : request'[p].phase = "none"
               /\ request[q].method = "SESSION_BOUNDARY" <=> ~sessionOn
               /\ request[q].method = "SAFE_RESTART" => restarts < MaxPolicyRestarts
    <3>1. ModeQuiet /\ q \in UnderWay  BY <2>1, <2>6 DEF ModeInv, UnderWay
    <3>2. \A p \in Requesters : request'[p].phase = "none"
      BY <2>3, <2>4, <3>1 DEF ModeQuiet, UnderWay
    <3>3. UnderWay' = {}  BY <3>2 DEF UnderWay
    <3> QED BY <2>1, <3>1, <3>2, <3>3 DEF ModeQuiet
  <2>7. CASE /\ request[q].method = "SESSION_BOUNDARY" /\ Enforce(to)
             /\ UNCHANGED <<pending, updates>>
    <3>1. ModeTypeOK'
      <4>1. desired' \in Modes /\ effective' \in Modes  BY <1>0, <2>2, <2>7, EnforceLands DEF ModeTypeOK
      <4> QED BY <1>0, <2>1, <2>4, <2>5, <2>7, <4>1 DEF ModeTypeOK
    <3>2. ASSUME ~overlap' PROVE ModeQuiet'
      <4>1. desired' = to /\ effective' = to /\ \A other \in Modes : other # to => Lands(effective', desired', other)
        BY <1>0, <2>2, <2>6, <2>7, <3>2, EnforceLands DEF ModeTypeOK
      <4>2. pending.to \in Modes  BY <1>0 DEF ModeTypeOK, PolicyRecords
      <4>3. Lands(effective', desired', pending.to)  BY <4>1 DEF Lands
      <4> QED BY <2>1, <2>6, <2>7, <3>2, <4>1, <4>3 DEF ModeQuiet
    <3> QED BY <3>1, <3>2 DEF ModeInv
  <2>8. ASSUME NEW method \in Methods \ {"SESSION_BOUNDARY"}, Pend(q, method),
               method = "SAFE_RESTART" => request[q].method = "SAFE_RESTART",
               request[q].method # "SESSION_BOUNDARY",
               updates' \in SUBSET [to : Modes, id : Nat], UNCHANGED <<desired, effective>>
        PROVE  ModeInv'
    <3>1. /\ pending' \in PolicyRecords /\ pending'.method = method /\ pending'.to = to
      BY <2>2, <2>8 DEF Pend, PolicyRecords
    <3>2. pending'.method # "none"  BY <3>1 DEF Methods
    <3>3. pending' # NoPolicy  BY <3>2 DEF NoPolicy
    <3>4. ModeTypeOK'
      BY <1>0, <2>1, <2>4, <2>5, <2>8, <3>1, <3>2 DEF ModeTypeOK
    <3>5. ASSUME ~overlap' PROVE ModeQuiet'
      <4>1. Lands(effective', desired', pending'.to)  BY <2>6, <2>8, <3>1, <3>5 DEF Lands
      <4>2. loop' # "between"
        BY <1>0, <2>1, <2>6, <2>8, <3>5 DEF ModeTypeOK
      <4> QED BY <2>1, <2>6, <2>8, <3>1, <3>3, <3>5, <4>1, <4>2 DEF ModeQuiet
    <3> QED BY <3>4, <3>5 DEF ModeInv
  <2>9. CASE request[q].method = "LIVE_UPDATE" /\ UNCHANGED <<desired, effective>>
             /\ Pend(q, "LIVE_UPDATE")
             /\ updates' = updates \union {[to |-> to, id |-> request[q].id]}
    <3>1. updates' \in SUBSET [to : Modes, id : Nat]  BY <1>0, <2>2, <2>9 DEF ModeTypeOK
    <3>2. "LIVE_UPDATE" \in Methods \ {"SESSION_BOUNDARY"}  BY DEF Methods
    <3> QED BY <2>8, <2>9, <3>1, <3>2
  <2>10. CASE request[q].method = "LIVE_UPDATE" /\ UNCHANGED <<desired, effective, updates>>
              /\ Pend(q, "DEFERRED_BOUNDARY")
    <3>1. updates' \in SUBSET [to : Modes, id : Nat]  BY <1>0, <2>10 DEF ModeTypeOK
    <3>2. "DEFERRED_BOUNDARY" \in Methods \ {"SESSION_BOUNDARY"}  BY DEF Methods
    <3> QED BY <2>8, <2>10, <3>1, <3>2
  <2>11. CASE /\ request[q].method \in {"SAFE_RESTART", "DEFERRED_BOUNDARY"}
              /\ Pend(q, request[q].method) /\ UNCHANGED <<desired, effective, updates>>
    <3>1. updates' \in SUBSET [to : Modes, id : Nat]  BY <1>0, <2>11 DEF ModeTypeOK
    <3>2. request[q].method \in Methods \ {"SESSION_BOUNDARY"}  BY <2>11 DEF Methods
    <3> QED BY <2>8, <2>11, <3>1, <3>2
  <2> QED BY <1>3, <2>7, <2>9, <2>10, <2>11 DEF Act
<1>4. CASE StartSession
  <2>1. /\ loop' = "session" /\ sessionOn' = TRUE /\ updates' = {}
        /\ overlap' = (overlap \/ UnderWay # {})
        /\ UNCHANGED <<desired, effective, pending, restarts, request, asked>>
    BY <1>4 DEF StartSession, Crosses
  <2>2. loop' \in LoopStates /\ overlap' \in BOOLEAN  BY <1>0, <2>1 DEF LoopStates, ModeTypeOK
  <2> QED BY <2>1, <2>2, LoopStep
<1>5. ASSUME NEW to \in {"interrupted", "ended", "retrying", "done"}, LeaveSession(to) PROVE ModeInv'
  <2>1. /\ loop' = to /\ sessionOn' = FALSE /\ updates' = updates
        /\ overlap' = (overlap \/ UnderWay # {})
        /\ UNCHANGED <<desired, effective, pending, restarts, request, asked>>
    BY <1>5 DEF LeaveSession, Crosses
  <2>2. /\ loop' \in LoopStates /\ loop' # "between" /\ sessionOn' = (loop' = "session")
        /\ overlap' \in BOOLEAN /\ updates' \in SUBSET [to : Modes, id : Nat]
    BY <1>0, <2>1 DEF LoopStates, ModeTypeOK
  <2> QED BY <2>1, <2>2, LoopStep
<1>6. CASE Conclude
  <2>1. /\ loop' = "done" /\ loop # "session"
        /\ UNCHANGED <<desired, effective, pending, restarts, request, asked, sessionOn, updates, overlap>>
    BY <1>6 DEF Conclude
  <2>2. /\ loop' \in LoopStates /\ sessionOn' = (loop' = "session")
        /\ overlap' \in BOOLEAN /\ updates' \in SUBSET [to : Modes, id : Nat]
    BY <1>0, <2>1 DEF LoopStates, ModeTypeOK
  <2> QED BY <2>1, <2>2, LoopStep
<1>7. CASE Acknowledge
  <2>1. PICK u \in updates :
          /\ updates' = updates \ {u}
          /\ IF pending.method = "LIVE_UPDATE" /\ pending.id = u.id /\ pending.to = u.to
             THEN pending' = NoPolicy /\ Enforce(u.to)
             ELSE UNCHANGED <<pending, desired, effective>>
    BY <1>7 DEF Acknowledge
  <2>2. /\ loop = "session" /\ UNCHANGED <<sessionOn, restarts, request, asked, loop, overlap>>
        /\ updates' \in SUBSET [to : Modes, id : Nat] /\ pending.to \in Modes
    BY <1>0, <1>7, <2>1 DEF Acknowledge, ModeTypeOK, PolicyRecords
  <2>3. CASE UNCHANGED <<pending, desired, effective>>
    <3>1. loop' \in LoopStates /\ sessionOn' = (loop' = "session") /\ overlap' \in BOOLEAN
      BY <1>0, <2>2 DEF ModeTypeOK
    <3> QED BY <2>2, <2>3, <3>1, LoopStep
  <2>4. CASE pending.method = "LIVE_UPDATE" /\ pending' = NoPolicy /\ Enforce(pending.to)
    <3>1. NoPolicy \in PolicyRecords /\ NoPolicy.method = "none"
      BY DEF NoPolicy, PolicyRecords, Modes
    <3>2. /\ desired' \in Modes /\ effective' = pending.to
          /\ \A other \in Modes : Lands(effective, desired, other) => Lands(effective', desired', other)
          /\ Lands(effective, desired, pending.to) => desired' = effective'
      <4>1. /\ effective' = pending.to /\ desired' \in Modes
            /\ Lands(effective, desired, pending.to) => desired' = pending.to
            /\ Lands(effective', desired', pending.to) <=> desired' = pending.to
            /\ \A other \in Modes : other # pending.to => Lands(effective', desired', other)
        BY <1>0, <2>2, <2>4, EnforceLands DEF ModeTypeOK
      <4> QED BY <4>1
    <3>3. ModeTypeOK'  BY <1>0, <2>2, <2>4, <3>1, <3>2 DEF ModeTypeOK
    <3>4. ASSUME ~overlap' PROVE ModeQuiet'
      <4>1. ModeQuiet /\ UnderWay' = UnderWay  BY <2>2, <3>4 DEF ModeInv, UnderWay
      <4>2. \A p \in UnderWay : request[p].to \in Modes
        BY <1>0 DEF ModeTypeOK, RequestRecords, UnderWay
      <4>3. \A p \in UnderWay' : Lands(effective', desired', request[p].to)
        BY <3>2, <4>1, <4>2 DEF ModeQuiet
      <4>4. \A p \in UnderWay' : Lands(effective', desired', request'[p].to)
        BY <2>2, <4>3 DEF Lands
      <4>5. pending # NoPolicy  BY <2>4, <3>1
      <4>6. UnderWay' = {} => desired' = effective'  BY <3>2, <4>1, <4>5 DEF ModeQuiet
      <4> QED BY <2>2, <2>4, <3>1, <4>1, <4>4, <4>6 DEF ModeQuiet
    <3> QED BY <3>3, <3>4 DEF ModeInv
  <2> QED BY <2>1, <2>3, <2>4
<1>8. CASE Restart
  <2>1. /\ loop = "interrupted" /\ pending.method = "SAFE_RESTART" /\ restarts' = restarts + 1
        /\ pending' = NoPolicy /\ Enforce(pending.to) /\ loop' = "retrying"
        /\ overlap' = (overlap \/ UnderWay # {}) /\ UNCHANGED <<sessionOn, request, asked, updates>>
    BY <1>8 DEF Restart, Crosses
  <2>2. loop' \in LoopStates \ {"session"} /\ ~sessionOn
    BY <1>0, <2>1 DEF LoopStates, ModeTypeOK
  <2>3. pending # NoPolicy  BY <2>1 DEF NoPolicy
  <2>4. restarts \in Nat  BY <1>0 DEF ModeTypeOK
  <2>5. restarts' \in Nat  BY <2>1, <2>4
  <2> QED BY <2>1, <2>2, <2>3, <2>5, TakeOverStep
<1>9. CASE ApplyPendingAtBoundary
  <2>1. /\ loop \in {"ended", "interrupted"} /\ loop' = "between"
        /\ IF pending = NoPolicy THEN UNCHANGED <<pending, desired, effective>>
           ELSE pending' = NoPolicy /\ Enforce(pending.to)
        /\ overlap' = (overlap \/ UnderWay # {})
        /\ UNCHANGED <<sessionOn, restarts, request, asked, updates>>
    BY <1>9 DEF ApplyPendingAtBoundary, Crosses
  <2>2. loop' \in LoopStates \ {"session"} /\ ~sessionOn /\ restarts' \in Nat
    BY <1>0, <2>1 DEF LoopStates, ModeTypeOK
  <2> QED BY <2>1, <2>2, TakeOverStep
<1>10. CASE Interrupt \/ SessionOver \/ SessionFails
  BY <1>5, <1>10 DEF Interrupt, SessionOver, SessionFails
<1>11. CASE UNCHANGED modeVars
  BY <1>11 DEF modeVars, ModeInv, ModeTypeOK, ModeQuiet, UnderWay, Lands
<1> QED BY <1>1, <1>2, <1>3, <1>4, <1>6, <1>7, <1>8, <1>9, <1>10, <1>11 DEF ModeNext

\* Between two sessions what was decided is what is enforced, and no run is restarted for
\* its policy more often than the limit, however many requests were superseded,
\* acknowledged late, lost or retried.
THEOREM ModeHolds == ModeSpec => []ModeIsEnforced
<1>1. ModeInit => ModeInv
  <2> SUFFICES ASSUME ModeInit PROVE ModeInv
    OBVIOUS
  <2>1. /\ NoPolicy \in PolicyRecords /\ NoRequest \in RequestRecords
        /\ NoRequest.phase = "none" /\ NoPolicy.method = "none"
    BY DEF NoPolicy, PolicyRecords, NoRequest, RequestRecords, Modes
  <2>2. \A q \in Requesters : request[q].phase = "none"  BY <2>1 DEF ModeInit
  <2>3. UnderWay = {}  BY <2>2 DEF UnderWay
  <2>4. ModeTypeOK
    BY <2>1, <2>2 DEF ModeInit, ModeTypeOK, Modes, LoopStates
  <2>5. ModeQuiet
    BY <2>1, <2>2, <2>3, ModeAssumption DEF ModeInit, ModeQuiet
  <2> QED BY <2>4, <2>5 DEF ModeInv
<1>2. ModeInv => ModeIsEnforced
  BY DEF ModeInv, ModeQuiet, ModeIsEnforced, ModeSettled, RestartsBounded
<1> QED BY <1>1, <1>2, ModeStep, PTL DEF ModeSpec

-----------------------------------------------------------------------------
(* Connections. *)

CallRecord == [kind : {"none", "exchange", "refresh", "probe"}, ref : Nat]

ConnTypeOK ==
  /\ minted \in Nat /\ minted <= MaxSecrets
  /\ vault \subseteq 1..minted
  /\ oauth \in [OAuthStates -> {"new", "open", "used"}]
  /\ exchanges \in [OAuthStates -> Nat]
  /\ inFlight \in [ConnCalls -> CallRecord]

\* Every reference in use is of the vault, and no two of them share a secret.
ReferencesApart ==
  /\ configured \in vault \union {0, EnvReference}
  /\ custom \in vault \union {0}
  /\ account \in vault \union {0}
  /\ configured # 0 => configured # custom /\ configured # account
  /\ custom # 0 => custom # account

\* The token that a refresh under way will remove is no other connection's secret.
RefreshesApart ==
  \A c \in ConnCalls : inFlight[c].kind = "refresh" =>
    inFlight[c].ref \in 1..minted /\ inFlight[c].ref \notin {configured, custom}

ConnInv ==
  /\ ConnTypeOK /\ ReferencesApart /\ RefreshesApart
  /\ \A s \in OAuthStates : exchanges[s] <= IF oauth[s] = "used" THEN 1 ELSE 0

\* Requests that come and go while the vault and what refers to it stay.
LEMMA CallStep ==
  ASSUME ConnInv, NEW c \in ConnCalls, NEW value \in CallRecord,
         inFlight' = [inFlight EXCEPT ![c] = value],
         value.kind = "refresh" => value.ref = account /\ account # 0,
         UNCHANGED <<vault, minted, configured, custom, account>>
  PROVE  /\ inFlight' \in [ConnCalls -> CallRecord]
         /\ ReferencesApart' /\ RefreshesApart'
<1>1. inFlight' \in [ConnCalls -> CallRecord]  BY DEF ConnInv, ConnTypeOK
<1>2. ReferencesApart'  BY DEF ConnInv, ReferencesApart, EnvReference
<1>3. ASSUME NEW d \in ConnCalls, inFlight'[d].kind = "refresh"
      PROVE  inFlight'[d].ref \in 1..minted /\ inFlight'[d].ref \notin {configured, custom}
  <2>1. CASE d = c
    <3>1. inFlight'[d] = value  BY <2>1 DEF ConnInv, ConnTypeOK
    <3>2. value.ref = account /\ account # 0  BY <1>3, <3>1
    <3>3. account \in 1..minted /\ account \notin {configured, custom}
      BY <3>2 DEF ConnInv, ConnTypeOK, ReferencesApart
    <3> QED BY <3>1, <3>2, <3>3
  <2>2. CASE d # c
    <3>1. inFlight'[d] = inFlight[d]  BY <2>2 DEF ConnInv, ConnTypeOK
    <3> QED BY <1>3, <3>1 DEF ConnInv, RefreshesApart
  <2> QED BY <2>1, <2>2
<1>4. RefreshesApart'  BY <1>3 DEF RefreshesApart
<1> QED BY <1>1, <1>2, <1>4

\* vault.put: the secret is a new one, none of those referred to.
LEMMA PutFresh ==
  ASSUME ConnInv, NEW removed, Put(removed)
  PROVE  /\ minted' = minted + 1 /\ minted' \in Nat /\ minted' <= MaxSecrets
         /\ vault' = (vault \union {minted + 1}) \ removed
         /\ vault' \subseteq 1..minted' /\ minted + 1 \notin vault
         /\ minted + 1 # 0 /\ minted + 1 # EnvReference
         /\ \A x \in 1..minted : x \in 1..minted' /\ x # minted + 1
         /\ 0 \notin vault /\ EnvReference \notin vault
<1>1. /\ minted \in Nat /\ minted < MaxSecrets /\ minted' = minted + 1
      /\ vault' = (vault \union {minted + 1}) \ removed /\ vault \subseteq 1..minted
  BY DEF Put, ConnInv, ConnTypeOK
<1>2. /\ minted + 1 \in Nat /\ minted + 1 <= MaxSecrets /\ minted + 1 # 0
      /\ minted + 1 # MaxSecrets + 1 /\ MaxSecrets + 1 \notin 1..minted
      /\ \A x \in 1..minted : x \in 1..(minted + 1) /\ x # minted + 1 /\ x # 0
      /\ minted + 1 \in 1..(minted + 1)
  BY <1>1, ConnAssumption
<1> QED BY <1>1, <1>2 DEF EnvReference

\* A login or a refresh ends: the new token is the account's, and what it removes is
\* no connection's secret.
LEMMA TokenStep ==
  ASSUME ConnInv, NEW c \in ConnCalls, NEW old, Put({old}),
         old \notin {configured, custom} \ {0},
         account' = minted + 1, inFlight' = [inFlight EXCEPT ![c] = NoCall],
         UNCHANGED <<configured, custom, oauth, exchanges>>,
         old # minted + 1
  PROVE  ConnInv'
<1>1. /\ minted' = minted + 1 /\ minted' \in Nat /\ minted' <= MaxSecrets
      /\ vault' = (vault \union {minted + 1}) \ {old}
      /\ vault' \subseteq 1..minted' /\ minted + 1 \notin vault
      /\ minted + 1 # 0 /\ minted + 1 # EnvReference
      /\ \A x \in 1..minted : x \in 1..minted' /\ x # minted + 1
      /\ 0 \notin vault
  BY PutFresh
<1>2. NoCall \in CallRecord /\ NoCall.kind = "none"  BY DEF NoCall, CallRecord
<1>3. inFlight' \in [ConnCalls -> CallRecord]  BY <1>2 DEF ConnInv, ConnTypeOK
<1>4. ReferencesApart'
  <2>1. /\ configured \in vault \union {0, EnvReference} /\ custom \in vault \union {0}
        /\ configured # 0 => configured # custom
    BY DEF ConnInv, ReferencesApart
  <2>2. EnvReference' = EnvReference  BY DEF EnvReference
  <2>3. configured' \in vault' \union {0, EnvReference}  BY <1>1, <2>1
  <2>4. custom' \in vault' \union {0}  BY <1>1, <2>1
  <2>5. account' \in vault'  BY <1>1
  <2>6. configured # account' /\ custom # account'  BY <1>1, <2>1
  <2> QED BY <2>1, <2>2, <2>3, <2>4, <2>5, <2>6 DEF ReferencesApart
<1>5. RefreshesApart'
  <2>1. ASSUME NEW d \in ConnCalls, inFlight'[d].kind = "refresh"
        PROVE  inFlight'[d].ref \in 1..minted' /\ inFlight'[d].ref \notin {configured', custom'}
    <3>1. inFlight'[d] = inFlight[d]  BY <1>2, <2>1 DEF ConnInv, ConnTypeOK
    <3>2. inFlight[d].ref \in 1..minted /\ inFlight[d].ref \notin {configured, custom}
      BY <2>1, <3>1 DEF ConnInv, RefreshesApart
    <3> QED BY <1>1, <3>1, <3>2
  <2> QED BY <2>1 DEF RefreshesApart
<1> QED BY <1>1, <1>3, <1>4, <1>5 DEF ConnInv, ConnTypeOK

LEMMA ConnStep == ASSUME ConnInv, ConnNext PROVE ConnInv' /\ HealthIsOfTheEndpoint
<1>0. ConnTypeOK /\ ReferencesApart /\ RefreshesApart  BY DEF ConnInv
<1>1. CASE ConfigureEnvironment
  <2>1. configured' = EnvReference
        /\ UNCHANGED <<vault, minted, custom, customHealth, account, oauth, exchanges, inFlight>>
    BY <1>1 DEF ConfigureEnvironment
  <2>2. EnvReference \in Nat /\ EnvReference # 0 /\ EnvReference \notin 1..minted
    BY <1>0, ConnAssumption DEF EnvReference, ConnTypeOK
  <2>3. EnvReference' = EnvReference  BY DEF EnvReference
  <2>4. ReferencesApart'
    BY <1>0, <2>1, <2>2, <2>3 DEF ReferencesApart, ConnTypeOK
  <2>5. RefreshesApart'  BY <1>0, <2>1, <2>2 DEF RefreshesApart
  <2> QED BY <1>0, <2>1, <2>4, <2>5 DEF ConnInv, ConnTypeOK, HealthIsOfTheEndpoint
<1>2. CASE ConfigureVault \/ ConfigureCustom
  <2>1. /\ minted' = minted + 1 /\ minted' \in Nat /\ minted' <= MaxSecrets
        /\ vault' = vault \union {minted + 1}
        /\ vault' \subseteq 1..minted' /\ minted + 1 \notin vault
        /\ minted + 1 # 0 /\ minted + 1 # EnvReference
        /\ \A x \in 1..minted : x \in 1..minted' /\ x # minted + 1
        /\ 0 \notin vault
    BY <1>2, PutFresh DEF ConfigureVault, ConfigureCustom
  <2>2. /\ \/ configured' = minted + 1 /\ custom' = custom /\ customHealth' = customHealth
           \/ configured' = configured /\ custom' = minted + 1 /\ customHealth' = "CONFIGURED"
        /\ UNCHANGED <<account, oauth, exchanges, inFlight>>
    BY <1>2 DEF ConfigureVault, ConfigureCustom
  <2>3. EnvReference' = EnvReference  BY DEF EnvReference
  <2>4. ReferencesApart'
    BY <1>0, <2>1, <2>2, <2>3 DEF ReferencesApart
  <2>5. RefreshesApart'
    <3>1. ASSUME NEW d \in ConnCalls, inFlight[d].kind = "refresh"
          PROVE  inFlight[d].ref \in 1..minted' /\ inFlight[d].ref \notin {configured', custom'}
      <4>1. inFlight[d].ref \in 1..minted /\ inFlight[d].ref \notin {configured, custom}
        BY <1>0, <3>1 DEF RefreshesApart
      <4> QED BY <2>1, <2>2, <4>1
    <3> QED BY <2>2, <3>1 DEF RefreshesApart
  <2>6. HealthIsOfTheEndpoint
    BY <2>2 DEF HealthIsOfTheEndpoint, ProbeResults
  <2>7. ConnTypeOK'  BY <1>0, <2>1, <2>2 DEF ConnTypeOK
  <2> QED BY <2>2, <2>4, <2>5, <2>6, <2>7 DEF ConnInv
<1>3. CASE Disconnect
  <2>1. UNCHANGED <<minted, oauth, exchanges, inFlight>>  BY <1>3 DEF Disconnect
  <2>2. EnvReference' = EnvReference /\ 0 \notin vault
    BY <1>0 DEF EnvReference, ConnTypeOK
  <2>3. /\ vault' \subseteq vault /\ ReferencesApart' /\ HealthIsOfTheEndpoint
        /\ configured' \in {configured, 0} /\ custom' \in {custom, 0}
    <3>1. CASE account # 0 /\ vault' = vault \ {account} /\ account' = 0
               /\ UNCHANGED <<configured, custom, customHealth>>
      BY <1>0, <2>2, <3>1 DEF ReferencesApart, HealthIsOfTheEndpoint
    <3>2. CASE custom # 0 /\ vault' = vault \ {custom} /\ custom' = 0 /\ customHealth' = "NONE"
               /\ UNCHANGED <<configured, account>>
      BY <1>0, <2>2, <3>2 DEF ReferencesApart, HealthIsOfTheEndpoint, ProbeResults
    <3>3. CASE configured # 0 /\ vault' = vault \ {configured} /\ configured' = 0
               /\ UNCHANGED <<account, custom, customHealth>>
      BY <1>0, <2>2, <3>3 DEF ReferencesApart, HealthIsOfTheEndpoint
    <3> QED BY <1>3, <3>1, <3>2, <3>3 DEF Disconnect
  <2>4. RefreshesApart'
    <3>1. ASSUME NEW d \in ConnCalls, inFlight[d].kind = "refresh"
          PROVE  inFlight[d].ref \in 1..minted /\ inFlight[d].ref \notin {configured', custom'}
      <4>1. inFlight[d].ref \in 1..minted /\ inFlight[d].ref \notin {configured, custom}
        BY <1>0, <3>1 DEF RefreshesApart
      <4>2. inFlight[d].ref # 0  BY <1>0, <4>1 DEF ConnTypeOK
      <4> QED BY <2>3, <4>1, <4>2
    <3> QED BY <2>1, <3>1 DEF RefreshesApart
  <2>5. ConnTypeOK'  BY <1>0, <2>1, <2>3 DEF ConnTypeOK
  <2> QED BY <2>1, <2>3, <2>4, <2>5 DEF ConnInv
<1>4. CASE TokenExpires
  <2>1. UNCHANGED <<vault, minted, configured, custom, customHealth, account, oauth, exchanges, inFlight>>
    BY <1>4 DEF TokenExpires
  <2> QED BY <2>1 DEF ConnInv, ConnTypeOK, ReferencesApart, RefreshesApart, EnvReference, HealthIsOfTheEndpoint
<1>5. ASSUME NEW s \in OAuthStates, StartOAuth(s) PROVE ConnInv' /\ HealthIsOfTheEndpoint
  <2>1. /\ oauth[s] = "new" /\ oauth' = [oauth EXCEPT ![s] = "open"]
        /\ UNCHANGED <<vault, minted, configured, custom, customHealth, account, exchanges, inFlight>>
    BY <1>5 DEF StartOAuth
  <2>2. /\ oauth' \in [OAuthStates -> {"new", "open", "used"}]
        /\ \A t \in OAuthStates : oauth'[t] = "used" <=> oauth[t] = "used"
    BY <1>0, <2>1 DEF ConnTypeOK
  <2>3. \A t \in OAuthStates : exchanges[t] <= IF oauth'[t] = "used" THEN 1 ELSE 0
    BY <2>2 DEF ConnInv
  <2> QED BY <1>0, <2>1, <2>2, <2>3
        DEF ConnInv, ConnTypeOK, ReferencesApart, RefreshesApart, EnvReference, HealthIsOfTheEndpoint
<1>6. ASSUME NEW c \in ConnCalls, NEW s \in OAuthStates, CallbackArrives(c, s)
      PROVE  ConnInv' /\ HealthIsOfTheEndpoint
  <2> DEFINE value == [kind |-> "exchange", ref |-> 0]
  <2>1. /\ oauth[s] = "open" /\ oauth' = [oauth EXCEPT ![s] = "used"]
        /\ \/ UNCHANGED <<exchanges, inFlight>>
           \/ /\ inFlight' = [inFlight EXCEPT ![c] = value]
              /\ exchanges' = [exchanges EXCEPT ![s] = exchanges[s] + 1]
        /\ UNCHANGED <<vault, minted, configured, custom, customHealth, account>>
    BY <1>6 DEF CallbackArrives, ConsumeState
  <2>2. value \in CallRecord /\ value.kind # "refresh"  BY DEF CallRecord
  <2> HIDE DEF value
  <2>3. inFlight' \in [ConnCalls -> CallRecord] /\ ReferencesApart' /\ RefreshesApart'
    <3>1. CASE inFlight' = inFlight
      BY <1>0, <2>1, <3>1 DEF ConnTypeOK, ReferencesApart, RefreshesApart, EnvReference
    <3>2. CASE inFlight' = [inFlight EXCEPT ![c] = value]
      BY <2>1, <2>2, <3>2, CallStep
    <3> QED BY <2>1, <3>1, <3>2
  <2>4. exchanges[s] = 0
    <3>1. exchanges[s] \in Nat /\ exchanges[s] <= 0  BY <1>0, <2>1 DEF ConnInv, ConnTypeOK
    <3> QED BY <3>1
  <2>5. /\ oauth' \in [OAuthStates -> {"new", "open", "used"}] /\ oauth'[s] = "used"
        /\ \A t \in OAuthStates : t # s => oauth'[t] = oauth[t]
    BY <1>0, <2>1 DEF ConnTypeOK
  <2>6. /\ exchanges' \in [OAuthStates -> Nat] /\ exchanges'[s] <= 1
        /\ \A t \in OAuthStates : t # s => exchanges'[t] = exchanges[t]
    BY <1>0, <2>1, <2>4 DEF ConnTypeOK
  <2>7. ASSUME NEW t \in OAuthStates
        PROVE  exchanges'[t] <= IF oauth'[t] = "used" THEN 1 ELSE 0
    <3>1. CASE t = s  BY <2>5, <2>6, <3>1
    <3>2. CASE t # s  BY <2>5, <2>6, <3>2 DEF ConnInv
    <3> QED BY <3>1, <3>2
  <2> QED BY <1>0, <2>1, <2>3, <2>5, <2>6, <2>7 DEF ConnInv, ConnTypeOK, HealthIsOfTheEndpoint
<1>7. ASSUME NEW c \in ConnCalls, ExchangeDone(c) PROVE ConnInv' /\ HealthIsOfTheEndpoint
  <2>1. /\ Put({account}) /\ account' = minted + 1 /\ inFlight' = [inFlight EXCEPT ![c] = NoCall]
        /\ UNCHANGED <<configured, custom, customHealth, oauth, exchanges>>
    BY <1>7 DEF ExchangeDone
  <2>2. account \notin {configured, custom} \ {0}  BY <1>0 DEF ReferencesApart
  <2>3. account # minted + 1  BY <1>0 DEF ReferencesApart, ConnTypeOK
  <2>4. ConnInv'  BY <2>1, <2>2, <2>3, TokenStep
  <2> QED BY <2>1, <2>4 DEF HealthIsOfTheEndpoint
<1>8. ASSUME NEW c \in ConnCalls, RefreshDone(c) PROVE ConnInv' /\ HealthIsOfTheEndpoint
  <2> DEFINE old == inFlight[c].ref
  <2>1. /\ inFlight[c].kind = "refresh"
        /\ Put({old}) /\ account' = minted + 1 /\ inFlight' = [inFlight EXCEPT ![c] = NoCall]
        /\ UNCHANGED <<configured, custom, customHealth, oauth, exchanges>>
    BY <1>8 DEF RefreshDone
  <2>2. old \in 1..minted /\ old \notin {configured, custom} \ {0}
    BY <1>0, <2>1 DEF RefreshesApart
  <2>3. old # minted + 1  BY <1>0, <2>2 DEF ConnTypeOK
  <2> HIDE DEF old
  <2>4. ConnInv'  BY <2>1, <2>2, <2>3, TokenStep
  <2> QED BY <2>1, <2>4 DEF HealthIsOfTheEndpoint
<1>9. ASSUME NEW c \in ConnCalls, NEW value \in CallRecord,
             inFlight' = [inFlight EXCEPT ![c] = value],
             value.kind = "refresh" => value.ref = account /\ account # 0,
             UNCHANGED <<vault, minted, configured, custom, account, oauth, exchanges>>
      PROVE  ConnInv'
  <2>1. inFlight' \in [ConnCalls -> CallRecord] /\ ReferencesApart' /\ RefreshesApart'
    BY <1>9, CallStep
  <2> QED BY <1>0, <1>9, <2>1 DEF ConnInv, ConnTypeOK
<1>10. NoCall \in CallRecord /\ NoCall.kind # "refresh"  BY DEF NoCall, CallRecord
<1>11. ASSUME NEW c \in ConnCalls, TestAccount(c) \/ TestCustom(c) \/ CallFails(c)
       PROVE  ConnInv' /\ HealthIsOfTheEndpoint
  <2>1. UNCHANGED <<vault, minted, configured, custom, customHealth, account, oauth, exchanges>>
    BY <1>11 DEF TestAccount, TestCustom, CallFails, connRest
  <2>2. \E value \in CallRecord : /\ inFlight' = [inFlight EXCEPT ![c] = value]
                                  /\ value.kind = "refresh" => value.ref = account /\ account # 0
    <3>1. CASE TestAccount(c)
      <4>1. account \in Nat  BY <1>0 DEF ReferencesApart, ConnTypeOK
      <4>2. [kind |-> "refresh", ref |-> account] \in CallRecord  BY <4>1 DEF CallRecord
      <4> QED BY <3>1, <4>2 DEF TestAccount
    <3>2. CASE TestCustom(c)
      <4>1. custom \in Nat  BY <1>0 DEF ReferencesApart, ConnTypeOK
      <4>2. [kind |-> "probe", ref |-> custom] \in CallRecord  BY <4>1 DEF CallRecord
      <4> QED BY <3>2, <4>2 DEF TestCustom
    <3>3. CASE CallFails(c)
      BY <1>10, <3>3 DEF CallFails
    <3> QED BY <1>11, <3>1, <3>2, <3>3
  <2>3. ConnInv'  BY <1>9, <2>1, <2>2
  <2> QED BY <2>1, <2>3 DEF HealthIsOfTheEndpoint
<1>12. ASSUME NEW c \in ConnCalls, NEW status \in ProbeResults, Remember(c, status)
       PROVE  ConnInv' /\ HealthIsOfTheEndpoint
  <2>1. /\ inFlight[c].kind = "probe" /\ inFlight' = [inFlight EXCEPT ![c] = NoCall]
        /\ customHealth' = IF inFlight[c].ref = custom THEN status ELSE customHealth
        /\ UNCHANGED <<vault, minted, configured, custom, account, oauth, exchanges>>
    BY <1>12 DEF Remember
  <2>2. ConnInv'  BY <1>9, <1>10, <2>1
  <2> QED BY <2>1, <2>2 DEF HealthIsOfTheEndpoint
<1> QED BY <1>1, <1>2, <1>3, <1>4, <1>5, <1>6, <1>7, <1>8, <1>11, <1>12 DEF ConnNext

\* However an owner's logins, refreshes, probes and disconnects overlap: every reference
\* shown is one the vault holds, a state is exchanged once, and an endpoint is shown
\* connected only by a probe of its own.
THEOREM ConnectionsHold == ConnSpec => ConnectionsAreSound
<1>1. ConnInit => ConnInv
  <2>1. NoCall \in CallRecord /\ NoCall.kind = "none"  BY DEF NoCall, CallRecord
  <2> QED BY <2>1, ConnAssumption
        DEF ConnInit, ConnInv, ConnTypeOK, ReferencesApart, RefreshesApart
<1>2. ConnInv /\ [ConnNext]_connVars => ConnInv'
  <2>1. ConnInv /\ UNCHANGED connVars => ConnInv'
    BY DEF connVars, ConnInv, ConnTypeOK, ReferencesApart, RefreshesApart, EnvReference
  <2> QED BY <2>1, ConnStep
<1>3. ConnInv => ReferencesResolve /\ OAuthStateOnce
  <2> SUFFICES ASSUME ConnInv PROVE ReferencesResolve /\ OAuthStateOnce
    OBVIOUS
  <2>1. ReferencesResolve
    BY DEF ConnInv, ReferencesApart, ReferencesResolve, ListedReferences, AccountReference
  <2>2. ASSUME NEW s \in OAuthStates PROVE exchanges[s] <= 1
    <3>1. exchanges[s] \in Nat /\ exchanges[s] <= IF oauth[s] = "used" THEN 1 ELSE 0
      BY DEF ConnInv, ConnTypeOK
    <3> QED BY <3>1
  <2> QED BY <2>1, <2>2 DEF OAuthStateOnce
<1>4. ConnInv' => (ReferencesResolve /\ OAuthStateOnce)'
  BY <1>3, PTL
<1>5. ConnInv /\ [ConnNext]_connVars =>
        [UNCHANGED connVars \/ ((ReferencesResolve /\ OAuthStateOnce)' /\ HealthIsOfTheEndpoint)]_connVars
  BY <1>4, ConnStep
<1> QED BY <1>1, <1>2, <1>5, PTL DEF ConnSpec, ConnectionsAreSound

-----------------------------------------------------------------------------
(* SessionBudget. *)

Steps == {"queued", "attempt", "review", "verify", "paused", "done"}

BudgetTypeOK ==
  /\ cost \in [model : Nat, recovery : Nat]
  /\ session \in [step : Steps, category : {"execution", "recovery"}, events : Nat]
  /\ session.events <= MaxUsageEvents
  /\ used \in [recovery : Nat, restarts : Nat, repairs : Nat, executions : Nat, reviews : Nat]

\* The session's usage is charged to the recovery reserve, or to the execution reserve.
OnRecovery == session.step = "attempt" /\ session.category = "recovery"
OnExecution == session.step \in Running /\ ~OnRecovery

\* While a session runs the overdraft grows event by event; when it is over, what it
\* spent is bounded by a whole session, and the next one that asks starts below the
\* reserve again.
Overdraft(running) ==
  IF running THEN MaxPlausible * session.events ELSE SessionCost

BudgetInv ==
  /\ BudgetTypeOK
  /\ BudgetMode = "HARD" =>
       /\ cost.model <= ExecutionAlloc - 1 + Overdraft(OnExecution)
                          + SessionCost * (used.restarts + used.reviews)
       /\ cost.recovery <= RecoveryAlloc - 1 + Overdraft(OnRecovery)

\* What is known of the arithmetic of one session.
LEMMA SessionArithmetic ==
  /\ SessionCost \in Nat \ {0}
  /\ \A n \in Nat : /\ SessionCost * n \in Nat
                    /\ SessionCost * (n + 1) = SessionCost * n + SessionCost
                    /\ MaxPlausible * n \in Nat
                    /\ MaxPlausible * (n + 1) = MaxPlausible * n + MaxPlausible
                    /\ n <= MaxUsageEvents => MaxPlausible * n <= SessionCost
<1>1. MaxPlausible \in Nat \ {0} /\ MaxUsageEvents \in Nat \ {0}  BY BudgetAssumption
<1>2. SessionCost \in Nat \ {0}  BY <1>1 DEF SessionCost
<1>3. ASSUME NEW n \in Nat, n <= MaxUsageEvents PROVE MaxPlausible * n <= SessionCost
  <2>1. PICK d \in Nat : MaxUsageEvents = n + d
    <3>1. MaxUsageEvents - n \in Nat /\ MaxUsageEvents = n + (MaxUsageEvents - n)  BY <1>1, <1>3
    <3> QED BY <3>1
  <2>2. MaxPlausible * (n + d) = MaxPlausible * n + MaxPlausible * d  BY <1>1
  <2>3. MaxPlausible * d \in Nat /\ MaxPlausible * n \in Nat  BY <1>1
  <2>4. SessionCost = MaxPlausible * MaxUsageEvents  BY <1>1 DEF SessionCost
  <2> QED BY <2>1, <2>2, <2>3, <2>4
<1>4. ASSUME NEW n \in Nat
      PROVE /\ SessionCost * n \in Nat
            /\ SessionCost * (n + 1) = SessionCost * n + SessionCost
            /\ MaxPlausible * n \in Nat
            /\ MaxPlausible * (n + 1) = MaxPlausible * n + MaxPlausible
  BY <1>1, <1>2
<1> QED BY <1>2, <1>3, <1>4

\* Whatever a session is charged to, its overdraft is at most a whole session.
LEMMA OverdraftBounded ==
  ASSUME BudgetTypeOK
  PROVE  \A b \in BOOLEAN : Overdraft(b) \in Nat /\ Overdraft(b) <= SessionCost
BY SessionArithmetic DEF BudgetTypeOK, Overdraft

\* The facts every action's arithmetic starts from.
LEMMA SpentSoFar ==
  ASSUME BudgetInv
  PROVE  /\ SessionCost \in Nat \ {0} /\ ExecutionAlloc \in Nat /\ RecoveryAlloc \in Nat
         /\ cost.model \in Nat /\ cost.recovery \in Nat
         /\ used.restarts + used.reviews \in Nat
         /\ SessionCost * (used.restarts + used.reviews) \in Nat
         /\ SessionCost * (used.restarts + used.reviews + 1)
              = SessionCost * (used.restarts + used.reviews) + SessionCost
         /\ BudgetMode = "HARD" =>
              /\ cost.model <= ExecutionAlloc - 1 + SessionCost
                                 + SessionCost * (used.restarts + used.reviews)
              /\ cost.recovery <= RecoveryAlloc - 1 + SessionCost
<1>1. /\ cost.model \in Nat /\ cost.recovery \in Nat /\ used.restarts \in Nat /\ used.reviews \in Nat
  BY DEF BudgetInv, BudgetTypeOK
<1> DEFINE n == used.restarts + used.reviews
<1>2. n \in Nat  BY <1>1
<1>3. /\ Overdraft(OnExecution) \in Nat /\ Overdraft(OnExecution) <= SessionCost
      /\ Overdraft(OnRecovery) \in Nat /\ Overdraft(OnRecovery) <= SessionCost
  BY OverdraftBounded DEF BudgetInv, OnExecution, OnRecovery
<1>4. BudgetMode = "HARD" =>
       /\ cost.model <= ExecutionAlloc - 1 + Overdraft(OnExecution) + SessionCost * n
       /\ cost.recovery <= RecoveryAlloc - 1 + Overdraft(OnRecovery)
  BY DEF BudgetInv
<1> HIDE DEF n
<1>5. /\ SessionCost \in Nat \ {0} /\ SessionCost * n \in Nat
      /\ SessionCost * (n + 1) = SessionCost * n + SessionCost
  BY <1>2, SessionArithmetic
<1> DEFINE extra == SessionCost * n
<1>6. extra \in Nat  BY <1>5
<1>7. BudgetMode = "HARD" =>
       /\ cost.model <= ExecutionAlloc - 1 + SessionCost + extra
       /\ cost.recovery <= RecoveryAlloc - 1 + SessionCost
  <2>1. BudgetMode = "HARD" =>
       /\ cost.model <= ExecutionAlloc - 1 + Overdraft(OnExecution) + extra
       /\ cost.recovery <= RecoveryAlloc - 1 + Overdraft(OnRecovery)
    BY <1>4
  <2> HIDE DEF extra
  <2> QED BY <1>1, <1>3, <1>5, <1>6, <2>1, BudgetAssumption
<1> QED BY <1>1, <1>2, <1>5, <1>7, BudgetAssumption DEF n

\* A session starts, or none runs: nothing is spent in the step, and what was spent
\* before leaves the reserve of a session that starts with at most its free sessions.
LEMMA FreshSession ==
  ASSUME BudgetInv, cost' = cost,
         NEW step \in Steps, NEW category \in {"execution", "recovery"},
         session' = [step |-> step, category |-> category, events |-> 0],
         used' \in [recovery : Nat, restarts : Nat, repairs : Nat, executions : Nat, reviews : Nat],
         NEW execution \in BOOLEAN, NEW recovery \in BOOLEAN,
         recovery = (step = "attempt" /\ category = "recovery"),
         execution = (step \in Running /\ ~recovery),
         BudgetMode = "HARD" =>
           /\ cost.model <= ExecutionAlloc - 1 + (IF execution THEN 0 ELSE SessionCost)
                              + SessionCost * (used'.restarts + used'.reviews)
           /\ cost.recovery <= RecoveryAlloc - 1 + (IF recovery THEN 0 ELSE SessionCost)
  PROVE  BudgetInv'
<1>1. session'.step = step /\ session'.category = category /\ session'.events = 0
  OBVIOUS
<1>2. BudgetTypeOK'
  BY <1>1, BudgetAssumption DEF BudgetInv, BudgetTypeOK
<1>3. OnRecovery' = recovery /\ OnExecution' = execution
  BY <1>1, Zenon DEF OnRecovery, OnExecution
<1>4. MaxPlausible * 0 = 0  BY BudgetAssumption
<1>5. /\ Overdraft(OnExecution)' = (IF execution THEN 0 ELSE SessionCost)
      /\ Overdraft(OnRecovery)' = (IF recovery THEN 0 ELSE SessionCost)
  BY <1>1, <1>3, <1>4 DEF Overdraft, SessionCost
<1>6. SessionCost' = SessionCost  BY DEF SessionCost
<1> QED BY <1>2, <1>5, <1>6 DEF BudgetInv

\* No session runs after the step, and no session was started in it.
LEMMA NoSession ==
  ASSUME BudgetInv, cost' = cost, NEW step \in Steps \ Running, session' = At0(step),
         used' \in [recovery : Nat, restarts : Nat, repairs : Nat, executions : Nat, reviews : Nat],
         used'.restarts = used.restarts, used'.reviews = used.reviews
  PROVE  BudgetInv'
<1>1. session' = [step |-> step, category |-> "execution", events |-> 0]  BY DEF At0
<1>2. /\ FALSE = (step = "attempt" /\ "execution" = "recovery")
      /\ FALSE = (step \in Running /\ ~FALSE)
  BY DEF Running
<1>3. SessionCost * (used'.restarts + used'.reviews) = SessionCost * (used.restarts + used.reviews)
  OBVIOUS
<1>4. BudgetMode = "HARD" =>
        /\ cost.model <= ExecutionAlloc - 1 + (IF FALSE THEN 0 ELSE SessionCost)
                           + SessionCost * (used'.restarts + used'.reviews)
        /\ cost.recovery <= RecoveryAlloc - 1 + (IF FALSE THEN 0 ELSE SessionCost)
  BY <1>3, SpentSoFar
<1>5. step \in Steps /\ "execution" \in {"execution", "recovery"} /\ FALSE \in BOOLEAN
  OBVIOUS
<1> QED BY <1>1, <1>2, <1>4, <1>5, FreshSession

\* A session that is charged to the execution reserve starts: it asked and was below
\* the reserve, or it is one of the sessions that start without asking.
LEMMA ExecutionStarts ==
  ASSUME BudgetInv, cost' = cost, NEW step \in Running, session' = At0(step),
         used' \in [recovery : Nat, restarts : Nat, repairs : Nat, executions : Nat, reviews : Nat],
         \/ /\ AuthorizeSpend("execution")
            /\ used'.restarts = used.restarts /\ used'.reviews = used.reviews
         \/ used'.restarts + used'.reviews = used.restarts + used.reviews + 1
  PROVE  BudgetInv'
<1>1. session' = [step |-> step, category |-> "execution", events |-> 0]  BY DEF At0
<1>2. /\ FALSE = (step = "attempt" /\ "execution" = "recovery")
      /\ TRUE = (step \in Running /\ ~FALSE)
  OBVIOUS
<1>3. BudgetMode = "HARD" => cost.recovery <= RecoveryAlloc - 1 + (IF FALSE THEN 0 ELSE SessionCost)
  BY SpentSoFar
<1>4. BudgetMode = "HARD" =>
         cost.model <= ExecutionAlloc - 1 + (IF TRUE THEN 0 ELSE SessionCost)
                           + SessionCost * (used'.restarts + used'.reviews)
  <2>1. CASE used'.restarts + used'.reviews = used.restarts + used.reviews + 1
    <3>1. SessionCost * (used'.restarts + used'.reviews)
            = SessionCost * (used.restarts + used.reviews) + SessionCost
      BY <2>1, SpentSoFar
    <3> DEFINE extra == SessionCost * (used.restarts + used.reviews)
    <3>2. /\ SessionCost \in Nat /\ extra \in Nat /\ ExecutionAlloc \in Nat /\ cost.model \in Nat
          /\ BudgetMode = "HARD" => cost.model <= ExecutionAlloc - 1 + SessionCost + extra
          /\ SessionCost * (used'.restarts + used'.reviews) = extra + SessionCost
      BY <3>1, SpentSoFar
    <3> HIDE DEF extra
    <3> QED BY <3>2
  <2>2. CASE AuthorizeSpend("execution") /\ used'.restarts = used.restarts /\ used'.reviews = used.reviews
    <3>1. BudgetMode = "HARD" => ExecutionAlloc - cost.model > 0
      BY <2>2 DEF AuthorizeSpend, Allocated, SpentByCategory
    <3> DEFINE extra == SessionCost * (used.restarts + used.reviews)
    <3>2. /\ extra \in Nat /\ ExecutionAlloc \in Nat /\ cost.model \in Nat
          /\ SessionCost * (used'.restarts + used'.reviews) = extra
      BY <2>2, SpentSoFar
    <3> HIDE DEF extra
    <3> QED BY <3>1, <3>2
  <2> QED BY <2>1, <2>2
<1>5. step \in Steps /\ "execution" \in {"execution", "recovery"} /\ FALSE \in BOOLEAN /\ TRUE \in BOOLEAN
  BY DEF Steps, Running
<1>6. BudgetMode = "HARD" =>
        /\ cost.model <= ExecutionAlloc - 1 + (IF TRUE THEN 0 ELSE SessionCost)
                           + SessionCost * (used'.restarts + used'.reviews)
        /\ cost.recovery <= RecoveryAlloc - 1 + (IF FALSE THEN 0 ELSE SessionCost)
  BY <1>3, <1>4
<1> QED BY <1>1, <1>2, <1>5, <1>6, FreshSession

\* A retry starts below the recovery reserve; the execution reserve is not touched.
LEMMA RecoveryStarts ==
  ASSUME BudgetInv, cost' = cost, AuthorizeSpend("recovery"),
         session' = [step |-> "attempt", category |-> "recovery", events |-> 0],
         used' \in [recovery : Nat, restarts : Nat, repairs : Nat, executions : Nat, reviews : Nat],
         used'.restarts = used.restarts, used'.reviews = used.reviews
  PROVE  BudgetInv'
<1>1. /\ TRUE = ("attempt" = "attempt" /\ "recovery" = "recovery")
      /\ FALSE = ("attempt" \in Running /\ ~TRUE)
  OBVIOUS
<1>2. BudgetMode = "HARD" => RecoveryAlloc - cost.recovery > 0
  BY DEF AuthorizeSpend, Allocated, SpentByCategory
<1>3. BudgetMode = "HARD" => cost.recovery <= RecoveryAlloc - 1 + (IF TRUE THEN 0 ELSE SessionCost)
  BY <1>2, SpentSoFar
<1>4. SessionCost * (used'.restarts + used'.reviews) = SessionCost * (used.restarts + used.reviews)
  OBVIOUS
<1>5. BudgetMode = "HARD" =>
        /\ cost.model <= ExecutionAlloc - 1 + (IF FALSE THEN 0 ELSE SessionCost)
                           + SessionCost * (used'.restarts + used'.reviews)
        /\ cost.recovery <= RecoveryAlloc - 1 + (IF TRUE THEN 0 ELSE SessionCost)
  BY <1>3, <1>4, SpentSoFar
<1>6. /\ "attempt" \in Steps /\ "recovery" \in {"execution", "recovery"}
      /\ FALSE \in BOOLEAN /\ TRUE \in BOOLEAN
  BY DEF Steps
<1> QED BY <1>1, <1>5, <1>6, FreshSession

\* A usage event adds a plausible amount to one of the two, and no other step spends.
LEMMA UsageAdds ==
  ASSUME BudgetInv, NEW v \in Reported, Usage(v)
  PROVE  \E c \in 0..MaxPlausible :
           /\ cost'.model = cost.model + (IF OnRecovery THEN 0 ELSE c)
           /\ cost'.recovery = cost.recovery + (IF OnRecovery THEN c ELSE 0)
           /\ cost' \in [model : Nat, recovery : Nat]
<1>1. v \in Int /\ MaxPlausible \in Nat  BY BudgetAssumption
<1>2. cost \in [model : Nat, recovery : Nat]  BY DEF BudgetInv, BudgetTypeOK
<1>3. CASE v >= 0 /\ v <= MaxPlausible
  <2>1. SanitizeReportedCost(v) = {v}  BY <1>3 DEF SanitizeReportedCost
  <2>2. (CHOOSE c \in SanitizeReportedCost(v) : TRUE) = v /\ SanitizeReportedCost(v) # {}
    BY <2>1
  <2>3. v \in 0..MaxPlausible  BY <1>1, <1>3
  <2>4. CASE OnRecovery
    <3>1. cost' = [cost EXCEPT !["recovery"] = cost.recovery + v]
      BY <2>2, <2>4 DEF Usage, OnRecovery
    <3> QED BY <1>2, <2>3, <2>4, <3>1
  <2>5. CASE ~OnRecovery
    <3>1. cost' = [cost EXCEPT !["model"] = cost.model + v]
      BY <2>2, <2>5 DEF Usage, OnRecovery
    <3> QED BY <1>2, <2>3, <2>5, <3>1
  <2> QED BY <2>4, <2>5
<1>4. CASE ~(v >= 0 /\ v <= MaxPlausible)
  <2>1. SanitizeReportedCost(v) = {}  BY <1>4 DEF SanitizeReportedCost
  <2>2. cost' = cost  BY <2>1 DEF Usage
  <2>3. 0 \in 0..MaxPlausible /\ cost.model + 0 = cost.model /\ cost.recovery + 0 = cost.recovery
    BY <1>1, <1>2
  <2> QED BY <1>2, <2>2, <2>3
<1> QED BY <1>3, <1>4

\* An event of a running session: the overdraft of its reserve grows by one event.
LEMMA UsageStep ==
  ASSUME BudgetInv, NEW v \in Reported, Usage(v)
  PROVE  BudgetInv'
<1>1. /\ session.step \in Running /\ session.events < MaxUsageEvents /\ used' = used
      /\ session' = [session EXCEPT !.events = session.events + 1]
  BY DEF Usage
<1>2. PICK c \in 0..MaxPlausible :
           /\ cost'.model = cost.model + (IF OnRecovery THEN 0 ELSE c)
           /\ cost'.recovery = cost.recovery + (IF OnRecovery THEN c ELSE 0)
           /\ cost' \in [model : Nat, recovery : Nat]
  BY UsageAdds
<1>3. /\ session \in [step : Steps, category : {"execution", "recovery"}, events : Nat]
      /\ session.events \in Nat /\ cost.model \in Nat /\ cost.recovery \in Nat
      /\ used \in [recovery : Nat, restarts : Nat, repairs : Nat, executions : Nat, reviews : Nat]
  BY DEF BudgetInv, BudgetTypeOK
<1>4. /\ session'.step = session.step /\ session'.category = session.category
      /\ session'.events = session.events + 1 /\ session.events + 1 \in Nat
      /\ session' \in [step : Steps, category : {"execution", "recovery"}, events : Nat]
      /\ session'.events <= MaxUsageEvents
  BY <1>1, <1>3, BudgetAssumption
<1>5. BudgetTypeOK'  BY <1>1, <1>2, <1>3, <1>4 DEF BudgetTypeOK
<1>6. OnRecovery' = OnRecovery /\ OnExecution' = OnExecution /\ OnExecution = ~OnRecovery
  BY <1>1, <1>4 DEF OnRecovery, OnExecution
<1> DEFINE spent == MaxPlausible * session.events
           extra == SessionCost * (used.restarts + used.reviews)
<1>7. /\ spent \in Nat /\ MaxPlausible * (session.events + 1) = spent + MaxPlausible
      /\ extra \in Nat /\ (SessionCost * (used.restarts + used.reviews))' = extra
  BY <1>1, <1>3, SessionArithmetic, SpentSoFar DEF SessionCost
<1>8. /\ Overdraft(OnExecution) = (IF OnRecovery THEN SessionCost ELSE spent)
      /\ Overdraft(OnRecovery) = (IF OnRecovery THEN spent ELSE SessionCost)
      /\ Overdraft(OnExecution)' = (IF OnRecovery THEN SessionCost ELSE spent + MaxPlausible)
      /\ Overdraft(OnRecovery)' = (IF OnRecovery THEN spent + MaxPlausible ELSE SessionCost)
  BY <1>4, <1>6, <1>7 DEF Overdraft, SessionCost
<1>9. BudgetMode = "HARD" =>
       /\ cost.model <= ExecutionAlloc - 1 + Overdraft(OnExecution) + extra
       /\ cost.recovery <= RecoveryAlloc - 1 + Overdraft(OnRecovery)
  BY DEF BudgetInv
<1> HIDE DEF spent, extra
<1>10. ExecutionAlloc \in Nat /\ RecoveryAlloc \in Nat /\ MaxPlausible \in Nat /\ SessionCost \in Nat
  BY BudgetAssumption, SpentSoFar
<1>11. BudgetMode = "HARD" =>
       /\ cost'.model <= ExecutionAlloc - 1 + Overdraft(OnExecution)' + extra
       /\ cost'.recovery <= RecoveryAlloc - 1 + Overdraft(OnRecovery)'
  <2>1. CASE OnRecovery
    <3>1. cost'.model = cost.model /\ cost'.recovery = cost.recovery + c  BY <1>2, <1>3, <2>1
    <3>2. /\ Overdraft(OnExecution)' = Overdraft(OnExecution)
          /\ Overdraft(OnRecovery) = spent /\ Overdraft(OnRecovery)' = spent + MaxPlausible
      BY <1>8, <2>1
    <3> QED BY <1>3, <1>7, <1>9, <1>10, <3>1, <3>2
  <2>2. CASE ~OnRecovery
    <3>1. cost'.recovery = cost.recovery /\ cost'.model = cost.model + c  BY <1>2, <1>3, <2>2
    <3>2. /\ Overdraft(OnRecovery)' = Overdraft(OnRecovery)
          /\ Overdraft(OnExecution) = spent /\ Overdraft(OnExecution)' = spent + MaxPlausible
      BY <1>8, <2>2
    <3> QED BY <1>3, <1>7, <1>9, <1>10, <3>1, <3>2
  <2> QED BY <2>1, <2>2
<1> QED BY <1>5, <1>7, <1>11 DEF BudgetInv

LEMMA BudgetStep == BudgetInv /\ [BudgetNext]_budgetVars => BudgetInv'
<1> SUFFICES ASSUME BudgetInv, [BudgetNext]_budgetVars PROVE BudgetInv'
  OBVIOUS
<1> DEFINE Used == [recovery : Nat, restarts : Nat, repairs : Nat, executions : Nat, reviews : Nat]
<1>0. used \in Used /\ "attempt" \in Running /\ "review" \in Running
  BY DEF BudgetInv, BudgetTypeOK, Running
<1>00. {"queued", "verify", "paused", "done"} \subseteq Steps \ Running  BY DEF Steps, Running
<1>1. CASE UNCHANGED budgetVars
  BY <1>1 DEF budgetVars, BudgetInv, BudgetTypeOK, Overdraft, OnExecution, OnRecovery, Running, SessionCost
<1>2. ASSUME NEW v \in Reported, Usage(v) PROVE BudgetInv'  BY <1>2, UsageStep
<1>3. ASSUME NEW retryable \in BOOLEAN, AttemptFails(retryable) PROVE BudgetInv'
  <2>1. CASE retryable /\ used.recovery < MaxRecoveryUsed /\ RetryAuthorized
    <3>1. /\ cost' = cost /\ session' = [step |-> "attempt", category |-> "recovery", events |-> 0]
          /\ used' = [used EXCEPT !.recovery = used.recovery + 1] /\ AuthorizeSpend("recovery")
      BY <1>3, <2>1 DEF AttemptFails, RetryAuthorized
    <3>2. used' \in Used /\ used'.restarts = used.restarts /\ used'.reviews = used.reviews
      BY <1>0, <3>1
    <3> QED BY <3>1, <3>2, RecoveryStarts
  <2>2. CASE ~(retryable /\ used.recovery < MaxRecoveryUsed /\ RetryAuthorized)
    BY <1>0, <1>00, <1>3, <2>2, NoSession DEF AttemptFails
  <2> QED BY <2>1, <2>2
<1>4. CASE FirstSession
  <2>1. CASE AuthorizeSpend("execution")
    BY <1>0, <1>4, <2>1, ExecutionStarts DEF FirstSession
  <2>2. CASE ~AuthorizeSpend("execution")
    BY <1>0, <1>00, <1>4, <2>2, NoSession DEF FirstSession
  <2> QED BY <2>1, <2>2
<1>5. CASE PolicyRestart
  <2>1. /\ cost' = cost /\ session' = At0("attempt")
        /\ used' = [used EXCEPT !.restarts = used.restarts + 1]
    BY <1>5 DEF PolicyRestart
  <2>2. used' \in Used /\ used'.restarts + used'.reviews = used.restarts + used.reviews + 1
    BY <1>0, <2>1
  <2> QED BY <1>0, <2>1, <2>2, ExecutionStarts
<1>6. CASE AttemptEnds
  BY <1>0, <1>00, <1>6, NoSession DEF AttemptEnds
<1>7. CASE Repair
  <2>1. /\ cost' = cost /\ session' = At0("attempt") /\ AuthorizeSpend("execution")
        /\ used' = [used EXCEPT !.repairs = used.repairs + 1]
    BY <1>7 DEF Repair
  <2>2. used' \in Used /\ used'.restarts = used.restarts /\ used'.reviews = used.reviews
    BY <1>0, <2>1
  <2> QED BY <1>0, <2>1, <2>2, ExecutionStarts
<1>8. CASE StopRepairing
  BY <1>0, <1>00, <1>8, NoSession DEF StopRepairing
<1>9. CASE Review
  <2>1. /\ cost' = cost /\ session' = At0("review")
        /\ used' = [used EXCEPT !.reviews = used.reviews + 1]
    BY <1>9 DEF Review
  <2>2. used' \in Used /\ used'.restarts + used'.reviews = used.restarts + used.reviews + 1
    BY <1>0, <2>1
  <2> QED BY <1>0, <2>1, <2>2, ExecutionStarts
<1>10. CASE ReviewEnds
  BY <1>0, <1>00, <1>10, NoSession DEF ReviewEnds
<1>11. CASE LateFailure
  BY <1>0, <1>00, <1>11, NoSession DEF LateFailure
<1>12. CASE ResumeSpending
  <2> DEFINE more == [used EXCEPT !.executions = used.executions + 1]
  <2>1. /\ cost' = cost /\ session' = At0("queued")
        /\ used' = [more EXCEPT !.repairs = 0]
    BY <1>12 DEF ResumeSpending
  <2>2. more \in Used /\ more.restarts = used.restarts /\ more.reviews = used.reviews
    BY <1>0
  <2> HIDE DEF more
  <2>3. used' \in Used /\ used'.restarts = used.restarts /\ used'.reviews = used.reviews
    BY <2>1, <2>2
  <2> QED BY <1>00, <2>1, <2>3, NoSession
<1> QED
  BY <1>1, <1>2, <1>3, <1>4, <1>5, <1>6, <1>7, <1>8, <1>9, <1>10, <1>11, <1>12 DEF BudgetNext

\* budget.ts and the places of run-service.ts that ask it, for any reserves, any reports
\* of the agents and any number of events, retries, restarts, repairs, reviews and
\* resumes: under a HARD budget each reserve is overdrawn by one session at most, and
\* the execution reserve by one more for every session that starts without asking; and
\* no step lowers what was spent.
THEOREM BudgetIsHeld == BudgetSpec => BudgetHolds
<1>1. BudgetInit => BudgetInv
  <2> SUFFICES ASSUME BudgetInit PROVE BudgetInv
    OBVIOUS
  <2>1. BudgetTypeOK /\ ~OnExecution /\ ~OnRecovery
    <3>1. /\ session = [step |-> "queued", category |-> "execution", events |-> 0]
          /\ session.step = "queued" /\ session.events = 0
      BY DEF BudgetInit, At0
    <3>2. BudgetTypeOK  BY <3>1, BudgetAssumption DEF BudgetInit, BudgetTypeOK, Steps
    <3> QED BY <3>1, <3>2 DEF OnExecution, OnRecovery, Running
  <2>2. Overdraft(OnExecution) = SessionCost /\ Overdraft(OnRecovery) = SessionCost
    BY <2>1 DEF Overdraft
  <2>3. /\ SessionCost \in Nat \ {0} /\ ExecutionAlloc \in Nat /\ RecoveryAlloc \in Nat
        /\ used.restarts + used.reviews = 0 /\ SessionCost * 0 = 0
        /\ cost.model = 0 /\ cost.recovery = 0
    BY BudgetAssumption, SessionArithmetic DEF BudgetInit
  <2> QED BY <2>1, <2>2, <2>3 DEF BudgetInv
<1>2. BudgetInv => ExecutionSpendBounded /\ RecoverySpendBounded
  <2> SUFFICES ASSUME BudgetInv, BudgetMode = "HARD"
               PROVE  /\ cost.model <= ExecutionAlloc - 1
                                       + SessionCost * (1 + used.restarts + used.reviews)
                      /\ cost.recovery <= RecoveryAlloc - 1 + SessionCost
    BY DEF ExecutionSpendBounded, RecoverySpendBounded
  <2>1. used.restarts \in Nat /\ used.reviews \in Nat  BY DEF BudgetInv, BudgetTypeOK
  <2>2. 1 + used.restarts + used.reviews = used.restarts + used.reviews + 1  BY <2>1
  <2>3. SessionCost * (1 + used.restarts + used.reviews)
          = SessionCost * (used.restarts + used.reviews) + SessionCost
    BY <2>2, SpentSoFar
  <2> DEFINE extra == SessionCost * (used.restarts + used.reviews)
  <2>4. /\ extra \in Nat /\ SessionCost \in Nat /\ ExecutionAlloc \in Nat
        /\ cost.model <= ExecutionAlloc - 1 + SessionCost + extra
        /\ SessionCost * (1 + used.restarts + used.reviews) = extra + SessionCost
    BY <2>3, SpentSoFar
  <2>5. cost.recovery <= RecoveryAlloc - 1 + SessionCost  BY SpentSoFar
  <2> HIDE DEF extra
  <2> QED BY <2>4, <2>5
<1>3. BudgetInv /\ [BudgetNext]_budgetVars => CostNeverFalls
  <2> SUFFICES ASSUME BudgetInv, [BudgetNext]_budgetVars PROVE CostNeverFalls
    OBVIOUS
  <2>0. cost.model \in Nat /\ cost.recovery \in Nat  BY DEF BudgetInv, BudgetTypeOK
  <2>1. ASSUME NEW v \in Reported, Usage(v) PROVE CostNeverFalls
    <3>1. PICK c \in 0..MaxPlausible :
            /\ cost'.model = cost.model + (IF OnRecovery THEN 0 ELSE c)
            /\ cost'.recovery = cost.recovery + (IF OnRecovery THEN c ELSE 0)
      BY <2>1, UsageAdds
    <3> QED BY <2>0, <3>1, BudgetAssumption DEF CostNeverFalls
  <2>2. ~(\E v \in Reported : Usage(v)) => cost' = cost
    BY DEF BudgetNext, budgetVars, AttemptFails, FirstSession, PolicyRestart, AttemptEnds, Repair,
           StopRepairing, Review, ReviewEnds, LateFailure, ResumeSpending
  <2> QED BY <2>1, <2>2 DEF CostNeverFalls
<1>4. BudgetInv' => (ExecutionSpendBounded /\ RecoverySpendBounded)'
  BY <1>2, PTL
<1>5. BudgetInv /\ [BudgetNext]_budgetVars =>
        [UNCHANGED budgetVars \/ ((ExecutionSpendBounded /\ RecoverySpendBounded)' /\ CostNeverFalls)]_budgetVars
  BY <1>3, <1>4, BudgetStep
<1> QED BY <1>1, <1>5, BudgetStep, PTL DEF BudgetSpec, BudgetHolds

-----------------------------------------------------------------------------
(* RuntimeSignals. *)

Activities ==
  [expanded : BOOLEAN, edges : Int, targets : SUBSET SignalFiles, failure : BOOLEAN,
   pattern : SignalPatterns \cup {"none"}]
CollectedFields == {"links", "files", "modules", "changed", "recent", "stabilized", "targets",
                    "invalidations", "unresolved", "mechanical", "count"}

SignalTypeOK ==
  /\ DOMAIN collected = CollectedFields
  /\ collected.links \in SUBSET ImportLinks
  /\ collected.recent \in Seq(Activities) /\ Len(collected.recent) <= StabilizationWindow
  /\ collected.stabilized \in BOOLEAN /\ collected.unresolved \in BOOLEAN
  /\ signal \in [stabilized : BOOLEAN, mechanical : BOOLEAN]
  /\ quietFor \in [growth : Nat, failure : Nat]

\* The window remembers what ended the quiet: while the count is below the window, the
\* activity before the last so many is the one that grew the scope, or the one that failed.
WindowKnows(recent, quiet) ==
  /\ quiet.growth < StabilizationWindow =>
       \/ Len(recent) = quiet.growth
       \/ Len(recent) > quiet.growth /\ recent[Len(recent) - quiet.growth].expanded
  /\ quiet.failure < StabilizationWindow =>
       Len(recent) > quiet.failure /\ recent[Len(recent) - quiet.failure].failure

\* What is called stable is, by the policy, and with the targets the window has now.
SignalFresh ==
  /\ signal.stabilized =>
       /\ collected.stabilized /\ ScopeStabilized(collected)
       /\ collected.targets = RecentTargets(collected)
  /\ signal.mechanical => signal.stabilized

SignalInv == SignalTypeOK /\ WindowKnows(collected.recent, quietFor) /\ SignalFresh

\* The edges between observed modules can be counted.
LEMMA EdgesCounted ==
  ASSUME NEW links \in SUBSET ImportLinks, NEW modules
  PROVE  Cardinality(CrossEdges(links, modules)) \in Nat
<1> DEFINE K == {k \in links : /\ SignalModule[k[1]] # SignalModule[k[2]]
                               /\ {SignalModule[k[1]], SignalModule[k[2]]} \subseteq modules}
           T == CrossEdges(links, modules)
           f == [l \in K |-> <<SignalModule[l[1]], SignalModule[l[2]]>>]
<1>1. IsFiniteSet(K)
  <2>1. K \in SUBSET ImportLinks  OBVIOUS
  <2> HIDE DEF K
  <2> QED BY <2>1, SignalAssumption, FS_Subset
<1>2. T = {<<SignalModule[l[1]], SignalModule[l[2]]>> : l \in K}  BY DEF CrossEdges
<1> HIDE DEF K, T
<1>3. f \in [K -> T] /\ \A t \in T : \E k \in K : f[k] = t
  BY <1>2
<1> HIDE DEF f
<1>4. f \in Surjection(K, T)  BY <1>3 DEF Surjection
<1>5. IsFiniteSet(T)  BY <1>1, <1>4, FS_Surjection
<1> QED BY <1>5, FS_CardinalityType DEF T

\* The last window of the activities, with one more.
LEMMA WindowMoves ==
  ASSUME NEW s \in Seq(Activities), Len(s) <= StabilizationWindow, NEW a \in Activities
  PROVE  /\ LastWindow(Append(s, a)) \in Seq(Activities)
         /\ Len(s) < StabilizationWindow =>
              /\ Len(LastWindow(Append(s, a))) = Len(s) + 1
              /\ \A i \in 1..Len(s) : LastWindow(Append(s, a))[i] = s[i]
              /\ LastWindow(Append(s, a))[Len(s) + 1] = a
         /\ Len(s) = StabilizationWindow =>
              /\ Len(LastWindow(Append(s, a))) = StabilizationWindow
              /\ \A i \in 1..(StabilizationWindow - 1) : LastWindow(Append(s, a))[i] = s[i + 1]
              /\ LastWindow(Append(s, a))[StabilizationWindow] = a
<1> DEFINE t == Append(s, a)  W == StabilizationWindow
<1>1. W \in Nat \ {0} /\ Len(s) \in Nat  BY SignalAssumption
<1>2. /\ t \in Seq(Activities) /\ Len(t) = Len(s) + 1 /\ t[Len(s) + 1] = a
      /\ \A i \in 1..Len(s) : t[i] = s[i]
  OBVIOUS
<1>3. \A i \in 1..Len(t) : t[i] \in Activities  BY <1>2
<1> HIDE DEF t, W
<1>4. CASE Len(s) < W
  <2> DEFINE u == SubSeq(t, 1, Len(t))
  <2>1. LastWindow(t) = u
    <3>1. ~(Len(t) > W)  BY <1>1, <1>2, <1>4
    <3> QED BY <3>1 DEF LastWindow, W
  <2>2. /\ u \in Seq(Activities) /\ Len(u) = Len(t)
        /\ \A i \in 1..Len(t) : u[i] = t[i]
    BY <1>1, <1>2
  <2> HIDE DEF u
  <2> QED BY <1>1, <1>2, <1>4, <2>1, <2>2 DEF t, W
<1>5. CASE Len(s) = W
  <2> DEFINE u == SubSeq(t, 2, Len(t))
  <2>1. LastWindow(t) = u  BY <1>1, <1>2, <1>5 DEF LastWindow, W
  <2>2. \A i \in 2..Len(t) : t[i] \in Activities  BY <1>1, <1>2, <1>3
  <2>3. /\ u \in Seq(Activities) /\ Len(u) = W
        /\ \A i \in 1..W : u[i] = t[i + 1]
    <3>1. 2 \in Int /\ Len(t) \in Int /\ 2 <= Len(t) /\ Len(t) - 2 + 1 = W  BY <1>1, <1>2, <1>5
    <3>2. /\ u \in Seq(Activities) /\ Len(u) = (IF 2 <= Len(t) THEN Len(t) - 2 + 1 ELSE 0)
          /\ \A i \in 1..(Len(t) - 2 + 1) : u[i] = t[2 + i - 1]
      BY <2>2, <3>1, SubSeqProperties
    <3>3. \A i \in 1..W : 2 + i - 1 = i + 1  BY <1>1
    <3> QED BY <3>1, <3>2, <3>3
  <2> HIDE DEF u
  <2> QED BY <1>1, <1>2, <1>5, <2>1, <2>3 DEF t, W
<1> QED BY <1>1, <1>4, <1>5 DEF t, W

\* One more activity, and the counts of the quiet that go with it.
LEMMA WindowStillKnows ==
  ASSUME NEW s \in Seq(Activities), Len(s) <= StabilizationWindow, NEW a \in Activities,
         NEW q \in [growth : Nat, failure : Nat], WindowKnows(s, q),
         NEW r \in [growth : Nat, failure : Nat],
         (r.growth = 0 /\ a.expanded) \/ r.growth = Saturating(q.growth),
         (r.failure = 0 /\ a.failure) \/ r.failure = Saturating(q.failure)
  PROVE  WindowKnows(LastWindow(Append(s, a)), r)
<1> DEFINE t == LastWindow(Append(s, a))  W == StabilizationWindow
<1>1. W \in Nat \ {0} /\ Len(s) \in Nat /\ q.growth \in Nat /\ q.failure \in Nat
  BY SignalAssumption
<1>2. /\ Len(s) < W => Len(t) = Len(s) + 1 /\ t[Len(s) + 1] = a /\ \A i \in 1..Len(s) : t[i] = s[i]
      /\ Len(s) = W => Len(t) = W /\ t[W] = a /\ \A i \in 1..(W - 1) : t[i] = s[i + 1]
  BY WindowMoves
<1>3. t[Len(t)] = a /\ Len(t) \in Nat \ {0} /\ Len(t) >= Len(s)  BY <1>1, <1>2
<1> HIDE DEF t
<1>4. ASSUME NEW g \in Nat, g + 1 < W, Len(s) > g
      PROVE  Len(t) > g + 1 /\ t[Len(t) - (g + 1)] = s[Len(s) - g]
  <2>1. CASE Len(s) < W
    <3>1. Len(s) - g \in 1..Len(s) /\ Len(t) - (g + 1) = Len(s) - g  BY <1>1, <1>2, <1>4, <2>1
    <3> QED BY <1>1, <1>2, <1>4, <2>1, <3>1, SMTT(30)
  <2>2. CASE Len(s) = W
    <3>1. Len(t) - (g + 1) \in 1..(W - 1) /\ Len(t) - (g + 1) + 1 = Len(s) - g
      BY <1>1, <1>2, <1>4, <2>2
    <3> QED BY <1>1, <1>2, <1>4, <2>2, <3>1
  <2> QED BY <1>1, <2>1, <2>2
<1>5. ASSUME r.growth < W
      PROVE  \/ Len(t) = r.growth
             \/ Len(t) > r.growth /\ t[Len(t) - r.growth].expanded
  <2>1. CASE r.growth = 0 /\ a.expanded
    <3>1. Len(t) - 0 = Len(t)  BY <1>3
    <3> QED BY <1>3, <2>1, <3>1
  <2>2. CASE r.growth = Saturating(q.growth)
    <3>1. q.growth + 1 < W /\ r.growth = q.growth + 1
      BY <1>1, <1>5, <2>2 DEF Saturating
    <3>2. \/ Len(s) = q.growth
          \/ Len(s) > q.growth /\ s[Len(s) - q.growth].expanded
      BY <1>1, <3>1 DEF WindowKnows
    <3>3. CASE Len(s) = q.growth  BY <1>1, <1>2, <3>1, <3>3
    <3>4. CASE Len(s) > q.growth /\ s[Len(s) - q.growth].expanded
      BY <1>1, <1>4, <3>1, <3>4
    <3> QED BY <3>2, <3>3, <3>4
  <2> QED BY <2>1, <2>2
<1>6. ASSUME r.failure < W
      PROVE  Len(t) > r.failure /\ t[Len(t) - r.failure].failure
  <2>1. CASE r.failure = 0 /\ a.failure
    <3>1. Len(t) - 0 = Len(t)  BY <1>3
    <3> QED BY <1>3, <2>1, <3>1
  <2>2. CASE r.failure = Saturating(q.failure)
    <3>1. q.failure + 1 < W /\ r.failure = q.failure + 1
      BY <1>1, <1>6, <2>2 DEF Saturating
    <3>2. Len(s) > q.failure /\ s[Len(s) - q.failure].failure
      BY <1>1, <3>1 DEF WindowKnows
    <3> QED BY <1>1, <1>4, <3>1, <3>2
  <2> QED BY <2>1, <2>2
<1> QED BY <1>5, <1>6 DEF WindowKnows, t

QuietCounts == [growth : Nat, failure : Nat]

\* A snapshot of what has its types and a window that knows.
LEMMA SnapshotFresh ==
  ASSUME NEW d, DOMAIN d = CollectedFields, d.links \in SUBSET ImportLinks,
         d.recent \in Seq(Activities), Len(d.recent) <= StabilizationWindow,
         d.unresolved \in BOOLEAN, Snapshot(d),
         quietFor' \in QuietCounts, WindowKnows(d.recent, quietFor')
  PROVE  SignalInv' /\ StableMeansQuiet' /\ signal'.stabilized = ScopeStabilized(d)
<1> USE DEF CollectedFields
<1>1. /\ DOMAIN collected' = CollectedFields /\ collected'.recent = d.recent
      /\ collected'.links = d.links /\ collected'.unresolved = d.unresolved
      /\ collected'.modules = d.modules /\ collected'.stabilized = ScopeStabilized(d)
      /\ ScopeStabilized(d) => collected'.targets = RecentTargets(d)
  BY DEF Snapshot
<1>2. ScopeStabilized(d) \in BOOLEAN /\ MechanicalWork(d) \in BOOLEAN
      /\ (MechanicalWork(d) => ScopeStabilized(d))
  BY DEF ScopeStabilized, MechanicalWork
<1>3. signal' = [stabilized |-> ScopeStabilized(d), mechanical |-> MechanicalWork(d)]
  BY DEF Snapshot
<1>4. SignalTypeOK'
  <2>1. signal' \in [stabilized : BOOLEAN, mechanical : BOOLEAN]  BY <1>2, <1>3
  <2> QED BY <1>1, <1>2, <2>1 DEF SignalTypeOK, QuietCounts
<1>5. RecentTargets(collected)' = RecentTargets(d)  BY <1>1 DEF RecentTargets
<1>6. ScopeStabilized(collected)' = ScopeStabilized(d)
  BY <1>1, <1>5 DEF ScopeStabilized
<1>7. SignalFresh'  BY <1>1, <1>2, <1>3, <1>5, <1>6 DEF SignalFresh
<1>8. WindowKnows(collected.recent, quietFor)'  BY <1>1
<1>9. StableMeansQuiet'
  <2> SUFFICES ASSUME ScopeStabilized(d)
               PROVE  /\ quietFor'.growth >= StabilizationWindow
                      /\ quietFor'.failure >= StabilizationWindow
    BY <1>2, <1>3 DEF StableMeansQuiet
  <2> DEFINE g == quietFor'.growth  f == quietFor'.failure  W == StabilizationWindow
  <2>1. W \in Nat \ {0} /\ g \in Nat /\ f \in Nat /\ Len(d.recent) = W
    BY SignalAssumption DEF ScopeStabilized, QuietCounts
  <2>2. \A i \in 1..W : ~d.recent[i].expanded /\ ~d.recent[i].failure
    BY <2>1 DEF ScopeStabilized
  <2>3. ASSUME g < W PROVE FALSE
    <3>1. Len(d.recent) > g /\ d.recent[Len(d.recent) - g].expanded
      BY <2>1, <2>3 DEF WindowKnows
    <3>2. Len(d.recent) - g \in 1..W  BY <2>1, <2>3
    <3> QED BY <2>2, <3>1, <3>2
  <2>4. ASSUME f < W PROVE FALSE
    <3>1. Len(d.recent) > f /\ d.recent[Len(d.recent) - f].failure
      BY <2>4 DEF WindowKnows
    <3>2. Len(d.recent) - f \in 1..W  BY <2>1, <2>4
    <3> QED BY <2>2, <3>1, <3>2
  <2> QED BY <2>1, <2>3, <2>4
<1> QED BY <1>3, <1>4, <1>7, <1>8, <1>9 DEF SignalInv

\* An observation that is no activity keeps a stable scope stable.
LEMMA Noticed ==
  ASSUME SignalInv, NEW c, DOMAIN c = CollectedFields, c.links \in SUBSET ImportLinks,
         c.recent = collected.recent, collected.modules \subseteq c.modules,
         c.unresolved \in BOOLEAN, c.unresolved => collected.unresolved,
         Snapshot(c), quietFor' = quietFor
  PROVE  SignalInv' /\ StableMeansQuiet' /\ LossIsCounted
<1>1. /\ SignalInv' /\ StableMeansQuiet' /\ signal'.stabilized = ScopeStabilized(c)
  BY SnapshotFresh DEF SignalInv, SignalTypeOK, QuietCounts
<1>2. ASSUME signal.stabilized PROVE ScopeStabilized(c)
  <2>1. ScopeStabilized(collected)  BY <1>2 DEF SignalInv, SignalFresh
  <2>2. RecentTargets(c) = RecentTargets(collected)  BY DEF RecentTargets
  <2> QED BY <2>1, <2>2 DEF ScopeStabilized
<1> QED BY <1>1, <1>2 DEF LossIsCounted

\* An activity that does not invalidate a stable scope leaves it stable.
LEMMA Absorbed ==
  ASSUME SignalInv, NEW c, NEW a \in Activities, c.recent = collected.recent,
         c.stabilized = collected.stabilized, c.targets = collected.targets,
         collected.modules \subseteq c.modules, DOMAIN c = CollectedFields,
         c.unresolved => collected.unresolved \/ a.failure,
         ~a.expanded => a.edges = 0, signal.stabilized, ~Invalidates(c, a)
  PROVE  ScopeStabilized(RecordActivity(c, a))
<1> DEFINE d == RecordActivity(c, a)  s == collected.recent  W == StabilizationWindow
<1>1. /\ d.recent = LastWindow(Append(s, a)) /\ d.modules = c.modules
      /\ d.unresolved = c.unresolved /\ DOMAIN d = CollectedFields
  BY DEF RecordActivity, CollectedFields
<1>2. ScopeStabilized(collected) /\ collected.stabilized /\ collected.targets = RecentTargets(collected)
  BY DEF SignalInv, SignalFresh
<1>3. ~a.expanded /\ a.edges = 0 /\ ~a.failure /\ a.targets \subseteq RecentTargets(collected)
  BY <1>2 DEF Invalidates
<1>4. s \in Seq(Activities) /\ Len(s) = W /\ W \in Nat \ {0}
  BY <1>2, SignalAssumption DEF SignalInv, SignalTypeOK, ScopeStabilized
<1>5. /\ d.recent \in Seq(Activities) /\ Len(d.recent) = W /\ d.recent[W] = a
      /\ \A i \in 1..(W - 1) : d.recent[i] = s[i + 1]
  <2> DEFINE t == LastWindow(Append(s, a))
  <2>1. Len(s) <= StabilizationWindow  BY <1>4
  <2>2. /\ t \in Seq(Activities)
        /\ Len(s) = StabilizationWindow =>
              /\ Len(t) = StabilizationWindow /\ t[StabilizationWindow] = a
              /\ \A i \in 1..(StabilizationWindow - 1) : t[i] = s[i + 1]
    <3> HIDE DEF s, d
    <3> QED BY <1>4, <2>1, WindowMoves
  <2>3. d.recent = t  BY <1>1
  <2> HIDE DEF d, t
  <2> QED BY <1>4, <2>2, <2>3
<1> HIDE DEF d
<1>6. DOMAIN d.recent = 1..W /\ DOMAIN s = 1..W  BY <1>4, <1>5
<1>7. \A i \in 1..W : d.recent[i] = a \/ (i + 1 \in 1..W /\ d.recent[i] = s[i + 1])
  BY <1>4, <1>5
<1>8. \A i \in 1..W : ~d.recent[i].expanded /\ d.recent[i].edges = 0 /\ ~d.recent[i].failure
  BY <1>2, <1>3, <1>6, <1>7 DEF ScopeStabilized
<1>9. RecentTargets(d) \subseteq RecentTargets(collected)
  BY <1>3, <1>6, <1>7 DEF RecentTargets
<1>10. Cardinality(RecentTargets(d)) <= MechanicalTargets
  <2>1. RecentTargets(collected) \subseteq SignalFiles
    <3>1. \A i \in 1..W : s[i] \in Activities  BY <1>4
    <3> QED BY <1>6, <3>1 DEF RecentTargets, Activities
  <2>2. IsFiniteSet(RecentTargets(collected))  BY <2>1, SignalAssumption, FS_Subset
  <2>3. /\ IsFiniteSet(RecentTargets(d))
        /\ Cardinality(RecentTargets(d)) <= Cardinality(RecentTargets(collected))
    BY <1>9, <2>2, FS_Subset
  <2>4. Cardinality(RecentTargets(d)) \in Nat /\ Cardinality(RecentTargets(collected)) \in Nat
    BY <2>2, <2>3, FS_CardinalityType
  <2>5. Cardinality(RecentTargets(collected)) <= MechanicalTargets  BY <1>2 DEF ScopeStabilized
  <2> QED BY <2>3, <2>4, <2>5, SignalAssumption
<1>11. d.modules # {} /\ ~d.unresolved  BY <1>1, <1>2, <1>3 DEF ScopeStabilized
<1>12. ScopeStabilized(d)  BY <1>5, <1>6, <1>8, <1>10, <1>11 DEF ScopeStabilized
<1> QED BY <1>12 DEF d

\* A meaningful activity is recorded, and what it takes from a stable scope is counted.
LEMMA Recorded ==
  ASSUME SignalInv, NEW c, NEW a \in Activities, DOMAIN c = CollectedFields,
         c.links \in SUBSET ImportLinks, c.recent = collected.recent,
         c.stabilized = collected.stabilized, c.targets = collected.targets,
         c.invalidations = collected.invalidations, collected.modules \subseteq c.modules,
         c.unresolved \in BOOLEAN, c.unresolved => collected.unresolved \/ a.failure,
         ~a.expanded => a.edges = 0, Snapshot(RecordActivity(c, a)), quietFor' \in QuietCounts,
         (quietFor'.growth = 0 /\ a.expanded) \/ quietFor'.growth = Saturating(quietFor.growth),
         (quietFor'.failure = 0 /\ a.failure) \/ quietFor'.failure = Saturating(quietFor.failure)
  PROVE  SignalInv' /\ StableMeansQuiet' /\ LossIsCounted
<1> DEFINE d == RecordActivity(c, a)
<1>1. /\ d.recent = LastWindow(Append(collected.recent, a)) /\ d.links = c.links
      /\ d.unresolved = c.unresolved /\ DOMAIN d = CollectedFields
      /\ d.invalidations = IF Invalidates(c, a) THEN collected.invalidations + 1
                                               ELSE collected.invalidations
  BY DEF RecordActivity, CollectedFields
<1>2. collected.recent \in Seq(Activities) /\ Len(collected.recent) <= StabilizationWindow
      /\ quietFor \in QuietCounts /\ WindowKnows(collected.recent, quietFor)
  BY DEF SignalInv, SignalTypeOK, QuietCounts
<1>3. Snapshot(d)  OBVIOUS
<1> HIDE DEF d
<1>4. d.recent \in Seq(Activities) /\ Len(d.recent) <= StabilizationWindow
  <2>1. StabilizationWindow \in Nat \ {0} /\ Len(collected.recent) \in Nat
    BY <1>2, SignalAssumption
  <2> DEFINE s == collected.recent  t == LastWindow(Append(s, a))
  <2>2. /\ t \in Seq(Activities)
        /\ Len(s) < StabilizationWindow => Len(t) = Len(s) + 1
        /\ Len(s) = StabilizationWindow => Len(t) = StabilizationWindow
    BY <1>2, WindowMoves
  <2>3. d.recent = t  BY <1>1
  <2> HIDE DEF t
  <2> QED BY <1>2, <2>1, <2>2, <2>3
<1>5. WindowKnows(d.recent, quietFor')
  BY <1>1, <1>2, WindowStillKnows DEF QuietCounts
<1>6. SignalInv' /\ StableMeansQuiet' /\ signal'.stabilized = ScopeStabilized(d)
  BY <1>1, <1>3, <1>4, <1>5, SnapshotFresh
<1>7. ASSUME signal.stabilized, ~signal'.stabilized
      PROVE  collected'.invalidations = collected.invalidations + 1
  <2>1. Invalidates(c, a)  BY <1>6, <1>7, Absorbed DEF d
  <2>2. collected'.invalidations = d.invalidations  BY <1>1, <1>3 DEF Snapshot, CollectedFields
  <2> QED BY <1>1, <2>1, <2>2
<1> QED BY <1>6, <1>7 DEF LossIsCounted

\* The three observations.
LEMMA ObserveAgentEventSound ==
  ASSUME SignalInv, NEW files \in SUBSET SignalFiles, NEW links \in SUBSET ImportLinks,
         NEW meaningful \in BOOLEAN, NEW pattern \in SignalPatterns \cup {"none"}, NEW said,
         ObserveAgentEvent(files, links, meaningful, pattern, said)
  PROVE  SignalInv' /\ StableMeansQuiet' /\ LossIsCounted
<1> DEFINE newFiles == files \ collected.files
           newModules == Modules(files) \ collected.modules
           modules == collected.modules \cup newModules
           newEdges == Cardinality(CrossEdges(links, modules))
                         - Cardinality(CrossEdges(links, collected.modules))
           c == [collected EXCEPT !.links = links, !.files = @ \cup files, !.modules = modules,
                                  !.mechanical = IF said = "unsaid" THEN @ ELSE said]
           targets == IF pattern = "none" THEN {} ELSE files
           a == Activity(newFiles, newModules, newEdges, targets, FALSE, pattern)
<1>1. /\ Snapshot(IF meaningful THEN RecordActivity(c, a) ELSE c)
      /\ quietFor' = IF ~meaningful THEN quietFor
                     ELSE [growth |-> IF newFiles # {} \/ newModules # {} THEN 0
                                      ELSE Saturating(quietFor.growth),
                           failure |-> Saturating(quietFor.failure)]
  BY DEF ObserveAgentEvent
<1>2. /\ DOMAIN c = CollectedFields /\ c.links \in SUBSET ImportLinks
      /\ c.recent = collected.recent /\ c.stabilized = collected.stabilized
      /\ c.targets = collected.targets /\ c.invalidations = collected.invalidations
      /\ collected.modules \subseteq c.modules /\ c.unresolved = collected.unresolved
      /\ c.unresolved \in BOOLEAN
  <2>1. DOMAIN collected = CollectedFields /\ collected.unresolved \in BOOLEAN
    BY DEF SignalInv, SignalTypeOK
  <2> HIDE DEF modules
  <2>2. /\ DOMAIN c = CollectedFields /\ c.links = links /\ c.modules = modules
        /\ c.recent = collected.recent /\ c.stabilized = collected.stabilized
        /\ c.targets = collected.targets /\ c.invalidations = collected.invalidations
        /\ c.unresolved = collected.unresolved
    BY <2>1 DEF CollectedFields
  <2> HIDE DEF c
  <2> QED BY <2>1, <2>2 DEF modules
<1>3. /\ a \in Activities /\ ~a.failure /\ (~a.expanded => a.edges = 0)
      /\ (newFiles # {} \/ newModules # {} => a.expanded)
  <2>1. targets \in SUBSET SignalFiles  OBVIOUS
  <2>2. newEdges = Cardinality(CrossEdges(links, collected.modules \cup newModules))
                     - Cardinality(CrossEdges(links, collected.modules))
    OBVIOUS
  <2> DEFINE e == newFiles # {} \/ newModules # {} \/ newEdges > 0
  <2>3. a = [expanded |-> e, edges |-> newEdges, targets |-> targets, failure |-> FALSE,
             pattern |-> pattern]
    BY DEF Activity
  <2> HIDE DEF targets, newModules, newEdges, newFiles, a, modules, c
  <2>4. newEdges \in Int /\ (newModules = {} => newEdges = 0)
    <3>1. /\ Cardinality(CrossEdges(links, collected.modules \cup newModules)) \in Nat
          /\ Cardinality(CrossEdges(links, collected.modules)) \in Nat
      <4>1. links \in SUBSET ImportLinks  OBVIOUS
      <4>2. \A m : Cardinality(CrossEdges(links, m)) \in Nat  BY <4>1, EdgesCounted
      <4> QED BY <4>2
    <3>2. newEdges \in Int  BY <2>2, <3>1
    <3>3. ASSUME newModules = {} PROVE newEdges = 0
      <4>1. collected.modules \cup newModules = collected.modules  BY <3>3
      <4>2. newEdges = Cardinality(CrossEdges(links, collected.modules))
                         - Cardinality(CrossEdges(links, collected.modules))
        BY <2>2, <4>1, Zenon
      <4> QED BY <3>1, <4>2
    <3> QED BY <3>2, <3>3
  <2>5. e \in BOOLEAN /\ (~e => newEdges = 0) /\ (newFiles # {} \/ newModules # {} => e)  BY <2>4
  <2> HIDE DEF e
  <2>6. a.expanded = e /\ a.edges = newEdges /\ ~a.failure  BY <2>3
  <2>7. a \in Activities  BY <2>1, <2>3, <2>4, <2>5 DEF Activities
  <2> QED BY <2>5, <2>6, <2>7
<1>4. quietFor \in QuietCounts /\ \A n \in Nat : Saturating(n) \in Nat
  BY SignalAssumption DEF SignalInv, SignalTypeOK, QuietCounts, Saturating
<1> HIDE DEF c, a, newFiles, newModules
<1>5. CASE meaningful
  <2>1. Snapshot(RecordActivity(c, a))  BY <1>1, <1>5
  <2>2. /\ quietFor' \in QuietCounts /\ quietFor'.failure = Saturating(quietFor.failure)
        /\ quietFor'.growth = IF newFiles # {} \/ newModules # {} THEN 0
                              ELSE Saturating(quietFor.growth)
    BY <1>1, <1>4, <1>5 DEF QuietCounts
  <2>3. (quietFor'.growth = 0 /\ a.expanded) \/ quietFor'.growth = Saturating(quietFor.growth)
    BY <1>3, <2>2
  <2> QED BY <1>2, <1>3, <2>1, <2>2, <2>3, Recorded
<1>6. CASE ~meaningful
  <2>1. Snapshot(c) /\ quietFor' = quietFor  BY <1>1, <1>6
  <2> QED BY <1>2, <2>1, Noticed
<1> QED BY <1>5, <1>6

LEMMA ObserveDiffSound ==
  ASSUME SignalInv, NEW files \in SUBSET SignalFiles, ObserveDiff(files)
  PROVE  SignalInv' /\ StableMeansQuiet' /\ LossIsCounted
<1> DEFINE links == collected.links
           newFiles == files \ collected.files
           newModules == Modules(files) \ collected.modules
           modules == collected.modules \cup newModules
           newEdges == Cardinality(CrossEdges(links, modules))
                         - Cardinality(CrossEdges(links, collected.modules))
           c == [collected EXCEPT !.files = @ \cup files, !.modules = modules,
                                  !.changed = @ \cup files]
           a == Activity(newFiles, newModules, newEdges, files, FALSE, "none")
<1>1. /\ Snapshot(RecordActivity(c, a))
      /\ quietFor' = [growth |-> IF newFiles # {} \/ newModules # {} THEN 0
                                 ELSE Saturating(quietFor.growth),
                      failure |-> Saturating(quietFor.failure)]
  BY DEF ObserveDiff
<1>2. /\ DOMAIN c = CollectedFields /\ c.links \in SUBSET ImportLinks
      /\ c.recent = collected.recent /\ c.stabilized = collected.stabilized
      /\ c.targets = collected.targets /\ c.invalidations = collected.invalidations
      /\ collected.modules \subseteq c.modules /\ c.unresolved = collected.unresolved
      /\ c.unresolved \in BOOLEAN
  <2>1. /\ DOMAIN collected = CollectedFields /\ collected.unresolved \in BOOLEAN
        /\ collected.links \in SUBSET ImportLinks
    BY DEF SignalInv, SignalTypeOK
  <2> HIDE DEF modules
  <2>2. /\ DOMAIN c = CollectedFields /\ c.links = collected.links /\ c.modules = modules
        /\ c.recent = collected.recent /\ c.stabilized = collected.stabilized
        /\ c.targets = collected.targets /\ c.invalidations = collected.invalidations
        /\ c.unresolved = collected.unresolved
    BY <2>1 DEF CollectedFields
  <2> HIDE DEF c
  <2> QED BY <2>1, <2>2 DEF modules
<1>3. /\ a \in Activities /\ ~a.failure /\ (~a.expanded => a.edges = 0)
      /\ (newFiles # {} \/ newModules # {} => a.expanded)
  <2>1. links \in SUBSET ImportLinks  BY DEF SignalInv, SignalTypeOK
  <2>2. newEdges = Cardinality(CrossEdges(links, collected.modules \cup newModules))
                     - Cardinality(CrossEdges(links, collected.modules))
    OBVIOUS
  <2> DEFINE e == newFiles # {} \/ newModules # {} \/ newEdges > 0
  <2>3. a = [expanded |-> e, edges |-> newEdges, targets |-> files, failure |-> FALSE,
             pattern |-> "none"]
    BY DEF Activity
  <2> HIDE DEF links, newModules, newEdges, newFiles, a, modules, c
  <2>4. newEdges \in Int /\ (newModules = {} => newEdges = 0)
    <3>1. /\ Cardinality(CrossEdges(links, collected.modules \cup newModules)) \in Nat
          /\ Cardinality(CrossEdges(links, collected.modules)) \in Nat
      BY <2>1, EdgesCounted
    <3>2. newEdges \in Int  BY <2>2, <3>1
    <3>3. ASSUME newModules = {} PROVE newEdges = 0
      <4>1. collected.modules \cup newModules = collected.modules  BY <3>3
      <4>2. newEdges = Cardinality(CrossEdges(links, collected.modules))
                         - Cardinality(CrossEdges(links, collected.modules))
        BY <2>2, <4>1, Zenon
      <4> QED BY <3>1, <4>2
    <3> QED BY <3>2, <3>3
  <2>5. e \in BOOLEAN /\ (~e => newEdges = 0) /\ (newFiles # {} \/ newModules # {} => e)  BY <2>4
  <2> HIDE DEF e
  <2>6. a.expanded = e /\ a.edges = newEdges /\ ~a.failure  BY <2>3
  <2>7. a \in Activities  BY <2>1, <2>3, <2>4, <2>5 DEF Activities
  <2> QED BY <2>5, <2>6, <2>7
<1>4. quietFor \in QuietCounts /\ \A n \in Nat : Saturating(n) \in Nat
  BY SignalAssumption DEF SignalInv, SignalTypeOK, QuietCounts, Saturating
<1> HIDE DEF c, a, newFiles, newModules
<1>5. /\ quietFor' \in QuietCounts /\ quietFor'.failure = Saturating(quietFor.failure)
      /\ quietFor'.growth = IF newFiles # {} \/ newModules # {} THEN 0
                            ELSE Saturating(quietFor.growth)
  BY <1>1, <1>4 DEF QuietCounts
<1>6. (quietFor'.growth = 0 /\ a.expanded) \/ quietFor'.growth = Saturating(quietFor.growth)
  BY <1>3, <1>5
<1> QED BY <1>1, <1>2, <1>3, <1>5, <1>6, Recorded

LEMMA ObserveVerificationSound ==
  ASSUME SignalInv, NEW verified \in BOOLEAN, ObserveVerification(verified)
  PROVE  SignalInv' /\ StableMeansQuiet' /\ LossIsCounted
<1> DEFINE c == [collected EXCEPT !.unresolved = ~verified]
           a == Activity({}, {}, 0, {}, TRUE, "none")
<1>1. /\ Snapshot(IF verified THEN c ELSE RecordActivity(c, a))
      /\ quietFor' = IF verified THEN quietFor
                     ELSE [growth |-> Saturating(quietFor.growth), failure |-> 0]
  BY DEF ObserveVerification
<1>2. /\ DOMAIN c = CollectedFields /\ c.links \in SUBSET ImportLinks
      /\ c.recent = collected.recent /\ c.stabilized = collected.stabilized
      /\ c.targets = collected.targets /\ c.invalidations = collected.invalidations
      /\ c.modules = collected.modules /\ c.unresolved = ~verified
  BY DEF SignalInv, SignalTypeOK, CollectedFields
<1>3. a \in Activities /\ a.failure /\ ~a.expanded /\ a.edges = 0
  <2> DEFINE e == {} # {} \/ {} # {} \/ 0 > 0
  <2>1. a = [expanded |-> e, edges |-> 0, targets |-> {}, failure |-> TRUE, pattern |-> "none"]
    BY DEF Activity
  <2>2. e \in BOOLEAN /\ ~e  OBVIOUS
  <2> HIDE DEF e, a
  <2>3. a.failure /\ a.expanded = e /\ a.edges = 0  BY <2>1
  <2>4. a \in Activities  BY <2>1, <2>2 DEF Activities
  <2> QED BY <2>2, <2>3, <2>4
<1>4. quietFor \in QuietCounts /\ \A n \in Nat : Saturating(n) \in Nat
  BY SignalAssumption DEF SignalInv, SignalTypeOK, QuietCounts, Saturating
<1> HIDE DEF c, a
<1>5. CASE verified
  <2>1. Snapshot(c) /\ quietFor' = quietFor  BY <1>1, <1>5
  <2> QED BY <1>2, <1>5, <2>1, Noticed
<1>6. CASE ~verified
  <2>1. Snapshot(RecordActivity(c, a))  BY <1>1, <1>6
  <2>2. /\ quietFor' \in QuietCounts /\ quietFor'.failure = 0
        /\ quietFor'.growth = Saturating(quietFor.growth)
    BY <1>1, <1>4, <1>6 DEF QuietCounts
  <2> QED BY <1>2, <1>3, <1>6, <2>1, <2>2, Recorded
<1> QED BY <1>5, <1>6

\* The stability signals are sound: a scope is called stable, or the work left mechanical, only
\* after a whole window in which nothing new was reached and nothing failed, and no loss of
\* stability goes uncounted. The collector keeps only the last window of the activities
\* (runtime-signal-collector.ts), so the invariant says what that window still knows of the past;
\* and it recomputes the flag in every snapshot, so that only an invalidation can clear it is a
\* fact about the policy and not about one assignment.
THEOREM SignalHolds == SignalSpec => SignalsAreSound
<1>1. SignalInit => SignalInv
  <2> SUFFICES ASSUME SignalInit PROVE SignalInv  OBVIOUS
  <2>1. /\ DOMAIN collected = CollectedFields /\ collected.links = {} /\ collected.recent = <<>>
        /\ collected.stabilized = FALSE /\ collected.unresolved = FALSE
        /\ signal = [stabilized |-> FALSE, mechanical |-> FALSE]
        /\ quietFor = [growth |-> 0, failure |-> StabilizationWindow]
    BY DEF SignalInit, CollectedFields
  <2>2. <<>> \in Seq(Activities) /\ Len(<<>>) = 0 /\ 0 <= StabilizationWindow
        /\ StabilizationWindow \in Nat
    BY SignalAssumption
  <2>3. SignalTypeOK  BY <2>1, <2>2 DEF SignalTypeOK
  <2>4. WindowKnows(collected.recent, quietFor)  BY <2>1, <2>2 DEF WindowKnows
  <2>5. SignalFresh  BY <2>1 DEF SignalFresh
  <2> QED BY <2>3, <2>4, <2>5 DEF SignalInv
<1>2. ASSUME SignalInv, [SignalNext]_signalVars
      PROVE  SignalInv' /\ (UNCHANGED signalVars \/ (StableMeansQuiet' /\ LossIsCounted))
  <2>1. CASE UNCHANGED signalVars
    BY <1>2, <2>1 DEF signalVars, SignalInv, SignalTypeOK, SignalFresh, ScopeStabilized, RecentTargets
  <2>2. CASE \E f \in SignalFiles, links \in SUBSET ImportLinks, meaningful \in BOOLEAN,
                pattern \in SignalPatterns \cup {"none"}, said \in {"unsaid", "denied"} :
               ObserveAgentEvent({f}, links, meaningful, pattern, said)
    <3>1. PICK f \in SignalFiles, links \in SUBSET ImportLinks, meaningful \in BOOLEAN,
               pattern \in SignalPatterns \cup {"none"}, said \in {"unsaid", "denied"} :
                 ObserveAgentEvent({f}, links, meaningful, pattern, said)
      BY <2>2
    <3>2. {f} \in SUBSET SignalFiles  OBVIOUS
    <3> QED BY <1>2, <3>1, <3>2, ObserveAgentEventSound
  <2>3. CASE \E files \in SUBSET SignalFiles \ {{}} : ObserveDiff(files)
    BY <1>2, <2>3, ObserveDiffSound
  <2>4. CASE \E verified \in BOOLEAN : ObserveVerification(verified)
    BY <1>2, <2>4, ObserveVerificationSound
  <2> QED BY <1>2, <2>1, <2>2, <2>3, <2>4 DEF SignalNext
<1>3. SignalInv /\ [SignalNext]_signalVars
        => [UNCHANGED signalVars \/ (StableMeansQuiet' /\ LossIsCounted)]_signalVars
  BY <1>2
<1>4. SignalInv /\ [SignalNext]_signalVars => SignalInv'  BY <1>2
<1> QED BY <1>1, <1>3, <1>4, PTL DEF SignalSpec, SignalsAreSound

-----------------------------------------------------------------------------
(* CircuitBreaker. *)

\* The record's fields stay in range: the failure counter below its cap, the
\* clock within the cooldown, every attempt one of its three kinds.
THEOREM TypeCorrect == Spec => []TypeOK
<1>1. Init => TypeOK
  <2>1. Init => probing \in BOOLEAN
    BY DEF Init
  <2>2. Init => /\ failures \in 0..FailureThreshold
                /\ sinceOpened \in NotOpened..Cooldown
                /\ attempt \in [Callers -> {"none", "ordinary", "probe"}]
    BY PolicyAssumption DEF Init, NotOpened
  <2> QED
    BY <2>1, <2>2 DEF TypeOK
<1>2. TypeOK /\ [Next]_vars => TypeOK'
  <2> SUFFICES ASSUME TypeOK, [Next]_vars PROVE TypeOK'
    OBVIOUS
  <2> USE PolicyAssumption DEF TypeOK, NotOpened
  <2>1. ASSUME NEW c \in Callers, Begin(c) PROVE TypeOK'
    BY <2>1 DEF Begin, BeginAttempt, CanAttempt, State
  <2>2. ASSUME NEW c \in Callers, Succeed(c) PROVE TypeOK'
    <3>1. probing' \in BOOLEAN
      BY <2>2, Zenon DEF Succeed, RecordSuccess
    <3>2. failures' \in 0..FailureThreshold /\ sinceOpened' \in NotOpened..Cooldown
      BY <2>2 DEF Succeed, RecordSuccess
    <3>3. attempt' \in [Callers -> {"none", "ordinary", "probe"}]
      BY <2>2 DEF Succeed, End
    <3> QED
      BY <3>1, <3>2, <3>3, Zenon
  <2>3. ASSUME NEW c \in Callers, FailOnProvider(c) PROVE TypeOK'
    <3>1. probing' \in BOOLEAN
      BY <2>3, Zenon DEF FailOnProvider, RecordFailure
    <3>2. failures' \in 0..FailureThreshold /\ sinceOpened' \in NotOpened..Cooldown
      BY <2>3 DEF FailOnProvider, RecordFailure
    <3>3. attempt' \in [Callers -> {"none", "ordinary", "probe"}]
      BY <2>3 DEF FailOnProvider, End
    <3> QED
      BY <3>1, <3>2, <3>3, Zenon
  <2>4. ASSUME NEW c \in Callers, FailElsewhere(c) PROVE TypeOK'
    BY <2>4 DEF FailElsewhere, End, ReleaseProbe
  <2>5. ASSUME NEW c \in Callers, CancelledThrow(c) PROVE TypeOK'
    BY <2>5 DEF CancelledThrow, End
  <2>6. CASE Tick
    BY <2>6 DEF Tick
  <2>7. CASE UNCHANGED vars
    BY <2>7 DEF vars
  <2> QED
    BY <2>1, <2>2, <2>3, <2>4, <2>5, <2>6, <2>7 DEF Next
<1> QED
  BY <1>1, <1>2, PTL DEF Spec

\* The probe slot of beginAttempt is only ever taken in a circuit that waited
\* its whole cooldown, and openedAt is set exactly while the circuit is open:
\* no order of late outcomes of concurrent attempts breaks it.
THEOREM ProbeOnlyHalfOpenHolds == Spec => []ProbeOnlyHalfOpen
<1>1. Init => ProbeOnlyHalfOpen
  BY PolicyAssumption DEF Init, ProbeOnlyHalfOpen, NotOpened
<1>2. TypeOK /\ ProbeOnlyHalfOpen /\ [Next]_vars => ProbeOnlyHalfOpen'
  <2> SUFFICES ASSUME TypeOK, ProbeOnlyHalfOpen, [Next]_vars
               PROVE  ProbeOnlyHalfOpen'
    OBVIOUS
  <2> USE PolicyAssumption DEF TypeOK, NotOpened, ProbeOnlyHalfOpen, State
  <2>1. ASSUME NEW c \in Callers, Begin(c) PROVE ProbeOnlyHalfOpen'
    BY <2>1 DEF Begin, BeginAttempt, CanAttempt
  <2>2. ASSUME NEW c \in Callers, Succeed(c) PROVE ProbeOnlyHalfOpen'
    BY <2>2 DEF Succeed, RecordSuccess
  <2>3. ASSUME NEW c \in Callers, FailOnProvider(c) PROVE ProbeOnlyHalfOpen'
    BY <2>3 DEF FailOnProvider, RecordFailure
  <2>4. ASSUME NEW c \in Callers, FailElsewhere(c) PROVE ProbeOnlyHalfOpen'
    BY <2>4 DEF FailElsewhere, ReleaseProbe
  <2>5. ASSUME NEW c \in Callers, CancelledThrow(c) PROVE ProbeOnlyHalfOpen'
    BY <2>5 DEF CancelledThrow
  <2>6. CASE Tick
    \* A taken slot means the clock already stands at the cooldown.
    BY <2>6 DEF Tick
  <2>7. CASE UNCHANGED vars
    BY <2>7 DEF vars
  <2> QED
    BY <2>1, <2>2, <2>3, <2>4, <2>5, <2>6, <2>7 DEF Next
<1> QED
  BY <1>1, <1>2, TypeCorrect, PTL DEF Spec

\* Where nothing is rethrown past the breaker (runReviewerSession), a taken
\* slot always has a running owner.  With callers that rethrow on cancellation
\* (runAgentAttemptWithRecovery) it does not: see the run breaker_cancelled_probe.
THEOREM ReviewerProbesOwned ==
  ASSUME AgentCallers = {}
  PROVE  Spec => []ProbeHasOwner
<1>1. Init => ProbeHasOwner
  BY DEF Init, ProbeHasOwner
<1>2. TypeOK /\ ProbeHasOwner /\ [Next]_vars => ProbeHasOwner'
  <2> SUFFICES ASSUME TypeOK, ProbeHasOwner, [Next]_vars PROVE ProbeHasOwner'
    OBVIOUS
  <2> USE DEF TypeOK, ProbeHasOwner
  <2>1. ASSUME NEW c \in Callers, Begin(c) PROVE ProbeHasOwner'
    BY <2>1 DEF Begin, BeginAttempt
  <2>2. ASSUME NEW c \in Callers, Succeed(c) PROVE ProbeHasOwner'
    BY <2>2 DEF Succeed, RecordSuccess
  <2>3. ASSUME NEW c \in Callers, FailOnProvider(c) PROVE ProbeHasOwner'
    BY <2>3 DEF FailOnProvider, RecordFailure
  <2>4. ASSUME NEW c \in Callers, FailElsewhere(c) PROVE ProbeHasOwner'
    BY <2>4 DEF FailElsewhere, ReleaseProbe
  <2>5. ASSUME NEW c \in Callers, CancelledThrow(c) PROVE FALSE
    BY <2>5 DEF CancelledThrow
  <2>6. CASE Tick
    BY <2>6 DEF Tick
  <2>7. CASE UNCHANGED vars
    BY <2>7 DEF vars
  <2> QED
    BY <2>1, <2>2, <2>3, <2>4, <2>5, <2>6, <2>7 DEF Next
<1> QED
  BY <1>1, <1>2, TypeCorrect, PTL DEF Spec
=============================================================================
