--------------------------- MODULE DeliveryLedger ---------------------------
(* The delivery handoff of a completed run, the CI evidence collected for it *)
(* and the production feedback on what was released: the tail of             *)
(* RunService.execute, delivery, collectCiEvidence, collectProductionFeedback *)
(* and the ledgers of the store.  The handoff of attempt n of run r is <<r, n>>. *)
EXTENDS Naturals, Sequences, FiniteSets, SequencesExt

CONSTANTS DeliveryRuns,   \* runs
          Earlier,        \* those that have completed and stored their handoff
          CiRuns,         \* external CI runs
          Heads,          \* head revisions
          NoHead,         \* headRevision: null
          CiReports,      \* <<conclusion, head>>: what the CI verifier may report
          MaxAttempts,    \* bound: one more than the failures of a tail
          MaxEvidence,    \* bound: observations in the ledger
          MaxObserved     \* bound: observedAt

ASSUME DeliveryAssumption ==
  /\ Earlier \subseteq DeliveryRuns
  /\ NoHead \notin Heads /\ NoHead \notin DeliveryRuns
  /\ MaxObserved \in Nat

VARIABLES delivering,   \* the run record: state, attempt, binding, quality
          handoffs,     \* deliveryHandoffsByRun: the attempt stored, 0 for none
          evidence,     \* ci_evidence, in the order of insertion
          ciHead,       \* ciHeadByHandoff
          ciBound,      \* ciExternalRunBindings
          feedback,     \* production feedback: <<run, revision>>
          call          \* one request in flight, and its answer

deliveryVars == <<delivering, handoffs, evidence, ciHead, ciBound, feedback, call>>

Idle == [kind |-> "idle"]
Deliveries == {r \in DeliveryRuns : handoffs[r] # 0}

DeliveryInit ==
  /\ delivering = [r \in DeliveryRuns |->
       [state |-> IF r \in Earlier THEN "COMPLETED" ELSE "RUNNING", attempt |-> 1,
        bound |-> r \in Earlier, ready |-> r \in Earlier]]
  /\ handoffs = [r \in DeliveryRuns |-> IF r \in Earlier THEN 1 ELSE 0]
  /\ evidence = <<>>
  /\ ciHead = [r \in DeliveryRuns |-> NoHead]
  /\ ciBound = [e \in CiRuns |-> NoHead]
  /\ feedback = {}
  /\ call = Idle

\* The candidate is verified: the COMPLETED record is stored, with the binding to the
\* handoff unless a merge-eligible run lacks a canonical authority.
CompleteRun(r, eligible, authorised) ==
  /\ delivering[r].state = "RUNNING"
  /\ delivering' = [delivering EXCEPT ![r].state = "TAIL", ![r].ready = eligible,
                                      ![r].bound = ~eligible \/ authorised]
  /\ UNCHANGED <<handoffs, evidence, ciHead, ciBound, feedback, call>>

\* saveDeliveryHandoff: a run has one handoff for ever; a refusal is only reported.
SaveHandoff(r) ==
  /\ delivering[r].state = "TAIL"
  /\ handoffs' = IF delivering[r].bound /\ handoffs[r] = 0
                 THEN [handoffs EXCEPT ![r] = delivering[r].attempt] ELSE handoffs
  /\ \E state \in {"COMPLETED", "SAVED"} : delivering' = [delivering EXCEPT ![r].state = state]
  /\ UNCHANGED <<evidence, ciHead, ciBound, feedback, call>>

\* An event of the tail cannot be appended: trust and delivery are withdrawn.
TailFails(r) ==
  /\ delivering[r].state \in {"TAIL", "SAVED"}
  /\ \A q \in DeliveryRuns :
       delivering[q].attempt < MaxAttempts /\ delivering[q].state # "PAUSED"
  /\ delivering' = [delivering EXCEPT ![r].state = "PAUSED", ![r].bound = FALSE]
  /\ UNCHANGED <<handoffs, evidence, ciHead, ciBound, feedback, call>>

ResumeRun(r) ==
  /\ delivering[r].state = "PAUSED"
  /\ delivering' = [delivering EXCEPT ![r].state = "RUNNING", ![r].attempt = @ + 1]
  /\ UNCHANGED <<handoffs, evidence, ciHead, ciBound, feedback, call>>

\* The stored handoff is current authority only through the binding of the run record.
AnyStoredHandoff(r) == handoffs[r] # 0
CurrentHandoff(r) ==
  /\ handoffs[r] # 0
  /\ delivering[r].state \in {"TAIL", "SAVED", "COMPLETED"}
  /\ delivering[r].bound
  /\ delivering[r].attempt = handoffs[r]

\* delivery and collectCiEvidence read the run and its handoff first.
AskDelivery(r, kind) ==
  /\ call.kind \in {"idle", "answered"}
  /\ CurrentHandoff(r)
  /\ call' = [kind |-> kind, run |-> r, began |-> delivering[r].attempt]
  /\ UNCHANGED <<delivering, handoffs, evidence, ciHead, ciBound, feedback>>

\* What assertCiEvidence accepts: a PASS names its head.
Observations ==
  {[external |-> e, observedAt |-> t, conclusion |-> report[1], head |-> report[2]] :
     e \in CiRuns, t \in 1..MaxObserved,
     report \in {p \in CiReports : p[1] = "PASS" => p[2] # NoHead}}

\* The positions in the ledger of what was observed for the handoff of r.
EvidenceOf(r) == {i \in 1..Len(evidence) : evidence[i].run = r}

\* saveCiEvidence's conditions: one head for a handoff, one handoff for an external run,
\* no observation twice.
AcceptsOwnHead(r, o) ==
  /\ ciBound[o.external] \in {NoHead, r}
  /\ \A i \in 1..Len(evidence) : evidence[i].external = o.external =>
       /\ evidence[i].observedAt # o.observedAt
       /\ NoHead \in {o.head, evidence[i].head} \/ o.head = evidence[i].head
AcceptsAnyRun(r, o) == NoHead \in {ciHead[r], o.head} \/ o.head = ciHead[r]
AcceptsEvidence(r, o) ==
  /\ NoHead \in {ciHead[r], o.head} \/ o.head = ciHead[r]
  /\ ciBound[o.external] \in {NoHead, r}
  /\ \A i \in 1..Len(evidence) :
       evidence[i].external = o.external => evidence[i].observedAt # o.observedAt

CollectEvidence(o) ==
  /\ call.kind = "collect" /\ Len(evidence) < MaxEvidence
  /\ IF AcceptsEvidence(call.run, o)
     THEN /\ evidence' = Append(evidence,
                       [run |-> call.run, external |-> o.external, observedAt |-> o.observedAt,
                        conclusion |-> o.conclusion, head |-> o.head])
          /\ ciHead' = [ciHead EXCEPT ![call.run] = IF o.head = NoHead THEN @ ELSE o.head]
          /\ ciBound' = [ciBound EXCEPT ![o.external] = call.run]
          /\ call' = [call EXCEPT !.kind = "derive"]
     ELSE call' = Idle /\ UNCHANGED <<evidence, ciHead, ciBound>>
  /\ UNCHANGED <<delivering, handoffs, feedback>>

\* The CI verifier fails, or answers for another candidate.
CollectFails ==
  /\ call.kind = "collect"
  /\ call' = Idle
  /\ UNCHANGED <<delivering, handoffs, evidence, ciHead, ciBound, feedback>>

\* The observation a decision rests on: the last one observed, not the last one stored.
LatestStored(S) == evidence[CHOOSE i \in S : \A j \in S : j <= i]
LatestObservation(S) ==
  evidence[CHOOSE i \in S : \A j \in S :
             \/ evidence[j].observedAt < evidence[i].observedAt
             \/ evidence[j].observedAt = evidence[i].observedAt /\ j <= i]

\* deriveDeliveryDecision: heads that differ are an error; the merge stays external.
DeriveDecision(r, S) ==
  IF \E i, j \in S : NoHead \notin {evidence[i].head, evidence[j].head}
                     /\ evidence[i].head # evidence[j].head
  THEN "THROWN"
  ELSE IF ~delivering[r].ready THEN "BLOCKED"
  ELSE IF S = {} \/ LatestObservation(S).conclusion = "PENDING" THEN "PENDING"
  ELSE IF LatestObservation(S).conclusion = "PASS" THEN "ELIGIBLE" ELSE "BLOCKED"

AnswerDelivery ==
  /\ call.kind = "derive"
  /\ call' = [kind |-> "answered", began |-> call.began, of |-> handoffs[call.run],
              decision |-> DeriveDecision(call.run, EvidenceOf(call.run))]
  /\ UNCHANGED <<delivering, handoffs, evidence, ciHead, ciBound, feedback>>

\* saveProductionFeedback: only for the revision CI saw for the candidate.
CollectFeedback(r, revision) ==
  /\ r \in Deliveries /\ ciHead[r] = revision /\ feedback = {}
  /\ feedback' = feedback \cup {<<r, revision>>}
  /\ UNCHANGED <<delivering, handoffs, evidence, ciHead, ciBound, call>>

DeliveryNext ==
  \/ \E r \in DeliveryRuns :
       \/ \E eligible, authorised \in BOOLEAN : CompleteRun(r, eligible, authorised)
       \/ SaveHandoff(r) \/ TailFails(r) \/ ResumeRun(r)
       \/ \E kind \in {"collect", "derive"} : AskDelivery(r, kind)
       \/ \E revision \in Heads : CollectFeedback(r, revision)
  \/ \E o \in Observations : CollectEvidence(o)
  \/ CollectFails
  \/ AnswerDelivery

DeliverySpec == DeliveryInit /\ [][DeliveryNext]_deliveryVars

(* However observations of several external runs arrive, and however late, every head the   *)
(* ledger holds for a handoff is the same one, the released revision that production        *)
(* feedback names included; so the decision of a stored handoff never throws.               *)
OneHeadPerDelivery ==
  \A i \in 1..Len(evidence) : LET o == evidence[i] IN
    /\ o.head # NoHead => /\ ciHead[o.run] = o.head
                          /\ \A f \in feedback : f[1] = o.run => f[2] = o.head
    /\ call.kind = "answered" => call.decision # "THROWN"

(* No two handoffs rest on the same external CI run, and an observation counts once. *)
CiRunServesOneDelivery ==
  \A i, j \in 1..Len(evidence) :
    i # j /\ evidence[i].external = evidence[j].external =>
      evidence[i].run = evidence[j].run /\ evidence[i].observedAt # evidence[j].observedAt

(* An answer ELIGIBLE rests on a passing observation that no failing one of the ledger      *)
(* was observed after, in whatever order they were stored.                                  *)
EligibleIsNewest ==
  (call'.kind = "answered" /\ call # call' /\ call'.decision = "ELIGIBLE") =>
     \E i \in 1..Len(evidence) :
       /\ evidence[i].run = call.run /\ evidence[i].conclusion = "PASS"
       /\ \A j \in 1..Len(evidence) :
            evidence[j].run = call.run /\ evidence[j].conclusion # "PASS" =>
              evidence[j].observedAt <= evidence[i].observedAt

(* A durable handoff outlives its attempt: no answer is ever given for a handoff other than *)
(* the one of the attempt the request found.                                                *)
AnswerIsOfTheAttempt == call.kind = "answered" => call.of = call.began

\* What a client may rely on when it merges: one head, one CI run, the newest
\* observation and the handoff of the attempt it asked about.
DeliveryIsSound ==
  [][UNCHANGED deliveryVars \/ ((OneHeadPerDelivery /\ CiRunServesOneDelivery /\ AnswerIsOfTheAttempt)' /\ EligibleIsNewest)]_deliveryVars
=============================================================================
