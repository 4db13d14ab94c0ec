# MAF in TLA+

MAF is a service that runs coding agents on tasks. An operator posts a task; the service
creates a *run*, prepares a worktree, drives an agent's session in it, captures and verifies the
candidate the agent leaves, assesses and reviews it, and either delivers the result or pauses the
run with a capsule from which it can be resumed. Around that core stand an emergency stop, a
circuit breaker per model provider, a mode controller that changes a run's policy while it works, a
mission tree, external scanners, a semantic index, project knowledge, strategy learning, logins and
connections to providers, and a web interface.

This project models the run service (`src/application/run-service.ts`), the controls that decide
what may run, and the services it stands on. Each module is written from the code. Theorems hold
for every value of the constants; TLC covers what the prover cannot reach and gives the
counterexamples.

Paths below are relative to the repository; RS is `src/application/run-service.ts`.

## 1. The system

Everything runs in one Node process on one event loop. Code between two `await`s is atomic;
between them any other request, callback or timer may run. Durable state is in Postgres (or an
in-memory store with the same interface), reached through a connection pool. Agents, scanners and
verification commands are child processes that share the disk with the service. That fixes the
grain of every module here: **one action is the code between two awaits**, and whoever else writes
the same disk moves in between.

### Components

| Component | State | Operations | Talks to | What is hard |
|---|---|---|---|---|
| Run service (RS) | `active` map, live `Run` objects, run and capsule records | create, execute, cancel, resume, reconcile | everything | cancel at any await, two executions of one run, crash between two writes |
| Emergency stop (RS) | `emergencyStopped`, `controlStateHydrated`, control row | emergencyStop, resumeNewRuns, loadControlState | run service, store | admission during a stop, restart, a read that answers late |
| Circuit breaker | failures, openedAt, probe slot per provider | canAttempt, beginAttempt, recordOutcome, releaseProbe | agent and reviewer attempts of all runs | who took the slot and who gives it back |
| Mode enforcement (RS, `mode-controller`, `policy-enforcement`) | desired, effective and pending policy | requestModeChange, acknowledge, apply at a boundary | adapters, event log | plans made before an await, late acknowledgements, restarts |
| Verification and repair (RS, `verifier`, `verification-*`) | candidate, attempts, fences | capture, materialize, verify, retry, repair | worktree, budget | a writer in the worktree between two reads |
| Budget (RS, `budget`) | costs by category | authorize, record usage | sessions, repairs, retries | sessions that start without asking |
| Delivery (`delivery`, stores) | handoffs, CI observations, feedback | save, collect, decide | API, CI | late, repeated and reordered observations |
| Mission tree (`mission-tree`, `app`) | nodes, gates, bound runs | split, merge, collapse, bind, promote | run service | half-applied operations, a run bound too late |
| Trust folds (`risk`, `assurance*`, `quality`, `review`, `capability-adequacy`) | none: folds over evidence | deriveTrustState, obligations | run service | stale evidence, several producers of one answer |
| Concern discovery (`concern-*`, `local-code-semantics`, `diff-parse`, `security`, `semantic-sensitivity`) | none: readings of a patch | discover, parse, redact, trace flows | trust folds | silence taken for absence |
| Performance and resilience evidence | samples, scenarios | measure, verify | worktree, commands | a pass that does not answer what the change owes |
| Capability execution, scanners, SCIP index | probe cache, calls, open files | execute, bind, fold, query | child processes, disk | a tool or a file that changes between check and use |
| Agent adapters (`*-adapter`) | child, event queue, waiter | start, send, events, cancel | RS session loop | lost wake-ups, exits that race output |
| Processes and worktree | timers, process group, captured bytes | runProcess, collectDiff | everything that runs a command | timeout, abort, exit and close in any order |
| Native login, connections | attempts, tokens, references | begin, poll, cancel, refresh, disconnect | CLIs, OAuth | timers against exits, two refreshes at once |
| Context, project knowledge | working set, claims | expand, rebase, persist, reconcile | RS, disk, brain | copies taken before an await, stale claims |
| Strategy learning, signals, health | observations, windows | observe, assess, select, allocate | stores | selections from old lists |
| Model gateway and pricing | price index, cost records | load, resolve, estimate, aggregate | HTTP | unknown prices taken for free calls |
| API, control centre, web, evaluation, telemetry | none of their own | requests, views | all | - |

`PROJECT.json` lists all of them with their sources and status, and, under `hazards`, the places
where this code is hard to test, with the property that covers each.

## 2. Modules and the code

`X.tla` is the component, `MCX.tla` adds what TLC needs, and the theorems are in the modules named
`...Proofs.tla`: EmergencyStopProofs for the module of that name, RunLifecycleProofs for RunLifecycle
and RunRefinement, PricingProofs for PricedGateway, and five that each group the services of one
concern (section 4). Definitions
marked "Mutant" are plausible mistakes in the mapped code that each property must notice; no
specification uses them. `PROJECT.json` maps every definition to its lines.

### CircuitBreaker

One provider's record and its two call sites. `failures`, `sinceOpened` and `probing` are
`consecutiveFailures`, `now - openedAt` and `halfOpenTrialInFlight`; `attempt` remembers, per
caller, whether it holds an ordinary attempt or a probe. The failure counter is cut at the
threshold and the clock at the cooldown: no method distinguishes larger values. `Begin`, `Succeed`,
`FailOnProvider`, `FailElsewhere` and `CancelledThrow` are what `runAgentAttemptWithRecovery` and
`runReviewerSession` do with the methods. The last exists only for agent attempts: that function
rethrows for a cancelled run before it reaches the breaker, the reviewer's does not.

### EmergencyStop

`stopped`, `hydrated` and `tail` are the three fields of the service; `row` is the durable control
row and `writes` the writes on their way to it. Each admission (a call of create or resume) walks
through `Call`, `WriteAwaited`, `RowRead`, `Hydrate` or `ReadFails`, `Admit`, and `Start`, which is
`active.set`, the second look at the flag and the start of execute, with no await between.
`EmergencyStop`, `BeginSweep`, `CancelNext`, `Acknowledge` and `SweepFails` are the operator's call;
`ResumeNewRuns` is its opposite, which does not wait for its write. `Crash` loses the memory and any
subset of the writes in flight. `Faults` selects what the store may do besides answering in order.
`decision` and `overwritten` are history.

### RunLifecycle, RunRecord, RunRefinement

One run. An *execution* is one call of `execute`: the first belongs to create, each later one to a
resume. Each has its own live `Run` object (`run[e]`), its own `ActiveRunState` (`entry[e]`) and a
program point (`pc[e]`), while the `active` map has room for one entry per run; that asymmetry is
where the interesting interleavings come from. `store` is the durable record, `capsule` the durable
recovery capsule.

| `pc` | await in the code | ends with |
|---|---|---|
| admitting, resuming, resumed, rejected | create and resume before `active.set` | Start, StartStopped, StartFails, ResumeAccepted, ResumeRefused |
| setup | sandbox, context | Setup |
| session | the agent's stream | SessionEnds, SessionCancelled, SessionRetried |
| verifying | the verifier, and the decision to repair | Verified, Rejected, Repair |
| assuring, reviewing | assessQuality and the reviewer | AssessUnreviewed, BeginReview, ReviewEnds, AssuranceCancelled |
| deciding | the last check and the outcome | Decide, DecideFails, DecideCancelled |
| recording | evidence after the outcome | Record, RecordFails |
| caught, capturing, pausing, paused | the catch block | CatchCancelled, Catch, Capture, Pause, Announce, CaptureFails |
| cleanup | finally | Cleanup |

Any await of the body before the outcome may reject (`BodyFails`). `CancelBegin` and `CancelEnd`
are the two halves of cancel, around its wait for the verifier; `Crash`, `ReconcileCapsule`,
`ReconcileRun` and `ReconcileNothing` the restart. What the agent produces, what verification and
review answer and whether the budget allows a repair are left open.

**RunRecord** is the abstract specification: what a reader of the run store may rely on, with two
variables, the record and the retries spent. It knows nothing of executions, the active map,
capsules, cancellers or crashes. Its eight actions say that a run completes in one step, out of
RUNNING and with a trust state assurance gave it; that it is delivered in that step or never; that
it loses all it was granted when it is paused or withdrawn; that a completed run is not cancelled;
and that it is retried within one allowance. **RunRefinement** states with the mapping
`record <- store`, `spent <- retries` that RunLifecycle implements it. The run RunSequential checks
it for resumes of an idle run; with eager resumes two executions each have the whole allowance and
the refinement fails.

### The services

| Module | Models | State and its grain |
|---|---|---|
| ModeEnforcement | requestModeChange, acknowledgement, safe restart, boundaries (RS 2100-2630) | desired, effective and pending policy; every request cut at its two awaits; live, restarting and inert agents |
| MissionTree | `mission-tree.ts` and the routes that bind and promote | nodes in map order; operations without rollback, gates that may throw |
| DeliveryLedger | the tail of execute, delivery, collectCiEvidence, feedback, the store's ledgers | handoff per attempt, observations by arrival, one request in flight |
| NativeLogin | `native-agent-auth.ts` | attempts with their timer and CLI process; each handler one step |
| Connections | `provider-connections.ts` | vault, references, calls that wait for a provider |
| Adequacy, TrustFold | `capability-adequacy.ts`; risk, plan, quality, obligations, review, trust | inputs of one candidate, changed one at a time; the folds are operators |
| ScopeDiscovery | `concern-discovery.ts` | a patch that grows line by line, its conclusion |
| LocalCode | `local-code-semantics.ts` | every short text; splitter, call matcher, lexer, descent |
| PatchText | `diff-parse.ts`, the preview and posture of `security.ts` | a patch as Git writes it, line by line, with the true owner of each |
| FlowEvidence | `concern-evidence.ts`, `semantic-sensitivity.ts` | statements added to the files of a patch, against the flow of values |
| CandidateGate | capture, copy, verify, fence, retry, repair, measure, review (RS 1445-1830, 2850-3090) | the worktree file by file, with an outside writer |
| SessionBudget | `budget.ts` and the three places that ask | costs, sessions, retries, restarts, resumes |
| ProcessControl | `runProcess` | child, descendants, three timers, the promise; POSIX and Windows |
| Postures | `performance.ts`, `resilience.ts` and their verifiers | changed lines, scenarios run, samples |
| LineDiff | the literal diff of `local-worktree.ts` | two texts, the table row by row, the walk line by line |
| CapabilityRun | registry, execution, binding, fold | concurrent calls, an upgrade and a write in between |
| ScannerRun | OpenGrep and OSV adapters | validations before, at and after the launch; the document |
| ScipQuery | the SCIP adapter | open, read, parse, select by heap, revalidate; varints byte by byte |
| RepositoryKnowledge | the index of a run and the shared brain | worktrees, snapshots, claims with their status |
| ContextPaging | expansion, eviction, rebase and page sources | working set and its copies while a source is awaited |
| StrategyLearning | observations, feedback, assessment, canary | both stores; selectors cut at their awaits |
| PricedGateway | bounded JSON walks, price index, estimate, gateway, aggregate | sources as graphs, calls with retries, the ledger |
| RuntimeSignals | `runtime-signal-collector.ts` | collected files, modules and edges, the activity window |
| AgentStream | four command line adapters and the session loop | queue, waiter, child; cancels and restarts |
| ImportCycles | the component search of `health.ts` | every small import graph, the search node by node |

The first ones are state machines with several actors. LocalCode, PatchText, ScopeDiscovery,
FlowEvidence, LineDiff, ImportCycles and the folds of TrustFold and Postures are pure code: their
state is the input, a step extends it, and the property compares the translated algorithm with a
second definition that does not share its method (derivations for the recursive descent, the flow
of values for the lexical tracer, mutual reachability for Tarjan's search, subsequences for the
diff, the unbounded index for the bounded query).

`MCServices` extends all of them. Their variables are disjoint and no action of one reads another,
so a product would only multiply; `part` says which one moves and the others rest in an initial
state. `RestView` identifies a state by the part and its own variables: two reachable states of one
part can differ elsewhere only in the initial choice of a resting part, on which neither its steps
nor its properties depend.

### How the modules meet

The admission steps of `EmergencyStop` are `Start` and `StartStopped` of `RunLifecycle`, which
leaves open whether the stop won; `CancelNext` of the sweep is `CancelBegin` followed by
`CancelEnd`. `SessionRetried` and `BodyFails` of `RunLifecycle` are what a caller of
`CircuitBreaker` does after `FailOnProvider`, `FailElsewhere` or `CancelledThrow`. The session of
`RunLifecycle` is the loop of `AgentStream` under the policy of `ModeEnforcement` and the
authorizations of `SessionBudget`; its verifying and assuring points are `CandidateGate`, whose
measurements are `Postures`, and whose folds are `CapabilityRun`, `ScopeDiscovery`, `FlowEvidence`
and `TrustFold`. `Deliverable` is where `DeliveryLedger` begins. Every command of the others is a
call of `ProcessControl`. `Cancellable` is the fact about the active map on which the sweep of
`EmergencyStop` relies.

## 3. Runs

| Run (cfg) | Checks | Shows |
|---|---|---|
| BreakerAgents | ProbeOnlyHalfOpen | two agent attempts and two reviews at once, ending in any order, never leave the slot taken outside HALF_OPEN |
| BreakerReviews | ProbeHasOwner, AttemptAgain | three reviewers alone: a taken slot has an owner, and a caller that comes back finds the circuit willing |
| StopControl | StopHolds, StopDurable | with a store that answers in order, and a crash anywhere |
| StopFaults | StopHolds, StopReachesEveryRun | without a crash, reads and writes may fail and writes overtake each other |
| RunSequential | NeverResurrected, RecoveryBounded, NoOrphan, ExecutionEnds, ImplementsRunRecord | resumes that wait for the run to be idle; failing events, cancel and crash anywhere |
| RunConcurrent | AuthorityMatchesState, PausedHasCapsule | the same without waiting: authority and capsule are right even then |
| Services | one property per service, below | every service from all its initial states |

Services checks, for each module, the conjunction of its parts, which the module states one by one.
What a part excepts has a name, given in brackets; section 5 says what the code does there:

| Property | Parts |
|---|---|
| ModeIsEnforced | between sessions nothing is pending and effective = desired; restarts are bounded |
| MissionGatesHold | done only with the verdict of the bound run; ready only with what it depends on |
| DeliveryIsSound | one head per handoff, one handoff per CI run, the newest observation decides, the answer is of the attempt asked about |
| LoginIsSound | an attempt ends once, only the active one is open and armed, a disconnect holds |
| ConnectionsAreSound | listed references resolve, an OAuth state is used once, health is of the endpoint shown |
| TrustIsEarned, BadNewsNeverPromotes | eligibility rests on evidence for this candidate, stale evidence decides nothing, the security line is honest; adverse input never promotes |
| ScopeIsSound | an accounted scope is accounted by the language's own rules, but for files that mislead the classifier of comments (`Misled`); gaps stay, unless the change is the rest of a statement cut short (`GoesOn`) |
| LocalReadingIsExact | splitter, call matcher, lexer and parser agree with the language; a direct call's list calls nothing, but for calls without a name before the parenthesis (`Unnamed`) |
| PatchReadingIsSound | until an added line reads like a header (`Impersonated`), lines go to their owner and a clean literal record is whole; the preview hides credentials and shows the rest, posture is monotone |
| FlowEvidenceIsSound | a PASS means no sensitive value leaves a file without code behind a closed comment (`Masked`); what reaches a sink through copies and expressions that begin with its name is flagged |
| GateIsSound | verified bytes are the candidate's, evidence is of the candidate, attempts are bounded |
| BudgetHolds | a HARD budget is overdrawn by a bounded number of sessions; costs never fall |
| ProcessEndsCleanly | no member of the group survives, a forced end is no success, the caller is never stranded |
| PosturesAreEarned | a pass answers every scenario that a readable line owes, a uniform regression never passes, sensitivity only rises |
| DiffIsExact | operations reproduce both texts and are shortest; the hunk, put where its header says, turns the old text into the new one and shows the new one's lines where they stand |
| CapabilityEvidenceIsSound | matched evidence is current, silence needs authority, concerns survive |
| ScanIsOfTheCandidate | targets and rules read are those validated; an OSV document accounts for all |
| ScipAnswerIsSound | no descriptor leaks, COMPLETED is the whole answer of a complete index, an answer cut by the result limit alone keeps the first results, varints are exact |
| KnowledgeIsCurrent | current claims describe the tree, what was just written is current |
| WorkingSetIsSound | the books agree, a denied page is not resident, the request limit holds |
| LearningIsEarned | canary share bounded, a barred challenger is never chosen, promotion is earned by different runs |
| CostIsHonest | walks admit exactly the bounded sources, an estimate prices the use, totals launder no unknown |
| SignalsAreSound | stable means a quiet window; each loss of stability is counted |
| StreamIsSound | no lost wake-up but after a falsy line, a finished attempt saw everything, a stray child was told to stop unless its attempt threw |
| CyclesAreExact | the components found are the cycles of the import graph |

Five runs are expected to fail. Each states what a comment or document of the repository says, and
its counterexample is recorded as a finding:

| Run (cfg) | Property | What happens |
|---|---|---|
| BreakerCancelledProbe | ProbeHasOwner | a cancelled run's attempt ends without touching the breaker: the probe slot stays taken with nobody left to give it back |
| StopStaleRead | StopStands | an admission's read of the control row, answered late, replaces a stop made in the meantime, and that admission executes |
| RunCancelStays | CancelStays | the catch block looks at the stored state, then awaits the capsule, then writes PAUSED over a cancel that landed between |
| RunEagerResume | Cancellable | the old execution's clean-up deletes the active entry of the resumed one, which no cancel or stop then reaches |
| SemanticRisk | SemanticsNeverLower | one code signal returns MEDIUM before the count of sensitive paths, which alone gives HIGH, is looked at |

### Bounds, and why they are enough

* *Breaker*: thresholds 2 and 1 and cooldown 2 make all four states distinct, with a proper
  half-way point in the failures and in the cooldown. Two callers of each kind give a probe beside
  an ordinary attempt begun before the circuit opened.
* *Stop*: three requests are stop, resume, stop or a write overtaken by a later one; two
  admissions, one of which may hold a stale answer while the other hydrates; one crash.
* *Run*: two executions are the first and one resume, the smallest number in which they can
  overlap; one retry and one repair give each allowance an unspent and a spent state. Crashes are
  not bounded.
* *Services with actors*: two of whatever races (calls, selectors, providers, attempts, runs that
  share a brain) and one or two outside writes, which is a change and a change back; every limit
  (pages, requests, claims, nodes of a JSON source, results, retries) is small enough to be reached
  and crossed, and each threshold has a value on both sides.
* *Pure code*: all inputs up to the length at which each branch has met each other one: texts of
  five symbols, of six where calls nest; patches of seven lines over two files for the parser; for
  discovery three lines of one file or one of each of two, of seventeen different kinds, enough
  for a comment opened, closed and followed, and for a statement of two lines with a neighbour; three
  statements of a file beside one of a language nobody reads; texts of four lines for the diff, graphs
  of three or four modules. Widths are scaled (a varint
  of two payload bits and five bits of value for seven and 64), keeping their remainder.

Symmetry (callers, runs) is used only in runs without liveness. Deadlock checking is off for
BreakerAgents, SemanticRisk and Services: a service whose bounded inputs are used up has nothing
left to do. That nobody waits for ever inside a service is stated instead (NeverStranded,
NoLostWakeup).

### Fairness

* Breaker: time passes, and an attempt that began ends. The second is an assumption about the
  provider's process, since the service puts no time limit on an agent's session.
* Stop: the store answers what it was sent, and `emergencyStop` is code that runs to its end.
* Run: every await of `execute` settles. Verification has a timeout; store and git are assumed to
  answer; agent sessions are assumed to end, as above.

Nobody is obliged to call, cancel, resume or crash, and no attempt or repair is obliged to succeed.

The properties of Services are safety properties and assume no fairness. Those that speak of a step
(login, connections, delivery, scope, budget, postures, signals, adverse input) are action
properties: every step of the part ends in a state in which its invariants hold, and does not do
what the property forbids.

## 4. Proofs

Theorems hold for arbitrary constants: any number of callers, runs, requests, executions, files,
providers, nodes and attempts, any policy, any limit. Each safety theorem is `Spec => []P` for an
invariant `P` a run checks, or `Spec => P` for an action property. Except where it says otherwise, `P` is not inductive; the invariant that
is was checked by TLC on the run's instance before it was proved, and what it adds is the argument.

### Circuit breaker, emergency stop, run

* **CircuitBreaker** (in ControlProofs): `TypeCorrect`. `ProbeOnlyHalfOpenHolds`: the property is inductive
  together with the types; its first half (the clock exists exactly in an open circuit) is what a
  failure in HALF_OPEN needs to reset the clock and release the slot at once.
  `ReviewerProbesOwned`: without agent callers a taken slot always has an owner. The hypothesis is
  the exact line between the passing and the failing run.
* **EmergencyStopProofs**: `TypeCorrect`, and three theorems that differ in what they ask of the
  store and of the process.
  * `StopHoldsWhileAlive`: with no crash the stop holds whatever the store does. `StopInv` adds why:
    the flag stands in memory once the operator has decided (`FlagStands`), so no `Start` succeeds
    (`StartRefused`), and while the sweep runs all that still executes is on its list
    (`SweepCovers`).
  * `StopDurableHolds`, for a store that loses and reorders no write (`Ordered`): requests are
    numbered as they are made (`WritesInOrder`), the stop being persisted was the last one sent
    (`StopIsLast`), so from the sweep on it is the row and nothing is on its way to replace it
    (`StopLanded`). Section 5 has the counterexample without the hypothesis.
  * `StopHoldsAcrossCrashes`, for a store without faults: `CrashInv` replaces the flag in memory by
    one that a restarted process knows as soon as it has read the row (`FlagReturns`), and says that
    until then no admission is past its own read (`Unread`).
* **RunLifecycleProofs**: `TypeCorrect`, `InvariantHolds`, and from it `AuthorityHolds` and
  `CapsuleHolds`, with eager resumes, failing events and crashes included. The durable record is
  always a copy of some live object or reconciliation's own, so the invariant has to say what a live
  object may hold at each program point: `Fit(pc, run, result)` says that a working or admitted
  object is neither completed nor bound to a handoff, that one past assurance has its trust state,
  and that the catch block's has none left. `CapsuleFirst` says that a run about to be paused
  already has its capsule. Cancel writes to the live object of an execution at any point, which is
  why `Fit` must allow a cancelled object everywhere. `NoOrphanHolds` has an invariant of its own: a
  record in flight is `Attended` by an execution that still owes it an outcome (`Unsettled`), and an
  execution stops owing one only in a step that records it or finds it recorded (`SettledStep`).
* **RunLifecycleProofs**, second half, with the hypothesis `~EagerResume` (resume is called once the earlier
  execution has cleaned up; the run RunEagerResume shows what fails otherwise): `NeverResurrectedHolds`,
  `RecoveryHolds` and `Refinement`, that RunLifecycle implements RunRecord. `IdleInv` says that at
  most one execution is under way and the active entry is its own (`OneAtATime`), that none is before
  reconciliation is through (`DownIsQuiet`), that the allowance an execution or the next resume works
  with counts every retry (`Carried`), and, per program point, what the record says of the live object
  (`Recorded`). The refinement is proved action by action: each step of RunLifecycle is a named
  action of RunRecord or leaves record and retries alone.

### Agents and processes: AgentProofs

* `LoginHolds`: an attempt is open exactly when it is the provider's active one, and only open ones
  have a timer; every handler looks at one of these before it acts.
* `ProcessHolds`: `ProcInv` follows what is left of a process group once its exit was seen or its
  tree killed, and lists, for a pending promise, what will still end it: the timeout, the exit's
  timer, or the kill that follows a termination.
* `StreamHolds`: what the adapter was told is what the loop took followed by what is queued
  (`told.output = told.taken \o stream.queue`); a child that failed left an error among it, and a
  loop that is still reading has met none (`ErrorFree`). A generator that waits beside a queue that
  is not empty, or has ended, has just passed over a falsy line; an attempt may throw at any event.
* `WorkingSetHolds`: the books of the working set agree with its pages and stay within both limits
  (`WorkingSound`), each call in flight holds the copy it was given (`ExpansionSound`), and while no
  two operations overlapped that copy is the working set itself (`Undisturbed`), so what is written
  back loses nothing.

### Missions, delivery and learning: MissionProofs

* `MissionHolds`: `TreeSound` says that map and order name the same nodes and that what each node
  claims is earned by the run bound to it, also after an operation that threw half-way; `ReadySound`
  says it of the nodes that may start, once a refresh has run.
* `DeliveryHolds`: `LedgerSound` ties each observation to the head of its handoff and to the external
  run bound to it, `CallSound` ties a request in flight to the handoff it found. That a newest
  observation exists is the least element of a set of numbers (`LeastExists`, from the library's
  well-foundedness), which stands for the induction.
* `Learning`: a run's observation is stored once (`ObservedOnce`), canary ordinals are handed out in
  order and at most every period-th is a canary (`SlotsBounded`), and a failure stored before a
  selection began is in the list it read or still there when it reads the feedback
  (`SelectionSound`).

### What an operator controls: ControlProofs

* `ModeHolds`: while no request met another or a session's edge (`ModeQuiet`), the request under way
  or the pending policy is what will make effective and desired the same; the overlap set aside is an
  observation of section 5.
* `ConnectionsHold`: no two references share a secret (`ReferencesApart`), and the token a refresh in
  flight will remove is no other connection's (`RefreshesApart`).
* `BudgetIsHeld`: the bound on the cost at each step of a session is the reserve, less one, plus what
  the session now open may still overdraw (`Overdraft`), plus one session for each start that did not
  ask. `SessionArithmetic` has the non-linear part.
* `SignalHolds`: the window remembers the activity that ended the quiet for as long as the quiet is
  shorter than the window (`WindowKnows`), and the last snapshot is that of the collected state
  (`SignalFresh`).

### Evidence: EvidenceProofs

* `KnowledgeHolds`: a snapshot records of a file that was looked at what the worktree holds, unless it
  cannot be read (`SnapshotsRead`); claims are active or stale, never in conflict; and what was just
  written was made from the writer's snapshot (`PersistedFrom`).
* `CapabilityHolds`: per call, what its evidence was bound to and what of it may since have changed
  (`CallIsSound`).
* `GateHolds`: `AuthorityEarned` (authority means the tested bytes are the candidate's),
  `AttemptsCounted`, and `CaptureSees`: a write that was not changed back is visible to the next
  capture, because versions of a file only grow.
* `TrustHolds`: the trust state is a fold over its inputs, so the invariant is only their types; the
  work is in lemmas about the folds (`WorstDecides`, `CoverageFans`, `NothingOpen`, `Planned`): one
  unresolved material obligation is enough, and so is one weak line of coverage.
* `BadNewsHolds`, the action property `BadNewsNeverPromotes`. `Eligible` says what merge eligibility
  comes to, one line per input that can withhold it, and `EligibleMeans` and `EligibleIs` show that it
  is neither more nor less; on it every step the property calls bad news is monotone (`Worse`): what
  it asks for only grows (`MoreIsAsked`), and evidence adequate for more classes and a stricter
  demand was adequate before (`AdequateShrinks`).
* `ScanHolds`: the validations before, at and after the launch cover the same list
  (`TargetsListed`), change times only grow from one to the next (`StampsOrdered`), and rules that
  were swapped show it (`RulesShow`); `AcceptedAccounts` is about the OSV document alone.
* `PosturesHold`, for diffs with binary parts among them: `PostureInv` only says how many samples there are at each step; the work is that a
  median of samples which all got worse got worse, in whatever order they were sorted, and that more
  changed lines can only raise a sensitivity.

### Costs: PricingProofs

* `CostsHold`: `PricedInv` says of every entry of the ledger that it is the price of the use it
  records, from an entry of the index it was asked of (`CallSound`). `LoadSound` is about the two
  bounded walks over a parsed source: the stack of the one and the recursion of the other visit the
  levels of the same unfolded graph, so both admit exactly what is within depth and node limits and
  contains no value inside itself. A total is folded over any parts of a run; the lemmas show that it
  depends on the records alone.

### What is read out of a change: DiscoveryProofs

* `FlowHolds`: as long as the tracer has recorded no reason to doubt itself and nothing was skipped but
  comments, every name that holds a sensitive value in the flow of values is among the names it
  enumerates; and a value read without echo that copies and expressions beginning with its name carry is
  among the names the three rounds of rebinding find. Both are inductions over the statements, carried by a
  predicate on the walk so far; the invariant of the specification is only the types.
* `ScopeHolds`: the conclusion shown is that of the patch (`ScopeInv`); a scope is accounted only by
  files whose units are complete, every line that is not proven irrelevant is in a statement, and where
  nothing misleads the classifier its state is that of the language wherever it claims to know one. One
  line more of a patch leaves every gap it had, because the statements before it, their coverage and their
  attributions only grow unless it goes on with the last one (`NewStatement`).
* `PatchHolds`: `Grammar` says which sequences of lines Git writes and whose each line is; `Reads` says
  that after any prefix in which no added line reads like a header the parser's entries are those of the sections so far, in order, each with the
  counts and marks of its own lines. What the preview hides, the literal record and the posture follow
  from the entries; that the posture never improves is an invariant of its own, since it compares with
  the patch before the last line.
* `DiffHolds`: `DiffInv` follows the five phases (`Writing`, `Filling`, `Walking`, `WalkDone`, or
  `Replaced` where the table would be too large). While the table is filled, each row obeys the
  recurrence (`TableOf`); during the walk the operations are the texts up to where it stands, and what
  it kept plus the cell it stands on is the first cell (`WalkedAt`). A cell bounds every common
  subsequence of what is left (`TableBounds`, by induction over what is left of both texts), and cutting
  equal ends loses none of the longest one (`CommonMiddle`), so nothing longer exists. The hunk is the
  middle of three pieces of which the outer two are the same in both texts (`HunkParts`).
* `ScipHolds`: `ScipInv` follows a query from the open file to its answer, for any index in any order,
  complete or not by its manifest, any bounds and any edits of the files. While it parses, what was read was kept unless a bound was
  met (`Parsing`); then the anchor and what is wanted are those of the whole index (`AnchorIs`,
  `WantsAre`). The collector's heap holds each rank once and what is offered so far or its first
  `MaxResults` (`Collected`), and is ordered but for the element that rises or sinks (`RisingAt`,
  `SinkingAt`, with the grandparents' order that makes an exchange safe); its root is the largest
  (`RootIsLargest`), which is why the one dropped is the last. A varint's value is the number of its
  bytes and below the power of its shift (`WireInv`), and the shift meets `Width - 1` exactly
  (`ShiftSteps`).

### Recursive functions

What a recursive function computes for every input takes induction, and the library's induction
theorems are out of the provers' reach. Two lemmas of DiscoveryProofs and PricingProofs stand for them:
`UpTo`, induction for a *set* of numbers (from the least counterexample, which needs only
well-foundedness), and `RecursionStays`, that a recursive function over `0..n` follows its equation and
stays in its set. FlowEvidence, ScopeDiscovery, PatchText, LineDiff, ScipQuery and PricedGateway state their
loops as such functions.

### Assumptions

Only those named in the modules, which TLC evaluates in the runs of those modules: limits and windows
are natural numbers, at least 1 where the code's configuration demands it (`PolicyAssumption`,
`BoundsAssumption`, `BudgetAssumption`, `GateAssumption`, `ModeAssumption`, `ConnAssumption`,
`KnowAssumption`, `DiffAssumption`, `LearnAssumption`, whose canary period is positive, and
`ContextAssumption`, by which the text that guided and solo requests ask for fits its limit);
placeholders differ from the values they stand beside (`LoginAssumption`, `MissionAssumption`,
`DeliveryAssumption`, `PatchAssumption`); repository, import links, names and target lists are finite
(`SignalAssumption`, `ScanAssumption`, `FlowAssumption`); and inputs have the values their producers
can make (`FaultsAssumption`, `StreamAssumption`, `CapAssumption`; `PostureAssumption`: a line is
added or removed, and a reading is an integer, counted in halves so that a median is one too;
`PricedAssumption`: a parsed source is a graph whose edges lead to its own nodes, and a sound entry
has a name; `ScipAssumption`: documents, occurrences, symbols and queries have the fields parsing
gives them, no line is past `LineSpan`, so that a rank names one location, and the last of a varint's
bytes has one bit left, as with 7 of 64; `TrustAssumption`, by which a PASS states the absence of a concern and an adverse record
has a producer entitled to it, as `concern-evidence.ts` and the binder enforce).

`ScopeAssumption` sets one corner aside: a line that reads the environment declares no plain number.
`const n: typeof process.env = 5` does both; it would count as absence and still bind its name, and
with it a gap can close as the patch grows.

### What the proofs found

`ScanHolds` failed first because the model accepted an OSV package whose vulnerabilities belong to no
group; the adapter refuses it (`osv-scanner-adapter.ts:697`), and ScannerRun now does too. The proof of
`BadNewsHolds` showed that TrustFold counted the languages of concerns raised by providers
among those a change touches, while the code asks the discovery of the diff
(`assurance-question-evidence.ts:46`, `concern-discovery.ts:1083`). Both were errors of the model,
not of the program. The proof of `DiffHolds` needed the hunk's numbers on both sides, of which the
property had only used the old one; it now states both. Where a theorem needs a hypothesis (`AgentCallers = {}`, `Ordered`,
`Faults = {}`, `~EagerResume`), a failing run or an observation of section 5 shows a behaviour
without it.

### Only model-checked

* Liveness: `AttemptAgain`, `StopReachesEveryRun`, `ExecutionEnds`. They need fairness and ENABLED.
* Recursive operators: `LocalReadingIsExact` (a recursive descent), `CyclesAreExact` (a depth-first
  search). No theorem can be stated about a module that has one.

## 5. Observations

What the models showed of the code and no run records as a finding: no comment or document says
otherwise, or the case is set aside in a property by the name given.

*Breaker, stop, run.*

* `releaseProbe` and `recordOutcome` clear the slot whoever took it, so an attempt begun before the
  circuit opened frees the slot of a probe that still runs, and another probe may begin, though
  `beginAttempt` speaks of "the single bounded probe slot" (`domain/circuit-breaker.ts:78`, 93).
* StopControl with `Faults = {"read fails"}` violates `StopHolds`: the new process keeps its default
  and admits (RS 4014), though "an unreadable control row is not evidence that no stop exists"
  (RS 4005). With `Faults = {"reorders"}` it violates `StopDurable`: `resumeNewRuns` does not wait
  for its write (RS 1237), which may land after that of a later stop.
* RunConcurrent with `MaxExecutions = 3` and `RecoveryBounded`: two resumes read the same capsule
  before either records RUNNING (RS 969, 1038), and each has the whole remaining allowance.
* A resume that has recorded RUNNING and cannot append its event rejects before `active.set`: until
  a restart nobody owns the run. `NoOrphan` sets exactly such a start aside ("rejected").
* A cancelled record still receives the verification and trust writes of the execution under way
  (RS 3107); it keeps a trust label, never a handoff. A cancel may also overwrite FAILED.
* Attempt numbers begin at 1 again on a resume, so a tie between candidates of two executions
  prefers the older one, though `recovery.ts` speaks of the "later attempt".

*Mode enforcement.*

* A change enforced at a session boundary leaves an older pending policy in place, and the next
  boundary applies it although its decision was announced as superseded (RS 2524).
* The plan is made before the event is awaited and used after it (RS 2492-2512). Two requests that
  overlap there can end with desired # effective and nothing pending (history variable `overlap`).
* A pause drops the pending policy, a resume keeps desired # effective (RS 3923).

*Verification, budget, processes.*

* The verifier's cancelled set is never cleared (`verifier.ts:284`). The unrepairable kinds are
  looked at only after the one environment retry (RS 1686). "Worse than before" compares with the
  previous verification of the whole run, also one of an earlier execution.
* Bytes changed and changed back between two captures are invisible to performance and review
  evidence (`reverted`), to capability results, and so are rules swapped and swapped back during an
  OpenGrep scan (`swapped`); swapped targets are caught by their change time.
* A policy restart starts a session without asking the budget, and a reviewer's cost is booked as
  execution.
* A timer that fires after the child left with 0 and before its pipes closed reports a timeout,
  though the comment at `process-utils.ts:8` says otherwise. A child outside a group that answers
  SIGTERM with exit 0 makes a timed out resilience scenario count as passed. On Windows a failed
  `taskkill` leaves the promise pending. `docker compose down` runs under the aborted signal.
* The literal diff renders a hunk without a change for texts that differ only in the last newline;
  its baselines are in memory, so collectDiff throws after a restart. Its "Binary files differ" form
  is not the one the resilience scan looks for.

*Agents.*

* `RunService.cancel` sets a flag that is read at the next event, so a silent agent goes on, though
  RELIABILITY.md:29 says that a cancel "terminates an active agent session".
* An error event throws without cancelling the session, so its child may go on in the worktree while
  a retry starts another; a safe restart does not wait for the close either (comment at RS 2103).
  Abandoned sessions stay in the adapter's map. NativeCliAdapter listens to no "error" of its child.
  Claude's failed `result` becomes `complete`. Any await while an event is handled may throw the same
  way (`left = "failed"` in `StrayWasTold`).
* A line that parses to `null`, `0`, `false` or `""` is pushed as it is; the generator shifts it, finds it
  falsy and waits, although more is queued or the session has ended (`native-cli-adapter.ts:145`).
  `NoLostWakeup` excepts the generator that has just passed over such a line; when the child has closed,
  nothing wakes it.

*Missions, delivery, connections, logins.*

* A dependency on a node that does not exist makes canRun throw, and with it every later refresh.
* A run whose handoff was stored and whose tail then failed can never store another one.
* A disconnect during a token refresh is undone when the refresh returns; configuring again leaves
  the old secret in the vault; disconnecting a custom endpoint keeps its `configured` entry.
* A login confirmed by polling leaves the CLI running with its timer cleared.

*Assurance.*

* The depth shortfall branch of deriveAssuranceObligations cannot be reached.
* Comments are skipped the same way in every language, and uses of a binding are taken in textual
  order. The scalar lexer reads `>>==` otherwise than the language does, but the parser then rejects it.
* A line with a fixed literal covers all of the statement it stands in (`concern-discovery.ts:943`),
  though "a relevant changed-local unit is complete only when the whole unit is concern-covered"
  (`maf-v1-completion.md:1461`): in `configure(`, `password = "x"`, `)` the call is covered by its middle
  line.
* What the rest of a statement says may close the gap its beginning was: `const x =` is one, and
  `const x =`, `1;` is a scalar (`GoesOn`).
* A value bound through a literal, a call or a second line (`m = "x" + value`) is not paired with the
  sink that names it (`semantic-sensitivity.ts:456`); it is no all-clear either.

The remaining ones are cases in which the code does not keep what it says of itself. Each is an
exception of a property of Services and a definition of its module; put in place of the properties of
`Services.cfg`, TLC violates each within the bounds of that run.

| Definition | What happens | What is said |
|---|---|---|
| `ProvenIsInert` (excepted: `Misled`) | a block comment that opens behind code goes unseen (`concern-discovery.ts:494`), and an added line that begins with `//`, closes it and goes on with code is dropped as a comment; a back-quote inside a string misleads the classifier the same way | "whose lexical context positively proves behavioral irrelevance" (`concern-discovery.ts:529`) |
| `ExcludedIsProse` | the changed text of an SVG is INERT when no markup character is in it, without the prose grammar (`concern-discovery.ts:264`) | a producer "needs a POSITIVE reason" (194); "matched the positive plain-prose grammar" (718) |
| `FullIsWhole` | the fixed literal above | as above |
| `SecondCallIsRefused` (excepted: `Unnamed`) | `a((b)(c))` and `a(b().c)` are one direct call: only a name before the parenthesis makes one, and an empty list before a dot disappears (`local-code-semantics.ts:146`, 154) | a "second call leaves residual expression scope and returns null" (191) |
| `ContentIsNoHeader` (excepted: `Impersonated`) | inside a hunk an added line `++ b/x` or `++ /dev/null` is read as a header, and what follows goes to another file or to none (`diff-parse.ts:164`); a removed `-- a/x` is not counted and ends the preview's suppression (`security.ts:457`) | content "cannot impersonate a header" (`maf-v1-completion.md:626`; line 698 knows of the case) |
| `PassIsAlwaysLocal` (excepted: `Masked`) | a statement that begins like a comment is skipped with the code behind it, so `/* note */ send(password)` leaves a PASS (`concern-evidence.ts:132`) | "never PASS" (110), "the tuple is incomplete" (114) |
| `UninspectableFailsClosed` | a binary patch on an evidence path is looked at only where no scenario is relevant; beside another file whose scenarios passed the posture is PASS (`resilience.ts:316`) | it "fails closed to `NOT_CHECKED`" (`RELIABILITY.md:84`) |

*Context, knowledge, learning, pricing, signals, health.*

* A page whose new content no longer fits stays resident as CURRENT; content is read after its
  digest was checked; an expansion that ends late overwrites a rebase or another expansion
  (`overlapped`).
* A file that was removed or has grown past the limit keeps its old digest. A resumed run records
  the edited bytes of its worktree as claims about the base revision, and its reconciliation marks
  the truthful claims of other runs stale until they are written again. markStale has no caller, and
  the harness's own producer never writes two claims that conflict.
* listStrategyObservations returns the last 500 of the project, so an old assurance failure leaves
  the window and the challenger may be promoted again. The second observation of a resumed run is
  always rejected. A canary selection uses what was read before its awaits.
* The second alias lookup of resolveEntries adds nothing; the cycle check of the bounded walk is
  implied by its depth limit; a throw while a billed answer is priced makes the gateway send the
  request again; failed attempts cost nothing on the record; an empty aggregate is EXACT 0.
* An import resolved later between two observed modules is never a new edge; events that are no
  activity widen a scope without ending its stability.
* The structural metrics of health are always UNKNOWN, so what depends on them is unreachable.

## 6. Not modelled

* In `RunLifecycle`, store calls take effect when they are made: two `updateRun` calls of one run
  that overtake each other in the pool (`postgres/store.ts:86`) are left out, as are store failures
  inside the catch block (RS 2075), sessions that change provider, the awaits inside the cancel of
  a stopped admission, and reconciliation of a run whose task is missing. Policy restarts are in
  `ModeEnforcement` and `SessionBudget`, not in `RunLifecycle`.
* `EmergencyStop` has one `emergencyStop` call at a time.
* The services are not composed with one another: what one gives the next is left open in both, or
  enumerated as an input.
* The HTTP API and the control centre (validation and projection; the routes that change state are
  in the modules of what they change), the web interface, the evaluation and benchmark harness,
  telemetry: no state of their own that a property could be about.
* Prompts, the words of patterns over source text, floating-point scores, encryption, HTTP, git and
  Postgres themselves are external.

## 7. Plan

The modelling plan is done, and of the 39 different properties the passing runs check, 34 are theorems. What is
left is in section 4 under "Only model-checked": three liveness properties, and two readers written
with recursive operators, which would have to be restated as functions over positions of a text and
over the nodes of a graph.
