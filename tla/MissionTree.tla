----------------------------- MODULE MissionTree -----------------------------
(***************************************************************************)
(* A mission's nodes (src/domain/mission-tree.ts) as the API drives them   *)
(* (src/server/app.ts): create, split, merge, collapse, the creation of a  *)
(* run bound to a node, and promotion of the run's result.                 *)
(*                                                                         *)
(* Every node has at most one dependency.  A proposal may name a node that *)
(* does not exist: nothing checks it until the gates are refreshed, which  *)
(* then throws.  The operations have no rollback.                          *)
(***************************************************************************)
EXTENDS Naturals, Sequences, SequencesExt

CONSTANTS MissionNodes, MissionRoot, MissionRuns, NoId,
          MissionDeps,  \* the ids a proposal may name as its dependency
          MaxReshapes   \* bound: splits, merges and collapses

ASSUME MissionAssumption ==
  /\ MissionRoot \in MissionNodes /\ MissionDeps \subseteq MissionNodes
  /\ NoId \notin MissionNodes /\ NoId \notin MissionRuns

VARIABLES
  node,       \* the nodes by id
  order,      \* their ids as the Map iterates them
  mrun,       \* the runs asked for with a mission binding: the node they name
  unrefreshed, \* history: the operation that came last left the gates alone
  reshaped    \* how often the tree was split, merged or collapsed

missionVars == <<node, order, mrun, unrefreshed, reshaped>>

NodeStates == {"BLOCKED", "READY", "DONE", "CANCELLED"}
NodeRecords ==
  [parent : MissionNodes \union {NoId}, dep : MissionNodes \union {NoId},
   state : NodeStates, verified : BOOLEAN,
   bound : MissionRuns \union {NoId}, trust : MissionRuns \union {NoId}]

\* missionNodeFromProposal
Proposed(parent, dep) ==
  [parent |-> parent, dep |-> dep, state |-> IF dep = NoId THEN "READY" ELSE "BLOCKED",
   verified |-> FALSE, bound |-> NoId, trust |-> NoId]

MissionInit ==
  /\ \E dep \in MissionDeps \union {NoId} :
       node = [n \in {MissionRoot} |-> Proposed(NoId, dep)]
  /\ order = <<MissionRoot>>
  /\ mrun = [r \in MissionRuns |-> [phase |-> "none", node |-> NoId]]
  /\ unrefreshed = FALSE /\ reshaped = 0

\* handoffBlockedReason, for a node whose verdict came through promotion.
HandedOn(tree, n) ==
  /\ tree[n].verified
  /\ tree[n].trust # NoId
  /\ tree[n].bound # NoId => tree[n].trust = tree[n].bound

CanRun(tree, n) == tree[n].dep = NoId \/ HandedOn(tree, tree[n].dep)

Gated(tree, n) == tree[n].state \in {"BLOCKED", "READY"}
Dangling(tree, n) == Gated(tree, n) /\ tree[n].dep \notin DOMAIN tree \union {NoId}

\* Mutant: the gates are left as they are.
Untouched(tree, ids) == tree

\* refreshGates: in the Map's order, up to the first node whose dependency is
\* unknown, where it throws.
RefreshGates(tree, ids) ==
  LET reached == {i \in DOMAIN ids : \A j \in 1..i : ~Dangling(tree, ids[j])}
  IN  [n \in DOMAIN tree |->
         IF Gated(tree, n) /\ \E i \in reached : ids[i] = n
         THEN [tree[n] EXCEPT !.state = IF CanRun(tree, n) THEN "READY" ELSE "BLOCKED"]
         ELSE tree[n]]

Throws(tree) == \E n \in DOMAIN tree : Dangling(tree, n)

PutNode(tree, n, value) == [x \in DOMAIN tree \union {n} |-> IF x = n THEN value ELSE tree[x]]

-----------------------------------------------------------------------------
Settle(tree, ids) ==
  /\ order' = ids
  /\ node' = RefreshGates(tree, ids)
  /\ unrefreshed' = Throws(tree)

Reshape == reshaped < MaxReshapes /\ reshaped' = reshaped + 1

\* Two children, added one by one until one of them is a duplicate.
SplitMission(p, x, y, dx, dy) ==
  /\ p \in DOMAIN node /\ x \notin DOMAIN node
  /\ LET first == PutNode(node, x, Proposed(p, dx))
     IN  IF y \in DOMAIN first
         THEN /\ node' = first
              /\ order' = Append(order, x)
              /\ unrefreshed' = TRUE
         ELSE Settle(PutNode(first, y, Proposed(p, dy)), order \o <<x, y>>)
  /\ UNCHANGED mrun
  /\ Reshape

\* The merged node replaces one of the same id, if there is one.  Its sources are listed by
\* id, the same one twice if need be, so one that may be handed on is enough.
MergeMission(m, dep) ==
  /\ {n \in DOMAIN node : HandedOn(node, n)} # {}
  /\ Settle(PutNode(node, m, Proposed(NoId, dep)),
            IF m \in DOMAIN node THEN order ELSE Append(order, m))
  /\ UNCHANGED mrun
  /\ Reshape

CollapseMission(p) ==
  /\ p \in DOMAIN node
  /\ node' = [n \in DOMAIN node |->
                IF n = p THEN [node[n] EXCEPT !.state = "READY"]
                ELSE IF node[n].parent = p THEN [node[n] EXCEPT !.state = "CANCELLED"]
                ELSE node[n]]
  /\ unrefreshed' = TRUE
  /\ UNCHANGED <<order, mrun>>
  /\ Reshape

-----------------------------------------------------------------------------
(* A run for a node: POST /runs, and later POST /missions/:id/promote. *)

\* The node is looked up, and then runs.create is awaited.  Runs are numbered as they are asked for.
AskForRun(r, n) ==
  /\ mrun[r].phase = "none" /\ n \in DOMAIN node
  /\ \A q \in MissionRuns : q < r => mrun[q].phase # "none"
  /\ mrun' = [mrun EXCEPT ![r] = [phase |-> "creating", node |-> n]]
  /\ UNCHANGED <<node, order, unrefreshed, reshaped>>

\* bindExecution, which throws for a node that is bound: the run exists all the same.
BindExecution(r) ==
  /\ mrun[r].phase = "creating"
  /\ mrun' = [mrun EXCEPT ![r].phase = "created"]
  /\ node' = IF node[mrun[r].node].bound = NoId
             THEN [node EXCEPT ![mrun[r].node].bound = r] ELSE node
  /\ UNCHANGED <<order, unrefreshed, reshaped>>

RunEarnsHandoff(r) ==
  /\ mrun[r].phase = "created"
  /\ mrun' = [mrun EXCEPT ![r].phase = "merge eligible"]
  /\ UNCHANGED <<node, order, unrefreshed, reshaped>>

\* Mutant: any merge-eligible run of the node will do.
PromoteAnyRun(r, n) ==
  /\ n \in DOMAIN node
  /\ mrun[r].phase = "merge eligible" /\ mrun[r].node = n
  /\ Settle([node EXCEPT ![n].verified = TRUE, ![n].trust = r, ![n].state = "DONE"], order)
  /\ UNCHANGED <<mrun, reshaped>>

\* setVerification and promote; when the gates throw, only the second is lost, and
\* it would change nothing.
PromoteMission(r, n) ==
  /\ n \in DOMAIN node
  /\ mrun[r].phase = "merge eligible" /\ mrun[r].node = n
  /\ node[n].bound = r
  /\ Settle([node EXCEPT ![n].verified = TRUE, ![n].trust = r, ![n].state = "DONE"], order)
  /\ UNCHANGED <<mrun, reshaped>>

MissionNext ==
  \/ \E m \in MissionNodes, d \in MissionDeps \union {NoId} :
       \/ MergeMission(m, d)
       \/ \E x, y \in MissionNodes :
            SplitMission(m, x, y, d, NoId) \/ (d # NoId /\ SplitMission(m, x, y, NoId, d))
  \/ \E p \in MissionNodes : CollapseMission(p)
  \/ \E r \in MissionRuns :
       \/ BindExecution(r) \/ RunEarnsHandoff(r)
       \/ \E n \in MissionNodes : AskForRun(r, n) \/ PromoteMission(r, n)

MissionSpec == MissionInit /\ [][MissionNext]_missionVars

-----------------------------------------------------------------------------
\* "Verified-only handoff": a node is done only with the verdict of the run that
\* was bound to it, through merges that replace it, collapses and lost bindings.
MissionDoneIsTrusted ==
  \A n \in DOMAIN node :
    node[n].state = "DONE" =>
      /\ node[n].verified
      /\ node[n].trust # NoId /\ node[n].trust = node[n].bound
      /\ mrun[node[n].bound].node = n

\* Whoever may start has what it depends on, once an operation has refreshed the
\* gates: collapse, a split that throws half-way and a dangling dependency do not.
MissionReadyIsSound ==
  ~unrefreshed => \A n \in DOMAIN node : node[n].state = "READY" => CanRun(node, n)

\* Both gates of the tree: nobody is done without a verdict, nobody starts too early.
MissionGatesHold == MissionDoneIsTrusted /\ MissionReadyIsSound
=============================================================================
