---------------------------- MODULE MissionProofs ----------------------------
(***************************************************************************)
(* Proofs about what a mission is built from, what leaves it and what is   *)
(* learnt from it: the tree of its nodes, for any nodes, runs and          *)
(* dependencies and any number of splits, merges and collapses; the        *)
(* delivery ledger of its runs, for any runs, CI runs and reports; and     *)
(* the strategy that may run next, for any runs, endings, feedback and     *)
(* selectors and any thresholds.                                           *)
(***************************************************************************)
EXTENDS MissionTree, DeliveryLedger, StrategyLearning, FiniteSetTheorems, WellFoundedInduction, TLAPS

-----------------------------------------------------------------------------
(* MissionTree. *)

RunPhases == {"none", "creating", "created", "merge eligible"}

\* What every node n, of value x, rests on: the run bound to it was asked for this
\* node, its verdict is that run's, and it is done only with a verdict.
NodeEarned(n, x, runs) ==
  /\ x.bound # NoId => runs[x.bound].node = n /\ runs[x.bound].phase # "none"
  /\ x.trust # NoId => x.trust = x.bound
  /\ x.state = "DONE" => x.verified /\ x.trust # NoId

\* The Map and its order name the same nodes, each of them earned.
TreeSound(tree, ids, runs) ==
  /\ DOMAIN tree \subseteq MissionNodes
  /\ tree \in [DOMAIN tree -> NodeRecords]
  /\ ids \in Seq(MissionNodes)
  /\ \A i \in 1..Len(ids) : ids[i] \in DOMAIN tree
  /\ \A n \in DOMAIN tree : \E i \in 1..Len(ids) : ids[i] = n
  /\ \A n \in DOMAIN tree : NodeEarned(n, tree[n], runs)

\* Whoever may start depends on nothing, or on a node of the tree that may be handed on.
ReadySound(tree) ==
  \A n \in DOMAIN tree : tree[n].state = "READY" =>
    tree[n].dep \in DOMAIN tree \union {NoId} /\ CanRun(tree, n)

MissionInv ==
  /\ TreeSound(node, order, mrun)
  /\ mrun \in [MissionRuns -> [phase : RunPhases, node : MissionNodes \union {NoId}]]
  /\ \A r \in MissionRuns : mrun[r].phase # "none" => mrun[r].node \in DOMAIN node
  /\ unrefreshed \in BOOLEAN
  /\ ~unrefreshed => ReadySound(node)

\* A proposal is a node of its own: nothing bound to it, nothing verified.
LEMMA ProposedSound ==
  ASSUME NEW parent \in MissionNodes \union {NoId}, NEW dep \in MissionDeps \union {NoId},
         NEW n, NEW runs
  PROVE  /\ Proposed(parent, dep) \in NodeRecords
         /\ NodeEarned(n, Proposed(parent, dep), runs)
         /\ Proposed(parent, dep).state = "READY" => Proposed(parent, dep).dep = NoId
<1> DEFINE x == Proposed(parent, dep)
<1>1. dep \in MissionNodes \union {NoId}  BY MissionAssumption
<1>2. /\ x.parent = parent /\ x.dep = dep /\ x.verified = FALSE /\ x.bound = NoId
      /\ x.trust = NoId /\ x.state = IF dep = NoId THEN "READY" ELSE "BLOCKED"
  BY DEF Proposed
<1>3. x \in NodeRecords  BY <1>1 DEF Proposed, NodeRecords, NodeStates
<1> HIDE DEF x
<1>4. NodeEarned(n, x, runs)  BY <1>2 DEF NodeEarned
<1> QED BY <1>2, <1>3, <1>4 DEF x

\* Putting a sound node into a sound tree, at the place the Map gives it.
LEMMA PutSound ==
  ASSUME NEW tree, NEW ids, NEW runs, TreeSound(tree, ids, runs),
         NEW n \in MissionNodes, NEW x \in NodeRecords, NodeEarned(n, x, runs),
         NEW ids2, ids2 = IF n \in DOMAIN tree THEN ids ELSE Append(ids, n)
  PROVE  /\ DOMAIN PutNode(tree, n, x) = DOMAIN tree \union {n}
         /\ TreeSound(PutNode(tree, n, x), ids2, runs)
<1> DEFINE t == PutNode(tree, n, x)
<1>1. DOMAIN t = DOMAIN tree \union {n} /\ t \in [DOMAIN t -> NodeRecords]
  BY DEF PutNode, TreeSound
<1>2. t[n] = x /\ \A m \in DOMAIN tree : m # n => t[m] = tree[m]
  BY DEF PutNode
<1>3. \A m \in DOMAIN t : NodeEarned(m, t[m], runs)
  BY <1>1, <1>2 DEF TreeSound
<1> HIDE DEF t
<1>4. /\ ids2 \in Seq(MissionNodes)
      /\ \A i \in 1..Len(ids2) : ids2[i] \in DOMAIN t
      /\ \A m \in DOMAIN t : \E i \in 1..Len(ids2) : ids2[i] = m
  <2>1. CASE n \in DOMAIN tree
    BY <1>1, <2>1 DEF TreeSound
  <2>2. CASE n \notin DOMAIN tree
    <3>1. /\ ids2 \in Seq(MissionNodes) /\ Len(ids2) = Len(ids) + 1 /\ Len(ids) \in Nat
          /\ \A i \in 1..Len(ids) : ids2[i] = ids[i]
          /\ ids2[Len(ids) + 1] = n
      BY <2>2 DEF TreeSound
    <3>2. ASSUME NEW i \in 1..Len(ids2) PROVE ids2[i] \in DOMAIN t
      <4>1. i \in 1..Len(ids) \/ i = Len(ids) + 1  BY <3>1
      <4> QED BY <1>1, <3>1, <4>1 DEF TreeSound
    <3>3. ASSUME NEW m \in DOMAIN t PROVE \E i \in 1..Len(ids2) : ids2[i] = m
      <4>1. CASE m = n
        <5>1. Len(ids) + 1 \in 1..Len(ids2)  BY <3>1
        <5> QED BY <3>1, <4>1, <5>1
      <4>2. CASE m # n
        <5>1. PICK i \in 1..Len(ids) : ids[i] = m
          BY <1>1, <4>2 DEF TreeSound
        <5>2. i \in 1..Len(ids2)  BY <3>1
        <5> QED BY <3>1, <5>1, <5>2
      <4> QED BY <4>1, <4>2
    <3> QED BY <3>1, <3>2, <3>3
  <2> QED BY <2>1, <2>2
<1>5. DOMAIN t \subseteq MissionNodes  BY <1>1 DEF TreeSound
<1>6. TreeSound(t, ids2, runs)
  BY <1>1, <1>3, <1>4, <1>5 DEF TreeSound
<1> QED BY <1>1, <1>6 DEF t

\* refreshGates keeps everything but the state of the gated nodes; when no
\* dependency is unknown it reaches all of them.
LEMMA RefreshSound ==
  ASSUME NEW tree, NEW ids, NEW runs, TreeSound(tree, ids, runs)
  PROVE  /\ DOMAIN RefreshGates(tree, ids) = DOMAIN tree
         /\ TreeSound(RefreshGates(tree, ids), ids, runs)
         /\ ~Throws(tree) => ReadySound(RefreshGates(tree, ids))
<1> DEFINE t == RefreshGates(tree, ids)
<1> DEFINE reached == {i \in DOMAIN ids : \A j \in 1..i : ~Dangling(tree, ids[j])}
<1> DEFINE fresh(n) == [tree[n] EXCEPT !.state = IF CanRun(tree, n) THEN "READY" ELSE "BLOCKED"]
<1>1. t = [n \in DOMAIN tree |->
             IF Gated(tree, n) /\ \E i \in reached : ids[i] = n THEN fresh(n) ELSE tree[n]]
  BY DEF RefreshGates
<1>2. ASSUME NEW n \in DOMAIN tree
      PROVE  /\ fresh(n) \in NodeRecords
             /\ fresh(n).dep = tree[n].dep /\ fresh(n).verified = tree[n].verified
             /\ fresh(n).bound = tree[n].bound /\ fresh(n).trust = tree[n].trust
             /\ fresh(n).state = IF CanRun(tree, n) THEN "READY" ELSE "BLOCKED"
  <2>1. tree[n] \in NodeRecords  BY DEF TreeSound
  <2> QED BY <2>1 DEF NodeRecords, NodeStates
<1> HIDE DEF fresh, reached, t
<1>3. DOMAIN t = DOMAIN tree  BY <1>1
<1>4. ASSUME NEW n \in DOMAIN tree
      PROVE  /\ t[n] \in NodeRecords
             /\ t[n].dep = tree[n].dep /\ t[n].verified = tree[n].verified
             /\ t[n].bound = tree[n].bound /\ t[n].trust = tree[n].trust
             /\ t[n].state = "DONE" => tree[n].state = "DONE"
             /\ NodeEarned(n, t[n], runs)
  <2>1. t[n] = fresh(n) \/ t[n] = tree[n]  BY <1>1
  <2>2. tree[n] \in NodeRecords /\ NodeEarned(n, tree[n], runs)  BY DEF TreeSound
  <2>3. /\ t[n] \in NodeRecords
        /\ t[n].dep = tree[n].dep /\ t[n].verified = tree[n].verified
        /\ t[n].bound = tree[n].bound /\ t[n].trust = tree[n].trust
        /\ t[n].state = "DONE" => tree[n].state = "DONE"
    BY <1>2, <2>1, <2>2
  <2>4. NodeEarned(n, t[n], runs)  BY <2>2, <2>3 DEF NodeEarned
  <2> QED BY <2>3, <2>4
<1>5. t \in [DOMAIN t -> NodeRecords]
  <2>1. \A n \in DOMAIN t : t[n] \in NodeRecords  BY <1>3, <1>4
  <2>2. t = [n \in DOMAIN t |-> t[n]]  BY <1>1
  <2> QED BY <2>1, <2>2
<1>6. TreeSound(t, ids, runs)
  BY <1>3, <1>4, <1>5 DEF TreeSound
<1>7. ASSUME ~Throws(tree) PROVE ReadySound(t)
  <2>1. \A n \in DOMAIN tree : ~Dangling(tree, n)  BY <1>7 DEF Throws
  <2>2. ASSUME NEW n \in DOMAIN tree, Gated(tree, n) PROVE t[n] = fresh(n)
    <3>1. PICK i \in 1..Len(ids) : ids[i] = n  BY DEF TreeSound
    <3>2. i \in reached
      <4>1. Len(ids) \in Nat /\ DOMAIN ids = 1..Len(ids)  BY DEF TreeSound
      <4>2. \A j \in 1..i : j \in 1..Len(ids)  BY <4>1
      <4>3. \A j \in 1..i : ~Dangling(tree, ids[j])  BY <2>1, <4>2 DEF TreeSound
      <4> QED BY <4>1, <4>3 DEF reached
    <3> QED BY <1>1, <2>2, <3>1, <3>2
  <2>3. ASSUME NEW n \in DOMAIN t, t[n].state = "READY"
        PROVE  t[n].dep \in DOMAIN t \union {NoId} /\ CanRun(t, n)
    <3>1. Gated(tree, n)
      <4>1. t[n] = tree[n] \/ Gated(tree, n)  BY <1>1, <1>3
      <4> QED BY <2>3, <4>1 DEF Gated
    <3>2. tree[n].dep \in DOMAIN tree \union {NoId}
      BY <1>3, <2>1, <3>1 DEF Dangling
    <3>3. CanRun(tree, n)  BY <1>2, <1>3, <2>2, <2>3, <3>1
    <3>4. CanRun(t, n)
      BY <1>3, <1>4, <3>2, <3>3 DEF CanRun, HandedOn
    <3> QED BY <1>3, <1>4, <3>2, <3>4
  <2> QED BY <2>3 DEF ReadySound
<1> QED BY <1>3, <1>6, <1>7 DEF t

\* So an operation that ends with the gates leaves the tree as the invariant says.
LEMMA SettleSound ==
  ASSUME MissionInv, NEW tree, NEW ids, TreeSound(tree, ids, mrun), Settle(tree, ids),
         DOMAIN node \subseteq DOMAIN tree, mrun' = mrun
  PROVE  MissionInv'
<1>1. node' = RefreshGates(tree, ids) /\ order' = ids /\ unrefreshed' = Throws(tree)
  BY DEF Settle
<1>2. TreeSound(node', order', mrun') /\ DOMAIN node' = DOMAIN tree
  BY <1>1, RefreshSound
<1>3. unrefreshed' \in BOOLEAN  BY <1>1 DEF Throws
<1>4. ~unrefreshed' => ReadySound(node')
  BY <1>1, RefreshSound
<1>5. \A r \in MissionRuns : mrun'[r].phase # "none" => mrun'[r].node \in DOMAIN node'
  BY <1>2 DEF MissionInv
<1> QED BY <1>2, <1>3, <1>4, <1>5 DEF MissionInv, TreeSound, NodeEarned, ReadySound, CanRun, HandedOn

\* Splits, merges, collapses, bindings and promotions, in any order, keep the invariant.
LEMMA MissionStep == ASSUME MissionInv, [MissionNext]_missionVars PROVE MissionInv'
<1>0. TreeSound(node, order, mrun) /\ DOMAIN node \subseteq MissionNodes
  BY DEF MissionInv, TreeSound
<1>1. ASSUME NEW m \in MissionNodes, NEW d \in MissionDeps \union {NoId}, MergeMission(m, d)
      PROVE  MissionInv'
  <2> DEFINE t == PutNode(node, m, Proposed(NoId, d))
  <2>1. Proposed(NoId, d) \in NodeRecords /\ NodeEarned(m, Proposed(NoId, d), mrun)
    BY ProposedSound
  <2>2. mrun' = mrun  BY <1>1 DEF MergeMission
  <2>3. CASE m \in DOMAIN node
    <3>1. Settle(t, order)  BY <1>1, <2>3 DEF MergeMission
    <3>2. DOMAIN t = DOMAIN node \union {m} /\ TreeSound(t, order, mrun)
      BY <1>0, <2>1, <2>3, PutSound
    <3> QED BY <2>2, <3>1, <3>2, SettleSound
  <2>4. CASE m \notin DOMAIN node
    <3>1. Settle(t, Append(order, m))  BY <1>1, <2>4 DEF MergeMission
    <3>2. DOMAIN t = DOMAIN node \union {m} /\ TreeSound(t, Append(order, m), mrun)
      BY <1>0, <2>1, <2>4, PutSound
    <3> QED BY <2>2, <3>1, <3>2, SettleSound
  <2> QED BY <2>3, <2>4
<1>2. ASSUME NEW p \in MissionNodes, NEW x \in MissionNodes, NEW y \in MissionNodes,
             NEW dx \in MissionDeps \union {NoId}, NEW dy \in MissionDeps \union {NoId},
             SplitMission(p, x, y, dx, dy)
      PROVE  MissionInv'
  <2> DEFINE first == PutNode(node, x, Proposed(p, dx))
             second == PutNode(first, y, Proposed(p, dy))
  <2>1. /\ Proposed(p, dx) \in NodeRecords /\ NodeEarned(x, Proposed(p, dx), mrun)
        /\ Proposed(p, dy) \in NodeRecords /\ NodeEarned(y, Proposed(p, dy), mrun)
    BY ProposedSound
  <2>2. x \notin DOMAIN node /\ mrun' = mrun  BY <1>2 DEF SplitMission
  <2>3. DOMAIN first = DOMAIN node \union {x} /\ TreeSound(first, Append(order, x), mrun)
    BY <1>0, <2>1, <2>2, PutSound
  <2>4. CASE y \in DOMAIN first
    <3>1. node' = first /\ order' = Append(order, x) /\ unrefreshed' = TRUE
      BY <1>2, <2>4 DEF SplitMission
    <3>2. \A r \in MissionRuns : mrun'[r].phase # "none" => mrun'[r].node \in DOMAIN node'
      BY <2>2, <2>3, <3>1 DEF MissionInv
    <3>3. TreeSound(node', order', mrun')  BY <2>2, <2>3, <3>1
    <3> QED BY <2>2, <3>1, <3>2, <3>3 DEF MissionInv, TreeSound, NodeEarned
  <2>5. CASE y \notin DOMAIN first
    <3>1. Settle(second, order \o <<x, y>>)  BY <1>2, <2>5 DEF SplitMission
    <3>2. Append(Append(order, x), y) = order \o <<x, y>>
      BY <1>0 DEF TreeSound
    <3> HIDE DEF first
    <3>3. DOMAIN second = DOMAIN first \union {y} /\ TreeSound(second, Append(Append(order, x), y), mrun)
      BY <2>1, <2>3, <2>5, PutSound
    <3> HIDE DEF second
    <3> QED BY <2>2, <2>3, <3>1, <3>2, <3>3, SettleSound
  <2> QED BY <2>4, <2>5
<1>3. ASSUME NEW p \in MissionNodes, CollapseMission(p) PROVE MissionInv'
  <2>1. /\ DOMAIN node' = DOMAIN node /\ order' = order /\ mrun' = mrun /\ unrefreshed' = TRUE
        /\ node' = [n \in DOMAIN node |->
                IF n = p THEN [node[n] EXCEPT !.state = "READY"]
                ELSE IF node[n].parent = p THEN [node[n] EXCEPT !.state = "CANCELLED"]
                ELSE node[n]]
    BY <1>3 DEF CollapseMission
  <2>2. ASSUME NEW n \in DOMAIN node
        PROVE  node'[n] \in NodeRecords /\ NodeEarned(n, node'[n], mrun)
    <3>1. node[n] \in NodeRecords /\ NodeEarned(n, node[n], mrun)  BY <1>0 DEF TreeSound
    <3>2. /\ node'[n] \in NodeRecords
          /\ node'[n].verified = node[n].verified /\ node'[n].bound = node[n].bound
          /\ node'[n].trust = node[n].trust
          /\ node'[n].state = "DONE" => node[n].state = "DONE"
      BY <2>1, <3>1 DEF NodeRecords, NodeStates
    <3> QED BY <3>1, <3>2 DEF NodeEarned
  <2>3. node' \in [DOMAIN node' -> NodeRecords]  BY <2>1, <2>2
  <2>4. TreeSound(node', order', mrun')  BY <1>0, <2>1, <2>2, <2>3 DEF TreeSound
  <2> QED BY <2>1, <2>4 DEF MissionInv, TreeSound, NodeEarned
<1>4. ASSUME NEW r \in MissionRuns, NEW n \in MissionNodes, AskForRun(r, n) PROVE MissionInv'
  <2>1. /\ mrun[r].phase = "none" /\ n \in DOMAIN node
        /\ mrun' = [mrun EXCEPT ![r] = [phase |-> "creating", node |-> n]]
        /\ UNCHANGED <<node, order, unrefreshed>>
    BY <1>4 DEF AskForRun
  <2>2. mrun' \in [MissionRuns -> [phase : RunPhases, node : MissionNodes \union {NoId}]]
    BY <2>1 DEF MissionInv, RunPhases
  <2>3. \A q \in MissionRuns : q # r => mrun'[q] = mrun[q]  BY <2>1 DEF MissionInv
  <2>4. mrun'[r].node = n  BY <2>1 DEF MissionInv
  <2>5. ASSUME NEW m \in DOMAIN node PROVE NodeEarned(m, node[m], mrun')
    <3>1. NodeEarned(m, node[m], mrun) /\ node[m] \in NodeRecords  BY <1>0 DEF TreeSound
    <3>2. node[m].bound # NoId => node[m].bound \in MissionRuns /\ node[m].bound # r
      BY <2>1, <3>1 DEF NodeEarned, NodeRecords
    <3> QED BY <2>3, <3>1, <3>2 DEF NodeEarned
  <2>6. \A q \in MissionRuns : mrun'[q].phase # "none" => mrun'[q].node \in DOMAIN node
    BY <2>1, <2>3, <2>4 DEF MissionInv
  <2> QED BY <2>1, <2>2, <2>5, <2>6 DEF MissionInv, TreeSound, ReadySound, CanRun, HandedOn
<1>5. ASSUME NEW r \in MissionRuns, NEW phase \in RunPhases \ {"none"}, mrun[r].phase # "none",
             mrun' = [mrun EXCEPT ![r].phase = phase]
      PROVE  /\ mrun' \in [MissionRuns -> [phase : RunPhases, node : MissionNodes \union {NoId}]]
             /\ \A q \in MissionRuns :
                  /\ mrun'[q].node = mrun[q].node
                  /\ mrun'[q].phase # "none" <=> mrun[q].phase # "none"
    BY <1>5 DEF MissionInv
<1>6. ASSUME NEW r \in MissionRuns, RunEarnsHandoff(r) PROVE MissionInv'
  <2>1. /\ mrun' \in [MissionRuns -> [phase : RunPhases, node : MissionNodes \union {NoId}]]
        /\ \A q \in MissionRuns :
             /\ mrun'[q].node = mrun[q].node
             /\ mrun'[q].phase # "none" <=> mrun[q].phase # "none"
    <3>1. /\ "merge eligible" \in RunPhases \ {"none"} /\ mrun[r].phase # "none"
          /\ mrun' = [mrun EXCEPT ![r].phase = "merge eligible"]
      BY <1>6 DEF RunEarnsHandoff, RunPhases
    <3> QED BY <1>5, <3>1
  <2>2. UNCHANGED <<node, order, unrefreshed>>  BY <1>6 DEF RunEarnsHandoff
  <2>3. ASSUME NEW m \in DOMAIN node PROVE NodeEarned(m, node[m], mrun')
    <3>1. NodeEarned(m, node[m], mrun) /\ node[m] \in NodeRecords  BY <1>0 DEF TreeSound
    <3> QED BY <2>1, <3>1 DEF NodeEarned, NodeRecords
  <2> QED BY <2>1, <2>2, <2>3 DEF MissionInv, TreeSound, ReadySound, CanRun, HandedOn
<1>7. ASSUME NEW r \in MissionRuns, BindExecution(r) PROVE MissionInv'
  <2> DEFINE n == mrun[r].node
  <2>1. /\ mrun' \in [MissionRuns -> [phase : RunPhases, node : MissionNodes \union {NoId}]]
        /\ \A q \in MissionRuns :
             /\ mrun'[q].node = mrun[q].node
             /\ mrun'[q].phase # "none" <=> mrun[q].phase # "none"
    <3>1. /\ "created" \in RunPhases \ {"none"} /\ mrun[r].phase # "none"
          /\ mrun' = [mrun EXCEPT ![r].phase = "created"]
      BY <1>7 DEF BindExecution, RunPhases
    <3> QED BY <1>5, <3>1
  <2>2. /\ mrun[r].phase # "none" /\ n \in DOMAIN node /\ UNCHANGED <<order, unrefreshed>>
        /\ node' = IF node[n].bound = NoId THEN [node EXCEPT ![n].bound = r] ELSE node
    BY <1>7 DEF BindExecution, MissionInv
  <2> HIDE DEF n
  <2>3. ASSUME NEW m \in DOMAIN node PROVE NodeEarned(m, node[m], mrun') /\ node[m] \in NodeRecords
    <3>1. NodeEarned(m, node[m], mrun) /\ node[m] \in NodeRecords  BY <1>0 DEF TreeSound
    <3> QED BY <2>1, <3>1 DEF NodeEarned, NodeRecords
  <2>4. CASE node' = node
    BY <2>1, <2>2, <2>3, <2>4 DEF MissionInv, TreeSound, ReadySound, CanRun, HandedOn
  <2>5. CASE node[n].bound = NoId /\ node' = [node EXCEPT ![n].bound = r]
    <3>1. /\ DOMAIN node' = DOMAIN node
          /\ \A m \in DOMAIN node : m # n => node'[m] = node[m]
      BY <2>2, <2>5
    <3>2. /\ node'[n] \in NodeRecords /\ node'[n].bound = r /\ node'[n].trust = node[n].trust
          /\ node'[n].dep = node[n].dep /\ node'[n].verified = node[n].verified
          /\ node'[n].state = node[n].state
      BY <2>2, <2>3, <2>5 DEF NodeRecords
    <3>3. node[n].trust = NoId  BY <2>2, <2>3, <2>5 DEF NodeEarned
    <3>4. NodeEarned(n, node'[n], mrun')
      <4>1. node[n].state # "DONE"  BY <2>2, <2>3, <3>3 DEF NodeEarned
      <4>2. mrun'[r].node = n /\ mrun'[r].phase # "none"  BY <2>1, <2>2 DEF n
      <4> QED BY <3>2, <3>3, <4>1, <4>2 DEF NodeEarned
    <3>5. node' \in [DOMAIN node' -> NodeRecords]
      BY <2>3, <2>5, <3>1, <3>2 DEF MissionInv, TreeSound
    <3>6. TreeSound(node', order', mrun')
      BY <1>0, <2>2, <2>3, <3>1, <3>4, <3>5 DEF TreeSound
    <3>7. ASSUME ReadySound(node) PROVE ReadySound(node')
      <4>1. ASSUME NEW m \in DOMAIN node, node'[m].state = "READY"
            PROVE  node'[m].dep \in DOMAIN node \union {NoId} /\ CanRun(node', m)
        <5>1. node'[m].dep = node[m].dep /\ node[m].state = "READY"
          BY <3>1, <3>2, <4>1
        <5>2. node[m].dep \in DOMAIN node \union {NoId} /\ CanRun(node, m)
          BY <3>7, <5>1 DEF ReadySound
        <5>3. node[m].dep # n \/ node[m].dep = NoId
          BY <3>3, <5>2 DEF CanRun, HandedOn
        <5> QED BY <3>1, <5>1, <5>2, <5>3 DEF CanRun, HandedOn
      <4> QED BY <3>1, <4>1 DEF ReadySound
    <3> QED BY <2>1, <2>2, <3>1, <3>6, <3>7 DEF MissionInv
  <2> QED BY <2>2, <2>4, <2>5
<1>8. ASSUME NEW r \in MissionRuns, NEW n \in MissionNodes, PromoteMission(r, n) PROVE MissionInv'
  <2> DEFINE t == [node EXCEPT ![n].verified = TRUE, ![n].trust = r, ![n].state = "DONE"]
  <2>1. n \in DOMAIN node /\ node[n].bound = r /\ Settle(t, order) /\ mrun' = mrun
    BY <1>8 DEF PromoteMission
  <2>2. node[n] \in NodeRecords /\ NodeEarned(n, node[n], mrun) /\ r # NoId
    BY <1>0, <2>1, MissionAssumption DEF TreeSound
  <2>3. DOMAIN t = DOMAIN node /\ \A m \in DOMAIN node : m # n => t[m] = node[m]
    OBVIOUS
  <2>4. /\ t[n] \in NodeRecords /\ t[n].bound = r /\ t[n].trust = r /\ t[n].verified
    BY <2>1, <2>2 DEF NodeRecords, NodeStates
  <2>5. t \in [DOMAIN t -> NodeRecords]
    BY <1>0, <2>4 DEF TreeSound
  <2> HIDE DEF t
  <2>6. NodeEarned(n, t[n], mrun)
    BY <2>1, <2>2, <2>4 DEF NodeEarned
  <2>7. TreeSound(t, order, mrun)  BY <1>0, <2>3, <2>5, <2>6 DEF TreeSound
  <2> QED BY <2>1, <2>3, <2>7, SettleSound
<1>9. CASE UNCHANGED missionVars
  BY <1>9 DEF missionVars, MissionInv, TreeSound, NodeEarned, ReadySound, CanRun, HandedOn
<1> QED BY <1>1, <1>2, <1>3, <1>4, <1>6, <1>7, <1>8, <1>9 DEF MissionNext

\* Whatever the API asks of a mission, in whatever order, with dependencies that do not
\* exist and splits that throw half-way: a node is done only with the verdict of the run
\* bound to it, and after a refresh of the gates none may start too early.
THEOREM MissionHolds == MissionSpec => []MissionGatesHold
<1>1. MissionInit => MissionInv
  <2> SUFFICES ASSUME MissionInit PROVE MissionInv
    OBVIOUS
  <2>1. PICK dep \in MissionDeps \union {NoId} : node = [n \in {MissionRoot} |-> Proposed(NoId, dep)]
    BY DEF MissionInit
  <2> DEFINE x == Proposed(NoId, dep)
  <2>2. /\ x \in NodeRecords /\ NodeEarned(MissionRoot, x, mrun)
        /\ x.state = "READY" => x.dep = NoId
    BY ProposedSound
  <2> HIDE DEF x
  <2>3. /\ DOMAIN node = {MissionRoot} /\ node[MissionRoot] = x
        /\ node \in [DOMAIN node -> NodeRecords]
    BY <2>1, <2>2 DEF x
  <2>4. order = <<MissionRoot>> /\ unrefreshed = FALSE  BY DEF MissionInit
  <2>5. mrun \in [MissionRuns -> [phase : RunPhases, node : MissionNodes \union {NoId}]]
        /\ \A r \in MissionRuns : mrun[r].phase = "none"
    BY DEF MissionInit, RunPhases
  <2>6. TreeSound(node, order, mrun)
    BY <2>2, <2>3, <2>4, MissionAssumption DEF TreeSound
  <2>7. ReadySound(node)  BY <2>2, <2>3 DEF ReadySound, CanRun
  <2> QED BY <2>4, <2>5, <2>6, <2>7 DEF MissionInv
<1>2. MissionInv => MissionGatesHold
  BY MissionAssumption DEF MissionInv, TreeSound, NodeEarned, ReadySound, MissionGatesHold,
     MissionDoneIsTrusted, MissionReadyIsSound
<1> QED BY <1>1, <1>2, MissionStep, PTL DEF MissionSpec

-----------------------------------------------------------------------------
(* DeliveryLedger. *)

LedgerHeads == {NoHead} \union {p[2] : p \in CiReports}
Delivering ==
  [state : {"RUNNING", "TAIL", "SAVED", "PAUSED", "COMPLETED"}, attempt : Nat,
   bound : BOOLEAN, ready : BOOLEAN]
Stored ==
  [run : DeliveryRuns, external : CiRuns, observedAt : 1..MaxObserved,
   conclusion : {p[1] : p \in CiReports}, head : LedgerHeads]

\* A request under way has found the handoff of the attempt it began with, and an
\* answer is for that one.
CallSound ==
  /\ call.kind \in {"idle", "collect", "derive", "answered"}
  /\ call.kind \in {"collect", "derive"} =>
       /\ call = [kind |-> call.kind, run |-> call.run, began |-> call.began]
       /\ call.run \in DeliveryRuns
       /\ call.began # 0 /\ handoffs[call.run] = call.began
  /\ call.kind = "answered" => call.of = call.began /\ call.decision # "THROWN"

\* Every observation names the head of its handoff, if any, and is of the external
\* run bound to that handoff; production feedback names the same head.
LedgerSound ==
  /\ \A i \in 1..Len(evidence) :
       /\ evidence[i].head # NoHead => ciHead[evidence[i].run] = evidence[i].head
       /\ ciBound[evidence[i].external] = evidence[i].run
  /\ \A f \in feedback : f[1] \in DeliveryRuns /\ f[2] # NoHead /\ ciHead[f[1]] = f[2]

DeliveryInv ==
  /\ delivering \in [DeliveryRuns -> Delivering]
  /\ handoffs \in [DeliveryRuns -> Nat]
  /\ evidence \in Seq(Stored)
  /\ ciHead \in [DeliveryRuns -> LedgerHeads]
  /\ ciBound \in [CiRuns -> DeliveryRuns \union {NoHead}]
  /\ LedgerSound /\ CallSound /\ CiRunServesOneDelivery

-----------------------------------------------------------------------------
\* A set of numbers has a least member: what stands for induction in these proofs.
LEMMA LeastExists ==
  ASSUME NEW T \in SUBSET Nat, T # {}
  PROVE  \E x \in T : \A y \in T : x <= y
<1>1. PICK R : IsWellFoundedOn(R, Nat) /\ \A x, y \in Nat : y < x => <<y, x>> \in R
  <2>1. \A x, y \in Nat : y < x => <<y, x>> \in OpToRel(<, Nat)
    BY DEF OpToRel
  <2> QED BY <2>1, NatLessThanWellFounded
<1>2. PICK x \in T : \A y \in T : ~(<<y, x>> \in R)
  BY <1>1, WFMin
<1>3. ASSUME NEW y \in T PROVE x <= y
  <2>1. x \in Nat /\ y \in Nat  OBVIOUS
  <2>2. ~(y < x)  BY <1>1, <1>2, <2>1, Zenon
  <2> QED BY <2>1, <2>2
<1> QED BY <1>3

\* deriveDeliveryDecision picks one of the observations it is given, and none of the
\* others was observed after it.
LEMMA LatestIsNewest ==
  ASSUME evidence \in Seq(Stored), NEW S \in SUBSET (1..Len(evidence)), S # {}
  PROVE  \E i \in S : /\ LatestObservation(S) = evidence[i]
                      /\ \A j \in S : evidence[j].observedAt <= evidence[i].observedAt
<1> DEFINE at(i) == evidence[i].observedAt
           newest(i) == \A j \in S : at(j) < at(i) \/ (at(j) = at(i) /\ j <= i)
<1>0. Len(evidence) \in Nat /\ S \subseteq Nat  OBVIOUS
<1>1. \A i \in S : at(i) \in Nat /\ at(i) <= MaxObserved
  <2>1. ASSUME NEW i \in S PROVE at(i) \in Nat /\ at(i) <= MaxObserved
    <3>1. evidence[i] \in Stored  OBVIOUS
    <3>2. at(i) \in 1..MaxObserved  BY <3>1 DEF Stored
    <3> HIDE DEF at
    <3> QED BY <3>2, DeliveryAssumption
  <2> HIDE DEF at
  <2> QED BY <2>1
<1> HIDE DEF at
<1>2. PICK a \in S : \A j \in S : at(j) <= at(a)
  <2> DEFINE T == {MaxObserved - at(i) : i \in S}
  <2>1. T \in SUBSET Nat /\ T # {}
    <3>1. ASSUME NEW i \in S PROVE MaxObserved - at(i) \in Nat
      <4>1. at(i) \in Nat /\ at(i) <= MaxObserved  BY <1>1
      <4> QED BY <4>1, DeliveryAssumption
    <3> QED BY <3>1
  <2>2. PICK m \in T : \A y \in T : m <= y
    <3> HIDE DEF T
    <3> QED BY <2>1, LeastExists
  <2>3. PICK i \in S : m = MaxObserved - at(i)  OBVIOUS
  <2>4. ASSUME NEW j \in S PROVE at(j) <= at(i)
    <3>1. m <= MaxObserved - at(j)  BY <2>2
    <3> QED BY <1>1, <2>3, <3>1, DeliveryAssumption
  <2> QED BY <2>4
<1>3. \E i \in S : newest(i)
  <2> DEFINE U == {i \in S : at(i) = at(a)}
             T == {Len(evidence) - i : i \in U}
  <2>1. T \in SUBSET Nat /\ T # {}
    BY <1>0
  <2>2. PICK m \in T : \A y \in T : m <= y
    <3> HIDE DEF T
    <3> QED BY <2>1, LeastExists
  <2>3. PICK i \in U : m = Len(evidence) - i  OBVIOUS
  <2>4. ASSUME NEW j \in S PROVE at(j) < at(i) \/ (at(j) = at(i) /\ j <= i)
    <3>1. at(j) <= at(i) /\ at(i) = at(a)  BY <1>2
    <3>2. CASE at(j) = at(a)
      <4>1. m <= Len(evidence) - j  BY <2>2, <3>2
      <4>2. i \in Nat /\ j \in Nat  BY <1>0
      <4> QED BY <1>0, <2>3, <3>1, <3>2, <4>1, <4>2
    <3>3. CASE at(j) # at(a)
      BY <1>1, <3>1, <3>3
    <3> QED BY <3>2, <3>3
  <2> QED BY <2>4
<1>4. LatestObservation(S) = evidence[CHOOSE i \in S : newest(i)]
  BY DEF LatestObservation, at
<1>5. PICK i \in S : newest(i) /\ LatestObservation(S) = evidence[i]
  <2> DEFINE i0 == CHOOSE i \in S : newest(i)
  <2> HIDE DEF newest
  <2>1. i0 \in S /\ newest(i0)  BY <1>3
  <2> HIDE DEF i0
  <2>2. LatestObservation(S) = evidence[i0]  BY <1>4 DEF i0
  <2> QED BY <2>1, <2>2
<1>6. ASSUME NEW j \in S PROVE at(j) <= at(i)
  BY <1>1, <1>5
<1> QED BY <1>5, <1>6 DEF at

\* Heads of one handoff never differ, so its decision is never an error.
LEMMA NeverThrown ==
  ASSUME LedgerSound, NEW r
  PROVE  DeriveDecision(r, EvidenceOf(r)) # "THROWN"
<1>1. \A i \in EvidenceOf(r) : evidence[i].head # NoHead => ciHead[r] = evidence[i].head
  BY DEF LedgerSound, EvidenceOf
<1>2. ~\E i, j \in EvidenceOf(r) : NoHead \notin {evidence[i].head, evidence[j].head}
                                   /\ evidence[i].head # evidence[j].head
  BY <1>1
<1> QED BY <1>2 DEF DeriveDecision

-----------------------------------------------------------------------------
\* Steps of the runs alone: the ledger stays, and no handoff is ever replaced.
LEMMA RunSideStep ==
  ASSUME DeliveryInv, delivering' \in [DeliveryRuns -> Delivering],
         handoffs' \in [DeliveryRuns -> Nat],
         \A r \in DeliveryRuns : handoffs[r] # 0 => handoffs'[r] = handoffs[r],
         UNCHANGED <<evidence, ciHead, ciBound, feedback, call>>
  PROVE  DeliveryInv'
<1>1. LedgerSound' /\ CiRunServesOneDelivery'
  BY DEF DeliveryInv, LedgerSound, CiRunServesOneDelivery
<1>2. CallSound'  BY DEF DeliveryInv, CallSound
<1> QED BY <1>1, <1>2 DEF DeliveryInv

LEMMA DeliveryStep ==
  ASSUME DeliveryInv, DeliveryNext
  PROVE  DeliveryInv' /\ EligibleIsNewest
<1>0. /\ delivering \in [DeliveryRuns -> Delivering] /\ handoffs \in [DeliveryRuns -> Nat]
      /\ evidence \in Seq(Stored) /\ ciHead \in [DeliveryRuns -> LedgerHeads]
      /\ ciBound \in [CiRuns -> DeliveryRuns \union {NoHead}]
      /\ LedgerSound /\ CallSound /\ CiRunServesOneDelivery
  BY DEF DeliveryInv
<1>1. ASSUME NEW r \in DeliveryRuns, NEW eligible \in BOOLEAN, NEW authorised \in BOOLEAN,
             CompleteRun(r, eligible, authorised)
      PROVE  DeliveryInv' /\ EligibleIsNewest
  <2>1. delivering' \in [DeliveryRuns -> Delivering]
    <3>1. delivering[r] \in Delivering  BY <1>0
    <3>2. [delivering[r] EXCEPT !.state = "TAIL", !.ready = eligible,
                                !.bound = ~eligible \/ authorised] \in Delivering
      BY <3>1 DEF Delivering
    <3>3. delivering' = [delivering EXCEPT ![r] = [delivering[r] EXCEPT !.state = "TAIL",
                           !.ready = eligible, !.bound = ~eligible \/ authorised]]
      BY <1>0, <1>1 DEF CompleteRun
    <3> QED BY <1>0, <3>2, <3>3
  <2>2. UNCHANGED <<handoffs, evidence, ciHead, ciBound, feedback, call>>
    BY <1>1 DEF CompleteRun
  <2> QED BY <1>0, <2>1, <2>2, RunSideStep DEF EligibleIsNewest
<1>2. ASSUME NEW r \in DeliveryRuns, SaveHandoff(r) PROVE DeliveryInv' /\ EligibleIsNewest
  <2>1. PICK state \in {"COMPLETED", "SAVED"} : delivering' = [delivering EXCEPT ![r].state = state]
    BY <1>2 DEF SaveHandoff
  <2>2. delivering' \in [DeliveryRuns -> Delivering]  BY <1>0, <2>1 DEF Delivering
  <2>3. delivering[r].attempt \in Nat  BY <1>0 DEF Delivering
  <2>4. /\ handoffs' \in [DeliveryRuns -> Nat]
        /\ \A q \in DeliveryRuns : handoffs[q] # 0 => handoffs'[q] = handoffs[q]
    BY <1>0, <1>2, <2>3 DEF SaveHandoff
  <2>5. UNCHANGED <<evidence, ciHead, ciBound, feedback, call>>  BY <1>2 DEF SaveHandoff
  <2> QED BY <2>2, <2>4, <2>5, RunSideStep DEF EligibleIsNewest
<1>3. ASSUME NEW r \in DeliveryRuns, TailFails(r) \/ ResumeRun(r)
      PROVE  DeliveryInv' /\ EligibleIsNewest
  <2>1. delivering' \in [DeliveryRuns -> Delivering]
    <3>1. CASE TailFails(r)
      <4>1. delivering[r] \in Delivering  BY <1>0
      <4>2. [delivering[r] EXCEPT !.state = "PAUSED", !.bound = FALSE] \in Delivering
        BY <4>1 DEF Delivering
      <4>3. delivering' = [delivering EXCEPT ![r] =
                             [delivering[r] EXCEPT !.state = "PAUSED", !.bound = FALSE]]
        BY <1>0, <3>1 DEF TailFails
      <4> QED BY <1>0, <4>2, <4>3
    <3>2. CASE ResumeRun(r)
      <4>1. delivering[r] \in Delivering  BY <1>0
      <4>2. delivering[r].attempt + 1 \in Nat  BY <4>1 DEF Delivering
      <4>3. \A n \in Nat : [delivering[r] EXCEPT !.state = "RUNNING", !.attempt = n] \in Delivering
        BY <4>1 DEF Delivering
      <4>4. delivering' = [delivering EXCEPT ![r] = [delivering[r] EXCEPT
                             !.state = "RUNNING", !.attempt = delivering[r].attempt + 1]]
        BY <1>0, <3>2 DEF ResumeRun
      <4> QED BY <1>0, <4>2, <4>3, <4>4
    <3> QED BY <1>3, <3>1, <3>2
  <2>2. UNCHANGED <<handoffs, evidence, ciHead, ciBound, feedback, call>>
    BY <1>3 DEF TailFails, ResumeRun
  <2> QED BY <1>0, <2>1, <2>2, RunSideStep DEF EligibleIsNewest
<1>4. ASSUME NEW r \in DeliveryRuns, NEW kind \in {"collect", "derive"}, AskDelivery(r, kind)
      PROVE  DeliveryInv' /\ EligibleIsNewest
  <2>1. /\ UNCHANGED <<delivering, handoffs, evidence, ciHead, ciBound, feedback>>
        /\ call' = [kind |-> kind, run |-> r, began |-> delivering[r].attempt]
        /\ handoffs[r] # 0 /\ delivering[r].attempt = handoffs[r]
    BY <1>4 DEF AskDelivery, CurrentHandoff
  <2>2. call'.kind = kind /\ call'.run = r /\ call'.began = delivering[r].attempt  BY <2>1
  <2>3. CallSound'  BY <2>1, <2>2 DEF CallSound
  <2>4. LedgerSound' /\ CiRunServesOneDelivery'
    BY <1>0, <2>1 DEF LedgerSound, CiRunServesOneDelivery
  <2> QED BY <1>0, <2>1, <2>2, <2>3, <2>4 DEF DeliveryInv, EligibleIsNewest
<1>5. CASE CollectFails
  <2>1. UNCHANGED <<delivering, handoffs, evidence, ciHead, ciBound, feedback>> /\ call' = Idle
    BY <1>5 DEF CollectFails
  <2>2. call'.kind = "idle"  BY <2>1 DEF Idle
  <2>3. CallSound'  BY <2>2 DEF CallSound
  <2>4. LedgerSound' /\ CiRunServesOneDelivery'
    BY <1>0, <2>1 DEF LedgerSound, CiRunServesOneDelivery
  <2> QED BY <1>0, <2>1, <2>2, <2>3, <2>4 DEF DeliveryInv, EligibleIsNewest
<1>6. ASSUME NEW r \in DeliveryRuns, NEW revision \in Heads, CollectFeedback(r, revision)
      PROVE  DeliveryInv' /\ EligibleIsNewest
  <2>1. /\ UNCHANGED <<delivering, handoffs, evidence, ciHead, ciBound, call>>
        /\ feedback' = feedback \union {<<r, revision>>} /\ ciHead[r] = revision
    BY <1>6 DEF CollectFeedback
  <2>2. \A f \in feedback' : f[1] \in DeliveryRuns /\ f[2] # NoHead /\ ciHead[f[1]] = f[2]
    BY <1>0, <2>1, DeliveryAssumption DEF LedgerSound
  <2>3. LedgerSound'  BY <1>0, <2>1, <2>2 DEF LedgerSound
  <2>4. CallSound' /\ CiRunServesOneDelivery'
    BY <1>0, <2>1 DEF CallSound, CiRunServesOneDelivery
  <2> QED BY <1>0, <2>1, <2>3, <2>4 DEF DeliveryInv, EligibleIsNewest
<1>7. ASSUME NEW o \in Observations, CollectEvidence(o) PROVE DeliveryInv' /\ EligibleIsNewest
  <2>1. /\ o.external \in CiRuns /\ o.observedAt \in 1..MaxObserved
        /\ o.conclusion \in {p[1] : p \in CiReports} /\ o.head \in LedgerHeads
    BY DEF Observations, LedgerHeads
  <2>2. call.kind = "collect" /\ UNCHANGED <<delivering, handoffs, feedback>>
    BY <1>7 DEF CollectEvidence
  <2>3. /\ call.run \in DeliveryRuns /\ handoffs[call.run] = call.began /\ call.began # 0
        /\ call = [kind |-> call.kind, run |-> call.run, began |-> call.began]
    BY <1>0, <2>2 DEF CallSound
  <2> DEFINE r == call.run
             new == [run |-> call.run, external |-> o.external, observedAt |-> o.observedAt,
                     conclusion |-> o.conclusion, head |-> o.head]
  <2>4. CASE ~AcceptsEvidence(call.run, o)
    <3>1. call' = Idle /\ UNCHANGED <<evidence, ciHead, ciBound>>
      BY <1>7, <2>4 DEF CollectEvidence
    <3>2. call'.kind = "idle"  BY <3>1 DEF Idle
    <3>3. CallSound'  BY <3>2 DEF CallSound
    <3>4. LedgerSound' /\ CiRunServesOneDelivery'
      BY <1>0, <2>2, <3>1 DEF LedgerSound, CiRunServesOneDelivery
    <3> QED BY <1>0, <2>2, <3>1, <3>2, <3>3, <3>4 DEF DeliveryInv, EligibleIsNewest
  <2>5. CASE AcceptsEvidence(call.run, o)
    <3>1. /\ evidence' = Append(evidence, new)
          /\ ciHead' = [ciHead EXCEPT ![r] = IF o.head = NoHead THEN ciHead[r] ELSE o.head]
          /\ ciBound' = [ciBound EXCEPT ![o.external] = r]
          /\ call' = [call EXCEPT !.kind = "derive"]
      BY <1>7, <2>5 DEF CollectEvidence
    <3>2. /\ new \in Stored /\ new.run = r /\ new.external = o.external
          /\ new.observedAt = o.observedAt /\ new.head = o.head
      BY <2>1, <2>3 DEF Stored
    <3>3. /\ ciHead[r] # NoHead /\ o.head # NoHead => o.head = ciHead[r]
          /\ ciBound[o.external] \in {NoHead, r}
          /\ \A i \in 1..Len(evidence) :
               evidence[i].external = o.external => evidence[i].observedAt # o.observedAt
      BY <2>5 DEF AcceptsEvidence
    <3> HIDE DEF new
    <3>4. /\ evidence' \in Seq(Stored) /\ Len(evidence') = Len(evidence) + 1 /\ Len(evidence) \in Nat
          /\ \A i \in 1..Len(evidence) : evidence'[i] = evidence[i]
          /\ evidence'[Len(evidence) + 1] = new
      BY <1>0, <3>1, <3>2
    <3>5. /\ ciHead' \in [DeliveryRuns -> LedgerHeads]
          /\ \A q \in DeliveryRuns : ciHead[q] # NoHead => ciHead'[q] = ciHead[q]
          /\ o.head # NoHead => ciHead'[r] = o.head
      BY <1>0, <2>1, <2>3, <3>1, <3>3
    <3>6. /\ ciBound' \in [CiRuns -> DeliveryRuns \union {NoHead}]
          /\ \A e \in CiRuns : ciBound[e] \in DeliveryRuns => ciBound'[e] = ciBound[e]
          /\ ciBound'[o.external] = r
      BY <1>0, <2>1, <2>3, <3>1, <3>3, DeliveryAssumption
    <3>7. call'.kind = "derive" /\ call'.run = r /\ call'.began = call.began
          /\ call' = [kind |-> call'.kind, run |-> call'.run, began |-> call'.began]
      BY <2>3, <3>1
    <3>8. CallSound'
      BY <2>2, <2>3, <3>7 DEF CallSound
    <3>9. \A i \in 1..Len(evidence') : i \in 1..Len(evidence) \/ i = Len(evidence) + 1
      BY <3>4
    <3>10. \A i \in 1..Len(evidence) :
             evidence[i].run \in DeliveryRuns /\ evidence[i].external \in CiRuns
      <4>1. \A i \in 1..Len(evidence) : evidence[i] \in Stored  BY <1>0
      <4> QED BY <4>1 DEF Stored
    <3>11. \A i \in 1..Len(evidence) : evidence[i].external = o.external => evidence[i].run = r
      BY <1>0, <3>3, <3>10, DeliveryAssumption DEF LedgerSound
    <3>12. LedgerSound'
      <4>1. ASSUME NEW i \in 1..Len(evidence')
            PROVE  /\ evidence'[i].head # NoHead => ciHead'[evidence'[i].run] = evidence'[i].head
                   /\ ciBound'[evidence'[i].external] = evidence'[i].run
        <5>1. CASE i \in 1..Len(evidence)
          <6>1. /\ evidence[i].head # NoHead => ciHead[evidence[i].run] = evidence[i].head
                /\ ciBound[evidence[i].external] = evidence[i].run
            BY <1>0, <5>1 DEF LedgerSound
          <6> QED BY <3>4, <3>5, <3>6, <3>10, <5>1, <6>1
        <5>2. CASE i = Len(evidence) + 1
          BY <3>2, <3>4, <3>5, <3>6, <5>2
        <5> QED BY <3>9, <5>1, <5>2
      <4>2. \A f \in feedback' : f[1] \in DeliveryRuns /\ f[2] # NoHead /\ ciHead'[f[1]] = f[2]
        BY <1>0, <2>2, <3>5 DEF LedgerSound
      <4> QED BY <4>1, <4>2 DEF LedgerSound
    <3>13. CiRunServesOneDelivery'
      <4>1. ASSUME NEW i \in 1..Len(evidence'), NEW j \in 1..Len(evidence'), i # j,
                   evidence'[i].external = evidence'[j].external
            PROVE  evidence'[i].run = evidence'[j].run /\ evidence'[i].observedAt # evidence'[j].observedAt
        <5>1. CASE i \in 1..Len(evidence) /\ j \in 1..Len(evidence)
          BY <1>0, <3>4, <4>1, <5>1 DEF CiRunServesOneDelivery
        <5>2. CASE i \in 1..Len(evidence) /\ j = Len(evidence) + 1
          BY <3>2, <3>3, <3>4, <3>11, <4>1, <5>2
        <5>3. CASE j \in 1..Len(evidence) /\ i = Len(evidence) + 1
          BY <3>2, <3>3, <3>4, <3>11, <4>1, <5>3
        <5> QED BY <3>9, <4>1, <5>1, <5>2, <5>3
      <4> QED BY <4>1 DEF CiRunServesOneDelivery
    <3> QED BY <1>0, <2>2, <3>4, <3>5, <3>6, <3>7, <3>8, <3>12, <3>13 DEF DeliveryInv, EligibleIsNewest
  <2> QED BY <2>4, <2>5
<1>8. CASE AnswerDelivery
  <2> DEFINE r == call.run
             verdict == DeriveDecision(r, EvidenceOf(r))
  <2>1. /\ call.kind = "derive" /\ UNCHANGED <<delivering, handoffs, evidence, ciHead, ciBound, feedback>>
        /\ call' = [kind |-> "answered", began |-> call.began, of |-> handoffs[r], decision |-> verdict]
    BY <1>8 DEF AnswerDelivery
  <2>2. r \in DeliveryRuns /\ handoffs[r] = call.began  BY <1>0, <2>1 DEF CallSound
  <2>3. verdict # "THROWN"  BY <1>0, NeverThrown
  <2> HIDE DEF verdict
  <2>4. /\ call'.kind = "answered" /\ call'.of = handoffs[r] /\ call'.began = call.began
        /\ call'.decision = verdict
    BY <2>1
  <2>5. CallSound'  BY <2>2, <2>3, <2>4 DEF CallSound
  <2>6. LedgerSound' /\ CiRunServesOneDelivery'
    BY <1>0, <2>1 DEF LedgerSound, CiRunServesOneDelivery
  <2>7. ASSUME verdict = "ELIGIBLE"
        PROVE  \E i \in 1..Len(evidence) :
                 /\ evidence[i].run = r /\ evidence[i].conclusion = "PASS"
                 /\ \A j \in 1..Len(evidence) :
                      evidence[j].run = r /\ evidence[j].conclusion # "PASS" =>
                        evidence[j].observedAt <= evidence[i].observedAt
    <3>1. EvidenceOf(r) # {} /\ LatestObservation(EvidenceOf(r)).conclusion = "PASS"
      BY <2>7 DEF verdict, DeriveDecision
    <3>2. EvidenceOf(r) \in SUBSET (1..Len(evidence))  BY DEF EvidenceOf
    <3>3. PICK i \in EvidenceOf(r) :
            /\ LatestObservation(EvidenceOf(r)) = evidence[i]
            /\ \A j \in EvidenceOf(r) : evidence[j].observedAt <= evidence[i].observedAt
      BY <1>0, <3>1, <3>2, LatestIsNewest
    <3> QED BY <3>1, <3>2, <3>3 DEF EvidenceOf
  <2>8. EligibleIsNewest  BY <2>4, <2>7 DEF EligibleIsNewest
  <2> QED BY <1>0, <2>1, <2>5, <2>6, <2>8 DEF DeliveryInv
<1> QED BY <1>1, <1>2, <1>3, <1>4, <1>5, <1>6, <1>7, <1>8 DEF DeliveryNext

\* However observations arrive, runs fail in their tail and are resumed, and requests
\* overlap with both: one head and one handoff for a CI run, an eligible answer rests
\* on the newest observation, and it is for the handoff the request found.
THEOREM DeliveryHolds == DeliverySpec => DeliveryIsSound
<1>1. DeliveryInit => DeliveryInv
  <2> SUFFICES ASSUME DeliveryInit PROVE DeliveryInv
    OBVIOUS
  <2>1. delivering \in [DeliveryRuns -> Delivering]
    BY DEF DeliveryInit, Delivering
  <2>2. handoffs \in [DeliveryRuns -> Nat]  BY DEF DeliveryInit
  <2>3. /\ evidence = <<>> /\ feedback = {} /\ call.kind = "idle"
        /\ ciHead \in [DeliveryRuns -> LedgerHeads]
        /\ ciBound \in [CiRuns -> DeliveryRuns \union {NoHead}]
    BY DEF DeliveryInit, Idle, LedgerHeads
  <2> QED BY <2>1, <2>2, <2>3 DEF DeliveryInv, LedgerSound, CallSound, CiRunServesOneDelivery
<1>2. DeliveryInv /\ [DeliveryNext]_deliveryVars => DeliveryInv'
  <2>1. DeliveryInv /\ UNCHANGED deliveryVars => DeliveryInv'
    BY DEF deliveryVars, DeliveryInv, LedgerSound, CallSound, CiRunServesOneDelivery
  <2> QED BY <2>1, DeliveryStep
<1>3. DeliveryInv => OneHeadPerDelivery /\ CiRunServesOneDelivery /\ AnswerIsOfTheAttempt
  <2> SUFFICES ASSUME DeliveryInv
               PROVE  OneHeadPerDelivery /\ CiRunServesOneDelivery /\ AnswerIsOfTheAttempt
    OBVIOUS
  <2>1. OneHeadPerDelivery
    BY DEF DeliveryInv, LedgerSound, CallSound, OneHeadPerDelivery
  <2>2. AnswerIsOfTheAttempt  BY DEF DeliveryInv, CallSound, AnswerIsOfTheAttempt
  <2> QED BY <2>1, <2>2 DEF DeliveryInv
<1>4. DeliveryInv' => (OneHeadPerDelivery /\ CiRunServesOneDelivery /\ AnswerIsOfTheAttempt)'
  BY <1>3, PTL
<1>5. DeliveryInv /\ [DeliveryNext]_deliveryVars =>
        [UNCHANGED deliveryVars \/
          ((OneHeadPerDelivery /\ CiRunServesOneDelivery /\ AnswerIsOfTheAttempt)'
            /\ EligibleIsNewest)]_deliveryVars
  BY <1>4, DeliveryStep
<1> QED BY <1>1, <1>2, <1>5, PTL DEF DeliverySpec, DeliveryIsSound

-----------------------------------------------------------------------------
(* StrategyLearning. *)

\* Everything a run may leave in the table of observations, and a release in the feedback.
ObservationsOf == {Observation(r, c, e) : r \in LearnRuns, c \in Nat, e \in RunEndings}
ProducedOf == [event : DOMAIN FeedbackEvents, material : {FeedbackEvents[e].material : e \in DOMAIN FeedbackEvents},
               scope : {o.scope : o \in ObservationsOf}]
LearnRecords == [state : {"CREATED", "RUNNING", "COMPLETED", "FAILED"}, candidate : Nat,
                 ending : RunEndings \union {"none"}]
LearnStates == [store : {"none"} \union {d[1] : d \in Deployments}, scope : {"BALANCED"} \union {d[2] : d \in Deployments},
                ended : Nat, record : [LearnRuns -> LearnRecords],
                pending : ObservationsOf \union {NoObservation}, restarts : Nat]
Lifecycles == {"SHADOW", "CANARY", "PROMOTED", "DEMOTED"}
Selections == [step : {"idle", "observed", "ordinal", "decided"}, view : BOOLEAN, lifecycle : Lifecycles,
               chosen : {"none", "native", "challenger"}, by : {"none", "native", "slot", "promotion"},
               failedBefore : BOOLEAN, runsBefore : Nat, verifiedBefore : Nat]

LearnType ==
  /\ learn \in LearnStates
  /\ observed \in Seq(ObservationsOf)
  /\ production \in Seq(ProducedOf)
  /\ canary \in [next : Nat, taken : Nat]
  /\ chooser \in [Selectors -> Selections]

\* A run is observed at most once, however often it ends: what makes a count of observations a
\* count of runs.
ObservedOnce == \A i, j \in DOMAIN observed : observed[i].run = observed[j].run => i = j

\* Of the ordinals 0 .. next - 1 at most every CanaryPeriod-th was a slot.
SlotsBounded ==
  /\ CanaryPeriod * canary.taken <= canary.next + CanaryPeriod - 1
  /\ canary.taken > 0 => learn.scope # "CRITICAL" /\ learn.store # "none"

Earned(c) == c.runsBefore >= PromotionMinimum /\ 10 * c.verifiedBefore >= PromotionRate * PromotionMinimum

\* What a selection c has in hand at each of its awaits. A failure stored before it began is in the
\* list it read, or is a material event that is still there when it reads the feedback.
SelectionSound(c, barred) ==
  /\ c.step \in {"idle", "observed", "ordinal"} => c.chosen = "none" /\ c.by = "none"
  /\ c.step = "observed" => /\ c.failedBefore => c.lifecycle = "DEMOTED" \/ barred
                            /\ c.lifecycle = "PROMOTED" => Earned(c)
  /\ c.step = "ordinal" => c.lifecycle = "CANARY" /\ ~c.failedBefore
  /\ c.chosen = "challenger" => ~c.failedBefore
  /\ c.by = "promotion" => Earned(c)

LearnInv ==
  /\ LearnType /\ ObservedOnce /\ SlotsBounded
  /\ \A s \in Selectors : SelectionSound(chooser[s], DemotionRequired)
  /\ learn.store = "none" => \A s \in Selectors : chooser[s].step = "idle"

\* Whoever is on the list is at a fixed distance in the table.
LEMMA ListedShape ==
  ASSUME NEW S, NEW q \in Seq(S), ListLimit \in Nat
  PROVE  \E d \in Nat :
           /\ Listed(q) \in Seq(S) /\ d + Len(Listed(q)) = Len(q)
           /\ \A i \in 1..Len(Listed(q)) : i + d \in 1..Len(q) /\ Listed(q)[i] = q[i + d]
           /\ \A k \in 1..Len(q) : k > Len(q) - ListLimit => k - d \in 1..Len(Listed(q))
<1> DEFINE off == IF Len(q) > ListLimit THEN Len(q) - ListLimit ELSE 0
<1>1. off \in Nat /\ off <= Len(q) /\ Len(q) \in Nat  OBVIOUS
<1>2. Listed(q) = SubSeq(q, off + 1, Len(q))  BY DEF Listed
<1>3. /\ Listed(q) \in Seq(S) /\ Len(Listed(q)) = Len(q) - off
      /\ \A i \in 1..(Len(q) - off) : Listed(q)[i] = q[i + off]
  <2> HIDE DEF off
  <2> QED BY <1>1, <1>2
<1>4. \A k \in 1..Len(q) : k > Len(q) - ListLimit => k - off >= 1  OBVIOUS
<1> HIDE DEF off
<1>5. /\ \A i \in 1..Len(Listed(q)) : i + off \in 1..Len(q) /\ Listed(q)[i] = q[i + off]
      /\ \A k \in 1..Len(q) : k > Len(q) - ListLimit => k - off \in 1..Len(Listed(q))
      /\ off + Len(Listed(q)) = Len(q)
  BY <1>1, <1>3, <1>4
<1> QED BY <1>1, <1>3, <1>5

\* A failed check on the list demotes.
LEMMA FailureDemotes ==
  ASSUME NEW list, NEW i \in Scoped(list), list[i].assurance = "FAIL"
  PROVE  Lifecycle(list) = "DEMOTED"
<1>1. Scoped(list) # {} /\ Demotes(list, Scoped(list))  BY DEF Demotes
<1>2. Lifecycle(list) = "DEMOTED"
  BY <1>1, Zenon DEF Lifecycle
<1> QED BY <1>2

\* Promotion is the third of four exclusive cases.
LEMMA PromotedPromotes ==
  ASSUME NEW list
  PROVE  /\ Lifecycle(list) \in Lifecycles
         /\ Lifecycle(list) = "PROMOTED" => Promotes(list, Scoped(list))
<1> DEFINE X == Scoped(list)
           P == Promotes(list, X)
           D == Demotes(list, X)
           C == /\ Cardinality(X) >= CanaryMinimum
                /\ 10 * Cardinality(Verified(list, X)) >= 8 * Cardinality(X)
           L == CASE X = {} -> "SHADOW"
                  [] X # {} /\ D -> "DEMOTED"
                  [] X # {} /\ ~D /\ P -> "PROMOTED"
                  [] OTHER -> IF C THEN "CANARY" ELSE "SHADOW"
<1>1. Lifecycle(list) = L  BY DEF Lifecycle
<1>2. L \in Lifecycles /\ (L = "PROMOTED" => P)
  <2> HIDE DEF P, D, C, X
  <2> QED BY DEF Lifecycles
<1> HIDE DEF L
<1> QED BY <1>1, <1>2

LEMMA SubsetOfInterval ==
  ASSUME NEW n \in Nat, NEW T \in SUBSET (1..n)
  PROVE  IsFiniteSet(T) /\ Cardinality(T) \in Nat
<1>1. IsFiniteSet(1..n)  BY FS_Interval, 1 \in Int, n \in Int
<1> QED BY <1>1, FS_Subset, FS_CardinalityType

\* With every run observed once, a set of observations is as large as the set of its runs.
LEMMA RunsOf ==
  ASSUME LearnType, ObservedOnce, NEW n \in Nat, NEW T \in SUBSET (1..n), NEW d \in Nat,
         NEW H \in SUBSET (DOMAIN observed), \A i \in T : i + d \in H
  PROVE  /\ IsFiniteSet({observed[i].run : i \in H})
         /\ Cardinality({observed[i].run : i \in H}) \in Nat
         /\ Cardinality(T) <= Cardinality({observed[i].run : i \in H})
<1> DEFINE R == {observed[i].run : i \in H}
           f == [i \in T |-> observed[i + d].run]
           g == [i \in H |-> observed[i].run]
<1>1. DOMAIN observed = 1..Len(observed) /\ Len(observed) \in Nat  BY DEF LearnType
<1>2. IsFiniteSet(H) /\ IsFiniteSet(T)  BY <1>1, SubsetOfInterval
<1>3. g \in Surjection(H, R)  BY DEF Surjection
<1>4. IsFiniteSet(R)  BY <1>2, <1>3, FS_Surjection
<1>5. f \in Injection(T, R)
  <2>1. f \in [T -> R]  OBVIOUS
  <2>2. ASSUME NEW a \in T, NEW b \in T, f[a] = f[b] PROVE a = b
    <3>1. a + d = b + d  BY <2>2 DEF ObservedOnce
    <3> QED BY <3>1
  <2> QED BY <2>1, <2>2 DEF Injection, IsInjective
<1>6. Cardinality(T) <= Cardinality(R)  BY <1>4, <1>5, FS_Injection
<1> QED BY <1>4, <1>6, FS_CardinalityType

Here == {i \in DOMAIN observed : observed[i].scope = learn.scope}
VerifiedHere == {j \in Here : observed[j].verified}

\* What a read of the table is worth: a failure on the list demotes, and a promotion was earned by
\* as many runs.
LEMMA ReadIsSound ==
  ASSUME LearnType, ObservedOnce
  PROVE  /\ (\E i \in Here : i > Len(observed) - ListLimit /\ observed[i].assurance = "FAIL")
              => Lifecycle(Listed(observed)) = "DEMOTED"
         /\ Cardinality({observed[i].run : i \in Here}) \in Nat
         /\ Cardinality({observed[i].run : i \in VerifiedHere}) \in Nat
         /\ Lifecycle(Listed(observed)) = "PROMOTED" =>
              /\ Cardinality({observed[i].run : i \in Here}) >= PromotionMinimum
              /\ 10 * Cardinality({observed[i].run : i \in VerifiedHere}) >= PromotionRate * PromotionMinimum
<1> DEFINE list == Listed(observed)
           X == Scoped(list)
           V == Verified(list, X)
           n == Len(list)
<1>1. PICK d \in Nat :
           /\ list \in Seq(ObservationsOf) /\ d + n = Len(observed)
           /\ \A i \in 1..n : i + d \in 1..Len(observed) /\ list[i] = observed[i + d]
           /\ \A k \in 1..Len(observed) : k > Len(observed) - ListLimit => k - d \in 1..n
  BY ListedShape, LearnAssumption DEF LearnType
<1>2. n \in Nat /\ DOMAIN list = 1..n /\ Len(observed) \in Nat /\ DOMAIN observed = 1..Len(observed)
  BY <1>1 DEF LearnType
<1> HIDE DEF list, n
<1>3. X \subseteq 1..n /\ V \subseteq 1..n
  BY <1>2 DEF Scoped, Verified
<1>4. \A i \in X : i + d \in Here
  BY <1>1, <1>2, <1>3 DEF Scoped, Here
<1>5. \A i \in V : i + d \in VerifiedHere
  <2>1. ASSUME NEW i \in V PROVE i \in X /\ list[i].verified  BY DEF Verified
  <2>2. ASSUME NEW i \in V PROVE list[i] = observed[i + d]  BY <1>1, <1>3
  <2> QED BY <1>4, <2>1, <2>2 DEF VerifiedHere
<1>6. Here \in SUBSET DOMAIN observed /\ VerifiedHere \in SUBSET DOMAIN observed  BY DEF Here, VerifiedHere
<1>7. /\ Cardinality({observed[i].run : i \in Here}) \in Nat
      /\ Cardinality(X) <= Cardinality({observed[i].run : i \in Here})
  BY <1>2, <1>3, <1>4, <1>6, RunsOf
<1>8. /\ Cardinality({observed[i].run : i \in VerifiedHere}) \in Nat
      /\ Cardinality(V) <= Cardinality({observed[i].run : i \in VerifiedHere})
  BY <1>2, <1>3, <1>5, <1>6, RunsOf
<1>9. Cardinality(X) \in Nat /\ Cardinality(V) \in Nat  BY <1>2, <1>3, SubsetOfInterval
<1>10. ASSUME NEW k \in Here, k > Len(observed) - ListLimit, observed[k].assurance = "FAIL"
       PROVE  Lifecycle(list) = "DEMOTED"
  <2> DEFINE i == k - d
  <2>1. k \in 1..Len(observed) /\ observed[k].scope = learn.scope  BY <1>2 DEF Here
  <2>2. i \in 1..n /\ i + d = k /\ list[i] = observed[k]  BY <1>1, <1>10, <2>1
  <2>3. ASSUME NEW j \in 1..(i - 1) PROVE list[j].run # list[i].run
    <3>1. j \in 1..n /\ j # i  BY <1>2, <2>2
    <3>2. j + d \in DOMAIN observed /\ k \in DOMAIN observed /\ j + d # k /\ list[j] = observed[j + d]
      BY <1>1, <1>2, <2>1, <2>2, <3>1
    <3> QED BY <2>2, <3>2 DEF ObservedOnce
  <2> HIDE DEF i
  <2>4. i \in X  BY <1>2, <2>1, <2>2, <2>3 DEF Scoped
  <2> QED BY <1>10, <2>2, <2>4, FailureDemotes
<1>11. ASSUME Lifecycle(list) = "PROMOTED"
       PROVE  /\ Cardinality({observed[i].run : i \in Here}) >= PromotionMinimum
              /\ 10 * Cardinality({observed[i].run : i \in VerifiedHere}) >= PromotionRate * PromotionMinimum
  <2>1. Cardinality(X) >= PromotionMinimum /\ 10 * Cardinality(V) >= PromotionRate * Cardinality(X)
    BY <1>11, PromotedPromotes DEF Promotes
  <2> DEFINE a == Cardinality(X) b == Cardinality(V)
             p == Cardinality({observed[i].run : i \in Here}) q == Cardinality({observed[i].run : i \in VerifiedHere})
  <2>2. a \in Nat /\ b \in Nat /\ p \in Nat /\ q \in Nat /\ a <= p /\ b <= q
        /\ a >= PromotionMinimum /\ 10 * b >= PromotionRate * a
    BY <1>7, <1>8, <1>9, <2>1
  <2> HIDE DEF a, b, p, q
  <2>3. PromotionRate * a >= PromotionRate * PromotionMinimum
    <3>1. PICK e \in Nat : a = PromotionMinimum + e
      <4>1. a - PromotionMinimum \in Nat /\ a = PromotionMinimum + (a - PromotionMinimum)
        BY <2>2, LearnAssumption
      <4> QED BY <4>1
    <3>2. PromotionRate * a = PromotionRate * PromotionMinimum + PromotionRate * e /\ PromotionRate * e >= 0
      BY <3>1, LearnAssumption
    <3> QED BY <3>2, LearnAssumption
  <2>4. PromotionRate * a \in Nat /\ PromotionRate * PromotionMinimum \in Nat  BY <2>2, LearnAssumption
  <2>5. p >= PromotionMinimum  BY <2>2, LearnAssumption
  <2>6. 10 * q >= PromotionRate * PromotionMinimum
    <3> DEFINE u == PromotionRate * a v == PromotionRate * PromotionMinimum
    <3>1. u \in Nat /\ v \in Nat /\ u >= v /\ 10 * b >= u  BY <2>2, <2>3, <2>4
    <3> HIDE DEF u, v
    <3>2. 10 * q >= v  BY <2>2, <3>1
    <3> QED BY <3>2 DEF v
  <2> QED BY <2>5, <2>6 DEF p, q
<1> QED BY <1>7, <1>8, <1>10, <1>11 DEF list

\* Every CanaryPeriod-th ordinal is one slot more.
LEMMA SlotStep ==
  ASSUME NEW n \in Nat, NEW t \in Nat, NEW p \in Nat \ {0}, p * t <= n + p - 1
  PROVE  /\ p * t <= (n + 1) + p - 1
         /\ n % p = 0 => p * (t + 1) <= (n + 1) + p - 1
<1>1. p * t \in Nat  OBVIOUS
<1>2. ASSUME n % p = 0 PROVE p * (t + 1) <= n + p
  <2>1. PICK q \in Nat : n = p * q
    <3>1. n = p * (n \div p)  BY <1>2
    <3>2. n \div p \in Nat  OBVIOUS
    <3> QED BY <3>1, <3>2
  <2>2. t <= q
    <3> SUFFICES ASSUME t >= q + 1 PROVE FALSE  OBVIOUS
    <3>1. PICK e \in Nat : t = q + 1 + e
      <4>1. t - q - 1 \in Nat /\ t = q + 1 + (t - q - 1)  OBVIOUS
      <4> QED BY <4>1
    <3>2. p * t = p * q + p + p * e /\ p * e \in Nat  BY <3>1
    <3> QED BY <2>1, <3>2
  <2>3. PICK e \in Nat : q = t + e
    <3>1. q - t \in Nat /\ q = t + (q - t)  BY <2>2
    <3> QED BY <3>1
  <2>4. p * q = p * t + p * e /\ p * e \in Nat /\ p * (t + 1) = p * t + p  BY <2>3
  <2> QED BY <1>1, <2>1, <2>4
<1>3. p * (t + 1) \in Nat  OBVIOUS
<1> QED BY <1>1, <1>2, <1>3

\* A slot belongs to an ordinal: the share in the form the property states it.
LEMMA ShareOf ==
  ASSUME NEW n \in Nat, NEW t \in Nat, NEW p \in Nat \ {0}, p * t <= n + p - 1
  PROVE  t <= (n + p - 1) \div p
<1> DEFINE m == n + p - 1
           q == m \div p
<1>1. m \in Nat /\ p * t <= m  OBVIOUS
<1> HIDE DEF m
<1>2. q \in Nat  BY <1>1
<1>3. m = p * q + (m % p) /\ m % p \in 0..(p - 1)
  <2>1. m = p * (m \div p) + (m % p)  BY <1>1
  <2>2. m % p \in 0..(p - 1)  BY <1>1
  <2> QED BY <2>1, <2>2
<1> HIDE DEF q
<1>4. t <= q
  <2> SUFFICES ASSUME t >= q + 1 PROVE FALSE  BY <1>2
  <2>1. PICK e \in Nat : t = q + 1 + e
    <3>1. t - q - 1 \in Nat /\ t = q + 1 + (t - q - 1)  BY <1>2
    <3> QED BY <3>1
  <2>2. p * t = p * q + p + p * e /\ p * e \in Nat /\ p * q \in Nat  BY <1>2, <2>1
  <2> QED BY <1>1, <1>3, <2>2
<1> QED BY <1>4 DEF m, q

-----------------------------------------------------------------------------
LEMMA LearnInitially == LearnInit => LearnInv
<1> SUFFICES ASSUME LearnInit PROVE LearnInv  OBVIOUS
<1> USE DEF LearnInit
<1>1. learn \in LearnStates
  <2>1. NoRecord \in LearnRecords  BY DEF NoRecord, LearnRecords
  <2> QED BY <2>1 DEF LearnStates
<1>2. NoSelection \in Selections  BY DEF NoSelection, Selections, Lifecycles
<1>3. LearnType  BY <1>1, <1>2 DEF LearnType
<1>4. ObservedOnce  BY DEF ObservedOnce
<1>5. SlotsBounded  BY LearnAssumption DEF SlotsBounded
<1>6. \A s \in Selectors : SelectionSound(chooser[s], DemotionRequired) /\ chooser[s].step = "idle"
  BY DEF SelectionSound, NoSelection
<1> QED BY <1>3, <1>4, <1>5, <1>6 DEF LearnInv

\* A material event stays where it is, and the question is about one scope: once barred, barred.
LEMMA BarredStays ==
  ASSUME LearnType, DemotionRequired, learn'.scope = learn.scope,
         production' = production \/ \E x \in ProducedOf : production' = Append(production, x)
  PROVE  DemotionRequired'
<1>1. PICK i \in DOMAIN production : production[i].scope = learn.scope /\ production[i].material
  BY DEF DemotionRequired
<1>2. production \in Seq(ProducedOf)  BY DEF LearnType
<1>3. ASSUME NEW x \in ProducedOf, production' = Append(production, x)
      PROVE  i \in DOMAIN production' /\ production'[i] = production[i]
  BY <1>1, <1>2, <1>3
<1>4. i \in DOMAIN production' /\ production'[i] = production[i]
  BY <1>1, <1>3
<1> QED BY <1>1, <1>4 DEF DemotionRequired

\* What no selector does leaves the selections as sound as they were.
LEMMA SelectionsStay ==
  ASSUME LearnInv, chooser' = chooser, learn'.scope = learn.scope, learn'.store = learn.store,
         production' = production \/ \E x \in ProducedOf : production' = Append(production, x)
  PROVE  /\ \A s \in Selectors : SelectionSound(chooser'[s], DemotionRequired')
         /\ learn'.store = "none" => \A s \in Selectors : chooser'[s].step = "idle"
<1>1. DemotionRequired => DemotionRequired'  BY BarredStays DEF LearnInv
<1>2. ASSUME NEW s \in Selectors PROVE SelectionSound(chooser'[s], DemotionRequired')
  <2>1. SelectionSound(chooser[s], DemotionRequired)  BY DEF LearnInv
  <2> QED BY <1>1, <2>1 DEF SelectionSound
<1>3. learn'.store = "none" => \A s \in Selectors : chooser'[s].step = "idle"  BY DEF LearnInv
<1> QED BY <1>2, <1>3

\* One selector moves: the others are as they were.
LEMMA SelectionMoves ==
  ASSUME LearnInv, NEW s \in Selectors, NEW c \in Selections, chooser' = [chooser EXCEPT ![s] = c],
         SelectionSound(c, DemotionRequired'), learn' = learn, production' = production,
         learn.store # "none"
  PROVE  /\ chooser' \in [Selectors -> Selections]
         /\ \A t \in Selectors : SelectionSound(chooser'[t], DemotionRequired')
         /\ learn'.store = "none" => \A t \in Selectors : chooser'[t].step = "idle"
<1>1. chooser \in [Selectors -> Selections]  BY DEF LearnInv, LearnType
<1>2. DemotionRequired' <=> DemotionRequired  BY DEF DemotionRequired
<1>3. ASSUME NEW t \in Selectors PROVE SelectionSound(chooser'[t], DemotionRequired')
  <2>1. CASE t = s
    <3>1. chooser'[t] = c  BY <1>1, <2>1
    <3> QED BY <3>1
  <2>2. CASE t # s
    <3>1. chooser'[t] = chooser[t]  BY <1>1, <2>2
    <3>2. SelectionSound(chooser[t], DemotionRequired)  BY DEF LearnInv
    <3> QED BY <1>2, <3>1, <3>2 DEF SelectionSound
  <2> QED BY <2>1, <2>2
<1> QED BY <1>1, <1>3

LEMMA LearnFields ==
  ASSUME LearnType
  PROVE  /\ learn.store \in {"none"} \union {d[1] : d \in Deployments}
         /\ learn.scope \in {"BALANCED"} \union {d[2] : d \in Deployments}
         /\ learn.ended \in Nat /\ learn.restarts \in Nat
         /\ learn.record \in [LearnRuns -> LearnRecords]
         /\ learn.pending \in ObservationsOf \union {NoObservation}
BY DEF LearnType, LearnStates

LEMMA StartKeeps ==
  ASSUME LearnInv, NEW d \in Deployments, StartLearning(d[1], d[2])
  PROVE  LearnInv'
<1> USE DEF StartLearning
<1>1. LearnType  BY DEF LearnInv
<1>2. learn' \in LearnStates /\ learn'.store = d[1] /\ learn'.scope = d[2]
  BY <1>1, LearnFields DEF LearnType, LearnStates
<1>3. LearnType'  BY <1>1, <1>2 DEF LearnType
<1>4. canary.taken = 0 /\ CanaryPeriod * canary.taken <= canary.next + CanaryPeriod - 1
  BY DEF LearnInv, SlotsBounded, LearnType
<1>5. SlotsBounded'  BY <1>4 DEF SlotsBounded
<1>6. ObservedOnce'  BY DEF LearnInv, ObservedOnce
<1>7. ASSUME NEW s \in Selectors PROVE SelectionSound(chooser[s], DemotionRequired') /\ chooser[s].step = "idle"
  <2>1. SelectionSound(chooser[s], DemotionRequired) /\ chooser[s].step = "idle"  BY DEF LearnInv
  <2> QED BY <2>1 DEF SelectionSound
<1>8. chooser' = chooser  OBVIOUS
<1>9. \A s \in Selectors : SelectionSound(chooser'[s], DemotionRequired') /\ chooser'[s].step = "idle"
  BY <1>7, <1>8
<1> QED BY <1>3, <1>5, <1>6, <1>9 DEF LearnInv

\* Ending, resuming or losing a run, and every save, leave scope, store, slots and selections alone.
LEMMA QuietStep ==
  ASSUME LearnInv, learn' \in LearnStates, learn'.scope = learn.scope, learn'.store = learn.store,
         chooser' = chooser, canary' = canary,
         production' = production \/ \E x \in ProducedOf : production' = Append(production, x),
         \/ observed' = observed
         \/ \E o \in ObservationsOf : Unobserved(o.run) /\ observed' = Append(observed, o)
  PROVE  LearnInv'
<1>1. LearnType /\ ObservedOnce /\ SlotsBounded  BY DEF LearnInv
<1>2. production' \in Seq(ProducedOf)
  <2>1. production \in Seq(ProducedOf)  BY <1>1 DEF LearnType
  <2>2. ASSUME NEW x \in ProducedOf, production' = Append(production, x) PROVE production' \in Seq(ProducedOf)
    BY <2>1, <2>2
  <2> QED BY <2>1, <2>2
<1>3. observed' \in Seq(ObservationsOf) /\ ObservedOnce'
  <2>0. observed \in Seq(ObservationsOf)  BY <1>1 DEF LearnType
  <2>1. CASE observed' = observed  BY <1>1, <2>0, <2>1 DEF ObservedOnce
  <2>2. ASSUME NEW o \in ObservationsOf, Unobserved(o.run), observed' = Append(observed, o)
        PROVE  observed' \in Seq(ObservationsOf) /\ ObservedOnce'
    <3>1. observed' \in Seq(ObservationsOf) /\ Len(observed') = Len(observed) + 1 /\ Len(observed) \in Nat
      BY <2>0, <2>2
    <3>2. observed'[Len(observed) + 1] = o /\ \A i \in 1..Len(observed) : observed'[i] = observed[i]
      BY <2>0, <2>2
    <3>3. DOMAIN observed = 1..Len(observed) /\ DOMAIN observed' = 1..(Len(observed) + 1)
      BY <2>0, <3>1, SMTT(30)
    <3>4. \A i \in 1..Len(observed) : observed[i].run # o.run  BY <2>2, <3>3 DEF Unobserved
    <3>5. ASSUME NEW i \in 1..(Len(observed) + 1), NEW j \in 1..(Len(observed) + 1),
                 observed'[i].run = observed'[j].run
          PROVE  i = j
      <4>1. CASE i \in 1..Len(observed) /\ j \in 1..Len(observed)
        BY <1>1, <3>2, <3>3, <3>5, <4>1 DEF ObservedOnce
      <4>2. CASE i = Len(observed) + 1 /\ j \in 1..Len(observed)  BY <3>2, <3>4, <3>5, <4>2
      <4>3. CASE j = Len(observed) + 1 /\ i \in 1..Len(observed)  BY <3>2, <3>4, <3>5, <4>3
      <4>4. CASE i = Len(observed) + 1 /\ j = Len(observed) + 1  BY <4>4
      <4> QED BY <3>1, <4>1, <4>2, <4>3, <4>4
    <3> QED BY <3>1, <3>3, <3>5 DEF ObservedOnce
  <2> QED BY <2>1, <2>2
<1>4. LearnType'  BY <1>1, <1>2, <1>3 DEF LearnType
<1>5. SlotsBounded'  BY <1>1 DEF SlotsBounded
<1>6. /\ \A s \in Selectors : SelectionSound(chooser'[s], DemotionRequired')
      /\ learn'.store = "none" => \A s \in Selectors : chooser'[s].step = "idle"
  BY SelectionsStay
<1> QED BY <1>3, <1>4, <1>5, <1>6 DEF LearnInv

LEMMA EndRunKeeps ==
  ASSUME LearnInv, NEW r \in LearnRuns, NEW ending \in RunEndings, EndRun(r, ending)
  PROVE  LearnInv'
<1>1. LearnType  BY DEF LearnInv
<1>2. r \in Nat  BY LearnAssumption
<1> DEFINE o == Observation(r, learn.record[r].candidate + 1, ending)
           k == [state |-> IF ending.verified THEN "COMPLETED" ELSE "FAILED",
                 candidate |-> learn.record[r].candidate + 1, ending |-> ending]
           e == IF r > learn.ended THEN r ELSE learn.ended
<1>3. learn' = [learn EXCEPT !.ended = e, !.record = [learn.record EXCEPT ![r] = k], !.pending = o]
  BY <1>1 DEF EndRun, LearnType, LearnStates
<1>4. learn.record[r].candidate + 1 \in Nat  BY <1>1, LearnFields DEF LearnRecords
<1>5. o \in ObservationsOf  BY <1>4 DEF ObservationsOf
<1>6. k \in LearnRecords  BY <1>4 DEF LearnRecords
<1>7. e \in Nat  BY <1>1, <1>2, LearnFields
<1> HIDE DEF o, k, e
<1>8. [learn.record EXCEPT ![r] = k] \in [LearnRuns -> LearnRecords]  BY <1>1, <1>6, LearnFields
<1> DEFINE rec == [learn.record EXCEPT ![r] = k]
<1> HIDE DEF rec
<1>9. learn' \in LearnStates /\ learn'.scope = learn.scope /\ learn'.store = learn.store
  <2>1. learn' = [learn EXCEPT !.ended = e, !.record = rec, !.pending = o]  BY <1>3 DEF rec
  <2>2. rec \in [LearnRuns -> LearnRecords]  BY <1>8 DEF rec
  <2> QED BY <1>1, <1>5, <1>7, <2>1, <2>2 DEF LearnType, LearnStates
<1> QED BY <1>9, QuietStep DEF EndRun

LEMMA RestartKeeps ==
  ASSUME LearnInv, RestartLearning
  PROVE  LearnInv'
<1> DEFINE more == learn.restarts + 1
<1>1. LearnType  BY DEF LearnInv
<1>0. more \in Nat  BY <1>1, LearnFields
<1> HIDE DEF more
<1>2. learn' \in LearnStates /\ learn'.scope = learn.scope /\ learn'.store = learn.store
  <2>1. CASE learn' = [learn EXCEPT !.pending = NoObservation, !.restarts = @ + 1]
    <3>1. learn' = [learn EXCEPT !.pending = NoObservation, !.restarts = more]  BY <2>1 DEF more
    <3> QED BY <1>1, <1>0, <3>1 DEF LearnType, LearnStates
  <2>2. ASSUME NEW r \in LearnRuns, learn' = [learn EXCEPT !.record[r].state = "RUNNING", !.restarts = @ + 1]
        PROVE  learn' \in LearnStates /\ learn'.scope = learn.scope /\ learn'.store = learn.store
    <3> DEFINE rec == [learn.record EXCEPT ![r].state = "RUNNING"]
    <3>1. learn.record \in [LearnRuns -> LearnRecords]  BY <1>1, LearnFields
    <3>2. rec \in [LearnRuns -> LearnRecords]
      <4>1. learn.record[r] \in LearnRecords  BY <3>1
      <4>2. [learn.record[r] EXCEPT !.state = "RUNNING"] \in LearnRecords  BY <4>1 DEF LearnRecords
      <4> QED BY <3>1, <4>2
    <3>3. learn' = [learn EXCEPT !.record = rec, !.restarts = more]  BY <1>1, <2>2 DEF LearnType, LearnStates, more
    <3> HIDE DEF rec
    <3> QED BY <1>1, <1>0, <3>2, <3>3 DEF LearnType, LearnStates
  <2> QED BY <2>1, <2>2 DEF RestartLearning
<1> QED BY <1>2, QuietStep DEF RestartLearning

\* Both stores append what is bound to its run and has not been observed before.
LEMMA SaveKeeps ==
  ASSUME LearnInv, AppendObservation \/ InsertObservation
  PROVE  LearnInv'
<1>1. LearnType  BY DEF LearnInv
<1>2. learn.pending # NoObservation /\ learn.pending \in ObservationsOf
  BY <1>1, LearnFields DEF AppendObservation, InsertObservation, SaveInMemory
<1>3. \/ observed' = observed
      \/ Unobserved(learn.pending.run) /\ observed' = Append(observed, learn.pending)
  BY DEF AppendObservation, InsertObservation, SaveInMemory
<1>4. learn' \in LearnStates /\ learn'.scope = learn.scope /\ learn'.store = learn.store
  BY <1>1 DEF AppendObservation, InsertObservation, SaveInMemory, LearnType, LearnStates
<1>5. chooser' = chooser /\ canary' = canary /\ production' = production
  BY DEF AppendObservation, InsertObservation, SaveInMemory
<1> QED BY <1>2, <1>3, <1>4, <1>5, QuietStep

LEMMA FeedbackKeeps ==
  ASSUME LearnInv, NEW e \in DOMAIN FeedbackEvents, CollectProductionEvent(e) \/ RefuseProductionEvent(e)
  PROVE  LearnInv'
<1>1. LearnType  BY DEF LearnInv
<1>2. CASE RefuseProductionEvent(e)
  BY <1>1, <1>2, QuietStep DEF RefuseProductionEvent, learnVars, LearnType
<1>3. CASE CollectProductionEvent(e)
  <2> DEFINE kept == {i \in DOMAIN observed : observed[i].run = FeedbackEvents[e].run}
             k == CHOOSE i \in kept : TRUE
             x == [event |-> e, material |-> FeedbackEvents[e].material, scope |-> observed[k].scope]
  <2>1. kept # {} /\ production' = Append(production, x)
        /\ learn' = learn /\ observed' = observed /\ canary' = canary /\ chooser' = chooser
    BY <1>3 DEF CollectProductionEvent
  <2>2. k \in kept  BY <2>1
  <2>3. observed[k] \in ObservationsOf
    <3>1. k \in DOMAIN observed  BY <2>2
    <3> HIDE DEF k
    <3> QED BY <1>1, <3>1 DEF LearnType
  <2> HIDE DEF k
  <2>4. x \in ProducedOf  BY <2>3 DEF ProducedOf
  <2> HIDE DEF x
  <2>5. learn' \in LearnStates  BY <1>1, <2>1 DEF LearnType
  <2> QED BY <2>1, <2>4, <2>5, QuietStep
<1> QED BY <1>2, <1>3

LEMMA ReadKeeps ==
  ASSUME LearnInv, NEW s \in Selectors, NEW view \in BOOLEAN, ReadObservations(s, view)
  PROVE  LearnInv'
<1> DEFINE list == Listed(observed)
           failedList == \E i \in Here : i > Len(observed) - ListLimit /\ observed[i].assurance = "FAIL"
           runs == Cardinality({observed[i].run : i \in Here})
           verified == Cardinality({observed[i].run : i \in VerifiedHere})
           c == [step |-> "observed", view |-> view, lifecycle |-> Lifecycle(list), chosen |-> "none", by |-> "none",
                 failedBefore |-> failedList \/ DemotionRequired, runsBefore |-> runs, verifiedBefore |-> verified]
<1>1. LearnType /\ ObservedOnce /\ SlotsBounded  BY DEF LearnInv
<1>2. /\ chooser' = [chooser EXCEPT ![s] = c] /\ learn.store # "none"
      /\ learn' = learn /\ observed' = observed /\ production' = production /\ canary' = canary
  BY DEF ReadObservations, ListObservationsInMemory, ListObservations, Here, VerifiedHere, DemotionRequired
<1>3. /\ failedList => Lifecycle(list) = "DEMOTED"
      /\ runs \in Nat /\ verified \in Nat
      /\ Lifecycle(list) = "PROMOTED" => /\ runs >= PromotionMinimum
                                         /\ 10 * verified >= PromotionRate * PromotionMinimum
  BY <1>1, ReadIsSound
<1>4. Lifecycle(list) \in Lifecycles  BY PromotedPromotes
<1>5. (failedList \/ DemotionRequired) \in BOOLEAN  OBVIOUS
<1> DEFINE life == Lifecycle(list)
           failed == failedList \/ DemotionRequired
<1>6. failed => life = "DEMOTED" \/ DemotionRequired  BY <1>3
<1>7. /\ c = [step |-> "observed", view |-> view, lifecycle |-> life, chosen |-> "none", by |-> "none",
               failedBefore |-> failed, runsBefore |-> runs, verifiedBefore |-> verified]
      /\ life \in Lifecycles /\ failed \in BOOLEAN /\ runs \in Nat /\ verified \in Nat
      /\ life = "PROMOTED" => /\ runs >= PromotionMinimum
                              /\ 10 * verified >= PromotionRate * PromotionMinimum
  BY <1>3, <1>4
<1> HIDE DEF life, failed, failedList, runs, verified, list, c
<1>8. c \in Selections  BY <1>7 DEF Selections
<1>9. DemotionRequired' <=> DemotionRequired  BY <1>2 DEF DemotionRequired
<1>10. SelectionSound(c, DemotionRequired')  BY <1>6, <1>7, <1>9 DEF SelectionSound, Earned
<1>11. /\ chooser' \in [Selectors -> Selections]
       /\ \A t \in Selectors : SelectionSound(chooser'[t], DemotionRequired')
       /\ learn'.store = "none" => \A t \in Selectors : chooser'[t].step = "idle"
  BY <1>2, <1>8, <1>10, SelectionMoves
<1>12. LearnType' /\ ObservedOnce' /\ SlotsBounded'
  BY <1>1, <1>2, <1>11 DEF LearnType, ObservedOnce, SlotsBounded
<1> QED BY <1>11, <1>12 DEF LearnInv

\* What is decided, by the case selectStrategy is in.
LEMMA SelectedBy ==
  ASSUME NEW life \in Lifecycles, NEW n \in Nat
  PROVE  /\ Selected(life, n) \in {"promotion", "slot", "native"}
         /\ Selected(life, n) = "promotion" => life = "PROMOTED"
         /\ Selected(life, n) = "slot" => life = "CANARY" /\ learn.scope # "CRITICAL" /\ n % CanaryPeriod = 0
<1>1. CASE life = "PROMOTED"  BY <1>1 DEF Selected
<1>2. CASE life = "CANARY" /\ learn.scope # "CRITICAL" /\ n % CanaryPeriod = 0  BY <1>2 DEF Selected
<1>3. CASE life # "PROMOTED" /\ ~(life = "CANARY" /\ learn.scope # "CRITICAL" /\ n % CanaryPeriod = 0)
  <2>1. Selected(life, n) = "native"  BY <1>3, Zenon DEF Selected
  <2> QED BY <2>1
<1> QED BY <1>1, <1>2, <1>3

\* A decision that is justified by what the selection c has in hand.
LEMMA DecisionSound ==
  ASSUME LearnInv, NEW s \in Selectors, NEW by \in {"promotion", "slot", "native"}, Decide(s, by),
         by # "native" => ~chooser[s].failedBefore,
         by = "promotion" => Earned(chooser[s]),
         learn' = learn, observed' = observed, production' = production, learn.store # "none"
  PROVE  /\ chooser' \in [Selectors -> Selections]
         /\ \A t \in Selectors : SelectionSound(chooser'[t], DemotionRequired')
         /\ learn'.store = "none" => \A t \in Selectors : chooser'[t].step = "idle"
<1> DEFINE c == [chooser[s] EXCEPT !.step = "decided", !.by = by,
                                   !.chosen = IF by = "native" THEN "native" ELSE "challenger"]
<1>1. chooser \in [Selectors -> Selections] /\ chooser[s] \in Selections  BY DEF LearnInv, LearnType
<1>2. chooser' = [chooser EXCEPT ![s] = c]  BY <1>1 DEF Decide
<1>3. c \in Selections  BY <1>1 DEF Selections
<1>4. /\ c.step = "decided" /\ c.by = by /\ c.chosen = (IF by = "native" THEN "native" ELSE "challenger")
      /\ c.failedBefore = chooser[s].failedBefore /\ c.runsBefore = chooser[s].runsBefore
      /\ c.verifiedBefore = chooser[s].verifiedBefore
  BY <1>1 DEF Selections
<1> HIDE DEF c
<1>5. SelectionSound(c, DemotionRequired')  BY <1>4 DEF SelectionSound, Earned
<1> QED BY <1>2, <1>3, <1>5, SelectionMoves

LEMMA ReadFeedbackKeeps ==
  ASSUME LearnInv, NEW s \in Selectors, ReadFeedback(s)
  PROVE  LearnInv'
<1>1. LearnType /\ ObservedOnce /\ SlotsBounded  BY DEF LearnInv
<1>2. chooser \in [Selectors -> Selections] /\ chooser[s] \in Selections  BY <1>1 DEF LearnType
<1>3. chooser[s].step = "observed" /\ SelectionSound(chooser[s], DemotionRequired)
  BY DEF LearnInv, ReadFeedback
<1>4. learn.store # "none"  BY <1>3 DEF LearnInv
<1>5. learn' = learn /\ observed' = observed /\ production' = production /\ canary' = canary
  BY DEF ReadFeedback
<1>6. /\ chooser' \in [Selectors -> Selections]
      /\ \A t \in Selectors : SelectionSound(chooser'[t], DemotionRequired')
      /\ learn'.store = "none" => \A t \in Selectors : chooser'[t].step = "idle"
  <2>1. CASE DemotionRequired /\ Decide(s, "native")
    BY <1>4, <1>5, <2>1, DecisionSound
  <2>2. CASE ~DemotionRequired /\ chooser[s].lifecycle # "CANARY" /\ Decide(s, Selected(chooser[s].lifecycle, 1))
    <3> DEFINE by == Selected(chooser[s].lifecycle, 1)
    <3>1. chooser[s].lifecycle \in Lifecycles  BY <1>2 DEF Selections
    <3>2. by \in {"promotion", "slot", "native"} /\ (by = "promotion" => chooser[s].lifecycle = "PROMOTED") /\ by # "slot"
      BY <2>2, <3>1, SelectedBy
    <3>3. Decide(s, by)  BY <2>2
    <3> HIDE DEF by
    <3>4. by # "native" => ~chooser[s].failedBefore  BY <1>3, <2>2, <3>2 DEF SelectionSound
    <3>5. by = "promotion" => Earned(chooser[s])  BY <1>3, <3>2 DEF SelectionSound
    <3> QED BY <1>4, <1>5, <3>2, <3>3, <3>4, <3>5, DecisionSound
  <2>3. CASE ~DemotionRequired /\ chooser[s].lifecycle = "CANARY" /\ chooser' = [chooser EXCEPT ![s].step = "ordinal"]
    <3> DEFINE c == [chooser[s] EXCEPT !.step = "ordinal"]
    <3>1. chooser' = [chooser EXCEPT ![s] = c] /\ c \in Selections  BY <1>2, <2>3 DEF Selections
    <3>2. /\ c.step = "ordinal" /\ c.by = chooser[s].by /\ c.chosen = chooser[s].chosen
          /\ c.failedBefore = chooser[s].failedBefore /\ c.lifecycle = "CANARY"
      BY <1>2, <2>3 DEF Selections
    <3> HIDE DEF c
    <3>3. SelectionSound(c, DemotionRequired')  BY <1>3, <2>3, <3>2 DEF SelectionSound
    <3> QED BY <1>4, <1>5, <3>1, <3>3, SelectionMoves
  <2> QED BY <2>1, <2>2, <2>3 DEF ReadFeedback
<1>7. LearnType' /\ ObservedOnce' /\ SlotsBounded'
  BY <1>1, <1>5, <1>6 DEF LearnType, ObservedOnce, SlotsBounded
<1> QED BY <1>6, <1>7 DEF LearnInv

LEMMA ShowKeeps ==
  ASSUME LearnInv, NEW s \in Selectors, ShowAssessment(s)
  PROVE  LearnInv'
<1> DEFINE life == IF DemotionRequired THEN "DEMOTED" ELSE chooser[s].lifecycle
           c == [chooser[s] EXCEPT !.step = "decided", !.lifecycle = life]
<1>1. LearnType /\ ObservedOnce /\ SlotsBounded  BY DEF LearnInv
<1>2. chooser \in [Selectors -> Selections] /\ chooser[s] \in Selections  BY <1>1 DEF LearnType
<1>3. chooser[s].step = "observed" /\ SelectionSound(chooser[s], DemotionRequired) /\ learn.store # "none"
  BY DEF LearnInv, ShowAssessment
<1>4. learn' = learn /\ observed' = observed /\ production' = production /\ canary' = canary
  BY DEF ShowAssessment
<1>5. life \in Lifecycles  BY <1>2 DEF Selections, Lifecycles
<1>6. chooser' = [chooser EXCEPT ![s] = c]  BY <1>2 DEF ShowAssessment
<1> HIDE DEF life
<1>7. c \in Selections /\ c.step = "decided" /\ c.chosen = chooser[s].chosen /\ c.by = chooser[s].by
  BY <1>2, <1>5 DEF Selections
<1> HIDE DEF c
<1>8. SelectionSound(c, DemotionRequired')  BY <1>3, <1>7 DEF SelectionSound
<1>9. /\ chooser' \in [Selectors -> Selections]
      /\ \A t \in Selectors : SelectionSound(chooser'[t], DemotionRequired')
      /\ learn'.store = "none" => \A t \in Selectors : chooser'[t].step = "idle"
  BY <1>3, <1>4, <1>6, <1>7, <1>8, SelectionMoves
<1>10. LearnType' /\ ObservedOnce' /\ SlotsBounded'
  BY <1>1, <1>4, <1>9 DEF LearnType, ObservedOnce, SlotsBounded
<1> QED BY <1>9, <1>10 DEF LearnInv

LEMMA OrdinalKeeps ==
  ASSUME LearnInv, NEW s \in Selectors, AllocateOrdinal(s)
  PROVE  LearnInv'
<1> DEFINE by == Selected(chooser[s].lifecycle, canary.next)
<1>1. LearnType /\ ObservedOnce /\ SlotsBounded  BY DEF LearnInv
<1>2. chooser \in [Selectors -> Selections] /\ chooser[s] \in Selections  BY <1>1 DEF LearnType
<1>3. /\ chooser[s].step = "ordinal" /\ Decide(s, by)
      /\ canary' = [canary EXCEPT !.next = @ + 1, !.taken = @ + (IF by = "slot" THEN 1 ELSE 0)]
      /\ learn' = learn /\ observed' = observed /\ production' = production
  BY DEF AllocateOrdinal, TakeOrdinal
<1>4. SelectionSound(chooser[s], DemotionRequired) /\ learn.store # "none"  BY <1>3 DEF LearnInv
<1>5. chooser[s].lifecycle = "CANARY" /\ ~chooser[s].failedBefore  BY <1>3, <1>4 DEF SelectionSound
<1>6. canary \in [next : Nat, taken : Nat] /\ canary.next \in Nat /\ canary.taken \in Nat  BY <1>1 DEF LearnType
<1>7. by \in {"promotion", "slot", "native"} /\ by # "promotion"
      /\ (by = "slot" => learn.scope # "CRITICAL" /\ canary.next % CanaryPeriod = 0)
  BY <1>5, <1>6, SelectedBy DEF Lifecycles
<1> HIDE DEF by
<1>8. /\ chooser' \in [Selectors -> Selections]
      /\ \A t \in Selectors : SelectionSound(chooser'[t], DemotionRequired')
      /\ learn'.store = "none" => \A t \in Selectors : chooser'[t].step = "idle"
  BY <1>3, <1>4, <1>5, <1>7, DecisionSound
<1>9. /\ canary' \in [next : Nat, taken : Nat] /\ canary'.next = canary.next + 1
      /\ canary'.taken = canary.taken + (IF by = "slot" THEN 1 ELSE 0)
  <2> DEFINE t == canary.taken + (IF by = "slot" THEN 1 ELSE 0)
             n == canary.next + 1
  <2>1. t \in Nat /\ n \in Nat  BY <1>6
  <2>2. canary' = [canary EXCEPT !.next = n, !.taken = t]  BY <1>3
  <2> HIDE DEF t, n
  <2>3. canary' \in [next : Nat, taken : Nat] /\ canary'.next = n /\ canary'.taken = t  BY <1>6, <2>1, <2>2
  <2> QED BY <2>3 DEF t, n
<1>10. SlotsBounded'
  <2>1. CanaryPeriod * canary.taken <= canary.next + CanaryPeriod - 1  BY <1>1 DEF SlotsBounded
  <2>2. /\ CanaryPeriod * canary.taken <= (canary.next + 1) + CanaryPeriod - 1
        /\ canary.next % CanaryPeriod = 0 => CanaryPeriod * (canary.taken + 1) <= (canary.next + 1) + CanaryPeriod - 1
    BY <1>6, <2>1, SlotStep, LearnAssumption
  <2>3. CASE by = "slot"
    <3>1. canary'.taken = canary.taken + 1  BY <1>6, <1>9, <2>3
    <3> QED BY <1>3, <1>4, <1>7, <1>9, <2>2, <2>3, <3>1 DEF SlotsBounded
  <2>4. CASE by # "slot"
    <3>1. canary'.taken = canary.taken  BY <1>6, <1>9, <2>4
    <3> QED BY <1>1, <1>3, <1>9, <2>2, <3>1 DEF SlotsBounded
  <2> QED BY <2>3, <2>4
<1>11. LearnType' /\ ObservedOnce'
  BY <1>1, <1>3, <1>8, <1>9 DEF LearnType, ObservedOnce
<1> QED BY <1>8, <1>10, <1>11 DEF LearnInv

LEMMA LearnStep == LearnInv /\ [LearnNext]_learnVars => LearnInv'
<1> SUFFICES ASSUME LearnInv, [LearnNext]_learnVars PROVE LearnInv'  OBVIOUS
<1>1. CASE UNCHANGED learnVars
  <2>1. LearnType  BY DEF LearnInv
  <2> QED BY <1>1, <2>1, QuietStep DEF learnVars, LearnType
<1>2. ASSUME NEW d \in Deployments, StartLearning(d[1], d[2]) PROVE LearnInv'  BY <1>2, StartKeeps
<1>3. ASSUME NEW r \in LearnRuns, NEW ending \in RunEndings, EndRun(r, ending) PROVE LearnInv'  BY <1>3, EndRunKeeps
<1>4. CASE RestartLearning  BY <1>4, RestartKeeps
<1>5. CASE AppendObservation \/ InsertObservation  BY <1>5, SaveKeeps
<1>6. ASSUME NEW e \in DOMAIN FeedbackEvents, CollectProductionEvent(e) \/ RefuseProductionEvent(e) PROVE LearnInv'
  BY <1>6, FeedbackKeeps
<1>7. ASSUME NEW s \in Selectors, NEW view \in BOOLEAN, ReadObservations(s, view) PROVE LearnInv'  BY <1>7, ReadKeeps
<1>8. ASSUME NEW s \in Selectors, ReadFeedback(s) PROVE LearnInv'  BY <1>8, ReadFeedbackKeeps
<1>9. ASSUME NEW s \in Selectors, ShowAssessment(s) PROVE LearnInv'  BY <1>9, ShowKeeps
<1>10. ASSUME NEW s \in Selectors, AllocateOrdinal(s) PROVE LearnInv'  BY <1>10, OrdinalKeeps
<1> QED BY <1>1, <1>2, <1>3, <1>4, <1>5, <1>6, <1>7, <1>8, <1>9, <1>10 DEF LearnNext

LEMMA LearnInvSays == LearnInv => LearningIsEarned
<1> SUFFICES ASSUME LearnInv PROVE LearningIsEarned  OBVIOUS
<1>1. LearnType /\ SlotsBounded  BY DEF LearnInv
<1>0. ASSUME NEW s \in Selectors
      PROVE  /\ chooser[s].chosen = "challenger" => ~chooser[s].failedBefore
             /\ chooser[s].by = "promotion" => Earned(chooser[s])
  <2>1. SelectionSound(chooser[s], DemotionRequired)  BY DEF LearnInv
  <2> QED BY <2>1 DEF SelectionSound
<1>2. canary.next \in Nat /\ canary.taken \in Nat  BY <1>1 DEF LearnType
<1>3. canary.taken <= (canary.next + CanaryPeriod - 1) \div CanaryPeriod
  BY <1>1, <1>2, ShareOf, LearnAssumption DEF SlotsBounded
<1>4. CanaryShareBounded  BY <1>1, <1>3 DEF CanaryShareBounded, SlotsBounded
<1>5. BarredNeverChosen  BY <1>0 DEF BarredNeverChosen
<1>6. PromotionEarned  BY <1>0 DEF PromotionEarned, Earned
<1> QED BY <1>4, <1>5, <1>6 DEF LearningIsEarned

\* A challenger strategy runs only when it has earned it: for any number of runs, endings, selectors
\* and feedback events, and any thresholds of StrategyPolicy, the canary share of
\* allocateStrategyCanaryOrdinal is at most one in CanaryPeriod and none of it critical, no
\* selection that began after a stored failure chooses the challenger, and a promotion rests on
\* enough different runs.
THEOREM Learning == LearnSpec => []LearningIsEarned
<1>1. LearnSpec => []LearnInv
  BY LearnInitially, LearnStep, PTL DEF LearnSpec
<1> QED BY <1>1, LearnInvSays, PTL
=============================================================================
