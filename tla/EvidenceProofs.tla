---------------------------- MODULE EvidenceProofs ----------------------------
(***************************************************************************)
(* Proofs about the evidence a verdict rests on: what a run records about  *)
(* the repository, for any runs, files and versions; what the capability   *)
(* providers answer, for any providers, answers and tools; the gate        *)
(* between an agent's worktree and the verdict, for any number of files,   *)
(* any tasks and anyone writing to the worktree at any time; the trust     *)
(* state derived from it, for any findings, evidence and verdicts; the     *)
(* external scanners, for any targets, documents and writers; and the      *)
(* performance and resilience postures, for any lines, samples and         *)
(* thresholds.                                                             *)
(***************************************************************************)
EXTENDS RepositoryKnowledge, CapabilityRun, CandidateGate, TrustFold, ScannerRun, Postures,
        FiniteSetTheorems, SequenceTheorems, WellFoundedInduction, TLAPS

-----------------------------------------------------------------------------
(* RepositoryKnowledge. *)

Trees == [SourceFiles -> 0..MaxVersion]
Snapshots == [revision : Nat, files : SUBSET SourceFiles, digest : Trees]

KnowTypeOK ==
  /\ revision \in Nat /\ baseTree \in Trees
  /\ worktree \in [Runs -> Trees]
  /\ snapshot \in [Runs -> Snapshots]
  /\ lookedAt \in [Runs -> SUBSET SourceFiles]

\* A snapshot records of a file that was looked at what the worktree holds, or the
\* file is one that cannot be read; and it records nothing of a file it does not list.
SnapshotsRead ==
  \A r \in Runs, f \in SourceFiles :
    /\ f \in lookedAt[r] => worktree[r][f] \in {0, Large} \/ snapshot[r].digest[f] = worktree[r][f]
    /\ snapshot[r].digest[f] # 0 => f \in snapshot[r].files

\* Compiled claims on one subject never say different things, so none is ever conflicted.
OnlyActiveOrStale == \A c \in DOMAIN brain : brain[c] \in {"ACTIVE", "STALE"}

\* What was just written is active in the brain and was made from the writer's snapshot.
PersistedFrom ==
  justPersisted.claims # {} =>
    /\ justPersisted.run \in Runs
    /\ \E sel \in SUBSET SourceFiles : justPersisted.claims = ClaimsOf(snapshot[justPersisted.run], sel)
    /\ \A c \in justPersisted.claims : c \in DOMAIN brain /\ brain[c] = "ACTIVE"

KnowInv == KnowTypeOK /\ SnapshotsRead /\ OnlyActiveOrStale /\ PersistedFrom

-----------------------------------------------------------------------------
\* indexScope replaces the digests of the files it can read, keeps the others, and
\* lists every file it recorded.
LEMMA IndexScopeReads ==
  ASSUME NEW s \in Snapshots, NEW tree \in Trees, NEW asked \in SUBSET SourceFiles
  PROVE  /\ IndexScope(s, tree, asked) \in Snapshots
         /\ IndexScope(s, tree, asked).files = s.files \cup {f \in asked : tree[f] # 0}
         /\ \A f \in SourceFiles :
              IndexScope(s, tree, asked).digest[f]
                = IF f \in asked /\ tree[f] # 0 /\ tree[f] # Large THEN tree[f] ELSE s.digest[f]
<1> DEFINE files == s.files \cup {f \in asked : tree[f] # 0}
           digest == [f \in SourceFiles |-> IF f \in {g \in asked : tree[g] # 0 /\ tree[g] # Large}
                                            THEN tree[f] ELSE s.digest[f]]
           listed == [s EXCEPT !.files = files]
<1>1. files \in SUBSET SourceFiles /\ digest \in Trees  BY DEF Snapshots, Trees
<1>2. \A f \in SourceFiles :
        digest[f] = IF f \in asked /\ tree[f] # 0 /\ tree[f] # Large THEN tree[f] ELSE s.digest[f]
  OBVIOUS
<1>3. IndexScope(s, tree, asked) = [listed EXCEPT !.digest = digest]
  BY DEF IndexScope, Snapshots
<1> HIDE DEF files, digest
<1>4. listed \in Snapshots /\ listed.files = files  BY <1>1 DEF Snapshots
<1> HIDE DEF listed
<1>5. /\ IndexScope(s, tree, asked) \in Snapshots
      /\ IndexScope(s, tree, asked).files = files
      /\ IndexScope(s, tree, asked).digest = digest
  BY <1>1, <1>3, <1>4 DEF Snapshots
<1> QED BY <1>2, <1>5 DEF files

\* A snapshot that was indexed over a run's tree describes it, at the files asked for
\* and at those it described before.
LEMMA IndexedDescribes ==
  ASSUME NEW s \in Snapshots, NEW tree \in Trees, NEW asked \in SUBSET SourceFiles,
         NEW looked \in SUBSET SourceFiles,
         \A f \in SourceFiles : /\ f \in looked => tree[f] \in {0, Large} \/ s.digest[f] = tree[f]
                                /\ s.digest[f] # 0 => f \in s.files
  PROVE  \A f \in SourceFiles :
           /\ f \in looked \cup asked =>
                tree[f] \in {0, Large} \/ IndexScope(s, tree, asked).digest[f] = tree[f]
           /\ IndexScope(s, tree, asked).digest[f] # 0 => f \in IndexScope(s, tree, asked).files
BY IndexScopeReads

\* Claims on one subject are about the same files: classification finds no conflict.
LEMMA NeverConflicting ==
  ASSUME NEW c, NEW b, NEW s, NEW read
  PROVE  ~Conflicting(c, b, s, read) /\ Classify(c, b, s, read) = StateFromBindings(c, b, s)
BY DEF Conflicting, Classify, Subject

\* A stored status that is active or stale stays so under reconciliation.
LEMMA ReconcileKeeps ==
  ASSUME OnlyActiveOrStale, NEW s, NEW read
  PROVE  \A c \in DOMAIN ReconcileStaleness(brain, s, read) :
           ReconcileStaleness(brain, s, read)[c] \in {"ACTIVE", "STALE"}
<1> SUFFICES ASSUME NEW c \in DOMAIN brain
             PROVE  ReconcileStaleness(brain, s, read)[c] \in {"ACTIVE", "STALE"}
  BY DEF ReconcileStaleness
<1>1. brain[c] \in {"ACTIVE", "STALE"}  BY DEF OnlyActiveOrStale
<1>2. StateFromBindings(c, brain, s) # "CONFLICTED"
  BY <1>1 DEF StateFromBindings
<1>3. StatusReconciled(c, brain, s, read) \in {"ACTIVE", "STALE"}
  BY <1>1, <1>2, NeverConflicting DEF StatusReconciled
<1> QED BY <1>1, <1>3 DEF ReconcileStaleness

\* Every claim of a snapshot can be normalised, is bound to its digests, and, when it
\* is stored active, is current for it.
LEMMA ClaimsAreCurrent ==
  ASSUME NEW s \in Snapshots, NEW sel \in SUBSET SourceFiles, NEW c \in ClaimsOf(s, sel),
         \A f \in SourceFiles : s.digest[f] # 0 => f \in s.files
  PROVE  /\ Normalizes(c)
         /\ \A b : b[c] = "ACTIVE" => StateFromBindings(c, b, s) = "CURRENT"
<1> DEFINE eligible == {f \in sel : s.digest[f] # 0}
<1>1. CASE \E f \in eligible : c = EvidenceClaim(s, f)
  <2>1. PICK f \in eligible : c = EvidenceClaim(s, f)  BY <1>1
  <2>2. /\ c.kind = "EVIDENCE" /\ c.files = {f} /\ c.members = {} /\ c.digest = [g \in {f} |-> s.digest[f]]
    BY <2>1 DEF EvidenceClaim
  <2>3. c.digest[f] = s.digest[f] /\ s.digest[f] # 0  BY <2>2
  <2> QED BY <2>2, <2>3 DEF Normalizes, StateFromBindings
<1>2. CASE eligible # {} /\ c = FactClaim(s, eligible)
  <2>1. /\ c.files = eligible /\ c.members = s.files /\ c.digest = [g \in eligible |-> s.digest[g]]
        /\ c.evidence = {EvidenceClaim(s, f) : f \in eligible}
    BY <1>2 DEF FactClaim, Membership
  <2>2. PICK f \in eligible : TRUE  BY <1>2
  <2>3. f \in s.files /\ s.files # {}  BY <2>2
  <2>4. \A g \in c.files : c.digest[g] = s.digest[g] /\ s.digest[g] # 0  BY <2>1
  <2>5. c.evidence # {}  BY <2>1, <2>2
  <2> HIDE DEF eligible
  <2> QED BY <2>1, <2>3, <2>4, <2>5 DEF Normalizes, StateFromBindings, Membership
<1>3. c \in {EvidenceClaim(s, f) : f \in eligible} \/ (eligible # {} /\ c = FactClaim(s, eligible))
  BY DEF ClaimsOf
<1> QED BY <1>1, <1>2, <1>3

\* Every step keeps the invariant.
LEMMA KnowStep == KnowInv /\ [KnowNext]_knowVars => KnowInv'
<1> SUFFICES ASSUME KnowInv, [KnowNext]_knowVars PROVE KnowInv'
  OBVIOUS
<1>0. /\ revision \in Nat /\ baseTree \in Trees /\ worktree \in [Runs -> Trees]
      /\ snapshot \in [Runs -> Snapshots] /\ lookedAt \in [Runs -> SUBSET SourceFiles]
      /\ SnapshotsRead /\ OnlyActiveOrStale
  BY DEF KnowInv, KnowTypeOK
<1>1. CASE UNCHANGED knowVars
  BY <1>1 DEF knowVars, KnowInv, KnowTypeOK, SnapshotsRead, OnlyActiveOrStale, PersistedFrom
<1>2. ASSUME NEW r \in Writers, Deliver(r) PROVE KnowInv'
  <2>1. /\ revision' = revision + 1 /\ baseTree' = worktree[r] /\ justPersisted' = NoPersist
        /\ UNCHANGED <<worktree, snapshot, brain, lookedAt>>
    BY <1>2 DEF Deliver
  <2>2. worktree[r] \in Trees /\ revision + 1 \in Nat  BY <1>0, KnowAssumption
  <2>3. KnowTypeOK' /\ SnapshotsRead' /\ OnlyActiveOrStale'
    BY <1>0, <2>1, <2>2 DEF KnowTypeOK, SnapshotsRead, OnlyActiveOrStale
  <2> QED BY <2>1, <2>3 DEF KnowInv, PersistedFrom, NoPersist
<1>3. ASSUME NEW r \in Writers, NEW f \in SourceFiles, NEW v \in 0..MaxVersion, WriteFile(r, f, v)
      PROVE  KnowInv'
  <2>1. /\ worktree' = [worktree EXCEPT ![r] = [worktree[r] EXCEPT ![f] = v]]
        /\ lookedAt' = [lookedAt EXCEPT ![r] = lookedAt[r] \ {f}] /\ justPersisted' = NoPersist
        /\ UNCHANGED <<baseTree, revision, snapshot, brain>>
    BY <1>3 DEF WriteFile
  <2>2. r \in Runs /\ [worktree[r] EXCEPT ![f] = v] \in Trees
    BY <1>0, KnowAssumption DEF Trees
  <2>3. KnowTypeOK' /\ OnlyActiveOrStale'
    BY <1>0, <2>1, <2>2 DEF KnowTypeOK, OnlyActiveOrStale
  <2>4. SnapshotsRead'
    <3> SUFFICES ASSUME NEW q \in Runs, NEW g \in SourceFiles
                 PROVE  /\ g \in lookedAt'[q] =>
                             worktree'[q][g] \in {0, Large} \/ snapshot[q].digest[g] = worktree'[q][g]
                        /\ snapshot[q].digest[g] # 0 => g \in snapshot[q].files
      BY <2>1 DEF SnapshotsRead, Large
    <3>1. /\ g \in lookedAt[q] =>
               worktree[q][g] \in {0, Large} \/ snapshot[q].digest[g] = worktree[q][g]
          /\ snapshot[q].digest[g] # 0 => g \in snapshot[q].files
      BY <1>0 DEF SnapshotsRead
    <3>2. CASE q = r /\ g = f
      <4>1. g \notin lookedAt'[q]  BY <1>0, <2>1, <2>2, <3>2
      <4> QED BY <3>1, <4>1
    <3>3. CASE ~(q = r /\ g = f)
      <4>1. worktree'[q][g] = worktree[q][g] /\ (g \in lookedAt'[q] => g \in lookedAt[q])
        BY <1>0, <2>1, <2>2, <3>3 DEF Trees
      <4> QED BY <3>1, <4>1
    <3> QED BY <3>2, <3>3
  <2> QED BY <2>1, <2>3, <2>4 DEF KnowInv, PersistedFrom, NoPersist
<1>4. ASSUME NEW r \in Runs, NEW sel \in SUBSET SourceFiles, NEW resumed \in BOOLEAN,
             StartRun(r, sel, resumed)
      PROVE  KnowInv'
  <2> DEFINE tree == IF resumed THEN worktree[r] ELSE baseTree
             base == IndexTree(IF resumed THEN snapshot[r].revision ELSE revision, tree)
             index == IndexScope(base, tree, sel)
  <2>1. /\ worktree' = [worktree EXCEPT ![r] = tree] /\ snapshot' = [snapshot EXCEPT ![r] = index]
        /\ lookedAt' = [lookedAt EXCEPT ![r] = sel] /\ justPersisted' = NoPersist
        /\ \E read \in Readable(brain) : brain' = ReconcileStaleness(brain, index, read)
        /\ UNCHANGED <<baseTree, revision>>
    BY <1>4 DEF StartRun
  <2>2. tree \in Trees  BY <1>0
  <2>3. (IF resumed THEN snapshot[r].revision ELSE revision) \in Nat  BY <1>0 DEF Snapshots
  <2> HIDE DEF tree
  <2>4. base \in Snapshots /\ \A f \in SourceFiles : base.digest[f] = 0
    BY <2>2, <2>3, KnowAssumption DEF IndexTree, Snapshots, Trees
  <2> HIDE DEF base
  <2>5. index \in Snapshots  BY <2>2, <2>4, IndexScopeReads
  <2>6. \A f \in SourceFiles :
           /\ f \in {} \cup sel => tree[f] \in {0, Large} \/ index.digest[f] = tree[f]
           /\ index.digest[f] # 0 => f \in index.files
    <3>1. {} \in SUBSET SourceFiles  OBVIOUS
    <3>2. \A f \in SourceFiles : /\ f \in {} => tree[f] \in {0, Large} \/ base.digest[f] = tree[f]
                                 /\ base.digest[f] # 0 => f \in base.files
      BY <2>4
    <3> QED BY <2>2, <2>4, <3>1, <3>2, IndexedDescribes
  <2> HIDE DEF index
  <2>7. KnowTypeOK'  BY <1>0, <2>1, <2>2, <2>5 DEF KnowTypeOK
  <2>8. SnapshotsRead'
    <3> SUFFICES ASSUME NEW q \in Runs, NEW g \in SourceFiles
                 PROVE  /\ g \in lookedAt'[q] =>
                             worktree'[q][g] \in {0, Large} \/ snapshot'[q].digest[g] = worktree'[q][g]
                        /\ snapshot'[q].digest[g] # 0 => g \in snapshot'[q].files
      BY DEF SnapshotsRead, Large
    <3>1. CASE q = r
      <4>1. worktree'[q] = tree /\ snapshot'[q] = index /\ lookedAt'[q] = sel  BY <1>0, <2>1, <3>1
      <4> QED BY <2>6, <4>1
    <3>2. CASE q # r
      <4>1. worktree'[q] = worktree[q] /\ snapshot'[q] = snapshot[q] /\ lookedAt'[q] = lookedAt[q]
        BY <1>0, <2>1, <3>2
      <4> QED BY <1>0, <4>1 DEF SnapshotsRead
    <3> QED BY <3>1, <3>2
  <2>9. OnlyActiveOrStale'
    <3>1. PICK read \in Readable(brain) : brain' = ReconcileStaleness(brain, index, read)  BY <2>1
    <3> QED BY <1>0, <3>1, ReconcileKeeps DEF OnlyActiveOrStale
  <2> QED BY <2>1, <2>7, <2>8, <2>9 DEF KnowInv, PersistedFrom, NoPersist
<1>5. ASSUME NEW r \in Runs, NEW sel \in SUBSET SourceFiles, GrowGraph(r, sel) PROVE KnowInv'
  <2> DEFINE index == IndexScope(snapshot[r], worktree[r], sel)
  <2>1. /\ snapshot' = [snapshot EXCEPT ![r] = index]
        /\ lookedAt' = [lookedAt EXCEPT ![r] = lookedAt[r] \cup sel] /\ justPersisted' = NoPersist
        /\ UNCHANGED <<baseTree, revision, worktree, brain>>
    BY <1>5 DEF GrowGraph
  <2>2. snapshot[r] \in Snapshots /\ worktree[r] \in Trees /\ lookedAt[r] \in SUBSET SourceFiles
    BY <1>0
  <2>3. \A f \in SourceFiles :
           /\ f \in lookedAt[r] => worktree[r][f] \in {0, Large} \/ snapshot[r].digest[f] = worktree[r][f]
           /\ snapshot[r].digest[f] # 0 => f \in snapshot[r].files
    BY <1>0 DEF SnapshotsRead
  <2>4. index \in Snapshots  BY <2>2, IndexScopeReads
  <2>5. \A f \in SourceFiles :
           /\ f \in lookedAt[r] \cup sel => worktree[r][f] \in {0, Large} \/ index.digest[f] = worktree[r][f]
           /\ index.digest[f] # 0 => f \in index.files
    BY <2>2, <2>3, IndexedDescribes
  <2> HIDE DEF index
  <2>6. KnowTypeOK' /\ OnlyActiveOrStale'
    BY <1>0, <2>1, <2>2, <2>4 DEF KnowTypeOK, OnlyActiveOrStale
  <2>7. SnapshotsRead'
    <3> SUFFICES ASSUME NEW q \in Runs, NEW g \in SourceFiles
                 PROVE  /\ g \in lookedAt'[q] =>
                             worktree[q][g] \in {0, Large} \/ snapshot'[q].digest[g] = worktree[q][g]
                        /\ snapshot'[q].digest[g] # 0 => g \in snapshot'[q].files
      BY <2>1 DEF SnapshotsRead, Large
    <3>1. CASE q = r
      <4>1. snapshot'[q] = index /\ lookedAt'[q] = lookedAt[r] \cup sel  BY <1>0, <2>1, <3>1
      <4> QED BY <2>5, <3>1, <4>1
    <3>2. CASE q # r
      <4>1. snapshot'[q] = snapshot[q] /\ lookedAt'[q] = lookedAt[q]  BY <1>0, <2>1, <3>2
      <4> QED BY <1>0, <4>1 DEF SnapshotsRead
    <3> QED BY <3>1, <3>2
  <2> QED BY <2>1, <2>6, <2>7 DEF KnowInv, PersistedFrom, NoPersist
<1>6. ASSUME NEW r \in Runs, NEW sel \in SUBSET SourceFiles, Persist(r, sel) PROVE KnowInv'
  <2> DEFINE claims == ClaimsOf(snapshot[r], sel)
  <2>1. /\ brain' = AddBatch(brain, claims) /\ justPersisted' = [run |-> r, claims |-> claims]
        /\ UNCHANGED <<baseTree, revision, worktree, snapshot, lookedAt>>
    BY <1>6 DEF Persist
  <2>2. \A c \in claims : Normalizes(c)
    BY <1>0, ClaimsAreCurrent DEF SnapshotsRead
  <2> HIDE DEF claims
  <2>3. brain' = [c \in DOMAIN brain \cup claims |-> IF c \in claims THEN StatusAfterAdd(brain, c) ELSE brain[c]]
    BY <2>1, <2>2 DEF AddBatch
  <2>4. /\ DOMAIN brain' = DOMAIN brain \cup claims
        /\ \A c \in claims : brain'[c] = "ACTIVE"
        /\ \A c \in DOMAIN brain' : brain'[c] \in {"ACTIVE", "STALE"}
    BY <1>0, <2>3 DEF StatusAfterAdd, OnlyActiveOrStale
  <2>5. KnowTypeOK' /\ SnapshotsRead' /\ OnlyActiveOrStale'
    BY <1>0, <2>1, <2>4 DEF KnowTypeOK, SnapshotsRead, OnlyActiveOrStale
  <2>6. justPersisted'.run = r /\ justPersisted'.claims = claims  BY <2>1
  <2>7. claims = ClaimsOf(snapshot'[r], sel)  BY <2>1 DEF claims
  <2>8. PersistedFrom'
    BY <2>4, <2>6, <2>7 DEF PersistedFrom
  <2> QED BY <2>5, <2>8 DEF KnowInv
<1> QED BY <1>1, <1>2, <1>3, <1>4, <1>5, <1>6 DEF KnowNext

\* repository-index.ts and project-brain.ts, for any runs, worktrees, files and claims
\* that share one brain: a claim that is current for a run says of every file it has
\* looked at what its worktree holds, and what a run has just written is current for it,
\* whatever the reconciliations of the other runs have marked meanwhile.
THEOREM KnowledgeHolds == KnowSpec => []KnowledgeIsCurrent
<1>1. KnowInit => KnowInv
  <2> SUFFICES ASSUME KnowInit PROVE KnowInv
    OBVIOUS
  <2>1. baseTree \in Trees /\ revision \in Nat  BY KnowAssumption DEF KnowInit, Trees
  <2>2. IndexTree(1, baseTree) \in Snapshots /\ \A f \in SourceFiles : IndexTree(1, baseTree).digest[f] = 0
    BY <2>1, KnowAssumption DEF IndexTree, Snapshots, Trees
  <2>3. /\ worktree = [r \in Runs |-> baseTree] /\ snapshot = [r \in Runs |-> IndexTree(1, baseTree)]
        /\ lookedAt = [r \in Runs |-> {}] /\ DOMAIN brain = {} /\ justPersisted = NoPersist
    BY DEF KnowInit
  <2>4. KnowTypeOK  BY <2>1, <2>2, <2>3 DEF KnowTypeOK
  <2>5. SnapshotsRead /\ OnlyActiveOrStale /\ PersistedFrom
    BY <2>2, <2>3 DEF SnapshotsRead, OnlyActiveOrStale, PersistedFrom, NoPersist
  <2> QED BY <2>4, <2>5 DEF KnowInv
<1>2. KnowInv => KnowledgeIsCurrent
  <2> SUFFICES ASSUME KnowInv PROVE KnowledgeIsCurrent
    OBVIOUS
  <2>0. snapshot \in [Runs -> Snapshots] /\ SnapshotsRead /\ OnlyActiveOrStale /\ PersistedFrom
        /\ lookedAt \in [Runs -> SUBSET SourceFiles]
    BY DEF KnowInv, KnowTypeOK
  <2>1. ASSUME NEW r \in Runs, NEW c \in ResolveCurrent(brain, snapshot[r]), NEW f \in c.files \cap lookedAt[r]
        PROVE  worktree[r][f] \in {0, Large} \/ c.digest[f] = worktree[r][f]
    <3>1. c \in DOMAIN brain /\ StateFromBindings(c, brain, snapshot[r]) = "CURRENT"
      BY <2>1, NeverConflicting DEF ResolveCurrent
    <3>2. brain[c] \in {"ACTIVE", "STALE"}  BY <2>0, <3>1 DEF OnlyActiveOrStale
    <3>3. snapshot[r].digest[f] = c.digest[f]
      BY <2>1, <3>1, <3>2 DEF StateFromBindings
    <3>4. f \in SourceFiles /\ f \in lookedAt[r]  BY <2>0
    <3> QED BY <2>0, <3>3, <3>4 DEF SnapshotsRead
  <2>2. ASSUME justPersisted.claims # {}, ~SourceTruncated(brain),
               NEW c \in justPersisted.claims
        PROVE  c \in ResolveCurrent(brain, snapshot[justPersisted.run])
    <3> DEFINE r == justPersisted.run
    <3>1. /\ r \in Runs /\ c \in DOMAIN brain /\ brain[c] = "ACTIVE"
          /\ \E sel \in SUBSET SourceFiles : justPersisted.claims = ClaimsOf(snapshot[r], sel)
      BY <2>0, <2>2 DEF PersistedFrom
    <3>2. PICK sel \in SUBSET SourceFiles : c \in ClaimsOf(snapshot[r], sel)  BY <2>2, <3>1
    <3>3. snapshot[r] \in Snapshots /\ \A f \in SourceFiles : snapshot[r].digest[f] # 0 => f \in snapshot[r].files
      BY <2>0, <3>1 DEF SnapshotsRead
    <3> HIDE DEF r
    <3>4. StateFromBindings(c, brain, snapshot[r]) = "CURRENT"
      BY <3>1, <3>2, <3>3, ClaimsAreCurrent
    <3> QED BY <2>2, <3>1, <3>4, NeverConflicting DEF ResolveCurrent, r
  <2>3. CurrentDescribesTree  BY <2>1 DEF CurrentDescribesTree
  <2>4. PersistedIsCurrent  BY <2>2 DEF PersistedIsCurrent
  <2> QED BY <2>3, <2>4 DEF KnowledgeIsCurrent
<1> QED BY <1>1, <1>2, KnowStep, PTL DEF KnowSpec

-----------------------------------------------------------------------------
(* CapabilityRun. *)

CapSteps == {"idle", "probing", "probed", "analyzing", "returned", "observing", "folded"}
IsCall(x) == DOMAIN x = {"step", "probe", "seen", "answer", "evidence"} /\ x.step \in CapSteps

CapTypeOK ==
  /\ tools \in [version : [CapProviders -> Nat], since : [CapProviders -> SUBSET Nat], upgrades : Nat]
  /\ bytes \in [now : {0, 1}, writes : Nat, reverted : BOOLEAN]
  /\ DOMAIN calls = CapProviders /\ \A p \in CapProviders : IsCall(calls[p])

\* What validation makes of an answer it accepts.
MatchedEvidence(p, a) ==
  LET status == FoldResult(p, a) IN
  [binding |-> "MATCHED", outcome |-> a.outcome, status |-> status,
   findings |-> IF status \in {"FAIL", "WARN"} THEN a.findings ELSE {}, files |-> a.files]

\* A call that is past its probe holds a version installed since the execution began; one
\* that read other bytes than the candidate's did so in a worktree that still differs or
\* came back; and evidence that matched is the fold of the answer that was returned.
CallIsSound(p) ==
  /\ Executing => tools.version[p] \in tools.since[p]
  /\ calls[p].step \notin {"idle", "probing"} => calls[p].probe \in tools.since[p]
  /\ calls[p].seen # 0 => bytes.now # 0 \/ bytes.reverted
  /\ calls[p].step = "returned" => \E a \in Answers[p] : calls[p].answer = <<a>>
  /\ calls[p].evidence.binding = "MATCHED" =>
       /\ calls[p].step \in {"observing", "folded"}
       /\ bytes.reverted \/ calls[p].seen = 0
       /\ \E a \in Answers[p] : calls[p].answer = <<a>> /\ calls[p].evidence = MatchedEvidence(p, a)

CapInv == CapTypeOK /\ \A p \in CapProviders : CallIsSound(p)

-----------------------------------------------------------------------------
\* A step that changes the call of one provider, and nothing of the tools and the bytes.
LEMMA OneCall ==
  ASSUME CapInv, NEW p \in CapProviders, NEW x, IsCall(x), x.step # "idle",
         calls[p].step \notin {"idle", "folded"}, calls' = [calls EXCEPT ![p] = x],
         UNCHANGED <<tools, bytes>>,
         x.step # "probing" => x.probe \in tools.since[p],
         x.seen # 0 => bytes.now # 0 \/ bytes.reverted,
         x.step = "returned" => \E a \in Answers[p] : x.answer = <<a>>,
         x.evidence.binding = "MATCHED" =>
           /\ x.step \in {"observing", "folded"}
           /\ bytes.reverted \/ x.seen = 0
           /\ \E a \in Answers[p] : x.answer = <<a>> /\ x.evidence = MatchedEvidence(p, a)
  PROVE  CapInv'
<1>1. DOMAIN calls = CapProviders /\ \A q \in CapProviders : IsCall(calls[q]) /\ CallIsSound(q)
  BY DEF CapInv, CapTypeOK
<1>2. /\ DOMAIN calls' = CapProviders /\ calls'[p] = x
      /\ \A q \in CapProviders : q # p => calls'[q] = calls[q]
  BY <1>1
<1>3. CapTypeOK'
  <2>1. \A q \in CapProviders : IsCall(calls'[q])  BY <1>1, <1>2
  <2> QED BY <1>2, <2>1 DEF CapInv, CapTypeOK
<1>4. Executing  BY DEF Executing
<1>5. ASSUME NEW q \in CapProviders PROVE CallIsSound(q)'
  <2>1. tools.version[q] \in tools.since[q]  BY <1>1, <1>4 DEF CallIsSound
  <2>2. CASE q = p
    BY <1>2, <2>1, <2>2 DEF CallIsSound
  <2>3. CASE q # p
    BY <1>1, <1>2, <2>1, <2>3 DEF CallIsSound
  <2> QED BY <2>2, <2>3
<1> QED BY <1>3, <1>5 DEF CapInv

\* Every step keeps the invariant.
LEMMA CapStep == CapInv /\ [CapNext]_capVars => CapInv'
<1> SUFFICES ASSUME CapInv, [CapNext]_capVars PROVE CapInv'
  OBVIOUS
<1>0. /\ tools \in [version : [CapProviders -> Nat], since : [CapProviders -> SUBSET Nat], upgrades : Nat]
      /\ bytes \in [now : {0, 1}, writes : Nat, reverted : BOOLEAN]
      /\ DOMAIN calls = CapProviders
      /\ \A p \in CapProviders : IsCall(calls[p]) /\ CallIsSound(p)
  BY DEF CapInv, CapTypeOK
<1>1. CASE UNCHANGED <<tools, bytes, calls>>
  BY <1>0, <1>1 DEF CapInv, CapTypeOK, CallIsSound, Executing
<1>2. CASE ExecuteAll
  <2> DEFINE first == [IdleCall EXCEPT !.step = "probing"]
  <2>1. /\ calls' = [p \in CapProviders |-> first] /\ bytes' = bytes
        /\ tools' = [tools EXCEPT !.since = [p \in CapProviders |-> {tools.version[p]}]]
    BY <1>2 DEF ExecuteAll
  <2>2. /\ IsCall(first) /\ first.step = "probing" /\ first.seen = 0
        /\ first.evidence.binding = "NONE"
    BY DEF IsCall, IdleCall, CapSteps, NoCapEvidence
  <2> HIDE DEF first
  <2>3. [p \in CapProviders |-> {tools.version[p]}] \in [CapProviders -> SUBSET Nat]  BY <1>0
  <2>4. /\ tools' \in [version : [CapProviders -> Nat], since : [CapProviders -> SUBSET Nat], upgrades : Nat]
        /\ tools'.version = tools.version /\ tools'.since = [p \in CapProviders |-> {tools.version[p]}]
    BY <1>0, <2>1, <2>3
  <2>5. CapTypeOK'  BY <1>0, <2>1, <2>2, <2>4 DEF CapTypeOK
  <2>6. ASSUME NEW p \in CapProviders PROVE CallIsSound(p)'
    BY <2>1, <2>2, <2>4 DEF CallIsSound
  <2> QED BY <2>5, <2>6 DEF CapInv
<1>3. ASSUME NEW p \in CapProviders, Upgrade(p) PROVE CapInv'
  <2>1. PICK v \in {0, tools.version[p] + 1} :
          tools' = [tools EXCEPT !.version[p] = v, !.upgrades = tools.upgrades + 1,
                                 !.since[p] = IF Executing THEN tools.since[p] \cup {v} ELSE tools.since[p]]
    BY <1>3 DEF Upgrade
  <2>2. v \in Nat /\ UNCHANGED <<bytes, calls>>  BY <1>0, <1>3, <2>1 DEF Upgrade
  <2> DEFINE version == [tools.version EXCEPT ![p] = v]
             since == [tools.since EXCEPT ![p] = IF Executing THEN tools.since[p] \cup {v} ELSE tools.since[p]]
  <2>3. tools' = [version |-> version, since |-> since, upgrades |-> tools.upgrades + 1]
    BY <1>0, <2>1
  <2>4. version \in [CapProviders -> Nat] /\ since \in [CapProviders -> SUBSET Nat]
    BY <1>0, <2>2
  <2>5. \A q \in CapProviders : /\ tools.since[q] \subseteq since[q]
                                /\ Executing => version[q] \in since[q]
    BY <1>0, <2>2 DEF CallIsSound
  <2> HIDE DEF version, since
  <2>6. CapTypeOK'  BY <1>0, <2>2, <2>3, <2>4 DEF CapTypeOK
  <2>7. ASSUME NEW q \in CapProviders PROVE CallIsSound(q)'
    <3>1. tools'.version = version /\ tools'.since = since  BY <2>3
    <3>2. Executing' = Executing  BY <2>2 DEF Executing
    <3> QED BY <1>0, <2>2, <2>5, <3>1, <3>2 DEF CallIsSound
  <2> QED BY <2>6, <2>7 DEF CapInv
<1>4. ASSUME NEW v \in 0..1, WriteDuring(v) PROVE CapInv'
  <2>1. /\ bytes' = [now |-> v, writes |-> bytes.writes + 1, reverted |-> bytes.reverted \/ v = 0]
        /\ UNCHANGED <<tools, calls>>
    BY <1>4 DEF WriteDuring
  <2>2. /\ bytes' \in [now : {0, 1}, writes : Nat, reverted : BOOLEAN] /\ bytes'.now = v
        /\ bytes'.reverted = (bytes.reverted \/ v = 0)
    BY <1>0, <2>1
  <2>3. CapTypeOK'  BY <1>0, <2>1, <2>2 DEF CapTypeOK
  <2>4. ASSUME NEW q \in CapProviders PROVE CallIsSound(q)'
    BY <1>0, <2>1, <2>2 DEF CallIsSound, Executing
  <2> QED BY <2>3, <2>4 DEF CapInv
<1>5. ASSUME NEW p \in CapProviders, Probe(p) PROVE CapInv'
  <2> DEFINE x == [calls[p] EXCEPT !.step = "probed", !.probe = tools.version[p]]
  <2>1. calls' = [calls EXCEPT ![p] = x] /\ UNCHANGED <<tools, bytes>> /\ calls[p].step = "probing"
    BY <1>0, <1>5 DEF Probe
  <2>2. /\ IsCall(x) /\ x.step = "probed" /\ x.probe = tools.version[p] /\ x.seen = calls[p].seen
        /\ x.evidence = calls[p].evidence
    BY <1>0 DEF IsCall, CapSteps
  <2> HIDE DEF x
  <2>3. tools.version[p] \in tools.since[p]
    BY <1>0, <2>1 DEF CallIsSound, Executing
  <2>4. calls[p].evidence.binding # "MATCHED" /\ (calls[p].seen # 0 => bytes.now # 0 \/ bytes.reverted)
    BY <1>0, <2>1 DEF CallIsSound
  <2> QED BY <2>1, <2>2, <2>3, <2>4, OneCall
<1>6. ASSUME NEW p \in CapProviders, NEW binding \in {"NOT_EVALUATED", "REJECTED"}, NEW outcome,
             calls[p].step \in {"probed", "analyzing", "returned"},
             NonResult(p, binding, outcome), UNCHANGED <<tools, bytes>>
      PROVE  CapInv'
  <2> DEFINE e == [binding |-> binding, outcome |-> outcome, status |-> "NOT_CHECKED",
                   findings |-> {}, files |-> {}]
             x == [calls[p] EXCEPT !.step = "observing", !.evidence = e]
  <2>1. calls' = [calls EXCEPT ![p] = x]  BY <1>0, <1>6 DEF NonResult
  <2>2. e.binding # "MATCHED"  OBVIOUS
  <2> HIDE DEF e
  <2>3. /\ IsCall(x) /\ x.step = "observing" /\ x.probe = calls[p].probe /\ x.seen = calls[p].seen
        /\ x.evidence = e
    BY <1>0 DEF IsCall, CapSteps
  <2> HIDE DEF x
  <2>4. calls[p].probe \in tools.since[p] /\ (calls[p].seen # 0 => bytes.now # 0 \/ bytes.reverted)
    BY <1>0, <1>6 DEF CallIsSound
  <2> QED BY <1>6, <2>1, <2>2, <2>3, <2>4, OneCall
<1>7. ASSUME NEW p \in CapProviders, AnalyzeStarts(p) PROVE CapInv'
  <2> DEFINE x == [calls[p] EXCEPT !.step = "analyzing", !.seen = bytes.now]
  <2>1. calls' = [calls EXCEPT ![p] = x] /\ UNCHANGED <<tools, bytes>> /\ calls[p].step = "probed"
    BY <1>0, <1>7 DEF AnalyzeStarts
  <2>2. /\ IsCall(x) /\ x.step = "analyzing" /\ x.probe = calls[p].probe /\ x.seen = bytes.now
        /\ x.evidence = calls[p].evidence
    BY <1>0 DEF IsCall, CapSteps
  <2> HIDE DEF x
  <2>3. calls[p].probe \in tools.since[p] /\ calls[p].evidence.binding # "MATCHED"
    BY <1>0, <2>1 DEF CallIsSound
  <2> QED BY <2>1, <2>2, <2>3, OneCall
<1>8. ASSUME NEW p \in CapProviders, NEW a \in Answers[p], Returns(p, a) PROVE CapInv'
  <2> DEFINE x == [calls[p] EXCEPT !.step = "returned", !.answer = <<a>>]
  <2>1. calls' = [calls EXCEPT ![p] = x] /\ UNCHANGED <<tools, bytes>> /\ calls[p].step = "analyzing"
    BY <1>0, <1>8 DEF Returns
  <2>2. /\ IsCall(x) /\ x.step = "returned" /\ x.probe = calls[p].probe /\ x.seen = calls[p].seen
        /\ x.evidence = calls[p].evidence /\ x.answer = <<a>>
    BY <1>0 DEF IsCall, CapSteps
  <2> HIDE DEF x
  <2>3. /\ calls[p].probe \in tools.since[p] /\ calls[p].evidence.binding # "MATCHED"
        /\ calls[p].seen # 0 => bytes.now # 0 \/ bytes.reverted
    BY <1>0, <2>1 DEF CallIsSound
  <2> QED BY <1>8, <2>1, <2>2, <2>3, OneCall
<1>9. ASSUME NEW p \in CapProviders, Validate(p) PROVE CapInv'
  <2>1. calls[p].step = "returned" /\ UNCHANGED <<tools, bytes>>  BY <1>9 DEF Validate
  <2>2. PICK a \in Answers[p] : calls[p].answer = <<a>>  BY <1>0, <2>1 DEF CallIsSound
  <2>3. calls[p].answer[1] = a  BY <2>2
  <2>4. CASE NonResult(p, "REJECTED", "BINDING_REJECTED")  BY <1>6, <2>1, <2>4
  <2>5. CASE ~NonResult(p, "REJECTED", "BINDING_REJECTED")
    <3> DEFINE e == MatchedEvidence(p, a)
               x == [calls[p] EXCEPT !.step = "observing", !.evidence = e]
    <3>1. calls' = [calls EXCEPT ![p] = x] /\ bytes.now = 0
      BY <1>0, <1>9, <2>3, <2>5 DEF Validate, MatchedEvidence
    <3> HIDE DEF e
    <3>2. /\ IsCall(x) /\ x.step = "observing" /\ x.probe = calls[p].probe /\ x.seen = calls[p].seen
          /\ x.evidence = e /\ x.answer = <<a>>
      BY <1>0, <2>2 DEF IsCall, CapSteps
    <3> HIDE DEF x
    <3>3. /\ calls[p].probe \in tools.since[p]
          /\ calls[p].seen # 0 => bytes.now # 0 \/ bytes.reverted
      BY <1>0, <2>1 DEF CallIsSound
    <3>4. x.evidence = MatchedEvidence(p, a)  BY <3>2 DEF e
    <3> QED BY <2>1, <2>2, <3>1, <3>2, <3>3, <3>4, OneCall
  <2> QED BY <2>4, <2>5
<1>10. ASSUME NEW p \in CapProviders, NEW t, Observe(p, t) PROVE CapInv'
  <2> DEFINE x == [calls[p] EXCEPT !.step = "folded"]
  <2>1. calls' = [calls EXCEPT ![p] = x] /\ UNCHANGED <<tools, bytes>> /\ calls[p].step = "observing"
    BY <1>0, <1>10 DEF Observe
  <2>2. /\ IsCall(x) /\ x.step = "folded" /\ x.probe = calls[p].probe /\ x.seen = calls[p].seen
        /\ x.evidence = calls[p].evidence /\ x.answer = calls[p].answer
    BY <1>0 DEF IsCall, CapSteps
  <2> HIDE DEF x
  <2>3. CallIsSound(p)  BY <1>0
  <2>4. /\ calls[p].probe \in tools.since[p] /\ (calls[p].seen # 0 => bytes.now # 0 \/ bytes.reverted)
        /\ calls[p].evidence.binding = "MATCHED" =>
             /\ bytes.reverted \/ calls[p].seen = 0
             /\ \E a \in Answers[p] : calls[p].answer = <<a>> /\ calls[p].evidence = MatchedEvidence(p, a)
    BY <2>1, <2>3 DEF CallIsSound
  <2> QED BY <2>1, <2>2, <2>4, OneCall
<1>11. ASSUME NEW p \in CapProviders, Unavailable(p) \/ AnalyzeThrows(p) \/ RevalidateThrows(p)
       PROVE  CapInv'
  BY <1>6, <1>11 DEF Unavailable, AnalyzeThrows, RevalidateThrows
<1>12. ASSUME NEW p \in CapProviders, Resolve(p) PROVE CapInv'
  BY <1>1, <1>12 DEF Resolve
<1>13. CASE UNCHANGED capVars  BY <1>1, <1>13 DEF capVars
<1> QED BY <1>2, <1>3, <1>4, <1>5, <1>7, <1>8, <1>9, <1>10, <1>11, <1>12, <1>13 DEF CapNext

\* A fold that passes: the provider read something, found nothing, and both it and the
\* registry vouch for absence in every class.
LEMMA FoldPasses ==
  ASSUME NEW p \in CapProviders, NEW a \in Answers[p], FoldResult(p, a) = "PASS"
  PROVE  /\ a.files # {} /\ a.findings = {} /\ NegativeCeiling[CapabilityOf[p]] = "FULL"
         /\ \A c \in CandidateClasses : a.coverage[c] = "FULL" /\ a.negative[c] = "FULL"
<1>1. a.outcome = "COMPLETED" /\ a.findings = {} /\ CandidateClasses # {}
  BY DEF FoldResult
<1>2. /\ a.files # {} /\ NegativeCeiling[CapabilityOf[p]] # "UNSUPPORTED"
      /\ \A c \in CandidateClasses : /\ a.coverage[c] \notin {"MISSING", "UNSUPPORTED"}
                                     /\ a.negative[c] \notin {"MISSING", "UNSUPPORTED", "NOT_APPLICABLE"}
  BY <1>1 DEF FoldResult
<1>3. /\ NegativeCeiling[CapabilityOf[p]] # "PARTIAL"
      /\ \A c \in CandidateClasses : /\ a.coverage[c] \notin {"PARTIAL", "NOT_APPLICABLE"}
                                     /\ a.negative[c] # "PARTIAL"
  BY <1>1, <1>2 DEF FoldResult
<1> QED BY <1>1, <1>2, <1>3, CapAssumption DEF CoverageValues

\* A completed answer with findings folds to a failure or a warning.
LEMMA FoldFinds ==
  ASSUME NEW p \in CapProviders, NEW a \in Answers[p], a.outcome = "COMPLETED", a.findings # {}
  PROVE  FoldResult(p, a) \in {"FAIL", "WARN"}
<1>1. FoldResult(p, a) = IF \E f \in a.findings : f.severity = "HIGH" THEN "FAIL" ELSE "WARN"
  BY DEF FoldResult
<1> QED BY <1>1

\* capability-execution.ts, for any providers, answers, upgrades of the tools and writes to
\* the worktree while they all run at once: evidence taken as the candidate's is current,
\* silence passes only with authority, and no question and no finding is lost.
THEOREM CapabilityHolds == CapSpec => []CapabilityEvidenceIsSound
<1>1. CapInit => CapInv
  <2> SUFFICES ASSUME CapInit PROVE CapInv
    OBVIOUS
  <2>1. /\ IsCall(IdleCall) /\ IdleCall.step = "idle" /\ IdleCall.seen = 0
        /\ IdleCall.evidence.binding = "NONE"
    BY DEF IsCall, IdleCall, CapSteps, NoCapEvidence
  <2>2. /\ [p \in CapProviders |-> 1] \in [CapProviders -> Nat]
        /\ [p \in CapProviders |-> {}] \in [CapProviders -> SUBSET Nat]
    OBVIOUS
  <2>3. CapTypeOK  BY <2>1, <2>2 DEF CapInit, CapTypeOK
  <2>4. ~Executing  BY <2>1 DEF CapInit, Executing
  <2>5. \A p \in CapProviders : calls[p] = IdleCall  BY DEF CapInit
  <2> QED BY <2>1, <2>3, <2>4, <2>5 DEF CapInv, CallIsSound
<1>2. CapInv => CapabilityEvidenceIsSound
  <2> SUFFICES ASSUME CapInv PROVE CapabilityEvidenceIsSound
    OBVIOUS
  <2>0. \A p \in CapProviders : CallIsSound(p)  BY DEF CapInv
  <2>1. MatchedIsCurrent  BY <2>0 DEF MatchedIsCurrent, CallIsSound
  <2>2. ASSUME NEW p \in CapProviders, calls[p].evidence.binding = "MATCHED"
        PROVE  \E a \in Answers[p] :
                 /\ calls[p].answer[1] = a /\ calls[p].evidence = MatchedEvidence(p, a)
                 /\ calls[p].evidence.status = FoldResult(p, a) /\ calls[p].evidence.outcome = a.outcome
                 /\ FoldResult(p, a) \in {"FAIL", "WARN"} => calls[p].evidence.findings = a.findings
    <3>1. PICK a \in Answers[p] : calls[p].answer = <<a>> /\ calls[p].evidence = MatchedEvidence(p, a)
      BY <2>0, <2>2 DEF CallIsSound
    <3>2. calls[p].answer[1] = a  BY <3>1
    <3> DEFINE status == FoldResult(p, a)
               e == [binding |-> "MATCHED", outcome |-> a.outcome, status |-> status,
                     findings |-> IF status \in {"FAIL", "WARN"} THEN a.findings ELSE {}, files |-> a.files]
    <3>3. calls[p].evidence = e  BY <3>1 DEF MatchedEvidence
    <3> HIDE DEF status
    <3>4. /\ e.status = status /\ e.outcome = a.outcome
          /\ status \in {"FAIL", "WARN"} => e.findings = a.findings
      OBVIOUS
    <3> HIDE DEF e
    <3> QED BY <3>1, <3>2, <3>3, <3>4 DEF status
  <2>3. SilenceNeedsAuthority
    <3> SUFFICES ASSUME NEW p \in Folded, calls[p].evidence.binding = "MATCHED",
                        calls[p].evidence.status = "PASS"
                 PROVE  LET a == calls[p].answer[1] IN
                        /\ a.files # {} /\ a.findings = {} /\ NegativeCeiling[CapabilityOf[p]] = "FULL"
                        /\ \A c \in CandidateClasses : a.coverage[c] = "FULL" /\ a.negative[c] = "FULL"
      BY DEF SilenceNeedsAuthority
    <3>1. p \in CapProviders  BY DEF Folded
    <3>2. PICK a \in Answers[p] : calls[p].answer[1] = a /\ calls[p].evidence.status = FoldResult(p, a)
      BY <2>2, <3>1
    <3> QED BY <3>1, <3>2, FoldPasses
  <2>4. \A f \in InventoryFiles : \E c \in Projection : c.concern = "DEPENDENCY_VULNERABILITY" /\ c.file = f
    <3> SUFFICES ASSUME NEW f \in InventoryFiles
                 PROVE  \E c \in Projection : c.concern = "DEPENDENCY_VULNERABILITY" /\ c.file = f
      OBVIOUS
    <3> DEFINE c == [concern |-> "DEPENDENCY_VULNERABILITY", file |-> f, outcome |-> "NOT_CHECKED"]
    <3>1. c \in InventoryConcerns  BY DEF InventoryConcerns
    <3>2. c.concern = "DEPENDENCY_VULNERABILITY" /\ c.file = f  OBVIOUS
    <3> HIDE DEF c
    <3>3. c \in Projection
      <4> DEFINE found == UNION {Projected(p) : p \in Folded}
      <4>1. Projection = found \cup InventoryConcerns  BY DEF Projection
      <4> HIDE DEF found
      <4> QED BY <3>1, <4>1
    <3> QED BY <3>2, <3>3
  <2>5. ASSUME NEW p \in Folded, calls[p].evidence.binding = "MATCHED",
               calls[p].answer[1].outcome = "COMPLETED",
               NEW f \in calls[p].answer[1].findings, f.target \in MayEstablish[CapabilityOf[p]]
        PROVE  \E c \in Projection : c.concern = f.target /\ c.file = f.file
    <3>1. p \in CapProviders  BY DEF Folded
    <3>2. PICK a \in Answers[p] :
            /\ calls[p].answer[1] = a
            /\ calls[p].evidence.status = FoldResult(p, a) /\ calls[p].evidence.outcome = a.outcome
            /\ FoldResult(p, a) \in {"FAIL", "WARN"} => calls[p].evidence.findings = a.findings
      BY <2>2, <2>5, <3>1
    <3>3. FoldResult(p, a) \in {"FAIL", "WARN"}  BY <2>5, <3>1, <3>2, FoldFinds
    <3> DEFINE c == [concern |-> f.target, file |-> f.file, outcome |-> IF f.severity = "HIGH" THEN "FAIL" ELSE "WARN"]
    <3>4. c \in Projected(p)  
      <4> DEFINE e == calls[p].evidence
      <4>1. /\ e.binding = "MATCHED" /\ e.outcome = "COMPLETED" /\ e.status \in {"FAIL", "WARN"}
            /\ f \in {g \in e.findings : g.target \in MayEstablish[CapabilityOf[p]]}
        BY <2>5, <3>2, <3>3
      <4> QED BY <4>1 DEF Projected
    <3>5. c \in Projection  BY <3>4 DEF Projection
    <3>6. c.concern = f.target /\ c.file = f.file  OBVIOUS
    <3> QED BY <3>5, <3>6
  <2>6. ConcernsSurvive  BY <2>4, <2>5 DEF ConcernsSurvive
  <2> QED BY <2>1, <2>3, <2>6 DEF CapabilityEvidenceIsSound
<1> QED BY <1>1, <1>2, CapStep, PTL DEF CapSpec

-----------------------------------------------------------------------------
(* CandidateGate. *)

GateFields == {"task", "pc", "seen", "cand", "tested", "raw", "state", "authority", "kind",
               "previous", "attempts", "repairs", "retried", "retrying", "last"}
BeforeCapture == {"idle", "session", "capture"}
Fences == {FenceOf[k] : k \in Kinds}
EvidenceStates == {"NONE", "RUNNING", "PASS", "FAIL", "NOT_CHECKED"}

GateTypeOK ==
  /\ disk \in [1..GateFiles -> Nat] /\ reverted \in BOOLEAN /\ strayed \in BOOLEAN
  /\ gathered \in [Kinds -> [state : EvidenceStates, strayed : BOOLEAN]]
  /\ DOMAIN gate = GateFields
  /\ gate.seen \in Seq(Nat) /\ Len(gate.seen) <= GateFiles
  /\ gate.cand \in Seq(Nat) /\ Len(gate.cand) <= GateFiles
  /\ gate.attempts \in Nat /\ gate.repairs \in Nat
  /\ gate.authority \in BOOLEAN /\ gate.retried \in BOOLEAN

\* There is a candidate once it was captured; an authorised verification tested it: the
\* copy agrees with it file by file, and a verifier that reads the worktree has no authority.
AuthorityEarned ==
  /\ gate.pc \notin BeforeCapture \cup {"stopped"} => Len(gate.cand) = GateFiles
  /\ gate.pc = "idle" => ~gate.authority
  /\ gate.pc = "legacy" => gate.task.verifier = "command"
  /\ gate.pc = "materialize" => \A i \in 1..Len(gate.seen) : gate.seen[i] = gate.cand[i]
  /\ gate.pc = "authority" /\ gate.task.verifier = "normalized-local" => gate.tested = gate.cand
  /\ gate.authority => gate.task.verifier = "normalized-local" /\ gate.tested = gate.cand

\* One verification per repaired candidate, one more once.
AttemptsCounted ==
  /\ gate.repairs <= MaxRepairAttempts
  /\ gate.attempts <= gate.repairs + (IF gate.pc \in BeforeCapture THEN 0 ELSE 1)
                        + (IF gate.retried THEN 1 ELSE 0)

\* While no bytes came back the worktree is never behind what was read of it; so a
\* worktree that was once not the candidate stays so, and the second capture, which
\* reads every file after that, cannot equal the candidate.
CaptureSees ==
  ~reverted =>
    /\ \A i \in 1..Len(gate.seen) : gate.seen[i] <= disk[i]
    /\ \A i \in 1..Len(gate.cand) : gate.cand[i] <= disk[i]
    /\ gate.pc = "measuring" /\ strayed => \E f \in 1..GateFiles : gate.cand[f] < disk[f]
    /\ \A k \in Kinds : gathered[k].state = "PASS" /\ gathered[k].strayed =>
         /\ gate.pc = FenceOf[k]
         /\ \E f \in 1..GateFiles : /\ gate.cand[f] < disk[f]
                                    /\ f <= Len(gate.seen) => gate.cand[f] < gate.seen[f]

GateInv == GateTypeOK /\ AuthorityEarned /\ AttemptsCounted /\ CaptureSees

\* Each kind has a fence of its own.
LEMMA FenceNames ==
  /\ \A k \in Kinds : FenceOf[k] \in Collecting /\ FenceOf[k] \in Fences
  /\ \A j, k \in Kinds : FenceOf[j] = FenceOf[k] => j = k
  /\ Fences = {"PERFORMANCEFence", "RESILIENCEFence", "INDEPENDENT_REVIEWFence"}
BY DEF FenceOf, Kinds, Fences, Collecting

\* Two trees that are not the same differ in a file.
LEMMA TreesDiffer ==
  ASSUME NEW S, NEW a \in [S -> Nat], NEW b \in [S -> Nat], a # b
  PROVE  \E i \in S : a[i] # b[i]
<1> SUFFICES ASSUME \A i \in S : a[i] = b[i] PROVE a = b
  OBVIOUS
<1>1. a = [i \in S |-> a[i]] /\ b = [i \in S |-> b[i]]  OBVIOUS
<1>2. [i \in S |-> a[i]] = [i \in S |-> b[i]]  OBVIOUS
<1> QED BY <1>1, <1>2

\* Outside the fences no passing posture was taken on a worktree that strayed.
LEMMA NoneStrayed ==
  ASSUME GateInv, gate.pc \notin Fences, ~reverted, NEW k \in Kinds
  PROVE  ~(gathered[k].state = "PASS" /\ gathered[k].strayed)
BY FenceNames DEF GateInv, CaptureSees

\* The local state after Go.
LEMMA Goes ==
  ASSUME DOMAIN gate = GateFields, NEW step
  PROVE  /\ DOMAIN Go(step) = GateFields /\ Go(step).pc = step /\ Go(step).seen = <<>>
         /\ Go(step).task = gate.task /\ Go(step).cand = gate.cand /\ Go(step).tested = gate.tested
         /\ Go(step).authority = gate.authority /\ Go(step).attempts = gate.attempts
         /\ Go(step).repairs = gate.repairs /\ Go(step).retried = gate.retried
<1> DEFINE g == [gate EXCEPT !.pc = step]
<1>1. Go(step) = [g EXCEPT !.seen = <<>>]  BY DEF Go
<1>2. /\ DOMAIN g = GateFields /\ g.pc = step
      /\ g.task = gate.task /\ g.cand = gate.cand /\ g.tested = gate.tested
      /\ g.authority = gate.authority /\ g.attempts = gate.attempts
      /\ g.repairs = gate.repairs /\ g.retried = gate.retried
  BY DEF GateFields
<1> HIDE DEF g
<1> QED BY <1>1, <1>2 DEF GateFields

\* A step of execute outside the fences that drops what it has read, keeps the candidate
\* or takes what it has read for it, and starts no measurement.
LEMMA QuietMove ==
  ASSUME GateInv, Quiet, gate.pc \notin Fences, DOMAIN gate' = GateFields,
         gate'.pc # "measuring", gate'.seen = <<>>,
         gate'.cand = gate.cand \/ gate'.cand = gate.seen,
         gate'.attempts \in Nat, gate'.repairs \in Nat,
         gate'.authority \in BOOLEAN, gate'.retried \in BOOLEAN,
         AuthorityEarned', AttemptsCounted'
  PROVE  GateInv'
<1>1. <<>> \in Seq(Nat) /\ Len(<<>>) = 0  OBVIOUS
<1>2. disk' = disk /\ reverted' = reverted /\ strayed' = strayed /\ gathered' = gathered
  BY DEF Quiet
<1>3. gate'.cand \in Seq(Nat) /\ Len(gate'.cand) <= GateFiles
  BY DEF GateInv, GateTypeOK
<1>4. GateTypeOK'
  BY <1>1, <1>2, <1>3, GateAssumption DEF GateInv, GateTypeOK
<1>5. CaptureSees'
  <2> SUFFICES ASSUME ~reverted'
               PROVE  /\ \A i \in 1..Len(gate'.cand) : gate'.cand[i] <= disk[i]
                      /\ \A k \in Kinds : ~(gathered[k].state = "PASS" /\ gathered[k].strayed)
    BY <1>1, <1>2 DEF CaptureSees
  <2>1. ~reverted  BY <1>2
  <2> QED BY <2>1, NoneStrayed DEF GateInv, CaptureSees
<1> QED BY <1>4, <1>5 DEF GateInv

\* One that moves on, without testing or counting anything.
LEMMA MovesOn ==
  ASSUME GateInv, Quiet, gate.pc \notin Fences, NEW step,
         step \notin {"idle", "legacy", "materialize", "authority", "measuring"},
         step \in BeforeCapture => gate.pc \in BeforeCapture,
         step \notin BeforeCapture \cup {"stopped"} => gate.pc \notin BeforeCapture \cup {"stopped"},
         DOMAIN gate' = GateFields, gate'.pc = step, gate'.seen = <<>>,
         gate'.task = gate.task \/ ~gate.authority, gate'.cand = gate.cand,
         gate'.tested = gate.tested, gate'.authority = gate.authority,
         gate'.attempts = gate.attempts, gate'.repairs = gate.repairs, gate'.retried = gate.retried
  PROVE  GateInv'
<1>1. AuthorityEarned'
  BY DEF GateInv, AuthorityEarned
<1>2. AttemptsCounted'
  <2>1. /\ gate.attempts \in Nat /\ gate.repairs \in Nat /\ gate.repairs <= MaxRepairAttempts
        /\ gate.attempts <= gate.repairs + (IF gate.pc \in BeforeCapture THEN 0 ELSE 1)
                              + (IF gate.retried THEN 1 ELSE 0)
    BY DEF GateInv, GateTypeOK, AttemptsCounted
  <2>2. gate.attempts <= gate.repairs + (IF step \in BeforeCapture THEN 0 ELSE 1)
                              + (IF gate.retried THEN 1 ELSE 0)
    <3>1. CASE step \in BeforeCapture  BY <2>1, <3>1
    <3>2. CASE step \notin BeforeCapture /\ gate.retried  BY <2>1, <3>2
    <3>3. CASE step \notin BeforeCapture /\ ~gate.retried  BY <2>1, <3>3
    <3> QED BY <3>1, <3>2, <3>3
  <2> QED BY <2>1, <2>2 DEF AttemptsCounted
<1>3. /\ gate'.attempts \in Nat /\ gate'.repairs \in Nat
      /\ gate'.authority \in BOOLEAN /\ gate'.retried \in BOOLEAN
  BY DEF GateInv, GateTypeOK
<1> QED BY <1>1, <1>2, <1>3, QuietMove

\* Someone writes to the worktree.
LEMMA EditStep ==
  ASSUME GateInv, NEW f \in 1..GateFiles, NEW c \in Contents, Edit(f, c)
  PROVE  GateInv'
<1>1. /\ disk' = [disk EXCEPT ![f] = c] /\ reverted' = (reverted \/ c < disk[f])
      /\ strayed' = (strayed \/ disk' # gate.cand) /\ gate' = gate /\ gathered' = gathered
  BY DEF Edit
<1>2. disk \in [1..GateFiles -> Nat] /\ c \in Nat /\ reverted \in BOOLEAN /\ strayed \in BOOLEAN
  BY GateAssumption DEF GateInv, GateTypeOK
<1>3. disk' \in [1..GateFiles -> Nat] /\ reverted' \in BOOLEAN /\ strayed' \in BOOLEAN
  BY <1>1, <1>2
<1>4. GateTypeOK' /\ AuthorityEarned' /\ AttemptsCounted'
  BY <1>1, <1>3 DEF GateInv, GateTypeOK, AuthorityEarned, AttemptsCounted
<1>5. ASSUME ~reverted' PROVE ~reverted /\ \A i \in 1..GateFiles : disk[i] <= disk'[i]
  <2>1. ~reverted /\ ~(c < disk[f])  BY <1>1, <1>5
  <2>2. disk[f] \in Nat /\ disk[f] <= c  BY <1>2, <2>1
  <2>3. ASSUME NEW i \in 1..GateFiles PROVE disk[i] <= disk'[i]
    <3>1. disk'[i] = IF i = f THEN c ELSE disk[i]  BY <1>1, <1>2
    <3>2. disk[i] \in Nat  BY <1>2
    <3> QED BY <2>2, <3>1, <3>2
  <2> QED BY <2>1, <2>3
<1>6. CaptureSees'
  <2> SUFFICES ASSUME ~reverted'
               PROVE  /\ \A i \in 1..Len(gate.seen) : gate.seen[i] <= disk'[i]
                      /\ \A i \in 1..Len(gate.cand) : gate.cand[i] <= disk'[i]
                      /\ gate.pc = "measuring" /\ strayed' => \E i \in 1..GateFiles : gate.cand[i] < disk'[i]
                      /\ \A k \in Kinds : gathered[k].state = "PASS" /\ gathered[k].strayed =>
                           /\ gate.pc = FenceOf[k]
                           /\ \E i \in 1..GateFiles : /\ gate.cand[i] < disk'[i]
                                                      /\ i <= Len(gate.seen) => gate.cand[i] < gate.seen[i]
    BY <1>1 DEF CaptureSees
  <2>0. ~reverted /\ CaptureSees  BY <1>5 DEF GateInv
  <2>00. /\ gate.seen \in Seq(Nat) /\ Len(gate.seen) <= GateFiles /\ gate.cand \in Seq(Nat)
         /\ Len(gate.cand) <= GateFiles /\ GateFiles \in Nat
    BY GateAssumption DEF GateInv, GateTypeOK
  <2>1. \A i \in 1..Len(gate.seen) : gate.seen[i] <= disk'[i]
    <3> SUFFICES ASSUME NEW i \in 1..Len(gate.seen) PROVE gate.seen[i] <= disk'[i]
      OBVIOUS
    <3>1. i \in 1..GateFiles /\ gate.seen[i] \in Nat  BY <2>00
    <3>2. gate.seen[i] <= disk[i] /\ disk[i] <= disk'[i] /\ disk[i] \in Nat /\ disk'[i] \in Nat
      BY <1>2, <1>3, <1>5, <2>0, <3>1 DEF CaptureSees
    <3> QED BY <3>1, <3>2
  <2>2. \A i \in 1..Len(gate.cand) : gate.cand[i] <= disk'[i]
    <3> SUFFICES ASSUME NEW i \in 1..Len(gate.cand) PROVE gate.cand[i] <= disk'[i]
      OBVIOUS
    <3>1. i \in 1..GateFiles /\ gate.cand[i] \in Nat  BY <2>00
    <3>2. gate.cand[i] <= disk[i] /\ disk[i] <= disk'[i] /\ disk[i] \in Nat /\ disk'[i] \in Nat
      BY <1>2, <1>3, <1>5, <2>0, <3>1 DEF CaptureSees
    <3> QED BY <3>1, <3>2
  <2>3. ASSUME gate.pc = "measuring", strayed' PROVE \E i \in 1..GateFiles : gate.cand[i] < disk'[i]
    <3>1. Len(gate.cand) = GateFiles  BY <2>3 DEF GateInv, AuthorityEarned, BeforeCapture
    <3>2. CASE strayed
      <4>1. PICK i \in 1..GateFiles : gate.cand[i] < disk[i]  BY <2>0, <2>3, <3>2 DEF CaptureSees
      <4>2. gate.cand[i] \in Nat  BY <2>00, <3>1
      <4>3. disk[i] \in Nat /\ disk'[i] \in Nat /\ disk[i] <= disk'[i]  BY <1>2, <1>3, <1>5
      <4> QED BY <4>1, <4>2, <4>3
    <3>3. CASE ~strayed
      <4>1. disk' # gate.cand  BY <1>1, <2>3, <3>3
      <4>2. PICK i \in 1..GateFiles : disk'[i] # gate.cand[i]
        <5>1. gate.cand \in [1..GateFiles -> Nat]  BY <2>00, <3>1
        <5>2. ASSUME NEW a \in [1..GateFiles -> Nat], NEW b \in [1..GateFiles -> Nat], a # b
              PROVE  \E i \in 1..GateFiles : a[i] # b[i]
          BY <5>2, TreesDiffer
        <5> QED BY <1>3, <4>1, <5>1, <5>2
      <4>3. gate.cand[i] <= disk'[i] /\ gate.cand[i] \in Nat  BY <2>00, <2>2, <3>1
      <4>33. disk'[i] \in Nat  BY <1>3
      <4> QED BY <4>2, <4>3, <4>33
    <3> QED BY <3>2, <3>3
  <2>4. ASSUME NEW k \in Kinds, gathered[k].state = "PASS", gathered[k].strayed
        PROVE  /\ gate.pc = FenceOf[k]
               /\ \E i \in 1..GateFiles : /\ gate.cand[i] < disk'[i]
                                          /\ i <= Len(gate.seen) => gate.cand[i] < gate.seen[i]
    <3>1. /\ gate.pc = FenceOf[k]
          /\ \E i \in 1..GateFiles : /\ gate.cand[i] < disk[i]
                                     /\ i <= Len(gate.seen) => gate.cand[i] < gate.seen[i]
      BY <2>0, <2>4 DEF CaptureSees
    <3>2. PICK i \in 1..GateFiles : /\ gate.cand[i] < disk[i]
                                    /\ i <= Len(gate.seen) => gate.cand[i] < gate.seen[i]
      BY <3>1
    <3>3. Len(gate.cand) = GateFiles
      BY <3>1, FenceNames DEF GateInv, AuthorityEarned, BeforeCapture
    <3>4. gate.cand[i] \in Nat  BY <2>00, <3>3
    <3>5. disk[i] \in Nat /\ disk'[i] \in Nat /\ disk[i] <= disk'[i]  BY <1>2, <1>3, <1>5
    <3> QED BY <3>1, <3>2, <3>4, <3>5
  <2> QED BY <2>1, <2>2, <2>3, <2>4
<1> QED BY <1>4, <1>6 DEF GateInv

\* One more file is read, in a capture or at a fence.
LEMMA ReadStep == GateInv /\ ReadFile => GateInv'
<1> SUFFICES ASSUME GateInv, ReadFile PROVE GateInv'
  OBVIOUS
<1> DEFINE n == Len(gate.seen) + 1
           more == Append(gate.seen, disk[n])
<1>1. /\ gate.pc \in Collecting /\ Len(gate.seen) # GateFiles /\ gate' = [gate EXCEPT !.seen = more]
      /\ disk' = disk /\ reverted' = reverted /\ strayed' = strayed /\ gathered' = gathered
  BY DEF ReadFile, Quiet, Collected
<1>2. /\ gate.seen \in Seq(Nat) /\ Len(gate.seen) \in Nat /\ Len(gate.seen) <= GateFiles
      /\ DOMAIN gate = GateFields /\ disk \in [1..GateFiles -> Nat] /\ GateFiles \in Nat
  BY GateAssumption DEF GateInv, GateTypeOK
<1>3. n \in 1..GateFiles /\ disk[n] \in Nat  BY <1>1, <1>2
<1>4. /\ more \in Seq(Nat) /\ Len(more) = n
      /\ \A i \in 1..Len(gate.seen) : more[i] = gate.seen[i]
      /\ more[n] = disk[n]
  BY <1>2, <1>3, AppendProperties
<1>5. /\ DOMAIN gate' = GateFields /\ gate'.seen = more /\ gate'.pc = gate.pc
      /\ gate'.task = gate.task /\ gate'.cand = gate.cand /\ gate'.tested = gate.tested
      /\ gate'.authority = gate.authority /\ gate'.attempts = gate.attempts
      /\ gate'.repairs = gate.repairs /\ gate'.retried = gate.retried
  BY <1>1, <1>2 DEF GateFields
<1> HIDE DEF more
<1>6. GateTypeOK'
  BY <1>1, <1>2, <1>3, <1>4, <1>5 DEF GateInv, GateTypeOK
<1>7. gate.pc # "materialize" /\ gate.pc # "measuring"
  BY <1>1, FenceNames DEF Collecting, Fences
<1>8. AuthorityEarned' /\ AttemptsCounted'
  BY <1>5, <1>7 DEF GateInv, AuthorityEarned, AttemptsCounted
<1>9. CaptureSees'
  <2> SUFFICES ASSUME ~reverted'
               PROVE  /\ \A i \in 1..Len(more) : more[i] <= disk[i]
                      /\ \A i \in 1..Len(gate.cand) : gate.cand[i] <= disk[i]
                      /\ \A k \in Kinds : gathered[k].state = "PASS" /\ gathered[k].strayed =>
                           /\ gate.pc = FenceOf[k]
                           /\ \E f \in 1..GateFiles : /\ gate.cand[f] < disk[f]
                                                      /\ f <= Len(more) => gate.cand[f] < more[f]
    BY <1>1, <1>5, <1>7 DEF CaptureSees
  <2>0. ~reverted /\ CaptureSees  BY <1>1 DEF GateInv
  <2>1. \A i \in 1..Len(more) : more[i] <= disk[i]
    <3> SUFFICES ASSUME NEW i \in 1..Len(more) PROVE more[i] <= disk[i]
      OBVIOUS
    <3>1. CASE i = n  BY <1>3, <1>4, <3>1
    <3>2. CASE i # n
      <4>1. i \in 1..Len(gate.seen)  BY <1>2, <1>4, <3>2
      <4> QED BY <1>4, <2>0, <4>1 DEF CaptureSees
    <3> QED BY <3>1, <3>2
  <2>2. \A i \in 1..Len(gate.cand) : gate.cand[i] <= disk[i]  BY <2>0 DEF CaptureSees
  <2>3. ASSUME NEW k \in Kinds, gathered[k].state = "PASS", gathered[k].strayed
        PROVE  /\ gate.pc = FenceOf[k]
               /\ \E f \in 1..GateFiles : /\ gate.cand[f] < disk[f]
                                          /\ f <= Len(more) => gate.cand[f] < more[f]
    <3>1. gate.pc = FenceOf[k]  BY <2>0, <2>3 DEF CaptureSees
    <3>2. PICK f \in 1..GateFiles : /\ gate.cand[f] < disk[f]
                                    /\ f <= Len(gate.seen) => gate.cand[f] < gate.seen[f]
      BY <2>0, <2>3 DEF CaptureSees
    <3>3. ASSUME f <= Len(more) PROVE gate.cand[f] < more[f]
      <4>1. CASE f = n  BY <1>4, <3>2, <4>1
      <4>2. CASE f # n
        <5>1. f \in 1..Len(gate.seen) /\ f <= Len(gate.seen)  BY <1>2, <1>4, <3>3, <4>2
        <5> QED BY <1>4, <3>2, <5>1
      <4> QED BY <4>1, <4>2
    <3> QED BY <3>1, <3>2, <3>3
  <2> QED BY <2>1, <2>2, <2>3
<1> QED BY <1>6, <1>8, <1>9 DEF GateInv

\* A fence is left: the posture is void, or every file was read and is the candidate's.
LEMMA FenceLeft ==
  ASSUME GateInv, NEW k \in Kinds, gate.pc = FenceOf[k], gate' = Go(After(k)),
         UNCHANGED <<disk, edits, reverted, strayed>>,
         \/ gathered' = gathered /\ Len(gate.seen) = GateFiles /\ gate.seen = gate.cand
         \/ gathered' = [gathered EXCEPT ![k] = [gathered[k] EXCEPT !.state = "NOT_CHECKED"]]
  PROVE  GateInv'
<1>1. /\ DOMAIN gate = GateFields /\ gathered \in [Kinds -> [state : EvidenceStates, strayed : BOOLEAN]]
      /\ gate.pc \notin BeforeCapture \cup {"stopped"}
  BY FenceNames DEF GateInv, GateTypeOK, BeforeCapture
<1>2. /\ DOMAIN gate' = GateFields /\ gate'.pc = After(k) /\ gate'.seen = <<>>
      /\ gate'.task = gate.task /\ gate'.cand = gate.cand /\ gate'.tested = gate.tested
      /\ gate'.authority = gate.authority /\ gate'.attempts = gate.attempts
      /\ gate'.repairs = gate.repairs /\ gate'.retried = gate.retried
  BY <1>1, Goes
<1>3. After(k) \in {"RESILIENCE", "INDEPENDENT_REVIEW", "done"}  BY DEF After
<1>4. /\ gathered' \in [Kinds -> [state : EvidenceStates, strayed : BOOLEAN]]
      /\ \A j \in Kinds : j # k => gathered'[j] = gathered[j]
      /\ gathered'[k] = gathered[k] \/ gathered'[k].state = "NOT_CHECKED"
  BY <1>1 DEF EvidenceStates
<1>5. GateTypeOK'
  <2>1. <<>> \in Seq(Nat) /\ Len(<<>>) = 0  OBVIOUS
  <2> QED BY <1>2, <1>4, <2>1, GateAssumption DEF GateInv, GateTypeOK
<1>6. AuthorityEarned'
  BY <1>1, <1>2, <1>3 DEF GateInv, AuthorityEarned
<1>7. AttemptsCounted'
  BY <1>1, <1>2, <1>3 DEF GateInv, AttemptsCounted, BeforeCapture
<1>8. CaptureSees'
  <2> SUFFICES ASSUME ~reverted
               PROVE  /\ \A i \in 1..Len(gate.cand) : gate.cand[i] <= disk[i]
                      /\ \A j \in Kinds : ~(gathered'[j].state = "PASS" /\ gathered'[j].strayed)
    <3>1. Len(<<>>) = 0  OBVIOUS
    <3> QED BY <1>2, <1>3, <3>1 DEF CaptureSees
  <2>1. CaptureSees  BY DEF GateInv
  <2>2. \A i \in 1..Len(gate.cand) : gate.cand[i] <= disk[i]  BY <2>1 DEF CaptureSees
  <2>3. ASSUME NEW j \in Kinds, gathered'[j].state = "PASS", gathered'[j].strayed PROVE FALSE
    <3>1. gathered'[j] = gathered[j]  BY <1>4, <2>3
    <3>2. gate.pc = FenceOf[j] /\ j = k  BY <2>1, <2>3, <3>1, FenceNames DEF CaptureSees
    <3>3. Len(gate.seen) = GateFiles /\ gate.seen = gate.cand
      BY <1>1, <2>3, <3>1, <3>2
    <3>4. PICK f \in 1..GateFiles : f <= Len(gate.seen) => gate.cand[f] < gate.seen[f]
      BY <2>1, <2>3, <3>1 DEF CaptureSees
    <3>5. f <= GateFiles /\ gate.cand \in Seq(Nat) /\ Len(gate.cand) = GateFiles
      BY <3>3, GateAssumption DEF GateInv, GateTypeOK
    <3>6. gate.cand[f] \in Nat  BY <3>5
    <3> QED BY <3>3, <3>4, <3>5, <3>6
  <2> QED BY <2>2, <2>3
<1> QED BY <1>5, <1>6, <1>7, <1>8 DEF GateInv

\* What the invariant says of the local state before a step outside the fences.
LEMMA GateTyped ==
  ASSUME GateInv
  PROVE  /\ DOMAIN gate = GateFields /\ GateFiles \in Nat
         /\ gate.seen \in Seq(Nat) /\ gate.cand \in Seq(Nat)
         /\ gate.attempts \in Nat /\ gate.repairs \in Nat /\ MaxRepairAttempts \in Nat
         /\ gate.authority \in BOOLEAN /\ gate.retried \in BOOLEAN
BY GateAssumption DEF GateInv, GateTypeOK

\* The candidate is captured: it is what was read, and nothing is known of it.
LEMMA CaptureStep == GateInv /\ CaptureCandidate => GateInv'
<1> SUFFICES ASSUME GateInv, CaptureCandidate PROVE GateInv'
  OBVIOUS
<1> DEFINE step == IF gate.task.spec # "CONFIGURED" THEN "verified"
                   ELSE IF gate.task.verifier = "command" THEN "legacy" ELSE "materialize"
           g == Go(step)
<1>1. /\ gate.pc = "capture" /\ Len(gate.seen) = GateFiles /\ Quiet
      /\ gate' = [g EXCEPT !.cand = gate.seen, !.attempts = g.attempts + 1, !.previous = gate.state,
                     !.raw = "NOT_CHECKED", !.kind = "UNKNOWN", !.retrying = FALSE,
                     !.tested = <<>>, !.authority = FALSE]
  BY DEF CaptureCandidate, At, Collected
<1>2. /\ DOMAIN g = GateFields /\ g.pc = step /\ g.seen = <<>> /\ g.task = gate.task
      /\ g.attempts = gate.attempts /\ g.repairs = gate.repairs /\ g.retried = gate.retried
  BY GateTyped, Goes
<1> HIDE DEF g
<1>3. /\ DOMAIN gate' = GateFields /\ gate'.pc = step /\ gate'.seen = <<>> /\ gate'.cand = gate.seen
      /\ gate'.task = gate.task /\ gate'.authority = FALSE /\ gate'.attempts = gate.attempts + 1
      /\ gate'.repairs = gate.repairs /\ gate'.retried = gate.retried
  BY <1>1, <1>2 DEF GateFields
<1>4. /\ step \in {"verified", "legacy", "materialize"}
      /\ step = "legacy" => gate.task.verifier = "command"
  OBVIOUS
<1> HIDE DEF step
<1>5. AuthorityEarned'
  <2>1. Len(<<>>) = 0  OBVIOUS
  <2> QED BY <1>1, <1>3, <1>4, <2>1 DEF AuthorityEarned, BeforeCapture
<1>6. AttemptsCounted'
  <2>1. gate.repairs <= MaxRepairAttempts /\ gate.attempts <= gate.repairs + (IF gate.retried THEN 1 ELSE 0)
    BY <1>1, GateTyped DEF GateInv, AttemptsCounted, BeforeCapture
  <2>2. gate.attempts + 1 <= gate.repairs + 1 + (IF gate.retried THEN 1 ELSE 0)
    BY <2>1, GateTyped
  <2> QED BY <1>3, <1>4, <2>1, <2>2 DEF AttemptsCounted, BeforeCapture
<1> QED BY <1>1, <1>3, <1>4, <1>5, <1>6, GateTyped, FenceNames, QuietMove

\* The copy is made file by file; a file that changed after the capture ends it.
LEMMA MaterializeStep == GateInv /\ Materialize => GateInv'
<1> SUFFICES ASSUME GateInv, Materialize PROVE GateInv'
  OBVIOUS
<1> DEFINE n == Len(gate.seen) + 1
           more == Append(gate.seen, disk[n])
<1>1. /\ gate.pc = "materialize" /\ Len(gate.seen) # GateFiles /\ Quiet
      /\ gate' = IF disk[n] = gate.cand[n] THEN [gate EXCEPT !.seen = more]
                 ELSE [Go("verified") EXCEPT !.raw = "NOT_CHECKED", !.kind = "UNKNOWN"]
  BY DEF Materialize, At, Collected
<1>2. CASE disk[n] # gate.cand[n]
  <2> DEFINE g == Go("verified")
  <2>1. gate' = [g EXCEPT !.raw = "NOT_CHECKED", !.kind = "UNKNOWN"]  BY <1>1, <1>2
  <2>2. /\ DOMAIN g = GateFields /\ g.pc = "verified" /\ g.seen = <<>>
        /\ g.task = gate.task /\ g.cand = gate.cand /\ g.tested = gate.tested
        /\ g.authority = gate.authority /\ g.attempts = gate.attempts
        /\ g.repairs = gate.repairs /\ g.retried = gate.retried
    BY GateTyped, Goes
  <2> HIDE DEF g
  <2>3. /\ DOMAIN gate' = GateFields /\ gate'.pc = "verified" /\ gate'.seen = <<>>
        /\ gate'.task = gate.task /\ gate'.cand = gate.cand /\ gate'.tested = gate.tested
        /\ gate'.authority = gate.authority /\ gate'.attempts = gate.attempts
        /\ gate'.repairs = gate.repairs /\ gate'.retried = gate.retried
    BY <2>1, <2>2 DEF GateFields
  <2> QED BY <1>1, <2>3, FenceNames, MovesOn DEF BeforeCapture
<1>3. CASE disk[n] = gate.cand[n]
  <2>1. /\ gate.seen \in Seq(Nat) /\ Len(gate.seen) \in Nat /\ Len(gate.seen) <= GateFiles
        /\ DOMAIN gate = GateFields /\ disk \in [1..GateFiles -> Nat] /\ GateFiles \in Nat
    BY GateAssumption DEF GateInv, GateTypeOK
  <2>2. n \in 1..GateFiles /\ disk[n] \in Nat  BY <1>1, <2>1
  <2>3. /\ more \in Seq(Nat) /\ Len(more) = n
        /\ \A i \in 1..Len(gate.seen) : more[i] = gate.seen[i]
        /\ more[n] = disk[n]
    BY <2>1, <2>2, AppendProperties
  <2>4. /\ DOMAIN gate' = GateFields /\ gate'.seen = more /\ gate'.pc = gate.pc
        /\ gate'.task = gate.task /\ gate'.cand = gate.cand /\ gate'.tested = gate.tested
        /\ gate'.authority = gate.authority /\ gate'.attempts = gate.attempts
        /\ gate'.repairs = gate.repairs /\ gate'.retried = gate.retried
    BY <1>1, <1>3, <2>1 DEF GateFields
  <2>5. disk' = disk /\ reverted' = reverted /\ strayed' = strayed /\ gathered' = gathered
    BY <1>1 DEF Quiet
  <2>6. \A i \in 1..Len(more) : i = n \/ i \in 1..Len(gate.seen)  BY <2>1, <2>3
  <2> HIDE DEF more
  <2>7. GateTypeOK'
    <3>1. /\ gate'.seen \in Seq(Nat) /\ Len(gate'.seen) <= GateFiles
      BY <2>1, <2>2, <2>3, <2>4
    <3>2. /\ gate'.cand \in Seq(Nat) /\ Len(gate'.cand) <= GateFiles
          /\ gate'.attempts \in Nat /\ gate'.repairs \in Nat
          /\ gate'.authority \in BOOLEAN /\ gate'.retried \in BOOLEAN
      BY <2>4, Zenon DEF GateInv, GateTypeOK
    <3>3. /\ disk' \in [1..GateFiles -> Nat] /\ reverted' \in BOOLEAN /\ strayed' \in BOOLEAN
          /\ gathered' \in [Kinds -> [state : EvidenceStates, strayed : BOOLEAN]]
      BY <2>5, Zenon DEF GateInv, GateTypeOK
    <3> QED BY <2>4, <3>1, <3>2, <3>3, Zenon DEF GateTypeOK
  <2>8. \A i \in 1..Len(more) : more[i] = gate.cand[i]
    BY <1>1, <1>3, <2>3, <2>6 DEF GateInv, AuthorityEarned
  <2>9. AuthorityEarned' /\ AttemptsCounted'
    BY <1>1, <2>4, <2>8 DEF GateInv, AuthorityEarned, AttemptsCounted
  <2>10. CaptureSees'
    <3> SUFFICES ASSUME ~reverted
                 PROVE  /\ \A i \in 1..Len(more) : more[i] <= disk[i]
                        /\ \A i \in 1..Len(gate.cand) : gate.cand[i] <= disk[i]
                        /\ \A k \in Kinds : ~(gathered[k].state = "PASS" /\ gathered[k].strayed)
      BY <1>1, <2>4, <2>5 DEF CaptureSees
    <3>1. \A k \in Kinds : ~(gathered[k].state = "PASS" /\ gathered[k].strayed)
      BY <1>1, NoneStrayed, FenceNames
    <3>2. \A i \in 1..Len(more) : more[i] <= disk[i]
      BY <2>2, <2>3, <2>6 DEF GateInv, CaptureSees
    <3> QED BY <3>1, <3>2 DEF GateInv, CaptureSees
  <2> QED BY <2>7, <2>9, <2>10 DEF GateInv
<1> QED BY <1>2, <1>3

\* The verifier ran in the copy, which is the candidate.
LEMMA CommandStep == GateInv /\ RunCommand => GateInv'
<1> SUFFICES ASSUME GateInv, RunCommand PROVE GateInv'
  OBVIOUS
<1>1. gate.pc = "materialize" /\ Len(gate.seen) = GateFiles /\ Quiet
  BY DEF RunCommand, At, Collected
<1>2. gate.seen = gate.cand
  <2>1. Len(gate.cand) = GateFiles /\ \A i \in 1..Len(gate.seen) : gate.seen[i] = gate.cand[i]
    BY <1>1 DEF GateInv, AuthorityEarned, BeforeCapture
  <2>2. gate.seen \in [1..GateFiles -> Nat] /\ gate.cand \in [1..GateFiles -> Nat]
    <3>1. gate.seen \in Seq(Nat) /\ gate.cand \in Seq(Nat)  BY GateTyped
    <3> QED BY <1>1, <2>1, <3>1
  <2>3. \A a, b \in [1..GateFiles -> Nat] : a # b => \E i \in 1..GateFiles : a[i] # b[i]
    BY TreesDiffer
  <2> QED BY <1>1, <2>1, <2>2, <2>3
<1>3. PICK step \in {"authority", "verified"} : \E raw, kind :
        gate' = [Go(step) EXCEPT !.tested = gate.seen, !.raw = raw, !.kind = kind]
  <2>1. CASE gate' = [Go("authority") EXCEPT !.tested = gate.seen, !.raw = "VERIFIED"]
    <3>1. DOMAIN Go("authority") = GateFields  BY GateTyped, Goes
    <3>2. gate' = [Go("authority") EXCEPT !.tested = gate.seen, !.raw = "VERIFIED", !.kind = Go("authority").kind]
      BY <2>1, <3>1 DEF GateFields
    <3> QED BY <3>2
  <2>2. CASE \E e \in TestEvidence :
          gate' = [Go("verified") EXCEPT !.tested = gate.seen, !.raw = "QUARANTINED", !.kind = Attribute(e)]
    BY <2>2
  <2> QED BY <2>1, <2>2 DEF RunCommand
<1> DEFINE g == Go(step)
<1>4. /\ DOMAIN g = GateFields /\ g.pc = step /\ g.seen = <<>>
      /\ g.task = gate.task /\ g.cand = gate.cand
      /\ g.authority = gate.authority /\ g.attempts = gate.attempts
      /\ g.repairs = gate.repairs /\ g.retried = gate.retried
  BY GateTyped, Goes
<1>5. PICK raw, kind : gate' = [g EXCEPT !.tested = gate.seen, !.raw = raw, !.kind = kind]
  BY <1>3
<1> HIDE DEF g
<1>6. /\ DOMAIN gate' = GateFields /\ gate'.pc = step /\ gate'.seen = <<>>
      /\ gate'.task = gate.task /\ gate'.cand = gate.cand /\ gate'.tested = gate.seen
      /\ gate'.authority = gate.authority /\ gate'.attempts = gate.attempts
      /\ gate'.repairs = gate.repairs /\ gate'.retried = gate.retried
  BY <1>4, <1>5 DEF GateFields
<1>7. AuthorityEarned'
  BY <1>1, <1>2, <1>3, <1>6 DEF GateInv, AuthorityEarned, BeforeCapture
<1>8. AttemptsCounted'
  BY <1>1, <1>3, <1>6 DEF GateInv, AttemptsCounted, BeforeCapture
<1> QED BY <1>1, <1>3, <1>6, <1>7, <1>8, GateTyped, FenceNames, QuietMove

\* A verifier that reads the worktree: it has no authority to lose.
LEMMA LegacyStep == GateInv /\ RunLegacy => GateInv'
<1> SUFFICES ASSUME GateInv, RunLegacy PROVE GateInv'
  OBVIOUS
<1>1. gate.pc = "legacy" /\ Quiet  BY DEF RunLegacy, At
<1>2. PICK step \in {"authority", "verified"} : \E raw, kind :
        gate' = [Go(step) EXCEPT !.tested = disk, !.raw = raw, !.kind = kind]
  <2>1. CASE gate' = [Go("authority") EXCEPT !.tested = disk, !.raw = "VERIFIED"]
    <3>1. DOMAIN Go("authority") = GateFields  BY GateTyped, Goes
    <3>2. gate' = [Go("authority") EXCEPT !.tested = disk, !.raw = "VERIFIED", !.kind = Go("authority").kind]
      BY <2>1, <3>1 DEF GateFields
    <3> QED BY <3>2
  <2>2. CASE gate' = [Go("verified") EXCEPT !.tested = disk, !.raw = "QUARANTINED", !.kind = "UNKNOWN"]
    BY <2>2
  <2> QED BY <2>1, <2>2 DEF RunLegacy
<1> DEFINE g == Go(step)
<1>3. /\ DOMAIN g = GateFields /\ g.pc = step /\ g.seen = <<>>
      /\ g.task = gate.task /\ g.cand = gate.cand
      /\ g.authority = gate.authority /\ g.attempts = gate.attempts
      /\ g.repairs = gate.repairs /\ g.retried = gate.retried
  BY GateTyped, Goes
<1>4. PICK raw, kind : gate' = [g EXCEPT !.tested = disk, !.raw = raw, !.kind = kind]
  BY <1>2
<1> HIDE DEF g
<1>5. /\ DOMAIN gate' = GateFields /\ gate'.pc = step /\ gate'.seen = <<>>
      /\ gate'.task = gate.task /\ gate'.cand = gate.cand
      /\ gate'.authority = gate.authority /\ gate'.attempts = gate.attempts
      /\ gate'.repairs = gate.repairs /\ gate'.retried = gate.retried
  BY <1>3, <1>4 DEF GateFields
<1>6. AuthorityEarned'
  BY <1>1, <1>2, <1>5, GateTyped DEF GateInv, AuthorityEarned, BeforeCapture
<1>7. AttemptsCounted'
  BY <1>1, <1>2, <1>5 DEF GateInv, AttemptsCounted, BeforeCapture
<1> QED BY <1>1, <1>2, <1>5, <1>6, <1>7, GateTyped, FenceNames, QuietMove

\* The verdict is bound to the candidate it was made for.
LEMMA BindingStep == GateInv /\ AuthorityBinding => GateInv'
<1> SUFFICES ASSUME GateInv, AuthorityBinding PROVE GateInv'
  OBVIOUS
<1> DEFINE g == Go("fence")
<1>1. /\ gate.pc = "authority" /\ Quiet
      /\ gate' = [g EXCEPT !.authority = gate.task.verifier = "normalized-local"]
  BY DEF AuthorityBinding, At
<1>2. /\ DOMAIN g = GateFields /\ g.pc = "fence" /\ g.seen = <<>>
      /\ g.task = gate.task /\ g.cand = gate.cand /\ g.tested = gate.tested
      /\ g.attempts = gate.attempts /\ g.repairs = gate.repairs /\ g.retried = gate.retried
  BY GateTyped, Goes
<1> HIDE DEF g
<1>3. /\ DOMAIN gate' = GateFields /\ gate'.pc = "fence" /\ gate'.seen = <<>>
      /\ gate'.task = gate.task /\ gate'.cand = gate.cand /\ gate'.tested = gate.tested
      /\ gate'.authority = (gate.task.verifier = "normalized-local")
      /\ gate'.attempts = gate.attempts /\ gate'.repairs = gate.repairs /\ gate'.retried = gate.retried
  BY <1>1, <1>2 DEF GateFields
<1>4. AuthorityEarned'
  BY <1>1, <1>3 DEF GateInv, AuthorityEarned, BeforeCapture
<1>5. AttemptsCounted'
  BY <1>1, <1>3 DEF GateInv, AttemptsCounted, BeforeCapture
<1> QED BY <1>1, <1>3, <1>4, <1>5, GateTyped, FenceNames, QuietMove

\* The unchanged candidate is verified once more, and that once in all.
LEMMA RetryStep == GateInv /\ EnvironmentRetry => GateInv'
<1> SUFFICES ASSUME GateInv, EnvironmentRetry PROVE GateInv'
  OBVIOUS
<1> DEFINE step == IF gate.task.verifier = "command" THEN "legacy" ELSE "materialize"
           g == Go(step)
<1>1. /\ gate.pc = "judge" /\ ~gate.retried /\ Quiet
      /\ gate' = [g EXCEPT !.retried = TRUE, !.retrying = TRUE, !.attempts = g.attempts + 1]
  BY DEF EnvironmentRetry, At, MayRetry
<1>2. /\ DOMAIN g = GateFields /\ g.pc = step /\ g.seen = <<>>
      /\ g.task = gate.task /\ g.cand = gate.cand /\ g.tested = gate.tested
      /\ g.authority = gate.authority /\ g.attempts = gate.attempts /\ g.repairs = gate.repairs
  BY GateTyped, Goes
<1> HIDE DEF g
<1>3. /\ DOMAIN gate' = GateFields /\ gate'.pc = step /\ gate'.seen = <<>>
      /\ gate'.task = gate.task /\ gate'.cand = gate.cand /\ gate'.tested = gate.tested
      /\ gate'.authority = gate.authority /\ gate'.attempts = gate.attempts + 1
      /\ gate'.repairs = gate.repairs /\ gate'.retried = TRUE
  BY <1>1, <1>2 DEF GateFields
<1>4. step \in {"legacy", "materialize"} /\ (step = "legacy" => gate.task.verifier = "command")
  OBVIOUS
<1> HIDE DEF step
<1>5. AuthorityEarned'
  <2>1. Len(<<>>) = 0  OBVIOUS
  <2> QED BY <1>1, <1>3, <1>4, <2>1 DEF GateInv, AuthorityEarned, BeforeCapture
<1>6. AttemptsCounted'
  <2>1. gate.repairs <= MaxRepairAttempts /\ gate.attempts <= gate.repairs + 1
    BY <1>1, GateTyped DEF GateInv, AttemptsCounted, BeforeCapture
  <2>2. gate.attempts + 1 <= gate.repairs + 1 + 1  BY <2>1, GateTyped
  <2> QED BY <1>3, <1>4, <2>1, <2>2 DEF AttemptsCounted, BeforeCapture
<1> QED BY <1>1, <1>3, <1>4, <1>5, <1>6, GateTyped, FenceNames, QuietMove

\* The agent repairs it in a session of its own, or the run stops.
LEMMA RepairStep == GateInv /\ RepairOrStop => GateInv'
<1> SUFFICES ASSUME GateInv, RepairOrStop PROVE GateInv'
  OBVIOUS
<1>1. gate.pc = "judge" /\ Quiet  BY DEF RepairOrStop, At
<1>2. CASE gate' = Go("stopped")
  BY <1>1, <1>2, GateTyped, Goes, FenceNames, MovesOn DEF BeforeCapture
<1>3. CASE MayRepair /\ gate' = [Go("session") EXCEPT !.repairs = @ + 1, !.last = gate.cand]
  <2> DEFINE g == Go("session")
  <2>1. gate' = [g EXCEPT !.repairs = g.repairs + 1, !.last = gate.cand] /\ gate.repairs < MaxRepairAttempts
    BY <1>3 DEF MayRepair
  <2>2. /\ DOMAIN g = GateFields /\ g.pc = "session" /\ g.seen = <<>>
        /\ g.task = gate.task /\ g.cand = gate.cand /\ g.tested = gate.tested
        /\ g.authority = gate.authority /\ g.attempts = gate.attempts
        /\ g.repairs = gate.repairs /\ g.retried = gate.retried
    BY GateTyped, Goes
  <2> HIDE DEF g
  <2>3. /\ DOMAIN gate' = GateFields /\ gate'.pc = "session" /\ gate'.seen = <<>>
        /\ gate'.task = gate.task /\ gate'.cand = gate.cand /\ gate'.tested = gate.tested
        /\ gate'.authority = gate.authority /\ gate'.attempts = gate.attempts
        /\ gate'.repairs = gate.repairs + 1 /\ gate'.retried = gate.retried
    BY <2>1, <2>2 DEF GateFields
  <2>4. AuthorityEarned'
    BY <1>1, <2>3 DEF GateInv, AuthorityEarned, BeforeCapture
  <2>5. AttemptsCounted'
    <3>1. gate.attempts <= gate.repairs + 1 + (IF gate.retried THEN 1 ELSE 0)
      BY <1>1 DEF GateInv, AttemptsCounted, BeforeCapture
    <3>2. /\ gate.repairs + 1 <= MaxRepairAttempts
          /\ gate.attempts <= (gate.repairs + 1) + 0 + (IF gate.retried THEN 1 ELSE 0)
      BY <2>1, <3>1, GateTyped
    <3> QED BY <2>3, <3>2 DEF AttemptsCounted, BeforeCapture
  <2> QED BY <1>1, <2>3, <2>4, <2>5, GateTyped, FenceNames, QuietMove
<1> QED BY <1>2, <1>3 DEF RepairOrStop

\* A measurement starts: it has strayed already if the worktree is not the candidate.
LEMMA StartStep ==
  ASSUME GateInv, NEW k \in Kinds, StartMeasure(k)
  PROVE  GateInv'
<1>0. strayed' \in BOOLEAN /\ (strayed' => disk # gate.cand)  BY DEF StartMeasure
<1>1. /\ gate.pc = k /\ gate' = Go("measuring")
      /\ gathered' = [gathered EXCEPT ![k] = [gathered[k] EXCEPT !.state = "RUNNING"]]
      /\ disk' = disk /\ reverted' = reverted
  BY DEF StartMeasure, At
<1>2. /\ DOMAIN gate' = GateFields /\ gate'.pc = "measuring" /\ gate'.seen = <<>>
      /\ gate'.task = gate.task /\ gate'.cand = gate.cand /\ gate'.tested = gate.tested
      /\ gate'.authority = gate.authority /\ gate'.attempts = gate.attempts
      /\ gate'.repairs = gate.repairs /\ gate'.retried = gate.retried
  BY <1>1, GateTyped, Goes
<1>3. /\ gate.pc \notin BeforeCapture \cup {"stopped"} /\ gate.pc \notin Fences
      /\ Len(gate.cand) = GateFiles
  BY <1>1, FenceNames DEF GateInv, AuthorityEarned, BeforeCapture, Kinds
<1>4. gathered \in [Kinds -> [state : EvidenceStates, strayed : BOOLEAN]] /\ disk \in [1..GateFiles -> Nat]
  BY DEF GateInv, GateTypeOK
<1>5. /\ gathered' \in [Kinds -> [state : EvidenceStates, strayed : BOOLEAN]]
      /\ \A j \in Kinds : j # k => gathered'[j] = gathered[j]
      /\ gathered'[k].state = "RUNNING"
  BY <1>1, <1>4 DEF EvidenceStates
<1>6. <<>> \in Seq(Nat) /\ Len(<<>>) = 0  OBVIOUS
<1>7. /\ gate'.seen \in Seq(Nat) /\ Len(gate'.seen) <= GateFiles
      /\ gate'.cand \in Seq(Nat) /\ Len(gate'.cand) <= GateFiles
      /\ gate'.attempts \in Nat /\ gate'.repairs \in Nat
      /\ gate'.authority \in BOOLEAN /\ gate'.retried \in BOOLEAN
  BY <1>2, <1>6, GateAssumption DEF GateInv, GateTypeOK
<1>8. GateTypeOK'
  <2>1. disk' \in [1..GateFiles -> Nat] /\ reverted' \in BOOLEAN
    BY <1>1 DEF GateInv, GateTypeOK
  <2>2. strayed' \in BOOLEAN  BY <1>0
  <2>3. DOMAIN gate' = GateFields  BY <1>2
  <2>4. gathered' \in [Kinds -> [state : EvidenceStates, strayed : BOOLEAN]]  BY <1>5
  <2> QED BY <1>7, <2>1, <2>2, <2>3, <2>4, Zenon DEF GateTypeOK
<1>9. AuthorityEarned' /\ AttemptsCounted'
  BY <1>2, <1>3 DEF GateInv, AuthorityEarned, AttemptsCounted, BeforeCapture
<1>10. CaptureSees'
  <2> SUFFICES ASSUME ~reverted
               PROVE  /\ \A i \in 1..Len(gate.cand) : gate.cand[i] <= disk[i]
                      /\ disk # gate.cand => \E f \in 1..GateFiles : gate.cand[f] < disk[f]
                      /\ \A j \in Kinds : ~(gathered'[j].state = "PASS" /\ gathered'[j].strayed)
    BY <1>0, <1>1, <1>2, <1>6 DEF CaptureSees
  <2>1. \A i \in 1..Len(gate.cand) : gate.cand[i] <= disk[i]  BY DEF GateInv, CaptureSees
  <2>2. ASSUME disk # gate.cand PROVE \E f \in 1..GateFiles : gate.cand[f] < disk[f]
    <3>1. gate.cand \in [1..GateFiles -> Nat]  BY <1>3, GateTyped
    <3>2. \A a, b \in [1..GateFiles -> Nat] : a # b => \E i \in 1..GateFiles : a[i] # b[i]
      BY TreesDiffer
    <3>3. PICK f \in 1..GateFiles : disk[f] # gate.cand[f]  BY <1>4, <2>2, <3>1, <3>2
    <3>4. gate.cand[f] <= disk[f] /\ gate.cand[f] \in Nat /\ disk[f] \in Nat
      BY <1>3, <1>4, <2>1, <3>1
    <3> QED BY <3>3, <3>4
  <2>3. \A j \in Kinds : ~(gathered'[j].state = "PASS" /\ gathered'[j].strayed)
    BY <1>3, <1>5, NoneStrayed
  <2> QED BY <2>1, <2>2, <2>3
<1> QED BY <1>8, <1>9, <1>10 DEF GateInv

\* It ends: what it found is kept with whether it strayed, until its fence.
LEMMA EndStep ==
  ASSUME GateInv, NEW k \in Kinds, NEW o \in {"PASS", "FAIL", "NOT_CHECKED"}, EndMeasure(k, o)
  PROVE  GateInv'
<1>1. /\ gate.pc = "measuring" /\ gate' = Go(FenceOf[k])
      /\ gathered' = [gathered EXCEPT ![k] = [state |-> o, strayed |-> strayed]]
      /\ disk' = disk /\ reverted' = reverted /\ strayed' = strayed
  BY DEF EndMeasure, At
<1>2. /\ DOMAIN gate' = GateFields /\ gate'.pc = FenceOf[k] /\ gate'.seen = <<>>
      /\ gate'.task = gate.task /\ gate'.cand = gate.cand /\ gate'.tested = gate.tested
      /\ gate'.authority = gate.authority /\ gate'.attempts = gate.attempts
      /\ gate'.repairs = gate.repairs /\ gate'.retried = gate.retried
  BY <1>1, GateTyped, Goes
<1>3. /\ gate.pc \notin BeforeCapture \cup {"stopped"} /\ gate.pc \notin Fences
      /\ FenceOf[k] \in Fences /\ FenceOf[k] # "measuring"
      /\ FenceOf[k] \notin BeforeCapture \cup {"stopped", "legacy", "materialize", "authority", "idle"}
  BY <1>1, FenceNames DEF BeforeCapture
<1>4. gathered \in [Kinds -> [state : EvidenceStates, strayed : BOOLEAN]] /\ strayed \in BOOLEAN
  BY DEF GateInv, GateTypeOK
<1>5. /\ gathered' \in [Kinds -> [state : EvidenceStates, strayed : BOOLEAN]]
      /\ \A j \in Kinds : j # k => gathered'[j] = gathered[j]
      /\ gathered'[k] = [state |-> o, strayed |-> strayed]
  BY <1>1, <1>4 DEF EvidenceStates
<1>6. <<>> \in Seq(Nat) /\ Len(<<>>) = 0  OBVIOUS
<1>7. GateTypeOK'
  BY <1>1, <1>2, <1>5, <1>6, GateAssumption DEF GateInv, GateTypeOK
<1>8. AuthorityEarned' /\ AttemptsCounted'
  BY <1>2, <1>3 DEF GateInv, AuthorityEarned, AttemptsCounted
<1>9. CaptureSees'
  <2> SUFFICES ASSUME ~reverted
               PROVE  /\ \A i \in 1..Len(gate.cand) : gate.cand[i] <= disk[i]
                      /\ \A j \in Kinds : gathered'[j].state = "PASS" /\ gathered'[j].strayed =>
                           j = k /\ \E f \in 1..GateFiles : gate.cand[f] < disk[f]
    <3>1. \A f \in 1..GateFiles : ~(f <= 0)  BY GateAssumption
    <3> QED BY <1>1, <1>2, <1>3, <1>6, <3>1 DEF CaptureSees
  <2>1. \A i \in 1..Len(gate.cand) : gate.cand[i] <= disk[i]  BY DEF GateInv, CaptureSees
  <2>2. ASSUME NEW j \in Kinds, gathered'[j].state = "PASS", gathered'[j].strayed
        PROVE  j = k /\ \E f \in 1..GateFiles : gate.cand[f] < disk[f]
    <3>1. j = k  BY <1>3, <1>5, <2>2, NoneStrayed
    <3>2. strayed  BY <1>5, <2>2, <3>1
    <3> QED BY <1>1, <3>1, <3>2 DEF GateInv, CaptureSees
  <2> QED BY <2>1, <2>2
<1> QED BY <1>7, <1>8, <1>9 DEF GateInv

\* Every step keeps the invariant.
LEMMA GateStep == GateInv /\ [GateNext]_gateVars => GateInv'
<1> SUFFICES ASSUME GateInv, [GateNext]_gateVars PROVE GateInv'
  OBVIOUS
<1> USE FenceNames
<1>1. CASE UNCHANGED gateVars
  BY <1>1 DEF gateVars, GateInv, GateTypeOK, AuthorityEarned, AttemptsCounted, CaptureSees
<1>2. ASSUME NEW f \in 1..GateFiles, NEW c \in Contents, Edit(f, c) PROVE GateInv'
  BY <1>2, EditStep
<1>3. ASSUME NEW t \in GateTasks, Begin(t) PROVE GateInv'
  <2> DEFINE g == Go("session")
  <2>1. gate.pc = "idle" /\ gate' = [g EXCEPT !.task = t] /\ Quiet  BY <1>3 DEF Begin, At
  <2>2. /\ DOMAIN g = GateFields /\ g.pc = "session" /\ g.seen = <<>>
        /\ g.cand = gate.cand /\ g.tested = gate.tested
        /\ g.authority = gate.authority /\ g.attempts = gate.attempts
        /\ g.repairs = gate.repairs /\ g.retried = gate.retried
    BY GateTyped, Goes
  <2> HIDE DEF g
  <2>3. /\ DOMAIN gate' = GateFields /\ gate'.pc = "session" /\ gate'.seen = <<>>
        /\ gate'.cand = gate.cand /\ gate'.tested = gate.tested
        /\ gate'.authority = gate.authority /\ gate'.attempts = gate.attempts
        /\ gate'.repairs = gate.repairs /\ gate'.retried = gate.retried
    BY <2>1, <2>2 DEF GateFields
  <2>4. ~gate.authority  BY <2>1 DEF GateInv, AuthorityEarned
  <2> QED BY <2>1, <2>3, <2>4, MovesOn DEF BeforeCapture
<1>4. CASE EndSession
  BY <1>4, GateTyped, Goes, MovesOn DEF EndSession, At, BeforeCapture
<1>5. CASE ReadFile  BY <1>5, ReadStep
<1>6. CASE CaptureCandidate  BY <1>6, CaptureStep
<1>7. CASE CaptureFails
  <2>1. CASE gate.pc \in {"capture", "capabilityFence"}
    <3>1. gate' = Go("stopped") /\ Quiet  BY <1>7, <2>1 DEF CaptureFails
    <3> QED BY <2>1, <3>1, GateTyped, Goes, MovesOn DEF BeforeCapture
  <2>2. CASE gate.pc \notin {"capture", "capabilityFence"}
    <3>1. PICK k \in Kinds : /\ gate.pc = FenceOf[k] /\ gate' = Go(After(k))
                             /\ gathered' = [gathered EXCEPT ![k] = [gathered[k] EXCEPT !.state = "NOT_CHECKED"]]
                             /\ UNCHANGED <<disk, edits, reverted, strayed>>
      BY <1>7, <2>2 DEF CaptureFails
    <3> QED BY <3>1, FenceLeft
  <2> QED BY <2>1, <2>2
<1>8. CASE Materialize  BY <1>8, MaterializeStep
<1>9. CASE RunCommand  BY <1>9, CommandStep
<1>10. CASE RunLegacy  BY <1>10, LegacyStep
<1>11. CASE AuthorityBinding  BY <1>11, BindingStep
<1>12. ASSUME Fence \/ Unverified PROVE GateInv'
  <2> DEFINE g == Go("judge")
  <2>1. PICK state : /\ gate.pc \in {"fence", "verified"} /\ Quiet
                     /\ gate' = [g EXCEPT !.previous = gate.state, !.state = state]
    BY <1>12 DEF Fence, Unverified, At
  <2>2. /\ DOMAIN g = GateFields /\ g.pc = "judge" /\ g.seen = <<>>
        /\ g.task = gate.task /\ g.cand = gate.cand /\ g.tested = gate.tested
        /\ g.authority = gate.authority /\ g.attempts = gate.attempts
        /\ g.repairs = gate.repairs /\ g.retried = gate.retried
    BY GateTyped, Goes
  <2> HIDE DEF g
  <2>3. /\ DOMAIN gate' = GateFields /\ gate'.pc = "judge" /\ gate'.seen = <<>>
        /\ gate'.task = gate.task /\ gate'.cand = gate.cand /\ gate'.tested = gate.tested
        /\ gate'.authority = gate.authority /\ gate'.attempts = gate.attempts
        /\ gate'.repairs = gate.repairs /\ gate'.retried = gate.retried
    BY <2>1, <2>2 DEF GateFields
  <2> QED BY <2>1, <2>3, MovesOn DEF BeforeCapture
<1>13. CASE Accept
  BY <1>13, GateTyped, Goes, MovesOn DEF Accept, At, BeforeCapture
<1>14. CASE Discard
  BY <1>14, GateTyped, Goes, MovesOn DEF Discard, At, BeforeCapture
<1>15. CASE EnvironmentRetry  BY <1>15, RetryStep
<1>16. CASE RepairOrStop  BY <1>16, RepairStep
<1>17. CASE RunCapabilities
  BY <1>17, GateTyped, Goes, MovesOn DEF RunCapabilities, At, BeforeCapture
<1>18. CASE CapabilityFence
  <2>1. PICK step \in {"PERFORMANCE", "stopped"} :
           gate' = Go(step) /\ gate.pc = "capabilityFence" /\ Quiet
    BY <1>18 DEF CapabilityFence, At
  <2> QED BY <2>1, GateTyped, Goes, MovesOn DEF BeforeCapture
<1>19. ASSUME NEW k \in Kinds, Skip(k) PROVE GateInv'
  <2>1. gate.pc = k /\ gate' = Go(After(k)) /\ Quiet  BY <1>19 DEF Skip, At
  <2>2. After(k) \in {"RESILIENCE", "INDEPENDENT_REVIEW", "done"}  BY DEF After
  <2>3. gate.pc \in {"PERFORMANCE", "RESILIENCE", "INDEPENDENT_REVIEW"}  BY <2>1 DEF Kinds
  <2> QED BY <2>1, <2>2, <2>3, GateTyped, Goes, MovesOn DEF BeforeCapture
<1>20. ASSUME NEW k \in Kinds, StartMeasure(k) PROVE GateInv'  BY <1>20, StartStep
<1>21. ASSUME NEW k \in Kinds, EvidenceFence(k) PROVE GateInv'
  <2>1. /\ gate.pc = FenceOf[k] /\ Len(gate.seen) = GateFiles /\ gate' = Go(After(k))
        /\ UNCHANGED <<disk, edits, reverted, strayed>>
        /\ \/ gathered' = gathered /\ gate.seen = gate.cand
           \/ gathered' = [gathered EXCEPT ![k] = [gathered[k] EXCEPT !.state = "NOT_CHECKED"]]
    BY <1>21 DEF EvidenceFence, At, Collected
  <2> QED BY <2>1, FenceLeft
<1>22. ASSUME NEW k \in Kinds, NEW o \in {"PASS", "FAIL", "NOT_CHECKED"}, EndMeasure(k, o) PROVE GateInv'
  BY <1>22, EndStep
<1> QED BY <1>1, <1>2, <1>3, <1>4, <1>5, <1>6, <1>7, <1>8, <1>9, <1>10, <1>11, <1>12, <1>13, <1>14,
           <1>15, <1>16, <1>17, <1>18, <1>19, <1>20, <1>21, <1>22
        DEF GateNext

\* For every number of files, every task and every writer in the worktree: an authorised
\* verification tested the bytes of the candidate, no passing posture strayed from it
\* while no bytes came back, and the loop's verifications are counted.
THEOREM GateHolds == GateSpec => []GateIsSound
<1>1. GateInit => GateInv
  <2> SUFFICES ASSUME GateInit PROVE GateInv
    OBVIOUS
  <2>1. /\ disk = [f \in 1..GateFiles |-> 0] /\ reverted = FALSE /\ strayed = FALSE
        /\ gathered = [k \in Kinds |-> NoEvidence]
        /\ DOMAIN gate = GateFields /\ gate.pc = "idle" /\ gate.seen = <<>> /\ gate.cand = <<>>
        /\ gate.attempts = 0 /\ gate.repairs = 0 /\ gate.authority = FALSE /\ gate.retried = FALSE
    BY DEF GateInit, FreshGate, GateFields
  <2>2. <<>> \in Seq(Nat) /\ Len(<<>>) = 0  OBVIOUS
  <2>3. GateTypeOK
    <3>1. disk \in [1..GateFiles -> Nat]  BY <2>1
    <3>2. gathered \in [Kinds -> [state : EvidenceStates, strayed : BOOLEAN]]
      BY <2>1 DEF NoEvidence, EvidenceStates
    <3>3. /\ gate.seen \in Seq(Nat) /\ Len(gate.seen) <= GateFiles
          /\ gate.cand \in Seq(Nat) /\ Len(gate.cand) <= GateFiles
          /\ gate.attempts \in Nat /\ gate.repairs \in Nat
      BY <2>1, <2>2, GateAssumption
    <3>4. /\ reverted \in BOOLEAN /\ strayed \in BOOLEAN
          /\ gate.authority \in BOOLEAN /\ gate.retried \in BOOLEAN
      BY <2>1
    <3>5. DOMAIN gate = GateFields  BY <2>1
    <3> QED BY <3>1, <3>2, <3>3, <3>4, <3>5, Zenon DEF GateTypeOK
  <2>4. AuthorityEarned /\ AttemptsCounted
    BY <2>1, GateAssumption DEF AuthorityEarned, AttemptsCounted, BeforeCapture
  <2>5. CaptureSees
    BY <2>1, <2>2 DEF CaptureSees, NoEvidence
  <2> QED BY <2>3, <2>4, <2>5 DEF GateInv
<1>2. GateInv => GateIsSound
  <2> SUFFICES ASSUME GateInv PROVE GateIsSound
    OBVIOUS
  <2>1. VerifiedIsTested  BY DEF GateInv, AuthorityEarned, VerifiedIsTested
  <2>2. EvidenceIsOfCandidate
    BY NoneStrayed, FenceNames DEF EvidenceIsOfCandidate
  <2>3. AttemptsBounded
    BY GateTyped DEF GateInv, AttemptsCounted, AttemptsBounded
  <2> QED BY <2>1, <2>2, <2>3 DEF GateIsSound
<1> QED BY <1>1, <1>2, GateStep, PTL DEF GateSpec

-----------------------------------------------------------------------------
(* TrustFold. *)

\* What the inputs keep; everything else is derived from them at once.
TrustInv ==
  /\ counts \in [RiskDimensions -> Nat]
  /\ DOMAIN checked = {"verification", "performance", "resilience"}
  /\ \A c \in raised : c.class \in LanguageClasses
  /\ records \subseteq ConcernRecords

ReadingLevels == {"FULL", "PARTIAL", "UNSUPPORTED"}

\* Every line of the adequacy matrix says of each language class how far it is read.
LEMMA MatrixReads == \A e \in Establishments : e.negativeReads \in [LanguageClasses -> ReadingLevels]
<1>1. \A full, partial : Reads(full, partial) \in [LanguageClasses -> ReadingLevels]
  BY DEF Reads, ReadingLevels
<1>2. Nothing \in [LanguageClasses -> ReadingLevels]  BY <1>1 DEF Nothing
<1>3. \A capability, concern, strength, claims, reads :
        \A negativeReads \in [LanguageClasses -> ReadingLevels] :
          Establishes(capability, concern, strength, claims, reads, negativeReads).negativeReads
             \in [LanguageClasses -> ReadingLevels]
  BY DEF Establishes
<1>4. \A capability, concern, strength : \A reads \in [LanguageClasses -> ReadingLevels] :
        BothWays(capability, concern, strength, reads).negativeReads \in [LanguageClasses -> ReadingLevels]
  BY DEF Establishes, BothWays
<1>5. \A e \in DiscoveryEstablishments : e.negativeReads \in [LanguageClasses -> ReadingLevels]
  BY <1>1, <1>2, <1>3 DEF DiscoveryEstablishments
<1>6. \A e \in SecurityEstablishments : e.negativeReads \in [LanguageClasses -> ReadingLevels]
  BY <1>1, <1>2, <1>3, <1>4 DEF SecurityEstablishments
<1>7. \A e \in ResilienceEstablishments : e.negativeReads \in [LanguageClasses -> ReadingLevels]
  BY <1>1, <1>2, <1>3, <1>4 DEF ResilienceEstablishments
<1> QED BY <1>5, <1>6, <1>7 DEF Establishments

\* There is a worst reading.
LEMMA WorstIsRead ==
  ASSUME NEW S \in SUBSET ReadingLevels, S # {}
  PROVE  WorstOf(S) \in S /\ \A d \in S : CoverageRank(WorstOf(S)) <= CoverageRank(d)
<1>1. /\ CoverageRank("FULL") = 2 /\ CoverageRank("PARTIAL") = 1 /\ CoverageRank("UNSUPPORTED") = 0
  BY DEF CoverageRank
<1>2. \E c \in S : \A d \in S : CoverageRank(c) <= CoverageRank(d)
  <2>1. CASE "UNSUPPORTED" \in S  BY <1>1, <2>1 DEF ReadingLevels
  <2>2. CASE "UNSUPPORTED" \notin S /\ "PARTIAL" \in S  BY <1>1, <2>2 DEF ReadingLevels
  <2>3. CASE "UNSUPPORTED" \notin S /\ "PARTIAL" \notin S
    <3>1. \A d \in S : d = "FULL"  BY <2>3 DEF ReadingLevels
    <3> QED BY <1>1, <3>1
  <2> QED BY <2>1, <2>2, <2>3
<1> QED BY <1>2 DEF WorstOf

\* It decides: when it is covered, all are read in full.
LEMMA WorstDecides ==
  ASSUME NEW S \in SUBSET ReadingLevels, CoversAll(WorstOf(S)), NEW x \in S
  PROVE  x = "FULL"
<1>1. /\ CoverageRank("FULL") = 2 /\ CoverageRank("PARTIAL") = 1 /\ CoverageRank("UNSUPPORTED") = 0
  BY DEF CoverageRank
<1>3. WorstOf(S) \in S /\ \A d \in S : CoverageRank(WorstOf(S)) <= CoverageRank(d)
  BY WorstIsRead
<1>4. WorstOf(S) = "FULL"  BY <1>3 DEF CoversAll, ReadingLevels
<1>5. 2 <= CoverageRank(x)  BY <1>1, <1>3, <1>4
<1> QED BY <1>1, <1>5 DEF ReadingLevels

\* The weaker of two coverages covers all exactly when both do.
LEMMA WeakerCovers ==
  ASSUME NEW x \in {"UNSUPPORTED", "PARTIAL", "FULL", "NOT_APPLICABLE"},
         NEW y \in {"UNSUPPORTED", "PARTIAL", "FULL", "NOT_APPLICABLE"}
  PROVE  CoversAll(WeakerCoverage(x, y)) <=> CoversAll(x) /\ CoversAll(y)
BY DEF CoversAll, WeakerCoverage, CoverageRank

\* What the matrix answers is a coverage.
LEMMA CoverageIsOne ==
  ASSUME NEW by, NEW concern, NEW classes \in SUBSET LanguageClasses
  PROVE  CapabilityCoverageFor(by, concern, classes, Negative)
            \in {"UNSUPPORTED", "PARTIAL", "FULL", "NOT_APPLICABLE"}
<1> DEFINE e == CHOOSE x \in Entries(by, concern) : TRUE
           S == {e.negativeReads[c] : c \in classes}
<1>1. CASE Entries(by, concern) = {}  BY <1>1 DEF CapabilityCoverageFor
<1>2. CASE Entries(by, concern) # {}
  <2>1. e \in Entries(by, concern)  BY <1>2
  <2>2. e.negativeReads \in [LanguageClasses -> ReadingLevels]  BY <2>1, MatrixReads DEF Entries
  <2>3. CapabilityCoverageFor(by, concern, classes, Negative) = WorstOf(S)
    BY <1>2 DEF CapabilityCoverageFor
  <2> HIDE DEF e
  <2>4. S \in SUBSET ReadingLevels  BY <2>2
  <2> HIDE DEF S
  <2>5. S = {} => WorstOf(S) = "NOT_APPLICABLE"  BY DEF WorstOf
  <2>6. S # {} => WorstOf(S) \in ReadingLevels  BY <2>4, WorstIsRead
  <2> QED BY <2>3, <2>5, <2>6 DEF ReadingLevels
<1> QED BY <1>1, <1>2

\* Nothing is worse than FULL where all is FULL.
LEMMA WorstOfFull == WorstOf({"FULL"}) = "FULL"
<1>1. CoverageRank("FULL") = 2  BY DEF CoverageRank
<1>2. \A c \in {"FULL"} : c = "FULL" /\ \A d \in {"FULL"} : CoverageRank(c) <= CoverageRank(d)
  BY <1>1
<1>3. {"FULL"} # {}  OBVIOUS
<1> QED BY <1>2, <1>3 DEF WorstOf

\* A negative claim that covers the classes a concern was found in reads each in full.
LEMMA CoverageFans ==
  ASSUME NEW by, NEW concern, NEW classes \in SUBSET LanguageClasses, NEW class \in classes,
         CoversAll(CapabilityCoverageFor(by, concern, classes, Negative))
  PROVE  CapabilityCoverageFor(by, concern, {class}, Negative) = "FULL"
<1> DEFINE e == CHOOSE x \in Entries(by, concern) : TRUE
           S == {e.negativeReads[c] : c \in classes}
           T == {e.negativeReads[c] : c \in {class}}
<1>1. Entries(by, concern) # {}  BY DEF CapabilityCoverageFor, CoversAll
<1>2. e \in Establishments
  <2>1. e \in Entries(by, concern)  BY <1>1
  <2> QED BY <2>1 DEF Entries
<1>3. e.negativeReads \in [LanguageClasses -> ReadingLevels]  BY <1>2, MatrixReads
<1>4. /\ CapabilityCoverageFor(by, concern, classes, Negative) = WorstOf(S)
      /\ CapabilityCoverageFor(by, concern, {class}, Negative) = WorstOf(T)
  BY <1>1 DEF CapabilityCoverageFor
<1> HIDE DEF e
<1>5. S \in SUBSET ReadingLevels /\ e.negativeReads[class] \in S  BY <1>3
<1>6. e.negativeReads[class] = "FULL"  BY <1>4, <1>5, WorstDecides
<1>7. T = {"FULL"}  BY <1>6
<1> HIDE DEF S, T
<1> QED BY <1>4, <1>7, WorstOfFull

\* A merge-eligible candidate is verified and leaves no material obligation open.
LEMMA NothingOpen ==
  ASSUME MergeEligible
  PROVE  /\ checked.verification = "VERIFIED"
         /\ \A o \in Obligations(records) : o.material => o.status \in {"PASS", "NOT_REQUIRED"}
<1>1. checked.verification = "VERIFIED"  BY DEF MergeEligible, Trust
<1>2. Unresolved(records) = {}  BY DEF MergeEligible, Trust
<1> QED BY <1>1, <1>2 DEF Unresolved

\* What the plan asks for is an obligation.
LEMMA Planned ==
  ASSUME NEW check \in RequiredChecks \ {"INDEPENDENT_REVIEW"}
  PROVE  PlanObligation(check) \in Obligations(records)
BY DEF Obligations

\* A scope with a remainder is not settled by any witness.
LEMMA RemainderIsOpen ==
  ASSUME remainder
  PROVE  /\ QuestionObligation("DISCOVERY_ADEQUACY", TRUE).status \in {"FAIL", "OPEN"}
         /\ QuestionObligation("DISCOVERY_ADEQUACY", TRUE).material
<1>1. /\ ScopeQuestion.outcome = "NOT_CHECKED" /\ SecurityQuestion.check = "SECURITY"
      /\ ResilienceQuestion.check = "RESILIENCE"
  BY DEF ScopeQuestion, SecurityQuestion, ResilienceQuestion
<1>2. ASSUME NEW q \in QuestionEvidence, q.check = "DISCOVERY_ADEQUACY" PROVE q.outcome # "PASS"
  BY <1>1, <1>2 DEF QuestionEvidence
<1> QED BY <1>2 DEF QuestionObligation, Obligation

\* Everything but the concerns.
LEMMA PlanIsEarned ==
  ASSUME TrustInv, MergeEligible
  PROVE  /\ checked.verification = "VERIFIED" /\ ~remainder
         /\ {"leak", "layering"} \cap facts = {}
         /\ counts["CodeCoupling"] < 2 /\ counts["BlastRadius"] < 2 /\ counts["DataConsistencyRisk"] < 2
<1>1. /\ checked.verification = "VERIFIED"
      /\ \A o \in Obligations(records) : o.material => o.status \in {"PASS", "NOT_REQUIRED"}
  BY NothingOpen
<1>2. /\ counts["CodeCoupling"] \in Nat /\ counts["BlastRadius"] \in Nat /\ counts["DataConsistencyRisk"] \in Nat
      /\ Thresholds["CodeCoupling"][1] = 2 /\ Thresholds["CodeCoupling"][2] = 4
      /\ Thresholds["BlastRadius"][1] = 2 /\ Thresholds["BlastRadius"][2] = 3
      /\ Thresholds["DataConsistencyRisk"][1] = 1 /\ Thresholds["DataConsistencyRisk"][2] = 2
  BY DEF TrustInv, RiskDimensions, Thresholds
<1>3. ~remainder
  <2>1. QuestionObligation("DISCOVERY_ADEQUACY", TRUE) \in Obligations(records)  BY DEF Obligations
  <2> QED BY <1>1, <2>1, RemainderIsOpen
<1>4. counts["CodeCoupling"] < 2
  <2> SUFFICES ASSUME counts["CodeCoupling"] >= 2 PROVE FALSE
    BY <1>2
  <2>1. RiskLevel("CodeCoupling") >= 1  BY <1>2 DEF RiskLevel, LevelOf
  <2>2. "INTEGRATION" \in RiskAsks  BY <2>1 DEF RiskAsks
  <2>3. PlanObligation("INTEGRATION") \in Obligations(records)  BY <2>2, Planned DEF RequiredChecks
  <2>4. PlanObligation("INTEGRATION").status = "OPEN" /\ PlanObligation("INTEGRATION").material
    BY <2>2 DEF PlanObligation, Obligation, EvidenceAsks
  <2> QED BY <1>1, <2>3, <2>4
<1>5. counts["BlastRadius"] < 2
  <2> SUFFICES ASSUME counts["BlastRadius"] >= 2 PROVE FALSE
    BY <1>2
  <2>1. RiskLevel("BlastRadius") >= 1  BY <1>2 DEF RiskLevel, LevelOf
  <2>2. "ARCHITECTURE" \in RiskAsks  BY <2>1 DEF RiskAsks
  <2>3. PlanObligation("ARCHITECTURE") \in Obligations(records)  BY <2>2, Planned DEF RequiredChecks
  <2>4. PlanObligation("ARCHITECTURE").status = "OPEN" /\ PlanObligation("ARCHITECTURE").material
    BY <2>1, <2>2 DEF PlanObligation, Obligation, EvidenceAsks
  <2> QED BY <1>1, <2>3, <2>4
<1>6. counts["DataConsistencyRisk"] < 2
  <2> SUFFICES ASSUME counts["DataConsistencyRisk"] >= 2 PROVE FALSE
    BY <1>2
  <2>1. RiskLevel("DataConsistencyRisk") >= 2  BY <1>2 DEF RiskLevel, LevelOf
  <2>2. "CONCURRENCY" \in RiskAsks  BY <2>1 DEF RiskAsks
  <2>3. PlanObligation("CONCURRENCY") \in Obligations(records)  BY <2>2, Planned DEF RequiredChecks
  <2>4. PlanObligation("CONCURRENCY").status = "OPEN" /\ PlanObligation("CONCURRENCY").material
    BY <2>2 DEF PlanObligation, Obligation, EvidenceAsks
  <2> QED BY <1>1, <2>3, <2>4
<1>7. ASSUME NEW d \in DOMAIN QualityReport, d \notin ClaimedDimensions, QualityReport[d].state = "FAIL"
      PROVE  FALSE
  <2> DEFINE o == Obligation(d, "FAIL", TRUE)
  <2>1. o \in FailObligations  BY <1>7 DEF FailObligations
  <2>2. o \in Obligations(records)  BY <2>1 DEF Obligations
  <2>3. o.material /\ o.status = "FAIL"  BY DEF Obligation
  <2> QED BY <1>1, <2>2, <2>3
<1>8. "leak" \notin facts
  <2> SUFFICES ASSUME "leak" \in facts PROVE FALSE
    OBVIOUS
  <2>1. DeriveSecurity.state = "FAIL"  BY DEF DeriveSecurity, Deterministic, Result
  <2>2. "Security" \in DOMAIN QualityReport /\ QualityReport["Security"] = DeriveSecurity
    BY DEF QualityReport
  <2>3. "Security" \notin ClaimedDimensions  BY DEF ClaimedDimensions
  <2> QED BY <1>7, <2>1, <2>2, <2>3
<1>9. "layering" \notin facts
  <2> SUFFICES ASSUME "layering" \in facts PROVE FALSE
    OBVIOUS
  <2>1. DeriveArchitecture.state = "FAIL"  BY DEF DeriveArchitecture, Deterministic, Result
  <2>2. "Architecture" \in DOMAIN QualityReport /\ QualityReport["Architecture"] = DeriveArchitecture
    BY DEF QualityReport
  <2>3. "Architecture" \in ClaimedDimensions  BY <1>7, <2>1, <2>2
  <2>4. "ARCHITECTURE" \in RequiredChecks /\ RiskLevel("BlastRadius") = 0
    BY <2>3 DEF ClaimedDimensions
  <2>5. PlanObligation("ARCHITECTURE") \in Obligations(records)  BY <2>4, Planned
  <2>6. PlanObligation("ARCHITECTURE").status = "FAIL" /\ PlanObligation("ARCHITECTURE").material
    BY <2>1, <2>4 DEF PlanObligation, Obligation
  <2> QED BY <1>1, <2>5, <2>6
<1> QED BY <1>1, <1>3, <1>4, <1>5, <1>6, <1>8, <1>9

\* A concern that is settled has no adverse evidence, and a clean one that reads its class.
LEMMA ConcernIsEarned ==
  ASSUME TrustInv, MergeEligible, NEW c \in raised
  PROVE  /\ \E r \in records :
              /\ r.candidate = current /\ r.concern = c.concern /\ r.outcome = "PASS"
              /\ CapabilityCoverageFor(r.by, c.concern, {c.class}, r.claim) = "FULL"
         /\ \A r \in records :
              r.candidate = current /\ r.concern = c.concern => r.outcome \notin {"FAIL", "WARN"}
<1> DEFINE classes == {x.class : x \in {y \in raised : y.concern = c.concern}}
           mine == {r \in records : /\ r.concern = c.concern /\ r.by \in CapabilitiesEstablishing(c.concern)
                                    /\ Bound(r)}
           o == ConcernObligation(c.concern, records)
<1>1. o \in Obligations(records)  BY DEF Obligations
<1>2. o.material  BY DEF ConcernObligation, Obligation
<1>3. o.status \in {"PASS", "NOT_REQUIRED"}  BY <1>1, <1>2, NothingOpen
<1>4. /\ ~\E r \in mine : Adverse(r)
      /\ \E r \in mine : r.outcome = "PASS" /\ Adequate(r, classes, RequiredStrength)
  BY <1>3 DEF ConcernObligation, Obligation
<1>5. PICK r \in mine : r.outcome = "PASS" /\ Adequate(r, classes, RequiredStrength)  BY <1>4
<1>6. r \in ConcernRecords /\ r \in records /\ r.candidate = current /\ r.concern = c.concern
  BY <1>5 DEF TrustInv, Bound
<1>7. r.claim = Negative /\ r.coverage \in {"UNSUPPORTED", "PARTIAL", "FULL", "NOT_APPLICABLE"}
  BY <1>5, <1>6, TrustAssumption
<1>8. classes \in SUBSET LanguageClasses /\ c.class \in classes
  BY DEF TrustInv
<1> DEFINE y == CapabilityCoverageFor(r.by, c.concern, classes, Negative)
<1> HIDE DEF classes, mine, o
<1>9. CoversAll(WeakerCoverage(r.coverage, y))
  BY <1>5, <1>6, <1>7 DEF Adequate, Positive, Negative
<1>10. y \in {"UNSUPPORTED", "PARTIAL", "FULL", "NOT_APPLICABLE"}  BY <1>8, CoverageIsOne
<1>11. CoversAll(y)  BY <1>7, <1>9, <1>10, WeakerCovers
<1>12. CapabilityCoverageFor(r.by, c.concern, {c.class}, r.claim) = "FULL"
  BY <1>7, <1>8, <1>11, CoverageFans
<1>13. ASSUME NEW q \in records, q.candidate = current, q.concern = c.concern, q.outcome \in {"FAIL", "WARN"}
       PROVE  FALSE
  <2>1. SupportsClaim(q.by, c.concern, q.claim)
    BY <1>13, TrustAssumption DEF TrustInv
  <2>2. q.by \in CapabilitiesEstablishing(c.concern)
    BY <2>1 DEF SupportsClaim, Entries, CapabilitiesEstablishing
  <2>3. q \in mine  BY <1>13, <2>2 DEF Bound, mine
  <2>4. Adverse(q)  BY <1>13, <2>1 DEF Adverse
  <2> QED BY <1>4, <2>3, <2>4
<1> QED BY <1>5, <1>6, <1>12, <1>13

\* Evidence and verdicts about another candidate are not looked at.
LEMMA OnlyThisCandidate ==
  LET mine == {r \in records : r.candidate = current} IN
  Unresolved(records) = Unresolved(mine)
<1> DEFINE kept == {r \in records : r.candidate = current}
<1>1. ASSUME NEW concern PROVE ConcernObligation(concern, records) = ConcernObligation(concern, kept)
  <2> DEFINE m(recs) == {r \in recs : /\ r.concern = concern /\ r.by \in CapabilitiesEstablishing(concern)
                                      /\ Bound(r)}
  <2>1. m(records) = m(kept)  BY DEF Bound
  <2> HIDE DEF kept
  <2> QED BY <2>1 DEF ConcernObligation
<1>2. {ConcernObligation(c.concern, records) : c \in raised} = {ConcernObligation(c.concern, kept) : c \in raised}
  BY <1>1
<1> HIDE DEF kept
<1>3. Obligations(records) = Obligations(kept)  BY <1>2 DEF Obligations
<1>4. Unresolved(records) = Unresolved(kept)  BY <1>3 DEF Unresolved
<1> QED BY <1>4 DEF kept

\* The inputs stay what they are.
LEMMA TrustStep == TrustInv /\ [TrustNext]_trustVars => TrustInv'
<1> SUFFICES ASSUME TrustInv, [TrustNext]_trustVars PROVE TrustInv'
  OBVIOUS
<1>1. CASE UNCHANGED trustVars  BY <1>1 DEF trustVars, TrustInv
<1>2. ASSUME NEW d \in RiskDimensions, RaiseCount(d) PROVE TrustInv'
  <2>1. PICK n \in {Thresholds[d][1], Thresholds[d][2]} : counts' = [counts EXCEPT ![d] = n]
    BY <1>2 DEF RaiseCount
  <2>2. n \in Nat
    <3>1. \A x \in RiskDimensions : Thresholds[x][1] \in Nat /\ Thresholds[x][2] \in Nat
      BY DEF RiskDimensions, Thresholds
    <3> QED BY <3>1
  <2>3. raised' = raised /\ records' = records /\ checked' = checked  BY <1>2 DEF RaiseCount
  <2> QED BY <2>1, <2>2, <2>3 DEF TrustInv
<1>3. ASSUME NEW f \in Facts, ReportFact(f) PROVE TrustInv'  BY <1>3 DEF ReportFact, TrustInv
<1>4. ASSUME NEW found \in ConcernFindings, RaiseConcerns(found) PROVE TrustInv'
  BY <1>4, TrustAssumption DEF RaiseConcerns, TrustInv
<1>5. ASSUME NEW r \in ConcernRecords, ReportRecord(r) PROVE TrustInv'
  BY <1>5 DEF ReportRecord, TrustInv
<1>6. CASE RaisePreference  BY <1>6 DEF RaisePreference, TrustInv
<1>7. CASE ReportCheck  BY <1>7 DEF ReportCheck, TrustInv
<1>8. CASE LeaveRemainder  BY <1>8 DEF LeaveRemainder, TrustInv
<1>9. CASE WriteVerdict  BY <1>9 DEF WriteVerdict, TrustInv
<1>10. CASE Recapture  BY <1>10 DEF Recapture, TrustInv
<1> QED BY <1>1, <1>2, <1>3, <1>4, <1>5, <1>6, <1>7, <1>8, <1>9, <1>10 DEF TrustNext

\* For any candidates, findings, evidence and verdicts, in whatever order they come: the
\* trust state and the report that explains it rest on evidence about this candidate.
THEOREM TrustHolds == TrustSpec => []TrustIsEarned
<1>1. TrustInit => TrustInv
  BY DEF TrustInit, TrustInv
<1>2. TrustInv => TrustIsEarned
  <2> SUFFICES ASSUME TrustInv PROVE TrustIsEarned
    OBVIOUS
  <2>1. MergeIsEarned  BY PlanIsEarned, ConcernIsEarned DEF MergeIsEarned, Earned
  <2>2. StaleDecidesNothing
    <3> DEFINE kept == {r \in records : r.candidate = current}
               v == IF verdict.candidate = current THEN verdict ELSE NoVerdict
    <3>1. Unresolved(records) = Unresolved(kept)  BY OnlyThisCandidate
    <3>2. Approved(verdict) <=> Approved(v)  BY DEF Approved, NoVerdict
    <3> HIDE DEF kept, v
    <3>3. Trust(records, verdict) = Trust(kept, v)  BY <3>1, <3>2 DEF Trust
    <3> QED BY <3>3 DEF StaleDecidesNothing, kept, v
  <2>3. SecurityLineIsHonest  BY DEF SecurityLineIsHonest, DeriveSecurity, Deterministic, Result
  <2> QED BY <2>1, <2>2, <2>3 DEF TrustIsEarned
<1> QED BY <1>1, <1>2, TrustStep, PTL DEF TrustSpec

-----------------------------------------------------------------------------
(* What merge eligibility comes to, and that it only shrinks when the news is bad. *)

\* A coverage that covers a set of classes covers each part of it.
LEMMA CoverageShrinks ==
  ASSUME NEW by, NEW concern, NEW B \in SUBSET LanguageClasses, NEW A \in SUBSET B,
         CoversAll(CapabilityCoverageFor(by, concern, B, Negative))
  PROVE  CoversAll(CapabilityCoverageFor(by, concern, A, Negative))
<1> DEFINE e == CHOOSE x \in Entries(by, concern) : TRUE
           S == {e.negativeReads[c] : c \in B}
           T == {e.negativeReads[c] : c \in A}
<1>1. Entries(by, concern) # {}  BY DEF CapabilityCoverageFor, CoversAll
<1>2. e \in Establishments
  <2>1. e \in Entries(by, concern)  BY <1>1
  <2> QED BY <2>1 DEF Entries
<1>3. e.negativeReads \in [LanguageClasses -> ReadingLevels]  BY <1>2, MatrixReads
<1>4. /\ CapabilityCoverageFor(by, concern, B, Negative) = WorstOf(S)
      /\ CapabilityCoverageFor(by, concern, A, Negative) = WorstOf(T)
  BY <1>1 DEF CapabilityCoverageFor
<1> HIDE DEF e
<1>5. S \in SUBSET ReadingLevels /\ T \in SUBSET S  BY <1>3
<1> HIDE DEF S, T
<1>6. CoversAll(WorstOf(S))  BY <1>4
<1>7. ASSUME NEW x \in T PROVE x = "FULL"
  <2>1. x \in S  BY <1>5
  <2> QED BY <1>5, <1>6, <2>1, WorstDecides
<1>8. CASE T = {}  BY <1>4, <1>8 DEF WorstOf, CoversAll
<1>9. CASE T # {}
  <2>1. T \in SUBSET ReadingLevels  BY <1>5
  <2>2. WorstOf(T) \in T  BY <1>9, <2>1, WorstIsRead
  <2> QED BY <1>4, <1>7, <2>2 DEF CoversAll
<1> QED BY <1>8, <1>9

Strengths == {"LEXICAL", "STRUCTURAL", "BEHAVIORAL", "MEASURED"}

\* Every line of the adequacy matrix has a strength.
LEMMA MatrixStrengths == \A e \in Establishments : e.strength \in Strengths
<1>1. \A e \in DiscoveryEstablishments : e.strength \in Strengths
  BY DEF DiscoveryEstablishments, Establishes, Strengths
<1>2. \A e \in SecurityEstablishments : e.strength \in Strengths
  BY DEF SecurityEstablishments, Establishes, BothWays, Strengths
<1>3. \A e \in ResilienceEstablishments : e.strength \in Strengths
  BY DEF ResilienceEstablishments, Establishes, BothWays, Strengths
<1> QED BY <1>1, <1>2, <1>3 DEF Establishments

\* Evidence that is adequate for more classes and a stricter demand is so for fewer.
LEMMA AdequateShrinks ==
  ASSUME NEW r, r.claim = Negative, r.coverage \in {"UNSUPPORTED", "PARTIAL", "FULL", "NOT_APPLICABLE"},
         r.strength \in Strengths, NEW B \in SUBSET LanguageClasses, NEW A \in SUBSET B,
         NEW weak \in {"LEXICAL", "STRUCTURAL", "BEHAVIORAL"},
         NEW strict \in {"LEXICAL", "STRUCTURAL", "BEHAVIORAL"},
         StrengthRank(weak) <= StrengthRank(strict),
         Adequate(r, B, strict)
  PROVE  Adequate(r, A, weak)
<1> DEFINE b == CapabilityCoverageFor(r.by, r.concern, B, Negative)
           a == CapabilityCoverageFor(r.by, r.concern, A, Negative)
           strength == WeakerStrength(r.strength, CapabilityStrength(r.by, r.concern))
<1>1. /\ SupportsClaim(r.by, r.concern, r.claim) /\ r.completeness = "COMPLETE"
      /\ CoversAll(WeakerCoverage(r.coverage, b)) /\ MeetsStrength(strength, strict)
  BY DEF Adequate, Positive, Negative
<1>2. A \in SUBSET LanguageClasses  OBVIOUS
<1>3. /\ a \in {"UNSUPPORTED", "PARTIAL", "FULL", "NOT_APPLICABLE"}
      /\ b \in {"UNSUPPORTED", "PARTIAL", "FULL", "NOT_APPLICABLE"}
  BY <1>2, CoverageIsOne
<1> HIDE DEF strength
<1>4. CoversAll(r.coverage) /\ CoversAll(b)
  <2> HIDE DEF b
  <2> QED BY <1>1, <1>3, WeakerCovers
<1>5. CoversAll(a)  BY <1>4, CoverageShrinks
<1>6. CoversAll(WeakerCoverage(r.coverage, a))
  <2> HIDE DEF a
  <2> QED BY <1>3, <1>4, <1>5, WeakerCovers
<1>7. MeetsStrength(strength, weak)
  <2>1. StrengthRank(strength) >= StrengthRank(strict)  BY <1>1 DEF MeetsStrength
  <2>2. StrengthRank(weak) \in Nat /\ StrengthRank(strict) \in Nat  BY DEF StrengthRank
  <2>3. CapabilityStrength(r.by, r.concern) \in Strengths
    <3>1. \E e \in Entries(r.by, r.concern) : TRUE  BY <1>1 DEF SupportsClaim
    <3>2. (CHOOSE e \in Entries(r.by, r.concern) : TRUE) \in Entries(r.by, r.concern)  BY <3>1
    <3> QED BY <3>2, MatrixStrengths DEF CapabilityStrength, Entries
  <2>4. strength \in Strengths  BY <2>3 DEF strength, WeakerStrength
  <2>5. StrengthRank(strength) \in Nat  BY <2>4 DEF StrengthRank, Strengths
  <2> QED BY <2>1, <2>2, <2>5 DEF MeetsStrength
<1> QED BY <1>1, <1>6, <1>7 DEF Adequate, Positive, Negative, strength

\* The lines of the matrix the questions of the assurance rest on.
LEMMA QuestionLines ==
  /\ \A e \in Entries("DISCOVERY.CONCERN_WITNESS", "DISCOVERY.MATERIAL_CONCERN_SCOPE_ADEQUACY") :
       e.strength = "STRUCTURAL" /\ Positive \in e.claims
  /\ \A e \in Entries("DISCOVERY.BOUNDED_CHANGE_CLASSIFIER", "DISCOVERY.MATERIAL_CONCERN_SCOPE_ADEQUACY") :
       e.strength = "STRUCTURAL" /\ Negative \in e.claims /\ e.negativeReads["TS_JS"] = "FULL"
  /\ \A e \in Entries("SECURITY.CONCERN_DISCOVERY", "SECURITY.MATERIAL_CONCERN_DISCOVERY") :
       e.strength = "STRUCTURAL" /\ Positive \in e.claims
  /\ \A e \in Entries("SECURITY.NON_BEHAVIORAL_CHANGE_CLASSIFIER", "SECURITY.MATERIAL_CONCERN_DISCOVERY") :
       e.strength = "STRUCTURAL" /\ Negative \in e.claims /\ e.negativeReads["TS_JS"] = "FULL"
  /\ \A e \in Entries("RESILIENCE.FAULT_SCENARIO_EXECUTION", "RESILIENCE.REQUIRED_SCENARIO_EXECUTION") :
       e.strength = "MEASURED" /\ Negative \in e.claims
  /\ Entries("DISCOVERY.CONCERN_WITNESS", "DISCOVERY.MATERIAL_CONCERN_SCOPE_ADEQUACY") # {}
  /\ Entries("DISCOVERY.BOUNDED_CHANGE_CLASSIFIER", "DISCOVERY.MATERIAL_CONCERN_SCOPE_ADEQUACY") # {}
  /\ Entries("SECURITY.CONCERN_DISCOVERY", "SECURITY.MATERIAL_CONCERN_DISCOVERY") # {}
  /\ Entries("SECURITY.NON_BEHAVIORAL_CHANGE_CLASSIFIER", "SECURITY.MATERIAL_CONCERN_DISCOVERY") # {}
  /\ Entries("RESILIENCE.FAULT_SCENARIO_EXECUTION", "RESILIENCE.REQUIRED_SCENARIO_EXECUTION") # {}
<1>1. "TS_JS" \in LanguageClasses /\ "TS_JS" \in Modelled  BY DEF LanguageClasses, Modelled
<1>2. \A full, partial : "TS_JS" \in full => Reads(full, partial)["TS_JS"] = "FULL"
  BY <1>1 DEF Reads
<1>3. Reads(Modelled, {"SHELL"})["TS_JS"] = "FULL"  BY <1>1, <1>2
<1>4. \A capability, concern, strength, claims, reads, negativeReads :
        LET e == Establishes(capability, concern, strength, claims, reads, negativeReads) IN
        /\ e.capability = capability /\ e.concern = concern /\ e.strength = strength
        /\ e.claims = claims /\ e.negativeReads = negativeReads
  BY DEF Establishes
<1>5. \A capability, concern, strength, reads :
        LET e == BothWays(capability, concern, strength, reads) IN
        /\ e.capability = capability /\ e.concern = concern /\ e.strength = strength
        /\ e.claims = {Positive, Negative} /\ e.negativeReads = reads
  BY <1>4 DEF BothWays
<1> DEFINE Lines(e) ==
      /\ e.capability = "DISCOVERY.CONCERN_WITNESS" => e.strength = "STRUCTURAL" /\ Positive \in e.claims
      /\ e.capability = "DISCOVERY.BOUNDED_CHANGE_CLASSIFIER" =>
           e.strength = "STRUCTURAL" /\ Negative \in e.claims /\ e.negativeReads["TS_JS"] = "FULL"
      /\ e.capability = "SECURITY.CONCERN_DISCOVERY" => e.strength = "STRUCTURAL" /\ Positive \in e.claims
      /\ e.capability = "SECURITY.NON_BEHAVIORAL_CHANGE_CLASSIFIER" =>
           e.strength = "STRUCTURAL" /\ Negative \in e.claims /\ e.negativeReads["TS_JS"] = "FULL"
      /\ e.capability = "RESILIENCE.FAULT_SCENARIO_EXECUTION" => e.strength = "MEASURED" /\ Negative \in e.claims
<1>6. \A e \in DiscoveryEstablishments : Lines(e)
  BY <1>3, <1>4 DEF DiscoveryEstablishments
<1>7. \A e \in SecurityEstablishments : Lines(e)
  BY <1>3, <1>4, <1>5 DEF SecurityEstablishments
<1>8. \A e \in ResilienceEstablishments : Lines(e)
  BY <1>4, <1>5 DEF ResilienceEstablishments
<1>9. \A capability, concern : \A e \in Entries(capability, concern) : e.capability = capability /\ Lines(e)
  BY <1>6, <1>7, <1>8 DEF Entries, Establishments
<1>10. \E e \in Establishments : /\ e.capability = "DISCOVERY.CONCERN_WITNESS"
                                 /\ e.concern = "DISCOVERY.MATERIAL_CONCERN_SCOPE_ADEQUACY"
  BY <1>4 DEF Establishments, DiscoveryEstablishments
<1>11. \E e \in Establishments : /\ e.capability = "DISCOVERY.BOUNDED_CHANGE_CLASSIFIER"
                                 /\ e.concern = "DISCOVERY.MATERIAL_CONCERN_SCOPE_ADEQUACY"
  BY <1>4 DEF Establishments, DiscoveryEstablishments
<1>12. \E e \in Establishments : /\ e.capability = "SECURITY.CONCERN_DISCOVERY"
                                 /\ e.concern = "SECURITY.MATERIAL_CONCERN_DISCOVERY"
  BY <1>4 DEF Establishments, SecurityEstablishments
<1>13. \E e \in Establishments : /\ e.capability = "SECURITY.NON_BEHAVIORAL_CHANGE_CLASSIFIER"
                                 /\ e.concern = "SECURITY.MATERIAL_CONCERN_DISCOVERY"
  BY <1>4 DEF Establishments, SecurityEstablishments
<1>14. \E e \in Establishments : /\ e.capability = "RESILIENCE.FAULT_SCENARIO_EXECUTION"
                                 /\ e.concern = "RESILIENCE.REQUIRED_SCENARIO_EXECUTION"
  BY <1>5 DEF Establishments, ResilienceEstablishments
<1> QED BY <1>9, <1>10, <1>11, <1>12, <1>13, <1>14 DEF Entries

\* A positive claim of such a line is adequate wherever it is found.
LEMMA WitnessIsAdequate ==
  ASSUME NEW q, q.claim = Positive, q.completeness = "NOT_APPLICABLE", q.strength = "STRUCTURAL",
         NEW classes, Entries(q.by, q.concern) # {},
         \A e \in Entries(q.by, q.concern) : e.strength = "STRUCTURAL" /\ Positive \in e.claims
  PROVE  Adequate(q, classes, "STRUCTURAL")
<1>1. (CHOOSE e \in Entries(q.by, q.concern) : TRUE) \in Entries(q.by, q.concern)  OBVIOUS
<1>2. CapabilityStrength(q.by, q.concern) = "STRUCTURAL"  BY <1>1 DEF CapabilityStrength
<1>3. SupportsClaim(q.by, q.concern, q.claim)  BY DEF SupportsClaim
<1>4. /\ WeakerStrength("STRUCTURAL", "STRUCTURAL") = "STRUCTURAL"
      /\ MeetsStrength("STRUCTURAL", "STRUCTURAL")
  BY DEF WeakerStrength, MeetsStrength, StrengthRank
<1> QED BY <1>2, <1>3, <1>4 DEF Adequate, Positive, Negative

\* A complete negative claim is adequate where the line reads the only class touched.
LEMMA AbsenceIsAdequate ==
  ASSUME NEW q, q.claim = Negative, q.completeness = "COMPLETE", q.strength = "STRUCTURAL",
         q.coverage = "FULL", Entries(q.by, q.concern) # {},
         \A e \in Entries(q.by, q.concern) :
           e.strength = "STRUCTURAL" /\ Negative \in e.claims /\ e.negativeReads["TS_JS"] = "FULL"
  PROVE  Adequate(q, {"TS_JS"}, "STRUCTURAL")
<1> DEFINE e == CHOOSE x \in Entries(q.by, q.concern) : TRUE
<1>1. e \in Entries(q.by, q.concern)  OBVIOUS
<1>2. CapabilityStrength(q.by, q.concern) = "STRUCTURAL"  BY <1>1 DEF CapabilityStrength
<1>3. SupportsClaim(q.by, q.concern, q.claim)  BY DEF SupportsClaim
<1>4. /\ WeakerStrength("STRUCTURAL", "STRUCTURAL") = "STRUCTURAL"
      /\ MeetsStrength("STRUCTURAL", "STRUCTURAL")
  BY DEF WeakerStrength, MeetsStrength, StrengthRank
<1>5. {e.negativeReads[c] : c \in {"TS_JS"}} = {"FULL"}
  <2>1. e.negativeReads["TS_JS"] = "FULL"  BY <1>1
  <2> HIDE DEF e
  <2> QED BY <2>1
<1>6. CapabilityCoverageFor(q.by, q.concern, {"TS_JS"}, Negative) = WorstOf({e.negativeReads[c] : c \in {"TS_JS"}})
  BY DEF CapabilityCoverageFor
<1>7. CapabilityCoverageFor(q.by, q.concern, {"TS_JS"}, Negative) = "FULL"
  BY <1>5, <1>6, WorstOfFull
<1>8. WeakerCoverage("FULL", "FULL") = "FULL" /\ CoversAll("FULL")  BY DEF WeakerCoverage, CoversAll
<1> QED BY <1>2, <1>3, <1>4, <1>7, <1>8 DEF Adequate, Positive, Negative

-----------------------------------------------------------------------------
\* What merge eligibility comes to: each line is one input that can withhold it.
Eligible ==
  /\ checked.verification = "VERIFIED" /\ ~remainder
  /\ "leak" \notin facts /\ "layering" \notin facts
  /\ "INTEGRATION" \notin RiskAsks /\ "CONCURRENCY" \notin RiskAsks
  /\ RiskLevel("BlastRadius") = 0
  /\ "ARCHITECTURE" \in RequiredChecks => "domainUnread" \notin facts
  /\ "DEBT" \in RequiredChecks => "debtUnread" \notin facts /\ counts["DebtRisk"] = 0
  /\ "PERFORMANCE" \in RequiredChecks => checked.performance = "PASS"
  /\ "RESILIENCE" \in RequiredChecks =>
       /\ checked.resilience = "PASS"
       /\ CoversAll(CapabilityCoverageFor("RESILIENCE.FAULT_SCENARIO_EXECUTION",
                      "RESILIENCE.REQUIRED_SCENARIO_EXECUTION", TouchedClasses, Negative))
  /\ \A c \in raised : ConcernObligation(c.concern, records).status = "PASS"
  /\ "INDEPENDENT_REVIEW" \in RequiredChecks => Approved(verdict)

\* A scope without remainder is settled by its concerns or by their absence.
LEMMA ScopeSettles ==
  ASSUME ~remainder
  PROVE  /\ QuestionObligation("DISCOVERY_ADEQUACY", TRUE).status = "PASS"
         /\ \A asks : QuestionObligation("SECURITY", asks).status = "PASS"
<1>1. Found = {} => TouchedClasses = {"TS_JS"}  BY DEF TouchedClasses
<1>2. /\ ScopeQuestion.check = "DISCOVERY_ADEQUACY" /\ ScopeQuestion.outcome = "PASS"
      /\ ScopeQuestion.concern = "DISCOVERY.MATERIAL_CONCERN_SCOPE_ADEQUACY"
      /\ ScopeQuestion.strength = "STRUCTURAL" /\ ScopeQuestion.coverage = "FULL"
      /\ SecurityQuestion.check = "SECURITY" /\ SecurityQuestion.outcome = "PASS"
      /\ SecurityQuestion.concern = "SECURITY.MATERIAL_CONCERN_DISCOVERY"
      /\ SecurityQuestion.strength = "STRUCTURAL"
      /\ ResilienceQuestion.check = "RESILIENCE"
  BY DEF ScopeQuestion, SecurityQuestion, ResilienceQuestion
<1>3. CASE Found # {}
  <2>1. /\ ScopeQuestion.by = "DISCOVERY.CONCERN_WITNESS" /\ ScopeQuestion.claim = Positive
        /\ ScopeQuestion.completeness = "NOT_APPLICABLE"
        /\ SecurityQuestion.by = "SECURITY.CONCERN_DISCOVERY" /\ SecurityQuestion.claim = Positive
        /\ SecurityQuestion.completeness = "NOT_APPLICABLE"
    BY <1>3 DEF ScopeQuestion, SecurityQuestion
  <2>2. Adequate(ScopeQuestion, TouchedClasses, "STRUCTURAL")
    BY <1>2, <2>1, QuestionLines, WitnessIsAdequate
  <2>3. Adequate(SecurityQuestion, TouchedClasses, "STRUCTURAL")
    BY <1>2, <2>1, QuestionLines, WitnessIsAdequate
  <2> QED BY <1>2, <2>2, <2>3 DEF QuestionObligation, QuestionEvidence, Obligation, Adverse
<1>4. CASE Found = {}
  <2>1. /\ ScopeQuestion.by = "DISCOVERY.BOUNDED_CHANGE_CLASSIFIER" /\ ScopeQuestion.claim = Negative
        /\ ScopeQuestion.completeness = "COMPLETE"
        /\ SecurityQuestion.by = "SECURITY.NON_BEHAVIORAL_CHANGE_CLASSIFIER"
        /\ SecurityQuestion.claim = Negative /\ SecurityQuestion.completeness = "COMPLETE"
        /\ SecurityQuestion.coverage = "FULL"
    BY <1>4 DEF ScopeQuestion, SecurityQuestion
  <2>2. Adequate(ScopeQuestion, {"TS_JS"}, "STRUCTURAL")
    BY <1>2, <2>1, QuestionLines, AbsenceIsAdequate
  <2>3. Adequate(SecurityQuestion, {"TS_JS"}, "STRUCTURAL")
    BY <1>2, <2>1, QuestionLines, AbsenceIsAdequate
  <2>4. Adequate(ScopeQuestion, TouchedClasses, "STRUCTURAL") /\ Adequate(SecurityQuestion, TouchedClasses, "STRUCTURAL")
    BY <1>1, <1>4, <2>2, <2>3
  <2> QED BY <1>2, <2>1, <2>4 DEF QuestionObligation, QuestionEvidence, Obligation, Adverse, Positive, Negative
<1> QED BY <1>3, <1>4

\* Measured resilience settles its question exactly where its scenarios can be written.
LEMMA ResilienceSettles ==
  ASSUME checked.resilience = "PASS", TouchedClasses \subseteq LanguageClasses
  PROVE  \A asks : QuestionObligation("RESILIENCE", asks).status = "PASS" <=>
           CoversAll(CapabilityCoverageFor("RESILIENCE.FAULT_SCENARIO_EXECUTION",
                       "RESILIENCE.REQUIRED_SCENARIO_EXECUTION", TouchedClasses, Negative))
<1> DEFINE q == ResilienceQuestion
           y == CapabilityCoverageFor("RESILIENCE.FAULT_SCENARIO_EXECUTION",
                  "RESILIENCE.REQUIRED_SCENARIO_EXECUTION", TouchedClasses, Negative)
           entries == Entries("RESILIENCE.FAULT_SCENARIO_EXECUTION", "RESILIENCE.REQUIRED_SCENARIO_EXECUTION")
<1>1. /\ q.check = "RESILIENCE" /\ q.outcome = "PASS" /\ q.claim = Negative
      /\ q.completeness = "COMPLETE" /\ q.coverage = "NOT_APPLICABLE" /\ q.strength = "MEASURED"
      /\ q.by = "RESILIENCE.FAULT_SCENARIO_EXECUTION"
      /\ q.concern = "RESILIENCE.REQUIRED_SCENARIO_EXECUTION"
      /\ ScopeQuestion.check = "DISCOVERY_ADEQUACY" /\ SecurityQuestion.check = "SECURITY"
  BY DEF ResilienceQuestion, ScopeQuestion, SecurityQuestion
<1>2. (CHOOSE e \in entries : TRUE) \in entries  BY QuestionLines
<1>3. CapabilityStrength(q.by, q.concern) = "MEASURED"  BY <1>1, <1>2, QuestionLines DEF CapabilityStrength
<1>4. SupportsClaim(q.by, q.concern, q.claim)  BY <1>1, <1>2, QuestionLines DEF SupportsClaim
<1>5. WeakerStrength("MEASURED", "MEASURED") = "MEASURED" /\ MeetsStrength("MEASURED", "MEASURED")
  BY DEF WeakerStrength, MeetsStrength, StrengthRank
<1>6. y \in {"UNSUPPORTED", "PARTIAL", "FULL", "NOT_APPLICABLE"}  BY CoverageIsOne
<1>7. QuestionEvidence = {SecurityQuestion, ScopeQuestion, q}  BY DEF QuestionEvidence
<1> HIDE DEF q, entries
<1>8. Adequate(q, TouchedClasses, "MEASURED") <=> CoversAll(WeakerCoverage("NOT_APPLICABLE", y))
  BY <1>1, <1>3, <1>4, <1>5 DEF Adequate, Positive, Negative
<1> HIDE DEF y
<1>9. CoversAll(WeakerCoverage("NOT_APPLICABLE", y)) <=> CoversAll(y)
  BY <1>6, WeakerCovers DEF CoversAll
<1>10. ~Adverse(q)  BY <1>1 DEF Adverse
<1> SUFFICES ASSUME NEW asks
             PROVE  QuestionObligation("RESILIENCE", asks).status = "PASS" <=> CoversAll(y)
  BY DEF y
<1>11. {x \in QuestionEvidence : x.check = "RESILIENCE"} = {q}  BY <1>1, <1>7
<1>12. QuestionObligation("RESILIENCE", asks).status = "PASS" <=> Adequate(q, TouchedClasses, "MEASURED")
  BY <1>1, <1>10, <1>11 DEF QuestionObligation, Obligation
<1> QED BY <1>8, <1>9, <1>12

\* Discovery names language classes.
LEMMA TouchedAreClasses == ASSUME TrustInv PROVE TouchedClasses \subseteq LanguageClasses
BY DEF TouchedClasses, Found, TrustInv, LanguageClasses

\* Where the levels of a dimension lie.
LEMMA Levels == \A d : RiskLevel(d) \in {0, 1, 2}
BY DEF RiskLevel, LevelOf

\* An eligible candidate passes every line.
LEMMA EligibleMeans == TrustInv /\ MergeEligible => Eligible
<1> SUFFICES ASSUME TrustInv, MergeEligible PROVE Eligible
  OBVIOUS
<1>1. /\ checked.verification = "VERIFIED" /\ ~remainder
      /\ "leak" \notin facts /\ "layering" \notin facts
      /\ counts["CodeCoupling"] < 2 /\ counts["BlastRadius"] < 2 /\ counts["DataConsistencyRisk"] < 2
  BY PlanIsEarned
<1>2. /\ counts["CodeCoupling"] \in Nat /\ counts["BlastRadius"] \in Nat
      /\ counts["DataConsistencyRisk"] \in Nat /\ counts["DebtRisk"] \in Nat
      /\ Thresholds["CodeCoupling"] = <<2, 4>> /\ Thresholds["BlastRadius"] = <<2, 3>>
      /\ Thresholds["DataConsistencyRisk"] = <<1, 2>>
  BY DEF TrustInv, RiskDimensions, Thresholds
<1>3. /\ RiskLevel("CodeCoupling") = 0 /\ RiskLevel("BlastRadius") = 0
      /\ RiskLevel("DataConsistencyRisk") < 2
  BY <1>1, <1>2 DEF RiskLevel, LevelOf
<1>4. "INTEGRATION" \notin RiskAsks /\ "CONCURRENCY" \notin RiskAsks
  BY <1>3, Levels DEF RiskAsks
<1>5. \A check \in RequiredChecks \ {"INDEPENDENT_REVIEW"} :
        PlanObligation(check).material => PlanObligation(check).status \in {"PASS", "NOT_REQUIRED"}
  BY NothingOpen, Planned
<1>6. ASSUME "ARCHITECTURE" \in RequiredChecks PROVE "domainUnread" \notin facts
  <2>1. /\ PlanObligation("ARCHITECTURE").material
        /\ DeriveArchitecture.state = "UNKNOWN" => PlanObligation("ARCHITECTURE").status = "UNKNOWN"
    BY <1>3 DEF PlanObligation, Obligation
  <2>2. "domainUnread" \in facts => DeriveArchitecture.state = "UNKNOWN"
    BY <1>1, <1>6 DEF DeriveArchitecture, Deterministic, Result
  <2> QED BY <1>5, <1>6, <2>1, <2>2
<1>7. ASSUME "DEBT" \in RequiredChecks PROVE "debtUnread" \notin facts /\ counts["DebtRisk"] = 0
  <2>1. /\ PlanObligation("DEBT").material
        /\ DeriveDebt.state # "PASS" => PlanObligation("DEBT").status = DeriveDebt.state
    BY DEF PlanObligation, Obligation
  <2>2. /\ DeriveDebt.state \in {"UNKNOWN", "FAIL", "WARN", "PASS"}
        /\ DeriveDebt.state = "PASS" => "debtUnread" \notin facts /\ ~(counts["DebtRisk"] > 0)
    BY DEF DeriveDebt, Deterministic, Result
  <2> QED BY <1>2, <1>5, <1>7, <2>1, <2>2
<1>8. ASSUME "PERFORMANCE" \in RequiredChecks PROVE checked.performance = "PASS"
  <2>1. /\ PlanObligation("PERFORMANCE").material
        /\ DerivePerformance.state # "PASS" => PlanObligation("PERFORMANCE").status = DerivePerformance.state
    BY DEF PlanObligation, Obligation
  <2>2. /\ DerivePerformance.state \in {"FAIL", "NOT_CHECKED", "PASS"}
        /\ DerivePerformance.state = "PASS" => checked.performance = "PASS"
    BY <1>8 DEF DerivePerformance, Deterministic, Result
  <2> QED BY <1>5, <1>8, <2>1, <2>2
<1>9. ASSUME "RESILIENCE" \in RequiredChecks
      PROVE  /\ checked.resilience = "PASS"
             /\ CoversAll(CapabilityCoverageFor("RESILIENCE.FAULT_SCENARIO_EXECUTION",
                            "RESILIENCE.REQUIRED_SCENARIO_EXECUTION", TouchedClasses, Negative))
  <2>1. DeriveResilience.state = "PASS"  BY <1>9 DEF MergeEligible, Trust
  <2>2. checked.resilience = "PASS"  BY <1>9, <2>1 DEF DeriveResilience, Deterministic, Result
  <2> DEFINE asks == "RESILIENCE" \in EvidenceAsks
  <2>3. PlanObligation("RESILIENCE") = QuestionObligation("RESILIENCE", asks)  BY DEF PlanObligation
  <2> HIDE DEF asks
  <2>4. /\ QuestionObligation("RESILIENCE", asks).material
        /\ QuestionObligation("RESILIENCE", asks).status # "NOT_REQUIRED"
    BY DEF QuestionObligation, Obligation
  <2>5. QuestionObligation("RESILIENCE", asks).status = "PASS"  BY <1>5, <1>9, <2>3, <2>4
  <2> QED BY <2>2, <2>5, ResilienceSettles, TouchedAreClasses
<1>10. ASSUME NEW c \in raised PROVE ConcernObligation(c.concern, records).status = "PASS"
  <2>1. ConcernObligation(c.concern, records) \in Obligations(records)  BY DEF Obligations
  <2>2. /\ ConcernObligation(c.concern, records).material
        /\ ConcernObligation(c.concern, records).status # "NOT_REQUIRED"
    BY DEF ConcernObligation, Obligation
  <2> QED BY <2>1, <2>2, NothingOpen
<1>11. "INDEPENDENT_REVIEW" \in RequiredChecks => Approved(verdict)  BY DEF MergeEligible, Trust
<1> QED BY <1>1, <1>3, <1>4, <1>6, <1>7, <1>8, <1>9, <1>10, <1>11 DEF Eligible

\* One that passes every line is eligible.
LEMMA EligibleIs == TrustInv /\ Eligible => MergeEligible
<1> SUFFICES ASSUME TrustInv, Eligible PROVE MergeEligible
  OBVIOUS
<1> DEFINE Good(o) == o.material => o.status \in {"PASS", "NOT_REQUIRED"}
<1>1. Good(QuestionObligation("DISCOVERY_ADEQUACY", TRUE))  BY ScopeSettles DEF Eligible
<1>2. ASSUME NEW check \in RequiredChecks \ {"INDEPENDENT_REVIEW"} PROVE Good(PlanObligation(check))
  <2>1. /\ check \in {"CORRECTNESS", "INTEGRATION", "ARCHITECTURE", "DEBT", "SECURITY", "PERFORMANCE",
                      "RESILIENCE"}
        /\ check = "INTEGRATION" => check \notin EvidenceAsks
    BY <1>2 DEF RequiredChecks, RiskAsks, PreferenceAsks, Eligible, EvidenceAsks
  <2>2. CASE check = "CORRECTNESS"
    <3>1. DeriveCorrectness.state = "PASS" /\ CoversAll(DeriveCorrectness.coverage)
      BY DEF DeriveCorrectness, Deterministic, Result, Eligible, CoversAll
    <3> QED BY <2>2, <3>1 DEF PlanObligation, Obligation
  <2>3. CASE check = "INTEGRATION"
    <3>1. ~PlanObligation(check).material  BY <2>1, <2>3 DEF PlanObligation, Obligation
    <3> QED BY <3>1
  <2>4. CASE check = "ARCHITECTURE"
    <3>1. DeriveArchitecture.state = "PASS" /\ CoversAll(DeriveArchitecture.coverage)
      BY <1>2, <2>4 DEF DeriveArchitecture, Deterministic, Result, Eligible, CoversAll
    <3>2. ~(RiskLevel("BlastRadius") >= 1)  BY DEF Eligible
    <3> QED BY <2>4, <3>1, <3>2 DEF PlanObligation, Obligation
  <2>5. CASE check = "DEBT"
    <3>1. DeriveDebt.state = "PASS" /\ CoversAll(DeriveDebt.coverage)
      BY <1>2, <2>5 DEF DeriveDebt, Deterministic, Result, Eligible, CoversAll
    <3> QED BY <2>5, <3>1 DEF PlanObligation, Obligation
  <2>6. CASE check = "SECURITY"
    <3>1. PlanObligation(check) = QuestionObligation("SECURITY", check \in EvidenceAsks)
      BY <2>6 DEF PlanObligation
    <3> QED BY <3>1, ScopeSettles DEF Eligible
  <2>7. CASE check = "PERFORMANCE"
    <3>1. DerivePerformance.state = "PASS" /\ CoversAll(DerivePerformance.coverage)
      BY <1>2, <2>7 DEF DerivePerformance, Deterministic, Result, Eligible, CoversAll
    <3> QED BY <2>7, <3>1 DEF PlanObligation, Obligation
  <2>8. CASE check = "RESILIENCE"
    <3>1. PlanObligation(check) = QuestionObligation("RESILIENCE", check \in EvidenceAsks)
      BY <2>8 DEF PlanObligation
    <3> QED BY <1>2, <2>8, <3>1, ResilienceSettles, TouchedAreClasses DEF Eligible
  <2> QED BY <2>1, <2>2, <2>3, <2>4, <2>5, <2>6, <2>7, <2>8
<1>3. FailObligations = {}
  <2>1. ASSUME NEW d \in DOMAIN QualityReport, d \notin ClaimedDimensions, QualityReport[d].state = "FAIL"
        PROVE  FALSE
    <3>1. /\ d \in {"Correctness", "Architecture", "DebtDelta", "Performance", "Resilience", "Security"}
          /\ d = "Correctness" => QualityReport[d] = DeriveCorrectness
          /\ d = "Architecture" => QualityReport[d] = DeriveArchitecture
          /\ d = "DebtDelta" => QualityReport[d] = DeriveDebt
          /\ d = "Performance" => QualityReport[d] = DerivePerformance
          /\ d = "Resilience" => QualityReport[d] = DeriveResilience
          /\ d = "Security" => QualityReport[d] = DeriveSecurity
      BY <2>1 DEF QualityReport
    <3>2. d # "Correctness"  BY <2>1 DEF ClaimedDimensions
    <3>3. DeriveArchitecture.state # "FAIL"
      BY DEF DeriveArchitecture, Deterministic, Result, Eligible
    <3>4. ASSUME d = "DebtDelta" PROVE FALSE
      <4>1. counts["DebtRisk"] >= 5  BY <2>1, <3>1, <3>4 DEF DeriveDebt, Deterministic, Result
      <4>2. counts["DebtRisk"] \in Nat /\ Thresholds["DebtRisk"] = <<2, 5>>
        BY DEF TrustInv, RiskDimensions, Thresholds
      <4>3. RiskLevel("DebtRisk") >= 1  BY <4>1, <4>2 DEF RiskLevel, LevelOf
      <4>4. "DEBT" \in RequiredChecks  BY <4>3 DEF RequiredChecks, RiskAsks
      <4> QED BY <2>1, <3>4, <4>4 DEF ClaimedDimensions
    <3>5. ASSUME d = "Performance" PROVE FALSE
      <4>1. "PERFORMANCE" \in RequiredChecks
        BY <2>1, <3>1, <3>5 DEF DerivePerformance, Deterministic, Result
      <4> QED BY <2>1, <3>5, <4>1 DEF ClaimedDimensions
    <3>6. DeriveResilience.state # "FAIL"
      BY DEF DeriveResilience, Deterministic, Result, Eligible
    <3>7. DeriveSecurity.state # "FAIL"
      BY DEF DeriveSecurity, Deterministic, Result, Eligible
    <3> QED BY <2>1, <3>1, <3>2, <3>3, <3>4, <3>5, <3>6, <3>7
  <2> QED BY <2>1 DEF FailObligations
<1>4. ASSUME NEW c \in raised PROVE Good(ConcernObligation(c.concern, records))  BY DEF Eligible
<1>5. \A o \in Obligations(records) : Good(o)  BY <1>1, <1>2, <1>3, <1>4 DEF Obligations
<1>6. Unresolved(records) = {}  BY <1>5 DEF Unresolved
<1>7. "RESILIENCE" \in RequiredChecks =>
        DeriveResilience.provenance = "MEASURED" /\ DeriveResilience.state = "PASS"
  BY DEF DeriveResilience, Deterministic, Result, Eligible
<1> QED BY <1>6, <1>7 DEF MergeEligible, Trust, Eligible

-----------------------------------------------------------------------------
\* No input of the candidate under assessment became better.
Worse ==
  /\ current' = current /\ verdict' = verdict
  /\ \A d \in RiskDimensions : RiskLevel(d)' >= RiskLevel(d)
  /\ counts["DebtRisk"] \in Nat /\ counts["DebtRisk"]' \in Nat /\ counts["DebtRisk"]' >= counts["DebtRisk"]
  /\ (Critical => Critical') /\ (HighQuality => HighQuality')
  /\ StrengthRank(RequiredStrength)' >= StrengthRank(RequiredStrength)
  /\ (checked.verification = "VERIFIED")' => checked.verification = "VERIFIED"
  /\ (checked.performance = "PASS")' => checked.performance = "PASS"
  /\ (checked.resilience = "PASS")' => checked.resilience = "PASS"
  /\ facts \subseteq facts' /\ (remainder => remainder') /\ raised \subseteq raised'
  /\ records \subseteq records' /\ \A r \in records' \ records : r.outcome # "PASS"

\* What worse inputs ask for is no less.
LEMMA MoreIsAsked ==
  ASSUME Worse
  PROVE  RiskAsks \subseteq RiskAsks' /\ RequiredChecks \subseteq RequiredChecks'
<1>1. \A d \in RiskDimensions : RiskLevel(d)' \in {0, 1, 2} /\ RiskLevel(d) \in {0, 1, 2}
  BY DEF RiskLevel, LevelOf
<1>2. /\ "CodeCoupling" \in RiskDimensions /\ "BlastRadius" \in RiskDimensions
      /\ "ArchitectureSensitivity" \in RiskDimensions /\ "SecuritySensitivity" \in RiskDimensions
      /\ "DataConsistencyRisk" \in RiskDimensions /\ "NetworkBoundaryChanges" \in RiskDimensions
      /\ "OperationalSensitivity" \in RiskDimensions /\ "DebtRisk" \in RiskDimensions
  BY DEF RiskDimensions, Thresholds
<1>3. /\ RiskLevel("CodeCoupling") >= 1 => (RiskLevel("CodeCoupling") >= 1)'
      /\ RiskLevel("ArchitectureSensitivity") >= 1 => (RiskLevel("ArchitectureSensitivity") >= 1)'
      /\ RiskLevel("BlastRadius") >= 1 => (RiskLevel("BlastRadius") >= 1)'
      /\ RiskLevel("DebtRisk") >= 1 => (RiskLevel("DebtRisk") >= 1)'
      /\ RiskLevel("SecuritySensitivity") >= 1 => (RiskLevel("SecuritySensitivity") >= 1)'
      /\ RiskLevel("SecuritySensitivity") >= 2 => (RiskLevel("SecuritySensitivity") >= 2)'
      /\ RiskLevel("DataConsistencyRisk") >= 1 => (RiskLevel("DataConsistencyRisk") >= 1)'
      /\ RiskLevel("DataConsistencyRisk") >= 2 => (RiskLevel("DataConsistencyRisk") >= 2)'
      /\ RiskLevel("NetworkBoundaryChanges") >= 1 => (RiskLevel("NetworkBoundaryChanges") >= 1)'
      /\ RiskLevel("OperationalSensitivity") >= 1 => (RiskLevel("OperationalSensitivity") >= 1)'
  BY <1>1, <1>2 DEF Worse
<1>4. (Critical => Critical') /\ (HighQuality => HighQuality')  BY DEF Worse
<1>5. RiskAsks \subseteq RiskAsks'  BY <1>3, <1>4 DEF RiskAsks
<1>6. PreferenceAsks \subseteq PreferenceAsks'  BY <1>4 DEF PreferenceAsks
<1> QED BY <1>5, <1>6 DEF RequiredChecks

\* A concern settled under worse inputs was settled before.
LEMMA ConcernWasSettled ==
  ASSUME TrustInv, TrustInv', Worse, NEW concern, (ConcernObligation(concern, records).status = "PASS")'
  PROVE  ConcernObligation(concern, records).status = "PASS"
<1> DEFINE A == {c.class : c \in {x \in raised : x.concern = concern}}
           B == {c.class : c \in {x \in raised' : x.concern = concern}}
           mine == {r \in records : /\ r.concern = concern /\ r.by \in CapabilitiesEstablishing(concern)
                                    /\ r.candidate = current}
           mineNext == {r \in records' : /\ r.concern = concern /\ r.by \in CapabilitiesEstablishing(concern)
                                         /\ r.candidate = current'}
           strict == RequiredStrength'
<1>1. B \in SUBSET LanguageClasses /\ A \in SUBSET B  BY DEF TrustInv, Worse
<1>2. mine \subseteq mineNext /\ \A r \in mineNext : r.outcome = "PASS" => r \in mine
  BY DEF Worse
<1>3. /\ ~\E r \in mineNext : Adverse(r)
      /\ \E r \in mineNext : r.outcome = "PASS" /\ Adequate(r, B, strict)
  BY DEF ConcernObligation, Obligation, Bound
<1>4. /\ RequiredStrength \in {"LEXICAL", "STRUCTURAL", "BEHAVIORAL"}
      /\ strict \in {"LEXICAL", "STRUCTURAL", "BEHAVIORAL"}
  BY DEF RequiredStrength
<1>5. StrengthRank(RequiredStrength) <= StrengthRank(strict)
  <2>1. StrengthRank(strict) >= StrengthRank(RequiredStrength)  BY DEF Worse
  <2>2. StrengthRank(strict) \in Nat /\ StrengthRank(RequiredStrength) \in Nat
    BY <1>4 DEF StrengthRank
  <2> QED BY <2>1, <2>2
<1>6. PICK r \in mineNext : r.outcome = "PASS" /\ Adequate(r, B, strict)  BY <1>3
<1>7. r \in mine /\ r \in ConcernRecords  BY <1>2, <1>6 DEF TrustInv
<1>8. /\ r.claim = Negative /\ r.coverage \in {"UNSUPPORTED", "PARTIAL", "FULL", "NOT_APPLICABLE"}
      /\ r.strength \in Strengths
  BY <1>6, <1>7, TrustAssumption DEF Strengths
<1> HIDE DEF A, B, strict, mineNext, mine
<1>9. Adequate(r, A, RequiredStrength)  BY <1>1, <1>4, <1>5, <1>6, <1>8, AdequateShrinks
<1>10. ~\E x \in mine : Adverse(x)  BY <1>2, <1>3
<1> QED BY <1>6, <1>7, <1>9, <1>10 DEF ConcernObligation, Obligation, Bound, mine, A

\* A candidate that is eligible with worse inputs was eligible before.
LEMMA WorseNeverPromotes ==
  ASSUME TrustInv, TrustInv', Worse, Eligible'
  PROVE  Eligible
<1>1. RiskAsks \subseteq RiskAsks' /\ RequiredChecks \subseteq RequiredChecks'  BY MoreIsAsked
<1>2. RiskLevel("BlastRadius") = 0
  <2>1. "BlastRadius" \in RiskDimensions  BY DEF RiskDimensions, Thresholds
  <2>2. RiskLevel("BlastRadius")' >= RiskLevel("BlastRadius")  BY <2>1 DEF Worse
  <2>3. RiskLevel("BlastRadius")' = 0  BY DEF Eligible
  <2>4. RiskLevel("BlastRadius") \in {0, 1, 2}  BY Levels
  <2> QED BY <2>2, <2>3, <2>4
<1>3. /\ checked.verification = "VERIFIED" /\ ~remainder
      /\ "leak" \notin facts /\ "layering" \notin facts
  BY DEF Worse, Eligible
<1>4. "INTEGRATION" \notin RiskAsks /\ "CONCURRENCY" \notin RiskAsks  BY <1>1 DEF Eligible
<1>5. "ARCHITECTURE" \in RequiredChecks => "domainUnread" \notin facts  BY <1>1 DEF Worse, Eligible
<1>6. "DEBT" \in RequiredChecks => "debtUnread" \notin facts /\ counts["DebtRisk"] = 0
  BY <1>1 DEF Worse, Eligible
<1>7. "PERFORMANCE" \in RequiredChecks => checked.performance = "PASS"  BY <1>1 DEF Worse, Eligible
<1>8. ASSUME "RESILIENCE" \in RequiredChecks
      PROVE  /\ checked.resilience = "PASS"
             /\ CoversAll(CapabilityCoverageFor("RESILIENCE.FAULT_SCENARIO_EXECUTION",
                            "RESILIENCE.REQUIRED_SCENARIO_EXECUTION", TouchedClasses, Negative))
  <2> DEFINE A == TouchedClasses
             B == TouchedClasses'
  <2>1. A \in SUBSET B /\ B \in SUBSET LanguageClasses
    BY DEF Worse, TouchedClasses, Found, TrustInv, LanguageClasses
  <2>2. (checked.resilience = "PASS")'
        /\ CoversAll(CapabilityCoverageFor("RESILIENCE.FAULT_SCENARIO_EXECUTION",
                       "RESILIENCE.REQUIRED_SCENARIO_EXECUTION", B, Negative))
    BY <1>1, <1>8 DEF Eligible
  <2>3. checked.resilience = "PASS"  BY <2>2 DEF Worse
  <2> HIDE DEF A, B
  <2>4. CoversAll(CapabilityCoverageFor("RESILIENCE.FAULT_SCENARIO_EXECUTION",
                    "RESILIENCE.REQUIRED_SCENARIO_EXECUTION", A, Negative))
    BY <2>1, <2>2, CoverageShrinks
  <2> QED BY <2>3, <2>4 DEF A
<1>9. ASSUME NEW c \in raised PROVE ConcernObligation(c.concern, records).status = "PASS"
  <2>1. c \in raised'  BY DEF Worse
  <2>2. (ConcernObligation(c.concern, records).status = "PASS")'  BY <2>1 DEF Eligible
  <2> QED BY <2>2, ConcernWasSettled
<1>10. "INDEPENDENT_REVIEW" \in RequiredChecks => Approved(verdict)
  BY <1>1 DEF Worse, Eligible, Approved
<1> QED BY <1>2, <1>3, <1>4, <1>5, <1>6, <1>7, <1>8, <1>9, <1>10 DEF Eligible

\* The news the property speaks of.
BadNews ==
  /\ ~UNCHANGED trustVars /\ current' = current /\ verdict' = verdict
  /\ \A r \in records' \ records : r.outcome # "PASS"
  /\ \A k \in DOMAIN checked :
       checked'[k] \in {"PASS", "PASS_NOTHING_RUN"} => checked'[k] = checked[k]
  /\ RiskLevel("SecuritySensitivity")' >= RiskLevel("SecuritySensitivity")

\* The level of a dimension grows with its count.
LEMMA LevelGrows ==
  ASSUME NEW d \in RiskDimensions, d # "SecuritySensitivity", counts[d] \in Nat,
         counts'[d] \in Nat, counts'[d] >= counts[d]
  PROVE  RiskLevel(d)' >= RiskLevel(d)
<1>1. Thresholds[d][1] \in Nat /\ Thresholds[d][2] \in Nat
  <2>1. \A x \in RiskDimensions : Thresholds[x][1] \in Nat /\ Thresholds[x][2] \in Nat
    BY DEF RiskDimensions, Thresholds
  <2> QED BY <2>1
<1>2. RiskLevel(d) = LevelOf(d) /\ RiskLevel(d)' = LevelOf(d)'  BY DEF RiskLevel
<1> DEFINE low == Thresholds[d][1]  high == Thresholds[d][2]  n == counts[d]  m == counts'[d]
<1>3. /\ LevelOf(d) = IF n >= high THEN 2 ELSE IF n >= low THEN 1 ELSE 0
      /\ LevelOf(d)' = IF m >= high THEN 2 ELSE IF m >= low THEN 1 ELSE 0
  BY DEF LevelOf
<1> HIDE DEF low, high, n, m
<1>4. low \in Nat /\ high \in Nat /\ n \in Nat /\ m \in Nat /\ m >= n  BY <1>1 DEF low, high, n, m
<1> QED BY <1>2, <1>3, <1>4

\* Counts that do not fall, in a step that is bad news.
LEMMA LevelsGrow ==
  ASSUME TrustInv, TrustInv', BadNews, \A d \in RiskDimensions : counts'[d] >= counts[d]
  PROVE  /\ \A d \in RiskDimensions : RiskLevel(d)' >= RiskLevel(d)
         /\ counts["DebtRisk"] \in Nat /\ counts["DebtRisk"]' \in Nat
         /\ counts["DebtRisk"]' >= counts["DebtRisk"]
<1>1. \A d \in RiskDimensions : counts[d] \in Nat /\ counts'[d] \in Nat  BY DEF TrustInv
<1>2. ASSUME NEW d \in RiskDimensions PROVE RiskLevel(d)' >= RiskLevel(d)
  <2>1. CASE d = "SecuritySensitivity"  BY <2>1 DEF BadNews
  <2>2. CASE d # "SecuritySensitivity"  BY <1>1, <2>2, LevelGrows
  <2> QED BY <2>1, <2>2
<1>3. "DebtRisk" \in RiskDimensions  BY DEF RiskDimensions, Thresholds
<1> QED BY <1>1, <1>2, <1>3

\* Checks whose results are bad news.
LEMMA ChecksFall ==
  ASSUME TrustInv, BadNews
  PROVE  /\ (checked.performance = "PASS")' => checked.performance = "PASS"
         /\ (checked.resilience = "PASS")' => checked.resilience = "PASS"
BY DEF TrustInv, BadNews

\* A stricter preference asks for more strength.
LEMMA PreferenceGrows ==
  ASSUME RaisePreference \/ preference' = preference
  PROVE  /\ (Critical => Critical') /\ (HighQuality => HighQuality')
         /\ StrengthRank(RequiredStrength)' >= StrengthRank(RequiredStrength)
<1>1. /\ StrengthRank("LEXICAL") = 0 /\ StrengthRank("STRUCTURAL") = 1 /\ StrengthRank("BEHAVIORAL") = 2
  BY DEF StrengthRank
<1>2. (Critical => Critical') /\ (HighQuality => HighQuality')
  BY DEF RaisePreference, Critical, HighQuality
<1> DEFINE weak == RequiredStrength
           strict == RequiredStrength'
<1>3. \/ weak = strict /\ weak \in {"LEXICAL", "STRUCTURAL", "BEHAVIORAL"}
      \/ weak = "LEXICAL" /\ strict \in {"STRUCTURAL", "BEHAVIORAL"}
      \/ weak = "STRUCTURAL" /\ strict = "BEHAVIORAL"
  BY DEF RaisePreference, RequiredStrength, Critical
<1> HIDE DEF weak, strict
<1>4. StrengthRank(strict) >= StrengthRank(weak)  BY <1>1, <1>3
<1> QED BY <1>2, <1>4 DEF weak, strict

\* Bad news makes no input better.
LEMMA BadNewsIsWorse ==
  ASSUME TrustInv, TrustInv', TrustNext, BadNews
  PROVE  Worse
<1>1. /\ (checked.performance = "PASS")' => checked.performance = "PASS"
      /\ (checked.resilience = "PASS")' => checked.resilience = "PASS"
  BY ChecksFall
<1>2. ASSUME /\ \A d \in RiskDimensions : counts'[d] >= counts[d]
             /\ RaisePreference \/ preference' = preference
             /\ (checked.verification = "VERIFIED")' => checked.verification = "VERIFIED"
             /\ facts \subseteq facts' /\ (remainder => remainder') /\ raised \subseteq raised'
             /\ records \subseteq records'
      PROVE  Worse
  <2>1. /\ \A d \in RiskDimensions : RiskLevel(d)' >= RiskLevel(d)
        /\ counts["DebtRisk"] \in Nat /\ counts["DebtRisk"]' \in Nat
        /\ counts["DebtRisk"]' >= counts["DebtRisk"]
    BY <1>2, LevelsGrow
  <2>2. /\ (Critical => Critical') /\ (HighQuality => HighQuality')
        /\ StrengthRank(RequiredStrength)' >= StrengthRank(RequiredStrength)
    BY <1>2, PreferenceGrows
  <2> QED BY <1>1, <1>2, <2>1, <2>2 DEF BadNews, Worse
<1>3. ASSUME counts' = counts PROVE \A d \in RiskDimensions : counts'[d] >= counts[d]
  BY <1>3 DEF TrustInv
<1>4. ASSUME NEW d \in RiskDimensions, RaiseCount(d) PROVE Worse
  <2>1. PICK n \in {Thresholds[d][1], Thresholds[d][2]} : n > counts[d] /\ counts' = [counts EXCEPT ![d] = n]
    BY <1>4 DEF RaiseCount
  <2>2. \A x \in RiskDimensions : Thresholds[x][1] \in Nat /\ Thresholds[x][2] \in Nat
    BY DEF RiskDimensions, Thresholds
  <2>3. n \in Nat  BY <2>2
  <2>4. \A x \in RiskDimensions : counts'[x] >= counts[x]  BY <2>1, <2>3 DEF TrustInv
  <2> QED BY <1>2, <1>4, <2>4 DEF RaiseCount
<1>5. ASSUME NEW f \in Facts, ReportFact(f) PROVE Worse  BY <1>2, <1>3, <1>5 DEF ReportFact
<1>6. ASSUME NEW found \in ConcernFindings, RaiseConcerns(found) PROVE Worse
  BY <1>2, <1>3, <1>6 DEF RaiseConcerns
<1>7. ASSUME NEW r \in ConcernRecords, ReportRecord(r) PROVE Worse  BY <1>2, <1>3, <1>7 DEF ReportRecord
<1>8. ASSUME RaisePreference PROVE Worse  BY <1>2, <1>3, <1>8 DEF RaisePreference
<1>9. ASSUME ReportCheck PROVE Worse
  <2>1. (checked.verification = "VERIFIED")' => checked.verification = "VERIFIED"
    BY <1>9 DEF ReportCheck, TrustInv
  <2> QED BY <1>2, <1>3, <1>9, <2>1 DEF ReportCheck
<1>10. ASSUME LeaveRemainder PROVE Worse  BY <1>2, <1>3, <1>10 DEF LeaveRemainder
<1>11. ASSUME WriteVerdict PROVE Worse  BY <1>11 DEF WriteVerdict, BadNews, trustVars
<1>12. ASSUME Recapture PROVE Worse  BY <1>12 DEF Recapture, BadNews
<1> QED BY <1>4, <1>5, <1>6, <1>7, <1>8, <1>9, <1>10, <1>11, <1>12 DEF TrustNext

\* Eligibility of the state a step leads to.
LEMMA EligibleNext == (TrustInv /\ MergeEligible => Eligible)'
BY EligibleMeans, PTL

\* For any candidates, findings, evidence and verdicts: more risk, a stricter preference, a
\* failed check, a finding or adverse evidence never makes a candidate eligible that was not.
THEOREM BadNewsHolds == TrustSpec => BadNewsNeverPromotes
<1>1. TrustInit => TrustInv
  BY DEF TrustInit, TrustInv
<1>2. TrustInv /\ TrustInv' /\ [TrustNext]_trustVars =>
        [BadNews => (MergeEligible \/ ~MergeEligible')]_trustVars
  <2> SUFFICES ASSUME TrustInv, TrustInv', TrustNext, BadNews, MergeEligible' PROVE MergeEligible
    BY DEF trustVars
  <2>1. Worse  BY BadNewsIsWorse
  <2>2. Eligible'  BY EligibleNext
  <2>3. Eligible  BY <2>1, <2>2, WorseNeverPromotes
  <2> QED BY <2>3, EligibleIs
<1> QED BY <1>1, <1>2, TrustStep, PTL DEF TrustSpec, BadNewsNeverPromotes, BadNews

-----------------------------------------------------------------------------
(* ScannerRun. *)

ScanSize == Cardinality(ScanFiles)
ScanFields == {"step", "at", "initial", "launch", "final", "readTargets", "readRules", "document",
               "outcome", "exit"}

ScanTypeOK ==
  /\ DOMAIN scanDisk = {"stamp", "regular", "rules", "swapped", "writes"}
  /\ scanDisk.stamp \in [ScanFiles -> Nat] /\ scanDisk.swapped \in BOOLEAN
  /\ DOMAIN scan = ScanFields /\ scan.at \in 1..ScanSize
  /\ scan.initial \in Seq(Nat) /\ scan.launch \in Seq(Nat)
  /\ scan.readTargets \in Seq(Nat) /\ scan.final \in Seq(Nat)
  /\ Len(scan.launch) <= ScanSize /\ Len(scan.readTargets) <= ScanSize /\ Len(scan.final) <= ScanSize

\* How far each of the three validations and the scanner's own reading have come.
TargetsListed ==
  /\ scan.step = "idle" => scan.initial = <<>> /\ scan.at = 1
  /\ scan.step = "initial" => Len(scan.initial) = scan.at - 1
  /\ scan.step \in {"idle", "initial", "rules1", "probe"} => scan.launch = <<>>
  /\ scan.step \in {"rules1", "probe", "launch"} => Len(scan.initial) = ScanSize
  /\ scan.step = "launch" => Len(scan.launch) = scan.at - 1
  /\ scan.step \notin {"initial", "launch", "final"} => scan.at = 1 \/ scan.step \notin OpenGrep
  /\ scan.step \in {"rules2", "run", "reading", "final", "rules3"} =>
       scan.launch = scan.initial /\ Len(scan.launch) = ScanSize
  /\ scan.step \in {"idle", "initial", "rules1", "probe", "launch", "rules2", "run"} => scan.readTargets = <<>>
  /\ scan.step \in {"idle", "initial", "rules1", "probe", "launch", "rules2", "run", "reading"} => scan.final = <<>>
  /\ scan.step \in {"final", "rules3"} => Len(scan.readTargets) = ScanSize
  /\ scan.step = "final" => Len(scan.final) = scan.at - 1
  /\ scan.step = "rules3" => scan.final = scan.launch

\* A file's time only grows: what is read lies between the stamp at the launch and the
\* stamp after the scan.
StampsOrdered ==
  /\ \A i \in 1..Len(scan.launch) : scan.launch[i] <= scanDisk.stamp[i]
  /\ \A i \in 1..Len(scan.readTargets) :
       scan.launch[i] <= scan.readTargets[i] /\ scan.readTargets[i] <= scanDisk.stamp[i]
  /\ \A i \in 1..Len(scan.final) : scan.readTargets[i] <= scan.final[i]

\* Rules that were not the audited ones when they were read are still not, or were put back.
RulesShow ==
  scan.step \in {"reading", "final", "rules3"} =>
    scanDisk.swapped \/ scan.readRules = 0 \/ scanDisk.rules # 0

ScanInv ==
  /\ ScanTypeOK /\ TargetsListed /\ StampsOrdered /\ RulesShow
  /\ TargetsReadAreValidated /\ RulesReadAreAudited
  /\ scan.step = "osvEnded" /\ scan.outcome = "COMPLETED" => OsvAccepts(Results, scan.exit)

\* An accepted document accounts for every lockfile and every vulnerability, once.
LEMMA AcceptedAccounts ==
  ASSUME NEW doc, NEW exit, OsvAccepts(doc, exit)
  PROVE  /\ \A f \in ScanFiles : \E i \in DOMAIN doc : doc[i].source = f
         /\ \A i \in DOMAIN doc : \A k \in DOMAIN doc[i].packages :
              \A v \in doc[i].packages[k].vulns :
                Cardinality({x \in OsvFindings(doc) : x.file = doc[i].source /\ x.package = k
                               /\ v \in Members(doc[i].packages[k].groups[x.group])}) = 1
         /\ (exit = 1) = (OsvFindings(doc) # {})
<1> DEFINE finding(i, k, g) ==
      [file |-> doc[i].source, package |-> k, rule |-> Min(Members(doc[i].packages[k].groups[g])), group |-> g]
<1>1. /\ \A i, j \in DOMAIN doc : doc[i].source = doc[j].source => i = j
      /\ {doc[i].source : i \in DOMAIN doc} = ScanFiles
      /\ \A pkg \in Packages(doc) : GroupsPartition(pkg)
      /\ (exit = 1) = Vulnerable(doc)
  BY DEF OsvAccepts
<1>2. ASSUME NEW f \in ScanFiles PROVE \E i \in DOMAIN doc : doc[i].source = f
  BY <1>1
<1>3. ASSUME NEW i \in DOMAIN doc, NEW k \in DOMAIN doc[i].packages
      PROVE  doc[i].packages[k] \in Packages(doc) /\ GroupsPartition(doc[i].packages[k])
  BY <1>1 DEF Packages
<1>4. \A x : x \in OsvFindings(doc) <=>
        \E i \in DOMAIN doc : \E k \in DOMAIN doc[i].packages :
          \E g \in DOMAIN doc[i].packages[k].groups : x = finding(i, k, g)
  BY DEF OsvFindings
<1>5. \A i, k, g : /\ finding(i, k, g).file = doc[i].source /\ finding(i, k, g).package = k
                   /\ finding(i, k, g).group = g
  OBVIOUS
<1> HIDE DEF finding
<1>6. ASSUME NEW i \in DOMAIN doc, NEW k \in DOMAIN doc[i].packages, NEW v \in doc[i].packages[k].vulns
      PROVE  \E g \in DOMAIN doc[i].packages[k].groups :
               /\ v \in Members(doc[i].packages[k].groups[g])
               /\ \A h \in DOMAIN doc[i].packages[k].groups :
                    v \in Members(doc[i].packages[k].groups[h]) => h = g
  <2> DEFINE pkg == doc[i].packages[k]
  <2>1. GroupsPartition(pkg)  BY <1>3
  <2> HIDE DEF pkg
  <2>2. v \in UNION {Members(pkg.groups[g]) : g \in DOMAIN pkg.groups}  BY <1>6, <2>1 DEF GroupsPartition, pkg
  <2>3. PICK g \in DOMAIN pkg.groups : v \in Members(pkg.groups[g])  BY <2>2
  <2>4. \A h \in DOMAIN pkg.groups : v \in Members(pkg.groups[h]) => h = g
    BY <2>1, <2>3 DEF GroupsPartition
  <2> QED BY <2>3, <2>4 DEF pkg
<1>7. ASSUME NEW i \in DOMAIN doc, NEW k \in DOMAIN doc[i].packages, NEW v \in doc[i].packages[k].vulns
      PROVE  Cardinality({x \in OsvFindings(doc) : x.file = doc[i].source /\ x.package = k
                            /\ v \in Members(doc[i].packages[k].groups[x.group])}) = 1
  <2> DEFINE named == {x \in OsvFindings(doc) : x.file = doc[i].source /\ x.package = k
                         /\ v \in Members(doc[i].packages[k].groups[x.group])}
  <2>1. PICK g \in DOMAIN doc[i].packages[k].groups :
          /\ v \in Members(doc[i].packages[k].groups[g])
          /\ \A h \in DOMAIN doc[i].packages[k].groups :
               v \in Members(doc[i].packages[k].groups[h]) => h = g
    BY <1>6
  <2>2. finding(i, k, g) \in named  BY <1>4, <1>5, <2>1
  <2>3. ASSUME NEW x \in named PROVE x = finding(i, k, g)
    <3>1. PICK j \in DOMAIN doc : \E m \in DOMAIN doc[j].packages :
            \E h \in DOMAIN doc[j].packages[m].groups : x = finding(j, m, h)
      BY <1>4
    <3>2. PICK m \in DOMAIN doc[j].packages :
            \E h \in DOMAIN doc[j].packages[m].groups : x = finding(j, m, h)
      BY <3>1
    <3>3. PICK h \in DOMAIN doc[j].packages[m].groups : x = finding(j, m, h)
      BY <3>2
    <3>4. x.file = doc[j].source /\ x.package = m /\ x.group = h  BY <1>5, <3>3
    <3>5. j = i /\ m = k  BY <1>1, <3>4
    <3>6. h = g  BY <2>1, <3>3, <3>4, <3>5
    <3> QED BY <3>3, <3>5, <3>6
  <2>4. named = {finding(i, k, g)}  BY <2>2, <2>3
  <2> HIDE DEF named
  <2>5. Cardinality(named) = 1  BY <2>4, FS_Singleton
  <2> QED BY <2>5 DEF named
<1>8. Vulnerable(doc) <=> OsvFindings(doc) # {}
  <2>1. ASSUME Vulnerable(doc) PROVE OsvFindings(doc) # {}
    <3>1. PICK pkg \in Packages(doc) : pkg.vulns # {}  BY <2>1 DEF Vulnerable
    <3>2. PICK i \in DOMAIN doc : \E k \in DOMAIN doc[i].packages : pkg = doc[i].packages[k]
      BY <3>1 DEF Packages
    <3>3. PICK k \in DOMAIN doc[i].packages : pkg = doc[i].packages[k]  BY <3>2
    <3>4. PICK v : v \in doc[i].packages[k].vulns  BY <3>1, <3>3
    <3>5. PICK g \in DOMAIN doc[i].packages[k].groups : TRUE  BY <1>6, <3>4
    <3>6. finding(i, k, g) \in OsvFindings(doc)  BY <1>4, <3>5
    <3> QED BY <3>6
  <2>2. ASSUME OsvFindings(doc) # {} PROVE Vulnerable(doc)
    <3>1. PICK i \in DOMAIN doc : \E k \in DOMAIN doc[i].packages :
            \E g \in DOMAIN doc[i].packages[k].groups : TRUE
      BY <1>4, <2>2
    <3>2. PICK k \in DOMAIN doc[i].packages : \E g \in DOMAIN doc[i].packages[k].groups : TRUE
      BY <3>1
    <3>3. PICK g \in DOMAIN doc[i].packages[k].groups : TRUE  BY <3>2
    <3>4. /\ Members(doc[i].packages[k].groups[g]) # {}
          /\ Members(doc[i].packages[k].groups[g]) \subseteq doc[i].packages[k].vulns
      BY <1>3 DEF GroupsPartition
    <3> QED BY <1>3, <3>4 DEF Vulnerable
  <2> QED BY <2>1, <2>2
<1> QED BY <1>1, <1>2, <1>7, <1>8

\* The call ends without a result.
LEMMA ScanEndsStep ==
  ASSUME ScanInv, NEW o, o # "COMPLETED", Ends(o), UNCHANGED scanDisk
  PROVE  ScanInv'
<1>1. /\ DOMAIN scan' = ScanFields /\ scan'.step = "ended" /\ scan'.outcome = o /\ scan'.at = scan.at
      /\ scan'.initial = scan.initial /\ scan'.launch = scan.launch /\ scan'.final = scan.final
      /\ scan'.readTargets = scan.readTargets
  BY DEF Ends, ScanInv, ScanTypeOK, ScanFields
<1>2. ScanTypeOK' /\ StampsOrdered'
  BY <1>1 DEF ScanInv, ScanTypeOK, StampsOrdered
<1>3. TargetsListed' /\ RulesShow'
  BY <1>1 DEF TargetsListed, RulesShow, OpenGrep
<1> QED BY <1>1, <1>2, <1>3 DEF ScanInv, TargetsReadAreValidated, RulesReadAreAudited, OpenGrepCompleted

\* Only the step changes.
LEMMA ScanMoveStep ==
  ASSUME ScanInv, NEW s, scan' = [scan EXCEPT !.step = s], UNCHANGED scanDisk,
         <<scan.step, s>> \in {<<"idle", "initial">>, <<"rules1", "probe">>, <<"probe", "launch">>,
                               <<"rules2", "run">>, <<"idle", "osv">>}
  PROVE  ScanInv'
<1>1. /\ DOMAIN scan' = ScanFields /\ scan'.step = s /\ scan'.at = scan.at
      /\ scan'.initial = scan.initial /\ scan'.launch = scan.launch /\ scan'.final = scan.final
      /\ scan'.readTargets = scan.readTargets
  BY DEF ScanInv, ScanTypeOK, ScanFields
<1>2. ScanTypeOK' /\ StampsOrdered'
  BY <1>1 DEF ScanInv, ScanTypeOK, StampsOrdered
<1>3. s \notin {"ended", "osvEnded", "reading", "final", "rules3", "rules2", "rules1", "idle"}
  OBVIOUS
<1>4. Len(<<>>) = 0  OBVIOUS
<1>5. ScanSize \in Nat \ {0}  BY ScanAssumption DEF ScanSize
<1>6. TargetsListed'
  BY <1>1, <1>4, <1>5 DEF TargetsListed, OpenGrep, ScanInv
<1> QED BY <1>1, <1>2, <1>3, <1>6 DEF ScanInv, RulesShow, TargetsReadAreValidated, RulesReadAreAudited,
        OpenGrepCompleted

\* One target examined: the list of this round grows, or is compared with the one before.
LEMMA ValidateMeans ==
  ASSUME ValidateTarget, scanDisk.regular[scan.at], NEW seen, NEW t,
         scan.step = t, seen = Append(scan[t], scanDisk.stamp[scan.at])
  PROVE  /\ scanDisk' = scanDisk
         /\ \/ scan.at < ScanSize /\ scan' = [scan EXCEPT ![t] = seen, !.at = scan.at + 1]
            \/ /\ ~(scan.at < ScanSize) /\ t # "initial" /\ seen # EarlierTargets(t)
               /\ Ends("REFUSED")
            \/ /\ ~(scan.at < ScanSize) /\ (t # "initial" => seen = EarlierTargets(t))
               /\ scan' = [scan EXCEPT ![t] = seen, !.at = 1, !.step = After3(t)]
<1>1. scanDisk' = scanDisk  BY DEF ValidateTarget
<1>2. CASE scan.at < ScanSize
  BY <1>1, <1>2, Zenon DEF ValidateTarget, ScanSize
<1>3. CASE ~(scan.at < ScanSize)
  BY <1>1, <1>3, Zenon DEF ValidateTarget, ScanSize, SameTargets
<1> QED BY <1>2, <1>3

\* One target is examined, in any of the three rounds.
LEMMA ValidateStep == ASSUME ScanInv, ValidateTarget PROVE ScanInv'
<1>0. ScanSize \in Nat \ {0} /\ ScanFiles = 1..ScanSize  BY ScanAssumption DEF ScanSize
<1>1. CASE ~scanDisk.regular[scan.at]
  BY <1>1, ScanEndsStep DEF ValidateTarget
<1> DEFINE n == scanDisk.stamp[scan.at]
<1>2. n \in Nat /\ scan.at \in 1..ScanSize  BY <1>0 DEF ScanInv, ScanTypeOK
<1>3. ASSUME scanDisk.regular[scan.at], scan.step = "initial" PROVE ScanInv'
  <2> DEFINE seen == Append(scan.initial, n)
  <2>1. scan.initial \in Seq(Nat) /\ Len(scan.initial) = scan.at - 1
    BY <1>3 DEF ScanInv, ScanTypeOK, TargetsListed
  <2>2. seen \in Seq(Nat) /\ Len(seen) = scan.at  BY <1>2, <2>1
  <2>20. /\ scanDisk' = scanDisk
         /\ \/ scan.at < ScanSize /\ scan' = [scan EXCEPT !.initial = seen, !.at = scan.at + 1]
            \/ /\ ~(scan.at < ScanSize) /\ "initial" # "initial" /\ seen # EarlierTargets("initial")
               /\ Ends("REFUSED")
            \/ /\ ~(scan.at < ScanSize) /\ ("initial" # "initial" => seen = EarlierTargets("initial"))
               /\ scan' = [scan EXCEPT !.initial = seen, !.at = 1, !.step = After3("initial")]
    BY <1>3, ValidateMeans, Zenon
  <2>21. ~(scan.at < ScanSize) => scan.at = ScanSize  BY <1>0, <1>2
  <2>22. After3("initial") = "rules1"  BY DEF After3, EarlierTargets
  <2>3. /\ scanDisk' = scanDisk
        /\ \/ scan.at < ScanSize /\ scan' = [scan EXCEPT !.initial = seen, !.at = scan.at + 1]
           \/ scan.at = ScanSize /\ scan' = [scan EXCEPT !.initial = seen, !.at = 1, !.step = "rules1"]
    <3>1. CASE scan.at < ScanSize  BY <2>20, <3>1
    <3>2. CASE ~(scan.at < ScanSize)  BY <2>20, <2>21, <2>22, <3>2
    <3> QED BY <3>1, <3>2
  <2> HIDE DEF seen, n
  <2>4. /\ DOMAIN scan' = ScanFields /\ scan'.initial = seen /\ scan'.launch = scan.launch
        /\ scan'.final = scan.final /\ scan'.readTargets = scan.readTargets
        /\ \/ scan.at < ScanSize /\ scan'.at = scan.at + 1 /\ scan'.step = "initial"
           \/ scan.at = ScanSize /\ scan'.at = 1 /\ scan'.step = "rules1"
    <3>1. DOMAIN scan = ScanFields  BY DEF ScanInv, ScanTypeOK
    <3>2. CASE scan.at < ScanSize /\ scan' = [scan EXCEPT !.initial = seen, !.at = scan.at + 1]
      BY <1>3, <3>1, <3>2 DEF ScanFields
    <3>3. CASE scan.at = ScanSize /\ scan' = [scan EXCEPT !.initial = seen, !.at = 1, !.step = "rules1"]
      BY <1>3, <3>1, <3>3 DEF ScanFields
    <3> QED BY <2>3, <3>2, <3>3
  <2>5. ScanTypeOK'
    BY <1>0, <1>2, <2>2, <2>3, <2>4 DEF ScanInv, ScanTypeOK
  <2>6. TargetsListed'
    BY <1>0, <1>2, <1>3, <2>2, <2>4 DEF ScanInv, TargetsListed
  <2>7. StampsOrdered'
    BY <2>3, <2>4 DEF ScanInv, StampsOrdered
  <2> QED BY <2>4, <2>5, <2>6, <2>7 DEF ScanInv, RulesShow, TargetsReadAreValidated, RulesReadAreAudited,
          OpenGrepCompleted
<1>4. ASSUME scanDisk.regular[scan.at], scan.step = "launch" PROVE ScanInv'
  <2> DEFINE seen == Append(scan.launch, n)
  <2>1. scan.launch \in Seq(Nat) /\ Len(scan.launch) = scan.at - 1
    BY <1>4 DEF ScanInv, ScanTypeOK, TargetsListed
  <2>2. /\ seen \in Seq(Nat) /\ Len(seen) = scan.at /\ seen[scan.at] = n
        /\ \A i \in 1..Len(seen) : i = scan.at \/ (i \in 1..Len(scan.launch) /\ seen[i] = scan.launch[i])
    BY <1>2, <2>1
  <2>20. /\ scanDisk' = scanDisk
         /\ \/ scan.at < ScanSize /\ scan' = [scan EXCEPT !.launch = seen, !.at = scan.at + 1]
            \/ /\ ~(scan.at < ScanSize) /\ "launch" # "initial" /\ seen # EarlierTargets("launch")
               /\ Ends("REFUSED")
            \/ /\ ~(scan.at < ScanSize) /\ ("launch" # "initial" => seen = EarlierTargets("launch"))
               /\ scan' = [scan EXCEPT !.launch = seen, !.at = 1, !.step = After3("launch")]
    BY <1>4, ValidateMeans, Zenon
  <2>21. ~(scan.at < ScanSize) => scan.at = ScanSize  BY <1>0, <1>2
  <2>22. After3("launch") = "rules2" /\ EarlierTargets("launch") = scan.initial  BY DEF After3, EarlierTargets
  <2>3. CASE scan.at = ScanSize /\ seen # scan.initial
    <3>1. Ends("REFUSED") /\ UNCHANGED scanDisk
      BY <1>2, <2>3, <2>20 DEF EarlierTargets
    <3> QED BY <3>1, ScanEndsStep
  <2>4. CASE ~(scan.at = ScanSize /\ seen # scan.initial)
    <3>1. /\ scanDisk' = scanDisk
          /\ \/ scan.at < ScanSize /\ scan' = [scan EXCEPT !.launch = seen, !.at = scan.at + 1]
             \/ /\ scan.at = ScanSize /\ seen = scan.initial
                /\ scan' = [scan EXCEPT !.launch = seen, !.at = 1, !.step = "rules2"]
      <4>1. CASE scan.at < ScanSize  BY <2>20, <4>1
      <4>2. CASE ~(scan.at < ScanSize)  BY <2>4, <2>20, <2>21, <2>22, <4>2
      <4> QED BY <4>1, <4>2
    <3> HIDE DEF seen
    <3>2. /\ DOMAIN scan' = ScanFields /\ scan'.launch = seen /\ scan'.initial = scan.initial
          /\ scan'.final = scan.final /\ scan'.readTargets = scan.readTargets
          /\ \/ scan.at < ScanSize /\ scan'.at = scan.at + 1 /\ scan'.step = "launch"
             \/ scan.at = ScanSize /\ seen = scan.initial /\ scan'.at = 1 /\ scan'.step = "rules2"
      <4>1. DOMAIN scan = ScanFields  BY DEF ScanInv, ScanTypeOK
      <4>2. CASE scan.at < ScanSize /\ scan' = [scan EXCEPT !.launch = seen, !.at = scan.at + 1]
        BY <1>4, <4>1, <4>2 DEF ScanFields
      <4>3. CASE /\ scan.at = ScanSize /\ seen = scan.initial
                 /\ scan' = [scan EXCEPT !.launch = seen, !.at = 1, !.step = "rules2"]
        BY <1>4, <4>1, <4>3 DEF ScanFields
      <4> QED BY <3>1, <4>2, <4>3
    <3>3. ScanTypeOK'
      BY <1>0, <1>2, <2>2, <3>1, <3>2 DEF ScanInv, ScanTypeOK
    <3>4. TargetsListed'
      <4>1. CASE scan'.step = "launch"
        BY <1>0, <1>2, <1>4, <2>2, <3>2, <4>1 DEF ScanInv, TargetsListed
      <4>2. CASE scan'.step = "rules2"
        BY <1>0, <1>2, <1>4, <2>2, <3>2, <4>2 DEF ScanInv, TargetsListed
      <4> QED BY <3>2, <4>1, <4>2
    <3>5. StampsOrdered'
      <4>1. scan.readTargets = <<>> /\ scan.final = <<>>  BY <1>4 DEF ScanInv, TargetsListed
      <4>2. \A i \in 1..Len(seen) : seen[i] <= scanDisk.stamp[i]
        BY <1>2, <2>2 DEF ScanInv, StampsOrdered
      <4>3. Len(<<>>) = 0  OBVIOUS
      <4> QED BY <3>1, <3>2, <4>1, <4>2, <4>3 DEF StampsOrdered
    <3> QED BY <3>2, <3>3, <3>4, <3>5 DEF ScanInv, RulesShow, TargetsReadAreValidated, RulesReadAreAudited,
            OpenGrepCompleted
  <2> QED BY <2>3, <2>4
<1>5. ASSUME scanDisk.regular[scan.at], scan.step = "final" PROVE ScanInv'
  <2> DEFINE seen == Append(scan.final, n)
  <2>1. scan.final \in Seq(Nat) /\ Len(scan.final) = scan.at - 1
    BY <1>5 DEF ScanInv, ScanTypeOK, TargetsListed
  <2>2. /\ seen \in Seq(Nat) /\ Len(seen) = scan.at /\ seen[scan.at] = n
        /\ \A i \in 1..Len(seen) : i = scan.at \/ (i \in 1..Len(scan.final) /\ seen[i] = scan.final[i])
    BY <1>2, <2>1
  <2>20. /\ scanDisk' = scanDisk
         /\ \/ scan.at < ScanSize /\ scan' = [scan EXCEPT !.final = seen, !.at = scan.at + 1]
            \/ /\ ~(scan.at < ScanSize) /\ "final" # "initial" /\ seen # EarlierTargets("final")
               /\ Ends("REFUSED")
            \/ /\ ~(scan.at < ScanSize) /\ ("final" # "initial" => seen = EarlierTargets("final"))
               /\ scan' = [scan EXCEPT !.final = seen, !.at = 1, !.step = After3("final")]
    BY <1>5, ValidateMeans, Zenon
  <2>21. ~(scan.at < ScanSize) => scan.at = ScanSize  BY <1>0, <1>2
  <2>22. After3("final") = "rules3" /\ EarlierTargets("final") = scan.launch  BY DEF After3, EarlierTargets
  <2>3. CASE scan.at = ScanSize /\ seen # scan.launch
    <3>1. Ends("REFUSED") /\ UNCHANGED scanDisk
      BY <1>2, <2>3, <2>20 DEF EarlierTargets
    <3> QED BY <3>1, ScanEndsStep
  <2>4. CASE ~(scan.at = ScanSize /\ seen # scan.launch)
    <3>1. /\ scanDisk' = scanDisk
          /\ \/ scan.at < ScanSize /\ scan' = [scan EXCEPT !.final = seen, !.at = scan.at + 1]
             \/ /\ scan.at = ScanSize /\ seen = scan.launch
                /\ scan' = [scan EXCEPT !.final = seen, !.at = 1, !.step = "rules3"]
      <4>1. CASE scan.at < ScanSize  BY <2>20, <4>1
      <4>2. CASE ~(scan.at < ScanSize)  BY <2>4, <2>20, <2>21, <2>22, <4>2
      <4> QED BY <4>1, <4>2
    <3> HIDE DEF seen
    <3>2. /\ DOMAIN scan' = ScanFields /\ scan'.final = seen /\ scan'.initial = scan.initial
          /\ scan'.launch = scan.launch /\ scan'.readTargets = scan.readTargets
          /\ scan'.readRules = scan.readRules
          /\ \/ scan.at < ScanSize /\ scan'.at = scan.at + 1 /\ scan'.step = "final"
             \/ scan.at = ScanSize /\ seen = scan.launch /\ scan'.at = 1 /\ scan'.step = "rules3"
      <4>1. DOMAIN scan = ScanFields  BY DEF ScanInv, ScanTypeOK
      <4>2. CASE scan.at < ScanSize /\ scan' = [scan EXCEPT !.final = seen, !.at = scan.at + 1]
        BY <1>5, <4>1, <4>2 DEF ScanFields
      <4>3. CASE /\ scan.at = ScanSize /\ seen = scan.launch
                 /\ scan' = [scan EXCEPT !.final = seen, !.at = 1, !.step = "rules3"]
        BY <1>5, <4>1, <4>3 DEF ScanFields
      <4> QED BY <3>1, <4>2, <4>3
    <3>3. ScanTypeOK'
      BY <1>0, <1>2, <2>2, <3>1, <3>2, SMTT(30) DEF ScanInv, ScanTypeOK
    <3>4. TargetsListed'
      <4>1. CASE scan'.step = "final"
        BY <1>0, <1>2, <1>5, <2>2, <3>2, <4>1 DEF ScanInv, TargetsListed
      <4>2. CASE scan'.step = "rules3"
        BY <1>0, <1>2, <1>5, <2>2, <3>2, <4>2 DEF ScanInv, TargetsListed
      <4> QED BY <3>2, <4>1, <4>2
    <3>5. StampsOrdered'
      <4>1. Len(scan.readTargets) = ScanSize  BY <1>5 DEF ScanInv, TargetsListed
      <4>2. \A i \in 1..Len(seen) : scan.readTargets[i] <= seen[i]
        BY <1>2, <2>2, <4>1 DEF ScanInv, StampsOrdered
      <4> QED BY <3>1, <3>2, <4>2 DEF ScanInv, StampsOrdered
    <3>6. RulesShow'  BY <1>5, <3>1, <3>2 DEF ScanInv, RulesShow
    <3> QED BY <3>2, <3>3, <3>4, <3>5, <3>6 DEF ScanInv, TargetsReadAreValidated, RulesReadAreAudited,
            OpenGrepCompleted
  <2> QED BY <2>3, <2>4
<1> QED BY <1>1, <1>3, <1>4, <1>5 DEF ValidateTarget

\* The scanner reads the next target.
LEMMA ScanReadStep == ASSUME ScanInv, ReadTarget PROVE ScanInv'
<1>0. ScanSize \in Nat \ {0} /\ ScanFiles = 1..ScanSize  BY ScanAssumption DEF ScanSize
<1> DEFINE n == Len(scan.readTargets) + 1
           read == Append(scan.readTargets, scanDisk.stamp[n])
<1>1. /\ scan.step = "reading" /\ Len(scan.readTargets) < ScanSize /\ scanDisk' = scanDisk
      /\ scan' = [scan EXCEPT !.readTargets = read]
  BY DEF ReadTarget, ScanSize
<1>2. scan.readTargets \in Seq(Nat) /\ scanDisk.stamp \in [ScanFiles -> Nat] /\ DOMAIN scan = ScanFields
  BY DEF ScanInv, ScanTypeOK
<1>3. n \in 1..ScanSize /\ scanDisk.stamp[n] \in Nat  BY <1>0, <1>1, <1>2
<1>4. /\ read \in Seq(Nat) /\ Len(read) = n /\ read[n] = scanDisk.stamp[n]
      /\ \A i \in 1..Len(read) :
           i = n \/ (i \in 1..Len(scan.readTargets) /\ read[i] = scan.readTargets[i])
  BY <1>2, <1>3
<1> HIDE DEF read
<1>5. /\ DOMAIN scan' = ScanFields /\ scan'.readTargets = read /\ scan'.initial = scan.initial
      /\ scan'.launch = scan.launch /\ scan'.final = scan.final /\ scan'.at = scan.at
      /\ scan'.step = "reading" /\ scan'.readRules = scan.readRules
  BY <1>1, <1>2 DEF ScanFields
<1>6. ScanTypeOK'
  BY <1>0, <1>1, <1>3, <1>4, <1>5 DEF ScanInv, ScanTypeOK
<1>7. TargetsListed'
  BY <1>1, <1>5 DEF ScanInv, TargetsListed
<1>8. StampsOrdered'
  <2>1. /\ Len(scan.launch) = ScanSize /\ scan.final = <<>>
    BY <1>1 DEF ScanInv, TargetsListed
  <2>2. \A i \in 1..Len(read) : scan.launch[i] <= read[i] /\ read[i] <= scanDisk.stamp[i]
    BY <1>3, <1>4, <2>1, SMTT(30) DEF ScanInv, StampsOrdered
  <2>3. Len(<<>>) = 0  OBVIOUS
  <2> QED BY <1>1, <1>5, <2>1, <2>2, <2>3 DEF ScanInv, StampsOrdered
<1>9. RulesShow'  BY <1>1, <1>5 DEF ScanInv, RulesShow
<1> QED BY <1>5, <1>6, <1>7, <1>8, <1>9 DEF ScanInv, TargetsReadAreValidated, RulesReadAreAudited,
        OpenGrepCompleted

\* Two lists of times with the same entries are one.
LEMMA SameTimes ==
  ASSUME NEW a \in Seq(Nat), NEW b \in Seq(Nat), Len(a) = Len(b), \A i \in 1..Len(a) : a[i] = b[i]
  PROVE  a = b
BY SeqEqual

\* The answer is read: nothing was written between the launch and the last look at a target.
LEMMA ScanParseStep == ASSUME ScanInv, ParseScan PROVE ScanInv'
<1>0. ScanSize \in Nat \ {0} /\ ScanFiles = 1..ScanSize  BY ScanAssumption DEF ScanSize
<1>1. PICK o : Ends(o) /\ UNCHANGED scanDisk /\ (o = "COMPLETED" => scanDisk.rules = 0)
  BY DEF ParseScan
<1>2. CASE o # "COMPLETED"  BY <1>1, <1>2, ScanEndsStep
<1>3. CASE o = "COMPLETED"
  <2>1. scan.step = "rules3"  BY DEF ParseScan
  <2>2. /\ DOMAIN scan' = ScanFields /\ scan'.step = "ended" /\ scan'.outcome = o /\ scan'.at = scan.at
        /\ scan'.initial = scan.initial /\ scan'.launch = scan.launch /\ scan'.final = scan.final
        /\ scan'.readTargets = scan.readTargets /\ scan'.readRules = scan.readRules
    BY <1>1 DEF Ends, ScanInv, ScanTypeOK, ScanFields
  <2>3. /\ scan.readTargets \in Seq(Nat) /\ scan.launch \in Seq(Nat) /\ scan.final = scan.launch
        /\ scan.launch = scan.initial /\ Len(scan.readTargets) = ScanSize /\ Len(scan.launch) = ScanSize
    BY <2>1 DEF ScanInv, ScanTypeOK, TargetsListed
  <2>4. \A i \in 1..Len(scan.readTargets) :
          /\ scan.launch[i] <= scan.readTargets[i] /\ scan.readTargets[i] <= scan.launch[i]
          /\ scan.launch[i] \in Nat /\ scan.readTargets[i] \in Nat
    <3> SUFFICES ASSUME NEW i \in 1..ScanSize
                 PROVE  /\ scan.launch[i] <= scan.readTargets[i] /\ scan.readTargets[i] <= scan.launch[i]
                        /\ scan.launch[i] \in Nat /\ scan.readTargets[i] \in Nat
      BY <2>3
    <3>1. scan.launch[i] <= scan.readTargets[i]  BY <2>3 DEF ScanInv, StampsOrdered
    <3>2. scan.readTargets[i] <= scan.final[i]  BY <2>3 DEF ScanInv, StampsOrdered
    <3>3. scan.launch[i] \in Nat /\ scan.readTargets[i] \in Nat  BY <2>3
    <3> QED BY <2>3, <3>1, <3>2, <3>3
  <2>5. \A i \in 1..Len(scan.readTargets) : scan.readTargets[i] = scan.launch[i]  BY <2>4
  <2>6. scan.readTargets = scan.launch  BY <2>3, <2>5, SameTimes
  <2>7. scanDisk.swapped \/ scan.readRules = 0
    BY <1>1, <1>3, <2>1 DEF ScanInv, RulesShow
  <2>8. ScanTypeOK' /\ StampsOrdered'
    BY <1>1, <2>2 DEF ScanInv, ScanTypeOK, StampsOrdered
  <2>9. TargetsListed' /\ RulesShow'
    BY <2>2 DEF TargetsListed, RulesShow, OpenGrep
  <2> QED BY <1>1, <2>2, <2>3, <2>6, <2>7, <2>8, <2>9
          DEF ScanInv, TargetsReadAreValidated, RulesReadAreAudited, OpenGrepCompleted
<1> QED BY <1>2, <1>3

\* Someone writes a target or the rules meanwhile.
LEMMA ScanWriteStep ==
  ASSUME ScanInv,
         \/ \E f \in ScanFiles, r \in BOOLEAN : WriteTarget(f, r)
         \/ \E v \in 0..1 : WriteRules(v)
  PROVE  ScanInv'
<1>0. ScanSize \in Nat \ {0} /\ ScanFiles = 1..ScanSize  BY ScanAssumption DEF ScanSize
<1>1. scan' = scan /\ scan.step \in OpenGrep  BY DEF WriteTarget, WriteRules
<1>2. ASSUME NEW f \in ScanFiles, NEW r \in BOOLEAN, WriteTarget(f, r) PROVE ScanInv'
  <2>1. /\ DOMAIN scanDisk' = {"stamp", "regular", "rules", "swapped", "writes"}
        /\ scanDisk'.stamp = [scanDisk.stamp EXCEPT ![f] = @ + 1]
        /\ scanDisk'.rules = scanDisk.rules /\ scanDisk'.swapped = scanDisk.swapped
    BY <1>2 DEF WriteTarget, ScanInv, ScanTypeOK
  <2>2. scanDisk.stamp \in [ScanFiles -> Nat]  BY DEF ScanInv, ScanTypeOK
  <2>3. /\ scanDisk'.stamp \in [ScanFiles -> Nat]
        /\ \A i \in ScanFiles : scanDisk.stamp[i] <= scanDisk'.stamp[i]
    BY <2>1, <2>2
  <2>4. ScanTypeOK'  BY <1>1, <2>1, <2>3 DEF ScanInv, ScanTypeOK
  <2>5. /\ scan.launch \in Seq(Nat) /\ scan.readTargets \in Seq(Nat)
        /\ Len(scan.launch) <= ScanSize /\ Len(scan.readTargets) <= ScanSize
    BY DEF ScanInv, ScanTypeOK
  <2>6. \A i \in 1..Len(scan.launch) : scan.launch[i] <= scanDisk'.stamp[i]
    <3> TAKE i \in 1..Len(scan.launch)
    <3>1. i \in ScanFiles /\ scan.launch[i] \in Nat  BY <1>0, <2>5
    <3>2. scan.launch[i] <= scanDisk.stamp[i]  BY DEF ScanInv, StampsOrdered
    <3> QED BY <2>2, <2>3, <3>1, <3>2
  <2>7. \A i \in 1..Len(scan.readTargets) :
          scan.launch[i] <= scan.readTargets[i] /\ scan.readTargets[i] <= scanDisk'.stamp[i]
    <3> TAKE i \in 1..Len(scan.readTargets)
    <3>1. i \in ScanFiles /\ scan.readTargets[i] \in Nat  BY <1>0, <2>5
    <3>2. scan.launch[i] <= scan.readTargets[i] /\ scan.readTargets[i] <= scanDisk.stamp[i]
      BY DEF ScanInv, StampsOrdered
    <3> QED BY <2>2, <2>3, <3>1, <3>2
  <2>8. StampsOrdered'  BY <1>1, <2>6, <2>7 DEF ScanInv, StampsOrdered
  <2>9. TargetsListed' /\ RulesShow'  BY <1>1, <2>1 DEF ScanInv, TargetsListed, RulesShow
  <2> QED BY <1>1, <2>4, <2>8, <2>9
          DEF ScanInv, OpenGrep, TargetsReadAreValidated, RulesReadAreAudited, OpenGrepCompleted
<1>3. ASSUME NEW v \in 0..1, WriteRules(v) PROVE ScanInv'
  <2>1. /\ DOMAIN scanDisk' = {"stamp", "regular", "rules", "swapped", "writes"}
        /\ scanDisk'.stamp = scanDisk.stamp
        /\ scanDisk'.rules = v /\ scanDisk'.swapped \in BOOLEAN
        /\ scanDisk.swapped \/ v = 0 => scanDisk'.swapped
    BY <1>3 DEF WriteRules, ScanInv, ScanTypeOK
  <2>2. ScanTypeOK' /\ TargetsListed' /\ StampsOrdered'
    BY <1>1, <2>1 DEF ScanInv, ScanTypeOK, TargetsListed, StampsOrdered
  <2>3. RulesShow'  BY <1>1, <2>1 DEF ScanInv, RulesShow
  <2> QED BY <1>1, <2>2, <2>3
          DEF ScanInv, OpenGrep, TargetsReadAreValidated, RulesReadAreAudited, OpenGrepCompleted
<1> QED BY <1>2, <1>3

\* Printing, exiting and starting the scanner.
LEMMA ScannerStep ==
  ASSUME ScanInv,
         \/ ReadRules
         \/ \E d \in ScanDocuments : ScanExits(d)
         \/ \E s \in ScanFiles \cup {0} : PrintSource(s)
         \/ \E v \in VulnerabilitySets : PrintPackage(v)
         \/ \E g \in GroupLists : PrintGroup(g)
         \/ \E e \in {0, 1, 2, 128} : OsvExits(e)
  PROVE  ScanInv'
<1>0. ScanSize \in Nat \ {0} /\ ScanFiles = 1..ScanSize  BY ScanAssumption DEF ScanSize
<1>1. DOMAIN scan = ScanFields  BY DEF ScanInv, ScanTypeOK
<1>2. CASE ReadRules
  <2>1. /\ DOMAIN scan' = ScanFields /\ scan'.step = "reading" /\ scan'.at = scan.at
        /\ scan'.initial = scan.initial /\ scan'.launch = scan.launch /\ scan'.final = scan.final
        /\ scan'.readTargets = scan.readTargets /\ scan'.readRules = scanDisk.rules
        /\ scanDisk' = scanDisk /\ scan.step = "run"
    BY <1>1, <1>2 DEF ReadRules, ScanFields
  <2>2. ScanTypeOK' /\ StampsOrdered'  BY <2>1 DEF ScanInv, ScanTypeOK, StampsOrdered
  <2>3. TargetsListed' /\ RulesShow'  BY <2>1 DEF ScanInv, TargetsListed, RulesShow, OpenGrep
  <2> QED BY <2>1, <2>2, <2>3 DEF ScanInv, TargetsReadAreValidated, RulesReadAreAudited, OpenGrepCompleted
<1>3. ASSUME NEW d \in ScanDocuments, ScanExits(d) PROVE ScanInv'
  <2>1. /\ DOMAIN scan' = ScanFields /\ scan'.step = "final" /\ scan'.at = scan.at
        /\ scan'.initial = scan.initial /\ scan'.launch = scan.launch /\ scan'.final = scan.final
        /\ scan'.readTargets = scan.readTargets /\ scan'.readRules = scan.readRules
        /\ scanDisk' = scanDisk /\ scan.step = "reading" /\ Len(scan.readTargets) = ScanSize
    BY <1>1, <1>3 DEF ScanExits, ScanFields, ScanSize
  <2>2. ScanTypeOK' /\ StampsOrdered'  BY <2>1 DEF ScanInv, ScanTypeOK, StampsOrdered
  <2>3. Len(<<>>) = 0  OBVIOUS
  <2>4. TargetsListed' /\ RulesShow'
    BY <1>0, <2>1, <2>3 DEF ScanInv, TargetsListed, RulesShow, OpenGrep
  <2> QED BY <2>1, <2>2, <2>4 DEF ScanInv, TargetsReadAreValidated, RulesReadAreAudited, OpenGrepCompleted
<1>4. ASSUME NEW doc, Prints(doc) PROVE ScanInv'
  <2>1. /\ DOMAIN scan' = ScanFields /\ scan'.step = "osv" /\ scan'.at = scan.at
        /\ scan'.initial = scan.initial /\ scan'.launch = scan.launch /\ scan'.final = scan.final
        /\ scan'.readTargets = scan.readTargets /\ scanDisk' = scanDisk
    BY <1>1, <1>4 DEF Prints, ScanFields
  <2>2. ScanTypeOK' /\ StampsOrdered'  BY <2>1 DEF ScanInv, ScanTypeOK, StampsOrdered
  <2>3. TargetsListed' /\ RulesShow'  BY <2>1 DEF TargetsListed, RulesShow, OpenGrep
  <2> QED BY <2>1, <2>2, <2>3 DEF ScanInv, TargetsReadAreValidated, RulesReadAreAudited, OpenGrepCompleted
<1>5. ASSUME NEW e \in {0, 1, 2, 128}, OsvExits(e) PROVE ScanInv'
  <2> DEFINE o == IF e = 128 THEN "UNSUPPORTED" ELSE IF e \notin {0, 1} THEN "PROCESS_ERROR"
                  ELSE IF OsvAccepts(Results, e) THEN "COMPLETED" ELSE "MALFORMED_OUTPUT"
  <2>0. scan' = [scan EXCEPT !.step = "osvEnded", !.exit = e, !.outcome = o]
    BY <1>5 DEF OsvExits
  <2>1. o = "COMPLETED" => OsvAccepts(Results, e)
    OBVIOUS
  <2> HIDE DEF o
  <2>2. /\ DOMAIN scan' = ScanFields /\ scan'.step = "osvEnded" /\ scan'.at = scan.at
        /\ scan'.initial = scan.initial /\ scan'.launch = scan.launch /\ scan'.final = scan.final
        /\ scan'.readTargets = scan.readTargets /\ scan'.exit = e /\ scan'.outcome = o
        /\ scan'.document = scan.document
    BY <1>1, <2>0 DEF ScanFields
  <2>3. scanDisk' = scanDisk  BY <1>5 DEF OsvExits
  <2>4. ScanTypeOK' /\ StampsOrdered'  BY <2>2, <2>3 DEF ScanInv, ScanTypeOK, StampsOrdered
  <2>5. TargetsListed' /\ RulesShow'  BY <2>2 DEF TargetsListed, RulesShow, OpenGrep
  <2>6. scan'.outcome = "COMPLETED" => OsvAccepts(scan'.document, scan'.exit)  BY <2>1, <2>2 DEF Results
  <2> QED BY <2>2, <2>4, <2>5, <2>6
          DEF ScanInv, Results, TargetsReadAreValidated, RulesReadAreAudited, OpenGrepCompleted
<1> QED BY <1>2, <1>3, <1>4, <1>5 DEF PrintSource, PrintPackage, PrintGroup

\* For any list of targets, whatever is written to them and to the rules while the scanner
\* runs, and for any document it prints: a completed scan is of the files and the rules that
\* were checked, and an accepted document accounts for every vulnerability once.
THEOREM ScanHolds == ScanSpec => []ScanIsOfTheCandidate
<1>0. ScanSize \in Nat \ {0} /\ ScanFiles = 1..ScanSize  BY ScanAssumption DEF ScanSize
<1>1. ScanInit => ScanInv
  <2> SUFFICES ASSUME ScanInit PROVE ScanInv
    OBVIOUS
  <2>1. /\ DOMAIN scan = ScanFields /\ scan.step = "idle" /\ scan.at = 1 /\ scan.initial = <<>>
        /\ scan.launch = <<>> /\ scan.final = <<>> /\ scan.readTargets = <<>>
    BY DEF ScanInit, NoScan, ScanFields
  <2>2. <<>> \in Seq(Nat) /\ Len(<<>>) = 0  OBVIOUS
  <2>3. ScanTypeOK  BY <1>0, <2>1, <2>2 DEF ScanInit, ScanTypeOK
  <2>4. TargetsListed /\ StampsOrdered /\ RulesShow
    BY <2>1, <2>2 DEF TargetsListed, StampsOrdered, RulesShow
  <2> QED BY <2>1, <2>3, <2>4 DEF ScanInv, TargetsReadAreValidated, RulesReadAreAudited, OpenGrepCompleted
<1>2. ScanInv /\ [ScanNext]_scanVars => ScanInv'
  <2> SUFFICES ASSUME ScanInv, [ScanNext]_scanVars PROVE ScanInv'
    OBVIOUS
  <2>1. CASE UNCHANGED scanVars
    <3>1. scan' = scan /\ scanDisk' = scanDisk  BY <2>1 DEF scanVars
    <3> QED BY <3>1 DEF ScanInv, ScanTypeOK, TargetsListed, StampsOrdered, RulesShow, Results,
            TargetsReadAreValidated, RulesReadAreAudited, OpenGrepCompleted
  <2>2. CASE Refuse \/ RulesUnreadable \/ \E o \in {"REFUSED", "UNSUPPORTED", "UNAVAILABLE"} : OsvRefused(o)
    BY <2>2, ScanEndsStep DEF Refuse, RulesUnreadable, OsvRefused
  <2>3. CASE \E o \in {"TIMED_OUT", "REFUSED", "MALFORMED_OUTPUT", "PROCESS_ERROR"} : ProcessFails(o)
    BY <2>3, ScanEndsStep DEF ProcessFails
  <2>4. CASE StartScan \/ OsvPrepared
    BY <2>4, ScanMoveStep DEF StartScan, OsvPrepared
  <2>5. CASE VerifyRules
    <3>1. CASE scanDisk.rules # 0  BY <2>5, <3>1, ScanEndsStep DEF VerifyRules
    <3>2. CASE scanDisk.rules = 0
      <4> DEFINE s == IF scan.step = "rules1" THEN "probe" ELSE "run"
      <4>1. scan' = [scan EXCEPT !.step = s] /\ UNCHANGED scanDisk /\ scan.step \in {"rules1", "rules2"}
        BY <2>5, <3>2 DEF VerifyRules
      <4> QED BY <4>1, ScanMoveStep
    <3> QED BY <3>1, <3>2
  <2>6. ASSUME NEW b \in BOOLEAN, ScannerProbe(b) PROVE ScanInv'
    <3>1. CASE b  BY <2>6, <3>1, ScanMoveStep DEF ScannerProbe
    <3>2. CASE ~b  BY <2>6, <3>2, ScanEndsStep DEF ScannerProbe
    <3> QED BY <3>1, <3>2
  <2> QED BY <2>1, <2>2, <2>3, <2>4, <2>5, <2>6, ValidateStep, ScanReadStep, ScanParseStep, ScanWriteStep, ScannerStep
          DEF ScanNext
<1>3. ScanInv => ScanIsOfTheCandidate
  <2> SUFFICES ASSUME ScanInv PROVE OsvAccountsForAll
    BY DEF ScanInv, ScanIsOfTheCandidate
  <2> SUFFICES ASSUME scan.step = "osvEnded", scan.outcome = "COMPLETED"
               PROVE  OsvAccountsForAll
    BY DEF OsvAccountsForAll
  <2>1. OsvAccepts(Results, scan.exit)  BY DEF ScanInv
  <2> QED BY <2>1, AcceptedAccounts DEF OsvAccountsForAll
<1> QED BY <1>1, <1>2, <1>3, PTL DEF ScanSpec

-----------------------------------------------------------------------------
(* Postures. *)

\* A set of numbers has a least member: what stands for induction in these proofs.
LEMMA LeastExists ==
  ASSUME NEW T \in SUBSET Nat, T # {}
  PROVE  \E x \in T : \A y \in T : x <= y
<1>1. PICK R : IsWellFoundedOn(R, Nat) /\ \A x, y \in Nat : y < x => <<y, x>> \in R
  <2>1. \A x, y \in Nat : y < x => <<y, x>> \in OpToRel(<, Nat)
    BY DEF OpToRel
  <2> QED BY <2>1, NatLessThanWellFounded
<1>2. PICK x \in T : \A y \in T : ~(<<y, x>> \in R)
  BY <1>1, WFMin
<1>3. ASSUME NEW y \in T PROVE x <= y
  <2>1. x \in Nat /\ y \in Nat  OBVIOUS
  <2>2. ~(y < x)  BY <1>1, <1>2, <2>1, Zenon
  <2> QED BY <2>1, <2>2
<1> QED BY <1>3

\* Some order of n + 1 samples sorts them if some order of the first n does: the last one is put
\* before the first that is greater.
LEMMA SortOneMore ==
  ASSUME NEW n \in Nat, NEW s \in [1..(n + 1) -> Int], NEW q \in [1..n -> 1..n],
         \A i, j \in 1..n : q[i] = q[j] => i = j,
         \A i, j \in 1..n : i < j => s[q[i]] <= s[q[j]]
  PROVE  \E p \in [1..(n + 1) -> 1..(n + 1)] : Sorts(p, s)
<1> DEFINE v == s[n + 1]
           T == {i \in 1..n : s[q[i]] > v} \union {n + 1}
<1>1. T \in SUBSET Nat /\ T # {}  OBVIOUS
<1>2. PICK c \in T : \A y \in T : c <= y  BY <1>1, LeastExists
<1>0. c = n + 1 \/ (c \in 1..n /\ s[q[c]] > v)  BY <1>2
<1>3. c \in 1..(n + 1)
  <2>1. c = n + 1 \/ c \in 1..n  BY <1>0
  <2> QED BY <2>1
<1>4. \A i \in 1..(n + 1) : s[i] \in Int  OBVIOUS
<1>5. ASSUME NEW i \in 1..n, i < c PROVE s[q[i]] <= v
  <2>0. i \in Int /\ c \in Int  BY <1>3
  <2>1. i \notin T
    <3> HIDE DEF T
    <3> QED BY <1>2, <1>5, <2>0
  <2>2. q[i] \in 1..(n + 1) /\ n + 1 \in 1..(n + 1)  OBVIOUS
  <2>3. s[q[i]] \in Int /\ v \in Int  BY <1>4, <2>2
  <2> QED BY <2>1, <2>3
<1>6. ASSUME NEW i \in 1..n, i >= c PROVE v <= s[q[i]]
  <2>0. c # n + 1  BY <1>6
  <2>1. c \in 1..n /\ s[q[c]] > v  BY <1>0, <2>0
  <2>2. q[i] \in 1..(n + 1) /\ q[c] \in 1..(n + 1) /\ n + 1 \in 1..(n + 1)  BY <2>1
  <2>3. s[q[i]] \in Int /\ v \in Int /\ s[q[c]] \in Int  BY <1>4, <2>2
  <2>4. c = i \/ c < i  BY <1>6, <2>1
  <2>5. c = i \/ s[q[c]] <= s[q[i]]  BY <2>1, <2>4
  <2> DEFINE x == s[q[i]]
             y == s[q[c]]
             z == s[n + 1]
  <2>6. x \in Int /\ y \in Int /\ z \in Int /\ y > z /\ (c = i \/ y <= x)  BY <2>1, <2>3, <2>5
  <2>7. c = i => y = x  OBVIOUS
  <2> HIDE DEF x, y, z
  <2>8. z <= x  BY <2>6, <2>7
  <2> QED BY <2>8 DEF x, z
<1> DEFINE p == [i \in 1..(n + 1) |-> IF i < c THEN q[i] ELSE IF i = c THEN n + 1 ELSE q[i - 1]]
<1> HIDE DEF T
<1>7. ASSUME NEW i \in 1..(n + 1)
      PROVE  /\ i < c => i \in 1..n /\ p[i] = q[i] /\ p[i] \in 1..n
             /\ i = c => p[i] = n + 1
             /\ i > c => i - 1 \in 1..n /\ p[i] = q[i - 1] /\ p[i] \in 1..n
  <2>0. c \in Int /\ i \in Int /\ 1 <= c /\ c <= n + 1 /\ 1 <= i /\ i <= n + 1  BY <1>3
  <2>1. p[i] = IF i < c THEN q[i] ELSE IF i = c THEN n + 1 ELSE q[i - 1]  OBVIOUS
  <2> HIDE DEF p
  <2>2. CASE i < c
    <3>1. i \in 1..n  BY <2>0, <2>2
    <3>2. p[i] = q[i]  BY <2>1, <2>2
    <3> QED BY <2>0, <2>2, <3>1, <3>2
  <2>3. CASE i = c
    <3>1. p[i] = n + 1  BY <2>0, <2>1, <2>3
    <3> QED BY <2>0, <2>3, <3>1
  <2>4. CASE i > c
    <3>1. i - 1 \in 1..n  BY <2>0, <2>4
    <3>2. p[i] = q[i - 1]  BY <2>0, <2>1, <2>4
    <3> QED BY <2>0, <2>4, <3>1, <3>2
  <2> QED BY <2>0, <2>2, <2>3, <2>4
<1>8. p \in [1..(n + 1) -> 1..(n + 1)]
  <2>1. ASSUME NEW i \in 1..(n + 1) PROVE p[i] \in 1..(n + 1)
    <3>1. i < c \/ i = c \/ i > c  BY <1>3
    <3> HIDE DEF p
    <3>2. p[i] \in 1..n \/ p[i] = n + 1  BY <1>7, <3>1
    <3> QED BY <3>2
  <2> QED BY <2>1
<1>9. p \in [1..(n + 1) -> 1..(n + 1)]  BY <1>8
<1> HIDE DEF p
<1>10. ASSUME NEW i \in 1..(n + 1), NEW j \in 1..(n + 1), p[i] = p[j] PROVE i = j
  <2>1. /\ i \in Int /\ j \in Int /\ c \in Int
        /\ i < c \/ i = c \/ i > c
        /\ j < c \/ j = c \/ j > c
    BY <1>3
  <2>2. CASE i < c /\ j < c  BY <1>7, <1>10, <2>2
  <2>3. CASE i < c /\ j = c  BY <1>7, <1>10, <2>3
  <2>4. CASE i < c /\ j > c
    <3>1. i = j - 1  BY <1>7, <1>10, <2>4
    <3> QED BY <2>1, <2>4, <3>1
  <2>5. CASE i = c /\ j < c  BY <1>7, <1>10, <2>5
  <2>6. CASE i = c /\ j > c  BY <1>7, <1>10, <2>6
  <2>7. CASE i > c /\ j < c
    <3>1. i - 1 = j  BY <1>7, <1>10, <2>7
    <3> QED BY <2>1, <2>7, <3>1
  <2>8. CASE i > c /\ j = c  BY <1>7, <1>10, <2>8
  <2>9. CASE i > c /\ j > c
    <3>1. i - 1 = j - 1  BY <1>7, <1>10, <2>9
    <3> QED BY <2>1, <3>1
  <2>10. CASE i = c /\ j = c  BY <2>10
  <2> QED BY <2>1, <2>2, <2>3, <2>4, <2>5, <2>6, <2>7, <2>8, <2>9, <2>10
<1>11. ASSUME NEW i \in 1..(n + 1), NEW j \in 1..(n + 1), i < j PROVE s[p[i]] <= s[p[j]]
  <2>1. i \in Int /\ j \in Int /\ c \in Int  BY <1>3
  <2>2. CASE j < c
    <3>1. i < c  BY <1>11, <2>1, <2>2
    <3>2. i \in 1..n /\ p[i] = q[i] /\ j \in 1..n /\ p[j] = q[j]  BY <1>7, <2>2, <3>1
    <3> QED BY <1>11, <3>2
  <2>3. CASE j = c
    <3>1. i < c /\ p[j] = n + 1  BY <1>7, <1>11, <2>3
    <3>2. i \in 1..n /\ p[i] = q[i]  BY <1>7, <3>1
    <3> QED BY <1>5, <3>1, <3>2
  <2>4. CASE i < c /\ j > c
    <3>1. i \in 1..n /\ p[i] = q[i] /\ j - 1 \in 1..n /\ p[j] = q[j - 1]  BY <1>7, <2>4
    <3>2. i < j - 1  BY <2>1, <2>4, <3>1
    <3> QED BY <3>1, <3>2
  <2>5. CASE i = c
    <3>1. p[i] = n + 1 /\ j > c  BY <1>7, <1>11, <2>5
    <3>2. j - 1 \in 1..n /\ p[j] = q[j - 1]  BY <1>7, <3>1
    <3>3. j - 1 >= c  BY <2>1, <3>1
    <3> QED BY <1>6, <3>1, <3>2, <3>3
  <2>6. CASE i > c
    <3>1. j > c  BY <1>11, <2>1, <2>6
    <3>2. i - 1 \in 1..n /\ p[i] = q[i - 1] /\ j - 1 \in 1..n /\ p[j] = q[j - 1]  BY <1>7, <2>6, <3>1
    <3>3. i - 1 < j - 1  BY <1>11, <2>1
    <3> QED BY <3>2, <3>3
  <2> QED BY <1>11, <2>1, <2>2, <2>3, <2>4, <2>5, <2>6
<1>12. DOMAIN s = 1..(n + 1)  OBVIOUS
<1>13. Sorts(p, s)  BY <1>10, <1>11, <1>12 DEF Sorts
<1> QED BY <1>9, <1>13

\* Any samples can be sorted, so the median is the middle of them.
LEMMA Sortable ==
  ASSUME NEW n \in Nat, NEW s \in [1..n -> Int]
  PROVE  \E p \in [1..n -> 1..n] : Sorts(p, s)
<1> DEFINE Fits(k) == \A t \in [1..k -> Int] : \E p \in [1..k -> 1..k] : Sorts(p, t)
           Bad == {k \in Nat : ~Fits(k)}
<1>1. Fits(0)
  <2> SUFFICES ASSUME NEW t \in [1..0 -> Int] PROVE \E p \in [1..0 -> 1..0] : Sorts(p, t)  OBVIOUS
  <2> DEFINE p == [i \in 1..0 |-> 0]
  <2>1. p \in [1..0 -> 1..0] /\ DOMAIN t = {}  OBVIOUS
  <2> HIDE DEF p
  <2>2. Sorts(p, t)  BY <2>1 DEF Sorts
  <2> QED BY <2>1, <2>2
<1>2. ASSUME NEW k \in Nat, Fits(k) PROVE Fits(k + 1)
  <2> SUFFICES ASSUME NEW t \in [1..(k + 1) -> Int] PROVE \E p \in [1..(k + 1) -> 1..(k + 1)] : Sorts(p, t)
    OBVIOUS
  <2> DEFINE u == [i \in 1..k |-> t[i]]
  <2>1. u \in [1..k -> Int] /\ DOMAIN u = 1..k /\ \A i \in 1..k : u[i] = t[i]  OBVIOUS
  <2> HIDE DEF u
  <2>2. PICK q \in [1..k -> 1..k] : Sorts(q, u)  BY <1>2, <2>1
  <2>3. \A i, j \in 1..k : q[i] = q[j] => i = j  BY <2>1, <2>2 DEF Sorts
  <2>4. \A i, j \in 1..k : i < j => t[q[i]] <= t[q[j]]
    <3>1. ASSUME NEW i \in 1..k, NEW j \in 1..k, i < j PROVE t[q[i]] <= t[q[j]]
      <4>1. u[q[i]] <= u[q[j]]  BY <2>1, <2>2, <3>1 DEF Sorts
      <4>2. q[i] \in 1..k /\ q[j] \in 1..k  OBVIOUS
      <4> QED BY <2>1, <4>1, <4>2
    <3> QED BY <3>1
  <2> QED BY <2>3, <2>4, SortOneMore
<1> HIDE DEF Fits
<1>3. Bad = {}
  <2> SUFFICES ASSUME Bad # {} PROVE FALSE  OBVIOUS
  <2>1. PICK k \in Bad : \A y \in Bad : k <= y
    <3>1. Bad \in SUBSET Nat  OBVIOUS
    <3> HIDE DEF Bad
    <3> QED BY <3>1, LeastExists
  <2>2. k \in Nat /\ k # 0  BY <1>1
  <2>3. k - 1 \in Nat /\ k - 1 \notin Bad  BY <2>1, <2>2
  <2>4. Fits(k)  BY <1>2, <2>2, <2>3
  <2> QED BY <2>1, <2>4
<1>4. Fits(n)  BY <1>3
<1> QED BY <1>4 DEF Fits

\* The median of samples is one of them, or lies half way between two.
LEMMA MedianIs ==
  ASSUME NEW s \in Seq(Int), Len(s) > 0, \A i \in 1..Len(s) : s[i] % 2 = 0
  PROVE  \E i, j \in 1..Len(s) : 2 * Median(s) = s[i] + s[j] /\ Median(s) \in Int
<1> DEFINE n == Len(s)
           order == CHOOSE p \in [DOMAIN s -> DOMAIN s] : Sorts(p, s)
           m == n \div 2
<1>1. n \in Nat /\ n > 0 /\ DOMAIN s = 1..n /\ s \in [1..n -> Int]  OBVIOUS
<1>2. order \in [1..n -> 1..n]  BY <1>1, Sortable
<1>3. Median(s) = IF n % 2 = 0 THEN (s[order[m]] + s[order[m + 1]]) \div 2 ELSE s[order[m + 1]]
  BY DEF Median
<1> HIDE DEF order
<1>4. m \in Nat /\ m + 1 \in 1..n /\ (n % 2 = 0 => m \in 1..n)
  BY <1>1
<1> HIDE DEF n, m
<1>5. order[m + 1] \in 1..n /\ (n % 2 = 0 => order[m] \in 1..n)  BY <1>2, <1>4
<1>6. CASE n % 2 = 0
  <2> DEFINE a == s[order[m]]
             b == s[order[m + 1]]
  <2>1. a \in Int /\ b \in Int /\ a % 2 = 0 /\ b % 2 = 0  BY <1>1, <1>5, <1>6 DEF n
  <2>2. Median(s) = (a + b) \div 2  BY <1>3, <1>6
  <2> HIDE DEF a, b
  <2>3. 2 * ((a + b) \div 2) = a + b /\ (a + b) \div 2 \in Int  BY <2>1
  <2>4. 2 * Median(s) = s[order[m]] + s[order[m + 1]] /\ Median(s) \in Int  BY <2>2, <2>3 DEF a, b
  <2> QED BY <1>5, <1>6, <2>4 DEF n
<1>7. CASE n % 2 # 0
  <2>1. Median(s) = s[order[m + 1]]  BY <1>3, <1>7
  <2>2. s[order[m + 1]] \in Int  BY <1>1, <1>5
  <2>3. 2 * Median(s) = s[order[m + 1]] + s[order[m + 1]] /\ Median(s) \in Int  BY <2>1, <2>2
  <2> QED BY <1>5, <2>3 DEF n
<1> QED BY <1>6, <1>7

\* How much worse c is than b, and the arithmetic of it: what holds half way between two pairs
\* holds for one of the pairs.
Worsening(lower, b, c) == IF lower THEN c - b ELSE b - c
LEMMA HalfWay ==
  ASSUME NEW lower \in BOOLEAN, NEW M \in Nat, NEW b \in Int, NEW c \in Int,
         NEW b1 \in Int, NEW b2 \in Int, NEW c1 \in Int, NEW c2 \in Int,
         2 * b = b1 + b2, 2 * c = c1 + c2,
         Worsening(lower, b, c) * 100 <= M * Magnitude(b)
  PROVE  \/ Worsening(lower, b1, c1) * 100 <= M * Magnitude(b1)
         \/ Worsening(lower, b2, c2) * 100 <= M * Magnitude(b2)
<1> DEFINE w == Worsening(lower, b, c)
           w1 == Worsening(lower, b1, c1)
           w2 == Worsening(lower, b2, c2)
           a == Magnitude(b)
           a1 == Magnitude(b1)
           a2 == Magnitude(b2)
<1>1. w \in Int /\ w1 \in Int /\ w2 \in Int /\ 2 * w = w1 + w2  BY DEF Worsening
<1>2. a \in Nat /\ a1 \in Nat /\ a2 \in Nat /\ 2 * a <= a1 + a2  BY DEF Magnitude
<1>3. w * 100 <= M * a  OBVIOUS
<1> HIDE DEF w, w1, w2, a, a1, a2
<1>4. PICK e \in Nat : a1 + a2 = 2 * a + e
  <2>1. a1 + a2 - 2 * a \in Nat  BY <1>2
  <2> QED BY <1>2, <2>1
<1>5. M * (a1 + a2) = 2 * (M * a) + M * e  BY <1>2, <1>4
<1>6. M * (a1 + a2) = M * a1 + M * a2  BY <1>2
<1> DEFINE x == M * a
           x1 == M * a1
           x2 == M * a2
           y == M * e
<1>7. x \in Nat /\ x1 \in Nat /\ x2 \in Nat /\ y \in Nat  BY <1>2
<1>8. x1 + x2 = 2 * x + y /\ w * 100 <= x  BY <1>3, <1>5, <1>6
<1> HIDE DEF x, x1, x2, y
<1>9. w1 * 100 <= x1 \/ w2 * 100 <= x2  BY <1>1, <1>7, <1>8
<1> QED BY <1>9 DEF w1, w2, x1, x2, a1, a2

-----------------------------------------------------------------------------
PostureSteps == {"diff", "scenarios", "EXECUTED", "NOT_CHECKED", "baseline", "candidate", "MEASURED"}
Owable == NetworkScenarios \union {"DUPLICATE_REQUEST", "OUT_OF_ORDER_RESPONSE"}
RanScenarios == [scenario : Owable, outcome : {"PASSED", "FAILED"}]
PostureStates == [step : PostureSteps, ran : Seq(RanScenarios), lower : BOOLEAN,
                  baseline : Seq(Readings), candidate : Seq(Readings)]

\* The candidate is sampled after the baseline, and both are complete when they are compared.
PostureInv ==
  /\ change \subseteq PostureLines
  /\ posture \in PostureStates
  /\ posture.step \in {"candidate", "MEASURED"} => Len(posture.baseline) = SampleCount
  /\ posture.step = "MEASURED" => Len(posture.candidate) = SampleCount

LEMMA OwedAre == \A g : Owed(g) \subseteq Owable
<1> SUFFICES ASSUME NEW g PROVE Owed(g) \subseteq Owable  OBVIOUS
<1>1. CASE g \in {"NETWORK_CALL", "DB_QUERY"}  BY <1>1 DEF Owed, Owable
<1>2. CASE g = "TRANSACTION"  BY <1>2 DEF Owed, Owable
<1>3. CASE g = "PROMISE_ALL"  BY <1>3 DEF Owed, Owable
<1>4. CASE g \notin {"NETWORK_CALL", "DB_QUERY"} /\ g # "TRANSACTION" /\ g # "PROMISE_ALL"
  <2>1. Owed(g) = {}  BY <1>4, Zenon DEF Owed
  <2> QED BY <2>1
<1> QED BY <1>1, <1>2, <1>3, <1>4

LEMMA PostureFields ==
  ASSUME posture \in PostureStates
  PROVE  /\ posture.step \in PostureSteps /\ posture.ran \in Seq(RanScenarios) /\ posture.lower \in BOOLEAN
         /\ posture.baseline \in Seq(Readings) /\ posture.candidate \in Seq(Readings)
BY DEF PostureStates

LEMMA PostureInitially == PostureInit => PostureInv
<1> SUFFICES ASSUME PostureInit PROVE PostureInv  OBVIOUS
<1>1. posture \in PostureStates  BY DEF PostureInit, PostureStates, PostureSteps
<1> QED BY <1>1 DEF PostureInit, PostureInv

LEMMA PostureStep == PostureInv /\ [PostureNext]_postureVars => PostureInv'
<1> SUFFICES ASSUME PostureInv, [PostureNext]_postureVars PROVE PostureInv'  OBVIOUS
<1>0. posture \in PostureStates /\ change \subseteq PostureLines  BY DEF PostureInv
<1>1. CASE UNCHANGED postureVars  BY <1>1 DEF PostureInv, postureVars
<1>2. ASSUME NEW l \in PostureLines, AddLine(l) PROVE PostureInv'
  BY <1>0, <1>2 DEF PostureInv, AddLine
<1>3. CASE Execute
  BY <1>0, <1>3 DEF PostureInv, Execute, PostureStates, PostureSteps
<1>4. CASE EndScenarios
  BY <1>0, <1>4 DEF PostureInv, EndScenarios, PostureStates, PostureSteps
<1>5. ASSUME NEW s \in Relevant, NEW o \in {"PASSED", "FAILED"}, RunScenario(s, o) PROVE PostureInv'
  <2>1. s \in Owable
    <3>1. PICK l \in Matching("+") \union Matching("-") : s \in Owed(l.signal)  BY DEF Relevant
    <3> QED BY <3>1, OwedAre
  <2> DEFINE x == [scenario |-> s, outcome |-> o]
             ran == Append(posture.ran, x)
  <2>2. x \in RanScenarios  BY <2>1 DEF RanScenarios
  <2>3. posture' = [posture EXCEPT !.ran = ran] /\ change' = change /\ posture.step = "scenarios"
    BY <1>5 DEF RunScenario
  <2> HIDE DEF x
  <2>4. ran \in Seq(RanScenarios)  BY <1>0, <2>2, PostureFields
  <2> HIDE DEF ran
  <2>5. posture' \in PostureStates /\ posture'.step = posture.step  BY <1>0, <2>3, <2>4 DEF PostureStates
  <2> QED BY <1>0, <2>3, <2>5 DEF PostureInv
<1>6. ASSUME NEW lower \in BOOLEAN, StartSampling(lower) PROVE PostureInv'
  BY <1>0, <1>6 DEF PostureInv, StartSampling, PostureStates, PostureSteps
<1>7. ASSUME NEW v \in Readings, Sample(v) PROVE PostureInv'
  <2> DEFINE more == Len(posture[posture.step]) + 1
             next == IF more < SampleCount THEN posture.step
                     ELSE IF posture.step = "baseline" THEN "candidate" ELSE "MEASURED"
  <2>1. CASE posture.step = "baseline"
    <3> DEFINE samples == Append(posture.baseline, v)
    <3>1. posture' = [posture EXCEPT !.baseline = samples, !.step = next] /\ change' = change
      BY <1>7, <2>1 DEF Sample
    <3>2. /\ samples \in Seq(Readings) /\ Len(samples) = Len(posture.baseline) + 1
          /\ Len(posture.baseline) \in Nat /\ Len(posture.baseline) < SampleCount
      <4>1. Len(posture.baseline) < SampleCount  BY <1>7, <2>1 DEF Sample
      <4>2. posture.baseline \in Seq(Readings)  BY <1>0, PostureFields
      <4> QED BY <4>1, <4>2
    <3>3. /\ next \in {"baseline", "candidate"}
          /\ next = "candidate" => Len(samples) = SampleCount
      BY <2>1, <3>2, PostureAssumption
    <3> HIDE DEF samples, next
    <3>4. /\ posture' \in PostureStates /\ posture'.step = next /\ posture'.baseline = samples
      BY <1>0, <3>1, <3>2, <3>3 DEF PostureStates, PostureSteps
    <3> QED BY <1>0, <3>1, <3>3, <3>4 DEF PostureInv
  <2>2. CASE posture.step = "candidate"
    <3> DEFINE samples == Append(posture.candidate, v)
    <3>1. posture' = [posture EXCEPT !.candidate = samples, !.step = next] /\ change' = change
      BY <1>7, <2>2 DEF Sample
    <3>2. /\ samples \in Seq(Readings) /\ Len(samples) = Len(posture.candidate) + 1
          /\ Len(posture.candidate) \in Nat /\ Len(posture.candidate) < SampleCount
      <4>1. Len(posture.candidate) < SampleCount  BY <1>7, <2>2 DEF Sample
      <4>2. posture.candidate \in Seq(Readings)  BY <1>0, PostureFields
      <4> QED BY <4>1, <4>2
    <3>3. /\ next \in {"candidate", "MEASURED"}
          /\ next = "MEASURED" => Len(samples) = SampleCount
      BY <2>2, <3>2, PostureAssumption
    <3> HIDE DEF samples, next
    <3>4. /\ posture' \in PostureStates /\ posture'.step = next /\ posture'.candidate = samples
          /\ posture'.baseline = posture.baseline
      BY <1>0, <3>1, <3>2, <3>3 DEF PostureStates, PostureSteps
    <3>5. Len(posture.baseline) = SampleCount  BY <2>2 DEF PostureInv
    <3> QED BY <1>0, <3>1, <3>3, <3>4, <3>5 DEF PostureInv
  <2> QED BY <1>7, <2>1, <2>2 DEF Sample
<1>8. CASE VoidScenarios
  <2>1. posture' = [posture EXCEPT !.step = "NOT_CHECKED", !.ran = <<>>] /\ change' = change  BY <1>8 DEF VoidScenarios
  <2>2. <<>> \in Seq(RanScenarios) /\ "NOT_CHECKED" \in PostureSteps  BY DEF PostureSteps
  <2>3. posture' \in PostureStates  BY <1>0, <2>1, <2>2 DEF PostureStates
  <2>4. posture'.step = "NOT_CHECKED"  BY <1>0, <2>1 DEF PostureStates
  <2> QED BY <1>0, <2>1, <2>3, <2>4 DEF PostureInv
<1> QED BY <1>1, <1>2, <1>3, <1>4, <1>5, <1>6, <1>7, <1>8 DEF PostureNext

-----------------------------------------------------------------------------
LEMMA PassAnswers == PostureInv => ResiliencePassAnswers
<1> SUFFICES ASSUME PostureInv, posture.step = "EXECUTED", ResiliencePosture = "PASS"
             PROVE  \A l \in change :
                      /\ l.path # "operational"
                      /\ Production(l) => \A s \in Owed(l.signal) :
                           [scenario |-> s, outcome |-> "PASSED"] \in {posture.ran[i] : i \in DOMAIN posture.ran}
  BY DEF ResiliencePassAnswers
<1>1. Missing = {} /\ ~("FAILED" \in Outcomes) /\ UncoveredOperational = {}
  BY DEF ResiliencePosture
<1>2. posture.ran \in Seq(RanScenarios)  BY PostureFields DEF PostureInv
<1>3. ASSUME NEW l \in change PROVE l.path # "operational"
  BY <1>1 DEF UncoveredOperational
<1>4. ASSUME NEW l \in change, Production(l), NEW s \in Owed(l.signal)
      PROVE  [scenario |-> s, outcome |-> "PASSED"] \in {posture.ran[i] : i \in DOMAIN posture.ran}
  <2>1. l.signal # "none"
    <3>1. Owed("none") = {}  BY Zenon DEF Owed
    <3> QED BY <3>1
  <2>2. l.sign \in {"+", "-"}  BY <2>1, PostureAssumption DEF PostureInv
  <2>3. l \in Matching("+") \union Matching("-")  BY <1>4, <2>1, <2>2 DEF Matching
  <2>4. s \in Relevant  BY <2>3 DEF Relevant
  <2>5. PICK i \in DOMAIN posture.ran : posture.ran[i].scenario = s  BY <1>1, <2>4 DEF Missing
  <2>6. posture.ran[i] \in RanScenarios  BY <1>2
  <2>7. posture.ran[i].outcome # "FAILED"  BY <1>1, <2>4, <2>5 DEF Outcomes
  <2>8. posture.ran[i] = [scenario |-> s, outcome |-> "PASSED"]  BY <2>5, <2>6, <2>7 DEF RanScenarios
  <2> QED BY <2>8
<1> QED BY <1>3, <1>4

LEMMA NeverWorse == PostureInv => WorseNeverPasses
<1> SUFFICES ASSUME PostureInv, posture.step = "MEASURED", PerformancePosture = "PASS"
             PROVE  \E i, j \in 1..SampleCount :
                      (IF posture.lower THEN posture.candidate[j] - posture.baseline[i]
                       ELSE posture.baseline[i] - posture.candidate[j]) * 100
                      <= MaxRegressionPercent * Magnitude(posture.baseline[i])
  BY DEF WorseNeverPasses
<1> DEFINE B == posture.baseline
           C == posture.candidate
           b == Median(B)
           c == Median(C)
           M == MaxRegressionPercent
<1>1. B \in Seq(Readings) /\ C \in Seq(Readings) /\ Len(B) = SampleCount /\ Len(C) = SampleCount
      /\ posture.lower \in BOOLEAN
  BY PostureFields DEF PostureInv
<1>2. Worsening(posture.lower, b, c) * 100 <= M * Magnitude(b) \/ ~(b \in Int /\ c \in Int)
  <2> SUFFICES ASSUME b \in Int, c \in Int PROVE Worsening(posture.lower, b, c) * 100 <= M * Magnitude(b)
    OBVIOUS
  <2>1. ~((IF posture.lower THEN c - b ELSE b - c) * 100 > M * Magnitude(b))
    BY DEF PerformancePosture
  <2> DEFINE w == IF posture.lower THEN c - b ELSE b - c
             x == M * Magnitude(b)
  <2>2. w \in Int /\ x \in Int
    <3> HIDE DEF b, c
    <3> QED BY PostureAssumption DEF Magnitude
  <2>3. ~(w * 100 > x)  BY <2>1
  <2> HIDE DEF w, x
  <2>4. w * 100 <= x  BY <2>2, <2>3
  <2> QED BY <2>4 DEF w, x, Worsening
<1> HIDE DEF B, C, b, c
<1>3. /\ B \in Seq(Int) /\ C \in Seq(Int) /\ Len(B) > 0 /\ Len(C) > 0
      /\ \A i \in 1..Len(B) : B[i] % 2 = 0
      /\ \A i \in 1..Len(C) : C[i] % 2 = 0
  <2>1. Readings \subseteq Int /\ SampleCount > 0  BY PostureAssumption
  <2>2. \A i \in 1..Len(B) : B[i] \in Readings  BY <1>1
  <2>3. \A i \in 1..Len(C) : C[i] \in Readings  BY <1>1
  <2>4. /\ \A i \in 1..Len(B) : B[i] % 2 = 0
        /\ \A i \in 1..Len(C) : C[i] % 2 = 0
    BY <2>2, <2>3, PostureAssumption
  <2>5. B \in Seq(Int) /\ C \in Seq(Int)
    <3>1. ASSUME NEW Q \in Seq(Readings) PROVE Q \in Seq(Int)
      <4>1. Len(Q) \in Nat /\ Q \in [1..Len(Q) -> Readings]  OBVIOUS
      <4>2. Q \in [1..Len(Q) -> Int]  BY <2>1, <4>1
      <4> QED BY <4>1, <4>2
    <3> QED BY <1>1, <3>1
  <2> QED BY <1>1, <2>1, <2>4, <2>5
<1>4. PICK i1, i2 \in 1..SampleCount : 2 * b = B[i1] + B[i2] /\ b \in Int
  BY <1>1, <1>3, MedianIs DEF b
<1>5. PICK j1, j2 \in 1..SampleCount : 2 * c = C[j1] + C[j2] /\ c \in Int
  BY <1>1, <1>3, MedianIs DEF c
<1>6. B[i1] \in Int /\ B[i2] \in Int /\ C[j1] \in Int /\ C[j2] \in Int  BY <1>1, <1>3
<1>7. \/ Worsening(posture.lower, B[i1], C[j1]) * 100 <= M * Magnitude(B[i1])
      \/ Worsening(posture.lower, B[i2], C[j2]) * 100 <= M * Magnitude(B[i2])
  BY <1>1, <1>2, <1>4, <1>5, <1>6, HalfWay, PostureAssumption, SMTT(30)
<1>8. \E i, j \in 1..SampleCount : Worsening(posture.lower, B[i], C[j]) * 100 <= M * Magnitude(B[i])
  BY <1>7
<1> QED BY <1>8 DEF Worsening, B, C

\* Another line finds the kinds found before, so it never takes a rating back.
LEMMA RatingRises == PostureInv /\ [PostureNext]_postureVars => SensitivityOnlyRises
<1> SUFFICES ASSUME PostureInv, [PostureNext]_postureVars, change' # change
             PROVE  /\ PerformanceSensitivity' >= PerformanceSensitivity
                    /\ (\E l \in change' : Production(l) /\ l.sign = "-" /\ l.signal \in RemovalSensitive)
                         => PerformanceSensitivity' > 0
  BY DEF SensitivityOnlyRises
<1>1. change \subseteq change'
  BY DEF PostureNext, postureVars, AddLine, Execute, EndScenarios, VoidScenarios, RunScenario, StartSampling, Sample
<1> DEFINE K == FoundKinds
           L == FoundKinds'
           k == Cardinality(K)
           m == Cardinality(L)
<1>2. K \subseteq L
  BY <1>1 DEF FoundKinds, PathKinds, Matching, Removals
<1>3. L \subseteq PerformanceKinds
  BY DEF FoundKinds, PathKinds, PerformanceKinds, StrongKinds
<1>4. IsFiniteSet(PerformanceKinds)
  <2>1. PerformanceKinds = {"DB_QUERY", "SCHEMA_INDEX", "NETWORK_CALL", "HOT_LOOP", "BUNDLE"}
                             \union ({"PAGINATION"} \union {"SERIALIZATION"})
    BY DEF PerformanceKinds, StrongKinds
  <2>2. IsFiniteSet({"DB_QUERY", "SCHEMA_INDEX", "NETWORK_CALL", "HOT_LOOP", "BUNDLE"})
    <3>1. IsFiniteSet({"DB_QUERY"}) /\ IsFiniteSet({"SCHEMA_INDEX"}) /\ IsFiniteSet({"NETWORK_CALL"})
          /\ IsFiniteSet({"HOT_LOOP"}) /\ IsFiniteSet({"BUNDLE"})
      BY FS_Singleton
    <3>2. IsFiniteSet({"HOT_LOOP"} \union {"BUNDLE"})  BY <3>1, FS_Union
    <3>3. IsFiniteSet({"NETWORK_CALL"} \union {"HOT_LOOP", "BUNDLE"})
      <4>1. {"HOT_LOOP", "BUNDLE"} = {"HOT_LOOP"} \union {"BUNDLE"}  OBVIOUS
      <4> QED BY <3>1, <3>2, <4>1, FS_Union
    <3>4. IsFiniteSet({"SCHEMA_INDEX"} \union {"NETWORK_CALL", "HOT_LOOP", "BUNDLE"})
      <4>1. {"NETWORK_CALL", "HOT_LOOP", "BUNDLE"} = {"NETWORK_CALL"} \union {"HOT_LOOP", "BUNDLE"}  OBVIOUS
      <4> QED BY <3>1, <3>3, <4>1, FS_Union
    <3>5. {"SCHEMA_INDEX", "NETWORK_CALL", "HOT_LOOP", "BUNDLE"}
            = {"SCHEMA_INDEX"} \union {"NETWORK_CALL", "HOT_LOOP", "BUNDLE"}
      OBVIOUS
    <3>6. {"DB_QUERY", "SCHEMA_INDEX", "NETWORK_CALL", "HOT_LOOP", "BUNDLE"}
            = {"DB_QUERY"} \union {"SCHEMA_INDEX", "NETWORK_CALL", "HOT_LOOP", "BUNDLE"}
      OBVIOUS
    <3>7. IsFiniteSet({"SCHEMA_INDEX", "NETWORK_CALL", "HOT_LOOP", "BUNDLE"})  BY <3>4, <3>5
    <3>8. IsFiniteSet({"DB_QUERY"} \union {"SCHEMA_INDEX", "NETWORK_CALL", "HOT_LOOP", "BUNDLE"})
      BY <3>1, <3>7, FS_Union
    <3> QED BY <3>6, <3>8
  <2>3. IsFiniteSet({"PAGINATION"}) /\ IsFiniteSet({"SERIALIZATION"})  BY FS_Singleton
  <2> QED BY <2>1, <2>2, <2>3, FS_Union
<1>5. IsFiniteSet(L) /\ IsFiniteSet(K)  BY <1>2, <1>3, <1>4, FS_Subset
<1>6. k \in Nat /\ m \in Nat /\ k <= m  BY <1>2, <1>5, FS_Subset, FS_CardinalityType
<1>7. Removals \subseteq Removals'  BY <1>1 DEF Removals, Matching
<1>8. PerformanceSensitivity =
        IF k >= 3 \/ {"DB_QUERY", "SCHEMA_INDEX"} \subseteq K THEN 2
        ELSE IF K \cap StrongKinds # {} \/ Removals # {} \/ k >= 2 THEN 1 ELSE 0
  BY DEF PerformanceSensitivity
<1>9. PerformanceSensitivity' =
        IF m >= 3 \/ {"DB_QUERY", "SCHEMA_INDEX"} \subseteq L THEN 2
        ELSE IF L \cap StrongKinds # {} \/ Removals' # {} \/ m >= 2 THEN 1 ELSE 0
  BY DEF PerformanceSensitivity, StrongKinds
<1>10. ASSUME NEW l \in change', Production(l), l.sign = "-", l.signal \in RemovalSensitive PROVE Removals' # {}
  <2>1. l.signal # "none"  BY <1>10 DEF RemovalSensitive
  <2> QED BY <1>10, <2>1 DEF Removals, Matching
<1> HIDE DEF K, L, k, m
<1>11. PerformanceSensitivity' >= PerformanceSensitivity
  BY <1>2, <1>6, <1>7, <1>8, <1>9
<1>12. Removals' # {} => PerformanceSensitivity' > 0  BY <1>9
<1> QED BY <1>10, <1>11, <1>12

LEMMA PosturesSay == PostureInv => ResiliencePassAnswers /\ WorseNeverPasses
BY PassAnswers, NeverWorse

LEMMA PosturesSayNext == (PostureInv => ResiliencePassAnswers /\ WorseNeverPasses)'
BY PosturesSay, PTL

\* What a posture says of a change is earned, for any lines, readings, scenario filter, threshold and
\* number of samples: a resilience PASS answers for every owed scenario, samples that all got worse
\* than the threshold never pass derivePerformancePosture (whatever order they were sorted in), and
\* further lines of a diff never lower derivePerformanceSensitivity.
THEOREM PosturesHold == PostureSpec => PosturesAreEarned
<1>1. PostureSpec => []PostureInv
  BY PostureInitially, PostureStep, PTL DEF PostureSpec
<1>2. PostureInv /\ PostureInv' /\ [PostureNext]_postureVars
        => [UNCHANGED postureVars \/ ((ResiliencePassAnswers /\ WorseNeverPasses)' /\ SensitivityOnlyRises)]_postureVars
  BY PosturesSayNext, RatingRises
<1> QED BY <1>1, <1>2, PTL DEF PostureSpec, PosturesAreEarned
=============================================================================
