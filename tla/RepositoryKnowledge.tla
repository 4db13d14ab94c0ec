------------------------- MODULE RepositoryKnowledge -------------------------
(* The repository index of a run and the project's stored knowledge, which every *)
(* run of the project shares.                                                    *)
(*                                                                               *)
(* A run reads its own worktree: index lists the tracked files, indexScope       *)
(* records the digest of the files asked for. What a run knows is written as     *)
(* claims bound to those digests and to the membership of the module; a claim is *)
(* current for a run when every binding agrees with that run's own snapshot. One *)
(* module owns every file; a file's bytes are a version, which is also its       *)
(* digest; symbols and relations are functions of the bytes and left out.        *)
EXTENDS Naturals, FiniteSets, Sequences

CONSTANTS Runs,       \* the runs of the project, each in its own worktree
          Writers,    \* those of them whose agent writes files
          SourceFiles, \* the source files that may exist
          MaxVersion, \* how many contents a file may have
          MaxRevision, \* how many base revisions the project has
          MaxTreeWrites,  \* how many times worktrees are written
          MaxReconciled, \* MAX_PROJECT_BRAIN_RECONCILE_RECORDS
          MaxClaims   \* how many claims are ever stored

ASSUME KnowAssumption == Writers \subseteq Runs /\ MaxVersion \in Nat \ {0}

VARIABLES baseTree,  \* the bytes of the current base revision, 0 where there is no file
          revision,  \* the current base revision
          worktree,  \* run -> file -> its bytes, 0 where it is absent
          snapshot,  \* run -> its RepositorySnapshot
          brain,     \* claim -> its stored status, for the claims stored so far
          written,   \* how often worktrees were written
          lookedAt,  \* run -> the files indexed since their last write
          justPersisted \* the run whose write to the brain was the last step, and its claims
knowVars == <<baseTree, revision, worktree, snapshot, brain, written, lookedAt, justPersisted>>

Large == MaxVersion   \* a file above the size that is parsed
NoPersist == [run |-> "none", claims |-> {}]

\* RepositoryIndex.index: the tracked files, nothing read.
IndexTree(rev, tree) ==
  [revision |-> rev, files |-> {f \in SourceFiles : tree[f] # 0},
   digest |-> [f \in SourceFiles |-> 0]]

\* indexScope that trusts the list of files it has already parsed.
IndexScopeOnce(s, tree, asked) ==
  LET readable == {f \in asked : tree[f] # 0 /\ tree[f] # Large /\ s.digest[f] = 0}
  IN  [s EXCEPT !.files = @ \cup {f \in asked : tree[f] # 0},
                !.digest = [f \in SourceFiles |-> IF f \in readable THEN tree[f] ELSE @[f]]]

\* indexScope: a file that exists and is not too large gets the digest of its bytes; an absent or
\* oversized one keeps whatever was recorded for it; a file created since the listing is registered.
IndexScope(s, tree, asked) ==
  LET readable == {f \in asked : tree[f] # 0 /\ tree[f] # Large}
  IN  [s EXCEPT !.files = @ \cup {f \in asked : tree[f] # 0},
                !.digest = [f \in SourceFiles |-> IF f \in readable THEN tree[f] ELSE @[f]]]

\* moduleMembershipDigest of the one module.
Membership(s) == s.files

EvidenceClaim(s, f) ==
  [kind |-> "EVIDENCE", revision |-> s.revision, files |-> {f},
   digest |-> [g \in {f} |-> s.digest[f]], members |-> {}, evidence |-> {}]

\* The module fact over the selected files: bound to each digest and to the module's membership.
FactClaim(s, sel) ==
  [kind |-> "FACT", revision |-> s.revision, files |-> sel,
   digest |-> [g \in sel |-> s.digest[g]], members |-> Membership(s),
   evidence |-> {EvidenceClaim(s, f) : f \in sel}]

\* normalizeKnowledgeRecord: a fact cites evidence and, compiled for a module, its membership.
Normalizes(c) == c.kind = "FACT" => c.evidence # {} /\ c.members # {}

\* The subject of a compiled claim names the module and the selected files, never the module alone.
Subject(c) == c.files
Compiled(c) == c.kind = "FACT"

\* stateFromBindings: the stored status first, then every binding against the run's snapshot.
StateFromBindings(c, b, s) ==
  LET moved == \/ \E f \in c.files : s.digest[f] # 0 /\ s.digest[f] # c.digest[f]
               \/ c.members # {} /\ Membership(s) # {} /\ Membership(s) # c.members
      missing == (\E f \in c.files : s.digest[f] = 0) \/ (c.members # {} /\ Membership(s) = {})
  IN  CASE b[c] # "ACTIVE" -> b[c]
        [] b[c] = "ACTIVE" /\ moved -> "STALE"
        [] b[c] = "ACTIVE" /\ ~moved /\ missing -> "UNKNOWN"
        [] OTHER -> "CURRENT"

\* classifyKnowledgeRecords: current claims on one subject that say different things conflict.
Conflicting(c, b, s, read) ==
  /\ Compiled(c) /\ StateFromBindings(c, b, s) = "CURRENT"
  /\ \E d \in read : /\ Compiled(d) /\ StateFromBindings(d, b, s) = "CURRENT"
                     /\ Subject(d) = Subject(c) /\ d.files # c.files

Classify(c, b, s, read) ==
  IF Conflicting(c, b, s, read) THEN "CONFLICTED" ELSE StateFromBindings(c, b, s)

\* resolveKnowledgeRecords: nothing read from a truncated candidate set is published as current.
SourceTruncated(b) == Cardinality(DOMAIN b) > MaxReconciled
ResolveCurrent(b, s) ==
  IF SourceTruncated(b) THEN {}
  ELSE {c \in DOMAIN b : Classify(c, b, s, DOMAIN b) = "CURRENT"}

StatusKept(b, c) == IF c \in DOMAIN b THEN b[c] ELSE "ACTIVE"
\* add: an unknown claim is inserted, a stale one is reactivated, any other is left as it is.
StatusAfterAdd(b, c) == IF c \in DOMAIN b /\ b[c] = "CONFLICTED" THEN "CONFLICTED" ELSE "ACTIVE"

\* addBatch: all records or none.
AddBatch(b, claims) ==
  IF \E c \in claims : ~Normalizes(c) THEN b
  ELSE [c \in DOMAIN b \cup claims |-> IF c \in claims THEN StatusAfterAdd(b, c) ELSE b[c]]

KnowInit ==
  /\ baseTree = [f \in SourceFiles |-> IF f = 1 THEN 1 ELSE 0] /\ revision = 1
  /\ worktree = [r \in Runs |-> baseTree] /\ snapshot = [r \in Runs |-> IndexTree(1, baseTree)]
  /\ brain = <<>> /\ written = 0 /\ lookedAt = [r \in Runs |-> {}] /\ justPersisted = NoPersist

\* The agent of a run writes or removes a file of its worktree.
WriteFile(r, f, v) ==
  /\ written < MaxTreeWrites /\ v # worktree[r][f]
  /\ worktree' = [worktree EXCEPT ![r][f] = v] /\ written' = written + 1
  /\ lookedAt' = [lookedAt EXCEPT ![r] = @ \ {f}] /\ justPersisted' = NoPersist
  /\ UNCHANGED <<baseTree, revision, snapshot, brain>>

\* Outside the harness a worktree's content becomes the next base revision.
Deliver(r) ==
  /\ revision < MaxRevision /\ worktree[r] # baseTree
  /\ revision' = revision + 1 /\ baseTree' = worktree[r] /\ justPersisted' = NoPersist
  /\ UNCHANGED <<worktree, snapshot, brain, written, lookedAt>>

\* reconcileStaleness: the active claims this snapshot contradicts are marked for every run.
\* Only so many are read; which ones depends on the store.
StatusReconciled(c, b, s, read) ==
  LET st == Classify(c, b, s, read) IN IF st \in {"STALE", "CONFLICTED"} THEN st ELSE b[c]
ReconcileStaleness(b, s, read) ==
  [c \in DOMAIN b |-> IF c \in read THEN StatusReconciled(c, b, s, read) ELSE b[c]]

Readable(b) ==
  LET active == {c \in DOMAIN b : b[c] = "ACTIVE"} IN
  IF Cardinality(active) <= MaxReconciled THEN {active}
  ELSE {read \in SUBSET active : Cardinality(read) = MaxReconciled}

\* execute: a new run starts in a fresh worktree, a resumed one in the worktree it left; either
\* indexes it under its base revision and reconciles the stored claims with that snapshot.
StartRun(r, sel, resumed) ==
  LET tree == IF resumed THEN worktree[r] ELSE baseTree
      base == IndexTree(IF resumed THEN snapshot[r].revision ELSE revision, tree)
      s == IndexScope(base, tree, sel)
  IN
  /\ sel \subseteq base.files
  /\ resumed => worktree[r] # baseTree \/ snapshot[r].revision # revision   \* else the two are the same
  /\ worktree' = [worktree EXCEPT ![r] = tree] /\ snapshot' = [snapshot EXCEPT ![r] = s]
  /\ lookedAt' = [lookedAt EXCEPT ![r] = sel] /\ \E read \in Readable(brain) : brain' = ReconcileStaleness(brain, s, read)
  /\ justPersisted' = NoPersist /\ UNCHANGED <<baseTree, revision, written>>

\* applyGraphGrowth: files the agent touched, or a newly selected scope.
GrowGraph(r, asked) ==
  /\ snapshot' = [snapshot EXCEPT ![r] = IndexScope(@, worktree[r], asked)]
  /\ lookedAt' = [lookedAt EXCEPT ![r] = @ \cup asked] /\ justPersisted' = NoPersist
  /\ UNCHANGED <<baseTree, revision, worktree, brain, written>>

\* persistSelectedRepositoryKnowledge: the selected files that have a digest, as evidence and a fact.
ClaimsOf(s, sel) ==
  LET eligible == {f \in sel : s.digest[f] # 0} IN
  {EvidenceClaim(s, f) : f \in eligible}
    \cup (IF eligible = {} THEN {} ELSE {FactClaim(s, eligible)})

\* recordSelectedRepositoryKnowledge; a failed write leaves the brain as it was.
Persist(r, sel) ==
  LET claims == ClaimsOf(snapshot[r], sel)
  IN  /\ Cardinality(DOMAIN brain \cup claims) <= MaxClaims
      /\ brain' = AddBatch(brain, claims) /\ justPersisted' = [run |-> r, claims |-> claims]
      /\ UNCHANGED <<baseTree, revision, worktree, snapshot, written, lookedAt>>

KnowNext ==
  \/ \E r \in Writers : Deliver(r) \/ \E f \in SourceFiles, v \in 0 .. MaxVersion : WriteFile(r, f, v)
  \/ \E r \in Runs, sel \in SUBSET SourceFiles, resumed \in BOOLEAN : StartRun(r, sel, resumed)
  \/ \E r \in Runs, sel \in SUBSET SourceFiles \ {{}} : GrowGraph(r, sel) \/ Persist(r, sel)

KnowSpec == KnowInit /\ [][KnowNext]_knowVars

------------------------------------------------------------------------------
\* A claim that is current for a run says of every file it binds what that run's worktree holds,
\* once the run has indexed the file again since it was last written. A file that was removed or
\* has grown past the parsed size keeps its old digest in indexScope and is set aside.
CurrentDescribesTree ==
  brain # <<>> =>
  \A r \in Runs : \A c \in ResolveCurrent(brain, snapshot[r]) : \A f \in c.files \cap lookedAt[r] :
     worktree[r][f] \in {0, Large} \/ c.digest[f] = worktree[r][f]

\* What a run has just written is current for it, also when another run's reconciliation had marked
\* the same claim stale, unless the stored set is past the bound that can be read.
PersistedIsCurrent ==
  justPersisted.claims # {} /\ ~SourceTruncated(brain) =>
    justPersisted.claims \subseteq ResolveCurrent(brain, snapshot[justPersisted.run])

\* The claims of runs that share one brain.
KnowledgeIsCurrent == CurrentDescribesTree /\ PersistedIsCurrent
==============================================================================
