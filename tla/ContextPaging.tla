---------------------------- MODULE ContextPaging ----------------------------
(* The context working set of one active run: pages of files, modules, the         *)
(* semantic index and stored knowledge, admitted on request under the mission's    *)
(* budget and checked again against their source whenever they are asked for.      *)
(*                                                                                 *)
(* The session's event loop and the native tool seam both expand the same working  *)
(* set, and a mode change rebases it; every expansion works on a copy it took      *)
(* before it awaited its source. Page text is its length; a file's bytes are a     *)
(* version, which is also its digest. The overlap of two of these operations is    *)
(* recorded in `overlapped`, for the statements that only hold without it; one      *)
(* overlap is explored, after which what is under way still ends.                  *)
EXTENDS RepositoryKnowledge, SequencesExt

CONSTANTS Callers,       \* the session's loop and the tool seam
          MaxPageRequests, MaxPageCount, MaxPageCharacters, MaxTextCharacters, MaxContextHandles,
          ClipMarker,    \* the length of the marker a clipped page ends in
          SoloLength, GuidedLength, \* length of the rendered initial context, by mode
          MaxTouches     \* how often the worktree, the index or the brain change meanwhile

\* createInitialWorkingSet throws when the rendered text is over the budget.
ASSUME ContextAssumption ==
  /\ IsFiniteSet(SourceFiles)
  /\ MaxPageRequests \in Nat /\ MaxPageCount \in Nat /\ MaxPageCharacters \in Nat /\ ClipMarker \in Nat
  /\ MaxTextCharacters \in Nat /\ {SoloLength, GuidedLength} \subseteq 0 .. MaxTextCharacters

VARIABLES pagedTree,   \* file -> its bytes in the run's worktree
          pagedSnap,   \* the run's repository snapshot
          workingSet,  \* ContextState.workingSet
          expansion,   \* caller -> its expansion in progress
          binding,     \* the source the semantic index is configured with, 0 for none
          stored,      \* the project's knowledge, as other runs leave it
          touches, sourceAsked, denied, overlapped
contextVars == <<pagedTree, pagedSnap, workingSet, expansion, binding, stored, touches, sourceAsked,
                 denied, overlapped>>

Handle(kind, of, bound) == [kind |-> kind, of |-> of, bound |-> bound]
OperationMatches ==
  {<<"FILE", "FILE_SLICE">>, <<"SYMBOL", "SYMBOL_SLICE">>, <<"SYMBOL", "FIND_REFERENCES">>,
   <<"MODULE", "MODULE_RELATIONSHIPS">>, <<"REPOSITORY", "FIND_SYMBOL">>,
   <<"KNOWLEDGE", "KNOWLEDGE_RECORD">>, <<"KNOWLEDGE", "EVIDENCE_REFERENCES">>}
Key(req) == <<req.handle, req.operation>>
NoPageRequest == [handle |-> Handle("NONE", 0, {}), operation |-> "NONE"]
NoExpansion == [at |-> "idle", req |-> NoPageRequest, copy |-> <<>>, snap |-> <<>>, uses |-> 0, found |-> {}]

\* The fact the brain holds about file 1, and what it says now.
PagedFact == FactClaim([revision |-> 1, files |-> {1}, digest |-> [f \in SourceFiles |-> 1]], {1})
HeldFact == Handle("KNOWLEDGE", 0, {1})

\* The canonical handles of the build: the index, the module, its files and symbols, the facts.
InitialHandles(s, b) ==
  (IF b = 0 THEN <<>> ELSE <<Handle("REPOSITORY", 0, {b})>>)
    \o <<Handle("MODULE", 0, s.files)>>
    \o SetToSeq({Handle("FILE", f, {s.digest[f]}) : f \in {g \in SourceFiles : s.digest[g] # 0}})
    \o (IF ResolveCurrent(stored, s) = {} THEN <<>> ELSE <<HeldFact>>)

FirstOf(q, n) == SubSeq(q, 1, IF Len(q) < n THEN Len(q) ELSE n)
Distinct(q) == SelectSeq([i \in 1 .. Len(q) |-> IF \E j \in 1 .. i - 1 : q[j] = q[i]
                            THEN NoPageRequest.handle ELSE q[i]], LAMBDA h : h.kind # "NONE")

\* createInitialWorkingSet.
InitialWorkingSet(handles, base) ==
  [handles |-> FirstOf(Distinct(handles), MaxContextHandles), pages |-> <<>>, base |-> base,
   resident |-> base, requests |-> 0, count |-> 0, keys |-> <<>>, exhaustion |-> "none"]

\* rebaseWorkingSet: pages are kept greedily, in order, while they fit next to the new base text.
\* The counters of the mission stay.
KeepWithin(pages, room) ==
  LET kept[i \in 0 .. Len(pages)] ==
        IF i = 0 THEN [pages |-> <<>>, room |-> room]
        ELSE IF pages[i].chars > kept[i - 1].room THEN kept[i - 1]
        ELSE [pages |-> Append(kept[i - 1].pages, pages[i]), room |-> kept[i - 1].room - pages[i].chars]
  IN  kept

RebaseFresh(w, next) == [next EXCEPT !.handles = FirstOf(Distinct(next.handles \o w.handles), MaxContextHandles)]
RebaseWorkingSet(w, next) ==
  LET kept == KeepWithin(w.pages, MaxTextCharacters - next.base)[Len(w.pages)] IN
  [w EXCEPT !.handles = FirstOf(Distinct(next.handles \o w.handles), MaxContextHandles),
            !.pages = kept.pages, !.base = next.base,
            !.resident = MaxTextCharacters - kept.room, !.count = Len(kept.pages),
            !.keys = [i \in DOMAIN kept.pages |-> kept.pages[i].key], !.exhaustion = "none"]

ContextInit ==
  /\ pagedTree = [f \in SourceFiles |-> IF f = 1 THEN 1 ELSE 0] /\ binding = 1 /\ stored = [c \in {PagedFact} |-> "ACTIVE"]
  /\ pagedSnap = IndexScope(IndexTree(1, pagedTree), pagedTree, SourceFiles)
  /\ workingSet = InitialWorkingSet(InitialHandles(pagedSnap, binding), GuidedLength)
  /\ expansion = [c \in Callers |-> NoExpansion]
  /\ touches = 0 /\ sourceAsked = 0 /\ denied = {} /\ overlapped = FALSE

Busy == \E c \in Callers : expansion[c].at # "idle"
PagesOf(w, key) == {i \in DOMAIN w.pages : w.pages[i].key = key}

\* contextState takes the expansion's copy and snapshot.
FinishExpansion(c, w, s) ==
  /\ workingSet' = w /\ pagedSnap' = s /\ expansion' = [expansion EXCEPT ![c] = NoExpansion]
  /\ UNCHANGED <<pagedTree, binding, stored, touches, overlapped>>

\* expand, up to the source: a request that fails its structural validation, one past the limit,
\* one without a handle of this mission, or of the wrong kind for it. Each counts as a request.
Counted(w) == IF w.requests >= MaxPageRequests THEN [w EXCEPT !.exhaustion = "PAGE_REQUEST_LIMIT"]
              ELSE [w EXCEPT !.requests = @ + 1]

RefuseExpansion(c, req) ==
  /\ expansion[c].at = "idle" /\ ~overlapped
  /\ \/ req = NoPageRequest
     \/ workingSet.requests >= MaxPageRequests
     \/ req.handle \notin ToSet(workingSet.handles)
     \/ <<req.handle.kind, req.operation>> \notin OperationMatches
  /\ overlapped' = (overlapped \/ Busy)
  /\ workingSet' = Counted(workingSet)
  /\ UNCHANGED <<pagedTree, pagedSnap, expansion, binding, stored, touches, sourceAsked, denied>>

\* A page that is not resident needs a free place; an existing one is revalidated.
RefusePlace(c, req) ==
  /\ expansion[c].at = "idle" /\ ~overlapped /\ req # NoPageRequest
  /\ workingSet.requests < MaxPageRequests /\ req.handle \in ToSet(workingSet.handles)
  /\ <<req.handle.kind, req.operation>> \in OperationMatches
  /\ PagesOf(workingSet, Key(req)) = {} /\ workingSet.count >= MaxPageCount
  /\ overlapped' = (overlapped \/ Busy)
  /\ workingSet' = [Counted(workingSet) EXCEPT !.exhaustion = "PAGE_COUNT_LIMIT"]
  /\ UNCHANGED <<pagedTree, pagedSnap, expansion, binding, stored, touches, sourceAsked, denied>>

\* LocalContextPageSource.resolve picks the resolver by operation.
Resolver == [FILE_SLICE |-> "slice", SYMBOL_SLICE |-> "slice", MODULE_RELATIONSHIPS |-> "module",
             FIND_SYMBOL |-> "query", FIND_REFERENCES |-> "query",
             KNOWLEDGE_RECORD |-> "knowledge", EVIDENCE_REFERENCES |-> "knowledge"]

AskSource(c, req) ==
  /\ expansion[c].at = "idle" /\ ~overlapped /\ req # NoPageRequest
  /\ workingSet.requests < MaxPageRequests /\ req.handle \in ToSet(workingSet.handles)
  /\ <<req.handle.kind, req.operation>> \in OperationMatches
  /\ PagesOf(workingSet, Key(req)) # {} \/ workingSet.count < MaxPageCount
  /\ overlapped' = (overlapped \/ Busy) /\ sourceAsked' = sourceAsked + 1
  /\ expansion' = [expansion EXCEPT ![c] =
        [at |-> Resolver[req.operation], req |-> req, copy |-> Counted(workingSet), snap |-> pagedSnap,
         uses |-> 0, found |-> {}]]
  /\ UNCHANGED <<pagedTree, pagedSnap, workingSet, binding, stored, touches, denied>>

\* A page that cannot be revalidated is spliced out, and its key filtered from the keys.
Without(q, x) ==
  LET rest[i \in 0 .. Len(q)] ==
        IF i = 0 THEN <<>> ELSE IF q[i] = x THEN rest[i - 1] ELSE Append(rest[i - 1], q[i])
  IN  rest
EvictUncounted(w, key) ==
  [w EXCEPT !.pages = SelectSeq(@, LAMBDA p : p.key # key),
            !.count = @ - Cardinality(PagesOf(w, key)), !.keys = SelectSeq(@, LAMBDA k : k # key)]
Evict(w, key) ==
  LET gone == PagesOf(w, key)
      existing == CHOOSE i \in gone : \A j \in gone : i <= j
  IN  IF gone = {} THEN w
      ELSE [w EXCEPT !.pages = SubSeq(@, 1, existing - 1) \o SubSeq(@, existing + 1, Len(@)), !.count = @ - 1,
                     !.resident = @ - w.pages[existing].chars, !.keys = Without(@, key)[Len(@)]]

PageUnresolvedKept(c, s) ==
  LET key == Key(expansion[c].req) IN
  FinishExpansion(c, expansion[c].copy, s) /\ denied' = denied \cup {key} /\ UNCHANGED sourceAsked
PageUnresolved(c, s) ==
  LET key == Key(expansion[c].req) IN
  /\ FinishExpansion(c, Evict(expansion[c].copy, key), s) /\ denied' = denied \cup {key} /\ UNCHANGED sourceAsked

\* clipPage, then the resident budget, then admission or replacement; handles found on the page
\* join the working set up to its bound.
Clipped(n) == IF n <= MaxPageCharacters THEN n
              ELSE IF MaxPageCharacters < ClipMarker THEN ClipMarker ELSE MaxPageCharacters

Admitted(w, page, related) ==
  LET at == PagesOf(w, page.key)
      existing == CHOOSE i \in at : \A j \in at : i <= j
      before == IF at = {} THEN 0 ELSE w.pages[existing].chars
      after == w.resident - before + page.chars
  IN  IF after > MaxTextCharacters THEN [w EXCEPT !.exhaustion = "RESIDENT_CHARACTER_BUDGET"]
      ELSE [w EXCEPT !.resident = after, !.exhaustion = "none",
                     !.pages = IF at = {} THEN Append(@, page) ELSE [@ EXCEPT ![existing] = page],
                     !.count = IF at = {} THEN @ + 1 ELSE @,
                     !.keys = IF at = {} THEN Append(@, page.key) ELSE @,
                     !.handles = FirstOf(Distinct(@ \o related), MaxContextHandles)]

ResolvedPage(c, s, length, related) ==
  LET key == Key(expansion[c].req) IN
  /\ FinishExpansion(c, Admitted(expansion[c].copy, [key |-> key, chars |-> Clipped(length)], related), s)
  /\ denied' = denied \ {key} /\ UNCHANGED sourceAsked

\* The source throws or answers unavailable: indexing failed, the brain is out of reach, the
\* requested line is past the end of the file, the provider could not be asked.
SourceFails(c) == expansion[c].at # "idle" /\ PageUnresolved(c, expansion[c].snap)

\* resolveSourceSlice: index the one file and compare its digest with the handle's, then read it.
IndexSlice(c) ==
  LET e == expansion[c]
      f == e.req.handle.of
      s == IndexScope(e.snap, pagedTree, {f})
  IN  /\ e.at = "slice"
      /\ IF f \in e.snap.files /\ {s.digest[f]} = e.req.handle.bound
         THEN /\ expansion' = [expansion EXCEPT ![c].at = "read", ![c].snap = s]
              /\ UNCHANGED <<pagedTree, pagedSnap, workingSet, binding, stored, touches, sourceAsked, denied, overlapped>>
         ELSE PageUnresolved(c, IF f \in e.snap.files THEN s ELSE e.snap)

ReadSlice(c) ==
  LET e == expansion[c]
      f == e.req.handle.of
  IN  /\ e.at = "read"
      /\ IF pagedTree[f] \in {0, Large} THEN PageUnresolved(c, e.snap)
         ELSE ResolvedPage(c, e.snap, pagedTree[f], <<Handle("SYMBOL", f, {e.snap.digest[f]})>>)

\* resolveModule: the membership the handle is bound to, then the module's files are indexed.
ResolveModule(c) ==
  LET e == expansion[c]
      s == IndexScope(e.snap, pagedTree, e.snap.files)
  IN  /\ e.at = "module"
      /\ IF e.snap.files # e.req.handle.bound THEN PageUnresolved(c, e.snap)
         ELSE ResolvedPage(c, s, Cardinality(s.files),
                SetToSeq({Handle("FILE", f, {s.digest[f]}) : f \in {g \in s.files : s.digest[g] # 0}}))

\* resolveRepositoryIntelligence: the configured source, and for a repository handle the one it is
\* bound to; then the query.
QueryIndex(c) ==
  LET e == expansion[c] IN
  /\ e.at = "query"
  /\ IF binding = 0 \/ (e.req.handle.kind = "REPOSITORY" /\ e.req.handle.bound # {binding})
     THEN PageUnresolved(c, e.snap)
     ELSE /\ expansion' = [expansion EXCEPT ![c].at = "answer", ![c].uses = binding]
          /\ UNCHANGED <<pagedTree, pagedSnap, workingSet, binding, stored, touches, sourceAsked, denied, overlapped>>

\* The provider's answer: a source other than the configured one, an empty partial answer, and
\* documents that contradict the anchor or lie outside the snapshot or the worktree are refused.
TakeAnswer(c, found, source) ==
  LET e == expansion[c]
      anchor == IF e.req.handle.kind = "SYMBOL" THEN {<<e.req.handle.of, v>> : v \in e.req.handle.bound} ELSE {}
      bound == found \cup anchor
  IN  IF \/ source # e.uses
         \/ \E x, y \in bound : x[1] = y[1] /\ x # y
         \/ \E x \in bound : x[1] \notin e.snap.files \/ pagedTree[x[1]] = 0
      THEN PageUnresolved(c, e.snap)
      ELSE /\ expansion' = [expansion EXCEPT ![c].at = "documents", ![c].found = bound]
           /\ UNCHANGED <<pagedTree, pagedSnap, workingSet, binding, stored, touches, sourceAsked, denied, overlapped>>
AnswerIndex(c) ==
  /\ expansion[c].at = "answer"
  /\ \E found \in {{}} \cup {{x} : x \in SourceFiles \X {1, 2}}, source \in {expansion[c].uses, 0} :
       TakeAnswer(c, found, source)

\* Every document named is indexed again and must still have the digest the provider gave.
CheckDocuments(c) ==
  LET e == expansion[c]
      s == IndexScope(e.snap, pagedTree, {x[1] : x \in e.found})
  IN  /\ e.at = "documents"
      /\ IF \E x \in e.found : s.digest[x[1]] # x[2] THEN PageUnresolved(c, s)
         ELSE ResolvedPage(c, s, 1 + Cardinality(e.found),
                SetToSeq({Handle("SYMBOL", x[1], {x[2]}) : x \in e.found}))

\* resolveKnowledge: the record must be current for the snapshot as it stands, and unchanged.
ResolveKnowledge(c) ==
  LET e == expansion[c] IN
  /\ e.at = "knowledge"
  /\ IF PagedFact \in ResolveCurrent(stored, e.snap) THEN ResolvedPage(c, e.snap, 1, <<>>)
     ELSE PageUnresolved(c, e.snap)

\* refreshContext: the context of the new mode is built from the present snapshot and the working
\* set is rebased on it.
RefreshContext(base, handles) ==
  /\ base # workingSet.base /\ ~overlapped /\ overlapped' = (overlapped \/ Busy)
  /\ workingSet' = RebaseWorkingSet(workingSet, InitialWorkingSet(handles, base))
  /\ UNCHANGED <<pagedTree, pagedSnap, expansion, binding, stored, touches, sourceAsked, denied>>

\* Meanwhile the agent writes its worktree, other runs write the brain, the index is reconfigured.
Touch ==
  /\ touches < MaxTouches /\ touches' = touches + 1
  /\ \/ /\ \E f \in SourceFiles, v \in 0 .. MaxVersion : v # pagedTree[f] /\ pagedTree' = [pagedTree EXCEPT ![f] = v]
        /\ UNCHANGED <<binding, stored>>
     \/ binding' = (binding + 1) % 3 /\ UNCHANGED <<pagedTree, stored>>
     \/ /\ stored' = [stored EXCEPT ![PagedFact] = IF @ = "ACTIVE" THEN "STALE" ELSE "ACTIVE"]
        /\ UNCHANGED <<pagedTree, binding>>
  /\ UNCHANGED <<pagedSnap, workingSet, expansion, sourceAsked, denied, overlapped>>

Requests == {NoPageRequest} \cup {[handle |-> h, operation |-> op] : h \in ToSet(workingSet.handles),
                                op \in {x[2] : x \in OperationMatches}}

ContextNext ==
  \/ \E c \in Callers, req \in Requests : RefuseExpansion(c, req) \/ RefusePlace(c, req) \/ AskSource(c, req)
  \/ \E c \in Callers : \/ SourceFails(c) \/ IndexSlice(c) \/ ReadSlice(c) \/ ResolveModule(c)
                        \/ QueryIndex(c) \/ AnswerIndex(c) \/ CheckDocuments(c) \/ ResolveKnowledge(c)
  \/ RefreshContext(SoloLength, <<>>)
  \/ RefreshContext(GuidedLength, InitialHandles(pagedSnap, binding))
  \/ Touch

ContextSpec == ContextInit /\ [][ContextNext]_contextVars

------------------------------------------------------------------------------
\* The characters of the first i pages.
Characters(pages) ==
  LET sum[i \in 0 .. Len(pages)] == IF i = 0 THEN 0 ELSE sum[i - 1] + pages[i].chars IN sum

\* The working set's books agree through any sequence of admissions, replacements, evictions and
\* rebases, also when expansions overlap: resident characters are the base text and the pages,
\* the counts and the requested keys are those of the pages, and the budget is kept.
PagesAccounted ==
  LET w == workingSet IN
  /\ w.resident = w.base + Characters(w.pages)[Len(w.pages)]
  /\ w.resident <= MaxTextCharacters /\ w.count = Len(w.pages) /\ w.count <= MaxPageCount
  /\ w.keys = [i \in DOMAIN w.pages |-> w.pages[i].key]

\* A page whose source refused to confirm it is not resident until its source has confirmed it
\* again, as long as no two operations on the working set overlapped.
DeniedIsNotResident ==
  denied # {} /\ ~overlapped => \A i \in DOMAIN workingSet.pages : workingSet.pages[i].key \notin denied

\* The mission's page-request limit bounds how often the sources are asked, across mode changes and
\* revalidations, as long as no two operations overlapped.
AskedWithinLimit == overlapped \/ sourceAsked <= MaxPageRequests

\* The working set of a mission while expansions, rebases and writers go on.
WorkingSetIsSound == PagesAccounted /\ DeniedIsNotResident /\ AskedWithinLimit
==============================================================================
