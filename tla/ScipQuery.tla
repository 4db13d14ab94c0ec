------------------------------- MODULE ScipQuery -------------------------------
(***************************************************************************)
(* One semantic query against an operator-made SCIP index:                 *)
(* src/infrastructure/providers/scip-repository-intelligence-adapter.ts.   *)
(* The index is opened and read under a deadline while the files may       *)
(* change, parsed within bounds, searched, and every document of an answer *)
(* is read again.  The protobuf integers are read by a machine beside it.  *)
(***************************************************************************)
EXTENDS Integers, Sequences, FiniteSets, FiniteSetsExt, SequencesExt

CONSTANTS Docs,             \* the documents the manifest binds, 1..n
          Occurrences,      \* what a well-formed index holds: [doc, line, sym, def] ...
          SymbolInfos,      \* ... and [doc, sym, rels]
          ScipSymbols,      \* symbols, ...
          LocalSymbols,     \* ... those whose identity is their document's
          ScipAsks,         \* queries, with what the adapter asked was made with: [op, doc, line, completeness, bounds]
          LineSpan,         \* no document has as many lines
          MaxResults,
          MaxSwaps,
          PayloadBits, Width   \* 7 and 64 in the source

ASSUME ScipAssumption ==
  /\ Docs \subseteq Nat \ {0}
  /\ Occurrences \subseteq [doc : Docs, line : 0..(LineSpan - 1), sym : ScipSymbols, def : BOOLEAN]
  /\ SymbolInfos \subseteq [doc : Docs, sym : ScipSymbols, rels : Seq([to : ScipSymbols, kind : STRING])]
  /\ ScipAsks \subseteq [op : {"FIND_SYMBOL", "FIND_DEFINITION", "FIND_REFERENCES", "FIND_IMPLEMENTATIONS"},
                         doc : Docs, line : Nat \cup ScipSymbols, completeness : {"COMPLETE", "PARTIAL", "UNKNOWN"},
                         bounds : [documents : Nat, occurrences : Nat, semantic : Nat]]
  /\ LineSpan \in Nat \ {0} /\ MaxResults \in Nat \ {0}
  /\ PayloadBits \in Nat \ {0} /\ Width \in Nat /\ \E k \in 1..Width : Width = k * PayloadBits + 1

VARIABLES indexFiles,  \* [inode: of the index path, docs: document -> 0 while unchanged, changes]
          ask,    \* the query in flight
          wire    \* a varint being read: [bytes, value, shift, status]

scipVars == <<indexFiles, ask, wire>>

NoAsk == [step |-> "idle", query |-> <<>>, pre |-> 0, handle |-> -1, pending |-> FALSE, open |-> 0,
          document |-> 0, seen |-> {}, read |-> {}, parsed |-> <<>>, infos |-> {}, semantic |-> 0, occ |-> 0,
          truncated |-> FALSE, heap |-> <<>>, at |-> 0, overflowed |-> FALSE, next |-> 1, checked |-> {}, status |-> "none"]

ScipInit ==
  /\ indexFiles = [inode |-> 0, docs |-> [d \in Docs |-> 0], changes |-> 0]
  /\ ask = NoAsk
  /\ wire = [bytes |-> <<>>, value |-> 0, shift |-> 0, status |-> "reading"]

Query == ask.query[1]

\* Another file is put under the index's path, or a document is edited (external):
\* when it matters, before the index or a document is read.
SwapIndex ==
  /\ ask.step \in {"preopen", "opening", "postopen"} /\ indexFiles.changes < MaxSwaps
  /\ indexFiles' = [indexFiles EXCEPT !.inode = @ + 1, !.changes = @ + 1] /\ UNCHANGED <<ask, wire>>
EditDocument(d) ==
  /\ ask.step = "revalidating" \/ (ask.step = "reading" /\ d = Query.doc)
  /\ indexFiles.changes < MaxSwaps
  /\ indexFiles' = [indexFiles EXCEPT !.docs[d] = 1, !.changes = @ + 1] /\ UNCHANGED <<ask, wire>>

Closed == [ask EXCEPT !.open = IF ask.handle = -1 THEN @ ELSE @ - 1, !.handle = -1]

\* failure: no location is returned, and the finally clauses have closed what was open.
Fails(status) == ask' = [NoAsk EXCEPT !.step = "ended", !.status = status, !.pending = ask.pending, !.open = Closed.open]

-----------------------------------------------------------------------------
(* ScipRepositoryIntelligenceAdapter.query: the file *)

\* validateRequest and validateAge
AskIndex(q) == ask.step = "idle" /\ ask' = [ask EXCEPT !.step = "preopen", !.query = <<q>>] /\ UNCHANGED <<indexFiles, wire>>
RefuseAsk(status) == ask.step = "idle" /\ Fails(status) /\ UNCHANGED <<indexFiles, wire>>

PreOpen ==
  /\ ask.step = "preopen"
  /\ ask' = [ask EXCEPT !.step = "opening", !.pre = indexFiles.inode, !.pending = TRUE] /\ UNCHANGED <<indexFiles, wire>>

\* openReadOnly: the descriptor arrives ...
Opened ==
  /\ ask.step = "opening" /\ ask.pending
  /\ ask' = [ask EXCEPT !.step = "postopen", !.pending = FALSE, !.handle = indexFiles.inode, !.open = @ + 1]
  /\ UNCHANGED <<indexFiles, wire>>

\* Mutant: nobody waits for a descriptor the query no longer wants.
OpenedLateLeaks ==
  /\ ask.step = "ended" /\ ask.pending
  /\ ask' = [ask EXCEPT !.pending = FALSE, !.open = @ + 1] /\ UNCHANGED <<indexFiles, wire>>

\* ... or arrives after the query gave up, and is closed then.
OpenedLate ==
  /\ ask.step = "ended" /\ ask.pending
  /\ ask' = [ask EXCEPT !.pending = FALSE] /\ UNCHANGED <<indexFiles, wire>>

\* The handle and the path must still be the file that was looked at.
PostOpen ==
  /\ ask.step = "postopen"
  /\ IF ask.handle = ask.pre /\ indexFiles.inode = ask.pre THEN ask' = [ask EXCEPT !.step = "reading"] ELSE Fails("UNAVAILABLE")
  /\ UNCHANGED <<indexFiles, wire>>
Unreadable == ask.step \in {"preopen", "postopen", "reading"} /\ Fails("UNAVAILABLE") /\ UNCHANGED <<indexFiles, wire>>

\* readBoundedHandle, then the digest the manifest binds
ReadIndex ==
  /\ ask.step = "reading"
  /\ IF ask.handle = 0 THEN ask' = [Closed EXCEPT !.step = "parsing"] ELSE Fails("STALE")
  /\ UNCHANGED <<indexFiles, wire>>

\* QueryGuard: a timeout or the caller's abort at any checkpoint.
InterruptQuery == ask.step \notin {"idle", "ended"} /\ Fails("TIMEOUT") /\ UNCHANGED <<indexFiles, wire>>

-----------------------------------------------------------------------------
(* parseScipIndex: documents in any order, their occurrences in any order and then their symbols *)

PartsOf(d) == {o \in Occurrences : o.doc = d} \cup {i \in SymbolInfos : i.doc = d}
NextDocument(d) ==
  /\ ask.step = "parsing" /\ d \in Docs \ ask.seen /\ PartsOf(ask.document) \subseteq ask.read
  /\ IF Cardinality(ask.seen) < Query.bounds.documents
     THEN ask' = [ask EXCEPT !.seen = @ \cup {d}, !.document = d]
     ELSE ask' = [ask EXCEPT !.seen = @ \cup {d}, !.truncated = TRUE]
  /\ UNCHANGED <<indexFiles, wire>>

\* Mutant: the occurrences past the bound are dropped without a word.
DropOccurrence(o) ==
  ask' = [ask EXCEPT !.read = @ \cup {o}, !.occ = @ + 1, !.parsed = IF ask.occ < Query.bounds.occurrences THEN Append(@, o) ELSE @]

KeepOccurrence(o) ==
  ask' = [ask EXCEPT !.read = @ \cup {o}, !.occ = @ + 1,
                     !.parsed = IF ask.occ < Query.bounds.occurrences THEN Append(@, o) ELSE @,
                     !.truncated = @ \/ ask.occ >= Query.bounds.occurrences]
ParseOccurrence(o) ==
  /\ ask.step = "parsing" /\ o.doc = ask.document /\ o \notin ask.read
  /\ KeepOccurrence(o) /\ UNCHANGED <<indexFiles, wire>>

\* reserveSemanticEntry: an entry counts, and so does each of its relationships; what is past the
\* bound is dropped.
ParseSymbol(i) ==
  LET room == Query.bounds.semantic - ask.semantic - 1 IN
  /\ ask.step = "parsing" /\ i.doc = ask.document /\ i \notin ask.read
  /\ \A o \in Occurrences : o.doc = i.doc => o \in ask.read
  /\ ask' = [ask EXCEPT !.read = @ \cup {i},
                        !.semantic = @ + 1 + (IF room >= 0 THEN Len(i.rels) ELSE 0),
                        !.infos = IF room >= 0 THEN @ \cup {[i EXCEPT !.rels = SubSeq(@, 1, Min({room, Len(@)}))]} ELSE @,
                        !.truncated = @ \/ room < Len(i.rels)]
  /\ UNCHANGED <<indexFiles, wire>>
Malformed(status) == ask.step = "parsing" /\ Fails(status) /\ UNCHANGED <<indexFiles, wire>>

-----------------------------------------------------------------------------
(* buildSemanticModel and selectLocations *)

SymbolKey(sym, d) == IF sym \in LocalSymbols THEN <<sym, d>> ELSE <<sym, 0>>

KeyOf(x) == SymbolKey(x.sym, x.doc)
Named(key) == \E i \in ask.infos : KeyOf(i) = key
Relations == UNION {{[from |-> KeyOf(i), to |-> SymbolKey(r.to, i.doc), kind |-> r.kind] : r \in ToSet(i.rels)} : i \in ask.infos}

AnchorKeys == {KeyOf(o) : o \in {p \in ToSet(ask.parsed) : p.doc = Query.doc /\ p.line = Query.line /\ Named(KeyOf(p))}}
Anchor == CHOOSE k \in AnchorKeys : TRUE
Anchored == Query.op # "FIND_SYMBOL"   \* the query is then a symbol of document 0, by name
Targets ==
  CASE Query.op = "FIND_SYMBOL" -> {KeyOf(i) : i \in {x \in ask.infos : x.sym = Query.line}}
    [] Query.op = "FIND_DEFINITION" -> {Anchor} \cup {r.to : r \in {x \in Relations : x.from = Anchor /\ x.kind = "definition"}}
    [] Query.op = "FIND_REFERENCES" ->
         {Anchor} \cup {r.to : r \in {x \in Relations : x.from = Anchor /\ x.kind = "reference"}}
                  \cup {r.from : r \in {x \in Relations : x.to = Anchor /\ x.kind = "reference"}}
    [] Query.op = "FIND_IMPLEMENTATIONS" -> {r.from : r \in {x \in Relations : x.to = Anchor /\ x.kind = "implementation"}}

EndParse ==
  /\ ask.step = "parsing" /\ ask.seen = Docs /\ PartsOf(ask.document) \subseteq ask.read
  /\ IF Anchored /\ indexFiles.docs[Query.doc] # 0 THEN Fails("STALE")
     ELSE IF Anchored /\ Cardinality(AnchorKeys) # 1 THEN Fails("UNAVAILABLE")
     ELSE ask' = [ask EXCEPT !.step = "selecting", !.seen = {}, !.read = {}, !.document = 0]
  /\ UNCHANGED <<indexFiles, wire>>

Wants(o) == o.def = (Query.op # "FIND_REFERENCES") /\ KeyOf(o) \in Targets /\ Named(KeyOf(o))

\* The order of answers: by document and line.
Rank(o) == LineSpan * o.doc + o.line

\* BoundedLocationCollector.add: a max-heap of the ranks kept, the least preferred at its root
Offer ==
  LET o == ask.parsed[ask.next] r == Rank(o) IN
  /\ ask.step = "selecting" /\ ask.next <= Len(ask.parsed)
  /\ ask' = IF ~Wants(o) \/ r \in ToSet(ask.heap) THEN [ask EXCEPT !.next = @ + 1]
            ELSE IF Len(ask.heap) < MaxResults
            THEN [ask EXCEPT !.next = @ + 1, !.heap = Append(@, r), !.step = "siftUp", !.at = Len(ask.heap) + 1]
            ELSE IF r >= ask.heap[1] THEN [ask EXCEPT !.next = @ + 1, !.overflowed = TRUE]
            ELSE [ask EXCEPT !.next = @ + 1, !.overflowed = TRUE, !.heap = [@ EXCEPT ![1] = r], !.step = "siftDown", !.at = 1]
  /\ UNCHANGED <<indexFiles, wire>>

Exchange(i, j) == [ask EXCEPT !.heap = [@ EXCEPT ![i] = ask.heap[j], ![j] = ask.heap[i]], !.at = j]
SettleHeap == [ask EXCEPT !.step = "selecting", !.at = 0]
SiftUp ==
  LET parent == ask.at \div 2 IN
  /\ ask.step = "siftUp"
  /\ ask' = IF ask.at = 1 \/ ask.heap[IF parent = 0 THEN 1 ELSE parent] >= ask.heap[ask.at] THEN SettleHeap
            ELSE Exchange(ask.at, parent)
  /\ UNCHANGED <<indexFiles, wire>>

\* Mutant: the left child is taken for the larger one.
LeftChild(i) == 2 * i

Larger(i) ==
  IF 2 * i + 1 <= Len(ask.heap) /\ ask.heap[Min({2 * i + 1, Len(ask.heap)})] > ask.heap[2 * i] THEN 2 * i + 1 ELSE 2 * i
SiftDown ==
  /\ ask.step = "siftDown"
  /\ ask' = IF 2 * ask.at > Len(ask.heap) THEN SettleHeap
            ELSE IF ask.heap[ask.at] >= ask.heap[Larger(ask.at)] THEN SettleHeap
            ELSE Exchange(ask.at, Larger(ask.at))
  /\ UNCHANGED <<indexFiles, wire>>

-----------------------------------------------------------------------------
(* revalidateLocationDocuments, and the answer *)

ToCheck == {r \div LineSpan : r \in ToSet(ask.heap)} \ ask.checked
EndSelect ==
  /\ ask.step = "selecting" /\ ask.next > Len(ask.parsed)
  /\ ask' = [ask EXCEPT !.step = "revalidating", !.parsed = <<>>, !.next = 1] /\ UNCHANGED <<indexFiles, wire>>
Revalidate ==
  LET d == Min(ToCheck) IN
  /\ ask.step = "revalidating" /\ ToCheck # {}
  /\ IF indexFiles.docs[d] # 0 THEN Fails("STALE") ELSE ask' = [ask EXCEPT !.checked = @ \cup {d}]
  /\ UNCHANGED <<indexFiles, wire>>
\* The answer says PARTIAL, too, of an index its manifest does not call complete.
Truncated == ask.truncated \/ ask.overflowed
Completeness == IF ask.truncated THEN "PARTIAL" ELSE Query.completeness
Answer ==
  /\ ask.step = "revalidating" /\ ToCheck = {}
  /\ ask' = [ask EXCEPT !.step = "ended", !.status = IF Truncated \/ Completeness # "COMPLETE" THEN "PARTIAL" ELSE "COMPLETED"]
  /\ UNCHANGED <<indexFiles, wire>>

-----------------------------------------------------------------------------
(* WireReader.readUnsigned *)

\* Mutant: the last byte is not bounded.
NoLimit(byte) == FALSE

TooWide(byte) == wire.shift = Width - 1 /\ byte > 1

\* 1 << n
Powers(n) == LET p[k \in 0..n] == IF k = 0 THEN 1 ELSE 2 * p[k - 1] IN p
TwoTo(n) == Powers(n)[n]
Payload(byte) == byte % TwoTo(PayloadBits)
ReadByte(byte) ==
  /\ wire.status = "reading" /\ ask.step = "idle" /\ indexFiles.changes = 0
  /\ wire' = [bytes |-> Append(wire.bytes, byte), shift |-> wire.shift + PayloadBits,
              value |-> wire.value + Payload(byte) * TwoTo(wire.shift),
              status |-> IF TooWide(byte) THEN "error"
                         ELSE IF byte < TwoTo(PayloadBits) THEN "done"
                         ELSE IF wire.shift + PayloadBits >= Width + PayloadBits - 1 THEN "error"
                         ELSE "reading"]
  /\ UNCHANGED <<indexFiles, ask>>

ScipNext ==
  \/ SwapIndex \/ \E d \in Docs : EditDocument(d)
  \/ wire.bytes = <<>> /\ (\E q \in ScipAsks : AskIndex(q) \/ \E s \in {"MALFORMED", "STALE", "UNSUPPORTED", "VERSION_MISMATCH"} : RefuseAsk(s))
  \/ PreOpen \/ Opened \/ OpenedLate \/ PostOpen \/ Unreadable \/ ReadIndex \/ InterruptQuery
  \/ \E d \in Docs : NextDocument(d)
  \/ \E o \in Occurrences : ParseOccurrence(o)
  \/ \E i \in SymbolInfos : ParseSymbol(i)
  \/ \E s \in {"MALFORMED", "VERSION_MISMATCH"} : Malformed(s)
  \/ EndParse \/ Offer \/ SiftUp \/ SiftDown \/ EndSelect \/ Revalidate \/ Answer
  \/ \E b \in 0..(2 * TwoTo(PayloadBits) - 1) : ReadByte(b)

ScipSpec == ScipInit /\ [][ScipNext]_scipVars

-----------------------------------------------------------------------------
(* Properties *)

\* Whenever the query gives up, in particular while a file is being opened, no descriptor stays open.
NoHandleLeaks == ask.step = "ended" /\ ~ask.pending => ask.open = 0

\* What the whole index says, read at once, without bounds and without a heap.
WholeKey(x) == IF x.sym \in LocalSymbols THEN <<x.sym, x.doc>> ELSE <<x.sym, 0>>
Described(k) == \E i \in SymbolInfos : WholeKey(i) = k
WholeRelated(a, b, kind) ==
  \E i \in SymbolInfos : WholeKey(i) = a /\ \E r \in ToSet(i.rels) : WholeKey([sym |-> r.to, doc |-> i.doc]) = b /\ r.kind = kind
WholeAnchor(q) == WholeKey(CHOOSE o \in Occurrences : o.doc = q.doc /\ o.line = q.line /\ Described(WholeKey(o)))
WholeTarget(q, k) ==
  CASE q.op = "FIND_SYMBOL" -> k[1] = q.line
    [] q.op = "FIND_DEFINITION" -> k = WholeAnchor(q) \/ WholeRelated(WholeAnchor(q), k, "definition")
    [] q.op = "FIND_REFERENCES" -> \/ k = WholeAnchor(q) \/ WholeRelated(WholeAnchor(q), k, "reference")
                                   \/ WholeRelated(k, WholeAnchor(q), "reference")
    [] q.op = "FIND_IMPLEMENTATIONS" -> WholeRelated(k, WholeAnchor(q), "implementation")
WholeWants(q, o) == o.def = (q.op # "FIND_REFERENCES") /\ Described(WholeKey(o)) /\ WholeTarget(q, WholeKey(o))
WholeAnswer(q) == {Rank(o) : o \in {p \in Occurrences : WholeWants(q, p)}}

\* An answer that does not say `truncated` is all the index has, also when it says PARTIAL because the
\* manifest does; COMPLETED is said only of such an answer, and of a complete index.
Answered == ask.step = "ended" /\ ask.status \in {"COMPLETED", "PARTIAL"}
CompletedIsWhole ==
  /\ Answered /\ ~Truncated => ToSet(ask.heap) = WholeAnswer(Query)
  /\ Answered /\ ask.status = "COMPLETED" => ~Truncated /\ Query.completeness = "COMPLETE"

\* An answer cut only by the result limit holds the first results in document order, in whatever
\* order the index lists them.
FirstResultsKept ==
  Answered /\ ask.overflowed /\ ~ask.truncated =>
    /\ Len(ask.heap) = MaxResults /\ ToSet(ask.heap) \subseteq WholeAnswer(Query)
    /\ \A r \in WholeAnswer(Query) \ ToSet(ask.heap), k \in ToSet(ask.heap) : k < r

\* The number the bytes stand for: the first is its lowest PayloadBits bits.
Digits(bytes) ==
  LET v[k \in 0..Len(bytes)] == IF k = 0 THEN 0 ELSE v[k - 1] + Payload(bytes[k]) * TwoTo(PayloadBits * (k - 1))
  IN  v
NumberOf(bytes) == Digits(bytes)[Len(bytes)]

\* A varint is read to its value, and only if that fits.
VarintExact == wire.status = "done" => wire.value = NumberOf(wire.bytes) /\ wire.value < TwoTo(Width)

\* A query of the index, from its bytes to its answer and its open files.
ScipAnswerIsSound == NoHandleLeaks /\ CompletedIsWhole /\ FirstResultsKept /\ VarintExact
=============================================================================
