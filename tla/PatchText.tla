------------------------------ MODULE PatchText ------------------------------
(***************************************************************************)
(* The two readers of a Git patch: parseFilePatches                        *)
(* (src/domain/diff-parse.ts), whose entries every checker works from, and *)
(* redactPatchPreview (src/domain/security.ts), which walks the same lines *)
(* a second time on its own; and what deriveSecurityPosture and the        *)
(* credential-literal producer conclude from the entries.                  *)
(*                                                                         *)
(* The patch grows line by line the way Git writes one: a header per file, *)
(* then a mode line, a binary marker or the two name lines and a hunk.  A  *)
(* line is [k, file, has]; `file` is the name a header carries, or None    *)
(* for /dev/null, and `has` what an added line holds.  A hunk may remove a *)
(* line whose text is "-- a/x" ("look-alike") and add one whose text is    *)
(* "++ b/x" ("plus-alike"): both readers take them for name lines.  The    *)
(* preview is the set of the lines that it shows: any other is left out or *)
(* has a marker in its place.                                              *)
(***************************************************************************)
EXTENDS Naturals, Sequences, SequencesExt, FiniteSets

CONSTANTS PatchFiles, TestFiles,  \* names; the second are test or fixture files
          None, MaxPatchLines

\* /dev/null is no file of the repository.
ASSUME PatchAssumption == None \notin PatchFiles /\ MaxPatchLines \in Nat

VARIABLES raw,    \* the patch
          owner   \* history: the file each line belongs to, by the section it stands in

patchVars == <<raw, owner>>

Holds == {"plain", "structured", "literal", "placeholder", "interpolated"}
L(k, file, has) == [k |-> k, file |-> file, has |-> has]

PatchInit == raw = <<>> /\ owner = <<>>

Write(line, file) ==
  /\ Len(raw) < MaxPatchLines
  /\ raw' = Append(raw, line) /\ owner' = Append(owner, file)

LastLine == IF raw = <<>> THEN "none" ELSE Last(raw).k
InHunk == LastLine \in {"plus", "added", "removed", "look-alike", "plus-alike"}

\* The section's "---" line (k is "minus") or "+++" line names a file: it has lines on that side.
HasSide(k) == \E i \in DOMAIN raw : raw[i].k = k /\ owner[i] = Last(owner) /\ raw[i].file # None

PatchNext ==
  \/ \E f \in PatchFiles : LastLine # "minus" /\ f \notin ToSet(owner) /\ Write(L("diff", f, "plain"), f)
  \/ LastLine = "diff" /\ Write(L("mode", None, "plain"), Last(owner))
  \/ LastLine \in {"diff", "mode"} /\ Write(L("binary", None, "plain"), Last(owner))
  \/ LastLine \in {"diff", "mode"} /\ \E f \in {Last(owner), None} : Write(L("minus", f, "plain"), Last(owner))
  \/ LastLine = "minus" /\ \E f \in {Last(owner), None} :
       ~(f = None /\ Last(raw).file = None) /\ Write(L("plus", f, "plain"), Last(owner))
  \/ InHunk /\ HasSide("plus") /\ \E h \in Holds : Write(L("added", None, h), Last(owner))
  \/ InHunk /\ HasSide("minus") /\ Write(L("removed", None, "plain"), Last(owner))
  \/ InHunk /\ HasSide("minus") /\ \E f \in PatchFiles \cup {None} : Write(L("look-alike", f, "plain"), Last(owner))
  \/ InHunk /\ HasSide("plus") /\ \E f \in PatchFiles \cup {None} : Write(L("plus-alike", f, "plain"), Last(owner))
  \/ LastLine \in {"binary", "body"} /\ Write(L("body", None, "plain"), Last(owner))

PatchSpec == PatchInit /\ [][PatchNext]_patchVars

-----------------------------------------------------------------------------
(* parseFilePatches *)

EmptyEntry(f, reasons) == [file |-> f, added |-> <<>>, removed |-> 0, reasons |-> reasons]
State(files, open, diff, minus, pending) ==
  [files |-> files, open |-> open, diff |-> diff, minus |-> minus, pending |-> pending]
Marked(entry, reason) == [entry EXCEPT !.reasons = entry.reasons \cup {reason}]
OnLast(files, entry) == [files EXCEPT ![Len(files)] = entry]

\* markUninspectable, with ensureCurrent
Mark(s, reason) ==
  LET open  == s.open \/ s.diff # None
      files == IF open /\ ~s.open THEN Append(s.files, EmptyEntry(s.diff, {})) ELSE s.files
  IN  State(IF open THEN OnLast(files, Marked(Last(files), reason)) ELSE files,
            open, s.diff, s.minus, s.pending \cup {reason})

\* Mutant: a deleted file has no name of its own.
PlusWithoutMinus(s, f) ==
  IF f = None THEN [s EXCEPT !.open = FALSE]
  ELSE IF s.open /\ Last(s.files).file = f THEN s
  ELSE [s EXCEPT !.files = Append(@, EmptyEntry(f, s.pending)), !.open = TRUE]

\* A "+++" line, or content that reads like one: a deletion is attributed by the "---"
\* line before it.
PlusHeader(s, f) ==
  LET file == IF f # None THEN f ELSE s.minus IN
  IF file = None THEN [s EXCEPT !.open = FALSE]
  ELSE IF s.open /\ Last(s.files).file = file THEN s
  ELSE State(Append(s.files, EmptyEntry(file, s.pending)), TRUE, s.diff, s.minus, s.pending)

\* A "+" or a "-" line below the name lines.
CountLine(entry, l) ==
  IF l.k = "added" THEN [entry EXCEPT !.added = Append(entry.added, l.has)]
  ELSE [entry EXCEPT !.removed = entry.removed + 1]

ParseLine(s, l) ==
  IF l.k = "diff" THEN State(s.files, FALSE, l.file, None, {})
  ELSE IF l.k = "mode" THEN Mark(s, "MODE_CHANGE")
  ELSE IF l.k = "binary" THEN Mark(s, "BINARY")
  ELSE IF l.k \in {"plus", "plus-alike"} THEN PlusHeader(s, l.file)
  ELSE IF l.k \in {"minus", "look-alike"} THEN [s EXCEPT !.minus = l.file]
  ELSE IF l.k \in {"added", "removed"} /\ s.open THEN [s EXCEPT !.files = OnLast(s.files, CountLine(Last(s.files), l))]
  ELSE s

Unread == State(<<>>, FALSE, None, None, {})

\* The state of the loop after each line.
Reading(lines) ==
  LET st[n \in 0..Len(lines)] == IF n = 0 THEN Unread ELSE ParseLine(st[n - 1], lines[n]) IN st

ParseFilePatches(lines) == Reading(lines)[Len(lines)].files

-----------------------------------------------------------------------------
(* redactPatchPreview *)

\* lineHasCredentialContent
CredentialContent(has) == has \in {"structured", "literal", "interpolated"}

LeakyFiles(files) ==
  {files[k].file : k \in {j \in DOMAIN files : \E i \in DOMAIN files[j].added : CredentialContent(files[j].added[i])}}
BinaryFiles(files) == {files[k].file : k \in {j \in DOMAIN files : "BINARY" \in files[j].reasons}}

Walker(minus, suppress, binary, shown) ==
  [minus |-> minus, suppress |-> suppress, binary |-> binary, shown |-> shown]

\* Mutant: the suppression ends at the first line that is not an added one.
RedactShort(w, l, leaky, binary) ==
  IF l.k = "added" /\ w.suppress THEN Walker(w.minus, TRUE, w.binary, FALSE)
  ELSE Walker(IF l.k = "minus" THEN l.file ELSE w.minus,
              l.k = "plus" /\ (IF l.file # None THEN l.file ELSE w.minus) \in leaky,
              l.k \in {"binary", "body"}, l.k \notin {"binary", "body"})

RedactLine(w, l, leaky, binary) ==
  IF l.k = "diff" THEN Walker(None, FALSE, l.file \in binary, TRUE)
  ELSE IF l.k \in {"minus", "look-alike"} THEN Walker(l.file, FALSE, FALSE, TRUE)
  ELSE IF l.k \in {"plus", "plus-alike"}
       THEN LET file == IF l.file # None THEN l.file ELSE w.minus
            IN  Walker(w.minus, file \in leaky, file \in binary, TRUE)
  ELSE IF l.k = "binary" THEN Walker(w.minus, w.suppress, TRUE, FALSE)
  ELSE Walker(w.minus, w.suppress, w.binary, ~w.binary /\ ~(w.suppress /\ l.k = "added"))

Unwalked == Walker(None, FALSE, FALSE, FALSE)

\* The loop over the lines, with what it did with each of them.
Redaction(lines, leaky, binary) ==
  LET at[n \in 0..Len(lines)] == IF n = 0 THEN Unwalked ELSE RedactLine(at[n - 1], lines[n], leaky, binary) IN at

Preview(lines) ==
  LET files == ParseFilePatches(lines)
      walk  == Redaction(lines, LeakyFiles(files), BinaryFiles(files))
  IN  {n \in DOMAIN lines : walk[n].shown}

-----------------------------------------------------------------------------
(* deriveSecurityPosture and the typed credential-literal evidence *)

FoundIn(files, tests, shapes) ==
  \E k \in DOMAIN files : /\ (files[k].file \in TestFiles) = tests
                           /\ \E i \in DOMAIN files[k].added : files[k].added[i] \in shapes

Literals == {"literal", "interpolated"}

\* Mutant: what could not be read is looked at last.
PostureOrder(files) ==
  CASE FoundIn(files, FALSE, {"structured"}) -> "FAIL"
    [] FoundIn(files, TRUE, {"structured"}) \/ FoundIn(files, FALSE, Literals) -> "WARN"
    [] \E k \in DOMAIN files : files[k].reasons # {} -> "NOT_CHECKED"
    [] OTHER -> "PASS"

Posture(files) ==
  IF FoundIn(files, FALSE, {"structured"}) THEN "FAIL"
  ELSE IF \E k \in DOMAIN files : files[k].reasons # {} THEN "NOT_CHECKED"
  ELSE IF FoundIn(files, TRUE, {"structured"}) \/ FoundIn(files, FALSE, Literals) THEN "WARN"
  ELSE "PASS"

\* analyzeCredentialLiteralAssignments: the assignments with their decision.
Decision(file, has) ==
  IF has = "interpolated" THEN "UNDECIDED"
  ELSE IF has = "placeholder" THEN "EXCLUDED_PLACEHOLDER"
  ELSE IF file \in TestFiles THEN "EXCLUDED_TEST_FIXTURE"
  ELSE "FLAGGED_LITERAL"

Decisions(files) ==
  UNION {{Decision(files[k].file, files[k].added[i]) :
            i \in {j \in DOMAIN files[k].added : files[k].added[j] \in Literals \cup {"placeholder"}}} : k \in DOMAIN files}

\* Mutant: an undecided assignment does not stand in the way.
LiteralOutcomeLax(files) ==
  CASE Posture(files) = "FAIL" -> "FAIL"
    [] "FLAGGED_LITERAL" \in Decisions(files) -> "WARN"
    [] Posture(files) # "NOT_CHECKED" /\ Decisions(files) # {} -> "PASS"
    [] OTHER -> "NOT_CHECKED"

\* deriveConcernEvidence, for SECURITY.CREDENTIAL_LITERAL
LiteralOutcome(files) ==
  IF Posture(files) = "FAIL" THEN "FAIL"
  ELSE IF "FLAGGED_LITERAL" \in Decisions(files) THEN "WARN"
  ELSE IF Posture(files) # "NOT_CHECKED" /\ "UNDECIDED" \notin Decisions(files) /\ Decisions(files) # {} THEN "PASS"
  ELSE "NOT_CHECKED"

-----------------------------------------------------------------------------
(* Properties *)

LinesOf(f, k) == {i \in DOMAIN raw : raw[i].k = k /\ owner[i] = f}
Announced(f) == \E k \in {"plus", "mode", "binary"} : LinesOf(f, k) # {}
EntriesOf(files, f) == {k \in DOMAIN files : files[k].file = f}

Impersonated == \E i \in DOMAIN raw : raw[i].k = "plus-alike"

\* Every changed line is accounted to the file whose section it stands in, for new, changed,
\* deleted, renamed-mode and binary files in any order.  (A removed line that reads like a
\* file name header is the one the parser does not count; an added one moves what follows
\* it to another file or to none: see ContentIsNoHeader.)
ParsedByOwner ==
  LET files == ParseFilePatches(raw) IN
  ~Impersonated => \A f \in PatchFiles :
    /\ Cardinality(EntriesOf(files, f)) = IF Announced(f) THEN 1 ELSE 0
    /\ \A k \in EntriesOf(files, f) :
         /\ Len(files[k].added) = Cardinality(LinesOf(f, "added"))
         /\ files[k].removed = Cardinality(LinesOf(f, "removed"))
         /\ "BINARY" \in files[k].reasons <=> LinesOf(f, "binary") # {}

\* What the execution plan says of the parser, that content which begins with "++" cannot pose
\* as a header: what the section of a file adds is what the file's entry holds.
ContentIsNoHeader ==
  LET files == ParseFilePatches(raw) IN
  \A f \in PatchFiles : \A k \in EntriesOf(files, f) :
    Len(files[k].added) = Cardinality(LinesOf(f, "added") \cup LinesOf(f, "plus-alike"))

LooksLikeHeader == \E i \in DOMAIN raw : raw[i].k \in {"look-alike", "plus-alike"}
Leaks(f) == \E i \in LinesOf(f, "added") : CredentialContent(raw[i].has)

\* Where no content reads like a name line, no added line of a file with credential content
\* is shown in the preview, and nothing but the header of a binary file is; every other line
\* is shown.
PreviewHides ==
  ~LooksLikeHeader =>
    Preview(raw) = {i \in DOMAIN raw : /\ raw[i].k # "diff" => LinesOf(owner[i], "binary") = {}
                                       /\ raw[i].k = "added" => ~Leaks(owner[i])}

Worse == [PASS |-> 0, WARN |-> 1, NOT_CHECKED |-> 2, FAIL |-> 3]

\* More of a change never makes the posture look better, whatever could not be inspected.
PostureNeverImproves ==
  raw # <<>> => Worse[Posture(ParseFilePatches(Front(raw)))] <= Worse[Posture(ParseFilePatches(raw))]

\* A clean credential-literal record is about every assignment of the patch: each of them
\* is a placeholder or stands in a test, and nothing went unread (an added line that reads
\* like a name line does).
LiteralPassIsWhole ==
  ~Impersonated /\ LiteralOutcome(ParseFilePatches(raw)) = "PASS" =>
    /\ \A i \in DOMAIN raw : raw[i].k \notin {"mode", "binary"}
    /\ \A i \in DOMAIN raw : raw[i].k = "added" =>
         raw[i].has \in {"plain", "placeholder"} \/ (owner[i] \in TestFiles /\ raw[i].has # "interpolated")

\* The parser, the redacted preview, the literal scan and the posture read one patch alike.
PatchReadingIsSound == ParsedByOwner /\ PreviewHides /\ LiteralPassIsWhole /\ PostureNeverImproves
=============================================================================
