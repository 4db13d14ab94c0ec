------------------------------ MODULE ScannerRun ------------------------------
(***************************************************************************)
(* The two external scanners: OpenGrepAdapter and OsvScannerAdapter of     *)
(* src/infrastructure/providers.  OpenGrep examines its targets and its    *)
(* rules before, at and after the launch; OSV-Scanner's answer is a        *)
(* document that has to account for itself.  Meanwhile the disk changes.   *)
(***************************************************************************)
EXTENDS Integers, Sequences, FiniteSets, FiniteSetsExt

CONSTANTS ScanFiles,       \* the changed files, 1..n, in the order they are examined
          ScanClass,       \* file -> its language class
          RuleClasses,     \* the classes the manifest's rules apply to
          ScanDocuments,   \* what OpenGrep may print: [scanned, findings, trouble]
          MaxDiskWrites,
          VulnerabilitySets, GroupLists, MaxDocItems   \* what OSV-Scanner may print

\* The validated targets are a list, and a scan without a target is refused before it starts.
ASSUME ScanAssumption ==
  Cardinality(ScanFiles) \in Nat \ {0} /\ ScanFiles = 1..Cardinality(ScanFiles)

VARIABLES scanDisk,   \* [stamp: file -> its ctime, regular: file -> BOOLEAN, rules, swapped, writes]
          scan    \* the adapter's call

scanVars == <<scanDisk, scan>>

\* An OSV document is a sequence of results, each a source and its packages; a package is the set
\* of its vulnerability ids and the list of its groups, each a list of ids.
NoScan == [step |-> "idle", at |-> 1, initial |-> <<>>, launch |-> <<>>, final |-> <<>>,
           readTargets |-> <<>>, readRules |-> 0, document |-> <<>>, outcome |-> "none", exit |-> 0]

ScanInit ==
  /\ scanDisk = [stamp |-> [f \in ScanFiles |-> 0], regular |-> [f \in ScanFiles |-> TRUE], rules |-> 0,
             swapped |-> FALSE, writes |-> 0]
  /\ scan = NoScan

Ends(outcome) == scan' = [scan EXCEPT !.step = "ended", !.outcome = outcome]
OpenGrep == {"initial", "rules1", "probe", "launch", "rules2", "run", "reading", "final", "rules3"}

\* Someone writes a target (a later ctime even if the bytes come back), replaces it by something
\* that is no regular file, or edits the rules (external).
WriteTarget(f, regular) ==
  /\ scan.step \in OpenGrep /\ scanDisk.writes < MaxDiskWrites
  /\ scanDisk' = [scanDisk EXCEPT !.stamp[f] = @ + 1, !.regular[f] = regular, !.writes = @ + 1]
  /\ UNCHANGED scan
WriteRules(v) ==
  /\ scan.step \in OpenGrep /\ scanDisk.writes < MaxDiskWrites /\ v # scanDisk.rules
  /\ scanDisk' = [scanDisk EXCEPT !.rules = v, !.writes = @ + 1, !.swapped = @ \/ (v = 0)]
  /\ UNCHANGED scan

-----------------------------------------------------------------------------
(* OpenGrepAdapter.analyze *)

\* Cancelled before launch, a mismatched capability, an unsafe path, or too many or too long
\* arguments.
Refuse == scan.step = "idle" /\ Ends("REFUSED") /\ UNCHANGED scanDisk
StartScan ==
  /\ scan.step = "idle"
  /\ scan' = [scan EXCEPT !.step = "initial"] /\ UNCHANGED scanDisk

\* validateTargets: one file's identity, size and times at a time
After3(step) == CASE step = "initial" -> "rules1" [] step = "launch" -> "rules2" [] step = "final" -> "rules3"

\* Mutant: whether the file is the one validated before is compared by name only.
SameByName(seen, earlier) == TRUE

\* sameTargets
SameTargets(seen, earlier) == seen = earlier

EarlierTargets(step) == CASE step = "launch" -> scan.initial [] step = "final" -> scan.launch
ValidateTarget ==
  LET seen == Append(scan[scan.step], scanDisk.stamp[scan.at]) IN
  /\ scan.step \in {"initial", "launch", "final"}
  /\ IF ~scanDisk.regular[scan.at] THEN Ends("REFUSED")
     ELSE IF scan.at < Cardinality(ScanFiles)
          THEN scan' = [scan EXCEPT ![scan.step] = seen, !.at = @ + 1]
          ELSE IF scan.step # "initial" /\ ~SameTargets(seen, EarlierTargets(scan.step)) THEN Ends("REFUSED")
               ELSE scan' = [scan EXCEPT ![scan.step] = seen, !.at = 1, !.step = After3(scan.step)]
  /\ UNCHANGED scanDisk

\* verifyRulesFile, against the digest the operator configured
VerifyRules ==
  /\ scan.step \in {"rules1", "rules2"}
  /\ IF scanDisk.rules # 0 THEN Ends("REFUSED")
     ELSE scan' = [scan EXCEPT !.step = IF @ = "rules1" THEN "probe" ELSE "run"]
  /\ UNCHANGED scanDisk
RulesUnreadable ==
  scan.step \in {"rules1", "rules2", "rules3"} /\ Ends("REFUSED") /\ UNCHANGED scanDisk

\* performProbe: the pinned version, exactly
ScannerProbe(pinned) ==
  /\ scan.step = "probe"
  /\ IF pinned THEN scan' = [scan EXCEPT !.step = "launch"] ELSE Ends("UNAVAILABLE")
  /\ UNCHANGED scanDisk

\* The scanner (external) reads the rules, then its targets one after another.
ReadRules ==
  /\ scan.step = "run"
  /\ scan' = [scan EXCEPT !.step = "reading", !.readRules = scanDisk.rules] /\ UNCHANGED scanDisk
ReadTarget ==
  /\ scan.step = "reading" /\ Len(scan.readTargets) < Cardinality(ScanFiles)
  /\ scan' = [scan EXCEPT !.readTargets = Append(@, scanDisk.stamp[Len(@) + 1])] /\ UNCHANGED scanDisk

\* The structural process facts come first: timed out, aborted, too much output, not exit 0.
ProcessFails(outcome) ==
  scan.step = "reading" /\ Ends(outcome) /\ UNCHANGED scanDisk
ScanExits(d) ==
  /\ scan.step = "reading" /\ Len(scan.readTargets) = Cardinality(ScanFiles)
  /\ scan' = [scan EXCEPT !.step = "final", !.document = <<d>>] /\ UNCHANGED scanDisk

\* parseOutput: errors and skipped rules are failures; a scanned file was a target; a finding lies
\* in a scanned file of a class its rule is for.
Parses(d) ==
  /\ d.trouble = "none" /\ d.scanned \subseteq ScanFiles
  /\ \A x \in d.findings : x.file \in d.scanned /\ ScanClass[x.file] \in RuleClasses /\ x.severity = "manifest"
ScanReported(d) == {x \in d.findings : ~x.ignored}
ScanCoverage(d, class) ==
  LET files == {f \in ScanFiles : ScanClass[f] = class} IN
  CASE class \notin RuleClasses \/ files \cap d.scanned = {} -> "UNSUPPORTED"
    [] files \subseteq d.scanned -> "FULL"
    [] OTHER -> "PARTIAL"

\* Mutant: the rules are not read again after the scan.
ParseTrusting ==
  /\ scan.step = "rules3"
  /\ Ends(IF Parses(scan.document[1]) THEN "COMPLETED" ELSE "MALFORMED_OUTPUT")
  /\ UNCHANGED scanDisk

ParseScan ==
  LET d == scan.document[1] IN
  /\ scan.step = "rules3"
  /\ Ends(IF scanDisk.rules # 0 THEN "REFUSED"
          ELSE IF d.trouble \in {"errors", "skipped_rules"} THEN "PROCESS_ERROR"
          ELSE IF Parses(d) THEN "COMPLETED" ELSE "MALFORMED_OUTPUT")
  /\ UNCHANGED scanDisk

-----------------------------------------------------------------------------
(* OsvScannerAdapter: the lockfiles here are ScanFiles.  prepareInput and the probe fail closed; *)
(* the document is then built item by item.                                                      *)

OsvPrepared == scan.step = "idle" /\ scan' = [scan EXCEPT !.step = "osv"] /\ UNCHANGED scanDisk
OsvRefused(outcome) == scan.step = "idle" /\ Ends(outcome) /\ UNCHANGED scanDisk

Results == scan.document
DocItems ==
  Len(Results)
    + MapThenSumSet(LAMBDA r : Len(Results[r].packages)
                      + MapThenSumSet(LAMBDA k : Len(Results[r].packages[k].groups), DOMAIN Results[r].packages),
                    DOMAIN Results)
Prints(doc) ==
  /\ scan.step = "osv" /\ DocItems < MaxDocItems
  /\ scan' = [scan EXCEPT !.document = doc] /\ UNCHANGED scanDisk
PrintSource(s) == scan.step = "osv" /\ Prints(Append(Results, [source |-> s, packages |-> <<>>]))
PrintPackage(v) ==
  /\ scan.step = "osv" /\ Results # <<>>
  /\ Prints([Results EXCEPT ![Len(Results)].packages = Append(@, [vulns |-> v, groups |-> <<>>])])
PrintGroup(g) ==
  /\ scan.step = "osv" /\ Results # <<>>
  /\ LET n == Len(Results) k == Len(Results[n].packages) IN
       k > 0 /\ Prints([Results EXCEPT ![n].packages[k].groups = Append(@, g)])

Packages(doc) == UNION {{doc[i].packages[k] : k \in DOMAIN doc[i].packages} : i \in DOMAIN doc}
Members(list) == {list[i] : i \in DOMAIN list}

\* Mutant: a group is not asked whether another one has named the id.
GroupsOverlap(pkg) ==
  \A i \in DOMAIN pkg.groups : Members(pkg.groups[i]) \subseteq pkg.vulns /\ Len(pkg.groups[i]) = Cardinality(Members(pkg.groups[i]))

\* Every vulnerability is in exactly one group; a clean package has none.
GroupsPartition(pkg) ==
  /\ \A i \in DOMAIN pkg.groups :
       /\ Members(pkg.groups[i]) # {} /\ Members(pkg.groups[i]) \subseteq pkg.vulns
       /\ Len(pkg.groups[i]) = Cardinality(Members(pkg.groups[i]))
       /\ \A j \in DOMAIN pkg.groups : j # i => Members(pkg.groups[i]) \cap Members(pkg.groups[j]) = {}
  /\ UNION {Members(pkg.groups[i]) : i \in DOMAIN pkg.groups} = pkg.vulns

Vulnerable(doc) == \E pkg \in Packages(doc) : pkg.vulns # {}

\* parseOutput
OsvAccepts(doc, exit) ==
  /\ \A i \in DOMAIN doc : doc[i].source \in ScanFiles /\ \A j \in DOMAIN doc : doc[i].source = doc[j].source => i = j
  /\ {doc[i].source : i \in DOMAIN doc} = ScanFiles
  /\ Packages(doc) # {}
  /\ \A pkg \in Packages(doc) : GroupsPartition(pkg)
  /\ (exit = 1) = Vulnerable(doc)

\* One finding per group, under its canonical id.
OsvFindings(doc) ==
  UNION {UNION {{[file |-> doc[i].source, package |-> k, rule |-> Min(Members(doc[i].packages[k].groups[g])), group |-> g] :
                   g \in DOMAIN doc[i].packages[k].groups} :
                 k \in DOMAIN doc[i].packages} :
          i \in DOMAIN doc}

OsvExits(exit) ==
  /\ scan.step = "osv"
  /\ scan' = [scan EXCEPT !.step = "osvEnded", !.exit = exit,
                          !.outcome = IF exit = 128 THEN "UNSUPPORTED"
                                      ELSE IF exit \notin {0, 1} THEN "PROCESS_ERROR"
                                      ELSE IF OsvAccepts(Results, exit) THEN "COMPLETED"
                                      ELSE "MALFORMED_OUTPUT"]
  /\ UNCHANGED scanDisk

ScanNext ==
  \/ Refuse \/ StartScan \/ ValidateTarget \/ VerifyRules \/ RulesUnreadable \/ ReadRules \/ ReadTarget \/ ParseScan
  \/ \E f \in ScanFiles, r \in BOOLEAN : WriteTarget(f, r)
  \/ \E v \in 0..1 : WriteRules(v)
  \/ \E b \in BOOLEAN : ScannerProbe(b)
  \/ \E o \in {"TIMED_OUT", "REFUSED", "MALFORMED_OUTPUT", "PROCESS_ERROR"} : ProcessFails(o)
  \/ \E d \in ScanDocuments : ScanExits(d)
  \/ OsvPrepared \/ \E o \in {"REFUSED", "UNSUPPORTED", "UNAVAILABLE"} : OsvRefused(o)
  \/ \E s \in ScanFiles \cup {0} : PrintSource(s)
  \/ \E v \in VulnerabilitySets : PrintPackage(v)
  \/ \E g \in GroupLists : PrintGroup(g)
  \/ \E e \in {0, 1, 2, 128} : OsvExits(e)

ScanSpec == ScanInit /\ [][ScanNext]_scanVars

-----------------------------------------------------------------------------
(* Properties *)

OpenGrepCompleted == scan.step = "ended" /\ scan.outcome = "COMPLETED"

\* A completed scan read exactly the files that were validated before it, whatever was written in
\* between and however it was put back.
TargetsReadAreValidated ==
  OpenGrepCompleted => scan.readTargets = scan.initial /\ scan.readTargets = scan.final

\* ... and rules that were the audited ones, unless rules were swapped and swapped back, which the
\* digest before and after cannot show.
RulesReadAreAudited == OpenGrepCompleted => scanDisk.swapped \/ scan.readRules = 0

\* An accepted OSV document loses nothing and repeats nothing: the findings of a package name each
\* of its vulnerabilities once, every lockfile is accounted for, and the exit code agrees.
OsvAccountsForAll ==
  scan.step = "osvEnded" /\ scan.outcome = "COMPLETED" =>
    /\ \A f \in ScanFiles : \E i \in DOMAIN Results : Results[i].source = f
    /\ \A i \in DOMAIN Results : \A k \in DOMAIN Results[i].packages :
         LET pkg == Results[i].packages[k] IN
         \A v \in pkg.vulns : Cardinality({x \in OsvFindings(Results) :
            x.file = Results[i].source /\ x.package = k /\ v \in Members(pkg.groups[x.group])}) = 1
    /\ (scan.exit = 1) = (OsvFindings(Results) # {})

\* A completed scan is about the bytes and the rules that were checked, and complete.
ScanIsOfTheCandidate == TargetsReadAreValidated /\ RulesReadAreAudited /\ OsvAccountsForAll
=============================================================================
