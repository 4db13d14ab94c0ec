---------------------------- MODULE ProcessControl ----------------------------
(***************************************************************************)
(* runProcess (src/infrastructure/process-utils.ts): one child process of  *)
(* the harness, its descendants, the timers and signals that bound it and  *)
(* the promise the caller awaits.  On Windows the tree is killed by        *)
(* taskkill, which may find nothing or fail.                               *)
(***************************************************************************)
EXTENDS Naturals, FiniteSets

CONSTANT Platforms   \* {"posix", "win32"}

VARIABLES os,       \* [child, kin, code, forced]: the child, whether descendants of its group
                    \* live, the code of its own exit, and whether the harness had signalled it
          spawned      \* the state of the call: its options, timers, flags and promise

procVars == <<os, spawned>>

Reasons == {"TIMEOUT", "ABORT", "OUTPUT_LIMIT"}
NotYet == [platform |-> "none", isolate |-> FALSE, reason |-> "none", tree |-> "none", timeout |-> FALSE, kill |-> FALSE,
           exit |-> FALSE, exitSeen |-> FALSE, closeSeen |-> FALSE, promise |-> "none", code |-> 0]

ProcInit == os = [child |-> "none", kin |-> FALSE, code |-> 0, forced |-> FALSE] /\ spawned = NotYet

Spawn(platform, isolate) ==
  /\ spawned.promise = "none"
  /\ \/ /\ os' = [os EXCEPT !.child = "running"]
        /\ spawned' = [NotYet EXCEPT !.platform = platform, !.isolate = isolate, !.promise = "pending", !.timeout = TRUE]
     \/ spawned' = [NotYet EXCEPT !.promise = "rejected"] /\ UNCHANGED os   \* the error event

Fork == os.child = "running" /\ ~os.kin /\ os' = [os EXCEPT !.kin = TRUE] /\ UNCHANGED spawned
KinEnds == os.kin /\ os' = [os EXCEPT !.kin = FALSE] /\ UNCHANGED spawned
ChildExits(code) ==
  /\ os.child = "running" /\ os' = [os EXCEPT !.child = "exited", !.code = code] /\ UNCHANGED spawned

-----------------------------------------------------------------------------
\* SIGKILL: a running child has no exit code of its own then.
Dead(o) == [o EXCEPT !.forced = @ \/ o.child = "running", !.child = "exited",
                     !.code = IF o.child = "running" THEN 1 ELSE @]

\* killTree, and what treeKillPromise is afterwards
KillTree(o, c) ==
  CASE c.platform = "win32" -> {[os |-> [Dead(o) EXCEPT !.kin = FALSE], tree |-> "done"],
                              [os |-> o, tree |-> "done"]}
    [] c.isolate -> {[os |-> [Dead(o) EXCEPT !.kin = FALSE], tree |-> "done"]}
    [] OTHER -> {[os |-> Dead(o), tree |-> "none"]}

\* Mutant: the isolated child is asked to end as well, not killed.
AskAlways(reason) ==
  /\ os' = [os EXCEPT !.forced = @ \/ os.child = "running"]
  /\ spawned' = [spawned EXCEPT !.reason = reason, !.timeout = @ /\ reason # "TIMEOUT", !.kill = TRUE]

\* terminate: isolated, the whole group at once; otherwise the child is asked, which it may
\* ignore or answer by an orderly exit, and the kill timer is armed.
Terminate(reason) ==
  IF spawned.isolate
  THEN \E k \in KillTree(os, spawned) :
         os' = k.os /\ spawned' = [spawned EXCEPT !.reason = reason, !.timeout = @ /\ reason # "TIMEOUT", !.tree = k.tree]
  ELSE /\ os' = [os EXCEPT !.forced = @ \/ os.child = "running"]
       /\ spawned' = [spawned EXCEPT !.reason = reason, !.timeout = @ /\ reason # "TIMEOUT", !.kill = TRUE]

Pending == spawned.promise = "pending"
TimeoutFires ==
  /\ Pending /\ spawned.timeout
  /\ IF spawned.reason = "none" THEN Terminate("TIMEOUT")
     ELSE spawned' = [spawned EXCEPT !.timeout = FALSE] /\ UNCHANGED os
Stopped(reason) ==   \* the caller's signal, or one byte too many
  /\ Pending /\ spawned.reason = "none"
  /\ reason = "OUTPUT_LIMIT" => os.child = "running" \/ os.kin
  /\ Terminate(reason)
KillTimerFires ==
  /\ Pending /\ spawned.kill
  /\ \E k \in KillTree(os, spawned) : os' = k.os /\ spawned' = [spawned EXCEPT !.kill = FALSE]

\* Mutant: the exit of the child ends the wait for it, and its group lives on.
ExitSpares ==
  /\ Pending /\ os.child = "exited" /\ ~spawned.exitSeen
  /\ spawned' = [spawned EXCEPT !.exitSeen = TRUE, !.exit = TRUE] /\ UNCHANGED os
\* Mutant: only the closing of the pipes is waited for.
ExitUnbounded ==
  /\ Pending /\ os.child = "exited" /\ ~spawned.exitSeen
  /\ IF spawned.isolate /\ spawned.tree = "none"
     THEN \E k \in KillTree(os, spawned) :
            os' = k.os /\ spawned' = [spawned EXCEPT !.exitSeen = TRUE, !.tree = k.tree]
     ELSE spawned' = [spawned EXCEPT !.exitSeen = TRUE] /\ UNCHANGED os

\* The exit event: stragglers of an isolated group are killed and the wait is bounded.
ExitEvent ==
  /\ Pending /\ os.child = "exited" /\ ~spawned.exitSeen
  /\ IF spawned.isolate /\ spawned.tree = "none"
     THEN \E k \in KillTree(os, spawned) :
            os' = k.os /\ spawned' = [spawned EXCEPT !.exitSeen = TRUE, !.exit = TRUE, !.tree = k.tree]
     ELSE spawned' = [spawned EXCEPT !.exitSeen = TRUE, !.exit = TRUE] /\ UNCHANGED os

\* The close event, once nobody holds the pipes, or the exit timer: the promise settles.
ResolveCall ==
  /\ Pending /\ spawned.exitSeen /\ (~os.kin \/ spawned.exit)
  /\ spawned' = [spawned EXCEPT !.promise = "resolved", !.code = os.code, !.timeout = FALSE,
                          !.kill = FALSE, !.exit = FALSE]
  /\ UNCHANGED os

ProcNext ==
  \/ \E p \in Platforms, isolate \in BOOLEAN : Spawn(p, isolate)
  \/ Fork \/ KinEnds \/ \E code \in {0, 2} : ChildExits(code)
  \/ TimeoutFires \/ (\E r \in Reasons \ {"TIMEOUT"} : Stopped(r)) \/ KillTimerFires
  \/ ExitEvent \/ ResolveCall

ProcSpec == ProcInit /\ [][ProcNext]_procVars

-----------------------------------------------------------------------------
(* Properties *)

\* When the call of an isolated process returns, no member of its process group is left.
NoGroupSurvives ==
  spawned.promise = "resolved" /\ spawned.isolate /\ spawned.platform = "posix" => os.child = "exited" /\ ~os.kin

\* A zero exit code of an isolated process is the process's own, reached before the harness
\* stopped it.  (Not isolated, a program that answers SIGTERM by a clean exit returns zero.)
ForcedIsNeverSuccess ==
  spawned.promise = "resolved" /\ spawned.isolate /\ spawned.platform = "posix" /\ spawned.code = 0 => ~os.forced

\* The caller is never left waiting: something that ends the wait is always still to come.
NeverStranded ==
  Pending => spawned.timeout \/ spawned.kill \/ spawned.exit \/ (os.child = "exited" /\ ~spawned.exitSeen)
             \/ spawned.platform = "win32"

\* How runProcess ends, whatever order timer, abort, exit and close come in.
ProcessEndsCleanly == NoGroupSurvives /\ ForcedIsNeverSuccess /\ NeverStranded
=============================================================================
