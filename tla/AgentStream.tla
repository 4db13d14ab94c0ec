----------------------------- MODULE AgentStream -----------------------------
(***************************************************************************)
(* The attempts of RunService.runAgentAttempt over a command line agent    *)
(* (native-cli, codex-cli, claude-code and antigravity-cli adapters): the  *)
(* child process prints and exits on its own, its callbacks fill a queue   *)
(* and wake the generator, and the run service takes one event at a time,  *)
(* with awaits of its own before it asks for the next.                     *)
(***************************************************************************)
EXTENDS Naturals, Sequences

CONSTANTS
  AgentKinds,     \* which adapters: "native", "codex", "claude", "antigravity"
  OutputLines,    \* what a line of output may be: "text", "call", "report", "failure", "noise",
                  \* or "falsy", JSON that is null, false, 0 or ""
  MaxOutput,      \* bound on the lines of one child
  MaxAgentAttempts \* bound on the attempts of one run

ASSUME StreamAssumption ==
  /\ AgentKinds \subseteq {"native", "codex", "claude", "antigravity"}
  /\ OutputLines \subseteq {"text", "call", "report", "failure", "noise", "falsy"}
  /\ MaxOutput \in Nat /\ MaxAgentAttempts \in Nat \ {0}

VARIABLES
  agentKind,      \* the adapter in use, "none" before the first attempt
  stream,         \* the session: child (none, running, failed to spawn, or its exit), lines
                  \* printed, queue, ended, whether SIGTERM was sent
  reader,         \* runAgentAttempt: attempts so far, where it stands, the event in hand
  requests,          \* the operator cancelled the run; a restart is pending
  told,           \* history: the events the child's output amounts to, and those taken
  strays          \* children of earlier attempts that still run

streamVars == <<agentKind, stream, reader, requests, told, strays>>

NewSession(c) == [child |-> c, printed |-> 0, queue |-> <<>>, ended |-> FALSE, signalled |-> FALSE]
NothingTold == [output |-> <<>>, taken |-> <<>>]

StreamInit ==
  /\ agentKind = "none"
  /\ stream = NewSession("none")
  /\ reader = [attempts |-> 0, at |-> "idle", inHand |-> "none"]
  /\ requests = [cancel |-> FALSE, restart |-> FALSE]
  /\ told = NothingTold
  /\ strays = {}

Over == {"idle", "finished", "failed", "cancelled", "restarted", "host died"}

-----------------------------------------------------------------------------
(* What a line becomes. *)

\* Whatever JSON the line holds is queued as the event, a falsy value too; a line that
\* does not parse is a message.
NativeEvents(line) ==
  CASE line = "call" -> <<"tool">> [] line = "report" -> <<"complete">>
    [] line = "failure" -> <<"error">> [] line = "falsy" -> <<"falsy">> [] OTHER -> <<"message">>

CodexEvents(line) ==
  CASE line = "call" -> <<"tool">> [] line = "report" -> <<"complete">>
    [] line = "failure" -> <<"error">> [] OTHER -> <<"message">>

\* A result is a usage report and a completion, whether or not it says it failed.
ClaudeEvents(line) ==
  CASE line = "call" -> <<"tool">> [] line \in {"report", "failure"} -> <<"usage", "complete">>
    [] OTHER -> <<"message">>

\* A successful result repeats the response first.
AntigravityEvents(line) ==
  CASE line = "call" -> <<"tool">> [] line = "report" -> <<"message", "complete">>
    [] line = "failure" -> <<"error">> [] OTHER -> <<"message">>

EventsOf(line) ==
  CASE agentKind = "native" -> NativeEvents(line) [] agentKind = "codex" -> CodexEvents(line)
    [] agentKind = "claude" -> ClaudeEvents(line) [] OTHER -> AntigravityEvents(line)

\* wake: whoever waits for an event looks again.
WakeReader == reader' = [reader EXCEPT !.at = IF @ = "asleep" THEN "ready" ELSE @]

\* push: the event is queued and whoever waits is woken.
Push(session, events) ==
  /\ stream' = [session EXCEPT !.queue = @ \o events]
  /\ told' = [told EXCEPT !.output = @ \o events]
  /\ WakeReader

-----------------------------------------------------------------------------
(* The run service opens a session and sends the prompt. *)

\* start, for the first prompt, a retry, a policy restart or a repair: the native
\* adapter spawns here, the others only in send.  Nothing waits for the child of
\* an earlier attempt.  A failed attempt of a cancelled run is not retried.
StartAgent(k) ==
  /\ reader.at \in {"idle", "finished", "failed", "restarted"}
  /\ reader.at = "failed" => ~requests.cancel
  /\ reader.attempts < MaxAgentAttempts
  /\ agentKind \in {"none", k} /\ agentKind' = k
  /\ reader' = [attempts |-> reader.attempts + 1, at |-> "sending", inHand |-> "none"]
  /\ stream' = NewSession(IF k = "native" THEN "running" ELSE "none")
  /\ strays' = IF stream.child = "running"
               THEN strays \union {[attempt |-> reader.attempts, left |-> reader.at,
                                    signalled |-> stream.signalled]}
               ELSE strays
  /\ told' = NothingTold
  /\ requests' = [requests EXCEPT !.restart = FALSE]

SendPrompt ==
  /\ reader.at = "sending"
  /\ stream' = [stream EXCEPT !.child = IF @ = "none" THEN "running" ELSE @]
  /\ reader' = [reader EXCEPT !.at = "ready"]
  /\ UNCHANGED <<agentKind, requests, told, strays>>

\* The command cannot be started: an error event, and the close of a child that
\* never ran will follow.  The native adapter has no listener, and the host dies.
SpawnFails ==
  /\ stream.child = "running" /\ stream.printed = 0
  /\ LET unborn == [stream EXCEPT !.child = "failed"]
     IN  IF agentKind = "native"
         THEN stream' = unborn /\ reader' = [reader EXCEPT !.at = "host died"] /\ UNCHANGED told
         ELSE Push(unborn, <<"error">>)
  /\ UNCHANGED <<agentKind, requests, strays>>

-----------------------------------------------------------------------------
(* The child. *)

PrintLine(line) ==
  /\ stream.child = "running" /\ stream.printed < MaxOutput
  /\ Push([stream EXCEPT !.printed = @ + 1], EventsOf(line))
  /\ UNCHANGED <<agentKind, requests, strays>>

\* Mutant: a child that exits without an error does not wake the generator.
CloseQuietly(code) ==
  /\ stream.child = "running" \/ (stream.child = "failed" /\ code = "nonzero" /\ agentKind # "native")
  /\ LET closed == [stream EXCEPT !.child = code, !.ended = TRUE]
     IN  IF code = "nonzero" THEN Push(closed, <<"error">>)
         ELSE stream' = closed /\ UNCHANGED <<told, reader>>
  /\ UNCHANGED <<agentKind, requests, strays>>

\* close: the session has ended, an exit code other than zero is an error event.
CloseChild(code) ==
  /\ stream.child = "running" \/ (stream.child = "failed" /\ code = "nonzero" /\ agentKind # "native")
  /\ LET closed == [stream EXCEPT !.child = code, !.ended = TRUE]
     IN  IF code = "nonzero" THEN Push(closed, <<"error">>)
         ELSE stream' = closed /\ WakeReader /\ UNCHANGED told
  /\ UNCHANGED <<agentKind, requests, strays>>

StrayCloses(s) ==
  /\ s \in strays /\ strays' = strays \ {s}
  /\ UNCHANGED <<agentKind, stream, reader, requests, told>>

-----------------------------------------------------------------------------
(* The generator of the adapter and the loop of runAgentAttempt. *)

\* A falsy event is shifted and not yielded: the generator goes to wait, whatever
\* else is queued and whether or not the session has ended.
PassOver ==
  /\ reader.at = "ready" /\ stream.queue # <<>> /\ Head(stream.queue) = "falsy"
  /\ stream' = [stream EXCEPT !.queue = Tail(@)]
  /\ reader' = [reader EXCEPT !.at = "asleep", !.inHand = "falsy"]
  /\ told' = [told EXCEPT !.taken = Append(@, "falsy")]
  /\ UNCHANGED <<agentKind, requests, strays>>

\* The queue has an event: the flag is looked at, and the child of a cancelled
\* run is sent SIGTERM.
TakeEvent ==
  /\ reader.at = "ready" /\ stream.queue # <<>> /\ Head(stream.queue) # "falsy"
  /\ stream' = [stream EXCEPT !.queue = Tail(@), !.signalled = @ \/ requests.cancel]
  /\ reader' = [reader EXCEPT !.inHand = Head(stream.queue),
                              !.at = IF requests.cancel THEN "cancelled" ELSE "handling"]
  /\ told' = [told EXCEPT !.taken = Append(@, Head(stream.queue))]
  /\ UNCHANGED <<agentKind, requests, strays>>

AfterEvent == IF reader.inHand = "error" THEN "failed"
              ELSE IF requests.restart THEN "restarted" ELSE "ready"

\* Mutant: a pending restart leaves the loop without ending the session.
LeaveForRestart ==
  /\ reader.at = "handling"
  /\ reader' = [reader EXCEPT !.at = AfterEvent]
  /\ UNCHANGED <<agentKind, stream, requests, told, strays>>

\* The event has been recorded and applied: an error event throws, a pending
\* restart cancels the session and leaves the loop.
HandleEvent ==
  /\ reader.at = "handling"
  /\ reader' = [reader EXCEPT !.at = AfterEvent]
  /\ stream' = [stream EXCEPT !.signalled = @ \/ AfterEvent = "restarted"]
  /\ UNCHANGED <<agentKind, requests, told, strays>>

\* A write of the event, the graph or the decision, awaited for any event, throws:
\* the attempt fails and nobody signals the child.
HandlingThrows ==
  /\ reader.at = "handling"
  /\ reader' = [reader EXCEPT !.at = "failed"]
  /\ UNCHANGED <<agentKind, stream, requests, told, strays>>

\* Nothing is queued and the session has not ended: the generator waits.
AwaitEvent ==
  /\ reader.at = "ready" /\ stream.queue = <<>> /\ ~stream.ended
  /\ reader' = [reader EXCEPT !.at = "asleep", !.inHand = "none"]
  /\ UNCHANGED <<agentKind, stream, requests, told, strays>>

\* Mutant: the generator returns as soon as the session has ended.
DrainNothing ==
  /\ reader.at = "ready" /\ stream.ended
  /\ reader' = [reader EXCEPT !.at = "finished"]
  /\ UNCHANGED <<agentKind, stream, requests, told, strays>>

\* Nothing is queued and the session has ended: the generator returns.
Drained ==
  /\ reader.at = "ready" /\ stream.queue = <<>> /\ stream.ended
  /\ reader' = [reader EXCEPT !.at = "finished"]
  /\ UNCHANGED <<agentKind, stream, requests, told, strays>>

\* cancel only sets a flag: the session is not told until its next event.
FlagCancelled ==
  /\ reader.at \notin Over /\ ~requests.cancel
  /\ requests' = [requests EXCEPT !.cancel = TRUE]
  /\ UNCHANGED <<agentKind, stream, reader, told, strays>>

\* A mode change that can only be enforced by a restart becomes pending.
AskRestart ==
  /\ reader.at \in {"sending", "ready", "asleep", "handling"} /\ ~requests.restart
  /\ requests' = [requests EXCEPT !.restart = TRUE]
  /\ UNCHANGED <<agentKind, stream, reader, told, strays>>

StreamNext ==
  /\ reader.at # "host died"
  /\ \/ \E k \in AgentKinds : StartAgent(k)
     \/ \E line \in OutputLines : PrintLine(line)
     \/ \E code \in {"zero", "nonzero"} : CloseChild(code)
     \/ \E s \in strays : StrayCloses(s)
     \/ SendPrompt \/ SpawnFails \/ PassOver \/ TakeEvent \/ HandleEvent \/ HandlingThrows
     \/ AwaitEvent \/ Drained
     \/ FlagCancelled \/ AskRestart

StreamSpec == StreamInit /\ [][StreamNext]_streamVars

-----------------------------------------------------------------------------
(* Properties. *)

\* The generator never sleeps over something it should act on: whichever callback
\* of the child ran last, before or after the generator began to wait, a queued
\* event or the end of the session has woken it.  The one exception is what the code
\* does after a falsy event of the native adapter: there it waits over whatever is left
\* until the child is next heard of, and for ever if the session has already ended.
NoLostWakeup ==
  reader.at = "asleep" =>
    \/ stream.queue = <<>> /\ ~stream.ended
    \/ agentKind = "native" /\ reader.inHand = "falsy"

\* An attempt that ends without a throw and without a restart has seen everything:
\* the child has exited with zero, every event of its output was taken in order (a
\* falsy one only to be passed over), and none of them reported an error, however
\* the exit raced the last lines.
FinishedIsWhole ==
  reader.at = "finished" =>
    /\ stream.child = "zero" /\ told.taken = told.output
    /\ \A i \in DOMAIN told.taken : told.taken[i] # "error"

\* When a new attempt begins in the worktree, a child of an earlier one that still
\* runs has been sent SIGTERM, unless that attempt threw, on the agent's own error
\* event or while it handled another: only then is the child left as it is.
StrayWasTold == \A s \in strays : s.signalled \/ s.left = "failed"

\* A session's stream from the child's callbacks to the loop that consumes it.
StreamIsSound == NoLostWakeup /\ FinishedIsWhole /\ StrayWasTold
================================================================================
