----------------------------- MODULE NativeLogin -----------------------------
(* NativeAgentAuthManager: the login attempts MAF starts with a provider's own CLI. *)
(* The expiry timer, the operator's cancel or disconnect, a poll that finds the     *)
(* session, and the spawn, error and close events of the CLI end an attempt in any  *)
(* order.  Every handler is synchronous, so one step each.                          *)
EXTENDS Naturals, FiniteSets

CONSTANTS LoginProviders, LoginAttempts, NoAttempt

ASSUME LoginAssumption == NoAttempt \notin LoginAttempts /\ NoAttempt \notin LoginProviders

VARIABLES attempt,        \* attempts: status, provider, the CLI process, the armed timer
          activeAttempt,  \* activeAttemptByProvider
          disconnected,   \* disconnectedFromMaf
          signedIn        \* environment: what the CLI's status command reports

loginVars == <<attempt, activeAttempt, disconnected, signedIn>>

LoginOpen == {"STARTING_LOGIN", "WAITING_FOR_USER"}
LoginTerminal == {"CONNECTED", "LOGIN_CANCELLED", "LOGIN_FAILED", "LOGIN_EXPIRED"}
Unused == [status |-> "NONE", provider |-> NoAttempt, process |-> "none", timer |-> FALSE]

LoginInit ==
  /\ attempt = [a \in LoginAttempts |-> Unused]
  /\ activeAttempt = [p \in LoginProviders |-> NoAttempt]
  /\ disconnected = {}
  /\ signedIn = {}

\* terminal: the timer is cleared and the provider is free again.
TerminalKeepsTimer(a, status, process) ==
  /\ attempt' = [attempt EXCEPT ![a].status = status, ![a].process = process]
  /\ activeAttempt' = [activeAttempt EXCEPT ![attempt[a].provider] = NoAttempt]
Terminal(a, status, process) ==
  /\ attempt' = [attempt EXCEPT ![a].status = status, ![a].process = process, ![a].timer = FALSE]
  /\ activeAttempt' = [activeAttempt EXCEPT ![attempt[a].provider] = NoAttempt]

Killed(a) == IF attempt[a].process \in {"starting", "running"} THEN "killed" ELSE attempt[a].process

\* beginLogin: one attempt per provider at a time; the timer is armed with the process.
BeginLogin(p, a) ==
  /\ activeAttempt[p] = NoAttempt
  /\ attempt[a].status = "NONE"
  /\ disconnected' = disconnected \ {p}
  /\ UNCHANGED signedIn
  /\ \/ /\ attempt' = [attempt EXCEPT ![a] =
             [status |-> "STARTING_LOGIN", provider |-> p, process |-> "starting", timer |-> TRUE]]
        /\ activeAttempt' = [activeAttempt EXCEPT ![p] = a]
     \/ \* the runner throws: fail() ends the attempt at once
        /\ attempt' = [attempt EXCEPT ![a] = [Unused EXCEPT !.status = "LOGIN_FAILED", !.provider = p]]
        /\ UNCHANGED activeAttempt

SpawnEvent(a) ==
  /\ attempt[a].process = "starting"
  /\ attempt' = [attempt EXCEPT ![a].process = "running",
       ![a].status = IF @ = "STARTING_LOGIN" THEN "WAITING_FOR_USER" ELSE @]
  /\ UNCHANGED <<activeAttempt, disconnected, signedIn>>

ErrorEvent(a) ==
  /\ attempt[a].process = "starting"
  /\ IF attempt[a].status \in LoginTerminal
     THEN attempt' = [attempt EXCEPT ![a].process = "gone"] /\ UNCHANGED activeAttempt
     ELSE Terminal(a, "LOGIN_FAILED", "gone")
  /\ UNCHANGED <<disconnected, signedIn>>

\* finish: the exit of the CLI, checked against its status command.
FinishAlways(a, code) ==
  /\ attempt[a].process \in {"running", "killed"}
  /\ Terminal(a, IF code = 0 /\ attempt[a].provider \in signedIn THEN "CONNECTED"
                 ELSE "LOGIN_FAILED", "gone")
  /\ UNCHANGED <<disconnected, signedIn>>
Finish(a, code) ==
  /\ attempt[a].process \in {"running", "killed"}
  /\ IF attempt[a].status \in LoginTerminal
     THEN attempt' = [attempt EXCEPT ![a].process = "gone"] /\ UNCHANGED activeAttempt
     ELSE Terminal(a, IF code = 0 /\ attempt[a].provider \in signedIn THEN "CONNECTED"
                      ELSE "LOGIN_FAILED", "gone")
  /\ UNCHANGED <<disconnected, signedIn>>

Expire(a) ==
  /\ attempt[a].timer
  /\ IF attempt[a].status \in LoginTerminal
     THEN attempt' = [attempt EXCEPT ![a].timer = FALSE] /\ UNCHANGED activeAttempt
     ELSE Terminal(a, "LOGIN_EXPIRED", Killed(a))
  /\ UNCHANGED <<disconnected, signedIn>>

PollLogin(a) ==
  /\ attempt[a].status \in LoginOpen /\ attempt[a].provider \in signedIn
  /\ Terminal(a, "CONNECTED", attempt[a].process)
  /\ UNCHANGED <<disconnected, signedIn>>

CancelLogin(a) ==
  /\ attempt[a].status \in LoginOpen
  /\ Terminal(a, "LOGIN_CANCELLED", Killed(a))
  /\ UNCHANGED <<disconnected, signedIn>>

DisconnectOnly(p) ==
  /\ disconnected' = disconnected \cup {p}
  /\ UNCHANGED <<attempt, activeAttempt, signedIn>>
DisconnectFromMaf(p) ==
  /\ disconnected' = disconnected \cup {p}
  /\ LET a == activeAttempt[p] IN
       IF a = NoAttempt THEN UNCHANGED <<attempt, activeAttempt>>
       ELSE Terminal(a, "LOGIN_CANCELLED", Killed(a))
  /\ UNCHANGED signedIn

\* External: the user signs in or out with the CLI.
SignInOrOut(p) ==
  /\ signedIn' \in {signedIn \cup {p}, signedIn \ {p}}
  /\ UNCHANGED <<attempt, activeAttempt, disconnected>>

LoginNext ==
  \/ \E p \in LoginProviders :
       SignInOrOut(p) \/ DisconnectFromMaf(p) \/ \E a \in LoginAttempts : BeginLogin(p, a)
  \/ \E a \in LoginAttempts :
       \/ SpawnEvent(a) \/ ErrorEvent(a) \/ Expire(a) \/ PollLogin(a) \/ CancelLogin(a)
       \/ \E code \in 0..1 : Finish(a, code)

LoginSpec == LoginInit /\ [][LoginNext]_loginVars

\* connection: the status the control centre shows.
LoginView(p) ==
  IF activeAttempt[p] # NoAttempt THEN attempt[activeAttempt[p]].status
  ELSE IF p \in disconnected \/ p \notin signedIn THEN "NOT_CONNECTED" ELSE "CONNECTED"

(* An attempt that has ended stays as it ended: a late spawn, exit or expiry of its process *)
(* does not change it.                                                                      *)
LoginEndsOnce ==
  \A a \in LoginAttempts : attempt[a].status \in LoginTerminal =>
     attempt'[a].status = attempt[a].status

(* The attempt a provider is busy with is the only one that is open, and its timer is the   *)
(* only one armed: a login can always be tried again, and no old timer ends a new attempt.  *)
LoginActiveIsOpen ==
  \A a \in LoginAttempts :
    /\ attempt[a].status \in LoginOpen <=> \E p \in LoginProviders : activeAttempt[p] = a
    /\ attempt[a].timer => activeAttempt[attempt[a].provider] = a

(* A provider the operator disconnected is shown as not connected, and no login of it goes  *)
(* on behind the operator's back, until one is begun again.                                 *)
DisconnectHolds == \A p \in disconnected : LoginView(p) = "NOT_CONNECTED"

\* Timer, exit, poll, cancel and disconnect of a login in any order.
LoginIsSound ==
  [][UNCHANGED loginVars \/ ((LoginActiveIsOpen /\ DisconnectHolds)' /\ LoginEndsOnce)]_loginVars
=============================================================================
