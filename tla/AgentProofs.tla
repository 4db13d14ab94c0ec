------------------------------ MODULE AgentProofs ------------------------------
(***************************************************************************)
(* Proofs about the parts that serve an agent and its programs: the login  *)
(* a provider's CLI conducts (NativeLogin), the child processes of the     *)
(* harness (ProcessControl), the event stream of an agent's session        *)
(* (AgentStream) and the context it pages in (ContextPaging).              *)
(***************************************************************************)
EXTENDS NativeLogin, ProcessControl, AgentStream, ContextPaging, FiniteSetTheorems, SequenceTheorems,
        WellFoundedInduction, TLAPS

-----------------------------------------------------------------------------
(* NativeLogin. *)

AttemptRecords ==
  [status : {"NONE"} \union LoginOpen \union LoginTerminal,
   provider : LoginProviders \union {NoAttempt},
   process : {"none", "starting", "running", "killed", "gone"}, timer : BOOLEAN]

LoginTypeOK ==
  /\ attempt \in [LoginAttempts -> AttemptRecords]
  /\ activeAttempt \in [LoginProviders -> LoginAttempts \union {NoAttempt}]
  /\ disconnected \in SUBSET LoginProviders

\* The inductive invariant: an open attempt is the one its own provider is busy
\* with, nothing else is, and a disconnected provider is busy with none.
LoginInv ==
  /\ LoginTypeOK
  /\ \A a \in LoginAttempts :
       /\ attempt[a].status \in LoginOpen <=>
            attempt[a].provider \in LoginProviders /\ activeAttempt[attempt[a].provider] = a
       /\ attempt[a].timer => attempt[a].status \in LoginOpen
       /\ attempt[a].process # "none" => attempt[a].status # "NONE"
  /\ \A p \in LoginProviders : activeAttempt[p] # NoAttempt =>
       attempt[activeAttempt[p]].provider = p
  /\ \A p \in disconnected : activeAttempt[p] = NoAttempt

\* An attempt that ends frees its provider, and no other attempt notices.
LEMMA TerminalStep ==
  ASSUME LoginInv, NEW a \in LoginAttempts, attempt[a].status \in LoginOpen,
         NEW status \in LoginTerminal,
         NEW process \in {"none", "starting", "running", "killed", "gone"},
         Terminal(a, status, process),
         disconnected' \in SUBSET LoginProviders,
         \A p \in disconnected' : p = attempt[a].provider \/ p \in disconnected
  PROVE  LoginInv' /\ LoginEndsOnce
<1> DEFINE q == attempt[a].provider
<1>0. /\ attempt[a].status \notin LoginTerminal \union {"NONE"} /\ q \in LoginProviders
      /\ activeAttempt[q] = a /\ NoAttempt \notin LoginAttempts
      /\ status \notin LoginOpen \union {"NONE"}
  BY LoginAssumption DEF LoginInv, LoginOpen, LoginTerminal
<1>1. /\ attempt' = [attempt EXCEPT ![a].status = status, ![a].process = process, ![a].timer = FALSE]
      /\ activeAttempt' = [activeAttempt EXCEPT ![q] = NoAttempt]
  BY DEF Terminal
<1>2. /\ \A b \in LoginAttempts : b # a => attempt'[b] = attempt[b]
      /\ attempt'[a].status = status /\ attempt'[a].provider = q
      /\ ~attempt'[a].timer /\ attempt'[a].process = process
      /\ \A p \in LoginProviders : activeAttempt'[p] = IF p = q THEN NoAttempt ELSE activeAttempt[p]
  BY <1>0, <1>1 DEF LoginInv, LoginTypeOK, AttemptRecords
<1>3. attempt' \in [LoginAttempts -> AttemptRecords]
  <2>1. attempt[a] \in AttemptRecords  BY DEF LoginInv, LoginTypeOK
  <2>2. [attempt[a] EXCEPT !.status = status, !.process = process, !.timer = FALSE] \in AttemptRecords
    BY <2>1 DEF AttemptRecords
  <2> QED BY <1>1, <2>2 DEF LoginInv, LoginTypeOK
<1>4. activeAttempt' \in [LoginProviders -> LoginAttempts \union {NoAttempt}]
  BY <1>1 DEF LoginInv, LoginTypeOK
<1>5. LoginTypeOK'  BY <1>3, <1>4 DEF LoginTypeOK
<1>6. ASSUME NEW b \in LoginAttempts
      PROVE  /\ attempt'[b].status \in LoginOpen <=>
                  attempt'[b].provider \in LoginProviders /\ activeAttempt'[attempt'[b].provider] = b
             /\ attempt'[b].timer => attempt'[b].status \in LoginOpen
             /\ attempt'[b].process # "none" => attempt'[b].status # "NONE"
             /\ attempt[b].status \in LoginTerminal => attempt'[b].status = attempt[b].status
  <2>1. CASE b = a  BY <1>0, <1>2, <2>1
  <2>2. CASE b # a  BY <1>0, <1>2, <2>2 DEF LoginInv
  <2> QED BY <2>1, <2>2
<1>7. ASSUME NEW p \in LoginProviders, activeAttempt'[p] # NoAttempt
      PROVE  attempt'[activeAttempt'[p]].provider = p
  <2>1. p # q /\ activeAttempt'[p] = activeAttempt[p]  BY <1>2, <1>7
  <2>2. activeAttempt[p] \in LoginAttempts /\ attempt[activeAttempt[p]].provider = p
    BY <1>7, <2>1 DEF LoginInv, LoginTypeOK
  <2>3. activeAttempt[p] # a  BY <2>1, <2>2
  <2> QED BY <1>2, <2>1, <2>2, <2>3
<1>8. \A p \in disconnected' : activeAttempt'[p] = NoAttempt
  BY <1>2 DEF LoginInv
<1> QED BY <1>5, <1>6, <1>7, <1>8 DEF LoginInv, LoginEndsOnce

\* A late event of the CLI of an attempt touches neither how it ended nor whose it
\* is.
LEMMA LateStep ==
  ASSUME LoginInv, NEW a \in LoginAttempts,
         attempt' \in [LoginAttempts -> AttemptRecords],
         \A b \in LoginAttempts : b # a => attempt'[b] = attempt[b],
         attempt'[a].provider = attempt[a].provider,
         attempt'[a].timer => attempt[a].timer,
         attempt[a].status # "NONE" /\ attempt'[a].status # "NONE",
         attempt'[a].status \in LoginOpen <=> attempt[a].status \in LoginOpen,
         attempt[a].status \in LoginTerminal => attempt'[a].status = attempt[a].status,
         UNCHANGED <<activeAttempt, disconnected>>
  PROVE  LoginInv' /\ LoginEndsOnce
<1>1. LoginTypeOK'  BY DEF LoginInv, LoginTypeOK
<1>2. ASSUME NEW b \in LoginAttempts
      PROVE  /\ attempt'[b].status \in LoginOpen <=>
                  attempt'[b].provider \in LoginProviders /\ activeAttempt'[attempt'[b].provider] = b
             /\ attempt'[b].timer => attempt'[b].status \in LoginOpen
             /\ attempt'[b].process # "none" => attempt'[b].status # "NONE"
             /\ attempt[b].status \in LoginTerminal => attempt'[b].status = attempt[b].status
  <2>1. CASE b = a  BY <2>1 DEF LoginInv
  <2>2. CASE b # a  BY <2>2 DEF LoginInv
  <2> QED BY <2>1, <2>2
<1>3. \A p \in LoginProviders : activeAttempt'[p] # NoAttempt =>
        attempt'[activeAttempt'[p]].provider = p
  BY DEF LoginInv, LoginTypeOK
<1> QED BY <1>1, <1>2, <1>3 DEF LoginInv, LoginEndsOnce

\* Every handler keeps the invariant and leaves an ended attempt as it ended.
LEMMA LoginStep ==
  ASSUME LoginInv, LoginNext PROVE LoginInv' /\ LoginEndsOnce
<1>0. /\ attempt \in [LoginAttempts -> AttemptRecords] /\ NoAttempt \notin LoginAttempts
      /\ \A a \in LoginAttempts : attempt[a] \in AttemptRecords
      /\ disconnected \in SUBSET LoginProviders
      /\ \A a \in LoginAttempts : Killed(a) \in {"none", "starting", "running", "killed", "gone"}
  BY LoginAssumption DEF LoginInv, LoginTypeOK, AttemptRecords, Killed
<1>1. ASSUME NEW p \in LoginProviders, SignInOrOut(p) PROVE LoginInv' /\ LoginEndsOnce
  BY <1>1 DEF SignInOrOut, LoginInv, LoginTypeOK, LoginEndsOnce
<1>2. ASSUME NEW p \in LoginProviders, DisconnectFromMaf(p) PROVE LoginInv' /\ LoginEndsOnce
  <2> DEFINE a == activeAttempt[p]
  <2>1. disconnected' = disconnected \cup {p}  BY <1>2 DEF DisconnectFromMaf
  <2>2. CASE a = NoAttempt
    BY <1>2, <2>1, <2>2 DEF DisconnectFromMaf, LoginInv, LoginTypeOK, LoginEndsOnce
  <2>3. CASE a # NoAttempt
    <3>1. /\ a \in LoginAttempts /\ attempt[a].provider = p /\ attempt[a].status \in LoginOpen
          /\ Terminal(a, "LOGIN_CANCELLED", Killed(a))
      BY <1>2, <2>3 DEF DisconnectFromMaf, LoginInv, LoginTypeOK
    <3>2. "LOGIN_CANCELLED" \in LoginTerminal  BY DEF LoginTerminal
    <3>3. disconnected' \in SUBSET LoginProviders
          /\ \A o \in disconnected' : o = attempt[a].provider \/ o \in disconnected
      BY <1>0, <2>1, <3>1
    <3> QED BY <1>0, <3>1, <3>2, <3>3, TerminalStep
  <2> QED BY <2>2, <2>3
<1>3. ASSUME NEW p \in LoginProviders, NEW a \in LoginAttempts, BeginLogin(p, a)
      PROVE  LoginInv' /\ LoginEndsOnce
  <2>1. /\ activeAttempt[p] = NoAttempt /\ attempt[a].status = "NONE"
        /\ disconnected' = disconnected \ {p}
        /\ attempt[a].status \notin LoginOpen \union LoginTerminal
    BY <1>3 DEF BeginLogin, LoginOpen, LoginTerminal
  <2>2. \A o \in LoginProviders : activeAttempt[o] # a
    BY <1>0, <2>1 DEF LoginInv, LoginTypeOK
  <2>3. CASE /\ attempt' = [attempt EXCEPT ![a] =
                   [status |-> "STARTING_LOGIN", provider |-> p, process |-> "starting", timer |-> TRUE]]
             /\ activeAttempt' = [activeAttempt EXCEPT ![p] = a]
    <3>1. [status |-> "STARTING_LOGIN", provider |-> p, process |-> "starting", timer |-> TRUE]
            \in AttemptRecords
      BY DEF AttemptRecords, LoginOpen
    <3>2. LoginTypeOK'  BY <1>0, <2>1, <2>3, <3>1 DEF LoginInv, LoginTypeOK
    <3>3. /\ attempt'[a].status = "STARTING_LOGIN" /\ attempt'[a].provider = p
          /\ attempt'[a].status \in LoginOpen
          /\ \A b \in LoginAttempts : b # a => attempt'[b] = attempt[b]
          /\ \A o \in LoginProviders : activeAttempt'[o] = IF o = p THEN a ELSE activeAttempt[o]
      BY <1>0, <2>3 DEF LoginInv, LoginTypeOK, LoginOpen
    <3>4. ASSUME NEW b \in LoginAttempts
          PROVE  /\ attempt'[b].status \in LoginOpen <=>
                      attempt'[b].provider \in LoginProviders
                      /\ activeAttempt'[attempt'[b].provider] = b
                 /\ attempt'[b].timer => attempt'[b].status \in LoginOpen
                 /\ attempt'[b].process # "none" => attempt'[b].status # "NONE"
                 /\ attempt[b].status \in LoginTerminal => attempt'[b].status = attempt[b].status
      <4>1. CASE b = a  BY <2>1, <3>3, <4>1
      <4>2. CASE b # a
        BY <1>0, <2>1, <3>3, <4>2 DEF LoginInv
      <4> QED BY <4>1, <4>2
    <3>5. ASSUME NEW o \in LoginProviders, activeAttempt'[o] # NoAttempt
          PROVE  attempt'[activeAttempt'[o]].provider = o
      <4>1. CASE o = p  BY <3>3, <4>1
      <4>2. CASE o # p
        <5>1. activeAttempt'[o] = activeAttempt[o] /\ activeAttempt[o] # a
          BY <2>2, <3>3, <4>2
        <5>2. activeAttempt[o] \in LoginAttempts  BY <3>5, <5>1 DEF LoginInv, LoginTypeOK
        <5> QED BY <3>3, <3>5, <5>1, <5>2 DEF LoginInv
      <4> QED BY <4>1, <4>2
    <3>6. \A o \in disconnected' : activeAttempt'[o] = NoAttempt
      BY <1>0, <2>1, <3>3 DEF LoginInv
    <3> QED BY <3>2, <3>4, <3>5, <3>6 DEF LoginInv, LoginEndsOnce
  <2>4. CASE /\ attempt' = [attempt EXCEPT ![a] =
                   [Unused EXCEPT !.status = "LOGIN_FAILED", !.provider = p]]
             /\ activeAttempt' = activeAttempt
    <3>0. Unused \in AttemptRecords /\ ~Unused.timer  BY DEF Unused, AttemptRecords
    <3> DEFINE failed == [Unused EXCEPT !.status = "LOGIN_FAILED", !.provider = p]
    <3>1. failed.status = "LOGIN_FAILED" /\ failed.provider = p /\ ~failed.timer
      BY <3>0 DEF AttemptRecords
    <3>2. failed \in AttemptRecords  BY <3>0 DEF AttemptRecords, LoginTerminal
    <3>3. LoginTypeOK'  BY <1>0, <2>1, <2>4, <3>1, <3>2 DEF LoginInv, LoginTypeOK
    <3>4. /\ attempt'[a].status = "LOGIN_FAILED" /\ attempt'[a].provider = p
          /\ attempt'[a].status \notin LoginOpen \union {"NONE"} /\ ~attempt'[a].timer
          /\ \A b \in LoginAttempts : b # a => attempt'[b] = attempt[b]
      BY <1>0, <2>4, <3>1 DEF LoginOpen
    <3>5. ASSUME NEW b \in LoginAttempts
          PROVE  /\ attempt'[b].status \in LoginOpen <=>
                      attempt'[b].provider \in LoginProviders
                      /\ activeAttempt'[attempt'[b].provider] = b
                 /\ attempt'[b].timer => attempt'[b].status \in LoginOpen
                 /\ attempt'[b].process # "none" => attempt'[b].status # "NONE"
                 /\ attempt[b].status \in LoginTerminal => attempt'[b].status = attempt[b].status
      <4>1. CASE b = a  BY <2>1, <2>2, <2>4, <3>4, <4>1
      <4>2. CASE b # a  BY <2>4, <3>4, <4>2 DEF LoginInv
      <4> QED BY <4>1, <4>2
    <3>6. \A o \in LoginProviders : activeAttempt'[o] # NoAttempt =>
            attempt'[activeAttempt'[o]].provider = o
      BY <2>2, <2>4, <3>4 DEF LoginInv, LoginTypeOK
    <3>7. \A o \in disconnected' : activeAttempt'[o] = NoAttempt
      BY <2>1, <2>4 DEF LoginInv
    <3> QED BY <3>3, <3>5, <3>6, <3>7 DEF LoginInv, LoginEndsOnce
  <2> QED BY <1>3, <2>3, <2>4 DEF BeginLogin
<1>4. ASSUME NEW a \in LoginAttempts, SpawnEvent(a) PROVE LoginInv' /\ LoginEndsOnce
  <2>1. attempt[a].process = "starting" /\ attempt[a].status # "NONE"
    BY <1>4 DEF SpawnEvent, LoginInv
  <2>2. attempt' = [attempt EXCEPT ![a].process = "running",
          ![a].status = IF @ = "STARTING_LOGIN" THEN "WAITING_FOR_USER" ELSE @]
        /\ UNCHANGED <<activeAttempt, disconnected>>
    BY <1>4 DEF SpawnEvent
  <2>3. [attempt[a] EXCEPT !.process = "running",
          !.status = IF @ = "STARTING_LOGIN" THEN "WAITING_FOR_USER" ELSE @] \in AttemptRecords
    BY <1>0 DEF AttemptRecords, LoginOpen
  <2>4. attempt' \in [LoginAttempts -> AttemptRecords]  BY <1>0, <2>2, <2>3
  <2>5. /\ \A b \in LoginAttempts : b # a => attempt'[b] = attempt[b]
        /\ attempt'[a].provider = attempt[a].provider /\ attempt'[a].timer = attempt[a].timer
        /\ attempt'[a].status = IF attempt[a].status = "STARTING_LOGIN" THEN "WAITING_FOR_USER"
                                ELSE attempt[a].status
    BY <1>0, <2>2 DEF AttemptRecords
  <2>6. /\ attempt'[a].status \in LoginOpen <=> attempt[a].status \in LoginOpen
        /\ attempt[a].status \in LoginTerminal => attempt'[a].status = attempt[a].status
        /\ attempt'[a].status # "NONE"
    BY <2>1, <2>5 DEF LoginOpen, LoginTerminal
  <2> QED BY <2>1, <2>2, <2>4, <2>5, <2>6, LateStep
<1>5. ASSUME NEW a \in LoginAttempts, NEW status \in LoginTerminal,
             attempt[a].process # "none", UNCHANGED disconnected,
             IF attempt[a].status \in LoginTerminal
             THEN attempt' = [attempt EXCEPT ![a].process = "gone"] /\ UNCHANGED activeAttempt
             ELSE Terminal(a, status, "gone")
      PROVE  LoginInv' /\ LoginEndsOnce
  \* An error or the exit of the CLI, before or after the attempt has ended.
  <2>1. attempt[a].status # "NONE"  BY <1>5 DEF LoginInv
  <2>2. CASE attempt[a].status \in LoginTerminal
    <3>1. attempt' = [attempt EXCEPT ![a].process = "gone"] /\ UNCHANGED <<activeAttempt, disconnected>>
      BY <1>5, <2>2
    <3>2. [attempt[a] EXCEPT !.process = "gone"] \in AttemptRecords
      BY <1>0 DEF AttemptRecords
    <3>3. attempt' \in [LoginAttempts -> AttemptRecords]  BY <1>0, <3>1, <3>2
    <3>4. /\ \A b \in LoginAttempts : b # a => attempt'[b] = attempt[b]
          /\ attempt'[a].provider = attempt[a].provider /\ attempt'[a].timer = attempt[a].timer
          /\ attempt'[a].status = attempt[a].status
      BY <1>0, <3>1 DEF AttemptRecords
    <3> QED BY <2>1, <3>1, <3>3, <3>4, LateStep
  <2>3. CASE attempt[a].status \notin LoginTerminal
    <3>1. attempt[a].status \in LoginOpen  BY <1>0, <2>1, <2>3 DEF AttemptRecords
    <3> QED BY <1>0, <1>5, <2>3, <3>1, TerminalStep
  <2> QED BY <2>2, <2>3
<1>6. ASSUME NEW a \in LoginAttempts, ErrorEvent(a) PROVE LoginInv' /\ LoginEndsOnce
  <2>1. "LOGIN_FAILED" \in LoginTerminal  BY DEF LoginTerminal
  <2> QED BY <1>5, <1>6, <2>1 DEF ErrorEvent
<1>7. ASSUME NEW a \in LoginAttempts, NEW code \in 0..1, Finish(a, code)
      PROVE  LoginInv' /\ LoginEndsOnce
  <2> DEFINE end == IF code = 0 /\ attempt[a].provider \in signedIn THEN "CONNECTED"
                    ELSE "LOGIN_FAILED"
  <2>1. end \in LoginTerminal  BY DEF LoginTerminal
  <2>2. /\ attempt[a].process # "none" /\ UNCHANGED disconnected
        /\ IF attempt[a].status \in LoginTerminal
           THEN attempt' = [attempt EXCEPT ![a].process = "gone"] /\ UNCHANGED activeAttempt
           ELSE Terminal(a, end, "gone")
    BY <1>7 DEF Finish
  <2> QED BY <1>5, <2>1, <2>2
<1>8. ASSUME NEW a \in LoginAttempts, Expire(a) PROVE LoginInv' /\ LoginEndsOnce
  <2>1. attempt[a].status \in LoginOpen /\ attempt[a].status \notin LoginTerminal
    BY <1>8 DEF Expire, LoginInv, LoginOpen, LoginTerminal
  <2>2. Terminal(a, "LOGIN_EXPIRED", Killed(a)) /\ disconnected' = disconnected
    BY <1>8, <2>1 DEF Expire
  <2>3. "LOGIN_EXPIRED" \in LoginTerminal  BY DEF LoginTerminal
  <2> QED BY <1>0, <2>1, <2>2, <2>3, TerminalStep
<1>9. ASSUME NEW a \in LoginAttempts, PollLogin(a) PROVE LoginInv' /\ LoginEndsOnce
  <2>1. "CONNECTED" \in LoginTerminal
        /\ attempt[a].process \in {"none", "starting", "running", "killed", "gone"}
    BY <1>0 DEF LoginTerminal, AttemptRecords
  <2> QED BY <1>0, <1>9, <2>1, TerminalStep DEF PollLogin
<1>10. ASSUME NEW a \in LoginAttempts, CancelLogin(a) PROVE LoginInv' /\ LoginEndsOnce
  <2>1. "LOGIN_CANCELLED" \in LoginTerminal  BY DEF LoginTerminal
  <2> QED BY <1>0, <1>10, <2>1, TerminalStep DEF CancelLogin
<1> QED BY <1>1, <1>2, <1>3, <1>4, <1>6, <1>7, <1>8, <1>9, <1>10 DEF LoginNext

\* However the timer, the exit of the CLI, a poll, a cancel and a disconnect of any
\* number of logins interleave: the open attempt of a provider is the one it is
\* busy with, an attempt ends once, and a disconnected provider stays so.
THEOREM LoginHolds == LoginSpec => LoginIsSound
<1>1. LoginInit => LoginInv
  BY LoginAssumption DEF LoginInit, LoginInv, LoginTypeOK, Unused, AttemptRecords, LoginOpen
<1>2. LoginInv /\ [LoginNext]_loginVars => LoginInv'
  <2>1. LoginInv /\ UNCHANGED loginVars => LoginInv'
    BY DEF loginVars, LoginInv, LoginTypeOK
  <2> QED BY <2>1, LoginStep
<1>3. LoginInv => LoginActiveIsOpen /\ DisconnectHolds
  <2> SUFFICES ASSUME LoginInv PROVE LoginActiveIsOpen /\ DisconnectHolds
    OBVIOUS
  <2>1. ASSUME NEW a \in LoginAttempts
        PROVE  /\ attempt[a].status \in LoginOpen <=> \E p \in LoginProviders : activeAttempt[p] = a
               /\ attempt[a].timer => activeAttempt[attempt[a].provider] = a
    BY LoginAssumption DEF LoginInv, LoginTypeOK
  <2>2. DisconnectHolds  BY DEF LoginInv, DisconnectHolds, LoginView
  <2> QED BY <2>1, <2>2 DEF LoginActiveIsOpen
<1>4. LoginInv' => (LoginActiveIsOpen /\ DisconnectHolds)'
  BY <1>3, PTL
<1>5. LoginInv /\ [LoginNext]_loginVars =>
        [UNCHANGED loginVars \/ ((LoginActiveIsOpen /\ DisconnectHolds)' /\ LoginEndsOnce)]_loginVars
  BY <1>4, LoginStep
<1> QED BY <1>1, <1>2, <1>5, PTL DEF LoginSpec, LoginIsSound

-----------------------------------------------------------------------------
(* ProcessControl. *)

OsRecords ==
  [child : {"none", "running", "exited"}, kin : BOOLEAN, code : {0, 1, 2}, forced : BOOLEAN]
CallRecords ==
  [platform : Platforms \union {"none"}, isolate : BOOLEAN, reason : Reasons \union {"none"},
   tree : {"none", "done"}, timeout : BOOLEAN, kill : BOOLEAN, exit : BOOLEAN,
   exitSeen : BOOLEAN, closeSeen : BOOLEAN,
   promise : {"none", "pending", "rejected", "resolved"}, code : {0, 1, 2}]

\* The harness kills the group of this call at once, and the system does as told.
Grouped == spawned.isolate /\ spawned.platform # "win32"

\* The inductive invariant: what is left of a group once its exit was seen or its
\* tree killed, whose the exit code is, and what still ends the wait.
ProcInv ==
  /\ os \in OsRecords /\ spawned \in CallRecords
  /\ spawned.promise \in {"none", "rejected"} => os.child = "none" /\ ~os.forced
  /\ Pending => os.child # "none"
  /\ spawned.exitSeen \/ spawned.promise = "resolved" => os.child = "exited"
  /\ spawned.promise = "resolved" => spawned.exitSeen /\ spawned.code = os.code
  /\ Grouped /\ spawned.exitSeen => spawned.tree = "done"
  /\ Grouped /\ spawned.tree = "done" => os.child = "exited" /\ ~os.kin
  /\ Grouped /\ os.forced => os.child = "exited" /\ os.code # 0
  /\ Pending =>
       /\ spawned.timeout \/ spawned.reason # "none"
       /\ spawned.exitSeen => spawned.exit
       /\ spawned.reason # "none" /\ spawned.platform # "win32" =>
            spawned.kill \/ os.child = "exited"

\* What killTree may leave of the child and its group.
LEMMA KillTreeLeaves ==
  ASSUME os \in OsRecords, spawned \in CallRecords, os.child # "none",
         NEW k \in KillTree(os, spawned)
  PROVE  /\ k.os \in OsRecords /\ k.tree \in {"none", "done"}
         /\ k.os = os \/ k.os.child = "exited"
         /\ spawned.platform # "win32" => k.os.child = "exited"
         /\ Grouped => k.tree = "done" /\ ~k.os.kin
         /\ k.os.forced => os.forced \/ k.os.code # 0
         /\ os.child = "exited" => k.os.code = os.code /\ k.os.forced = os.forced
         /\ os.child # "exited" /\ spawned.platform # "win32" => k.os.code # 0
<1> DEFINE dead == Dead(os)
<1>1. /\ dead \in OsRecords /\ dead.child = "exited" /\ dead.kin = os.kin
      /\ os.child = "running" => dead.code = 1
      /\ os.child # "running" => dead.code = os.code /\ dead.forced = os.forced
  BY DEF Dead, OsRecords
<1>2. os.child \in {"running", "exited"}  BY DEF OsRecords
<1> DEFINE alone == [dead EXCEPT !.kin = FALSE]
<1>3. /\ alone \in OsRecords /\ alone.child = "exited" /\ ~alone.kin
      /\ os.child = "running" => alone.code = 1
      /\ os.child # "running" => alone.code = os.code /\ alone.forced = os.forced
  <2> HIDE DEF dead
  <2> QED BY <1>1 DEF OsRecords
<1>4. CASE spawned.platform = "win32"
  <2>1. k = [os |-> alone, tree |-> "done"] \/ k = [os |-> os, tree |-> "done"]
    BY <1>4 DEF KillTree
  <2> HIDE DEF alone
  <2> QED BY <1>2, <1>3, <1>4, <2>1 DEF Grouped
<1>5. CASE spawned.platform # "win32" /\ spawned.isolate
  <2>1. k = [os |-> alone, tree |-> "done"]
    BY <1>5 DEF KillTree
  <2> HIDE DEF alone
  <2> QED BY <1>2, <1>3, <1>5, <2>1 DEF Grouped
<1>6. CASE spawned.platform # "win32" /\ ~spawned.isolate
  <2>1. k = [os |-> dead, tree |-> "none"]
    BY <1>6 DEF KillTree
  <2> HIDE DEF dead
  <2> QED BY <1>1, <1>2, <1>6, <2>1 DEF Grouped
<1> QED BY <1>4, <1>5, <1>6

\* Every event of the process, the timers and the caller's signal keeps it.
LEMMA ProcStep == ASSUME ProcInv, [ProcNext]_procVars PROVE ProcInv'
<1> USE DEF ProcInv, Pending, Grouped
<1>1. ASSUME NEW p \in Platforms, NEW isolate \in BOOLEAN, Spawn(p, isolate) PROVE ProcInv'
  <2>1. CASE /\ os' = [os EXCEPT !.child = "running"]
             /\ spawned' = [NotYet EXCEPT !.platform = p, !.isolate = isolate,
                                          !.promise = "pending", !.timeout = TRUE]
    <3>1. spawned' \in CallRecords /\ os' \in OsRecords
      <4>1. os' \in OsRecords  BY <2>1 DEF OsRecords
      <4>2. NotYet \in CallRecords  BY DEF NotYet, CallRecords
      <4>3. spawned' \in CallRecords  BY <2>1, <4>2 DEF CallRecords
      <4> QED BY <4>1, <4>3
    <3>2. /\ os'.child = "running" /\ os'.forced = os.forced
          /\ spawned'.promise = "pending" /\ spawned'.timeout /\ spawned'.reason = "none"
          /\ ~spawned'.exitSeen /\ spawned'.tree = "none"
      BY <2>1 DEF NotYet, OsRecords
    <3>3. ~os.forced  BY <1>1 DEF Spawn
    <3> QED BY <3>1, <3>2, <3>3
  <2>2. CASE spawned' = [NotYet EXCEPT !.promise = "rejected"] /\ UNCHANGED os
    <3>1. spawned' \in CallRecords
      BY <2>2 DEF NotYet, CallRecords
    <3>2. spawned'.promise = "rejected" /\ ~spawned'.exitSeen /\ spawned'.tree = "none"
      BY <2>2 DEF NotYet
    <3> QED BY <1>1, <2>2, <3>1, <3>2 DEF Spawn
  <2> QED BY <1>1, <2>1, <2>2 DEF Spawn
<1>2. CASE Fork \/ KinEnds
  BY <1>2 DEF Fork, KinEnds, OsRecords
<1>3. ASSUME NEW code \in {0, 2}, ChildExits(code) PROVE ProcInv'
  <2>1. /\ os' \in OsRecords /\ os'.child = "exited" /\ os'.kin = os.kin
        /\ os'.forced = os.forced /\ os.child = "running" /\ spawned' = spawned
    BY <1>3 DEF ChildExits, OsRecords
  <2>2. os.child # "none" /\ os.child # "exited"  BY <2>1
  <2> QED BY <2>1, <2>2 DEF CallRecords
<1>4. ASSUME NEW reason \in Reasons, Pending, Terminate(reason) PROVE ProcInv'
  <2>1. CASE spawned.isolate
    <3>1. PICK k \in KillTree(os, spawned) :
            os' = k.os /\ spawned' = [spawned EXCEPT !.reason = reason,
                            !.timeout = @ /\ reason # "TIMEOUT", !.tree = k.tree]
      BY <1>4, <2>1 DEF Terminate
    <3>2. /\ k.os \in OsRecords /\ k.tree \in {"none", "done"}
          /\ spawned.platform # "win32" =>
               k.os.child = "exited" /\ k.tree = "done" /\ ~k.os.kin
          /\ os.child = "exited" =>
               k.os.child = "exited" /\ k.os.code = os.code /\ k.os.forced = os.forced
          /\ os.child # "exited" /\ spawned.platform # "win32" => k.os.code # 0
          /\ k.os.child # "none"
      BY <1>4, <2>1, KillTreeLeaves
    <3>3. /\ spawned' \in CallRecords /\ spawned'.reason = reason /\ spawned'.tree = k.tree
          /\ spawned'.platform = spawned.platform /\ spawned'.isolate = spawned.isolate
          /\ spawned'.promise = "pending" /\ spawned'.kill = spawned.kill
          /\ spawned'.exit = spawned.exit /\ spawned'.exitSeen = spawned.exitSeen
      BY <1>4, <3>1, <3>2 DEF CallRecords
    <3>4. reason # "none"  BY DEF Reasons
    <3> QED BY <1>4, <2>1, <3>1, <3>2, <3>3, <3>4
  <2>2. CASE ~spawned.isolate
    <3>1. /\ os' \in OsRecords /\ os'.child = os.child /\ os'.kin = os.kin
          /\ os'.code = os.code
      BY <1>4, <2>2 DEF Terminate, OsRecords
    <3>2. /\ spawned' \in CallRecords /\ spawned'.reason = reason /\ spawned'.kill
          /\ spawned'.isolate = spawned.isolate /\ spawned'.promise = spawned.promise
          /\ spawned'.exit = spawned.exit /\ spawned'.exitSeen = spawned.exitSeen
      <4> DEFINE left == spawned.timeout /\ reason # "TIMEOUT"
      <4>1. spawned' = [spawned EXCEPT !.reason = reason, !.timeout = left, !.kill = TRUE]
        BY <1>4, <2>2 DEF Terminate
      <4>2. left \in BOOLEAN /\ spawned \in CallRecords  OBVIOUS
      <4> HIDE DEF left
      <4>3. spawned' \in CallRecords  BY <4>1, <4>2 DEF CallRecords
      <4>4. /\ spawned'.reason = reason /\ spawned'.kill
            /\ spawned'.isolate = spawned.isolate /\ spawned'.promise = spawned.promise
            /\ spawned'.exit = spawned.exit /\ spawned'.exitSeen = spawned.exitSeen
        BY <4>1, <4>2 DEF CallRecords
      <4> QED BY <4>3, <4>4
    <3>3. reason # "none"  BY DEF Reasons
    <3> QED BY <1>4, <2>2, <3>1, <3>2, <3>3
  <2> QED BY <2>1, <2>2
<1>5. CASE TimeoutFires
  <2>1. CASE spawned.reason = "none"
    <3>1. "TIMEOUT" \in Reasons  BY DEF Reasons
    <3>2. Pending /\ Terminate("TIMEOUT")  BY <1>5, <2>1 DEF TimeoutFires
    <3> QED BY <1>4, <3>1, <3>2
  <2>2. CASE spawned.reason # "none"
    <3>1. spawned' = [spawned EXCEPT !.timeout = FALSE] /\ os' = os
      BY <1>5, <2>2 DEF TimeoutFires
    <3>2. spawned' \in CallRecords  BY <3>1 DEF CallRecords
    <3>3. /\ spawned'.reason = spawned.reason /\ spawned'.kill = spawned.kill
          /\ spawned'.isolate = spawned.isolate /\ spawned'.promise = spawned.promise
          /\ spawned'.exit = spawned.exit /\ spawned'.exitSeen = spawned.exitSeen
          /\ spawned'.tree = spawned.tree /\ spawned'.platform = spawned.platform
          /\ spawned'.code = spawned.code
      BY <3>1 DEF CallRecords
    <3> QED BY <2>2, <3>1, <3>2, <3>3
  <2> QED BY <2>1, <2>2
<1>6. ASSUME NEW r \in Reasons \ {"TIMEOUT"}, Stopped(r) PROVE ProcInv'
  BY <1>4, <1>6 DEF Stopped
<1>7. CASE KillTimerFires
  <2>1. PICK k \in KillTree(os, spawned) :
          os' = k.os /\ spawned' = [spawned EXCEPT !.kill = FALSE]
    BY <1>7 DEF KillTimerFires
  <2>2. Pending /\ os.child # "none"  BY <1>7 DEF KillTimerFires
  <2>3. /\ k.os \in OsRecords
        /\ k.os = os \/ k.os.child = "exited"
        /\ spawned.platform # "win32" => k.os.child = "exited"
        /\ Grouped => ~k.os.kin
        /\ os.child = "exited" => k.os.code = os.code /\ k.os.forced = os.forced
        /\ os.child # "exited" /\ spawned.platform # "win32" => k.os.code # 0
    BY <2>2, KillTreeLeaves
  <2>4. spawned' \in CallRecords  BY <2>1 DEF CallRecords
  <2>5. /\ spawned'.reason = spawned.reason /\ spawned'.timeout = spawned.timeout
        /\ spawned'.isolate = spawned.isolate /\ spawned'.promise = spawned.promise
        /\ spawned'.exit = spawned.exit /\ spawned'.exitSeen = spawned.exitSeen
        /\ spawned'.tree = spawned.tree /\ spawned'.platform = spawned.platform
    BY <2>1 DEF CallRecords
  <2> QED BY <2>1, <2>2, <2>3, <2>4, <2>5
<1>8. CASE ExitEvent
  <2>1. CASE spawned.isolate /\ spawned.tree = "none"
    <3>1. PICK k \in KillTree(os, spawned) :
            os' = k.os /\ spawned' = [spawned EXCEPT !.exitSeen = TRUE, !.exit = TRUE, !.tree = k.tree]
      BY <1>8, <2>1 DEF ExitEvent
    <3>2. Pending /\ os.child = "exited"  BY <1>8 DEF ExitEvent
    <3>3. /\ k.os \in OsRecords /\ k.tree \in {"none", "done"}
          /\ k.os.child = "exited"
          /\ Grouped => k.tree = "done" /\ ~k.os.kin
          /\ k.os.code = os.code /\ k.os.forced = os.forced
      BY <3>2, KillTreeLeaves
    <3>4. spawned' \in CallRecords  BY <3>1, <3>3 DEF CallRecords
    <3>5. /\ spawned'.reason = spawned.reason /\ spawned'.timeout = spawned.timeout
          /\ spawned'.isolate = spawned.isolate /\ spawned'.promise = spawned.promise
          /\ spawned'.exit /\ spawned'.exitSeen /\ spawned'.kill = spawned.kill
          /\ spawned'.tree = k.tree /\ spawned'.platform = spawned.platform
      BY <3>1, <3>3 DEF CallRecords
    <3> QED BY <3>1, <3>2, <3>3, <3>4, <3>5
  <2>2. CASE ~(spawned.isolate /\ spawned.tree = "none")
    <3>1. /\ Pending /\ os.child = "exited" /\ os' = os
          /\ spawned' = [spawned EXCEPT !.exitSeen = TRUE, !.exit = TRUE]
      BY <1>8, <2>2 DEF ExitEvent
    <3>2. spawned' \in CallRecords  BY <3>1 DEF CallRecords
    <3>3. /\ spawned'.reason = spawned.reason /\ spawned'.timeout = spawned.timeout
          /\ spawned'.isolate = spawned.isolate /\ spawned'.promise = spawned.promise
          /\ spawned'.exit /\ spawned'.exitSeen /\ spawned'.kill = spawned.kill
          /\ spawned'.tree = spawned.tree /\ spawned'.platform = spawned.platform
      BY <3>1 DEF CallRecords
    <3>4. Grouped => spawned.tree = "done"  BY <2>2 DEF CallRecords
    <3> QED BY <3>1, <3>2, <3>3, <3>4
  <2> QED BY <2>1, <2>2
<1>9. CASE ResolveCall
  BY <1>9 DEF ResolveCall, CallRecords, OsRecords
<1>10. CASE UNCHANGED procVars
  BY <1>10 DEF procVars
<1> QED BY <1>1, <1>2, <1>3, <1>5, <1>6, <1>7, <1>8, <1>9, <1>10 DEF ProcNext

\* In whatever order the timeout, the caller's abort, the output limit, the exit and
\* the close of a child come, its call returns, leaves no group behind, and reports
\* no success the harness forced.
THEOREM ProcessHolds == ProcSpec => []ProcessEndsCleanly
<1>1. ProcInit => ProcInv
  BY DEF ProcInit, NotYet, ProcInv, OsRecords, CallRecords, Pending, Grouped
<1>2. ProcInv => ProcessEndsCleanly
  BY DEF ProcInv, ProcessEndsCleanly, NoGroupSurvives, ForcedIsNeverSuccess, NeverStranded,
     Pending, Grouped
<1> QED BY <1>1, <1>2, ProcStep, PTL DEF ProcSpec

-----------------------------------------------------------------------------
(* AgentStream. *)

PlainEvents == {"tool", "complete", "error", "message", "usage"}
StreamEvents == PlainEvents \union {"falsy"}
ReaderStates == Over \union {"sending", "ready", "asleep", "handling"}
SessionRecords ==
  [child : {"none", "running", "failed", "zero", "nonzero"}, printed : Nat,
   queue : Seq(StreamEvents), ended : BOOLEAN, signalled : BOOLEAN]

StreamTypeOK ==
  /\ stream \in SessionRecords
  /\ reader \in [attempts : Nat, at : ReaderStates, inHand : StreamEvents \union {"none"}]
  /\ told \in [output : Seq(StreamEvents), taken : Seq(StreamEvents)]
  /\ requests \in [cancel : BOOLEAN, restart : BOOLEAN]

\* No event of the sequence, up to the nth, reports an error.
ErrorFree(s, n) == \A i \in 1..n : s[i] # "error"

\* Every event is in the queue or was taken, in order; a bad exit has left an error
\* event; the loop goes on only while it has taken none; and only the native adapter
\* ever queues a falsy event.
StreamInv ==
  /\ StreamTypeOK
  /\ agentKind # "native" => stream.queue \in Seq(PlainEvents)
  /\ told.output = told.taken \o stream.queue
  /\ stream.ended => stream.child \in {"zero", "nonzero"}
  /\ stream.child = "nonzero" => ~ErrorFree(told.output, Len(told.output))
  /\ reader.at \in {"sending", "ready", "asleep", "finished"} => ErrorFree(told.taken, Len(told.taken))
  /\ reader.at = "handling" =>
       /\ told.taken # <<>> /\ told.taken[Len(told.taken)] = reader.inHand
       /\ ErrorFree(told.taken, Len(told.taken) - 1)
  /\ NoLostWakeup
  /\ reader.at = "finished" => stream.queue = <<>> /\ stream.child = "zero"
  /\ reader.at = "idle" => stream.child = "none"
  /\ reader.at = "restarted" => stream.signalled
  /\ StrayWasTold

\* Moving the head of a queue to the end of what was taken changes neither together.
LEMMA TakeHead ==
  ASSUME NEW S, NEW s \in Seq(S), NEW q \in Seq(S), q # <<>>
  PROVE  Append(s, Head(q)) \o Tail(q) = s \o q
<1>1. /\ Head(q) \in S /\ Tail(q) \in Seq(S) /\ Len(Tail(q)) = Len(q) - 1
      /\ \A i \in 1..Len(Tail(q)) : Tail(q)[i] = q[i + 1]
  BY HeadTailProperties
<1>2. Head(q) = q[1] /\ Len(q) \in Nat \ {0} /\ Len(s) \in Nat  BY EmptySeq
<1> DEFINE a == Append(s, Head(q))
           l == a \o Tail(q)
           r == s \o q
<1>3. /\ a \in Seq(S) /\ Len(a) = Len(s) + 1
      /\ \A i \in 1..Len(s) : a[i] = s[i]
      /\ a[Len(s) + 1] = q[1]
  BY <1>1, <1>2, AppendProperties
<1> HIDE DEF a
<1>4. /\ l \in Seq(S) /\ Len(l) = Len(a) + Len(Tail(q))
      /\ \A i \in 1..(Len(a) + Len(Tail(q))) :
           l[i] = IF i <= Len(a) THEN a[i] ELSE Tail(q)[i - Len(a)]
  BY <1>1, <1>3, ConcatProperties
<1>5. /\ r \in Seq(S) /\ Len(r) = Len(s) + Len(q)
      /\ \A i \in 1..(Len(s) + Len(q)) : r[i] = IF i <= Len(s) THEN s[i] ELSE q[i - Len(s)]
  BY ConcatProperties
<1> HIDE DEF l, r
<1>6. Len(l) = Len(r) /\ Len(l) = Len(s) + Len(q)  BY <1>1, <1>2, <1>3, <1>4, <1>5
<1>7. ASSUME NEW i \in 1..Len(l) PROVE l[i] = r[i]
  <2>0. i \in Nat /\ i \in 1..(Len(s) + Len(q)) /\ i \in 1..(Len(a) + Len(Tail(q)))
    BY <1>2, <1>4, <1>6
  <2>1. CASE i <= Len(s)
    <3>1. r[i] = s[i]  BY <1>5, <2>0, <2>1
    <3>2. i <= Len(a) /\ i \in 1..Len(s)  BY <1>2, <1>3, <2>0, <2>1
    <3>3. l[i] = a[i]  BY <1>4, <2>0, <3>2
    <3> QED BY <1>3, <3>1, <3>2, <3>3
  <2>2. CASE i = Len(s) + 1
    <3>1. r[i] = q[1]  BY <1>2, <1>5, <2>0, <2>2
    <3>2. l[i] = a[i]  BY <1>3, <1>4, <2>0, <2>2
    <3> QED BY <1>3, <2>2, <3>1, <3>2
  <2>3. CASE i > Len(s) + 1
    <3>1. r[i] = q[i - Len(s)]  BY <1>2, <1>5, <2>0, <2>3
    <3>2. l[i] = Tail(q)[i - Len(a)]  BY <1>2, <1>3, <1>4, <2>0, <2>3
    <3>3. i - Len(a) \in 1..Len(Tail(q)) /\ (i - Len(a)) + 1 = i - Len(s)
      BY <1>1, <1>2, <1>3, <1>6, <2>0, <2>3
    <3> QED BY <1>1, <3>1, <3>2, <3>3
  <2> QED BY <1>2, <2>0, <2>1, <2>2, <2>3
<1>8. l = r  BY <1>4, <1>5, <1>6, <1>7, SeqEqual
<1> QED BY <1>8 DEF l, r, a

\* An error among the appended events, or before them, is one of the whole.
LEMMA ErrorStays ==
  ASSUME NEW s \in Seq(StreamEvents), NEW e \in Seq(StreamEvents),
         ~ErrorFree(s, Len(s)) \/ ~ErrorFree(e, Len(e))
  PROVE  ~ErrorFree(s \o e, Len(s \o e))
<1> DEFINE t == s \o e
<1>1. /\ Len(t) = Len(s) + Len(e) /\ Len(s) \in Nat /\ Len(e) \in Nat
      /\ \A i \in 1..(Len(s) + Len(e)) : t[i] = IF i <= Len(s) THEN s[i] ELSE e[i - Len(s)]
  BY ConcatProperties
<1> HIDE DEF t
<1>2. CASE ~ErrorFree(s, Len(s))
  <2>1. PICK i \in 1..Len(s) : s[i] = "error"  BY <1>2 DEF ErrorFree
  <2>2. i \in 1..(Len(s) + Len(e)) /\ i <= Len(s)  BY <1>1
  <2>3. t[i] = "error"  BY <1>1, <2>1, <2>2
  <2> QED BY <1>1, <2>2, <2>3 DEF ErrorFree, t
<1>3. CASE ~ErrorFree(e, Len(e))
  <2>1. PICK i \in 1..Len(e) : e[i] = "error"  BY <1>3 DEF ErrorFree
  <2>2. /\ Len(s) + i \in 1..(Len(s) + Len(e)) /\ ~(Len(s) + i <= Len(s))
        /\ (Len(s) + i) - Len(s) = i
    BY <1>1
  <2>3. t[Len(s) + i] = "error"  BY <1>1, <2>1, <2>2
  <2> QED BY <1>1, <2>2, <2>3 DEF ErrorFree, t
<1> QED BY <1>2, <1>3

\* A callback of the child that queues events, while its session is still read.
LEMMA PushStep ==
  ASSUME StreamInv, stream.child \in {"running", "failed"},
         NEW session \in SessionRecords, NEW events \in Seq(StreamEvents),
         session.queue = stream.queue, session.signalled = stream.signalled,
         session.ended => session.child \in {"zero", "nonzero"},
         session.child = "nonzero" => ~ErrorFree(events, Len(events)),
         agentKind # "native" => events \in Seq(PlainEvents),
         Push(session, events), UNCHANGED <<agentKind, requests, strays>>
  PROVE  StreamInv'
<1>1. /\ stream' = [session EXCEPT !.queue = session.queue \o events]
      /\ told' = [told EXCEPT !.output = told.output \o events]
      /\ reader' = [reader EXCEPT !.at = IF reader.at = "asleep" THEN "ready" ELSE reader.at]
  BY DEF Push, WakeReader
<1>2. /\ stream.queue \in Seq(StreamEvents) /\ told.output \in Seq(StreamEvents)
      /\ told.taken \in Seq(StreamEvents)
  BY DEF StreamInv, StreamTypeOK, SessionRecords
<1>3. stream.queue \o events \in Seq(StreamEvents) /\ told.output \o events \in Seq(StreamEvents)
  BY <1>2, ConcatProperties
<1>4. /\ stream' \in SessionRecords /\ stream'.queue = stream.queue \o events
      /\ stream'.child = session.child /\ stream'.ended = session.ended
      /\ stream'.signalled = stream.signalled
  BY <1>1, <1>3 DEF SessionRecords
<1>5. /\ told' \in [output : Seq(StreamEvents), taken : Seq(StreamEvents)]
      /\ told'.output = told.output \o events /\ told'.taken = told.taken
  BY <1>1, <1>3 DEF StreamInv, StreamTypeOK
<1>6. /\ reader' \in [attempts : Nat, at : ReaderStates, inHand : StreamEvents \union {"none"}]
      /\ reader'.at = (IF reader.at = "asleep" THEN "ready" ELSE reader.at)
      /\ reader'.inHand = reader.inHand
  BY <1>1 DEF StreamInv, StreamTypeOK, ReaderStates
<1>7. told'.output = told'.taken \o stream'.queue
  <2>1. (told.taken \o stream.queue) \o events = told.taken \o (stream.queue \o events)
    <3>1. \A t, q, e \in Seq(StreamEvents) : (t \o q) \o e = t \o (q \o e)
      BY ConcatAssociative, SMTT(30)
    <3>2. events \in Seq(StreamEvents)  OBVIOUS
    <3> QED BY ONLY <1>2, <3>1, <3>2
  <2>2. told.output = told.taken \o stream.queue  BY DEF StreamInv
  <2> QED BY <1>4, <1>5, <2>1, <2>2
<1>8. stream'.child = "nonzero" => ~ErrorFree(told'.output, Len(told'.output))
  BY <1>2, <1>4, <1>5, ErrorStays
<1>9. reader.at \notin {"idle", "finished"}
  BY DEF StreamInv
<1>10. StreamTypeOK'  BY <1>4, <1>5, <1>6 DEF StreamInv, StreamTypeOK
<1>11. reader'.at \notin {"asleep", "idle", "finished"}  BY <1>6, <1>9
<1>12. /\ reader'.at \in {"sending", "ready", "asleep", "finished"} =>
            ErrorFree(told'.taken, Len(told'.taken))
       /\ reader'.at = "handling" =>
            /\ told'.taken # <<>> /\ told'.taken[Len(told'.taken)] = reader'.inHand
            /\ ErrorFree(told'.taken, Len(told'.taken) - 1)
       /\ reader'.at = "restarted" => stream'.signalled
  BY <1>4, <1>5, <1>6 DEF StreamInv
<1>13. StrayWasTold'  BY DEF StreamInv, StrayWasTold
<1>14. agentKind' # "native" => stream'.queue \in Seq(PlainEvents)
  BY <1>4, ConcatProperties DEF StreamInv
<1>15. NoLostWakeup'  BY <1>11 DEF NoLostWakeup
<1> QED BY <1>4, <1>7, <1>8, <1>10, <1>11, <1>12, <1>13, <1>14, <1>15 DEF StreamInv

\* What the adapters make of a line are events of the stream.
LEMMA EventsAreEvents ==
  \A line : /\ EventsOf(line) \in Seq(StreamEvents)
            /\ agentKind # "native" => EventsOf(line) \in Seq(PlainEvents)
<1> SUFFICES ASSUME NEW line
             PROVE  /\ EventsOf(line) \in Seq(StreamEvents)
                    /\ agentKind # "native" => EventsOf(line) \in Seq(PlainEvents)
  OBVIOUS
<1>1. ASSUME NEW S, PlainEvents \subseteq S
      PROVE  /\ <<"tool">> \in Seq(S) /\ <<"complete">> \in Seq(S)
             /\ <<"error">> \in Seq(S) /\ <<"message">> \in Seq(S)
             /\ <<"usage", "complete">> \in Seq(S) /\ <<"message", "complete">> \in Seq(S)
  BY <1>1 DEF PlainEvents
<1>2. <<"falsy">> \in Seq(StreamEvents)  BY DEF StreamEvents
<1>3. PlainEvents \subseteq StreamEvents  BY DEF StreamEvents
<1>4. agentKind # "native" => EventsOf(line) \in Seq(PlainEvents)
  BY <1>1 DEF EventsOf, CodexEvents, ClaudeEvents, AntigravityEvents
<1>5. EventsOf(line) \in Seq(StreamEvents)
  BY <1>1, <1>2, <1>3 DEF EventsOf, NativeEvents, CodexEvents, ClaudeEvents, AntigravityEvents
<1> QED BY <1>4, <1>5

\* Every callback of the child, every turn of the loop and every operator's request
\* keeps the invariant.
LEMMA StreamStep == ASSUME StreamInv, [StreamNext]_streamVars PROVE StreamInv'
<1>0. /\ stream \in SessionRecords /\ stream.queue \in Seq(StreamEvents)
      /\ reader \in [attempts : Nat, at : ReaderStates, inHand : StreamEvents \union {"none"}]
      /\ told \in [output : Seq(StreamEvents), taken : Seq(StreamEvents)]
      /\ told.output \in Seq(StreamEvents) /\ told.taken \in Seq(StreamEvents)
      /\ requests \in [cancel : BOOLEAN, restart : BOOLEAN]
  BY DEF StreamInv, StreamTypeOK, SessionRecords
<1>1. ASSUME NEW k \in AgentKinds, StartAgent(k) PROVE StreamInv'
  <2>1. /\ reader.at \in {"idle", "finished", "failed", "restarted"}
        /\ reader' = [attempts |-> reader.attempts + 1, at |-> "sending", inHand |-> "none"]
        /\ stream' = NewSession(IF k = "native" THEN "running" ELSE "none")
        /\ strays' = IF stream.child = "running"
               THEN strays \union {[attempt |-> reader.attempts, left |-> reader.at,
                                    signalled |-> stream.signalled]}
               ELSE strays
        /\ told' = NothingTold /\ requests' = [requests EXCEPT !.restart = FALSE]
    BY <1>1 DEF StartAgent
  <2>2. /\ <<>> \in Seq(StreamEvents) /\ <<>> \in Seq(PlainEvents)
        /\ <<>> \o <<>> = <<>> /\ Len(<<>>) = 0
    BY EmptySeq, ConcatEmptySeq
  <2>3. /\ stream' \in SessionRecords /\ stream'.queue = <<>> /\ ~stream'.ended
        /\ stream'.child \in {"running", "none"}
    BY <2>1, <2>2 DEF NewSession, SessionRecords
  <2>4. /\ told' \in [output : Seq(StreamEvents), taken : Seq(StreamEvents)]
        /\ told'.output = <<>> /\ told'.taken = <<>>
    BY <2>1, <2>2 DEF NothingTold
  <2>5. reader.attempts + 1 \in Nat  BY <1>0
  <2>6. /\ reader' \in [attempts : Nat, at : ReaderStates, inHand : StreamEvents \union {"none"}]
        /\ reader'.at = "sending"
    BY <2>1, <2>5 DEF ReaderStates
  <2>7. requests' \in [cancel : BOOLEAN, restart : BOOLEAN]  BY <1>0, <2>1
  <2>8. StrayWasTold'
    <3>1. CASE stream.child = "running"
      <4>1. stream.signalled \/ reader.at = "failed"  BY <2>1, <3>1 DEF StreamInv
      <4> QED BY <2>1, <3>1, <4>1 DEF StreamInv, StrayWasTold
    <3>2. CASE stream.child # "running"
      BY <2>1, <3>2 DEF StreamInv, StrayWasTold
    <3> QED BY <3>1, <3>2
  <2>9. ErrorFree(told'.taken, Len(told'.taken))  BY <2>2, <2>4 DEF ErrorFree
  <2> QED BY <2>2, <2>3, <2>4, <2>6, <2>7, <2>8, <2>9 DEF StreamInv, StreamTypeOK, NoLostWakeup
<1>2. CASE SendPrompt
  <2>1. /\ reader.at = "sending" /\ UNCHANGED <<agentKind, requests, told, strays>>
        /\ stream' = [stream EXCEPT !.child = IF stream.child = "none" THEN "running" ELSE stream.child]
        /\ reader' = [reader EXCEPT !.at = "ready"]
    BY <1>2 DEF SendPrompt
  <2>2. /\ stream' \in SessionRecords /\ stream'.queue = stream.queue
        /\ stream'.ended = stream.ended /\ stream'.signalled = stream.signalled
        /\ stream'.child \in {"zero", "nonzero"} => stream'.child = stream.child
        /\ stream.child \in {"zero", "nonzero"} => stream'.child = stream.child
    BY <1>0, <2>1 DEF SessionRecords
  <2>3. /\ reader' \in [attempts : Nat, at : ReaderStates, inHand : StreamEvents \union {"none"}]
        /\ reader'.at = "ready"
    BY <1>0, <2>1 DEF ReaderStates
  <2> QED BY <2>1, <2>2, <2>3 DEF StreamInv, StreamTypeOK, StrayWasTold, NoLostWakeup
<1>3. CASE SpawnFails
  <2> DEFINE unborn == [stream EXCEPT !.child = "failed"]
  <2>1. stream.child = "running" /\ UNCHANGED <<agentKind, requests, strays>>  BY <1>3 DEF SpawnFails
  <2>2. /\ unborn \in SessionRecords /\ unborn.queue = stream.queue /\ unborn.child = "failed"
        /\ unborn.signalled = stream.signalled /\ unborn.ended = stream.ended
    BY <1>0 DEF SessionRecords
  <2>3. ~stream.ended  BY <2>1 DEF StreamInv
  <2>4. CASE agentKind = "native"
    <3>1. stream' = unborn /\ reader' = [reader EXCEPT !.at = "host died"] /\ told' = told
      BY <1>3, <2>4 DEF SpawnFails
    <3>2. /\ reader' \in [attempts : Nat, at : ReaderStates, inHand : StreamEvents \union {"none"}]
          /\ reader'.at = "host died"
      BY <1>0, <3>1 DEF ReaderStates, Over
    <3> HIDE DEF unborn
    <3> QED BY <2>1, <2>2, <2>3, <3>1, <3>2 DEF StreamInv, StreamTypeOK, StrayWasTold, NoLostWakeup
  <2>5. CASE agentKind # "native"
    <3>1. Push(unborn, <<"error">>)  BY <1>3, <2>5 DEF SpawnFails
    <3>2. <<"error">> \in Seq(StreamEvents) /\ <<"error">> \in Seq(PlainEvents)
      BY DEF StreamEvents, PlainEvents
    <3> HIDE DEF unborn
    <3> QED BY <2>1, <2>2, <2>3, <3>1, <3>2, PushStep
  <2> QED BY <2>4, <2>5
<1>4. ASSUME NEW line \in OutputLines, PrintLine(line) PROVE StreamInv'
  <2> DEFINE more == [stream EXCEPT !.printed = stream.printed + 1]
  <2>1. /\ stream.child = "running" /\ UNCHANGED <<agentKind, requests, strays>>
        /\ Push(more, EventsOf(line))
    BY <1>4 DEF PrintLine
  <2>2. stream.printed + 1 \in Nat  BY <1>0 DEF SessionRecords
  <2>3. /\ more \in SessionRecords /\ more.queue = stream.queue /\ more.child = "running"
        /\ more.signalled = stream.signalled /\ more.ended = stream.ended
    BY <1>0, <2>1, <2>2 DEF SessionRecords
  <2>4. ~stream.ended  BY <2>1 DEF StreamInv
  <2> HIDE DEF more
  <2> QED BY <2>1, <2>3, <2>4, EventsAreEvents, PushStep
<1>5. ASSUME NEW code \in {"zero", "nonzero"}, CloseChild(code) PROVE StreamInv'
  <2> DEFINE closed == [stream EXCEPT !.child = code, !.ended = TRUE]
  <2>1. stream.child \in {"running", "failed"} /\ UNCHANGED <<agentKind, requests, strays>>
    BY <1>5 DEF CloseChild
  <2>2. /\ closed \in SessionRecords /\ closed.queue = stream.queue /\ closed.child = code
        /\ closed.signalled = stream.signalled /\ closed.ended = TRUE
    BY <1>0 DEF SessionRecords
  <2>3. CASE code = "nonzero"
    <3>1. Push(closed, <<"error">>)  BY <1>5, <2>3 DEF CloseChild
    <3>2. <<"error">> \in Seq(StreamEvents) /\ <<"error">> \in Seq(PlainEvents)
      BY DEF StreamEvents, PlainEvents
    <3>3. ~ErrorFree(<<"error">>, Len(<<"error">>))  BY DEF ErrorFree
    <3> HIDE DEF closed
    <3> QED BY <2>1, <2>2, <2>3, <3>1, <3>2, <3>3, PushStep
  <2>4. CASE code = "zero"
    <3>1. stream' = closed /\ WakeReader /\ told' = told  BY <1>5, <2>4 DEF CloseChild
    <3>2. /\ reader' \in [attempts : Nat, at : ReaderStates, inHand : StreamEvents \union {"none"}]
          /\ reader'.at = (IF reader.at = "asleep" THEN "ready" ELSE reader.at)
          /\ reader'.inHand = reader.inHand
      BY <1>0, <3>1 DEF WakeReader, ReaderStates
    <3>3. reader.at \notin {"idle", "finished"}  BY <2>1 DEF StreamInv
    <3> HIDE DEF closed
    <3> QED BY <2>1, <2>2, <2>4, <3>1, <3>2, <3>3 DEF StreamInv, StreamTypeOK, StrayWasTold, NoLostWakeup
  <2> QED BY <2>3, <2>4
<1>6. ASSUME NEW s \in strays, StrayCloses(s) PROVE StreamInv'
  <2>1. strays' = strays \ {s} /\ UNCHANGED <<agentKind, stream, reader, requests, told>>
    BY <1>6 DEF StrayCloses
  <2>2. NoLostWakeup' /\ StrayWasTold'  BY <2>1 DEF StreamInv, StrayWasTold, NoLostWakeup
  <2>3. StreamTypeOK'  BY <2>1 DEF StreamInv, StreamTypeOK
  <2> QED BY <2>1, <2>2, <2>3 DEF StreamInv
<1>7. CASE TakeEvent \/ PassOver
  <2> DEFINE e == Head(stream.queue)
             at == IF PassOver THEN "asleep"
                   ELSE IF requests.cancel THEN "cancelled" ELSE "handling"
             sent == IF PassOver THEN stream.signalled ELSE stream.signalled \/ requests.cancel
  <2>1. /\ reader.at = "ready" /\ stream.queue # <<>> /\ UNCHANGED <<agentKind, requests, strays>>
        /\ at = "asleep" => e = "falsy"
        /\ stream' = [stream EXCEPT !.queue = Tail(stream.queue), !.signalled = sent]
        /\ reader' = [reader EXCEPT !.inHand = e, !.at = at]
        /\ told' = [told EXCEPT !.taken = Append(told.taken, e)]
    <3>1. CASE PassOver
      <4>1. stream = [stream EXCEPT !.signalled = stream.signalled]  BY <1>0 DEF SessionRecords
      <4>2. /\ e = "falsy" /\ at = "asleep" /\ sent = stream.signalled
            /\ stream' = [stream EXCEPT !.queue = Tail(stream.queue)]
        BY <3>1 DEF PassOver
      <4>3. stream' = [stream EXCEPT !.queue = Tail(stream.queue), !.signalled = stream.signalled]
        BY <1>0, <4>2 DEF SessionRecords
      <4>4. reader' = [reader EXCEPT !.at = "asleep", !.inHand = "falsy"]  BY <3>1 DEF PassOver
      <4>5. reader' = [reader EXCEPT !.inHand = "falsy", !.at = "asleep"]  BY <1>0, <4>4
      <4> QED BY <3>1, <4>2, <4>3, <4>5 DEF PassOver
    <3>2. CASE ~PassOver
      <4>1. TakeEvent /\ at # "asleep"  BY <1>7, <3>2
      <4> QED BY <3>2, <4>1 DEF TakeEvent
    <3> QED BY <3>1, <3>2
  <2>20. at \in {"asleep", "cancelled", "handling"} /\ sent \in BOOLEAN
    BY <1>0 DEF SessionRecords
  <2> HIDE DEF at, sent
  <2>2. e \in StreamEvents /\ Tail(stream.queue) \in Seq(StreamEvents)
    BY <1>0, <2>1, HeadTailProperties
  <2>3. Append(told.taken, e) \o Tail(stream.queue) = told.taken \o stream.queue
    <3>1. /\ told.taken \in Seq(StreamEvents) /\ stream.queue \in Seq(StreamEvents)
          /\ stream.queue # <<>>
      BY <1>0, <2>1
    <3> QED BY <3>1, TakeHead
  <2> HIDE DEF e
  <2>4. /\ Append(told.taken, e) \in Seq(StreamEvents) /\ Append(told.taken, e) # <<>>
        /\ Len(Append(told.taken, e)) = Len(told.taken) + 1 /\ Len(told.taken) \in Nat
        /\ \A i \in 1..Len(told.taken) : Append(told.taken, e)[i] = told.taken[i]
        /\ Append(told.taken, e)[Len(told.taken) + 1] = e
    BY <1>0, <2>2, AppendProperties
  <2>5. /\ stream' \in SessionRecords /\ stream'.queue = Tail(stream.queue)
        /\ stream'.child = stream.child /\ stream'.ended = stream.ended
    BY <1>0, <2>1, <2>2, <2>20 DEF SessionRecords
  <2>6. /\ reader' \in [attempts : Nat, at : ReaderStates, inHand : StreamEvents \union {"none"}]
        /\ reader'.at = at /\ reader'.inHand = e
    BY <1>0, <2>1, <2>2, <2>20 DEF ReaderStates, Over
  <2>7. /\ told' \in [output : Seq(StreamEvents), taken : Seq(StreamEvents)]
        /\ told'.output = told.output /\ told'.taken = Append(told.taken, e)
    BY <1>0, <2>1, <2>4
  <2>8. told'.output = told'.taken \o stream'.queue
    BY <2>3, <2>5, <2>7 DEF StreamInv
  <2>9. /\ told'.taken # <<>> /\ told'.taken[Len(told'.taken)] = reader'.inHand
        /\ ErrorFree(told'.taken, Len(told'.taken) - 1)
    <3>1. ErrorFree(told.taken, Len(told.taken))  BY <2>1 DEF StreamInv
    <3>2. (Len(told.taken) + 1) - 1 = Len(told.taken)  BY <2>4
    <3> QED BY <2>4, <2>6, <2>7, <3>1, <3>2 DEF ErrorFree
  <2>10. StreamTypeOK' /\ StrayWasTold'
    BY <1>0, <2>1, <2>5, <2>6, <2>7 DEF StreamInv, StreamTypeOK, StrayWasTold
  <2>11. agentKind # "native" => Tail(stream.queue) \in Seq(PlainEvents) /\ e \in PlainEvents
    BY <2>1, HeadTailProperties DEF StreamInv, e
  <2>12. NoLostWakeup'  BY <2>1, <2>6, <2>11 DEF NoLostWakeup, PlainEvents
  <2>13. at = "asleep" => ErrorFree(told'.taken, Len(told'.taken))
    <3>1. SUFFICES ASSUME at = "asleep" PROVE ErrorFree(told'.taken, Len(told'.taken))
      OBVIOUS
    <3>2. e # "error"  BY <2>1, <3>1
    <3>3. Len(told'.taken) = Len(told.taken) + 1  BY <2>4, <2>7
    <3>4. \A i \in 1..Len(told'.taken) : i \in 1..(Len(told'.taken) - 1) \/ i = Len(told'.taken)
      BY <2>4, <3>3
    <3> QED BY <2>6, <2>9, <3>2, <3>4 DEF ErrorFree
  <2> QED BY <2>1, <2>5, <2>6, <2>7, <2>8, <2>9, <2>10, <2>11, <2>12, <2>13, <2>20 DEF StreamInv
<1>8. CASE HandleEvent
  <2>1. /\ reader.at = "handling" /\ UNCHANGED <<agentKind, requests, told, strays>>
        /\ reader' = [reader EXCEPT !.at = AfterEvent]
        /\ stream' = [stream EXCEPT !.signalled = stream.signalled \/ AfterEvent = "restarted"]
    BY <1>8 DEF HandleEvent
  <2>2. /\ AfterEvent \in {"failed", "restarted", "ready"}
        /\ AfterEvent = "ready" => reader.inHand # "error"
    BY DEF AfterEvent
  <2>3. /\ stream' \in SessionRecords /\ stream'.queue = stream.queue
        /\ stream'.child = stream.child /\ stream'.ended = stream.ended
        /\ AfterEvent = "restarted" => stream'.signalled
    BY <1>0, <2>1 DEF SessionRecords
  <2>4. /\ reader' \in [attempts : Nat, at : ReaderStates, inHand : StreamEvents \union {"none"}]
        /\ reader'.at = AfterEvent
    BY <1>0, <2>1, <2>2 DEF ReaderStates, Over
  <2>5. reader'.at = "ready" => ErrorFree(told.taken, Len(told.taken))
    <3>1. /\ told.taken # <<>> /\ told.taken[Len(told.taken)] = reader.inHand
          /\ ErrorFree(told.taken, Len(told.taken) - 1)
      BY <2>1 DEF StreamInv
    <3>2. Len(told.taken) \in Nat  BY <1>0
    <3>3. \A i \in 1..Len(told.taken) : i \in 1..(Len(told.taken) - 1) \/ i = Len(told.taken)
      BY <3>2
    <3> QED BY <2>2, <2>4, <3>1, <3>3 DEF ErrorFree
  <2>6. StreamTypeOK' /\ StrayWasTold'
    BY <1>0, <2>1, <2>3, <2>4 DEF StreamInv, StreamTypeOK, StrayWasTold
  <2> HIDE DEF AfterEvent
  <2> QED BY <2>1, <2>2, <2>3, <2>4, <2>5, <2>6 DEF StreamInv, NoLostWakeup
<1>13. CASE HandlingThrows
  <2>1. /\ reader.at = "handling" /\ UNCHANGED <<agentKind, stream, requests, told, strays>>
        /\ reader' = [reader EXCEPT !.at = "failed"]
    BY <1>13 DEF HandlingThrows
  <2>2. /\ reader' \in [attempts : Nat, at : ReaderStates, inHand : StreamEvents \union {"none"}]
        /\ reader'.at = "failed"
    BY <1>0, <2>1 DEF ReaderStates, Over
  <2> QED BY <2>1, <2>2 DEF StreamInv, StreamTypeOK, StrayWasTold, NoLostWakeup
<1>9. ASSUME NEW at \in {"asleep", "finished"}, NEW e \in {"none", reader.inHand},
             reader.at = "ready",
             reader' = [reader EXCEPT !.at = at, !.inHand = e], stream.queue = <<>>,
             at = "asleep" <=> ~stream.ended, UNCHANGED <<agentKind, stream, requests, told, strays>>
      PROVE  StreamInv'
  <2>1. /\ reader' \in [attempts : Nat, at : ReaderStates, inHand : StreamEvents \union {"none"}]
        /\ reader'.at = at
    BY <1>0, <1>9 DEF ReaderStates, Over
  <2>2. ErrorFree(told.taken, Len(told.taken))  BY <1>9 DEF StreamInv
  <2>3. told.output = told.taken
    <3>1. told.taken \o <<>> = told.taken  BY <1>0, ConcatEmptySeq
    <3> QED BY <1>9, <3>1 DEF StreamInv
  <2>4. at = "finished" => stream.child = "zero"
    BY <1>9, <2>2, <2>3 DEF StreamInv
  <2> QED BY <1>9, <2>1, <2>2, <2>4 DEF StreamInv, StreamTypeOK, StrayWasTold, NoLostWakeup
<1>10. CASE AwaitEvent
  BY <1>9, <1>10 DEF AwaitEvent
<1>14. CASE Drained
  <2>1. reader' = [reader EXCEPT !.at = "finished"]  BY <1>14 DEF Drained
  <2>2. reader' = [reader EXCEPT !.at = "finished", !.inHand = reader.inHand]  BY <1>0, <2>1
  <2> QED BY <1>9, <1>14, <2>2 DEF Drained
<1>11. CASE FlagCancelled \/ AskRestart
  <2>1. /\ requests' \in [cancel : BOOLEAN, restart : BOOLEAN]
        /\ UNCHANGED <<agentKind, stream, reader, told, strays>>
    BY <1>0, <1>11 DEF FlagCancelled, AskRestart
  <2>2. NoLostWakeup' /\ StrayWasTold'  BY <2>1 DEF StreamInv, StrayWasTold, NoLostWakeup
  <2>3. StreamTypeOK'  BY <2>1 DEF StreamInv, StreamTypeOK
  <2> QED BY <2>1, <2>2, <2>3 DEF StreamInv
<1>12. CASE UNCHANGED streamVars
  BY <1>12 DEF streamVars, StreamInv, StreamTypeOK, StrayWasTold, NoLostWakeup
<1> QED BY <1>1, <1>2, <1>3, <1>4, <1>5, <1>6, <1>7, <1>8, <1>10, <1>11, <1>12,
       <1>13, <1>14 DEF StreamNext

\* In whatever order the lines, the exit, the error of the spawn, the loop's awaits, a
\* cancel, a throw and a pending restart come: no wake-up is lost but the one a falsy event
\* of the native adapter swallows, an attempt that finishes has seen every event and no
\* error, and a child left behind was told or its attempt had failed.
THEOREM StreamHolds == StreamSpec => []StreamIsSound
<1>1. StreamInit => StreamInv
  <2> SUFFICES ASSUME StreamInit PROVE StreamInv
    OBVIOUS
  <2>1. /\ <<>> \in Seq(StreamEvents) /\ <<>> \in Seq(PlainEvents)
        /\ <<>> \o <<>> = <<>> /\ Len(<<>>) = 0
    BY EmptySeq, ConcatEmptySeq
  <2>2. /\ stream \in SessionRecords /\ stream.queue = <<>> /\ ~stream.ended
        /\ stream.child = "none"
    BY <2>1 DEF StreamInit, NewSession, SessionRecords
  <2>3. /\ told \in [output : Seq(StreamEvents), taken : Seq(StreamEvents)]
        /\ told.output = <<>> /\ told.taken = <<>>
    BY <2>1 DEF StreamInit, NothingTold
  <2>4. /\ reader \in [attempts : Nat, at : ReaderStates, inHand : StreamEvents \union {"none"}]
        /\ reader.at = "idle" /\ requests \in [cancel : BOOLEAN, restart : BOOLEAN] /\ strays = {}
    BY DEF StreamInit, ReaderStates, Over
  <2> QED BY <2>1, <2>2, <2>3, <2>4 DEF StreamInv, StreamTypeOK, StrayWasTold, NoLostWakeup
<1>2. StreamInv => StreamIsSound
  <2> SUFFICES ASSUME StreamInv PROVE StreamIsSound
    OBVIOUS
  <2>1. ASSUME reader.at = "finished"
        PROVE  /\ stream.child = "zero" /\ told.taken = told.output
               /\ \A i \in DOMAIN told.taken : told.taken[i] # "error"
    <3>1. told.taken \in Seq(StreamEvents)  BY DEF StreamInv, StreamTypeOK
    <3>2. told.taken \o <<>> = told.taken  BY <3>1, ConcatEmptySeq
    <3>3. /\ told.output = told.taken \o stream.queue /\ stream.queue = <<>>
          /\ stream.child = "zero" /\ ErrorFree(told.taken, Len(told.taken))
      BY <2>1 DEF StreamInv
    <3>4. DOMAIN told.taken = 1..Len(told.taken)  BY <3>1
    <3>5. told.taken = told.output  BY <3>2, <3>3
    <3> QED BY <3>3, <3>4, <3>5 DEF ErrorFree
  <2>2. FinishedIsWhole  BY <2>1 DEF FinishedIsWhole
  <2> QED BY <2>2 DEF StreamInv, StreamIsSound
<1> QED BY <1>1, <1>2, StreamStep, PTL DEF StreamSpec

-----------------------------------------------------------------------------
(* ContextPaging: what its recursive functions compute. *)

\* Induction over the numbers up to n, for a set of numbers: what is at 0 and passes from each to
\* the next is everywhere.
LEMMA UpTo ==
  ASSUME NEW n \in Nat, NEW G, 0 \in G, \A i \in 0..(n - 1) : i \in G => i + 1 \in G
  PROVE  \A i \in 0..n : i \in G
<1> DEFINE Bad == {i \in 0..n : i \notin G}
<1> SUFFICES ASSUME Bad # {} PROVE FALSE  OBVIOUS
<1>1. PICK R : IsWellFoundedOn(R, Nat) /\ \A x, y \in Nat : y < x => <<y, x>> \in R
  <2>1. \A x, y \in Nat : y < x => <<y, x>> \in OpToRel(<, Nat)
    BY DEF OpToRel
  <2> QED BY <2>1, NatLessThanWellFounded
<1>2. PICK x \in Bad : \A y \in Bad : ~(<<y, x>> \in R)
  <2>1. Bad \subseteq Nat  OBVIOUS
  <2> HIDE DEF Bad
  <2> QED BY <1>1, <2>1, WFMin
<1>3. x \in 0..n /\ x \notin G /\ x # 0  BY <1>2
<1>4. x - 1 \in 0..(n - 1) /\ x - 1 \in Nat /\ x \in Nat /\ x - 1 < x /\ (x - 1) + 1 = x  BY <1>3
<1>5. <<x - 1, x>> \in R  BY <1>1, <1>4
<1>6. x - 1 \in G  BY <1>2, <1>4, <1>5
<1> QED BY <1>3, <1>4, <1>6

PageSet(U) == [key : U, chars : Nat]

\* The sums are natural numbers and add one page at a time.
LEMMA CharactersAre ==
  ASSUME NEW U, NEW q \in Seq(PageSet(U))
  PROVE  /\ Characters(q) \in [0..Len(q) -> Nat]
         /\ Characters(q)[0] = 0
         /\ \A i \in 1..Len(q) : Characters(q)[i] = Characters(q)[i - 1] + q[i].chars
<1> DEFINE n == Len(q)
           P(g) == g = [i \in 0..n |-> IF i = 0 THEN 0 ELSE g[i - 1] + q[i].chars]
           Fits(f, k) == f[0] = 0 /\ \A i \in 1..k : f[i] = f[i - 1] + q[i].chars
           G == {k \in 0..n : \E f \in [0..k -> Nat] : Fits(f, k)}
<1>1. n \in Nat /\ \A i \in 1..n : q[i].chars \in Nat
  <2>1. \A i \in 1..n : q[i] \in PageSet(U)  OBVIOUS
  <2> QED BY <2>1 DEF PageSet
<1>2. 0 \in G
  <2> DEFINE z == [i \in 0..0 |-> 0]
  <2>1. z \in [0..0 -> Nat] /\ z[0] = 0 /\ 0 \in 0..n  BY <1>1
  <2>2. \A i \in 1..0 : FALSE  OBVIOUS
  <2> HIDE DEF z
  <2>3. Fits(z, 0)  BY <2>1, <2>2
  <2> QED BY <2>1, <2>3
<1>3. ASSUME NEW k \in 0..(n - 1), k \in G PROVE k + 1 \in G
  <2>1. PICK f \in [0..k -> Nat] : Fits(f, k)  BY <1>3
  <2> DEFINE g == [i \in 0..(k + 1) |-> IF i <= k THEN f[i] ELSE f[k] + q[k + 1].chars]
  <2>2. k + 1 \in 1..n /\ f[k] + q[k + 1].chars \in Nat  BY <1>1
  <2>3. g \in [0..(k + 1) -> Nat]  BY <2>2
  <2>4. ASSUME NEW i \in 1..(k + 1) PROVE g[i] = g[i - 1] + q[i].chars
    <3>1. CASE i <= k
      <4>1. i \in 1..k /\ i - 1 \in 0..k /\ i \in 0..k  BY <3>1
      <4>2. g[i] = f[i] /\ g[i - 1] = f[i - 1]  BY <3>1, <4>1
      <4> QED BY <2>1, <4>1, <4>2
    <3>2. CASE i = k + 1
      <4>1. k + 1 \in 0..(k + 1) /\ k \in 0..(k + 1) /\ ~(k + 1 <= k) /\ k <= k /\ i - 1 = k  BY <3>2
      <4>2. g[k + 1] = f[k] + q[k + 1].chars /\ g[k] = f[k]  BY <4>1
      <4> HIDE DEF g
      <4> QED BY <3>2, <4>1, <4>2
    <3> QED BY <3>1, <3>2
  <2>5. g[0] = 0
    <3>1. 0 \in 0..(k + 1) /\ 0 <= k  OBVIOUS
    <3> QED BY <2>1, <3>1
  <2> HIDE DEF g
  <2>6. Fits(g, k + 1)  BY <2>4, <2>5
  <2>7. k + 1 \in 0..n  BY <1>1, <2>2
  <2> QED BY <2>3, <2>6, <2>7
<1>4. n \in G
  <2> HIDE DEF G, n
  <2>1. \A i \in 0..n : i \in G  BY <1>1, <1>2, <1>3, UpTo
  <2>2. n \in 0..n  BY <1>1
  <2> QED BY <2>1, <2>2
<1>5. PICK f \in [0..n -> Nat] : Fits(f, n)  BY <1>4
<1>6. P(f)
  <2>1. ASSUME NEW i \in 0..n PROVE f[i] = IF i = 0 THEN 0 ELSE f[i - 1] + q[i].chars
    BY <1>5
  <2> QED BY <2>1
<1>7. Characters(q) = CHOOSE g : P(g)  BY DEF Characters
<1> HIDE DEF P
<1>8. P(Characters(q))  BY <1>6, <1>7
<1> DEFINE c == Characters(q)
<1>9. /\ c = [i \in 0..n |-> IF i = 0 THEN 0 ELSE c[i - 1] + q[i].chars]
  BY <1>8 DEF P
<1> HIDE DEF c
<1>10. c[0] = 0 /\ \A i \in 1..n : c[i] = c[i - 1] + q[i].chars
  <2> HIDE DEF n
  <2>1. 0 \in 0..n /\ \A i \in 1..n : i \in 0..n /\ i # 0  BY <1>1
  <2>2. \A i \in 0..n : c[i] = IF i = 0 THEN 0 ELSE c[i - 1] + q[i].chars  BY <1>9, Zenon
  <2> QED BY <2>1, <2>2
<1>11. \A i \in 0..n : i \in {j \in 0..n : c[j] \in Nat}
  <2> DEFINE H == {j \in 0..n : c[j] \in Nat}
  <2>1. 0 \in H  BY <1>1, <1>10
  <2>2. ASSUME NEW i \in 0..(n - 1), i \in H PROVE i + 1 \in H
    <3>1. i + 1 \in 1..n /\ (i + 1) - 1 = i  BY <1>1
    <3>2. c[i + 1] = c[i] + q[i + 1].chars  BY <1>10, <3>1
    <3>3. c[i] \in Nat /\ q[i + 1].chars \in Nat  BY <1>1, <2>2, <3>1
    <3> QED BY <3>1, <3>2, <3>3
  <2> HIDE DEF H
  <2>3. \A i \in 0..n : i \in H  BY <1>1, <2>1, <2>2, UpTo
  <2> QED BY <2>3 DEF H
<1>12. c \in [0..n -> Nat]
  <2>1. \A i \in 0..n : c[i] \in Nat  BY <1>11
  <2>2. DOMAIN c = 0..n  BY <1>9
  <2>3. c = [i \in 0..n |-> c[i]]
    <3>1. \A i \in 0..n : c[i] = IF i = 0 THEN 0 ELSE c[i - 1] + q[i].chars  BY <1>9, Zenon
    <3>2. [i \in 0..n |-> IF i = 0 THEN 0 ELSE c[i - 1] + q[i].chars] = [i \in 0..n |-> c[i]]  BY <3>1
    <3> QED BY <1>9, <3>2
  <2> QED BY <2>1, <2>3
<1> QED BY <1>10, <1>12 DEF c

LEMMA SameAdded ==
  ASSUME NEW a \in Nat, NEW b \in Nat, NEW c \in Nat, NEW d \in Nat, NEW e \in Nat, a + d = b + e
  PROVE  (a + c) + d = (b + c) + e
OBVIOUS

\* Two runs of pages with the same lengths add the same to both sums.
RunsAgree(q, r) ==
  \A x, y, k, d, e \in Nat :
    /\ x + k <= Len(q) /\ y + k <= Len(r) /\ \A i \in 1..k : q[x + i].chars = r[y + i].chars
    /\ Characters(q)[x] + d = Characters(r)[y] + e
    => Characters(q)[x + k] + d = Characters(r)[y + k] + e

LEMMA CharactersRun ==
  ASSUME NEW U, NEW q \in Seq(PageSet(U)), NEW r \in Seq(PageSet(U))
  PROVE  RunsAgree(q, r)
<1> SUFFICES \A x, y, k, d, e \in Nat :
               /\ x + k <= Len(q) /\ y + k <= Len(r) /\ \A i \in 1..k : q[x + i].chars = r[y + i].chars
               /\ Characters(q)[x] + d = Characters(r)[y] + e
               => Characters(q)[x + k] + d = Characters(r)[y + k] + e
  BY DEF RunsAgree
<1> TAKE x, y, k, d, e \in Nat
<1> HAVE /\ x + k <= Len(q) /\ y + k <= Len(r) /\ \A i \in 1..k : q[x + i].chars = r[y + i].chars
         /\ Characters(q)[x] + d = Characters(r)[y] + e
<1> DEFINE a == Characters(q)
           b == Characters(r)
           G == {i \in 0..k : a[x + i] + d = b[y + i] + e}
<1>1. a \in [0..Len(q) -> Nat] /\ \A i \in 1..Len(q) : a[i] = a[i - 1] + q[i].chars  BY CharactersAre
<1>2. b \in [0..Len(r) -> Nat] /\ \A i \in 1..Len(r) : b[i] = b[i - 1] + r[i].chars  BY CharactersAre
<1>0. /\ Len(q) \in Nat /\ Len(r) \in Nat
      /\ \A i \in 1..Len(q) : q[i].chars \in Nat
  <2>1. Len(q) \in Nat /\ Len(r) \in Nat /\ \A i \in 1..Len(q) : q[i] \in PageSet(U)  OBVIOUS
  <2> QED BY <2>1 DEF PageSet
<1>3. a[x] + d = b[y] + e  OBVIOUS
<1> HIDE DEF a, b
<1>4. 0 \in G
  <2>1. 0 \in 0..k /\ x + 0 = x /\ y + 0 = y  OBVIOUS
  <2> QED BY <1>3, <2>1
<1>5. ASSUME NEW i \in 0..(k - 1), i \in G PROVE i + 1 \in G
  <2>1. /\ x + (i + 1) \in 1..Len(q) /\ y + (i + 1) \in 1..Len(r) /\ i + 1 \in 1..k /\ i + 1 \in 0..k
        /\ (x + (i + 1)) - 1 = x + i /\ (y + (i + 1)) - 1 = y + i /\ x + i \in 0..Len(q) /\ y + i \in 0..Len(r)
    <3> DEFINE m == Len(q)
               n == Len(r)
    <3>1. m \in Nat /\ n \in Nat /\ x + k <= m /\ y + k <= n  BY <1>0, Zenon
    <3> HIDE DEF m, n
    <3>2. x + (i + 1) \in 1..m /\ y + (i + 1) \in 1..n /\ x + i \in 0..m /\ y + i \in 0..n  BY <3>1
    <3>3. i + 1 \in 1..k /\ i + 1 \in 0..k /\ (x + (i + 1)) - 1 = x + i /\ (y + (i + 1)) - 1 = y + i  OBVIOUS
    <3> QED BY <3>2, <3>3, Zenon DEF m, n
  <2>2. a[x + (i + 1)] = a[x + i] + q[x + (i + 1)].chars  BY <1>1, <2>1
  <2>3. b[y + (i + 1)] = b[y + i] + r[y + (i + 1)].chars  BY <1>2, <2>1
  <2>4. a[x + i] + d = b[y + i] + e  BY <1>5
  <2>5. q[x + (i + 1)].chars = r[y + (i + 1)].chars /\ q[x + (i + 1)].chars \in Nat  BY <1>0, <2>1
  <2>6. a[x + i] \in Nat /\ b[y + i] \in Nat  BY <1>1, <1>2, <2>1
  <2>7. a[x + (i + 1)] + d = b[y + (i + 1)] + e
    <3> DEFINE ax == a[x + i]
               by == b[y + i]
               c == q[x + (i + 1)].chars
               ax1 == a[x + (i + 1)]
               by1 == b[y + (i + 1)]
    <3>1. ax \in Nat /\ by \in Nat /\ c \in Nat /\ ax + d = by + e /\ ax1 = ax + c /\ by1 = by + c
      BY <2>2, <2>3, <2>4, <2>5, <2>6, Zenon
    <3> HIDE DEF ax, by, c, ax1, by1
    <3>2. ax1 + d = by1 + e  BY <3>1
    <3> QED BY <3>2 DEF ax1, by1
  <2> QED BY <2>1, <2>7
<1>6. k \in G
  <2> HIDE DEF G
  <2>1. \A i \in 0..k : i \in G  BY <1>4, <1>5, UpTo
  <2> QED BY <2>1
<1> QED BY <1>6 DEF a, b

LEMMA CharactersPrefix ==
  ASSUME NEW U, NEW q \in Seq(PageSet(U)), NEW r \in Seq(PageSet(U)), NEW n \in Nat,
         n <= Len(q), n <= Len(r), \A i \in 1..n : q[i].chars = r[i].chars
  PROVE  Characters(q)[n] = Characters(r)[n] /\ Characters(q)[n] \in Nat
<1>1. Characters(q)[0] = 0 /\ Characters(r)[0] = 0  BY CharactersAre
<1>2. PICK z \in Nat : z = 0  OBVIOUS
<1>3. Characters(q)[z + n] + z = Characters(r)[z + n] + z
  <2>1. z + n <= Len(q) /\ z + n <= Len(r)  BY <1>2
  <2>2. \A i \in 1..n : q[z + i].chars = r[z + i].chars
    <3>1. \A i \in 1..n : z + i = i  BY <1>2
    <3> QED BY <3>1
  <2>3. Characters(q)[z] + z = Characters(r)[z] + z  BY <1>1, <1>2
  <2>4. RunsAgree(q, r)  BY CharactersRun
  <2> QED BY <2>1, <2>2, <2>3, <2>4, ZenonT(30) DEF RunsAgree
<1>4. Characters(q)[n] \in Nat /\ Characters(r)[n] \in Nat
  <2>1. n \in 0..Len(q) /\ n \in 0..Len(r)  OBVIOUS
  <2>2. Characters(q) \in [0..Len(q) -> Nat] /\ Characters(r) \in [0..Len(r) -> Nat]  BY CharactersAre
  <2> QED BY <2>1, <2>2
<1>5. z + n = n  BY <1>2
<1>6. Characters(q)[n] + z = Characters(r)[n] + z  BY <1>3, <1>5
<1> QED BY <1>2, <1>4, <1>6

\* A page more, a page in the place of another, and a page less.
LEMMA CharactersAppend ==
  ASSUME NEW U, NEW q \in Seq(PageSet(U)), NEW p \in PageSet(U)
  PROVE  Characters(Append(q, p))[Len(q) + 1] = Characters(q)[Len(q)] + p.chars
<1> DEFINE r == Append(q, p)
           n == Len(q)
<1>1. /\ r \in Seq(PageSet(U)) /\ n \in Nat /\ Len(r) = n + 1 /\ r[n + 1] = p
      /\ \A i \in 1..n : r[i] = q[i]
  OBVIOUS
<1> HIDE DEF r
<1>2. Characters(r)[n + 1] = Characters(r)[n] + p.chars
  <2>1. n + 1 \in 1..Len(r) /\ (n + 1) - 1 = n  BY <1>1
  <2> HIDE DEF n
  <2> QED BY <1>1, <2>1, CharactersAre
<1>3. Characters(q)[n] = Characters(r)[n]
  <2>1. n <= Len(q) /\ n <= Len(r) /\ \A i \in 1..n : q[i].chars = r[i].chars  BY <1>1
  <2> QED BY <1>1, <2>1, CharactersPrefix
<1> QED BY <1>2, <1>3 DEF r

LEMMA CharactersReplace ==
  ASSUME NEW U, NEW q \in Seq(PageSet(U)), NEW p \in PageSet(U), NEW e \in 1..Len(q)
  PROVE  Characters([q EXCEPT ![e] = p])[Len(q)] + q[e].chars = Characters(q)[Len(q)] + p.chars
<1> DEFINE r == [q EXCEPT ![e] = p]
           n == Len(q)
<1>1. /\ r \in Seq(PageSet(U)) /\ n \in Nat /\ Len(r) = n /\ r[e] = p
      /\ \A i \in 1..n : i # e => r[i] = q[i]
  OBVIOUS
<1>2. q[e].chars \in Nat /\ p.chars \in Nat
  <2>1. q[e] \in PageSet(U)  OBVIOUS
  <2> QED BY <2>1 DEF PageSet
<1> HIDE DEF r
<1>3. e - 1 \in Nat /\ e \in Nat /\ e - 1 <= n /\ e \in 1..n  BY <1>1
<1>4. Characters(q)[e - 1] = Characters(r)[e - 1] /\ Characters(q)[e - 1] \in Nat
  <2>1. e - 1 <= Len(q) /\ e - 1 <= Len(r)  BY <1>1, <1>3
  <2>2. \A i \in 1..(e - 1) : i \in 1..n /\ i # e  BY <1>3
  <2>3. \A i \in 1..(e - 1) : q[i].chars = r[i].chars  BY <1>1, <2>2
  <2> QED BY <1>1, <1>3, <2>1, <2>3, CharactersPrefix
<1>5. Characters(r)[e] = Characters(r)[e - 1] + p.chars /\ Characters(q)[e] = Characters(q)[e - 1] + q[e].chars
  <2>1. e \in 1..Len(r)  BY <1>1, <1>3
  <2>2. Characters(r)[e] = Characters(r)[e - 1] + r[e].chars  BY <1>1, <2>1, CharactersAre
  <2>3. Characters(q)[e] = Characters(q)[e - 1] + q[e].chars  BY CharactersAre
  <2> QED BY <1>1, <2>2, <2>3
<1>6. Characters(r)[e] + q[e].chars = Characters(q)[e] + p.chars
  <2> DEFINE c == Characters(q)[e - 1]
             x == q[e].chars
             y == p.chars
  <2>1. c \in Nat /\ x \in Nat /\ y \in Nat /\ Characters(r)[e] = c + y /\ Characters(q)[e] = c + x
    BY <1>2, <1>4, <1>5
  <2> HIDE DEF c, x, y
  <2>2. Characters(r)[e] + x = Characters(q)[e] + y  BY <2>1
  <2> QED BY <2>2 DEF x, y
<1>7. PICK k \in Nat : e + k = n
  <2>1. n - e \in Nat /\ e + (n - e) = n  BY <1>1, <1>3
  <2> QED BY <2>1
<1>8. Characters(r)[e + k] + q[e].chars = Characters(q)[e + k] + p.chars
  <2>1. RunsAgree(r, q)  BY <1>1, CharactersRun
  <2>2. \A i \in 1..k : e + i \in 1..n /\ e + i # e  BY <1>1, <1>3, <1>7
  <2>3. \A i \in 1..k : r[e + i].chars = q[e + i].chars  BY <1>1, <2>2
  <2>4. e + k <= Len(r) /\ e + k <= Len(q)  BY <1>1, <1>3, <1>7
  <2> DEFINE x == q[e].chars
             y == p.chars
             P(u, v, kk, dd, ee) ==
               /\ u + kk <= Len(r) /\ v + kk <= Len(q) /\ \A i \in 1..kk : r[u + i].chars = q[v + i].chars
               /\ Characters(r)[u] + dd = Characters(q)[v] + ee
             C(u, v, kk, dd, ee) == Characters(r)[u + kk] + dd = Characters(q)[v + kk] + ee
  <2>5. \A u, v, kk, dd, ee \in Nat : P(u, v, kk, dd, ee) => C(u, v, kk, dd, ee)  BY <2>1 DEF RunsAgree
  <2>6. P(e, e, k, x, y) /\ x \in Nat /\ y \in Nat  BY <1>2, <1>6, <2>3, <2>4
  <2> HIDE DEF P, C, x, y
  <2>7. C(e, e, k, x, y)  BY <1>3, <2>5, <2>6
  <2> QED BY <2>7 DEF C, x, y
<1> QED BY <1>7, <1>8 DEF r

LEMMA CharactersRemove ==
  ASSUME NEW U, NEW q \in Seq(PageSet(U)), NEW e \in 1..Len(q), NEW r \in Seq(PageSet(U)),
         Len(r) = Len(q) - 1,
         \A i \in 1..Len(r) : r[i] = IF i < e THEN q[i] ELSE q[i + 1]
  PROVE  Characters(r)[Len(r)] + q[e].chars = Characters(q)[Len(q)]
<1> DEFINE n == Len(q)
<1>1. n \in Nat /\ Len(r) = n - 1 /\ Len(r) \in Nat  OBVIOUS
<1>2. q[e].chars \in Nat
  <2>1. q[e] \in PageSet(U)  OBVIOUS
  <2> QED BY <2>1 DEF PageSet
<1>3. e - 1 \in Nat /\ e \in Nat /\ e - 1 <= n - 1 /\ e \in 1..n  BY <1>1
<1>4. Characters(q)[e - 1] = Characters(r)[e - 1] /\ Characters(q)[e - 1] \in Nat
  <2>1. e - 1 <= Len(q) /\ e - 1 <= Len(r)  BY <1>1, <1>3
  <2>2. \A i \in 1..(e - 1) : i \in 1..Len(r) /\ i < e  BY <1>1, <1>3
  <2>3. \A i \in 1..(e - 1) : q[i].chars = r[i].chars  BY <2>2
  <2> QED BY <1>1, <1>3, <2>1, <2>3, CharactersPrefix
<1>5. Characters(q)[e] = Characters(q)[e - 1] + q[e].chars  BY CharactersAre
<1>6. PICK z \in Nat : z = 0  OBVIOUS
<1>7. Characters(r)[e - 1] + q[e].chars = Characters(q)[e] + z
  <2> DEFINE c == Characters(q)[e - 1]
             x == q[e].chars
  <2>1. c \in Nat /\ x \in Nat /\ Characters(r)[e - 1] = c /\ Characters(q)[e] = c + x
    BY <1>2, <1>4, <1>5
  <2> HIDE DEF c, x
  <2>2. Characters(r)[e - 1] + x = Characters(q)[e] + z  BY <1>6, <2>1
  <2> QED BY <2>2 DEF x
<1>8. PICK k \in Nat : e + k = n /\ (e - 1) + k = Len(r)
  <2>1. n - e \in Nat /\ e + (n - e) = n /\ (e - 1) + (n - e) = Len(r)  BY <1>1, <1>3
  <2> QED BY <2>1
<1>9. Characters(r)[(e - 1) + k] + q[e].chars = Characters(q)[e + k] + z
  <2>1. RunsAgree(r, q)  BY <1>1, CharactersRun
  <2>2. ASSUME NEW i \in 1..k PROVE r[(e - 1) + i].chars = q[e + i].chars
    <3>1. (e - 1) + i \in 1..Len(r) /\ ~((e - 1) + i < e) /\ ((e - 1) + i) + 1 = e + i  BY <1>1, <1>3, <1>8
    <3>2. r[(e - 1) + i] = q[((e - 1) + i) + 1]  BY <3>1
    <3> QED BY <3>1, <3>2
  <2>4. (e - 1) + k <= Len(r) /\ e + k <= Len(q)  BY <1>1, <1>3, <1>8
  <2> DEFINE x == e - 1
             c == q[e].chars
  <2>5. x \in Nat /\ c \in Nat /\ e \in Nat /\ x + k <= Len(r) /\ Characters(r)[x] + c = Characters(q)[e] + z
        /\ \A i \in 1..k : r[x + i].chars = q[e + i].chars
    BY <1>2, <1>3, <1>7, <2>2, <2>4
  <2> HIDE DEF x, c, n
  <2> DEFINE P(u, v, kk, dd, ee) ==
               /\ u + kk <= Len(r) /\ v + kk <= Len(q) /\ \A i \in 1..kk : r[u + i].chars = q[v + i].chars
               /\ Characters(r)[u] + dd = Characters(q)[v] + ee
             C(u, v, kk, dd, ee) == Characters(r)[u + kk] + dd = Characters(q)[v + kk] + ee
  <2>7. \A u, v, kk, dd, ee \in Nat : P(u, v, kk, dd, ee) => C(u, v, kk, dd, ee)  BY <2>1 DEF RunsAgree
  <2>8. P(x, e, k, c, z)  BY <2>4, <2>5
  <2>6. Characters(r)[x + k] + c = Characters(q)[e + k] + z
    <3>1. C(x, e, k, c, z)
      <4> HIDE DEF P, C
      <4> QED BY <2>5, <2>7, <2>8
    <3> QED BY <3>1
  <2> QED BY <2>6 DEF x, c
<1>10. Characters(q)[n] \in Nat
  <2>1. Characters(q) \in [0..Len(q) -> Nat] /\ n \in 0..Len(q)  BY <1>1, CharactersAre
  <2> QED BY <2>1
<1>11. Characters(q)[n] + z = Characters(q)[n]  BY <1>6, <1>10
<1> QED BY <1>8, <1>9, <1>11

\* Removing the one x leaves the rest in order.
LEMMA WithoutIs ==
  ASSUME NEW V, NEW q \in Seq(V), NEW e \in 1..Len(q), NEW x, q[e] = x,
         \A i \in 1..Len(q) : i # e => q[i] # x
  PROVE  Without(q, x)[Len(q)] = [j \in 1..(Len(q) - 1) |-> IF j < e THEN q[j] ELSE q[j + 1]]
<1> DEFINE n == Len(q)
           rest(i) == [j \in 1..(IF i < e THEN i ELSE i - 1) |-> IF j < e THEN q[j] ELSE q[j + 1]]
           B(g, i) == IF i = 0 THEN <<>> ELSE IF q[i] = x THEN g[i - 1] ELSE Append(g[i - 1], q[i])
           P(g) == g = [i \in 0..n |-> B(g, i)]
           f == [i \in 0..n |-> rest(i)]
<1>1. n \in Nat /\ e \in 1..n /\ \A i \in 1..n : q[i] \in V  OBVIOUS
<1>2. rest(0) = <<>>
  <2>1. 1..(IF 0 < e THEN 0 ELSE 0 - 1) = {}  BY <1>1
  <2> QED BY <2>1
<1>3. ASSUME NEW i \in 1..n PROVE rest(i) = IF q[i] = x THEN rest(i - 1) ELSE Append(rest(i - 1), q[i])
  <2>1. CASE i = e
    <3>1. ~(i < e) /\ i - 1 < e /\ q[i] = x  BY <1>1, <2>1
    <3> QED BY <3>1
  <2>2. CASE i < e
    <3>1. i - 1 < e /\ q[i] # x /\ i - 1 \in Nat  BY <1>1, <2>2
    <3>2. rest(i - 1) = [j \in 1..(i - 1) |-> IF j < e THEN q[j] ELSE q[j + 1]]  BY <3>1
    <3>3. \A j \in 1..(i - 1) : (IF j < e THEN q[j] ELSE q[j + 1]) \in V  BY <1>1, <2>2
    <3>4. rest(i - 1) \in Seq(V) /\ Len(rest(i - 1)) = i - 1
      <4> DEFINE s == [j \in 1..(i - 1) |-> IF j < e THEN q[j] ELSE q[j + 1]]
      <4>1. s \in [1..(i - 1) -> V]  BY <3>3
      <4>2. s \in Seq(V) /\ Len(s) = i - 1  BY <3>1, <4>1
      <4> QED BY <3>2, <4>2
    <3>5. rest(i) = [j \in 1..i |-> IF j < e THEN q[j] ELSE q[j + 1]]  BY <2>2
    <3>6. Append(rest(i - 1), q[i]) = [j \in 1..i |-> IF j = i THEN q[i] ELSE rest(i - 1)[j]]
      <4> DEFINE s == rest(i - 1)
      <4>1. s \in Seq(V) /\ Len(s) = i - 1 /\ q[i] \in V  BY <1>1, <3>4
      <4> HIDE DEF s
      <4>2. Append(s, q[i]) = [j \in 1..i |-> IF j = i THEN q[i] ELSE s[j]]  BY <4>1
      <4> QED BY <4>2 DEF s
    <3>7. \A j \in 1..i : (IF j < e THEN q[j] ELSE q[j + 1]) = IF j = i THEN q[i] ELSE rest(i - 1)[j]
      <4> TAKE j \in 1..i
      <4>1. CASE j = i  BY <2>2, <4>1
      <4>2. CASE j # i
        <5>1. j \in 1..(i - 1)  BY <4>2
        <5>2. rest(i - 1)[j] = IF j < e THEN q[j] ELSE q[j + 1]  BY <3>2, <5>1
        <5> QED BY <4>2, <5>2
      <4> QED BY <4>1, <4>2
    <3> HIDE DEF rest
    <3>8. rest(i) = Append(rest(i - 1), q[i])  BY <3>5, <3>6, <3>7
    <3> QED BY <3>1, <3>8
  <2>3. CASE i > e
    <3>1. ~(i - 1 < e) /\ ~(i < e) /\ q[i] # x /\ i - 2 \in Nat /\ i - 1 \in Nat /\ (i - 1) - 1 = i - 2  BY <1>1, <2>3
    <3>2. rest(i - 1) = [j \in 1..(i - 2) |-> IF j < e THEN q[j] ELSE q[j + 1]]  BY <3>1
    <3>3. \A j \in 1..(i - 2) : (IF j < e THEN q[j] ELSE q[j + 1]) \in V  BY <1>1, <2>3
    <3>4. rest(i - 1) \in Seq(V) /\ Len(rest(i - 1)) = i - 2
      <4> DEFINE s == [j \in 1..(i - 2) |-> IF j < e THEN q[j] ELSE q[j + 1]]
      <4>1. s \in [1..(i - 2) -> V]  BY <3>3
      <4>2. s \in Seq(V) /\ Len(s) = i - 2  BY <3>1, <4>1
      <4> QED BY <3>2, <4>2
    <3>5. rest(i) = [j \in 1..(i - 1) |-> IF j < e THEN q[j] ELSE q[j + 1]]  BY <3>1
    <3>6. Append(rest(i - 1), q[i]) = [j \in 1..(i - 1) |-> IF j = i - 1 THEN q[i] ELSE rest(i - 1)[j]]
      <4> DEFINE s == rest(i - 1)
      <4>1. s \in Seq(V) /\ Len(s) = i - 2 /\ q[i] \in V  BY <1>1, <3>4
      <4> HIDE DEF s
      <4>2. Append(s, q[i]) = [j \in 1..(i - 1) |-> IF j = i - 1 THEN q[i] ELSE s[j]]  BY <3>1, <4>1
      <4> QED BY <4>2 DEF s
    <3>7. \A j \in 1..(i - 1) : (IF j < e THEN q[j] ELSE q[j + 1]) = IF j = i - 1 THEN q[i] ELSE rest(i - 1)[j]
      <4> TAKE j \in 1..(i - 1)
      <4>1. CASE j = i - 1
        <5>1. ~(j < e) /\ j + 1 = i  BY <1>1, <2>3, <4>1
        <5> QED BY <4>1, <5>1
      <4>2. CASE j # i - 1
        <5>1. j \in 1..(i - 2)  BY <4>2
        <5>2. rest(i - 1)[j] = IF j < e THEN q[j] ELSE q[j + 1]  BY <3>2, <5>1
        <5> QED BY <4>2, <5>2
      <4> QED BY <4>1, <4>2
    <3> HIDE DEF rest
    <3>8. rest(i) = Append(rest(i - 1), q[i])  BY <3>5, <3>6, <3>7
    <3> QED BY <3>1, <3>8
  <2> QED BY <1>1, <2>1, <2>2, <2>3
<1>4. P(f)
  <2> HIDE DEF rest
  <2>1. ASSUME NEW i \in 0..n PROVE f[i] = B(f, i)
    <3>1. CASE i = 0  BY <1>2, <3>1
    <3>2. CASE i # 0
      <4>1. i \in 1..n /\ i - 1 \in 0..n  BY <1>1, <3>2
      <4>2. f[i] = rest(i) /\ f[i - 1] = rest(i - 1)  BY <4>1
      <4> HIDE DEF f
      <4> QED BY <1>3, <3>2, <4>1, <4>2
    <3> QED BY <3>1, <3>2
  <2>2. f = [i \in 0..n |-> f[i]]  OBVIOUS
  <2> HIDE DEF f, B
  <2> QED BY <2>1, <2>2
<1> DEFINE w == Without(q, x)
<1>5. w = CHOOSE g : P(g)  BY DEF Without
<1>6. P(w)
  <2> HIDE DEF P, w, f
  <2> QED BY <1>4, <1>5
<1> HIDE DEF w
<1>7. \A i \in 0..n : w[i] = B(w, i)
  <2> HIDE DEF B, n
  <2> QED BY <1>6, Zenon
<1> DEFINE G == {i \in 0..n : w[i] = rest(i)}
<1>8. 0 \in G
  <2>1. 0 \in 0..n  BY <1>1
  <2> HIDE DEF rest
  <2> QED BY <1>2, <1>7, <2>1
<1>9. ASSUME NEW i \in 0..(n - 1), i \in G PROVE i + 1 \in G
  <2>1. i + 1 \in 1..n /\ i + 1 \in 0..n /\ i + 1 # 0 /\ (i + 1) - 1 = i  BY <1>1
  <2>2. w[i] = rest(i)  BY <1>9
  <2> HIDE DEF rest
  <2>3. w[i + 1] = IF q[i + 1] = x THEN w[i] ELSE Append(w[i], q[i + 1])
    <3>1. w[i + 1] = B(w, i + 1)  BY <1>7, <2>1
    <3> QED BY <2>1, <3>1
  <2>4. rest(i + 1) = IF q[i + 1] = x THEN rest(i) ELSE Append(rest(i), q[i + 1])
    <3>1. rest(i + 1) = IF q[i + 1] = x THEN rest((i + 1) - 1) ELSE Append(rest((i + 1) - 1), q[i + 1])
      BY <1>3, <2>1
    <3> QED BY <2>1, <3>1
  <2> QED BY <2>1, <2>2, <2>3, <2>4
<1>10. w[n] = rest(n)
  <2> HIDE DEF G, rest
  <2>1. \A i \in 0..n : i \in G
    <3> HIDE DEF n
    <3> QED BY <1>1, <1>8, <1>9, UpTo
  <2>2. n \in 0..n  BY <1>1
  <2> QED BY <2>1, <2>2 DEF G
<1>11. rest(n) = [j \in 1..(n - 1) |-> IF j < e THEN q[j] ELSE q[j + 1]]
  <2>1. ~(n < e)  BY <1>1
  <2> QED BY <2>1
<1> QED BY <1>10, <1>11 DEF w

\* Splicing at e does the same.
LEMMA SpliceIs ==
  ASSUME NEW V, NEW q \in Seq(V), NEW e \in 1..Len(q)
  PROVE  SubSeq(q, 1, e - 1) \o SubSeq(q, e + 1, Len(q))
           = [j \in 1..(Len(q) - 1) |-> IF j < e THEN q[j] ELSE q[j + 1]]
<1> DEFINE a == SubSeq(q, 1, e - 1)
           b == SubSeq(q, e + 1, Len(q))
           n == Len(q)
<1>1. n \in Nat /\ e \in 1..n /\ \A i \in 1..n : q[i] \in V  OBVIOUS
<1>2. a \in Seq(V) /\ Len(a) = e - 1 /\ \A i \in 1..(e - 1) : a[i] = q[i]
  <2>1. \A i \in 1..(e - 1) : i \in 1..n /\ (i + 1) - 1 = i  BY <1>1
  <2> QED BY <1>1, <2>1, SubSeqProperties
<1>3. b \in Seq(V) /\ Len(b) = n - e /\ \A i \in 1..(n - e) : b[i] = q[i + e]
  <2>1. \A i \in 1..(n - e) : i + e \in 1..n  BY <1>1
  <2> QED BY <1>1, <2>1, SubSeqProperties
<1> HIDE DEF a, b, n
<1>4. a \o b = [j \in 1..(n - 1) |-> IF j < e THEN a[j] ELSE b[j - (e - 1)]]
  <2>1. (e - 1) + (n - e) = n - 1 /\ \A j \in 1..(n - 1) : j < e <=> j <= e - 1  BY <1>1
  <2>2. Len(a) + Len(b) = n - 1  BY <1>1, <1>2, <1>3, <2>1
  <2>3. a \o b = [j \in 1..(Len(a) + Len(b)) |-> IF j <= Len(a) THEN a[j] ELSE b[j - Len(a)]]
    <3> DEFINE c == a \o b
    <3>1. /\ c \in Seq(V) /\ Len(c) = Len(a) + Len(b)
          /\ \A j \in 1..(Len(a) + Len(b)) : c[j] = IF j <= Len(a) THEN a[j] ELSE b[j - Len(a)]
      BY <1>2, <1>3, ConcatProperties
    <3> HIDE DEF c
    <3>2. c = [j \in 1..Len(c) |-> c[j]]  BY <3>1
    <3>3. c = [j \in 1..(Len(a) + Len(b)) |-> c[j]]  BY <3>1, <3>2
    <3>4. c = [j \in 1..(Len(a) + Len(b)) |-> IF j <= Len(a) THEN a[j] ELSE b[j - Len(a)]]  BY <3>1, <3>3
    <3> QED BY <3>4 DEF c
  <2> QED BY <1>2, <2>1, <2>2, <2>3
<1>5. ASSUME NEW j \in 1..(n - 1) PROVE (IF j < e THEN a[j] ELSE b[j - (e - 1)]) = IF j < e THEN q[j] ELSE q[j + 1]
  <2>1. CASE j < e
    <3>1. j \in 1..(e - 1)  BY <1>1, <2>1
    <3> QED BY <1>2, <2>1, <3>1
  <2>2. CASE ~(j < e)
    <3>1. j - (e - 1) \in 1..(n - e) /\ (j - (e - 1)) + e = j + 1  BY <1>1, <2>2
    <3>2. b[j - (e - 1)] = q[(j - (e - 1)) + e]  BY <1>3, <3>1
    <3> QED BY <2>2, <3>1, <3>2
  <2> QED BY <2>1, <2>2
<1> QED BY <1>4, <1>5 DEF a, b, n

\* What a rebase keeps of the first i pages.
KeptSet(U) == [pages : Seq(PageSet(U)), room : Nat]
KeepOne(p, s) == IF p.chars > s.room THEN s
                 ELSE [pages |-> Append(s.pages, p), room |-> s.room - p.chars]

LEMMA KeepOneType ==
  ASSUME NEW U, NEW p \in PageSet(U), NEW s \in KeptSet(U)
  PROVE  KeepOne(p, s) \in KeptSet(U)
<1>1. s.pages \in Seq(PageSet(U)) /\ s.room \in Nat  BY DEF KeptSet
<1>2. p.chars \in Nat  BY DEF PageSet
<1>3. CASE p.chars > s.room  BY <1>3 DEF KeepOne
<1>4. CASE ~(p.chars > s.room)
  <2>1. s.room - p.chars \in Nat  BY <1>1, <1>2, <1>4
  <2>2. Append(s.pages, p) \in Seq(PageSet(U))  BY <1>1
  <2>3. [pages |-> Append(s.pages, p), room |-> s.room - p.chars] \in KeptSet(U)  BY <2>1, <2>2 DEF KeptSet
  <2> QED BY <1>4, <2>3 DEF KeepOne
<1> QED BY <1>3, <1>4

LEMMA KeepWithinIs ==
  ASSUME NEW U, NEW q \in Seq(PageSet(U)), NEW room \in Nat
  PROVE  /\ KeepWithin(q, room) \in [0..Len(q) -> KeptSet(U)]
         /\ KeepWithin(q, room)[0] = [pages |-> <<>>, room |-> room]
         /\ \A i \in 1..Len(q) : KeepWithin(q, room)[i] = KeepOne(q[i], KeepWithin(q, room)[i - 1])
<1> DEFINE n == Len(q)
           none == [pages |-> <<>>, room |-> room]
           P(g) == g = [i \in 0..n |-> IF i = 0 THEN none ELSE KeepOne(q[i], g[i - 1])]
           Fits(f, k) == f[0] = none /\ \A i \in 1..k : f[i] = KeepOne(q[i], f[i - 1])
           G == {k \in 0..n : \E f \in [0..k -> KeptSet(U)] : Fits(f, k)}
<1>1. n \in Nat /\ \A i \in 1..n : q[i] \in PageSet(U)  OBVIOUS
<1>2. none \in KeptSet(U)
  <2>1. <<>> \in Seq(PageSet(U))  OBVIOUS
  <2> QED BY <2>1 DEF KeptSet
<1>3. 0 \in G
  <2> DEFINE z == [i \in 0..0 |-> none]
  <2>1. z \in [0..0 -> KeptSet(U)] /\ z[0] = none /\ 0 \in 0..n
    <3> HIDE DEF none
    <3> QED BY <1>1, <1>2
  <2>2. \A i \in 1..0 : FALSE  OBVIOUS
  <2> HIDE DEF z, none
  <2>3. Fits(z, 0)  BY <2>1, <2>2
  <2> QED BY <2>1, <2>3
<1>4. ASSUME NEW k \in 0..(n - 1), k \in G PROVE k + 1 \in G
  <2> HIDE DEF none
  <2>1. PICK f \in [0..k -> KeptSet(U)] : Fits(f, k)  BY <1>4
  <2> DEFINE last == KeepOne(q[k + 1], f[k])
             g == [i \in 0..(k + 1) |-> IF i <= k THEN f[i] ELSE last]
  <2>2. k + 1 \in 1..n /\ last \in KeptSet(U)
    <3>1. k + 1 \in 1..n /\ f[k] \in KeptSet(U)  BY <1>1
    <3>2. q[k + 1] \in PageSet(U)  BY <1>1, <3>1
    <3> QED BY <3>1, <3>2, KeepOneType
  <2>3. g \in [0..(k + 1) -> KeptSet(U)]
    <3> HIDE DEF last
    <3> QED BY <2>2
  <2>4. ASSUME NEW i \in 1..(k + 1) PROVE g[i] = KeepOne(q[i], g[i - 1])
    <3>1. CASE i <= k
      <4>1. i \in 1..k /\ i - 1 \in 0..k /\ i \in 0..k  BY <3>1
      <4> HIDE DEF last
      <4>2. g[i] = f[i] /\ g[i - 1] = f[i - 1]  BY <3>1, <4>1
      <4> HIDE DEF g
      <4> QED BY <2>1, <4>1, <4>2
    <3>2. CASE i = k + 1
      <4>1. k + 1 \in 0..(k + 1) /\ k \in 0..(k + 1) /\ ~(k + 1 <= k) /\ k <= k /\ i - 1 = k  BY <3>2
      <4>2. g[k + 1] = last /\ g[k] = f[k]
        <5> HIDE DEF last
        <5> QED BY <4>1
      <4> HIDE DEF g
      <4> QED BY <3>2, <4>1, <4>2
    <3> QED BY <3>1, <3>2
  <2>5. g[0] = none
    <3>1. 0 \in 0..(k + 1) /\ 0 <= k  OBVIOUS
    <3> HIDE DEF last
    <3> QED BY <2>1, <3>1
  <2> HIDE DEF g
  <2>6. Fits(g, k + 1)  BY <2>4, <2>5
  <2>7. k + 1 \in 0..n  BY <1>1, <2>2
  <2> QED BY <2>3, <2>6, <2>7
<1>5. n \in G
  <2> HIDE DEF G, n
  <2>1. \A i \in 0..n : i \in G  BY <1>1, <1>3, <1>4, UpTo
  <2>2. n \in 0..n  BY <1>1
  <2> QED BY <2>1, <2>2
<1> HIDE DEF none
<1>6. PICK f \in [0..n -> KeptSet(U)] : Fits(f, n)  BY <1>5
<1>7. P(f)
  <2>1. ASSUME NEW i \in 0..n PROVE f[i] = IF i = 0 THEN none ELSE KeepOne(q[i], f[i - 1])
    BY <1>6
  <2> QED BY <2>1
<1> DEFINE w == KeepWithin(q, room)
<1>8. w = CHOOSE g : P(g)  BY DEF KeepWithin, KeepOne, none
<1>9. P(w)
  <2> HIDE DEF P, w
  <2> QED BY <1>7, <1>8
<1> HIDE DEF w
<1>10. w[0] = none /\ \A i \in 1..n : w[i] = KeepOne(q[i], w[i - 1])
  <2> HIDE DEF n
  <2>1. 0 \in 0..n /\ \A i \in 1..n : i \in 0..n /\ i # 0  BY <1>1
  <2>2. \A i \in 0..n : w[i] = IF i = 0 THEN none ELSE KeepOne(q[i], w[i - 1])  BY <1>9, Zenon
  <2> QED BY <2>1, <2>2
<1> DEFINE H == {j \in 0..n : w[j] \in KeptSet(U)}
<1>11. \A i \in 0..n : i \in H
  <2>1. 0 \in H  BY <1>1, <1>2, <1>10
  <2>2. ASSUME NEW i \in 0..(n - 1), i \in H PROVE i + 1 \in H
    <3>1. i + 1 \in 1..n /\ (i + 1) - 1 = i /\ i + 1 \in 0..n  BY <1>1
    <3>2. w[i + 1] = KeepOne(q[i + 1], w[i])  BY <1>10, <3>1
    <3>3. w[i] \in KeptSet(U) /\ q[i + 1] \in PageSet(U)  BY <1>1, <2>2, <3>1
    <3>4. w[i + 1] \in KeptSet(U)  BY <3>2, <3>3, KeepOneType
    <3> QED BY <3>1, <3>4
  <2> HIDE DEF H, n
  <2> QED BY <1>1, <2>1, <2>2, UpTo
<1>12. w \in [0..n -> KeptSet(U)]
  <2>1. \A i \in 0..n : w[i] \in KeptSet(U)  BY <1>11
  <2>3. w = [i \in 0..n |-> w[i]]
    <3>1. \A i \in 0..n : w[i] = IF i = 0 THEN none ELSE KeepOne(q[i], w[i - 1])  BY <1>9, Zenon
    <3>2. [i \in 0..n |-> IF i = 0 THEN none ELSE KeepOne(q[i], w[i - 1])] = [i \in 0..n |-> w[i]]  BY <3>1
    <3> QED BY <1>9, <3>2
  <2> QED BY <2>1, <2>3
<1> QED BY <1>10, <1>12 DEF w, none

UniqueKeys(q) == \A i, j \in 1..Len(q) : q[i].key = q[j].key => i = j

\* After i pages: what is kept and the room left make up the room there was, and the kept pages
\* are among those i, each once.
KeptOf(q, s, i, room) ==
  /\ Characters(s.pages)[Len(s.pages)] + s.room = room
  /\ Len(s.pages) <= i /\ UniqueKeys(s.pages)
  /\ \A j \in 1..Len(s.pages) : \E m \in 1..i : s.pages[j] = q[m]

LEMMA KeepOneMore ==
  ASSUME NEW U, NEW q \in Seq(PageSet(U)), UniqueKeys(q), NEW room \in Nat, NEW i \in 0..(Len(q) - 1),
         NEW s \in KeptSet(U), KeptOf(q, s, i, room)
  PROVE  KeptOf(q, KeepOne(q[i + 1], s), i + 1, room)
<1> DEFINE p == q[i + 1]
           t == KeepOne(p, s)
<1>1. /\ Len(q) \in Nat /\ i \in Nat /\ i + 1 \in 1..Len(q) /\ p \in PageSet(U)
      /\ s.pages \in Seq(PageSet(U)) /\ s.room \in Nat /\ Len(s.pages) \in Nat
  <2>1. Len(q) \in Nat /\ i \in Nat /\ i + 1 \in 1..Len(q)  OBVIOUS
  <2>2. s.pages \in Seq(PageSet(U)) /\ s.room \in Nat  BY DEF KeptSet
  <2> QED BY <2>1, <2>2
<1>2. p.chars \in Nat  BY <1>1 DEF PageSet
<1>3. CASE p.chars > s.room
  <2>1. t = s  BY <1>3 DEF KeepOne
  <2>2. Len(s.pages) <= i + 1  BY <1>1 DEF KeptOf
  <2>3. \A j \in 1..Len(s.pages) : \E m \in 1..(i + 1) : s.pages[j] = q[m]
    <3>1. \A m \in 1..i : m \in 1..(i + 1)  BY <1>1
    <3> QED BY <3>1 DEF KeptOf
  <2> HIDE DEF t, p
  <2> QED BY <2>1, <2>2, <2>3 DEF KeptOf, t, p
<1>4. CASE ~(p.chars > s.room)
  <2> DEFINE n == Len(s.pages)
             r == Append(s.pages, p)
  <2>1. t = [pages |-> r, room |-> s.room - p.chars]  BY <1>4 DEF KeepOne
  <2>2. t.pages = r /\ t.room = s.room - p.chars  BY <2>1
  <2>3. /\ r \in Seq(PageSet(U)) /\ Len(r) = n + 1 /\ r[n + 1] = p
        /\ \A j \in 1..n : r[j] = s.pages[j]
    BY <1>1
  <2>4. Characters(r)[n + 1] = Characters(s.pages)[n] + p.chars  BY <1>1, CharactersAppend
  <2>5. Characters(r)[n + 1] + t.room = room
    <3> DEFINE c == Characters(s.pages)[n]
               x == p.chars
               y == s.room
    <3>1. c \in Nat
      <4>1. Characters(s.pages) \in [0..n -> Nat] /\ n \in 0..n  BY <1>1, CharactersAre
      <4> QED BY <4>1
    <3>2. /\ x \in Nat /\ y \in Nat /\ x <= y /\ c + y = room /\ Characters(r)[n + 1] = c + x /\ t.room = y - x
      BY <1>1, <1>2, <1>4, <2>2, <2>4 DEF KeptOf
    <3> HIDE DEF c, x, y, r, n, t
    <3>3. (c + x) + (y - x) = room  BY <3>1, <3>2
    <3> QED BY <3>2, <3>3
  <2> HIDE DEF r, t
  <2>6. n + 1 <= i + 1  BY <1>1 DEF KeptOf
  <2>7. \A j \in 1..n : r[j].key # p.key
    <3> TAKE j \in 1..n
    <3>1. PICK m \in 1..i : s.pages[j] = q[m]  BY DEF KeptOf
    <3>2. m \in 1..Len(q) /\ m # i + 1  BY <1>1
    <3> QED BY <1>1, <2>3, <3>1, <3>2 DEF UniqueKeys
  <2>8. UniqueKeys(r)
    <3> SUFFICES ASSUME NEW a \in 1..(n + 1), NEW b \in 1..(n + 1), r[a].key = r[b].key PROVE a = b
      BY <2>3 DEF UniqueKeys
    <3>1. CASE a = n + 1 /\ b = n + 1  BY <3>1
    <3>2. CASE a = n + 1 /\ b # n + 1
      <4>1. b \in 1..n  BY <1>1, <3>2
      <4> QED BY <2>3, <2>7, <3>2, <4>1
    <3>3. CASE a # n + 1 /\ b = n + 1
      <4>1. a \in 1..n  BY <1>1, <3>3
      <4> QED BY <2>3, <2>7, <3>3, <4>1
    <3>4. CASE a # n + 1 /\ b # n + 1
      <4>1. a \in 1..n /\ b \in 1..n  BY <1>1, <3>4, SMTT(30)
      <4>2. s.pages[a].key = s.pages[b].key  BY <2>3, <4>1
      <4> QED BY <4>1, <4>2 DEF KeptOf, UniqueKeys
    <3> QED BY <3>1, <3>2, <3>3, <3>4
  <2>9. ASSUME NEW j \in 1..(n + 1) PROVE \E m \in 1..(i + 1) : r[j] = q[m]
    <3>1. CASE j = n + 1
      <4>1. i + 1 \in 1..(i + 1)  BY <1>1
      <4> QED BY <2>3, <3>1, <4>1
    <3>2. CASE j # n + 1
      <4>1. j \in 1..n  BY <1>1, <3>2
      <4>2. PICK m \in 1..i : s.pages[j] = q[m]  BY <4>1 DEF KeptOf
      <4>3. m \in 1..(i + 1)  BY <1>1
      <4> QED BY <2>3, <4>1, <4>2, <4>3
    <3> QED BY <3>1, <3>2
  <2>10. KeptOf(q, t, i + 1, room)
    <3> HIDE DEF n, p
    <3> QED BY <2>2, <2>3, <2>5, <2>6, <2>8, <2>9 DEF KeptOf
  <2> QED BY <2>10 DEF t
<1> QED BY <1>3, <1>4

LEMMA RebaseKeeps ==
  ASSUME NEW U, NEW q \in Seq(PageSet(U)), UniqueKeys(q), NEW room \in Nat
  PROVE  KeepWithin(q, room)[Len(q)] \in KeptSet(U) /\ KeptOf(q, KeepWithin(q, room)[Len(q)], Len(q), room)
<1> DEFINE n == Len(q)
           w == KeepWithin(q, room)
           G == {i \in 0..n : KeptOf(q, w[i], i, room)}
<1>1. n \in Nat  OBVIOUS
<1>2. /\ w \in [0..n -> KeptSet(U)] /\ w[0] = [pages |-> <<>>, room |-> room]
      /\ \A i \in 1..n : w[i] = KeepOne(q[i], w[i - 1])
  BY KeepWithinIs
<1> HIDE DEF w
<1>3. 0 \in G
  <2>1. w[0].pages = <<>> /\ w[0].room = room /\ 0 \in 0..n  BY <1>1, <1>2
  <2>2. <<>> \in Seq(PageSet(U)) /\ Len(<<>>) = 0  OBVIOUS
  <2>3. Characters(<<>>)[0] = 0  BY <2>2, CharactersAre
  <2>4. UniqueKeys(<<>>)
    <3>1. \A i \in 1..0 : FALSE  OBVIOUS
    <3> QED BY <2>2, <3>1 DEF UniqueKeys
  <2>5. KeptOf(q, w[0], 0, room)
    <3>1. Characters(w[0].pages)[Len(w[0].pages)] = 0  BY <2>1, <2>2, <2>3
    <3>2. 0 + room = room  OBVIOUS
    <3>3. \A j \in 1..0 : FALSE  OBVIOUS
    <3>4. \A j \in 1..Len(w[0].pages) : \E m \in 1..0 : w[0].pages[j] = q[m]  BY <2>1, <2>2, <3>3
    <3>5. Characters(w[0].pages)[Len(w[0].pages)] + w[0].room = room  BY <2>1, <3>1, <3>2
    <3>6. Len(w[0].pages) <= 0 /\ UniqueKeys(w[0].pages)  BY <2>1, <2>2, <2>4
    <3> QED BY <3>4, <3>5, <3>6 DEF KeptOf
  <2> QED BY <2>1, <2>5
<1>4. ASSUME NEW i \in 0..(n - 1), i \in G PROVE i + 1 \in G
  <2>1. i + 1 \in 1..n /\ (i + 1) - 1 = i /\ i + 1 \in 0..n /\ i \in 0..n  BY <1>1
  <2>2. w[i + 1] = KeepOne(q[i + 1], w[i]) /\ w[i] \in KeptSet(U)  BY <1>2, <2>1
  <2>3. KeptOf(q, w[i], i, room)  BY <1>4
  <2>4. KeptOf(q, KeepOne(q[i + 1], w[i]), i + 1, room)  BY <2>2, <2>3, KeepOneMore
  <2>5. KeptOf(q, w[i + 1], i + 1, room)  BY <2>2, <2>4
  <2> QED BY <2>1, <2>5
<1>5. n \in G /\ n \in 0..n
  <2> HIDE DEF G, n
  <2>1. \A i \in 0..n : i \in G  BY <1>1, <1>3, <1>4, UpTo
  <2>2. n \in 0..n  BY <1>1
  <2> QED BY <2>1, <2>2
<1>6. KeptOf(q, w[n], n, room) /\ w[n] \in KeptSet(U)  BY <1>2, <1>5
<1> QED BY <1>6 DEF w

(* ContextPaging: the books of one working set. *)

WorkingForm(w) ==
  w = [handles |-> w.handles, pages |-> w.pages, base |-> w.base, resident |-> w.resident,
       requests |-> w.requests, count |-> w.count, keys |-> w.keys, exhaustion |-> w.exhaustion]

KeysOf(q) == {q[i].key : i \in 1..Len(q)}

\* The page part of the books.
BooksOf(pages, base, resident, count, keys) ==
  /\ \E U : pages \in Seq(PageSet(U))
  /\ base \in 0..MaxTextCharacters /\ resident = base + Characters(pages)[Len(pages)]
  /\ resident <= MaxTextCharacters /\ count = Len(pages) /\ count <= MaxPageCount
  /\ keys = [i \in DOMAIN pages |-> pages[i].key] /\ UniqueKeys(pages)

WorkingSound(w) ==
  /\ WorkingForm(w) /\ BooksOf(w.pages, w.base, w.resident, w.count, w.keys)
  /\ w.requests \in 0..MaxPageRequests

\* A page for the key is resident, or there is a place for one.
RoomFor(w, key) == PagesOf(w, key) # {} \/ w.count < MaxPageCount

LEMMA BooksFacts ==
  ASSUME NEW pages, NEW base, NEW resident, NEW count, NEW keys, BooksOf(pages, base, resident, count, keys)
  PROVE  /\ Len(pages) \in Nat /\ DOMAIN pages = 1..Len(pages) /\ base \in Nat /\ resident \in Nat
         /\ Characters(pages)[Len(pages)] \in Nat
<1>1. PICK U : pages \in Seq(PageSet(U))  BY DEF BooksOf
<1>2. Len(pages) \in Nat /\ DOMAIN pages = 1..Len(pages)  BY <1>1
<1>3. Characters(pages) \in [0..Len(pages) -> Nat]  BY <1>1, CharactersAre
<1>4. Characters(pages)[Len(pages)] \in Nat
  <2>1. Len(pages) \in 0..Len(pages)  BY <1>2
  <2> QED BY <1>3, <2>1
<1>5. base \in Nat  BY ContextAssumption DEF BooksOf
<1>6. resident \in Nat  BY <1>4, <1>5 DEF BooksOf
<1> QED BY <1>2, <1>4, <1>5, <1>6

\* Pages in a wider set of keys.
LEMMA WiderPages ==
  ASSUME NEW U, NEW V, U \subseteq V, NEW q \in Seq(PageSet(U))
  PROVE  q \in Seq(PageSet(V))
<1>1. PageSet(U) \subseteq PageSet(V)  BY DEF PageSet
<1>2. \A i \in 1..Len(q) : q[i] \in PageSet(V)  BY <1>1
<1>3. q \in [1..Len(q) -> PageSet(V)]  BY <1>2
<1>4. Len(q) \in Nat  OBVIOUS
<1> QED BY <1>3, <1>4

\* The first position of a key is its only one.
LEMMA PositionOf ==
  ASSUME NEW w, NEW U, w.pages \in Seq(PageSet(U)), UniqueKeys(w.pages), NEW key, PagesOf(w, key) # {}
  PROVE  LET e == CHOOSE i \in PagesOf(w, key) : \A j \in PagesOf(w, key) : i <= j
         IN  /\ e \in 1..Len(w.pages) /\ w.pages[e].key = key
             /\ \A i \in 1..Len(w.pages) : i # e => w.pages[i].key # key
<1> DEFINE q == w.pages
           at == PagesOf(w, key)
           e == CHOOSE i \in at : \A j \in at : i <= j
<1>1. DOMAIN q = 1..Len(q) /\ Len(q) \in Nat  OBVIOUS
<1>2. PICK x \in at : TRUE  OBVIOUS
<1>3. x \in 1..Len(q) /\ q[x].key = key  BY <1>1, <1>2 DEF PagesOf
<1>4. \A j \in at : j = x
  <2> TAKE j \in at
  <2>1. j \in 1..Len(q) /\ q[j].key = key  BY <1>1 DEF PagesOf
  <2> QED BY <1>3, <2>1 DEF UniqueKeys
<1>5. \A j \in at : x <= j  BY <1>1, <1>3, <1>4
<1>6. e \in at
  <2> HIDE DEF at
  <2> QED BY <1>2, <1>5
<1>7. e = x  BY <1>4, <1>6
<1>8. \A i \in 1..Len(q) : i # e => q[i].key # key
  <2> TAKE i \in 1..Len(q)
  <2> HIDE DEF e
  <2> QED BY <1>3, <1>7 DEF UniqueKeys
<1> HIDE DEF e
<1>9. e \in 1..Len(q) /\ q[e].key = key  BY <1>3, <1>7
<1> QED BY <1>8, <1>9 DEF e

\* One page more.
LEMMA BooksAppend ==
  ASSUME NEW q, NEW base, NEW resident, NEW count, NEW keys, BooksOf(q, base, resident, count, keys),
         NEW p, p = [key |-> p.key, chars |-> p.chars], p.chars \in Nat,
         \A i \in 1..Len(q) : q[i].key # p.key,
         count < MaxPageCount, resident + p.chars <= MaxTextCharacters
  PROVE  /\ BooksOf(Append(q, p), base, resident + p.chars, count + 1, Append(keys, p.key))
         /\ KeysOf(Append(q, p)) \subseteq KeysOf(q) \cup {p.key}
<1>1. PICK U0 : q \in Seq(PageSet(U0))  BY DEF BooksOf
<1> DEFINE U == U0 \cup {p.key}
           n == Len(q)
           r == Append(q, p)
           k == Append(keys, p.key)
<1>2. q \in Seq(PageSet(U))
  <2>1. U0 \subseteq U  OBVIOUS
  <2> HIDE DEF U
  <2> QED BY <1>1, <2>1, WiderPages
<1>3. p \in PageSet(U)
  <2>1. [key |-> p.key, chars |-> p.chars] \in PageSet(U)  BY DEF PageSet
  <2> QED BY <2>1
<1> HIDE DEF U
<1>4. /\ r \in Seq(PageSet(U)) /\ n \in Nat /\ Len(r) = n + 1 /\ r[n + 1] = p /\ DOMAIN r = 1..(n + 1)
      /\ \A i \in 1..n : r[i] = q[i]
  BY <1>2, <1>3
<1>5. Characters(r)[n + 1] = Characters(q)[n] + p.chars  BY <1>2, <1>3, CharactersAppend
<1>6. Characters(q)[n] \in Nat /\ base \in Nat /\ resident \in Nat /\ DOMAIN q = 1..n  BY BooksFacts
<1> HIDE DEF r, k
<1>7. resident + p.chars = base + Characters(r)[Len(r)]
  <2> DEFINE c == Characters(q)[n]
             x == p.chars
             y == Characters(r)[n + 1]
  <2>1. c \in Nat /\ x \in Nat /\ base \in Nat /\ resident = base + c /\ y = c + x  BY <1>5, <1>6 DEF BooksOf
  <2> HIDE DEF c, x, y
  <2>2. resident + x = base + y  BY <2>1
  <2> QED BY <1>4, <2>2 DEF x, y
<1>8. UniqueKeys(r)
  <2> SUFFICES ASSUME NEW a \in 1..(n + 1), NEW b \in 1..(n + 1), r[a].key = r[b].key PROVE a = b
    BY <1>4 DEF UniqueKeys
  <2>1. CASE a = n + 1 /\ b = n + 1  BY <2>1
  <2>2. CASE a = n + 1 /\ b # n + 1
    <3>1. b \in 1..n  BY <1>4, <2>2
    <3> QED BY <1>4, <2>2, <3>1
  <2>3. CASE a # n + 1 /\ b = n + 1
    <3>1. a \in 1..n  BY <1>4, <2>3
    <3> QED BY <1>4, <2>3, <3>1
  <2>4. CASE a # n + 1 /\ b # n + 1
    <3>1. a \in 1..n /\ b \in 1..n  BY <1>4, <2>4
    <3>2. q[a].key = q[b].key  BY <1>4, <3>1
    <3> QED BY <3>1, <3>2 DEF BooksOf, UniqueKeys
  <2> QED BY <2>1, <2>2, <2>3, <2>4
<1>9. k = [i \in DOMAIN r |-> r[i].key]
  <2>1. keys = [i \in 1..n |-> q[i].key]  BY <1>6 DEF BooksOf
  <2>2. k = [i \in 1..(n + 1) |-> IF i = n + 1 THEN p.key ELSE keys[i]]
    <3> DEFINE K == {q[i].key : i \in 1..n} \cup {p.key}
    <3>1. keys \in [1..n -> K] /\ p.key \in K  BY <2>1
    <3> HIDE DEF K
    <3>2. keys \in Seq(K) /\ Len(keys) = n  BY <1>4, <3>1
    <3> QED BY <1>4, <3>1, <3>2 DEF k
  <2>3. \A i \in 1..(n + 1) : (IF i = n + 1 THEN p.key ELSE keys[i]) = r[i].key
    <3> TAKE i \in 1..(n + 1)
    <3>1. CASE i = n + 1  BY <1>4, <3>1
    <3>2. CASE i # n + 1
      <4>1. i \in 1..n  BY <1>4, <3>2
      <4> QED BY <1>4, <2>1, <3>2, <4>1
    <3> QED BY <3>1, <3>2
  <2>4. k = [i \in 1..(n + 1) |-> r[i].key]  BY <2>2, <2>3
  <2> QED BY <1>4, <2>4
<1>10. count + 1 = Len(r) /\ count + 1 <= MaxPageCount
  BY <1>4, ContextAssumption DEF BooksOf
<1>11. base \in 0..MaxTextCharacters  BY DEF BooksOf
<1>12. BooksOf(r, base, resident + p.chars, count + 1, k)
  BY <1>4, <1>7, <1>8, <1>9, <1>10, <1>11 DEF BooksOf
<1>13. KeysOf(r) \subseteq KeysOf(q) \cup {p.key}
  <2> SUFFICES ASSUME NEW i \in 1..(n + 1) PROVE r[i].key \in KeysOf(q) \cup {p.key}
    BY <1>4 DEF KeysOf
  <2>1. CASE i = n + 1  BY <1>4, <2>1
  <2>2. CASE i # n + 1
    <3>1. i \in 1..n  BY <1>4, <2>2
    <3> QED BY <1>4, <3>1 DEF KeysOf
  <2> QED BY <2>1, <2>2
<1> QED BY <1>12, <1>13 DEF r, k

\* One page in the place of the one with its key.
LEMMA BooksReplace ==
  ASSUME NEW q, NEW base, NEW resident, NEW count, NEW keys, BooksOf(q, base, resident, count, keys),
         NEW p, p = [key |-> p.key, chars |-> p.chars], p.chars \in Nat,
         NEW e \in 1..Len(q), q[e].key = p.key,
         resident - q[e].chars + p.chars <= MaxTextCharacters
  PROVE  /\ BooksOf([q EXCEPT ![e] = p], base, resident - q[e].chars + p.chars, count, keys)
         /\ KeysOf([q EXCEPT ![e] = p]) \subseteq KeysOf(q) \cup {p.key}
<1>1. PICK U : q \in Seq(PageSet(U))  BY DEF BooksOf
<1> DEFINE n == Len(q)
           r == [q EXCEPT ![e] = p]
<1>2. q[e] \in PageSet(U)  BY <1>1
<1>3. p \in PageSet(U) /\ q[e].chars \in Nat
  <2>1. p.key \in U /\ q[e].chars \in Nat  BY <1>2 DEF PageSet
  <2>2. [key |-> p.key, chars |-> p.chars] \in PageSet(U)  BY <2>1 DEF PageSet
  <2> QED BY <2>1, <2>2
<1>4. /\ r \in Seq(PageSet(U)) /\ n \in Nat /\ Len(r) = n /\ r[e] = p /\ DOMAIN r = 1..n
      /\ \A i \in 1..n : i # e => r[i] = q[i]
  BY <1>1, <1>3
<1>5. Characters(r)[n] + q[e].chars = Characters(q)[n] + p.chars  BY <1>1, <1>3, CharactersReplace
<1>6. Characters(q)[n] \in Nat /\ base \in Nat /\ resident \in Nat /\ DOMAIN q = 1..n  BY BooksFacts
<1>a. Characters(r)[n] \in Nat
  <2> HIDE DEF r
  <2>1. Characters(r) \in [0..Len(r) -> Nat]  BY <1>4, CharactersAre
  <2>2. n \in 0..Len(r)  BY <1>4
  <2> QED BY <2>1, <2>2
<1> HIDE DEF r
<1>7. resident - q[e].chars + p.chars = base + Characters(r)[Len(r)]
  <2> DEFINE c == Characters(q)[n]
             x == p.chars
             y == Characters(r)[n]
             z == q[e].chars
  <2>1. c \in Nat /\ x \in Nat /\ z \in Nat /\ y \in Nat /\ base \in Nat /\ resident = base + c /\ y + z = c + x
    BY <1>3, <1>5, <1>6, <1>a DEF BooksOf
  <2> HIDE DEF c, x, y, z
  <2>2. resident - z + x = base + y  BY <2>1, SMTT(30)
  <2> QED BY <1>4, <2>2 DEF x, y, z
<1>8. \A i \in 1..n : r[i].key = q[i].key
  <2> TAKE i \in 1..n
  <2>1. CASE i = e  BY <1>4, <2>1
  <2>2. CASE i # e  BY <1>4, <2>2
  <2> QED BY <2>1, <2>2
<1>9. UniqueKeys(r)  BY <1>4, <1>8 DEF BooksOf, UniqueKeys
<1>10. keys = [i \in DOMAIN r |-> r[i].key]
  <2>1. keys = [i \in 1..n |-> q[i].key]  BY <1>6 DEF BooksOf
  <2>2. [i \in 1..n |-> q[i].key] = [i \in 1..n |-> r[i].key]  BY <1>8
  <2> QED BY <1>4, <2>1, <2>2
<1>11. base \in 0..MaxTextCharacters /\ count = Len(r) /\ count <= MaxPageCount  BY <1>4 DEF BooksOf
<1>12. BooksOf(r, base, resident - q[e].chars + p.chars, count, keys)
  BY <1>4, <1>7, <1>9, <1>10, <1>11 DEF BooksOf
<1>13. KeysOf(r) \subseteq KeysOf(q) \cup {p.key}  BY <1>4, <1>8 DEF KeysOf
<1> QED BY <1>12, <1>13 DEF r

\* The page of a key spliced out, and the key filtered from the keys.
LEMMA BooksRemove ==
  ASSUME NEW q, NEW base, NEW resident, NEW count, NEW keys, BooksOf(q, base, resident, count, keys),
         NEW key, NEW e \in 1..Len(q), q[e].key = key, \A i \in 1..Len(q) : i # e => q[i].key # key
  PROVE  LET r == SubSeq(q, 1, e - 1) \o SubSeq(q, e + 1, Len(q))
         IN  /\ BooksOf(r, base, resident - q[e].chars, count - 1, Without(keys, key)[Len(keys)])
             /\ KeysOf(r) \subseteq KeysOf(q) \ {key}
<1>1. PICK U : q \in Seq(PageSet(U))  BY DEF BooksOf
<1> DEFINE n == Len(q)
           r == SubSeq(q, 1, e - 1) \o SubSeq(q, e + 1, Len(q))
           k == Without(keys, key)[Len(keys)]
<1>2. n \in Nat /\ e \in 1..n /\ \A i \in 1..n : q[i] \in PageSet(U)  BY <1>1
<1>3. r = [j \in 1..(n - 1) |-> IF j < e THEN q[j] ELSE q[j + 1]]  BY <1>1, SpliceIs
<1>4. q[e].chars \in Nat  BY <1>2 DEF PageSet
<1> HIDE DEF r, k
<1>5. /\ r \in Seq(PageSet(U)) /\ Len(r) = n - 1 /\ DOMAIN r = 1..(n - 1)
      /\ \A i \in 1..(n - 1) : r[i] = IF i < e THEN q[i] ELSE q[i + 1]
  <2>1. \A j \in 1..(n - 1) : (IF j < e THEN q[j] ELSE q[j + 1]) \in PageSet(U)
    <3>1. \A j \in 1..(n - 1) : j \in 1..n /\ j + 1 \in 1..n  BY <1>2
    <3> QED BY <1>2, <3>1
  <2>2. r \in [1..(n - 1) -> PageSet(U)]  BY <1>3, <2>1
  <2>3. n - 1 \in Nat  BY <1>2
  <2>4. r \in Seq(PageSet(U)) /\ Len(r) = n - 1 /\ DOMAIN r = 1..(n - 1)
    <3> HIDE DEF n
    <3> QED BY <2>2, <2>3
  <2> QED BY <1>3, <2>4
<1>6. Characters(q)[n] \in Nat /\ base \in Nat /\ resident \in Nat /\ DOMAIN q = 1..n  BY BooksFacts
<1>7. Characters(r)[Len(r)] + q[e].chars = Characters(q)[n]
  BY <1>1, <1>5, CharactersRemove
<1>8. resident - q[e].chars = base + Characters(r)[Len(r)] /\ resident - q[e].chars <= MaxTextCharacters
  <2> DEFINE c == Characters(q)[n]
             y == Characters(r)[Len(r)]
             z == q[e].chars
  <2>0. y \in Nat
    <3>1. Characters(r) \in [0..Len(r) -> Nat] /\ Len(r) \in Nat  BY <1>5, CharactersAre
    <3>2. Len(r) \in 0..Len(r)  BY <3>1
    <3> QED BY <3>1, <3>2
  <2>1. /\ c \in Nat /\ z \in Nat /\ y \in Nat /\ base \in Nat /\ resident = base + c /\ y + z = c
        /\ resident <= MaxTextCharacters /\ MaxTextCharacters \in Nat
    BY <1>4, <1>6, <1>7, <2>0, ContextAssumption DEF BooksOf
  <2> HIDE DEF c, y, z
  <2>2. resident - z = base + y /\ resident - z <= MaxTextCharacters  BY <2>1
  <2> QED BY <2>2 DEF y, z
<1>9. \A j \in 1..(n - 1) : \E i \in 1..n : i # e /\ r[j] = q[i] /\ i = IF j < e THEN j ELSE j + 1
  <2> TAKE j \in 1..(n - 1)
  <2>1. CASE j < e
    <3>1. j \in 1..n /\ j # e  BY <1>2, <2>1
    <3> QED BY <1>5, <2>1, <3>1
  <2>2. CASE ~(j < e)
    <3>1. j + 1 \in 1..n /\ j + 1 # e  BY <1>2, <2>2
    <3> QED BY <1>5, <2>2, <3>1
  <2> QED BY <2>1, <2>2
<1>10. UniqueKeys(r)
  <2> SUFFICES ASSUME NEW a \in 1..(n - 1), NEW b \in 1..(n - 1), r[a].key = r[b].key PROVE a = b
    BY <1>5 DEF UniqueKeys
  <2>1. PICK x \in 1..n : r[a] = q[x] /\ x = IF a < e THEN a ELSE a + 1  BY <1>9
  <2>2. PICK y \in 1..n : r[b] = q[y] /\ y = IF b < e THEN b ELSE b + 1  BY <1>9
  <2>3. x = y  BY <2>1, <2>2 DEF BooksOf, UniqueKeys
  <2> QED BY <1>2, <2>1, <2>2, <2>3
<1>11. k = [i \in DOMAIN r |-> r[i].key]
  <2> DEFINE K == {q[i].key : i \in 1..n}
  <2>1. keys = [i \in 1..n |-> q[i].key]  BY <1>6 DEF BooksOf
  <2>2. keys \in [1..n -> K]  BY <2>1
  <2> HIDE DEF K
  <2>3. keys \in Seq(K) /\ Len(keys) = n  BY <1>2, <2>2
  <2>4. e \in 1..Len(keys) /\ keys[e] = key /\ \A i \in 1..Len(keys) : i # e => keys[i] # key
    BY <1>2, <2>1, <2>3
  <2>5. k = [j \in 1..(n - 1) |-> IF j < e THEN keys[j] ELSE keys[j + 1]]
    <3>1. k = [j \in 1..(Len(keys) - 1) |-> IF j < e THEN keys[j] ELSE keys[j + 1]]
      BY <2>3, <2>4, WithoutIs DEF k
    <3> QED BY <2>3, <3>1
  <2>6. \A j \in 1..(n - 1) : (IF j < e THEN keys[j] ELSE keys[j + 1]) = r[j].key
    <3> TAKE j \in 1..(n - 1)
    <3>1. j \in 1..n /\ j + 1 \in 1..n  BY <1>2
    <3>2. keys[j] = q[j].key /\ keys[j + 1] = q[j + 1].key  BY <2>1, <3>1
    <3> QED BY <1>5, <3>2
  <2> QED BY <1>5, <2>5, <2>6
<1>12. count - 1 = Len(r) /\ count - 1 <= MaxPageCount
  BY <1>2, <1>5, ContextAssumption DEF BooksOf
<1>13. base \in 0..MaxTextCharacters  BY DEF BooksOf
<1>14. BooksOf(r, base, resident - q[e].chars, count - 1, k)
  BY <1>5, <1>8, <1>10, <1>11, <1>12, <1>13 DEF BooksOf
<1>15. KeysOf(r) \subseteq KeysOf(q) \ {key}
  <2> SUFFICES ASSUME NEW j \in 1..(n - 1) PROVE r[j].key \in KeysOf(q) \ {key}
    BY <1>5 DEF KeysOf
  <2>1. PICK i \in 1..n : i # e /\ r[j] = q[i]  BY <1>9
  <2> QED BY <2>1 DEF KeysOf
<1> QED BY <1>14, <1>15 DEF r, k

(* ContextPaging: each operation keeps the books of a working set. *)

LEMMA CountedSound ==
  ASSUME NEW w, WorkingSound(w)
  PROVE  /\ WorkingSound(Counted(w)) /\ Counted(w).pages = w.pages /\ Counted(w).count = w.count
         /\ Counted(w).requests = IF w.requests >= MaxPageRequests THEN w.requests ELSE w.requests + 1
         /\ Counted(w).base = w.base
<1> DEFINE v == Counted(w)
<1>0. WorkingForm(w) /\ w.requests \in 0..MaxPageRequests /\ MaxPageRequests \in Nat
  BY ContextAssumption DEF WorkingSound
<1>1. CASE w.requests >= MaxPageRequests
  <2>1. v = [handles |-> w.handles, pages |-> w.pages, base |-> w.base, resident |-> w.resident,
             requests |-> w.requests, count |-> w.count, keys |-> w.keys, exhaustion |-> "PAGE_REQUEST_LIMIT"]
    BY <1>0, <1>1 DEF Counted, WorkingForm
  <2> HIDE DEF v
  <2>2. /\ v.pages = w.pages /\ v.base = w.base /\ v.resident = w.resident /\ v.requests = w.requests
        /\ v.count = w.count /\ v.keys = w.keys /\ WorkingForm(v)
    BY <2>1 DEF WorkingForm
  <2>3. WorkingSound(v)  BY <2>2 DEF WorkingSound
  <2> QED BY <1>1, <2>2, <2>3 DEF v
<1>2. CASE ~(w.requests >= MaxPageRequests)
  <2>1. v = [handles |-> w.handles, pages |-> w.pages, base |-> w.base, resident |-> w.resident,
             requests |-> w.requests + 1, count |-> w.count, keys |-> w.keys, exhaustion |-> w.exhaustion]
    BY <1>0, <1>2 DEF Counted, WorkingForm
  <2>2. w.requests + 1 \in 0..MaxPageRequests  BY <1>0, <1>2
  <2> HIDE DEF v
  <2>3. /\ v.pages = w.pages /\ v.base = w.base /\ v.resident = w.resident /\ v.requests = w.requests + 1
        /\ v.count = w.count /\ v.keys = w.keys /\ WorkingForm(v)
    BY <2>1 DEF WorkingForm
  <2>4. WorkingSound(v)  BY <2>2, <2>3 DEF WorkingSound
  <2> QED BY <1>2, <2>3, <2>4 DEF v
<1> QED BY <1>1, <1>2

LEMMA ExhaustedSound ==
  ASSUME NEW w, WorkingSound(w), NEW x
  PROVE  /\ WorkingSound([w EXCEPT !.exhaustion = x]) /\ [w EXCEPT !.exhaustion = x].pages = w.pages
         /\ [w EXCEPT !.exhaustion = x].requests = w.requests
<1> DEFINE v == [w EXCEPT !.exhaustion = x]
<1>0. WorkingForm(w)  BY DEF WorkingSound
<1>1. v = [handles |-> w.handles, pages |-> w.pages, base |-> w.base, resident |-> w.resident,
           requests |-> w.requests, count |-> w.count, keys |-> w.keys, exhaustion |-> x]
  BY <1>0 DEF WorkingForm
<1> HIDE DEF v
<1>2. /\ v.pages = w.pages /\ v.base = w.base /\ v.resident = w.resident /\ v.requests = w.requests
      /\ v.count = w.count /\ v.keys = w.keys /\ WorkingForm(v)
  BY <1>1 DEF WorkingForm
<1>3. WorkingSound(v)  BY <1>2 DEF WorkingSound
<1> QED BY <1>2, <1>3 DEF v

LEMMA EvictSound ==
  ASSUME NEW w, WorkingSound(w), NEW key
  PROVE  /\ WorkingSound(Evict(w, key)) /\ Evict(w, key).requests = w.requests
         /\ KeysOf(Evict(w, key).pages) \subseteq KeysOf(w.pages) \ {key}
<1> DEFINE at == PagesOf(w, key)
           e == CHOOSE i \in at : \A j \in at : i <= j
           v == Evict(w, key)
<1>0. /\ WorkingForm(w) /\ BooksOf(w.pages, w.base, w.resident, w.count, w.keys)
      /\ w.requests \in 0..MaxPageRequests
  BY DEF WorkingSound
<1>1. PICK U : w.pages \in Seq(PageSet(U))  BY <1>0 DEF BooksOf
<1>2. UniqueKeys(w.pages)  BY <1>0 DEF BooksOf
<1>3. CASE at = {}
  <2>1. v = w  BY <1>3 DEF Evict
  <2>2. key \notin KeysOf(w.pages)
    <3>1. DOMAIN w.pages = 1..Len(w.pages)  BY <1>1
    <3> QED BY <1>3, <3>1 DEF KeysOf, PagesOf
  <2> QED BY <2>1, <2>2
<1>4. CASE at # {}
  <2>1. e \in 1..Len(w.pages) /\ w.pages[e].key = key /\ \A i \in 1..Len(w.pages) : i # e => w.pages[i].key # key
    BY <1>1, <1>2, <1>4, PositionOf
  <2> HIDE DEF e
  <2> DEFINE r == SubSeq(w.pages, 1, e - 1) \o SubSeq(w.pages, e + 1, Len(w.pages))
             k == Without(w.keys, key)[Len(w.keys)]
  <2>2. /\ BooksOf(r, w.base, w.resident - w.pages[e].chars, w.count - 1, k)
        /\ KeysOf(r) \subseteq KeysOf(w.pages) \ {key}
    BY <1>0, <2>1, BooksRemove, SMTT(30)
  <2>3. v = [w EXCEPT !.pages = r, !.count = w.count - 1, !.resident = w.resident - w.pages[e].chars, !.keys = k]
    BY <1>0, <1>4 DEF Evict, e, WorkingForm
  <2> HIDE DEF r, k, v
  <2> DEFINE res == w.resident - w.pages[e].chars
             cnt == w.count - 1
  <2>4. BooksOf(r, w.base, res, cnt, k) /\ v = [w EXCEPT !.pages = r, !.count = cnt, !.resident = res, !.keys = k]
    BY <2>2, <2>3
  <2> HIDE DEF res, cnt
  <2>5. v = [handles |-> w.handles, pages |-> r, base |-> w.base, resident |-> res,
             requests |-> w.requests, count |-> cnt, keys |-> k, exhaustion |-> w.exhaustion]
    BY <1>0, <2>4 DEF WorkingForm
  <2>6. /\ v.pages = r /\ v.base = w.base /\ v.resident = res /\ v.requests = w.requests
        /\ v.count = cnt /\ v.keys = k /\ WorkingForm(v)
    BY <2>5 DEF WorkingForm
  <2>7. WorkingSound(v)  BY <1>0, <2>4, <2>6 DEF WorkingSound
  <2>8. KeysOf(v.pages) \subseteq KeysOf(w.pages) \ {key}  BY <2>2, <2>6
  <2> QED BY <2>6, <2>7, <2>8 DEF v
<1> QED BY <1>3, <1>4

LEMMA AdmittedSound ==
  ASSUME NEW w, WorkingSound(w), NEW p, p = [key |-> p.key, chars |-> p.chars], p.chars \in Nat,
         RoomFor(w, p.key), NEW related
  PROVE  /\ WorkingSound(Admitted(w, p, related)) /\ Admitted(w, p, related).requests = w.requests
         /\ KeysOf(Admitted(w, p, related).pages) \subseteq KeysOf(w.pages) \cup {p.key}
<1> DEFINE at == PagesOf(w, p.key)
           e == CHOOSE i \in at : \A j \in at : i <= j
           v == Admitted(w, p, related)
           h == FirstOf(Distinct(w.handles \o related), MaxContextHandles)
           before == IF at = {} THEN 0 ELSE w.pages[e].chars
           after == w.resident - before + p.chars
<1>0. /\ WorkingForm(w) /\ BooksOf(w.pages, w.base, w.resident, w.count, w.keys)
      /\ w.requests \in 0..MaxPageRequests
  BY DEF WorkingSound
<1>1. PICK U : w.pages \in Seq(PageSet(U))  BY <1>0 DEF BooksOf
<1>2. UniqueKeys(w.pages)  BY <1>0 DEF BooksOf
<1>3. CASE after > MaxTextCharacters
  <2>1. v = [w EXCEPT !.exhaustion = "RESIDENT_CHARACTER_BUDGET"]  BY <1>3 DEF Admitted
  <2> HIDE DEF v
  <2>2. WorkingSound(v) /\ v.requests = w.requests /\ v.pages = w.pages  BY <2>1, ExhaustedSound
  <2>3. KeysOf(v.pages) \subseteq KeysOf(w.pages) \cup {p.key}  BY <2>2
  <2> QED BY <2>2, <2>3 DEF v
<1>4. CASE ~(after > MaxTextCharacters)
  <2>0. w.resident \in Nat /\ MaxTextCharacters \in Nat  BY <1>0, BooksFacts, ContextAssumption
  <2>1. v = [w EXCEPT !.resident = after, !.exhaustion = "none",
                      !.pages = IF at = {} THEN Append(w.pages, p) ELSE [w.pages EXCEPT ![e] = p],
                      !.count = IF at = {} THEN w.count + 1 ELSE w.count,
                      !.keys = IF at = {} THEN Append(w.keys, p.key) ELSE w.keys,
                      !.handles = h]
    BY <1>0, <1>4 DEF Admitted, WorkingForm
  <2> DEFINE pg == IF at = {} THEN Append(w.pages, p) ELSE [w.pages EXCEPT ![e] = p]
             cnt == IF at = {} THEN w.count + 1 ELSE w.count
             k == IF at = {} THEN Append(w.keys, p.key) ELSE w.keys
  <2>2. BooksOf(pg, w.base, after, cnt, k) /\ KeysOf(pg) \subseteq KeysOf(w.pages) \cup {p.key}
    <3>1. CASE at = {}
      <4>1. after = w.resident + p.chars  BY <2>0, <3>1
      <4>2. w.resident + p.chars <= MaxTextCharacters  BY <1>4, <2>0, <4>1
      <4>3. \A i \in 1..Len(w.pages) : w.pages[i].key # p.key
        <5>1. DOMAIN w.pages = 1..Len(w.pages)  BY <1>1
        <5> QED BY <3>1, <5>1 DEF PagesOf
      <4>4. w.count < MaxPageCount  BY <3>1 DEF RoomFor
      <4> HIDE DEF after
      <4>5. /\ BooksOf(Append(w.pages, p), w.base, w.resident + p.chars, w.count + 1, Append(w.keys, p.key))
            /\ KeysOf(Append(w.pages, p)) \subseteq KeysOf(w.pages) \cup {p.key}
        BY <1>0, <4>2, <4>3, <4>4, BooksAppend
      <4> QED BY <3>1, <4>1, <4>5
    <3>2. CASE at # {}
      <4>1. e \in 1..Len(w.pages) /\ w.pages[e].key = p.key
        BY <1>1, <1>2, <3>2, PositionOf
      <4> HIDE DEF e
      <4>2. after = w.resident - w.pages[e].chars + p.chars  BY <3>2
      <4>3. w.resident - w.pages[e].chars + p.chars <= MaxTextCharacters
        <5>1. w.pages[e] \in PageSet(U)  BY <1>1, <4>1
        <5>2. w.pages[e].chars \in Nat  BY <5>1 DEF PageSet
        <5> QED BY <1>4, <2>0, <4>2, <5>2
      <4> HIDE DEF after
      <4>4. /\ BooksOf([w.pages EXCEPT ![e] = p], w.base, w.resident - w.pages[e].chars + p.chars, w.count, w.keys)
            /\ KeysOf([w.pages EXCEPT ![e] = p]) \subseteq KeysOf(w.pages) \cup {p.key}
        BY <1>0, <4>1, <4>3, BooksReplace
      <4> QED BY <3>2, <4>2, <4>4
    <3> QED BY <3>1, <3>2
  <2> HIDE DEF pg, cnt, k, h, after, v
  <2>3. v = [w EXCEPT !.resident = after, !.exhaustion = "none", !.pages = pg, !.count = cnt, !.keys = k, !.handles = h]
    BY <2>1 DEF pg, cnt, k
  <2>5. v = [handles |-> h, pages |-> pg, base |-> w.base, resident |-> after,
             requests |-> w.requests, count |-> cnt, keys |-> k, exhaustion |-> "none"]
    BY <1>0, <2>3 DEF WorkingForm
  <2>6. /\ v.pages = pg /\ v.base = w.base /\ v.resident = after /\ v.requests = w.requests
        /\ v.count = cnt /\ v.keys = k /\ WorkingForm(v)
    BY <2>5 DEF WorkingForm
  <2>7. WorkingSound(v)  BY <1>0, <2>2, <2>6 DEF WorkingSound
  <2>8. KeysOf(v.pages) \subseteq KeysOf(w.pages) \cup {p.key}  BY <2>2, <2>6
  <2> QED BY <2>6, <2>7, <2>8 DEF v
<1> QED BY <1>3, <1>4

LEMMA InitialSound ==
  ASSUME NEW handles, NEW base \in 0..MaxTextCharacters
  PROVE  /\ WorkingSound(InitialWorkingSet(handles, base)) /\ InitialWorkingSet(handles, base).pages = <<>>
         /\ InitialWorkingSet(handles, base).requests = 0 /\ InitialWorkingSet(handles, base).base = base
<1> DEFINE v == InitialWorkingSet(handles, base)
           h == FirstOf(Distinct(handles), MaxContextHandles)
<1>1. v = [handles |-> h, pages |-> <<>>, base |-> base, resident |-> base, requests |-> 0, count |-> 0,
           keys |-> <<>>, exhaustion |-> "none"]
  BY DEF InitialWorkingSet
<1> HIDE DEF v, h
<1>2. /\ v.pages = <<>> /\ v.base = base /\ v.resident = base /\ v.requests = 0
      /\ v.count = 0 /\ v.keys = <<>> /\ WorkingForm(v)
  BY <1>1 DEF WorkingForm
<1>3. <<>> \in Seq(PageSet({})) /\ Len(<<>>) = 0 /\ DOMAIN <<>> = 1..0  OBVIOUS
<1>4. Characters(<<>>)[0] = 0  BY <1>3, CharactersAre
<1>5. base \in Nat /\ base <= MaxTextCharacters /\ base + 0 = base /\ 0 <= MaxPageCount /\ 0 \in 0..MaxPageRequests
  BY ContextAssumption
<1>6. UniqueKeys(<<>>) /\ <<>> = [i \in DOMAIN <<>> |-> <<>>[i].key]
  <2>1. \A i \in 1..0 : FALSE  OBVIOUS
  <2>2. UniqueKeys(<<>>)  BY <1>3, <2>1 DEF UniqueKeys
  <2>3. <<>> = [i \in DOMAIN <<>> |-> <<>>[i].key]  OBVIOUS
  <2> QED BY <2>2, <2>3
<1>7. BooksOf(<<>>, base, base, 0, <<>>)
  <2>1. base = base + Characters(<<>>)[Len(<<>>)]  BY <1>3, <1>4, <1>5
  <2> QED BY <1>3, <1>5, <1>6, <2>1 DEF BooksOf
<1>8. WorkingSound(v)  BY <1>2, <1>5, <1>7 DEF WorkingSound
<1> QED BY <1>2, <1>8 DEF v

\* A rebase keeps some of the pages and the mission's counters.
LEMMA RebaseSound ==
  ASSUME NEW w, WorkingSound(w), NEW next, next.base \in 0..MaxTextCharacters
  PROVE  /\ WorkingSound(RebaseWorkingSet(w, next)) /\ RebaseWorkingSet(w, next).requests = w.requests
         /\ KeysOf(RebaseWorkingSet(w, next).pages) \subseteq KeysOf(w.pages)
<1> DEFINE v == RebaseWorkingSet(w, next)
           h == FirstOf(Distinct(next.handles \o w.handles), MaxContextHandles)
           room == MaxTextCharacters - next.base
           q == w.pages
           s == KeepWithin(q, room)[Len(q)]
           k == [i \in DOMAIN s.pages |-> s.pages[i].key]
           res == MaxTextCharacters - s.room
           cnt == Len(s.pages)
<1>0. /\ WorkingForm(w) /\ BooksOf(w.pages, w.base, w.resident, w.count, w.keys)
      /\ w.requests \in 0..MaxPageRequests
  BY DEF WorkingSound
<1>1. PICK U : q \in Seq(PageSet(U))  BY <1>0 DEF BooksOf
<1>2. UniqueKeys(q)  BY <1>0 DEF BooksOf
<1>3. room \in Nat /\ next.base + room = MaxTextCharacters /\ next.base \in Nat /\ MaxTextCharacters \in Nat
  BY ContextAssumption
<1>4. s \in KeptSet(U) /\ KeptOf(q, s, Len(q), room)
  <2> HIDE DEF q, room
  <2> QED BY <1>1, <1>2, <1>3, RebaseKeeps
<1>5. v = [w EXCEPT !.handles = h, !.pages = s.pages, !.base = next.base, !.resident = res, !.count = cnt,
                    !.keys = k, !.exhaustion = "none"]
  BY <1>0 DEF RebaseWorkingSet, WorkingForm
<1> HIDE DEF s, h, v
<1>6. s.pages \in Seq(PageSet(U)) /\ s.room \in Nat /\ cnt \in Nat  BY <1>4 DEF KeptSet
<1>7. BooksOf(s.pages, next.base, res, cnt, k)
  <2> DEFINE c == Characters(s.pages)[Len(s.pages)]
             x == s.room
  <2>1. c \in Nat
    <3>1. Characters(s.pages) \in [0..Len(s.pages) -> Nat]  BY <1>6, CharactersAre
    <3>2. Len(s.pages) \in 0..Len(s.pages)  BY <1>6
    <3> QED BY <3>1, <3>2
  <2>2. c + x = room  BY <1>4 DEF KeptOf
  <2>3. x \in Nat  BY <1>6
  <2>4. MaxTextCharacters - x = next.base + c /\ MaxTextCharacters - x <= MaxTextCharacters
    <3> HIDE DEF c, x, room
    <3> QED BY <1>3, <2>1, <2>2, <2>3
  <2>5. cnt <= MaxPageCount
    <3>1. Len(s.pages) <= Len(q) /\ Len(q) = w.count /\ w.count <= MaxPageCount /\ Len(q) \in Nat
      BY <1>0, <1>1, <1>4 DEF KeptOf, BooksOf
    <3> QED BY <1>6, <3>1, ContextAssumption
  <2>6. UniqueKeys(s.pages)  BY <1>4 DEF KeptOf
  <2> QED BY <1>6, <2>4, <2>5, <2>6 DEF BooksOf
<1>8. KeysOf(s.pages) \subseteq KeysOf(q)
  <2> SUFFICES ASSUME NEW j \in 1..Len(s.pages) PROVE s.pages[j].key \in KeysOf(q)
    BY DEF KeysOf
  <2>1. PICK m \in 1..Len(q) : s.pages[j] = q[m]  BY <1>4 DEF KeptOf
  <2> QED BY <2>1 DEF KeysOf
<1> HIDE DEF k, res, cnt
<1> DEFINE pg == s.pages
           b == next.base
<1> HIDE DEF pg, b
<1>9. v = [handles |-> h, pages |-> pg, base |-> b, resident |-> res,
           requests |-> w.requests, count |-> cnt, keys |-> k, exhaustion |-> "none"]
  BY <1>0, <1>5 DEF WorkingForm, pg, b
<1>10. /\ v.pages = pg /\ v.base = b /\ v.resident = res /\ v.requests = w.requests
       /\ v.count = cnt /\ v.keys = k /\ WorkingForm(v)
  BY <1>9 DEF WorkingForm
<1>11. WorkingSound(v)  BY <1>0, <1>7, <1>10 DEF WorkingSound, pg, b
<1> QED BY <1>8, <1>10, <1>11 DEF v, pg

LEMMA ClippedNat ==
  ASSUME NEW n \in Nat PROVE Clipped(n) \in Nat
BY ContextAssumption DEF Clipped

\* A snapshot of files that may exist, through an indexing of such files.
SnapSound(s) ==
  s = [revision |-> s.revision, files |-> s.files, digest |-> s.digest] /\ s.files \subseteq SourceFiles

LEMMA IndexScopeSound ==
  ASSUME NEW s, SnapSound(s), NEW tree, NEW asked, asked \subseteq SourceFiles
  PROVE  SnapSound(IndexScope(s, tree, asked))
<1> DEFINE readable == {f \in asked : tree[f] # 0 /\ tree[f] # Large}
           d == [f \in SourceFiles |-> IF f \in readable THEN tree[f] ELSE s.digest[f]]
           fs == s.files \cup {f \in asked : tree[f] # 0}
           t == IndexScope(s, tree, asked)
<1>1. t = [s EXCEPT !.files = fs, !.digest = d]
  BY DEF IndexScope, SnapSound
<1>2. fs \subseteq SourceFiles  BY DEF SnapSound
<1> HIDE DEF d, fs, t
<1>3. t = [revision |-> s.revision, files |-> fs, digest |-> d]  BY <1>1 DEF SnapSound
<1>4. t.revision = s.revision /\ t.files = fs /\ t.digest = d  BY <1>3
<1>5. SnapSound(t)  BY <1>2, <1>3, <1>4 DEF SnapSound
<1> QED BY <1>5 DEF t

\* Every operation has a resolver, and none starts past its first step.
LEMMA ResolverStarts ==
  ASSUME NEW kind, NEW op, <<kind, op>> \in OperationMatches
  PROVE  Resolver[op] \in {"slice", "module", "query", "knowledge"}
<1>1. op \in {"FILE_SLICE", "SYMBOL_SLICE", "FIND_REFERENCES", "MODULE_RELATIONSHIPS", "FIND_SYMBOL",
              "KNOWLEDGE_RECORD", "EVIDENCE_REFERENCES"}
  BY DEF OperationMatches
<1> QED BY <1>1 DEF Resolver

(* ContextPaging: the inductive invariant. *)

ExpansionForm(e) ==
  e = [at |-> e.at, req |-> e.req, copy |-> e.copy, snap |-> e.snap, uses |-> e.uses, found |-> e.found]

\* An expansion under way holds a copy whose books are right and that still has room for the page
\* asked for; a file about to be read, and every document about to be checked, may exist.
ExpansionSound(e) ==
  /\ ExpansionForm(e)
  /\ e.at # "idle" => WorkingSound(e.copy) /\ SnapSound(e.snap) /\ RoomFor(e.copy, Key(e.req))
  /\ e.at = "read" => e.req.handle.of \in SourceFiles
  /\ e.at = "documents" => IsFiniteSet(e.found) /\ \A x \in e.found : x[1] \in SourceFiles

\* While no two operations overlapped: one expansion at a time, whose copy is the working set and
\* has counted every request that reached a source.
Undisturbed ==
  /\ \A c, d \in Callers : expansion[c].at # "idle" /\ expansion[d].at # "idle" => c = d
  /\ \A c \in Callers : expansion[c].at # "idle" =>
       expansion[c].copy.pages = workingSet.pages /\ sourceAsked <= expansion[c].copy.requests
  /\ (\A c \in Callers : expansion[c].at = "idle") => sourceAsked <= workingSet.requests
  /\ KeysOf(workingSet.pages) \cap denied = {}

ContextInv ==
  /\ WorkingSound(workingSet) /\ SnapSound(pagedSnap) /\ pagedTree \in [SourceFiles -> Nat]
  /\ expansion = [c \in Callers |-> expansion[c]] /\ \A c \in Callers : ExpansionSound(expansion[c])
  /\ sourceAsked \in Nat /\ overlapped \in BOOLEAN
  /\ ~overlapped => Undisturbed

LEMMA IdleSound == ExpansionSound(NoExpansion) /\ NoExpansion.at = "idle"
BY DEF ExpansionSound, ExpansionForm, NoExpansion

LEMMA ContextStart == ContextInit => ContextInv
<1> SUFFICES ASSUME ContextInit PROVE ContextInv  OBVIOUS
<1>1. /\ pagedTree = [f \in SourceFiles |-> IF f = 1 THEN 1 ELSE 0]
      /\ pagedSnap = IndexScope(IndexTree(1, pagedTree), pagedTree, SourceFiles)
      /\ workingSet = InitialWorkingSet(InitialHandles(pagedSnap, binding), GuidedLength)
      /\ expansion = [c \in Callers |-> NoExpansion]
      /\ sourceAsked = 0 /\ denied = {} /\ overlapped = FALSE
  BY DEF ContextInit
<1>2. pagedTree \in [SourceFiles -> Nat]  BY <1>1
<1>3. SnapSound(pagedSnap)
  <2>1. SnapSound(IndexTree(1, pagedTree))  BY DEF SnapSound, IndexTree
  <2> QED BY <1>1, <2>1, IndexScopeSound
<1>4. WorkingSound(workingSet) /\ workingSet.pages = <<>> /\ workingSet.requests = 0
  <2>1. GuidedLength \in 0..MaxTextCharacters  BY ContextAssumption
  <2> QED BY <1>1, <2>1, InitialSound
<1>5. \A c \in Callers : expansion[c] = NoExpansion  BY <1>1
<1>6. expansion = [c \in Callers |-> expansion[c]]  BY <1>1
<1>7. \A c \in Callers : ExpansionSound(expansion[c]) /\ expansion[c].at = "idle"  BY <1>5, IdleSound
<1>8. Undisturbed
  <2>1. sourceAsked <= workingSet.requests  BY <1>1, <1>4
  <2>2. KeysOf(workingSet.pages) \cap denied = {}  BY <1>1
  <2> QED BY <1>7, <2>1, <2>2 DEF Undisturbed
<1> QED BY <1>1, <1>2, <1>3, <1>4, <1>6, <1>7, <1>8 DEF ContextInv

\* A refused request, or a rebase, counts against the working set and leaves its pages alone, or
\* some of them.
LEMMA RefusalStep ==
  ASSUME ContextInv, ~overlapped, overlapped' = (overlapped \/ Busy), WorkingSound(workingSet'),
         KeysOf(workingSet'.pages) \subseteq KeysOf(workingSet.pages),
         workingSet'.requests >= workingSet.requests,
         UNCHANGED <<pagedTree, pagedSnap, expansion, sourceAsked, denied>>
  PROVE  ContextInv'
<1>1. /\ SnapSound(pagedSnap) /\ pagedTree \in [SourceFiles -> Nat]
      /\ expansion = [c \in Callers |-> expansion[c]] /\ \A c \in Callers : ExpansionSound(expansion[c])
      /\ sourceAsked \in Nat /\ overlapped \in BOOLEAN /\ Undisturbed
  BY DEF ContextInv
<1>2. overlapped' \in BOOLEAN  BY <1>1 DEF Busy
<1>3. ASSUME ~overlapped' PROVE Undisturbed'
  <2>1. \A c \in Callers : expansion[c].at = "idle"  BY <1>3 DEF Busy
  <2>2. sourceAsked <= workingSet.requests /\ KeysOf(workingSet.pages) \cap denied = {}
    BY <1>1, <2>1 DEF Undisturbed
  <2>3. workingSet.requests \in Nat /\ workingSet'.requests \in Nat
    BY ContextAssumption DEF ContextInv, WorkingSound
  <2>4. sourceAsked <= workingSet'.requests  BY <1>1, <2>2, <2>3
  <2>5. KeysOf(workingSet'.pages) \cap denied = {}  BY <2>2
  <2>6. \A c \in Callers : expansion'[c].at = "idle"  BY <2>1
  <2> QED BY <2>4, <2>5, <2>6 DEF Undisturbed
<1>4. expansion' = [c \in Callers |-> expansion'[c]] /\ \A c \in Callers : ExpansionSound(expansion'[c])
  BY <1>1
<1>5. SnapSound(pagedSnap') /\ pagedTree' \in [SourceFiles -> Nat] /\ sourceAsked' \in Nat  BY <1>1
<1> QED BY <1>2, <1>3, <1>4, <1>5 DEF ContextInv

\* An expansion that ends gives the working set its copy, less or more the page it was about.
LEMMA FinishStep ==
  ASSUME ContextInv, NEW c \in Callers, expansion[c].at # "idle", NEW w, WorkingSound(w), NEW s, SnapSound(s),
         w.requests = expansion[c].copy.requests, FinishExpansion(c, w, s), UNCHANGED sourceAsked,
         KeysOf(expansion[c].copy.pages) \cap denied = {} => KeysOf(w.pages) \cap denied' = {}
  PROVE  ContextInv'
<1>1. /\ pagedTree \in [SourceFiles -> Nat]
      /\ expansion = [d \in Callers |-> expansion[d]] /\ \A d \in Callers : ExpansionSound(expansion[d])
      /\ sourceAsked \in Nat /\ overlapped \in BOOLEAN
  BY DEF ContextInv
<1>2. /\ workingSet' = w /\ pagedSnap' = s /\ expansion' = [expansion EXCEPT ![c] = NoExpansion]
      /\ pagedTree' = pagedTree /\ overlapped' = overlapped
  BY DEF FinishExpansion
<1>3. expansion'[c] = NoExpansion /\ \A d \in Callers : d # c => expansion'[d] = expansion[d]
  <2> HIDE DEF NoExpansion
  <2> QED BY <1>1, <1>2
<1>4. expansion' = [d \in Callers |-> expansion'[d]]
  <2> HIDE DEF NoExpansion
  <2> QED BY <1>1, <1>2
<1>5. \A d \in Callers : ExpansionSound(expansion'[d])
  <2> TAKE d \in Callers
  <2>1. CASE d = c  BY <1>3, <2>1, IdleSound
  <2>2. CASE d # c  BY <1>1, <1>3, <2>2
  <2> QED BY <2>1, <2>2
<1>6. ASSUME ~overlapped' PROVE Undisturbed'
  <2>1. Undisturbed  BY <1>2, <1>6 DEF ContextInv
  <2>2. \A d \in Callers : d # c => expansion[d].at = "idle"  BY <2>1 DEF Undisturbed
  <2>3. \A d \in Callers : expansion'[d].at = "idle"
    <3> TAKE d \in Callers
    <3>1. CASE d = c  BY <1>3, <3>1, IdleSound
    <3>2. CASE d # c  BY <1>3, <2>2, <3>2
    <3> QED BY <3>1, <3>2
  <2>4. /\ sourceAsked <= expansion[c].copy.requests /\ expansion[c].copy.pages = workingSet.pages
        /\ KeysOf(workingSet.pages) \cap denied = {}
    BY <2>1 DEF Undisturbed
  <2>5. sourceAsked' <= workingSet'.requests  BY <1>2, <2>4
  <2>6. KeysOf(workingSet'.pages) \cap denied' = {}  BY <1>2, <2>4
  <2> QED BY <2>3, <2>5, <2>6 DEF Undisturbed
<1>7. WorkingSound(workingSet') /\ SnapSound(pagedSnap') /\ pagedTree' \in [SourceFiles -> Nat]  BY <1>1, <1>2
<1>8. sourceAsked' \in Nat /\ overlapped' \in BOOLEAN  BY <1>1, <1>2
<1> QED BY <1>4, <1>5, <1>6, <1>7, <1>8 DEF ContextInv

LEMMA UnresolvedStep ==
  ASSUME ContextInv, NEW c \in Callers, expansion[c].at # "idle", NEW s, SnapSound(s), PageUnresolved(c, s)
  PROVE  ContextInv'
<1> DEFINE key == Key(expansion[c].req)
           copy == expansion[c].copy
           w == Evict(copy, key)
<1>1. WorkingSound(copy)  BY DEF ContextInv, ExpansionSound
<1>2. FinishExpansion(c, w, s) /\ denied' = denied \cup {key} /\ UNCHANGED sourceAsked  BY DEF PageUnresolved
<1>3. /\ WorkingSound(w) /\ w.requests = copy.requests /\ KeysOf(w.pages) \subseteq KeysOf(copy.pages) \ {key}
  <2> HIDE DEF copy, key
  <2> QED BY <1>1, EvictSound
<1>4. KeysOf(copy.pages) \cap denied = {} => KeysOf(w.pages) \cap denied' = {}
  <2> HIDE DEF copy, key, w
  <2> QED BY <1>2, <1>3
<1> HIDE DEF w, key
<1> QED BY <1>2, <1>3, <1>4, FinishStep

LEMMA ResolvedStep ==
  ASSUME ContextInv, NEW c \in Callers, expansion[c].at # "idle", NEW s, SnapSound(s),
         NEW length \in Nat, NEW related, ResolvedPage(c, s, length, related)
  PROVE  ContextInv'
<1> DEFINE key == Key(expansion[c].req)
           copy == expansion[c].copy
           p == [key |-> key, chars |-> Clipped(length)]
           w == Admitted(copy, p, related)
<1>1. WorkingSound(copy) /\ RoomFor(copy, key)  BY DEF ContextInv, ExpansionSound
<1>2. FinishExpansion(c, w, s) /\ denied' = denied \ {key} /\ UNCHANGED sourceAsked  BY DEF ResolvedPage
<1>3. p.key = key /\ p.chars \in Nat /\ p = [key |-> p.key, chars |-> p.chars]  BY ClippedNat
<1>4. /\ WorkingSound(w) /\ w.requests = copy.requests /\ KeysOf(w.pages) \subseteq KeysOf(copy.pages) \cup {key}
  <2> HIDE DEF copy, key, p
  <2> QED BY <1>1, <1>3, AdmittedSound
<1>5. KeysOf(copy.pages) \cap denied = {} => KeysOf(w.pages) \cap denied' = {}
  <2> HIDE DEF copy, key, w
  <2> QED BY <1>2, <1>4
<1> HIDE DEF w, key, p
<1> QED BY <1>2, <1>4, <1>5, FinishStep

\* An expansion that goes on to its next step.
LEMMA MoveStep ==
  ASSUME ContextInv, NEW c \in Callers, expansion[c].at # "idle", NEW e, ExpansionSound(e), e.at # "idle",
         e.copy = expansion[c].copy, expansion' = [expansion EXCEPT ![c] = e],
         UNCHANGED <<pagedTree, pagedSnap, workingSet, sourceAsked, denied, overlapped>>
  PROVE  ContextInv'
<1>1. /\ SnapSound(pagedSnap) /\ pagedTree \in [SourceFiles -> Nat] /\ WorkingSound(workingSet)
      /\ expansion = [d \in Callers |-> expansion[d]] /\ \A d \in Callers : ExpansionSound(expansion[d])
      /\ sourceAsked \in Nat /\ overlapped \in BOOLEAN
  BY DEF ContextInv
<1>2. expansion'[c] = e /\ \A d \in Callers : d # c => expansion'[d] = expansion[d]  BY <1>1
<1>3. expansion' = [d \in Callers |-> expansion'[d]]  BY <1>1
<1>4. \A d \in Callers : ExpansionSound(expansion'[d])
  <2> TAKE d \in Callers
  <2>1. CASE d = c  BY <1>2, <2>1
  <2>2. CASE d # c  BY <1>1, <1>2, <2>2
  <2> QED BY <2>1, <2>2
<1>5. \A d \in Callers : (expansion'[d].at = "idle" <=> expansion[d].at = "idle") /\ (expansion[d].at # "idle" => expansion'[d].copy = expansion[d].copy)
  <2> TAKE d \in Callers
  <2>1. CASE d = c  BY <1>2, <2>1
  <2>2. CASE d # c  BY <1>2, <2>2
  <2> QED BY <2>1, <2>2
<1>6. ASSUME ~overlapped' PROVE Undisturbed'
  <2>1. Undisturbed  BY <1>6 DEF ContextInv
  <2>2. \A a, b \in Callers : expansion'[a].at # "idle" /\ expansion'[b].at # "idle" => a = b
    BY <1>5, <2>1 DEF Undisturbed
  <2>3. \A d \in Callers : expansion'[d].at # "idle" =>
          expansion'[d].copy.pages = workingSet.pages /\ sourceAsked <= expansion'[d].copy.requests
    BY <1>5, <2>1 DEF Undisturbed
  <2>4. (\A d \in Callers : expansion'[d].at = "idle") => sourceAsked <= workingSet.requests
    BY <1>5, <2>1 DEF Undisturbed
  <2>5. KeysOf(workingSet.pages) \cap denied = {}  BY <2>1 DEF Undisturbed
  <2> QED BY <2>2, <2>3, <2>4, <2>5 DEF Undisturbed
<1>7. WorkingSound(workingSet') /\ SnapSound(pagedSnap') /\ pagedTree' \in [SourceFiles -> Nat]  BY <1>1
<1>8. sourceAsked' \in Nat /\ overlapped' \in BOOLEAN  BY <1>1
<1> QED BY <1>3, <1>4, <1>6, <1>7, <1>8 DEF ContextInv

LEMMA AskStep ==
  ASSUME ContextInv, NEW c \in Callers, NEW req, AskSource(c, req)
  PROVE  ContextInv'
<1> DEFINE copy == Counted(workingSet)
           at == Resolver[req.operation]
           e == [at |-> at, req |-> req, copy |-> copy, snap |-> pagedSnap, uses |-> 0, found |-> {}]
<1>1. /\ SnapSound(pagedSnap) /\ pagedTree \in [SourceFiles -> Nat] /\ WorkingSound(workingSet)
      /\ expansion = [d \in Callers |-> expansion[d]] /\ \A d \in Callers : ExpansionSound(expansion[d])
      /\ sourceAsked \in Nat /\ overlapped \in BOOLEAN /\ ~overlapped /\ Undisturbed
  BY DEF ContextInv, AskSource
<1>2. /\ expansion[c].at = "idle" /\ overlapped' = (overlapped \/ Busy) /\ sourceAsked' = sourceAsked + 1
      /\ expansion' = [expansion EXCEPT ![c] = e] /\ workingSet.requests < MaxPageRequests
      /\ <<req.handle.kind, req.operation>> \in OperationMatches
      /\ PagesOf(workingSet, Key(req)) # {} \/ workingSet.count < MaxPageCount
      /\ pagedTree' = pagedTree /\ pagedSnap' = pagedSnap /\ workingSet' = workingSet /\ denied' = denied
  BY DEF AskSource
<1>3. /\ WorkingSound(copy) /\ copy.pages = workingSet.pages /\ copy.count = workingSet.count
      /\ copy.requests = workingSet.requests + 1
  <2>1. /\ WorkingSound(copy) /\ copy.pages = workingSet.pages /\ copy.count = workingSet.count
        /\ copy.requests = IF workingSet.requests >= MaxPageRequests THEN workingSet.requests ELSE workingSet.requests + 1
    BY <1>1, CountedSound
  <2>2. ~(workingSet.requests >= MaxPageRequests)
    <3>1. workingSet.requests \in Nat /\ MaxPageRequests \in Nat
      BY <1>1, ContextAssumption DEF WorkingSound
    <3> QED BY <1>2, <3>1
  <2> QED BY <2>1, <2>2
<1> HIDE DEF copy
<1>4. at \in {"slice", "module", "query", "knowledge"}  BY <1>2, ResolverStarts
<1> HIDE DEF at
<1>5. /\ e.at = at /\ e.req = req /\ e.copy = copy /\ e.snap = pagedSnap /\ ExpansionForm(e)
  BY DEF ExpansionForm
<1> HIDE DEF e
<1>6. RoomFor(copy, Key(req))
  BY <1>2, <1>3 DEF RoomFor, PagesOf
<1>7. ExpansionSound(e)  BY <1>1, <1>3, <1>4, <1>5, <1>6 DEF ExpansionSound
<1>8. expansion'[c] = e /\ \A d \in Callers : d # c => expansion'[d] = expansion[d]  BY <1>1, <1>2
<1>9. expansion' = [d \in Callers |-> expansion'[d]]  BY <1>1, <1>2
<1>10. \A d \in Callers : ExpansionSound(expansion'[d])
  <2> TAKE d \in Callers
  <2>1. CASE d = c  BY <1>7, <1>8, <2>1
  <2>2. CASE d # c  BY <1>1, <1>8, <2>2
  <2> QED BY <2>1, <2>2
<1>11. ASSUME ~overlapped' PROVE Undisturbed'
  <2>1. \A d \in Callers : expansion[d].at = "idle"  BY <1>2, <1>11 DEF Busy
  <2>2. sourceAsked <= workingSet.requests /\ KeysOf(workingSet.pages) \cap denied = {}
    BY <1>1, <2>1 DEF Undisturbed
  <2>3. \A d \in Callers : expansion'[d].at # "idle" => d = c  BY <1>8, <2>1
  <2>4. sourceAsked + 1 <= copy.requests
    <3>1. workingSet.requests \in Nat  BY <1>1, ContextAssumption DEF WorkingSound
    <3> QED BY <1>1, <1>3, <2>2, <3>1
  <2>5. expansion'[c].copy = copy /\ expansion'[c].at # "idle"  BY <1>4, <1>5, <1>8
  <2>6. \A a, b \in Callers : expansion'[a].at # "idle" /\ expansion'[b].at # "idle" => a = b  BY <2>3
  <2>7. \A d \in Callers : expansion'[d].at # "idle" =>
          expansion'[d].copy.pages = workingSet'.pages /\ sourceAsked' <= expansion'[d].copy.requests
    BY <1>2, <1>3, <2>3, <2>4, <2>5
  <2>8. ~(\A d \in Callers : expansion'[d].at = "idle")  BY <2>5
  <2>9. KeysOf(workingSet'.pages) \cap denied' = {}  BY <1>2, <2>2
  <2> QED BY <2>6, <2>7, <2>8, <2>9 DEF Undisturbed
<1>12. WorkingSound(workingSet') /\ SnapSound(pagedSnap') /\ pagedTree' \in [SourceFiles -> Nat]  BY <1>1, <1>2
<1>13. sourceAsked' \in Nat /\ overlapped' \in BOOLEAN  BY <1>1, <1>2 DEF Busy
<1> QED BY <1>9, <1>10, <1>11, <1>12, <1>13 DEF ContextInv

LEMMA IndexSliceStep ==
  ASSUME ContextInv, NEW c \in Callers, IndexSlice(c) PROVE ContextInv'
<1> DEFINE e == expansion[c]
           f == e.req.handle.of
           s == IndexScope(e.snap, pagedTree, {f})
           n == [e EXCEPT !.at = "read", !.snap = s]
<1>1. /\ ExpansionSound(e) /\ e.at = "slice" /\ expansion = [d \in Callers |-> expansion[d]]
  BY DEF ContextInv, IndexSlice
<1>2. e.at # "idle" /\ SnapSound(e.snap) /\ ExpansionForm(e) /\ WorkingSound(e.copy) /\ RoomFor(e.copy, Key(e.req))
  BY <1>1 DEF ExpansionSound
<1>3. CASE f \in e.snap.files /\ {s.digest[f]} = e.req.handle.bound
  <2>1. f \in SourceFiles  BY <1>2, <1>3 DEF SnapSound
  <2>2. SnapSound(s)
    <3> HIDE DEF f, e
    <3> QED BY <1>2, <2>1, IndexScopeSound
  <2>3. /\ expansion' = [expansion EXCEPT ![c].at = "read", ![c].snap = s]
        /\ UNCHANGED <<pagedTree, pagedSnap, workingSet, sourceAsked, denied, overlapped>>
    BY <1>3 DEF IndexSlice
  <2> HIDE DEF s
  <2>4. expansion' = [expansion EXCEPT ![c] = n]  BY <2>3
  <2>5. n = [at |-> "read", req |-> e.req, copy |-> e.copy, snap |-> s, uses |-> e.uses, found |-> e.found]
    <3>1. n = [e EXCEPT !.at = "read", !.snap = s]  OBVIOUS
    <3> HIDE DEF e, n
    <3>2. ExpansionForm(e)  BY <1>2
    <3> QED BY <3>1, <3>2 DEF ExpansionForm
  <2> HIDE DEF n
  <2>6. n.at = "read" /\ n.req = e.req /\ n.copy = e.copy /\ n.snap = s /\ ExpansionForm(n)
    BY <2>5 DEF ExpansionForm
  <2>7. ExpansionSound(n)
    <3> HIDE DEF e
    <3> QED BY <1>2, <2>1, <2>2, <2>6 DEF ExpansionSound
  <2> QED BY <1>2, <2>3, <2>4, <2>6, <2>7, MoveStep
<1>4. CASE ~(f \in e.snap.files /\ {s.digest[f]} = e.req.handle.bound)
  <2> DEFINE t == IF f \in e.snap.files THEN s ELSE e.snap
  <2>1. PageUnresolved(c, t)  BY <1>4 DEF IndexSlice
  <2>2. SnapSound(t)
    <3>1. CASE f \in e.snap.files
      <4>1. {f} \subseteq SourceFiles  BY <1>2, <3>1 DEF SnapSound
      <4>2. SnapSound(s)
        <5> HIDE DEF f, e
        <5> QED BY <1>2, <4>1, IndexScopeSound
      <4> HIDE DEF s
      <4> QED BY <3>1, <4>2
    <3>2. CASE ~(f \in e.snap.files)  BY <1>2, <3>2
    <3> QED BY <3>1, <3>2
  <2> HIDE DEF t
  <2> QED BY <1>2, <2>1, <2>2, UnresolvedStep
<1> QED BY <1>3, <1>4

LEMMA ReadSliceStep ==
  ASSUME ContextInv, NEW c \in Callers, ReadSlice(c) PROVE ContextInv'
<1> DEFINE e == expansion[c]
           f == e.req.handle.of
<1>1. ExpansionSound(e) /\ e.at = "read" /\ pagedTree \in [SourceFiles -> Nat]  BY DEF ContextInv, ReadSlice
<1>2. e.at # "idle" /\ SnapSound(e.snap) /\ f \in SourceFiles  BY <1>1 DEF ExpansionSound
<1>3. pagedTree[f] \in Nat  BY <1>1, <1>2
<1>4. CASE pagedTree[f] \in {0, Large}
  <2>1. PageUnresolved(c, e.snap)  BY <1>4 DEF ReadSlice
  <2> QED BY <1>2, <2>1, UnresolvedStep
<1>5. CASE ~(pagedTree[f] \in {0, Large})
  <2> DEFINE related == <<Handle("SYMBOL", f, {e.snap.digest[f]})>>
             length == pagedTree[f]
             s == e.snap
  <2>1. ResolvedPage(c, s, length, related)  BY <1>5 DEF ReadSlice
  <2>2. SnapSound(s) /\ length \in Nat  BY <1>2, <1>3
  <2> HIDE DEF related, length, s
  <2> QED BY <1>2, <2>1, <2>2, ResolvedStep
<1> QED BY <1>4, <1>5

LEMMA ResolveModuleStep ==
  ASSUME ContextInv, NEW c \in Callers, ResolveModule(c) PROVE ContextInv'
<1> DEFINE e == expansion[c]
           s == IndexScope(e.snap, pagedTree, e.snap.files)
<1>1. ExpansionSound(e) /\ e.at = "module"  BY DEF ContextInv, ResolveModule
<1>2. e.at # "idle" /\ SnapSound(e.snap)  BY <1>1 DEF ExpansionSound
<1>3. SnapSound(s)
  <2>1. e.snap.files \subseteq SourceFiles  BY <1>2 DEF SnapSound
  <2> HIDE DEF e
  <2> QED BY <1>2, <2>1, IndexScopeSound
<1>4. CASE e.snap.files # e.req.handle.bound
  <2>1. PageUnresolved(c, e.snap)  BY <1>4 DEF ResolveModule
  <2> QED BY <1>2, <2>1, UnresolvedStep
<1>5. CASE ~(e.snap.files # e.req.handle.bound)
  <2> DEFINE related == SetToSeq({Handle("FILE", f, {s.digest[f]}) : f \in {g \in s.files : s.digest[g] # 0}})
             length == Cardinality(s.files)
  <2>1. ResolvedPage(c, s, length, related)  BY <1>5 DEF ResolveModule
  <2>2. length \in Nat
    <3>1. s.files \subseteq SourceFiles  BY <1>3 DEF SnapSound
    <3>2. IsFiniteSet(s.files)  BY <3>1, ContextAssumption, FS_Subset
    <3> QED BY <3>2, FS_CardinalityType
  <2> HIDE DEF related, length, s
  <2> QED BY <1>2, <1>3, <2>1, <2>2, ResolvedStep
<1> QED BY <1>4, <1>5

LEMMA QueryIndexStep ==
  ASSUME ContextInv, NEW c \in Callers, QueryIndex(c) PROVE ContextInv'
<1> DEFINE e == expansion[c]
           n == [e EXCEPT !.at = "answer", !.uses = binding]
           refused == binding = 0 \/ (e.req.handle.kind = "REPOSITORY" /\ e.req.handle.bound # {binding})
<1>1. ExpansionSound(e) /\ e.at = "query" /\ expansion = [d \in Callers |-> expansion[d]]  BY DEF ContextInv, QueryIndex
<1>2. e.at # "idle" /\ SnapSound(e.snap) /\ ExpansionForm(e) /\ WorkingSound(e.copy) /\ RoomFor(e.copy, Key(e.req))
  BY <1>1 DEF ExpansionSound
<1>3. CASE refused
  <2>1. PageUnresolved(c, e.snap)  BY <1>3 DEF QueryIndex
  <2> QED BY <1>2, <2>1, UnresolvedStep
<1>4. CASE ~refused
  <2>1. /\ expansion' = [expansion EXCEPT ![c].at = "answer", ![c].uses = binding]
        /\ UNCHANGED <<pagedTree, pagedSnap, workingSet, sourceAsked, denied, overlapped>>
    BY <1>4 DEF QueryIndex
  <2>2. expansion' = [expansion EXCEPT ![c] = n]  BY <2>1
  <2>3. n = [at |-> "answer", req |-> e.req, copy |-> e.copy, snap |-> e.snap, uses |-> binding, found |-> e.found]
    <3>1. n = [e EXCEPT !.at = "answer", !.uses = binding]  OBVIOUS
    <3> HIDE DEF e, n
    <3>2. ExpansionForm(e)  BY <1>2
    <3> QED BY <3>1, <3>2 DEF ExpansionForm
  <2> HIDE DEF n
  <2>4. n.at = "answer" /\ n.req = e.req /\ n.copy = e.copy /\ n.snap = e.snap /\ ExpansionForm(n)
    BY <2>3 DEF ExpansionForm
  <2>5. ExpansionSound(n)
    <3> HIDE DEF e
    <3> QED BY <1>2, <2>4 DEF ExpansionSound
  <2> QED BY <1>2, <2>1, <2>2, <2>4, <2>5, MoveStep
<1> QED BY <1>3, <1>4

LEMMA TakeAnswerStep ==
  ASSUME ContextInv, NEW c \in Callers, expansion[c].at = "answer", NEW found, IsFiniteSet(found), NEW source,
         TakeAnswer(c, found, source)
  PROVE  ContextInv'
<1> DEFINE e == expansion[c]
           anchor == IF e.req.handle.kind = "SYMBOL" THEN {<<e.req.handle.of, v>> : v \in e.req.handle.bound} ELSE {}
<1>1. ExpansionSound(e) /\ e.at = "answer" /\ expansion = [d \in Callers |-> expansion[d]]
  BY DEF ContextInv
<1>2. e.at # "idle" /\ SnapSound(e.snap) /\ ExpansionForm(e) /\ WorkingSound(e.copy) /\ RoomFor(e.copy, Key(e.req))
  BY <1>1 DEF ExpansionSound
<1> DEFINE bound == found \cup anchor
           refused == \/ source # e.uses
                      \/ \E x, y \in bound : x[1] = y[1] /\ x # y
                      \/ \E x \in bound : x[1] \notin e.snap.files \/ pagedTree[x[1]] = 0
           n == [e EXCEPT !.at = "documents", !.found = bound]
<1>4. CASE refused
  <2>1. PageUnresolved(c, e.snap)  BY <1>4 DEF TakeAnswer
  <2> QED BY <1>2, <2>1, UnresolvedStep
<1>5. CASE ~refused
  <2>1. /\ expansion' = [expansion EXCEPT ![c].at = "documents", ![c].found = bound]
        /\ UNCHANGED <<pagedTree, pagedSnap, workingSet, sourceAsked, denied, overlapped>>
    BY <1>5 DEF TakeAnswer
  <2>2. \A x \in bound : x[1] \in SourceFiles  BY <1>2, <1>5 DEF SnapSound
  <2>3. IsFiniteSet(bound)
    <3>2. IsFiniteSet(anchor)
      <4>1. CASE anchor = {}  BY <4>1, FS_EmptySet
      <4>2. CASE anchor # {}
        <5>1. PICK a \in anchor : TRUE  BY <4>2
        <5>2. \A x \in anchor : x[1] = e.req.handle.of  OBVIOUS
        <5>3. \A x, y \in bound : x[1] = y[1] => x = y  BY <1>5
        <5>4. anchor \subseteq bound  OBVIOUS
        <5> HIDE DEF anchor, bound
        <5>5. \A x \in anchor : x = a  BY <5>1, <5>2, <5>3, <5>4
        <5>6. anchor = {a}  BY <5>1, <5>5
        <5>7. IsFiniteSet({a})  BY FS_Singleton
        <5> QED BY <5>6, <5>7
      <4> QED BY <4>1, <4>2
    <3> HIDE DEF anchor
    <3> QED BY <3>2, FS_Union
  <2> HIDE DEF bound
  <2>4. expansion' = [expansion EXCEPT ![c] = n]  BY <2>1
  <2>5. n = [at |-> "documents", req |-> e.req, copy |-> e.copy, snap |-> e.snap, uses |-> e.uses, found |-> bound]
    <3>1. n = [e EXCEPT !.at = "documents", !.found = bound]  OBVIOUS
    <3> HIDE DEF e, n
    <3>2. ExpansionForm(e)  BY <1>2
    <3> QED BY <3>1, <3>2 DEF ExpansionForm
  <2> HIDE DEF n
  <2>6. n.at = "documents" /\ n.req = e.req /\ n.copy = e.copy /\ n.snap = e.snap /\ n.found = bound /\ ExpansionForm(n)
    BY <2>5 DEF ExpansionForm
  <2>7. ExpansionSound(n)
    <3> HIDE DEF e
    <3> QED BY <1>2, <2>2, <2>3, <2>6 DEF ExpansionSound
  <2> QED BY <1>2, <2>1, <2>4, <2>6, <2>7, MoveStep
<1> QED BY <1>4, <1>5

LEMMA AnswerIndexStep ==
  ASSUME ContextInv, NEW c \in Callers, AnswerIndex(c) PROVE ContextInv'
<1>1. expansion[c].at = "answer"  BY DEF AnswerIndex
<1>2. \A found \in {{}} \cup {{x} : x \in SourceFiles \X {1, 2}} : IsFiniteSet(found)
  <2>1. IsFiniteSet({})  BY FS_EmptySet
  <2>2. \A x : IsFiniteSet({x})  BY FS_Singleton
  <2> DEFINE S == SourceFiles \X {1, 2}
  <2> HIDE DEF S
  <2>3. \A found \in {{}} \cup {{x} : x \in S} : IsFiniteSet(found)  BY <2>1, <2>2
  <2> QED BY <2>3 DEF S
<1>3. \E found, source : IsFiniteSet(found) /\ TakeAnswer(c, found, source)  BY <1>2 DEF AnswerIndex
<1> QED BY <1>1, <1>3, TakeAnswerStep

LEMMA CheckDocumentsStep ==
  ASSUME ContextInv, NEW c \in Callers, CheckDocuments(c) PROVE ContextInv'
<1> DEFINE e == expansion[c]
           s == IndexScope(e.snap, pagedTree, {x[1] : x \in e.found})
<1>1. ExpansionSound(e) /\ e.at = "documents"  BY DEF ContextInv, CheckDocuments
<1>2. e.at # "idle" /\ SnapSound(e.snap) /\ IsFiniteSet(e.found) /\ \A x \in e.found : x[1] \in SourceFiles
  BY <1>1 DEF ExpansionSound
<1>3. SnapSound(s)
  <2>1. {x[1] : x \in e.found} \subseteq SourceFiles  BY <1>2
  <2> HIDE DEF e
  <2> QED BY <1>2, <2>1, IndexScopeSound
<1>4. CASE \E x \in e.found : s.digest[x[1]] # x[2]
  <2>1. PageUnresolved(c, s)  BY <1>4 DEF CheckDocuments
  <2> HIDE DEF s
  <2> QED BY <1>2, <1>3, <2>1, UnresolvedStep
<1>5. CASE ~(\E x \in e.found : s.digest[x[1]] # x[2])
  <2> DEFINE related == SetToSeq({Handle("SYMBOL", x[1], {x[2]}) : x \in e.found})
             length == 1 + Cardinality(e.found)
  <2>1. ResolvedPage(c, s, length, related)  BY <1>5 DEF CheckDocuments
  <2>2. length \in Nat
    <3>1. Cardinality(e.found) \in Nat  BY <1>2, FS_CardinalityType
    <3> QED BY <3>1
  <2> HIDE DEF related, length, s
  <2> QED BY <1>2, <1>3, <2>1, <2>2, ResolvedStep
<1> QED BY <1>4, <1>5

LEMMA ResolveKnowledgeStep ==
  ASSUME ContextInv, NEW c \in Callers, ResolveKnowledge(c) PROVE ContextInv'
<1> DEFINE e == expansion[c]
<1>1. ExpansionSound(e) /\ e.at = "knowledge"  BY DEF ContextInv, ResolveKnowledge
<1>2. e.at # "idle" /\ SnapSound(e.snap)  BY <1>1 DEF ExpansionSound
<1>3. CASE PagedFact \in ResolveCurrent(stored, e.snap)
  <2>1. ResolvedPage(c, e.snap, 1, <<>>)  BY <1>3 DEF ResolveKnowledge
  <2> QED BY <1>2, <2>1, ResolvedStep
<1>4. CASE ~(PagedFact \in ResolveCurrent(stored, e.snap))
  <2>1. PageUnresolved(c, e.snap)  BY <1>4 DEF ResolveKnowledge
  <2> QED BY <1>2, <2>1, UnresolvedStep
<1> QED BY <1>3, <1>4

LEMMA RefusalsStep ==
  ASSUME ContextInv, NEW c \in Callers, NEW req, RefuseExpansion(c, req) \/ RefusePlace(c, req)
  PROVE  ContextInv'
<1> DEFINE v == Counted(workingSet)
<1>1. WorkingSound(workingSet)  BY DEF ContextInv
<1>2. /\ WorkingSound(v) /\ v.pages = workingSet.pages
      /\ v.requests = IF workingSet.requests >= MaxPageRequests THEN workingSet.requests ELSE workingSet.requests + 1
  BY <1>1, CountedSound
<1>3. v.requests >= workingSet.requests
  <2>1. workingSet.requests \in Nat  BY <1>1, ContextAssumption DEF WorkingSound
  <2> HIDE DEF v
  <2> QED BY <1>2, <2>1
<1> HIDE DEF v
<1>4. CASE RefuseExpansion(c, req)
  <2>1. /\ ~overlapped /\ overlapped' = (overlapped \/ Busy) /\ workingSet' = v
        /\ UNCHANGED <<pagedTree, pagedSnap, expansion, sourceAsked, denied>>
    BY <1>4 DEF RefuseExpansion, v
  <2> QED BY <1>2, <1>3, <2>1, RefusalStep
<1>5. CASE RefusePlace(c, req)
  <2> DEFINE u == [v EXCEPT !.exhaustion = "PAGE_COUNT_LIMIT"]
  <2>1. /\ ~overlapped /\ overlapped' = (overlapped \/ Busy) /\ workingSet' = u
        /\ UNCHANGED <<pagedTree, pagedSnap, expansion, sourceAsked, denied>>
    BY <1>5 DEF RefusePlace, v
  <2>2. WorkingSound(u) /\ u.pages = v.pages /\ u.requests = v.requests  BY <1>2, ExhaustedSound
  <2> HIDE DEF u
  <2>3. /\ WorkingSound(workingSet') /\ KeysOf(workingSet'.pages) \subseteq KeysOf(workingSet.pages)
        /\ workingSet'.requests >= workingSet.requests
    BY <1>2, <1>3, <2>1, <2>2
  <2> QED BY <2>1, <2>3, RefusalStep
<1> QED BY <1>4, <1>5

LEMMA RefreshStep ==
  ASSUME ContextInv, NEW base \in {SoloLength, GuidedLength}, NEW handles, RefreshContext(base, handles)
  PROVE  ContextInv'
<1> DEFINE next == InitialWorkingSet(handles, base)
           v == RebaseWorkingSet(workingSet, next)
<1>1. WorkingSound(workingSet) /\ base \in 0..MaxTextCharacters  BY ContextAssumption DEF ContextInv
<1>2. next.base = base  BY <1>1, InitialSound
<1> HIDE DEF next
<1>3. /\ WorkingSound(v) /\ v.requests = workingSet.requests /\ KeysOf(v.pages) \subseteq KeysOf(workingSet.pages)
  BY <1>1, <1>2, RebaseSound
<1>4. /\ ~overlapped /\ overlapped' = (overlapped \/ Busy) /\ workingSet' = v
      /\ UNCHANGED <<pagedTree, pagedSnap, expansion, sourceAsked, denied>>
  BY DEF RefreshContext, next
<1> HIDE DEF v
<1>5. workingSet'.requests >= workingSet.requests
  <2>1. workingSet.requests \in Nat  BY <1>1, ContextAssumption DEF WorkingSound
  <2> QED BY <1>3, <1>4, <2>1
<1> QED BY <1>3, <1>4, <1>5, RefusalStep

LEMMA TouchStep == ContextInv /\ Touch => ContextInv'
<1> SUFFICES ASSUME ContextInv, Touch PROVE ContextInv'  OBVIOUS
<1>1. UNCHANGED <<pagedSnap, workingSet, expansion, sourceAsked, denied, overlapped>>  BY DEF Touch
<1>2. pagedTree' \in [SourceFiles -> Nat]
  <2>1. pagedTree \in [SourceFiles -> Nat] /\ MaxVersion \in Nat  BY KnowAssumption DEF ContextInv
  <2>2. CASE \E f \in SourceFiles, v \in 0 .. MaxVersion : v # pagedTree[f] /\ pagedTree' = [pagedTree EXCEPT ![f] = v]
    BY <2>1, <2>2
  <2>3. CASE pagedTree' = pagedTree  BY <2>1, <2>3
  <2> QED BY <2>2, <2>3 DEF Touch
<1> QED BY <1>1, <1>2 DEF ContextInv, Undisturbed

LEMMA ContextStep == ContextInv /\ [ContextNext]_contextVars => ContextInv'
<1> SUFFICES ASSUME ContextInv, [ContextNext]_contextVars PROVE ContextInv'  OBVIOUS
<1>1. ASSUME NEW c \in Callers, NEW req \in Requests,
             RefuseExpansion(c, req) \/ RefusePlace(c, req) \/ AskSource(c, req)
      PROVE  ContextInv'
  BY <1>1, RefusalsStep, AskStep
<1>2. ASSUME NEW c \in Callers, SourceFails(c) PROVE ContextInv'
  <2>1. expansion[c].at # "idle" /\ PageUnresolved(c, expansion[c].snap)  BY <1>2 DEF SourceFails
  <2>2. SnapSound(expansion[c].snap)  BY <2>1 DEF ContextInv, ExpansionSound
  <2> QED BY <2>1, <2>2, UnresolvedStep
<1>3. ASSUME NEW c \in Callers, IndexSlice(c) PROVE ContextInv'  BY <1>3, IndexSliceStep
<1>4. ASSUME NEW c \in Callers, ReadSlice(c) PROVE ContextInv'  BY <1>4, ReadSliceStep
<1>5. ASSUME NEW c \in Callers, ResolveModule(c) PROVE ContextInv'  BY <1>5, ResolveModuleStep
<1>6. ASSUME NEW c \in Callers, QueryIndex(c) PROVE ContextInv'  BY <1>6, QueryIndexStep
<1>7. ASSUME NEW c \in Callers, AnswerIndex(c) PROVE ContextInv'  BY <1>7, AnswerIndexStep
<1>8. ASSUME NEW c \in Callers, CheckDocuments(c) PROVE ContextInv'  BY <1>8, CheckDocumentsStep
<1>9. ASSUME NEW c \in Callers, ResolveKnowledge(c) PROVE ContextInv'  BY <1>9, ResolveKnowledgeStep
<1>10. CASE RefreshContext(SoloLength, <<>>)  BY <1>10, RefreshStep
<1>11. CASE RefreshContext(GuidedLength, InitialHandles(pagedSnap, binding))  BY <1>11, RefreshStep
<1>12. CASE Touch  BY <1>12, TouchStep
<1>13. CASE UNCHANGED contextVars
  <2>1. UNCHANGED <<pagedTree, pagedSnap, workingSet, expansion, sourceAsked, denied, overlapped>>
    BY <1>13 DEF contextVars
  <2> QED BY <2>1 DEF ContextInv, Undisturbed
<1> QED BY <1>1, <1>2, <1>3, <1>4, <1>5, <1>6, <1>7, <1>8, <1>9, <1>10, <1>11, <1>12, <1>13 DEF ContextNext

LEMMA ContextInvSound == ContextInv => WorkingSetIsSound
<1> SUFFICES ASSUME ContextInv PROVE WorkingSetIsSound  OBVIOUS
<1>1. WorkingSound(workingSet)  BY DEF ContextInv
<1>2. PagesAccounted  BY <1>1 DEF WorkingSound, BooksOf, PagesAccounted
<1>3. DeniedIsNotResident
  <2> SUFFICES ASSUME ~overlapped, NEW i \in DOMAIN workingSet.pages PROVE workingSet.pages[i].key \notin denied
    BY DEF DeniedIsNotResident
  <2>1. KeysOf(workingSet.pages) \cap denied = {}  BY DEF ContextInv, Undisturbed
  <2>2. DOMAIN workingSet.pages = 1..Len(workingSet.pages)  BY <1>1, BooksFacts DEF WorkingSound
  <2> QED BY <2>1, <2>2 DEF KeysOf
<1>4. AskedWithinLimit
  <2> SUFFICES ASSUME ~overlapped PROVE sourceAsked <= MaxPageRequests  BY DEF AskedWithinLimit
  <2>1. Undisturbed /\ sourceAsked \in Nat /\ MaxPageRequests \in Nat  BY ContextAssumption DEF ContextInv
  <2>2. CASE \A c \in Callers : expansion[c].at = "idle"
    <3>1. sourceAsked <= workingSet.requests /\ workingSet.requests \in 0..MaxPageRequests
      BY <1>1, <2>1, <2>2 DEF Undisturbed, WorkingSound
    <3> QED BY <2>1, <3>1
  <2>3. CASE \E c \in Callers : expansion[c].at # "idle"
    <3>1. PICK c \in Callers : expansion[c].at # "idle"  BY <2>3
    <3>2. sourceAsked <= expansion[c].copy.requests /\ expansion[c].copy.requests \in 0..MaxPageRequests
      BY <2>1, <3>1 DEF Undisturbed, ContextInv, ExpansionSound, WorkingSound
    <3> QED BY <2>1, <3>2
  <2> QED BY <2>2, <2>3
<1> QED BY <1>2, <1>3, <1>4 DEF WorkingSetIsSound

\* However expansions, rebases, refusals and writers interleave: the books of the mission's working
\* set agree with its pages and keep its budget; and while no two operations on it overlapped, a page
\* its source refused to confirm is not resident, and the sources are asked no more often than the
\* mission's page-request limit allows.
THEOREM WorkingSetHolds == ContextSpec => []WorkingSetIsSound
<1>1. ContextInit => ContextInv  BY ContextStart
<1>2. ContextInv /\ [ContextNext]_contextVars => ContextInv'  BY ContextStep
<1>3. ContextInv => WorkingSetIsSound  BY ContextInvSound
<1> QED BY <1>1, <1>2, <1>3, PTL DEF ContextSpec

===============================================================================
