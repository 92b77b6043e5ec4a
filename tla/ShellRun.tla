------------------------------ MODULE ShellRun -------------------------------
(***************************************************************************)
(* tools/shell.py and sandbox/policy.py: one shell call of a turn, from         *)
(* the bot's row and the host's mode file to the process group it starts   *)
(* and stops.  The owner changes the row and the mode between any two      *)
(* steps.  Processes of the group fork, exit, ignore SIGTERM, keep the     *)
(* output pipes open and change their user (sudo, a setuid program) as     *)
(* they like; the turn may be cancelled at any time.                       *)
(***************************************************************************)
EXTENDS Naturals, FiniteSets

CONSTANTS
  Leader, Children,   \* processes of a command's group
  Risks,              \* what risk_of may answer
  MaxCalls, MaxRowEdits  \* bounds: shell shellCalls, edits by the owner

Group == {Leader} \cup Children

VARIABLES
  shellBot,    \* [access, policy] of the bot's row
  allowAll,    \* the host's mode file says allow_all
  shellCall,   \* the shell call: where it is, and what it loaded
  alive,       \* processes of its group that run
  stubborn,    \* processes that ignore SIGTERM
  piped,       \* processes that hold its output pipes open
  foreign,     \* processes of another user, which the host may not signal
  spared,      \* history: members beyond the last signal of a stop, and
               \* their descendants
  stopper,     \* the _stop under way: "none", "grace", "kill", "reap"
  asks,        \* approvals recorded by _ask
  shellCalls, edits

groupVars == <<alive, stubborn, piped, foreign, spared>>
shellVars == <<shellBot, allowAll, shellCall, groupVars, stopper, asks, shellCalls, edits>>

NoCall == [at |-> "idle"]

ShellTypeOK ==
  /\ shellBot \in [access : {"workspace", "full", "isolated"}, policy : {"ask", "auto", "allow_all"}]
  /\ allowAll \in BOOLEAN
  /\ alive \subseteq Group /\ stubborn \subseteq Group /\ piped \subseteq alive
  /\ foreign \subseteq alive /\ spared \subseteq alive
  /\ stopper \in {"none", "grace", "kill", "reap"}
  /\ shellCall.at \in {"idle", "load", "check", "spawn", "opening", "running", "timeout", "finished",
                       "timed_out", "asked", "cancelled", "cut"}

ShellInit ==
  /\ shellBot \in [access : {"workspace", "full", "isolated"}, policy : {"ask", "auto", "allow_all"}]
  /\ allowAll = FALSE
  /\ shellCall = NoCall
  /\ alive = {} /\ stubborn = {} /\ piped = {} /\ foreign = {} /\ spared = {}
  /\ stopper = "none"
  /\ asks = 0 /\ shellCalls = 0 /\ edits = 0

-----------------------------------------------------------------------------
(* The owner: bots.update and host.set_sandbox_mode.                         *)
EditRow(access, policy) ==
  /\ edits < MaxRowEdits
  /\ edits' = edits + 1
  /\ shellBot' = [access |-> access, policy |-> policy]
  /\ UNCHANGED <<allowAll, shellCall, groupVars, stopper, asks, shellCalls>>

SetSandboxMode(mode, confirmed) ==
  /\ edits < MaxRowEdits
  /\ confirmed
  /\ edits' = edits + 1
  /\ allowAll' = (mode = "allow_all")
  /\ UNCHANGED <<shellBot, shellCall, groupVars, stopper, asks, shellCalls>>

-----------------------------------------------------------------------------
(* execute.                                                                  *)
ApprovalRequired(access, policy, risk, hostAllowAll) ==
  /\ ~hostAllowAll /\ access = "full" /\ policy # "allow_all"
  /\ policy = "auto" => risk # "low"

\* A call starts only when nothing of the one before is left in the model.
StartCall(risk, approved) ==
  /\ shellCall.at \in {"idle", "finished", "timed_out", "asked", "cancelled", "cut"}
  /\ stopper = "none" /\ alive = {}
  /\ shellCalls < MaxCalls
  /\ shellCalls' = shellCalls + 1
  /\ shellCall' = [at |-> "load", risk |-> risk, approved |-> approved]
  /\ UNCHANGED <<shellBot, allowAll, groupVars, stopper, asks, edits>>

LoadTarget ==
  /\ shellCall.at = "load"
  /\ shellCall' = [at |-> "check", risk |-> shellCall.risk, approved |-> shellCall.approved,
                   access |-> shellBot.access, policy |-> shellBot.policy]
  /\ UNCHANGED <<shellBot, allowAll, groupVars, stopper, asks, shellCalls, edits>>

\* _argv: no confinement for full access and under allow_all.
Argv(access, hostAllowAll) ==
  IF hostAllowAll \/ access = "full" THEN "direct" ELSE access

\* The mode file is read; the call asks (a waiting turn and an approval in one
\* transaction) or goes on with the argument vector for what it read.
Check ==
  /\ shellCall.at = "check"
  /\ IF ~shellCall.approved /\ ApprovalRequired(shellCall.access, shellCall.policy, shellCall.risk, allowAll)
     THEN asks' = asks + 1 /\ shellCall' = [at |-> "asked"]
     ELSE shellCall' = [at |-> "spawn", argv |-> Argv(shellCall.access, allowAll)] /\ UNCHANGED asks
  /\ UNCHANGED <<shellBot, allowAll, groupVars, stopper, shellCalls, edits>>

\* create_subprocess_exec forks the leader, in a session of its own and so in
\* a group of its own, and then waits for its pipes to be connected.
SpawnGroup(ignores) ==
  /\ shellCall.at = "spawn"
  /\ shellCall' = [at |-> "opening", argv |-> shellCall.argv]
  /\ alive' = {Leader} /\ piped' = {Leader}
  /\ stubborn' = IF ignores THEN {Leader} ELSE {}
  /\ UNCHANGED <<shellBot, allowAll, foreign, spared, stopper, asks, shellCalls, edits>>

SpawnReturns ==
  /\ shellCall.at = "opening"
  /\ shellCall' = [shellCall EXCEPT !.at = "running"]
  /\ UNCHANGED <<shellBot, allowAll, groupVars, stopper, asks, shellCalls, edits>>

\* A cancel in that await: _run has not come to its try, so asyncio closes the
\* transport, which kills the leader alone, and no _stop runs.
CancelSpawn ==
  /\ shellCall.at = "opening"
  /\ shellCall' = [at |-> "cut"]
  /\ alive' = alive \ ({Leader} \ foreign)
  /\ piped' = piped \cap alive'
  /\ spared' = spared \cap alive'
  /\ UNCHANGED <<shellBot, allowAll, stubborn, foreign, stopper, asks, shellCalls, edits>>

-----------------------------------------------------------------------------
(* What the command's processes do.                                          *)

\* S with p in it just when it is like its parent q.
Inherits(S, q, p) == IF q \in S THEN S \cup {p} ELSE S

Fork(q, p, ignores, keepsPipe) ==
  /\ q \in alive /\ p \in Children \ alive
  /\ alive' = alive \cup {p}
  /\ stubborn' = IF ignores THEN stubborn \cup {p} ELSE stubborn \ {p}
  /\ piped' = IF keepsPipe THEN Inherits(piped, q, p) ELSE piped
  /\ foreign' = Inherits(foreign, q, p)
  /\ spared' = Inherits(spared, q, p)
  /\ UNCHANGED <<shellBot, allowAll, shellCall, stopper, asks, shellCalls, edits>>

\* A setuid program is executed, or gives its rights up.
ChangeUser(p) ==
  /\ p \in alive
  /\ foreign' = IF p \in foreign THEN foreign \ {p} ELSE foreign \cup {p}
  /\ UNCHANGED <<shellBot, allowAll, shellCall, alive, stubborn, piped, spared, stopper, asks,
                 shellCalls, edits>>

Exit(p) ==
  /\ p \in alive
  /\ alive' = alive \ {p}
  /\ piped' = piped \ {p}
  /\ foreign' = foreign \ {p}
  /\ spared' = spared \ {p}
  /\ UNCHANGED <<shellBot, allowAll, shellCall, stubborn, stopper, asks, shellCalls, edits>>

-----------------------------------------------------------------------------
(* _run and _stop.                                                           *)

\* Both pipes closed and the leader gone: a child may live on.
Finish ==
  /\ shellCall.at = "running"
  /\ piped = {} /\ Leader \notin alive
  /\ shellCall' = [at |-> "finished"]
  /\ UNCHANGED <<shellBot, allowAll, groupVars, stopper, asks, shellCalls, edits>>

\* killpg reaches the members the host may signal. What is left lives on.
Signal(survivors) ==
  /\ alive' = alive \cap survivors
  /\ piped' = piped \cap survivors
  /\ foreign' = foreign \cap survivors

\* SIGTERM to the group, by the timeout or for a cancelled turn (shielded).
Terminate(at) ==
  /\ Signal(stubborn \cup foreign)
  /\ spared' = {}
  /\ stopper' = "grace"
  /\ shellCall' = [at |-> at]
  /\ UNCHANGED <<shellBot, allowAll, stubborn, asks, shellCalls, edits>>

Timeout == shellCall.at = "running" /\ Terminate("timeout")
Cancel  == shellCall.at = "running" /\ Terminate("cancelled")

\* A turn cancelled before its command runs.
CancelEarly ==
  /\ shellCall.at \in {"load", "check", "spawn"}
  /\ shellCall' = [at |-> "cancelled"]
  /\ UNCHANGED <<shellBot, allowAll, groupVars, stopper, asks, shellCalls, edits>>

\* The faulty grace that watches the leader instead of the group.
GraceOverLeader ==
  /\ stopper = "grace"
  /\ stopper' = IF Leader \in alive THEN "kill" ELSE "reap"
  /\ spared' = alive \cap foreign
  /\ UNCHANGED <<shellBot, allowAll, shellCall, alive, stubborn, piped, foreign, asks,
                 shellCalls, edits>>

\* The grace ends. SIGKILL follows when a member is left that the host may
\* signal: _group_alive takes a group of foreign members for gone.
GraceOver ==
  /\ stopper = "grace"
  /\ stopper' = IF alive \ foreign # {} THEN "kill" ELSE "reap"
  /\ spared' = alive \cap foreign
  /\ UNCHANGED <<shellBot, allowAll, shellCall, alive, stubborn, piped, foreign, asks,
                 shellCalls, edits>>

Kill ==
  /\ stopper = "kill"
  /\ Signal(foreign)
  /\ spared' = alive \cap foreign
  /\ stopper' = "reap"
  /\ UNCHANGED <<shellBot, allowAll, shellCall, stubborn, asks, shellCalls, edits>>

\* process.wait, then the call that timed out returns its result.
Reap ==
  /\ stopper = "reap"
  /\ Leader \notin alive
  /\ stopper' = "none"
  /\ shellCall' = IF shellCall.at = "timeout" THEN [at |-> "timed_out"] ELSE shellCall
  /\ UNCHANGED <<shellBot, allowAll, groupVars, asks, shellCalls, edits>>

\* A cancel while the timeout's own stop waits: that stop is not shielded, so
\* it ends where it is and what is left of the group is not killed.
CutStop ==
  /\ shellCall.at = "timeout"
  /\ stopper \in {"grace", "reap"}
  /\ stopper' = "none"
  /\ shellCall' = [at |-> "cut"]
  /\ UNCHANGED <<shellBot, allowAll, groupVars, asks, shellCalls, edits>>

ShellNext ==
  \/ \E access \in {"workspace", "full"}, policy \in {"ask", "auto"} : EditRow(access, policy)
  \/ \E mode \in {"enforced", "allow_all"}, confirmed \in BOOLEAN : SetSandboxMode(mode, confirmed)
  \/ \E risk \in Risks, approved \in BOOLEAN : StartCall(risk, approved)
  \/ LoadTarget \/ Check
  \/ \E ignores \in BOOLEAN : SpawnGroup(ignores)
  \/ SpawnReturns \/ CancelSpawn
  \/ \E q \in Group, p \in Children, ignores, keepsPipe \in BOOLEAN :
       Fork(q, p, ignores, keepsPipe)
  \/ \E p \in Group : ChangeUser(p) \/ Exit(p)
  \/ Finish \/ Timeout \/ Cancel \/ CancelEarly
  \/ GraceOver \/ Kill \/ Reap \/ CutStop

ShellSpec == ShellInit /\ [][ShellNext]_shellVars

-----------------------------------------------------------------------------
(* A call that timed out, and one cancelled while its command ran, leaves    *)
(* nothing of the group behind that it could have stopped: what lives on     *)
(* after its stop was another user's at the last signal, or descends from    *)
(* such a process. Children that outlive the shell, ignore SIGTERM or fork   *)
(* during the grace are gone (shell._stop, _group_alive).                    *)
StoppedIsDead ==
  shellCall.at \in {"timed_out", "cancelled"} /\ stopper = "none" => alive \subseteq spared

=============================================================================
