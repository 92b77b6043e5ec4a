------------------------------- MODULE MCHost -------------------------------
(***************************************************************************)
(* What runs beside and below a turn, for TLC: the moves of a job, Claude's *)
(* permissions, the conversation sent to a model, memories, the workspace's *)
(* files, git metadata and locks, secrets, runtime copies, shell commands   *)
(* and their risk, a bot's files, and the host's service. The parts share   *)
(* no state, so one run takes them one after the other: `part` is chosen at *)
(* the start and the variables of the other parts keep their first values.  *)
(* Every module is extended, so that its theorems speak of this run.         *)
(***************************************************************************)
EXTENDS TLC,
    TurnLife, ClaudeTurn, Conversation, MemoryStore, GitMetadata, PathLocks, Secrets,
    Installs, ShellRun, Risk, Bots, HostService

CONSTANTS
    x1, x2,   \* interchangeable: two lanes, or two turns
    y1, y2    \* interchangeable: two clients, or two processes

VARIABLE part

riskVars == <<line>>

-----------------------------------------------------------------------------
(* The values of constants that a configuration file cannot write.           *)
CallerOf == [e1 |-> "a1", e2 |-> "a2", w1 |-> "a1"]
Providers == <<"anthropic", "openai">>
Words ==
    {"ls", "find", "sort", "uniq", "curl", "sh", "sudo", "rm", "make", "git", "x", "-exec",
     "-o", "-r", "/", ".rc", "A=1", ";", "|", ">", ";>", ">&", "<", "1", "/dev/null", "$v", "$("}

HostInit ==
    /\ part \in {"moves", "claude", "talk", "memory", "git", "paths", "secrets", "installs",
               "shell", "risk", "bots", "service"}
    /\ Init /\ ClaudeInit /\ ConvInit /\ MemInit
    /\ GitInit /\ PathInit /\ SecretsInit /\ InstInit
    /\ ShellInit /\ RiskInit /\ BotsInit /\ ServiceInit
    /\ part # "talk" => fact["f1"] = 0 /\ hist = <<>>
    /\ part # "git" => ~otherVolume
    /\ part # "secrets" => ringState = "unlocked"
    /\ part # "shell" => shellBot.access = "full" /\ shellBot.policy = "ask"
    /\ part # "bots" => providerKeys = {}
    /\ part # "service" => platform = "systemd"

MovesPart ==
    /\ part = "moves" /\ Next
    /\ UNCHANGED <<part, clVars, cVars, memVars, gitVars, pathVars, secretVars,
                    instVars, shellVars, riskVars, botVars, svcVars>>
ClaudePart ==
    /\ part = "claude" /\ ClaudeNext
    /\ UNCHANGED <<part, vars, cVars, memVars, gitVars, pathVars, secretVars,
                    instVars, shellVars, riskVars, botVars, svcVars>>
TalkPart ==
    /\ part = "talk" /\ ConvNext
    /\ UNCHANGED <<part, vars, clVars, memVars, gitVars, pathVars, secretVars,
                    instVars, shellVars, riskVars, botVars, svcVars>>
MemoryPart ==
    /\ part = "memory" /\ MemNext
    /\ UNCHANGED <<part, vars, clVars, cVars, gitVars, pathVars, secretVars,
                    instVars, shellVars, riskVars, botVars, svcVars>>
GitPart ==
    /\ part = "git" /\ GitNext
    /\ UNCHANGED <<part, vars, clVars, cVars, memVars, pathVars, secretVars,
                    instVars, shellVars, riskVars, botVars, svcVars>>
PathsPart ==
    /\ part = "paths" /\ PathNext
    /\ UNCHANGED <<part, vars, clVars, cVars, memVars, gitVars, secretVars,
                    instVars, shellVars, riskVars, botVars, svcVars>>
KeysPart ==
    /\ part = "secrets" /\ SecretsNext
    /\ UNCHANGED <<part, vars, clVars, cVars, memVars, gitVars, pathVars,
                    instVars, shellVars, riskVars, botVars, svcVars>>
CopiesPart ==
    /\ part = "installs" /\ InstNext
    /\ UNCHANGED <<part, vars, clVars, cVars, memVars, gitVars, pathVars,
                    secretVars, shellVars, riskVars, botVars, svcVars>>
ShellPart ==
    /\ part = "shell" /\ ShellNext
    /\ UNCHANGED <<part, vars, clVars, cVars, memVars, gitVars, pathVars,
                    secretVars, instVars, riskVars, botVars, svcVars>>
ScorerPart ==
    /\ part = "risk" /\ RiskNext
    /\ UNCHANGED <<part, vars, clVars, cVars, memVars, gitVars, pathVars,
                    secretVars, instVars, shellVars, botVars, svcVars>>
OwnersPart ==
    /\ part = "bots" /\ BotsNext
    /\ UNCHANGED <<part, vars, clVars, cVars, memVars, gitVars, pathVars,
                    secretVars, instVars, shellVars, riskVars, svcVars>>
ServicePart ==
    /\ part = "service" /\ ServiceNext
    /\ UNCHANGED <<part, vars, clVars, cVars, memVars, gitVars, pathVars,
                    secretVars, instVars, shellVars, riskVars, botVars>>

HostNext ==
    \/ MovesPart \/ ClaudePart \/ TalkPart \/ MemoryPart
    \/ GitPart \/ PathsPart \/ KeysPart \/ CopiesPart
    \/ ShellPart \/ ScorerPart \/ OwnersPart \/ ServicePart

HostSpec == HostInit /\ [][HostNext]_<<part, vars, clVars, cVars, memVars,
            gitVars, pathVars, secretVars, instVars,
            shellVars, riskVars, botVars, svcVars>>

Symmetry == Permutations({x1, x2}) \cup Permutations({y1, y2})

=============================================================================
