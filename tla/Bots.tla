-------------------------------- MODULE Bots ---------------------------------
(***************************************************************************)
(* domain/bots.py and the bots.* methods: the row of one bot and the files *)
(* that belong to it, its workspace, its repository metadata and the       *)
(* worktrees of its lanes.  A call is a few steps, a SELECT, a commit, a   *)
(* directory made or removed; other clients' calls and the bot's own lanes *)
(* go between them, and the host may die anywhere.  Bot ids are never used *)
(* again, so that the model follows one id.  The events the calls emit are *)
(* EventStream's.                                                          *)
(***************************************************************************)
EXTENDS Naturals, Sequences, FiniteSets

CONSTANTS
  Editors,         \* clients
  Fields, Settings, \* columns of the row; values they may be given
  BotLanes,        \* lanes the bot may have
  KeyedProviders,  \* _PROVIDERS in their order
  MaxBotCalls,     \* bound: calls of the clients
  MaxHostDeaths,   \* bound: deaths of the host
  MaxDiskFaults    \* bound: commits that fail

Unset == 0          \* the value of a column nobody gave

VARIABLES
  botRow,     \* [there, cols, model]
  dirs,       \* files that stand: workspace, metadata, and a lane for its worktree
  laneRows,   \* lanes with an agent row
  opening,    \* lanes in `ensure`: they have read their rows
  providerKeys, \* providers with a key in the secret store
  bcall,      \* client -> the call it makes, or the idle one
  bcalls, botDeaths, diskFaults

botVars == <<botRow, dirs, laneRows, opening, providerKeys, bcall, bcalls, botDeaths, diskFaults>>

NoBot     == [there |-> FALSE, cols |-> [f \in Fields |-> Unset], model |-> ""]
NoBotCall == [at |-> "idle"]

Files     == {"workspace", "metadata"} \cup BotLanes

BotsTypeOK ==
  /\ botRow.cols \in [Fields -> Settings \cup {Unset}]
  /\ dirs \subseteq Files
  /\ laneRows \subseteq BotLanes /\ opening \subseteq BotLanes
  /\ providerKeys \subseteq {KeyedProviders[i] : i \in DOMAIN KeyedProviders}
  /\ \A c \in Editors : bcall[c].at \in {"idle", "made", "undo", "loaded", "found", "purge", "remove"}

BotsInit ==
  /\ botRow = NoBot
  /\ dirs = {} /\ laneRows = {} /\ opening = {}
  /\ providerKeys \in SUBSET {KeyedProviders[i] : i \in DOMAIN KeyedProviders}
  /\ bcall = [c \in Editors |-> NoBotCall]
  /\ bcalls = 0 /\ botDeaths = 0 /\ diskFaults = 0

StartsCall(c) ==
  /\ bcall[c].at = "idle"
  /\ bcalls < MaxBotCalls
  /\ bcalls' = bcalls + 1

-----------------------------------------------------------------------------
(* bots.create.                                                              *)

\* _default_model: the first provider that has a key, else none.
DefaultModel ==
  LET keyed == {i \in DOMAIN KeyedProviders : KeyedProviders[i] \in providerKeys}
  IN  IF keyed = {} THEN "" ELSE KeyedProviders[CHOOSE i \in keyed : \A j \in keyed : i <= j]

\* _reject_unknown_model: no model at all, or one that model_allowed knows.
RejectUnknownModel(model) == model \notin {KeyedProviders[i] : i \in DOMAIN KeyedProviders} \cup {"default"}

\* The faulty create that stores the row before it makes the workspace.
CreateRowFirst(c, model) ==
  /\ StartsCall(c) /\ bcalls = 0
  /\ ~RejectUnknownModel(model)
  /\ botRow' = [NoBot EXCEPT !.there = TRUE, !.model = IF model = "default" THEN DefaultModel ELSE model]
  /\ bcall' = [bcall EXCEPT ![c] = [at |-> "made", model |-> model]]
  /\ UNCHANGED <<dirs, laneRows, opening, providerKeys, botDeaths, diskFaults>>

\* The workspace is made before the row is stored.
Create(c, model) ==
  /\ StartsCall(c) /\ bcalls = 0
  /\ ~RejectUnknownModel(model)
  /\ dirs' = dirs \cup {"workspace"}
  /\ bcall' = [bcall EXCEPT ![c] =
       [at |-> "made", model |-> IF model = "default" THEN DefaultModel ELSE model]]
  /\ UNCHANGED <<botRow, laneRows, opening, providerKeys, botDeaths, diskFaults>>

CreateCommits(c) ==
  /\ bcall[c].at = "made"
  /\ botRow' = [NoBot EXCEPT !.there = TRUE, !.model = bcall[c].model]
  /\ bcall' = [bcall EXCEPT ![c] = NoBotCall]
  /\ UNCHANGED <<dirs, laneRows, opening, providerKeys, bcalls, botDeaths, diskFaults>>

\* A commit that fails takes the workspace back.
CreateFails(c) ==
  /\ bcall[c].at = "made"
  /\ diskFaults < MaxDiskFaults
  /\ diskFaults' = diskFaults + 1
  /\ bcall' = [bcall EXCEPT ![c] = [at |-> "undo"]]
  /\ UNCHANGED <<botRow, dirs, laneRows, opening, providerKeys, bcalls, botDeaths>>

\* _remove_workspace
RemoveWorkspace(c) ==
  /\ bcall[c].at \in {"undo", "remove"}
  /\ dirs' = dirs \ {"workspace"}
  /\ bcall' = [bcall EXCEPT ![c] = NoBotCall]
  /\ UNCHANGED <<botRow, laneRows, opening, providerKeys, bcalls, botDeaths, diskFaults>>

-----------------------------------------------------------------------------
(* bots.update: the row is read, the given fields are set on it, and the     *)
(* commit writes the columns that differ from what was read.                 *)
UpdateReads(c, given) ==
  /\ StartsCall(c)
  /\ botRow.there
  /\ bcall' = [bcall EXCEPT ![c] = [at |-> "loaded", read |-> botRow.cols, given |-> given]]
  /\ UNCHANGED <<botRow, dirs, laneRows, opening, providerKeys, botDeaths, diskFaults>>

\* _apply, and the UPDATE SQLAlchemy makes of it.
Apply(update, cols) ==
  [f \in Fields |-> IF f \in DOMAIN update.given /\ update.given[f] # update.read[f]
                    THEN update.given[f] ELSE cols[f]]

\* An UPDATE of a row that was deleted meanwhile is an error.
UpdateCommits(c) ==
  /\ bcall[c].at = "loaded"
  /\ botRow' = IF botRow.there THEN [botRow EXCEPT !.cols = Apply(bcall[c], botRow.cols)] ELSE botRow
  /\ bcall' = [bcall EXCEPT ![c] = NoBotCall]
  /\ UNCHANGED <<dirs, laneRows, opening, providerKeys, bcalls, botDeaths, diskFaults>>

-----------------------------------------------------------------------------
(* bots.delete: the row and, for a purge, the lanes are read; the DELETE     *)
(* takes the rows of the lanes along; then the files go.                     *)
DeleteReads(c, purge) ==
  /\ StartsCall(c)
  /\ botRow.there
  /\ bcall' = [bcall EXCEPT ![c] = [at |-> "found", purge |-> purge,
                                    lanes |-> IF purge THEN laneRows ELSE {}]]
  /\ UNCHANGED <<botRow, dirs, laneRows, opening, providerKeys, botDeaths, diskFaults>>

DeleteCommits(c) ==
  /\ bcall[c].at = "found"
  /\ botRow' = [botRow EXCEPT !.there = FALSE]
  /\ laneRows' = {}
  /\ bcall' = [bcall EXCEPT ![c] =
       IF bcall[c].purge THEN [at |-> "purge", lanes |-> bcall[c].lanes] ELSE NoBotCall]
  /\ UNCHANGED <<dirs, opening, providerKeys, bcalls, botDeaths, diskFaults>>

\* purge_worktrees: the worktrees of the lanes that were read, one by one, and
\* the metadata last.
PurgeWorktrees(c) ==
  /\ bcall[c].at = "purge"
  /\ LET lanes == bcall[c].lanes
     IN  IF lanes # {}
         THEN \E l \in lanes : /\ dirs' = dirs \ {l}
                               /\ bcall' = [bcall EXCEPT ![c].lanes = @ \ {l}]
         ELSE dirs' = dirs \ {"metadata"} /\ bcall' = [bcall EXCEPT ![c] = [at |-> "remove"]]
  /\ UNCHANGED <<botRow, laneRows, opening, providerKeys, bcalls, botDeaths, diskFaults>>

-----------------------------------------------------------------------------
(* Lanes of the bot, and the host.                                           *)
Spawn(l) ==
  /\ botRow.there /\ l \notin laneRows
  /\ laneRows' = laneRows \cup {l}
  /\ UNCHANGED <<botRow, dirs, opening, providerKeys, bcall, bcalls, botDeaths, diskFaults>>

\* workspace.ensure: the rows are read ...
EnsureReads(l) ==
  /\ l \in laneRows \ opening
  /\ opening' = opening \cup {l}
  /\ UNCHANGED <<botRow, dirs, laneRows, providerKeys, bcall, bcalls, botDeaths, diskFaults>>

\* ... and scratch space, metadata and the worktree made, also when the rows
\* are gone by now.
EnsureMakes(l) ==
  /\ l \in opening
  /\ opening' = opening \ {l}
  /\ dirs' = dirs \cup {"workspace", "metadata", l}
  /\ UNCHANGED <<botRow, laneRows, providerKeys, bcall, bcalls, botDeaths, diskFaults>>

KeyChanges(p) ==
  /\ bcalls = 0
  /\ providerKeys' = IF p \in providerKeys THEN providerKeys \ {p} ELSE providerKeys \cup {p}
  /\ UNCHANGED <<botRow, dirs, laneRows, opening, bcall, bcalls, botDeaths, diskFaults>>

HostDies ==
  /\ botDeaths < MaxHostDeaths
  /\ botDeaths' = botDeaths + 1
  /\ bcall' = [c \in Editors |-> NoBotCall]
  /\ opening' = {}
  /\ UNCHANGED <<botRow, dirs, laneRows, providerKeys, bcalls, diskFaults>>

Givens == UNION {[s -> Settings] : s \in (SUBSET Fields) \ {{}}}

BotsNext ==
  \/ \E c \in Editors :
       \/ \E m \in {KeyedProviders[i] : i \in DOMAIN KeyedProviders} \cup {"default", "other"} : Create(c, m)
       \/ CreateCommits(c) \/ CreateFails(c) \/ RemoveWorkspace(c)
       \/ \E g \in Givens : UpdateReads(c, g)
       \/ UpdateCommits(c)
       \/ \E purge \in BOOLEAN : DeleteReads(c, purge)
       \/ DeleteCommits(c) \/ PurgeWorktrees(c)
  \/ \E l \in BotLanes : Spawn(l) \/ EnsureReads(l) \/ EnsureMakes(l)
  \/ \E i \in DOMAIN KeyedProviders : KeyChanges(KeyedProviders[i])
  \/ HostDies

BotsSpec == BotsInit /\ [][BotsNext]_botVars

-----------------------------------------------------------------------------
(* A bot that is in the list has its workspace, wherever a create or a purge *)
(* stopped and whatever failed: the directory is made before the row and     *)
(* removed after it (BotService.create, delete).                             *)
BotHasWorkspace == botRow.there => "workspace" \in dirs

=============================================================================
