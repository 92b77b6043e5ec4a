------------------------------- MODULE Installs -------------------------------
(***************************************************************************)
(* runtime/installs.py for one CLI runtime: `sevn runtimes install` and    *)
(* `remove` processes running beside each other and beside the host, which *)
(* resolves a copy at the start of a turn.  A process may be killed after  *)
(* any of its file operations.                                             *)
(***************************************************************************)
EXTENDS Naturals, FiniteSets

CONSTANTS
  Versions,     \* versions users ask for; each has one true download
  Commands,     \* CLI processes
  MaxCommands,  \* bound: commands started
  NoVersion     \* model value: no version

VARIABLES
  tree,         \* <root>/<name>/<version>: what the directory holds
  current,      \* the target of the symlink `current`, or NoVersion
  proc,         \* per process: its step and what it has read
  turns,        \* copies that running turns of this runtime were started with
  commands

instVars == <<tree, current, proc, turns, commands>>

\* A version directory is absent or holds a tree: whole or cut short, made
\* from bytes that matched the requested hash or not.
Absent == [there |-> FALSE, whole |-> FALSE, verified |-> FALSE]
Trees  == [there : BOOLEAN, whole : BOOLEAN, verified : BOOLEAN]
NoProc == [at |-> "none", version |-> NoVersion, staged |-> Absent,
           doomed |-> {}, drops |-> FALSE]

InstTypeOK ==
  /\ tree \in [Versions -> Trees]
  /\ current \in Versions \cup {NoVersion}
  /\ \A p \in Commands : proc[p].at \in {"none", "look", "download", "extract", "rename", "switch",
                                         "check", "unlink", "trash"}
  /\ turns \subseteq Versions
  /\ commands \in 0..MaxCommands

InstInit ==
  /\ tree = [v \in Versions |-> Absent]
  /\ current = NoVersion
  /\ proc = [p \in Commands |-> NoProc]
  /\ turns = {}
  /\ commands = 0

At(p, at) == proc[p].at = at
Set(p, rec) == proc' = [proc EXCEPT ![p] = rec]
Step(p, to) == Set(p, [proc[p] EXCEPT !.at = to])

\* _versions and _current_version: directories, and a link that is not dangling.
InstalledVersions == {v \in Versions : tree[v].there}
CurrentVersion == IF current \in InstalledVersions THEN current ELSE NoVersion

\* _install after _target and _require_writable: the version is known.
InstallBegin(p, v) ==
  /\ At(p, "none") /\ commands < MaxCommands
  /\ commands' = commands + 1
  /\ Set(p, [NoProc EXCEPT !.at = "look", !.version = v])
  /\ UNCHANGED <<tree, current, turns>>

\* A version whose entrypoint is there is not downloaded again.
InstallLook(p) ==
  /\ At(p, "look")
  /\ Step(p, IF tree[proc[p].version].there THEN "switch" ELSE "download")
  /\ UNCHANGED <<tree, current, turns, commands>>

\* _download: into a private file; a short body or other bytes fail the hash
\* and the file is removed before anything is extracted.
Download(p) ==
  /\ At(p, "download")
  /\ \/ Step(p, "extract")
     \/ Set(p, NoProc)
  /\ UNCHANGED <<tree, current, turns, commands>>

\* Faulty variant: the archive is extracted into the version directory.
ExtractInPlace(p) ==
  /\ At(p, "extract")
  /\ \E whole \in BOOLEAN :
       /\ tree' = [tree EXCEPT ![proc[p].version] =
                     [there |-> TRUE, whole |-> whole, verified |-> TRUE]]
       /\ IF whole THEN Set(p, [proc[p] EXCEPT !.at = "switch"]) ELSE UNCHANGED proc
  /\ UNCHANGED <<current, turns, commands>>

\* _unpack and _finish_tree in a private staging directory.  A failure or a
\* refused member removes the staging directory.
Extract(p) ==
  /\ At(p, "extract")
  /\ \/ Set(p, [proc[p] EXCEPT !.staged = [there |-> TRUE, whole |-> FALSE, verified |-> TRUE]])
     \/ Set(p, [proc[p] EXCEPT !.staged = [there |-> TRUE, whole |-> TRUE, verified |-> TRUE],
                               !.at = "rename"])
     \/ Set(p, NoProc)
  /\ UNCHANGED <<tree, current, turns, commands>>

\* staging.rename(version_dir) fails on a directory that is already there:
\* another install won, and its copy is kept.
PlaceTree(p) ==
  /\ At(p, "rename")
  /\ LET v == proc[p].version
     IN  tree' = IF tree[v].there THEN tree ELSE [tree EXCEPT ![v] = proc[p].staged]
  /\ Set(p, [proc[p] EXCEPT !.staged = Absent, !.at = "switch"])
  /\ UNCHANGED <<current, turns, commands>>

\* _switch_current: one rename of a fresh symlink over the old one.
SwitchCurrent(p) ==
  /\ At(p, "switch")
  /\ current' = proc[p].version
  /\ Set(p, NoProc)
  /\ UNCHANGED <<tree, turns, commands>>

\* _remove: the versions and `current` are read, then the turns are looked at.
RemoveBegin(p, vs) ==
  /\ At(p, "none") /\ commands < MaxCommands
  /\ vs \subseteq InstalledVersions
  /\ commands' = commands + 1
  /\ \E all \in BOOLEAN :
       /\ IF all THEN vs = InstalledVersions /\ (vs # {} \/ current # NoVersion)
                 ELSE Cardinality(vs) = 1
       /\ Set(p, [NoProc EXCEPT !.at = "check", !.doomed = vs,
                                !.drops = IF all THEN current # NoVersion ELSE CurrentVersion \in vs])
  /\ UNCHANGED <<tree, current, turns>>

\* _busy: any running or waiting turn of this runtime refuses the removal.
RemoveCheck(p) ==
  /\ At(p, "check")
  /\ IF turns # {} THEN Set(p, NoProc) ELSE Step(p, IF proc[p].drops THEN "unlink" ELSE "trash")
  /\ UNCHANGED <<tree, current, turns, commands>>

UnlinkCurrent(p) ==
  /\ At(p, "unlink")
  /\ current' = NoVersion
  /\ IF proc[p].doomed = {} THEN Set(p, NoProc) ELSE Step(p, "trash")
  /\ UNCHANGED <<tree, turns, commands>>

\* Each version is renamed away in one step, then deleted; a version that
\* another removal took first raises.
TrashVersion(p) ==
  /\ At(p, "trash")
  /\ \E v \in proc[p].doomed :
       /\ tree' = [tree EXCEPT ![v] = Absent]
       /\ Set(p, IF tree[v].there /\ proc[p].doomed # {v}
                 THEN [proc[p] EXCEPT !.doomed = @ \ {v}] ELSE NoProc)
  /\ UNCHANGED <<current, turns, commands>>

KillProc(p) ==
  /\ ~At(p, "none")
  /\ Set(p, NoProc)
  /\ UNCHANGED <<tree, current, turns, commands>>

\* resolve: the managed copy `current` names, when its entrypoint is there.
Resolved == IF CurrentVersion = NoVersion THEN {} ELSE {CurrentVersion}

TurnResolves ==
  /\ Resolved # {}
  /\ turns' = turns \cup Resolved
  /\ UNCHANGED <<tree, current, proc, commands>>

TurnLeaves(v) ==
  /\ v \in turns
  /\ turns' = turns \ {v}
  /\ UNCHANGED <<tree, current, proc, commands>>

InstNext ==
  \/ \E p \in Commands :
       \/ \E v \in Versions : InstallBegin(p, v)
       \/ \E vs \in SUBSET Versions : RemoveBegin(p, vs)
       \/ InstallLook(p) \/ Download(p) \/ Extract(p) \/ PlaceTree(p) \/ SwitchCurrent(p)
       \/ RemoveCheck(p) \/ UnlinkCurrent(p) \/ TrashVersion(p) \/ KillProc(p)
  \/ TurnResolves
  \/ \E v \in Versions : TurnLeaves(v)

InstSpec == InstInit /\ [][InstNext]_instVars

-----------------------------------------------------------------------------
\* Whatever installs and removals run at once, fail or are killed, a managed
\* copy the host resolves is a whole tree made from a download whose hash
\* matched: half an archive or half a removal is never what a turn runs.
ResolvedIsWhole == \A v \in Resolved : tree[v].whole /\ tree[v].verified
=============================================================================
