------------------------------ MODULE GitMetadata ------------------------------
(***************************************************************************)
(* domain/workspace.py: the first agent with worktree isolation moves the  *)
(* bot's `.git` out of the workspace into <home>/git/<bot>/repo, leaves a  *)
(* pointer file behind, and checks a worktree out.  Every file operation   *)
(* is its own step, because shells of other agents commit meanwhile and    *)
(* the host may be killed between any two of them.                         *)
(***************************************************************************)
EXTENDS Naturals, FiniteSets

CONSTANTS
  Lanes,        \* agents of one bot that ask for worktree isolation
  Work,         \* commits the shells of the bot's agents may make
  MaxDeaths     \* bound: how often the host is killed

VARIABLES
  otherVolume,  \* the workspace is on another volume (rename gives EXDEV)
  dotGit,       \* workspace/.git: absent, a directory, or a pointer file
  backup,       \* workspace/.sevn-git-backup
  copying,      \* <home>/git/<bot>/copying
  repo,         \* <home>/git/<bot>/repo
  metaDir,      \* <home>/git/<bot> exists
  step,         \* where each lane's ensure() is
  trees,        \* lanes with a checked-out worktree
  made,         \* commits git reported as made in the bot's own repository
  deaths

gitVars == <<otherVolume, dotGit, backup, copying, repo, metaDir, step, trees, made, deaths>>

\* One directory entry.  A git directory has the commits in it and whether it
\* is the bot's own repository (not one started after `.git` went away); a
\* "torn" entry is a pointer file whose writing was cut short.
Entry == [kind : {"none", "dir", "pointer", "torn"}, log : SUBSET Work, own : BOOLEAN]
Bare(kind) == [kind |-> kind, log |-> {}, own |-> FALSE]
Nothing == Bare("none")
NewRepo(own) == [kind |-> "dir", log |-> {}, own |-> own]

GitTypeOK ==
  /\ otherVolume \in BOOLEAN
  /\ {dotGit, backup, copying, repo} \subseteq Entry
  /\ metaDir \in BOOLEAN
  /\ step \in [Lanes -> {"idle", "restore", "inspect", "config", "move", "copy",
                         "publish", "undo", "pointer", "tree"}]
  /\ trees \subseteq Lanes
  /\ made \subseteq Work
  /\ deaths \in 0..MaxDeaths

GitInit ==
  /\ otherVolume \in BOOLEAN
  /\ dotGit = NewRepo(TRUE)
  /\ backup = Nothing /\ copying = Nothing /\ repo = Nothing
  /\ metaDir = FALSE
  /\ step = [l \in Lanes |-> "idle"]
  /\ trees = {} /\ made = {} /\ deaths = 0

IsDir(entry) == entry.kind = "dir"

Goto(l, s) == step' = [step EXCEPT ![l] = s]

\* ensure: one lane of the bot at a time, under _GIT_LOCKS[bot_id].  A
\* workspace that is no repository and never was one is left alone.
Ensure(l) ==
  /\ \A k \in Lanes : step[k] = "idle"
  /\ dotGit # Nothing \/ metaDir
  /\ Goto(l, "restore")
  /\ metaDir' = TRUE
  /\ UNCHANGED <<otherVolume, dotGit, backup, copying, repo, trees, made, deaths>>

\* _restore_metadata: an interrupted copy starts over from the intact source.
Restored == repo = Nothing /\ dotGit = Nothing /\ backup # Nothing

RestoreMetadata(l, to) ==
  /\ dotGit' = IF Restored THEN backup ELSE dotGit
  /\ backup' = IF Restored THEN Nothing ELSE backup
  /\ Goto(l, to)
  /\ UNCHANGED <<otherVolume, copying, repo, metaDir, trees, made, deaths>>

Restore(l) == step[l] = "restore" /\ RestoreMetadata(l, "inspect")

\* _prepare_metadata with a published repo: two repositories are an error,
\* a missing pointer is written, a pointer (whatever it holds) is kept.
Inspect(l) ==
  /\ step[l] = "inspect"
  /\ Goto(l, IF repo = Nothing THEN "config"
             ELSE IF IsDir(dotGit) THEN "idle"
             ELSE IF dotGit = Nothing THEN "pointer" ELSE "tree")
  /\ UNCHANGED <<otherVolume, dotGit, backup, copying, repo, metaDir, trees, made, deaths>>

\* _normalize_git_config refuses local includes and a foreign core.worktree;
\* with no repository under the workspace git itself fails.
NormalizeGitConfig(l) ==
  /\ step[l] = "config"
  /\ \/ IsDir(dotGit) /\ Goto(l, "move")
     \/ Goto(l, "idle")
  /\ UNCHANGED <<otherVolume, dotGit, backup, copying, repo, metaDir, trees, made, deaths>>

\* _relocate_metadata on one volume: one rename publishes the directory.
MoveSameVolume(l) ==
  /\ step[l] = "move"
  /\ ~otherVolume
  /\ IsDir(dotGit)
  /\ repo' = dotGit
  /\ dotGit' = Nothing
  /\ Goto(l, "pointer")
  /\ UNCHANGED <<otherVolume, backup, copying, metaDir, trees, made, deaths>>

\* Faulty variant: the copy is taken from `.git` in place and the source is
\* only set aside afterwards.
CopyInPlace(l) ==
  /\ step[l] = "move"
  /\ otherVolume
  /\ IsDir(dotGit)
  /\ backup' = dotGit
  /\ UNCHANGED dotGit
  /\ Goto(l, "copy")
  /\ UNCHANGED <<otherVolume, copying, repo, metaDir, trees, made, deaths>>

\* EXDEV: `.git` is withdrawn by renaming it to the backup before the copy.
\* A backup from before refuses the migration.
WithdrawToBackup(l) ==
  /\ step[l] = "move"
  /\ otherVolume
  /\ IsDir(dotGit)
  /\ IF backup # Nothing
     THEN Goto(l, "undo") /\ UNCHANGED <<dotGit, backup>>
     ELSE Goto(l, "copy") /\ backup' = dotGit /\ dotGit' = Nothing
  /\ UNCHANGED <<otherVolume, copying, repo, metaDir, trees, made, deaths>>

\* _copy_metadata into a fresh `copying`: while it runs the copy holds some
\* part of the source; a special file or a full disk fails it.
CopySome(l) ==
  /\ step[l] = "copy"
  /\ \E part \in SUBSET backup.log : copying' = [backup EXCEPT !.log = part]
  /\ Goto(l, "copy")
  /\ UNCHANGED <<otherVolume, dotGit, backup, repo, metaDir, trees, made, deaths>>

CopyMetadata(l) ==
  /\ step[l] = "copy"
  /\ \/ copying' = backup /\ Goto(l, "publish")
     \/ UNCHANGED copying /\ Goto(l, "undo")
  /\ UNCHANGED <<otherVolume, dotGit, backup, repo, metaDir, trees, made, deaths>>

\* Only a complete copy is renamed to `repo`.  The backup stays.
Publish(l) ==
  /\ step[l] = "publish"
  /\ repo' = copying
  /\ copying' = Nothing
  /\ Goto(l, "pointer")
  /\ UNCHANGED <<otherVolume, dotGit, backup, metaDir, trees, made, deaths>>

\* The except branch of _prepare_metadata, then the error is raised again.
Undo(l) == step[l] = "undo" /\ RestoreMetadata(l, "idle")

\* write_text(.git, "gitdir: ..."): a directory in its place refuses the open.
WritePointer(l) ==
  /\ step[l] = "pointer"
  /\ IF IsDir(dotGit)
     THEN Goto(l, "idle") /\ UNCHANGED dotGit
     ELSE Goto(l, "tree") /\ dotGit' = Bare("pointer")
  /\ UNCHANGED <<otherVolume, backup, copying, repo, metaDir, trees, made, deaths>>

\* _repair_pointer for a known worktree, else `git worktree add`, which needs
\* a workspace git can read and may fail.
CheckoutWorktree(l) ==
  /\ step[l] = "tree"
  /\ \/ l \in trees /\ UNCHANGED trees
     \/ l \notin trees /\ dotGit.kind = "pointer" /\ trees' = trees \cup {l}
     \/ l \notin trees /\ UNCHANGED trees
  /\ Goto(l, "idle")
  /\ UNCHANGED <<otherVolume, dotGit, backup, copying, repo, metaDir, made, deaths>>

\* A shell commits: in the workspace through `.git`, in a worktree into repo.
\* (external: git.)  A commit counts once git has reported success.
CommitInWorkspace(c) ==
  /\ c \notin made
  /\ \/ /\ IsDir(dotGit)
        /\ dotGit' = [dotGit EXCEPT !.log = @ \cup {c}]
        /\ made' = IF dotGit.own THEN made \cup {c} ELSE made
        /\ UNCHANGED repo
     \/ /\ dotGit.kind = "pointer" /\ repo # Nothing
        /\ repo' = [repo EXCEPT !.log = @ \cup {c}]
        /\ made' = made \cup {c}
        /\ UNCHANGED dotGit
  /\ UNCHANGED <<otherVolume, backup, copying, metaDir, step, trees, deaths>>

CommitInWorktree(l, c) ==
  /\ l \in trees /\ repo # Nothing
  /\ c \notin made
  /\ repo' = [repo EXCEPT !.log = @ \cup {c}]
  /\ made' = made \cup {c}
  /\ UNCHANGED <<otherVolume, dotGit, backup, copying, metaDir, step, trees, deaths>>

\* A shell that finds no repository starts one of its own (external: git init).
InitAnother ==
  /\ dotGit = Nothing
  /\ metaDir
  /\ dotGit' = NewRepo(FALSE)
  /\ UNCHANGED <<otherVolume, backup, copying, repo, metaDir, step, trees, made, deaths>>

\* The host is killed.  A pointer being written may be left empty.
Die ==
  /\ deaths < MaxDeaths
  /\ \E l \in Lanes :
       /\ step[l] # "idle"
       /\ Goto(l, "idle")
       /\ dotGit' \in {dotGit} \cup (IF step[l] = "pointer" /\ dotGit = Nothing THEN {Bare("torn")} ELSE {})
  /\ deaths' = deaths + 1
  /\ UNCHANGED <<otherVolume, backup, copying, repo, metaDir, trees, made>>

GitNext ==
  \/ \E l \in Lanes :
       \/ Ensure(l) \/ Restore(l) \/ Inspect(l) \/ NormalizeGitConfig(l)
       \/ MoveSameVolume(l) \/ WithdrawToBackup(l) \/ CopySome(l) \/ CopyMetadata(l)
       \/ Publish(l) \/ Undo(l) \/ WritePointer(l) \/ CheckoutWorktree(l)
  \/ \E c \in Work : CommitInWorkspace(c) \/ \E l \in Lanes : CommitInWorktree(l, c)
  \/ InitAnother
  \/ Die

GitSpec == GitInit /\ [][GitNext]_gitVars

-----------------------------------------------------------------------------
\* Whatever the host moved, copied, failed at or was killed in: every commit
\* git reported is in the published repository, or, before one is published,
\* in one directory that the next ensure still starts from.
HistoryWhole ==
  LET home == IF repo # Nothing THEN repo
              ELSE IF backup # Nothing THEN backup ELSE dotGit
  IN  made # {} => IsDir(home) /\ home.own /\ made \subseteq home.log
=============================================================================
