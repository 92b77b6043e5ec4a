----------------------------- MODULE HostProofs ------------------------------
(***************************************************************************)
(* What the parts of the host around a turn keep, for every number of      *)
(* clients, lanes, commands, versions and secrets: git metadata, path      *)
(* locks, secrets, runtime copies, shell calls, bots, the service, the     *)
(* cost and the requests of a conversation, the memories kept between      *)
(* turns, and the score of a command line.  The parts share no state; each *)
(* section proves one of them.                                             *)
(***************************************************************************)
EXTENDS GitMetadata, PathLocks, Secrets, Installs, ShellRun, Bots, HostService,
        Conversation, MemoryStore, Risk, Induction, SequenceTheorems, FiniteSetTheorems

-----------------------------------------------------------------------------
(* Folds over the places of a list: FoldLeft is a recursive function on sets *)
(* of places, which takes the last one of a set first.                       *)

(* The places of a sequence, taken from the last one down.                    *)
LEMMA LastPlace ==
    ASSUME NEW n \in Nat, NEW s \in SUBSET (1..n), s # {}
    PROVE  Max(s) \in s /\ \A x \in s : x <= Max(s)
<1>1. s \subseteq 0..n
  OBVIOUS
<1>2. \E x \in s : \A y \in s : y <= x
  BY <1>1, GreatestElement
<1>3. \E x \in s : \A y \in s : x >= y
  BY <1>1, <1>2
<1>4. Max(s) = CHOOSE x \in s : \A y \in s : x >= y
  BY DEF Max
<1>5. Max(s) \in s /\ \A y \in s : Max(s) >= y
  BY <1>3, <1>4
<1> QED
  BY <1>5, <1>1

(* A fold over places, taken from the last one down.                          *)
Takes(n, V, base, take) ==
  base \in V /\ \A x \in 1..n : \A v \in V : take[x][v] \in V
Folded(f, n, V, base, take) ==
  /\ f \in [SUBSET (1..n) -> V] /\ f[{}] = base
  /\ \A s \in SUBSET (1..n) : s # {} => /\ Max(s) \in 1..n
                                        /\ f[s] = take[Max(s)][f[s \ {Max(s)}]]

LEMMA FoldOfPlaces ==
    ASSUME NEW n \in Nat, NEW V, NEW base, NEW take, Takes(n, V, base, take)
    PROVE  \E f : Folded(f, n, V, base, take)
<1> DEFINE D == 1..n
           pick == [s \in SUBSET D |-> Max(s)]
<1>1. \A s \in SUBSET D : s # {} => pick[s] \in s /\ pick[s] = Max(s)
  BY LastPlace
<1>2. IsFiniteSet(D)
  BY FS_Interval
<1> HIDE DEF pick
<1>3. CanFold(D, V, base, pick, take)
  BY <1>1, <1>2 DEF CanFold, Takes
<1> HIDE DEF D
<1>4. PICK f : IsFold(f, D, V, base, pick, take)
  BY <1>3, FoldExists
<1>5. Folded(f, n, V, base, take)
  <2>1. f \in [SUBSET D -> V] /\ f[{}] = base
    BY <1>4 DEF IsFold
  <2>2. ASSUME NEW s \in SUBSET D, s # {} PROVE Max(s) \in D /\ f[s] = take[Max(s)][f[s \ {Max(s)}]]
    BY <1>1, <1>4, <2>2 DEF IsFold
  <2> QED
    BY <2>1, <2>2 DEF Folded, D
<1> QED
  BY <1>5

LEMMA FirstPlaces ==
    ASSUME NEW n \in Nat, NEW k \in 1..n
    PROVE  /\ 1..k \in SUBSET (1..n) /\ 1..k # {} /\ Max(1..k) = k
           /\ (1..k) \ {k} = 1..(k - 1)
<1>1. 1..k \in SUBSET (1..n) /\ 1..k # {} /\ (1..k) \ {k} = 1..(k - 1)
  OBVIOUS
<1>2. k \in Nat /\ 1..k \in SUBSET (1..k) /\ k \in 1..k
  OBVIOUS
<1>3. Max(1..k) \in 1..k /\ k <= Max(1..k)
  BY <1>1, <1>2, LastPlace
<1>4. Max(1..k) = k
  BY <1>3
<1> QED
  BY <1>1, <1>4

(* A recursion that takes the places one by one is a list of the values that *)
(* it passes.                                                                *)
Follows(g, n, V, base, take) ==
  /\ g[{}] = base
  /\ \A s \in SUBSET (1..n) : s # {} /\ g[s \ {Max(s)}] \in V =>
        g[s] = take[Max(s)][g[s \ {Max(s)}]]

LEMMA FoldChain ==
    ASSUME NEW n \in Nat, NEW V, NEW base, NEW take, Takes(n, V, base, take),
           NEW g, Follows(g, n, V, base, take)
    PROVE  \E h \in [0..n -> V] :
              /\ h[0] = base /\ g[1..n] = h[n]
              /\ \A k \in 1..n : h[k] = take[k][h[k - 1]]
<1> DEFINE T == {k \in 0..n : g[1..k] \in V}
           h == [k \in 0..n |-> g[1..k]]
<1>1. 1..0 = {} /\ g[1..0] = base /\ base \in V
  BY DEF Follows, Takes
<1>2. ASSUME NEW k \in 1..n, g[1..(k - 1)] \in V
      PROVE  g[1..k] = take[k][g[1..(k - 1)]] /\ g[1..k] \in V
  <2>1. /\ 1..k \in SUBSET (1..n) /\ 1..k # {} /\ Max(1..k) = k
        /\ (1..k) \ {k} = 1..(k - 1)
    BY FirstPlaces
  <2>2. g[1..k] = take[k][g[1..(k - 1)]]
    BY <1>2, <2>1 DEF Follows
  <2> QED
    BY <1>2, <2>2 DEF Takes
<1>3. 0..n \subseteq T
  <2>1. 0 \in T
    BY <1>1
  <2>2. ASSUME NEW k \in T, k \in 0..n - 1 PROVE k + 1 \in T
    <3>1. k + 1 \in 1..n /\ k + 1 - 1 = k /\ k + 1 \in 0..n
      BY <2>2
    <3> QED
      BY <1>2, <2>2, <3>1
  <2> HIDE DEF T
  <2> QED
    BY <2>1, <2>2, UpTo
<1>4. \A k \in 0..n : g[1..k] \in V
  BY <1>3
<1>5. h \in [0..n -> V] /\ h[0] = base /\ g[1..n] = h[n]
  BY <1>1, <1>4
<1>6. ASSUME NEW k \in 1..n PROVE h[k] = take[k][h[k - 1]]
  <2>1. k - 1 \in 0..n /\ k \in 0..n
    OBVIOUS
  <2> QED
    BY <1>2, <1>4, <2>1
<1> HIDE DEF h
<1> QED
  BY <1>5, <1>6

-----------------------------------------------------------------------------
(* Installs.                                                                 *)

InstSteps == {"none", "look", "download", "extract", "rename", "switch", "check", "unlink", "trash"}

InstRecord == [at : InstSteps, version : Versions \cup {NoVersion}, staged : Trees,
               doomed : SUBSET Versions, drops : BOOLEAN]

\* What a process may do next with what it has read: an install knows its
\* version, and what it renames is whole.
InstReady(rec) ==
  /\ rec.at \in {"look", "download", "extract", "rename", "switch"} => rec.version \in Versions
  /\ rec.at = "rename" => rec.staged.whole /\ rec.staged.verified

\* A directory that is there is whole and verified, because only the rename
\* makes one and a process at its rename has staged such a tree.
InstInv ==
  /\ tree \in [Versions -> Trees]
  /\ proc \in [Commands -> InstRecord]
  /\ \A v \in Versions : tree[v].there => tree[v].whole /\ tree[v].verified
  /\ \A p \in Commands : InstReady(proc[p])

LEMMA InstSet ==
  ASSUME InstInv, NEW p \in Commands, NEW rec \in InstRecord, Set(p, rec), InstReady(rec),
         tree' \in [Versions -> Trees],
         \A v \in Versions : tree'[v].there => tree'[v].whole /\ tree'[v].verified
  PROVE  InstInv'
BY DEF InstInv, Set, InstReady

LEMMA InstStep == InstInv /\ [InstNext]_instVars => InstInv'
<1> SUFFICES ASSUME InstInv, [InstNext]_instVars PROVE InstInv'
  OBVIOUS
<1> USE DEF InstInv
<1>n. NoProc \in InstRecord /\ InstReady(NoProc)
  BY DEF InstRecord, InstReady, InstSteps, NoProc, Absent, Trees
<1>1. ASSUME NEW p \in Commands, NEW v \in Versions, InstallBegin(p, v) PROVE InstInv'
  <2> DEFINE rec == [NoProc EXCEPT !.at = "look", !.version = v]
  <2>1. rec \in InstRecord /\ InstReady(rec)
    BY <1>n DEF InstRecord, InstReady, InstSteps, NoProc
  <2> HIDE DEF rec
  <2> QED BY <1>1, <2>1, InstSet DEF InstallBegin, rec
<1>2. ASSUME NEW p \in Commands, NEW vs \in SUBSET Versions, RemoveBegin(p, vs) PROVE InstInv'
  <2>1. PICK all \in BOOLEAN :
          Set(p, [NoProc EXCEPT !.at = "check", !.doomed = vs,
                                !.drops = IF all THEN current # NoVersion ELSE CurrentVersion \in vs])
    BY <1>2, Zenon DEF RemoveBegin
  <2> DEFINE d   == IF all THEN current # NoVersion ELSE CurrentVersion \in vs
             rec == [NoProc EXCEPT !.at = "check", !.doomed = vs, !.drops = d]
  <2>2. rec \in InstRecord /\ InstReady(rec)
    <3>1. d \in BOOLEAN
      <4>1. CASE all
        BY <4>1
      <4>2. CASE ~all
        BY <4>2
      <4> QED BY <4>1, <4>2
    <3> HIDE DEF d
    <3> QED BY <1>n, <3>1 DEF InstRecord, InstReady, InstSteps, NoProc
  <2>3. UNCHANGED tree
    BY <1>2 DEF RemoveBegin
  <2>4. Set(p, rec)
    BY <2>1, Zenon
  <2> HIDE DEF rec
  <2> QED BY <2>2, <2>3, <2>4, InstSet
<1>3. ASSUME NEW p \in Commands, NEW to \in InstSteps, Step(p, to), UNCHANGED tree,
             to \in {"download", "extract", "switch"} => proc[p].version \in Versions,
             to \notin {"look", "rename"}
      PROVE  InstInv'
  <2> DEFINE rec == [proc[p] EXCEPT !.at = to]
  <2>1. rec \in InstRecord /\ InstReady(rec)
    BY <1>3 DEF InstRecord, InstReady, InstSteps
  <2> HIDE DEF rec
  <2> QED BY <1>3, <2>1, InstSet DEF Step, rec
<1>4. ASSUME NEW p \in Commands, Set(p, NoProc), UNCHANGED tree PROVE InstInv'
  BY <1>4, <1>n, InstSet
<1>5. ASSUME NEW p \in Commands, InstallLook(p) \/ Download(p) \/ RemoveCheck(p) \/ KillProc(p)
      PROVE  InstInv'
  <2>1. CASE InstallLook(p)
    BY <1>3, <2>1 DEF InstallLook, At, InstReady, InstSteps
  <2>2. CASE Download(p)
    BY <1>3, <1>4, <2>2 DEF Download, At, InstReady, InstSteps
  <2>3. CASE RemoveCheck(p)
    BY <1>3, <1>4, <2>3 DEF RemoveCheck, InstSteps
  <2>4. CASE KillProc(p)
    BY <1>4, <2>4 DEF KillProc
  <2> QED BY <1>5, <2>1, <2>2, <2>3, <2>4
<1>6. ASSUME NEW p \in Commands, SwitchCurrent(p) \/ UnlinkCurrent(p) PROVE InstInv'
  BY <1>3, <1>4, <1>6 DEF SwitchCurrent, UnlinkCurrent, InstSteps
<1>7. ASSUME NEW p \in Commands, Extract(p) PROVE InstInv'
  <2> DEFINE torn  == [proc[p] EXCEPT !.staged = [there |-> TRUE, whole |-> FALSE, verified |-> TRUE]]
             whole == [proc[p] EXCEPT !.staged = [there |-> TRUE, whole |-> TRUE, verified |-> TRUE],
                                      !.at = "rename"]
  <2>1. torn \in InstRecord /\ InstReady(torn) /\ whole \in InstRecord /\ InstReady(whole)
    BY <1>7 DEF Extract, At, InstRecord, InstReady, InstSteps, Trees
  <2>2. UNCHANGED tree /\ (Set(p, torn) \/ Set(p, whole) \/ Set(p, NoProc))
    BY <1>7 DEF Extract
  <2> HIDE DEF torn, whole
  <2> QED BY <1>4, <2>1, <2>2, InstSet
<1>8. ASSUME NEW p \in Commands, PlaceTree(p) PROVE InstInv'
  <2> DEFINE rec == [proc[p] EXCEPT !.staged = Absent, !.at = "switch"]
  <2>1. rec \in InstRecord /\ InstReady(rec)
    BY <1>8 DEF PlaceTree, At, InstRecord, InstReady, InstSteps, Trees, Absent
  <2>2. /\ tree' \in [Versions -> Trees]
        /\ \A v \in Versions : tree'[v].there => tree'[v].whole /\ tree'[v].verified
    BY <1>8 DEF PlaceTree, At, InstRecord, InstReady
  <2>3. Set(p, rec)
    BY <1>8 DEF PlaceTree
  <2> HIDE DEF rec
  <2> QED BY <2>1, <2>2, <2>3, InstSet
<1>9. ASSUME NEW p \in Commands, TrashVersion(p) PROVE InstInv'
  <2>1. PICK v \in proc[p].doomed :
          /\ tree' = [tree EXCEPT ![v] = Absent]
          /\ Set(p, NoProc) \/ Set(p, [proc[p] EXCEPT !.doomed = @ \ {v}])
    BY <1>9 DEF TrashVersion
  <2> DEFINE rec == [proc[p] EXCEPT !.doomed = @ \ {v}]
  <2>2. rec \in InstRecord /\ InstReady(rec)
    BY DEF InstRecord, InstReady
  <2>3. /\ tree' \in [Versions -> Trees]
        /\ \A w \in Versions : tree'[w].there => tree'[w].whole /\ tree'[w].verified
    BY <2>1 DEF Absent, Trees
  <2> HIDE DEF rec
  <2> QED BY <1>n, <2>1, <2>2, <2>3, InstSet DEF rec
<1>10. CASE TurnResolves \/ (\E v \in Versions : TurnLeaves(v)) \/ UNCHANGED instVars
  BY <1>10 DEF TurnResolves, TurnLeaves, instVars
<1> QED BY <1>1, <1>2, <1>5, <1>6, <1>7, <1>8, <1>9, <1>10 DEF InstNext

(* A managed copy that the host resolves for a turn is a whole tree from a   *)
(* verified download, however many installs and removals run at once and     *)
(* wherever they fail or are killed (installs._install, _remove, resolve).   *)
THEOREM CopiesAreWhole == InstSpec => []ResolvedIsWhole
<1>1. InstInit => InstInv
  BY DEF InstInit, InstInv, InstReady, InstRecord, InstSteps, NoProc, Absent, Trees
<1>2. InstInv => ResolvedIsWhole
  BY DEF InstInv, ResolvedIsWhole, Resolved, CurrentVersion, InstalledVersions
<1> QED BY <1>1, <1>2, InstStep, PTL DEF InstSpec

-----------------------------------------------------------------------------
(* PathLocks.                                                                *)

PathSteps == {"idle", "read", "take", "write", "loose", "done", "failed"}
PathCall == [at : PathSteps, now : Nat, saw : [by : LockAgents, until : Nat] \cup {NoLock},
             text : SUBSET ToolCalls]

\* The holder of the lock and the agent of a call that may still take it are
\* in their turns, and no lease is longer than it can be by now.
PathInv ==
  /\ call \in [ToolCalls -> PathCall]
  /\ file \subseteq ToolCalls /\ clock \in Nat
  /\ lock \in [by : LockAgents, until : Nat] \cup {NoLock}
  /\ live \subseteq LockAgents /\ cut \in [LockAgents -> SUBSET Nat]
  /\ LockEndsWithTurn
  /\ lock # NoLock => lock.until <= clock + LockTtl
  /\ \A c \in ToolCalls : call[c].now <= clock
  /\ \A c \in ToolCalls : call[c].at \in {"read", "take", "write"} => Caller[c] \in live

LEMMA PathStep == PathInv /\ [PathNext]_pathVars => PathInv'
<1> SUFFICES ASSUME PathInv, [PathNext]_pathVars PROVE PathInv'
  OBVIOUS
<1> USE PathLocksAssumption DEF PathInv, PathCall, PathSteps, ToolCalls, LockEndsWithTurn
<1>1. ASSUME NEW c \in ToolCalls, EditFile(c) \/ WriteFile(c) PROVE PathInv'
  <2>1. PICK text \in SUBSET ToolCalls :
          call' = [call EXCEPT ![c] = [@ EXCEPT !.at = "read", !.text = text]]
    BY <1>1 DEF EditFile, WriteFile
  <2>2. Caller[c] \in live /\ UNCHANGED <<clock, lock, file, live, cut>>
    BY <1>1 DEF EditFile, WriteFile
  <2> DEFINE rec == [call[c] EXCEPT !.at = "read", !.text = text]
  <2>3. call[c] \in PathCall /\ call[c].now <= clock
    OBVIOUS
  <2>4. rec \in PathCall /\ rec.now = call[c].now
    BY ONLY <2>3, text \in SUBSET ToolCalls DEF PathCall, PathSteps
  <2>5. call' = [call EXCEPT ![c] = rec]
    BY <2>1
  <2> HIDE DEF rec
  <2> QED BY <2>2, <2>3, <2>4, <2>5
<1>2. ASSUME NEW c \in ToolCalls, ReadLock(c) PROVE PathInv'
  <2>1. PICK at \in {"take", "failed"} :
          call' = [call EXCEPT ![c] = [@ EXCEPT !.at = at, !.now = clock, !.saw = lock]]
    BY <1>2 DEF ReadLock
  <2>2. Caller[c] \in live /\ UNCHANGED <<clock, lock, file, live, cut>>
    BY <1>2 DEF ReadLock
  <2> DEFINE rec == [call[c] EXCEPT !.at = at, !.now = clock, !.saw = lock]
  <2>3. call[c] \in PathCall
    OBVIOUS
  <2>4. rec \in PathCall /\ rec.now = clock
    BY ONLY <2>3, at \in {"take", "failed"}, clock \in Nat, lock \in [by : LockAgents, until : Nat] \cup {NoLock}
       DEF PathCall, PathSteps
  <2>5. call' = [call EXCEPT ![c] = rec]
    BY <2>1
  <2> HIDE DEF rec
  <2> QED BY <2>2, <2>4, <2>5
<1>3. ASSUME NEW c \in ToolCalls, TakeLock(c) PROVE PathInv'
  BY <1>3 DEF TakeLock
<1>4. ASSUME NEW c \in ToolCalls, WriteText(c) PROVE PathInv'
  BY <1>4 DEF WriteText
<1>5. ASSUME NEW a \in LockAgents, LockTurnEnds(a) PROVE PathInv'
  BY <1>5 DEF LockTurnEnds, DropLocks
<1>6. ASSUME NEW kept \in SUBSET live, LocksAfterRestart(kept) PROVE PathInv'
  <2>1. live' = kept
    BY <1>6 DEF LocksAfterRestart
  <2>2. cut' = [a \in LockAgents |-> IF a \in live \ kept THEN {clock} ELSE cut[a]]
    BY <1>6 DEF LocksAfterRestart
  <2>3. /\ call' = [c \in ToolCalls |-> IF call[c].at \in {"idle", "done"} THEN call[c]
                                       ELSE [call[c] EXCEPT !.at = "failed"]]
        /\ UNCHANGED <<clock, lock, file>>
    BY <1>6 DEF LocksAfterRestart
  <2>4. ASSUME NEW c \in ToolCalls
        PROVE  /\ call'[c] \in PathCall /\ call'[c].now <= clock
               /\ call'[c].at \notin {"read", "take", "write"}
    BY <2>3
  <2>5. call' \in [ToolCalls -> PathCall]
    BY <2>3, <2>4
  <2>6. cut' \in [LockAgents -> SUBSET Nat] /\ live' \subseteq LockAgents
    BY <2>1, <2>2
  <2>7. LockEndsWithTurn'
    <3>1. CASE lock # NoLock /\ lock.by \in live \ kept
      <4>1. clock \in cut'[lock.by]
        BY <3>1, <2>2
      <4> QED BY <3>1, <4>1, <2>3
    <3>2. CASE lock = NoLock \/ lock.by \notin live \ kept
      BY <3>2, <2>1, <2>3, <2>2
    <3> QED BY <3>1, <3>2
  <2> QED BY <2>3, <2>4, <2>5, <2>6, <2>7
<1>7. ASSUME NEW a \in LockAgents, StartTurn(a) PROVE PathInv'
  BY <1>7 DEF StartTurn
<1>8. CASE Tick \/ UNCHANGED pathVars
  BY <1>8 DEF Tick, pathVars
<1>9. CASE PathNext
  BY ONLY <1>1, <1>2, <1>3, <1>4, <1>5, <1>6, <1>7, <1>8, <1>9, Zenon DEF PathNext, ToolCalls
<1> QED BY ONLY <1>8, <1>9, [PathNext]_pathVars

(* A path is locked only for an agent in its turn, whatever its calls were   *)
(* doing, or for one lease after a restart that ended the turn               *)
(* (workspace.acquire_write, drop_locks, recovery.recover).                  *)
THEOREM LocksEndWithTurns == PathSpec => []LockEndsWithTurn
<1>1. PathInit => PathInv
  BY PathLocksAssumption DEF PathInit, PathInv, PathCall, PathSteps, ToolCalls, Idle, LockEndsWithTurn
<1>2. PathInv => LockEndsWithTurn
  BY DEF PathInv
<1> QED BY <1>1, <1>2, PathStep, PTL DEF PathSpec

-----------------------------------------------------------------------------
(* ShellRun.                                                                 *)

\* Nothing of the group runs before the call starts it. After a stop has gone
\* past its kill only members it could not signal, and what they forked, are
\* left; a call cut off in its spawn or its stop may leave anything.
ShellInv ==
  /\ stopper \in {"none", "grace", "kill", "reap"}
  /\ shellCall.at \in {"load", "check", "spawn"} => alive = {} /\ stopper = "none"
  /\ shellCall.at \in {"opening", "running", "finished"} => stopper = "none"
  /\ stopper = "reap" => alive \subseteq spared
  /\ StoppedIsDead

LEMMA ShellStep == ShellInv /\ [ShellNext]_shellVars => ShellInv'
<1> SUFFICES ASSUME ShellInv, [ShellNext]_shellVars PROVE ShellInv'
  OBVIOUS
<1> USE DEF ShellInv, StoppedIsDead, groupVars
<1>1. ASSUME NEW access, NEW policy, EditRow(access, policy) PROVE ShellInv'
  BY <1>1 DEF EditRow
<1>2. ASSUME NEW mode, NEW confirmed, SetSandboxMode(mode, confirmed) PROVE ShellInv'
  BY <1>2 DEF SetSandboxMode
<1>3. ASSUME NEW risk, NEW yes, StartCall(risk, yes) PROVE ShellInv'
  BY <1>3 DEF StartCall
<1>4. CASE LoadTarget \/ Check
  BY <1>4 DEF LoadTarget, Check
<1>5. ASSUME NEW ignores, SpawnGroup(ignores) PROVE ShellInv'
  BY <1>5 DEF SpawnGroup
<1>6. CASE SpawnReturns \/ CancelSpawn
  <2>1. CASE SpawnReturns
    <3>1. shellCall'.at = "running" \/ shellCall'.at = shellCall.at
      BY <2>1 DEF SpawnReturns
    <3> QED BY <2>1, <3>1 DEF SpawnReturns
  <2>2. CASE CancelSpawn
    BY <2>2 DEF CancelSpawn
  <2> QED BY <1>6, <2>1, <2>2
<1>7. ASSUME NEW q \in Group, NEW p \in Children, NEW ignores, NEW keepsPipe,
             Fork(q, p, ignores, keepsPipe)
      PROVE  ShellInv'
  BY <1>7 DEF Fork, Inherits
<1>8. ASSUME NEW p \in Group, ChangeUser(p) \/ Exit(p) PROVE ShellInv'
  BY <1>8 DEF ChangeUser, Exit
<1>9. CASE Finish \/ Timeout \/ Cancel \/ CancelEarly
  BY <1>9 DEF Finish, Timeout, Cancel, CancelEarly, Terminate
<1>10. CASE GraceOver \/ Kill \/ Reap \/ CutStop
  BY <1>10 DEF GraceOver, Kill, Reap, CutStop, Signal
<1>11. CASE UNCHANGED shellVars
  BY <1>11 DEF shellVars
<1> QED BY <1>1, <1>2, <1>3, <1>4, <1>5, <1>6, <1>7, <1>8, <1>9, <1>10, <1>11 DEF ShellNext

(* Once the stop of a command that timed out or was cancelled is done, what   *)
(* runs of its group was beyond the reach of its last signal or descends     *)
(* from such a process, for any number of children that fork, exit, change   *)
(* their user and ignore SIGTERM as they like (shell._stop).                 *)
THEOREM StopsWhole == ShellSpec => []StoppedIsDead
<1>1. ShellInit => ShellInv
  BY DEF ShellInit, ShellInv, StoppedIsDead, NoCall
<1>2. ShellInv => StoppedIsDead
  BY DEF ShellInv
<1> QED BY <1>1, <1>2, ShellStep, PTL DEF ShellSpec

-----------------------------------------------------------------------------
(* Bots.                                                                     *)

\* A create is the first call of all, and the only one until it is done; the
\* files go only when the row is gone for good.
BotInv ==
  /\ bcall = [c \in Editors |-> bcall[c]]
  /\ bcalls \in Nat
  /\ bcalls = 0 => ~botRow.there /\ \A c \in Editors : bcall[c].at = "idle"
  /\ \A c \in Editors :
       /\ bcall[c].at = "made" => /\ "workspace" \in dirs /\ ~botRow.there
                                  /\ \A d \in Editors \ {c} : bcall[d].at = "idle"
       /\ bcall[c].at \in {"undo", "purge", "remove"} => ~botRow.there
  /\ BotHasWorkspace

LEMMA BotStep == BotInv /\ [BotsNext]_botVars => BotInv'
<1> SUFFICES ASSUME BotInv, [BotsNext]_botVars PROVE BotInv'
  OBVIOUS
<1> USE DEF BotInv, BotHasWorkspace, NoBotCall, StartsCall
<1>1. ASSUME NEW c \in Editors, NEW m, Create(c, m) PROVE BotInv'
  <2>1. PICK model : bcall' = [bcall EXCEPT ![c] = [at |-> "made", model |-> model]]
    BY <1>1 DEF Create
  <2>2. bcall'[c].at = "made" /\ \A d \in Editors \ {c} : bcall'[d].at = "idle"
    BY <1>1, <2>1 DEF Create
  <2>3. bcall' = [d \in Editors |-> bcall'[d]] /\ bcalls' \in Nat /\ bcalls' # 0
    BY <1>1, <2>1 DEF Create
  <2>4. "workspace" \in dirs' /\ UNCHANGED botRow /\ bcall[c].at = "idle" /\ ~botRow.there
    BY <1>1 DEF Create
  <2> QED BY <2>2, <2>3, <2>4
<1>2. ASSUME NEW c \in Editors, CreateCommits(c) PROVE BotInv'
  BY <1>2 DEF CreateCommits, NoBot
<1>3. ASSUME NEW c \in Editors, CreateFails(c) PROVE BotInv'
  BY <1>3 DEF CreateFails
<1>4. ASSUME NEW c \in Editors, RemoveWorkspace(c) PROVE BotInv'
  BY <1>4 DEF RemoveWorkspace
<1>5. ASSUME NEW c \in Editors, NEW given, UpdateReads(c, given) PROVE BotInv'
  BY <1>5 DEF UpdateReads
<1>6. ASSUME NEW c \in Editors, UpdateCommits(c) PROVE BotInv'
  BY <1>6 DEF UpdateCommits
<1>7. ASSUME NEW c \in Editors, NEW purge, DeleteReads(c, purge) PROVE BotInv'
  <2>1. PICK lanes : bcall' = [bcall EXCEPT ![c] = [at |-> "found", purge |-> purge, lanes |-> lanes]]
    BY <1>7 DEF DeleteReads
  <2>2. /\ UNCHANGED <<botRow, dirs>> /\ botRow.there
        /\ bcalls' = bcalls + 1 /\ bcall[c].at = "idle"
    BY <1>7 DEF DeleteReads
  <2> QED BY <2>1, <2>2
<1>8. ASSUME NEW c \in Editors, DeleteCommits(c) PROVE BotInv'
  BY <1>8 DEF DeleteCommits
<1>9. ASSUME NEW c \in Editors, PurgeWorktrees(c) PROVE BotInv'
  <2>1. CASE bcall[c].lanes # {}
    <3>1. PICK l \in bcall[c].lanes : bcall' = [bcall EXCEPT ![c].lanes = @ \ {l}]
      BY <1>9, <2>1 DEF PurgeWorktrees
    <3>2. \A d \in Editors : bcall'[d].at = bcall[d].at
      BY <3>1
    <3>3. bcall' = [d \in Editors |-> bcall'[d]]
      BY <3>1
    <3> QED BY <1>9, <3>2, <3>3 DEF PurgeWorktrees
  <2>2. CASE bcall[c].lanes = {}
    BY <1>9, <2>2 DEF PurgeWorktrees
  <2> QED BY <2>1, <2>2
<1>10. ASSUME NEW l \in BotLanes, Spawn(l) \/ EnsureReads(l) \/ EnsureMakes(l) PROVE BotInv'
  BY <1>10 DEF Spawn, EnsureReads, EnsureMakes
<1>11. ASSUME NEW p, KeyChanges(p) PROVE BotInv'
  BY <1>11 DEF KeyChanges
<1>12. CASE HostDies \/ UNCHANGED botVars
  BY <1>12 DEF HostDies, botVars
<1> QED BY <1>1, <1>2, <1>3, <1>4, <1>5, <1>6, <1>7, <1>8, <1>9, <1>10, <1>11, <1>12 DEF BotsNext

(* A stored bot has its workspace, with any number of clients that create,   *)
(* update and delete it, failed commits and deaths of the host               *)
(* (BotService.create, delete).                                              *)
THEOREM BotsHaveFiles == BotsSpec => []BotHasWorkspace
<1>1. BotsInit => BotInv
  <2> SUFFICES ASSUME BotsInit PROVE BotInv
    OBVIOUS
  <2>1. bcall = [c \in Editors |-> bcall[c]] /\ \A c \in Editors : bcall[c].at = "idle"
    BY DEF BotsInit, NoBotCall
  <2> QED BY <2>1 DEF BotsInit, BotInv, BotHasWorkspace, NoBot
<1>2. BotInv => BotHasWorkspace
  BY DEF BotInv
<1> QED BY <1>1, <1>2, BotStep, PTL DEF BotsSpec

-----------------------------------------------------------------------------
(* HostService.                                                              *)

ServiceSteps == {"status", "bootout", "write", "reload", "restart", "enable", "bootstrap",
                 "disable", "unlink", "done", "failed"}

\* Only an install writes, and what it writes is a unit; an uninstall is at
\* its unlink only when the host it stopped is off.
ServiceInv ==
  /\ svc \in [op : {"none", "install", "uninstall", "restart"}, at : ServiceSteps,
              unit : Units \cup {NoUnit}, action : {"none", "create", "unchanged", "replace", "conflict"},
              code : Nat]
  /\ code \in Nat
  /\ svc.op = "install" => svc.unit \in Units
  /\ svc.at = "write" => svc.op = "install"
  /\ svc.at = "unlink" => ~hostProc.on

\* A step that neither writes nor unlinks leaves the invariant to its target.
LEMMA ServiceProceeds ==
  ASSUME ServiceInv, NEW at \in ServiceSteps, Proceed(at), UNCHANGED code,
         at = "write" => svc.op = "install", at = "unlink" => ~hostProc'.on
  PROVE  ServiceInv'
BY DEF ServiceInv, Proceed

LEMMA ServiceStarts ==
  ASSUME ServiceInv, NEW op \in {"install", "uninstall", "restart"}, NEW at \in ServiceSteps,
         NEW u \in Units \cup {NoUnit}, NEW action \in {"none", "create", "unchanged", "replace", "conflict"},
         StartsAt(op, at, u, action), op = "install" => u \in Units,
         at = "write" => op = "install", at # "unlink"
  PROVE  ServiceInv'
BY DEF ServiceInv, StartsAt

LEMMA ServiceStep == ServiceInv /\ [ServiceNext]_svcVars => ServiceInv'
<1> SUFFICES ASSUME ServiceInv, [ServiceNext]_svcVars PROVE ServiceInv'
  OBVIOUS
<1> USE DEF ServiceSteps
<1>1. ASSUME NEW u \in Units, NEW force \in BOOLEAN, InstallBegins(u, force) PROVE ServiceInv'
  <2>1. PICK at \in {"failed", "status", "bootout", "write"} :
          StartsAt("install", at, u, PlanWrite(u, force))
    BY <1>1 DEF InstallBegins
  <2>2. PlanWrite(u, force) \in {"create", "unchanged", "replace", "conflict"}
    BY DEF PlanWrite
  <2> QED BY <2>1, <2>2, ServiceStarts
<1>2. CASE UninstallBegins
  <2>1. PICK at \in {"done", "bootout", "disable"} : StartsAt("uninstall", at, NoUnit, "none")
    BY <1>2 DEF UninstallBegins
  <2> QED BY <2>1, ServiceStarts
<1>3. CASE RestartBegins
  BY <1>3, ServiceStarts DEF RestartBegins
<1>4. CASE UnchangedStatus
  <2>1. PICK at \in {"bootstrap", "restart", "enable", "done"} : Proceed(at)
    BY <1>4 DEF UnchangedStatus
  <2> QED BY <1>4, <2>1, ServiceProceeds DEF UnchangedStatus, Counters
<1>5. CASE Bootout
  BY <1>5, ServiceProceeds DEF Bootout, Unload, Counters, Off
<1>6. CASE WriteAtomic
  BY <1>6, ServiceProceeds DEF WriteAtomic, Counters
<1>7. CASE DaemonReload
  <2>1. PICK at \in {"restart", "enable", "done"} : Proceed(at)
    BY <1>7 DEF DaemonReload
  <2> QED BY <1>7, <2>1, ServiceProceeds DEF DaemonReload, Counters
<1>8. CASE Restart
  <2>1. PICK at \in {"enable", "failed", "done"} : Proceed(at)
    BY <1>8 DEF Restart
  <2> QED BY <1>8, <2>1, ServiceProceeds DEF Restart, Counters
<1>9. CASE EnableNow
  BY <1>9, ServiceProceeds DEF EnableNow, Counters
<1>10. CASE Bootstrap
  BY <1>10, ServiceProceeds DEF Bootstrap, Counters
<1>11. CASE DisableNow
  BY <1>11, ServiceProceeds DEF DisableNow, Counters, Off
<1>12. CASE Unlink
  BY <1>12, ServiceProceeds DEF Unlink, Counters
<1>13. CASE CallFails \/ CallTakesEffectLate
  <2>1. PICK at \in {"write", "bootstrap", "failed"} :
          /\ Proceed(at)
          /\ at = "write" => svc.op = "install"
    BY <1>13 DEF CallFails, CallTakesEffectLate, AfterFault
  <2>2. UNCHANGED code
    BY <1>13 DEF CallFails, CallTakesEffectLate, ServiceRest
  <2> QED BY <2>1, <2>2, ServiceProceeds
<1>14. CASE CommandKilled
  BY <1>14, ServiceProceeds DEF CommandKilled, ServiceRest
<1>15. ASSUME NEW clean, HostExits(clean) PROVE ServiceInv'
  BY <1>15 DEF HostExits, ServiceInv
<1>16. CASE LogIn \/ Upgrade
  BY <1>16 DEF LogIn, Upgrade, Free, ServiceInv
<1>17. CASE UNCHANGED svcVars
  BY <1>17 DEF svcVars, ServiceInv
<1> QED BY <1>1, <1>2, <1>3, <1>4, <1>5, <1>6, <1>7, <1>8, <1>9, <1>10, <1>11, <1>12, <1>13,
           <1>14, <1>15, <1>16, <1>17 DEF ServiceNext

(* No step removes the unit of a host that runs: an uninstall goes on to its *)
(* unlink only after a stop that succeeded, whatever fails, is late or is    *)
(* killed (uninstall of both managers).                                      *)
THEOREM UnitsOutliveHosts == ServiceSpec => UnitOutlivesHost
<1>1. ServiceInit => ServiceInv
  BY DEF ServiceInit, ServiceInv, ServiceSteps, NoCmd
<1>2. ServiceInv /\ [ServiceNext]_svcVars
        => [unitFile # NoUnit /\ unitFile' = NoUnit => ~hostProc.on]_svcVars
  <2> SUFFICES ASSUME ServiceInv, ServiceNext, unitFile # NoUnit, unitFile' = NoUnit
               PROVE  ~hostProc.on
    BY DEF svcVars
  <2>1. CASE Unlink
    BY <2>1 DEF Unlink, ServiceInv
  <2>2. CASE WriteAtomic
    BY <2>2, HostServiceAssumption DEF WriteAtomic, ServiceInv
  <2>3. CASE ~Unlink /\ ~WriteAtomic
    BY <2>3 DEF ServiceNext, InstallBegins, UninstallBegins, RestartBegins, StartsAt, UnchangedStatus,
                Bootout, Unload, DaemonReload, Restart, EnableNow, Bootstrap, DisableNow, CallFails,
                CallTakesEffectLate, CommandKilled, HostExits, LogIn, Upgrade
  <2> QED BY <2>1, <2>2, <2>3
<1> QED BY <1>1, <1>2, ServiceStep, PTL DEF ServiceSpec, UnitOutlivesHost

-----------------------------------------------------------------------------
(* GitMetadata.                                                              *)

GitSteps == {"idle", "restore", "inspect", "config", "move", "copy", "publish", "undo", "pointer", "tree"}

\* The directory that the bot's own history is in.
Home == IF repo # Nothing THEN repo ELSE IF backup # Nothing THEN backup ELSE dotGit

\* The history is whole at every moment, also while no file is where ensure
\* wants it; and once it has left `.git`, whatever is there is not the bot's.
HomeInv ==
  /\ {dotGit, backup, copying, repo} \subseteq Entry
  /\ IsDir(Home) /\ Home.own /\ made \subseteq Home.log
  /\ repo # Nothing \/ backup # Nothing => ~dotGit.own
  /\ ~otherVolume => backup = Nothing

\* What a lane in its migration relies on; the bot's lock admits one.
StepInv ==
  /\ step \in [Lanes -> GitSteps]
  /\ \A k, l \in Lanes : step[k] # "idle" /\ step[l] # "idle" => k = l
  /\ \A l \in Lanes :
       /\ step[l] \in {"config", "move", "copy", "publish", "undo"} => repo = Nothing
       /\ step[l] \in {"copy", "publish"} => backup # Nothing
       /\ step[l] = "publish" => copying = backup
       /\ step[l] = "pointer" => repo # Nothing

GitInv == HomeInv /\ StepInv

LEMMA RestoreKeepsHome ==
  ASSUME GitInv, NEW l \in Lanes, step[l] # "idle", NEW to \in {"idle", "inspect"},
         RestoreMetadata(l, to)
  PROVE  GitInv'
<1>1. step' = [step EXCEPT ![l] = to] /\ UNCHANGED <<repo, made, copying, otherVolume>>
  BY DEF RestoreMetadata, Goto
<1>2. StepInv'
  BY <1>1 DEF GitInv, StepInv, GitSteps
<1>3. HomeInv'
  <2>1. CASE Restored
    BY <1>1, <2>1 DEF GitInv, HomeInv, RestoreMetadata, Restored, Home, Entry, Nothing, Bare, IsDir
  <2>2. CASE ~Restored
    BY <1>1, <2>2 DEF GitInv, HomeInv, RestoreMetadata, Home
  <2> QED BY <2>1, <2>2
<1> QED BY <1>2, <1>3 DEF GitInv

\* A lane steps on and the files stay.
LEMMA GoesOn ==
  ASSUME GitInv, NEW l \in Lanes, step[l] # "idle" \/ \A k \in Lanes : step[k] = "idle",
         NEW to \in {"idle", "restore", "config", "move", "undo", "pointer", "tree"}, Goto(l, to),
         to \in {"config", "move", "undo"} => repo = Nothing,
         to = "pointer" => repo # Nothing,
         UNCHANGED <<otherVolume, dotGit, backup, copying, repo, made>>
  PROVE  GitInv'
BY DEF GitInv, HomeInv, StepInv, GitSteps, Goto, Home

LEMMA GitStep == GitInv /\ [GitNext]_gitVars => GitInv'
<1> SUFFICES ASSUME GitInv, [GitNext]_gitVars PROVE GitInv'
  OBVIOUS
<1>1. ASSUME NEW l \in Lanes, Ensure(l) PROVE GitInv'
  BY <1>1, GoesOn DEF Ensure
<1>2. ASSUME NEW l \in Lanes, Restore(l) \/ Undo(l) PROVE GitInv'
  BY <1>2, RestoreKeepsHome DEF Restore, Undo
<1>3. ASSUME NEW l \in Lanes, Inspect(l) PROVE GitInv'
  BY <1>3, GoesOn DEF Inspect
<1>4. ASSUME NEW l \in Lanes, NormalizeGitConfig(l) PROVE GitInv'
  <2>1. repo = Nothing
    BY <1>4 DEF NormalizeGitConfig, GitInv, StepInv
  <2> QED BY <1>4, <2>1, GoesOn DEF NormalizeGitConfig
<1>5. ASSUME NEW l \in Lanes, MoveSameVolume(l) PROVE GitInv'
  <2>1. repo = Nothing /\ backup = Nothing
    BY <1>5 DEF MoveSameVolume, GitInv, HomeInv, StepInv
  <2>2. HomeInv'
    BY <1>5, <2>1 DEF MoveSameVolume, GitInv, HomeInv, Home, Nothing, Bare, IsDir, Entry
  <2>3. StepInv'
    BY <1>5, <2>1 DEF MoveSameVolume, GitInv, StepInv, GitSteps, Goto, Nothing, Bare, IsDir
  <2> QED BY <2>2, <2>3 DEF GitInv
<1>6. ASSUME NEW l \in Lanes, WithdrawToBackup(l) PROVE GitInv'
  <2>1. repo = Nothing
    BY <1>6 DEF WithdrawToBackup, GitInv, StepInv
  <2>2. CASE backup # Nothing
    BY <1>6, <2>1, <2>2, GoesOn DEF WithdrawToBackup
  <2>3. CASE backup = Nothing
    <3>1. HomeInv'
      BY <1>6, <2>1, <2>3 DEF WithdrawToBackup, GitInv, HomeInv, Home, Nothing, Bare, IsDir, Entry
    <3>2. StepInv'
      BY <1>6, <2>1, <2>3 DEF WithdrawToBackup, GitInv, StepInv, GitSteps, Goto, Nothing, Bare, IsDir
    <3> QED BY <3>1, <3>2 DEF GitInv
  <2> QED BY <2>2, <2>3
<1>7. ASSUME NEW l \in Lanes, CopySome(l) \/ CopyMetadata(l) PROVE GitInv'
  <2>1. copying' \in Entry /\ UNCHANGED <<otherVolume, dotGit, backup, repo, made>>
    BY <1>7 DEF CopySome, CopyMetadata, GitInv, HomeInv, Entry
  <2>2. HomeInv'
    BY <2>1 DEF GitInv, HomeInv, Home
  <2>3. StepInv'
    BY <1>7 DEF CopySome, CopyMetadata, GitInv, StepInv, GitSteps, Goto
  <2> QED BY <2>2, <2>3 DEF GitInv
<1>8. ASSUME NEW l \in Lanes, Publish(l) PROVE GitInv'
  <2>1. repo = Nothing /\ backup # Nothing /\ copying = backup
    BY <1>8 DEF Publish, GitInv, StepInv
  <2>2. HomeInv'
    BY <1>8, <2>1 DEF Publish, GitInv, HomeInv, Home, Nothing, Bare, Entry
  <2>3. StepInv'
    BY <1>8, <2>1 DEF Publish, GitInv, StepInv, GitSteps, Goto
  <2> QED BY <2>2, <2>3 DEF GitInv
<1>9. ASSUME NEW l \in Lanes, WritePointer(l) PROVE GitInv'
  <2>1. repo # Nothing
    BY <1>9 DEF WritePointer, GitInv, StepInv
  <2>2. CASE IsDir(dotGit)
    BY <1>9, <2>2, GoesOn DEF WritePointer
  <2>3. CASE ~IsDir(dotGit)
    <3>1. HomeInv'
      <4>1. dotGit' = Bare("pointer") /\ UNCHANGED <<otherVolume, backup, copying, repo, made>>
        BY <1>9, <2>3 DEF WritePointer
      <4> QED BY <4>1, <2>1 DEF GitInv, HomeInv, Home, Bare, Entry
    <3>2. StepInv'
      BY <1>9, <2>3 DEF WritePointer, GitInv, StepInv, GitSteps, Goto
    <3> QED BY <3>1, <3>2 DEF GitInv
  <2> QED BY <2>2, <2>3
<1>10. ASSUME NEW l \in Lanes, CheckoutWorktree(l) PROVE GitInv'
  BY <1>10, GoesOn DEF CheckoutWorktree
<1>11. ASSUME NEW c \in Work, CommitInWorkspace(c) PROVE GitInv'
  <2>1. StepInv'
    BY <1>11 DEF CommitInWorkspace, GitInv, StepInv, GitSteps, Nothing, Bare, Entry, HomeInv
  <2>2. HomeInv'
    <3>1. CASE IsDir(dotGit)
      BY <1>11, <3>1 DEF CommitInWorkspace, GitInv, HomeInv, Home, Entry, IsDir, Nothing, Bare
    <3>2. CASE ~IsDir(dotGit)
      BY <1>11, <3>2 DEF CommitInWorkspace, GitInv, HomeInv, Home, Entry, IsDir, Nothing, Bare
    <3> QED BY <3>1, <3>2
  <2> QED BY <2>1, <2>2 DEF GitInv
<1>12. ASSUME NEW l \in Lanes, NEW c \in Work, CommitInWorktree(l, c) PROVE GitInv'
  <2>1. StepInv'
    BY <1>12 DEF CommitInWorktree, GitInv, StepInv, GitSteps, Nothing, Bare, Entry, HomeInv
  <2>2. HomeInv'
    BY <1>12 DEF CommitInWorktree, GitInv, HomeInv, Home, Entry, IsDir, Nothing, Bare
  <2> QED BY <2>1, <2>2 DEF GitInv
<1>13. CASE InitAnother
  BY <1>13 DEF InitAnother, GitInv, HomeInv, StepInv, GitSteps, Home, Entry, IsDir, Nothing, Bare, NewRepo
<1>14. CASE Die
  <2>1. PICK l \in Lanes :
          /\ step[l] # "idle" /\ Goto(l, "idle")
          /\ dotGit' = dotGit \/ (step[l] = "pointer" /\ dotGit' = Bare("torn"))
    BY <1>14 DEF Die
  <2>2. CASE dotGit' = dotGit
    BY <1>14, <2>1, <2>2, GoesOn DEF Die
  <2>3. CASE step[l] = "pointer" /\ dotGit' = Bare("torn")
    <3>1. repo # Nothing
      BY <2>3 DEF GitInv, StepInv
    <3>2. HomeInv'
      BY <1>14, <2>3, <3>1 DEF Die, GitInv, HomeInv, Home, Bare, Entry
    <3>3. StepInv'
      BY <1>14, <2>1 DEF Die, GitInv, StepInv, GitSteps, Goto
    <3> QED BY <3>2, <3>3 DEF GitInv
  <2> QED BY <2>1, <2>2, <2>3
<1>15. CASE UNCHANGED gitVars
  BY <1>15 DEF gitVars, GitInv, HomeInv, StepInv, Home
<1> QED BY <1>1, <1>2, <1>3, <1>4, <1>5, <1>6, <1>7, <1>8, <1>9, <1>10, <1>11, <1>12, <1>13, <1>14,
           <1>15 DEF GitNext

(* Every commit that git reported is in the repository the next ensure uses  *)
(* or starts from, for any number of lanes, commits and deaths of the host   *)
(* between two file operations of the migration (workspace.ensure).          *)
THEOREM HistoryKept == GitSpec => []HistoryWhole
<1>1. GitInit => GitInv
  BY DEF GitInit, GitInv, HomeInv, StepInv, GitSteps, Home, Entry, IsDir, Nothing, Bare, NewRepo
<1>2. GitInv => HistoryWhole
  BY DEF GitInv, HomeInv, Home, HistoryWhole
<1> QED BY <1>1, <1>2, GitStep, PTL DEF GitSpec

-----------------------------------------------------------------------------
(* Secrets.                                                                  *)

Backends   == {"age-file", "secret-service"}
Migrations == [at : {"none", "copy", "pin", "delete", "undo"}, from : Backends, todo : SUBSET AllNames,
               copied : SUBSET AllNames, existing : SUBSET AllNames, previous : [AllNames -> Nat],
               fresh : BOOLEAN]

SecretTypes ==
  /\ ring \in [AllNames -> Nat] /\ age \in [AllNames -> Nat] /\ stored \in [AllNames -> Nat]
  /\ index \subseteq AllNames /\ ageFile \in BOOLEAN /\ keys \in Nat
  /\ pin \in {"none", "secret-service", "age-file"}
  /\ mig \in Migrations

\* The value is where commands look for it, or that backend has none and it
\* is in the other one.
KeptInAge(n)  == stored[n] # 0 => age[n] = stored[n] \/ (age[n] = 0 /\ ring[n] = stored[n])
KeptInRing(n) == stored[n] # 0 => ring[n] = stored[n] \/ (ring[n] = 0 /\ age[n] = stored[n])

\* A migration works from the backend that was selected when it began; a copy
\* it leaves in a file of its own may select the other one once it is killed.
Copying == mig.at \in {"copy", "undo"}
Source  == IF Copying THEN mig.from ELSE SelectedBackend

\* The index of the keyring leaves out only what the age file holds, which is
\* why a migration may go by it.
KeptInv ==
  /\ ~ageFile => \A n \in AllNames : age[n] = 0
  /\ \A n \in AllNames : stored[n] # 0 /\ n \notin index => age[n] = stored[n]
  /\ \A n \in AllNames : IF Source = "age-file" THEN KeptInAge(n) ELSE KeptInRing(n)

\* From the age file to the keyring: the file still selects itself, and every
\* name under way is in it.
FromAge ==
  /\ pin = "age-file" \/ (pin = "none" /\ ageFile)
  /\ ~mig.fresh
  /\ \A n \in mig.todo \cup mig.copied : age[n] # 0
  /\ mig.at = "copy" => /\ \A n \in AllNames : age[n] # 0 => n \in mig.todo \cup mig.copied
                        /\ \A n \in mig.copied : n \in index /\ ring[n] = age[n]

\* From the keyring to the age file: without a pin the file is the migration's
\* own, and holds nothing but copies; what the file had for a name that the
\* keyring lists but lost is remembered.
FromRing ==
  /\ pin = "secret-service" \/ (pin = "none" /\ mig.fresh)
  /\ mig.todo \cup mig.copied \subseteq index
  /\ mig.fresh => \A n \in AllNames : /\ mig.previous[n] = 0 /\ n \notin mig.existing
                                      /\ age[n] # 0 => n \in index /\ age[n] = ring[n]
  /\ \A n \in mig.copied : stored[n] # 0 /\ ring[n] = 0 => mig.previous[n] = stored[n]
  /\ mig.at = "copy" => /\ index \subseteq mig.todo \cup mig.copied
                        /\ \A n \in mig.copied : ring[n] # 0 /\ age[n] = ring[n]
                        /\ \A n \in mig.todo : age[n] # 0 => n \in mig.existing

\* The new pin is written, and what is deleted is in the pinned backend.
Deleting ==
  /\ pin = To
  /\ \A n \in mig.todo : stored[n] # 0 => Holds(To, n) = stored[n]
  /\ mig.from = "age-file" => mig.todo \subseteq index

MigrationInv ==
  /\ Copying /\ mig.from = "age-file" => FromAge
  /\ Copying /\ mig.from = "secret-service" => FromRing
  /\ mig.at = "delete" => Deleting

SecretInv == SecretTypes /\ KeptInv /\ MigrationInv

LEMMA SelectsOne == SecretTypes => SelectedBackend \in Backends /\ To \in Backends /\ Identity \in AllNames
BY DEF SecretTypes, SelectedBackend, Backends, To, AllNames

\* What the backends' own steps leave well typed.
LEMMA BackendTypes ==
  ASSUME SecretTypes, NEW b \in Backends, NEW n \in AllNames, NEW v \in Nat, NEW complete \in BOOLEAN,
         BackendSet(b, n, v, complete) \/ BackendDelete(b, n, complete)
  PROVE  /\ ring' \in [AllNames -> Nat] /\ age' \in [AllNames -> Nat]
         /\ index' \subseteq AllNames /\ ageFile' \in BOOLEAN
<1>1. CASE BackendSet(b, n, v, complete)
  BY <1>1 DEF SecretTypes, BackendSet, RingSet, AgeSet
<1>2. CASE BackendDelete(b, n, complete)
  BY <1>2 DEF SecretTypes, BackendDelete, RingDelete, AgeDelete
<1> QED BY <1>1, <1>2

-----------------------------------------------------------------------------
(* Commands: no migration runs, and they work on the selected backend.       *)

\* A value is stored, and the backend pinned if it is the keyring.
LEMMA StoresIt ==
  ASSUME SecretInv, mig.at = "none", UNCHANGED <<mig, ringState>>,
         NEW n \in AllNames, NEW v \in Nat,
         BackendSet(SelectedBackend, n, v, TRUE),
         stored' = [stored EXCEPT ![n] = v],
         pin' = pin \/ PinIfRing(SelectedBackend)
  PROVE  KeptInv' /\ MigrationInv'
<1> USE DEF SecretInv, SecretTypes
<1>1. MigrationInv'
  BY DEF MigrationInv, Copying
<1>2. Source = SelectedBackend /\ Source' = SelectedBackend'
  BY DEF Source, Copying
<1>3. CASE SelectedBackend = "age-file"
  <2>1. SelectedBackend' = "age-file"
    BY <1>3 DEF BackendSet, AgeSet, PinIfRing, SelectedBackend
  <2>2. age' = [age EXCEPT ![n] = v] /\ ageFile' /\ UNCHANGED <<ring, index>>
    BY <1>3 DEF BackendSet, AgeSet
  <2> QED BY <1>1, <1>2, <1>3, <2>1, <2>2 DEF KeptInv, KeptInAge
<1>4. CASE SelectedBackend # "age-file"
  <2>1. /\ ring' = [ring EXCEPT ![n] = v] /\ index' = index \cup {n}
        /\ UNCHANGED <<age, ageFile>>
    BY <1>4 DEF BackendSet, RingSet
  <2>2. SelectedBackend' # "age-file"
    BY <1>4, <2>1 DEF PinIfRing, SelectedBackend
  <2> QED BY <1>1, <1>2, <1>4, <2>1, <2>2 DEF KeptInv, KeptInRing
<1> QED BY <1>3, <1>4

\* A name is dropped, or a value written halfway: the command promises nothing.
LEMMA DropsIt ==
  ASSUME SecretInv, mig.at = "none", UNCHANGED <<mig, ringState, pin>>, NEW n \in AllNames,
         stored' = [stored EXCEPT ![n] = 0],
         \A m \in AllNames \ {n} : ring'[m] = ring[m] /\ age'[m] = age[m] /\ (m \in index <=> m \in index'),
         ageFile' = ageFile, ~ageFile => age'[n] = 0
  PROVE  KeptInv' /\ MigrationInv'
<1>1. MigrationInv'
  BY DEF SecretInv, MigrationInv, Copying
<1>2. Source' = Source
  BY DEF Source, Copying, SelectedBackend
<1> QED BY <1>1, <1>2 DEF SecretInv, SecretTypes, KeptInv, KeptInAge, KeptInRing

\* The identity that is stored is used; the keyring may be pinned.
LEMMA PinsIt ==
  ASSUME SecretInv, mig.at = "none", UNCHANGED <<mig, ringState, ring, index, age, ageFile, stored>>,
         pin' = pin \/ PinIfRing(SelectedBackend)
  PROVE  KeptInv' /\ MigrationInv'
<1>1. MigrationInv'
  BY DEF SecretInv, MigrationInv, Copying
<1>2. Source' = Source
  BY DEF Source, Copying, SelectedBackend, PinIfRing
<1> QED BY <1>1, <1>2 DEF SecretInv, KeptInv, KeptInAge, KeptInRing

LEMMA IdentityStep ==
  ASSUME SecretInv, mig.at = "none", UNCHANGED <<mig, ringState>>,
         LoadOrCreate(SelectedBackend), pin' = pin \/ PinIfRing(SelectedBackend)
  PROVE  SecretInv'
<1>0. SelectedBackend \in Backends /\ Identity \in AllNames
  BY SelectsOne DEF SecretInv
<1>1. CASE UNCHANGED <<ring, index, age, ageFile, stored, keys>>
  <2>1. SecretTypes'
    BY <1>1 DEF SecretInv, SecretTypes, PinIfRing
  <2> QED BY <1>1, <2>1, PinsIt DEF SecretInv
<1>2. CASE /\ keys' = keys + 1
           /\ stored' = [stored EXCEPT ![Identity] = keys']
           /\ BackendSet(SelectedBackend, Identity, keys', TRUE)
  <2>1. keys' \in Nat
    BY <1>2 DEF SecretInv, SecretTypes
  <2>2. SecretTypes'
    <3>1. /\ ring' \in [AllNames -> Nat] /\ age' \in [AllNames -> Nat]
          /\ index' \subseteq AllNames /\ ageFile' \in BOOLEAN
      BY <1>0, <1>2, <2>1, BackendTypes DEF SecretInv
    <3> QED BY <1>0, <1>2, <2>1, <3>1 DEF SecretInv, SecretTypes, PinIfRing
  <2> QED BY <1>0, <1>2, <2>1, <2>2, StoresIt DEF SecretInv
<1> QED BY <1>1, <1>2 DEF LoadOrCreate

LEMMA CommandStep ==
  ASSUME SecretInv, NEW n \in Names, SecretRm(n) \/ \E v \in Values : SecretSet(n, v)
  PROVE  SecretInv'
<1>0. n \in AllNames /\ SelectedBackend \in Backends
  BY SelectsOne DEF AllNames, SecretInv
<1>1. ASSUME NEW v \in Values, SecretSet(n, v) PROVE SecretInv'
  <2>0. v \in Nat
    BY SecretsAssumption
  <2>1. CASE /\ BackendSet(SelectedBackend, n, v, TRUE) /\ PinIfRing(SelectedBackend)
             /\ stored' = [stored EXCEPT ![n] = v]
    <3>1. /\ ring' \in [AllNames -> Nat] /\ age' \in [AllNames -> Nat]
          /\ index' \subseteq AllNames /\ ageFile' \in BOOLEAN
      BY <1>0, <2>0, <2>1, BackendTypes DEF SecretInv
    <3>2. SecretTypes'
      BY <1>0, <1>1, <2>0, <2>1, <3>1 DEF SecretSet, SecretInv, SecretTypes, PinIfRing
    <3> QED BY <1>0, <1>1, <2>0, <2>1, <3>2, StoresIt DEF SecretInv, SecretSet
  <2>2. CASE /\ SelectedBackend = "secret-service" /\ RingSet(n, v, FALSE)
             /\ UNCHANGED pin /\ stored' = [stored EXCEPT ![n] = 0]
    <3>1. SecretTypes'
      BY <1>0, <1>1, <2>0, <2>2 DEF SecretSet, RingSet, SecretInv, SecretTypes
    <3>2. /\ \A m \in AllNames \ {n} : ring'[m] = ring[m]
          /\ UNCHANGED <<age, index, ageFile>> /\ (~ageFile => age'[n] = 0)
      BY <1>0, <2>2 DEF RingSet, SecretInv, SecretTypes, KeptInv
    <3> QED BY <1>0, <1>1, <2>2, <3>1, <3>2, DropsIt DEF SecretInv, SecretSet
  <2> QED BY <1>1, <2>1, <2>2 DEF SecretSet
<1>2. CASE SecretRm(n)
  <2>1. PICK complete \in BOOLEAN : BackendDelete(SelectedBackend, n, complete)
    BY <1>2 DEF SecretRm
  <2>2. SecretTypes'
    <3>1. /\ ring' \in [AllNames -> Nat] /\ age' \in [AllNames -> Nat]
          /\ index' \subseteq AllNames /\ ageFile' \in BOOLEAN
      BY <1>0, <2>1, BackendTypes DEF SecretInv
    <3> QED BY <1>0, <1>2, <3>1 DEF SecretRm, SecretInv, SecretTypes
  <2>3. /\ \A m \in AllNames \ {n} : ring'[m] = ring[m] /\ age'[m] = age[m] /\ (m \in index <=> m \in index')
        /\ ageFile' = ageFile /\ (~ageFile => age'[n] = 0)
    BY <1>0, <2>1 DEF BackendDelete, RingDelete, AgeDelete, SecretInv, SecretTypes, KeptInv
  <2> QED BY <1>0, <1>2, <2>2, <2>3, DropsIt DEF SecretInv, SecretRm
<1> QED BY <1>1, <1>2

-----------------------------------------------------------------------------
(* The migration.                                                            *)

LEMMA Begins == SecretInv /\ MigrateBegin => SecretInv'
<1> SUFFICES ASSUME SecretInv, MigrateBegin PROVE SecretInv'
  OBVIOUS
<1> DEFINE b == SelectedBackend
           t == IF b = "age-file" THEN "secret-service" ELSE "age-file"
<1>0. b \in Backends /\ t \in Backends
  BY SelectsOne DEF SecretInv, Backends
<1>1. /\ mig'.at = "copy" /\ mig'.from = b /\ mig'.copied = {}
      /\ mig'.todo = BackendNames(b) /\ mig'.existing = BackendNames(t)
      /\ mig'.previous = [n \in AllNames |-> 0]
      /\ mig'.fresh <=> t = "age-file" /\ ~ageFile
  BY DEF MigrateBegin, NoMig
<1>2. UNCHANGED <<ring, index, ringState, age, ageFile, pin, stored, keys>>
  BY DEF MigrateBegin
<1>3. mig' \in Migrations
  <2>1. BackendNames(b) \subseteq AllNames /\ BackendNames(t) \subseteq AllNames
    BY DEF BackendNames, SecretInv, SecretTypes
  <2>2. CASE t = "age-file" /\ ~ageFile
    BY <1>0, <2>1, <2>2 DEF MigrateBegin, NoMig, Migrations, Backends
  <2>3. CASE ~(t = "age-file" /\ ~ageFile)
    BY <1>0, <2>1, <2>3 DEF MigrateBegin, NoMig, Migrations, Backends
  <2> QED BY <2>2, <2>3
<1>4. Source = b /\ Source' = b
  BY <1>1 DEF MigrateBegin, Source, Copying
<1>5. KeptInv'
  BY <1>2, <1>4 DEF SecretInv, KeptInv, KeptInAge, KeptInRing
<1>6. CASE b = "age-file"
  <2>1. pin = "age-file" \/ (pin = "none" /\ ageFile)
    BY <1>6 DEF MigrateBegin, SelectedBackend, SecretInv, SecretTypes
  <2>2. FromAge'
    BY <1>1, <1>2, <1>6, <2>1 DEF FromAge, BackendNames
  <2> QED BY <1>1, <1>2, <1>3, <1>5, <1>6, <2>2 DEF SecretInv, SecretTypes, MigrationInv, Copying
<1>7. CASE b # "age-file"
  <2>1. pin = "secret-service" \/ (pin = "none" /\ ~ageFile)
    BY <1>7 DEF SelectedBackend, SecretInv, SecretTypes
  <2>2. FromRing'
    BY <1>1, <1>2, <1>7, <2>1 DEF FromRing, BackendNames, SecretInv, KeptInv, SecretTypes
  <2> QED BY <1>0, <1>1, <1>2, <1>3, <1>5, <1>7, <2>2 DEF SecretInv, SecretTypes, MigrationInv, Copying
<1> QED BY <1>6, <1>7

\* One name goes from the age file to the keyring.
LEMMA CopiesFromAge ==
  ASSUME SecretInv, mig.from = "age-file", NEW n \in AllNames, MigrateCopy(n) \/ MigrateCopyFails(n),
         mig' \in Migrations
  PROVE  KeptInv' /\ MigrationInv'
<1>1. /\ mig.at = "copy" /\ n \in mig.todo /\ mig'.from = "age-file" /\ mig'.fresh = mig.fresh
      /\ mig'.todo \subseteq mig.todo /\ mig'.copied = mig.copied \cup {n}
      /\ UNCHANGED <<age, ageFile, pin, stored, ringState>>
  <2>1. CASE MigrateCopy(n)
    BY <2>1 DEF MigrateCopy, To, BackendSet, RingSet, SecretInv, SecretTypes, Migrations
  <2>2. CASE MigrateCopyFails(n)
    <3>1. UNCHANGED <<age, ageFile, pin, stored, ringState>>
      BY <2>2 DEF MigrateCopyFails, To, BackendSet, RingSet
    <3> QED BY <2>2, <3>1 DEF MigrateCopyFails, SecretInv, SecretTypes, Migrations
  <2> QED BY <2>1, <2>2
<1>2. FromAge /\ Copying
  BY <1>1 DEF SecretInv, MigrationInv, Copying
<1>3. /\ index \subseteq index' /\ ring' \in [AllNames -> Nat]
      /\ \A m \in AllNames \ {n} : ring'[m] = ring[m]
  <2>1. CASE RingSet(n, age[n], TRUE) \/ RingSet(n, age[n], FALSE)
    BY <2>1 DEF RingSet, SecretInv, SecretTypes
  <2>2. CASE UNCHANGED <<ring, index>>
    BY <2>2 DEF SecretInv, SecretTypes
  <2>3. CASE MigrateCopy(n)
    BY <2>1, <2>3 DEF MigrateCopy, To, Holds, BackendSet
  <2>4. CASE MigrateCopyFails(n)
    <3>1. \/ \E complete \in BOOLEAN : RingSet(n, age[n], complete)
          \/ UNCHANGED <<ring, index>>
      BY <2>4 DEF MigrateCopyFails, To, Holds, BackendSet
    <3> QED BY <2>1, <2>2, <3>1
  <2> QED BY <2>3, <2>4
<1>4. Copying' /\ Source = "age-file" /\ Source' = "age-file"
  BY <1>1, <1>2 DEF MigrateCopy, MigrateCopyFails, Source, Copying, SecretInv, SecretTypes, Migrations
<1>5. KeptInv'
  <2>1. \A m \in AllNames : KeptInAge(m)'
    <3> SUFFICES ASSUME NEW m \in AllNames PROVE KeptInAge(m)'
      OBVIOUS
    <3>1. CASE m = n
      BY <1>1, <1>2, <1>4, <3>1 DEF FromAge, SecretInv, KeptInv, KeptInAge
    <3>2. CASE m # n
      BY <1>1, <1>3, <1>4, <3>2 DEF SecretInv, KeptInv, KeptInAge
    <3> QED BY <3>1, <3>2
  <2> QED BY <1>1, <1>3, <1>4, <2>1 DEF SecretInv, KeptInv
<1>6. CASE mig'.at = "copy"
  <2>1. mig'.todo = mig.todo \ {n} /\ ring'[n] = age[n] /\ n \in index'
    BY <1>1, <1>6 DEF MigrateCopy, MigrateCopyFails, To, Holds, BackendSet, RingSet, SecretInv, SecretTypes,
                      Migrations
  <2>2. \A m \in mig'.copied : m \in index' /\ ring'[m] = age'[m]
    BY <1>1, <1>2, <1>3, <2>1 DEF FromAge, SecretInv, SecretTypes, Migrations
  <2>3. FromAge'
    BY <1>1, <1>2, <2>1, <2>2 DEF FromAge
  <2> QED BY <1>1, <1>5, <1>6, <2>3 DEF MigrationInv, Copying
<1>7. CASE mig'.at # "copy"
  <2>1. FromAge' /\ mig'.at = "undo"
    BY <1>1, <1>2, <1>4, <1>7 DEF FromAge, Copying
  <2> QED BY <1>1, <1>5, <2>1 DEF MigrationInv, Copying
<1> QED BY <1>6, <1>7

\* One name goes from the keyring to the age file.
LEMMA CopiesFromRing ==
  ASSUME SecretInv, mig.from = "secret-service", NEW n \in AllNames,
         MigrateCopy(n) \/ MigrateCopyFails(n), mig' \in Migrations
  PROVE  KeptInv' /\ MigrationInv'
<1>1. /\ mig.at = "copy" /\ n \in mig.todo /\ mig'.from = "secret-service"
      /\ mig'.todo \subseteq mig.todo /\ mig'.copied = mig.copied \cup {n}
      /\ mig'.existing = mig.existing /\ mig'.fresh = mig.fresh
      /\ mig'.previous = [mig.previous EXCEPT ![n] = IF n \in mig.existing THEN age[n] ELSE 0]
      /\ UNCHANGED <<ring, index, pin, stored, ringState>>
  <2>1. UNCHANGED <<ring, index, pin, stored, ringState>>
    BY DEF MigrateCopy, MigrateCopyFails, To, BackendSet, AgeSet
  <2>2. CASE MigrateCopy(n)
    BY <2>1, <2>2 DEF MigrateCopy, To, Holds, SecretInv, SecretTypes, Migrations
  <2>3. CASE MigrateCopyFails(n)
    BY <2>1, <2>3 DEF MigrateCopyFails, To, Holds, SecretInv, SecretTypes, Migrations
  <2> QED BY <2>2, <2>3
<1>2. FromRing /\ Copying
  BY <1>1 DEF SecretInv, MigrationInv, Copying
<1>3. \/ age' = age /\ ageFile' = ageFile /\ mig'.at = "undo"
      \/ age' = [age EXCEPT ![n] = ring[n]] /\ ageFile' /\ ring[n] # 0
  BY DEF MigrateCopy, MigrateCopyFails, To, Holds, BackendSet, AgeSet, SecretInv, SecretTypes, Migrations
<1>4. Copying' /\ Source = "secret-service" /\ Source' = "secret-service"
  BY <1>1, <1>2 DEF MigrateCopy, MigrateCopyFails, Source, Copying, SecretInv, SecretTypes, Migrations
<1>5. KeptInv'
  BY <1>1, <1>2, <1>3, <1>4 DEF FromRing, SecretInv, SecretTypes, KeptInv, KeptInRing
<1>6. \A m \in mig'.copied : stored'[m] # 0 /\ ring'[m] = 0 => mig'.previous[m] = stored'[m]
  <2> SUFFICES ASSUME NEW m \in AllNames, m \in mig.copied \cup {n}, stored[m] # 0, ring[m] = 0
               PROVE  mig'.previous[m] = stored[m]
    BY <1>1 DEF Migrations
  <2>1. CASE m = n
    <3>1. age[m] = stored[m]
      BY <1>4 DEF SecretInv, KeptInv, KeptInRing
    <3>2. age[m] # 0 => m \in mig.existing
      BY <1>1, <1>2, <2>1 DEF FromRing
    <3> QED BY <1>1, <2>1, <3>1, <3>2 DEF SecretInv, SecretTypes, Migrations
  <2>2. CASE m # n
    BY <1>1, <1>2, <2>2 DEF FromRing, SecretInv, SecretTypes, Migrations
  <2> QED BY <2>1, <2>2
<1>7. mig'.fresh => \A m \in AllNames : /\ mig'.previous[m] = 0 /\ m \notin mig'.existing
                                        /\ age'[m] # 0 => m \in index' /\ age'[m] = ring'[m]
  BY <1>1, <1>2, <1>3 DEF FromRing, SecretInv, SecretTypes, Migrations
<1>8. mig'.at = "copy" => /\ mig'.todo = mig.todo \ {n}
                          /\ \A m \in mig'.copied : ring'[m] # 0 /\ age'[m] = ring'[m]
                          /\ \A m \in mig'.todo : age'[m] # 0 => m \in mig'.existing
  <2> SUFFICES ASSUME mig'.at = "copy"
               PROVE  /\ mig'.todo = mig.todo \ {n}
                      /\ \A m \in mig'.copied : ring'[m] # 0 /\ age'[m] = ring'[m]
                      /\ \A m \in mig'.todo : age'[m] # 0 => m \in mig'.existing
    OBVIOUS
  <2>1. mig'.todo = mig.todo \ {n}
    BY DEF MigrateCopy, MigrateCopyFails, SecretInv, SecretTypes, Migrations
  <2>2. age' = [age EXCEPT ![n] = ring[n]] /\ ring[n] # 0
    BY <1>3
  <2> QED BY <1>1, <1>2, <2>1, <2>2 DEF FromRing, SecretInv, SecretTypes, Migrations
<1>9. FromRing'
  BY <1>1, <1>2, <1>6, <1>7, <1>8 DEF FromRing
<1> QED BY <1>1, <1>4, <1>5, <1>9 DEF MigrationInv, Copying

\* The config names the other backend, or could not be written.
LEMMA Pins == SecretInv /\ MigratePin => KeptInv' /\ MigrationInv'
<1> SUFFICES ASSUME SecretInv, MigratePin PROVE KeptInv' /\ MigrationInv'
  OBVIOUS
<1>1. /\ mig.at = "copy" /\ mig.todo = {} /\ Copying
      /\ mig'.from = mig.from /\ mig'.copied = mig.copied /\ mig'.previous = mig.previous
      /\ mig'.existing = mig.existing /\ mig'.fresh = mig.fresh
      /\ UNCHANGED <<ring, index, age, ageFile, stored, ringState>>
  BY DEF MigratePin, Copying, SecretInv, SecretTypes, Migrations
<1>2. Source = mig.from /\ mig.from \in Backends /\ mig.copied \subseteq AllNames
  BY <1>1 DEF Source, SecretInv, SecretTypes, Migrations
<1>3. CASE UNCHANGED pin /\ mig' = [mig EXCEPT !.at = "undo"]
  <2>1. mig'.at = "undo" /\ mig'.todo = mig.todo
    BY <1>3 DEF SecretInv, SecretTypes, Migrations
  <2>2. Source' = mig.from
    BY <1>1, <2>1 DEF Source, Copying
  <2>3. KeptInv'
    BY <1>1, <1>2, <2>2 DEF SecretInv, KeptInv, KeptInAge, KeptInRing
  <2>4. FromAge => FromAge'
    BY <1>1, <1>3, <2>1 DEF FromAge
  <2>5. FromRing => FromRing'
    BY <1>1, <1>3, <2>1 DEF FromRing
  <2> QED BY <1>1, <2>1, <2>3, <2>4, <2>5 DEF SecretInv, MigrationInv, Copying
<1>4. CASE pin' = To /\ mig' = [mig EXCEPT !.at = "delete", !.todo = mig.copied]
  <2>1. mig'.at = "delete" /\ mig'.todo = mig.copied
    BY <1>4 DEF SecretInv, SecretTypes, Migrations
  <2>2. To' = To /\ Source' = To /\ ~Copying'
    BY <1>1, <1>4, <2>1 DEF Source, Copying, SelectedBackend, To
  <2>3. CASE mig.from = "age-file"
    <3>1. FromAge
      BY <1>1, <2>3 DEF SecretInv, MigrationInv
    <3>2. \A n \in AllNames : KeptInAge(n)
      BY <1>2, <2>3 DEF SecretInv, KeptInv
    <3>3. \A n \in AllNames : stored[n] # 0 => ring[n] = stored[n]
      BY <1>1, <3>1, <3>2 DEF FromAge, KeptInAge
    <3>4. \A n \in mig.copied : n \in index
      BY <1>1, <3>1 DEF FromAge
    <3>5. KeptInv'
      BY <1>1, <2>2, <2>3, <3>3 DEF SecretInv, KeptInv, KeptInRing, To
    <3>6. Deleting'
      BY <1>1, <1>2, <1>4, <2>1, <2>2, <2>3, <3>3, <3>4 DEF Deleting, Holds, To
    <3> QED BY <2>1, <2>2, <3>5, <3>6 DEF MigrationInv
  <2>4. CASE mig.from = "secret-service"
    <3>1. FromRing
      BY <1>1, <2>4 DEF SecretInv, MigrationInv
    <3>2. \A n \in AllNames : KeptInRing(n)
      BY <1>2, <2>4 DEF SecretInv, KeptInv
    <3>3. \A n \in AllNames : stored[n] # 0 => age[n] = stored[n]
      BY <1>1, <3>1, <3>2 DEF FromRing, KeptInRing, SecretInv, KeptInv
    <3>5. KeptInv'
      BY <1>1, <2>2, <2>4, <3>3 DEF SecretInv, KeptInv, KeptInAge, To
    <3>6. Deleting'
      BY <1>1, <1>2, <1>4, <2>1, <2>2, <2>4, <3>3 DEF Deleting, Holds, To
    <3> QED BY <2>1, <2>2, <3>5, <3>6 DEF MigrationInv
  <2> QED BY <1>2, <2>3, <2>4 DEF Backends
<1> QED BY <1>3, <1>4 DEF MigratePin

\* A source copy is deleted, or left over.
LEMMA Deletes ==
  ASSUME SecretInv, NEW n \in AllNames, MigrateDelete(n)
  PROVE  KeptInv' /\ MigrationInv'
<1>1. /\ mig.at = "delete" /\ n \in mig.todo /\ mig'.at = "delete" /\ mig'.from = mig.from
      /\ mig'.todo = mig.todo \ {n} /\ mig.todo \subseteq AllNames
      /\ UNCHANGED <<ringState, pin, stored>>
  BY DEF MigrateDelete, SecretInv, SecretTypes, Migrations
<1>2. Deleting /\ ~Copying /\ ~Copying' /\ To' = To
  BY <1>1 DEF SecretInv, MigrationInv, Copying, To
<1>3. Source = To /\ Source' = To
  BY <1>1, <1>2 DEF Source, SelectedBackend, Deleting, To
<1>4. CASE mig.from = "age-file"
  <2>1. UNCHANGED <<ring, index, ageFile>> /\ (age' = age \/ age' = [age EXCEPT ![n] = 0])
    BY <1>4 DEF MigrateDelete, BackendDelete, AgeDelete
  <2>2. KeptInv'
    BY <1>1, <1>2, <1>3, <1>4, <2>1 DEF SecretInv, SecretTypes, KeptInv, KeptInRing, Deleting, To, Holds
  <2>3. Deleting'
    BY <1>1, <1>2, <1>4, <2>1 DEF Deleting, To, Holds
  <2> QED BY <1>1, <1>2, <2>2, <2>3 DEF MigrationInv
<1>5. CASE mig.from # "age-file"
  <2>1. /\ UNCHANGED <<age, ageFile>>
        /\ ring' = ring \/ ring' = [ring EXCEPT ![n] = 0]
        /\ index' = index \/ index' = index \ {n}
    BY <1>5 DEF MigrateDelete, BackendDelete, RingDelete
  <2>2. KeptInv'
    BY <1>1, <1>2, <1>3, <1>5, <2>1 DEF SecretInv, SecretTypes, KeptInv, KeptInAge, Deleting, To, Holds
  <2>3. Deleting'
    BY <1>1, <1>2, <1>5, <2>1 DEF Deleting, To, Holds
  <2> QED BY <1>1, <1>2, <2>2, <2>3 DEF MigrationInv
<1> QED BY <1>4, <1>5

\* One copy is taken back, or passed over.
LEMMA Undoes ==
  ASSUME SecretInv, NEW n \in AllNames, UndoOne(n)
  PROVE  KeptInv' /\ MigrationInv'
<1>1. /\ mig.at = "undo" /\ n \in mig.copied /\ mig'.at = "undo" /\ mig'.from = mig.from
      /\ mig'.todo = mig.todo /\ mig'.copied = mig.copied \ {n} /\ mig'.existing = mig.existing
      /\ mig'.previous = mig.previous /\ mig'.fresh = mig.fresh
      /\ UNCHANGED <<ringState, pin, stored>>
  BY DEF UndoOne, SecretInv, SecretTypes, Migrations
<1>2. Copying /\ Copying' /\ Source = mig.from /\ Source' = mig.from
  BY <1>1 DEF Copying, Source
<1>3. CASE mig.from = "age-file"
  <2>1. FromAge
    BY <1>2, <1>3 DEF SecretInv, MigrationInv
  <2>2. /\ UNCHANGED <<age, ageFile>>
        /\ ring' = ring \/ \E v \in Nat : ring' = [ring EXCEPT ![n] = v]
        /\ index \ {n} \subseteq index'
    BY <1>3 DEF UndoOne, To, BackendSet, BackendDelete, RingSet, RingDelete, SecretInv, SecretTypes,
                Migrations
  <2>3. FromAge'
    BY <1>1, <2>1, <2>2 DEF FromAge
  <2>4. stored[n] # 0 => age[n] = stored[n]
    BY <1>1, <1>2, <1>3, <2>1 DEF FromAge, SecretInv, KeptInv, KeptInAge
  <2>5. \A m \in AllNames \ {n} : ring'[m] = ring[m]
    BY <2>2 DEF SecretInv, SecretTypes
  <2>6. KeptInv'
    BY <1>1, <1>2, <1>3, <2>2, <2>4, <2>5 DEF SecretInv, KeptInv, KeptInAge
  <2> QED BY <1>1, <1>3, <2>3, <2>6 DEF MigrationInv
<1>4. CASE mig.from # "age-file"
  <2>1. FromRing /\ mig.from = "secret-service"
    BY <1>2, <1>4 DEF SecretInv, MigrationInv, SecretTypes, Migrations, Backends
  <2>2. /\ UNCHANGED <<ring, index>>
        /\ \/ UNCHANGED <<age, ageFile>>
           \/ mig.previous[n] # 0 /\ age' = [age EXCEPT ![n] = mig.previous[n]] /\ ageFile'
           \/ mig.previous[n] = 0 /\ age' = [age EXCEPT ![n] = 0] /\ ageFile' = ageFile
    BY <1>4 DEF UndoOne, To, BackendSet, BackendDelete, AgeSet, AgeDelete
  <2>3. n \in index
    BY <1>1, <2>1 DEF FromRing
  <2>4. KeptInRing(n)'
    BY <1>1, <1>2, <2>1, <2>2 DEF FromRing, SecretInv, SecretTypes, KeptInv, KeptInRing
  <2>5. \A m \in AllNames \ {n} : age'[m] = age[m]
    BY <2>2 DEF SecretInv, SecretTypes
  <2>6. KeptInv'
    BY <1>1, <1>2, <2>1, <2>2, <2>3, <2>4, <2>5 DEF SecretInv, SecretTypes, KeptInv, KeptInRing
  <2>7. FromRing'
    BY <1>1, <2>1, <2>2, <2>3 DEF FromRing, SecretInv, SecretTypes
  <2> QED BY <1>1, <2>1, <2>6, <2>7 DEF MigrationInv
<1> QED BY <1>3, <1>4

\* The migration is over, undone or killed: commands go by the selection.
LEMMA Ends ==
  ASSUME SecretInv, UndoEnd \/ Killed \/ MigrateEnd
  PROVE  SecretInv'
<1>0. /\ mig' = NoMig /\ mig'.at = "none" /\ UNCHANGED <<ring, index, ringState, pin, stored, keys>>
      /\ ~Copying' /\ mig.from \in Backends
  BY DEF UndoEnd, Killed, MigrateEnd, NoMig, Copying, SecretInv, SecretTypes, Migrations
<1>1. \/ UndoEnd /\ mig.at = "undo" /\ mig.fresh /\ age' = [n \in AllNames |-> 0] /\ ageFile' = FALSE
      \/ (~UndoEnd \/ ~mig.fresh) /\ age' = age /\ ageFile' = ageFile
  BY DEF UndoEnd, Killed, MigrateEnd, SecretInv, SecretTypes, Migrations
<1>2. SecretTypes'
  <2>1. NoMig \in Migrations
    BY DEF NoMig, Migrations, Backends
  <2>2. age' \in [AllNames -> Nat] /\ ageFile' \in BOOLEAN
    <3>1. CASE age' = [n \in AllNames |-> 0] /\ ageFile' = FALSE
      BY <3>1
    <3>2. CASE age' = age /\ ageFile' = ageFile
      BY <3>2 DEF SecretInv, SecretTypes
    <3> QED BY <1>1, <3>1, <3>2
  <2> QED BY <1>0, <2>1, <2>2 DEF SecretInv, SecretTypes
<1>3. MigrationInv'
  BY <1>0 DEF MigrationInv
<1>4. CASE ~Copying
  BY <1>0, <1>1, <1>2, <1>3, <1>4 DEF SecretInv, KeptInv, KeptInAge, KeptInRing, Source, Copying, SelectedBackend
<1>5. CASE Copying /\ mig.from = "age-file"
  <2>1. FromAge /\ Source = "age-file"
    BY <1>5 DEF SecretInv, MigrationInv, Source
  <2>2. Source' = "age-file" /\ UNCHANGED <<age, ageFile>>
    BY <1>0, <1>1, <2>1 DEF FromAge, Source, SelectedBackend
  <2> QED BY <1>0, <1>2, <1>3, <2>1, <2>2 DEF SecretInv, KeptInv, KeptInAge
<1>6. CASE Copying /\ mig.from = "secret-service"
  <2>1. FromRing /\ Source = "secret-service"
    BY <1>6 DEF SecretInv, MigrationInv, Source
  <2>2. CASE mig.fresh
    <3>1. \A n \in AllNames : stored[n] # 0 => ring[n] = stored[n] /\ n \in index
      BY <2>1, <2>2 DEF FromRing, SecretInv, SecretTypes, KeptInv, KeptInRing
    <3>2. \A n \in AllNames : age'[n] = 0 \/ age'[n] = ring[n]
      BY <1>1, <2>1, <2>2 DEF FromRing
    <3>3. ~ageFile' => \A n \in AllNames : age'[n] = 0
      BY <1>1 DEF SecretInv, KeptInv
    <3>4. KeptInv'
      BY <1>0, <3>1, <3>2, <3>3 DEF KeptInv, KeptInAge, KeptInRing
    <3> QED BY <1>2, <1>3, <3>4 DEF SecretInv
  <2>3. CASE ~mig.fresh
    <3>1. Source' = "secret-service" /\ UNCHANGED <<age, ageFile>>
      BY <1>0, <1>1, <2>1, <2>3 DEF FromRing, Source, SelectedBackend
    <3> QED BY <1>0, <1>2, <1>3, <2>1, <3>1 DEF SecretInv, KeptInv, KeptInRing
  <2> QED BY <2>2, <2>3
<1> QED BY <1>0, <1>4, <1>5, <1>6 DEF Backends

LEMMA RingFlips == SecretInv /\ RingChanges => SecretInv'
<1> SUFFICES ASSUME SecretInv, RingChanges PROVE SecretInv'
  OBVIOUS
<1>1. UNCHANGED <<ring, index, age, ageFile, pin, mig, stored, keys>>
  BY DEF RingChanges
<1>2. SecretTypes'
  BY <1>1 DEF SecretInv, SecretTypes
<1>3. MigrationInv'
  BY <1>1 DEF SecretInv, MigrationInv, Copying, FromAge, FromRing, Deleting, Holds, To
<1>4. CASE Source' = Source
  BY <1>1, <1>2, <1>3, <1>4 DEF SecretInv, KeptInv, KeptInAge, KeptInRing
<1>5. CASE Source' # Source
  <2>1. ~ageFile
    BY <1>1, <1>5 DEF Source, SelectedBackend, Copying
  <2> QED BY <1>1, <1>2, <1>3, <2>1 DEF SecretInv, SecretTypes, KeptInv, KeptInAge, KeptInRing
<1> QED BY <1>4, <1>5

\* Steps of the migration on one name keep everything well typed.
LEMMA MigrationTypes ==
  ASSUME SecretInv, NEW n \in AllNames,
         MigrateCopy(n) \/ MigrateCopyFails(n) \/ MigrateDelete(n) \/ UndoOne(n)
  PROVE  SecretTypes'
<1>0. To \in Backends /\ mig.from \in Backends /\ \A b \in Backends : Holds(b, n) \in Nat
  BY SelectsOne DEF SecretInv, SecretTypes, Migrations, Holds
<1>1. UNCHANGED <<pin, stored, keys>>
  BY DEF MigrateCopy, MigrateCopyFails, MigrateDelete, UndoOne
<1>2. /\ ring' \in [AllNames -> Nat] /\ age' \in [AllNames -> Nat]
      /\ index' \subseteq AllNames /\ ageFile' \in BOOLEAN
  <2>1. CASE UNCHANGED <<ring, index, age, ageFile>>
    BY <2>1 DEF SecretInv, SecretTypes
  <2>2. CASE \E b \in Backends, v \in Nat, complete \in BOOLEAN :
               BackendSet(b, n, v, complete) \/ BackendDelete(b, n, complete)
    BY <2>2, BackendTypes DEF SecretInv
  <2>3. CASE MigrateCopy(n) \/ MigrateCopyFails(n)
    BY <1>0, <2>1, <2>2, <2>3 DEF MigrateCopy, MigrateCopyFails
  <2>4. CASE MigrateDelete(n)
    <3>1. \/ UNCHANGED <<ring, index, age, ageFile>>
          \/ \E complete \in BOOLEAN : BackendDelete(mig.from, n, complete)
      BY <2>4 DEF MigrateDelete
    <3> QED BY <1>0, <2>1, <2>2, <3>1
  <2>5. CASE UndoOne(n)
    <3>1. mig.previous[n] \in Nat
      BY DEF SecretInv, SecretTypes, Migrations
    <3>2. \/ UNCHANGED <<ring, index, age, ageFile>>
          \/ BackendSet(To, n, mig.previous[n], TRUE)
          \/ BackendDelete(To, n, TRUE)
      BY <2>5 DEF UndoOne
    <3> QED BY <1>0, <2>1, <2>2, <3>1, <3>2
  <2> QED BY <2>3, <2>4, <2>5
<1>3. mig' \in Migrations
  <2>1. CASE MigrateCopy(n)
    BY <1>0, <2>1, SelectsOne DEF MigrateCopy, SecretInv, SecretTypes, Migrations
  <2>2. CASE MigrateCopyFails(n)
    BY <1>0, <2>2, SelectsOne DEF MigrateCopyFails, SecretInv, SecretTypes, Migrations
  <2>3. CASE MigrateDelete(n)
    BY <2>3 DEF MigrateDelete, SecretInv, SecretTypes, Migrations
  <2>4. CASE UndoOne(n)
    BY <2>4 DEF UndoOne, SecretInv, SecretTypes, Migrations
  <2> QED BY <2>1, <2>2, <2>3, <2>4
<1> QED BY <1>1, <1>2, <1>3 DEF SecretInv, SecretTypes

LEMMA SecretStep == SecretInv /\ [SecretsNext]_secretVars => SecretInv'
<1> SUFFICES ASSUME SecretInv, [SecretsNext]_secretVars PROVE SecretInv'
  OBVIOUS
<1>1. CASE Serve
  BY <1>1, IdentityStep DEF Serve
<1>2. CASE Pair
  BY <1>2, IdentityStep DEF Pair
<1>3. ASSUME NEW n \in Names, SecretRm(n) \/ \E v \in Values : SecretSet(n, v) PROVE SecretInv'
  BY <1>3, CommandStep
<1>4. CASE MigrateBegin \/ MigrateEnd \/ UndoEnd \/ Killed
  BY <1>4, Begins, Ends
<1>5. CASE MigratePin
  <2>1. SecretTypes'
    BY <1>5 DEF MigratePin, SecretInv, SecretTypes, Migrations, To
  <2> QED BY <1>5, <2>1, Pins DEF SecretInv
<1>6. ASSUME NEW n \in AllNames,
             MigrateCopy(n) \/ MigrateCopyFails(n) \/ MigrateDelete(n) \/ UndoOne(n)
      PROVE  SecretInv'
  <2>1. SecretTypes'
    BY <1>6, MigrationTypes
  <2>2. mig' \in Migrations /\ mig.from \in Backends
    BY <2>1 DEF SecretTypes, SecretInv, Migrations
  <2>3. CASE MigrateCopy(n) \/ MigrateCopyFails(n)
    BY <2>1, <2>2, <2>3, CopiesFromAge, CopiesFromRing DEF SecretInv, Backends
  <2>4. CASE MigrateDelete(n) \/ UndoOne(n)
    BY <2>1, <2>4, Deletes, Undoes DEF SecretInv
  <2> QED BY <1>6, <2>3, <2>4
<1>7. CASE RingChanges
  BY <1>7, RingFlips
<1>8. CASE UNCHANGED secretVars
  <2>1. UNCHANGED <<ring, index, ringState, age, ageFile, pin, mig, stored, keys>>
    BY <1>8 DEF secretVars
  <2> QED BY <2>1 DEF SecretInv, SecretTypes, KeptInv, KeptInAge, KeptInRing, MigrationInv, FromAge, FromRing,
                      Deleting, Source, Copying, SelectedBackend, To, Holds
<1> QED BY <1>1, <1>2, <1>3, <1>4, <1>5, <1>6, <1>7, <1>8 DEF SecretsNext

(* The value last given to a name is still in the keyring or in the age      *)
(* file, for any number of names, commands and migrations that fail, are     *)
(* undone or killed, while the desktop locks the keyring (migrate.py).       *)
THEOREM SecretsKept == SecretsSpec => []NoSecretLost
<1>1. SecretsInit => SecretInv
  <2> SUFFICES ASSUME SecretsInit PROVE SecretInv
    OBVIOUS
  <2>1. SecretTypes
    BY DEF SecretsInit, SecretTypes, NoMig, Migrations, Backends
  <2>2. KeptInv
    BY DEF SecretsInit, KeptInv, KeptInAge, KeptInRing
  <2>3. mig.at = "none"
    BY DEF SecretsInit, NoMig
  <2> QED BY <2>1, <2>2, <2>3 DEF SecretInv, MigrationInv, Copying
<1>2. SecretInv => NoSecretLost
  BY DEF SecretInv, KeptInv, KeptInAge, KeptInRing, NoSecretLost
<1> QED BY <1>1, <1>2, SecretStep, PTL DEF SecretsSpec

-----------------------------------------------------------------------------
(* Conversations. What is stored in a turn's row, what its open drive has    *)
(* used and what the drives before it in this run have used is all it paid:  *)
(* a pause and an end move the last two into the row.                        *)

Memories == SUBSET (Facts \X Nat)
Messages ==
    [k : {"prompt"}, full : BOOLEAN, lines : Memories, removed : Memories,
     snap : Memories \cup {NoSnap}]
      \cup [k : {"response", "return"}, calls : SUBSET Nat, cap : BOOLEAN]
Usages == [n : Nat, source : {"none", "priced", "unknown"}]

ConvTypeOK ==
    /\ fact \in [Facts -> Int] /\ turnNo \in Nat
    /\ cPhase \in {"idle", "ready", "sent", "ended", "waiting"}
    /\ hist \in Seq(Messages) /\ ckpt \in Seq(Messages) /\ run \in Seq(Messages)
    /\ shown \in Memories /\ told \in Memories
    /\ usage \in Usages /\ drive \in [spent : Usages, n : Nat] /\ paid \in Nat
    /\ lostDrive \in BOOLEAN

(* The requests of the open turn that are charged or will be.               *)
Counted == usage.n + drive.spent.n + drive.n

(* Usage that was never recorded counts nothing, and what auto-approved       *)
(* drives spent is priced.                                                   *)
UsageInv ==
    /\ usage.source = "none" => usage.n = 0
    /\ drive.spent.source # "unknown" /\ (drive.spent.source = "none" => drive.spent.n = 0)
    /\ cPhase # "idle" => run # <<>> /\ (ckpt = <<>> => usage = NoUsage /\ ~lostDrive)
    /\ cPhase \in {"ready", "sent", "ended"} /\ usage.source # "unknown" /\ ~lostDrive
           => Counted = paid
    /\ ckpt # <<>> => usage.source # "none"
    /\ cPhase = "waiting" => ckpt # <<>>

PricedInv == ConvTypeOK /\ UsageInv /\ PricedIsWhole

-----------------------------------------------------------------------------
(* The newest of some places in a history is one of them.                    *)
LEMMA NewestPlace ==
    ASSUME NEW S, NEW s \in Seq(S), NEW T, T \subseteq DOMAIN s, T # {}
    PROVE  Max(T) \in T
<1>1. Len(s) \in Nat /\ DOMAIN s = 1..Len(s)
  BY LenProperties
<1>2. T \subseteq 0..Len(s)
  BY <1>1
<1>3. \E x \in T : \A y \in T : y <= x
  BY <1>1, <1>2, GreatestElement
<1>4. Max(T) = CHOOSE x \in T : \A y \in T : x >= y
  BY DEF Max
<1>5. \E x \in T : \A y \in T : x >= y
  BY <1>1, <1>3
<1> QED
  BY <1>4, <1>5

LEMMA CurrentType == ASSUME fact \in [Facts -> Int] PROVE Current \in Memories
<1> SUFFICES ASSUME NEW m \in Facts, fact[m] > 0 PROVE <<m, fact[m]>> \in Facts \X Nat
  BY DEF Current, Memories
<1> QED
  OBVIOUS

LEMMA MessageTypes ==
    /\ \A full \in BOOLEAN, lines, removed \in Memories : Prompt(full, lines, removed) \in Messages
    /\ \A calls \in SUBSET Nat, cap \in BOOLEAN :
           Response(calls, cap) \in Messages /\ Return(calls, cap) \in Messages
    /\ PlainPrompt \in Messages /\ Summary \in Messages
BY DEF Prompt, Response, Return, PlainPrompt, Summary, Messages, Memories

LEMMA RetainedType ==
    ASSUME NEW messages \in Seq(Messages), RetainedSnapshot(messages) # NoSnap
    PROVE  RetainedSnapshot(messages) \in Memories
<1> DEFINE with == {i \in DOMAIN messages : messages[i].k = "prompt"
                                              /\ messages[i].snap # NoSnap}
<1>1. with # {}
  BY DEF RetainedSnapshot
<1>2. Max(with) \in with
  BY <1>1, NewestPlace
<1>3. RetainedSnapshot(messages) = messages[Max(with)].snap
  BY <1>1 DEF RetainedSnapshot
<1> DEFINE i == Max(with)
<1> HIDE DEF i
<1>4. i \in DOMAIN messages /\ messages[i].k = "prompt" /\ RetainedSnapshot(messages) = messages[i].snap
  BY <1>2, <1>3 DEF i
<1>5. messages[i] \in Messages
  BY <1>4, ElementOfSeq, LenProperties
<1>6. messages[i].snap \in Memories \cup {NoSnap}
  BY <1>4, <1>5 DEF Messages
<1> QED
  BY <1>4, <1>6

LEMMA WithMemoriesType ==
    ASSUME fact \in [Facts -> Int], NEW messages \in Seq(Messages)
    PROVE  WithMemories(messages) \in Messages
<1>1. Current \in Memories
  BY CurrentType
<1>2. ASSUME NEW prior \in BOOLEAN, NEW baseline \in Memories
      PROVE  UserBlock(prior, baseline) \in Messages
  <2>1. Current \ baseline \in Memories /\ (Current # {}) \in BOOLEAN
    BY <1>1 DEF Memories
  <2>2. {p \in baseline : \A q \in Current : q[1] # p[1]} \in Memories
    BY <1>2 DEF Memories
  <2> QED
    <3>1. {} \in Memories
      BY DEF Memories
    <3>2. CASE prior
      BY <2>1, <2>2, <3>2, MessageTypes DEF UserBlock
    <3>3. CASE ~prior
      BY <1>1, <2>1, <3>1, <3>3, MessageTypes DEF UserBlock
    <3> QED BY <3>2, <3>3
<1>3. {} \in Memories
  BY DEF Memories
<1> QED
  BY <1>1, <1>2, <1>3, RetainedType, MessageTypes DEF WithMemories

LEMMA RetainType ==
    ASSUME NEW messages \in Seq(Messages), NEW snap \in Memories
    PROVE  /\ RetainSnapshot(messages, snap) \in Seq(Messages)
           /\ messages # <<>> => RetainSnapshot(messages, snap) # <<>>
<1> DEFINE prompts == {i \in DOMAIN messages : messages[i].k = "prompt"}
<1>1. CASE prompts = {}
  BY <1>1 DEF RetainSnapshot
<1>2. CASE prompts # {}
  <2>1. Max(prompts) \in prompts
    BY <1>2, NewestPlace
  <2>2. PICK i \in DOMAIN messages : messages[i].k = "prompt" /\ i = Max(prompts)
    BY <2>1
  <2>3. RetainSnapshot(messages, snap) = [messages EXCEPT ![i].snap = snap]
    BY <1>2, <2>2 DEF RetainSnapshot
  <2>4. messages[i] \in Messages /\ i \in 1..Len(messages)
    BY <2>2, ElementOfSeq, LenProperties
  <2>5. [messages[i] EXCEPT !.snap = snap] \in Messages
    BY <2>2, <2>4 DEF Messages
  <2>6. [messages EXCEPT ![i].snap = snap] = [messages EXCEPT ![i] = [messages[i] EXCEPT !.snap = snap]]
    OBVIOUS
  <2>7. /\ [messages EXCEPT ![i] = [messages[i] EXCEPT !.snap = snap]] \in Seq(Messages)
        /\ Len([messages EXCEPT ![i] = [messages[i] EXCEPT !.snap = snap]]) = Len(messages)
    BY <2>4, <2>5, ExceptSeq
  <2> QED
    BY <2>3, <2>4, <2>6, <2>7, EmptySeq
<1> QED
  BY <1>1, <1>2

LEMMA OpenCallsType ==
    ASSUME NEW messages \in Seq(Messages), messages # <<>>
    PROVE  OpenCalls(messages) \in SUBSET Nat
<1>1. Len(messages) \in 1..Len(messages) /\ Last(messages) = messages[Len(messages)]
  BY LenProperties, EmptySeq DEF Last
<1>2. Last(messages) \in Messages
  BY <1>1, ElementOfSeq
<1> QED
  BY <1>2 DEF OpenCalls, Messages

LEMMA CombineType ==
    ASSUME NEW old \in Usages, NEW new \in Usages
    PROVE  Combine(old, new) \in Usages
BY DEF Combine, Usages

LEMMA NoUsageType == NoUsage \in Usages /\ InterruptedUsage \in Usages /\ \A n \in Nat : Priced(n) \in Usages
BY DEF NoUsage, InterruptedUsage, Priced, Usages

LEMMA OutcomeType ==
    ASSUME ConvTypeOK PROVE Outcome \in Seq(Messages) /\ (run # <<>> => Outcome # <<>>)
BY RetainType DEF ConvTypeOK, Outcome

(* What the arithmetic of the steps needs of combine.                        *)
LEMMA CombineCounts ==
    ASSUME NEW old \in Usages, NEW new \in Usages,
           old.source = "none" => old.n = 0, new.source = "none" => new.n = 0
    PROVE  /\ Combine(old, new).n = old.n + new.n
           /\ Combine(old, new).source = "unknown"
                 <=> "unknown" \in {old.source, new.source}
           /\ Combine(old, new).source = "none"
                 <=> old.source = "none" /\ new.source = "none"
BY DEF Combine, Usages

(* A drive that is over is priced, with everything the drives before it spent. *)
LEMMA DriveUsagePriced ==
    ASSUME ConvTypeOK, UsageInv
    PROVE  /\ DriveUsage \in Usages /\ DriveUsage.source = "priced"
           /\ DriveUsage.n = drive.spent.n + drive.n
<1>1. drive.spent \in Usages /\ drive.n \in Nat
  BY DEF ConvTypeOK
<1>2. Priced(drive.n) \in Usages /\ Priced(drive.n).source = "priced" /\ Priced(drive.n).n = drive.n
  BY <1>1 DEF Priced, Usages
<1>3. DriveUsage \in Usages
  BY <1>1, <1>2, CombineType DEF DriveUsage
<1>4. DriveUsage.n = drive.spent.n + drive.n /\ DriveUsage.source \notin {"none", "unknown"}
  BY <1>1, <1>2, CombineCounts DEF DriveUsage, UsageInv
<1> QED
  BY <1>3, <1>4 DEF Usages

LEMMA PricedInit == ConvInit => PricedInv
<1> SUFFICES ASSUME ConvInit PROVE PricedInv
  OBVIOUS
<1>1. ASSUME NEW m \in Facts PROVE <<Legacy(m), Summary>> \in Seq(Messages)
  <2>1. {<<m, 1>>} \in Memories /\ {} \in Memories
    BY DEF Memories
  <2>2. Legacy(m) \in Messages /\ Summary \in Messages
    BY <2>1, MessageTypes DEF Legacy
  <2> QED
    BY <2>2
<1>2. <<>> \in Seq(Messages)
  OBVIOUS
<1>5. hist \in Seq(Messages) /\ ckpt \in Seq(Messages) /\ run \in Seq(Messages)
  <2>1. hist = <<>> \/ \E m \in Facts : hist = <<Legacy(m), Summary>>
    BY DEF ConvInit
  <2> QED
    BY <1>1, <1>2, <2>1 DEF ConvInit
<1>6. fact \in [Facts -> Int] /\ {} \in Memories
  BY DEF ConvInit, Memories
<1>3. NoUsage \in Usages /\ drive \in [spent : Usages, n : Nat] /\ drive.spent = NoUsage
  BY NoUsageType DEF ConvInit
<1>4. ConvTypeOK
  BY <1>3, <1>5, <1>6 DEF ConvInit, ConvTypeOK
<1> QED
  BY <1>3, <1>4 DEF ConvInit, PricedInv, UsageInv, PricedIsWhole, NoUsage

LEMMA PricedStep == PricedInv /\ [ConvNext]_cVars => PricedInv'
<1> SUFFICES ASSUME PricedInv, [ConvNext]_cVars PROVE PricedInv'
  OBVIOUS
<1> USE DEF PricedInv
<1>a. ASSUME UNCHANGED <<turnNo, cPhase, hist, ckpt, run, shown, told, usage, drive, paid, lostDrive>>,
             fact' \in [Facts -> Int]
      PROVE  PricedInv'
  BY <1>a DEF ConvTypeOK, UsageInv, PricedIsWhole, Counted
<1>b. ASSUME Forget, cPhase' = "idle", ckpt' = <<>>,
             UNCHANGED <<fact, turnNo, shown, told, paid>>,
             hist' \in Seq(Messages), usage' \in Usages, lostDrive' \in BOOLEAN,
             usage'.source = "none" => usage'.n = 0,
             usage'.source = "priced" /\ ~lostDrive' => usage'.n = paid
      PROVE  PricedInv'
  <2>1. run' = <<>> /\ drive' = [spent |-> NoUsage, n |-> 0] /\ NoUsage \in Usages
    BY <1>b, NoUsageType DEF Forget
  <2>2. ConvTypeOK'
    BY <1>b, <2>1 DEF ConvTypeOK
  <2> QED
    BY <1>b, <2>1, <2>2 DEF UsageInv, PricedIsWhole, NoUsage
<1>1. CASE FactChanges
  <2>1. fact' \in [Facts -> Int]
    BY <1>1 DEF FactChanges, ConvTypeOK
  <2> QED
    BY <1>1, <1>a, <2>1 DEF FactChanges
<1>2. CASE BeginTurn
  <2>1. WithMemories(hist) \in Messages /\ Current \in Memories
    BY WithMemoriesType, CurrentType DEF ConvTypeOK
  <2>2. run' \in Seq(Messages) /\ run' # <<>>
    BY <1>2, <2>1, AppendProperties, EmptySeq DEF BeginTurn, ConvTypeOK
  <2>3. /\ drive' = [spent |-> NoUsage, n |-> 0] /\ usage' = NoUsage /\ NoUsage \in Usages
        /\ NoUsage.n = 0 /\ NoUsage.source = "none"
    BY <1>2, NoUsageType DEF BeginTurn, NoUsage
  <2>4. ConvTypeOK'
    <3>1. <<>> \in Seq(Messages)
      OBVIOUS
    <3>2. /\ ckpt' = <<>> /\ shown' = Current /\ told' = Current /\ cPhase' = "ready"
          /\ lostDrive' = FALSE /\ paid' = 0 /\ turnNo' = turnNo + 1 /\ UNCHANGED <<fact, hist>>
      BY <1>2 DEF BeginTurn
    <3>3. drive' \in [spent : Usages, n : Nat] /\ usage' \in Usages
      BY <2>3
    <3>4. shown' \in Memories /\ told' \in Memories /\ run' \in Seq(Messages) /\ ckpt' \in Seq(Messages)
      BY <2>1, <2>2, <3>1, <3>2
    <3>5. fact' \in [Facts -> Int] /\ hist' \in Seq(Messages) /\ turnNo' \in Nat
      BY <3>2 DEF ConvTypeOK
    <3> QED
      BY <3>2, <3>3, <3>4, <3>5 DEF ConvTypeOK
  <2> QED
    BY <1>2, <2>2, <2>3, <2>4 DEF BeginTurn, UsageInv, PricedIsWhole, Counted
<1>3. CASE Steer
  <2>1. run' \in Seq(Messages) /\ run' # <<>>
    BY <1>3, MessageTypes, AppendProperties, EmptySeq DEF Steer, ConvTypeOK
  <2>2. ConvTypeOK'
    BY <1>3, <2>1 DEF Steer, ConvTypeOK
  <2> QED
    BY <1>3, <2>1, <2>2 DEF Steer, UsageInv, PricedIsWhole, Counted
<1>4. CASE SendRequest
  <2>1. PICK side \in {0, 1} : drive' = [drive EXCEPT !.n = @ + 1 + side] /\ paid' = paid + 1 + side
    BY <1>4 DEF SendRequest
  <2>2. /\ drive' \in [spent : Usages, n : Nat] /\ drive'.spent = drive.spent
        /\ drive'.n = drive.n + 1 + side /\ paid' \in Nat
    <3>1. drive \in [spent : Usages, n : Nat] /\ paid \in Nat /\ side \in Nat
      BY DEF ConvTypeOK
    <3>2. drive.n + 1 + side \in Nat /\ paid + 1 + side \in Nat
      BY <3>1
    <3> QED
      BY <2>1, <3>1, <3>2
  <2>3. ConvTypeOK'
    BY <1>4, <2>2 DEF SendRequest, ConvTypeOK
  <2>4. usage.n \in Nat /\ drive.spent.n \in Nat /\ drive.n \in Nat /\ paid \in Nat
    BY DEF ConvTypeOK, Usages
  <2>5. cPhase = "ready" /\ cPhase' = "sent" /\ UNCHANGED <<run, ckpt, usage, lostDrive>>
    BY <1>4 DEF SendRequest
  <2>6. Counted = paid => Counted' = paid'
    BY <2>1, <2>2, <2>4, <2>5 DEF Counted
  <2> QED
    BY <2>2, <2>3, <2>5, <2>6 DEF UsageInv, PricedIsWhole
<1>5. CASE ModelAnswers
  <2>1. Len(run) \in Nat /\ run # <<>>
    BY <1>5, LenProperties DEF ModelAnswers, ConvTypeOK, UsageInv
  <2>2. {Len(run) + 1} \in SUBSET Nat
    BY <2>1
  <2>3. \A cap \in BOOLEAN : /\ Response({Len(run) + 1}, cap) \in Messages
                             /\ Return({Len(run) + 1}, cap) \in Messages
    BY <2>2, MessageTypes
  <2>4. run' \in Seq(Messages) /\ run' # <<>>
    <3>1. ASSUME NEW m \in Messages PROVE Append(run, m) \in Seq(Messages) /\ Append(run, m) # <<>>
      <4>1. run \in Seq(Messages)
        BY DEF ConvTypeOK
      <4> QED
        BY <4>1, AppendProperties
    <3>2. ASSUME NEW m \in Messages, NEW n \in Messages
          PROVE  run \o <<m, n>> \in Seq(Messages) /\ run \o <<m, n>> # <<>>
      <4>1. <<m, n>> \in Seq(Messages) /\ Len(<<m, n>>) = 2
        BY <3>2
      <4> QED
        BY <2>1, <4>1, ConcatProperties, EmptySeq DEF ConvTypeOK
    <3>3. CASE run' = Append(run, Summary)
      BY <3>1, <3>3, MessageTypes
    <3>4. CASE run' = Append(run, Response({Len(run) + 1}, FALSE))
      BY <2>3, <3>1, <3>4
    <3>5. CASE \E cap \in BOOLEAN : run' = run \o <<Response({Len(run) + 1}, cap), Return({Len(run) + 1}, cap)>>
      BY <2>3, <3>2, <3>5
    <3> QED
      BY <1>5, <3>3, <3>4, <3>5 DEF ModelAnswers
  <2>5. /\ cPhase = "sent" /\ cPhase' \in {"ready", "ended"}
        /\ UNCHANGED <<fact, turnNo, hist, ckpt, shown, told, usage, drive, paid, lostDrive>>
    BY <1>5 DEF ModelAnswers
  <2>6. ConvTypeOK'
    BY <2>4, <2>5 DEF ConvTypeOK
  <2> QED
    BY <2>4, <2>5, <2>6 DEF UsageInv, PricedIsWhole, Counted
<1>6. CASE AutoApprove
  <2>1. cPhase = "ended" /\ run # <<>> /\ Outcome \in Seq(Messages) /\ OpenCalls(run) \in SUBSET Nat
    BY <1>6, OutcomeType, OpenCallsType DEF AutoApprove, UsageInv, ConvTypeOK
  <2>2. run' \in Seq(Messages) /\ run' # <<>>
    <3> DEFINE back == Return(OpenCalls(run), FALSE)
    <3>1. run' = Append(Outcome, back) /\ back \in Messages
      BY <1>6, <2>1, MessageTypes DEF AutoApprove
    <3> HIDE DEF back
    <3> QED
      BY <2>1, <3>1, AppendProperties
  <2>3. /\ drive' = [spent |-> DriveUsage, n |-> 0] /\ cPhase' = "ready"
        /\ UNCHANGED <<fact, turnNo, hist, ckpt, shown, told, usage, paid, lostDrive>>
    BY <1>6 DEF AutoApprove
  <2>4. ConvTypeOK'
    BY <2>2, <2>3, DriveUsagePriced DEF ConvTypeOK
  <2>5. Counted' = Counted
    BY <2>3, DriveUsagePriced DEF Counted, ConvTypeOK, Usages
  <2> QED
    BY <2>1, <2>2, <2>3, <2>4, <2>5, DriveUsagePriced DEF UsageInv, PricedIsWhole
<1>7. ASSUME cPhase = "ended"
      PROVE  /\ Outcome \in Seq(Messages) /\ Outcome # <<>>
             /\ Combine(usage, DriveUsage) \in Usages
             /\ Combine(usage, DriveUsage).source # "none"
             /\ Combine(usage, DriveUsage).source = "priced" /\ ~lostDrive
                   => Combine(usage, DriveUsage).n = paid
  <2>1. Outcome \in Seq(Messages) /\ Outcome # <<>>
    BY <1>7, OutcomeType DEF UsageInv
  <2>2. usage \in Usages /\ DriveUsage \in Usages /\ DriveUsage.source = "priced"
    BY DriveUsagePriced DEF ConvTypeOK
  <2>3. Combine(usage, DriveUsage).n = usage.n + DriveUsage.n
    BY <2>2, CombineCounts DEF UsageInv
  <2>4. Combine(usage, DriveUsage).source # "none"
    BY <2>2, CombineCounts DEF UsageInv
  <2>5. Combine(usage, DriveUsage).source = "priced" => usage.source # "unknown"
    BY <2>2, CombineCounts DEF UsageInv
  <2>6. usage.n + DriveUsage.n = Counted
    BY DriveUsagePriced DEF Counted, ConvTypeOK, Usages
  <2>7. usage.source # "unknown" /\ ~lostDrive => Counted = paid
    BY <1>7 DEF UsageInv
  <2> QED
    BY <2>1, <2>2, <2>3, <2>4, <2>5, <2>6, <2>7, CombineType
<1>8. CASE Pause
  <2>1. /\ cPhase' = "waiting" /\ ckpt' = Outcome /\ usage' = Combine(usage, DriveUsage)
        /\ UNCHANGED <<fact, turnNo, hist, run, shown, told, drive, paid, lostDrive>>
    BY <1>8 DEF Pause
  <2>2. cPhase = "ended"
    BY <1>8 DEF Pause
  <2>3. ConvTypeOK'
    BY <1>7, <2>1, <2>2 DEF ConvTypeOK
  <2> QED
    BY <1>7, <2>1, <2>2, <2>3 DEF UsageInv, PricedIsWhole
<1>9. CASE Done
  BY <1>7, <1>9, <1>b DEF Done, Forget, ConvTypeOK
<1>10. CASE ResumeDrive
  <2>1. cPhase = "waiting" /\ ckpt # <<>>
    BY <1>10 DEF ResumeDrive, UsageInv
  <2>2. OpenCalls(ckpt) \in SUBSET Nat
    BY <2>1, OpenCallsType DEF ConvTypeOK
  <2>3. run' \in Seq(Messages) /\ run' # <<>>
    <3>1. Return(OpenCalls(ckpt), FALSE) \in Messages /\ ckpt \in Seq(Messages)
      BY <2>2, MessageTypes DEF ConvTypeOK
    <3>2. run' = Append(ckpt, Return(OpenCalls(ckpt), FALSE))
      BY <1>10 DEF ResumeDrive
    <3>3. ASSUME NEW m \in Messages
          PROVE  Append(ckpt, m) \in Seq(Messages) /\ Append(ckpt, m) # <<>>
      BY <3>1, AppendProperties, EmptySeq
    <3> QED
      BY <3>1, <3>2, <3>3
  <2>4. /\ drive' = [spent |-> NoUsage, n |-> 0] /\ cPhase' = "ready"
        /\ UNCHANGED <<fact, turnNo, hist, ckpt, shown, told, usage, paid, lostDrive>>
    BY <1>10 DEF ResumeDrive
  <2>5. NoUsage \in Usages /\ NoUsage.n = 0 /\ NoUsage.source = "none"
    BY NoUsageType DEF NoUsage
  <2>6. ConvTypeOK'
    BY <2>3, <2>4, <2>5 DEF ConvTypeOK
  <2>7. usage.source # "unknown" /\ ~lostDrive => usage.n = paid
    BY <2>1 DEF UsageInv, PricedIsWhole, ConvTypeOK, Usages
  <2>8. usage.n \in Nat
    BY DEF ConvTypeOK, Usages
  <2>9. Counted' = usage.n
    BY <2>4, <2>5, <2>8 DEF Counted
  <2> QED
    BY <2>1, <2>3, <2>4, <2>5, <2>6, <2>7, <2>9 DEF UsageInv, PricedIsWhole
<1>11. CASE DriveStops
  <2>1. Combine(drive.spent, InterruptedUsage) \in Usages
        /\ Combine(drive.spent, InterruptedUsage).source = "unknown"
    <3>1. InterruptedUsage \in Usages /\ InterruptedUsage.n = 0 /\ InterruptedUsage.source = "unknown"
      BY NoUsageType DEF InterruptedUsage
    <3>2. drive.spent \in Usages /\ (drive.spent.source = "none" => drive.spent.n = 0)
      BY DEF ConvTypeOK, UsageInv
    <3> HIDE DEF InterruptedUsage
    <3> QED
      BY <3>1, <3>2, CombineType, CombineCounts
  <2>2. usage' \in Usages /\ usage'.source = "unknown"
    BY <1>11, <2>1, CombineType, CombineCounts DEF DriveStops, ConvTypeOK, UsageInv
  <2> QED
    BY <1>11, <1>b, <2>2 DEF DriveStops, Forget, ConvTypeOK
<1>12. CASE CancelPaused
  BY <1>12, <1>b DEF CancelPaused, Forget, ConvTypeOK, UsageInv, PricedIsWhole
<1>13. CASE HostRestarts
  <2>1. shown' = {} /\ {} \in Memories
    BY <1>13 DEF HostRestarts, Memories
  <2>2. CASE ckpt = <<>>
    <3>1. /\ cPhase' = "idle" /\ Forget
          /\ UNCHANGED <<fact, turnNo, hist, told, usage, paid, lostDrive>>
      BY <1>13, <2>2 DEF HostRestarts
    <3>2. usage = NoUsage /\ usage \in Usages
      BY <1>13, <2>2 DEF HostRestarts, UsageInv, ConvTypeOK
    <3>3. run' = <<>> /\ ckpt' = <<>> /\ drive' = [spent |-> NoUsage, n |-> 0] /\ NoUsage \in Usages
      BY <3>1, NoUsageType DEF Forget
    <3>4. ConvTypeOK'
      BY <2>1, <3>1, <3>3 DEF ConvTypeOK
    <3> QED
      BY <3>1, <3>2, <3>3, <3>4 DEF UsageInv, PricedIsWhole, NoUsage
  <2>3. CASE ckpt # <<>>
    <3>1. /\ cPhase' = "waiting" /\ lostDrive' = (lostDrive \/ cPhase # "waiting")
          /\ UNCHANGED <<fact, turnNo, hist, ckpt, run, drive, told, usage, paid>>
      BY <1>13, <2>3 DEF HostRestarts
    <3>2. ConvTypeOK'
      BY <2>1, <3>1 DEF ConvTypeOK
    <3> QED
      BY <1>13, <2>3, <3>1, <3>2 DEF HostRestarts, UsageInv, PricedIsWhole
  <2> QED
    BY <2>2, <2>3
<1>14. CASE UNCHANGED cVars
  BY <1>14, <1>a DEF cVars, ConvTypeOK
<1> QED
  BY <1>1, <1>2, <1>3, <1>4, <1>5, <1>6, <1>8, <1>9, <1>10, <1>11, <1>12, <1>13, <1>14 DEF ConvNext

(* A turn whose cost is known is charged for every request it made, for any  *)
(* number of turns, requests, pauses, auto-approvals, failures and restarts  *)
(* (interrupted_usage, combine, _persist_waiting, _persist_done).            *)
THEOREM CostIsWhole == ConvSpec => []PricedIsWhole
<1>1. PricedInv => PricedIsWhole
  BY DEF PricedInv
<1> QED
  BY <1>1, PricedInit, PricedStep, PTL DEF ConvSpec

(* The memories that a model takes from messages that it reads in order.      *)
NoMemories == {}
View(messages) == FoldLeft(ReadBlock, {}, messages)

LEMMA ReadTyped ==
    ASSUME NEW v \in Memories, NEW m \in Messages
    PROVE  ReadBlock(v, m) \in Memories
BY DEF ReadBlock, Messages, Memories

LEMMA ViewPrefixes ==
    ASSUME NEW messages \in Seq(Messages)
    PROVE  \E h \in [0..Len(messages) -> Memories] :
              /\ h[0] = NoMemories /\ View(messages) = h[Len(messages)]
              /\ \A k \in 1..Len(messages) : h[k] = ReadBlock(h[k - 1], messages[k])
<1> DEFINE n == Len(messages)
           Eq(g) == g = [s \in SUBSET (DOMAIN messages) |->
                           IF s = {} THEN NoMemories ELSE ReadBlock(g[s \ {Max(s)}], messages[Max(s)])]
           iter == CHOOSE g : Eq(g)
           take == [x \in 1..n |-> [v \in Memories |-> ReadBlock(v, messages[x])]]
<1>1. n \in Nat /\ DOMAIN messages = 1..n /\ \A x \in 1..n : messages[x] \in Messages
  BY LenProperties, ElementOfSeq
<1>2. View(messages) = iter[1..n]
  BY <1>1 DEF View, FoldLeft, MapThenFoldSet, NoMemories
<1>3. \A x \in 1..n : \A v \in Memories : /\ take[x][v] \in Memories
                                         /\ take[x][v] = ReadBlock(v, messages[x])
  BY <1>1, ReadTyped
<1>4. NoMemories \in Memories
  BY DEF Memories, NoMemories
<1> HIDE DEF take
<1>5. Eq(iter)
  <2>1. Takes(n, Memories, NoMemories, take)
    BY <1>3, <1>4 DEF Takes
  <2> HIDE DEF n
  <2>2. PICK f : Folded(f, n, Memories, NoMemories, take)
    BY <1>1, <2>1, FoldOfPlaces
  <2>3. /\ f \in [SUBSET (1..n) -> Memories] /\ f[{}] = NoMemories
        /\ \A s \in SUBSET (1..n) : s # {} => /\ Max(s) \in 1..n
                                              /\ f[s] = take[Max(s)][f[s \ {Max(s)}]]
    BY <2>2 DEF Folded
  <2>4. ASSUME NEW s \in SUBSET (1..n), s # {}
        PROVE  f[s] = ReadBlock(f[s \ {Max(s)}], messages[Max(s)])
    <3>1. s \ {Max(s)} \in SUBSET (1..n)
      OBVIOUS
    <3>2. f[s \ {Max(s)}] \in Memories
      BY <2>3, <3>1
    <3> QED
      BY <1>3, <2>3, <2>4, <3>2
  <2>5. Eq(f)
    BY <1>1, <2>3, <2>4
  <2> HIDE DEF Eq
  <2> QED
    BY <2>5
<1> HIDE DEF iter
<1>6. Follows(iter, n, Memories, NoMemories, take)
  <2>1. iter[{}] = NoMemories
    BY <1>1, <1>5
  <2>2. ASSUME NEW s \in SUBSET (1..n), s # {}, iter[s \ {Max(s)}] \in Memories
        PROVE  iter[s] = take[Max(s)][iter[s \ {Max(s)}]]
    <3>1. Max(s) \in 1..n
      BY <1>1, <2>2, LastPlace
    <3>2. iter[s] = ReadBlock(iter[s \ {Max(s)}], messages[Max(s)])
      BY <1>1, <1>5, <2>2
    <3> QED
      BY <1>3, <2>2, <3>1, <3>2
  <2> QED
    BY <2>1, <2>2 DEF Follows
<1>7. Takes(n, Memories, NoMemories, take)
  BY <1>3, <1>4 DEF Takes
<1> HIDE DEF n
<1>8. PICK h \in [0..n -> Memories] :
          /\ h[0] = NoMemories /\ iter[1..n] = h[n]
          /\ \A k \in 1..n : h[k] = take[k][h[k - 1]]
  BY <1>1, <1>6, <1>7, FoldChain
<1>9. ASSUME NEW k \in 1..n PROVE h[k] = ReadBlock(h[k - 1], messages[k])
  <2>1. h[k - 1] \in Memories
    BY <1>1, <1>8
  <2> QED
    BY <1>3, <1>8, <2>1
<1> QED
  BY <1>2, <1>8, <1>9 DEF n

LEMMA ViewBegins == View(<<>>) = NoMemories
<1>1. <<>> \in Seq(Messages) /\ Len(<<>>) = 0
  BY EmptySeq
<1> QED
  BY <1>1, ViewPrefixes

(* Messages that read the same leave the same view.                           *)
LEMMA ViewSame ==
    ASSUME NEW a \in Seq(Messages), NEW b \in Seq(Messages), Len(a) = Len(b),
           \A k \in 1..Len(a) : \A v \in Memories : ReadBlock(v, a[k]) = ReadBlock(v, b[k])
    PROVE  View(a) = View(b)
<1>1. PICK g \in [0..Len(a) -> Memories] :
         /\ g[0] = NoMemories /\ View(a) = g[Len(a)]
         /\ \A k \in 1..Len(a) : g[k] = ReadBlock(g[k - 1], a[k])
  BY ViewPrefixes
<1>2. PICK h \in [0..Len(b) -> Memories] :
         /\ h[0] = NoMemories /\ View(b) = h[Len(b)]
         /\ \A k \in 1..Len(b) : h[k] = ReadBlock(h[k - 1], b[k])
  BY ViewPrefixes
<1> DEFINE n == Len(a)
           T == {k \in 0..n : g[k] = h[k]}
<1>3. n \in Nat
  BY LenProperties
<1>4. 0 \in T
  BY <1>1, <1>2, <1>3
<1>5. ASSUME NEW k \in T, k \in 0..n - 1 PROVE k + 1 \in T
  <2>1. k + 1 \in 1..n /\ k + 1 - 1 = k /\ k \in 0..n /\ g[k] = h[k] /\ g[k] \in Memories
    BY <1>1, <1>3, <1>5
  <2>2. g[k + 1] = ReadBlock(g[k], a[k + 1]) /\ h[k + 1] = ReadBlock(h[k], b[k + 1])
    BY <1>1, <1>2, <2>1
  <2>3. g[k + 1] = h[k + 1]
    BY <2>1, <2>2
  <2> QED
    BY <1>3, <2>1, <2>3
<1>6. 0..n \subseteq T
  <2> HIDE DEF T
  <2> QED
    BY <1>3, <1>4, <1>5, UpTo
<1> QED
  BY <1>1, <1>2, <1>3, <1>6

LEMMA ViewGrows ==
    ASSUME NEW messages \in Seq(Messages), NEW m \in Messages
    PROVE  /\ View(messages) \in Memories
           /\ View(Append(messages, m)) = ReadBlock(View(messages), m)
<1> DEFINE more == Append(messages, m)
           n == Len(messages)
<1>1. /\ more \in Seq(Messages) /\ Len(more) = n + 1 /\ n \in Nat /\ more[n + 1] = m
      /\ \A k \in 1..n : more[k] = messages[k]
  BY AppendProperties, LenProperties
<1> HIDE DEF more
<1>2. PICK h \in [0..n -> Memories] :
         /\ h[0] = NoMemories /\ View(messages) = h[n]
         /\ \A k \in 1..n : h[k] = ReadBlock(h[k - 1], messages[k])
  BY ViewPrefixes
<1>a. PICK g \in [0..Len(more) -> Memories] :
         /\ g[0] = NoMemories /\ View(more) = g[Len(more)]
         /\ \A k \in 1..Len(more) : g[k] = ReadBlock(g[k - 1], more[k])
  BY <1>1, ViewPrefixes
<1>3. /\ g[0] = NoMemories /\ View(more) = g[n + 1]
      /\ \A k \in 1..n + 1 : g[k] = ReadBlock(g[k - 1], more[k])
  BY <1>1, <1>a
<1> DEFINE T == {k \in 0..n : g[k] = h[k]}
<1>4. 0 \in T
  BY <1>1, <1>2, <1>3
<1>5. ASSUME NEW k \in T, k \in 0..n - 1 PROVE k + 1 \in T
  <2>1. k + 1 \in 1..n /\ k + 1 - 1 = k
    BY <1>1, <1>5
  <2> QED
    BY <1>1, <1>2, <1>3, <2>1
<1>6. 0..n \subseteq T
  <2> HIDE DEF T
  <2> QED
    BY <1>1, <1>4, <1>5, UpTo
<1>7. g[n] = h[n] /\ g[n + 1] = ReadBlock(g[n], m)
  BY <1>1, <1>3, <1>6
<1> QED
  BY <1>1, <1>2, <1>3, <1>7 DEF more

(* What was stored once: a revision for each memory.                          *)
Once(S) == \A p, q \in S : p[1] = q[1] => p = q
Snapshots == {S \in SUBSET (Facts \X (1 .. MaxFactRev)) : Once(S)}

(* A response has at most its own place as a call. A return's calls are there, *)
(* and if the return is kept by a compaction, so are they.                     *)
PairedAt(messages, i) ==
  /\ messages[i].k = "response" => messages[i].calls \subseteq {i}
  /\ messages[i].k = "return" => \A c \in messages[i].calls :
        /\ c \in 1..i - 1 /\ messages[c].k = "response" /\ c \in messages[c].calls
        /\ messages[i].cap => messages[c].cap
Paired(messages) == \A i \in 1..Len(messages) : PairedAt(messages, i)

Prompted(messages) == \E i \in 1..Len(messages) : messages[i].k = "prompt"

LEMMA PairedGrows ==
    ASSUME NEW messages \in Seq(Messages), Paired(messages), NEW m \in Messages,
           m.k = "response" => m.calls \subseteq {Len(messages) + 1},
           m.k = "return" => \A c \in m.calls :
              /\ c \in 1..Len(messages) /\ messages[c].k = "response" /\ c \in messages[c].calls
              /\ m.cap => messages[c].cap
    PROVE  /\ Paired(Append(messages, m))
           /\ Prompted(messages) => Prompted(Append(messages, m))
<1> DEFINE more == Append(messages, m)
           n == Len(messages)
<1>1. /\ Len(more) = n + 1 /\ n \in Nat /\ more[n + 1] = m
      /\ \A k \in 1..n : more[k] = messages[k]
  BY AppendProperties, LenProperties
<1> HIDE DEF more
<1>2. ASSUME NEW i \in 1..n PROVE PairedAt(more, i)
  <2>1. PairedAt(messages, i)
    BY DEF Paired
  <2>2. more[i] = messages[i] /\ \A c \in 1..i - 1 : more[c] = messages[c]
    BY <1>1
  <2> QED
    BY <2>1, <2>2 DEF PairedAt
<1>3. PairedAt(more, n + 1)
  <2>1. \A c \in 1..n : more[c] = messages[c] /\ c \in 1..n + 1 - 1
    BY <1>1
  <2> QED
    BY <1>1, <2>1 DEF PairedAt
<1>4. Paired(more)
  BY <1>1, <1>2, <1>3 DEF Paired
<1>5. Prompted(messages) => Prompted(more)
  BY <1>1 DEF Prompted
<1> QED
  BY <1>4, <1>5 DEF more

(* Messages that differ in prompts only are answered alike.                   *)
LEMMA PairedSame ==
    ASSUME NEW a, NEW b, Len(a) = Len(b), Paired(a),
           \A i \in 1..Len(a) : b[i].k = a[i].k /\ (a[i].k # "prompt" => b[i] = a[i])
    PROVE  Paired(b) /\ (Prompted(a) => Prompted(b))
<1>1. ASSUME NEW i \in 1..Len(b) PROVE PairedAt(b, i)
  <2>1. PairedAt(a, i)
    BY <1>1 DEF Paired
  <2>2. CASE a[i].k = "response"
    BY <1>1, <2>1, <2>2 DEF PairedAt
  <2>3. CASE a[i].k = "return"
    <3> SUFFICES ASSUME NEW c \in b[i].calls
                 PROVE  /\ c \in 1..i - 1 /\ b[c].k = "response" /\ c \in b[c].calls
                        /\ b[i].cap => b[c].cap
      BY <1>1, <2>3 DEF PairedAt
    <3>1. b[i] = a[i]
      BY <1>1, <2>3
    <3>2. /\ c \in 1..i - 1 /\ a[c].k = "response" /\ c \in a[c].calls
          /\ a[i].cap => a[c].cap
      BY <2>1, <2>3, <3>1 DEF PairedAt
    <3>3. c \in 1..Len(a)
      BY <1>1, <3>2
    <3>4. b[c] = a[c]
      BY <3>2, <3>3
    <3> QED
      BY <3>1, <3>2, <3>4
  <2>4. CASE a[i].k \notin {"response", "return"}
    BY <1>1, <2>4 DEF PairedAt
  <2> QED
    BY <2>2, <2>3, <2>4
<1> QED
  BY <1>1 DEF Paired, Prompted

LEMMA RetainedGrows ==
    ASSUME NEW messages \in Seq(Messages), NEW m \in Messages,
           m.k # "prompt" \/ m.snap = NoSnap
    PROVE  RetainedSnapshot(Append(messages, m)) = RetainedSnapshot(messages)
<1> DEFINE more == Append(messages, m)
           n == Len(messages)
           With(s) == {i \in DOMAIN s : s[i].k = "prompt" /\ s[i].snap # NoSnap}
<1>1. /\ more \in Seq(Messages) /\ Len(more) = n + 1 /\ n \in Nat /\ more[n + 1] = m
      /\ \A k \in 1..n : more[k] = messages[k]
  BY AppendProperties, LenProperties
<1> HIDE DEF more
<1>2. DOMAIN more = 1..n + 1 /\ DOMAIN messages = 1..n
  BY <1>1, LenProperties
<1>3. With(more) = With(messages)
  BY <1>1, <1>2
<1>4. CASE With(messages) = {}
  <2>1. RetainedSnapshot(messages) = NoSnap /\ RetainedSnapshot(more) = NoSnap
    BY <1>3, <1>4 DEF RetainedSnapshot
  <2> QED
    BY <2>1 DEF more
<1>5. CASE With(messages) # {}
  <2>1. Max(With(messages)) \in With(messages)
    BY <1>5, NewestPlace
  <2>2. /\ RetainedSnapshot(messages) = messages[Max(With(messages))].snap
        /\ RetainedSnapshot(more) = more[Max(With(messages))].snap
    BY <1>3, <1>5 DEF RetainedSnapshot
  <2> HIDE DEF With
  <2>3. Max(With(messages)) \in 1..n
    BY <1>2, <2>1 DEF With
  <2> QED
    BY <1>1, <2>2, <2>3 DEF more
<1> QED
  BY <1>4, <1>5

(* What retain_snapshot changes, and what it leaves.                          *)
LEMMA RetainKeeps ==
    ASSUME NEW messages \in Seq(Messages), NEW snap \in Memories
    PROVE  LET kept == RetainSnapshot(messages, snap) IN
           /\ Len(kept) = Len(messages)
           /\ \A i \in 1..Len(messages) :
                /\ kept[i].k = messages[i].k
                /\ messages[i].k # "prompt" => kept[i] = messages[i]
                /\ messages[i].k = "prompt" => kept[i].lines = messages[i].lines
                /\ \A v : ReadBlock(v, kept[i]) = ReadBlock(v, messages[i])
           /\ snap # NoSnap /\ Prompted(messages) => RetainedSnapshot(kept) = snap
<1> DEFINE prompts == {i \in DOMAIN messages : messages[i].k = "prompt"}
           kept == RetainSnapshot(messages, snap)
<1>0. DOMAIN messages = 1..Len(messages)
  BY LenProperties
<1>1. CASE prompts = {}
  <2>1. kept = messages
    BY <1>1 DEF RetainSnapshot
  <2> QED
    BY <1>0, <1>1, <2>1 DEF Prompted
<1>2. CASE prompts # {}
  <2>1. Max(prompts) \in prompts
    BY <1>2, NewestPlace
  <2>2. PICK i \in DOMAIN messages : messages[i].k = "prompt" /\ i = Max(prompts)
    BY <2>1
  <2>3. kept = [messages EXCEPT ![i].snap = snap]
    BY <1>2, <2>2 DEF RetainSnapshot
  <2>4. messages[i] \in Messages /\ i \in 1..Len(messages)
    BY <2>2, ElementOfSeq, LenProperties
  <2> DEFINE new == [messages[i] EXCEPT !.snap = snap]
  <2>5. /\ new \in Messages /\ new.k = "prompt" /\ new.full = messages[i].full
        /\ new.lines = messages[i].lines /\ new.removed = messages[i].removed /\ new.snap = snap
    BY <2>2, <2>4 DEF Messages
  <2>6. kept = [messages EXCEPT ![i] = new]
    BY <2>3
  <2> HIDE DEF new
  <2>7. kept \in Seq(Messages) /\ Len(kept) = Len(messages)
    BY <2>4, <2>5, <2>6, ExceptSeq
  <2>8. kept[i] = new /\ \A j \in 1..Len(messages) : j # i => kept[j] = messages[j]
    BY <1>0, <2>4, <2>6
  <2>0. \A v : ReadBlock(v, new) = ReadBlock(v, messages[i])
    BY <2>2, <2>5 DEF ReadBlock
  <2>10. ASSUME snap # NoSnap PROVE RetainedSnapshot(kept) = snap
    <3> DEFINE with == {j \in DOMAIN kept : kept[j].k = "prompt" /\ kept[j].snap # NoSnap}
    <3>0. DOMAIN kept = 1..Len(messages) /\ Len(messages) \in Nat
      BY <2>7, LenProperties
    <3>1. i \in with /\ with \subseteq prompts
      BY <1>0, <2>2, <2>4, <2>5, <2>8, <2>10, <3>0
    <3>2. \A x \in prompts : x <= i
      BY <1>0, <2>2, <3>0, LastPlace
    <3>3. Max(with) \in with /\ i <= Max(with)
      <4>1. with \in SUBSET (1..Len(messages)) /\ with # {}
        BY <3>0, <3>1
      <4> HIDE DEF with
      <4> QED
        BY <3>0, <3>1, <4>1, LastPlace
    <3>4. RetainedSnapshot(kept) = kept[Max(with)].snap
      BY <3>1 DEF RetainedSnapshot
    <3>5. Max(with) = i
      <4> HIDE DEF with
      <4>1. Max(with) \in prompts
        BY <3>1, <3>3
      <4>2. Max(with) <= i /\ Max(with) \in Nat /\ i \in Nat
        BY <1>0, <3>2, <4>1, <2>4
      <4> QED
        BY <3>3, <4>2
    <3> QED
      BY <2>5, <2>8, <3>4, <3>5
  <2> HIDE DEF kept
  <2>11. \A j \in 1..Len(messages) :
            /\ kept[j].k = messages[j].k
            /\ messages[j].k # "prompt" => kept[j] = messages[j]
            /\ messages[j].k = "prompt" => kept[j].lines = messages[j].lines
            /\ \A v : ReadBlock(v, kept[j]) = ReadBlock(v, messages[j])
    BY <2>2, <2>5, <2>8, <2>0
  <2> QED
    BY <2>7, <2>10, <2>11 DEF kept
<1> QED
  BY <1>1, <1>2

(* Superseded texts stay so while messages are added.                         *)
LEMMA SupersededOn ==
    ASSUME NEW messages \in Seq(Messages), NEW m \in Messages, NEW p,
           \/ Superseded(messages, p)
           \/ m.k = "prompt" /\ \E q \in m.lines : q[1] = p[1] /\ q[2] > p[2]
    PROVE  Superseded(Append(messages, m), p)
<1> DEFINE more == Append(messages, m)
           n == Len(messages)
<1>1. /\ more \in Seq(Messages) /\ Len(more) = n + 1 /\ n \in Nat /\ more[n + 1] = m
      /\ \A k \in 1..n : more[k] = messages[k]
  BY AppendProperties, LenProperties
<1> HIDE DEF more
<1>2. DOMAIN more = 1..n + 1 /\ DOMAIN messages = 1..n
  BY <1>1, LenProperties
<1>3. CASE Superseded(messages, p)
  <2>1. PICK i \in DOMAIN messages :
          messages[i].k = "prompt" /\ \E q \in messages[i].lines : q[1] = p[1] /\ q[2] > p[2]
    BY <1>3 DEF Superseded
  <2>2. i \in DOMAIN more /\ more[i] = messages[i]
    BY <1>1, <1>2
  <2>3. Superseded(more, p)
    BY <2>1, <2>2 DEF Superseded
  <2> QED BY <2>3 DEF more
<1>4. CASE m.k = "prompt" /\ \E q \in m.lines : q[1] = p[1] /\ q[2] > p[2]
  <2>1. n + 1 \in DOMAIN more /\ more[n + 1] = m
    BY <1>1, <1>2
  <2>2. Superseded(more, p)
    BY <1>4, <2>1 DEF Superseded
  <2> QED BY <2>2 DEF more
<1> QED
  BY <1>3, <1>4

(* No memory of a snapshot has gone back to an older text since.              *)
Known(S) == \A p \in S : fact[p[1]] = -1 \/ fact[p[1]] >= p[2]

(* The prompt of a turn tells the model what it does not yet know.            *)
LEMMA PromptTells ==
    ASSUME Current \in Snapshots, fact \in [Facts -> Int], NEW messages \in Seq(Messages),
           RetainedSnapshot(messages) # NoSnap =>
              /\ Shows(messages, RetainedSnapshot(messages))
              /\ RetainedSnapshot(messages) \in Snapshots /\ Known(RetainedSnapshot(messages))
    PROVE  Shows(Append(messages, WithMemories(messages)), Current)
<1> DEFINE retained == RetainedSnapshot(messages)
           m == WithMemories(messages)
<1>0. /\ m \in Messages
      /\ View(Append(messages, m)) = ReadBlock(View(messages), m) /\ View(messages) \in Memories
  <2>1. m \in Messages
    BY WithMemoriesType
  <2> QED
    BY <2>1, ViewGrows
<1>f. ASSUME ReadBlock(View(messages), m) = Current PROVE Shows(Append(messages, m), Current)
  BY <1>0, <1>f DEF Shows, View
<1>1. CASE retained = NoSnap /\ messages # <<>>
  <2>1. m = Prompt(TRUE, Current, {})
    BY <1>1 DEF WithMemories
  <2>2. ReadBlock(View(messages), m) = Current
    BY <2>1 DEF ReadBlock, Prompt
  <2> QED BY <1>f, <2>2
<1>2. CASE messages = <<>>
  <2>1. View(messages) = {}
    BY <1>2, ViewBegins DEF NoMemories
  <2>2. retained = NoSnap
    BY <1>2 DEF RetainedSnapshot
  <2>3. m = Prompt(Current # {}, Current, {})
    BY <1>2, <2>2 DEF WithMemories, UserBlock
  <2>4. CASE Current = {}
    <3>1. ReadBlock({}, Prompt(Current # {}, Current, {})) = Current
      BY <2>4 DEF ReadBlock, Prompt
    <3>2. ReadBlock(View(messages), m) = Current
      BY <2>1, <2>3, <3>1
    <3> QED BY <1>f, <3>2
  <2>5. CASE Current # {}
    <3>1. (Current # {}) = TRUE
      BY <2>5
    <3>2. m = Prompt(TRUE, Current, {})
      BY <2>3, <3>1
    <3>3. ReadBlock(View(messages), m) = Current
      BY <3>2 DEF ReadBlock, Prompt
    <3> QED BY <1>f, <3>3
  <2> QED
    BY <2>4, <2>5
<1>3. CASE retained # NoSnap /\ messages # <<>>
  <2> DEFINE view == View(messages)
             lines == Current \ retained
             removed == {p \in retained : \A q \in Current : q[1] # p[1]}
  <2>1. m = Prompt(FALSE, lines, removed)
    BY <1>3 DEF WithMemories, UserBlock
  <2>2. m.k = "prompt" /\ m.lines = lines /\ m.removed = removed
        /\ View(Append(messages, m)) = (view \ removed) \cup lines
    <3>1. /\ m.k = "prompt" /\ m.lines = lines /\ m.removed = removed
          /\ ReadBlock(view, m) = (view \ removed) \cup lines
      BY <2>1 DEF ReadBlock, Prompt
    <3> QED BY <1>0, <3>1
  <2>3. /\ retained \subseteq view /\ \A p \in view \ retained : Superseded(messages, p)
        /\ retained \in Snapshots /\ Known(retained)
    BY <1>3 DEF Shows, View
  <2>4. Current \subseteq (view \ removed) \cup lines
    <3> SUFFICES ASSUME NEW c \in Current, c \in retained PROVE c \in view \ removed
      OBVIOUS
    <3> QED BY <2>3
  <2>5. ASSUME NEW p \in ((view \ removed) \cup lines) \ Current
        PROVE  Superseded(Append(messages, m), p)
    <3>1. p \in view \ removed
      BY <2>5
    <3>2. CASE p \notin retained
      BY <1>0, <2>3, <3>1, <3>2, SupersededOn
    <3>3. CASE p \in retained
      <4>1. PICK q \in Current : q[1] = p[1]
        BY <3>1, <3>3
      <4>2. q \notin retained /\ q # p
        BY <2>3, <2>5, <3>3, <4>1 DEF Snapshots, Once
      <4>3. PICK f \in Facts : fact[f] > 0 /\ q = <<f, fact[f]>>
        BY DEF Current
      <4>4. q[2] = fact[p[1]] /\ q[2] > 0 /\ p[1] = f
        BY <4>1, <4>3
      <4>5. p \in Facts \X (1 .. MaxFactRev)
        BY <2>3, <3>3 DEF Snapshots
      <4>6. q[2] >= p[2]
        BY <2>3, <3>3, <4>4 DEF Known
      <4>7. q[2] # p[2]
        BY <4>1, <4>2, <4>3, <4>5
      <4>8. q[2] > p[2]
        <5>1. q[2] \in Int /\ p[2] \in Int
          BY <4>3, <4>5, ConversationAssumption
        <5> QED BY <4>6, <4>7, <5>1
      <4>9. q \in m.lines
        BY <2>2, <4>2
      <4> QED BY <1>0, <2>2, <4>1, <4>8, <4>9, SupersededOn
    <3> QED BY <3>2, <3>3
  <2> QED
    BY <2>2, <2>4, <2>5 DEF Shows, View
<1> QED
  BY <1>1, <1>2, <1>3

(* Compaction keeps what is not dropped, and one summary.                     *)
Dropped(messages) ==
  {i \in 1..SplitPoint(messages, Len(messages) - Keep) : ~Keeps(messages[i])}
AddKept(messages, dropped, kept, i) ==
  IF i \notin dropped THEN Append(kept, messages[i])
  ELSE IF i = Min(dropped) THEN Append(kept, Summary) ELSE kept

LEMMA AddKeptType ==
    ASSUME NEW messages \in Seq(Messages), NEW dropped, NEW kept \in Seq(Messages),
           NEW i \in 1..Len(messages)
    PROVE  AddKept(messages, dropped, kept, i) \in Seq(Messages)
<1>1. messages[i] \in Messages /\ Summary \in Messages
  BY ElementOfSeq, LenProperties, MessageTypes
<1> QED
  BY <1>1, AppendProperties DEF AddKept

LEMMA CompactChain ==
    ASSUME NEW messages \in Seq(Messages), Len(messages) > Keep, Dropped(messages) # {}
    PROVE  \E h \in [0..Len(messages) -> Seq(Messages)] :
              /\ h[0] = <<>> /\ Compacted(messages) = h[Len(messages)]
              /\ \A k \in 1..Len(messages) :
                    h[k] = AddKept(messages, Dropped(messages), h[k - 1], k)
<1> DEFINE n == Len(messages)
           places == [i \in DOMAIN messages |-> i]
           dropped == Dropped(messages)
           Eq(g) == g = [s \in SUBSET (DOMAIN places) |->
                           IF s = {} THEN <<>>
                           ELSE AddKept(messages, dropped, g[s \ {Max(s)}], places[Max(s)])]
           iter == CHOOSE g : Eq(g)
           V == Seq(Messages)
           take == [x \in 1..n |-> [v \in V |-> AddKept(messages, dropped, v, x)]]
<1>1. n \in Nat /\ DOMAIN messages = 1..n /\ DOMAIN places = 1..n
  BY LenProperties
<1>2. Compacted(messages) = iter[1..n]
  <2>1. Compacted(messages) = iter[DOMAIN places]
    <3>1. ~(Len(messages) <= Keep \/ Dropped(messages) = {})
      BY <1>1, ConversationAssumption
    <3> QED
      BY <3>1 DEF Compacted, FoldLeft, MapThenFoldSet, AddKept, Dropped
  <2> HIDE DEF iter
  <2> QED
    BY <1>1, <2>1
<1>3. \A x \in 1..n : \A v \in V : /\ take[x][v] \in V
                                  /\ take[x][v] = AddKept(messages, dropped, v, x)
  <2> HIDE DEF dropped
  <2> QED
    BY AddKeptType
<1>4. <<>> \in V
  BY EmptySeq
<1> HIDE DEF take
<1>5. Eq(iter)
  <2>1. Takes(n, V, <<>>, take)
    BY <1>3, <1>4 DEF Takes
  <2> HIDE DEF n, V, dropped
  <2>2. PICK f : Folded(f, n, V, <<>>, take)
    BY <1>1, <2>1, FoldOfPlaces
  <2>3. /\ f \in [SUBSET (1..n) -> V] /\ f[{}] = <<>>
        /\ \A s \in SUBSET (1..n) : s # {} => /\ Max(s) \in 1..n
                                              /\ f[s] = take[Max(s)][f[s \ {Max(s)}]]
    BY <2>2 DEF Folded
  <2>4. ASSUME NEW s \in SUBSET (1..n), s # {}
        PROVE  f[s] = AddKept(messages, dropped, f[s \ {Max(s)}], places[Max(s)])
    <3>1. s \ {Max(s)} \in SUBSET (1..n)
      OBVIOUS
    <3>2. f[s \ {Max(s)}] \in V
      BY <2>3, <3>1
    <3>3. Max(s) \in 1..n /\ places[Max(s)] = Max(s)
      BY <1>1, <2>3, <2>4
    <3> HIDE DEF places
    <3> QED
      BY <1>3, <2>3, <2>4, <3>2, <3>3
  <2> HIDE DEF places
  <2>5. Eq(f)
    BY <1>1, <2>3, <2>4
  <2> HIDE DEF Eq
  <2> QED
    BY <2>5
<1> HIDE DEF iter
<1>6. Follows(iter, n, V, <<>>, take)
  <2> HIDE DEF dropped, V
  <2>1. iter[{}] = <<>>
    BY <1>1, <1>5
  <2>2. ASSUME NEW s \in SUBSET (1..n), s # {}, iter[s \ {Max(s)}] \in V
        PROVE  iter[s] = take[Max(s)][iter[s \ {Max(s)}]]
    <3>1. Max(s) \in 1..n /\ places[Max(s)] = Max(s)
      BY <1>1, <2>2, LastPlace
    <3> HIDE DEF places
    <3>2. iter[s] = AddKept(messages, dropped, iter[s \ {Max(s)}], places[Max(s)])
      BY <1>1, <1>5, <2>2
    <3> QED
      BY <1>3, <2>2, <3>1, <3>2
  <2> QED
    BY <2>1, <2>2 DEF Follows
<1>7. Takes(n, V, <<>>, take)
  BY <1>3, <1>4 DEF Takes
<1> HIDE DEF n, V
<1>8. PICK h \in [0..n -> V] :
          /\ h[0] = <<>> /\ iter[1..n] = h[n]
          /\ \A k \in 1..n : h[k] = take[k][h[k - 1]]
  BY <1>1, <1>6, <1>7, FoldChain
<1>9. ASSUME NEW k \in 1..n PROVE h[k] = AddKept(messages, dropped, h[k - 1], k)
  <2>1. h[k - 1] \in V
    BY <1>1, <1>8
  <2> QED
    BY <1>3, <1>8, <2>1
<1> QED
  BY <1>2, <1>8, <1>9 DEF n, V

(* Each return of a request has its call in an earlier response.              *)
HasCall(s, i, c) == \E j \in 1..i : s[j].k = "response" /\ c \in s[j].calls
Whole(s) == \A i \in 1..Len(s) : s[i].k = "return" => \A c \in s[i].calls : HasCall(s, i, c)

LEMMA WholeGrows ==
    ASSUME NEW s \in Seq(Messages), Whole(s), NEW m \in Messages,
           m.k = "return" => \A c \in m.calls : HasCall(s, Len(s), c)
    PROVE  Whole(Append(s, m))
<1> DEFINE more == Append(s, m)
           n == Len(s)
<1>1. /\ Len(more) = n + 1 /\ n \in Nat /\ more[n + 1] = m
      /\ \A k \in 1..n : more[k] = s[k]
  BY AppendProperties, LenProperties
<1> HIDE DEF more
<1>2. ASSUME NEW i \in 1..n, NEW l \in Nat, i <= l, NEW c, HasCall(s, i, c)
      PROVE  HasCall(more, l, c)
  <2>1. PICK j \in 1..i : s[j].k = "response" /\ c \in s[j].calls
    BY <1>2 DEF HasCall
  <2>2. j \in 1..n /\ j \in 1..l
    BY <1>1, <1>2
  <2> QED
    BY <1>1, <2>1, <2>2 DEF HasCall
<1>3. ASSUME NEW i \in 1..n + 1, more[i].k = "return", NEW c \in more[i].calls
      PROVE  HasCall(more, i, c)
  <2>1. CASE i = n + 1
    <3>1. HasCall(s, n, c)
      BY <1>1, <1>3, <2>1
    <3>2. n \in 1..n
      BY <1>1, <3>1 DEF HasCall
    <3> QED
      BY <1>1, <1>2, <2>1, <3>1, <3>2
  <2>2. CASE i \in 1..n
    <3>1. HasCall(s, i, c)
      BY <1>1, <1>3, <2>2 DEF Whole
    <3> QED
      BY <1>1, <1>2, <2>2, <3>1
  <2> QED
    BY <1>1, <2>1, <2>2
<1> QED
  BY <1>1, <1>3 DEF Whole, more

LEMMA ReadsNothing ==
    ASSUME NEW v \in Memories, NEW m \in Messages, ~Keeps(m)
    PROVE  ReadBlock(v, m) = v
<1>1. CASE m.k # "prompt"
  BY <1>1 DEF ReadBlock
<1>2. CASE m.k = "prompt"
  <2>1. ~m.full /\ m.lines = {} /\ m.removed = {}
    BY <1>2 DEF Keeps, CarriesMemories
  <2> QED
    BY <1>2, <2>1 DEF ReadBlock
<1> QED
  BY <1>1, <1>2

(* The call of a return that is kept is kept.                                 *)
LEMMA SplitFits ==
    ASSUME NEW messages \in Seq(Messages), Paired(messages), Len(messages) > Keep,
           NEW i \in 1..Len(messages), i \notin Dropped(messages), messages[i].k = "return",
           NEW c \in messages[i].calls
    PROVE  c \in 1..i - 1 /\ c \notin Dropped(messages) /\ messages[c].k = "response" /\ c \in messages[c].calls
<1> DEFINE n == Len(messages)
           start == n - Keep
           Fits(s) == CallsOf(messages, "return", s, FALSE)
                        \subseteq CallsOf(messages, "response", s, TRUE)
           fit == {s \in 1..start : Fits(s)}
           split == SplitPoint(messages, start)
<1>1. n \in Nat /\ DOMAIN messages = 1..n /\ start \in Nat
  BY LenProperties, ConversationAssumption
<1>2. /\ c \in 1..i - 1 /\ messages[c].k = "response" /\ c \in messages[c].calls
      /\ messages[i].cap => messages[c].cap
  BY DEF Paired, PairedAt
<1>3. c \in 1..n
  BY <1>1, <1>2
<1>4. split = Max({0} \cup fit)
  BY DEF SplitPoint
<1>5. split \in {0} \cup fit
  <2>1. \E x \in {0} \cup fit : \A y \in {0} \cup fit : y <= x
    <3>0. fit \subseteq 1..start
      OBVIOUS
    <3> HIDE DEF fit, start
    <3>1. {0} \cup fit \subseteq 0..start /\ {0} \cup fit # {}
      BY <1>1, <3>0
    <3> QED
      BY <1>1, <3>1, GreatestElement
  <2>2. {0} \cup fit \subseteq Nat
    <3>1. fit \subseteq 1..start
      OBVIOUS
    <3> HIDE DEF fit, start
    <3> QED
      BY <1>1, <3>1
  <2> HIDE DEF fit, split
  <2>3. \E x \in {0} \cup fit : \A y \in {0} \cup fit : x >= y
    BY <2>1, <2>2
  <2> QED
    BY <1>4, <2>3 DEF Max
<1>6. CASE i \in 1..split
  <2>1. Keeps(messages[i])
    BY <1>6 DEF Dropped
  <2>2. Keeps(messages[c])
    BY <1>2, <2>1 DEF Keeps
  <2> QED
    BY <1>2, <2>2 DEF Dropped
<1>7. CASE split = 0
  <2>1. c \notin Dropped(messages)
    BY <1>2, <1>7 DEF Dropped
  <2> QED
    BY <1>2, <2>1
<1>8. CASE split # 0 /\ i \notin 1..split
  <2>1. split \in 1..start /\ Fits(split)
    BY <1>5, <1>8
  <2> HIDE DEF split
  <2>2. i > split
    BY <1>8, <2>1, <1>1
  <2>3. c \in CallsOf(messages, "return", split, FALSE)
    BY <1>1, <2>2 DEF CallsOf
  <2>4. PICK j \in 1..n : /\ messages[j].k = "response" /\ c \in messages[j].calls
                          /\ j > split \/ Keeps(messages[j])
    BY <1>1, <2>1, <2>3 DEF CallsOf
  <2>5. j = c
    BY <2>4 DEF Paired, PairedAt
  <2>6. c \notin Dropped(messages)
    BY <1>1, <2>1, <2>4, <2>5 DEF Dropped, split
  <2> QED
    BY <1>2, <2>6
<1> QED
  BY <1>6, <1>7, <1>8

(* A request, compacted or not, reads as the history does and holds the call  *)
(* of each return.                                                            *)
LEMMA CompactedReads ==
    ASSUME NEW messages \in Seq(Messages), Paired(messages)
    PROVE  /\ Whole(messages) /\ View(Compacted(messages)) = View(messages)
           /\ Whole(Compacted(messages)) /\ Compacted(messages) \in Seq(Messages)
           /\ \A p : Superseded(messages, p) => Superseded(Compacted(messages), p)
<1> DEFINE n == Len(messages)
           dropped == Dropped(messages)
<1>0. n \in Nat
  BY LenProperties
<1>1. Whole(messages)
  <2> SUFFICES ASSUME NEW i \in 1..n, messages[i].k = "return", NEW c \in messages[i].calls
               PROVE  HasCall(messages, i, c)
    BY DEF Whole
  <2>1. c \in 1..i - 1 /\ messages[c].k = "response" /\ c \in messages[c].calls
    BY DEF Paired, PairedAt
  <2>2. c \in 1..i
    BY <2>1
  <2> QED
    BY <2>1, <2>2 DEF HasCall
<1>2. CASE n <= Keep \/ dropped = {}
  <2>1. Compacted(messages) = messages
    BY <1>2 DEF Compacted, Dropped
  <2> QED
    BY <1>1, <2>1
<1>3. CASE ~(n <= Keep \/ dropped = {})
  <2>0. n > Keep /\ dropped # {}
    BY <1>0, <1>3, ConversationAssumption
  <2>1. PICK g \in [0..n -> Seq(Messages)] :
              /\ g[0] = <<>> /\ Compacted(messages) = g[n]
              /\ \A k \in 1..n : g[k] = AddKept(messages, dropped, g[k - 1], k)
    BY <2>0, CompactChain
  <2>2. PICK h \in [0..n -> Memories] :
              /\ h[0] = NoMemories /\ View(messages) = h[n]
              /\ \A k \in 1..n : h[k] = ReadBlock(h[k - 1], messages[k])
    BY ViewPrefixes
  <2> DEFINE Here(k, l) == \E j \in 1..Len(g[k]) : g[k][j] = messages[l]
             Good(k) == /\ View(g[k]) = h[k] /\ Whole(g[k])
                        /\ \A l \in 1..k : l \notin dropped => Here(k, l)
             T == {k \in 0..n : Good(k)}
  <2> HIDE DEF dropped
  <2>3. 0 \in T
    <3>1. g[0] = <<>> /\ h[0] = NoMemories
      BY <2>1, <2>2
    <3>2. Whole(<<>>)
      BY EmptySeq DEF Whole
    <3>3. 1..0 = {} /\ 0 \in 0..n
      BY <1>0
    <3> QED
      BY <3>1, <3>2, <3>3, ViewBegins
  <2>4. ASSUME NEW k \in T, k \in 0..n - 1 PROVE k + 1 \in T
    <3> DEFINE m == messages[k + 1]
               s == g[k]
    <3>1. k + 1 \in 1..n /\ k + 1 - 1 = k /\ k \in 0..n /\ m \in Messages /\ s \in Seq(Messages)
      BY <1>0, <2>4, <2>1, ElementOfSeq, LenProperties
    <3>2. g[k + 1] = AddKept(messages, dropped, s, k + 1) /\ h[k + 1] = ReadBlock(h[k], m)
      BY <2>1, <2>2, <3>1
    <3>3. View(s) = h[k] /\ h[k] \in Memories /\ Whole(s)
      BY <2>2, <2>4, <3>1
    <3>4. \A l \in 1..k : l \notin dropped => Here(k, l)
      BY <2>4
    <3> HIDE DEF m, T
    <3>5. ASSUME NEW x \in Messages, g[k + 1] = Append(s, x), ReadBlock(h[k], x) = h[k + 1],
                 x.k = "return" => \A c \in x.calls : HasCall(s, Len(s), c),
                 k + 1 \in dropped \/ x = m
          PROVE  Good(k + 1)
      <4>1. View(g[k + 1]) = h[k + 1]
        BY <3>1, <3>3, <3>5, ViewGrows
      <4>2. Whole(g[k + 1])
        BY <3>1, <3>3, <3>5, WholeGrows
      <4>3. /\ Len(g[k + 1]) = Len(s) + 1 /\ Len(s) \in Nat /\ g[k + 1][Len(s) + 1] = x
            /\ \A j \in 1..Len(s) : g[k + 1][j] = s[j]
        BY <3>1, <3>5, AppendProperties, LenProperties
      <4>4. ASSUME NEW l \in 1..k + 1, l \notin dropped PROVE Here(k + 1, l)
        <5>1. CASE l \in 1..k
          <6>1. PICK j \in 1..Len(s) : s[j] = messages[l]
            BY <3>4, <4>4, <5>1
          <6>2. j \in 1..Len(g[k + 1]) /\ g[k + 1][j] = messages[l]
            BY <4>3, <6>1
          <6> QED
            BY <6>2
        <5>2. CASE l = k + 1
          <6>1. x = messages[l]
            BY <3>5, <4>4, <5>2 DEF m
          <6>2. Len(s) + 1 \in 1..Len(g[k + 1])
            BY <4>3
          <6> QED
            BY <4>3, <6>1, <6>2
        <5> QED
          BY <3>1, <5>1, <5>2
      <4> QED
        BY <4>1, <4>2, <4>4
    <3>6. CASE k + 1 \notin dropped
      <4>1. g[k + 1] = Append(s, m)
        BY <3>2, <3>6 DEF AddKept, m
      <4>2. ASSUME m.k = "return", NEW c \in m.calls PROVE HasCall(s, Len(s), c)
        <5>1. /\ c \in 1..(k + 1) - 1 /\ c \notin dropped /\ messages[c].k = "response"
              /\ c \in messages[c].calls
          BY <2>0, <3>1, <3>6, <4>2, SplitFits DEF m, dropped
        <5>2. Here(k, c)
          BY <3>1, <3>4, <5>1
        <5> QED
          BY <5>1, <5>2 DEF HasCall
      <4>3. Good(k + 1)
        BY <3>1, <3>2, <3>5, <4>1, <4>2
      <4> QED
        BY <3>1, <4>3 DEF T
    <3>7. CASE k + 1 \in dropped
      <4>1. ~Keeps(m)
        BY <3>7 DEF dropped, Dropped, m
      <4>2. h[k + 1] = h[k]
        BY <3>1, <3>2, <3>3, <4>1, ReadsNothing
      <4>3. CASE k + 1 = Min(dropped)
        <5>1. g[k + 1] = Append(s, Summary)
          BY <3>2, <3>7, <4>3 DEF AddKept
        <5>2. Summary \in Messages /\ Summary.k = "response"
          BY MessageTypes DEF Summary, Response
        <5>3. ReadBlock(h[k], Summary) = h[k]
          BY <5>2 DEF ReadBlock
        <5>4. Good(k + 1)
          BY <3>5, <3>7, <4>2, <5>1, <5>2, <5>3
        <5> QED
          BY <3>1, <5>4 DEF T
      <4>4. CASE k + 1 # Min(dropped)
        <5>1. g[k + 1] = g[k]
          BY <3>2, <3>7, <4>4 DEF AddKept
        <5>2. \A l \in 1..k + 1 : l \notin dropped => l \in 1..k
          BY <3>1, <3>7
        <5>3. Good(k + 1)
          BY <3>3, <3>4, <4>2, <5>1, <5>2
        <5> QED
          BY <3>1, <5>3 DEF T
      <4> QED
        BY <4>3, <4>4
    <3> QED
      BY <3>6, <3>7
  <2>5. n \in T
    <3>1. 0..n \subseteq T
      <4> HIDE DEF T
      <4> QED
        BY <1>0, <2>3, <2>4, UpTo
    <3> QED
      BY <1>0, <3>1
  <2>6. g[n] \in Seq(Messages)
    BY <1>0, <2>1
  <2>7. ASSUME NEW p, Superseded(messages, p) PROVE Superseded(g[n], p)
    <3>1. PICK i \in DOMAIN messages :
            messages[i].k = "prompt" /\ \E q \in messages[i].lines : q[1] = p[1] /\ q[2] > p[2]
      BY <2>7 DEF Superseded
    <3>2. i \in 1..n /\ Keeps(messages[i])
      BY <3>1, LenProperties DEF Keeps, CarriesMemories
    <3>3. i \notin dropped
      BY <3>2 DEF dropped, Dropped
    <3>4. PICK j \in 1..Len(g[n]) : g[n][j] = messages[i]
      BY <2>5, <3>2, <3>3
    <3>5. j \in DOMAIN g[n]
      BY <2>6, <3>4, LenProperties
    <3> QED BY <3>1, <3>4, <3>5 DEF Superseded
  <2> QED
    BY <1>1, <2>1, <2>2, <2>5, <2>6, <2>7
<1> QED
  BY <1>2, <1>3

LEMMA WholeIsComplete ==
    ASSUME NEW s \in Seq(Messages), Whole(s)
    PROVE  \A i \in DOMAIN s : s[i].k = "return" =>
              s[i].calls \subseteq
                  UNION {s[j].calls : j \in {l \in 1 .. i : s[l].k = "response"}}
<1>1. DOMAIN s = 1..Len(s)
  BY LenProperties
<1> QED
  BY <1>1 DEF Whole, HasCall

(* What the history of an open drive or of a checkpoint tells its model: the  *)
(* memories t of the turn's beginning.                                        *)
Tells(messages, t) == Paired(messages) /\ Prompted(messages) /\ Shows(messages, t)

(* What the history of a done turn retains is what it shows, and what an open *)
(* turn or a paused one will retain is what its prompt told.                  *)
TalkInv ==
  /\ fact \in [Facts -> -1..MaxFactRev]
  /\ told \in Snapshots /\ Known(told)
  /\ Paired(hist)
  /\ RetainedSnapshot(hist) # NoSnap =>
        /\ Shows(hist, RetainedSnapshot(hist))
        /\ RetainedSnapshot(hist) \in Snapshots /\ Known(RetainedSnapshot(hist))
  /\ ckpt # <<>> => Tells(ckpt, told) /\ RetainedSnapshot(ckpt) = told
  /\ cPhase \in {"ready", "sent", "ended"} =>
        /\ Tells(run, told)
        /\ ckpt # <<>> \/ drive.spent # NoUsage => RetainedSnapshot(run) = told
  /\ RequestIsComplete

LEMMA CurrentSnapshot == ASSUME fact \in [Facts -> -1..MaxFactRev] PROVE Current \in Snapshots
<1>1. \A m \in Facts : fact[m] > 0 => fact[m] \in 1..MaxFactRev
  BY ConversationAssumption
<1>2. Current \subseteq Facts \X (1..MaxFactRev)
  BY <1>1 DEF Current
<1>3. Once(Current)
  BY DEF Once, Current
<1> QED
  BY <1>2, <1>3 DEF Snapshots

LEMMA SnapshotStored == \A S \in Snapshots : S # NoSnap /\ S \in Memories
<1>1. ASSUME NEW S \in Snapshots PROVE S # NoSnap /\ S \in Memories
  <2>1. S \in SUBSET (Facts \X (1..MaxFactRev))
    BY DEF Snapshots
  <2>2. 1..MaxFactRev \subseteq Nat
    BY ConversationAssumption
  <2>3. S \in Memories
    BY <2>1, <2>2 DEF Memories
  <2> QED
    BY <2>1, <2>3, ConversationAssumption
<1> QED
  BY <1>1

(* A message that reads as nothing leaves what a history tells.               *)
LEMMA TellsOn ==
    ASSUME NEW messages \in Seq(Messages), NEW t, Tells(messages, t), NEW m \in Messages,
           m.k # "prompt" \/ (~Keeps(m) /\ m.snap = NoSnap),
           m.k = "response" => m.calls \subseteq {Len(messages) + 1},
           m.k = "return" => \A c \in m.calls :
              /\ c \in 1..Len(messages) /\ messages[c].k = "response" /\ c \in messages[c].calls
              /\ m.cap => messages[c].cap
    PROVE  /\ Tells(Append(messages, m), t)
           /\ RetainedSnapshot(Append(messages, m)) = RetainedSnapshot(messages)
<1>1. Paired(messages) /\ Prompted(messages) /\ Shows(messages, t)
  BY DEF Tells
<1>2. Paired(Append(messages, m)) /\ Prompted(Append(messages, m))
  BY <1>1, PairedGrows
<1>3. View(Append(messages, m)) = ReadBlock(View(messages), m) /\ View(messages) \in Memories
  BY ViewGrows
<1>4. View(Append(messages, m)) = View(messages)
  BY <1>3, ReadsNothing DEF ReadBlock
<1>6. Shows(Append(messages, m), t)
  BY <1>1, <1>4, SupersededOn DEF Shows, View
<1>5. m.k # "prompt" \/ m.snap = NoSnap
  OBVIOUS
<1> QED
  BY <1>2, <1>5, <1>6, RetainedGrows DEF Tells

(* A return of the open calls is answered.                                    *)
LEMMA OpenFits ==
    ASSUME NEW messages \in Seq(Messages), messages # <<>>, Paired(messages),
           NEW c \in OpenCalls(messages)
    PROVE  c = Len(messages) /\ c \in 1..Len(messages) /\ messages[c].k = "response" /\ c \in messages[c].calls
<1>1. Len(messages) \in 1..Len(messages) /\ Last(messages) = messages[Len(messages)]
  BY LenProperties, EmptySeq DEF Last
<1>2. PairedAt(messages, Len(messages))
  BY <1>1 DEF Paired
<1>3. messages[Len(messages)].k = "response" /\ c \in messages[Len(messages)].calls
  BY <1>1 DEF OpenCalls
<1> QED
  BY <1>1, <1>2, <1>3 DEF PairedAt

LEMMA ReturnOn ==
    ASSUME NEW messages \in Seq(Messages), messages # <<>>, NEW t, Tells(messages, t)
    PROVE  /\ Tells(Append(messages, Return(OpenCalls(messages), FALSE)), t)
           /\ RetainedSnapshot(Append(messages, Return(OpenCalls(messages), FALSE)))
                = RetainedSnapshot(messages)
<1> DEFINE m == Return(OpenCalls(messages), FALSE)
<1>1. m \in Messages
  BY OpenCallsType, MessageTypes
<1>2. m.k = "return" /\ m.calls = OpenCalls(messages) /\ ~m.cap
  BY DEF Return
<1>3. Paired(messages)
  BY DEF Tells
<1> HIDE DEF m
<1>4. \A c \in m.calls : c \in 1..Len(messages) /\ messages[c].k = "response" /\ c \in messages[c].calls
  BY <1>2, <1>3, OpenFits
<1>5. Tells(Append(messages, m), t) /\ RetainedSnapshot(Append(messages, m)) = RetainedSnapshot(messages)
  BY <1>1, <1>2, <1>4, TellsOn
<1> QED
  BY <1>5 DEF m

(* What a drive leaves tells the same, and retains it.                        *)
LEMMA OutcomeTells ==
    ASSUME ConvTypeOK, TalkInv, cPhase = "ended", run # <<>>
    PROVE  /\ Outcome \in Seq(Messages) /\ Outcome # <<>> /\ OpenCalls(Outcome) = OpenCalls(run)
           /\ Tells(Outcome, told) /\ RetainedSnapshot(Outcome) = told
<1>1. /\ run \in Seq(Messages) /\ Tells(run, told) /\ told \in Memories /\ told # NoSnap
      /\ ckpt # <<>> \/ drive.spent # NoUsage => RetainedSnapshot(run) = told
  BY SnapshotStored DEF ConvTypeOK, TalkInv
<1>2. CASE ckpt = <<>> /\ drive.spent = NoUsage
  <2> DEFINE kept == RetainSnapshot(run, told)
  <2>1. Outcome = kept
    BY <1>2 DEF Outcome
  <2>2. kept \in Seq(Messages) /\ kept # <<>>
    BY <1>1, RetainType
  <2>3. /\ Len(kept) = Len(run)
        /\ \A i \in 1..Len(run) :
             /\ kept[i].k = run[i].k
             /\ run[i].k # "prompt" => kept[i] = run[i]
             /\ run[i].k = "prompt" => kept[i].lines = run[i].lines
             /\ \A v : ReadBlock(v, kept[i]) = ReadBlock(v, run[i])
        /\ told # NoSnap /\ Prompted(run) => RetainedSnapshot(kept) = told
    BY <1>1, RetainKeeps
  <2> HIDE DEF kept
  <2>4. Paired(run) /\ Prompted(run) /\ Shows(run, told)
    BY <1>1 DEF Tells
  <2>5. Paired(kept) /\ Prompted(kept)
    BY <2>3, <2>4, PairedSame
  <2>6. View(kept) = View(run)
    BY <1>1, <2>2, <2>3, ViewSame
  <2>8. Shows(kept, told)
    <3>1. ASSUME NEW p, Superseded(run, p) PROVE Superseded(kept, p)
      <4>1. PICK i \in DOMAIN run :
              run[i].k = "prompt" /\ \E q \in run[i].lines : q[1] = p[1] /\ q[2] > p[2]
        BY <3>1 DEF Superseded
      <4>2. i \in 1..Len(run) /\ DOMAIN kept = 1..Len(run)
        BY <1>1, <2>2, <2>3, <4>1, LenProperties
      <4>3. kept[i].k = "prompt" /\ kept[i].lines = run[i].lines
        BY <2>3, <4>1, <4>2
      <4> QED BY <4>1, <4>2, <4>3 DEF Superseded
    <3> QED BY <2>4, <2>6, <3>1 DEF Shows, View
  <2>7. OpenCalls(kept) = OpenCalls(run)
    <3>1. /\ Last(kept) = kept[Len(run)] /\ Last(run) = run[Len(run)]
          /\ Len(run) \in 1..Len(run)
      BY <1>1, <2>2, <2>3, LenProperties, EmptySeq DEF Last
    <3> QED
      BY <2>3, <3>1 DEF OpenCalls
  <2> QED
    BY <1>1, <2>1, <2>2, <2>3, <2>4, <2>5, <2>7, <2>8 DEF Tells
<1>3. CASE ~(ckpt = <<>> /\ drive.spent = NoUsage)
  BY <1>1, <1>3 DEF Outcome
<1> QED
  BY <1>2, <1>3

LEMMA AppendTwo ==
    ASSUME NEW S, NEW s \in Seq(S), NEW a \in S, NEW b \in S
    PROVE  s \o <<a, b>> = Append(Append(s, a), b)
OBVIOUS

LEMMA TalkInit == ConvInit => TalkInv
<1> SUFFICES ASSUME ConvInit PROVE TalkInv
  OBVIOUS
<1>1. fact \in [Facts -> -1..MaxFactRev]
  <2>1. fact \in [Facts -> 0..1] /\ MaxFactRev \in Nat \ {0}
    BY ConversationAssumption DEF ConvInit
  <2>2. 0..1 \subseteq -1..MaxFactRev
    BY <2>1
  <2> QED
    BY <2>1, <2>2
<1>2. told \in Snapshots /\ Known(told) /\ ckpt = <<>> /\ request = <<>> /\ cPhase = "idle"
  BY DEF ConvInit, Snapshots, Once, Known
<1>3. Paired(hist) /\ RetainedSnapshot(hist) = NoSnap
  <2>1. CASE hist = <<>>
    <3>1. DOMAIN <<>> = {} /\ Len(<<>>) = 0
      BY EmptySeq
    <3>2. Paired(<<>>) /\ RetainedSnapshot(<<>>) = NoSnap
      BY <3>1 DEF Paired, RetainedSnapshot
    <3> QED
      BY <2>1, <3>2
  <2>2. CASE \E m \in Facts : hist = <<Legacy(m), Summary>>
    <3>1. PICK m \in Facts : hist = <<Legacy(m), Summary>>
      BY <2>2
    <3>2. /\ Len(hist) = 2 /\ DOMAIN hist = 1..2 /\ hist[1] = Legacy(m) /\ hist[2] = Summary
      BY <3>1
    <3>3. /\ hist[1].k = "prompt" /\ hist[1].snap = NoSnap
          /\ hist[2].k = "response" /\ hist[2].calls = {}
      BY <3>2 DEF Legacy, Prompt, Summary, Response
    <3>4. Paired(hist)
      BY <3>2, <3>3 DEF Paired, PairedAt
    <3>5. \A i \in DOMAIN hist : ~(hist[i].k = "prompt" /\ hist[i].snap # NoSnap)
      BY <3>2, <3>3
    <3>6. RetainedSnapshot(hist) = NoSnap
      BY <3>5 DEF RetainedSnapshot
    <3> QED
      BY <3>4, <3>6
  <2> QED
    BY <2>1, <2>2 DEF ConvInit
<1> QED
  BY <1>1, <1>2, <1>3 DEF TalkInv, RequestIsComplete

LEMMA KnownStays ==
    ASSUME fact \in [Facts -> -1..MaxFactRev], NEW S \in Snapshots, Known(S),
           UNCHANGED fact \/ FactChanges
    PROVE  \A p \in S : fact'[p[1]] = -1 \/ fact'[p[1]] >= p[2]
<1> SUFFICES ASSUME NEW p \in S PROVE fact'[p[1]] = -1 \/ fact'[p[1]] >= p[2]
  OBVIOUS
<1>1. fact[p[1]] = -1 \/ fact[p[1]] >= p[2]
  BY DEF Known
<1>2. p[1] \in Facts /\ p[2] \in 1..MaxFactRev /\ MaxFactRev \in Nat
  BY ConversationAssumption DEF Snapshots
<1>3. CASE UNCHANGED fact
  BY <1>1, <1>3
<1>4. CASE FactChanges
  <2>1. PICK m \in Facts : \/ fact[m] \in 0 .. (MaxFactRev - 1) /\ fact' = [fact EXCEPT ![m] = fact[m] + 1]
                           \/ fact[m] > 0 /\ fact' = [fact EXCEPT ![m] = -1]
    BY <1>4 DEF FactChanges
  <2>2. CASE m = p[1]
    BY <1>1, <1>2, <2>1, <2>2
  <2>3. CASE m # p[1]
    BY <1>1, <1>2, <2>1, <2>3
  <2> QED BY <2>2, <2>3
<1> QED BY <1>3, <1>4

LEMMA TalkStep == PricedInv /\ PricedInv' /\ TalkInv /\ [ConvNext]_cVars => TalkInv'
<1> SUFFICES ASSUME PricedInv, PricedInv', TalkInv, [ConvNext]_cVars PROVE TalkInv'
  OBVIOUS
<1>t. ConvTypeOK /\ ConvTypeOK' /\ UsageInv
  BY DEF PricedInv
<1>u. fact \in [Facts -> -1..MaxFactRev] /\ told \in Snapshots /\ Known(told) /\ RequestIsComplete
  BY DEF TalkInv
<1>v. cPhase # "idle" => run # <<>> /\ (cPhase = "waiting" => ckpt # <<>>)
  BY <1>t DEF UsageInv
(* A step that neither begins a turn nor sends a request.                    *)
<1>a. ASSUME UNCHANGED told, fact' \in [Facts -> -1..MaxFactRev], request' \in {request, <<>>},
             UNCHANGED fact \/ FactChanges,
             UNCHANGED hist \/ (hist' = Outcome /\ cPhase = "ended"),
             ckpt' \in {ckpt, <<>>} \/ (ckpt' = Outcome /\ cPhase = "ended"),
             cPhase' \in {"ready", "sent", "ended"} =>
                /\ Tells(run', told)
                /\ ckpt' # <<>> \/ drive'.spent # NoUsage => RetainedSnapshot(run') = told
      PROVE  TalkInv'
  <2>1. cPhase = "ended" => Tells(Outcome, told) /\ RetainedSnapshot(Outcome) = told
    BY <1>t, <1>v, OutcomeTells
  <2>2. /\ Paired(hist')
        /\ RetainedSnapshot(hist') # NoSnap =>
              /\ Shows(hist', RetainedSnapshot(hist'))
              /\ RetainedSnapshot(hist') \in Snapshots /\ Known(RetainedSnapshot(hist))'
    <3>1. CASE UNCHANGED hist
      <4>1. RetainedSnapshot(hist) # NoSnap => Known(RetainedSnapshot(hist))'
        BY <1>a, <1>u, <3>1, KnownStays DEF TalkInv, Known
      <4> QED BY <3>1, <4>1 DEF TalkInv
    <3>2. CASE hist' = Outcome /\ cPhase = "ended"
      <4>1. RetainedSnapshot(hist') = told /\ Tells(hist', told)
        BY <2>1, <3>2
      <4>2. Known(RetainedSnapshot(hist))'
        BY <1>a, <1>u, <4>1, KnownStays DEF Known
      <4> QED BY <1>u, <4>1, <4>2 DEF Tells
    <3> QED BY <1>a, <3>1, <3>2
  <2>3. ckpt' # <<>> => Tells(ckpt', told) /\ RetainedSnapshot(ckpt') = told
    BY <1>a, <2>1 DEF TalkInv
  <2>5. Known(told)'
    BY <1>a, <1>u, KnownStays DEF Known
  <2>4. RequestIsComplete'
    <3>1. CASE request' = request
      BY <1>a, <1>u, <3>1 DEF RequestIsComplete
    <3>2. CASE request' = <<>>
      BY <3>2 DEF RequestIsComplete
    <3> QED
      BY <1>a, <3>1, <3>2
  <2> QED
    BY <1>a, <1>u, <2>2, <2>3, <2>4, <2>5 DEF TalkInv
<1>b. ASSUME cPhase \in {"ready", "sent", "ended"}
      PROVE  /\ run \in Seq(Messages) /\ run # <<>> /\ Tells(run, told)
             /\ ckpt # <<>> \/ drive.spent # NoUsage => RetainedSnapshot(run) = told
  BY <1>b, <1>t, <1>v DEF ConvTypeOK, TalkInv
<1>1. CASE FactChanges
  <2>1. fact' \in [Facts -> -1..MaxFactRev]
    <3>1. PICK m \in Facts : \/ fact[m] \in 0 .. (MaxFactRev - 1) /\ fact' = [fact EXCEPT ![m] = fact[m] + 1]
                             \/ fact[m] > 0 /\ fact' = [fact EXCEPT ![m] = -1]
      BY <1>1 DEF FactChanges
    <3>2. MaxFactRev \in Nat
      BY ConversationAssumption
    <3>3. fact[m] \in 0 .. (MaxFactRev - 1) => fact[m] + 1 \in -1..MaxFactRev
      BY <3>2
    <3>4. -1 \in -1..MaxFactRev
      BY <3>2
    <3> QED
      BY <1>u, <3>1, <3>3, <3>4
  <2> QED
    BY <1>1, <1>a, <1>b, <2>1 DEF FactChanges
<1>2. CASE BeginTurn
  <2>1. /\ run' = Append(hist, WithMemories(hist)) /\ told' = Current /\ cPhase' = "ready"
        /\ request' = <<>> /\ ckpt' = <<>> /\ drive'.spent = NoUsage /\ UNCHANGED <<fact, hist>>
    BY <1>2 DEF BeginTurn
  <2>2. /\ hist \in Seq(Messages) /\ fact \in [Facts -> Int] /\ Current \in Snapshots
        /\ Paired(hist)
        /\ RetainedSnapshot(hist) # NoSnap =>
              /\ Shows(hist, RetainedSnapshot(hist))
              /\ RetainedSnapshot(hist) \in Snapshots /\ Known(RetainedSnapshot(hist))
    BY <1>t, <1>u, CurrentSnapshot DEF ConvTypeOK, TalkInv
  <2> DEFINE m == WithMemories(hist)
  <2>3. m \in Messages /\ m.k = "prompt"
    <3>1. m \in Messages
      BY <2>2, WithMemoriesType
    <3>2. m.k = "prompt"
      BY DEF WithMemories, UserBlock, Prompt
    <3> QED
      BY <3>1, <3>2
  <2>4. Shows(Append(hist, m), Current)
    BY <2>2, PromptTells
  <2> HIDE DEF m
  <2>5. Paired(Append(hist, m))
    BY <2>2, <2>3, PairedGrows
  <2>6. Prompted(Append(hist, m))
    <3>1. Len(Append(hist, m)) = Len(hist) + 1 /\ Len(hist) \in Nat /\ Append(hist, m)[Len(hist) + 1] = m
      BY <2>2, <2>3, AppendProperties, LenProperties
    <3> QED
      BY <2>3, <3>1 DEF Prompted
  <2>7. Tells(run', told')
    BY <2>1, <2>4, <2>5, <2>6 DEF Tells, m
  <2>8. RequestIsComplete'
    BY <2>1 DEF RequestIsComplete
  <2> QED
    <3>1. Known(told)'
      <4>1. ASSUME NEW p \in Current PROVE fact[p[1]] >= p[2]
        <5>1. PICK f \in Facts : p = <<f, fact[f]>>
          BY <4>1 DEF Current
        <5>2. fact[f] \in Int
          BY <2>2
        <5> QED BY <5>1, <5>2
      <4> QED BY <2>1, <4>1 DEF Known
    <3>2. RetainedSnapshot(hist') # NoSnap =>
              /\ Shows(hist', RetainedSnapshot(hist'))
              /\ RetainedSnapshot(hist') \in Snapshots /\ Known(RetainedSnapshot(hist))'
      BY <2>1, <2>2 DEF Known
    <3> QED BY <1>u, <2>1, <2>2, <2>7, <2>8, <3>1, <3>2 DEF TalkInv
<1>3. CASE Steer
  <2>1. PlainPrompt \in Messages /\ PlainPrompt.k = "prompt" /\ ~Keeps(PlainPrompt) /\ PlainPrompt.snap = NoSnap
    BY MessageTypes DEF PlainPrompt, Prompt, Keeps, CarriesMemories
  <2>2. cPhase = "ready" /\ run' = Append(run, PlainPrompt)
        /\ UNCHANGED <<fact, cPhase, hist, ckpt, request, told, drive>>
    BY <1>3 DEF Steer
  <2>3. Tells(run', told) /\ RetainedSnapshot(run') = RetainedSnapshot(run)
    BY <1>b, <2>1, <2>2, TellsOn
  <2> QED
    BY <1>a, <1>b, <1>u, <2>2, <2>3
<1>4. CASE SendRequest
  <2>1. /\ cPhase = "ready" /\ cPhase' = "sent" /\ request' \in {Compacted(run), run}
        /\ drive'.spent = drive.spent /\ UNCHANGED <<fact, hist, ckpt, run, told>>
    <3>1. drive \in [spent : Usages, n : Nat]
      BY <1>t DEF ConvTypeOK
    <3> QED
      BY <1>4, <3>1 DEF SendRequest
  <2>2. Paired(run) /\ Shows(run, told) /\ run \in Seq(Messages)
    BY <1>b, <2>1 DEF Tells
  <2>3. /\ request' \in Seq(Messages) /\ Whole(request') /\ View(request') = View(run)
        /\ \A p : Superseded(run, p) => Superseded(request', p)
    BY <2>1, <2>2, CompactedReads
  <2>4. RequestIsComplete'
    <3>1. \A i \in DOMAIN request' : request'[i].k = "return" =>
              request'[i].calls \subseteq
                  UNION {request'[j].calls : j \in {l \in 1 .. i : request'[l].k = "response"}}
      BY <2>3, WholeIsComplete
    <3>2. Shows(request', told')
      BY <2>1, <2>2, <2>3 DEF Shows, View
    <3> QED
      BY <3>1, <3>2 DEF RequestIsComplete
  <2> QED
    BY <1>b, <1>u, <2>1, <2>4 DEF TalkInv, Known
<1>5. CASE ModelAnswers
  <2> DEFINE id == {Len(run) + 1}
  <2>1. /\ cPhase = "sent" /\ cPhase' \in {"ready", "ended"}
        /\ UNCHANGED <<fact, hist, ckpt, request, told, drive>>
    BY <1>5 DEF ModelAnswers
  <2>2. run \in Seq(Messages) /\ Tells(run, told) /\ Len(run) \in Nat
    BY <1>b, <2>1, LenProperties
  <2>0. id \in SUBSET Nat
    BY <2>2
  <2>3. ASSUME NEW cap \in BOOLEAN
        PROVE  /\ Append(run, Response(id, cap)) \in Seq(Messages)
               /\ Tells(Append(run, Response(id, cap)), told)
               /\ RetainedSnapshot(Append(run, Response(id, cap))) = RetainedSnapshot(run)
    <3>1. /\ Response(id, cap) \in Messages /\ Response(id, cap).k = "response"
          /\ Response(id, cap).calls = {Len(run) + 1}
      BY <2>0, MessageTypes DEF Response
    <3> QED
      BY <2>2, <3>1, TellsOn, AppendProperties
  <2>4. CASE run' = Append(run, Summary)
    <3>1. Summary \in Messages /\ Summary.k = "response" /\ Summary.calls = {}
      BY MessageTypes DEF Summary, Response
    <3>2. Tells(run', told) /\ RetainedSnapshot(run') = RetainedSnapshot(run)
      BY <2>2, <2>4, <3>1, TellsOn
    <3> QED
      BY <1>a, <1>b, <1>u, <2>1, <3>2
  <2>5. CASE run' = Append(run, Response(id, FALSE))
    BY <1>a, <1>b, <1>u, <2>1, <2>3, <2>5
  <2>6. CASE \E cap \in BOOLEAN : run' = run \o <<Response(id, cap), Return(id, cap)>>
    <3>1. PICK cap \in BOOLEAN : run' = run \o <<Response(id, cap), Return(id, cap)>>
      BY <2>6
    <3> DEFINE a == Response(id, cap)
               b == Return(id, cap)
               more == Append(run, a)
    <3>2. /\ a \in Messages /\ b \in Messages
          /\ a.k = "response" /\ a.calls = {Len(run) + 1} /\ a.cap = cap
          /\ b.k = "return" /\ b.calls = {Len(run) + 1} /\ b.cap = cap
      BY <2>0, MessageTypes DEF Response, Return
    <3>3. /\ more \in Seq(Messages) /\ Tells(more, told)
          /\ RetainedSnapshot(more) = RetainedSnapshot(run)
      BY <2>3
    <3>4. run' = Append(more, b)
      <4>1. run' = run \o <<a, b>>
        BY <3>1
      <4>2. a \in Messages /\ b \in Messages /\ run \in Seq(Messages)
        BY <2>2, <3>2
      <4> HIDE DEF a, b
      <4> QED
        BY <4>1, <4>2, AppendTwo
    <3> HIDE DEF a, b
    <3>5. Len(more) = Len(run) + 1 /\ more[Len(run) + 1] = a
      BY <2>2, <3>2, AppendProperties
    <3> HIDE DEF more
    <3>6. \A c \in b.calls : /\ c \in 1..Len(more) /\ more[c].k = "response" /\ c \in more[c].calls
                             /\ b.cap => more[c].cap
      BY <2>2, <3>2, <3>5
    <3>7. Tells(run', told) /\ RetainedSnapshot(run') = RetainedSnapshot(run)
      BY <3>2, <3>3, <3>4, <3>6, TellsOn
    <3> QED
      BY <1>a, <1>b, <1>u, <2>1, <3>7
  <2> QED
    BY <1>5, <2>4, <2>5, <2>6 DEF ModelAnswers
<1>6. CASE AutoApprove
  <2>1. /\ cPhase = "ended" /\ run' = Append(Outcome, Return(OpenCalls(run), FALSE))
        /\ UNCHANGED <<fact, hist, ckpt, request, told>>
    BY <1>6 DEF AutoApprove
  <2>2. /\ Outcome \in Seq(Messages) /\ Outcome # <<>> /\ OpenCalls(Outcome) = OpenCalls(run)
        /\ Tells(Outcome, told) /\ RetainedSnapshot(Outcome) = told
    BY <1>t, <1>v, <2>1, OutcomeTells
  <2>3. run' = Append(Outcome, Return(OpenCalls(Outcome), FALSE))
    BY <2>1, <2>2
  <2>4. Tells(run', told) /\ RetainedSnapshot(run') = told
    BY <2>2, <2>3, ReturnOn
  <2> QED
    BY <1>a, <1>u, <2>1, <2>4
<1>7. CASE Pause
  BY <1>7, <1>a, <1>u DEF Pause
<1>8. CASE Done
  BY <1>8, <1>a, <1>u DEF Done, Forget
<1>9. CASE ResumeDrive
  <2>1. /\ cPhase = "waiting" /\ run' = Append(ckpt, Return(OpenCalls(ckpt), FALSE))
        /\ UNCHANGED <<fact, hist, ckpt, request, told>>
    BY <1>9 DEF ResumeDrive
  <2>2. ckpt # <<>> /\ ckpt \in Seq(Messages) /\ Tells(ckpt, told) /\ RetainedSnapshot(ckpt) = told
    BY <1>t, <1>v, <2>1 DEF ConvTypeOK, TalkInv
  <2>3. Tells(run', told) /\ RetainedSnapshot(run') = told
    BY <2>1, <2>2, ReturnOn
  <2> QED
    BY <1>a, <1>u, <2>1, <2>3
<1>10. CASE DriveStops
  BY <1>10, <1>a, <1>u DEF DriveStops, Forget
<1>11. CASE CancelPaused
  BY <1>11, <1>a, <1>u DEF CancelPaused, Forget
<1>12. CASE HostRestarts
  <2>1. CASE ckpt = <<>>
    BY <1>12, <1>a, <1>u, <2>1 DEF HostRestarts, Forget
  <2>2. CASE ckpt # <<>>
    BY <1>12, <1>a, <1>u, <2>2 DEF HostRestarts
  <2> QED
    BY <2>1, <2>2
<1>13. CASE UNCHANGED cVars
  BY <1>13, <1>a, <1>b, <1>u DEF cVars
<1> QED
  BY <1>1, <1>2, <1>3, <1>4, <1>5, <1>6, <1>7, <1>8, <1>9, <1>10, <1>11, <1>12, <1>13 DEF ConvNext

(* Every request shows the model the memories its turn began with, beside     *)
(* them only texts that a newer one follows, and holds the call of each tool  *)
(* return (with_memories, retain_snapshot, compact_messages, _split_point),   *)
(* for any number of memories, revisions, turns and requests, and any number  *)
(* of messages kept.                                                         *)
THEOREM RequestsComplete == ConvSpec => []RequestIsComplete
<1>1. ConvInit => PricedInv /\ TalkInv
  BY PricedInit, TalkInit
<1>2. (PricedInv /\ TalkInv) /\ [ConvNext]_cVars => (PricedInv /\ TalkInv)'
  BY PricedStep, TalkStep
<1>3. PricedInv /\ TalkInv => RequestIsComplete
  BY DEF TalkInv
<1> QED
  BY <1>1, <1>2, <1>3, PTL DEF ConvSpec

-----------------------------------------------------------------------------
(* Memories. Every byte of pinned text is stored or held by one turn's batch. *)

MemRows == [tier : Tiers, size : Sizes, rev : Int, by : MemTurns]
Inserts == [id : Mems, tier : Tiers, size : Sizes, rev : Int]
Promotions == [id : Mems, rev : Int]
MemBatches == [ins : SUBSET Inserts, del : SUBSET Mems, pins : Seq(Promotions)]
MemCalls ==
    [op : {"save", "restage", "pin", "tier", "text"}, id : Mems, tier : Tiers, size : Int,
     extra : Int, excluding : Mems \cup {NoEntry}, snap : SUBSET MemBatches]

MemTypes ==
    /\ memRow \in [Mems -> MemRows \cup {NoEntry}]
    /\ born \subseteq Mems
    /\ staged \in [MemTurns -> MemBatches \cup {NoEntry}]
    /\ writing \in [MemTurns -> MemBatches \cup {NoEntry}]
    /\ memTurn \in [MemTurns -> {"running", "waiting", "ending", "written"} \cup Over]
    /\ memCall \in [Actors -> MemCalls \cup {NoEntry}]
    /\ \A t \in MemTurns : writing[t] # NoEntry => memTurn[t] = "written" /\ staged[t] = NoEntry

(* The batch of a turn, its inserts, and the rows it promotes.               *)
HeldBatch(t) == IF writing[t] = NoEntry THEN staged[t] ELSE writing[t]
InsOf(t) == IF HeldBatch(t) = NoEntry THEN {} ELSE HeldBatch(t).ins
PinsOf(t) ==
    IF HeldBatch(t) = NoEntry THEN {}
    ELSE {HeldBatch(t).pins[i].id : i \in DOMAIN HeldBatch(t).pins}

Inserted(m) == \E t \in MemTurns : \E r \in InsOf(t) : r.id = m
Pledged(m) == \E t \in MemTurns : m \in PinsOf(t)

(* An insert is not stored yet, nobody promotes it, and one batch has it.    *)
InsertInv ==
    /\ \A m \in Mems : Inserted(m) => m \in born /\ ~Stored(m) /\ ~Pledged(m)
    /\ \A m \in Mems : Stored(m) \/ Pledged(m) => m \in born
    /\ \A t, u \in MemTurns : \A r \in InsOf(t), s \in InsOf(u) : r.id = s.id => t = u /\ r = s

(* What a call that holds the lock has read, and what is true of it now:     *)
(* batches may have been committed or dropped since, nothing else.           *)
SnapInv(c) ==
    /\ \A t \in MemTurns : HeldBatch(t) # NoEntry => HeldBatch(t) \in c.snap
    /\ \A b, d \in c.snap : \A r \in b.ins, s \in d.ins : r.id = s.id => r = s
    /\ \A b \in c.snap : \A r \in b.ins : Stored(r.id) => memRow[r.id].size = r.size

(* The call asks for the room that its pin takes.                            *)
Asked(c) == Stored(c.id) => memRow[c.id].tier = "pinned" \/ c.extra = memRow[c.id].size

OpInv(a, c) ==
    /\ c.op = "save" =>
         /\ c.size \in Sizes /\ (c.tier = "pinned" => c.extra = c.size) /\ c.excluding = NoEntry
         /\ c.id \in born /\ ~Stored(c.id) /\ ~Inserted(c.id) /\ ~Pledged(c.id)
    /\ c.op = "restage" =>
         /\ c.excluding = c.id /\ c.tier = "pinned"
         /\ \E r \in InsOf(a) :
               r.id = c.id /\ r.size = c.size /\ (r.tier = "pinned" \/ c.extra = c.size)
    /\ c.op \in {"pin", "tier", "text"} => c.id \in born /\ ~Inserted(c.id)
    /\ c.op \in {"pin", "tier"} => c.excluding = c.id /\ (c.tier = "pinned" => Asked(c))
    /\ c.op = "pin" => c.tier = "pinned"
    /\ c.op = "text" =>
         /\ c.excluding = NoEntry /\ c.size \in Sizes
         /\ Stored(c.id) =>
              \/ memRow[c.id].tier = "pinned" /\ c.extra = c.size - memRow[c.id].size
              \/ c.size <= memRow[c.id].size
              \/ memRow[c.id].tier # "pinned" /\ c.id \notin Promised(c.snap)

CallInv ==
    \A a \in Actors : memCall[a] # NoEntry =>
        /\ memLock = a
        /\ a \in MemTurns => memTurn[a] = "running"
        /\ memCall[a].op \in {"save", "restage", "pin"} <=> a \in MemTurns
        /\ SnapInv(memCall[a]) /\ OpInv(a, memCall[a])

(* The pinned text, byte by byte: of inserts, and of rows pinned or promoted. *)
InsByte(m, k) ==
    \E t \in MemTurns : \E r \in InsOf(t) : r.id = m /\ r.tier = "pinned" /\ k <= r.size
RowByte(m, k) ==
    Stored(m) /\ (memRow[m].tier = "pinned" \/ Pledged(m)) /\ k <= memRow[m].size
HeldText == {p \in Mems \X Sizes : InsByte(p[1], p[2]) \/ RowByte(p[1], p[2])}

BudgetInv == Cardinality(HeldText) <= Budget

EarnedInv == \A m \in Mems : Stored(m) => memTurn[memRow[m].by] = "done"

MemInv == MemTypes /\ InsertInv /\ CallInv /\ BudgetInv /\ EarnedInv

(* A step that stores no row and adds nothing to a batch.                     *)
HeldShrinks == \A t \in MemTurns : InsOf(t)' \subseteq InsOf(t) /\ PinsOf(t)' \subseteq PinsOf(t)
RowsShrink == \A m \in Mems : Stored(m)' => Stored(m) /\ memRow'[m] = memRow[m]

(* A call that goes on: its lock, its turn and the batches are as they were. *)
CallsGoOn ==
    \A a \in Actors : memCall'[a] # NoEntry =>
        /\ memCall'[a] = memCall[a] /\ memLock' = memLock
        /\ a \in MemTurns => memTurn'[a] = "running" /\ InsOf(a)' = InsOf(a)
        /\ \A t \in MemTurns : HeldBatch(t)' # NoEntry => HeldBatch(t)' = HeldBatch(t)

-----------------------------------------------------------------------------
(* What a turn holds is typed.                                               *)
LEMMA HeldTypes ==
    ASSUME MemTypes, NEW t \in MemTurns
    PROVE  /\ HeldBatch(t) \in MemBatches \cup {NoEntry}
           /\ InsOf(t) \subseteq Inserts /\ PinsOf(t) \subseteq Mems
<1>1. HeldBatch(t) \in MemBatches \cup {NoEntry}
  BY DEF MemTypes, HeldBatch
<1>2. CASE HeldBatch(t) = NoEntry
  BY <1>1, <1>2 DEF InsOf, PinsOf
<1>3. CASE HeldBatch(t) # NoEntry
  <2>1. HeldBatch(t).ins \subseteq Inserts /\ HeldBatch(t).pins \in Seq(Promotions)
    BY <1>1, <1>3 DEF MemBatches
  <2>2. ASSUME NEW i \in DOMAIN HeldBatch(t).pins PROVE HeldBatch(t).pins[i].id \in Mems
    <3>1. HeldBatch(t).pins[i] \in Promotions
      BY <2>1, ElementOfSeq, LenProperties
    <3> QED
      BY <3>1 DEF Promotions
  <2> QED
    BY <1>1, <1>3, <2>1, <2>2 DEF InsOf, PinsOf
<1> QED
  BY <1>2, <1>3

LEMMA TextFinite == IsFiniteSet(Mems \X Sizes) /\ IsFiniteSet(HeldText)
<1>1. IsFiniteSet(Sizes)
  BY MemoryAssumption, FS_Interval DEF Sizes
<1>2. IsFiniteSet(Mems \X Sizes)
  BY <1>1, MemoryAssumption, FS_Product
<1>3. HeldText \in SUBSET (Mems \X Sizes)
  BY DEF HeldText
<1> QED
  BY <1>2, <1>3, FS_Subset

LEMMA TextShrinks ==
    ASSUME BudgetInv, HeldText' \subseteq HeldText
    PROVE  BudgetInv'
<1>1. IsFiniteSet(HeldText') /\ Cardinality(HeldText') <= Cardinality(HeldText)
  BY TextFinite, FS_Subset
<1>2. Cardinality(HeldText) \in Nat /\ Cardinality(HeldText') \in Nat
  BY <1>1, TextFinite, FS_CardinalityType
<1> QED
  BY <1>1, <1>2, MemoryAssumption DEF BudgetInv

LEMMA ShrinkKeeps ==
    ASSUME InsertInv, BudgetInv, HeldShrinks, RowsShrink, born \subseteq born'
    PROVE  InsertInv' /\ BudgetInv'
<1>1. InsertInv'
  BY DEF InsertInv, HeldShrinks, RowsShrink, Inserted, Pledged
<1>2. ASSUME NEW m \in Mems, NEW k
      PROVE  /\ InsByte(m, k)' => InsByte(m, k)
             /\ RowByte(m, k)' => RowByte(m, k)
  BY DEF HeldShrinks, RowsShrink, InsByte, RowByte, Pledged
<1>3. HeldText' \subseteq HeldText
  BY <1>2 DEF HeldText
<1> QED
  BY <1>1, <1>3, TextShrinks

LEMMA NoCalls ==
    ASSUME CallInv, memLock = NoEntry
    PROVE  \A a \in Actors : memCall[a] = NoEntry
BY MemoryAssumption DEF CallInv, Actors

LEMMA OneCall ==
    ASSUME CallInv, NEW a \in Actors, memCall[a] # NoEntry
    PROVE  \A b \in Actors : memCall[b] # NoEntry => b = a
BY DEF CallInv

LEMMA SnapTypes ==
    ASSUME MemTypes, NEW a \in Actors, memCall[a] # NoEntry
    PROVE  /\ memCall[a].id \in Mems /\ memCall[a].extra \in Int /\ memCall[a].size \in Int
           /\ memCall[a].tier \in Tiers /\ memCall[a].excluding \in Mems \cup {NoEntry}
           /\ memCall[a].snap \subseteq MemBatches
           /\ \A b \in memCall[a].snap : b.ins \subseteq Inserts
BY DEF MemTypes, MemCalls, MemBatches

LEMMA CallsKept ==
    ASSUME MemTypes, CallInv, CallsGoOn, HeldShrinks, RowsShrink, born \subseteq born'
    PROVE  CallInv'
<1> SUFFICES ASSUME NEW a \in Actors, memCall'[a] # NoEntry
             PROVE  /\ memLock' = a
                    /\ a \in MemTurns => memTurn'[a] = "running"
                    /\ memCall'[a].op \in {"save", "restage", "pin"} <=> a \in MemTurns
                    /\ SnapInv(memCall[a])' /\ OpInv(a, memCall[a])'
  BY DEF CallInv
<1>1. /\ memCall'[a] = memCall[a] /\ memLock' = memLock
      /\ a \in MemTurns => memTurn'[a] = "running" /\ InsOf(a)' = InsOf(a)
      /\ \A t \in MemTurns : HeldBatch(t)' # NoEntry => HeldBatch(t)' = HeldBatch(t)
  BY DEF CallsGoOn
<1>2. /\ memLock = a
      /\ memCall[a].op \in {"save", "restage", "pin"} <=> a \in MemTurns
      /\ SnapInv(memCall[a]) /\ OpInv(a, memCall[a])
  BY <1>1 DEF CallInv
<1>3. \A m \in Mems : (Inserted(m)' => Inserted(m)) /\ (Pledged(m)' => Pledged(m))
  BY DEF HeldShrinks, Inserted, Pledged
<1>4. memCall[a].id \in Mems /\ \A b \in memCall[a].snap : b.ins \subseteq Inserts
  BY <1>1, SnapTypes
<1>5. SnapInv(memCall[a])'
  <2>1. ASSUME NEW b \in memCall[a].snap, NEW r \in b.ins, Stored(r.id)'
        PROVE  memRow'[r.id].size = r.size
    <3>1. r.id \in Mems
      BY <1>4 DEF Inserts
    <3> QED
      BY <1>2, <2>1, <3>1 DEF SnapInv, RowsShrink
  <2> QED
    BY <1>1, <1>2, <2>1 DEF SnapInv
<1>6. OpInv(a, memCall[a])'
  <2> DEFINE c == memCall[a]
  <2>1. Stored(c.id)' => Stored(c.id) /\ memRow'[c.id] = memRow[c.id]
    BY <1>1, <1>4 DEF RowsShrink
  <2>2. /\ Inserted(c.id)' => Inserted(c.id)
        /\ Pledged(c.id)' => Pledged(c.id)
    BY <1>1, <1>3, <1>4
  <2>3. c.op = "restage" => a \in MemTurns /\ InsOf(a)' = InsOf(a)
    BY <1>1, <1>2
  <2> QED
    BY <1>1, <1>2, <2>1, <2>2, <2>3 DEF OpInv, Asked, Promised
<1> QED
  BY <1>1, <1>2, <1>5, <1>6

-----------------------------------------------------------------------------
(* What is held now was in what the call read, or is a row it reads now.     *)
LEMMA SnapCovers ==
    ASSUME MemTypes, NEW a \in Actors, memCall[a] # NoEntry, SnapInv(memCall[a])
    PROVE  LET c == memCall[a]
           IN  /\ {p \in HeldText : p[1] # c.excluding} \subseteq PinnedText(c.snap, c.excluding)
               /\ IsFiniteSet(PinnedText(c.snap, c.excluding))
<1> DEFINE c == memCall[a]
           ins == {r \in UNION {b.ins : b \in c.snap} : r.tier = "pinned"}
           kept == {m \in Mems : /\ Stored(m)
                                 /\ \A r \in ins : r.id # m
                                 /\ memRow[m].tier = "pinned" \/ m \in Promised(c.snap)}
           added == {Bytes(r.id, r.size) : r \in {i \in ins : i.id # c.excluding}}
           texts == {Bytes(m, memRow[m].size) : m \in kept \ {c.excluding}}
           text == (UNION added) \cup (UNION texts)
<1>1. PinnedText(c.snap, c.excluding) = text
  BY DEF PinnedText
<1>2. \A r \in ins : r.id \in Mems /\ r.size \in Sizes
  BY SnapTypes DEF Inserts
<1>3. \A m \in Mems : Stored(m) => memRow[m].size \in Sizes
  BY DEF MemTypes, Stored, MemRows
<1>4. \A t \in MemTurns : \A r \in InsOf(t) : \E b \in c.snap : r \in b.ins
  BY DEF SnapInv, InsOf
<1>5. \A m \in Mems : Pledged(m) => m \in Promised(c.snap)
  BY DEF SnapInv, Pledged, PinsOf, Promised
<1>6. ASSUME NEW m \in Mems \ {c.excluding}, NEW k \in Sizes, InsByte(m, k)
      PROVE  <<m, k>> \in text
  <2>0. PICK t \in MemTurns : \E r \in InsOf(t) : r.id = m /\ r.tier = "pinned" /\ k <= r.size
    BY <1>6 DEF InsByte
  <2>1. PICK r \in InsOf(t) : r.id = m /\ r.tier = "pinned" /\ k <= r.size
    BY <2>0
  <2>2. r \in ins /\ r.id # c.excluding
    BY <1>4, <2>1
  <2>3. <<m, k>> \in Bytes(r.id, r.size)
    BY <1>2, <2>1, <2>2, MemoryAssumption DEF Bytes, Sizes
  <2> QED
    BY <2>2, <2>3
<1>7. ASSUME NEW m \in Mems \ {c.excluding}, NEW k \in Sizes, RowByte(m, k)
      PROVE  <<m, k>> \in text
  <2>1. Stored(m) /\ (memRow[m].tier = "pinned" \/ m \in Promised(c.snap)) /\ k <= memRow[m].size
    BY <1>5, <1>7 DEF RowByte
  <2>2. CASE \E r \in ins : r.id = m
    <3>1. PICK r \in ins : r.id = m
      BY <2>2
    <3>2. memRow[m].size = r.size
      BY <2>1, <3>1 DEF SnapInv
    <3>3. <<m, k>> \in Bytes(r.id, r.size)
      BY <1>2, <2>1, <3>1, <3>2, MemoryAssumption DEF Bytes, Sizes
    <3> QED
      BY <3>1, <3>3
  <2>3. CASE \A r \in ins : r.id # m
    <3>1. m \in kept \ {c.excluding}
      BY <2>1, <2>3
    <3>2. <<m, k>> \in Bytes(m, memRow[m].size)
      BY <1>3, <2>1, MemoryAssumption DEF Bytes, Sizes
    <3>3. Bytes(m, memRow[m].size) \in texts
      <4> HIDE DEF kept
      <4> QED
        BY <3>1
    <3> HIDE DEF texts, added
    <3> QED
      BY <3>2, <3>3
  <2> QED
    BY <2>2, <2>3
<1>8. {p \in HeldText : p[1] # c.excluding} \subseteq text
  <2> SUFFICES ASSUME NEW p \in HeldText, p[1] # c.excluding PROVE p \in text
    OBVIOUS
  <2> HIDE DEF text
  <2>1. PICK m \in Mems, k \in Sizes : p = <<m, k>>
    BY DEF HeldText
  <2>2. m # c.excluding /\ (InsByte(m, k) \/ RowByte(m, k))
    BY <2>1 DEF HeldText
  <2> QED
    BY <1>6, <1>7, <2>1, <2>2
<1>9. text \in SUBSET (Mems \X Sizes)
  <2>1. ASSUME NEW m \in Mems, NEW size \in Sizes PROVE Bytes(m, size) \subseteq Mems \X Sizes
    BY MemoryAssumption DEF Bytes, Sizes
  <2>2. \A m \in kept : m \in Mems /\ memRow[m].size \in Sizes
    BY <1>3
  <2>3. ASSUME NEW p \in text PROVE p \in Mems \X Sizes
    <3>1. CASE \E r \in ins : p \in Bytes(r.id, r.size)
      BY <1>2, <2>1, <3>1
    <3>2. CASE \E m \in kept : p \in Bytes(m, memRow[m].size)
      BY <2>1, <2>2, <3>2
    <3>3. (\E r \in ins : p \in Bytes(r.id, r.size)) \/ (\E m \in kept : p \in Bytes(m, memRow[m].size))
      <4>1. CASE p \in UNION added
        <5> HIDE DEF ins
        <5>1. PICK r \in {i \in ins : i.id # c.excluding} : p \in Bytes(r.id, r.size)
          BY <4>1
        <5> QED
          BY <5>1
      <4>2. CASE p \in UNION texts
        <5> HIDE DEF kept
        <5>1. PICK m \in kept \ {c.excluding} : p \in Bytes(m, memRow[m].size)
          BY <4>2
        <5> QED
          BY <5>1
      <4> HIDE DEF added, texts
      <4> QED
        BY <2>3, <4>1, <4>2
    <3> QED
      BY <3>1, <3>2, <3>3
  <2> QED
    BY <2>3
<1>10. IsFiniteSet(text)
  BY <1>9, TextFinite, FS_Subset
<1> HIDE DEF text
<1> QED
  BY <1>1, <1>8, <1>10

LEMMA PledgedRead ==
    ASSUME NEW c, SnapInv(c), NEW m, Pledged(m)
    PROVE  m \in Promised(c.snap)
BY DEF SnapInv, Pledged, PinsOf, Promised

(* A call that was not over budget has room for what it asked for.           *)
LEMMA Fits ==
    ASSUME MemTypes, NEW a \in Actors, memCall[a] # NoEntry, SnapInv(memCall[a]),
           memCall[a].extra > 0, ~OverBudget(memCall[a]),
           NEW X, IsFiniteSet(X), Cardinality(X) <= memCall[a].extra,
           HeldText' \subseteq {p \in HeldText : p[1] # memCall[a].excluding} \cup X
    PROVE  BudgetInv'
<1> DEFINE c == memCall[a]
           others == {p \in HeldText : p[1] # c.excluding}
           read == PinnedText(c.snap, c.excluding)
<1>1. others \subseteq read /\ IsFiniteSet(read)
  BY SnapCovers
<1>2. Cardinality(read) + c.extra <= Budget /\ c.extra \in Int
  <2>1. c.extra \in Int
    BY SnapTypes
  <2>2. Cardinality(read) \in Nat
    BY <1>1, FS_CardinalityType
  <2> QED
    BY <2>1, <2>2, MemoryAssumption DEF OverBudget
<1> HIDE DEF read
<1>3. IsFiniteSet(others) /\ Cardinality(others) <= Cardinality(read)
  BY <1>1, FS_Subset
<1>4. IsFiniteSet(others \cup X)
      /\ Cardinality(others \cup X) = Cardinality(others) + Cardinality(X) - Cardinality(others \cap X)
  BY <1>3, FS_Union
<1>5. IsFiniteSet(others \cap X)
  BY <1>3, FS_Subset
<1>6. HeldText' \in SUBSET (others \cup X)
  OBVIOUS
<1>7. Cardinality(HeldText') <= Cardinality(others \cup X) /\ IsFiniteSet(HeldText')
  BY <1>4, <1>6, FS_Subset
<1>8. /\ Cardinality(others) \in Nat /\ Cardinality(X) \in Nat /\ Cardinality(read) \in Nat
      /\ Cardinality(others \cap X) \in Nat /\ Cardinality(others \cup X) \in Nat
      /\ Cardinality(HeldText') \in Nat
  BY <1>1, <1>3, <1>4, <1>5, <1>7, FS_CardinalityType
<1> HIDE DEF others, c
<1>9. Cardinality(X) <= c.extra
  BY DEF c
<1>10. Cardinality(HeldText') <= Budget
  BY <1>2, <1>3, <1>4, <1>7, <1>8, <1>9, MemoryAssumption
<1> QED
  BY <1>10 DEF BudgetInv

LEMMA BytesCount ==
    ASSUME NEW m, NEW lo \in Nat, NEW hi \in Nat, lo <= hi
    PROVE  /\ IsFiniteSet({m} \X ((lo + 1) .. hi))
           /\ Cardinality({m} \X ((lo + 1) .. hi)) = hi - lo
<1>1. IsFiniteSet({m}) /\ Cardinality({m}) = 1
  BY FS_Singleton
<1>2. IsFiniteSet((lo + 1) .. hi) /\ Cardinality((lo + 1) .. hi) = hi - lo
  <2>1. lo + 1 \in Int /\ hi \in Int
    OBVIOUS
  <2>2. /\ IsFiniteSet((lo + 1) .. hi)
        /\ Cardinality((lo + 1) .. hi) = IF lo + 1 > hi THEN 0 ELSE hi - (lo + 1) + 1
    BY <2>1, FS_Interval
  <2>3. (IF lo + 1 > hi THEN 0 ELSE hi - (lo + 1) + 1) = hi - lo
    OBVIOUS
  <2> QED
    BY <2>2, <2>3
<1>3. /\ IsFiniteSet({m} \X ((lo + 1) .. hi))
      /\ Cardinality({m} \X ((lo + 1) .. hi)) = Cardinality({m}) * Cardinality((lo + 1) .. hi)
  BY <1>1, <1>2, FS_Product
<1> QED
  BY <1>1, <1>2, <1>3

-----------------------------------------------------------------------------
LEMMA BatchesHeld ==
    ASSUME MemTypes
    PROVE  /\ Batches \subseteq MemBatches
           /\ \A t \in MemTurns : HeldBatch(t) # NoEntry => HeldBatch(t) \in Batches
           /\ \A b \in Batches : \E t \in MemTurns : HeldBatch(t) = b
           /\ \A b \in Batches : \A r \in b.ins : \E t \in MemTurns : r \in InsOf(t)
           /\ \A m \in Mems : Pledged(m) => m \in Promised(Batches)
<1>1. Batches \subseteq MemBatches
  BY DEF MemTypes, Batches
<1>2. \A t \in MemTurns : HeldBatch(t) # NoEntry => HeldBatch(t) \in Batches
  BY DEF HeldBatch, Batches
<1>3. \A b \in Batches : b # NoEntry /\ \E t \in MemTurns : HeldBatch(t) = b
  BY DEF MemTypes, HeldBatch, Batches
<1>4. \A b \in Batches : \A r \in b.ins : \E t \in MemTurns : r \in InsOf(t)
  BY <1>3 DEF InsOf
<1>5. \A m \in Mems : Pledged(m) => m \in Promised(Batches)
  BY <1>2 DEF Pledged, PinsOf, Promised
<1> QED
  BY <1>1, <1>2, <1>3, <1>4, <1>5

(* A call takes the lock.                                                    *)
LEMMA EnterKeeps ==
    ASSUME MemInv, NEW a \in Actors,
           NEW op \in {"save", "restage", "pin", "tier", "text"}, NEW m \in Mems, NEW tier \in Tiers,
           NEW size \in Int, NEW extra \in Int, NEW excluding \in Mems \cup {NoEntry},
           Enter(a, op, m, tier, size, extra, excluding),
           UNCHANGED <<memRow, staged, writing, memTurn>>, born \subseteq born', born' \subseteq Mems,
           a \in MemTurns => memTurn[a] = "running",
           op \in {"save", "restage", "pin"} <=> a \in MemTurns,
           NEW c, c = [op |-> op, id |-> m, tier |-> tier, size |-> size, extra |-> extra,
                       excluding |-> excluding, snap |-> Batches],
           OpInv(a, c)'
    PROVE  MemInv'
<1> USE DEF MemInv
<1>1. memLock' = a /\ memCall' = [memCall EXCEPT ![a] = c] /\ \A b \in Actors : memCall[b] = NoEntry
  BY NoCalls DEF Enter
<1>2. c \in MemCalls
  BY BatchesHeld DEF MemCalls
<1>3. MemTypes'
  BY <1>1, <1>2 DEF MemTypes
<1>4. \A t \in MemTurns : /\ HeldBatch(t)' = HeldBatch(t) /\ InsOf(t)' = InsOf(t)
                          /\ PinsOf(t)' = PinsOf(t)
  BY DEF HeldBatch, InsOf, PinsOf
<1>5. HeldShrinks /\ RowsShrink
  BY <1>4 DEF HeldShrinks, RowsShrink, Stored
<1>6. InsertInv' /\ BudgetInv' /\ EarnedInv'
  BY <1>5, ShrinkKeeps DEF EarnedInv, Stored
<1>7. \A b \in Actors : memCall'[b] # NoEntry => b = a
  BY <1>1 DEF MemTypes
<1>8. memCall'[a] = c
  BY <1>1 DEF MemTypes
<1>9. SnapInv(c)'
  <2>1. \A t \in MemTurns : HeldBatch(t)' # NoEntry => HeldBatch(t)' \in c.snap
    BY <1>4, BatchesHeld
  <2>2. \A b, d \in c.snap : \A r \in b.ins, s \in d.ins : r.id = s.id => r = s
    BY BatchesHeld DEF InsertInv
  <2>3. ASSUME NEW b \in c.snap, NEW r \in b.ins PROVE ~Stored(r.id)'
    <3>1. PICK t \in MemTurns : r \in InsOf(t)
      BY BatchesHeld
    <3>2. r.id \in Mems
      BY <3>1, HeldTypes DEF Inserts
    <3>3. ~Stored(r.id)
      BY <3>1, <3>2 DEF InsertInv, Inserted
    <3> QED
      BY <3>3 DEF Stored
  <2> QED
    BY <2>1, <2>2, <2>3 DEF SnapInv
<1>10. SnapInv(memCall[a])' /\ OpInv(a, memCall[a])' /\ memCall'[a].op = op
  BY <1>8, <1>9 DEF SnapInv, OpInv, Asked
<1>11. CallInv'
  BY <1>1, <1>7, <1>8, <1>10 DEF CallInv
<1> QED
  BY <1>3, <1>6, <1>11

LEMMA SameHeld ==
    ASSUME UNCHANGED <<memRow, staged, writing>>
    PROVE  /\ \A m : (Stored(m)' <=> Stored(m)) /\ (Inserted(m)' <=> Inserted(m))
                     /\ (Pledged(m)' <=> Pledged(m))
           /\ \A t : HeldBatch(t)' = HeldBatch(t) /\ InsOf(t)' = InsOf(t)
BY DEF Stored, Inserted, Pledged, HeldBatch, InsOf, PinsOf

LEMMA SaveKeeps ==
    ASSUME MemInv, NEW t \in MemTurns, Save(t)
    PROVE  MemInv'
<1> USE DEF MemInv
<1>1. PICK m \in Mems \ born, tier \in Tiers, size \in Sizes :
         /\ born' = born \cup {m}
         /\ Enter(t, "save", m, tier, size, IF tier = "pinned" THEN size ELSE 0, NoEntry)
  BY DEF Save
<1> DEFINE extra == IF tier = "pinned" THEN size ELSE 0
           c == [op |-> "save", id |-> m, tier |-> tier, size |-> size, extra |-> extra,
                 excluding |-> NoEntry, snap |-> Batches]
<1>2. UNCHANGED <<memRow, staged, writing, memTurn>> /\ memTurn[t] = "running"
  BY DEF Save
<1>3. ~Stored(m) /\ ~Inserted(m) /\ ~Pledged(m) /\ m \in born'
  BY <1>1 DEF InsertInv
<1>4. size \in Int /\ extra \in Int
  BY MemoryAssumption DEF Sizes
<1>5. ASSUME NEW d, d = c PROVE OpInv(t, d)'
  BY <1>2, <1>3, <1>5, SameHeld DEF OpInv
<1>6. born \subseteq born' /\ born' \subseteq Mems /\ t \in Actors
  BY <1>1 DEF MemTypes, Actors
<1>7. Enter(t, "save", m, tier, size, extra, NoEntry)
  BY <1>1
<1> HIDE DEF extra, MemInv
<1> QED
  BY <1>2, <1>4, <1>5, <1>6, <1>7, EnterKeeps

LEMMA StagePinKeeps ==
    ASSUME MemInv, NEW t \in MemTurns, StagePin(t)
    PROVE  MemInv'
<1> USE DEF MemInv
<1>1. UNCHANGED <<memRow, staged, writing, memTurn, born>> /\ memTurn[t] = "running" /\ t \in Actors
  BY DEF StagePin, Actors
<1>2. Batch(t).ins = InsOf(t)
  BY <1>1 DEF MemTypes, Batch, InsOf, HeldBatch, NoBatch
<1>3. born \subseteq born' /\ born' \subseteq Mems
  BY <1>1 DEF MemTypes
<1>4. CASE \E r \in Batch(t).ins : Enter(t, "restage", r.id, "pinned", r.size,
                                        IF r.tier = "pinned" THEN 0 ELSE r.size, r.id)
  <2>1. PICK r \in InsOf(t) : Enter(t, "restage", r.id, "pinned", r.size,
                                    IF r.tier = "pinned" THEN 0 ELSE r.size, r.id)
    BY <1>2, <1>4
  <2> DEFINE extra == IF r.tier = "pinned" THEN 0 ELSE r.size
             c == [op |-> "restage", id |-> r.id, tier |-> "pinned", size |-> r.size, extra |-> extra,
                   excluding |-> r.id, snap |-> Batches]
  <2>2. r \in Inserts
    BY <2>1, HeldTypes
  <2>3. r.id \in Mems /\ r.size \in Int /\ extra \in Int /\ "pinned" \in Tiers
    BY <2>2, MemoryAssumption DEF Inserts, Sizes, Tiers
  <2>4. ASSUME NEW d, d = c PROVE OpInv(t, d)'
    BY <1>1, <2>1, <2>4, SameHeld DEF OpInv
  <2>5. Enter(t, "restage", r.id, "pinned", r.size, extra, r.id)
    BY <2>1
  <2> HIDE DEF extra, MemInv
  <2> QED
    BY <1>1, <1>3, <2>3, <2>4, <2>5, EnterKeeps
<1>5. CASE \E m \in Mems : Stored(m) /\ Enter(t, "pin", m, "pinned", memRow[m].rev,
                                        IF memRow[m].tier = "pinned" THEN 0 ELSE memRow[m].size, m)
  <2>1. PICK m \in Mems : Stored(m) /\ Enter(t, "pin", m, "pinned", memRow[m].rev,
                                        IF memRow[m].tier = "pinned" THEN 0 ELSE memRow[m].size, m)
    BY <1>5
  <2>2. PICK row \in MemRows : row = memRow[m]
    BY <2>1 DEF MemTypes, Stored
  <2> DEFINE extra == IF row.tier = "pinned" THEN 0 ELSE row.size
             c == [op |-> "pin", id |-> m, tier |-> "pinned", size |-> row.rev, extra |-> extra,
                   excluding |-> m, snap |-> Batches]
  <2>3. row.rev \in Int /\ extra \in Int /\ "pinned" \in Tiers
    BY <2>2, MemoryAssumption DEF MemRows, Sizes, Tiers
  <2>4. m \in born /\ ~Inserted(m)
    BY <2>1 DEF InsertInv
  <2>5. ASSUME NEW d, d = c PROVE OpInv(t, d)'
    BY <1>1, <2>1, <2>2, <2>4, <2>5, SameHeld DEF OpInv, Asked
  <2>6. Enter(t, "pin", m, "pinned", row.rev, extra, m)
    BY <2>1, <2>2
  <2> HIDE DEF extra, MemInv
  <2> QED
    BY <1>1, <1>3, <2>3, <2>5, <2>6, EnterKeeps
<1> QED
  BY <1>4, <1>5 DEF StagePin

(* The owner's edits, unless they make a text longer that a turn promotes.   *)
LEMMA OwnerEditKeeps ==
    ASSUME MemInv, ~LateGrowth, OwnerEdit
    PROVE  MemInv'
<1> USE DEF MemInv
<1>1. /\ UNCHANGED <<memRow, staged, writing, memTurn, born>> /\ Owner \in Actors
      /\ ~(Owner \in MemTurns)
  BY MemoryAssumption DEF OwnerEdit, Actors
<1>2. born \subseteq born' /\ born' \subseteq Mems
  BY <1>1 DEF MemTypes
<1>3. PICK m \in Mems :
         /\ Stored(m)
         /\ LET row == memRow[m]
            IN  \/ \E tier \in Tiers :
                     Enter(Owner, "tier", m, tier, row.size,
                           IF tier = "pinned" /\ row.tier # "pinned" THEN row.size ELSE 0, m)
                \/ \E size \in Sizes :
                     /\ \/ LateGrowth \/ size <= row.size
                        \/ row.tier = "pinned" \/ m \notin Promised(Batches)
                     /\ Enter(Owner, "text", m, row.tier, size,
                              IF row.tier = "pinned" THEN size - row.size ELSE 0, NoEntry)
  BY DEF OwnerEdit
<1>4. PICK row \in MemRows : row = memRow[m]
  BY <1>3 DEF MemTypes, Stored
<1>5. row.size \in Int /\ row.size \in Sizes /\ row.tier \in Tiers
  BY MemoryAssumption DEF MemRows, Sizes
<1>6. m \in born /\ ~Inserted(m)
  BY <1>3 DEF InsertInv
<1>7. ASSUME NEW tier \in Tiers, Enter(Owner, "tier", m, tier, row.size,
                           IF tier = "pinned" /\ row.tier # "pinned" THEN row.size ELSE 0, m)
      PROVE  MemInv'
  <2> DEFINE extra == IF tier = "pinned" /\ row.tier # "pinned" THEN row.size ELSE 0
             c == [op |-> "tier", id |-> m, tier |-> tier, size |-> row.size, extra |-> extra,
                   excluding |-> m, snap |-> Batches]
  <2>1. extra \in Int
    BY <1>5
  <2>2. ASSUME NEW d, d = c PROVE OpInv(Owner, d)'
    BY <1>1, <1>3, <1>4, <1>6, <2>2, SameHeld DEF OpInv, Asked
  <2>3. Enter(Owner, "tier", m, tier, row.size, extra, m)
    BY <1>7
  <2> HIDE DEF extra, MemInv
  <2> QED
    BY <1>1, <1>2, <1>5, <2>1, <2>2, <2>3, EnterKeeps
<1>8. ASSUME NEW size \in Sizes,
             size <= row.size \/ row.tier = "pinned" \/ m \notin Promised(Batches),
             Enter(Owner, "text", m, row.tier, size,
                   IF row.tier = "pinned" THEN size - row.size ELSE 0, NoEntry)
      PROVE  MemInv'
  <2> DEFINE extra == IF row.tier = "pinned" THEN size - row.size ELSE 0
             c == [op |-> "text", id |-> m, tier |-> row.tier, size |-> size, extra |-> extra,
                   excluding |-> NoEntry, snap |-> Batches]
  <2>1. extra \in Int /\ size \in Int
    BY <1>5, MemoryAssumption DEF Sizes
  <2>2. ASSUME NEW d, d = c PROVE OpInv(Owner, d)'
    BY <1>1, <1>3, <1>4, <1>6, <1>8, <2>2, SameHeld DEF OpInv, Promised
  <2>3. Enter(Owner, "text", m, row.tier, size, extra, NoEntry)
    BY <1>8
  <2> HIDE DEF extra, MemInv
  <2> QED
    BY <1>1, <1>2, <1>5, <2>1, <2>2, <2>3, EnterKeeps
<1> QED
  BY <1>3, <1>4, <1>7, <1>8

(* A step that only takes away, and that no call under way notices.          *)
LEMMA QuietKeeps ==
    ASSUME MemInv, MemTypes', HeldShrinks, RowsShrink, born' = born, CallsGoOn,
           \A t \in MemTurns : memTurn[t] = "done" => memTurn'[t] = "done"
    PROVE  MemInv'
<1>1. EarnedInv'
  BY DEF MemInv, MemTypes, EarnedInv, RowsShrink, Stored, MemRows
<1> QED
  BY <1>1, ShrinkKeeps, CallsKept DEF MemInv

LEMMA StageDeleteKeeps ==
    ASSUME MemInv, NEW t \in MemTurns, StageDelete(t)
    PROVE  MemInv'
<1> USE DEF MemInv
<1>1. PICK m \in Mems, own \in SUBSET Batch(t).ins :
         staged' = [staged EXCEPT ![t] =
                      IF own # {} THEN [Batch(t) EXCEPT !.ins = @ \ own]
                      ELSE [Batch(t) EXCEPT !.del = @ \cup {m}]]
  BY DEF StageDelete
<1>2. /\ memTurn[t] = "running" /\ memLock = NoEntry
      /\ UNCHANGED <<memRow, born, writing, memTurn, memLock, memCall>>
  BY DEF StageDelete
<1>3. writing[t] = NoEntry
  BY <1>2 DEF MemTypes
<1>4. Batch(t) \in MemBatches
  <2>1. <<>> \in Seq(Promotions)
    OBVIOUS
  <2> QED
    BY <2>1 DEF MemTypes, Batch, NoBatch, MemBatches
<1> DEFINE new == IF own # {} THEN [Batch(t) EXCEPT !.ins = @ \ own]
                  ELSE [Batch(t) EXCEPT !.del = @ \cup {m}]
<1>5. new \in MemBatches /\ new.ins \subseteq Batch(t).ins /\ new.pins = Batch(t).pins
  BY <1>4 DEF MemBatches
<1>6. staged' = [staged EXCEPT ![t] = new]
  BY <1>1
<1> HIDE DEF new
<1>7. MemTypes'
  BY <1>2, <1>3, <1>5, <1>6 DEF MemTypes
<1>8. ASSUME NEW u \in MemTurns PROVE InsOf(u)' \subseteq InsOf(u) /\ PinsOf(u)' \subseteq PinsOf(u)
  <2>1. CASE u = t
    <3>1. HeldBatch(t) = staged[t] /\ HeldBatch(t)' = new
      BY <1>2, <1>3, <1>6 DEF HeldBatch, MemTypes
    <3>2. CASE staged[t] = NoEntry
      <4>1. new.ins = {} /\ DOMAIN new.pins = {}
        BY <1>5, <3>2 DEF Batch, NoBatch
      <4> QED
        BY <2>1, <3>1, <4>1 DEF InsOf, PinsOf
    <3>3. CASE staged[t] # NoEntry
      BY <1>5, <2>1, <3>1, <3>3 DEF InsOf, PinsOf, Batch
    <3> QED
      BY <3>2, <3>3
  <2>2. CASE u # t
    BY <1>2, <1>6, <2>2 DEF InsOf, PinsOf, HeldBatch, MemTypes
  <2> QED
    BY <2>1, <2>2
<1>9. HeldShrinks /\ RowsShrink
  BY <1>2, <1>8 DEF HeldShrinks, RowsShrink, Stored
<1>10. CallsGoOn
  BY <1>2, NoCalls DEF CallsGoOn
<1> HIDE DEF MemInv
<1> QED
  BY <1>2, <1>7, <1>9, <1>10, QuietKeeps

LEMMA OwnerDeleteKeeps == ASSUME MemInv, OwnerDelete PROVE MemInv'
<1>1. PICK m \in Mems : memRow' = [memRow EXCEPT ![m] = NoEntry]
  BY DEF OwnerDelete
<1>2. memLock = NoEntry /\ UNCHANGED <<born, staged, writing, memTurn, memLock, memCall>>
  BY DEF OwnerDelete
<1>3. MemTypes'
  BY <1>1, <1>2 DEF MemTypes, MemInv
<1>4. HeldShrinks
  BY <1>2 DEF HeldShrinks, HeldBatch, InsOf, PinsOf
<1>5. RowsShrink
  BY <1>1 DEF RowsShrink, Stored, MemTypes, MemInv
<1>6. CallsGoOn
  BY <1>2, NoCalls DEF CallsGoOn, MemInv
<1> QED
  BY <1>2, <1>3, <1>4, <1>5, <1>6, QuietKeeps

(* A turn that is in no store call moves on.                                 *)
LEMMA TurnMoves ==
    ASSUME MemInv, NEW t \in MemTurns, memCall[t] = NoEntry, memTurn[t] \notin Over,
           NEW s \in {"running", "waiting", "ending"}, writing[t] = NoEntry,
           memTurn' = [memTurn EXCEPT ![t] = s],
           UNCHANGED <<memRow, born, staged, writing, memLock, memCall>>
    PROVE  MemInv'
<1>1. MemTypes'
  BY DEF MemTypes, MemInv
<1>2. HeldShrinks /\ RowsShrink
  BY DEF HeldShrinks, HeldBatch, InsOf, PinsOf, RowsShrink, Stored
<1>3. CallsGoOn
  BY DEF CallsGoOn, HeldBatch, InsOf, MemInv, CallInv, MemTypes
<1>4. \A u \in MemTurns : memTurn[u] = "done" => memTurn'[u] = "done"
  BY DEF MemInv, MemTypes, Over
<1> QED
  BY <1>1, <1>2, <1>3, <1>4, QuietKeeps

LEMMA WriteKeeps ==
    ASSUME MemInv, NEW t \in MemTurns, Write(t)
    PROVE  MemInv'
<1> USE DEF MemInv
<1>1. /\ memTurn[t] = "ending" /\ (staged[t] # NoEntry => memLock = NoEntry)
      /\ staged' = [staged EXCEPT ![t] = NoEntry]
      /\ UNCHANGED <<memRow, born, memLock, memCall>>
      /\ \/ memTurn' = [memTurn EXCEPT ![t] = "failed"] /\ UNCHANGED writing
         \/ /\ memTurn' = [memTurn EXCEPT ![t] = "written"]
            /\ writing' = [writing EXCEPT ![t] = staged[t]]
  BY DEF Write
<1>2. writing[t] = NoEntry
  BY <1>1 DEF MemTypes
<1>3. MemTypes'
  BY <1>1, <1>2 DEF MemTypes, Over
<1>4. \A u \in MemTurns : HeldBatch(u)' \in {HeldBatch(u), NoEntry}
  BY <1>1, <1>2 DEF MemTypes, HeldBatch
<1>5. HeldShrinks /\ RowsShrink
  BY <1>1, <1>4 DEF HeldShrinks, InsOf, PinsOf, RowsShrink, Stored
<1>6. CallsGoOn
  <2> SUFFICES ASSUME NEW a \in Actors, memCall'[a] # NoEntry
               PROVE  /\ memCall'[a] = memCall[a] /\ memLock' = memLock
                      /\ a \in MemTurns => memTurn'[a] = "running" /\ InsOf(a)' = InsOf(a)
                      /\ \A u \in MemTurns : HeldBatch(u)' # NoEntry => HeldBatch(u)' = HeldBatch(u)
    BY DEF CallsGoOn
  <2>1. a \in MemTurns => memTurn[a] = "running" /\ a # t
    BY <1>1 DEF CallInv
  <2>2. a \in MemTurns => memTurn'[a] = "running" /\ HeldBatch(a)' = HeldBatch(a)
    BY <1>1, <2>1 DEF MemTypes, HeldBatch
  <2> QED
    BY <1>1, <1>4, <2>2 DEF InsOf
<1>7. \A u \in MemTurns : memTurn[u] = "done" => memTurn'[u] = "done"
  BY <1>1 DEF MemTypes
<1> HIDE DEF MemInv
<1> QED
  BY <1>1, <1>3, <1>5, <1>6, <1>7, QuietKeeps

LEMMA StopKeeps ==
    ASSUME MemInv, NEW t \in MemTurns, Stop(t)
    PROVE  MemInv'
<1> USE DEF MemInv
<1>1. PICK s \in {"cancelled", "failed"} :
         /\ memTurn' = [memTurn EXCEPT ![t] = s]
         /\ staged' = IF memTurn[t] = "ending" /\ s = "cancelled" THEN staged
                      ELSE [staged EXCEPT ![t] = NoEntry]
  BY DEF Stop
<1>2. /\ memTurn[t] \notin Over /\ writing' = [writing EXCEPT ![t] = NoEntry]
      /\ UNCHANGED <<memRow, born>>
      /\ IF memCall[t] # NoEntry THEN Leave(t) ELSE UNCHANGED <<memLock, memCall>>
  BY DEF Stop
<1>3. memCall' = [memCall EXCEPT ![t] = NoEntry] /\ t \in Actors
  BY <1>2 DEF Leave, MemTypes, Actors
<1>4. MemTypes'
  BY <1>1, <1>2, <1>3 DEF MemTypes, Over
<1>5. \A u \in MemTurns : /\ HeldBatch(u)' \in {HeldBatch(u), NoEntry}
                          /\ u # t => HeldBatch(u)' = HeldBatch(u)
  BY <1>1, <1>2 DEF MemTypes, HeldBatch
<1>6. HeldShrinks /\ RowsShrink
  BY <1>2, <1>5 DEF HeldShrinks, InsOf, PinsOf, RowsShrink, Stored
<1>7. CallsGoOn
  <2> SUFFICES ASSUME NEW a \in Actors, memCall'[a] # NoEntry
               PROVE  /\ memCall'[a] = memCall[a] /\ memLock' = memLock
                      /\ a \in MemTurns => memTurn'[a] = "running" /\ InsOf(a)' = InsOf(a)
                      /\ \A u \in MemTurns : HeldBatch(u)' # NoEntry => HeldBatch(u)' = HeldBatch(u)
    BY DEF CallsGoOn
  <2>1. a # t /\ memCall'[a] = memCall[a]
    BY <1>3 DEF MemTypes
  <2>2. memCall[t] = NoEntry
    BY <1>3, <2>1, OneCall
  <2>3. a \in MemTurns => memTurn'[a] = "running" /\ HeldBatch(a)' = HeldBatch(a)
    BY <1>1, <1>5, <2>1 DEF MemTypes, CallInv
  <2> QED
    BY <1>2, <1>5, <2>1, <2>2, <2>3 DEF InsOf
<1>8. \A u \in MemTurns : memTurn[u] = "done" => memTurn'[u] = "done"
  BY <1>1, <1>2 DEF MemTypes, Over
<1> HIDE DEF MemInv
<1> QED
  BY <1>2, <1>4, <1>6, <1>7, <1>8, QuietKeeps

LEMMA RestartKeeps == ASSUME MemInv, MemRestart PROVE MemInv'
<1> USE DEF MemInv
<1>1. MemTypes'
  BY DEF MemRestart, MemTypes, Over
<1>2. HeldShrinks /\ RowsShrink
  BY DEF MemRestart, HeldShrinks, HeldBatch, InsOf, PinsOf, RowsShrink, Stored
<1>3. CallsGoOn
  BY DEF MemRestart, CallsGoOn
<1>4. \A u \in MemTurns : memTurn[u] = "done" => memTurn'[u] = "done"
  BY DEF MemRestart, Over
<1>5. born' = born
  BY DEF MemRestart
<1> HIDE DEF MemInv
<1> QED
  BY <1>1, <1>2, <1>3, <1>4, <1>5, QuietKeeps

(* The rows after the commit of a batch: an insert of it, or the row that     *)
(* was there, pinned if the batch promoted it.                               *)
LEMMA AppliedRows ==
    ASSUME MemInv, NEW t \in MemTurns, writing[t] # NoEntry, memRow' = Applied(writing[t], t)
    PROVE  /\ memRow' \in [Mems -> MemRows \cup {NoEntry}]
           /\ \A m \in Mems :
                \/ \E r \in InsOf(t) : r.id = m /\ (Stored(m)' => memRow'[m] = Row(r.tier, r.size, r.rev, t))
                \/ /\ \A r \in InsOf(t) : r.id # m
                   /\ Stored(m)' =>
                        /\ Stored(m) /\ memRow'[m].size = memRow[m].size
                        /\ memRow'[m].by = memRow[m].by
                        /\ \/ memRow'[m].tier = memRow[m].tier
                           \/ memRow'[m].tier = "pinned" /\ m \in PinsOf(t)
<1> DEFINE b == writing[t]
<1>1. b \in MemBatches /\ HeldBatch(t) = b /\ InsOf(t) = b.ins /\ b.ins \subseteq Inserts
      /\ PinsOf(t) = {b.pins[i].id : i \in DOMAIN b.pins} /\ b.pins \in Seq(Promotions)
  BY DEF MemInv, MemTypes, HeldBatch, InsOf, PinsOf, MemBatches
<1> HIDE DEF b
<1>2. memRow' = Applied(b, t)
  BY DEF b
<1>3. ASSUME NEW m \in Mems, NEW q \in b.ins, q.id = m
      PROVE  \E r \in b.ins : r.id = m /\ memRow'[m] = Row(r.tier, r.size, r.rev, t)
                              /\ memRow'[m] \in MemRows
  <2> DEFINE r == CHOOSE i \in b.ins : i.id = m
  <2>1. r \in b.ins /\ r.id = m
    BY <1>3
  <2>2. memRow'[m] = Row(r.tier, r.size, r.rev, t)
    <3>1. \E i \in b.ins : i.id = m
      BY <1>3
    <3>2. Applied(b, t)[m] = Row(r.tier, r.size, r.rev, t)
      BY <3>1, Zenon DEF Applied
    <3> QED
      BY <1>2, <3>2
  <2> HIDE DEF r
  <2>3. Row(r.tier, r.size, r.rev, t) \in MemRows
    BY <1>1, <2>1 DEF Row, Inserts, MemRows
  <2> QED
    BY <2>1, <2>2, <2>3
<1>4. ASSUME NEW m \in Mems, \A r \in b.ins : r.id # m
      PROVE  /\ memRow'[m] \in MemRows \cup {NoEntry}
             /\ Stored(m)' =>
                  /\ Stored(m) /\ memRow'[m].size = memRow[m].size
                  /\ memRow'[m].by = memRow[m].by
                  /\ \/ memRow'[m].tier = memRow[m].tier
                     \/ memRow'[m].tier = "pinned" /\ m \in PinsOf(t)
  <2>1. CASE m \in b.del \/ ~Stored(m)
    <3>1. memRow'[m] = NoEntry
      BY <1>2, <1>4, <2>1 DEF Applied
    <3> QED
      BY <3>1 DEF Stored
  <2>2. CASE m \notin b.del /\ Stored(m) /\ \A i \in DOMAIN b.pins : b.pins[i].id # m
    <3>1. memRow'[m] = memRow[m]
      BY <1>2, <1>4, <2>2 DEF Applied
    <3> QED
      BY <2>2, <3>1 DEF MemInv, MemTypes
  <2>3. CASE m \notin b.del /\ Stored(m) /\ \E i \in DOMAIN b.pins : b.pins[i].id = m
    <3> DEFINE p == CHOOSE i \in DOMAIN b.pins : b.pins[i].id = m
    <3>1. p \in DOMAIN b.pins /\ b.pins[p].id = m
      BY <2>3
    <3>2. memRow'[m] = [memRow[m] EXCEPT !.tier = "pinned", !.rev = b.pins[p].rev + 1]
      <4>1. ~(\E r \in b.ins : r.id = m) /\ ~(m \in b.del \/ ~Stored(m))
        BY <1>4, <2>3
      <4>2. Applied(b, t)[m] = [memRow[m] EXCEPT !.tier = "pinned", !.rev = b.pins[p].rev + 1]
        BY <2>3, <4>1, Zenon DEF Applied
      <4> QED
        BY <1>2, <4>2
    <3> HIDE DEF p
    <3>3. b.pins[p] \in Promotions
      BY <1>1, <3>1, ElementOfSeq, LenProperties
    <3>4. memRow[m] \in MemRows /\ b.pins[p].rev + 1 \in Int
      BY <2>3, <3>3 DEF MemInv, MemTypes, Stored, Promotions
    <3>5. memRow'[m] \in MemRows /\ memRow'[m].size = memRow[m].size /\ memRow'[m].by = memRow[m].by
          /\ memRow'[m].tier = "pinned"
      BY <3>2, <3>4 DEF MemRows, Tiers
    <3> QED
      BY <1>1, <2>3, <3>1, <3>5
  <2> QED
    BY <2>1, <2>2, <2>3
<1>5. memRow' \in [Mems -> MemRows \cup {NoEntry}]
  <2>1. memRow' = [m \in Mems |-> memRow'[m]]
    BY <1>2 DEF Applied
  <2>2. ASSUME NEW m \in Mems PROVE memRow'[m] \in MemRows \cup {NoEntry}
    BY <1>3, <1>4
  <2> QED
    BY <2>1, <2>2
<1> QED
  BY <1>1, <1>3, <1>4, <1>5

LEMMA CommitKeeps ==
    ASSUME MemInv, NEW t \in MemTurns, Commit(t)
    PROVE  MemInv'
<1>1. /\ memTurn[t] = "written" /\ writing' = [writing EXCEPT ![t] = NoEntry]
      /\ UNCHANGED <<born, staged, memLock, memCall>>
  BY DEF Commit
<1>2. \A u \in MemTurns : HeldBatch(u)' \in {HeldBatch(u), NoEntry} /\ (u # t => HeldBatch(u)' = HeldBatch(u))
  BY <1>1 DEF MemInv, MemTypes, HeldBatch
<1>3. HeldShrinks
  BY <1>2 DEF HeldShrinks, InsOf, PinsOf
<1>4. \A a \in Actors : memCall[a] # NoEntry => a # t
  BY <1>1 DEF MemInv, CallInv
<1>5. CASE /\ memRow' = memRow
           /\ \E s \in {"failed", "done"} : memTurn' = [memTurn EXCEPT ![t] = s]
  <2>1. PICK s \in {"failed", "done"} : memTurn' = [memTurn EXCEPT ![t] = s]
    BY <1>5
  <2>2. MemTypes'
    BY <1>1, <1>5, <2>1 DEF MemInv, MemTypes, Over
  <2>3. RowsShrink
    BY <1>5 DEF RowsShrink, Stored
  <2>4. \A u \in MemTurns : memTurn[u] = "done" => memTurn'[u] = "done"
    BY <1>1, <2>1 DEF MemInv, MemTypes
  <2>5. \A a \in Actors : memCall[a] # NoEntry => (a \in MemTurns => memTurn'[a] = "running" /\ InsOf(a)' = InsOf(a))
    BY <1>1, <1>2, <1>4, <2>1 DEF MemInv, MemTypes, CallInv, InsOf
  <2>6. CallsGoOn
    BY <1>1, <1>2, <2>5 DEF CallsGoOn
  <2> QED
    BY <1>1, <1>3, <2>2, <2>3, <2>4, <2>6, QuietKeeps
<1>6. CASE /\ writing[t] # NoEntry /\ memRow' = Applied(writing[t], t)
           /\ memTurn' = [memTurn EXCEPT ![t] = "done"]
  <2>1. /\ memRow' \in [Mems -> MemRows \cup {NoEntry}]
        /\ \A m \in Mems :
             \/ \E r \in InsOf(t) : r.id = m /\ (Stored(m)' => memRow'[m] = Row(r.tier, r.size, r.rev, t))
             \/ /\ \A r \in InsOf(t) : r.id # m
                /\ Stored(m)' =>
                     /\ Stored(m) /\ memRow'[m].size = memRow[m].size
                     /\ memRow'[m].by = memRow[m].by
                     /\ \/ memRow'[m].tier = memRow[m].tier
                        \/ memRow'[m].tier = "pinned" /\ m \in PinsOf(t)
    BY <1>6, AppliedRows
  <2>2. MemTypes'
    BY <1>1, <1>6, <2>1 DEF MemInv, MemTypes, Over
  <2>3. HeldBatch(t)' = NoEntry /\ InsOf(t)' = {} /\ PinsOf(t)' = {}
    BY <1>1, <1>6 DEF MemInv, MemTypes, HeldBatch, InsOf, PinsOf
  <2>4. \A m \in Mems : ~Inserted(m) =>
           (Stored(m)' => /\ Stored(m) /\ memRow'[m].size = memRow[m].size
                          /\ \/ memRow'[m].tier = memRow[m].tier
                             \/ memRow'[m].tier = "pinned" /\ m \in PinsOf(t))
    BY <2>1 DEF Inserted
  <2>5. \A m \in Mems : (Inserted(m)' => Inserted(m)) /\ (Pledged(m)' => Pledged(m))
    BY <1>3 DEF HeldShrinks, Inserted, Pledged
  <2>6. InsertInv'
    <3>1. ASSUME NEW m \in Mems, Inserted(m)' PROVE ~Stored(m)'
      <4>1. PICK u \in MemTurns : \E r \in InsOf(u)' : r.id = m
        BY <3>1 DEF Inserted
      <4>2. PICK r \in InsOf(u) : r.id = m /\ u # t
        BY <1>3, <2>3, <4>1 DEF HeldShrinks
      <4>3. \A q \in InsOf(t) : q.id # m
        BY <4>2 DEF MemInv, InsertInv
      <4>4. ~Stored(m)
        BY <4>2 DEF MemInv, InsertInv, Inserted
      <4> QED
        BY <2>1, <4>3, <4>4
    <3>2. ASSUME NEW m \in Mems, Stored(m)' PROVE m \in born
      BY <2>1, <3>2 DEF MemInv, InsertInv, Inserted
    <3>3. \A u, v \in MemTurns : \A r \in InsOf(u)', s \in InsOf(v)' : r.id = s.id => u = v /\ r = s
      BY <1>3 DEF HeldShrinks, MemInv, InsertInv
    <3> QED
      BY <1>1, <2>5, <3>1, <3>2, <3>3 DEF MemInv, InsertInv
  <2>7. BudgetInv'
    <3>1. ASSUME NEW m \in Mems, NEW k, InsByte(m, k)' PROVE InsByte(m, k)
      BY <1>3, <3>1 DEF HeldShrinks, InsByte
    <3>2. ASSUME NEW m \in Mems, NEW k, RowByte(m, k)' PROVE InsByte(m, k) \/ RowByte(m, k)
      <4>1. Stored(m)' /\ (memRow'[m].tier = "pinned" \/ Pledged(m)) /\ k <= memRow'[m].size
        BY <2>5, <3>2 DEF RowByte
      <4>2. CASE \E r \in InsOf(t) : r.id = m /\ (Stored(m)' => memRow'[m] = Row(r.tier, r.size, r.rev, t))
        <5>1. PICK r \in InsOf(t) : r.id = m /\ memRow'[m] = Row(r.tier, r.size, r.rev, t)
          BY <4>1, <4>2
        <5>2. ~Pledged(m)
          BY <5>1 DEF MemInv, InsertInv, Inserted
        <5>3. r.tier = "pinned" /\ k <= r.size
          BY <4>1, <5>1, <5>2 DEF Row
        <5> QED
          BY <5>1, <5>3 DEF InsByte
      <4>3. CASE /\ Stored(m) /\ memRow'[m].size = memRow[m].size
                 /\ \/ memRow'[m].tier = memRow[m].tier
                    \/ memRow'[m].tier = "pinned" /\ m \in PinsOf(t)
        BY <4>1, <4>3 DEF RowByte, Pledged
      <4> QED
        BY <2>1, <4>1, <4>2, <4>3
    <3>3. HeldText' \subseteq HeldText
      BY <3>1, <3>2 DEF HeldText
    <3> QED
      BY <3>3, TextShrinks DEF MemInv
  <2>8. EarnedInv'
    <3> SUFFICES ASSUME NEW m \in Mems, Stored(m)' PROVE memTurn'[memRow'[m].by] = "done"
      BY DEF EarnedInv
    <3>1. CASE \E r \in InsOf(t) : memRow'[m] = Row(r.tier, r.size, r.rev, t)
      BY <1>6, <3>1 DEF MemInv, MemTypes, Row
    <3>2. CASE Stored(m) /\ memRow'[m].by = memRow[m].by
      <4>1. memTurn[memRow[m].by] = "done" /\ memRow[m].by \in MemTurns
        BY <3>2 DEF MemInv, EarnedInv, MemTypes, Stored, MemRows
      <4> QED
        BY <1>1, <1>6, <3>2, <4>1 DEF MemInv, MemTypes
    <3> QED
      BY <2>1, <3>1, <3>2
  <2>9. CallInv'
    <3> SUFFICES ASSUME NEW a \in Actors, memCall[a] # NoEntry
                 PROVE  /\ memLock = a
                        /\ a \in MemTurns => memTurn'[a] = "running"
                        /\ memCall[a].op \in {"save", "restage", "pin"} <=> a \in MemTurns
                        /\ SnapInv(memCall[a])' /\ OpInv(a, memCall[a])'
      BY <1>1 DEF CallInv
    <3>1. /\ memLock = a /\ (a \in MemTurns => memTurn[a] = "running")
          /\ memCall[a].op \in {"save", "restage", "pin"} <=> a \in MemTurns
          /\ SnapInv(memCall[a]) /\ OpInv(a, memCall[a])
      BY DEF MemInv, CallInv
    <3>2. a \in MemTurns => memTurn'[a] = "running" /\ InsOf(a)' = InsOf(a)
      BY <1>1, <1>2, <1>4, <1>6, <3>1 DEF InsOf, MemInv, MemTypes
    <3>3. memCall'[a] = memCall[a] /\ memCall[a].id \in Mems
          /\ \A b \in memCall[a].snap : b.ins \subseteq Inserts
      BY <1>1, SnapTypes DEF MemInv
    <3>4. PinsOf(t) \subseteq Promised(memCall[a].snap)
      BY <3>1 DEF SnapInv, PinsOf, Promised
    <3>5. \E b \in memCall[a].snap : InsOf(t) = b.ins
      BY <1>6, <3>1 DEF SnapInv, InsOf, MemInv, MemTypes, HeldBatch
    <3>6. SnapInv(memCall[a])'
      <4>1. ASSUME NEW b \in memCall[a].snap, NEW r \in b.ins, Stored(r.id)'
            PROVE  memRow'[r.id].size = r.size
        <5>1. r.id \in Mems
          BY <3>3 DEF Inserts
        <5>2. CASE \E q \in InsOf(t) : q.id = r.id /\ memRow'[r.id] = Row(q.tier, q.size, q.rev, t)
          <6>1. PICK q \in InsOf(t) : q.id = r.id /\ memRow'[r.id] = Row(q.tier, q.size, q.rev, t)
            BY <5>2
          <6>2. q = r
            BY <3>1, <3>5, <6>1 DEF SnapInv
          <6> QED
            BY <6>1, <6>2 DEF Row
        <5>3. CASE Stored(r.id) /\ memRow'[r.id].size = memRow[r.id].size
          BY <3>1, <5>3 DEF SnapInv
        <5> QED
          BY <2>1, <4>1, <5>1, <5>2, <5>3
      <4>2. \A u \in MemTurns : HeldBatch(u)' # NoEntry => HeldBatch(u)' \in memCall[a].snap
        BY <1>2, <3>1 DEF SnapInv
      <4> QED
        BY <3>1, <3>3, <4>1, <4>2 DEF SnapInv
    <3>7. OpInv(a, memCall[a])'
      <4> DEFINE c == memCall[a]
      <4>1. ~Inserted(c.id) =>
              (Stored(c.id)' => /\ Stored(c.id) /\ memRow'[c.id].size = memRow[c.id].size
                                /\ \/ memRow'[c.id].tier = memRow[c.id].tier
                                   \/ memRow'[c.id].tier = "pinned" /\ c.id \in Promised(c.snap))
        BY <2>4, <3>3, <3>4
      <4>2. (Inserted(c.id)' => Inserted(c.id)) /\ (Pledged(c.id)' => Pledged(c.id))
        BY <2>5, <3>3
      <4>3. c.op = "restage" => InsOf(a)' = InsOf(a)
        BY <3>1, <3>2
      <4> QED
        BY <1>1, <3>1, <3>3, <4>1, <4>2, <4>3 DEF OpInv, Asked, Promised
    <3> QED
      BY <3>1, <3>2, <3>6, <3>7
  <2> QED
    BY <2>2, <2>6, <2>7, <2>8, <2>9 DEF MemInv
<1> QED
  <2>1. CASE writing[t] = NoEntry
    <3>1. Applied(NoBatch, t) = memRow
      <4>1. ASSUME NEW m \in Mems PROVE Applied(NoBatch, t)[m] = memRow[m]
        BY DEF Applied, NoBatch, Stored
      <4>2. Applied(NoBatch, t) = [m \in Mems |-> Applied(NoBatch, t)[m]]
        BY Zenon DEF Applied
      <4>3. memRow = [m \in Mems |-> memRow[m]]
        BY DEF MemInv, MemTypes
      <4> QED
        BY <4>1, <4>2, <4>3
    <3> QED
      BY <1>5, <2>1, <3>1 DEF Commit
  <2>2. CASE writing[t] # NoEntry
    BY <1>5, <1>6, <2>2 DEF Commit
  <2> QED
    BY <2>1, <2>2

-----------------------------------------------------------------------------
(* The end of a call that changes the batch of its turn.                      *)
LEMMA BatchGrows ==
    ASSUME MemInv, NEW a \in MemTurns, memCall[a] # NoEntry, Leave(a),
           UNCHANGED <<memRow, born, writing, memTurn>>,
           NEW b \in MemBatches, staged' = [staged EXCEPT ![a] = b]
    PROVE  /\ MemTypes' /\ CallInv' /\ EarnedInv'
           /\ Batch(a) \in MemBatches /\ Batch(a).ins = InsOf(a)
           /\ PinsOf(a) = {Batch(a).pins[i].id : i \in DOMAIN Batch(a).pins}
           /\ InsOf(a)' \subseteq b.ins /\ PinsOf(a)' \subseteq {b.pins[i].id : i \in DOMAIN b.pins}
           /\ \A t \in MemTurns \ {a} : InsOf(t)' = InsOf(t) /\ PinsOf(t)' = PinsOf(t)
<1> USE DEF MemInv
<1>1. memTurn[a] = "running" /\ writing[a] = NoEntry /\ a \in Actors
  BY DEF CallInv, MemTypes, Actors
<1>2. /\ memCall' = [memCall EXCEPT ![a] = NoEntry]
      /\ \A c \in Actors : memCall'[c] = NoEntry
  BY <1>1, OneCall DEF Leave, MemTypes
<1>3. MemTypes'
  BY <1>1, <1>2 DEF MemTypes
<1>4. CallInv' /\ EarnedInv'
  BY <1>2 DEF CallInv, EarnedInv, Stored
<1>5. HeldBatch(a) = staged[a] /\ HeldBatch(a)' = b
  BY <1>1 DEF HeldBatch, MemTypes
<1>6. /\ Batch(a) \in MemBatches /\ Batch(a).ins = InsOf(a)
      /\ PinsOf(a) = {Batch(a).pins[i].id : i \in DOMAIN Batch(a).pins}
  <2>1. <<>> \in Seq(Promotions) /\ DOMAIN <<>> = {}
    OBVIOUS
  <2> QED
    BY <1>5, <2>1 DEF MemTypes, Batch, NoBatch, MemBatches, InsOf, PinsOf
<1>7. InsOf(a)' \subseteq b.ins /\ PinsOf(a)' \subseteq {b.pins[i].id : i \in DOMAIN b.pins}
  BY <1>5 DEF InsOf, PinsOf
<1>8. \A t \in MemTurns \ {a} : InsOf(t)' = InsOf(t) /\ PinsOf(t)' = PinsOf(t)
  BY DEF InsOf, PinsOf, HeldBatch, MemTypes
<1> QED
  BY <1>3, <1>4, <1>6, <1>7, <1>8

(* The new bytes of one memory.                                              *)
LEMMA OneMemory ==
    ASSUME MemInv, NEW a \in Actors, memCall[a] # NoEntry, ~OverBudget(memCall[a]),
           NEW m \in Mems, NEW lo \in Nat, NEW hi \in Nat,
           lo <= hi, hi - lo <= memCall[a].extra, memCall[a].extra > 0,
           \A n \in Mems, k \in Sizes : InsByte(n, k)' \/ RowByte(n, k)' =>
              \/ n # memCall[a].excluding /\ (InsByte(n, k) \/ RowByte(n, k))
              \/ n = m /\ lo < k /\ k <= hi
    PROVE  BudgetInv'
<1> DEFINE X == {m} \X ((lo + 1) .. hi)
<1>1. IsFiniteSet(X) /\ Cardinality(X) = hi - lo
  BY BytesCount
<1>2. HeldText' \subseteq {p \in HeldText : p[1] # memCall[a].excluding} \cup X
  <2> SUFFICES ASSUME NEW p \in HeldText'
               PROVE  (p \in HeldText /\ p[1] # memCall[a].excluding) \/ p \in X
    OBVIOUS
  <2>1. PICK n \in Mems, k \in Sizes : p = <<n, k>>
    BY DEF HeldText
  <2>2. InsByte(n, k)' \/ RowByte(n, k)'
    BY <2>1 DEF HeldText
  <2>3. CASE n # memCall[a].excluding /\ (InsByte(n, k) \/ RowByte(n, k))
    BY <2>1, <2>3 DEF HeldText
  <2>4. CASE n = m /\ lo < k /\ k <= hi
    <3>1. k \in Int
      BY MemoryAssumption DEF Sizes
    <3>2. k \in (lo + 1) .. hi
      BY <2>4, <3>1
    <3> QED
      BY <2>1, <2>4, <3>2
  <2> QED
    BY <2>2, <2>3, <2>4
<1>3. SnapInv(memCall[a]) /\ MemTypes
  BY DEF MemInv, CallInv
<1> HIDE DEF X
<1>4. Cardinality(X) <= memCall[a].extra
  BY <1>1
<1> QED
  BY <1>1, <1>2, <1>3, <1>4, Fits

(* No byte is new.                                                           *)
LEMMA NoMemory ==
    ASSUME MemInv,
           \A n \in Mems, k \in Sizes : InsByte(n, k)' \/ RowByte(n, k)' => InsByte(n, k) \/ RowByte(n, k)
    PROVE  BudgetInv'
<1>1. HeldText' \subseteq HeldText
  BY DEF HeldText
<1> QED
  BY <1>1, TextShrinks DEF MemInv

LEMMA FinishSave ==
    ASSUME MemInv, NEW a \in Actors, memCall[a] # NoEntry, ~OverBudget(memCall[a]),
           memCall[a].op = "save", Leave(a), UNCHANGED <<memRow, born, writing, memTurn>>,
           staged' = [staged EXCEPT ![a] = [Batch(a) EXCEPT !.ins = @ \cup
              {[id |-> memCall[a].id, tier |-> memCall[a].tier, size |-> memCall[a].size, rev |-> 1]}]]
    PROVE  MemInv'
<1> DEFINE c == memCall[a]
           r == [id |-> c.id, tier |-> c.tier, size |-> c.size, rev |-> 1]
           b == [Batch(a) EXCEPT !.ins = @ \cup {r}]
<1>1. a \in MemTurns /\ OpInv(a, c)
  BY DEF MemInv, CallInv
<1>2. /\ c.size \in Sizes /\ (c.tier = "pinned" => c.extra = c.size) /\ c.excluding = NoEntry
      /\ c.id \in born /\ ~Stored(c.id) /\ ~Inserted(c.id) /\ ~Pledged(c.id)
      /\ c.id \in Mems /\ c.tier \in Tiers
  BY <1>1, SnapTypes DEF OpInv, MemInv
<1>3. r \in Inserts
  BY <1>2 DEF Inserts
<1>4. b \in MemBatches /\ b.ins = Batch(a).ins \cup {r} /\ b.pins = Batch(a).pins
  <2>1. Batch(a) \in MemBatches
    <3>1. <<>> \in Seq(Promotions)
      OBVIOUS
    <3> QED
      BY <1>1, <3>1 DEF MemInv, MemTypes, Batch, NoBatch, MemBatches
  <2> QED
    BY <1>3, <2>1 DEF MemBatches
<1>5. staged' = [staged EXCEPT ![a] = b]
  OBVIOUS
<1> HIDE DEF b, r
<1>6. /\ MemTypes' /\ CallInv' /\ EarnedInv'
      /\ InsOf(a)' \subseteq InsOf(a) \cup {r} /\ PinsOf(a)' \subseteq PinsOf(a)
      /\ \A t \in MemTurns \ {a} : InsOf(t)' = InsOf(t) /\ PinsOf(t)' = PinsOf(t)
  <2>1. /\ MemTypes' /\ CallInv' /\ EarnedInv' /\ Batch(a).ins = InsOf(a)
        /\ PinsOf(a) = {Batch(a).pins[i].id : i \in DOMAIN Batch(a).pins}
        /\ InsOf(a)' \subseteq b.ins /\ PinsOf(a)' \subseteq {b.pins[i].id : i \in DOMAIN b.pins}
        /\ \A t \in MemTurns \ {a} : InsOf(t)' = InsOf(t) /\ PinsOf(t)' = PinsOf(t)
    BY <1>1, <1>4, <1>5, BatchGrows
  <2>2. PinsOf(a)' \subseteq PinsOf(a)
    BY <1>4, <2>1, Zenon
  <2> QED
    BY <1>4, <2>1, <2>2
<1>7. r.id = c.id /\ r.tier = c.tier /\ r.size = c.size
  BY DEF r
<1>8. \A t \in MemTurns : /\ PinsOf(t)' \subseteq PinsOf(t)
                          /\ \A i \in InsOf(t)' : i \in InsOf(t) \/ (i = r /\ t = a)
  BY <1>6
<1>9. \A m \in Mems : Pledged(m)' => Pledged(m)
  BY <1>8 DEF Pledged
<1>10. InsertInv'
  <2>1. \A m \in Mems : Inserted(m)' => m \in born /\ ~Stored(m) /\ ~Pledged(m)
    BY <1>2, <1>7, <1>8 DEF MemInv, InsertInv, Inserted
  <2>2. \A t, u \in MemTurns : \A i \in InsOf(t)', j \in InsOf(u)' : i.id = j.id => t = u /\ i = j
    BY <1>2, <1>7, <1>8 DEF MemInv, InsertInv, Inserted
  <2> QED
    BY <1>9, <2>1, <2>2 DEF MemInv, InsertInv, Stored
<1>11. BudgetInv'
  <2>1. \A n \in Mems, k \in Sizes : RowByte(n, k)' => RowByte(n, k)
    BY <1>9 DEF RowByte, Stored
  <2>2. \A n \in Mems, k \in Sizes : InsByte(n, k)' =>
           InsByte(n, k) \/ (n = c.id /\ c.tier = "pinned" /\ k <= c.size)
    BY <1>7, <1>8 DEF InsByte
  <2>3. c.size \in Nat /\ c.size > 0 /\ \A k \in Sizes : k \in Nat /\ 0 < k
    BY <1>2, MemoryAssumption DEF Sizes
  <2>4. CASE c.tier = "pinned"
    <3>1. \A n \in Mems : n # c.excluding
      BY <1>2, MemoryAssumption
    <3>2. \A n \in Mems, k \in Sizes : InsByte(n, k)' \/ RowByte(n, k)' =>
              \/ n # c.excluding /\ (InsByte(n, k) \/ RowByte(n, k))
              \/ n = c.id /\ 0 < k /\ k <= c.size
      BY <2>1, <2>2, <2>3, <3>1
    <3>3. c.size - 0 <= c.extra /\ c.extra > 0 /\ 0 <= c.size /\ 0 \in Nat
      BY <1>2, <2>3, <2>4
    <3> QED
      BY <1>2, <2>3, <3>2, <3>3, OneMemory
  <2>5. CASE c.tier # "pinned"
    BY <2>1, <2>2, <2>5, NoMemory
  <2> QED
    BY <2>4, <2>5
<1> QED
  BY <1>6, <1>10, <1>11 DEF MemInv

Bumped(old, tier) == {[i EXCEPT !.tier = tier, !.rev = @ + 1] : i \in old}

LEMMA FinishRestage ==
    ASSUME MemInv, NEW a \in Actors, memCall[a] # NoEntry, ~OverBudget(memCall[a]),
           memCall[a].op = "restage", Leave(a), UNCHANGED <<memRow, born, writing, memTurn>>,
           NEW old, old = {i \in Batch(a).ins : i.id = memCall[a].id},
           NEW bumped, bumped = Bumped(old, memCall[a].tier),
           staged' = [staged EXCEPT ![a] = [Batch(a) EXCEPT !.ins = (@ \ old) \cup bumped]]
    PROVE  MemInv'
<1> DEFINE c == memCall[a]
           b == [Batch(a) EXCEPT !.ins = (@ \ old) \cup bumped]
<1>1. a \in MemTurns /\ OpInv(a, c)
  BY DEF MemInv, CallInv
<1>2. PICK r \in InsOf(a) : /\ r.id = c.id /\ r.size = c.size
                            /\ r.tier = "pinned" \/ c.extra = c.size
  BY <1>1 DEF OpInv
<1>3. c.excluding = c.id /\ c.tier = "pinned" /\ c.id \in Mems
  BY <1>1, SnapTypes DEF OpInv, MemInv
<1>4. Batch(a) \in MemBatches
  <2>1. <<>> \in Seq(Promotions)
    OBVIOUS
  <2> QED
    BY <1>1, <2>1 DEF MemInv, MemTypes, Batch, NoBatch, MemBatches
<1>5. Batch(a).ins = InsOf(a) /\ InsOf(a) \subseteq Inserts
  <2>1. writing[a] = NoEntry
    BY <1>1 DEF MemInv, MemTypes, CallInv
  <2> QED
    BY <1>1, <2>1, HeldTypes DEF MemInv, MemTypes, Batch, NoBatch, HeldBatch, InsOf
<1>6. old = {r}
  BY <1>1, <1>2, <1>5 DEF MemInv, InsertInv
<1>7. PICK new : new = [r EXCEPT !.tier = "pinned", !.rev = @ + 1]
  OBVIOUS
<1>8. bumped = {new}
  BY <1>3, <1>6, <1>7 DEF Bumped
<1>9. new \in Inserts /\ new.id = c.id /\ new.size = c.size /\ new.tier = "pinned"
  <2>1. r \in Inserts
    BY <1>2, <1>5
  <2>2. r.rev + 1 \in Int /\ "pinned" \in Tiers
    BY <2>1 DEF Inserts, Tiers
  <2>3. new = [id |-> r.id, tier |-> "pinned", size |-> r.size, rev |-> r.rev + 1]
    BY <1>7, <2>1 DEF Inserts
  <2>4. r.id \in Mems /\ r.size \in Sizes
    BY <2>1 DEF Inserts
  <2> QED
    BY <1>2, <2>2, <2>3, <2>4 DEF Inserts
<1>10. /\ b \in MemBatches /\ b.ins = (Batch(a).ins \ {r}) \cup {new} /\ b.pins = Batch(a).pins
  BY <1>4, <1>6, <1>8, <1>9 DEF MemBatches
<1>11. staged' = [staged EXCEPT ![a] = b]
  OBVIOUS
<1> HIDE DEF b
<1>12. /\ MemTypes' /\ CallInv' /\ EarnedInv'
       /\ InsOf(a)' \subseteq (InsOf(a) \ {r}) \cup {new} /\ PinsOf(a)' \subseteq PinsOf(a)
       /\ \A t \in MemTurns \ {a} : InsOf(t)' = InsOf(t) /\ PinsOf(t)' = PinsOf(t)
  <2>1. /\ MemTypes' /\ CallInv' /\ EarnedInv'
        /\ PinsOf(a) = {Batch(a).pins[i].id : i \in DOMAIN Batch(a).pins}
        /\ InsOf(a)' \subseteq b.ins /\ PinsOf(a)' \subseteq {b.pins[i].id : i \in DOMAIN b.pins}
        /\ \A t \in MemTurns \ {a} : InsOf(t)' = InsOf(t) /\ PinsOf(t)' = PinsOf(t)
    BY <1>1, <1>10, <1>11, BatchGrows
  <2>2. PinsOf(a)' \subseteq PinsOf(a)
    BY <1>10, <2>1, Zenon
  <2> QED
    BY <1>5, <1>10, <2>1, <2>2
<1>13. \A t \in MemTurns : /\ PinsOf(t)' \subseteq PinsOf(t)
                           /\ \A i \in InsOf(t)' : (i \in InsOf(t) /\ i # r) \/ (i = new /\ t = a)
  <2>1. \A t \in MemTurns \ {a} : \A i \in InsOf(t) : i # r
    BY <1>1, <1>2 DEF MemInv, InsertInv
  <2> QED
    BY <1>12, <2>1
<1>14. \A m \in Mems : (Pledged(m)' => Pledged(m)) /\ (Inserted(m)' => Inserted(m))
  BY <1>1, <1>2, <1>9, <1>13 DEF Pledged, Inserted
<1>15. InsertInv'
  <2>1. \A t, u \in MemTurns : \A i \in InsOf(t)', j \in InsOf(u)' : i.id = j.id => t = u /\ i = j
    BY <1>1, <1>2, <1>9, <1>13 DEF MemInv, InsertInv
  <2> QED
    BY <1>14, <2>1 DEF MemInv, InsertInv, Stored
<1>16. BudgetInv'
  <2>1. \A n \in Mems, k \in Sizes : RowByte(n, k)' => RowByte(n, k) /\ n # c.id
    <3>1. ~Stored(c.id)
      BY <1>1, <1>2, <1>3 DEF MemInv, InsertInv, Inserted
    <3> QED
      BY <1>14, <3>1 DEF RowByte, Stored
  <2>2. \A n \in Mems, k \in Sizes : InsByte(n, k)' =>
           (n # c.id /\ InsByte(n, k)) \/ (n = c.id /\ k <= c.size)
    <3>1. \A t \in MemTurns : \A i \in InsOf(t) : i.id = c.id => i = r
      BY <1>1, <1>2 DEF MemInv, InsertInv
    <3> QED
      BY <1>9, <1>13, <3>1 DEF InsByte
  <2>3. c.size \in Nat /\ c.size > 0 /\ \A k \in Sizes : k \in Nat /\ 0 < k
    BY <1>2, <1>5, MemoryAssumption DEF Sizes, Inserts
  <2>4. CASE r.tier = "pinned"
    <3>1. \A k \in Sizes : k <= c.size => InsByte(c.id, k)
      BY <1>1, <1>2, <2>4 DEF InsByte
    <3> QED
      BY <2>1, <2>2, <3>1, NoMemory
  <2>5. CASE r.tier # "pinned"
    <3>1. \A n \in Mems, k \in Sizes : InsByte(n, k)' \/ RowByte(n, k)' =>
              \/ n # c.excluding /\ (InsByte(n, k) \/ RowByte(n, k))
              \/ n = c.id /\ 0 < k /\ k <= c.size
      BY <1>3, <2>1, <2>2, <2>3
    <3>2. c.size - 0 <= c.extra /\ c.extra > 0 /\ 0 <= c.size /\ 0 \in Nat
      BY <1>2, <2>3, <2>5
    <3> QED
      BY <1>3, <2>3, <3>1, <3>2, OneMemory
  <2> QED
    BY <2>4, <2>5
<1> QED
  BY <1>12, <1>15, <1>16 DEF MemInv

(* A row that is pinned or promised now, and was not before, is all the new   *)
(* text, and the call asked for its room.                                    *)
LEMMA RowPinned ==
    ASSUME MemInv, NEW a \in Actors, memCall[a] # NoEntry, ~OverBudget(memCall[a]),
           memCall[a].op \in {"pin", "tier"}, memCall[a].tier = "pinned",
           \A n \in Mems, k \in Sizes : InsByte(n, k)' => InsByte(n, k),
           \A n \in Mems, k \in Sizes : RowByte(n, k)' =>
              \/ RowByte(n, k)
              \/ n = memCall[a].id /\ Stored(n) /\ k <= memRow[n].size
    PROVE  BudgetInv'
<1> DEFINE c == memCall[a]
<1>1. OpInv(a, c) /\ c.id \in Mems
  BY SnapTypes DEF MemInv, CallInv
<1>2. c.excluding = c.id /\ Asked(c) /\ ~Inserted(c.id)
  BY <1>1 DEF OpInv
<1>3. \A k \in Sizes : k \in Nat /\ 0 < k
  BY MemoryAssumption DEF Sizes
<1>4. CASE Stored(c.id) /\ memRow[c.id].tier # "pinned"
  <2>1. c.extra = memRow[c.id].size /\ c.extra \in Nat /\ c.extra > 0
    <3>1. memRow[c.id].size \in Sizes
      BY <1>1, <1>4 DEF MemInv, MemTypes, Stored, MemRows
    <3> QED
      BY <1>2, <1>3, <1>4, <3>1 DEF Asked
  <2>2. \A k \in Sizes : ~InsByte(c.id, k)
    BY <1>2 DEF InsByte, Inserted
  <2>3. \A n \in Mems, k \in Sizes : InsByte(n, k)' \/ RowByte(n, k)' =>
              \/ n # c.excluding /\ (InsByte(n, k) \/ RowByte(n, k))
              \/ n = c.id /\ 0 < k /\ k <= c.extra
    BY <1>2, <1>3, <2>1, <2>2 DEF RowByte
  <2>4. c.extra - 0 <= c.extra /\ 0 <= c.extra /\ 0 \in Nat
    BY <2>1
  <2> QED
    BY <1>1, <2>1, <2>3, <2>4, OneMemory
<1>5. CASE Stored(c.id) => memRow[c.id].tier = "pinned"
  BY <1>5, NoMemory DEF RowByte
<1> QED
  BY <1>4, <1>5

LEMMA FinishPin ==
    ASSUME MemInv, NEW a \in Actors, memCall[a] # NoEntry, ~OverBudget(memCall[a]),
           memCall[a].op = "pin", Leave(a), UNCHANGED <<memRow, born, writing, memTurn>>,
           staged' = [staged EXCEPT ![a] = [Batch(a) EXCEPT !.pins =
                        Append(@, [id |-> memCall[a].id, rev |-> memCall[a].size])]]
    PROVE  MemInv'
<1> DEFINE c == memCall[a]
           added == [id |-> c.id, rev |-> c.size]
           b == [Batch(a) EXCEPT !.pins = Append(@, added)]
<1>1. a \in MemTurns /\ OpInv(a, c) /\ c.id \in Mems /\ c.size \in Int
  BY SnapTypes DEF MemInv, CallInv
<1>2. c.tier = "pinned" /\ c.id \in born /\ ~Inserted(c.id)
  BY <1>1 DEF OpInv
<1>3. Batch(a) \in MemBatches
  <2>1. <<>> \in Seq(Promotions)
    OBVIOUS
  <2> QED
    BY <1>1, <2>1 DEF MemInv, MemTypes, Batch, NoBatch, MemBatches
<1>4. added \in Promotions /\ added.id = c.id
  BY <1>1 DEF Promotions
<1> HIDE DEF added
<1>5. /\ Batch(a).pins \in Seq(Promotions) /\ b.pins = Append(Batch(a).pins, added)
      /\ b.ins = Batch(a).ins
  BY <1>3 DEF MemBatches
<1>6. b.pins \in Seq(Promotions)
  BY <1>4, <1>5, AppendProperties
<1>7. b \in MemBatches
  BY <1>3, <1>4, <1>6 DEF MemBatches
<1>8. ASSUME NEW i \in DOMAIN b.pins PROVE b.pins[i].id = c.id \/ \E j \in DOMAIN Batch(a).pins : b.pins[i].id = Batch(a).pins[j].id
  <2>1. /\ Len(b.pins) = Len(Batch(a).pins) + 1 /\ b.pins[Len(Batch(a).pins) + 1] = added
        /\ \A j \in 1 .. Len(Batch(a).pins) : b.pins[j] = Batch(a).pins[j]
    BY <1>4, <1>5, AppendProperties
  <2>2. /\ DOMAIN b.pins = 1 .. Len(b.pins) /\ DOMAIN Batch(a).pins = 1 .. Len(Batch(a).pins)
        /\ Len(Batch(a).pins) \in Nat
    BY <1>5, <1>6, LenProperties
  <2>3. i \in 1 .. Len(Batch(a).pins) \/ i = Len(Batch(a).pins) + 1
    BY <2>1, <2>2
  <2> QED
    BY <1>4, <2>1, <2>2, <2>3
<1>9. staged' = [staged EXCEPT ![a] = b]
  BY DEF added
<1> HIDE DEF b
<1>10. /\ MemTypes' /\ CallInv' /\ EarnedInv' /\ Batch(a).ins = InsOf(a)
       /\ PinsOf(a) = {Batch(a).pins[i].id : i \in DOMAIN Batch(a).pins}
       /\ InsOf(a)' \subseteq b.ins /\ PinsOf(a)' \subseteq {b.pins[i].id : i \in DOMAIN b.pins}
       /\ \A t \in MemTurns \ {a} : InsOf(t)' = InsOf(t) /\ PinsOf(t)' = PinsOf(t)
  BY <1>1, <1>7, <1>9, BatchGrows
<1>11. \A t \in MemTurns : /\ InsOf(t)' \subseteq InsOf(t)
                           /\ \A m \in PinsOf(t)' : m \in PinsOf(t) \/ m = c.id
  <2>1. \A m \in PinsOf(a)' : m \in PinsOf(a) \/ m = c.id
    <3> SUFFICES ASSUME NEW m \in PinsOf(a)' PROVE m \in PinsOf(a) \/ m = c.id
      OBVIOUS
    <3>1. PICK i \in DOMAIN b.pins : m = b.pins[i].id
      BY <1>10
    <3> QED
      BY <1>8, <1>10, <3>1
  <2> QED
    BY <1>5, <1>10, <2>1
<1>12. \A m \in Mems : (Pledged(m)' => Pledged(m) \/ m = c.id) /\ (Inserted(m)' => Inserted(m))
  BY <1>11 DEF Pledged, Inserted
<1>13. InsertInv'
  <2>1. \A t, u \in MemTurns : \A i \in InsOf(t)', j \in InsOf(u)' : i.id = j.id => t = u /\ i = j
    BY <1>11 DEF MemInv, InsertInv
  <2> QED
    BY <1>2, <1>12, <2>1 DEF MemInv, InsertInv, Stored
<1>14. BudgetInv'
  <2>1. \A n \in Mems, k \in Sizes : InsByte(n, k)' => InsByte(n, k)
    BY <1>11 DEF InsByte
  <2>2. \A n \in Mems, k \in Sizes : RowByte(n, k)' =>
           RowByte(n, k) \/ (n = c.id /\ Stored(n) /\ k <= memRow[n].size)
    BY <1>12 DEF RowByte, Stored
  <2> QED
    BY <1>2, <2>1, <2>2, RowPinned
<1> QED
  BY <1>10, <1>13, <1>14 DEF MemInv

(* The end of a call of the owner that changes a row.                         *)
LEMMA RowChanges ==
    ASSUME MemInv, NEW a \in Actors, memCall[a] # NoEntry, Leave(a), Stored(memCall[a].id),
           UNCHANGED <<born, staged, writing, memTurn>>,
           NEW row \in MemRows, row.by = memRow[memCall[a].id].by,
           memRow' = [memRow EXCEPT ![memCall[a].id] = row]
    PROVE  /\ MemTypes' /\ CallInv' /\ EarnedInv' /\ InsertInv'
           /\ \A n \in Mems : \A k : InsByte(n, k)' <=> InsByte(n, k)
           /\ \A n \in Mems : \A k : n # memCall[a].id => (RowByte(n, k)' <=> RowByte(n, k))
           /\ \A k : RowByte(memCall[a].id, k) <=>
                 (memRow[memCall[a].id].tier = "pinned" \/ Pledged(memCall[a].id))
                   /\ k <= memRow[memCall[a].id].size
           /\ \A m \in Mems : \A k : m = memCall[a].id => (RowByte(m, k)' =>
                 (row.tier = "pinned" \/ Pledged(m)) /\ k <= row.size)
<1> USE DEF MemInv
<1>1. memCall[a].id \in Mems
  BY SnapTypes
<1>2. /\ memCall' = [memCall EXCEPT ![a] = NoEntry]
      /\ \A c \in Actors : memCall'[c] = NoEntry
  BY OneCall DEF Leave, MemTypes
<1>3. memRow' \in [Mems -> MemRows \cup {NoEntry}] /\ memRow'[memCall[a].id] = row
      /\ \A m \in Mems : m # memCall[a].id => memRow'[m] = memRow[m]
  BY <1>1 DEF MemTypes
<1>4. MemTypes'
  BY <1>2, <1>3 DEF MemTypes
<1>5. CallInv'
  BY <1>2 DEF CallInv
<1>6. EarnedInv'
  BY <1>3 DEF EarnedInv, Stored
<1>7. \A t : InsOf(t)' = InsOf(t) /\ PinsOf(t)' = PinsOf(t)
  BY DEF InsOf, PinsOf, HeldBatch
<1>8. \A m : (Inserted(m)' <=> Inserted(m)) /\ (Pledged(m)' <=> Pledged(m))
  BY <1>7 DEF Inserted, Pledged
<1>9. \A m \in Mems : Stored(m)' => Stored(m)
  BY <1>3 DEF Stored
<1>10. InsertInv'
  BY <1>7, <1>8, <1>9 DEF InsertInv
<1>11. \A n \in Mems : \A k : InsByte(n, k)' <=> InsByte(n, k)
  BY <1>7 DEF InsByte
<1>12. \A n \in Mems : \A k : n # memCall[a].id => (RowByte(n, k)' <=> RowByte(n, k))
  BY <1>3, <1>8 DEF RowByte, Stored
<1>13. \A k : RowByte(memCall[a].id, k) <=>
                 (memRow[memCall[a].id].tier = "pinned" \/ Pledged(memCall[a].id))
                   /\ k <= memRow[memCall[a].id].size
  BY DEF RowByte
<1>14. \A m \in Mems : \A k : m = memCall[a].id => (RowByte(m, k)' =>
                 (row.tier = "pinned" \/ Pledged(m)) /\ k <= row.size)
  BY <1>3, <1>8 DEF RowByte
<1> QED
  BY <1>4, <1>5, <1>6, <1>10, <1>11, <1>12, <1>13, <1>14

LEMMA EditedRow ==
    ASSUME NEW row \in MemRows
    PROVE  /\ \A tier \in Tiers :
                LET new == [row EXCEPT !.tier = tier, !.rev = @ + 1]
                IN  new \in MemRows /\ new.by = row.by /\ new.tier = tier /\ new.size = row.size
           /\ \A size \in Sizes :
                LET new == [row EXCEPT !.size = size, !.rev = @ + 1]
                IN  new \in MemRows /\ new.by = row.by /\ new.tier = row.tier /\ new.size = size
<1>1. PICK old \in MemRows : old = row /\ old.rev + 1 \in Int
  BY DEF MemRows
<1>2. PICK rev \in Int : rev = row.rev + 1
  BY <1>1
<1>3. ASSUME NEW tier \in Tiers, NEW new, new = [row EXCEPT !.tier = tier, !.rev = rev]
      PROVE  new \in MemRows /\ new.by = row.by /\ new.tier = tier /\ new.size = row.size
  BY <1>3 DEF MemRows
<1>4. ASSUME NEW size \in Sizes, NEW new, new = [row EXCEPT !.size = size, !.rev = rev]
      PROVE  new \in MemRows /\ new.by = row.by /\ new.tier = row.tier /\ new.size = size
  BY <1>4 DEF MemRows
<1>5. ASSUME NEW tier \in Tiers
      PROVE  LET new == [row EXCEPT !.tier = tier, !.rev = @ + 1]
             IN  new \in MemRows /\ new.by = row.by /\ new.tier = tier /\ new.size = row.size
  BY <1>2, <1>3
<1>6. ASSUME NEW size \in Sizes
      PROVE  LET new == [row EXCEPT !.size = size, !.rev = @ + 1]
             IN  new \in MemRows /\ new.by = row.by /\ new.tier = row.tier /\ new.size = size
  BY <1>2, <1>4
<1> QED
  BY <1>5, <1>6

LEMMA FinishTier ==
    ASSUME MemInv, NEW a \in Actors, memCall[a] # NoEntry, ~OverBudget(memCall[a]),
           memCall[a].op = "tier", Leave(a), Stored(memCall[a].id),
           UNCHANGED <<born, staged, writing, memTurn>>,
           memRow' = [memRow EXCEPT ![memCall[a].id].tier = memCall[a].tier,
                                    ![memCall[a].id].rev = @ + 1]
    PROVE  MemInv'
<1> DEFINE c == memCall[a]
           row == [memRow[c.id] EXCEPT !.tier = c.tier, !.rev = @ + 1]
<1>1. c.id \in Mems /\ c.tier \in Tiers
  BY SnapTypes DEF MemInv
<1>2. memRow[c.id] \in MemRows
  BY <1>1 DEF MemInv, MemTypes, Stored
<1>3. row \in MemRows /\ row.by = memRow[c.id].by /\ row.tier = c.tier /\ row.size = memRow[c.id].size
  BY <1>1, <1>2, EditedRow
<1>4. memRow' = [memRow EXCEPT ![c.id] = row]
  BY <1>1 DEF MemInv, MemTypes
<1> HIDE DEF row
<1>5. /\ MemTypes' /\ CallInv' /\ EarnedInv' /\ InsertInv'
      /\ \A n \in Mems : \A k : InsByte(n, k)' <=> InsByte(n, k)
      /\ \A n \in Mems : \A k : n # c.id => (RowByte(n, k)' <=> RowByte(n, k))
      /\ \A k : RowByte(c.id, k) <=> (memRow[c.id].tier = "pinned" \/ Pledged(c.id)) /\ k <= memRow[c.id].size
      /\ \A m \in Mems : \A k : m = c.id => (RowByte(m, k)' => (row.tier = "pinned" \/ Pledged(m)) /\ k <= row.size)
  BY <1>3, <1>4, RowChanges
<1>6. BudgetInv'
  <2>1. CASE c.tier = "pinned"
    <3>1. \A n \in Mems, k \in Sizes : InsByte(n, k)' => InsByte(n, k)
      BY <1>5
    <3>2. ASSUME NEW n \in Mems, NEW k \in Sizes, RowByte(n, k)'
          PROVE  RowByte(n, k) \/ (n = c.id /\ Stored(n) /\ k <= memRow[n].size)
      <4>1. CASE n = c.id
        <5>1. k <= row.size
          BY <1>5, <3>2, <4>1
        <5> QED
          BY <1>3, <4>1, <5>1
      <4>2. CASE n # c.id
        BY <1>5, <3>2, <4>2
      <4> QED
        BY <4>1, <4>2
    <3> QED
      BY <2>1, <3>1, <3>2, RowPinned
  <2>2. CASE c.tier # "pinned"
    <3>1. \A n \in Mems, k \in Sizes : InsByte(n, k)' \/ RowByte(n, k)' => InsByte(n, k) \/ RowByte(n, k)
      BY <1>3, <1>5, <2>2
    <3> QED
      BY <3>1, NoMemory
  <2> QED
    BY <2>1, <2>2
<1> QED
  BY <1>5, <1>6 DEF MemInv

LEMMA FinishText ==
    ASSUME MemInv, NEW a \in Actors, memCall[a] # NoEntry, ~OverBudget(memCall[a]),
           memCall[a].op = "text", Leave(a), Stored(memCall[a].id),
           UNCHANGED <<born, staged, writing, memTurn>>,
           memRow' = [memRow EXCEPT ![memCall[a].id].size = memCall[a].size,
                                    ![memCall[a].id].rev = @ + 1]
    PROVE  MemInv'
<1> DEFINE c == memCall[a]
           row == [memRow[c.id] EXCEPT !.size = c.size, !.rev = @ + 1]
<1>1. OpInv(a, c) /\ SnapInv(c) /\ c.id \in Mems
  BY SnapTypes DEF MemInv, CallInv
<1>2. /\ c.excluding = NoEntry /\ c.size \in Sizes
      /\ \/ memRow[c.id].tier = "pinned" /\ c.extra = c.size - memRow[c.id].size
         \/ c.size <= memRow[c.id].size
         \/ memRow[c.id].tier # "pinned" /\ c.id \notin Promised(c.snap)
  BY <1>1 DEF OpInv
<1>3. memRow[c.id] \in MemRows
  BY <1>1 DEF MemInv, MemTypes, Stored
<1>4. row \in MemRows /\ row.by = memRow[c.id].by /\ row.tier = memRow[c.id].tier /\ row.size = c.size
  BY <1>2, <1>3, EditedRow
<1>5. memRow' = [memRow EXCEPT ![c.id] = row]
  BY <1>1 DEF MemInv, MemTypes
<1> HIDE DEF row
<1>6. /\ MemTypes' /\ CallInv' /\ EarnedInv' /\ InsertInv'
      /\ \A n \in Mems : \A k : InsByte(n, k)' <=> InsByte(n, k)
      /\ \A n \in Mems : \A k : n # c.id => (RowByte(n, k)' <=> RowByte(n, k))
      /\ \A k : RowByte(c.id, k) <=> (memRow[c.id].tier = "pinned" \/ Pledged(c.id)) /\ k <= memRow[c.id].size
      /\ \A m \in Mems : \A k : m = c.id => (RowByte(m, k)' => (row.tier = "pinned" \/ Pledged(m)) /\ k <= row.size)
  BY <1>4, <1>5, RowChanges
<1>7. memRow[c.id].size \in Nat /\ c.size \in Nat /\ \A k \in Sizes : k \in Nat
  BY <1>2, <1>3, MemoryAssumption DEF MemRows, Sizes
<1>8. BudgetInv'
  <2>1. CASE memRow[c.id].tier # "pinned" /\ c.id \notin Promised(c.snap)
    <3>1. ~Pledged(c.id)
      BY <1>1, <2>1, PledgedRead
    <3>2. \A n \in Mems, k \in Sizes : InsByte(n, k)' \/ RowByte(n, k)' => InsByte(n, k) \/ RowByte(n, k)
      BY <1>4, <1>6, <2>1, <3>1
    <3> QED
      BY <3>2, NoMemory
  <2>2. CASE c.size <= memRow[c.id].size
    <3>1. \A n \in Mems, k \in Sizes : InsByte(n, k)' \/ RowByte(n, k)' => InsByte(n, k) \/ RowByte(n, k)
      BY <1>4, <1>6, <1>7, <2>2
    <3> QED
      BY <3>1, NoMemory
  <2>3. CASE /\ memRow[c.id].tier = "pinned" /\ c.extra = c.size - memRow[c.id].size
             /\ c.size > memRow[c.id].size
    <3> DEFINE lo == memRow[c.id].size
    <3>1. \A n \in Mems : n # c.excluding
      BY <1>2, MemoryAssumption
    <3>2. \A n \in Mems, k \in Sizes : InsByte(n, k)' \/ RowByte(n, k)' =>
              \/ n # c.excluding /\ (InsByte(n, k) \/ RowByte(n, k))
              \/ n = c.id /\ lo < k /\ k <= c.size
      BY <1>4, <1>6, <1>7, <2>3, <3>1
    <3>3. lo \in Nat /\ lo <= c.size /\ c.size - lo <= c.extra /\ c.extra > 0
      BY <1>7, <2>3
    <3> HIDE DEF lo
    <3> QED
      BY <1>1, <1>7, <3>2, <3>3, OneMemory
  <2> QED
    BY <1>2, <1>7, <2>1, <2>2, <2>3
<1> QED
  BY <1>6, <1>8 DEF MemInv

LEMMA FinishCallKeeps ==
    ASSUME MemInv, NEW a \in Actors, FinishCall(a)
    PROVE  MemInv'
<1> DEFINE c == memCall[a]
           r == [id |-> c.id, tier |-> c.tier, size |-> c.size, rev |-> 1]
           old == {i \in Batch(a).ins : i.id = c.id}
<1>1. c # NoEntry /\ Leave(a) /\ UNCHANGED <<born, writing, memTurn>>
  BY DEF FinishCall
<1>2. CASE UNCHANGED <<memRow, staged>>
  <2>1. memCall' = [memCall EXCEPT ![a] = NoEntry] /\ \A b \in Actors : memCall'[b] = NoEntry
    BY <1>1, OneCall DEF Leave, MemInv, MemTypes
  <2>2. MemTypes'
    BY <1>1, <1>2, <2>1 DEF MemInv, MemTypes
  <2>3. HeldShrinks /\ RowsShrink
    BY <1>1, <1>2 DEF HeldShrinks, HeldBatch, InsOf, PinsOf, RowsShrink, Stored
  <2>4. CallsGoOn
    BY <2>1 DEF CallsGoOn
  <2> QED
    BY <1>1, <2>2, <2>3, <2>4, QuietKeeps
<1>3. CASE /\ ~OverBudget(c) /\ (c.op \in {"tier", "text"} => Stored(c.id))
           /\ \/ /\ c.op = "save"
                 /\ staged' = [staged EXCEPT ![a] = [Batch(a) EXCEPT !.ins = @ \cup {r}]]
                 /\ UNCHANGED memRow
              \/ /\ c.op = "restage"
                 /\ staged' = [staged EXCEPT ![a] =
                                  [Batch(a) EXCEPT !.ins = (@ \ old) \cup Bumped(old, c.tier)]]
                 /\ UNCHANGED memRow
              \/ /\ c.op = "pin"
                 /\ staged' = [staged EXCEPT ![a] = [Batch(a) EXCEPT !.pins =
                                  Append(@, [id |-> c.id, rev |-> c.size])]]
                 /\ UNCHANGED memRow
              \/ /\ c.op = "tier"
                 /\ memRow' = [memRow EXCEPT ![c.id].tier = c.tier, ![c.id].rev = @ + 1]
                 /\ UNCHANGED staged
              \/ /\ c.op = "text"
                 /\ memRow' = [memRow EXCEPT ![c.id].size = c.size, ![c.id].rev = @ + 1]
                 /\ UNCHANGED staged
  BY <1>1, <1>3, FinishSave, FinishRestage, FinishPin, FinishTier, FinishText
<1> QED
  BY <1>2, <1>3, Zenon DEF FinishCall, Bumped

LEMMA MemStarts == MemInit => MemInv
<1> SUFFICES ASSUME MemInit PROVE MemInv
  OBVIOUS
<1>1. MemTypes /\ CallInv /\ EarnedInv
  BY DEF MemInit, MemTypes, CallInv, EarnedInv, Stored
<1>2. \A t \in MemTurns : InsOf(t) = {} /\ PinsOf(t) = {}
  BY DEF MemInit, InsOf, PinsOf, HeldBatch
<1>3. InsertInv
  BY <1>2 DEF MemInit, InsertInv, Inserted, Pledged, Stored
<1>4. HeldText = {}
  BY <1>2 DEF MemInit, HeldText, InsByte, RowByte, Stored
<1>5. BudgetInv
  BY <1>4, FS_EmptySet, MemoryAssumption DEF BudgetInv
<1> QED
  BY <1>1, <1>3, <1>5 DEF MemInv

LEMMA MemStep ==
    ASSUME ~LateGrowth, MemInv, [MemNext]_memVars
    PROVE  MemInv'
<1>1. ASSUME NEW t \in MemTurns, EndDrive(t) \/ Answered(t) PROVE MemInv'
  <2>1. PICK s \in {"running", "waiting", "ending"} : memTurn' = [memTurn EXCEPT ![t] = s]
    BY <1>1 DEF EndDrive, Answered
  <2>2. memCall[t] = NoEntry /\ memTurn[t] \notin Over /\ writing[t] = NoEntry
    BY <1>1 DEF EndDrive, Answered, MemInv, CallInv, MemTypes, Over, Actors
  <2>3. UNCHANGED <<memRow, born, staged, writing, memLock, memCall>>
    BY <1>1 DEF EndDrive, Answered
  <2> QED
    BY <2>1, <2>2, <2>3, TurnMoves
<1>2. CASE UNCHANGED memVars
  <2>1. HeldShrinks /\ RowsShrink
    BY <1>2 DEF memVars, HeldShrinks, HeldBatch, InsOf, PinsOf, RowsShrink, Stored
  <2>2. MemTypes'
    BY <1>2 DEF memVars, MemInv, MemTypes
  <2>3. CallsGoOn
    BY <1>2 DEF memVars, CallsGoOn, InsOf, HeldBatch, MemInv, CallInv
  <2> QED
    BY <1>2, <2>1, <2>2, <2>3, QuietKeeps DEF memVars
<1> QED
  BY <1>1, <1>2, SaveKeeps, StagePinKeeps, StageDeleteKeeps, OwnerEditKeeps, OwnerDeleteKeeps,
     WriteKeeps, CommitKeeps, StopKeeps, RestartKeeps, FinishCallKeeps DEF MemNext

LEMMA MemInvEarns == MemInv => StoredIsEarned
<1> SUFFICES ASSUME MemInv PROVE StoredIsEarned
  OBVIOUS
<1> DEFINE rows == {m \in Mems : Stored(m) /\ memRow[m].tier = "pinned"}
           texts == {Bytes(m, memRow[m].size) : m \in rows}
<1>1. ASSUME NEW p \in UNION texts PROVE p \in HeldText
  <2>1. PICK m \in rows : p \in Bytes(m, memRow[m].size)
    OBVIOUS
  <2>2. memRow[m].size \in Sizes
    BY DEF MemInv, MemTypes, Stored, MemRows
  <2>3. PICK k \in 1 .. memRow[m].size : p = <<m, k>>
    BY <2>1 DEF Bytes
  <2>4. k \in Sizes /\ k <= memRow[m].size
    BY <2>2, <2>3, MemoryAssumption DEF Sizes
  <2> QED
    BY <2>3, <2>4 DEF HeldText, RowByte
<1> HIDE DEF texts
<1>2. UNION texts \in SUBSET HeldText
  BY <1>1
<1>3. IsFiniteSet(UNION texts) /\ Cardinality(UNION texts) <= Cardinality(HeldText)
  BY <1>2, TextFinite, FS_Subset
<1>4. Cardinality(UNION texts) \in Nat /\ Cardinality(HeldText) \in Nat
  BY <1>3, TextFinite, FS_CardinalityType
<1>5. Cardinality(UNION texts) <= Budget
  BY <1>3, <1>4, MemoryAssumption DEF MemInv, BudgetInv
<1> QED
  BY <1>5 DEF texts, StoredIsEarned, MemInv, EarnedInv

(* What is stored was kept by its turn, and fits, for any number of turns,    *)
(* memories, sizes and any budget, unless the owner makes a text longer that *)
(* a turn is promoting (write, rollback, _pinned_bytes).                     *)
THEOREM MemoriesEarned == ~LateGrowth => (MemSpec => []StoredIsEarned)
<1> SUFFICES ASSUME ~LateGrowth PROVE MemSpec => []StoredIsEarned
  OBVIOUS
<1>1. MemInv /\ [MemNext]_memVars => MemInv'
  BY MemStep
<1> QED
  BY <1>1, MemStarts, MemInvEarns, PTL DEF MemSpec

-----------------------------------------------------------------------------
(* Risk.                                                                     *)

(* The parse, as a fold over the tokens.                                     *)
RiskItems == [words : Seq(Tokens), writes : SUBSET Tokens, pipedIn : BOOLEAN]
ItemLists == Seq(RiskItems)
Parses == [commands : ItemLists, current : RiskItems, pending : OutRedirects \cup {""}]
ParseStart == [commands |-> <<>>, current |-> NoCommand(FALSE), pending |-> ""]

LEMMA FlushTyped == ASSUME NEW p \in Parses PROVE Flush(p) \in ItemLists
<1>1. p.commands \in ItemLists /\ p.current \in RiskItems
  BY DEF Parses
<1> QED
  BY <1>1, AppendProperties DEF Flush, ItemLists

LEMMA StartTyped == ParseStart \in Parses
BY DEF ParseStart, Parses, ItemLists, RiskItems, NoCommand

LEMMA FreshTyped ==
    ASSUME NEW f \in ItemLists, NEW c \in RiskItems
    PROVE  [commands |-> f, current |-> c, pending |-> ""] \in Parses
BY DEF Parses

LEMMA ParseTyped ==
    ASSUME NEW p \in Parses, NEW t \in Tokens
    PROVE  ParseToken(p, t) \in Parses
<1>1. /\ p.commands \in ItemLists /\ p.current \in RiskItems
      /\ p.pending \in OutRedirects \cup {""}
  BY DEF Parses
<1>2. CASE p.pending # ""
  <2> DEFINE w == IF p.pending # ">&" \/ t \notin {"1"} THEN p.current.writes \cup {t} ELSE p.current.writes
  <2>1. ParseToken(p, t) = [p EXCEPT !.pending = "", !.current = [p.current EXCEPT !.writes = w]]
    BY <1>2 DEF ParseToken, Parses, RiskItems
  <2>2. w \in SUBSET Tokens
    BY <1>1 DEF RiskItems
  <2> HIDE DEF w
  <2>3. [p.current EXCEPT !.writes = w] \in RiskItems
    BY <1>1, <2>2 DEF RiskItems
  <2> QED
    BY <2>1, <2>3 DEF Parses
<1>3. CASE p.pending = "" /\ t \in Separators
  <2>1. ParseToken(p, t) = [commands |-> Flush(p), current |-> NoCommand(t = "|"), pending |-> ""]
    BY <1>3 DEF ParseToken
  <2> DEFINE c == NoCommand(t = "|")
  <2>2. c \in RiskItems
    BY DEF NoCommand, RiskItems
  <2>3. Flush(p) \in ItemLists
    BY FlushTyped
  <2> HIDE DEF c
  <2>4. ParseToken(p, t) = [commands |-> Flush(p), current |-> c, pending |-> ""]
    BY <2>1 DEF c
  <2> QED
    <3> DEFINE f == Flush(p)
    <3> HIDE DEF f
    <3>1. f \in ItemLists /\ ParseToken(p, t) = [commands |-> f, current |-> c, pending |-> ""]
      BY <2>3, <2>4 DEF f
    <3> QED
      BY <2>2, <3>1, FreshTyped
<1>4. CASE p.pending = "" /\ t \notin Separators /\ t \in OutRedirects
  <2>1. ParseToken(p, t) = [p EXCEPT !.pending = t]
    BY <1>4 DEF ParseToken
  <2> QED
    BY <1>4, <2>1 DEF Parses
<1>5. CASE p.pending = "" /\ t \notin Separators /\ t \notin OutRedirects /\ t = "<"
  BY <1>5 DEF ParseToken
<1>6. CASE p.pending = "" /\ t \notin Separators /\ t \notin OutRedirects /\ t # "<"
  <2> DEFINE w == Append(p.current.words, t)
  <2>1. ParseToken(p, t) = [p EXCEPT !.current = [p.current EXCEPT !.words = w]]
    BY <1>6 DEF ParseToken, Parses, RiskItems
  <2>2. w \in Seq(Tokens)
    BY <1>1, AppendProperties DEF RiskItems
  <2> HIDE DEF w
  <2>3. [p.current EXCEPT !.words = w] \in RiskItems
    BY <1>1, <2>2 DEF RiskItems
  <2> QED
    BY <2>1, <2>3 DEF Parses
<1> QED
  BY <1>2, <1>3, <1>4, <1>5, <1>6

LEMMA ParsePrefixes ==
    ASSUME NEW toks \in Seq(Tokens)
    PROVE  \E h \in [0..Len(toks) -> Parses] :
              /\ h[0] = ParseStart /\ Parsed(toks) = h[Len(toks)]
              /\ \A k \in 1..Len(toks) : h[k] = ParseToken(h[k - 1], toks[k])
<1> DEFINE n == Len(toks)
           Eq(g) == g = [s \in SUBSET (DOMAIN toks) |->
                           IF s = {} THEN ParseStart
                           ELSE ParseToken(g[s \ {Max(s)}], toks[Max(s)])]
           iter == CHOOSE g : Eq(g)
           take == [x \in 1..n |-> [v \in Parses |-> ParseToken(v, toks[x])]]
<1>1. n \in Nat /\ DOMAIN toks = 1..n /\ \A x \in 1..n : toks[x] \in Tokens
  BY LenProperties, ElementOfSeq
<1>2. Parsed(toks) = iter[1..n]
  <2>1. Parsed(toks) = iter[DOMAIN toks]
    BY DEF Parsed, FoldLeft, MapThenFoldSet, ParseStart
  <2> HIDE DEF iter
  <2> QED
    BY <1>1, <2>1
<1>3. \A x \in 1..n : \A v \in Parses : /\ take[x][v] \in Parses
                                       /\ take[x][v] = ParseToken(v, toks[x])
  BY <1>1, ParseTyped
<1> HIDE DEF take
<1>4. Takes(n, Parses, ParseStart, take)
  BY <1>3, StartTyped DEF Takes
<1>5. Eq(iter)
  <2> HIDE DEF n
  <2>2. PICK f : Folded(f, n, Parses, ParseStart, take)
    BY <1>1, <1>4, FoldOfPlaces
  <2>3. /\ f \in [SUBSET (1..n) -> Parses] /\ f[{}] = ParseStart
        /\ \A s \in SUBSET (1..n) : s # {} => /\ Max(s) \in 1..n
                                              /\ f[s] = take[Max(s)][f[s \ {Max(s)}]]
    BY <2>2 DEF Folded
  <2>4. ASSUME NEW s \in SUBSET (1..n), s # {}
        PROVE  f[s] = ParseToken(f[s \ {Max(s)}], toks[Max(s)])
    <3>1. s \ {Max(s)} \in SUBSET (1..n)
      OBVIOUS
    <3>2. f[s \ {Max(s)}] \in Parses
      BY <2>3, <3>1
    <3> QED
      BY <1>3, <2>3, <2>4, <3>2
  <2>5. Eq(f)
    BY <1>1, <2>3, <2>4
  <2> HIDE DEF Eq
  <2> QED
    BY <2>5
<1> HIDE DEF iter
<1>6. Follows(iter, n, Parses, ParseStart, take)
  <2>1. iter[{}] = ParseStart
    BY <1>1, <1>5
  <2>2. ASSUME NEW s \in SUBSET (1..n), s # {}, iter[s \ {Max(s)}] \in Parses
        PROVE  iter[s] = take[Max(s)][iter[s \ {Max(s)}]]
    <3>1. Max(s) \in 1..n
      BY <1>1, <2>2, LastPlace
    <3>2. iter[s] = ParseToken(iter[s \ {Max(s)}], toks[Max(s)])
      BY <1>1, <1>5, <2>2
    <3> QED
      BY <1>3, <2>2, <3>1, <3>2
  <2> QED
    BY <2>1, <2>2 DEF Follows
<1> HIDE DEF n
<1>7. PICK h \in [0..n -> Parses] :
          /\ h[0] = ParseStart /\ iter[1..n] = h[n]
          /\ \A k \in 1..n : h[k] = take[k][h[k - 1]]
  BY <1>1, <1>4, <1>6, FoldChain
<1>8. ASSUME NEW k \in 1..n PROVE h[k] = ParseToken(h[k - 1], toks[k])
  <2>1. h[k - 1] \in Parses
    BY <1>1, <1>7
  <2> QED
    BY <1>3, <1>7, <2>1
<1> QED
  BY <1>2, <1>7, <1>8 DEF n

LEMMA ParseGrows ==
    ASSUME NEW toks \in Seq(Tokens), NEW t \in Tokens
    PROVE  /\ Parsed(toks) \in Parses
           /\ Parsed(Append(toks, t)) = ParseToken(Parsed(toks), t)
<1> DEFINE more == Append(toks, t)
           n == Len(toks)
<1>1. /\ more \in Seq(Tokens) /\ Len(more) = n + 1 /\ n \in Nat /\ more[n + 1] = t
      /\ \A k \in 1..n : more[k] = toks[k]
  BY AppendProperties, LenProperties
<1> HIDE DEF more
<1>2. PICK h \in [0..n -> Parses] :
         /\ h[0] = ParseStart /\ Parsed(toks) = h[n]
         /\ \A k \in 1..n : h[k] = ParseToken(h[k - 1], toks[k])
  BY ParsePrefixes
<1>a. PICK g \in [0..Len(more) -> Parses] :
         /\ g[0] = ParseStart /\ Parsed(more) = g[Len(more)]
         /\ \A k \in 1..Len(more) : g[k] = ParseToken(g[k - 1], more[k])
  BY <1>1, ParsePrefixes
<1>3. /\ g \in [0..n + 1 -> Parses]
      /\ g[0] = ParseStart /\ Parsed(more) = g[n + 1]
      /\ \A k \in 1..n + 1 : g[k] = ParseToken(g[k - 1], more[k])
  BY <1>1, <1>a
<1> DEFINE T == {k \in 0..n : g[k] = h[k]}
<1>4. 0 \in T
  BY <1>1, <1>2, <1>3
<1>5. ASSUME NEW k \in T, k \in 0..n - 1 PROVE k + 1 \in T
  <2>1. k + 1 \in 1..n /\ k + 1 - 1 = k
    BY <1>1, <1>5
  <2> QED
    BY <1>1, <1>2, <1>3, <2>1
<1>6. 0..n \subseteq T
  <2> HIDE DEF T
  <2> QED
    BY <1>1, <1>4, <1>5, UpTo
<1>7. g[n] = h[n] /\ g[n + 1] = ParseToken(g[n], t)
  BY <1>1, <1>3, <1>6
<1> QED
  BY <1>1, <1>2, <1>3, <1>7 DEF more

LEMMA ParseBegins == Parsed(<<>>) = ParseStart
<1>1. <<>> \in Seq(Tokens) /\ Len(<<>>) = 0
  BY EmptySeq
<1>2. \E h : h[0] = ParseStart /\ Parsed(<<>>) = h[Len(<<>>)]
  BY <1>1, ParsePrefixes
<1> QED
  BY <1>1, <1>2

(* A word to the parser, and the words of i's command up to i.                *)
PlainWord(toks, i)     == toks[i] \notin Operators /\ (i > 1 => toks[i - 1] \notin OutRedirects)
Joined(toks, h, i) == \A k \in h..i : toks[k] \notin Separators
Upto(toks, i)      == {h \in 1..i : PlainWord(toks, h) /\ Joined(toks, h, i)}

(* The words at the places W are among these, each at a place of its own, and *)
(* the first of them is the first of these.                                   *)
Spells(toks, W, words, at) ==
  /\ at \in [W -> DOMAIN words]
  /\ \A g, h \in W : at[g] = at[h] => g = h
  /\ \A h \in W : words[at[h]] = toks[h]
  /\ words # <<>> => \E f \in W : at[f] = 1 /\ \A h \in W : f <= h
Spelt(toks, W, words) == \E at : Spells(toks, W, words, at)

Quiet(item) == item.writes \subseteq {"/dev/null"}
AllQuiet(p) == Quiet(p.current) /\ \A k \in DOMAIN p.commands : Quiet(p.commands[k])

Pends(toks, p) ==
  p.pending = IF toks # <<>> /\ toks[Len(toks)] \in OutRedirects THEN toks[Len(toks)] ELSE ""
Discards(u, t) == t = "/dev/null" \/ (u = ">&" /\ t = "1")
TargetsDiscard(toks) ==
  \A i \in 2..Len(toks) : toks[i - 1] \in OutRedirects => Discards(toks[i - 1], toks[i])
NowSpelt(toks, p) == Spelt(toks, Upto(toks, Len(toks)), p.current.words)
BeforeSpelt(toks, p) ==
  \A i \in 1..Len(toks) : PlainWord(toks, i) /\ ~Joined(toks, i, Len(toks)) =>
    \E k \in DOMAIN p.commands : Spelt(toks, Upto(toks, i), p.commands[k].words)
Accounted(toks) ==
  AllQuiet(Parsed(toks)) =>
    /\ Pends(toks, Parsed(toks))
    /\ TargetsDiscard(toks)
    /\ NowSpelt(toks, Parsed(toks))
    /\ BeforeSpelt(toks, Parsed(toks))

LEMMA SpeltFewer ==
    ASSUME NEW toks, NEW W, NEW words, Spelt(toks, W, words),
           NEW U, U \subseteq W, U # {}, \A h \in U : \A g \in W : g <= h => g \in U,
           W \subseteq Nat
    PROVE  Spelt(toks, U, words)
<1>1. PICK at : Spells(toks, W, words, at)
  BY DEF Spelt
<1> DEFINE to == [h \in U |-> at[h]]
<1>2. /\ to \in [U -> DOMAIN words]
      /\ \A g, h \in U : to[g] = to[h] => g = h
      /\ \A h \in U : words[to[h]] = toks[h]
  BY <1>1 DEF Spells
<1>3. words # <<>> => \E f \in U : to[f] = 1 /\ \A h \in U : f <= h
  <2> SUFFICES ASSUME words # <<>> PROVE \E f \in U : to[f] = 1 /\ \A h \in U : f <= h
    OBVIOUS
  <2>1. PICK f \in W : at[f] = 1 /\ \A h \in W : f <= h
    BY <1>1 DEF Spells
  <2>2. f \in U
    BY <2>1
  <2> QED
    BY <2>1, <2>2
<1> HIDE DEF to
<1>4. Spells(toks, U, words, to)
  BY <1>2, <1>3 DEF Spells
<1> QED
  BY <1>4 DEF Spelt

(* What a token leaves of the places before it.                               *)
LEMMA PlacesStay ==
    ASSUME NEW toks \in Seq(Tokens), NEW t \in Tokens, NEW more, more = Append(toks, t)
    PROVE  /\ more \in Seq(Tokens) /\ more # <<>>
           /\ Len(toks) \in Nat /\ Len(more) = Len(toks) + 1 /\ more[Len(toks) + 1] = t
           /\ \A i \in 1..Len(toks) : more[i] = toks[i]
           /\ \A i \in 1..Len(toks) : PlainWord(more, i) <=> PlainWord(toks, i)
           /\ \A h \in 1..Len(toks) + 1, i \in 0..Len(toks) : Joined(more, h, i) <=> Joined(toks, h, i)
           /\ \A i \in 0..Len(toks) : Upto(more, i) = Upto(toks, i)
           /\ \A W, words : W \subseteq 1..Len(toks) /\ Spelt(toks, W, words) => Spelt(more, W, words)
<1> DEFINE n == Len(toks)
<1>1. /\ more \in Seq(Tokens) /\ more # <<>>
      /\ n \in Nat /\ Len(more) = n + 1 /\ more[n + 1] = t
      /\ \A i \in 1..n : more[i] = toks[i]
  BY AppendProperties, LenProperties
<1> HIDE DEF n
<1>2. \A i \in 1..n : PlainWord(more, i) <=> PlainWord(toks, i)
  BY <1>1 DEF PlainWord
<1>3. \A h \in 1..n + 1, i \in 0..n : Joined(more, h, i) <=> Joined(toks, h, i)
  BY <1>1 DEF Joined
<1>4. \A i \in 0..n : Upto(more, i) = Upto(toks, i)
  BY <1>1, <1>2, <1>3 DEF Upto
<1>5. ASSUME NEW W, NEW words, W \subseteq 1..n, Spelt(toks, W, words) PROVE Spelt(more, W, words)
  <2>1. PICK at : Spells(toks, W, words, at)
    BY <1>5 DEF Spelt
  <2>2. Spells(more, W, words, at)
    BY <1>1, <1>5, <2>1 DEF Spells
  <2> QED
    BY <2>2 DEF Spelt
<1> QED
  BY <1>1, <1>2, <1>3, <1>4, <1>5 DEF n

(* What a token makes of a parse: a target, a separator, or anything else.    *)
LEMMA ParseTarget ==
    ASSUME NEW p \in Parses, NEW t \in Tokens, p.pending # ""
    PROVE  /\ ParseToken(p, t).pending = "" /\ ParseToken(p, t).commands = p.commands
           /\ ParseToken(p, t).current.words = p.current.words
           /\ ~(p.pending = ">&" /\ t = "1") =>
                ParseToken(p, t).current.writes = p.current.writes \cup {t}
           /\ p.current.writes \subseteq ParseToken(p, t).current.writes
BY DEF ParseToken, Parses, RiskItems

LEMMA ParseSeparator ==
    ASSUME NEW p \in Parses, NEW t \in Tokens, p.pending = "", t \in Separators
    PROVE  /\ ParseToken(p, t).pending = "" /\ ParseToken(p, t).commands = Flush(p)
           /\ ParseToken(p, t).current.words = <<>>
           /\ ParseToken(p, t).current.writes = {}
BY DEF ParseToken, NoCommand

LEMMA ParseOther ==
    ASSUME NEW p \in Parses, NEW t \in Tokens, p.pending = "", t \notin Separators
    PROVE  /\ t \in OutRedirects => ParseToken(p, t).pending = t
           /\ t \notin OutRedirects => ParseToken(p, t).pending = ""
           /\ ParseToken(p, t).commands = p.commands
           /\ ParseToken(p, t).current.writes = p.current.writes
           /\ t \in Operators => ParseToken(p, t).current.words = p.current.words
           /\ t \notin Operators => ParseToken(p, t).current.words = Append(p.current.words, t)
<1>1. CASE t \in OutRedirects
  BY <1>1 DEF ParseToken, Parses, RiskItems, Operators
<1>2. CASE t = "<"
  BY <1>2 DEF ParseToken, Parses, RiskItems, Operators, OutRedirects
<1>3. CASE t \notin Operators
  BY <1>3 DEF ParseToken, Parses, RiskItems, Operators
<1> QED
  BY <1>1, <1>2, <1>3 DEF Operators

(* A separator ends a command without losing a word or a write of it.         *)
LEMMA FlushKeeps ==
    ASSUME NEW p \in Parses
    PROVE  /\ \A k \in DOMAIN p.commands : k \in DOMAIN Flush(p) /\ Flush(p)[k] = p.commands[k]
           /\ p.current.words # <<>> \/ p.current.writes # {} =>
                \E k \in DOMAIN Flush(p) : Flush(p)[k] = p.current
<1>1. p.commands \in Seq(RiskItems) /\ p.current \in RiskItems
  BY DEF Parses, ItemLists
<1>2. DOMAIN p.commands = 1..Len(p.commands) /\ Len(p.commands) \in Nat
  BY <1>1, LenProperties
<1>3. CASE p.current.words # <<>> \/ p.current.writes # {}
  <2> DEFINE f == Append(p.commands, p.current)
  <2>1. Flush(p) = f
    BY <1>3 DEF Flush
  <2>2. /\ f \in Seq(RiskItems) /\ Len(f) = Len(p.commands) + 1
        /\ \A k \in 1..Len(p.commands) : f[k] = p.commands[k]
        /\ f[Len(p.commands) + 1] = p.current
    BY <1>1, AppendProperties
  <2>3. DOMAIN f = 1..Len(f)
    BY <2>2, LenProperties
  <2> HIDE DEF f
  <2> QED
    BY <1>2, <2>1, <2>2, <2>3
<1>4. CASE ~(p.current.words # <<>> \/ p.current.writes # {})
  BY <1>4 DEF Flush
<1> QED
  BY <1>3, <1>4

(* A parse that writes nothing wrote nothing before.                          *)
LEMMA QuietBefore ==
    ASSUME NEW p \in Parses, NEW t \in Tokens, AllQuiet(ParseToken(p, t))
    PROVE  /\ AllQuiet(p)
           /\ p.pending # "" => Discards(p.pending, t)
<1> DEFINE q == ParseToken(p, t)
<1>1. CASE p.pending # ""
  <2>1. /\ q.commands = p.commands
        /\ ~(p.pending = ">&" /\ t = "1") => q.current.writes = p.current.writes \cup {t}
        /\ p.current.writes \subseteq q.current.writes
    BY <1>1, ParseTarget
  <2> HIDE DEF q
  <2>2. Quiet(q.current) /\ \A k \in DOMAIN p.commands : Quiet(p.commands[k])
    BY <2>1 DEF AllQuiet, q
  <2> QED
    BY <2>1, <2>2 DEF AllQuiet, Quiet, Discards
<1>2. CASE p.pending = "" /\ t \in Separators
  <2>1. q.commands = Flush(p)
    BY <1>2, ParseSeparator
  <2>2. \A k \in DOMAIN Flush(p) : Quiet(Flush(p)[k])
    BY <2>1 DEF AllQuiet
  <2>3. Quiet(p.current)
    BY <2>2, FlushKeeps DEF Quiet
  <2> QED
    BY <1>2, <2>2, <2>3, FlushKeeps DEF AllQuiet
<1>3. CASE p.pending = "" /\ t \notin Separators
  <2>1. q.commands = p.commands /\ q.current.writes = p.current.writes
    BY <1>3, ParseOther
  <2> QED
    BY <1>3, <2>1 DEF AllQuiet, Quiet
<1> QED
  BY <1>1, <1>2, <1>3

LEMMA AccountGrows ==
    ASSUME NEW toks \in Seq(Tokens), NEW t \in Tokens, Accounted(toks)
    PROVE  Accounted(Append(toks, t))
<1> DEFINE more == Append(toks, t)
           n == Len(toks)
           p == Parsed(toks)
           q == Parsed(more)
<1>1. /\ more \in Seq(Tokens) /\ more # <<>>
      /\ n \in Nat /\ Len(more) = n + 1 /\ more[n + 1] = t
      /\ \A i \in 1..n : more[i] = toks[i]
      /\ \A i \in 1..n : PlainWord(more, i) <=> PlainWord(toks, i)
      /\ \A h \in 1..n + 1, i \in 0..n : Joined(more, h, i) <=> Joined(toks, h, i)
      /\ \A i \in 0..n : Upto(more, i) = Upto(toks, i)
      /\ \A W, words : W \subseteq 1..n /\ Spelt(toks, W, words) => Spelt(more, W, words)
  BY PlacesStay
<1>2. p \in Parses /\ q = ParseToken(p, t)
  BY ParseGrows
<1>0. toks # <<>> <=> n > 0
  BY <1>1, EmptySeq, LenProperties
<1> HIDE DEF more, n, p, q
<1> SUFFICES ASSUME AllQuiet(q)
             PROVE  Pends(more, q) /\ TargetsDiscard(more) /\ NowSpelt(more, q) /\ BeforeSpelt(more, q)
  BY DEF Accounted, q, more
<1>3. AllQuiet(p) /\ (p.pending # "" => Discards(p.pending, t))
  BY <1>2, QuietBefore
<1>4. Pends(toks, p) /\ TargetsDiscard(toks) /\ NowSpelt(toks, p) /\ BeforeSpelt(toks, p)
  BY <1>3 DEF Accounted, p
<1>5. /\ p.pending # "" => n > 0 /\ toks[n] \in OutRedirects /\ p.pending = toks[n]
      /\ p.pending = "" => ~(n > 0 /\ toks[n] \in OutRedirects)
  BY <1>0, <1>4 DEF Pends, n, OutRedirects
<1>p. n > 0 => more[n + 1 - 1] = toks[n]
  BY <1>1
<1>6. p.pending # "" => t \notin OutRedirects \cup Separators
  BY <1>3 DEF Discards, OutRedirects, Separators
<1>7. Pends(more, q)
  <2>1. q.pending = IF t \in OutRedirects THEN t ELSE ""
    <3>1. CASE p.pending # ""
      BY <1>2, <1>6, <3>1, ParseTarget
    <3>2. CASE p.pending = "" /\ t \in Separators
      BY <1>2, <3>2, ParseSeparator DEF Separators, OutRedirects
    <3>3. CASE p.pending = "" /\ t \notin Separators
      BY <1>2, <3>3, ParseOther
    <3> QED
      BY <3>1, <3>2, <3>3
  <2> QED
    BY <1>1, <2>1 DEF Pends
<1>8. TargetsDiscard(more)
  <2>1. ASSUME NEW i \in 2..n + 1, more[i - 1] \in OutRedirects PROVE Discards(more[i - 1], more[i])
    <3>1. CASE i = n + 1
      <4>1. i - 1 = n /\ n > 0 /\ n \in 1..n /\ more[i] = t /\ more[i - 1] = toks[n]
        BY <1>1, <3>1
      <4>2. p.pending # "" /\ p.pending = toks[n]
        BY <1>5, <2>1, <4>1
      <4> QED
        BY <1>3, <4>1, <4>2
    <3>2. CASE i \in 2..n
      BY <1>1, <1>4, <2>1, <3>2 DEF TargetsDiscard, n
    <3> QED
      BY <3>1, <3>2, <1>1
  <2> QED
    BY <2>1, <1>1 DEF TargetsDiscard
<1>9. Spelt(toks, Upto(toks, n), p.current.words) /\ Upto(toks, n) \subseteq 1..n
  BY <1>4 DEF NowSpelt, n, Upto
<1>10. \A i \in 1..n : ~Joined(toks, i, n) /\ PlainWord(toks, i) =>
         \E k \in DOMAIN p.commands : Spelt(more, Upto(more, i), p.commands[k].words)
  <2> SUFFICES ASSUME NEW i \in 1..n, ~Joined(toks, i, n), PlainWord(toks, i)
               PROVE  \E k \in DOMAIN p.commands : Spelt(more, Upto(more, i), p.commands[k].words)
    OBVIOUS
  <2>1. PICK k \in DOMAIN p.commands : Spelt(toks, Upto(toks, i), p.commands[k].words)
    BY <1>4 DEF BeforeSpelt, n
  <2>2. Upto(more, i) = Upto(toks, i) /\ Upto(toks, i) \subseteq 1..n
    BY <1>1 DEF Upto
  <2> QED
    BY <1>1, <2>1, <2>2
<1>11. CASE t \in Separators
  <2>1. /\ p.pending = "" /\ q.commands = Flush(p) /\ q.current.words = <<>>
    BY <1>2, <1>6, <1>11, ParseSeparator
  <2>2. \A h \in 1..n + 1 : ~Joined(more, h, n + 1)
    BY <1>1, <1>11 DEF Joined
  <2>3. NowSpelt(more, q)
    <3>1. Upto(more, n + 1) = {}
      BY <2>2 DEF Upto
    <3>2. Spells(more, {}, <<>>, <<>>)
      BY DEF Spells
    <3> QED
      BY <1>1, <2>1, <3>1, <3>2 DEF NowSpelt, Spelt
  <2>4. ASSUME NEW i \in 1..n + 1, PlainWord(more, i)
        PROVE  \E k \in DOMAIN q.commands : Spelt(more, Upto(more, i), q.commands[k].words)
    <3>1. i \in 1..n
      BY <1>1, <1>11, <2>4 DEF PlainWord, Operators
    <3>2. CASE Joined(toks, i, n)
      <4>1. i \in Upto(toks, i) /\ Upto(toks, i) \subseteq Upto(toks, n)
        <5>1. PlainWord(toks, i)
          BY <1>1, <2>4, <3>1
        <5>2. \A h \in Upto(toks, i) : Joined(toks, h, n)
          BY <1>1, <3>1, <3>2 DEF Upto, Joined
        <5>3. Joined(toks, i, i)
          BY <1>1, <3>1, <3>2 DEF Joined
        <5> QED
          BY <1>1, <3>1, <5>1, <5>2, <5>3 DEF Upto
      <4>2. \A h \in Upto(toks, i) : \A g \in Upto(toks, n) : g <= h => g \in Upto(toks, i)
        BY <1>1, <3>1 DEF Upto, Joined
      <4>3. Spelt(toks, Upto(toks, i), p.current.words)
        BY <1>9, <4>1, <4>2, SpeltFewer
      <4>4. p.current.words # <<>>
        BY <4>1, <4>3 DEF Spelt, Spells
      <4>5. PICK k \in DOMAIN Flush(p) : Flush(p)[k] = p.current
        BY <1>2, <4>4, FlushKeeps
      <4>6. Spelt(more, Upto(more, i), p.current.words)
        BY <1>1, <3>1, <4>3, <1>9, <4>1
      <4> QED
        BY <2>1, <4>5, <4>6
    <3>3. CASE ~Joined(toks, i, n)
      <4>1. PICK k \in DOMAIN p.commands : Spelt(more, Upto(more, i), p.commands[k].words)
        BY <1>1, <1>10, <2>4, <3>1, <3>3
      <4> QED
        BY <1>2, <2>1, <4>1, FlushKeeps
    <3> QED
      BY <3>2, <3>3
  <2>5. BeforeSpelt(more, q)
    BY <1>1, <2>4 DEF BeforeSpelt
  <2> QED
    BY <1>7, <1>8, <2>3, <2>5
<1>13. PlainWord(more, n + 1) <=> t \notin Operators /\ p.pending = ""
  <2>1. PlainWord(more, n + 1) <=> t \notin Operators /\ (n > 0 => toks[n] \notin OutRedirects)
    <3>1. n + 1 > 1 <=> n > 0
      BY <1>1
    <3> QED
      BY <1>1, <1>p, <3>1 DEF PlainWord
  <2> QED
    BY <1>5, <2>1
<1>12. CASE t \notin Separators
  <2>1. q.commands = p.commands
    BY <1>2, <1>12, ParseTarget, ParseOther
  <2>2. \A h \in 1..n : Joined(more, h, n + 1) <=> Joined(toks, h, n)
    BY <1>1, <1>12 DEF Joined
  <2>3. Joined(more, n + 1, n + 1)
    BY <1>1, <1>12 DEF Joined
  <2>4. BeforeSpelt(more, q)
    <3>1. ASSUME NEW i \in 1..n + 1, PlainWord(more, i), ~Joined(more, i, n + 1)
          PROVE  \E k \in DOMAIN q.commands : Spelt(more, Upto(more, i), q.commands[k].words)
      <4>1. i \in 1..n /\ ~Joined(toks, i, n) /\ PlainWord(toks, i)
        BY <1>1, <2>2, <2>3, <3>1
      <4> QED
        BY <1>10, <2>1, <4>1
    <3> QED
      BY <1>1, <3>1 DEF BeforeSpelt
  <2>5. NowSpelt(more, q)
    <3>1. CASE PlainWord(more, n + 1)
      <4>1. t \notin Operators /\ p.pending = ""
        BY <1>13, <3>1
      <4>2. q.current.words = Append(p.current.words, t)
        BY <1>2, <1>12, <4>1, ParseOther
      <4>3. Upto(more, n + 1) = Upto(toks, n) \cup {n + 1}
        BY <1>1, <2>2, <2>3, <3>1 DEF Upto
      <4> DEFINE w == p.current.words
                 v == Append(w, t)
                 m == Len(w)
      <4>4. /\ w \in Seq(Tokens) /\ v \in Seq(Tokens) /\ m \in Nat /\ Len(v) = m + 1
            /\ \A k \in 1..m : v[k] = w[k]
            /\ v[m + 1] = t
        <5>1. w \in Seq(Tokens)
          BY <1>2 DEF Parses, RiskItems
        <5> HIDE DEF w
        <5> QED
          BY <5>1, AppendProperties, LenProperties
      <4>5. DOMAIN w = 1..m /\ DOMAIN v = 1..m + 1 /\ (w = <<>> <=> m = 0)
        BY <4>4, LenProperties, EmptySeq
      <4>6. PICK at : Spells(toks, Upto(toks, n), w, at)
        BY <1>9 DEF Spelt
      <4> HIDE DEF w, v, m
      <4> DEFINE W == Upto(toks, n) \cup {n + 1}
                 to == [h \in W |-> IF h = n + 1 THEN m + 1 ELSE at[h]]
      <4>7. \A h \in Upto(toks, n) : h \in 1..n /\ at[h] \in 1..m /\ w[at[h]] = toks[h]
        BY <1>9, <4>5, <4>6 DEF Spells
      <4>8. to \in [W -> DOMAIN v]
        BY <1>1, <4>4, <4>5, <4>7
      <4>9. \A g, h \in W : to[g] = to[h] => g = h
        BY <1>1, <4>4, <4>6, <4>7 DEF Spells
      <4>10. \A h \in W : v[to[h]] = more[h]
        BY <1>1, <4>4, <4>7
      <4>11. \E f \in W : to[f] = 1 /\ \A h \in W : f <= h
        <5>1. CASE w = <<>>
          BY <1>1, <4>4, <4>5, <4>7, <5>1
        <5>2. CASE w # <<>>
          <6>1. PICK f \in Upto(toks, n) : at[f] = 1 /\ \A h \in Upto(toks, n) : f <= h
            BY <4>6, <5>2 DEF Spells
          <6>2. f \in W /\ to[f] = 1 /\ f \in 1..n
            BY <1>1, <4>7, <6>1
          <6> QED
            <7>1. \A h \in W : f <= h
              BY <1>1, <6>1, <6>2
            <7> HIDE DEF to
            <7> QED
              BY <6>2, <7>1
        <5> QED
          BY <5>1, <5>2
      <4> HIDE DEF W, to
      <4>12. Spells(more, W, v, to)
        BY <4>8, <4>9, <4>10, <4>11 DEF Spells
      <4> QED
        BY <1>1, <4>2, <4>3, <4>12 DEF NowSpelt, Spelt, W, v, w
    <3>2. CASE ~PlainWord(more, n + 1)
      <4>1. Upto(more, n + 1) = Upto(toks, n)
        BY <1>1, <2>2, <3>2 DEF Upto
      <4>2. q.current.words = p.current.words
        <5>1. CASE p.pending # ""
          BY <1>2, <5>1, ParseTarget
        <5>2. CASE p.pending = ""
          <6>1. t \in Operators
            BY <1>13, <3>2, <5>2
          <6> QED
            BY <1>2, <1>12, <5>2, <6>1, ParseOther
        <5> QED
          BY <5>1, <5>2
      <4> QED
        BY <1>1, <1>9, <4>1, <4>2 DEF NowSpelt
    <3> QED
      BY <3>1, <3>2
  <2> QED
    BY <1>7, <1>8, <2>4, <2>5
<1> QED
  BY <1>11, <1>12

RiskLevels == {"low", "medium", "high", "destructive"}

LEMMA SpecialNotLow ==
    ASSUME NEW program, NEW args, NEW fed
    PROVE  Special(program, args, fed) \subseteq RiskLevels \ {"low"}
BY DEF Special, RiskLevels

LEMMA ScoreLow ==
    ASSUME NEW item, Score(item) = "low"
    PROVE  /\ Quiet(item)
           /\ item.words # <<>> => /\ item.words[1] \in ReadOnlyPrograms
                                   /\ ~WritesByArgument(item.words[1], Tail(item.words))
<1> DEFINE words  == WithoutAssignments(item.words)
           writes == item.writes \ {"/dev/null"}
           args   == Tail(words)
           special == Special(words[1], args, item.pipedIn)
<1>1. Score(item) =
        IF ".rc" \in writes THEN "destructive"
        ELSE IF words = <<>> THEN IF writes # {} \/ item.words # <<>> THEN "medium" ELSE "low"
        ELSE IF special # {} THEN CHOOSE r \in special : TRUE
        ELSE IF writes # {} \/ item.words # words THEN "medium"
        ELSE IF words[1] \notin ReadOnlyPrograms THEN "medium"
        ELSE IF WritesByArgument(words[1], args) THEN IF words[1] = "find" THEN "high" ELSE "medium"
        ELSE "low"
  BY DEF Score
<1>2. special # {} => (CHOOSE r \in special : TRUE) # "low"
  BY SpecialNotLow
<1> HIDE DEF words, writes, special
<1>3. writes = {} => Quiet(item)
  BY DEF Quiet, writes
<1>4. CASE words = <<>>
  BY <1>1, <1>3, <1>4
<1>5. CASE words # <<>>
  BY <1>1, <1>2, <1>3, <1>5
<1> QED
  BY <1>4, <1>5

LEMMA ScoreIsLevel == ASSUME NEW item PROVE Score(item) \in RiskLevels
<1> DEFINE words  == WithoutAssignments(item.words)
           special == Special(words[1], Tail(words), item.pipedIn)
<1>1. special # {} => (CHOOSE r \in special : TRUE) \in RiskLevels
  BY SpecialNotLow
<1> QED
  BY <1>1 DEF Score, RiskLevels

LEMMA WorstLow ==
    ASSUME NEW cs, Worst(cs) = "low"
    PROVE  \A k \in DOMAIN cs : Score(cs[k]) = "low"
<1> DEFINE scores == {Score(cs[i]) : i \in DOMAIN cs} \cup {"low"}
<1>1. scores \subseteq RiskLevels /\ "low" \in scores /\ \A k \in DOMAIN cs : Score(cs[k]) \in scores
  BY ScoreIsLevel DEF RiskLevels
<1>2. Worst(cs) = CHOOSE r \in scores : \A s \in scores : Rank[s] <= Rank[r]
  BY DEF Worst
<1> HIDE DEF scores
<1>3. Rank["low"] = 0 /\ Rank["medium"] = 1 /\ Rank["high"] = 2 /\ Rank["destructive"] = 3
  BY DEF Rank
<1>4. \E r \in scores : \A s \in scores : Rank[s] <= Rank[r]
  BY <1>1, <1>3 DEF RiskLevels
<1>5. \A s \in scores : Rank[s] <= Rank["low"]
  BY <1>2, <1>4
<1>6. \A s \in RiskLevels : Rank[s] <= Rank["low"] => s = "low"
  BY DEF Rank, RiskLevels
<1> QED
  BY <1>1, <1>5, <1>6

(* The words of a command with a low score do no harm.                        *)
LEMMA WordIsHarmless ==
    ASSUME NEW i \in Nat, NEW words \in Seq(Tokens), NEW f \in WordsTo(i),
           \A h \in Upto(line, i) : f <= h, WordsTo(i) \subseteq Upto(line, i), i \in WordsTo(i),
           words # <<>> => /\ words[1] \in ReadOnlyPrograms
                           /\ ~WritesByArgument(words[1], Tail(words)),
           NEW at, Spells(line, Upto(line, i), words, at)
    PROVE  HarmlessWord(i)
<1>1. /\ at \in [Upto(line, i) -> DOMAIN words]
      /\ \A g, h \in Upto(line, i) : at[g] = at[h] => g = h
      /\ \A h \in Upto(line, i) : words[at[h]] = line[h]
  BY DEF Spells
<1>2. DOMAIN words = 1..Len(words) /\ Len(words) \in Nat /\ words # <<>>
  BY <1>1, LenProperties
<1> DEFINE args == Tail(words)
<1>3. /\ args \in Seq(Tokens) /\ Len(args) = Len(words) - 1
      /\ \A j \in 1..Len(args) : args[j] = words[j + 1]
  BY <1>2, HeadTailProperties
<1>4. DOMAIN args = 1..Len(args)
  BY <1>3, LenProperties
<1>5. Upto(line, i) \subseteq 1..i
  BY DEF Upto
<1>6. ProgramOf(i) = line[f]
  <2>1. f \in WordsTo(i) /\ \A h \in WordsTo(i) : f <= h
    OBVIOUS
  <2>2. \A h \in WordsTo(i) : h \in Nat
    BY <1>5
  <2>3. (CHOOSE h \in WordsTo(i) : \A k \in WordsTo(i) : h <= k) = f
    BY <2>1, <2>2
  <2> QED
    BY <2>3 DEF ProgramOf
<1>7. at[f] = 1
  <2>1. PICK g \in Upto(line, i) : at[g] = 1 /\ \A h \in Upto(line, i) : g <= h
    BY <1>2 DEF Spells
  <2>2. g = f
    BY <1>5, <2>1
  <2> QED
    BY <2>1, <2>2
<1>8. ProgramOf(i) = words[1]
  BY <1>1, <1>6, <1>7
<1>9. words[1] \in ReadOnlyPrograms /\ ~WritesByArgument(words[1], args)
  BY <1>2
<1> HIDE DEF args
<1>10. \A h \in Upto(line, i) : h # f => at[h] - 1 \in DOMAIN args /\ args[at[h] - 1] = line[h]
  <2> SUFFICES ASSUME NEW h \in Upto(line, i), h # f
               PROVE  at[h] - 1 \in DOMAIN args /\ args[at[h] - 1] = line[h]
    OBVIOUS
  <2>1. at[h] \in 1..Len(words) /\ at[h] # 1
    BY <1>1, <1>2, <1>7
  <2> QED
    BY <1>1, <1>2, <1>3, <1>4, <2>1
<1>11. ASSUME words[1] \in DOMAIN WritingArgs PROVE line[i] \notin WritingArgs[words[1]]
  <2>1. CASE i = f
    <3>1. line[i] = words[1]
      BY <1>1, <1>7, <2>1
    <3> QED
      BY <1>9, <1>11, <3>1 DEF WritingArgs, ReadOnlyPrograms
  <2>2. CASE i # f
    <3>1. \A j \in DOMAIN args : args[j] \notin WritingArgs[words[1]]
      BY <1>9, <1>11 DEF WritesByArgument, AnyOf
    <3> QED
      BY <1>10, <2>2, <3>1
  <2> QED
    BY <2>1, <2>2
<1>12. ASSUME words[1] \in OutputOperand
       PROVE  Cardinality({h \in WordsTo(i) : line[h] \notin Options}) <= 2
  <2> DEFINE A == {h \in WordsTo(i) : line[h] \notin Options}
             B == {j \in DOMAIN args : args[j] \notin Options}
             to == [h \in A \ {f} |-> at[h] - 1]
  <2>1. ~(Cardinality(B) > 1)
    BY <1>9, <1>12 DEF WritesByArgument
  <2>2. IsFiniteSet(B) /\ Cardinality(B) \in Nat
    <3>1. IsFiniteSet(1..Len(args)) /\ B \subseteq 1..Len(args)
      BY <1>2, <1>3, <1>4, FS_Interval
    <3> QED
      BY <3>1, FS_Subset, FS_CardinalityType
  <2>3. IsFiniteSet(A) /\ Cardinality(A) \in Nat
    <3>1. IsFiniteSet(1..i) /\ A \subseteq 1..i
      BY <1>5, FS_Interval
    <3> QED
      BY <3>1, FS_Subset, FS_CardinalityType
  <2>4. to \in Injection(A \ {f}, B)
    <3>1. \A h \in A \ {f} : h \in Upto(line, i) /\ to[h] \in B
      BY <1>10
    <3>2. \A g, h \in A \ {f} : to[g] = to[h] => g = h
      <4> SUFFICES ASSUME NEW g \in A \ {f}, NEW h \in A \ {f}, to[g] = to[h] PROVE g = h
        OBVIOUS
      <4>1. at[g] \in Nat /\ at[h] \in Nat /\ at[g] - 1 = at[h] - 1
        BY <1>1, <1>2, <3>1
      <4>2. at[g] = at[h]
        BY <4>1
      <4> QED
        BY <1>1, <3>1, <4>2
    <3> QED
      BY <3>1, <3>2 DEF Injection, IsInjective
  <2> HIDE DEF A, B, to
  <2>5. Cardinality(A \ {f}) <= Cardinality(B)
    BY <2>2, <2>4, FS_Injection
  <2>6. Cardinality(A) <= Cardinality(A \ {f}) + 1 /\ Cardinality(A \ {f}) \in Nat
    BY <2>3, FS_RemoveElement, FS_CardinalityType
  <2>7. Cardinality(A) <= 2
    BY <2>1, <2>2, <2>3, <2>5, <2>6
  <2> QED
    BY <2>7 DEF A
<1> QED
  BY <1>8, <1>9, <1>11, <1>12 DEF HarmlessWord

LEMMA LowRuns ==
    ASSUME line \in Seq(Tokens), Accounted(line)
    PROVE  LowIsReadOnly
<1> DEFINE p == Parsed(line)
           n == Len(line)
           all == Flush(p)
<1>0. n \in Nat /\ DOMAIN line = 1..n
  BY LenProperties
<1>1. p \in Parses
  <2>1. PICK h \in [0..n -> Parses] : p = h[n]
    BY ParsePrefixes
  <2> QED
    BY <1>0, <2>1
<1> HIDE DEF p, n
<1> SUFFICES ASSUME RiskOf(line) = "low", \A j \in 1..n : ~InputFirst(j),
                    NEW i \in 1..n
             PROVE  /\ line[i] \notin {"$(", "$v"}
                    /\ line[i] \notin Operators =>
                         IF IsTarget(i) THEN HarmlessTarget(i) ELSE HarmlessWord(i)
  BY <1>0 DEF LowIsReadOnly
<1>2. Worst(all) = "low" /\ ~Has(line, "$(") /\ ~Has(line, "$v")
  BY DEF RiskOf, p
<1>3. line[i] \notin {"$(", "$v"}
  BY <1>0, <1>2 DEF Has
<1>4. \A k \in DOMAIN all : Score(all[k]) = "low"
  BY <1>2, WorstLow
<1>5. AllQuiet(p)
  <2>1. \A k \in DOMAIN all : Quiet(all[k])
    BY <1>4, ScoreLow
  <2>2. Quiet(p.current)
    <3>1. CASE p.current.words # <<>> \/ p.current.writes # {}
      BY <1>1, <2>1, <3>1, FlushKeeps
    <3>2. CASE p.current.writes = {}
      BY <3>2 DEF Quiet
    <3> QED
      BY <3>1, <3>2
  <2> QED
    BY <1>1, <2>1, <2>2, FlushKeeps DEF AllQuiet
<1>6. TargetsDiscard(line) /\ NowSpelt(line, p) /\ BeforeSpelt(line, p)
  BY <1>5 DEF Accounted, p
<1>7. ASSUME line[i] \notin Operators, IsTarget(i) PROVE HarmlessTarget(i)
  BY <1>0, <1>6, <1>7 DEF IsTarget, HarmlessTarget, TargetsDiscard, Discards, n
<1>8. ASSUME line[i] \notin Operators, ~IsTarget(i) PROVE HarmlessWord(i)
  <2>1. /\ PlainWord(line, i) /\ IsWord(i) /\ Joined(line, i, i)
    BY <1>8 DEF IsWord, IsTarget, PlainWord, Joined, Operators
  <2>2. i \in Upto(line, i) /\ i \in WordsTo(i) /\ Upto(line, i) \subseteq 1..i
    BY <2>1 DEF Upto, WordsTo, SameCommand, Joined
  <2>3. WordsTo(i) \subseteq Upto(line, i)
    BY <2>1 DEF Upto, WordsTo, SameCommand, Joined, IsWord, IsTarget, PlainWord
  <2>4. PICK f \in Upto(line, i) : \A h \in Upto(line, i) : f <= h
    <3>1. Upto(line, i) \subseteq Nat /\ Upto(line, i) # {}
      BY <2>2
    <3> QED
      BY <3>1, LeastElement
  <2>5. f \in WordsTo(i)
    <3>1. f \in 1..i /\ PlainWord(line, f) /\ Joined(line, f, i)
      BY <2>4 DEF Upto
    <3>2. CASE IsTarget(f)
      <4>1. f > 1 /\ line[f - 1] = "<" /\ f - 1 \in 1..n /\ f - 1 \in Nat
        BY <1>0, <3>1, <3>2 DEF IsTarget, PlainWord
      <4>2. PICK h \in 1..f - 1 : IsWord(h) /\ SameCommand(h, f - 1)
        BY <1>0, <4>1 DEF InputFirst
      <4>3. h \in 1..i /\ PlainWord(line, h)
        BY <3>1, <4>1, <4>2 DEF IsWord, IsTarget, PlainWord
      <4>4. Joined(line, h, i)
        BY <3>1, <4>1, <4>2 DEF Joined, SameCommand
      <4>5. h \in Upto(line, i)
        BY <4>3, <4>4 DEF Upto
      <4> QED
        BY <2>4, <4>1, <4>2, <4>5
    <3>3. CASE ~IsTarget(f)
      BY <3>1, <3>3 DEF WordsTo, IsWord, PlainWord, SameCommand, Joined
    <3> QED
      BY <3>2, <3>3
  <2>6. PICK k \in DOMAIN all : Spelt(line, Upto(line, i), all[k].words)
    <3>1. CASE Joined(line, i, n)
      <4>1. Spelt(line, Upto(line, n), p.current.words)
        BY <1>6 DEF NowSpelt, n
      <4>2. Upto(line, i) \subseteq Upto(line, n) /\ Upto(line, n) \subseteq Nat
        BY <1>0, <3>1 DEF Upto, Joined
      <4>3. \A h \in Upto(line, i) : \A g \in Upto(line, n) : g <= h => g \in Upto(line, i)
        BY <1>0 DEF Upto, Joined
      <4>4. Spelt(line, Upto(line, i), p.current.words)
        BY <2>2, <4>1, <4>2, <4>3, SpeltFewer
      <4>5. p.current.words # <<>>
        BY <2>2, <4>4 DEF Spelt, Spells
      <4> QED
        BY <1>1, <4>4, <4>5, FlushKeeps
    <3>2. CASE ~Joined(line, i, n)
      <4>1. PICK k \in DOMAIN p.commands : Spelt(line, Upto(line, i), p.commands[k].words)
        BY <1>6, <2>1, <3>2 DEF BeforeSpelt, n
      <4> QED
        BY <1>1, <4>1, FlushKeeps
    <3> QED
      BY <3>1, <3>2
  <2>7. PICK at : Spells(line, Upto(line, i), all[k].words, at)
    BY <2>6 DEF Spelt
  <2>8. all[k].words \in Seq(Tokens)
    <3>1. all \in Seq(RiskItems)
      BY <1>1, FlushTyped DEF ItemLists
    <3> HIDE DEF all
    <3>2. all[k] \in RiskItems
      BY <3>1, ElementOfSeq, LenProperties
    <3> QED
      BY <3>2 DEF RiskItems
  <2>9. all[k].words # <<>> => /\ all[k].words[1] \in ReadOnlyPrograms
                               /\ ~WritesByArgument(all[k].words[1], Tail(all[k].words))
    BY <1>4, ScoreLow
  <2> HIDE DEF all
  <2> QED
    BY <2>2, <2>3, <2>4, <2>5, <2>7, <2>8, <2>9, WordIsHarmless
<1> QED
  BY <1>3, <1>7, <1>8

RiskInv == line \in Seq(Tokens) /\ Accounted(line)

LEMMA RiskStarts == RiskInit => RiskInv
<1> SUFFICES ASSUME RiskInit PROVE RiskInv
  OBVIOUS
<1>1. line = <<>>
  BY DEF RiskInit
<1>2. line \in Seq(Tokens) /\ Len(line) = 0
  BY <1>1, EmptySeq
<1>3. Parsed(line) = ParseStart
  BY <1>1, ParseBegins
<1>4. Upto(line, 0) = {}
  BY DEF Upto
<1>5. NowSpelt(line, ParseStart)
  <2>1. Spells(line, {}, <<>>, <<>>)
    BY DEF Spells
  <2> QED
    BY <1>2, <1>4, <2>1 DEF NowSpelt, Spelt, ParseStart, NoCommand
<1>6. Pends(line, ParseStart) /\ TargetsDiscard(line) /\ BeforeSpelt(line, ParseStart)
  BY <1>1, <1>2 DEF Pends, TargetsDiscard, BeforeSpelt, ParseStart
<1> QED
  BY <1>2, <1>3, <1>5, <1>6 DEF RiskInv, Accounted

LEMMA RiskStep == RiskInv /\ [RiskNext]_line => RiskInv'
<1> SUFFICES ASSUME RiskInv, [RiskNext]_line PROVE RiskInv'
  OBVIOUS
<1> USE DEF RiskInv
<1>1. ASSUME NEW t \in Tokens, TypeToken(t) PROVE RiskInv'
  <2>1. line' = Append(line, t)
    BY <1>1 DEF TypeToken
  <2>2. Append(line, t) \in Seq(Tokens) /\ Accounted(Append(line, t))
    BY AccountGrows, AppendProperties
  <2> QED
    BY <2>1, <2>2 DEF Accounted
<1>2. CASE UNCHANGED line
  BY <1>2 DEF Accounted
<1> QED
  BY <1>1, <1>2 DEF RiskNext

THEOREM LowRunsReadOnly == RiskSpec => []LowIsReadOnly
<1>1. RiskInv => LowIsReadOnly
  BY LowRuns DEF RiskInv
<1> QED
  BY <1>1, RiskStarts, RiskStep, PTL DEF RiskSpec

=============================================================================
