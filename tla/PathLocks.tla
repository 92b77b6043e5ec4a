------------------------------- MODULE PathLocks -------------------------------
(***************************************************************************)
(* tools/files.py and the advisory locks of domain/workspace.py: calls of  *)
(* write_file and edit_file on one shared path, by agents of one bot.  A   *)
(* lock row is read in one statement and written in another; the file is   *)
(* read and written by threads a cancel does not stop.  A turn drops its   *)
(* agent's locks at its end; a host that stops drops none of them.         *)
(***************************************************************************)
EXTENDS Naturals, FiniteSets

CONSTANTS
  LockAgents,
  Edits,        \* edit_file calls
  Writes,       \* write_file calls
  Caller,       \* Caller[c] is the agent whose turn makes call c
  LockTtl,      \* _LOCK_TTL in clock units
  MaxClock,     \* bound on the clock
  NoLock        \* model value: no agent_locks row for the path

ASSUME PathLocksAssumption ==
  /\ Caller \in [Edits \cup Writes -> LockAgents]
  /\ LockTtl \in Nat

VARIABLES
  clock,
  lock,         \* the row: [by, until]
  file,         \* the calls whose text is in the file on disk
  call,         \* per call: step, when it read which row, the text it will write
  live,         \* agents whose turn is running
  notices,      \* agents told who holds the path
  cut           \* history: when a restart ended the turn the agent had last

pathVars == <<clock, lock, file, call, live, notices, cut>>

ToolCalls == Edits \cup Writes

Idle == [at |-> "idle", now |-> 0, saw |-> NoLock, text |-> {}]

PathTypeOK ==
  /\ clock \in 0..MaxClock
  /\ lock \in [by : LockAgents, until : Nat] \cup {NoLock}
  /\ file \subseteq ToolCalls
  /\ call \in [ToolCalls -> [at : {"idle", "read", "take", "write", "loose", "done", "failed"},
                             now : 0..MaxClock,
                             saw : [by : LockAgents, until : Nat] \cup {NoLock},
                             text : SUBSET ToolCalls]]
  /\ live \subseteq LockAgents
  /\ notices \subseteq LockAgents
  /\ cut \in [LockAgents -> SUBSET (0..MaxClock)]

PathInit ==
  /\ clock = 0
  /\ lock = NoLock
  /\ file = {}
  /\ call = [c \in ToolCalls |-> Idle]
  /\ live = LockAgents
  /\ notices = {}
  /\ cut = [a \in LockAgents |-> {}]

\* _alive: strictly before its end.
Alive(row) == row # NoLock /\ row.until > clock

\* edit_file: _read_text, then the replacement in memory.  No lock is held.
EditFile(c) ==
  /\ c \in Edits /\ Caller[c] \in live
  /\ call[c].at = "idle"
  /\ call' = [call EXCEPT ![c] = [@ EXCEPT !.at = "read", !.text = file \cup {c}]]
  /\ UNCHANGED <<clock, lock, file, live, notices, cut>>

\* write_file brings its whole text.
WriteFile(c) ==
  /\ c \in Writes /\ Caller[c] \in live
  /\ call[c].at = "idle"
  /\ call' = [call EXCEPT ![c] = [@ EXCEPT !.at = "read", !.text = {c}]]
  /\ UNCHANGED <<clock, lock, file, live, notices, cut>>

\* acquire_write, first statement: session.get of the row.  A row of another
\* agent that is alive refuses the call and stores a notice.
ReadLock(c) ==
  /\ call[c].at = "read"
  /\ LET me      == Caller[c]
         refused == Alive(lock) /\ lock.by # me
     IN  /\ call' = [call EXCEPT ![c] =
                       [@ EXCEPT !.at = IF refused THEN "failed" ELSE "take",
                                 !.now = clock, !.saw = lock]]
         /\ notices' = IF refused THEN notices \cup {me} ELSE notices
  /\ UNCHANGED <<clock, lock, file, live, cut>>

\* acquire_write, second statement: an INSERT fails when a row appeared, an
\* UPDATE fails when the row went away, and else the row is this agent's.
TakeLock(c) ==
  /\ call[c].at = "take"
  /\ LET missed == (call[c].saw = NoLock) # (lock = NoLock)
     IN  /\ call' = [call EXCEPT ![c].at = IF missed THEN "failed" ELSE "write"]
         /\ lock' = IF missed THEN lock ELSE [by |-> Caller[c], until |-> call[c].now + LockTtl]
  /\ UNCHANGED <<clock, file, live, notices, cut>>

\* _write_text in a thread.  A "loose" thread outlived its cancelled call.
WriteText(c) ==
  /\ call[c].at \in {"write", "loose"}
  /\ file' = call[c].text
  /\ call' = [call EXCEPT ![c].at = IF @ = "write" THEN "done" ELSE "failed"]
  /\ UNCHANGED <<clock, lock, live, notices, cut>>

\* Faulty variant: only a lock that has run out is dropped.
DropLapsedLocks(a) ==
  lock' = IF lock # NoLock /\ lock.by = a /\ ~Alive(lock) THEN NoLock ELSE lock

\* drop_locks, in the transaction that ends the turn.
DropLocks(a) == lock' = IF lock # NoLock /\ lock.by = a THEN NoLock ELSE lock

\* The turn ends with its calls: finished, or cancelled where they stand.
LockTurnEnds(a) ==
  /\ a \in live
  /\ live' = live \ {a}
  /\ call' = [c \in ToolCalls |->
                IF Caller[c] # a \/ call[c].at \in {"idle", "done", "failed", "loose"} THEN call[c]
                ELSE [call[c] EXCEPT !.at = IF @ = "write" THEN "loose" ELSE "failed"]]
  /\ DropLocks(a)
  /\ UNCHANGED <<clock, file, notices, cut>>

StartTurn(a) ==
  /\ a \notin live
  /\ live' = live \cup {a}
  /\ cut' = [cut EXCEPT ![a] = {}]
  /\ UNCHANGED <<clock, lock, file, call, notices>>

\* The host stops and recovers.  Calls and threads are gone.  recover ends
\* turns or requeues their jobs and keeps the paused ones; the rows of
\* agent_locks stay as they are.
LocksAfterRestart(kept) ==
  /\ live' = kept
  /\ cut' = [a \in LockAgents |-> IF a \in live \ kept THEN {clock} ELSE cut[a]]
  /\ call' = [c \in ToolCalls |->
                IF call[c].at \in {"idle", "done"} THEN call[c]
                ELSE [call[c] EXCEPT !.at = "failed"]]
  /\ UNCHANGED <<clock, lock, file, notices>>

Tick ==
  /\ clock < MaxClock
  /\ clock' = clock + 1
  /\ UNCHANGED <<lock, file, call, live, notices, cut>>

PathNext ==
  \/ \E c \in ToolCalls :
       EditFile(c) \/ WriteFile(c) \/ ReadLock(c) \/ TakeLock(c) \/ WriteText(c)
  \/ \E a \in LockAgents : LockTurnEnds(a) \/ StartTurn(a)
  \/ \E kept \in SUBSET live : LocksAfterRestart(kept)
  \/ Tick

PathSpec == PathInit /\ [][PathNext]_pathVars

-----------------------------------------------------------------------------
\* No path stays locked for an agent whose turn has ended, however it ended
\* and whatever its calls were doing (drop_locks at every end of a turn). Only
\* a turn that a restart ended leaves its row, and that row refuses nobody for
\* longer than one lease after the restart, until a turn of the agent starts.
LockEndsWithTurn ==
  lock # NoLock =>
    \/ lock.by \in live
    \/ \E t \in cut[lock.by] : lock.until <= t + LockTtl

=============================================================================
