---------------------------- MODULE MemoryStore ----------------------------
(***************************************************************************)
(* The memories of one bot (memory/store.py). The turns of its lanes stage  *)
(* inserts, deletes and pins in memory; a batch is written in the           *)
(* transaction that ends its turn. The owner edits the stored rows at the   *)
(* same time. All of them share one budget for pinned text.                 *)
(*                                                                          *)
(* A write lock per bot serialises who adds to the budget, but the          *)
(* transaction of a turn commits after it has released that lock.           *)
(***************************************************************************)
EXTENDS Integers, Sequences, FiniteSets

CONSTANTS
    MemTurns,    \* turns of the bot's lanes
    Mems,        \* ids that new_id can still hand out
    MaxSize,     \* bound on the size of a text
    Budget,      \* settings.memory.pinned_budget
    MaxRev,      \* bound on a row's revision
    LateGrowth,  \* the owner also makes a text longer that a turn is promoting
    Owner,       \* the owner's call
    NoEntry

VARIABLES
    memRow,      \* table memories: a row or NoEntry
    born,        \* ids handed out
    staged,      \* _pending: a batch or NoEntry
    writing,     \* _writing: the batch whose transaction is open, or NoEntry
    memTurn,     \* running, waiting, ending, written, done, cancelled, failed
    memLock,     \* who holds bot_write_lock
    memCall      \* the store call each actor is in, or NoEntry

memVars == <<memRow, born, staged, writing, memTurn, memLock, memCall>>

Actors == MemTurns \cup {Owner}
Tiers == {"pinned", "recall"}
Sizes == 1 .. MaxSize

ASSUME MemoryAssumption ==
    /\ IsFiniteSet(Mems) /\ MaxSize \in Nat /\ Budget \in Nat
    /\ Owner \notin MemTurns /\ NoEntry \notin Actors \cup Mems

Over == {"done", "cancelled", "failed"}
NoBatch == [ins |-> {}, del |-> {}, pins |-> <<>>]

(* MemoryRow with the turn that wrote it: history, read by the properties.   *)
Row(tier, size, rev, by) == [tier |-> tier, size |-> size, rev |-> rev, by |-> by]

(* _Batch: the batch of a turn, created when it is first needed.             *)
Batch(t) == IF staged[t] = NoEntry THEN NoBatch ELSE staged[t]

Stored(m) == memRow[m] # NoEntry

(* Faulty variant of Batches: a batch that is being written is forgotten.    *)
PendingBatches == {staged[t] : t \in MemTurns} \ {NoEntry}

(* The batches _pinned_bytes looks at: staged, or being written right now.   *)
Batches == ({staged[t] : t \in MemTurns} \cup {writing[t] : t \in MemTurns}) \ {NoEntry}

(* The rows that the pins of some batches promote.                          *)
Promised(batches) == UNION {{b.pins[i].id : i \in DOMAIN b.pins} : b \in batches}

(* The pinned text of the batches read earlier and the rows read now, byte   *)
(* by byte. A pin staged for a row counts, a staged delete gives nothing     *)
(* back.                                                                    *)
Bytes(m, size) == {m} \X (1 .. size)

PinnedText(batches, excluding) ==
    LET ins == {r \in UNION {b.ins : b \in batches} : r.tier = "pinned"}
        kept == {m \in Mems : /\ Stored(m)
                              /\ \A r \in ins : r.id # m
                              /\ memRow[m].tier = "pinned" \/ m \in Promised(batches)}
    IN  (UNION {Bytes(r.id, r.size) : r \in {i \in ins : i.id # excluding}})
          \cup (UNION {Bytes(m, memRow[m].size) : m \in kept \ {excluding}})

(* _pinned_bytes and _reject_over_budget.                                   *)
OverBudget(c) ==
    c.extra > 0 /\ Cardinality(PinnedText(c.snap, c.excluding)) + c.extra > Budget

-----------------------------------------------------------------------------
MemInit ==
    /\ memRow = [m \in Mems |-> NoEntry]
    /\ born = {}
    /\ staged = [t \in MemTurns |-> NoEntry]
    /\ writing = [t \in MemTurns |-> NoEntry]
    /\ memTurn = [t \in MemTurns |-> "running"]
    /\ memLock = NoEntry
    /\ memCall = [a \in Actors |-> NoEntry]

(* Taking the bot's write lock, with the fresh read, the guards and the      *)
(* snapshot of the batches that follow it. `extra` is what the call adds to  *)
(* the pinned text; 0 means that no budget is asked for.                     *)
Enter(a, op, m, tier, size, extra, excluding) ==
    /\ memCall[a] = NoEntry /\ memLock = NoEntry
    /\ memLock' = a
    /\ memCall' = [memCall EXCEPT ![a] =
           [op |-> op, id |-> m, tier |-> tier, size |-> size, extra |-> extra,
            excluding |-> excluding, snap |-> Batches]]

(* The call is over: the lock is released.                                  *)
Leave(a) ==
    /\ memLock' = NoEntry
    /\ memCall' = [memCall EXCEPT ![a] = NoEntry]

(* save.                                                                    *)
Save(t) ==
    /\ memTurn[t] = "running"
    /\ \E m \in Mems \ born, tier \in Tiers, size \in Sizes :
         /\ born' = born \cup {m}
         /\ Enter(t, "save", m, tier, size, IF tier = "pinned" THEN size ELSE 0, NoEntry)
    /\ UNCHANGED <<memRow, staged, writing, memTurn>>

(* stage_tier, which the tool memory.pin calls: on an insert of the turn's   *)
(* own batch, or on a stored row whose revision the bot names.               *)
StagePin(t) ==
    /\ memTurn[t] = "running"
    /\ \/ \E r \in Batch(t).ins :
            /\ r.rev < MaxRev
            /\ Enter(t, "restage", r.id, "pinned", r.size,
                     IF r.tier = "pinned" THEN 0 ELSE r.size, r.id)
       \/ \E m \in Mems :
            /\ Stored(m) /\ memRow[m].rev < MaxRev /\ Len(Batch(t).pins) < 2
            /\ Enter(t, "pin", m, "pinned", memRow[m].rev,
                     IF memRow[m].tier = "pinned" THEN 0 ELSE memRow[m].size, m)
    /\ UNCHANGED <<memRow, born, staged, writing, memTurn>>

(* stage_delete: of an own insert, or of a stored row.                       *)
StageDelete(t) ==
    /\ memTurn[t] = "running" /\ memCall[t] = NoEntry /\ memLock = NoEntry
    /\ \E m \in Mems :
         LET own == {r \in Batch(t).ins : r.id = m}
         IN  /\ own # {} \/ Stored(m)
             /\ staged' = [staged EXCEPT ![t] =
                    IF own # {} THEN [Batch(t) EXCEPT !.ins = @ \ own]
                    ELSE [Batch(t) EXCEPT !.del = @ \cup {m}]]
    /\ UNCHANGED <<memRow, born, writing, memTurn, memLock, memCall>>

(* set_tier and pin, as memories.pin calls them, and update_text.            *)
OwnerEdit ==
    /\ \E m \in Mems :
         /\ Stored(m) /\ memRow[m].rev < MaxRev
         /\ LET row == memRow[m]
            IN  \/ \E tier \in Tiers :
                     Enter(Owner, "tier", m, tier, row.size,
                           IF tier = "pinned" /\ row.tier # "pinned" THEN row.size ELSE 0, m)
                \/ \E size \in Sizes :
                     /\ \/ LateGrowth \/ size <= row.size
                        \/ row.tier = "pinned" \/ m \notin Promised(Batches)
                     /\ Enter(Owner, "text", m, row.tier, size,
                              IF row.tier = "pinned" THEN size - row.size ELSE 0, NoEntry)
    /\ UNCHANGED <<memRow, born, staged, writing, memTurn>>

(* SQLite lets one transaction write: a batch with inserts or deletes has    *)
(* written by now, one with pins alone writes when it commits.               *)
DbFree ==
    \A t \in MemTurns : writing[t] # NoEntry => writing[t].ins = {} /\ writing[t].del = {}

(* The rest of a call: the rows are read for the budget, and the batch or    *)
(* the row is changed. An owner's edit writes the columns it changed.        *)
FinishCall(a) ==
    /\ memCall[a] # NoEntry
    /\ LET c == memCall[a]
           r == [id |-> c.id, tier |-> c.tier, size |-> c.size, rev |-> 1]
           old == {i \in Batch(a).ins : i.id = c.id}
           bumped == {[i EXCEPT !.tier = c.tier, !.rev = @ + 1] : i \in old}
       IN  IF OverBudget(c) \/ (c.op \in {"tier", "text"} /\ ~Stored(c.id))
           THEN UNCHANGED <<memRow, staged>>
           ELSE \/ /\ c.op = "save"
                   /\ staged' = [staged EXCEPT ![a] = [Batch(a) EXCEPT !.ins = @ \cup {r}]]
                   /\ UNCHANGED memRow
                \/ /\ c.op = "restage"
                   /\ staged' = [staged EXCEPT ![a] =
                                    [Batch(a) EXCEPT !.ins = (@ \ old) \cup bumped]]
                   /\ UNCHANGED memRow
                \/ /\ c.op = "pin"
                   /\ staged' = [staged EXCEPT ![a] = [Batch(a) EXCEPT !.pins =
                                    Append(@, [id |-> c.id, rev |-> c.size])]]
                   /\ UNCHANGED memRow
                \/ /\ c.op = "tier" /\ DbFree
                   /\ memRow' = [memRow EXCEPT ![c.id].tier = c.tier, ![c.id].rev = @ + 1]
                   /\ UNCHANGED staged
                \/ /\ c.op = "text" /\ DbFree
                   /\ memRow' = [memRow EXCEPT ![c.id].size = c.size, ![c.id].rev = @ + 1]
                   /\ UNCHANGED staged
    /\ Leave(a)
    /\ UNCHANGED <<born, writing, memTurn>>

(* delete, as memories.delete calls it.                                     *)
OwnerDelete ==
    /\ memLock = NoEntry /\ memCall[Owner] = NoEntry /\ DbFree
    /\ \E m \in Mems : Stored(m) /\ memRow' = [memRow EXCEPT ![m] = NoEntry]
    /\ UNCHANGED <<born, staged, writing, memTurn, memLock, memCall>>

-----------------------------------------------------------------------------
(* The end of a turn.                                                       *)

(* A drive ends: the turn pauses with its batch, or its end transaction      *)
(* begins. The answer to a question ends a paused turn the same way          *)
(* (close_question_turns), an approval resumes it.                          *)
EndDrive(t) ==
    /\ memTurn[t] = "running" /\ memCall[t] = NoEntry
    /\ \E s \in {"waiting", "ending"} : memTurn' = [memTurn EXCEPT ![t] = s]
    /\ UNCHANGED <<memRow, born, staged, writing, memLock, memCall>>

Answered(t) ==
    /\ memTurn[t] = "waiting"
    /\ \E s \in {"running", "ending"} : memTurn' = [memTurn EXCEPT ![t] = s]
    /\ UNCHANGED <<memRow, born, staged, writing, memLock, memCall>>

(* _apply meets a pin whose row has another revision, also because the same  *)
(* batch has pinned it before.                                              *)
RevisionConflict(b) ==
    \E i \in DOMAIN b.pins :
        LET m == b.pins[i].id
        IN  /\ Stored(m) /\ m \notin b.del
            /\ memRow[m].rev # b.pins[i].rev \/ \E j \in 1 .. (i - 1) : b.pins[j].id = m

(* The rows after the commit of batch b by turn t.                           *)
Applied(b, t) ==
    [m \in Mems |->
        IF \E r \in b.ins : r.id = m
        THEN LET r == CHOOSE i \in b.ins : i.id = m IN Row(r.tier, r.size, r.rev, t)
        ELSE IF m \in b.del \/ ~Stored(m) THEN NoEntry
        ELSE IF \E i \in DOMAIN b.pins : b.pins[i].id = m
        THEN LET p == CHOOSE i \in DOMAIN b.pins : b.pins[i].id = m
             IN  [memRow[m] EXCEPT !.tier = "pinned", !.rev = b.pins[p].rev + 1]
        ELSE memRow[m]]

(* write: the batch leaves _pending and keeps its reservation until the      *)
(* transaction ends. A conflict ends the transaction and fails the turn.     *)
Write(t) ==
    /\ memTurn[t] = "ending"
    /\ staged[t] # NoEntry => memLock = NoEntry /\ DbFree
    /\ staged' = [staged EXCEPT ![t] = NoEntry]
    /\ IF RevisionConflict(Batch(t))
       THEN /\ memTurn' = [memTurn EXCEPT ![t] = "failed"]
            /\ UNCHANGED writing
       ELSE /\ memTurn' = [memTurn EXCEPT ![t] = "written"]
            /\ writing' = [writing EXCEPT ![t] = staged[t]]
    /\ UNCHANGED <<memRow, born, memLock, memCall>>

(* The commit of _persist_done. A pinned row that was deleted meanwhile      *)
(* makes the update miss its row, which fails the transaction.               *)
Commit(t) ==
    /\ memTurn[t] = "written"
    /\ LET b == IF writing[t] = NoEntry THEN NoBatch ELSE writing[t]
           missed == \E i \in DOMAIN b.pins : ~Stored(b.pins[i].id) /\ b.pins[i].id \notin b.del
       IN  /\ memRow' = IF missed THEN memRow ELSE Applied(b, t)
           /\ memTurn' = [memTurn EXCEPT ![t] = IF missed THEN "failed" ELSE "done"]
    /\ writing' = [writing EXCEPT ![t] = NoEntry]
    /\ UNCHANGED <<born, staged, memLock, memCall>>

(* A cancel, or a failure, reaches the turn. While it drives or is paused    *)
(* its batch is dropped (rollback); in the end transaction a cancel is no    *)
(* Exception, so that a batch not yet popped stays staged; what is being     *)
(* written is undone with the transaction.                                  *)
Stop(t) ==
    /\ memTurn[t] \notin Over
    /\ \E s \in {"cancelled", "failed"} :
         /\ memTurn[t] = "waiting" => s = "cancelled"
         /\ memTurn' = [memTurn EXCEPT ![t] = s]
         /\ staged' = IF memTurn[t] = "ending" /\ s = "cancelled" THEN staged
                      ELSE [staged EXCEPT ![t] = NoEntry]
    /\ writing' = [writing EXCEPT ![t] = NoEntry]
    /\ IF memCall[t] # NoEntry THEN Leave(t) ELSE UNCHANGED <<memLock, memCall>>
    /\ UNCHANGED <<memRow, born>>

(* The host restarts: what is staged is gone, an open transaction is undone, *)
(* a running attempt is failed by recovery and a paused one stays.           *)
MemRestart ==
    /\ staged' = [t \in MemTurns |-> NoEntry]
    /\ writing' = [t \in MemTurns |-> NoEntry]
    /\ memTurn' = [t \in MemTurns |->
           IF memTurn[t] \in Over \cup {"waiting"} THEN memTurn[t] ELSE "failed"]
    /\ memLock' = NoEntry
    /\ memCall' = [a \in Actors |-> NoEntry]
    /\ UNCHANGED <<memRow, born>>

MemNext ==
    \/ \E t \in MemTurns : Save(t) \/ StagePin(t) \/ StageDelete(t) \/ EndDrive(t)
                        \/ Answered(t) \/ Write(t) \/ Commit(t) \/ Stop(t)
    \/ OwnerEdit \/ OwnerDelete \/ MemRestart
    \/ \E a \in Actors : FinishCall(a)

MemSpec == MemInit /\ [][MemNext]_memVars

-----------------------------------------------------------------------------
(* What is stored was kept by its turn, and fits. A turn that is cancelled,  *)
(* failed or interrupted by a restart leaves no memory behind, and one that  *)
(* is still open shows none of its own yet; and the pinned text never        *)
(* exceeds the budget, however turns that save and pin, the transactions     *)
(* that write their batches outside the lock, restarts and the owner's pins  *)
(* interleave (write, rollback, _pinned_bytes).                              *)
StoredIsEarned ==
    /\ \A m \in Mems : Stored(m) => memTurn[memRow[m].by] = "done"
    /\ Cardinality(UNION {Bytes(m, memRow[m].size) :
                        m \in {r \in Mems : Stored(r) /\ memRow[r].tier = "pinned"}}) <= Budget
=============================================================================
