------------------------------- MODULE OpLog -------------------------------
(***************************************************************************)
(* Idempotency of mutating calls: Hub.claim_op with its per-op lock, the    *)
(* op log table (store/oplog.py) and the in-progress marker that the        *)
(* outbox writes in the transaction of the call's first event              *)
(* (store/outbox.py).                                                       *)
(*                                                                         *)
(* A request r runs the handler at most once, so r itself names the run     *)
(* and its result. One database transaction is one step; everything a      *)
(* coroutine does between two awaits belongs to the step it follows.        *)
(***************************************************************************)
EXTENDS Naturals

CONSTANTS
    Ops,        \* op_id values
    Reqs,       \* requests, one per frame received
    OpOf,       \* the op_id a request carries
    MethodOf,   \* method name and params hash: stored_method
    NoReq,      \* not a request: a free lock, a row or answer of no run
    MaxCrashes  \* bound on host crashes

ASSUME RequestsAssumption ==
    /\ OpOf \in [Reqs -> Ops]
    /\ NoReq \notin Reqs
    /\ MaxCrashes \in Nat

VARIABLES
    rowSt,     \* the op's row: absent, the {"_pending": true} marker, a result
    rowRun,    \* the run that wrote the row's method and result
    rowOld,    \* ops whose row has a created_at past the 24 h retention
    holder,    \* Hub._op_locks[op]: the request inside it
    pc,        \* where the request is in dispatch and claim_op
    outcome,   \* what the caller was told
    answer,    \* the run whose result the caller got
    emitted,   \* runs that committed an event through the outbox
    bg,        \* runs of which a background task has emitted an event
    aged,      \* history: ops of which a row has passed the retention
    crashes

vars == <<rowSt, rowRun, rowOld, holder, pc, outcome, answer, emitted, bg,
          aged, crashes>>

Busy == {"lookup", "work", "forget", "relookup", "record", "replace"}

TypeOK ==
    /\ rowSt \in [Ops -> {"none", "pending", "done"}]
    /\ rowRun \in [Ops -> Reqs \cup {NoReq}]
    /\ rowOld \subseteq Ops
    /\ holder \in [Ops -> Reqs \cup {NoReq}]
    /\ pc \in [Reqs -> Busy \cup {"sent", "end"}]
    /\ outcome \in [Reqs -> {"none", "ok", "in_progress", "mismatch",
                             "failed", "lost"}]
    /\ answer \in [Reqs -> Reqs \cup {NoReq}]
    /\ emitted \subseteq Reqs
    /\ bg \subseteq Reqs
    /\ aged \subseteq Ops
    /\ crashes \in Nat
    /\ \A o \in Ops : rowSt[o] = "none" <=> rowRun[o] = NoReq

Init ==
    /\ rowSt = [o \in Ops |-> "none"]
    /\ rowRun = [o \in Ops |-> NoReq]
    /\ rowOld = {}
    /\ holder = [o \in Ops |-> NoReq]
    /\ pc = [r \in Reqs |-> "sent"]
    /\ outcome = [r \in Reqs |-> "none"]
    /\ answer = [r \in Reqs |-> NoReq]
    /\ emitted = {}
    /\ bg = {}
    /\ aged = {}
    /\ crashes = 0

-----------------------------------------------------------------------------
(* The op log table.                                                        *)

NoRow(o) ==
    /\ rowSt' = [rowSt EXCEPT ![o] = "none"]
    /\ rowRun' = [rowRun EXCEPT ![o] = NoReq]
    /\ rowOld' = rowOld \ {o}

NewRow(o, st, r) ==
    /\ rowSt' = [rowSt EXCEPT ![o] = st]
    /\ rowRun' = [rowRun EXCEPT ![o] = r]
    /\ rowOld' = rowOld \ {o}

RowsUnchanged == UNCHANGED <<rowSt, rowRun, rowOld>>

(* lookup finds a row only while it is within the retention.                *)
Found(o) == rowSt[o] # "none" /\ o \notin rowOld

(* lookup deletes a row past the retention before it answers None.          *)
LookupRow(o) == IF rowSt[o] # "none" /\ o \in rowOld THEN NoRow(o) ELSE RowsUnchanged

(* prune drops every row past the retention.                                *)
PruneRows ==
    /\ rowSt' = [o \in Ops |-> IF o \in rowOld THEN "none" ELSE rowSt[o]]
    /\ rowRun' = [o \in Ops |-> IF o \in rowOld THEN NoReq ELSE rowRun[o]]
    /\ rowOld' = {}

-----------------------------------------------------------------------------
(* One request, from dispatch to its response.                              *)

(* Faulty: the lock is not released when the call ends.                     *)
ReplyKeepsLock(r, how, of) ==
    /\ pc' = [pc EXCEPT ![r] = "end"]
    /\ outcome' = [outcome EXCEPT ![r] = how]
    /\ answer' = [answer EXCEPT ![r] = of]
    /\ UNCHANGED holder

Reply(r, how, of) ==
    /\ pc' = [pc EXCEPT ![r] = "end"]
    /\ outcome' = [outcome EXCEPT ![r] = how]
    /\ answer' = [answer EXCEPT ![r] = of]
    /\ holder' = [holder EXCEPT ![OpOf[r]] = NoReq]

(* Faulty: no lock per op_id.                                               *)
EnterUnlocked(r) ==
    /\ pc[r] = "sent"
    /\ pc' = [pc EXCEPT ![r] = "lookup"]
    /\ UNCHANGED <<rowSt, rowRun, rowOld, holder, outcome, answer, emitted, bg,
                   aged, crashes>>

(* async with self._lock_for(op_id)                                         *)
Enter(r) ==
    /\ pc[r] = "sent"
    /\ holder[OpOf[r]] = NoReq
    /\ holder' = [holder EXCEPT ![OpOf[r]] = r]
    /\ pc' = [pc EXCEPT ![r] = "lookup"]
    /\ UNCHANGED <<rowSt, rowRun, rowOld, outcome, answer, emitted, bg, aged,
                   crashes>>

(* Faulty: the stored method and params are not compared.                   *)
ReplayAnyMethod(r) ==
    LET o == OpOf[r] IN
    /\ pc[r] = "lookup"
    /\ Found(o)
    /\ IF rowSt[o] = "pending" THEN Reply(r, "in_progress", NoReq)
       ELSE Reply(r, "ok", rowRun[o])
    /\ UNCHANGED <<rowSt, rowRun, rowOld, emitted, bg, aged, crashes>>

(* A stored row answers the call: the same method and params get the stored *)
(* result, a marker means in progress, anything else is a mismatch.         *)
Replay(r) ==
    LET o == OpOf[r] IN
    /\ pc[r] = "lookup"
    /\ Found(o)
    /\ IF MethodOf[rowRun[o]] # MethodOf[r] THEN Reply(r, "mismatch", NoReq)
       ELSE IF rowSt[o] = "pending" THEN Reply(r, "in_progress", NoReq)
       ELSE Reply(r, "ok", rowRun[o])
    /\ UNCHANGED <<rowSt, rowRun, rowOld, emitted, bg, aged, crashes>>

(* No row within the retention: run the handler.                            *)
StartWork(r) ==
    /\ pc[r] = "lookup"
    /\ ~Found(OpOf[r])
    /\ LookupRow(OpOf[r])
    /\ pc' = [pc EXCEPT ![r] = "work"]
    /\ UNCHANGED <<holder, outcome, answer, emitted, bg, aged, crashes>>

(* Faulty: the event is committed without the marker.                       *)
EmitUnmarked(r) ==
    /\ pc[r] = "work"
    /\ emitted' = emitted \cup {r}
    /\ UNCHANGED <<rowSt, rowRun, rowOld, holder, pc, outcome, answer, bg, aged,
                   crashes>>

(* The handler commits an event; the marker joins that transaction unless a *)
(* row is already there.                                                    *)
Emit(r) ==
    /\ pc[r] = "work"
    /\ emitted' = emitted \cup {r}
    /\ IF rowSt[OpOf[r]] = "none" THEN NewRow(OpOf[r], "pending", r)
       ELSE RowsUnchanged
    /\ UNCHANGED <<holder, pc, outcome, answer, bg, aged, crashes>>

(* Faulty: the context variable alone decides, whatever task emits.         *)
BackgroundEmitMarks(r) ==
    /\ pc[r] \in {"work", "forget", "relookup", "record", "replace", "end"}
    /\ outcome[r] \in {"none", "ok", "failed"}
    /\ answer[r] \in {r, NoReq}
    /\ r \notin bg
    /\ bg' = bg \cup {r}
    /\ IF rowSt[OpOf[r]] = "none" THEN NewRow(OpOf[r], "pending", r)
       ELSE RowsUnchanged
    /\ UNCHANGED <<holder, pc, outcome, answer, emitted, aged, crashes>>

(* A task the handler started emits later, perhaps long after the response. *)
(* It inherits the context variable but is not the op's task: no marker.    *)
BackgroundEmit(r) ==
    /\ pc[r] \in {"work", "forget", "relookup", "record", "replace", "end"}
    /\ outcome[r] \in {"none", "ok", "failed"}
    /\ answer[r] \in {r, NoReq}
    /\ r \notin bg
    /\ bg' = bg \cup {r}
    /\ UNCHANGED <<rowSt, rowRun, rowOld, holder, pc, outcome, answer, emitted,
                   aged, crashes>>

WorkFails(r) ==
    /\ pc[r] = "work"
    /\ pc' = [pc EXCEPT ![r] = "forget"]
    /\ UNCHANGED <<rowSt, rowRun, rowOld, holder, outcome, answer, emitted, bg,
                   aged, crashes>>

(* forget_pending drops the marker, never a finished result.                *)
ForgetPending(r) ==
    /\ pc[r] = "forget"
    /\ IF rowSt[OpOf[r]] = "pending" THEN NoRow(OpOf[r]) ELSE RowsUnchanged
    /\ Reply(r, "failed", NoReq)
    /\ UNCHANGED <<emitted, bg, aged, crashes>>

WorkReturns(r) ==
    /\ pc[r] = "work"
    /\ pc' = [pc EXCEPT ![r] = "relookup"]
    /\ UNCHANGED <<rowSt, rowRun, rowOld, holder, outcome, answer, emitted, bg,
                   aged, crashes>>

Relookup(r) ==
    /\ pc[r] = "relookup"
    /\ LookupRow(OpOf[r])
    /\ pc' = [pc EXCEPT ![r] = IF Found(OpOf[r]) THEN "replace" ELSE "record"]
    /\ UNCHANGED <<holder, outcome, answer, emitted, bg, aged, crashes>>

Record(r) ==
    /\ pc[r] = "record"
    /\ NewRow(OpOf[r], "done", r)
    /\ Reply(r, "ok", r)
    /\ UNCHANGED <<emitted, bg, aged, crashes>>

(* replace_result does nothing when retention dropped the marker meanwhile; *)
(* it keeps the marker's created_at.                                        *)
ReplaceResult(r) ==
    /\ pc[r] = "replace"
    /\ rowSt' = [rowSt EXCEPT ![OpOf[r]] = IF @ = "none" THEN "none" ELSE "done"]
    /\ rowRun' = [rowRun EXCEPT ![OpOf[r]] =
                    IF rowSt[OpOf[r]] = "none" THEN @ ELSE r]
    /\ Reply(r, "ok", r)
    /\ UNCHANGED <<rowOld, emitted, bg, aged, crashes>>

-----------------------------------------------------------------------------
(* Time, retention and crashes.                                             *)

Age(o) ==
    /\ rowSt[o] # "none"
    /\ o \notin rowOld
    /\ rowOld' = rowOld \cup {o}
    /\ aged' = aged \cup {o}
    /\ UNCHANGED <<rowSt, rowRun, holder, pc, outcome, answer, emitted, bg,
                   crashes>>

Prune ==
    /\ rowOld # {}
    /\ PruneRows
    /\ UNCHANGED <<holder, pc, outcome, answer, emitted, bg, aged, crashes>>

(* The host dies and starts again: requests in flight are lost, the locks   *)
(* are new, the table stays; startup prunes before it accepts a session.    *)
Crash ==
    /\ crashes < MaxCrashes
    /\ crashes' = crashes + 1
    /\ pc' = [r \in Reqs |-> IF pc[r] \in Busy THEN "end" ELSE pc[r]]
    /\ outcome' = [r \in Reqs |-> IF pc[r] \in Busy THEN "lost" ELSE outcome[r]]
    /\ holder' = [o \in Ops |-> NoReq]
    /\ PruneRows
    /\ UNCHANGED <<answer, emitted, bg, aged>>

Done ==
    /\ \A r \in Reqs : pc[r] = "end"
    /\ UNCHANGED vars

Step(r) ==
    \/ Replay(r) \/ StartWork(r) \/ WorkReturns(r) \/ Relookup(r) \/ Record(r)
    \/ ReplaceResult(r) \/ ForgetPending(r)

Next ==
    \/ \E r \in Reqs :
         Enter(r) \/ Step(r) \/ Emit(r) \/ BackgroundEmit(r) \/ WorkFails(r)
    \/ \E o \in Ops : Age(o)
    \/ Prune
    \/ Crash
    \/ Done

Spec == Init /\ [][Next]_vars

(* The event loop runs every ready coroutine, handlers return, and          *)
(* asyncio.Lock wakes its waiters first come first served.                  *)
FairSpec ==
    /\ Spec
    /\ \A r \in Reqs : WF_vars(Step(r)) /\ SF_vars(Enter(r))

-----------------------------------------------------------------------------
(* Properties.                                                              *)

(* Hub._lock_for: two requests with one op_id are never inside claim_op     *)
(* together, so no handler runs beside a second run of the same call.       *)
OneRunAtATime ==
    \A r, s \in Reqs :
        OpOf[r] = OpOf[s] /\ pc[r] \in Busy /\ pc[s] \in Busy => r = s

(* A run that left a mark the outside can see and did not report failure.   *)
Committed(r) ==
    /\ r \in emitted \/ (outcome[r] = "ok" /\ answer[r] = r)
    /\ outcome[r] # "failed"
    /\ pc[r] # "forget"

(* claim_op: "Run work once per op_id": within the retention at most one    *)
(* run of an op commits an event or returns a result, even when the host    *)
(* crashes between the event and the result; only a failed run is repeated. *)
CommittedOnce ==
    \A r, s \in Reqs :
        /\ OpOf[r] = OpOf[s]
        /\ OpOf[r] \notin aged
        /\ Committed(r)
        /\ Committed(s)
        => r = s

(* "replay the stored result after that": every caller told ok got the      *)
(* result of one run, of its own method and params.                         *)
AnswersAgree ==
    \A r, s \in Reqs :
        /\ outcome[r] = "ok"
        /\ outcome[s] = "ok"
        /\ OpOf[r] = OpOf[s]
        /\ OpOf[r] \notin aged
        => answer[r] = answer[s] /\ MethodOf[answer[r]] = MethodOf[r]

(* "A failed op must not stay in progress": a marker in the table belongs   *)
(* to a run that is still inside claim_op or died with the host. Background *)
(* tasks "must not race its result with a late pending marker".             *)
NoOrphanMarker ==
    \A o \in Ops :
        rowSt[o] = "pending" =>
            /\ OpOf[rowRun[o]] = o
            /\ \/ pc[rowRun[o]] \in {"work", "forget", "relookup", "replace"}
               \/ outcome[rowRun[o]] = "lost"

(* record inserts under the op_id primary key: the row is never already     *)
(* there, or a finished call would be reported as failed.                   *)
RecordIsFresh == \A r \in Reqs : pc[r] = "record" => rowSt[OpOf[r]] = "none"

(* The per-op lock starves no one: a call is answered or dies with the host.*)
EveryCallEnds == \A r \in Reqs : pc[r] = "sent" ~> pc[r] = "end"
=============================================================================
