---------------------------- MODULE OpLogProofs ----------------------------
(***************************************************************************)
(* Idempotency of mutating calls, for any number of ops, requests and       *)
(* crashes. The inductive invariant ties the lock to the program counters,  *)
(* the row to the run inside the lock, and every committed run to its row.  *)
(***************************************************************************)
EXTENDS OpLog, TLAPS

Running == {"work", "forget", "relookup", "record", "replace"}

(* The lock's holder is exactly the request inside claim_op, and a request  *)
(* that has not ended was told nothing.                                     *)
LockInv ==
    \A r \in Reqs :
        /\ pc[r] \in Busy <=> holder[OpOf[r]] = r
        /\ pc[r] # "end" => outcome[r] = "none"

(* While a run is inside the lock, the only row there can be is its marker. *)
RunInv ==
    \A r \in Reqs :
        /\ pc[r] \in Running /\ rowSt[OpOf[r]] # "none" =>
               rowSt[OpOf[r]] = "pending" /\ rowRun[OpOf[r]] = r
        /\ pc[r] = "record" => rowSt[OpOf[r]] = "none"
        /\ pc[r] = "replace" /\ OpOf[r] \notin aged => rowSt[OpOf[r]] # "none"

(* A result row holds the result its run was answered with.                 *)
DoneInv ==
    \A o \in Ops :
        /\ rowSt[o] = "done" =>
               /\ OpOf[rowRun[o]] = o
               /\ outcome[rowRun[o]] = "ok"
               /\ answer[rowRun[o]] = rowRun[o]
        /\ o \in rowOld => o \in aged

(* Until retention passes, a run that committed and did not fail owns the   *)
(* row of its op. This is what a crash must not destroy.                    *)
CommitInv ==
    \A r \in Reqs :
        /\ OpOf[r] \notin aged
        /\ r \in emitted \/ (outcome[r] = "ok" /\ answer[r] = r)
        /\ outcome[r] # "failed"
        => rowRun[OpOf[r]] = r

(* A replayed answer comes from a run of the same call that was itself      *)
(* answered with its own result.                                            *)
AnswerInv ==
    \A r \in Reqs :
        outcome[r] = "ok" =>
            /\ answer[r] \in Reqs
            /\ OpOf[answer[r]] = OpOf[r]
            /\ MethodOf[answer[r]] = MethodOf[r]
            /\ outcome[answer[r]] = "ok"
            /\ answer[answer[r]] = answer[r]

IInv ==
    /\ TypeOK
    /\ LockInv
    /\ RunInv
    /\ NoOrphanMarker
    /\ DoneInv
    /\ CommitInv
    /\ AnswerInv

-----------------------------------------------------------------------------
(* The fresh host has an empty table, no locks and no call inside claim_op.  *)
LEMMA InitIInv == Init => IInv
  BY RequestsAssumption
  DEF Init, IInv, TypeOK, LockInv, RunInv, NoOrphanMarker, DoneInv, CommitInv,
      AnswerInv, Busy, Running

(* Every step of claim_op keeps the types.                                  *)
LEMMA TypeStep == TypeOK /\ [Next]_vars => TypeOK'
<1> SUFFICES ASSUME TypeOK, [Next]_vars PROVE TypeOK'
  OBVIOUS
<1> USE RequestsAssumption DEF TypeOK, Busy
<1>1. ASSUME NEW r \in Reqs, Enter(r) PROVE TypeOK'
  BY <1>1 DEF Enter
<1>2. ASSUME NEW r \in Reqs, Replay(r) PROVE TypeOK'
  BY <1>2 DEF Replay, Reply
<1>3. ASSUME NEW r \in Reqs, StartWork(r) PROVE TypeOK'
  BY <1>3 DEF StartWork, LookupRow, NoRow, RowsUnchanged
<1>4. ASSUME NEW r \in Reqs, Emit(r) PROVE TypeOK'
  BY <1>4 DEF Emit, NewRow, RowsUnchanged
<1>5. ASSUME NEW r \in Reqs, BackgroundEmit(r) PROVE TypeOK'
  BY <1>5 DEF BackgroundEmit
<1>6. ASSUME NEW r \in Reqs, WorkFails(r) PROVE TypeOK'
  BY <1>6 DEF WorkFails
<1>7. ASSUME NEW r \in Reqs, ForgetPending(r) PROVE TypeOK'
  BY <1>7 DEF ForgetPending, Reply, NoRow, RowsUnchanged
<1>8. ASSUME NEW r \in Reqs, WorkReturns(r) PROVE TypeOK'
  BY <1>8 DEF WorkReturns
<1>9. ASSUME NEW r \in Reqs, Relookup(r) PROVE TypeOK'
  BY <1>9 DEF Relookup, LookupRow, NoRow, RowsUnchanged
<1>10. ASSUME NEW r \in Reqs, Record(r) PROVE TypeOK'
  BY <1>10 DEF Record, NewRow, Reply
<1>11. ASSUME NEW r \in Reqs, ReplaceResult(r) PROVE TypeOK'
  BY <1>11 DEF ReplaceResult, Reply
<1>12. ASSUME NEW o \in Ops, Age(o) PROVE TypeOK'
  BY <1>12 DEF Age
<1>13. CASE Prune
  BY <1>13 DEF Prune, PruneRows
<1>14. CASE Crash
  BY <1>14 DEF Crash, PruneRows
<1>15. CASE UNCHANGED vars
  BY <1>15 DEF vars
<1>16. QED
  BY <1>1, <1>2, <1>3, <1>4, <1>5, <1>6, <1>7, <1>8, <1>9, <1>10, <1>11,
     <1>12, <1>13, <1>14, <1>15
  DEF Next, Step, Done

(* The lock and the program counters move together, through crashes too.    *)
LEMMA LockStep == TypeOK /\ LockInv /\ [Next]_vars => LockInv'
<1> SUFFICES ASSUME TypeOK, LockInv, [Next]_vars PROVE LockInv'
  OBVIOUS
<1> USE RequestsAssumption DEF TypeOK, LockInv, Busy
<1>1. ASSUME NEW r \in Reqs, Enter(r) PROVE LockInv'
  BY <1>1 DEF Enter
<1>2. ASSUME NEW r \in Reqs, Replay(r) PROVE LockInv'
  BY <1>2 DEF Replay, Reply, Found
<1>3. ASSUME NEW r \in Reqs, StartWork(r) PROVE LockInv'
  BY <1>3 DEF StartWork, LookupRow, NoRow, RowsUnchanged, Found
<1>4. ASSUME NEW r \in Reqs, Emit(r) PROVE LockInv'
  BY <1>4 DEF Emit, NewRow, RowsUnchanged
<1>5. ASSUME NEW r \in Reqs, BackgroundEmit(r) PROVE LockInv'
  BY <1>5 DEF BackgroundEmit
<1>6. ASSUME NEW r \in Reqs, WorkFails(r) PROVE LockInv'
  BY <1>6 DEF WorkFails
<1>7. ASSUME NEW r \in Reqs, ForgetPending(r) PROVE LockInv'
  BY <1>7 DEF ForgetPending, Reply, NoRow, RowsUnchanged
<1>8. ASSUME NEW r \in Reqs, WorkReturns(r) PROVE LockInv'
  BY <1>8 DEF WorkReturns
<1>9. ASSUME NEW r \in Reqs, Relookup(r) PROVE LockInv'
  BY <1>9 DEF Relookup, LookupRow, NoRow, RowsUnchanged, Found
<1>10. ASSUME NEW r \in Reqs, Record(r) PROVE LockInv'
  BY <1>10 DEF Record, NewRow, Reply
<1>11. ASSUME NEW r \in Reqs, ReplaceResult(r) PROVE LockInv'
  BY <1>11 DEF ReplaceResult, Reply
<1>12. ASSUME NEW o \in Ops, Age(o) PROVE LockInv'
  BY <1>12 DEF Age
<1>13. CASE Prune
  BY <1>13 DEF Prune, PruneRows
<1>14. CASE Crash
  BY <1>14 DEF Crash, PruneRows
<1>15. CASE UNCHANGED vars
  BY <1>15 DEF vars
<1>16. QED
  BY <1>1, <1>2, <1>3, <1>4, <1>5, <1>6, <1>7, <1>8, <1>9, <1>10, <1>11, <1>12, <1>13, <1>14, <1>15
  DEF Next, Step, Done

(* No step puts another row under a run that is inside the lock.            *)
LEMMA RunStep == TypeOK /\ LockInv /\ RunInv /\ DoneInv /\ [Next]_vars => RunInv'
<1> SUFFICES ASSUME TypeOK, LockInv, RunInv, DoneInv, [Next]_vars PROVE RunInv'
  OBVIOUS
<1> USE RequestsAssumption DEF TypeOK, LockInv, RunInv, DoneInv, Busy, Running
<1>1. ASSUME NEW r \in Reqs, Enter(r) PROVE RunInv'
  BY <1>1 DEF Enter
<1>2. ASSUME NEW r \in Reqs, Replay(r) PROVE RunInv'
  BY <1>2 DEF Replay, Reply, Found
<1>3. ASSUME NEW r \in Reqs, StartWork(r) PROVE RunInv'
  BY <1>3 DEF StartWork, LookupRow, NoRow, RowsUnchanged, Found
<1>4. ASSUME NEW r \in Reqs, Emit(r) PROVE RunInv'
  BY <1>4 DEF Emit, NewRow, RowsUnchanged
<1>5. ASSUME NEW r \in Reqs, BackgroundEmit(r) PROVE RunInv'
  BY <1>5 DEF BackgroundEmit
<1>6. ASSUME NEW r \in Reqs, WorkFails(r) PROVE RunInv'
  BY <1>6 DEF WorkFails
<1>7. ASSUME NEW r \in Reqs, ForgetPending(r) PROVE RunInv'
  BY <1>7 DEF ForgetPending, Reply, NoRow, RowsUnchanged
<1>8. ASSUME NEW r \in Reqs, WorkReturns(r) PROVE RunInv'
  BY <1>8 DEF WorkReturns
<1>9. ASSUME NEW r \in Reqs, Relookup(r) PROVE RunInv'
  BY <1>9 DEF Relookup, LookupRow, NoRow, RowsUnchanged, Found
<1>10. ASSUME NEW r \in Reqs, Record(r) PROVE RunInv'
  BY <1>10 DEF Record, NewRow, Reply
<1>11. ASSUME NEW r \in Reqs, ReplaceResult(r) PROVE RunInv'
  BY <1>11 DEF ReplaceResult, Reply
<1>12. ASSUME NEW o \in Ops, Age(o) PROVE RunInv'
  BY <1>12 DEF Age
<1>13. CASE Prune
  BY <1>13 DEF Prune, PruneRows
<1>14. CASE Crash
  BY <1>14 DEF Crash, PruneRows
<1>15. CASE UNCHANGED vars
  BY <1>15 DEF vars
<1>16. QED
  BY <1>1, <1>2, <1>3, <1>4, <1>5, <1>6, <1>7, <1>8, <1>9, <1>10, <1>11, <1>12, <1>13, <1>14, <1>15
  DEF Next, Step, Done

(* A marker leaves the table before its run reports failure.                *)
LEMMA MarkerStep == TypeOK /\ LockInv /\ RunInv /\ NoOrphanMarker /\ [Next]_vars => NoOrphanMarker'
<1> SUFFICES ASSUME TypeOK, LockInv, RunInv, NoOrphanMarker, [Next]_vars PROVE NoOrphanMarker'
  OBVIOUS
<1> USE RequestsAssumption DEF TypeOK, LockInv, RunInv, NoOrphanMarker, Busy, Running
<1>1. ASSUME NEW r \in Reqs, Enter(r) PROVE NoOrphanMarker'
  BY <1>1 DEF Enter
<1>2. ASSUME NEW r \in Reqs, Replay(r) PROVE NoOrphanMarker'
  BY <1>2 DEF Replay, Reply, Found
<1>3. ASSUME NEW r \in Reqs, StartWork(r) PROVE NoOrphanMarker'
  BY <1>3 DEF StartWork, LookupRow, NoRow, RowsUnchanged, Found
<1>4. ASSUME NEW r \in Reqs, Emit(r) PROVE NoOrphanMarker'
  BY <1>4 DEF Emit, NewRow, RowsUnchanged
<1>5. ASSUME NEW r \in Reqs, BackgroundEmit(r) PROVE NoOrphanMarker'
  BY <1>5 DEF BackgroundEmit
<1>6. ASSUME NEW r \in Reqs, WorkFails(r) PROVE NoOrphanMarker'
  BY <1>6 DEF WorkFails
<1>7. ASSUME NEW r \in Reqs, ForgetPending(r) PROVE NoOrphanMarker'
  BY <1>7 DEF ForgetPending, Reply, NoRow, RowsUnchanged
<1>8. ASSUME NEW r \in Reqs, WorkReturns(r) PROVE NoOrphanMarker'
  BY <1>8 DEF WorkReturns
<1>9. ASSUME NEW r \in Reqs, Relookup(r) PROVE NoOrphanMarker'
  BY <1>9 DEF Relookup, LookupRow, NoRow, RowsUnchanged, Found
<1>10. ASSUME NEW r \in Reqs, Record(r) PROVE NoOrphanMarker'
  BY <1>10 DEF Record, NewRow, Reply
<1>11. ASSUME NEW r \in Reqs, ReplaceResult(r) PROVE NoOrphanMarker'
  BY <1>11 DEF ReplaceResult, Reply
<1>12. ASSUME NEW o \in Ops, Age(o) PROVE NoOrphanMarker'
  BY <1>12 DEF Age
<1>13. CASE Prune
  BY <1>13 DEF Prune, PruneRows
<1>14. CASE Crash
  BY <1>14 DEF Crash, PruneRows
<1>15. CASE UNCHANGED vars
  BY <1>15 DEF vars
<1>16. QED
  BY <1>1, <1>2, <1>3, <1>4, <1>5, <1>6, <1>7, <1>8, <1>9, <1>10, <1>11, <1>12, <1>13, <1>14, <1>15
  DEF Next, Step, Done

(* A result row is written with the answer, and only retention removes it.  *)
LEMMA DoneStep == TypeOK /\ LockInv /\ RunInv /\ DoneInv /\ [Next]_vars => DoneInv'
<1> SUFFICES ASSUME TypeOK, LockInv, RunInv, DoneInv, [Next]_vars PROVE DoneInv'
  OBVIOUS
<1> USE RequestsAssumption DEF TypeOK, LockInv, RunInv, DoneInv, Busy, Running
<1>1. ASSUME NEW r \in Reqs, Enter(r) PROVE DoneInv'
  BY <1>1 DEF Enter
<1>2. ASSUME NEW r \in Reqs, Replay(r) PROVE DoneInv'
  BY <1>2 DEF Replay, Reply, Found
<1>3. ASSUME NEW r \in Reqs, StartWork(r) PROVE DoneInv'
  BY <1>3 DEF StartWork, LookupRow, NoRow, RowsUnchanged, Found
<1>4. ASSUME NEW r \in Reqs, Emit(r) PROVE DoneInv'
  BY <1>4 DEF Emit, NewRow, RowsUnchanged
<1>5. ASSUME NEW r \in Reqs, BackgroundEmit(r) PROVE DoneInv'
  BY <1>5 DEF BackgroundEmit
<1>6. ASSUME NEW r \in Reqs, WorkFails(r) PROVE DoneInv'
  BY <1>6 DEF WorkFails
<1>7. ASSUME NEW r \in Reqs, ForgetPending(r) PROVE DoneInv'
  BY <1>7 DEF ForgetPending, Reply, NoRow, RowsUnchanged
<1>8. ASSUME NEW r \in Reqs, WorkReturns(r) PROVE DoneInv'
  BY <1>8 DEF WorkReturns
<1>9. ASSUME NEW r \in Reqs, Relookup(r) PROVE DoneInv'
  BY <1>9 DEF Relookup, LookupRow, NoRow, RowsUnchanged, Found
<1>10. ASSUME NEW r \in Reqs, Record(r) PROVE DoneInv'
  BY <1>10 DEF Record, NewRow, Reply
<1>11. ASSUME NEW r \in Reqs, ReplaceResult(r) PROVE DoneInv'
  BY <1>11 DEF ReplaceResult, Reply
<1>12. ASSUME NEW o \in Ops, Age(o) PROVE DoneInv'
  BY <1>12 DEF Age
<1>13. CASE Prune
  BY <1>13 DEF Prune, PruneRows
<1>14. CASE Crash
  BY <1>14 DEF Crash, PruneRows
<1>15. CASE UNCHANGED vars
  BY <1>15 DEF vars
<1>16. QED
  BY <1>1, <1>2, <1>3, <1>4, <1>5, <1>6, <1>7, <1>8, <1>9, <1>10, <1>11, <1>12, <1>13, <1>14, <1>15
  DEF Next, Step, Done

(* A committed run keeps its row until retention passes.                    *)
LEMMA CommitStep == TypeOK /\ LockInv /\ RunInv /\ DoneInv /\ CommitInv /\ [Next]_vars => CommitInv'
<1> SUFFICES ASSUME TypeOK, LockInv, RunInv, DoneInv, CommitInv, [Next]_vars PROVE CommitInv'
  OBVIOUS
<1> USE RequestsAssumption DEF TypeOK, LockInv, RunInv, DoneInv, CommitInv, Busy, Running
<1>1. ASSUME NEW r \in Reqs, Enter(r) PROVE CommitInv'
  BY <1>1 DEF Enter
<1>2. ASSUME NEW r \in Reqs, Replay(r) PROVE CommitInv'
  BY <1>2 DEF Replay, Reply, Found
<1>3. ASSUME NEW r \in Reqs, StartWork(r) PROVE CommitInv'
  BY <1>3 DEF StartWork, LookupRow, NoRow, RowsUnchanged, Found
<1>4. ASSUME NEW r \in Reqs, Emit(r) PROVE CommitInv'
  BY <1>4 DEF Emit, NewRow, RowsUnchanged
<1>5. ASSUME NEW r \in Reqs, BackgroundEmit(r) PROVE CommitInv'
  BY <1>5 DEF BackgroundEmit
<1>6. ASSUME NEW r \in Reqs, WorkFails(r) PROVE CommitInv'
  BY <1>6 DEF WorkFails
<1>7. ASSUME NEW r \in Reqs, ForgetPending(r) PROVE CommitInv'
  BY <1>7 DEF ForgetPending, Reply, NoRow, RowsUnchanged
<1>8. ASSUME NEW r \in Reqs, WorkReturns(r) PROVE CommitInv'
  BY <1>8 DEF WorkReturns
<1>9. ASSUME NEW r \in Reqs, Relookup(r) PROVE CommitInv'
  BY <1>9 DEF Relookup, LookupRow, NoRow, RowsUnchanged, Found
<1>10. ASSUME NEW r \in Reqs, Record(r) PROVE CommitInv'
  BY <1>10 DEF Record, NewRow, Reply
<1>11. ASSUME NEW r \in Reqs, ReplaceResult(r) PROVE CommitInv'
  BY <1>11 DEF ReplaceResult, Reply
<1>12. ASSUME NEW o \in Ops, Age(o) PROVE CommitInv'
  BY <1>12 DEF Age
<1>13. CASE Prune
  BY <1>13 DEF Prune, PruneRows
<1>14. CASE Crash
  BY <1>14 DEF Crash, PruneRows
<1>15. CASE UNCHANGED vars
  BY <1>15 DEF vars
<1>16. QED
  BY <1>1, <1>2, <1>3, <1>4, <1>5, <1>6, <1>7, <1>8, <1>9, <1>10, <1>11, <1>12, <1>13, <1>14, <1>15
  DEF Next, Step, Done

(* A replay hands out what the row holds.                                   *)
LEMMA AnswerStep == TypeOK /\ LockInv /\ RunInv /\ DoneInv /\ AnswerInv /\ [Next]_vars => AnswerInv'
<1> SUFFICES ASSUME TypeOK, LockInv, RunInv, DoneInv, AnswerInv, [Next]_vars PROVE AnswerInv'
  OBVIOUS
<1> USE RequestsAssumption DEF TypeOK, LockInv, RunInv, DoneInv, AnswerInv, Busy, Running
<1>1. ASSUME NEW r \in Reqs, Enter(r) PROVE AnswerInv'
  BY <1>1 DEF Enter
<1>2. ASSUME NEW r \in Reqs, Replay(r) PROVE AnswerInv'
  BY <1>2 DEF Replay, Reply, Found
<1>3. ASSUME NEW r \in Reqs, StartWork(r) PROVE AnswerInv'
  BY <1>3 DEF StartWork, LookupRow, NoRow, RowsUnchanged, Found
<1>4. ASSUME NEW r \in Reqs, Emit(r) PROVE AnswerInv'
  BY <1>4 DEF Emit, NewRow, RowsUnchanged
<1>5. ASSUME NEW r \in Reqs, BackgroundEmit(r) PROVE AnswerInv'
  BY <1>5 DEF BackgroundEmit
<1>6. ASSUME NEW r \in Reqs, WorkFails(r) PROVE AnswerInv'
  BY <1>6 DEF WorkFails
<1>7. ASSUME NEW r \in Reqs, ForgetPending(r) PROVE AnswerInv'
  BY <1>7 DEF ForgetPending, Reply, NoRow, RowsUnchanged
<1>8. ASSUME NEW r \in Reqs, WorkReturns(r) PROVE AnswerInv'
  BY <1>8 DEF WorkReturns
<1>9. ASSUME NEW r \in Reqs, Relookup(r) PROVE AnswerInv'
  BY <1>9 DEF Relookup, LookupRow, NoRow, RowsUnchanged, Found
<1>10. ASSUME NEW r \in Reqs, Record(r) PROVE AnswerInv'
  BY <1>10 DEF Record, NewRow, Reply
<1>11. ASSUME NEW r \in Reqs, ReplaceResult(r) PROVE AnswerInv'
  BY <1>11 DEF ReplaceResult, Reply
<1>12. ASSUME NEW o \in Ops, Age(o) PROVE AnswerInv'
  BY <1>12 DEF Age
<1>13. CASE Prune
  BY <1>13 DEF Prune, PruneRows
<1>14. CASE Crash
  BY <1>14 DEF Crash, PruneRows
<1>15. CASE UNCHANGED vars
  BY <1>15 DEF vars
<1>16. QED
  BY <1>1, <1>2, <1>3, <1>4, <1>5, <1>6, <1>7, <1>8, <1>9, <1>10, <1>11, <1>12, <1>13, <1>14, <1>15
  DEF Next, Step, Done

(* The inductive invariant holds in every reachable state.                  *)
THEOREM OpLogInductive == Spec => []IInv
<1>1. IInv /\ [Next]_vars => IInv'
  BY TypeStep, LockStep, RunStep, MarkerStep, DoneStep, CommitStep, AnswerStep
  DEF IInv
<1>2. QED
  BY InitIInv, <1>1, PTL DEF Spec

(* Types of the table, the locks and the requests.                          *)
THEOREM OpLogTypes == Spec => []TypeOK
<1>1. IInv => TypeOK
  BY DEF IInv
<1>2. QED
  BY OpLogInductive, <1>1, PTL

(* claim_op runs one request of an op_id at a time.                         *)
THEOREM OpLogOneRun == Spec => []OneRunAtATime
<1>1. IInv => OneRunAtATime
  BY DEF IInv, LockInv, OneRunAtATime
<1>2. QED
  BY OpLogInductive, <1>1, PTL

(* Within the retention an op takes effect once, crashes included.          *)
THEOREM OpLogCommittedOnce == Spec => []CommittedOnce
<1>1. IInv => CommittedOnce
  BY DEF IInv, CommitInv, CommittedOnce, Committed
<1>2. QED
  BY OpLogInductive, <1>1, PTL

(* Within the retention every caller of an op gets the same answer.         *)
THEOREM OpLogAnswersAgree == Spec => []AnswersAgree
<1>1. IInv => AnswersAgree
  <2> SUFFICES ASSUME IInv, NEW r \in Reqs, NEW s \in Reqs,
                      outcome[r] = "ok", outcome[s] = "ok",
                      OpOf[r] = OpOf[s], OpOf[r] \notin aged
               PROVE  answer[r] = answer[s] /\ MethodOf[answer[r]] = MethodOf[r]
    BY DEF AnswersAgree
  <2>1. /\ rowRun[OpOf[r]] = answer[r]
        /\ MethodOf[answer[r]] = MethodOf[r]
    BY DEF IInv, AnswerInv, CommitInv
  <2>2. rowRun[OpOf[s]] = answer[s]
    BY DEF IInv, AnswerInv, CommitInv
  <2>3. QED
    BY <2>1, <2>2
<1>2. QED
  BY OpLogInductive, <1>1, PTL

(* A marker never outlives its run, except in a crash.                      *)
THEOREM OpLogNoOrphanMarker == Spec => []NoOrphanMarker
<1>1. IInv => NoOrphanMarker
  BY DEF IInv
<1>2. QED
  BY OpLogInductive, <1>1, PTL

(* The insert of a result never meets an existing row.                      *)
THEOREM OpLogRecordIsFresh == Spec => []RecordIsFresh
<1>1. IInv => RecordIsFresh
  BY DEF IInv, RunInv, RecordIsFresh
<1>2. QED
  BY OpLogInductive, <1>1, PTL
=============================================================================
